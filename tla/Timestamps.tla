----------------------------- MODULE Timestamps -----------------------------
(***************************************************************************)
(* _to_utc_iso (adapters/sqlite.py): timestamps are stored as ISO TEXT in   *)
(* UTC, and SQLite compares them as text, in purge_older_than and in        *)
(* ORDER BY created_at.  isoformat leaves the fraction out when it is zero: *)
(*                                                                         *)
(*     2026-01-02T03:04:05+00:00      2026-01-02T03:04:05.000007+00:00      *)
(*                                                                         *)
(* so instants of one second meet at a "+" on one side and a "." on the     *)
(* other.  A text is the sequence of its fields: the date and time down to  *)
(* the second, whose fixed width makes their order the numbers', then       *)
(* characters and, if there is one, the fraction, of fixed width as well.   *)
(***************************************************************************)
EXTENDS Integers, Sequences

CONSTANT Second     \* instants per second: microseconds in the code

ASSUME SecondAssumption == Second \in Nat \ {0}

\* Character codes.
Plus == 43
Dot  == 46
Zulu == 90

\* Fault: the offset written as Z, which sorts after the dot.
IsoZulu(t) ==
    IF t % Second = 0 THEN <<t \div Second, Zulu>>
    ELSE <<t \div Second, Dot, t % Second, Zulu>>

Iso(t) ==
    IF t % Second = 0 THEN <<t \div Second, Plus>>
    ELSE <<t \div Second, Dot, t % Second, Plus>>

\* Lexicographic order: at the first field where they differ a has the smaller
\* one, or has ended.
TextLess(a, b) ==
    \E i \in 1..Len(b) :
        /\ \A k \in 1..(i - 1) : k <= Len(a) /\ a[k] = b[k]
        /\ i > Len(a) \/ a[i] < b[i]
=============================================================================
