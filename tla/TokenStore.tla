----------------------------- MODULE TokenStore -----------------------------
(***************************************************************************)
(* SqliteTokenStore (adapters/sqlite.py) and the commands `bscribe token    *)
(* add` and `bscribe token delete` (cli.py), which write the table from     *)
(* processes of their own while the server reads it.                        *)
(*                                                                         *)
(* A token is the record mint_token makes: an id, a label and the hash of   *)
(* one secret.  Ids and secrets are random, so a token of the model stands  *)
(* for its id, its secret and its hash alike.                               *)
(***************************************************************************)
EXTENDS Naturals

CONSTANTS
    Tokens          \* tokens that may be minted

VARIABLES
    tokens,         \* the table
    command,        \* per token, how far the command that adds it has come
    revoked         \* history: the tokens that were deleted

vars == <<tokens, command, revoked>>

Goes(t, where) == command' = [command EXCEPT ![t] = where]

\* find_by_secret_hash: the row of the presented secret, if there is one.
Find(t) == t \in tokens

\* The secrets an operator has been handed.
Shown == {t \in Tokens : command[t] = "shown"}

\* token add: mint_token.
Mint(t) ==
    /\ command[t] = "none"
    /\ Goes(t, "minted")
    /\ UNCHANGED <<tokens, revoked>>

\* The INSERT commits, on a connection of its own.
Add(t) ==
    /\ command[t] = "minted"
    /\ tokens' = tokens \cup {t}
    /\ Goes(t, "added")
    /\ UNCHANGED revoked

\* Fault: the secret is printed before the row is there.
ShowFirst(t) ==
    /\ command[t] \in {"minted", "added"}
    /\ Goes(t, "shown")
    /\ UNCHANGED <<tokens, revoked>>

\* The secret is printed, once.
Show(t) ==
    /\ command[t] = "added"
    /\ Goes(t, "shown")
    /\ UNCHANGED <<tokens, revoked>>

\* The command raises or is killed, before its row is there or after.
AddFails(t) ==
    /\ command[t] \in {"minted", "added"}
    /\ Goes(t, "failed")
    /\ UNCHANGED <<tokens, revoked>>

\* token delete, of an id that token list shows.  An unknown id changes
\* nothing.
Delete(t) ==
    /\ t \in tokens
    /\ tokens' = tokens \ {t}
    /\ revoked' = revoked \cup {t}
    /\ UNCHANGED command

Init ==
    /\ tokens = {}
    /\ command = [t \in Tokens |-> "none"]
    /\ revoked = {}

Next == \E t \in Tokens : Mint(t) \/ Add(t) \/ Show(t) \/ AddFails(t) \/ Delete(t)

Spec == Init /\ [][Next]_vars

TypeOK ==
    /\ tokens \subseteq Tokens
    /\ command \in [Tokens -> {"none", "minted", "added", "shown", "failed"}]
    /\ revoked \subseteq Tokens

\* A secret that was shown opens the API until its token is revoked, and not
\* after (require_token reads the table on every request).
ShownIsStored == \A t \in Shown : t \in tokens <=> t \notin revoked
=============================================================================
