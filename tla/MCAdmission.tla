---------------------------- MODULE MCAdmission ----------------------------
(* Model values for Admission.tla: documents from empty to well beyond the   *)
(* cap, envelopes within the slack and beyond it.                           *)
EXTENDS Admission, TLC

CONSTANTS r1, r2, t1, t2

MCRequests == {r1, r2}
MCTokens   == {t1, t2}
Sizes      == 0 .. MaxBytes + 2
MCUploads  ==
    [size : Sizes, overhead : {Slack, Slack + 1}, declared : {TRUE}, supported : {TRUE}]
        \cup [size : Sizes, overhead : {Slack}, declared : {FALSE}, supported : {TRUE}]
        \cup {[NoUpload EXCEPT !.size = 1]}

Symmetry == Permutations(MCRequests) \cup Permutations(MCTokens)
=============================================================================
