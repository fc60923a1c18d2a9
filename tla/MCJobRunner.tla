---------------------------- MODULE MCJobRunner -----------------------------
(* Model values for the job machinery: job ids that are interchangeable, one  *)
(* token, one document, the failure details the runner tells apart in effect. *)
EXTENDS JobRunner, TLC
CONSTANTS j1, j2, t1, doc1, crashed, internal, interrupted
OneJob == {j1}
TwoJobs == {j1, j2}
MCTokens == {t1}
MCDocuments == {doc1}
MCDetails == {crashed, internal, interrupted}
MCParseFailures == {crashed}
MCTimes == 0..1
Symmetry == Permutations(TwoJobs)
=============================================================================
