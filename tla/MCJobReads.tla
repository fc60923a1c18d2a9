----------------------------- MODULE MCJobReads -----------------------------
(* A job of one of two tokens, read by both in two requests at once; two      *)
(* documents to tell apart.                                                   *)
EXTENDS JobReads, TLC
CONSTANTS j1, t1, t2, doc1, doc2, failure, r1, r2
MCJobs == {j1}
MCTokens == {t1, t2}
MCDocuments == {doc1, doc2}
MCDetails == {failure}
MCTimes == 0..1
MCRequests == {r1, r2}
Symmetry == Permutations(MCTokens) \cup Permutations(MCDocuments) \cup Permutations(MCRequests)
=============================================================================
