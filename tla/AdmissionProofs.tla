-------------------------- MODULE AdmissionProofs --------------------------
(***************************************************************************)
(* For any uploads, chunk size, cap and slack, any requests and tokens:     *)
(* documents are staged whole and within the cap, what fits is accepted, no *)
(* partial copy is left behind, and access follows the token.               *)
(***************************************************************************)
EXTENDS Admission, TLAPS

\* A token enters the table once, before its secret is shown, and leaves it for
\* good.
TokensInv ==
    /\ tokens \cap revoked = {}
    /\ \A t \in Tokens : command[t] \in {"none", "minted"} => t \notin tokens \cup revoked
    /\ \A t \in Tokens : command[t] \in {"added", "shown"} => t \in tokens \cup revoked

HasFile(r) == pc[r] \in {"reading", "writing", "closing", "unwinding", "staged"}

\* How far the copy of r is.
CopyOK(r) ==
    /\ written[r] <= upload[r].size
    /\ pc[r] \in {"none", "received", "admitted", "opening"} => written[r] = 0
    /\ pc[r] \in {"reading", "writing", "closing", "staged"} => written[r] <= MaxBytes
    /\ pc[r] \in {"reading", "closing", "staged"} => copied[r] = written[r]
    /\ pc[r] \in {"closing", "staged"} => written[r] = upload[r].size
    /\ pc[r] = "unwinding" => upload[r].size > MaxBytes
    /\ HasFile(r) <=> r \in onDisk
    /\ r \notin onDisk => copied[r] = 0
    /\ HasFile(r) \/ pc[r] = "opening" => upload[r].supported

\* What r was told, and why.
AnswerOK(r) ==
    /\ pc[r] # "ended" => answer[r] = "none"
    /\ answer[r] = "413" =>
          upload[r].size > MaxBytes \/ (upload[r].declared /\ upload[r].overhead > Slack)
    /\ answer[r] = "401" => token[r] \in revoked \cup {NoToken}

\* A token that was revoked when r came is revoked when it is looked up.
AccessOK(r) ==
    /\ pc[r] # "none" => token[r] \in Store!Shown \cup {NoToken}
    /\ r \in late => /\ token[r] \in revoked /\ pc[r] \in {"received", "ended"}
                     /\ answer[r] \in {"none", "401", "413", "cancelled"}

RequestsInv == \A r \in Requests : CopyOK(r) /\ AnswerOK(r) /\ AccessOK(r)

IInv == TypeOK /\ TokensInv /\ RequestsInv

USE InputAssumption DEF Upload, NoUpload

-----------------------------------------------------------------------------
LEMMA InitOK == Init => IInv
  BY DEF Init, Store!Init, IInv, TypeOK, Store!TypeOK, TokensInv, RequestsInv, CopyOK, HasFile,
         AnswerOK, AccessOK

\* The commands move a token forward, and its requests notice nothing.
LEMMA StoreOK ==
    ASSUME IInv, Store!Next, UNCHANGED <<pc, arrival, copy, answer>>
    PROVE  IInv'
<1>1. PICK t \in Tokens : Store!Mint(t) \/ Store!Add(t) \/ Store!Show(t) \/ Store!AddFails(t)
                              \/ Store!Delete(t)
  BY DEF Store!Next
<1> USE DEF Store!Mint, Store!Add, Store!Show, Store!AddFails, Store!Delete, Store!Goes
<1>2. Store!TypeOK' /\ TokensInv'
  BY <1>1 DEF IInv, TypeOK, Store!TypeOK, TokensInv
<1>3. TypeOK'
  BY <1>2 DEF IInv, TypeOK, arrival, copy
<1>4. revoked \subseteq revoked' /\ Store!Shown \subseteq Store!Shown'
  BY <1>1 DEF IInv, TypeOK, Store!TypeOK, Store!Shown
<1>5. RequestsInv'
  BY <1>4 DEF IInv, RequestsInv, CopyOK, HasFile, AnswerOK, AccessOK, arrival, copy
<1> QED
  BY <1>2, <1>3, <1>5 DEF IInv

\* A step of r leaves the other requests and the tokens alone, so it is enough
\* to look at r.
LEMMA OneRequest ==
    ASSUME IInv, NEW r \in Requests, TypeOK', UNCHANGED store,
           \A q \in Requests \ {r} :
               /\ pc'[q] = pc[q] /\ answer'[q] = answer[q]
               /\ upload'[q] = upload[q] /\ token'[q] = token[q] /\ (q \in late' <=> q \in late)
               /\ written'[q] = written[q] /\ copied'[q] = copied[q]
               /\ (q \in onDisk' <=> q \in onDisk),
           CopyOK(r)', AnswerOK(r)', AccessOK(r)'
    PROVE  IInv'
<1>1. TokensInv'
  BY DEF IInv, TokensInv, store
<1>2. \A q \in Requests \ {r} : CopyOK(q)' /\ AnswerOK(q)' /\ AccessOK(q)'
  BY DEF IInv, RequestsInv, CopyOK, HasFile, AnswerOK, AccessOK, Store!Shown, store
<1> QED
  BY <1>1, <1>2 DEF IInv, RequestsInv

LEMMA ArriveOK ==
    ASSUME IInv, NEW r \in Requests, NEW u \in Uploads,
           NEW t \in Store!Shown \cup {NoToken}, Arrive(r, u, t)
    PROVE  IInv'
<1> USE DEF Arrive, Ends, Goes, store, copy
<1>1. TypeOK'
  BY DEF IInv, TypeOK, Store!TypeOK, Store!Shown
<1>2. CopyOK(r)'
  BY DEF IInv, TypeOK, RequestsInv, CopyOK, HasFile
<1>3. AnswerOK(r)'
  BY DEF IInv, TypeOK, RequestsInv, AnswerOK, Oversized
<1>4. AccessOK(r)'
  BY DEF IInv, TypeOK, RequestsInv, AnswerOK, AccessOK, Store!Shown
<1> QED
  BY <1>1, <1>2, <1>3, <1>4, OneRequest DEF IInv, TypeOK

LEMMA AuthenticateOK ==
    ASSUME IInv, NEW r \in Requests, Authenticate(r)
    PROVE  IInv'
<1> USE DEF Authenticate, Ends, Goes, store, arrival, copy
<1>1. TypeOK'
  BY DEF IInv, TypeOK, Store!TypeOK
<1>2. CopyOK(r)'
  BY DEF IInv, TypeOK, RequestsInv, CopyOK, HasFile
<1>4. Finds(r) => token[r] \notin revoked
  BY DEF IInv, TokensInv, Finds, Store!Find
<1>5. ~Finds(r) => token[r] \in revoked \cup {NoToken}
  BY DEF IInv, TypeOK, TokensInv, RequestsInv, AccessOK, Finds, Store!Find, Store!Shown
<1>6. AnswerOK(r)'
  BY <1>5 DEF IInv, TypeOK, RequestsInv, AnswerOK
<1>7. AccessOK(r)'
  BY <1>4 DEF IInv, TypeOK, RequestsInv, AnswerOK, AccessOK, Store!Shown
<1> QED
  BY <1>1, <1>2, <1>6, <1>7, OneRequest DEF IInv, TypeOK

LEMMA CheckFormatOK ==
    ASSUME IInv, NEW r \in Requests, CheckFormat(r)
    PROVE  IInv'
<1> USE DEF CheckFormat, Ends, Goes, store, arrival, copy
<1>1. TypeOK'
  BY DEF IInv, TypeOK, Store!TypeOK, RequestsInv, CopyOK
<1>2. CopyOK(r)'
  BY DEF IInv, TypeOK, RequestsInv, CopyOK, HasFile
<1>3. AnswerOK(r)'
  BY DEF IInv, TypeOK, RequestsInv, CopyOK, AnswerOK
<1>4. AccessOK(r)'
  BY DEF IInv, TypeOK, RequestsInv, AnswerOK, AccessOK, Store!Shown
<1> QED
  BY <1>1, <1>2, <1>3, <1>4, OneRequest DEF IInv, TypeOK

LEMMA OpenDestOK ==
    ASSUME IInv, NEW r \in Requests, OpenDest(r)
    PROVE  IInv'
<1> USE DEF OpenDest, Goes, store, arrival, copy
<1>1. TypeOK'
  BY DEF IInv, TypeOK, Store!TypeOK, RequestsInv, CopyOK
<1>2. CopyOK(r)'
  BY DEF IInv, TypeOK, RequestsInv, CopyOK, HasFile
<1>3. AnswerOK(r)'
  BY DEF IInv, TypeOK, RequestsInv, CopyOK, AnswerOK
<1>4. AccessOK(r)'
  BY DEF IInv, TypeOK, RequestsInv, AnswerOK, AccessOK, Store!Shown
<1> QED
  BY <1>1, <1>2, <1>3, <1>4, OneRequest DEF IInv, TypeOK

\* A chunk that does not fit leads to the unwinding, before it is written.
LEMMA ReadChunkOK ==
    ASSUME IInv, NEW r \in Requests, ReadChunk(r)
    PROVE  IInv'
<1> USE DEF ReadChunk, TooLarge, Goes, store, arrival, copy
<1>1. TypeOK'
  BY DEF IInv, TypeOK, Store!TypeOK, RequestsInv, CopyOK
<1>2. CopyOK(r)'
  BY DEF IInv, TypeOK, RequestsInv, CopyOK, HasFile
<1>3. AnswerOK(r)'
  BY DEF IInv, TypeOK, RequestsInv, CopyOK, AnswerOK
<1>4. AccessOK(r)'
  BY DEF IInv, TypeOK, RequestsInv, AnswerOK, AccessOK, Store!Shown
<1> QED
  BY <1>1, <1>2, <1>3, <1>4, OneRequest DEF IInv, TypeOK

LEMMA ReadEndOK ==
    ASSUME IInv, NEW r \in Requests, ReadEnd(r)
    PROVE  IInv'
<1> USE DEF ReadEnd, Goes, store, arrival, copy
<1>1. TypeOK'
  BY DEF IInv, TypeOK, Store!TypeOK, RequestsInv, CopyOK
<1>2. CopyOK(r)'
  BY DEF IInv, TypeOK, RequestsInv, CopyOK, HasFile
<1>3. AnswerOK(r)'
  BY DEF IInv, TypeOK, RequestsInv, CopyOK, AnswerOK
<1>4. AccessOK(r)'
  BY DEF IInv, TypeOK, RequestsInv, AnswerOK, AccessOK, Store!Shown
<1> QED
  BY <1>1, <1>2, <1>3, <1>4, OneRequest DEF IInv, TypeOK

LEMMA WriteChunkOK ==
    ASSUME IInv, NEW r \in Requests, WriteChunk(r)
    PROVE  IInv'
<1> USE DEF WriteChunk, Goes, store, arrival, copy
<1>1. TypeOK'
  BY DEF IInv, TypeOK, Store!TypeOK, RequestsInv, CopyOK
<1>2. CopyOK(r)'
  BY DEF IInv, TypeOK, RequestsInv, CopyOK, HasFile
<1>3. AnswerOK(r)'
  BY DEF IInv, TypeOK, RequestsInv, CopyOK, AnswerOK
<1>4. AccessOK(r)'
  BY DEF IInv, TypeOK, RequestsInv, AnswerOK, AccessOK, Store!Shown
<1> QED
  BY <1>1, <1>2, <1>3, <1>4, OneRequest DEF IInv, TypeOK

LEMMA CloseDestOK ==
    ASSUME IInv, NEW r \in Requests, CloseDest(r)
    PROVE  IInv'
<1> USE DEF CloseDest, Goes, store, arrival, copy
<1>1. TypeOK'
  BY DEF IInv, TypeOK, Store!TypeOK, RequestsInv, CopyOK
<1>2. CopyOK(r)'
  BY DEF IInv, TypeOK, RequestsInv, CopyOK, HasFile
<1>3. AnswerOK(r)'
  BY DEF IInv, TypeOK, RequestsInv, CopyOK, AnswerOK
<1>4. AccessOK(r)'
  BY DEF IInv, TypeOK, RequestsInv, AnswerOK, AccessOK, Store!Shown
<1> QED
  BY <1>1, <1>2, <1>3, <1>4, OneRequest DEF IInv, TypeOK

\* However the copy ends early, its file is gone.
LEMMA UnwindOK ==
    ASSUME IInv, NEW r \in Requests, Unwind(r)
    PROVE  IInv'
<1> USE DEF Unwind, Unlinks, Ends, Goes, store, arrival, copy
<1>1. TypeOK'
  BY DEF IInv, TypeOK, Store!TypeOK, RequestsInv, CopyOK
<1>2. CopyOK(r)'
  BY DEF IInv, TypeOK, RequestsInv, CopyOK, HasFile
<1>3. AnswerOK(r)'
  BY DEF IInv, TypeOK, RequestsInv, CopyOK, AnswerOK
<1>4. AccessOK(r)'
  BY DEF IInv, TypeOK, RequestsInv, AnswerOK, AccessOK, Store!Shown
<1> QED
  BY <1>1, <1>2, <1>3, <1>4, OneRequest DEF IInv, TypeOK

LEMMA FileFailsOK ==
    ASSUME IInv, NEW r \in Requests, FileFails(r)
    PROVE  IInv'
<1> USE DEF FileFails, Spooling, Unlinks, Ends, Goes, store, arrival, copy
<1>1. TypeOK'
  BY DEF IInv, TypeOK, Store!TypeOK, RequestsInv, CopyOK
<1>2. CopyOK(r)'
  BY DEF IInv, TypeOK, RequestsInv, CopyOK, HasFile
<1>3. AnswerOK(r)'
  BY DEF IInv, TypeOK, RequestsInv, CopyOK, AnswerOK
<1>4. AccessOK(r)'
  BY DEF IInv, TypeOK, RequestsInv, AnswerOK, AccessOK, Store!Shown
<1> QED
  BY <1>1, <1>2, <1>3, <1>4, OneRequest DEF IInv, TypeOK

LEMMA CancelledOK ==
    ASSUME IInv, NEW r \in Requests, Cancelled(r)
    PROVE  IInv'
<1> USE DEF Cancelled, Spooling, Unlinks, Ends, Goes, store, arrival, copy
<1>1. TypeOK'
  BY DEF IInv, TypeOK, Store!TypeOK, RequestsInv, CopyOK
<1>2. CopyOK(r)'
  BY DEF IInv, TypeOK, RequestsInv, CopyOK, HasFile
<1>3. AnswerOK(r)'
  BY DEF IInv, TypeOK, RequestsInv, CopyOK, AnswerOK
<1>4. AccessOK(r)'
  BY DEF IInv, TypeOK, RequestsInv, AnswerOK, AccessOK, Store!Shown
<1> QED
  BY <1>1, <1>2, <1>3, <1>4, OneRequest DEF IInv, TypeOK

-----------------------------------------------------------------------------
\* Every request, in every interleaving with the others and with the token
\* commands, keeps the invariant.
THEOREM Inductive == Spec => []IInv
<1>1. IInv /\ [Next]_vars => IInv'
  <2> SUFFICES ASSUME IInv, [Next]_vars PROVE IInv'
    OBVIOUS
  <2>1. CASE \E r \in Requests, u \in Uploads, t \in Store!Shown \cup {NoToken} :
                 Arrive(r, u, t)
    BY <2>1, ArriveOK
  <2>2. CASE \E r \in Requests : Steps(r)
    BY <2>2, AuthenticateOK, CheckFormatOK, OpenDestOK, ReadChunkOK, ReadEndOK, WriteChunkOK,
       CloseDestOK, UnwindOK, FileFailsOK, CancelledOK DEF Steps
  <2>3. CASE Store!Next /\ UNCHANGED <<pc, arrival, copy, answer>>
    BY <2>3, StoreOK
  <2>4. CASE UNCHANGED vars
    BY <2>4 DEF vars, store, arrival, copy, IInv, TypeOK, Store!TypeOK, TokensInv, RequestsInv,
       CopyOK, HasFile, AnswerOK, AccessOK, Store!Shown
  <2> QED
    BY <2>1, <2>2, <2>3, <2>4 DEF Next
<1> QED
  BY InitOK, <1>1, PTL DEF Spec

\* No scratch file ever holds more than the cap, partial copies included.
THEOREM TypeCorrect == Spec => []TypeOK
<1>1. IInv => TypeOK
  BY DEF IInv
<1> QED
  BY <1>1, Inductive, PTL

\* What spool_upload hands on is the whole document.
THEOREM StagedIsWhole == Spec => []StagedWhole
<1>1. IInv => StagedWhole
  BY DEF IInv, RequestsInv, CopyOK, HasFile, StagedWhole
<1> QED
  BY <1>1, Inductive, PTL

\* A document within the cap is never answered 413, by the prefilter (unless
\* its envelope outgrows the slack) or by the copy.
THEOREM FitsAccepted == Spec => []FitsIsAccepted
<1>1. IInv => FitsIsAccepted
  BY DEF IInv, RequestsInv, AnswerOK, FitsIsAccepted
<1> QED
  BY <1>1, Inductive, PTL

\* No error and no cancellation of a copy leaves a file in the scratch
\* directory.
THEOREM NoPartialCopy == Spec => []ScratchIsOwned
<1>1. IInv => ScratchIsOwned
  BY DEF IInv, TypeOK, RequestsInv, CopyOK, HasFile, ScratchIsOwned
<1> QED
  BY <1>1, Inductive, PTL

\* require_token admits no request that comes after its token was revoked and
\* refuses none whose token is still there.
THEOREM AccessCorrect == Spec => []AccessFollowsToken
<1>1. IInv => AccessFollowsToken
  BY DEF IInv, RequestsInv, AnswerOK, AccessOK, AccessFollowsToken
<1> QED
  BY <1>1, Inductive, PTL

\* The table has the token of every secret that was shown, until it is revoked.
THEOREM ShownStored == Spec => []Store!ShownIsStored
<1>1. IInv => Store!ShownIsStored
  BY DEF IInv, TokensInv, Store!ShownIsStored, Store!Shown
<1> QED
  BY <1>1, Inductive, PTL
=============================================================================
