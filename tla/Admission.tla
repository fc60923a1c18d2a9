----------------------------- MODULE Admission -----------------------------
(***************************************************************************)
(* What POST /v1/convert and POST /v1/jobs do with an upload before a       *)
(* document is parsed: the prefilter on the declared length (app.py), the   *)
(* bearer token (auth.py), and the staging ladder (api/staging.py,          *)
(* uploads.py), which copies the upload to the scratch directory in chunks  *)
(* under a cap.  Tokens are added and revoked meanwhile (TokenStore).       *)
(*                                                                         *)
(* External: the server has received the whole body when require_token      *)
(* runs; read returns some bytes of what is left, up to the chunk size; and *)
(* a cancelled file operation raises once its thread is finished with it.   *)
(***************************************************************************)
EXTENDS Naturals

CONSTANTS
    Requests, Tokens,
    NoToken,        \* no secret, or one that was never minted
    Uploads,        \* uploads a client may send, see Upload
    ChunkSize,      \* bytes read at once: CHUNK_SIZE
    MaxBytes,       \* the cap on a document: settings.max_upload_bytes
    Slack           \* what the prefilter adds to it: MULTIPART_OVERHEAD_SLACK

\* The bytes of the document, those of the envelope around it, whether the
\* request declares its length, and whether the file name has a supported
\* extension.
Upload == [size : Nat, overhead : Nat, declared : BOOLEAN, supported : BOOLEAN]

ASSUME InputAssumption ==
    /\ NoToken \notin Tokens /\ Uploads \subseteq Upload
    /\ ChunkSize \in Nat \ {0} /\ MaxBytes \in Nat /\ Slack \in Nat

VARIABLES
    tokens, command, revoked,   \* see TokenStore
    pc,             \* per request, the await it is in, or how it ended
    upload,         \* per request, what its client sent
    token,          \* per request, the token it presents
    late,           \* history: requests that came after their token was revoked
    written,        \* per request, bytes read from the upload so far
    onDisk,         \* requests whose scratch file exists
    copied,         \* per request, bytes in its scratch file
    answer          \* per request, why it ended without a staged document

store   == <<tokens, command, revoked>>
arrival == <<upload, token, late>>
copy    == <<written, onDisk, copied>>
vars    == <<store, pc, arrival, copy, answer>>

Store == INSTANCE TokenStore

Goes(r, where) == pc' = [pc EXCEPT ![r] = where]

\* The request ends with a.
Ends(r, a) == Goes(r, "ended") /\ answer' = [answer EXCEPT ![r] = a]

-----------------------------------------------------------------------------
\* The prefilter.

\* Fault: the envelope is not allowed for.
OversizedStrict(u) == u.declared /\ u.size + u.overhead > MaxBytes

\* reject_oversized_body: a declared length beyond the cap and the slack.
Oversized(u) == u.declared /\ u.size + u.overhead > MaxBytes + Slack

\* A request comes in.  It presents a secret that was shown, or none that is
\* worth anything.
Arrive(r, u, t) ==
    /\ pc[r] = "none"
    /\ upload' = [upload EXCEPT ![r] = u]
    /\ token' = [token EXCEPT ![r] = t]
    /\ late' = IF t \in revoked THEN late \cup {r} ELSE late
    /\ IF Oversized(u) THEN Ends(r, "413") ELSE Goes(r, "received") /\ UNCHANGED answer
    /\ UNCHANGED <<store, copy>>

-----------------------------------------------------------------------------
\* require_token.

\* Fault: tokens are remembered from an earlier request.
FindCached(r) == token[r] \in Store!Shown

Finds(r) == Store!Find(token[r])

Authenticate(r) ==
    /\ pc[r] = "received"
    /\ IF Finds(r) THEN Goes(r, "admitted") /\ UNCHANGED answer ELSE Ends(r, "401")
    /\ UNCHANGED <<store, arrival, copy>>

-----------------------------------------------------------------------------
\* stage_upload and spool_upload.

\* The format is looked at before anything touches the disk.
CheckFormat(r) ==
    /\ pc[r] = "admitted"
    /\ IF upload[r].supported THEN Goes(r, "opening") /\ UNCHANGED answer ELSE Ends(r, "415")
    /\ UNCHANGED <<store, arrival, copy>>

OpenDest(r) ==
    /\ pc[r] = "opening"
    /\ Goes(r, "reading")
    /\ onDisk' = onDisk \cup {r}
    /\ UNCHANGED <<store, arrival, written, copied, answer>>

\* Fault: a document of exactly the cap is too large.
TooLargeAtCap(n) == n >= MaxBytes

TooLarge(n) == n > MaxBytes

\* Fault: a chunk is counted after it is written.
ReadChunkCountingLate(r) ==
    \E n \in 1 .. ChunkSize :
        /\ pc[r] = "reading" /\ written[r] + n <= upload[r].size
        /\ written' = [written EXCEPT ![r] = @ + n]
        /\ Goes(r, IF TooLarge(written[r]) THEN "unwinding" ELSE "writing")
        /\ UNCHANGED <<store, arrival, onDisk, copied, answer>>

\* A chunk is counted before it is written.
ReadChunk(r) ==
    \E n \in 1 .. ChunkSize :
        /\ pc[r] = "reading" /\ written[r] + n <= upload[r].size
        /\ written' = [written EXCEPT ![r] = @ + n]
        /\ Goes(r, IF TooLarge(written[r] + n) THEN "unwinding" ELSE "writing")
        /\ UNCHANGED <<store, arrival, onDisk, copied, answer>>

\* Fault: a chunk that is not full is taken for the last.
ReadEndShort(r) ==
    /\ pc[r] = "reading" /\ (written[r] = upload[r].size \/ written[r] % ChunkSize # 0)
    /\ Goes(r, "closing")
    /\ UNCHANGED <<store, arrival, copy, answer>>

ReadEnd(r) ==
    /\ pc[r] = "reading" /\ written[r] = upload[r].size
    /\ Goes(r, "closing")
    /\ UNCHANGED <<store, arrival, copy, answer>>

WriteChunk(r) ==
    /\ pc[r] = "writing"
    /\ Goes(r, "reading")
    /\ copied' = [copied EXCEPT ![r] = written[r]]
    /\ UNCHANGED <<store, arrival, written, onDisk, answer>>

\* The file is closed and belongs to the handler, hence to WorkerPool's parse
\* or to JobRunner's task.
CloseDest(r) ==
    /\ pc[r] = "closing"
    /\ Goes(r, "staged")
    /\ UNCHANGED <<store, arrival, copy, answer>>

Unlinks(r) == onDisk' = onDisk \ {r} /\ copied' = [copied EXCEPT ![r] = 0]

\* The file is closed, the partial copy deleted, and the error raised.
Unwind(r) ==
    /\ pc[r] = "unwinding"
    /\ Unlinks(r)
    /\ Ends(r, "413")
    /\ UNCHANGED <<store, arrival, written>>

Spooling(r) == pc[r] \in {"opening", "reading", "writing", "closing", "unwinding"}

\* A file operation raises: the disk is full, a spooled body cannot be read.
FileFails(r) ==
    /\ Spooling(r)
    /\ Unlinks(r)
    /\ Ends(r, "500")
    /\ UNCHANGED <<store, arrival, written>>

\* Fault: the partial file is deleted for errors, but not for a cancellation
\* (except Exception).
CancelledKeeping(r) ==
    /\ Spooling(r) \/ pc[r] \in {"received", "admitted"}
    /\ Ends(r, "cancelled")
    /\ UNCHANGED <<store, arrival, copy>>

\* The client is gone or the server stops: cancelled at whatever it awaits.
Cancelled(r) ==
    /\ Spooling(r) \/ pc[r] \in {"received", "admitted"}
    /\ Unlinks(r)
    /\ Ends(r, "cancelled")
    /\ UNCHANGED <<store, arrival, written>>

-----------------------------------------------------------------------------
NoUpload == [size |-> 0, overhead |-> 0, declared |-> FALSE, supported |-> FALSE]

Init ==
    /\ Store!Init
    /\ pc = [r \in Requests |-> "none"]
    /\ upload = [r \in Requests |-> NoUpload]
    /\ token = [r \in Requests |-> NoToken]
    /\ late = {}
    /\ written = [r \in Requests |-> 0]
    /\ onDisk = {}
    /\ copied = [r \in Requests |-> 0]
    /\ answer = [r \in Requests |-> "none"]

Steps(r) ==
    \/ Authenticate(r) \/ CheckFormat(r)
    \/ OpenDest(r) \/ ReadChunk(r) \/ ReadEnd(r) \/ WriteChunk(r) \/ CloseDest(r)
    \/ Unwind(r) \/ FileFails(r) \/ Cancelled(r)

Next ==
    \/ \E r \in Requests, u \in Uploads, t \in Store!Shown \cup {NoToken} : Arrive(r, u, t)
    \/ \E r \in Requests : Steps(r)
    \/ Store!Next /\ UNCHANGED <<pc, arrival, copy, answer>>

Spec == Init /\ [][Next]_vars

-----------------------------------------------------------------------------
TypeOK ==
    /\ Store!TypeOK
    /\ pc \in [Requests -> {"none", "received", "admitted", "opening", "reading", "writing",
                            "closing", "unwinding", "staged", "ended"}]
    /\ upload \in [Requests -> Uploads \cup {NoUpload}]
    /\ token \in [Requests -> Tokens \cup {NoToken}]
    /\ late \subseteq Requests
    /\ written \in [Requests -> Nat]
    /\ onDisk \subseteq Requests
    /\ copied \in [Requests -> 0 .. MaxBytes]
    /\ answer \in [Requests -> {"none", "401", "413", "415", "500", "cancelled"}]

\* A document is handed on whole, whatever the chunks are, and within the cap,
\* which (TypeOK) no copy, partial ones included, ever exceeds on disk.
StagedWhole ==
    \A r \in Requests :
        pc[r] = "staged" => r \in onDisk /\ copied[r] = upload[r].size

\* 413 is for documents beyond the cap: the prefilter never refuses one that
\* fits unless its envelope outgrows the slack, nor does the copy.
FitsIsAccepted ==
    \A r \in Requests :
        answer[r] = "413" =>
            \/ upload[r].size > MaxBytes
            \/ upload[r].declared /\ upload[r].overhead > Slack

\* A scratch file belongs to a request that is being copied or was handed on,
\* whichever step fails or is cancelled, and its document is of a supported
\* format.
ScratchIsOwned ==
    \A r \in onDisk :
        pc[r] \in {"reading", "writing", "closing", "unwinding", "staged"} /\ upload[r].supported

\* A secret opens the API from the moment it is shown until its token is
\* revoked, although commands and requests interleave freely: no request that
\* comes later is admitted, and none is refused whose token is still there.
AccessFollowsToken ==
    \A r \in Requests :
        /\ r \in late => pc[r] \in {"received", "ended"}
                         /\ answer[r] \in {"none", "401", "413", "cancelled"}
        /\ answer[r] = "401" => token[r] \in revoked \cup {NoToken}
=============================================================================
