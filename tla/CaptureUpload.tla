---------------------------- MODULE CaptureUpload ----------------------------
(***************************************************************************)
(* The resumable upload of one capture (web/src/record/uploadResume.ts,    *)
(* uploadCapture.ts, workspace.ts::uploadCutToDatabase) and the check that *)
(* decides whether its local copy is redundant (captureUploadState.ts).    *)
(* Three callers share one UploadProgress: the Save dialog ("live"), the   *)
(* local capture page ("view") and Settings > Local Captures ("list").     *)
(* Every request can succeed, fail, or commit and lose its reply.          *)
(***************************************************************************)
EXTENDS Integers, FiniteSets, FiniteSetsExt

CONSTANTS
    MatWritten,   \* summary.mat_written: the recorder wrote a capture.mat
    MaxFaults,    \* bound: failed requests, lost replies, removed files and reloads
    MaxOthers     \* bound: attempts from the Save dialog and the capture page

ASSUME UploadAssumption == MatWritten \in BOOLEAN /\ MaxFaults \in Nat /\ MaxOthers \in Nat

VARIABLES
    db,       \* ops: operation rows of this capture; ana: analysis rows [op, cache, mat]
    prog,     \* progressByCapture: what earlier attempts finished
    up,       \* per caller: where its attempt is
    shown,    \* what the list shows: "unknown", "no", "partial", "uploaded"
    past      \* ghost: faults so far, whether a lookup failed, two attempts overlapped, a link was removed

uploadVars == <<db, prog, up, shown, past>>

Callers == {"live", "view", "list"}
Nil == "nil"
NoRow == [id |-> 0, op |-> 0, cache |-> Nil, mat |-> Nil]

NoProgress == [op |-> 0, attempted |-> FALSE, mat |-> Nil, cache |-> Nil, done |-> FALSE, row |-> NoRow]
IdleUpload == [at |-> "idle", existing |-> FALSE, cache |-> "skip", mat |-> "skip", matFailed |-> FALSE, op |-> 0]

UploadInit ==
    /\ db = [ops |-> {}, ana |-> {}]
    /\ prog = NoProgress
    /\ up = [u \in Callers |-> IdleUpload]
    /\ shown = "unknown"
    /\ past = [faults |-> 0, lookupFailed |-> FALSE, overlapped |-> FALSE, removed |-> FALSE, everRemoved |-> FALSE, live |-> TRUE, others |-> 0]

Uploading(u) == up[u].at # "idle"
UploadFault == past.faults < MaxFaults
UploadFaulted(p) == [p EXCEPT !.faults = @ + 1]

\* A .mat that the recorder never wrote counts as there.
MatThere(m) == m # Nil \/ ~MatWritten

analysisComplete(rows) == \E r \in rows : r.cache # Nil /\ MatThere(r.mat)

----------------------------------------------------------------------------
(* uploadCutToDatabase() / uploadCaptureColdStart(), request by request.   *)

\* What ensureOperation() does first with what is remembered.
Entry(u) ==
    CASE prog.done /\ prog.op # 0 -> "returned"
      [] prog.op # 0 /\ ~prog.done -> "adopt"
      [] prog.op = 0 /\ (prog.attempted \/ u # "live") -> "lookup"
      [] OTHER -> "insert"

\* The Save dialog is modal and, once left, closed for good; the page and the list do
\* not know of each other.
BeginUpload(u) ==
    /\ ~Uploading(u) /\ shown # "uploaded"
    /\ u = "live" => past.live /\ \A o \in Callers : ~Uploading(o)
    /\ u # "live" => ~Uploading("live")
    /\ u = "list" => shown # "unknown"
    /\ u # "list" => past.others < MaxOthers
    /\ LET e == Entry(u) IN
       /\ up' = [up EXCEPT ![u] = [IdleUpload EXCEPT !.at = e, !.existing = e = "adopt", !.op = prog.op]]
       /\ prog' = IF e = "insert" THEN [prog EXCEPT !.attempted = TRUE] ELSE prog
    /\ past' = [past EXCEPT !.overlapped = @ \/ \E o \in Callers \ {u} : Uploading(o), !.live = @ /\ u = "live",
                            !.others = IF u = "list" THEN @ ELSE @ + 1]
    /\ UNCHANGED <<db, shown>>

\* findOperationForCapture(): the oldest row of this capture, when there is one.
LookupAnswered(u) ==
    /\ up[u].at = "lookup"
    /\ IF db.ops # {}
       THEN /\ prog' = [prog EXCEPT !.op = Min(db.ops)]
            /\ up' = [up EXCEPT ![u].at = "adopt", ![u].existing = TRUE, ![u].op = Min(db.ops)]
       ELSE /\ prog' = [prog EXCEPT !.attempted = TRUE]
            /\ up' = [up EXCEPT ![u].at = "insert"]
    /\ UNCHANGED <<db, shown, past>>

\* Best effort: an unanswered lookup goes on to insert.
LookupFails(u) ==
    /\ up[u].at = "lookup" /\ UploadFault
    /\ prog' = [prog EXCEPT !.attempted = TRUE]
    /\ up' = [up EXCEPT ![u].at = "insert"]
    /\ past' = [UploadFaulted(past) EXCEPT !.lookupFailed = TRUE]
    /\ UNCHANGED <<db, shown>>

\* POST manufacturing_operations: "ok", or "lost" after the commit, or "failed".
InsertOperation(u, reply) ==
    LET new == Cardinality(db.ops) + 1 IN
    /\ up[u].at = "insert" /\ (reply # "ok" => UploadFault)
    /\ db' = IF reply = "failed" THEN db ELSE [db EXCEPT !.ops = @ \union {new}]
    /\ prog' = IF reply = "ok" THEN [prog EXCEPT !.op = new] ELSE prog
    /\ up' = [up EXCEPT ![u].at = IF reply = "ok" THEN "adopt" ELSE "failed", ![u].op = new]
    /\ past' = IF reply = "ok" THEN past ELSE UploadFaulted(past)
    /\ UNCHANGED shown

\* The row of the operation that links the most.
Links(r) == (IF r.cache # Nil THEN 1 ELSE 0) + (IF r.mat # Nil THEN 1 ELSE 0)
findAnalysisRow(op) ==
    LET rows == {r \in db.ana : r.op = op}
    IN  IF rows = {} THEN NoRow ELSE CHOOSE r \in rows : \A o \in rows : Links(o) <= Links(r)

needsBlobs(p) == p.cache = Nil \/ (MatWritten /\ p.mat = Nil)

\* Then the files that are still missing are read and sent, both at once.
FilesOf(p, rec) ==
    IF needsBlobs(p)
    THEN [rec EXCEPT !.at = "files", !.cache = IF p.cache = Nil THEN "send" ELSE "skip",
                     !.mat = IF MatWritten /\ p.mat = Nil THEN "send" ELSE "skip"]
    ELSE [rec EXCEPT !.at = "link"]

\* adoptExistingAnalysis(): what an existing row already links is not sent again.
AdoptExistingAnalysis(u) ==
    /\ up[u].at = "adopt"
    /\ LET row == IF prog.done \/ ~up[u].existing THEN NoRow ELSE findAnalysisRow(up[u].op)
           p == IF row = NoRow THEN prog
                ELSE [prog EXCEPT !.row = row, !.cache = IF row.cache # Nil THEN row.cache ELSE @,
                                  !.mat = IF row.mat # Nil THEN row.mat ELSE @]
       IN  prog' = p /\ up' = [up EXCEPT ![u] = FilesOf(p, up[u])]
    /\ UNCHANGED <<db, shown, past>>

\* An unknown answer stops the attempt.
AdoptFails(u) ==
    /\ up[u].at = "adopt" /\ up[u].existing /\ ~prog.done /\ UploadFault
    /\ up' = [up EXCEPT ![u].at = "failed"]
    /\ past' = UploadFaulted(past)
    /\ UNCHANGED <<db, prog, shown>>

\* uploadCaptureFiles(): each file settles by itself, in either order.
FileSent(u, f, ok) ==
    /\ up[u].at = "files" /\ up[u][f] = "send" /\ (ok \/ UploadFault)
    /\ up' = [up EXCEPT ![u][f] = IF ok THEN "sent" ELSE "lost"]
    /\ prog' = IF ok THEN [prog EXCEPT ![f] = u] ELSE prog
    /\ past' = IF ok THEN past ELSE UploadFaulted(past)
    /\ UNCHANGED <<db, shown>>

\* A lost cache ends the attempt; a lost .mat does not.
FilesSettled(u) ==
    /\ up[u].at = "files" /\ up[u].cache # "send" /\ up[u].mat # "send"
    /\ up' = [up EXCEPT ![u].at = IF up[u].cache = "lost" THEN "failed" ELSE "link",
                        ![u].matFailed = up[u].mat = "lost"]
    /\ UNCHANGED <<db, prog, shown, past>>

\* Where an attempt ends once the analysis row is there.
Ended(u) == IF up[u].matFailed THEN "failed" ELSE "returned"

\* analysisDone, with what is known of the .mat now.
MarkDone(p) == [p EXCEPT !.done = ~(MatWritten /\ p.mat = Nil)]

\* analysisAlreadyLinked(): an existing row gets the links it lacks.
PatchAnalysis(u, reply) ==
    /\ up[u].at = "link" /\ (prog.done \/ prog.row # NoRow) /\ (reply # "ok" => UploadFault /\ ~prog.done)
    /\ LET patch(r) == [r EXCEPT !.cache = IF prog.row.cache = Nil /\ prog.cache # Nil THEN prog.cache ELSE @,
                                 !.mat = IF prog.row.mat = Nil /\ prog.mat # Nil THEN prog.mat ELSE @]
       IN  db' = IF prog.done \/ reply = "failed" THEN db
                 ELSE [db EXCEPT !.ana = {IF r.id = prog.row.id THEN patch(r) ELSE r : r \in @}]
    /\ prog' = IF reply = "ok" /\ ~prog.done THEN MarkDone(prog) ELSE prog
    /\ up' = [up EXCEPT ![u].at = IF reply = "ok" THEN Ended(u) ELSE "failed"]
    /\ past' = IF reply = "ok" THEN past ELSE UploadFaulted(past)
    /\ UNCHANGED shown

\* POST machining_force_analysis, when no row is known.
PostAnalysis(u, reply) ==
    LET row == [id |-> Cardinality(db.ana) + 1, op |-> up[u].op, cache |-> prog.cache, mat |-> prog.mat] IN
    /\ up[u].at = "link" /\ ~prog.done /\ prog.row = NoRow /\ (reply # "ok" => UploadFault)
    /\ db' = IF reply = "failed" THEN db ELSE [db EXCEPT !.ana = @ \union {row}]
    /\ prog' = IF reply = "ok" THEN [prog EXCEPT !.done = ~up[u].matFailed] ELSE prog
    /\ up' = [up EXCEPT ![u].at = IF reply = "ok" THEN Ended(u) ELSE "failed"]
    /\ past' = IF reply = "ok" THEN past ELSE UploadFaulted(past)
    /\ UNCHANGED shown

\* The caller hears the outcome: the Save dialog is done, the list asks the database once more.
Outcome(u) ==
    /\ up[u].at \in {"failed", "returned"}
    /\ past' = [past EXCEPT !.live = @ /\ ~(u = "live" /\ up[u].at = "returned")]
    /\ up' = [up EXCEPT ![u] = IF u = "list" /\ up[u].at = "returned" THEN [IdleUpload EXCEPT !.at = "confirm", !.op = up[u].op] ELSE IdleUpload]
    /\ UNCHANGED <<db, prog, shown>>

\* confirmUploadState(), and what upload() does with it.
ConfirmUploadState(u, answered) ==
    /\ up[u].at = "confirm" /\ (answered \/ UploadFault)
    /\ IF answered /\ analysisComplete({r \in db.ana : r.op = up[u].op})
       THEN shown' = "uploaded" /\ UNCHANGED prog
       ELSE shown' = "partial" /\ prog' = NoProgress
    /\ up' = [up EXCEPT ![u] = IdleUpload]
    /\ past' = IF answered THEN past ELSE UploadFaulted(past)
    /\ UNCHANGED db

\* lookupUploadState(): complete if any operation row of the capture is.
ListLookup(answered) ==
    /\ ~Uploading("list") /\ ~Uploading("live") /\ (answered \/ UploadFault)
    /\ shown' = CASE ~answered -> "unknown"
                  [] answered /\ db.ops = {} -> "no"
                  [] answered /\ \E o \in db.ops : analysisComplete({r \in db.ana : r.op = o}) -> "uploaded"
                  [] OTHER -> "partial"
    /\ past' = [(IF answered THEN past ELSE UploadFaulted(past)) EXCEPT !.removed = FALSE, !.live = FALSE]
    /\ UNCHANGED <<db, prog, up>>

\* Someone deletes a file in the database: the link of the row becomes null.
FileRemoved(f) ==
    /\ UploadFault /\ ~past.removed
    /\ \E r \in db.ana :
         /\ r[f] # Nil
         /\ db' = [db EXCEPT !.ana = (@ \ {r}) \union {[r EXCEPT ![f] = Nil]}]
    /\ past' = [UploadFaulted(past) EXCEPT !.removed = TRUE, !.everRemoved = TRUE]
    /\ UNCHANGED <<prog, up, shown>>

\* The page is reloaded: the progress and every attempt are gone.
UploadReload ==
    /\ UploadFault
    /\ prog' = NoProgress /\ up' = [u \in Callers |-> IdleUpload] /\ shown' = "unknown"
    /\ past' = [UploadFaulted(past) EXCEPT !.live = FALSE]
    /\ UNCHANGED db

----------------------------------------------------------------------------
Replies == {"ok", "lost", "failed"}

\* What runs by itself once an attempt has begun.
UploadStep(u) ==
    \/ LookupAnswered(u) \/ LookupFails(u) \/ AdoptExistingAnalysis(u) \/ AdoptFails(u) \/ FilesSettled(u) \/ Outcome(u)
    \/ \E reply \in Replies : InsertOperation(u, reply) \/ PatchAnalysis(u, reply) \/ PostAnalysis(u, reply)
    \/ \E f \in {"cache", "mat"}, ok \in BOOLEAN : FileSent(u, f, ok)
    \/ \E answered \in BOOLEAN : ConfirmUploadState(u, answered)

UploadNext ==
    \/ \E u \in Callers : BeginUpload(u) \/ UploadStep(u)
    \/ \E answered \in BOOLEAN : ListLookup(answered)
    \/ \E f \in {"cache", "mat"} : FileRemoved(f)
    \/ UploadReload

\* The upload by itself, without fairness.
UploadSpec == UploadInit /\ [][UploadNext]_uploadVars

----------------------------------------------------------------------------
\* Types of the upload's state; file ids name the attempt that sent the file.
UploadTypeOK ==
    /\ prog.cache \in Callers \union {Nil} /\ prog.mat \in Callers \union {Nil} /\ prog.op \in db.ops \union {0}
    /\ \A r \in db.ana : r.op \in db.ops
    /\ shown \in {"unknown", "no", "partial", "uploaded"}

(* captureUploadState.ts:10-16, CapturesSettings.vue:613-623: a capture    *)
(* shown as uploaded, whose local copy may be deleted as redundant, has a  *)
(* row with the live cache and, if one was written, the .mat; whatever     *)
(* failed, was lost, overlapped or was reloaded on the way there.          *)
RedundantIsComplete == shown = "uploaded" => past.removed \/ analysisComplete(db.ana)

(* uploadResume.ts:1-10: retries, lost replies and reloads never insert a  *)
(* second operation row; only an unanswered lookup, or two attempts at the *)
(* same time, can (README, section 5).                                     *)
OneOperation == Cardinality(db.ops) > 1 => past.lookupFailed \/ past.overlapped

(* uploadResume.ts:101-108: an operation never gets a second analysis row, *)
(* not even when its lookup fails; two attempts at the same time excepted. *)
OneAnalysisPerOperation ==
    past.overlapped \/ \A r, s \in db.ana : r.op = s.op => r = s

(* uploadResume.ts:16-24: the progress says done only when the database    *)
(* has every file of the capture, so an attempt that returns without       *)
(* asking again is right to.                                               *)
DoneIsComplete == prog.done => past.everRemoved \/ analysisComplete(db.ana)

(* uploadResume.ts:123-126: a link that is already in the row is never     *)
(* replaced by another file (two attempts at the same time excepted).      *)
LinkNotOverwritten ==
    [][\A r \in db.ana, s \in db'.ana :
          (r.id = s.id /\ ~past'.overlapped) => \A f \in {"cache", "mat"} : r[f] # Nil => s[f] \in {r[f], Nil}]_uploadVars

(* uploadResume.ts:1-5: an operator who keeps pressing Upload gets the     *)
(* capture into the database, whatever was lost or failed before.          *)
UploadQuiet == shown = "uploaded" \/ past.removed
=============================================================================
