----------------------------- MODULE CaptureJobs -----------------------------
(***************************************************************************)
(* The jobs on one capture directory after (or while) it is recorded:      *)
(* recover, discard, restore from the backup, delete (app/main.py,         *)
(* app/recovery.py), next to the recording session itself.                 *)
(*                                                                         *)
(* Handlers share one event loop: the code between two awaits is one       *)
(* action.  What they await runs on pool threads (rmtree, finalize,        *)
(* network), interleaves with every other handler and has steps of its own.*)
(*                                                                         *)
(* The raw file is abstracted to where its rows come from.                 *)
(***************************************************************************)
CONSTANTS Requests      \* HTTP requests that may be in progress together

VARIABLES
    dir,            \* the capture directory exists
    raw,            \* raw.d1raw: none, header (no row), local or remote rows
    part,           \* raw.d1raw.part exists
    aside,          \* raw.d1raw.local-<timestamp>: the local rows, set aside
    summary,        \* summary.json: none, or the rows it describes
    manifest,       \* manifest.json: none, recovered (no config), or whose config it holds
    remote,         \* the backup server's copy: none, held, tombstone
    remoteLarger,   \* its raw file is longer than the local one
    recovering,     \* this id is in _recovering
    discarding,     \* this id is in _discarding
    session,        \* this capture's recording: none, this, saved (summary written)
    reportDue,      \* the ended session has not written its last manifest yet
    up,             \* the backend runs
    pc,             \* where each request is
    mem             \* its local variables; before: history, the raw file when its restore began

diskVars == <<dir, raw, part, aside, summary, manifest>>
remoteVars == <<remote, remoteLarger>>
claimVars == <<recovering, discarding>>
appVars == <<session, reportDue, up>>
vars == <<diskVars, remoteVars, claimVars, appVars, pc, mem>>

RecoverPcs == {"recover", "recRead", "recManifest"}
RestorePcs == {"probe", "mkdir", "fetch", "download", "swap", "resManifest", "restore", "resRead",
               "resDone", "unmark"}
DiscardPcs == {"discard", "discardRm", "discardMark"}
DeletePcs == {"delete", "deleteRm", "deleteMark"}
Pcs == {"idle"} \cup RecoverPcs \cup RestorePcs \cup DiscardPcs \cup DeletePcs

RowKinds == {"none", "local", "remote"}
RawKinds == RowKinds \cup {"header"}
FileNames == {"raw", "part", "aside", "summary", "manifest"}
Mem == [localRows : BOOLEAN, created : BOOLEAN, src : RowKinds,
        listing : SUBSET FileNames, before : RawKinds]
NoMem == [localRows |-> FALSE, created |-> FALSE, src |-> "none", listing |-> {}, before |-> "none"]

Present == {f \in FileNames :
              \/ f = "raw" /\ raw # "none"
              \/ f = "part" /\ part
              \/ f = "aside" /\ aside
              \/ f = "summary" /\ summary # "none"
              \/ f = "manifest" /\ manifest # "none"}

\* rmtree of the whole directory, on the event loop or by the session.
EmptyDir ==
    /\ dir' = FALSE /\ raw' = "none" /\ part' = FALSE /\ aside' = FALSE
    /\ summary' = "none" /\ manifest' = "none"

\* mark_remote_deleted, best effort.
Tombstone ==
    /\ remote' \in {remote, IF remote = "held" THEN "tombstone" ELSE remote}
    /\ UNCHANGED remoteLarger

\* _active_session_id() is this capture's.
Active == session \in {"this", "saved"}

\* A recording has just started, its backup is on the server or not.
Init ==
    /\ dir = TRUE /\ raw = "header" /\ part = FALSE /\ aside = FALSE
    /\ summary = "none" /\ manifest = "local"
    /\ remote \in {"none", "held"} /\ remoteLarger \in BOOLEAN
    /\ recovering = FALSE /\ discarding = FALSE
    /\ session = "this" /\ reportDue = FALSE /\ up = TRUE
    /\ pc = [r \in Requests |-> "idle"] /\ mem = [r \in Requests |-> NoMem]

-----------------------------------------------------------------------------
(* The recording session of this capture *)

NoJobStep == UNCHANGED <<claimVars, remoteVars, pc, mem>>

SessionWritesRows ==
    /\ session = "this" /\ raw = "header"
    /\ raw' = "local"
    /\ NoJobStep /\ UNCHANGED <<dir, part, aside, summary, manifest, appVars>>

\* _finalize_async writes summary.json while the session reads "finalizing".
SessionSummarizes ==
    /\ session = "this" /\ raw = "local" /\ dir
    /\ summary' = "local" /\ session' = "saved"
    /\ NoJobStep /\ UNCHANGED <<dir, raw, part, aside, manifest, reportDue, up>>

\* "done" or "error": from here on the id is no longer active; the manifest comes later.
SessionEnds ==
    /\ Active
    /\ session' = "none" /\ reportDue' = TRUE
    /\ NoJobStep /\ UNCHANGED <<diskVars, up>>

\* The last manifest, or the removal of a directory without a row and the tombstone of its backup.
SessionReports ==
    /\ reportDue
    /\ reportDue' = FALSE
    /\ \/ /\ manifest' = IF dir THEN "local" ELSE "none"
          /\ UNCHANGED <<dir, raw, part, aside, summary, remoteVars>>
       \/ raw = "header" /\ EmptyDir /\ Tombstone
    /\ UNCHANGED <<session, up, claimVars, pc, mem>>

-----------------------------------------------------------------------------
(* Handlers: the part before the first await *)

InFlight == recovering \/ discarding
Goto(r, l) == pc' = [pc EXCEPT ![r] = l]
Return(r) == Goto(r, "idle") /\ mem' = [mem EXCEPT ![r] = NoMem]
Arrives(r) == up /\ pc[r] = "idle"
BeginOnly == UNCHANGED <<diskVars, remoteVars, appVars, mem>>

MutRecoverBegin(r) ==
    /\ Arrives(r) /\ ~InFlight
    /\ recovering' = TRUE /\ Goto(r, "recover")
    /\ BeginOnly /\ UNCHANGED discarding

\* recovery_recover: not the active recording, and the claim.
RecoverBegin(r) ==
    /\ Arrives(r) /\ ~Active /\ ~InFlight
    /\ recovering' = TRUE /\ Goto(r, "recover")
    /\ BeginOnly /\ UNCHANGED discarding

MutDiscardUnclaimed(r) ==
    /\ Arrives(r) /\ ~InFlight /\ ~Active /\ dir /\ summary = "none"
    /\ Goto(r, "discard")
    /\ BeginOnly /\ UNCHANGED <<recovering, discarding>>

MutDiscardActive(r) ==
    /\ Arrives(r) /\ ~InFlight /\ dir /\ summary = "none"
    /\ discarding' = TRUE /\ Goto(r, "discard")
    /\ BeginOnly /\ UNCHANGED recovering

\* recovery_discard: claimed by the handler, although the task starts later.
DiscardBegin(r) ==
    /\ Arrives(r) /\ ~InFlight /\ ~Active /\ dir /\ summary = "none"
    /\ discarding' = TRUE /\ Goto(r, "discard")
    /\ BeginOnly /\ UNCHANGED recovering

\* backup_restore: the claim, and no summary.json yet.
RestoreBegin(r) ==
    /\ Arrives(r) /\ ~Active /\ ~InFlight /\ summary = "none"
    /\ recovering' = TRUE /\ Goto(r, "probe")
    /\ mem' = [mem EXCEPT ![r].before = raw]
    /\ UNCHANGED <<diskVars, remoteVars, appVars, discarding>>

\* delete_capture tests the claims and takes none.
DeleteBegin(r) ==
    /\ Arrives(r) /\ dir /\ ~Active /\ ~InFlight
    /\ Goto(r, "delete")
    /\ BeginOnly /\ UNCHANGED claimVars

-----------------------------------------------------------------------------
(* recover_session, on a pool thread, for a recover and for a restore *)

JobOnly == UNCHANGED <<appVars, discarding>>
Release == recovering' = FALSE

\* _restore_aside and _cleanup of a restore that fails.
RolledBack(r) == mem[r].localRows /\ aside
RemovePart ==
    /\ part' = FALSE
    /\ UNCHANGED <<dir, raw, aside, summary, manifest>>
Cleanup(r) == IF mem[r].created THEN EmptyDir ELSE RemovePart

\* After the swap: the set-aside raw goes back over the downloaded one.
PutBack(r) ==
    IF mem[r].created THEN EmptyDir
    ELSE IF RolledBack(r)
         THEN /\ raw' = "local" /\ aside' = FALSE /\ part' = FALSE
              /\ UNCHANGED <<dir, summary, manifest>>
         ELSE RemovePart

FailBeforeSwap(r) ==
    /\ Cleanup(r) /\ Release /\ Return(r)
    /\ JobOnly /\ UNCHANGED remoteVars
FailAfterSwap(r) ==
    /\ PutBack(r) /\ Release /\ Return(r)
    /\ JobOnly /\ UNCHANGED remoteVars
RecoverFails(r) ==
    /\ Release /\ Return(r)
    /\ JobOnly /\ UNCHANGED <<diskVars, remoteVars>>

\* The tests at the start, and finalize opening the raw file (a file without a row is refused).
FinalizeBegin(r) ==
    /\ \/ pc[r] = "recover" /\ Goto(r, "recRead")
       \/ pc[r] = "restore" /\ Goto(r, "resRead")
    /\ raw \in {"local", "remote"} /\ summary = "none"
    /\ mem' = [mem EXCEPT ![r].src = raw]
    /\ JobOnly /\ UNCHANGED <<diskVars, remoteVars, recovering>>

\* summary.json, the last file finalize writes.
FinalizeEnd(r) ==
    /\ \/ pc[r] = "recRead" /\ Goto(r, "recManifest")
       \/ pc[r] = "resRead" /\ Goto(r, "resDone")
    /\ dir
    /\ summary' = mem[r].src
    /\ JobOnly /\ UNCHANGED <<dir, raw, part, aside, manifest, remoteVars, recovering, mem>>

\* manifest.json says "recovered" and no longer holds the config.
RecoveredManifest(r) ==
    /\ dir
    /\ manifest' = "recovered"
    /\ \/ pc[r] = "recManifest" /\ Return(r) /\ Release
       \/ pc[r] = "resDone" /\ Goto(r, "unmark") /\ UNCHANGED <<recovering, mem>>
    /\ JobOnly /\ UNCHANGED <<dir, raw, part, aside, summary, remoteVars>>

\* Any of these steps may raise: a recover reports it, a restore undoes what it did.
FinalizeFails(r) ==
    \/ pc[r] \in RecoverPcs /\ RecoverFails(r)
    \/ pc[r] \in {"restore", "resRead", "resDone"} /\ FailAfterSwap(r)

-----------------------------------------------------------------------------
(* _restore_claimed, await by await *)

RestoreProbe(r) ==
    /\ pc[r] = "probe" /\ Goto(r, "mkdir")
    /\ mem' = [mem EXCEPT ![r].localRows = raw \in {"local", "remote"}]
    /\ JobOnly /\ UNCHANGED <<diskVars, remoteVars, recovering>>

RestoreMkdir(r) ==
    /\ pc[r] = "mkdir" /\ Goto(r, "fetch")
    /\ mem' = [mem EXCEPT ![r].created = ~dir]
    /\ dir' = TRUE
    /\ JobOnly /\ UNCHANGED <<raw, part, aside, summary, manifest, remoteVars, recovering>>

\* The config first, then the download to raw.d1raw.part.
RestoreFetch(r) ==
    /\ pc[r] = "fetch"
    /\ \/ /\ remote # "none" /\ Goto(r, "download")
          /\ JobOnly /\ UNCHANGED <<diskVars, remoteVars, recovering, mem>>
       \/ FailBeforeSwap(r)

RestoreDownload(r) ==
    /\ pc[r] = "download"
    /\ \/ /\ remote # "none" /\ dir /\ part' = TRUE /\ Goto(r, "swap")
          /\ JobOnly /\ UNCHANGED <<dir, raw, aside, summary, manifest, remoteVars, recovering, mem>>
       \/ FailBeforeSwap(r)

\* The local file may be replaced only by a longer one.
MayReplace(r) == mem[r].localRows => raw = "local" /\ remoteLarger

\* Local rows are set aside, the download takes their place.
MutRestoreSwap(r) ==
    /\ pc[r] = "swap" /\ part /\ MayReplace(r)
    /\ raw' = "remote" /\ part' = FALSE
    /\ Goto(r, IF mem[r].localRows /\ manifest \in {"local", "remote"} THEN "restore" ELSE "resManifest")
    /\ JobOnly /\ UNCHANGED <<dir, aside, summary, manifest, remoteVars, recovering, mem>>

RestoreSwap(r) ==
    /\ pc[r] = "swap" /\ part /\ MayReplace(r)
    /\ aside' = (aside \/ mem[r].localRows)
    /\ raw' = "remote" /\ part' = FALSE
    /\ Goto(r, IF mem[r].localRows /\ manifest \in {"local", "remote"} THEN "restore" ELSE "resManifest")
    /\ JobOnly /\ UNCHANGED <<dir, summary, manifest, remoteVars, recovering, mem>>

\* Refused, or the files cannot be renamed.
RestoreSwapFails(r) ==
    pc[r] = "swap" /\ (mem[r].localRows => raw # "none") /\ FailBeforeSwap(r)

\* getsize() on a local raw that is gone raises outside of every try block.
RestoreSwapRaises(r) ==
    /\ pc[r] = "swap" /\ mem[r].localRows /\ raw = "none"
    /\ Release /\ Return(r)
    /\ JobOnly /\ UNCHANGED <<diskVars, remoteVars>>

RestoreManifest(r) ==
    /\ pc[r] = "resManifest"
    /\ \/ /\ dir /\ manifest' = "remote" /\ Goto(r, "restore")
          /\ JobOnly /\ UNCHANGED <<dir, raw, part, aside, summary, remoteVars, recovering, mem>>
       \/ FailAfterSwap(r)

\* Best effort; then the claim is released.
RestoreUnmark(r) ==
    /\ pc[r] = "unmark" /\ Return(r) /\ Release
    /\ remote' \in {remote, IF remote = "tombstone" THEN "held" ELSE remote}
    /\ JobOnly /\ UNCHANGED <<diskVars, remoteLarger>>

-----------------------------------------------------------------------------
(* discard_session and delete_capture *)

DiscardOnly == UNCHANGED <<appVars, recovering>>

DiscardCheck(r) ==
    /\ pc[r] = "discard"
    /\ \/ /\ ~dir /\ Goto(r, "discardMark") /\ UNCHANGED <<discarding, mem>>
       \/ /\ dir /\ summary # "none"
          /\ Return(r) /\ discarding' = FALSE
       \/ /\ dir /\ summary = "none"
          /\ Goto(r, "discardRm") /\ mem' = [mem EXCEPT ![r].listing = Present]
          /\ UNCHANGED discarding
    /\ DiscardOnly /\ UNCHANGED <<diskVars, remoteVars>>

\* rmtree starts on its thread, with what the directory holds by then.
DeleteList(r) ==
    /\ pc[r] = "delete" /\ Goto(r, "deleteRm")
    /\ mem' = [mem EXCEPT ![r].listing = Present]
    /\ UNCHANGED <<diskVars, remoteVars, claimVars, appVars>>

\* shutil.rmtree unlinks the files it has listed, then removes the directory if it is empty.
RemoveFile(r) ==
    /\ pc[r] \in {"discardRm", "deleteRm"}
    /\ \E f \in mem[r].listing :
          /\ raw' = IF f = "raw" THEN "none" ELSE raw
          /\ part' = (part /\ f # "part")
          /\ aside' = (aside /\ f # "aside")
          /\ summary' = IF f = "summary" THEN "none" ELSE summary
          /\ manifest' = IF f = "manifest" THEN "none" ELSE manifest
          /\ mem' = [mem EXCEPT ![r].listing = @ \ {f}]
    /\ UNCHANGED <<dir, remoteVars, claimVars, appVars, pc>>

RemoveDir(r) ==
    /\ mem[r].listing = {} /\ Present = {} /\ dir
    /\ \/ pc[r] = "discardRm" /\ Goto(r, "discardMark")
       \/ pc[r] = "deleteRm" /\ Goto(r, "deleteMark")
    /\ dir' = FALSE
    /\ UNCHANGED <<raw, part, aside, summary, manifest, remoteVars, claimVars, appVars, mem>>

MutRemoveFails(r) ==
    /\ pc[r] \in {"discardRm", "deleteRm"} /\ Return(r)
    /\ UNCHANGED <<diskVars, remoteVars, claimVars, appVars>>

\* A file is locked, or the directory is not empty after all.
RemoveFails(r) ==
    /\ pc[r] \in {"discardRm", "deleteRm"} /\ Return(r)
    /\ discarding' = (discarding /\ pc[r] # "discardRm")
    /\ DiscardOnly /\ UNCHANGED <<diskVars, remoteVars>>

\* A discard keeps its claim until the server was told.
MarkRemoteDeleted(r) ==
    /\ pc[r] \in {"discardMark", "deleteMark"} /\ Return(r) /\ Tombstone
    /\ discarding' = (discarding /\ pc[r] # "discardMark")
    /\ DiscardOnly /\ UNCHANGED diskVars

-----------------------------------------------------------------------------
(* The backend is killed and started again: claims and jobs are gone, files stay. *)

Down ==
    /\ up /\ up' = FALSE
    /\ recovering' = FALSE /\ discarding' = FALSE
    /\ session' = "none" /\ reportDue' = FALSE
    /\ pc' = [r \in Requests |-> "idle"] /\ mem' = [r \in Requests |-> NoMem]
    /\ UNCHANGED remoteVars

Killed == Down /\ UNCHANGED diskVars

\* Killed between the two renames of RestoreSwap.
KilledInSwap ==
    /\ \E r \in Requests : pc[r] = "swap" /\ part /\ MayReplace(r) /\ mem[r].localRows
    /\ Down
    /\ aside' = TRUE /\ raw' = "none"
    /\ UNCHANGED <<dir, part, summary, manifest>>

Restart ==
    /\ ~up /\ up' = TRUE
    /\ UNCHANGED <<diskVars, remoteVars, claimVars, session, reportDue, pc, mem>>

-----------------------------------------------------------------------------
BeginStep(r) == RecoverBegin(r) \/ DiscardBegin(r) \/ RestoreBegin(r) \/ DeleteBegin(r)
FinalizeStep(r) == FinalizeBegin(r) \/ FinalizeEnd(r) \/ RecoveredManifest(r) \/ FinalizeFails(r)
RestoreStep(r) ==
    \/ RestoreProbe(r) \/ RestoreMkdir(r) \/ RestoreFetch(r) \/ RestoreDownload(r)
    \/ RestoreSwap(r) \/ RestoreSwapFails(r) \/ RestoreSwapRaises(r) \/ RestoreManifest(r)
    \/ RestoreUnmark(r)
RemoveStep(r) ==
    \/ DiscardCheck(r) \/ DeleteList(r) \/ RemoveFile(r) \/ RemoveDir(r) \/ RemoveFails(r)
    \/ MarkRemoteDeleted(r)
JobStep(r) == FinalizeStep(r) \/ RestoreStep(r) \/ RemoveStep(r)
SessionStep == SessionWritesRows \/ SessionSummarizes \/ SessionEnds \/ SessionReports

Next ==
    \/ SessionStep
    \/ \E r \in Requests : BeginStep(r) \/ JobStep(r)
    \/ Killed \/ KilledInSwap \/ Restart

Spec == Init /\ [][Next]_vars

\* Every job that was accepted keeps running: awaits end, pool threads run.
FairSpec == Spec /\ \A r \in Requests : WF_vars(JobStep(r))
-----------------------------------------------------------------------------
(* Properties *)

FilesTypeOK ==
    /\ dir \in BOOLEAN /\ part \in BOOLEAN /\ aside \in BOOLEAN
    /\ raw \in RawKinds /\ summary \in RowKinds
    /\ manifest \in {"none", "local", "remote", "recovered"}
    /\ remote \in {"none", "held", "tombstone"} /\ remoteLarger \in BOOLEAN
ClaimsTypeOK ==
    /\ recovering \in BOOLEAN /\ discarding \in BOOLEAN
    /\ ~(recovering /\ discarding)
    /\ session \in {"none", "this", "saved"} /\ reportDue \in BOOLEAN /\ up \in BOOLEAN
RequestsTypeOK == pc \in [Requests -> Pcs] /\ mem \in [Requests -> Mem]
TypeOK == FilesTypeOK /\ ClaimsTypeOK /\ RequestsTypeOK

\* Recover, restore and discard claim the capture: two of them never work on it together,
\* although each runs across several awaits and a discard's task starts after its handler ended.
ClaimedPcs == RecoverPcs \cup RestorePcs \cup DiscardPcs
ExclusiveJobs ==
    \A r, s \in Requests : pc[r] \in ClaimedPcs /\ pc[s] \in ClaimedPcs => r = s

\* "Never destroys local data": the rows that were recorded here stay on disk, as raw.d1raw or set
\* aside, through every recover and restore, failed or killed; only a discard or a delete, or the
\* session itself, removes them.
HasLocalRows == raw = "local" \/ aside
LocalRowsKept ==
    [][HasLocalRows /\ ~HasLocalRows' =>
           \E r \in Requests : pc[r] \in {"discardRm", "deleteRm"}]_vars

\* No capture is finalized twice: the session's own finalize, a recover and a restore never write
\* a second summary over the first.
FinalizedOnce ==
    [][SessionSummarizes \/ (\E r \in Requests : FinalizeEnd(r)) => summary = "none"]_vars

\* The directory of the active recording is never removed, however stale the list is from which
\* the operator picked it.
ActiveUntouched == Active => dir

\* A claim is always released again, also by a job that fails.
ClaimsReleased == InFlight ~> ~InFlight

\* Nobody removes the directory from under a recover or a restore.
\* Does not hold (README, section 5).
DirStaysUnderJob ==
    [][\A r \in Requests : RemoveDir(r) =>
           \A s \in Requests : pc[s] \notin RecoverPcs \cup RestorePcs]_vars

RestoreFails(r) ==
    \/ pc[r] \in {"fetch", "download", "swap"} /\ FailBeforeSwap(r)
    \/ pc[r] \in {"resManifest", "restore", "resRead", "resDone"} /\ FailAfterSwap(r)

\* A failed restore leaves a directory that already existed as it was, apart from the .part file:
\* it never leaves the download where another raw file, or none, had been.  Does not hold (README,
\* section 5).
ExistingDirUntouched ==
    [][\A r \in Requests : RestoreFails(r) /\ ~mem[r].created /\ mem[r].before # "remote" => raw' # "remote"]_vars

\* After a failed restore "nothing about the local capture has changed": the rows that were put back
\* are not described by the summary of the download.  Does not hold (README, section 5).
RollbackUndoesAll ==
    [][\A r \in Requests : RestoreFails(r) /\ mem[r].localRows => ~(raw' = "local" /\ summary' = "remote")]_vars
==============================================================================
