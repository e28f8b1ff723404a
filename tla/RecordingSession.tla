-------------------------- MODULE RecordingSession --------------------------
(***************************************************************************)
(* One recording (app/session.py) from start() to its terminal state, as   *)
(* the threads of the process interleave:                                  *)
(*   run       _run: source -> ring, then close, join, seal, finalize      *)
(*   cons      _consume: ring -> raw file, live view, cut detection        *)
(*   disk      _watch_disk: late backup, forced stop                       *)
(*   fin       _finalize_async: summary.json and the terminal state        *)
(*   mark      an HTTP thread in mark_cut_start_now                        *)
(* and as the process may be killed between any two steps.                 *)
(*                                                                         *)
(* A chunk with samples is the number it has in the stream (1, 2, ...) and *)
(* counts as one sample; EmptyChunk is a read that returned no sample.     *)
(***************************************************************************)
EXTENDS FiniteSets, Naturals, Sequences

(***************************************************************************)
(* The bounded hand-off between the acquisition thread and the consumer    *)
(* thread of a recording (acquisition/ring.py): a queue.Queue of chunks,   *)
(* an Event "closed", and a sentinel that wakes a waiting consumer.        *)
(*                                                                         *)
(* A method of Ring is not atomic: put() tests "closed" and then enqueues, *)
(* get() sees the queue empty and then tests "closed", close() sets        *)
(* "closed" and then enqueues the sentinel.  This module has one operator  *)
(* per atomic step; the threads that call them are in RecordingSession.    *)
(***************************************************************************)

CONSTANTS
    MaxSize,    \* queue.Queue(maxsize)
    Sentinel    \* the _SENTINEL object

ASSUME MaxSizeAssumption == MaxSize \in Nat \ {0}

VARIABLES
    q,          \* the queue, oldest item first
    closed      \* the _closed event

ringVars == <<q, closed>>

RingInit == q = <<>> /\ closed = FALSE

\* put(): the first test; a closed ring takes nothing.
PutRefused == closed /\ UNCHANGED ringVars
PutAdmitted == ~closed /\ UNCHANGED ringVars

\* put(): the enqueue, after the test above.
Enqueue(c) == Len(q) < MaxSize /\ q' = Append(q, c) /\ UNCHANGED closed

\* put(): the queue stayed full for the whole timeout.
EnqueueTimesOut == Len(q) >= MaxSize /\ UNCHANGED ringVars

\* get(): an item was there within the poll.
Dequeue == q # <<>> /\ q' = Tail(q) /\ UNCHANGED closed

\* get(): queue.Empty after one poll.
PollEmpty == q = <<>> /\ UNCHANGED ringVars

\* close(): first the event, then the sentinel if it fits.
SetClosed == closed' = TRUE /\ UNCHANGED q

WakeConsumer ==
    /\ q' = IF Len(q) < MaxSize THEN Append(q, Sentinel) ELSE q
    /\ UNCHANGED closed

\* drain(): discard one item, until get_nowait() raises Empty.
DrainOne == Dequeue
DrainDone == PollEmpty

------------------------------------------------------------------------------
CONSTANTS
    MaxChunks,      \* bound: chunks the source can deliver
    FrmFromCut,     \* cfg.frm_from_cut
    JoinTimesOut,   \* may consumer.join(timeout=10) give up?
    DiskFails       \* may closing the raw file or writing the manifest raise?

ASSUME SessionAssumption ==
    /\ MaxChunks \in Nat
    /\ FrmFromCut \in BOOLEAN
    /\ JoinTimesOut \in BOOLEAN
    /\ DiskFails \in BOOLEAN
    /\ Sentinel \notin Nat

EmptyChunk == 0

VARIABLES
    state,          \* RecordingSession.state; "crashed" once the process is gone
    manifest,       \* state in manifest.json
    error,          \* which statement set self.error first
    errorKind,      \* self.error_kind
    stopped,        \* the _stop event (source.stop() goes with it)
    runPc, holding, \* _run, and the chunk it has read
    produced,       \* chunks with samples the source has delivered
    fed,            \* the last of them that put() took
    consPc, item,   \* _consume, and the chunk it has dequeued
    raw,            \* rows written to raw.d1raw, buffered ones included
    flushed,        \* how many of them a killed process cannot lose
    rawClosed,      \* RawWriter.close() done
    dirExists,      \* the capture directory
    nTotal,         \* self.n_total
    cut, cutSample, \* self.cut_start_source, self.cut_start_sample
    markPc,         \* "held": a manual mark holds _cut_lock
    diskPc, tried,  \* _watch_disk and its backed_up_by_watcher
    diskAction,     \* self.disk_action
    backup,         \* self.backup: none, constructed, thread started
    streamStop,     \* the streamer's _stop event
    remoteDeleted,  \* mark_remote_deleted was sent
    finPc,          \* _finalize_async
    finalized,      \* summary.json exists
    summaryRows,    \* the rows it describes
    recordedCut,    \* its cut_start_source ("unset": not recorded)
    doneSent        \* "done" control messages published

runVars == <<runPc, holding, produced, fed>>
consVars == <<consPc, item, nTotal>>
fileVars == <<raw, flushed, rawClosed, dirExists>>
cutVars == <<cut, cutSample, markPc>>
diskVars == <<diskPc, tried, diskAction>>
backupVars == <<backup, streamStop, remoteDeleted>>
finVars == <<finPc, finalized, summaryRows, recordedCut>>
outcomeVars == <<state, manifest, error, errorKind, doneSent>>
vars == <<ringVars, runVars, consVars, fileVars, cutVars, diskVars, backupVars,
          finVars, outcomeVars, stopped>>

RunPcs == {"idle", "start", "loop", "read", "put", "enqueue", "close", "wake", "join",
           "seal", "stopBackup", "conclude", "tombstone", "dead"}
ConsPcs == {"idle", "get", "empty", "append", "process", "publish", "failed", "failStop",
            "failClose", "failWake", "drain", "dead"}
DiskPcs == {"idle", "test", "measure", "stop", "enable", "startStream", "dead"}
FinPcs == {"idle", "finalize", "recordCut", "outcome", "report", "dead"}
Causes == {"none", "start", "acquisition", "overrun", "consumer", "finalize"}
CutSources == {"none", "auto", "manual"}

Init ==
    /\ RingInit
    /\ state = "idle" /\ manifest = "none" /\ error = "none" /\ errorKind = "none"
    /\ stopped = FALSE
    /\ runPc = "idle" /\ holding = EmptyChunk /\ produced = 0 /\ fed = 0
    /\ consPc = "idle" /\ item = EmptyChunk /\ nTotal = 0
    /\ raw = <<>> /\ flushed = 0 /\ rawClosed = FALSE /\ dirExists = TRUE
    /\ cut = "none" /\ cutSample = 0 /\ markPc = "idle"
    /\ diskPc = "idle" /\ tried = FALSE /\ diskAction = "none"
    /\ backup = "none" /\ streamStop = FALSE /\ remoteDeleted = FALSE
    /\ finPc = "idle" /\ finalized = FALSE /\ summaryRows = 0 /\ recordedCut = "unset"
    /\ doneSent = 0

-----------------------------------------------------------------------------
(* HTTP requests: start() and stop() *)

\* The backup starts now if it is configured and its thread can be started.
Start ==
    /\ state = "idle"
    /\ state' = "recording" /\ manifest' = "recording"
    /\ backup' \in {"none", "started"}
    /\ runPc' = "start" /\ consPc' = "get" /\ diskPc' = "test"
    /\ UNCHANGED <<ringVars, holding, produced, fed, item, nTotal, fileVars, cutVars, tried, diskAction,
                   streamStop, remoteDeleted, finVars, error, errorKind, doneSent, stopped>>

\* The manifest cannot be written: the state is set and no thread is started.
StartFails ==
    /\ DiskFails /\ state = "idle"
    /\ state' = "recording"
    /\ UNCHANGED <<ringVars, runVars, consVars, fileVars, cutVars, diskVars, backupVars,
                   finVars, manifest, error, errorKind, doneSent, stopped>>

\* record_stop only calls stop() while the session still reads "recording".
Stop ==
    /\ state = "recording" /\ ~stopped
    /\ stopped' = TRUE
    /\ UNCHANGED <<ringVars, runVars, consVars, fileVars, cutVars, diskVars, backupVars,
                   finVars, outcomeVars>>

-----------------------------------------------------------------------------
(* The acquisition thread *)

\* "self.error or ...": a cause already recorded is kept.
MutCauseOr(e) == e
CauseOr(e) == IF error = "none" THEN e ELSE error

RunOnly == UNCHANGED <<consVars, fileVars, cutVars, diskVars, backupVars, finVars, state,
                       manifest, errorKind, doneSent, stopped>>

SourceStart ==
    /\ runPc = "start"
    /\ \/ runPc' = "loop" /\ UNCHANGED error
       \/ runPc' = "close" /\ error' = "start"
    /\ RunOnly /\ UNCHANGED <<ringVars, holding, produced, fed>>

LoopTest ==
    /\ runPc = "loop"
    /\ runPc' = IF stopped THEN "close" ELSE "read"
    /\ RunOnly /\ UNCHANGED <<ringVars, holding, produced, fed, error>>

SourceRead ==
    /\ runPc = "read"
    /\ \/ /\ produced < MaxChunks
          /\ produced' = produced + 1 /\ holding' = produced + 1
       \/ holding' = EmptyChunk /\ UNCHANGED produced
    /\ runPc' = "put"
    /\ RunOnly /\ UNCHANGED <<ringVars, fed, error>>

SourceEnd ==
    /\ runPc = "read"
    /\ stopped \/ produced = MaxChunks
    /\ runPc' = "close"
    /\ RunOnly /\ UNCHANGED <<ringVars, holding, produced, fed, error>>

\* An exception out of read() replaces whatever error was recorded.
SourceFault ==
    /\ runPc = "read"
    /\ error' = "acquisition"
    /\ runPc' = "close"
    /\ RunOnly /\ UNCHANGED <<ringVars, holding, produced, fed>>

PutTest ==
    /\ runPc = "put"
    /\ \/ PutRefused /\ runPc' = "close" /\ error' = CauseOr("overrun")
       \/ PutAdmitted /\ runPc' = "enqueue" /\ UNCHANGED error
    /\ RunOnly /\ UNCHANGED <<holding, produced, fed>>

PutChunk ==
    /\ runPc = "enqueue"
    /\ Enqueue(holding)
    /\ fed' = IF holding = EmptyChunk THEN fed ELSE holding
    /\ runPc' = "loop"
    /\ RunOnly /\ UNCHANGED <<holding, produced, error>>

MutPutTimesOut ==
    /\ runPc = "enqueue" /\ EnqueueTimesOut /\ runPc' = "loop"
    /\ RunOnly /\ UNCHANGED <<holding, produced, fed, error>>

PutTimesOut ==
    /\ runPc = "enqueue"
    /\ EnqueueTimesOut
    /\ error' = CauseOr("overrun")
    /\ runPc' = "close"
    /\ RunOnly /\ UNCHANGED <<holding, produced, fed>>

CloseRing ==
    /\ runPc = "close" /\ SetClosed /\ runPc' = "wake"
    /\ RunOnly /\ UNCHANGED <<holding, produced, fed, error>>

CloseWake ==
    /\ runPc = "wake" /\ WakeConsumer /\ runPc' = "join"
    /\ RunOnly /\ UNCHANGED <<holding, produced, fed, error>>

JoinConsumer ==
    /\ runPc = "join"
    /\ consPc = "dead" \/ JoinTimesOut
    /\ runPc' = "seal"
    /\ RunOnly /\ UNCHANGED <<ringVars, holding, produced, fed, error>>

\* raw.close(): flush and fsync, then no row can be appended any more.
CloseRaw ==
    /\ runPc = "seal"
    /\ rawClosed' = TRUE /\ flushed' = Len(raw)
    /\ runPc' = "stopBackup"
    /\ UNCHANGED <<ringVars, holding, produced, fed, consVars, raw, dirExists, cutVars, diskVars,
                   backupVars, finVars, outcomeVars, stopped>>

\* An exception in _run's finally block ends the thread where it is.
RunDies == DiskFails /\ runPc' = "dead"

CloseRawFails ==
    /\ runPc = "seal" /\ RunDies
    /\ UNCHANGED <<ringVars, holding, produced, fed, consVars, fileVars, cutVars, diskVars,
                   backupVars, finVars, outcomeVars, stopped>>

StopBackup ==
    /\ runPc = "stopBackup"
    /\ streamStop' = (streamStop \/ backup # "none")
    /\ runPc' = "conclude"
    /\ UNCHANGED <<ringVars, holding, produced, fed, consVars, fileVars, cutVars, diskVars, backup,
                   remoteDeleted, finVars, outcomeVars, stopped>>

\* There is data: finalize it on a thread of its own.
BeginFinalize ==
    /\ runPc = "conclude" /\ nTotal > 0
    /\ state' = "finalizing" /\ manifest' = "finalizing"
    /\ finPc' = "finalize" /\ runPc' = "dead"
    /\ UNCHANGED <<ringVars, holding, produced, fed, consVars, fileVars, cutVars, diskVars, backupVars,
                   finalized, summaryRows, recordedCut, error, errorKind, doneSent, stopped>>

\* The state is set first: without a manifest no finalize thread is started.
BeginFinalizeFails ==
    /\ runPc = "conclude" /\ nTotal > 0 /\ RunDies
    /\ state' = "finalizing"
    /\ UNCHANGED <<ringVars, holding, produced, fed, consVars, fileVars, cutVars, diskVars,
                   backupVars, finVars, manifest, error, errorKind, doneSent, stopped>>

\* No sample was counted.  The directory goes only if the raw file has no row either.
MutRemoveDir == error # "none"
RemoveDir == error # "none" /\ Len(raw) = 0

ConcludeWithoutData ==
    /\ runPc = "conclude" /\ nTotal = 0
    /\ state' = IF error = "none" THEN "done" ELSE "error"
    /\ dirExists' = ~RemoveDir
    /\ errorKind' = CASE RemoveDir -> "start"
                      [] ~RemoveDir /\ error # "none" -> "acquisition"
                      [] OTHER -> errorKind
    /\ manifest' = IF RemoveDir THEN "none" ELSE state'
    /\ doneSent' = doneSent + 1
    /\ runPc' = IF RemoveDir /\ backup # "none" THEN "tombstone" ELSE "dead"
    /\ UNCHANGED <<ringVars, holding, produced, fed, consVars, raw, flushed, rawClosed, cutVars, diskVars,
                   backupVars, finVars, error, stopped>>

ConcludeFails ==
    /\ runPc = "conclude" /\ nTotal = 0 /\ ~RemoveDir /\ RunDies
    /\ state' = IF error = "none" THEN "done" ELSE "error"
    /\ errorKind' = IF error = "none" THEN errorKind ELSE "acquisition"
    /\ UNCHANGED <<ringVars, holding, produced, fed, consVars, fileVars, cutVars, diskVars,
                   backupVars, finVars, manifest, error, doneSent, stopped>>

MarkRemoteDeleted ==
    /\ runPc = "tombstone"
    /\ remoteDeleted' = TRUE /\ runPc' = "dead"
    /\ UNCHANGED <<ringVars, holding, produced, fed, consVars, fileVars, cutVars, diskVars, backup,
                   streamStop, finVars, outcomeVars, stopped>>

-----------------------------------------------------------------------------
(* The consumer thread *)

ConsumerOnly == UNCHANGED <<runVars, cutVars, diskVars, backupVars, finVars, state, manifest,
                            errorKind, doneSent>>

GetItem ==
    /\ consPc = "get"
    /\ Dequeue
    /\ item' = IF Head(q) = Sentinel THEN item ELSE Head(q)
    /\ consPc' = CASE Head(q) = Sentinel -> "dead"
                   [] Head(q) = EmptyChunk -> "get"
                   [] OTHER -> "append"
    /\ ConsumerOnly /\ UNCHANGED <<nTotal, fileVars, error, stopped>>

GetEmpty ==
    /\ consPc = "get" /\ PollEmpty /\ consPc' = "empty"
    /\ ConsumerOnly /\ UNCHANGED <<item, nTotal, fileVars, error, stopped>>

MutGetTestClosed ==
    /\ consPc = "empty" /\ consPc' = "get"
    /\ ConsumerOnly /\ UNCHANGED <<ringVars, item, nTotal, fileVars, error, stopped>>

\* After Empty, get() tests the event again; the queue is not looked at a second time.
GetTestClosed ==
    /\ consPc = "empty"
    /\ consPc' = IF closed THEN "dead" ELSE "get"
    /\ ConsumerOnly /\ UNCHANGED <<ringVars, item, nTotal, fileVars, error, stopped>>

MutAppendRaw ==
    /\ consPc = "append"
    /\ raw' = Append(raw, item)
    /\ flushed' \in {flushed, Len(raw')}
    /\ consPc' = "process"
    /\ ConsumerOnly /\ UNCHANGED <<ringVars, item, nTotal, rawClosed, dirExists, error, stopped>>

\* RawWriter.append; an fsync (or a full buffer) may make every row so far durable.
AppendRaw ==
    /\ consPc = "append" /\ ~rawClosed
    /\ raw' = Append(raw, item)
    /\ flushed' \in {flushed, Len(raw')}
    /\ consPc' = "process"
    /\ ConsumerOnly /\ UNCHANGED <<ringVars, item, nTotal, rawClosed, dirExists, error, stopped>>

\* A disk error, or the file was closed after the join gave up.
AppendFails ==
    /\ consPc = "append"
    /\ consPc' = "failed"
    /\ ConsumerOnly /\ UNCHANGED <<ringVars, item, nTotal, fileVars, error, stopped>>

\* The causal detector fires at most once, and never after a manual mark.
Detect ==
    \/ cut = "none" /\ cut' = "auto" /\ cutSample' = nTotal
    \/ UNCHANGED <<cut, cutSample>>

MutProcessChunk ==
    /\ consPc = "process"
    /\ Detect
    /\ nTotal' = nTotal + 1
    /\ consPc' = "publish"
    /\ UNCHANGED <<ringVars, runVars, item, fileVars, markPc, diskVars, backupVars, finVars,
                   outcomeVars, stopped>>

\* The part under _cut_lock: detect, FRM, count the samples.
ProcessChunk ==
    /\ consPc = "process" /\ markPc # "held"
    /\ Detect
    /\ nTotal' = nTotal + 1
    /\ consPc' = "publish"
    /\ UNCHANGED <<ringVars, runVars, item, fileVars, markPc, diskVars, backupVars, finVars,
                   outcomeVars, stopped>>

\* Rails, decimation, formulas or the FRM raise before the samples are counted.
ProcessFails ==
    /\ consPc = "process" /\ markPc # "held"
    /\ Detect
    /\ consPc' = "failed"
    /\ UNCHANGED <<ringVars, runVars, item, nTotal, fileVars, markPc, diskVars, backupVars,
                   finVars, outcomeVars, stopped>>

PublishFrame ==
    /\ consPc = "publish"
    /\ consPc' \in {"get", "failed"}
    /\ ConsumerOnly /\ UNCHANGED <<ringVars, item, nTotal, fileVars, error, stopped>>

MutFailRecord ==
    /\ consPc = "failed" /\ consPc' = "failStop"
    /\ ConsumerOnly /\ UNCHANGED <<ringVars, item, nTotal, fileVars, error, stopped>>

\* _consume's except branch, in its order.
FailRecord ==
    /\ consPc = "failed"
    /\ error' = CauseOr("consumer") /\ consPc' = "failStop"
    /\ ConsumerOnly /\ UNCHANGED <<ringVars, item, nTotal, fileVars, stopped>>

FailStop ==
    /\ consPc = "failStop"
    /\ stopped' = TRUE /\ consPc' = "failClose"
    /\ ConsumerOnly /\ UNCHANGED <<ringVars, item, nTotal, fileVars, error>>

FailClose ==
    /\ \/ consPc = "failClose" /\ SetClosed /\ consPc' = "failWake"
       \/ consPc = "failWake" /\ WakeConsumer /\ consPc' = "drain"
    /\ ConsumerOnly /\ UNCHANGED <<item, nTotal, fileVars, error, stopped>>

FailDrain ==
    /\ consPc = "drain"
    /\ \/ DrainOne /\ UNCHANGED consPc
       \/ DrainDone /\ consPc' = "dead"
    /\ ConsumerOnly /\ UNCHANGED <<item, nTotal, fileVars, error, stopped>>

-----------------------------------------------------------------------------
(* The disk watcher *)

DiskOnly == UNCHANGED <<ringVars, runVars, consVars, fileVars, cutVars, remoteDeleted,
                        streamStop, finVars, outcomeVars>>

WatchTest ==
    /\ diskPc = "test"
    /\ diskPc' = IF stopped \/ state # "recording" THEN "dead" ELSE "measure"
    /\ DiskOnly /\ UNCHANGED <<tried, diskAction, backup, stopped>>

\* Free space: enough or unknown, below DISK_STOP_GB, below DISK_BACKUP_GB.
MeasureDisk ==
    /\ diskPc = "measure"
    /\ \/ diskPc' = "test" /\ UNCHANGED <<tried, diskAction>>
       \/ diskPc' = "stop" /\ diskAction' = "forced_stop" /\ UNCHANGED tried
       \/ /\ backup = "none" /\ ~tried
          /\ diskPc' = "enable" /\ tried' = TRUE /\ UNCHANGED diskAction
    /\ DiskOnly /\ UNCHANGED <<backup, stopped>>

ForceStop ==
    /\ diskPc = "stop"
    /\ stopped' = TRUE /\ diskPc' = "dead"
    /\ DiskOnly /\ UNCHANGED <<tried, diskAction, backup>>

\* _enable_backup_now: the attribute is assigned before the thread is started.
EnableBackup ==
    /\ diskPc = "enable"
    /\ \/ backup' = "new" /\ diskPc' = "startStream" /\ UNCHANGED diskAction
       \/ diskPc' = "test" /\ diskAction' = "backup_unavailable" /\ UNCHANGED backup
    /\ DiskOnly /\ UNCHANGED <<tried, stopped>>

StartStream ==
    /\ diskPc = "startStream"
    /\ \/ backup' = "started" /\ diskAction' = "backup_started"
       \/ backup' = "none" /\ diskAction' = "backup_unavailable"
    /\ diskPc' = "test"
    /\ DiskOnly /\ UNCHANGED <<tried, stopped>>

-----------------------------------------------------------------------------
(* The finalize thread *)

FinOnly == UNCHANGED <<ringVars, runVars, consVars, fileVars, cutVars, diskVars, backupVars,
                       stopped>>

\* finalize() writes summary.json last and atomically.
WriteSummary ==
    /\ finPc = "finalize"
    /\ finalized' = TRUE /\ summaryRows' = Len(raw)
    /\ finPc' = "recordCut"
    /\ FinOnly /\ UNCHANGED <<recordedCut, outcomeVars>>

FinalizeFails ==
    /\ finPc = "finalize"
    /\ error' = CauseOr("finalize") /\ errorKind' = "finalize" /\ state' = "error"
    /\ finPc' = "report"
    /\ FinOnly /\ UNCHANGED <<finalized, summaryRows, recordedCut, manifest, doneSent>>

\* Best effort: the summary may stay without it.
RecordCutStart ==
    /\ finPc = "recordCut"
    /\ recordedCut' \in {cut, "unset"}
    /\ finPc' = "outcome"
    /\ FinOnly /\ UNCHANGED <<finalized, summaryRows, outcomeVars>>

Conclude ==
    /\ finPc = "outcome"
    /\ state' = IF error = "none" THEN "done" ELSE "error"
    /\ errorKind' = IF error = "none" THEN errorKind ELSE "acquisition"
    /\ finPc' = "report"
    /\ FinOnly /\ UNCHANGED <<finalized, summaryRows, recordedCut, manifest, error, doneSent>>

MutReport ==
    /\ finPc = "report" /\ doneSent' = doneSent + 1 /\ finPc' = "dead"
    /\ FinOnly
    /\ UNCHANGED <<finalized, summaryRows, recordedCut, state, manifest, error, errorKind>>

Report ==
    /\ finPc = "report"
    /\ manifest' = state /\ doneSent' = doneSent + 1
    /\ finPc' = "dead"
    /\ FinOnly /\ UNCHANGED <<finalized, summaryRows, recordedCut, state, error, errorKind>>

ReportFails ==
    /\ DiskFails /\ finPc = "report" /\ finPc' = "dead"
    /\ FinOnly /\ UNCHANGED <<finalized, summaryRows, recordedCut, outcomeVars>>

-----------------------------------------------------------------------------
(* The operator's cut mark, and the end of the process *)

\* mark_cut_start_now: the tests, with _cut_lock held until the origin is set.
MarkBegin ==
    /\ markPc = "idle"
    /\ state = "recording" /\ FrmFromCut /\ cut = "none" /\ nTotal > 0
    /\ markPc' = "held"
    /\ UNCHANGED <<ringVars, runVars, consVars, fileVars, cut, cutSample, diskVars, backupVars,
                   finVars, outcomeVars, stopped>>

MutMarkEnd ==
    /\ markPc = "held"
    /\ cut' = "manual" /\ cutSample' = nTotal
    /\ markPc' = "idle"
    /\ UNCHANGED <<ringVars, runVars, consVars, fileVars, diskVars, backupVars, finVars,
                   outcomeVars, stopped>>

MarkEnd ==
    /\ markPc = "held"
    /\ cut' = "manual" /\ cutSample' = nTotal - 1
    /\ markPc' = "idle"
    /\ UNCHANGED <<ringVars, runVars, consVars, fileVars, diskVars, backupVars, finVars,
                   outcomeVars, stopped>>

\* The process is killed: threads and queue are gone, unflushed rows may be lost.
Crash ==
    /\ state \notin {"idle", "crashed"}
    /\ state' = "crashed"
    /\ runPc' = "dead" /\ consPc' = "dead" /\ diskPc' = "dead" /\ finPc' = "dead"
    /\ markPc' = "idle" /\ q' = <<>> /\ closed' = TRUE
    /\ \E k \in flushed .. Len(raw) : raw' = SubSeq(raw, 1, k) /\ flushed' = k
    /\ rawClosed' = TRUE
    /\ UNCHANGED <<holding, produced, fed, item, nTotal, dirExists, cut, cutSample, tried, diskAction,
                   backupVars, finalized, summaryRows, recordedCut, manifest, error, errorKind,
                   doneSent, stopped>>

-----------------------------------------------------------------------------
RunStep == SourceStart \/ LoopTest \/ SourceRead \/ SourceEnd \/ SourceFault \/ PutTest
           \/ PutChunk \/ PutTimesOut \/ CloseRing \/ CloseWake \/ JoinConsumer \/ CloseRaw
           \/ CloseRawFails \/ StopBackup \/ BeginFinalize \/ BeginFinalizeFails
           \/ ConcludeWithoutData \/ ConcludeFails \/ MarkRemoteDeleted
ConsumerStep == GetItem \/ GetEmpty \/ GetTestClosed \/ AppendRaw \/ AppendFails \/ ProcessChunk
                \/ ProcessFails \/ PublishFrame \/ FailRecord \/ FailStop \/ FailClose \/ FailDrain
DiskStep == WatchTest \/ MeasureDisk \/ ForceStop \/ EnableBackup \/ StartStream
FinalizeStep == WriteSummary \/ FinalizeFails \/ RecordCutStart \/ Conclude \/ Report
                \/ ReportFails
MarkStep == MarkBegin \/ MarkEnd

Next == Start \/ StartFails \/ Stop \/ RunStep \/ ConsumerStep \/ DiskStep \/ FinalizeStep
        \/ MarkStep \/ Crash

Spec == Init /\ [][Next]_vars

\* Every thread that is started keeps running; nobody is obliged to press stop.
FairSpec ==
    /\ Spec
    /\ WF_vars(RunStep) /\ WF_vars(ConsumerStep) /\ WF_vars(DiskStep)
    /\ WF_vars(FinalizeStep) /\ WF_vars(MarkEnd)
-----------------------------------------------------------------------------
(* Properties *)

TypeOK ==
    /\ q \in Seq(Nat \cup {Sentinel}) /\ Len(q) <= MaxSize /\ closed \in BOOLEAN
    /\ state \in {"idle", "recording", "finalizing", "done", "error", "crashed"}
    /\ manifest \in {"none", "recording", "finalizing", "done", "error"}
    /\ error \in Causes
    /\ errorKind \in {"none", "start", "acquisition", "finalize"}
    /\ stopped \in BOOLEAN
    /\ runPc \in RunPcs /\ holding \in Nat /\ produced \in Nat /\ fed \in Nat
    /\ consPc \in ConsPcs /\ item \in Nat /\ nTotal \in Nat
    /\ raw \in Seq(Nat) /\ flushed \in Nat /\ flushed <= Len(raw)
    /\ rawClosed \in BOOLEAN /\ dirExists \in BOOLEAN
    /\ cut \in CutSources /\ cutSample \in Nat /\ markPc \in {"idle", "held"}
    /\ diskPc \in DiskPcs /\ tried \in BOOLEAN
    /\ diskAction \in {"none", "forced_stop", "backup_started", "backup_unavailable"}
    /\ backup \in {"none", "new", "started"}
    /\ streamStop \in BOOLEAN /\ remoteDeleted \in BOOLEAN
    /\ finPc \in FinPcs /\ finalized \in BOOLEAN /\ summaryRows \in Nat
    /\ recordedCut \in CutSources \cup {"unset"}
    /\ doneSent \in Nat

\* The raw file is the stream in order: whatever the two threads, an overrun or a failure
\* do, no row is duplicated, swapped or skipped (raw.append, "never dropped").
RawIsStreamPrefix ==
    /\ Len(raw) <= fed
    /\ \A i \in 1 .. Len(raw) : raw[i] = i

\* "done" is the truth: a session whose consumer failed never reports it (_consume records why
\* before _run can conclude), and if the raw file has rows it has been finalized and the summary
\* describes every row, although _run decides on n_total and rows are written before counted.
DoneIsHonest ==
    state = "done" =>
        /\ error = "none"
        /\ Len(raw) > 0 => finalized /\ summaryRows = Len(raw)

\* What the interruption tests promise of every failure mode: once the session has reported,
\* manifest.json says the same as the session, unless the empty directory is gone.
ManifestAgrees ==
    doneSent > 0 /\ state # "crashed" => manifest = IF dirExists THEN state ELSE "none"

\* The cut origin lies on a sample of the raw file and so on one of the summary's, also when a
\* failure leaves rows that n_total does not count.
CutInsideCapture == cut # "none" /\ state # "crashed" => cutSample < Len(raw)

\* The origin is never moved once set: detector and manual mark exclude each other.
CutOriginFixed == [][cut # "none" => UNCHANGED <<cut, cutSample>>]_vars

\* The first cause is kept: an overrun, a finalize failure or a consumer failure never replaces
\* it; only an exception of the source itself does.
CauseKept == [][error # "none" => error' \in {error, "acquisition"}]_vars

\* The capture's files keep the promise of CaptureFile.
Capture == INSTANCE CaptureFile WITH
    rows <- Len(raw), durable <- flushed, sealed <- rawClosed, present <- dirExists,
    summarized <- finalized, described <- summaryRows
ImplementsCaptureFile == Capture!Spec

\* Every queued chunk is delivered before the close is seen, so a normal stop never loses data.
\* Does not hold (README, section 5).
NoLossOnNormalStop == state = "done" /\ error = "none" => Len(raw) = fed

\* summary.json says how the cut origin was set, and null only if the cut never started.
\* Does not hold (README, section 5).
RecordedCutIsTheCut ==
    state \in {"done", "error"} /\ recordedCut # "unset" => recordedCut = cut

\* Once asked to stop, by the operator, the disk watcher or a failed consumer, the recording
\* reaches its terminal state instead of reading "recording" forever.
StopCompletes == stopped ~> state \in {"done", "error", "crashed"}

\* A failure of the consumer (a disk error on the raw append) ends the run cleanly instead of
\* leaving a session that reads "recording" forever. Does not hold (README, section 5).
FailureEndsRun == consPc = "failed" ~> state \in {"done", "error", "crashed"}

\* A killed or finished session has no thread left behind.
ThreadsEnd == stopped ~> \/ state = "crashed"
                         \/ runPc = "dead" /\ consPc = "dead" /\ diskPc = "dead"

\* stop() settles the session: the state leaves "recording" for good although the disk may be
\* full or the consumer dead, and none of the three threads outlives it.
SessionSettles == StopCompletes /\ ThreadsEnd
==============================================================================
