---------------------------- MODULE BackupStream ----------------------------
(***************************************************************************)
(* The live backup of one recording: the BackupStreamer thread             *)
(* (app/backup.py) that tails raw.d1raw, the network, and the server.      *)
(*                                                                         *)
(* A request may never arrive, its answer may be lost, and a request the   *)
(* client gave up on may still arrive later; the client cannot tell which. *)
(***************************************************************************)
EXTENDS BackupServer, FiniteSets

CONSTANTS
    MaxFile,    \* bound: bytes of the recorder's raw file
    MaxChunk,   \* MAX_CHUNK_BYTES
    MaxLate     \* bound: requests given up on and still under way

ASSUME StreamAssumption ==
    /\ MaxFile \in Nat /\ MaxFile >= HeaderSize
    /\ MaxChunk \in Nat \ {0}
    /\ MaxLate \in Nat

VARIABLES
    fileSize,       \* bytes of raw.d1raw that a reader can see (kept after a local delete)
    fileThere,      \* raw.d1raw has not been deleted locally
    fileClosed,     \* RawWriter.close() done, or the recorder died
    recorderUp,     \* the recorder process that owns the streamer
    stopEv,         \* the streamer's _stop event
    cPc,            \* the streamer thread
    header,         \* bytes of the header it read
    offset, target, \* next byte to send, and the file size it last saw
    registered,     \* /ingest/start was answered
    cur, reply,     \* the request under way and the server's answer to it
    late            \* requests given up on that may still arrive

fileVars == <<fileSize, fileThere, fileClosed>>
clientVars == <<cPc, header, offset, target, registered>>
netVars == <<cur, reply, late>>
vars == <<serverVars, fileVars, recorderUp, stopEv, clientVars, netVars>>

Pcs == {"header", "reg", "regWait", "loop", "reregWait", "send", "sendWait", "final",
        "finalSend", "finalWait", "finish", "finishWait", "done", "error", "dead"}
Request == [kind : {"none", "start", "chunk", "finish"}, off : Nat, len : Nat]
NoRequest == [kind |-> "none", off |-> 0, len |-> 0]

Init ==
    /\ ServerInit
    /\ fileSize = 0 /\ fileThere = TRUE /\ fileClosed = FALSE
    /\ recorderUp = TRUE /\ stopEv = FALSE
    /\ cPc = "header" /\ header = 0 /\ offset = HeaderSize /\ target = 0
    /\ registered = FALSE
    /\ cur = NoRequest /\ reply = "none" /\ late = {}

-----------------------------------------------------------------------------
(* The recorder around the streamer *)

\* RawWriter flushes what it buffered: the first flush carries the header.
FlushRaw ==
    /\ recorderUp /\ ~fileClosed /\ fileSize < MaxFile
    /\ fileSize' = fileSize + 1
    /\ UNCHANGED <<serverVars, fileThere, fileClosed, recorderUp, stopEv, clientVars, netVars>>

CloseRaw ==
    /\ recorderUp /\ ~fileClosed /\ fileSize >= HeaderSize
    /\ fileClosed' = TRUE
    /\ UNCHANGED <<serverVars, fileSize, fileThere, recorderUp, stopEv, clientVars, netVars>>

\* RecordingSession._run stops the streamer after raw.close().
StopStreamer ==
    /\ recorderUp /\ fileClosed /\ ~stopEv
    /\ stopEv' = TRUE
    /\ UNCHANGED <<serverVars, fileVars, recorderUp, clientVars, netVars>>

\* A capture can be deleted once its session is over, with the streamer still sending.
DeleteLocal ==
    /\ fileThere /\ fileClosed /\ (stopEv \/ ~recorderUp)
    /\ fileThere' = FALSE
    /\ UNCHANGED <<serverVars, fileSize, fileClosed, recorderUp, stopEv, clientVars, netVars>>

\* The recorder is killed; no streamer takes the session over after a restart.
RecorderCrash ==
    /\ recorderUp
    /\ recorderUp' = FALSE /\ fileClosed' = TRUE /\ cPc' = "dead"
    /\ cur' = NoRequest /\ reply' = "none"
    /\ late' \in {late} \cup (IF cur # NoRequest /\ reply = "none" /\ Cardinality(late) < MaxLate
                              THEN {late \cup {cur}} ELSE {})
    /\ UNCHANGED <<serverVars, fileSize, fileThere, stopEv, header, offset, target, registered>>

-----------------------------------------------------------------------------
(* The streamer thread *)

ClientOnly == UNCHANGED <<serverVars, fileVars, recorderUp, stopEv>>
NoTraffic == UNCHANGED netVars

Send(k, o, n) ==
    /\ cur' = [kind |-> k, off |-> o, len |-> n] /\ reply' = "none"
    /\ UNCHANGED late

Succeeds ==
    /\ reply = "ok"
    /\ cur' = NoRequest /\ reply' = "none" /\ UNCHANGED late

\* An HTTP error, a refused connection, a lost answer, or a timeout with the request under way.
Fails ==
    /\ cur # NoRequest
    /\ cur' = NoRequest /\ reply' = "none"
    /\ \/ UNCHANGED late
       \/ reply = "none" /\ Cardinality(late) < MaxLate /\ late' = late \cup {cur}

\* 20 polls for a file with a header; then whatever is there is read.
WaitHeader ==
    /\ cPc = "header" /\ ~stopEv
    /\ header' = IF fileSize >= HeaderSize THEN HeaderSize ELSE 0
    /\ cPc' = IF fileThere THEN "reg" ELSE "error"
    /\ ClientOnly /\ NoTraffic /\ UNCHANGED <<offset, target, registered>>

WaitHeaderStopped ==
    /\ cPc = "header" /\ stopEv
    /\ cPc' = "done"
    /\ ClientOnly /\ NoTraffic /\ UNCHANGED <<header, offset, target, registered>>

Register ==
    /\ cPc = "reg"
    /\ Send("start", 0, header) /\ cPc' = "regWait"
    /\ ClientOnly /\ UNCHANGED <<header, offset, target, registered>>

RegisterEnd ==
    /\ cPc = "regWait"
    /\ \/ Succeeds /\ registered' = TRUE
       \/ Fails /\ registered' = FALSE
    /\ cPc' = "loop"
    /\ ClientOnly /\ UNCHANGED <<header, offset, target>>

LoopStopped ==
    /\ cPc = "loop" /\ stopEv
    /\ cPc' = "final"
    /\ ClientOnly /\ NoTraffic /\ UNCHANGED <<header, offset, target, registered>>

MutLoopData ==
    /\ cPc = "loop" /\ ~stopEv /\ fileThere /\ fileSize > offset /\ registered
    /\ target' = fileSize /\ cPc' = "send"
    /\ ClientOnly /\ NoTraffic /\ UNCHANGED <<header, offset, registered>>

\* One interval with new data: register first if that has not worked yet.
LoopData ==
    /\ cPc = "loop" /\ ~stopEv /\ fileThere /\ fileSize > offset
    /\ target' = fileSize
    /\ IF registered THEN cPc' = "send" /\ NoTraffic
                     ELSE cPc' = "reregWait" /\ Send("start", 0, header)
    /\ ClientOnly /\ UNCHANGED <<header, offset, registered>>

ReregisterEnd ==
    /\ cPc = "reregWait"
    /\ \/ Succeeds /\ registered' = TRUE /\ cPc' = "send"
       \/ Fails /\ cPc' = "loop" /\ UNCHANGED registered
    /\ ClientOnly /\ UNCHANGED <<header, offset, target>>

NextLen == IF target - offset < MaxChunk THEN target - offset ELSE MaxChunk

SendChunk ==
    /\ \/ cPc = "send" /\ cPc' = "sendWait"
       \/ cPc = "finalSend" /\ cPc' = "finalWait"
    /\ offset < target
    /\ Send("chunk", offset, NextLen)
    /\ ClientOnly /\ UNCHANGED <<header, offset, target, registered>>

SendDone ==
    /\ \/ cPc = "send" /\ cPc' = "loop"
       \/ cPc = "finalSend" /\ cPc' = "finish"
    /\ offset >= target
    /\ ClientOnly /\ NoTraffic /\ UNCHANGED <<header, offset, target, registered>>

MutSendEnd ==
    /\ \/ cPc = "sendWait" /\ cPc' = "send"
       \/ cPc = "finalWait" /\ cPc' = "finalSend"
    /\ Succeeds \/ Fails
    /\ offset' = offset + cur.len
    /\ ClientOnly /\ UNCHANGED <<header, target, registered>>

\* The offset advances only on an answer; otherwise the same bytes are sent again.
SendEnd ==
    /\ \/ /\ Succeeds
          /\ offset' = offset + cur.len
          /\ \/ cPc = "sendWait" /\ cPc' = "send"
             \/ cPc = "finalWait" /\ cPc' = "finalSend"
       \/ /\ Fails
          /\ UNCHANGED offset
          /\ \/ cPc = "sendWait" /\ cPc' = "loop"
             \/ cPc = "finalWait" /\ cPc' = "finish"
    /\ ClientOnly /\ UNCHANGED <<header, target, registered>>

\* After stop: the rest of the file, if it is still there and the session was registered.
FinalBytes ==
    /\ cPc = "final"
    /\ IF fileThere /\ registered
       THEN target' = fileSize /\ cPc' = "finalSend"
       ELSE cPc' = "finish" /\ UNCHANGED target
    /\ ClientOnly /\ NoTraffic /\ UNCHANGED <<header, offset, registered>>

\* Sent whether or not every byte was taken.
SendFinish ==
    /\ cPc = "finish"
    /\ IF registered THEN cPc' = "finishWait" /\ Send("finish", 0, 0)
                     ELSE cPc' = "done" /\ NoTraffic
    /\ ClientOnly /\ UNCHANGED <<header, offset, target, registered>>

FinishEnd ==
    /\ cPc = "finishWait"
    /\ Succeeds \/ Fails
    /\ cPc' = "done"
    /\ ClientOnly /\ UNCHANGED <<header, offset, target, registered>>

ClientStep == WaitHeader \/ WaitHeaderStopped \/ Register \/ RegisterEnd \/ LoopStopped \/ LoopData
              \/ ReregisterEnd \/ SendChunk \/ SendDone \/ SendEnd \/ FinalBytes \/ SendFinish
              \/ FinishEnd

-----------------------------------------------------------------------------
(* Requests reach the server *)

RecorderSide == UNCHANGED <<fileVars, recorderUp, stopEv, clientVars>>

Handle(r) ==
    \/ r.kind = "start" /\ IngestStart(r.len)
    \/ r.kind = "chunk" /\ IngestChunk(r.off, r.len)
    \/ r.kind = "finish" /\ IngestFinish

\* The server is killed while handling r and comes back: nobody is answered.
HandleCut(r) ==
    \/ r.kind = "start" /\ IngestStartCut(r.len)
    \/ r.kind = "chunk" /\ IngestChunkCut(r.off, r.len)

Accepted(r) == CASE r.kind = "start" -> TRUE
                 [] r.kind = "chunk" -> ChunkAccepted(r.off)
                 [] OTHER -> sDir

Deliver ==
    /\ cur # NoRequest /\ reply = "none"
    /\ Handle(cur)
    /\ reply' = IF Accepted(cur) THEN "ok" ELSE "refused"
    /\ RecorderSide /\ UNCHANGED <<cur, late>>

DeliverLate ==
    /\ \E r \in late : Handle(r) /\ late' = late \ {r}
    /\ RecorderSide /\ UNCHANGED <<cur, reply>>

ServerKilled ==
    /\ cur # NoRequest /\ reply = "none"
    /\ HandleCut(cur)
    /\ reply' = "refused"
    /\ RecorderSide /\ UNCHANGED <<cur, late>>

-----------------------------------------------------------------------------
(* The server's other operations *)

ServerOnly == RecorderSide /\ UNCHANGED netVars

LocalDeleteReported == ~fileThere /\ MarkDeleted /\ ServerOnly
RestoreReported == ~fileThere /\ UnmarkDeleted /\ ServerOnly
RemoteDelete == SessionDelete /\ ServerOnly
ClockTick == Tick /\ ServerOnly
PurgeSweep == Purge /\ ServerOnly

Next ==
    \/ FlushRaw \/ CloseRaw \/ StopStreamer \/ DeleteLocal \/ RecorderCrash
    \/ ClientStep
    \/ Deliver \/ DeliverLate \/ ServerKilled
    \/ LocalDeleteReported \/ RestoreReported \/ RemoteDelete \/ ClockTick \/ PurgeSweep

Spec == Init /\ [][Next]_vars
\* The streamer thread runs on, the clock ticks and the sweep comes round; of the requests the
\* streamer keeps repeating, one eventually arrives and is answered.
Answered == Succeeds /\ ClientStep
FairSpec ==
    /\ Spec
    /\ WF_vars(ClientStep) /\ SF_vars(Deliver) /\ SF_vars(Answered)
    /\ WF_vars(ClockTick) /\ WF_vars(PurgeSweep)

-----------------------------------------------------------------------------
(* Properties *)

TypeOK ==
    /\ sDir \in BOOLEAN /\ sRaw \in Seq(Nat) /\ sMeta \in MetaStates
    /\ sBefore \in IF sMeta = "deleted" THEN {"streaming", "complete", "unknown"} ELSE {"absent"}
    /\ sAge \in Nat /\ wiped \in BOOLEAN /\ finishSeen \in BOOLEAN
    /\ fileSize \in Nat /\ fileThere \in BOOLEAN /\ fileClosed \in BOOLEAN
    /\ recorderUp \in BOOLEAN /\ stopEv \in BOOLEAN
    /\ cPc \in Pcs /\ header \in 0 .. HeaderSize /\ offset \in Nat /\ target \in Nat
    /\ registered \in BOOLEAN
    /\ cur \in Request /\ reply \in {"none", "ok", "refused"} /\ late \in SUBSET Request

\* However requests are lost, repeated, overlapped or delayed, and wherever the server is killed,
\* the server's file is byte for byte a prefix of the recorder's: no row is ever misaligned.
CopyIsPrefix ==
    /\ Len(sRaw) <= fileSize
    /\ \A i \in 1 .. Len(sRaw) : sRaw[i] = i

\* bytes_sent is honest: every byte the streamer counts as sent is on the server, until the
\* server's own copy is purged or deleted.
SentIsHeld == offset > HeaderSize /\ ~wiped => Len(sRaw) >= offset

\* No replay of a start, late chunk or late finish turns a tombstone back into a healthy backup:
\* only a reported restore does, or the removal of the copy.
TombstoneStays ==
    [][sMeta = "deleted" /\ sRaw # <<>> /\ sMeta' # "deleted" =>
           RestoreReported \/ ~sDir']_vars

\* The server's copy never shrinks, except by its removal.
CopyOnlyGrows == [][Len(sRaw') >= Len(sRaw) \/ ~sDir']_vars

\* A tombstone cannot be kept alive by repeated deletes: it expires or is restored.
TombstoneExpires == sMeta = "deleted" ~> sMeta # "deleted"

\* stop() is always followed by the end of the streamer thread, server or no server.
StreamerEnds == stopEv ~> cPc \in {"done", "error", "dead"}

\* After an outage the streamer catches up with everything recorded so far.
BacklogCaughtUp ==
    \A n \in HeaderSize + 1 .. MaxFile :
        fileSize >= n /\ header = HeaderSize ~> offset >= n \/ stopEv \/ ~recorderUp \/ wiped

\* What the streamer and the server have begun comes to an end: a purge, a stop, a backlog.
BackupSettles == TombstoneExpires /\ StreamerEnds /\ BacklogCaughtUp

\* A copy whose state is "complete" ("Fully backed up") is the whole recording.
\* Does not hold (README, section 5).
CompleteIsWhole ==
    sMeta = "complete" /\ fileClosed /\ fileThere /\ header = HeaderSize => Len(sRaw) = fileSize

\* Once the session is registered the header is on the server, so that the stream can go on
\* from HeaderSize ("already sent").  Does not hold (README, section 5).
HeaderAlreadySent == registered /\ ~wiped => Len(sRaw) >= HeaderSize

\* After a restore the state is again what the stream had reached.  Does not hold (README, section 5).
FinishNotForgotten == finishSeen => sMeta # "streaming"
=============================================================================
