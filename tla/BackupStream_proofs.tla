------------------------ MODULE BackupStream_proofs -------------------------
(***************************************************************************)
(* For a file, a chunk size and a retention time of any length, and any    *)
(* number of requests under way: the server's copy is a prefix of the      *)
(* recorder's file, and what the streamer counts as sent is on the server. *)
(***************************************************************************)
EXTENDS BackupStream, SequenceTheorems, TLAPS

-----------------------------------------------------------------------------
(* Bytes and the server's copy *)

LEMMA BytesSeq ==
    ASSUME NEW off \in Nat, NEW n \in Nat
    PROVE  /\ Bytes(off, n) \in Seq(Nat)
           /\ Len(Bytes(off, n)) = n
           /\ \A i \in 1 .. n : Bytes(off, n)[i] = off + i
  BY DEF Bytes

IsPrefixOfFile(s) == \A i \in 1 .. Len(s) : s[i] = i

\* A file that was just begun is a prefix.
LEMMA BeginCopy ==
    ASSUME NEW n \in Nat
    PROVE  Bytes(0, n) \in Seq(Nat) /\ Len(Bytes(0, n)) = n /\ IsPrefixOfFile(Bytes(0, n))
  <1> DEFINE b == Bytes(0, n)
  <1>1. b \in Seq(Nat) /\ Len(b) = n /\ \A i \in 1 .. n : b[i] = 0 + i
    BY BytesSeq
  <1> HIDE DEF b
  <1>2. \A i \in 1 .. Len(b) : b[i] = i
    BY <1>1
  <1> QED
    BY <1>1, <1>2 DEF b, IsPrefixOfFile

\* What continues the copy keeps it a prefix.
LEMMA Continue ==
    ASSUME NEW s \in Seq(Nat), NEW t \in Seq(Nat),
           IsPrefixOfFile(s), \A j \in 1 .. Len(t) : t[j] = Len(s) + j
    PROVE  /\ s \o t \in Seq(Nat)
           /\ Len(s \o t) = Len(s) + Len(t)
           /\ IsPrefixOfFile(s \o t)
  BY DEF IsPrefixOfFile

\* The part of an accepted chunk that is not held yet continues the copy.
LEMMA NewBytesContinue ==
    ASSUME sRaw \in Seq(Nat), NEW off \in Nat, NEW n \in Nat,
           off <= Len(sRaw), Len(sRaw) - off < n
    PROVE  /\ NewBytes(off, n) \in Seq(Nat)
           /\ Len(NewBytes(off, n)) = off + n - Len(sRaw)
           /\ \A j \in 1 .. Len(NewBytes(off, n)) : NewBytes(off, n)[j] = Len(sRaw) + j
  <1> DEFINE b == Bytes(off, n)
             from == Len(sRaw) - off + 1
  <1>1. b \in Seq(Nat) /\ Len(b) = n /\ \A i \in 1 .. n : b[i] = off + i
    BY BytesSeq
  <1>2. from \in Nat /\ from >= 1 /\ from <= n
    OBVIOUS
  <1>3. NewBytes(off, n) = SubSeq(b, from, n)
    BY DEF NewBytes
  <1> HIDE DEF b
  <1>4. /\ SubSeq(b, from, n) \in Seq(Nat)
        /\ Len(SubSeq(b, from, n)) = n - from + 1
        /\ \A j \in 1 .. n - from + 1 : SubSeq(b, from, n)[j] = b[from + j - 1]
    <2>1. \A i \in from .. n : b[i] \in Nat
      BY <1>1, <1>2
    <2> QED
      BY <2>1, <1>2, SubSeqProperties
  <1> DEFINE c == SubSeq(b, from, n)
  <1>5. c \in Seq(Nat) /\ Len(c) = off + n - Len(sRaw)
    BY <1>4
  <1>6. ASSUME NEW j \in 1 .. Len(c) PROVE c[j] = Len(sRaw) + j
    <2>1. j \in 1 .. n - from + 1 /\ from + j - 1 \in 1 .. n
      BY <1>2, <1>5
    <2>2. c[j] = b[from + j - 1]
      BY <1>4, <2>1
    <2>3. b[from + j - 1] = off + (from + j - 1)
      BY <1>1, <2>1
    <2> QED
      BY <2>2, <2>3
  <1> QED
    BY <1>3, <1>5, <1>6
-----------------------------------------------------------------------------
(* The inductive invariant *)

InFile(r) == r.off + r.len <= fileSize

\* Requests under way carry bytes of the file only, so no late one can do harm.
PrefixInv ==
    /\ sRaw \in Seq(Nat) /\ Len(sRaw) <= fileSize /\ IsPrefixOfFile(sRaw)
    /\ fileSize \in Nat /\ header \in 0 .. HeaderSize /\ header <= fileSize
    /\ offset \in Nat /\ target \in Nat /\ target <= fileSize
    /\ cur \in Request /\ InFile(cur)
    /\ late \in SUBSET Request /\ \A r \in late : InFile(r)

\* What a handler does to the copy.
LEMMA HandleKeepsPrefix ==
    ASSUME PrefixInv, NEW r \in Request, InFile(r), Handle(r)
    PROVE  /\ sRaw' \in Seq(Nat) /\ Len(sRaw') <= fileSize /\ IsPrefixOfFile(sRaw')
           /\ Len(sRaw') >= Len(sRaw)
           /\ r.kind = "chunk" /\ ChunkAccepted(r.off) => Len(sRaw') >= r.off + r.len
           /\ UNCHANGED wiped
  <1> USE DEF PrefixInv, InFile
  <1>0. r.off \in Nat /\ r.len \in Nat
    BY DEF Request
  <1>1. CASE r.kind = "start" /\ IngestStart(r.len)
    <2>1. CASE UNCHANGED sRaw
      BY <1>0, <1>1, <2>1 DEF IngestStart
    <2>2. CASE sRaw = <<>> /\ sRaw' = Bytes(0, r.len)
      <3>1. sRaw' \in Seq(Nat) /\ Len(sRaw') = r.len /\ IsPrefixOfFile(sRaw')
        BY <1>0, <2>2, BeginCopy
      <3>2. Len(sRaw) = 0
        BY <2>2
      <3> QED
        BY <1>0, <1>1, <3>1, <3>2 DEF IngestStart
    <2> QED
      BY <1>1, <2>1, <2>2 DEF IngestStart
  <1>2. CASE r.kind = "chunk" /\ IngestChunk(r.off, r.len)
    <2>1. CASE ChunkAccepted(r.off) /\ Len(sRaw) - r.off < r.len
      <3>1. r.off <= Len(sRaw) /\ sRaw' = sRaw \o NewBytes(r.off, r.len) /\ UNCHANGED wiped
        BY <1>2, <2>1 DEF IngestChunk, ChunkAccepted
      <3>2. /\ NewBytes(r.off, r.len) \in Seq(Nat)
            /\ Len(NewBytes(r.off, r.len)) = r.off + r.len - Len(sRaw)
            /\ \A j \in 1 .. Len(NewBytes(r.off, r.len)) :
                   NewBytes(r.off, r.len)[j] = Len(sRaw) + j
        BY <1>0, <2>1, <3>1, NewBytesContinue
      <3>3. /\ sRaw' \in Seq(Nat) /\ IsPrefixOfFile(sRaw')
            /\ Len(sRaw') = Len(sRaw) + Len(NewBytes(r.off, r.len))
        BY <3>1, <3>2, Continue
      <3> QED
        BY <1>0, <2>1, <3>1, <3>2, <3>3
    <2>2. CASE ~(ChunkAccepted(r.off) /\ Len(sRaw) - r.off < r.len)
      BY <1>0, <1>2, <2>2 DEF IngestChunk
    <2> QED
      BY <2>1, <2>2
  <1>3. CASE r.kind = "finish" /\ IngestFinish
    BY <1>0, <1>3 DEF IngestFinish
  <1> QED
    BY <1>1, <1>2, <1>3 DEF Handle

\* A handler cut short by a kill keeps it too.
LEMMA HandleCutKeepsPrefix ==
    ASSUME PrefixInv, NEW r \in Request, InFile(r), HandleCut(r)
    PROVE  /\ sRaw' \in Seq(Nat) /\ Len(sRaw') <= fileSize /\ IsPrefixOfFile(sRaw')
           /\ Len(sRaw') >= Len(sRaw)
           /\ UNCHANGED wiped
  <1> USE DEF PrefixInv, InFile
  <1>0. r.off \in Nat /\ r.len \in Nat
    BY DEF Request
  <1>1. CASE r.kind = "start" /\ IngestStartCut(r.len)
    <2>0. sRaw' = Bytes(0, r.len)
      BY <1>1 DEF IngestStartCut
    <2>1. sRaw' \in Seq(Nat) /\ Len(sRaw') = r.len /\ IsPrefixOfFile(sRaw')
      BY <1>0, <2>0, BeginCopy
    <2>2. Len(sRaw) = 0 /\ UNCHANGED wiped
      BY <1>1 DEF IngestStartCut
    <2> QED
      BY <1>0, <2>1, <2>2
  <1>2. CASE r.kind = "chunk" /\ IngestChunkCut(r.off, r.len)
    <2> DEFINE t == NewBytes(r.off, r.len)
    <2>1. r.off <= Len(sRaw) /\ Len(sRaw) - r.off < r.len /\ UNCHANGED wiped
      BY <1>2 DEF IngestChunkCut, ChunkAccepted
    <2>2. PICK k \in 0 .. Len(t) : sRaw' = sRaw \o SubSeq(t, 1, k)
      BY <1>2 DEF IngestChunkCut
    <2>3. /\ t \in Seq(Nat) /\ Len(t) = r.off + r.len - Len(sRaw)
          /\ \A j \in 1 .. Len(t) : t[j] = Len(sRaw) + j
      BY <1>0, <2>1, NewBytesContinue
    <2> HIDE DEF t
    <2>4. /\ SubSeq(t, 1, k) \in Seq(Nat) /\ Len(SubSeq(t, 1, k)) = k
          /\ \A j \in 1 .. k : SubSeq(t, 1, k)[j] = t[j]
      <3>1. \A i \in 1 .. k : t[i] \in Nat
        BY <2>3
      <3> QED
        BY <2>3, <3>1, SubSeqProperties
    <2>5. sRaw' \in Seq(Nat) /\ IsPrefixOfFile(sRaw') /\ Len(sRaw') = Len(sRaw) + k
      <3>1. \A j \in 1 .. Len(SubSeq(t, 1, k)) : SubSeq(t, 1, k)[j] = Len(sRaw) + j
        BY <2>3, <2>4
      <3> QED
        BY <2>2, <2>4, <3>1, Continue
    <2>6. k \in Nat /\ k <= r.off + r.len - Len(sRaw) /\ Len(sRaw) \in Nat
      BY <1>0, <2>3
    <2>7. Len(sRaw') <= fileSize /\ Len(sRaw') >= Len(sRaw)
      BY <1>0, <2>5, <2>6
    <2> QED
      BY <2>1, <2>5, <2>7
  <1> QED
    BY <1>1, <1>2 DEF HandleCut
-----------------------------------------------------------------------------
(* PrefixInv is inductive *)

LEMMA PrefixInvInit == Init => PrefixInv
  BY DEF Init, ServerInit, PrefixInv, IsPrefixOfFile, InFile, NoRequest, Request, HeaderSize

\* Steps of the recorder and of the streamer leave the server's copy alone.
LEMMA PrefixInvRecorder ==
    ASSUME PrefixInv,
           FlushRaw \/ CloseRaw \/ StopStreamer \/ DeleteLocal \/ RecorderCrash
    PROVE  PrefixInv'
  <1> USE DEF PrefixInv, InFile, IsPrefixOfFile, fileVars, serverVars, clientVars, netVars
  <1>1. CASE FlushRaw
    <2>1. fileSize' = fileSize + 1 /\ UNCHANGED <<sRaw, header, offset, target, cur, late>>
      BY <1>1 DEF FlushRaw
    <2>2. \A r \in Request : InFile(r) => InFile(r)'
      BY <2>1 DEF Request
    <2> QED
      BY <2>1, <2>2
  <1>2. CASE CloseRaw
    BY <1>2 DEF CloseRaw
  <1>3. CASE StopStreamer
    BY <1>3 DEF StopStreamer
  <1>4. CASE DeleteLocal
    BY <1>4 DEF DeleteLocal
  <1>5. CASE RecorderCrash
    <2>1. UNCHANGED <<sRaw, fileSize, header, offset, target>> /\ cur' = NoRequest
      BY <1>5 DEF RecorderCrash
    <2>2. late' = late \/ late' = late \cup {cur}
      BY <1>5 DEF RecorderCrash
    <2> QED
      BY <2>1, <2>2 DEF NoRequest, Request
  <1> QED
    BY <1>1, <1>2, <1>3, <1>4, <1>5
\* A chunk that is sent lies within what was seen of the file.
LEMMA NextLenInFile ==
    ASSUME offset \in Nat, target \in Nat, offset < target
    PROVE  NextLen \in Nat /\ offset + NextLen <= target
  BY StreamAssumption DEF NextLen

LEMMA PrefixInvClient == ASSUME PrefixInv, ClientStep PROVE PrefixInv'
  <1> USE DEF PrefixInv, InFile, IsPrefixOfFile
  <1>1. UNCHANGED <<sRaw, fileSize>>
    BY DEF ClientStep, WaitHeader, WaitHeaderStopped, Register, RegisterEnd, LoopStopped, LoopData,
           ReregisterEnd, SendChunk, SendDone, SendEnd, FinalBytes, SendFinish, FinishEnd,
           ClientOnly, serverVars, fileVars
  <1>2. header' \in 0 .. HeaderSize /\ header' <= fileSize
    BY DEF ClientStep, WaitHeader, WaitHeaderStopped, Register, RegisterEnd, LoopStopped, LoopData,
           ReregisterEnd, SendChunk, SendDone, SendEnd, FinalBytes, SendFinish, FinishEnd,
           HeaderSize
  <1>3. target' \in Nat /\ target' <= fileSize
    BY DEF ClientStep, WaitHeader, WaitHeaderStopped, Register, RegisterEnd, LoopStopped, LoopData,
           ReregisterEnd, SendChunk, SendDone, SendEnd, FinalBytes, SendFinish, FinishEnd
  <1>4. offset' \in Nat
    BY DEF ClientStep, WaitHeader, WaitHeaderStopped, Register, RegisterEnd, LoopStopped, LoopData,
           ReregisterEnd, SendChunk, SendDone, SendEnd, FinalBytes, SendFinish, FinishEnd, Request
  <1>5. late' \in SUBSET Request /\ \A r \in late' : InFile(r)
    BY DEF ClientStep, WaitHeader, WaitHeaderStopped, Register, RegisterEnd, LoopStopped, LoopData,
           ReregisterEnd, SendChunk, SendDone, SendEnd, FinalBytes, SendFinish, FinishEnd,
           NoTraffic, netVars, Send, Succeeds, Fails
  <1>6. cur' \in Request /\ InFile(cur')
    <2>1. CASE SendChunk
      BY <2>1, NextLenInFile DEF SendChunk, Send, Request
    <2>2. CASE Register \/ LoopData \/ SendFinish
      BY <2>2 DEF Register, LoopData, SendFinish, Send, NoTraffic, netVars, Request, HeaderSize
    <2>3. CASE WaitHeader \/ WaitHeaderStopped \/ LoopStopped \/ SendDone \/ FinalBytes
      BY <2>3 DEF WaitHeader, WaitHeaderStopped, LoopStopped, SendDone, FinalBytes, NoTraffic,
                  netVars
    <2>4. CASE RegisterEnd \/ ReregisterEnd \/ SendEnd \/ FinishEnd
      <3>1. cur' = NoRequest
        BY <2>4 DEF RegisterEnd, ReregisterEnd, SendEnd, FinishEnd, Succeeds, Fails
      <3> QED
        BY <3>1 DEF NoRequest, Request
    <2> QED
      BY <2>1, <2>2, <2>3, <2>4 DEF ClientStep
  <1> QED
    BY <1>1, <1>2, <1>3, <1>4, <1>5, <1>6

LEMMA PrefixInvServer ==
    ASSUME PrefixInv,
           \/ Deliver \/ DeliverLate \/ ServerKilled
           \/ LocalDeleteReported \/ RestoreReported \/ RemoteDelete \/ ClockTick \/ PurgeSweep
    PROVE  PrefixInv'
  <1> USE DEF RecorderSide, fileVars, clientVars
  <1>1. CASE Deliver
    <2>1. cur \in Request /\ InFile(cur) /\ Handle(cur)
      BY <1>1 DEF Deliver, PrefixInv
    <2> QED
      BY <1>1, <2>1, HandleKeepsPrefix DEF Deliver, PrefixInv, InFile
  <1>2. CASE DeliverLate
    <2>1. PICK r \in late : Handle(r) /\ late' = late \ {r}
      BY <1>2 DEF DeliverLate
    <2>2. r \in Request /\ InFile(r)
      BY <2>1 DEF PrefixInv
    <2> QED
      BY <1>2, <2>1, <2>2, HandleKeepsPrefix DEF DeliverLate, PrefixInv, InFile
  <1>3. CASE ServerKilled
    <2>1. cur \in Request /\ InFile(cur) /\ HandleCut(cur)
      BY <1>3 DEF ServerKilled, PrefixInv
    <2> QED
      BY <1>3, <2>1, HandleCutKeepsPrefix DEF ServerKilled, PrefixInv, InFile
  <1>4. CASE RemoteDelete \/ PurgeSweep
    <2>1. sRaw' = <<>> /\ UNCHANGED <<fileSize, header, offset, target, cur, late>>
      BY <1>4 DEF RemoteDelete, PurgeSweep, SessionDelete, Purge, Wipe, ServerOnly, netVars
    <2> QED
      BY <2>1 DEF PrefixInv, InFile, IsPrefixOfFile
  <1>5. CASE LocalDeleteReported \/ RestoreReported \/ ClockTick
    <2>1. UNCHANGED <<sRaw, fileSize, header, offset, target, cur, late>>
      BY <1>5 DEF LocalDeleteReported, RestoreReported, ClockTick, MarkDeleted, UnmarkDeleted,
                  Tick, ServerOnly, netVars
    <2> QED
      BY <2>1 DEF PrefixInv, InFile, IsPrefixOfFile
  <1> QED
    BY <1>1, <1>2, <1>3, <1>4, <1>5

LEMMA PrefixInvStep == PrefixInv /\ [Next]_vars => PrefixInv'
  <1> SUFFICES ASSUME PrefixInv, [Next]_vars PROVE PrefixInv'
    OBVIOUS
  <1>1. CASE UNCHANGED vars
    BY <1>1 DEF vars, serverVars, fileVars, clientVars, netVars, PrefixInv, InFile, IsPrefixOfFile
  <1> QED
    BY <1>1, PrefixInvRecorder, PrefixInvClient, PrefixInvServer DEF Next

LEMMA PrefixInvariant == Spec => []PrefixInv
  BY PrefixInvInit, PrefixInvStep, PTL DEF Spec

\* The server's copy is always a prefix of the recorder's raw file.
THEOREM CopyAlwaysPrefix == Spec => []CopyIsPrefix
  <1>1. PrefixInv => CopyIsPrefix
    BY DEF PrefixInv, CopyIsPrefix, IsPrefixOfFile
  <1> QED
    BY <1>1, PrefixInvariant, PTL
-----------------------------------------------------------------------------
(* What was acknowledged is held *)

\* The request under way is the one the streamer waits for, and a positive answer to a chunk
\* means that the copy reaches its end.
SentInv ==
    /\ PrefixInv
    /\ SentIsHeld
    /\ cPc \in {"sendWait", "finalWait"} => cur.kind = "chunk" /\ cur.off = offset
    /\ reply = "ok" /\ cur.kind = "chunk" /\ ~wiped => Len(sRaw) >= cur.off + cur.len

LEMMA SentInvInit == Init => SentInv
  <1> SUFFICES ASSUME Init PROVE SentInv
    OBVIOUS
  <1>1. PrefixInv
    BY PrefixInvInit
  <1>2. offset = HeaderSize /\ cPc = "header" /\ reply = "none"
    BY DEF Init
  <1> QED
    BY <1>1, <1>2 DEF SentInv, SentIsHeld, HeaderSize

LEMMA SentInvRecorder ==
    ASSUME SentInv,
           FlushRaw \/ CloseRaw \/ StopStreamer \/ DeleteLocal \/ RecorderCrash
    PROVE  SentInv'
  <1>1. PrefixInv'
    BY PrefixInvRecorder DEF SentInv
  <1>2. CASE FlushRaw \/ CloseRaw \/ StopStreamer \/ DeleteLocal
    <2>1. UNCHANGED <<sRaw, wiped, offset, cPc, cur, reply>>
      BY <1>2 DEF FlushRaw, CloseRaw, StopStreamer, DeleteLocal, serverVars, clientVars, netVars
    <2> QED
      BY <1>1, <2>1 DEF SentInv, SentIsHeld
  <1>3. CASE RecorderCrash
    <2>1. UNCHANGED <<sRaw, wiped, offset>> /\ cPc' = "dead" /\ reply' = "none"
      BY <1>3 DEF RecorderCrash, serverVars
    <2> QED
      BY <1>1, <2>1 DEF SentInv, SentIsHeld
  <1> QED
    BY <1>2, <1>3

LEMMA SentInvClient == ASSUME SentInv, ClientStep PROVE SentInv'
  <1>1. PrefixInv'
    BY PrefixInvClient DEF SentInv
  <1>2. UNCHANGED <<sRaw, wiped>>
    BY DEF ClientStep, WaitHeader, WaitHeaderStopped, Register, RegisterEnd, LoopStopped, LoopData,
           ReregisterEnd, SendChunk, SendDone, SendEnd, FinalBytes, SendFinish, FinishEnd,
           ClientOnly, serverVars
  <1>3. CASE SendEnd
    <2>1. cPc \in {"sendWait", "finalWait"} /\ cPc' \notin {"sendWait", "finalWait"}
      BY <1>3 DEF SendEnd
    <2>2. reply' = "none"
      BY <1>3 DEF SendEnd, Succeeds, Fails
    <2>3. CASE UNCHANGED offset
      BY <1>1, <1>2, <2>1, <2>2, <2>3 DEF SentInv, SentIsHeld
    <2>4. CASE reply = "ok" /\ offset' = offset + cur.len
      <3>1. ~wiped => Len(sRaw) >= offset'
        BY <2>1, <2>4 DEF SentInv
      <3> QED
        BY <1>1, <1>2, <2>1, <2>2, <3>1 DEF SentInv, SentIsHeld
    <2> QED
      BY <1>3, <2>3, <2>4 DEF SendEnd, Succeeds
  <1>4. CASE SendChunk
    <2>1. /\ UNCHANGED offset /\ reply' = "none"
          /\ cur' = [kind |-> "chunk", off |-> offset, len |-> NextLen]
      BY <1>4 DEF SendChunk, Send
    <2> QED
      BY <1>1, <1>2, <2>1 DEF SentInv, SentIsHeld
  <1>5. CASE \/ WaitHeader \/ WaitHeaderStopped \/ LoopStopped \/ SendDone \/ FinalBytes
             \/ Register \/ LoopData \/ SendFinish
             \/ RegisterEnd \/ ReregisterEnd \/ FinishEnd
    <2>1. UNCHANGED offset /\ cPc' \notin {"sendWait", "finalWait"}
      BY <1>5 DEF WaitHeader, WaitHeaderStopped, LoopStopped, SendDone, FinalBytes, Register,
                  LoopData, SendFinish, RegisterEnd, ReregisterEnd, FinishEnd
    <2>2. reply' = "none" \/ UNCHANGED <<cur, reply>>
      BY <1>5 DEF WaitHeader, WaitHeaderStopped, LoopStopped, SendDone, FinalBytes, Register,
                  LoopData, SendFinish, RegisterEnd, ReregisterEnd, FinishEnd, NoTraffic,
                  netVars, Send, Succeeds, Fails
    <2> QED
      BY <1>1, <1>2, <2>1, <2>2 DEF SentInv, SentIsHeld
  <1> QED
    BY <1>3, <1>4, <1>5 DEF ClientStep

LEMMA SentInvServer ==
    ASSUME SentInv,
           \/ Deliver \/ DeliverLate \/ ServerKilled
           \/ LocalDeleteReported \/ RestoreReported \/ RemoteDelete \/ ClockTick \/ PurgeSweep
    PROVE  SentInv'
  <1> USE DEF RecorderSide, fileVars, clientVars
  <1>1. PrefixInv'
    BY PrefixInvServer DEF SentInv
  <1>2. /\ PrefixInv
        /\ Len(sRaw) \in Nat /\ Len(sRaw') \in Nat /\ offset \in Nat
        /\ cur \in Request /\ cur.off \in Nat /\ cur.len \in Nat
    BY <1>1 DEF SentInv, PrefixInv, Request
  <1>3. CASE Deliver
    <2>1. cur \in Request /\ InFile(cur) /\ Handle(cur)
      BY <1>3 DEF Deliver, SentInv, PrefixInv
    <2>2. /\ Len(sRaw') >= Len(sRaw) /\ UNCHANGED <<wiped, offset, cPc, cur>>
          /\ cur.kind = "chunk" /\ ChunkAccepted(cur.off) => Len(sRaw') >= cur.off + cur.len
      BY <1>2, <1>3, <2>1, HandleKeepsPrefix DEF Deliver
    <2>3. reply' = "ok" /\ cur.kind = "chunk" => ChunkAccepted(cur.off)
      BY <1>3 DEF Deliver, Accepted
    <2> QED
      BY <1>1, <1>2, <2>2, <2>3 DEF SentInv, SentIsHeld, HeaderSize
  <1>4. CASE DeliverLate
    <2>1. PICK r \in late : Handle(r) /\ late' = late \ {r}
      BY <1>4 DEF DeliverLate
    <2>2. r \in Request /\ InFile(r)
      BY <1>2, <2>1 DEF PrefixInv
    <2>3. Len(sRaw') >= Len(sRaw) /\ UNCHANGED <<wiped, offset, cPc, cur, reply>>
      BY <1>2, <1>4, <2>1, <2>2, HandleKeepsPrefix DEF DeliverLate
    <2> QED
      BY <1>1, <1>2, <2>3 DEF SentInv, SentIsHeld, HeaderSize
  <1>5. CASE ServerKilled
    <2>1. cur \in Request /\ InFile(cur) /\ HandleCut(cur)
      BY <1>5 DEF ServerKilled, SentInv, PrefixInv
    <2>2. /\ Len(sRaw') >= Len(sRaw) /\ UNCHANGED <<wiped, offset, cPc, cur>>
          /\ reply' = "refused"
      BY <1>2, <1>5, <2>1, HandleCutKeepsPrefix DEF ServerKilled
    <2> QED
      BY <1>1, <1>2, <2>2 DEF SentInv, SentIsHeld, HeaderSize
  <1>6. CASE RemoteDelete \/ PurgeSweep
    <2>1. wiped' /\ UNCHANGED <<offset, cPc, cur, reply>>
      BY <1>6 DEF RemoteDelete, PurgeSweep, SessionDelete, Purge, Wipe, ServerOnly, netVars
    <2> QED
      BY <1>1, <2>1 DEF SentInv, SentIsHeld
  <1>7. CASE LocalDeleteReported \/ RestoreReported \/ ClockTick
    <2>1. UNCHANGED <<sRaw, wiped, offset, cPc, cur, reply>>
      BY <1>7 DEF LocalDeleteReported, RestoreReported, ClockTick, MarkDeleted, UnmarkDeleted,
                  Tick, ServerOnly, netVars
    <2> QED
      BY <1>1, <2>1 DEF SentInv, SentIsHeld
  <1> QED
    BY <1>3, <1>4, <1>5, <1>6, <1>7

LEMMA SentInvStep == SentInv /\ [Next]_vars => SentInv'
  <1> SUFFICES ASSUME SentInv, [Next]_vars PROVE SentInv'
    OBVIOUS
  <1>1. CASE UNCHANGED vars
    <2>1. PrefixInv'
      BY <1>1, PrefixInvStep DEF SentInv
    <2> QED
      BY <1>1, <2>1 DEF vars, serverVars, clientVars, netVars, SentInv, SentIsHeld
  <1> QED
    BY <1>1, SentInvRecorder, SentInvClient, SentInvServer DEF Next

\* Every byte the streamer counts as sent is on the server, until its copy is removed there.
THEOREM SentAlwaysHeld == Spec => []SentIsHeld
  <1>1. SentInv => SentIsHeld
    BY DEF SentInv
  <1> QED
    BY <1>1, SentInvInit, SentInvStep, PTL DEF Spec
-----------------------------------------------------------------------------
(* Tombstones *)

LEMMA HandleKeepsTombstone ==
    ASSUME NEW r, sMeta = "deleted", sRaw # <<>>, Handle(r) \/ HandleCut(r)
    PROVE  sMeta' = "deleted"
  BY DEF Handle, HandleCut, IngestStart, IngestStartCut, IngestChunk, IngestChunkCut, IngestFinish

LEMMA TombstoneStep ==
    ASSUME sMeta = "deleted", sRaw # <<>>, Next, sMeta' # "deleted"
    PROVE  RestoreReported \/ ~sDir'
  <1>1. CASE FlushRaw \/ CloseRaw \/ StopStreamer \/ DeleteLocal \/ RecorderCrash
    BY <1>1 DEF FlushRaw, CloseRaw, StopStreamer, DeleteLocal, RecorderCrash, serverVars
  <1>2. CASE ClientStep
    BY <1>2 DEF ClientStep, WaitHeader, WaitHeaderStopped, Register, RegisterEnd, LoopStopped,
                LoopData, ReregisterEnd, SendChunk, SendDone, SendEnd, FinalBytes, SendFinish,
                FinishEnd, ClientOnly, serverVars
  <1>3. CASE Deliver \/ ServerKilled
    BY <1>3, HandleKeepsTombstone DEF Deliver, ServerKilled
  <1>4. CASE DeliverLate
    <2>1. PICK r \in late : Handle(r)
      BY <1>4 DEF DeliverLate
    <2> QED
      BY <2>1, HandleKeepsTombstone
  <1>5. CASE RemoteDelete \/ PurgeSweep
    <2>1. Wipe
      BY <1>5 DEF RemoteDelete, PurgeSweep, SessionDelete, Purge
    <2> QED
      BY <2>1 DEF Wipe
  <1>6. CASE LocalDeleteReported \/ ClockTick
    BY <1>6 DEF LocalDeleteReported, ClockTick, MarkDeleted, Tick
  <1> QED
    BY <1>1, <1>2, <1>3, <1>4, <1>5, <1>6 DEF Next

\* A replayed start, a late chunk or a late finish never revives a tombstone.
THEOREM TombstoneAlwaysStays == Spec => TombstoneStays
  <1>1. [Next]_vars =>
          [sMeta = "deleted" /\ sRaw # <<>> /\ sMeta' # "deleted" =>
               RestoreReported \/ ~sDir']_vars
    BY TombstoneStep
  <1> QED
    BY <1>1, PTL DEF Spec, TombstoneStays
-----------------------------------------------------------------------------
(* The copy only grows *)

LEMMA GrowStep ==
    ASSUME PrefixInv, Next
    PROVE  Len(sRaw') >= Len(sRaw) \/ ~sDir'
  <1> USE DEF serverVars
  <1>1. Len(sRaw) \in Nat
    BY DEF PrefixInv
  <1>2. CASE FlushRaw \/ CloseRaw \/ StopStreamer \/ DeleteLocal \/ RecorderCrash
    <2>1. UNCHANGED sRaw
      BY <1>2 DEF FlushRaw, CloseRaw, StopStreamer, DeleteLocal, RecorderCrash
    <2> QED
      BY <1>1, <2>1
  <1>3. CASE ClientStep
    <2>1. UNCHANGED sRaw
      BY <1>3 DEF ClientStep, WaitHeader, WaitHeaderStopped, Register, RegisterEnd, LoopStopped,
                  LoopData, ReregisterEnd, SendChunk, SendDone, SendEnd, FinalBytes, SendFinish,
                  FinishEnd, ClientOnly
    <2> QED
      BY <1>1, <2>1
  <1>4. CASE Deliver
    BY <1>4, HandleKeepsPrefix DEF Deliver, PrefixInv
  <1>5. CASE DeliverLate
    <2>1. PICK r \in late : Handle(r)
      BY <1>5 DEF DeliverLate
    <2>2. r \in Request /\ InFile(r)
      BY <2>1 DEF PrefixInv
    <2> QED
      BY <2>1, <2>2, HandleKeepsPrefix
  <1>6. CASE ServerKilled
    BY <1>6, HandleCutKeepsPrefix DEF ServerKilled, PrefixInv
  <1>7. CASE RemoteDelete \/ PurgeSweep
    <2>1. Wipe
      BY <1>7 DEF RemoteDelete, PurgeSweep, SessionDelete, Purge
    <2> QED
      BY <2>1 DEF Wipe
  <1>8. CASE LocalDeleteReported \/ RestoreReported \/ ClockTick
    <2>1. UNCHANGED sRaw
      BY <1>8 DEF LocalDeleteReported, RestoreReported, ClockTick, MarkDeleted, UnmarkDeleted, Tick
    <2> QED
      BY <1>1, <2>1
  <1> QED
    BY <1>2, <1>3, <1>4, <1>5, <1>6, <1>7, <1>8 DEF Next

\* No request, late, repeated or cut short, takes a byte from the server's copy; only its
\* removal does.
THEOREM CopyAlwaysGrows == Spec => CopyOnlyGrows
  <1>1. PrefixInv /\ [Next]_vars => [Len(sRaw') >= Len(sRaw) \/ ~sDir']_vars
    BY GrowStep
  <1> QED
    BY <1>1, PrefixInvariant, PTL DEF Spec, CopyOnlyGrows
-----------------------------------------------------------------------------
(* Types *)

ServerType ==
    /\ sMeta \in MetaStates
    /\ sMeta = "deleted" => sBefore \in {"streaming", "complete", "unknown"}
    /\ sMeta # "deleted" => sBefore = "absent"
    /\ sAge \in Nat

ServerFlags == sDir \in BOOLEAN /\ wiped \in BOOLEAN /\ finishSeen \in BOOLEAN

ClientType ==
    /\ fileThere \in BOOLEAN /\ fileClosed \in BOOLEAN
    /\ recorderUp \in BOOLEAN /\ stopEv \in BOOLEAN
    /\ cPc \in Pcs /\ registered \in BOOLEAN /\ reply \in {"none", "ok", "refused"}

LEMMA HandleKeepsType ==
    ASSUME ServerType, NEW r, Handle(r) \/ HandleCut(r)
    PROVE  ServerType'
  <1> USE DEF ServerType, MetaStates
  <1>1. CASE IngestStart(r.len) \/ IngestStartCut(r.len)
    BY <1>1 DEF IngestStart, IngestStartCut, NewMeta
  <1>2. CASE IngestChunk(r.off, r.len) \/ IngestChunkCut(r.off, r.len)
    BY <1>2 DEF IngestChunk, IngestChunkCut
  <1>3. CASE IngestFinish
    BY <1>3 DEF IngestFinish
  <1> QED
    BY <1>1, <1>2, <1>3 DEF Handle, HandleCut

LEMMA ServerTypeStep == ServerType /\ [Next]_vars => ServerType'
  <1> SUFFICES ASSUME ServerType, [Next]_vars PROVE ServerType'
    OBVIOUS
  <1>1. CASE UNCHANGED serverVars
    BY <1>1 DEF ServerType, serverVars
  <1>2. CASE FlushRaw \/ CloseRaw \/ StopStreamer \/ DeleteLocal \/ RecorderCrash
    BY <1>1, <1>2 DEF FlushRaw, CloseRaw, StopStreamer, DeleteLocal, RecorderCrash
  <1>3. CASE ClientStep
    BY <1>1, <1>3 DEF ClientStep, WaitHeader, WaitHeaderStopped, Register, RegisterEnd,
            LoopStopped, LoopData, ReregisterEnd, SendChunk, SendDone, SendEnd, FinalBytes,
            SendFinish, FinishEnd, ClientOnly
  <1>4. CASE Deliver \/ DeliverLate \/ ServerKilled
    BY <1>4, HandleKeepsType DEF Deliver, DeliverLate, ServerKilled
  <1>5. CASE RemoteDelete \/ PurgeSweep
    BY <1>5 DEF RemoteDelete, PurgeSweep, SessionDelete, Purge, Wipe, ServerType, MetaStates
  <1>6. CASE LocalDeleteReported \/ RestoreReported \/ ClockTick
    BY <1>6 DEF LocalDeleteReported, RestoreReported, ClockTick, MarkDeleted, UnmarkDeleted, Tick,
                ServerType, MetaStates
  <1>7. CASE UNCHANGED vars
    BY <1>1, <1>7 DEF vars
  <1> QED
    BY <1>2, <1>3, <1>4, <1>5, <1>6, <1>7 DEF Next

LEMMA HandleKeepsFlags ==
    ASSUME ServerFlags, NEW r, Handle(r) \/ HandleCut(r)
    PROVE  ServerFlags'
  <1> USE DEF ServerFlags
  <1>1. CASE IngestStart(r.len) \/ IngestStartCut(r.len)
    BY <1>1 DEF IngestStart, IngestStartCut
  <1>2. CASE IngestChunk(r.off, r.len) \/ IngestChunkCut(r.off, r.len)
    BY <1>2 DEF IngestChunk, IngestChunkCut
  <1>3. CASE IngestFinish
    BY <1>3 DEF IngestFinish
  <1> QED
    BY <1>1, <1>2, <1>3 DEF Handle, HandleCut

LEMMA ServerFlagsStep == ServerFlags /\ [Next]_vars => ServerFlags'
  <1> SUFFICES ASSUME ServerFlags, [Next]_vars PROVE ServerFlags'
    OBVIOUS
  <1>1. CASE UNCHANGED serverVars
    BY <1>1 DEF ServerFlags, serverVars
  <1>2. CASE FlushRaw \/ CloseRaw \/ StopStreamer \/ DeleteLocal \/ RecorderCrash
    BY <1>1, <1>2 DEF FlushRaw, CloseRaw, StopStreamer, DeleteLocal, RecorderCrash
  <1>3. CASE ClientStep
    BY <1>1, <1>3 DEF ClientStep, WaitHeader, WaitHeaderStopped, Register, RegisterEnd,
            LoopStopped, LoopData, ReregisterEnd, SendChunk, SendDone, SendEnd, FinalBytes,
            SendFinish, FinishEnd, ClientOnly
  <1>4. CASE Deliver \/ DeliverLate \/ ServerKilled
    BY <1>4, HandleKeepsFlags DEF Deliver, DeliverLate, ServerKilled
  <1>5. CASE RemoteDelete \/ PurgeSweep
    BY <1>5 DEF RemoteDelete, PurgeSweep, SessionDelete, Purge, Wipe, ServerFlags
  <1>6. CASE LocalDeleteReported \/ RestoreReported \/ ClockTick
    BY <1>6 DEF LocalDeleteReported, RestoreReported, ClockTick, MarkDeleted, UnmarkDeleted, Tick, ServerFlags
  <1>7. CASE UNCHANGED vars
    BY <1>1, <1>7 DEF vars
  <1> QED
    BY <1>2, <1>3, <1>4, <1>5, <1>6, <1>7 DEF Next

LEMMA ClientTypeStep == ClientType /\ [Next]_vars => ClientType'
  <1> SUFFICES ASSUME ClientType, [Next]_vars PROVE ClientType'
    OBVIOUS
  <1> USE DEF ClientType, Pcs, fileVars, clientVars, netVars
  <1>1. CASE FlushRaw \/ CloseRaw \/ StopStreamer \/ DeleteLocal \/ RecorderCrash
    BY <1>1 DEF FlushRaw, CloseRaw, StopStreamer, DeleteLocal, RecorderCrash
  <1>2. CASE WaitHeader \/ WaitHeaderStopped \/ Register \/ RegisterEnd \/ LoopStopped \/ LoopData
    BY <1>2 DEF WaitHeader, WaitHeaderStopped, Register, RegisterEnd, LoopStopped, LoopData,
                ClientOnly, NoTraffic, Send, Succeeds, Fails
  <1>3. CASE ReregisterEnd \/ SendChunk \/ SendDone \/ SendEnd
    BY <1>3 DEF ReregisterEnd, SendChunk, SendDone, SendEnd, ClientOnly, NoTraffic, Send,
                Succeeds, Fails
  <1>4. CASE FinalBytes \/ SendFinish \/ FinishEnd
    BY <1>4 DEF FinalBytes, SendFinish, FinishEnd, ClientOnly, NoTraffic, Send, Succeeds, Fails
  <1>5. CASE Deliver \/ DeliverLate \/ ServerKilled
    BY <1>5 DEF Deliver, DeliverLate, ServerKilled, RecorderSide
  <1>6. CASE LocalDeleteReported \/ RestoreReported \/ RemoteDelete \/ ClockTick \/ PurgeSweep
    BY <1>6 DEF LocalDeleteReported, RestoreReported, RemoteDelete, ClockTick, PurgeSweep,
                ServerOnly, RecorderSide
  <1>7. CASE UNCHANGED vars
    BY <1>7 DEF vars
  <1> QED
    BY <1>1, <1>2, <1>3, <1>4, <1>5, <1>6, <1>7 DEF Next, ClientStep

\* The streamer, the server and everything under way between them keep their kinds; a state
\* before the deletion is kept exactly while there is a tombstone.
THEOREM TypeCorrect == Spec => []TypeOK
  <1>1. Init => ServerType
    BY DEF Init, ServerInit, ServerType, MetaStates
  <1>2. Init => ServerFlags /\ ClientType
    BY DEF Init, ServerInit, ServerFlags, ClientType, Pcs
  <1>3. PrefixInv /\ ServerType /\ ServerFlags /\ ClientType => TypeOK
    BY DEF PrefixInv, ServerType, ServerFlags, ClientType, TypeOK
  <1> QED
    BY <1>1, <1>2, <1>3, ServerTypeStep, ServerFlagsStep, ClientTypeStep, PrefixInvariant,
       PTL DEF Spec
=============================================================================
