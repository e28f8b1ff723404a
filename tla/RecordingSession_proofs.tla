---------------------- MODULE RecordingSession_proofs -----------------------
(***************************************************************************)
(* What holds of every recording, for every ring size, every length of the *)
(* stream, with or without disk failures: proved from one inductive        *)
(* invariant.  Its parts follow the threads: who may still run in which    *)
(* state of the session (Threads, Joined), what lies between the source    *)
(* and the file (Feeding, QueueInOrder), how rows and counted samples      *)
(* relate (Counted), and what the files say (Sealed, Reported, Described). *)
(***************************************************************************)
EXTENDS RecordingSession, SequenceTheorems, TLAPS

Nonempty == Nat \ {EmptyChunk}

\* Which threads may still run in which state of the session.
Threads ==
    /\ state = "idle" => runPc = "idle"
    /\ state = "crashed" => /\ runPc = "dead" /\ consPc = "dead" /\ finPc = "dead"
                            /\ markPc = "idle"
    /\ runPc = "idle" <=> consPc = "idle"
    /\ runPc \notin {"idle", "dead", "tombstone"} => state = "recording"
    /\ runPc = "tombstone" => state = "error"
    /\ runPc # "dead" => finPc = "idle"
    /\ finPc \in {"finalize", "recordCut", "outcome"} => state = "finalizing"
    /\ finPc = "report" => state \in {"done", "error"}
    /\ state \in {"finalizing", "done", "error"} => runPc \in {"dead", "tombstone"}

\* Once the consumer has been joined it does not run any more.
Joined ==
    JoinTimesOut \/ (runPc \in {"seal", "stopBackup", "conclude", "tombstone", "dead"}
                     => consPc = "dead")

\* Nothing has happened before the source is started.
Unstarted ==
    runPc \in {"idle", "start"} => /\ error = "none" /\ q = <<>> /\ ~closed
                                   /\ consPc \in {"idle", "get", "empty"}

\* A chunk that was read is put before the next one is read, or the run ends.
Feeding ==
    /\ runPc \in {"idle", "start", "loop", "read"} => fed = produced
    /\ runPc \in {"put", "enqueue"} =>
          \/ holding = EmptyChunk /\ produced = fed
          \/ holding = fed + 1 /\ produced = fed + 1

\* The number of the last chunk the consumer has taken.
Taken == IF consPc = "append" THEN Len(raw) + 1 ELSE Len(raw)

\* s holds the chunks after lo, up to hi, in order; empty reads and the sentinel may lie between.
InOrder(s, lo, hi) ==
    /\ \A i \in 1 .. Len(s) : s[i] \in Nonempty => lo < s[i] /\ s[i] <= hi
    /\ \A i, j \in 1 .. Len(s) : i < j /\ s[i] \in Nonempty /\ s[j] \in Nonempty => s[i] < s[j]
    /\ \A n \in lo + 1 .. hi : \E i \in 1 .. Len(s) : s[i] = n

\* As long as the consumer reads, the queue holds exactly the chunks between the last one it
\* has taken and the last one fed.
QueueInOrder ==
    consPc \in {"idle", "get", "empty", "append", "process", "publish"} =>
        /\ consPc = "append" => item = Taken
        /\ Taken <= fed
        /\ InOrder(q, Taken, fed)

\* Rows are written before their samples are counted; only a failure, which is recorded,
\* leaves rows that are not counted.
Counted ==
    state # "crashed" =>
        /\ nTotal <= Len(raw)
        /\ consPc \in {"idle", "get", "empty", "append", "publish"} => Len(raw) = nTotal
        /\ consPc = "process" => Len(raw) = nTotal + 1
        /\ consPc \in {"failStop", "failClose", "failWake", "drain"} => error # "none"
        /\ consPc = "dead" => error # "none" \/ Len(raw) = nTotal

\* A manual mark is under way only where the cut has no origin yet.
MarkHeld == markPc = "held" => cut = "none" /\ nTotal > 0

\* A closed file is flushed, and it is closed before anything is concluded from it.
Sealed ==
    /\ rawClosed => flushed = Len(raw)
    /\ runPc \in {"stopBackup", "conclude", "tombstone"} => rawClosed
    /\ finPc \notin {"idle", "dead"} => rawClosed

\* The session reports once its state is terminal, and the directory goes only then.
Reported ==
    /\ doneSent > 0 /\ state # "crashed" => state \in {"done", "error"} /\ finPc \in {"idle", "dead"}
    /\ ~dirExists => state \in {"error", "crashed"} /\ finPc \in {"idle", "dead"}

\* The finalize thread is the only one to write a summary, and describes the closed file.
Described ==
    /\ finPc \in {"idle", "finalize"} => ~finalized
    /\ finPc \in {"recordCut", "outcome"} => finalized /\ summaryRows = Len(raw)

\* Without a consumer left behind, what DoneIsHonest says.
Honest == JoinTimesOut \/ DoneIsHonest

IInv ==
    /\ TypeOK /\ Threads /\ Joined /\ Unstarted /\ Feeding /\ QueueInOrder /\ Counted
    /\ MarkHeld /\ Sealed /\ Reported /\ Described
    /\ RawIsStreamPrefix /\ CutInsideCapture /\ ManifestAgrees
    /\ Honest

-----------------------------------------------------------------------------
(* The steps of the ring *)

Item == Nat \cup {Sentinel}

\* What a step makes of the queue is a queue within its bound.
LEMMA RingSteps ==
  ASSUME q \in Seq(Item), Len(q) <= MaxSize, closed \in BOOLEAN
  PROVE  /\ \A c \in Item : Enqueue(c) => q' \in Seq(Item) /\ Len(q') <= MaxSize /\ closed' = closed
         /\ WakeConsumer => q' \in Seq(Item) /\ Len(q') <= MaxSize /\ closed' = closed
         /\ Dequeue => q' \in Seq(Item) /\ Len(q') <= MaxSize /\ closed' = closed
         /\ Dequeue => q # <<>> /\ Head(q) \in Item
<1> USE MaxSizeAssumption DEF Item
<1>1. ASSUME NEW c \in Item, Enqueue(c)
      PROVE  q' \in Seq(Item) /\ Len(q') <= MaxSize /\ closed' = closed
  BY <1>1 DEF Enqueue
<1>2. ASSUME WakeConsumer PROVE q' \in Seq(Item) /\ Len(q') <= MaxSize /\ closed' = closed
  BY <1>2 DEF WakeConsumer
<1>3. ASSUME Dequeue PROVE q' \in Seq(Item) /\ Len(q') <= MaxSize /\ closed' = closed
  BY <1>3 DEF Dequeue
<1>4. ASSUME Dequeue PROVE q # <<>> /\ Head(q) \in Item
  BY <1>4 DEF Dequeue
<1> QED
  BY <1>1, <1>2, <1>3, <1>4

\* An item that is no chunk leaves the order alone.
LEMMA AppendOther ==
  ASSUME NEW s \in Seq(Item), NEW lo \in Nat, NEW hi \in Nat, NEW x \in Item \ Nonempty,
         InOrder(s, lo, hi)
  PROVE  InOrder(Append(s, x), lo, hi)
<1>1. /\ Len(Append(s, x)) = Len(s) + 1 /\ Append(s, x)[Len(s) + 1] = x
      /\ \A i \in 1 .. Len(s) : Append(s, x)[i] = s[i]
  BY AppendProperties
<1> QED
  BY <1>1, LenProperties DEF InOrder, Nonempty

\* The chunk fed next goes behind the ones that are queued.
LEMMA AppendNext ==
  ASSUME NEW s \in Seq(Item), NEW lo \in Nat, NEW hi \in Nat, InOrder(s, lo, hi), lo <= hi
  PROVE  InOrder(Append(s, hi + 1), lo, hi + 1)
<1>1. /\ Len(Append(s, hi + 1)) = Len(s) + 1 /\ Append(s, hi + 1)[Len(s) + 1] = hi + 1
      /\ \A i \in 1 .. Len(s) : Append(s, hi + 1)[i] = s[i]
  BY AppendProperties DEF Item
<1> DEFINE t == Append(s, hi + 1)
<1>2. \A i \in 1 .. Len(t) : t[i] \in Nonempty => lo < t[i] /\ t[i] <= hi + 1
  BY <1>1, LenProperties DEF InOrder, Nonempty
<1>3. \A i, j \in 1 .. Len(t) : i < j /\ t[i] \in Nonempty /\ t[j] \in Nonempty => t[i] < t[j]
  <2> SUFFICES ASSUME NEW i \in 1 .. Len(t), NEW j \in 1 .. Len(t),
                      i < j, t[i] \in Nonempty, t[j] \in Nonempty
               PROVE  t[i] < t[j]
    OBVIOUS
  <2>1. Len(s) \in Nat /\ Len(t) = Len(s) + 1
    BY <1>1, LenProperties
  <2>2. i \in 1 .. Len(s) /\ t[i] = s[i]
    BY <2>1, <1>1
  <2>3. CASE j \in 1 .. Len(s)
    <3>1. t[j] = s[j]
      BY <2>3, <1>1
    <3> QED
      BY <2>2, <2>3, <3>1 DEF InOrder
  <2>4. CASE j = Len(s) + 1
    <3>1. t[j] = hi + 1
      BY <2>4, <1>1
    <3>2. s[i] \in Nonempty /\ s[i] <= hi
      BY <2>2 DEF InOrder
    <3>3. s[i] \in Nat
      BY <3>2 DEF Nonempty
    <3> HIDE DEF t
    <3> QED
      BY <2>2, <3>1, <3>2, <3>3
  <2> QED
    BY <2>1, <2>3, <2>4
<1>4. \A n \in lo + 1 .. hi + 1 : \E i \in 1 .. Len(t) : t[i] = n
  <2> SUFFICES ASSUME NEW n \in lo + 1 .. hi + 1 PROVE \E i \in 1 .. Len(t) : t[i] = n
    OBVIOUS
  <2>1. CASE n = hi + 1
    BY <2>1, <1>1, LenProperties
  <2>2. CASE n \in lo + 1 .. hi
    <3>1. PICK i \in 1 .. Len(s) : s[i] = n
      BY <2>2 DEF InOrder
    <3> QED
      BY <3>1, <1>1, LenProperties
  <2> QED
    BY <2>1, <2>2
<1> QED
  BY <1>2, <1>3, <1>4 DEF InOrder

\* Taking an item that is no chunk leaves the order alone.
LEMMA TailOther ==
  ASSUME NEW s \in Seq(Item), s # <<>>, NEW lo \in Nat, NEW hi \in Nat, InOrder(s, lo, hi),
         Head(s) \notin Nonempty
  PROVE  InOrder(Tail(s), lo, hi)
<1>1. /\ Len(Tail(s)) = Len(s) - 1 /\ Head(s) = s[1] /\ Len(s) \in Nat \ {0}
      /\ \A i \in 1 .. Len(s) - 1 : Tail(s)[i] = s[i + 1]
  OBVIOUS
<1>2. \A i \in 1 .. Len(Tail(s)) : Tail(s)[i] \in Nonempty => lo < Tail(s)[i] /\ Tail(s)[i] <= hi
  BY <1>1 DEF InOrder
<1>3. \A i, j \in 1 .. Len(Tail(s)) :
         i < j /\ Tail(s)[i] \in Nonempty /\ Tail(s)[j] \in Nonempty => Tail(s)[i] < Tail(s)[j]
  BY <1>1 DEF InOrder
<1>4. ASSUME NEW n \in lo + 1 .. hi PROVE \E i \in 1 .. Len(Tail(s)) : Tail(s)[i] = n
  <2>1. PICK i \in 1 .. Len(s) : s[i] = n
    BY DEF InOrder
  <2>2. n \in Nonempty
    BY DEF Nonempty, EmptyChunk
  <2>3. i # 1
    BY <1>1, <2>1, <2>2
  <2>4. i - 1 \in 1 .. Len(Tail(s)) /\ Tail(s)[i - 1] = n
    BY <1>1, <2>1, <2>3
  <2> QED
    BY <2>4
<1> QED
  BY <1>2, <1>3, <1>4 DEF InOrder

\* The first chunk in the queue is the one after lo, and the rest follows it.
LEMMA TailNext ==
  ASSUME NEW s \in Seq(Item), s # <<>>, NEW lo \in Nat, NEW hi \in Nat, InOrder(s, lo, hi),
         Head(s) \in Nonempty
  PROVE  Head(s) = lo + 1 /\ lo + 1 <= hi /\ InOrder(Tail(s), lo + 1, hi)
<1>1. /\ Len(Tail(s)) = Len(s) - 1 /\ Head(s) = s[1] /\ Len(s) \in Nat \ {0}
      /\ \A i \in 1 .. Len(s) - 1 : Tail(s)[i] = s[i + 1]
  OBVIOUS
<1>2. lo < s[1] /\ s[1] <= hi /\ s[1] \in Nat
  BY <1>1 DEF InOrder, Nonempty
<1>3. PICK k \in 1 .. Len(s) : s[k] = lo + 1
  BY <1>2 DEF InOrder
<1>4. s[1] = lo + 1
  <2>1. lo + 1 \in Nonempty
    BY DEF Nonempty, EmptyChunk
  <2>2. k # 1 => s[1] < s[k]
    BY <1>1, <1>3, <2>1 DEF InOrder
  <2> QED
    BY <1>2, <1>3, <2>2
<1>5. ASSUME NEW i \in 1 .. Len(Tail(s)), Tail(s)[i] \in Nonempty
      PROVE  lo + 1 < Tail(s)[i] /\ Tail(s)[i] <= hi
  <2>1. i + 1 \in 1 .. Len(s) /\ 1 \in 1 .. Len(s) /\ 1 < i + 1 /\ Tail(s)[i] = s[i + 1]
    BY <1>1
  <2> QED
    BY <1>1, <1>4, <1>5, <2>1 DEF InOrder
<1>6. \A i, j \in 1 .. Len(Tail(s)) :
         i < j /\ Tail(s)[i] \in Nonempty /\ Tail(s)[j] \in Nonempty => Tail(s)[i] < Tail(s)[j]
  BY <1>1 DEF InOrder
<1>7. ASSUME NEW n \in lo + 1 + 1 .. hi PROVE \E i \in 1 .. Len(Tail(s)) : Tail(s)[i] = n
  <2>1. PICK i \in 1 .. Len(s) : s[i] = n
    BY DEF InOrder
  <2>2. i # 1
    BY <1>4, <2>1
  <2>3. i - 1 \in 1 .. Len(Tail(s)) /\ Tail(s)[i - 1] = n
    BY <1>1, <2>1, <2>2
  <2> QED
    BY <2>3
<1> QED
  BY <1>1, <1>2, <1>4, <1>5, <1>6, <1>7 DEF InOrder

\* A killed process keeps a prefix of the rows, at least the flushed ones.
LEMMA CrashKeepsPrefix ==
  ASSUME TypeOK, Crash
  PROVE  /\ raw' \in Seq(Nat) /\ flushed' \in Nat /\ Len(raw') = flushed'
         /\ flushed <= flushed' /\ flushed' <= Len(raw)
         /\ \A i \in 1 .. Len(raw') : raw'[i] = raw[i]
<1>1. PICK k \in flushed .. Len(raw) : raw' = SubSeq(raw, 1, k) /\ flushed' = k
  BY DEF Crash
<1>2. /\ raw \in Seq(Nat) /\ Len(raw) \in Nat /\ flushed \in Nat
      /\ k \in Nat /\ k <= Len(raw) /\ flushed <= k
  BY <1>1 DEF TypeOK
<1>3. raw' \in Seq(Nat) /\ Len(raw') = k
  <2>1. CASE k = 0
    BY <1>1, <1>2, <2>1, SubSeqProperties
  <2>2. CASE k # 0
    BY <1>1, <1>2, <2>2, SubSeqProperties
  <2> QED
    BY <2>1, <2>2
<1>4. \A i \in 1 .. Len(raw') : raw'[i] = raw[i]
  BY <1>1, <1>2, <1>3, SubSeqProperties
<1> QED
  BY <1>1, <1>2, <1>3, <1>4

-----------------------------------------------------------------------------
\* Every variable keeps its kind.
LEMMA NextTypeOK == IInv /\ [Next]_vars => TypeOK'
<1> SUFFICES ASSUME IInv, [Next]_vars PROVE TypeOK'
  OBVIOUS
<1> USE DEF IInv, MarkHeld, Threads, TypeOK, Causes, RunPcs, ConsPcs, CutSources, DiskPcs, FinPcs,
    ringVars, runVars, consVars, fileVars, cutVars, diskVars, backupVars, finVars, outcomeVars
<1>1. CASE Start
  BY <1>1 DEF Start
<1>2. CASE StartFails
  BY <1>2 DEF StartFails
<1>3. CASE Stop
  BY <1>3 DEF Stop
<1>4. CASE SourceStart
  BY <1>4 DEF SourceStart, RunOnly
<1>5. CASE LoopTest
  BY <1>5 DEF LoopTest, RunOnly
<1>6. CASE SourceRead
  BY <1>6 DEF SourceRead, EmptyChunk, RunOnly
<1>7. CASE SourceEnd
  BY <1>7 DEF SourceEnd, RunOnly
<1>8. CASE SourceFault
  BY <1>8 DEF SourceFault, RunOnly
<1>9. CASE PutTest
  BY <1>9 DEF PutTest, PutRefused, CauseOr, PutAdmitted, RunOnly
<1>10. CASE PutChunk
  BY <1>10, SessionAssumption, RingSteps DEF PutChunk, EmptyChunk, RunOnly, consVars, fileVars,
      cutVars, diskVars, backupVars, finVars, Item
<1>11. CASE PutTimesOut
  BY <1>11 DEF PutTimesOut, EnqueueTimesOut, CauseOr, RunOnly
<1>12. CASE CloseRing
  BY <1>12 DEF CloseRing, SetClosed, RunOnly
<1>13. CASE CloseWake
  BY <1>13, SessionAssumption, RingSteps DEF CloseWake, RunOnly, consVars, fileVars, cutVars,
      diskVars, backupVars, finVars, Item
<1>14. CASE JoinConsumer
  BY <1>14 DEF JoinConsumer, RunOnly
<1>15. CASE CloseRaw
  BY <1>15 DEF CloseRaw
<1>16. CASE CloseRawFails
  BY <1>16 DEF CloseRawFails, RunDies
<1>17. CASE StopBackup
  BY <1>17 DEF StopBackup
<1>18. CASE BeginFinalize
  BY <1>18 DEF BeginFinalize
<1>19. CASE BeginFinalizeFails
  BY <1>19 DEF BeginFinalizeFails, RunDies
<1>20. CASE ConcludeWithoutData
  BY <1>20 DEF ConcludeWithoutData, RemoveDir
<1>21. CASE ConcludeFails
  BY <1>21 DEF ConcludeFails, RemoveDir, RunDies
<1>22. CASE MarkRemoteDeleted
  BY <1>22 DEF MarkRemoteDeleted
<1>23. CASE GetItem
  BY <1>23, SessionAssumption, RingSteps DEF GetItem, EmptyChunk, ConsumerOnly, fileVars, runVars,
      cutVars, diskVars, backupVars, finVars, Item
<1>24. CASE GetEmpty
  BY <1>24 DEF GetEmpty, PollEmpty, ConsumerOnly
<1>25. CASE GetTestClosed
  BY <1>25 DEF GetTestClosed, ConsumerOnly
<1>26. CASE AppendRaw
  BY <1>26 DEF AppendRaw, ConsumerOnly
<1>27. CASE AppendFails
  BY <1>27 DEF AppendFails, ConsumerOnly
<1>28. CASE ProcessChunk
  BY <1>28 DEF ProcessChunk, Detect
<1>29. CASE ProcessFails
  BY <1>29 DEF ProcessFails, Detect
<1>30. CASE PublishFrame
  BY <1>30 DEF PublishFrame, ConsumerOnly
<1>31. CASE FailRecord
  BY <1>31 DEF FailRecord, CauseOr, ConsumerOnly
<1>32. CASE FailStop
  BY <1>32 DEF FailStop, ConsumerOnly
<1>33. CASE FailClose
  <2>1. CASE SetClosed
    BY <1>33, <2>1 DEF FailClose, ConsumerOnly, fileVars, runVars, cutVars, diskVars, backupVars,
        finVars, Item, SetClosed
  <2>2. CASE WakeConsumer
    BY <1>33, <2>2, RingSteps DEF FailClose, ConsumerOnly, fileVars, runVars, cutVars, diskVars,
        backupVars, finVars, Item
  <2> QED
    BY <1>33, <2>1, <2>2 DEF FailClose
<1>34. CASE FailDrain
  BY <1>34, SessionAssumption, RingSteps DEF FailDrain, DrainOne, DrainDone, ConsumerOnly, fileVars,
      PollEmpty, runVars, cutVars, diskVars, backupVars, finVars, ringVars, Item
<1>35. CASE DiskStep
  BY <1>35 DEF DiskStep, WatchTest, MeasureDisk, ForceStop, EnableBackup, StartStream, DiskOnly
<1>36. CASE WriteSummary
  BY <1>36 DEF WriteSummary, FinOnly
<1>37. CASE FinalizeFails
  BY <1>37 DEF FinalizeFails, CauseOr, FinOnly
<1>38. CASE RecordCutStart
  BY <1>38 DEF RecordCutStart, FinOnly
<1>39. CASE Conclude
  BY <1>39 DEF Conclude, FinOnly
<1>40. CASE Report
  BY <1>40 DEF Report, FinOnly
<1>41. CASE ReportFails
  BY <1>41 DEF ReportFails, FinOnly
<1>42. CASE MarkBegin
  BY <1>42 DEF MarkBegin
<1>43. CASE MarkEnd
  BY <1>43 DEF MarkEnd
<1>44. CASE Crash
  <2>1. raw' \in Seq(Nat) /\ flushed' \in Nat /\ flushed' <= Len(raw')
    BY <1>44, CrashKeepsPrefix
  <2>2. Len(<<>>) = 0 /\ <<>> \in Seq(Item)
    OBVIOUS
  <2> QED
    BY <1>44, <2>1, <2>2, MaxSizeAssumption DEF Crash, backupVars, Item
<1>45. CASE UNCHANGED vars
  BY <1>45 DEF vars
<1> QED
  BY <1>1, <1>2, <1>3, <1>4, <1>5, <1>6, <1>7, <1>8, <1>9, <1>10, <1>11, <1>12, <1>13, <1>14,
      <1>15, <1>16, <1>17, <1>18, <1>19, <1>20, <1>21, <1>22, <1>23, <1>24, <1>25, <1>26, <1>27,
      <1>28, <1>29, <1>30, <1>31, <1>32, <1>33, <1>34, <1>35, <1>36, <1>37, <1>38, <1>39, <1>40,
      <1>41, <1>42, <1>43, <1>44, <1>45 DEF Next, RunStep, ConsumerStep, FinalizeStep, MarkStep

\* Who may run is kept.
LEMMA NextThreads == IInv /\ [Next]_vars => Threads'
<1> SUFFICES ASSUME IInv, [Next]_vars PROVE Threads'
  OBVIOUS
<1> USE DEF IInv, TypeOK, Causes, RunPcs, ConsPcs, CutSources, DiskPcs, FinPcs, Threads, ringVars,
    runVars, consVars, fileVars, cutVars, diskVars, backupVars, finVars, outcomeVars
<1>1. CASE Start
  BY <1>1 DEF Start
<1>2. CASE StartFails
  BY <1>2 DEF StartFails
<1>3. CASE Stop
  BY <1>3 DEF Stop
<1>4. CASE RunStep
  BY <1>4 DEF RunStep, SourceStart, LoopTest, SourceRead, SourceEnd, SourceFault, PutTest,
      PutChunk, PutTimesOut, CloseRing, CloseWake, JoinConsumer, CloseRaw, CloseRawFails,
      StopBackup, BeginFinalize, BeginFinalizeFails, ConcludeWithoutData, ConcludeFails,
      MarkRemoteDeleted, RunOnly, EmptyChunk, PutRefused, CauseOr, PutAdmitted, Enqueue,
      EnqueueTimesOut, SetClosed, WakeConsumer, RunDies, RemoveDir
<1>5. CASE ConsumerStep
  BY <1>5 DEF ConsumerStep, GetItem, GetEmpty, GetTestClosed, AppendRaw, AppendFails,
      ProcessChunk, ProcessFails, PublishFrame, FailRecord, FailStop, FailClose, FailDrain,
      Dequeue, EmptyChunk, ConsumerOnly, PollEmpty, Detect, CauseOr, SetClosed, WakeConsumer,
      DrainOne, DrainDone
<1>6. CASE DiskStep
  BY <1>6 DEF DiskStep, WatchTest, MeasureDisk, ForceStop, EnableBackup, StartStream, DiskOnly
<1>7. CASE FinalizeStep
  BY <1>7 DEF FinalizeStep, WriteSummary, FinalizeFails, RecordCutStart, Conclude, Report,
      ReportFails, FinOnly, CauseOr
<1>8. CASE MarkStep
  BY <1>8 DEF MarkStep, MarkBegin, MarkEnd
<1>9. CASE Crash
  BY <1>9 DEF Crash
<1>10. CASE UNCHANGED vars
  BY <1>10 DEF vars
<1> QED
  BY <1>1, <1>2, <1>3, <1>4, <1>5, <1>6, <1>7, <1>8, <1>9, <1>10 DEF Next

\* The join is what lets the run go on.
LEMMA NextJoined == IInv /\ [Next]_vars => Joined'
<1> SUFFICES ASSUME IInv, [Next]_vars PROVE Joined'
  OBVIOUS
<1> USE DEF IInv, Threads, TypeOK, Causes, RunPcs, ConsPcs, CutSources, DiskPcs, FinPcs, Joined,
    ringVars, runVars, consVars, fileVars, cutVars, diskVars, backupVars, finVars, outcomeVars
<1>1. CASE Start
  BY <1>1 DEF Start
<1>2. CASE StartFails
  BY <1>2 DEF StartFails
<1>3. CASE Stop
  BY <1>3 DEF Stop
<1>4. CASE RunStep
  BY <1>4 DEF RunStep, SourceStart, LoopTest, SourceRead, SourceEnd, SourceFault, PutTest,
      PutChunk, PutTimesOut, CloseRing, CloseWake, JoinConsumer, CloseRaw, CloseRawFails,
      StopBackup, BeginFinalize, BeginFinalizeFails, ConcludeWithoutData, ConcludeFails,
      MarkRemoteDeleted, RunOnly, EmptyChunk, PutRefused, CauseOr, PutAdmitted, Enqueue,
      EnqueueTimesOut, SetClosed, WakeConsumer, RunDies, RemoveDir
<1>5. CASE ConsumerStep
  BY <1>5 DEF ConsumerStep, GetItem, GetEmpty, GetTestClosed, AppendRaw, AppendFails,
      ProcessChunk, ProcessFails, PublishFrame, FailRecord, FailStop, FailClose, FailDrain,
      Dequeue, EmptyChunk, ConsumerOnly, PollEmpty, Detect, CauseOr, SetClosed, WakeConsumer,
      DrainOne, DrainDone
<1>6. CASE DiskStep
  BY <1>6 DEF DiskStep, WatchTest, MeasureDisk, ForceStop, EnableBackup, StartStream, DiskOnly
<1>7. CASE FinalizeStep
  BY <1>7 DEF FinalizeStep, WriteSummary, FinalizeFails, RecordCutStart, Conclude, Report,
      ReportFails, FinOnly, CauseOr
<1>8. CASE MarkStep
  BY <1>8 DEF MarkStep, MarkBegin, MarkEnd
<1>9. CASE Crash
  BY <1>9 DEF Crash
<1>10. CASE UNCHANGED vars
  BY <1>10 DEF vars
<1> QED
  BY <1>1, <1>2, <1>3, <1>4, <1>5, <1>6, <1>7, <1>8, <1>9, <1>10 DEF Next

\* Before the source is started nothing is queued and nothing has failed.
LEMMA NextUnstarted == IInv /\ [Next]_vars => Unstarted'
<1> SUFFICES ASSUME IInv, [Next]_vars PROVE Unstarted'
  OBVIOUS
<1> USE DEF IInv, Threads, TypeOK, Causes, RunPcs, ConsPcs, CutSources, DiskPcs, FinPcs,
    Unstarted, ringVars, runVars, consVars, fileVars, cutVars, diskVars, backupVars, finVars,
    outcomeVars
<1>1. CASE Start
  BY <1>1 DEF Start
<1>2. CASE StartFails
  BY <1>2 DEF StartFails
<1>3. CASE Stop
  BY <1>3 DEF Stop
<1>4. CASE RunStep
  BY <1>4 DEF RunStep, SourceStart, LoopTest, SourceRead, SourceEnd, SourceFault, PutTest,
      PutChunk, PutTimesOut, CloseRing, CloseWake, JoinConsumer, CloseRaw, CloseRawFails,
      StopBackup, BeginFinalize, BeginFinalizeFails, ConcludeWithoutData, ConcludeFails,
      MarkRemoteDeleted, RunOnly, EmptyChunk, PutRefused, CauseOr, PutAdmitted, Enqueue,
      EnqueueTimesOut, SetClosed, WakeConsumer, RunDies, RemoveDir
<1>5. CASE ConsumerStep
  BY <1>5 DEF ConsumerStep, GetItem, GetEmpty, GetTestClosed, AppendRaw, AppendFails,
      ProcessChunk, ProcessFails, PublishFrame, FailRecord, FailStop, FailClose, FailDrain,
      Dequeue, EmptyChunk, ConsumerOnly, PollEmpty, Detect, CauseOr, SetClosed, WakeConsumer,
      DrainOne, DrainDone
<1>6. CASE DiskStep
  BY <1>6 DEF DiskStep, WatchTest, MeasureDisk, ForceStop, EnableBackup, StartStream, DiskOnly
<1>7. CASE FinalizeStep
  BY <1>7 DEF FinalizeStep, WriteSummary, FinalizeFails, RecordCutStart, Conclude, Report,
      ReportFails, FinOnly, CauseOr
<1>8. CASE MarkStep
  BY <1>8 DEF MarkStep, MarkBegin, MarkEnd
<1>9. CASE Crash
  BY <1>9 DEF Crash
<1>10. CASE UNCHANGED vars
  BY <1>10 DEF vars
<1> QED
  BY <1>1, <1>2, <1>3, <1>4, <1>5, <1>6, <1>7, <1>8, <1>9, <1>10 DEF Next

\* One chunk is under way at a time.
LEMMA NextFeeding == IInv /\ [Next]_vars => Feeding'
<1> SUFFICES ASSUME IInv, [Next]_vars PROVE Feeding'
  OBVIOUS
<1> USE DEF IInv, Threads, TypeOK, Causes, RunPcs, ConsPcs, CutSources, DiskPcs, FinPcs, Feeding,
    EmptyChunk, ringVars, runVars, consVars, fileVars, cutVars, diskVars, backupVars, finVars,
    outcomeVars
<1>1. CASE Start
  BY <1>1 DEF Start
<1>2. CASE StartFails
  BY <1>2 DEF StartFails
<1>3. CASE Stop
  BY <1>3 DEF Stop
<1>4. CASE RunStep
  BY <1>4 DEF RunStep, SourceStart, LoopTest, SourceRead, SourceEnd, SourceFault, PutTest,
      PutChunk, PutTimesOut, CloseRing, CloseWake, JoinConsumer, CloseRaw, CloseRawFails,
      StopBackup, BeginFinalize, BeginFinalizeFails, ConcludeWithoutData, ConcludeFails,
      MarkRemoteDeleted, RunOnly, PutRefused, CauseOr, PutAdmitted, Enqueue, EnqueueTimesOut,
      SetClosed, WakeConsumer, RunDies, RemoveDir
<1>5. CASE ConsumerStep
  BY <1>5 DEF ConsumerStep, GetItem, GetEmpty, GetTestClosed, AppendRaw, AppendFails,
      ProcessChunk, ProcessFails, PublishFrame, FailRecord, FailStop, FailClose, FailDrain,
      Dequeue, ConsumerOnly, PollEmpty, Detect, CauseOr, SetClosed, WakeConsumer, DrainOne,
      DrainDone
<1>6. CASE DiskStep
  BY <1>6 DEF DiskStep, WatchTest, MeasureDisk, ForceStop, EnableBackup, StartStream, DiskOnly
<1>7. CASE FinalizeStep
  BY <1>7 DEF FinalizeStep, WriteSummary, FinalizeFails, RecordCutStart, Conclude, Report,
      ReportFails, FinOnly, CauseOr
<1>8. CASE MarkStep
  BY <1>8 DEF MarkStep, MarkBegin, MarkEnd
<1>9. CASE Crash
  BY <1>9 DEF Crash
<1>10. CASE UNCHANGED vars
  BY <1>10 DEF vars
<1> QED
  BY <1>1, <1>2, <1>3, <1>4, <1>5, <1>6, <1>7, <1>8, <1>9, <1>10 DEF Next

\* Rows and counted samples.
LEMMA NextCounted == IInv /\ [Next]_vars => Counted'
<1> SUFFICES ASSUME IInv, [Next]_vars PROVE Counted'
  OBVIOUS
<1> USE DEF IInv, Threads, TypeOK, Causes, RunPcs, ConsPcs, CutSources, DiskPcs, FinPcs, Counted,
    ringVars, runVars, consVars, fileVars, cutVars, diskVars, backupVars, finVars, outcomeVars
<1>1. CASE Start
  BY <1>1 DEF Start
<1>2. CASE StartFails
  BY <1>2 DEF StartFails
<1>3. CASE Stop
  BY <1>3 DEF Stop
<1>4. CASE RunStep
  BY <1>4 DEF RunStep, SourceStart, LoopTest, SourceRead, SourceEnd, SourceFault, PutTest,
      PutChunk, PutTimesOut, CloseRing, CloseWake, JoinConsumer, CloseRaw, CloseRawFails,
      StopBackup, BeginFinalize, BeginFinalizeFails, ConcludeWithoutData, ConcludeFails,
      MarkRemoteDeleted, RunOnly, EmptyChunk, PutRefused, CauseOr, PutAdmitted, Enqueue,
      EnqueueTimesOut, SetClosed, WakeConsumer, RunDies, RemoveDir
<1>5. CASE GetItem
  BY <1>5 DEF GetItem, Dequeue, EmptyChunk, ConsumerOnly
<1>6. CASE GetEmpty
  BY <1>6 DEF GetEmpty, PollEmpty, ConsumerOnly
<1>7. CASE GetTestClosed
  BY <1>7 DEF GetTestClosed, ConsumerOnly
<1>8. CASE AppendRaw
  BY <1>8 DEF AppendRaw, ConsumerOnly
<1>9. CASE AppendFails
  BY <1>9 DEF AppendFails, ConsumerOnly
<1>10. CASE ProcessChunk
  BY <1>10 DEF ProcessChunk, Detect
<1>11. CASE ProcessFails
  BY <1>11 DEF ProcessFails, Detect
<1>12. CASE PublishFrame
  BY <1>12 DEF PublishFrame, ConsumerOnly
<1>13. CASE FailRecord
  BY <1>13 DEF FailRecord, CauseOr, ConsumerOnly
<1>14. CASE FailStop
  BY <1>14 DEF FailStop, ConsumerOnly
<1>15. CASE FailClose
  BY <1>15 DEF FailClose, SetClosed, WakeConsumer, ConsumerOnly
<1>16. CASE FailDrain
  BY <1>16 DEF FailDrain, DrainOne, DrainDone, ConsumerOnly, Dequeue, PollEmpty
<1>17. CASE DiskStep
  BY <1>17 DEF DiskStep, WatchTest, MeasureDisk, ForceStop, EnableBackup, StartStream, DiskOnly
<1>18. CASE FinalizeStep
  BY <1>18 DEF FinalizeStep, WriteSummary, FinalizeFails, RecordCutStart, Conclude, Report,
      ReportFails, FinOnly, CauseOr
<1>19. CASE MarkStep
  BY <1>19 DEF MarkStep, MarkBegin, MarkEnd
<1>20. CASE Crash
  BY <1>20 DEF Crash
<1>21. CASE UNCHANGED vars
  BY <1>21 DEF vars
<1> QED
  BY <1>1, <1>2, <1>3, <1>4, <1>5, <1>6, <1>7, <1>8, <1>9, <1>10, <1>11, <1>12, <1>13, <1>14,
      <1>15, <1>16, <1>17, <1>18, <1>19, <1>20, <1>21 DEF Next, ConsumerStep

\* The detector waits for a manual mark.
LEMMA NextMarkHeld == IInv /\ [Next]_vars => MarkHeld'
<1> SUFFICES ASSUME IInv, [Next]_vars PROVE MarkHeld'
  OBVIOUS
<1> USE DEF IInv, Threads, TypeOK, Causes, RunPcs, ConsPcs, CutSources, DiskPcs, FinPcs, MarkHeld,
    ringVars, runVars, consVars, fileVars, cutVars, diskVars, backupVars, finVars, outcomeVars
<1>1. CASE Start
  BY <1>1 DEF Start
<1>2. CASE StartFails
  BY <1>2 DEF StartFails
<1>3. CASE Stop
  BY <1>3 DEF Stop
<1>4. CASE RunStep
  BY <1>4 DEF RunStep, SourceStart, LoopTest, SourceRead, SourceEnd, SourceFault, PutTest,
      PutChunk, PutTimesOut, CloseRing, CloseWake, JoinConsumer, CloseRaw, CloseRawFails,
      StopBackup, BeginFinalize, BeginFinalizeFails, ConcludeWithoutData, ConcludeFails,
      MarkRemoteDeleted, RunOnly, EmptyChunk, PutRefused, CauseOr, PutAdmitted, Enqueue,
      EnqueueTimesOut, SetClosed, WakeConsumer, RunDies, RemoveDir
<1>5. CASE ConsumerStep
  BY <1>5 DEF ConsumerStep, GetItem, GetEmpty, GetTestClosed, AppendRaw, AppendFails,
      ProcessChunk, ProcessFails, PublishFrame, FailRecord, FailStop, FailClose, FailDrain,
      Dequeue, EmptyChunk, ConsumerOnly, PollEmpty, Detect, CauseOr, SetClosed, WakeConsumer,
      DrainOne, DrainDone
<1>6. CASE DiskStep
  BY <1>6 DEF DiskStep, WatchTest, MeasureDisk, ForceStop, EnableBackup, StartStream, DiskOnly
<1>7. CASE FinalizeStep
  BY <1>7 DEF FinalizeStep, WriteSummary, FinalizeFails, RecordCutStart, Conclude, Report,
      ReportFails, FinOnly, CauseOr
<1>8. CASE MarkStep
  BY <1>8 DEF MarkStep, MarkBegin, MarkEnd
<1>9. CASE Crash
  BY <1>9 DEF Crash
<1>10. CASE UNCHANGED vars
  BY <1>10 DEF vars
<1> QED
  BY <1>1, <1>2, <1>3, <1>4, <1>5, <1>6, <1>7, <1>8, <1>9, <1>10 DEF Next

\* Nothing is appended to a closed file.
LEMMA NextSealed == IInv /\ [Next]_vars => Sealed'
<1> SUFFICES ASSUME IInv, [Next]_vars PROVE Sealed'
  OBVIOUS
<1> USE DEF IInv, Threads, TypeOK, Causes, RunPcs, ConsPcs, CutSources, DiskPcs, FinPcs, Sealed,
    ringVars, runVars, consVars, fileVars, cutVars, diskVars, backupVars, finVars, outcomeVars
<1>1. CASE Start
  BY <1>1 DEF Start
<1>2. CASE StartFails
  BY <1>2 DEF StartFails
<1>3. CASE Stop
  BY <1>3 DEF Stop
<1>4. CASE RunStep
  BY <1>4 DEF RunStep, SourceStart, LoopTest, SourceRead, SourceEnd, SourceFault, PutTest,
      PutChunk, PutTimesOut, CloseRing, CloseWake, JoinConsumer, CloseRaw, CloseRawFails,
      StopBackup, BeginFinalize, BeginFinalizeFails, ConcludeWithoutData, ConcludeFails,
      MarkRemoteDeleted, RunOnly, EmptyChunk, PutRefused, CauseOr, PutAdmitted, Enqueue,
      EnqueueTimesOut, SetClosed, WakeConsumer, RunDies, RemoveDir
<1>5. CASE ConsumerStep
  BY <1>5 DEF ConsumerStep, GetItem, GetEmpty, GetTestClosed, AppendRaw, AppendFails,
      ProcessChunk, ProcessFails, PublishFrame, FailRecord, FailStop, FailClose, FailDrain,
      Dequeue, EmptyChunk, ConsumerOnly, PollEmpty, Detect, CauseOr, SetClosed, WakeConsumer,
      DrainOne, DrainDone
<1>6. CASE DiskStep
  BY <1>6 DEF DiskStep, WatchTest, MeasureDisk, ForceStop, EnableBackup, StartStream, DiskOnly
<1>7. CASE FinalizeStep
  BY <1>7 DEF FinalizeStep, WriteSummary, FinalizeFails, RecordCutStart, Conclude, Report,
      ReportFails, FinOnly, CauseOr
<1>8. CASE MarkStep
  BY <1>8 DEF MarkStep, MarkBegin, MarkEnd
<1>9. CASE Crash
  BY <1>9 DEF Crash
<1>10. CASE UNCHANGED vars
  BY <1>10 DEF vars
<1> QED
  BY <1>1, <1>2, <1>3, <1>4, <1>5, <1>6, <1>7, <1>8, <1>9, <1>10 DEF Next

\* Reports come last.
LEMMA NextReported == IInv /\ [Next]_vars => Reported'
<1> SUFFICES ASSUME IInv, [Next]_vars PROVE Reported'
  OBVIOUS
<1> USE DEF IInv, Threads, TypeOK, Causes, RunPcs, ConsPcs, CutSources, DiskPcs, FinPcs, Reported,
    ringVars, runVars, consVars, fileVars, cutVars, diskVars, backupVars, finVars, outcomeVars
<1>1. CASE Start
  BY <1>1 DEF Start
<1>2. CASE StartFails
  BY <1>2 DEF StartFails
<1>3. CASE Stop
  BY <1>3 DEF Stop
<1>4. CASE RunStep
  BY <1>4 DEF RunStep, SourceStart, LoopTest, SourceRead, SourceEnd, SourceFault, PutTest,
      PutChunk, PutTimesOut, CloseRing, CloseWake, JoinConsumer, CloseRaw, CloseRawFails,
      StopBackup, BeginFinalize, BeginFinalizeFails, ConcludeWithoutData, ConcludeFails,
      MarkRemoteDeleted, RunOnly, EmptyChunk, PutRefused, CauseOr, PutAdmitted, Enqueue,
      EnqueueTimesOut, SetClosed, WakeConsumer, RunDies, RemoveDir
<1>5. CASE ConsumerStep
  BY <1>5 DEF ConsumerStep, GetItem, GetEmpty, GetTestClosed, AppendRaw, AppendFails,
      ProcessChunk, ProcessFails, PublishFrame, FailRecord, FailStop, FailClose, FailDrain,
      Dequeue, EmptyChunk, ConsumerOnly, PollEmpty, Detect, CauseOr, SetClosed, WakeConsumer,
      DrainOne, DrainDone
<1>6. CASE DiskStep
  BY <1>6 DEF DiskStep, WatchTest, MeasureDisk, ForceStop, EnableBackup, StartStream, DiskOnly
<1>7. CASE FinalizeStep
  BY <1>7 DEF FinalizeStep, WriteSummary, FinalizeFails, RecordCutStart, Conclude, Report,
      ReportFails, FinOnly, CauseOr
<1>8. CASE MarkStep
  BY <1>8 DEF MarkStep, MarkBegin, MarkEnd
<1>9. CASE Crash
  BY <1>9 DEF Crash
<1>10. CASE UNCHANGED vars
  BY <1>10 DEF vars
<1> QED
  BY <1>1, <1>2, <1>3, <1>4, <1>5, <1>6, <1>7, <1>8, <1>9, <1>10 DEF Next

\* One summary.
LEMMA NextDescribed == IInv /\ [Next]_vars => Described'
<1> SUFFICES ASSUME IInv, [Next]_vars PROVE Described'
  OBVIOUS
<1> USE DEF IInv, Threads, TypeOK, Causes, RunPcs, ConsPcs, CutSources, DiskPcs, FinPcs, Sealed,
    Described, ringVars, runVars, consVars, fileVars, cutVars, diskVars, backupVars, finVars,
    outcomeVars
<1>1. CASE Start
  BY <1>1 DEF Start
<1>2. CASE StartFails
  BY <1>2 DEF StartFails
<1>3. CASE Stop
  BY <1>3 DEF Stop
<1>4. CASE RunStep
  BY <1>4 DEF RunStep, SourceStart, LoopTest, SourceRead, SourceEnd, SourceFault, PutTest,
      PutChunk, PutTimesOut, CloseRing, CloseWake, JoinConsumer, CloseRaw, CloseRawFails,
      StopBackup, BeginFinalize, BeginFinalizeFails, ConcludeWithoutData, ConcludeFails,
      MarkRemoteDeleted, RunOnly, EmptyChunk, PutRefused, CauseOr, PutAdmitted, Enqueue,
      EnqueueTimesOut, SetClosed, WakeConsumer, RunDies, RemoveDir
<1>5. CASE ConsumerStep
  BY <1>5 DEF ConsumerStep, GetItem, GetEmpty, GetTestClosed, AppendRaw, AppendFails,
      ProcessChunk, ProcessFails, PublishFrame, FailRecord, FailStop, FailClose, FailDrain,
      Dequeue, EmptyChunk, ConsumerOnly, PollEmpty, Detect, CauseOr, SetClosed, WakeConsumer,
      DrainOne, DrainDone
<1>6. CASE DiskStep
  BY <1>6 DEF DiskStep, WatchTest, MeasureDisk, ForceStop, EnableBackup, StartStream, DiskOnly
<1>7. CASE FinalizeStep
  BY <1>7 DEF FinalizeStep, WriteSummary, FinalizeFails, RecordCutStart, Conclude, Report,
      ReportFails, FinOnly, CauseOr
<1>8. CASE MarkStep
  BY <1>8 DEF MarkStep, MarkBegin, MarkEnd
<1>9. CASE Crash
  BY <1>9 DEF Crash
<1>10. CASE UNCHANGED vars
  BY <1>10 DEF vars
<1> QED
  BY <1>1, <1>2, <1>3, <1>4, <1>5, <1>6, <1>7, <1>8, <1>9, <1>10 DEF Next

\* The origin of the cut stays on a row.
LEMMA NextCutInsideCapture == IInv /\ [Next]_vars => CutInsideCapture'
<1> SUFFICES ASSUME IInv, [Next]_vars PROVE CutInsideCapture'
  OBVIOUS
<1> USE DEF IInv, Threads, TypeOK, Causes, RunPcs, ConsPcs, CutSources, DiskPcs, FinPcs, Counted,
    MarkHeld, CutInsideCapture, ringVars, runVars, consVars, fileVars, cutVars, diskVars,
    backupVars, finVars, outcomeVars
<1>1. CASE Start
  BY <1>1 DEF Start
<1>2. CASE StartFails
  BY <1>2 DEF StartFails
<1>3. CASE Stop
  BY <1>3 DEF Stop
<1>4. CASE RunStep
  BY <1>4 DEF RunStep, SourceStart, LoopTest, SourceRead, SourceEnd, SourceFault, PutTest,
      PutChunk, PutTimesOut, CloseRing, CloseWake, JoinConsumer, CloseRaw, CloseRawFails,
      StopBackup, BeginFinalize, BeginFinalizeFails, ConcludeWithoutData, ConcludeFails,
      MarkRemoteDeleted, RunOnly, EmptyChunk, PutRefused, CauseOr, PutAdmitted, Enqueue,
      EnqueueTimesOut, SetClosed, WakeConsumer, RunDies, RemoveDir
<1>5. CASE ConsumerStep
  BY <1>5 DEF ConsumerStep, GetItem, GetEmpty, GetTestClosed, AppendRaw, AppendFails,
      ProcessChunk, ProcessFails, PublishFrame, FailRecord, FailStop, FailClose, FailDrain,
      Dequeue, EmptyChunk, ConsumerOnly, PollEmpty, Detect, CauseOr, SetClosed, WakeConsumer,
      DrainOne, DrainDone
<1>6. CASE DiskStep
  BY <1>6 DEF DiskStep, WatchTest, MeasureDisk, ForceStop, EnableBackup, StartStream, DiskOnly
<1>7. CASE FinalizeStep
  BY <1>7 DEF FinalizeStep, WriteSummary, FinalizeFails, RecordCutStart, Conclude, Report,
      ReportFails, FinOnly, CauseOr
<1>8. CASE MarkStep
  BY <1>8 DEF MarkStep, MarkBegin, MarkEnd
<1>9. CASE Crash
  BY <1>9 DEF Crash
<1>10. CASE UNCHANGED vars
  BY <1>10 DEF vars
<1> QED
  BY <1>1, <1>2, <1>3, <1>4, <1>5, <1>6, <1>7, <1>8, <1>9, <1>10 DEF Next

\* After the report nothing changes.
LEMMA NextManifestAgrees == IInv /\ [Next]_vars => ManifestAgrees'
<1> SUFFICES ASSUME IInv, [Next]_vars PROVE ManifestAgrees'
  OBVIOUS
<1> USE DEF IInv, Threads, TypeOK, Causes, RunPcs, ConsPcs, CutSources, DiskPcs, FinPcs, Reported,
    ManifestAgrees, ringVars, runVars, consVars, fileVars, cutVars, diskVars, backupVars, finVars,
    outcomeVars
<1>1. CASE Start
  BY <1>1 DEF Start
<1>2. CASE StartFails
  BY <1>2 DEF StartFails
<1>3. CASE Stop
  BY <1>3 DEF Stop
<1>4. CASE SourceStart
  BY <1>4 DEF SourceStart, RunOnly
<1>5. CASE LoopTest
  BY <1>5 DEF LoopTest, RunOnly
<1>6. CASE SourceRead
  BY <1>6 DEF SourceRead, EmptyChunk, RunOnly
<1>7. CASE SourceEnd
  BY <1>7 DEF SourceEnd, RunOnly
<1>8. CASE SourceFault
  BY <1>8 DEF SourceFault, RunOnly
<1>9. CASE PutTest
  BY <1>9 DEF PutTest, PutRefused, CauseOr, PutAdmitted, RunOnly
<1>10. CASE PutChunk
  BY <1>10 DEF PutChunk, Enqueue, EmptyChunk, RunOnly
<1>11. CASE PutTimesOut
  BY <1>11 DEF PutTimesOut, EnqueueTimesOut, CauseOr, RunOnly
<1>12. CASE CloseRing
  BY <1>12 DEF CloseRing, SetClosed, RunOnly
<1>13. CASE CloseWake
  BY <1>13 DEF CloseWake, WakeConsumer, RunOnly
<1>14. CASE JoinConsumer
  BY <1>14 DEF JoinConsumer, RunOnly
<1>15. CASE CloseRaw
  BY <1>15 DEF CloseRaw
<1>16. CASE CloseRawFails
  BY <1>16 DEF CloseRawFails, RunDies
<1>17. CASE StopBackup
  BY <1>17 DEF StopBackup
<1>18. CASE BeginFinalize
  BY <1>18 DEF BeginFinalize
<1>19. CASE BeginFinalizeFails
  BY <1>19 DEF BeginFinalizeFails, RunDies
<1>20. CASE ConcludeWithoutData
  BY <1>20 DEF ConcludeWithoutData, RemoveDir
<1>21. CASE ConcludeFails
  BY <1>21 DEF ConcludeFails, RemoveDir, RunDies
<1>22. CASE MarkRemoteDeleted
  BY <1>22 DEF MarkRemoteDeleted
<1>23. CASE ConsumerStep
  BY <1>23 DEF ConsumerStep, GetItem, GetEmpty, GetTestClosed, AppendRaw, AppendFails,
      ProcessChunk, ProcessFails, PublishFrame, FailRecord, FailStop, FailClose, FailDrain,
      Dequeue, EmptyChunk, ConsumerOnly, PollEmpty, Detect, CauseOr, SetClosed, WakeConsumer,
      DrainOne, DrainDone
<1>24. CASE DiskStep
  BY <1>24 DEF DiskStep, WatchTest, MeasureDisk, ForceStop, EnableBackup, StartStream, DiskOnly
<1>25. CASE FinalizeStep
  BY <1>25 DEF FinalizeStep, WriteSummary, FinalizeFails, RecordCutStart, Conclude, Report,
      ReportFails, FinOnly, CauseOr
<1>26. CASE MarkStep
  BY <1>26 DEF MarkStep, MarkBegin, MarkEnd
<1>27. CASE Crash
  BY <1>27 DEF Crash
<1>28. CASE UNCHANGED vars
  BY <1>28 DEF vars
<1> QED
  BY <1>1, <1>2, <1>3, <1>4, <1>5, <1>6, <1>7, <1>8, <1>9, <1>10, <1>11, <1>12, <1>13, <1>14,
      <1>15, <1>16, <1>17, <1>18, <1>19, <1>20, <1>21, <1>22, <1>23, <1>24, <1>25, <1>26, <1>27,
      <1>28 DEF Next, RunStep

\* A conclusion is drawn when nobody can change what it rests on.
LEMMA NextHonest == IInv /\ [Next]_vars => Honest'
<1> SUFFICES ASSUME IInv, [Next]_vars PROVE Honest'
  OBVIOUS
<1> USE DEF IInv, Threads, TypeOK, Causes, RunPcs, ConsPcs, CutSources, DiskPcs, FinPcs, Joined,
    Counted, Described, Sealed, Honest, DoneIsHonest, ringVars, runVars, consVars, fileVars,
    cutVars, diskVars, backupVars, finVars, outcomeVars
<1>1. CASE Start
  BY <1>1 DEF Start
<1>2. CASE StartFails
  BY <1>2 DEF StartFails
<1>3. CASE Stop
  BY <1>3 DEF Stop
<1>4. CASE SourceStart
  BY <1>4 DEF SourceStart, RunOnly
<1>5. CASE LoopTest
  BY <1>5 DEF LoopTest, RunOnly
<1>6. CASE SourceRead
  BY <1>6 DEF SourceRead, EmptyChunk, RunOnly
<1>7. CASE SourceEnd
  BY <1>7 DEF SourceEnd, RunOnly
<1>8. CASE SourceFault
  BY <1>8 DEF SourceFault, RunOnly
<1>9. CASE PutTest
  BY <1>9 DEF PutTest, PutRefused, CauseOr, PutAdmitted, RunOnly
<1>10. CASE PutChunk
  BY <1>10 DEF PutChunk, Enqueue, EmptyChunk, RunOnly
<1>11. CASE PutTimesOut
  BY <1>11 DEF PutTimesOut, EnqueueTimesOut, CauseOr, RunOnly
<1>12. CASE CloseRing
  BY <1>12 DEF CloseRing, SetClosed, RunOnly
<1>13. CASE CloseWake
  BY <1>13 DEF CloseWake, WakeConsumer, RunOnly
<1>14. CASE JoinConsumer
  BY <1>14 DEF JoinConsumer, RunOnly
<1>15. CASE CloseRaw
  BY <1>15 DEF CloseRaw
<1>16. CASE CloseRawFails
  BY <1>16 DEF CloseRawFails, RunDies
<1>17. CASE StopBackup
  BY <1>17 DEF StopBackup
<1>18. CASE BeginFinalize
  BY <1>18 DEF BeginFinalize
<1>19. CASE BeginFinalizeFails
  BY <1>19 DEF BeginFinalizeFails, RunDies
<1>20. CASE ConcludeWithoutData
  BY <1>20 DEF ConcludeWithoutData, RemoveDir
<1>21. CASE ConcludeFails
  BY <1>21 DEF ConcludeFails, RemoveDir, RunDies
<1>22. CASE MarkRemoteDeleted
  BY <1>22 DEF MarkRemoteDeleted
<1>23. CASE ConsumerStep
  BY <1>23 DEF ConsumerStep, GetItem, GetEmpty, GetTestClosed, AppendRaw, AppendFails,
      ProcessChunk, ProcessFails, PublishFrame, FailRecord, FailStop, FailClose, FailDrain,
      Dequeue, EmptyChunk, ConsumerOnly, PollEmpty, Detect, CauseOr, SetClosed, WakeConsumer,
      DrainOne, DrainDone
<1>24. CASE DiskStep
  BY <1>24 DEF DiskStep, WatchTest, MeasureDisk, ForceStop, EnableBackup, StartStream, DiskOnly
<1>25. CASE FinalizeStep
  BY <1>25 DEF FinalizeStep, WriteSummary, FinalizeFails, RecordCutStart, Conclude, Report,
      ReportFails, FinOnly, CauseOr
<1>26. CASE MarkStep
  BY <1>26 DEF MarkStep, MarkBegin, MarkEnd
<1>27. CASE Crash
  BY <1>27 DEF Crash
<1>28. CASE UNCHANGED vars
  BY <1>28 DEF vars
<1> QED
  BY <1>1, <1>2, <1>3, <1>4, <1>5, <1>6, <1>7, <1>8, <1>9, <1>10, <1>11, <1>12, <1>13, <1>14,
      <1>15, <1>16, <1>17, <1>18, <1>19, <1>20, <1>21, <1>22, <1>23, <1>24, <1>25, <1>26, <1>27,
      <1>28 DEF Next, RunStep

\* The row appended is the next one of the stream.
LEMMA NextRawIsStreamPrefix == IInv /\ [Next]_vars => RawIsStreamPrefix'
<1> SUFFICES ASSUME IInv, [Next]_vars PROVE RawIsStreamPrefix'
  OBVIOUS
<1> USE DEF IInv, Threads, TypeOK, Causes, RunPcs, ConsPcs, CutSources, DiskPcs, FinPcs,
    QueueInOrder, Taken, Feeding, EmptyChunk, RawIsStreamPrefix, ringVars, runVars, consVars,
    fileVars, cutVars, diskVars, backupVars, finVars, outcomeVars
<1>1. CASE Start
  BY <1>1 DEF Start
<1>2. CASE StartFails
  BY <1>2 DEF StartFails
<1>3. CASE Stop
  BY <1>3 DEF Stop
<1>4. CASE RunStep
  <2>1. CASE SourceStart \/ LoopTest \/ SourceRead \/ SourceEnd \/ SourceFault
    BY <2>1 DEF SourceStart, LoopTest, SourceRead, SourceEnd, SourceFault, RunOnly
  <2>2. CASE PutTest
    BY <2>2 DEF PutTest, RunOnly, PutRefused, CauseOr, PutAdmitted
  <2>3. CASE PutChunk
    BY <2>3 DEF PutChunk, RunOnly, Enqueue
  <2>4. CASE PutTimesOut
    BY <2>4 DEF PutTimesOut, RunOnly, CauseOr, EnqueueTimesOut
  <2>5. CASE CloseRing \/ CloseWake \/ JoinConsumer
    BY <2>5 DEF CloseRing, CloseWake, JoinConsumer, RunOnly, SetClosed, WakeConsumer
  <2>6. CASE CloseRaw \/ CloseRawFails \/ StopBackup \/ BeginFinalize
    BY <2>6 DEF CloseRaw, CloseRawFails, StopBackup, BeginFinalize, RunDies
  <2>7. CASE BeginFinalizeFails \/ ConcludeWithoutData \/ ConcludeFails \/ MarkRemoteDeleted
    BY <2>7 DEF BeginFinalizeFails, ConcludeWithoutData, ConcludeFails, MarkRemoteDeleted, RunDies, RemoveDir
  <2> QED
    BY <1>4, <2>1, <2>2, <2>3, <2>4, <2>5, <2>6, <2>7 DEF RunStep
<1>5. CASE GetItem
  BY <1>5 DEF GetItem, Dequeue, ConsumerOnly
<1>6. CASE GetEmpty
  BY <1>6 DEF GetEmpty, PollEmpty, ConsumerOnly
<1>7. CASE GetTestClosed
  BY <1>7 DEF GetTestClosed, ConsumerOnly
<1>8. CASE AppendRaw
  BY <1>8 DEF AppendRaw, ConsumerOnly
<1>9. CASE AppendFails
  BY <1>9 DEF AppendFails, ConsumerOnly
<1>10. CASE ProcessChunk
  BY <1>10 DEF ProcessChunk, Detect
<1>11. CASE ProcessFails
  BY <1>11 DEF ProcessFails, Detect
<1>12. CASE PublishFrame
  BY <1>12 DEF PublishFrame, ConsumerOnly
<1>13. CASE FailRecord
  BY <1>13 DEF FailRecord, CauseOr, ConsumerOnly
<1>14. CASE FailStop
  BY <1>14 DEF FailStop, ConsumerOnly
<1>15. CASE FailClose
  BY <1>15 DEF FailClose, SetClosed, WakeConsumer, ConsumerOnly
<1>16. CASE FailDrain
  BY <1>16 DEF FailDrain, DrainOne, DrainDone, ConsumerOnly, Dequeue, PollEmpty
<1>17. CASE DiskStep
  BY <1>17 DEF DiskStep, WatchTest, MeasureDisk, ForceStop, EnableBackup, StartStream, DiskOnly
<1>18. CASE FinalizeStep
  BY <1>18 DEF FinalizeStep, WriteSummary, FinalizeFails, RecordCutStart, Conclude, Report,
      ReportFails, FinOnly, CauseOr
<1>19. CASE MarkStep
  BY <1>19 DEF MarkStep, MarkBegin, MarkEnd
<1>20. CASE Crash
  BY <1>20, CrashKeepsPrefix DEF Crash
<1>21. CASE UNCHANGED vars
  BY <1>21 DEF vars
<1> QED
  BY <1>1, <1>2, <1>3, <1>4, <1>5, <1>6, <1>7, <1>8, <1>9, <1>10, <1>11, <1>12, <1>13, <1>14,
      <1>15, <1>16, <1>17, <1>18, <1>19, <1>20, <1>21 DEF Next, ConsumerStep

\* The queue keeps its order.
LEMMA NextQueueInOrder == IInv /\ [Next]_vars => QueueInOrder'
<1> SUFFICES ASSUME IInv, [Next]_vars PROVE QueueInOrder'
  OBVIOUS
<1> USE DEF IInv, Threads, TypeOK, Causes, RunPcs, ConsPcs, CutSources, DiskPcs, FinPcs, Feeding,
    EmptyChunk, QueueInOrder, Taken, ringVars, runVars, consVars, fileVars, cutVars, diskVars,
    backupVars, finVars, outcomeVars
<1>1. CASE Start
  BY <1>1 DEF Start
<1>2. CASE StartFails
  BY <1>2 DEF StartFails
<1>3. CASE Stop
  BY <1>3 DEF Stop
<1>4. CASE SourceStart
  BY <1>4 DEF SourceStart, RunOnly
<1>5. CASE LoopTest
  BY <1>5 DEF LoopTest, RunOnly
<1>6. CASE SourceRead
  BY <1>6 DEF SourceRead, RunOnly
<1>7. CASE SourceEnd
  BY <1>7 DEF SourceEnd, RunOnly
<1>8. CASE SourceFault
  BY <1>8 DEF SourceFault, RunOnly
<1>9. CASE PutTest
  BY <1>9 DEF PutTest, PutRefused, CauseOr, PutAdmitted, RunOnly
<1>10. CASE PutChunk
  <2>1. /\ holding \in Item /\ (holding = EmptyChunk \/ holding = fed + 1) /\ fed \in Nat /\ Taken \in Nat
        /\ Item \ Nonempty = {EmptyChunk, Sentinel} /\ q \in Seq(Item)
    BY <1>10, SessionAssumption DEF PutChunk, Item, Nonempty
  <2>2. /\ q' = Append(q, holding) /\ fed' = (IF holding = EmptyChunk THEN fed ELSE holding)
        /\ UNCHANGED <<consPc, item, raw>>
    BY <1>10 DEF PutChunk, Enqueue, RunOnly, consVars, fileVars
  <2>3. Taken' = Taken
    BY <2>2
  <2>4. InOrder(q, Taken, fed) /\ Taken <= fed => InOrder(q', Taken, fed')
    <3>1. CASE holding = EmptyChunk
      BY <2>1, <2>2, <3>1, AppendOther
    <3>2. CASE holding # EmptyChunk
      BY <2>1, <2>2, <3>2, AppendNext
    <3> QED
      BY <3>1, <3>2
  <2>5. fed <= fed'
    BY <2>1, <2>2
  <2> QED
    <3> HIDE DEF Taken
    <3> QED
      BY <2>1, <2>2, <2>3, <2>4, <2>5
<1>11. CASE PutTimesOut
  BY <1>11 DEF PutTimesOut, EnqueueTimesOut, CauseOr, RunOnly
<1>12. CASE CloseRing
  BY <1>12 DEF CloseRing, SetClosed, RunOnly
<1>13. CASE CloseWake
  <2>1. Sentinel \in Item \ Nonempty /\ q \in Seq(Item) /\ Taken \in Nat /\ fed \in Nat
    BY SessionAssumption DEF Item, Nonempty
  <2>2. /\ q' = q \/ q' = Append(q, Sentinel)
        /\ UNCHANGED <<consPc, item, raw, fed>>
    BY <1>13 DEF CloseWake, WakeConsumer, RunOnly, consVars, fileVars
  <2>3. Taken' = Taken
    BY <2>2
  <2>4. InOrder(q, Taken, fed) => InOrder(q', Taken, fed)
    <3> HIDE DEF IInv, Taken
    <3>1. CASE q' = q
      BY <3>1
    <3>2. CASE q' = Append(q, Sentinel)
      BY <2>1, <3>2, AppendOther
    <3> QED
      BY <2>2, <3>1, <3>2
  <2> QED
    <3> HIDE DEF Taken
    <3> QED
      BY <2>2, <2>3, <2>4
<1>14. CASE JoinConsumer
  BY <1>14 DEF JoinConsumer, RunOnly
<1>15. CASE CloseRaw
  BY <1>15 DEF CloseRaw
<1>16. CASE CloseRawFails
  BY <1>16 DEF CloseRawFails, RunDies
<1>17. CASE StopBackup
  BY <1>17 DEF StopBackup
<1>18. CASE BeginFinalize
  BY <1>18 DEF BeginFinalize
<1>19. CASE BeginFinalizeFails
  BY <1>19 DEF BeginFinalizeFails, RunDies
<1>20. CASE ConcludeWithoutData
  BY <1>20 DEF ConcludeWithoutData, RemoveDir
<1>21. CASE ConcludeFails
  BY <1>21 DEF ConcludeFails, RemoveDir, RunDies
<1>22. CASE MarkRemoteDeleted
  BY <1>22 DEF MarkRemoteDeleted
<1>23. CASE GetItem
  <2>1. q \in Seq(Item) /\ Taken \in Nat /\ fed \in Nat
    BY DEF Item
  <2>2. /\ consPc = "get" /\ q # <<>> /\ q' = Tail(q)
        /\ UNCHANGED <<raw, fed>>
        /\ item' = (IF Head(q) = Sentinel THEN item ELSE Head(q))
        /\ consPc' = (CASE Head(q) = Sentinel -> "dead"
                       [] Head(q) = EmptyChunk -> "get"
                       [] OTHER -> "append")
    BY <1>23 DEF GetItem, Dequeue, ConsumerOnly, runVars, fileVars
  <2>3. Taken = Len(raw) /\ Taken <= fed /\ InOrder(q, Taken, fed)
    BY <2>2
  <2>4. CASE Head(q) = Sentinel
    BY <2>2, <2>4, SessionAssumption
  <2>5. CASE Head(q) # Sentinel /\ Head(q) = EmptyChunk
    <3>1. consPc' = "get" /\ Taken' = Taken
      BY <2>2, <2>5
    <3>2. InOrder(q', Taken', fed')
      BY <2>1, <2>2, <2>3, <2>5, <3>1, TailOther DEF Nonempty
    <3> QED
      BY <2>2, <2>3, <3>1, <3>2
  <2>6. CASE Head(q) # Sentinel /\ Head(q) # EmptyChunk
    <3>1. Head(q) \in Item
      BY <1>23, <2>1, <2>2, RingSteps DEF GetItem
    <3>2. Head(q) \in Nonempty
      BY <2>6, <3>1 DEF Nonempty, Item
    <3>3. Head(q) = Taken + 1 /\ Taken + 1 <= fed /\ InOrder(q', Taken + 1, fed)
      BY <2>1, <2>2, <2>3, <3>2, TailNext
    <3>4. consPc' = "append" /\ Taken' = Taken + 1 /\ item' = Taken'
      BY <2>2, <2>3, <2>6, <3>3
    <3> QED
      BY <2>2, <3>3, <3>4
  <2> QED
    BY <2>4, <2>5, <2>6
<1>24. CASE GetEmpty
  BY <1>24 DEF GetEmpty, PollEmpty, ConsumerOnly
<1>25. CASE GetTestClosed
  BY <1>25 DEF GetTestClosed, ConsumerOnly
<1>26. CASE AppendRaw
  BY <1>26 DEF AppendRaw, ConsumerOnly
<1>27. CASE AppendFails
  BY <1>27 DEF AppendFails, ConsumerOnly
<1>28. CASE ProcessChunk
  BY <1>28 DEF ProcessChunk, Detect
<1>29. CASE ProcessFails
  BY <1>29 DEF ProcessFails, Detect
<1>30. CASE PublishFrame
  BY <1>30 DEF PublishFrame, ConsumerOnly
<1>31. CASE FailRecord
  BY <1>31 DEF FailRecord, CauseOr, ConsumerOnly
<1>32. CASE FailStop
  BY <1>32 DEF FailStop, ConsumerOnly
<1>33. CASE FailClose
  BY <1>33 DEF FailClose, SetClosed, WakeConsumer, ConsumerOnly
<1>34. CASE FailDrain
  BY <1>34 DEF FailDrain, DrainOne, DrainDone, ConsumerOnly, Dequeue, PollEmpty
<1>35. CASE DiskStep
  BY <1>35 DEF DiskStep, WatchTest, MeasureDisk, ForceStop, EnableBackup, StartStream, DiskOnly
<1>36. CASE FinalizeStep
  BY <1>36 DEF FinalizeStep, WriteSummary, FinalizeFails, RecordCutStart, Conclude, Report,
      ReportFails, FinOnly, CauseOr
<1>37. CASE MarkStep
  BY <1>37 DEF MarkStep, MarkBegin, MarkEnd
<1>38. CASE Crash
  BY <1>38 DEF Crash
<1>39. CASE UNCHANGED vars
  BY <1>39 DEF vars
<1> QED
  BY <1>1, <1>2, <1>3, <1>4, <1>5, <1>6, <1>7, <1>8, <1>9, <1>10, <1>11, <1>12, <1>13, <1>14,
      <1>15, <1>16, <1>17, <1>18, <1>19, <1>20, <1>21, <1>22, <1>23, <1>24, <1>25, <1>26, <1>27,
      <1>28, <1>29, <1>30, <1>31, <1>32, <1>33, <1>34, <1>35, <1>36, <1>37, <1>38, <1>39 DEF Next,
      RunStep, ConsumerStep

-----------------------------------------------------------------------------
\* A recording that has not begun satisfies the invariant: no thread, no row, no file closed.
LEMMA InitIInv == Init => IInv
<1> SUFFICES ASSUME Init PROVE IInv
  OBVIOUS
<1>1. /\ q = <<>> /\ raw = <<>> /\ Len(q) = 0 /\ Len(raw) = 0
      /\ q \in Seq(Nat \cup {Sentinel}) /\ raw \in Seq(Nat)
  BY DEF Init, RingInit
<1>2. TypeOK
  <2>1. 0 <= MaxSize /\ EmptyChunk \in Nat /\ closed = FALSE
    BY MaxSizeAssumption DEF EmptyChunk, Init, RingInit
  <2>2. /\ q \in Seq(Nat \cup {Sentinel}) /\ Len(q) <= MaxSize /\ closed \in BOOLEAN
        /\ raw \in Seq(Nat) /\ flushed \in Nat /\ flushed <= Len(raw)
    <3>1. Len(q) <= MaxSize
      BY <1>1, <2>1
    <3>2. flushed = 0
      BY DEF Init
    <3>3. flushed \in Nat /\ flushed <= Len(raw)
      BY <1>1, <3>2
    <3> QED
      BY <1>1, <2>1, <3>1, <3>3
  <2>3. /\ runPc \in RunPcs /\ consPc \in ConsPcs /\ diskPc \in DiskPcs /\ finPc \in FinPcs
        /\ error \in Causes /\ cut \in CutSources /\ recordedCut \in CutSources \cup {"unset"}
    BY DEF Init, Causes, RunPcs, ConsPcs, CutSources, DiskPcs, FinPcs
  <2> QED
    BY <2>1, <2>2, <2>3 DEF Init, TypeOK
<1>3. Threads /\ Joined /\ Unstarted /\ Feeding /\ Counted /\ MarkHeld
  BY <1>1 DEF Init, RingInit, Threads, Joined, Unstarted, Feeding, Counted, MarkHeld
<1>4. QueueInOrder
  BY <1>1 DEF Init, QueueInOrder, InOrder, Taken
<1>5. Sealed /\ Reported /\ Described
  BY <1>1 DEF Init, Sealed, Reported, Described
<1>6. RawIsStreamPrefix /\ CutInsideCapture /\ ManifestAgrees /\ Honest
  BY <1>1 DEF Init, RawIsStreamPrefix, CutInsideCapture, ManifestAgrees, Honest, DoneIsHonest
<1> QED
  BY <1>2, <1>3, <1>4, <1>5, <1>6 DEF IInv

\* Every step of every thread keeps it.
LEMMA NextIInv == IInv /\ [Next]_vars => IInv'
  BY NextTypeOK, NextThreads, NextJoined, NextUnstarted, NextFeeding, NextQueueInOrder,
      NextCounted, NextMarkHeld, NextSealed, NextReported, NextDescribed, NextRawIsStreamPrefix,
      NextCutInsideCapture, NextManifestAgrees, NextHonest DEF IInv

\* The inductive invariant holds of every recording.
LEMMA Invariant == Spec => []IInv
<1> QED
  BY InitIInv, NextIInv, PTL DEF Spec

-----------------------------------------------------------------------------
\* Every variable of a recording keeps its kind, and the ring its bound.
THEOREM TypeCorrect == Spec => []TypeOK
<1>1. IInv => TypeOK
  BY DEF IInv
<1> QED
  BY <1>1, Invariant, PTL

\* The raw file is the stream in order, whatever overruns, failures and kills do: no row is
\* duplicated, swapped or skipped.
THEOREM StreamInOrder == Spec => []RawIsStreamPrefix
<1>1. IInv => RawIsStreamPrefix
  BY DEF IInv
<1> QED
  BY <1>1, Invariant, PTL

\* The cut origin lies on a row of the raw file, also when rows are not counted.
THEOREM OriginInside == Spec => []CutInsideCapture
<1>1. IInv => CutInsideCapture
  BY DEF IInv
<1> QED
  BY <1>1, Invariant, PTL

\* Once the session has reported, manifest.json says what the session says.
THEOREM ManifestTrue == Spec => []ManifestAgrees
<1>1. IInv => ManifestAgrees
  BY DEF IInv
<1> QED
  BY <1>1, Invariant, PTL

\* If the join of the consumer does not give up, "done" means that no error was recorded and
\* that the summary describes every row of the raw file.
THEOREM DoneHonest == ~JoinTimesOut => (Spec => []DoneIsHonest)
<1>1. ASSUME ~JoinTimesOut PROVE IInv => DoneIsHonest
  BY <1>1 DEF IInv, Honest
<1>2. ASSUME ~JoinTimesOut PROVE []IInv => []DoneIsHonest
  <2>1. IInv => DoneIsHonest
    BY <1>1, <1>2
  <2> QED
    BY <2>1, PTL
<1> QED
  BY <1>2, Invariant

\* No step moves the origin of a cut that has one.
LEMMA OriginStep == IInv /\ [Next]_vars => (cut # "none" => UNCHANGED <<cut, cutSample>>)
<1> SUFFICES ASSUME IInv, [Next]_vars PROVE cut # "none" => UNCHANGED <<cut, cutSample>>
  OBVIOUS
<1> USE DEF IInv, MarkHeld, ringVars, runVars, consVars, fileVars, cutVars, diskVars,
    backupVars, finVars, outcomeVars
<1>1. CASE Start
  BY <1>1 DEF Start
<1>2. CASE StartFails
  BY <1>2 DEF StartFails
<1>3. CASE Stop
  BY <1>3 DEF Stop
<1>4. CASE RunStep
  BY <1>4 DEF RunStep, SourceStart, LoopTest, SourceRead, SourceEnd, SourceFault, PutTest,
      PutChunk, PutTimesOut, CloseRing, CloseWake, JoinConsumer, CloseRaw, CloseRawFails,
      StopBackup, BeginFinalize, BeginFinalizeFails, ConcludeWithoutData, ConcludeFails,
      MarkRemoteDeleted, RunOnly, EmptyChunk, PutRefused, CauseOr, PutAdmitted, Enqueue,
      EnqueueTimesOut, SetClosed, WakeConsumer, RunDies, RemoveDir
<1>5. CASE ConsumerStep
  BY <1>5 DEF ConsumerStep, GetItem, GetEmpty, GetTestClosed, AppendRaw, AppendFails,
      ProcessChunk, ProcessFails, PublishFrame, FailRecord, FailStop, FailClose, FailDrain,
      Dequeue, EmptyChunk, ConsumerOnly, PollEmpty, Detect, CauseOr, SetClosed, WakeConsumer,
      DrainOne, DrainDone
<1>6. CASE DiskStep
  BY <1>6 DEF DiskStep, WatchTest, MeasureDisk, ForceStop, EnableBackup, StartStream, DiskOnly
<1>7. CASE FinalizeStep
  BY <1>7 DEF FinalizeStep, WriteSummary, FinalizeFails, RecordCutStart, Conclude, Report,
      ReportFails, FinOnly, CauseOr
<1>8. CASE MarkStep
  BY <1>8 DEF MarkStep, MarkBegin, MarkEnd
<1>9. CASE Crash
  BY <1>9 DEF Crash
<1>10. CASE UNCHANGED vars
  BY <1>10 DEF vars
<1> QED
  BY <1>1, <1>2, <1>3, <1>4, <1>5, <1>6, <1>7, <1>8, <1>9, <1>10 DEF Next

\* Detector and manual mark exclude each other: the origin is never moved once it is set.
THEOREM OriginFixed == Spec => CutOriginFixed
<1>1. IInv /\ [Next]_vars => [cut # "none" => UNCHANGED <<cut, cutSample>>]_vars
  BY OriginStep
<1> QED
  BY <1>1, Invariant, PTL DEF Spec, CutOriginFixed

\* No step replaces a recorded cause, but a fault of the source.
LEMMA CauseStep == IInv /\ [Next]_vars => (error # "none" => error' \in {error, "acquisition"})
<1> SUFFICES ASSUME IInv, [Next]_vars PROVE error # "none" => error' \in {error, "acquisition"}
  OBVIOUS
<1> USE DEF IInv, Unstarted, ringVars, runVars, consVars, fileVars, cutVars, diskVars,
    backupVars, finVars, outcomeVars
<1>1. CASE Start
  BY <1>1 DEF Start
<1>2. CASE StartFails
  BY <1>2 DEF StartFails
<1>3. CASE Stop
  BY <1>3 DEF Stop
<1>4. CASE RunStep
  BY <1>4 DEF RunStep, SourceStart, LoopTest, SourceRead, SourceEnd, SourceFault, PutTest,
      PutChunk, PutTimesOut, CloseRing, CloseWake, JoinConsumer, CloseRaw, CloseRawFails,
      StopBackup, BeginFinalize, BeginFinalizeFails, ConcludeWithoutData, ConcludeFails,
      MarkRemoteDeleted, RunOnly, EmptyChunk, PutRefused, CauseOr, PutAdmitted, Enqueue,
      EnqueueTimesOut, SetClosed, WakeConsumer, RunDies, RemoveDir
<1>5. CASE ConsumerStep
  BY <1>5 DEF ConsumerStep, GetItem, GetEmpty, GetTestClosed, AppendRaw, AppendFails,
      ProcessChunk, ProcessFails, PublishFrame, FailRecord, FailStop, FailClose, FailDrain,
      Dequeue, EmptyChunk, ConsumerOnly, PollEmpty, Detect, CauseOr, SetClosed, WakeConsumer,
      DrainOne, DrainDone
<1>6. CASE DiskStep
  BY <1>6 DEF DiskStep, WatchTest, MeasureDisk, ForceStop, EnableBackup, StartStream, DiskOnly
<1>7. CASE FinalizeStep
  BY <1>7 DEF FinalizeStep, WriteSummary, FinalizeFails, RecordCutStart, Conclude, Report,
      ReportFails, FinOnly, CauseOr
<1>8. CASE MarkStep
  BY <1>8 DEF MarkStep, MarkBegin, MarkEnd
<1>9. CASE Crash
  BY <1>9 DEF Crash
<1>10. CASE UNCHANGED vars
  BY <1>10 DEF vars
<1> QED
  BY <1>1, <1>2, <1>3, <1>4, <1>5, <1>6, <1>7, <1>8, <1>9, <1>10 DEF Next

\* The first cause of a failure is kept; only an exception of the source replaces it.
THEOREM FirstCauseKept == Spec => CauseKept
<1>1. IInv /\ [Next]_vars => [error # "none" => error' \in {error, "acquisition"}]_vars
  BY CauseStep
<1> QED
  BY <1>1, Invariant, PTL DEF Spec, CauseKept

\* Every step of the recording is a step of its capture's files, or leaves them alone.
LEMMA CaptureStep == IInv /\ [Next]_vars => Capture!Next \/ UNCHANGED Capture!capVars
<1> SUFFICES ASSUME IInv, [Next]_vars PROVE Capture!Next \/ UNCHANGED Capture!capVars
  OBVIOUS
<1> USE DEF Capture!Next, Capture!capVars, IInv, TypeOK, Causes, RunPcs, ConsPcs, CutSources, DiskPcs, FinPcs, Threads, Sealed,
    Reported, Described, ringVars, runVars, consVars, fileVars, cutVars, diskVars, backupVars,
    finVars, outcomeVars
<1>1. CASE Start
  BY <1>1 DEF Start
<1>2. CASE StartFails
  BY <1>2 DEF StartFails
<1>3. CASE Stop
  BY <1>3 DEF Stop
<1>4. CASE SourceStart
  BY <1>4 DEF SourceStart, RunOnly
<1>5. CASE LoopTest
  BY <1>5 DEF LoopTest, RunOnly
<1>6. CASE SourceRead
  BY <1>6 DEF SourceRead, EmptyChunk, RunOnly
<1>7. CASE SourceEnd
  BY <1>7 DEF SourceEnd, RunOnly
<1>8. CASE SourceFault
  BY <1>8 DEF SourceFault, RunOnly
<1>9. CASE PutTest
  BY <1>9 DEF PutTest, PutRefused, CauseOr, PutAdmitted, RunOnly
<1>10. CASE PutChunk
  BY <1>10 DEF PutChunk, Enqueue, EmptyChunk, RunOnly
<1>11. CASE PutTimesOut
  BY <1>11 DEF PutTimesOut, EnqueueTimesOut, CauseOr, RunOnly
<1>12. CASE CloseRing
  BY <1>12 DEF CloseRing, SetClosed, RunOnly
<1>13. CASE CloseWake
  BY <1>13 DEF CloseWake, WakeConsumer, RunOnly
<1>14. CASE JoinConsumer
  BY <1>14 DEF JoinConsumer, RunOnly
<1>15. CASE CloseRaw
  BY <1>15 DEF CloseRaw, finVars, Capture!Seal
<1>16. CASE CloseRawFails
  BY <1>16 DEF CloseRawFails, RunDies
<1>17. CASE StopBackup
  BY <1>17 DEF StopBackup
<1>18. CASE BeginFinalize
  BY <1>18 DEF BeginFinalize
<1>19. CASE BeginFinalizeFails
  BY <1>19 DEF BeginFinalizeFails, RunDies
<1>20. CASE ConcludeWithoutData
  BY <1>20 DEF ConcludeWithoutData, RemoveDir, Capture!Remove
<1>21. CASE ConcludeFails
  BY <1>21 DEF ConcludeFails, RemoveDir, RunDies
<1>22. CASE MarkRemoteDeleted
  BY <1>22 DEF MarkRemoteDeleted
<1>23. CASE GetItem
  BY <1>23 DEF GetItem, Dequeue, EmptyChunk, ConsumerOnly
<1>24. CASE GetEmpty
  BY <1>24 DEF GetEmpty, PollEmpty, ConsumerOnly
<1>25. CASE GetTestClosed
  BY <1>25 DEF GetTestClosed, ConsumerOnly
<1>26. CASE AppendRaw
  <2>1. Len(raw') = Len(raw) + 1
    BY <1>26 DEF AppendRaw
  <2> QED
    BY <1>26, <2>1 DEF AppendRaw, ConsumerOnly, finVars, Capture!Write
<1>27. CASE AppendFails
  BY <1>27 DEF AppendFails, ConsumerOnly
<1>28. CASE ProcessChunk
  BY <1>28 DEF ProcessChunk, Detect
<1>29. CASE ProcessFails
  BY <1>29 DEF ProcessFails, Detect
<1>30. CASE PublishFrame
  BY <1>30 DEF PublishFrame, ConsumerOnly
<1>31. CASE FailRecord
  BY <1>31 DEF FailRecord, CauseOr, ConsumerOnly
<1>32. CASE FailStop
  BY <1>32 DEF FailStop, ConsumerOnly
<1>33. CASE FailClose
  BY <1>33 DEF FailClose, SetClosed, WakeConsumer, ConsumerOnly
<1>34. CASE FailDrain
  BY <1>34 DEF FailDrain, DrainOne, DrainDone, ConsumerOnly, Dequeue, PollEmpty
<1>35. CASE DiskStep
  BY <1>35 DEF DiskStep, WatchTest, MeasureDisk, ForceStop, EnableBackup, StartStream, DiskOnly
<1>36. CASE FinalizeStep
  BY <1>36 DEF FinalizeStep, WriteSummary, FinalizeFails, RecordCutStart, Conclude, Report, ReportFails, FinOnly, CauseOr, Capture!Summarize
<1>37. CASE MarkStep
  BY <1>37 DEF MarkStep, MarkBegin, MarkEnd
<1>38. CASE Crash
  <2>1. flushed' \in flushed .. Len(raw) /\ Len(raw') = flushed' /\ rawClosed'
    BY <1>38, CrashKeepsPrefix DEF Crash
  <2> QED
    BY <1>38, <2>1 DEF Crash, Capture!Killed
<1>39. CASE UNCHANGED vars
  BY <1>39 DEF vars
<1> QED
  BY <1>1, <1>2, <1>3, <1>4, <1>5, <1>6, <1>7, <1>8, <1>9, <1>10, <1>11, <1>12, <1>13, <1>14,
      <1>15, <1>16, <1>17, <1>18, <1>19, <1>20, <1>21, <1>22, <1>23, <1>24, <1>25, <1>26, <1>27,
      <1>28, <1>29, <1>30, <1>31, <1>32, <1>33, <1>34, <1>35, <1>36, <1>37, <1>38, <1>39 DEF Next,
      RunStep, ConsumerStep

\* A recording keeps the promise of CaptureFile: rows are only appended, a kill loses at most
\* what was not flushed, a summary describes a closed file and all of it, and a directory is
\* removed only when its file has no row.
THEOREM Refinement == Spec => ImplementsCaptureFile
<1>1. Init => Capture!Init
  BY DEF Init, RingInit, Capture!Init
<1>2. IInv /\ [Next]_vars => [Capture!Next]_(Capture!capVars)
  BY CaptureStep
<1> QED
  BY <1>1, <1>2, Invariant, PTL DEF Spec, ImplementsCaptureFile, Capture!Spec
=============================================================================
