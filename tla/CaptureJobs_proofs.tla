------------------------- MODULE CaptureJobs_proofs -------------------------
(***************************************************************************)
(* For every set of requests: recover, restore and discard exclude each    *)
(* other, a capture is finalized once, the directory of the active         *)
(* recording stays, and recorded rows leave the disk only through a        *)
(* discard or a delete.                                                    *)
(*                                                                         *)
(* The inductive invariant adds what the handlers rely on: a request in a  *)
(* claimed section holds its claim; nothing works on an active capture; a  *)
(* restore that found no local rows, or no directory, still finds none     *)
(* after each of its awaits.                                               *)
(***************************************************************************)
EXTENDS CaptureJobs, TLAPS

RecoveringPcs == RecoverPcs \cup RestorePcs

\* Whoever is inside a claimed section holds the claim, alone.
Claims ==
    /\ \A r \in Requests : pc[r] \in RecoveringPcs => recovering
    /\ \A r \in Requests : pc[r] \in DiscardPcs => discarding
    /\ ExclusiveJobs

\* No request works on the capture while it is recorded.
ActiveAlone == Active => dir /\ ~reportDue /\ \A r \in Requests : pc[r] = "idle"

\* finalize and the session's own finalize start, and end, without a summary.
Unsummarized ==
    /\ session = "this" => summary = "none"
    /\ \A r \in Requests : pc[r] \in {"recRead", "resRead"} => summary = "none"

\* A directory that is gone holds no file; local rows are set aside only once there are rows.
Disk ==
    /\ ~dir => raw = "none" /\ ~part /\ ~aside /\ summary = "none" /\ manifest = "none"
    /\ raw = "header" => ~aside

\* What a restore read before an await still holds after it.
RestoreReads ==
    /\ \A r \in Requests :
         pc[r] \in {"mkdir", "fetch", "download", "swap"} /\ ~mem[r].localRows => raw # "local"
    /\ \A r \in Requests :
         pc[r] \in RestorePcs \ {"probe", "mkdir", "unmark"} /\ mem[r].created => ~HasLocalRows

IInv == TypeOK /\ Claims /\ ActiveAlone /\ Unsummarized /\ Disk /\ RestoreReads

PcTypeOK == pc \in [Requests -> Pcs]

-----------------------------------------------------------------------------
(* The invariant holds initially *)

LEMMA InitIInv == Init => IInv
<1> SUFFICES ASSUME Init PROVE IInv
  OBVIOUS
<1>1. FilesTypeOK /\ ClaimsTypeOK
  BY DEF Init, FilesTypeOK, ClaimsTypeOK, RawKinds, RowKinds
<1>2. RequestsTypeOK
  BY DEF Init, RequestsTypeOK, Pcs, Mem, NoMem, RawKinds, RowKinds
<1>3. Claims /\ ActiveAlone /\ Unsummarized
  BY DEF Init, Claims, ExclusiveJobs, ClaimedPcs, RecoveringPcs, RecoverPcs, RestorePcs, DiscardPcs,
      ActiveAlone, Unsummarized
<1>4. Disk /\ RestoreReads
  BY DEF Init, Disk, RestoreReads, RestorePcs
<1> QED
  BY <1>1, <1>2, <1>3, <1>4 DEF IInv, TypeOK

-----------------------------------------------------------------------------
(* Every step keeps it, one conjunct after the other *)

\* Files keep their kinds: what a step writes is what was downloaded, summarized or recorded.
LEMMA NextFilesType == IInv /\ [Next]_vars => FilesTypeOK'
<1> SUFFICES ASSUME IInv, [Next]_vars PROVE FilesTypeOK'
  OBVIOUS
<1> USE DEF IInv, TypeOK, FilesTypeOK, diskVars, remoteVars, claimVars, appVars
<1>1. ASSUME NEW r \in Requests, BeginStep(r) PROVE FilesTypeOK'
  BY <1>1 DEF BeginStep, RecoverBegin, DiscardBegin, RestoreBegin, DeleteBegin, BeginOnly,
      RequestsTypeOK, Mem, RowKinds, RawKinds
<1>2. ASSUME NEW r \in Requests, FinalizeBegin(r) PROVE FilesTypeOK'
  BY <1>2 DEF FinalizeBegin, RequestsTypeOK, Mem, RowKinds, RawKinds
<1>3. ASSUME NEW r \in Requests, FinalizeEnd(r) PROVE FilesTypeOK'
  BY <1>3 DEF FinalizeEnd, RequestsTypeOK, Mem, RowKinds, RawKinds
<1>4. ASSUME NEW r \in Requests, RecoveredManifest(r) PROVE FilesTypeOK'
  BY <1>4 DEF RecoveredManifest, RequestsTypeOK, Mem, RowKinds, RawKinds
<1>5. ASSUME NEW r \in Requests, FinalizeFails(r) PROVE FilesTypeOK'
  <2>1. CASE PutBack(r) /\ UNCHANGED remoteVars
    BY <2>1 DEF PutBack, EmptyDir, RemovePart, RowKinds, RawKinds
  <2>2. CASE UNCHANGED <<diskVars, remoteVars>>
    BY <2>2 DEF RowKinds, RawKinds
  <2> QED
    BY <1>5, <2>1, <2>2 DEF FinalizeFails, FailAfterSwap, RecoverFails
<1>6. ASSUME NEW r \in Requests, RestoreProbe(r) PROVE FilesTypeOK'
  BY <1>6 DEF RestoreProbe, RequestsTypeOK, Mem, RowKinds, RawKinds
<1>7. ASSUME NEW r \in Requests, RestoreMkdir(r) PROVE FilesTypeOK'
  BY <1>7 DEF RestoreMkdir, RequestsTypeOK, Mem, RowKinds, RawKinds
<1>8. ASSUME NEW r \in Requests, RestoreFetch(r) PROVE FilesTypeOK'
  BY <1>8 DEF RestoreFetch, FailBeforeSwap, EmptyDir, RemovePart, Cleanup, RequestsTypeOK, Mem,
      RowKinds, RawKinds
<1>9. ASSUME NEW r \in Requests, RestoreDownload(r) PROVE FilesTypeOK'
  BY <1>9 DEF RestoreDownload, FailBeforeSwap, EmptyDir, RemovePart, Cleanup, RequestsTypeOK, Mem,
      RowKinds, RawKinds
<1>10. ASSUME NEW r \in Requests, RestoreSwap(r) PROVE FilesTypeOK'
  BY <1>10 DEF RestoreSwap, RequestsTypeOK, Mem, RowKinds, RawKinds
<1>11. ASSUME NEW r \in Requests, RestoreSwapFails(r) PROVE FilesTypeOK'
  BY <1>11 DEF RestoreSwapFails, FailBeforeSwap, EmptyDir, RemovePart, Cleanup, RequestsTypeOK, Mem,
      RowKinds, RawKinds
<1>12. ASSUME NEW r \in Requests, RestoreSwapRaises(r) PROVE FilesTypeOK'
  BY <1>12 DEF RestoreSwapRaises, RequestsTypeOK, Mem, RowKinds, RawKinds
<1>13. ASSUME NEW r \in Requests, RestoreManifest(r) PROVE FilesTypeOK'
  BY <1>13 DEF RestoreManifest, FailAfterSwap, EmptyDir, RemovePart, PutBack, RolledBack,
      RequestsTypeOK, Mem, RowKinds, RawKinds
<1>14. ASSUME NEW r \in Requests, RestoreUnmark(r) PROVE FilesTypeOK'
  BY <1>14 DEF RestoreUnmark, RequestsTypeOK, Mem, RowKinds, RawKinds
<1>15. ASSUME NEW r \in Requests, DiscardCheck(r) PROVE FilesTypeOK'
  BY <1>15 DEF DiscardCheck, RequestsTypeOK, Mem, RowKinds, RawKinds
<1>16. ASSUME NEW r \in Requests, DeleteList(r) PROVE FilesTypeOK'
  BY <1>16 DEF DeleteList, RequestsTypeOK, Mem, RowKinds, RawKinds
<1>17. ASSUME NEW r \in Requests, RemoveFile(r) PROVE FilesTypeOK'
  BY <1>17 DEF RemoveFile, RequestsTypeOK, Mem, RowKinds, RawKinds
<1>18. ASSUME NEW r \in Requests, RemoveDir(r) PROVE FilesTypeOK'
  BY <1>18 DEF RemoveDir, RequestsTypeOK, Mem, RowKinds, RawKinds
<1>19. ASSUME NEW r \in Requests, RemoveFails(r) PROVE FilesTypeOK'
  BY <1>19 DEF RemoveFails, RequestsTypeOK, Mem, RowKinds, RawKinds
<1>20. ASSUME NEW r \in Requests, MarkRemoteDeleted(r) PROVE FilesTypeOK'
  BY <1>20 DEF MarkRemoteDeleted, Tombstone, RequestsTypeOK, Mem, RowKinds, RawKinds
<1>21. CASE SessionWritesRows
  BY <1>21 DEF SessionWritesRows, NoJobStep, RequestsTypeOK, Mem, RowKinds, RawKinds
<1>22. CASE SessionSummarizes
  BY <1>22 DEF SessionSummarizes, NoJobStep, RequestsTypeOK, Mem, RowKinds, RawKinds
<1>23. CASE SessionEnds
  BY <1>23 DEF SessionEnds, NoJobStep, RequestsTypeOK, Mem, RowKinds, RawKinds
<1>24. CASE SessionReports
  BY <1>24 DEF SessionReports, Tombstone, EmptyDir, RequestsTypeOK, Mem, RowKinds, RawKinds
<1>25. CASE Killed \/ KilledInSwap \/ Restart
  <2>1. CASE Killed
    BY <2>1 DEF Killed, Down
  <2>2. CASE KilledInSwap
    BY <2>2 DEF KilledInSwap, Down, RawKinds, RowKinds
  <2>3. CASE Restart
    BY <2>3 DEF Restart
  <2> QED
    BY <1>25, <2>1, <2>2, <2>3
<1>26. CASE UNCHANGED vars
  BY <1>26 DEF vars
<1> QED
  BY <1>1, <1>2, <1>3, <1>4, <1>5, <1>6, <1>7, <1>8, <1>9, <1>10, <1>11, <1>12, <1>13, <1>14, <1>15,
      <1>16, <1>17, <1>18, <1>19, <1>20, <1>21, <1>22, <1>23, <1>24, <1>25, <1>26 DEF Next, JobStep,
      FinalizeStep, RestoreStep, RemoveStep, SessionStep

\* How a request may change the claims: a test with its claim, or a release.
ClaimStep ==
    /\ UNCHANGED appVars
    /\ \/ ~InFlight /\ recovering' = TRUE /\ UNCHANGED discarding
       \/ ~InFlight /\ discarding' = TRUE /\ UNCHANGED recovering
       \/ recovering' = FALSE /\ UNCHANGED discarding
       \/ discarding' = FALSE /\ UNCHANGED recovering
       \/ UNCHANGED claimVars

LEMMA ClaimStepType == ASSUME ClaimsTypeOK, ClaimStep PROVE ClaimsTypeOK'
<1>1. UNCHANGED <<session, reportDue, up>>
  BY DEF ClaimStep, appVars
<1> USE DEF ClaimsTypeOK, InFlight
<1>2. CASE ~InFlight /\ recovering' = TRUE /\ UNCHANGED discarding
  <2>1. recovering' \in BOOLEAN /\ discarding' \in BOOLEAN
    BY <1>2
  <2> QED
    BY <1>1, <1>2, <2>1
<1>3. CASE ~InFlight /\ discarding' = TRUE /\ UNCHANGED recovering
  <2>1. recovering' \in BOOLEAN /\ discarding' \in BOOLEAN
    BY <1>3
  <2> QED
    BY <1>1, <1>3, <2>1
<1>4. CASE recovering' = FALSE /\ UNCHANGED discarding
  BY <1>1, <1>4
<1>5. CASE discarding' = FALSE /\ UNCHANGED recovering
  BY <1>1, <1>5
<1>6. CASE UNCHANGED claimVars
  BY <1>1, <1>6 DEF claimVars
<1> QED
  BY <1>2, <1>3, <1>4, <1>5, <1>6 DEF ClaimStep

\* The two claim sets stay disjoint.
LEMMA NextClaimsType == IInv /\ [Next]_vars => ClaimsTypeOK'
<1> SUFFICES ASSUME IInv, [Next]_vars PROVE ClaimsTypeOK'
  OBVIOUS
<1> USE DEF IInv, TypeOK
<1>1. ASSUME NEW r \in Requests, BeginStep(r) PROVE ClaimsTypeOK'
  <2>1. ClaimStep
    BY <1>1 DEF BeginStep, RecoverBegin, DiscardBegin, RestoreBegin, DeleteBegin, ClaimStep,
        BeginOnly, JobOnly, DiscardOnly, Release, FailBeforeSwap, FailAfterSwap, RecoverFails,
        claimVars
  <2> QED
    BY <2>1, ClaimStepType
<1>2. ASSUME NEW r \in Requests, FinalizeStep(r) PROVE ClaimsTypeOK'
  <2>1. ClaimStep
    BY <1>2 DEF FinalizeStep, FinalizeBegin, FinalizeEnd, RecoveredManifest, FinalizeFails,
        ClaimStep, BeginOnly, JobOnly, DiscardOnly, Release, FailBeforeSwap, FailAfterSwap,
        RecoverFails, claimVars
  <2> QED
    BY <2>1, ClaimStepType
<1>3. ASSUME NEW r \in Requests, RestoreStep(r) PROVE ClaimsTypeOK'
  <2>1. ClaimStep
    BY <1>3 DEF RestoreStep, RestoreProbe, RestoreMkdir, RestoreFetch, RestoreDownload, RestoreSwap,
        RestoreSwapFails, RestoreSwapRaises, RestoreManifest, RestoreUnmark, ClaimStep, BeginOnly,
        JobOnly, DiscardOnly, Release, FailBeforeSwap, FailAfterSwap, RecoverFails, claimVars
  <2> QED
    BY <2>1, ClaimStepType
<1>4. ASSUME NEW r \in Requests, RemoveStep(r) PROVE ClaimsTypeOK'
  <2>1. ClaimStep
    BY <1>4 DEF RemoveStep, DiscardCheck, DeleteList, RemoveFile, RemoveDir, RemoveFails,
        MarkRemoteDeleted, ClaimStep, BeginOnly, JobOnly, DiscardOnly, Release, FailBeforeSwap,
        FailAfterSwap, RecoverFails, claimVars
  <2> QED
    BY <2>1, ClaimStepType
<1>5. CASE SessionStep
  <2>1. UNCHANGED claimVars
    BY <1>5 DEF SessionStep, SessionWritesRows, SessionSummarizes, SessionEnds, SessionReports,
        NoJobStep
  <2>2. session' \in {"none", "this", "saved"}
    BY <1>5 DEF ClaimsTypeOK, SessionStep, SessionWritesRows, SessionSummarizes, SessionEnds,
        SessionReports, appVars
  <2>3. reportDue' \in BOOLEAN
    BY <1>5 DEF ClaimsTypeOK, SessionStep, SessionWritesRows, SessionSummarizes, SessionEnds,
        SessionReports, appVars
  <2>4. up' = up
    BY <1>5 DEF SessionStep, SessionWritesRows, SessionSummarizes, SessionEnds, SessionReports,
        appVars
  <2> QED
    BY <2>1, <2>2, <2>3, <2>4 DEF ClaimsTypeOK, claimVars
<1>6. CASE Killed \/ KilledInSwap \/ Restart
  <2>1. CASE Killed \/ KilledInSwap
    BY <2>1 DEF ClaimsTypeOK, Killed, KilledInSwap, Down
  <2>2. CASE Restart
    BY <2>2 DEF ClaimsTypeOK, Restart, claimVars
  <2> QED
    BY <1>6, <2>1, <2>2
<1>7. CASE UNCHANGED vars
  BY <1>7 DEF ClaimsTypeOK, vars, claimVars, appVars
<1> QED
  BY <1>1, <1>2, <1>3, <1>4, <1>5, <1>6, <1>7 DEF Next, JobStep

\* Every request is at one of the program points.
LEMMA NextPcType == IInv /\ [Next]_vars => PcTypeOK'
<1> SUFFICES ASSUME IInv, [Next]_vars PROVE PcTypeOK'
  OBVIOUS
<1> USE DEF IInv, TypeOK, RequestsTypeOK, PcTypeOK, diskVars, remoteVars, claimVars, appVars
<1>1. ASSUME NEW r \in Requests, BeginStep(r) PROVE PcTypeOK'
  BY <1>1 DEF BeginStep, RecoverBegin, DiscardBegin, RestoreBegin, DeleteBegin, Goto, Pcs,
      RecoverPcs, RestorePcs, DiscardPcs, DeletePcs
<1>2. ASSUME NEW r \in Requests, FinalizeStep(r) PROVE PcTypeOK'
  BY <1>2 DEF FinalizeStep, FinalizeBegin, FinalizeEnd, RecoveredManifest, FinalizeFails, Goto,
      Return, FailAfterSwap, RecoverFails, Pcs, RecoverPcs, RestorePcs, DiscardPcs, DeletePcs
<1>3. ASSUME NEW r \in Requests, RestoreStep(r) PROVE PcTypeOK'
  BY <1>3 DEF RestoreStep, RestoreProbe, RestoreMkdir, RestoreFetch, RestoreDownload, RestoreSwap,
      RestoreSwapFails, RestoreSwapRaises, RestoreManifest, RestoreUnmark, Goto, Return,
      FailBeforeSwap, FailAfterSwap, Pcs, RecoverPcs, RestorePcs, DiscardPcs, DeletePcs
<1>4. ASSUME NEW r \in Requests, RemoveStep(r) PROVE PcTypeOK'
  BY <1>4 DEF RemoveStep, DiscardCheck, DeleteList, RemoveFile, RemoveDir, RemoveFails,
      MarkRemoteDeleted, Goto, Return, Pcs, RecoverPcs, RestorePcs, DiscardPcs, DeletePcs
<1>5. CASE SessionStep
  BY <1>5 DEF SessionStep, SessionWritesRows, SessionSummarizes, SessionEnds, SessionReports,
      NoJobStep, Pcs, RecoverPcs, RestorePcs, DiscardPcs, DeletePcs
<1>6. CASE Killed \/ KilledInSwap \/ Restart
  BY <1>6 DEF Killed, KilledInSwap, Restart, Down, Pcs, RecoverPcs, RestorePcs, DiscardPcs,
      DeletePcs
<1>7. CASE UNCHANGED vars
  BY <1>7 DEF vars
<1> QED
  BY <1>1, <1>2, <1>3, <1>4, <1>5, <1>6, <1>7 DEF Next, JobStep

\* How a step may change the local variables of the requests.
MemStep(r) ==
    \/ mem' = mem
    \/ mem' = [mem EXCEPT ![r] = NoMem]
    \/ mem' = [mem EXCEPT ![r].before = raw]
    \/ mem' = [mem EXCEPT ![r].src = raw] /\ raw \in {"local", "remote"}
    \/ mem' = [mem EXCEPT ![r].localRows = raw \in {"local", "remote"}]
    \/ mem' = [mem EXCEPT ![r].created = ~dir]
    \/ mem' = [mem EXCEPT ![r].listing = Present]
    \/ \E f \in mem[r].listing : mem' = [mem EXCEPT ![r].listing = @ \ {f}]

LEMMA MemStepType ==
    ASSUME FilesTypeOK, mem \in [Requests -> Mem], NEW r \in Requests, MemStep(r)
    PROVE  mem' \in [Requests -> Mem]
<1>1. CASE mem' = mem
  BY <1>1
<1>2. CASE mem' = [mem EXCEPT ![r] = NoMem]
  BY <1>2 DEF Mem, NoMem, RowKinds, RawKinds
<1>3. CASE mem' = [mem EXCEPT ![r].before = raw]
  BY <1>3 DEF Mem, FilesTypeOK
<1>4. CASE mem' = [mem EXCEPT ![r].src = raw] /\ raw \in {"local", "remote"}
  BY <1>4 DEF Mem, RowKinds
<1>5. CASE mem' = [mem EXCEPT ![r].localRows = raw \in {"local", "remote"}]
  <2>1. (raw \in {"local", "remote"}) \in BOOLEAN
    OBVIOUS
  <2> QED
    BY <1>5, <2>1 DEF Mem
<1>6. CASE mem' = [mem EXCEPT ![r].created = ~dir]
  BY <1>6 DEF Mem
<1>7. CASE mem' = [mem EXCEPT ![r].listing = Present]
  <2>1. Present \in SUBSET FileNames
    BY DEF Present
  <2> QED
    BY <1>7, <2>1 DEF Mem
<1>8. CASE \E f \in mem[r].listing : mem' = [mem EXCEPT ![r].listing = @ \ {f}]
  BY <1>8 DEF Mem
<1> QED
  BY <1>1, <1>2, <1>3, <1>4, <1>5, <1>6, <1>7, <1>8 DEF MemStep

\* Only the request that takes a step changes its variables; a restart forgets them all.
LEMMA NextMemType == IInv /\ [Next]_vars => (mem \in [Requests -> Mem])'
<1> SUFFICES ASSUME IInv, [Next]_vars PROVE (mem \in [Requests -> Mem])'
  OBVIOUS
<1> USE DEF IInv, TypeOK, RequestsTypeOK
<1>1. ASSUME NEW r \in Requests, BeginStep(r) PROVE (mem \in [Requests -> Mem])'
  <2>1. MemStep(r)
    BY <1>1 DEF BeginStep, RecoverBegin, DiscardBegin, RestoreBegin, DeleteBegin, MemStep,
        BeginOnly, FailBeforeSwap, FailAfterSwap, RecoverFails, Return
  <2> QED
    BY <2>1, MemStepType
<1>2. ASSUME NEW r \in Requests, FinalizeStep(r) PROVE (mem \in [Requests -> Mem])'
  <2>1. MemStep(r)
    BY <1>2 DEF FinalizeStep, FinalizeBegin, FinalizeEnd, RecoveredManifest, FinalizeFails, MemStep,
        BeginOnly, FailBeforeSwap, FailAfterSwap, RecoverFails, Return
  <2> QED
    BY <2>1, MemStepType
<1>3. ASSUME NEW r \in Requests, RestoreStep(r) PROVE (mem \in [Requests -> Mem])'
  <2>1. MemStep(r)
    BY <1>3 DEF RestoreStep, RestoreProbe, RestoreMkdir, RestoreFetch, RestoreDownload, RestoreSwap,
        RestoreSwapFails, RestoreSwapRaises, RestoreManifest, RestoreUnmark, MemStep, BeginOnly,
        FailBeforeSwap, FailAfterSwap, RecoverFails, Return
  <2> QED
    BY <2>1, MemStepType
<1>4. ASSUME NEW r \in Requests, RemoveStep(r) PROVE (mem \in [Requests -> Mem])'
  <2>1. MemStep(r)
    BY <1>4 DEF RemoveStep, DiscardCheck, DeleteList, RemoveFile, RemoveDir, RemoveFails,
        MarkRemoteDeleted, MemStep, BeginOnly, FailBeforeSwap, FailAfterSwap, RecoverFails, Return
  <2> QED
    BY <2>1, MemStepType
<1>5. CASE SessionStep
  BY <1>5 DEF SessionStep, SessionWritesRows, SessionSummarizes, SessionEnds, SessionReports,
      NoJobStep
<1>6. CASE Killed \/ KilledInSwap \/ Restart
  <2>1. NoMem \in Mem
    BY DEF Mem, NoMem, RowKinds, RawKinds
  <2>2. mem' = [r \in Requests |-> NoMem] \/ mem' = mem
    BY <1>6 DEF Killed, KilledInSwap, Restart, Down
  <2> QED
    BY <2>1, <2>2
<1>7. CASE UNCHANGED vars
  BY <1>7 DEF vars
<1> QED
  BY <1>1, <1>2, <1>3, <1>4, <1>5, <1>6, <1>7 DEF Next, JobStep

\* Test and claim are one step, so at most one request is inside; the release is its own.
LEMMA NextClaims == IInv /\ [Next]_vars => Claims'
<1> SUFFICES ASSUME IInv, [Next]_vars PROVE Claims'
  OBVIOUS
<1> USE DEF IInv, TypeOK, ClaimsTypeOK, RequestsTypeOK, Claims, ExclusiveJobs, ClaimedPcs,
    RecoveringPcs, RecoverPcs, RestorePcs, DiscardPcs, diskVars, remoteVars, claimVars, appVars
<1>1. ASSUME NEW r \in Requests, BeginStep(r) PROVE Claims'
  BY <1>1 DEF BeginStep, RecoverBegin, DiscardBegin, RestoreBegin, DeleteBegin, Goto, Arrives,
      InFlight, BeginOnly
<1>2. ASSUME NEW r \in Requests, FinalizeStep(r) PROVE Claims'
  BY <1>2 DEF FinalizeStep, FinalizeBegin, FinalizeEnd, RecoveredManifest, FinalizeFails, Goto,
      Return, JobOnly, Release, FailAfterSwap, RecoverFails
<1>3. ASSUME NEW r \in Requests, RestoreStep(r) PROVE Claims'
  BY <1>3 DEF RestoreStep, RestoreProbe, RestoreMkdir, RestoreFetch, RestoreDownload, RestoreSwap,
      RestoreSwapFails, RestoreSwapRaises, RestoreManifest, RestoreUnmark, Goto, Return, JobOnly,
      Release, FailBeforeSwap, FailAfterSwap
<1>4. ASSUME NEW r \in Requests, RemoveStep(r) PROVE Claims'
  BY <1>4 DEF RemoveStep, DiscardCheck, DeleteList, RemoveFile, RemoveDir, RemoveFails,
      MarkRemoteDeleted, Goto, Return, DiscardOnly
<1>5. CASE SessionStep
  BY <1>5 DEF SessionStep, SessionWritesRows, SessionSummarizes, SessionEnds, SessionReports,
      NoJobStep
<1>6. CASE Killed \/ KilledInSwap \/ Restart
  BY <1>6 DEF Killed, KilledInSwap, Restart, Down
<1>7. CASE UNCHANGED vars
  BY <1>7 DEF vars
<1> QED
  BY <1>1, <1>2, <1>3, <1>4, <1>5, <1>6, <1>7 DEF Next, JobStep

\* Every handler refuses the active capture, and an ended session never becomes active again.
LEMMA NextActiveAlone == IInv /\ [Next]_vars => ActiveAlone'
<1> SUFFICES ASSUME IInv, [Next]_vars PROVE ActiveAlone'
  OBVIOUS
<1> USE DEF IInv, TypeOK, RequestsTypeOK, ActiveAlone, Active, diskVars, remoteVars, claimVars,
    appVars
<1>1. ASSUME NEW r \in Requests, BeginStep(r) PROVE ActiveAlone'
  BY <1>1 DEF BeginStep, RecoverBegin, DiscardBegin, RestoreBegin, DeleteBegin, Goto, Arrives,
      InFlight, BeginOnly
<1>2. ASSUME NEW r \in Requests, FinalizeStep(r) PROVE ActiveAlone'
  BY <1>2 DEF FinalizeStep, FinalizeBegin, FinalizeEnd, RecoveredManifest, FinalizeFails, Goto,
      Return, JobOnly, Release, FailAfterSwap, RecoverFails, RecoverPcs
<1>3. ASSUME NEW r \in Requests, RestoreStep(r) PROVE ActiveAlone'
  BY <1>3 DEF RestoreStep, RestoreProbe, RestoreMkdir, RestoreFetch, RestoreDownload, RestoreSwap,
      RestoreSwapFails, RestoreSwapRaises, RestoreManifest, RestoreUnmark, Goto, Return, JobOnly,
      Release, FailBeforeSwap, FailAfterSwap
<1>4. ASSUME NEW r \in Requests, RemoveStep(r) PROVE ActiveAlone'
  BY <1>4 DEF RemoveStep, DiscardCheck, DeleteList, RemoveFile, RemoveDir, RemoveFails,
      MarkRemoteDeleted, Goto, Return, DiscardOnly
<1>5. CASE SessionStep
  BY <1>5 DEF SessionStep, SessionWritesRows, SessionSummarizes, SessionEnds, SessionReports,
      NoJobStep, EmptyDir
<1>6. CASE Killed \/ KilledInSwap \/ Restart
  BY <1>6 DEF Killed, KilledInSwap, Restart, Down
<1>7. CASE UNCHANGED vars
  BY <1>7 DEF vars
<1> QED
  BY <1>1, <1>2, <1>3, <1>4, <1>5, <1>6, <1>7 DEF Next, JobStep

\* Whoever finalizes is alone, so no summary appears between its test and its own.
LEMMA NextUnsummarized == IInv /\ [Next]_vars => Unsummarized'
<1> SUFFICES ASSUME IInv, [Next]_vars PROVE Unsummarized'
  OBVIOUS
<1> USE DEF IInv, TypeOK, RequestsTypeOK, Unsummarized, Active, ActiveAlone, Claims, ExclusiveJobs,
    ClaimedPcs, RecoverPcs, RestorePcs, diskVars, remoteVars, claimVars, appVars
<1>1. ASSUME NEW r \in Requests, BeginStep(r) PROVE Unsummarized'
  BY <1>1 DEF BeginStep, RecoverBegin, DiscardBegin, RestoreBegin, DeleteBegin, Goto, Arrives,
      InFlight, BeginOnly
<1>2. ASSUME NEW r \in Requests, FinalizeStep(r) PROVE Unsummarized'
  BY <1>2 DEF FinalizeStep, FinalizeBegin, FinalizeEnd, RecoveredManifest, FinalizeFails, Goto,
      Return, JobOnly, Release, FailAfterSwap, RecoverFails, EmptyDir, RemovePart, PutBack,
      RolledBack
<1>3. ASSUME NEW r \in Requests, RestoreStep(r) PROVE Unsummarized'
  BY <1>3 DEF RestoreStep, RestoreProbe, RestoreMkdir, RestoreFetch, RestoreDownload, RestoreSwap,
      RestoreSwapFails, RestoreSwapRaises, RestoreManifest, RestoreUnmark, Goto, Return, JobOnly,
      Release, FailBeforeSwap, FailAfterSwap, EmptyDir, RemovePart, Cleanup, PutBack, RolledBack
<1>4. ASSUME NEW r \in Requests, RemoveStep(r) PROVE Unsummarized'
  BY <1>4 DEF RemoveStep, DiscardCheck, DeleteList, RemoveFile, RemoveDir, RemoveFails,
      MarkRemoteDeleted, Goto, Return, DiscardOnly
<1>5. CASE SessionStep
  BY <1>5 DEF SessionStep, SessionWritesRows, SessionSummarizes, SessionEnds, SessionReports,
      NoJobStep, EmptyDir
<1>6. CASE Killed \/ KilledInSwap \/ Restart
  BY <1>6 DEF Killed, KilledInSwap, Restart, Down
<1>7. CASE UNCHANGED vars
  BY <1>7 DEF vars
<1> QED
  BY <1>1, <1>2, <1>3, <1>4, <1>5, <1>6, <1>7 DEF Next, JobStep

\* Files are only written into a directory that exists.
LEMMA NextDisk == IInv /\ [Next]_vars => Disk'
<1> SUFFICES ASSUME IInv, [Next]_vars PROVE Disk'
  OBVIOUS
<1> USE DEF IInv, TypeOK, FilesTypeOK, Disk, Active, ActiveAlone, diskVars, remoteVars, claimVars,
    appVars
<1>1. ASSUME NEW r \in Requests, BeginStep(r) PROVE Disk'
  BY <1>1 DEF BeginStep, RecoverBegin, DiscardBegin, RestoreBegin, DeleteBegin, Goto, Arrives,
      InFlight, BeginOnly
<1>2. ASSUME NEW r \in Requests, FinalizeStep(r) PROVE Disk'
  BY <1>2 DEF FinalizeStep, FinalizeBegin, FinalizeEnd, RecoveredManifest, FinalizeFails, Goto,
      Return, JobOnly, Release, FailAfterSwap, RecoverFails, EmptyDir, RemovePart, PutBack,
      RolledBack
<1>3. ASSUME NEW r \in Requests, RestoreStep(r) PROVE Disk'
  BY <1>3 DEF RestoreStep, RestoreProbe, RestoreMkdir, RestoreFetch, RestoreDownload, RestoreSwap,
      RestoreSwapFails, RestoreSwapRaises, RestoreManifest, RestoreUnmark, Goto, Return, JobOnly,
      Release, FailBeforeSwap, FailAfterSwap, EmptyDir, RemovePart, Cleanup, PutBack, RolledBack
<1>4. ASSUME NEW r \in Requests, RemoveStep(r) PROVE Disk'
  BY <1>4 DEF RemoveStep, DiscardCheck, DeleteList, RemoveFile, RemoveDir, RemoveFails,
      MarkRemoteDeleted, Goto, Return, DiscardOnly, Present, FileNames
<1>5. CASE SessionStep
  BY <1>5 DEF SessionStep, SessionWritesRows, SessionSummarizes, SessionEnds, SessionReports,
      NoJobStep, EmptyDir
<1>6. CASE Killed \/ KilledInSwap \/ Restart
  BY <1>6 DEF Killed, KilledInSwap, Restart, Down
<1>7. CASE UNCHANGED vars
  BY <1>7 DEF vars
<1> QED
  BY <1>1, <1>2, <1>3, <1>4, <1>5, <1>6, <1>7 DEF Next, JobStep

\* While a restore holds the claim, no local row appears in the capture.
LEMMA NextRestoreReads == IInv /\ [Next]_vars => RestoreReads'
<1> SUFFICES ASSUME IInv, [Next]_vars PROVE RestoreReads'
  OBVIOUS
<1> USE DEF IInv, TypeOK, FilesTypeOK, RequestsTypeOK, RestoreReads, HasLocalRows, Disk, Active,
    ActiveAlone, Claims, ExclusiveJobs, ClaimedPcs, RecoverPcs, RestorePcs, DiscardPcs, diskVars,
    remoteVars, claimVars, appVars
<1>1. ASSUME NEW r \in Requests, BeginStep(r) PROVE RestoreReads'
  BY <1>1 DEF BeginStep, RecoverBegin, DiscardBegin, RestoreBegin, DeleteBegin, Goto, Arrives,
      InFlight, BeginOnly, Mem
<1>2. ASSUME NEW r \in Requests, FinalizeBegin(r) PROVE RestoreReads'
  BY <1>2 DEF FinalizeBegin, Goto, JobOnly, Mem
<1>3. ASSUME NEW r \in Requests, FinalizeEnd(r) PROVE RestoreReads'
  BY <1>3 DEF FinalizeEnd, Goto, JobOnly, Mem
<1>4. ASSUME NEW r \in Requests, RecoveredManifest(r) PROVE RestoreReads'
  BY <1>4 DEF RecoveredManifest, Goto, Return, JobOnly, Release, Mem, NoMem
<1>5. ASSUME NEW r \in Requests, FinalizeFails(r) PROVE RestoreReads'
  BY <1>5 DEF FinalizeFails, Goto, Return, JobOnly, Release, FailAfterSwap, RecoverFails, Mem,
      NoMem, EmptyDir, RemovePart, PutBack, RolledBack
<1>6. ASSUME NEW r \in Requests, RestoreProbe(r) PROVE RestoreReads'
  BY <1>6 DEF RestoreProbe, Goto, JobOnly, Mem
<1>7. ASSUME NEW r \in Requests, RestoreMkdir(r) PROVE RestoreReads'
  BY <1>7 DEF RestoreMkdir, Goto, JobOnly, Mem
<1>8. ASSUME NEW r \in Requests, RestoreFetch(r) PROVE RestoreReads'
  BY <1>8 DEF RestoreFetch, Goto, Return, JobOnly, Release, FailBeforeSwap, Mem, NoMem, EmptyDir,
      RemovePart, Cleanup
<1>9. ASSUME NEW r \in Requests, RestoreDownload(r) PROVE RestoreReads'
  BY <1>9 DEF RestoreDownload, Goto, Return, JobOnly, Release, FailBeforeSwap, Mem, NoMem, EmptyDir,
      RemovePart, Cleanup
<1>10. ASSUME NEW r \in Requests, RestoreSwap(r) PROVE RestoreReads'
  BY <1>10 DEF RestoreSwap, Goto, JobOnly, Mem, MayReplace
<1>11. ASSUME NEW r \in Requests, RestoreSwapFails(r) PROVE RestoreReads'
  BY <1>11 DEF RestoreSwapFails, Goto, Return, JobOnly, Release, FailBeforeSwap, Mem, NoMem,
      EmptyDir, RemovePart, Cleanup
<1>12. ASSUME NEW r \in Requests, RestoreSwapRaises(r) PROVE RestoreReads'
  BY <1>12 DEF RestoreSwapRaises, Goto, Return, JobOnly, Release, Mem, NoMem
<1>13. ASSUME NEW r \in Requests, RestoreManifest(r) PROVE RestoreReads'
  BY <1>13 DEF RestoreManifest, Goto, Return, JobOnly, Release, FailAfterSwap, Mem, NoMem, EmptyDir,
      RemovePart, PutBack, RolledBack
<1>14. ASSUME NEW r \in Requests, RestoreUnmark(r) PROVE RestoreReads'
  BY <1>14 DEF RestoreUnmark, Goto, Return, JobOnly, Release, Mem, NoMem
<1>15. ASSUME NEW r \in Requests, RemoveStep(r) PROVE RestoreReads'
  BY <1>15 DEF RemoveStep, DiscardCheck, DeleteList, RemoveFile, RemoveDir, RemoveFails,
      MarkRemoteDeleted, Goto, Return, DiscardOnly, Mem, NoMem
<1>16. CASE SessionStep
  BY <1>16 DEF SessionStep, SessionWritesRows, SessionSummarizes, SessionEnds, SessionReports,
      NoJobStep, Mem, EmptyDir
<1>17. CASE Killed \/ KilledInSwap \/ Restart
  BY <1>17 DEF Killed, KilledInSwap, Restart, Down, Mem, NoMem, MayReplace
<1>18. CASE UNCHANGED vars
  BY <1>18 DEF vars
<1> QED
  BY <1>1, <1>2, <1>3, <1>4, <1>5, <1>6, <1>7, <1>8, <1>9, <1>10, <1>11, <1>12, <1>13, <1>14, <1>15,
      <1>16, <1>17, <1>18 DEF Next, JobStep, FinalizeStep, RestoreStep

LEMMA NextIInv == IInv /\ [Next]_vars => IInv'
<1>1. IInv /\ [Next]_vars => TypeOK'
  BY NextFilesType, NextClaimsType, NextPcType, NextMemType DEF TypeOK, RequestsTypeOK, PcTypeOK
<1> QED
  BY <1>1, NextClaims, NextActiveAlone, NextUnsummarized, NextDisk, NextRestoreReads DEF IInv

LEMMA AlwaysIInv == Spec => []IInv
<1>1. Init => IInv
  BY InitIInv
<1>2. IInv /\ [Next]_vars => IInv'
  BY NextIInv
<1> QED
  BY <1>1, <1>2, PTL DEF Spec

-----------------------------------------------------------------------------
(* The theorems *)

\* The claims, the files and the requests keep their types, and no id is in both claim sets.
THEOREM TypeCorrect == Spec => []TypeOK
<1>1. IInv => TypeOK
  BY DEF IInv
<1> QED
  BY <1>1, AlwaysIInv, PTL

\* recovering() and claim_discard(): recover, restore and discard of one capture exclude each other.
THEOREM JobsExclusive == Spec => []ExclusiveJobs
<1>1. IInv => ExclusiveJobs
  BY DEF IInv, Claims
<1> QED
  BY <1>1, AlwaysIInv, PTL

\* The tests of _active_session_id(): nothing removes the directory of the active recording.
THEOREM ActiveNeverTouched == Spec => []ActiveUntouched
<1>1. IInv => ActiveUntouched
  BY DEF IInv, ActiveAlone, ActiveUntouched
<1> QED
  BY <1>1, AlwaysIInv, PTL

\* recover_session, backup_restore and the session's own finalize never finalize a capture twice.
THEOREM NeverFinalizedTwice == Spec => FinalizedOnce
<1>1. IInv /\ [Next]_vars => [SessionSummarizes \/ (\E r \in Requests : FinalizeEnd(r)) => summary = "none"]_vars
  BY DEF IInv, Unsummarized, FinalizeEnd, SessionSummarizes
<1> QED
  BY <1>1, AlwaysIInv, PTL DEF Spec, FinalizedOnce

\* backup_restore "never destroys local data", nor does a recover, a failed rollback or a kill: only
\* a discard or a delete removes recorded rows.
THEOREM LocalRowsAlwaysKept == Spec => LocalRowsKept
<1>1. IInv /\ [Next]_vars =>
        [HasLocalRows /\ ~HasLocalRows' => \E r \in Requests : pc[r] \in {"discardRm", "deleteRm"}]_vars
  <2> SUFFICES ASSUME IInv, [Next]_vars, HasLocalRows, ~HasLocalRows'
               PROVE  \E r \in Requests : pc[r] \in {"discardRm", "deleteRm"}
    OBVIOUS
  <2> USE DEF HasLocalRows, diskVars
  <2>1. ASSUME NEW r \in Requests, BeginStep(r) PROVE FALSE
    BY <2>1 DEF BeginStep, RecoverBegin, DiscardBegin, RestoreBegin, DeleteBegin, BeginOnly
  <2>2. ASSUME NEW r \in Requests, FinalizeStep(r) PROVE FALSE
    BY <2>2 DEF IInv, RestoreReads, RestorePcs, FinalizeStep, FinalizeBegin, FinalizeEnd, RecoveredManifest,
        FinalizeFails, RecoverFails, FailAfterSwap, PutBack, RolledBack, EmptyDir, RemovePart
  <2>3. ASSUME NEW r \in Requests, RestoreStep(r) PROVE FALSE
    <3>1. ASSUME FailBeforeSwap(r), pc[r] \in {"fetch", "download", "swap"} PROVE FALSE
      BY <3>1 DEF IInv, RestoreReads, RestorePcs, FailBeforeSwap, Cleanup, EmptyDir, RemovePart
    <3>2. CASE RestoreSwap(r)
      BY <3>2 DEF IInv, RestoreReads, RestoreSwap
    <3>3. CASE RestoreManifest(r)
      BY <3>3 DEF IInv, RestoreReads, RestorePcs, RestoreManifest, FailAfterSwap, PutBack, RolledBack, EmptyDir,
          RemovePart
    <3> QED
      BY <2>3, <3>1, <3>2, <3>3 DEF RestoreStep, RestoreProbe, RestoreMkdir, RestoreFetch, RestoreDownload,
          RestoreSwapFails, RestoreSwapRaises, RestoreUnmark
  <2>4. ASSUME NEW r \in Requests, RemoveStep(r) PROVE pc[r] \in {"discardRm", "deleteRm"}
    BY <2>4 DEF RemoveStep, DiscardCheck, DeleteList, RemoveFile, RemoveDir, RemoveFails, MarkRemoteDeleted
  <2>5. CASE SessionStep
    BY <2>5 DEF IInv, Disk, SessionStep, SessionWritesRows, SessionSummarizes, SessionEnds, SessionReports,
        EmptyDir
  <2>6. CASE Killed \/ KilledInSwap \/ Restart
    BY <2>6 DEF Killed, KilledInSwap, Restart
  <2>7. CASE UNCHANGED vars
    BY <2>7 DEF vars
  <2> QED
    BY <2>1, <2>2, <2>3, <2>4, <2>5, <2>6, <2>7 DEF Next, JobStep
<1> QED
  BY <1>1, AlwaysIInv, PTL DEF Spec, LocalRowsKept
==============================================================================
