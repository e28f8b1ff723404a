--------------------------- MODULE Desktop_proofs ----------------------------
(***************************************************************************)
(* What holds of the desktop application for every restart budget, every   *)
(* probe threshold, any number of faults, restart clicks and quits, any    *)
(* set of versions and any number of loads of the NI-DAQ page: of the      *)
(* shell, then of the NI-DAQ page (DaqIInv), the updater (UpdIInv) and the *)
(* suite they make up.                                                     *)
(*                                                                         *)
(* The supervisor may only spawn a backend from the one call that the      *)
(* epoch still entitles to (OneEntitled), and an entitled call that is     *)
(* about to spawn has lost the process it replaces (SpawnAfterLoss).  The  *)
(* rest of the invariant says why nothing else can start a second such     *)
(* call: a startup reports to its own call (StartupIsProc), a process has  *)
(* one liveness check at most (OneCheck), and a stop leaves every earlier  *)
(* call behind (StopOutdates).                                             *)
(***************************************************************************)
EXTENDS MCDesktop, FiniteSetTheorems, TLAPS

\* The calls that may still go on to spawn a backend.
Entitled == {c \in chains : c.at # "reap" /\ ~StandsDown(c)}

\* The supervisor has nothing more to expect of process p.
Lost(p) == NoProcess(p) \/ p \in abandoned

Said == {"unknown", "busy", "idle"}
OsStates == {"none", "booting", "healthy", "hung", "failing", "failed", "exited"}
ShellStates ==
    [settled : BOOLEAN, loaded : BOOLEAN, manual : BOOLEAN,
     rst : {"no", "ask", "dialog", "recheck", "stop", "start", "wait"}, rstProc : Pids \union {0},
     clicks : Nat, said : Said, confirmed : BOOLEAN,
     app : {"up", "closing", "gone"}, reports : Nat, lost : BOOLEAN]
QuitStates == [at : {"no", "ask", "dialog", "kept", "quit", "stop"}, p : Pids \union {0}]

SupStates ==
    [state : States, proc : Pids \union {0}, restarts : 0 .. MaxRestarts, stopping : BOOLEAN, epoch : Nat,
     starting : Pids \union {0}, armed : Pids \union {0}, misses : 0 .. (LivenessFailures - 1), stable : BOOLEAN]
Waiters == {"launch", "restart", "exit"}
Calls == [at : {"health", "backoff", "reap"}, p : Pids \union {0}, ep : Nat, who : Waiters, gone : BOOLEAN]
Checks == [at : {"probe", "kill"}, p : Pids, misses : 0 .. (LivenessFailures - 1)]

\* ShellTypeOK, and the types it leaves open.
Typed ==
    /\ sup \in SupStates /\ shell \in ShellStates /\ os \in [Pids -> OsStates] /\ quit \in [Quits -> QuitStates]
    /\ chains \subseteq Calls /\ ticks \subseteq Checks
    /\ abandoned \subseteq killed /\ killed \subseteq Pids
    /\ rec \in Running \union {0} /\ faults \in 0 .. MaxFaults

\* A call is never ahead of the supervisor, nor a process known before it is spawned.
Spawned ==
    /\ \A c \in chains : c.ep <= sup.epoch
    /\ \A c \in chains : c.p # 0 => os[c.p] # "none"
    /\ \A c \in chains : c.at = "health" => c.p # 0
    /\ \A t \in ticks : os[t.p] # "none" /\ (t.at = "kill" => t.p \in killed)
    /\ sup.proc # 0 /\ os[sup.proc] # "none"
    /\ \A p \in killed : os[p] # "none"

OneEntitled == \A c, d \in Entitled : c = d

SpawnAfterLoss == \A c \in Entitled : c.at = "backoff" => Lost(sup.proc) /\ sup.armed = 0

StartupIsProc ==
    \A c \in Entitled : c.at = "health" => /\ c.p = sup.proc /\ sup.starting = sup.proc
                                           /\ sup.armed = 0 /\ sup.proc \notin abandoned
                                           /\ \A t \in ticks : t.p # sup.proc
                                           /\ \A d \in chains : d.at = "health" /\ d.p = c.p => d = c
                                           /\ c.gone => NoProcess(sup.proc)

OneCheck ==
    ~sup.stopping =>
        /\ sup.armed # 0 => /\ sup.armed = sup.proc /\ sup.proc \notin abandoned
                            /\ \A t \in ticks : t.p # sup.proc
        /\ \A t, u \in ticks : t.p = sup.proc /\ u.p = sup.proc => t = u
        /\ \A t \in ticks : t.p = sup.proc => sup.proc \notin abandoned

StopOutdates ==
    /\ shell.rst \in {"stop", "start"} => sup.stopping
    /\ sup.stopping => /\ \A c \in chains : c.ep < sup.epoch
                       /\ sup.armed = 0
                       /\ NoProcess(sup.proc) \/ sup.proc \in killed

OnlyProcRuns == \A p \in Pids : os[p] \in Alive => p \in killed \/ p = sup.proc

\* While the app is up, a backend called ready runs and is watched, and what is not ready yet
\* is not called so.
Watched ==
    shell.app = "up" /\ ~sup.stopping =>
        /\ \A c \in Entitled : sup.state # "ready"
        /\ \A c \in Entitled : c.at = "health" => c.gone \/ os[c.p] \notin {"failed", "exited"}
        /\ sup.state = "ready" => sup.starting # sup.proc

Ruled == /\ Spawned /\ OneEntitled /\ SpawnAfterLoss /\ StartupIsProc /\ OneCheck /\ StopOutdates
         /\ OnlyProcRuns /\ Watched /\ ReadyIsWatched

ShellIInv == Typed /\ Ruled

----------------------------------------------------------------------------
(* Lemmas about the helpers.                                               *)

LEMMA PidsFact == 0 \notin Pids /\ 1 \in Pids /\ Pids \subseteq Nat /\ IsFiniteSet(Pids)
<1>1. 1 + MaxFaults + MaxRestartClicks \in Nat /\ 1 + MaxFaults + MaxRestartClicks >= 1
  BY ShellAssumption
<1> QED
  BY <1>1, FS_Interval DEF Pids

\* sh is the state of the shell but for what it says to the operator.
Kept(sh) == sh \in ShellStates /\ sh.rst = shell.rst /\ sh.app = shell.app

\* What the operator hears changes neither the restart nor the app.
LEMMA HeardFact ==
  ASSUME shell \in ShellStates, NEW st, NEW r
  PROVE  Kept(Heard(st, r))
<1>1. Kept([shell EXCEPT !.reports = 0])
  BY DEF ShellStates, Kept
<1>2. Kept([shell EXCEPT !.lost = FALSE])
  BY DEF ShellStates, Kept
<1>3. Kept([shell EXCEPT !.reports = @ + 1, !.lost = FALSE])
  <2>1. shell.reports + 1 \in Nat
    BY DEF ShellStates
  <2> QED
    BY <2>1 DEF ShellStates, Kept
<1>4. Kept(shell)
  BY DEF Kept
<1> QED
  BY <1>1, <1>2, <1>3, <1>4, Zenon DEF Heard

\* A call that returns ends a restart at most.
LEMMA ReturnedFact ==
  ASSUME NEW sh \in ShellStates, NEW who, NEW st
  PROVE  /\ Returned(sh, who, st) \in ShellStates
         /\ Returned(sh, who, st).rst \in {sh.rst, "no"} /\ Returned(sh, who, st).app = sh.app
<1> DEFINE told == IF st # "ready" THEN 1 ELSE 0
           Fine(x) == x \in ShellStates /\ x.rst \in {sh.rst, "no"} /\ x.app = sh.app
<1>1. sh.reports + told \in Nat
  BY DEF ShellStates
<1>2. (st = "ready") \in BOOLEAN
  OBVIOUS
<1> HIDE DEF told
<1>3. Fine([sh EXCEPT !.settled = TRUE, !.loaded = (st = "ready"), !.reports = @ + told])
  BY <1>1, <1>2 DEF ShellStates
<1>4. Fine([sh EXCEPT !.manual = FALSE, !.rst = "no", !.rstProc = 0, !.said = "idle",
                      !.lost = FALSE, !.reports = @ + told])
  BY <1>1 DEF ShellStates, Said
<1>5. Fine(sh)
  OBVIOUS
<1> USE DEF told
<1>6. Fine(Returned(sh, who, st))
  <2> HIDE DEF Fine
  <2> QED
    BY <1>3, <1>4, <1>5, Zenon DEF Returned
<1> QED
  BY <1>6

LEMMA LostWithFact ==
  ASSUME NEW sh \in ShellStates, NEW p
  PROVE  /\ LostWith(sh, p) \in ShellStates
         /\ LostWith(sh, p).rst = sh.rst /\ LostWith(sh, p).app = sh.app
<1>1. (sh.lost \/ (rec = p /\ ~sup.stopping)) \in BOOLEAN
  OBVIOUS
<1> DEFINE l == sh.lost \/ (rec = p /\ ~sup.stopping)
<1>2. l \in BOOLEAN
  BY <1>1
<1>3. LostWith(sh, p) = [sh EXCEPT !.lost = l]
  BY DEF LostWith
<1> HIDE DEF l
<1> QED
  BY <1>2, <1>3 DEF ShellStates

\* The ways in which the supervisor's fields change.
LEMMA SupState ==
  ASSUME NEW s \in SupStates, NEW st \in States
  PROVE  [s EXCEPT !.state = st] \in SupStates
BY DEF SupStates
LEMMA SupStarting ==
  ASSUME NEW s \in SupStates, NEW p \in Pids \union {0}
  PROVE  [s EXCEPT !.starting = p] \in SupStates
BY DEF SupStates
LEMMA SupArmed ==
  ASSUME NEW s \in SupStates, NEW p \in Pids \union {0}, NEW m \in 0 .. (LivenessFailures - 1)
  PROVE  [s EXCEPT !.armed = p, !.misses = m] \in SupStates
BY DEF SupStates
LEMMA SupReady ==
  ASSUME NEW s \in SupStates, NEW st \in States, NEW p \in Pids \union {0}
  PROVE  [s EXCEPT !.state = st, !.armed = p, !.misses = 0, !.stable = TRUE] \in SupStates
<1>1. 0 \in 0 .. (LivenessFailures - 1)
  BY ShellAssumption
<1> QED
  BY <1>1 DEF SupStates
LEMMA SupSpawned ==
  ASSUME NEW s \in SupStates, NEW st \in States, NEW p \in Pids \union {0}
  PROVE  [s EXCEPT !.state = st, !.proc = p, !.starting = p] \in SupStates
BY DEF SupStates
LEMMA SupStopLiveness ==
  ASSUME NEW s \in SupStates
  PROVE  StopLiveness(s) \in SupStates
<1>1. 0 \in 0 .. MaxRestarts /\ 0 \in 0 .. (LivenessFailures - 1) /\ 0 \in Pids \union {0} /\ s.epoch + 1 \in Nat
  BY ShellAssumption DEF SupStates
<1> QED
  BY <1>1 DEF SupStates, StopLiveness
LEMMA SupStable ==
  ASSUME NEW s \in SupStates
  PROVE  [s EXCEPT !.stable = FALSE, !.restarts = 0] \in SupStates
<1>1. 0 \in 0 .. MaxRestarts /\ 0 \in 0 .. (LivenessFailures - 1) /\ 0 \in Pids \union {0} /\ s.epoch + 1 \in Nat
  BY ShellAssumption DEF SupStates
<1> QED
  BY <1>1 DEF SupStates
LEMMA SupStart ==
  ASSUME NEW s \in SupStates
  PROVE  [s EXCEPT !.stopping = FALSE, !.epoch = @ + 1, !.restarts = 0] \in SupStates
<1>1. 0 \in 0 .. MaxRestarts /\ 0 \in 0 .. (LivenessFailures - 1) /\ 0 \in Pids \union {0} /\ s.epoch + 1 \in Nat
  BY ShellAssumption DEF SupStates
<1> QED
  BY <1>1 DEF SupStates
LEMMA SupStop ==
  ASSUME NEW s \in SupStates
  PROVE  [s EXCEPT !.stopping = TRUE, !.epoch = @ + 1] \in SupStates
<1>1. 0 \in 0 .. MaxRestarts /\ 0 \in 0 .. (LivenessFailures - 1) /\ 0 \in Pids \union {0} /\ s.epoch + 1 \in Nat
  BY ShellAssumption DEF SupStates
<1> QED
  BY <1>1 DEF SupStates
LEMMA SupAgain ==
  ASSUME NEW s \in SupStates, NEW st \in States, s.restarts < MaxRestarts
  PROVE  [s EXCEPT !.state = st, !.restarts = @ + 1] \in SupStates
<1>1. s.restarts + 1 \in 0 .. MaxRestarts
  BY ShellAssumption DEF SupStates
<1> QED
  BY <1>1 DEF SupStates

LEMMA NotStartingFact ==
  ASSUME sup \in SupStates, NEW c \in Calls
  PROVE  NotStarting(c) \in SupStates
<1> DEFINE p == IF sup.starting = c.p THEN 0 ELSE sup.starting
<1>1. p \in Pids \union {0}
  BY DEF SupStates
<1>2. NotStarting(c) = [sup EXCEPT !.starting = p]
  BY DEF NotStarting
<1> HIDE DEF p
<1> QED
  BY <1>1, <1>2, SupStarting

\* handleUnexpectedExit() leaves a call to wait for its backoff, or gives up.
LEMMA UnexpectedFact ==
  ASSUME NEW s \in SupStates, NEW sh \in ShellStates, NEW who \in Waiters, NEW others \in SUBSET Calls,
         Unexpected(s, sh, who, others)
  PROVE  /\ sup' \in SupStates /\ shell' \in ShellStates /\ chains' \subseteq Calls
         /\ sup'.state \in {"crashed", "restarting"}
         /\ sup'.proc = s.proc /\ sup'.epoch = s.epoch /\ sup'.stopping = s.stopping
         /\ sup'.armed = s.armed /\ sup'.starting = s.starting
         /\ shell'.rst \in {sh.rst, "no"} /\ shell'.app = sh.app
         /\ chains' \subseteq others \union {Chain("backoff", 0, s.epoch, who)}
<1>1. CASE s.restarts >= MaxRestarts
  <2> DEFINE sh1 == IF sh.settled /\ ~sh.manual THEN [sh EXCEPT !.reports = @ + 1, !.lost = FALSE] ELSE sh
  <2>1. sup' = [s EXCEPT !.state = "crashed"] /\ shell' = Returned(sh1, who, "crashed") /\ chains' = others
    BY <1>1, Zenon DEF Unexpected
  <2>2. sh1 \in ShellStates /\ sh1.rst = sh.rst /\ sh1.app = sh.app
    <3>1. sh.reports + 1 \in Nat
      BY DEF ShellStates
    <3>2. [sh EXCEPT !.reports = @ + 1, !.lost = FALSE] \in ShellStates
      BY <3>1 DEF ShellStates
    <3> QED
      BY <3>2 DEF ShellStates
  <2> HIDE DEF sh1
  <2>3. shell' \in ShellStates /\ shell'.rst \in {sh.rst, "no"} /\ shell'.app = sh.app
    BY <2>1, <2>2, ReturnedFact
  <2>4. "crashed" \in States
    BY DEF States
  <2>5. sup' \in SupStates
    BY <2>1, <2>4, SupState
  <2> QED
    BY <2>1, <2>3, <2>5 DEF SupStates
<1>2. CASE ~(s.restarts >= MaxRestarts)
  <2>1. /\ sup' = [s EXCEPT !.state = "restarting", !.restarts = @ + 1] /\ shell' = sh
        /\ chains' = others \union {Chain("backoff", 0, s.epoch, who)}
    BY <1>2, Zenon DEF Unexpected
  <2>2. s.restarts < MaxRestarts /\ s.epoch \in Nat
    BY <1>2, ShellAssumption DEF SupStates
  <2>3. "restarting" \in States
    BY DEF States
  <2>4. sup' \in SupStates
    BY <2>1, <2>2, <2>3, SupAgain
  <2>5. Chain("backoff", 0, s.epoch, who) \in Calls
    BY <2>2 DEF Chain, Calls
  <2> QED
    BY <2>1, <2>4, <2>5 DEF SupStates
<1> QED
  BY <1>1, <1>2

\* spawnAndWait() leaves a call to wait for the health of a process that was not there before.
LEMMA SpawnFact ==
  ASSUME NEW s \in SupStates, NEW sh \in ShellStates, NEW who \in Waiters, NEW others \in SUBSET Calls,
         os \in [Pids -> OsStates], faults \in 0 .. MaxFaults,
         SpawnAndWait(s, sh, who, others)
  PROVE  /\ sup' \in SupStates /\ shell' \in ShellStates /\ chains' \subseteq Calls
         /\ os' \in [Pids -> OsStates] /\ faults' \in 0 .. MaxFaults
         /\ sup'.proc \in Pids /\ os[sup'.proc] = "none" /\ os'[sup'.proc] \in {"failing", "booting"}
         /\ \A q \in Pids \ {sup'.proc} : os'[q] = os[q]
         /\ sup'.state = "starting" /\ sup'.starting = sup'.proc
         /\ sup'.epoch = s.epoch /\ sup'.stopping = s.stopping /\ sup'.armed = s.armed
         /\ shell'.rst = sh.rst /\ shell'.app = sh.app
         /\ chains' = others \union {Chain("health", sup'.proc, s.epoch, who)}
<1>1. PICK p \in Pids, failed \in BOOLEAN :
        /\ os[p] = "none" /\ (failed => faults > 0)
        /\ faults' = IF failed THEN faults - 1 ELSE faults
        /\ os' = [os EXCEPT ![p] = IF failed THEN "failing" ELSE "booting"]
        /\ sup' = [s EXCEPT !.state = "starting", !.proc = p, !.starting = p]
        /\ shell' = [sh EXCEPT !.reports = 0]
        /\ chains' = others \union {Chain("health", p, s.epoch, who)}
  BY Zenon DEF SpawnAndWait
<1>2. "starting" \in States
  BY DEF States
<1>3. sup' \in SupStates
  BY <1>1, <1>2, SupSpawned
<1>4. shell' \in ShellStates /\ shell'.rst = sh.rst /\ shell'.app = sh.app
  BY <1>1 DEF ShellStates
<1>5. faults' \in 0 .. MaxFaults
  BY <1>1, ShellAssumption
<1>6. /\ sup'.proc = p /\ sup'.state = "starting" /\ sup'.starting = p
      /\ sup'.epoch = s.epoch /\ sup'.stopping = s.stopping /\ sup'.armed = s.armed /\ s.epoch \in Nat
  BY <1>1 DEF SupStates
<1>7. Chain("health", p, s.epoch, who) \in Calls
  BY <1>6 DEF Chain, Calls
<1>8. os' \in [Pids -> OsStates] /\ os'[p] \in {"failing", "booting"} /\ \A q \in Pids \ {p} : os'[q] = os[q]
  BY <1>1 DEF OsStates
<1> QED
  BY <1>1, <1>3, <1>4, <1>5, <1>6, <1>7, <1>8

\* Processes are not forgotten, and none comes back to life.
OsAges ==
    \A p \in Pids : /\ os'[p] = "none" <=> os[p] = "none"
                    /\ os'[p] \in Alive => os[p] \in Alive
                    /\ os[p] \in {"failing", "failed", "exited"} => os'[p] \in {"failing", "failed", "exited"}

LEMMA AfterUnexpected ==
  ASSUME ShellIInv, ~sup.stopping, NEW who, NEW others \in SUBSET chains,
         sup'.state # "ready", sup'.proc = sup.proc, sup'.epoch = sup.epoch, ~sup'.stopping, sup'.armed = 0,
         shell'.rst \in {shell.rst, "no"}, shell'.app = shell.app,
         chains' \subseteq others \union {Chain("backoff", 0, sup.epoch, who)},
         \A c \in others : c.at = "reap" \/ c.ep # sup.epoch,
         OsAges, ticks' \subseteq ticks, killed' = killed, abandoned \subseteq abandoned',
         \A t \in ticks' : t.p = sup.proc => sup.proc \notin abandoned',
         NoProcess(sup.proc)' \/ sup.proc \in abandoned'
  PROVE  Ruled'
<1> DEFINE new == Chain("backoff", 0, sup.epoch, who)
<1> USE DEF ShellIInv, Ruled
<1>0. sup.epoch \in Nat /\ sup.proc \in Pids /\ chains \subseteq Calls /\ ticks \subseteq Checks
      /\ killed \subseteq Pids /\ abandoned \subseteq killed /\ 0 \notin Pids
  BY PidsFact DEF Typed, SupStates, Spawned
<1>1. new.at = "backoff" /\ new.p = 0 /\ new.ep = sup.epoch
  BY DEF Chain
<1>2. Entitled' \subseteq {new}
  BY DEF Entitled, StandsDown
<1> HIDE DEF new
<1>3. Spawned'
  <2>1. \A c \in chains : c.p \in Pids \union {0}
    BY <1>0 DEF Calls
  <2>2. \A c \in chains' : /\ c.ep <= sup.epoch /\ (c.p # 0 => os'[c.p] # "none")
                           /\ c.at = "health" => c.p # 0
    <3> SUFFICES ASSUME NEW c \in chains'
                 PROVE  /\ c.ep <= sup.epoch /\ (c.p # 0 => os'[c.p] # "none")
                        /\ c.at = "health" => c.p # 0
      OBVIOUS
    <3>1. CASE c \in others
      BY <2>1, <3>1 DEF Spawned, OsAges
    <3>2. CASE c = new
      BY <3>2, <1>0, <1>1
    <3> QED
      BY <3>1, <3>2 DEF new
  <2>3. \A t \in ticks' : os'[t.p] # "none" /\ (t.at = "kill" => t.p \in killed)
    BY <1>0 DEF Spawned, OsAges, Checks
  <2>4. os'[sup.proc] # "none" /\ \A p \in killed : os'[p] # "none"
    BY <1>0 DEF Spawned, OsAges
  <2> QED
    BY <2>2, <2>3, <2>4, <1>0 DEF Spawned
<1>4. OneEntitled'
  BY <1>2 DEF OneEntitled
<1>5. SpawnAfterLoss'
  BY DEF SpawnAfterLoss, Lost
<1>6. StartupIsProc'
  BY <1>1, <1>2 DEF StartupIsProc
<1>7. OneCheck'
  BY DEF OneCheck
<1>8. StopOutdates'
  BY DEF StopOutdates
<1>9. OnlyProcRuns'
  BY DEF OnlyProcRuns, OsAges
<1>10. Watched' /\ ReadyIsWatched'
  BY <1>1, <1>2 DEF Watched, ReadyIsWatched
<1> QED
  BY <1>3, <1>4, <1>5, <1>6, <1>7, <1>8, <1>9, <1>10

LEMMA AfterSpawn ==
  ASSUME ShellIInv, NEW who, NEW others \in SUBSET chains, NEW ep \in Nat, ep >= sup.epoch,
         sup'.proc \in Pids, os[sup'.proc] = "none", os'[sup'.proc] \in {"failing", "booting"},
         \A q \in Pids \ {sup'.proc} : os'[q] = os[q],
         sup'.state = "starting", sup'.starting = sup'.proc, sup'.epoch = ep, ~sup'.stopping, sup'.armed = 0,
         shell'.rst \notin {"stop", "start"},
         chains' = others \union {Chain("health", sup'.proc, ep, who)},
         \A c \in others : c.at = "reap" \/ c.ep # ep,
         NoProcess(sup.proc) \/ sup.proc \in killed,
         UNCHANGED <<ticks, abandoned, killed>>
  PROVE  Ruled'
<1> DEFINE new == Chain("health", sup'.proc, ep, who)
<1> USE DEF ShellIInv, Ruled
<1>0. sup.epoch \in Nat /\ sup.proc \in Pids /\ chains \subseteq Calls /\ ticks \subseteq Checks
      /\ killed \subseteq Pids /\ abandoned \subseteq killed /\ 0 \notin Pids
  BY PidsFact DEF Typed, SupStates, Spawned
<1>1. new.at = "health" /\ new.p = sup'.proc /\ new.ep = ep /\ ~new.gone
  BY DEF Chain
<1>2. Entitled' \subseteq {new}
  BY DEF Entitled, StandsDown
<1> HIDE DEF new
<1>a. sup'.proc \notin killed /\ sup'.proc \notin abandoned /\ (\A t \in ticks : t.p # sup'.proc)
      /\ sup'.proc # sup.proc
  BY <1>0 DEF Spawned
<1>3. Spawned'
  <2>1. \A c \in chains : c.ep \in Nat /\ c.p \in Pids \union {0}
    BY <1>0 DEF Calls
  <2>2. chains' = others \union {new}
    BY DEF new
  <2>3. \A c \in chains' : c.ep <= ep /\ (c.p # 0 => os'[c.p] # "none") /\ (c.at = "health" => c.p # 0)
    BY <2>1, <2>2, <1>0, <1>1 DEF Spawned
  <2> QED
    BY <2>3, <1>0, <1>a DEF Spawned, Checks
<1>4. OneEntitled'
  BY <1>2 DEF OneEntitled
<1>5. SpawnAfterLoss'
  BY <1>1, <1>2 DEF SpawnAfterLoss
<1>6. StartupIsProc'
  <2>1. \A d \in chains : d.p # sup'.proc
    BY <1>0 DEF Spawned
  <2> QED
    BY <2>1, <1>1, <1>2, <1>a, <1>0 DEF StartupIsProc, new
<1>7. OneCheck'
  BY <1>a DEF OneCheck
<1>8. StopOutdates'
  BY DEF StopOutdates
<1>9. OnlyProcRuns'
  <2>1. NoProcess(sup.proc) => os[sup.proc] \notin Alive
    BY <1>0 DEF NoProcess, Alive
  <2> QED
    BY <2>1 DEF OnlyProcRuns
<1>10. Watched' /\ ReadyIsWatched'
  BY <1>1, <1>2 DEF Watched, ReadyIsWatched
<1> QED
  BY <1>3, <1>4, <1>5, <1>6, <1>7, <1>8, <1>9, <1>10

\* A step after which every call waits as it did before, returned, or knows that its process
\* is gone; f says what became of each.
LEMMA AfterLeaving ==
  ASSUME ShellIInv, OsAges, UNCHANGED <<ticks, abandoned, killed>>,
         sup'.proc = sup.proc, sup'.epoch = sup.epoch, sup'.stopping = sup.stopping,
         sup'.state = "ready" => sup.state = "ready",
         sup'.armed = sup.armed \/ (sup'.armed = 0 /\ (sup'.state # "ready" \/ sup.stopping)),
         NEW f, chains' \subseteq {f[c] : c \in chains},
         \A c \in chains : f[c].at = c.at /\ f[c].p = c.p /\ f[c].ep = c.ep /\ (c.gone => f[c].gone),
         \A c \in chains : f[c].gone /\ ~c.gone => c.p # sup.proc \/ NoProcess(sup.proc)',
         \/ sup'.starting = sup.starting
         \/ sup'.starting = 0 /\ \A c \in Entitled : c.at = "health" => f[c] \notin chains',
         shell'.rst \in {"stop", "start"} => sup.stopping, shell'.app = "up" => shell.app = "up",
         shell.app = "up" /\ ~sup.stopping /\ sup.proc \notin abandoned /\ NoProcess(sup.proc)' =>
            \/ os'[sup.proc] = os[sup.proc]
            \/ sup'.state # "ready" /\ \A c \in chains : c.at = "health" /\ c.p = sup.proc => f[c].gone
  PROVE  Ruled'
<1> USE DEF ShellIInv, Ruled
<1>0. sup.proc \in Pids /\ chains \subseteq Calls /\ ticks \subseteq Checks /\ killed \subseteq Pids /\ 0 \notin Pids
  BY PidsFact DEF Typed, SupStates, Spawned
<1>1. \A c \in Entitled' : \E d \in Entitled : c = f[d] /\ f[d] \in chains'
  BY DEF Entitled, StandsDown
<1>2. \A c \in chains : c.p \in Pids \union {0}
  BY <1>0 DEF Calls
<1>a. Entitled \subseteq chains
  BY DEF Entitled
<1>3. Spawned'
  <2>1. \A t \in ticks : os'[t.p] # "none" /\ (t.at = "kill" => t.p \in killed)
    BY <1>0 DEF Spawned, OsAges, Checks
  <2>2. \A c \in chains : c.p # 0 => os'[c.p] # "none"
    BY <1>2 DEF Spawned, OsAges
  <2>3. \A c \in chains' : /\ c.ep <= sup.epoch /\ (c.p # 0 => os'[c.p] # "none")
                           /\ c.at = "health" => c.p # 0
    BY <2>2 DEF Spawned
  <2>4. os'[sup.proc] # "none" /\ \A p \in killed : os'[p] # "none"
    BY <1>0 DEF Spawned, OsAges
  <2> QED
    BY <2>1, <2>3, <2>4, <1>0 DEF Spawned
<1>4. OneEntitled' /\ OneCheck'
  BY <1>1 DEF OneEntitled, OneCheck
<1>5. NoProcess(sup.proc) => NoProcess(sup.proc)'
  BY <1>0 DEF NoProcess, OsAges
<1>6. SpawnAfterLoss'
  BY <1>1, <1>5, <1>a DEF SpawnAfterLoss, Lost
<1>7. StartupIsProc'
  <2> SUFFICES ASSUME NEW c \in Entitled', c.at = "health"
               PROVE  /\ c.p = sup.proc /\ sup'.starting = sup.proc
                      /\ sup'.armed = 0 /\ sup.proc \notin abandoned
                      /\ \A t \in ticks : t.p # sup.proc
                      /\ \A d \in chains' : d.at = "health" /\ d.p = c.p => d = c
                      /\ c.gone => NoProcess(sup.proc)'
    BY DEF StartupIsProc, NoProcess
  <2>1. PICK c0 \in Entitled : c = f[c0] /\ f[c0] \in chains'
    BY <1>1
  <2>2. c0.at = "health" /\ c0.p = c.p
    BY <2>1, <1>a
  <2>3. \A d \in chains' : d.at = "health" /\ d.p = c.p => d = c
    BY <2>1, <2>2, <1>a DEF StartupIsProc
  <2>4. c.gone => NoProcess(sup.proc)'
    BY <2>1, <2>2, <1>5, <1>a DEF StartupIsProc
  <2> QED
    BY <2>1, <2>2, <2>3, <2>4 DEF StartupIsProc
<1>8. StopOutdates'
  BY <1>5 DEF StopOutdates
<1>9. OnlyProcRuns'
  BY DEF OnlyProcRuns, OsAges
<1>10. Watched'
  <2> SUFFICES ASSUME shell'.app = "up", ~sup.stopping PROVE Watched'
    BY DEF Watched
  <2>1. \A c \in Entitled' : c.at = "health" => c.gone \/ os'[c.p] \notin {"failed", "exited"}
    <3> SUFFICES ASSUME NEW c \in Entitled', c.at = "health", os'[c.p] \in {"failed", "exited"} PROVE c.gone
      OBVIOUS
    <3>1. PICK c0 \in Entitled : c = f[c0]
      BY <1>1
    <3>2. c0.at = "health" /\ c0.p = c.p /\ (c0.gone => c.gone) /\ c0 \in chains
      BY <3>1, <1>a
    <3>3. c.p = sup.proc /\ sup.proc \notin abandoned
      BY <3>2 DEF StartupIsProc
    <3>4. CASE os'[sup.proc] = os[sup.proc]
      BY <3>2, <3>3, <3>4 DEF Watched
    <3>5. CASE \A d \in chains : d.at = "health" /\ d.p = sup.proc => f[d].gone
      BY <3>1, <3>2, <3>3, <3>5
    <3> QED
      BY <3>3, <3>4, <3>5 DEF NoProcess
  <2>2. sup'.state = "ready" => sup'.starting # sup.proc
    BY <1>0 DEF Watched
  <2>3. \A c \in Entitled' : sup'.state # "ready"
    BY <1>1 DEF Watched
  <2> QED
    BY <2>1, <2>2, <2>3 DEF Watched
<1>11. ReadyIsWatched'
  <2> SUFFICES ASSUME sup'.state = "ready", ~sup.stopping, shell'.app = "up" PROVE ReadyIsWatched'
    BY DEF ReadyIsWatched
  <2>1. sup.proc \notin abandoned /\ ~NoProcess(sup.proc) /\ (sup.armed = sup.proc \/ \E t \in ticks : t.p = sup.proc)
    BY DEF ReadyIsWatched
  <2>2. ~NoProcess(sup.proc)'
    BY <2>1, <1>0 DEF NoProcess
  <2> QED
    BY <2>1, <2>2 DEF ReadyIsWatched
<1> QED
  BY <1>3, <1>4, <1>6, <1>7, <1>8, <1>9, <1>10, <1>11

\* A step of the liveness probe: what watches the process is armed, or a check, or neither.
LEMMA AfterChecks ==
  ASSUME ShellIInv, UNCHANGED <<chains, os, abandoned, sup.proc, sup.epoch, sup.stopping, sup.state, sup.starting,
                           shell.rst, shell.app>>,
         killed \subseteq killed', killed' \subseteq Pids, \A p \in killed' : os[p] # "none",
         \A t \in ticks' : t.p \in Pids /\ os[t.p] # "none" /\ (t.at = "kill" => t.p \in killed'),
         sup.stopping => sup'.armed = 0,
         sup'.armed # 0 => /\ sup'.armed = sup.proc
                           /\ sup.armed = sup.proc \/ (~NoProcess(sup.proc) /\ \E t \in ticks : t.p = sup.proc)
                           /\ \A t \in ticks' : t.p # sup.proc,
         \A t \in ticks' : t.p = sup.proc => sup.stopping \/ sup.armed = sup.proc \/ \E u \in ticks : u.p = sup.proc,
         \A t, u \in ticks' : t.p = sup.proc /\ u.p = sup.proc => t = u \/ sup.stopping,
         (sup.armed = sup.proc \/ \E t \in ticks : t.p = sup.proc) /\ ~NoProcess(sup.proc) /\ ~sup.stopping =>
            sup'.armed = sup.proc \/ \E t \in ticks' : t.p = sup.proc
  PROVE  Ruled'
<1> USE DEF ShellIInv, Ruled
<1>0. sup.proc \in Pids /\ 0 \notin Pids
  BY PidsFact DEF Typed, SupStates, Spawned
<1>1. Entitled' = Entitled
  BY DEF Entitled, StandsDown
<1>a. \A c \in Entitled : ~sup.stopping
  BY DEF Entitled, StandsDown
<1>3. Spawned'
  BY DEF Spawned
<1>4. OneEntitled'
  BY <1>1 DEF OneEntitled
<1>5. OneCheck'
  BY <1>0 DEF OneCheck
<1>6. SpawnAfterLoss'
  BY <1>0, <1>1, <1>a DEF SpawnAfterLoss, Lost, NoProcess, OneCheck
<1>7. StartupIsProc'
  BY <1>0, <1>1, <1>a DEF StartupIsProc, NoProcess
<1>8. StopOutdates'
  BY DEF StopOutdates, NoProcess
<1>9. OnlyProcRuns'
  BY DEF OnlyProcRuns
<1>10. Watched'
  BY <1>1 DEF Watched
<1>11. ReadyIsWatched'
  BY DEF ReadyIsWatched, NoProcess
<1> QED
  BY <1>3, <1>4, <1>5, <1>6, <1>7, <1>8, <1>9, <1>10, <1>11

\* stop() leaves every call behind.
LEMMA AfterStop ==
  ASSUME ShellIInv, UNCHANGED <<chains, ticks, os, abandoned, shell.app>>,
         sup' = StopCalled(sup), killed' = killed \union KilledBy(sup)
  PROVE  Ruled'
<1> USE DEF ShellIInv, Ruled
<1>0. sup.proc \in Pids /\ 0 \notin Pids /\ sup.epoch \in Nat /\ chains \subseteq Calls
  BY PidsFact DEF Typed, SupStates, Spawned
<1>1. sup' = [StopLiveness([sup EXCEPT !.stopping = TRUE, !.epoch = @ + 1])
                EXCEPT !.state = IF NoProcess(sup.proc) THEN "stopped" ELSE @]
  <2> DEFINE s1 == StopLiveness([sup EXCEPT !.stopping = TRUE, !.epoch = @ + 1])
  <2>1. s1 = [s1 EXCEPT !.state = @]
    BY DEF StopLiveness
  <2> HIDE DEF s1
  <2>2. sup' = IF NoProcess(sup.proc) THEN [s1 EXCEPT !.state = "stopped"] ELSE s1
    BY Zenon DEF StopCalled, s1
  <2> QED
    BY <2>1, <2>2 DEF s1
<1>2. /\ sup'.stopping /\ sup'.epoch = sup.epoch + 1 /\ sup'.armed = 0 /\ sup'.proc = sup.proc
  BY <1>1 DEF StopLiveness, Typed, SupStates
<1>3. \A c \in chains : c.ep \in Nat
  BY <1>0 DEF Calls
<1>4. Entitled' = {}
  BY <1>2 DEF Entitled, StandsDown
<1>5. Spawned'
  BY <1>0, <1>2, <1>3 DEF Spawned, KilledBy
<1>6. OneEntitled' /\ SpawnAfterLoss' /\ StartupIsProc'
  BY <1>4 DEF OneEntitled, SpawnAfterLoss, StartupIsProc
<1>7. OneCheck' /\ Watched' /\ ReadyIsWatched'
  BY <1>2 DEF OneCheck, Watched, ReadyIsWatched
<1>8. StopOutdates'
  BY <1>0, <1>2, <1>3 DEF StopOutdates, Spawned, KilledBy, NoProcess
<1>9. OnlyProcRuns'
  BY <1>2 DEF OnlyProcRuns
<1> QED
  BY <1>5, <1>6, <1>7, <1>8, <1>9
----------------------------------------------------------------------------
(* Types.                                                                  *)

LEMMA InitTyped == ShellInit => Typed
<1> SUFFICES ASSUME ShellInit PROVE Typed
  OBVIOUS
<1> USE ShellAssumption, PidsFact DEF ShellInit
<1>1. sup \in SupStates
  <2>1. 0 \in 0 .. MaxRestarts /\ 0 \in 0 .. (LivenessFailures - 1) /\ 1 \in Pids \union {0} /\ 0 \in Pids \union {0}
    OBVIOUS
  <2> QED
    BY <2>1 DEF SupStates, States
<1>2. shell \in ShellStates
  BY DEF ShellStates, Said
<1>3. chains \subseteq Calls
  BY DEF Calls, Chain, Waiters
<1>4. os \in [Pids -> OsStates] /\ quit \in [Quits -> QuitStates]
  BY DEF OsStates, QuitStates
<1> QED
  BY <1>1, <1>2, <1>3, <1>4 DEF Typed

\* The call that waits for a startup only learns that it is gone.
LEMMA StartupExitedFact ==
  ASSUME chains \subseteq Calls, NEW p
  PROVE  /\ StartupExited(p) \subseteq Calls
         /\ \A c \in StartupExited(p) : \E d \in chains :
               c = IF d.at = "health" /\ d.p = p THEN [d EXCEPT !.gone = TRUE] ELSE d
         /\ \A c \in StartupExited(p) : \E d \in chains :
               c.at = d.at /\ c.p = d.p /\ c.ep = d.ep /\ (d.gone \/ (c.at = "health" /\ c.p = p) => c.gone)
BY DEF StartupExited, Calls

LEMMA NextTyped == ShellIInv /\ [ShellNext]_shellVars => Typed'
<1> SUFFICES ASSUME Typed, Spawned, [ShellNext]_shellVars PROVE Typed'
  BY DEF ShellIInv, Ruled
<1> USE ShellAssumption, PidsFact DEF Typed
<1>a. /\ sup \in SupStates /\ shell \in ShellStates /\ chains \in SUBSET Calls
      /\ \A c \in chains : c.p \in Pids \union {0} /\ c.who \in Waiters /\ chains \ {c} \in SUBSET Calls
      /\ shell.reports \in Nat /\ sup.state \in States /\ sup.proc \in Pids \union {0}
      /\ sup.armed \in Pids \union {0} /\ sup.misses \in 0 .. (LivenessFailures - 1)
  BY DEF Calls, ShellStates, SupStates
<1>b. \A c \in chains : NotStarting(c) \in SupStates
  BY <1>a, NotStartingFact
<1>c. ASSUME NEW s \in SupStates PROVE StopCalled(s) \in SupStates
  <2> DEFINE s1 == StopLiveness([s EXCEPT !.stopping = TRUE, !.epoch = @ + 1])
  <2>1. s1 \in SupStates
    BY SupStop, SupStopLiveness
  <2>2. "stopped" \in States
    BY DEF States
  <2>3. StopCalled(s) \in {s1, [s1 EXCEPT !.state = "stopped"]}
    BY DEF StopCalled
  <2> HIDE DEF s1
  <2> QED
    BY <2>1, <2>2, <2>3, SupState
<1>d. KilledBy(sup) \subseteq Pids
  BY <1>a DEF KilledBy, NoProcess
<1>e. \A p : GiveUpOn(p) /\ Terminated(p) => faults' \in 0 .. MaxFaults
  BY DEF GiveUpOn, Terminated
<1>f. "ready" \in States /\ "stopped" \in States /\ "crashed" \in States
  BY DEF States
<1>1. ASSUME NEW p \in Pids, Boot(p) PROVE Typed'
  BY <1>1 DEF Boot, Running, Alive, ShellStates, Said, OsStates, QuitStates
<1>2. ASSUME NEW p \in Pids, Hang(p) PROVE Typed'
  BY <1>2 DEF Hang, Running, Alive, ShellStates, Said, OsStates, QuitStates
<1>3. ASSUME NEW p \in Pids, Revive(p) PROVE Typed'
  BY <1>3 DEF Revive, Running, Alive, ShellStates, Said, OsStates, QuitStates
<1>4. ASSUME NEW p \in Pids, RecordingStarts(p) PROVE Typed'
  BY <1>4 DEF RecordingStarts, Running, Alive, ShellStates, Said, OsStates, QuitStates
<1>5. ASSUME RecordingEnds PROVE Typed'
  BY <1>5 DEF RecordingEnds, Running, Alive, ShellStates, Said, OsStates, QuitStates
<1>6. ASSUME NEW p \in Pids, Exit(p) PROVE Typed'
  <2>1. /\ os' \in [Pids -> OsStates] /\ rec' \in Running' \union {0} /\ faults' \in 0 .. MaxFaults
        /\ UNCHANGED <<ticks, abandoned, killed, quit>>
    BY <1>6 DEF Exit, Running, Alive, OsStates
  <2>2. StopLiveness(sup) \in SupStates
    BY <1>a, SupStopLiveness
  <2>3. CASE UNCHANGED <<sup, shell, chains>>
    BY <2>1, <2>3, <1>a
  <2>4. CASE /\ sup' = [StopLiveness(sup) EXCEPT !.state = "stopped"]
             /\ chains' = IF sup.starting = p THEN StartupExited(p) ELSE chains
             /\ UNCHANGED shell
    <3>1. sup' \in SupStates
      BY <2>2, <2>4, <1>f, SupState
    <3> QED
      BY <2>1, <2>4, <3>1, <1>a, StartupExitedFact
  <2>5. CASE /\ sup' = StopLiveness(sup)
             /\ chains' = StartupExited(p)
             /\ shell' = LostWith(shell, p)
    BY <2>1, <2>2, <2>5, <1>a, LostWithFact, StartupExitedFact
  <2>6. CASE Unexpected(StopLiveness(sup), LostWith(shell, p), "exit", chains)
    <3>1. LostWith(shell, p) \in ShellStates /\ "exit" \in Waiters
      BY <1>a, LostWithFact DEF Waiters
    <3> QED
      BY <2>1, <2>2, <2>6, <3>1, <1>a, UnexpectedFact
  <2> QED
    BY <1>6, <2>3, <2>4, <2>5, <2>6 DEF Exit
<1>7. ASSUME NEW p \in Pids, SpawnError(p) PROVE Typed'
  <2>1. /\ os' \in [Pids -> OsStates] /\ rec' \in Running' \union {0} /\ UNCHANGED <<faults, ticks, abandoned, killed, quit>>
    BY <1>7 DEF SpawnError, Running, Alive, OsStates
  <2>2. [sup EXCEPT !.state = "stopped"] \in SupStates
    BY <1>a, <1>f, SupState
  <2>3. sup' \in SupStates /\ shell' \in ShellStates /\ chains' \subseteq Calls
    BY <1>7, <2>2, <1>a, StartupExitedFact DEF SpawnError
  <2> QED
    BY <2>1, <2>3
<1>8. ASSUME NEW c \in chains, HealthReady(c) PROVE Typed'
  <2>1. chains' \subseteq Calls /\ UNCHANGED <<ticks, abandoned, killed, os, rec, quit, faults>> /\ rec' \in Running' \union {0}
    BY <1>8, <1>a DEF HealthReady, Running
  <2>2. CASE sup' = NotStarting(c) /\ shell' = Returned(shell, c.who, sup.state)
    BY <2>1, <2>2, <1>a, <1>b, ReturnedFact
  <2>3. CASE /\ sup' = [NotStarting(c) EXCEPT !.state = "ready", !.armed = c.p, !.misses = 0, !.stable = TRUE]
             /\ shell' = Returned(Heard("ready", sup.restarts), c.who, "ready")
    <3>1. sup' \in SupStates
      BY <2>3, <1>a, <1>b, <1>f, SupReady
    <3>2. shell' \in ShellStates
      BY <2>3, <1>a, HeardFact, ReturnedFact DEF Kept
    <3> QED
      BY <2>1, <3>1, <3>2
  <2> QED
    BY <1>8, <2>2, <2>3 DEF HealthReady
<1>9. ASSUME NEW c \in chains, HealthGone(c) PROVE Typed'
  <2>1. UNCHANGED <<ticks, abandoned, killed, os, rec, quit, faults>> /\ rec' \in Running' \union {0}
    BY <1>9 DEF HealthGone, Running
  <2>2. CASE sup' = NotStarting(c) /\ chains' = chains \ {c} /\ shell' = Returned(shell, c.who, sup.state)
    BY <2>1, <2>2, <1>a, <1>b, ReturnedFact
  <2>3. CASE Unexpected(NotStarting(c), shell, c.who, chains \ {c})
    BY <2>1, <2>3, <1>a, <1>b, UnexpectedFact
  <2> QED
    BY <1>9, <2>2, <2>3 DEF HealthGone
<1>10. ASSUME NEW c \in chains, HealthTimeout(c) PROVE Typed'
  <2>1. /\ UNCHANGED <<ticks, os, rec, quit>> /\ rec' \in Running' \union {0} /\ faults' \in 0 .. MaxFaults
    BY <1>10 DEF HealthTimeout, Running
  <2>2. CASE /\ sup' = NotStarting(c) /\ chains' = chains \ {c} /\ shell' = Returned(shell, c.who, sup.state)
             /\ UNCHANGED <<abandoned, killed>>
    BY <2>1, <2>2, <1>a, <1>b, ReturnedFact
  <2>3. CASE /\ abandoned' = abandoned \union {c.p} /\ killed' = killed \union {c.p}
             /\ sup' = [NotStarting(c) EXCEPT !.state = "crashed"]
             /\ shell' = Heard("crashed", sup.restarts)
             /\ chains' = (chains \ {c}) \union {[c EXCEPT !.at = "reap"]}
    <3>1. sup' \in SupStates
      BY <2>3, <1>b, <1>f, SupState
    <3>2. shell' \in ShellStates
      BY <2>3, <1>a, HeardFact DEF Kept
    <3>3. chains' \subseteq Calls
      BY <2>3 DEF Calls
    <3>4. c.p \in Pids
      BY <1>10, <1>a DEF HealthTimeout, Spawned
    <3> QED
      BY <2>1, <2>3, <3>1, <3>2, <3>3, <3>4
  <2> QED
    BY <1>10, <2>2, <2>3 DEF HealthTimeout
<1>11. ASSUME NEW c \in chains, Reaped(c) PROVE Typed'
  <2>1. faults' \in 0 .. MaxFaults
    BY <1>11, <1>e DEF Reaped
  <2>2. shell' \in ShellStates /\ chains' \subseteq Calls
    BY <1>11, <1>a, ReturnedFact DEF Reaped
  <2> QED
    BY <1>11, <2>1, <2>2 DEF Reaped, Running
<1>12. ASSUME NEW c \in chains, BackoffOver(c) PROVE Typed'
  <2>1. CASE /\ chains' = chains \ {c} /\ shell' = Returned(shell, c.who, sup.state)
             /\ UNCHANGED <<sup, os, faults>>
    BY <1>12, <2>1, <1>a, ReturnedFact DEF BackoffOver, Running
  <2>2. CASE SpawnAndWait(sup, shell, c.who, chains \ {c})
    <3>1. /\ sup' \in SupStates /\ shell' \in ShellStates /\ chains' \subseteq Calls
          /\ os' \in [Pids -> OsStates] /\ faults' \in 0 .. MaxFaults
          /\ os[sup'.proc] = "none" /\ \A q \in Pids \ {sup'.proc} : os'[q] = os[q]
      BY <2>2, <1>a, SpawnFact
    <3>2. rec' \in Running' \union {0}
      BY <1>12, <3>1 DEF BackoffOver, Running, Alive
    <3> QED
      BY <1>12, <3>1, <3>2 DEF BackoffOver
  <2> QED
    BY <1>12, <2>1, <2>2 DEF BackoffOver
<1>13. ASSUME Stabilised PROVE Typed'
  BY <1>13, <1>a, SupStable DEF Stabilised, Running
<1>14. ASSUME TickFires PROVE Typed'
  <2>1. sup' \in SupStates
    <3>1. 0 \in Pids \union {0} /\ 0 \in 0 .. (LivenessFailures - 1)
      OBVIOUS
    <3> QED
      BY <1>14, <3>1, <1>a, SupArmed DEF TickFires
  <2>2. ticks' \subseteq Checks
    BY <1>14, <1>a DEF TickFires, Checks
  <2> QED
    BY <1>14, <2>1, <2>2 DEF TickFires, Running
<1>15. ASSUME NEW t \in ticks, NEW ok \in BOOLEAN, ProbeReturns(t, ok) PROVE Typed'
  <2> DEFINE misses == IF ok THEN 0 ELSE t.misses + 1
  <2>0. t \in Checks /\ t.p \in Pids /\ misses \in Nat
    BY DEF Checks
  <2>1. sup' \in SupStates
    <3>1. CASE UNCHANGED sup
      BY <3>1
    <3>2. CASE misses < LivenessFailures /\ sup' = [sup EXCEPT !.armed = t.p, !.misses = misses]
      <4>1. misses \in 0 .. (LivenessFailures - 1) /\ t.p \in Pids \union {0}
        BY <3>2, <2>0
      <4> HIDE DEF misses
      <4> QED
        BY <3>2, <4>1, <1>a, SupArmed
    <3> QED
      BY <1>15, <3>1, <3>2 DEF ProbeReturns
  <2>2. ticks' \subseteq Checks /\ killed' \subseteq Pids /\ killed \subseteq killed'
    <3>1. [at |-> "kill", p |-> t.p, misses |-> 0] \in Checks
      BY <2>0 DEF Checks
    <3> QED
      BY <1>15, <2>0, <3>1 DEF ProbeReturns
  <2> QED
    BY <1>15, <2>1, <2>2 DEF ProbeReturns, Running
<1>16. ASSUME NEW t \in ticks, KillReturns(t) PROVE Typed'
  <2>1. /\ faults' \in 0 .. MaxFaults /\ UNCHANGED <<killed, os, rec, quit>> /\ ticks' \subseteq Checks
        /\ rec' \in Running' \union {0}
    BY <1>16, <1>e DEF KillReturns, Running
  <2>2. CASE UNCHANGED <<sup, shell, chains, abandoned>>
    BY <2>1, <2>2
  <2>3. CASE /\ abandoned' = abandoned \union {t.p}
             /\ Unexpected(StopLiveness(sup), LostWith(shell, t.p), "exit", chains)
    <3>1. StopLiveness(sup) \in SupStates /\ LostWith(shell, t.p) \in ShellStates /\ "exit" \in Waiters
      BY <1>a, SupStopLiveness, LostWithFact DEF Waiters
    <3>2. sup' \in SupStates /\ shell' \in ShellStates /\ chains' \subseteq Calls
      BY <2>3, <3>1, <1>a, UnexpectedFact
    <3>3. t.p \in killed
      BY <1>16 DEF KillReturns, Spawned
    <3> QED
      BY <2>1, <2>3, <3>2, <3>3
  <2> QED
    BY <1>16, <2>2, <2>3 DEF KillReturns
<1>17. ASSUME RestartClick PROVE Typed'
  <2>1. shell.clicks + 1 \in Nat
    BY DEF ShellStates
  <2>2. shell' \in ShellStates
    BY <1>17, <2>1 DEF RestartClick, ShellStates
  <2> QED
    BY <1>17, <2>2 DEF RestartClick, Running
<1>18. ASSUME NEW said \in Said, RestartAnswer(said) PROVE Typed'
  <2>1. CASE shell' = [shell EXCEPT !.rst = "no"] /\ UNCHANGED <<sup, killed>>
    BY <1>18, <2>1 DEF RestartAnswer, Running, ShellStates
  <2>2. CASE shell' = [shell EXCEPT !.rst = "dialog"] /\ UNCHANGED <<sup, killed>>
    BY <1>18, <2>2 DEF RestartAnswer, Running, ShellStates
  <2>3. CASE Go(said)
    <3>1. sup' \in SupStates
      BY <2>3, <1>a, <1>c DEF Go
    <3>2. shell' \in ShellStates
      BY <2>3, <1>a DEF Go, ShellStates, Said
    <3>3. killed' \subseteq Pids /\ killed \subseteq killed'
      BY <2>3, <1>d DEF Go
    <3> QED
      BY <1>18, <3>1, <3>2, <3>3 DEF RestartAnswer, Running
  <2> QED
    BY <1>18, <2>1, <2>2, <2>3 DEF RestartAnswer
<1>19. ASSUME NEW yes \in BOOLEAN, RestartDialog(yes) PROVE Typed'
  BY <1>19 DEF RestartDialog, Running, Alive, ShellStates, Said, OsStates, QuitStates
<1>20. ASSUME NEW said \in Said, RestartRecheck(said) PROVE Typed'
  <2>1. CASE shell' = [shell EXCEPT !.rst = "no"] /\ UNCHANGED <<sup, killed>>
    BY <1>20, <2>1 DEF RestartRecheck, Running, ShellStates
  <2>2. CASE shell' = [shell EXCEPT !.rst = "dialog"] /\ UNCHANGED <<sup, killed>>
    BY <1>20, <2>2 DEF RestartRecheck, Running, ShellStates
  <2>3. CASE Go(said)
    <3>1. sup' \in SupStates
      BY <2>3, <1>a, <1>c DEF Go
    <3>2. shell' \in ShellStates
      BY <2>3, <1>a DEF Go, ShellStates, Said
    <3>3. killed' \subseteq Pids /\ killed \subseteq killed'
      BY <2>3, <1>d DEF Go
    <3> QED
      BY <1>20, <3>1, <3>2, <3>3 DEF RestartRecheck, Running
  <2> QED
    BY <1>20, <2>1, <2>2, <2>3 DEF RestartRecheck
<1>21. ASSUME RestartStopped PROVE Typed'
  <2>1. faults' \in 0 .. MaxFaults
    BY <1>21, <1>e DEF RestartStopped
  <2>2. sup' \in SupStates
    BY <1>21, <1>a, <1>f, SupState DEF RestartStopped
  <2>3. shell' \in ShellStates
    BY <1>21 DEF RestartStopped, ShellStates
  <2> QED
    BY <1>21, <2>1, <2>2, <2>3 DEF RestartStopped, Running
<1>22. ASSUME RestartStarts PROVE Typed'
  <2> DEFINE s == [sup EXCEPT !.stopping = FALSE, !.epoch = @ + 1, !.restarts = 0]
             sh == [shell EXCEPT !.rst = "wait"]
  <2>1. s \in SupStates /\ "restart" \in Waiters
    BY <1>a, SupStart DEF Waiters
  <2>2. sh \in ShellStates
    BY DEF ShellStates
  <2>3. SpawnAndWait(s, sh, "restart", chains)
    BY <1>22 DEF RestartStarts
  <2> HIDE DEF s, sh
  <2>4. /\ sup' \in SupStates /\ shell' \in ShellStates /\ chains' \subseteq Calls
        /\ os' \in [Pids -> OsStates] /\ faults' \in 0 .. MaxFaults
        /\ os[sup'.proc] = "none" /\ \A q \in Pids \ {sup'.proc} : os'[q] = os[q]
    BY <2>1, <2>2, <2>3, <1>a, SpawnFact
  <2>5. rec' \in Running' \union {0}
    BY <1>22, <2>4 DEF RestartStarts, Running, Alive
  <2> QED
    BY <1>22, <2>4, <2>5 DEF RestartStarts
<1>23. ASSUME NEW i \in Quits, QuitClick(i) PROVE Typed'
  BY <1>23 DEF QuitClick, Running, Alive, ShellStates, Said, OsStates, QuitStates
<1>24. ASSUME NEW i \in Quits, NEW said \in Said, QuitAnswer(i, said) PROVE Typed'
  BY <1>24 DEF QuitAnswer, Running, Alive, ShellStates, Said, OsStates, QuitStates
<1>25. ASSUME NEW i \in Quits, NEW yes \in BOOLEAN, QuitDialog(i, yes) PROVE Typed'
  BY <1>25 DEF QuitDialog, Running, Alive, ShellStates, Said, OsStates, QuitStates
<1>26. ASSUME NEW i \in Quits, BeforeQuit(i) PROVE Typed'
  <2>1. CASE shell' = [shell EXCEPT !.app = "closing"] /\ UNCHANGED <<sup, quit, killed>>
    BY <1>26, <2>1 DEF BeforeQuit, Running, ShellStates
  <2>2. CASE /\ sup' = StopCalled(sup) /\ killed' = killed \union KilledBy(sup)
             /\ quit' = [quit EXCEPT ![i] = [at |-> "stop", p |-> sup.proc]]
             /\ UNCHANGED shell
    <3>1. sup' \in SupStates
      BY <2>2, <1>a, <1>c
    <3>2. quit' \in [Quits -> QuitStates]
      BY <2>2, <1>a DEF QuitStates
    <3> QED
      BY <1>26, <2>2, <3>1, <3>2, <1>d DEF BeforeQuit, Running
  <2> QED
    BY <1>26, <2>1, <2>2 DEF BeforeQuit
<1>27. ASSUME NEW i \in Quits, QuitStopped(i) PROVE Typed'
  <2>1. faults' \in 0 .. MaxFaults
    BY <1>27, <1>e DEF QuitStopped
  <2>2. sup' \in SupStates
    BY <1>27, <1>a, <1>f, SupState DEF QuitStopped
  <2>3. quit' \in [Quits -> QuitStates]
    BY <1>27 DEF QuitStopped, QuitStates
  <2> QED
    BY <1>27, <2>1, <2>2, <2>3 DEF QuitStopped, Running
<1>28. ASSUME AppGone PROVE Typed'
  BY <1>28 DEF AppGone, Running, Alive, ShellStates, Said, OsStates, QuitStates
<1>29. ASSUME UNCHANGED shellVars PROVE Typed'
  BY <1>29 DEF shellVars, Running
<1> QED
  BY <1>1, <1>2, <1>3, <1>4, <1>5, <1>6, <1>7, <1>8, <1>9, <1>10, <1>11, <1>12, <1>13, <1>14, <1>15, <1>16, <1>17, <1>18, <1>19, <1>20, <1>21, <1>22, <1>23, <1>24, <1>25, <1>26, <1>27, <1>28, <1>29 DEF ShellNext, SupervisorStep, OperatorStep, RestartStep,
     QuitStep, ProcessStep, Said

----------------------------------------------------------------------------
(* The invariant.                                                          *)

LEMMA InitRuled == ShellInit => Ruled
<1> SUFFICES ASSUME ShellInit PROVE Ruled
  OBVIOUS
<1> USE PidsFact DEF ShellInit
<1>1. /\ sup.state = "starting" /\ sup.proc = 1 /\ sup.epoch = 1 /\ sup.starting = 1 /\ sup.armed = 0
      /\ sup.stopping = FALSE /\ shell.rst = "no" /\ os[1] = "booting" /\ \A p \in Pids \ {1} : os[p] = "none"
  OBVIOUS
<1>2. \A c \in chains : c.at = "health" /\ c.p = 1 /\ c.ep = 1 /\ ~c.gone
  BY DEF Chain
<1>3. \A c, d \in chains : c = d
  OBVIOUS
<1>4. Entitled \subseteq chains
  BY DEF Entitled
<1>5. Spawned
  BY <1>1, <1>2 DEF Spawned
<1>6. OneEntitled /\ SpawnAfterLoss /\ StartupIsProc /\ OneCheck /\ StopOutdates
  BY <1>1, <1>2, <1>3, <1>4 DEF OneEntitled, SpawnAfterLoss, StartupIsProc, OneCheck, StopOutdates
<1>7. OnlyProcRuns /\ Watched /\ ReadyIsWatched
  BY <1>1, <1>2, <1>4 DEF OnlyProcRuns, Alive, Watched, ReadyIsWatched
<1> QED
  BY <1>5, <1>6, <1>7 DEF Ruled

\* A step of the processes, of the operator or of a quit that does not concern the supervisor.
LEMMA AfterNothing ==
  ASSUME ShellIInv, OsAges, UNCHANGED <<sup, chains, ticks, abandoned, killed>>,
         shell'.rst \in {"stop", "start"} => sup.stopping, shell'.app = "up" => shell.app = "up",
         shell.app = "up" /\ ~sup.stopping /\ sup.proc \notin abandoned /\ NoProcess(sup.proc)' =>
            os'[sup.proc] = os[sup.proc]
  PROVE  Ruled'
<1> DEFINE f == [c \in chains |-> c]
<1>1. chains' \subseteq {f[c] : c \in chains} /\ \A c \in chains : f[c] = c
  OBVIOUS
<1> HIDE DEF f
<1> QED
  BY <1>1, AfterLeaving

\* A call that is not entitled to go on returns.
LEMMA AfterReturn ==
  ASSUME ShellIInv, UNCHANGED <<ticks, abandoned, killed, os>>, NEW c \in chains, c \notin Entitled,
         sup' = sup \/ (sup' = NotStarting(c) /\ c.at = "health"), chains' = chains \ {c},
         shell'.rst \in {shell.rst, "no"}, shell'.app = shell.app
  PROVE  Ruled'
<1> USE DEF ShellIInv, Ruled
<1> DEFINE f == [d \in chains |-> d]
<1>1. chains' \subseteq {f[d] : d \in chains} /\ \A d \in chains : f[d] = d
  OBVIOUS
<1> HIDE DEF f
<1>2. /\ sup'.proc = sup.proc /\ sup'.epoch = sup.epoch /\ sup'.stopping = sup.stopping
      /\ sup'.state = sup.state /\ sup'.armed = sup.armed
      /\ sup'.starting = sup.starting \/ (sup'.starting = 0 /\ sup.starting = c.p /\ c.at = "health")
  BY DEF NotStarting, Typed, SupStates
<1>3. OsAges
  BY DEF OsAges
<1>4. shell'.rst \in {"stop", "start"} => sup.stopping
  BY DEF StopOutdates
<1>5. sup.starting = c.p /\ c.at = "health" => \A d \in Entitled : d.at # "health"
  BY DEF StartupIsProc
<1> QED
  BY <1>1, <1>2, <1>3, <1>4, <1>5, AfterLeaving
LEMMA NextRuled == ShellIInv /\ [ShellNext]_shellVars => Ruled'
<1> SUFFICES ASSUME ShellIInv, [ShellNext]_shellVars PROVE Ruled'
  OBVIOUS
<1> USE PidsFact DEF ShellIInv, Ruled
<1>a. /\ sup.proc \in Pids /\ 0 \notin Pids /\ shell \in ShellStates
      /\ shell.rst \in {"stop", "start"} => sup.stopping
  BY DEF Typed, SupStates, Spawned, StopOutdates
<1>1. ASSUME NEW p \in Pids, Boot(p) PROVE Ruled'
  <2>1. OsAges
    BY <1>1 DEF Boot, OsAges, Alive, Typed, OsStates
  <2>2. /\ UNCHANGED <<sup, chains, ticks, abandoned, killed>> /\ (shell'.rst \in {"stop", "start"} => sup.stopping)
        /\ shell'.app = "up" => shell.app = "up"
    BY <1>1 DEF Boot, Typed, ShellStates, StopOutdates
  <2>3. NoProcess(sup.proc)' => os'[sup.proc] = os[sup.proc]
    BY <1>1, <1>a DEF Boot, NoProcess, Typed, OsStates
  <2> QED
    BY <2>1, <2>2, <2>3, AfterNothing
<1>2. ASSUME NEW p \in Pids, Hang(p) PROVE Ruled'
  <2>1. OsAges
    BY <1>2 DEF Hang, OsAges, Alive, Typed, OsStates
  <2>2. /\ UNCHANGED <<sup, chains, ticks, abandoned, killed>> /\ (shell'.rst \in {"stop", "start"} => sup.stopping)
        /\ shell'.app = "up" => shell.app = "up"
    BY <1>2 DEF Hang, Typed, ShellStates, StopOutdates
  <2>3. NoProcess(sup.proc)' => os'[sup.proc] = os[sup.proc]
    BY <1>2, <1>a DEF Hang, NoProcess, Typed, OsStates
  <2> QED
    BY <2>1, <2>2, <2>3, AfterNothing
<1>3. ASSUME NEW p \in Pids, Revive(p) PROVE Ruled'
  <2>1. OsAges
    BY <1>3 DEF Revive, OsAges, Alive, Typed, OsStates
  <2>2. /\ UNCHANGED <<sup, chains, ticks, abandoned, killed>> /\ (shell'.rst \in {"stop", "start"} => sup.stopping)
        /\ shell'.app = "up" => shell.app = "up"
    BY <1>3 DEF Revive, Typed, ShellStates, StopOutdates
  <2>3. NoProcess(sup.proc)' => os'[sup.proc] = os[sup.proc]
    BY <1>3, <1>a DEF Revive, NoProcess, Typed, OsStates
  <2> QED
    BY <2>1, <2>2, <2>3, AfterNothing
<1>4. ASSUME NEW p \in Pids, RecordingStarts(p) PROVE Ruled'
  <2>1. OsAges
    BY <1>4 DEF RecordingStarts, OsAges, Alive, Typed, OsStates
  <2>2. /\ UNCHANGED <<sup, chains, ticks, abandoned, killed>> /\ (shell'.rst \in {"stop", "start"} => sup.stopping)
        /\ shell'.app = "up" => shell.app = "up"
    BY <1>4 DEF RecordingStarts, Typed, ShellStates, StopOutdates
  <2>3. NoProcess(sup.proc)' => os'[sup.proc] = os[sup.proc]
    BY <1>4, <1>a DEF RecordingStarts, NoProcess, Typed, OsStates
  <2> QED
    BY <2>1, <2>2, <2>3, AfterNothing
<1>5. ASSUME RecordingEnds PROVE Ruled'
  <2>1. OsAges
    BY <1>5 DEF RecordingEnds, OsAges, Alive, Typed, OsStates
  <2>2. /\ UNCHANGED <<sup, chains, ticks, abandoned, killed>> /\ (shell'.rst \in {"stop", "start"} => sup.stopping)
        /\ shell'.app = "up" => shell.app = "up"
    BY <1>5 DEF RecordingEnds, Typed, ShellStates, StopOutdates
  <2>3. NoProcess(sup.proc)' => os'[sup.proc] = os[sup.proc]
    BY <1>5, <1>a DEF RecordingEnds, NoProcess, Typed, OsStates
  <2> QED
    BY <2>1, <2>2, <2>3, AfterNothing
<1>6. ASSUME NEW p \in Pids, Exit(p) PROVE Ruled'
  <2>1. OsAges /\ UNCHANGED <<ticks, abandoned, killed>>
    BY <1>6 DEF Exit, OsAges, Alive, Typed, OsStates
  <2>2. \A q \in Pids \ {p} : os'[q] = os[q]
    BY <1>6 DEF Exit, Typed
  <2>3. os[p] \in Alive /\ ~NoProcess(p) /\ os'[p] = "exited"
    BY <1>6, <1>a DEF Exit, Alive, NoProcess, Typed
  <2>b. sup'.proc = p => NoProcess(sup.proc)' \/ sup'.proc # sup.proc
    BY <2>3 DEF NoProcess
  <2>4. /\ StopLiveness(sup).proc = sup.proc /\ StopLiveness(sup).epoch = sup.epoch
        /\ StopLiveness(sup).stopping = sup.stopping /\ StopLiveness(sup).armed = 0
        /\ StopLiveness(sup).starting = sup.starting /\ StopLiveness(sup).state = sup.state
        /\ StopLiveness(sup) \in SupStates
    BY SupStopLiveness DEF StopLiveness, Typed, SupStates
  <2>5. CASE (Stale(p) \/ shell.app # "up") /\ UNCHANGED <<sup, shell, chains>>
    <3>1. shell.app = "up" /\ sup.proc \notin abandoned => os'[sup.proc] = os[sup.proc]
      BY <2>2, <2>5, <1>a DEF Stale
    <3> QED
      BY <2>1, <2>5, <3>1, <1>a, AfterNothing
  <2>6. CASE /\ ~Stale(p) /\ sup.stopping
             /\ sup' = [StopLiveness(sup) EXCEPT !.state = "stopped"]
             /\ chains' = IF sup.starting = p THEN StartupExited(p) ELSE chains
             /\ UNCHANGED shell
    <3> DEFINE f == [c \in chains |-> IF sup.starting = p /\ c.at = "health" /\ c.p = p THEN [c EXCEPT !.gone = TRUE] ELSE c]
    <3>1. chains' \subseteq {f[c] : c \in chains}
      BY <2>6 DEF StartupExited
    <3>2. \A c \in chains : /\ f[c].at = c.at /\ f[c].p = c.p /\ f[c].ep = c.ep /\ (c.gone => f[c].gone)
                            /\ f[c].gone /\ ~c.gone => c.p = p
      BY DEF Typed, Calls
    <3>3. /\ sup'.proc = sup.proc /\ sup'.epoch = sup.epoch /\ sup'.stopping = sup.stopping /\ sup'.state = "stopped"
          /\ sup'.armed = 0 /\ sup'.starting = sup.starting
      BY <2>4, <2>6 DEF SupStates
    <3> HIDE DEF f
    <3> QED
      BY <2>1, <2>b, <2>6, <3>1, <3>2, <3>3, <1>a, AfterLeaving
  <2>7. CASE /\ ~Stale(p) /\ ~sup.stopping /\ sup.starting = p /\ shell.app = "up"
             /\ sup' = StopLiveness(sup) /\ chains' = StartupExited(p) /\ shell' = LostWith(shell, p)
    <3> DEFINE f == [c \in chains |-> IF c.at = "health" /\ c.p = p THEN [c EXCEPT !.gone = TRUE] ELSE c]
    <3>1. chains' \subseteq {f[c] : c \in chains}
      BY <2>7 DEF StartupExited
    <3>2. \A c \in chains : /\ f[c].at = c.at /\ f[c].p = c.p /\ f[c].ep = c.ep /\ (c.gone => f[c].gone)
                            /\ c.at = "health" /\ c.p = p => f[c].gone
                            /\ f[c].gone /\ ~c.gone => c.p = p
      BY DEF Typed, Calls
    <3>3. shell.app = "up" /\ sup.proc = p
      BY <1>6, <2>7 DEF Exit, Stale
    <3>4. sup.state # "ready"
      BY <2>7, <3>3 DEF Watched
    <3>5. shell'.rst = shell.rst /\ shell'.app = shell.app
      BY <2>7, LostWithFact DEF Typed
    <3> HIDE DEF f
    <3> QED
      BY <2>1, <2>b, <2>4, <2>7, <3>1, <3>2, <3>3, <3>4, <3>5, <1>a, AfterLeaving
  <2>8. CASE /\ ~Stale(p) /\ ~sup.stopping /\ sup.starting # p
             /\ Unexpected(StopLiveness(sup), LostWith(shell, p), "exit", chains)
    <3>1. LostWith(shell, p) \in ShellStates /\ LostWith(shell, p).rst = shell.rst /\ LostWith(shell, p).app = shell.app
          /\ "exit" \in Waiters /\ chains \in SUBSET Calls
      BY LostWithFact DEF Waiters, Typed
    <3>2. /\ sup'.state \in {"crashed", "restarting"} /\ sup'.proc = sup.proc /\ sup'.epoch = sup.epoch
          /\ sup'.stopping = sup.stopping /\ sup'.armed = 0
          /\ shell'.rst \in {shell.rst, "no"} /\ shell'.app = shell.app
          /\ chains' \subseteq chains \union {Chain("backoff", 0, sup.epoch, "exit")}
      BY <2>4, <2>8, <3>1, UnexpectedFact
    <3>3. sup.proc = p /\ p \notin abandoned
      BY <2>8 DEF Stale
    <3>4. Entitled = {}
      <4>1. \A c \in Entitled : c.at # "health"
        BY <2>8, <3>3 DEF StartupIsProc
      <4>2. \A c \in Entitled : c.at # "backoff"
        BY <2>3, <3>3 DEF SpawnAfterLoss, Lost
      <4>3. \A c \in Entitled : c.at \in {"health", "backoff"}
        BY DEF Entitled, Typed, Calls
      <4> QED
        BY <4>1, <4>2, <4>3
    <3>5. \A c \in chains : c.at = "reap" \/ c.ep # sup.epoch
      BY <2>8, <3>4 DEF Entitled, StandsDown
    <3>6. NoProcess(sup.proc)'
      BY <1>6, <3>2, <3>3 DEF Exit, NoProcess, Typed
    <3>7. \A t \in ticks' : t.p = sup.proc => sup.proc \notin abandoned'
      BY <2>1, <3>3
    <3> QED
      BY <2>1, <2>8, <3>2, <3>5, <3>6, <3>7, AfterUnexpected
  <2> QED
    BY <1>6, <2>5, <2>6, <2>7, <2>8 DEF Exit
<1>7. ASSUME NEW p \in Pids, SpawnError(p) PROVE Ruled'
  <2>1. OsAges /\ UNCHANGED <<ticks, abandoned, killed>>
    BY <1>7 DEF SpawnError, OsAges, Alive, Typed, OsStates
  <2>2. \A q \in Pids \ {p} : os'[q] = os[q]
    BY <1>7 DEF SpawnError, Typed
  <2>3. os[p] = "failing" /\ NoProcess(p) /\ shell.app = "up" /\ os'[p] = "failed"
    BY <1>7 DEF SpawnError, NoProcess, Typed
  <2>b. sup'.proc = p => NoProcess(sup.proc)' \/ sup'.proc # sup.proc
    BY <2>3 DEF NoProcess
  <2>4. CASE Stale(p) /\ UNCHANGED <<sup, shell, chains>>
    <3>1. sup.proc \notin abandoned => os'[sup.proc] = os[sup.proc]
      BY <2>2, <2>4, <1>a DEF Stale
    <3> QED
      BY <2>1, <2>4, <3>1, <1>a, AfterNothing
  <2>5. CASE ~Stale(p) /\ sup.stopping /\ sup' = [sup EXCEPT !.state = "stopped"] /\ UNCHANGED <<shell, chains>>
    <3> DEFINE f == [c \in chains |-> c]
    <3>1. chains' \subseteq {f[c] : c \in chains} /\ \A c \in chains : f[c] = c
      BY <2>5
    <3>2. /\ sup'.proc = sup.proc /\ sup'.epoch = sup.epoch /\ sup'.stopping = sup.stopping /\ sup'.state = "stopped"
          /\ sup'.armed = sup.armed /\ sup'.starting = sup.starting
      BY <2>5 DEF Typed, SupStates
    <3> HIDE DEF f
    <3> QED
      BY <2>1, <2>5, <3>1, <3>2, <1>a, AfterLeaving
  <2>6. CASE ~Stale(p) /\ ~sup.stopping /\ chains' = StartupExited(p) /\ UNCHANGED <<sup, shell>>
    <3> DEFINE f == [c \in chains |-> IF c.at = "health" /\ c.p = p THEN [c EXCEPT !.gone = TRUE] ELSE c]
    <3>1. chains' \subseteq {f[c] : c \in chains}
      BY <2>6 DEF StartupExited
    <3>2. \A c \in chains : /\ f[c].at = c.at /\ f[c].p = c.p /\ f[c].ep = c.ep /\ (c.gone => f[c].gone)
                            /\ c.at = "health" /\ c.p = p => f[c].gone
                            /\ f[c].gone /\ ~c.gone => c.p = p
      BY DEF Typed, Calls
    <3>3. sup.proc = p
      BY <2>6 DEF Stale
    <3>4. sup.state # "ready"
      BY <2>3, <2>6, <3>3 DEF ReadyIsWatched
    <3> HIDE DEF f
    <3> QED
      BY <2>1, <2>b, <2>6, <3>1, <3>2, <3>3, <3>4, <1>a, AfterLeaving
  <2> QED
    BY <1>7, <2>4, <2>5, <2>6 DEF SpawnError
<1>8. ASSUME NEW c \in chains, HealthReady(c) PROVE Ruled'
  <2>1. chains' = chains \ {c} /\ c.at = "health" /\ ~c.gone /\ os[c.p] # "failing"
        /\ UNCHANGED <<ticks, abandoned, killed, os>>
    BY <1>8 DEF HealthReady
  <2>2. CASE StandsDown(c) /\ sup' = NotStarting(c) /\ shell' = Returned(shell, c.who, sup.state)
    BY <2>1, <2>2, <1>a, ReturnedFact, AfterReturn DEF Entitled
  <2>3. CASE /\ ~StandsDown(c)
             /\ sup' = [NotStarting(c) EXCEPT !.state = "ready", !.armed = c.p, !.misses = 0, !.stable = TRUE]
             /\ shell' = Returned(Heard("ready", sup.restarts), c.who, "ready")
    <3>1. c \in Entitled /\ ~sup.stopping
      BY <2>1, <2>3 DEF Entitled, StandsDown
    <3>2. /\ c.p = sup.proc /\ sup.starting = sup.proc /\ sup.proc \notin abandoned
          /\ \A t \in ticks : t.p # sup.proc
      BY <2>1, <3>1 DEF StartupIsProc
    <3>3. /\ sup'.proc = sup.proc /\ sup'.epoch = sup.epoch /\ sup'.stopping = sup.stopping
          /\ sup'.starting = 0 /\ sup'.armed = sup.proc
      BY <2>3, <3>2 DEF NotStarting, Typed, SupStates
    <3>4. shell'.rst \in {shell.rst, "no"} /\ shell'.app = shell.app
      BY <2>3, <1>a, HeardFact, ReturnedFact DEF Kept
    <3>5. Entitled' = {}
      BY <2>1, <3>1, <3>3 DEF OneEntitled, Entitled, StandsDown
    <3>6. shell.app = "up" => ~NoProcess(sup.proc)
      BY <2>1, <3>1, <3>2, <1>a DEF Watched, NoProcess
    <3>7. Spawned'
      BY <2>1, <3>3 DEF Spawned
    <3>8. OneEntitled' /\ SpawnAfterLoss' /\ StartupIsProc'
      BY <3>5 DEF OneEntitled, SpawnAfterLoss, StartupIsProc
    <3>9. OneCheck' /\ StopOutdates'
      BY <2>1, <3>1, <3>2, <3>3, <3>4 DEF OneCheck, StopOutdates
    <3>10. OnlyProcRuns'
      BY <2>1, <3>3 DEF OnlyProcRuns
    <3>11. Watched' /\ ReadyIsWatched'
      BY <2>1, <3>2, <3>3, <3>4, <3>5, <3>6, <1>a DEF Watched, ReadyIsWatched, NoProcess
    <3> QED
      BY <3>7, <3>8, <3>9, <3>10, <3>11
  <2> QED
    BY <1>8, <2>2, <2>3 DEF HealthReady
<1>9. ASSUME NEW c \in chains, HealthGone(c) PROVE Ruled'
  <2>1. c.at = "health" /\ UNCHANGED <<ticks, abandoned, killed, os>>
    BY <1>9 DEF HealthGone
  <2>2. CASE StandsDown(c) /\ sup' = NotStarting(c) /\ chains' = chains \ {c} /\ shell' = Returned(shell, c.who, sup.state)
    BY <2>1, <2>2, <1>a, ReturnedFact, AfterReturn DEF Entitled
  <2>3. CASE ~StandsDown(c) /\ Unexpected(NotStarting(c), shell, c.who, chains \ {c})
    <3>1. c \in Entitled /\ ~sup.stopping
      BY <2>1, <2>3 DEF Entitled, StandsDown
    <3>2. /\ sup.armed = 0 /\ sup.proc \notin abandoned
          /\ \A t \in ticks : t.p # sup.proc
      BY <2>1, <3>1 DEF StartupIsProc
    <3>3. /\ NotStarting(c).proc = sup.proc /\ NotStarting(c).epoch = sup.epoch
          /\ NotStarting(c).stopping = sup.stopping /\ NotStarting(c).armed = sup.armed
      BY DEF NotStarting, Typed, SupStates
    <3>4. NotStarting(c) \in SupStates
      BY NotStartingFact DEF Typed
    <3>5. c.who \in Waiters /\ chains \ {c} \in SUBSET Calls
      BY DEF Typed, Calls
    <3>6. /\ sup'.state \in {"crashed", "restarting"} /\ sup'.proc = sup.proc /\ sup'.epoch = sup.epoch
          /\ sup'.stopping = sup.stopping /\ sup'.armed = 0
          /\ shell'.rst \in {shell.rst, "no"} /\ shell'.app = shell.app
          /\ chains' \subseteq (chains \ {c}) \union {Chain("backoff", 0, sup.epoch, c.who)}
      BY <2>3, <3>2, <3>3, <3>4, <3>5, <1>a, UnexpectedFact
    <3>7. \A d \in chains \ {c} : d.at = "reap" \/ d.ep # sup.epoch
      BY <3>1 DEF OneEntitled, Entitled, StandsDown
    <3>8. NoProcess(sup.proc)'
      BY <1>9, <2>1, <3>1, <3>6 DEF HealthGone, StartupIsProc, NoProcess
    <3>9. OsAges
      BY <2>1 DEF OsAges
    <3> QED
      BY <2>1, <3>1, <3>2, <3>6, <3>7, <3>8, <3>9, AfterUnexpected
  <2> QED
    BY <1>9, <2>2, <2>3 DEF HealthGone
<1>10. ASSUME NEW c \in chains, HealthTimeout(c) PROVE Ruled'
  <2>1. c.at = "health" /\ ~c.gone /\ UNCHANGED <<ticks, os>>
    BY <1>10 DEF HealthTimeout
  <2>2. CASE /\ StandsDown(c) /\ sup' = NotStarting(c) /\ chains' = chains \ {c}
             /\ shell' = Returned(shell, c.who, sup.state) /\ UNCHANGED <<abandoned, killed>>
    BY <2>1, <2>2, <1>a, ReturnedFact, AfterReturn DEF Entitled
  <2>3. CASE /\ ~StandsDown(c)
             /\ abandoned' = abandoned \union {c.p} /\ killed' = killed \union {c.p}
             /\ sup' = [NotStarting(c) EXCEPT !.state = "crashed"]
             /\ shell' = Heard("crashed", sup.restarts)
             /\ chains' = (chains \ {c}) \union {[c EXCEPT !.at = "reap"]}
    <3>1. c \in Entitled /\ ~sup.stopping
      BY <2>1, <2>3 DEF Entitled, StandsDown
    <3>2. c.p = sup.proc /\ sup.armed = 0 /\ \A t \in ticks : t.p # sup.proc
      BY <2>1, <3>1 DEF StartupIsProc
    <3>3. /\ sup'.proc = sup.proc /\ sup'.epoch = sup.epoch /\ sup'.stopping = sup.stopping
          /\ sup'.armed = sup.armed /\ sup'.state = "crashed"
      BY <2>3 DEF NotStarting, Typed, SupStates
    <3>4. shell'.rst = shell.rst /\ shell'.app = shell.app
      BY <2>3, <1>a, HeardFact DEF Kept
    <3>5. Entitled' = {}
      <4>1. [c EXCEPT !.at = "reap"].at = "reap"
        BY DEF Typed, Calls
      <4> QED
        BY <2>3, <3>1, <3>3, <4>1 DEF OneEntitled, Entitled, StandsDown
    <3>6. Spawned'
      <4>1. [c EXCEPT !.at = "reap"].p = c.p /\ [c EXCEPT !.at = "reap"].ep = c.ep /\ [c EXCEPT !.at = "reap"].at = "reap"
        BY DEF Typed, Calls
      <4> QED
        BY <2>1, <2>3, <3>2, <3>3, <4>1 DEF Spawned
    <3>7. OneEntitled' /\ SpawnAfterLoss' /\ StartupIsProc'
      BY <3>5 DEF OneEntitled, SpawnAfterLoss, StartupIsProc
    <3>8. OneCheck' /\ StopOutdates'
      BY <2>1, <3>1, <3>2, <3>3, <3>4 DEF OneCheck, StopOutdates
    <3>9. OnlyProcRuns'
      BY <2>1, <2>3, <3>3 DEF OnlyProcRuns
    <3>10. Watched' /\ ReadyIsWatched'
      BY <3>3, <3>5 DEF Watched, ReadyIsWatched
    <3> QED
      BY <3>6, <3>7, <3>8, <3>9, <3>10
  <2> QED
    BY <1>10, <2>2, <2>3 DEF HealthTimeout
<1>11. ASSUME NEW c \in chains, Reaped(c) PROVE Ruled'
  <2>1. /\ chains' = chains \ {c} /\ c \notin Entitled /\ UNCHANGED <<sup, ticks, abandoned, killed, os>>
        /\ shell' = Returned(shell, c.who, sup.state)
    BY <1>11 DEF Reaped, Entitled
  <2> QED
    BY <2>1, <1>a, ReturnedFact, AfterReturn
<1>12. ASSUME NEW c \in chains, BackoffOver(c) PROVE Ruled'
  <2>1. c.at = "backoff" /\ UNCHANGED <<ticks, abandoned, killed>>
    BY <1>12 DEF BackoffOver
  <2>2. CASE StandsDown(c) /\ chains' = chains \ {c} /\ shell' = Returned(shell, c.who, sup.state) /\ UNCHANGED <<sup, os>>
    BY <2>1, <2>2, <1>a, ReturnedFact, AfterReturn DEF Entitled
  <2>3. CASE ~StandsDown(c) /\ SpawnAndWait(sup, shell, c.who, chains \ {c})
    <3>1. c \in Entitled /\ ~sup.stopping
      BY <2>1, <2>3 DEF Entitled, StandsDown
    <3>2. NoProcess(sup.proc) \/ sup.proc \in killed
      BY <2>1, <3>1 DEF SpawnAfterLoss, Lost, Typed
    <3>3. sup.armed = 0
      BY <2>1, <3>1 DEF SpawnAfterLoss
    <3>4. c.who \in Waiters /\ chains \ {c} \in SUBSET Calls /\ sup.epoch \in Nat
      BY DEF Typed, Calls, SupStates
    <3>5. /\ sup'.proc \in Pids /\ os[sup'.proc] = "none" /\ os'[sup'.proc] \in {"failing", "booting"}
          /\ \A q \in Pids \ {sup'.proc} : os'[q] = os[q]
          /\ sup'.state = "starting" /\ sup'.starting = sup'.proc
          /\ sup'.epoch = sup.epoch /\ sup'.stopping = sup.stopping /\ sup'.armed = sup.armed
          /\ shell'.rst = shell.rst /\ shell'.app = shell.app
          /\ chains' = (chains \ {c}) \union {Chain("health", sup'.proc, sup.epoch, c.who)}
      BY <2>3, <3>4, <1>a, SpawnFact DEF Typed
    <3>6. shell'.rst \notin {"stop", "start"}
      BY <3>1, <3>5 DEF StopOutdates
    <3>7. \A d \in chains \ {c} : d.at = "reap" \/ d.ep # sup.epoch
      BY <3>1 DEF OneEntitled, Entitled, StandsDown
    <3>8. sup.epoch >= sup.epoch /\ chains \ {c} \in SUBSET chains
      BY <3>4
    <3> QED
      BY <2>1, <3>1, <3>2, <3>3, <3>4, <3>5, <3>6, <3>7, <3>8, AfterSpawn
  <2> QED
    BY <1>12, <2>2, <2>3 DEF BackoffOver
<1>13. ASSUME Stabilised PROVE Ruled'
  <2> DEFINE f == [c \in chains |-> c]
  <2>1. chains' \subseteq {f[c] : c \in chains} /\ \A c \in chains : f[c] = c
    BY <1>13 DEF Stabilised
  <2>2. /\ sup'.proc = sup.proc /\ sup'.epoch = sup.epoch /\ sup'.stopping = sup.stopping
        /\ sup'.state \in {sup.state, "stopped"} /\ sup'.armed = sup.armed /\ sup'.starting = sup.starting
    BY <1>13 DEF Stabilised, Typed, SupStates
  <2>3. OsAges /\ UNCHANGED <<ticks, abandoned, killed, os>>
    BY <1>13 DEF Stabilised, OsAges
  <2>4. (shell'.rst \in {"stop", "start"} => sup.stopping) /\ shell'.app = shell.app
    BY <1>13 DEF Stabilised, Typed, ShellStates, StopOutdates
  <2> HIDE DEF f
  <2> QED
    BY <2>1, <2>2, <2>3, <2>4, AfterLeaving
<1>14. ASSUME TickFires PROVE Ruled'
  <2>1. /\ sup'.armed = 0 /\ sup'.proc = sup.proc /\ sup'.epoch = sup.epoch /\ sup'.stopping = sup.stopping
        /\ sup'.state = sup.state /\ sup'.starting = sup.starting
        /\ UNCHANGED <<shell, chains, abandoned, killed, os>>
    BY <1>14 DEF TickFires, Typed, SupStates
  <2>2. ~sup.stopping /\ sup.armed = sup.proc /\ sup.proc \in Pids /\ \A t \in ticks : t.p # sup.proc
    BY <1>14, <1>a DEF TickFires, OneCheck, StopOutdates
  <2> DEFINE new == [at |-> "probe", p |-> sup.armed, misses |-> sup.misses]
  <2>3. ticks' = ticks \union {new} /\ new.at = "probe" /\ new.p = sup.proc
    BY <1>14, <2>2 DEF TickFires
  <2> HIDE DEF new
  <2>4. \A t \in ticks' : t.p \in Pids /\ os[t.p] # "none" /\ (t.at = "kill" => t.p \in killed)
    BY <2>2, <2>3 DEF Spawned, Typed, Checks
  <2>5. \A t, u \in ticks' : t.p = sup.proc /\ u.p = sup.proc => t = u
    BY <2>2, <2>3
  <2>6. killed \subseteq Pids /\ \A p \in killed : os[p] # "none"
    BY DEF Spawned, Typed
  <2> QED
    BY <2>1, <2>2, <2>3, <2>4, <2>5, <2>6, AfterChecks
<1>15. ASSUME NEW t \in ticks, NEW ok \in BOOLEAN, ProbeReturns(t, ok) PROVE Ruled'
  <2> DEFINE misses == IF ok THEN 0 ELSE t.misses + 1
  <2>0. t.p \in Pids /\ os[t.p] # "none" /\ killed \subseteq Pids /\ UNCHANGED <<shell, chains, abandoned, os>>
    BY <1>15 DEF ProbeReturns, Typed, Checks, Spawned
  <2>a. /\ \A p \in killed : os[p] # "none"
        /\ \A u \in ticks : u.p \in Pids /\ os[u.p] # "none" /\ (u.at = "kill" => u.p \in killed)
    BY DEF Spawned, Typed, Checks
  <2>1. CASE /\ sup.stopping \/ sup.proc # t.p \/ NoProcess(t.p)
             /\ ticks' = ticks \ {t} /\ UNCHANGED <<sup, killed>>
    <3>1. sup.armed # 0 => ~sup.stopping /\ sup.armed = sup.proc /\ \A u \in ticks : u.p # sup.proc
      BY <1>a DEF OneCheck, StopOutdates
    <3>2. \A u, v \in ticks : u.p = sup.proc /\ v.p = sup.proc => u = v \/ sup.stopping
      BY DEF OneCheck
    <3>3. sup.stopping => sup.armed = 0
      BY DEF StopOutdates
    <3>4. (\E u \in ticks : u.p = sup.proc) /\ ~NoProcess(sup.proc) /\ ~sup.stopping => \E u \in ticks' : u.p = sup.proc
      BY <2>0, <2>1
    <3>5. ticks' \subseteq ticks /\ UNCHANGED <<sup, killed, chains, os, abandoned, shell>>
      BY <2>0, <2>1
    <3> HIDE DEF ShellIInv, Ruled
    <3> QED
      BY <2>0, <2>a, <3>1, <3>2, <3>3, <3>4, <3>5, AfterChecks
  <2>2. CASE /\ ~(sup.stopping \/ sup.proc # t.p \/ NoProcess(t.p))
             /\ ticks' = ticks \ {t} /\ UNCHANGED killed /\ sup' = [sup EXCEPT !.armed = t.p, !.misses = misses]
    <3>1. /\ sup'.armed = sup.proc /\ sup'.proc = sup.proc /\ sup'.epoch = sup.epoch /\ sup'.stopping = sup.stopping
          /\ sup'.state = sup.state /\ sup'.starting = sup.starting
      BY <2>2 DEF Typed, SupStates
    <3>2. \A u \in ticks' : u.p # sup.proc
      BY <2>2 DEF OneCheck
    <3> QED
      BY <2>0, <2>a, <2>2, <3>1, <3>2, AfterChecks
  <2>3. CASE /\ ~(sup.stopping \/ sup.proc # t.p \/ NoProcess(t.p))
             /\ ticks' = (ticks \ {t}) \union {[at |-> "kill", p |-> t.p, misses |-> 0]}
             /\ killed' = killed \union {t.p} /\ UNCHANGED sup
    <3> DEFINE new == [at |-> "kill", p |-> t.p, misses |-> 0]
    <3>1. new.p = sup.proc /\ ticks' = (ticks \ {t}) \union {new}
      BY <2>3
    <3> HIDE DEF new
    <3>2. \A u \in ticks \ {t} : u.p # sup.proc
      BY <2>3 DEF OneCheck
    <3>3. sup.armed = 0
      BY <2>3 DEF OneCheck
    <3>4. \A u \in ticks' : u.p \in Pids /\ os[u.p] # "none" /\ (u.at = "kill" => u.p \in killed')
      BY <2>0, <2>a, <2>3, <3>1
    <3>5. \A u, v \in ticks' : u.p = sup.proc /\ v.p = sup.proc => u = v
      BY <3>1, <3>2
    <3> QED
      BY <2>0, <2>a, <2>3, <3>1, <3>3, <3>4, <3>5, AfterChecks
  <2> QED
    BY <1>15, <2>1, <2>2, <2>3 DEF ProbeReturns
<1>16. ASSUME NEW t \in ticks, KillReturns(t) PROVE Ruled'
  <2>0. t.p \in Pids /\ ticks' = ticks \ {t} /\ UNCHANGED <<killed, os>> /\ killed \subseteq Pids
    BY <1>16 DEF KillReturns, Typed, Checks
  <2>a. /\ \A p \in killed : os[p] # "none"
        /\ \A u \in ticks : u.p \in Pids /\ os[u.p] # "none" /\ (u.at = "kill" => u.p \in killed)
    BY DEF Spawned, Typed, Checks
  <2>1. CASE /\ NoProcess(t.p) \/ sup.stopping \/ sup.proc # t.p
             /\ UNCHANGED <<sup, shell, chains, abandoned>>
    <3>1. sup.armed # 0 => ~sup.stopping /\ sup.armed = sup.proc /\ \A u \in ticks : u.p # sup.proc
      BY <1>a DEF OneCheck, StopOutdates
    <3>2. \A u, v \in ticks : u.p = sup.proc /\ v.p = sup.proc => u = v \/ sup.stopping
      BY DEF OneCheck
    <3>3. sup.stopping => sup.armed = 0
      BY DEF StopOutdates
    <3>4. (\E u \in ticks : u.p = sup.proc) /\ ~NoProcess(sup.proc) /\ ~sup.stopping => \E u \in ticks' : u.p = sup.proc
      BY <2>0, <2>1
    <3>5. ticks' \subseteq ticks /\ UNCHANGED <<sup, killed, chains, os, abandoned, shell>>
      BY <2>0, <2>1
    <3> HIDE DEF ShellIInv, Ruled
    <3> QED
      BY <2>0, <2>a, <3>1, <3>2, <3>3, <3>4, <3>5, AfterChecks
  <2>2. CASE /\ ~(NoProcess(t.p) \/ sup.stopping \/ sup.proc # t.p)
             /\ abandoned' = abandoned \union {t.p}
             /\ Unexpected(StopLiveness(sup), LostWith(shell, t.p), "exit", chains)
    <3>1. LostWith(shell, t.p) \in ShellStates /\ LostWith(shell, t.p).rst = shell.rst /\ LostWith(shell, t.p).app = shell.app
          /\ "exit" \in Waiters /\ chains \in SUBSET Calls
      BY LostWithFact DEF Waiters, Typed
    <3>2. /\ StopLiveness(sup).proc = sup.proc /\ StopLiveness(sup).epoch = sup.epoch
          /\ StopLiveness(sup).stopping = sup.stopping /\ StopLiveness(sup).armed = 0
          /\ StopLiveness(sup) \in SupStates
      BY SupStopLiveness DEF StopLiveness, Typed, SupStates
    <3>3. /\ sup'.state \in {"crashed", "restarting"} /\ sup'.proc = sup.proc /\ sup'.epoch = sup.epoch
          /\ sup'.stopping = sup.stopping /\ sup'.armed = 0
          /\ shell'.rst \in {shell.rst, "no"} /\ shell'.app = shell.app
          /\ chains' \subseteq chains \union {Chain("backoff", 0, sup.epoch, "exit")}
      BY <2>2, <3>1, <3>2, UnexpectedFact
    <3>4. Entitled = {}
      <4>0. sup.proc \notin abandoned
        BY <2>2 DEF OneCheck
      <4>1. \A c \in Entitled : c.at # "health"
        BY <2>2 DEF StartupIsProc
      <4>2. \A c \in Entitled : c.at # "backoff"
        BY <2>2, <4>0 DEF SpawnAfterLoss, Lost
      <4>3. \A c \in Entitled : c.at \in {"health", "backoff"}
        BY DEF Entitled, Typed, Calls
      <4> QED
        BY <4>1, <4>2, <4>3
    <3>5. \A c \in chains : c.at = "reap" \/ c.ep # sup.epoch
      BY <2>2, <3>4 DEF Entitled, StandsDown
    <3>6. \A u \in ticks' : u.p # sup.proc
      BY <2>0, <2>2 DEF OneCheck
    <3>7. OsAges
      BY <2>0 DEF OsAges
    <3> QED
      BY <2>0, <2>2, <3>3, <3>5, <3>6, <3>7, AfterUnexpected
  <2> QED
    BY <1>16, <2>1, <2>2 DEF KillReturns
<1>17. ASSUME RestartClick PROVE Ruled'
  <2>1. OsAges
    BY <1>17 DEF RestartClick, OsAges, Alive, Typed, OsStates
  <2>2. /\ UNCHANGED <<sup, chains, ticks, abandoned, killed>> /\ (shell'.rst \in {"stop", "start"} => sup.stopping)
        /\ shell'.app = "up" => shell.app = "up"
    BY <1>17 DEF RestartClick, Typed, ShellStates, StopOutdates
  <2>3. NoProcess(sup.proc)' => os'[sup.proc] = os[sup.proc]
    BY <1>17, <1>a DEF RestartClick, NoProcess, Typed, OsStates
  <2> QED
    BY <2>1, <2>2, <2>3, AfterNothing
<1>18. ASSUME NEW said \in Said, RestartAnswer(said) PROVE Ruled'
  <2>1. UNCHANGED <<chains, ticks, abandoned, os>>
    BY <1>18 DEF RestartAnswer
  <2>2. CASE shell' = [shell EXCEPT !.rst = "no"] /\ UNCHANGED <<sup, killed>>
    <3>1. shell'.rst = "no" /\ shell'.app = shell.app
      BY <2>2 DEF Typed, ShellStates
    <3>2. OsAges
      BY <2>1 DEF OsAges
    <3> QED
      BY <2>1, <2>2, <3>1, <3>2, AfterNothing
  <2>3. CASE shell' = [shell EXCEPT !.rst = "dialog"] /\ UNCHANGED <<sup, killed>>
    <3>1. shell'.rst = "dialog" /\ shell'.app = shell.app
      BY <2>3 DEF Typed, ShellStates
    <3>2. OsAges
      BY <2>1 DEF OsAges
    <3> QED
      BY <2>1, <2>3, <3>1, <3>2, AfterNothing
  <2>4. CASE Go(said)
    <3>1. shell'.app = shell.app
      BY <2>4 DEF Go, Typed, ShellStates
    <3> QED
      BY <2>1, <2>4, <3>1, AfterStop DEF Go
  <2> QED
    BY <1>18, <2>2, <2>3, <2>4 DEF RestartAnswer
<1>19. ASSUME NEW yes \in BOOLEAN, RestartDialog(yes) PROVE Ruled'
  <2>1. OsAges
    BY <1>19 DEF RestartDialog, OsAges, Alive, Typed, OsStates
  <2>2. /\ UNCHANGED <<sup, chains, ticks, abandoned, killed>> /\ (shell'.rst \in {"stop", "start"} => sup.stopping)
        /\ shell'.app = "up" => shell.app = "up"
    BY <1>19 DEF RestartDialog, Typed, ShellStates, StopOutdates
  <2>3. NoProcess(sup.proc)' => os'[sup.proc] = os[sup.proc]
    BY <1>19, <1>a DEF RestartDialog, NoProcess, Typed, OsStates
  <2> QED
    BY <2>1, <2>2, <2>3, AfterNothing
<1>20. ASSUME NEW said \in Said, RestartRecheck(said) PROVE Ruled'
  <2>1. UNCHANGED <<chains, ticks, abandoned, os>>
    BY <1>20 DEF RestartRecheck
  <2>2. CASE shell' = [shell EXCEPT !.rst = "no"] /\ UNCHANGED <<sup, killed>>
    <3>1. shell'.rst = "no" /\ shell'.app = shell.app
      BY <2>2 DEF Typed, ShellStates
    <3>2. OsAges
      BY <2>1 DEF OsAges
    <3> QED
      BY <2>1, <2>2, <3>1, <3>2, AfterNothing
  <2>3. CASE shell' = [shell EXCEPT !.rst = "dialog"] /\ UNCHANGED <<sup, killed>>
    <3>1. shell'.rst = "dialog" /\ shell'.app = shell.app
      BY <2>3 DEF Typed, ShellStates
    <3>2. OsAges
      BY <2>1 DEF OsAges
    <3> QED
      BY <2>1, <2>3, <3>1, <3>2, AfterNothing
  <2>4. CASE Go(said)
    <3>1. shell'.app = shell.app
      BY <2>4 DEF Go, Typed, ShellStates
    <3> QED
      BY <2>1, <2>4, <3>1, AfterStop DEF Go
  <2> QED
    BY <1>20, <2>2, <2>3, <2>4 DEF RestartRecheck
<1>21. ASSUME RestartStopped PROVE Ruled'
  <2> DEFINE f == [c \in chains |-> c]
  <2>1. chains' \subseteq {f[c] : c \in chains} /\ \A c \in chains : f[c] = c
    BY <1>21 DEF RestartStopped
  <2>2. /\ sup'.proc = sup.proc /\ sup'.epoch = sup.epoch /\ sup'.stopping = sup.stopping
        /\ sup'.state \in {sup.state, "stopped"} /\ sup'.armed = sup.armed /\ sup'.starting = sup.starting
    BY <1>21 DEF RestartStopped, Typed, SupStates
  <2>3. OsAges /\ UNCHANGED <<ticks, abandoned, killed, os>>
    BY <1>21 DEF RestartStopped, OsAges
  <2>4. (shell'.rst \in {"stop", "start"} => sup.stopping) /\ shell'.app = shell.app
    BY <1>21 DEF RestartStopped, Typed, ShellStates, StopOutdates
  <2> HIDE DEF f
  <2> QED
    BY <2>1, <2>2, <2>3, <2>4, AfterLeaving
<1>22. ASSUME RestartStarts PROVE Ruled'
  <2> DEFINE s == [sup EXCEPT !.stopping = FALSE, !.epoch = @ + 1, !.restarts = 0]
             sh == [shell EXCEPT !.rst = "wait"]
  <2>1. s \in SupStates /\ "restart" \in Waiters /\ chains \in SUBSET Calls
    BY SupStart DEF Waiters, Typed
  <2>2. sh \in ShellStates /\ sh.rst = "wait"
    BY DEF ShellStates, Typed
  <2>3. SpawnAndWait(s, sh, "restart", chains)
    BY <1>22 DEF RestartStarts
  <2>4. sup.stopping
    BY <1>22 DEF RestartStarts, StopOutdates
  <2>5. s.epoch = sup.epoch + 1 /\ s.stopping = FALSE /\ s.armed = 0 /\ s.epoch \in Nat /\ sup.epoch \in Nat
    BY <2>4 DEF StopOutdates, Typed, SupStates
  <2> HIDE DEF s, sh
  <2>6. /\ sup'.proc \in Pids /\ os[sup'.proc] = "none" /\ os'[sup'.proc] \in {"failing", "booting"}
        /\ \A q \in Pids \ {sup'.proc} : os'[q] = os[q]
        /\ sup'.state = "starting" /\ sup'.starting = sup'.proc
        /\ sup'.epoch = s.epoch /\ sup'.stopping = s.stopping /\ sup'.armed = s.armed
        /\ shell'.rst = sh.rst
        /\ chains' = chains \union {Chain("health", sup'.proc, s.epoch, "restart")}
    BY <2>1, <2>2, <2>3, SpawnFact DEF Typed
  <2>7. \A c \in chains : c.ep # s.epoch
    <3>1. \A c \in chains : c.ep \in Nat /\ c.ep <= sup.epoch
      BY DEF Spawned, Typed, Calls
    <3> QED
      BY <3>1, <2>5
  <2>8. NoProcess(sup.proc) \/ sup.proc \in killed
    BY <2>4 DEF StopOutdates
  <2>9. UNCHANGED <<ticks, abandoned, killed>>
    BY <1>22 DEF RestartStarts
  <2>10. s.epoch >= sup.epoch /\ chains \in SUBSET chains
    BY <2>5
  <2>11. /\ sup'.proc \in Pids /\ os[sup'.proc] = "none" /\ os'[sup'.proc] \in {"failing", "booting"}
         /\ \A q \in Pids \ {sup'.proc} : os'[q] = os[q]
         /\ sup'.state = "starting" /\ sup'.starting = sup'.proc
    BY <2>6
  <2>12. sup'.epoch = s.epoch /\ ~sup'.stopping /\ sup'.armed = 0
    BY <2>5, <2>6
  <2>13. shell'.rst \notin {"stop", "start"}
    BY <2>2, <2>6
  <2>14. chains' = chains \union {Chain("health", sup'.proc, s.epoch, "restart")}
    BY <2>6
  <2>15. \A c \in chains : c.at = "reap" \/ c.ep # s.epoch
    BY <2>7
  <2>16. s.epoch \in Nat
    BY <2>5
  <2> HIDE DEF ShellIInv, Ruled
  <2> QED
    BY <2>8, <2>9, <2>10, <2>11, <2>12, <2>13, <2>14, <2>15, <2>16, AfterSpawn
<1>23. ASSUME NEW i \in Quits, QuitClick(i) PROVE Ruled'
  <2>1. OsAges
    BY <1>23 DEF QuitClick, OsAges, Alive, Typed, OsStates
  <2>2. /\ UNCHANGED <<sup, chains, ticks, abandoned, killed>> /\ (shell'.rst \in {"stop", "start"} => sup.stopping)
        /\ shell'.app = "up" => shell.app = "up"
    BY <1>23 DEF QuitClick, Typed, ShellStates, StopOutdates
  <2>3. NoProcess(sup.proc)' => os'[sup.proc] = os[sup.proc]
    BY <1>23, <1>a DEF QuitClick, NoProcess, Typed, OsStates
  <2> QED
    BY <2>1, <2>2, <2>3, AfterNothing
<1>24. ASSUME NEW i \in Quits, NEW said \in Said, QuitAnswer(i, said) PROVE Ruled'
  <2>1. OsAges
    BY <1>24 DEF QuitAnswer, OsAges, Alive, Typed, OsStates
  <2>2. /\ UNCHANGED <<sup, chains, ticks, abandoned, killed>> /\ (shell'.rst \in {"stop", "start"} => sup.stopping)
        /\ shell'.app = "up" => shell.app = "up"
    BY <1>24 DEF QuitAnswer, Typed, ShellStates, StopOutdates
  <2>3. NoProcess(sup.proc)' => os'[sup.proc] = os[sup.proc]
    BY <1>24, <1>a DEF QuitAnswer, NoProcess, Typed, OsStates
  <2> QED
    BY <2>1, <2>2, <2>3, AfterNothing
<1>25. ASSUME NEW i \in Quits, NEW yes \in BOOLEAN, QuitDialog(i, yes) PROVE Ruled'
  <2>1. OsAges
    BY <1>25 DEF QuitDialog, OsAges, Alive, Typed, OsStates
  <2>2. /\ UNCHANGED <<sup, chains, ticks, abandoned, killed>> /\ (shell'.rst \in {"stop", "start"} => sup.stopping)
        /\ shell'.app = "up" => shell.app = "up"
    BY <1>25 DEF QuitDialog, Typed, ShellStates, StopOutdates
  <2>3. NoProcess(sup.proc)' => os'[sup.proc] = os[sup.proc]
    BY <1>25, <1>a DEF QuitDialog, NoProcess, Typed, OsStates
  <2> QED
    BY <2>1, <2>2, <2>3, AfterNothing
<1>26. ASSUME NEW i \in Quits, BeforeQuit(i) PROVE Ruled'
  <2>1. UNCHANGED <<chains, ticks, abandoned, os>>
    BY <1>26 DEF BeforeQuit
  <2>2. CASE shell' = [shell EXCEPT !.app = "closing"] /\ UNCHANGED <<sup, killed>>
    <3>1. shell'.rst = shell.rst /\ shell'.app = "closing"
      BY <2>2 DEF Typed, ShellStates
    <3>2. OsAges
      BY <2>1 DEF OsAges
    <3>3. shell'.rst \in {"stop", "start"} => sup.stopping
      BY <3>1 DEF StopOutdates
    <3> QED
      BY <2>1, <2>2, <3>1, <3>2, <3>3, AfterNothing
  <2>3. CASE sup' = StopCalled(sup) /\ killed' = killed \union KilledBy(sup) /\ UNCHANGED shell
    BY <2>1, <2>3, AfterStop
  <2> QED
    BY <1>26, <2>2, <2>3 DEF BeforeQuit
<1>27. ASSUME NEW i \in Quits, QuitStopped(i) PROVE Ruled'
  <2> DEFINE f == [c \in chains |-> c]
  <2>1. chains' \subseteq {f[c] : c \in chains} /\ \A c \in chains : f[c] = c
    BY <1>27 DEF QuitStopped
  <2>2. /\ sup'.proc = sup.proc /\ sup'.epoch = sup.epoch /\ sup'.stopping = sup.stopping
        /\ sup'.state \in {sup.state, "stopped"} /\ sup'.armed = sup.armed /\ sup'.starting = sup.starting
    BY <1>27 DEF QuitStopped, Typed, SupStates
  <2>3. OsAges /\ UNCHANGED <<ticks, abandoned, killed, os>>
    BY <1>27 DEF QuitStopped, OsAges
  <2>4. (shell'.rst \in {"stop", "start"} => sup.stopping) /\ shell'.app = shell.app
    BY <1>27 DEF QuitStopped, Typed, ShellStates, StopOutdates
  <2> HIDE DEF f
  <2> QED
    BY <2>1, <2>2, <2>3, <2>4, AfterLeaving
<1>28. ASSUME AppGone PROVE Ruled'
  <2>1. OsAges
    BY <1>28 DEF AppGone, OsAges, Alive, Typed, OsStates
  <2>2. /\ UNCHANGED <<sup, chains, ticks, abandoned, killed>> /\ (shell'.rst \in {"stop", "start"} => sup.stopping)
        /\ shell'.app = "up" => shell.app = "up"
    BY <1>28 DEF AppGone, Typed, ShellStates, StopOutdates
  <2>3. NoProcess(sup.proc)' => os'[sup.proc] = os[sup.proc]
    BY <1>28, <1>a DEF AppGone, NoProcess, Typed, OsStates
  <2> QED
    BY <2>1, <2>2, <2>3, AfterNothing
<1>29. ASSUME UNCHANGED shellVars PROVE Ruled'
  <2>1. OsAges
    BY <1>29 DEF shellVars, OsAges
  <2> QED
    BY <1>29, <2>1, <1>a, AfterNothing DEF shellVars
<1> QED
  BY <1>1, <1>2, <1>3, <1>4, <1>5, <1>6, <1>7, <1>8, <1>9, <1>10, <1>11, <1>12, <1>13, <1>14, <1>15, <1>16, <1>17, <1>18, <1>19, <1>20, <1>21, <1>22, <1>23, <1>24, <1>25, <1>26, <1>27, <1>28, <1>29 DEF ShellNext, SupervisorStep, OperatorStep, RestartStep,
     QuitStep, ProcessStep, Said

----------------------------------------------------------------------------
(* The theorems.                                                           *)

(* sidecar.ts:111-125: the supervisor's calls, processes and checks keep   *)
(* to the rules above, whatever overlaps.                                  *)
THEOREM ShellInvariant == ShellSpec => []ShellIInv
<1>1. ShellInit => ShellIInv
  BY InitTyped, InitRuled DEF ShellIInv
<1>2. ShellIInv /\ [ShellNext]_shellVars => ShellIInv'
  BY NextTyped, NextRuled DEF ShellIInv
<1> QED
  BY <1>1, <1>2, PTL DEF ShellSpec

(* sidecar.ts:40-75, 190-195: the supervisor's fields keep their types,    *)
(* and the restarts stay within opts.maxRestarts.                          *)
THEOREM ShellTypeCorrect == ShellSpec => []ShellTypeOK
<1>1. ShellIInv => ShellTypeOK
  <2> SUFFICES ASSUME ShellIInv PROVE ShellTypeOK
    OBVIOUS
  <2>1. SupStates = [state : States, proc : Pids \union {0}, restarts : 0 .. MaxRestarts, stopping : BOOLEAN,
                     epoch : Nat, starting : Pids \union {0}, armed : Pids \union {0},
                     misses : 0 .. (LivenessFailures - 1), stable : BOOLEAN]
    BY DEF SupStates
  <2>2. Calls = [at : {"health", "backoff", "reap"}, p : Pids \union {0}, ep : Nat,
                 who : {"launch", "restart", "exit"}, gone : BOOLEAN]
    BY DEF Calls, Waiters
  <2>3. Checks = [at : {"probe", "kill"}, p : Pids, misses : 0 .. (LivenessFailures - 1)]
    BY DEF Checks
  <2> QED
    BY <2>1, <2>2, <2>3, Zenon DEF ShellTypeOK, ShellIInv, Typed
<1> QED
  BY <1>1, ShellInvariant, PTL

\* A set without two different members has one member at most.
LEMMA OneAtMost ==
  ASSUME NEW S, \A a, b \in S : a = b
  PROVE  Cardinality(S) <= 1
<1>1. CASE S = {}
  BY <1>1, FS_EmptySet
<1>2. CASE S # {}
  <2>1. PICK a : S = {a}
    BY <1>2
  <2> QED
    BY <2>1, FS_Singleton
<1> QED
  BY <1>1, <1>2

(* sidecar.ts:111-113, 163-203: however crashes, hangs, the operator's     *)
(* restart and a quit come together, at most one backend runs that nobody  *)
(* has told to end.                                                        *)
THEOREM AlwaysOneBackend == ShellSpec => []OneBackend
<1>1. ShellIInv => OneBackend
  <2> SUFFICES ASSUME ShellIInv PROVE OneBackend
    OBVIOUS
  <2>1. \A p, q \in Running \ killed : p = q
    BY DEF ShellIInv, Ruled, OnlyProcRuns, Running
  <2> QED
    BY <2>1, OneAtMost DEF OneBackend
<1> QED
  BY <1>1, ShellInvariant, PTL

(* sidecar.ts:119-125, 205-274: an exit, a startup failure, a late event   *)
(* and a manual restart never leave two calls that will both spawn.        *)
THEOREM AlwaysOneRestart == ShellSpec => []OneRestartUnderWay
<1>1. ShellIInv => OneRestartUnderWay
  <2> SUFFICES ASSUME ShellIInv PROVE OneRestartUnderWay
    OBVIOUS
  <2>1. \A c, d \in Entitled : c = d
    BY DEF ShellIInv, Ruled, OneEntitled
  <2> QED
    BY <2>1, OneAtMost DEF OneRestartUnderWay, Entitled
<1> QED
  BY <1>1, ShellInvariant, PTL

(* sidecar.ts:276-305: a backend called ready that is not being stopped    *)
(* has not exited and is still watched.                                    *)
THEOREM ReadyAlwaysWatched == ShellSpec => []ReadyIsWatched
<1>1. ShellIInv => ReadyIsWatched
  BY DEF ShellIInv, Ruled
<1> QED
  BY <1>1, ShellInvariant, PTL

(* main.ts:583-598, sidecar.ts:71-72: the app leaves no backend behind     *)
(* but one that refused to die, or one that an overlapping restart has     *)
(* spawned after the quit called stop().                                   *)
THEOREM NeverOrphan == ShellSpec => []NoOrphan
<1>1. ShellIInv => NoOrphan
  <2> SUFFICES ASSUME ShellIInv, sup.stopping PROVE Running \subseteq killed
    BY DEF NoOrphan
  <2>1. NoProcess(sup.proc) \/ sup.proc \in killed
    BY DEF ShellIInv, Ruled, StopOutdates
  <2>2. \A p \in Running : p \in killed \/ p = sup.proc
    BY DEF ShellIInv, Ruled, OnlyProcRuns, Running
  <2>3. sup.proc \in Running => ~NoProcess(sup.proc)
    BY PidsFact DEF Running, NoProcess, Alive
  <2> QED
    BY <2>1, <2>2, <2>3
<1> QED
  BY <1>1, ShellInvariant, PTL

\* A backend that records and answers never says that it is idle.
LEMMA RecordingIsNotIdle ==
  ASSUME ShellIInv, rec # 0, os[rec] = "healthy"
  PROVE  Status \subseteq {"unknown", "busy"}
<1>1. rec \in Pids
  BY DEF ShellIInv, Typed, Running
<1> QED
  BY <1>1 DEF Status

\* No helper confirms a quit.
LEMMA HelpersConfirm ==
  ASSUME NEW sh \in ShellStates, shell \in ShellStates
  PROVE  /\ \A who, st : Returned(sh, who, st).confirmed = sh.confirmed
         /\ \A p : LostWith(sh, p).confirmed = sh.confirmed
         /\ \A st, r : Heard(st, r).confirmed = shell.confirmed
         /\ \A s, who, others : Unexpected(s, sh, who, others) => shell'.confirmed = sh.confirmed
         /\ \A s, who, others : SpawnAndWait(s, sh, who, others) => shell'.confirmed = sh.confirmed
<1>1. ASSUME NEW x \in ShellStates, NEW who, NEW st PROVE Returned(x, who, st).confirmed = x.confirmed
  BY DEF Returned, ShellStates
<1>2. \A p : LostWith(sh, p).confirmed = sh.confirmed
  BY DEF LostWith, ShellStates
<1>3. \A st, r : Heard(st, r).confirmed = shell.confirmed
  BY DEF Heard, ShellStates
<1>4. ASSUME NEW s, NEW who, NEW others, Unexpected(s, sh, who, others) PROVE shell'.confirmed = sh.confirmed
  <2> DEFINE sh1 == IF sh.settled /\ ~sh.manual THEN [sh EXCEPT !.reports = @ + 1, !.lost = FALSE] ELSE sh
  <2>1. sh1 \in ShellStates /\ sh1.confirmed = sh.confirmed
    <3>1. sh.reports + 1 \in Nat
      BY DEF ShellStates
    <3>2. [sh EXCEPT !.reports = @ + 1, !.lost = FALSE] \in ShellStates
      BY <3>1 DEF ShellStates
    <3> QED
      BY <3>2 DEF ShellStates
  <2>2. shell' = Returned(sh1, who, "crashed") \/ shell' = sh
    BY <1>4, Zenon DEF Unexpected
  <2> HIDE DEF sh1
  <2> QED
    BY <1>1, <2>1, <2>2
<1>5. ASSUME NEW s, NEW who, NEW others, SpawnAndWait(s, sh, who, others) PROVE shell'.confirmed = sh.confirmed
  <2>1. shell' = [sh EXCEPT !.reports = 0]
    BY <1>5, Zenon DEF SpawnAndWait
  <2> QED
    BY <2>1 DEF ShellStates
<1> QED
  BY <1>1, <1>2, <1>3, <1>4, <1>5

\* A step that neither begins to stop the backend for a restart nor confirms a quit.
Unguarded == (shell'.rst = "stop" => shell.rst = "stop") /\ shell'.confirmed = shell.confirmed

\* The steps that may do more: the answers of GET /record/status and of the operator.
LEMMA GuardedSteps ==
  ASSUME ShellIInv, [ShellNext]_shellVars
  PROVE  \/ Unguarded
         \/ \E said \in Said : RestartAnswer(said) \/ RestartRecheck(said)
         \/ \E i \in Quits : \/ \E said \in Said : QuitAnswer(i, said)
                             \/ \E yes \in BOOLEAN : QuitDialog(i, yes)
<1> USE DEF Unguarded
<1>a. /\ shell \in ShellStates /\ sup \in SupStates /\ chains \in SUBSET Calls /\ os \in [Pids -> OsStates]
      /\ faults \in 0 .. MaxFaults
      /\ \A c \in chains : c.who \in Waiters /\ chains \ {c} \in SUBSET Calls /\ c.p \in Pids \union {0}
  BY DEF ShellIInv, Typed, Calls
<1>b. \A x \in ShellStates : x.rst \in {shell.rst, "no"} /\ x.confirmed = shell.confirmed /\ shell' = x => Unguarded
  OBVIOUS
<1>c. /\ \A p : LostWith(shell, p) \in ShellStates /\ LostWith(shell, p).rst = shell.rst
                /\ LostWith(shell, p).confirmed = shell.confirmed
      /\ \A st, r : Heard(st, r) \in ShellStates /\ Heard(st, r).rst = shell.rst
                    /\ Heard(st, r).confirmed = shell.confirmed
  BY <1>a, HeardFact, LostWithFact, HelpersConfirm DEF Kept
<1>d. ASSUME NEW x \in ShellStates, x.rst = shell.rst, x.confirmed = shell.confirmed, NEW who, NEW st,
             shell' = Returned(x, who, st)
      PROVE  Unguarded
  BY <1>a, <1>d, ReturnedFact, HelpersConfirm
<1>e. ASSUME NEW x \in ShellStates, x.rst = shell.rst, x.confirmed = shell.confirmed,
             NEW s \in SupStates, NEW who \in Waiters, NEW others \in SUBSET Calls, Unexpected(s, x, who, others)
      PROVE  Unguarded
  <2>1. shell'.rst \in {x.rst, "no"}
    BY <1>e, UnexpectedFact
  <2>2. shell'.confirmed = x.confirmed
    BY <1>a, <1>e, HelpersConfirm
  <2> QED
    BY <1>e, <2>1, <2>2
<1>f. ASSUME NEW x \in ShellStates, x.rst \in {shell.rst, "wait"}, x.confirmed = shell.confirmed,
             NEW s \in SupStates, NEW who \in Waiters, NEW others \in SUBSET Calls, SpawnAndWait(s, x, who, others)
      PROVE  Unguarded
  <2>1. shell'.rst = x.rst
    BY <1>a, <1>f, SpawnFact
  <2>2. shell'.confirmed = x.confirmed
    BY <1>a, <1>f, HelpersConfirm
  <2> QED
    BY <1>f, <2>1, <2>2
<1>g. "exit" \in Waiters /\ "restart" \in Waiters
  BY DEF Waiters
<1>1. ASSUME NEW p \in Pids, ProcessStep(p) PROVE Unguarded
  <2>1. CASE Boot(p) \/ Hang(p) \/ Revive(p) \/ RecordingStarts(p) \/ SpawnError(p)
    BY <2>1 DEF Boot, Hang, Revive, RecordingStarts, SpawnError
  <2>2. CASE Exit(p)
    <3>1. \/ UNCHANGED shell \/ shell' = LostWith(shell, p)
          \/ Unexpected(StopLiveness(sup), LostWith(shell, p), "exit", chains)
      BY <2>2 DEF Exit
    <3>2. CASE Unexpected(StopLiveness(sup), LostWith(shell, p), "exit", chains)
      <4>1. StopLiveness(sup) \in SupStates
        BY <1>a, SupStopLiveness
      <4> QED
        BY <1>a, <1>c, <1>e, <1>g, <3>2, <4>1
    <3> QED
      BY <1>c, <3>1, <3>2
  <2> QED
    BY <1>1, <2>1, <2>2 DEF ProcessStep
<1>2. ASSUME NEW c \in chains, HealthReady(c) PROVE Unguarded
  <2>1. \/ shell' = Returned(shell, c.who, sup.state)
        \/ shell' = Returned(Heard("ready", sup.restarts), c.who, "ready")
    BY <1>2 DEF HealthReady
  <2> QED
    BY <1>a, <1>c, <1>d, <2>1
<1>3. ASSUME NEW c \in chains, HealthGone(c) PROVE Unguarded
  <2>1. shell' = Returned(shell, c.who, sup.state) \/ Unexpected(NotStarting(c), shell, c.who, chains \ {c})
    BY <1>3 DEF HealthGone
  <2>2. NotStarting(c) \in SupStates
    BY <1>a, NotStartingFact
  <2> QED
    BY <1>a, <1>d, <1>e, <2>1, <2>2
<1>4. ASSUME NEW c \in chains, HealthTimeout(c) PROVE Unguarded
  <2>1. shell' = Returned(shell, c.who, sup.state) \/ shell' = Heard("crashed", sup.restarts)
    BY <1>4 DEF HealthTimeout
  <2> QED
    BY <1>a, <1>c, <1>d, <2>1
<1>5. ASSUME NEW c \in chains, Reaped(c) PROVE Unguarded
  BY <1>a, <1>d, <1>5 DEF Reaped
<1>6. ASSUME NEW c \in chains, BackoffOver(c) PROVE Unguarded
  <2>1. shell' = Returned(shell, c.who, sup.state) \/ SpawnAndWait(sup, shell, c.who, chains \ {c})
    BY <1>6 DEF BackoffOver
  <2> QED
    BY <1>a, <1>d, <1>f, <2>1
<1>7. ASSUME NEW t \in ticks, KillReturns(t) PROVE Unguarded
  <2>1. UNCHANGED shell \/ Unexpected(StopLiveness(sup), LostWith(shell, t.p), "exit", chains)
    BY <1>7 DEF KillReturns
  <2>2. StopLiveness(sup) \in SupStates
    BY <1>a, SupStopLiveness
  <2> QED
    BY <1>a, <1>c, <1>e, <1>g, <2>1, <2>2
<1>8. ASSUME \/ \E t \in ticks, ok \in BOOLEAN : ProbeReturns(t, ok)
             \/ TickFires \/ Stabilised \/ RecordingEnds
      PROVE Unguarded
  BY <1>8 DEF ProbeReturns, TickFires, Stabilised, RecordingEnds
<1>9. ASSUME RestartClick \/ (\E yes \in BOOLEAN : RestartDialog(yes)) \/ RestartStopped \/ AppGone
      PROVE  Unguarded
  BY <1>a, <1>9 DEF RestartClick, RestartDialog, RestartStopped, AppGone, ShellStates
<1>10. ASSUME RestartStarts PROVE Unguarded
  <2> DEFINE s == [sup EXCEPT !.stopping = FALSE, !.epoch = @ + 1, !.restarts = 0]
             sh == [shell EXCEPT !.rst = "wait"]
  <2>1. s \in SupStates
    BY <1>a, SupStart
  <2>2. sh \in ShellStates /\ sh.rst = "wait" /\ sh.confirmed = shell.confirmed
    BY <1>a DEF ShellStates
  <2>3. SpawnAndWait(s, sh, "restart", chains)
    BY <1>10 DEF RestartStarts
  <2> HIDE DEF s, sh
  <2> QED
    BY <1>a, <1>f, <1>g, <2>1, <2>2, <2>3
<1>11. ASSUME NEW i \in Quits, QuitClick(i) \/ BeforeQuit(i) \/ QuitStopped(i) PROVE Unguarded
  BY <1>a, <1>11 DEF QuitClick, BeforeQuit, QuitStopped, ShellStates
<1>12. ASSUME UNCHANGED shellVars PROVE Unguarded
  BY <1>12 DEF shellVars
<1> HIDE DEF Unguarded
<1> QED
  BY <1>1, <1>2, <1>3, <1>4, <1>5, <1>6, <1>7, <1>8, <1>9, <1>10, <1>11, <1>12
  DEF ShellNext, SupervisorStep, OperatorStep, RestartStep, QuitStep, Said

\* The only steps that begin to stop the backend for a restart.
LEMMA RestartBegins ==
  ASSUME ShellIInv, [ShellNext]_shellVars, shell.rst # "stop", shell'.rst = "stop"
  PROVE  \E said \in Status : /\ Go(said)
                              /\ \/ restartDecision(said, sup.state) = "restart"
                                 \/ shell.rst = "recheck" /\ restartDecision(said, sup.state) # "refuse"
<1>0. shell \in ShellStates
  BY DEF ShellIInv, Typed
<1>1. CASE \E said \in Said : RestartAnswer(said) \/ RestartRecheck(said)
  <2>1. PICK said \in Said : RestartAnswer(said) \/ RestartRecheck(said)
    BY <1>1
  <2>2. CASE RestartAnswer(said)
    BY <1>0, <2>2 DEF RestartAnswer, ShellStates
  <2>3. CASE RestartRecheck(said)
    BY <1>0, <2>3 DEF RestartRecheck, ShellStates
  <2> QED
    BY <2>1, <2>2, <2>3
<1>2. CASE \E i \in Quits : \/ \E said \in Said : QuitAnswer(i, said)
                            \/ \E yes \in BOOLEAN : QuitDialog(i, yes)
  BY <1>0, <1>2 DEF QuitAnswer, QuitDialog, ShellStates
<1> QED
  BY <1>1, <1>2, GuardedSteps DEF Unguarded

(* restart.ts:17-35, 70-83: "Restart recorder" ends a recording only when  *)
(* the backend would not say that it records, and while the supervisor     *)
(* thinks it is ready only after the operator has agreed.                  *)
THEOREM RestartSpares == ShellSpec => RestartSparesRecording
<1>1. ShellIInv /\ [ShellNext]_shellVars
      => ((shell.rst # "stop" /\ shell'.rst = "stop" /\ rec # 0 /\ os[rec] = "healthy") =>
            /\ shell'.said = "unknown"
            /\ sup.state = "ready" => shell.rst = "recheck")
  <2> SUFFICES ASSUME ShellIInv, [ShellNext]_shellVars, shell.rst # "stop", shell'.rst = "stop",
                      rec # 0, os[rec] = "healthy"
               PROVE  shell'.said = "unknown" /\ (sup.state = "ready" => shell.rst = "recheck")
    OBVIOUS
  <2>1. PICK said \in Status : /\ Go(said)
                               /\ \/ restartDecision(said, sup.state) = "restart"
                                  \/ shell.rst = "recheck" /\ restartDecision(said, sup.state) # "refuse"
    BY RestartBegins
  <2>2. said \in {"unknown", "busy"}
    BY <2>1, RecordingIsNotIdle
  <2>3. said = "unknown"
    BY <2>1, <2>2 DEF restartDecision
  <2>4. shell'.said = said
    BY <2>1 DEF Go, ShellIInv, Typed, ShellStates
  <2>5. sup.state = "ready" => restartDecision(said, sup.state) # "restart"
    BY <2>3 DEF restartDecision
  <2> QED
    BY <2>1, <2>3, <2>4, <2>5
<1> QED
  BY <1>1, ShellInvariant, PTL DEF ShellSpec, RestartSparesRecording

(* quitGuard.ts:49-57, 93-102: a quit passes the guard with a recording    *)
(* running only when the backend did not answer or the operator agreed.    *)
THEOREM QuitSpares == ShellSpec => QuitSparesRecording
<1>1. ShellIInv /\ [ShellNext]_shellVars
      => ((~shell.confirmed /\ shell'.confirmed /\ rec # 0 /\ os[rec] = "healthy") =>
            \E i \in Quits : /\ quit'[i].at = "quit"
                             /\ quit[i].at = "dialog" \/ (quit[i].at = "ask" /\ "unknown" \in Status))
  <2> SUFFICES ASSUME ShellIInv, [ShellNext]_shellVars, ~shell.confirmed, shell'.confirmed, rec # 0, os[rec] = "healthy"
               PROVE  \E i \in Quits : /\ quit'[i].at = "quit"
                                       /\ quit[i].at = "dialog" \/ (quit[i].at = "ask" /\ "unknown" \in Status)
    OBVIOUS
  <2>0. shell \in ShellStates /\ quit \in [Quits -> QuitStates]
    BY DEF ShellIInv, Typed
  <2>1. CASE \E said \in Said : RestartAnswer(said) \/ RestartRecheck(said)
    BY <2>0, <2>1 DEF RestartAnswer, RestartRecheck, Go, ShellStates
  <2>2. ASSUME NEW i \in Quits, NEW said \in Said, QuitAnswer(i, said)
        PROVE  quit'[i].at = "quit" /\ quit[i].at = "ask" /\ "unknown" \in Status
    <3>1. said \in Status /\ said # "busy" /\ quit[i].at = "ask"
      BY <2>0, <2>2 DEF QuitAnswer, ShellStates
    <3>2. said = "unknown"
      BY <3>1, RecordingIsNotIdle
    <3>3. quit' = [quit EXCEPT ![i].at = "quit"]
      BY <2>2, <3>2 DEF QuitAnswer
    <3> QED
      BY <2>0, <3>1, <3>2, <3>3 DEF QuitStates
  <2>3. ASSUME NEW i \in Quits, NEW yes \in BOOLEAN, QuitDialog(i, yes)
        PROVE  quit'[i].at = "quit" /\ quit[i].at = "dialog"
    <3>1. yes /\ quit[i].at = "dialog"
      BY <2>0, <2>3 DEF QuitDialog, ShellStates
    <3>2. quit' = [quit EXCEPT ![i].at = "quit"]
      BY <2>3, <3>1 DEF QuitDialog
    <3> QED
      BY <2>0, <3>1, <3>2 DEF QuitStates
  <2> QED
    BY <2>1, <2>2, <2>3, GuardedSteps DEF Unguarded
<1> QED
  BY <1>1, ShellInvariant, PTL DEF ShellSpec, QuitSparesRecording

----------------------------------------------------------------------------
(* What is reported.  createWindow() and "Restart recorder" await the call *)
(* they made, never two calls at once, and while they do the state         *)
(* callback says nothing: the call that failed is reported by them.  Once  *)
(* something is reported, no call is awaited any more and none will spawn, *)
(* and there is no process left to lose.                                   *)

\* The calls whose outcome main.ts awaits.
Awaited == {c \in chains : c.who # "exit"}

\* Nothing more happens by itself: a stop is under way, or the process is lost for good.
Over == ~sup.stopping => Entitled = {} /\ Lost(sup.proc)

AwaitedOnce ==
    /\ \A c, d \in Awaited : c = d
    /\ \A c \in Awaited : /\ c.who = "launch" => ~shell.settled
                          /\ c.who = "restart" => shell.rst = "wait"
                          /\ c.ep = sup.epoch \/ sup.stopping
                          /\ c.at = "reap" => Over

ManualHeld ==
    /\ shell.loaded \/ shell.rst # "no" => shell.settled
    /\ shell.rst \in {"stop", "start", "wait"} => shell.manual

ReportEnds == shell.reports # 0 => shell.reports = 1 /\ Awaited = {} /\ Over

ReportInv == AwaitedOnce /\ ManualHeld /\ ReportEnds

LEMMA ReportStarts == ShellInit => ReportInv
<1> SUFFICES ASSUME ShellInit PROVE ReportInv
  OBVIOUS
<1>1. \A c \in chains : c.who = "launch" /\ c.at = "health" /\ c.ep = sup.epoch
  BY DEF ShellInit, Chain
<1>2. \A c, d \in chains : c = d
  BY DEF ShellInit
<1>3. ~shell.settled /\ ~shell.loaded /\ shell.rst = "no" /\ shell.reports = 0
  BY DEF ShellInit
<1> QED
  BY <1>1, <1>2, <1>3 DEF ReportInv, AwaitedOnce, ManualHeld, ReportEnds, Awaited

\* A process that is gone stays so.
LossStays == NoProcess(sup.proc) => sup.proc = 0 \/ os'[sup.proc] \in {"failing", "failed", "exited"}

\* A step that reports nothing, and after which every call waits as it did before or has returned
\* to nobody; f says what became of each.
LEMMA NothingReported ==
  ASSUME ShellIInv, ReportInv,
         NEW f, chains' \subseteq {f[c] : c \in chains},
         \A c \in chains : f[c].who = c.who /\ f[c].at = c.at /\ f[c].ep = c.ep,
         UNCHANGED <<shell.reports, shell.settled, shell.loaded>>,
         shell'.rst # "no" => shell.rst # "no" \/ shell.loaded,
         shell.rst = "wait" => shell'.rst = "wait",
         shell'.rst \in {"stop", "start", "wait"} => shell'.manual,
         sup'.stopping \/ (~sup.stopping /\ sup'.epoch = sup.epoch),
         sup'.proc = sup.proc, abandoned \subseteq abandoned',
         LossStays
  PROVE  ReportInv'
<1>1. Over => Over'
  BY DEF Over, Entitled, StandsDown, Lost, NoProcess, LossStays
<1>2. \A c \in Awaited' : \E d \in Awaited : c = f[d]
  BY DEF Awaited
<1>a. Awaited \subseteq chains
  BY DEF Awaited
<1>3. AwaitedOnce'
  <2>1. \A c, d \in Awaited' : c = d
    BY <1>2 DEF ReportInv, AwaitedOnce
  <2>2. ASSUME NEW c \in Awaited'
        PROVE  /\ c.who = "launch" => ~shell'.settled
               /\ c.who = "restart" => shell'.rst = "wait"
               /\ c.ep = sup'.epoch \/ sup'.stopping
               /\ c.at = "reap" => Over'
    <3>1. PICK d \in Awaited : c = f[d]
      BY <1>2
    <3> QED
      BY <3>1, <1>1, <1>a DEF ReportInv, AwaitedOnce
  <2> QED
    BY <2>1, <2>2 DEF AwaitedOnce
<1>4. ManualHeld'
  BY DEF ReportInv, ManualHeld
<1>5. ReportEnds'
  BY <1>1, <1>2 DEF ReportInv, ReportEnds
<1> QED
  BY <1>3, <1>4, <1>5 DEF ReportInv

\* The same for a step that leaves the calls alone.
LEMMA CallsLeft ==
  ASSUME ShellIInv, ReportInv, UNCHANGED chains,
         UNCHANGED <<shell.reports, shell.settled, shell.loaded>>,
         shell'.rst # "no" => shell.rst # "no" \/ shell.loaded,
         shell.rst = "wait" => shell'.rst = "wait",
         shell'.rst \in {"stop", "start", "wait"} => shell'.manual,
         sup'.stopping \/ (~sup.stopping /\ sup'.epoch = sup.epoch),
         sup'.proc = sup.proc, abandoned \subseteq abandoned',
         LossStays
  PROVE  ReportInv'
<1> DEFINE f == [c \in chains |-> c]
<1>1. chains' \subseteq {f[c] : c \in chains} /\ \A c \in chains : f[c] = c
  OBVIOUS
<1> HIDE DEF f
<1> QED
  BY <1>1, NothingReported

\* What a call's return does to the fields that matter here.
LEMMA ReturnedSays ==
  ASSUME NEW sh \in ShellStates, NEW who \in Waiters, NEW st
  PROVE  LET sh1 == Returned(sh, who, st)
             told == IF st # "ready" THEN 1 ELSE 0
         IN  /\ sh1 \in ShellStates
             /\ who = "launch" => sh1.settled /\ sh1.rst = sh.rst /\ sh1.manual = sh.manual /\ sh1.reports = sh.reports + told
             /\ who = "restart" => /\ sh1.settled = sh.settled /\ sh1.loaded = sh.loaded /\ sh1.rst = "no"
                                   /\ sh1.reports = sh.reports + told
             /\ who = "exit" => sh1 = sh
<1> DEFINE told == IF st # "ready" THEN 1 ELSE 0
           ready == st = "ready"
           sh1 == Returned(sh, who, st)
<1>1. sh1 \in ShellStates
  BY ReturnedFact
<1>2. told \in Nat
  OBVIOUS
<1>3. /\ who = "launch" => sh1 = [sh EXCEPT !.settled = TRUE, !.loaded = ready, !.reports = @ + told]
      /\ who = "restart" => sh1 = [sh EXCEPT !.manual = FALSE, !.rst = "no", !.rstProc = 0, !.said = "idle",
                                             !.lost = FALSE, !.reports = @ + told]
      /\ who = "exit" => sh1 = sh
  BY DEF Returned, Waiters
<1> HIDE DEF told, sh1, ready
<1>4. /\ who = "launch" => sh1.settled /\ sh1.rst = sh.rst /\ sh1.manual = sh.manual /\ sh1.reports = sh.reports + told
      /\ who = "restart" => /\ sh1.settled = sh.settled /\ sh1.loaded = sh.loaded /\ sh1.rst = "no"
                            /\ sh1.reports = sh.reports + told
  BY <1>3 DEF ShellStates
<1> QED
  BY <1>1, <1>3, <1>4 DEF told, sh1

\* The awaited call has returned: its outcome is the only report, and nothing follows it.
LEMMA OutcomeTold ==
  ASSUME ReportInv, shell.reports = 0, Awaited' = {},
         NEW who \in {"launch", "restart"}, who = "launch" => ~shell.settled, who = "restart" => shell.rst = "wait",
         NEW sh \in ShellStates, sh.reports = shell.reports, sh.settled = shell.settled, sh.loaded = shell.loaded,
         sh.rst = shell.rst, sh.manual = shell.manual,
         NEW st, shell' = Returned(sh, who, st), st # "ready" => Over'
  PROVE  ReportInv'
<1>1. who \in Waiters
  BY DEF Waiters
<1>2. who = "launch" => shell.rst = "no"
  BY DEF ReportInv, ManualHeld
<1>3. who = "restart" => shell.settled
  BY DEF ReportInv, ManualHeld
<1>4. shell'.settled /\ shell'.rst = "no" /\ shell'.reports = IF st # "ready" THEN 1 ELSE 0
  BY <1>1, <1>2, <1>3, ReturnedSays
<1> QED
  BY <1>4 DEF ReportInv, AwaitedOnce, ManualHeld, ReportEnds

LEMMA AwaitedReturns ==
  ASSUME ShellIInv, ReportInv, NEW c \in Awaited, chains' = chains \ {c},
         NEW sh \in ShellStates, sh.reports = shell.reports, sh.settled = shell.settled, sh.loaded = shell.loaded,
         sh.rst = shell.rst, sh.manual = shell.manual,
         NEW st, shell' = Returned(sh, c.who, st), st # "ready" => Over'
  PROVE  ReportInv'
<1>1. Awaited' = {} /\ shell.reports = 0
  BY DEF Awaited, ReportInv, AwaitedOnce, ReportEnds
<1>2. c.who \in {"launch", "restart"}
  BY DEF ShellIInv, Typed, Calls, Waiters, Awaited
<1>3. (c.who = "launch" => ~shell.settled) /\ (c.who = "restart" => shell.rst = "wait")
  BY DEF ReportInv, AwaitedOnce
<1> QED
  BY <1>1, <1>2, <1>3, OutcomeTold

\* A call that is not entitled to go on returns.
LEMMA StoodDown ==
  ASSUME ShellIInv, ReportInv, UNCHANGED <<abandoned, os>>, NEW c \in chains, c \notin Entitled,
         sup'.proc = sup.proc, sup'.epoch = sup.epoch, sup'.stopping = sup.stopping, chains' = chains \ {c},
         shell' = Returned(shell, c.who, sup.state)
  PROVE  ReportInv'
<1>0. shell \in ShellStates /\ c.who \in Waiters
  BY DEF ShellIInv, Typed, Calls
<1>1. CASE c \in Awaited
  <2>1. c.ep = sup.epoch /\ ~sup.stopping => Over
    BY <1>1 DEF ReportInv, AwaitedOnce, Entitled, StandsDown
  <2>2. Over
    BY <1>1, <2>1 DEF ReportInv, AwaitedOnce, Over
  <2>3. Over'
    BY <2>2 DEF Over, Entitled, StandsDown, Lost, NoProcess
  <2> QED
    BY <1>0, <1>1, <2>3, AwaitedReturns
<1>2. CASE c \notin Awaited
  <2>1. shell' = shell
    BY <1>0, <1>2, ReturnedSays DEF Awaited
  <2> DEFINE f == [d \in chains |-> d]
  <2>2. chains' \subseteq {f[d] : d \in chains} /\ \A d \in chains : f[d] = d
    OBVIOUS
  <2> HIDE DEF f
  <2>3. shell'.rst \in {"stop", "start", "wait"} => shell'.manual
    BY <2>1 DEF ReportInv, ManualHeld
  <2>4. LossStays
    BY DEF NoProcess, LossStays
  <2> QED
    BY <2>1, <2>2, <2>3, <2>4, NothingReported
<1> QED
  BY <1>1, <1>2

\* While something may still happen by itself, nothing has been reported.
LEMMA NotOver == ReportInv /\ ~Over => shell.reports = 0 /\ \A c \in Awaited : c.at # "reap"
BY DEF ReportInv, ReportEnds, AwaitedOnce

\* While a call is awaited the state callback says nothing.
LEMMA AwaitedSilences == ShellIInv /\ ReportInv /\ Awaited # {} => ~(shell.settled /\ ~shell.manual)
<1> SUFFICES ASSUME ShellIInv, ReportInv, NEW c \in Awaited
             PROVE  ~(shell.settled /\ ~shell.manual)
  OBVIOUS
<1>1. c.who \in {"launch", "restart"}
  BY DEF ShellIInv, Typed, Calls, Waiters, Awaited
<1> QED
  BY <1>1 DEF ReportInv, AwaitedOnce, ManualHeld

\* The supervisor gives up, or waits to try again: the process is lost, nobody else is on the way.
LEMMA LossHandled ==
  ASSUME ShellIInv, ReportInv, ~Over, ~sup.stopping,
         os'[sup.proc] \in {"failing", "failed", "exited"} \/ sup.proc \in abandoned',
         NEW s \in SupStates, s.epoch = sup.epoch, ~s.stopping, s.proc = sup.proc,
         NEW sh \in ShellStates, sh.reports = shell.reports, sh.settled = shell.settled, sh.loaded = shell.loaded,
         sh.rst = shell.rst, sh.manual = shell.manual,
         NEW others \in SUBSET chains, \A d \in others : d.at = "reap" \/ d.ep # sup.epoch,
         NEW who \in Waiters, who = "launch" => ~shell.settled, who = "restart" => shell.rst = "wait",
         who # "exit" => \A d \in others : d.who = "exit",
         Unexpected(s, sh, who, others)
  PROVE  ReportInv'
<1>0. shell.reports = 0 /\ \A c \in Awaited : c.at # "reap"
  BY NotOver
<1>1. chains \subseteq Calls /\ others \in SUBSET Calls
  BY DEF ShellIInv, Typed
<1>2. sup'.proc = sup.proc /\ sup'.epoch = sup.epoch /\ ~sup'.stopping
  BY <1>1, UnexpectedFact
<1>3. CASE s.restarts >= MaxRestarts
  <2> DEFINE loud == sh.settled /\ ~sh.manual
             sh1 == IF loud THEN [sh EXCEPT !.reports = @ + 1, !.lost = FALSE] ELSE sh
  <2>1. shell' = Returned(sh1, who, "crashed") /\ chains' = others
    BY <1>3, Zenon DEF Unexpected
  <2>2. Over'
    BY <1>2, <2>1 DEF Over, Entitled, StandsDown, Lost, NoProcess
  <2>3. CASE who # "exit"
    <3>1. ~loud
      BY <2>3 DEF ReportInv, ManualHeld, Waiters
    <3>2. sh1 = sh
      BY <3>1
    <3>3. Awaited' = {}
      BY <2>1, <2>3 DEF Awaited
    <3>4. who \in {"launch", "restart"}
      BY <2>3 DEF Waiters
    <3> HIDE DEF sh1, loud
    <3> QED
      BY <1>0, <2>1, <2>2, <3>2, <3>3, <3>4, OutcomeTold
  <2>4. CASE who = "exit"
    <3>1. sh1 \in ShellStates /\ sh1.settled = sh.settled /\ sh1.loaded = sh.loaded
          /\ sh1.rst = sh.rst /\ sh1.manual = sh.manual /\ sh1.reports = IF loud THEN sh.reports + 1 ELSE sh.reports
      <4>1. sh.reports + 1 \in Nat
        BY DEF ShellStates
      <4> QED
        BY <4>1 DEF ShellStates
    <3>2. shell' = sh1
      <4> HIDE DEF sh1
      <4> QED
        BY <2>1, <2>4, <3>1, ReturnedSays
    <3>3. Awaited' \subseteq Awaited
      BY <2>1 DEF Awaited
    <3>4. loud => Awaited' = {}
      BY <3>3, <1>1, AwaitedSilences
    <3> HIDE DEF sh1
    <3>5. AwaitedOnce'
      BY <1>2, <2>2, <3>1, <3>2, <3>3 DEF ReportInv, AwaitedOnce
    <3>6. ManualHeld'
      BY <3>1, <3>2 DEF ReportInv, ManualHeld
    <3>7. ReportEnds'
      BY <1>0, <2>2, <3>1, <3>2, <3>4 DEF ReportEnds
    <3> QED
      BY <3>5, <3>6, <3>7 DEF ReportInv
  <2> QED
    BY <2>3, <2>4
<1>4. CASE ~(s.restarts >= MaxRestarts)
  <2> DEFINE new == Chain("backoff", 0, s.epoch, who)
  <2>1. shell' = sh /\ chains' = others \union {new}
    BY <1>4, Zenon DEF Unexpected
  <2>2. new.at = "backoff" /\ new.who = who /\ new.ep = sup.epoch
    BY DEF Chain
  <2> HIDE DEF new
  <2>3. CASE who = "exit"
    <3>1. Awaited' \subseteq Awaited
      BY <2>1, <2>2, <2>3 DEF Awaited
    <3> QED
      BY <1>0, <1>2, <2>1, <3>1 DEF ReportInv, AwaitedOnce, ManualHeld, ReportEnds
  <2>4. CASE who # "exit"
    <3>1. Awaited' = {new}
      BY <2>1, <2>2, <2>4 DEF Awaited
    <3> QED
      BY <1>0, <1>2, <2>1, <2>2, <3>1 DEF ReportInv, AwaitedOnce, ManualHeld, ReportEnds
  <2> QED
    BY <2>3, <2>4
<1> QED
  BY <1>3, <1>4

\* A new process: nothing is reported of it yet.
LEMMA SpawnSays ==
  ASSUME ShellIInv, ReportInv, NEW s \in SupStates, ~s.stopping, NEW others \in SUBSET chains,
         NEW sh \in ShellStates, sh.settled = shell.settled, sh.loaded = shell.loaded, sh.manual = shell.manual,
         sh.rst # "no" => shell.rst # "no", sh.rst \in {"stop", "start", "wait"} => shell.rst \in {"stop", "start", "wait"},
         shell.rst = "wait" => sh.rst = "wait",
         NEW who \in Waiters, who = "launch" => ~shell.settled, who = "restart" => sh.rst = "wait",
         who # "exit" => \A d \in others : d.who = "exit",
         who = "exit" => ~Over /\ s.epoch = sup.epoch /\ ~sup.stopping,
         SpawnAndWait(s, sh, who, others)
  PROVE  ReportInv'
<1>1. PICK p \in Pids :
        /\ sup' = [s EXCEPT !.state = "starting", !.proc = p, !.starting = p]
        /\ shell' = [sh EXCEPT !.reports = 0]
        /\ chains' = others \union {Chain("health", p, s.epoch, who)}
  BY Zenon DEF SpawnAndWait
<1>2. sup'.epoch = s.epoch /\ ~sup'.stopping
  BY <1>1 DEF SupStates
<1>3. /\ shell'.reports = 0 /\ shell'.settled = sh.settled /\ shell'.loaded = sh.loaded /\ shell'.manual = sh.manual
      /\ shell'.rst = sh.rst
  BY <1>1 DEF ShellStates
<1> DEFINE new == Chain("health", p, s.epoch, who)
<1>4. new.at = "health" /\ new.who = who /\ new.ep = s.epoch /\ chains' = others \union {new}
  BY <1>1 DEF Chain
<1> HIDE DEF new
<1>5. AwaitedOnce'
  <2>1. CASE who = "exit"
    <3>1. Awaited' \subseteq Awaited
      BY <1>4, <2>1 DEF Awaited
    <3>2. \A c \in Awaited : c.at # "reap"
      BY <2>1, NotOver
    <3> QED
      BY <1>2, <1>3, <2>1, <3>1, <3>2 DEF ReportInv, AwaitedOnce
  <2>2. CASE who # "exit"
    <3>1. Awaited' = {new}
      BY <1>4, <2>2 DEF Awaited
    <3> QED
      BY <1>2, <1>3, <1>4, <3>1 DEF AwaitedOnce
  <2> QED
    BY <2>1, <2>2
<1> QED
  BY <1>3, <1>5 DEF ReportInv, ManualHeld, ReportEnds

\* The news of a ready backend reports nothing, nor does a recording that is lost.
LEMMA SameReports ==
  ASSUME shell \in ShellStates, NEW r, NEW p
  PROVE  \A sh \in {Heard("ready", r), LostWith(shell, p)} :
            /\ sh \in ShellStates /\ sh.reports = shell.reports /\ sh.settled = shell.settled
            /\ sh.loaded = shell.loaded /\ sh.rst = shell.rst /\ sh.manual = shell.manual
<1>1. Heard("ready", r) \in {shell, [shell EXCEPT !.lost = FALSE]}
  BY DEF Heard
<1>2. Heard("ready", r) \in ShellStates /\ LostWith(shell, p) \in ShellStates
  BY HeardFact, LostWithFact DEF Kept
<1> QED
  BY <1>1, <1>2 DEF LostWith, ShellStates

\* A startup that takes too long is given up on: the state callback reports it, or whoever awaits it.
LEMMA TimeoutSays ==
  ASSUME ShellIInv, ReportInv, NEW c \in Entitled, c.p = sup.proc, UNCHANGED os,
         abandoned' = abandoned \union {c.p}, sup'.proc = sup.proc, sup'.epoch = sup.epoch, sup'.stopping = sup.stopping,
         shell' = Heard("crashed", sup.restarts), chains' = (chains \ {c}) \union {[c EXCEPT !.at = "reap"]}
  PROVE  ReportInv'
<1> DEFINE loud == shell.settled /\ ~shell.manual
           new == [c EXCEPT !.at = "reap"]
<1>0. shell \in ShellStates /\ chains \subseteq Calls /\ c \in chains /\ ~sup.stopping /\ c.ep = sup.epoch
  BY DEF ShellIInv, Typed, Entitled, StandsDown
<1>1. new.at = "reap" /\ new.who = c.who /\ new.ep = c.ep
  BY <1>0 DEF Calls
<1>2. shell.reports = 0 /\ \A d \in Awaited : d.at # "reap"
  BY <1>0, NotOver DEF Over
<1>3. /\ shell'.settled = shell.settled /\ shell'.loaded = shell.loaded /\ shell'.rst = shell.rst
      /\ shell'.manual = shell.manual /\ shell'.reports = IF loud THEN 1 ELSE 0
  <2>1. shell' = IF loud THEN [shell EXCEPT !.reports = @ + 1, !.lost = FALSE] ELSE shell
    BY DEF Heard
  <2>2. CASE loud
    <3>1. shell' = [shell EXCEPT !.reports = 1, !.lost = FALSE]
      BY <1>2, <2>1, <2>2
    <3> QED
      BY <1>0, <2>2, <3>1 DEF ShellStates
  <2>3. CASE ~loud
    BY <1>2, <2>1, <2>3
  <2> QED
    BY <2>2, <2>3
<1>4. loud => Awaited = {}
  BY AwaitedSilences
<1> HIDE DEF new, loud
<1>5. chains' = (chains \ {c}) \union {new}
  BY DEF new
<1>6. Over'
  <2>1. \A d \in Entitled : d = c
    BY DEF ShellIInv, Ruled, OneEntitled
  <2>2. Entitled' = {}
    BY <1>1, <1>5, <2>1 DEF Entitled, StandsDown
  <2> QED
    BY <2>2 DEF Over, Lost
<1>7. CASE c \in Awaited
  <2>1. Awaited' = {new}
    BY <1>1, <1>5, <1>7 DEF Awaited, ReportInv, AwaitedOnce
  <2> QED
    BY <1>0, <1>1, <1>3, <1>4, <1>6, <1>7, <2>1 DEF ReportInv, AwaitedOnce, ManualHeld, ReportEnds
<1>8. CASE c \notin Awaited
  <2>1. Awaited' = Awaited
    BY <1>0, <1>1, <1>5, <1>8 DEF Awaited
  <2> QED
    BY <1>0, <1>3, <1>4, <1>6, <2>1 DEF ReportInv, AwaitedOnce, ManualHeld, ReportEnds
<1> QED
  BY <1>7, <1>8

\* Every step of the shell reports one failure once.
LEMMA NextReport == ShellIInv /\ ReportInv /\ [ShellNext]_shellVars => ReportInv'
<1> SUFFICES ASSUME ShellIInv, ReportInv, [ShellNext]_shellVars PROVE ReportInv'
  OBVIOUS
<1> USE PidsFact
<1>a. /\ sup \in SupStates /\ shell \in ShellStates /\ os \in [Pids -> OsStates] /\ chains \subseteq Calls
      /\ sup.proc \in Pids /\ 0 \notin Pids
      /\ shell.rst \in {"stop", "start", "wait"} => shell.manual
  BY DEF ShellIInv, Ruled, Typed, Spawned, SupStates, ReportInv, ManualHeld
<1>b. \A c \in Entitled : c \in chains /\ c.at # "reap" /\ ~sup.stopping /\ c.ep = sup.epoch
  BY DEF Entitled, StandsDown
<1>c. \A c, d \in Entitled : c = d
  BY DEF ShellIInv, Ruled, OneEntitled
<1>d. \A c \in chains : c.who \in Waiters /\ (c.who = "launch" => ~shell.settled) /\ (c.who = "restart" => shell.rst = "wait")
  BY <1>a DEF ReportInv, AwaitedOnce, Awaited, Calls
<1>e. \A c \in chains : c.who # "exit" => \A d \in chains \ {c} : d.who = "exit"
  BY DEF ReportInv, AwaitedOnce, Awaited
<1>f. ~Over <=> ~sup.stopping /\ (Entitled # {} \/ ~Lost(sup.proc))
  BY DEF Over
\* The processes.
<1>1. ASSUME NEW p \in Pids, Boot(p) \/ Hang(p) \/ Revive(p) \/ RecordingStarts(p) PROVE ReportInv'
  <2>1. UNCHANGED <<sup, chains, abandoned, shell>>
    BY <1>1 DEF Boot, Hang, Revive, RecordingStarts
  <2>2. LossStays
    BY <1>1, <1>a DEF Boot, Hang, Revive, RecordingStarts, NoProcess, LossStays
  <2> QED
    BY <2>1, <2>2, <1>a, CallsLeft
<1>2. CASE RecordingEnds
  <2>1. UNCHANGED <<sup, chains, abandoned, shell, os>>
    BY <1>2 DEF RecordingEnds
  <2>2. LossStays
    BY <2>1 DEF NoProcess, LossStays
  <2> QED
    BY <2>1, <2>2, <1>a, CallsLeft
<1>3. ASSUME NEW p \in Pids, Exit(p) PROVE ReportInv'
  <2>1. os' = [os EXCEPT ![p] = "exited"] /\ os[p] \in Alive /\ UNCHANGED abandoned
    BY <1>3 DEF Exit
  <2>2. LossStays
    BY <2>1, <1>a DEF NoProcess, LossStays
  <2>3. /\ StopLiveness(sup).proc = sup.proc /\ StopLiveness(sup).epoch = sup.epoch
        /\ StopLiveness(sup).stopping = sup.stopping /\ StopLiveness(sup) \in SupStates
    BY <1>a, SupStopLiveness DEF StopLiveness, SupStates
  <2>4. CASE UNCHANGED <<sup, shell, chains>>
    BY <2>1, <2>2, <2>4, <1>a, CallsLeft
  <2> DEFINE f == [c \in chains |-> IF c.at = "health" /\ c.p = p THEN [c EXCEPT !.gone = TRUE] ELSE c]
  <2>5. \A c \in chains : f[c].at = c.at /\ f[c].who = c.who /\ f[c].ep = c.ep
    BY <1>a DEF Calls
  <2>6. StartupExited(p) = {f[c] : c \in chains}
    BY DEF StartupExited
  <2> HIDE DEF f
  <2>7. CASE /\ sup' = [StopLiveness(sup) EXCEPT !.state = "stopped"]
             /\ chains' = IF sup.starting = p THEN StartupExited(p) ELSE chains
             /\ UNCHANGED shell
    <3>1. sup'.proc = sup.proc /\ sup'.epoch = sup.epoch /\ sup'.stopping = sup.stopping
      BY <2>3, <2>7 DEF SupStates
    <3>2. CASE sup.starting = p
      BY <2>1, <2>2, <2>5, <2>6, <2>7, <3>1, <3>2, <1>a, NothingReported
    <3>3. CASE sup.starting # p
      BY <2>1, <2>2, <2>7, <3>1, <3>3, <1>a, CallsLeft
    <3> QED
      BY <3>2, <3>3
  <2>8. LET sh == LostWith(shell, p)
        IN  /\ sh \in ShellStates /\ sh.reports = shell.reports /\ sh.settled = shell.settled
            /\ sh.loaded = shell.loaded /\ sh.rst = shell.rst /\ sh.manual = shell.manual
    <3>1. LostWith(shell, p) \in ShellStates
      BY <1>a, LostWithFact
    <3> QED
      BY <3>1, <1>a DEF LostWith, ShellStates
  <2>9. CASE sup' = StopLiveness(sup) /\ chains' = StartupExited(p) /\ shell' = LostWith(shell, p)
    BY <2>1, <2>2, <2>3, <2>5, <2>6, <2>8, <2>9, <1>a, NothingReported
  <2>10. CASE /\ ~Stale(p) /\ ~sup.stopping /\ sup.starting # p
              /\ Unexpected(StopLiveness(sup), LostWith(shell, p), "exit", chains)
    <3>1. sup.proc = p /\ p \notin abandoned /\ ~NoProcess(p)
      BY <2>1, <2>10, <1>a DEF Stale, NoProcess, Alive
    <3>2. \A c \in chains : c.at = "reap" \/ c.ep # sup.epoch
      BY <2>10, <3>1, <1>a DEF ShellIInv, Ruled, StartupIsProc, SpawnAfterLoss, Lost, Entitled, StandsDown, Calls
    <3>3. ~Over
      BY <2>10, <3>1, <1>f DEF Lost
    <3> QED
      BY <2>1, <2>3, <2>8, <2>10, <3>1, <3>2, <3>3, <1>a, LossHandled DEF Waiters
  <2> QED
    BY <1>3, <2>4, <2>7, <2>9, <2>10 DEF Exit
<1>4. ASSUME NEW p \in Pids, SpawnError(p) PROVE ReportInv'
  <2>1. os' = [os EXCEPT ![p] = "failed"] /\ UNCHANGED abandoned
    BY <1>4 DEF SpawnError
  <2>2. LossStays
    BY <1>4, <1>a DEF SpawnError, NoProcess, LossStays
  <2>3. sup'.proc = sup.proc /\ sup'.epoch = sup.epoch /\ sup'.stopping = sup.stopping /\ UNCHANGED shell
    BY <1>4, <1>a DEF SpawnError, SupStates
  <2>4. CASE UNCHANGED chains
    BY <2>1, <2>2, <2>3, <2>4, <1>a, CallsLeft
  <2>5. CASE chains' = StartupExited(p)
    <3> DEFINE f == [c \in chains |-> IF c.at = "health" /\ c.p = p THEN [c EXCEPT !.gone = TRUE] ELSE c]
    <3>1. \A c \in chains : f[c].at = c.at /\ f[c].who = c.who /\ f[c].ep = c.ep
      BY <1>a DEF Calls
    <3>2. chains' = {f[c] : c \in chains}
      BY <2>5 DEF StartupExited
    <3> HIDE DEF f
    <3> QED
      BY <2>1, <2>2, <2>3, <3>1, <3>2, <1>a, NothingReported
  <2> QED
    BY <1>4, <2>4, <2>5 DEF SpawnError
\* The suspended calls.
<1>5. \A c \in chains : NotStarting(c).proc = sup.proc /\ NotStarting(c).epoch = sup.epoch
                        /\ NotStarting(c).stopping = sup.stopping /\ NotStarting(c) \in SupStates
  BY <1>a, NotStartingFact DEF NotStarting, SupStates
<1>6. ASSUME NEW c \in chains, HealthReady(c) PROVE ReportInv'
  <2>1. chains' = chains \ {c} /\ c.at = "health" /\ UNCHANGED <<abandoned, os>>
    BY <1>6 DEF HealthReady
  <2>2. CASE StandsDown(c) /\ sup' = NotStarting(c) /\ shell' = Returned(shell, c.who, sup.state)
    BY <2>1, <2>2, <1>5, StoodDown DEF Entitled
  <2>3. CASE /\ sup' = [NotStarting(c) EXCEPT !.state = "ready", !.armed = c.p, !.misses = 0, !.stable = TRUE]
             /\ shell' = Returned(Heard("ready", sup.restarts), c.who, "ready")
    <3> DEFINE sh == Heard("ready", sup.restarts)
    <3>1. /\ sh \in ShellStates /\ sh.reports = shell.reports /\ sh.settled = shell.settled
          /\ sh.loaded = shell.loaded /\ sh.rst = shell.rst /\ sh.manual = shell.manual
      BY <1>a, SameReports
    <3> HIDE DEF sh
    <3>2. sup'.proc = sup.proc /\ sup'.epoch = sup.epoch /\ sup'.stopping = sup.stopping
      BY <2>3, <1>5 DEF SupStates
    <3>3. CASE c \in Awaited
      BY <2>1, <2>3, <3>1, <3>3, AwaitedReturns DEF sh
    <3>4. CASE c \notin Awaited
      <4>1. shell' = sh
        BY <2>3, <3>1, <3>4, <1>d, ReturnedSays DEF sh, Awaited
      <4> DEFINE f == [d \in chains |-> d]
      <4>2. chains' \subseteq {f[d] : d \in chains} /\ \A d \in chains : f[d] = d
        BY <2>1
      <4> HIDE DEF f
      <4>3. LossStays
        BY <2>1, <3>2 DEF NoProcess, LossStays
      <4> QED
        BY <2>1, <3>1, <3>2, <4>1, <4>2, <4>3, <1>a, NothingReported
    <3> QED
      BY <3>3, <3>4
  <2> QED
    BY <1>6, <2>2, <2>3 DEF HealthReady
<1>7. ASSUME NEW c \in chains, HealthGone(c) PROVE ReportInv'
  <2>1. c.at = "health" /\ c.gone /\ UNCHANGED <<abandoned, os>>
    BY <1>7 DEF HealthGone
  <2>2. CASE StandsDown(c) /\ sup' = NotStarting(c) /\ chains' = chains \ {c} /\ shell' = Returned(shell, c.who, sup.state)
    BY <2>1, <2>2, <1>5, StoodDown DEF Entitled
  <2>3. CASE ~StandsDown(c) /\ Unexpected(NotStarting(c), shell, c.who, chains \ {c})
    <3>1. c \in Entitled /\ ~sup.stopping
      BY <2>1, <2>3 DEF Entitled, StandsDown
    <3>2. os'[sup.proc] \in {"failing", "failed", "exited"}
      BY <2>1, <3>1, <1>a DEF ShellIInv, Ruled, StartupIsProc, NoProcess
    <3>3. \A d \in chains \ {c} : d.at = "reap" \/ d.ep # sup.epoch
      BY <3>1, <1>c DEF Entitled, StandsDown
    <3> QED
      BY <2>3, <3>1, <3>2, <3>3, <1>a, <1>d, <1>e, <1>f, <1>5, LossHandled
  <2> QED
    BY <1>7, <2>2, <2>3 DEF HealthGone
<1>8. ASSUME NEW c \in chains, HealthTimeout(c) PROVE ReportInv'
  <2>1. c.at = "health" /\ UNCHANGED os
    BY <1>8 DEF HealthTimeout
  <2>2. CASE /\ StandsDown(c) /\ sup' = NotStarting(c) /\ chains' = chains \ {c}
             /\ shell' = Returned(shell, c.who, sup.state) /\ UNCHANGED <<abandoned, killed>>
    BY <2>1, <2>2, <1>5, StoodDown DEF Entitled
  <2>3. CASE /\ ~StandsDown(c)
             /\ abandoned' = abandoned \union {c.p} /\ killed' = killed \union {c.p}
             /\ sup' = [NotStarting(c) EXCEPT !.state = "crashed"]
             /\ shell' = Heard("crashed", sup.restarts)
             /\ chains' = (chains \ {c}) \union {[c EXCEPT !.at = "reap"]}
    <3>1. c \in Entitled
      BY <2>1, <2>3 DEF Entitled
    <3>2. c.p = sup.proc
      BY <2>1, <3>1 DEF ShellIInv, Ruled, StartupIsProc
    <3>3. sup'.proc = sup.proc /\ sup'.epoch = sup.epoch /\ sup'.stopping = sup.stopping
      BY <2>3, <1>5 DEF SupStates
    <3> QED
      BY <2>1, <2>3, <3>1, <3>2, <3>3, TimeoutSays
  <2> QED
    BY <1>8, <2>2, <2>3 DEF HealthTimeout
<1>9. ASSUME NEW c \in chains, Reaped(c) PROVE ReportInv'
  <2>1. /\ chains' = chains \ {c} /\ c \notin Entitled /\ UNCHANGED <<sup, abandoned, os>>
        /\ shell' = Returned(shell, c.who, sup.state)
    BY <1>9 DEF Reaped, Entitled
  <2> QED
    BY <2>1, StoodDown
<1>10. ASSUME NEW c \in chains, BackoffOver(c) PROVE ReportInv'
  <2>1. c.at = "backoff" /\ UNCHANGED abandoned
    BY <1>10 DEF BackoffOver
  <2>2. CASE StandsDown(c) /\ chains' = chains \ {c} /\ shell' = Returned(shell, c.who, sup.state) /\ UNCHANGED <<sup, os>>
    BY <2>1, <2>2, StoodDown DEF Entitled
  <2>3. CASE ~StandsDown(c) /\ SpawnAndWait(sup, shell, c.who, chains \ {c})
    <3>1. c \in Entitled /\ ~sup.stopping
      BY <2>1, <2>3 DEF Entitled, StandsDown
    <3> QED
      BY <2>3, <3>1, <1>a, <1>d, <1>e, <1>f, SpawnSays
  <2> QED
    BY <1>10, <2>2, <2>3 DEF BackoffOver
\* The liveness probe and the stable timer.
<1>11. ASSUME UNCHANGED <<chains, shell, os, abandoned>>, sup'.proc = sup.proc, sup'.epoch = sup.epoch,
              sup'.stopping = sup.stopping
       PROVE  ReportInv'
  <2>1. LossStays
    BY <1>11 DEF NoProcess, LossStays
  <2> QED
    BY <1>11, <2>1, <1>a, CallsLeft
<1>12. CASE Stabilised \/ TickFires
  <2>1. UNCHANGED <<chains, shell, os, abandoned>>
    BY <1>12 DEF Stabilised, TickFires
  <2>2. sup'.proc = sup.proc /\ sup'.epoch = sup.epoch /\ sup'.stopping = sup.stopping
    BY <1>12, <1>a DEF Stabilised, TickFires, SupStates
  <2> QED
    BY <2>1, <2>2, <1>11
<1>13. ASSUME NEW t \in ticks, NEW ok \in BOOLEAN, ProbeReturns(t, ok) PROVE ReportInv'
  <2>1. UNCHANGED <<chains, shell, os, abandoned>>
    BY <1>13 DEF ProbeReturns
  <2>2. sup'.proc = sup.proc /\ sup'.epoch = sup.epoch /\ sup'.stopping = sup.stopping
    BY <1>13, <1>a DEF ProbeReturns, SupStates
  <2> QED
    BY <2>1, <2>2, <1>11
<1>14. ASSUME NEW t \in ticks, KillReturns(t) PROVE ReportInv'
  <2>1. UNCHANGED os
    BY <1>14 DEF KillReturns
  <2>2. CASE UNCHANGED <<sup, shell, chains, abandoned>>
    BY <2>1, <2>2, <1>11
  <2>3. CASE /\ ~(NoProcess(t.p) \/ sup.stopping \/ sup.proc # t.p)
             /\ abandoned' = abandoned \union {t.p}
             /\ Unexpected(StopLiveness(sup), LostWith(shell, t.p), "exit", chains)
    <3>1. sup.proc \notin abandoned
      BY <2>3 DEF ShellIInv, Ruled, OneCheck
    <3>2. \A c \in chains : c.at = "reap" \/ c.ep # sup.epoch
      BY <2>3, <3>1, <1>a DEF ShellIInv, Ruled, StartupIsProc, SpawnAfterLoss, Lost, Entitled, StandsDown, Calls
    <3>3. ~Over
      BY <2>3, <3>1, <1>f DEF Lost
    <3>4. /\ StopLiveness(sup).proc = sup.proc /\ StopLiveness(sup).epoch = sup.epoch
          /\ StopLiveness(sup).stopping = sup.stopping /\ StopLiveness(sup) \in SupStates
      BY <1>a, SupStopLiveness DEF StopLiveness, SupStates
    <3>5. LET sh == LostWith(shell, t.p)
          IN  /\ sh \in ShellStates /\ sh.reports = shell.reports /\ sh.settled = shell.settled
              /\ sh.loaded = shell.loaded /\ sh.rst = shell.rst /\ sh.manual = shell.manual
      BY <1>a, SameReports
    <3> QED
      BY <2>3, <3>2, <3>3, <3>4, <3>5, LossHandled DEF Waiters
  <2> QED
    BY <1>14, <2>2, <2>3 DEF KillReturns
\* The restart and the quits.
<1>15. ASSUME UNCHANGED <<chains, os, abandoned, shell.reports, shell.settled, shell.loaded>>,
              sup'.proc = sup.proc, sup'.stopping \/ (~sup.stopping /\ sup'.epoch = sup.epoch),
              shell'.rst # "no" => shell.rst # "no" \/ shell.loaded,
              shell.rst = "wait" => shell'.rst = "wait",
              shell'.rst \in {"stop", "start", "wait"} => shell'.manual
       PROVE  ReportInv'
  <2>1. LossStays
    BY <1>15 DEF NoProcess, LossStays
  <2> QED
    BY <1>15, <2>1, CallsLeft
<1>16. StopCalled(sup).stopping /\ StopCalled(sup).proc = sup.proc
  BY <1>a DEF StopCalled, StopLiveness, SupStates
<1>17. ASSUME RestartClick \/ \E yes \in BOOLEAN : RestartDialog(yes) PROVE ReportInv'
  <2>1. UNCHANGED <<sup, chains, os, abandoned>>
    BY <1>17 DEF RestartClick, RestartDialog
  <2>2. /\ UNCHANGED <<shell.reports, shell.settled, shell.loaded>> /\ shell.rst # "wait"
        /\ shell'.rst \notin {"stop", "start", "wait"} /\ (shell.loaded \/ shell.rst # "no")
    BY <1>17, <1>a DEF RestartClick, RestartDialog, ShellStates
  <2> QED
    BY <2>1, <2>2, <1>15
<1>18. ASSUME NEW said \in {"unknown", "busy", "idle"}, RestartAnswer(said) \/ RestartRecheck(said) PROVE ReportInv'
  <2>1. UNCHANGED <<chains, os, abandoned>> /\ shell.rst \in {"ask", "recheck"}
    BY <1>18 DEF RestartAnswer, RestartRecheck
  <2>2. CASE Go(said)
    <3>1. shell'.rst = "stop" /\ shell'.manual /\ UNCHANGED <<shell.reports, shell.settled, shell.loaded>>
      BY <2>2, <1>a DEF Go, ShellStates
    <3>2. sup' = StopCalled(sup)
      BY <2>2 DEF Go
    <3> QED
      BY <2>1, <3>1, <3>2, <1>15, <1>16
  <2>3. CASE UNCHANGED sup /\ (shell' = [shell EXCEPT !.rst = "no"] \/ shell' = [shell EXCEPT !.rst = "dialog"])
    <3>1. shell'.rst \in {"no", "dialog"} /\ UNCHANGED <<shell.reports, shell.settled, shell.loaded>>
      BY <2>3, <1>a DEF ShellStates
    <3> QED
      BY <2>1, <2>3, <3>1, <1>15
  <2> QED
    BY <1>18, <2>2, <2>3 DEF RestartAnswer, RestartRecheck
<1>19. CASE RestartStopped
  <2>1. UNCHANGED <<chains, os, abandoned>> /\ shell.rst = "stop"
    BY <1>19 DEF RestartStopped
  <2>2. /\ sup'.proc = sup.proc /\ sup'.epoch = sup.epoch /\ sup'.stopping = sup.stopping
        /\ shell'.rst = "start" /\ shell'.manual = shell.manual /\ UNCHANGED <<shell.reports, shell.settled, shell.loaded>>
    BY <1>19, <1>a DEF RestartStopped, SupStates, ShellStates
  <2> QED
    BY <2>1, <2>2, <1>a, <1>15
<1>20. CASE RestartStarts
  <2> DEFINE s == [sup EXCEPT !.stopping = FALSE, !.epoch = @ + 1, !.restarts = 0]
             sh == [shell EXCEPT !.rst = "wait"]
  <2>1. shell.rst = "start" /\ SpawnAndWait(s, sh, "restart", chains)
    BY <1>20 DEF RestartStarts
  <2>2. s \in SupStates /\ ~s.stopping
    BY <1>a, SupStart DEF SupStates
  <2>3. /\ sh \in ShellStates /\ sh.rst = "wait" /\ sh.settled = shell.settled /\ sh.loaded = shell.loaded
        /\ sh.manual = shell.manual
    BY <1>a DEF ShellStates
  <2> HIDE DEF s, sh
  <2>4. shell.settled
    BY <2>1 DEF ReportInv, ManualHeld
  <2>5. \A d \in chains : d.who = "exit"
    BY <2>1, <2>4, <1>d DEF Waiters
  <2> QED
    BY <2>1, <2>2, <2>3, <2>5, SpawnSays DEF Waiters
<1>21. ASSUME NEW i \in Quits, QuitClick(i) \/ QuitStopped(i) \/ BeforeQuit(i)
              \/ (\E said \in {"unknown", "busy", "idle"} : QuitAnswer(i, said)) \/ \E yes \in BOOLEAN : QuitDialog(i, yes)
       PROVE  ReportInv'
  <2>1. UNCHANGED <<chains, os, abandoned>>
    BY <1>21 DEF QuitClick, QuitStopped, BeforeQuit, QuitAnswer, QuitDialog
  <2>2. UNCHANGED <<shell.rst, shell.manual, shell.reports, shell.settled, shell.loaded>>
    BY <1>21, <1>a DEF QuitClick, QuitStopped, BeforeQuit, QuitAnswer, QuitDialog, ShellStates
  <2>3. sup'.proc = sup.proc /\ (sup'.stopping \/ (~sup.stopping /\ sup'.epoch = sup.epoch))
    <3>1. CASE sup' = sup
      BY <3>1, <1>a DEF SupStates
    <3>2. CASE sup' = StopCalled(sup)
      BY <3>2, <1>16
    <3>3. CASE sup' = [sup EXCEPT !.state = "stopped"]
      BY <3>3, <1>a DEF SupStates
    <3> QED
      BY <1>21, <3>1, <3>2, <3>3 DEF QuitClick, QuitStopped, BeforeQuit, QuitAnswer, QuitDialog
  <2> QED
    BY <2>1, <2>2, <2>3, <1>a, <1>15
<1>22. CASE AppGone
  <2>1. UNCHANGED <<sup, chains, os, abandoned>> /\ UNCHANGED <<shell.rst, shell.manual, shell.reports, shell.settled, shell.loaded>>
    BY <1>22, <1>a DEF AppGone, ShellStates
  <2> QED
    BY <2>1, <1>a, <1>15
<1>23. CASE UNCHANGED shellVars
  BY <1>23, <1>a, <1>11 DEF shellVars
<1> QED
  BY <1>1, <1>2, <1>3, <1>4, <1>6, <1>7, <1>8, <1>9, <1>10, <1>12, <1>13, <1>14, <1>17, <1>18, <1>19, <1>20, <1>21,
     <1>22, <1>23
     DEF ShellNext, SupervisorStep, OperatorStep, RestartStep, QuitStep, ProcessStep

\* One failure of the backend is reported once: by the state callback, by the failed start or as
\* the result of the restart (main.ts:241-248).
THEOREM AlwaysReportedOnce == ShellSpec => []ReportedOnce
<1>1. ShellInit => ShellIInv
  BY InitTyped, InitRuled DEF ShellIInv
<1>2. ShellIInv /\ [ShellNext]_shellVars => ShellIInv'
  BY NextTyped, NextRuled DEF ShellIInv
<1>3. ShellIInv /\ ReportInv => ReportedOnce
  <2> SUFFICES ASSUME ReportInv, ShellIInv PROVE ReportedOnce
    OBVIOUS
  <2> QED
    BY DEF ReportInv, ReportEnds, ReportedOnce
<1> QED
  BY <1>1, <1>2, <1>3, ReportStarts, NextReport, PTL DEF ShellSpec

----------------------------------------------------------------------------
(* THE NI-DAQ PAGE.                                                        *)
(* A local change of a page that has loaded outdates every load begun      *)
(* before it: a load that still applies knows the page's last change.      *)

CellShaped(c) ==
    c = [data |-> c.data, loading |-> c.loading, inflight |-> c.inflight, inflightEpoch |-> c.inflightEpoch, epoch |-> c.epoch,
         newest |-> c.newest]
PageShaped(p) ==
    p = [shown |-> p.shown, channels |-> p.channels, devices |-> p.devices, pop |-> p.pop, prompt |-> p.prompt, catalog |-> p.catalog,
         builder |-> p.builder, edits |-> p.edits, acts |-> p.acts, visit |-> p.visit]
LoadShaped(l) == l = [mine |-> l.mine, started |-> l.started, snap |-> l.snap, edits |-> l.edits]

\* The loads that no local change has outdated since they began.
NoneAhead(epoch, loads, edits) ==
    \A l \in loads : LoadShaped(l) /\ l.started \in Nat /\ l.started <= epoch /\ (l.started = epoch => l.edits = edits)

DaqIInv ==
    /\ CellShaped(daqCell) /\ PageShaped(daqPage) /\ daqCell.epoch \in Nat
    /\ NoneAhead(daqCell.epoch, daqLoads, daqPage.edits)

LEMMA CellFact ==
  ASSUME NEW c, CellShaped(c), c.epoch \in Nat
  PROVE  /\ CellShaped(Begun(c)) /\ Begun(c).epoch = c.epoch
         /\ \A d : CellShaped(mutate(c, d)) /\ mutate(c, d).epoch = c.epoch + 1
         /\ \A l : CellShaped(Loaded(c, l)) /\ Loaded(c, l).epoch = c.epoch
         /\ \A l : CellShaped(LoadFailed(c, l)) /\ LoadFailed(c, l).epoch = c.epoch
<1>1. CellShaped(Begun(c)) /\ Begun(c).epoch = c.epoch
  <2> DEFINE n == c.newest + 1
             o == c.epoch
             e == [c EXCEPT !.newest = n, !.loading = TRUE, !.inflight = TRUE, !.inflightEpoch = o]
  <2>1. e = [c EXCEPT !.newest = n, !.loading = TRUE, !.inflight = TRUE, !.inflightEpoch = o]
    OBVIOUS
  <2>2. Begun(c) = e
    BY Zenon DEF Begun
  <2> HIDE DEF n, o, e
  <2>3. CellShaped(e) /\ e.epoch = c.epoch
    BY <2>1 DEF CellShaped
  <2> QED
    BY <2>2, <2>3
<1>2. ASSUME NEW d
      PROVE  CellShaped(mutate(c, d)) /\ mutate(c, d).epoch = c.epoch + 1
  <2> DEFINE n == c.epoch + 1
             e == [c EXCEPT !.epoch = n, !.data = d]
  <2>1. e = [c EXCEPT !.epoch = n, !.data = d]
    OBVIOUS
  <2>2. mutate(c, d) = e
    BY Zenon DEF mutate
  <2> HIDE DEF n, e
  <2>3. CellShaped(e) /\ e.epoch = n
    BY <2>1 DEF CellShaped
  <2> QED
    BY <2>2, <2>3 DEF n
<1>3. ASSUME NEW e, NEW l, CellShaped(e), e.epoch = c.epoch
      PROVE  CellShaped(Ended(e, l)) /\ Ended(e, l).epoch = c.epoch
  <2> DEFINE f == [e EXCEPT !.loading = FALSE, !.inflight = FALSE]
  <2>1. f = [e EXCEPT !.loading = FALSE, !.inflight = FALSE]
    OBVIOUS
  <2>2. Ended(e, l) \in {f, e}
    BY Zenon DEF Ended
  <2> HIDE DEF f
  <2>3. CellShaped(f) /\ f.epoch = c.epoch
    BY <1>3, <2>1 DEF CellShaped
  <2> QED
    BY <1>3, <2>2, <2>3
<1>4. ASSUME NEW l
      PROVE  CellShaped([c EXCEPT !.data = l.snap]) /\ [c EXCEPT !.data = l.snap].epoch = c.epoch
  BY SMT DEF CellShaped
<1>5. ASSUME NEW l
      PROVE  CellShaped(Loaded(c, l)) /\ Loaded(c, l).epoch = c.epoch
  BY <1>3, <1>4, Zenon DEF Loaded
<1>6. ASSUME NEW l
      PROVE  CellShaped(LoadFailed(c, l)) /\ LoadFailed(c, l).epoch = c.epoch
  BY <1>3, Zenon DEF LoadFailed
<1> QED
  BY <1>1, <1>2, <1>5, <1>6

LEMMA DaqStarts == DaqInit => DaqIInv
BY SMT DEF DaqInit, DaqIInv, CellShaped, PageShaped, NoneAhead, NoCell, NoDaqPage

\* A page whose number of edits is that of the page.
SamePage(p) == PageShaped(p) /\ p.edits = daqPage.edits

LEMMA ChangeKeeps ==
  ASSUME DaqIInv, NEW p, SamePage(p), LocalChange(p), UNCHANGED daqLoads
  PROVE  DaqIInv'
<1>1. CellShaped(daqCell) /\ daqCell.epoch \in Nat /\ NoneAhead(daqCell.epoch, daqLoads, daqPage.edits)
  BY DEF DaqIInv
<1>2. CASE p.devices = -1
  <2>1. PageShaped(daqPage') /\ daqPage'.edits = daqPage.edits /\ daqCell' = daqCell
    BY <1>2, SMT DEF LocalChange, SamePage, PageShaped
  <2> QED
    BY <1>1, <2>1 DEF DaqIInv, NoneAhead
<1>3. CASE p.devices # -1
  <2>1. PageShaped(daqPage')
    BY <1>3, SMT DEF LocalChange, SamePage, PageShaped
  <2>2. daqCell' = mutate(daqCell, [channels |-> p.channels, devices |-> p.devices])
    BY <1>3 DEF LocalChange
  <2>3. CellShaped(daqCell') /\ daqCell'.epoch = daqCell.epoch + 1
    BY <1>1, <2>2, CellFact
  <2>4. NoneAhead(daqCell'.epoch, daqLoads', daqPage'.edits)
    BY <1>1, <2>3, SMT DEF NoneAhead
  <2> QED
    BY <1>1, <2>1, <2>3, <2>4 DEF DaqIInv
<1> QED
  BY <1>2, <1>3

\* A step that leaves the cell and the loads alone and only shows something else.
LEMMA ShowKeeps ==
  ASSUME DaqIInv, PageShaped(daqPage'), daqPage'.edits = daqPage.edits, UNCHANGED <<daqCell, daqLoads>>
  PROVE  DaqIInv'
BY DEF DaqIInv, NoneAhead, CellShaped, LoadShaped

LEMMA BeginKeeps ==
  ASSUME DaqIInv, DaqRevalidate, PageShaped(daqPage'), daqPage'.edits = daqPage.edits
  PROVE  DaqIInv' /\ daqLoads \subseteq daqLoads'
<1>1. CASE Shares(daqCell, FALSE)
  BY <1>1, ShowKeeps DEF DaqRevalidate
<1>2. CASE ~Shares(daqCell, FALSE)
  <2> DEFINE l == [mine |-> daqCell.newest + 1, started |-> daqCell.epoch, snap |-> NoDaq, edits |-> daqPage.edits]
  <2>1. daqCell' = Begun(daqCell) /\ daqLoads' = daqLoads \union {l}
    BY <1>2 DEF DaqRevalidate
  <2>2. LoadShaped(l) /\ l.started = daqCell.epoch /\ l.edits = daqPage.edits
    BY DEF LoadShaped
  <2> HIDE DEF l
  <2>3. CellShaped(daqCell') /\ daqCell'.epoch = daqCell.epoch /\ daqCell.epoch \in Nat
    BY <2>1, CellFact DEF DaqIInv
  <2>4. NoneAhead(daqCell'.epoch, daqLoads', daqPage'.edits)
    BY <2>1, <2>2, <2>3, SMT DEF NoneAhead, DaqIInv
  <2> QED
    BY <2>1, <2>3, <2>4 DEF DaqIInv
<1> QED
  BY <1>1, <1>2

\* What the steps make of a page does not touch the number of its edits.
LEMMA PageFact ==
  ASSUME NEW p, SamePage(p), NEW x, NEW y, NEW q,
         \/ q \in {[p EXCEPT !.acts = x], [p EXCEPT !.channels = x, !.pop = y], [p EXCEPT !.prompt = x, !.channels = y]}
         \/ q \in {[p EXCEPT !.channels = x], [p EXCEPT !.builder = x, !.channels = y], [p EXCEPT !.devices = x, !.catalog = y]}
         \/ q \in {[p EXCEPT !.pop = x], [p EXCEPT !.prompt = x, !.pop = y], [p EXCEPT !.prompt = x], [p EXCEPT !.builder = x]}
         \/ q \in {[p EXCEPT !.catalog = x], [p EXCEPT !.channels = x, !.devices = y]}
  PROVE  SamePage(q)
<1>1. CASE q \in {[p EXCEPT !.acts = x], [p EXCEPT !.channels = x, !.pop = y], [p EXCEPT !.prompt = x, !.channels = y]}
  BY <1>1 DEF SamePage, PageShaped
<1>2. CASE q \in {[p EXCEPT !.channels = x], [p EXCEPT !.builder = x, !.channels = y], [p EXCEPT !.devices = x, !.catalog = y]}
  BY <1>2 DEF SamePage, PageShaped
<1>3. CASE q \in {[p EXCEPT !.pop = x], [p EXCEPT !.prompt = x, !.pop = y], [p EXCEPT !.prompt = x], [p EXCEPT !.builder = x]}
  BY <1>3 DEF SamePage, PageShaped
<1>4. CASE q \in {[p EXCEPT !.catalog = x], [p EXCEPT !.channels = x, !.devices = y]}
  BY <1>4 DEF SamePage, PageShaped
<1> QED
  BY <1>1, <1>2, <1>3, <1>4

\* A change that is saved as well.
LEMMA SaveKeeps ==
  ASSUME DaqIInv, NEW p, SamePage(p), ChangeAndSave(p), UNCHANGED daqLoads
  PROVE  DaqIInv'
BY ChangeKeeps DEF ChangeAndSave

\* The page of now is its own.
LEMMA ItsPage == DaqIInv => SamePage(daqPage)
BY DEF DaqIInv, SamePage

LEMMA ShownKeeps ==
  ASSUME DaqIInv, SamePage(daqPage'), UNCHANGED <<daqCell, daqLoads>>
  PROVE  DaqIInv'
BY ShowKeeps DEF SamePage

LEMMA ActFact ==
  ASSUME NEW p, SamePage(p)
  PROVE  SamePage(Act(p))
<1> DEFINE n == p.acts + 1
           q == [p EXCEPT !.acts = n]
<1>1. q = [p EXCEPT !.acts = n] /\ Act(p) = q
  BY Zenon DEF Act
<1> HIDE DEF n, q
<1> QED
  BY <1>1, PageFact, Zenon

\* The operator's changes of the list.
LEMMA ListKeeps ==
  ASSUME DaqIInv,
         \/ \E name : assignTo(name) \/ removeChannel(name) \/ AuxNamed(name) \/ saveVirtual(name)
         \/ unassignPop
  PROVE  DaqIInv' /\ daqLoads' = daqLoads
<1>1. SamePage(daqPage)
  BY ItsPage
<1>2. ASSUME NEW name, assignTo(name)
      PROVE  DaqIInv' /\ daqLoads' = daqLoads
  <2> DEFINE x == Assigned(daqPage.channels, name, daqPage.pop)
             q == [daqPage EXCEPT !.channels = x, !.pop = Nil]
  <2>1. q = [daqPage EXCEPT !.channels = x, !.pop = Nil] /\ ChangeAndSave(Act(q)) /\ UNCHANGED daqLoads
    BY <1>2, Zenon DEF assignTo
  <2> HIDE DEF x, q
  <2> QED
    BY <1>1, <2>1, PageFact, ActFact, SaveKeeps, Zenon
<1>3. ASSUME NEW name, removeChannel(name)
      PROVE  DaqIInv' /\ daqLoads' = daqLoads
  <2> DEFINE x == SelectSeq(daqPage.channels, LAMBDA c : c.name # name)
             q == [daqPage EXCEPT !.channels = x, !.pop = Nil]
  <2>1. q = [daqPage EXCEPT !.channels = x, !.pop = Nil] /\ ChangeAndSave(Act(q)) /\ UNCHANGED daqLoads
    BY <1>3, Zenon DEF removeChannel
  <2> HIDE DEF x, q
  <2> QED
    BY <1>1, <2>1, PageFact, ActFact, SaveKeeps, Zenon
<1>4. ASSUME NEW name, AuxNamed(name)
      PROVE  DaqIInv' /\ daqLoads' = daqLoads
  <2> DEFINE x == Append(Unbound(daqPage.channels, daqPage.prompt), Channel(name, daqPage.prompt, Nil))
             q == [daqPage EXCEPT !.prompt = Nil, !.channels = x]
  <2>1. q = [daqPage EXCEPT !.prompt = Nil, !.channels = x] /\ ChangeAndSave(Act(q)) /\ UNCHANGED daqLoads
    BY <1>4, Zenon DEF AuxNamed
  <2> HIDE DEF x, q
  <2> QED
    BY <1>1, <2>1, PageFact, ActFact, SaveKeeps, Zenon
<1>5. ASSUME NEW name, saveVirtual(name)
      PROVE  DaqIInv' /\ daqLoads' = daqLoads
  <2>1. PICK x : ChangeAndSave([daqPage EXCEPT !.builder = NoBuilder, !.channels = x]) /\ UNCHANGED daqLoads
    BY <1>5, Zenon DEF saveVirtual
  <2> DEFINE q == [daqPage EXCEPT !.builder = NoBuilder, !.channels = x]
  <2>2. q = [daqPage EXCEPT !.builder = NoBuilder, !.channels = x] /\ ChangeAndSave(q)
    BY <2>1
  <2> HIDE DEF q
  <2> QED
    BY <1>1, <2>1, <2>2, PageFact, SaveKeeps, Zenon
<1>6. ASSUME unassignPop
      PROVE  DaqIInv' /\ daqLoads' = daqLoads
  <2> DEFINE x == Unbound(daqPage.channels, daqPage.pop)
             q == [daqPage EXCEPT !.channels = x, !.pop = Nil]
  <2>1. q = [daqPage EXCEPT !.channels = x, !.pop = Nil] /\ ChangeAndSave(Act(q)) /\ UNCHANGED daqLoads
    BY <1>6, Zenon DEF unassignPop
  <2> HIDE DEF x, q
  <2> QED
    BY <1>1, <2>1, PageFact, ActFact, SaveKeeps, Zenon
<1> QED
  BY <1>2, <1>3, <1>4, <1>5, <1>6

\* The steps that change what is shown and neither the list nor the cards.
ShowStep ==
    \/ \E p \in Ports : openPopover(p)
    \/ newAux \/ AuxCancelled \/ \E c : OpenBuilder(c)
    \/ CloseBuilder \/ (\E f : TypeFormula(f)) \/ runValidate \/ ToggleCatalog \/ \E kind : Ask(kind)

LEMMA ShowStepKeeps ==
  ASSUME DaqIInv, ShowStep
  PROVE  DaqIInv' /\ daqLoads' = daqLoads
<1>1. SamePage(daqPage) /\ SamePage(Act(daqPage))
  BY ItsPage, ActFact
<1>2. UNCHANGED <<daqCell, daqLoads>>
  BY DEF ShowStep, openPopover, newAux, AuxCancelled, OpenBuilder, CloseBuilder, TypeFormula, runValidate, ToggleCatalog, Ask
<1>3. \E x, y : \/ daqPage' \in {[daqPage EXCEPT !.pop = x], [daqPage EXCEPT !.prompt = x, !.pop = y], [daqPage EXCEPT !.prompt = x]}
                \/ daqPage' \in {[Act(daqPage) EXCEPT !.builder = x], [daqPage EXCEPT !.builder = x], [daqPage EXCEPT !.catalog = x]}
                \/ daqPage' = Act(daqPage)
  <2>1. CASE (\E p \in Ports : openPopover(p)) \/ newAux \/ AuxCancelled
    BY <2>1, Zenon DEF openPopover, newAux, AuxCancelled
  <2>2. CASE (\E c : OpenBuilder(c)) \/ CloseBuilder \/ (\E f : TypeFormula(f)) \/ runValidate
    BY <2>2, Zenon DEF OpenBuilder, CloseBuilder, TypeFormula, runValidate
  <2>3. CASE ToggleCatalog \/ \E kind : Ask(kind)
    BY <2>3, Zenon DEF ToggleCatalog, Ask
  <2> QED
    BY <2>1, <2>2, <2>3 DEF ShowStep
<1>4. PICK x, y :
        \/ daqPage' \in {[daqPage EXCEPT !.pop = x], [daqPage EXCEPT !.prompt = x, !.pop = y], [daqPage EXCEPT !.prompt = x]}
        \/ daqPage' \in {[Act(daqPage) EXCEPT !.builder = x], [daqPage EXCEPT !.builder = x], [daqPage EXCEPT !.catalog = x]}
        \/ daqPage' = Act(daqPage)
  BY <1>3
<1> DEFINE a == Act(daqPage)
           q == daqPage'
<1>5. q = daqPage' /\ SamePage(a) /\ a = Act(daqPage)
  BY <1>1
<1> HIDE DEF a, q
<1>6. \/ q \in {[daqPage EXCEPT !.pop = x], [daqPage EXCEPT !.prompt = x, !.pop = y], [daqPage EXCEPT !.prompt = x]}
      \/ q \in {[a EXCEPT !.builder = x], [daqPage EXCEPT !.builder = x], [daqPage EXCEPT !.catalog = x]}
      \/ q = a
  BY <1>4, <1>5
<1>7. SamePage(q)
  BY <1>1, <1>5, <1>6, PageFact, Zenon
<1> QED
  BY <1>2, <1>5, <1>7, ShownKeeps

LEMMA SeedFact ==
  ASSUME NEW p, SamePage(p), NEW data
  PROVE  SamePage(SeedDaq(p, data))
<1> DEFINE x == data.channels
           y == data.devices
           q == [p EXCEPT !.channels = x, !.devices = y]
<1>1. q = [p EXCEPT !.channels = x, !.devices = y] /\ SeedDaq(p, data) \in {p, q}
  BY Zenon DEF SeedDaq
<1> HIDE DEF x, y, q
<1>2. SamePage(q)
  BY <1>1, PageFact, Zenon
<1> QED
  BY <1>1, <1>2

\* A visit begins and ends with the edits counted so far.
LEMMA VisitKeeps ==
  ASSUME DaqIInv, DaqMount \/ DaqLeave
  PROVE  DaqIInv' /\ daqLoads \subseteq daqLoads'
<1>1. CASE DaqMount
  <2> DEFINE v == daqPage.visit + 1
             q == [NoDaqPage EXCEPT !.shown = TRUE, !.edits = daqPage.edits, !.acts = daqPage.acts, !.visit = v]
  <2>1. SamePage(q)
    <3> DEFINE e == daqPage.edits
               c == daqPage.acts
    <3>1. q = [NoDaqPage EXCEPT !.shown = TRUE, !.edits = e, !.acts = c, !.visit = v]
      OBVIOUS
    <3> HIDE DEF q, v, c
    <3>2. PageShaped(q) /\ q.edits = e
      <4> HIDE DEF e
      <4> QED
        BY <3>1 DEF PageShaped, NoDaqPage
    <3> QED
      BY <3>2 DEF SamePage
  <2>2. daqPage' = SeedDaq(q, daqCell.data) /\ DaqRevalidate
    BY <1>1, Zenon DEF DaqMount
  <2> HIDE DEF q
  <2>3. SamePage(daqPage')
    BY <2>1, <2>2, SeedFact
  <2> QED
    BY <2>2, <2>3, BeginKeeps DEF SamePage
<1>2. CASE DaqLeave
  <2>1. daqPage' = [NoDaqPage EXCEPT !.edits = daqPage.edits, !.acts = daqPage.acts, !.visit = daqPage.visit] /\ UNCHANGED <<daqCell, daqLoads>>
    BY <1>2 DEF DaqLeave
  <2>2. PageShaped(daqPage') /\ daqPage'.edits = daqPage.edits
    BY <2>1 DEF PageShaped, NoDaqPage
  <2> QED
    BY <2>1, <2>2, ShowKeeps
<1> QED
  BY <1>1, <1>2

\* An answer changes the list or the cards as the operator does, or only the builder.
LEMMA AnswerKeeps ==
  ASSUME DaqIInv, NEW o, DaqAnswered(o)
  PROVE  DaqIInv' /\ daqLoads' = daqLoads
<1>1. SamePage(daqPage) /\ daqLoads' = daqLoads
  BY ItsPage DEF DaqAnswered
<1>2. \/ UNCHANGED <<daqCell, daqPage>>
      \/ LocalChange([daqPage EXCEPT !.channels = o.channels])
      \/ LocalChange([daqPage EXCEPT !.devices = o.devices, !.catalog = FALSE])
      \/ UNCHANGED daqCell /\ \E b : daqPage' = [daqPage EXCEPT !.builder = b]
  <2>1. CASE ~daqPage.shown \/ o.visit # daqPage.visit
    BY <2>1, Zenon DEF DaqAnswered
  <2>2. CASE ~(~daqPage.shown \/ o.visit # daqPage.visit)
    <3>1. CASE o.kind \in {"auto", "card", "put"}
      BY <2>2, <3>1 DEF DaqAnswered
    <3>2. CASE o.kind \notin {"auto", "card", "put"}
      <4> DEFINE b == [daqPage.builder EXCEPT !.valid = IF o.ok THEN "yes" ELSE "no", !.validating = FALSE]
      <4>1. daqPage' = (IF daqPage.builder.open /\ o.builder = daqPage.acts THEN [daqPage EXCEPT !.builder = b] ELSE daqPage) /\ UNCHANGED daqCell
        BY <2>2, <3>2 DEF DaqAnswered
      <4> QED
        BY <4>1, Zenon
    <3> QED
      BY <3>1, <3>2
  <2> QED
    BY <2>1, <2>2
<1>3. CASE UNCHANGED <<daqCell, daqPage>>
  BY <1>1, <1>3, ShowKeeps DEF SamePage
<1>4. CASE LocalChange([daqPage EXCEPT !.channels = o.channels])
  <2> DEFINE x == o.channels
             q == [daqPage EXCEPT !.channels = x]
  <2>1. q = [daqPage EXCEPT !.channels = x] /\ LocalChange(q)
    BY <1>4
  <2> HIDE DEF x, q
  <2> QED
    BY <1>1, <2>1, PageFact, ChangeKeeps, Zenon
<1>5. CASE LocalChange([daqPage EXCEPT !.devices = o.devices, !.catalog = FALSE])
  <2> DEFINE x == o.devices
             q == [daqPage EXCEPT !.devices = x, !.catalog = FALSE]
  <2>1. q = [daqPage EXCEPT !.devices = x, !.catalog = FALSE] /\ LocalChange(q)
    BY <1>5
  <2> HIDE DEF x, q
  <2> QED
    BY <1>1, <2>1, PageFact, ChangeKeeps, Zenon
<1>6. CASE UNCHANGED daqCell /\ \E b : daqPage' = [daqPage EXCEPT !.builder = b]
  <2>1. PICK b : daqPage' = [daqPage EXCEPT !.builder = b]
    BY <1>6
  <2>2. SamePage(daqPage')
    BY <1>1, <2>1, PageFact, Zenon
  <2> QED
    BY <1>1, <1>6, <2>2, ShownKeeps
<1> QED
  BY <1>2, <1>3, <1>4, <1>5, <1>6

\* The recorder's reading of a load names the same page.
LEMMA ReadKeeps ==
  ASSUME DaqIInv, NEW l, DaqReads(l)
  PROVE  DaqIInv' /\ daqPage' = daqPage
<1>1. l \in daqLoads /\ LoadShaped(l) /\ UNCHANGED <<daqCell, daqPage>>
  BY DEF DaqReads, DaqIInv, NoneAhead
<1> DEFINE k == [l EXCEPT !.snap = daq]
<1>2. k = [l EXCEPT !.snap = daq] /\ daqLoads' = (daqLoads \ {l}) \union {k}
  BY DEF DaqReads
<1> HIDE DEF k
<1>3. LoadShaped(k) /\ k.started = l.started /\ k.edits = l.edits
  BY <1>1, <1>2 DEF LoadShaped
<1>4. NoneAhead(daqCell'.epoch, daqLoads', daqPage'.edits)
  BY <1>1, <1>2, <1>3 DEF NoneAhead, DaqIInv
<1>5. CellShaped(daqCell') /\ PageShaped(daqPage') /\ daqCell'.epoch \in Nat
  BY <1>1 DEF DaqIInv
<1> QED
  BY <1>1, <1>4, <1>5 DEF DaqIInv

\* A load that ends puts something on the page only if it knows the page's last change.
LEMMA EndKeeps ==
  ASSUME DaqIInv, NEW l, NEW ok, DaqLoadEnds(l, ok)
  PROVE  /\ DaqIInv' /\ daqLoads' = daqLoads \ {l}
         /\ daqPage' = daqPage \/ l.edits = daqPage.edits
<1>1. /\ l \in daqLoads /\ daqLoads' = daqLoads \ {l} /\ SamePage(daqPage)
      /\ daqCell' = Loaded(daqCell, l) \/ daqCell' = LoadFailed(daqCell, l)
  BY ItsPage DEF DaqLoadEnds
<1>2. daqPage' = daqPage \/ (Applies(daqCell, l) /\ daqPage' = SeedDaq(daqPage, l.snap))
  BY DEF DaqLoadEnds
<1>3. CellShaped(daqCell') /\ daqCell'.epoch = daqCell.epoch /\ daqCell.epoch \in Nat
  BY <1>1, CellFact DEF DaqIInv
<1>4. SamePage(daqPage')
  BY <1>1, <1>2, SeedFact
<1>5. NoneAhead(daqCell'.epoch, daqLoads', daqPage'.edits)
  BY <1>1, <1>3, <1>4 DEF NoneAhead, DaqIInv, SamePage
<1>6. Applies(daqCell, l) => l.edits = daqPage.edits
  BY <1>1 DEF Applies, DaqIInv, NoneAhead
<1> QED
  BY <1>1, <1>2, <1>3, <1>4, <1>5, <1>6 DEF DaqIInv, SamePage

EditsKept == \A l \in daqLoads \ daqLoads' : daqPage'.channels # daqPage.channels => l.edits = daqPage.edits

LEMMA DaqStep == DaqIInv /\ [DaqNext]_daqVars => DaqIInv' /\ [EditsKept]_daqVars
<1> SUFFICES ASSUME DaqIInv, [DaqNext]_daqVars
             PROVE  DaqIInv' /\ EditsKept
  OBVIOUS
<1>1. CASE UNCHANGED daqVars
  BY <1>1, ItsPage, ShownKeeps DEF daqVars, SamePage, EditsKept
<1>2. CASE DaqMount \/ DaqLeave
  BY <1>2, VisitKeeps DEF EditsKept
<1>3. CASE DaqRefresh
  BY <1>3, ItsPage, BeginKeeps DEF DaqRefresh, SamePage, EditsKept
<1>4. CASE ShowStep
  BY <1>4, ShowStepKeeps DEF EditsKept
<1>5. CASE (\E name : assignTo(name) \/ removeChannel(name) \/ AuxNamed(name) \/ saveVirtual(name)) \/ unassignPop
  BY <1>5, ListKeeps DEF EditsKept
<1>6. CASE \E o : DaqServed(o)
  BY <1>6, ItsPage, ShownKeeps DEF DaqServed, SamePage, EditsKept
<1>7. CASE \E o : DaqAnswered(o)
  BY <1>7, AnswerKeeps DEF EditsKept
<1>8. CASE \E l : DaqReads(l)
  BY <1>8, ReadKeeps DEF EditsKept
<1>9. CASE \E l, ok : DaqLoadEnds(l, ok)
  BY <1>9, EndKeeps DEF EditsKept
<1>10. DaqNext => \/ DaqMount \/ DaqLeave \/ DaqRefresh \/ ShowStep \/ unassignPop
                  \/ \E name : assignTo(name) \/ removeChannel(name) \/ AuxNamed(name) \/ saveVirtual(name)
                  \/ \E o : DaqServed(o) \/ DaqAnswered(o)
                  \/ \E l : DaqReads(l) \/ \E ok : DaqLoadEnds(l, ok)
  BY Zenon DEF DaqNext, ShowStep
<1> QED
  BY <1>1, <1>2, <1>3, <1>4, <1>5, <1>6, <1>7, <1>8, <1>9, <1>10, Zenon

DaqSpec == DaqInit /\ [][DaqNext]_daqVars

\* A load begun before a change of the loaded page does not undo the change (swr.ts).
THEOREM LoadAlwaysKeepsEdits == DaqSpec => LoadKeepsEdits
<1>1. DaqIInv /\ [DaqNext]_daqVars => DaqIInv'
  BY DaqStep
<1>2. DaqIInv /\ [DaqNext]_daqVars => [EditsKept]_daqVars
  BY DaqStep
<1> QED
  BY DaqStarts, <1>1, <1>2, PTL DEF DaqSpec, LoadKeepsEdits, EditsKept

----------------------------------------------------------------------------
(* THE UPDATER.                                                            *)
(* What a page shows of a download depends on messages still under way:    *)
(* the newest download is on the card, or in the mail with nothing behind  *)
(* it that takes it off again (OnItsWay).                                  *)

UpdSpec == UpdInit /\ [][UpdNext]_updVars

\* An install is announced only by a step that has just seen no recording (updater.ts).
THEOREM InstallAlwaysFromIdle == UpdSpec => InstallFromIdle
<1>1. ASSUME [UpdNext]_updVars, install # "pause", install' = "pause"
      PROVE  ~recOn
  <2>1. CASE \E v \in Versions, now \in BOOLEAN : BoxAnswered(v, now)
    BY <1>1, <2>1 DEF BoxAnswered, PerformInstall
  <2>2. CASE InstallAnswered
    BY <1>1, <2>2 DEF InstallAnswered, PerformInstall
  <2>3. CASE InstallRequested \/ QuitAndInstall
    BY <1>1, <2>3 DEF InstallRequested, QuitAndInstall
  <2>4. CASE UNCHANGED install
    BY <1>1, <2>4
  <2>5. CASE UNCHANGED updVars
    BY <1>1, <2>5 DEF updVars
  <2> QED
    BY <1>1, <2>1, <2>2, <2>3, <2>4, <2>5
       DEF UpdNext, UpdAnswers, CheckBegins, DownloadFails, UpdateDownloaded, CheckEnds, UpdateAvailable, OfferReturns, RecheckIdle,
           PageReads, InfoSent, PageMounts, NotNow, PageUnmounts, RecordingToggles
<1>2. [UpdNext]_updVars => [install # "pause" /\ install' = "pause" => ~recOn]_updVars
  BY <1>1
<1> QED
  BY <1>2, PTL DEF UpdSpec, InstallFromIdle

Version == Versions \union {None}
Statuses == [state : {"idle", "checking", "not-available", "error", "downloading", "downloaded", "installing"}, v : Version]
Message == [kind : {"push", "info"}, s : Statuses]
UpdState == [status : Statuses, downloaded : Version, pending : Version, timer : BOOLEAN, notified : Version, calledOff : BOOLEAN]
Card == [at : {"unmounted", "asked", "mounted"}, status : Statuses, pushed : BOOLEAN, window : BOOLEAN, focused : BOOLEAN,
         dismissed : Version, since : Version]
Feed == [at : {"no", "checking", "downloading"}, v : Version, n : Nat]

UpdTyped ==
    /\ upd \in UpdState /\ offers \subseteq Versions /\ boxes \subseteq Versions /\ install \in {"no", "asked", "pause"}
    /\ feed \in Feed /\ (feed.at = "downloading" => feed.v \in Versions)
    /\ toasts \in [Versions -> Nat] /\ updPage \in Card /\ mail \in Seq(Message) /\ Len(mail) <= MaxMail

\* What was announced last has been announced, and nothing before anything has.
Announced ==
    /\ upd.notified # None => toasts[upd.notified] > 0
    /\ upd.notified = None => \A v \in Versions : toasts[v] = 0

\* No install is under way, over or called off; then no message speaks of one.
Untroubled == install # "pause" /\ ~upd.calledOff
NoInstall ==
    Untroubled => /\ upd.status.state # "installing"
                  /\ \A i \in 1 .. Len(mail) : mail[i].s.state # "installing"

\* A message m that leaves a card with the newest download n as it is.
Newest == UpdStatus("downloaded", upd.downloaded)
Leaves(m, n) == m.kind = "push" => m.s.state \notin {"downloaded", "installing"} \/ m.s = n

\* A download announced while the page was open is on its card, or on its way to it, and no
\* later message takes it off.
OnCard == updPage.status = Newest /\ updPage.pushed /\ \A j \in 1 .. Len(mail) : Leaves(mail[j], Newest)
InMail ==
    \E i \in 1 .. Len(mail) : /\ mail[i].kind = "push" /\ mail[i].s = Newest
                              /\ \A j \in (i + 1) .. Len(mail) : Leaves(mail[j], Newest)
OnItsWay == (Untroubled /\ updPage.at # "unmounted" /\ upd.downloaded # updPage.since) => OnCard \/ InMail

UpdIInv == UpdTyped /\ DeferredIsKept /\ Announced /\ NotifiedOnce /\ NoInstall /\ OnItsWay

LEMMA NoneApart == None \notin Versions /\ Versions \subseteq Nat /\ MaxMail \in Nat \ {0}
BY UpdatesAssumption DEF None

LEMMA UpdStarts == UpdInit => UpdIInv
<1> SUFFICES ASSUME UpdInit
             PROVE  UpdIInv
  OBVIOUS
<1>1. /\ upd = [status |-> UpdStatus("idle", None), downloaded |-> None, pending |-> None,
                timer |-> FALSE, notified |-> None, calledOff |-> FALSE]
      /\ offers = {} /\ boxes = {} /\ install = "no" /\ feed = [at |-> "no", v |-> None, n |-> 0]
      /\ toasts = [v \in Versions |-> 0] /\ mail = <<>>
      /\ updPage \in [at : {"unmounted"}, status : {UpdStatus("idle", None)}, pushed : {FALSE},
                      window : BOOLEAN, focused : BOOLEAN, dismissed : {None}, since : {None}]
  BY DEF UpdInit
<1>2. UpdStatus("idle", None) \in Statuses /\ None \in Version
  BY DEF UpdStatus, Statuses, Version
<1> HIDE DEF UpdStatus
<1>3. upd \in UpdState /\ updPage \in Card /\ feed \in Feed
  BY <1>1, <1>2 DEF UpdState, Card, Feed
<1>4. mail \in Seq(Message) /\ Len(mail) = 0
  BY <1>1
<1>5. UpdTyped
  BY <1>1, <1>3, <1>4, NoneApart DEF UpdTyped
<1>6. DeferredIsKept /\ Announced /\ NotifiedOnce
  BY <1>1, NoneApart DEF DeferredIsKept, Announced, NotifiedOnce
<1>7. NoInstall /\ OnItsWay
  BY <1>1, <1>4 DEF NoInstall, OnItsWay, UpdStatus
<1> QED
  BY <1>5, <1>6, <1>7 DEF UpdIInv

----------------------------------------------------------------------------
\* A step that neither announces nor reads anything leaves the card's state as it is.
LEMMA CardLeft ==
  ASSUME NoInstall, OnItsWay, Untroubled' => Untroubled, upd'.status = upd.status, upd'.downloaded = upd.downloaded,
         updPage' = updPage, mail' = mail
  PROVE  NoInstall' /\ OnItsWay'
BY DEF NoInstall, OnItsWay, OnCard, InMail, Leaves, Newest

\* push(): the new status is the main process's, and the last message to an open page.
LEMMA PushFact ==
  ASSUME UpdTyped, NEW s \in Statuses, Push(upd, s)
  PROVE  /\ upd' \in UpdState /\ mail' \in Seq(Message) /\ Len(mail') <= MaxMail
         /\ upd'.status = s /\ upd'.pending = upd.pending /\ upd'.timer = upd.timer /\ upd'.notified = upd.notified
         /\ upd'.calledOff = upd.calledOff
         /\ upd'.downloaded = IF s.state = "downloaded" THEN s.v ELSE upd.downloaded
         /\ \/ updPage.at = "unmounted" /\ mail' = mail
            \/ /\ Len(mail') = Len(mail) + 1 /\ \A i \in 1 .. Len(mail) : mail'[i] = mail[i]
               /\ mail'[Len(mail) + 1].kind = "push" /\ mail'[Len(mail) + 1].s = s
<1> DEFINE d == IF s.state = "downloaded" THEN s.v ELSE upd.downloaded
           u == [upd EXCEPT !.status = s, !.downloaded = d]
           m == [kind |-> "push", s |-> s]
<1>1. u = [upd EXCEPT !.status = s, !.downloaded = d] /\ upd' = u
  BY Zenon DEF Push
<1>2. d \in Version
  BY DEF UpdTyped, UpdState, Statuses
<1>3. m \in Message /\ m.kind = "push" /\ m.s = s
  BY DEF Message
<1>4. Len(mail) < MaxMail /\ mail' = IF updPage.at = "unmounted" THEN mail ELSE Append(mail, m)
  BY DEF Push
<1> HIDE DEF u, m
<1>5. /\ upd' \in UpdState /\ upd'.status = s /\ upd'.pending = upd.pending /\ upd'.timer = upd.timer
      /\ upd'.notified = upd.notified /\ upd'.calledOff = upd.calledOff /\ upd'.downloaded = d
  <2> HIDE DEF d
  <2> QED
    BY <1>1, <1>2 DEF UpdTyped, UpdState
<1>6. mail \in Seq(Message) /\ Len(mail) \in Nat /\ MaxMail \in Nat
  BY NoneApart DEF UpdTyped
<1> HIDE DEF d
<1>7. CASE updPage.at = "unmounted"
  BY <1>4, <1>5, <1>6, <1>7 DEF d
<1>8. CASE updPage.at # "unmounted"
  <2>1. mail' = Append(mail, m)
    BY <1>4, <1>8
  <2>2. /\ mail' \in Seq(Message) /\ Len(mail') = Len(mail) + 1 /\ \A i \in 1 .. Len(mail) : mail'[i] = mail[i]
        /\ mail'[Len(mail) + 1] = m
    BY <1>3, <1>6, <2>1
  <2> QED
    BY <1>3, <1>4, <1>5, <1>6, <2>2 DEF d
<1> QED
  BY <1>7, <1>8

\* The check of the feed and its end say nothing that takes a download off the card.
LEMMA OtherNews ==
  ASSUME UpdIInv, NEW s \in Statuses, s.state \notin {"downloaded", "installing"}, Push(upd, s), UNCHANGED <<install, updPage>>
  PROVE  NoInstall' /\ OnItsWay'
<1>1. /\ upd'.status = s /\ upd'.calledOff = upd.calledOff /\ upd'.downloaded = upd.downloaded
      /\ \/ mail' = mail
         \/ /\ Len(mail') = Len(mail) + 1 /\ \A i \in 1 .. Len(mail) : mail'[i] = mail[i]
            /\ mail'[Len(mail) + 1].kind = "push" /\ mail'[Len(mail) + 1].s = s
  BY PushFact DEF UpdIInv
<1>2. Len(mail) \in Nat /\ (Untroubled' => Untroubled) /\ Newest' = Newest
  BY <1>1 DEF UpdIInv, UpdTyped, Untroubled, Newest
<1>3. NoInstall /\ OnItsWay
  BY DEF UpdIInv
<1>4. NoInstall'
  BY <1>1, <1>2, <1>3 DEF NoInstall
<1>5. \A i \in 1 .. Len(mail') : i \in 1 .. Len(mail) \/ Leaves(mail'[i], Newest')
  BY <1>1, <1>2 DEF Leaves
<1>6. OnCard => OnCard'
  BY <1>1, <1>2, <1>5 DEF OnCard, Leaves
<1>7. InMail => InMail'
  <2> SUFFICES ASSUME InMail
               PROVE  InMail'
    OBVIOUS
  <2>1. PICK i \in 1 .. Len(mail) : mail[i].kind = "push" /\ mail[i].s = Newest /\ \A j \in (i + 1) .. Len(mail) : Leaves(mail[j], Newest)
    BY DEF InMail
  <2>2. i \in 1 .. Len(mail') /\ mail'[i] = mail[i]
    BY <1>1, <1>2
  <2>3. \A j \in (i + 1) .. Len(mail') : Leaves(mail'[j], Newest')
    BY <1>1, <1>2, <1>5, <2>1 DEF Leaves
  <2> QED
    BY <1>2, <2>1, <2>2, <2>3 DEF InMail
<1> QED
  BY <1>1, <1>2, <1>3, <1>4, <1>6, <1>7 DEF OnItsWay

\* A download is announced to an open page.
LEMMA Announces ==
  ASSUME UpdIInv, NEW v \in Versions, Push(upd, UpdStatus("downloaded", v)), UNCHANGED <<install, updPage>>
  PROVE  NoInstall' /\ OnItsWay'
<1> DEFINE s == UpdStatus("downloaded", v)
<1>1. s \in Statuses /\ s.state = "downloaded" /\ s.v = v
  BY DEF UpdStatus, Statuses, Version
<1>2. Push(upd, s)
  OBVIOUS
<1>3. s = UpdStatus("downloaded", v)
  OBVIOUS
<1> HIDE DEF s
<1>4. /\ upd'.status = s /\ upd'.calledOff = upd.calledOff /\ upd'.downloaded = v
      /\ \/ updPage.at = "unmounted" /\ mail' = mail
         \/ /\ Len(mail') = Len(mail) + 1 /\ \A i \in 1 .. Len(mail) : mail'[i] = mail[i]
            /\ mail'[Len(mail) + 1].kind = "push" /\ mail'[Len(mail) + 1].s = s
  BY <1>1, <1>2, PushFact DEF UpdIInv
<1>5. Len(mail) \in Nat /\ (Untroubled' => Untroubled) /\ Newest' = s
  BY <1>3, <1>4 DEF UpdIInv, UpdTyped, Untroubled, Newest
<1>6. NoInstall'
  BY <1>1, <1>4, <1>5 DEF NoInstall, UpdIInv
<1>7. updPage'.at # "unmounted" => InMail'
  <2> SUFFICES ASSUME updPage'.at # "unmounted"
               PROVE  InMail'
    OBVIOUS
  <2>1. /\ Len(mail') = Len(mail) + 1
        /\ mail'[Len(mail) + 1].kind = "push" /\ mail'[Len(mail) + 1].s = s
    BY <1>4
  <2>2. Len(mail) + 1 \in 1 .. Len(mail') /\ \A j \in ((Len(mail) + 1) + 1) .. Len(mail') : FALSE
    BY <1>5, <2>1
  <2> QED
    BY <1>5, <2>1, <2>2 DEF InMail
<1> QED
  BY <1>6, <1>7 DEF OnItsWay

\* The snapshot that an opening page asked for.
LEMMA SnapshotKeeps ==
  ASSUME UpdIInv, InfoSent
  PROVE  UpdTyped' /\ NoInstall' /\ OnItsWay'
<1> DEFINE m == [kind |-> "info", s |-> snapshot]
<1>1. /\ updPage.at = "asked" /\ updPage' = [updPage EXCEPT !.at = "mounted"] /\ mail' = Append(mail, m) /\ Len(mail) < MaxMail
      /\ UNCHANGED <<upd, offers, boxes, install, feed, toasts>>
  BY DEF InfoSent
<1>2. snapshot \in Statuses /\ (snapshot.state = "installing" => upd.status.state = "installing")
  BY DEF snapshot, UpdIInv, UpdTyped, UpdState, Statuses, UpdStatus
<1>3. m \in Message /\ m.kind = "info" /\ m.s = snapshot
  BY <1>2 DEF Message
<1> HIDE DEF m
<1>4. mail \in Seq(Message) /\ Len(mail) \in Nat /\ MaxMail \in Nat /\ updPage \in Card
  BY NoneApart DEF UpdIInv, UpdTyped
<1>5. /\ mail' \in Seq(Message) /\ Len(mail') = Len(mail) + 1 /\ \A i \in 1 .. Len(mail) : mail'[i] = mail[i]
      /\ mail'[Len(mail) + 1] = m
  BY <1>1, <1>3, <1>4
<1>6. updPage' \in Card /\ updPage'.status = updPage.status /\ updPage'.pushed = updPage.pushed /\ updPage'.since = updPage.since
  BY <1>1, <1>4 DEF Card
<1>7. UpdTyped'
  BY <1>1, <1>4, <1>5, <1>6 DEF UpdIInv, UpdTyped
<1>8. NoInstall'
  BY <1>1, <1>2, <1>3, <1>4, <1>5 DEF UpdIInv, NoInstall, Untroubled
<1>9. Newest' = Newest /\ Untroubled' = Untroubled
  BY <1>1 DEF Newest, Untroubled
<1>10. OnCard => OnCard'
  BY <1>3, <1>4, <1>5, <1>6, <1>9 DEF OnCard, Leaves
<1>11. InMail => InMail'
  <2> SUFFICES ASSUME InMail
               PROVE  InMail'
    OBVIOUS
  <2>1. PICK i \in 1 .. Len(mail) : mail[i].kind = "push" /\ mail[i].s = Newest /\ \A j \in (i + 1) .. Len(mail) : Leaves(mail[j], Newest)
    BY DEF InMail
  <2>2. \A j \in (i + 1) .. Len(mail') : Leaves(mail'[j], Newest')
    BY <1>3, <1>4, <1>5, <1>9, <2>1 DEF Leaves
  <2> QED
    BY <1>4, <1>5, <1>9, <2>1, <2>2 DEF InMail
<1>12. OnItsWay'
  BY <1>1, <1>6, <1>9, <1>10, <1>11 DEF OnItsWay, UpdIInv
<1> QED
  BY <1>7, <1>8, <1>12

\* A page reads its mail.
LEMMA ReadsKeep ==
  ASSUME UpdIInv, PageReads
  PROVE  UpdTyped' /\ NoInstall' /\ OnItsWay'
<1>1. mail \in Seq(Message) /\ Len(mail) \in Nat \ {0} /\ Len(mail) <= MaxMail /\ updPage \in Card /\ mail' = Tail(mail) /\ MaxMail \in Nat
      /\ UNCHANGED <<upd, offers, boxes, install, feed, toasts>>
  BY NoneApart DEF PageReads, UpdIInv, UpdTyped
<1>2. /\ mail' \in Seq(Message) /\ Len(mail') = Len(mail) - 1 /\ \A i \in 1 .. Len(mail') : mail'[i] = mail[i + 1]
      /\ Head(mail) = mail[1] /\ mail[1] \in Message
  BY <1>1
<1> DEFINE m == mail[1]
           t == nextPromptStatus(updPage.status, m.s)
<1>3. updPage' = CASE m.kind = "push" -> [updPage EXCEPT !.pushed = TRUE, !.status = t]
                   [] m.kind = "info" /\ ~updPage.pushed -> [updPage EXCEPT !.status = m.s]
                   [] OTHER -> updPage
  BY <1>2 DEF PageReads
<1>4. t \in Statuses /\ m \in Message /\ m.s \in Statuses
  BY <1>1, <1>2 DEF nextPromptStatus, Message, Card
<1>6. /\ updPage' \in Card /\ updPage'.at = updPage.at /\ updPage'.since = updPage.since
      /\ m.kind = "push" => updPage'.pushed /\ updPage'.status = t
      /\ m.kind = "info" /\ updPage.pushed => updPage' = updPage
  <2>1. CASE m.kind = "push"
    <3>1. updPage' = [updPage EXCEPT !.pushed = TRUE, !.status = t]
      BY <1>3, <2>1
    <3> HIDE DEF t
    <3> QED
      BY <1>1, <1>4, <2>1, <3>1 DEF Card
  <2>2. CASE m.kind # "push" /\ m.kind = "info" /\ ~updPage.pushed
    <3> DEFINE r == m.s
    <3>1. updPage' = [updPage EXCEPT !.status = r] /\ r \in Statuses
      BY <1>3, <1>4, <2>2
    <3> HIDE DEF r
    <3> QED
      BY <1>1, <2>2, <3>1 DEF Card
  <2>3. CASE m.kind # "push" /\ ~(m.kind = "info" /\ ~updPage.pushed)
    BY <1>1, <1>3, <2>3
  <2> QED
    BY <2>1, <2>2, <2>3
<1>7. UpdTyped'
  BY <1>1, <1>2, <1>6 DEF UpdIInv, UpdTyped
<1>8. Newest' = Newest /\ Untroubled' = Untroubled
  BY <1>1 DEF Newest, Untroubled
<1>9. NoInstall'
  BY <1>1, <1>2, <1>8 DEF NoInstall, UpdIInv
<1>10. Newest.state = "downloaded" /\ m.kind \in {"push", "info"}
  BY <1>4 DEF Newest, UpdStatus, Message
<1>11. OnCard => OnCard'
  <2> SUFFICES ASSUME OnCard
               PROVE  OnCard'
    OBVIOUS
  <2>1. Leaves(m, Newest) /\ \A j \in 1 .. Len(mail') : Leaves(mail'[j], Newest)
    BY <1>1, <1>2 DEF OnCard
  <2>2. updPage'.status = Newest /\ updPage'.pushed
    BY <1>6, <1>10, <2>1 DEF OnCard, Leaves, nextPromptStatus
  <2> QED
    BY <1>8, <2>1, <2>2 DEF OnCard
<1>12. InMail => OnCard' \/ InMail'
  <2> SUFFICES ASSUME InMail
               PROVE  OnCard' \/ InMail'
    OBVIOUS
  <2>1. PICK i \in 1 .. Len(mail) : mail[i].kind = "push" /\ mail[i].s = Newest /\ \A j \in (i + 1) .. Len(mail) : Leaves(mail[j], Newest)
    BY DEF InMail
  <2>2. CASE i = 1
    <3>1. updPage'.status = Newest /\ updPage'.pushed
      BY <1>6, <1>10, <2>1, <2>2 DEF nextPromptStatus
    <3>2. \A j \in 1 .. Len(mail') : Leaves(mail'[j], Newest)
      BY <1>1, <1>2, <2>1, <2>2
    <3> QED
      BY <1>8, <3>1, <3>2 DEF OnCard
  <2>3. CASE i # 1
    <3>1. i - 1 \in 1 .. Len(mail') /\ mail'[i - 1] = mail[i]
      BY <1>1, <1>2, <2>3
    <3>2. \A j \in ((i - 1) + 1) .. Len(mail') : Leaves(mail'[j], Newest)
      BY <1>1, <1>2, <2>1, <2>3
    <3> QED
      BY <1>8, <2>1, <3>1, <3>2 DEF InMail
  <2> QED
    BY <2>2, <2>3
<1>13. OnItsWay'
  BY <1>1, <1>6, <1>8, <1>11, <1>12 DEF OnItsWay, UpdIInv
<1> QED
  BY <1>7, <1>9, <1>13

\* A version is announced by one toast, or by a dialog.
LEMMA OfferFact ==
  ASSUME UpdIInv, NEW u \in UpdState, u.notified = upd.notified, NEW v \in Versions, Offer(u, v)
  PROVE  /\ upd' \in UpdState /\ upd'.status = u.status /\ upd'.downloaded = u.downloaded /\ upd'.pending = u.pending
         /\ upd'.timer = u.timer /\ upd'.calledOff = u.calledOff
         /\ boxes' \subseteq Versions /\ toasts' \in [Versions -> Nat] /\ Announced' /\ NotifiedOnce'
<1> DEFINE show == updPage.window /\ ~updPage.focused /\ u.notified # v
           n == IF show THEN v ELSE u.notified
           d == [u EXCEPT !.notified = n]
<1>1. toasts \in [Versions -> Nat] /\ boxes \subseteq Versions /\ Announced /\ NotifiedOnce /\ upd.notified \in Version
  BY DEF UpdIInv, UpdTyped, UpdState
<1>2. d = [u EXCEPT !.notified = n] /\ n \in Version
  BY <1>1 DEF Version
<1>3. /\ d \in UpdState /\ d.status = u.status /\ d.downloaded = u.downloaded /\ d.pending = u.pending
      /\ d.timer = u.timer /\ d.calledOff = u.calledOff /\ d.notified = n
  <2> HIDE DEF n, d
  <2> QED
    BY <1>2 DEF UpdState
<1> HIDE DEF d
<1>4. CASE ~updPage.window
  BY <1>1, <1>4 DEF Offer, Announced, NotifiedOnce
<1>5. CASE updPage.window
  <2>1. upd' = d /\ boxes' = boxes /\ toasts' = IF show THEN [toasts EXCEPT ![v] = @ + 1] ELSE toasts
    BY <1>5, Zenon DEF Offer, NotifyReady, d, n, show
  <2>2. CASE show
    <3>1. toasts' = [toasts EXCEPT ![v] = @ + 1] /\ upd'.notified = v /\ v # None /\ upd.notified # v
      BY <1>3, <2>1, <2>2, NoneApart
    <3>2. toasts' \in [Versions -> Nat] /\ toasts'[v] = toasts[v] + 1 /\ \A w \in Versions \ {v} : toasts'[w] = toasts[w]
      BY <1>1, <3>1
    <3>3. Announced'
      BY <1>1, <3>1, <3>2 DEF Announced
    <3>4. NotifiedOnce'
      <4> SUFFICES ASSUME NEW w \in Versions, toasts'[w] > 1
                   PROVE  \E x \in Versions \ {w} : toasts'[x] > 0
        BY DEF NotifiedOnce
      <4>1. CASE w = v
        <5>1. upd.notified \in Versions \ {v} /\ toasts[upd.notified] > 0
          BY <1>1, <3>1, <3>2, <4>1 DEF Announced, Version
        <5> QED
          BY <3>2, <4>1, <5>1
      <4>2. CASE w # v
        <5>1. v \in Versions \ {w} /\ toasts'[v] > 0
          BY <1>1, <3>2, <4>2
        <5> QED
          BY <5>1
      <4> QED
        BY <4>1, <4>2
    <3> QED
      BY <1>1, <1>3, <2>1, <3>2, <3>3, <3>4
  <2>3. CASE ~show
    BY <1>1, <1>3, <2>1, <2>3 DEF Announced, NotifiedOnce
  <2> QED
    BY <2>2, <2>3
<1> QED
  BY <1>4, <1>5

\* The events of the feed.
LEMMA FeedKeeps ==
  ASSUME UpdIInv,
         \/ CheckBegins \/ DownloadFails \/ UpdateDownloaded
         \/ \E s \in {"not-available", "error"} : CheckEnds(s)
         \/ \E v \in Versions : UpdateAvailable(v)
  PROVE  UpdIInv'
<1>1. UpdTyped /\ feed \in Feed /\ offers \subseteq Versions /\ DeferredIsKept /\ Announced /\ NotifiedOnce
  BY DEF UpdIInv, UpdTyped
<1>2. /\ UNCHANGED <<boxes, install, toasts, updPage>>
      /\ offers' = offers \/ (feed.at = "downloading" /\ offers' = offers \union {feed.v})
  BY DEF CheckBegins, DownloadFails, UpdateDownloaded, CheckEnds, UpdateAvailable
<1>3. feed' \in Feed /\ (feed'.at = "downloading" => feed'.v \in Versions)
  <2>1. CASE CheckBegins
    <3> DEFINE k == feed.n + 1
    <3>1. feed' = [feed EXCEPT !.at = "checking", !.n = k] /\ k \in Nat
      BY <1>1, <2>1 DEF CheckBegins, Feed
    <3> HIDE DEF k
    <3> QED
      BY <1>1, <3>1 DEF Feed
  <2>2. CASE DownloadFails \/ UpdateDownloaded
    <3>1. feed' = [feed EXCEPT !.at = "no", !.v = None] /\ None \in Version
      BY <2>2 DEF DownloadFails, UpdateDownloaded, Version
    <3> QED
      BY <1>1, <3>1 DEF Feed
  <2>3. CASE \E s \in {"not-available", "error"} : CheckEnds(s)
    <3>1. feed' = [feed EXCEPT !.at = "no"]
      BY <2>3 DEF CheckEnds
    <3> QED
      BY <1>1, <3>1 DEF Feed
  <2>4. CASE \E v \in Versions : UpdateAvailable(v)
    <3>1. PICK v \in Versions : feed' = [feed EXCEPT !.at = "downloading", !.v = v] /\ v \in Version
      BY <2>4 DEF UpdateAvailable, Version
    <3> QED
      BY <1>1, <3>1 DEF Feed
  <2> QED
    BY <2>1, <2>2, <2>3, <2>4
<1>4. \A v \in Version : UpdStatus("checking", None) \in Statuses /\ UpdStatus("error", None) \in Statuses
                         /\ UpdStatus("not-available", None) \in Statuses /\ UpdStatus("downloading", v) \in Statuses
                         /\ UpdStatus("downloaded", v) \in Statuses
  BY DEF UpdStatus, Statuses, Version
<1>5. \E s \in Statuses : Push(upd, s) /\ NoInstall' /\ OnItsWay'
  <2>1. CASE UpdateDownloaded
    <3>1. feed.v \in Versions /\ Push(upd, UpdStatus("downloaded", feed.v))
      BY <1>1, <2>1 DEF UpdateDownloaded, UpdTyped
    <3>2. UpdStatus("downloaded", feed.v) \in Statuses
      BY <1>4, <3>1 DEF Version
    <3> QED
      BY <1>2, <3>1, <3>2, Announces
  <2>2. CASE ~UpdateDownloaded
    <3>1. \E s \in Statuses : s.state \notin {"downloaded", "installing"} /\ Push(upd, s)
      <4>1. CASE CheckBegins
        BY <1>4, <4>1, NoneApart DEF CheckBegins, UpdStatus, Version
      <4>2. CASE DownloadFails
        BY <1>4, <4>2, NoneApart DEF DownloadFails, UpdStatus, Version
      <4>3. CASE \E s \in {"not-available", "error"} : CheckEnds(s)
        BY <1>4, <4>3, NoneApart DEF CheckEnds, UpdStatus, Version
      <4>4. CASE \E v \in Versions : UpdateAvailable(v)
        BY <1>4, <4>4, NoneApart DEF UpdateAvailable, UpdStatus, Version
      <4> QED
        BY <2>2, <4>1, <4>2, <4>3, <4>4
    <3> QED
      BY <1>2, <3>1, OtherNews
  <2> QED
    BY <2>1, <2>2
<1>6. PICK s \in Statuses : Push(upd, s) /\ NoInstall' /\ OnItsWay'
  BY <1>5
<1>7. /\ upd' \in UpdState /\ mail' \in Seq(Message) /\ Len(mail') <= MaxMail
      /\ upd'.pending = upd.pending /\ upd'.timer = upd.timer /\ upd'.notified = upd.notified
  BY <1>1, <1>6, PushFact
<1>8. UpdTyped'
  BY <1>1, <1>2, <1>3, <1>7 DEF UpdTyped
<1>9. DeferredIsKept' /\ Announced' /\ NotifiedOnce'
  BY <1>1, <1>2, <1>7 DEF DeferredIsKept, Announced, NotifiedOnce
<1> QED
  BY <1>6, <1>8, <1>9 DEF UpdIInv

\* offerUpdate(), the recheck and the dialog, as far as no install begins.
LEMMA OffersKeep ==
  ASSUME UpdIInv, (\E v \in Versions : OfferReturns(v)) \/ RecheckIdle
  PROVE  UpdIInv'
<1>1. /\ upd \in UpdState /\ offers \subseteq Versions /\ boxes \subseteq Versions /\ toasts \in [Versions -> Nat]
      /\ DeferredIsKept /\ Announced /\ NotifiedOnce /\ NoInstall /\ OnItsWay
  BY DEF UpdIInv, UpdTyped
<1>2. UNCHANGED <<install, feed, updPage, mail>> /\ offers' \subseteq Versions
  BY <1>1 DEF OfferReturns, RecheckIdle
<1>3. /\ upd' \in UpdState /\ upd'.status = upd.status /\ upd'.downloaded = upd.downloaded /\ upd'.calledOff = upd.calledOff
      /\ boxes' \subseteq Versions /\ toasts' \in [Versions -> Nat] /\ Announced' /\ NotifiedOnce' /\ DeferredIsKept'
  <2>1. ASSUME NEW v \in Versions, OfferReturns(v), recOn
        PROVE  /\ upd' = [upd EXCEPT !.pending = v, !.timer = TRUE] /\ UNCHANGED <<boxes, toasts>> /\ v \in Version
    BY <2>1 DEF OfferReturns, Deferred, Version
  <2>2. CASE \E v \in Versions : OfferReturns(v) /\ recOn
    BY <1>1, <2>1, <2>2 DEF UpdState, Announced, NotifiedOnce, DeferredIsKept
  <2>3. CASE \E v \in Versions : OfferReturns(v) /\ ~recOn
    <3>1. PICK v \in Versions : Offer(upd, v)
      BY <2>3 DEF OfferReturns
    <3> QED
      BY <1>1, <3>1, OfferFact DEF DeferredIsKept
  <2>4. CASE RecheckIdle
    <3> DEFINE u == [upd EXCEPT !.timer = FALSE, !.pending = None]
    <3>1. u = [upd EXCEPT !.timer = FALSE, !.pending = None] /\ Offer(u, upd.pending) /\ upd.pending \in Versions /\ None \in Version
      BY <1>1, <2>4 DEF RecheckIdle, UpdState, Version
    <3> HIDE DEF u
    <3>2. /\ u \in UpdState /\ u.status = upd.status /\ u.downloaded = upd.downloaded /\ u.pending = None
          /\ u.notified = upd.notified /\ u.calledOff = upd.calledOff
      BY <1>1, <3>1 DEF UpdState
    <3> QED
      BY <3>1, <3>2, OfferFact DEF DeferredIsKept
  <2> QED
    BY <2>2, <2>3, <2>4
<1>4. UpdTyped'
  BY <1>1, <1>2, <1>3 DEF UpdIInv, UpdTyped
<1>5. NoInstall' /\ OnItsWay'
  BY <1>1, <1>2, <1>3, CardLeft DEF Untroubled
<1> QED
  BY <1>3, <1>4, <1>5 DEF UpdIInv

\* performInstall(): from here on the card speaks of the install.
LEMMA InstallKeeps ==
  ASSUME UpdIInv, NEW v \in Versions, PerformInstall(v), boxes' \subseteq Versions, UNCHANGED <<offers, feed, toasts, updPage>>
  PROVE  UpdIInv'
<1>1. UpdStatus("installing", v) \in Statuses /\ UpdTyped /\ Push(upd, UpdStatus("installing", v)) /\ install' = "pause"
  BY DEF UpdStatus, Statuses, Version, UpdIInv, PerformInstall
<1>2. /\ upd' \in UpdState /\ mail' \in Seq(Message) /\ Len(mail') <= MaxMail
      /\ upd'.pending = upd.pending /\ upd'.timer = upd.timer /\ upd'.notified = upd.notified
  BY <1>1, PushFact
<1>3. UpdTyped'
  BY <1>1, <1>2 DEF UpdTyped
<1>4. DeferredIsKept' /\ Announced' /\ NotifiedOnce' /\ NoInstall' /\ OnItsWay'
  BY <1>1, <1>2 DEF UpdIInv, DeferredIsKept, Announced, NotifiedOnce, NoInstall, OnItsWay, Untroubled
<1> QED
  BY <1>3, <1>4 DEF UpdIInv

LEMMA InstallsKeep ==
  ASSUME UpdIInv, (\E v \in Versions, now \in BOOLEAN : BoxAnswered(v, now)) \/ InstallRequested \/ InstallAnswered \/ QuitAndInstall
  PROVE  UpdIInv'
<1>1. /\ upd \in UpdState /\ offers \subseteq Versions /\ boxes \subseteq Versions /\ toasts \in [Versions -> Nat]
      /\ install \in {"no", "asked", "pause"} /\ DeferredIsKept /\ Announced /\ NotifiedOnce /\ NoInstall /\ OnItsWay
  BY DEF UpdIInv, UpdTyped
<1>2. UNCHANGED <<offers, feed, toasts, updPage>> /\ boxes' \subseteq Versions
  BY <1>1 DEF BoxAnswered, InstallRequested, InstallAnswered, QuitAndInstall
<1>3. CASE \E v \in Versions : PerformInstall(v)
  BY <1>2, <1>3, InstallKeeps
<1>4. CASE UNCHANGED <<upd, mail>> /\ install' \in {"no", "asked", "pause"} /\ (install' # "pause" => install # "pause")
  <2>1. NoInstall' /\ OnItsWay'
    BY <1>1, <1>2, <1>4, CardLeft DEF Untroubled
  <2>2. UpdTyped'
    BY <1>1, <1>2, <1>4 DEF UpdIInv, UpdTyped
  <2>3. DeferredIsKept' /\ Announced' /\ NotifiedOnce'
    BY <1>1, <1>2, <1>4 DEF DeferredIsKept, Announced, NotifiedOnce
  <2> QED
    BY <2>1, <2>2, <2>3 DEF UpdIInv
<1>5. CASE UNCHANGED <<install, mail>> /\ \E v \in Versions : upd' = Deferred(upd, v)
  <2>1. PICK v \in Versions : upd' = [upd EXCEPT !.pending = v, !.timer = TRUE] /\ v \in Version
    BY <1>5 DEF Deferred, Version
  <2>2. /\ upd' \in UpdState /\ upd'.status = upd.status /\ upd'.downloaded = upd.downloaded /\ upd'.calledOff = upd.calledOff
        /\ upd'.notified = upd.notified /\ upd'.timer
    BY <1>1, <2>1 DEF UpdState
  <2>3. NoInstall' /\ OnItsWay'
    BY <1>1, <1>2, <1>5, <2>2, CardLeft DEF Untroubled
  <2>4. UpdTyped'
    BY <1>1, <1>2, <1>5, <2>2 DEF UpdIInv, UpdTyped
  <2>5. DeferredIsKept' /\ Announced' /\ NotifiedOnce'
    BY <1>1, <1>2, <2>2 DEF DeferredIsKept, Announced, NotifiedOnce
  <2> QED
    BY <2>3, <2>4, <2>5 DEF UpdIInv
<1>6. CASE install' = "no" /\ UNCHANGED mail /\ upd' = [upd EXCEPT !.calledOff = TRUE]
  <2>1. /\ upd' \in UpdState /\ upd'.calledOff /\ upd'.notified = upd.notified /\ upd'.timer = upd.timer /\ upd'.pending = upd.pending
    BY <1>1, <1>6 DEF UpdState
  <2>2. UpdTyped'
    BY <1>1, <1>2, <1>6, <2>1 DEF UpdIInv, UpdTyped
  <2>3. DeferredIsKept' /\ Announced' /\ NotifiedOnce' /\ NoInstall' /\ OnItsWay'
    BY <1>1, <1>2, <2>1 DEF DeferredIsKept, Announced, NotifiedOnce, NoInstall, OnItsWay, Untroubled
  <2> QED
    BY <2>2, <2>3 DEF UpdIInv
<1>7. CASE \E v \in Versions, now \in BOOLEAN : BoxAnswered(v, now)
  BY <1>3, <1>4, <1>5, <1>7, <1>1 DEF BoxAnswered
<1>8. CASE InstallRequested
  BY <1>4, <1>8 DEF InstallRequested
<1>9. CASE InstallAnswered
  <2>1. CASE install' = "no" /\ UNCHANGED <<upd, mail>>
    BY <1>4, <1>9, <2>1 DEF InstallAnswered
  <2>2. CASE upd.downloaded # None /\ PerformInstall(upd.downloaded)
    BY <1>1, <1>3, <2>2 DEF UpdState, Version
  <2> QED
    BY <1>9, <2>1, <2>2 DEF InstallAnswered
<1>10. CASE QuitAndInstall
  BY <1>4, <1>6, <1>10, <1>1 DEF QuitAndInstall
<1> QED
  BY <1>7, <1>8, <1>9, <1>10

\* The card of a page comes and goes; a recording begins and ends.
LEMMA CardKeeps ==
  ASSUME UpdIInv, PageMounts \/ NotNow \/ PageUnmounts \/ RecordingToggles
  PROVE  UpdIInv'
<1>1. /\ upd \in UpdState /\ updPage \in Card /\ mail \in Seq(Message) /\ NoInstall /\ OnItsWay
      /\ UNCHANGED <<upd, offers, boxes, install, feed, toasts>>
  BY DEF UpdIInv, UpdTyped, PageMounts, NotNow, PageUnmounts, RecordingToggles
<1>2. CASE PageMounts
  <2> DEFINE s == UpdStatus("idle", None)
             v == upd.downloaded
  <2>1. updPage' = [updPage EXCEPT !.at = "asked", !.pushed = FALSE, !.status = s, !.since = v] /\ mail' = <<>>
    BY <1>2 DEF PageMounts
  <2>2. s \in Statuses /\ v \in Version
    BY <1>1 DEF UpdStatus, Statuses, Version, UpdState
  <2>3. updPage' \in Card /\ updPage'.since = v
    <3> HIDE DEF s, v
    <3> QED
      BY <1>1, <2>1, <2>2 DEF Card
  <2>4. mail' \in Seq(Message) /\ Len(mail') = 0
    BY <2>1
  <2>5. UpdTyped' /\ NoInstall' /\ OnItsWay'
    BY <1>1, <2>3, <2>4, NoneApart DEF UpdIInv, UpdTyped, NoInstall, Untroubled, OnItsWay
  <2> QED
    BY <1>1, <2>5 DEF UpdIInv, DeferredIsKept, Announced, NotifiedOnce
<1>3. CASE NotNow
  <2> DEFINE v == updPage.status.v
  <2>1. updPage' = [updPage EXCEPT !.dismissed = v] /\ mail' = mail /\ v \in Version
    BY <1>1, <1>3 DEF NotNow, Card, Statuses
  <2> HIDE DEF v
  <2>2. updPage' \in Card /\ updPage'.at = updPage.at /\ updPage'.status = updPage.status /\ updPage'.pushed = updPage.pushed /\ updPage'.since = updPage.since
    BY <1>1, <2>1 DEF Card
  <2>3. UpdTyped'
    BY <1>1, <2>1, <2>2 DEF UpdIInv, UpdTyped
  <2>4. NoInstall' /\ OnItsWay'
    BY <1>1, <2>1, <2>2 DEF NoInstall, Untroubled, OnItsWay, OnCard, InMail, Newest
  <2> QED
    BY <1>1, <2>3, <2>4 DEF UpdIInv, DeferredIsKept, Announced, NotifiedOnce
<1>4. CASE PageUnmounts
  <2>1. updPage' = [updPage EXCEPT !.at = "unmounted"] /\ mail' = <<>>
    BY <1>4 DEF PageUnmounts
  <2>2. updPage' \in Card /\ updPage'.at = "unmounted" /\ mail' \in Seq(Message) /\ Len(mail') = 0
    BY <1>1, <2>1 DEF Card
  <2>3. UpdTyped' /\ NoInstall' /\ OnItsWay'
    BY <1>1, <2>2, NoneApart DEF UpdIInv, UpdTyped, NoInstall, Untroubled, OnItsWay
  <2> QED
    BY <1>1, <2>3 DEF UpdIInv, DeferredIsKept, Announced, NotifiedOnce
<1>5. CASE RecordingToggles
  <2>1. UNCHANGED <<updPage, mail>>
    BY <1>5 DEF RecordingToggles
  <2> QED
    BY <1>1, <2>1, CardLeft DEF UpdIInv, UpdTyped, DeferredIsKept, Announced, NotifiedOnce, Untroubled
<1> QED
  BY <1>2, <1>3, <1>4, <1>5

LEMMA UpdNextIInv == UpdIInv /\ [UpdNext]_updVars => UpdIInv'
<1> SUFFICES ASSUME UpdIInv, [UpdNext]_updVars
             PROVE  UpdIInv'
  OBVIOUS
<1>1. CASE UNCHANGED updVars
  BY <1>1, CardLeft DEF updVars, UpdIInv, UpdTyped, DeferredIsKept, Announced, NotifiedOnce, Untroubled
<1>2. CASE PageReads \/ InfoSent
  <2>1. UNCHANGED <<upd, toasts>>
    BY <1>2 DEF PageReads, InfoSent
  <2>2. UpdTyped' /\ NoInstall' /\ OnItsWay'
    BY <1>2, ReadsKeep, SnapshotKeeps
  <2> QED
    BY <2>1, <2>2 DEF UpdIInv, DeferredIsKept, Announced, NotifiedOnce
<1> QED
  BY <1>1, <1>2, FeedKeeps, OffersKeep, InstallsKeep, CardKeeps DEF UpdNext, UpdAnswers

\* The updater, whole: a deferred download is not forgotten and a version announced once; an
\* open page that has read its mail shows the newest download (updater.ts, updatePrompt.ts).
THEOREM UpdaterCorrect == UpdSpec => [](UpdTypeOK /\ DeferredIsKept /\ NotifiedOnce /\ CardShowsDownload)
<1>1. UpdIInv => UpdTypeOK /\ DeferredIsKept /\ NotifiedOnce /\ CardShowsDownload
  <2> SUFFICES ASSUME UpdIInv
               PROVE  UpdTypeOK /\ CardShowsDownload
    BY DEF UpdIInv
  <2>1. UpdTypeOK
    BY DEF UpdIInv, UpdTyped, UpdTypeOK, UpdState, Version
  <2>2. mail = <<>> => ~InMail
    BY DEF InMail
  <2>3. CardShowsDownload
    BY <2>2 DEF UpdIInv, OnItsWay, OnCard, CardShowsDownload, Untroubled, Newest
  <2> QED
    BY <2>1, <2>3
<1> QED
  BY UpdStarts, UpdNextIInv, <1>1, PTL DEF UpdSpec

----------------------------------------------------------------------------
(* THE SUITE.                                                              *)

\* A step of the suite is a step of one of its components and leaves the others alone.
LEMMA SuiteNext == [Next]_vars => [ShellNext]_shellVars /\ [UpdNext]_updVars /\ [DaqNext]_daqVars
BY Zenon DEF Next, vars

LEMMA SuiteComponents == Spec => ShellSpec /\ UpdSpec /\ DaqSpec
<1>1. Init => ShellInit /\ UpdInit /\ DaqInit
  BY Zenon DEF Init
<1> QED
  BY <1>1, SuiteNext, PTL DEF Spec, ShellSpec, UpdSpec, DaqSpec

\* DesktopSteps, whole: neither a restart, nor a quit, nor an update ends a recording the backend
\* would have reported, and a late load undoes no edit (restart.ts, quitGuard.ts, updater.ts, swr.ts).
THEOREM StepsCorrect == Spec => DesktopSteps
BY SuiteComponents, RestartSpares, QuitSpares, InstallAlwaysFromIdle, LoadAlwaysKeepsEdits, PTL DEF DesktopSteps

\* The supervisor and the updater in the suite: one backend, watched while it is ready, its loss
\* reported once and never left behind (sidecar.ts, main.ts); a deferred update kept, announced
\* once and shown (updater.ts).  These are the first two lines of DesktopSafe.
THEOREM SupervisorAndUpdaterCorrect ==
    Spec => [](/\ ShellTypeOK /\ OneBackend /\ OneRestartUnderWay /\ ReadyIsWatched /\ ReportedOnce /\ NoOrphan
               /\ UpdTypeOK /\ DeferredIsKept /\ NotifiedOnce /\ CardShowsDownload)
BY SuiteComponents, ShellTypeCorrect, AlwaysOneBackend, AlwaysOneRestart, ReadyAlwaysWatched, AlwaysReportedOnce,
   NeverOrphan, UpdaterCorrect, PTL
==============================================================================
