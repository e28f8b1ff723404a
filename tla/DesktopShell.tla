---------------------------- MODULE DesktopShell ----------------------------
(***************************************************************************)
(* The Electron shell of the force app: the supervisor of the recorder     *)
(* backend (desktop/src/sidecar.ts), the quit guard (quitGuard.ts) and the *)
(* operator's "Restart recorder" (restart.ts), wired together by main.ts.  *)
(*                                                                         *)
(* JavaScript runs one callback at a time, so a step of this module is a   *)
(* run from one await (or timer, or event) to the next.  What waits is     *)
(* data: "chains" are the suspended calls of start(), spawnAndWait() and   *)
(* handleUnexpectedExit(), "ticks" the liveness checks under way, "quit"   *)
(* and "shell.rst" the quits and the restart the operator asked for.       *)
(* "os" is the truth about each process, which the supervisor only learns  *)
(* from exit events and from GET /health.                                  *)
(***************************************************************************)
EXTENDS Integers, FiniteSets

CONSTANTS
    MaxRestarts,        \* opts.maxRestarts
    LivenessFailures,   \* opts.livenessFailures
    MaxFaults,          \* bound: crashes, hangs, failed spawns, missed deadlines
    MaxRestartClicks,   \* bound: uses of "Restart recorder"
    Quits               \* the operator's attempts to quit (window X, menu, Alt+F4)

ASSUME ShellAssumption ==
    /\ MaxRestarts \in Nat /\ LivenessFailures \in Nat \ {0}
    /\ MaxFaults \in Nat /\ MaxRestartClicks \in Nat

VARIABLES
    sup,        \* the fields of SidecarSupervisor
    shell,      \* the module-level state of main.ts
    chains,     \* suspended start / spawnAndWait / handleUnexpectedExit calls
    ticks,      \* liveness checks and kills under way
    abandoned,  \* the WeakSet of processes given up on
    killed,     \* processes terminate() has been called on
    os,         \* per process: what the operating system runs
    rec,        \* the process that records, or 0
    quit,       \* per attempt to quit: where it stands
    faults      \* faults left

shellVars == <<sup, shell, chains, ticks, abandoned, killed, os, rec, quit, faults>>

Pids == 1 .. (1 + MaxFaults + MaxRestartClicks)
Alive == {"booting", "healthy", "hung"}
Running == {p \in Pids : os[p] \in Alive}

\* The child has no exit to wait for: never spawned, or its exit was reported.
NoProcess(p) == p = 0 \/ os[p] \in {"failing", "failed", "exited"}

Chain(at, p, ep, who) == [at |-> at, p |-> p, ep |-> ep, who |-> who, gone |-> FALSE]

ShellInit ==
    /\ sup = [state |-> "starting", proc |-> 1, restarts |-> 0, stopping |-> FALSE,
              epoch |-> 1, starting |-> 1, armed |-> 0, misses |-> 0, stable |-> FALSE]
    /\ shell = [settled |-> FALSE, loaded |-> FALSE, manual |-> FALSE, rst |-> "no",
                rstProc |-> 0, clicks |-> 0, said |-> "idle", confirmed |-> FALSE,
                app |-> "up", reports |-> 0, lost |-> FALSE]
    /\ chains = {Chain("health", 1, 1, "launch")}
    /\ ticks = {} /\ abandoned = {} /\ killed = {}
    /\ os = [p \in Pids |-> IF p = 1 THEN "booting" ELSE "none"]
    /\ rec = 0
    /\ quit = [i \in Quits |-> [at |-> "no", p |-> 0]]
    /\ faults = MaxFaults

----------------------------------------------------------------------------
(* What a change of state tells the operator (onSidecarStateChange): a     *)
(* crash outside startup and outside a manual restart gets an error box, a *)
(* crash recovery sends the window to Record.                              *)

Heard(s, restarts) ==
    CASE s = "starting" -> [shell EXCEPT !.reports = 0]
      [] s = "crashed" /\ shell.settled /\ ~shell.manual ->
            [shell EXCEPT !.reports = @ + 1, !.lost = FALSE]
      [] s = "ready" /\ restarts > 0 /\ ~shell.manual -> [shell EXCEPT !.lost = FALSE]
      [] OTHER -> shell

\* stopLiveness(): both timers are cleared.
StopLiveness(s) == [s EXCEPT !.armed = 0, !.misses = 0, !.stable = FALSE]

\* A recording that ends because its backend ended, with nobody having asked for it.
LostWith(sh, p) == [sh EXCEPT !.lost = @ \/ (rec = p /\ ~sup.stopping)]

\* Who awaited a chain goes on when it returns: createWindow() reports a start
\* that did not end ready, "Restart recorder" reports its outcome.
Returned(sh, who, state) ==
    LET told == IF state # "ready" THEN 1 ELSE 0
    IN  CASE who = "launch" -> [sh EXCEPT !.settled = TRUE, !.loaded = (state = "ready"),
                                           !.reports = @ + told]
          [] who = "restart" -> [sh EXCEPT !.manual = FALSE, !.rst = "no", !.rstProc = 0, !.said = "idle",
                                            !.lost = FALSE,
                                            !.reports = @ + told]
          [] OTHER -> sh

\* handleUnexpectedExit() up to its backoff sleep, called with the supervisor in s.
Unexpected(s, sh, who, others) ==
    IF s.restarts >= MaxRestarts
    THEN LET sh1 == IF sh.settled /\ ~sh.manual
                    THEN [sh EXCEPT !.reports = @ + 1, !.lost = FALSE] ELSE sh
         IN  /\ sup' = [s EXCEPT !.state = "crashed"]
             /\ shell' = Returned(sh1, who, "crashed")
             /\ chains' = others
    ELSE /\ sup' = [s EXCEPT !.state = "restarting", !.restarts = @ + 1]
         /\ shell' = sh
         /\ chains' = others \union {Chain("backoff", 0, s.epoch, who)}

\* spawnAndWait() up to the health poll: a new process, which may fail to spawn.
SpawnAndWait(s, sh, who, others) ==
    \E p \in Pids, failed \in BOOLEAN :
        /\ os[p] = "none" /\ \A q \in Pids : q < p => os[q] # "none"
        /\ failed => faults > 0
        /\ faults' = IF failed THEN faults - 1 ELSE faults
        /\ os' = [os EXCEPT ![p] = IF failed THEN "failing" ELSE "booting"]
        /\ sup' = [s EXCEPT !.state = "starting", !.proc = p, !.starting = p]
        /\ shell' = [sh EXCEPT !.reports = 0]
        /\ chains' = others \union {Chain("health", p, s.epoch, who)}

----------------------------------------------------------------------------
(* The processes.  One that cannot bind the port, because an earlier one   *)
(* still holds it, ends as a crash; a hung one may come back to life.      *)

PortTaken(p) == \E q \in Pids \ {p} : os[q] \in {"healthy", "hung"}

Boot(p) ==
    /\ os[p] = "booting" /\ ~PortTaken(p)
    /\ os' = [os EXCEPT ![p] = "healthy"]
    /\ UNCHANGED <<sup, shell, chains, ticks, abandoned, killed, rec, quit, faults>>

Hang(p) ==
    /\ os[p] = "healthy" /\ faults > 0
    /\ os' = [os EXCEPT ![p] = "hung"]
    /\ faults' = faults - 1
    /\ UNCHANGED <<sup, shell, chains, ticks, abandoned, killed, rec, quit>>

Revive(p) ==
    /\ os[p] = "hung" /\ p \notin killed
    /\ os' = [os EXCEPT ![p] = "healthy"]
    /\ UNCHANGED <<sup, shell, chains, ticks, abandoned, killed, rec, quit, faults>>

RecordingStarts(p) ==
    /\ os[p] = "healthy" /\ rec = 0 /\ p \notin killed /\ shell.loaded /\ shell.app = "up"
    /\ rec' = p
    /\ UNCHANGED <<sup, shell, chains, ticks, abandoned, killed, os, quit, faults>>

RecordingEnds ==
    /\ rec # 0 /\ os[rec] = "healthy"
    /\ rec' = 0
    /\ UNCHANGED <<sup, shell, chains, ticks, abandoned, killed, os, quit, faults>>

\* Mutant: the events of an abandoned process still count.
MutStale(p) == sup.proc # p

Stale(p) == p \in abandoned \/ sup.proc # p

\* The chain that waits for p learns that it is gone (startupExited).
StartupExited(p) == {IF c.at = "health" /\ c.p = p THEN [c EXCEPT !.gone = TRUE] ELSE c : c \in chains}

\* The 'exit' event of process p.
Exit(p) ==
    /\ os[p] \in Alive
    /\ p \in killed \/ faults > 0
    /\ faults' = IF p \in killed THEN faults ELSE faults - 1
    /\ os' = [os EXCEPT ![p] = "exited"]
    /\ rec' = IF rec = p THEN 0 ELSE rec
    /\ UNCHANGED <<ticks, abandoned, killed, quit>>
    /\ \/ /\ Stale(p) \/ shell.app # "up"
          /\ UNCHANGED <<sup, shell, chains>>
       \/ /\ ~Stale(p) /\ shell.app = "up" /\ sup.stopping
          /\ sup' = [StopLiveness(sup) EXCEPT !.state = "stopped"]
          /\ chains' = IF sup.starting = p THEN StartupExited(p) ELSE chains
          /\ UNCHANGED shell
       \/ /\ ~Stale(p) /\ shell.app = "up" /\ ~sup.stopping /\ sup.starting = p
          /\ sup' = StopLiveness(sup)
          /\ chains' = StartupExited(p)
          /\ shell' = LostWith(shell, p)
       \/ /\ ~Stale(p) /\ shell.app = "up" /\ ~sup.stopping /\ sup.starting # p
          /\ Unexpected(StopLiveness(sup), LostWith(shell, p), "exit", chains)

\* The 'error' event of a process that could not be spawned.
SpawnError(p) ==
    /\ os[p] = "failing" /\ shell.app = "up"
    /\ os' = [os EXCEPT ![p] = "failed"]
    /\ UNCHANGED <<ticks, abandoned, killed, rec, quit, faults>>
    /\ \/ Stale(p) /\ UNCHANGED <<sup, shell, chains>>
       \/ /\ ~Stale(p) /\ sup.stopping
          /\ sup' = [sup EXCEPT !.state = "stopped"] /\ UNCHANGED <<shell, chains>>
       \/ /\ ~Stale(p) /\ ~sup.stopping
          /\ chains' = StartupExited(p) /\ UNCHANGED <<sup, shell>>

----------------------------------------------------------------------------
(* The suspended calls of the supervisor.                                  *)

\* Woken with the epoch changed or stop() called, a call stands down.
StandsDown(c) == sup.stopping \/ c.ep # sup.epoch

\* spawnAndWait() stops being the one that startup events are reported to.
NotStarting(c) == [sup EXCEPT !.starting = IF @ = c.p THEN 0 ELSE @]

\* (a failed spawn is reported before any poll returns)
HealthReady(c) ==
    /\ c.at = "health" /\ ~c.gone /\ os[c.p] # "failing" /\ \E q \in Pids : os[q] = "healthy"
    /\ chains' = chains \ {c}
    /\ UNCHANGED <<ticks, abandoned, killed, os, rec, quit, faults>>
    /\ \/ /\ StandsDown(c)
          /\ sup' = NotStarting(c) /\ shell' = Returned(shell, c.who, sup.state)
       \/ /\ ~StandsDown(c)
          /\ sup' = [NotStarting(c) EXCEPT !.state = "ready", !.armed = c.p, !.misses = 0, !.stable = TRUE]
          /\ shell' = Returned(Heard("ready", sup.restarts), c.who, "ready")

HealthGone(c) ==
    /\ c.at = "health" /\ c.gone
    /\ UNCHANGED <<ticks, abandoned, killed, os, rec, quit, faults>>
    /\ \/ /\ StandsDown(c)
          /\ sup' = NotStarting(c) /\ chains' = chains \ {c}
          /\ shell' = Returned(shell, c.who, sup.state)
       \/ /\ ~StandsDown(c)
          /\ Unexpected(NotStarting(c), shell, c.who, chains \ {c})

HealthTimeout(c) ==
    /\ c.at = "health" /\ ~c.gone
    /\ faults > 0 \/ StandsDown(c) \/ os[c.p] = "hung"
    /\ faults' = IF StandsDown(c) \/ os[c.p] = "hung" THEN faults ELSE faults - 1
    /\ UNCHANGED <<ticks, os, rec, quit>>
    /\ \/ /\ StandsDown(c)
          /\ sup' = NotStarting(c) /\ chains' = chains \ {c}
          /\ shell' = Returned(shell, c.who, sup.state)
          /\ UNCHANGED <<abandoned, killed>>
       \/ /\ ~StandsDown(c)
          /\ abandoned' = abandoned \union {c.p} /\ killed' = killed \union {c.p}
          /\ sup' = [NotStarting(c) EXCEPT !.state = "crashed"]
          /\ shell' = Heard("crashed", sup.restarts)
          /\ chains' = (chains \ {c}) \union {[c EXCEPT !.at = "reap"]}

\* terminate() resolves on the exit, or gives up waiting for it.
Terminated(p) == NoProcess(p) \/ faults > 0
GiveUpOn(p) == faults' = IF NoProcess(p) THEN faults ELSE faults - 1

Reaped(c) ==
    /\ c.at = "reap" /\ Terminated(c.p) /\ GiveUpOn(c.p)
    /\ chains' = chains \ {c}
    /\ shell' = Returned(shell, c.who, sup.state)
    /\ UNCHANGED <<sup, ticks, abandoned, killed, os, rec, quit>>

BackoffOver(c) ==
    /\ c.at = "backoff"
    /\ UNCHANGED <<ticks, abandoned, killed, rec, quit>>
    /\ \/ /\ StandsDown(c)
          /\ chains' = chains \ {c} /\ shell' = Returned(shell, c.who, sup.state)
          /\ UNCHANGED <<sup, os, faults>>
       \/ ~StandsDown(c) /\ SpawnAndWait(sup, shell, c.who, chains \ {c})

\* The stable timer: earlier restarts no longer count.
Stabilised ==
    /\ sup.stable
    /\ sup' = [sup EXCEPT !.stable = FALSE, !.restarts = 0]
    /\ UNCHANGED <<shell, chains, ticks, abandoned, killed, os, rec, quit, faults>>

----------------------------------------------------------------------------
(* The liveness probe of a ready backend (startLiveness).                  *)

\* Mutant: every check starts counting the misses again.
MutTickFires ==
    /\ sup.armed # 0
    /\ sup' = [sup EXCEPT !.armed = 0, !.misses = 0]
    /\ ticks' = IF sup.stopping \/ sup.proc # sup.armed THEN ticks
                ELSE ticks \union {[at |-> "probe", p |-> sup.armed, misses |-> 0]}
    /\ UNCHANGED <<shell, chains, abandoned, killed, os, rec, quit, faults>>

TickFires ==
    /\ sup.armed # 0
    /\ sup' = [sup EXCEPT !.armed = 0, !.misses = 0]
    /\ ticks' = IF sup.stopping \/ sup.proc # sup.armed THEN ticks
                ELSE ticks \union {[at |-> "probe", p |-> sup.armed, misses |-> sup.misses]}
    /\ UNCHANGED <<shell, chains, abandoned, killed, os, rec, quit, faults>>

\* The answer of GET /health, whichever process gives it.
Answers(ok) == IF ok THEN \E q \in Pids : os[q] = "healthy" ELSE \A q \in Pids : os[q] # "healthy"

ProbeReturns(t, ok) ==
    /\ t.at = "probe" /\ Answers(ok)
    /\ LET misses == IF ok THEN 0 ELSE t.misses + 1 IN
       \/ /\ sup.stopping \/ sup.proc # t.p \/ NoProcess(t.p)
          /\ ticks' = ticks \ {t} /\ UNCHANGED <<sup, killed>>
       \/ /\ ~(sup.stopping \/ sup.proc # t.p \/ NoProcess(t.p)) /\ misses < LivenessFailures
          /\ ticks' = ticks \ {t} /\ UNCHANGED killed
          /\ sup' = [sup EXCEPT !.armed = t.p, !.misses = misses]
       \/ /\ ~(sup.stopping \/ sup.proc # t.p \/ NoProcess(t.p)) /\ misses >= LivenessFailures
          /\ ticks' = (ticks \ {t}) \union {[at |-> "kill", p |-> t.p, misses |-> 0]}
          /\ killed' = killed \union {t.p} /\ UNCHANGED sup
    /\ UNCHANGED <<shell, chains, abandoned, os, rec, quit, faults>>

KillReturns(t) ==
    /\ t.at = "kill" /\ Terminated(t.p) /\ GiveUpOn(t.p)
    /\ ticks' = ticks \ {t}
    /\ UNCHANGED <<killed, os, rec, quit>>
    /\ \/ /\ NoProcess(t.p) \/ sup.stopping \/ sup.proc # t.p
          /\ UNCHANGED <<sup, shell, chains, abandoned>>
       \/ /\ ~(NoProcess(t.p) \/ sup.stopping \/ sup.proc # t.p)
          /\ abandoned' = abandoned \union {t.p}
          /\ Unexpected(StopLiveness(sup), LostWith(shell, t.p), "exit", chains)

----------------------------------------------------------------------------
(* stop(), as called by the quit and by the restart.                       *)

StopCalled(s) ==
    LET s1 == StopLiveness([s EXCEPT !.stopping = TRUE, !.epoch = @ + 1])
    IN  IF NoProcess(s.proc) THEN [s1 EXCEPT !.state = "stopped"] ELSE s1

KilledBy(s) == IF NoProcess(s.proc) THEN {} ELSE {s.proc}

\* What GET /record/status can say: nothing at all, or the truth when a backend answers.
Status == {"unknown"} \union
          (IF \E q \in Pids : os[q] = "healthy"
           THEN {IF rec # 0 /\ os[rec] = "healthy" THEN "busy" ELSE "idle"} ELSE {})

----------------------------------------------------------------------------
(* "Restart recorder" (ipc sidecar:restart, restartRecorder).              *)

RestartClick ==
    /\ shell.rst = "no" /\ shell.loaded /\ shell.app = "up" /\ shell.clicks < MaxRestartClicks
    /\ shell' = [shell EXCEPT !.rst = "ask", !.clicks = @ + 1]
    /\ UNCHANGED <<sup, chains, ticks, abandoned, killed, os, rec, quit, faults>>

\* deps.restart(): supervisor.restart() runs up to the wait inside stop().
Go(said) ==
    /\ shell' = [shell EXCEPT !.rst = "stop", !.rstProc = sup.proc, !.manual = TRUE, !.said = said]
    /\ sup' = StopCalled(sup)
    /\ killed' = killed \union KilledBy(sup)

\* Mutant: a backend that does not answer counts as idle.
MutRestartDecision(said, state) == IF said = "busy" THEN "refuse" ELSE "restart"

restartDecision(said, state) ==
    CASE said = "idle" -> "restart"
      [] said = "unknown" -> IF state = "ready" THEN "confirm" ELSE "restart"
      [] said = "busy" -> "refuse"

RestartAnswer(said) ==
    /\ shell.rst = "ask" /\ shell.app = "up" /\ said \in Status
    /\ \/ /\ restartDecision(said, sup.state) = "refuse"
          /\ shell' = [shell EXCEPT !.rst = "no"] /\ UNCHANGED <<sup, killed>>
       \/ /\ restartDecision(said, sup.state) = "confirm"
          /\ shell' = [shell EXCEPT !.rst = "dialog"] /\ UNCHANGED <<sup, killed>>
       \/ restartDecision(said, sup.state) = "restart" /\ Go(said)
    /\ UNCHANGED <<chains, ticks, abandoned, os, rec, quit, faults>>

RestartDialog(yes) ==
    /\ shell.rst = "dialog" /\ shell.app = "up"
    /\ shell' = [shell EXCEPT !.rst = IF yes THEN "recheck" ELSE "no"]
    /\ UNCHANGED <<sup, chains, ticks, abandoned, killed, os, rec, quit, faults>>

RestartRecheck(said) ==
    /\ shell.rst = "recheck" /\ shell.app = "up" /\ said \in Status
    /\ \/ /\ restartDecision(said, sup.state) = "refuse"
          /\ shell' = [shell EXCEPT !.rst = "no"] /\ UNCHANGED <<sup, killed>>
       \/ restartDecision(said, sup.state) # "refuse" /\ Go(said)
    /\ UNCHANGED <<chains, ticks, abandoned, os, rec, quit, faults>>

RestartStopped ==
    /\ shell.rst = "stop" /\ shell.app = "up" /\ Terminated(shell.rstProc) /\ GiveUpOn(shell.rstProc)
    /\ sup' = [sup EXCEPT !.state = "stopped"]
    /\ shell' = [shell EXCEPT !.rst = "start"]
    /\ UNCHANGED <<chains, ticks, abandoned, killed, os, rec, quit>>

\* start(): a pending continuation still runs while the app closes.
RestartStarts ==
    /\ shell.rst = "start"
    /\ SpawnAndWait([sup EXCEPT !.stopping = FALSE, !.epoch = @ + 1, !.restarts = 0],
                    [shell EXCEPT !.rst = "wait"], "restart", chains)
    /\ UNCHANGED <<ticks, abandoned, killed, rec, quit>>

----------------------------------------------------------------------------
(* Quitting: the window's close handler and before-quit, both behind the   *)
(* same guard.                                                             *)

QuitClick(i) ==
    /\ quit[i].at = "no" /\ shell.app = "up"
    /\ quit' = [quit EXCEPT ![i].at = IF shell.confirmed THEN "quit" ELSE "ask"]
    /\ UNCHANGED <<sup, shell, chains, ticks, abandoned, killed, os, rec, faults>>

QuitAnswer(i, said) ==
    /\ quit[i].at = "ask" /\ shell.app = "up" /\ said \in Status
    /\ quit' = [quit EXCEPT ![i].at = IF said = "busy" THEN "dialog" ELSE "quit"]
    /\ shell' = [shell EXCEPT !.confirmed = @ \/ said # "busy"]
    /\ UNCHANGED <<sup, chains, ticks, abandoned, killed, os, rec, faults>>

QuitDialog(i, yes) ==
    /\ quit[i].at = "dialog" /\ shell.app = "up"
    /\ quit' = [quit EXCEPT ![i].at = IF yes THEN "quit" ELSE "kept"]
    /\ shell' = [shell EXCEPT !.confirmed = @ \/ yes]
    /\ UNCHANGED <<sup, chains, ticks, abandoned, killed, os, rec, faults>>

\* before-quit past the guard: a stopped supervisor lets the app go, otherwise
\* the quit is held until stop() has returned.
BeforeQuit(i) ==
    /\ quit[i].at = "quit" /\ shell.app = "up"
    /\ \/ /\ sup.state = "stopped"
          /\ shell' = [shell EXCEPT !.app = "closing"] /\ UNCHANGED <<sup, quit, killed>>
       \/ /\ sup.state # "stopped"
          /\ sup' = StopCalled(sup) /\ killed' = killed \union KilledBy(sup)
          /\ quit' = [quit EXCEPT ![i] = [at |-> "stop", p |-> sup.proc]]
          /\ UNCHANGED shell
    /\ UNCHANGED <<chains, ticks, abandoned, os, rec, faults>>

QuitStopped(i) ==
    /\ quit[i].at = "stop" /\ shell.app = "up" /\ Terminated(quit[i].p) /\ GiveUpOn(quit[i].p)
    /\ sup' = [sup EXCEPT !.state = "stopped"]
    /\ quit' = [quit EXCEPT ![i] = [at |-> "quit", p |-> 0]]
    /\ UNCHANGED <<shell, chains, ticks, abandoned, killed, os, rec>>

AppGone ==
    /\ shell.app = "closing"
    /\ shell' = [shell EXCEPT !.app = "gone"]
    /\ UNCHANGED <<sup, chains, ticks, abandoned, killed, os, rec, quit, faults>>

----------------------------------------------------------------------------
SupervisorStep ==
    \/ \E c \in chains : HealthReady(c) \/ HealthGone(c) \/ HealthTimeout(c) \/ Reaped(c) \/ BackoffOver(c)
    \/ \E t \in ticks : KillReturns(t) \/ \E ok \in BOOLEAN : ProbeReturns(t, ok)
    \/ TickFires

OperatorStep ==
    \/ RestartClick
    \/ \E yes \in BOOLEAN : RestartDialog(yes)
    \/ \E i \in Quits : QuitClick(i) \/ \E yes \in BOOLEAN : QuitDialog(i, yes)

RestartStep ==
    \/ \E said \in {"unknown", "busy", "idle"} : RestartAnswer(said) \/ RestartRecheck(said)
    \/ RestartStopped
    \/ RestartStarts

QuitStep(i) ==
    \/ \E said \in {"unknown", "busy", "idle"} : QuitAnswer(i, said)
    \/ BeforeQuit(i) \/ QuitStopped(i)

ProcessStep(p) == Boot(p) \/ Hang(p) \/ Revive(p) \/ RecordingStarts(p) \/ Exit(p) \/ SpawnError(p)

ShellNext ==
    /\ shell.app # "gone"
    /\ \/ shell.app = "up" /\ (SupervisorStep \/ Stabilised \/ OperatorStep)
       \/ RestartStep
       \/ \E i \in Quits : QuitStep(i)
       \/ \E p \in Pids : ProcessStep(p)
       \/ RecordingEnds
       \/ AppGone

\* The shell by itself, without fairness.
ShellSpec == ShellInit /\ [][ShellNext]_shellVars

(* Fairness: timers fire, awaited promises settle, a killed process ends.  *)
(* Only finitely many of these steps exist in a behaviour (the liveness    *)
(* probe apart), so fairness of their disjunction is fairness of each.     *)
(* Nothing is assumed of the operator, nor of a hung process.              *)
Progress ==
    /\ shell.app # "gone"
    /\ \/ /\ shell.app = "up"
          /\ \/ \E c \in chains : HealthReady(c) \/ HealthGone(c) \/ HealthTimeout(c) \/ Reaped(c) \/ BackoffOver(c)
             \/ \E t \in ticks : KillReturns(t)
       \/ RestartStep \/ AppGone
       \/ \E i \in Quits : QuitStep(i)
       \/ \E p \in Pids : Boot(p) \/ SpawnError(p) \/ (p \in killed /\ Exit(p))

Probing == shell.app = "up" /\ (TickFires \/ \E t \in ticks, ok \in BOOLEAN : ProbeReturns(t, ok))

----------------------------------------------------------------------------
States == {"starting", "ready", "restarting", "crashed", "stopped"}

\* Types of the supervisor's and the shell's state; restarts never exceed the budget.
ShellTypeOK ==
    /\ sup \in [state : States, proc : Pids \union {0}, restarts : 0 .. MaxRestarts, stopping : BOOLEAN,
                epoch : Nat, starting : Pids \union {0}, armed : Pids \union {0},
                misses : 0 .. (LivenessFailures - 1), stable : BOOLEAN]
    /\ chains \subseteq [at : {"health", "backoff", "reap"}, p : Pids \union {0}, ep : Nat,
                         who : {"launch", "restart", "exit"}, gone : BOOLEAN]
    /\ ticks \subseteq [at : {"probe", "kill"}, p : Pids, misses : 0 .. (LivenessFailures - 1)]
    /\ abandoned \subseteq killed /\ killed \subseteq Pids
    /\ rec \in Running \union {0} /\ faults \in 0 .. MaxFaults

(* sidecar.ts:111-113: a restart or spawn that was waiting stands down, so *)
(* at most one backend runs that nobody has told to end, whatever crash,   *)
(* hang, manual restart and quit come together.                            *)
OneBackend == Cardinality(Running \ killed) <= 1

(* sidecar.ts:119-125: however an exit, a startup failure, a late event    *)
(* and a manual restart overlap, one call at most is on its way to a spawn.*)
OneRestartUnderWay ==
    Cardinality({c \in chains : c.at # "reap" /\ ~StandsDown(c)}) <= 1

(* sidecar.ts:294-296: a backend reported ready that is not being stopped  *)
(* has not exited and is still watched, by a timer, a check or a kill.     *)
ReadyIsWatched ==
    (sup.state = "ready" /\ ~sup.stopping /\ shell.app = "up") =>
        /\ sup.proc \notin abandoned /\ ~NoProcess(sup.proc)
        /\ sup.armed = sup.proc \/ \E t \in ticks : t.p = sup.proc

(* main.ts:241-248: one failure of the backend is reported to the operator *)
(* once, by the state callback, by the failed start or as the result of    *)
(* the restart, never by two of them.                                      *)
ReportedOnce == shell.reports <= 1

(* main.ts:583-598, sidecar.ts:71-72: when the app has gone, no backend is *)
(* left holding the port, except one that refused to die, or one that the  *)
(* start() of an overlapping "Restart recorder" spawned after the quit had *)
(* called stop() (README, section 5).                                      *)
NoOrphan == shell.app = "gone" => (Running \subseteq killed \/ ~sup.stopping)

(* restart.ts:17-35, 70-83: "Restart recorder" ends a recording only when  *)
(* the backend would not say that it records, and while the supervisor     *)
(* thinks it is ready only after the operator has agreed.                  *)
RestartSparesRecording ==
    [][(shell.rst # "stop" /\ shell'.rst = "stop" /\ rec # 0 /\ os[rec] = "healthy") =>
          /\ shell'.said = "unknown"
          /\ sup.state = "ready" => shell.rst = "recheck"]_shellVars

(* quitGuard.ts:49-57, 93-102: a quit passes the guard with a recording    *)
(* running only when the backend did not answer or the operator agreed.    *)
QuitSparesRecording ==
    [][(~shell.confirmed /\ shell'.confirmed /\ rec # 0 /\ os[rec] = "healthy") =>
          \E i \in Quits : /\ quit'[i].at = "quit"
                           /\ quit[i].at = "dialog" \/ (quit[i].at = "ask" /\ "unknown" \in Status)]_shellVars

(* What is over for good once the faults and the clicks are:               *)
(* the launch is settled, whatever the backend does (sidecar.ts:163-274);  *)
(* no ready backend has stopped answering: it was replaced, given up on,   *)
(* or came back by itself (sidecar.ts:276-305);                            *)
(* a quit that passed the guard has ended (sidecar.ts:93-98,               *)
(* main.ts:595-598), and a restart that began to stop the backend has      *)
(* reported an outcome (restart.ts:86-90);                                 *)
(* a recording lost to a crash or a hang was brought to the operator's     *)
(* attention: the window goes to Record, an error box or the result of a   *)
(* restart says so (main.ts:257-263).                                      *)
LaunchSettled == shell.settled
HungReplaced == ~(sup.state = "ready" /\ sup.proc \in Pids /\ os[sup.proc] = "hung")
QuitEnded == ~shell.confirmed
RestartEnded == shell.rst \notin {"stop", "start", "wait"}
LossAnnounced == ~shell.lost
ShellQuiet == shell.app = "gone" \/ (LaunchSettled /\ HungReplaced /\ QuitEnded /\ RestartEnded /\ LossAnnounced)

=============================================================================
