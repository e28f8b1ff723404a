------------------------------ MODULE RecordPage ------------------------------
(***************************************************************************)
(* The Record page's own work (web/src/record/RecordPage.vue), in two      *)
(* parts that share no state:                                              *)
(*  - the safety alarms (alarms.ts) as the page and Settings > Alarms use  *)
(*    them (AlarmsSettings.vue, workspace.ts, shortcuts.ts), with the      *)
(*    prompts of a start and of an acknowledgement on the shared dialog; a *)
(*    force level is 0 (normal), 1 (at the warning level) or 2 (at the     *)
(*    threshold);                                                          *)
(*  - what the page polls and when (recordPolling.ts), and the banner      *)
(*    about recordings a crash left incomplete.  The recorder is external: *)
(*    what it holds incomplete, and its answers.                           *)
(***************************************************************************)
EXTENDS Integers, FiniteSets, Sequences

(***************************************************************************)
(* The app-wide confirmation dialog (web/src/ui/confirm.ts,                *)
(* ConfirmDialog.vue): one dialog on screen, the others queued.  A prompt  *)
(* is a record whose `op` says who asked; `timer` counts the showNext()    *)
(* calls put off with setTimeout(.., 0).                                   *)
(***************************************************************************)

NoPrompt == [op |-> "none"]
EmptyQueue == [queue |-> <<>>, active |-> NoPrompt, timer |-> 0]

showNext(q) ==
    [q EXCEPT !.active = IF q.queue = <<>> THEN NoPrompt ELSE Head(q.queue),
              !.queue = IF q.queue = <<>> THEN <<>> ELSE Tail(q.queue)]

\* confirmAction(), promptAction().
confirmAction(q, p) ==
    LET queued == [q EXCEPT !.queue = Append(@, p)]
    IN  IF q.active = NoPrompt THEN showNext(queued) ELSE queued

\* resolveActive() with an answer that is accepted; the next prompt is shown from a timer.
resolveActive(q) == [q EXCEPT !.active = NoPrompt, !.timer = IF q.queue = <<>> THEN @ ELSE @ + 1]

TimerFires(q) == [showNext(q) EXCEPT !.timer = @ - 1]

\* Nothing behind the backdrop takes a click or a shortcut while a prompt is on screen.
modalOpen(q) == q.active # NoPrompt

Waiting(q, op) == q.active.op = op \/ \E i \in DOMAIN q.queue : q.queue[i].op = op

------------------------------------------------------------------------------
CONSTANTS
    Axes,         \* the force axes
    Faults,       \* further alarms: "rpm", "tacho", "disk"
    MaxAlarmCuts, \* bound: cuts
    MaxAcks,      \* bound: acknowledgements begun
    MaxTests,     \* bound: test alarms
    Toggled,      \* the switches changed in the settings
    MaxToggles    \* bound: changes of them

ASSUME AlarmAssumption == {MaxAlarmCuts, MaxAcks, MaxTests, MaxToggles} \subseteq Nat /\ Faults \subseteq {"rpm", "tacho", "disk"}

VARIABLES
    alm,     \* AlarmController: active, latched, acked, warnings, warned, tone, tested
    acfg,    \* its switches
    cut,     \* the cut: state, where start() waits
    cq,      \* the confirmation dialog
    almPast  \* history and bounds

alarmVars == <<alm, acfg, cut, cq, almPast>>

Switches == {"force", "rpm", "disk", "audio"}
NoAlarms == [active |-> {}, latched |-> {}, acked |-> {}, warnings |-> {}, warned |-> {}, tone |-> FALSE]

AlarmInit ==
    /\ alm = NoAlarms /\ cq = EmptyQueue
    /\ acfg = [s \in Switches |-> TRUE]
    /\ cut = [state |-> "idle", start |-> "no", n |-> 0, tested |-> FALSE]
    /\ almPast = [shown |-> {}, loud |-> {}, dismissed |-> {}, crossed |-> FALSE, tests |-> 0, acks |-> 0, toggles |-> 0, stops |-> [a \in Axes |-> 0]]

----------------------------------------------------------------------------
tripped(a) == a.active \ a.acked # {}

NewTrips(lv) == {x \in Axes : lv[x] = 2 /\ x \notin alm.latched}

\* New alarms are latched once; the tone starts unless it is switched off.
Fire(a, keys) ==
    [a EXCEPT !.active = @ \union keys, !.latched = @ \union keys, !.tone = @ \/ (keys # {} /\ acfg["audio"])]

\* The early warnings: gone from an axis that has tripped, once per axis and cut.
Warnings(a, lv, fired) ==
    (a.warnings \ (a.latched \union fired)) \union {x \in Axes : lv[x] >= 1 /\ x \notin a.latched \union fired \union a.warned}

Warned(a, lv, fired) == a.warned \union {x \in Axes : lv[x] >= 1 /\ x \notin a.latched \union fired}

\* The alarms of one frame: the forces, then the spindle speed.
evaluate(lv, over) ==
    LET forces == IF acfg["force"] THEN NewTrips(lv) ELSE {}
        speed == IF acfg["rpm"] /\ over THEN {"rpm"} \ alm.latched ELSE {}
        warn == IF acfg["force"] THEN [alm EXCEPT !.warnings = Warnings(alm, lv, forces), !.warned = Warned(alm, lv, forces)] ELSE alm
    IN  [fired |-> forces \union speed, force |-> forces, a |-> Fire(warn, forces \union speed)]

Fired(keys) == [almPast EXCEPT !.shown = @ \ keys, !.loud = IF acfg["audio"] THEN @ \union keys ELSE @ \ keys]

FrameArrived(lv, over) ==
    /\ cut.state = "recording"
    /\ LET e == evaluate(lv, over) IN
       /\ alm' = e.a
       /\ almPast' = [Fired(e.fired) EXCEPT !.stops = [x \in Axes |-> @[x] + IF x \in e.force THEN 1 ELSE 0]]
    /\ UNCHANGED <<acfg, cut, cq>>

\* evaluateTacho() (no pulses) and evaluateDisk() (little free space), while recording.
Sensor(key) ==
    /\ cut.state = "recording" /\ acfg[IF key = "disk" THEN "disk" ELSE "rpm"] /\ key \notin alm.latched
    /\ alm' = Fire(alm, {key}) /\ almPast' = Fired({key})
    /\ UNCHANGED <<acfg, cut, cq>>

DismissWarnings ==
    /\ alm.warnings # {} /\ ~modalOpen(cq)
    /\ alm' = [alm EXCEPT !.warnings = {}]
    /\ almPast' = [almPast EXCEPT !.dismissed = @ \union alm.warnings]
    /\ UNCHANGED <<acfg, cut, cq>>

----------------------------------------------------------------------------
(* Acknowledging: the keys are taken before the prompt is answered.        *)

AckClicked ==
    /\ tripped(alm) /\ ~modalOpen(cq) /\ almPast.acks < MaxAcks
    /\ cq' = confirmAction(cq, [op |-> "ack", keys |-> alm.active])
    /\ almPast' = [almPast EXCEPT !.shown = @ \union alm.active, !.acks = @ + 1]
    /\ UNCHANGED <<alm, acfg, cut>>

\* Mutant: everything active when the prompt is answered is acknowledged.
MutAcknowledge(keys) ==
    LET acked == alm.acked \union alm.active IN [alm EXCEPT !.acked = acked, !.tone = FALSE]

acknowledge(keys) ==
    LET a == [alm EXCEPT !.acked = @ \union keys]
    IN  [a EXCEPT !.tone = @ /\ tripped(a)]

----------------------------------------------------------------------------
(* Test alarms, gone after five seconds.                                   *)

TestKeys == {"t1", "t2"}

TestFires(q) ==
    /\ alm' = Fire(alm, {IF almPast.tests = 0 THEN "t1" ELSE "t2"})
    /\ almPast' = [Fired({IF almPast.tests = 0 THEN "t1" ELSE "t2"}) EXCEPT !.tests = @ + 1]
    /\ cq' = q

TestClicked ==
    /\ ~modalOpen(cq) /\ almPast.tests < MaxTests
    /\ TestFires(cq)
    /\ cut' = [cut EXCEPT !.tested = TRUE]
    /\ UNCHANGED acfg

TestExpires(k) ==
    /\ k \in alm.latched \intersect TestKeys
    /\ LET a == [alm EXCEPT !.latched = @ \ {k}, !.acked = @ \ {k}, !.active = @ \ {k}]
       IN  alm' = [a EXCEPT !.tone = @ /\ tripped(a)]
    /\ UNCHANGED <<acfg, cut, cq, almPast>>

----------------------------------------------------------------------------
(* start(): the alarm test is offered once, then the disk is checked.      *)

StartAsked ==
    /\ ~modalOpen(cq) /\ cut.start = "no" /\ cut.state # "recording" /\ cut.n < MaxAlarmCuts
    /\ cut' = [cut EXCEPT !.start = IF cut.tested THEN "disk" ELSE "asked"]
    /\ cq' = IF cut.tested THEN cq ELSE confirmAction(cq, [op |-> "test"])
    /\ UNCHANGED <<alm, acfg, almPast>>

\* alarms.reset(), then the cut runs.
CutBegins(q) ==
    /\ alm' = NoAlarms /\ cq' = q
    /\ cut' = [cut EXCEPT !.state = "recording", !.start = "no", !.n = @ + 1]
    /\ almPast' = [almPast EXCEPT !.shown = {}, !.loud = {}, !.dismissed = {}, !.crossed = @ \/ Waiting(q, "ack"), !.stops = [x \in Axes |-> 0]]

DiskRead(low) ==
    /\ cut.start = "disk"
    /\ IF low
       THEN cq' = confirmAction(cq, [op |-> "low"]) /\ cut' = [cut EXCEPT !.start = "asked"] /\ UNCHANGED <<alm, almPast>>
       ELSE CutBegins(cq)
    /\ UNCHANGED acfg

CutEnds ==
    /\ cut.state = "recording" /\ cut' = [cut EXCEPT !.state = "done"]
    /\ UNCHANGED <<alm, acfg, cq, almPast>>

\* newRun(): the early warnings go, the alarms stay until acknowledged.
NewCut ==
    /\ cut.state = "done" /\ ~modalOpen(cq) /\ cut.start = "no"
    /\ cut' = [cut EXCEPT !.state = "idle"]
    /\ alm' = [alm EXCEPT !.warnings = {}, !.warned = {}]
    /\ almPast' = [almPast EXCEPT !.dismissed = {}]
    /\ UNCHANGED <<acfg, cq>>

----------------------------------------------------------------------------
(* Settings > Alarms: only switching off asks.                             *)

SetEnabled(s) ==
    /\ ~modalOpen(cq) /\ almPast.toggles < MaxToggles
    /\ IF acfg[s] THEN cq' = confirmAction(cq, [op |-> "off", switch |-> s]) /\ UNCHANGED acfg
       ELSE acfg' = [acfg EXCEPT ![s] = TRUE] /\ UNCHANGED cq
    /\ almPast' = [almPast EXCEPT !.toggles = @ + 1]
    /\ UNCHANGED <<alm, cut>>

\* The prompt on screen is answered and its caller goes on.
PromptAnswered(ok) ==
    /\ modalOpen(cq)
    /\ LET p == cq.active
           q == resolveActive(cq)
       IN CASE p.op = "ack" -> cq' = q /\ alm' = (IF ok THEN acknowledge(p.keys) ELSE alm) /\ UNCHANGED <<acfg, cut, almPast>>
            [] p.op = "off" -> cq' = q /\ acfg' = (IF ok THEN [acfg EXCEPT ![p.switch] = FALSE] ELSE acfg) /\ UNCHANGED <<alm, cut, almPast>>
            [] p.op = "test" /\ ok -> TestFires(q) /\ cut' = [cut EXCEPT !.start = "no", !.tested = TRUE] /\ UNCHANGED acfg
            [] p.op = "test" /\ ~ok -> cq' = q /\ cut' = [cut EXCEPT !.start = "disk", !.tested = TRUE] /\ UNCHANGED <<alm, acfg, almPast>>
            [] p.op = "low" /\ ok -> CutBegins(q) /\ UNCHANGED acfg
            [] OTHER -> cq' = q /\ cut' = [cut EXCEPT !.start = "no"] /\ UNCHANGED <<alm, acfg, almPast>>

NextPromptShown ==
    /\ cq.timer > 0 /\ cq' = TimerFires(cq)
    /\ UNCHANGED <<alm, acfg, cut, almPast>>

----------------------------------------------------------------------------
AlarmNext ==
    \/ \E lv \in [Axes -> 0..2], over \in {FALSE, "rpm" \in Faults} : FrameArrived(lv, over)
    \/ \E key \in Faults \ {"rpm"} : Sensor(key)
    \/ DismissWarnings \/ AckClicked \/ TestClicked
    \/ \E k \in TestKeys : TestExpires(k)
    \/ StartAsked \/ \E low \in BOOLEAN : DiskRead(low)
    \/ CutEnds \/ NewCut
    \/ \E s \in Toggled : SetEnabled(s)
    \/ \E ok \in BOOLEAN : PromptAnswered(ok)
    \/ NextPromptShown

----------------------------------------------------------------------------
\* Types; the latch and what is on screen name the same alarms.
AlarmTypeOK ==
    /\ alm.latched = alm.active /\ alm.warnings \subseteq Axes /\ alm.warned \subseteq Axes
    /\ acfg \in [Switches -> BOOLEAN] /\ cut.state \in {"idle", "recording", "done"}
    /\ cq.timer \in Nat /\ almPast.tests \in 0..MaxTests + 1

(* alarms.ts:184-192: the tone sounds as long as an alarm that was to be   *)
(* heard is unanswered, and no longer: through acknowledgements of other   *)
(* alarms, expiring tests and new cuts (an answer given to a prompt of the *)
(* last cut excepted, README section 5).                                   *)
ToneUntilAnswered ==
    /\ (alm.active \ alm.acked) \intersect almPast.loud # {} => alm.tone
    /\ alm.tone => tripped(alm) \/ almPast.crossed

(* RecordPage.vue:406-410, alarms.ts:71-76: what fired after the prompt    *)
(* was shown is never acknowledged by it, unless a new cut reset the       *)
(* alarms under the open prompt.                                           *)
AckCoversShown == alm.active \intersect alm.acked \subseteq almPast.shown \/ almPast.crossed

(* alarms.ts:133-140: an axis is never both warned about and tripped.      *)
WarningYields == alm.warnings \intersect alm.active = {}

(* alarms.ts:106-110, RecordPage.vue:529-530: a warning that was dismissed *)
(* stays away for the rest of the cut.                                     *)
DismissedStaysAway == alm.warnings \intersect almPast.dismissed = {}

(* alarms.ts:83-84, workspace.ts:294-296: a trip is reported once per axis *)
(* and cut, so the stop it asks for is not repeated.                       *)
TripsOnce == \A x \in Axes : almPast.stops[x] <= 1

(* alarms.ts:195-198: a test alarm clears by itself.                       *)
TestsEnded == alm.active \intersect TestKeys = {}

(* confirm.ts:81-83: a queued prompt is shown once the one on screen is    *)
(* answered, so that no caller waits for ever.                             *)
QueuedShown == cq.queue # <<>> => modalOpen(cq)

(* confirm.ts:81-83, "strand its promise unresolved (a caller awaiting it  *)
(* would hang forever), so they are shown strictly one at a time": a start *)
(* that waits for an answer has its prompt on screen or queued.  Does not  *)
(* hold (README, section 5).                                               *)
StartNotStranded == cut.start = "asked" => Waiting(cq, "test") \/ Waiting(cq, "low")

------------------------------------------------------------------------------
(* Polling and the recovery banner.                                        *)

CONSTANTS
    Sessions,   \* recordings a crash may leave incomplete
    MaxVisits,  \* bound: times the page is opened
    MaxPageReqs \* bound: recover and discard requests, and lists asked for

ASSUME PageAssumption == {MaxVisits, MaxPageReqs} \subseteq Nat

VARIABLES
    pg,      \* the page: mounted, the workspace's mode and state, backup enabled
    gate,    \* the IntervalGates: running or not
    left,    \* the recorder: recordings it holds incomplete
    items,   \* recoveryItems
    lists,   \* /recovery/check answers under way
    reqs,    \* recover and discard requests under way (recoveryBusy)
    prompt,  \* the discard prompt: the recording it names
    ignored, \* dismissedRecoveryIds, in localStorage
    pgPast   \* bounds, and polls made (history)

pageVars == <<pg, gate, left, items, lists, reqs, prompt, ignored, pgPast>>

Modes == {"record", "playback"}
States == {"idle", "recording", "finalizing", "done"}
NoSession == "none"
AllOff == [disk |-> FALSE, pre |-> FALSE, backup |-> FALSE]

PageInit ==
    /\ pg = [mounted |-> FALSE, mode |-> "record", state |-> "idle", backup |-> FALSE]
    /\ gate = AllOff /\ left \in SUBSET Sessions /\ items = {} /\ lists = {} /\ reqs = {}
    /\ prompt = NoSession /\ ignored = {}
    /\ pgPast = [visits |-> 0, reqs |-> 0, asked |-> 0, checked |-> FALSE]

----------------------------------------------------------------------------
(* recordPolling.ts.                                                       *)

shouldPollDisk(m, s) == m = "record" /\ s = "recording"
shouldPollPreflight(m, s) == m = "record" /\ s \notin {"recording", "finalizing"}
shouldPollBackup(m, s, on) == shouldPollDisk(m, s) /\ on

\* syncDiskGate(): whether the disk is checked in the same step.
DiskCheckedNow(old, new) ==
    \/ ~gate.disk /\ (shouldPollDisk(new.mode, new.state) \/ shouldPollPreflight(new.mode, new.state))
    \/ gate.disk /\ shouldPollDisk(new.mode, new.state) /\ ~shouldPollDisk(old.mode, old.state)

\* The watchers of mode, state and the backup switch.
Gates(new) ==
    /\ gate' = [disk |-> shouldPollDisk(new.mode, new.state) \/ shouldPollPreflight(new.mode, new.state),
                pre |-> shouldPollPreflight(new.mode, new.state),
                backup |-> shouldPollBackup(new.mode, new.state, new.backup)]
    /\ pgPast' = [pgPast EXCEPT !.checked = DiskCheckedNow(pg, new)]

Switch(new) == pg' = new /\ IF new.mounted THEN Gates(new) ELSE gate' = gate /\ pgPast' = [pgPast EXCEPT !.checked = FALSE]

\* The workspace changes mode or state (RecordWorkspace.tla); it outlives the page.
ModeChanges(m) ==
    /\ m # pg.mode /\ pg.state # "recording" /\ Switch([pg EXCEPT !.mode = m])
    /\ UNCHANGED <<left, items, lists, reqs, prompt, ignored>>

StateChanges(s) ==
    /\ s # pg.state /\ Switch([pg EXCEPT !.state = s])
    /\ UNCHANGED <<left, items, lists, reqs, prompt, ignored>>

\* checkBackup(): the answer says whether a backup is configured.
BackupRead(on) ==
    /\ pg.mounted /\ on # pg.backup /\ Switch([pg EXCEPT !.backup = on])
    /\ UNCHANGED <<left, items, lists, reqs, prompt, ignored>>

----------------------------------------------------------------------------
(* Opening and leaving the page.                                           *)

Listed(n) == lists \union {[of |-> n, have |-> left]}

Mounts ==
    /\ ~pg.mounted /\ pgPast.visits < MaxVisits
    /\ pg' = [pg EXCEPT !.mounted = TRUE]
    /\ gate' = [disk |-> pg.mode = "record" /\ pg.state # "finalizing", pre |-> shouldPollPreflight(pg.mode, pg.state), backup |-> FALSE]
    /\ items' = {} /\ reqs' = {} /\ lists' = Listed(pgPast.asked)
    /\ pgPast' = [pgPast EXCEPT !.visits = @ + 1, !.asked = @ + 1, !.checked = gate'.disk]
    /\ UNCHANGED <<left, prompt, ignored>>

UnmountGates == AllOff

\* The page's state is gone, the answers it waits for reach nobody.
Unmounts ==
    /\ pg.mounted /\ prompt = NoSession
    /\ pg' = [pg EXCEPT !.mounted = FALSE, !.backup = FALSE]
    /\ gate' = UnmountGates /\ items' = {} /\ lists' = {} /\ reqs' = {}
    /\ pgPast' = [pgPast EXCEPT !.checked = FALSE]
    /\ UNCHANGED <<left, prompt, ignored>>

\* client.onStreamOpen.
StreamOpened ==
    /\ pg.mounted /\ pgPast.asked < MaxPageReqs
    /\ lists' = Listed(pgPast.asked) /\ pgPast' = [pgPast EXCEPT !.asked = @ + 1, !.checked = FALSE]
    /\ UNCHANGED <<pg, gate, left, items, reqs, prompt, ignored>>

CheckAnswered(l) ==
    /\ l \in lists /\ lists' = lists \ {l}
    /\ items' = l.have
    /\ pgPast' = [pgPast EXCEPT !.checked = FALSE]
    /\ UNCHANGED <<pg, gate, left, reqs, prompt, ignored>>

----------------------------------------------------------------------------
(* The banner.                                                             *)

visibleItems(show) == {s \in items : show \/ s \notin ignored}
Quiet == pgPast' = [pgPast EXCEPT !.checked = FALSE]

\* The buttons of an item: off while a request for it runs, covered by an open prompt.
Free(s) == pg.mounted /\ prompt = NoSession /\ s \in items /\ ~\E r \in reqs : r.id = s

Request(s, op) ==
    /\ reqs' = reqs \union {[id |-> s, op |-> op, n |-> pgPast.reqs]}
    /\ pgPast' = [pgPast EXCEPT !.reqs = @ + 1, !.checked = FALSE]

RecoverClicked(s) ==
    /\ Free(s) /\ pgPast.reqs < MaxPageReqs /\ Request(s, "recover")
    /\ UNCHANGED <<pg, gate, left, items, lists, prompt, ignored>>

DiscardClicked(s) ==
    /\ Free(s) /\ prompt' = s /\ Quiet
    /\ UNCHANGED <<pg, gate, left, items, lists, reqs, ignored>>

DiscardAnswered(ok) ==
    /\ prompt # NoSession /\ prompt' = NoSession
    /\ IF ok /\ pgPast.reqs < MaxPageReqs THEN Request(prompt, "discard") ELSE Quiet /\ UNCHANGED reqs
    /\ UNCHANGED <<pg, gate, left, items, lists, ignored>>

\* The recorder finalizes or removes the recording (CaptureJobs.tla), or refuses.
RequestHandled(r) ==
    /\ r \in reqs /\ "done" \notin DOMAIN r
    /\ \E ok \in {FALSE, r.id \in left} :
         /\ left' = IF ok THEN left \ {r.id} ELSE left
         /\ reqs' = (reqs \ {r}) \union {[id |-> r.id, op |-> r.op, n |-> r.n, done |-> ok]}
    /\ Quiet /\ UNCHANGED <<pg, gate, items, lists, prompt, ignored>>

AfterRequest(r) == IF r.done THEN items \ {r.id} ELSE items

RequestAnswered(r) ==
    /\ r \in reqs /\ "done" \in DOMAIN r
    /\ reqs' = reqs \ {r} /\ items' = AfterRequest(r)
    /\ Quiet /\ UNCHANGED <<pg, gate, left, lists, prompt, ignored>>

\* "Ignore for now", "Stop ignoring": kept in localStorage.
IgnoreToggled(s) ==
    /\ s \in items /\ pg.mounted /\ prompt = NoSession
    /\ IF s \in ignored THEN ignored' = ignored \ {s} ELSE Free(s) /\ ignored' = ignored \union {s}
    /\ Quiet /\ UNCHANGED <<pg, gate, left, items, lists, reqs, prompt>>

----------------------------------------------------------------------------
PageNext ==
    \/ \E m \in Modes : ModeChanges(m)
    \/ \E s \in States : StateChanges(s)
    \/ \E on \in BOOLEAN : BackupRead(on)
    \/ Mounts \/ Unmounts \/ StreamOpened
    \/ \E l \in lists : CheckAnswered(l)
    \/ \E s \in Sessions : RecoverClicked(s) \/ DiscardClicked(s) \/ IgnoreToggled(s)
    \/ \E ok \in BOOLEAN : DiscardAnswered(ok)
    \/ \E r \in reqs : RequestHandled(r) \/ RequestAnswered(r)

----------------------------------------------------------------------------
\* Types; one request per recording at a time.
PageTypeOK ==
    /\ items \subseteq Sessions /\ ignored \subseteq Sessions /\ prompt \in Sessions \union {NoSession}
    /\ \A r, q \in reqs : r.id = q.id => r = q

(* recordPolling.ts:1-6, RecordPage.vue:187-220: whatever order mode,      *)
(* state and the first backup answer come in, also on a page opened in the *)
(* middle of a cut, the disk is polled throughout a cut, the backup too    *)
(* when one is configured, and nothing once the page is gone.              *)
PolledWhileRecording ==
    /\ (pg.mounted /\ pg.mode = "record" /\ pg.state = "recording") => gate.disk /\ ~gate.pre /\ gate.backup = pg.backup
    /\ pg.mode = "playback" \/ ~pg.mounted => gate = AllOff

(* recordPolling.ts:71-84: the step that takes the page into a cut checks  *)
(* the disk at once, whether or not the idle page was polling already.     *)
CheckedAtStart ==
    [][(pg'.mounted /\ shouldPollDisk(pg'.mode, pg'.state) /\ ~(pg.mounted /\ shouldPollDisk(pg.mode, pg.state))) => pgPast'.checked]_pageVars

(* RecordPage.vue:349-386: an item leaves the banner for good only when    *)
(* the recorder holds the recording no longer; a refused request keeps it. *)
DroppedOnlyWhenGone ==
    [][\A s \in Sessions : (pg'.mounted /\ s \in items /\ s \notin items' /\ lists' = lists) => s \notin left]_pageVars

(* RecordPage.vue:297-306, 358-360: a recover or discard never leaves its  *)
(* item busy.                                                              *)
PageQuiet == reqs = {}

(* A list asked for before a recover and delivered after it brings the     *)
(* recovered item back.  Does not hold (README, section 5).                *)
RecoveredStaysGone == \A s \in items : s \in left \/ \E r \in reqs : r.id = s
===============================================================================
