--------------------------- MODULE RecordWorkspace ---------------------------
(***************************************************************************)
(* The Record page's workspace (web/src/record/workspace.ts) with the      *)
(* status part of its client (liveClient.ts) and the save dialog           *)
(* (panels/SaveCutDialog.vue, saveDialogGate.ts), recording with the       *)
(* NI-DAQ source.  The recorder is external: its own state, the `done`     *)
(* message it publishes and its answers travel separately, so the page's   *)
(* view may be older than the recorder.                                    *)
(***************************************************************************)
EXTENDS Integers, FiniteSets

CONSTANTS
    MaxCuts,       \* bound: captures the recorder starts
    MaxWsFaults    \* bound: dropped streams, lost requests, restarts

ASSUME WorkspaceAssumption == {MaxCuts, MaxWsFaults} \subseteq Nat

VARIABLES
    recd,    \* the recorder: state, capture, captures started
    stream,  \* the WebSocket: open, `done` messages on it
    view,    \* client.status: state, capture
    act,     \* start() or stop() under way (busy): where it waits, what it knows
    recon,   \* reconcile() under way
    fin,     \* finishedCache: the capture it was loaded from, 0 for none
    wload,   \* loadFinished() of the state watcher: the capture it loads, 0 for none
    dlg,     \* the save dialog: open, stage, who closed it
    trip,    \* stopPendingOnTrip, and a trip still owed a stop (history)
    ampl,    \* the Lab Amp: mode, the capture whose settling resets it
    wsPast   \* history and bound: faults, captures offered for saving, loads that outlived their run

wsVars == <<recd, stream, view, act, recon, fin, wload, dlg, trip, ampl, wsPast>>

Idle == [state |-> "idle", cap |-> 0]
NoAct == [op |-> "none", at |-> "none", cap |-> 0, state |-> "none"]
NoRecon == [at |-> "no", before |-> Idle, data |-> Idle]
Live(s) == s \in {"recording", "finalizing"}
WsFault == wsPast.faults < MaxWsFaults
WsFaulted == [wsPast EXCEPT !.faults = @ + 1]

WsInit ==
    /\ recd = [state |-> "idle", cap |-> 0, n |-> 0] /\ stream = [open |-> TRUE, msgs |-> {}]
    /\ view = Idle /\ act = NoAct /\ recon = NoRecon /\ fin = 0 /\ wload = 0
    /\ dlg = [open |-> FALSE, stage |-> "ask"] /\ trip = [pending |-> FALSE, owed |-> FALSE]
    /\ ampl = [mode |-> "RESET", watch |-> 0]
    /\ wsPast = [faults |-> 0, running |-> {}, offered |-> {}, late |-> FALSE, dismissed |-> {}]

----------------------------------------------------------------------------
(* Watchers of the view, run with every change of it.                      *)

shouldOpenSaveDialog(s, prev) ==
    IF s = "finalizing" THEN prev # "finalizing" ELSE s \in {"done", "error"} /\ prev = "recording"

\* The watcher of the state: the dialog, and the trace of a cut that has just ended.
StateWatched(v, f, d, w) ==
    LET opens == shouldOpenSaveDialog(v.state, view.state)
    IN  /\ dlg' = IF opens /\ ~d.open THEN [open |-> TRUE, stage |-> "ask"] ELSE d
        /\ wload' = IF v.state = "done" /\ view.state # "done" /\ f = 0 THEN v.cap ELSE w
        /\ wsPast' = [wsPast EXCEPT !.running = IF Live(v.state) THEN @ \union {v.cap} ELSE @,
                                    !.offered = IF opens THEN @ \union {v.cap} ELSE @,
                                    !.late = @ \/ (wload # 0 /\ wload' # wload)]

\* The amp's watcher: RESET once the capture it waits for has settled, nothing for another one.
AmpWatched(v) ==
    ampl' = CASE ampl.watch = 0 \/ v = [state |-> "finalizing", cap |-> ampl.watch] -> ampl
              [] ampl.watch # 0 /\ v.cap = ampl.watch /\ v.state \in {"done", "error"} -> [mode |-> "RESET", watch |-> 0]
              [] OTHER -> [ampl EXCEPT !.watch = 0]

Seen(v) == view' = v /\ StateWatched(v, fin, dlg, wload) /\ AmpWatched(v)
NotSeen == UNCHANGED <<view, dlg, wload, ampl, wsPast>>

----------------------------------------------------------------------------
(* The recorder (external) and its stream.                                 *)

\* The cut ends by itself: its duration, or the drive is full.
AutoStops ==
    /\ recd.state = "recording"
    /\ recd' = [recd EXCEPT !.state = "finalizing"]
    /\ UNCHANGED <<stream, act, recon, fin, trip>> /\ NotSeen

Publish(s) ==
    /\ recd' = [recd EXCEPT !.state = s]
    /\ stream' = IF stream.open THEN [stream EXCEPT !.msgs = @ \union {[state |-> s, cap |-> recd.cap]}] ELSE stream
    /\ UNCHANGED <<act, recon, fin, trip>> /\ NotSeen

FinalizeEnds == recd.state = "finalizing" /\ Publish("done")
AcquisitionFails == Live(recd.state) /\ WsFault /\ wsPast.faults = 0 /\ recd.cap = 1 /\ Publish("error")

RecorderRestarts ==
    /\ WsFault /\ recd.state # "idle"
    /\ recd' = [recd EXCEPT !.state = "idle", !.cap = 0]
    /\ stream' = [open |-> FALSE, msgs |-> {}]
    /\ wsPast' = WsFaulted
    /\ UNCHANGED <<view, act, recon, fin, wload, dlg, trip, ampl>>

StreamDrops ==
    /\ WsFault /\ stream.open
    /\ stream' = [open |-> FALSE, msgs |-> {}]
    /\ wsPast' = WsFaulted
    /\ UNCHANGED <<recd, view, act, recon, fin, wload, dlg, trip, ampl>>

\* ws.onopen: a reconnect asks the recorder what is going on.
StreamOpens ==
    /\ ~stream.open /\ recon.at = "no"
    /\ stream' = [open |-> TRUE, msgs |-> {}]
    /\ recon' = [NoRecon EXCEPT !.at = "sent", !.before = view]
    /\ UNCHANGED <<recd, act, fin, trip>> /\ NotSeen

\* onControl(): a `done` message.
DoneArrives(m) ==
    /\ m \in stream.msgs
    /\ stream' = [stream EXCEPT !.msgs = @ \ {m}]
    /\ Seen(m)
    /\ UNCHANGED <<recd, act, recon, fin, trip>>

\* onFrame(): frames of a running cut take an idle view into "recording".
FrameArrives ==
    /\ stream.open /\ recd.state = "recording" /\ view.state = "idle"
    /\ Seen([state |-> "recording", cap |-> view.cap])
    /\ UNCHANGED <<recd, stream, act, recon, fin, trip>>

----------------------------------------------------------------------------
(* reconcile(): GET /record/status.                                        *)

StatusRead ==
    /\ recon.at = "sent"
    /\ recon' = [recon EXCEPT !.at = "back", !.data = [state |-> recd.state, cap |-> recd.cap]]
    /\ UNCHANGED <<recd, stream, act, fin, trip>> /\ NotSeen

Unchanged == view = recon.before

\* What the view becomes: a running cut is adopted, an ended one only by a view that took it for running.
Reconciled ==
    LET srv == recon.data IN
    CASE ~Unchanged -> view
      [] Unchanged /\ Live(srv.state) -> srv
      [] Unchanged /\ srv.state \in {"done", "error"} /\ Live(view.state) -> srv
      [] Unchanged /\ srv.state = "idle" /\ Live(view.state) -> [view EXCEPT !.state = "error"]
      [] OTHER -> view

ReconcileReturns ==
    /\ recon.at = "back" /\ act.at # "reconcile"
    /\ recon' = NoRecon
    /\ Seen(Reconciled)
    /\ UNCHANGED <<recd, stream, act, fin, trip>>

----------------------------------------------------------------------------
(* start().                                                                *)

CanClick == ~dlg.open /\ act.op = "none"

CancelAmpReset == [ampl EXCEPT !.watch = 0]

\* Busy is held across the prompts about alarms and disk space.
StartClicked ==
    /\ CanClick /\ ~Live(view.state) /\ stream.open /\ recd.n < MaxCuts
    /\ act' = [NoAct EXCEPT !.op = "start", !.at = "ask"]
    /\ ampl' = CancelAmpReset
    /\ UNCHANGED <<recd, stream, view, recon, fin, wload, dlg, trip, wsPast>>

\* busy falls: a trip that waited for it stops a cut that still runs.
Released(v) ==
    /\ trip' = [trip EXCEPT !.pending = FALSE]
    /\ IF trip.pending /\ v.state = "recording"
       THEN act' = [NoAct EXCEPT !.op = "stop", !.at = "post"]
       ELSE act' = NoAct

StartDeclined ==
    /\ act.op = "start" /\ act.at = "ask"
    /\ Released(view)
    /\ UNCHANGED <<recd, stream, view, recon, fin, wload, dlg, ampl, wsPast>>

\* The amp goes RESET -> MEASURE, the view is cleared, the request goes out.
StartGoes ==
    /\ act.op = "start" /\ act.at = "ask"
    /\ act' = [act EXCEPT !.at = "post"]
    /\ view' = Idle /\ fin' = 0
    /\ ampl' = [ampl EXCEPT !.mode = "MEASURE"]
    /\ UNCHANGED <<recd, stream, recon, wload, dlg, trip, wsPast>>

\* The amp's 500 ms pause precedes the request: what the stream and a status request
\* still held of the last cut has arrived.
StartHandled ==
    /\ act.op = "start" /\ act.at = "post" /\ ~Live(recd.state) /\ stream.msgs = {} /\ recon.at = "no"
    /\ recd' = [state |-> "recording", cap |-> recd.n + 1, n |-> recd.n + 1]
    /\ act' = [act EXCEPT !.at = "answer", !.cap = recd.n + 1]
    /\ trip' = [trip EXCEPT !.owed = FALSE]
    /\ UNCHANGED <<stream, recon, fin>> /\ NotSeen

StartReturned ==
    /\ act.op = "start" /\ act.at = "answer"
    /\ Seen([state |-> "recording", cap |-> act.cap])
    /\ Released([state |-> "recording", cap |-> act.cap])
    /\ UNCHANGED <<recd, stream, recon, fin>>

\* Refused while the recorder is busy, or the request or its answer is lost.
StartFails ==
    /\ act.op = "start" /\ act.at \in {"post", "answer"} /\ (WsFault \/ (act.at = "post" /\ Live(recd.state)))
    /\ wsPast' = IF act.at = "post" /\ Live(recd.state) THEN wsPast ELSE WsFaulted
    /\ Released(view)
    /\ UNCHANGED <<recd, stream, view, recon, fin, wload, dlg, ampl>>

----------------------------------------------------------------------------
(* stop(): the dialog opens at once, then the trace is loaded.             *)

StopBegins ==
    /\ act' = [NoAct EXCEPT !.op = "stop", !.at = "post"]
    /\ dlg' = IF dlg.open THEN dlg ELSE [open |-> TRUE, stage |-> "ask"]
    /\ wsPast' = [wsPast EXCEPT !.offered = @ \union {view.cap}]

StopClicked ==
    /\ CanClick /\ view.state = "recording"
    /\ StopBegins
    /\ UNCHANGED <<recd, stream, view, recon, fin, wload, trip, ampl>>

TripBusy == UNCHANGED <<act, dlg, wsPast>> /\ trip' = [pending |-> TRUE, owed |-> TRUE]

\* alarms.onForceTrip: stops the cut, or waits for what is under way.
ForceTrips ==
    /\ view.state = "recording" /\ recd.state = "recording" /\ ~trip.owed
    /\ IF act.op = "none" THEN StopBegins /\ trip' = [trip EXCEPT !.owed = TRUE] ELSE TripBusy
    /\ UNCHANGED <<recd, stream, view, recon, fin, wload, ampl>>

StopHandled ==
    /\ act.op = "stop" /\ act.at = "post" /\ Live(recd.state)
    /\ recd' = [recd EXCEPT !.state = "finalizing"]
    /\ act' = [act EXCEPT !.at = "answer", !.cap = recd.cap, !.state = "finalizing"]
    /\ trip' = [trip EXCEPT !.owed = FALSE]
    /\ UNCHANGED <<stream, recon, fin>> /\ NotSeen

\* The answer names the state the recorder had when it was sent.
StopReturned ==
    /\ act.op = "stop" /\ act.at = "answer"
    /\ Seen([state |-> act.state, cap |-> act.cap])
    /\ act' = [act EXCEPT !.at = "load"]
    /\ UNCHANGED <<recd, stream, recon, fin, trip>>

\* The stop did not go through: ask the recorder what is really happening.
StopFails ==
    /\ act.op = "stop" /\ act.at \in {"post", "answer"} /\ recon.at = "no"
    /\ WsFault \/ (act.at = "post" /\ ~Live(recd.state))
    /\ act' = [act EXCEPT !.at = "reconcile"]
    /\ recon' = [NoRecon EXCEPT !.at = "sent", !.before = view]
    /\ wsPast' = IF act.at = "post" /\ ~Live(recd.state) THEN wsPast ELSE WsFaulted
    /\ UNCHANGED <<recd, stream, view, fin, wload, dlg, trip, ampl>>

\* Still running or never was: the dialog would only spin, the error is shown.  Otherwise on to the trace.
StopReconciled ==
    /\ act.op = "stop" /\ act.at = "reconcile" /\ recon.at = "back"
    /\ recon' = NoRecon
    /\ LET v == Reconciled IN
       IF v.state \in {"recording", "idle"}
       THEN /\ view' = v /\ dlg' = [dlg EXCEPT !.open = FALSE]
            /\ Released(v) /\ UNCHANGED <<wload, ampl, wsPast>>
       ELSE Seen(v) /\ act' = [act EXCEPT !.at = "load", !.cap = v.cap] /\ UNCHANGED trip
    /\ UNCHANGED <<recd, stream, fin>>

\* resetAmpWhenSettled(), at the end of every stop().
AmpAfterStop ==
    ampl' = CASE view.state = "recording" -> [ampl EXCEPT !.watch = 0]
              [] view.state = "finalizing" -> [ampl EXCEPT !.watch = view.cap]
              [] OTHER -> [mode |-> "RESET", watch |-> 0]

\* loadFinished() of stop(): four attempts; the file is there once the capture is final.
StopLoaded(ok) ==
    /\ act.op = "stop" /\ act.at = "load" /\ (ok => recd.cap # act.cap \/ ~Live(recd.state))
    /\ fin' = IF ok /\ act.cap # 0 THEN act.cap ELSE fin
    /\ Released(view) /\ AmpAfterStop
    /\ wsPast' = [wsPast EXCEPT !.late = @ \/ (ok /\ act.cap # view.cap)]
    /\ UNCHANGED <<recd, stream, view, recon, wload, dlg>>

\* loadFinished() of the watcher, or of "Still loading - try again"; not held by busy.
WatchLoaded(ok) ==
    /\ wload # 0 /\ (ok \/ WsFault)
    /\ fin' = IF ok THEN wload ELSE fin
    /\ wload' = 0
    /\ wsPast' = [(IF ok THEN wsPast ELSE WsFaulted) EXCEPT !.late = @ \/ (ok /\ (wload # view.cap \/ act.op = "start"))]
    /\ UNCHANGED <<recd, stream, view, act, recon, dlg, trip, ampl>>

----------------------------------------------------------------------------
(* The save dialog.                                                        *)

dlgLoading == (view.state = "recording" /\ act.op # "none") \/ view.state = "finalizing" \/ (view.state = "done" /\ fin = 0)
dlgFailed == view.state = "error" /\ fin = 0

TryAgain ==
    /\ dlg.open /\ view.state = "done" /\ fin = 0 /\ wload = 0
    /\ wload' = view.cap
    /\ UNCHANGED <<recd, stream, view, act, recon, fin, dlg, trip, ampl, wsPast>>

\* newRun(): discard, "Start new run", or Close on a failure.
NewRun ==
    /\ dlg.open /\ ~dlgLoading /\ view.state # "recording" /\ dlg.stage # "saving"
    /\ view' = Idle /\ fin' = 0
    /\ dlg' = [open |-> FALSE, stage |-> "ask"]
    /\ AmpWatched(Idle)
    /\ UNCHANGED <<recd, stream, act, recon, wload, trip, wsPast>>

\* "Open in Plot", or Close while the cut still runs.
Dismiss ==
    /\ dlg.open /\ ~dlgLoading /\ ~dlgFailed /\ dlg.stage # "saving"
    /\ dlg' = [open |-> FALSE, stage |-> "ask"]
    /\ wsPast' = [wsPast EXCEPT !.dismissed = IF view.state = "done" THEN @ \union {view.cap} ELSE @]
    /\ UNCHANGED <<recd, stream, view, act, recon, fin, wload, trip, ampl>>

\* confirmSave(): CaptureUpload.tla; the trace it sends is the one loaded here.
Save ==
    /\ dlg.open /\ ~dlgLoading /\ ~dlgFailed /\ view.state # "recording" /\ dlg.stage = "ask"
    /\ dlg' = [dlg EXCEPT !.stage = "saving"]
    /\ UNCHANGED <<recd, stream, view, act, recon, fin, wload, trip, ampl, wsPast>>

SaveEnds(ok) ==
    /\ dlg.open /\ dlg.stage = "saving" /\ (ok \/ WsFault)
    /\ dlg' = [dlg EXCEPT !.stage = IF ok THEN "saved" ELSE "ask"]
    /\ wsPast' = IF ok THEN wsPast ELSE WsFaulted
    /\ UNCHANGED <<recd, stream, view, act, recon, fin, wload, trip, ampl>>

----------------------------------------------------------------------------
RecorderStep == FinalizeEnds \/ StartHandled \/ StopHandled \/ StatusRead
StreamStep == StreamOpens \/ \E m \in stream.msgs : DoneArrives(m)
PageStep ==
    \/ ReconcileReturns \/ StartReturned \/ StopReturned \/ StopReconciled \/ StopLoaded(TRUE)
    \/ WatchLoaded(TRUE) \/ SaveEnds(TRUE) \/ StartFails \/ StopFails

WsNext ==
    \/ RecorderStep \/ StreamStep \/ PageStep
    \/ AutoStops \/ AcquisitionFails \/ RecorderRestarts \/ StreamDrops \/ FrameArrives
    \/ StartClicked \/ StartDeclined \/ StartGoes \/ StopClicked \/ ForceTrips
    \/ StopLoaded(FALSE) \/ WatchLoaded(FALSE) \/ TryAgain \/ NewRun \/ Dismiss \/ Save \/ SaveEnds(FALSE)

----------------------------------------------------------------------------
\* Types of the page's state.
WsTypeOK ==
    /\ view.state \in {"idle", "recording", "finalizing", "done", "error"} /\ view.cap \in 0..MaxCuts
    /\ act.op = "none" => act.at = "none"
    /\ act.at \in {"none", "ask", "post", "answer", "reconcile", "load"}

(* saveDialogGate.ts:11-14, workspace.ts:639-642, 1147-1151: whichever way *)
(* the page learns that a cut has ended (its own stop, a message, a        *)
(* reconcile after a dropped stream), the save dialog has been offered for *)
(* a cut the page ever showed as running.                                  *)
EndedIsOffered ==
    (view.state \in {"finalizing", "done", "error"} /\ view.cap \in wsPast.running) => view.cap \in wsPast.offered

(* workspace.ts:583, 601-606, 664-684: from the start of a capture until   *)
(* it has settled the amp measures: no reset owed to an earlier cut, and   *)
(* none that comes before the last samples are in, reaches it.             *)
AmpMeasuresWhileLive == Live(recd.state) => ampl.mode = "MEASURE"

(* workspace.ts:589-590, 686-706, 1151, SaveCutDialog.vue:288-293: the     *)
(* trace the dialog shows and sends is the one of the capture it names,    *)
(* for a cut the page showed as running, unless a load outlived the run it *)
(* was begun for.                                                          *)
TraceIsOwn == (view.state = "done" /\ view.cap \in wsPast.running /\ fin # 0) => (fin = view.cap \/ wsPast.late)

(* liveClient.ts:254-262: a status answer never overwrites what the page   *)
(* learned after it was asked for.                                         *)
ReconcileKeepsNewer == [][(recon.at = "back" /\ recon'.at = "no" /\ view # recon.before) => view' = view]_wsVars

(* workspace.ts:294-308: a force trip while a start or a stop is under way *)
(* still stops the cut, unless the stop request fails and says so.         *)
TripStopped == trip.owed /\ recd.state = "recording" => wsPast.faults > 0

(* workspace.ts:631-633, 658-661: a start or a stop never leaves the page  *)
(* busy, except in a prompt the operator has not answered.                 *)
BusyEnded == act.op = "none" \/ act.at = "ask"

(* saveDialogGate.ts:11-12, "an operator who dismissed it meanwhile must   *)
(* not have it come back".  Does not hold (README, section 5).             *)
DismissedStaysShut == (view.cap \in wsPast.dismissed /\ view.state # "recording" /\ act.op = "none") => ~dlg.open

(* liveClient.ts:245-248, "a missed `done` left a finished cut showing as  *)
(* recording": once the recorder has finished, the page stops showing the  *)
(* cut as running.  Does not hold (README, section 5).                     *)
FinishedIsShown == (recd.state = "done") ~> (~Live(view.state) \/ recd.state # "done")
=============================================================================
