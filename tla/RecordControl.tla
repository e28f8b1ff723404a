---------------------------- MODULE RecordControl ----------------------------
(***************************************************************************)
(* What the recorder's request handlers share (app/main.py): the current   *)
(* recording, the captures folder, the jobs that claim a capture, the Lab  *)
(* Amp and the saved NI-DAQ channels.                                      *)
(*                                                                         *)
(* A handler is atomic between two awaits; a request parked in an await    *)
(* keeps what it read before it.  What awaits reach (driver, amp, a folder *)
(* on a network drive) may fail: the request is then answered with an      *)
(* error and changes nothing more.                                         *)
(***************************************************************************)
EXTENDS TLAPS

CONSTANTS
    Requests,       \* HTTP requests that may be in progress together
    Sessions,       \* ids of the recordings that may be started
    Captures,       \* capture ids, none of them recording, that a recover, restore or discard may claim
    Folders,        \* folders the operator may choose
    Layouts,        \* NI-DAQ channel lists, and amp range settings
    NoSession, Free \* no current session; no claim

ASSUME RecordControlAssumption == NoSession \notin Sessions /\ Free \notin Folders

VARIABLES
    current,        \* _session
    state,          \* session.state of every session
    home,           \* session.captures_root
    layout,         \* the channels its source was built from
    root,           \* CAPTURES_ROOT
    claim,          \* _recovering and _discarding: the root each claimed capture's job works in
    amp,            \* the amp: operation mode and ranges
    channels,       \* nidaq_channels.json
    pc,             \* where each request is
    read            \* the channels a parked record_start has read

sessionVars == <<current, state, home, layout>>
rigVars == <<amp, channels>>
vars == <<sessionVars, root, claim, rigVars, pc, read>>

AmpPcs == {"mode", "peaks", "reset", "ranges", "write"}
Pcs == {"idle", "starting", "switching"} \cup AmpPcs
Modes == {"MEASURE", "RESET"}
Running == {"recording", "finalizing"}

Busy == current # NoSession /\ state[current] \in Running
FolderBusy == Busy \/ \E c \in Captures : claim[c] # Free

Init ==
    /\ current = NoSession /\ state = [s \in Sessions |-> "unused"]
    /\ root \in Folders /\ home = [s \in Sessions |-> root]
    /\ claim = [c \in Captures |-> Free]
    /\ amp \in [mode : Modes, ranges : Layouts] /\ channels \in Layouts
    /\ layout = [s \in Sessions |-> channels]
    /\ pc = [r \in Requests |-> "idle"] /\ read = [r \in Requests |-> channels]

Goto(r, l) == pc' = [pc EXCEPT ![r] = l]
Move(r, from, to) == pc[r] = from /\ Goto(r, to)

-----------------------------------------------------------------------------
(* record_start and record_start_replay *)

StartBegin(r) ==
    /\ ~Busy /\ Move(r, "idle", "starting")
    /\ read' = [read EXCEPT ![r] = channels]
    /\ UNCHANGED <<sessionVars, root, claim, rigVars>>

NewSession(r, s) ==
    /\ state[s] = "unused"
    /\ current' = s
    /\ state' = [state EXCEPT ![s] = "recording"]
    /\ home' = [home EXCEPT ![s] = root]
    /\ layout' = [layout EXCEPT ![s] = read[r]]

MutStartEnd(r, s) ==
    /\ Move(r, "starting", "idle")
    /\ NewSession(r, s)
    /\ UNCHANGED <<root, claim, rigVars, read>>

\* The second busy test and the new session, without an await between them.
StartEnd(r, s) ==
    /\ Move(r, "starting", "idle")
    /\ ~Busy
    /\ NewSession(r, s)
    /\ UNCHANGED <<root, claim, rigVars, read>>

\* The session's threads: the end of the acquisition, and of finalize.
SessionStops(s) ==
    /\ state[s] = "recording"
    /\ state' = [state EXCEPT ![s] = "finalizing"]
    /\ UNCHANGED <<current, home, layout, root, claim, rigVars, pc, read>>

SessionEnds(s) ==
    /\ state[s] \in Running
    /\ \E end \in {"done", "error"} : state' = [state EXCEPT ![s] = end]
    /\ UNCHANGED <<current, home, layout, root, claim, rigVars, pc, read>>

-----------------------------------------------------------------------------
(* storage_set_config, and the jobs that claim a capture *)

SwitchBegin(r) ==
    /\ ~FolderBusy /\ Move(r, "idle", "switching")
    /\ UNCHANGED <<sessionVars, root, claim, rigVars, read>>

MutSwitchEnd(r, f) ==
    /\ Move(r, "switching", "idle")
    /\ root' = f
    /\ UNCHANGED <<sessionVars, claim, rigVars, read>>

\* prepare_folder has returned: the test again, then the new root.
SwitchEnd(r, f) ==
    /\ Move(r, "switching", "idle")
    /\ ~FolderBusy
    /\ root' = f
    /\ UNCHANGED <<sessionVars, claim, rigVars, read>>

\* recover, restore or discard: the claim, and the root for the whole job.
JobBegin(c) ==
    /\ claim[c] = Free
    /\ claim' = [claim EXCEPT ![c] = root]
    /\ UNCHANGED <<sessionVars, root, rigVars, pc, read>>

JobEnd(c) ==
    /\ claim[c] # Free
    /\ claim' = [claim EXCEPT ![c] = Free]
    /\ UNCHANGED <<sessionVars, root, rigVars, pc, read>>

-----------------------------------------------------------------------------
(* The Lab Amp and the NI-DAQ channel list *)

\* labamp_set_mode, labamp_autorange_apply, labamp_autorange_converge, labamp_write_sensors:
\* one busy test, then awaits.
AmpBegin(r) ==
    /\ ~Busy
    /\ \E l \in {"mode", "peaks", "reset", "write"} : Move(r, "idle", l)
    /\ UNCHANGED <<sessionVars, root, claim, rigVars, read>>

AmpPeaks(r) ==
    /\ Move(r, "peaks", "reset")
    /\ UNCHANGED <<sessionVars, root, claim, rigVars, read>>

AmpMode(r, m) ==
    /\ \/ Move(r, "mode", "idle")
       \/ Move(r, "reset", "ranges") /\ m = "RESET"
    /\ amp' = [amp EXCEPT !.mode = m]
    /\ UNCHANGED <<sessionVars, root, claim, channels, read>>

\* set_range per channel, or one set_params.
AmpRanges(r, l) ==
    /\ \/ Move(r, "ranges", "idle")
       \/ Move(r, "write", "idle")
    /\ amp' = [amp EXCEPT !.ranges = l]
    /\ UNCHANGED <<sessionVars, root, claim, channels, read>>

\* nidaq_put_channels and nidaq_autoassign: no await.
PutChannels(l) ==
    /\ ~Busy
    /\ channels' = l
    /\ UNCHANGED <<sessionVars, root, claim, amp, pc, read>>

\* A test that refuses, an await that raises.
RequestFails(r) ==
    /\ pc[r] # "idle" /\ Goto(r, "idle")
    /\ UNCHANGED <<sessionVars, root, claim, rigVars, read>>

-----------------------------------------------------------------------------
RequestStep(r) ==
    \/ StartBegin(r) \/ \E s \in Sessions : StartEnd(r, s)
    \/ SwitchBegin(r) \/ \E f \in Folders : SwitchEnd(r, f)
    \/ AmpBegin(r) \/ AmpPeaks(r)
    \/ \E m \in Modes : AmpMode(r, m)
    \/ \E l \in Layouts : AmpRanges(r, l)
    \/ RequestFails(r)

Next ==
    \/ \E r \in Requests : RequestStep(r)
    \/ \E s \in Sessions : SessionStops(s) \/ SessionEnds(s)
    \/ \E c \in Captures : JobBegin(c) \/ JobEnd(c)
    \/ \E l \in Layouts : PutChannels(l)

Spec == Init /\ [][Next]_vars
-----------------------------------------------------------------------------
(* Properties *)

TypeOK ==
    /\ current \in Sessions \cup {NoSession}
    /\ state \in [Sessions -> {"unused", "done", "error"} \cup Running]
    /\ home \in [Sessions -> Folders] /\ layout \in [Sessions -> Layouts]
    /\ root \in Folders /\ claim \in [Captures -> Folders \cup {Free}]
    /\ amp \in [mode : Modes, ranges : Layouts] /\ channels \in Layouts
    /\ pc \in [Requests -> Pcs] /\ read \in [Requests -> Layouts]

\* "Exactly one of two overlapping starts wins and none is orphaned": every session that records
\* or finalizes is the current one, so stop, status and the busy tests reach it.
NoneOrphaned == \A s \in Sessions : state[s] \in Running => s = current

\* The captures folder never moves under a recording, a recover, a restore or a discard: each
\* works in the folder every other handler reads, although the folder was checked in an await.
OneFolder ==
    /\ \A s \in Sessions : state[s] \in Running => home[s] = root
    /\ \A c \in Captures : claim[c] \in {Free, root}

\* "Only safe in the gap between cuts, never mid-recording": no handler writes to the amp while a
\* recording runs. Does not hold (README, section 5).
AmpQuietWhileRecording == [][Busy /\ Busy' => amp' = amp]_vars

\* "The source of truth": a recording starts with the channel list that is saved.  Does not hold
\* (README, section 5).
StartsFromSavedChannels ==
    [][\A r \in Requests, s \in Sessions : StartEnd(r, s) => layout'[s] = channels]_vars
-----------------------------------------------------------------------------
(***************************************************************************)
(* For every set of requests, sessions, captures and folders: no recording *)
(* is orphaned by an overlapping start, and the captures folder never      *)
(* moves under a recording or a job.  The three facts are inductive only   *)
(* together: OneFolder needs NoneOrphaned, because a folder switch tests   *)
(* the current session only, and both need the types of state and home.    *)
(***************************************************************************)

IInv == TypeOK /\ NoneOrphaned /\ OneFolder

\* The busy test sees every running session, not only the current one.
LEMMA IdleMeansNoneRuns ==
    ASSUME NoneOrphaned, ~Busy
    PROVE  \A s \in Sessions : state[s] \notin Running
BY RecordControlAssumption DEF NoneOrphaned, Busy

LEMMA InitIInv == Init => IInv
<1> SUFFICES ASSUME Init PROVE IInv
  OBVIOUS
<1>1. TypeOK
  BY DEF Init, TypeOK, Pcs, AmpPcs, Running, Modes
<1>2. NoneOrphaned
  BY DEF Init, NoneOrphaned, Running
<1>3. OneFolder
  BY DEF Init, OneFolder, Running
<1> QED
  BY <1>1, <1>2, <1>3 DEF IInv

\* A step that touches neither sessions, folder nor claims keeps both safety facts.
LEMMA RigSteps ==
    ASSUME NoneOrphaned, OneFolder, UNCHANGED <<sessionVars, root, claim>>
    PROVE  NoneOrphaned' /\ OneFolder'
BY DEF NoneOrphaned, OneFolder, sessionVars

\* Two overlapping starts: the second test and the new session are one step.
LEMMA StartKeeps ==
    ASSUME IInv, NEW r \in Requests, NEW s \in Sessions, StartEnd(r, s)
    PROVE  IInv'
<1> USE DEF IInv
<1>1. \A t \in Sessions : state[t] \notin Running
  BY IdleMeansNoneRuns DEF StartEnd
<1>2. /\ current' = s /\ state' = [state EXCEPT ![s] = "recording"]
      /\ home' = [home EXCEPT ![s] = root] /\ root' = root /\ claim' = claim
  BY DEF StartEnd, NewSession
<1>3. TypeOK'
  BY <1>2 DEF TypeOK, StartEnd, NewSession, Move, Goto, Pcs, Running, rigVars
<1>4. NoneOrphaned'
  BY <1>1, <1>2 DEF NoneOrphaned, TypeOK
<1>5. OneFolder'
  BY <1>1, <1>2 DEF OneFolder, TypeOK
<1> QED
  BY <1>3, <1>4, <1>5

\* The folder was checked in an await; the second test sees what began meanwhile.
LEMMA SwitchKeeps ==
    ASSUME IInv, NEW r \in Requests, NEW f \in Folders, SwitchEnd(r, f)
    PROVE  IInv'
<1> USE DEF IInv
<1>1. \A t \in Sessions : state[t] \notin Running
  BY IdleMeansNoneRuns DEF SwitchEnd, FolderBusy
<1>2. \A c \in Captures : claim[c] = Free
  BY DEF SwitchEnd, FolderBusy
<1>3. root' = f /\ UNCHANGED <<current, state, home, layout, claim>>
  BY DEF SwitchEnd, sessionVars
<1>4. TypeOK'
  BY <1>3 DEF TypeOK, SwitchEnd, Move, Goto, Pcs, rigVars
<1>5. NoneOrphaned' /\ OneFolder'
  BY <1>1, <1>2, <1>3 DEF NoneOrphaned, OneFolder
<1> QED
  BY <1>4, <1>5

LEMMA NextIInv == IInv /\ [Next]_vars => IInv'
<1> SUFFICES ASSUME IInv, [Next]_vars PROVE IInv'
  OBVIOUS
<1> USE DEF IInv
<1>1. ASSUME NEW r \in Requests, StartBegin(r) PROVE IInv'
  <2>1. TypeOK'
    BY <1>1 DEF TypeOK, StartBegin, Move, Goto, Pcs, sessionVars, rigVars
  <2> QED
    BY <1>1, <2>1, RigSteps DEF StartBegin
<1>2. ASSUME NEW r \in Requests, NEW s \in Sessions, StartEnd(r, s) PROVE IInv'
  BY <1>2, StartKeeps
<1>3. ASSUME NEW r \in Requests, SwitchBegin(r) PROVE IInv'
  <2>1. TypeOK'
    BY <1>3 DEF TypeOK, SwitchBegin, Move, Goto, Pcs, sessionVars, rigVars
  <2> QED
    BY <1>3, <2>1, RigSteps DEF SwitchBegin
<1>4. ASSUME NEW r \in Requests, NEW f \in Folders, SwitchEnd(r, f) PROVE IInv'
  BY <1>4, SwitchKeeps
<1>5. ASSUME NEW r \in Requests, AmpBegin(r) \/ AmpPeaks(r) \/ RequestFails(r) PROVE IInv'
  <2>1. TypeOK'
    BY <1>5 DEF TypeOK, AmpBegin, AmpPeaks, RequestFails, Move, Goto, Pcs, AmpPcs, sessionVars, rigVars
  <2>2. UNCHANGED <<sessionVars, root, claim>>
    BY <1>5 DEF AmpBegin, AmpPeaks, RequestFails
  <2> QED
    BY <2>1, <2>2, RigSteps
<1>6. ASSUME NEW r \in Requests, NEW m \in Modes, AmpMode(r, m) PROVE IInv'
  <2>1. TypeOK'
    BY <1>6 DEF TypeOK, AmpMode, Move, Goto, Pcs, AmpPcs, sessionVars, rigVars
  <2> QED
    BY <1>6, <2>1, RigSteps DEF AmpMode
<1>7. ASSUME NEW r \in Requests, NEW l \in Layouts, AmpRanges(r, l) PROVE IInv'
  <2>1. TypeOK'
    BY <1>7 DEF TypeOK, AmpRanges, Move, Goto, Pcs, AmpPcs, sessionVars, rigVars
  <2> QED
    BY <1>7, <2>1, RigSteps DEF AmpRanges
<1>8. ASSUME NEW s \in Sessions, SessionStops(s) \/ SessionEnds(s) PROVE IInv'
  <2>1. TypeOK'
    BY <1>8 DEF TypeOK, SessionStops, SessionEnds, Running, rigVars
  <2>2. /\ UNCHANGED <<current, home, root, claim>>
        /\ \A t \in Sessions : state'[t] \in Running => state[t] \in Running
    BY <1>8 DEF TypeOK, SessionStops, SessionEnds, Running
  <2>3. NoneOrphaned' /\ OneFolder'
    BY <2>2 DEF NoneOrphaned, OneFolder
  <2> QED
    BY <2>1, <2>3
<1>9. ASSUME NEW c \in Captures, JobBegin(c) \/ JobEnd(c) PROVE IInv'
  <2>1. TypeOK'
    BY <1>9 DEF TypeOK, JobBegin, JobEnd, sessionVars, rigVars
  <2>2. NoneOrphaned' /\ OneFolder'
    BY <1>9 DEF TypeOK, NoneOrphaned, OneFolder, JobBegin, JobEnd, sessionVars
  <2> QED
    BY <2>1, <2>2
<1>10. ASSUME NEW l \in Layouts, PutChannels(l) PROVE IInv'
  <2>1. TypeOK'
    BY <1>10 DEF TypeOK, PutChannels, sessionVars
  <2> QED
    BY <1>10, <2>1, RigSteps DEF PutChannels
<1>11. CASE UNCHANGED vars
  <2>1. TypeOK'
    BY <1>11 DEF TypeOK, vars, sessionVars, rigVars
  <2> QED
    BY <1>11, <2>1, RigSteps DEF vars
<1> QED
  BY <1>1, <1>2, <1>3, <1>4, <1>5, <1>6, <1>7, <1>8, <1>9, <1>10, <1>11 DEF Next, RequestStep

LEMMA AlwaysIInv == Spec => []IInv
<1>1. Init => IInv
  BY InitIInv
<1>2. IInv /\ [Next]_vars => IInv'
  BY NextIInv
<1> QED
  BY <1>1, <1>2, PTL DEF Spec

\* The session variables of main.py keep their types, for every number of requests and sessions.
THEOREM TypeCorrect == Spec => []TypeOK
<1>1. IInv => TypeOK
  BY DEF IInv
<1> QED
  BY <1>1, AlwaysIInv, PTL

\* record_start's second busy test: no recording is ever orphaned by an overlapping start.
THEOREM NeverOrphaned == Spec => []NoneOrphaned
<1>1. IInv => NoneOrphaned
  BY DEF IInv
<1> QED
  BY <1>1, AlwaysIInv, PTL

\* storage_set_config's second busy test: recordings and jobs always work in the current folder.
THEOREM AlwaysOneFolder == Spec => []OneFolder
<1>1. IInv => OneFolder
  BY DEF IInv
<1> QED
  BY <1>1, AlwaysIInv, PTL
==============================================================================
