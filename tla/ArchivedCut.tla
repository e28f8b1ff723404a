------------------------------ MODULE ArchivedCut ------------------------------
(***************************************************************************)
(* Archived cuts on the Record page, in two parts that share no state:     *)
(* whose form is on screen, and the engine that plays the cut.             *)
(***************************************************************************)
EXTENDS Integers, Sequences, FiniteSets

-------------------------------------------------------------------------------
(***************************************************************************)
(* The Record page's form and its two owners (web/src/record/workspace.ts, *)
(* setupPrefs.ts): the operator's next cut, and an archived cut picked in  *)
(* Replay.  The form has three parts: `link` (sample, machine, type),      *)
(* `mach` (the other remembered fields) and `percut` (never stored).  A    *)
(* part is "blank", "own" (typed for a cut) or the archived cut it came    *)
(* from.                                                                   *)
(***************************************************************************)

CONSTANTS
    Cuts,         \* archived cuts
    MaxSearches,  \* bound: searches
    MaxPicks,     \* bound: picks
    MaxSwitchings \* bound: changes of source, launches and clears

ASSUME FormAssumption == {MaxSearches, MaxPicks, MaxSwitchings} \subseteq Nat /\ Cuts \intersect {"blank", "own"} = {}

VARIABLES
    src,     \* source, and whether the operator's choice is stored
    form,    \* the form on screen
    aside,   \* recordForm and replayForm, <<>> for none
    stored,  \* localStorage: the setup; push: the debounced write under way
    rep,     \* replay: the cut loaded, its options, loading, downloading
    asks,    \* searches, downloads and hydrations under way
    seqs,    \* searchSeq, pickSeq
    detect,  \* the NI-DAQ detection at launch: "out", "done"
    formPast \* history and bounds

formVars == <<src, form, aside, stored, rep, asks, seqs, detect, formPast>>

Sources == {"sim", "nidaq", "replay"}
BlankForm == [link |-> "blank", mach |-> "blank", percut |-> "blank"]
pickSetup(f) == [link |-> f.link, mach |-> f.mach]
NoSetup == pickSetup(BlankForm)
WithSetup(s) == [link |-> s.link, mach |-> s.mach, percut |-> "blank"]

\* restoreSetup() at launch: Replay does not bring sample, machine and type back.
restoreSetup(s, setup) == IF s = "replay" THEN [WithSetup(setup) EXCEPT !.link = "blank"] ELSE WithSetup(setup)

FormInit ==
    /\ \E s \in Sources \union {"none"}, setup \in [link : {"blank", "own"}, mach : {"blank", "own"}] :
         /\ src = [now |-> IF s = "none" THEN "sim" ELSE s, kept |-> s # "none"]
         /\ stored = [setup |-> setup, push |-> <<>>]
         /\ form = restoreSetup(src.now, setup)
         /\ detect = IF s = "none" THEN "out" ELSE "done"
         /\ formPast = [typed |-> WithSetup(setup), query |-> 0, switches |-> 0, chose |-> FALSE]
    /\ aside = [record |-> <<>>, replay |-> <<>>]
    /\ rep = [cut |-> "none", played |-> "none", options |-> 0, loading |-> FALSE, downloading |-> FALSE]
    /\ asks = {} /\ seqs = [search |-> 0, pick |-> 0]

Replay == src.now = "replay"

\* Mutant: every change is pushed.
MutPushed(f, s) == <<pickSetup(f)>>

\* The watcher of the form: what is pushed is decided when it is pushed.
Pushed(f, s) == IF s = "replay" THEN stored.push ELSE <<pickSetup(f)>>

----------------------------------------------------------------------------
(* setSource().                                                            *)

\* The watcher of the source: whatever is in flight is superseded.
Superseded(s) == IF s = src.now THEN seqs ELSE [search |-> seqs.search + 1, pick |-> seqs.pick + 1]

\* Into Replay: the recording form is put aside and stored, the pending write dropped.
EnterReplay ==
    [form |-> IF aside.replay # <<>> /\ rep.cut # "none" THEN Head(aside.replay) ELSE [form EXCEPT !.link = "blank"],
     stored |-> [setup |-> pickSetup(form), push |-> <<>>]]

\* Out of Replay: the recording form comes back, from memory or from storage.
LeaveReplay == IF aside.record # <<>> THEN Head(aside.record) ELSE WithSetup(stored.setup)

LeftAside == [record |-> <<>>, replay |-> <<form>>]

SwitchTo(s) ==
    /\ src' = [now |-> s, kept |-> TRUE]
    /\ seqs' = Superseded(s)
    /\ rep' = IF s = src.now THEN rep ELSE [rep EXCEPT !.loading = FALSE, !.downloading = FALSE]
    /\ CASE s = "replay" /\ ~Replay -> form' = EnterReplay.form /\ stored' = EnterReplay.stored /\ aside' = [aside EXCEPT !.record = <<form>>]
         [] s # "replay" /\ Replay -> form' = LeaveReplay /\ stored' = [stored EXCEPT !.push = Pushed(LeaveReplay, s)]
                                      /\ aside' = LeftAside
         [] OTHER -> UNCHANGED <<form, stored, aside>>

SetSource(s) ==
    /\ formPast.switches < MaxSwitchings /\ SwitchTo(s)
    /\ formPast' = [formPast EXCEPT !.switches = @ + 1, !.chose = TRUE]
    /\ UNCHANGED <<asks, detect>>

\* The first-run default yields to a choice made meanwhile.
MayDetect == ~src.kept

Detected(found) ==
    /\ detect = "out" /\ detect' = "done"
    /\ IF found /\ MayDetect THEN SwitchTo("nidaq") ELSE UNCHANGED <<src, form, aside, stored, rep, seqs>>
    /\ UNCHANGED <<asks, formPast>>

----------------------------------------------------------------------------
(* The form in record mode.                                                *)

Edit(p) ==
    /\ ~Replay /\ form[p] # "own"
    /\ form' = [form EXCEPT ![p] = "own"]
    /\ stored' = [stored EXCEPT !.push = Pushed(form', src.now)]
    /\ formPast' = [formPast EXCEPT !.typed = form']
    /\ UNCHANGED <<src, aside, rep, asks, seqs, detect>>

\* The debounce: 250 ms after the last push, or when the page goes away.
SetupSaved ==
    /\ stored.push # <<>>
    /\ stored' = [setup |-> Head(stored.push), push |-> <<>>]
    /\ UNCHANGED <<src, form, aside, rep, asks, seqs, detect, formPast>>

\* clearSetup(): the form, the copy aside and the stored setup.
ClearSetup ==
    /\ formPast.switches < MaxSwitchings
    /\ form' = BlankForm /\ aside' = [aside EXCEPT !.record = <<>>]
    /\ stored' = [setup |-> NoSetup, push |-> IF form = BlankForm THEN stored.push ELSE Pushed(BlankForm, src.now)]
    /\ formPast' = [formPast EXCEPT !.switches = @ + 1, !.typed = BlankForm]
    /\ UNCHANGED <<src, rep, asks, seqs, detect>>

\* The app is closed (the pending write is flushed) and opened again.
Relaunch ==
    /\ formPast.switches < MaxSwitchings
    /\ LET setup == IF stored.push # <<>> THEN Head(stored.push) ELSE stored.setup IN
       /\ stored' = [setup |-> setup, push |-> <<>>]
       /\ src' = [src EXCEPT !.now = IF src.kept THEN @ ELSE "sim"]
       /\ form' = restoreSetup(src'.now, setup)
       /\ formPast' = [typed |-> WithSetup(setup), query |-> 0, switches |-> formPast.switches + 1, chose |-> FALSE]
       /\ detect' = IF src.kept THEN "done" ELSE "out"
    /\ aside' = [record |-> <<>>, replay |-> <<>>]
    /\ rep' = [cut |-> "none", played |-> "none", options |-> 0, loading |-> FALSE, downloading |-> FALSE]
    /\ asks' = {} /\ seqs' = [search |-> 0, pick |-> 0]

----------------------------------------------------------------------------
(* Replay: searching and picking.                                          *)

Search ==
    /\ Replay /\ seqs.search < MaxSearches
    /\ seqs' = [seqs EXCEPT !.search = @ + 1]
    /\ rep' = [rep EXCEPT !.loading = TRUE]
    /\ asks' = asks \union {[op |-> "search", n |-> seqs.search + 1]}
    /\ formPast' = [formPast EXCEPT !.query = seqs.search + 1]
    /\ UNCHANGED <<src, form, aside, stored, detect>>

NewestSearch(a) == a.n = seqs.search

SearchAnswered(a, ok) ==
    /\ a \in asks /\ a.op = "search" /\ asks' = asks \ {a}
    /\ rep' = IF NewestSearch(a) THEN [rep EXCEPT !.options = IF ok THEN a.n ELSE 0, !.loading = FALSE] ELSE rep
    /\ UNCHANGED <<src, form, aside, stored, seqs, detect, formPast>>

PickReplayCut(c) ==
    /\ Replay /\ seqs.pick < MaxPicks /\ rep.options # 0
    /\ seqs' = [seqs EXCEPT !.pick = @ + 1]
    /\ rep' = [rep EXCEPT !.downloading = TRUE]
    /\ asks' = asks \union {[op |-> "download", n |-> seqs.pick + 1, cut |-> c]}
    /\ UNCHANGED <<src, form, aside, stored, detect, formPast>>

NewestPick(a) == a.n = seqs.pick

Named(a, ok) == IF ok THEN a.cut ELSE rep.cut

AfterDownload(a, ok) == [rep EXCEPT !.cut = Named(a, ok), !.played = IF ok THEN a.cut ELSE @, !.downloading = FALSE]

\* The download: the playhead gets the cut, the machining fields go blank, its record is asked for.
DownloadReturned(a, ok) ==
    /\ a \in asks /\ a.op = "download"
    /\ IF NewestPick(a)
       THEN /\ rep' = AfterDownload(a, ok)
            /\ form' = IF ok THEN [form EXCEPT !.mach = "blank", !.percut = "blank"] ELSE form
            /\ asks' = (asks \ {a}) \union IF ok THEN {[op |-> "hydrate", n |-> a.n, cut |-> a.cut]} ELSE {}
       ELSE UNCHANGED <<rep, form>> /\ asks' = asks \ {a}
    /\ UNCHANGED <<src, aside, stored, seqs, detect, formPast>>

MayHydrate(a) == NewestPick(a)

HydrateReturned(a, ok) ==
    /\ a \in asks /\ a.op = "hydrate" /\ asks' = asks \ {a}
    /\ form' = IF ok /\ MayHydrate(a) THEN [link |-> a.cut, mach |-> a.cut, percut |-> a.cut] ELSE form
    /\ stored' = IF form' = form THEN stored ELSE [stored EXCEPT !.push = Pushed(form', src.now)]
    /\ UNCHANGED <<src, aside, rep, seqs, detect, formPast>>

----------------------------------------------------------------------------
FormNext ==
    \/ \E s \in Sources : SetSource(s)
    \/ \E found \in BOOLEAN : Detected(found)
    \/ \E p \in DOMAIN BlankForm : Edit(p)
    \/ SetupSaved \/ ClearSetup \/ Relaunch \/ Search
    \/ \E c \in Cuts : PickReplayCut(c)
    \/ \E a \in asks, ok \in BOOLEAN : SearchAnswered(a, ok) \/ DownloadReturned(a, ok) \/ HydrateReturned(a, ok)

----------------------------------------------------------------------------
\* Types; a recording form is aside only in Replay.
FormTypeOK ==
    /\ src.now \in Sources /\ \A p \in DOMAIN form : form[p] \in {"blank", "own"} \union Cuts
    /\ aside.record # <<>> => Replay

(* workspace.ts:83-87: "none of that may reach the next real cut, and the  *)
(* operator's setup must come back exactly as it was": outside Replay the  *)
(* form holds what the operator entered for recording, whatever was        *)
(* picked, switched or answered late in between.                           *)
FormIsOperators == ~Replay => form = formPast.typed

(* workspace.ts:248-252, 268-272, setupPrefs.ts: what is stored, or about  *)
(* to be, is a setup of the operator and never an archived cut's.          *)
StoredIsOperators ==
    \A s \in {stored.setup} \union {stored.push[i] : i \in DOMAIN stored.push} : {s.link, s.mach} \subseteq {"blank", "own"}

(* workspace.ts:1063-1069: the cut the picker names is the one the         *)
(* transport plays, also after a failed download.                          *)
NamedIsPlayed == rep.cut = rep.played

(* workspace.ts:986-988: the list shown is the answer to the last search   *)
(* made, never an older one that came in late.                             *)
OptionsAreNewest == (Replay /\ ~rep.loading /\ rep.options # 0 /\ formPast.query = seqs.search) => rep.options = formPast.query

(* workspace.ts:1092-1098: the machining fields shown in Replay are of the *)
(* cut that is loaded (or were the recorder's own before any was).         *)
MachiningOfLoadedCut == (Replay /\ rep.cut # "none") => form.mach \in {"blank", "own", rep.cut}

(* workspace.ts:75-82, 944-947: the hardware detection never overrides a   *)
(* choice the operator made.                                               *)
ChoiceWins == [][(detect = "out" /\ detect' = "done" /\ formPast.chose) => src' = src]_formVars

(* workspace.ts:991-994, 1045: neither spinner outlives what it waits for. *)
FormQuiet == ~rep.loading /\ ~rep.downloading

(* workspace.ts:1092-1094, "starts blank rather than carrying over         *)
(* whatever the PREVIOUSLY picked cut's operation record happened to       *)
(* hold": sample, operator and machine do carry over.  Does not hold       *)
(* (README, section 5).                                                    *)
LinkOfLoadedCut == (Replay /\ rep.cut # "none") => form.link \in {"blank", "own", rep.cut}

-------------------------------------------------------------------------------
(***************************************************************************)
(* Replaying a cut (web/src/record/playback/engine.ts, spectrum.ts,        *)
(* panels/TransportBar.vue): the playhead, the buffers drawn up to it, the *)
(* spectra the recorder computes for it, and the scrub bar.  Time is the   *)
(* sample index; a bin of the force trace is BinSize samples.              *)
(***************************************************************************)

CONSTANTS
    PlayCuts,     \* cuts that can be loaded
    CutLen,       \* samples of a cut
    CutStart,     \* csIdx: where the spiral begins
    BinSize,      \* samples per trace bin
    MaxSeeks,     \* bound: seeks and loads
    MaxPlays,     \* bound: times play is pressed
    MaxSpectra    \* bound: spectrum requests

ASSUME PlaybackAssumption ==
    /\ {CutLen, BinSize} \subseteq Nat \ {0} /\ CutStart \in 0..CutLen
    /\ {MaxSeeks, MaxPlays, MaxSpectra} \subseteq Nat

VARIABLES
    eng,     \* cut, playhead, playing, a tick scheduled
    drawn,   \* frmCursor, traceCursor, the points and the bins drawn
    keep,    \* retainSec: trace history kept, in samples
    spq,     \* the spectrum client: request in flight and pending, interval over
    hist,    \* fftHistory: where in which cut each spectrum was taken, and its time stamp
    scrub,   \* TransportBar: the seek waiting for its animation frame
    playPast \* bounds, and whether the scrub bar is held (history)

playVars == <<eng, drawn, keep, spq, hist, scrub, playPast>>

NoCutLoaded == "none"
NoReq == [cut |-> NoCutLoaded, at |-> 0]
NotDrawn == [frm |-> 0, trace |-> 0, pts |-> {}, bins |-> {}]

PlayInit ==
    /\ eng = [cut |-> NoCutLoaded, at |-> 0, playing |-> FALSE, frame |-> FALSE]
    /\ drawn = NotDrawn /\ keep = CutLen \div 2
    /\ spq = [flight |-> NoReq, pend |-> NoReq, due |-> TRUE] /\ hist = <<>> /\ scrub = -1
    /\ playPast = [seeks |-> 0, plays |-> 0, reqs |-> 0, drag |-> FALSE]

Loaded == eng.cut # NoCutLoaded

----------------------------------------------------------------------------
(* renderTo().                                                             *)

\* A target behind the cursor starts from empty buffers.
From(target) == IF target < drawn.frm THEN NotDrawn ELSE drawn

BinOf(i) == (i \div BinSize) * BinSize

\* trimTrace(): bins older than the history kept are dropped.
Trimmed(bins, t) == {b \in bins : b + (BinSize \div 2) >= t - keep}

\* Bins that start in [from, to); a bin is complete when the cursor has passed it.
BinsOf(from, to) == {b \in from..(to - 1) : b % BinSize = 0}

Render(target) ==
    LET d == From(target)
        low == IF target > keep THEN BinOf(target - keep) ELSE 0
        end == BinOf(target)
        start == IF d.trace < low THEN (IF low < end THEN low ELSE end) ELSE d.trace
        stop == IF start < end THEN end ELSE start
    IN  [frm |-> target, trace |-> stop,
         pts |-> d.pts \union {i \in d.frm..(target - 1) : i >= CutStart},
         bins |-> Trimmed(d.bins \union BinsOf(start, stop), target)]

\* Spectra taken after the playhead leave the history.
HistUpTo(t) == IF hist # <<>> /\ hist[Len(hist)].stamp > t THEN SelectSeq(hist, LAMBDA e : e.stamp <= t) ELSE hist

\* spectra.request(): the newest pending request wins; a request in flight is left to end.
AskSpectrum(force, t, q) ==
    LET r == [cut |-> eng.cut, at |-> t] IN
    IF ~(force \/ q.due) \/ playPast.reqs = MaxSpectra \/ t = 0 THEN q
    ELSE IF q.flight = NoReq THEN [q EXCEPT !.flight = r, !.due = FALSE]
    ELSE [q EXCEPT !.pend = r]

Counts(q) == [playPast EXCEPT !.reqs = IF q # spq THEN @ + 1 ELSE @]

renderTo(t, ask, force) ==
    /\ drawn' = Render(t) /\ hist' = HistUpTo(t)
    /\ spq' = IF ask THEN AskSpectrum(force, t, spq) ELSE spq

----------------------------------------------------------------------------
(* The engine.                                                             *)

\* load(): reset(), then the first sample is drawn; no spectrum is asked for.
LoadCut(c) ==
    /\ playPast.seeks < MaxSeeks
    /\ eng' = [cut |-> c, at |-> 0, playing |-> FALSE, frame |-> FALSE]
    /\ drawn' = NotDrawn /\ hist' = <<>> /\ spq' = spq /\ scrub' = scrub
    /\ playPast' = [playPast EXCEPT !.seeks = @ + 1] /\ UNCHANGED keep

\* play(): from the start when the end was reached.
Play ==
    /\ Loaded /\ ~eng.playing /\ playPast.plays < MaxPlays
    /\ IF eng.at = CutLen THEN renderTo(0, FALSE, FALSE) ELSE UNCHANGED <<drawn, hist, spq>>
    /\ eng' = [eng EXCEPT !.at = IF @ = CutLen THEN 0 ELSE @, !.playing = TRUE, !.frame = TRUE]
    /\ playPast' = [playPast EXCEPT !.plays = @ + 1] /\ UNCHANGED <<keep, scrub>>

Rescheduled == TRUE

\* tick(): an animation frame; time has passed since the last one.
Tick(dt) ==
    /\ eng.frame
    /\ IF ~eng.playing
       THEN eng' = [eng EXCEPT !.frame = FALSE] /\ UNCHANGED <<drawn, hist, spq, playPast>>
       ELSE IF eng.at + dt >= CutLen
       THEN /\ renderTo(CutLen, TRUE, TRUE) /\ playPast' = Counts(spq')
            /\ eng' = [eng EXCEPT !.at = CutLen, !.playing = FALSE, !.frame = FALSE]
       ELSE /\ renderTo(eng.at + dt, TRUE, FALSE) /\ playPast' = Counts(spq')
            /\ eng' = [eng EXCEPT !.at = @ + dt, !.frame = Rescheduled]
    /\ UNCHANGED <<keep, scrub>>

\* pause(): the scheduled frame is cancelled.
Pause ==
    /\ eng.playing /\ eng' = [eng EXCEPT !.playing = FALSE, !.frame = FALSE]
    /\ UNCHANGED <<drawn, keep, spq, hist, scrub, playPast>>

\* seek(): also while playing, whose ticks go on from there.
Seek(t, commit) ==
    /\ renderTo(t, TRUE, commit) /\ eng' = [eng EXCEPT !.at = t]
    /\ playPast' = [Counts(spq') EXCEPT !.seeks = @ + 1, !.drag = ~commit]

\* The scrub bar: a drag seeks once per animation frame, its end at once.
Scrub(t) ==
    /\ Loaded /\ playPast.seeks < MaxSeeks /\ scrub' = t
    /\ playPast' = [playPast EXCEPT !.drag = TRUE]
    /\ UNCHANGED <<eng, drawn, keep, spq, hist>>

ScrubFrame ==
    /\ scrub # -1 /\ scrub' = -1
    /\ IF Loaded /\ playPast.seeks < MaxSeeks THEN Seek(scrub, FALSE) ELSE UNCHANGED <<eng, drawn, hist, spq, playPast>>
    /\ UNCHANGED keep

ScrubLeft == -1

ScrubEnds(t) ==
    /\ Loaded /\ playPast.seeks < MaxSeeks /\ scrub' = ScrubLeft
    /\ Seek(t, TRUE) /\ UNCHANGED keep

Rebuilt(d) == BinsOf(0, d.trace)

\* setWindowDemand(), rebuildTrace(): a view asks for more history; the bins come back.
RetentionGrows ==
    /\ keep < CutLen /\ keep' = CutLen
    /\ drawn' = IF Loaded THEN [drawn EXCEPT !.bins = Rebuilt(drawn)] ELSE drawn
    /\ UNCHANGED <<eng, spq, hist, scrub, playPast>>

----------------------------------------------------------------------------
(* The spectrum client's pump.                                             *)

IntervalPasses ==
    /\ ~spq.due /\ spq' = [spq EXCEPT !.due = TRUE]
    /\ UNCHANGED <<eng, drawn, keep, hist, scrub, playPast>>

\* The next request of the loop, or none.
Pumped == IF spq.pend = NoReq THEN [spq EXCEPT !.flight = NoReq]
          ELSE [spq EXCEPT !.flight = spq.pend, !.pend = NoReq, !.due = FALSE]

\* The reply, stamped with the playhead of now; or an error.
Reply(ok) ==
    /\ spq.flight # NoReq /\ spq' = Pumped
    /\ hist' = IF ok THEN Append(hist, [of |-> spq.flight, stamp |-> eng.at]) ELSE hist
    /\ UNCHANGED <<eng, drawn, keep, scrub, playPast>>

----------------------------------------------------------------------------
PlayNext ==
    \/ \E c \in PlayCuts : LoadCut(c)
    \/ \E dt \in 1..CutLen : Tick(dt)
    \/ \E t \in 0..CutLen : Scrub(t) \/ ScrubEnds(t)
    \/ Play \/ Pause \/ ScrubFrame \/ RetentionGrows \/ IntervalPasses
    \/ \E ok \in BOOLEAN : Reply(ok)


----------------------------------------------------------------------------
PlayTypeOK ==
    /\ eng.cut \in PlayCuts \union {NoCutLoaded} /\ eng.at \in 0..CutLen
    /\ (eng.playing <=> eng.frame)
    /\ drawn.frm \in 0..CutLen /\ drawn.trace \in 0..CutLen /\ drawn.trace % BinSize = 0
    /\ scrub \in -1..CutLen /\ keep \in 0..CutLen

\* However the playhead got there, by ticks, seeks or restarts, what is drawn is
\* what a replay from the start to the playhead draws: no point missing, none
\* twice, none from after it (renderTo's cursors).
DrawnUpToPlayhead ==
    Loaded => /\ drawn.frm = eng.at
              /\ drawn.pts = {i \in 0..(eng.at - 1) : i >= CutStart}

\* The force trace shows every complete bin of the history it keeps, without a
\* gap, also after a jump past that history and after a view asked for more.
TraceHasNoGap ==
    Loaded => drawn.bins = Trimmed(BinsOf(0, BinOf(eng.at)), eng.at)

\* The spectrogram never shows a spectrum stamped later than the playhead.
NoSpectrumAhead == \A i \in DOMAIN hist : hist[i].stamp <= eng.at

\* A cut that plays reaches its end or is paused.
PlayEnded == ~eng.playing

\* A scrub that was released stays where it was put: the frame its drag left
\* behind does not move the playhead afterwards.
ReleaseWins == scrub # -1 => playPast.drag

\* The spectrum a scrub's release asks for is computed, whatever request was in
\* flight when it was made.
WaitingSent == spq.pend = NoReq

\* Does not hold (README, section 5): a reply of the cut loaded before is pushed
\* into the history of the new one.
SpectraOfLoadedCut == \A i \in DOMAIN hist : hist[i].of.cut = eng.cut

===============================================================================
