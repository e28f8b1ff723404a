------------------------------ MODULE MapCloud ------------------------------
(***************************************************************************)
(* The Lite map (FrmCloud.vue): a live cache downloaded per operation or    *)
(* handed in by the filter preview, geometry built from it on the CPU or    *)
(* drawn by a shader, one animation frame at a time, on a WebGL context     *)
(* that can be lost and is released while the kept-alive page is hidden.    *)
(* What the picture shows is compared with what the props ask for now.      *)
(***************************************************************************)
EXTENDS Naturals, FiniteSets

CONSTANTS
    MapFiles,    \* live caches
    MaxMapLoads, \* bound on changes of cache
    MaxMapSwaps  \* bound on context losses, hidings, overrides

ASSUME MapCloudAssumption == MaxMapLoads \in Nat /\ MaxMapSwaps \in Nat

NoCache == "none"
Preview == "preview"   \* cacheOverride: the filter service's samples

VARIABLES
    mprop,   \* props: cache file, override set, path drawn ("gpu" or "cpu")
    mload,   \* cache, its loads, loading, stage, error
    gl,      \* renderer: ready, context lost, suspended, mounted
    mframe,  \* queued frame with pendingRebuild, pendingRecolor; crop throttle
    pic,     \* what the geometry was made from, and whether that is current
    reveal,  \* pendingReveal, with the cache it was asked for
    mapPast  \* bounds

cloudVars == <<mprop, mload, gl, mframe, pic, reveal, mapPast>>

Blank == [file |-> NoCache, par |-> FALSE, col |-> FALSE, crop |-> FALSE]

(* frame.request, scheduleRebuild, scheduleRecolor. *)
Draw(f) == [f EXCEPT !.frame = TRUE]
ScheduleRebuild(f) == [f EXCEPT !.rebuild = TRUE, !.frame = TRUE]
ScheduleRecolor(f) == [f EXCEPT !.recolor = TRUE, !.frame = TRUE]

(* setupRenderer: nothing while suspended or ready; the context may be      *)
(* refused.                                                                 *)
MaySetUp(g) == ~g.susp /\ ~g.ready /\ ~g.lost
SetUp(g, ok) == IF MaySetUp(g) /\ ok THEN [g EXCEPT !.ready = TRUE] ELSE g

CloudInit ==
    /\ mprop \in [file : MapFiles, ovr : {FALSE}, path : {"gpu", "cpu"}]
    /\ mload = [cache |-> NoCache, tok |-> 1, loads |-> {[file |-> mprop.file, tok |-> 1]},
                loading |-> TRUE, stage |-> "download", err |-> "none"]
    /\ gl = [ready |-> FALSE, lost |-> FALSE, susp |-> FALSE, mounted |-> TRUE]
    /\ mframe = [frame |-> FALSE, rebuild |-> FALSE, recolor |-> FALSE,
                 timer |-> FALSE, trailing |-> FALSE]
    /\ pic = Blank
    /\ reveal = "no"
    /\ mapPast = [loads |-> 0, swaps |-> 0]

(* The watchers on the cache: the GPU copy is outdated, a reveal held for   *)
(* an earlier cache is dropped.                                             *)
CacheChanged(c) ==
    /\ pic' = IF c # mload.cache THEN Blank ELSE pic
    /\ reveal' = IF c # mload.cache /\ mload.cache # NoCache THEN "no" ELSE reveal

(* A cache is shown: load's success or an override. *)
CloudShow(c, ok) ==
    /\ gl' = SetUp(gl, ok)
    /\ mframe' = ScheduleRebuild(mframe)
    /\ CacheChanged(c)

GlError(e, ok) == IF MaySetUp(gl) /\ ~ok THEN "webgl" ELSE e

(***************************************************************************)
(* load.                                                                    *)
(***************************************************************************)
(* A cache the LRU still holds is shown at once. *)
NewFile(f, hit, ok) ==
    /\ gl.mounted /\ f # mprop.file /\ mapPast.loads < MaxMapLoads
    /\ mprop' = [mprop EXCEPT !.file = f, !.ovr = FALSE]
    /\ mapPast' = [mapPast EXCEPT !.loads = @ + 1]
    /\ IF hit
       THEN /\ mload' = [mload EXCEPT !.cache = f, !.tok = @ + 1, !.loading = FALSE,
                                      !.stage = "build", !.err = GlError("none", ok)]
            /\ CloudShow(f, ok)
       ELSE /\ mload' = [mload EXCEPT !.tok = @ + 1, !.loading = TRUE, !.err = "none",
                           !.stage = "download",
                           !.loads = @ \cup {[file |-> f, tok |-> mload.tok + 1]}]
            /\ UNCHANGED <<gl, mframe, pic, reveal>>

(* A superseded download touches nothing. *)
IsNewest(l) == l.tok = mload.tok

Downloaded(l, ok, glOk) ==
    /\ l \in mload.loads
    /\ IF ~IsNewest(l)
       THEN mload' = [mload EXCEPT !.loads = @ \ {l}] /\ UNCHANGED <<gl, mframe, pic, reveal>>
       ELSE IF ok
       THEN /\ mload' = [mload EXCEPT !.loads = @ \ {l}, !.cache = l.file, !.loading = FALSE,
                                      !.stage = "build", !.err = GlError("none", glOk)]
            /\ CloudShow(l.file, glOk)
       ELSE /\ mload' = [mload EXCEPT !.loads = @ \ {l}, !.cache = NoCache, !.loading = FALSE,
                                      !.stage = "none", !.err = "load"]
            /\ CacheChanged(NoCache)
            /\ UNCHANGED <<gl, mframe>>
    /\ UNCHANGED <<mprop, mapPast>>

(* watch(cacheOverride): the download in flight is cancelled. *)
LoadCancelled == mload.tok + 1

Override(ok) ==
    /\ gl.mounted /\ ~mprop.ovr /\ mapPast.swaps < MaxMapSwaps
    /\ mprop' = [mprop EXCEPT !.ovr = TRUE]
    /\ mload' = [mload EXCEPT !.cache = Preview, !.tok = LoadCancelled, !.loading = FALSE,
                              !.err = GlError("none", ok)]
    /\ CloudShow(Preview, ok)
    /\ mapPast' = [mapPast EXCEPT !.swaps = @ + 1]

(***************************************************************************)
(* The watchers on the props that decide the picture.                       *)
(***************************************************************************)
Prop(p) == gl.mounted /\ pic' = p /\ UNCHANGED <<mload, gl, reveal, mapPast>>

(* Channel, path parameters, stride. *)
ChangeParam ==
    /\ Prop([pic EXCEPT !.par = FALSE])
    /\ mframe' = ScheduleRebuild(mframe)
    /\ UNCHANGED mprop

(* Gridding or a Z series: the other geometry is drawn from now on. *)
Switched(f) == ScheduleRebuild(f)

ChangePath ==
    /\ mprop' = [mprop EXCEPT !.path = IF @ = "gpu" THEN "cpu" ELSE "gpu"]
    /\ Prop([pic EXCEPT !.par = FALSE])
    /\ mframe' = Switched(mframe)

(* The shader takes colours and crop as uniforms; the CPU cloud is          *)
(* recoloured in place, and rebuilt at most every 80 ms for the crop.       *)
ChangeColor ==
    /\ Prop([pic EXCEPT !.col = @ /\ mprop.path = "gpu"])
    /\ mframe' = IF mprop.path = "gpu" THEN Draw(mframe) ELSE ScheduleRecolor(mframe)
    /\ UNCHANGED mprop

Trigger(f) == IF f.timer THEN [f EXCEPT !.trailing = TRUE]
              ELSE [ScheduleRebuild(f) EXCEPT !.timer = TRUE]

onCropChange ==
    /\ Prop([pic EXCEPT !.crop = @ /\ mprop.path = "gpu"])
    /\ mframe' = IF mprop.path = "gpu" THEN Draw(mframe) ELSE Trigger(mframe)
    /\ UNCHANGED mprop

Step(f) == IF f.trailing THEN [ScheduleRebuild(f) EXCEPT !.trailing = FALSE]
           ELSE [f EXCEPT !.timer = FALSE]

ThrottleFires ==
    /\ mframe.timer
    /\ mframe' = Step(mframe)
    /\ UNCHANGED <<mprop, mload, gl, pic, reveal, mapPast>>

(***************************************************************************)
(* The frame: rebuild or recolour, draw, then a held reveal.                *)
(***************************************************************************)
Built == gl.ready /\ mload.cache # NoCache

rebuild == IF Built THEN [file |-> mload.cache, par |-> TRUE, col |-> TRUE, crop |-> TRUE] ELSE pic
recolorCpu == IF mprop.path = "cpu" /\ pic.file # NoCache THEN [pic EXCEPT !.col = TRUE] ELSE pic

(* The new cloud is on screen. *)
StageAfter(s) == IF s = "build" THEN "none" ELSE s

Frame ==
    LET p == IF mframe.rebuild THEN rebuild ELSE IF mframe.recolor THEN recolorCpu ELSE pic
    IN  /\ mframe.frame
        /\ mframe' = [mframe EXCEPT !.frame = FALSE, !.rebuild = FALSE,
                                    !.recolor = FALSE]
        /\ pic' = p
        /\ mload' = [mload EXCEPT !.stage = StageAfter(@)]
        /\ reveal' = IF gl.ready /\ p.file # NoCache THEN "no" ELSE reveal
        /\ UNCHANGED <<mprop, gl, mapPast>>

(* revealTime: held until the map can show it; out of the window, dropped. *)
revealTime(inside) ==
    /\ gl.mounted
    /\ reveal' = IF mload.cache # NoCache /\ ~inside THEN "no"
                 ELSE IF ~Built \/ pic.file = NoCache \/ mframe.rebuild THEN mprop.file
                 ELSE "no"
    /\ mframe' = IF reveal' = "no" THEN Draw(mframe) ELSE mframe
    /\ reveal' # reveal
    /\ UNCHANGED <<mprop, mload, gl, pic, mapPast>>

(***************************************************************************)
(* The context, and the kept-alive page (glLifecycle.ts).                   *)
(***************************************************************************)
Swaps == gl.mounted /\ mapPast.swaps < MaxMapSwaps
Swapped == mapPast' = [mapPast EXCEPT !.swaps = @ + 1]

onCtxLost ==
    /\ Swaps /\ gl.ready
    /\ gl' = [gl EXCEPT !.ready = FALSE, !.lost = TRUE]
    /\ mload' = [mload EXCEPT !.err = "gpu"]
    /\ Swapped
    /\ UNCHANGED <<mprop, mframe, pic, reveal>>

(* The geometry is uploaded again. *)
Restored == IF mload.cache # NoCache THEN ScheduleRebuild(mframe) ELSE mframe

onCtxRestored ==
    /\ gl.lost
    /\ gl' = [gl EXCEPT !.ready = TRUE, !.lost = FALSE]
    /\ mload' = [mload EXCEPT !.err = "none"]
    /\ mframe' = Restored
    /\ UNCHANGED <<mprop, pic, reveal, mapPast>>

(* teardownRenderer: the frame and the throttle go, pendingRebuild stays.   *)
TornDown(f) == [f EXCEPT !.frame = FALSE, !.timer = FALSE, !.trailing = FALSE]

CloudDeactivate ==
    /\ Swaps /\ ~gl.susp
    /\ gl' = [gl EXCEPT !.ready = FALSE, !.lost = FALSE, !.susp = TRUE]
    /\ mframe' = TornDown(mframe)
    /\ pic' = Blank
    /\ Swapped
    /\ UNCHANGED <<mprop, mload, reveal>>

(* A new canvas: a context error is retried on it. *)
Started(f) == ScheduleRebuild(f)

CloudActivate(ok) ==
    /\ gl.susp
    /\ gl' = SetUp([gl EXCEPT !.susp = FALSE], ok)
    /\ mload' = [mload EXCEPT !.err = IF ~ok THEN "webgl" ELSE IF @ \in {"gpu", "webgl"} THEN "none" ELSE @]
    /\ mframe' = Started(mframe)
    /\ UNCHANGED <<mprop, pic, reveal, mapPast>>

Unmount ==
    /\ gl.mounted
    /\ gl' = [ready |-> FALSE, lost |-> FALSE, susp |-> FALSE, mounted |-> FALSE]
    /\ mload' = [mload EXCEPT !.tok = @ + 1, !.stage = "none", !.loading = FALSE]
    /\ mframe' = TornDown(mframe)
    /\ pic' = Blank
    /\ UNCHANGED <<mprop, reveal, mapPast>>

CloudNext ==
    \/ \E f \in MapFiles, hit, ok \in BOOLEAN : NewFile(f, hit, ok)
    \/ \E l \in mload.loads, ok, glOk \in BOOLEAN : Downloaded(l, ok, glOk)
    \/ \E ok \in BOOLEAN : Override(ok) \/ CloudActivate(ok) \/ revealTime(ok)
    \/ ChangeParam \/ ChangePath \/ ChangeColor \/ onCropChange \/ ThrottleFires
    \/ Frame \/ onCtxLost \/ onCtxRestored \/ CloudDeactivate \/ Unmount

-----------------------------------------------------------------------------
CloudTypeOK ==
    /\ mprop \in [file : MapFiles, ovr : BOOLEAN, path : {"gpu", "cpu"}]
    /\ mload.cache \in MapFiles \cup {NoCache, Preview}
    /\ mload.stage \in {"none", "download", "build"} /\ mload.err \in {"none", "load", "gpu", "webgl"}
    /\ mframe \in [frame : BOOLEAN, rebuild : BOOLEAN, recolor : BOOLEAN, timer : BOOLEAN, trailing : BOOLEAN]
    /\ ~(gl.ready /\ (gl.susp \/ gl.lost))
    /\ mframe.trailing => mframe.timer

(* With no frame to come, the picture is that of the cache, the parameters, *)
(* the colours and the crop asked for now, whatever was changed in which    *)
(* order while the context was lost or the page hidden.                     *)
PictureIsCurrent ==
    gl.ready /\ mload.cache # NoCache /\ ~mframe.frame /\ ~mframe.trailing
    => pic = [file |-> mload.cache, par |-> TRUE, col |-> TRUE, crop |-> TRUE]

(* Once nothing loads, the map holds no other cut's data than the one asked *)
(* for (FrmCloud.vue:113-118).                                              *)
NotAnothersData ==
    gl.mounted /\ ~mload.loading
    => mload.cache \in {NoCache, IF mprop.ovr THEN Preview ELSE mprop.file}

(* The busy mark goes away: every stage ends (an override left aside, see   *)
(* StageEnds).                                                              *)
CloudQuiet == mload.stage = "none" \/ gl.susp \/ mprop.ovr

(* Does not hold (README, section 5): an override that cancels a download   *)
(* leaves its stage, and no frame clears "download".                        *)
StageEnds == mload.stage # "none" ~> (mload.stage = "none" \/ gl.susp)

(* Does not hold (README, section 5): a restored context clears the error   *)
(* of a download that failed meanwhile, and the map is blank without one.   *)
BlankIsExplained == gl.mounted /\ ~mload.loading /\ mload.cache = NoCache => mload.err # "none"

(* Does not hold (README, section 5): a reveal held while the first cache   *)
(* loads is applied to the next cut's, as only a change of cache drops it.  *)
RevealOfItsCut == [][reveal # "no" /\ reveal' = "no" /\ mload' # mload
                     => reveal = mprop.file]_cloudVars

------------------------------------------------------------------------------
(***************************************************************************)
(* Fingers on the Lite map (FrmCloud.vue): pan, rubber band and pinch in    *)
(* 2D, orbit and the three-finger height gesture in 3D, and the long press  *)
(* that opens the point menu (longPress.ts).  Hiding the page swaps the     *)
(* canvas, so the pointerups of the fingers down then are never seen.       *)
(***************************************************************************)

CONSTANTS
    Fingers,   \* pointer ids
    MaxTaps    \* bound on touches

ASSUME MapPointersAssumption == IsFiniteSet(Fingers) /\ MaxTaps \in Nat

Nobody == "none"

VARIABLES
    touch,    \* fingers on the screen, those whose release will be seen, the primary
    pts,      \* the map's pointers
    gest,     \* panning, rectDrag, pinch, zGesture; OrbitControls enabled
    tool,     \* 3D view, rectangle tool
    press,    \* longPress: its pointers, the finger timed, the timer
    menu,     \* the press that opened the menu: the fingers then down
    tapPast   \* bound; whether a release was lost

ptrVars == <<touch, pts, gest, tool, press, menu, tapPast>>

NoGesture == [pan |-> FALSE, rect |-> FALSE, pinch |-> FALSE, z |-> FALSE, orbit |-> TRUE]
NoPress == [down |-> {}, id |-> Nobody, timer |-> FALSE]

PtrInit ==
    /\ touch = [down |-> {}, seen |-> {}, moved |-> {}]
    /\ pts = {}
    /\ gest = NoGesture
    /\ tool \in [is3D : BOOLEAN, rect : BOOLEAN]
    /\ press = NoPress
    /\ menu = {}
    /\ tapPast = [taps |-> 0, lost |-> FALSE]

(* longPress.down: the first finger of a gesture starts afresh, a second    *)
(* one cancels the hold for good.                                           *)
PressDown(i, primary) ==
    LET d == (IF primary THEN {} ELSE press.down) \cup {i}
    IN  IF Cardinality(d) > 1 THEN [down |-> d, id |-> Nobody, timer |-> FALSE]
        ELSE [down |-> d, id |-> i, timer |-> TRUE]

(* onDown: two fingers pinch and end what one finger did. *)
TwoDown == [gest EXCEPT !.pan = FALSE, !.rect = FALSE, !.pinch = TRUE]

onDown(i) ==
    LET p == pts \cup {i}
    IN  /\ i \notin touch.down /\ tapPast.taps < MaxTaps
        /\ touch' = [touch EXCEPT !.down = @ \cup {i}, !.seen = @ \cup {i}]
        /\ press' = PressDown(i, touch.down = {})
        /\ pts' = p
        /\ gest' = IF tool.is3D
                   THEN IF Cardinality(p) = 3 THEN [gest EXCEPT !.z = TRUE, !.orbit = FALSE] ELSE gest
                   ELSE CASE Cardinality(p) = 2 -> TwoDown
                          [] Cardinality(p) > 2 -> gest
                          [] OTHER -> IF tool.rect THEN [gest EXCEPT !.rect = TRUE]
                                      ELSE [gest EXCEPT !.pan = TRUE]
        /\ tapPast' = [tapPast EXCEPT !.taps = @ + 1]
        /\ UNCHANGED <<tool, menu>>

(* Past the slop the hold becomes a drag. *)
PressMove(i) == IF press.id = i THEN [press EXCEPT !.id = Nobody, !.timer = FALSE] ELSE press

onMove(i) ==
    /\ i \in touch.seen \ touch.moved
    /\ touch' = [touch EXCEPT !.moved = @ \cup {i}]
    /\ press' = PressMove(i)
    /\ UNCHANGED <<pts, gest, tool, menu, tapPast>>

(* The timer: the menu opens for the finger held. *)
HoldFires ==
    /\ press.timer
    /\ press' = [press EXCEPT !.timer = FALSE]
    /\ menu' = {[finger |-> press.id, down |-> touch.down, moved |-> press.id \in touch.moved]}
    /\ UNCHANGED <<touch, pts, gest, tool, tapPast>>

PressUp(i) == IF press.id = i THEN [down |-> press.down \ {i}, id |-> Nobody, timer |-> FALSE]
              ELSE [press EXCEPT !.down = @ \ {i}]

(* onUp, for pointerup and pointercancel: the two views end differently. *)
Up3D(p) == IF Cardinality(p) < 3 THEN [gest EXCEPT !.z = FALSE, !.orbit = TRUE] ELSE gest
Up2D(p) == [gest EXCEPT !.pan = FALSE, !.rect = FALSE, !.pinch = @ /\ Cardinality(p) >= 2]

onUp(i) ==
    /\ i \in touch.seen
    /\ touch' = [down |-> touch.down \ {i}, seen |-> touch.seen \ {i}, moved |-> touch.moved \ {i}]
    /\ press' = PressUp(i)
    /\ pts' = pts \ {i}
    /\ gest' = IF tool.is3D THEN Up3D(pts') ELSE Up2D(pts')
    /\ UNCHANGED <<tool, menu, tapPast>>

(* A finger down when the canvas was swapped is lifted unseen. *)
LiftUnseen(i) ==
    /\ i \in touch.down \ touch.seen
    /\ touch' = [touch EXCEPT !.down = @ \ {i}, !.moved = @ \ {i}]
    /\ UNCHANGED <<pts, gest, tool, press, menu, tapPast>>

(* teardownRenderer and onDeactivated: longPress.cancel, new canvas; the    *)
(* controls are made anew.                                                  *)
CanvasSwapped ==
    /\ touch' = [touch EXCEPT !.seen = {}]
    /\ press' = NoPress
    /\ gest' = [gest EXCEPT !.orbit = TRUE]
    /\ tapPast' = [tapPast EXCEPT !.lost = @ \/ touch.down # {}]
    /\ UNCHANGED <<pts, tool, menu>>

(* The Z series and the rectangle tool are chosen outside the canvas. *)
SetTool(t) ==
    /\ touch.down = {} /\ t # tool
    /\ tool' = t
    /\ UNCHANGED <<touch, pts, gest, press, menu, tapPast>>

PtrNext ==
    \/ \E i \in Fingers : onDown(i) \/ onMove(i) \/ onUp(i) \/ LiftUnseen(i)
    \/ HoldFires \/ CanvasSwapped
    \/ \E t \in [is3D : BOOLEAN, rect : BOOLEAN] : SetTool(t)

-----------------------------------------------------------------------------
PtrTypeOK ==
    /\ touch.seen \subseteq touch.down /\ touch.moved \subseteq touch.down /\ touch.down \subseteq Fingers
    /\ pts \subseteq Fingers /\ press.down \subseteq Fingers
    /\ press.timer => press.id \in press.down

(* The menu opens for one finger held still, never during a pan or a pinch. *)
PressIsLone ==
    \A m \in menu : m.finger \in m.down /\ ~m.moved /\ (~tapPast.lost => m.down = {m.finger})

(* No finger, no gesture: a drag, a pinch or the height gesture ends with   *)
(* the fingers that made it, and orbiting is given back.                    *)
GestureEnds ==
    touch.down = {} /\ ~tapPast.lost => gest = NoGesture

(* Fingers that pinch no longer pan or draw the rubber band. *)
OneGesture == tapPast.lost \/ ~(gest.pinch /\ (gest.pan \/ gest.rect))

(* Does not hold (README, section 5): a finger whose release went to the    *)
(* swapped canvas stays in `pointers`, and the next finger pinches with it. *)
NoGhostFinger == gest.pinch => Cardinality(touch.down) >= 2
==============================================================================
