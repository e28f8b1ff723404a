----------------------------- MODULE MapOctree -----------------------------
(* FrmOctree.vue: the full-resolution force map. The component streams a    *)
(* Potree octree: load() fetches the metadata (value ranges) and the build   *)
(* manifest together, then opens the point cloud; a token discards a load    *)
(* that a newer path, a deactivation or an unmount overtook. The render loop *)
(* draws only after invalidate(), reports the streaming stage and applies a   *)
(* reveal asked for before the map could show it. A hidden page gives its GL  *)
(* context back and boots again on a new canvas.                              *)
EXTENDS Naturals, FiniteSets

CONSTANTS Octrees,      \* octree paths, one per operation
          MaxOctLoads,  \* bound on load() calls
          MaxOctActs    \* bound on prop changes, reveals and page switches

NoTree == "none"
Default == "default"    \* the ranges the component starts with

VARIABLES oprop,   \* the props: octree path, axis, colour scale / size / Z (one flag), sample cache
          oload,   \* token, loading, error, stage, and the calls in flight
          omap,    \* the cloud in the scene, the manifest, the value ranges, the material
          ogl,     \* mounted, suspended, boot pending (nextTick), scene made, streamDone
          opic,    \* what the last render showed, and needsRender
          oreveal, \* the cut a held reveal was asked for
          octPast  \* clouds opened and not disposed, bounds, the reveal applied last

octVars == <<oprop, oload, omap, ogl, opic, oreveal, octPast>>

NoMap == [tree |-> NoTree, id |-> 0, ready |-> FALSE, build |-> NoTree, axis |-> 0, look |-> 0]
Pic(m) == [tree |-> m.tree, axis |-> m.axis, look |-> m.look]

OctInit ==
  /\ oprop \in [path : Octrees, axis : {1}, look : {1}, cache : {NoTree}]
  /\ oload = [tok |-> 0, loading |-> TRUE, err |-> "none", stage |-> "none", calls |-> {}]
  /\ omap = NoMap /\ ogl = [mounted |-> TRUE, susp |-> FALSE, boot |-> TRUE, scene |-> FALSE, done |-> FALSE]
  /\ opic = [shown |-> Pic(NoMap), needs |-> TRUE] /\ oreveal = NoTree
  /\ octPast = [open |-> {}, acts |-> 0, revealed |-> NoTree, ranges |-> Default]

(* disposeCloud(): the cloud, its material and the manifest go together.     *)
Disposed == NoMap

(* load(): nothing while suspended (the activation boots again).             *)
Loads(path) ==
  IF ogl.susp \/ oload.tok >= MaxOctLoads
  THEN UNCHANGED <<oload, omap, ogl, octPast>>
  ELSE /\ oload' = [tok |-> oload.tok + 1, loading |-> TRUE, err |-> "none", stage |-> "open",
                    calls |-> oload.calls \cup {[tok |-> oload.tok + 1, path |-> path, at |-> "files"]}]
       /\ omap' = Disposed /\ octPast' = [octPast EXCEPT !.open = @ \ {omap.id}]
       /\ ogl' = [ogl EXCEPT !.done = FALSE, !.boot = FALSE]

(* setupGL() and the first load, on the next tick. A canvas without WebGL    *)
(* leaves no scene and no loop, and load() runs all the same.                *)
Boot(glOk) ==
  /\ ogl.boot /\ ogl.mounted /\ ~ogl.susp /\ oload.tok < MaxOctLoads
  /\ oload' = [tok |-> oload.tok + 1, loading |-> TRUE, err |-> "none", stage |-> "open",
               calls |-> oload.calls \cup {[tok |-> oload.tok + 1, path |-> oprop.path, at |-> "files"]}]
  /\ ogl' = [ogl EXCEPT !.boot = FALSE, !.scene = glOk, !.done = FALSE]
  /\ omap' = Disposed /\ octPast' = [octPast EXCEPT !.open = @ \ {omap.id}]
  /\ UNCHANGED <<oprop, opic, oreveal>>

IsCurrentLoad(c) == c.tok = oload.tok
Without(c) == oload.calls \ {c}

(* loadMeta and loadBuild settle together. Neither can fail the load: ranges *)
(* that were not found keep their old values, a manifest that was not found   *)
(* is none.                                                                   *)
FilesArrive(c, meta, bld) ==
  /\ c \in oload.calls /\ c.at = "files"
  /\ IF ~IsCurrentLoad(c) THEN /\ oload' = [oload EXCEPT !.calls = Without(c)] /\ UNCHANGED <<omap, octPast>>
     ELSE /\ oload' = [oload EXCEPT !.calls = Without(c) \cup {[c EXCEPT !.at = "cloud"]}]
          /\ omap' = [omap EXCEPT !.ready = TRUE, !.build = IF bld THEN c.path ELSE NoTree]
          /\ octPast' = [octPast EXCEPT !.ranges = IF meta THEN c.path ELSE @]
  /\ UNCHANGED <<oprop, ogl, opic, oreveal>>

(* loadPointCloud answers: an overtaken load disposes of what it opened, the *)
(* current one shows it; without a scene scene!.add throws into the catch.    *)
MutOvertaken(c) == octPast.open \cup {c.tok}
Overtaken(c) == octPast.open

CloudArrives(c, ok) ==
  /\ c \in oload.calls /\ c.at = "cloud"
  /\ IF ~IsCurrentLoad(c)
     THEN /\ octPast' = [octPast EXCEPT !.open = IF ok THEN Overtaken(c) ELSE @]
          /\ oload' = [oload EXCEPT !.calls = Without(c)] /\ UNCHANGED <<omap, opic>>
     ELSE /\ octPast' = [octPast EXCEPT !.open = IF ok THEN @ \cup {c.tok} ELSE @]
          /\ oload' = [oload EXCEPT !.calls = Without(c), !.loading = FALSE, !.err = IF ok /\ ogl.scene THEN "none" ELSE "failed",
                                    !.stage = IF ok /\ ogl.scene THEN "stream" ELSE "none"]
          /\ omap' = IF ok THEN [omap EXCEPT !.tree = c.path, !.id = c.tok, !.axis = oprop.axis, !.look = oprop.look] ELSE omap
          /\ opic' = [opic EXCEPT !.needs = @ \/ ok]
  /\ UNCHANGED <<oprop, ogl, oreveal>>

(* octreeGeometry(): the samples are mapped with the octree's own manifest,  *)
(* so nothing is picked or revealed before the manifest has settled.         *)
Geometry == oprop.cache # NoTree /\ omap.ready

(* One turn of the loop: a held reveal is applied once it can be, the stream *)
(* stage ends when the visible points stop changing, and a frame is drawn     *)
(* only when something asked for it.                                          *)
Streamed(settled) == settled /\ ~oload.loading

LoopTurn(settled, grew) ==
  /\ ogl.mounted /\ ~ogl.susp /\ ogl.scene /\ omap.tree # NoTree
  /\ LET apply == oreveal # NoTree /\ ~oload.loading /\ Geometry IN
     /\ oreveal' = IF apply THEN NoTree ELSE oreveal
     /\ octPast' = [octPast EXCEPT !.revealed = IF apply THEN oreveal ELSE @]
     /\ oload' = IF ~ogl.done /\ Streamed(settled) THEN [oload EXCEPT !.stage = "none"] ELSE oload
     /\ ogl' = [ogl EXCEPT !.done = @ \/ Streamed(settled)]
     /\ opic' = IF opic.needs \/ grew \/ apply THEN [shown |-> Pic(omap), needs |-> FALSE] ELSE opic
  /\ UNCHANGED <<oprop, omap>>

-----------------------------------------------------------------------------
(* The dashboard around it. *)
OctActs == ogl.mounted /\ octPast.acts < MaxOctActs
OctActed(p) == [p EXCEPT !.acts = @ + 1]

(* watch(octreePath): the held reveal was another cut's; load again.         *)
PathReveal == NoTree

ChangeTree(p) ==
  /\ ogl.mounted /\ p # oprop.path /\ ~ogl.boot /\ (ogl.susp \/ oload.tok < MaxOctLoads)
  /\ oprop' = [oprop EXCEPT !.path = p, !.cache = NoTree] /\ oreveal' = PathReveal
  /\ Loads(p) /\ UNCHANGED opic

(* The sample cache of the operation arrives, or is dropped.                 *)
SetCache(c) ==
  /\ OctActs /\ c # oprop.cache /\ oprop' = [oprop EXCEPT !.cache = c]
  /\ oreveal' = IF oprop.cache # NoTree THEN NoTree ELSE oreveal
  /\ octPast' = OctActed(octPast) /\ UNCHANGED <<oload, omap, ogl, opic>>

(* The axis: the uniform is set, and nothing asks for a frame.               *)
ChangeAxis ==
  /\ OctActs /\ oprop' = [oprop EXCEPT !.axis = 3 - @]
  /\ omap' = IF omap.tree # NoTree THEN [omap EXCEPT !.axis = 3 - oprop.axis] ELSE omap
  /\ octPast' = OctActed(octPast) /\ UNCHANGED <<oload, ogl, opic, oreveal>>

(* Colour scale, point size, fill, Z: each sets its uniforms and asks for a  *)
(* frame; without a material the next load makes one from the props.         *)
LookAsks == TRUE

ChangeLook ==
  /\ OctActs /\ oprop' = [oprop EXCEPT !.look = 3 - @]
  /\ IF omap.tree = NoTree THEN UNCHANGED <<omap, opic>>
     ELSE omap' = [omap EXCEPT !.look = 3 - oprop.look] /\ opic' = [opic EXCEPT !.needs = @ \/ LookAsks]
  /\ octPast' = OctActed(octPast) /\ UNCHANGED <<oload, ogl, oreveal>>

(* revealTime(t): refused outside the mapped window, held until the map can  *)
(* show it, applied at once otherwise.                                        *)
octRevealTime(inside) ==
  /\ OctActs /\ oreveal = NoTree
  /\ LET hold == ~Geometry \/ ~ogl.scene \/ ogl.susp \/ omap.tree = NoTree \/ oload.loading IN
     /\ oreveal' = IF Geometry /\ ~inside THEN NoTree ELSE IF hold THEN oprop.path ELSE NoTree
     /\ octPast' = OctActed([octPast EXCEPT !.revealed = IF Geometry /\ inside /\ ~hold THEN oprop.path ELSE @])
     /\ opic' = [opic EXCEPT !.needs = @ \/ (Geometry /\ inside /\ ~hold)]
  /\ UNCHANGED <<oprop, oload, omap, ogl>>

(* teardownGL(): the load in flight is cancelled, the cloud and the context  *)
(* go, and the page shows "loading" until it boots again.                     *)
TokenAfter == oload.tok + 1

OctTornDown ==
  /\ oload' = [oload EXCEPT !.tok = TokenAfter, !.stage = "none", !.loading = TRUE]
  /\ omap' = Disposed

OctDeactivate ==
  /\ OctActs /\ ~ogl.susp /\ ~ogl.boot /\ OctTornDown
  /\ ogl' = [ogl EXCEPT !.susp = TRUE, !.scene = FALSE] /\ octPast' = OctActed([octPast EXCEPT !.open = @ \ {omap.id}])
  /\ UNCHANGED <<oprop, opic, oreveal>>

(* A fresh canvas, no error, and a boot on the next tick.                    *)
OctActivate ==
  /\ ogl.mounted /\ ogl.susp /\ oload.tok < MaxOctLoads
  /\ ogl' = [ogl EXCEPT !.susp = FALSE, !.boot = TRUE] /\ oload' = [oload EXCEPT !.err = "none"]
  /\ opic' = [opic EXCEPT !.shown = Pic(NoMap)] /\ UNCHANGED <<oprop, omap, oreveal, octPast>>

OctUnmount ==
  /\ OctActs /\ ~ogl.boot /\ OctTornDown
  /\ ogl' = [ogl EXCEPT !.mounted = FALSE, !.susp = FALSE, !.scene = FALSE]
  /\ octPast' = OctActed([octPast EXCEPT !.open = @ \ {omap.id}]) /\ UNCHANGED <<oprop, opic, oreveal>>

OctNext ==
  \/ \E c \in oload.calls : (\E a, b \in BOOLEAN : FilesArrive(c, a, b)) \/ (\E ok \in BOOLEAN : CloudArrives(c, ok))
  \/ \E b \in BOOLEAN : Boot(b) \/ octRevealTime(b)
  \/ \E a, b \in BOOLEAN : LoopTurn(a, b)
  \/ \E p \in Octrees : ChangeTree(p)
  \/ \E c \in {NoTree, oprop.path} : SetCache(c)
  \/ ChangeAxis \/ ChangeLook \/ OctDeactivate \/ OctActivate \/ OctUnmount

-----------------------------------------------------------------------------
OctTypeOK ==
  /\ oprop \in [path : Octrees, axis : 1..2, look : 1..2, cache : Octrees \cup {NoTree}]
  /\ oload.tok \in Nat /\ oload.stage \in {"none", "open", "stream"} /\ oload.err \in {"none", "failed"}
  /\ oload.loading => omap.tree = NoTree
  /\ omap.tree \in Octrees \cup {NoTree} /\ omap.ready \in BOOLEAN /\ oreveal \in Octrees \cup {NoTree}

(* Once loading has ended, the map is the octree of the operation on the page *)
(* (or the error of its load), whatever older answer came last.               *)
ShownIsAsked == ~oload.loading => omap.tree = oprop.path \/ oload.err # "none"

(* Points are picked and times revealed with the manifest of the octree that *)
(* is asked for: the one before it places every sample differently.           *)
GeometryIsOwn == omap.ready => omap.build \in {NoTree, oprop.path}

(* Every cloud that was opened is the one shown, or disposed of: each one     *)
(* holds up to the point budget in GPU memory.                                 *)
NoCloudLeaks == octPast.open \subseteq {omap.id}

(* A reveal moves the camera only on the map of the cut it was asked for.     *)
RevealOfOwn == [][octPast'.revealed # octPast.revealed => octPast'.revealed = oprop.path]_octVars

(* Once the loop is quiet, the picture is of the shown octree, drawn with the *)
(* colour scale and the sizes the dashboard asks for.                          *)
PictureIsAsked == ogl.scene /\ omap.tree # NoTree /\ ~opic.needs
                    => opic.shown.tree = omap.tree /\ opic.shown.look = oprop.look

(* The loading overlay goes away: a load ends, or the page is hidden.        *)
OctQuiet == oload.stage = "none" \/ ogl.susp

(* Does not hold (README, section 5): the axis watch asks for no frame.      *)
AxisIsDrawn == ogl.scene /\ omap.tree # NoTree /\ ~opic.needs => opic.shown.axis = oprop.axis

(* Does not hold (README, section 5): "empty on failure -> defaults".        *)
RangesAreOwn == omap.tree # NoTree => octPast.ranges \in {Default, omap.tree}
=============================================================================
