----------------------------- MODULE DiagOctree ----------------------------
(* DiagOctreeView.vue: the diagnostics map. It loads the octree of residuals *)
(* under a token, and keeps what is drawn over it (the analysis result, the   *)
(* painted layers, the ring being drawn, the selection) in step with its      *)
(* props, each through a watch that rebuilds the object and asks for a frame. *)
(* Its camera bounds feed the result table, so they are sent only once a map  *)
(* is shown.                                                                  *)
EXTENDS Naturals, FiniteSets, Sequences, SequencesExt

CONSTANTS DiagTrees,     \* octree paths
          MaxDiagLoads,  \* bound on load() calls
          MaxDiagActs    \* bound on prop changes and clicks

NoDiag == "none"

VARIABLES dprop,   \* path, channel, look (scale and size), sel, result, layers, paint mode
          dload,   \* token, loading, error, calls in flight
          dmap,    \* the cloud, its material's look and selection, the objects over it
          ring,    \* the ring being drawn: its points
          dpic,    \* what the last frame showed, needsRender
          diagPast \* clouds not disposed, actions left, last bounds and polygon sent, mounted, scene

diagVars == <<dprop, dload, dmap, ring, dpic, diagPast>>

NoCloud == [tree |-> NoDiag, id |-> 0, chan |-> 0, look |-> 0, sel |-> 0]
NoOver == [result |-> 0, layers |-> 0]

DiagInit ==
  /\ dprop \in [path : DiagTrees, chan : {1}, look : {1}, sel : {0}, result : {0}, layers : {1}, draw : {FALSE}]
  /\ dload = [tok |-> 0, loading |-> TRUE, err |-> FALSE, calls |-> {}]
  /\ dmap = [cloud |-> NoCloud, over |-> NoOver] /\ ring = 0
  /\ dpic = [shown |-> [cloud |-> NoCloud, over |-> NoOver], needs |-> TRUE]
  /\ diagPast = [open |-> {}, acts |-> 0, bounds |-> NoDiag, poly |-> 3, mounted |-> TRUE, scene |-> "no", controls |-> TRUE]

Called(p) == [tok |-> dload.tok + 1, loading |-> TRUE, err |-> FALSE,
              calls |-> dload.calls \cup {[tok |-> dload.tok + 1, path |-> p, at |-> "meta"]}]

(* onMounted's next tick: setupGL() and the first load.                      *)
Setup(glOk) ==
  /\ diagPast.scene = "no" /\ diagPast.mounted /\ dload' = Called(dprop.path)
  /\ diagPast' = [diagPast EXCEPT !.scene = IF glOk THEN "yes" ELSE "failed", !.controls = ~dprop.draw]
  /\ UNCHANGED <<dprop, dmap, ring, dpic>>

Current(c) == c.tok = dload.tok

(* loadMeta never fails the load: what it did not find keeps its range.      *)
MetaArrives(c) ==
  /\ c \in dload.calls /\ c.at = "meta"
  /\ dload' = [dload EXCEPT !.calls = (@ \ {c}) \cup IF Current(c) THEN {[c EXCEPT !.at = "cloud"]} ELSE {}]
  /\ UNCHANGED <<dprop, dmap, ring, dpic, diagPast>>

(* rebuildAnalysis / rebuildOverlay: what the props ask for, in a scene.     *)
Over == [result |-> dprop.result, layers |-> dprop.layers]

(* emitBounds(): only of a map that is shown and not loading.                *)
Bounds(m) == IF m.tree # NoDiag THEN m.tree ELSE diagPast.bounds

(* The material is made from the colour props and then given the selection.  *)
ShownCloud(c) == [tree |-> c.path, id |-> c.tok, chan |-> dprop.chan, look |-> dprop.look, sel |-> dprop.sel]

(* A load that was overtaken disposes of the cloud it opened.                *)
Late(c, open) == open

CloudOpens(c, ok) ==
  /\ c \in dload.calls /\ c.at = "cloud"
  /\ IF ~Current(c)
     THEN /\ dload' = [dload EXCEPT !.calls = @ \ {c}] /\ UNCHANGED <<dmap, dpic>>
          /\ diagPast' = [diagPast EXCEPT !.open = IF ok THEN Late(c, @) ELSE @]
     ELSE LET shown == ok /\ diagPast.scene = "yes" IN
          /\ dload' = [dload EXCEPT !.calls = @ \ {c}, !.loading = FALSE, !.err = ~shown]
          /\ dmap' = IF ~ok THEN dmap ELSE [cloud |-> ShownCloud(c), over |-> IF shown THEN Over ELSE dmap.over]
          /\ dpic' = [dpic EXCEPT !.needs = @ \/ ok]
          /\ diagPast' = [diagPast EXCEPT !.open = IF ok THEN @ \cup {c.tok} ELSE @,
                            !.bounds = IF shown THEN Bounds(ShownCloud(c)) ELSE @,
                            !.controls = IF shown THEN ~dprop.draw ELSE @]
  /\ UNCHANGED <<dprop, ring>>

(* The loop draws when something asked for a frame or nodes streamed in.     *)
DiagTurn(grew) ==
  /\ diagPast.mounted /\ diagPast.scene = "yes" /\ dmap.cloud.tree # NoDiag
  /\ dpic' = IF dpic.needs \/ grew THEN [shown |-> dmap, needs |-> FALSE] ELSE dpic
  /\ UNCHANGED <<dprop, dload, dmap, ring, diagPast>>

-----------------------------------------------------------------------------
Acting == diagPast.mounted /\ diagPast.scene # "no" /\ diagPast.acts < MaxDiagActs
Act(p) == [p EXCEPT !.acts = @ + 1]

(* watch(octreePath): the old cloud goes before the new one is asked for.    *)
PathMap == [dmap EXCEPT !.cloud = NoCloud]

ChangeDiagTree(p) ==
  /\ Acting /\ p # dprop.path /\ dload.tok < MaxDiagLoads
  /\ dprop' = [dprop EXCEPT !.path = p] /\ dload' = Called(p) /\ dmap' = PathMap
  /\ diagPast' = Act([diagPast EXCEPT !.open = @ \ {dmap.cloud.id}]) /\ UNCHANGED <<ring, dpic>>

(* The channel: its uniform is set, and nothing asks for a frame.            *)
ChangeChannel ==
  /\ Acting /\ dprop' = [dprop EXCEPT !.chan = 3 - @]
  /\ dmap' = IF dmap.cloud.tree = NoDiag THEN dmap ELSE [dmap EXCEPT !.cloud.chan = 3 - dprop.chan]
  /\ diagPast' = Act(diagPast) /\ UNCHANGED <<dload, ring, dpic>>

(* Colour scale and point size: the uniforms, and a frame.                   *)
ChangeDiagLook ==
  /\ Acting /\ dprop' = [dprop EXCEPT !.look = 3 - @]
  /\ IF dmap.cloud.tree = NoDiag THEN UNCHANGED <<dmap, dpic>>
     ELSE dmap' = [dmap EXCEPT !.cloud.look = 3 - dprop.look] /\ dpic' = [dpic EXCEPT !.needs = TRUE]
  /\ diagPast' = Act(diagPast) /\ UNCHANGED <<dload, ring>>

(* applySelection(): a time window, a value band or none; without a material *)
(* the next load applies it.                                                  *)
applySelection(s) ==
  /\ Acting /\ s # dprop.sel /\ dprop' = [dprop EXCEPT !.sel = s]
  /\ IF dmap.cloud.tree = NoDiag THEN UNCHANGED <<dmap, dpic>>
     ELSE dmap' = [dmap EXCEPT !.cloud.sel = s] /\ dpic' = [dpic EXCEPT !.needs = TRUE]
  /\ diagPast' = Act(diagPast) /\ UNCHANGED <<dload, ring>>

(* A new analysis result (or none) replaces the points over the map.         *)
Rebuilt == [dpic EXCEPT !.needs = TRUE]

rebuildAnalysis(r) ==
  /\ Acting /\ r # dprop.result /\ dprop' = [dprop EXCEPT !.result = r]
  /\ dmap' = IF diagPast.scene = "yes" THEN [dmap EXCEPT !.over.result = r] ELSE dmap
  /\ dpic' = Rebuilt /\ diagPast' = Act(diagPast) /\ UNCHANGED <<dload, ring>>

rebuildOverlay ==
  /\ Acting /\ dprop' = [dprop EXCEPT !.layers = 3 - @]
  /\ IF diagPast.scene # "yes" THEN UNCHANGED <<dmap, dpic>>
     ELSE dmap' = [dmap EXCEPT !.over.layers = 3 - dprop.layers] /\ dpic' = Rebuilt
  /\ diagPast' = Act(diagPast) /\ UNCHANGED <<dload, ring>>

(* watch(paintMode): drawing takes the mouse from the camera; leaving it     *)
(* drops the ring.                                                            *)
Drops(on) == IF on THEN ring ELSE 0

SetPaint ==
  /\ Acting /\ dprop' = [dprop EXCEPT !.draw = ~@] /\ ring' = Drops(~dprop.draw)
  /\ dpic' = IF dprop.draw /\ diagPast.scene = "yes" THEN Rebuilt ELSE dpic
  /\ diagPast' = Act([diagPast EXCEPT !.controls = IF diagPast.scene = "yes" THEN dprop.draw ELSE @])
  /\ UNCHANGED <<dload, dmap>>

onPaintClick ==
  /\ diagPast.mounted /\ dprop.draw /\ diagPast.scene = "yes" /\ ring < 3 /\ ring' = ring + 1
  /\ dpic' = Rebuilt /\ UNCHANGED <<dprop, dload, dmap, diagPast>>

(* Enter: three points make a ring, fewer are dropped.                       *)
Sends(n) == n >= 3

finishRing ==
  /\ Acting /\ dprop.draw /\ ring' = 0 /\ dpic' = IF diagPast.scene = "yes" THEN Rebuilt ELSE dpic
  /\ diagPast' = Act(IF Sends(ring) THEN [diagPast EXCEPT !.poly = ring] ELSE diagPast)
  /\ UNCHANGED <<dprop, dload, dmap>>

cancelRing ==
  /\ diagPast.mounted /\ dprop.draw /\ ring > 0 /\ ring' = 0 /\ dpic' = Rebuilt
  /\ UNCHANGED <<dprop, dload, dmap, diagPast>>

(* The camera moves, or the pane is resized.                                 *)
MoveCamera ==
  /\ Acting /\ diagPast.scene = "yes"
  /\ diagPast' = Act([diagPast EXCEPT !.bounds = IF dload.loading THEN @ ELSE Bounds(dmap.cloud)])
  /\ dpic' = Rebuilt /\ UNCHANGED <<dprop, dload, dmap, ring>>

DiagUnmount ==
  /\ Acting /\ dload' = [dload EXCEPT !.tok = @ + 1] /\ dmap' = [cloud |-> NoCloud, over |-> NoOver]
  /\ diagPast' = Act([diagPast EXCEPT !.open = @ \ {dmap.cloud.id}, !.mounted = FALSE])
  /\ UNCHANGED <<dprop, ring, dpic>>

DiagNext ==
  \/ \E c \in dload.calls : MetaArrives(c) \/ (\E ok \in BOOLEAN : CloudOpens(c, ok))
  \/ \E b \in BOOLEAN : Setup(b) \/ DiagTurn(b)
  \/ \E p \in DiagTrees : ChangeDiagTree(p)
  \/ \E s \in 0..1 : applySelection(s) \/ rebuildAnalysis(s)
  \/ ChangeChannel \/ ChangeDiagLook \/ rebuildOverlay \/ SetPaint \/ onPaintClick \/ finishRing \/ cancelRing \/ MoveCamera \/ DiagUnmount

-----------------------------------------------------------------------------
DiagTypeOK ==
  /\ dprop.path \in DiagTrees /\ dload.tok \in Nat /\ dload.loading \in BOOLEAN /\ dload.err \in BOOLEAN
  /\ dmap.cloud.tree \in DiagTrees \cup {NoDiag} /\ ring \in 0..3 /\ dpic.needs \in BOOLEAN
  /\ (dload.loading => dmap.cloud = NoCloud)

(* The page converges: a load ends, and then the frame on the screen is the   *)
(* octree, the selection, the result and the layers the workbench asks for.   *)
SettledPicture == dpic.shown.cloud.tree = dprop.path /\ dpic.shown.cloud.sel = dprop.sel /\ dpic.shown.cloud.look = dprop.look
                    /\ dpic.shown.over = Over
DiagQuiet == diagPast.scene = "yes" => (SettledPicture \/ dload.err \/ ~diagPast.mounted)

(* A quiet screen hides nothing: with no frame asked for and no error, what   *)
(* is on the screen is what the props say, whatever order they came in.       *)
QuietIsCurrent == (diagPast.scene = "yes" /\ ~dload.loading /\ ~dload.err /\ ~dpic.needs /\ diagPast.mounted) => SettledPicture

(* Opened clouds are shown or disposed of.                                    *)
DiagNoLeak == diagPast.open \subseteq {dmap.cloud.id}

(* The bounds sent are those of a map on the screen, so the result table      *)
(* never queries the camera of an octree that is still loading.               *)
BoundsOfShown == [][diagPast'.bounds # diagPast.bounds => diagPast'.bounds = dmap'.cloud.tree]_diagVars

(* A ring belongs to one drawing: none is left when drawing ends, and one     *)
(* that is sent encloses an area.                                             *)
RingIsDrawn == (ring > 0 => dprop.draw) /\ diagPast.poly >= 3

(* Does not hold (README, section 5): the ring survives a change of octree.   *)
RingOfShown == [][dprop'.path # dprop.path => ring' = 0]_diagVars

------------------------------------------------------------------------------
(* The painted layers of the Diagnostics Workbench (DiagnosticsWorkbench.vue, *)
(* diagLayers.ts) and its detached views (diagSync.ts, DiagPanelWindow.vue).  *)
(* A layer is a row with its rings; a save sends the whole row and the answer *)
(* replaces the row in the list. The workbench publishes what it shows, after *)
(* 150 ms of quiet, to the pop-outs, which only ever apply it; a pop-out that *)
(* opens says hello and is sent everything.                                   *)

CONSTANTS LayerIds, Rings, \* layers that may be added; rings that may be drawn
          MaxSaves         \* bound on saves and deletes

NoLayer == "none"

VARIABLES ldb,     \* the rows of the database: layer -> rings, for those that exist
          llist,   \* the workbench's list
          lact,    \* activeLayerName, drawing
          lsaves,  \* saves and deletes in flight, each with what it will write
          dsync,   \* publishState: armed; the channel's messages on their way
          dpop,    \* the pop-out: closed, loading (fetching), open; the list it shows
          layPast

layVars == <<ldb, llist, lact, lsaves, dsync, dpop, layPast>>

Unloaded == [l \in {} |-> {}]

LayInit ==
  /\ ldb = Unloaded /\ llist = Unloaded /\ lact = [name |-> NoLayer, draw |-> FALSE, add |-> FALSE]
  /\ lsaves = {} /\ dsync = [armed |-> FALSE, mail |-> <<>>] /\ dpop = [at |-> "closed", list |-> Unloaded]
  /\ layPast = [saves |-> 0, drawn |-> {}, gone |-> {}, failed |-> {}, overlap |-> FALSE]

Armed(s) == [s EXCEPT !.armed = TRUE]
With(f, l, v) == [x \in DOMAIN f \cup {l} |-> IF x = l THEN v ELSE f[x]]
Minus(f, l) == [x \in DOMAIN f \ {l} |-> f[x]]
MaySave == layPast.saves < MaxSaves
Saving(s) == lsaves' = lsaves \cup {s} /\ layPast' = [layPast EXCEPT !.saves = @ + 1, !.drawn = @ \cup s.new,
                                          !.overlap = @ \/ \E o \in lsaves : o.layer = s.layer]

(* onAddLayer: an empty layer; its answer makes it the active one, drawing.  *)
AddLayer(l) ==
  /\ MaySave /\ l \notin DOMAIN ldb /\ l \notin layPast.gone /\ ~\E s \in lsaves : s.layer = l
  /\ Saving([op |-> "add", layer |-> l, rings |-> {}, new |-> {}, then |-> {}])
  /\ UNCHANGED <<ldb, llist, lact, dsync, dpop>>

NewRings(l, r) == llist[l] \cup {r}

(* onPolygon: the ring is added to the active layer as the list has it now,  *)
(* or to a mask layer made for it.                                            *)
FinishRing(r, l) ==
  /\ MaySave /\ lact.draw /\ r \notin layPast.drawn
  /\ IF lact.name \in DOMAIN llist
     THEN /\ l = lact.name
          /\ Saving([op |-> "save", layer |-> l, rings |-> NewRings(l, r), new |-> {r}, then |-> {}])
     ELSE /\ l \notin DOMAIN ldb /\ l \notin layPast.gone /\ ~\E s \in lsaves : s.layer = l
          /\ Saving([op |-> "add", layer |-> l, rings |-> {}, new |-> {r}, then |-> {r}])
  /\ UNCHANGED <<ldb, llist, lact, dsync, dpop>>

(* saveLayer answers; _upsert replaces the row. A failed one changes nothing. *)
Upsert(s) == With(llist, s.layer, s.rings)

SaveAnswer(s, ok) ==
  /\ s \in lsaves /\ s.op \in {"add", "save"}
  /\ LET patched == ok /\ (s.op = "add" \/ s.layer \in DOMAIN ldb) IN
     /\ ldb' = IF patched THEN With(ldb, s.layer, s.rings) ELSE ldb
     /\ llist' = IF patched THEN Upsert(s) ELSE llist
     /\ lact' = IF patched /\ s.op = "add" THEN [lact EXCEPT !.name = s.layer, !.draw = TRUE] ELSE lact
     /\ dsync' = IF patched THEN Armed(dsync) ELSE dsync
     /\ lsaves' = (lsaves \ {s}) \cup IF patched /\ s.then # {}
                     THEN {[op |-> "save", layer |-> s.layer, rings |-> s.rings \cup s.then, new |-> s.then, then |-> {}]} ELSE {}
     /\ layPast' = [layPast EXCEPT !.failed = IF patched THEN @ ELSE @ \cup s.new]
  /\ UNCHANGED dpop

DeleteLayer(l) ==
  /\ MaySave /\ l \in DOMAIN llist /\ ~\E s \in lsaves : s.op = "delete" /\ s.layer = l
  /\ Saving([op |-> "delete", layer |-> l, rings |-> {}, new |-> {}, then |-> {}])
  /\ UNCHANGED <<ldb, llist, lact, dsync, dpop>>

DeleteAnswer(s, ok) ==
  /\ s \in lsaves /\ s.op = "delete" /\ lsaves' = lsaves \ {s}
  /\ IF ok THEN /\ ldb' = Minus(ldb, s.layer) /\ llist' = Minus(llist, s.layer) /\ dsync' = Armed(dsync)
                /\ lact' = IF lact.name = s.layer THEN [lact EXCEPT !.name = NoLayer] ELSE lact
                /\ layPast' = [layPast EXCEPT !.gone = @ \cup {s.layer}]
     ELSE UNCHANGED <<ldb, llist, lact, dsync, layPast>>
  /\ UNCHANGED dpop

(* The list's pen: which layer is drawn on, or none.                         *)
Pick(l, d) ==
  /\ l \in DOMAIN llist \cup {NoLayer} /\ [lact EXCEPT !.name = l, !.draw = d] # lact
  /\ lact' = [lact EXCEPT !.name = l, !.draw = d] /\ UNCHANGED <<ldb, llist, lsaves, dsync, dpop, layPast>>

-----------------------------------------------------------------------------
(* publishState: the list as it is when the timer fires, not when it was     *)
(* armed. A BroadcastChannel reaches the windows that listen, in order.      *)
Sent(m) == IF dpop.at = "open" THEN Append(dsync.mail, m) ELSE dsync.mail

Publish ==
  /\ dsync.armed /\ dsync' = [armed |-> FALSE, mail |-> Sent(llist)]
  /\ UNCHANGED <<ldb, llist, lact, lsaves, dpop, layPast>>

OpenPopout ==
  /\ dpop.at = "closed" /\ dpop' = [at |-> "loading", list |-> Unloaded]
  /\ UNCHANGED <<ldb, llist, lact, lsaves, dsync, layPast>>

(* The pop-out fetched the layers; it listens from here on and says hello,   *)
(* which the workbench answers at once with all it shows.                     *)
Hello == Append(dsync.mail, llist)

Popout(ok) ==
  /\ dpop.at = "loading" /\ dpop' = [at |-> "open", list |-> IF ok THEN ldb ELSE Unloaded]
  /\ dsync' = [armed |-> FALSE, mail |-> Hello]
  /\ UNCHANGED <<ldb, llist, lact, lsaves, layPast>>

Receive ==
  /\ dpop.at = "open" /\ dsync.mail # <<>>
  /\ dpop' = [dpop EXCEPT !.list = Head(dsync.mail)] /\ dsync' = [dsync EXCEPT !.mail = Tail(@)]
  /\ UNCHANGED <<ldb, llist, lact, lsaves, layPast>>

LayNext ==
  \/ \E l \in LayerIds : AddLayer(l) \/ DeleteLayer(l) \/ (\E r \in Rings : FinishRing(r, l))
  \/ \E l \in LayerIds \cup {NoLayer}, d \in BOOLEAN : Pick(l, d)
  \/ \E s \in lsaves, ok \in BOOLEAN : SaveAnswer(s, ok) \/ DeleteAnswer(s, ok)
  \/ \E ok \in BOOLEAN : Popout(ok)
  \/ Publish \/ OpenPopout \/ Receive

-----------------------------------------------------------------------------
LayTypeOK ==
  /\ DOMAIN ldb \subseteq LayerIds /\ DOMAIN llist \subseteq LayerIds /\ lact.name \in LayerIds \cup {NoLayer}
  /\ lact.draw \in BOOLEAN /\ dsync.armed \in BOOLEAN /\ dpop.at \in {"closed", "loading", "open"}
  /\ (dpop.at = "closed" => dsync.mail = <<>>)

(* The list is the database's once nothing is on its way and no two saves of  *)
(* a layer overlapped: no ring, layer or delete is shown that is not stored.  *)
ListIsSaved == (lsaves = {} /\ ~layPast.overlap) => llist = ldb

(* A ring that was drawn and whose save did not fail is in its layer, unless  *)
(* the layer was deleted, or two saves of it overlapped.                      *)
RingIsKept == (~layPast.overlap /\ lsaves = {} /\ layPast.gone = {})
                => layPast.drawn \ layPast.failed \subseteq UNION {ldb[l] : l \in DOMAIN ldb}

(* A pop-out catches up with the workbench, whenever it opened: before, amid  *)
(* or after the edits.                                                         *)
LayQuiet == dpop.at = "open" => dpop.list = llist
PopoutStays == (dpop.at = "open" /\ ~dsync.armed /\ dsync.mail = <<>>) => dpop.list = llist

(* Does not hold (README, section 5): two rings finished within one round     *)
(* trip; the second save was made from the list before the first answer.      *)
NoRingLost == (lsaves = {} /\ layPast.gone = {}) => layPast.drawn \ layPast.failed \subseteq UNION {ldb[l] : l \in DOMAIN ldb}
==============================================================================
