----------------------------- MODULE SpatialView ----------------------------
(* The spatial panels of the diagnostics workbench (SpatialPanel.vue inside   *)
(* DiagnosticsWorkbench.vue): a channel that a step computes on demand for the *)
(* framed view is asked for when it is chosen, when the view moves (Gi* only)  *)
(* and when its step is edited. An answer may come after the operator has      *)
(* gone on to another channel, view or cut.                                    *)
EXTENDS Naturals, FiniteSets

CONSTANTS Panels,        \* spatial panels that can be open; the hero is the first in order
          MaxSpatialActs \* bound on the operator's acts

ViewOps == {"gi", "clu"}     \* getis_ord, hdbscan (grow and gmm segmentation behave as hdbscan)
NoRun == 0
NoRes == [op |-> "none", cut |-> 0, view |-> 0, ver |-> 0]

VARIABLES lay,    \* open panels
          panel,  \* per panel: channel, result, framed view, busy flag, current request, timers
          vruns,  \* requests in flight
          vsteps,  \* the recipe: per op whether the step is on, and its parameters' version
          wcopy,  \* the workbench's copies: panelResults, panelBusy
          cutId,  \* the cut on the workbench
          spPast

spVars == <<lay, panel, vruns, vsteps, wcopy, cutId, spPast>>

(* OP_OF: the step behind a channel; residZ is baked.                        *)
OpOf(c) == IF c \in ViewOps THEN c ELSE "none"
FreshPanel == [chan |-> "residZ", res |-> NoRes, view |-> 0, busy |-> FALSE, cur |-> NoRun, gi |-> FALSE, again |-> "none", err |-> FALSE]
NoCopy == [op |-> "none", busy |-> FALSE]

SpInit ==
  /\ lay = {CHOOSE p \in Panels : TRUE} /\ panel = [p \in Panels |-> FreshPanel] /\ vruns = {}
  /\ vsteps = [o \in ViewOps |-> [on |-> TRUE, ver |-> 0]] /\ wcopy = [p \in Panels |-> NoCopy] /\ cutId = 1
  /\ spPast = [acts |-> 0, ids |-> 0, late |-> FALSE, missed |-> FALSE]

(* recipeChannels: a channel is offered while a step that makes it is on.     *)
produced(c) == c \in ViewOps => vsteps[c].on
MayAct == spPast.acts < MaxSpatialActs
heroSpatial == CHOOSE p \in lay : TRUE

(* runViewport: nothing without a framed view; the request before is aborted. *)
(* The parameters and the view are those of this moment. f is the panel as it  *)
(* is when it asks.                                                            *)
AsksView(f) == f.view # 0
AskedView(f, op) == [f EXCEPT !.busy = TRUE, !.cur = spPast.ids + 1]
RunOf(p, f, op, focus) ==
  [id |-> spPast.ids + 1, panel |-> p, op |-> op, focus |-> focus, cut |-> cutId, view |-> f.view,
   ver |-> IF vsteps'[op].on THEN vsteps'[op].ver ELSE 0]
runViewport(p, f, op, focus) ==
  IF AsksView(f)
  THEN panel' = [panel EXCEPT ![p] = AskedView(f, op)] /\ vruns' = vruns \cup {RunOf(p, f, op, focus)} /\ spPast' = [spPast EXCEPT !.ids = @ + 1]
  ELSE panel' = [panel EXCEPT ![p] = f] /\ UNCHANGED <<vruns, spPast>>

(* watch(analysisResult), watch(viewportBusy): the workbench's copies.       *)
Copied == wcopy' = [p \in Panels |-> IF p \in lay' THEN [op |-> panel'[p].res.op, busy |-> panel'[p].busy] ELSE NoCopy]

(* The channel's watcher: a result of the new channel's step stays, any other  *)
(* is dropped, and one is asked for if the channel needs it.                   *)
OnChannel(f, c) == [f EXCEPT !.chan = c, !.res = IF c # "residZ" /\ f.res.op = OpOf(c) THEN @ ELSE NoRes]
ChannelAsks(f, c) == c # "residZ" /\ f.res.op # OpOf(c)

SetChannel(p, c) ==
  /\ MayAct /\ p \in lay /\ c # panel[p].chan /\ produced(c) /\ UNCHANGED <<lay, vsteps, cutId>>
  /\ LET f == OnChannel(panel[p], c) IN
     IF ChannelAsks(panel[p], c) /\ AsksView(f)
     THEN /\ panel' = [panel EXCEPT ![p] = AskedView(f, c)] /\ vruns' = vruns \cup {RunOf(p, f, c, FALSE)}
          /\ spPast' = [spPast EXCEPT !.acts = @ + 1, !.ids = @ + 1]
     ELSE panel' = [panel EXCEPT ![p] = f] /\ spPast' = [spPast EXCEPT !.acts = @ + 1] /\ UNCHANGED vruns
  /\ Copied

(* onBounds: the map reports a new frame; with Gi* on show a timer is armed.  *)
onBounds(p, v) ==
  /\ MayAct /\ p \in lay /\ v # panel[p].view
  /\ panel' = [panel EXCEPT ![p].view = v, ![p].gi = @ \/ (vsteps["gi"].on /\ panel[p].chan = "gi")]
  /\ spPast' = [spPast EXCEPT !.acts = @ + 1] /\ UNCHANGED <<lay, vruns, vsteps, cutId>> /\ Copied
GiTimer(p) ==
  /\ panel[p].gi /\ p \in lay /\ UNCHANGED <<lay, vsteps, cutId>>
  /\ runViewport(p, [panel[p] EXCEPT !.gi = FALSE], "gi", FALSE) /\ Copied

(* runStepOnView: the recipe panel's button, on the hero.                    *)
anyViewportBusy == \E p \in Panels : wcopy[p].busy
runStepOnView(op) ==
  /\ MayAct /\ lay # {} /\ ~anyViewportBusy /\ op # "gi" /\ vsteps[op].on /\ AsksView(panel[heroSpatial])
  /\ panel' = [panel EXCEPT ![heroSpatial] = AskedView(@, op)] /\ UNCHANGED <<lay, vsteps, cutId>>
  /\ vruns' = vruns \cup {RunOf(heroSpatial, panel[heroSpatial], op, TRUE)}
  /\ spPast' = [spPast EXCEPT !.acts = @ + 1, !.ids = @ + 1] /\ Copied

(* activeSpatialStepKey: an edit of the step on show re-arms a second timer,  *)
(* once there is a result. Turning a step off also sends the panels that show  *)
(* its channel back to residZ (channelOptions).                                *)
Rearmed(f, op) == IF f.chan = op /\ f.res.op = op THEN [f EXCEPT !.again = op] ELSE f
OnRecipe(f, op) ==
  LET g == Rearmed(f, op) IN IF g.chan \in ViewOps /\ ~vsteps'[g.chan].on THEN OnChannel(g, "residZ") ELSE g
EditRecipeStep(op) ==
  /\ MayAct /\ panel' = [p \in Panels |-> IF p \in lay THEN OnRecipe(panel[p], op) ELSE panel[p]]
  /\ spPast' = [spPast EXCEPT !.acts = @ + 1, !.missed = @ \/ \E r \in vruns : r.op = op /\ panel[r.panel].res.op # op]
  /\ UNCHANGED <<lay, vruns, cutId>> /\ Copied
EditParams(op) == vsteps[op].on /\ vsteps[op].ver < 2 /\ vsteps' = [vsteps EXCEPT ![op].ver = @ + 1] /\ EditRecipeStep(op)
ToggleStep(op) == vsteps' = [vsteps EXCEPT ![op].on = ~@] /\ EditRecipeStep(op)
RecipeTimer(p) ==
  /\ panel[p].again # "none" /\ p \in lay /\ UNCHANGED <<lay, vsteps, cutId>>
  /\ runViewport(p, [panel[p] EXCEPT !.again = "none"], panel[p].again, FALSE) /\ Copied

(* The answer. An aborted request writes nothing; the flag is the newest's.   *)
(* A focused one turns the panel to its channel, whose result it then holds.  *)
AbortedRun(r) == panel[r.panel].cur # r.id \/ r.panel \notin lay
MutReleased(f, r) == [f EXCEPT !.busy = @ /\ f.res = NoRes]
ReleasedRun(f, r) == [f EXCEPT !.busy = FALSE]

ViewportAnswer(r, ok) ==
  /\ r \in vruns /\ vruns' = vruns \ {r} /\ UNCHANGED <<lay, vsteps, cutId>>
  /\ LET p == r.panel IN
     /\ panel' = IF AbortedRun(r) THEN panel
                 ELSE IF ok THEN [panel EXCEPT ![p] = ReleasedRun([@ EXCEPT !.res = [op |-> r.op, cut |-> r.cut, view |-> r.view, ver |-> r.ver],
                                                                  !.chan = IF r.focus THEN r.op ELSE @], r)]
                 ELSE [panel EXCEPT ![p] = ReleasedRun([@ EXCEPT !.err = TRUE], r)]
     /\ spPast' = [spPast EXCEPT !.late = @ \/ (~AbortedRun(r) /\ ok /\ ~r.focus /\ panel[p].chan # r.op)]
  /\ Copied

(* Another cut: the request is aborted, its flag falls with it; the result    *)
(* and the frame go.                                                           *)
LeftCut(f) == [f EXCEPT !.res = NoRes, !.view = 0, !.cur = NoRun, !.busy = FALSE]
ChangeCut ==
  /\ MayAct /\ cutId' = 3 - cutId /\ panel' = [p \in Panels |-> LeftCut(panel[p])]
  /\ spPast' = [spPast EXCEPT !.acts = @ + 1] /\ UNCHANGED <<lay, vruns, vsteps>> /\ Copied

closePanel(p) ==
  /\ MayAct /\ p \in lay /\ lay' = lay \ {p} /\ panel' = [panel EXCEPT ![p] = FreshPanel]
  /\ spPast' = [spPast EXCEPT !.acts = @ + 1] /\ UNCHANGED <<vruns, vsteps, cutId>> /\ Copied
addPanel(p) ==
  /\ MayAct /\ p \notin lay /\ lay' = lay \cup {p} /\ panel' = [panel EXCEPT ![p] = FreshPanel]
  /\ spPast' = [spPast EXCEPT !.acts = @ + 1] /\ UNCHANGED <<vruns, vsteps, cutId>> /\ Copied

SpNext ==
  \/ \E p \in Panels : \/ \E c \in ViewOps \cup {"residZ"} : SetChannel(p, c)
                       \/ \E v \in 1..2 : onBounds(p, v)
                       \/ GiTimer(p) \/ RecipeTimer(p) \/ closePanel(p) \/ addPanel(p)
  \/ \E op \in ViewOps : runStepOnView(op) \/ EditParams(op) \/ ToggleStep(op)
  \/ \E r \in vruns, ok \in BOOLEAN : ViewportAnswer(r, ok)
  \/ ChangeCut

-----------------------------------------------------------------------------
SpTypeOK ==
  /\ \A p \in Panels : panel[p].chan \in ViewOps \cup {"residZ"} /\ (panel[p].busy => panel[p].cur # NoRun)
  /\ \A p \in Panels \ lay : panel[p] = FreshPanel /\ wcopy[p] = NoCopy

(* A flag that is up belongs to a request still on its way: "computing on     *)
(* this view" is never shown for nothing, and the recipe panel's buttons,      *)
(* disabled while any panel is busy, come back.                                *)
BusyIsReal == \A p \in lay : panel[p].busy => \E r \in vruns : r.id = panel[p].cur

(* An overlay is of the cut on show, even if it was asked for before another  *)
(* cut was chosen.                                                             *)
OverlayOfCut == \A p \in lay : panel[p].res # NoRes => panel[p].res.cut = cutId

(* Settled on Gi*, the overlay is of the view in the frame.                   *)
GiFollowsView == \A p \in lay : LET f == panel[p] IN
  (f.chan = "gi" /\ f.res # NoRes /\ ~f.busy /\ ~f.gi /\ ~f.err /\ ~spPast.late) => f.res.view = f.view

(* Settled with a result, it is that of the step's parameters as they are     *)
(* now, unless the edit was made before the first result was there.            *)
EditIsRerun == \A p \in lay : LET f == panel[p] IN
  (f.chan \in ViewOps /\ f.res.op = f.chan /\ ~f.busy /\ f.again = "none" /\ ~f.err /\ ~spPast.late /\ ~spPast.missed /\ vsteps[f.chan].on)
     => f.res.ver = vsteps[f.chan].ver

(* The panels come to rest: no panel stays busy.                              *)
SpQuiet == ~anyViewportBusy

(* Does not hold (README, section 5): "drop any stale spatial overlay so       *)
(* DiagOctreeView doesn't keep rendering it": leaving a channel does not abort *)
(* the request made for it, nor the timer armed for it.                        *)
OverlayOfChannel == \A p \in lay : panel[p].res # NoRes => panel[p].res.op = panel[p].chan
=============================================================================
