---------------------------- MODULE MCDiagnostics ----------------------------
(* The Diagnostics Workbench for TLC: its map, the preview and the bake of *)
(* a recipe, the painted layers, the batch, the recipe editor with its     *)
(* library, the viewport analyses, and the tools it shares with the        *)
(* dashboard. As in MCDesktop a behaviour is one of a single component,    *)
(* `focus`.                                                                *)
EXTENDS DiagOctree, DiagBake, RecipeEdit, SpatialView, DashTools

VARIABLE focus
vars == <<focus, diagVars, bakeVars, layVars, batchVars, rcpVars, spVars, scaleVars, docVars, gridVars, opsVars, memVars, metVars>>

Step(op, on) == [op |-> op, on |-> on, source |-> "resid_z"]

\* The recipe the editor opens with, and the files that can be imported: one that runs and one that does not.
MCStart == <<Step("frame_transform", TRUE), Step("angular_resample", TRUE), Step("tsa", TRUE),
             Step("radial_detrend", TRUE), Step("envelope", FALSE)>>
MCFiles == {<<Step("frame_transform", TRUE), Step("angular_resample", TRUE)>>,
            <<Step("tsa", TRUE), Step("angular_resample", TRUE)>>}

\* The range of a channel's values, and that of another after it.
MCRanges == {<<4, 12>>, <<-8, 4>>}

\* The components that are not in focus start in one state.
Init ==
    /\ focus \in {"diagmap", "bake", "layers", "batch", "recipe", "spatial", "scale", "doc", "grid", "ops", "mem", "met"}
    /\ DiagInit
    /\ focus # "diagmap" => dprop.path = CHOOSE t \in DiagTrees : TRUE
    /\ BakeInit /\ LayInit /\ BatchInit
    /\ focus # "batch" => \A o \in BatchOps : hrow[o].st = "none"
    /\ RcpInit /\ SpInit /\ ScaleInit
    /\ focus # "scale" => scale.cache = NoRange
    /\ DocInit
    /\ focus # "doc" => doc.row.outer /\ doc.row.apart /\ doc.row.name = 0
    /\ GridInit /\ OpsInit /\ MemInit
    /\ focus # "mem" => DOMAIN mem.maps = {}
    /\ MetInit

Next ==
    \/ focus = "diagmap" /\ DiagNext /\ UNCHANGED <<focus, bakeVars, layVars, batchVars, rcpVars, spVars, scaleVars, docVars, gridVars, opsVars, memVars, metVars>>
    \/ focus = "bake" /\ BakeNext /\ UNCHANGED <<focus, diagVars, layVars, batchVars, rcpVars, spVars, scaleVars, docVars, gridVars, opsVars, memVars, metVars>>
    \/ focus = "layers" /\ LayNext /\ UNCHANGED <<focus, diagVars, bakeVars, batchVars, rcpVars, spVars, scaleVars, docVars, gridVars, opsVars, memVars, metVars>>
    \/ focus = "batch" /\ BatchNext /\ UNCHANGED <<focus, diagVars, bakeVars, layVars, rcpVars, spVars, scaleVars, docVars, gridVars, opsVars, memVars, metVars>>
    \/ focus = "recipe" /\ RcpNext /\ UNCHANGED <<focus, diagVars, bakeVars, layVars, batchVars, spVars, scaleVars, docVars, gridVars, opsVars, memVars, metVars>>
    \/ focus = "spatial" /\ SpNext /\ UNCHANGED <<focus, diagVars, bakeVars, layVars, batchVars, rcpVars, scaleVars, docVars, gridVars, opsVars, memVars, metVars>>
    \/ focus = "scale" /\ ScaleNext /\ UNCHANGED <<focus, diagVars, bakeVars, layVars, batchVars, rcpVars, spVars, docVars, gridVars, opsVars, memVars, metVars>>
    \/ focus = "doc" /\ DocNext /\ UNCHANGED <<focus, diagVars, bakeVars, layVars, batchVars, rcpVars, spVars, scaleVars, gridVars, opsVars, memVars, metVars>>
    \/ focus = "grid" /\ GridNext /\ UNCHANGED <<focus, diagVars, bakeVars, layVars, batchVars, rcpVars, spVars, scaleVars, docVars, opsVars, memVars, metVars>>
    \/ focus = "ops" /\ OpsNext /\ UNCHANGED <<focus, diagVars, bakeVars, layVars, batchVars, rcpVars, spVars, scaleVars, docVars, gridVars, memVars, metVars>>
    \/ focus = "mem" /\ MemNext /\ UNCHANGED <<focus, diagVars, bakeVars, layVars, batchVars, rcpVars, spVars, scaleVars, docVars, gridVars, opsVars, metVars>>
    \/ focus = "met" /\ MetNext /\ UNCHANGED <<focus, diagVars, bakeVars, layVars, batchVars, rcpVars, spVars, scaleVars, docVars, gridVars, opsVars, memVars>>

----------------------------------------------------------------------------
(* Fairness, of the component in focus.                                    *)

DiagFairness ==
  /\ WF_diagVars(focus = "diagmap" /\ (\E c \in dload.calls : MetaArrives(c) \/ (\E ok \in BOOLEAN : CloudOpens(c, ok))))
  /\ WF_diagVars(focus = "diagmap" /\ (\E b \in BOOLEAN : Setup(b))) /\ WF_diagVars(focus = "diagmap" /\ DiagTurn(FALSE))

(* The timer fires, requests end, the host works its queue, polls go on.      *)
BakeFairness ==
  /\ WF_bakeVars(focus = "bake" /\ runPreview) /\ WF_bakeVars(focus = "bake" /\ (\E g \in gets, ok \in BOOLEAN : PreviewAnswer(g, ok) \/ BakedAnswer(g, ok)))
  /\ WF_bakeVars(focus = "bake" /\ (\E ok \in BOOLEAN : PatchAnswer(ok))) /\ WF_bakeVars(focus = "bake" /\ (\E ok \in BOOLEAN : RowsArrive(ok)))
  /\ WF_bakeVars(focus = "bake" /\ HostClaims) /\ WF_bakeVars(focus = "bake" /\ (\E ok \in BOOLEAN : HostEnds(ok))) /\ WF_bakeVars(focus = "bake" /\ Poll)

LayFairness ==
  /\ WF_layVars(focus = "layers" /\ (\E s \in lsaves, ok \in BOOLEAN : SaveAnswer(s, ok) \/ DeleteAnswer(s, ok)))
  /\ WF_layVars(focus = "layers" /\ Publish) /\ WF_layVars(focus = "layers" /\ (\E ok \in BOOLEAN : Popout(ok))) /\ WF_layVars(focus = "layers" /\ Receive)

BatchFairness ==
  /\ WF_batchVars(focus = "batch" /\ (\E o \in BatchOps, a \in {"ok", "forbidden", "failed"} : Requested(o, a)))
  /\ WF_batchVars(focus = "batch" /\ Finish) /\ WF_batchVars(focus = "batch" /\ RowsLoaded)

RcpFairness == WF_rcpVars(focus = "recipe" /\ FileRead) /\ WF_rcpVars(focus = "recipe" /\ (\E b \in BOOLEAN : ConfirmAnswer(b))) /\ WF_rcpVars(focus = "recipe" /\ (\E b \in BOOLEAN : LibraryArrives(b)))

SpFairness ==
  /\ WF_spVars(focus = "spatial" /\ (\E r \in vruns, ok \in BOOLEAN : ViewportAnswer(r, ok)))
  /\ \A p \in Panels : WF_spVars(focus = "spatial" /\ GiTimer(p)) /\ WF_spVars(focus = "spatial" /\ RecipeTimer(p))

Spec ==
    /\ Init /\ [][Next]_vars
    /\ DiagFairness /\ BakeFairness /\ LayFairness /\ BatchFairness /\ RcpFairness /\ SpFairness

----------------------------------------------------------------------------
(* The recipe's problems are real, the step it is viewed at exists, and    *)
(* what is imported runs (RecipePanel.vue, RecipeLibrary.vue); a preview   *)
(* is the newest one asked for (DiagnosticsWorkbench.vue); a batch answers *)
(* for every cut and sends nothing after it was stopped (diagBatch.ts).    *)
(*                                                                         *)
(* A quiet map shows what the workbench asks for (DiagOctreeView.vue), the *)
(* layers and the pop-outs hold what was saved (diagLayers.ts,             *)
(* diagSync.ts), and an analysis on screen is of this cut, this view and   *)
(* these parameters (SpatialPanel.vue).  The colour scale keeps its shape  *)
(* and a handle grabbed is the nearest; the doctor hides only what was     *)
(* dismissed; the list is sorted, the panels fit and are stored, the cache *)
(* keeps its bound (scaleHandles.ts, metadataDoctor.ts,                    *)
(* ForceDashboard.vue, liveCache.ts).                                      *)
DiagnosticsSafe ==
    /\ focus = "recipe" => RcpTypeOK /\ ProblemsAreReal /\ ViewIsDerived /\ BaselineIsSaved /\ ImportsRun
    /\ focus = "bake" => BakeTypeOK /\ PreviewIsNewest /\ StripIsHosts
    /\ focus = "batch" => BatchTypeOK /\ Accounted /\ NothingAfterStop
    /\ focus = "diagmap" => DiagTypeOK /\ QuietIsCurrent /\ DiagNoLeak /\ RingIsDrawn
    /\ focus = "layers" => LayTypeOK /\ ListIsSaved /\ RingIsKept /\ PopoutStays
    /\ focus = "spatial" => SpTypeOK /\ BusyIsReal /\ OverlayOfCut /\ GiFollowsView /\ EditIsRerun
    /\ focus = "scale" => ScaleIsShaped /\ GrabIsNearest
    /\ focus = "doc" => HiddenWasDismissed /\ BadgeIsWorst /\ LoneDismissalKept
    /\ focus = "ops" => ListIsSorted
    /\ focus = "grid" => PanelsFit /\ LayoutIsStored
    /\ focus = "mem" => HeldIsBounded
    /\ focus = "met" => MetricsAreKnown

(* What no step does: break a recipe that runs by dragging a step          *)
(* (RecipePanel.vue), announce the view of a map that is not shown         *)
(* (DiagOctreeView.vue), build a cut again that is built (diagBatch.ts),   *)
(* move a scale's base by shaping it or change a locked one                *)
(* (ColorScaleEditor.vue), mix the axis maps of two operation types        *)
(* (cuttingMetrics.ts).                                                    *)
DiagSteps ==
    /\ DragKeepsRunning /\ BoundsOfShown /\ NoNeedlessBuild
    /\ ShapingKeepsBase /\ LockedIsKept /\ MapsStayApart

(* Everything comes to rest: the map, the spinners and the build's lock,   *)
(* a batch, the library, the panels, and a pop-out that caught up.         *)
DiagnosticsQuiet ==
    /\ focus = "diagmap" => DiagQuiet
    /\ focus = "bake" => BakeQuiet
    /\ focus = "layers" => LayQuiet
    /\ focus = "batch" => BatchQuiet
    /\ focus = "recipe" => RcpQuiet
    /\ focus = "spatial" => SpQuiet
DiagnosticsSettle == []<>DiagnosticsQuiet
==============================================================================
