------------------------------- MODULE MCForce -------------------------------
(* The force dashboard for TLC: the work it asks of the host, its figures, *)
(* its edits, its address, the two maps with their pointers, its charts,   *)
(* and the pure functions under them. As in MCDesktop a behaviour is one   *)
(* of a single component, `focus`.                                         *)
EXTENDS ForceHost, ForcePlots, ForceEdits, ForceView, MapCloud, MapOctree, ChartViews, PlotMath

VARIABLE focus
vars == <<focus, hostVars, plotVars, editVars, viewVars, cloudVars, ptrVars, octVars, chartVars, sprayVars, rollVars, finVars, specVars, wearVars, chipVars, dotsVars, cutVars, sigVars, fileVars, cmpVars, winVars, rowsVars>>

Link(op, mode, zoom, crop, others, ref, diff) ==
    [op |-> op, mode |-> mode, zoom |-> zoom, crop |-> crop, cmp |-> others, ref |-> ref, diff |-> diff]

\* Addresses the page is opened with: a plain link, one with a comparison, and one to an operation that is gone.
MCLinks == {Link("A", "-", FALSE, TRUE, <<>>, "-", FALSE), Link("B", "fft", TRUE, FALSE, <<"A">>, "A", TRUE),
            Link("gone", "fft", FALSE, FALSE, <<>>, "-", FALSE)}

\* Times of the samples of a charted cut, unevenly spaced.
MCTimes == <<0, 4, 12, 16>>

\* The components that are not in focus start in one state.
Init ==
    /\ focus \in {"host", "plots", "edits", "view", "cloud", "pointers", "octree", "chart", "spray", "roll", "fin", "spec", "wear", "chip", "dots", "series", "signal", "file", "compare", "window", "table"}
    /\ HostInit /\ PlotInit
    /\ focus # "plots" => plot.op = (CHOOSE o \in PlotOps : TRUE) /\ plot.axis = (CHOOSE a \in PlotAxes : TRUE)
    /\ EditInit
    /\ focus # "edits" => eshow.op = CHOOSE o \in EditOps : TRUE
    /\ ViewInit
    /\ focus # "view" => url.q = NoLink
    /\ CloudInit
    /\ focus # "cloud" => mprop.file = (CHOOSE f \in MapFiles : TRUE) /\ mprop.path = "gpu"
    /\ PtrInit
    /\ focus # "pointers" => ~tool.is3D /\ ~tool.rect
    /\ OctInit
    /\ focus # "octree" => oprop.path = CHOOSE o \in Octrees : TRUE
    /\ ChartInit /\ SprayInit /\ RollInit /\ FinInit /\ SpecInit
    /\ focus # "spec" => spec.file = 1
    /\ WearInit
    /\ focus # "wear" => wear.op = 0
    /\ ChipInit /\ DotsInit /\ CutInit /\ SigInit /\ FileInit
    /\ focus # "file" => file.n = 0 /\ file.version = 1 /\ file.names = <<>>
    /\ CmpInit
    /\ focus # "compare" => cmp.current.detected = [start |-> 0, end |-> MaxTime]
    /\ WinInit
    /\ focus # "window" => win.start = 0 /\ win.end = Span
    /\ RowsInit

Next ==
    \/ focus = "host" /\ HostNext /\ UNCHANGED <<focus, plotVars, editVars, viewVars, cloudVars, ptrVars, octVars, chartVars, sprayVars, rollVars, finVars, specVars, wearVars, chipVars, dotsVars, cutVars, sigVars, fileVars, cmpVars, winVars, rowsVars>>
    \/ focus = "plots" /\ PlotNext /\ UNCHANGED <<focus, hostVars, editVars, viewVars, cloudVars, ptrVars, octVars, chartVars, sprayVars, rollVars, finVars, specVars, wearVars, chipVars, dotsVars, cutVars, sigVars, fileVars, cmpVars, winVars, rowsVars>>
    \/ focus = "edits" /\ EditNext /\ UNCHANGED <<focus, hostVars, plotVars, viewVars, cloudVars, ptrVars, octVars, chartVars, sprayVars, rollVars, finVars, specVars, wearVars, chipVars, dotsVars, cutVars, sigVars, fileVars, cmpVars, winVars, rowsVars>>
    \/ focus = "view" /\ ViewNext /\ UNCHANGED <<focus, hostVars, plotVars, editVars, cloudVars, ptrVars, octVars, chartVars, sprayVars, rollVars, finVars, specVars, wearVars, chipVars, dotsVars, cutVars, sigVars, fileVars, cmpVars, winVars, rowsVars>>
    \/ focus = "cloud" /\ CloudNext /\ UNCHANGED <<focus, hostVars, plotVars, editVars, viewVars, ptrVars, octVars, chartVars, sprayVars, rollVars, finVars, specVars, wearVars, chipVars, dotsVars, cutVars, sigVars, fileVars, cmpVars, winVars, rowsVars>>
    \/ focus = "pointers" /\ PtrNext /\ UNCHANGED <<focus, hostVars, plotVars, editVars, viewVars, cloudVars, octVars, chartVars, sprayVars, rollVars, finVars, specVars, wearVars, chipVars, dotsVars, cutVars, sigVars, fileVars, cmpVars, winVars, rowsVars>>
    \/ focus = "octree" /\ OctNext /\ UNCHANGED <<focus, hostVars, plotVars, editVars, viewVars, cloudVars, ptrVars, chartVars, sprayVars, rollVars, finVars, specVars, wearVars, chipVars, dotsVars, cutVars, sigVars, fileVars, cmpVars, winVars, rowsVars>>
    \/ focus = "chart" /\ ChartNext /\ UNCHANGED <<focus, hostVars, plotVars, editVars, viewVars, cloudVars, ptrVars, octVars, sprayVars, rollVars, finVars, specVars, wearVars, chipVars, dotsVars, cutVars, sigVars, fileVars, cmpVars, winVars, rowsVars>>
    \/ focus = "spray" /\ SprayNext /\ UNCHANGED <<focus, hostVars, plotVars, editVars, viewVars, cloudVars, ptrVars, octVars, chartVars, rollVars, finVars, specVars, wearVars, chipVars, dotsVars, cutVars, sigVars, fileVars, cmpVars, winVars, rowsVars>>
    \/ focus = "roll" /\ RollNext /\ UNCHANGED <<focus, hostVars, plotVars, editVars, viewVars, cloudVars, ptrVars, octVars, chartVars, sprayVars, finVars, specVars, wearVars, chipVars, dotsVars, cutVars, sigVars, fileVars, cmpVars, winVars, rowsVars>>
    \/ focus = "fin" /\ FinNext /\ UNCHANGED <<focus, hostVars, plotVars, editVars, viewVars, cloudVars, ptrVars, octVars, chartVars, sprayVars, rollVars, specVars, wearVars, chipVars, dotsVars, cutVars, sigVars, fileVars, cmpVars, winVars, rowsVars>>
    \/ focus = "spec" /\ SpecNext /\ UNCHANGED <<focus, hostVars, plotVars, editVars, viewVars, cloudVars, ptrVars, octVars, chartVars, sprayVars, rollVars, finVars, wearVars, chipVars, dotsVars, cutVars, sigVars, fileVars, cmpVars, winVars, rowsVars>>
    \/ focus = "wear" /\ WearNext /\ UNCHANGED <<focus, hostVars, plotVars, editVars, viewVars, cloudVars, ptrVars, octVars, chartVars, sprayVars, rollVars, finVars, specVars, chipVars, dotsVars, cutVars, sigVars, fileVars, cmpVars, winVars, rowsVars>>
    \/ focus = "chip" /\ ChipNext /\ UNCHANGED <<focus, hostVars, plotVars, editVars, viewVars, cloudVars, ptrVars, octVars, chartVars, sprayVars, rollVars, finVars, specVars, wearVars, dotsVars, cutVars, sigVars, fileVars, cmpVars, winVars, rowsVars>>
    \/ focus = "dots" /\ DotsNext /\ UNCHANGED <<focus, hostVars, plotVars, editVars, viewVars, cloudVars, ptrVars, octVars, chartVars, sprayVars, rollVars, finVars, specVars, wearVars, chipVars, cutVars, sigVars, fileVars, cmpVars, winVars, rowsVars>>
    \/ focus = "series" /\ CutNext /\ UNCHANGED <<focus, hostVars, plotVars, editVars, viewVars, cloudVars, ptrVars, octVars, chartVars, sprayVars, rollVars, finVars, specVars, wearVars, chipVars, dotsVars, sigVars, fileVars, cmpVars, winVars, rowsVars>>
    \/ focus = "signal" /\ SigNext /\ UNCHANGED <<focus, hostVars, plotVars, editVars, viewVars, cloudVars, ptrVars, octVars, chartVars, sprayVars, rollVars, finVars, specVars, wearVars, chipVars, dotsVars, cutVars, fileVars, cmpVars, winVars, rowsVars>>
    \/ focus = "file" /\ FileNext /\ UNCHANGED <<focus, hostVars, plotVars, editVars, viewVars, cloudVars, ptrVars, octVars, chartVars, sprayVars, rollVars, finVars, specVars, wearVars, chipVars, dotsVars, cutVars, sigVars, cmpVars, winVars, rowsVars>>
    \/ focus = "compare" /\ CmpNext /\ UNCHANGED <<focus, hostVars, plotVars, editVars, viewVars, cloudVars, ptrVars, octVars, chartVars, sprayVars, rollVars, finVars, specVars, wearVars, chipVars, dotsVars, cutVars, sigVars, fileVars, winVars, rowsVars>>
    \/ focus = "window" /\ WinNext /\ UNCHANGED <<focus, hostVars, plotVars, editVars, viewVars, cloudVars, ptrVars, octVars, chartVars, sprayVars, rollVars, finVars, specVars, wearVars, chipVars, dotsVars, cutVars, sigVars, fileVars, cmpVars, rowsVars>>
    \/ focus = "table" /\ RowsNext /\ UNCHANGED <<focus, hostVars, plotVars, editVars, viewVars, cloudVars, ptrVars, octVars, chartVars, sprayVars, rollVars, finVars, specVars, wearVars, chipVars, dotsVars, cutVars, sigVars, fileVars, cmpVars, winVars>>

----------------------------------------------------------------------------
(* Fairness, of the component in focus.                                    *)

(* Every request is answered or fails, and the deadline comes: requests end *)
(* whatever the host does.                                                  *)
HostFairness ==
    /\ WF_hostVars(focus = "host" /\ (\E j \in jobs : j.at # "poll" /\ JobStep(j)))
    /\ SF_hostVars(focus = "host" /\ (\E j \in jobs : DeadlinePasses(j)))
    /\ WF_hostVars(focus = "host" /\ (\E l \in floads, ok \in BOOLEAN : DetailAnswered(l, ok)))

(* Requests are answered or fail, timers run. *)
PlotFairness ==
    /\ WF_plotVars(focus = "plots" /\ (\E l \in figLoads, ok \in BOOLEAN : FigureAnswered(l, ok)))
    /\ WF_plotVars(focus = "plots" /\ (\E r \in prvRuns, ok \in BOOLEAN : PreviewAnswered(r, ok)))
    /\ WF_plotVars(focus = "plots" /\ (\E r \in stsRuns, ok \in BOOLEAN : StatsAnswered(r, ok)))
    /\ WF_plotVars(focus = "plots" /\ runPreview)

(* Each request is answered or fails. *)
EditFairness ==
    /\ WF_editVars(focus = "edits" /\ (\E s \in saves, ok \in BOOLEAN : CropAnswered(s, ok)))
    /\ WF_editVars(focus = "edits" /\ (\E s \in saves, ok \in BOOLEAN : MetaAnswered(s, ok)))

(* Promises settle, the debounce timer fires. *)
ViewFairness ==
    /\ WF_viewVars(focus = "view" /\ (\E l \in det.loads, ok \in BOOLEAN : DetailArrives(l, ok)))
    /\ WF_viewVars(focus = "view" /\ (\E id \in VOps, ok \in BOOLEAN : CompareArrives(id, ok)))
    /\ WF_viewVars(focus = "view" /\ (\E o \in VOps \cup {NoV} : Mount(o)))
    /\ WF_viewVars(focus = "view" /\ ApplyStep)
    /\ WF_viewVars(focus = "view" /\ Write)

(* The browser runs frames and timers; a download ends. *)
CloudFairness ==
    /\ WF_cloudVars(focus = "cloud" /\ Frame)
    /\ WF_cloudVars(focus = "cloud" /\ (\E l \in mload.loads, ok, glOk \in BOOLEAN : Downloaded(l, ok, glOk)))

(* Fingers are lifted, the hold timer runs. *)
PtrFairness ==
    /\ WF_ptrVars(focus = "pointers" /\ HoldFires)
    /\ \A i \in Fingers : WF_ptrVars(focus = "pointers" /\ onUp(i)) /\ WF_ptrVars(focus = "pointers" /\ LiftUnseen(i))

(* Requests end (with an answer or an error), a tick comes, the loop turns,   *)
(* and the stream settles (streamStage gives up after 3 s without change).    *)
OctFairness ==
  /\ WF_octVars(focus = "octree" /\ (\E c \in oload.calls : (\E a, b \in BOOLEAN : FilesArrive(c, a, b)) \/ (\E ok \in BOOLEAN : CloudArrives(c, ok))))
  /\ WF_octVars(focus = "octree" /\ (\E b \in BOOLEAN : Boot(b))) /\ WF_octVars(focus = "octree" /\ (LoopTurn(TRUE, FALSE)))

Spec ==
    /\ Init /\ [][Next]_vars
    /\ HostFairness /\ PlotFairness /\ EditFairness /\ ViewFairness /\ CloudFairness /\ PtrFairness /\ OctFairness

----------------------------------------------------------------------------
(* What the dashboard shows of an operation is of that operation and of    *)
(* its newest state: the host's work (one build at a time), the figures    *)
(* and statistics, the values in the form, the link (ForceDashboard.vue,   *)
(* viewState.ts).  A chart draws its window, the live plots what has       *)
(* arrived, a spectrum or trend what was asked for (ForceChart.vue,        *)
(* LiveFrm.vue, FinishedForcePlot.vue, SpectrumView.vue, WearTrend.vue).   *)
DashboardSafe ==
    /\ focus = "host" => HostTypeOK /\ BusyHasJob /\ OneBuild /\ DetailIsTrue
    /\ focus = "plots" => PlotTypeOK /\ FigureIsOwn /\ PreviewSettled /\ StatsOfShown /\ StatsFollowCrop
    /\ focus = "edits" => EditTypeOK /\ OwnValues /\ NotesPinNoCrop /\ SeedIsNoEdit /\ OctreeFollowsCrop
    /\ focus = "view" => ViewTypeOK /\ NotWithItself /\ LinkKeepsDifference /\ CropOfAppliedOp /\ LinkIsShown
    /\ focus = "chart" => WindowIsDrawn /\ CropKeepsOrder /\ CropIsPainted
    /\ focus = "spray" => SprayIsStrided /\ HistogramIsSeen
    /\ focus = "roll" => SkipIsSafe /\ WindowAndRuns
    /\ focus \in {"fin", "spec", "wear", "chip", "dots"} =>
          FinishedCatchesUp /\ SpectrumIsAsked /\ LengthHasLengths /\ FetchingIsOut /\ ScatterIsGiven

(* Once a map is quiet its picture is that of the cut, the colours and the *)
(* sizes asked for last, whatever was loaded, hidden or lost in between,   *)
(* and no cloud is left in memory (FrmCloud.vue, FrmOctree.vue); a gesture *)
(* ends with its finger (FrmCloud.vue, longPress.ts).  The functions the   *)
(* maps and charts are computed with agree with their plain definitions:   *)
(* the searches, the decimation, the path on the part, the reader of a     *)
(* trace file, the differences and the window (liveCache.ts, path.ts,      *)
(* compare.ts, diagPicker.ts).                                             *)
MapsSafe ==
    /\ focus = "cloud" => CloudTypeOK /\ PictureIsCurrent /\ NotAnothersData
    /\ focus = "pointers" => PtrTypeOK /\ PressIsLone /\ GestureEnds /\ OneGesture
    /\ focus = "octree" => OctTypeOK /\ ShownIsAsked /\ GeometryIsOwn /\ NoCloudLeaks /\ PictureIsAsked
    /\ focus \in {"series", "signal", "file", "compare", "window", "table"} =>
          /\ MathTypeOK /\ SearchIsLinear /\ ShaderDrawsPath /\ CropByIndex /\ RhoNeedsNoPath /\ DecimatedIsDrawn /\ EnvelopeKeepsPeaks
          /\ BinsAndLimits /\ NoChannelBeyondFile /\ DiffInsideWindows /\ CursorBrackets /\ RevealedIsShown /\ NoRowHiddenUncounted

(* What no step does: rewrite the address of another page                  *)
(* (ForceDashboard.vue), mark a time on the map of another cut             *)
(* (FrmOctree.vue).                                                        *)
ForceSteps == AwayUntouched /\ RevealOfOwn

(* No spinner stays, no stage hides the map for ever, and the address bar  *)
(* ends up as the link of what is shown.                                   *)
ForceQuiet ==
    /\ focus = "host" => HostBusyEnded /\ DetailSettled
    /\ focus = "plots" => PlotQuiet
    /\ focus = "edits" => EditQuiet
    /\ focus = "view" => ViewQuiet
    /\ focus = "cloud" => CloudQuiet
    /\ focus = "octree" => OctQuiet
ForceSettles == []<>ForceQuiet /\ []<>(focus = "edits" => CropQuiet)
==============================================================================
