----------------------------- MODULE ForcePlots ------------------------------
(***************************************************************************)
(* What the force dashboard shows of the selected operation and has to      *)
(* fetch first: the prerendered figure (a load token and a blob cache), the *)
(* filter preview (a debounce and an AbortController) and the signal        *)
(* statistics (the operation guard and a debounce on the crop).  The        *)
(* operation, axis, mode and open panel change while answers are on their   *)
(* way, and the page may be inactive when they come.                        *)
(***************************************************************************)
EXTENDS Naturals, FiniteSets

CONSTANTS
    PlotOps,      \* the operations
    SavedOps,     \* those with a filter chain applied, not baked
    PlotAxes,     \* the force axes used
    MaxTouches    \* bound on the operator's actions

ASSUME ForcePlotsAssumption == SavedOps \subseteq PlotOps /\ MaxTouches \in Nat

Shut == "none"
NoFile == <<"none", "none">>
NoPreview == [op |-> "none", chain |-> "none"]
NoStats == [op |-> "none", crop |-> 0]

VARIABLES
    plot,      \* the operation, axis, mode, open panel, working chain, crop
    fig,       \* frmUrl, frmLoading, the blob cache, a queued loadFrm
    figLoads,  \* figure downloads under way; cur: the newest token
    prv,       \* the preview timer, filterBusy, filteredCache
    prvRuns,   \* previews under way; cur: not aborted, last: previewAbort
    sts,       \* sigStats, statsBusy, the timer, the caches in the LRU
    stsRuns,   \* statistics under way; live: the guard's epoch
    touches    \* bound

plotVars == <<plot, fig, figLoads, prv, prvRuns, sts, stsRuns, touches>>

PlotInit ==
    /\ \E o \in PlotOps, a \in PlotAxes :
          plot = [op |-> o, axis |-> a, mode |-> "lite", panel |-> Shut,
                  work |-> o \in SavedOps, crop |-> 0, active |-> TRUE]
    /\ fig = [url |-> NoFile, loading |-> FALSE, blobs |-> {}, queued |-> FALSE]
    /\ figLoads = {}
    /\ prv = [timer |-> FALSE, busy |-> FALSE, shown |-> NoPreview]
    /\ prvRuns = {}
    /\ sts = [sig |-> NoStats, busy |-> FALSE, timer |-> FALSE, lru |-> {}, missed |-> FALSE]
    /\ stsRuns = {}
    /\ touches = 0

(***************************************************************************)
(* The figure.                                                              *)
(***************************************************************************)
FileOf(p) == <<p.op, p.axis>>
figureShown(p) == p.mode = "figure"

(* frmToken.next(): the downloads under way are superseded. *)
NewToken(loads) == {[l EXCEPT !.cur = FALSE] : l \in loads}

(* loadFrm for the view p: queued while inactive, else a new token. *)
loadFrm(p, f) ==
    IF ~p.active
    THEN fig' = [f EXCEPT !.queued = TRUE] /\ UNCHANGED figLoads
    ELSE /\ fig' = IF FileOf(p) \in f.blobs
                   THEN [f EXCEPT !.url = FileOf(p), !.loading = FALSE, !.queued = FALSE]
                   ELSE [f EXCEPT !.loading = TRUE, !.queued = FALSE]
         /\ figLoads' = NewToken(figLoads) \cup
                          (IF FileOf(p) \in f.blobs THEN {}
                           ELSE {[file |-> FileOf(p), cur |-> TRUE]})

(* watch([figureShown, figureFileId]) *)
FigureWatch(p) ==
    IF figureShown(p) /\ <<figureShown(p), FileOf(p)>> # <<figureShown(plot), FileOf(plot)>>
    THEN loadFrm(p, fig) ELSE UNCHANGED <<fig, figLoads>>

(* frmToken.isCurrent(mine) *)
MutIsCurrent(l) == TRUE
IsCurrent(l) == l.cur

FigureAnswered(l, ok) ==
    /\ l \in figLoads
    /\ figLoads' = figLoads \ {l}
    /\ fig' = [fig EXCEPT !.blobs = IF ok THEN @ \cup {l.file} ELSE @,
                          !.url = CASE ~IsCurrent(l) -> @ [] IsCurrent(l) /\ ok -> l.file [] OTHER -> NoFile,
                          !.loading = @ /\ ~IsCurrent(l)]
    /\ UNCHANGED <<plot, prv, prvRuns, sts, stsRuns, touches>>

(***************************************************************************)
(* The filter preview.                                                      *)
(***************************************************************************)
appliedLight(p) == p.op \in SavedOps
liveOn(p) == p.mode = "lite"
filtersOpen(p) == p.panel = "filters"
compareOn(p) == liveOn(p) /\ p.work /\ filtersOpen(p)

(* previewChain, Shut when there is nothing active to preview. *)
previewChain(p) ==
    CASE filtersOpen(p)                  -> IF p.work THEN "working" ELSE Shut
      [] ~filtersOpen(p) /\ appliedLight(p) /\ liveOn(p) -> "saved"
      [] OTHER                           -> Shut

Previewing(p) == filtersOpen(p) \/ (appliedLight(p) /\ liveOn(p))

(* The watch on the chain, the cache, the panel, the mode and the axis. *)
PreviewWatch(p, shown) ==
    [prv EXCEPT !.shown = IF Previewing(p) \/ compareOn(p) THEN shown ELSE NoPreview,
                !.timer = @ \/ Previewing(p)]

(* runPreview: abort the one under way; start one if there is a chain. *)
runPreview ==
    /\ prv.timer
    /\ LET chain == previewChain(plot)
           aborted == {[r EXCEPT !.cur = FALSE] : r \in prvRuns}
       IN  IF chain = Shut
           THEN /\ prv' = [timer |-> FALSE, busy |-> FALSE, shown |-> NoPreview]
                /\ prvRuns' = aborted
           ELSE /\ prv' = [prv EXCEPT !.timer = FALSE, !.busy = TRUE]
                /\ prvRuns' = {[r EXCEPT !.last = FALSE] : r \in aborted}
                     \cup {[op |-> plot.op, chain |-> chain, cur |-> TRUE, last |-> TRUE]}
    /\ UNCHANGED <<plot, fig, figLoads, sts, stsRuns, touches>>

(* finally { if (previewAbort === ac) filterBusy = false } *)
Releases(r, ok) == r.last

(* if (ac.signal.aborted) return *)
NotAborted(r) == r.cur

PreviewAnswered(r, ok) ==
    /\ r \in prvRuns
    /\ prvRuns' = prvRuns \ {r}
    /\ prv' = [prv EXCEPT !.busy = @ /\ ~Releases(r, ok),
                          !.shown = CASE ~NotAborted(r) -> @
                                      [] NotAborted(r) /\ ok -> [op |-> r.op, chain |-> r.chain]
                                      [] OTHER -> NoPreview]
    /\ UNCHANGED <<plot, fig, figLoads, sts, stsRuns, touches>>

(***************************************************************************)
(* The statistics, over the crop as it is when the cache is there.          *)
(***************************************************************************)
Computed(p, r) == [op |-> r.op, crop |-> p.crop]

Run(p) == [op |-> p.op, crop |-> p.crop, live |-> TRUE]

(* computeStats, started by the button, the panel or the debounce. *)
computeStats(p, s) ==
    CASE s.busy         -> sts' = s /\ UNCHANGED stsRuns
      [] ~s.busy /\ p.op \in s.lru ->
                           /\ sts' = [s EXCEPT !.sig = Computed(p, Run(p)), !.missed = FALSE]
                           /\ UNCHANGED stsRuns
      [] OTHER          -> /\ sts' = [s EXCEPT !.busy = TRUE]
                           /\ stsRuns' = stsRuns \cup {Run(p)}

StatsLive(r) == r.live /\ r.op = plot.op

StatsAnswered(r, ok) ==
    /\ r \in stsRuns
    /\ stsRuns' = stsRuns \ {r}
    /\ sts' = [sts EXCEPT !.lru = IF ok THEN @ \cup {r.op} ELSE @,
                          !.sig = IF StatsLive(r) /\ ok THEN Computed(plot, r) ELSE @,
                          !.missed = @ /\ ~(StatsLive(r) /\ ok),
                          !.busy = @ /\ ~StatsLive(r)]
    /\ UNCHANGED <<plot, fig, figLoads, prv, prvRuns, touches>>

StatsTimer ==
    /\ sts.timer
    /\ computeStats(plot, [sts EXCEPT !.timer = FALSE])
    /\ UNCHANGED <<plot, fig, figLoads, prv, prvRuns, touches>>

StatsButton ==
    /\ plot.panel = "stats" /\ sts.sig = NoStats /\ ~sts.busy
    /\ computeStats(plot, sts)
    /\ UNCHANGED <<plot, fig, figLoads, prv, prvRuns, touches>>

(***************************************************************************)
(* The operator.                                                            *)
(***************************************************************************)
Touch == touches < MaxTouches /\ touches' = touches + 1

(* Another operation's detail is shown: every watch on it runs. *)
ShowOp(o) ==
    /\ o # plot.op /\ Touch
    /\ \E m \in {"lite", "figure"} :
         LET p == [plot EXCEPT !.op = o, !.mode = m, !.crop = 0, !.work = o \in SavedOps]
         IN  /\ plot' = p
             /\ FigureWatch(p)
             /\ prv' = PreviewWatch(p, NoPreview)
    /\ sts' = [sts EXCEPT !.sig = NoStats, !.busy = FALSE, !.missed = FALSE]
    /\ stsRuns' = {[r EXCEPT !.live = FALSE] : r \in stsRuns}
    /\ UNCHANGED prvRuns

(* chooseMode, setAxis, an edit of the working chain. *)
View(p) ==
    /\ p # plot /\ Touch
    /\ plot' = p
    /\ FigureWatch(p)
    /\ prv' = PreviewWatch(p, prv.shown)
    /\ UNCHANGED <<prvRuns, sts, stsRuns>>

ChangeMode(m) == View([plot EXCEPT !.mode = m])
SetAxis(a) == View([plot EXCEPT !.axis = a])
EditChain == filtersOpen(plot) /\ View([plot EXCEPT !.work = ~@])

(* togglePanel; the statistics panel computes from a cache it has. *)
TogglePanel(x) ==
    /\ Touch
    /\ LET p == [plot EXCEPT !.panel = IF @ = x THEN Shut ELSE x]
       IN  /\ plot' = p
           /\ prv' = PreviewWatch(p, prv.shown)
           /\ IF p.panel = "stats" /\ sts.sig = NoStats /\ p.op \in sts.lru
              THEN computeStats(p, sts) ELSE UNCHANGED <<sts, stsRuns>>
    /\ UNCHANGED <<fig, figLoads, prvRuns>>

(* onCropEdit: refreshed only while the panel is open. *)
CropEdit ==
    /\ Touch
    /\ plot' = [plot EXCEPT !.crop = 1 - @, !.mode = "lite"]
    /\ FigureWatch([plot EXCEPT !.mode = "lite"])
    /\ prv' = IF plot.mode = "lite" THEN prv ELSE PreviewWatch([plot EXCEPT !.mode = "lite"], prv.shown)
    /\ sts' = IF plot.panel = "stats" /\ sts.sig # NoStats
              THEN [sts EXCEPT !.timer = TRUE]
              ELSE [sts EXCEPT !.missed = sts.sig # NoStats \/ @]
    /\ UNCHANGED <<prvRuns, stsRuns>>

(* The page is left: the blobs are revoked.  Entered: the queue runs. *)
Leave ==
    /\ plot.active /\ Touch
    /\ plot' = [plot EXCEPT !.active = FALSE]
    /\ fig' = [fig EXCEPT !.blobs = {}]
    /\ UNCHANGED <<figLoads, prv, prvRuns, sts, stsRuns>>

Enter ==
    /\ ~plot.active
    /\ plot' = [plot EXCEPT !.active = TRUE]
    /\ IF fig.queued THEN loadFrm([plot EXCEPT !.active = TRUE], fig)
                     ELSE UNCHANGED <<fig, figLoads>>
    /\ UNCHANGED <<prv, prvRuns, sts, stsRuns, touches>>

PlotNext ==
    \/ \E o \in PlotOps : ShowOp(o)
    \/ plot.active /\ \E m \in {"lite", "figure"} : ChangeMode(m)
    \/ plot.active /\ \E a \in PlotAxes : SetAxis(a)
    \/ plot.active /\ EditChain
    \/ plot.active /\ \E x \in {"stats", "filters"} : TogglePanel(x)
    \/ plot.active /\ CropEdit
    \/ plot.active /\ StatsButton
    \/ Leave \/ Enter
    \/ runPreview \/ StatsTimer
    \/ \E l \in figLoads, ok \in BOOLEAN : FigureAnswered(l, ok)
    \/ \E r \in prvRuns, ok \in BOOLEAN : PreviewAnswered(r, ok)
    \/ \E r \in stsRuns, ok \in BOOLEAN : StatsAnswered(r, ok)

(***************************************************************************)
(* Properties.                                                              *)
(***************************************************************************)
PlotTypeOK ==
    /\ plot.op \in PlotOps /\ plot.axis \in PlotAxes /\ plot.crop \in 0..1
    /\ fig.blobs \subseteq PlotOps \X PlotAxes
    /\ fig.url \in (PlotOps \X PlotAxes) \cup {NoFile}
    /\ Cardinality({l \in figLoads : l.cur}) <= 1
    /\ Cardinality({r \in prvRuns : r.cur}) <= 1
    /\ sts.lru \subseteq PlotOps

(* A figure on screen is the one of the operation and axis selected. *)
FigureIsOwn ==
    plot.active /\ figureShown(plot) /\ ~fig.loading => fig.url \in {NoFile, FileOf(plot)}

(* Once the preview has settled, the filtered pane is of this operation and *)
(* of the chain being previewed.                                            *)
PreviewSettled ==
    Previewing(plot) /\ ~prv.timer /\ (\A r \in prvRuns : ~r.cur) /\ prv.shown # NoPreview
        => prv.shown = [op |-> plot.op, chain |-> previewChain(plot)]

(* Statistics shown are of this operation. *)
StatsOfShown == sts.sig # NoStats => sts.sig.op = plot.op

(* With the panel open the statistics follow the crop, even one edited      *)
(* while they were being fetched; one edited with the panel shut is missed. *)
StatsFollowCrop ==
    /\ plot.panel = "stats" /\ sts.sig # NoStats /\ ~sts.timer /\ ~sts.busy /\ ~sts.missed
    => sts.sig.crop = plot.crop

(* No fetch leaves its spinner behind. *)
PlotQuiet == ~fig.loading /\ ~prv.busy /\ ~sts.busy

(* Does not hold (README, section 5): a preview is not aborted when another *)
(* operation is selected, and the compare pane shows it there.              *)
PreviewIsOwn == compareOn(plot) /\ prv.shown # NoPreview => prv.shown.op = plot.op
=============================================================================
