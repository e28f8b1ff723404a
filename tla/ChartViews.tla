------------------------------ MODULE ChartViews ------------------------------
(***************************************************************************)
(* The plots themselves: the envelope chart with its zoom, crop and hover  *)
(* (ForceChart.vue), the live spiral (LiveFrm.vue), the rolling and the    *)
(* finished force plot (LiveForcePlot.vue, FinishedForcePlot.vue), the     *)
(* spectrum (SpectrumView.vue), the wear trend (WearTrend.vue), the signal *)
(* panel (SignalPanel.vue) and the diagnostics scatter (DiagScatter.vue).  *)
(* Pixels, colours and labels are left out: what is painted is named by    *)
(* the data it was painted from.                                           *)
(***************************************************************************)
EXTENDS Integers, Sequences, FiniteSets, FiniteSetsExt, SequencesExt

CONSTANTS
    Times,          \* sample times of the charted cut, ascending
    CropTimes,      \* values a crop bound can have
    MaxChartSteps,  \* steps of the envelope chart
    MaxPoints,      \* points of one live cut
    DRAW_CAP,       \* points of the live spiral's buffer (CAP)
    MaxSpraySteps,  \* steps of the live spiral
    MaxRollSteps,   \* steps of the rolling plot
    MaxFinSteps,    \* steps of the finished plot
    MaxSpecSteps,   \* steps of the spectrum
    MaxWearSteps,   \* steps of the wear trend
    MaxChipSteps    \* steps of the signal panel

ASSUME ChartAssumption ==
    /\ Len(Times) >= 2 /\ \A i \in 1..(Len(Times) - 1) : Times[i] < Times[i + 1]
    /\ DRAW_CAP \in Nat \ {0} /\ MaxPoints \in Nat

VARIABLES chart, spray, roll, fin, spec, wear, chip, dots

chartVars == <<chart>>
sprayVars == <<spray>>
rollVars == <<roll>>
finVars == <<fin>>
specVars == <<spec>>
wearVars == <<wear>>
chipVars == <<chip>>
dotsVars == <<dots>>

----------------------------------------------------------------------------
(* ForceChart.  A pointer is a number of quarters of the plot's width.     *)

Q == 4
Fracs == {-1, 0, 1, 3, 4}
NoEv == 99
Full == <<-1, -1>>
HIT == 2
MIN_SPAN == 1
Data == 1..Len(Times)
Start == Times[1]
End == Times[Len(Times)]
Gap(a, b) == IF a < b THEN b - a ELSE a - b
Inside01(f) == Max({0, Min({Q, f})})

\* The visible window and the samples drawn for it.
Window(v) ==
    LET x0 == IF v = Full THEN Start ELSE Max({Start, v[1]})
        x1 == IF v = Full THEN End ELSE Min({End, v[2]})
    IN IF x1 > x0 THEN <<x0, x1>> ELSE <<Start, End>>
FirstDrawn(v) == Max({1} \cup {i \in Data : Times[i] < Window(v)[1]})
LastDrawn(v) == Min({Len(Times)} \cup {i \in Data : Times[i] > Window(v)[2]})

\* The samples painted as cropped; 0 stands for findIndex's -1.
cropArea(c) ==
    LET from == {i \in Data : Times[i] >= c.crop[1]}
        upto == {i \in Data : Times[i] <= c.crop[2]}
        i0 == Max({FirstDrawn(c.view), IF from = {} THEN 0 ELSE Min(from)})
        i1 == IF upto = {} THEN 0 ELSE Min({LastDrawn(c.view), Max(upto)})
    IN i0..i1

xToSec(v, f) == Window(v)[1] + (Inside01(f) * (Window(v)[2] - Window(v)[1])) \div Q
bucketAt(v, f) ==
    LET at == Q * Window(v)[1] + Inside01(f) * (Window(v)[2] - Window(v)[1])
        drawn == FirstDrawn(v)..LastDrawn(v)
    IN Min({i \in drawn : \A j \in drawn : Gap(Q * Times[i], at) <= Gap(Q * Times[j], at)})

ChartInit ==
    chart = [view |-> Full, crop |-> <<Start, End>>, inside |-> FALSE, hoverEv |-> NoEv, hoverRaf |-> FALSE, hover |-> 0,
             drag |-> "", ev |-> NoEv, raf |-> FALSE, box |-> <<>>, steps |-> 0]

ChartStep(c) == chart.steps < MaxChartSteps /\ chart' = [c EXCEPT !.steps = @ + 1]

onChartMove == \E f \in Fracs : ChartStep([chart EXCEPT !.inside = TRUE, !.hoverEv = f, !.hoverRaf = TRUE])
onLeave == chart.inside /\ ChartStep([chart EXCEPT !.inside = FALSE, !.hover = 0])
HoverFrame ==
    /\ chart.hoverRaf
    /\ chart' = [chart EXCEPT !.hoverRaf = FALSE, !.hover = bucketAt(chart.view, chart.hoverEv)]

emitCrop(c, f) ==
    LET sec == xToSec(c.view, f)
    IN IF c.drag = "start" THEN [c EXCEPT !.crop[1] = Min({sec, c.crop[2]})]
       ELSE [c EXCEPT !.crop[2] = Max({sec, c.crop[1]})]
onCropDown ==
    \E f \in 0..Q :
        LET sec == xToSec(chart.view, f)
            near == [i \in 1..2 |-> Gap(sec, chart.crop[i])]
        IN /\ chart.drag = "" /\ chart.box = <<>> /\ Min({near[1], near[2]}) <= HIT
           /\ ChartStep([chart EXCEPT !.drag = IF near[1] <= near[2] THEN "start" ELSE "end", !.ev = f, !.raf = TRUE])
onCropMove == chart.drag # "" /\ \E f \in Fracs : ChartStep([chart EXCEPT !.ev = f, !.raf = TRUE])
CropFrame == chart.raf /\ chart' = [emitCrop(chart, chart.ev) EXCEPT !.raf = FALSE]
Released(c, f) == [emitCrop(c, f) EXCEPT !.drag = "", !.ev = NoEv, !.raf = FALSE]
onCropUp == chart.drag # "" /\ \E f \in Fracs : ChartStep(Released(chart, f))

onZoomDown == chart.box = <<>> /\ chart.drag = "" /\ \E f \in Fracs : ChartStep([chart EXCEPT !.box = <<f, f>>])
onZoomMove == chart.box # <<>> /\ \E f \in Fracs : ChartStep([chart EXCEPT !.box[2] = f])
onZoomUp ==
    /\ chart.box # <<>>
    /\ LET s == xToSec(chart.view, Min({chart.box[1], chart.box[2]}))
           e == xToSec(chart.view, Max({chart.box[1], chart.box[2]}))
       IN ChartStep([chart EXCEPT !.box = <<>>, !.view = IF e > s THEN <<s, e>> ELSE @])

\* A wheel step scales the window about the pointer and keeps it inside the data.
Wheeled(v, f, closer) ==
    LET width == Window(v)[2] - Window(v)[1]
        span == Min({End - Start, Max({MIN_SPAN, IF closer THEN width \div 2 ELSE width * 2})})
        s == xToSec(v, f) - (Inside01(f) * span) \div Q
        t == IF s < Start THEN Start ELSE s
        u == IF t + span > End THEN End - span ELSE t
    IN IF span >= End - Start THEN Full ELSE <<Max({Start, u}), Max({Start, u}) + span>>
onWheel == \E f \in Fracs, closer \in BOOLEAN : ChartStep([chart EXCEPT !.view = Wheeled(@, f, closer)])

\* The crop typed into the sidebar, or of another cut.
CropTyped == chart.drag = "" /\ \E a, b \in CropTimes : a <= b /\ ChartStep([chart EXCEPT !.crop = <<a, b>>])

ChartNext ==
    \/ onChartMove \/ onLeave \/ HoverFrame \/ onCropDown \/ onCropMove \/ CropFrame \/ onCropUp
    \/ onZoomDown \/ onZoomMove \/ onZoomUp \/ onWheel \/ CropTyped

\* Whatever the zooms, the window is a part of the data, every sample of it is drawn, and at
\* most one sample outside it at either end (geom).
WindowIsDrawn ==
    LET w == Window(chart.view)
        drawn == FirstDrawn(chart.view)..LastDrawn(chart.view)
    IN /\ Start <= w[1] /\ w[1] < w[2] /\ w[2] <= End
       /\ \A i \in Data : w[1] <= Times[i] /\ Times[i] <= w[2] => i \in drawn
       /\ Cardinality({i \in drawn : Times[i] < w[1]}) <= 1 /\ Cardinality({i \in drawn : Times[i] > w[2]}) <= 1

\* A dragged crop bound never passes the other, and no coalesced frame is left to move a bound
\* once the handle is released: it would move the end, whichever was dragged.
CropKeepsOrder == chart.crop[1] <= chart.crop[2] /\ (chart.raf => chart.drag # "")

\* The samples painted as cropped are the drawn ones inside the crop, as long as the crop starts
\* before the last sample.
CropIsPainted ==
    chart.crop[1] <= End =>
        cropArea(chart) = {i \in FirstDrawn(chart.view)..LastDrawn(chart.view) :
                              chart.crop[1] <= Times[i] /\ Times[i] <= chart.crop[2]}

\* Does not hold (README, section 5): a crop that starts after the last sample paints nothing.
\* findIndex is -1 there and Math.max takes iA instead.
CropPaintsCrop == \A i \in cropArea(chart) : chart.crop[1] <= Times[i]

\* Does not hold (README, section 5): no crosshair once the pointer has left. A frame asked for
\* before the leave still emits its hover.
NoGhostHover == ~chart.inside /\ ~chart.hoverRaf => chart.hover = 0

----------------------------------------------------------------------------
(* LiveFrm.  A point is <<cut, axis, index>>; the colour range is [-hi, hi]. *)

NoHist == <<"none">>
Axes2 == {"Fx", "Fz"}
Upto(cut, axis, from, to) == [k \in 1..(to - from) |-> <<cut, axis, from + k - 1>>]
Tolerated(a, b) == 50 * Gap(a, b) <= 2 * b    \* 2 % of the range 2 * b

resetUpload(p) == [p EXCEPT !.up = 0, !.drawn = <<>>, !.key = "", !.hist = NoHist]

\* emitAutoRange: a new range, or one more than 2 % off, empties and refills the histogram.
Reseeds(p) == p.key # p.axis \/ ~Tolerated(p.hi, p.auto)
emitAutoRange(p) ==
    IF Reseeds(p) THEN [p EXCEPT !.key = p.axis, !.auto = p.hi, !.hist = Upto(p.cut, p.axis, 0, p.up)] ELSE p

\* The points a frame adds: every stride-th of the cut, up to the buffer's size.
Kept(p) == SelectSeq(Upto(p.cut, p.axis, p.up, p.count), LAMBDA x : x[3] % p.stride = 0)
Uploaded(p) ==
    [p EXCEPT !.drawn = SubSeq(p.drawn \o Kept(p), 1, Min({DRAW_CAP, Len(p.drawn) + Len(Kept(p))})),
              !.up = p.count, !.hist = @ \o Upto(p.cut, p.axis, p.up, p.count)]
Restarted(p) == IF p.count < p.up THEN resetUpload(p) ELSE p

\* One animation frame; due: the histogram's publishing interval is over.
AfterFrame(p0, due) ==
    LET p == Restarted(p0)
        q == emitAutoRange(p)
        r == IF p.count > p.up THEN Uploaded(q) ELSE q
        changed == Reseeds(p) \/ p.count > p.up
        publish == Reseeds(p) \/ (due /\ (changed \/ p.pending))
    IN [r EXCEPT !.pending = IF publish THEN FALSE ELSE @ \/ changed, !.published = IF publish THEN r.hist ELSE @]

SprayInit ==
    spray = [cut |-> 1, count |-> 0, hi |-> 50, axis |-> "Fz", stride |-> 1, up |-> 0, drawn |-> <<>>, key |-> "",
             auto |-> 1, hist |-> NoHist, pending |-> FALSE, published |-> NoHist, steps |-> 0]
SprayStep(p) == spray.steps < MaxSpraySteps /\ spray' = [p EXCEPT !.steps = @ + 1]

SprayFrame == \E due \in BOOLEAN : spray' = AfterFrame(spray, due)
PointsArrive ==
    \E n \in 1..3, hi \in {50, 51, 80} :
        spray.count + n <= MaxPoints /\ hi >= spray.hi /\ SprayStep([spray EXCEPT !.count = @ + n, !.hi = hi])
NewCut == spray.cut = 1 /\ SprayStep([spray EXCEPT !.cut = 2, !.count = 0, !.hi = 50])
Repacked(p) == resetUpload(p)
SetSprayAxis == \E a \in Axes2 \ {spray.axis} : SprayStep(Repacked([spray EXCEPT !.axis = a]))
SetStride == \E s \in {1, 2} \ {spray.stride} : SprayStep(resetUpload([spray EXCEPT !.stride = s]))

SprayNext == SprayFrame \/ PointsArrive \/ NewCut \/ SetSprayAxis \/ SetStride

\* Whatever the axis, the stride and the resets in between, the spiral holds the stride's points
\* of all those seen, each once and in order, coloured by the shown axis.
SprayIsStrided ==
    LET due == SelectSeq([i \in 1..spray.up |-> i - 1], LAMBDA i : i % spray.stride = 0)
    IN /\ [k \in DOMAIN spray.drawn |-> spray.drawn[k][3]] = SubSeq(due, 1, Min({DRAW_CAP, Len(due)}))
       /\ \A k \in DOMAIN spray.drawn : spray.drawn[k][2] = spray.axis

\* The histogram counts every point seen once, also after a re-binning, and what was published
\* last is that histogram unless a publication is pending.
HistogramIsSeen ==
    spray.hist # NoHist =>
        /\ [k \in DOMAIN spray.hist |-> spray.hist[k][3]] = [k \in 1..spray.up |-> k - 1]
        /\ spray.pending \/ spray.published = spray.hist

\* Does not hold (README, section 5): after a frame the spiral is of the current cut. A new cut
\* that has grown past the old one's points before a frame runs is not seen as new.
SprayOfCut == spray.up = spray.count => \A k \in DOMAIN spray.drawn : spray.drawn[k][1] = spray.cut

----------------------------------------------------------------------------
(* LiveForcePlot: the rolling window, its gaps and the skipped frames.     *)

RETAIN == 8
GAP_FACTOR == 3
NotPainted == [cut |-> 0, t |-> <<>>, win |-> 0, sel |-> 0]
Forced == <<-1, -1, 0, 0>>
TimeOf(t) == IF t = <<>> THEN NoEv ELSE Last(t)

\* plotWindow.ts: what a window of w seconds shows of the times t.
windowView(t, w) ==
    LET x0 == Last(t) - w
        before == {i \in DOMAIN t : t[i] < x0}
    IN IF Last(t) - t[1] <= w THEN [i0 |-> 1, x0 |-> t[1], x1 |-> t[1] + w]
       ELSE [i0 |-> Max({1} \cup before), x0 |-> x0, x1 |-> Last(t)]
medianSpacing(t, from) ==
    LET d == SortSeq([k \in 1..(Len(t) - from) |-> t[from + k] - t[from + k - 1]], LAMBDA a, b : a < b)
    IN IF d = <<>> THEN 0 ELSE d[Len(d) \div 2 + 1]
IsGap(t, from, i) == t[i] - t[i - 1] > GAP_FACTOR * medianSpacing(t, from)
splitAtGaps(t, from) ==
    LET starts == SetToSortSeq({from} \cup {i \in (from + 1)..Len(t) : IsGap(t, from, i)}, <)
    IN [k \in DOMAIN starts |-> <<starts[k], IF k = Len(starts) THEN Len(t) ELSE starts[k + 1] - 1>>]

RollInit == roll = [cut |-> 1, t |-> <<>>, win |-> 4, sel |-> 1, last |-> Forced, painted |-> NotPainted, steps |-> 0]
RollStep(r) == roll.steps < MaxRollSteps /\ roll' = [r EXCEPT !.steps = @ + 1]
DrawKey(r) == <<Len(r.t), TimeOf(r.t), r.sel, r.win>>
Skipped(r) == r.t # <<>> /\ DrawKey(r) = r.last
DrawRoll ==
    /\ ~Skipped(roll)
    /\ roll' = [roll EXCEPT !.last = DrawKey(roll),
                            !.painted = [cut |-> roll.cut, t |-> roll.t, win |-> roll.win, sel |-> roll.sel]]
\* The client appends a bin and drops what is older than it retains.
BinArrives ==
    \E dt \in {1, 2, 7} :
        LET now == IF roll.t = <<>> THEN 0 ELSE Last(roll.t) + dt
        IN RollStep([roll EXCEPT !.t = Append(SelectSeq(@, LAMBDA x : x >= now - RETAIN), now)])
RollCut == roll.cut = 1 /\ RollStep([roll EXCEPT !.cut = 2, !.t = <<>>])
RollSelect == \E s \in {1, 2} \ {roll.sel} : RollStep([roll EXCEPT !.sel = s])
RollWindow == \E w \in {2, 4} \ {roll.win} : RollStep([roll EXCEPT !.win = w])
\* A resize or a discarded canvas clears it; both force the next frame to paint.
Forget(r) == [r EXCEPT !.last = Forced]
RollBlanked == RollStep(Forget([roll EXCEPT !.painted = NotPainted]))
RollNext == DrawRoll \/ BinArrives \/ RollCut \/ RollSelect \/ RollWindow \/ RollBlanked

\* A frame is skipped only when the canvas already shows this trace, selection and window, if it
\* was painted in this cut.
SkipIsSafe ==
    Skipped(roll) =>
        /\ roll.painted # NotPainted /\ roll.painted.win = roll.win /\ roll.painted.sel = roll.sel
        /\ roll.painted.cut = roll.cut => roll.painted.t = roll.t

\* Does not hold (README, section 5): a skipped frame shows the current cut. A new cut with as
\* many bins and the same last time between two frames looks unchanged.
SkipIsOfCut == Skipped(roll) => roll.painted.cut = roll.cut

\* The window is exactly as wide as asked, every bin inside it is drawn and at most one before
\* it; the runs are the drawn bins in order, split exactly at the gaps.
WindowAndRuns ==
    Len(roll.t) >= 2 =>
        LET v == windowView(roll.t, roll.win)
            runs == splitAtGaps(roll.t, v.i0)
        IN /\ v.x1 - v.x0 = roll.win /\ \A i \in DOMAIN roll.t : roll.t[i] >= v.x0 => i >= v.i0
           /\ v.i0 = Len(roll.t) \/ roll.t[v.i0 + 1] >= v.x0
           /\ FlattenSeq([k \in DOMAIN runs |-> [j \in 1..(runs[k][2] - runs[k][1] + 1) |-> runs[k][1] + j - 1]])
                = [j \in 1..(Len(roll.t) - v.i0 + 1) |-> v.i0 + j - 1]
           /\ \A k \in DOMAIN runs : \A i \in (runs[k][1] + 1)..runs[k][2] : ~IsGap(roll.t, v.i0, i)
           /\ \A k \in 2..Len(runs) : IsGap(roll.t, v.i0, runs[k][1])

----------------------------------------------------------------------------
(* FinishedForcePlot: the cached layer, the draw gate and the crop handles. *)

DurOf(cache) == IF cache = 1 THEN 3 ELSE 2
NoLayer == [cache |-> 0, sel |-> 0, theme |-> 0]
NoPlot == <<NoLayer, <<0, 0>>>>
LayerOf(x) == [cache |-> x.cache, sel |-> x.sel, theme |-> x.theme]

FinInit ==
    fin = [cache |-> 1, sel |-> 1, theme |-> 1, crop |-> <<0, DurOf(1)>>, paused |-> FALSE, dirty |-> FALSE, raf |-> TRUE,
           layer |-> NoLayer, shown |-> NoPlot, handles |-> FALSE, drag |-> "", steps |-> 0]
FinStep(x) == fin.steps < MaxFinSteps /\ fin' = [x EXCEPT !.steps = @ + 1]
scheduleDraw(x) == [x EXCEPT !.raf = TRUE]

drawFinished(x) ==
    LET L == IF x.layer = LayerOf(x) THEN x.layer ELSE LayerOf(x)
    IN [x EXCEPT !.layer = L, !.shown = <<L, x.crop>>, !.handles = x.crop[2] > x.crop[1]]
blocked(x) == [x EXCEPT !.dirty = TRUE]
FinFrame ==
    /\ fin.raf
    /\ LET x == [fin EXCEPT !.raf = FALSE] IN fin' = IF fin.paused THEN blocked(x) ELSE drawFinished(x)
FinCache == \E c \in {1, 2} \ {fin.cache} : FinStep(scheduleDraw([fin EXCEPT !.cache = c, !.crop = <<0, DurOf(c)>>]))
FinSelect == \E s \in {1, 2} \ {fin.sel} : FinStep(scheduleDraw([fin EXCEPT !.sel = s]))
FinTheme == \E s \in {1, 2} \ {fin.theme} : FinStep(scheduleDraw([fin EXCEPT !.theme = s]))
FinResize == FinStep(scheduleDraw([fin EXCEPT !.layer = NoLayer, !.shown = NoPlot]))
\* A modal opens over the plot or closes; takeDirty is asked on both.
FinPause ==
    LET x == [fin EXCEPT !.paused = ~@]
    IN FinStep(IF ~x.paused /\ x.dirty THEN scheduleDraw([x EXCEPT !.dirty = FALSE]) ELSE x)
FinDown == fin.handles /\ fin.drag = "" /\ ~fin.paused /\ \E h \in {"start", "end"} : FinStep([fin EXCEPT !.drag = h])
FinMove ==
    /\ fin.drag # "" /\ fin.layer # NoLayer
    /\ \E s \in 0..DurOf(fin.layer.cache) :
         FinStep(scheduleDraw([fin EXCEPT !.crop = IF fin.drag = "start" THEN <<Min({s, @[2]}), @[2]>>
                                                   ELSE <<@[1], Max({s, @[1]})>>]))
FinUp == fin.drag # "" /\ FinStep([fin EXCEPT !.drag = ""])
FinNext == FinFrame \/ FinCache \/ FinSelect \/ FinTheme \/ FinResize \/ FinPause \/ FinDown \/ FinMove \/ FinUp

\* An uncovered plot with no frame pending shows the cut, channels, theme and crop it was given;
\* draws skipped under a modal are made up for.
FinishedCatchesUp == ~fin.paused /\ ~fin.raf => fin.shown = <<LayerOf(fin), fin.crop>>

\* Does not hold (README, section 5): an editable crop keeps its handles. Dragged onto each
\* other they vanish and cannot be grabbed again.
HandlesStay == ~fin.raf /\ ~fin.paused => fin.handles

\* Does not hold (README, section 5): the crop lies inside the cut. A drag between a new cut and
\* its first frame maps the pointer with the old cut's times.
CropInsideCut == fin.crop[2] <= DurOf(fin.cache)

----------------------------------------------------------------------------
(* SpectrumView.  What it asks for is <<file, axis, chain>>.               *)

NoGrid == <<0, "", 0>>
AskOf(s) == <<s.file, s.axis, s.chain>>
BaseOf(s) == <<s.file, s.axis, s.mode>>
NoSpectrum == "no spectrum"

drawSpec(s) ==
    [s EXCEPT !.painted = IF s.loading /\ s.grid = NoGrid THEN <<"computing">> ELSE IF s.err THEN <<"err">>
                          ELSE IF s.grid = NoGrid THEN <<NoSpectrum>> ELSE s.grid]
loadSpec(s) ==
    IF s.file = 0 THEN [s EXCEPT !.req = @ + 1, !.grid = NoGrid, !.loading = FALSE]
    ELSE [s EXCEPT !.req = @ + 1, !.loading = TRUE, !.err = FALSE, !.infl = @ \cup {[id |-> s.req + 1, ask |-> AskOf(s)]}]

SpecInit ==
    \E f \in {0, 1} :
        spec = loadSpec([file |-> f, axis |-> "Fx", mode |-> "psd", chain |-> 1, timer |-> FALSE, req |-> 0, infl |-> {},
                         loading |-> FALSE, err |-> FALSE, grid |-> NoGrid, painted |-> <<>>, steps |-> 0])
SpecStep(s) == spec.steps < MaxSpecSteps /\ spec' = [s EXCEPT !.steps = @ + 1]
\* The key's watcher: a new file, axis or mode loads at once, a new chain after a pause.
KeyChanged(s) == IF BaseOf(s) # BaseOf(spec) THEN loadSpec([s EXCEPT !.timer = FALSE]) ELSE [s EXCEPT !.timer = TRUE]
SpecFile == \E f \in 0..2 \ {spec.file} : SpecStep(KeyChanged([spec EXCEPT !.file = f]))
SpecMode == \E m \in {"psd", "waterfall"} \ {spec.mode} : SpecStep(KeyChanged([spec EXCEPT !.mode = m]))
SpecChain == \E c \in {1, 2} \ {spec.chain} : SpecStep(KeyChanged([spec EXCEPT !.chain = c]))
ChainDue == spec.timer /\ spec' = loadSpec([spec EXCEPT !.timer = FALSE])
IsLatest(s, r) == r.id = s.req
SpecAnswer ==
    \E r \in spec.infl, ok \in BOOLEAN :
        LET s == [spec EXCEPT !.infl = @ \ {r}]
        IN spec' = IF ~IsLatest(s, r) THEN s
                   ELSE drawSpec([s EXCEPT !.loading = FALSE, !.err = IF ok THEN @ ELSE TRUE, !.grid = IF ok THEN r.ask ELSE NoGrid])
SpecRedraw == SpecStep(drawSpec(spec))   \* a resize, a theme, a hover
SpecNext == SpecFile \/ SpecMode \/ SpecChain \/ ChainDue \/ SpecAnswer \/ SpecRedraw

\* Once nothing is loading or about to, the spectrum held is of the file, axis and chain asked
\* for, whatever order the answers came in; none is held for no file.
SpectrumIsAsked ==
    /\ spec.loading => \E r \in spec.infl : IsLatest(spec, r)
    /\ ~spec.loading /\ ~spec.timer /\ spec.grid # NoGrid => spec.grid = AskOf(spec)

\* Does not hold (README, section 5): a spectrum that is no longer held is not painted. Dropping
\* the file returns before draw().
PaintedIsHeld == ~spec.loading /\ spec.painted \in {NoGrid} \cup {<<f, "Fx", c>> : f \in 1..2, c \in 1..2} => spec.painted = spec.grid

----------------------------------------------------------------------------
(* WearTrend.  Operation 1 and 2 share a sample, 3 has another; only 1 and  *)
(* 3 have an edge.  A group's rows are its key; sample 1 has lengths.       *)

NoRows == <<"", 0>>
AXES == {"Fx", "Fy", "Fz"}
GroupOf(op, by) ==
    IF op = 0 THEN NoRows
    ELSE IF by = "sample" THEN <<by, IF op = 3 THEN 2 ELSE 1>>
    ELSE IF op = 2 THEN NoRows ELSE <<by, op>>
lengthAvailable(rows) == rows = <<"sample", 1>>

\* load(), and the watcher that leaves the length axis when no row has a length.
WithRows(w, rows) == [w EXCEPT !.rows = rows, !.mode = IF lengthAvailable(rows) THEN @ ELSE "sequence"]
loadTrend(w) ==
    LET g == GroupOf(w.op, w.by)
    IN IF g = NoRows THEN WithRows(w, NoRows)
       ELSE [w EXCEPT !.loading = TRUE, !.err = FALSE, !.infl = Append(@, g)]
WearInit ==
    \E op \in 0..3 : wear = loadTrend([op |-> op, by |-> "edge", rows |-> NoRows, loading |-> FALSE, err |-> FALSE, infl |-> <<>>,
                                       mode |-> "sequence", axes |-> {"Fz"}, steps |-> 0])
WearStep(w) == wear.steps < MaxWearSteps /\ wear' = [w EXCEPT !.steps = @ + 1]
WearSelect == \E op \in 0..3 \ {wear.op} : WearStep(loadTrend([wear EXCEPT !.op = op]))
SetGroup == \E g \in {"edge", "sample"} \ {wear.by} : WearStep(loadTrend([wear EXCEPT !.by = g]))
TrendAnswer ==
    \E k \in DOMAIN wear.infl, ok \in BOOLEAN :
        wear' = WithRows([wear EXCEPT !.infl = RemoveAt(@, k), !.loading = FALSE, !.err = IF ok THEN @ ELSE TRUE],
                         IF ok THEN wear.infl[k] ELSE NoRows)
SetTrendMode == \E m \in {"sequence", "length"} : (m = "length" => lengthAvailable(wear.rows)) /\ WearStep([wear EXCEPT !.mode = m])
toggleAxis ==
    \E a \in AXES :
        LET next == SymDiff(wear.axes, {a}) IN next # {} /\ WearStep([wear EXCEPT !.axes = next])
WearNext == WearSelect \/ SetGroup \/ TrendAnswer \/ SetTrendMode \/ toggleAxis

\* points: by sequence number, those without one last; where a pass is drawn on the pass axis.
NoSeq == -1
Sequences3 == [1..3 -> {NoSeq, 1, 2}]
Ordered3(seqs) ==
    SortSeq([i \in 1..3 |-> i], LAMBDA a, b : seqs[a] # seqs[b] /\ seqs[a] # NoSeq /\ (seqs[b] = NoSeq \/ seqs[a] < seqs[b]))
PassX(seqs, i) == IF seqs[i] = NoSeq THEN 0 ELSE seqs[i]

\* The trend is never drawn over a length axis its passes do not have.
LengthHasLengths == wear.mode = "length" => lengthAvailable(wear.rows)

\* Does not hold (README, section 5): once every answer is in, the trend is of the selected
\* operation's group. An older answer that comes last replaces it.
TrendOfShown == wear.infl = <<>> /\ ~wear.err => wear.rows = GroupOf(wear.op, wear.by)

\* Does not hold (README, section 5): the passes are drawn left to right. A pass without a
\* sequence number is sorted last and drawn at 0.
PassesInOrder ==
    \A seqs \in Sequences3 :
        LET o == Ordered3(seqs) IN \A i \in 1..2 : PassX(seqs, o[i]) <= PassX(seqs, o[i + 1])

----------------------------------------------------------------------------
(* SignalPanel.  A recipe is a version; a preview is <<channel, version>>.  *)

Chans == {"fp", "fc", "ff"}

fetchChannel(c, ch) ==
    IF ch \in c.fetching THEN c ELSE [c EXCEPT !.fetching = @ \cup {ch}, !.infl = @ \cup {<<ch, c.ver>>}]
refetchAll(c) == FoldSet(LAMBDA ch, acc : fetchChannel(acc, ch), c, Chans \ {c.cur})
\* The recipe's watchers.
RecipeChanged(c, ch) ==
    [c EXCEPT !.ver = @ + 1, !.cur = ch, !.shown = IF c.all \/ ch = c.cur THEN @ ELSE ch, !.timer = @ \/ c.all]

ChipInit ==
    chip = [ver |-> 1, cur |-> "fp", shown |-> "fp", all |-> FALSE, cache |-> [ch \in Chans |-> 0], fetching |-> {},
            infl |-> {}, timer |-> FALSE, steps |-> 0]
ChipStep(c) == chip.steps < MaxChipSteps /\ chip' = [c EXCEPT !.steps = @ + 1]
EditRecipe == \E ch \in Chans : ChipStep(RecipeChanged(chip, ch))
ToggleAll ==
    LET c == [chip EXCEPT !.all = ~@] IN ChipStep(IF c.all THEN refetchAll([c EXCEPT !.shown = c.cur]) ELSE c)
selectChip ==
    \E ch \in Chans :
        LET c == [chip EXCEPT !.shown = ch]
            d == IF c.all /\ c.cache[ch] = 0 THEN fetchChannel(c, ch) ELSE c
        IN ChipStep(IF ch = chip.cur THEN d ELSE RecipeChanged(d, ch))
RefetchDue == chip.timer /\ chip' = refetchAll([chip EXCEPT !.timer = FALSE])
Arrived(c, r, ok) == [c EXCEPT !.infl = @ \ {r}, !.fetching = @ \ {r[1]}, !.cache[r[1]] = IF ok THEN r[2] ELSE @]
ChannelAnswer == \E r \in chip.infl, ok \in BOOLEAN : chip' = Arrived(chip, r, ok)
ChipNext == EditRecipe \/ ToggleAll \/ selectChip \/ RefetchDue \/ ChannelAnswer

\* A channel is marked as being fetched exactly while its one request is out, so a failed one
\* can be asked for again.
FetchingIsOut == chip.fetching = {r[1] : r \in chip.infl} /\ Cardinality(chip.infl) = Cardinality(chip.fetching)

\* Does not hold (README, section 5): a settled panel's cache is of the current recipe. An edit
\* during a fetch is not fetched again, and a channel once cached is kept when it was current.
CachedIsOfRecipe ==
    chip.all /\ ~chip.timer /\ chip.fetching = {} =>
        \A ch \in Chans \ {chip.cur} : chip.cache[ch] \in {0, chip.ver}

\* Does not hold (README, section 5): outside comparison the lit chip is the recipe's channel.
\* Leaving comparison does not bring it back.
ChipIsShown == ~chip.all => chip.shown = chip.cur

----------------------------------------------------------------------------
(* DiagScatter: the buffers follow their properties.                       *)

NoBuffers == [ws |-> 0, value |-> "", sel |-> 0]
categorical(d) == d.cluster \/ d.channel = "segmentId"
packValue(d) ==
    IF d.gl # "up" \/ d.ws = 0 THEN d
    ELSE [d EXCEPT !.buf.value = d.channel, !.limits = IF categorical(d) THEN @ ELSE <<d.ws, d.channel>>]
packSelected(d) == IF d.gl # "up" \/ d.ws = 0 THEN d ELSE [d EXCEPT !.buf.sel = d.sel]
rebuildGeometry(d) ==
    IF d.ws = 0 THEN [d EXCEPT !.buf = NoBuffers]
    ELSE packSelected(packValue([d EXCEPT !.buf = [ws |-> d.ws, value |-> "", sel |-> 0]]))
Categorised(d) == packValue(IF d.gl = "up" THEN [d EXCEPT !.uCluster = categorical(d)] ELSE d)

DotsInit ==
    dots = [ws |-> 0, channel |-> "residZ", cluster |-> FALSE, sel |-> 0, paint |-> FALSE, gl |-> "none", buf |-> NoBuffers,
            uCluster |-> FALSE, limits |-> <<0, "">>, draft |-> 0, sent |-> 0]
setupGL ==
    /\ dots.gl = "none"
    /\ dots' \in {[dots EXCEPT !.gl = "failed"],
                  rebuildGeometry([dots EXCEPT !.gl = "up", !.uCluster = categorical(dots)])}
SetWs == \E w \in 0..2 \ {dots.ws} : dots' = rebuildGeometry([dots EXCEPT !.ws = w])
SetChannel == \E c \in {"residZ", "segmentId"} \ {dots.channel} : dots' = Categorised([dots EXCEPT !.channel = c])
SetCluster ==
    LET d == [dots EXCEPT !.cluster = ~@] IN dots' = IF categorical(d) = categorical(dots) THEN d ELSE Categorised(d)
SetSelection == \E s \in 0..1 \ {dots.sel} : dots' = packSelected([dots EXCEPT !.sel = s])
PaintMode == dots' = [dots EXCEPT !.paint = ~@, !.draft = IF dots.paint THEN 0 ELSE @]
onPaintClick == dots.paint /\ dots.gl = "up" /\ dots.draft < 4 /\ dots' = [dots EXCEPT !.draft = @ + 1]
finishRing == dots.paint /\ dots' = [dots EXCEPT !.sent = IF dots.draft >= 3 THEN dots.draft ELSE @, !.draft = 0]
cancelRing == dots.paint /\ dots' = [dots EXCEPT !.draft = 0]
DotsNext ==
    \/ setupGL \/ SetWs \/ SetChannel \/ SetCluster \/ SetSelection
    \/ PaintMode \/ onPaintClick \/ finishRing \/ cancelRing

\* Once the context is up, the buffers hold the working set, channel and selection given,
\* coloured as categories exactly when they are, and the colour limits last sent are theirs;
\* a ring is drafted only while painting and sent with three points at least.
ScatterIsGiven ==
    /\ dots.gl = "up" =>
        /\ dots.buf = IF dots.ws = 0 THEN NoBuffers ELSE [ws |-> dots.ws, value |-> dots.channel, sel |-> dots.sel]
        /\ dots.uCluster = categorical(dots)
        /\ dots.ws # 0 /\ ~categorical(dots) => dots.limits = <<dots.ws, dots.channel>>
    /\ dots.draft > 0 => dots.paint
    /\ dots.sent # 0 => dots.sent >= 3
==============================================================================
