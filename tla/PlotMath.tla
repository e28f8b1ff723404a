------------------------------- MODULE PlotMath -------------------------------
(***************************************************************************)
(* The algorithms behind the force plots (packages/force-plotting/src): a  *)
(* decoded cache and its samples in time (liveCache.ts), the tool path     *)
(* drawn by the CPU and by the shader (path.ts, frmCloudShader.ts), the    *)
(* buckets, bins and colour limits of a signal (liveCache.ts,              *)
(* histogram.ts, liveCloud.ts), the difference of two cuts (compare.ts),   *)
(* the nearest sample under the pointer (hoverIndex.ts, cloudPick.ts) and  *)
(* the cut picker's list (diagPicker.ts). Each variable is one input that  *)
(* grows or changes step by step; the parameters an algorithm takes are    *)
(* quantified in the properties. Times, radii and values are integers, and *)
(* arrays start at 0 as in the code (At).                                  *)
(***************************************************************************)
EXTENDS Integers, SequencesExt, FiniteSetsExt

CONSTANTS
    MaxSamples,      \* samples of a cache
    SignalValues,          \* values of a signal
    GRID,            \* gridCloud's cells and histogramFrom's bins per axis
    MaxTime,         \* times of the compared cuts lie in 0..MaxTime
    MaxRows          \* rows of the cut picker

ASSUME PlotAssumption == MaxSamples \in Nat /\ SignalValues \subseteq Int /\ GRID \in Nat \ {0} /\ MaxTime \in Nat /\ MaxRows \in Nat

VARIABLES
    cut,             \* [t, revs]: the samples of a cache, in order
    sig,             \* the values of one channel
    file,            \* [n, version, names, words]: a cache file as downloaded, its size in 4-byte words
    cmp,             \* two cuts' envelopes and crops, and the zoomed window
    win,            \* [start, end, revealed]: the window of the signal charts
    rows             \* the rows of the cut picker, each with its group

cutVars == <<cut>>
sigVars == <<sig>>
fileVars == <<file>>
cmpVars == <<cmp>>
winVars == <<win>>
rowsVars == <<rows>>

At(s, i) == s[i + 1]
Larger(a, b) == IF a > b THEN a ELSE b
Smaller(a, b) == IF a < b THEN a ELSE b
CeilDiv(a, b) == (a + b - 1) \div b
Increasing(s) == \A i, j \in DOMAIN s : i < j => s[i] < s[j]

----------------------------------------------------------------------------
(* A cut's samples: time never runs backwards, nor does the tachometer.    *)

CutInit == cut = [t |-> <<>>, revs |-> <<>>]

AddSample(dt, dr) ==
    /\ Len(cut.t) < MaxSamples
    /\ LET last(s) == IF s = <<>> THEN 0 ELSE Last(s)
       IN cut' = [t |-> Append(cut.t, last(cut.t) + dt), revs |-> Append(cut.revs, last(cut.revs) + dr)]

CutNext == \E dt, dr \in {0, 1} : AddSample(dt, dr)

\* The first sample at or after sec, by bisection; the last one when there is none.
idxOfTime(t, sec) ==
    LET n == Len(t)
        search[lo \in 0..n, hi \in -1..(n - 1), ans \in 0..(n - 1)] ==
            IF lo > hi THEN ans
            ELSE LET m == (lo + hi) \div 2
                 IN IF At(t, m) >= sec THEN search[lo, m - 1, m] ELSE search[m + 1, hi, ans]
    IN IF n = 0 THEN -1 ELSE search[0, n - 1, n - 1]

normStride(stride) == Larger(1, stride)

\* Every stride-th sample, from the first.
pick(s, stride) == [k \in 1..CeilDiv(Len(s), stride) |-> At(s, (k - 1) * stride)]

decimateCache(c, stride) ==
    IF stride <= 1 THEN c ELSE [t |-> pick(c.t, stride), revs |-> pick(c.revs, stride)]

\* The shader's vertex attributes: the sample behind each vertex.
buildStaticAttributes(c, stride) ==
    [k \in 1..CeilDiv(Len(c.t), normStride(stride)) |-> (k - 1) * normStride(stride)]

\* The position of the crop start, where the spiral begins.
spiralAnchor(c, start) ==
    LET cs == idxOfTime(c.t, start)
    IN IF cs < 0 THEN [tCs |-> 0, revsCs |-> 0] ELSE [tCs |-> At(c.t, cs), revsCs |-> At(c.revs, cs)]

\* The radius at a sample: rho0 - feed * turns, or its square in constant surface speed (vc).
Radius(p, a, c, i) ==
    CASE p.mode = "vc" -> p.rho0 * p.rho0 - 2 * p.feed * (At(c.t, i) - a.tCs)
      [] p.mode = "rpm" -> p.rho0 - p.feed * (At(c.t, i) - a.tCs)
      [] OTHER -> p.rho0 - p.feed * (At(c.revs, i) - a.revsCs)

Cuts(p, a, c, i) == Radius(p, a, c, i) >= (IF p.mode = "vc" THEN p.inner * p.inner ELSE p.inner)

\* The samples of buildPath in its order: from the crop start, until the crop end or the inner radius.
PathFrom(c, w, Goes(_)) ==
    LET cs == idxOfTime(c.t, w.start)
        steps == {i \in cs..(Len(c.t) - 1) : (i - cs) % normStride(w.stride) = 0}
        ends == {i \in steps : At(c.t, i) > w.end \/ ~Goes(i)}
    IN IF c.t = <<>> THEN <<>> ELSE SetToSortSeq({i \in steps : \A e \in ends : i < e}, <)

buildTurningSpiral(c, p, w) == LET goes(i) == Cuts(p, spiralAnchor(c, w.start), c, i) IN PathFrom(c, w, goes)
buildLinearFeed(c, w) == LET goes(i) == TRUE IN PathFrom(c, w, goes)

\* Without one of the three position channels, or with one of another length, there is no path.
buildMachineXyz(c, w, chan) ==
    IF \A a \in DOMAIN chan : Len(chan[a]) = Len(c.t) THEN buildLinearFeed(c, w) ELSE <<>>

\* The vertices the shader shows: it hides each one by itself.
spiralRadiusInto(c, p, w, i) ==
    At(c.t, i) >= w.start /\ At(c.t, i) <= w.end /\ Cuts(p, spiralAnchor(c, w.start), c, i)

Drawn(c, p, w) == {i \in ToSet(buildStaticAttributes(c, w.stride)) : spiralRadiusInto(c, p, w, i)}

\* The vertices to search under the pointer: those of the crop, by index arithmetic.
phase0Samples(c, w) ==
    LET st == normStride(w.stride)
        lo == idxOfTime(c.t, w.start)
        at == idxOfTime(c.t, w.end)
        hi == IF At(c.t, at) > w.end THEN at - 1 ELSE at
    IN IF c.t = <<>> \/ w.end < w.start \/ At(c.t, lo) < w.start \/ hi < lo THEN {}
       ELSE {k * st : k \in CeilDiv(lo, st)..(hi \div st)}

NoRho == -99

\* The radius at a chart's time, looked up in a built path ...
alignRhoToBuckets(c, p, path, sec) ==
    LET j == idxOfTime(c.t, sec)
    IN IF path = <<>> \/ j < path[1] \/ j > Last(path) THEN NoRho
       ELSE Radius(p, [tCs |-> At(c.t, path[1]), revsCs |-> At(c.revs, path[1])], c, At(path, j - path[1]))

\* ... and without one, from where the spiral stops.
measuredRhoSpan(c, p, start) ==
    LET cs == idxOfTime(c.t, start)
        out == {i \in cs..(Len(c.t) - 1) : ~Cuts(p, spiralAnchor(c, start), c, i)}
    IN [cs |-> cs, end |-> IF out = {} THEN Len(c.t) ELSE Min(out)]

alignMeasuredRho(c, p, start, sec) ==
    LET span == measuredRhoSpan(c, p, start)
        j == idxOfTime(c.t, sec)
    IN IF span.end = span.cs \/ j < span.cs \/ j >= span.end THEN NoRho
       ELSE p.rho0 - p.feed * (At(c.revs, j) - At(c.revs, span.cs))

\* The samples the statistics panel counts.
computeSignalStats(c, w) ==
    LET i0 == idxOfTime(c.t, w.start)
        i1 == idxOfTime(c.t, w.end)
    IN i0..(IF At(c.t, i1) > w.end /\ i1 > i0 THEN i1 - 1 ELSE i1)

\* The sample nearest to x, by bisection; the earlier one of two.
nearestIndex(xs, x) ==
    LET n == Len(xs)
        search[a \in 0..(n - 1), b \in 0..(n - 1)] ==
            IF a >= b THEN a
            ELSE LET mid == (a + b) \div 2 IN IF At(xs, mid) < x THEN search[mid + 1, b] ELSE search[a, mid]
        a == search[0, n - 1]
    IN IF a > 0 /\ x - At(xs, a - 1) <= At(xs, a) - x THEN a - 1 ELSE a

----------------------------------------------------------------------------
(* One channel: its buckets, its bins and its colour limits.               *)

SigInit == sig = <<>>

SigNext == Len(sig) < MaxSamples /\ \E x \in SignalValues : sig' = Append(sig, x)

\* At most `buckets` runs of samples, each with its least and greatest value.
bucketEnvelope(s, buckets) ==
    LET stride == Larger(1, CeilDiv(Len(s), buckets))
        run(b) == {At(s, i) : i \in ((b - 1) * stride)..(Smaller(Len(s), b * stride) - 1)}
    IN [b \in 1..CeilDiv(Len(s), stride) |-> [min |-> Min(run(b)), max |-> Max(run(b))]]

\* The bin of a value; what is out of range goes to the edges.
Bin(x, lo, hi) ==
    LET i == IF hi > lo THEN ((x - lo) * GRID) \div (hi - lo) ELSE IF x > lo THEN GRID ELSE IF x < lo THEN -1 ELSE 0
    IN IF i < 0 THEN 0 ELSE IF i >= GRID THEN GRID - 1 ELSE i

histogramFrom(s, lo, hi) == [b \in 0..(GRID - 1) |-> Cardinality({i \in DOMAIN s : Bin(s[i], lo, hi) = b})]

\* percentile(sorted, p): its index is rounded, and at this length the ends are the extremes.
percentile(s, p) == LET k == (p * (Len(s) - 1) + 50) \div 100 IN At(SortSeq(s, <), k)

\* The colour limits of a channel, never empty.
computeAutoLimits(s) ==
    IF s = <<>> THEN <<0, 1>>
    ELSE LET lo == percentile(s, 1)
             hi == percentile(s, 99)
         IN IF hi > lo THEN <<lo, hi>>
            ELSE IF Max(ToSet(s)) > Min(ToSet(s)) THEN <<Min(ToSet(s)), Max(ToSet(s))>> ELSE <<Min(ToSet(s)), Min(ToSet(s)) + 1>>

\* The limits a cloud is coloured by: each given one, else the channel's.
buildCloudLimits(s, cmin, cmax) ==
    LET lo == IF cmin \in Int THEN cmin ELSE percentile(s, 1)
        hi == IF cmax \in Int THEN cmax ELSE percentile(s, 99)
    IN IF hi > lo THEN <<lo, hi>>
       ELSE IF Max(ToSet(s)) > Min(ToSet(s)) THEN <<Min(ToSet(s)), Max(ToSet(s))>> ELSE <<Min(ToSet(s)), Min(ToSet(s)) + 1>>

\* The cell of a point, per axis: the greatest coordinate belongs to the last cell.
gridCloud(s, x) ==
    LET wx == IF Max(ToSet(s)) > Min(ToSet(s)) THEN Max(ToSet(s)) - Min(ToSet(s)) ELSE 1
        g == ((x - Min(ToSet(s))) * GRID) \div wx
    IN IF g >= GRID THEN GRID - 1 ELSE g

----------------------------------------------------------------------------
(* A cache file: a header, six arrays, and from version 2 named ones.      *)

Known == {"Mz", "X"}
Base(f) == 8 + 6 * f.n
\* Where the trailer's k-th channel begins and ends: its name takes two words.
RecordEnds(f, k) == Base(f) + 1 + k * (2 + f.n)
Whole(f) == IF f.version >= 2 THEN RecordEnds(f, Len(f.names)) ELSE Base(f)

FileInit ==
    \E n \in 0..2, version \in {1, 2}, names \in BoundedSeq({"Mz", "X", "other"}, 2) :
        file = LET f == [n |-> n, version |-> version, names |-> names, words |-> 0] IN [f EXCEPT !.words = Whole(f)]

\* The download, or the disk, ends short.
Truncated == file.words > 8 /\ file' = [file EXCEPT !.words = @ - 1]
FileNext == Truncated

\* The channels that are read: every whole one, up to the first that is not; an error when the six are not all there.
parseCache(f) ==
    IF Base(f) > f.words THEN {"error"}
    ELSE IF f.version < 2 \/ Base(f) + 1 > f.words THEN {}
    ELSE {f.names[k] : k \in {k \in DOMAIN f.names : \A j \in 1..k : RecordEnds(f, j) <= f.words}} \intersect Known

----------------------------------------------------------------------------
(* Two cuts compared: their difference inside both crops and the zoom.     *)

Instants == 0..MaxTime
NoWindow == [start |-> 0, end |-> -1]
IsWindow(w) == w # NoWindow

\* An override replaces the detected cut only when both its ends are set; an empty window is none.
cropWindowSec(row) ==
    LET chosen == IF IsWindow(row.override) THEN row.override ELSE row.detected
    IN IF chosen.end > chosen.start THEN chosen ELSE NoWindow

\* Null windows do not restrict; the result may be empty.
intersectWindows(ws) ==
    LET given == {k \in DOMAIN ws : IsWindow(ws[k])}
    IN IF given = {} THEN NoWindow
       ELSE [start |-> Max({ws[k].start : k \in given}), end |-> Min({ws[k].end : k \in given})]

\* The zoomed ends may come in either order.
diffWindow(c, zoomed, a, b) ==
    intersectWindows(<<cropWindowSec(c.current), cropWindowSec(c.reference),
        IF zoomed THEN [start |-> Smaller(a, b), end |-> Larger(a, b)] ELSE NoWindow>>)

\* The times the difference is taken at (one per unit), or none.
diffEnvelopes(c, window) ==
    LET lo == Max({c.current.from, c.reference.from} \union (IF IsWindow(window) THEN {window.start} ELSE {}))
        hi == Min({c.current.to, c.reference.to} \union (IF IsWindow(window) THEN {window.end} ELSE {}))
    IN IF hi > lo THEN lo..(hi - 1) ELSE {}

\* The cursor of interp() at each x in turn: the interval of xp it interpolates in.
Cursor(xs, xp) ==
    LET j[i \in 0..Len(xs)] ==
            IF i = 0 THEN 0
            ELSE IF xs[i] <= xp[1] \/ xs[i] >= Last(xp) THEN j[i - 1]
            ELSE Min({k \in j[i - 1]..(Len(xp) - 2) : k = Len(xp) - 2 \/ At(xp, k + 1) >= xs[i]})
    IN j

CmpInit ==
    \E a, b \in Instants : a < b
        /\ cmp = [current |-> [from |-> 0, to |-> MaxTime, override |-> NoWindow, detected |-> [start |-> a, end |-> b]],
                  reference |-> [from |-> a, to |-> MaxTime, override |-> NoWindow, detected |-> NoWindow],
                  zoomed |-> FALSE, a |-> 0, b |-> 0]

Crop(a, b) == cmp' = [cmp EXCEPT !.current.override = [start |-> a, end |-> b]]
CropReference(a, b) == cmp' = [cmp EXCEPT !.reference.override = [start |-> a, end |-> b]]
Zoom(a, b) == cmp' = [cmp EXCEPT !.zoomed = TRUE, !.a = a, !.b = b]

CmpNext == \E a, b \in Instants : Crop(a, b) \/ CropReference(a, b) \/ Zoom(a, b)

----------------------------------------------------------------------------
(* "Show in charts": the window is moved to a point that it does not show. *)

Span == 2 * MaxTime
NoReveal == -1

WinInit == \E s, e \in 0..Span : s < e /\ (e - s) % 2 = 0 /\ win = [start |-> s, end |-> e, revealed |-> NoReveal]

recentreWindow(v, t) ==
    LET w == v.end - v.start
        s == t - w \div 2
        atMin == IF s < 0 THEN 0 ELSE s
        atMax == IF atMin + w > Span THEN Span - w ELSE atMin
    IN IF t >= v.start /\ t <= v.end THEN [start |-> v.start, end |-> v.end]
       ELSE IF w >= Span THEN [start |-> 0, end |-> Span]
       ELSE [start |-> atMax, end |-> atMax + w]

RevealTime(t) ==
    win' = [start |-> recentreWindow(win, t).start, end |-> recentreWindow(win, t).end, revealed |-> t]

WinNext == \E t \in 0..Span : RevealTime(t)

----------------------------------------------------------------------------
(* The cut picker: rows in groups, the ungrouped ones last, cut to a limit. *)

NoGroup == "none"
Groups == {"s1", "s2", NoGroup}

RowsInit == rows = <<>>
RowsNext == Len(rows) < MaxRows /\ \E g \in Groups : rows' = Append(rows, [id |-> Len(rows) + 1, group |-> g])

\* In the order of their first row.
groupRows(rs) ==
    LET first(g) == Min({i \in DOMAIN rs : rs[i].group = g})
        used == {rs[i].group : i \in DOMAIN rs} \ {NoGroup}
        named == SetToSortSeq(used, LAMBDA g, h : first(g) < first(h))
        order == IF \E i \in DOMAIN rs : rs[i].group = NoGroup THEN Append(named, NoGroup) ELSE named
    IN [k \in DOMAIN order |-> SelectSeq(rs, LAMBDA r : r.group = order[k])]

\* Whole groups while they fit, then the beginning of one; the rest is counted.
windowGroups(gs, limit) ==
    LET before[k \in 0..Len(gs)] == IF k = 0 THEN 0 ELSE before[k - 1] + Len(gs[k])
        left(k) == Larger(0, limit - before[k - 1])
        shown == [k \in DOMAIN gs |-> SubSeq(gs[k], 1, Smaller(left(k), Len(gs[k])))]
    IN [groups |-> SelectSeq(shown, LAMBDA g : g # <<>>), hidden |-> Larger(0, before[Len(gs)] - Larger(0, limit))]

----------------------------------------------------------------------------

Windows(c) == {[start |-> a, end |-> b, stride |-> s] : a, b \in 0..(MaxSamples + 1), s \in {1, 2}}
Spirals == {[mode |-> m, feed |-> f, rho0 |-> 2, inner |-> i] : m \in {"measured", "rpm", "vc"}, f \in {0, 1}, i \in {0, 1}}

\* Type invariant.
MathTypeOK ==
    /\ Len(cut.t) = Len(cut.revs) /\ ToSet(sig) \subseteq SignalValues
    /\ file.words \in Nat /\ win.start \in Int /\ win.end \in Int /\ Len(rows) <= MaxRows

\* The bisections find what a search from the start would: the first sample at or after a time, else the last (liveCache.ts, idxOfTime), and a nearest one (hoverIndex.ts, nearestIndex).
SearchIsLinear ==
    \A sec \in 0..(MaxSamples + 1) : cut.t # <<>> =>
        LET later == {i \in 0..(Len(cut.t) - 1) : At(cut.t, i) >= sec}
            far(i) == IF At(cut.t, i) > sec THEN At(cut.t, i) - sec ELSE sec - At(cut.t, i)
        IN /\ idxOfTime(cut.t, sec) = IF later = {} THEN Len(cut.t) - 1 ELSE Min(later)
           /\ \A i \in 0..(Len(cut.t) - 1) : far(nearestIndex(cut.t, sec)) <= far(i)

\* The shader, which hides each vertex by itself, draws the path the CPU builds up to its first stop, whenever the crop begins inside the cache (frmCloudShader.ts, path.ts).
ShaderDrawsPath ==
    \A w \in Windows(cut), p \in Spirals :
        cut.t # <<>> /\ w.start <= Last(cut.t) /\ w.stride = 1 =>
            Drawn(cut, p, w) = ToSet(buildTurningSpiral(cut, p, w))

\* Does not hold (README, section 5): a crop that begins after the last sample still has that sample in the CPU's path (liveCache.ts, 19-22; path.ts, 71).
PathStaysInCrop == \A w \in Windows(cut) : \A i \in ToSet(buildLinearFeed(cut, w)) : At(cut.t, i) >= w.start

\* The vertices searched under the pointer, and the samples of the statistics, are those of the crop, while no time repeats (frmCloudShader.ts, phase0Samples; signalStats.ts).
CropByIndex ==
    \A w \in Windows(cut) :
        LET inside == {i \in 0..(Len(cut.t) - 1) : At(cut.t, i) >= w.start /\ At(cut.t, i) <= w.end}
        IN Increasing(cut.t) =>
            /\ phase0Samples(cut, w) = {i \in inside : i % w.stride = 0}
            /\ inside # {} => computeSignalStats(cut, w) = inside

\* Does not hold (README, section 5): two samples whose times are the same 32-bit number at the end of the crop are not both searched or counted (frmCloudShader.ts, 201; signalStats.ts, 99).
CropByIndexAlways == \A w \in Windows(cut) : w.stride = 1 => ToSet(buildLinearFeed(cut, w)) \subseteq phase0Samples(cut, w)

\* The radius axis computed without a path is the one looked up in it, at every time and crop start (path.ts, 149-158).
RhoNeedsNoPath ==
    \A p \in Spirals, start, sec \in 0..(MaxSamples + 1) :
        p.mode = "measured" /\ cut.t # <<>> =>
            alignMeasuredRho(cut, p, start, sec)
                = alignRhoToBuckets(cut, p, buildTurningSpiral(cut, p, [start |-> start, end |-> Last(cut.t), stride |-> 1]), sec)

\* A decimated cache has the samples of the shader's attributes (liveCache.ts, decimateCache).
DecimatedIsDrawn ==
    \A s \in 1..3 : decimateCache(cut, s).t = [k \in DOMAIN buildStaticAttributes(cut, s) |-> At(cut.t, buildStaticAttributes(cut, s)[k])]

\* However long the channel, its envelope has no more than the asked buckets and loses neither a peak nor a sample (liveCache.ts, bucketEnvelope and buildSeriesEnvelope).
EnvelopeKeepsPeaks ==
    \A buckets \in 1..3 : sig # <<>> =>
        LET e == bucketEnvelope(sig, buckets) IN
        /\ Len(e) <= buckets
        /\ Min({e[b].min : b \in DOMAIN e}) = Min(ToSet(sig)) /\ Max({e[b].max : b \in DOMAIN e}) = Max(ToSet(sig))
        /\ \A x \in ToSet(sig) : \E b \in DOMAIN e : e[b].min <= x /\ x <= e[b].max

\* Every value is in one bin, colour limits are never empty, and a point is within half a cell of its cell's centre (histogram.ts, liveCloud.ts).
BinsAndLimits ==
    sig # <<>> =>
        /\ LET h == histogramFrom(sig, computeAutoLimits(sig)[1], computeAutoLimits(sig)[2])
           IN FoldSet(LAMBDA b, n : h[b] + n, 0, 0..(GRID - 1)) = Len(sig)
        /\ computeAutoLimits(sig)[1] < computeAutoLimits(sig)[2]
        /\ \A lo, hi \in SignalValues : buildCloudLimits(sig, lo, hi)[1] < buildCloudLimits(sig, lo, hi)[2]
        /\ \A x \in ToSet(sig) :
            LET wx == IF Max(ToSet(sig)) > Min(ToSet(sig)) THEN Max(ToSet(sig)) - Min(ToSet(sig)) ELSE 1
                off == 2 * GRID * (x - Min(ToSet(sig))) - (2 * gridCloud(sig, x) + 1) * wx
            IN off <= wx /\ off >= -wx

\* From a file cut short no channel is read beyond its end, and a whole one gives every known channel (liveCache.ts, parseCache).
NoChannelBeyondFile ==
    /\ file.words = Whole(file) => parseCache(file) = IF file.version >= 2 THEN ToSet(file.names) \intersect Known ELSE {}
    /\ \A k \in DOMAIN file.names :
        file.names[k] \in parseCache(file) => \E j \in DOMAIN file.names : file.names[j] = file.names[k] /\ RecordEnds(file, j) <= file.words

\* The difference of two cuts is taken exactly where both have data, inside both crops and the zoom, whichever way it was dragged (compare.ts).
DiffInsideWindows ==
    LET both(x) ==
            /\ \A r \in {cmp.current, cmp.reference} :
                /\ x >= r.from /\ x <= r.to
                /\ IsWindow(cropWindowSec(r)) => x >= cropWindowSec(r).start /\ x <= cropWindowSec(r).end
            /\ cmp.zoomed => x >= Smaller(cmp.a, cmp.b) /\ x <= Larger(cmp.a, cmp.b)
    IN diffEnvelopes(cmp, diffWindow(cmp, cmp.zoomed, cmp.a, cmp.b)) = {x \in Instants : both(x) /\ both(x + 1)}

\* The moving cursor of interp() brackets every x that lies inside the samples (compare.ts, 23-45).
CursorBrackets ==
    Increasing(cut.t) /\ Len(cut.t) >= 2 =>
        LET xs == [i \in 1..(MaxSamples + 2) |-> i - 1] IN
        \A i \in DOMAIN xs : xs[i] > cut.t[1] /\ xs[i] < Last(cut.t) =>
            LET j == Cursor(xs, cut.t)[i] IN At(cut.t, j) < xs[i] /\ xs[i] <= At(cut.t, j + 1)

\* A point shown in the charts is inside the window, the window inside the recording (cloudPick.ts, recentreWindow).
RevealedIsShown ==
    /\ win.start >= 0 /\ win.end <= Span
    /\ win.revealed # NoReveal => win.revealed >= win.start /\ win.revealed <= win.end

\* No row of the picker is lost: what a limit hides is counted, and what is shown is the beginning of the full list (diagPicker.ts).
NoRowHiddenUncounted ==
    \A limit \in 0..MaxRows :
        LET all == FlattenSeq(groupRows(rows))
            w == windowGroups(groupRows(rows), limit)
        IN /\ IsPrefix(FlattenSeq(w.groups), all) /\ Len(FlattenSeq(w.groups)) + w.hidden = Len(all)
           /\ Len(all) = Len(rows) /\ ToSet(all) = ToSet(rows)
===============================================================================
