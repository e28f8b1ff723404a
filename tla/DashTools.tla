------------------------------ MODULE DashTools ------------------------------
(***************************************************************************)
(* The tools around the force dashboard's plots                            *)
(* (packages/force-plotting/src): the colour scale and its editor          *)
(* (colorScale.ts, scaleHandles.ts, ColorScaleEditor.vue,                  *)
(* autoColorScale.ts), the metadata doctor (metadataDoctor.ts), the layout *)
(* of the right-hand panels, the resident caches (liveCache.ts) and the    *)
(* cutting metrics (cuttingMetrics.ts), as ForceDashboard.vue uses them.   *)
(* Values are integers: UNIT stands for 1, eps for the editor's smallest   *)
(* step, OPEN_DISP for 1e20.                                               *)
(***************************************************************************)
EXTENDS Integers, SequencesExt, FiniteSetsExt

CONSTANTS
    DataRanges,      \* automatic ranges the data can have, <<lo, hi>>
    TypedValues,     \* numbers typed into a field
    Pixels,          \* where the pointer can be, of 0..STRIP
    MaxScaleSteps,   \* edits and reports of the colour scale
    MaxDoctorSteps,  \* steps of the metadata doctor
    MaxPanels,       \* panels of the right-hand area
    MaxLayoutSteps,  \* layout edits
    CacheIds,        \* caches that can be fetched
    MEM_CAP          \* resident caches

ASSUME ToolsAssumption == MEM_CAP \in Nat \ {0} /\ MaxPanels \in Nat \ {0, 1}

VARIABLES
    scale,           \* the colour scale, its lock, the automatic range and the editor
    doc,             \* the doctor's row, what is stored of it and what the page shows
    grid,             \* the right-hand panels, the stored layout and the pending saves
    ops,             \* the rows of the operations list
    mem,             \* the resident caches, oldest first, and the stored axis maps
    met              \* inputs of the cutting metrics

scaleVars == <<scale>>
docVars == <<doc>>
gridVars == <<grid>>
opsVars == <<ops>>
memVars == <<mem>>
metVars == <<met>>

----------------------------------------------------------------------------
(* The colour scale.                                                       *)

UNIT == 4
eps == 1
OPEN_DISP == 1000
NaN == 9999          \* a cleared field, or no number
STRIP == 40          \* width of the strip, px
HIT_PX == 4
NoRange == <<NaN, NaN>>
Open == <<-OPEN_DISP, OPEN_DISP>>
Handles == {"satMin", "satMax", "dispMin", "dispMax"}
Flags == {"satMin", "satMax"}
Lows == {"satMin", "dispMin"}
AbsOf(v) == IF v < 0 THEN -v ELSE v
Ordered(r) == r[1] # NaN /\ r[2] # NaN /\ r[1] < r[2]

defaultScale == [sat |-> <<0, UNIT>>, base |-> <<0, UNIT>>, disp |-> Open, sym |-> FALSE, zero |-> FALSE]

shapeRange(r, sym, zero) ==
    LET M == Max({AbsOf(r[1]), AbsOf(r[2])})
        m == IF sym THEN <<-M, M>> ELSE r
    IN IF zero THEN <<Min({m[1], 0}), Max({m[2], 0})>> ELSE m

isDerivedFrom(sat, base) == \E sym, zero \in BOOLEAN : sat = shapeRange(base, sym, zero)

applyParams(s, data) ==
    LET lo == IF s.sat[1] # NaN THEN s.sat[1]
              ELSE IF s.sat[2] = NaN \/ data[1] < s.sat[2] THEN data[1] ELSE s.sat[2] - UNIT
        hi == IF s.sat[2] # NaN THEN s.sat[2] ELSE IF data[2] > lo THEN data[2] ELSE lo + UNIT
        range == IF lo < hi THEN <<lo, hi>> ELSE IF Ordered(data) THEN data ELSE <<0, UNIT>>
        base == IF Ordered(s.base) /\ isDerivedFrom(range, s.base) THEN s.base ELSE range
        sat == shapeRange(base, s.sym, s.zero)
        disp == [i \in 1..2 |-> IF s.disp[i] = NaN THEN Open[i] ELSE s.disp[i]]
    IN [s EXCEPT !.sat = sat, !.base = base, !.disp = IF Ordered(disp) THEN disp ELSE sat]

withAutoRange(s, r) == applyParams([s EXCEPT !.sat = r, !.base = r], r)

\* Dragging a handle to a value.
DragSat(s, i, v) ==
    LET j == 3 - i
        sign == IF i = 1 THEN -1 ELSE 1
        m == Max({AbsOf(v), eps})
        fit == IF j = 1 THEN Max({s.base[1], -m}) ELSE Min({s.base[2], m})
        mirrored == [s.base EXCEPT ![i] = sign * m, ![j] = fit]
        w == IF i = 1 THEN Min({v, s.sat[2] - eps}) ELSE Max({v, s.sat[1] + eps})
        passed == IF i = 1 THEN s.base[2] < w + eps ELSE s.base[1] > w - eps
        width == s.base[2] - s.base[1]
    IN IF s.sym THEN [s EXCEPT !.sat = <<-m, m>>, !.base = IF Ordered(mirrored) THEN mirrored ELSE <<-m, m>>]
       ELSE [s EXCEPT !.sat[i] = w, !.base = IF passed THEN [s.base EXCEPT ![i] = w, ![j] = w - sign * width]
                                             ELSE [s.base EXCEPT ![i] = w]]

EndOf(key) == IF key \in Lows THEN 1 ELSE 2

handleDragPatch(s, key, v) ==
    IF key \in Flags THEN DragSat(s, EndOf(key), v)
    ELSE IF key = "dispMin" THEN [s EXCEPT !.disp[1] = Min({v, s.disp[2] - eps})]
    ELSE [s EXCEPT !.disp[2] = Max({v, s.disp[1] + eps})]

typedPatch(s, key, v) ==
    LET i == EndOf(key)
    IN IF key \notin Flags THEN [s EXCEPT !.disp[i] = v]
       ELSE IF s.sym /\ v # NaN THEN DragSat(s, i, v)
       ELSE [s EXCEPT !.sat[i] = v, !.base[i] = v]

\* The automatic range in force, and the axis under the editor's strip.
currentAuto(x) == IF x.auto # NoRange THEN x.auto ELSE x.cache
Domain(x) == IF currentAuto(x) # NoRange THEN currentAuto(x) ELSE <<0, UNIT>>
AxisOf(x) == <<Min({Domain(x)[1], x.s.sat[1]}), Max({Domain(x)[2], x.s.sat[2]})>>

\* The axis follows a change of the data or of the range, except during a drag.
Watched(x) ==
    [x EXCEPT !.axis = IF x.dragging = "" /\ <<Domain(x), x.s.sat>> # <<Domain(scale), scale.s.sat>> THEN AxisOf(x) ELSE @,
              !.steps = @ + 1]

commit(x, patched, editsRange) ==
    LET next == applyParams(patched, x.axis)
    IN [x EXCEPT !.s = next, !.locked = @ \/ (editsRange /\ next.sat # x.s.sat)]

seed(x, r) == [x EXCEPT !.s = withAutoRange(@, r)]
unlock(x) ==
    LET y == [x EXCEPT !.locked = FALSE]
    IN IF x.locked /\ currentAuto(x) # NoRange THEN seed(y, currentAuto(x)) ELSE y

\* pickHandle: the nearest handle within reach; where several share a place, the circle in the
\* middle band and the flag elsewhere, then the end on the pointer's side.
PlaceOf(x, key) ==
    LET v == IF key \in Flags THEN x.s.sat[EndOf(key)] ELSE x.s.disp[EndOf(key)]
        c == Max({x.axis[1], Min({x.axis[2], v})})
        span == IF x.axis[2] > x.axis[1] THEN x.axis[2] - x.axis[1] ELSE 1
    IN ((c - x.axis[1]) * STRIP) \div span

pickHandle(x, px, inBand) ==
    LET dist(k) == AbsOf(PlaceOf(x, k) - px)
        near == {k \in Handles : dist(k) <= HIT_PX}
        tied == {k \in near : \A l \in near : dist(k) <= dist(l) + 1}
        styled == {k \in tied : (k \notin Flags) = inBand}
        group == IF styled = {} THEN tied ELSE styled
        first(S) == CHOOSE k \in S : k \in Flags \/ S \cap Flags = {}
        lows == group \cap Lows
        highs == group \ Lows
        at == PlaceOf(x, IF lows # {} THEN first(lows) ELSE first(highs))
    IN IF near = {} THEN ""
       ELSE IF Cardinality(group) = 1 THEN CHOOSE k \in group : TRUE
       ELSE IF px > at /\ highs # {} THEN first(highs)
       ELSE IF px < at /\ lows # {} THEN first(lows)
       ELSE IF x.last \in group THEN x.last
       ELSE IF highs # {} THEN first(highs) ELSE first(lows)

pxToValue(x, px) == x.axis[1] + (px * (x.axis[2] - x.axis[1])) \div STRIP

updateDrag(x, px) == commit(x, handleDragPatch(x.s, x.dragging, pxToValue(x, px)), x.dragging \in Flags)

ScaleInit ==
    \E r \in DataRanges \cup {NoRange} :
       LET x == [s |-> defaultScale, locked |-> FALSE, auto |-> NoRange, cache |-> r, axis |-> <<0, UNIT>>,
                 dragging |-> "", last |-> "", steps |-> 0]
           y == IF r = NoRange THEN x ELSE seed(x, r)
       IN scale = [y EXCEPT !.axis = AxisOf(y)]

StripDown(px, inBand) ==
    /\ scale.dragging = "" /\ pickHandle(scale, px, inBand) # ""
    /\ LET key == pickHandle(scale, px, inBand)
       IN scale' = Watched(updateDrag([scale EXCEPT !.dragging = key, !.last = key], px))

StripMove(px) == scale.dragging # "" /\ scale' = Watched(updateDrag(scale, px))
StripUp == scale.dragging # "" /\ scale' = [scale EXCEPT !.dragging = ""]
TypeEnd(key, v) == scale.dragging = "" /\ scale' = Watched(commit(scale, typedPatch(scale.s, key, v), key \in Flags))
SetSymmetrical(b) == scale.dragging = "" /\ b # scale.s.sym /\ scale' = Watched(commit(scale, [scale.s EXCEPT !.sym = b], FALSE))
SetShowZero(b) == scale.dragging = "" /\ b # scale.s.zero /\ scale' = Watched(commit(scale, [scale.s EXCEPT !.zero = b], FALSE))
LockScale == ~scale.locked /\ scale' = Watched([scale EXCEPT !.locked = TRUE])
UnlockScale == scale.locked /\ scale' = Watched(unlock(scale))

\* A renderer reports the range of its data; a filter chain becomes active (the same unlock).
onClimits(r) ==
    /\ r # scale.auto
    /\ LET x == [scale EXCEPT !.auto = r] IN scale' = Watched(IF scale.locked THEN x ELSE seed(x, r))

\* Another operation or channel: nothing reported yet, its cache resident or not.
SwitchData(r) ==
    LET x == [scale EXCEPT !.auto = NoRange, !.cache = r, !.s.disp = Open]
    IN scale' = Watched(IF scale.locked \/ r = NoRange THEN x ELSE seed(x, r))

CacheArrives(r) ==
    /\ scale.cache = NoRange
    /\ LET x == [scale EXCEPT !.cache = r]
       IN scale' = Watched(IF scale.locked \/ scale.auto # NoRange THEN x ELSE seed(x, r))

ScaleNext ==
    \/ StripUp
    \/ /\ scale.steps < MaxScaleSteps
       /\ \/ \E px \in Pixels : (\E inBand \in BOOLEAN : StripDown(px, inBand)) \/ StripMove(px)
          \/ \E key \in Handles, v \in TypedValues \cup {NaN} : TypeEnd(key, v)
          \/ \E b \in BOOLEAN : SetSymmetrical(b) \/ SetShowZero(b)
          \/ LockScale \/ UnlockScale
          \/ \E r \in DataRanges : onClimits(r) \/ CacheArrives(r)
          \/ \E r \in DataRanges \cup {NoRange} : SwitchData(r)

\* Whatever is dragged or typed, no range of the scale is empty or upside down, and the ramp is what
\* symmetrical and always-show-zero make of the range underneath (colorScale.ts, applyParams).
ScaleIsShaped ==
    /\ Ordered(scale.s.sat) /\ Ordered(scale.s.base) /\ Ordered(scale.s.disp)
    /\ scale.s.sat = shapeRange(scale.s.base, scale.s.sym, scale.s.zero)

\* Every pointer position within reach of a handle grabs one, and never one more than a pixel
\* farther than another (scaleHandles.ts, pickHandle).
GrabIsNearest ==
    \A px \in Pixels, inBand \in BOOLEAN :
       LET k == pickHandle(scale, px, inBand)
           dist(l) == AbsOf(PlaceOf(scale, l) - px)
       IN /\ k = "" => \A l \in Handles : dist(l) > HIT_PX
          /\ k # "" => \A l \in Handles : dist(k) <= dist(l) + 1

\* Ticking or unticking a shaping parameter never loses the range underneath: unticking gives back
\* what was there (colorScale.ts, baseMin and baseMax).
ShapingKeepsBase == [][scale'.s.sym # scale.s.sym \/ scale'.s.zero # scale.s.zero => scale'.s.base = scale.s.base]_scale

\* A locked range is not moved by new data: a report, a cache that arrives, another operation
\* (autoColorScale.ts, onClimits; ForceDashboard.vue, the watch on the automatic range).
LockedIsKept ==
    [][scale.locked /\ scale'.locked /\ <<scale'.auto, scale'.cache>> # <<scale.auto, scale.cache>> => scale'.s.sat = scale.s.sat]_scale

\* Does not hold (README, section 5): an unlocked scale shows the automatic range. An edit that
\* changes only the range underneath does not lock (ColorScaleEditor.vue:83).
UnlockedFollowsData ==
    ~scale.locked /\ currentAuto(scale) # NoRange => scale.s.sat = shapeRange(currentAuto(scale), scale.s.sym, scale.s.zero)

\* Does not hold (README, section 5): dragging one end leaves the other where it is, unless the
\* scale is symmetrical (scaleHandles.ts:105, 108).
DragMovesOneEnd ==
    [][scale'.dragging \in Flags /\ ~scale.s.sym /\ scale'.s # scale.s =>
         LET other == 3 - EndOf(scale'.dragging) IN scale'.s.sat[other] = scale.s.sat[other]]_scale

\* Does not hold (README, section 5): between drags the saturation handles lie on the axis; the
\* release of a drag does not bring the axis up to date (ColorScaleEditor.vue:66).
HandlesOnAxis ==
    scale.dragging = "" => scale.axis[1] <= scale.s.sat[1] /\ scale.s.sat[2] <= scale.axis[2]

----------------------------------------------------------------------------
(* The metadata doctor: what it finds in a row, and the dismissals.        *)

Pairs == {"feed", "diam"}
CHECKED == {"name", "date"}     \* DOCTOR_OPTIONAL
Blank == 0

Found(id, sev, sig) == {[id |-> id, sev |-> sev, sig |-> sig]}

diagnose(row, optional) ==
    (IF row.linked THEN {} ELSE Found(<<"link">>, 2, <<"none">>))
    \cup UNION {IF (p = "diam" /\ row.outer) \/ row.mat[p] = Blank THEN {}
                ELSE IF row.db[p] = Blank THEN Found(<<"missing", p>>, 1, <<row.mat[p]>>)
                ELSE IF row.db[p] # row.mat[p] THEN Found(<<"conflict", p>>, 3, <<row.mat[p], row.db[p]>>)
                ELSE {} : p \in Pairs}
    \cup (IF row.crop = "short" THEN Found(<<"crop">>, 2, <<row.crop>>) ELSE {})
    \cup (IF "name" \in optional /\ row.linked /\ row.name # row.db["feed"] THEN Found(<<"name">>, 1, <<row.name, row.db["feed"]>>) ELSE {})
    \cup (IF "date" \in optional /\ row.apart THEN Found(<<"date">>, 1, <<"days">>) ELSE {})

\* A dismissal holds for the values it was given for.
Dismissed(f, dismissals) == <<f.id, f.sig>> \in dismissals
activeFindings(row, optional, dismissals) == {f \in diagnose(row, optional) : ~Dismissed(f, dismissals)}
worstSeverity(row, optional, dismissals) ==
    LET active == activeFindings(row, optional, dismissals) IN IF active = {} THEN 0 ELSE Max({f.sev : f \in active})

DocInit ==
    \E outer, apart \in BOOLEAN, name \in {0, 1} :
    doc = [row |-> [linked |-> TRUE, outer |-> outer, mat |-> [p \in Pairs |-> 1], db |-> [p \in Pairs |-> Blank],
                    crop |-> "full", name |-> name, apart |-> apart],
           stored |-> {}, shown |-> {}, listed |-> {}, gen |-> 1, open |-> TRUE, flying |-> {}, busy |-> <<>>,
           optional |-> {}, said |-> {}, crossed |-> FALSE, err |-> FALSE, steps |-> 0]

setDismissed(f, on) ==
    /\ doc.open /\ doc.busy # f.id /\ Dismissed(f, doc.shown) # on
    /\ LET others == {d \in doc.shown : d[1] # f.id}
           next == IF on THEN others \cup {<<f.id, f.sig>>} ELSE others
       IN doc' = [doc EXCEPT !.busy = f.id, !.err = FALSE, !.steps = @ + 1,
                             !.flying = @ \cup {[payload |-> next, gen |-> doc.gen, state |-> "sent", n |-> doc.steps]},
                             !.said = IF on THEN @ \cup {<<f.id, f.sig>>} ELSE @,
                             !.crossed = @ \/ doc.flying # {}]

PatchServed(p, answer) ==
    /\ p.state = "sent"
    /\ doc' = [doc EXCEPT !.flying = (@ \ {p}) \cup {[p EXCEPT !.state = answer]},
                          !.stored = IF answer = "refused" THEN @ ELSE p.payload,
                          !.crossed = @ \/ answer = "lost"]

PatchAnswered(p) ==
    /\ p.state # "sent"
    /\ doc' = [doc EXCEPT !.flying = @ \ {p}, !.busy = <<>>, !.err = @ \/ p.state # "kept",
                          !.shown = IF p.state = "kept" /\ p.gen = doc.gen THEN p.payload ELSE @,
                          !.listed = IF p.state = "kept" THEN p.payload ELSE @]

\* The operation's values change (an adopted value saved, a crop set, a sample linked).
ChangeRow ==
    /\ doc.steps < MaxDoctorSteps
    /\ \/ \E p \in Pairs, v \in 0..2 : doc' = [doc EXCEPT !.row.db[p] = v, !.steps = @ + 1]
       \/ doc' = [doc EXCEPT !.row.linked = ~@, !.steps = @ + 1]
       \/ doc' = [doc EXCEPT !.row.crop = IF @ = "full" THEN "short" ELSE "full", !.steps = @ + 1]

toggleOptionalCheck(c) ==
    doc' = [doc EXCEPT !.optional = IF c \in @ THEN @ \ {c} ELSE @ \cup {c}, !.steps = @ + 1]

LeaveOp == doc.open /\ doc' = [doc EXCEPT !.open = FALSE, !.gen = @ + 1, !.steps = @ + 1, !.crossed = @ \/ doc.flying # {}]
SelectOp == ~doc.open /\ doc' = [doc EXCEPT !.open = TRUE, !.shown = doc.stored]

DocNext ==
    \/ \E p \in doc.flying : PatchAnswered(p) \/ \E answer \in {"kept", "refused", "lost"} : PatchServed(p, answer)
    \/ ChangeRow \/ SelectOp
    \/ /\ doc.steps < MaxDoctorSteps
       /\ \/ \E f \in diagnose(doc.row, doc.optional), on \in BOOLEAN : setDismissed(f, on)
          \/ \E c \in CHECKED : toggleOptionalCheck(c)
          \/ LeaveOp

\* A finding is hidden only if somebody dismissed it for the very values it has now: whatever is
\* edited, reverted or answered late, a changed value brings it back (metadataDoctor.ts, push).
HiddenWasDismissed ==
    doc.open => \A f \in diagnose(doc.row, doc.optional) : Dismissed(f, doc.shown) => <<f.id, f.sig>> \in doc.said

\* The badge of a row and its findings agree: it is shown when an active finding exists, with the
\* worst of their severities, also while a dismissal is on its way (ForceDashboard.vue, doctorQuality).
BadgeIsWorst ==
    LET worst == worstSeverity(doc.row, doc.optional, doc.listed)
    IN \A f \in diagnose(doc.row, doc.optional) : f.sev > worst => Dismissed(f, doc.listed)

\* Dismissals sent one at a time are stored as they are shown (ForceDashboard.vue, setDismissed).
LoneDismissalKept ==
    doc.flying = {} /\ ~doc.crossed => doc.listed = doc.stored /\ (doc.open => doc.shown = doc.stored)

\* Does not hold (README, section 5): what is shown as dismissed is stored so. Two dismissals sent
\* together each write the whole column (ForceDashboard.vue:1593, 3075).
ShownIsStored == doc.flying = {} /\ ~doc.err /\ doc.open => doc.shown = doc.stored

----------------------------------------------------------------------------
(* The operations list: filtered, and sorted by pass number, then by code. *)

NoNumber == 99
OpsInit == ops = [rows |-> <<>>, only |-> FALSE]

NewRow(r) == Len(ops.rows) < MaxPanels /\ ops' = [ops EXCEPT !.rows = Append(@, r)]
ToggleIssuesOnly == ops' = [ops EXCEPT !.only = ~@]

\* byPassCode is below 0: by number, by code within one number; two rows without a number compare
\* as NaN, which sort takes for equal.
Before(a, b) == a.num < b.num \/ (a.num = b.num /\ a.num # NoNumber /\ a.code < b.code)

displayedOps(x) ==
    LET list == SelectSeq(x.rows, LAMBDA r : x.only => r.issues)
        place(i) == 1 + Cardinality({j \in DOMAIN list : Before(list[j], list[i]) \/ (~Before(list[i], list[j]) /\ j < i)})
    IN [k \in DOMAIN list |-> list[CHOOSE i \in DOMAIN list : place(i) = k]]

\* The newest row with a creation time; the first of several.
latestRow(rows) ==
    LET dated == {i \in DOMAIN rows : rows[i].at # Blank}
    IN IF dated = {} THEN 0 ELSE CHOOSE i \in dated : \A j \in dated : rows[j].at < rows[i].at \/ (rows[j].at = rows[i].at /\ i <= j)

OpsNext ==
    \/ ToggleIssuesOnly
    \/ \E num \in {1, 2, NoNumber}, code \in {1, 2}, issues \in BOOLEAN, at \in 0..1 :
          NewRow([num |-> num, code |-> code, issues |-> issues, at |-> at])

\* The list shows every row that passes the filter once, numbered passes first and in order
\* (ForceDashboard.vue, displayedOps).
ListIsSorted ==
    LET shown == displayedOps(ops)
    IN /\ Len(shown) = Cardinality({i \in DOMAIN ops.rows : ops.only => ops.rows[i].issues})
       /\ \A i, j \in DOMAIN shown : i < j => shown[i].num <= shown[j].num /\ ~Before(shown[j], shown[i])
       /\ latestRow(ops.rows) = 0 <=> \A i \in DOMAIN ops.rows : ops.rows[i].at = Blank

\* Does not hold (README, section 5): rows of equal number are in the order of their codes; without a
\* number they are not (ForceDashboard.vue:1188).
TiesByCode ==
    LET shown == displayedOps(ops)
    IN \A i, j \in DOMAIN shown : i < j /\ shown[i].num = shown[j].num => shown[i].code <= shown[j].code

----------------------------------------------------------------------------
(* The right-hand panels and their stored layout.                          *)

AXES == {"Fx", "Fy", "Fz"}
Panel(i, type, x, y, h) == [i |-> i, type |-> type, x |-> x, y |-> y, w |-> 6, h |-> h, channels |-> IF type = "signals" THEN AXES ELSE {}]
RIGHT_DEFAULT == <<Panel(1, "signals", 0, 0, 20), Panel(2, "frm", 6, 0, 20)>>
NoLayout == <<>>
Bottom(panels) == Max({0} \cup {panels[k].y + panels[k].h : k \in DOMAIN panels})
Sum(f(_), S) == FoldSet(LAMBDA k, acc : acc + f(k), 0, S)

loadRight(stored) == IF stored = NoLayout THEN RIGHT_DEFAULT ELSE stored

GridInit == grid = [panels |-> RIGHT_DEFAULT, stored |-> NoLayout, saves |-> {}, page |-> 1, mounted |-> TRUE,
                  touched |-> FALSE, raced |-> FALSE, next |-> 3, steps |-> 0]

\* Every change replaces this page's pending save, due in 250 ms.
Changed(panels) ==
    /\ grid.mounted /\ grid.steps < MaxLayoutSteps
    /\ grid' = [grid EXCEPT !.panels = panels, !.steps = @ + 1, !.touched = TRUE, !.next = @ + 1,
                          !.saves = {s \in @ : s.page # grid.page} \cup {[page |-> grid.page, snapshot |-> panels]}]

addRightPanel(type) ==
    LET topRow == {k \in DOMAIN grid.panels : grid.panels[k].y = 0}
        topRowW == Sum(LAMBDA k : grid.panels[k].w, topRow)
        fitsTop == topRowW <= 6
    IN /\ Len(grid.panels) < MaxPanels
       /\ Changed(Append(grid.panels, Panel(grid.next, type, IF fitsTop THEN topRowW ELSE 0,
                                           IF fitsTop THEN 0 ELSE Bottom(grid.panels), IF fitsTop THEN 20 ELSE 10)))

MayClose(panels) == Len(panels) > 1
closeRightPanel(i) == MayClose(grid.panels) /\ Changed(SelectSeq(grid.panels, LAMBDA p : p.i # i))
resetRightLayout == Changed(RIGHT_DEFAULT)

toggleItemAxis(k, a) ==
    LET cur == IF grid.panels[k].channels = {} THEN AXES ELSE grid.panels[k].channels
    IN /\ grid.panels[k].type = "signals"
       /\ Changed([grid.panels EXCEPT ![k].channels = IF a \notin cur THEN cur \cup {a} ELSE IF cur = {a} THEN cur ELSE cur \ {a}])

\* The grid library moves or resizes a panel within its 12 columns.
GridMoves(k, x, w) == x + w <= 12 /\ Changed([grid.panels EXCEPT ![k].x = x, ![k].w = w])

SaveDue(s) == grid' = [grid EXCEPT !.saves = @ \ {s}, !.stored = s.snapshot]
LeavePage == grid.mounted /\ grid' = [grid EXCEPT !.mounted = FALSE]
EnterPage ==
    /\ ~grid.mounted /\ grid.page < 2
    /\ grid' = [grid EXCEPT !.mounted = TRUE, !.page = @ + 1, !.panels = loadRight(grid.stored), !.raced = @ \/ grid.saves # {}]

GridNext ==
    \/ \E type \in {"signals", "frm"} : addRightPanel(type)
    \/ resetRightLayout \/ LeavePage \/ EnterPage
    \/ \E k \in DOMAIN grid.panels :
          \/ closeRightPanel(grid.panels[k].i)
          \/ \E a \in {"Fx", "Fy"} : toggleItemAxis(k, a)
          \/ \E x \in {0, 6}, w \in {6, 12} : GridMoves(k, x, w)
    \/ \E s \in grid.saves : SaveDue(s)

\* However panels are added, closed, moved and reloaded, one is left, each lies within the grid and
\* every signals panel shows a channel (ForceDashboard.vue, addRightPanel to resetRightLayout).
PanelsFit ==
    /\ grid.panels # <<>>
    /\ \A k \in DOMAIN grid.panels : LET p == grid.panels[k] IN p.x + p.w <= 12 /\ (p.type = "signals" => p.channels # {})

\* Once no save is due, the stored layout is the one on the screen, unless the page was entered again
\* while a save was due (ForceDashboard.vue, the watch on rightLayout).
LayoutIsStored ==
    grid.saves = {} /\ grid.touched /\ ~grid.raced => grid.stored = grid.panels

\* Does not hold (README, section 5): a panel added to the top row starts clear of the others; with
\* the left one closed it lands on the right one (ForceDashboard.vue:1048-1053).
AddedIsClear ==
    [][Len(grid'.panels) > Len(grid.panels) =>
         \A k \in DOMAIN grid.panels : LET p == grid.panels[k] q == Last(grid'.panels)
            IN p.y = 0 /\ q.y = 0 => p.x + p.w <= q.x \/ q.x + q.w <= p.x]_grid

----------------------------------------------------------------------------
(* Resident caches, axis maps, cutting metrics.                            *)

Subtypes == {"MT", "MM"}
AXIS_MAPS == {m \in [{"Fc", "Ff", "Fp"} -> AXES] : Cardinality({m[r] : r \in DOMAIN m}) = 3}
DEFAULT_AXIS_MAP == [Fc |-> "Fx", Ff |-> "Fy", Fp |-> "Fz"]
Corrupt == [Fc |-> "Fx", Ff |-> "Fx", Fp |-> "Fz"]

MemInit == \E broken \in SUBSET Subtypes : mem = [held |-> <<>>, maps |-> [s \in broken |-> Corrupt]]

cacheGet(id) == LET held == mem.held IN (\E k \in DOMAIN held : held[k] = id) /\ mem' = [mem EXCEPT !.held = Append(SelectSeq(held, LAMBDA x : x # id), id)]

cachePut(id) ==
    LET put == IF \E k \in DOMAIN mem.held : mem.held[k] = id THEN mem.held ELSE Append(mem.held, id)
        over == Len(put) - MEM_CAP
    IN mem' = [mem EXCEPT !.held = IF over > 0 THEN SubSeq(put, over + 1, Len(put)) ELSE put]

readAxisMaps(maps) == [s \in {t \in DOMAIN maps : maps[t] \in AXIS_MAPS} |-> maps[s]]
resolveAxisMap(s) == LET maps == readAxisMaps(mem.maps) IN IF s \in DOMAIN maps THEN maps[s] ELSE DEFAULT_AXIS_MAP
writeAxisMap(s, m) ==
    LET maps == readAxisMaps(mem.maps)
    IN mem' = [mem EXCEPT !.maps = [t \in DOMAIN maps \cup {s} |-> IF t = s THEN m ELSE maps[t]]]

MemNext ==
    \/ \E id \in CacheIds : cacheGet(id) \/ cachePut(id)
    \/ \E s \in Subtypes, m \in AXIS_MAPS : writeAxisMap(s, m)

\* Never more than MEM_CAP caches, none twice, and one just put or read is held (liveCache.ts).
HeldIsBounded == Len(mem.held) <= MEM_CAP /\ Cardinality(ToSet(mem.held)) = Len(mem.held)

\* Whatever the browser has stored, the three force roles are three different axes, and choosing a
\* map for one operation type leaves the other's alone (cuttingMetrics.ts, writeAxisMapForSubtype).
MapsStayApart ==
    [][/\ \A s \in Subtypes : Cardinality({resolveAxisMap(s)[r] : r \in {"Fc", "Ff", "Fp"}}) = 3
       /\ Cardinality({s \in Subtypes : resolveAxisMap(s)' # resolveAxisMap(s)}) <= 1]_mem

MetInit == met = [kind |-> "turning", n |-> 1, rpm |-> 60, diam |-> 6, feed |-> 1, ap |-> 1, spiral |-> TRUE, mid |-> 1]

SetInput ==
    \/ \E v \in {"turning", "milling", "unknown"} : met' = [met EXCEPT !.kind = v]
    \/ \E v \in 0..1 : met' = [met EXCEPT !.n = v] \/ met' = [met EXCEPT !.feed = v] \/ met' = [met EXCEPT !.ap = v]
    \/ \E v \in {0, 60} : met' = [met EXCEPT !.rpm = v]
    \/ \E v \in {0, 6} : met' = [met EXCEPT !.diam = v]
    \/ \E v \in 1..4 : met' = [met EXCEPT !.mid = v]
    \/ met' = [met EXCEPT !.spiral = ~@]
MetNext == SetInput

NoMetric == -1
midWindowDiameter(x) == x.diam - (2 * (IF x.spiral THEN x.feed ELSE 0) * x.rpm * x.mid) \div 60
computeCuttingMetrics(x) ==
    LET force == IF x.kind = "turning" /\ x.n > 0 THEN 10 ELSE NoMetric
        known == x.kind = "turning" /\ x.diam > 0 /\ x.rpm > 0 /\ midWindowDiameter(x) > 0
        vc == IF known THEN midWindowDiameter(x) * x.rpm ELSE NoMetric
    IN [Fc |-> force, vc |-> vc,
        pc |-> IF force = NoMetric \/ vc = NoMetric THEN NoMetric ELSE force * vc,
        kc |-> IF force = NoMetric \/ x.feed = 0 \/ x.ap = 0 THEN NoMetric ELSE force]

\* A power is given only with a force and a speed, the speed only inside the disc and never above the
\* speed at its rim; a stopped spindle costs the speed and the power but not kc (cuttingMetrics.ts).
MetricsAreKnown ==
    LET m == computeCuttingMetrics(met)
    IN /\ m.pc # NoMetric => m.Fc # NoMetric /\ m.vc # NoMetric
       /\ m.vc # NoMetric => m.vc > 0 /\ m.vc <= met.diam * met.rpm
       /\ m.kc = computeCuttingMetrics([met EXCEPT !.rpm = 0, !.diam = 0]).kc
==============================================================================
