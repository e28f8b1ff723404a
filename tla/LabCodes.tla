------------------------------ MODULE LabCodes ------------------------------
(***************************************************************************)
(* The lab's generated codes and its FAST page: the operation-code field   *)
(* (OperationCode.vue), the sample-code field (SampleCode.vue), the        *)
(* registration of samples with the trigger that numbers them              *)
(* (register-sample.vue, migration 127) and the FAST dashboard with its    *)
(* trace store (FastDashboard.vue, fastCache.ts).  A code is named by what *)
(* it is composed of, never by its text.                                   *)
(***************************************************************************)
EXTENDS Integers, Sequences, FiniteSets, FiniteSetsExt, SequencesExt

CONSTANTS
    MaxCodeSteps,    \* edits of the form around a code field
    MaxRegSteps,     \* clicks on the registration pages
    MAX_TILES,       \* plots on the FAST page
    TRACE_CAP,       \* traces the store keeps
    MaxFastSteps     \* clicks on the FAST page

ASSUME CodesAssumption == MAX_TILES \in Nat \ {0} /\ TRACE_CAP \in Nat \ {0}

VARIABLES opc, smc, reg, fst

opcVars == <<opc>>
smcVars == <<smc>>
regVars == <<reg>>
fstVars == <<fst>>

NoCode == <<>>
Typed == <<"typed", 0>>

----------------------------------------------------------------------------
(* The operation-code field of a new or a saved operation.  `code` is the  *)
(* sample whose code was read; a composed code is <<category, sample>>,    *)
(* with the sequence and MF numbers left to the database.                  *)

Categories == {"", "machining", "sintering"}

autoCode(o) ==
    CASE o.cat = "sintering" -> <<o.cat, 0>>
      [] o.cat = "" /\ o.code = 0 -> NoCode
      [] OTHER -> <<o.cat, o.code>>
isExistingItem == opc.kind = "saved"
\* watch(autoCode): the composed code follows the form, of a new operation in auto mode.
MayEmit(o) == ~isExistingItem /\ ~o.manual
Composed(o) ==
    LET auto == autoCode(o)
    IN IF auto # autoCode(opc) /\ MayEmit(o) /\ auto # NoCode THEN [o EXCEPT !.value = auto] ELSE o

OpcInit ==
    \E k \in {"new", "saved"} :
        opc = [kind |-> k, sample |-> 0, req |-> 0, reads |-> {}, code |-> 0, est |-> FALSE, cat |-> "", mf |-> FALSE, mfOut |-> 0,
               manual |-> (k = "saved"), value |-> IF k = "saved" THEN Typed ELSE NoCode, error |-> FALSE, by |-> "", steps |-> 0]

OpcStep(o, by) == opc.steps < MaxCodeSteps /\ opc' = [o EXCEPT !.steps = @ + 1, !.by = by]

PickSample ==
    \E s \in 0..2 :
        LET o == [opc EXCEPT !.sample = s, !.req = @ + 1]
        IN /\ s # opc.sample
           /\ OpcStep(Composed(IF s = 0 THEN [o EXCEPT !.code = 0, !.est = FALSE]
                               ELSE [o EXCEPT !.reads = @ \cup {[req |-> o.req, sample |-> s]}]), "form")
SampleCodeRead(ok) ==
    \E r \in opc.reads :
        LET o == [opc EXCEPT !.reads = @ \ {r}, !.by = "answer"]
        IN opc' = CASE r.req # opc.req -> o
                    [] r.req = opc.req /\ ok -> Composed([o EXCEPT !.code = r.sample, !.est = ~isExistingItem, !.error = FALSE])
                    [] OTHER -> Composed([o EXCEPT !.code = 0, !.est = FALSE, !.error = TRUE])
PickCategory ==
    \E c \in Categories \ {opc.cat} :
        OpcStep(Composed([opc EXCEPT !.cat = c,
                    !.mfOut = IF c = "sintering" /\ ~isExistingItem /\ ~opc.mf THEN @ + 1 ELSE @]), "form")
MfRead(ok) ==
    /\ opc.mfOut > 0
    /\ opc' = [opc EXCEPT !.mfOut = @ - 1, !.mf = ok, !.error = @ \/ ~ok, !.by = "answer"]
\* Typing the preview back, or nothing, returns to auto mode; anything else is an override.
onType ==
    \/ OpcStep([opc EXCEPT !.manual = FALSE, !.value = NoCode], "type")
    \/ autoCode(opc) # NoCode /\ OpcStep([opc EXCEPT !.manual = FALSE, !.value = autoCode(opc)], "type")
    \/ OpcStep([opc EXCEPT !.manual = TRUE, !.value = Typed], "type")
regenerate ==
    opc.manual /\ OpcStep([opc EXCEPT !.manual = FALSE, !.value = IF autoCode(opc) = NoCode THEN @ ELSE autoCode(opc)], "type")

OpcNext == PickSample \/ PickCategory \/ onType \/ regenerate \/ \E ok \in BOOLEAN : SampleCodeRead(ok) \/ MfRead(ok)

(* A typed code, and the code of a saved operation, is changed by nothing  *)
(* but the user at the field, whichever answers arrive late ("never        *)
(* auto-clobber those", OperationCode.vue 36-40, 228-235).                 *)
OverrideKept ==
    [][(opc.manual \/ isExistingItem) /\ opc'.value # opc.value => opc'.by = "type" /\ opc'.steps > opc.steps]_opc

(* In auto mode a composed code is the one the form composes now, and the  *)
(* sample it is composed of is the one chosen once its read is answered.   *)
AutoFollows ==
    /\ ~opc.manual /\ ~isExistingItem /\ opc.value # NoCode /\ autoCode(opc) # NoCode => opc.value = autoCode(opc)
    /\ opc.reads = {} => opc.code \in {0, opc.sample}

(* Does not hold (README, section 5): once the reads are answered, the     *)
(* composed code names the sample that is chosen; when the read fails the  *)
(* code of the previous sample stays (OperationCode.vue:232).              *)
CodeOfChosenSample ==
    opc.kind = "new" /\ ~opc.manual /\ opc.reads = {} /\ opc.value # NoCode => opc.value[2] \in {0, opc.sample}

----------------------------------------------------------------------------
(* The sample-code field.  A code is [num, mat, met]; num 0 is the {seq}   *)
(* placeholder, -1 no leading number.  A rebuild works on the form as it   *)
(* was when it began, and on the field as it is after its lookups.         *)

Field(num, mat, met) == [num |-> num, mat |-> mat, met |-> met]
EmptyField == Field(-2, 0, 0)
SampleCodes == {Field(7, 0, 0), Field(-1, 0, 0), EmptyField}        \* what is typed by hand
leading(v) == v.num > 0

SmcInit ==
    \E k \in {"new", "saved"} :
        smc = [kind |-> k, mat |-> 0, met |-> 0, value |-> IF k = "saved" THEN Field(3, 0, 0) ELSE EmptyField,
               est |-> FALSE, work |-> {}, by |-> "", steps |-> 0]

SmcStep(s) == smc.steps < MaxCodeSteps /\ smc' = [s EXCEPT !.steps = @ + 1]
Paused(force) == ~force /\ smc.kind = "saved"
rebuild(s, force) ==
    IF Paused(force) \/ s.mat = 0 \/ s.met = 0 THEN [s EXCEPT !.by = "form"]
    ELSE [s EXCEPT !.by = "form", !.work = @ \cup {[stage |-> "look", force |-> force, mat |-> s.mat, met |-> s.met, n |-> s.steps]}]
Emitted(s, w, num) == [s EXCEPT !.value = Field(num, w.mat, w.met), !.by = IF w.force THEN "button" ELSE "rebuild"]

PickMaterial == \E m \in 1..2 : m # smc.mat /\ SmcStep(rebuild([smc EXCEPT !.mat = m], FALSE))
PickMethod == \E m \in 0..1 : m # smc.met /\ SmcStep(rebuild([smc EXCEPT !.met = m], FALSE))
Renumber == SmcStep(rebuild(smc, TRUE))
TypeSampleCode == \E v \in SampleCodes \ {smc.value} : SmcStep([smc EXCEPT !.value = v, !.by = "type"])
LookedUp(ok) ==     \* alloy and method code are read; one that is missing ends the rebuild
    \E w \in smc.work :
        LET s == [smc EXCEPT !.work = @ \ {w}, !.by = ""]
        IN /\ w.stage = "look"
           /\ smc' = CASE ~ok -> s
                       [] ok /\ smc.value # EmptyField /\ ~leading(smc.value) /\ ~w.force -> s
                       [] ok /\ leading(smc.value) /\ ~w.force -> Emitted(s, w, smc.value.num)
                       [] OTHER -> [s EXCEPT !.work = @ \cup {[w EXCEPT !.stage = "seq"]}]
nextSequence(ok) ==
    \E w \in smc.work :
        w.stage = "seq" /\ smc' = [Emitted([smc EXCEPT !.work = @ \ {w}], w, 0) EXCEPT !.est = ok]

SmcNext == PickMaterial \/ PickMethod \/ Renumber \/ TypeSampleCode \/ \E ok \in BOOLEAN : LookedUp(ok) \/ nextSequence(ok)

(* The code of a saved sample is changed by typing or by the renumber      *)
(* button only, and a rebuild that finds a number in the field keeps it:   *)
(* "editing a sample never renumbers it" (SampleCode.vue 96-98).           *)
NeverRenumbered ==
    [][/\ smc.kind = "saved" /\ smc'.value # smc.value => smc'.by \in {"type", "button"}
       /\ leading(smc.value) /\ smc'.by = "rebuild" /\ smc'.value.num # 0 => smc'.value.num = smc.value.num]_smc

(* Do not hold (README, section 5): a new sample's code is rebuilt when    *)
(* alloy or method changes (a {seq}- code counts as typed by hand, line    *)
(* 109), and a code typed while a rebuild waits for its number is kept.    *)
RebuiltFollows ==
    smc.kind = "new" /\ smc.work = {} /\ smc.value.num = 0 /\ smc.met # 0 => smc.value.mat = smc.mat
TypedNumberKept == [][leading(smc.value) /\ smc'.by = "rebuild" => smc'.value.num = smc.value.num]_smc

----------------------------------------------------------------------------
(* Registration, in two browsers.  The trigger on physical_samples numbers *)
(* a {seq}- code under an advisory lock that is held to the commit; a code *)
(* typed by hand is stored as given, without the lock.  The number the page *)
(* shows beforehand is a preview that nothing reads, and is left out; the  *)
(* second browser's lookup of its account has failed when the page opened. *)

Browsers == {1, 2}
RegForm == [stage |-> "form", ready |-> FALSE, look |-> TRUE, person |-> "unknown", num |-> 0, error |-> FALSE]
Numbers(rows) == {r.num : r \in Range(rows)}
NextNumber(rows) == 1 + Max({0} \cup Numbers(rows))

RegInit ==
    \E a \in BOOLEAN :
        reg = [admin |-> a, rows |-> <<>>, lock |-> 0, tab |-> <<RegForm, [RegForm EXCEPT !.look = FALSE]>>, typed |-> 0, sent |-> 0, steps |-> 0]

RegStep(r) == reg.steps < MaxRegSteps /\ reg' = [r EXCEPT !.steps = @ + 1]
OwnerMissing(person) == person = "none" /\ ~reg.admin
\* What submit() does once it knows whose account this is.
Post(r, t) ==
    IF OwnerMissing(r.tab[t].person) THEN [r EXCEPT !.tab[t].stage = "form", !.tab[t].error = TRUE]
    ELSE [r EXCEPT !.tab[t].stage = "post", !.sent = @ + 1]

FillForm(t) == reg.tab[t].stage = "form" /\ ~reg.tab[t].ready /\ RegStep([reg EXCEPT !.tab[t].ready = TRUE])
lookupPerson(t) ==
    \E p \in {"unknown", "none", "some"} : reg.tab[t].look /\ reg' = [reg EXCEPT !.tab[t].look = FALSE, !.tab[t].person = p]
submitSample(t) ==
    /\ reg.tab[t].stage = "form" /\ reg.tab[t].ready
    /\ LET r == [reg EXCEPT !.tab[t].error = FALSE]
       IN RegStep(IF r.tab[t].person = "unknown" THEN [r EXCEPT !.tab[t].stage = "person"] ELSE Post(r, t))
PersonAtSubmit(t) ==
    \E p \in {"unknown", "none", "some"} :
        reg.tab[t].stage = "person" /\ reg' = Post([reg EXCEPT !.tab[t].person = p], t)

MayLock == reg.lock = 0
Numbered(t) ==
    /\ reg.tab[t].stage = "post" /\ MayLock
    /\ reg' = [reg EXCEPT !.lock = t, !.tab[t].stage = "tx", !.tab[t].num = NextNumber(reg.rows)]
Committed(t, answered) ==
    /\ reg.tab[t].stage = "tx"
    /\ reg' = [reg EXCEPT !.lock = 0, !.rows = Append(@, [num |-> reg.tab[t].num, auto |-> TRUE]),
                          !.tab[t].stage = IF answered THEN "created" ELSE "form", !.tab[t].error = ~answered]
RolledBack(t) ==
    reg.tab[t].stage = "tx" /\ reg' = [reg EXCEPT !.lock = 0, !.tab[t].stage = "form", !.tab[t].error = TRUE]
resetForm(t) ==
    /\ reg.tab[t].stage = "created"
    /\ RegStep([reg EXCEPT !.tab[t].stage = "form", !.tab[t].ready = FALSE])
TypedInsert == \E n \in 1..3 : reg.typed = 0 /\ RegStep([reg EXCEPT !.typed = n])
TypedCommits ==
    reg.typed # 0 /\ reg' = [reg EXCEPT !.typed = 0, !.rows = Append(@, [num |-> reg.typed, auto |-> FALSE])]

RegNext ==
    \/ TypedInsert \/ TypedCommits
    \/ \E t \in Browsers :
        \/ FillForm(t) \/ lookupPerson(t) \/ submitSample(t) \/ PersonAtSubmit(t) \/ Numbered(t)
        \/ RolledBack(t) \/ resetForm(t) \/ \E b \in BOOLEAN : Committed(t, b)

(* However registrations overlap, fail and are typed by hand in between,   *)
(* no two numbers given by the database are the same ("concurrent          *)
(* registrations queue up", migration 127:14), and nobody without a person *)
(* record sends one.                                                       *)
NumbersUnique ==
    /\ \A i, j \in 1..Len(reg.rows) : i # j /\ reg.rows[i].auto /\ reg.rows[j].auto => reg.rows[i].num # reg.rows[j].num
    /\ \A t \in Browsers : reg.tab[t].stage = "tx" => reg.lock = t

(* Do not hold (README, section 5): no two samples at all have the same    *)
(* number (a typed code takes no lock), and a sample is registered once    *)
(* (the reply of a committed POST can be lost).                            *)
AllNumbersUnique == IsInjective([i \in 1..Len(reg.rows) |-> reg.rows[i].num])
RegisteredOnce == \A t \in Browsers : reg.tab[t].error /\ reg.tab[t].ready /\ reg.sent = 1 /\ reg.lock = 0 => reg.rows = <<>>

----------------------------------------------------------------------------
(* The FAST dashboard.  Operations 1 and 2 have a trace, in a file of the  *)
(* same number; operation 3 is still being imported.                       *)

FastOps == 1..3
FastFile(o) == IF o = 3 THEN 0 ELSE o
NoZoom == 0

FstInit ==
    \E sel \in {0, 1} :
        fst = [list |-> "loading", sel |-> 0, want |-> sel, gen |-> 0, detail |-> 0, run |-> 0, trace |-> 0, loadingDetail |-> FALSE,
               traceLoading |-> FALSE, error |-> FALSE, reads |-> {}, mem |-> <<>>, tiles |-> <<>>, tileSeq |-> 1, fresh |-> TRUE,
               zoom |-> NoZoom, removed |-> FALSE, steps |-> 0]

FstStep(f) == fst.steps < MaxFastSteps /\ fst' = [f EXCEPT !.steps = @ + 1]
FastRead(part, gen, op) == [part |-> part, gen |-> gen, op |-> op]
OfSelection(r) == r.gen = fst.gen

\* traceGet() and tracePut(): the store is kept in the order of use.
traceGet(mem, id) == Append(SelectSeq(mem, LAMBDA x : x # id), id)
tracePut(mem, id) ==
    LET m == IF id \in Range(mem) THEN mem ELSE Append(mem, id)
    IN IF Len(m) > TRACE_CAP THEN SubSeq(m, Len(m) - TRACE_CAP + 1, Len(m)) ELSE m
\* The first trace shown seeds the plots, unless plots were stored.
seedDefaultTiles(f) ==
    IF ~f.fresh THEN f
    ELSE [f EXCEPT !.tiles = [i \in 1..2 |-> f.tileSeq + i - 1], !.tileSeq = @ + 2, !.fresh = FALSE]
TraceShown(f, o) == seedDefaultTiles([f EXCEPT !.trace = o, !.traceLoading = FALSE, !.loadingDetail = FALSE])
selectFast(f, o) ==
    [f EXCEPT !.gen = @ + 1, !.sel = o, !.detail = 0, !.run = 0, !.trace = 0, !.error = FALSE, !.loadingDetail = TRUE,
              !.traceLoading = FALSE, !.zoom = IF o = f.sel THEN @ ELSE NoZoom,
              !.reads = @ \cup {FastRead("detail", f.gen + 1, o)}]

ListRead(ok) ==
    /\ fst.list = "loading"
    /\ LET f == [fst EXCEPT !.list = IF ok THEN "ok" ELSE "error"]
       IN fst' = IF ok /\ fst.want # 0 THEN selectFast(f, fst.want) ELSE f
SelectOp == fst.list = "ok" /\ \E o \in FastOps : FstStep(selectFast(fst, o))
DetailRead(ok) ==
    \E r \in fst.reads :
        LET f == [fst EXCEPT !.reads = @ \ {r}]
        IN /\ r.part = "detail"
           /\ fst' = CASE ~OfSelection(r) -> f
                       [] OfSelection(r) /\ ok -> [f EXCEPT !.detail = r.op, !.reads = @ \cup {FastRead("run", r.gen, r.op)}]
                       [] OTHER -> [f EXCEPT !.error = TRUE, !.loadingDetail = FALSE]
loadFastRun(ok) ==
    \E r \in fst.reads :
        LET f == [fst EXCEPT !.reads = @ \ {r}]
            id == FastFile(r.op)
            shown == [f EXCEPT !.run = r.op, !.trace = 0]
        IN /\ r.part = "run"
           /\ fst' = CASE ~OfSelection(r) -> f
                       [] OfSelection(r) /\ ~ok -> [f EXCEPT !.error = TRUE, !.loadingDetail = FALSE]
                       [] OfSelection(r) /\ ok /\ id = 0 -> [shown EXCEPT !.loadingDetail = FALSE]
                       [] OfSelection(r) /\ ok /\ id \in Range(fst.mem) -> TraceShown([shown EXCEPT !.mem = traceGet(@, id)], r.op)
                       [] OTHER -> [shown EXCEPT !.traceLoading = TRUE, !.reads = @ \cup {FastRead("trace", r.gen, r.op)}]
loadTraceData(ok) ==
    \E r \in fst.reads :
        LET f == [fst EXCEPT !.reads = @ \ {r}, !.mem = IF ok THEN tracePut(@, FastFile(r.op)) ELSE @]
        IN /\ r.part = "trace"
           /\ fst' = CASE ~OfSelection(r) -> f
                       [] OfSelection(r) /\ ok -> TraceShown(f, r.op)
                       [] OTHER -> [f EXCEPT !.error = TRUE, !.traceLoading = FALSE, !.loadingDetail = FALSE]
addTile ==
    /\ fst.trace # 0 /\ Len(fst.tiles) < MAX_TILES
    /\ FstStep([fst EXCEPT !.tiles = Append(@, fst.tileSeq), !.tileSeq = @ + 1])
removeTile ==
    /\ fst.trace # 0
    /\ \E i \in 1..Len(fst.tiles) : FstStep([fst EXCEPT !.tiles = RemoveAt(@, i), !.removed = @ \/ Len(fst.tiles) = 1])
onChartZoom == fst.trace # 0 /\ fst.tiles # <<>> /\ FstStep([fst EXCEPT !.zoom = IF @ = NoZoom THEN fst.sel ELSE NoZoom])
\* The page is opened again; the selection and the plots come from localStorage.
ReopenPage ==
    FstStep([fst EXCEPT !.list = "loading", !.want = fst.sel, !.sel = 0, !.gen = @ + 1, !.detail = 0, !.run = 0, !.trace = 0,
                        !.loadingDetail = FALSE, !.traceLoading = FALSE, !.error = FALSE, !.zoom = NoZoom,
                        !.fresh = (fst.tiles = <<>>), !.tileSeq = 1 + Max({0} \cup Range(fst.tiles))])

FastAnswer == \E ok \in BOOLEAN : ListRead(ok) \/ DetailRead(ok) \/ loadFastRun(ok) \/ loadTraceData(ok)
FstNext == FastAnswer \/ SelectOp \/ addTile \/ removeTile \/ onChartZoom \/ ReopenPage

(* Detail, run, trace and zoom are of the selected operation whichever     *)
(* answers of earlier selections arrive late; a spinner has a read to wait *)
(* for; plots are within their limit and told apart across reopenings; the *)
(* store keeps its bound (FastDashboard.vue 170-230, 282; fastCache.ts).   *)
FastShowsSelected ==
    /\ {fst.detail, fst.run, fst.trace, fst.zoom} \subseteq {0, fst.sel}
    /\ fst.loadingDetail => \E r \in fst.reads : r.gen = fst.gen
    /\ fst.traceLoading => FastRead("trace", fst.gen, fst.sel) \in fst.reads
    /\ Len(fst.tiles) <= MAX_TILES /\ IsInjective(fst.tiles) /\ \A i \in 1..Len(fst.tiles) : fst.tiles[i] < fst.tileSeq
    /\ Len(fst.mem) <= TRACE_CAP /\ IsInjective(fst.mem)

(* Does not hold (README, section 5): plots that were all removed stay     *)
(* removed (FastDashboard.vue:67 takes an empty stored list for none).     *)
RemovedStay == [][fst.removed /\ fst.tiles = <<>> => Len(fst'.tiles) <= 1]_fst
==============================================================================
