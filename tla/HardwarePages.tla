---------------------------- MODULE HardwarePages ----------------------------
(***************************************************************************)
(* The two hardware pages of the app over their stale-while-revalidate     *)
(* cells (ui/swr.ts): the Lab Amplifier page (labamp/) with its two forms, *)
(* and the NI-DAQ page (nidaq/) with its channel list and the builder of   *)
(* virtual channels. A cell outlives its page; the recorder's answers may  *)
(* come in any order.                                                      *)
(***************************************************************************)
EXTENDS Integers, Sequences, FiniteSets, SequencesExt

CONSTANTS
    MaxVisits,    \* bound: visits to each page
    MaxTyped,     \* bound: values typed into the forms of the amplifier page
    MaxAmpOps,    \* bound: buttons pressed on the amplifier page
    MaxLoads,     \* bound: loads a click on Refresh may bring a cell to
    Ports,        \* analog inputs a channel can be bound to
    MaxDaqOps,    \* bound: operations on the NI-DAQ page
    MaxKeys       \* bound: changes of a formula in one builder

ASSUME HardwareAssumption == {MaxVisits, MaxTyped, MaxAmpOps, MaxLoads, MaxDaqOps, MaxKeys} \subseteq Nat /\ "none" \notin Ports

VARIABLES
    amp,       \* the amplifier as the recorder knows it: conn, daq, mode, sens (versions)
    ampCell,   \* labampState
    ampLoads,  \* its loads on the way
    ampPage,   \* the page's forms and spinners
    ampOps,    \* the page's requests on the way
    ampSeen,   \* ghost: the sensors the last write has returned to the page
    daq,       \* the recorder's saved channel list and cards
    daqCell,   \* nidaqState
    daqLoads,
    daqPage,   \* the page: channels, devices, popover, prompt, catalogue, builder
    daqOps

ampVars == <<amp, ampCell, ampLoads, ampPage, ampOps, ampSeen>>
daqVars == <<daq, daqCell, daqLoads, daqPage, daqOps>>

Nil == "none"

\* No snapshot loaded yet.
NoAmp == [conn |-> -1, daq |-> -1, mode |-> Nil, sens |-> -1]
NoDaq == [channels |-> <<>>, devices |-> -1]
NoOp == [kind |-> Nil]

----------------------------------------------------------------------------
(* createSwr: the cell.                                                    *)

NoCell(none) == [data |-> none, loading |-> FALSE, inflight |-> FALSE, inflightEpoch |-> 0, epoch |-> 0, newest |-> 0]

\* A call that shares the request under way starts none.
Shares(cell, fresh) == cell.inflight /\ cell.inflightEpoch = cell.epoch /\ ~fresh

Begun(cell) ==
    [cell EXCEPT !.newest = @ + 1, !.loading = TRUE, !.inflight = TRUE, !.inflightEpoch = cell.epoch]

invalidate(cell) == [cell EXCEPT !.epoch = @ + 1]

mutate(cell, next) == [cell EXCEPT !.epoch = @ + 1, !.data = next]

IsNewest(cell, load) == load.mine = cell.newest
Applies(cell, load) == IsNewest(cell, load) /\ load.started = cell.epoch

\* finally: only the newest load ends `loading`.
Ended(cell, load) == IF IsNewest(cell, load) THEN [cell EXCEPT !.loading = FALSE, !.inflight = FALSE] ELSE cell

Loaded(cell, load) ==
    Ended(IF Applies(cell, load) THEN [cell EXCEPT !.data = load.snap] ELSE cell, load)

\* The last-known data stays; the message shown beside it is left out.
LoadFailed(cell, load) == Ended(cell, load)

----------------------------------------------------------------------------
(* The Lab Amplifier page.                                                 *)

NoForm == [shown |-> FALSE, cfg |-> 0, cfgDirty |-> FALSE, daq |-> 0, daqDirty |-> FALSE, editing |-> FALSE,
           busy |-> FALSE, arBusy |-> FALSE, writeBusy |-> FALSE, recs |-> FALSE, visit |-> 0, presses |-> 0]

AmpInit ==
    /\ amp = [conn |-> 0, daq |-> 0, mode |-> "RESET", sens |-> 0]
    /\ ampCell = NoCell(NoAmp) /\ ampLoads = {} /\ ampOps = {} /\ ampPage = NoForm /\ ampSeen = 0

\* seedForms, on every change of the cell's data: a form with typed values is left alone.
seedForms(page, data) ==
    IF data = NoAmp \/ ~page.shown THEN page
    ELSE [page EXCEPT !.cfg = IF page.cfgDirty THEN @ ELSE data.conn,
                      !.daq = IF page.daqDirty THEN @ ELSE data.daq]

\* loadSnapshot: status and config together, then the sensors.
NewLoad(cell, waiter) == [mine |-> cell.newest + 1, started |-> cell.epoch, at |-> "status", snap |-> NoAmp, waiter |-> waiter]

\* revalidate; `waiter` is the operation that awaits the answer.
AmpRevalidate(cell, fresh, waiter) ==
    IF Shares(cell, fresh) THEN ampCell' = cell /\ UNCHANGED ampLoads
    ELSE /\ ampCell' = Begun(cell)
         /\ ampLoads' = ampLoads \union {NewLoad(cell, waiter)}

AmpMount ==
    /\ ~ampPage.shown /\ ampPage.visit < MaxVisits
    /\ ampPage' = seedForms([NoForm EXCEPT !.shown = TRUE, !.visit = ampPage.visit + 1, !.presses = ampPage.presses], ampCell.data)
    /\ AmpRevalidate(ampCell, FALSE, NoOp)
    /\ UNCHANGED <<amp, ampOps, ampSeen>>

AmpLeave ==
    /\ ampPage.shown
    /\ ampPage' = [NoForm EXCEPT !.visit = ampPage.visit, !.presses = ampPage.presses]
    /\ UNCHANGED <<amp, ampCell, ampLoads, ampOps, ampSeen>>

\* The sync watchers on the two forms.
TypeCfg ==
    /\ ampPage.shown /\ ampPage.cfg + ampPage.cfg + ampPage.daq < MaxTyped
    /\ ampPage' = [ampPage EXCEPT !.cfg = @ + 1, !.cfgDirty = TRUE]
    /\ UNCHANGED <<amp, ampCell, ampLoads, ampOps, ampSeen>>

TypeDaq ==
    /\ ampPage.shown /\ ampPage.cfg + ampPage.daq < MaxTyped
    /\ ampPage' = [ampPage EXCEPT !.daq = @ + 1, !.daqDirty = TRUE]
    /\ UNCHANGED <<amp, ampCell, ampLoads, ampOps, ampSeen>>

AmpRefresh ==
    /\ ampPage.shown /\ ~ampPage.busy /\ ~ampCell.loading /\ ampCell.newest < MaxLoads
    /\ AmpRevalidate(ampCell, FALSE, NoOp)
    /\ UNCHANGED <<amp, ampOps, ampPage, ampSeen>>

\* startEdit and cancelEdit: the row being calibrated.
ToggleEdit ==
    /\ ampPage.shown /\ (ampPage.editing \/ ampCell.data # NoAmp)
    /\ ampPage' = [ampPage EXCEPT !.editing = ~@]
    /\ UNCHANGED <<amp, ampCell, ampLoads, ampOps, ampSeen>>

\* The spinner each button sets, and what must hold for it to be enabled.
FlagOf(kind) == CASE kind \in {"saveCfg", "setMode"} -> "busy" [] kind \in {"measure", "apply"} -> "arBusy" [] OTHER -> "writeBusy"

MayPress(kind) ==
    /\ ampPage.shown /\ ~ampPage[FlagOf(kind)]
    /\ kind = "setMode" => ampCell.data # NoAmp
    /\ kind = "apply" => ampPage.recs
    /\ kind = "write" => ampPage.editing

\* measure and applyRanges begin with persistDaq; every press sends the form as it is.
Press(kind) ==
    /\ MayPress(kind) /\ ampPage.presses < MaxAmpOps
    /\ ampPage' = [ampPage EXCEPT ![FlagOf(kind)] = TRUE, !.presses = @ + 1]
    /\ ampOps' = ampOps \union {[kind |-> kind, step |-> IF FlagOf(kind) = "arBusy" THEN "persist" ELSE "act", served |-> FALSE,
                                 cfg |-> ampPage.cfg, daq |-> ampPage.daq, sens |-> 0, visit |-> ampPage.visit]}
    /\ UNCHANGED <<amp, ampCell, ampLoads, ampSeen>>

\* The recorder carries a request out.
AmpServed(o) ==
    /\ o \in ampOps /\ ~o.served
    /\ amp' = CASE o.step = "persist" -> [amp EXCEPT !.daq = o.daq]
                [] o.step = "act" /\ o.kind = "saveCfg" -> [amp EXCEPT !.conn = o.cfg]
                [] o.step = "act" /\ o.kind = "setMode" -> [amp EXCEPT !.mode = "MEASURE"]
                [] o.step = "act" /\ o.kind \in {"apply", "write"} -> [amp EXCEPT !.sens = @ + 1]
                [] OTHER -> amp
    /\ ampOps' = (ampOps \ {o}) \union {[o EXCEPT !.served = TRUE, !.sens = amp'.sens]}
    /\ UNCHANGED <<ampCell, ampLoads, ampPage, ampSeen>>

\* A page that was left keeps running on refs nobody shows.
OnPage(o, page) == IF o.visit = ampPage.visit /\ ampPage.shown THEN page ELSE ampPage

Released(o) == [ampPage EXCEPT ![FlagOf(o.kind)] = FALSE]

\* persistDaq's answer: the cell is made stale, the form is clean, the real request goes out.
PersistAnswered(o) ==
    /\ o \in ampOps /\ o.served /\ o.step = "persist"
    /\ ampCell' = invalidate(ampCell)
    /\ ampPage' = OnPage(o, [ampPage EXCEPT !.daqDirty = FALSE])
    /\ ampOps' = (ampOps \ {o}) \union {[o EXCEPT !.step = "act", !.served = FALSE]}
    /\ UNCHANGED <<amp, ampLoads, ampSeen>>

\* measure ends with its recommendations; setMode and writeCalibration put the answer into the cell.
Patched(o) ==
    IF ampCell.data = NoAmp THEN ampCell
    ELSE mutate(ampCell, IF o.kind = "setMode" THEN [ampCell.data EXCEPT !.mode = "MEASURE"] ELSE [ampCell.data EXCEPT !.sens = o.sens])

ActAnswered(o) ==
    /\ o \in ampOps /\ o.served /\ o.step = "act" /\ o.kind \in {"measure", "setMode", "write"}
    /\ ampCell' = IF o.kind = "measure" THEN ampCell ELSE Patched(o)
    /\ ampPage' = seedForms(OnPage(o, [Released(o) EXCEPT !.recs = @ \/ o.kind = "measure", !.editing = @ /\ o.kind # "write"]), ampCell'.data)
    /\ ampOps' = ampOps \ {o}
    /\ ampSeen' = IF o.kind = "write" THEN o.sens ELSE ampSeen
    /\ UNCHANGED <<amp, ampLoads>>

\* saveCfg and applyRanges: a fresh load is awaited before the spinner ends.
RefreshAfter(o) ==
    /\ o \in ampOps /\ o.served /\ o.step = "act" /\ o.kind \in {"saveCfg", "apply"}
    /\ AmpRevalidate(IF o.kind = "saveCfg" THEN invalidate(ampCell) ELSE ampCell, TRUE, o)
    /\ ampPage' = OnPage(o, [ampPage EXCEPT !.cfgDirty = @ /\ o.kind # "saveCfg", !.recs = @ \/ o.kind = "apply"])
    /\ ampOps' = ampOps \ {o}
    /\ UNCHANGED <<amp, ampSeen>>

\* The recorder refuses or cannot be reached; a request may have been carried out before its answer was lost.
AmpOpFails(o) ==
    /\ o \in ampOps
    /\ ampPage' = OnPage(o, Released(o))
    /\ ampOps' = ampOps \ {o}
    /\ UNCHANGED <<amp, ampCell, ampLoads, ampSeen>>

\* The recorder answers the two reads of a load, one after the other.
AmpReads(l) ==
    /\ l \in ampLoads /\ l.at # "done"
    /\ ampLoads' = (ampLoads \ {l}) \union
         {IF l.at = "status" THEN [l EXCEPT !.at = "sensors", !.snap = amp]
          ELSE [l EXCEPT !.at = "done", !.snap = [l.snap EXCEPT !.sens = amp.sens]]}
    /\ UNCHANGED <<amp, ampCell, ampPage, ampOps, ampSeen>>

\* The button that awaited the load is enabled again.
Waited(l) == IF l.waiter = NoOp THEN ampPage ELSE OnPage(l.waiter, Released(l.waiter))

AmpLoadEnds(l, ok) ==
    /\ l \in ampLoads /\ (ok => l.at = "done")
    /\ ampLoads' = ampLoads \ {l}
    /\ ampCell' = IF ok THEN Loaded(ampCell, l) ELSE LoadFailed(ampCell, l)
    /\ ampPage' = IF ampCell'.data = ampCell.data THEN Waited(l) ELSE seedForms(Waited(l), ampCell'.data)
    /\ UNCHANGED <<amp, ampOps, ampSeen>>

AmpOpEnds == \E o \in ampOps : AmpServed(o) \/ PersistAnswered(o) \/ ActAnswered(o) \/ RefreshAfter(o)
AmpLoadSteps == \E l \in ampLoads : AmpReads(l) \/ AmpLoadEnds(l, TRUE)

AmpNext ==
    \/ AmpMount \/ AmpLeave \/ TypeCfg \/ TypeDaq \/ AmpRefresh \/ ToggleEdit
    \/ \E kind \in {"saveCfg", "setMode", "measure", "apply", "write"} : Press(kind)
    \/ \E o \in ampOps : AmpServed(o) \/ PersistAnswered(o) \/ ActAnswered(o) \/ RefreshAfter(o) \/ AmpOpFails(o)
    \/ \E l \in ampLoads : AmpReads(l) \/ AmpLoadEnds(l, TRUE) \/ AmpLoadEnds(l, FALSE)

----------------------------------------------------------------------------
(* The NI-DAQ page. A channel is a name, a port, and whether it is virtual *)
(* and its formula one the recorder accepts.                               *)

Channel(name, physical, formula) == [name |-> name, physical |-> physical, formula |-> formula]
NoBuilder == [open |-> FALSE, name |-> "", formula |-> "", valid |-> Nil, timer |-> FALSE, validating |-> FALSE, typed |-> 0]
NoDaqPage == [shown |-> FALSE, channels |-> <<>>, devices |-> -1, pop |-> Nil, prompt |-> Nil, catalog |-> FALSE,
              builder |-> NoBuilder, edits |-> 0, acts |-> 0, visit |-> 0]

DaqInit ==
    /\ daq = [channels |-> <<Channel("Fx", Nil, Nil)>>, devices |-> 0]
    /\ daqCell = NoCell(NoDaq) /\ daqLoads = {} /\ daqOps = {} /\ daqPage = NoDaqPage

\* The watcher on the cell: the page shows what the cell holds.
SeedDaq(page, data) ==
    IF data = NoDaq \/ ~page.shown THEN page ELSE [page EXCEPT !.channels = data.channels, !.devices = data.devices]

DaqRevalidate ==
    IF Shares(daqCell, FALSE) THEN UNCHANGED <<daqCell, daqLoads>>
    ELSE /\ daqCell' = Begun(daqCell)
         /\ daqLoads' = daqLoads \union {[mine |-> daqCell.newest + 1, started |-> daqCell.epoch, snap |-> NoDaq, edits |-> daqPage.edits]}

DaqMount ==
    /\ ~daqPage.shown /\ daqPage.visit < MaxVisits
    /\ daqPage' = SeedDaq([NoDaqPage EXCEPT !.shown = TRUE, !.edits = daqPage.edits, !.acts = daqPage.acts, !.visit = daqPage.visit + 1], daqCell.data)
    /\ DaqRevalidate
    /\ UNCHANGED <<daq, daqOps>>

DaqLeave ==
    /\ daqPage.shown /\ daqPage.prompt = Nil /\ ~daqPage.builder.open
    /\ daqPage' = [NoDaqPage EXCEPT !.edits = daqPage.edits, !.acts = daqPage.acts, !.visit = daqPage.visit]
    /\ UNCHANGED <<daq, daqCell, daqLoads, daqOps>>

DaqRefresh ==
    /\ daqPage.shown /\ ~daqCell.loading /\ daqCell.newest < MaxLoads
    /\ DaqRevalidate
    /\ UNCHANGED <<daq, daqOps, daqPage>>

\* A local change of the list or the cards is written to the cell at once (the sync watcher).
LocalChange(page) ==
    /\ daqPage' = [page EXCEPT !.edits = IF page.devices = -1 THEN @ ELSE @ + 1]
    /\ daqCell' = IF page.devices = -1 THEN daqCell ELSE mutate(daqCell, [channels |-> page.channels, devices |-> page.devices])

Sent(kind, page) == [kind |-> kind, channels |-> IF kind = "put" THEN page.channels ELSE <<>>, served |-> FALSE, ok |-> TRUE,
                     formula |-> IF kind = "validate" THEN page.builder.formula ELSE "", visit |-> page.visit,
                     builder |-> IF kind = "validate" THEN page.acts ELSE 0, devices |-> 0]

\* save(): the whole list is put; nothing orders two puts.
ChangeAndSave(page) ==
    /\ LocalChange(page)
    /\ daqOps' = daqOps \union {Sent("put", page)}

\* The operator, while no prompt or builder covers the page.
Act(page) == [page EXCEPT !.acts = @ + 1]
Free == daqPage.shown /\ daqPage.prompt = Nil /\ ~daqPage.builder.open /\ daqPage.acts < MaxDaqOps

openPopover(port) ==
    /\ Free /\ daqPage.devices # -1
    /\ daqPage' = [daqPage EXCEPT !.pop = port]
    /\ UNCHANGED <<daq, daqCell, daqLoads, daqOps>>

\* Whoever held the port is unbound.
Unbound(channels, port) == [i \in DOMAIN channels |-> IF channels[i].physical = port THEN [channels[i] EXCEPT !.physical = Nil] ELSE channels[i]]

Assigned(channels, name, port) ==
    [i \in DOMAIN channels |-> IF channels[i].name = name THEN [channels[i] EXCEPT !.physical = port] ELSE Unbound(channels, port)[i]]

assignTo(name) ==
    /\ Free /\ daqPage.pop # Nil
    /\ ChangeAndSave(Act([daqPage EXCEPT !.channels = Assigned(daqPage.channels, name, daqPage.pop), !.pop = Nil]))
    /\ UNCHANGED <<daq, daqLoads>>

unassignPop ==
    /\ Free /\ daqPage.pop # Nil
    /\ ChangeAndSave(Act([daqPage EXCEPT !.channels = Unbound(@, daqPage.pop), !.pop = Nil]))
    /\ UNCHANGED <<daq, daqLoads>>

newAux ==
    /\ Free /\ daqPage.pop # Nil
    /\ daqPage' = [daqPage EXCEPT !.prompt = daqPage.pop, !.pop = Nil]
    /\ UNCHANGED <<daq, daqCell, daqLoads, daqOps>>

\* The prompt is answered with a name, any name, or cancelled; the list is the one of now.
AuxNamed(name) ==
    /\ daqPage.prompt # Nil /\ daqPage.acts < MaxDaqOps
    /\ ChangeAndSave(Act([daqPage EXCEPT !.prompt = Nil,
          !.channels = Append(Unbound(@, daqPage.prompt), Channel(name, daqPage.prompt, Nil))]))
    /\ UNCHANGED <<daq, daqLoads>>

AuxCancelled ==
    /\ daqPage.prompt # Nil
    /\ daqPage' = [daqPage EXCEPT !.prompt = Nil]
    /\ UNCHANGED <<daq, daqCell, daqLoads, daqOps>>

removeChannel(name) ==
    /\ Free
    /\ ChangeAndSave(Act([daqPage EXCEPT !.channels = SelectSeq(@, LAMBDA c : c.name # name), !.pop = Nil]))
    /\ UNCHANGED <<daq, daqLoads>>

----------------------------------------------------------------------------
(* VirtualChannelBuilder: a formula is checked 300 ms after the last key.  *)

\* addVirtual, editVirtual.
OpenBuilder(c) ==
    /\ Free
    /\ daqPage' = [Act(daqPage) EXCEPT !.builder = [NoBuilder EXCEPT !.open = TRUE, !.name = c.name, !.formula = IF c.formula = Nil THEN "" ELSE c.formula]]
    /\ UNCHANGED <<daq, daqCell, daqLoads, daqOps>>

TypeFormula(f) ==
    /\ daqPage.builder.open /\ daqPage.builder.formula # f /\ daqPage.builder.typed < MaxKeys
    /\ daqPage' = [daqPage EXCEPT !.builder = [@ EXCEPT !.formula = f, !.valid = Nil, !.timer = f # "", !.typed = @ + 1]]
    /\ UNCHANGED <<daq, daqCell, daqLoads, daqOps>>

runValidate ==
    /\ daqPage.builder.open /\ daqPage.builder.timer
    /\ daqPage' = [daqPage EXCEPT !.builder = [@ EXCEPT !.timer = FALSE, !.validating = TRUE]]
    /\ daqOps' = daqOps \union {Sent("validate", daqPage)}
    /\ UNCHANGED <<daq, daqCell, daqLoads>>

canSave(b) == b.formula # "" /\ b.valid = "yes"

saveVirtual(name) ==
    /\ daqPage.builder.open /\ canSave(daqPage.builder)
    /\ LET old == daqPage.builder.name
           entry == Channel(name, Nil, daqPage.builder.formula)
           list == daqPage.channels
       IN  ChangeAndSave([daqPage EXCEPT !.builder = NoBuilder,
               !.channels = IF old = "" THEN Append(list, entry)
                            ELSE [i \in DOMAIN list |-> IF list[i].name = old THEN entry ELSE list[i]]])
    /\ UNCHANGED <<daq, daqLoads>>

CloseBuilder ==
    /\ daqPage.builder.open
    /\ daqPage' = [daqPage EXCEPT !.builder = NoBuilder]
    /\ UNCHANGED <<daq, daqCell, daqLoads, daqOps>>

----------------------------------------------------------------------------
(* Auto-assign, the cards, and the recorder's answers.                     *)

Ask(kind) ==
    /\ Free /\ (kind = "card" => daqPage.catalog)
    /\ daqPage' = Act(daqPage)
    /\ daqOps' = daqOps \union {Sent(kind, daqPage')}
    /\ UNCHANGED <<daq, daqCell, daqLoads>>

ToggleCatalog ==
    /\ Free /\ daqPage.devices # -1
    /\ daqPage' = [daqPage EXCEPT !.catalog = ~@]
    /\ UNCHANGED <<daq, daqCell, daqLoads, daqOps>>

\* put is refused when a formula is bad; autoassign replaces the saved list.
DaqServed(o) ==
    /\ o \in daqOps /\ ~o.served
    /\ LET ok == CASE o.kind = "put" -> \A i \in DOMAIN o.channels : o.channels[i].formula # "bad"
                   [] o.kind = "validate" -> o.formula # "bad"
                   [] OTHER -> TRUE
       IN  /\ daq' = CASE o.kind = "put" /\ ok -> [daq EXCEPT !.channels = o.channels]
                       [] o.kind = "auto" -> [daq EXCEPT !.channels = <<Channel("Fx", CHOOSE p \in Ports : TRUE, Nil)>>]
                       [] o.kind = "card" -> [daq EXCEPT !.devices = @ + 1]
                       [] OTHER -> daq
           /\ daqOps' = (daqOps \ {o}) \union {[o EXCEPT !.served = TRUE, !.ok = ok, !.channels = IF o.kind = "auto" THEN daq'.channels ELSE <<>>,
                                              !.devices = IF o.kind = "card" THEN daq'.devices ELSE 0]}
    /\ UNCHANGED <<daqCell, daqLoads, daqPage>>

\* A card's answer is the device list it was given, and shuts the catalogue, whichever slot it is open for.
DaqAnswered(o) ==
    /\ o \in daqOps /\ o.served
    /\ daqOps' = daqOps \ {o}
    /\ IF ~daqPage.shown \/ o.visit # daqPage.visit THEN UNCHANGED <<daqCell, daqPage>>
       ELSE CASE o.kind = "auto" -> LocalChange([daqPage EXCEPT !.channels = o.channels])
              [] o.kind = "card" -> LocalChange([daqPage EXCEPT !.devices = o.devices, !.catalog = FALSE])
              [] o.kind = "put" -> UNCHANGED <<daqCell, daqPage>>   \* a refusal is only reported
              [] OTHER -> /\ daqPage' = IF daqPage.builder.open /\ o.builder = daqPage.acts
                                        THEN [daqPage EXCEPT !.builder = [@ EXCEPT !.valid = IF o.ok THEN "yes" ELSE "no", !.validating = FALSE]] ELSE daqPage
                          /\ UNCHANGED daqCell
    /\ UNCHANGED <<daq, daqLoads>>

DaqReads(l) ==
    /\ l \in daqLoads /\ l.snap = NoDaq
    /\ daqLoads' = (daqLoads \ {l}) \union {[l EXCEPT !.snap = daq]}
    /\ UNCHANGED <<daq, daqCell, daqPage, daqOps>>

DaqLoadEnds(l, ok) ==
    /\ l \in daqLoads /\ (ok => l.snap # NoDaq)
    /\ daqLoads' = daqLoads \ {l}
    /\ daqCell' = IF ok THEN Loaded(daqCell, l) ELSE LoadFailed(daqCell, l)
    /\ daqPage' = IF ok /\ Applies(daqCell, l) THEN SeedDaq(daqPage, l.snap) ELSE daqPage
    /\ UNCHANGED <<daq, daqOps>>

DaqLoadSteps == \E l \in daqLoads : DaqReads(l) \/ DaqLoadEnds(l, TRUE)
DaqOpSteps == \E o \in daqOps : DaqServed(o) \/ DaqAnswered(o)

DaqNext ==
    \/ DaqMount \/ DaqLeave \/ DaqRefresh \/ \E p \in Ports : openPopover(p)
    \/ \E c \in Range(daqPage.channels) : assignTo(c.name) \/ removeChannel(c.name) \/ (c.formula # Nil /\ OpenBuilder(c))
    \/ unassignPop \/ newAux \/ AuxCancelled \/ OpenBuilder(Channel("", Nil, Nil)) \/ CloseBuilder
    \/ \E name \in {"Fx", "Aux"} : AuxNamed(name) \/ saveVirtual(name)
    \/ \E f \in {"ok", "bad"} : TypeFormula(f)
    \/ runValidate \/ ToggleCatalog \/ Ask("auto") \/ Ask("card")
    \/ \E o \in daqOps : DaqServed(o) \/ DaqAnswered(o)
    \/ \E l \in daqLoads : DaqReads(l) \/ DaqLoadEnds(l, TRUE) \/ DaqLoadEnds(l, FALSE)

----------------------------------------------------------------------------
(* Properties.                                                             *)

(* The spinner of a cell runs exactly while its newest load is under way,  *)
(* however the loads overlap and end (swr.ts).                             *)
LoadingIsTrue ==
    /\ ampCell.loading <=> \E l \in ampLoads : IsNewest(ampCell, l)
    /\ daqCell.loading <=> \E l \in daqLoads : IsNewest(daqCell, l)

(* A load never brings back sensors older than the ones the last           *)
(* calibration write has returned: one that was under way across the write *)
(* is dropped (swr.ts).                                                    *)
SensorsNotOlder == ampCell.data # NoAmp => ampCell.data.sens >= ampSeen

(* While the channel names differ, no port is bound to two channels, after *)
(* any sequence of assignments, new channels and answers (NidaqPage.vue).  *)
OnePerPort ==
    LET c == daqPage.channels
    IN  (\A i, j \in DOMAIN c : i # j => c[i].name # c[j].name)
        => \A i, j \in DOMAIN c : i # j /\ c[i].physical # Nil => c[i].physical # c[j].physical

(* The list the next visit starts from is the one on the page: every local *)
(* change reaches the cell, every load the page (NidaqPage.vue 22-31).     *)
CellIsPage ==
    daqPage.shown /\ daqPage.devices # -1 => daqCell.data = [channels |-> daqPage.channels, devices |-> daqPage.devices]

(* A load that was asked for before a change of the page that had been     *)
(* loaded does not undo it, the promise of swr.ts 6-8.                     *)
LoadKeepsEdits ==
    [][\A l \in daqLoads \ daqLoads' : daqPage'.channels # daqPage.channels => l.edits = daqPage.edits]_daqVars

HardwareSafe == LoadingIsTrue /\ SensorsNotOlder /\ OnePerPort /\ CellIsPage

(* No button, no cell and no check of a formula spins for ever.            *)
HardwareQuiet ==
    /\ ~ampPage.busy /\ ~ampPage.arBusy /\ ~ampPage.writeBusy /\ ~ampCell.loading
    /\ ~daqCell.loading /\ ~daqPage.builder.validating

(* Does not hold (README, section 5): the amplifier form shows the settings *)
(* that were saved (LabAmpPage.vue 117-131, 29-35).                        *)
SavedIsShown == ampPage.shown /\ ~ampPage.daqDirty /\ ampOps = {} /\ ampLoads = {} /\ ampCell.data # NoAmp => ampPage.daq = amp.daq

(* Does not hold (README, section 5): a formula that may be saved is one   *)
(* the recorder accepts (VirtualChannelBuilder.vue 58-63).                 *)
ValidIsChecked == canSave(daqPage.builder) => daqPage.builder.formula = "ok"
==============================================================================
