----------------------------- MODULE SetupForms -----------------------------
(***************************************************************************)
(* What the operator fills in around a cut: the offline copy of the        *)
(* database's lists (record/lookupCache.ts, directusLookups.ts), the       *)
(* fields that search them (LookupField.vue), the editor of a capture's    *)
(* metadata (EditCaptureMetadataDialog.vue), the pre-flight line over the  *)
(* channels (preflight.ts, channelBindings.ts), and the options panel      *)
(* (RecordingOptions.vue, nidaqHardware.ts). One variable each.            *)
(***************************************************************************)
EXTENDS Integers, Sequences, FiniteSets, SequencesExt, FiniteSetsExt

CONSTANTS
    Entities,      \* the lists that are kept offline; "methods" is one of them
    MaxRowVersions,  \* bound: versions of the server's rows
    MaxSyncFails,  \* bound: requests of a sync that fail
    MaxLooks,      \* bound: searches, and sessions begun
    PAGE,          \* rows of a page
    Ids,           \* primary keys a table may hold
    Inserts, Edges,   \* edges are <<insert, n>>
    MaxToolPicks,      \* bound: things the operator does in the tooling fields
    MaxMetaSaves,  \* bound: clicks on Save
    Names,         \* the recorder's fixed columns, in order
    AiPorts,       \* analog inputs; the first Len(Names) are the defaults
    MaxChannelEdits, \* bound: changes of the saved channels
    MaxOptionSteps   \* bound: clicks on the options panel

ASSUME SetupAssumption ==
    /\ {MaxRowVersions, MaxSyncFails, MaxLooks, MaxToolPicks, MaxMetaSaves, MaxChannelEdits, MaxOptionSteps} \subseteq Nat
    /\ "methods" \in Entities /\ PAGE \in Nat \ {0} /\ Ids \subseteq Nat
    /\ Cardinality(AiPorts) >= Cardinality(Names)

VARIABLES lk, paging, fld, md, pf, opt

lkVars == <<lk>>
pgVars == <<paging>>
fldVars == <<fld>>
mdVars == <<md>>
pfVars == <<pf>>
optVars == <<opt>>

----------------------------------------------------------------------------
(* The offline lists. Rows are a version number, 0 for "never stored";     *)
(* `ops` are the requests IndexedDB serves in the order they were made.    *)

NotRead == -1
NoSync == [on |-> FALSE, only |-> {}, todo |-> {}, failed |-> {}, at |-> "fetch"]
NoLook == [at |-> "no", e |-> "methods", held |-> 0, got |-> 0]
Stamps == {"never", "old", "fresh"}

\* A first start, or a start with what an earlier one stored; a browser may have no IndexedDB.
LkInit ==
    \E idb \in BOOLEAN, had \in BOOLEAN, session \in {"none", "server"} :
        /\ had => idb
        /\ lk = [idb |-> idb, net |-> TRUE, session |-> session, srv |-> [e \in Entities |-> 1], fails |-> 0, looks |-> 0,
                 kv |-> [e \in Entities |-> IF had THEN 1 ELSE 0], meta |-> IF had THEN "old" ELSE "never",
                 memo |-> [e \in Entities |-> NotRead], ops |-> <<>>, syncedAt |-> IF had THEN "old" ELSE "never",
                 failed |-> {}, job |-> NoSync, look |-> NoLook, methods |-> 0]

hasServerSession(s) == s.session = "server"
preferCache(s) == s.session = "offline" \/ ~s.net
StoreAsked(s, op, e, v) == [s EXCEPT !.ops = Append(@, [op |-> op, e |-> e, v |-> v])]

\* syncLookups: one at a time; whoever asks meanwhile gets the one under way.
syncLookups(s, only) ==
    IF s.job.on \/ ~hasServerSession(s) THEN s
    ELSE [s EXCEPT !.job = [NoSync EXCEPT !.on = TRUE, !.only = only, !.todo = only]]

refreshIfNeeded(s) ==
    IF s.failed # {} THEN syncLookups(s, s.failed)
    ELSE IF s.syncedAt # "fresh" THEN syncLookups(s, Entities) ELSE s

NextEntity == CHOOSE e \in lk.job.todo : TRUE
Fetching == lk.job.on /\ lk.job.at = "fetch" /\ lk.job.todo # {}

SyncFetched ==
    /\ Fetching
    /\ lk' = StoreAsked([lk EXCEPT !.job.at = "put"], "sync", NextEntity, lk.srv[NextEntity])

EntityFailed(s, e) == [s EXCEPT !.job.todo = @ \ {e}, !.job.at = "fetch", !.job.failed = @ \union {e}]

SyncFetchFails ==
    /\ Fetching /\ lk.fails < MaxSyncFails
    /\ lk' = EntityFailed([lk EXCEPT !.fails = @ + 1], NextEntity)

\* The lists are through: the stamp is set only when none is left that failed.
SyncThrough ==
    /\ lk.job.on /\ lk.job.at = "fetch" /\ lk.job.todo = {}
    /\ LET failed == (lk.failed \ lk.job.only) \union lk.job.failed
       IN  lk' = IF failed # {} THEN [lk EXCEPT !.failed = failed, !.job = NoSync]
                 ELSE StoreAsked([lk EXCEPT !.failed = {}, !.syncedAt = "fresh", !.job.at = "meta"], "meta", "methods", 0)

\* storeRows, once the rows are written.
storeRows(s, e, v) == [s EXCEPT !.kv[e] = v, !.memo[e] = v]

Found(s, e, rows) == [s EXCEPT !.look = [@ EXCEPT !.at = "done", !.got = rows]]

StoreHead == {1} \intersect DOMAIN lk.ops

\* IndexedDB serves a request; without one every request is refused.
StoreServes(i) ==
    /\ i \in StoreHead
    /\ LET r == lk.ops[i]
           s == [lk EXCEPT !.ops = RemoveAt(@, i)]
       IN  lk' = CASE r.op = "sync" -> IF lk.idb THEN storeRows([s EXCEPT !.job.todo = @ \ {r.e}, !.job.at = "fetch"], r.e, r.v)
                                       ELSE EntityFailed(s, r.e)
                 [] r.op = "methods" -> IF lk.idb THEN storeRows(s, r.e, r.v) ELSE s
                 [] r.op = "meta" -> [s EXCEPT !.meta = IF lk.idb THEN lk.syncedAt ELSE @, !.job = NoSync]
                 [] r.op = "get" -> LET rows == IF lk.idb THEN lk.kv[r.e] ELSE 0
                                    IN  Found([s EXCEPT !.memo[r.e] = rows], r.e, rows)

\* viaCache's fallback: cachedRows reads the store once and remembers.
cachedRows(s, e) ==
    IF s.memo[e] # NotRead THEN Found(s, e, s.memo[e])
    ELSE StoreAsked([s EXCEPT !.look.at = "get"], "get", e, 0)

\* viaCache
LookupSearch(e) ==
    /\ lk.looks < MaxLooks /\ lk.look.at \in {"no", "done"}
    /\ LET s == [lk EXCEPT !.looks = @ + 1, !.look = [at |-> "online", e |-> e, held |-> lk.kv[e], got |-> 0]]
       IN  lk' = IF preferCache(lk) THEN cachedRows(s, e) ELSE s

LookupAnswered ==
    /\ lk.look.at = "online"
    /\ lk' = [lk EXCEPT !.look = NoLook]

SearchUnreachable ==
    /\ lk.look.at = "online"
    /\ lk' = cachedRows(lk, lk.look.e)

\* getMethods, answered by the server: the rows are stored too, and nobody waits for it.
getMethods ==
    /\ lk.methods = 0 /\ ~preferCache(lk) /\ lk.looks < MaxLooks
    /\ lk' = StoreAsked([lk EXCEPT !.methods = lk.srv["methods"], !.looks = @ + 1], "methods", "methods", lk.srv["methods"])

\* startLookupSync: every half hour, when the network comes back, and at every sign-in.
IntervalFires == hasServerSession(lk) /\ lk' = refreshIfNeeded(lk)
NetworkDown == lk.net /\ lk.looks < MaxLooks /\ lk' = [lk EXCEPT !.net = FALSE, !.looks = @ + 1]
Online == ~lk.net /\ lk' = IF hasServerSession(lk) THEN refreshIfNeeded([lk EXCEPT !.net = TRUE]) ELSE [lk EXCEPT !.net = TRUE]

SessionBegins(kind) ==
    /\ lk.session # kind /\ lk.looks < MaxLooks
    /\ LET s == [lk EXCEPT !.session = kind, !.looks = @ + 1] IN lk' = IF kind = "server" THEN syncLookups(s, Entities) ELSE s

RowsChange(e) == lk.srv[e] < MaxRowVersions /\ lk' = [lk EXCEPT !.srv[e] = @ + 1]
Aged(stamp) == IF stamp = "fresh" THEN "old" ELSE stamp
HoursPass == "fresh" \in {lk.syncedAt, lk.meta} /\ lk.looks < MaxLooks /\ lk' = [lk EXCEPT !.syncedAt = Aged(@), !.meta = Aged(@), !.looks = @ + 1]

\* The page is loaded again: only what IndexedDB holds is kept (loadLookupStatus).
Reload ==
    /\ lk.looks < MaxLooks
    /\ lk' = [lk EXCEPT !.memo = [e \in Entities |-> NotRead], !.ops = <<>>, !.failed = {}, !.job = NoSync, !.look = NoLook,
                        !.methods = 0, !.syncedAt = lk.meta, !.looks = @ + 1]

LkAnswer == SyncFetched \/ SyncThrough \/ \E i \in DOMAIN lk.ops : StoreServes(i)
LkNext ==
    \/ SyncFetched \/ SyncFetchFails \/ SyncThrough \/ LookupAnswered \/ SearchUnreachable \/ getMethods
    \/ IntervalFires \/ NetworkDown \/ Online \/ HoursPass \/ Reload
    \/ \E i \in DOMAIN lk.ops : StoreServes(i)
    \/ \E e \in Entities : LookupSearch(e) \/ RowsChange(e)
    \/ \E kind \in {"server", "offline", "none"} : SessionBegins(kind)

----------------------------------------------------------------------------
(* fetchAll: a table read page by page, in the order of its key, while     *)
(* others write it. `steady` are the rows there all along.                 *)

PgInit == \E t \in SUBSET Ids : paging = [table |-> t, page |-> 0, out |-> <<>>, done |-> FALSE, steady |-> t, deleted |-> FALSE]

PageRows == LET s == SetToSortSeq(paging.table, LAMBDA a, b : a < b) IN SubSeq(s, paging.page * PAGE + 1, Min({Len(s), (paging.page + 1) * PAGE}))

Unseen(rows) == SelectSeq(rows, LAMBDA r : r \notin ToSet(paging.out))

fetchAll ==
    /\ ~paging.done
    /\ paging' = [paging EXCEPT !.page = @ + 1, !.out = @ \o Unseen(PageRows), !.done = Len(PageRows) < PAGE]

RowAdded(r) == ~paging.done /\ paging.page > 0 /\ r \notin paging.table /\ paging' = [paging EXCEPT !.table = @ \union {r}]
RowDeleted(r) ==
    /\ ~paging.done /\ paging.page > 0 /\ r \in paging.table
    /\ paging' = [paging EXCEPT !.table = @ \ {r}, !.steady = @ \ {r}, !.deleted = TRUE]

PgNext == fetchAll \/ \E r \in Ids : RowAdded(r) \/ RowDeleted(r)

----------------------------------------------------------------------------
(* The Insert and Edge fields (LookupField.vue twice) over one link. A     *)
(* text is what was typed, or the label of what was picked.                *)

Blank == ""
Typed == "typed"
Label(x) == x
InsertOf(edge) == edge[1]
NoEdge == <<Blank, 0>>
FieldOf == [insert |-> Blank, edge |-> NoEdge]
NoField == [open |-> FALSE, timer |-> FALSE, loading |-> FALSE, finds |-> {}, items |-> {}]

\* The form may come with a link, from the remembered setup or a saved capture.
FldInit ==
    \E edge \in Edges \union {NoEdge} :
        fld = [link |-> [insert |-> InsertOf(edge), edge |-> edge], label |-> InsertOf(edge), text |-> InsertOf(edge),
               f |-> [k \in {"insert", "edge"} |-> NoField], acts |-> 0]

Fields == {"insert", "edge"}
MayPick == fld.acts < MaxToolPicks
Picking(s) == [s EXCEPT !.acts = @ + 1]
Emitted(s, k) == [s EXCEPT !.link[k] = FieldOf[k]]

\* runSearch: the edges of the insert that is linked when the search goes out.
runSearch(s, k) == [s EXCEPT !.f[k].loading = TRUE, !.f[k].finds = @ \union {s.link.insert}]
Matches(k, insert) == IF k = "insert" THEN Inserts ELSE {e \in Edges : insert = Blank \/ InsertOf(e) = insert}

focusField(k) ==
    /\ MayPick /\ ~fld.f[k].open
    /\ LET s == Picking([fld EXCEPT !.f[k].open = TRUE]) IN fld' = IF fld.f[k].items = {} THEN runSearch(s, k) ELSE s

\* onInput: what was selected no longer is; the label kept by the form stays.
onInput(k) ==
    /\ MayPick
    /\ fld' = Picking(Emitted([fld EXCEPT !.f[k].open = TRUE, !.f[k].timer = TRUE, !.text = IF k = "insert" THEN Typed ELSE @], k))

FieldTimer(k) == fld.f[k].timer /\ fld' = runSearch([fld EXCEPT !.f[k].timer = FALSE], k)

\* Answers are taken in the order they come; one that fails empties the list.
FieldAnswered(k, insert, ok) ==
    /\ insert \in fld.f[k].finds
    /\ fld' = [fld EXCEPT !.f[k].finds = @ \ {insert}, !.f[k].loading = FALSE, !.f[k].items = IF ok THEN Matches(k, insert) ELSE {}]

clearField(k) ==
    /\ MayPick /\ fld.link[k] # FieldOf[k]
    /\ fld' = Picking(Emitted([fld EXCEPT !.f[k].items = {}, !.text = IF k = "insert" THEN Blank ELSE @], k))

\* The text follows the label only when the label changes.
Relabel(s, label) == [s EXCEPT !.label = label, !.text = IF label # s.label THEN label ELSE @]

pickInsert(i) ==
    /\ MayPick /\ fld.f["insert"].open /\ i \in fld.f["insert"].items
    /\ LET s == [fld EXCEPT !.f["insert"].open = FALSE, !.link = [insert |-> i, edge |-> NoEdge]]
       IN  fld' = Picking([Relabel(s, Label(i)) EXCEPT !.text = Label(i)])

EdgePicked(s, e) ==
    IF InsertOf(e) = Blank THEN [s EXCEPT !.link.edge = e]
    ELSE Relabel([s EXCEPT !.link = [insert |-> InsertOf(e), edge |-> e]], Label(InsertOf(e)))

pickEdge(e) ==
    /\ MayPick /\ fld.f["edge"].open /\ e \in fld.f["edge"].items
    /\ fld' = Picking(EdgePicked([fld EXCEPT !.f["edge"].open = FALSE], e))

closeField(k) == fld.f[k].open /\ fld' = [fld EXCEPT !.f[k].open = FALSE]

FldNext ==
    \/ \E k \in Fields : focusField(k) \/ onInput(k) \/ FieldTimer(k) \/ clearField(k) \/ closeField(k)
    \/ \E k \in Fields : \E i \in fld.f[k].finds, ok \in BOOLEAN : FieldAnswered(k, i, ok)
    \/ \E i \in Inserts : pickInsert(i)
    \/ \E e \in Edges : pickEdge(e)

----------------------------------------------------------------------------
(* The metadata editor. A record has the editable `value` (0 is blank), the*)
(* link to the insert, who recorded it and what the upload stamped.        *)

Empty == [value |-> 0, insert |-> FALSE, recorder |-> FALSE, synced |-> FALSE]
MdInit ==
    \E uploaded \in BOOLEAN :
        md = [uploaded |-> uploaded, at |-> "loading", form |-> Empty, keys |-> Empty, local |-> [Empty EXCEPT !.value = 1, !.insert = TRUE, !.recorder = TRUE],
              db |-> IF uploaded THEN [Empty EXCEPT !.value = 1, !.recorder = TRUE, !.synced = TRUE, !.insert = TRUE] ELSE Empty,
              loaded |-> FALSE, sent |-> Empty, saves |-> 0]

\* loadFromDirectus does not ask for the insert; loadFromLocal takes what the record has.
MetaLoaded ==
    /\ md.at = "loading"
    /\ LET row == IF md.uploaded THEN md.db ELSE md.local
       IN  md' = [md EXCEPT !.at = "form", !.loaded = TRUE, !.form = [Empty EXCEPT !.value = row.value, !.insert = ~md.uploaded /\ row.insert],
                            !.keys = [Empty EXCEPT !.recorder = row.recorder, !.synced = md.uploaded /\ row.synced]]

\* The form is shown all the same, blank.
MetaLoadFails == md.at = "loading" /\ md' = [md EXCEPT !.at = "form"]

TypeValue(v) == md.at = "form" /\ md.form.value # v /\ md' = [md EXCEPT !.form.value = v]

buildExtraMetadata == [md.form EXCEPT !.recorder = md.keys.recorder]

SaveMeta ==
    /\ md.at = "form" /\ md.saves < MaxMetaSaves
    /\ md' = [md EXCEPT !.at = "local", !.sent = buildExtraMetadata, !.saves = @ + 1]

\* The capture's own record first; an answer may be lost after the write was `done`.
LocalPatched(ok, done) ==
    /\ md.at = "local" /\ (ok => done)
    /\ md' = [md EXCEPT !.local = IF done THEN md.sent ELSE @, !.at = IF ~ok THEN "form" ELSE IF md.uploaded THEN "db" ELSE "closed"]

\* Then the database row, with the upload's stamps put back.
RowPatched(ok, done) ==
    /\ md.at = "db" /\ (ok => done)
    /\ md' = [md EXCEPT !.db = IF done THEN [md.sent EXCEPT !.synced = md.keys.synced] ELSE @, !.at = IF ok THEN "closed" ELSE "form"]

\* Not while saving. A click beside the dialog closes it too.
CloseMeta == md.at \in {"form", "loading"} /\ md' = [md EXCEPT !.at = "closed"]

MdNext ==
    \/ MetaLoaded \/ MetaLoadFails \/ SaveMeta \/ CloseMeta
    \/ \E v \in {0, 2} : TypeValue(v)
    \/ \E ok, done \in BOOLEAN : LocalPatched(ok, done) \/ RowPatched(ok, done)

----------------------------------------------------------------------------
(* Pre-flight over the channels. A channel has a name and an input; those  *)
(* with a name of their own are auxiliary. The chassis' scan may be absent.*)

PortSeq == SetToSeq(AiPorts)
NameSeq == SetToSeq(Names)
Defaults == SubSeq(PortSeq, 1, Len(NameSeq))
NoPort == "none"
Aux == "aux"
NoModel == <<>>

\* The saved channels: each fixed one, bound or not, and perhaps an auxiliary one.
Models ==
    {[i \in 1..Len(NameSeq) |-> [name |-> NameSeq[i], physical |-> b[i]]] \o x :
        b \in [1..Len(NameSeq) -> AiPorts \union {NoPort}], x \in {<<>>} \union {<<[name |-> Aux, physical |-> p]>> : p \in AiPorts}}

modelPhysicals(m) == LET bound == SelectSeq(m, LAMBDA c : c.physical # NoPort) IN [i \in DOMAIN bound |-> bound[i].physical]
isCustomChannelList(text, m) == text \notin {<<>>, Defaults, modelPhysicals(m)}

\* missingBindings: nothing is missing from a scan that is empty or absent.
missingBindings(m, scan) == IF scan = {} THEN {} ELSE {c \in ToSet(m) : c.physical # NoPort /\ c.physical \notin scan}
Unbound(m) == {n \in Names : \A c \in ToSet(m) : c.name = n => c.physical = NoPort}
WiredTwice(m) == \E i, j \in DOMAIN m : i < j /\ m[i].physical = m[j].physical /\ m[i].physical # NoPort

configFails(m) == WiredTwice(m)

channelsItem(text, m, scan) ==
    IF isCustomChannelList(text, m) THEN IF scan # {} /\ ~(ToSet(text) \subseteq scan) THEN "fail" ELSE "skip"
    ELSE IF m = NoModel THEN "skip"
    ELSE IF configFails(m) \/ missingBindings(m, scan) # {} THEN "fail"
    ELSE IF Unbound(m) # {} THEN "warn" ELSE "ok"

offersReassign(m, scan) == missingBindings(m, scan) # {} \/ (scan # {} /\ Unbound(m) = Names)

\* What Start records from (record_start of the recorder): the list as sent, unless it is empty or the default one.
Physical(m, i) == IF m[i].physical = NoPort THEN Defaults[i] ELSE m[i].physical
to_record_channels(m) ==
    [i \in 1..Len(NameSeq) |-> Physical(m, i)] \o modelPhysicals(SelectSeq(m, LAMBDA c : c.name = Aux))
StartList(text, m) == IF text \in {<<>>, Defaults} THEN to_record_channels(m) ELSE text

PfInit ==
    \E m \in Models, own \in BOOLEAN, scan \in {{}, AiPorts, AiPorts \ {PortSeq[1]}} :
        pf = [model |-> m, text |-> IF own THEN modelPhysicals(m) ELSE Defaults, scan |-> scan, read |-> NoModel, polls |-> {}, assign |-> "no", edits |-> 0]

\* refreshPreflight, polled while waiting for Start.
refreshPreflight(s) == [s EXCEPT !.polls = @ \union {s.model}]
PollPreflight == pf.polls = {} /\ pf' = refreshPreflight(pf)
PreflightRead(m) == m \in pf.polls /\ pf' = [pf EXCEPT !.read = m, !.polls = @ \ {m}]
PreflightUnread(m) == m \in pf.polls /\ pf.edits < MaxChannelEdits /\ pf' = [pf EXCEPT !.read = NoModel, !.polls = @ \ {m}, !.edits = @ + 1]

\* A binding is changed on the NI-DAQ page.
Rebind(i, p) ==
    /\ pf.edits < MaxChannelEdits
    /\ pf' = [pf EXCEPT !.model[i].physical = p, !.edits = @ + 1]

\* The automatic layout: the inputs of the chassis, in order; one too few leaves a channel without.
AutoLayout(scan) ==
    LET ports == SelectSeq(PortSeq, LAMBDA p : p \in scan)
    IN  [i \in 1..Len(NameSeq) |-> [name |-> NameSeq[i], physical |-> IF i <= Len(ports) THEN ports[i] ELSE NoPort]]

runReassign ==
    /\ pf.assign = "no" /\ pf.edits < MaxChannelEdits /\ pf.read # NoModel /\ offersReassign(pf.read, pf.scan)
    /\ ~isCustomChannelList(pf.text, pf.read)
    /\ pf' = [pf EXCEPT !.assign = "asked", !.edits = @ + 1]

reassignChannels ==
    /\ pf.assign = "asked"
    /\ LET m == AutoLayout(pf.scan) IN pf' = refreshPreflight([pf EXCEPT !.model = m, !.text = modelPhysicals(m), !.assign = "no"])

ReassignFails == pf.assign = "asked" /\ pf' = [pf EXCEPT !.assign = "no"]

PfNext ==
    \/ PollPreflight \/ runReassign \/ reassignChannels \/ ReassignFails
    \/ \E m \in pf.polls : PreflightRead(m) \/ PreflightUnread(m)
    \/ \E i \in DOMAIN pf.model, p \in AiPorts : Rebind(i, p)

----------------------------------------------------------------------------
(* The options panel: which source, the rate its channels allow, and the   *)
(* cards that fold to fit the screen.                                      *)

Cards == {"machine", "tooling", "postCut"}
CLOSE_ORDER == <<"postCut", "machine">>
OptSources == {"sim", "replay", "nidaq"}
Lists == {"listA", "listB"}
NoRate == "none"

\* The source is remembered; the page is mounted, so the chassis has been asked for.
OptInit ==
    \E src \in OptSources :
        opt = [source |-> src, chans |-> "listA", rate |-> NoRate, asks |-> IF src = "nidaq" THEN {"listA"} ELSE {}, scan |-> "asked", missing |-> FALSE,
               locked |-> FALSE, fell |-> FALSE, open |-> [c \in Cards |-> c # "postCut"], touched |-> {}, fit |-> 0, steps |-> 0]

MayAct == opt.steps < MaxOptionSteps
Acting(s) == [s EXCEPT !.steps = @ + 1]

\* The watch on the source and the channel list.
checkMaxSampleRate(s) == IF s.source # "nidaq" THEN [s EXCEPT !.rate = NoRate] ELSE [s EXCEPT !.asks = @ \union {s.chans}]

\* The watch on the reason and the source: back to the simulated one, unless a cut is under way.
fallBack(s) ==
    IF s.missing /\ s.source = "nidaq" /\ ~s.locked THEN checkMaxSampleRate([s EXCEPT !.source = "sim", !.fell = TRUE])
    ELSE [s EXCEPT !.fell = @ /\ s.source = "sim"]

setSource(src) ==
    /\ MayAct /\ ~opt.locked /\ opt.source # src /\ (src = "nidaq" => ~opt.missing)
    /\ opt' = Acting(fallBack(checkMaxSampleRate([opt EXCEPT !.source = src])))

ListChanges(l) ==
    /\ MayAct /\ opt.chans # l
    /\ opt' = Acting(checkMaxSampleRate([opt EXCEPT !.chans = l]))

\* The answer is taken whatever was asked since.
RateAnswered(l, ok) ==
    /\ l \in opt.asks
    /\ opt' = [opt EXCEPT !.rate = IF ok THEN l ELSE NoRate, !.asks = @ \ {l}]

\* checkNidaqPresence, here and from the NI-DAQ page.
PresenceAnswered(missing) ==
    /\ opt.scan = "asked"
    /\ LET s == [opt EXCEPT !.scan = "known", !.missing = missing] IN opt' = IF missing # opt.missing THEN fallBack(s) ELSE s

Rescan == MayAct /\ opt.scan = "known" /\ opt' = Acting([opt EXCEPT !.scan = "asked"])
OptCutBegins == MayAct /\ ~opt.locked /\ opt' = Acting([opt EXCEPT !.locked = TRUE])
OptCutEnds == opt.locked /\ opt' = [opt EXCEPT !.locked = FALSE]

toggleCard(c) ==
    /\ MayAct
    /\ opt' = Acting([opt EXCEPT !.touched = @ \union {c}, !.open[c] = ~@])

\* fitToScreen: untouched cards are opened, then shut one by one while the panel overflows.
fitToScreen ==
    /\ opt.fit = 0 /\ MayAct
    /\ opt' = Acting([opt EXCEPT !.fit = 1, !.open = [c \in Cards |-> @[c] \/ c \notin opt.touched]])

Foldable(c) == c \notin opt.touched /\ opt.open[c]

FitNext(overflows) ==
    /\ opt.fit > 0
    /\ LET c == CLOSE_ORDER[opt.fit]
           s == [opt EXCEPT !.fit = IF overflows /\ opt.fit < Len(CLOSE_ORDER) THEN @ + 1 ELSE 0]
       IN  opt' = IF overflows /\ Foldable(c) THEN [s EXCEPT !.open[c] = FALSE] ELSE s

OptNext ==
    \/ \E src \in OptSources : setSource(src)
    \/ \E l \in Lists : ListChanges(l)
    \/ \E l \in opt.asks, ok \in BOOLEAN : RateAnswered(l, ok)
    \/ \E b \in BOOLEAN : PresenceAnswered(b) \/ FitNext(b)
    \/ \E c \in Cards : toggleCard(c)
    \/ Rescan \/ OptCutBegins \/ OptCutEnds \/ fitToScreen

----------------------------------------------------------------------------

\* Type invariant: versions, stamps, fields, ports and cards are of the kinds the pages use.
SetupTypeOK ==
    /\ lk.meta \in Stamps /\ lk.syncedAt \in Stamps /\ lk.failed \subseteq Entities /\ lk.job.todo \subseteq lk.job.only
    /\ \A e \in Entities : lk.kv[e] \in 0..MaxRowVersions /\ lk.memo[e] \in NotRead..MaxRowVersions
    /\ ToSet(paging.out) \subseteq Ids
    /\ fld.link.insert \in Inserts \union {Blank} /\ fld.link.edge \in Edges \union {NoEdge}
    /\ md.at \in {"loading", "form", "local", "db", "closed"}
    /\ ToSet(pf.text) \subseteq AiPorts /\ opt.touched \subseteq Cards /\ opt.rate \in Lists \union {NoRate}

\* What a list's memo says is what is stored: a search never misses rows a sync has written (lookupCache.ts, cachedRows and storeRows).
MemoIsStored == \A e \in Entities : lk.memo[e] # NotRead => lk.memo[e] = lk.kv[e]

\* A search made without the server comes back empty-handed only when nothing had been stored by then (directusLookups.ts, viaCache).
OfflineSearchFinds == lk.look.at = "done" /\ lk.look.got = 0 => lk.look.held = 0

\* The lists are called synced, now or after a reload, only when every one of them is stored (lookupCache.ts, syncLookups).
SyncedIsStored == lk.syncedAt # "never" \/ lk.meta # "never" => \A e \in Entities : lk.kv[e] # 0

\* A list read in pages while rows are added has no row twice (lookupCache.ts, fetchAll).
NoRowTwice == IsInjective(paging.out)

\* And it has every row that was there all along, when none was deleted meanwhile.
SteadyRowsFetched == paging.done /\ ~paging.deleted => paging.steady \subseteq ToSet(paging.out)

\* Does not hold (README, section 5): a row deleted from an earlier page makes the next page skip one (lookupCache.ts, fetchAll).
DeletedHidesNone == paging.done => paging.steady \subseteq ToSet(paging.out)

\* An edge and an insert that are both linked belong together, whatever was typed, cleared or answered late (RecordingOptions.vue, EditCaptureMetadataDialog.vue).
EdgeOfInsert == fld.link.insert # Blank /\ fld.link.edge # NoEdge => InsertOf(fld.link.edge) \in {Blank, fld.link.insert}

\* Does not hold (README, section 5): after the insert was typed over, an edge of the same insert links it again while the text stays (LookupField.vue, 48).
TextShowsInsert == fld.link.insert # Blank => fld.text = Label(fld.link.insert)

\* An editor that could load what was recorded never loses who recorded it, nor the upload's stamps (EditCaptureMetadataDialog.vue, recorder.ts).
RecorderKept == md.loaded => md.local.recorder /\ (md.uploaded => md.db.recorder /\ md.db.synced)

\* Does not hold (README, section 5): a blank form after a failed load can be saved (EditCaptureMetadataDialog.vue, 148-151).
RecorderNeverLost == md.local.recorder

\* Does not hold (README, section 5): the insert is not loaded from the database, and a save drops it (EditCaptureMetadataDialog.vue, 105-142).
InsertKept == md.loaded => md.local.insert

\* The database row is only ever given what the capture's own record already has (EditCaptureMetadataDialog.vue, save).
RowFollowsRecord == [][md.db' # md.db => md.local'.value = md.db'.value]_mdVars

\* Channels that are called fine, from a reading that is still true, start: no input twice, none that the chassis lacks (preflight.ts against record_start).
OkChannelsStart ==
    pf.read = pf.model /\ channelsItem(pf.text, pf.read, pf.scan) = "ok" =>
        LET list == StartList(pf.text, pf.model) IN IsInjective(list) /\ (pf.scan # {} => ToSet(list) \subseteq pf.scan)

\* Does not hold (README, section 5): "Start falls back to the default input for each" may give one input to two channels, or send a shorter list (preflight.ts, 242).
WarnedChannelsStart ==
    pf.read = pf.model /\ channelsItem(pf.text, pf.read, pf.scan) = "warn" =>
        LET list == StartList(pf.text, pf.model) IN IsInjective(list) /\ Len(list) >= Len(NameSeq)

\* Fitting the panel to the screen never folds or unfolds a card the operator has (RecordingOptions.vue, fitToScreen).
TouchedStays == [][opt'.fit # opt.fit => \A c \in opt.touched : opt'.open[c] = opt.open[c]]_optVars

\* Does not hold (README, section 5): the rate of another channel list, or of none, when answers overtake each other (nidaqHardware.ts, 67-73).
RateIsOfList == opt.asks = {} => opt.rate \in {NoRate} \union (IF opt.source = "nidaq" THEN {opt.chans} ELSE {})

\* Does not hold (README, section 5): hardware lost during a cut leaves the source on NI-DAQ after it (RecordingOptions.vue, 33-40).
FallsBackWhenFree == opt.missing /\ ~opt.locked => opt.source # "nidaq"

\* A list that failed is fetched again while the session lasts and the browser can store it (lookupCache.ts, refreshIfNeeded).
FailedIsRetried == []<>(lk.idb /\ lk.session = "server" => lk.failed = {})

\* The pre-flight line comes to be about the channels that are saved (workspace.ts, refreshPreflight).
PreflightCatchesUp == <>[](pf.read = pf.model)
============================================================================
