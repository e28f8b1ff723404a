------------------------------ MODULE LabPages ------------------------------
(***************************************************************************)
(* The lab's record pages in Directus: the sectioned record pages and the  *)
(* gate that drops late answers (d1-home, d1-ui useRequestGate and         *)
(* useSections), the edit drawer (EditDrawer.vue), the campaign panels and *)
(* their conditional assignments (d1-ui campaign), and the campaign's      *)
(* matrix and overview (matrix.ts, rollup.ts).  A batch PATCH with a query *)
(* is taken as one step, which is what its callers rely on.                *)
(***************************************************************************)
EXTENDS Integers, Sequences, FiniteSets, FiniteSetsExt, SequencesExt

CONSTANTS
    Sections,        \* sections of a record page
    MaxPageLoads,    \* loads of a record page
    MaxDrawerSteps,  \* clicks on and around the edit drawer
    MaxOtherSaves,   \* saves of the record by someone else
    MaxPanelClicks,  \* adds and removes on the campaign panels
    MaxFileRows      \* force-analysis rows of one operation

VARIABLES rec, drw, cam, rol

recVars == <<rec>>
drwVars == <<drw>>
camVars == <<cam>>
rolVars == <<rol>>

----------------------------------------------------------------------------
(* A record page.  `kind` is "record" for the pages that read their record *)
(* first and "campaign" for the workbench, which clears and reads at once. *)
(* Data is named by the record it is of; 0 is no record, or none yet.      *)

Records == 1..2
Blank == [of |-> 0, loading |-> FALSE, error |-> FALSE]

RecInit ==
    \E k \in {"record", "campaign"} :
        rec = [kind |-> k, id |-> 0, token |-> 0, head |-> 0, loading |-> FALSE, failed |-> FALSE,
               sec |-> [s \in Sections |-> Blank], canToken |-> 0, can |-> 0, reads |-> {}, loads |-> 0]

Read(part, token, id) == [part |-> part, token |-> token, id |-> id]
MutIsCurrent(r) == TRUE
IsCurrent(r) == r.token = IF r.part = "can" THEN rec.canToken ELSE rec.token
\* fill(): every section's read starts; what it showed stays until the answer.
Filling(p, token, id) ==
    [p EXCEPT !.sec = [s \in Sections |-> [p.sec[s] EXCEPT !.loading = TRUE, !.error = FALSE]],
              !.reads = @ \cup {Read(s, token, id) : s \in Sections}]
load(p, id) ==
    LET token == p.token + 1
        cleared == [p EXCEPT !.id = id, !.token = token, !.failed = FALSE, !.loads = @ + 1,
                             !.head = IF @ = id THEN @ ELSE 0,
                             !.sec = IF id = (IF p.kind = "record" THEN p.head ELSE p.id)
                                     THEN @ ELSE [s \in Sections |-> Blank]]
    IN CASE id = 0 -> cleared
         [] id # 0 /\ p.kind = "record" -> [cleared EXCEPT !.loading = TRUE, !.reads = @ \cup {Read("head", token, id)}]
         [] OTHER -> Filling(cleared, token, id)
\* createCanUpdate(): asked again for every record shown.
refreshCan(p) ==
    [p EXCEPT !.canToken = @ + 1, !.can = 0,
              !.reads = IF p.id = 0 THEN @ ELSE @ \cup {Read("can", p.canToken + 1, p.id)}]

OpenRecord == \E id \in {0} \cup Records : id # rec.id /\ rec.loads < MaxPageLoads /\ rec' = refreshCan(load(rec, id))
ReloadRecord == rec.id # 0 /\ rec.loads < MaxPageLoads /\ rec' = load(rec, rec.id)

HeadRead(ok) ==
    \E r \in rec.reads :
        LET p == [rec EXCEPT !.reads = @ \ {r}]
        IN /\ r.part = "head"
           /\ rec' = CASE ~IsCurrent(r) -> p
                       [] IsCurrent(r) /\ ok -> Filling([p EXCEPT !.head = r.id, !.loading = FALSE], r.token, r.id)
                       [] OTHER -> [p EXCEPT !.failed = TRUE, !.loading = FALSE]
SectionRead(ok) ==
    \E r \in rec.reads :
        LET p == [rec EXCEPT !.reads = @ \ {r}]
        IN /\ r.part \in Sections
           /\ rec' = CASE ~IsCurrent(r) -> p
                       [] IsCurrent(r) /\ ok -> [p EXCEPT !.sec[r.part] = [of |-> r.id, loading |-> FALSE, error |-> FALSE]]
                       [] OTHER -> [p EXCEPT !.sec[r.part].loading = FALSE, !.sec[r.part].error = TRUE]
CanRead(ok) ==
    \E r \in rec.reads :
        /\ r.part = "can"
        /\ rec' = [rec EXCEPT !.reads = @ \ {r}, !.can = IF IsCurrent(r) /\ ok THEN r.id ELSE @]

RecAnswer == \E ok \in BOOLEAN : HeadRead(ok) \/ SectionRead(ok) \/ CanRead(ok)
RecNext == OpenRecord \/ ReloadRecord \/ RecAnswer

(* A page never shows the record, a section or the permission of a record  *)
(* other than its own, however the answers of several loads overtake each  *)
(* other (useRequestGate.ts, useSections.ts, createCanUpdate.ts).          *)
SectionsOfPage ==
    /\ rec.head \in {0, rec.id} /\ rec.can \in {0, rec.id}
    /\ \A s \in Sections : rec.sec[s].of \in {0, rec.id}

(* The page's spinner always has a read to wait for, while it has a record.*)
SpinnerHasRead == rec.loading /\ rec.id # 0 => Read("head", rec.token, rec.id) \in rec.reads

(* Does not hold (README, section 5): a section's spinner has one too.     *)
SectionSpinnerHasRead ==
    \A s \in Sections : rec.sec[s].loading =>
        \E r \in rec.reads : r.part \in {s, "head"} /\ r.token = rec.token

----------------------------------------------------------------------------
(* The edit drawer over one of two records; `ver` is the version column,   *)
(* which every save raises.  `last` is the latest write of the drawer.     *)

NothingLoaded == [of |-> 0, ver |-> 0]
NoWrite == [key |-> 0, of |-> 0, base |-> 0, seen |-> 0, asked |-> FALSE]

DrwInit ==
    drw = [open |-> FALSE, key |-> 1, token |-> 0, reads |-> {}, item |-> NothingLoaded, edits |-> 0, ver |-> [k \in Records |-> 1],
           save |-> "", saveKey |-> 0, patch |-> NoWrite, conflict |-> FALSE, confirm |-> FALSE, error |-> FALSE,
           last |-> NoWrite, others |-> 0, steps |-> 0]

DrwStep(d) == drw.steps < MaxDrawerSteps /\ drw' = [d EXCEPT !.steps = @ + 1]
hasEdits == drw.edits # 0
DrawerLoad(d) ==
    [d EXCEPT !.token = @ + 1, !.item = NothingLoaded, !.edits = 0, !.error = FALSE, !.conflict = FALSE,
              !.reads = @ \cup {[token |-> d.token + 1, key |-> d.key]}]
DrawerShut(d) == [d EXCEPT !.open = FALSE, !.token = IF d.open THEN @ + 1 ELSE @]

OpenDrawer == ~drw.open /\ DrwStep(DrawerLoad([drw EXCEPT !.open = TRUE]))
ShowOther ==    \* the page moves to the other record, the drawer with it
    DrwStep(IF drw.open THEN DrawerLoad([drw EXCEPT !.key = 3 - @]) ELSE [drw EXCEPT !.key = 3 - @])
DrawerLoaded(ok) ==
    \E r \in drw.reads :
        LET d == [drw EXCEPT !.reads = @ \ {r}]
        IN drw' = IF r.token # drw.token \/ ~ok THEN d ELSE [d EXCEPT !.item = [of |-> r.key, ver |-> drw.ver[r.key]]]
EditItem == drw.open /\ drw.item # NothingLoaded /\ drw.save = "" /\ ~hasEdits /\ DrwStep([drw EXCEPT !.edits = drw.item.of])
cancel == drw.open /\ DrwStep(IF hasEdits THEN [drw EXCEPT !.confirm = TRUE] ELSE DrawerShut(drw))
discard == drw.confirm /\ DrwStep(DrawerShut([drw EXCEPT !.confirm = FALSE]))
keepEditing == drw.confirm /\ DrwStep([drw EXCEPT !.confirm = FALSE])
reloadMine == drw.conflict /\ drw.open /\ DrwStep(DrawerLoad(drw))

PatchSent(d, seen, asked) ==
    [d EXCEPT !.save = "patch", !.conflict = FALSE,
              !.patch = [key |-> d.key, of |-> d.saveKey, base |-> d.item.ver, seen |-> seen, asked |-> asked]]
save(overwrite) ==
    LET d == [drw EXCEPT !.error = FALSE, !.saveKey = drw.edits]
    IN /\ drw.open /\ hasEdits /\ drw.save = "" /\ (overwrite => drw.conflict)
       /\ DrwStep(IF overwrite THEN PatchSent(d, 0, TRUE) ELSE [d EXCEPT !.save = "check", !.patch.key = d.key])
versionChanged(loaded, current) == loaded # current
VersionRead ==
    /\ drw.save = "check"
    /\ LET current == drw.ver[drw.patch.key]
       IN drw' = CASE drw.item = NothingLoaded -> [drw EXCEPT !.save = "", !.error = TRUE]
                   [] drw.item # NothingLoaded /\ versionChanged(drw.item.ver, current) ->
                        [drw EXCEPT !.save = "", !.conflict = TRUE]
                   [] OTHER -> PatchSent(drw, current, FALSE)
Patched(ok) ==
    /\ drw.save = "patch"
    /\ drw' = IF ok THEN DrawerShut([drw EXCEPT !.save = "", !.ver[drw.patch.key] = @ + 1, !.last = drw.patch])
              ELSE [drw EXCEPT !.save = "", !.error = TRUE]
OtherSaves == \E k \in Records : drw.others < MaxOtherSaves /\ drw' = [drw EXCEPT !.ver[k] = @ + 1, !.others = @ + 1]

DrwNext ==
    \/ OpenDrawer \/ ShowOther \/ EditItem \/ cancel \/ discard \/ keepEditing \/ reloadMine \/ VersionRead \/ OtherSaves
    \/ (\E b \in BOOLEAN : DrawerLoaded(b) \/ save(b) \/ Patched(b))

(* A record saved by someone else before the drawer's version check is not *)
(* written over unless the user asked for it, and the form is always of    *)
(* the record the drawer is on (EditDrawer.vue 55-130).                    *)
OverwriteIsAsked ==
    /\ drw.last # NoWrite => drw.last.asked \/ drw.last.base = drw.last.seen
    /\ drw.open /\ drw.item # NothingLoaded => drw.item.of = drw.key

(* Do not hold (README, section 5): the edits are written to the record    *)
(* they were typed for (EditDrawer.vue:53, 122), and nothing is written    *)
(* over that was saved between the version check and the write.            *)
PatchOfItsRecord == drw.last.key = drw.last.of
CheckedIsCurrent ==
    [][drw'.last # drw.last /\ ~drw'.last.asked => drw.ver[drw.patch.key] = drw.patch.seen]_drw

----------------------------------------------------------------------------
(* The campaign panels, for one record.  Panels 1 and 3 are two tabs on     *)
(* campaign 1, panel 2 is on campaign 2; a campaign's project has its       *)
(* number.  An operation or a test is in at most one campaign ("move"), a   *)
(* sample may be in several ("sample").                                     *)

Panels == {1, 2, 3}
CampaignOf(p) == IF p = 2 THEN 2 ELSE 1
Idle == [phase |-> "", adding |-> FALSE, found |-> FALSE, listed |-> FALSE, message |-> "", search |-> 0, list |-> 0]

CamInit ==
    \E k \in {"move", "sample"} :
        cam = [kind |-> k, in |-> {}, project |-> 0, inherited |-> 0, panel |-> [p \in Panels |-> Idle], reads |-> {}, clicks |-> 0]

Visible(c, p, what) ==
    IF what = "list" THEN CampaignOf(p) \in c.in
    ELSE IF c.kind = "move" THEN c.in = {} ELSE ~c.panel[p].listed
\* A read by its panel's newest token shows the record as it was when sent or when answered.
Ask(c, p, what) ==
    [c EXCEPT !.panel[p] = IF what = "list" THEN [@ EXCEPT !.list = @ + 1] ELSE [@ EXCEPT !.search = @ + 1],
              !.reads = @ \cup {[panel |-> p, what |-> what, saw |-> Visible(c, p, what),
                                 token |-> 1 + IF what = "list" THEN c.panel[p].list ELSE c.panel[p].search]}]
OpenPanel(p) == cam.panel[p].list = 0 /\ cam' = Ask(Ask(cam, p, "list"), p, "search")
PanelRead ==
    \E r \in cam.reads : \E saw \in {r.saw, Visible(cam, r.panel, r.what)} :
        LET p == r.panel
            c == [cam EXCEPT !.reads = @ \ {r}]
        IN cam' = CASE r.what = "list" /\ r.token = cam.panel[p].list -> [c EXCEPT !.panel[p].listed = saw]
                    [] r.what = "search" /\ r.token = cam.panel[p].search ->
                        [c EXCEPT !.panel[p].found = IF cam.kind = "sample" THEN ~cam.panel[p].listed ELSE saw]
                    [] OTHER -> c

setCampaign(p, adding) ==
    /\ cam.panel[p].phase = "" /\ cam.clicks < MaxPanelClicks
    /\ IF adding THEN cam.panel[p].found ELSE cam.panel[p].listed
    /\ cam' = [cam EXCEPT !.panel[p].phase = "patch", !.panel[p].adding = adding, !.panel[p].message = "", !.clicks = @ + 1]
\* The end of an add or a remove: the lists are read again either way.
Done(c, p, message) ==
    LET q == [c EXCEPT !.panel[p].phase = "", !.panel[p].message = message,
                       !.panel[p].found = IF message = "failed" THEN @ ELSE FALSE]
        l == Ask(q, p, "list")
    IN IF c.kind = "move" \/ ~c.panel[p].adding THEN Ask(l, p, "search") ELSE l
\* The condition of the batch PATCH, or the unique pair of campaign_samples.
Matches(p) ==
    IF cam.kind = "sample" THEN cam.panel[p].adding <=> CampaignOf(p) \notin cam.in
    ELSE IF cam.panel[p].adding THEN cam.in = {} ELSE CampaignOf(p) \in cam.in
lostRaceMessage(p) ==
    IF cam.kind = "sample" THEN "" ELSE IF cam.panel[p].adding THEN "in another campaign" ELSE "no longer here"
Moved(p, ok) ==
    LET c == CampaignOf(p)
        put == [cam EXCEPT !.in = IF cam.kind = "move" THEN {c} ELSE @ \cup {c}]
    IN /\ cam.panel[p].phase = "patch"
       /\ cam' = CASE ~ok -> Done(cam, p, "failed")
                   [] ok /\ ~Matches(p) -> Done(cam, p, lostRaceMessage(p))
                   [] ok /\ Matches(p) /\ cam.panel[p].adding -> [put EXCEPT !.panel[p].phase = "inherit"]
                   [] OTHER -> Done([cam EXCEPT !.in = @ \ {c}], p, "")
inheritCampaignProject(p) ==
    /\ cam.panel[p].phase = "inherit"
    /\ cam' = Done(IF cam.project = 0 THEN [cam EXCEPT !.project = CampaignOf(p), !.inherited = CampaignOf(p)] ELSE cam, p, "")
InheritRefused(p) == cam.panel[p].phase = "inherit" /\ cam' = Done(cam, p, "")

CamNext ==
    \/ PanelRead
    \/ \E p \in Panels :
        OpenPanel(p) \/ inheritCampaignProject(p) \/ InheritRefused(p) \/ \E b \in BOOLEAN : setCampaign(p, b) \/ Moved(p, b)

(* No step takes an operation or a test out of one campaign into another,  *)
(* or replaces a project a record has, whoever else is picking (assign.ts  *)
(* 4-11).                                                                  *)
NeverTaken ==
    [][/\ cam.kind = "move" => Cardinality(cam'.in) <= 1 /\ (cam.in # {} => cam'.in \subseteq cam.in)
       /\ cam.project # 0 => cam'.project = cam.project]_cam

(* The panel that added or removed the record lists it where it now is,    *)
(* once its own reads are answered, when nobody else changed it.           *)
PanelQuiet == cam.reads = {} /\ \A p \in Panels : cam.panel[p].phase = ""
ListFollowsOwn ==
    PanelQuiet /\ cam.clicks = 1 => \A p \in Panels : cam.panel[p].list > 1 => cam.panel[p].listed = (CampaignOf(p) \in cam.in)

(* Do not hold (README, section 5): a record said to be in another campaign *)
(* is in another one (assign.ts:49), and the project a record inherited is  *)
(* that of the campaign it is in.                                           *)
LostRaceIsTrue ==
    \A p \in Panels : cam.panel[p].message = "in another campaign" /\ cam.clicks <= 2 => cam.in \ {CampaignOf(p)} # {}
InheritedOfCampaign == cam.kind = "move" /\ cam.inherited # 0 /\ cam.in # {} /\ PanelQuiet => cam.inherited \in cam.in

----------------------------------------------------------------------------
(* The matrix and the overview of a campaign with two operations.  A file   *)
(* is a force-analysis row: its status and that of its diagnostics.         *)

FileKinds == {<<"done", "done">>, <<"done", "none">>, <<"error", "none">>, <<"error", "error">>, <<"skipped", "none">>,
              <<"pending", "none">>, <<"processing", "none">>}
Ops == {1, 2}

worst(s) == IF "error" \in s THEN "error" ELSE IF "processing" \in s THEN "processing" ELSE IF "pending" \in s THEN "pending" ELSE ""
analysisState(files) ==
    LET s == {f[1] : f \in files}
    IN IF s = {} THEN "none" ELSE IF worst(s) # "" THEN worst(s) ELSE IF "done" \in s THEN "done" ELSE "skipped"
diagState(files) ==
    LET s == {f[2] : f \in {g \in files : g[1] # "skipped" /\ ~(g[1] = "error" /\ g[2] = "none")}}
    IN IF s = {} THEN "none" ELSE IF worst(s) # "" THEN worst(s) ELSE IF "none" \in s THEN "none" ELSE "done"
FORCE_RANK(s) == CHOOSE i \in 0..5 : <<"error", "processing", "pending", "done", "skipped", "none">>[i + 1] = s
countsTowardForceProgress(o) ==
    LET s == analysisState(rol.files[o]) IN (rol.machining[o] \/ s # "none") /\ s # "skipped"

\* The column of an operation: its sequence number, or its own when it has none.
ColumnOf(o) == IF rol.seq[o] = 0 THEN <<"code", o>> ELSE <<"op", rol.seq[o], rol.machining[o]>>
Placed == {o \in Ops : rol.sample[o] # 0}
unplaced == Cardinality(Ops \ Placed)
MatrixRows == rol.members \cup {rol.sample[o] : o \in Placed}
CellOps(s, c) == {o \in Placed : rol.sample[o] = s /\ ColumnOf(o) = c}
Cells == {<<rol.sample[o], ColumnOf(o)>> : o \in Placed}
CellFiles(cell) == UNION {rol.files[o] : o \in CellOps(cell[1], cell[2])}
\* The operation a cell opens: the first of those with the lowest rank.
Lead(cell) ==
    LET ops == CellOps(cell[1], cell[2])
        rank == [o \in ops |-> FORCE_RANK(analysisState(rol.files[o]))]
    IN Min({o \in ops : \A q \in ops : rank[o] <= rank[q]})

\* buildOverview(): rows per sample, and the progress over the operations that count.
SampleRows == rol.members \cup {rol.sample[o] : o \in {q \in Ops : rol.sample[q] # 0}}
OperationsOf(s) == Cardinality({o \in Ops : rol.sample[o] = s})
forceOps == {o \in Ops : countsTowardForceProgress(o)}
analysed == {o \in forceOps : analysisState(rol.files[o]) = "done"}
diagBuilt == {o \in forceOps : diagState(rol.files[o]) = "done"}

RolInit == rol = [read |-> FALSE, files |-> <<>>, sample |-> <<>>, seq |-> <<>>, machining |-> <<>>, members |-> {}]
CampaignRead ==
    /\ ~rol.read
    /\ \E files \in [Ops -> {fs \in SUBSET FileKinds : Cardinality(fs) <= MaxFileRows}], sample \in [Ops -> 0..2],
          seq \in [Ops -> 0..1], machining \in [Ops -> BOOLEAN], members \in {{}, {1}} :
        rol' = [read |-> TRUE, files |-> files, sample |-> sample, seq |-> seq, machining |-> machining, members |-> members]
RolNext == CampaignRead

(* Every operation is in one cell or counted as unplaced, a cell opens an   *)
(* operation that is in the state the cell shows, and the matrix and the    *)
(* overview agree on the samples; what is analysed, and what has its        *)
(* diagnostics built, counts toward the progress (matrix.ts, rollup.ts).    *)
MatrixIsWhole ==
    rol.read =>
        /\ MapThenSumSet(LAMBDA c : Cardinality(CellOps(c[1], c[2])), Cells) + unplaced = Cardinality(Ops)
        /\ \A c \in Cells : analysisState(rol.files[Lead(c)]) = analysisState(CellFiles(c))
        /\ MatrixRows = SampleRows
        /\ \A s \in SampleRows : OperationsOf(s) = MapThenSumSet(LAMBDA c : Cardinality(CellOps(c[1], c[2])), {d \in Cells : d[1] = s})
        /\ \A o \in Ops : analysisState(rol.files[o]) = "done" => o \in analysed
        /\ diagBuilt \subseteq {o \in Ops : rol.files[o] # {}}
==============================================================================
