------------------------------ MODULE DiagBake -----------------------------
(* DiagnosticsPage.vue and DiagnosticsWorkbench.vue: baking a recipe. The     *)
(* page marks the row pending and polls it until the host is done; the        *)
(* workbench shows the baked working set, or a preview that a debounced       *)
(* request computes for the edited recipe, and a strip that says which.       *)
(* Base is the recipe the cut was first baked with.                           *)
EXTENDS Naturals, FiniteSets, Sequences, SequencesExt

CONSTANTS Recipes,      \* the recipes the operator can edit to
          Invalid,      \* those that recipeProblems() finds fault with
          MaxEdits,     \* bound on edits, bakes, refreshes
          MaxPreviews   \* bound on previews in flight

NoSet == "none"
Base == "base"

VARIABLES host,   \* the row: status, recipe, what the artifacts were baked with, what is being baked
          prow,   \* the page's row: status, recipe, and which load of the list it came from
          bld,    \* build(): phase, the row object it holds, the message left behind
          wb,     \* the workbench: recipe, baked set, preview set, error, preview error
          prev,   \* the preview: timer armed, busy flag, current request
          gets,   \* requests in flight: the baked set, previews, the list
          bakePast

bakeVars == <<host, prow, bld, wb, prev, gets, bakePast>>

BakeInit ==
  /\ host = [status |-> "done", recipe |-> Base, baked |-> Base, doing |-> NoSet]
  /\ prow = [status |-> "done", recipe |-> Base, gen |-> 0, list |-> "idle"]
  /\ bld = [at |-> "idle", gen |-> 0, rec |-> NoSet, msg |-> "none"]
  /\ wb = [recipe |-> Base, baked |-> NoSet, prev |-> NoSet, err |-> FALSE, perr |-> FALSE]
  /\ prev = [timer |-> FALSE, busy |-> FALSE, cur |-> 0]
  /\ gets = {[kind |-> "baked", id |-> 0, of |-> Base]}
  /\ bakePast = [edits |-> 0, runs |-> 0, crossed |-> FALSE]

Edited == bakePast' = [bakePast EXCEPT !.edits = @ + 1]
MayEdit == bakePast.edits < MaxEdits
recipeValid(r) == r \notin Invalid
bakeStale == wb.recipe # prow.recipe

(* An edit of the recipe re-arms the 400 ms preview timer.                   *)
EditRecipe(r) ==
  /\ MayEdit /\ r # wb.recipe /\ wb' = [wb EXCEPT !.recipe = r] /\ prev' = [prev EXCEPT !.timer = TRUE]
  /\ Edited /\ UNCHANGED <<host, prow, bld, gets>>

(* runPreview(): the request before it is aborted; an invalid recipe asks for *)
(* nothing, one equal to the baked recipe drops the preview, any other is      *)
(* computed.                                                                   *)
Dropped == [wb EXCEPT !.prev = NoSet, !.perr = FALSE]

runPreview ==
  /\ prev.timer
  /\ IF ~recipeValid(wb.recipe)
     THEN prev' = [timer |-> FALSE, busy |-> FALSE, cur |-> 0] /\ wb' = [wb EXCEPT !.perr = FALSE] /\ UNCHANGED <<gets, bakePast>>
     ELSE IF ~bakeStale
     THEN prev' = [prev EXCEPT !.timer = FALSE, !.cur = 0] /\ wb' = Dropped /\ UNCHANGED <<gets, bakePast>>
     ELSE /\ Cardinality({g \in gets : g.kind = "preview"}) < MaxPreviews
          /\ prev' = [timer |-> FALSE, busy |-> TRUE, cur |-> bakePast.runs + 1] /\ wb' = [wb EXCEPT !.perr = FALSE]
          /\ gets' = gets \cup {[kind |-> "preview", id |-> bakePast.runs + 1, of |-> wb.recipe]}
          /\ bakePast' = [bakePast EXCEPT !.runs = @ + 1]
  /\ UNCHANGED <<host, prow, bld>>

(* An aborted request writes nothing. The busy flag belongs to the newest one *)
(* started, aborted or not: the finally of an older one leaves it.            *)
NotAborted(g) == g.id = prev.cur
Newest(g) == g.id = bakePast.runs

PreviewAnswer(g, ok) ==
  /\ g \in gets /\ g.kind = "preview" /\ gets' = gets \ {g}
  /\ wb' = IF ~NotAborted(g) THEN wb ELSE IF ok THEN [wb EXCEPT !.prev = g.of] ELSE [wb EXCEPT !.perr = TRUE]
  /\ prev' = [prev EXCEPT !.busy = @ /\ ~Newest(g)]
  /\ UNCHANGED <<host, prow, bld, bakePast>>

(* loadBaked(): the artifacts as they are when the host answers.             *)
BakedAnswer(g, ok) ==
  /\ g \in gets /\ g.kind = "baked" /\ gets' = gets \ {g}
  /\ wb' = IF ok THEN [wb EXCEPT !.baked = host.baked] ELSE [wb EXCEPT !.err = TRUE]
  /\ UNCHANGED <<host, prow, bld, prev, bakePast>>

(* onBake / build(recipe): the page's row takes the recipe at once, so the    *)
(* workbench stops calling it stale, and the workbench's own copy is replaced,*)
(* which re-arms the preview.                                                 *)
Bake ==
  /\ MayEdit /\ bld.at = "idle" /\ recipeValid(wb.recipe) /\ prow.status = "done"
  /\ bld' = [at |-> "asking", gen |-> prow.gen, rec |-> wb.recipe, msg |-> "requesting"]
  /\ prow' = [prow EXCEPT !.recipe = wb.recipe] /\ prev' = [prev EXCEPT !.timer = TRUE]
  /\ Edited /\ UNCHANGED <<host, wb, gets>>

(* A plain Build or Retry, offered when nothing is baked to show.            *)
BuildAgain ==
  /\ MayEdit /\ bld.at = "idle" /\ prow.status # "done"
  /\ bld' = [at |-> "asking", gen |-> prow.gen, rec |-> NoSet, msg |-> "requesting"]
  /\ Edited /\ UNCHANGED <<host, prow, wb, prev, gets>>

(* finally: whatever the end, the lock is released and its message stays.    *)
Ended(m) == [bld EXCEPT !.at = "idle", !.msg = m]

(* The PATCH: pending, with the recipe when there is one. A refusal ends the  *)
(* build with its reason, and the page's row keeps the recipe it was given.   *)
Patched(h) == [h EXCEPT !.status = "pending", !.recipe = IF bld.rec = NoSet THEN @ ELSE bld.rec]

PatchAnswer(ok) ==
  /\ bld.at = "asking"
  /\ host' = IF ok THEN Patched(host) ELSE host
  /\ bld' = IF ok THEN [bld EXCEPT !.at = "polling", !.msg = "analysing"] ELSE Ended("failed")
  /\ UNCHANGED <<prow, wb, prev, gets, bakePast>>

(* The host claims a pending row with the recipe it has then, and writes the  *)
(* artifacts over the old ones: diag_path is the operation's id. A request    *)
(* made while it works is overwritten by the status it ends with.             *)
HostClaims ==
  /\ host.status = "pending" /\ host.doing = NoSet /\ host' = [host EXCEPT !.status = "processing", !.doing = host.recipe]
  /\ UNCHANGED <<prow, bld, wb, prev, gets, bakePast>>

HostEnds(ok) ==
  /\ host.doing # NoSet
  /\ host' = IF ok THEN [host EXCEPT !.status = "done", !.baked = host.doing, !.doing = NoSet]
             ELSE [host EXCEPT !.status = "error", !.doing = NoSet]
  /\ UNCHANGED <<prow, bld, wb, prev, gets, bakePast>>

(* A poll that finds the build over writes the row object build() holds: if a *)
(* reload replaced the list meanwhile, that object is on the page no longer.  *)
(* The path is the same, so the workbench loads nothing.                      *)
Held == bld.gen = prow.gen
BuildOver(s) == s \in {"done", "error"}

Poll ==
  /\ bld.at = "polling" /\ BuildOver(host.status)
  /\ bld' = Ended(IF host.status = "done" THEN "none" ELSE "failed")
  /\ prow' = IF Held THEN [prow EXCEPT !.status = host.status, !.recipe = host.recipe] ELSE prow
  /\ UNCHANGED <<host, wb, prev, gets, bakePast>>

(* 15 minutes of polls without an end, or a poll that fails.                 *)
GiveUp ==
  /\ bld.at = "polling" /\ bld' = Ended("still")
  /\ UNCHANGED <<host, prow, wb, prev, gets, bakePast>>

(* Refresh: offered only when no load and no build is under way.             *)
RefreshRows ==
  /\ MayEdit /\ prow.list = "idle" /\ bld.at = "idle" /\ prow' = [prow EXCEPT !.list = "loading"]
  /\ Edited /\ UNCHANGED <<host, bld, wb, prev, gets>>

(* New row objects. A cut that is not "done" any more takes its workbench     *)
(* away; one that is done again mounts a new one.                             *)
Mounted(recipe) == [recipe |-> recipe, baked |-> NoSet, prev |-> NoSet, err |-> FALSE, perr |-> FALSE]

RowsArrive(ok) ==
  /\ prow.list = "loading"
  /\ IF ~ok THEN prow' = [prow EXCEPT !.list = "idle"] /\ UNCHANGED <<wb, prev, gets>>
     ELSE LET again == prow.status # "done" /\ host.status = "done" IN
          /\ prow' = [status |-> host.status, recipe |-> host.recipe, gen |-> prow.gen + 1, list |-> "idle"]
          /\ wb' = IF again THEN Mounted(host.recipe) ELSE wb
          /\ prev' = IF again THEN [timer |-> FALSE, busy |-> FALSE, cur |-> 0] ELSE prev
          /\ gets' = IF again THEN {[kind |-> "baked", id |-> 0, of |-> Base]} ELSE gets
  /\ bakePast' = [bakePast EXCEPT !.crossed = ok /\ bld.at # "idle"]
  /\ UNCHANGED <<host, bld>>

BakeNext ==
  \/ \E r \in Recipes : EditRecipe(r)
  \/ \E g \in gets, ok \in BOOLEAN : PreviewAnswer(g, ok) \/ BakedAnswer(g, ok)
  \/ \E ok \in BOOLEAN : PatchAnswer(ok) \/ HostEnds(ok) \/ RowsArrive(ok)
  \/ runPreview \/ Bake \/ BuildAgain \/ HostClaims \/ Poll \/ GiveUp \/ RefreshRows

-----------------------------------------------------------------------------
(* The strip above the panels (state): what the operator is told they see.   *)
Strip ==
  IF ~recipeValid(wb.recipe) \/ (bld.at = "idle" /\ bld.msg # "none") THEN "error"
  ELSE IF bld.at # "idle" THEN "busy"
  ELSE IF prev.busy \/ wb.prev # NoSet THEN "preview"
  ELSE IF bakeStale THEN "stale" ELSE "baked"
Shown == IF wb.prev # NoSet THEN wb.prev ELSE wb.baked

BakeTypeOK ==
  /\ host.status \in {"pending", "processing", "done", "error"} /\ prow.list \in {"idle", "loading"}
  /\ bld.at \in {"idle", "asking", "polling"} /\ (bld.at # "idle" => bld.msg \in {"requesting", "analysing"})
  /\ wb.baked \in Recipes \cup {NoSet} /\ wb.prev \in Recipes \cup {NoSet}

(* A quiet workbench shows the preview of the recipe on the panel, not that   *)
(* of an edit before it, whatever order the previews came back in.            *)
PreviewIsNewest == (~prev.timer /\ ~prev.busy /\ ~wb.perr /\ recipeValid(wb.recipe) /\ bakeStale /\ wb.prev # NoSet) => wb.prev = wb.recipe

(* The strip says "baked" only when the recipe on the panel is the one the    *)
(* host's artifacts were made with, unless the list was reloaded under the    *)
(* build (README, section 5).                                                 *)
StripIsHosts == (Strip = "baked" /\ ~bakePast.crossed /\ prow.status = "done" /\ host.status = "done" /\ host.baked = host.recipe)
                  => wb.recipe = host.baked

(* Spinners end: the preview's flag and the build's lock are released.        *)
BakeQuiet == ~prev.busy /\ bld.at = "idle"

(* Does not hold (README, section 5): "Showing the baked result for this cut  *)
(* - authoritative." The path of the artifacts does not change, so the set    *)
(* loaded before the bake stays.                                              *)
AuthoritativeIsBaked == (Strip = "baked" /\ host.status = "done" /\ wb.baked # NoSet /\ ~prev.timer) => Shown = host.baked

(* Does not hold (README, section 5): a bake asked for again while the host   *)
(* still works on the one before is lost.                                     *)
RequestIsBuilt == (host.status = "done" /\ host.doing = NoSet) => host.baked = host.recipe

(* Does not hold (README, section 5): a build ends on the page.              *)
BuiltIsShown == (bld.at = "idle" /\ bld.msg = "none" /\ prow.list = "idle" /\ host.status = "done" /\ prow.gen = bld.gen + 1) => prow.status = "done"

------------------------------------------------------------------------------
(* "Apply recipe to selected" on the Diagnostics page: the picker's ticks      *)
(* (DiagPicker.vue), the plan and its run (diagBatch.ts), and the dialog       *)
(* around them (DiagBatchDialog.vue). The plan is made from the page's list,   *)
(* one request per operation follows, and the host works the queue meanwhile.  *)

CONSTANTS BatchOps,    \* operations on the page
          MaxBatchActs   \* bound on list loads and dialogs opened

NoRecipe == "none"
New == "new"           \* the saved recipe the dialog applies

VARIABLES hrow,    \* the rows: diag_status, diag_recipe (kept when a build fails)
          seen,    \* the page's copies of them
          ticked,  \* checked operations, and the buckets the picker filters by
          bdlg,    \* the dialog: open, rebuild, running, cancelRequested, stopped, the plan left, the summary
          batchPast

batchVars == <<hrow, seen, ticked, bdlg, batchPast>>

Status == {"none", "pending", "processing", "done", "error"}
Empty == [queued |-> {}, skipped |-> {}, refused |-> {}, notRun |-> {}, cancelled |-> FALSE]
Closed == [open |-> FALSE, rebuild |-> FALSE, running |-> FALSE, cancel |-> FALSE, stopped |-> FALSE,
           todo |-> <<>>, sum |-> Empty, done |-> FALSE]

BatchInit ==
  /\ hrow \in [BatchOps -> {[st |-> "none", rec |-> NoRecipe], [st |-> "done", rec |-> New]}]
  /\ seen = hrow /\ ticked = {} /\ bdlg = Closed
  /\ batchPast = [acts |-> 0, sent |-> {}, plan |-> {}, afterStop |-> FALSE, loading |-> FALSE, shown |-> {}]

(* bucketOf: what the picker counts and filters by.                          *)
bucketOf(r) == IF r.st = "error" THEN "error" ELSE IF r.st = "done" THEN "built" ELSE "needs"
filterRows(bs) == {o \in BatchOps : bs = {} \/ bucketOf(seen[o]) \in bs}

(* toggleOne, and selectAllFiltered: every row the filter keeps.             *)
Tick(o) ==
  /\ ~bdlg.open /\ ticked' = IF o \in ticked THEN ticked \ {o} ELSE ticked \cup {o}
  /\ UNCHANGED <<hrow, seen, bdlg, batchPast>>
TickAll(b) ==
  /\ ~bdlg.open /\ ticked' = ticked \cup filterRows({b}) /\ ticked' # ticked
  /\ UNCHANGED <<hrow, seen, bdlg, batchPast>>

OpenBatch ==
  /\ ~bdlg.open /\ ticked # {} /\ batchPast.acts < MaxBatchActs /\ bdlg' = [Closed EXCEPT !.open = TRUE]
  /\ batchPast' = [batchPast EXCEPT !.acts = @ + 1] /\ UNCHANGED <<hrow, seen, ticked>>
ToggleRebuild ==
  /\ bdlg.open /\ ~bdlg.running /\ ~bdlg.done /\ bdlg' = [bdlg EXCEPT !.rebuild = ~@] /\ UNCHANGED <<hrow, seen, ticked, batchPast>>
(* close(): not while the batch runs.                                        *)
CloseBatch ==
  /\ bdlg.open /\ ~bdlg.running /\ bdlg' = Closed
  /\ batchPast' = [batchPast EXCEPT !.plan = {}, !.sent = {}, !.shown = {}] /\ UNCHANGED <<hrow, seen, ticked>>

(* planBatch: a row that is queued or worked on is skipped, and one already   *)
(* built with the recipe, unless the operator asked to rebuild.               *)
builtWithRecipe(r) == r.st = "done" /\ r.rec = New
Planned(r) == r.st \notin {"pending", "processing"} /\ (bdlg.rebuild \/ ~builtWithRecipe(r))

(* start(): nothing to queue, nothing to do.                                 *)
Start ==
  /\ bdlg.open /\ ~bdlg.running /\ ~bdlg.done
  /\ LET plan == {o \in ticked : Planned(seen[o])} IN
     /\ plan # {}
     /\ bdlg' = [bdlg EXCEPT !.running = TRUE, !.cancel = FALSE, !.todo = SetToSeq(plan),
                             !.sum = [Empty EXCEPT !.skipped = ticked \ plan]]
     /\ batchPast' = [batchPast EXCEPT !.plan = plan, !.sent = {}, !.shown = {o \in BatchOps : builtWithRecipe(seen[o])}]
  /\ UNCHANGED <<hrow, seen, ticked>>

Cancel == bdlg.running /\ ~bdlg.cancel /\ bdlg' = [bdlg EXCEPT !.cancel = TRUE] /\ UNCHANGED <<hrow, seen, ticked, batchPast>>

(* One turn of runBatch: after a cancel or a 403 the rest is "not run"; a      *)
(* request queues the row, or is refused (403: the role may not, so stop).    *)
Halted == bdlg.stopped \/ bdlg.cancel
Fatal(answer) == answer = "forbidden"

MutNotRun(o) == {}
NotRun(o) == {o}

Requested(o, answer) ==
  /\ bdlg.running /\ bdlg.todo # <<>> /\ o = Head(bdlg.todo)
  /\ IF Halted
     THEN /\ answer = "ok"
          /\ bdlg' = [bdlg EXCEPT !.todo = Tail(@), !.stopped = TRUE, !.sum.notRun = @ \cup NotRun(o), !.sum.cancelled = @ \/ ~bdlg.stopped]
          /\ UNCHANGED <<hrow, batchPast>>
     ELSE /\ hrow' = IF answer = "ok" THEN [hrow EXCEPT ![o] = [st |-> "pending", rec |-> New]] ELSE hrow
          /\ batchPast' = [batchPast EXCEPT !.sent = @ \cup {o}, !.afterStop = @ \/ bdlg.cancel \/ \E r \in bdlg.sum.refused : r[2] = "forbidden"]
          /\ bdlg' = IF answer = "ok" THEN [bdlg EXCEPT !.todo = Tail(@), !.sum.queued = @ \cup {o}]
                     ELSE [bdlg EXCEPT !.todo = Tail(@), !.sum.refused = @ \cup {<<o, answer>>}, !.stopped = Fatal(answer)]
  /\ UNCHANGED <<seen, ticked>>

(* The summary, and 'finished': the page loads its list again.               *)
ReleasedBatch == FALSE

Finish ==
  /\ bdlg.running /\ bdlg.todo = <<>> /\ ~bdlg.done
  /\ bdlg' = [bdlg EXCEPT !.running = ReleasedBatch, !.done = TRUE]
  /\ batchPast' = [batchPast EXCEPT !.loading = TRUE] /\ UNCHANGED <<hrow, seen, ticked>>

-----------------------------------------------------------------------------
Refresh ==
  /\ ~batchPast.loading /\ ~bdlg.open /\ batchPast.acts < MaxBatchActs
  /\ batchPast' = [batchPast EXCEPT !.loading = TRUE, !.acts = @ + 1] /\ UNCHANGED <<hrow, seen, ticked, bdlg>>
RowsLoaded ==
  /\ batchPast.loading /\ seen' = hrow /\ batchPast' = [batchPast EXCEPT !.loading = FALSE] /\ UNCHANGED <<hrow, ticked, bdlg>>
HostClaim(o) ==
  /\ hrow[o].st = "pending" /\ hrow' = [hrow EXCEPT ![o].st = "processing"] /\ UNCHANGED <<seen, ticked, bdlg, batchPast>>
HostDone(o, ok) ==
  /\ hrow[o].st = "processing" /\ hrow' = [hrow EXCEPT ![o].st = IF ok THEN "done" ELSE "error"]
  /\ UNCHANGED <<seen, ticked, bdlg, batchPast>>

BatchNext ==
  \/ \E o \in BatchOps : Tick(o) \/ HostClaim(o) \/ (\E ok \in BOOLEAN : HostDone(o, ok))
                           \/ (\E a \in {"ok", "forbidden", "failed"} : Requested(o, a))
  \/ \E b \in {"needs", "built", "error"} : TickAll(b)
  \/ OpenBatch \/ ToggleRebuild \/ CloseBatch \/ Start \/ Cancel \/ Finish \/ Refresh \/ RowsLoaded

-----------------------------------------------------------------------------
BatchTypeOK ==
  /\ ticked \subseteq BatchOps /\ \A o \in BatchOps : hrow[o].st \in Status /\ seen[o].st \in Status
  /\ Range(bdlg.todo) \subseteq BatchOps /\ (bdlg.done => ~bdlg.running)

(* Every planned operation is accounted for exactly once: queued, refused, or *)
(* not run, and nothing is left out when a request fails in the middle.       *)
Accounted ==
  LET s == bdlg.sum
      refused == {r[1] : r \in s.refused} IN
  bdlg.done => /\ batchPast.plan = s.queued \cup refused \cup s.notRun
               /\ s.queued \cap refused = {} /\ (s.queued \cup refused) \cap s.notRun = {}
               /\ s.queued \cup refused = batchPast.sent

(* Nothing is asked of the host after the operator cancelled, or after the    *)
(* first "forbidden": the request on its way is the last.                     *)
NothingAfterStop == ~batchPast.afterStop

(* A cut the list showed as built with this recipe when the batch started is  *)
(* not built again: only the operator's "rebuild" repeats work.               *)
NoNeedlessBuild == [][\A o \in BatchOps : (hrow[o].st = "done" /\ hrow'[o].st = "pending" /\ ~bdlg.rebuild)
                        => o \notin batchPast.shown]_batchVars

(* The dialog can be closed in the end: a batch that runs comes to its end.   *)
BatchQuiet == ~bdlg.running
==============================================================================
