----------------------------- MODULE RecipeEdit -----------------------------
(* The Diagnostics pipeline panel: which columns a step needs and makes       *)
(* (recipeChannels.ts), the edits of RecipePanel.vue with the drag it refuses, *)
(* the "view as of this step" of DiagnosticsWorkbench.vue, and the library of *)
(* saved recipes (RecipeLibrary.vue, recipeIo.ts). A step's id is its op, of   *)
(* which the panel adds each at most once; parameters are left out but for the *)
(* source that "invert" reads.                                                 *)
EXTENDS Naturals, FiniteSets, Sequences, SequencesExt

CONSTANTS StartSteps,   \* the steps of the recipe the panel opens with
          Addable,      \* ops the operator may add
          Files,        \* recipes in files on disk
          MaxRecipeActs \* bound on the operator's acts

NoStep == "none"
NoRec == <<>>
RecipeNames == {"n", "m"}

VARIABLES rcp,     \* the working recipe: a sequence of [op, on, source]
          rev,     \* revertStepId
          rlib,    \* the saved recipes on the server: id -> [name, rec]
          lview,   \* the client's copy, and whether a fetch of it is on its way
          rl,      \* the library box: selection, baseline, dialog, busy, the file being read
          rcpPast

rcpVars == <<rcp, rev, rlib, lview, rl, rcpPast>>

(* STEP_META: the tier decides where "view as of" may start.                 *)
BaseTier == {"frame_transform", "angular_resample", "envelope"}
Derived(op) == op \notin BaseTier

Produces(op) ==
  CASE op = "frame_transform" -> {"fc", "ff", "fp"}
    [] op = "angular_resample" -> {"t", "rev", "x", "y", "sig"}
    [] op = "tsa" -> {"tsa_resid"}
    [] op = "radial_detrend" -> {"resid_z"}
    [] op = "getis_ord" -> {"gi_star", "gi_sig"}
    [] op = "hdbscan" -> {"cluster_id", "glosh"}
    [] op = "envelope" -> {"env_band"}
    [] op = "grow_segmentation" -> {"segment_id"}
    [] op = "invert" -> {"inverted"}
    [] op = "griddify" -> {"grid_fill", "grid_support"}
    [] op = "gmm_segmentation" -> {"gmm_id", "gmm_prob"}

Requires(op) ==
  CASE op = "frame_transform" -> {"fx", "fy", "fz"}
    [] op = "angular_resample" -> {"revs", "t_raw", "x_raw", "y_raw", "fc", "ff", "fp"}
    [] op = "tsa" -> {"sig", "rev"}
    [] op = "radial_detrend" -> {"tsa_resid", "x", "y"}
    [] op = "envelope" -> {"fc", "ff", "fp", "revs", "t_raw", "tsa_resid"}
    [] op = "invert" -> {}
    [] OTHER -> {"x", "y", "resid_z"}

SeedColumns == {"t_raw", "fx", "fy", "fz", "rpm", "revs", "x_raw", "y_raw"}

(* recipeProblems: one pass over the steps that are on; a step that cannot    *)
(* run is named and makes nothing, so what depends on it is named too.        *)
Needs(s) == Requires(s.op) \cup (IF s.op = "invert" THEN {s.source} ELSE {})
AfterStep(acc, s) ==
  IF ~s.on THEN acc
  ELSE IF Needs(s) \subseteq acc.have THEN [acc EXCEPT !.have = @ \cup Produces(s.op)]
  ELSE [acc EXCEPT !.bad = @ \cup {s.op}]
recipeProblems(r) == FoldLeft(AfterStep, [have |-> SeedColumns, bad |-> {}], r).bad

(* recipesEquivalent compares the steps that are on, in order.               *)
IsOn(s) == s.on
recipesEquivalent(a, b) == SelectSeq(a, IsOn) = SelectSeq(b, IsOn)

Ids(r) == {r[i].op : i \in DOMAIN r}
IndexOf(r, id) == CHOOSE i \in DOMAIN r : r[i].op = id
firstDerivedIndex(r) == IF \E i \in DOMAIN r : Derived(r[i].op) THEN CHOOSE i \in DOMAIN r : Derived(r[i].op) /\ \A j \in 1..(i - 1) : ~Derived(r[j].op) ELSE 0
stepIsRevertable(r, i) == firstDerivedIndex(r) # 0 /\ i >= firstDerivedIndex(r)

(* validateRecipe / parseRecipeJson: what an import must be. Step ids are     *)
(* unique, and no step that is on has a problem.                               *)
validateRecipe(r) == r # NoRec /\ Cardinality(Ids(r)) = Len(r) /\ recipeProblems(r) = {}

NoDlg == [kind |-> "none", id |-> 0, name |-> "n", rec |-> NoRec, import |-> FALSE]
Baseline == [name |-> "none", rec |-> NoRec]

RcpInit ==
  /\ rcp = StartSteps /\ rev = NoStep
  /\ rlib = (1 :> [name |-> "n", rec |-> StartSteps])
  /\ lview = [lib |-> rlib, fetch |-> FALSE]
  /\ rl = [sel |-> 0, loaded |-> Baseline, dlg |-> NoDlg, busy |-> FALSE, file |-> NoRec, err |-> FALSE]
  /\ rcpPast = [acts |-> 0, deleted |-> FALSE, stale |-> FALSE]

MayEditRecipe == rcpPast.acts < MaxRecipeActs
RcpActed == rcpPast' = [rcpPast EXCEPT !.acts = @ + 1]

(* The watcher of the steps: a step that is gone is no longer viewed.        *)
RevAfter(r) == IF rev \in Ids(r) THEN rev ELSE NoStep
EditSteps(r) == rcp' = r /\ rev' = RevAfter(r)

toggleStep(i) ==
  /\ MayEditRecipe /\ EditSteps([rcp EXCEPT ![i].on = ~@]) /\ RcpActed /\ UNCHANGED <<rlib, lview, rl>>
addStep(op) ==
  /\ MayEditRecipe /\ op \in Addable \ Ids(rcp) /\ EditSteps(Append(rcp, [op |-> op, on |-> TRUE, source |-> "resid_z"]))
  /\ RcpActed /\ UNCHANGED <<rlib, lview, rl>>
(* setParam, for the one parameter that decides what a step needs.           *)
setSource(i, c) ==
  /\ MayEditRecipe /\ rcp[i].op = "invert" /\ rcp[i].source # c /\ EditSteps([rcp EXCEPT ![i].source = c])
  /\ RcpActed /\ UNCHANGED <<rlib, lview, rl>>
(* removeStep: not offered for the steps of the default recipe.              *)
removeStep(i) ==
  /\ MayEditRecipe /\ rcp[i].op \in Addable /\ EditSteps(RemoveAt(rcp, i)) /\ RcpActed /\ UNCHANGED <<rlib, lview, rl>>

(* onDropStep: splice out, splice in; refused if a step breaks that was fine. *)
Moved(i, j) == InsertAt(RemoveAt(rcp, i), j, rcp[i])
MutDropAllowed(r) == Cardinality(recipeProblems(r)) <= Cardinality(recipeProblems(rcp)) + 1
DropAllowed(r) == recipeProblems(r) \subseteq recipeProblems(rcp)
onDropStep(i, j) ==
  /\ MayEditRecipe /\ i # j /\ DropAllowed(Moved(i, j)) /\ EditSteps(Moved(i, j)) /\ RcpActed /\ UNCHANGED <<rlib, lview, rl>>

(* onCardClick: the click that views the pipeline as of a step, or ends it.   *)
onCardClick(i) ==
  /\ MayEditRecipe /\ stepIsRevertable(rcp, i) /\ rev' = (IF rev = rcp[i].op THEN NoStep ELSE rcp[i].op)
  /\ RcpActed /\ UNCHANGED <<rcp, rlib, lview, rl>>
revertIndex == IF rev \in Ids(rcp) /\ stepIsRevertable(rcp, IndexOf(rcp, rev)) THEN IndexOf(rcp, rev) ELSE 0

-----------------------------------------------------------------------------
SavedSelected == rl.sel \in DOMAIN lview.lib
LibFree == ~rl.busy

SelectSaved(id) ==
  /\ MayEditRecipe /\ LibFree /\ rl.dlg.kind = "none" /\ id \in DOMAIN lview.lib /\ rl.sel # id /\ rl' = [rl EXCEPT !.sel = id]
  /\ RcpActed /\ UNCHANGED <<rcp, rev, rlib, lview>>
applySaved ==
  /\ MayEditRecipe /\ LibFree /\ rl.dlg.kind = "none" /\ SavedSelected /\ EditSteps(lview.lib[rl.sel].rec)
  /\ rl' = [rl EXCEPT !.loaded = lview.lib[rl.sel]]
  /\ rcpPast' = [rcpPast EXCEPT !.acts = @ + 1, !.stale = @ \/ lview.fetch] /\ UNCHANGED <<rlib, lview>>

(* The dialogs. Save keeps the recipe as it is when the dialog opens.        *)
openSave(n) ==
  /\ MayEditRecipe /\ LibFree /\ rl.dlg.kind = "none" /\ rl' = [rl EXCEPT !.dlg = [NoDlg EXCEPT !.kind = "save", !.name = n, !.rec = rcp], !.err = FALSE]
  /\ RcpActed /\ UNCHANGED <<rcp, rev, rlib, lview>>
openOther(k, n) ==
  /\ MayEditRecipe /\ LibFree /\ rl.dlg.kind = "none" /\ SavedSelected /\ rl' = [rl EXCEPT !.dlg = [NoDlg EXCEPT !.kind = k, !.id = rl.sel, !.name = n], !.err = FALSE]
  /\ RcpActed /\ UNCHANGED <<rcp, rev, rlib, lview>>
closeDlg == LibFree /\ rl.dlg.kind # "none" /\ rl' = [rl EXCEPT !.dlg = NoDlg] /\ UNCHANGED <<rcp, rev, rlib, lview, rcpPast>>

(* onFile: the file is read while the page goes on; a recipe that does not    *)
(* pass is refused, one that does opens the save dialog.                       *)
ChooseFile(f) ==
  /\ MayEditRecipe /\ LibFree /\ rl.dlg.kind = "none" /\ rl.file = NoRec /\ rl' = [rl EXCEPT !.file = f] /\ RcpActed /\ UNCHANGED <<rcp, rev, rlib, lview>>
Imported(f) == validateRecipe(f)
FileRead ==
  /\ rl.file # NoRec
  /\ rl' = IF Imported(rl.file) THEN [rl EXCEPT !.file = NoRec, !.dlg = [NoDlg EXCEPT !.kind = "save", !.name = "m", !.rec = rl.file, !.import = TRUE]]
           ELSE [rl EXCEPT !.file = NoRec, !.err = TRUE]
  /\ UNCHANGED <<rcp, rev, rlib, lview, rcpPast>>

onConfirm == LibFree /\ rl.dlg.kind # "none" /\ rl' = [rl EXCEPT !.busy = TRUE] /\ UNCHANGED <<rcp, rev, rlib, lview, rcpPast>>

(* The request's answer. RecipeNames are unique on the server: a taken one fails.  *)
Taken(d) == \E id \in DOMAIN rlib : id # d.id /\ rlib[id].name = d.name
Stored(d) ==
  CASE d.kind = "save" -> (Cardinality(DOMAIN rlib) + 1 :> [name |-> d.name, rec |-> d.rec]) @@ rlib
    [] d.kind = "rename" -> [rlib EXCEPT ![d.id].name = d.name]
    [] OTHER -> [id \in DOMAIN rlib \ {d.id} |-> rlib[id]]

(* baselineAfterSave: an imported recipe is stored, not loaded. A rename       *)
(* follows the baseline by name.                                               *)
BaselineAfter(d) ==
  CASE d.kind = "save" /\ ~d.import -> [name |-> d.name, rec |-> d.rec]
    [] d.kind = "rename" /\ rl.loaded.name = rlib[d.id].name -> [rl.loaded EXCEPT !.name = d.name]
    [] OTHER -> rl.loaded

Confirmed(ok) == [rl EXCEPT !.busy = FALSE]

ConfirmAnswer(ok) ==
  /\ rl.busy
  /\ LET d == rl.dlg IN
     IF ok /\ ~(d.kind # "delete" /\ Taken(d)) /\ (d.kind = "save" \/ d.id \in DOMAIN rlib)
     THEN /\ rlib' = Stored(d) /\ lview' = [lview EXCEPT !.fetch = TRUE]
          /\ rl' = [Confirmed(TRUE) EXCEPT !.dlg = NoDlg, !.loaded = BaselineAfter(d),
                     !.sel = CASE d.kind = "save" -> Cardinality(DOMAIN rlib) + 1 [] d.kind = "delete" -> 0 [] OTHER -> @]
          /\ rcpPast' = [rcpPast EXCEPT !.deleted = @ \/ d.kind = "delete"]
     ELSE rl' = Confirmed(FALSE) /\ UNCHANGED <<rlib, lview, rcpPast>>
  /\ UNCHANGED <<rcp, rev>>

(* loadLibrary: a failed fetch shows an empty library.                       *)
LibraryArrives(ok) ==
  /\ lview.fetch /\ lview' = [lib |-> IF ok THEN rlib ELSE [id \in {} |-> Baseline], fetch |-> FALSE]
  /\ UNCHANGED <<rcp, rev, rlib, rl, rcpPast>>

RcpNext ==
  \/ \E i \in DOMAIN rcp : toggleStep(i) \/ removeStep(i) \/ onCardClick(i) \/ (\E j \in DOMAIN rcp : onDropStep(i, j))
                             \/ (\E c \in {"resid_z", "tsa_resid", "env_band"} : setSource(i, c))
  \/ \E op \in Addable : addStep(op)
  \/ \E id \in 1..3 : SelectSaved(id)
  \/ \E n \in RecipeNames : openSave(n) \/ openOther("rename", n)
  \/ openOther("delete", "n")
  \/ \E f \in Files : ChooseFile(f)
  \/ \E ok \in BOOLEAN : ConfirmAnswer(ok) \/ LibraryArrives(ok)
  \/ applySaved \/ closeDlg \/ FileRead \/ onConfirm

-----------------------------------------------------------------------------
RcpTypeOK ==
  /\ Cardinality(Ids(rcp)) = Len(rcp) /\ rev \in Ids(rcp) \cup {NoStep}
  /\ (rl.busy => rl.dlg.kind # "none") /\ rl.sel \in 0..3

(* A step can run if every column it reads is measured or made by an earlier  *)
(* step that can run: what the bake will do. The panel's one pass says the     *)
(* same of every step, in every order and with any of them off.               *)
Runs(r) ==
  LET runs[i \in 0..Len(r)] == IF i = 0 THEN {} ELSE
        LET before == runs[i - 1] IN
        IF r[i].on /\ \A c \in Needs(r[i]) : c \in SeedColumns \/ \E j \in before : c \in Produces(r[j].op) THEN before \cup {i} ELSE before
  IN runs[Len(r)]
ProblemsAreReal == recipeProblems(rcp) = {rcp[i].op : i \in {j \in DOMAIN rcp : rcp[j].on} \ Runs(rcp)}

(* Dragging alone never takes a recipe that runs to one that does not.        *)
DragKeepsRunning == [][(Len(rcp') = Len(rcp) /\ rcp' # rcp /\ Ids(rcp') = Ids(rcp) /\ rl' = rl
                        /\ \A i \in DOMAIN rcp : \E j \in DOMAIN rcp : rcp'[j] = rcp[i])
                         => (recipeProblems(rcp) = {} => recipeProblems(rcp') = {})]_rcpVars

(* The preview is never asked to stop inside the part the bake does first.   *)
ViewIsDerived == revertIndex # 0 => \E j \in 1..revertIndex : Derived(rcp[j].op)

(* The baseline is what the library holds under its name, so "modified since  *)
(* loaded" is measured against something that can be had again (until that     *)
(* recipe is deleted, or was applied from a list that was being fetched).      *)
BaselineIsSaved == (rl.loaded # Baseline /\ ~rcpPast.deleted /\ ~rcpPast.stale)
                     => \E id \in DOMAIN rlib : rlib[id] = rl.loaded

(* Whatever is stored in the library by an import can be run.                 *)
ImportsRun == (rl.dlg.kind = "save" /\ rl.dlg.import) => recipeProblems(rl.dlg.rec) = {}

RcpQuiet == ~rl.busy

(* Does not hold (README, section 5): the badge "viewing" names the step the  *)
(* preview stops at. A base step dragged to the front while viewed keeps it.  *)
BadgeIsViewed == rev # NoStep => revertIndex # 0

(* Does not hold (README, section 5): an import whose file is read while a     *)
(* save is confirmed has its dialog closed by the save's answer.              *)
ImportIsAsked == (rl.busy /\ ~rl.dlg.import) => rl.file = NoRec
=============================================================================
