----------------------------- MODULE ForceEdits ------------------------------
(***************************************************************************)
(* What the force dashboard writes back: the operation's metadata (the      *)
(* "Save changes" dialog), the official crop window (from that dialog or    *)
(* the "Save crop" button), and the diameter override (debounced).  A crop  *)
(* outdates the octrees built from the old window, which the dashboard      *)
(* requeues and the orchestrator rebuilds.  Every write is asynchronous and *)
(* the operator may be on another operation when it is answered.            *)
(***************************************************************************)
EXTENDS Naturals, FiniteSets

CONSTANTS
    EditOps,      \* the operations
    NoMetaOps,    \* those whose .mat has no cut diameter
    OctreeOps,    \* those the host is asked to build an octree of
    MaxFormEdits, \* bound on edits and loads of the map
    MaxShows      \* bound on changes of operation

ASSUME ForceEditsAssumption ==
    NoMetaOps \cup OctreeOps \subseteq EditOps /\ MaxFormEdits \in Nat /\ MaxShows \in Nat

(* A value is tagged with the operation it was entered for: "seed" is what  *)
(* the row came with (for a crop, "follow the derived window"), "cache"     *)
(* what the live cache's header says, "edit" what the operator entered.     *)
Val(o, w) == <<o, w>>
Values == EditOps \X {"seed", "cache", "edit"}

VARIABLES
    erow,      \* rows: metadata, crop, diameter, octree and its window
    eshow,     \* the detail and form of the operation shown
    saves,     \* PATCHes under way
    dlg,       \* the dialog and the busy flags
    dtimer,    \* the debounced diameter write
    editPast   \* bounds, and what the operator did

editVars == <<erow, eshow, saves, dlg, dtimer, editPast>>

Fresh(o) == [op |-> o, src |-> erow[o].meta, form |-> erow[o].meta,
             saved |-> erow[o].crop, crop |-> erow[o].crop, touched |-> FALSE,
             diam |-> erow[o].diam, ediam |-> erow[o].diam, octree |-> erow[o].octree]

NoTimer == [on |-> FALSE, val |-> <<"none", "none">>]

EditInit ==
    /\ erow = [o \in EditOps |-> [meta |-> Val(o, "seed"), crop |-> Val(o, "seed"),
                 diam |-> Val(o, "seed"), octree |-> "none",
                 built |-> Val(o, "seed"), run |-> Val(o, "seed")]]
    /\ eshow \in {[op |-> o, src |-> Val(o, "seed"), form |-> Val(o, "seed"),
                   saved |-> Val(o, "seed"), crop |-> Val(o, "seed"), touched |-> FALSE,
                   diam |-> Val(o, "seed"), ediam |-> Val(o, "seed"),
                   octree |-> "none"] : o \in EditOps}
    /\ saves = {}
    /\ dlg = [open |-> FALSE, meta |-> FALSE, crop |-> FALSE, prompt |-> FALSE]
    /\ dtimer = NoTimer
    /\ editPast = [edits |-> 0, shows |-> 0, stale |-> {}, clicked |-> {}, dragged |-> {}]

cropDirty(e) == e.crop # e.saved
metaDirty(e) == e.form # e.src
hasChanges(e) == metaDirty(e) \/ (e.touched /\ cropDirty(e))

(* The dialog's crop part: only a crop the operator dragged. *)
DialogSavesCrop(e) == e.touched /\ cropDirty(e)

(***************************************************************************)
(* Selection, and the watchers on detail.id.                                *)
(***************************************************************************)
OnOpChange(o) == Fresh(o)

Show(o) ==
    /\ ~dlg.open /\ editPast.shows < MaxShows
    /\ editPast' = [editPast EXCEPT !.shows = @ + 1]
    /\ eshow' = IF o = eshow.op
                THEN [eshow EXCEPT !.saved = erow[o].crop, !.diam = erow[o].diam,
                                   !.octree = erow[o].octree]
                ELSE OnOpChange(o)
    /\ dlg' = IF o = eshow.op THEN dlg ELSE [dlg EXCEPT !.prompt = FALSE]
    /\ UNCHANGED <<erow, saves, dtimer>>

(***************************************************************************)
(* Edits.                                                                   *)
(***************************************************************************)
Edits == editPast.edits < MaxFormEdits

EditMeta ==
    /\ Edits /\ ~dlg.open
    /\ eshow' = [eshow EXCEPT !.form = Val(eshow.op, "edit")]
    /\ editPast' = [editPast EXCEPT !.edits = @ + 1]
    /\ UNCHANGED <<erow, saves, dlg, dtimer>>

onCropEdit ==
    /\ Edits /\ ~dlg.open
    /\ eshow' = [eshow EXCEPT !.crop = Val(eshow.op, "edit"), !.touched = TRUE]
    /\ editPast' = [editPast EXCEPT !.edits = @ + 1, !.dragged = @ \cup {eshow.op}]
    /\ UNCHANGED <<erow, saves, dlg, dtimer>>

(* watch(editDiam): an override or metadata the seed agrees with is no edit. *)
DiamIsEdit(e, v) ==
    /\ v # e.diam
    /\ ~(v[2] = "cache" /\ e.diam[2] = "seed" /\ e.op \notin NoMetaOps)

DiamWatch(e, v) ==
    IF v # e.ediam /\ DiamIsEdit(e, v) THEN [on |-> TRUE, val |-> v] ELSE dtimer

EditDiam ==
    /\ Edits /\ ~dlg.open
    /\ eshow' = [eshow EXCEPT !.ediam = Val(eshow.op, "edit")]
    /\ dtimer' = DiamWatch(eshow, Val(eshow.op, "edit"))
    /\ editPast' = [editPast EXCEPT !.edits = @ + 1]
    /\ UNCHANGED <<erow, saves, dlg>>

(* onCloudLoaded: the map reads crop and diameter from the cache's header,  *)
(* an override of the row winning.                                          *)
onCloudLoaded ==
    LET o == eshow.op
        c == IF eshow.saved[2] = "seed" THEN Val(o, "cache") ELSE eshow.saved
        d == IF eshow.diam[2] = "seed" THEN Val(o, "cache") ELSE eshow.diam
    IN  /\ Edits
        /\ eshow' = [eshow EXCEPT !.crop = c, !.ediam = d]
        /\ dtimer' = DiamWatch(eshow, d)
        /\ editPast' = [editPast EXCEPT !.edits = @ + 1]
        /\ UNCHANGED <<erow, saves, dlg>>

(* The debounce of 600 ms: the write goes to the row the edit was made on. *)
DiamTimer ==
    /\ dtimer.on
    /\ saves' = saves \cup {[kind |-> "diam", op |-> dtimer.val[1], val |-> dtimer.val,
                             requeue |-> FALSE]}
    /\ dtimer' = NoTimer
    /\ UNCHANGED <<erow, eshow, dlg, editPast>>

DiamAnswered(s, ok) ==
    /\ s \in saves /\ s.kind = "diam"
    /\ saves' = saves \ {s}
    /\ erow' = IF ok THEN [erow EXCEPT ![s.op].diam = s.val] ELSE erow
    /\ eshow' = IF ok /\ s.op = eshow.op THEN [eshow EXCEPT !.diam = s.val] ELSE eshow
    /\ UNCHANGED <<dlg, dtimer, editPast>>

(***************************************************************************)
(* The crop.                                                                *)
(***************************************************************************)
requeue(st) == st \in {"done", "error"}

CropSave(e) == [kind |-> "crop", op |-> e.op, val |-> e.crop, requeue |-> requeue(e.octree)]

(* saveCropAsOfficial, entered from the prompt or from saveChanges. *)
saveCropAsOfficial(e, d) ==
    IF d.crop THEN dlg' = d /\ UNCHANGED saves
              ELSE dlg' = [d EXCEPT !.crop = TRUE] /\ saves' = saves \cup {CropSave(e)}

SaveCropPrompt ==
    /\ cropDirty(eshow) /\ ~dlg.open /\ ~dlg.prompt
    /\ dlg' = [dlg EXCEPT !.prompt = TRUE]
    /\ UNCHANGED <<erow, eshow, saves, dtimer, editPast>>

SaveCropClick ==
    /\ dlg.prompt /\ ~dlg.crop
    /\ saveCropAsOfficial(eshow, dlg)
    /\ editPast' = [editPast EXCEPT !.clicked = @ \cup {eshow.op}]
    /\ UNCHANGED <<erow, eshow, dtimer>>

(* finally { cropSaving = false; cropSavePrompt = false } *)
CropReleased(ok) == [dlg EXCEPT !.crop = FALSE, !.prompt = FALSE]

CropAnswered(s, ok) ==
    /\ s \in saves /\ s.kind = "crop"
    /\ saves' = saves \ {s}
    /\ dlg' = CropReleased(ok)
    /\ IF ok
       THEN /\ erow' = [erow EXCEPT ![s.op].crop = s.val,
                                    ![s.op].octree = IF s.requeue THEN "pending" ELSE @]
            /\ eshow' = IF s.op = eshow.op
                        THEN [eshow EXCEPT !.saved = s.val, !.touched = FALSE,
                                !.octree = IF s.requeue THEN "pending" ELSE @]
                        ELSE [eshow EXCEPT !.touched = FALSE]
            /\ editPast' = IF ~s.requeue /\ requeue(erow[s.op].octree)
                           THEN [editPast EXCEPT !.stale = @ \cup {s.op}] ELSE editPast
       ELSE UNCHANGED <<erow, eshow, editPast>>
    /\ UNCHANGED dtimer

(***************************************************************************)
(* The dialog.                                                              *)
(***************************************************************************)
OpenDialog ==
    /\ hasChanges(eshow) /\ ~dlg.open
    /\ dlg' = [dlg EXCEPT !.open = TRUE]
    /\ UNCHANGED <<erow, eshow, saves, dtimer, editPast>>

(* Cancel, or a click beside the dialog, which works while it saves. *)
CloseDialog ==
    /\ dlg.open
    /\ dlg' = [dlg EXCEPT !.open = FALSE]
    /\ UNCHANGED <<erow, eshow, saves, dtimer, editPast>>

(* saveChanges: the metadata first; a crop only after it went well. *)
saveChanges ==
    /\ dlg.open /\ ~dlg.meta
    /\ IF metaDirty(eshow)
       THEN /\ saves' = saves \cup {[kind |-> "meta", op |-> eshow.op, val |-> eshow.form,
                                     requeue |-> FALSE]}
            /\ dlg' = [dlg EXCEPT !.meta = TRUE]
       ELSE IF DialogSavesCrop(eshow)
            THEN saveCropAsOfficial(eshow, [dlg EXCEPT !.open = FALSE])
            ELSE dlg' = [dlg EXCEPT !.open = FALSE] /\ UNCHANGED saves
    /\ UNCHANGED <<erow, eshow, dtimer, editPast>>

(* The form is reseeded from the operation then shown. *)
MetaAnswered(s, ok) ==
    /\ s \in saves /\ s.kind = "meta"
    /\ erow' = IF ok THEN [erow EXCEPT ![s.op].meta = s.val] ELSE erow
    /\ IF ok
       THEN LET src == IF s.op = eshow.op THEN s.val ELSE eshow.src
                e == [eshow EXCEPT !.src = src, !.form = src]
            IN  /\ eshow' = e
                /\ IF DialogSavesCrop(e) /\ ~dlg.crop
                   THEN /\ saves' = (saves \ {s}) \cup {CropSave(e)}
                        /\ dlg' = [dlg EXCEPT !.meta = FALSE, !.open = FALSE, !.crop = TRUE]
                   ELSE /\ saves' = saves \ {s}
                        /\ dlg' = [dlg EXCEPT !.meta = FALSE, !.open = FALSE]
       ELSE /\ saves' = saves \ {s}
            /\ dlg' = [dlg EXCEPT !.meta = FALSE]
            /\ UNCHANGED eshow
    /\ UNCHANGED <<dtimer, editPast>>

(***************************************************************************)
(* The orchestrator's octree builds.                                        *)
(***************************************************************************)
OctreeQueued(o) ==
    /\ erow[o].octree = "none" /\ o \in OctreeOps
    /\ erow' = [erow EXCEPT ![o].octree = "pending"]
    /\ UNCHANGED <<eshow, saves, dlg, dtimer, editPast>>

OctreeClaim(o) ==
    /\ erow[o].octree = "pending"
    /\ erow' = [erow EXCEPT ![o].octree = "processing", ![o].run = erow[o].crop]
    /\ UNCHANGED <<eshow, saves, dlg, dtimer, editPast>>

(* CASE WHEN the override changed THEN 'pending' ELSE 'done' *)
BuiltStatus(r) == IF r.crop # r.run THEN "pending" ELSE "done"

OctreeBuilt(o) ==
    /\ erow[o].octree = "processing"
    /\ erow' = [erow EXCEPT ![o].octree = BuiltStatus(erow[o]), ![o].built = erow[o].run]
    /\ editPast' = [editPast EXCEPT !.stale = @ \ {o}]
    /\ UNCHANGED <<eshow, saves, dlg, dtimer>>

OctreeFails(o) ==
    /\ erow[o].octree = "processing"
    /\ erow' = [erow EXCEPT ![o].octree = "error"]
    /\ UNCHANGED <<eshow, saves, dlg, dtimer, editPast>>

Answered(s, ok) == DiamAnswered(s, ok) \/ CropAnswered(s, ok) \/ MetaAnswered(s, ok)

EditNext ==
    \/ \E o \in EditOps : Show(o)
    \/ EditMeta \/ onCropEdit \/ EditDiam \/ onCloudLoaded
    \/ SaveCropPrompt \/ SaveCropClick
    \/ OpenDialog \/ CloseDialog \/ saveChanges
    \/ DiamTimer
    \/ \E s \in saves, ok \in BOOLEAN : Answered(s, ok)
    \/ \E o \in EditOps : OctreeQueued(o) \/ OctreeClaim(o) \/ OctreeBuilt(o) \/ OctreeFails(o)

(***************************************************************************)
(* Properties.                                                              *)
(***************************************************************************)
EditTypeOK ==
    /\ \A o \in EditOps :
         /\ {erow[o].meta, erow[o].crop, erow[o].diam, erow[o].built, erow[o].run} \subseteq Values
         /\ erow[o].octree \in {"none", "pending", "processing", "done", "error"}
    /\ eshow.op \in EditOps
    /\ {eshow.src, eshow.form, eshow.saved, eshow.crop, eshow.diam, eshow.ediam} \subseteq Values
    /\ dlg \in [{"open", "meta", "crop", "prompt"} -> BOOLEAN]
    /\ dlg.crop => \E s \in saves : s.kind = "crop"
    /\ dlg.meta => \E s \in saves : s.kind = "meta"

(* What a row holds was entered, or seeded, for that very operation. *)
OwnValues ==
    \A o \in EditOps : {erow[o].meta[1], erow[o].crop[1], erow[o].diam[1]} = {o}

(* A crop the operator never dragged is pinned only by the Save crop        *)
(* button: saving other fields never turns float noise into an override.    *)
NotesPinNoCrop ==
    \A o \in EditOps : erow[o].crop[2] # "seed" => o \in editPast.clicked \cup editPast.dragged

(* Loading the map of an operation with a known diameter stores nothing. *)
SeedIsNoEdit == \A o \in EditOps \ NoMetaOps : erow[o].diam[2] # "cache"

(* A finished octree shows the official window, however saves and builds    *)
(* overlapped, unless the crop was saved from a detail older than the build *)
(* (README, section 5).                                                     *)
OctreeFollowsCrop ==
    \A o \in EditOps : erow[o].octree = "done" /\ o \notin editPast.stale
                           => erow[o].built = erow[o].crop

(* Saving ends, of the form and of the crop. *)
EditQuiet == ~dlg.meta
CropQuiet == ~dlg.crop

(* Does not hold (README, section 5). *)
OctreeOfCrop == \A o \in EditOps : erow[o].octree = "done" => erow[o].built = erow[o].crop
=============================================================================
