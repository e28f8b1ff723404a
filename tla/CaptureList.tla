----------------------------- MODULE CaptureList -----------------------------
(***************************************************************************)
(* Settings > Local Captures (web/src/settings/CapturesSettings.vue and    *)
(* the rules of captureList.ts): loading the list while the filter         *)
(* changes, what is known of each capture's upload, deleting one capture,  *)
(* a selection, or every old uploaded capture ("Free up space"), recovering*)
(* and uploading, one or all.  A confirm dialog is modal; everything else  *)
(* interleaves at the awaits.  The upload itself is CaptureUpload.tla.     *)
(***************************************************************************)
EXTENDS Integers, FiniteSets

CONSTANTS
    Caps,         \* captures
    Filters,      \* the filters used, of those captureList.ts:65-70 offers
    MaxLoads,     \* bound: loads of the list
    MaxChanges,   \* bound: failed requests and changes made by others
    MaxClicks     \* bound: what the operator begins

ASSUME ListAssumption ==
    /\ IsFiniteSet(Caps) /\ Filters \subseteq {"all", "incomplete", "uploaded"}
    /\ {MaxLoads, MaxChanges, MaxClicks} \subseteq Nat

VARIABLES
    disk,     \* the recorder's folder: "gone", "incomplete" or "finalized"
    inDb,     \* captures whose upload is complete in the database
    lst,      \* the list: rows, filter, generation, what is known of the uploads
    loads,    \* load() calls under way, by generation: what they wait for
    busyAt,   \* busy: what runs for a row
    ask,      \* the confirm dialog
    bulk,     \* deleteMany()
    clean,    \* the preview of "Free up space": whether it is known, the captures found uploaded
    allRun,   \* uploadAllUnsynced(): captures left, cancelled
    listPast  \* bounds: failures and changes so far, operations begun

listVars == <<disk, inDb, lst, loads, busyAt, ask, bulk, clean, allRun, listPast>>

NoItem == "none"
NoBulk == [kind |-> NoItem, left |-> {}, cur |-> NoItem, at |-> NoItem, cancel |-> FALSE]
NoAsk == [kind |-> NoItem, items |-> {}]

ListInit ==
    /\ disk \in [Caps -> {"incomplete", "finalized"}] /\ inDb \in SUBSET {c \in Caps : disk[c] = "finalized"}
    /\ lst = [rows |-> {}, fin |-> {}, filter |-> "all", gen |-> 0, from |-> "all", loading |-> FALSE, error |-> FALSE,
              uploaded |-> {}, checked |-> {}, known |-> TRUE, selected |-> {}]
    /\ loads = {} /\ busyAt = [c \in Caps |-> "no"]
    /\ ask = NoAsk /\ bulk = NoBulk /\ clean = [known |-> FALSE, pool |-> {}] /\ allRun = [left |-> {}, on |-> FALSE, cancel |-> FALSE]
    /\ listPast = [faults |-> 0, clicks |-> 0]

ListFault == listPast.faults < MaxChanges
ListFaulted == [listPast EXCEPT !.faults = @ + 1]
Finalized == {c \in Caps : disk[c] = "finalized"}
FreeToClick == ask.kind = NoItem

Click ==
    /\ FreeToClick /\ listPast.clicks < MaxClicks
    /\ listPast' = [listPast EXCEPT !.clicks = @ + 1]

----------------------------------------------------------------------------
(* load(), the pages and the lookup of upload states.                      *)

ServerRows(f) == {c \in Caps : CASE f = "all" -> disk[c] # "gone"
                                 [] f = "incomplete" -> disk[c] = "incomplete"
                                 [] OTHER -> disk[c] = "finalized"}

\* A load of the filter, numbered by the generation.
Started(f) ==
    /\ lst' = [lst EXCEPT !.filter = f, !.gen = @ + 1, !.loading = TRUE, !.error = FALSE]
    /\ loads' = loads \union {[g |-> lst.gen + 1, f |-> f, at |-> "page", rows |-> {}]}

Load ==
    /\ FreeToClick /\ ~lst.loading /\ lst.gen < MaxLoads
    /\ Started(lst.filter)
    /\ UNCHANGED <<disk, inDb, busyAt, ask, bulk, clean, allRun, listPast>>

SetFilter(f) ==
    /\ FreeToClick /\ f # lst.filter /\ lst.gen < MaxLoads
    /\ Started(f)
    /\ UNCHANGED <<disk, inDb, busyAt, ask, bulk, clean, allRun, listPast>>

Newest(l) == l.g = lst.gen

\* The page arrives: the list starts from nothing known.
PageAnswered(l) ==
    /\ l \in loads /\ l.at = "page"
    /\ LET rows == ServerRows(l.f) IN
       IF Newest(l)
       THEN /\ lst' = [lst EXCEPT !.rows = rows, !.fin = rows \cap Finalized, !.from = l.f, !.selected = {},
                                  !.uploaded = {}, !.checked = {}, !.known = FALSE]
            /\ loads' = (loads \ {l}) \union {[l EXCEPT !.at = "lookup", !.rows = rows]}
       ELSE loads' = loads \ {l} /\ UNCHANGED lst
    /\ UNCHANGED <<disk, inDb, busyAt, ask, bulk, clean, allRun, listPast>>

PageFails(l) ==
    /\ l \in loads /\ l.at = "page" /\ ListFault
    /\ loads' = loads \ {l}
    /\ lst' = IF Newest(l) THEN [lst EXCEPT !.error = TRUE, !.loading = FALSE] ELSE lst
    /\ listPast' = ListFaulted
    /\ UNCHANGED <<disk, inDb, busyAt, ask, bulk, clean, allRun>>

\* checkUploaded(): exactly the rows looked up are merged; known when all are.
Merged(rows, answered, done) ==
    LET checked == IF answered THEN lst.checked \union rows ELSE lst.checked
    IN  [lst EXCEPT !.uploaded = IF answered THEN (@ \ rows) \union (rows \cap done) ELSE @,
                    !.checked = checked, !.known = lst.rows \subseteq checked]

LookupAnswers(l, answered) ==
    /\ l \in loads /\ l.at = "lookup" /\ (answered \/ ListFault)
    /\ loads' = loads \ {l}
    /\ lst' = LET m == Merged(l.rows, answered, inDb)
              IN  [m EXCEPT !.loading = IF Newest(l) THEN FALSE ELSE @]
    /\ listPast' = IF answered THEN listPast ELSE ListFaulted
    /\ UNCHANGED <<disk, inDb, busyAt, ask, bulk, clean, allRun>>

----------------------------------------------------------------------------
(* What may be done to a row.                                              *)

canUploadCapture(c) == c \in lst.fin /\ lst.known /\ c \notin lst.uploaded /\ busyAt[c] = "no"
isBulkSelectable(c) == c \in lst.fin /\ busyAt[c] = "no"

ToggleRow(c) ==
    /\ Click /\ bulk.kind = NoItem /\ c \in lst.rows /\ isBulkSelectable(c)
    /\ lst' = [lst EXCEPT !.selected = (@ \ {c}) \union ({c} \ @)]
    /\ UNCHANGED <<disk, inDb, loads, busyAt, ask, bulk, clean, allRun>>

\* dropRows().
Dropped(l, c) == [l EXCEPT !.rows = @ \ {c}, !.fin = @ \ {c}, !.selected = @ \ {c}]

\* The recorder's DELETE: refused while it works on the capture.
Delete(c) == disk' = [disk EXCEPT ![c] = "gone"] /\ lst' = Dropped(lst, c) /\ UNCHANGED listPast

----------------------------------------------------------------------------
(* remove(): one capture.                                                  *)

AskRemove(c) ==
    /\ Click /\ c \in lst.rows /\ busyAt[c] = "no"
    /\ ask' = [kind |-> "one", items |-> {c}]
    /\ UNCHANGED <<disk, inDb, lst, loads, busyAt, bulk, clean, allRun>>

deleteAfterConfirmBlock(c) == c \notin lst.rows \/ busyAt[c] # "no"

RemoveConfirmed(yes) ==
    /\ ask.kind = "one"
    /\ ask' = NoAsk
    /\ \E c \in ask.items :
         busyAt' = IF yes /\ ~deleteAfterConfirmBlock(c) THEN [busyAt EXCEPT ![c] = "deleting"] ELSE busyAt
    /\ UNCHANGED <<disk, inDb, lst, loads, bulk, clean, allRun, listPast>>

RemoveReturns(c, ok) ==
    /\ busyAt[c] = "deleting" /\ c # bulk.cur /\ (ok \/ ListFault)
    /\ busyAt' = [busyAt EXCEPT ![c] = "no"]
    /\ IF ok THEN Delete(c) ELSE listPast' = ListFaulted /\ UNCHANGED <<disk, lst>>
    /\ UNCHANGED <<inDb, loads, ask, bulk, clean, allRun>>

----------------------------------------------------------------------------
(* deleteSelected() and runCleanup(), both through deleteMany().           *)

AskBulk ==
    /\ Click /\ bulk.kind = NoItem /\ ~allRun.on /\ lst.known
    /\ LET items == {c \in lst.selected \cap lst.rows : isBulkSelectable(c)} IN
       items # {} /\ ask' = [kind |-> "bulk", items |-> items]
    /\ UNCHANGED <<disk, inDb, lst, loads, busyAt, bulk, clean, allRun>>

\* previewCleanup(): every finalized capture on disk, looked up for itself.
PreviewCleanup(answered) ==
    /\ FreeToClick /\ listPast.clicks < MaxClicks /\ bulk.kind = NoItem /\ ~allRun.on /\ (answered \/ ListFault)
    /\ clean' = [known |-> answered, pool |-> IF answered THEN Finalized \cap inDb ELSE {}]
    /\ listPast' = [IF answered THEN listPast ELSE ListFaulted EXCEPT !.clicks = @ + 1]
    /\ UNCHANGED <<disk, inDb, lst, loads, busyAt, ask, bulk, allRun>>

AskCleanup ==
    /\ Click /\ bulk.kind = NoItem /\ ~allRun.on /\ clean.known /\ lst.gen < MaxLoads
    /\ ask' = [kind |-> "cleanup", items |-> {c \in clean.pool : busyAt[c] = "no"}]
    /\ ask'.items # {}
    /\ UNCHANGED <<disk, inDb, lst, loads, busyAt, bulk, clean, allRun>>

\* Confirmed; the cleanup asks the database again before it starts.
BulkConfirmed(yes, answered) ==
    /\ ask.kind \in {"bulk", "cleanup"} /\ (answered \/ (ListFault /\ ask.kind = "cleanup"))
    /\ ask' = NoAsk
    /\ LET go == yes /\ (ask.kind = "bulk" \/ answered) IN
       /\ bulk' = IF go THEN [NoBulk EXCEPT !.kind = ask.kind, !.left = ask.items, !.at = "next"] ELSE NoBulk
       /\ clean' = IF ask.kind = "cleanup" /\ answered /\ yes THEN [known |-> TRUE, pool |-> ask.items \cap inDb] ELSE clean
    /\ listPast' = IF answered THEN listPast ELSE ListFaulted
    /\ UNCHANGED <<disk, inDb, lst, loads, busyAt, allRun>>

Stops == bulk.cancel

\* deleteMany(): the next item, or none; freshRow() and recheckUploaded() are asked.
BulkNext ==
    /\ bulk.kind # NoItem /\ bulk.at = "next" /\ bulk.left # {} /\ ~Stops
    /\ \E c \in bulk.left : bulk' = [bulk EXCEPT !.left = @ \ {c}, !.cur = c, !.at = "fresh"]
    /\ UNCHANGED <<disk, inDb, lst, loads, busyAt, ask, clean, allRun, listPast>>

cleanupSkip(c) == disk[c] # "finalized" \/ busyAt[c] # "no" \/ c \notin inDb

bulkDeleteSkip(c) == disk[c] # "finalized" \/ busyAt[c] # "no" \/ ~lst.known

\* The re-check is answered: skipped, or its DELETE is sent.
BulkRechecked(answered) ==
    /\ bulk.kind # NoItem /\ bulk.at = "fresh" /\ (answered \/ ListFault)
    /\ LET c == bulk.cur
           skip == ~answered \/ (IF bulk.kind = "cleanup" THEN cleanupSkip(c) ELSE bulkDeleteSkip(c))
       IN  /\ bulk' = IF skip THEN [bulk EXCEPT !.cur = NoItem, !.at = "next"] ELSE [bulk EXCEPT !.at = "delete"]
           /\ busyAt' = IF skip THEN busyAt ELSE [busyAt EXCEPT ![c] = "deleting"]
           /\ listPast' = IF answered THEN listPast ELSE ListFaulted
    /\ UNCHANGED <<disk, inDb, lst, loads, ask, clean, allRun>>

BulkDeleted(ok) ==
    /\ bulk.kind # NoItem /\ bulk.at = "delete" /\ (ok \/ ListFault)
    /\ LET c == bulk.cur IN
       /\ busyAt' = [busyAt EXCEPT ![c] = "no"]
       /\ IF ok THEN Delete(c) ELSE listPast' = ListFaulted /\ UNCHANGED <<disk, lst>>
    /\ bulk' = [bulk EXCEPT !.cur = NoItem, !.at = "next"]
    /\ UNCHANGED <<inDb, loads, ask, clean, allRun>>

CancelBulk ==
    /\ FreeToClick /\ bulk.kind # NoItem /\ ~bulk.cancel
    /\ bulk' = [bulk EXCEPT !.cancel = TRUE]
    /\ UNCHANGED <<disk, inDb, lst, loads, busyAt, ask, clean, allRun, listPast>>

\* The report; a cleanup also re-counts the drive.
BulkEnds ==
    /\ bulk.kind # NoItem /\ bulk.at = "next" /\ (bulk.left = {} \/ bulk.cancel)
    /\ bulk' = NoBulk
    /\ IF bulk.kind = "cleanup" THEN clean' = [known |-> FALSE, pool |-> {}] /\ Started(lst.filter) ELSE UNCHANGED <<clean, lst, loads>>
    /\ UNCHANGED <<disk, inDb, busyAt, ask, allRun, listPast>>

----------------------------------------------------------------------------
(* recover() and upload(), one or all.                                     *)

Recover(c) ==
    /\ Click /\ lst.gen < MaxLoads /\ c \in lst.rows \ lst.fin /\ busyAt[c] = "no" /\ disk[c] = "incomplete"
    /\ busyAt' = [busyAt EXCEPT ![c] = "recovering"]
    /\ UNCHANGED <<disk, inDb, lst, loads, ask, bulk, clean, allRun>>

RecoverReturns(c, ok) ==
    /\ busyAt[c] = "recovering" /\ (ok \/ ListFault)
    /\ busyAt' = [busyAt EXCEPT ![c] = "no"]
    /\ IF ok THEN disk' = [disk EXCEPT ![c] = "finalized"] /\ Started(lst.filter) /\ UNCHANGED listPast
       ELSE listPast' = ListFaulted /\ UNCHANGED <<disk, lst, loads>>
    /\ UNCHANGED <<inDb, ask, bulk, clean, allRun>>

MayUpload(c) == busyAt[c] = "no" /\ bulk.kind = NoItem /\ canUploadCapture(c)

UploadClicked(c) ==
    /\ Click /\ ~allRun.on /\ c \in lst.rows /\ MayUpload(c)
    /\ busyAt' = [busyAt EXCEPT ![c] = "uploading"]
    /\ UNCHANGED <<disk, inDb, lst, loads, ask, bulk, clean, allRun>>

\* The upload, then the database's own answer (CaptureUpload!ConfirmUploadState).
UploadReturns(c, ok) ==
    /\ busyAt[c] = "uploading" /\ (ok \/ ListFault)
    /\ busyAt' = [busyAt EXCEPT ![c] = "no"]
    /\ inDb' = IF ok /\ disk[c] = "finalized" THEN inDb \union {c} ELSE inDb
    /\ lst' = [lst EXCEPT !.uploaded = IF ok /\ disk[c] = "finalized" THEN @ \union {c} ELSE @]
    /\ listPast' = IF ok THEN listPast ELSE ListFaulted
    /\ UNCHANGED <<disk, loads, ask, bulk, clean, allRun>>

AskUploadAll ==
    /\ Click /\ ~allRun.on /\ bulk.kind = NoItem
    /\ LET items == {c \in lst.rows : canUploadCapture(c)} IN
       items # {} /\ ask' = [kind |-> "all", items |-> items]
    /\ UNCHANGED <<disk, inDb, lst, loads, busyAt, bulk, clean, allRun>>

UploadAllConfirmed(yes) ==
    /\ ask.kind = "all"
    /\ ask' = NoAsk
    /\ allRun' = IF yes THEN [left |-> ask.items, on |-> TRUE, cancel |-> FALSE] ELSE allRun
    /\ UNCHANGED <<disk, inDb, lst, loads, busyAt, bulk, clean, listPast>>

\* One after the other: a capture that has gone or cannot be uploaded any more is skipped.
UploadAllNext ==
    /\ allRun.on /\ ~allRun.cancel /\ allRun.left # {} /\ \A c \in Caps : busyAt[c] # "uploading"
    /\ \E c \in allRun.left :
         /\ allRun' = [allRun EXCEPT !.left = @ \ {c}]
         /\ busyAt' = IF c \in lst.rows /\ MayUpload(c) THEN [busyAt EXCEPT ![c] = "uploading"] ELSE busyAt
    /\ UNCHANGED <<disk, inDb, lst, loads, ask, bulk, clean, listPast>>

CancelUploadAll ==
    /\ FreeToClick /\ allRun.on /\ ~allRun.cancel
    /\ allRun' = [allRun EXCEPT !.cancel = TRUE]
    /\ UNCHANGED <<disk, inDb, lst, loads, busyAt, ask, bulk, clean, listPast>>

UploadAllEnds ==
    /\ allRun.on /\ (allRun.left = {} \/ allRun.cancel) /\ \A c \in Caps : busyAt[c] # "uploading"
    /\ allRun' = [left |-> {}, on |-> FALSE, cancel |-> FALSE]
    /\ UNCHANGED <<disk, inDb, lst, loads, busyAt, ask, bulk, clean, listPast>>

\* Another client removes a file of an uploaded capture.
RemovedElsewhere(c) ==
    /\ ListFault /\ c \in inDb
    /\ inDb' = inDb \ {c}
    /\ listPast' = ListFaulted
    /\ UNCHANGED <<disk, lst, loads, busyAt, ask, bulk, clean, allRun>>

----------------------------------------------------------------------------
\* What answers by itself.
LoadStep == \E l \in loads : PageAnswered(l) \/ PageFails(l) \/ \E a \in BOOLEAN : LookupAnswers(l, a)
BulkStep == BulkNext \/ BulkEnds \/ \E ok \in BOOLEAN : BulkRechecked(ok) \/ BulkDeleted(ok)
UploadAllStep == UploadAllNext \/ UploadAllEnds
RowStep(c) == \E ok \in BOOLEAN : RemoveReturns(c, ok) \/ RecoverReturns(c, ok) \/ UploadReturns(c, ok)

ListNext ==
    \/ Load \/ LoadStep \/ BulkStep \/ UploadAllStep \/ AskBulk \/ AskCleanup \/ CancelBulk \/ AskUploadAll \/ CancelUploadAll
    \/ \E f \in Filters : SetFilter(f)
    \/ \E c \in Caps : ToggleRow(c) \/ AskRemove(c) \/ Recover(c) \/ UploadClicked(c) \/ RowStep(c) \/ RemovedElsewhere(c)
    \/ \E yes \in BOOLEAN : RemoveConfirmed(yes) \/ UploadAllConfirmed(yes)
    \/ \E yes \in BOOLEAN, a \in BOOLEAN : BulkConfirmed(yes, a)
    \/ \E a \in BOOLEAN : PreviewCleanup(a)

----------------------------------------------------------------------------
\* Types of the list's state.
ListTypeOK ==
    /\ lst.fin \subseteq lst.rows /\ lst.selected \subseteq lst.rows /\ lst.rows \subseteq Caps
    /\ \A l \in loads : l.g <= lst.gen
    /\ bulk.at \in {NoItem, "next", "fresh", "delete"}

(* CapturesSettings.vue:73-74, 123-149: however the answers of several     *)
(* loads are reordered, a list that has finished loading shows the rows of *)
(* the filter it names.                                                    *)
RowsAreOfFilter == (~lst.loading /\ ~lst.error) => lst.from = lst.filter

(* CapturesSettings.vue:244-246, captureList.ts:49: when the list claims   *)
(* to know, every row on it was looked up since the list was loaded, so no *)
(* row reads "not uploaded" because its lookup failed.                     *)
KnownIsLookedUp == lst.known => lst.rows \subseteq lst.checked

(* CapturesSettings.vue:528-537: "Free up space" sends a DELETE only for a *)
(* capture that was complete in the database at its own re-check, whatever *)
(* changed since the preview and the confirmation.                         *)
CleanupDeletesUploaded ==
    [][(bulk.kind = "cleanup" /\ bulk'.at = "delete" /\ bulk.at # "delete") => bulk'.cur \in inDb]_listVars

(* CapturesSettings.vue:374-379: after a cancel no further capture is      *)
(* taken up; the one being re-checked may still go.                        *)
CancelStops == [][(bulk.kind # NoItem /\ bulk.cancel) => bulk'.left \in {bulk.left, {}}]_listVars

(* CapturesSettings.vue:316-319, 580, captureList.ts:226-231: a capture is *)
(* never removed from disk while it is being uploaded or recovered from    *)
(* this page.                                                              *)
NoDeleteUnderUpload ==
    [][\A c \in Caps : (disk[c] # "gone" /\ disk'[c] = "gone") => busyAt[c] = "deleting"]_listVars

(* CapturesSettings.vue:580: one capture is never uploaded twice at once,  *)
(* nor touched by two operations: what a row is busy with ends before      *)
(* something else begins.                                                  *)
OneAtATime == [][\A c \in Caps : busyAt[c] # "no" => busyAt'[c] \in {busyAt[c], "no"}]_listVars

(* CapturesSettings.vue:375-401, 646-667: a bulk delete and an upload of   *)
(* all end, and loading ends, whatever fails.                              *)
ListQuiet == bulk.kind = NoItem /\ ~allRun.on /\ ~lst.loading
=============================================================================
