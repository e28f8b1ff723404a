------------------------------ MODULE ForceView ------------------------------
(***************************************************************************)
(* The force dashboard's shareable view.  The address bar mirrors the view  *)
(* (debounced), a link pushed onto the route is shown on top of the view    *)
(* once its operation has loaded, and the page is kept alive, so both run   *)
(* while another page owns the router.  `mode` stands for the plain fields  *)
(* (chart mode, axis, colour series, map mode), `zoom` for zoom and scale.  *)
(***************************************************************************)
EXTENDS Naturals, Sequences, FiniteSets, SequencesExt

CONSTANTS
    VOps,        \* the operations of the list
    LiteOps,     \* those with a live cache: their crop handles show
    Links,       \* queries another page, the history or a paste may push
    MaxCompare,  \* MAX_COMPARE, cuts a link keeps
    MaxViewActs  \* bound on clicks, links and page changes

ASSUME ForceViewAssumption ==
    LiteOps \subseteq VOps /\ MaxCompare \in Nat \ {0} /\ MaxViewActs \in Nat

NoV == "-"
NoLink == [op |-> NoV, mode |-> NoV, zoom |-> FALSE, crop |-> FALSE,
           cmp |-> <<>>, ref |-> NoV, diff |-> FALSE]
NoTask == [phase |-> "idle", link |-> NoLink, todo |-> <<>>, tok |-> 0, wait |-> NoV]

VARIABLES
    vw,        \* the view: operation, mode, zoom, crop, compare list, reference, difference
    det,       \* the detail shown, the newest load and the loads under way
    cmpData,   \* comparison envelopes held, and the fetches under way
    url,       \* the route: this page's or another's, and the view keys of its query
    page,      \* viewReady, active, the debounce timer, lastWrittenView
    task,      \* the view being applied: at mount ("mount") or from a link
    pend,      \* pendingCrop
    viewPast   \* bounds; the link taken while nothing else happened

viewVars == <<vw, det, cmpData, url, page, task, pend, viewPast>>

(* capCompare: the list is cut, but the reference is always kept. *)
capCompare(ids, ref) ==
    LET kept == SubSeq(ids, 1, IF Len(ids) < MaxCompare THEN Len(ids) ELSE MaxCompare)
    IN  IF ref \in Range(ids) /\ ref \notin Range(kept)
        THEN Append(Front(kept), ref) ELSE kept

(* encodeViewState: defaults are left out, the crop is written while dirty. *)
encodeViewState(v) ==
    LET c == capCompare(v.cmp, v.ref)
        r == IF v.ref \in Range(c) THEN v.ref ELSE NoV
    IN  [op |-> v.op, mode |-> IF v.mode = "force" THEN NoV ELSE v.mode,
         zoom |-> v.zoom, crop |-> v.crop[1] # "saved" /\ v.op \in LiteOps,
         cmp |-> c, ref |-> r, diff |-> v.diff /\ r # NoV]

decodeViewState(q) ==
    LET c == SubSeq(q.cmp, 1, IF Len(q.cmp) < MaxCompare THEN Len(q.cmp) ELSE MaxCompare)
        r == IF q.ref \in Range(c) THEN q.ref ELSE NoV
    IN  [q EXCEPT !.cmp = c, !.ref = r, !.diff = @ /\ r # NoV]

(* incomingViewDecision: a key the route leaves out is no difference. *)
Differs(q, v) ==
    LET i == decodeViewState(q)
        s == encodeViewState(v)
    IN  \E k \in DOMAIN i : i[k] # NoLink[k] /\ i[k] # s[k]

Armed == [page EXCEPT !.timer = TRUE]

(* watch(viewQuery): a change of the view arms the debounced write. *)
Watched(p, v) == IF v # vw THEN [p EXCEPT !.timer = TRUE] ELSE p

ViewInit ==
    /\ vw = [op |-> NoV, mode |-> "force", zoom |-> FALSE, crop |-> <<"saved", NoV>>,
             cmp |-> <<>>, ref |-> NoV, diff |-> FALSE]
    /\ det = [op |-> NoV, tok |-> 0, loads |-> {}]
    /\ cmpData = [held |-> {}, fetch |-> {}]
    /\ url \in [here : {TRUE}, q : Links \cup {NoLink}]
    /\ page = [ready |-> FALSE, active |-> TRUE, timer |-> FALSE, last |-> NoLink]
    /\ task = [NoTask EXCEPT !.phase = "mount"]
    /\ pend = NoV
    /\ viewPast = [acts |-> 0, link |-> NoLink, changed |-> FALSE, again |-> FALSE]

Acts == viewPast.acts < MaxViewActs
Acted == viewPast' = [viewPast EXCEPT !.acts = @ + 1, !.link = NoLink, !.changed = page.ready]

(***************************************************************************)
(* Operations and comparisons, with the watchers on them.                   *)
(***************************************************************************)
(* Marking a removed cut is undone (watch(compareIds)). *)
Chips(v, ids) ==
    IF v.ref \in Range(ids) THEN [v EXCEPT !.cmp = ids]
    ELSE [v EXCEPT !.cmp = ids, !.ref = NoV, !.diff = FALSE]

(* The primary cut is not drawn as its own comparison; the zoom is reset.   *)
ShownOp(o) == Chips([vw EXCEPT !.op = o, !.zoom = FALSE],
                    SelectSeq(vw.cmp, LAMBDA x : x # o))

(* selectOp up to its await. *)
Select(o) ==
    /\ vw' = ShownOp(o)
    /\ det' = [det EXCEPT !.tok = @ + 1, !.loads = @ \cup {[op |-> o, tok |-> det.tok + 1]}]

ClickOp(o) ==
    /\ Acts /\ page.active /\ task.phase # "mount" /\ o # vw.op
    /\ Select(o)
    /\ page' = Armed
    /\ Acted
    /\ UNCHANGED <<cmpData, url, task, pend>>

(* The detail arrives; a new one reseeds the crop handles.  An older load   *)
(* is dropped.  Whoever awaited it goes on either way.                      *)
DetailArrives(l, ok) ==
    LET v == IF l.tok = det.tok /\ ok /\ l.op # det.op
             THEN [vw EXCEPT !.crop = <<"saved", NoV>>] ELSE vw
    IN  /\ l \in det.loads
        /\ det' = [det EXCEPT !.loads = @ \ {l},
                              !.op = IF l.tok # det.tok THEN @ ELSE IF ok THEN l.op ELSE NoV]
        /\ vw' = v
        /\ page' = Watched(page, v)
        /\ task' = IF task.phase \in {"op", "mountOp"} /\ task.tok = l.tok
                   THEN [task EXCEPT !.phase = IF @ = "op" THEN "apply" ELSE "mountApply"]
                   ELSE task
        /\ viewPast' = IF ok THEN viewPast ELSE [viewPast EXCEPT !.link = NoLink]
        /\ UNCHANGED <<cmpData, url, pend>>

(* addCompare up to its await. *)
Add(v, id) == IF id \in Range(v.cmp) THEN v ELSE [v EXCEPT !.cmp = Append(@, id)]
Fetched(id) == [cmpData EXCEPT !.fetch = IF id \in @ \/ id \in cmpData.held THEN @ ELSE @ \cup {id}]

ClickCompare(id) ==
    /\ Acts /\ page.active /\ id # vw.op /\ id \notin Range(vw.cmp) /\ det.op # NoV
    /\ vw' = Add(vw, id)
    /\ cmpData' = Fetched(id)
    /\ page' = Armed
    /\ Acted
    /\ UNCHANGED <<det, url, task, pend>>

CompareArrives(id, ok) ==
    LET v == IF ok THEN vw ELSE Chips(vw, SelectSeq(vw.cmp, LAMBDA x : x # id))
    IN  /\ id \in cmpData.fetch
        /\ cmpData' = [held |-> IF ok THEN cmpData.held \cup {id} ELSE cmpData.held,
                       fetch |-> cmpData.fetch \ {id}]
        /\ vw' = v
        /\ page' = Watched(page, v)
        /\ task' = IF task.wait = id THEN [task EXCEPT !.wait = NoV] ELSE task
        /\ viewPast' = IF ok THEN viewPast ELSE [viewPast EXCEPT !.link = NoLink]
        /\ UNCHANGED <<det, url, pend>>

Change(v) ==
    /\ Acts /\ page.active /\ det.op # NoV /\ v # vw
    /\ vw' = v
    /\ page' = Armed
    /\ Acted
    /\ UNCHANGED <<det, cmpData, url, task, pend>>

SetMode(m) == m # vw.mode /\ Change([vw EXCEPT !.mode = m, !.zoom = FALSE])
onChartZoom == Change([vw EXCEPT !.zoom = TRUE])
DragCrop == det.op \in LiteOps /\ Change([vw EXCEPT !.crop = <<"drag", det.op>>])
removeCompare(id) == Change(Chips(vw, SelectSeq(vw.cmp, LAMBDA x : x # id)))
toggleCompareRef(id) ==
    /\ id \in Range(vw.cmp)
    /\ Change(IF vw.ref = id THEN [vw EXCEPT !.ref = NoV, !.diff = FALSE]
              ELSE [vw EXCEPT !.ref = id])
ToggleDiff == vw.ref # NoV /\ Change([vw EXCEPT !.diff = ~@])

(* pendingCrop.take: only the load of the operation it was asked for.       *)
Take == IF pend = det.op THEN pend ELSE NoV

(* onCloudLoaded: the handles are reseeded, then the link's crop applies.   *)
CloudLoaded ==
    LET t == Take
        v == [vw EXCEPT !.crop = IF t # NoV THEN <<"link", t>> ELSE <<"saved", NoV>>]
    IN  /\ page.active /\ det.op \in LiteOps /\ (pend # NoV \/ vw.crop[1] = "link")
        /\ vw' = v
        /\ pend' = NoV
        /\ page' = Watched(page, v)
        /\ UNCHANGED <<det, cmpData, url, task, viewPast>>

(***************************************************************************)
(* A view applied: at mount, or from the route (followRoute, showView,      *)
(* applyViewState).                                                         *)
(***************************************************************************)
Applying == task.phase \in {"op", "apply", "cmp"}

(* showView: an operation that is not in the list changes nothing. *)
Shows(q, mounting) ==
    IF q.op \notin VOps \cup {NoV}
    THEN /\ task' = [NoTask EXCEPT !.phase = IF mounting THEN "idle" ELSE "missed"]
         /\ UNCHANGED <<vw, det>>
    ELSE IF q.op \in {NoV, vw.op}
    THEN /\ task' = [NoTask EXCEPT !.phase = IF mounting THEN "mountApply" ELSE "apply", !.link = q]
         /\ UNCHANGED <<vw, det>>
    ELSE /\ Select(q.op)
         /\ task' = [NoTask EXCEPT !.phase = IF mounting THEN "mountOp" ELSE "op",
                                   !.link = q, !.tok = det.tok + 1]

(* onMounted: the rows have arrived; the route names the operation, or the  *)
(* last selection does.                                                     *)
Mount(last) ==
    LET q == decodeViewState(url.q)
        v == IF q.op = NoV THEN [q EXCEPT !.op = last] ELSE q
    IN  /\ task.phase = "mount"
        /\ IF v.op = NoV THEN task' = NoTask /\ UNCHANGED <<vw, det>> ELSE Shows(v, TRUE)
        /\ page' = [page EXCEPT !.ready = v.op \notin VOps, !.timer = v.op \in VOps]
        /\ UNCHANGED <<cmpData, url, pend, viewPast>>

(* followRoute, on activation and on every change of the route's query.     *)
MayFollow(p, u) == p.ready /\ p.active /\ u.here /\ ~Applying
followRoute(p, u) ==
    IF ~MayFollow(p, u) \/ u.q = p.last
    THEN page' = p /\ UNCHANGED <<vw, det, task>>
    ELSE IF Differs(u.q, vw)
    THEN /\ Shows(decodeViewState(u.q), FALSE)
         /\ page' = Watched(p, vw')
    ELSE page' = [p EXCEPT !.timer = TRUE] /\ UNCHANGED <<vw, det, task>>

Followed(p, u) ==
    viewPast' = [viewPast EXCEPT !.acts = @ + 1, !.changed = page.ready \/ @,
                   !.again = @ \/ (MayFollow(p, u) /\ u.q = p.last),
                   !.link = IF MayFollow(p, u) /\ u.q # p.last /\ Differs(u.q, vw)
                               /\ u.q.op \in VOps \cup {NoV}
                            THEN decodeViewState(u.q) ELSE NoLink]

(* A link is pushed while the page shows. *)
Push(q) ==
    /\ Acts /\ page.active /\ url.here /\ q # url.q /\ task.phase \notin {"mount", "missed"}
    /\ url' = [url EXCEPT !.q = q]
    /\ followRoute(page, url')
    /\ Followed(page, url')
    /\ UNCHANGED <<cmpData, pend>>

(* Another page is shown; the write is cancelled. *)
LeavePage == page' = [page EXCEPT !.active = FALSE, !.timer = FALSE]

Away ==
    /\ Acts /\ page.active /\ url.here /\ page.ready
    /\ url' = [here |-> FALSE, q |-> NoLink]
    /\ LeavePage
    /\ Acted
    /\ UNCHANGED <<vw, det, cmpData, task, pend>>

(* onActivated forgets what it wrote, so the route is read again. *)
Returned(p) == [p EXCEPT !.active = TRUE, !.last = NoLink]

Back(q) ==
    /\ Acts /\ ~page.active
    /\ url' = [here |-> TRUE, q |-> q]
    /\ followRoute(Returned(page), url')
    /\ Followed(Returned(page), url')
    /\ UNCHANGED <<cmpData, pend>>

ApplyFields ==
    LET l == task.link
        v == IF l.mode \notin {NoV, vw.mode} THEN [vw EXCEPT !.mode = l.mode, !.zoom = FALSE] ELSE vw
    IN  /\ task.phase \in {"apply", "mountApply"}
        /\ vw' = v
        /\ page' = Watched(page, v)
        /\ task' = [task EXCEPT !.phase = IF @ = "apply" THEN "cmp" ELSE "mountCmp", !.todo = l.cmp]
        /\ UNCHANGED <<det, cmpData, url, pend, viewPast>>

ApplyCompare ==
    LET id == Head(task.todo)
        go == id \in VOps /\ id # vw.op
        v == IF go THEN Add(vw, id) ELSE vw
    IN  /\ task.phase \in {"cmp", "mountCmp"} /\ task.todo # <<>> /\ task.wait = NoV
        /\ vw' = v
        /\ page' = Watched(page, v)
        /\ cmpData' = IF go /\ v # vw THEN Fetched(id) ELSE cmpData
        /\ task' = [task EXCEPT !.todo = Tail(@),
                      !.wait = IF id \in cmpData'.fetch /\ v # vw THEN id ELSE NoV]
        /\ UNCHANGED <<det, url, pend, viewPast>>

(* The reference, then the zoom, then the crop of the operation now shown.  *)
Finished(v, l) ==
    LET r == IF l.ref \in Range(v.cmp) THEN [v EXCEPT !.ref = l.ref, !.diff = l.diff] ELSE v
        z == IF l.zoom THEN [r EXCEPT !.zoom = TRUE] ELSE r
    IN  IF l.crop /\ det.op # NoV THEN [z EXCEPT !.crop = <<"link", det.op>>] ELSE z

(* The end of followRoute writes the address bar; the end of onMounted only *)
(* opens it to writing.                                                     *)
Settled(p, mounting) == IF mounting THEN [p EXCEPT !.ready = TRUE] ELSE [p EXCEPT !.timer = TRUE]

ApplyEnds ==
    LET v == Finished(vw, task.link)
    IN  /\ task.phase \in {"cmp", "mountCmp"} /\ task.todo = <<>> /\ task.wait = NoV
        /\ vw' = v
        /\ pend' = IF task.link.crop /\ det.op # NoV THEN det.op ELSE pend
        /\ page' = Settled(Watched(page, v), task.phase = "mountCmp")
        /\ task' = NoTask
        /\ UNCHANGED <<det, cmpData, url, viewPast>>

Missed ==
    /\ task.phase = "missed"
    /\ task' = NoTask
    /\ page' = Armed
    /\ UNCHANGED <<vw, det, cmpData, url, pend, viewPast>>

(* writeViewQuery, 400 ms after the last change. *)
MutMayWrite == page.ready /\ ~Applying
MayWrite == page.ready /\ page.active /\ url.here /\ ~Applying

Write ==
    LET q == encodeViewState(vw)
    IN  /\ page.timer
        /\ page' = [page EXCEPT !.timer = FALSE, !.last = IF MayWrite /\ q # url.q THEN q ELSE @]
        /\ url' = IF MayWrite THEN [url EXCEPT !.q = q] ELSE url
        /\ UNCHANGED <<vw, det, cmpData, task, pend, viewPast>>

ApplyStep == ApplyFields \/ ApplyCompare \/ ApplyEnds \/ Missed

ViewNext ==
    \/ \E o \in VOps : ClickOp(o) \/ ClickCompare(o) \/ removeCompare(o) \/ toggleCompareRef(o)
    \/ \E l \in det.loads, ok \in BOOLEAN : DetailArrives(l, ok)
    \/ \E id \in VOps, ok \in BOOLEAN : CompareArrives(id, ok)
    \/ \E m \in {"force", "fft"} : SetMode(m)
    \/ onChartZoom \/ DragCrop \/ ToggleDiff \/ CloudLoaded
    \/ \E o \in VOps \cup {NoV} : Mount(o)
    \/ \E q \in Links : Push(q) \/ Back(q)
    \/ Away
    \/ ApplyStep
    \/ Write

-----------------------------------------------------------------------------
ViewTypeOK ==
    /\ vw.op \in VOps \cup {NoV} /\ vw.mode \in {"force", "fft"}
    /\ vw.crop \in {"saved", "link", "drag"} \X (VOps \cup {NoV})
    /\ det.op \in VOps \cup {NoV}
    /\ cmpData \in [held : SUBSET VOps, fetch : SUBSET VOps]
    /\ task.phase \in {"mount", "mountOp", "mountApply", "mountCmp", "op", "apply", "cmp",
                       "missed", "idle"}
    /\ pend \in VOps \cup {NoV}
    /\ page.ready <=> task.phase \notin {"mount", "mountOp", "mountApply", "mountCmp"}

(* The cut shown is never overlaid on itself, whichever of a click, a link  *)
(* and a late answer came last (ForceDashboard.vue:1980-1982).              *)
NotWithItself == vw.op \notin Range(vw.cmp)

(* The difference is shown against a cut that is still compared, and the    *)
(* link of the view keeps it whatever its cap drops (viewState.ts:54-56).   *)
LinkKeepsDifference ==
    vw.ref # NoV => vw.ref \in Range(vw.cmp) /\ encodeViewState(vw).ref = vw.ref
                    /\ encodeViewState(vw).diff = vw.diff

(* A link's crop preview moves the handles of the operation it was applied  *)
(* to, and of no other that loads later (pendingCrop.ts:1-4).               *)
CropOfAppliedOp == vw.crop[1] = "link" /\ det.op # NoV => vw.crop[2] = det.op

(* A link followed with nothing else going on is shown: its operation, its  *)
(* mode, its zoom, its reference.                                           *)
LinkIsShown ==
    LET l == viewPast.link
    IN  l # NoLink /\ task.phase = "idle" =>
        /\ l.op \in {NoV, vw.op} /\ l.mode \in {NoV, vw.mode} /\ (l.zoom => vw.zoom)
        /\ l.ref \in Range(vw.cmp) => vw.ref = l.ref

(* Another page's address is never rewritten (ForceDashboard.vue:1988-1989). *)
AwayUntouched == [][~url.here /\ ~url'.here => url' = url]_viewVars

(* After the page was used, the address bar ends up as the link of what is  *)
(* shown (viewState.ts:1-2), a link the page itself wrote last and is given *)
(* again left aside.                                                        *)
ViewQuiet ==
    page.ready /\ page.active /\ viewPast.changed /\ ~viewPast.again
         => url.q = encodeViewState(vw)

(* Does not hold (README, section 5): lastWrittenView outlives the address  *)
(* it was written to when the next link needs no write, so going forward to *)
(* it again is taken for the page's own write and not followed.             *)
AddressIsView ==
    <>[](page.ready /\ page.active /\ viewPast.changed => url.q = encodeViewState(vw))

(* Does not hold (README, section 5): a write that comes due while the      *)
(* first operation loads is dropped, and the end of the mount arms none.    *)
AddressFollows ==
    page.ready /\ page.active /\ url.here /\ ~page.timer /\ task.phase = "idle"
    => url.q = encodeViewState(vw)
=============================================================================
