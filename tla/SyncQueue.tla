------------------------------ MODULE SyncQueue ------------------------------
(***************************************************************************)
(* The offline queue of finished runs (web/src/record/directusSync.ts with *)
(* the ownership rules of recorder.ts): runs wait in localStorage and one  *)
(* flush at a time writes them to the database.  Every await of a flush is *)
(* a step: meanwhile runs are logged, discarded, moved to the front, and   *)
(* another account may sign in.                                            *)
(***************************************************************************)
EXTENDS Integers, Sequences, SequencesExt, FiniteSets

CONSTANTS
    RunIds,         \* queued runs (QueuedRun.id)
    Users,          \* accounts
    MaxSyncFaults,  \* bound: failed requests
    MaxSwitches     \* bound: changes of the session

\* Three names are no ids: a run nobody is recorded for, no run, and the row's poster as its owner.
ASSUME SyncAssumption ==
    /\ IsFiniteSet(RunIds) /\ Users # {} /\ {MaxSyncFaults, MaxSwitches} \subseteq Nat
    /\ {"anyone", "none", "poster"} \cap (RunIds \union Users) = {}

VARIABLES
    sq,        \* the queue in localStorage
    sess,      \* the session: account, offline
    fl,        \* the flush: where it is, the item it holds, the owner it found
    made,      \* rows written for a run, with the owner the database keeps
    syncPast   \* history: discarded runs, failures and session changes, unlucky runs

syncVars == <<sq, sess, fl, made, syncPast>>

Anyone == "anyone"
IdleFlush == [at |-> "idle", id |-> "none", owner |-> "none", tried |-> FALSE, moved |-> FALSE]
Queued(id) == \E i \in DOMAIN sq : sq[i].id = id
PositionOf(id) == CHOOSE i \in DOMAIN sq : sq[i].id = id
ItemOf(id) == sq[PositionOf(id)]

\* An id is random (crypto.randomUUID): filter() and splice() take out the one item that has it.
QueueWithout(id) == IF Queued(id) THEN RemoveAt(sq, PositionOf(id)) ELSE sq
SyncFault == syncPast.faults < MaxSyncFaults
SyncFaulted == [syncPast EXCEPT !.faults = @ + 1]

SyncInit ==
    /\ sq = <<>> /\ fl = IdleFlush /\ made = [id \in RunIds |-> <<>>]
    /\ sess \in [me : Users, offline : BOOLEAN]
    /\ syncPast = [logged |-> {}, by |-> [id \in RunIds |-> Anyone], discarded |-> {}, faults |-> 0, switches |-> 0, blind |-> {}]

\* Mutant: whoever is signed in sends whatever is queued.
MutMayAutoSync(x) == TRUE

mayAutoSync(x) == x.by = Anyone \/ x.asMe \/ x.by = sess.me

----------------------------------------------------------------------------
(* What the page does to the queue.                                        *)

\* logRun(): the run is stamped with who recorded it (recorderFields); nobody when no account was known.
logRun(id, by) ==
    /\ id \notin syncPast.logged
    /\ sq' = Append(sq, [id |-> id, by |-> by, asMe |-> FALSE, tried |-> FALSE])
    /\ syncPast' = [syncPast EXCEPT !.logged = @ \union {id}, !.by[id] = by]
    /\ UNCHANGED <<sess, fl, made>>

discardQueued(id) ==
    /\ Queued(id)
    /\ sq' = QueueWithout(id)
    /\ syncPast' = [syncPast EXCEPT !.discarded = @ \union {id}]
    /\ UNCHANGED <<sess, fl, made>>

\* retryQueued(): to the front, so that a failing head does not block it.
retryQueued(id) ==
    /\ Queued(id)
    /\ sq' = <<ItemOf(id)>> \o QueueWithout(id)
    /\ sq' # sq
    /\ UNCHANGED <<sess, fl, made, syncPast>>

uploadQueuedAsMe(id) ==
    /\ Queued(id) /\ ~mayAutoSync(ItemOf(id))
    /\ sq' = <<[ItemOf(id) EXCEPT !.asMe = TRUE]>> \o QueueWithout(id)
    /\ UNCHANGED <<sess, fl, made, syncPast>>

\* Another account signs in, or the session goes offline or comes back.
SessionChanges(me, offline) ==
    /\ syncPast.switches < MaxSwitches /\ sess # [me |-> me, offline |-> offline]
    /\ sess' = [me |-> me, offline |-> offline]
    /\ fl' = [fl EXCEPT !.moved = fl.at # "idle" /\ (@ \/ me # sess.me)]
    /\ syncPast' = [syncPast EXCEPT !.switches = @ + 1]
    /\ UNCHANGED <<sq, made>>

----------------------------------------------------------------------------
(* flush(): one at a time; the queue is read again for every item.         *)

Eligible == {i \in DOMAIN sq : mayAutoSync(sq[i])}
FirstEligible == sq[CHOOSE i \in Eligible : \A j \in Eligible : i <= j]

\* A timer tick, "online", a sign-in or a click starts it.
FlushStarts ==
    /\ fl.at = "idle" /\ ~sess.offline /\ Eligible # {}
    /\ fl' = [IdleFlush EXCEPT !.at = "pick"]
    /\ UNCHANGED <<sq, sess, made, syncPast>>

FlushPicks ==
    /\ fl.at = "pick"
    /\ fl' = IF Eligible = {} THEN IdleFlush
             ELSE [IdleFlush EXCEPT !.at = "owner", !.id = FirstEligible.id, !.tried = FirstEligible.tried]
    /\ UNCHANGED <<sq, sess, made, syncPast>>

AfterOwner(tried) == IF tried THEN "lookup" ELSE "post"

\* resolveOwnerPersonId(): named for a run of somebody else, left to the database for one's own.
OwnerResolved ==
    /\ fl.at = "owner"
    /\ LET by == syncPast.by[fl.id] IN
       fl' = [fl EXCEPT !.at = AfterOwner(fl.tried), !.owner = IF by \in {Anyone, sess.me} THEN "poster" ELSE by]
    /\ UNCHANGED <<sq, sess, made, syncPast>>

\* Mutant: the queue as it was read before the request is written back.
MutDropSent(id) == SelectSeq(sq, LAMBDA x : FALSE)

DropSent(id) == QueueWithout(id)

\* findOperationForCapture(): an attempt whose answer was lost did write the row.
LookupFinds ==
    /\ fl.at = "lookup"
    /\ IF made[fl.id] # <<>> THEN sq' = DropSent(fl.id) /\ fl' = [IdleFlush EXCEPT !.at = "pick"]
       ELSE fl' = [fl EXCEPT !.at = "post"] /\ UNCHANGED sq
    /\ UNCHANGED <<sess, made, syncPast>>

\* A lookup that fails counts as "no row": .catch(() => null).
LookupFailed ==
    /\ fl.at = "lookup" /\ SyncFault
    /\ fl' = [fl EXCEPT !.at = "post"]
    /\ syncPast' = [SyncFaulted EXCEPT !.blind = @ \union {fl.id}]
    /\ UNCHANGED <<sq, sess, made>>

RowOwner == IF fl.owner = "poster" THEN sess.me ELSE fl.owner
Written == made' = [made EXCEPT ![fl.id] = Append(@, [owner |-> RowOwner, moved |-> fl.moved])]

Posted ==
    /\ fl.at = "post" /\ ~sess.offline
    /\ Written
    /\ sq' = DropSent(fl.id)
    /\ fl' = [IdleFlush EXCEPT !.at = "pick"]
    /\ UNCHANGED <<sess, syncPast>>

\* attempts++ on the stored item; one discarded meanwhile stays discarded.
PostFailed == [i \in DOMAIN sq |-> IF sq[i].id = fl.id THEN [sq[i] EXCEPT !.tried = TRUE] ELSE sq[i]]

AfterFailure == IdleFlush

\* A request fails, before or after the database has committed.
PostFails(committed) ==
    /\ fl.at \in {"owner", "post"} /\ SyncFault
    /\ committed => (fl.at = "post" /\ ~sess.offline)
    /\ IF committed THEN Written ELSE UNCHANGED made
    /\ sq' = PostFailed
    /\ fl' = AfterFailure
    /\ syncPast' = SyncFaulted
    /\ UNCHANGED sess

\* The session has gone offline meanwhile: the request is refused.
PostRefused ==
    /\ fl.at = "post" /\ sess.offline
    /\ sq' = PostFailed /\ fl' = AfterFailure
    /\ UNCHANGED <<sess, made, syncPast>>

FlushStep == FlushPicks \/ OwnerResolved \/ LookupFinds \/ Posted \/ PostRefused

SyncNext ==
    \/ FlushStarts \/ FlushStep \/ LookupFailed
    \/ \E c \in BOOLEAN : PostFails(c)
    \/ \E id \in RunIds : discardQueued(id) \/ retryQueued(id) \/ uploadQueuedAsMe(id) \/ \E u \in Users \union {Anyone} : logRun(id, u)
    \/ \E u \in Users, o \in BOOLEAN : SessionChanges(u, o)

----------------------------------------------------------------------------
\* The queue by itself, without fairness.
SyncSpec == SyncInit /\ [][SyncNext]_syncVars

\* Types of the queue and the flush.
SyncTypeOK ==
    /\ \A i \in DOMAIN sq : sq[i].id \in RunIds /\ sq[i].by \in Users \union {Anyone}
    /\ fl.at \in {"idle", "pick", "owner", "lookup", "post"}

(* directusSync.ts:115, 120-122, 162-164: a discarded run never comes back *)
(* into the queue, also when it is discarded while its request is out, and *)
(* no run is queued twice.                                                 *)
DiscardIsFinal ==
    /\ \A id \in syncPast.discarded : ~Queued(id)
    /\ \A i, j \in DOMAIN sq : sq[i].id = sq[j].id => i = j

(* directusSync.ts:87-96, 115: whatever is logged, moved or dropped during *)
(* a request, a run that was neither written nor discarded is still in the *)
(* queue.                                                                  *)
NoRunLost == \A id \in syncPast.logged : Queued(id) \/ id \in syncPast.discarded \/ made[id] # <<>>

(* directusSync.ts:105-114: a retry writes a second row only when the      *)
(* answer to the first was lost and the lookup before the retry failed too.*)
NoSecondRow == \A id \in RunIds : Len(made[id]) > 1 => id \in syncPast.blind

(* directusSync.ts:31-40, 101-103, recorder.ts:93-108: the row of a run    *)
(* belongs to whoever recorded it, whoever was signed in when it was sent, *)
(* unless the account changed while its request was out.                   *)
OwnedByRecorder ==
    \A id \in RunIds : \A i \in DOMAIN made[id] :
        syncPast.by[id] # Anyone => (made[id][i].owner = syncPast.by[id] \/ made[id][i].moved)

(* directusSync.ts:31-40: a run of somebody else is never sent while its   *)
(* recorder is not signed in, unless "upload as me" was asked for.         *)
OthersAreLeft ==
    [][\A id \in RunIds : (fl.at = "pick" /\ fl'.id = id) =>
          (syncPast.by[id] \in {Anyone, sess.me} \/ ItemOf(id).asMe)]_syncVars

(* directusSync.ts:79-142, 197: a run the session may send does not stay   *)
(* in the queue while the session is online, whatever failed before.       *)
QueueQuiet == \A id \in RunIds : Queued(id) => (sess.offline \/ ~mayAutoSync(ItemOf(id)))
=============================================================================
