--------------------------- MODULE Database_proofs ---------------------------
(***************************************************************************)
(* The suite MCDatabase, for every value of the constants: the queue of    *)
(* runs (SyncQueue), the list of local captures (CaptureList), the session *)
(* (AuthSession), the access guard and the crawler page (LabServer), the   *)
(* campaign panels (LabPages) and the code fields (LabCodes), each with    *)
(* the inductive invariant it needs; the upload is proved in               *)
(* CaptureUpload_proofs.  The last section composes them: a step of the    *)
(* suite is a step of one component, so CapturesSafe and DatabaseSteps     *)
(* hold of its specification.                                              *)
(***************************************************************************)
EXTENDS MCDatabase, CaptureUpload_proofs, SequenceTheorems, WellFoundedInduction, TLAPS

----------------------------------------------------------------------------
(* THE QUEUE OF RUNS.                                                      *)

Owners == Users \union {Anyone}
Item == [id : RunIds, by : Owners, asMe : BOOLEAN, tried : BOOLEAN]
QueueStages == {"idle", "pick", "owner", "lookup", "post"}
Flush == [at : QueueStages, id : RunIds \union {"none"}, owner : Users \union {"none", "poster"},
          tried : BOOLEAN, moved : BOOLEAN]
RowMade == [owner : Users \union {"none"}, moved : BOOLEAN]
QueuePast == [logged : SUBSET RunIds, by : [RunIds -> Owners], discarded : SUBSET RunIds,
         faults : Nat, switches : Nat, blind : SUBSET RunIds]

QueueTyped ==
    /\ sq \in Seq(Item) /\ sess \in [me : Users, offline : BOOLEAN] /\ fl \in Flush
    /\ made \in [RunIds -> Seq(RowMade)] /\ syncPast \in QueuePast

Items(q) == {q[i] : i \in DOMAIN q}
Distinct(q) == \A i, j \in DOMAIN q : q[i].id = q[j].id => i = j

\* A queued run is logged and not discarded, and one never tried has no row.
QueueSound ==
    /\ Distinct(sq)
    /\ \A x \in Items(sq) : /\ x.id \in syncPast.logged \ syncPast.discarded
                            /\ x.by = syncPast.by[x.id]
                            /\ ~x.tried => made[x.id] = <<>>

OnlyLogged == syncPast.discarded \subseteq syncPast.logged /\ \A id \in RunIds : made[id] # <<>> => id \in syncPast.logged

\* Between two runs a flush holds none; the run it holds was logged.
FlushHolds ==
    /\ fl.at = "pick" => fl.id = "none"
    /\ fl.at \in {"owner", "lookup", "post"} => fl.id \in syncPast.logged

\* A flush that is about to write knows of no row, or could not ask.
AskedFirst ==
    /\ fl.at = "owner" /\ ~fl.tried => made[fl.id] = <<>>
    /\ fl.at = "post" => made[fl.id] = <<>> \/ fl.id \in syncPast.blind

\* The owner is the recorder, or left to the database while the recorder is signed in.
OwnerFits ==
    fl.at \in {"lookup", "post"} =>
        LET by == syncPast.by[fl.id]
        IN  \/ by = Anyone \/ fl.owner = by
            \/ fl.owner = "poster" /\ (sess.me = by \/ fl.moved)

\* NoRunLost, in terms of the items.
Kept == \A id \in syncPast.logged : (\E x \in Items(sq) : x.id = id) \/ id \in syncPast.discarded \/ made[id] # <<>>

QueueRuled == /\ QueueSound /\ OnlyLogged /\ FlushHolds /\ AskedFirst /\ OwnerFits
         /\ Kept /\ NoSecondRow /\ OwnedByRecorder
QueueIInv == QueueTyped /\ QueueRuled

----------------------------------------------------------------------------
(* Lemmas about queues.                                                    *)

\* Every non-empty set of positions has a first one.
LEMMA FirstExists == ASSUME NEW T, T \subseteq Nat, T # {} PROVE \E i \in T : \A j \in T : i <= j
<1> DEFINE R == OpToRel(<, Nat)
<1>1. \E i \in T : \A j \in T : ~(<<j, i>> \in R)
  <2>1. IsWellFoundedOn(R, Nat)
    BY NatLessThanWellFounded
  <2> HIDE DEF R
  <2> QED
    BY <2>1, WFMin
<1>2. \A i, j \in T : <<j, i>> \notin R => i <= j
  BY DEF OpToRel
<1> QED
  BY <1>1, <1>2

\* The item of a queued run.
LEMMA ItemFact ==
  ASSUME NEW id, Queued(id)
  PROVE  ItemOf(id) \in Items(sq) /\ ItemOf(id).id = id /\ PositionOf(id) \in DOMAIN sq /\ sq[PositionOf(id)].id = id
BY DEF Queued, ItemOf, PositionOf, Items

\* The item that a flush takes is in the queue and may be sent.
LEMMA FirstFact ==
  ASSUME sq \in Seq(Item), Eligible # {}
  PROVE  FirstEligible \in Items(sq) /\ mayAutoSync(FirstEligible)
<1> DEFINE k == CHOOSE i \in Eligible : \A j \in Eligible : i <= j
<1>1. Eligible \subseteq Nat
  BY LenProperties DEF Eligible
<1>2. \E i \in Eligible : \A j \in Eligible : i <= j
  BY <1>1, FirstExists
<1>3. k \in Eligible
  BY <1>2
<1>4. FirstEligible = sq[k]
  BY DEF FirstEligible
<1> HIDE DEF k
<1> QED
  BY <1>3, <1>4 DEF Eligible, Items

\* QueueWithout() takes out one run and keeps the others.
LEMMA WithoutFact ==
  ASSUME sq \in Seq(Item), Distinct(sq), NEW id
  PROVE  /\ QueueWithout(id) \in Seq(Item) /\ Distinct(QueueWithout(id))
         /\ Items(QueueWithout(id)) = {x \in Items(sq) : x.id # id}
<1>1. CASE ~Queued(id)
  BY <1>1 DEF QueueWithout, Queued, Items
<1>2. CASE Queued(id)
  <2> DEFINE k == PositionOf(id)
             n == Len(sq)
             a == SubSeq(sq, 1, k - 1)
             b == SubSeq(sq, k + 1, n)
             q == QueueWithout(id)
  <2>1. n \in Nat /\ DOMAIN sq = 1 .. n /\ (\A i \in 1 .. n : sq[i] \in Item) /\ k \in 1 .. n /\ sq[k].id = id
    BY <1>2, ItemFact, LenProperties, ElementOfSeq
  <2>2. q = a \o b
    BY <1>2 DEF QueueWithout, RemoveAt
  <2> HIDE DEF k, n, q
  <2>3. a \in Seq(Item) /\ Len(a) = k - 1 /\ \A i \in 1 .. k - 1 : a[i] = sq[i]
    <3>1. \A i \in 1 .. k - 1 : sq[i] \in Item
      BY <2>1
    <3>2. k - 1 \in Int /\ 1 \in Int
      BY <2>1
    <3>3. /\ a \in Seq(Item) /\ Len(a) = IF 1 <= k - 1 THEN (k - 1) - 1 + 1 ELSE 0
          /\ \A i \in 1 .. (k - 1) - 1 + 1 : a[i] = sq[1 + i - 1]
      BY <3>1, <3>2, SubSeqProperties
    <3> HIDE DEF a
    <3> QED
      BY <2>1, <3>3
  <2>4. b \in Seq(Item) /\ Len(b) = n - k /\ \A i \in 1 .. n - k : b[i] = sq[k + i]
    <3>1. \A i \in k + 1 .. n : sq[i] \in Item
      BY <2>1
    <3>2. k + 1 \in Int /\ n \in Int
      BY <2>1
    <3>3. /\ b \in Seq(Item) /\ Len(b) = IF k + 1 <= n THEN n - (k + 1) + 1 ELSE 0
          /\ \A i \in 1 .. n - (k + 1) + 1 : b[i] = sq[k + 1 + i - 1]
      BY <3>1, <3>2, SubSeqProperties
    <3> HIDE DEF b
    <3> QED
      BY <2>1, <3>3
  <2> HIDE DEF a, b
  <2>5. /\ q \in Seq(Item) /\ Len(q) = n - 1
        /\ \A i \in 1 .. n - 1 : q[i] = IF i < k THEN sq[i] ELSE sq[i + 1]
    <3>1. /\ q \in Seq(Item) /\ Len(q) = Len(a) + Len(b)
          /\ \A i \in 1 .. Len(a) + Len(b) : q[i] = IF i <= Len(a) THEN a[i] ELSE b[i - Len(a)]
      BY <2>2, <2>3, <2>4, ConcatProperties
    <3> QED
      BY <2>1, <2>3, <2>4, <3>1
  <2>6. DOMAIN q = 1 .. n - 1
    BY <2>5, LenProperties
  <2>7. \A i \in DOMAIN q : q[i] \in Items(sq) /\ q[i].id # id
    <3> SUFFICES ASSUME NEW i \in 1 .. n - 1 PROVE q[i] \in Items(sq) /\ q[i].id # id
      BY <2>6
    <3> DEFINE j == IF i < k THEN i ELSE i + 1
    <3>1. j \in 1 .. n /\ j # k /\ q[i] = sq[j]
      BY <2>1, <2>5
    <3> HIDE DEF j
    <3> QED
      BY <2>1, <3>1 DEF Items, Distinct
  <2>8. \A j \in 1 .. n : sq[j].id # id => \E i \in DOMAIN q : q[i] = sq[j]
    <3> SUFFICES ASSUME NEW j \in 1 .. n, sq[j].id # id PROVE \E i \in DOMAIN q : q[i] = sq[j]
      OBVIOUS
    <3>1. CASE j < k
      BY <2>1, <2>5, <2>6, <3>1
    <3>2. CASE k < j
      <4>1. j - 1 \in 1 .. n - 1 /\ ~(j - 1 < k) /\ (j - 1) + 1 = j
        BY <2>1, <3>2
      <4> QED
        BY <2>5, <2>6, <4>1
    <3> QED
      BY <2>1, <3>1, <3>2
  <2>9. Distinct(q)
    <3> SUFFICES ASSUME NEW i \in 1 .. n - 1, NEW j \in 1 .. n - 1, q[i].id = q[j].id PROVE i = j
      BY <2>6 DEF Distinct
    <3> DEFINE at(m) == IF m < k THEN m ELSE m + 1
    <3>1. at(i) \in 1 .. n /\ at(j) \in 1 .. n /\ q[i] = sq[at(i)] /\ q[j] = sq[at(j)]
      BY <2>1, <2>5
    <3>2. at(i) = at(j)
      BY <2>1, <3>1 DEF Distinct
    <3> QED
      BY <2>1, <3>2
  <2>10. Items(q) = {x \in Items(sq) : x.id # id}
    BY <2>1, <2>7, <2>8 DEF Items
  <2> QED
    BY <2>5, <2>9, <2>10 DEF q
<1> QED
  BY <1>1, <1>2

\* Putting an item in front, and behind.
LEMMA FrontFact ==
  ASSUME NEW q \in Seq(Item), Distinct(q), NEW x \in Item, \A y \in Items(q) : y.id # x.id
  PROVE  <<x>> \o q \in Seq(Item) /\ Distinct(<<x>> \o q) /\ Items(<<x>> \o q) = Items(q) \union {x}
<1> DEFINE h == <<x>>
           r == h \o q
<1>1. h \in Seq(Item) /\ Len(h) = 1 /\ h[1] = x
  OBVIOUS
<1>2. Len(q) \in Nat /\ DOMAIN q = 1 .. Len(q)
  BY LenProperties
<1> HIDE DEF h
<1> HIDE DEF r
<1>3. /\ r \in Seq(Item) /\ Len(r) = 1 + Len(q)
      /\ \A i \in 1 .. 1 + Len(q) : r[i] = IF i <= 1 THEN h[i] ELSE q[i - 1]
  <2>1. /\ r \in Seq(Item) /\ Len(r) = Len(h) + Len(q)
        /\ \A i \in 1 .. Len(h) + Len(q) : r[i] = IF i <= Len(h) THEN h[i] ELSE q[i - Len(h)]
    BY <1>1, ConcatProperties DEF r
  <2> QED
    BY <1>1, <2>1
<1>4. DOMAIN r = 1 .. 1 + Len(q)
  BY <1>3, LenProperties
<1>5. \A i \in DOMAIN r : i = 1 \/ i - 1 \in DOMAIN q
  BY <1>2, <1>4
<1>6. r[1] = x /\ 1 \in DOMAIN r
  BY <1>1, <1>2, <1>3, <1>4
<1>7. \A i \in DOMAIN r : i # 1 => r[i] = q[i - 1]
  BY <1>2, <1>3, <1>4
<1>8. \A i \in DOMAIN q : i + 1 \in DOMAIN r /\ r[i + 1] = q[i]
  BY <1>2, <1>3, <1>4
<1>9. Items(r) = Items(q) \union {x}
  BY <1>5, <1>6, <1>7, <1>8 DEF Items
<1>10. Distinct(r)
  <2> SUFFICES ASSUME NEW i \in DOMAIN r, NEW j \in DOMAIN r, r[i].id = r[j].id PROVE i = j
    BY DEF Distinct
  <2>1. CASE i = 1 \/ j = 1
    BY <1>5, <1>6, <1>7, <2>1 DEF Items
  <2>2. CASE i # 1 /\ j # 1
    <3>1. i - 1 = j - 1
      BY <1>5, <1>7, <2>2 DEF Distinct
    <3> QED
      BY <1>2, <1>4, <3>1
  <2> QED
    BY <2>1, <2>2
<1> QED
  BY <1>3, <1>9, <1>10 DEF r, h

LEMMA AppendFact ==
  ASSUME NEW q \in Seq(Item), Distinct(q), NEW x \in Item, \A y \in Items(q) : y.id # x.id
  PROVE  Append(q, x) \in Seq(Item) /\ Distinct(Append(q, x)) /\ Items(Append(q, x)) = Items(q) \union {x}
<1> DEFINE r == Append(q, x)
           n == Len(q)
<1>1. n \in Nat /\ DOMAIN q = 1 .. n
  BY LenProperties
<1>2. r \in Seq(Item) /\ DOMAIN r = 1 .. n + 1 /\ r[n + 1] = x /\ \A i \in 1 .. n : r[i] = q[i]
  BY <1>1, AppendProperties, LenProperties
<1> HIDE DEF r, n
<1>3. Items(r) = Items(q) \union {x}
  BY <1>1, <1>2 DEF Items
<1>4. Distinct(r)
  BY <1>1, <1>2 DEF Distinct, Items
<1> QED
  BY <1>2, <1>3, <1>4 DEF r

\* A failed attempt is noted on the item, if it is still there.
LEMMA FailedFact ==
  ASSUME sq \in Seq(Item), Distinct(sq)
  PROVE  /\ PostFailed \in Seq(Item) /\ Distinct(PostFailed)
         /\ \A x \in Items(PostFailed) : \E y \in Items(sq) :
               x.id = y.id /\ x.by = y.by /\ x.asMe = y.asMe /\ x.tried = (y.tried \/ y.id = fl.id)
         /\ \A y \in Items(sq) : \E x \in Items(PostFailed) : x.id = y.id
<1> DEFINE n == Len(sq)
           e(i) == IF sq[i].id = fl.id THEN [sq[i] EXCEPT !.tried = TRUE] ELSE sq[i]
<1>1. n \in Nat /\ DOMAIN sq = 1 .. n /\ \A i \in 1 .. n : sq[i] \in Item
  BY LenProperties, ElementOfSeq
<1>2. PostFailed = [i \in 1 .. n |-> e(i)]
  BY <1>1 DEF PostFailed
<1>3. \A i \in 1 .. n : /\ e(i) \in Item /\ e(i).id = sq[i].id /\ e(i).by = sq[i].by /\ e(i).asMe = sq[i].asMe
                        /\ e(i).tried = (sq[i].tried \/ sq[i].id = fl.id)
  BY <1>1 DEF Item
<1> HIDE DEF n, e
<1>4. PostFailed \in Seq(Item)
  BY <1>1, <1>2, <1>3, SeqDef
<1>5. DOMAIN PostFailed = 1 .. n /\ \A i \in 1 .. n : PostFailed[i] = e(i)
  BY <1>2
<1> QED
  BY <1>1, <1>3, <1>4, <1>5 DEF Distinct, Items

----------------------------------------------------------------------------
(* A request that the database has committed.                              *)

LEMMA WrittenFact ==
  ASSUME QueueTyped, Written, fl.id \in RunIds
  PROVE  /\ made' \in [RunIds -> Seq(RowMade)]
         /\ \A id \in RunIds \ {fl.id} : made'[id] = made[id]
         /\ Len(made'[fl.id]) = Len(made[fl.id]) + 1 /\ made'[fl.id] # <<>>
         /\ \A i \in DOMAIN made'[fl.id] :
               \/ i \in DOMAIN made[fl.id] /\ made'[fl.id][i] = made[fl.id][i]
               \/ made'[fl.id][i] = [owner |-> RowOwner, moved |-> fl.moved]
<1> DEFINE row == [owner |-> RowOwner, moved |-> fl.moved]
           q == made[fl.id]
           r == Append(q, row)
<1>1. row \in RowMade
  BY DEF RowMade, RowOwner, QueueTyped, Flush
<1>2. q \in Seq(RowMade)
  BY DEF QueueTyped
<1>3. made' = [made EXCEPT ![fl.id] = r]
  BY DEF Written
<1> HIDE DEF row, q
<1>4. /\ r \in Seq(RowMade) /\ Len(r) = Len(q) + 1 /\ r # <<>>
      /\ (\A i \in 1 .. Len(q) : r[i] = q[i]) /\ r[Len(q) + 1] = row
  BY <1>1, <1>2, AppendProperties
<1>5. Len(q) \in Nat /\ DOMAIN q = 1 .. Len(q) /\ DOMAIN r = 1 .. Len(q) + 1
  BY <1>2, <1>4, LenProperties
<1>6. \A i \in DOMAIN r : (i \in DOMAIN q /\ r[i] = q[i]) \/ r[i] = row
  BY <1>4, <1>5
<1> HIDE DEF r
<1>7. made'[fl.id] = r /\ \A id \in RunIds \ {fl.id} : made'[id] = made[id]
  BY <1>3 DEF QueueTyped
<1>8. made' \in [RunIds -> Seq(RowMade)]
  BY <1>3, <1>4 DEF QueueTyped
<1> QED
  BY <1>4, <1>6, <1>7, <1>8 DEF q, row

\* The row is the first of its run, or a lookup was not answered; and it is its recorder's.
LEMMA WrittenRuled ==
  ASSUME QueueIInv, Written, fl.at = "post", UNCHANGED syncPast.by, syncPast.blind \subseteq syncPast'.blind
  PROVE  NoSecondRow' /\ OwnedByRecorder'
<1>1. fl.id \in RunIds /\ fl.id \in syncPast.logged
  BY DEF QueueIInv, QueueRuled, FlushHolds, QueueTyped, QueuePast
<1>2. /\ \A id \in RunIds \ {fl.id} : made'[id] = made[id]
      /\ Len(made'[fl.id]) = Len(made[fl.id]) + 1
      /\ \A i \in DOMAIN made'[fl.id] :
            \/ i \in DOMAIN made[fl.id] /\ made'[fl.id][i] = made[fl.id][i]
            \/ made'[fl.id][i] = [owner |-> RowOwner, moved |-> fl.moved]
  BY <1>1, WrittenFact DEF QueueIInv
<1>3. NoSecondRow'
  <2>1. CASE made[fl.id] = <<>>
    <3>1. ~(Len(made'[fl.id]) > 1)
      BY <1>2, <2>1
    <3> QED
      BY <1>2, <3>1 DEF NoSecondRow, QueueIInv, QueueRuled
  <2>2. CASE fl.id \in syncPast.blind
    BY <1>2, <2>2 DEF NoSecondRow, QueueIInv, QueueRuled
  <2> QED
    BY <2>1, <2>2 DEF QueueIInv, QueueRuled, AskedFirst
<1>4. OwnedByRecorder'
  <2>1. syncPast.by[fl.id] = Anyone \/ RowOwner = syncPast.by[fl.id] \/ fl.moved
    BY <1>1, SyncAssumption DEF QueueIInv, QueueRuled, OwnerFits, RowOwner, QueueTyped, QueuePast, Owners, Anyone
  <2>2. \A i \in DOMAIN made'[fl.id] :
           syncPast.by[fl.id] # Anyone => (made'[fl.id][i].owner = syncPast.by[fl.id] \/ made'[fl.id][i].moved)
    BY <1>1, <1>2, <2>1 DEF QueueIInv, QueueRuled, OwnedByRecorder
  <2> QED
    BY <1>2, <2>2 DEF QueueIInv, QueueRuled, OwnedByRecorder
<1> QED
  BY <1>3, <1>4

----------------------------------------------------------------------------
(* Every step keeps the invariant.                                         *)

LEMMA QueueNextIInv == QueueIInv /\ [SyncNext]_syncVars => QueueIInv'
<1> SUFFICES ASSUME QueueTyped, QueueRuled, [SyncNext]_syncVars PROVE QueueIInv'
  BY DEF QueueIInv
<1> USE DEF QueueRuled
<1>0. syncPast.logged \subseteq RunIds /\ syncPast.discarded \subseteq RunIds /\ Distinct(sq) /\ sq \in Seq(Item)
  BY DEF QueueTyped, QueuePast, QueueSound
<1>1. ASSUME NEW id \in RunIds, NEW by \in Owners, logRun(id, by)
      PROVE  QueueIInv'
  <2> DEFINE x == [id |-> id, by |-> by, asMe |-> FALSE, tried |-> FALSE]
  <2>a. x \in Item /\ \A y \in Items(sq) : y.id # x.id
    BY <1>1 DEF logRun, Item, QueueSound
  <2>b. id \notin syncPast.logged /\ sq' = Append(sq, x) /\ UNCHANGED <<sess, fl, made>>
        /\ syncPast' = [syncPast EXCEPT !.logged = @ \union {id}, !.by[id] = by]
    BY <1>1 DEF logRun
  <2>0. /\ id \notin syncPast.logged /\ UNCHANGED <<sess, fl, made>> /\ x.id = id /\ x.by = by
        /\ sq' \in Seq(Item) /\ Distinct(sq') /\ Items(sq') = Items(sq) \union {x}
        /\ syncPast'.logged = syncPast.logged \union {id} /\ syncPast'.discarded = syncPast.discarded
        /\ syncPast'.blind = syncPast.blind
        /\ syncPast'.by[id] = by /\ \A o \in RunIds \ {id} : syncPast'.by[o] = syncPast.by[o]
    <3>1. sq' \in Seq(Item) /\ Distinct(sq') /\ Items(sq') = Items(sq) \union {x}
      BY <1>0, <2>a, <2>b, AppendFact
    <3>2. /\ syncPast'.logged = syncPast.logged \union {id} /\ syncPast'.discarded = syncPast.discarded
          /\ syncPast'.blind = syncPast.blind
          /\ syncPast'.by[id] = by /\ \A o \in RunIds \ {id} : syncPast'.by[o] = syncPast.by[o]
      BY <2>b DEF QueueTyped, QueuePast
    <3> QED
      BY <2>b, <3>1, <3>2
  <2> HIDE DEF x
  <2>n. made[id] = <<>>
    BY <2>0 DEF OnlyLogged
  <2>1. QueueTyped'
    <3>1. syncPast' \in QueuePast
      BY <2>b DEF QueueTyped, QueuePast
    <3> QED
      BY <2>0, <3>1 DEF QueueTyped
  <2>2. QueueSound'
    <3>1. \A y \in Items(sq) : y.id # id
      BY <2>0 DEF QueueSound
    <3>2. x.id \in syncPast'.logged \ syncPast'.discarded /\ x.by = syncPast'.by[x.id] /\ made'[x.id] = <<>>
      BY <2>0, <2>n DEF OnlyLogged
    <3>3. \A y \in Items(sq) : y.id \in RunIds \ {id}
      BY <1>0, <3>1 DEF QueueSound
    <3> QED
      BY <2>0, <3>2, <3>3 DEF QueueSound
  <2>3. OnlyLogged'
    BY <1>0, <2>0 DEF OnlyLogged
  <2>4. FlushHolds'
    BY <1>0, <2>0 DEF FlushHolds
  <2>5. AskedFirst'
    BY <1>0, <2>0 DEF AskedFirst
  <2>6. OwnerFits'
    BY <1>0, <2>0 DEF OwnerFits, FlushHolds
  <2>7. Kept'
    BY <1>0, <2>0 DEF Kept
  <2>8. NoSecondRow'
    BY <1>0, <2>0 DEF NoSecondRow
  <2>9. OwnedByRecorder'
    <3>1. DOMAIN made[id] = {}
      BY <2>n
    <3> QED
      BY <2>0, <3>1 DEF OwnedByRecorder
  <2> QED
    BY <2>1, <2>2, <2>3, <2>4, <2>5, <2>6, <2>7, <2>8, <2>9 DEF QueueIInv
<1>2. ASSUME NEW id \in RunIds, discardQueued(id)
      PROVE  QueueIInv'
  <2>0. /\ UNCHANGED <<sess, fl, made>> /\ Queued(id)
        /\ sq' \in Seq(Item) /\ Distinct(sq') /\ Items(sq') = {x \in Items(sq) : x.id # id}
        /\ syncPast'.logged = syncPast.logged /\ syncPast'.discarded = syncPast.discarded \union {id}
        /\ syncPast'.blind = syncPast.blind /\ syncPast'.by = syncPast.by
    <3>1. sq' = QueueWithout(id) /\ syncPast' = [syncPast EXCEPT !.discarded = @ \union {id}]
          /\ UNCHANGED <<sess, fl, made>> /\ Queued(id)
      BY <1>2 DEF discardQueued
    <3>2. sq' \in Seq(Item) /\ Distinct(sq') /\ Items(sq') = {x \in Items(sq) : x.id # id}
      BY <1>0, <3>1, WithoutFact
    <3> QED
      BY <3>1, <3>2 DEF QueueTyped, QueuePast
  <2>n. id \in syncPast.logged
    BY <2>0, ItemFact DEF QueueSound
  <2>1. QueueTyped'
    <3>1. syncPast' \in QueuePast
      BY <1>2 DEF discardQueued, QueueTyped, QueuePast
    <3> QED
      BY <2>0, <3>1 DEF QueueTyped
  <2>2. QueueSound'
    BY <1>0, <2>0 DEF QueueSound
  <2>3. OnlyLogged'
    BY <1>0, <2>0, <2>n DEF OnlyLogged
  <2>4. FlushHolds'
    BY <1>0, <2>0 DEF FlushHolds
  <2>5. AskedFirst'
    BY <1>0, <2>0 DEF AskedFirst
  <2>6. OwnerFits'
    BY <1>0, <2>0 DEF OwnerFits
  <2>7. Kept'
    BY <1>0, <2>0 DEF Kept
  <2>8. NoSecondRow'
    BY <1>0, <2>0 DEF NoSecondRow
  <2>9. OwnedByRecorder'
    BY <1>0, <2>0 DEF OwnedByRecorder
  <2> QED
    BY <2>1, <2>2, <2>3, <2>4, <2>5, <2>6, <2>7, <2>8, <2>9 DEF QueueIInv
<1>3. ASSUME NEW id \in RunIds, retryQueued(id) \/ uploadQueuedAsMe(id)
      PROVE  QueueIInv'
  <2> DEFINE y == ItemOf(id)
             z == IF retryQueued(id) THEN y ELSE [y EXCEPT !.asMe = TRUE]
             q == QueueWithout(id)
  <2>a. Queued(id) /\ UNCHANGED <<sess, fl, made, syncPast>> /\ sq' = <<z>> \o q
    BY <1>3 DEF retryQueued, uploadQueuedAsMe
  <2>b. y \in Items(sq) /\ y.id = id /\ y \in Item
    <3>1. y \in Items(sq) /\ y.id = id
      BY <2>a, ItemFact
    <3>2. \A i \in DOMAIN sq : sq[i] \in Item
      BY <1>0, ElementOfSeq, LenProperties
    <3> QED
      BY <3>1, <3>2 DEF Items
  <2>c. z \in Item /\ z.id = id /\ z.by = y.by /\ z.tried = y.tried
    BY <2>b DEF Item
  <2> HIDE DEF y, z
  <2>0. /\ UNCHANGED <<sess, fl, made, syncPast>>
        /\ sq' \in Seq(Item) /\ Distinct(sq')
        /\ \A x \in Items(sq') : \E o \in Items(sq) : x.id = o.id /\ x.by = o.by /\ x.tried = o.tried
        /\ \A o \in Items(sq) : \E x \in Items(sq') : x.id = o.id
    <3>1. q \in Seq(Item) /\ Distinct(q) /\ Items(q) = {x \in Items(sq) : x.id # id}
      BY <1>0, WithoutFact
    <3> HIDE DEF q
    <3>2. sq' \in Seq(Item) /\ Distinct(sq') /\ Items(sq') = Items(q) \union {z}
      BY <2>a, <2>c, <3>1, FrontFact
    <3> QED
      BY <2>a, <2>b, <2>c, <3>1, <3>2
  <2>1. QueueTyped'
    BY <2>0 DEF QueueTyped
  <2>2. QueueSound'
    BY <1>0, <2>0 DEF QueueSound
  <2>3. OnlyLogged'
    BY <1>0, <2>0 DEF OnlyLogged
  <2>4. FlushHolds'
    BY <1>0, <2>0 DEF FlushHolds
  <2>5. AskedFirst'
    BY <1>0, <2>0 DEF AskedFirst
  <2>6. OwnerFits'
    BY <1>0, <2>0 DEF OwnerFits
  <2>7. Kept'
    BY <1>0, <2>0 DEF Kept
  <2>8. NoSecondRow'
    BY <1>0, <2>0 DEF NoSecondRow
  <2>9. OwnedByRecorder'
    BY <1>0, <2>0 DEF OwnedByRecorder
  <2> QED
    BY <2>1, <2>2, <2>3, <2>4, <2>5, <2>6, <2>7, <2>8, <2>9 DEF QueueIInv
<1>4. ASSUME NEW me \in Users, NEW offline \in BOOLEAN, SessionChanges(me, offline)
      PROVE  QueueIInv'
  <2>a. fl' = [fl EXCEPT !.moved = fl.at # "idle" /\ (@ \/ me # sess.me)]
        /\ syncPast' = [syncPast EXCEPT !.switches = @ + 1] /\ sess' = [me |-> me, offline |-> offline]
        /\ UNCHANGED <<sq, made>>
    BY <1>4 DEF SessionChanges
  <2>0. /\ UNCHANGED <<sq, made>> /\ sess'.me = me
        /\ fl'.at = fl.at /\ fl'.id = fl.id /\ fl'.owner = fl.owner /\ fl'.tried = fl.tried
        /\ fl.at # "idle" => (fl'.moved <=> fl.moved \/ me # sess.me)
        /\ syncPast'.logged = syncPast.logged /\ syncPast'.discarded = syncPast.discarded
        /\ syncPast'.blind = syncPast.blind /\ syncPast'.by = syncPast.by
    BY <2>a DEF QueueTyped, Flush, QueuePast
  <2>1. QueueTyped'
    <3>1. syncPast' \in QueuePast
      <4>1. syncPast.switches + 1 \in Nat
        BY DEF QueueTyped, QueuePast
      <4> QED
        BY <2>a, <4>1 DEF QueueTyped, QueuePast
    <3>2. fl' \in Flush
      <4> DEFINE m == fl.at # "idle" /\ (fl.moved \/ me # sess.me)
      <4>1. m \in BOOLEAN /\ fl' = [fl EXCEPT !.moved = m]
        BY <2>a DEF QueueTyped, Flush
      <4> HIDE DEF m
      <4> QED
        BY <4>1 DEF QueueTyped, Flush
    <3> QED
      BY <2>0, <2>a, <3>1, <3>2 DEF QueueTyped
  <2>2. QueueSound'
    BY <1>0, <2>0 DEF QueueSound
  <2>3. OnlyLogged'
    BY <1>0, <2>0 DEF OnlyLogged
  <2>4. FlushHolds'
    BY <1>0, <2>0 DEF FlushHolds
  <2>5. AskedFirst'
    BY <1>0, <2>0 DEF AskedFirst
  <2>6. OwnerFits'
    BY <1>0, <2>0 DEF OwnerFits
  <2>7. Kept'
    BY <1>0, <2>0 DEF Kept
  <2>8. NoSecondRow'
    BY <1>0, <2>0 DEF NoSecondRow
  <2>9. OwnedByRecorder'
    BY <1>0, <2>0 DEF OwnedByRecorder
  <2> QED
    BY <2>1, <2>2, <2>3, <2>4, <2>5, <2>6, <2>7, <2>8, <2>9 DEF QueueIInv
<1>5. ASSUME \/ FlushStarts \/ FlushPicks \/ OwnerResolved
             \/ (LookupFinds /\ made[fl.id] = <<>>)
      PROVE  QueueIInv'
  <2>0. /\ UNCHANGED <<sq, sess, made, syncPast>>
        /\ \/ fl'.at = "pick" /\ fl'.id = "none"
           \/ fl'.at = "idle"
           \/ /\ fl'.at = "owner" /\ \E x \in Items(sq) : fl'.id = x.id /\ fl'.tried = x.tried
           \/ /\ fl.at = "owner" /\ fl'.at = (IF fl.tried THEN "lookup" ELSE "post") /\ fl'.id = fl.id /\ fl'.tried = fl.tried
              /\ fl'.owner = IF syncPast.by[fl.id] \in {Anyone, sess.me} THEN "poster" ELSE syncPast.by[fl.id]
           \/ /\ fl.at = "lookup" /\ fl'.at = "post" /\ made[fl.id] = <<>>
              /\ fl'.id = fl.id /\ fl'.owner = fl.owner /\ fl'.moved = fl.moved
    <3>1. CASE FlushStarts
      BY <3>1 DEF FlushStarts, IdleFlush
    <3>2. CASE FlushPicks
      <4>1. CASE Eligible = {}
        BY <3>2, <4>1 DEF FlushPicks, IdleFlush
      <4>2. CASE Eligible # {}
        <5>1. FirstEligible \in Items(sq)
          BY <1>0, <4>2, FirstFact
        <5> QED
          BY <3>2, <4>2, <5>1 DEF FlushPicks, IdleFlush
      <4> QED
        BY <4>1, <4>2
    <3>3. CASE OwnerResolved
      BY <3>3 DEF OwnerResolved, AfterOwner, QueueTyped, Flush
    <3>4. CASE LookupFinds /\ made[fl.id] = <<>>
      BY <3>4 DEF LookupFinds, QueueTyped, Flush
    <3> QED
      BY <1>5, <3>1, <3>2, <3>3, <3>4
  <2>1. QueueTyped'
    <3>1. IdleFlush \in Flush
      BY DEF IdleFlush, Flush, QueueStages
    <3>2. CASE FlushStarts
      BY <2>0, <3>1, <3>2 DEF FlushStarts, QueueTyped, Flush, QueueStages
    <3>3. CASE FlushPicks
      <4>1. Eligible # {} => FirstEligible.id \in RunIds /\ FirstEligible.tried \in BOOLEAN
        <5>1. \A x \in Items(sq) : x \in Item
          BY <1>0, ElementOfSeq, LenProperties DEF Items
        <5> QED
          BY <1>0, <5>1, FirstFact DEF Item
      <4> QED
        BY <2>0, <3>1, <3>3, <4>1 DEF FlushPicks, QueueTyped, Flush, QueueStages
    <3>4. CASE OwnerResolved
      <4>1. syncPast.by[fl.id] \in Owners
        BY <3>4 DEF OwnerResolved, FlushHolds, QueueTyped, QueuePast
      <4> QED
        BY <2>0, <3>4, <4>1 DEF OwnerResolved, AfterOwner, QueueTyped, Flush, QueueStages, Owners
    <3>5. CASE LookupFinds /\ made[fl.id] = <<>>
      BY <2>0, <3>5 DEF LookupFinds, QueueTyped, Flush, QueueStages
    <3> QED
      BY <1>5, <3>2, <3>3, <3>4, <3>5
  <2>2. QueueSound'
    BY <1>0, <2>0 DEF QueueSound
  <2>3. OnlyLogged'
    BY <1>0, <2>0 DEF OnlyLogged
  <2>4. FlushHolds'
    BY <1>0, <2>0 DEF FlushHolds, QueueSound
  <2>5. AskedFirst'
    BY <1>0, <2>0 DEF AskedFirst, QueueSound
  <2>6. OwnerFits'
    BY <1>0, <2>0 DEF OwnerFits
  <2>7. Kept'
    BY <1>0, <2>0 DEF Kept
  <2>8. NoSecondRow'
    BY <1>0, <2>0 DEF NoSecondRow
  <2>9. OwnedByRecorder'
    BY <1>0, <2>0 DEF OwnedByRecorder
  <2> QED
    BY <2>1, <2>2, <2>3, <2>4, <2>5, <2>6, <2>7, <2>8, <2>9 DEF QueueIInv
<1>6. ASSUME LookupFailed
      PROVE  QueueIInv'
  <2>0. /\ UNCHANGED <<sq, sess, made>> /\ fl.at = "lookup" /\ fl' = [fl EXCEPT !.at = "post"]
        /\ fl'.at = "post" /\ fl'.id = fl.id /\ fl'.owner = fl.owner /\ fl'.moved = fl.moved
        /\ syncPast'.logged = syncPast.logged /\ syncPast'.discarded = syncPast.discarded
        /\ syncPast'.blind = syncPast.blind \union {fl.id} /\ syncPast'.by = syncPast.by
    BY <1>6 DEF LookupFailed, SyncFaulted, QueueTyped, Flush, QueuePast
  <2>1. QueueTyped'
    <3>1. syncPast' \in QueuePast
      <4>1. syncPast.faults + 1 \in Nat /\ fl.id \in RunIds
        BY <1>0, <2>0 DEF QueueTyped, QueuePast, FlushHolds
      <4> QED
        BY <1>6, <4>1 DEF LookupFailed, SyncFaulted, QueueTyped, QueuePast
    <3> QED
      BY <2>0, <3>1 DEF QueueTyped, Flush, QueueStages
  <2>2. QueueSound'
    BY <1>0, <2>0 DEF QueueSound
  <2>3. OnlyLogged'
    BY <1>0, <2>0 DEF OnlyLogged
  <2>4. FlushHolds'
    BY <1>0, <2>0 DEF FlushHolds
  <2>5. AskedFirst'
    BY <1>0, <2>0 DEF AskedFirst
  <2>6. OwnerFits'
    BY <1>0, <2>0 DEF OwnerFits
  <2>7. Kept'
    BY <1>0, <2>0 DEF Kept
  <2>8. NoSecondRow'
    BY <1>0, <2>0 DEF NoSecondRow
  <2>9. OwnedByRecorder'
    BY <1>0, <2>0 DEF OwnedByRecorder
  <2> QED
    BY <2>1, <2>2, <2>3, <2>4, <2>5, <2>6, <2>7, <2>8, <2>9 DEF QueueIInv
<1>7. ASSUME (LookupFinds /\ made[fl.id] # <<>>) \/ Posted
      PROVE  QueueIInv'
  <2>0. /\ UNCHANGED <<sess, syncPast>> /\ fl.at \in {"lookup", "post"} /\ fl.id \in RunIds /\ fl.id \in syncPast.logged
        /\ fl' = [IdleFlush EXCEPT !.at = "pick"] /\ fl'.at = "pick" /\ fl'.id = "none"
        /\ sq' \in Seq(Item) /\ Distinct(sq') /\ Items(sq') = {x \in Items(sq) : x.id # fl.id}
        /\ made'[fl.id] # <<>> /\ \A id \in RunIds \ {fl.id} : made'[id] = made[id]
        /\ made' \in [RunIds -> Seq(RowMade)]
    <3>1. /\ fl.at \in {"lookup", "post"} /\ sq' = QueueWithout(fl.id) /\ UNCHANGED <<sess, syncPast>>
          /\ fl' = [IdleFlush EXCEPT !.at = "pick"]
          /\ (UNCHANGED made /\ made[fl.id] # <<>>) \/ Written
      BY <1>7 DEF LookupFinds, Posted, DropSent
    <3>2. fl.id \in RunIds /\ fl.id \in syncPast.logged
      BY <1>0, <3>1 DEF FlushHolds
    <3>3. sq' \in Seq(Item) /\ Distinct(sq') /\ Items(sq') = {x \in Items(sq) : x.id # fl.id}
      BY <1>0, <3>1, WithoutFact
    <3>4. /\ made'[fl.id] # <<>> /\ \A id \in RunIds \ {fl.id} : made'[id] = made[id]
          /\ made' \in [RunIds -> Seq(RowMade)]
      BY <3>1, <3>2, WrittenFact DEF QueueTyped
    <3>5. fl'.at = "pick" /\ fl'.id = "none"
      BY <3>1 DEF IdleFlush
    <3> QED
      BY <3>1, <3>2, <3>3, <3>4, <3>5
  <2>w. NoSecondRow' /\ OwnedByRecorder'
    <3>1. CASE UNCHANGED <<made, syncPast>>
      BY <3>1 DEF NoSecondRow, OwnedByRecorder
    <3>2. CASE Posted
      BY <3>2, WrittenRuled DEF Posted, QueueIInv
    <3> QED
      BY <1>7, <3>1, <3>2 DEF LookupFinds
  <2>1. QueueTyped'
    <3>1. [IdleFlush EXCEPT !.at = "pick"] \in Flush
      BY DEF IdleFlush, Flush, QueueStages
    <3> QED
      BY <2>0, <3>1 DEF QueueTyped
  <2>2. QueueSound'
    <3>1. \A x \in Items(sq') : x \in Items(sq) /\ x.id \in RunIds \ {fl.id}
      BY <1>0, <2>0 DEF QueueSound
    <3> QED
      BY <2>0, <3>1 DEF QueueSound
  <2>3. OnlyLogged'
    BY <1>0, <2>0 DEF OnlyLogged
  <2>4. FlushHolds'
    BY <1>0, <2>0 DEF FlushHolds
  <2>5. AskedFirst'
    BY <1>0, <2>0 DEF AskedFirst
  <2>6. OwnerFits'
    BY <1>0, <2>0 DEF OwnerFits
  <2>7. Kept'
    BY <1>0, <2>0 DEF Kept
  <2>8. NoSecondRow'
    BY <2>w
  <2>9. OwnedByRecorder'
    BY <2>w
  <2> QED
    BY <2>1, <2>2, <2>3, <2>4, <2>5, <2>6, <2>7, <2>8, <2>9 DEF QueueIInv
<1>8. ASSUME (\E c \in BOOLEAN : PostFails(c)) \/ PostRefused
      PROVE  QueueIInv'
  <2>a. /\ sq' = PostFailed /\ fl' = IdleFlush /\ UNCHANGED sess /\ fl.at \in {"owner", "post"}
        /\ (fl.at = "post" /\ Written) \/ UNCHANGED made
        /\ syncPast' = SyncFaulted \/ UNCHANGED syncPast
    BY <1>8 DEF PostFails, PostRefused, AfterFailure
  <2>b. fl.id \in RunIds /\ fl.id \in syncPast.logged
    BY <1>0, <2>a DEF FlushHolds
  <2>0. /\ UNCHANGED sess /\ fl'.at = "idle"
        /\ sq' \in Seq(Item) /\ Distinct(sq')
        /\ \A x \in Items(sq') : \E y \in Items(sq) : x.id = y.id /\ x.by = y.by /\ x.tried = (y.tried \/ y.id = fl.id)
        /\ \A y \in Items(sq) : \E x \in Items(sq') : x.id = y.id
        /\ made' \in [RunIds -> Seq(RowMade)] /\ \A id \in RunIds \ {fl.id} : made'[id] = made[id]
        /\ made[fl.id] # <<>> => made'[fl.id] # <<>>
        /\ syncPast'.logged = syncPast.logged /\ syncPast'.discarded = syncPast.discarded
        /\ syncPast'.blind = syncPast.blind /\ syncPast'.by = syncPast.by
    <3>1. /\ sq' \in Seq(Item) /\ Distinct(sq')
          /\ \A x \in Items(sq') : \E y \in Items(sq) : x.id = y.id /\ x.by = y.by /\ x.tried = (y.tried \/ y.id = fl.id)
          /\ \A y \in Items(sq) : \E x \in Items(sq') : x.id = y.id
      BY <1>0, <2>a, FailedFact
    <3>2. /\ made' \in [RunIds -> Seq(RowMade)] /\ \A id \in RunIds \ {fl.id} : made'[id] = made[id]
          /\ made[fl.id] # <<>> => made'[fl.id] # <<>>
      BY <2>a, <2>b, WrittenFact DEF QueueTyped
    <3>3. /\ syncPast'.logged = syncPast.logged /\ syncPast'.discarded = syncPast.discarded
          /\ syncPast'.blind = syncPast.blind /\ syncPast'.by = syncPast.by
      BY <2>a DEF SyncFaulted, QueueTyped, QueuePast
    <3>4. fl'.at = "idle"
      BY <2>a DEF IdleFlush
    <3> QED
      BY <2>a, <3>1, <3>2, <3>3, <3>4
  <2>w. NoSecondRow' /\ OwnedByRecorder'
    <3>1. CASE UNCHANGED made
      BY <2>0, <3>1 DEF NoSecondRow, OwnedByRecorder
    <3>2. CASE fl.at = "post" /\ Written
      BY <2>0, <3>2, WrittenRuled DEF QueueIInv
    <3> QED
      BY <2>a, <3>1, <3>2
  <2>1. QueueTyped'
    <3>1. IdleFlush \in Flush
      BY DEF IdleFlush, Flush, QueueStages
    <3>2. syncPast' \in QueuePast
      <4>1. syncPast.faults + 1 \in Nat
        BY DEF QueueTyped, QueuePast
      <4> QED
        BY <2>a, <4>1 DEF SyncFaulted, QueueTyped, QueuePast
    <3> QED
      BY <2>0, <2>a, <3>1, <3>2 DEF QueueTyped
  <2>2. QueueSound'
    <3> SUFFICES ASSUME NEW x \in Items(sq')
                 PROVE  /\ x.id \in syncPast.logged \ syncPast.discarded /\ x.by = syncPast.by[x.id]
                        /\ ~x.tried => made'[x.id] = <<>>
      BY <2>0 DEF QueueSound
    <3>1. PICK y \in Items(sq) : x.id = y.id /\ x.by = y.by /\ x.tried = (y.tried \/ y.id = fl.id)
      BY <2>0
    <3>2. ~x.tried => ~y.tried /\ x.id \in RunIds \ {fl.id}
      BY <1>0, <3>1 DEF QueueSound
    <3> QED
      BY <2>0, <3>1, <3>2 DEF QueueSound
  <2>3. OnlyLogged'
    BY <1>0, <2>0, <2>b DEF OnlyLogged
  <2>4. FlushHolds'
    BY <1>0, <2>0 DEF FlushHolds
  <2>5. AskedFirst'
    BY <1>0, <2>0 DEF AskedFirst
  <2>6. OwnerFits'
    BY <1>0, <2>0 DEF OwnerFits
  <2>7. Kept'
    <3>1. \A id \in RunIds : made[id] # <<>> => made'[id] # <<>>
      BY <2>0
    <3>2. \A id : (\E y \in Items(sq) : y.id = id) => \E x \in Items(sq') : x.id = id
      BY <2>0
    <3> QED
      BY <1>0, <2>0, <3>1, <3>2 DEF Kept
  <2>8. NoSecondRow'
    BY <2>w
  <2>9. OwnedByRecorder'
    BY <2>w
  <2> QED
    BY <2>1, <2>2, <2>3, <2>4, <2>5, <2>6, <2>7, <2>8, <2>9 DEF QueueIInv
<1>9. ASSUME UNCHANGED syncVars
      PROVE  QueueIInv'
  <2>0. UNCHANGED <<sq, sess, fl, made, syncPast>>
    BY <1>9 DEF syncVars
  <2>1. QueueTyped'
    BY <2>0 DEF QueueTyped
  <2>2. QueueSound'
    BY <1>0, <2>0 DEF QueueSound
  <2>3. OnlyLogged'
    BY <1>0, <2>0 DEF OnlyLogged
  <2>4. FlushHolds'
    BY <1>0, <2>0 DEF FlushHolds
  <2>5. AskedFirst'
    BY <1>0, <2>0 DEF AskedFirst
  <2>6. OwnerFits'
    BY <1>0, <2>0 DEF OwnerFits
  <2>7. Kept'
    BY <1>0, <2>0 DEF Kept
  <2>8. NoSecondRow'
    BY <1>0, <2>0 DEF NoSecondRow
  <2>9. OwnedByRecorder'
    BY <1>0, <2>0 DEF OwnedByRecorder
  <2> QED
    BY <2>1, <2>2, <2>3, <2>4, <2>5, <2>6, <2>7, <2>8, <2>9 DEF QueueIInv
<1> QED
  BY <1>1, <1>2, <1>3, <1>4, <1>5, <1>6, <1>7, <1>8, <1>9 DEF SyncNext, FlushStep, Owners

LEMMA QueueInitIInv == SyncInit => QueueIInv
<1> SUFFICES ASSUME SyncInit PROVE QueueIInv
  OBVIOUS
<1> USE DEF SyncInit
<1>1. sq = <<>> /\ fl.at = "idle" /\ (\A id \in RunIds : made[id] = <<>>)
      /\ syncPast.logged = {} /\ syncPast.discarded = {} /\ syncPast.blind = {}
  BY DEF IdleFlush
<1>2. DOMAIN sq = {} /\ Items(sq) = {} /\ \A id \in RunIds : DOMAIN made[id] = {} /\ Len(made[id]) = 0
  BY <1>1 DEF Items
<1>3. QueueTyped
  <2>1. sq \in Seq(Item) /\ \A id \in RunIds : made[id] \in Seq(RowMade)
    BY <1>1
  <2>2. fl \in Flush
    BY DEF IdleFlush, Flush, QueueStages
  <2>3. syncPast \in QueuePast
    BY DEF QueuePast, Owners
  <2> QED
    BY <2>1, <2>2, <2>3 DEF QueueTyped
<1>4. QueueSound /\ OnlyLogged /\ FlushHolds /\ AskedFirst /\ OwnerFits /\ Kept
  BY <1>1, <1>2 DEF QueueSound, Distinct, OnlyLogged, FlushHolds, AskedFirst, OwnerFits, Kept
<1>5. NoSecondRow /\ OwnedByRecorder
  BY <1>2 DEF NoSecondRow, OwnedByRecorder
<1> QED
  BY <1>3, <1>4, <1>5 DEF QueueIInv, QueueRuled

----------------------------------------------------------------------------
(* The theorems.                                                           *)

\* The invariant of the queue of directusSync.ts.
THEOREM QueueInvariant == SyncSpec => []QueueIInv
BY QueueInitIInv, QueueNextIInv, PTL DEF SyncSpec

\* Type correctness of the queue in localStorage and of flush().
THEOREM QueueTypeCorrect == SyncSpec => []SyncTypeOK
<1>1. QueueIInv => SyncTypeOK
  <2> SUFFICES ASSUME QueueIInv PROVE SyncTypeOK
    OBVIOUS
  <2>1. \A i \in DOMAIN sq : sq[i] \in Item
    BY ElementOfSeq, LenProperties DEF QueueIInv, QueueTyped
  <2> QED
    BY <2>1 DEF SyncTypeOK, Item, Owners, QueueIInv, QueueTyped, Flush, QueueStages
<1> QED
  BY QueueInvariant, <1>1, PTL

\* A run discarded while its request is out does not come back when the answer is written down,
\* and no run is queued twice (directusSync.ts:115, 120-122, 162-164).
THEOREM DiscardAlwaysFinal == SyncSpec => []DiscardIsFinal
<1>1. QueueIInv => DiscardIsFinal
  BY DEF QueueIInv, QueueRuled, QueueSound, Distinct, Items, DiscardIsFinal, Queued
<1> QED
  BY QueueInvariant, <1>1, PTL

\* Whatever the page does during a request of flush(), no run is lost (directusSync.ts:87-96, 115).
THEOREM NeverRunLost == SyncSpec => []NoRunLost
<1>1. QueueIInv => NoRunLost
  BY DEF QueueIInv, QueueRuled, Kept, Items, NoRunLost, Queued
<1> QED
  BY QueueInvariant, <1>1, PTL

\* A run gets a second row only after a lookup that was not answered (directusSync.ts:105-114).
THEOREM NeverSecondRow == SyncSpec => []NoSecondRow
<1>1. QueueIInv => NoSecondRow
  BY DEF QueueIInv, QueueRuled
<1> QED
  BY QueueInvariant, <1>1, PTL

\* The row of a run is its recorder's, whoever was signed in when flush() sent it, unless the
\* account changed while its request was out (directusSync.ts:31-40, 101-103, recorder.ts:93-108).
THEOREM AlwaysOwnedByRecorder == SyncSpec => []OwnedByRecorder
<1>1. QueueIInv => OwnedByRecorder
  BY DEF QueueIInv, QueueRuled
<1> QED
  BY QueueInvariant, <1>1, PTL

\* flush() takes a run of somebody else only after "Upload as me" (directusSync.ts:31-40).
THEOREM OthersAlwaysLeft == SyncSpec => OthersAreLeft
<1> DEFINE Left == \A id \in RunIds : (fl.at = "pick" /\ fl'.id = id) =>
                      (syncPast.by[id] \in {Anyone, sess.me} \/ ItemOf(id).asMe)
<1>1. QueueIInv /\ [SyncNext]_syncVars => Left
  <2> SUFFICES ASSUME QueueIInv, [SyncNext]_syncVars, NEW id \in RunIds, fl.at = "pick", fl'.id = id
               PROVE  syncPast.by[id] \in {Anyone, sess.me} \/ ItemOf(id).asMe
    OBVIOUS
  <2>1. fl.id = "none" /\ "none" \notin RunIds
    BY SyncAssumption DEF QueueIInv, QueueRuled, FlushHolds
  <2>2. fl'.id # fl.id
    BY <2>1
  <2>3. FlushPicks /\ Eligible # {}
    <3>1. IdleFlush.id = "none"
      BY DEF IdleFlush
    <3>2. ~UNCHANGED fl
      BY <2>2
    <3>3. ~\E u \in Users, o \in BOOLEAN : SessionChanges(u, o)
      BY <2>2 DEF SessionChanges, QueueIInv, QueueTyped, Flush
    <3>4. FlushPicks
      BY <2>2, <3>2, <3>3 DEF SyncNext, FlushStep, FlushStarts, OwnerResolved, LookupFinds, Posted, PostRefused, LookupFailed,
            PostFails, discardQueued, retryQueued, uploadQueuedAsMe, logRun, syncVars
    <3> QED
      BY <2>1, <3>1, <3>4 DEF FlushPicks
  <2>4. FirstEligible \in Items(sq) /\ mayAutoSync(FirstEligible)
    BY <2>3, FirstFact DEF QueueIInv, QueueTyped
  <2>5. FirstEligible.id = id
    BY <2>3 DEF FlushPicks, IdleFlush
  <2>6. ItemOf(id) = FirstEligible
    <3>1. Queued(id)
      BY <2>4, <2>5 DEF Queued, Items
    <3> QED
      BY <2>4, <2>5, <3>1, ItemFact DEF Items, QueueIInv, QueueRuled, QueueSound, Distinct
  <2>7. FirstEligible.by = syncPast.by[id]
    BY <2>4, <2>5 DEF QueueIInv, QueueRuled, QueueSound
  <2> QED
    BY <2>4, <2>6, <2>7 DEF mayAutoSync
<1> QED
  BY QueueInvariant, <1>1, PTL DEF SyncSpec, OthersAreLeft

----------------------------------------------------------------------------
(* THE LIST OF LOCAL CAPTURES.                                             *)

AnyFilter == {"all", "incomplete", "uploaded"}
ListState == [rows : SUBSET Caps, fin : SUBSET Caps, filter : AnyFilter, gen : Nat, from : AnyFilter, loading : BOOLEAN,
              error : BOOLEAN, uploaded : SUBSET Caps, checked : SUBSET Caps, known : BOOLEAN, selected : SUBSET Caps]
LoadCall == [g : Nat, f : AnyFilter, at : {"page", "lookup"}, rows : SUBSET Caps]

BulkState == [kind : {NoItem, "bulk", "cleanup"}, left : SUBSET Caps, cur : Caps \union {NoItem},
              at : {NoItem, "next", "fresh", "delete"}, cancel : BOOLEAN]
AllState == [left : SUBSET Caps, on : BOOLEAN, cancel : BOOLEAN]
CleanState == [known : BOOLEAN, pool : SUBSET Caps]

PageTyped == lst \in ListState /\ loads \subseteq LoadCall
WorkTyped ==
    /\ disk \in [Caps -> {"gone", "incomplete", "finalized"}] /\ inDb \subseteq Caps
    /\ busyAt \in [Caps -> {"no", "deleting", "recovering", "uploading"}]
    /\ ask \in [kind : {NoItem, "one", "bulk", "cleanup", "all"}, items : SUBSET Caps]
    /\ bulk \in BulkState /\ clean \in CleanState /\ allRun \in AllState

\* The newest load is of the filter the list names, and has put its own rows on it.
NewestOfFilter ==
    \A l \in loads : /\ l.g <= lst.gen
                     /\ l.g = lst.gen => l.f = lst.filter /\ (l.at = "lookup" => lst.from = lst.filter)

RowsHold == lst.fin \subseteq lst.rows /\ lst.selected \subseteq lst.rows

\* A bulk delete is asked for while none runs; the capture it deletes is marked.
AskedAlone == ask.kind \in {"bulk", "cleanup"} => bulk.kind = NoItem
Marked ==
    /\ bulk.at \in {"fresh", "delete"} => bulk.cur \in Caps
    /\ bulk.at = "delete" => busyAt[bulk.cur] = "deleting"

PageIInv == PageTyped /\ RowsHold /\ NewestOfFilter /\ RowsAreOfFilter /\ KnownIsLookedUp
WorkIInv == WorkTyped /\ AskedAlone /\ Marked
ListIInv == PageIInv /\ WorkIInv

----------------------------------------------------------------------------
LEMMA StartedKeeps ==
  ASSUME PageIInv, NEW f \in AnyFilter, Started(f)
  PROVE  PageIInv'
<1> DEFINE n == [g |-> lst.gen + 1, f |-> f, at |-> "page", rows |-> {}]
<1>1. /\ lst.gen \in Nat /\ lst.rows \subseteq Caps /\ lst.fin \subseteq Caps /\ lst.from \in AnyFilter /\ lst.uploaded \subseteq Caps
      /\ lst.checked \subseteq Caps /\ lst.known \in BOOLEAN /\ lst.selected \subseteq Caps
  BY DEF PageIInv, PageTyped, ListState
<1>2. /\ lst'.filter = f /\ lst'.gen = lst.gen + 1 /\ lst'.loading = TRUE /\ lst'.error = FALSE
      /\ lst'.rows = lst.rows /\ lst'.fin = lst.fin /\ lst'.from = lst.from /\ lst'.uploaded = lst.uploaded
      /\ lst'.checked = lst.checked /\ lst'.known = lst.known /\ lst'.selected = lst.selected
  BY DEF PageIInv, PageTyped, ListState, Started
<1>3. n \in LoadCall /\ loads' = loads \union {n}
  BY <1>1 DEF LoadCall, Started
<1>4. n.g = lst.gen + 1 /\ n.f = f /\ n.at = "page"
  OBVIOUS
<1> HIDE DEF n
<1>5. lst' \in ListState
  <2> DEFINE m == lst.gen + 1
  <2>1. m \in Nat
    BY <1>1
  <2>2. lst' = [lst EXCEPT !.filter = f, !.gen = m, !.loading = TRUE, !.error = FALSE]
    BY DEF Started
  <2> HIDE DEF m
  <2> QED
    BY <2>1, <2>2 DEF PageIInv, PageTyped, ListState
<1>6. PageTyped'
  BY <1>3, <1>5 DEF PageIInv, PageTyped
<1>7. RowsHold' /\ RowsAreOfFilter' /\ KnownIsLookedUp'
  BY <1>2 DEF PageIInv, RowsHold, RowsAreOfFilter, KnownIsLookedUp
<1>8. NewestOfFilter'
  <2> SUFFICES ASSUME NEW l \in loads'
               PROVE  l.g <= lst'.gen /\ (l.g = lst'.gen => l.f = lst'.filter /\ (l.at = "lookup" => lst'.from = lst'.filter))
    BY DEF NewestOfFilter
  <2>1. CASE l \in loads
    <3>1. l.g \in Nat /\ l.g <= lst.gen
      BY <2>1 DEF PageIInv, PageTyped, LoadCall, NewestOfFilter
    <3> QED
      BY <1>1, <1>2, <3>1
  <2>2. CASE l = n
    BY <1>1, <1>2, <1>4, <2>2
  <2> QED
    BY <1>3, <2>1, <2>2
<1> QED
  BY <1>6, <1>7, <1>8 DEF PageIInv

\* A load has ended: those that are left are older, or of the list as it is.
LEMMA LoadsLeft ==
  ASSUME PageIInv, NEW S \in SUBSET loads, loads' = S, lst' \in ListState, lst'.gen = lst.gen, lst'.filter = lst.filter,
         lst'.from = lst.from
  PROVE  PageTyped' /\ NewestOfFilter'
<1>1. PageTyped'
  BY DEF PageIInv, PageTyped
<1>2. NewestOfFilter'
  BY DEF PageIInv, NewestOfFilter
<1> QED
  BY <1>1, <1>2

LEMMA DroppedKeeps ==
  ASSUME PageIInv, NEW c \in Caps, lst' = Dropped(lst, c), UNCHANGED loads
  PROVE  PageIInv'
<1>1. /\ lst.gen \in Nat /\ lst.rows \subseteq Caps /\ lst.fin \subseteq Caps /\ lst.from \in AnyFilter /\ lst.uploaded \subseteq Caps
      /\ lst.checked \subseteq Caps /\ lst.known \in BOOLEAN /\ lst.selected \subseteq Caps
  BY DEF PageIInv, PageTyped, ListState
<1>2. /\ lst'.filter = lst.filter /\ lst'.gen = lst.gen /\ lst'.loading = lst.loading /\ lst'.error = lst.error
      /\ lst'.rows = lst.rows \ {c} /\ lst'.fin = lst.fin \ {c} /\ lst'.from = lst.from
      /\ lst'.checked = lst.checked /\ lst'.known = lst.known /\ lst'.selected = lst.selected \ {c}
  BY DEF PageIInv, PageTyped, ListState, Dropped
<1>3. lst' \in ListState
  BY <1>1 DEF PageIInv, PageTyped, ListState, Dropped
<1>4. PageTyped' /\ NewestOfFilter'
  BY <1>2, <1>3, LoadsLeft
<1>5. RowsHold' /\ RowsAreOfFilter' /\ KnownIsLookedUp'
  BY <1>2 DEF PageIInv, RowsHold, RowsAreOfFilter, KnownIsLookedUp
<1> QED
  BY <1>4, <1>5 DEF PageIInv

\* The page of a load arrives.
LEMMA PageAnsweredKeeps ==
  ASSUME PageIInv, WorkTyped, NEW l, PageAnswered(l)
  PROVE  PageIInv'
<1> DEFINE rows == ServerRows(l.f)
           fin == rows \cap Finalized
           n == [l EXCEPT !.at = "lookup", !.rows = rows]
<1>1. l \in loads /\ l \in LoadCall
  BY DEF PageAnswered, PageIInv, PageTyped
<1>2. rows \subseteq Caps /\ fin \subseteq rows
  BY DEF ServerRows, WorkTyped
<1> HIDE DEF rows, fin
<1>3. n \in LoadCall /\ n.g = l.g /\ n.f = l.f
  BY <1>1, <1>2 DEF LoadCall
<1> HIDE DEF n
<1>4. CASE Newest(l)
  <2>1. /\ lst' = [lst EXCEPT !.rows = rows, !.fin = fin, !.from = l.f, !.selected = {}, !.uploaded = {}, !.checked = {},
                              !.known = FALSE]
        /\ loads' = (loads \ {l}) \union {n}
    BY <1>4 DEF PageAnswered, rows, fin, n
  <2>2. l.f = lst.filter
    BY <1>1, <1>4 DEF PageIInv, NewestOfFilter, Newest
  <2>3. lst' \in ListState
    BY <1>1, <1>2, <2>1 DEF PageIInv, PageTyped, ListState, LoadCall
  <2>4. /\ lst'.rows = rows /\ lst'.fin = fin /\ lst'.from = lst.filter /\ lst'.filter = lst.filter /\ lst'.gen = lst.gen
        /\ lst'.selected = {} /\ lst'.known = FALSE
    BY <2>1, <2>2 DEF PageIInv, PageTyped, ListState
  <2>5. PageTyped'
    BY <1>3, <2>1, <2>3 DEF PageIInv, PageTyped
  <2>6. NewestOfFilter'
    BY <1>1, <1>3, <2>1, <2>2, <2>4 DEF PageIInv, NewestOfFilter
  <2>7. RowsHold' /\ RowsAreOfFilter' /\ KnownIsLookedUp'
    BY <1>2, <2>4 DEF RowsHold, RowsAreOfFilter, KnownIsLookedUp
  <2> QED
    BY <2>5, <2>6, <2>7 DEF PageIInv
<1>5. CASE ~Newest(l)
  <2>1. loads' = loads \ {l} /\ lst' = lst
    BY <1>5 DEF PageAnswered
  <2> QED
    BY <2>1, LoadsLeft DEF PageIInv, PageTyped, RowsHold, RowsAreOfFilter, KnownIsLookedUp
<1> QED
  BY <1>4, <1>5

LEMMA PageFailsKeeps ==
  ASSUME PageIInv, NEW l, PageFails(l)
  PROVE  PageIInv'
<1>1. loads' = loads \ {l} /\ lst' \in {lst, [lst EXCEPT !.error = TRUE, !.loading = FALSE]}
  BY DEF PageFails
<1>2. /\ lst' \in ListState /\ lst'.rows = lst.rows /\ lst'.fin = lst.fin /\ lst'.from = lst.from /\ lst'.filter = lst.filter
      /\ lst'.gen = lst.gen /\ lst'.selected = lst.selected /\ lst'.known = lst.known /\ lst'.checked = lst.checked
      /\ lst'.error \/ (lst'.loading = lst.loading /\ lst'.error = lst.error)
  BY <1>1 DEF PageIInv, PageTyped, ListState
<1>3. PageTyped' /\ NewestOfFilter'
  BY <1>1, <1>2, LoadsLeft
<1>4. RowsHold' /\ RowsAreOfFilter' /\ KnownIsLookedUp'
  BY <1>2 DEF PageIInv, RowsHold, RowsAreOfFilter, KnownIsLookedUp
<1> QED
  BY <1>3, <1>4 DEF PageIInv

\* The answer of a lookup: what is known covers exactly what was asked for.
LEMMA LookupKeeps ==
  ASSUME PageIInv, WorkTyped, NEW l, NEW answered \in BOOLEAN, LookupAnswers(l, answered)
  PROVE  PageIInv'
<1> DEFINE checked == IF answered THEN lst.checked \union l.rows ELSE lst.checked
           uploaded == IF answered THEN (lst.uploaded \ l.rows) \union (l.rows \cap inDb) ELSE lst.uploaded
           known == lst.rows \subseteq checked
           loading == IF Newest(l) THEN FALSE ELSE lst.loading
<1>1. l \in loads /\ l \in LoadCall /\ l.at = "lookup" /\ loads' = loads \ {l}
  BY DEF LookupAnswers, PageIInv, PageTyped
<1>2. lst' = [[lst EXCEPT !.uploaded = uploaded, !.checked = checked, !.known = known] EXCEPT !.loading = loading]
  BY DEF LookupAnswers, Merged, PageIInv, PageTyped, ListState
<1>3. checked \subseteq Caps /\ uploaded \subseteq Caps /\ known \in BOOLEAN /\ loading \in BOOLEAN
  BY <1>1 DEF LoadCall, PageIInv, PageTyped, ListState
<1>4. ~loading => lst.from = lst.filter \/ ~lst.loading
  BY <1>1 DEF PageIInv, NewestOfFilter, Newest
<1>5. known => lst.rows \subseteq checked
  OBVIOUS
<1> HIDE DEF checked, uploaded, known, loading
<1>6. lst' \in ListState
  BY <1>2, <1>3 DEF PageIInv, PageTyped, ListState
<1>7. /\ lst'.rows = lst.rows /\ lst'.fin = lst.fin /\ lst'.from = lst.from /\ lst'.filter = lst.filter
      /\ lst'.gen = lst.gen /\ lst'.selected = lst.selected /\ lst'.known = known /\ lst'.checked = checked
      /\ lst'.loading = loading /\ lst'.error = lst.error
  BY <1>2 DEF PageIInv, PageTyped, ListState
<1>8. PageTyped' /\ NewestOfFilter'
  BY <1>1, <1>6, <1>7, LoadsLeft
<1>9. RowsHold' /\ RowsAreOfFilter' /\ KnownIsLookedUp'
  BY <1>4, <1>5, <1>7 DEF PageIInv, RowsHold, RowsAreOfFilter, KnownIsLookedUp
<1> QED
  BY <1>8, <1>9 DEF PageIInv

\* What changes no more of the list than the selection or what is known to be uploaded.
LEMMA RowsKept ==
  ASSUME PageIInv, NEW selected \in SUBSET lst.rows, NEW uploaded \in SUBSET Caps,
         lst' = [lst EXCEPT !.selected = selected, !.uploaded = uploaded], UNCHANGED loads
  PROVE  PageIInv'
<1>1. /\ lst' \in ListState /\ lst'.rows = lst.rows /\ lst'.fin = lst.fin /\ lst'.from = lst.from /\ lst'.filter = lst.filter
      /\ lst'.gen = lst.gen /\ lst'.selected = selected /\ lst'.known = lst.known /\ lst'.checked = lst.checked
      /\ lst'.loading = lst.loading /\ lst'.error = lst.error
  BY DEF PageIInv, PageTyped, ListState
<1>2. PageTyped' /\ NewestOfFilter'
  BY <1>1, LoadsLeft
<1>3. RowsHold' /\ RowsAreOfFilter' /\ KnownIsLookedUp'
  BY <1>1 DEF PageIInv, RowsHold, RowsAreOfFilter, KnownIsLookedUp
<1> QED
  BY <1>2, <1>3 DEF PageIInv

LEMMA FiltersNamed == ASSUME PageIInv PROVE lst.filter \in AnyFilter /\ \A f \in Filters : f \in AnyFilter
BY ListAssumption DEF ListAssumption, AnyFilter, PageIInv, PageTyped, ListState

\* The actions of the page, by what they do to the list.
LEMMA NextPage == ListIInv /\ [ListNext]_listVars => PageIInv'
<1> SUFFICES ASSUME ListIInv, [ListNext]_listVars
             PROVE  PageIInv'
  OBVIOUS
<1>0. PageIInv /\ WorkIInv /\ WorkTyped
  BY DEF ListIInv, WorkIInv
<1>1. CASE UNCHANGED <<lst, loads>>
  BY <1>0, <1>1 DEF PageIInv, PageTyped, RowsHold, NewestOfFilter, RowsAreOfFilter, KnownIsLookedUp
<1>2. CASE Load \/ (\E f \in Filters : SetFilter(f)) \/ (\E f \in AnyFilter : Started(f))
  <2>1. PICK f \in AnyFilter : Started(f)
    BY <1>0, <1>2, FiltersNamed DEF Load, SetFilter
  <2> QED
    BY <1>0, <2>1, StartedKeeps
<1>3. CASE LoadStep
  BY <1>0, <1>3, PageAnsweredKeeps, PageFailsKeeps, LookupKeeps DEF LoadStep
<1>4. ASSUME NEW c \in Caps, ToggleRow(c)
      PROVE  PageIInv'
  <2> DEFINE s == (lst.selected \ {c}) \union ({c} \ lst.selected)
  <2>1. c \in lst.rows /\ UNCHANGED loads /\ lst' = [lst EXCEPT !.selected = s]
    BY <1>4 DEF ToggleRow
  <2>2. s \in SUBSET lst.rows /\ lst.uploaded \in SUBSET Caps
    BY <1>0, <2>1 DEF PageIInv, PageTyped, ListState, RowsHold
  <2> HIDE DEF s
  <2>3. lst' = [lst EXCEPT !.selected = s, !.uploaded = lst.uploaded]
    BY <1>0, <2>1 DEF PageIInv, PageTyped, ListState
  <2> QED
    BY <1>0, <2>1, <2>2, <2>3, RowsKept
<1>5. ASSUME NEW c \in Caps, lst' = Dropped(lst, c), UNCHANGED loads
      PROVE  PageIInv'
  BY <1>0, <1>5, DroppedKeeps
<1>6. ASSUME NEW c \in Caps, NEW ok \in BOOLEAN, UploadReturns(c, ok)
      PROVE  PageIInv'
  <2> DEFINE s == IF ok /\ disk[c] = "finalized" THEN lst.uploaded \union {c} ELSE lst.uploaded
  <2>1. UNCHANGED loads /\ lst' = [lst EXCEPT !.uploaded = s]
    BY <1>6 DEF UploadReturns
  <2>2. s \in SUBSET Caps /\ lst.selected \in SUBSET lst.rows
    BY <1>0 DEF PageIInv, PageTyped, ListState, RowsHold
  <2> HIDE DEF s
  <2>3. lst' = [lst EXCEPT !.selected = lst.selected, !.uploaded = s]
    BY <1>0, <2>1 DEF PageIInv, PageTyped, ListState
  <2> QED
    BY <1>0, <2>1, <2>2, <2>3, RowsKept
<1>7. CASE BulkStep
  <2>1. ASSUME NEW ok \in BOOLEAN, BulkDeleted(ok)
        PROVE  PageIInv'
    <3>1. bulk.cur \in Caps
      BY <1>0, <2>1 DEF WorkIInv, Marked, BulkDeleted
    <3> QED
      BY <1>1, <1>5, <2>1, <3>1 DEF BulkDeleted, Delete
  <2>2. CASE BulkEnds
    BY <1>0, <1>1, <1>2, <2>2, FiltersNamed DEF BulkEnds
  <2> QED
    BY <1>1, <1>7, <2>1, <2>2 DEF BulkStep, BulkNext, BulkRechecked
<1>8. ASSUME NEW c \in Caps, RowStep(c)
      PROVE  PageIInv'
  <2>1. ASSUME NEW ok \in BOOLEAN, RemoveReturns(c, ok)
        PROVE  PageIInv'
    BY <1>1, <1>5, <2>1 DEF RemoveReturns, Delete
  <2>2. ASSUME NEW ok \in BOOLEAN, RecoverReturns(c, ok)
        PROVE  PageIInv'
    BY <1>0, <1>1, <1>2, <2>2, FiltersNamed DEF RecoverReturns
  <2> QED
    BY <1>6, <1>8, <2>1, <2>2 DEF RowStep
<1>9. CASE UploadAllStep \/ AskBulk \/ AskCleanup \/ CancelBulk \/ AskUploadAll \/ CancelUploadAll
  BY <1>1, <1>9 DEF UploadAllStep, UploadAllNext, UploadAllEnds, AskBulk, AskCleanup, CancelBulk, AskUploadAll, CancelUploadAll
<1>10. ASSUME NEW c \in Caps, AskRemove(c) \/ Recover(c) \/ UploadClicked(c) \/ RemovedElsewhere(c)
       PROVE  PageIInv'
  BY <1>1, <1>10 DEF AskRemove, Recover, UploadClicked, RemovedElsewhere
<1>11. ASSUME NEW yes \in BOOLEAN, NEW a \in BOOLEAN,
              RemoveConfirmed(yes) \/ UploadAllConfirmed(yes) \/ BulkConfirmed(yes, a) \/ PreviewCleanup(a)
       PROVE  PageIInv'
  BY <1>1, <1>11 DEF RemoveConfirmed, UploadAllConfirmed, BulkConfirmed, PreviewCleanup
<1>12. CASE UNCHANGED listVars
  BY <1>1, <1>12 DEF listVars
<1> QED
  BY <1>2, <1>3, <1>4, <1>7, <1>8, <1>9, <1>10, <1>11, <1>12 DEF ListNext

\* The actions of the page, by what they do to the captures and to what is under way.
LEMMA NextWork == ListIInv /\ [ListNext]_listVars => WorkIInv'
<1> SUFFICES ASSUME ListIInv, [ListNext]_listVars
             PROVE  WorkIInv'
  OBVIOUS
<1>0. PageIInv /\ WorkIInv /\ WorkTyped /\ AskedAlone /\ Marked /\ lst.rows \subseteq Caps /\ NoItem \notin {"bulk", "cleanup"}
  BY DEF ListIInv, WorkIInv, PageIInv, PageTyped, ListState, NoItem
<1> USE DEF WorkTyped
<1>1. CASE UNCHANGED <<disk, inDb, busyAt, ask, bulk, clean, allRun>>
  BY <1>0, <1>1 DEF WorkIInv, AskedAlone, Marked
<1>2. CASE Load \/ LoadStep \/ (\E f \in Filters : SetFilter(f)) \/ (\E c \in Caps : ToggleRow(c))
  BY <1>1, <1>2 DEF Load, LoadStep, PageAnswered, PageFails, LookupAnswers, SetFilter, ToggleRow
<1>3. CASE AskBulk \/ AskCleanup \/ AskUploadAll
  <2>1. \E k \in {"bulk", "cleanup", "all"}, s \in SUBSET Caps : ask' = [kind |-> k, items |-> s]
    <3>1. CASE AskBulk
      BY <1>0, <3>1 DEF AskBulk
    <3>2. CASE AskCleanup
      BY <1>0, <3>2 DEF AskCleanup, CleanState
    <3>3. CASE AskUploadAll
      BY <1>0, <3>3 DEF AskUploadAll
    <3> QED
      BY <1>3, <3>1, <3>2, <3>3
  <2>2. bulk.kind = NoItem /\ UNCHANGED <<disk, inDb, busyAt, bulk, clean, allRun>>
    BY <1>3 DEF AskBulk, AskCleanup, AskUploadAll
  <2> QED
    BY <1>0, <2>1, <2>2 DEF WorkIInv, AskedAlone, Marked
<1>4. ASSUME NEW c \in Caps, AskRemove(c)
      PROVE  WorkIInv'
  BY <1>0, <1>4 DEF AskRemove, WorkIInv, AskedAlone, Marked
<1>5. ASSUME NEW yes \in BOOLEAN, RemoveConfirmed(yes)
      PROVE  WorkIInv'
  <2>1. ask' = NoAsk /\ UNCHANGED <<disk, inDb, bulk, clean, allRun>>
    BY <1>5 DEF RemoveConfirmed
  <2>2. busyAt' = busyAt \/ \E c \in Caps : busyAt' = [busyAt EXCEPT ![c] = "deleting"]
    BY <1>0, <1>5 DEF RemoveConfirmed
  <2> QED
    BY <1>0, <2>1, <2>2 DEF NoAsk, WorkIInv, AskedAlone, Marked
<1>6. ASSUME NEW yes \in BOOLEAN, NEW a \in BOOLEAN, BulkConfirmed(yes, a)
      PROVE  WorkIInv'
  <2>1. ask.kind \in {"bulk", "cleanup"} /\ ask' = NoAsk /\ UNCHANGED <<disk, inDb, busyAt, allRun>>
    BY <1>6 DEF BulkConfirmed
  <2>2. bulk' = [NoBulk EXCEPT !.kind = ask.kind, !.left = ask.items, !.at = "next"] \/ bulk' = NoBulk
    BY <1>6 DEF BulkConfirmed
  <2>3. clean' = clean \/ clean' = [known |-> TRUE, pool |-> ask.items \cap inDb]
    BY <1>6 DEF BulkConfirmed
  <2>4. bulk' \in BulkState /\ bulk'.at \in {NoItem, "next"}
    <3>1. NoBulk \in BulkState /\ NoBulk.at = NoItem
      BY DEF NoBulk, BulkState
    <3>2. CASE bulk' = [NoBulk EXCEPT !.kind = ask.kind, !.left = ask.items, !.at = "next"]
      BY <1>0, <2>1, <3>1, <3>2 DEF BulkState
    <3> QED
      BY <2>2, <3>1, <3>2
  <2> QED
    <3>1. NoAsk \in [kind : {NoItem, "one", "bulk", "cleanup", "all"}, items : SUBSET Caps] /\ NoAsk.kind \notin {"bulk", "cleanup"}
      BY <1>0 DEF NoAsk
    <3>2. clean' \in CleanState
      <4> DEFINE found == ask.items \cap inDb
      <4>1. clean \in CleanState /\ found \subseteq Caps
        BY <1>0
      <4>2. clean' = clean \/ clean' = [known |-> TRUE, pool |-> found]
        BY <2>3
      <4> HIDE DEF found, WorkTyped
      <4>3. CASE clean' = [known |-> TRUE, pool |-> found]
        BY <4>1, <4>3, Zenon DEF CleanState
      <4> QED
        BY <4>1, <4>2, <4>3
    <3>3. WorkTyped'
      BY <1>0, <2>1, <2>4, <3>1, <3>2
    <3>4. AskedAlone' /\ Marked'
      BY <2>1, <2>4, <3>1 DEF NoItem, AskedAlone, Marked
    <3> QED
      BY <3>3, <3>4 DEF WorkIInv
<1>7. CASE BulkNext
  <2>1. PICK c \in bulk.left : bulk' = [bulk EXCEPT !.left = @ \ {c}, !.cur = c, !.at = "fresh"]
    BY <1>7 DEF BulkNext
  <2>2. bulk.kind # NoItem /\ UNCHANGED <<disk, inDb, busyAt, ask, clean, allRun>>
    BY <1>7 DEF BulkNext
  <2>3. bulk' \in BulkState /\ bulk'.at = "fresh" /\ bulk'.cur \in Caps
    BY <1>0, <2>1 DEF BulkState
  <2> QED
    BY <1>0, <2>2, <2>3 DEF WorkIInv, AskedAlone, Marked
<1>8. ASSUME NEW a \in BOOLEAN, BulkRechecked(a)
      PROVE  WorkIInv'
  <2>1. bulk.cur \in Caps /\ UNCHANGED <<disk, inDb, ask, clean, allRun>>
    BY <1>0, <1>8 DEF BulkRechecked, Marked
  <2>2. \/ bulk' = [bulk EXCEPT !.cur = NoItem, !.at = "next"] /\ busyAt' = busyAt
        \/ bulk' = [bulk EXCEPT !.at = "delete"] /\ busyAt' = [busyAt EXCEPT ![bulk.cur] = "deleting"]
    BY <1>8 DEF BulkRechecked
  <2>3. bulk' \in BulkState /\ bulk'.kind = bulk.kind /\ bulk'.at # "fresh" /\ (bulk'.at = "delete" => bulk'.cur = bulk.cur)
    BY <1>0, <2>2 DEF BulkState
  <2>4. busyAt' \in [Caps -> {"no", "deleting", "recovering", "uploading"}] /\ (bulk'.at = "delete" => busyAt'[bulk.cur] = "deleting")
    BY <1>0, <2>1, <2>2 DEF BulkState
  <2> QED
    BY <1>0, <2>1, <2>3, <2>4 DEF WorkIInv, AskedAlone, Marked
<1>9. ASSUME NEW c \in Caps, Delete(c) \/ UNCHANGED disk, UNCHANGED <<inDb, ask, clean, allRun>>,
             busyAt' = [busyAt EXCEPT ![c] = "no"],
             (bulk' = bulk /\ c # bulk.cur) \/ bulk' = [bulk EXCEPT !.cur = NoItem, !.at = "next"]
      PROVE  WorkIInv'
  <2>1. disk' \in [Caps -> {"gone", "incomplete", "finalized"}]
    BY <1>0, <1>9 DEF Delete
  <2>2. bulk' \in BulkState /\ bulk'.kind = bulk.kind /\ ((bulk' = bulk /\ c # bulk.cur) \/ bulk'.at = "next")
    BY <1>0, <1>9 DEF BulkState
  <2>3. busyAt' \in [Caps -> {"no", "deleting", "recovering", "uploading"}] /\ \A d \in Caps \ {c} : busyAt'[d] = busyAt[d]
    BY <1>0, <1>9
  <2> QED
    BY <1>0, <1>9, <2>1, <2>2, <2>3 DEF WorkIInv, AskedAlone, Marked
<1>10. ASSUME NEW ok \in BOOLEAN, BulkDeleted(ok)
       PROVE  WorkIInv'
  <2>1. bulk.cur \in Caps
    BY <1>0, <1>10 DEF BulkDeleted, Marked
  <2> QED
    BY <1>9, <1>10, <2>1 DEF BulkDeleted
<1>11. CASE CancelBulk
  <2>1. bulk' = [bulk EXCEPT !.cancel = TRUE] /\ UNCHANGED <<disk, inDb, busyAt, ask, clean, allRun>>
    BY <1>11 DEF CancelBulk
  <2>2. bulk' \in BulkState /\ bulk'.kind = bulk.kind /\ bulk'.at = bulk.at /\ bulk'.cur = bulk.cur
    BY <1>0, <2>1 DEF BulkState
  <2> QED
    BY <1>0, <2>1, <2>2 DEF WorkIInv, AskedAlone, Marked
<1>12. CASE BulkEnds
  <2>1. bulk' \in BulkState /\ bulk'.kind = NoItem /\ bulk'.at = NoItem
    BY <1>12 DEF BulkEnds, NoBulk, BulkState
  <2>2. (clean' = clean \/ clean' = [known |-> FALSE, pool |-> {}]) /\ UNCHANGED <<disk, inDb, busyAt, ask, allRun>>
    BY <1>12 DEF BulkEnds
  <2> QED
    <3>1. clean' \in CleanState
      <4>1. CASE clean' = clean
        BY <1>0, <4>1
      <4>2. CASE clean' = [known |-> FALSE, pool |-> {}]
        BY <4>2 DEF CleanState
      <4> QED
        BY <2>2, <4>1, <4>2
    <3>2. WorkTyped'
      BY <1>0, <2>1, <2>2, <3>1
    <3>3. AskedAlone' /\ Marked'
      BY <2>1, <2>2 DEF NoItem, AskedAlone, Marked
    <3> QED
      BY <3>2, <3>3 DEF WorkIInv
<1>13. ASSUME NEW c \in Caps, Recover(c) \/ UploadClicked(c) \/ RemovedElsewhere(c)
       PROVE  WorkIInv'
  <2>1. inDb' \subseteq Caps /\ UNCHANGED <<disk, ask, bulk, clean, allRun>>
    BY <1>0, <1>13 DEF Recover, UploadClicked, RemovedElsewhere
  <2>2. busyAt' = busyAt \/ (busyAt[c] = "no" /\ \E w \in {"recovering", "uploading"} : busyAt' = [busyAt EXCEPT ![c] = w])
    BY <1>13 DEF Recover, UploadClicked, RemovedElsewhere, MayUpload
  <2> QED
    BY <1>0, <2>1, <2>2 DEF WorkIInv, AskedAlone, Marked
<1>14. ASSUME NEW c \in Caps, NEW ok \in BOOLEAN, RecoverReturns(c, ok) \/ UploadReturns(c, ok)
       PROVE  WorkIInv'
  <2>1. /\ busyAt[c] \in {"recovering", "uploading"} /\ busyAt' = [busyAt EXCEPT ![c] = "no"]
        /\ UNCHANGED <<ask, bulk, clean, allRun>>
    BY <1>14 DEF RecoverReturns, UploadReturns
  <2>2. disk' = disk \/ disk' = [disk EXCEPT ![c] = "finalized"]
    BY <1>14 DEF RecoverReturns, UploadReturns
  <2>3. inDb' \subseteq Caps
    BY <1>0, <1>14 DEF RecoverReturns, UploadReturns
  <2> QED
    BY <1>0, <2>1, <2>2, <2>3 DEF WorkIInv, AskedAlone, Marked
<1>15. ASSUME NEW c \in Caps, NEW ok \in BOOLEAN, RemoveReturns(c, ok)
       PROVE  WorkIInv'
  BY <1>9, <1>15 DEF RemoveReturns
<1>16. ASSUME NEW a \in BOOLEAN, PreviewCleanup(a)
       PROVE  WorkIInv'
  BY <1>0, <1>16 DEF PreviewCleanup, Finalized, CleanState, WorkIInv, AskedAlone, Marked
<1>17. ASSUME NEW yes \in BOOLEAN, UploadAllConfirmed(yes)
       PROVE  WorkIInv'
  BY <1>0, <1>17 DEF UploadAllConfirmed, NoAsk, NoItem, AllState, WorkIInv, AskedAlone, Marked
<1>18. CASE UploadAllNext
  <2>1. PICK c \in allRun.left : /\ allRun' = [allRun EXCEPT !.left = @ \ {c}]
                                 /\ busyAt' = IF c \in lst.rows /\ MayUpload(c) THEN [busyAt EXCEPT ![c] = "uploading"] ELSE busyAt
    BY <1>18 DEF UploadAllNext
  <2>2. busyAt' = busyAt \/ (busyAt[c] = "no" /\ busyAt' = [busyAt EXCEPT ![c] = "uploading"])
    BY <2>1 DEF MayUpload
  <2>3. UNCHANGED <<disk, inDb, ask, bulk, clean>> /\ c \in Caps
    BY <1>0, <1>18, <2>1 DEF UploadAllNext, AllState
  <2>4. allRun' \in AllState
    BY <1>0, <2>1 DEF AllState
  <2> QED
    BY <1>0, <2>2, <2>3, <2>4 DEF WorkIInv, AskedAlone, Marked
<1>19. CASE UploadAllEnds \/ CancelUploadAll
  <2>1. allRun' \in AllState
    <3>1. CASE UploadAllEnds
      BY <3>1 DEF UploadAllEnds, AllState
    <3>2. CASE CancelUploadAll
      BY <1>0, <3>2 DEF CancelUploadAll, AllState
    <3> QED
      BY <1>19, <3>1, <3>2
  <2>2. UNCHANGED <<disk, inDb, busyAt, ask, bulk, clean>>
    BY <1>19 DEF UploadAllEnds, CancelUploadAll
  <2> QED
    BY <1>0, <2>1, <2>2 DEF WorkIInv, AskedAlone, Marked
<1>20. CASE UNCHANGED listVars
  BY <1>1, <1>20 DEF listVars
<1> QED
  BY <1>2, <1>3, <1>4, <1>5, <1>6, <1>7, <1>8, <1>10, <1>11, <1>12, <1>13, <1>14, <1>15, <1>16, <1>17, <1>18, <1>19, <1>20
     DEF ListNext, BulkStep, UploadAllStep, RowStep

LEMMA ListInitIInv == ListInit => ListIInv
<1> SUFFICES ASSUME ListInit
             PROVE  ListIInv
  OBVIOUS
<1>1. /\ disk \in [Caps -> {"incomplete", "finalized"}] /\ inDb \subseteq Caps /\ loads = {} /\ busyAt = [c \in Caps |-> "no"]
      /\ ask = NoAsk /\ bulk = NoBulk /\ clean = [known |-> FALSE, pool |-> {}]
      /\ allRun = [left |-> {}, on |-> FALSE, cancel |-> FALSE]
  BY DEF ListInit
<1>2. WorkIInv
  BY <1>1 DEF WorkIInv, WorkTyped, AskedAlone, Marked, NoAsk, NoBulk, NoItem, BulkState, AllState, CleanState
<1>3. lst = [rows |-> {}, fin |-> {}, filter |-> "all", gen |-> 0, from |-> "all", loading |-> FALSE, error |-> FALSE,
             uploaded |-> {}, checked |-> {}, known |-> TRUE, selected |-> {}]
  BY DEF ListInit
<1>4. PageTyped
  BY <1>1, <1>3 DEF PageTyped, ListState, AnyFilter
<1>5. RowsHold /\ NewestOfFilter /\ RowsAreOfFilter /\ KnownIsLookedUp
  BY <1>1, <1>3 DEF RowsHold, NewestOfFilter, RowsAreOfFilter, KnownIsLookedUp
<1> QED
  BY <1>2, <1>4, <1>5 DEF ListIInv, PageIInv

LEMMA ListNextIInv == ListIInv /\ [ListNext]_listVars => ListIInv'
BY NextPage, NextWork DEF ListIInv

\* What the invariant says of the list to its user.
LEMMA ListHolds == ListIInv => ListTypeOK /\ RowsAreOfFilter /\ KnownIsLookedUp
<1> SUFFICES ASSUME ListIInv
             PROVE  ListTypeOK /\ RowsAreOfFilter /\ KnownIsLookedUp
  OBVIOUS
<1>1. lst.fin \subseteq lst.rows /\ lst.selected \subseteq lst.rows /\ lst.rows \subseteq Caps
  BY DEF ListIInv, PageIInv, RowsHold, PageTyped, ListState
<1>2. \A l \in loads : l.g <= lst.gen
  BY DEF ListIInv, PageIInv, NewestOfFilter
<1>3. bulk.at \in {NoItem, "next", "fresh", "delete"}
  BY DEF ListIInv, WorkIInv, WorkTyped, BulkState
<1> QED
  BY <1>1, <1>2, <1>3 DEF ListTypeOK, ListIInv, PageIInv

\* A DELETE of the clean-up is sent by one action, which has just asked the database.
LEMMA RecheckedIsUploaded ==
  ASSUME ListIInv, ListNext, bulk.kind = "cleanup", bulk'.at = "delete", bulk.at # "delete"
  PROVE  bulk'.cur \in inDb
<1>1. bulk \in BulkState
  BY DEF ListIInv, WorkIInv, WorkTyped
<1>2. ASSUME NEW a \in BOOLEAN, BulkRechecked(a)
      PROVE  bulk'.cur \in inDb
  <2>1. bulk' = [bulk EXCEPT !.at = "delete"] /\ ~cleanupSkip(bulk.cur)
    <3>1. bulk' # [bulk EXCEPT !.cur = NoItem, !.at = "next"]
      BY <1>1 DEF BulkState
    <3> QED
      BY <1>2, <3>1 DEF BulkRechecked
  <2> QED
    BY <1>1, <2>1 DEF BulkState, cleanupSkip
<1>3. CASE BulkNext
  <2>1. PICK c \in bulk.left : bulk' = [bulk EXCEPT !.left = @ \ {c}, !.cur = c, !.at = "fresh"]
    BY <1>3 DEF BulkNext
  <2> QED
    BY <1>1, <2>1 DEF BulkState
<1>4. CASE BulkEnds
  BY <1>4 DEF BulkEnds, NoBulk, NoItem
<1>5. ASSUME NEW ok \in BOOLEAN, BulkDeleted(ok)
      PROVE  FALSE
  BY <1>5 DEF BulkDeleted
<1>6. ASSUME NEW yes \in BOOLEAN, NEW a \in BOOLEAN, BulkConfirmed(yes, a)
      PROVE  FALSE
  BY <1>6 DEF BulkConfirmed, ListIInv, WorkIInv, AskedAlone, NoItem
<1>7. CASE CancelBulk
  BY <1>1, <1>7 DEF CancelBulk, BulkState
<1>8. CASE UNCHANGED bulk
  BY <1>8
<1> QED
  BY <1>2, <1>3, <1>4, <1>5, <1>6, <1>7, <1>8
     DEF ListNext, LoadStep, BulkStep, UploadAllStep, RowStep, Load, PageAnswered, PageFails, LookupAnswers, AskBulk, AskCleanup,
         AskUploadAll, CancelUploadAll, SetFilter, ToggleRow, AskRemove, Recover, UploadClicked, RemoveReturns, RecoverReturns,
         UploadReturns, RemovedElsewhere, RemoveConfirmed, UploadAllConfirmed, PreviewCleanup, UploadAllNext, UploadAllEnds

\* After a cancel deleteMany() takes nothing up: what is left stays, or is dropped at its end.
LEMMA CancelledTakesNothing ==
  ASSUME ListIInv, ListNext, bulk.kind # NoItem, bulk.cancel
  PROVE  bulk'.left \in {bulk.left, {}}
<1>1. bulk \in BulkState
  BY DEF ListIInv, WorkIInv, WorkTyped
<1>2. ASSUME NEW a \in BOOLEAN, BulkRechecked(a) \/ BulkDeleted(a) \/ CancelBulk
      PROVE  bulk'.left = bulk.left
  BY <1>1, <1>2 DEF BulkRechecked, BulkDeleted, CancelBulk, BulkState
<1>3. ASSUME BulkNext
      PROVE  FALSE
  BY <1>3 DEF BulkNext, Stops
<1>4. CASE BulkEnds
  BY <1>4 DEF BulkEnds, NoBulk
<1>5. ASSUME NEW yes \in BOOLEAN, NEW a \in BOOLEAN, BulkConfirmed(yes, a)
      PROVE  FALSE
  BY <1>5 DEF BulkConfirmed, ListIInv, WorkIInv, AskedAlone
<1>6. CASE UNCHANGED bulk
  BY <1>6
<1> QED
  BY <1>2, <1>3, <1>4, <1>5, <1>6
     DEF ListNext, LoadStep, BulkStep, UploadAllStep, RowStep, Load, PageAnswered, PageFails, LookupAnswers, AskBulk, AskCleanup,
         AskUploadAll, CancelUploadAll, SetFilter, ToggleRow, AskRemove, Recover, UploadClicked, RemoveReturns, RecoverReturns,
         UploadReturns, RemovedElsewhere, RemoveConfirmed, UploadAllConfirmed, PreviewCleanup, UploadAllNext, UploadAllEnds

\* A capture leaves the disk by a DELETE, sent when its row was marked.
LEMMA DeletedWasMarked ==
  ASSUME ListIInv, ListNext, NEW c \in Caps, disk[c] # "gone", disk'[c] = "gone"
  PROVE  busyAt[c] = "deleting"
<1>1. WorkTyped /\ Marked
  BY DEF ListIInv, WorkIInv
<1>2. disk \in [Caps -> {"gone", "incomplete", "finalized"}]
  BY <1>1 DEF WorkTyped
<1>3. ASSUME NEW d \in Caps, NEW ok \in BOOLEAN, RemoveReturns(d, ok)
      PROVE  busyAt[c] = "deleting"
  BY <1>2, <1>3 DEF RemoveReturns, Delete
<1>4. ASSUME NEW ok \in BOOLEAN, BulkDeleted(ok)
      PROVE  busyAt[c] = "deleting"
  BY <1>1, <1>2, <1>4 DEF BulkDeleted, Delete, Marked
<1>5. ASSUME NEW d \in Caps, NEW ok \in BOOLEAN, RecoverReturns(d, ok)
      PROVE  FALSE
  BY <1>2, <1>5 DEF RecoverReturns
<1>6. ~ UNCHANGED disk
  OBVIOUS
<1> QED
  BY <1>3, <1>4, <1>5, <1>6
     DEF BulkNext, BulkEnds, BulkRechecked, BulkConfirmed, CancelBulk,
         ListNext, LoadStep, BulkStep, UploadAllStep, RowStep, Load, PageAnswered, PageFails, LookupAnswers, AskBulk, AskCleanup,
         AskUploadAll, CancelUploadAll, SetFilter, ToggleRow, AskRemove, Recover, UploadClicked, RemoveReturns, RecoverReturns,
         UploadReturns, RemovedElsewhere, RemoveConfirmed, UploadAllConfirmed, PreviewCleanup, UploadAllNext, UploadAllEnds

\* A row that is busy becomes free before anything else begins on it.
LEMMA BusyEndsFirst ==
  ASSUME ListIInv, ListNext, NEW c \in Caps, busyAt[c] # "no"
  PROVE  busyAt'[c] \in {busyAt[c], "no"}
<1>1. WorkTyped /\ Marked
  BY DEF ListIInv, WorkIInv
<1>2. busyAt \in [Caps -> {"no", "deleting", "recovering", "uploading"}] /\ bulk \in BulkState
  BY <1>1 DEF WorkTyped
<1>3. ASSUME NEW d \in Caps, NEW w \in {"deleting", "recovering", "uploading"}, busyAt[d] = "no", busyAt' = [busyAt EXCEPT ![d] = w]
      PROVE  busyAt'[c] \in {busyAt[c], "no"}
  BY <1>2, <1>3
<1>4. ASSUME NEW d, busyAt' = [busyAt EXCEPT ![d] = "no"]
      PROVE  busyAt'[c] \in {busyAt[c], "no"}
  BY <1>2, <1>4
<1>5. ASSUME NEW d \in Caps, NEW ok \in BOOLEAN, RemoveReturns(d, ok) \/ RecoverReturns(d, ok) \/ UploadReturns(d, ok) \/ BulkDeleted(ok)
      PROVE  busyAt'[c] \in {busyAt[c], "no"}
  BY <1>4, <1>5 DEF RemoveReturns, RecoverReturns, UploadReturns, BulkDeleted
<1>6. ASSUME NEW d \in Caps, Recover(d) \/ UploadClicked(d)
      PROVE  busyAt'[c] \in {busyAt[c], "no"}
  BY <1>3, <1>6 DEF Recover, UploadClicked, MayUpload
<1>7. ASSUME NEW yes \in BOOLEAN, RemoveConfirmed(yes)
      PROVE  busyAt'[c] \in {busyAt[c], "no"}
  <2>1. ask.items \subseteq Caps
    BY <1>1 DEF WorkTyped
  <2> QED
    BY <1>3, <1>7, <2>1 DEF RemoveConfirmed, deleteAfterConfirmBlock
<1>8. ASSUME NEW a \in BOOLEAN, BulkRechecked(a)
      PROVE  busyAt'[c] \in {busyAt[c], "no"}
  <2>1. bulk.cur \in Caps
    BY <1>1, <1>8 DEF BulkRechecked, Marked
  <2>2. busyAt' = busyAt \/ (busyAt[bulk.cur] = "no" /\ busyAt' = [busyAt EXCEPT ![bulk.cur] = "deleting"])
    BY <1>8 DEF BulkRechecked, cleanupSkip, bulkDeleteSkip
  <2> QED
    BY <1>3, <2>1, <2>2
<1>9. CASE UploadAllNext
  <2>1. allRun.left \subseteq Caps
    BY <1>1 DEF WorkTyped, AllState
  <2>2. busyAt' = busyAt \/ \E d \in Caps : busyAt[d] = "no" /\ busyAt' = [busyAt EXCEPT ![d] = "uploading"]
    BY <1>9, <2>1 DEF UploadAllNext, MayUpload
  <2> QED
    BY <1>3, <2>2
<1>10. CASE UNCHANGED busyAt
  BY <1>10
<1> QED
  BY <1>5, <1>6, <1>7, <1>8, <1>9, <1>10
     DEF ListNext, LoadStep, BulkStep, UploadAllStep, RowStep, Load, PageAnswered, PageFails, LookupAnswers, AskBulk, AskCleanup,
         AskUploadAll, CancelUploadAll, SetFilter, ToggleRow, AskRemove, RemovedElsewhere, UploadAllConfirmed, PreviewCleanup,
         UploadAllEnds, BulkNext, BulkEnds, BulkConfirmed, CancelBulk

----------------------------------------------------------------------------
(* THE SIGN-IN.                                                            *)

AnyToken == [who : Accounts, n : Nat \ {0}]
TokenOrNone == AnyToken \union {NoToken}
SesState == [acc : TokenOrNone, ref : TokenOrNone, user : Accounts \union {Nobody}, offline : BOOLEAN]
LoginState == [at : {"none", "post", "profile", "enroll", "match", "verify"}, who : Accounts \union {Nobody},
               pw : Passwords \union {NoPw}, re : BOOLEAN]
VaultEntry == [pw : Passwords \union {NoPw}, fresh : BOOLEAN]
LockState == [fails : 0..(FreeAttempts + 1), wait : BOOLEAN]
ServerState == [pw : [Accounts -> Passwords], acc : SUBSET AnyToken, ref : SUBSET AnyToken, up : BOOLEAN, n : Nat]
PastState == [logins : Nat, taken : SUBSET (Accounts \X Passwords), refused : SUBSET (Accounts \X Passwords),
              should : BOOLEAN, late : BOOLEAN, out : BOOLEAN]

AuthTyped ==
    /\ ses \in SesState /\ login \in LoginState /\ rfr \in TokenOrNone
    /\ calls \in [ApiCalls -> {"none", "sent", "waits", "again", "cut"}]
    /\ vault \in [Accounts -> VaultEntry] /\ lock \in LockState /\ route \in {"login", "app"}
    /\ auth \in ServerState /\ authPast \in PastState
    /\ login.at # "none" => login.who \in Accounts /\ login.pw \in Passwords

\* Both tokens are of one sign-in or refresh; a user is named while there is a session.
Paired == ses.acc = ses.ref /\ (ses.user # Nobody => isAuthenticated(ses))
\* The refresh under way is of the session, unless that ended meanwhile.
RefreshIsOurs == (rfr # NoToken /\ ~authPast.late) => rfr = ses.ref
WaitersHaveRefresh == \A c \in ApiCalls : calls[c] = "waits" => rfr # NoToken
\* The password being enrolled was taken and not refused since; the one about to be
\* compared with the vault is the one that was refused.
EnrollsTaken == login.at \in {"profile", "enroll"} => <<login.who, login.pw>> \in authPast.taken \ authPast.refused
MatchIsRefused ==
    (login.at = "match" /\ <<login.who, vault[login.who].pw>> \in authPast.refused) => vault[login.who].pw = login.pw

SessionIInv == Paired /\ RefreshIsOurs /\ TokensOfUser /\ OutageKeepsSession /\ WaitersHaveRefresh
VaultIInv == EnrollsTaken /\ MatchIsRefused /\ RefusedIsForgotten /\ OfflineWasOnline
AuthIInv == AuthTyped /\ SessionIInv /\ VaultIInv

----------------------------------------------------------------------------
LEMMA TokenFacts ==
  /\ NoToken \in TokenOrNone /\ NoToken \notin AnyToken /\ SignedOut \in SesState
  /\ SignedOut.acc = NoToken /\ SignedOut.ref = NoToken /\ SignedOut.user = Nobody /\ SignedOut.offline = FALSE
  /\ \A u \in Accounts : auth.n \in Nat => NewToken(u) \in AnyToken /\ NewToken(u).who = u /\ NewToken(u) # NoToken
<1>1. NoToken.n = 0 /\ \A t \in AnyToken : t.n # 0
  BY DEF NoToken, AnyToken
<1>2. NoToken \in TokenOrNone /\ NoToken \notin AnyToken
  BY <1>1 DEF TokenOrNone
<1>3. ASSUME NEW u \in Accounts, auth.n \in Nat
      PROVE  NewToken(u) \in AnyToken /\ NewToken(u).who = u
  <2> DEFINE m == auth.n + 1
  <2>1. m \in Nat \ {0}
    BY <1>3
  <2>2. NewToken(u) = [who |-> u, n |-> m]
    BY DEF NewToken
  <2> HIDE DEF m
  <2> QED
    BY <2>1, <2>2 DEF AnyToken
<1>4. SignedOut.acc = NoToken /\ SignedOut.ref = NoToken /\ SignedOut.user = Nobody /\ SignedOut.offline = FALSE
  BY DEF SignedOut
<1>5. SignedOut \in SesState
  BY <1>2 DEF SignedOut, SesState
<1> QED
  BY <1>2, <1>3, <1>4, <1>5

\* The fields of the state, one by one.
LEMMA AuthFields ==
  ASSUME AuthTyped
  PROVE  /\ ses.acc \in TokenOrNone /\ ses.ref \in TokenOrNone /\ ses.user \in Accounts \union {Nobody} /\ ses.offline \in BOOLEAN
         /\ login.who \in Accounts \union {Nobody} /\ login.pw \in Passwords \union {NoPw} /\ login.re \in BOOLEAN
         /\ auth.pw \in [Accounts -> Passwords] /\ auth.acc \subseteq AnyToken /\ auth.ref \subseteq AnyToken /\ auth.up \in BOOLEAN
         /\ auth.n \in Nat
         /\ authPast.logins \in Nat /\ authPast.taken \subseteq Accounts \X Passwords /\ authPast.refused \subseteq Accounts \X Passwords
         /\ authPast.should \in BOOLEAN /\ authPast.late \in BOOLEAN /\ authPast.out \in BOOLEAN
         /\ \A u \in Accounts : vault[u].pw \in Passwords \union {NoPw} /\ vault[u].fresh \in BOOLEAN
<1>1. /\ ses.acc \in TokenOrNone /\ ses.ref \in TokenOrNone /\ ses.user \in Accounts \union {Nobody} /\ ses.offline \in BOOLEAN
      /\ login.who \in Accounts \union {Nobody} /\ login.pw \in Passwords \union {NoPw} /\ login.re \in BOOLEAN
  BY DEF AuthTyped, SesState, LoginState
<1>2. /\ auth.pw \in [Accounts -> Passwords] /\ auth.acc \subseteq AnyToken /\ auth.ref \subseteq AnyToken /\ auth.up \in BOOLEAN
      /\ auth.n \in Nat
  BY DEF AuthTyped, ServerState
<1>3. /\ authPast.logins \in Nat /\ authPast.taken \subseteq Accounts \X Passwords /\ authPast.refused \subseteq Accounts \X Passwords
      /\ authPast.should \in BOOLEAN /\ authPast.late \in BOOLEAN /\ authPast.out \in BOOLEAN
  BY DEF AuthTyped, PastState
<1>4. \A u \in Accounts : vault[u].pw \in Passwords \union {NoPw} /\ vault[u].fresh \in BOOLEAN
  BY DEF AuthTyped, VaultEntry
<1> QED
  BY <1>1, <1>2, <1>3, <1>4

\* A new token is handed out, an old one perhaps taken back.
LEMMA IssuedTyped ==
  ASSUME AuthTyped, NEW u \in Accounts, NEW o,
         auth' = Issued(auth, u) \/ auth' = [Issued(auth, u) EXCEPT !.ref = @ \ {o}]
  PROVE  auth' \in ServerState
<1> DEFINE t == NewToken(u)
           m == auth.n + 1
           a == auth.acc \union {t}
           r == auth.ref \union {t}
           s == r \ {o}
<1>1. t \in AnyToken /\ m \in Nat
  BY AuthFields, TokenFacts
<1>2. a \in SUBSET AnyToken /\ r \in SUBSET AnyToken /\ s \in SUBSET AnyToken
  BY <1>1, AuthFields
<1>3. auth' = [auth EXCEPT !.acc = a, !.ref = r, !.n = m] \/ auth' = [auth EXCEPT !.acc = a, !.ref = s, !.n = m]
  BY DEF AuthTyped, ServerState, Issued
<1> HIDE DEF t, m, a, r, s
<1> QED
  BY <1>1, <1>2, <1>3 DEF AuthTyped, ServerState

\* The history after a step keeps its type.
LEMMA PastTyped ==
  ASSUME AuthTyped
  PROVE  /\ \A p \in PastState : Late(p) \in PastState
         /\ \A b \in BOOLEAN : [authPast EXCEPT !.should = b] \in PastState
<1>1. ASSUME NEW p \in PastState
      PROVE  Late(p) \in PastState
  <2>1. p.late \in BOOLEAN
    BY DEF PastState
  <2> DEFINE b == p.late \/ rfr # NoToken
  <2>2. b \in BOOLEAN
    OBVIOUS
  <2>3. Late(p) = [p EXCEPT !.late = b]
    BY DEF Late
  <2> HIDE DEF b
  <2> QED
    BY <2>2, <2>3 DEF PastState
<1>2. ASSUME NEW b \in BOOLEAN
      PROVE  [authPast EXCEPT !.should = b] \in PastState
  BY DEF AuthTyped, PastState
<1> QED
  BY <1>1, <1>2

(***************************************************************************)
(* Types.                                                                  *)
(***************************************************************************)
LEMMA AuthNextTyped == AuthTyped /\ [AuthNext]_authVars => AuthTyped'
<1> SUFFICES ASSUME AuthTyped, [AuthNext]_authVars
             PROVE  AuthTyped'
  OBVIOUS
<1>0. /\ ses \in SesState /\ login \in LoginState /\ rfr \in TokenOrNone
      /\ calls \in [ApiCalls -> {"none", "sent", "waits", "again", "cut"}]
      /\ vault \in [Accounts -> VaultEntry] /\ lock \in LockState /\ route \in {"login", "app"}
      /\ auth \in ServerState /\ authPast \in PastState
      /\ (login.at # "none" => login.who \in Accounts /\ login.pw \in Passwords)
  BY DEF AuthTyped
<1>a. NoLogin \in LoginState /\ NoLogin.at = "none" /\ [fails |-> 0, wait |-> FALSE] \in LockState
  BY AuthAssumption DEF NoLogin, LoginState, LockState
<1>1. ASSUME NEW u \in Accounts, NEW p \in Passwords, PasswordChanges(u, p)
      PROVE  AuthTyped'
  <2> DEFINE f == [auth.pw EXCEPT ![u] = p]
  <2>1. f \in [Accounts -> Passwords]
    BY AuthFields
  <2>2. auth' = [auth EXCEPT !.pw = f]
    BY <1>1 DEF PasswordChanges
  <2> HIDE DEF f
  <2>3. auth' \in ServerState
    BY <1>0, <2>1, <2>2 DEF ServerState
  <2> QED
    BY <1>0, <1>1, <2>3 DEF PasswordChanges, AuthTyped
<1>2. ASSUME NEW u \in Accounts, NEW p \in Passwords, NEW re \in BOOLEAN, LoginStarts(u, p, re)
      PROVE  AuthTyped'
  <2>1. login' \in LoginState /\ login'.who \in Accounts /\ login'.pw \in Passwords
    BY <1>2 DEF LoginStarts, LoginState
  <2>2. authPast' \in PastState
    <3> DEFINE m == authPast.logins + 1
    <3>1. m \in Nat
      BY AuthFields
    <3>2. authPast' = [authPast EXCEPT !.logins = m]
      BY <1>2 DEF LoginStarts, Past
    <3> HIDE DEF m
    <3> QED
      BY <1>0, <3>1, <3>2 DEF PastState
  <2> QED
    BY <1>0, <1>2, <2>1, <2>2 DEF LoginStarts, AuthTyped
<1>3. ASSUME NEW b \in BOOLEAN, Reachable(b)
      PROVE  AuthTyped'
  <2>1. auth' \in ServerState
    BY <1>0, <1>3 DEF Reachable, ServerState
  <2> QED
    BY <1>0, <1>3, <2>1 DEF Reachable, AuthTyped
<1>4. ASSUME NEW ok \in BOOLEAN, ProfileRead(ok)
      PROVE  AuthTyped'
  <2>1. CASE ses' = SignedOut /\ login' = NoLogin /\ authPast' = Late([authPast EXCEPT !.should = FALSE])
    BY <1>0, <1>a, <1>4, <2>1, TokenFacts, PastTyped DEF ProfileRead, AuthTyped
  <2>2. CASE /\ ses' = [ses EXCEPT !.user = IF ok /\ ses.acc # NoToken THEN ses.acc.who ELSE ses.user]
             /\ login' = [login EXCEPT !.at = "enroll"] /\ authPast' = [authPast EXCEPT !.should = TRUE]
    <3>1. ses.acc # NoToken => ses.acc.who \in Accounts
      BY AuthFields DEF TokenOrNone, AnyToken
    <3>2. ses' \in SesState
      <4> DEFINE v == IF ok /\ ses.acc # NoToken THEN ses.acc.who ELSE ses.user
      <4>1. v \in Accounts \union {Nobody}
        BY <3>1, AuthFields
      <4>2. ses' = [ses EXCEPT !.user = v]
        BY <2>2
      <4> HIDE DEF v
      <4> QED
        BY <1>0, <4>1, <4>2 DEF SesState
    <3>3. login' \in LoginState /\ login'.who \in Accounts /\ login'.pw \in Passwords
      BY <1>0, <1>4, <2>2 DEF ProfileRead, LoginState
    <3>4. authPast' \in PastState
      BY <2>2, PastTyped
    <3> QED
      BY <1>0, <1>4, <3>2, <3>3, <3>4 DEF ProfileRead, AuthTyped
  <2> QED
    BY <1>4, <2>1, <2>2 DEF ProfileRead, Past
<1>5. ASSUME NEW t, TokenExpires(t) \/ SessionEnded(t)
      PROVE  AuthTyped'
  <2>1. auth' \in ServerState
    BY <1>0, <1>5 DEF TokenExpires, SessionEnded, ServerState
  <2>2. authPast' \in PastState
    BY <1>0, <1>5, PastTyped DEF TokenExpires, SessionEnded, Past
  <2> QED
    BY <1>0, <1>5, <2>1, <2>2 DEF TokenExpires, SessionEnded, AuthTyped
<1>6. ASSUME NEW u \in Accounts, EntryAges(u) \/ ForgetAccount(u)
      PROVE  AuthTyped'
  <2>1. vault' \in [Accounts -> VaultEntry]
    <3>1. [pw |-> NoPw, fresh |-> FALSE] \in VaultEntry /\ [vault[u] EXCEPT !.fresh = FALSE] \in VaultEntry
      BY <1>0 DEF VaultEntry
    <3>2. vault' = [vault EXCEPT ![u] = [vault[u] EXCEPT !.fresh = FALSE]] \/ vault' = [vault EXCEPT ![u] = [pw |-> NoPw, fresh |-> FALSE]]
      BY <1>6, Zenon DEF EntryAges, ForgetAccount, Forgotten
    <3> QED
      BY <1>0, <3>1, <3>2
  <2>2. authPast' \in PastState
    <3> DEFINE b == authPast.should /\ ~(ses.offline /\ ses.user = u)
    <3>1. b \in BOOLEAN
      OBVIOUS
    <3>2. authPast' = authPast \/ authPast' = [authPast EXCEPT !.should = b]
      BY <1>6 DEF EntryAges, ForgetAccount, Past
    <3> HIDE DEF b
    <3> QED
      BY <1>0, <3>1, <3>2, PastTyped
  <2> QED
    <3>1. UNCHANGED <<ses, login, rfr, calls, lock, route, auth>>
      BY <1>6 DEF EntryAges, ForgetAccount
    <3> QED
      BY <1>0, <2>1, <2>2, <3>1 DEF AuthTyped
<1>7. CASE LoginTaken
  <2>1. login.who \in Accounts /\ login.pw \in Passwords /\ login'.who = login.who /\ login'.pw = login.pw /\ login' \in LoginState
    BY <1>0, <1>7 DEF LoginTaken, LoginState
  <2>2. auth' \in ServerState
    BY <1>7, <2>1, IssuedTyped DEF LoginTaken
  <2>3. ses' \in SesState
    BY <1>7, <2>1, AuthFields, TokenFacts DEF LoginTaken, SignedIn, SesState, TokenOrNone
  <2>4. authPast' \in PastState
    <3> DEFINE x == <<login.who, login.pw>>
               a == authPast.taken \union {x}
               r == authPast.refused \ {x}
    <3>1. a \in SUBSET (Accounts \X Passwords) /\ r \in SUBSET (Accounts \X Passwords)
      BY <2>1, AuthFields
    <3>2. authPast' = Late([authPast EXCEPT !.taken = a, !.refused = r, !.out = FALSE])
      BY <1>7 DEF LoginTaken
    <3> HIDE DEF a, r
    <3>3. [authPast EXCEPT !.taken = a, !.refused = r, !.out = FALSE] \in PastState
      BY <1>0, <3>1 DEF PastState
    <3> QED
      BY <3>2, <3>3, PastTyped
  <2> QED
    BY <1>0, <1>7, <2>1, <2>2, <2>3, <2>4 DEF LoginTaken, AuthTyped
<1>8. CASE Enrolled
  <2>1. login.who \in Accounts /\ login.pw \in Passwords /\ route' \in {"login", "app"}
    BY <1>0, <1>8 DEF Enrolled, LeavesLogin
  <2>2. vault' \in [Accounts -> VaultEntry]
    BY <1>0, <1>8, <2>1 DEF Enrolled, VaultEntry
  <2> QED
    BY <1>0, <1>a, <1>8, <2>1, <2>2 DEF Enrolled, AuthTyped
<1>9. CASE LoginRefused
  <2>1. login.who \in Accounts /\ login.pw \in Passwords
    BY <1>0, <1>9 DEF LoginRefused
  <2>2. login' \in LoginState /\ (login'.at # "none" => login'.who \in Accounts /\ login'.pw \in Passwords)
    BY <1>0, <1>a, <1>9, <2>1 DEF LoginRefused, AfterRefusal, LoginState
  <2>3. authPast' \in PastState
    <3> DEFINE r == IF login.re THEN authPast.refused ELSE authPast.refused \union {<<login.who, login.pw>>}
    <3>1. r \in SUBSET (Accounts \X Passwords)
      BY <2>1, AuthFields
    <3>2. authPast' = [authPast EXCEPT !.refused = r]
      BY <1>9 DEF LoginRefused, Past
    <3> HIDE DEF r
    <3> QED
      BY <1>0, <3>1, <3>2 DEF PastState
  <2>4. UNCHANGED <<ses, rfr, calls, vault, lock, route, auth>>
    BY <1>9 DEF LoginRefused
  <2> QED
    BY <1>0, <2>2, <2>3, <2>4 DEF AuthTyped
<1>10. CASE MatchRead
  <2>1. login.who \in Accounts /\ login' = NoLogin /\ UNCHANGED <<ses, rfr, calls, lock, route, auth, authPast>>
    BY <1>0, <1>10 DEF MatchRead
  <2>2. vault' \in [Accounts -> VaultEntry]
    BY <1>0, <1>10, <2>1 DEF MatchRead, Forgotten, VaultEntry
  <2> QED
    BY <1>0, <1>a, <2>1, <2>2 DEF AuthTyped
<1>11. CASE LoginLost
  <2>1. login' \in LoginState /\ (login'.at # "none" => login'.who \in Accounts /\ login'.pw \in Passwords)
    BY <1>0, <1>a, <1>11 DEF LoginLost, LoginState
  <2>2. UNCHANGED <<ses, rfr, calls, vault, lock, route, auth, authPast>>
    BY <1>11 DEF LoginLost
  <2> QED
    BY <1>0, <2>1, <2>2 DEF AuthTyped
<1>12. CASE OfflineVerified
  <2>1. login.who \in Accounts /\ login' = NoLogin /\ UNCHANGED <<rfr, calls, vault, auth>>
    BY <1>0, <1>12 DEF OfflineVerified
  <2>2. ses' \in SesState /\ route' \in {"login", "app"}
    <3>1. [SignedOut EXCEPT !.user = login.who, !.offline = TRUE] \in SesState
      BY <2>1, TokenFacts DEF SesState
    <3> QED
      BY <1>0, <1>12, <3>1 DEF OfflineVerified
  <2>3. authPast' \in PastState
    <3>1. [authPast EXCEPT !.should = TRUE, !.out = FALSE] \in PastState
      BY <1>0 DEF PastState
    <3> QED
      BY <1>0, <1>12, <3>1, PastTyped DEF OfflineVerified
  <2>4. lock' \in LockState
    <3>1. FreeAttempts \in Nat /\ lock.fails \in 0..(FreeAttempts + 1)
      BY <1>0, AuthAssumption DEF LockState
    <3>2. Failed(lock) \in LockState
      <4> DEFINE m == IF lock.fails < FreeAttempts + 1 THEN lock.fails + 1 ELSE lock.fails
                 w == lock.fails >= FreeAttempts
      <4>1. m \in 0..(FreeAttempts + 1)
        BY <3>1
      <4>2. w \in BOOLEAN
        OBVIOUS
      <4>3. Failed(lock) = [fails |-> m, wait |-> w]
        BY DEF Failed
      <4> HIDE DEF m, w
      <4> QED
        BY <4>1, <4>2, <4>3 DEF LockState
    <3> QED
      BY <1>0, <1>a, <1>12, <3>2 DEF OfflineVerified
  <2> QED
    BY <1>0, <1>a, <2>1, <2>2, <2>3, <2>4 DEF AuthTyped
<1>13. CASE WaitOver
  <2>1. lock' \in LockState
    BY <1>0, <1>13 DEF WaitOver, LockState
  <2> QED
    BY <1>0, <1>13, <2>1 DEF WaitOver, AuthTyped
<1>14. ASSUME NEW c \in ApiCalls, CallSent(c) \/ CallAnswered(c) \/ CallLost(c)
       PROVE  AuthTyped'
  BY <1>0, <1>14 DEF CallSent, CallAnswered, CallLost, AuthTyped
<1>b. ASSUME Unauthorized
      PROVE  ses' \in SesState /\ route' \in {"login", "app"} /\ authPast' \in PastState
  BY <1>0, <1>b, TokenFacts, PastTyped DEF Unauthorized
<1>15. ASSUME NEW c \in ApiCalls, CallRefused(c)
       PROVE  AuthTyped'
  <2>1. calls' \in [ApiCalls -> {"none", "sent", "waits", "again", "cut"}] /\ rfr' \in TokenOrNone
    BY <1>0, <1>15, AuthFields DEF CallRefused
  <2>2. ses' \in SesState /\ route' \in {"login", "app"} /\ authPast' \in PastState
    BY <1>0, <1>b, <1>15 DEF CallRefused
  <2>3. UNCHANGED <<login, vault, lock, auth>>
    BY <1>15 DEF CallRefused
  <2> QED
    BY <1>0, <2>1, <2>2, <2>3 DEF AuthTyped
<1>16. ASSUME NEW c \in ApiCalls, CallCut(c)
       PROVE  AuthTyped'
  <2>1. calls' \in [ApiCalls -> {"none", "sent", "waits", "again", "cut"}] /\ UNCHANGED <<login, rfr, vault, lock, auth>>
    BY <1>0, <1>16 DEF CallCut, CutSettles
  <2>2. ses' \in SesState /\ route' \in {"login", "app"} /\ authPast' \in PastState
    BY <1>b, <1>16 DEF CallCut
  <2> QED
    BY <1>0, <2>1, <2>2 DEF AuthTyped
<1>c. ASSUME NEW ok \in BOOLEAN, NEW s
      PROVE  Resumed(ok, s) \in [ApiCalls -> {"none", "sent", "waits", "again", "cut"}]
  BY <1>0 DEF Resumed
<1>17. CASE RefreshTaken
  <2>1. rfr \in AnyToken /\ rfr.who \in Accounts
    BY <1>17, AuthFields DEF RefreshTaken, AnyToken
  <2>2. auth' \in ServerState
    BY <1>17, <2>1, IssuedTyped DEF RefreshTaken
  <2>3. ses' \in SesState
    BY <1>0, <1>17, <2>1, AuthFields, TokenFacts DEF RefreshTaken, SesState, TokenOrNone
  <2>4. vault' \in [Accounts -> VaultEntry]
    <3>1. vault' = vault \/ (ses.user # Nobody /\ vault' = [vault EXCEPT ![ses.user] = [vault[ses.user] EXCEPT !.fresh = TRUE]])
      BY <1>17 DEF RefreshTaken
    <3>2. ses.user # Nobody => [vault[ses.user] EXCEPT !.fresh = TRUE] \in VaultEntry
      BY <1>0, AuthFields DEF VaultEntry
    <3> QED
      BY <1>0, <3>1, <3>2
  <2>5. rfr' \in TokenOrNone /\ calls' \in [ApiCalls -> {"none", "sent", "waits", "again", "cut"}]
    BY <1>17, <1>c, TokenFacts DEF RefreshTaken
  <2> QED
    BY <1>0, <1>17, <2>2, <2>3, <2>4, <2>5 DEF RefreshTaken, AuthTyped
<1>18. CASE RefreshLost \/ RefreshRefused
  <2>1. ses' \in SesState /\ authPast' \in PastState
    BY <1>0, <1>18, TokenFacts, PastTyped DEF RefreshLost, RefreshRefused, AfterLoss, Past
  <2>2. rfr' \in TokenOrNone /\ calls' \in [ApiCalls -> {"none", "sent", "waits", "again", "cut"}]
    BY <1>18, <1>c, TokenFacts DEF RefreshLost, RefreshRefused
  <2>3. UNCHANGED <<login, vault, lock, route, auth>>
    BY <1>18 DEF RefreshLost, RefreshRefused
  <2> QED
    BY <1>0, <2>1, <2>2, <2>3 DEF AuthTyped
<1>19. CASE Logout
  <2>1. auth' \in ServerState
    <3> DEFINE r == auth.ref \ {ses.ref}
    <3>1. r \in SUBSET AnyToken /\ (auth' = auth \/ auth' = [auth EXCEPT !.ref = r])
      BY <1>19, AuthFields DEF Logout
    <3> HIDE DEF r
    <3> QED
      BY <1>0, <3>1 DEF ServerState
  <2>2. authPast' \in PastState
    <3>1. [authPast EXCEPT !.should = FALSE, !.out = TRUE] \in PastState
      BY <1>0 DEF PastState
    <3> QED
      BY <1>19, <3>1, PastTyped DEF Logout
  <2> QED
    BY <1>0, <1>19, <2>1, <2>2, TokenFacts DEF Logout, AuthTyped
<1>20. CASE Navigate
  <2>1. ses' \in SesState /\ route' \in {"login", "app"}
    BY <1>0, <1>20, TokenFacts DEF Navigate, Checked
  <2>2. authPast' \in PastState
    BY <1>0, <1>20, PastTyped DEF Navigate
  <2>3. UNCHANGED <<login, rfr, calls, vault, lock, auth>>
    BY <1>20 DEF Navigate
  <2> QED
    BY <1>0, <2>1, <2>2, <2>3 DEF AuthTyped
<1>21. CASE UNCHANGED authVars
  BY <1>21 DEF authVars, AuthTyped
<1> QED
  BY <1>1, <1>2, <1>3, <1>4, <1>5, <1>6, <1>7, <1>8, <1>9, <1>10, <1>11, <1>12, <1>13, <1>14, <1>15, <1>16, <1>17, <1>18, <1>19,
     <1>20, <1>21 DEF AuthNext

(***************************************************************************)
(* The session and its refresh.                                            *)
(***************************************************************************)

\* A session without tokens, a user or a refresh to wait for keeps everything.
LEMMA SignedOutKeeps ==
  ASSUME AuthTyped, SessionIInv, ses' = SignedOut, authPast'.should = FALSE,
         (rfr' = rfr /\ authPast'.late = (authPast.late \/ rfr # NoToken)) \/ rfr' = NoToken
  PROVE  Paired' /\ RefreshIsOurs' /\ TokensOfUser' /\ OutageKeepsSession'
<1>1. Paired' /\ TokensOfUser' /\ OutageKeepsSession'
  BY TokenFacts DEF Paired, TokensOfUser, OutageKeepsSession
<1>2. RefreshIsOurs'
  BY DEF RefreshIsOurs
<1> QED
  BY <1>1, <1>2

LEMMA LatePast ==
  ASSUME AuthTyped, NEW p \in PastState
  PROVE  /\ Late(p).late = (p.late \/ rfr # NoToken) /\ Late(p).should = p.should
         /\ Late(p).taken = p.taken /\ Late(p).refused = p.refused
BY DEF Late, PastState

LEMMA AuthNextSession == AuthTyped /\ SessionIInv /\ [AuthNext]_authVars => SessionIInv'
<1> SUFFICES ASSUME AuthTyped, SessionIInv, [AuthNext]_authVars
             PROVE  SessionIInv'
  OBVIOUS
<1>0. Paired /\ RefreshIsOurs /\ TokensOfUser /\ OutageKeepsSession /\ WaitersHaveRefresh
  BY DEF SessionIInv
<1>a. /\ authPast \in PastState /\ [authPast EXCEPT !.should = FALSE] \in PastState /\ [authPast EXCEPT !.should = TRUE, !.out = FALSE] \in PastState
      /\ [authPast EXCEPT !.should = FALSE, !.out = TRUE] \in PastState
  BY DEF AuthTyped, PastState
<1>b. [authPast EXCEPT !.should = FALSE].should = FALSE /\ [authPast EXCEPT !.should = FALSE].late = authPast.late
      /\ [authPast EXCEPT !.should = FALSE, !.out = TRUE].should = FALSE /\ [authPast EXCEPT !.should = FALSE, !.out = TRUE].late = authPast.late
  BY <1>a DEF PastState
\* Steps that leave the session, its refresh and its history alone.
<1>1. ASSUME UNCHANGED <<ses, rfr>>, authPast'.late = authPast.late, authPast'.should => authPast.should
      PROVE  Paired' /\ RefreshIsOurs' /\ TokensOfUser' /\ OutageKeepsSession'
  BY <1>0, <1>1 DEF Paired, RefreshIsOurs, TokensOfUser, OutageKeepsSession, isAuthenticated
<1>2. ASSUME UNCHANGED <<calls, rfr>>
      PROVE  WaitersHaveRefresh'
  BY <1>0, <1>2 DEF WaitersHaveRefresh
<1>3. ASSUME NEW u \in Accounts, NEW p \in Passwords, PasswordChanges(u, p)
      PROVE  SessionIInv'
  BY <1>1, <1>2, <1>3 DEF PasswordChanges, SessionIInv
<1>4. ASSUME NEW u \in Accounts, NEW p \in Passwords, NEW re \in BOOLEAN, LoginStarts(u, p, re)
      PROVE  SessionIInv'
  <2>1. authPast'.late = authPast.late /\ authPast'.should = authPast.should
    BY <1>4 DEF LoginStarts, Past, AuthTyped, PastState
  <2> QED
    BY <1>1, <1>2, <1>4, <2>1 DEF LoginStarts, SessionIInv
<1>5. ASSUME NEW b \in BOOLEAN, Reachable(b)
      PROVE  SessionIInv'
  BY <1>1, <1>2, <1>5 DEF Reachable, SessionIInv
<1>6. ASSUME NEW t, TokenExpires(t) \/ SessionEnded(t)
      PROVE  SessionIInv'
  <2>1. authPast'.late = authPast.late /\ (authPast'.should => authPast.should)
    BY <1>b, <1>6 DEF TokenExpires, SessionEnded, Past
  <2> QED
    BY <1>1, <1>2, <1>6, <2>1 DEF TokenExpires, SessionEnded, SessionIInv
<1>7. ASSUME NEW u \in Accounts, EntryAges(u) \/ ForgetAccount(u)
      PROVE  SessionIInv'
  <2>1. authPast'.late = authPast.late /\ (authPast'.should => authPast.should)
    BY <1>7 DEF EntryAges, ForgetAccount, Past, AuthTyped, PastState
  <2> QED
    BY <1>1, <1>2, <1>7, <2>1 DEF EntryAges, ForgetAccount, SessionIInv
<1>8. CASE Enrolled \/ MatchRead \/ LoginLost \/ WaitOver
  BY <1>1, <1>2, <1>8 DEF Enrolled, MatchRead, LoginLost, WaitOver, SessionIInv
<1>9. CASE LoginRefused
  <2>1. authPast'.late = authPast.late /\ authPast'.should = authPast.should
    BY <1>9 DEF LoginRefused, Past, AuthTyped, PastState
  <2> QED
    BY <1>1, <1>2, <1>9, <2>1 DEF LoginRefused, SessionIInv
<1>10. ASSUME NEW c \in ApiCalls, CallSent(c) \/ CallAnswered(c) \/ CallLost(c)
       PROVE  SessionIInv'
  <2>1. WaitersHaveRefresh'
    BY <1>0, <1>10 DEF CallSent, CallAnswered, CallLost, WaitersHaveRefresh, AuthTyped
  <2> QED
    BY <1>1, <1>10, <2>1 DEF CallSent, CallAnswered, CallLost, SessionIInv
<1>11. CASE LoginTaken
  <2> DEFINE u == login.who
             t == NewToken(u)
  <2>1. u \in Accounts /\ t # NoToken /\ t.who = u
    BY <1>11, AuthFields, TokenFacts DEF LoginTaken, AuthTyped
  <2>2. ses'.acc = t /\ ses'.ref = t /\ ses'.user \in {u, Nobody} /\ ses'.offline = FALSE
    BY <1>11 DEF LoginTaken, SignedIn
  <2>3. rfr' = rfr /\ calls' = calls /\ (authPast'.late = (authPast.late \/ rfr # NoToken))
    <3> DEFINE p == [authPast EXCEPT !.taken = @ \union {<<login.who, login.pw>>}, !.refused = @ \ {<<login.who, login.pw>>}, !.out = FALSE]
    <3>1. authPast' = Late(p) /\ rfr' = rfr /\ calls' = calls
      BY <1>11 DEF LoginTaken
    <3>2. p.late = authPast.late /\ Late(p).late = (p.late \/ rfr # NoToken)
      BY <1>a DEF Late, PastState
    <3> QED
      BY <3>1, <3>2
  <2> HIDE DEF u, t
  <2>4. Paired' /\ RefreshIsOurs' /\ OutageKeepsSession'
    BY <2>1, <2>2, <2>3 DEF Paired, RefreshIsOurs, OutageKeepsSession, isAuthenticated
  <2>5. TokensOfUser'
    BY <2>1, <2>2 DEF TokensOfUser
  <2> QED
    BY <1>2, <2>3, <2>4, <2>5 DEF SessionIInv
<1>12. ASSUME NEW ok \in BOOLEAN, ProfileRead(ok)
       PROVE  SessionIInv'
  <2>0. WaitersHaveRefresh' /\ rfr' = rfr
    BY <1>2, <1>12 DEF ProfileRead
  <2>1. CASE ses' = SignedOut /\ authPast' = Late([authPast EXCEPT !.should = FALSE])
    BY <1>a, <1>b, <2>0, <2>1, LatePast, SignedOutKeeps DEF SessionIInv
  <2>2. CASE /\ (IF ok /\ ses.acc # NoToken THEN ses.acc.who ELSE ses.user) # Nobody
             /\ ses' = [ses EXCEPT !.user = IF ok /\ ses.acc # NoToken THEN ses.acc.who ELSE ses.user]
             /\ authPast' = [authPast EXCEPT !.should = TRUE]
    <3>1. /\ ses'.acc = ses.acc /\ ses'.ref = ses.ref /\ ses'.offline = ses.offline /\ ses'.user # Nobody
          /\ (ses'.user = ses.user \/ (ses.acc # NoToken /\ ses'.user = ses.acc.who)) /\ authPast'.late = authPast.late
      BY <2>2 DEF AuthTyped, SesState, PastState
    <3>2. isAuthenticated(ses)
      BY <1>0, <3>1 DEF Paired, isAuthenticated
    <3>3. Paired' /\ RefreshIsOurs' /\ OutageKeepsSession'
      BY <1>0, <2>0, <3>1, <3>2 DEF Paired, RefreshIsOurs, OutageKeepsSession, isAuthenticated
    <3>4. TokensOfUser'
      BY <1>0, <3>1 DEF TokensOfUser
    <3> QED
      BY <2>0, <3>3, <3>4 DEF SessionIInv
  <2> QED
    BY <1>12, <2>1, <2>2 DEF ProfileRead, Past
<1>13. CASE OfflineVerified
  <2>0. WaitersHaveRefresh' /\ rfr' = rfr /\ login.who \in Accounts
    BY <1>2, <1>13 DEF OfflineVerified, AuthTyped
  <2>1. CASE UNCHANGED <<ses, route, authPast>>
    BY <1>1, <2>0, <2>1 DEF SessionIInv
  <2>2. CASE /\ ses' = [SignedOut EXCEPT !.user = login.who, !.offline = TRUE]
             /\ authPast' = Late([authPast EXCEPT !.should = TRUE, !.out = FALSE])
    <3>1. ses'.acc = NoToken /\ ses'.ref = NoToken /\ ses'.offline = TRUE /\ ses'.user = login.who
      BY <2>2 DEF SignedOut
    <3>2. authPast'.late = (authPast.late \/ rfr # NoToken)
      BY <1>a, <2>2, LatePast DEF PastState
    <3>3. login.who # Nobody
      BY <2>0, AuthAssumption DEF Nobody
    <3>4. Paired' /\ RefreshIsOurs' /\ OutageKeepsSession' /\ TokensOfUser'
      BY <2>0, <3>1, <3>2, <3>3 DEF Paired, RefreshIsOurs, OutageKeepsSession, TokensOfUser, isAuthenticated
    <3> QED
      BY <2>0, <3>4 DEF SessionIInv
  <2> QED
    BY <1>13, <2>1, <2>2 DEF OfflineVerified
<1>14. ASSUME Unauthorized, rfr' = rfr
       PROVE  Paired' /\ RefreshIsOurs' /\ TokensOfUser' /\ OutageKeepsSession'
  <2>1. CASE UNCHANGED <<ses, route, authPast>>
    BY <1>1, <1>14, <2>1
  <2>2. CASE ses' = SignedOut /\ authPast' = Late([authPast EXCEPT !.should = FALSE])
    BY <1>a, <1>b, <1>14, <2>2, LatePast, SignedOutKeeps
  <2> QED
    BY <1>14, <2>1, <2>2 DEF Unauthorized
<1>15. ASSUME NEW c \in ApiCalls, CallRefused(c)
       PROVE  SessionIInv'
  <2>1. CASE /\ ses.ref # NoToken /\ calls' = [calls EXCEPT ![c] = "waits"]
             /\ rfr' = (IF Joins THEN rfr ELSE ses.ref) /\ UNCHANGED <<ses, route, authPast>>
    <3>1. rfr' # NoToken /\ (rfr' = rfr \/ rfr' = ses.ref)
      BY <2>1 DEF Joins
    <3>2. WaitersHaveRefresh'
      BY <3>1 DEF WaitersHaveRefresh
    <3>3. Paired' /\ TokensOfUser' /\ OutageKeepsSession'
      BY <1>0, <2>1 DEF Paired, TokensOfUser, OutageKeepsSession, isAuthenticated
    <3>4. RefreshIsOurs'
      BY <1>0, <2>1 DEF RefreshIsOurs, Joins
    <3> QED
      BY <3>2, <3>3, <3>4 DEF SessionIInv
  <2>2. CASE calls' = [calls EXCEPT ![c] = "none"] /\ rfr' = rfr /\ Unauthorized
    <3>1. WaitersHaveRefresh'
      BY <1>0, <2>2 DEF WaitersHaveRefresh, AuthTyped
    <3> QED
      BY <1>14, <2>2, <3>1 DEF SessionIInv
  <2> QED
    BY <1>15, <2>1, <2>2 DEF CallRefused
<1>16. ASSUME NEW c \in ApiCalls, CallCut(c)
       PROVE  SessionIInv'
  <2>1. WaitersHaveRefresh'
    BY <1>0, <1>16 DEF CallCut, CutSettles, WaitersHaveRefresh, AuthTyped
  <2> QED
    BY <1>14, <1>16, <2>1 DEF CallCut, SessionIInv
<1>17. ASSUME NEW ok \in BOOLEAN, NEW s, calls' = Resumed(ok, s)
       PROVE  WaitersHaveRefresh'
  BY <1>17 DEF Resumed, WaitersHaveRefresh
<1>18. CASE RefreshTaken
  <2> DEFINE t == NewToken(rfr.who)
  <2>1. rfr \in AnyToken /\ rfr.who \in Accounts /\ rfr # NoToken
    BY <1>18, AuthFields, TokenFacts DEF RefreshTaken, AnyToken
  <2>2. t # NoToken /\ t.who = rfr.who
    BY <2>1, AuthFields, TokenFacts
  <2>3. ses'.acc = t /\ ses'.ref = t /\ ses'.user = ses.user /\ ses'.offline = ses.offline
    BY <1>18 DEF RefreshTaken, AuthTyped, SesState
  <2>4. rfr' = NoToken /\ authPast' = authPast
    BY <1>18 DEF RefreshTaken
  <2> HIDE DEF t
  <2>5. Paired' /\ RefreshIsOurs' /\ OutageKeepsSession'
    BY <2>2, <2>3, <2>4 DEF Paired, RefreshIsOurs, OutageKeepsSession, isAuthenticated
  <2>6. TokensOfUser'
    <3>1. CASE authPast.late
      BY <2>4, <3>1 DEF TokensOfUser
    <3>2. CASE ~authPast.late
      <4>1. rfr = ses.ref /\ ses.acc = rfr
        BY <1>0, <2>1, <3>2 DEF RefreshIsOurs, Paired
      <4>2. ~ses.offline /\ (ses.user # Nobody => rfr.who = ses.user)
        BY <1>0, <2>1, <3>2, <4>1 DEF TokensOfUser
      <4> QED
        BY <2>2, <2>3, <4>2 DEF TokensOfUser
    <3> QED
      BY <3>1, <3>2
  <2> QED
    BY <1>17, <1>18, <2>5, <2>6 DEF RefreshTaken, SessionIInv
<1>19. CASE RefreshLost
  <2>1. Paired' /\ TokensOfUser' /\ OutageKeepsSession' /\ RefreshIsOurs'
    BY <1>0, <1>19 DEF RefreshLost, AfterLoss, Paired, TokensOfUser, OutageKeepsSession, RefreshIsOurs, isAuthenticated
  <2> QED
    BY <1>17, <1>19, <2>1 DEF RefreshLost, SessionIInv
<1>20. CASE RefreshRefused
  <2>1. ses' = SignedOut /\ rfr' = NoToken /\ authPast'.should = FALSE
    BY <1>b, <1>20 DEF RefreshRefused, Past
  <2> QED
    BY <1>17, <1>20, <2>1, SignedOutKeeps DEF RefreshRefused, SessionIInv
<1>21. CASE Logout
  <2>1. ses' = SignedOut /\ rfr' = rfr /\ authPast' = Late([authPast EXCEPT !.should = FALSE, !.out = TRUE])
    BY <1>21 DEF Logout
  <2>2. authPast'.should = FALSE /\ authPast'.late = (authPast.late \/ rfr # NoToken)
    BY <1>a, <1>b, <2>1, LatePast
  <2> QED
    BY <1>2, <1>21, <2>1, <2>2, SignedOutKeeps DEF Logout, SessionIInv
<1>22. CASE Navigate
  <2>1. rfr' = rfr /\ WaitersHaveRefresh'
    BY <1>2, <1>22 DEF Navigate
  <2>2. CASE ses' = ses
    BY <1>1, <1>22, <2>1, <2>2 DEF Navigate, SessionIInv
  <2>3. CASE ses' # ses
    <3>1. ses' = SignedOut /\ authPast' = Late([authPast EXCEPT !.should = FALSE])
      BY <1>22, <2>3 DEF Navigate, Checked
    <3>2. authPast'.should = FALSE /\ authPast'.late = (authPast.late \/ rfr # NoToken)
      BY <1>a, <1>b, <3>1, LatePast
    <3> QED
      BY <2>1, <3>1, <3>2, SignedOutKeeps DEF SessionIInv
  <2> QED
    BY <2>2, <2>3
<1>23. CASE UNCHANGED authVars
  BY <1>1, <1>2, <1>23 DEF authVars, SessionIInv
<1> QED
  BY <1>3, <1>4, <1>5, <1>6, <1>7, <1>8, <1>9, <1>10, <1>11, <1>12, <1>13, <1>15, <1>16, <1>18, <1>19, <1>20, <1>21, <1>22, <1>23
     DEF AuthNext

(***************************************************************************)
(* The vault.                                                              *)
(***************************************************************************)
LEMMA AuthNextVault == AuthTyped /\ VaultIInv /\ [AuthNext]_authVars => VaultIInv'
<1> SUFFICES ASSUME AuthTyped, VaultIInv, [AuthNext]_authVars
             PROVE  VaultIInv'
  OBVIOUS
<1>0. EnrollsTaken /\ MatchIsRefused /\ RefusedIsForgotten /\ OfflineWasOnline
  BY DEF VaultIInv
<1>a. /\ authPast \in PastState /\ [authPast EXCEPT !.should = FALSE] \in PastState /\ [authPast EXCEPT !.should = TRUE, !.out = FALSE] \in PastState
      /\ [authPast EXCEPT !.should = FALSE, !.out = TRUE] \in PastState /\ [authPast EXCEPT !.should = TRUE] \in PastState
  BY DEF AuthTyped, PastState
\* NoPw was never taken nor refused.
<1>b. \A u : <<u, NoPw>> \notin authPast.refused
  BY AuthFields, AuthAssumption DEF NoPw
<1>c. vault \in [Accounts -> VaultEntry] /\ login \in LoginState
  BY DEF AuthTyped
\* The sign-in and the history of passwords stay; entries may be forgotten.
<1>1. ASSUME UNCHANGED <<login, vault>>, authPast'.taken = authPast.taken, authPast'.refused = authPast.refused
      PROVE  VaultIInv'
  BY <1>0, <1>1 DEF VaultIInv, EnrollsTaken, MatchIsRefused, RefusedIsForgotten, OfflineWasOnline
<1>2. ASSUME login' = login, authPast'.taken = authPast.taken, authPast'.refused = authPast.refused,
             \A u \in Accounts : vault'[u].pw \in {vault[u].pw, NoPw}
      PROVE  VaultIInv'
  <2>1. EnrollsTaken'
    BY <1>0, <1>2 DEF EnrollsTaken
  <2>2. MatchIsRefused'
    <3> SUFFICES ASSUME login.at = "match", <<login.who, vault'[login.who].pw>> \in authPast.refused
                 PROVE  vault'[login.who].pw = login.pw
      BY <1>2 DEF MatchIsRefused
    <3>1. login.who \in Accounts
      BY DEF AuthTyped
    <3> QED
      BY <1>0, <1>b, <1>2, <3>1 DEF MatchIsRefused
  <2>3. RefusedIsForgotten' /\ OfflineWasOnline'
    BY <1>0, <1>b, <1>2 DEF RefusedIsForgotten, OfflineWasOnline
  <2> QED
    BY <2>1, <2>2, <2>3 DEF VaultIInv
\* A sign-in of its first or last step has nothing to keep.
<1>3. ASSUME login'.at \in {"none", "post", "verify"}, login.at # "match", vault' = vault,
             authPast'.taken = authPast.taken, authPast'.refused = authPast.refused
      PROVE  VaultIInv'
  BY <1>0, <1>3 DEF VaultIInv, EnrollsTaken, MatchIsRefused, RefusedIsForgotten, OfflineWasOnline
<1>4. \A b \in BOOLEAN : [authPast EXCEPT !.should = b].taken = authPast.taken /\ [authPast EXCEPT !.should = b].refused = authPast.refused
  BY <1>a DEF PastState
<1>5. ASSUME NEW u \in Accounts, NEW p \in Passwords, PasswordChanges(u, p)
      PROVE  VaultIInv'
  BY <1>1, <1>5 DEF PasswordChanges
<1>6. ASSUME NEW u \in Accounts, NEW p \in Passwords, NEW re \in BOOLEAN, LoginStarts(u, p, re)
      PROVE  VaultIInv'
  <2>1. login.at = "none" /\ login'.at = "post" /\ vault' = vault
    BY <1>6 DEF LoginStarts, NoLogin
  <2>2. authPast'.taken = authPast.taken /\ authPast'.refused = authPast.refused
    BY <1>a, <1>6 DEF LoginStarts, Past, PastState
  <2> QED
    BY <1>3, <2>1, <2>2
<1>7. ASSUME NEW b \in BOOLEAN, Reachable(b)
      PROVE  VaultIInv'
  BY <1>1, <1>7 DEF Reachable
<1>8. ASSUME NEW t, TokenExpires(t) \/ SessionEnded(t)
      PROVE  VaultIInv'
  BY <1>1, <1>4, <1>8 DEF TokenExpires, SessionEnded, Past
<1>9. ASSUME NEW u \in Accounts, EntryAges(u) \/ ForgetAccount(u)
      PROVE  VaultIInv'
  <2>1. login' = login /\ authPast'.taken = authPast.taken /\ authPast'.refused = authPast.refused
    BY <1>a, <1>9 DEF EntryAges, ForgetAccount, Past, PastState
  <2>2. vault' = [vault EXCEPT ![u] = [vault[u] EXCEPT !.fresh = FALSE]] \/ vault' = [vault EXCEPT ![u] = [pw |-> NoPw, fresh |-> FALSE]]
    BY <1>9, Zenon DEF EntryAges, ForgetAccount, Forgotten
  <2>3. \A v \in Accounts : vault'[v].pw \in {vault[v].pw, NoPw}
    BY <1>c, <2>2 DEF VaultEntry
  <2> QED
    BY <1>2, <2>1, <2>3
<1>10. CASE LoginTaken
  <2> DEFINE x == <<login.who, login.pw>>
             p == [authPast EXCEPT !.taken = @ \union {x}, !.refused = @ \ {x}, !.out = FALSE]
  <2>1. p.taken = authPast.taken \union {x} /\ p.refused = authPast.refused \ {x} /\ Late(p).taken = p.taken /\ Late(p).refused = p.refused
    BY <1>a DEF Late, PastState
  <2>2. authPast'.taken = authPast.taken \union {x} /\ authPast'.refused = authPast.refused \ {x}
    BY <1>10, <2>1 DEF LoginTaken
  <2>3. login.at = "post" /\ login'.at = "profile" /\ login'.who = login.who /\ login'.pw = login.pw /\ vault' = vault
    BY <1>c, <1>10 DEF LoginTaken, LoginState
  <2> HIDE DEF p
  <2> QED
    BY <1>0, <2>2, <2>3 DEF VaultIInv, EnrollsTaken, MatchIsRefused, RefusedIsForgotten, OfflineWasOnline
<1>11. ASSUME NEW ok \in BOOLEAN, ProfileRead(ok)
       PROVE  VaultIInv'
  <2>1. login.at = "profile" /\ vault' = vault
    BY <1>11 DEF ProfileRead
  <2>2. \/ login' = NoLogin /\ authPast' = Late([authPast EXCEPT !.should = FALSE])
        \/ login' = [login EXCEPT !.at = "enroll"] /\ authPast' = [authPast EXCEPT !.should = TRUE]
    BY <1>11 DEF ProfileRead, Past
  <2>3. authPast'.taken = authPast.taken /\ authPast'.refused = authPast.refused
    BY <1>a, <1>4, <2>2, LatePast
  <2>4. login'.at = "none" \/ (login'.at = "enroll" /\ login'.who = login.who /\ login'.pw = login.pw)
    BY <1>c, <2>2 DEF NoLogin, LoginState
  <2> QED
    BY <1>0, <2>1, <2>3, <2>4 DEF VaultIInv, EnrollsTaken, MatchIsRefused, RefusedIsForgotten, OfflineWasOnline
<1>12. CASE Enrolled
  <2>1. login.at = "enroll" /\ login'.at = "none" /\ authPast' = authPast
    BY <1>12 DEF Enrolled, NoLogin
  <2>2. \A u \in Accounts : vault'[u].pw = IF u = login.who THEN login.pw ELSE vault[u].pw
    BY <1>c, <1>12 DEF Enrolled
  <2> QED
    BY <1>0, <2>1, <2>2 DEF VaultIInv, EnrollsTaken, MatchIsRefused, RefusedIsForgotten, OfflineWasOnline
<1>13. CASE LoginRefused
  <2>1. login.at = "post" /\ vault' = vault
    BY <1>13 DEF LoginRefused
  <2>2. authPast'.taken = authPast.taken
        /\ authPast'.refused = IF login.re THEN authPast.refused ELSE authPast.refused \union {<<login.who, login.pw>>}
    BY <1>a, <1>13 DEF LoginRefused, Past, PastState
  <2>3. CASE login.re
    BY <1>3, <1>13, <2>1, <2>2, <2>3 DEF LoginRefused, AfterRefusal, NoLogin
  <2>4. CASE ~login.re
    <3>1. login'.at = "match" /\ login'.who = login.who /\ login'.pw = login.pw
      BY <1>c, <1>13, <2>4 DEF LoginRefused, AfterRefusal, LoginState
    <3> DEFINE x == <<login.who, login.pw>>
    <3>2. authPast'.refused = authPast.refused \union {x}
      BY <2>2, <2>4
    <3>3. EnrollsTaken' /\ OfflineWasOnline'
      BY <1>0, <2>1, <2>2, <3>1 DEF EnrollsTaken, OfflineWasOnline
    <3>4. \A u \in Accounts : <<u, vault[u].pw>> \notin authPast.refused
      BY <1>0, <2>1 DEF RefusedIsForgotten
    <3>5. RefusedIsForgotten'
      BY <2>1, <3>1, <3>2, <3>4 DEF RefusedIsForgotten
    <3>6. MatchIsRefused'
      <4>1. login.who \in Accounts
        BY <2>1 DEF AuthTyped
      <4>2. <<login.who, vault[login.who].pw>> \notin authPast.refused
        BY <3>4, <4>1
      <4> QED
        BY <2>1, <3>1, <3>2, <4>2 DEF MatchIsRefused
    <3> QED
      BY <3>3, <3>5, <3>6 DEF VaultIInv
  <2> QED
    BY <2>3, <2>4
<1>14. CASE MatchRead
  <2>1. login.at = "match" /\ login'.at = "none" /\ authPast' = authPast /\ login.who \in Accounts
    BY <1>14 DEF MatchRead, NoLogin, AuthTyped
  <2>2. \A u \in Accounts : vault'[u].pw = IF u = login.who /\ vault[u].pw = login.pw THEN NoPw ELSE vault[u].pw
    BY <1>c, <1>14, <2>1 DEF MatchRead, Forgotten
  <2> QED
    BY <1>0, <1>b, <2>1, <2>2 DEF VaultIInv, EnrollsTaken, MatchIsRefused, RefusedIsForgotten, OfflineWasOnline
<1>15. CASE LoginLost
  <2>1. login.at = "post" /\ login'.at \in {"none", "verify"} /\ vault' = vault /\ authPast' = authPast
    BY <1>c, <1>15 DEF LoginLost, NoLogin, LoginState
  <2> QED
    BY <1>3, <2>1
<1>16. CASE OfflineVerified
  <2>1. login.at = "verify" /\ login'.at = "none" /\ vault' = vault
    BY <1>16 DEF OfflineVerified, NoLogin
  <2>2. authPast' = authPast \/ authPast' = Late([authPast EXCEPT !.should = TRUE, !.out = FALSE])
    BY <1>16 DEF OfflineVerified
  <2>3. authPast'.taken = authPast.taken /\ authPast'.refused = authPast.refused
    BY <1>a, <2>2, LatePast DEF PastState
  <2> QED
    BY <1>3, <2>1, <2>3
<1>17. CASE WaitOver \/ RefreshLost
  BY <1>1, <1>17 DEF WaitOver, RefreshLost
<1>18. ASSUME NEW c \in ApiCalls, CallSent(c) \/ CallAnswered(c) \/ CallLost(c)
       PROVE  VaultIInv'
  BY <1>1, <1>18 DEF CallSent, CallAnswered, CallLost
<1>19. ASSUME NEW c \in ApiCalls, CallRefused(c) \/ CallCut(c)
       PROVE  VaultIInv'
  <2>1. UNCHANGED <<login, vault>> /\ (authPast' = authPast \/ authPast' = Late([authPast EXCEPT !.should = FALSE]))
    BY <1>19 DEF CallRefused, CallCut, Unauthorized
  <2>2. authPast'.taken = authPast.taken /\ authPast'.refused = authPast.refused
    BY <1>a, <1>4, <2>1, LatePast
  <2> QED
    BY <1>1, <2>1, <2>2
<1>20. CASE RefreshTaken
  <2>1. login' = login /\ authPast' = authPast
    BY <1>20 DEF RefreshTaken
  <2>2. vault' = vault \/ vault' = [vault EXCEPT ![ses.user] = [vault[ses.user] EXCEPT !.fresh = TRUE]]
    BY <1>20 DEF RefreshTaken
  <2>3. \A u \in Accounts : vault'[u].pw = vault[u].pw
    BY <1>c, <2>2 DEF VaultEntry
  <2> QED
    BY <1>2, <2>1, <2>3
<1>21. CASE RefreshRefused
  BY <1>1, <1>4, <1>21 DEF RefreshRefused, Past
<1>22. CASE Logout \/ Navigate
  <2>1. UNCHANGED <<login, vault>> /\ (authPast' = authPast \/ authPast' = Late([authPast EXCEPT !.should = FALSE])
                                       \/ authPast' = Late([authPast EXCEPT !.should = FALSE, !.out = TRUE]))
    BY <1>22 DEF Logout, Navigate
  <2>2. authPast'.taken = authPast.taken /\ authPast'.refused = authPast.refused
    BY <1>a, <2>1, LatePast DEF PastState
  <2> QED
    BY <1>1, <2>1, <2>2
<1>23. CASE UNCHANGED authVars
  BY <1>1, <1>23 DEF authVars
<1> QED
  BY <1>5, <1>6, <1>7, <1>8, <1>9, <1>10, <1>11, <1>12, <1>13, <1>14, <1>15, <1>16, <1>17, <1>18, <1>19, <1>20, <1>21, <1>22, <1>23
     DEF AuthNext

LEMMA AuthInitIInv == AuthInit => AuthIInv
<1> SUFFICES ASSUME AuthInit
             PROVE  AuthIInv
  OBVIOUS
<1>1. /\ ses = SignedOut /\ login = NoLogin /\ rfr = NoToken /\ calls = [c \in ApiCalls |-> "none"]
      /\ vault = [u \in Accounts |-> [pw |-> NoPw, fresh |-> FALSE]] /\ lock = [fails |-> 0, wait |-> FALSE] /\ route = "login"
      /\ auth = [pw |-> [u \in Accounts |-> CHOOSE p \in Passwords : TRUE], acc |-> {}, ref |-> {}, up |-> TRUE, n |-> 0]
      /\ authPast = [logins |-> 0, taken |-> {}, refused |-> {}, should |-> FALSE, late |-> FALSE, out |-> TRUE]
  BY DEF AuthInit
<1>2. login \in LoginState /\ login.at = "none" /\ lock \in LockState
  BY <1>1, AuthAssumption DEF NoLogin, LoginState, LockState
<1>3. vault \in [Accounts -> VaultEntry]
  BY <1>1 DEF VaultEntry
<1>4. auth \in ServerState
  <2>1. (CHOOSE p \in Passwords : TRUE) \in Passwords
    BY AuthAssumption
  <2> QED
    BY <1>1, <2>1 DEF ServerState
<1>5. authPast \in PastState
  BY <1>1 DEF PastState
<1>6. AuthTyped
  BY <1>1, <1>2, <1>3, <1>4, <1>5, TokenFacts DEF AuthTyped
<1>7. authPast.should = FALSE /\ authPast.refused = {}
  BY <1>1
<1>8. SessionIInv
  BY <1>1, <1>7, TokenFacts DEF SessionIInv, Paired, RefreshIsOurs, TokensOfUser, OutageKeepsSession, WaitersHaveRefresh
<1>9. VaultIInv
  BY <1>1, <1>2, <1>7 DEF VaultIInv, EnrollsTaken, MatchIsRefused, RefusedIsForgotten, OfflineWasOnline
<1> QED
  BY <1>6, <1>8, <1>9 DEF AuthIInv

LEMMA AuthNextIInv == AuthIInv /\ [AuthNext]_authVars => AuthIInv'
BY AuthNextTyped, AuthNextSession, AuthNextVault DEF AuthIInv

\* What the invariant says of the session to its user.
LEMMA AuthHolds == AuthIInv => AuthTypeOK /\ TokensOfUser /\ RefusedIsForgotten /\ OfflineWasOnline /\ OutageKeepsSession
<1> SUFFICES ASSUME AuthIInv
             PROVE  AuthTypeOK
  BY DEF AuthIInv, SessionIInv, VaultIInv
<1>1. AuthTyped /\ WaitersHaveRefresh
  BY DEF AuthIInv, SessionIInv
<1>2. ses.user \in Accounts \union {Nobody} /\ ses.offline \in BOOLEAN
  BY <1>1, AuthFields
<1>3. login.at \in {"none", "post", "profile", "enroll", "match", "verify"} /\ lock.fails \in 0..(FreeAttempts + 1)
  BY <1>1 DEF AuthTyped, LoginState, LockState
<1>4. (\A c \in ApiCalls : calls[c] \in {"none", "sent", "waits", "again", "cut"}) /\ route \in {"login", "app"}
  BY <1>1 DEF AuthTyped
<1> QED
  BY <1>1, <1>2, <1>3, <1>4 DEF AuthTypeOK, WaitersHaveRefresh

\* Only verifyOfflineLogin() opens an offline session.
LEMMA OfflineOpened ==
  ASSUME AuthIInv, AuthNext, ses'.offline, ~ses.offline
  PROVE  vault[login.who].pw = login.pw /\ vault[login.who].fresh /\ ~lock.wait
<1>1. AuthTyped /\ ses \in SesState
  BY DEF AuthIInv, AuthTyped
<1>2. CASE OfflineVerified
  BY <1>2 DEF OfflineVerified, Verified, offlineEntryValid
<1>3. ASSUME ses' = SignedOut
      PROVE  FALSE
  BY <1>3, TokenFacts
<1>4. ASSUME LoginTaken \/ RefreshTaken
      PROVE  FALSE
  <2>1. CASE LoginTaken
    <3>1. ses'.offline = FALSE
      BY <2>1 DEF LoginTaken, SignedIn
    <3> QED
      BY <3>1
  <2>2. CASE RefreshTaken
    <3>1. ses'.offline = ses.offline
      BY <1>1, <2>2 DEF RefreshTaken, SesState
    <3> QED
      BY <3>1
  <2> QED
    BY <1>4, <2>1, <2>2
<1>5. ASSUME NEW ok \in BOOLEAN, ProfileRead(ok)
      PROVE  FALSE
  BY <1>1, <1>3, <1>5 DEF ProfileRead, SesState
<1>6. ses' # ses
  OBVIOUS
<1> QED
  BY <1>2, <1>3, <1>4, <1>5, <1>6
     DEF AuthNext, PasswordChanges, LoginStarts, Reachable, TokenExpires, SessionEnded, EntryAges, ForgetAccount, Enrolled, LoginRefused,
         MatchRead, LoginLost, WaitOver, CallSent, CallAnswered, CallLost, CallRefused, CallCut, Unauthorized, RefreshLost, AfterLoss,
         RefreshRefused, Logout, Navigate, Checked

----------------------------------------------------------------------------
(* THE ACCESS GUARD.                                                       *)
(* GuardIInv keeps what a request that passed its check may still write:   *)
(* editors and owners are remembered, so a write between the check and its *)
(* own write cannot take the grant away.                                   *)

Owned == Members \union {NoOwner}
Request == [by : Members \union {""}, kind : {"", "co", "owner", "link"}, keys : SUBSET Samples, to : Members \union {""}, ok : BOOLEAN]
GuardState == [owner : [Samples -> Owned], co : [Samples -> SUBSET Members], camp : Members, links : SUBSET Samples,
               req : [Members -> Request], everOwner : [Samples -> SUBSET Owned], everEdits : [Samples -> SUBSET Owned], writes : Nat]

\* Who owns or may edit a sample is remembered.
EditorsKnown ==
    \A s \in Samples : grd.owner[s] \in grd.everOwner[s] /\ grd.owner[s] \in grd.everEdits[s] /\ grd.co[s] \subseteq grd.everEdits[s]

\* What a checked request may still write, whatever was written since.
Granted(g, u, r) ==
    r.ok => /\ r.kind \in {"co", "link"} => \A s \in r.keys : r.keys = {s} /\ u \in g.everEdits[s]
            /\ r.kind = "owner" => \A s \in r.keys : u \in g.everEdits[s] /\ (u \in g.everOwner[s] \/ r.to \in g.everOwner[s])
            /\ r.kind = "link" => u = g.camp

Requested == \A u \in Members : grd.req[u] # NoReq => grd.req[u].kind # "" /\ grd.req[u].keys # {}
                                                    /\ grd.req[u].to \in Members /\ Granted(grd, u, grd.req[u])
GuardIInv == grd \in GuardState /\ EditorsKnown /\ Requested

LEMMA GuardFields ==
  ASSUME grd \in GuardState
  PROVE  /\ grd.owner \in [Samples -> Owned] /\ grd.co \in [Samples -> SUBSET Members] /\ grd.camp \in Members
         /\ grd.links \subseteq Samples /\ grd.req \in [Members -> Request] /\ grd.everOwner \in [Samples -> SUBSET Owned]
         /\ grd.everEdits \in [Samples -> SUBSET Owned] /\ grd.writes \in Nat
BY DEF GuardState

LEMMA OneMore == \A n \in Nat : n + 1 \in Nat
OBVIOUS

LEMMA SetOne ==
  ASSUME NEW D, NEW R, NEW f \in [D -> R], NEW d \in D, NEW v \in R
  PROVE  /\ [f EXCEPT ![d] = v] \in [D -> R] /\ [f EXCEPT ![d] = v][d] = v
         /\ \A e \in D \ {d} : [f EXCEPT ![d] = v][e] = f[e]
OBVIOUS

\* A check puts a request down and writes nothing.
LEMMA CheckKeeps ==
  ASSUME GuardIInv, NEW u \in Members, NEW r \in Request, r.kind # "", r.keys # {}, r.to \in Members, Granted(grd, u, r), grd.req[u] = NoReq,
         grd' = [grd EXCEPT !.req[u] = r, !.writes = @ + 1]
  PROVE  GuardIInv' /\ grd'.owner = grd.owner /\ grd'.co = grd.co /\ grd'.links = grd.links
<1> DEFINE m == grd.writes + 1
           q == [grd.req EXCEPT ![u] = r]
<1>1. grd \in GuardState /\ EditorsKnown /\ Requested
  BY DEF GuardIInv
<1>2. m \in Nat /\ q \in [Members -> Request] /\ q[u] = r /\ \A v \in Members \ {u} : q[v] = grd.req[v]
  <2>1. grd.writes \in Nat /\ grd.req \in [Members -> Request]
    BY <1>1, GuardFields, Zenon
  <2>2. m \in Nat
    BY <2>1, OneMore, Zenon
  <2>3. q \in [Members -> Request] /\ q[u] = r /\ \A v \in Members \ {u} : q[v] = grd.req[v]
    BY <2>1, SetOne, Zenon
  <2> QED
    BY <2>2, <2>3, Zenon
<1>3. grd' = [grd EXCEPT !.req = q, !.writes = m]
  OBVIOUS
<1> HIDE DEF m, q
<1>4. grd' \in GuardState
  BY <1>1, <1>2, <1>3 DEF GuardState
<1>5. /\ grd'.owner = grd.owner /\ grd'.co = grd.co /\ grd'.links = grd.links /\ grd'.camp = grd.camp /\ grd'.req = q
      /\ grd'.everOwner = grd.everOwner /\ grd'.everEdits = grd.everEdits
  BY <1>1, <1>3 DEF GuardState
<1>6. EditorsKnown'
  BY <1>1, <1>5 DEF EditorsKnown
<1>7. \A v, x : Granted(grd, v, x) => Granted(grd', v, x)
  BY <1>5 DEF Granted
<1>8. Requested'
  <2> SUFFICES ASSUME NEW v \in Members, grd'.req[v] # NoReq
               PROVE  grd'.req[v].kind # "" /\ grd'.req[v].keys # {} /\ grd'.req[v].to \in Members /\ Granted(grd', v, grd'.req[v])
    BY DEF Requested
  <2>1. CASE v = u
    BY <1>2, <1>5, <1>7, <2>1
  <2>2. CASE v # u
    BY <1>1, <1>2, <1>5, <1>7, <2>2 DEF Requested
  <2> QED
    BY <2>1, <2>2
<1> QED
  BY <1>4, <1>5, <1>6, <1>8 DEF GuardIInv

\* What a step may grant, and by whose request.
WrittenBy == {u \in Members : grd.req[u] # NoReq /\ grd'.req[u] = NoReq}
GrantsStep ==
    \A s \in Samples :
        /\ grd.owner[s] # NoOwner /\ grd'.owner[s] # grd.owner[s] =>
                /\ WrittenBy # {} /\ WrittenBy \subseteq grd.everEdits[s]
                /\ WrittenBy \subseteq grd.everOwner[s] \/ grd'.owner[s] \in grd.everOwner[s]
        /\ grd.owner[s] # NoOwner /\ ~(grd'.co[s] \subseteq grd.co[s]) => WrittenBy # {} /\ WrittenBy \subseteq grd.everEdits[s]
        /\ s \in grd'.links \ grd.links => WrittenBy = {grd.camp} /\ grd.camp \in grd.everEdits[s]

LEMMA NothingGranted ==
  ASSUME grd'.owner = grd.owner, grd'.co = grd.co, grd'.links = grd.links
  PROVE  GrantsStep
BY DEF GrantsStep

\* A write that only adds to what is remembered keeps what the checked requests may do.
LEMMA WriteKeeps ==
  ASSUME GuardIInv, grd' \in GuardState, EditorsKnown', grd'.camp = grd.camp,
         \A s \in Samples : grd.everOwner[s] \subseteq grd'.everOwner[s] /\ grd.everEdits[s] \subseteq grd'.everEdits[s],
         \A u \in Members : grd'.req[u] = NoReq \/ grd'.req[u] = grd.req[u]
  PROVE  GuardIInv'
<1>1. grd \in GuardState /\ Requested
  BY DEF GuardIInv
<1>2. Requested'
  <2> SUFFICES ASSUME NEW v \in Members, grd'.req[v] # NoReq
               PROVE  grd'.req[v].kind # "" /\ grd'.req[v].keys # {} /\ grd'.req[v].to \in Members /\ Granted(grd', v, grd'.req[v])
    BY DEF Requested
  <2> DEFINE r == grd.req[v]
  <2>1. grd'.req[v] = r
    OBVIOUS
  <2>2. r.kind # "" /\ r.keys # {} /\ r.to \in Members /\ Granted(grd, v, r)
    BY <1>1, <2>1 DEF Requested
  <2>3. r.keys \subseteq Samples
    BY <1>1, GuardFields DEF Request
  <2> HIDE DEF r
  <2>4. Granted(grd', v, r)
    BY <2>2, <2>3 DEF Granted
  <2> QED
    BY <2>1, <2>2, <2>4
<1> QED
  BY <1>2 DEF GuardIInv

LEMMA GuardStarts == GrdInit => GuardIInv
<1> SUFFICES ASSUME NEW o \in [Samples -> Owned], NEW m \in Members,
                    grd = [owner |-> o, co |-> [s \in Samples |-> {}], camp |-> m, links |-> {}, req |-> [u \in Members |-> NoReq],
                           everOwner |-> [s \in Samples |-> {o[s]}], everEdits |-> [s \in Samples |-> {o[s]}], writes |-> 0]
             PROVE  GuardIInv
  BY DEF GrdInit, Owned
<1>1. NoReq \in Request
  BY DEF NoReq, Request
<1>2. /\ [s \in Samples |-> {}] \in [Samples -> SUBSET Members] /\ [u \in Members |-> NoReq] \in [Members -> Request]
      /\ [s \in Samples |-> {o[s]}] \in [Samples -> SUBSET Owned]
  BY <1>1
<1>3. grd \in GuardState
  BY <1>2 DEF GuardState
<1>4. EditorsKnown /\ Requested
  BY DEF EditorsKnown, Requested
<1> QED
  BY <1>3, <1>4 DEF GuardIInv

\* Who can update a sample is remembered as its editor.
LEMMA EditorRemembered ==
  ASSUME GuardIInv, NEW u, NEW s \in Samples, CanUpdateSample(u, s)
  PROVE  u \in grd.everEdits[s]
BY DEF GuardIInv, EditorsKnown, CanUpdateSample

LEMMA CoOwnerStep ==
  ASSUME GuardIInv, NEW u \in Members, CoOwnerChecked(u)
  PROVE  GuardIInv' /\ GrantsStep
<1>1. PICK s \in Samples, v \in Members :
        /\ grd.req[u] = NoReq
        /\ grd' = [grd EXCEPT !.req[u] = [by |-> u, kind |-> "co", keys |-> {s}, to |-> v,
                                          ok |-> ParentPasses(u, s, FALSE)], !.writes = @ + 1]
  BY DEF CoOwnerChecked
<1> DEFINE b == ParentPasses(u, s, FALSE)
<1>2. b \in BOOLEAN /\ (b => u \in grd.everEdits[s])
  BY EditorRemembered DEF ParentPasses
<1> HIDE DEF b
<1> DEFINE r == [by |-> u, kind |-> "co", keys |-> {s}, to |-> v, ok |-> b]
<1>3. r \in Request /\ r.kind # "" /\ r.keys # {} /\ r.to \in Members
  BY <1>2 DEF Request
<1>4. Granted(grd, u, r)
  BY <1>2 DEF Granted
<1>5. grd' = [grd EXCEPT !.req[u] = r, !.writes = @ + 1]
  BY <1>1, Zenon DEF b
<1> HIDE DEF r
<1>6. GuardIInv' /\ grd'.owner = grd.owner /\ grd'.co = grd.co /\ grd'.links = grd.links
  BY <1>1, <1>3, <1>4, <1>5, CheckKeeps, Zenon
<1> QED
  BY <1>6, NothingGranted

LEMMA LinkStep ==
  ASSUME GuardIInv, NEW u \in Members, LinkChecked(u)
  PROVE  GuardIInv' /\ GrantsStep
<1>1. PICK s \in Samples :
        /\ grd.req[u] = NoReq
        /\ grd' = [grd EXCEPT !.req[u] = [by |-> u, kind |-> "link", keys |-> {s}, to |-> u,
                                          ok |-> grd.camp = u /\ ParentPasses(u, s, FALSE)], !.writes = @ + 1]
  BY DEF LinkChecked
<1> DEFINE b == grd.camp = u /\ ParentPasses(u, s, FALSE)
<1>2. b \in BOOLEAN /\ (b => u = grd.camp /\ u \in grd.everEdits[s])
  BY EditorRemembered DEF ParentPasses
<1> HIDE DEF b
<1> DEFINE r == [by |-> u, kind |-> "link", keys |-> {s}, to |-> u, ok |-> b]
<1>3. r \in Request /\ r.kind # "" /\ r.keys # {} /\ r.to \in Members
  BY <1>2 DEF Request
<1>4. Granted(grd, u, r)
  BY <1>2 DEF Granted
<1>5. grd' = [grd EXCEPT !.req[u] = r, !.writes = @ + 1]
  BY <1>1, Zenon DEF b
<1> HIDE DEF r
<1>6. GuardIInv' /\ grd'.owner = grd.owner /\ grd'.co = grd.co /\ grd'.links = grd.links
  BY <1>1, <1>3, <1>4, <1>5, CheckKeeps, Zenon
<1> QED
  BY <1>6, NothingGranted

LEMMA OwnerStep ==
  ASSUME GuardIInv, NEW u \in Members, OwnerChecked(u)
  PROVE  GuardIInv' /\ GrantsStep
<1>1. PICK keys \in (SUBSET Samples) \ {{}}, v \in Members :
        /\ grd.req[u] = NoReq /\ \A s \in keys : CanUpdateSample(u, s)
        /\ grd' = [grd EXCEPT !.req[u] = [by |-> u, kind |-> "owner", keys |-> keys, to |-> v,
                                          ok |-> OwnerPasses(u, keys, v)], !.writes = @ + 1]
  BY DEF OwnerChecked
<1> DEFINE b == OwnerPasses(u, keys, v)
<1>2. b \in BOOLEAN /\ (b => \A s \in keys : u \in grd.everOwner[s] \/ v \in grd.everOwner[s])
  BY DEF OwnerPasses, GuardIInv, EditorsKnown
<1>3. \A s \in keys : u \in grd.everEdits[s]
  BY <1>1, EditorRemembered
<1> HIDE DEF b
<1> DEFINE r == [by |-> u, kind |-> "owner", keys |-> keys, to |-> v, ok |-> b]
<1>4. r \in Request /\ r.kind # "" /\ r.keys # {} /\ r.to \in Members
  <2>1. keys \in SUBSET Samples /\ keys # {}
    OBVIOUS
  <2>2. r \in Request
    BY <1>2, <2>1, Zenon DEF Request
  <2> QED
    BY <2>1, <2>2
<1>5. Granted(grd, u, r)
  BY <1>2, <1>3 DEF Granted
<1>6. grd' = [grd EXCEPT !.req[u] = r, !.writes = @ + 1]
  BY <1>1, Zenon DEF b
<1> HIDE DEF r
<1>7. GuardIInv' /\ grd'.owner = grd.owner /\ grd'.co = grd.co /\ grd'.links = grd.links
  BY <1>1, <1>4, <1>5, <1>6, CheckKeeps, Zenon
<1> QED
  BY <1>7, NothingGranted

LEMMA RemoveStep ==
  ASSUME GuardIInv, NEW u \in Members, RemoveCoOwner(u)
  PROVE  GuardIInv' /\ GrantsStep
<1>1. PICK s \in Samples, v \in Members : grd' = [grd EXCEPT !.co[s] = @ \ {v}, !.writes = @ + 1]
  BY DEF RemoveCoOwner
<1>2. grd \in GuardState /\ EditorsKnown
  BY DEF GuardIInv
<1>3. grd.co \in [Samples -> SUBSET Members] /\ grd.writes \in Nat
  BY <1>2, GuardFields, Zenon
<1> DEFINE n == grd.writes + 1
           k == grd.co[s] \ {v}
           c == [grd.co EXCEPT ![s] = k]
<1>4. n \in Nat /\ k \in SUBSET Members
  BY <1>3, OneMore
<1> HIDE DEF n
<1>5. k \subseteq grd.co[s]
  OBVIOUS
<1>6. grd' = [grd EXCEPT !.co = c, !.writes = n]
  BY <1>1, Zenon DEF n
<1> HIDE DEF k
<1>7. c \in [Samples -> SUBSET Members] /\ c[s] = k /\ \A t \in Samples \ {s} : c[t] = grd.co[t]
  BY <1>3, <1>4, SetOne, Zenon
<1> HIDE DEF c
<1>8. grd' \in GuardState
  BY <1>2, <1>4, <1>6, <1>7 DEF GuardState
<1>9. /\ grd'.owner = grd.owner /\ grd'.co = c /\ grd'.links = grd.links /\ grd'.camp = grd.camp /\ grd'.req = grd.req
      /\ grd'.everOwner = grd.everOwner /\ grd'.everEdits = grd.everEdits
  BY <1>2, <1>6 DEF GuardState
<1>10. \A t \in Samples : c[t] \subseteq grd.co[t]
  BY <1>5, <1>7
<1>11. EditorsKnown'
  BY <1>2, <1>9, <1>10 DEF EditorsKnown
<1>12. GuardIInv'
  BY <1>8, <1>9, <1>11, WriteKeeps
<1>13. GrantsStep
  BY <1>9, <1>10 DEF GrantsStep
<1> QED
  BY <1>12, <1>13

LEMMA CreateStep ==
  ASSUME GuardIInv, NEW u \in Members, CreateSample(u)
  PROVE  GuardIInv' /\ GrantsStep
<1>1. PICK s \in Samples, v \in Members, w \in Members :
        /\ grd.owner[s] = NoOwner
        /\ grd' = [grd EXCEPT !.owner[s] = v, !.co[s] = {w}, !.everOwner[s] = @ \cup {v},
                              !.everEdits[s] = @ \cup {v, w}, !.writes = @ + 1]
  BY DEF CreateSample
<1>2. grd \in GuardState /\ EditorsKnown
  BY DEF GuardIInv
<1>3. /\ grd.owner \in [Samples -> Owned] /\ grd.co \in [Samples -> SUBSET Members] /\ grd.writes \in Nat
      /\ grd.everOwner \in [Samples -> SUBSET Owned] /\ grd.everEdits \in [Samples -> SUBSET Owned]
  BY <1>2, GuardFields, Zenon
<1> DEFINE n == grd.writes + 1
           eo == grd.everOwner[s] \cup {v}
           ee == grd.everEdits[s] \cup {v, w}
           one == {w}
           o == [grd.owner EXCEPT ![s] = v]
           c == [grd.co EXCEPT ![s] = one]
           p == [grd.everOwner EXCEPT ![s] = eo]
           q == [grd.everEdits EXCEPT ![s] = ee]
<1>4. n \in Nat
  BY <1>3, OneMore, Zenon
<1>5. v \in Owned /\ w \in Owned
  BY DEF Owned
<1>6. /\ v \in Owned /\ one \in SUBSET Members /\ eo \in SUBSET Owned /\ ee \in SUBSET Owned
      /\ v \in eo /\ v \in ee /\ one \subseteq ee /\ grd.everOwner[s] \subseteq eo /\ grd.everEdits[s] \subseteq ee
  <2>1. grd.everOwner[s] \in SUBSET Owned /\ grd.everEdits[s] \in SUBSET Owned
    BY <1>3
  <2> QED
    BY <1>5, <2>1
<1>7. grd' = [grd EXCEPT !.owner = o, !.co = c, !.everOwner = p, !.everEdits = q, !.writes = n]
  BY <1>1, Zenon
<1> HIDE DEF n, eo, ee, one
<1>8. /\ o \in [Samples -> Owned] /\ o[s] = v /\ \A t \in Samples \ {s} : o[t] = grd.owner[t]
      /\ c \in [Samples -> SUBSET Members] /\ c[s] = one /\ \A t \in Samples \ {s} : c[t] = grd.co[t]
  BY <1>3, <1>6, SetOne, Zenon
<1>9. /\ p \in [Samples -> SUBSET Owned] /\ p[s] = eo /\ \A t \in Samples \ {s} : p[t] = grd.everOwner[t]
      /\ q \in [Samples -> SUBSET Owned] /\ q[s] = ee /\ \A t \in Samples \ {s} : q[t] = grd.everEdits[t]
  BY <1>3, <1>6, SetOne, Zenon
<1> HIDE DEF o, c, p, q
<1>10. grd' \in GuardState
  BY <1>2, <1>4, <1>7, <1>8, <1>9 DEF GuardState
<1>11. /\ grd'.owner = o /\ grd'.co = c /\ grd'.links = grd.links /\ grd'.camp = grd.camp /\ grd'.req = grd.req
       /\ grd'.everOwner = p /\ grd'.everEdits = q
  BY <1>2, <1>7 DEF GuardState
<1>12. EditorsKnown' /\ \A t \in Samples : grd.everOwner[t] \subseteq p[t] /\ grd.everEdits[t] \subseteq q[t]
  BY <1>2, <1>6, <1>8, <1>9, <1>11 DEF EditorsKnown
<1>13. GuardIInv'
  BY <1>10, <1>11, <1>12, WriteKeeps
<1>14. GrantsStep
  BY <1>1, <1>8, <1>11 DEF GrantsStep
<1> QED
  BY <1>13, <1>14

LEMMA WrittenStep ==
  ASSUME GuardIInv, NEW u \in Members, RowsWritten(u)
  PROVE  GuardIInv' /\ GrantsStep
<1> DEFINE r == grd.req[u]
           s == CHOOSE k \in r.keys : TRUE
           q == [grd.req EXCEPT ![u] = NoReq]
           done == [grd EXCEPT !.req[u] = NoReq]
<1>1. /\ r # NoReq
      /\ grd' = CASE ~r.ok -> done
                  [] r.ok /\ r.kind = "co" -> [done EXCEPT !.co[s] = @ \cup {r.to}, !.everEdits[s] = @ \cup {r.to}]
                  [] r.ok /\ r.kind = "link" -> [done EXCEPT !.links = @ \cup {s}]
                  [] OTHER -> [done EXCEPT !.owner = [k \in Samples |-> IF k \in r.keys THEN r.to ELSE @[k]],
                                           !.everOwner = [k \in Samples |-> IF k \in r.keys THEN @[k] \cup {r.to} ELSE @[k]],
                                           !.everEdits = [k \in Samples |-> IF k \in r.keys THEN @[k] \cup {r.to} ELSE @[k]]]
  BY Zenon DEF RowsWritten
<1>2. grd \in GuardState /\ EditorsKnown /\ Requested
  BY DEF GuardIInv
<1>3. r \in Request /\ r.kind # "" /\ r.keys # {} /\ r.to \in Members /\ Granted(grd, u, r)
  BY <1>1, <1>2, GuardFields DEF Requested
<1>4. r.keys \subseteq Samples /\ r.kind \in {"", "co", "owner", "link"} /\ r.ok \in BOOLEAN
  BY <1>3, Zenon DEF Request
<1>5. s \in r.keys
  BY <1>3
<1>6. NoReq \in Request
  BY DEF NoReq, Request
<1>7. /\ grd.owner \in [Samples -> Owned] /\ grd.co \in [Samples -> SUBSET Members] /\ grd.links \in SUBSET Samples
      /\ grd.everOwner \in [Samples -> SUBSET Owned] /\ grd.everEdits \in [Samples -> SUBSET Owned] /\ grd.req \in [Members -> Request]
  BY <1>2, GuardFields
<1>8. q \in [Members -> Request] /\ q[u] = NoReq /\ \A v \in Members \ {u} : q[v] = grd.req[v]
  BY <1>6, <1>7, SetOne, Zenon
<1>9. done = [grd EXCEPT !.req = q]
  BY Zenon
<1>10. r.to \in Owned
  BY <1>3 DEF Owned
<1> HIDE DEF s, q, done
<1>11. done \in GuardState /\ done.owner = grd.owner /\ done.co = grd.co /\ done.links = grd.links /\ done.camp = grd.camp
       /\ done.req = q /\ done.everOwner = grd.everOwner /\ done.everEdits = grd.everEdits
  BY <1>2, <1>8, <1>9 DEF GuardState
<1>12. \A v \in Members : q[v] = NoReq \/ q[v] = grd.req[v]
  BY <1>8
<1>13. {v \in Members : grd.req[v] # NoReq /\ q[v] = NoReq} = {u}
  BY <1>1, <1>8
<1>14. CASE ~r.ok
  <2>1. grd' = done
    BY <1>1, <1>14
  <2>2. EditorsKnown'
    BY <1>2, <1>11, <2>1 DEF EditorsKnown
  <2>3. GuardIInv'
    BY <1>11, <1>12, <2>1, <2>2, WriteKeeps
  <2> QED
    BY <1>11, <2>1, <2>3, NothingGranted
<1>15. CASE r.ok /\ r.kind = "co"
  <2> DEFINE k == grd.co[s] \cup {r.to}
             e == grd.everEdits[s] \cup {r.to}
             c == [grd.co EXCEPT ![s] = k]
             x == [grd.everEdits EXCEPT ![s] = e]
  <2>1. grd' = [done EXCEPT !.co[s] = @ \cup {r.to}, !.everEdits[s] = @ \cup {r.to}]
    BY <1>1, <1>15, Zenon
  <2>2. s \in Samples /\ r.keys = {s} /\ u \in grd.everEdits[s]
    BY <1>3, <1>4, <1>5, <1>15 DEF Granted
  <2>3. grd.co[s] \in SUBSET Members /\ grd.everEdits[s] \in SUBSET Owned /\ grd.co[s] \subseteq grd.everEdits[s]
    BY <1>2, <1>7, <2>2 DEF EditorsKnown
  <2>4. k \in SUBSET Members /\ e \in SUBSET Owned /\ k \subseteq e /\ grd.everEdits[s] \subseteq e
    BY <1>3, <1>10, <2>3
  <2>5. grd' = [done EXCEPT !.co = c, !.everEdits = x]
    BY <1>11, <2>1, Zenon
  <2> HIDE DEF k, e
  <2>6. /\ c \in [Samples -> SUBSET Members] /\ c[s] = k /\ \A t \in Samples \ {s} : c[t] = grd.co[t]
        /\ x \in [Samples -> SUBSET Owned] /\ x[s] = e /\ \A t \in Samples \ {s} : x[t] = grd.everEdits[t]
    BY <1>7, <2>2, <2>4, SetOne, Zenon
  <2> HIDE DEF c, x
  <2>7. grd' \in GuardState
    BY <1>11, <2>5, <2>6 DEF GuardState
  <2>8. /\ grd'.owner = grd.owner /\ grd'.co = c /\ grd'.links = grd.links /\ grd'.camp = grd.camp /\ grd'.req = q
        /\ grd'.everOwner = grd.everOwner /\ grd'.everEdits = x
    BY <1>11, <2>5 DEF GuardState
  <2>9. EditorsKnown' /\ \A t \in Samples : grd.everEdits[t] \subseteq x[t]
    BY <1>2, <2>4, <2>6, <2>8 DEF EditorsKnown
  <2>10. GuardIInv'
    BY <1>12, <2>7, <2>8, <2>9, WriteKeeps
  <2>11. WrittenBy = {u}
    BY <1>13, <2>8 DEF WrittenBy
  <2>12. GrantsStep
    BY <2>2, <2>6, <2>8, <2>11 DEF GrantsStep
  <2> QED
    BY <2>10, <2>12
<1>16. CASE r.ok /\ r.kind = "link"
  <2>1. grd' = [done EXCEPT !.links = @ \cup {s}]
    BY <1>1, <1>16, Zenon
  <2>2. s \in Samples /\ u \in grd.everEdits[s] /\ u = grd.camp
    BY <1>3, <1>4, <1>5, <1>16 DEF Granted
  <2> DEFINE l == grd.links \cup {s}
  <2>3. l \in SUBSET Samples
    BY <1>7, <2>2
  <2>4. grd' = [done EXCEPT !.links = l]
    BY <1>11, <2>1, Zenon
  <2>5. l \ grd.links \subseteq {s}
    OBVIOUS
  <2> HIDE DEF l
  <2>6. grd' \in GuardState
    BY <1>11, <2>3, <2>4 DEF GuardState
  <2>7. /\ grd'.owner = grd.owner /\ grd'.co = grd.co /\ grd'.links = l /\ grd'.camp = grd.camp /\ grd'.req = q
        /\ grd'.everOwner = grd.everOwner /\ grd'.everEdits = grd.everEdits
    BY <1>11, <2>4 DEF GuardState
  <2>8. EditorsKnown'
    BY <1>2, <2>7 DEF EditorsKnown
  <2>9. GuardIInv'
    BY <1>12, <2>6, <2>7, <2>8, WriteKeeps
  <2>10. WrittenBy = {u}
    BY <1>13, <2>7 DEF WrittenBy
  <2>11. GrantsStep
    BY <2>2, <2>5, <2>7, <2>10 DEF GrantsStep
  <2> QED
    BY <2>9, <2>11
<1>17. CASE r.ok /\ r.kind = "owner"
  <2> DEFINE o == [k \in Samples |-> IF k \in r.keys THEN r.to ELSE grd.owner[k]]
             p == [k \in Samples |-> IF k \in r.keys THEN grd.everOwner[k] \cup {r.to} ELSE grd.everOwner[k]]
             x == [k \in Samples |-> IF k \in r.keys THEN grd.everEdits[k] \cup {r.to} ELSE grd.everEdits[k]]
  <2>1. grd' = [done EXCEPT !.owner = [k \in Samples |-> IF k \in r.keys THEN r.to ELSE @[k]],
                            !.everOwner = [k \in Samples |-> IF k \in r.keys THEN @[k] \cup {r.to} ELSE @[k]],
                            !.everEdits = [k \in Samples |-> IF k \in r.keys THEN @[k] \cup {r.to} ELSE @[k]]]
    BY <1>1, <1>17
  <2>2. grd' = [done EXCEPT !.owner = o, !.everOwner = p, !.everEdits = x]
    BY <1>11, <2>1, Zenon
  <2>3. \A k \in r.keys : u \in grd.everEdits[k] /\ (u \in grd.everOwner[k] \/ r.to \in grd.everOwner[k])
    BY <1>3, <1>17 DEF Granted
  <2>4. \A k \in Samples : /\ o[k] = (IF k \in r.keys THEN r.to ELSE grd.owner[k])
                           /\ p[k] = (IF k \in r.keys THEN grd.everOwner[k] \cup {r.to} ELSE grd.everOwner[k])
                           /\ x[k] = (IF k \in r.keys THEN grd.everEdits[k] \cup {r.to} ELSE grd.everEdits[k])
    BY Zenon
  <2>5. o \in [Samples -> Owned] /\ p \in [Samples -> SUBSET Owned] /\ x \in [Samples -> SUBSET Owned]
    BY <1>7, <1>10
  <2> HIDE DEF o, p, x
  <2>6. grd' \in GuardState
    BY <1>11, <2>2, <2>5 DEF GuardState
  <2>7. /\ grd'.owner = o /\ grd'.co = grd.co /\ grd'.links = grd.links /\ grd'.camp = grd.camp /\ grd'.req = q
        /\ grd'.everOwner = p /\ grd'.everEdits = x
    BY <1>11, <2>2 DEF GuardState
  <2>8. EditorsKnown' /\ \A t \in Samples : grd.everOwner[t] \subseteq p[t] /\ grd.everEdits[t] \subseteq x[t]
    BY <1>2, <2>4, <2>7 DEF EditorsKnown
  <2>9. GuardIInv'
    BY <1>12, <2>6, <2>7, <2>8, WriteKeeps
  <2>10. WrittenBy = {u}
    BY <1>13, <2>7 DEF WrittenBy
  <2>11. GrantsStep
    BY <2>3, <2>4, <2>7, <2>10 DEF GrantsStep
  <2> QED
    BY <2>9, <2>11
<1> QED
  BY <1>3, <1>4, <1>14, <1>15, <1>16, <1>17

LEMMA GuardStep == GuardIInv /\ [GrdNext]_grdVars => GuardIInv' /\ [GrantsStep]_grd
<1> SUFFICES ASSUME GuardIInv, [GrdNext]_grdVars
             PROVE  GuardIInv' /\ [GrantsStep]_grd
  OBVIOUS
<1>1. CASE GrdNext
  BY <1>1, CoOwnerStep, OwnerStep, LinkStep, CreateStep, WrittenStep, RemoveStep, Zenon DEF GrdNext
<1>2. CASE UNCHANGED grdVars
  <2>1. grd' = grd
    BY <1>2 DEF grdVars
  <2> QED
    BY <2>1 DEF GuardIInv, GuardState, EditorsKnown, Requested, Granted
<1> QED
  BY <1>1, <1>2

GuardSpec == GrdInit /\ [][GrdNext]_grdVars

\* Members add co-owners, samples to a campaign and owners only as GrantsAreOwners says.
THEOREM GrantsAlwaysOwners == GuardSpec => GrantsAreOwners
<1>1. GuardSpec => []GuardIInv
  BY GuardStarts, GuardStep, PTL DEF GuardSpec
<1>2. GrantsStep => \A s \in Samples :
        LET by == {u \in Members : grd.req[u] # NoReq /\ grd'.req[u] = NoReq}
        IN /\ grd.owner[s] # NoOwner /\ grd'.owner[s] # grd.owner[s] =>
                /\ by # {} /\ by \subseteq grd.everEdits[s]
                /\ by \subseteq grd.everOwner[s] \/ grd'.owner[s] \in grd.everOwner[s]
           /\ grd.owner[s] # NoOwner /\ ~(grd'.co[s] \subseteq grd.co[s]) => by # {} /\ by \subseteq grd.everEdits[s]
           /\ s \in grd'.links \ grd.links => by = {grd.camp} /\ grd.camp \in grd.everEdits[s]
  BY Zenon DEF GrantsStep, WrittenBy
<1> QED
  BY <1>1, <1>2, GuardStep, PTL DEF GuardSpec, GrantsAreOwners

----------------------------------------------------------------------------
(* THE CRAWLER PAGE.                                                       *)

LEMMA NatUp == \A n \in Nat : n + 1 \in Nat /\ n + 1 > n /\ n + 1 # n
OBVIOUS

\* A crawler page has these fields.
CrawlShaped(c) ==
    c = [db |-> c.db, rows |-> c.rows, ever |-> c.ever, seen |-> c.seen, draft |-> c.draft, dirty |-> c.dirty, errors |-> c.errors,
         reads |-> c.reads, rest |-> c.rest, restOf |-> c.restOf, save |-> c.save, payload |-> c.payload, toggle |-> c.toggle,
         next |-> c.next, job |-> c.job, ids |-> c.ids, gone |-> c.gone, edits |-> c.edits, steps |-> c.steps]
CrawlIInv == CrawlShaped(crw) /\ crw.edits \in Nat
DraftStep == crw.dirty /\ crw'.dirty /\ crw'.edits = crw.edits => crw'.draft = crw.draft

\* A page that differs in other fields has the same draft.
SameDraft(c, d) == CrawlShaped(c) /\ c.draft = d.draft /\ c.dirty = d.dirty /\ c.edits = d.edits

LEMMA CrawlStarts == CrwInit => CrawlIInv
<1> SUFFICES ASSUME CrwInit
             PROVE  CrawlIInv
  OBVIOUS
<1>1. PICK rows \in [Files -> {"done", "error"}] :
        crw = [db |-> [run |-> FALSE, cfg |-> 1], rows |-> rows, ever |-> {1}, seen |-> NoRead, draft |-> 1, dirty |-> FALSE,
               errors |-> {}, reads |-> [r \in Readers |-> NoRead], rest |-> FALSE, restOf |-> {}, save |-> "", payload |-> 0,
               toggle |-> "", next |-> FALSE, job |-> "", ids |-> {}, gone |-> FALSE, edits |-> 0, steps |-> 0]
  BY DEF CrwInit
<1>2. CrawlShaped(crw)
  BY <1>1, Zenon DEF CrawlShaped
<1>3. crw.edits = 0
  BY <1>1, Zenon
<1> QED
  BY <1>2, <1>3 DEF CrawlIInv

LEMMA DraftLeft == CrawlIInv /\ SameDraft(crw', crw) => CrawlIInv' /\ DraftStep
BY Zenon DEF CrawlIInv, SameDraft, DraftStep

LEMMA RefreshLeaves ==
  ASSUME NEW c, CrawlShaped(c)
  PROVE  SameDraft(Refreshed(c), c)
<1> DEFINE r == [c.reads EXCEPT !["poll"] = c.db]
           e == ErrorsOf(c.rows)
           d == [c EXCEPT !.reads["poll"] = c.db, !.rest = TRUE, !.restOf = e]
<1>1. d = [c EXCEPT !.reads = r, !.rest = TRUE, !.restOf = e]
  BY Zenon
<1> HIDE DEF r, e
<1>2. SameDraft(d, c)
  <2> HIDE DEF d
  <2> QED
    BY <1>1 DEF SameDraft, CrawlShaped
<1> QED
  BY <1>2, Zenon DEF Refreshed, SameDraft, e

LEMMA RefreshWith ==
  ASSUME NEW c, CrawlShaped(c), NEW job, NEW ids
  PROVE  SameDraft([Refreshed(c) EXCEPT !.job = job, !.ids = ids], c) /\ SameDraft([Refreshed(c) EXCEPT !.job = job], c)
<1> DEFINE r == Refreshed(c)
<1>1. SameDraft(r, c)
  BY RefreshLeaves
<1> DEFINE d == [r EXCEPT !.job = job, !.ids = ids]
           e == [r EXCEPT !.job = job]
<1>2. d = [r EXCEPT !.job = job, !.ids = ids] /\ e = [r EXCEPT !.job = job]
  OBVIOUS
<1> HIDE DEF r, d, e
<1>3. SameDraft(d, c) /\ SameDraft(e, c)
  BY <1>1, <1>2 DEF SameDraft, CrawlShaped
<1> QED
  BY <1>3 DEF d, e, r

LEMMA SameDraftJoins == \A b, c, d : SameDraft(b, c) /\ SameDraft(c, d) => SameDraft(b, d)
BY Zenon DEF SameDraft

LEMMA CrawlStep == CrawlIInv /\ [CrwNext]_crwVars => CrawlIInv' /\ [DraftStep]_crw
<1> SUFFICES ASSUME CrawlIInv, CrwNext
             PROVE  CrawlIInv' /\ DraftStep
  <2>1. CASE UNCHANGED crwVars
    BY <2>1 DEF crwVars, CrawlIInv, CrawlShaped
  <2> QED
    BY <2>1
<1>1. CrawlShaped(crw) /\ crw.edits \in Nat
  BY DEF CrawlIInv
<1>2. CASE Poll
  <2>1. crw' = Refreshed(crw)
    BY <1>2, Zenon DEF Poll
  <2> QED
    BY <1>1, <2>1, RefreshLeaves, DraftLeft, Zenon
<1>3. CASE \E r \in Readers : loadState(r)
  <2>1. PICK r, v :
          crw' = [Loaded(crw, v) EXCEPT !.reads[r] = NoRead,
                    !.save = IF r = "save" THEN "" ELSE @, !.toggle = IF r = "toggle" THEN "" ELSE @]
    BY <1>3, Zenon DEF loadState
  <2> DEFINE d == IF crw.dirty THEN crw.draft ELSE v.cfg
             l == [crw EXCEPT !.seen = v, !.draft = d]
             q == [crw.reads EXCEPT ![r] = NoRead]
             a == IF r = "save" THEN "" ELSE crw.save
             t == IF r = "toggle" THEN "" ELSE crw.toggle
  <2>2. Loaded(crw, v) = l
    BY Zenon DEF Loaded
  <2>3. crw.dirty => d = crw.draft
    BY Zenon
  <2> HIDE DEF d
  <2>l. l = [crw EXCEPT !.seen = v, !.draft = d]
    OBVIOUS
  <2> HIDE DEF l
  <2>4. /\ CrawlShaped(l) /\ l.draft = d /\ l.dirty = crw.dirty /\ l.edits = crw.edits /\ l.reads = crw.reads
        /\ l.save = crw.save /\ l.toggle = crw.toggle
    BY <1>1, <2>l DEF CrawlShaped
  <2>5. crw' = [l EXCEPT !.reads = q, !.save = a, !.toggle = t]
    BY <2>1, <2>2, <2>4, Zenon
  <2> HIDE DEF q, a, t
  <2>6. SameDraft(crw', l)
    BY <2>4, <2>5 DEF SameDraft, CrawlShaped
  <2> QED
    BY <1>1, <2>3, <2>4, <2>6, Zenon DEF SameDraft, CrawlIInv, DraftStep
<1>4. CASE loadRecent
  <2>1. PICK e : crw' = [crw EXCEPT !.rest = FALSE, !.errors = e]
    BY <1>4, Zenon DEF loadRecent
  <2>2. SameDraft(crw', crw)
    BY <1>1, <2>1 DEF SameDraft, CrawlShaped
  <2> QED
    BY <2>2, DraftLeft, Zenon
<1>5. CASE SettingsSaved
  <2> DEFINE sets == [crw.db EXCEPT !.cfg = crw.payload]
             e == crw.ever \cup {crw.payload}
             r == [crw.reads EXCEPT !["save"] = sets]
  <2>1. crw' = [crw EXCEPT !.db = sets, !.ever = e, !.dirty = FALSE, !.save = "load", !.reads = r]
    BY <1>5, Zenon DEF SettingsSaved
  <2> HIDE DEF sets, e, r
  <2>2. CrawlShaped(crw') /\ crw'.edits = crw.edits /\ crw'.dirty = FALSE
    BY <1>1, <2>1 DEF CrawlShaped
  <2> QED
    BY <1>1, <2>2, Zenon DEF CrawlIInv, DraftStep
<1>6. CASE Toggled
  <2> DEFINE sets == [crw.db EXCEPT !.run = crw.next]
             r == [crw.reads EXCEPT !["toggle"] = sets]
  <2>1. crw' = [crw EXCEPT !.db = sets, !.toggle = "load", !.reads = r]
    BY <1>6, Zenon DEF Toggled
  <2> HIDE DEF sets, r
  <2>2. SameDraft(crw', crw)
    BY <1>1, <2>1 DEF SameDraft, CrawlShaped
  <2> QED
    BY <2>2, DraftLeft, Zenon
<1>7. CASE RecrawlRead
  <2>1. PICK ids : crw' = IF ids = {} THEN [Refreshed(crw) EXCEPT !.job = ""] ELSE [crw EXCEPT !.job = "reset", !.ids = ids]
    BY <1>7, Zenon DEF RecrawlRead
  <2>2. SameDraft([Refreshed(crw) EXCEPT !.job = ""], crw)
    BY <1>1, RefreshWith, Zenon
  <2> DEFINE d == [crw EXCEPT !.job = "reset", !.ids = ids]
  <2>3. d = [crw EXCEPT !.job = "reset", !.ids = ids]
    OBVIOUS
  <2> HIDE DEF d
  <2>4. SameDraft(d, crw)
    BY <1>1, <2>3 DEF SameDraft, CrawlShaped
  <2> QED
    BY <2>1, <2>2, <2>4, DraftLeft, Zenon DEF d
<1>8. CASE resetToPending
  <2>1. PICK rows : crw' = [Refreshed([crw EXCEPT !.rows = rows]) EXCEPT !.job = "", !.ids = {}]
    BY <1>8, Zenon DEF resetToPending
  <2> DEFINE c == [crw EXCEPT !.rows = rows]
  <2>2. SameDraft(c, crw)
    BY <1>1 DEF SameDraft, CrawlShaped
  <2>3. crw' = [Refreshed(c) EXCEPT !.job = "", !.ids = {}]
    BY <2>1
  <2> HIDE DEF c
  <2>4. CrawlShaped(c)
    BY <2>2, Zenon DEF SameDraft
  <2>5. SameDraft([Refreshed(c) EXCEPT !.job = "", !.ids = {}], c)
    BY <2>4, RefreshWith, Zenon
  <2>6. SameDraft(crw', c)
    BY <2>3, <2>5, Zenon
  <2> QED
    BY <2>2, <2>6, SameDraftJoins, DraftLeft, Zenon
<1>9. CASE EditSettings
  <2> DEFINE n == crw.edits + 1
             k == crw.steps + 1
  <2>1. PICK v : crw' = [crw EXCEPT !.draft = v, !.dirty = TRUE, !.edits = n, !.steps = k]
    BY <1>1, <1>9 DEF EditSettings, CrwStep, CrawlShaped
  <2>2. n \in Nat /\ n # crw.edits
    BY <1>1, NatUp, Zenon
  <2> HIDE DEF n, k
  <2>3. CrawlShaped(crw') /\ crw'.edits = n
    BY <1>1, <2>1 DEF CrawlShaped
  <2> QED
    BY <2>2, <2>3, Zenon DEF CrawlIInv, DraftStep
<1>10. CASE saveSettings \/ toggleRunning \/ recrawl \/ retryAllErrors \/ LeavePage
  <2> DEFINE k == crw.steps + 1
  <2> HIDE DEF k
  <2>1. CASE saveSettings
    <3>1. PICK p : crw' = [crw EXCEPT !.save = "patch", !.payload = p, !.steps = k]
      BY <1>1, <2>1 DEF saveSettings, CrwStep, CrawlShaped, k
    <3>2. SameDraft(crw', crw)
      BY <1>1, <3>1 DEF SameDraft, CrawlShaped
    <3> QED
      BY <3>2, DraftLeft, Zenon
  <2>2. CASE toggleRunning
    <3>1. PICK p : crw' = [crw EXCEPT !.toggle = "patch", !.next = p, !.steps = k]
      BY <1>1, <2>2 DEF toggleRunning, CrwStep, CrawlShaped, k
    <3>2. SameDraft(crw', crw)
      BY <1>1, <3>1 DEF SameDraft, CrawlShaped
    <3> QED
      BY <3>2, DraftLeft, Zenon
  <2>3. CASE recrawl
    <3>1. crw' = [crw EXCEPT !.job = "read", !.steps = k]
      BY <1>1, <2>3 DEF recrawl, CrwStep, CrawlShaped, k
    <3>2. SameDraft(crw', crw)
      BY <1>1, <3>1 DEF SameDraft, CrawlShaped
    <3> QED
      BY <3>2, DraftLeft, Zenon
  <2>4. CASE retryAllErrors
    <3>1. PICK p : crw' = [crw EXCEPT !.job = "reset", !.ids = p, !.steps = k]
      BY <1>1, <2>4 DEF retryAllErrors, CrwStep, CrawlShaped, k
    <3>2. SameDraft(crw', crw)
      BY <1>1, <3>1 DEF SameDraft, CrawlShaped
    <3> QED
      BY <3>2, DraftLeft, Zenon
  <2>5. CASE LeavePage
    <3>1. crw' = [crw EXCEPT !.gone = TRUE, !.steps = k]
      BY <1>1, <2>5 DEF LeavePage, CrwStep, CrawlShaped, k
    <3>2. SameDraft(crw', crw)
      BY <1>1, <3>1 DEF SameDraft, CrawlShaped
    <3> QED
      BY <3>2, DraftLeft, Zenon
  <2> QED
    BY <1>10, <2>1, <2>2, <2>3, <2>4, <2>5
<1>11. CASE SettingsRefused
  <2>1. crw' = [crw EXCEPT !.save = ""]
    BY <1>11 DEF SettingsRefused
  <2>2. SameDraft(crw', crw)
    BY <1>1, <2>1 DEF SameDraft, CrawlShaped
  <2> QED
    BY <2>2, DraftLeft, Zenon
<1>12. CASE DaemonTakes \/ DaemonEnds
  <2>1. PICK f, s : crw' = [crw EXCEPT !.rows[f] = s]
    BY <1>12, Zenon DEF DaemonTakes, DaemonEnds
  <2> DEFINE rows == [crw.rows EXCEPT ![f] = s]
  <2>2. crw' = [crw EXCEPT !.rows = rows]
    BY <2>1, Zenon
  <2> HIDE DEF rows
  <2>3. SameDraft(crw', crw)
    BY <1>1, <2>2 DEF SameDraft, CrawlShaped
  <2> QED
    BY <2>3, DraftLeft, Zenon
<1> QED
  BY <1>2, <1>3, <1>4, <1>5, <1>6, <1>7, <1>8, <1>9, <1>10, <1>11, <1>12, Zenon DEF CrwNext, CrwAnswer

CrawlSpec == CrwInit /\ [][CrwNext]_crwVars

\* A draft of the crawler's settings with unsaved edits is changed by an edit only.
THEOREM DraftAlwaysKept == CrawlSpec => DirtyDraftKept
<1>1. CrawlSpec => []CrawlIInv
  BY CrawlStarts, CrawlStep, PTL DEF CrawlSpec
<1>2. DraftStep => (crw.dirty /\ crw'.dirty /\ crw'.edits = crw.edits => crw'.draft = crw.draft)
  BY DEF DraftStep
<1> QED
  BY <1>1, <1>2, CrawlStep, PTL DEF CrawlSpec, DirtyDraftKept

----------------------------------------------------------------------------
(* THE CAMPAIGN PANELS.                                                    *)

\* The campaign panels have these fields.
PanelsShaped(c) ==
    c = [kind |-> c.kind, in |-> c.in, project |-> c.project, inherited |-> c.inherited, panel |-> c.panel, reads |-> c.reads,
         clicks |-> c.clicks]
\* An operation or a test is in at most one campaign.
CampaignIInv == PanelsShaped(cam) /\ (cam.kind = "move" => \E k : cam.in \subseteq {k})

TakenStep ==
    /\ cam.kind = "move" => Cardinality(cam'.in) <= 1 /\ (cam.in # {} => cam'.in \subseteq cam.in)
    /\ cam.project # 0 => cam'.project = cam.project

\* A change of the panels only, or of the reads.
SameRecord(c, d) == PanelsShaped(c) /\ c.kind = d.kind /\ c.in = d.in /\ c.project = d.project

LEMMA SmallSet ==
  ASSUME NEW S, NEW k, S \subseteq {k}
  PROVE  Cardinality(S) <= 1
<1>1. CASE S = {}
  BY <1>1, FS_EmptySet
<1>2. CASE S # {}
  <2>1. S = {k}
    BY <1>2
  <2> QED
    BY <2>1, FS_Singleton
<1> QED
  BY <1>1, <1>2

LEMMA CampaignStarts == CamInit => CampaignIInv
<1> SUFFICES ASSUME CamInit
             PROVE  CampaignIInv
  OBVIOUS
<1>1. PICK k : cam = [kind |-> k, in |-> {}, project |-> 0, inherited |-> 0, panel |-> [p \in Panels |-> Idle], reads |-> {}, clicks |-> 0]
  BY DEF CamInit
<1>2. PanelsShaped(cam) /\ cam.in = {}
  BY <1>1, Zenon DEF PanelsShaped
<1> QED
  BY <1>2 DEF CampaignIInv

LEMMA RecordLeft ==
  ASSUME CampaignIInv, SameRecord(cam', cam)
  PROVE  CampaignIInv' /\ TakenStep
BY SmallSet DEF CampaignIInv, SameRecord, TakenStep

LEMMA SameRecordJoins == \A b, c, d : SameRecord(b, c) /\ SameRecord(c, d) => SameRecord(b, d)
BY Zenon DEF SameRecord

LEMMA PanelsChange ==
  ASSUME NEW c, PanelsShaped(c), NEW panel, NEW reads, NEW clicks
  PROVE  /\ SameRecord([c EXCEPT !.panel = panel, !.reads = reads], c) /\ SameRecord([c EXCEPT !.panel = panel], c)
         /\ SameRecord([c EXCEPT !.reads = reads], c) /\ SameRecord([c EXCEPT !.panel = panel, !.clicks = clicks], c)
<1> DEFINE a == [c EXCEPT !.panel = panel, !.reads = reads]
           b == [c EXCEPT !.panel = panel]
           d == [c EXCEPT !.reads = reads]
           e == [c EXCEPT !.panel = panel, !.clicks = clicks]
<1>1. /\ a = [c EXCEPT !.panel = panel, !.reads = reads] /\ b = [c EXCEPT !.panel = panel]
      /\ d = [c EXCEPT !.reads = reads] /\ e = [c EXCEPT !.panel = panel, !.clicks = clicks]
  OBVIOUS
<1> HIDE DEF a, b, d, e
<1>2. SameRecord(a, c)
  BY <1>1 DEF SameRecord, PanelsShaped
<1>3. SameRecord(b, c)
  BY <1>1 DEF SameRecord, PanelsShaped
<1>4. SameRecord(d, c)
  BY <1>1 DEF SameRecord, PanelsShaped
<1>5. SameRecord(e, c)
  BY <1>1 DEF SameRecord, PanelsShaped
<1> QED
  BY <1>2, <1>3, <1>4, <1>5 DEF a, b, d, e

LEMMA AskLeaves ==
  ASSUME NEW c, PanelsShaped(c), NEW p, NEW what
  PROVE  SameRecord(Ask(c, p, what), c)
<1>1. PICK panel, reads : Ask(c, p, what) = [c EXCEPT !.panel = panel, !.reads = reads]
  BY Zenon DEF Ask
<1>2. SameRecord([c EXCEPT !.panel = panel, !.reads = reads], c)
  BY PanelsChange
<1> QED
  BY <1>1, <1>2, Zenon

LEMMA DoneLeaves ==
  ASSUME NEW c, PanelsShaped(c), NEW p, NEW message
  PROVE  SameRecord(Done(c, p, message), c)
<1> DEFINE q == [c EXCEPT !.panel[p].phase = "", !.panel[p].message = message,
                          !.panel[p].found = IF message = "failed" THEN @ ELSE FALSE]
           l == Ask(q, p, "list")
           s == Ask(l, p, "search")
<1>1. PICK panel : q = [c EXCEPT !.panel = panel]
  BY Zenon
<1> HIDE DEF q
<1>2. SameRecord(q, c)
  BY <1>1, PanelsChange, Zenon
<1>3. SameRecord(l, q)
  BY <1>2, AskLeaves, Zenon DEF SameRecord
<1> HIDE DEF l
<1>4. SameRecord(s, l)
  BY <1>3, AskLeaves, Zenon DEF SameRecord
<1> HIDE DEF s
<1>5. SameRecord(l, c) /\ SameRecord(s, c)
  BY <1>2, <1>3, <1>4, SameRecordJoins, Zenon
<1>6. Done(c, p, message) = s \/ Done(c, p, message) = l
  BY Zenon DEF Done, q, l, s
<1> QED
  BY <1>5, <1>6, Zenon

LEMMA CampaignStep == CampaignIInv /\ [CamNext]_camVars => CampaignIInv' /\ [TakenStep]_cam
<1> SUFFICES ASSUME CampaignIInv, CamNext
             PROVE  CampaignIInv' /\ TakenStep
  <2>1. CASE UNCHANGED camVars
    BY <2>1 DEF camVars, CampaignIInv, PanelsShaped
  <2> QED
    BY <2>1
<1>1. PanelsShaped(cam) /\ (cam.kind = "move" => \E k : cam.in \subseteq {k})
  BY DEF CampaignIInv
<1>2. CASE PanelRead
  <2>1. PICK r, saw :
          LET p == r.panel
              c == [cam EXCEPT !.reads = @ \ {r}]
          IN cam' = CASE r.what = "list" /\ r.token = cam.panel[p].list -> [c EXCEPT !.panel[p].listed = saw]
                      [] r.what = "search" /\ r.token = cam.panel[p].search ->
                          [c EXCEPT !.panel[p].found = IF cam.kind = "sample" THEN ~cam.panel[p].listed ELSE saw]
                      [] OTHER -> c
    BY <1>2, Zenon DEF PanelRead
  <2> DEFINE q == cam.reads \ {r}
             c == [cam EXCEPT !.reads = q]
  <2>2. SameRecord(c, cam)
    BY <1>1, PanelsChange
  <2>3. \/ cam' = [c EXCEPT !.panel[r.panel].listed = saw]
        \/ cam' = [c EXCEPT !.panel[r.panel].found = IF cam.kind = "sample" THEN ~cam.panel[r.panel].listed ELSE saw]
        \/ cam' = c
    BY <2>1
  <2> HIDE DEF c
  <2>4. (\E panel : cam' = [c EXCEPT !.panel = panel]) \/ cam' = c
    BY <2>3, Zenon
  <2>5. SameRecord(cam', c) \/ cam' = c
    <3>1. ASSUME NEW panel, cam' = [c EXCEPT !.panel = panel]
          PROVE  SameRecord(cam', c)
      <4>1. SameRecord([c EXCEPT !.panel = panel], c)
        BY <2>2, PanelsChange DEF SameRecord
      <4> QED
        BY <3>1, <4>1, Zenon
    <3> QED
      BY <2>4, <3>1, Zenon
  <2> QED
    BY <2>2, <2>5, SameRecordJoins, RecordLeft, Zenon
<1>3. ASSUME NEW p \in Panels, OpenPanel(p)
      PROVE  CampaignIInv' /\ TakenStep
  <2> DEFINE l == Ask(cam, p, "list")
  <2>1. SameRecord(l, cam)
    BY <1>1, AskLeaves
  <2>2. cam' = Ask(l, p, "search")
    BY <1>3 DEF OpenPanel
  <2> HIDE DEF l
  <2>3. SameRecord(cam', l)
    BY <2>1, <2>2, AskLeaves, Zenon DEF SameRecord
  <2> QED
    BY <2>1, <2>3, SameRecordJoins, RecordLeft, Zenon
<1>4. ASSUME NEW p \in Panels, NEW b \in BOOLEAN, setCampaign(p, b)
      PROVE  CampaignIInv' /\ TakenStep
  <2> DEFINE q == [cam EXCEPT !.panel[p].phase = "patch", !.panel[p].adding = b, !.panel[p].message = ""]
             n == q.clicks + 1
  <2>1. cam' = [q EXCEPT !.clicks = n]
    BY <1>4, Zenon DEF setCampaign
  <2>2. PICK panel : q = [cam EXCEPT !.panel = panel]
    BY Zenon
  <2> HIDE DEF n, q
  <2>3. SameRecord(q, cam)
    BY <1>1, <2>2, PanelsChange, Zenon
  <2>4. SameRecord(cam', q)
    BY <2>1, <2>3 DEF SameRecord, PanelsShaped
  <2> QED
    BY <2>3, <2>4, SameRecordJoins, RecordLeft, Zenon
<1>5. ASSUME NEW p \in Panels, NEW ok \in BOOLEAN, Moved(p, ok)
      PROVE  CampaignIInv' /\ TakenStep
  <2> DEFINE c == CampaignOf(p)
             i == IF cam.kind = "move" THEN {c} ELSE cam.in \cup {c}
             j == cam.in \ {c}
             put == [cam EXCEPT !.in = i]
             cut == [cam EXCEPT !.in = j]
  <2>1. \/ \E m : cam' = Done(cam, p, m)
        \/ ok /\ Matches(p) /\ cam.panel[p].adding /\ cam' = [put EXCEPT !.panel[p].phase = "inherit"]
        \/ cam' = Done(cut, p, "")
    BY <1>5, Zenon DEF Moved
  <2>2. CASE \E m : cam' = Done(cam, p, m)
    BY <1>1, <2>2, DoneLeaves, RecordLeft, Zenon
  <2>3. CASE Matches(p) /\ cam.panel[p].adding /\ cam' = [put EXCEPT !.panel[p].phase = "inherit"]
    <3>1. cam.kind = "move" => cam.in = {} /\ i = {c}
      BY <2>3 DEF Matches
    <3>2. put = [cam EXCEPT !.in = i]
      OBVIOUS
    <3> HIDE DEF c, i, put
    <3>3. PICK panel : cam' = [put EXCEPT !.panel = panel]
      BY <2>3, Zenon
    <3>4. PanelsShaped(put) /\ put.kind = cam.kind /\ put.in = i /\ put.project = cam.project
      BY <1>1, <3>2 DEF PanelsShaped
    <3>5. SameRecord([put EXCEPT !.panel = panel], put)
      BY <3>4, PanelsChange
    <3>6. PanelsShaped(cam') /\ cam'.kind = cam.kind /\ cam'.in = i /\ cam'.project = cam.project
      BY <3>3, <3>4, <3>5, Zenon DEF SameRecord
    <3> QED
      BY <3>1, <3>6, SmallSet DEF CampaignIInv, TakenStep
  <2>4. CASE cam' = Done(cut, p, "")
    <3>1. cut = [cam EXCEPT !.in = j] /\ j \subseteq cam.in
      OBVIOUS
    <3> HIDE DEF c, j, cut
    <3>2. PanelsShaped(cut) /\ cut.kind = cam.kind /\ cut.in = j /\ cut.project = cam.project
      BY <1>1, <3>1 DEF PanelsShaped
    <3>3. SameRecord(cam', cut)
      BY <2>4, <3>2, DoneLeaves, Zenon
    <3>4. PanelsShaped(cam') /\ cam'.kind = cam.kind /\ cam'.in = j /\ cam'.project = cam.project
      BY <3>2, <3>3, Zenon DEF SameRecord
    <3> QED
      BY <1>1, <3>1, <3>4, SmallSet DEF CampaignIInv, TakenStep
  <2> QED
    BY <2>1, <2>2, <2>3, <2>4
<1>6. ASSUME NEW p \in Panels, inheritCampaignProject(p)
      PROVE  CampaignIInv' /\ TakenStep
  <2> DEFINE c == CampaignOf(p)
             d == [cam EXCEPT !.project = c, !.inherited = c]
  <2>1. cam' = Done(IF cam.project = 0 THEN d ELSE cam, p, "")
    BY <1>6 DEF inheritCampaignProject
  <2>2. d = [cam EXCEPT !.project = c, !.inherited = c]
    OBVIOUS
  <2> HIDE DEF c, d
  <2>3. PanelsShaped(d) /\ d.kind = cam.kind /\ d.in = cam.in
    BY <1>1, <2>2 DEF PanelsShaped
  <2>4. CASE cam.project = 0
    <3>1. SameRecord(cam', d)
      BY <2>1, <2>3, <2>4, DoneLeaves, Zenon
    <3>2. PanelsShaped(cam') /\ cam'.kind = cam.kind /\ cam'.in = cam.in
      BY <2>3, <3>1, Zenon DEF SameRecord
    <3> QED
      BY <1>1, <2>4, <3>2, SmallSet DEF CampaignIInv, TakenStep
  <2>5. CASE cam.project # 0
    BY <1>1, <2>1, <2>5, DoneLeaves, RecordLeft, Zenon
  <2> QED
    BY <2>4, <2>5
<1>7. ASSUME NEW p \in Panels, InheritRefused(p)
      PROVE  CampaignIInv' /\ TakenStep
  <2>1. cam' = Done(cam, p, "")
    BY <1>7 DEF InheritRefused
  <2> QED
    BY <1>1, <2>1, DoneLeaves, RecordLeft, Zenon
<1> QED
  BY <1>2, <1>3, <1>4, <1>5, <1>6, <1>7, Zenon DEF CamNext

CampaignSpec == CamInit /\ [][CamNext]_camVars

\* No step takes an operation or a test from one campaign into another, or replaces a project.
THEOREM TakenNever == CampaignSpec => NeverTaken
<1>1. CampaignSpec => []CampaignIInv
  BY CampaignStarts, CampaignStep, PTL DEF CampaignSpec
<1>2. TakenStep => /\ cam.kind = "move" => Cardinality(cam'.in) <= 1 /\ (cam.in # {} => cam'.in \subseteq cam.in)
                   /\ cam.project # 0 => cam'.project = cam.project
  BY Zenon DEF TakenStep
<1> QED
  BY <1>1, <1>2, CampaignStep, PTL DEF CampaignSpec, NeverTaken

----------------------------------------------------------------------------
(* THE OPERATION-CODE FIELD.                                               *)

\* The code field has these fields.
FieldShaped(o) ==
    o = [kind |-> o.kind, sample |-> o.sample, req |-> o.req, reads |-> o.reads, code |-> o.code, est |-> o.est, cat |-> o.cat,
         mf |-> o.mf, mfOut |-> o.mfOut, manual |-> o.manual, value |-> o.value, error |-> o.error, by |-> o.by, steps |-> o.steps]
CodeIInv == FieldShaped(opc) /\ opc.steps \in Nat
OverrideStep == (opc.manual \/ isExistingItem) /\ opc'.value # opc.value => opc'.by = "type" /\ opc'.steps > opc.steps

\* A change of the form, in the mode the field is in.
SameField(o, p) == FieldShaped(o) /\ o.kind = p.kind /\ o.manual = p.manual /\ o.value = p.value /\ o.steps = p.steps

LEMMA CodeStarts == OpcInit => CodeIInv
<1> SUFFICES ASSUME OpcInit
             PROVE  CodeIInv
  OBVIOUS
<1>1. PICK k :
        opc = [kind |-> k, sample |-> 0, req |-> 0, reads |-> {}, code |-> 0, est |-> FALSE, cat |-> "", mf |-> FALSE, mfOut |-> 0,
               manual |-> (k = "saved"), value |-> IF k = "saved" THEN Typed ELSE NoCode, error |-> FALSE, by |-> "", steps |-> 0]
  BY DEF OpcInit
<1>2. FieldShaped(opc) /\ opc.steps = 0
  BY <1>1, Zenon DEF FieldShaped
<1> QED
  BY <1>2 DEF CodeIInv

\* A composed code takes the place of the field's only in auto mode, of a new operation.
LEMMA ComposedLeaves ==
  ASSUME NEW o, SameField(o, opc)
  PROVE  /\ FieldShaped(Composed(o)) /\ Composed(o).steps = opc.steps
         /\ opc.manual \/ isExistingItem => Composed(o).value = opc.value
<1> DEFINE v == autoCode(o)
           d == [o EXCEPT !.value = v]
<1>1. Composed(o) = o \/ (Composed(o) = d /\ ~isExistingItem /\ ~o.manual)
  BY Zenon DEF Composed, MayEmit
<1>2. d = [o EXCEPT !.value = v]
  OBVIOUS
<1> HIDE DEF v, d
<1>3. FieldShaped(d) /\ d.steps = o.steps
  BY <1>2 DEF FieldShaped, SameField
<1> QED
  BY <1>1, <1>3, Zenon DEF SameField

\* A step of the form, with its number and what it was done by.
LEMMA FormStep ==
  ASSUME CodeIInv, NEW o, FieldShaped(o), NEW by, OpcStep(o, by), o.steps = opc.steps
  PROVE  /\ FieldShaped(opc') /\ opc'.steps \in Nat /\ opc'.steps > opc.steps /\ opc'.by = by /\ opc'.value = o.value
<1> DEFINE n == o.steps + 1
<1>1. opc' = [o EXCEPT !.steps = n, !.by = by]
  BY Zenon DEF OpcStep
<1>2. opc.steps \in Nat
  BY DEF CodeIInv
<1>3. n \in Nat /\ n > opc.steps
  <2> DEFINE k == opc.steps
  <2>1. n = k + 1 /\ k \in Nat
    BY <1>2, Zenon
  <2> HIDE DEF n, k
  <2>2. n \in Nat /\ n > k
    BY <2>1
  <2> QED
    BY <2>2 DEF k
<1> HIDE DEF n
<1>4. FieldShaped(opc') /\ opc'.steps = n /\ opc'.by = by /\ opc'.value = o.value
  BY <1>1 DEF FieldShaped
<1> QED
  BY <1>3, <1>4, Zenon

LEMMA ComposedForm ==
  ASSUME CodeIInv, NEW o, SameField(o, opc), OpcStep(Composed(o), "form")
  PROVE  CodeIInv' /\ OverrideStep
<1> DEFINE c == Composed(o)
<1>1. FieldShaped(c) /\ c.steps = opc.steps /\ (opc.manual \/ isExistingItem => c.value = opc.value)
  BY ComposedLeaves
<1>2. OpcStep(c, "form")
  OBVIOUS
<1> HIDE DEF c
<1>3. FieldShaped(opc') /\ opc'.steps \in Nat /\ opc'.value = c.value
  BY <1>1, <1>2, FormStep
<1> QED
  BY <1>1, <1>3, Zenon DEF CodeIInv, OverrideStep

LEMMA TypedForm ==
  ASSUME CodeIInv, NEW m, NEW v, OpcStep([opc EXCEPT !.manual = m, !.value = v], "type")
  PROVE  CodeIInv' /\ OverrideStep
<1> DEFINE c == [opc EXCEPT !.manual = m, !.value = v]
<1>1. c = [opc EXCEPT !.manual = m, !.value = v] /\ OpcStep(c, "type")
  OBVIOUS
<1> HIDE DEF c
<1>2. FieldShaped(c) /\ c.steps = opc.steps
  BY <1>1 DEF CodeIInv, FieldShaped
<1>3. FieldShaped(opc') /\ opc'.steps \in Nat /\ opc'.steps > opc.steps /\ opc'.by = "type"
  BY <1>1, <1>2, FormStep
<1> QED
  BY <1>3, Zenon DEF CodeIInv, OverrideStep

LEMMA CodeStep == CodeIInv /\ [OpcNext]_opcVars => CodeIInv' /\ [OverrideStep]_opc
<1> SUFFICES ASSUME CodeIInv, OpcNext
             PROVE  CodeIInv' /\ OverrideStep
  <2>1. CASE UNCHANGED opcVars
    BY <2>1 DEF opcVars, CodeIInv, FieldShaped
  <2> QED
    BY <2>1
<1>1. FieldShaped(opc) /\ opc.steps \in Nat
  BY DEF CodeIInv
<1>2. CASE PickSample
  <2>1. PICK s \in 0..2 :
          LET o == [opc EXCEPT !.sample = s, !.req = @ + 1]
          IN OpcStep(Composed(IF s = 0 THEN [o EXCEPT !.code = 0, !.est = FALSE]
                              ELSE [o EXCEPT !.reads = @ \cup {[req |-> o.req, sample |-> s]}]), "form")
    BY <1>2, Zenon DEF PickSample
  <2> DEFINE k == opc.req + 1
             o == [opc EXCEPT !.sample = s, !.req = k]
             x == o.reads \cup {[req |-> o.req, sample |-> s]}
             a == [o EXCEPT !.code = 0, !.est = FALSE]
             b == [o EXCEPT !.reads = x]
             c == IF s = 0 THEN a ELSE b
  <2>2. OpcStep(Composed(c), "form")
    BY <2>1, Zenon
  <2>3. o = [opc EXCEPT !.sample = s, !.req = k] /\ a = [o EXCEPT !.code = 0, !.est = FALSE] /\ b = [o EXCEPT !.reads = x]
        /\ (c = a \/ c = b)
    BY Zenon
  <2> HIDE DEF k, o, x, a, b, c
  <2>4. SameField(o, opc)
    BY <1>1, <2>3 DEF SameField, FieldShaped
  <2>5. SameField(a, opc)
    BY <2>3, <2>4 DEF SameField, FieldShaped
  <2>6. SameField(b, opc)
    BY <2>3, <2>4 DEF SameField, FieldShaped
  <2>7. SameField(c, opc)
    BY <2>3, <2>5, <2>6, Zenon
  <2> QED
    BY <2>2, <2>7, ComposedForm, Zenon
<1>3. CASE PickCategory
  <2>1. PICK c, m : OpcStep(Composed([opc EXCEPT !.cat = c, !.mfOut = m]), "form")
    BY <1>3, Zenon DEF PickCategory
  <2> DEFINE o == [opc EXCEPT !.cat = c, !.mfOut = m]
  <2>2. o = [opc EXCEPT !.cat = c, !.mfOut = m] /\ OpcStep(Composed(o), "form")
    BY <2>1
  <2> HIDE DEF o
  <2>3. SameField(o, opc)
    BY <1>1, <2>2 DEF SameField, FieldShaped
  <2> QED
    BY <2>2, <2>3, ComposedForm, Zenon
<1>4. CASE onType
  <2>1. PICK m, v : OpcStep([opc EXCEPT !.manual = m, !.value = v], "type")
    BY <1>4, Zenon DEF onType
  <2> QED
    BY <2>1, TypedForm
<1>5. CASE regenerate
  <2>1. PICK v : OpcStep([opc EXCEPT !.manual = FALSE, !.value = v], "type")
    BY <1>5, Zenon DEF regenerate
  <2> QED
    BY <2>1, TypedForm
<1>6. ASSUME NEW ok \in BOOLEAN, SampleCodeRead(ok)
      PROVE  CodeIInv' /\ OverrideStep
  <2>1. PICK r \in opc.reads :
          LET o == [opc EXCEPT !.reads = @ \ {r}, !.by = "answer"]
          IN opc' = CASE r.req # opc.req -> o
                      [] r.req = opc.req /\ ok -> Composed([o EXCEPT !.code = r.sample, !.est = ~isExistingItem, !.error = FALSE])
                      [] OTHER -> Composed([o EXCEPT !.code = 0, !.est = FALSE, !.error = TRUE])
    BY <1>6, Zenon DEF SampleCodeRead
  <2> DEFINE q == opc.reads \ {r}
             e == ~isExistingItem
             n == r.sample
             o == [opc EXCEPT !.reads = q, !.by = "answer"]
             a == [o EXCEPT !.code = n, !.est = e, !.error = FALSE]
             b == [o EXCEPT !.code = 0, !.est = FALSE, !.error = TRUE]
  <2>2. opc' = o \/ opc' = Composed(a) \/ opc' = Composed(b)
    <3>1. opc' = CASE r.req # opc.req -> o [] r.req = opc.req /\ ok -> Composed(a) [] OTHER -> Composed(b)
      BY <2>1, Zenon
    <3> HIDE DEF o, a, b
    <3> QED
      BY <3>1, Zenon
  <2>3. o = [opc EXCEPT !.reads = q, !.by = "answer"] /\ a = [o EXCEPT !.code = n, !.est = e, !.error = FALSE]
        /\ b = [o EXCEPT !.code = 0, !.est = FALSE, !.error = TRUE]
    OBVIOUS
  <2> HIDE DEF q, e, n, o, a, b
  <2>4. SameField(o, opc)
    BY <1>1, <2>3 DEF SameField, FieldShaped
  <2>5. SameField(a, opc)
    BY <2>3, <2>4 DEF SameField, FieldShaped
  <2>6. SameField(b, opc)
    BY <2>3, <2>4 DEF SameField, FieldShaped
  <2>7. /\ FieldShaped(opc') /\ opc'.steps = opc.steps
        /\ opc.manual \/ isExistingItem => opc'.value = opc.value
    BY <2>2, <2>4, <2>5, <2>6, ComposedLeaves, Zenon DEF SameField
  <2> QED
    BY <1>1, <2>7, Zenon DEF CodeIInv, OverrideStep
<1>7. ASSUME NEW ok \in BOOLEAN, MfRead(ok)
      PROVE  CodeIInv' /\ OverrideStep
  <2>1. PICK m, e : opc' = [opc EXCEPT !.mfOut = m, !.mf = ok, !.error = e, !.by = "answer"]
    BY <1>7, Zenon DEF MfRead
  <2>2. SameField(opc', opc)
    BY <1>1, <2>1 DEF SameField, FieldShaped
  <2> QED
    BY <1>1, <2>2, Zenon DEF SameField, CodeIInv, OverrideStep
<1> QED
  BY <1>2, <1>3, <1>4, <1>5, <1>6, <1>7, Zenon DEF OpcNext

CodeSpec == OpcInit /\ [][OpcNext]_opcVars

\* A typed code, and the code of a saved operation, is changed at the field only.
THEOREM OverrideAlwaysKept == CodeSpec => OverrideKept
<1>1. CodeSpec => []CodeIInv
  BY CodeStarts, CodeStep, PTL DEF CodeSpec
<1>2. OverrideStep => ((opc.manual \/ isExistingItem) /\ opc'.value # opc.value => opc'.by = "type" /\ opc'.steps > opc.steps)
  BY DEF OverrideStep
<1> QED
  BY <1>1, <1>2, CodeStep, PTL DEF CodeSpec, OverrideKept

----------------------------------------------------------------------------
(* THE SAMPLE-CODE FIELD.                                                  *)

\* The sample-code field and a rebuild of it have these fields.
SampleShaped(s) ==
    s = [kind |-> s.kind, mat |-> s.mat, met |-> s.met, value |-> s.value, est |-> s.est, work |-> s.work, by |-> s.by, steps |-> s.steps]
RebuildShaped(w) == w = [stage |-> w.stage, force |-> w.force, mat |-> w.mat, met |-> w.met, n |-> w.n]
\* What is rebuilt of a saved sample's code was asked for with the button.
ByButton(s) == \A w \in s.work : RebuildShaped(w) /\ (s.kind = "saved" => w.force)
SampleIInv == SampleShaped(smc) /\ ByButton(smc)

NumberStep ==
    /\ smc.kind = "saved" /\ smc'.value # smc.value => smc'.by \in {"type", "button"}
    /\ leading(smc.value) /\ smc'.by = "rebuild" /\ smc'.value.num # 0 => smc'.value.num = smc.value.num

LEMMA SampleStarts == SmcInit => SampleIInv
<1> SUFFICES ASSUME SmcInit
             PROVE  SampleIInv
  OBVIOUS
<1>1. PICK k :
        smc = [kind |-> k, mat |-> 0, met |-> 0, value |-> IF k = "saved" THEN Field(3, 0, 0) ELSE EmptyField,
               est |-> FALSE, work |-> {}, by |-> "", steps |-> 0]
  BY DEF SmcInit
<1>2. SampleShaped(smc) /\ smc.work = {}
  BY <1>1, Zenon DEF SampleShaped
<1> QED
  BY <1>2 DEF SampleIInv, ByButton

\* A step of the form, with the rebuild it may begin.
LEMMA RebuildForm ==
  ASSUME SampleIInv, NEW s, SampleShaped(s), s.kind = smc.kind, s.value = smc.value, s.work = smc.work, NEW force \in BOOLEAN,
         SmcStep(rebuild(s, force))
  PROVE  SampleIInv' /\ NumberStep
<1> DEFINE w == [stage |-> "look", force |-> force, mat |-> s.mat, met |-> s.met, n |-> s.steps]
           q == s.work \cup {w}
           a == [s EXCEPT !.by = "form"]
           b == [s EXCEPT !.by = "form", !.work = q]
           r == rebuild(s, force)
           n == r.steps + 1
<1>1. r = a \/ (r = b /\ ~Paused(force))
  BY Zenon DEF rebuild
<1>2. smc' = [r EXCEPT !.steps = n]
  BY Zenon DEF SmcStep
<1>3. RebuildShaped(w) /\ w.force = force
  BY Zenon DEF RebuildShaped
<1>4. ~Paused(force) => (smc.kind = "saved" => w.force)
  BY <1>3 DEF Paused
<1>5. \A x \in s.work : RebuildShaped(x) /\ (smc.kind = "saved" => x.force)
  BY Zenon DEF SampleIInv, ByButton
<1>6. ~Paused(force) => \A x \in q : RebuildShaped(x) /\ (smc.kind = "saved" => x.force)
  BY <1>3, <1>4, <1>5, Zenon
<1>7. a = [s EXCEPT !.by = "form"] /\ b = [s EXCEPT !.by = "form", !.work = q]
  OBVIOUS
<1> HIDE DEF w, q, a, b, r, n
<1>8. SampleShaped(a) /\ a.kind = smc.kind /\ a.value = smc.value /\ a.work = s.work /\ a.by = "form"
  BY <1>7 DEF SampleShaped
<1>9. SampleShaped(b) /\ b.kind = smc.kind /\ b.value = smc.value /\ b.work = q /\ b.by = "form"
  BY <1>7 DEF SampleShaped
<1>10. /\ SampleShaped(r) /\ r.kind = smc.kind /\ r.value = smc.value /\ r.by = "form"
       /\ \A x \in r.work : RebuildShaped(x) /\ (smc.kind = "saved" => x.force)
  BY <1>1, <1>5, <1>6, <1>8, <1>9, Zenon
<1>11. SampleShaped(smc') /\ smc'.kind = smc.kind /\ smc'.value = smc.value /\ smc'.by = "form" /\ smc'.work = r.work
  BY <1>2, <1>10 DEF SampleShaped
<1>12. SampleIInv'
  BY <1>10, <1>11, Zenon DEF SampleIInv, ByButton
<1>13. NumberStep
  BY <1>11 DEF NumberStep
<1> QED
  BY <1>12, <1>13

LEMMA SampleStep == SampleIInv /\ [SmcNext]_smcVars => SampleIInv' /\ [NumberStep]_smc
<1> SUFFICES ASSUME SampleIInv, SmcNext
             PROVE  SampleIInv' /\ NumberStep
  <2>1. CASE UNCHANGED smcVars
    BY <2>1 DEF smcVars, SampleIInv, SampleShaped, ByButton
  <2> QED
    BY <2>1
<1>1. SampleShaped(smc) /\ \A x \in smc.work : RebuildShaped(x) /\ (smc.kind = "saved" => x.force)
  BY DEF SampleIInv, ByButton
<1>2. CASE PickMaterial
  <2>1. PICK m : SmcStep(rebuild([smc EXCEPT !.mat = m], FALSE))
    BY <1>2 DEF PickMaterial
  <2> DEFINE s == [smc EXCEPT !.mat = m]
  <2>2. s = [smc EXCEPT !.mat = m] /\ SmcStep(rebuild(s, FALSE))
    BY <2>1
  <2> HIDE DEF s
  <2>3. SampleShaped(s) /\ s.kind = smc.kind /\ s.value = smc.value /\ s.work = smc.work
    BY <1>1, <2>2 DEF SampleShaped
  <2> QED
    BY <2>2, <2>3, RebuildForm
<1>3. CASE PickMethod
  <2>1. PICK m : SmcStep(rebuild([smc EXCEPT !.met = m], FALSE))
    BY <1>3 DEF PickMethod
  <2> DEFINE s == [smc EXCEPT !.met = m]
  <2>2. s = [smc EXCEPT !.met = m] /\ SmcStep(rebuild(s, FALSE))
    BY <2>1
  <2> HIDE DEF s
  <2>3. SampleShaped(s) /\ s.kind = smc.kind /\ s.value = smc.value /\ s.work = smc.work
    BY <1>1, <2>2 DEF SampleShaped
  <2> QED
    BY <2>2, <2>3, RebuildForm
<1>4. CASE Renumber
  BY <1>1, <1>4, RebuildForm DEF Renumber
<1>5. CASE TypeSampleCode
  <2>1. PICK v, n : smc' = [smc EXCEPT !.value = v, !.by = "type", !.steps = n]
    BY <1>5, Zenon DEF TypeSampleCode, SmcStep
  <2>2. SampleShaped(smc') /\ smc'.kind = smc.kind /\ smc'.work = smc.work /\ smc'.by = "type"
    BY <1>1, <2>1 DEF SampleShaped
  <2>3. SampleIInv'
    BY <1>1, <2>2, Zenon DEF SampleIInv, ByButton
  <2>4. NumberStep
    BY <2>2 DEF NumberStep
  <2> QED
    BY <2>3, <2>4
<1>6. ASSUME NEW ok \in BOOLEAN, LookedUp(ok)
      PROVE  SampleIInv' /\ NumberStep
  <2>1. PICK w \in smc.work :
          LET s == [smc EXCEPT !.work = @ \ {w}, !.by = ""]
          IN smc' = CASE ~ok -> s
                      [] ok /\ smc.value # EmptyField /\ ~leading(smc.value) /\ ~w.force -> s
                      [] ok /\ leading(smc.value) /\ ~w.force -> Emitted(s, w, smc.value.num)
                      [] OTHER -> [s EXCEPT !.work = @ \cup {[w EXCEPT !.stage = "seq"]}]
    BY <1>6, Zenon DEF LookedUp
  <2> DEFINE q == smc.work \ {w}
             x == [w EXCEPT !.stage = "seq"]
             s == [smc EXCEPT !.work = q, !.by = ""]
             p == s.work \cup {x}
             v == Field(smc.value.num, w.mat, w.met)
             m == IF w.force THEN "button" ELSE "rebuild"
             e == [s EXCEPT !.value = v, !.by = m]
             t == [s EXCEPT !.work = p]
  <2>2. smc' = s \/ (smc' = e /\ ~w.force) \/ smc' = t
    <3>1. smc' = CASE ~ok -> s
                   [] ok /\ smc.value # EmptyField /\ ~leading(smc.value) /\ ~w.force -> s
                   [] ok /\ leading(smc.value) /\ ~w.force -> e
                   [] OTHER -> t
      BY <2>1, Zenon DEF Emitted
    <3> HIDE DEF s, e, t
    <3> QED
      BY <3>1, Zenon
  <2>3. RebuildShaped(w) /\ (smc.kind = "saved" => w.force)
    BY <1>1
  <2>4. x = [w EXCEPT !.stage = "seq"]
    OBVIOUS
  <2>5. v.num = smc.value.num
    BY Zenon DEF Field
  <2>6. ~w.force => m = "rebuild"
    OBVIOUS
  <2>7. s = [smc EXCEPT !.work = q, !.by = ""] /\ e = [s EXCEPT !.value = v, !.by = m] /\ t = [s EXCEPT !.work = p]
    OBVIOUS
  <2>8. q \subseteq smc.work /\ p = s.work \cup {x}
    OBVIOUS
  <2> HIDE DEF q, x, s, p, v, m, e, t
  <2>9. RebuildShaped(x) /\ x.force = w.force
    BY <2>3, <2>4 DEF RebuildShaped
  <2>10. SampleShaped(s) /\ s.kind = smc.kind /\ s.value = smc.value /\ s.work = q /\ s.by = ""
    BY <1>1, <2>7 DEF SampleShaped
  <2>11. SampleShaped(e) /\ e.kind = smc.kind /\ e.value = v /\ e.work = q /\ e.by = m
    BY <2>7, <2>10 DEF SampleShaped
  <2>12. SampleShaped(t) /\ t.kind = smc.kind /\ t.value = smc.value /\ t.work = p /\ t.by = ""
    BY <2>7, <2>10 DEF SampleShaped
  <2>13. \A y \in q : RebuildShaped(y) /\ (smc.kind = "saved" => y.force)
    BY <1>1, <2>8
  <2>14. \A y \in p : RebuildShaped(y) /\ (smc.kind = "saved" => y.force)
    BY <2>3, <2>8, <2>9, <2>10, <2>13, Zenon
  <2>15. SampleIInv'
    BY <2>2, <2>10, <2>11, <2>12, <2>13, <2>14, Zenon DEF SampleIInv, ByButton
  <2>16. NumberStep
    <3>1. CASE smc' = s
      BY <2>10, <3>1 DEF NumberStep
    <3>2. CASE smc' = e /\ ~w.force
      BY <2>3, <2>5, <2>6, <2>11, <3>2 DEF NumberStep
    <3>3. CASE smc' = t
      BY <2>12, <3>3 DEF NumberStep
    <3> QED
      BY <2>2, <3>1, <3>2, <3>3
  <2> QED
    BY <2>15, <2>16
<1>7. ASSUME NEW ok \in BOOLEAN, nextSequence(ok)
      PROVE  SampleIInv' /\ NumberStep
  <2>1. PICK w \in smc.work : smc' = [Emitted([smc EXCEPT !.work = @ \ {w}], w, 0) EXCEPT !.est = ok]
    BY <1>7, Zenon DEF nextSequence
  <2> DEFINE q == smc.work \ {w}
             v == Field(0, w.mat, w.met)
             m == IF w.force THEN "button" ELSE "rebuild"
  <2>2. smc' = [smc EXCEPT !.work = q, !.value = v, !.by = m, !.est = ok]
    BY <2>1, Zenon DEF Emitted
  <2>3. v.num = 0 /\ q \subseteq smc.work /\ (w.force => m = "button")
    BY Zenon DEF Field
  <2>4. smc.kind = "saved" => m = "button"
    BY <1>1, <2>3
  <2> HIDE DEF q, v, m
  <2>5. SampleShaped(smc') /\ smc'.kind = smc.kind /\ smc'.value = v /\ smc'.work = q /\ smc'.by = m
    BY <1>1, <2>2 DEF SampleShaped
  <2>6. SampleIInv'
    BY <1>1, <2>3, <2>5, Zenon DEF SampleIInv, ByButton
  <2>7. NumberStep
    BY <2>3, <2>4, <2>5 DEF NumberStep
  <2> QED
    BY <2>6, <2>7
<1> QED
  BY <1>2, <1>3, <1>4, <1>5, <1>6, <1>7, Zenon DEF SmcNext

SampleSpec == SmcInit /\ [][SmcNext]_smcVars

\* A saved sample's code is changed by typing or the button; a rebuild keeps the number it finds.
THEOREM NumberAlwaysKept == SampleSpec => NeverRenumbered
<1>1. SampleSpec => []SampleIInv
  BY SampleStarts, SampleStep, PTL DEF SampleSpec
<1>2. NumberStep => /\ smc.kind = "saved" /\ smc'.value # smc.value => smc'.by \in {"type", "button"}
                    /\ leading(smc.value) /\ smc'.by = "rebuild" /\ smc'.value.num # 0 => smc'.value.num = smc.value.num
  BY Zenon DEF NumberStep
<1> QED
  BY <1>1, <1>2, SampleStep, PTL DEF SampleSpec, NeverRenumbered

----------------------------------------------------------------------------
(* THE SUITE.                                                              *)

ListSpec == ListInit /\ [][ListNext]_listVars
AuthSpec == AuthInit /\ [][AuthNext]_authVars

\* The rules of the list, for every order in which the answers of its loads, of a bulk
\* delete and of the uploads arrive (CapturesSettings.vue).
THEOREM ListCorrect == ListSpec => [](ListTypeOK /\ RowsAreOfFilter /\ KnownIsLookedUp)
BY ListInitIInv, ListNextIInv, ListHolds, PTL DEF ListSpec

\* "Free up space" sends its DELETE only for what the database held at the re-check
\* (CapturesSettings.vue:528-537).
THEOREM CleanupAlwaysUploaded == ListSpec => CleanupDeletesUploaded
<1>1. ListIInv /\ [ListNext]_listVars =>
        ((bulk.kind = "cleanup" /\ bulk'.at = "delete" /\ bulk.at # "delete") => bulk'.cur \in inDb)
  BY RecheckedIsUploaded DEF listVars
<1> QED
  BY ListInitIInv, ListNextIInv, <1>1, PTL DEF ListSpec, CleanupDeletesUploaded

\* After Cancel a bulk delete takes up nothing more (CapturesSettings.vue:374-379).
THEOREM CancelAlwaysStops == ListSpec => CancelStops
<1>1. ListIInv /\ [ListNext]_listVars => ((bulk.kind # NoItem /\ bulk.cancel) => bulk'.left \in {bulk.left, {}})
  BY CancelledTakesNothing DEF listVars
<1> QED
  BY ListInitIInv, ListNextIInv, <1>1, PTL DEF ListSpec, CancelStops

\* No capture leaves the disk while this page uploads or recovers it (CapturesSettings.vue:316-319, 580).
THEOREM NeverDeletedUnderUpload == ListSpec => NoDeleteUnderUpload
<1>1. ListIInv /\ [ListNext]_listVars => \A c \in Caps : (disk[c] # "gone" /\ disk'[c] = "gone") => busyAt[c] = "deleting"
  BY DeletedWasMarked DEF listVars
<1> QED
  BY ListInitIInv, ListNextIInv, <1>1, PTL DEF ListSpec, NoDeleteUnderUpload

\* No row is touched by two operations (CapturesSettings.vue:580).
THEOREM AlwaysOneAtATime == ListSpec => OneAtATime
<1>1. ListIInv /\ [ListNext]_listVars => \A c \in Caps : busyAt[c] # "no" => busyAt'[c] \in {busyAt[c], "no"}
  BY BusyEndsFirst DEF listVars
<1> QED
  BY ListInitIInv, ListNextIInv, <1>1, PTL DEF ListSpec, OneAtATime

\* The rules of the session, its tokens and the offline vault, for every order of sign-ins,
\* refreshes, refusals and outages (authStore.ts, offlineAuth.ts).
THEOREM AuthCorrect ==
  AuthSpec => [](AuthTypeOK /\ TokensOfUser /\ RefusedIsForgotten /\ OfflineWasOnline /\ OutageKeepsSession)
BY AuthInitIInv, AuthNextIInv, AuthHolds, PTL DEF AuthSpec

\* An offline session is opened only with the recent password of the entry, and not while
\* the throttle waits (offlineAuth.ts).
THEOREM OfflineAlwaysTheirs == AuthSpec => OfflineIsTheirs
<1>1. AuthIInv /\ [AuthNext]_authVars =>
        ((ses'.offline /\ ~ses.offline) => vault[login.who].pw = login.pw /\ vault[login.who].fresh /\ ~lock.wait)
  BY OfflineOpened DEF authVars
<1> QED
  BY AuthInitIInv, AuthNextIInv, <1>1, PTL DEF AuthSpec, OfflineIsTheirs

\* A step of the suite is a step of one of its components and leaves the others alone.
LEMMA SuiteInit ==
  Init => /\ UploadInit /\ ListInit /\ SyncInit /\ AuthInit /\ GrdInit /\ CrwInit /\ CamInit /\ OpcInit /\ SmcInit
BY Zenon DEF Init

LEMMA SuiteNext ==
  [Next]_vars => /\ [UploadNext]_uploadVars /\ [ListNext]_listVars /\ [SyncNext]_syncVars /\ [AuthNext]_authVars
                   /\ [GrdNext]_grdVars /\ [CrwNext]_crwVars /\ [CamNext]_camVars /\ [OpcNext]_opcVars /\ [SmcNext]_smcVars
BY Zenon DEF Next, vars

LEMMA SuiteComponents ==
  Spec => /\ UploadSpec /\ ListSpec /\ SyncSpec /\ AuthSpec
          /\ GuardSpec /\ CrawlSpec /\ CampaignSpec /\ CodeSpec /\ SampleSpec
BY SuiteInit, SuiteNext, PTL DEF Spec, UploadSpec, ListSpec, SyncSpec, AuthSpec, GuardSpec, CrawlSpec, CampaignSpec, CodeSpec,
                                 SampleSpec

\* CapturesSafe, whole: no capture is called redundant or done before the database holds it, none
\* is entered twice, the list is what was asked for and looked up, no queued run is lost, doubled
\* or given away, and the session's tokens are its user's.
THEOREM CapturesCorrect == Spec => []CapturesSafe
<1>1. /\ UploadSpec => [](UploadTypeOK /\ RedundantIsComplete /\ OneOperation /\ OneAnalysisPerOperation /\ DoneIsComplete)
      /\ SyncSpec => [](SyncTypeOK /\ DiscardIsFinal /\ NoRunLost /\ NoSecondRow /\ OwnedByRecorder)
  BY UploadTypeCorrect, RedundantAlwaysComplete, NeverTwoOperations, NeverTwoAnalyses, DoneAlwaysComplete, QueueTypeCorrect,
     DiscardAlwaysFinal, NeverRunLost, NeverSecondRow, AlwaysOwnedByRecorder, PTL
<1>2. (/\ UploadTypeOK /\ RedundantIsComplete /\ OneOperation /\ OneAnalysisPerOperation /\ DoneIsComplete
       /\ SyncTypeOK /\ DiscardIsFinal /\ NoRunLost /\ NoSecondRow /\ OwnedByRecorder
       /\ ListTypeOK /\ RowsAreOfFilter /\ KnownIsLookedUp
       /\ AuthTypeOK /\ TokensOfUser /\ RefusedIsForgotten /\ OfflineWasOnline /\ OutageKeepsSession) => CapturesSafe
  BY DEF CapturesSafe
<1> QED
  BY SuiteComponents, ListCorrect, AuthCorrect, <1>1, <1>2, PTL

\* DatabaseSteps, whole: what no step of an upload, the list, the queue, the session, the guard,
\* the crawler page, the campaign panels and the code fields does.
THEOREM StepsCorrect == Spec => DatabaseSteps
BY SuiteComponents, LinkNeverOverwritten, CleanupAlwaysUploaded, CancelAlwaysStops, NeverDeletedUnderUpload, AlwaysOneAtATime,
   OthersAlwaysLeft, OfflineAlwaysTheirs, GrantsAlwaysOwners, DraftAlwaysKept, TakenNever, OverrideAlwaysKept, NumberAlwaysKept,
   PTL DEF DatabaseSteps
=============================================================================
