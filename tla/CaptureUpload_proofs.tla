------------------------ MODULE CaptureUpload_proofs ------------------------
(***************************************************************************)
(* What holds of the upload of a capture for any number of faults, reloads *)
(* and attempts, whether or not the recorder wrote a .mat.                 *)
(*                                                                         *)
(* That a row is complete cannot be seen from the row an attempt works on, *)
(* so the invariant follows what an attempt knows: a file it counts as     *)
(* sent is remembered (FilesHeld), the row it will link is there and keeps *)
(* its links (RowThere), and the links it takes for missing are missing    *)
(* (RowKnown).  A second row needs an attempt that inserts although there  *)
(* is one: it remembers the operation (Remembered), has asked for it       *)
(* (InsertIsFirst), or is the first there ever was (LiveFirst).            *)
(***************************************************************************)
EXTENDS CaptureUpload, FiniteSetTheorems, TLAPS

Ids == Callers \union {Nil}
FileLinks == {"cache", "mat"}
UploadStages == {"idle", "lookup", "insert", "adopt", "files", "link", "failed", "returned", "confirm"}
Marks == {"skip", "send", "sent", "lost"}
Row == [id : Nat, op : Nat, cache : Ids, mat : Ids]
Prog == [op : Nat, attempted : BOOLEAN, mat : Ids, cache : Ids, done : BOOLEAN, row : Row]
Attempt == [at : UploadStages, existing : BOOLEAN, cache : Marks, mat : Marks, matFailed : BOOLEAN, op : Nat]
UploadPast == [faults : Nat, lookupFailed : BOOLEAN, overlapped : BOOLEAN, removed : BOOLEAN, everRemoved : BOOLEAN,
         live : BOOLEAN, others : Nat]

UploadTyped ==
    /\ db \in [ops : SUBSET Nat, ana : SUBSET Row] /\ prog \in Prog
    /\ up \in [Callers -> Attempt] /\ past \in UploadPast
    /\ shown \in {"unknown", "no", "partial", "uploaded"}

\* Rows are numbered in the order in which they were inserted.
RowsNumbered ==
    /\ IsFiniteSet(db.ops) /\ db.ops \subseteq 1 .. Cardinality(db.ops) /\ (db.ops # {} => 1 \in db.ops)
    /\ IsFiniteSet(db.ana) /\ \A r \in db.ana : r.id \in 1 .. Cardinality(db.ana) /\ r.op \in db.ops
    /\ \A r, s \in db.ana : r.id = s.id => r = s
    /\ prog.op \in db.ops \union {0}
    /\ \A u \in Callers : up[u].at \in {"adopt", "files", "link"} => up[u].op \in db.ops

Alone == ~past.overlapped => \A u, v \in Callers : Uploading(u) /\ Uploading(v) => u = v

\* While only the Save dialog has tried, what it remembers says whether there is a row.
LiveFirst ==
    past.live => /\ \A u \in Callers \ {"live"} : ~Uploading(u)
                 /\ ~prog.attempted => db.ops = {} /\ up["live"].at # "insert"

Listed == \A u \in Callers : up[u].at = "confirm" => u = "list"

InsertIsFirst ==
    ~past.overlapped /\ ~past.lookupFailed => \A u \in Callers : up[u].at = "insert" => db.ops = {}

\* An attempt works on the operation that is remembered, and so does the row.
Remembered ==
    ~past.overlapped =>
        /\ prog.op = 0 => prog.row = NoRow
        /\ \A u \in Callers : /\ up[u].at \in {"lookup", "insert"} => prog.op = 0
                              /\ up[u].at \in {"adopt", "files", "link"} => prog.op # 0 /\ up[u].op = prog.op
        /\ prog.row # NoRow => prog.row.op = prog.op /\ \E r \in db.ana : r.id = prog.row.id /\ r.op = prog.op

\* An attempt that knows of no row has none to know of, one that knows a row knows all its links.
RowKnown ==
    ~past.overlapped => \A u \in Callers :
        /\ up[u].at = "adopt" /\ ~up[u].existing => prog.row = NoRow /\ \A r \in db.ana : r.op # up[u].op
        /\ up[u].at \in {"files", "link"} /\ ~prog.done =>
              /\ prog.row = NoRow => \A r \in db.ana : r.op # up[u].op
              /\ prog.row # NoRow => \A r \in db.ana : r.id = prog.row.id =>
                                        \A f \in FileLinks : prog.row[f] = Nil => r[f] = Nil

RowThere ==
    \/ past.everRemoved \/ prog.row = NoRow
    \/ \E r \in db.ana : r.id = prog.row.id /\ \A f \in FileLinks : prog.row[f] # Nil => r[f] # Nil

Whole == past.everRemoved \/ analysisComplete(db.ana)

FilesHeld ==
    Whole \/ \A u \in Callers :
        /\ up[u].at \notin {"returned", "confirm"}
        /\ up[u].at = "files" => /\ up[u].cache \in {"sent", "skip"} => prog.cache # Nil
                                 /\ up[u].mat \in {"sent", "skip"} => MatThere(prog.mat)
        /\ up[u].at = "link" => prog.cache # Nil /\ (~up[u].matFailed => MatThere(prog.mat))

UploadRuled == /\ RowsNumbered /\ Alone /\ LiveFirst /\ Listed /\ InsertIsFirst /\ Remembered /\ RowKnown /\ RowThere /\ FilesHeld
         /\ RedundantIsComplete /\ OneOperation /\ OneAnalysisPerOperation /\ DoneIsComplete
UploadIInv == UploadTyped /\ UploadRuled

----------------------------------------------------------------------------
(* Lemmas about the helpers.                                               *)

LEMMA Nothing == NoRow \in Row /\ NoProgress \in Prog /\ IdleUpload \in Attempt
<1>1. NoRow \in Row
  BY DEF NoRow, Row, Ids
<1>2. NoProgress \in Prog
  BY <1>1 DEF NoProgress, Prog, Ids
<1>3. IdleUpload \in Attempt
  BY DEF IdleUpload, Attempt, UploadStages, Marks
<1> QED
  BY <1>1, <1>2, <1>3

\* A fault counts, and changes nothing else of the history.
LEMMA FaultedFact ==
  ASSUME past \in UploadPast
  PROVE  /\ UploadFaulted(past) \in UploadPast
         /\ UploadFaulted(past).lookupFailed = past.lookupFailed /\ UploadFaulted(past).overlapped = past.overlapped
         /\ UploadFaulted(past).removed = past.removed /\ UploadFaulted(past).everRemoved = past.everRemoved
         /\ UploadFaulted(past).live = past.live
<1>1. past.faults + 1 \in Nat
  BY DEF UploadPast
<1> QED
  BY <1>1 DEF UploadFaulted, UploadPast

\* findAnalysisRow() finds a row of the operation whenever there is one.
LEMMA FoundFact ==
  ASSUME NEW op
  PROVE  \/ findAnalysisRow(op) = NoRow /\ \A r \in db.ana : r.op # op
         \/ findAnalysisRow(op) \in db.ana /\ findAnalysisRow(op).op = op
<1> DEFINE rows == {r \in db.ana : r.op = op}
           best == CHOOSE r \in rows : \A o \in rows : Links(o) <= Links(r)
<1>1. CASE rows = {}
  BY <1>1 DEF findAnalysisRow
<1>2. CASE rows # {}
  <2>1. \A r : Links(r) \in 0 .. 2
    BY DEF Links
  <2>2. \E r \in rows : \A o \in rows : Links(o) <= Links(r)
    <3> HIDE DEF rows
    <3>1. CASE \E r \in rows : Links(r) = 2
      BY <2>1, <3>1
    <3>2. CASE (\A r \in rows : Links(r) # 2) /\ \E r \in rows : Links(r) = 1
      BY <2>1, <3>2
    <3>3. CASE \A r \in rows : Links(r) # 2 /\ Links(r) # 1
      BY <1>2, <2>1, <3>3
    <3> QED
      BY <3>1, <3>2, <3>3
  <2>3. best \in rows
    BY <2>2
  <2>4. findAnalysisRow(op) = best
    BY <1>2 DEF findAnalysisRow
  <2> QED
    BY <2>3, <2>4
<1> QED
  BY <1>1, <1>2

\* The oldest operation is the first one.
LEMMA OldestIsFirst ==
  ASSUME RowsNumbered, db.ops # {}
  PROVE  Min(db.ops) = 1 /\ 1 \in db.ops
<1>1. Cardinality(db.ops) \in Nat /\ 1 \in db.ops /\ \A x \in db.ops : x \in Nat /\ 1 <= x
  BY FS_CardinalityType DEF RowsNumbered
<1>2. \A x \in db.ops : (\A y \in db.ops : x <= y) => x = 1
  BY <1>1
<1> QED
  BY <1>1, <1>2 DEF Min

\* A set keeps its size when a member is replaced by one of the same number.
LEMMA Replaced ==
  ASSUME NEW S, IsFiniteSet(S), NEW x \in S, NEW y, y.id = x.id, \A r, s \in S : r.id = s.id => r = s
  PROVE  /\ IsFiniteSet((S \ {x}) \union {y}) /\ Cardinality((S \ {x}) \union {y}) = Cardinality(S)
         /\ \A r, s \in (S \ {x}) \union {y} : r.id = s.id => r = s
<1>1. IsFiniteSet(S \ {x}) /\ Cardinality(S \ {x}) = Cardinality(S) - 1 /\ Cardinality(S) \in Nat
  BY FS_RemoveElement, FS_CardinalityType
<1>2. y \notin S \ {x}
  OBVIOUS
<1>3. IsFiniteSet((S \ {x}) \union {y}) /\ Cardinality((S \ {x}) \union {y}) = Cardinality(S \ {x}) + 1
  BY <1>1, <1>2, FS_AddElement
<1> QED
  BY <1>1, <1>3

LEMMA UploadNextTyped == UploadIInv /\ [UploadNext]_uploadVars => UploadTyped'
<1> SUFFICES ASSUME UploadTyped, RowsNumbered, [UploadNext]_uploadVars PROVE UploadTyped'
  BY DEF UploadIInv, UploadRuled
<1> USE Nothing, FaultedFact
<1>1. ASSUME NEW u \in Callers, BeginUpload(u) PROVE UploadTyped'
  <2>1. db' \in [ops : SUBSET Nat, ana : SUBSET Row]
    BY <1>1 DEF BeginUpload, Entry, UploadStages, Marks, UploadTyped, Row
  <2>2. prog' \in Prog
    BY <1>1 DEF BeginUpload, Entry, UploadStages, Marks, UploadTyped, Prog
  <2>3. up' \in [Callers -> Attempt]
    <3>1. Entry(u) \in UploadStages /\ prog.op \in Nat
      BY DEF Entry, UploadStages, UploadTyped, Prog
    <3>2. up' = [up EXCEPT ![u] = [IdleUpload EXCEPT !.at = Entry(u), !.existing = (Entry(u) = "adopt"), !.op = prog.op]]
      BY <1>1 DEF BeginUpload
    <3>3. [IdleUpload EXCEPT !.at = Entry(u), !.existing = (Entry(u) = "adopt"), !.op = prog.op] \in Attempt
      BY <3>1 DEF IdleUpload, Attempt, Marks
    <3> QED
      BY <3>2, <3>3 DEF UploadTyped
  <2>4. past' \in UploadPast
    <3> DEFINE o == past.overlapped \/ \E v \in Callers \ {u} : Uploading(v)
               l == past.live /\ u = "live"
               n == IF u = "list" THEN past.others ELSE past.others + 1
    <3>1. past' = [past EXCEPT !.overlapped = o, !.live = l, !.others = n]
      BY <1>1 DEF BeginUpload
    <3>2. n \in Nat
      BY DEF UploadTyped, UploadPast
    <3>3. o \in BOOLEAN /\ l \in BOOLEAN
      BY DEF UploadTyped, UploadPast
    <3> HIDE DEF o, l, n
    <3> QED
      BY <3>1, <3>2, <3>3 DEF UploadTyped, UploadPast
  <2>5. shown' \in {"unknown", "no", "partial", "uploaded"}
    BY <1>1 DEF BeginUpload, Entry, UploadStages, Marks, UploadTyped
  <2> QED
    BY <2>1, <2>2, <2>3, <2>4, <2>5 DEF UploadTyped
<1>2. ASSUME NEW u \in Callers, LookupAnswered(u) PROVE UploadTyped'
  <2>1. db' \in [ops : SUBSET Nat, ana : SUBSET Row]
    BY <1>2 DEF LookupAnswered, UploadStages, UploadTyped, Row
  <2>2. prog' \in Prog
    <3>1. db.ops # {} => Min(db.ops) \in Nat
      BY OldestIsFirst
    <3> QED
      BY <1>2, <3>1 DEF LookupAnswered, UploadTyped, Prog
  <2>3. up' \in [Callers -> Attempt]
    <3>1. db.ops # {} => Min(db.ops) \in Nat
      BY OldestIsFirst
    <3> QED
      BY <1>2, <3>1 DEF LookupAnswered, UploadStages, UploadTyped, Attempt
  <2>4. past' \in UploadPast
    BY <1>2 DEF LookupAnswered, UploadStages, UploadTyped, UploadPast
  <2>5. shown' \in {"unknown", "no", "partial", "uploaded"}
    BY <1>2 DEF LookupAnswered, UploadStages, UploadTyped
  <2> QED
    BY <2>1, <2>2, <2>3, <2>4, <2>5 DEF UploadTyped
<1>3. ASSUME NEW u \in Callers, LookupFails(u) PROVE UploadTyped'
  <2>1. db' \in [ops : SUBSET Nat, ana : SUBSET Row]
    BY <1>3 DEF LookupFails, UploadStages, UploadTyped, Row
  <2>2. prog' \in Prog
    BY <1>3 DEF LookupFails, UploadStages, UploadTyped, Prog
  <2>3. up' \in [Callers -> Attempt]
    BY <1>3 DEF LookupFails, UploadStages, UploadTyped, Attempt
  <2>4. past' \in UploadPast
    <3>1. UploadFaulted(past) \in UploadPast
      BY DEF UploadTyped
    <3> QED
      BY <1>3, <3>1 DEF LookupFails, UploadPast
  <2>5. shown' \in {"unknown", "no", "partial", "uploaded"}
    BY <1>3 DEF LookupFails, UploadStages, UploadTyped
  <2> QED
    BY <2>1, <2>2, <2>3, <2>4, <2>5 DEF UploadTyped
<1>4. ASSUME NEW u \in Callers, NEW reply \in Replies, InsertOperation(u, reply) PROVE UploadTyped'
  <2>1. db' \in [ops : SUBSET Nat, ana : SUBSET Row]
    <3> DEFINE new == Cardinality(db.ops) + 1
    <3>1. new \in Nat
      BY FS_CardinalityType DEF RowsNumbered
    <3>2. db' = IF reply = "failed" THEN db ELSE [db EXCEPT !.ops = @ \union {new}]
      BY <1>4 DEF InsertOperation
    <3> HIDE DEF new
    <3> QED
      BY <3>1, <3>2 DEF UploadTyped
  <2>2. prog' \in Prog
    <3> DEFINE new == Cardinality(db.ops) + 1
    <3>1. new \in Nat
      BY FS_CardinalityType DEF RowsNumbered
    <3>2. prog' = IF reply = "ok" THEN [prog EXCEPT !.op = new] ELSE prog
      BY <1>4 DEF InsertOperation
    <3> HIDE DEF new
    <3> QED
      BY <3>1, <3>2 DEF UploadTyped, Prog
  <2>3. up' \in [Callers -> Attempt]
    <3> DEFINE new == Cardinality(db.ops) + 1
    <3>1. new \in Nat
      BY FS_CardinalityType DEF RowsNumbered
    <3> DEFINE a == IF reply = "ok" THEN "adopt" ELSE "failed"
    <3>2. up' = [up EXCEPT ![u].at = a, ![u].op = new]
      BY <1>4 DEF InsertOperation
    <3>3. a \in UploadStages
      BY DEF UploadStages
    <3> HIDE DEF new, a
    <3> QED
      BY <3>1, <3>2, <3>3 DEF UploadTyped, Attempt
  <2>4. past' \in UploadPast
    BY <1>4 DEF InsertOperation, UploadStages, UploadTyped, UploadPast
  <2>5. shown' \in {"unknown", "no", "partial", "uploaded"}
    BY <1>4 DEF InsertOperation, UploadStages, UploadTyped
  <2> QED
    BY <2>1, <2>2, <2>3, <2>4, <2>5 DEF UploadTyped
<1>5. ASSUME NEW u \in Callers, AdoptExistingAnalysis(u) PROVE UploadTyped'
  <2>1. db' \in [ops : SUBSET Nat, ana : SUBSET Row]
    BY <1>5 DEF AdoptExistingAnalysis, FilesOf, UploadStages, Marks, UploadTyped, Row
  <2>2. prog' \in Prog
    <3> DEFINE row == IF prog.done \/ ~up[u].existing THEN NoRow ELSE findAnalysisRow(up[u].op)
               p == IF row = NoRow THEN prog
                    ELSE [prog EXCEPT !.row = row, !.cache = IF row.cache # Nil THEN row.cache ELSE @,
                                      !.mat = IF row.mat # Nil THEN row.mat ELSE @]
    <3>1. row \in Row
      BY FoundFact DEF UploadTyped
    <3>2. prog' = p /\ up' = [up EXCEPT ![u] = FilesOf(p, up[u])]
      BY <1>5 DEF AdoptExistingAnalysis
    <3> HIDE DEF row
    <3> QED
      BY <3>1, <3>2 DEF UploadTyped, Prog, Row
  <2>3. up' \in [Callers -> Attempt]
    <3> DEFINE row == IF prog.done \/ ~up[u].existing THEN NoRow ELSE findAnalysisRow(up[u].op)
               p == IF row = NoRow THEN prog
                    ELSE [prog EXCEPT !.row = row, !.cache = IF row.cache # Nil THEN row.cache ELSE @,
                                      !.mat = IF row.mat # Nil THEN row.mat ELSE @]
    <3>1. row \in Row
      BY FoundFact DEF UploadTyped
    <3>2. prog' = p /\ up' = [up EXCEPT ![u] = FilesOf(p, up[u])]
      BY <1>5 DEF AdoptExistingAnalysis
    <3> HIDE DEF row
    <3> HIDE DEF p
    <3>3. FilesOf(p, up[u]) \in Attempt
      BY DEF FilesOf, UploadTyped, Attempt, UploadStages, Marks
    <3> QED
      BY <3>2, <3>3 DEF UploadTyped
  <2>4. past' \in UploadPast
    BY <1>5 DEF AdoptExistingAnalysis, FilesOf, UploadStages, Marks, UploadTyped, UploadPast
  <2>5. shown' \in {"unknown", "no", "partial", "uploaded"}
    BY <1>5 DEF AdoptExistingAnalysis, FilesOf, UploadStages, Marks, UploadTyped
  <2> QED
    BY <2>1, <2>2, <2>3, <2>4, <2>5 DEF UploadTyped
<1>6. ASSUME NEW u \in Callers, AdoptFails(u) PROVE UploadTyped'
  <2>1. db' \in [ops : SUBSET Nat, ana : SUBSET Row]
    BY <1>6 DEF AdoptFails, UploadStages, UploadTyped, Row
  <2>2. prog' \in Prog
    BY <1>6 DEF AdoptFails, UploadStages, UploadTyped, Prog
  <2>3. up' \in [Callers -> Attempt]
    BY <1>6 DEF AdoptFails, UploadStages, UploadTyped, Attempt
  <2>4. past' \in UploadPast
    BY <1>6 DEF AdoptFails, UploadStages, UploadTyped, UploadPast
  <2>5. shown' \in {"unknown", "no", "partial", "uploaded"}
    BY <1>6 DEF AdoptFails, UploadStages, UploadTyped
  <2> QED
    BY <2>1, <2>2, <2>3, <2>4, <2>5 DEF UploadTyped
<1>7. ASSUME NEW u \in Callers, NEW f \in {"cache", "mat"}, NEW ok \in BOOLEAN, FileSent(u, f, ok) PROVE UploadTyped'
  <2>1. db' \in [ops : SUBSET Nat, ana : SUBSET Row]
    BY <1>7 DEF FileSent, Marks, Ids, UploadTyped, Row
  <2>2. prog' \in Prog
    BY <1>7 DEF FileSent, Marks, Ids, UploadTyped, Prog
  <2>3. up' \in [Callers -> Attempt]
    BY <1>7 DEF FileSent, Marks, Ids, UploadTyped, Attempt
  <2>4. past' \in UploadPast
    BY <1>7 DEF FileSent, Marks, Ids, UploadTyped, UploadPast
  <2>5. shown' \in {"unknown", "no", "partial", "uploaded"}
    BY <1>7 DEF FileSent, Marks, Ids, UploadTyped
  <2> QED
    BY <2>1, <2>2, <2>3, <2>4, <2>5 DEF UploadTyped
<1>8. ASSUME NEW u \in Callers, FilesSettled(u) PROVE UploadTyped'
  <2>1. db' \in [ops : SUBSET Nat, ana : SUBSET Row]
    BY <1>8 DEF FilesSettled, UploadStages, UploadTyped, Row
  <2>2. prog' \in Prog
    BY <1>8 DEF FilesSettled, UploadStages, UploadTyped, Prog
  <2>3. up' \in [Callers -> Attempt]
    <3> DEFINE a == IF up[u].cache = "lost" THEN "failed" ELSE "link"
               m == up[u].mat = "lost"
    <3>1. up' = [up EXCEPT ![u].at = a, ![u].matFailed = m]
      BY <1>8 DEF FilesSettled
    <3>2. a \in UploadStages /\ m \in BOOLEAN
      BY DEF UploadStages
    <3> HIDE DEF a, m
    <3> QED
      BY <3>1, <3>2 DEF UploadTyped, Attempt
  <2>4. past' \in UploadPast
    BY <1>8 DEF FilesSettled, UploadStages, UploadTyped, UploadPast
  <2>5. shown' \in {"unknown", "no", "partial", "uploaded"}
    BY <1>8 DEF FilesSettled, UploadStages, UploadTyped
  <2> QED
    BY <2>1, <2>2, <2>3, <2>4, <2>5 DEF UploadTyped
<1>9. ASSUME NEW u \in Callers, NEW reply \in Replies, PatchAnalysis(u, reply) PROVE UploadTyped'
  <2>1. db' \in [ops : SUBSET Nat, ana : SUBSET Row]
    <3> DEFINE patch(r) == [r EXCEPT !.cache = IF prog.row.cache = Nil /\ prog.cache # Nil THEN prog.cache ELSE @,
                                     !.mat = IF prog.row.mat = Nil /\ prog.mat # Nil THEN prog.mat ELSE @]
               f(r) == IF r.id = prog.row.id THEN patch(r) ELSE r
    <3>1. db' = IF prog.done \/ reply = "failed" THEN db ELSE [db EXCEPT !.ana = {f(r) : r \in @}]
      BY <1>9, Zenon DEF PatchAnalysis
    <3>2. \A r \in Row : f(r) \in Row
      BY DEF Row, UploadTyped, Prog
    <3> HIDE DEF f
    <3>3. {f(r) : r \in db.ana} \subseteq Row /\ db.ana \subseteq Row /\ db.ops \subseteq Nat
      BY <3>2 DEF UploadTyped
    <3>4. db' = db \/ db' = [db EXCEPT !.ana = {f(r) : r \in db.ana}]
      BY <3>1
    <3> QED
      BY <3>3, <3>4 DEF UploadTyped
  <2>2. prog' \in Prog
    BY <1>9 DEF PatchAnalysis, UploadStages, Ended, MarkDone, UploadTyped, Prog
  <2>3. up' \in [Callers -> Attempt]
    <3> DEFINE a == IF reply = "ok" THEN Ended(u) ELSE "failed"
    <3>1. a \in UploadStages
      BY DEF UploadStages, Ended
    <3>2. up' = [up EXCEPT ![u].at = a]
      BY <1>9 DEF PatchAnalysis
    <3> HIDE DEF a
    <3> QED
      BY <3>1, <3>2 DEF UploadTyped, Attempt
  <2>4. past' \in UploadPast
    <3>1. UploadFaulted(past) \in UploadPast
      BY DEF UploadTyped
    <3>2. past' = past \/ past' = UploadFaulted(past)
      BY <1>9 DEF PatchAnalysis
    <3> QED
      BY <3>1, <3>2 DEF UploadTyped
  <2>5. shown' \in {"unknown", "no", "partial", "uploaded"}
    BY <1>9 DEF PatchAnalysis, UploadStages, Ended, MarkDone, UploadTyped
  <2> QED
    BY <2>1, <2>2, <2>3, <2>4, <2>5 DEF UploadTyped
<1>10. ASSUME NEW u \in Callers, NEW reply \in Replies, PostAnalysis(u, reply) PROVE UploadTyped'
  <2>1. db' \in [ops : SUBSET Nat, ana : SUBSET Row]
    <3> DEFINE row == [id |-> Cardinality(db.ana) + 1, op |-> up[u].op, cache |-> prog.cache, mat |-> prog.mat]
    <3>1. db' = IF reply = "failed" THEN db ELSE [db EXCEPT !.ana = @ \union {row}]
      BY <1>10 DEF PostAnalysis
    <3>2. Cardinality(db.ana) + 1 \in Nat
      BY FS_CardinalityType DEF RowsNumbered
    <3>3. up[u].op \in Nat /\ prog.cache \in Ids /\ prog.mat \in Ids
      BY DEF UploadTyped, Attempt, Prog
    <3>4. row \in Row
      BY <3>2, <3>3 DEF Row
    <3> HIDE DEF row
    <3> QED
      BY <3>1, <3>4 DEF UploadTyped
  <2>2. prog' \in Prog
    BY <1>10 DEF PostAnalysis, UploadStages, Ended, UploadTyped, Prog
  <2>3. up' \in [Callers -> Attempt]
    <3> DEFINE a == IF reply = "ok" THEN Ended(u) ELSE "failed"
    <3>1. a \in UploadStages
      BY DEF UploadStages, Ended
    <3>2. up' = [up EXCEPT ![u].at = a]
      BY <1>10 DEF PostAnalysis
    <3> HIDE DEF a
    <3> QED
      BY <3>1, <3>2 DEF UploadTyped, Attempt
  <2>4. past' \in UploadPast
    BY <1>10 DEF PostAnalysis, UploadStages, Ended, UploadTyped, UploadPast
  <2>5. shown' \in {"unknown", "no", "partial", "uploaded"}
    BY <1>10 DEF PostAnalysis, UploadStages, Ended, UploadTyped
  <2> QED
    BY <2>1, <2>2, <2>3, <2>4, <2>5 DEF UploadTyped
<1>11. ASSUME NEW u \in Callers, Outcome(u) PROVE UploadTyped'
  <2>1. db' \in [ops : SUBSET Nat, ana : SUBSET Row]
    BY <1>11 DEF Outcome, UploadStages, Marks, UploadTyped, Row
  <2>2. prog' \in Prog
    BY <1>11 DEF Outcome, UploadStages, Marks, UploadTyped, Prog
  <2>3. up' \in [Callers -> Attempt]
    BY <1>11 DEF Outcome, UploadStages, Marks, UploadTyped, Attempt
  <2>4. past' \in UploadPast
    BY <1>11 DEF Outcome, UploadStages, Marks, UploadTyped, UploadPast
  <2>5. shown' \in {"unknown", "no", "partial", "uploaded"}
    BY <1>11 DEF Outcome, UploadStages, Marks, UploadTyped
  <2> QED
    BY <2>1, <2>2, <2>3, <2>4, <2>5 DEF UploadTyped
<1>12. ASSUME NEW u \in Callers, NEW answered \in BOOLEAN, ConfirmUploadState(u, answered) PROVE UploadTyped'
  <2>1. db' \in [ops : SUBSET Nat, ana : SUBSET Row]
    BY <1>12 DEF ConfirmUploadState, UploadStages, Marks, Ids, UploadTyped, Row
  <2>2. prog' \in Prog
    <3>1. prog' \in {prog, NoProgress}
      BY <1>12 DEF ConfirmUploadState
    <3> QED
      BY <3>1 DEF UploadTyped
  <2>3. up' \in [Callers -> Attempt]
    BY <1>12 DEF ConfirmUploadState, UploadStages, Marks, Ids, UploadTyped, Attempt
  <2>4. past' \in UploadPast
    BY <1>12 DEF ConfirmUploadState, UploadStages, Marks, Ids, UploadTyped, UploadPast
  <2>5. shown' \in {"unknown", "no", "partial", "uploaded"}
    BY <1>12 DEF ConfirmUploadState, UploadStages, Marks, Ids, UploadTyped
  <2> QED
    BY <2>1, <2>2, <2>3, <2>4, <2>5 DEF UploadTyped
<1>13. ASSUME NEW answered \in BOOLEAN, ListLookup(answered) PROVE UploadTyped'
  <2>1. db' \in [ops : SUBSET Nat, ana : SUBSET Row]
    BY <1>13 DEF ListLookup, UploadTyped, Row
  <2>2. prog' \in Prog
    BY <1>13 DEF ListLookup, UploadTyped, Prog
  <2>3. up' \in [Callers -> Attempt]
    BY <1>13 DEF ListLookup, UploadTyped, Attempt
  <2>4. past' \in UploadPast
    <3> DEFINE q == IF answered THEN past ELSE UploadFaulted(past)
    <3>1. q \in UploadPast
      BY DEF UploadTyped
    <3>2. past' = [q EXCEPT !.removed = FALSE, !.live = FALSE]
      BY <1>13 DEF ListLookup
    <3> HIDE DEF q
    <3> QED
      BY <3>1, <3>2 DEF UploadPast
  <2>5. shown' \in {"unknown", "no", "partial", "uploaded"}
    BY <1>13 DEF ListLookup, UploadTyped
  <2> QED
    BY <2>1, <2>2, <2>3, <2>4, <2>5 DEF UploadTyped
<1>14. ASSUME NEW f \in {"cache", "mat"}, FileRemoved(f) PROVE UploadTyped'
  <2>1. db' \in [ops : SUBSET Nat, ana : SUBSET Row]
    BY <1>14 DEF FileRemoved, Ids, UploadTyped, Row
  <2>2. prog' \in Prog
    BY <1>14 DEF FileRemoved, Ids, UploadTyped, Prog
  <2>3. up' \in [Callers -> Attempt]
    BY <1>14 DEF FileRemoved, Ids, UploadTyped, Attempt
  <2>4. past' \in UploadPast
    <3>1. UploadFaulted(past) \in UploadPast /\ past' = [UploadFaulted(past) EXCEPT !.removed = TRUE, !.everRemoved = TRUE]
      BY <1>14 DEF FileRemoved, UploadTyped
    <3> QED
      BY <3>1 DEF UploadPast
  <2>5. shown' \in {"unknown", "no", "partial", "uploaded"}
    BY <1>14 DEF FileRemoved, Ids, UploadTyped
  <2> QED
    BY <2>1, <2>2, <2>3, <2>4, <2>5 DEF UploadTyped
<1>15. ASSUME UploadReload PROVE UploadTyped'
  <2>1. db' \in [ops : SUBSET Nat, ana : SUBSET Row]
    BY <1>15 DEF UploadReload, UploadStages, Marks, Ids, UploadTyped, Row
  <2>2. prog' \in Prog
    BY <1>15 DEF UploadReload, UploadTyped
  <2>3. up' \in [Callers -> Attempt]
    BY <1>15 DEF UploadReload, UploadStages, Marks, Ids, UploadTyped, Attempt
  <2>4. past' \in UploadPast
    <3>1. UploadFaulted(past) \in UploadPast /\ past' = [UploadFaulted(past) EXCEPT !.live = FALSE]
      BY <1>15 DEF UploadReload, UploadTyped
    <3> QED
      BY <3>1 DEF UploadPast
  <2>5. shown' \in {"unknown", "no", "partial", "uploaded"}
    BY <1>15 DEF UploadReload, UploadStages, Marks, Ids, UploadTyped
  <2> QED
    BY <2>1, <2>2, <2>3, <2>4, <2>5 DEF UploadTyped
<1>16. ASSUME UNCHANGED uploadVars PROVE UploadTyped'
  <2>1. db' \in [ops : SUBSET Nat, ana : SUBSET Row]
    BY <1>16 DEF uploadVars, UploadTyped, Row
  <2>2. prog' \in Prog
    BY <1>16 DEF uploadVars, UploadTyped, Prog
  <2>3. up' \in [Callers -> Attempt]
    BY <1>16 DEF uploadVars, UploadTyped, Attempt
  <2>4. past' \in UploadPast
    BY <1>16 DEF uploadVars, UploadTyped, UploadPast
  <2>5. shown' \in {"unknown", "no", "partial", "uploaded"}
    BY <1>16 DEF uploadVars, UploadTyped
  <2> QED
    BY <2>1, <2>2, <2>3, <2>4, <2>5 DEF UploadTyped
<1> QED
  BY <1>1, <1>2, <1>3, <1>4, <1>5, <1>6, <1>7, <1>8, <1>9, <1>10, <1>11, <1>12, <1>13, <1>14, <1>15, <1>16 DEF UploadNext, UploadStep, Replies

----------------------------------------------------------------------------
(* What a step leaves as it was.                                           *)

Others(u) == \A v \in Callers \ {u} : up'[v] = up[v]
KeepsFiles ==
    prog'.cache = prog.cache /\ prog'.mat = prog.mat /\ prog'.done = prog.done /\ prog'.row = prog.row
PastSame ==
    /\ past'.lookupFailed = past.lookupFailed /\ past'.overlapped = past.overlapped
    /\ past'.removed = past.removed /\ past'.everRemoved = past.everRemoved /\ past'.live = past.live

\* The row that a PATCH leaves of r, and the one that a POST inserts.
LinkPatched(r) ==
    IF r.id = prog.row.id
    THEN [r EXCEPT !.cache = IF prog.row.cache = Nil /\ prog.cache # Nil THEN prog.cache ELSE @,
                   !.mat = IF prog.row.mat = Nil /\ prog.mat # Nil THEN prog.mat ELSE @]
    ELSE r
RowPosted(u) == [id |-> Cardinality(db.ana) + 1, op |-> up[u].op, cache |-> prog.cache, mat |-> prog.mat]

LEMMA UploadNextRuled == UploadIInv /\ [UploadNext]_uploadVars => UploadRuled'
<1> SUFFICES ASSUME UploadIInv, [UploadNext]_uploadVars PROVE UploadRuled'
  OBVIOUS
<1> USE Nothing, FaultedFact DEF UploadIInv, UploadRuled
<1>1. ASSUME NEW u \in Callers, BeginUpload(u) PROVE UploadRuled'
  <2>0. /\ ~Uploading(u) /\ Others(u) /\ UNCHANGED <<db, shown>> /\ KeepsFiles /\ prog'.op = prog.op
        /\ up'[u].at \in {"adopt", "lookup", "insert", "returned"}
        /\ up'[u].at = "returned" => prog.done
        /\ up'[u].at = "adopt" => prog.op # 0 /\ up'[u].existing /\ up'[u].op = prog.op
        /\ up'[u].at \in {"lookup", "insert"} => prog.op = 0
        /\ up'[u].at = "insert" => u = "live" /\ past.live /\ ~prog.attempted /\ prog'.attempted
        /\ prog.attempted => prog'.attempted
        /\ past'.lookupFailed = past.lookupFailed /\ past'.removed = past.removed /\ past'.everRemoved = past.everRemoved
        /\ past.overlapped => past'.overlapped
        /\ past'.overlapped \/ \A v \in Callers \ {u} : ~Uploading(v)
        /\ past'.live => past.live /\ u = "live"
    <3>1. /\ ~Uploading(u) /\ UNCHANGED <<db, shown>> /\ (u = "live" => past.live)
          /\ up' = [up EXCEPT ![u] = [IdleUpload EXCEPT !.at = Entry(u), !.existing = (Entry(u) = "adopt"), !.op = prog.op]]
          /\ prog' = IF Entry(u) = "insert" THEN [prog EXCEPT !.attempted = TRUE] ELSE prog
      BY <1>1 DEF BeginUpload
    <3>2. past'.lookupFailed = past.lookupFailed /\ past'.removed = past.removed /\ past'.everRemoved = past.everRemoved
      BY <1>1 DEF BeginUpload, UploadTyped, UploadPast
    <3>3. /\ past.overlapped => past'.overlapped
          /\ past'.overlapped \/ \A v \in Callers \ {u} : ~Uploading(v)
          /\ past'.live => past.live /\ u = "live"
      <4> DEFINE o == past.overlapped \/ \E v \in Callers \ {u} : Uploading(v)
                 l == past.live /\ u = "live"
                 n == IF u = "list" THEN past.others ELSE past.others + 1
      <4>1. past' = [past EXCEPT !.overlapped = o, !.live = l, !.others = n]
        BY <1>1 DEF BeginUpload
      <4> HIDE DEF o, l, n
      <4>2. past'.overlapped = o /\ past'.live = l
        BY <4>1 DEF UploadTyped, UploadPast
      <4> USE DEF o, l
      <4> QED
        BY <4>2
    <3>4. Others(u) /\ up'[u].at = Entry(u) /\ up'[u].existing = (Entry(u) = "adopt") /\ up'[u].op = prog.op
      BY <3>1 DEF Others, UploadTyped, IdleUpload
    <3>5. KeepsFiles /\ prog'.op = prog.op /\ (prog.attempted => prog'.attempted)
          /\ (Entry(u) = "insert" => prog'.attempted)
      BY <3>1 DEF KeepsFiles, UploadTyped, Prog
    <3>6. /\ Entry(u) \in {"adopt", "lookup", "insert", "returned"}
          /\ Entry(u) = "returned" => prog.done
          /\ Entry(u) = "adopt" => prog.op # 0
          /\ Entry(u) \in {"lookup", "insert"} => prog.op = 0
          /\ Entry(u) = "insert" => u = "live" /\ ~prog.attempted
      BY DEF Entry
    <3> QED
      BY <3>1, <3>2, <3>3, <3>4, <3>5, <3>6
  <2>1. RowsNumbered'
    BY <2>0 DEF RowsNumbered, Callers, Others, KeepsFiles, Uploading
  <2>2. Alone'
    BY <2>0 DEF Alone, Uploading, Callers, Others, KeepsFiles
  <2>3. LiveFirst'
    BY <2>0 DEF LiveFirst, Uploading, Callers, Others, KeepsFiles
  <2>4. Listed'
    BY <2>0 DEF Listed, Callers, Others, KeepsFiles, Uploading
  <2>5. InsertIsFirst'
    <3>1. ~past'.overlapped => \A v \in Callers \ {u} : up'[v].at = "idle"
      BY <2>0 DEF Others, Uploading
    <3>2. up'[u].at = "insert" => db.ops = {}
      BY <2>0 DEF LiveFirst
    <3> QED
      BY <2>0, <3>1, <3>2 DEF InsertIsFirst
  <2>6. Remembered'
    BY <2>0 DEF Remembered, Others, KeepsFiles, Uploading
  <2>7. RowKnown'
    BY <2>0 DEF RowKnown, Others, KeepsFiles, Uploading
  <2>8. RowThere'
    BY <2>0 DEF RowThere, Others, KeepsFiles, Uploading
  <2>9. FilesHeld'
    BY <2>0 DEF FilesHeld, Whole, DoneIsComplete, analysisComplete, MatThere, Others, KeepsFiles, Uploading
  <2>10. RedundantIsComplete'
    BY <2>0 DEF RedundantIsComplete, analysisComplete, Others, KeepsFiles, Uploading
  <2>11. OneOperation'
    BY <2>0 DEF OneOperation, Others, KeepsFiles, Uploading
  <2>12. OneAnalysisPerOperation'
    BY <2>0 DEF OneAnalysisPerOperation, Others, KeepsFiles, Uploading
  <2>13. DoneIsComplete'
    BY <2>0 DEF DoneIsComplete, Whole, analysisComplete, MatThere, Others, KeepsFiles, Uploading
  <2> QED
    BY <2>1, <2>2, <2>3, <2>4, <2>5, <2>6, <2>7, <2>8, <2>9, <2>10, <2>11, <2>12, <2>13
<1>2. ASSUME NEW u \in Callers, LookupAnswered(u) PROVE UploadRuled'
  <2>0. /\ up[u].at = "lookup" /\ Others(u) /\ UNCHANGED <<db, shown, past>> /\ KeepsFiles
        /\ \/ /\ db.ops # {} /\ prog'.op = 1 /\ prog'.attempted = prog.attempted /\ 1 \in db.ops
              /\ up'[u].at = "adopt" /\ up'[u].existing /\ up'[u].op = 1
           \/ db.ops = {} /\ prog'.op = prog.op /\ prog'.attempted /\ up'[u].at = "insert"
    BY <1>2, OldestIsFirst DEF LookupAnswered, Others, KeepsFiles, UploadTyped, Prog, Attempt
  <2>1. RowsNumbered'
    BY <2>0 DEF RowsNumbered, Callers, Others, KeepsFiles
  <2>2. Alone'
    BY <2>0 DEF Alone, Uploading, Callers, Others, KeepsFiles
  <2>3. LiveFirst'
    BY <2>0 DEF LiveFirst, Uploading, Callers, Others, KeepsFiles
  <2>4. Listed'
    BY <2>0 DEF Listed, Callers, Others, KeepsFiles
  <2>5. InsertIsFirst'
    BY <2>0 DEF InsertIsFirst, Others, KeepsFiles
  <2>6. Remembered'
    <3>a. ~past.overlapped => \A v \in Callers \ {u} : up[v].at = "idle"
      BY <2>0 DEF Alone, Uploading
    <3> QED
      BY <2>0, <3>a DEF Remembered, Others, KeepsFiles
  <2>7. RowKnown'
    BY <2>0 DEF RowKnown, Others, KeepsFiles
  <2>8. RowThere'
    BY <2>0 DEF RowThere, Others, KeepsFiles
  <2>9. FilesHeld'
    BY <2>0 DEF FilesHeld, Whole, DoneIsComplete, analysisComplete, MatThere, Others, KeepsFiles
  <2>10. RedundantIsComplete'
    BY <2>0 DEF RedundantIsComplete, analysisComplete, Others, KeepsFiles
  <2>11. OneOperation'
    BY <2>0 DEF OneOperation, Others, KeepsFiles
  <2>12. OneAnalysisPerOperation'
    BY <2>0 DEF OneAnalysisPerOperation, Others, KeepsFiles
  <2>13. DoneIsComplete'
    BY <2>0 DEF DoneIsComplete, Whole, analysisComplete, MatThere, Others, KeepsFiles
  <2> QED
    BY <2>1, <2>2, <2>3, <2>4, <2>5, <2>6, <2>7, <2>8, <2>9, <2>10, <2>11, <2>12, <2>13
<1>3. ASSUME NEW u \in Callers, LookupFails(u) PROVE UploadRuled'
  <2>0. /\ up[u].at = "lookup" /\ Others(u) /\ UNCHANGED <<db, shown>> /\ KeepsFiles
        /\ prog'.op = prog.op /\ prog'.attempted /\ up'[u].at = "insert"
        /\ past'.lookupFailed /\ past'.overlapped = past.overlapped /\ past'.removed = past.removed
        /\ past'.everRemoved = past.everRemoved /\ past'.live = past.live
    <3>1. UploadFaulted(past) \in UploadPast /\ past' = [UploadFaulted(past) EXCEPT !.lookupFailed = TRUE]
      BY <1>3 DEF LookupFails, UploadTyped
    <3>2. /\ past'.lookupFailed /\ past'.overlapped = past.overlapped /\ past'.removed = past.removed
          /\ past'.everRemoved = past.everRemoved /\ past'.live = past.live
      BY <3>1 DEF UploadTyped, UploadPast
    <3> QED
      BY <1>3, <3>2 DEF LookupFails, Others, KeepsFiles, UploadTyped, Prog, Attempt
  <2>1. RowsNumbered'
    BY <2>0 DEF RowsNumbered, Callers, Others, KeepsFiles
  <2>2. Alone'
    BY <2>0 DEF Alone, Uploading, Callers, Others, KeepsFiles
  <2>3. LiveFirst'
    BY <2>0 DEF LiveFirst, Uploading, Callers, Others, KeepsFiles
  <2>4. Listed'
    BY <2>0 DEF Listed, Callers, Others, KeepsFiles
  <2>5. InsertIsFirst'
    BY <2>0 DEF InsertIsFirst, Others, KeepsFiles
  <2>6. Remembered'
    BY <2>0 DEF Remembered, Others, KeepsFiles
  <2>7. RowKnown'
    BY <2>0 DEF RowKnown, Others, KeepsFiles
  <2>8. RowThere'
    BY <2>0 DEF RowThere, Others, KeepsFiles
  <2>9. FilesHeld'
    BY <2>0 DEF FilesHeld, Whole, DoneIsComplete, analysisComplete, MatThere, Others, KeepsFiles
  <2>10. RedundantIsComplete'
    BY <2>0 DEF RedundantIsComplete, analysisComplete, Others, KeepsFiles
  <2>11. OneOperation'
    BY <2>0 DEF OneOperation, Others, KeepsFiles
  <2>12. OneAnalysisPerOperation'
    BY <2>0 DEF OneAnalysisPerOperation, Others, KeepsFiles
  <2>13. DoneIsComplete'
    BY <2>0 DEF DoneIsComplete, Whole, analysisComplete, MatThere, Others, KeepsFiles
  <2> QED
    BY <2>1, <2>2, <2>3, <2>4, <2>5, <2>6, <2>7, <2>8, <2>9, <2>10, <2>11, <2>12, <2>13
<1>4. ASSUME NEW u \in Callers, NEW reply \in Replies, InsertOperation(u, reply) PROVE UploadRuled'
  <2>0. /\ up[u].at = "insert" /\ Others(u) /\ UNCHANGED shown /\ KeepsFiles /\ PastSame /\ prog'.attempted = prog.attempted
        /\ UNCHANGED db \/ (db'.ana = db.ana /\ db'.ops = db.ops \union {Cardinality(db.ops) + 1})
        /\ \/ up'[u].at = "failed" /\ prog'.op = prog.op
           \/ /\ up'[u].at = "adopt" /\ up'[u].existing = up[u].existing /\ up'[u].op = Cardinality(db.ops) + 1
              /\ prog'.op = Cardinality(db.ops) + 1
              /\ db'.ana = db.ana /\ db'.ops = db.ops \union {Cardinality(db.ops) + 1}
    <3>1. past' = past \/ past' = UploadFaulted(past)
      BY <1>4 DEF InsertOperation
    <3>2. PastSame
      BY <3>1 DEF UploadTyped, PastSame
    <3> DEFINE new == Cardinality(db.ops) + 1
               a == IF reply = "ok" THEN "adopt" ELSE "failed"
    <3>3. /\ db' = IF reply = "failed" THEN db ELSE [db EXCEPT !.ops = @ \union {new}]
          /\ prog' = IF reply = "ok" THEN [prog EXCEPT !.op = new] ELSE prog
          /\ up' = [up EXCEPT ![u].at = a, ![u].op = new]
          /\ up[u].at = "insert" /\ UNCHANGED shown
      BY <1>4 DEF InsertOperation
    <3> HIDE DEF new, a
    <3>4. Others(u) /\ up'[u].at = a /\ up'[u].op = new /\ up'[u].existing = up[u].existing
      BY <3>3 DEF Others, UploadTyped, Attempt
    <3>5. KeepsFiles /\ prog'.attempted = prog.attempted /\ prog'.op = IF reply = "ok" THEN new ELSE prog.op
      BY <3>3 DEF KeepsFiles, UploadTyped, Prog
    <3>6. (UNCHANGED db /\ reply = "failed") \/ (db'.ana = db.ana /\ db'.ops = db.ops \union {new})
      BY <3>3 DEF UploadTyped
    <3> USE DEF new, a
    <3> QED
      BY <3>2, <3>3, <3>4, <3>5, <3>6
  <2>1. RowsNumbered'
    <3>1. Cardinality(db.ops) \in Nat
      BY FS_CardinalityType DEF RowsNumbered
    <3> DEFINE new == Cardinality(db.ops) + 1
    <3>2. new \in Nat /\ new \notin db.ops /\ (db.ops = {} => new = 1)
      BY <3>1, FS_EmptySet DEF RowsNumbered
    <3>3. IsFiniteSet(db.ops \union {new}) /\ Cardinality(db.ops \union {new}) = new
      BY <3>1, <3>2, FS_AddElement DEF RowsNumbered
    <3>4. db.ops \union {new} \subseteq 1 .. new /\ 1 \in db.ops \union {new}
      BY <3>1, <3>2 DEF RowsNumbered
    <3>5. CASE UNCHANGED db /\ up'[u].at = "failed" /\ prog'.op = prog.op
      BY <2>0, <3>5 DEF RowsNumbered, Others
    <3>6. CASE db'.ana = db.ana /\ db'.ops = db.ops \union {new}
      BY <2>0, <3>2, <3>3, <3>4, <3>6 DEF RowsNumbered, Others
    <3> QED
      BY <2>0, <3>5, <3>6
  <2>2. Alone'
    BY <2>0 DEF Alone, Uploading, Callers, PastSame, Others, KeepsFiles
  <2>3. LiveFirst'
    BY <2>0 DEF LiveFirst, Uploading, Callers, PastSame, Others, KeepsFiles
  <2>4. Listed'
    BY <2>0 DEF Listed, Callers, PastSame, Others, KeepsFiles
  <2>5. InsertIsFirst'
    <3>a. ~past.overlapped => \A v \in Callers \ {u} : up[v].at = "idle"
      BY <2>0 DEF Alone, Uploading
    <3> QED
      BY <2>0, <3>a DEF InsertIsFirst, Others, PastSame
  <2>6. Remembered'
    <3>a. ~past.overlapped => \A v \in Callers \ {u} : up[v].at = "idle"
      BY <2>0 DEF Alone, Uploading
    <3>1. Cardinality(db.ops) \in Nat
      BY FS_CardinalityType DEF RowsNumbered
    <3>2. ~past.overlapped => prog.op = 0 /\ prog.row = NoRow
      BY <2>0 DEF Remembered
    <3> QED
      BY <2>0, <3>a, <3>1, <3>2 DEF Remembered, Others, KeepsFiles, PastSame
  <2>7. RowKnown'
    <3>a. ~past.overlapped => \A v \in Callers \ {u} : up[v].at = "idle"
      BY <2>0 DEF Alone, Uploading
    <3>1. Cardinality(db.ops) \in Nat
      BY FS_CardinalityType DEF RowsNumbered
    <3>2. ~past.overlapped => prog.row = NoRow
      BY <2>0 DEF Remembered
    <3>3. \A r \in db.ana : r.op # Cardinality(db.ops) + 1
      BY <3>1 DEF RowsNumbered
    <3> QED
      BY <2>0, <3>a, <3>2, <3>3 DEF RowKnown, Others, KeepsFiles, PastSame
  <2>8. RowThere'
    BY <2>0 DEF RowThere, PastSame, Others, KeepsFiles
  <2>9. FilesHeld'
    BY <2>0 DEF FilesHeld, Whole, DoneIsComplete, analysisComplete, MatThere, PastSame, Others, KeepsFiles
  <2>10. RedundantIsComplete'
    BY <2>0 DEF RedundantIsComplete, analysisComplete, PastSame, Others, KeepsFiles
  <2>11. OneOperation'
    <3>1. CASE past.overlapped \/ past.lookupFailed
      BY <2>0, <3>1 DEF OneOperation, PastSame
    <3>2. CASE ~past.overlapped /\ ~past.lookupFailed
      <4>1. db.ops = {}
        BY <2>0, <3>2 DEF InsertIsFirst
      <4>2. db'.ops = {} \/ db'.ops = {1}
        BY <2>0, <4>1, FS_EmptySet
      <4>3. Cardinality({}) = 0 /\ Cardinality({1}) = 1
        <5>1. Cardinality({1}) = 1
          BY FS_Singleton
        <5> QED
          BY <5>1, FS_EmptySet
      <4>4. Cardinality(db'.ops) = 0 \/ Cardinality(db'.ops) = 1
        BY <4>2, <4>3
      <4>5. ~(Cardinality(db'.ops) > 1)
        BY <4>4
      <4> QED
        BY <4>5 DEF OneOperation
    <3> QED
      BY <3>1, <3>2
  <2>12. OneAnalysisPerOperation'
    BY <2>0 DEF OneAnalysisPerOperation, PastSame, Others, KeepsFiles
  <2>13. DoneIsComplete'
    BY <2>0 DEF DoneIsComplete, Whole, analysisComplete, MatThere, PastSame, Others, KeepsFiles
  <2> QED
    BY <2>1, <2>2, <2>3, <2>4, <2>5, <2>6, <2>7, <2>8, <2>9, <2>10, <2>11, <2>12, <2>13
<1>5. ASSUME NEW u \in Callers, AdoptExistingAnalysis(u) PROVE UploadRuled'
  <2>0. /\ up[u].at = "adopt" /\ Others(u) /\ UNCHANGED <<db, shown, past>>
        /\ prog'.op = prog.op /\ prog'.attempted = prog.attempted /\ prog'.done = prog.done
        /\ up'[u].op = up[u].op
        /\ \/ /\ prog'.row = prog.row /\ prog'.cache = prog.cache /\ prog'.mat = prog.mat
              /\ prog.done \/ ~up[u].existing \/ \A r \in db.ana : r.op # up[u].op
           \/ /\ prog'.row \in db.ana /\ prog'.row.op = up[u].op /\ up[u].existing
              /\ prog.cache # Nil \/ prog'.row.cache # Nil => prog'.cache # Nil
              /\ prog.mat # Nil \/ prog'.row.mat # Nil => prog'.mat # Nil
        /\ \/ up'[u].at = "link" /\ prog'.cache # Nil /\ MatThere(prog'.mat)
           \/ /\ up'[u].at = "files" /\ up'[u].cache \in {"send", "skip"} /\ up'[u].mat \in {"send", "skip"}
              /\ up'[u].cache = "skip" => prog'.cache # Nil
              /\ up'[u].mat = "skip" => MatThere(prog'.mat)
    <3> DEFINE row == IF prog.done \/ ~up[u].existing THEN NoRow ELSE findAnalysisRow(up[u].op)
               p == IF row = NoRow THEN prog
                    ELSE [prog EXCEPT !.row = row, !.cache = IF row.cache # Nil THEN row.cache ELSE @,
                                      !.mat = IF row.mat # Nil THEN row.mat ELSE @]
    <3>1. row \in Row
      BY FoundFact DEF UploadTyped
    <3>2. \/ row = NoRow /\ (prog.done \/ ~up[u].existing \/ \A r \in db.ana : r.op # up[u].op)
          \/ row \in db.ana /\ row.op = up[u].op /\ up[u].existing
      BY FoundFact
    <3>3. prog' = p /\ up' = [up EXCEPT ![u] = FilesOf(p, up[u])] /\ up[u].at = "adopt" /\ UNCHANGED <<db, shown, past>>
      BY <1>5 DEF AdoptExistingAnalysis
    <3> HIDE DEF row
    <3>4. /\ prog'.op = prog.op /\ prog'.attempted = prog.attempted /\ prog'.done = prog.done
          /\ \/ row = NoRow /\ prog'.row = prog.row /\ prog'.cache = prog.cache /\ prog'.mat = prog.mat
             \/ /\ row # NoRow /\ prog'.row = row
                /\ prog.cache # Nil \/ row.cache # Nil => prog'.cache # Nil
                /\ prog.mat # Nil \/ row.mat # Nil => prog'.mat # Nil
      BY <3>3 DEF UploadTyped, Prog
    <3>5. up' = [up EXCEPT ![u] = FilesOf(prog', up[u])]
      BY <3>3, Zenon
    <3> HIDE DEF p
    <3>6. Others(u) /\ up'[u] = FilesOf(prog', up[u])
      BY <3>5 DEF Others, UploadTyped
    <3>7. /\ FilesOf(prog', up[u]).op = up[u].op
          /\ \/ FilesOf(prog', up[u]).at = "link" /\ prog'.cache # Nil /\ MatThere(prog'.mat)
             \/ /\ FilesOf(prog', up[u]).at = "files"
                /\ FilesOf(prog', up[u]).cache \in {"send", "skip"} /\ FilesOf(prog', up[u]).mat \in {"send", "skip"}
                /\ FilesOf(prog', up[u]).cache = "skip" => prog'.cache # Nil
                /\ FilesOf(prog', up[u]).mat = "skip" => MatThere(prog'.mat)
      BY UploadAssumption DEF FilesOf, needsBlobs, MatThere, UploadTyped, Attempt
    <3>8. /\ up'[u].op = up[u].op
          /\ \/ up'[u].at = "link" /\ prog'.cache # Nil /\ MatThere(prog'.mat)
             \/ /\ up'[u].at = "files" /\ up'[u].cache \in {"send", "skip"} /\ up'[u].mat \in {"send", "skip"}
                /\ up'[u].cache = "skip" => prog'.cache # Nil
                /\ up'[u].mat = "skip" => MatThere(prog'.mat)
      BY <3>6, <3>7
    <3>9. NoRow \notin db.ana
      BY DEF RowsNumbered, NoRow
    <3>10. CASE row = NoRow
      <4>1. prog'.row = prog.row /\ prog'.cache = prog.cache /\ prog'.mat = prog.mat
        BY <3>4, <3>10
      <4>2. prog.done \/ ~up[u].existing \/ \A r \in db.ana : r.op # up[u].op
        BY <3>2, <3>9, <3>10
      <4> QED
        BY <3>3, <3>4, <3>6, <3>8, <4>1, <4>2
    <3>11. CASE row # NoRow
      <4>1. /\ prog'.row \in db.ana /\ prog'.row.op = up[u].op /\ up[u].existing
            /\ prog.cache # Nil \/ prog'.row.cache # Nil => prog'.cache # Nil
            /\ prog.mat # Nil \/ prog'.row.mat # Nil => prog'.mat # Nil
        BY <3>2, <3>4, <3>11
      <4> QED
        BY <3>3, <3>4, <3>6, <3>8, <4>1
    <3> QED
      BY <3>10, <3>11
  <2>1. RowsNumbered'
    BY <2>0 DEF RowsNumbered, Callers, Others
  <2>2. Alone'
    BY <2>0 DEF Alone, Uploading, Callers, Others
  <2>3. LiveFirst'
    BY <2>0 DEF LiveFirst, Uploading, Callers, Others
  <2>4. Listed'
    BY <2>0 DEF Listed, Callers, Others
  <2>5. InsertIsFirst'
    BY <2>0 DEF InsertIsFirst, Others
  <2>6. Remembered'
    BY <2>0 DEF Remembered, Others
  <2>7. RowKnown'
    <3>a. ~past.overlapped => \A v \in Callers \ {u} : up[v].at = "idle"
      BY <2>0 DEF Alone, Uploading
    <3>1. SUFFICES ASSUME ~past.overlapped, up'[u].at \in {"files", "link"}, ~prog'.done
                   PROVE  /\ prog'.row = NoRow => \A r \in db.ana : r.op # up'[u].op
                          /\ prog'.row # NoRow => \A r \in db.ana : r.id = prog'.row.id =>
                                                     \A f \in FileLinks : prog'.row[f] = Nil => r[f] = Nil
      BY <2>0, <3>a DEF RowKnown, Others
    <3>2. \A r \in db.ana : r.id # 0
      BY DEF RowsNumbered
    <3>3. CASE prog'.row \in db.ana /\ prog'.row.op = up[u].op
      BY <3>2, <3>3 DEF RowsNumbered, NoRow
    <3>4. CASE prog'.row = prog.row /\ \A r \in db.ana : r.op # up[u].op
      <4>1. prog.row = NoRow
        BY <2>0, <3>1, <3>4 DEF Remembered
      <4> QED
        BY <2>0, <3>4, <4>1
    <3>5. CASE prog'.row = prog.row /\ ~up[u].existing
      <4>1. prog.row = NoRow /\ \A r \in db.ana : r.op # up[u].op
        BY <2>0, <3>1 , <3>5 DEF RowKnown
      <4> QED
        BY <2>0, <3>5, <4>1
    <3> QED
      BY <2>0, <3>1, <3>3, <3>4, <3>5
  <2>8. RowThere'
    BY <2>0 DEF RowThere, Others
  <2>9. FilesHeld'
    BY <2>0 DEF FilesHeld, Whole, DoneIsComplete, analysisComplete, MatThere, Others
  <2>10. RedundantIsComplete'
    BY <2>0 DEF RedundantIsComplete, analysisComplete, Others
  <2>11. OneOperation'
    BY <2>0 DEF OneOperation, Others
  <2>12. OneAnalysisPerOperation'
    BY <2>0 DEF OneAnalysisPerOperation, Others
  <2>13. DoneIsComplete'
    BY <2>0 DEF DoneIsComplete, Whole, analysisComplete, MatThere, Others
  <2> QED
    BY <2>1, <2>2, <2>3, <2>4, <2>5, <2>6, <2>7, <2>8, <2>9, <2>10, <2>11, <2>12, <2>13
<1>6. ASSUME NEW u \in Callers, AdoptFails(u) PROVE UploadRuled'
  <2>0. /\ up[u].at = "adopt" /\ Others(u) /\ UNCHANGED <<db, prog, shown>> /\ PastSame /\ up'[u].at = "failed"
    <3>1. past' = UploadFaulted(past)
      BY <1>6 DEF AdoptFails
    <3>2. PastSame
      BY <3>1 DEF UploadTyped, PastSame
    <3> QED
      BY <1>6, <3>2 DEF AdoptFails, Others, UploadTyped, Attempt
  <2>1. RowsNumbered'
    BY <2>0 DEF RowsNumbered, Callers, PastSame, Others
  <2>2. Alone'
    BY <2>0 DEF Alone, Uploading, Callers, PastSame, Others
  <2>3. LiveFirst'
    BY <2>0 DEF LiveFirst, Uploading, Callers, PastSame, Others
  <2>4. Listed'
    BY <2>0 DEF Listed, Callers, PastSame, Others
  <2>5. InsertIsFirst'
    BY <2>0 DEF InsertIsFirst, PastSame, Others
  <2>6. Remembered'
    BY <2>0 DEF Remembered, PastSame, Others
  <2>7. RowKnown'
    BY <2>0 DEF RowKnown, PastSame, Others
  <2>8. RowThere'
    BY <2>0 DEF RowThere, PastSame, Others
  <2>9. FilesHeld'
    BY <2>0 DEF FilesHeld, Whole, DoneIsComplete, analysisComplete, MatThere, PastSame, Others
  <2>10. RedundantIsComplete'
    BY <2>0 DEF RedundantIsComplete, analysisComplete, PastSame, Others
  <2>11. OneOperation'
    BY <2>0 DEF OneOperation, PastSame, Others
  <2>12. OneAnalysisPerOperation'
    BY <2>0 DEF OneAnalysisPerOperation, PastSame, Others
  <2>13. DoneIsComplete'
    BY <2>0 DEF DoneIsComplete, Whole, analysisComplete, MatThere, PastSame, Others
  <2> QED
    BY <2>1, <2>2, <2>3, <2>4, <2>5, <2>6, <2>7, <2>8, <2>9, <2>10, <2>11, <2>12, <2>13
<1>7. ASSUME NEW u \in Callers, NEW f \in {"cache", "mat"}, NEW ok \in BOOLEAN, FileSent(u, f, ok) PROVE UploadRuled'
  <2>0. /\ up[u].at = "files" /\ up'[u].at = "files" /\ Others(u) /\ UNCHANGED <<db, shown>> /\ PastSame
        /\ up'[u].op = up[u].op /\ up'[u].existing = up[u].existing
        /\ prog'.op = prog.op /\ prog'.attempted = prog.attempted /\ prog'.done = prog.done /\ prog'.row = prog.row
        /\ prog.cache # Nil => prog'.cache # Nil
        /\ prog.mat # Nil => prog'.mat # Nil
        /\ up'[u].cache \in {"sent", "skip"} => up[u].cache = up'[u].cache \/ prog'.cache # Nil
        /\ up'[u].mat \in {"sent", "skip"} => up[u].mat = up'[u].mat \/ prog'.mat # Nil
    <3>1. past' = past \/ past' = UploadFaulted(past)
      BY <1>7 DEF FileSent
    <3>2. PastSame
      BY <3>1 DEF UploadTyped, PastSame
    <3>3. u # Nil
      BY DEF Callers, Nil
    <3>4. /\ prog'.op = prog.op /\ prog'.attempted = prog.attempted /\ prog'.done = prog.done /\ prog'.row = prog.row
          /\ (prog.cache # Nil => prog'.cache # Nil) /\ (prog.mat # Nil => prog'.mat # Nil)
          /\ ok => prog'[f] = u
      BY <1>7, <3>3 DEF FileSent, UploadTyped, Prog
    <3>5. /\ Others(u) /\ up'[u].at = "files" /\ up'[u].op = up[u].op /\ up'[u].existing = up[u].existing
          /\ \A g \in {"cache", "mat"} \ {f} : up'[u][g] = up[u][g]
          /\ up'[u][f] = IF ok THEN "sent" ELSE "lost"
      BY <1>7 DEF FileSent, Others, UploadTyped, Attempt
    <3> QED
      BY <1>7, <3>2, <3>3, <3>4, <3>5 DEF FileSent
  <2>1. RowsNumbered'
    BY <2>0 DEF RowsNumbered, Callers, PastSame, Others
  <2>2. Alone'
    BY <2>0 DEF Alone, Uploading, Callers, PastSame, Others
  <2>3. LiveFirst'
    BY <2>0 DEF LiveFirst, Uploading, Callers, PastSame, Others
  <2>4. Listed'
    BY <2>0 DEF Listed, Callers, PastSame, Others
  <2>5. InsertIsFirst'
    BY <2>0 DEF InsertIsFirst, PastSame, Others
  <2>6. Remembered'
    BY <2>0 DEF Remembered, PastSame, Others
  <2>7. RowKnown'
    BY <2>0 DEF RowKnown, PastSame, Others
  <2>8. RowThere'
    BY <2>0 DEF RowThere, PastSame, Others
  <2>9. FilesHeld'
    BY <2>0 DEF FilesHeld, Whole, DoneIsComplete, analysisComplete, MatThere, PastSame, Others
  <2>10. RedundantIsComplete'
    BY <2>0 DEF RedundantIsComplete, analysisComplete, PastSame, Others
  <2>11. OneOperation'
    BY <2>0 DEF OneOperation, PastSame, Others
  <2>12. OneAnalysisPerOperation'
    BY <2>0 DEF OneAnalysisPerOperation, PastSame, Others
  <2>13. DoneIsComplete'
    BY <2>0 DEF DoneIsComplete, Whole, analysisComplete, MatThere, PastSame, Others
  <2> QED
    BY <2>1, <2>2, <2>3, <2>4, <2>5, <2>6, <2>7, <2>8, <2>9, <2>10, <2>11, <2>12, <2>13
<1>8. ASSUME NEW u \in Callers, FilesSettled(u) PROVE UploadRuled'
  <2>0. /\ up[u].at = "files" /\ Others(u) /\ UNCHANGED <<db, prog, shown, past>> /\ up'[u].op = up[u].op
        /\ up[u].cache # "send" /\ up[u].mat # "send"
        /\ up'[u].at = "failed" \/ (up'[u].at = "link" /\ up[u].cache # "lost" /\ (~up'[u].matFailed => up[u].mat # "lost"))
    <3> DEFINE a == IF up[u].cache = "lost" THEN "failed" ELSE "link"
               m == up[u].mat = "lost"
    <3>1. up' = [up EXCEPT ![u].at = a, ![u].matFailed = m]
      BY <1>8 DEF FilesSettled
    <3> HIDE DEF a, m
    <3>2. Others(u) /\ up'[u].at = a /\ up'[u].matFailed = m /\ up'[u].op = up[u].op
      BY <3>1 DEF Others, UploadTyped, Attempt
    <3> USE DEF a, m
    <3> QED
      BY <1>8, <3>2 DEF FilesSettled
  <2>1. RowsNumbered'
    BY <2>0 DEF RowsNumbered, Callers, Others
  <2>2. Alone'
    BY <2>0 DEF Alone, Uploading, Callers, Others
  <2>3. LiveFirst'
    BY <2>0 DEF LiveFirst, Uploading, Callers, Others
  <2>4. Listed'
    BY <2>0 DEF Listed, Callers, Others
  <2>5. InsertIsFirst'
    BY <2>0 DEF InsertIsFirst, Others
  <2>6. Remembered'
    BY <2>0 DEF Remembered, Others
  <2>7. RowKnown'
    BY <2>0 DEF RowKnown, Others
  <2>8. RowThere'
    BY <2>0 DEF RowThere, Others
  <2>9. FilesHeld'
    <3>1. up[u].cache \in Marks /\ up[u].mat \in Marks
      BY DEF UploadTyped, Attempt
    <3> QED
      BY <2>0, <3>1 DEF FilesHeld, Whole, Others, Marks
  <2>10. RedundantIsComplete'
    BY <2>0 DEF RedundantIsComplete, analysisComplete, Others
  <2>11. OneOperation'
    BY <2>0 DEF OneOperation, Others
  <2>12. OneAnalysisPerOperation'
    BY <2>0 DEF OneAnalysisPerOperation, Others
  <2>13. DoneIsComplete'
    BY <2>0 DEF DoneIsComplete, Whole, analysisComplete, MatThere, Others
  <2> QED
    BY <2>1, <2>2, <2>3, <2>4, <2>5, <2>6, <2>7, <2>8, <2>9, <2>10, <2>11, <2>12, <2>13
<1>9. ASSUME NEW u \in Callers, NEW reply \in Replies, PatchAnalysis(u, reply) PROVE UploadRuled'
  <2>0. /\ up[u].at = "link" /\ Others(u) /\ UNCHANGED shown /\ PastSame /\ (prog.done \/ prog.row # NoRow)
        /\ up'[u].at = "failed" \/ (up'[u].at = "returned" /\ reply = "ok" /\ ~up[u].matFailed)
        /\ prog'.op = prog.op /\ prog'.attempted = prog.attempted /\ prog'.row = prog.row
        /\ prog'.cache = prog.cache /\ prog'.mat = prog.mat
        /\ prog'.done => prog.done \/ (reply = "ok" /\ MatThere(prog.mat))
        /\ db'.ops = db.ops
        /\ \/ db'.ana = db.ana /\ (prog.done \/ reply = "failed")
           \/ ~prog.done /\ db'.ana = {LinkPatched(r) : r \in db.ana}
    <3>1. past' = past \/ past' = UploadFaulted(past)
      BY <1>9 DEF PatchAnalysis
    <3>2. PastSame
      BY <3>1 DEF UploadTyped, PastSame
    <3>3. /\ prog'.op = prog.op /\ prog'.attempted = prog.attempted /\ prog'.row = prog.row
          /\ prog'.cache = prog.cache /\ prog'.mat = prog.mat
          /\ prog'.done => prog.done \/ (reply = "ok" /\ MatThere(prog.mat))
      BY <1>9, UploadAssumption DEF PatchAnalysis, MarkDone, MatThere, UploadTyped, Prog
    <3>4. /\ db'.ops = db.ops
          /\ \/ db'.ana = db.ana /\ (prog.done \/ reply = "failed")
             \/ ~prog.done /\ db'.ana = {LinkPatched(r) : r \in db.ana}
      <4>1. db' = IF prog.done \/ reply = "failed" THEN db ELSE [db EXCEPT !.ana = {LinkPatched(r) : r \in @}]
        BY <1>9, Zenon DEF PatchAnalysis, LinkPatched
      <4> QED
        BY <4>1 DEF UploadTyped
    <3> DEFINE a == IF reply = "ok" THEN Ended(u) ELSE "failed"
    <3>5. up' = [up EXCEPT ![u].at = a]
      BY <1>9 DEF PatchAnalysis
    <3> HIDE DEF a
    <3>6. Others(u) /\ up'[u].at = a
      BY <3>5 DEF Others, UploadTyped, Attempt
    <3> USE DEF a
    <3> QED
      BY <1>9, <3>2, <3>3, <3>4, <3>6 DEF PatchAnalysis, Ended
  <2>p. \A r \in db.ana : /\ LinkPatched(r).id = r.id /\ LinkPatched(r).op = r.op
                          /\ \A f \in FileLinks : r[f] # Nil => LinkPatched(r)[f] # Nil
                          /\ r.id # prog.row.id => LinkPatched(r) = r
                          /\ r.id = prog.row.id /\ prog.row.cache = Nil /\ prog.cache # Nil => LinkPatched(r).cache # Nil
                          /\ r.id = prog.row.id /\ prog.row.mat = Nil /\ prog.mat # Nil => LinkPatched(r).mat # Nil
    BY DEF LinkPatched, UploadTyped, Row, FileLinks
  <2>q. \A s \in db'.ana : \E r \in db.ana : s.id = r.id /\ s.op = r.op
    BY <2>0, <2>p
  <2>r. \A r \in db.ana : \E s \in db'.ana : s.id = r.id /\ s.op = r.op /\ \A f \in FileLinks : r[f] # Nil => s[f] # Nil
    BY <2>0, <2>p
  <2>s. analysisComplete(db.ana) => analysisComplete(db'.ana)
    BY <2>r DEF analysisComplete, MatThere, FileLinks
  <2>i. ~past.overlapped => \A v \in Callers \ {u} : up[v].at = "idle"
    BY <2>0 DEF Alone, Uploading
  <2>w. Whole \/ (reply = "ok" /\ MatThere(prog.mat)) => Whole'
    <3>1. CASE Whole
      BY <2>0, <2>s, <3>1 DEF Whole, PastSame
    <3>2. CASE ~Whole /\ reply = "ok" /\ MatThere(prog.mat)
      <4>1. ~prog.done /\ prog.row # NoRow /\ prog.cache # Nil
        BY <2>0, <3>2 DEF Whole, DoneIsComplete, FilesHeld
      <4>2. PICK r \in db.ana : r.id = prog.row.id /\ \A f \in FileLinks : prog.row[f] # Nil => r[f] # Nil
        BY <3>2, <4>1 DEF RowThere, Whole
      <4>3. LinkPatched(r).cache # Nil /\ MatThere(LinkPatched(r).mat)
        BY <2>p, <3>2, <4>1, <4>2 DEF MatThere, FileLinks
      <4>4. LinkPatched(r) \in db'.ana
        BY <2>0, <4>1, <3>2
      <4> QED
        BY <4>3, <4>4 DEF Whole, analysisComplete
    <3> QED
      BY <3>1, <3>2
  <2>1. RowsNumbered'
    <3>1. CASE db'.ana = db.ana
      BY <2>0, <3>1 DEF RowsNumbered, Others
    <3>2. CASE db'.ana = {LinkPatched(r) : r \in db.ana} /\ \A r \in db.ana : r.id # prog.row.id
      <4>1. db'.ana = db.ana
        BY <2>p, <3>2
      <4> QED
        BY <3>1, <4>1
    <3>3. CASE db'.ana = {LinkPatched(r) : r \in db.ana} /\ \E r \in db.ana : r.id = prog.row.id
      <4>1. PICK x \in db.ana : x.id = prog.row.id
        BY <3>3
      <4>2. db'.ana = (db.ana \ {x}) \union {LinkPatched(x)}
        BY <2>p, <3>3, <4>1 DEF RowsNumbered
      <4>3. /\ IsFiniteSet(db'.ana) /\ Cardinality(db'.ana) = Cardinality(db.ana)
            /\ \A r, s \in db'.ana : r.id = s.id => r = s
        BY <2>p, <4>2, Replaced DEF RowsNumbered
      <4> QED
        BY <2>0, <2>q, <4>3 DEF RowsNumbered, Others
    <3> QED
      BY <2>0, <3>1, <3>2, <3>3
  <2>2. Alone'
    BY <2>0 DEF Alone, Uploading, Callers, PastSame, Others
  <2>3. LiveFirst'
    BY <2>0 DEF LiveFirst, Uploading, Callers, PastSame, Others
  <2>4. Listed'
    BY <2>0 DEF Listed, Callers, PastSame, Others
  <2>5. InsertIsFirst'
    BY <2>0 DEF InsertIsFirst, PastSame, Others
  <2>6. Remembered'
    BY <2>0, <2>i, <2>r DEF Remembered, Others, PastSame
  <2>7. RowKnown'
    BY <2>0, <2>i DEF RowKnown, Others, PastSame
  <2>8. RowThere'
    <3>1. CASE past.everRemoved \/ prog.row = NoRow
      BY <2>0, <3>1 DEF RowThere, PastSame
    <3>2. CASE \E r \in db.ana : r.id = prog.row.id /\ \A f \in FileLinks : prog.row[f] # Nil => r[f] # Nil
      BY <2>0, <2>r, <3>2 DEF RowThere
    <3> QED
      BY <3>1, <3>2 DEF RowThere
  <2>9. FilesHeld'
    <3>1. CASE Whole
      BY <2>w, <3>1 DEF FilesHeld
    <3>2. CASE ~Whole
      <4>1. up'[u].at = "returned" => Whole'
        BY <2>0, <2>w, <3>2 DEF FilesHeld
      <4> QED
        BY <2>0, <3>2, <4>1 DEF FilesHeld, MatThere, Others
    <3> QED
      BY <3>1, <3>2
  <2>10. RedundantIsComplete'
    BY <2>0, <2>s DEF RedundantIsComplete, PastSame
  <2>11. OneOperation'
    BY <2>0 DEF OneOperation, PastSame, Others
  <2>12. OneAnalysisPerOperation'
    BY <2>0, <2>1, <2>q DEF OneAnalysisPerOperation, PastSame, RowsNumbered
  <2>13. DoneIsComplete'
    BY <2>0, <2>w DEF DoneIsComplete, Whole
  <2> QED
    BY <2>1, <2>2, <2>3, <2>4, <2>5, <2>6, <2>7, <2>8, <2>9, <2>10, <2>11, <2>12, <2>13
<1>10. ASSUME NEW u \in Callers, NEW reply \in Replies, PostAnalysis(u, reply) PROVE UploadRuled'
  <2>0. /\ up[u].at = "link" /\ Others(u) /\ UNCHANGED shown /\ PastSame /\ ~prog.done /\ prog.row = NoRow
        /\ up'[u].at = "failed" \/ (up'[u].at = "returned" /\ reply = "ok" /\ ~up[u].matFailed)
        /\ prog'.op = prog.op /\ prog'.attempted = prog.attempted /\ prog'.row = prog.row
        /\ prog'.cache = prog.cache /\ prog'.mat = prog.mat
        /\ prog'.done => reply = "ok" /\ ~up[u].matFailed
        /\ db'.ops = db.ops
        /\ \/ db'.ana = db.ana /\ reply = "failed"
           \/ db'.ana = db.ana \union {RowPosted(u)}
    <3>1. past' = past \/ past' = UploadFaulted(past)
      BY <1>10 DEF PostAnalysis
    <3>2. PastSame
      BY <3>1 DEF UploadTyped, PastSame
    <3>3. /\ prog'.op = prog.op /\ prog'.attempted = prog.attempted /\ prog'.row = prog.row
          /\ prog'.cache = prog.cache /\ prog'.mat = prog.mat
          /\ prog'.done => reply = "ok" /\ ~up[u].matFailed
      BY <1>10 DEF PostAnalysis, UploadTyped, Prog
    <3>4. /\ db'.ops = db.ops
          /\ \/ db'.ana = db.ana /\ reply = "failed"
             \/ db'.ana = db.ana \union {RowPosted(u)}
      <4>1. db' = IF reply = "failed" THEN db ELSE [db EXCEPT !.ana = @ \union {RowPosted(u)}]
        BY <1>10 DEF PostAnalysis, RowPosted
      <4> QED
        BY <4>1 DEF UploadTyped
    <3> DEFINE a == IF reply = "ok" THEN Ended(u) ELSE "failed"
    <3>5. up' = [up EXCEPT ![u].at = a]
      BY <1>10 DEF PostAnalysis
    <3> HIDE DEF a
    <3>6. Others(u) /\ up'[u].at = a
      BY <3>5 DEF Others, UploadTyped, Attempt
    <3> USE DEF a
    <3> QED
      BY <1>10, <3>2, <3>3, <3>4, <3>6 DEF PostAnalysis, Ended
  <2>n. Cardinality(db.ana) \in Nat
    BY FS_CardinalityType DEF RowsNumbered
  <2>s. analysisComplete(db.ana) => analysisComplete(db'.ana)
    BY <2>0 DEF analysisComplete
  <2>i. ~past.overlapped => \A v \in Callers \ {u} : up[v].at = "idle"
    BY <2>0 DEF Alone, Uploading
  <2>p. RowPosted(u).id = Cardinality(db.ana) + 1 /\ RowPosted(u).op = up[u].op /\ RowPosted(u).cache = prog.cache /\ RowPosted(u).mat = prog.mat
    BY DEF RowPosted
  <2>w. Whole \/ (reply = "ok" /\ ~up[u].matFailed) => Whole'
    <3>1. CASE Whole
      BY <2>0, <2>s, <3>1 DEF Whole, PastSame
    <3>2. CASE ~Whole /\ reply = "ok" /\ ~up[u].matFailed
      <4>1. prog.cache # Nil /\ MatThere(prog.mat)
        BY <2>0, <3>2 DEF FilesHeld
      <4>2. RowPosted(u) \in db'.ana
        BY <2>0, <3>2
      <4> QED
        BY <2>p, <4>1, <4>2 DEF Whole, analysisComplete
    <3> QED
      BY <3>1, <3>2
  <2>1. RowsNumbered'
    <3>1. CASE db'.ana = db.ana
      BY <2>0, <3>1 DEF RowsNumbered, Others
    <3>2. CASE db'.ana = db.ana \union {RowPosted(u)}
      <4>1. RowPosted(u) \notin db.ana
        BY <2>n, <2>p DEF RowsNumbered
      <4>a. IsFiniteSet(db.ana) /\ \A r \in db.ana : r.id \in 1 .. Cardinality(db.ana) /\ r.op \in db.ops
        BY DEF RowsNumbered
      <4>2. IsFiniteSet(db'.ana) /\ Cardinality(db'.ana) = Cardinality(db.ana) + 1
        <5> DEFINE S == db.ana
                   x == RowPosted(u)
        <5>1. IsFiniteSet(S) /\ x \notin S /\ db'.ana = S \union {x}
          BY <3>2, <4>1, <4>a
        <5> HIDE DEF S, x
        <5>2. IsFiniteSet(S \union {x}) /\ Cardinality(S \union {x}) = Cardinality(S) + 1
          BY <5>1, FS_AddElement
        <5>3. IsFiniteSet(db'.ana) /\ Cardinality(db'.ana) = Cardinality(S) + 1
          BY <5>1, <5>2
        <5> QED
          BY <5>3 DEF S
      <4>b. up[u].op \in db.ops
        BY <2>0 DEF RowsNumbered
      <4>3. \A r \in db'.ana : r.id \in 1 .. Cardinality(db'.ana) /\ r.op \in db'.ops
        <5>1. ASSUME NEW r \in db.ana PROVE r.id \in 1 .. Cardinality(db'.ana) /\ r.op \in db'.ops
          BY <2>0, <2>n, <4>2, <4>a
        <5>2. RowPosted(u).id \in 1 .. Cardinality(db'.ana) /\ RowPosted(u).op \in db'.ops
          BY <2>0, <2>n, <2>p, <4>2, <4>b
        <5> QED
          BY <3>2, <5>1, <5>2
      <4>4. \A r, s \in db'.ana : r.id = s.id => r = s
        BY <2>n, <2>p, <3>2 DEF RowsNumbered
      <4> QED
        BY <2>0, <4>2, <4>3, <4>4 DEF RowsNumbered, Others
    <3> QED
      BY <2>0, <3>1, <3>2
  <2>2. Alone'
    BY <2>0 DEF Alone, Uploading, Callers, PastSame, Others
  <2>3. LiveFirst'
    BY <2>0 DEF LiveFirst, Uploading, Callers, PastSame, Others
  <2>4. Listed'
    BY <2>0 DEF Listed, Callers, PastSame, Others
  <2>5. InsertIsFirst'
    BY <2>0 DEF InsertIsFirst, PastSame, Others
  <2>6. Remembered'
    BY <2>0 DEF Remembered, PastSame, Others
  <2>7. RowKnown'
    BY <2>0, <2>i DEF RowKnown, Others, PastSame
  <2>8. RowThere'
    BY <2>0 DEF RowThere, PastSame, Others
  <2>9. FilesHeld'
    <3>1. CASE Whole
      BY <2>w, <3>1 DEF FilesHeld
    <3>2. CASE ~Whole
      <4>1. up'[u].at = "returned" => Whole'
        BY <2>0, <2>w, <3>2 DEF FilesHeld
      <4> QED
        BY <2>0, <3>2, <4>1 DEF FilesHeld, MatThere, Others
    <3> QED
      BY <3>1, <3>2
  <2>10. RedundantIsComplete'
    BY <2>0 DEF RedundantIsComplete, analysisComplete, PastSame, Others
  <2>11. OneOperation'
    BY <2>0 DEF OneOperation, PastSame, Others
  <2>12. OneAnalysisPerOperation'
    <3>1. ~past.overlapped => \A r \in db.ana : r.op # up[u].op
      BY <2>0 DEF RowKnown
    <3> QED
      BY <2>0, <2>p, <3>1 DEF OneAnalysisPerOperation, PastSame
  <2>13. DoneIsComplete'
    BY <2>0, <2>w DEF DoneIsComplete, Whole
  <2> QED
    BY <2>1, <2>2, <2>3, <2>4, <2>5, <2>6, <2>7, <2>8, <2>9, <2>10, <2>11, <2>12, <2>13
<1>11. ASSUME NEW u \in Callers, Outcome(u) PROVE UploadRuled'
  <2>0. /\ up[u].at \in {"failed", "returned"} /\ Others(u) /\ UNCHANGED <<db, prog, shown>>
        /\ up'[u].at = "idle" \/ (u = "list" /\ up[u].at = "returned" /\ up'[u].at = "confirm")
        /\ past'.lookupFailed = past.lookupFailed /\ past'.overlapped = past.overlapped
        /\ past'.removed = past.removed /\ past'.everRemoved = past.everRemoved
        /\ past'.live => past.live
    <3> DEFINE l == past.live /\ ~(u = "live" /\ up[u].at = "returned")
    <3>1. past' = [past EXCEPT !.live = l]
      BY <1>11 DEF Outcome
    <3> HIDE DEF l
    <3>2. /\ past'.lookupFailed = past.lookupFailed /\ past'.overlapped = past.overlapped
          /\ past'.removed = past.removed /\ past'.everRemoved = past.everRemoved /\ past'.live = l
      BY <3>1 DEF UploadTyped, UploadPast
    <3> USE DEF l
    <3>3. /\ Others(u)
          /\ up'[u].at = "idle" \/ (u = "list" /\ up[u].at = "returned" /\ up'[u].at = "confirm")
      BY <1>11 DEF Outcome, Others, UploadTyped, IdleUpload
    <3> QED
      BY <1>11, <3>2, <3>3 DEF Outcome
  <2>1. RowsNumbered'
    BY <2>0 DEF RowsNumbered, Callers, Others
  <2>2. Alone'
    BY <2>0 DEF Alone, Uploading, Callers, Others
  <2>3. LiveFirst'
    BY <2>0 DEF LiveFirst, Uploading, Callers, Others
  <2>4. Listed'
    BY <2>0 DEF Listed, Callers, Others
  <2>5. InsertIsFirst'
    BY <2>0 DEF InsertIsFirst, Others
  <2>6. Remembered'
    BY <2>0 DEF Remembered, Others
  <2>7. RowKnown'
    BY <2>0 DEF RowKnown, Others
  <2>8. RowThere'
    BY <2>0 DEF RowThere, Others
  <2>9. FilesHeld'
    BY <2>0 DEF FilesHeld, Whole, DoneIsComplete, analysisComplete, MatThere, Others
  <2>10. RedundantIsComplete'
    BY <2>0 DEF RedundantIsComplete, analysisComplete, Others
  <2>11. OneOperation'
    BY <2>0 DEF OneOperation, Others
  <2>12. OneAnalysisPerOperation'
    BY <2>0 DEF OneAnalysisPerOperation, Others
  <2>13. DoneIsComplete'
    BY <2>0 DEF DoneIsComplete, Whole, analysisComplete, MatThere, Others
  <2> QED
    BY <2>1, <2>2, <2>3, <2>4, <2>5, <2>6, <2>7, <2>8, <2>9, <2>10, <2>11, <2>12, <2>13
<1>12. ASSUME NEW u \in Callers, NEW answered \in BOOLEAN, ConfirmUploadState(u, answered) PROVE UploadRuled'
  <2>0. /\ up[u].at = "confirm" /\ Others(u) /\ UNCHANGED db /\ PastSame /\ up'[u].at = "idle"
        /\ \/ shown' = "uploaded" /\ analysisComplete(db.ana) /\ UNCHANGED prog
           \/ shown' = "partial" /\ prog' = NoProgress
    <3>1. past' = past \/ past' = UploadFaulted(past)
      BY <1>12 DEF ConfirmUploadState
    <3>2. PastSame
      BY <3>1 DEF UploadTyped, PastSame
    <3>3. Others(u) /\ up'[u].at = "idle"
      BY <1>12 DEF ConfirmUploadState, Others, UploadTyped, IdleUpload
    <3> QED
      BY <1>12, <3>2, <3>3 DEF ConfirmUploadState, analysisComplete
  <2>1. RowsNumbered'
    BY <2>0 DEF RowsNumbered, Callers, PastSame, Others, NoProgress, NoRow
  <2>2. Alone'
    BY <2>0 DEF Alone, Uploading, Callers, PastSame, Others, NoProgress, NoRow
  <2>3. LiveFirst'
    <3>1. u = "list" /\ ~past.live
      BY <2>0 DEF Listed, LiveFirst, Uploading, Callers
    <3> QED
      BY <2>0, <3>1 DEF LiveFirst, PastSame
  <2>4. Listed'
    BY <2>0 DEF Listed, Callers, PastSame, Others, NoProgress, NoRow
  <2>5. InsertIsFirst'
    BY <2>0 DEF InsertIsFirst, PastSame, Others, NoProgress, NoRow
  <2>6. Remembered'
    <3>a. ~past.overlapped => \A v \in Callers \ {u} : up[v].at = "idle"
      BY <2>0 DEF Alone, Uploading
    <3>n. NoProgress.op = 0 /\ NoProgress.row = NoRow /\ ~NoProgress.done
      BY DEF NoProgress
    <3>1. CASE UNCHANGED prog
      BY <2>0, <3>a, <3>1 DEF Remembered, PastSame, Others
    <3>2. CASE prog' = NoProgress
      BY <2>0, <3>a, <3>n, <3>2 DEF Remembered, PastSame, Others
    <3> QED
      BY <2>0, <3>1, <3>2
  <2>7. RowKnown'
    <3>a. ~past.overlapped => \A v \in Callers \ {u} : up[v].at = "idle"
      BY <2>0 DEF Alone, Uploading
    <3> QED
      BY <2>0, <3>a DEF RowKnown, PastSame, Others
  <2>8. RowThere'
    BY <2>0 DEF RowThere, PastSame, Others, NoProgress, NoRow
  <2>9. FilesHeld'
    BY <2>0 DEF FilesHeld, Whole, DoneIsComplete, analysisComplete, MatThere, PastSame, Others, NoProgress, NoRow
  <2>10. RedundantIsComplete'
    BY <2>0 DEF RedundantIsComplete, analysisComplete, PastSame, Others, NoProgress, NoRow
  <2>11. OneOperation'
    BY <2>0 DEF OneOperation, PastSame, Others, NoProgress, NoRow
  <2>12. OneAnalysisPerOperation'
    BY <2>0 DEF OneAnalysisPerOperation, PastSame, Others, NoProgress, NoRow
  <2>13. DoneIsComplete'
    BY <2>0 DEF DoneIsComplete, Whole, analysisComplete, MatThere, PastSame, Others, NoProgress, NoRow
  <2> QED
    BY <2>1, <2>2, <2>3, <2>4, <2>5, <2>6, <2>7, <2>8, <2>9, <2>10, <2>11, <2>12, <2>13
<1>13. ASSUME NEW answered \in BOOLEAN, ListLookup(answered) PROVE UploadRuled'
  <2>0. /\ UNCHANGED <<db, prog, up>> /\ (shown' = "uploaded" => analysisComplete(db.ana))
        /\ past'.lookupFailed = past.lookupFailed /\ past'.overlapped = past.overlapped
        /\ past'.everRemoved = past.everRemoved /\ ~past'.removed /\ ~past'.live
    <3> DEFINE q == IF answered THEN past ELSE UploadFaulted(past)
    <3>1. /\ q \in UploadPast /\ q.lookupFailed = past.lookupFailed /\ q.overlapped = past.overlapped
          /\ q.everRemoved = past.everRemoved
      BY DEF UploadTyped
    <3>2. past' = [q EXCEPT !.removed = FALSE, !.live = FALSE]
      BY <1>13 DEF ListLookup
    <3> HIDE DEF q
    <3>3. /\ past'.lookupFailed = past.lookupFailed /\ past'.overlapped = past.overlapped
          /\ past'.everRemoved = past.everRemoved /\ ~past'.removed /\ ~past'.live
      BY <3>1, <3>2 DEF UploadPast
    <3>4. shown' = "uploaded" => analysisComplete(db.ana)
      BY <1>13 DEF ListLookup, analysisComplete
    <3> QED
      BY <1>13, <3>3, <3>4 DEF ListLookup
  <2>1. RowsNumbered'
    BY <2>0 DEF RowsNumbered, Callers
  <2>2. Alone'
    BY <2>0 DEF Alone, Uploading, Callers
  <2>3. LiveFirst'
    BY <2>0 DEF LiveFirst, Uploading, Callers
  <2>4. Listed'
    BY <2>0 DEF Listed, Callers
  <2>5. InsertIsFirst'
    BY <2>0 DEF InsertIsFirst
  <2>6. Remembered'
    BY <2>0 DEF Remembered
  <2>7. RowKnown'
    BY <2>0 DEF RowKnown
  <2>8. RowThere'
    BY <2>0 DEF RowThere
  <2>9. FilesHeld'
    BY <2>0 DEF FilesHeld, Whole, DoneIsComplete, analysisComplete, MatThere
  <2>10. RedundantIsComplete'
    BY <2>0 DEF RedundantIsComplete, analysisComplete
  <2>11. OneOperation'
    BY <2>0 DEF OneOperation
  <2>12. OneAnalysisPerOperation'
    BY <2>0 DEF OneAnalysisPerOperation
  <2>13. DoneIsComplete'
    BY <2>0 DEF DoneIsComplete, Whole, analysisComplete, MatThere
  <2> QED
    BY <2>1, <2>2, <2>3, <2>4, <2>5, <2>6, <2>7, <2>8, <2>9, <2>10, <2>11, <2>12, <2>13
<1>14. ASSUME NEW f \in {"cache", "mat"}, FileRemoved(f) PROVE UploadRuled'
  <2>0. /\ UNCHANGED <<prog, up, shown>> /\ db'.ops = db.ops
        /\ past'.lookupFailed = past.lookupFailed /\ past'.overlapped = past.overlapped
        /\ past'.everRemoved /\ past'.removed /\ past'.live = past.live
        /\ \E r \in db.ana, s \in Row : /\ s.id = r.id /\ s.op = r.op /\ db'.ana = (db.ana \ {r}) \union {s}
                                        /\ \A g \in FileLinks : s[g] \in {r[g], Nil}
    <3>1. UploadFaulted(past) \in UploadPast /\ past' = [UploadFaulted(past) EXCEPT !.removed = TRUE, !.everRemoved = TRUE]
      BY <1>14 DEF FileRemoved, UploadTyped
    <3>2. /\ past'.lookupFailed = past.lookupFailed /\ past'.overlapped = past.overlapped
          /\ past'.everRemoved /\ past'.removed /\ past'.live = past.live
      BY <3>1 DEF UploadTyped, UploadPast
    <3>3. PICK r \in db.ana : db' = [db EXCEPT !.ana = (@ \ {r}) \union {[r EXCEPT ![f] = Nil]}]
      BY <1>14 DEF FileRemoved
    <3> DEFINE s == [r EXCEPT ![f] = Nil]
    <3>4. s \in Row /\ s.id = r.id /\ s.op = r.op /\ \A g \in FileLinks : s[g] \in {r[g], Nil}
      BY DEF UploadTyped, Row, Ids, FileLinks
    <3>5. db'.ops = db.ops /\ db'.ana = (db.ana \ {r}) \union {s}
      BY <3>3 DEF UploadTyped
    <3> HIDE DEF s
    <3> QED
      BY <1>14, <3>2, <3>4, <3>5 DEF FileRemoved
  <2>1. RowsNumbered'
    <3>1. PICK r \in db.ana, s \in Row : /\ s.id = r.id /\ s.op = r.op /\ db'.ana = (db.ana \ {r}) \union {s}
                                         /\ \A g \in FileLinks : s[g] \in {r[g], Nil}
      BY <2>0
    <3>2. /\ IsFiniteSet(db'.ana) /\ Cardinality(db'.ana) = Cardinality(db.ana)
          /\ \A a, b \in db'.ana : a.id = b.id => a = b
      BY <3>1, Replaced DEF RowsNumbered
    <3>3. \A a \in db'.ana : \E b \in db.ana : a.id = b.id /\ a.op = b.op
      BY <3>1
    <3>4. \A a \in db'.ana : a.id \in 1 .. Cardinality(db'.ana) /\ a.op \in db'.ops
      BY <2>0, <3>2, <3>3 DEF RowsNumbered
    <3>5. prog' = prog /\ up' = up /\ db'.ops = db.ops
      BY <2>0
    <3>6. IsFiniteSet(db'.ops) /\ db'.ops \subseteq 1 .. Cardinality(db'.ops) /\ (db'.ops # {} => 1 \in db'.ops)
      BY <3>5 DEF RowsNumbered
    <3>7. prog'.op \in db'.ops \union {0} /\ \A u \in Callers : up'[u].at \in {"adopt", "files", "link"} => up'[u].op \in db'.ops
      BY <3>5 DEF RowsNumbered
    <3> QED
      BY <3>2, <3>4, <3>6, <3>7 DEF RowsNumbered
  <2>2. Alone'
    BY <2>0 DEF Alone, Uploading, Callers
  <2>3. LiveFirst'
    BY <2>0 DEF LiveFirst, Uploading, Callers
  <2>4. Listed'
    BY <2>0 DEF Listed, Callers
  <2>5. InsertIsFirst'
    BY <2>0 DEF InsertIsFirst
  <2>6. Remembered'
    BY <2>0 DEF Remembered
  <2>7. RowKnown'
    BY <2>0 DEF RowKnown
  <2>8. RowThere'
    BY <2>0 DEF RowThere
  <2>9. FilesHeld'
    BY <2>0 DEF FilesHeld, Whole, DoneIsComplete, analysisComplete, MatThere
  <2>10. RedundantIsComplete'
    BY <2>0 DEF RedundantIsComplete, analysisComplete
  <2>11. OneOperation'
    BY <2>0 DEF OneOperation
  <2>12. OneAnalysisPerOperation'
    BY <2>0 DEF OneAnalysisPerOperation
  <2>13. DoneIsComplete'
    BY <2>0 DEF DoneIsComplete, Whole, analysisComplete, MatThere
  <2> QED
    BY <2>1, <2>2, <2>3, <2>4, <2>5, <2>6, <2>7, <2>8, <2>9, <2>10, <2>11, <2>12, <2>13
<1>15. ASSUME UploadReload PROVE UploadRuled'
  <2>0. /\ UNCHANGED db /\ prog' = NoProgress /\ shown' = "unknown" /\ (\A v \in Callers : up'[v].at = "idle")
        /\ past'.lookupFailed = past.lookupFailed /\ past'.overlapped = past.overlapped
        /\ past'.removed = past.removed /\ past'.everRemoved = past.everRemoved /\ ~past'.live
    <3>1. UploadFaulted(past) \in UploadPast /\ past' = [UploadFaulted(past) EXCEPT !.live = FALSE]
      BY <1>15 DEF UploadReload, UploadTyped
    <3>2. /\ past'.lookupFailed = past.lookupFailed /\ past'.overlapped = past.overlapped
          /\ past'.removed = past.removed /\ past'.everRemoved = past.everRemoved /\ ~past'.live
      BY <3>1 DEF UploadTyped, UploadPast
    <3> QED
      BY <1>15, <3>2 DEF UploadReload, IdleUpload
  <2>1. RowsNumbered'
    BY <2>0 DEF RowsNumbered, Callers, NoProgress, NoRow
  <2>2. Alone'
    BY <2>0 DEF Alone, Uploading, Callers, NoProgress, NoRow
  <2>3. LiveFirst'
    BY <2>0 DEF LiveFirst, Uploading, Callers, NoProgress, NoRow
  <2>4. Listed'
    BY <2>0 DEF Listed, Callers, NoProgress, NoRow
  <2>5. InsertIsFirst'
    BY <2>0 DEF InsertIsFirst, NoProgress, NoRow
  <2>6. Remembered'
    BY <2>0 DEF Remembered, NoProgress, NoRow
  <2>7. RowKnown'
    BY <2>0 DEF RowKnown, NoProgress, NoRow
  <2>8. RowThere'
    BY <2>0 DEF RowThere, NoProgress, NoRow
  <2>9. FilesHeld'
    BY <2>0 DEF FilesHeld, Whole, DoneIsComplete, analysisComplete, MatThere, NoProgress, NoRow
  <2>10. RedundantIsComplete'
    BY <2>0 DEF RedundantIsComplete, analysisComplete, NoProgress, NoRow
  <2>11. OneOperation'
    BY <2>0 DEF OneOperation, NoProgress, NoRow
  <2>12. OneAnalysisPerOperation'
    BY <2>0 DEF OneAnalysisPerOperation, NoProgress, NoRow
  <2>13. DoneIsComplete'
    BY <2>0 DEF DoneIsComplete, Whole, analysisComplete, MatThere, NoProgress, NoRow
  <2> QED
    BY <2>1, <2>2, <2>3, <2>4, <2>5, <2>6, <2>7, <2>8, <2>9, <2>10, <2>11, <2>12, <2>13
<1>16. ASSUME UNCHANGED uploadVars PROVE UploadRuled'
  <2>0. UNCHANGED <<db, prog, up, shown, past>>
    BY <1>16 DEF uploadVars
  <2>1. RowsNumbered'
    BY <2>0 DEF RowsNumbered, Callers
  <2>2. Alone'
    BY <2>0 DEF Alone, Uploading, Callers
  <2>3. LiveFirst'
    BY <2>0 DEF LiveFirst, Uploading, Callers
  <2>4. Listed'
    BY <2>0 DEF Listed, Callers
  <2>5. InsertIsFirst'
    BY <2>0 DEF InsertIsFirst
  <2>6. Remembered'
    BY <2>0 DEF Remembered
  <2>7. RowKnown'
    BY <2>0 DEF RowKnown
  <2>8. RowThere'
    BY <2>0 DEF RowThere
  <2>9. FilesHeld'
    BY <2>0 DEF FilesHeld, Whole, DoneIsComplete, analysisComplete, MatThere
  <2>10. RedundantIsComplete'
    BY <2>0 DEF RedundantIsComplete, analysisComplete
  <2>11. OneOperation'
    BY <2>0 DEF OneOperation
  <2>12. OneAnalysisPerOperation'
    BY <2>0 DEF OneAnalysisPerOperation
  <2>13. DoneIsComplete'
    BY <2>0 DEF DoneIsComplete, Whole, analysisComplete, MatThere
  <2> QED
    BY <2>1, <2>2, <2>3, <2>4, <2>5, <2>6, <2>7, <2>8, <2>9, <2>10, <2>11, <2>12, <2>13
<1> QED
  BY <1>1, <1>2, <1>3, <1>4, <1>5, <1>6, <1>7, <1>8, <1>9, <1>10, <1>11, <1>12, <1>13, <1>14, <1>15, <1>16 DEF UploadNext, UploadStep, Replies

----------------------------------------------------------------------------
(* Initially.                                                              *)

LEMMA UploadInitIInv == UploadInit => UploadIInv
<1> SUFFICES ASSUME UploadInit PROVE UploadIInv
  OBVIOUS
<1> USE Nothing DEF UploadInit
<1>1. db = [ops |-> {}, ana |-> {}] /\ prog = NoProgress /\ shown = "unknown" /\ \A u \in Callers : up[u] = IdleUpload
  OBVIOUS
<1>2. db.ops = {} /\ db.ana = {} /\ prog.op = 0 /\ prog.row = NoRow /\ ~prog.done /\ \A u \in Callers : up[u].at = "idle"
  BY <1>1 DEF NoProgress, IdleUpload
<1>3. ~past.overlapped /\ ~past.lookupFailed /\ past.live
  OBVIOUS
<1>4. UploadTyped
  <2>1. db \in [ops : SUBSET Nat, ana : SUBSET Row]
    BY <1>1
  <2>2. past \in UploadPast
    BY DEF UploadPast
  <2> QED
    BY <1>1, <2>1, <2>2 DEF UploadTyped
<1>5. RowsNumbered
  BY <1>2, FS_EmptySet DEF RowsNumbered
<1>6. Alone /\ LiveFirst /\ Listed /\ InsertIsFirst
  BY <1>2 DEF Alone, LiveFirst, Listed, InsertIsFirst, Uploading, Callers
<1>7. Remembered /\ RowKnown /\ RowThere /\ FilesHeld
  BY <1>2 DEF Remembered, RowKnown, RowThere, FilesHeld
<1>8. RedundantIsComplete /\ OneAnalysisPerOperation /\ DoneIsComplete
  BY <1>1, <1>2 DEF RedundantIsComplete, OneAnalysisPerOperation, DoneIsComplete
<1>9. OneOperation
  <2>1. Cardinality(db.ops) = 0
    BY <1>2, FS_EmptySet
  <2> QED
    BY <2>1 DEF OneOperation
<1> QED
  BY <1>4, <1>5, <1>6, <1>7, <1>8, <1>9 DEF UploadIInv, UploadRuled

----------------------------------------------------------------------------
(* What a step does to the links of a row.                                 *)

LEMMA LinksKept ==
  ASSUME UploadIInv, [UploadNext]_uploadVars, ~past'.overlapped,
         NEW r \in db.ana, NEW s \in db'.ana, r.id = s.id, NEW f \in FileLinks, r[f] # Nil
  PROVE  s[f] \in {r[f], Nil}
<1>1. \A a, b \in db.ana : a.id = b.id => a = b
  BY DEF UploadIInv, UploadRuled, RowsNumbered
<1>2. CASE db'.ana = db.ana
  BY <1>1, <1>2
<1>3. ASSUME NEW u \in Callers, NEW reply \in Replies, PatchAnalysis(u, reply) PROVE s[f] \in {r[f], Nil}
  <2>1. db' = IF prog.done \/ reply = "failed" THEN db ELSE [db EXCEPT !.ana = {LinkPatched(a) : a \in @}]
    BY <1>3, Zenon DEF PatchAnalysis, LinkPatched
  <2>2. CASE db' = db
    BY <1>2, <2>2
  <2>3. CASE ~prog.done /\ db'.ana = {LinkPatched(a) : a \in db.ana}
    <3>1. PICK a \in db.ana : s = LinkPatched(a)
      BY <2>3
    <3>2. \A b \in db.ana : LinkPatched(b).id = b.id
      BY DEF LinkPatched, UploadIInv, UploadTyped, Row
    <3>3. s = LinkPatched(r)
      BY <1>1, <3>1, <3>2
    <3>4. up[u].at = "link" /\ prog.row # NoRow /\ ~past.overlapped
      <4>1. past' = past \/ past' = UploadFaulted(past)
        BY <1>3 DEF PatchAnalysis
      <4>2. past'.overlapped = past.overlapped
        BY <4>1, FaultedFact DEF UploadIInv, UploadTyped
      <4> QED
        BY <1>3, <2>3, <4>2 DEF PatchAnalysis
    <3>5. r.id = prog.row.id => prog.row[f] # Nil
      BY <2>3, <3>4 DEF UploadIInv, UploadRuled, RowKnown
    <3>6. LinkPatched(r)[f] = r[f]
      BY <3>5 DEF LinkPatched, FileLinks, UploadIInv, UploadTyped, Row
    <3> QED
      BY <3>3, <3>6
  <2> QED
    BY <2>1, <2>2, <2>3 DEF UploadIInv, UploadTyped
<1>4. ASSUME NEW u \in Callers, NEW reply \in Replies, PostAnalysis(u, reply) PROVE s[f] \in {r[f], Nil}
  <2>1. db' = IF reply = "failed" THEN db ELSE [db EXCEPT !.ana = @ \union {RowPosted(u)}]
    BY <1>4 DEF PostAnalysis, RowPosted
  <2>2. db'.ana = db.ana \/ db'.ana = db.ana \union {RowPosted(u)}
    BY <2>1 DEF UploadIInv, UploadTyped
  <2>3. r.id <= Cardinality(db.ana) /\ Cardinality(db.ana) \in Nat /\ r.id \in Nat
    BY FS_CardinalityType DEF UploadIInv, UploadRuled, RowsNumbered
  <2>4. RowPosted(u).id = Cardinality(db.ana) + 1
    BY DEF RowPosted
  <2>5. s # RowPosted(u)
    BY <2>3, <2>4
  <2> QED
    BY <1>1, <2>2, <2>5
<1>5. ASSUME NEW g \in {"cache", "mat"}, FileRemoved(g) PROVE s[f] \in {r[f], Nil}
  <2>1. PICK a \in db.ana : db' = [db EXCEPT !.ana = (@ \ {a}) \union {[a EXCEPT ![g] = Nil]}]
    BY <1>5 DEF FileRemoved
  <2>2. db'.ana = (db.ana \ {a}) \union {[a EXCEPT ![g] = Nil]}
    BY <2>1 DEF UploadIInv, UploadTyped
  <2>3. [a EXCEPT ![g] = Nil].id = a.id /\ [a EXCEPT ![g] = Nil][f] \in {a[f], Nil}
    BY DEF UploadIInv, UploadTyped, Row, FileLinks
  <2>4. CASE s \in db.ana
    BY <1>1, <2>4
  <2>5. CASE s = [a EXCEPT ![g] = Nil]
    BY <1>1, <2>3, <2>5
  <2> QED
    BY <2>2, <2>4, <2>5
<1>6. ASSUME NEW u \in Callers, NEW reply \in Replies, InsertOperation(u, reply) PROVE db'.ana = db.ana
  BY <1>6 DEF InsertOperation, UploadIInv, UploadTyped
<1>7. ASSUME NEW u \in Callers,
             \/ BeginUpload(u) \/ LookupAnswered(u) \/ LookupFails(u) \/ AdoptExistingAnalysis(u)
             \/ AdoptFails(u) \/ FilesSettled(u) \/ Outcome(u)
             \/ \E g \in {"cache", "mat"}, ok \in BOOLEAN : FileSent(u, g, ok)
             \/ \E answered \in BOOLEAN : ConfirmUploadState(u, answered)
      PROVE  db' = db
  BY <1>7 DEF BeginUpload, LookupAnswered, LookupFails, AdoptExistingAnalysis, AdoptFails, FilesSettled, Outcome,
              FileSent, ConfirmUploadState
<1>8. ASSUME (\E answered \in BOOLEAN : ListLookup(answered)) \/ UploadReload \/ UNCHANGED uploadVars PROVE db' = db
  BY <1>8 DEF ListLookup, UploadReload, uploadVars
<1> QED
  BY <1>2, <1>3, <1>4, <1>5, <1>6, <1>7, <1>8 DEF UploadNext, UploadStep

----------------------------------------------------------------------------
(* The theorems.                                                           *)

\* The invariant of every upload of uploadResume.ts, uploadCapture.ts and the list of
\* CapturesSettings.vue.
THEOREM UploadInvariant == UploadSpec => []UploadIInv
<1>1. UploadIInv /\ [UploadNext]_uploadVars => UploadIInv'
  BY UploadNextTyped, UploadNextRuled DEF UploadIInv
<1> QED
  BY UploadInitIInv, <1>1, PTL DEF UploadSpec

\* Type correctness: uploadResume.ts remembers only operations that are in the database, and
\* every analysis row belongs to one.
THEOREM UploadTypeCorrect == UploadSpec => []UploadTypeOK
<1>1. UploadIInv => UploadTypeOK
  <2> SUFFICES ASSUME UploadIInv PROVE UploadTypeOK
    OBVIOUS
  <2>1. prog.cache \in Ids /\ prog.mat \in Ids /\ shown \in {"unknown", "no", "partial", "uploaded"}
    BY DEF UploadIInv, UploadTyped, Prog
  <2>2. prog.op \in db.ops \union {0} /\ \A r \in db.ana : r.op \in db.ops
    BY DEF UploadIInv, UploadRuled, RowsNumbered
  <2> QED
    BY <2>1, <2>2 DEF UploadTypeOK, Ids
<1> QED
  BY UploadInvariant, <1>1, PTL

\* A capture that Settings > Local Captures shows as uploaded is in the database whole, whatever
\* failed on the way: its local copy may go (captureUploadState.ts:10-16, CapturesSettings.vue:613-623).
THEOREM RedundantAlwaysComplete == UploadSpec => []RedundantIsComplete
<1>1. UploadIInv => RedundantIsComplete
  BY DEF UploadIInv, UploadRuled
<1> QED
  BY UploadInvariant, <1>1, PTL

\* Retries, lost replies and reloads never insert a second operation row; only an unanswered
\* lookup or two attempts at the same time can (uploadResume.ts:1-10).
THEOREM NeverTwoOperations == UploadSpec => []OneOperation
<1>1. UploadIInv => OneOperation
  BY DEF UploadIInv, UploadRuled
<1> QED
  BY UploadInvariant, <1>1, PTL

\* An operation never gets a second analysis row from one attempt at a time (uploadResume.ts:101-108).
THEOREM NeverTwoAnalyses == UploadSpec => []OneAnalysisPerOperation
<1>1. UploadIInv => OneAnalysisPerOperation
  BY DEF UploadIInv, UploadRuled
<1> QED
  BY UploadInvariant, <1>1, PTL

\* What analysisDone of uploadResume.ts:16-24 claims is true of the database.
THEOREM DoneAlwaysComplete == UploadSpec => []DoneIsComplete
<1>1. UploadIInv => DoneIsComplete
  BY DEF UploadIInv, UploadRuled
<1> QED
  BY UploadInvariant, <1>1, PTL

\* No PATCH and no POST replaces a link that the row already has (uploadResume.ts:123-126).
THEOREM LinkNeverOverwritten == UploadSpec => LinkNotOverwritten
<1> DEFINE Kept == \A r \in db.ana, s \in db'.ana :
                      (r.id = s.id /\ ~past'.overlapped) => \A f \in {"cache", "mat"} : r[f] # Nil => s[f] \in {r[f], Nil}
<1>1. UploadIInv /\ [UploadNext]_uploadVars => Kept
  BY LinksKept DEF FileLinks
<1> QED
  BY UploadInvariant, <1>1, PTL DEF UploadSpec, LinkNotOverwritten
=============================================================================
