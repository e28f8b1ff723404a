------------------------------ MODULE LabServer ------------------------------
(***************************************************************************)
(* The lab server's extensions that keep or guard state: the question page *)
(* and its proxy (d1-ask-db, d1-ask-endpoint), the hook that guards who may *)
(* add co-owners and hand a record over (d1-access-guard), the genealogy   *)
(* endpoint (d1-trace) and the crawler page (d1-force-crawler).  Directus, *)
(* Postgres and the crawler daemon are modelled from their use here.       *)
(***************************************************************************)
EXTENDS Integers, Sequences, FiniteSets, FiniteSetsExt, SequencesExt

CONSTANTS
    Questions,        \* questions, up to spacing and case (norm)
    HISTORY_LIMIT,    \* questions the history keeps
    SAVED_LIMIT,      \* questions that can be saved
    MAX_MESSAGES,     \* messages the proxy passes on
    MaxAskSteps,      \* clicks on the question page, over both tabs
    MaxAskFaults,     \* questions the service answers with an error
    Members,          \* signed-in lab members
    MaxWrites,        \* guarded writes
    MAX_ROWS,         \* rows of one section of a trace
    Files,            \* rows of machining_force_analysis
    MaxCrawlSteps     \* clicks on the crawler page

ASSUME LabAssumption ==
    /\ HISTORY_LIMIT \in Nat \ {0} /\ SAVED_LIMIT \in Nat \ {0}
    /\ MAX_MESSAGES \in Nat \ {0} /\ MAX_ROWS \in Nat \ {0}

VARIABLES qna, grd, trc, crw

askVars == <<qna>>
grdVars == <<grd>>
trcVars == <<trc>>
crwVars == <<crw>>

----------------------------------------------------------------------------
(* Ask the Database.  Two tabs of one user share the stored lists; `wanted` *)
(* holds what was saved and not unsaved since, in whichever tab.            *)

Tabs == {1, 2}
Stores == {"ok", "full", "blocked"}     \* localStorage: works, refuses writes, throws
Lists == {"hist", "saved"}

removeQuestion(l, q) == SelectSeq(l, LAMBDA e : e # q)
hasQuestion(l, q) == q \in Range(l)
addQuestion(l, q) == <<q>> \o removeQuestion(l, q)
Limited(l, n) == SubSeq(l, 1, Min({n, Len(l)}))
ToggleResult(l, q) ==
    IF hasQuestion(l, q) THEN "removed" ELSE IF Len(l) >= SAVED_LIMIT THEN "full" ELSE "saved"
toggleSavedQuestion(l, q) ==
    CASE ToggleResult(l, q) = "removed" -> removeQuestion(l, q)
      [] ToggleResult(l, q) = "full" -> l
      [] OTHER -> addQuestion(l, q)

\* The list an update starts from: the stored one, or the tab's when storage throws.
Fresh(t, key) == IF qna.store = "blocked" THEN qna.tab[t][key] ELSE qna.stored[key]
updateList(a, t, key, next) ==
    [a EXCEPT !.tab[t][key] = next, !.stored[key] = IF qna.store = "ok" THEN next ELSE @]

startsConversation(context) == context = <<>>
\* The messages of the turns that were answered.
history(turns) ==
    FoldLeft(LAMBDA ms, u :
        IF u.status # "done" THEN ms
        ELSE ms \o <<"user">> \o (IF u.sql THEN <<"assistant">> ELSE <<>>), <<>>, turns)
busy(t) == \E i \in 1..Len(qna.turns[t]) : qna.turns[t][i].status = "pending"

AskInit ==
    \E s \in Stores, acc \in {"none", "api", "app"}, secret \in BOOLEAN :
        /\ acc # "app" \/ ~secret => s = "ok"
        /\ qna = [turns |-> [t \in Tabs |-> <<>>], tab |-> [t \in Tabs |-> [k \in Lists |-> <<>>]],
               stored |-> [k \in Lists |-> <<>>], store |-> s, sent |-> [t \in Tabs |-> <<>>],
               notice |-> [t \in Tabs |-> FALSE], wanted |-> {}, access |-> acc, secret |-> secret,
               first |-> {}, faults |-> 0, steps |-> 0]

AskStep(a) == qna.steps < MaxAskSteps /\ qna' = [a EXCEPT !.steps = @ + 1]

submit(t) ==
    \E q \in Questions :
        LET context == history(qna.turns[t])
            sending == [qna EXCEPT !.turns[t] = Append(@, [question |-> q, status |-> "pending", sql |-> FALSE, error |-> ""]),
                                   !.sent[t] = Append(context, "user")]
            next == Limited(addQuestion(Fresh(t, "hist"), q), HISTORY_LIMIT)
        IN /\ ~busy(t)
           /\ AskStep(IF startsConversation(context)
                      THEN [updateList(sending, t, "hist", next) EXCEPT !.first = @ \cup {q}] ELSE sending)
forget(t) ==
    \E q \in Range(qna.tab[t]["hist"]) :
        qna.turns[t] = <<>> /\ AskStep(updateList(qna, t, "hist", removeQuestion(Fresh(t, "hist"), q)))
toggleSaved(t) ==
    \E i \in 1..Len(qna.turns[t]) :
        LET q == qna.turns[t][i].question
            l == Fresh(t, "saved")
            r == ToggleResult(l, q)
        IN /\ qna.turns[t][i].status = "done" /\ qna.turns[t][i].sql
           /\ AskStep([updateList(qna, t, "saved", toggleSavedQuestion(l, q)) EXCEPT
                        !.notice[t] = (r = "full"),
                        !.wanted = CASE r = "saved" -> @ \cup {q} [] r = "removed" -> @ \ {q} [] OTHER -> @])
unsave(t) ==
    \E q \in Range(qna.tab[t]["saved"]) :
        /\ qna.turns[t] = <<>>
        /\ AskStep([updateList(qna, t, "saved", removeQuestion(Fresh(t, "saved"), q)) EXCEPT !.wanted = @ \ {q}])
NoticeTimer(t) == qna.notice[t] /\ qna' = [qna EXCEPT !.notice[t] = FALSE]

\* The proxy: what is passed on, and the status of its answer to what the service does.
sanitiseMessages(ms) == IF Len(ms) > MAX_MESSAGES THEN SubSeq(ms, Len(ms) - MAX_MESSAGES + 1, Len(ms)) ELSE ms
Upstream == {"sql", "reply", "rejected", "failed", "denied", "timeout", "down"}
ChatStatus(up) ==
    CASE qna.access = "none" -> "401"
      [] qna.access = "api" -> "403"
      [] qna.access = "app" /\ ~qna.secret -> "503"
      [] OTHER -> (CASE up = "denied" -> "502 upstream_auth"
                     [] up = "timeout" -> "504"
                     [] up = "down" -> "502"
                     [] up \in {"rejected", "failed"} -> "422"
                     [] OTHER -> "200")
explainError(status, up) ==
    CASE status = "422" -> "rephrase"
      [] status \in {"401", "403"} -> "not allowed"
      [] status = "502 upstream_auth" -> "tell admin"
      [] status = "502" -> "unreachable"
      [] status = "504" -> "too long"
      [] OTHER -> "other"
Answered(t, up) ==
    LET n == Len(qna.turns[t])
        s == ChatStatus(up)
        turn == IF s = "200" THEN [qna.turns[t][n] EXCEPT !.status = "done", !.sql = (up = "sql")]
                ELSE [qna.turns[t][n] EXCEPT !.status = "error", !.sql = (up = "rejected" /\ s = "422"),
                                             !.error = explainError(s, up)]
        fault == IF turn.status = "error" THEN 1 ELSE 0
    IN /\ busy(t) /\ qna.faults + fault <= MaxAskFaults
       /\ qna' = [qna EXCEPT !.turns[t][n] = turn, !.sent[t] = <<>>, !.faults = @ + fault]
Reload(t) ==    \* the tab is opened again
    /\ AskStep([qna EXCEPT !.turns[t] = <<>>, !.sent[t] = <<>>, !.notice[t] = FALSE,
                           !.wanted = IF qna.store = "ok" THEN @ ELSE Range(qna.tab[3 - t]["saved"]),
                           !.tab[t] = IF qna.store = "blocked" THEN [k \in Lists |-> <<>>] ELSE qna.stored])

AskNext ==
    \E t \in Tabs : submit(t) \/ forget(t) \/ toggleSaved(t) \/ unsave(t) \/ NoticeTimer(t)
                    \/ (\E up \in Upstream : Answered(t, up)) \/ Reload(t)

(* Whichever tabs save and unsave, in whatever order, the stored list holds *)
(* exactly the questions saved and not unsaved since (updateList re-reads   *)
(* before it writes; history.ts 119-138).                                   *)
SavedIsWanted == qna.store = "ok" => Range(qna.stored["saved"]) = qna.wanted

(* The stored lists never grow past their limits and hold no question twice;*)
(* the history only holds questions that opened a conversation.             *)
ListsBounded ==
    /\ Len(qna.stored["hist"]) <= HISTORY_LIMIT /\ Len(qna.stored["saved"]) <= SAVED_LIMIT
    /\ \A k \in Lists : IsInjective(qna.stored[k])
    /\ Range(qna.stored["hist"]) \subseteq qna.first

(* The question in flight is asked with exactly the turns answered before   *)
(* it, and only one is in flight per tab (chat.vue 141-171).                *)
ContextIsAnswered ==
    \A t \in Tabs : busy(t) =>
        /\ qna.sent[t] = Append(history(Front(qna.turns[t])), "user")
        /\ \A i \in 1..(Len(qna.turns[t]) - 1) : qna.turns[t][i].status # "pending"

(* A user is told to sign in again only when the user's own access was      *)
(* refused, never for the server's credentials (index.js 89-102).           *)
SigninIsOwn ==
    \A t \in Tabs : \A i \in 1..Len(qna.turns[t]) :
        qna.turns[t][i].error = "not allowed" => qna.access # "app"

(* Does not hold (README, section 5): "a full or unavailable store just     *)
(* means the list lasts until the page closes" (history.ts:110).            *)
ListLastsPage == qna.store = "full" => qna.wanted \subseteq UNION {Range(qna.tab[t]["saved"]) : t \in Tabs}
(* Does not hold (README, section 5): the messages passed on begin with a   *)
(* question of the user.                                                    *)
ContextStartsWithUser == \A t \in Tabs : qna.sent[t] # <<>> => Head(sanitiseMessages(qna.sent[t])) = "user"

----------------------------------------------------------------------------
(* The access guard.  Samples are 1 and 2, the campaign is owned by one     *)
(* member; a request is checked, then written in the same transaction.      *)

Samples == {1, 2}
NoReq == [by |-> "", kind |-> "", keys |-> {}, to |-> "", ok |-> FALSE]
NoOwner == ""

CanUpdateSample(u, s) == grd.owner[s] = u \/ u \in grd.co[s]
\* The parent check of a junction row: its update rule, or inserted by this transaction.
ParentPasses(u, s, fresh) == CanUpdateSample(u, s) \/ fresh
\* Handing over needs the current owner, for every key whose owner would change.
OwnerPasses(u, keys, to) == \A s \in keys : grd.owner[s] = to \/ grd.owner[s] = u

GrdInit ==
    \E o \in [Samples -> Members \cup {NoOwner}], m \in Members :
        grd = [owner |-> o, co |-> [s \in Samples |-> {}], camp |-> m, links |-> {}, req |-> [u \in Members |-> NoReq],
               everOwner |-> [s \in Samples |-> {o[s]}], everEdits |-> [s \in Samples |-> {o[s]}], writes |-> 0]

CoOwnerChecked(u) ==    \* create in sample_co_owners, or repoint one to another sample
    \E s \in Samples, v \in Members :
        /\ grd.req[u] = NoReq /\ grd.writes < MaxWrites
        /\ grd' = [grd EXCEPT !.req[u] = [by |-> u, kind |-> "co", keys |-> {s}, to |-> v,
                                          ok |-> ParentPasses(u, s, FALSE)], !.writes = @ + 1]
OwnerChecked(u) ==      \* an update of the owner column, of one or of several samples
    \E keys \in (SUBSET Samples) \ {{}}, v \in Members :
        /\ grd.req[u] = NoReq /\ grd.writes < MaxWrites
        /\ \A s \in keys : CanUpdateSample(u, s)        \* Directus' own update rule, applied first
        /\ grd' = [grd EXCEPT !.req[u] = [by |-> u, kind |-> "owner", keys |-> keys, to |-> v,
                                          ok |-> OwnerPasses(u, keys, v)], !.writes = @ + 1]
LinkChecked(u) ==       \* campaign_samples: the campaign and the sample are both checked
    \E s \in Samples :
        /\ grd.req[u] = NoReq /\ grd.writes < MaxWrites
        /\ grd' = [grd EXCEPT !.req[u] = [by |-> u, kind |-> "link", keys |-> {s}, to |-> u,
                                          ok |-> grd.camp = u /\ ParentPasses(u, s, FALSE)], !.writes = @ + 1]
CreateSample(u) ==      \* a sample nobody has yet, with its co-owners, in one request
    \E s \in Samples, v \in Members, w \in Members :
        /\ grd.owner[s] = NoOwner /\ grd.writes < MaxWrites /\ ParentPasses(u, s, TRUE)
        /\ grd' = [grd EXCEPT !.owner[s] = v, !.co[s] = {w}, !.everOwner[s] = @ \cup {v},
                              !.everEdits[s] = @ \cup {v, w}, !.writes = @ + 1]
RowsWritten(u) ==           \* the rows are written, or the transaction is refused as a whole
    LET r == grd.req[u]
        done == [grd EXCEPT !.req[u] = NoReq]
        s == CHOOSE k \in r.keys : TRUE
    IN /\ r # NoReq
       /\ grd' = CASE ~r.ok -> done
                   [] r.ok /\ r.kind = "co" -> [done EXCEPT !.co[s] = @ \cup {r.to}, !.everEdits[s] = @ \cup {r.to}]
                   [] r.ok /\ r.kind = "link" -> [done EXCEPT !.links = @ \cup {s}]
                   [] OTHER -> [done EXCEPT !.owner = [k \in Samples |-> IF k \in r.keys THEN r.to ELSE @[k]],
                                            !.everOwner = [k \in Samples |-> IF k \in r.keys THEN @[k] \cup {r.to} ELSE @[k]],
                                            !.everEdits = [k \in Samples |-> IF k \in r.keys THEN @[k] \cup {r.to} ELSE @[k]]]
RemoveCoOwner(u) ==
    \E s \in Samples, v \in Members :
        /\ CanUpdateSample(u, s) /\ v \in grd.co[s] /\ grd.writes < MaxWrites
        /\ grd' = [grd EXCEPT !.co[s] = @ \ {v}, !.writes = @ + 1]

GrdNext ==
    \E u \in Members : CoOwnerChecked(u) \/ OwnerChecked(u) \/ LinkChecked(u) \/ CreateSample(u) \/ RowsWritten(u)
                       \/ RemoveCoOwner(u)

(* A sample gets a new editor or a place in a campaign only through someone *)
(* who could edit it, of the campaign's owner for the latter, and a new     *)
(* owner only through someone who owned it or, by an editor, one it had     *)
(* before, whatever other requests are written in between                   *)
(* (d1-access-guard/index.js 149-234).                                      *)
GrantsAreOwners ==
    [][\A s \in Samples :
        LET by == {u \in Members : grd.req[u] # NoReq /\ grd'.req[u] = NoReq}
        IN /\ grd.owner[s] # NoOwner /\ grd'.owner[s] # grd.owner[s] =>
                /\ by # {} /\ by \subseteq grd.everEdits[s]
                /\ by \subseteq grd.everOwner[s] \/ grd'.owner[s] \in grd.everOwner[s]
           /\ grd.owner[s] # NoOwner /\ ~(grd'.co[s] \subseteq grd.co[s]) => by # {} /\ by \subseteq grd.everEdits[s]
           /\ s \in grd'.links \ grd.links => by = {grd.camp} /\ grd.camp \in grd.everEdits[s]]_grd

(* Does not hold with three members (README, section 5): an owner is        *)
(* changed only by someone who owned the sample; an owner sent unchanged is *)
(* not checked (line 179), and may be an earlier one when it is written.    *)
OwnersChangeOwner ==
    [][\A s \in Samples : grd.owner[s] # NoOwner /\ grd'.owner[s] # grd.owner[s] =>
        \A u \in Members : grd.req[u] # NoReq /\ grd'.req[u] = NoReq => u \in grd.everOwner[s]]_grd

(* Does not hold (README, section 5): whoever adds a co-owner can edit the  *)
(* sample when the row is written; the check is a statement of its own.     *)
GrantByEditor ==
    [][\A s \in Samples : grd.owner[s] # NoOwner /\ ~(grd'.co[s] \subseteq grd.co[s]) =>
        \E u \in Members : grd.req[u] # NoReq /\ grd'.req[u] = NoReq /\ CanUpdateSample(u, s)]_grd

----------------------------------------------------------------------------
(* A sample's genealogy.  0 is the sample asked for; an edge leads one step *)
(* further from it.  Sample ids are ordered against the numbers, so a row   *)
(* and its predecessor of the same depth come in either order.              *)

Nodes == 0..4
Steps == {e \in Nodes \X Nodes : e[1] < e[2]}

\* f_trace_ancestors, f_trace_descendants: the samples reached, with their depth.
Depths(edges) ==
    LET d[n \in Nodes] == IF n = 0 THEN 0
                          ELSE LET up == {d[m] : m \in {k \in 0..(n - 1) : <<k, n>> \in edges}}
                               IN IF up \ {9} = {} THEN 9 ELSE 1 + Min(up)
    IN d
Reached(d) == {n \in Nodes : d[n] < 9}
RowsBefore(d, a, b) == d[a] < d[b] \/ (d[a] = d[b] /\ a > b)
\* The rows of a section, at most MAX_ROWS of them (cap).
ListedRows(d) ==
    LET rows == Reached(d) \ {0}
    IN {r \in rows : Cardinality({q \in rows : RowsBefore(d, q, r)}) < MAX_ROWS}
PrevOf(edges, d, r) == {p \in Reached(d) : <<p, r>> \in edges}

\* Where a walk begins: the sample itself and, when rows are missing, the unlisted steps.
Frontier(edges, d, L) ==
    {0} \cup (IF L # Reached(d) \ {0} THEN UNION {PrevOf(edges, d, r) : r \in L} \ L ELSE {})
\* The walk of reachable(), over readable rows; numbers grow along every edge.
ReachableUpTo(edges, d, L, ok) ==
    LET begin == Frontier(edges, d, L)
        in[n \in Nodes] == n \in begin \/ (n \in L /\ n \in ok /\ \E p \in PrevOf(edges, d, n) : in[p])
    IN {n \in Nodes : in[n]}

\* What the answer says of a row: reached through something hidden; the step it is drawn
\* from, the shallowest that was walked, or -1; of a stock lot, by the sample it came by.
Truncated == trc.listed # Reached(trc.depth) \ {0}
ThroughHidden(r) == r \notin trc.reach
From(r) ==
    LET walked == PrevOf(trc.edges, trc.depth, r) \cap trc.reach
    IN IF ThroughHidden(r) \/ walked = {} THEN -1
       ELSE CHOOSE p \in walked : \A q \in walked \ {p} : RowsBefore(trc.depth, p, q)
Shown == trc.listed \cap trc.ok
HiddenCount == Cardinality(trc.listed \ trc.ok)
StockThrough(via) ==
    IF Truncated /\ via # 0 /\ via \notin trc.listed THEN via \notin trc.ok ELSE via \notin trc.reach

TrcInit == trc = [status |-> "", edges |-> {}, ok |-> {}, depth |-> <<>>, listed |-> {}, reach |-> {}]
TraceSample ==
    /\ trc.status = ""
    /\ \E edges \in SUBSET Steps :
        LET d == Depths(edges)
            L == ListedRows(d)
        IN \E ok \in SUBSET L :
            trc' = [status |-> "200", edges |-> edges, ok |-> ok \cup {0} \cup (Reached(d) \ L), depth |-> d, listed |-> L,
                    reach |-> ReachableUpTo(edges, d, L, ok)]
TraceRefused ==     \* not signed in, no app access, not an id, unreadable, or too large
    trc.status = "" /\ \E s \in {"401", "403", "400", "404", "503", "500"} : trc' = [trc EXCEPT !.status = s]
TrcNext == TraceSample \/ TraceRefused

\* A path of readable samples from 0 to r.
ReadablePath(r) ==
    \E between \in SUBSET (trc.ok \ {0, r}) :
        LET path == SetToSortSeq(between \cup {0, r}, <)
        IN \A i \in 1..(Len(path) - 1) : <<path[i], path[i + 1]>> \in trc.edges

(* A row is marked as reached through something hidden exactly when no path *)
(* of readable samples leads to it; when rows were cut, only then (comment  *)
(* at d1-trace/index.js 113-117).  What is drawn leads back to a walked row,*)
(* and shown and hidden rows are all rows.                                  *)
TraceIsExact ==
    trc.status = "200" =>
        /\ \A r \in Shown :
            /\ ThroughHidden(r) => ~ReadablePath(r)
            /\ ~Truncated /\ ~ReadablePath(r) => ThroughHidden(r)
            /\ ~ThroughHidden(r) => From(r) # -1 /\ (~Truncated => From(r) \in Shown \cup {0})
        /\ \A v \in Reached(trc.depth) : StockThrough(v) /\ v \in trc.ok => ~ReadablePath(v)
        /\ Cardinality(Shown) + HiddenCount = Cardinality(trc.listed)

----------------------------------------------------------------------------
(* The crawler page.  cfg stands for the settings form, 0 for a value the   *)
(* form does not accept; a read shows the rows as they were when it was     *)
(* sent or when it was answered.                                            *)

CfgValues == 0..2
Clamped(c) == IF c = 0 THEN 1 ELSE c
Statuses == {"pending", "processing", "done", "error"}
NoRead == [run |-> FALSE, cfg |-> -1]
Readers == {"poll", "toggle", "save"}
ErrorsOf(rows) == {f \in Files : rows[f] = "error"}

CrwInit ==
    \E rows \in [Files -> {"done", "error"}] :
        crw = [db |-> [run |-> FALSE, cfg |-> 1], rows |-> rows, ever |-> {1}, seen |-> NoRead, draft |-> 1, dirty |-> FALSE,
               errors |-> {}, reads |-> [r \in Readers |-> NoRead], rest |-> FALSE, restOf |-> {}, save |-> "", payload |-> 0,
               toggle |-> "", next |-> FALSE, job |-> "", ids |-> {}, gone |-> FALSE, edits |-> 0, steps |-> 0]

refreshing == crw.reads["poll"] # NoRead \/ crw.rest
CrwStep(c) == crw.steps < MaxCrawlSteps /\ ~crw.gone /\ crw' = [c EXCEPT !.steps = @ + 1]

\* Mutant: the guard of refreshAll() the wrong way round, a refresh only during another.
MutRefreshed(c) ==
    IF ~refreshing \/ c.gone THEN c
    ELSE [c EXCEPT !.reads["poll"] = c.db, !.rest = TRUE, !.restOf = ErrorsOf(c.rows)]

\* refreshAll(): one at a time, and none once the page is left.
Refreshed(c) ==
    IF refreshing \/ c.gone THEN c
    ELSE [c EXCEPT !.reads["poll"] = c.db, !.rest = TRUE, !.restOf = ErrorsOf(c.rows)]
Poll == ~crw.gone /\ ~refreshing /\ crw' = Refreshed(crw)

Loaded(c, v) == [c EXCEPT !.seen = v, !.draft = IF c.dirty THEN @ ELSE v.cfg]
loadState(r) ==
    /\ crw.reads[r] # NoRead
    /\ \E v \in {crw.reads[r], crw.db} :
        crw' = [Loaded(crw, v) EXCEPT !.reads[r] = NoRead,
                    !.save = IF r = "save" THEN "" ELSE @, !.toggle = IF r = "toggle" THEN "" ELSE @]
loadRecent ==
    /\ crw.rest
    /\ \E e \in {crw.restOf, ErrorsOf(crw.rows)} : crw' = [crw EXCEPT !.rest = FALSE, !.errors = e]

EditSettings ==
    \E v \in CfgValues \ {crw.draft} : CrwStep([crw EXCEPT !.draft = v, !.dirty = TRUE, !.edits = @ + 1])
saveSettings ==
    crw.dirty /\ crw.save = "" /\ CrwStep([crw EXCEPT !.save = "patch", !.payload = Clamped(crw.draft)])
SettingsSaved ==
    /\ crw.save = "patch"
    /\ LET db == [crw.db EXCEPT !.cfg = crw.payload]
       IN crw' = [crw EXCEPT !.db = db, !.ever = @ \cup {crw.payload}, !.dirty = FALSE, !.save = "load", !.reads["save"] = db]
SettingsRefused == crw.save = "patch" /\ crw' = [crw EXCEPT !.save = ""]

toggleRunning == crw.toggle = "" /\ CrwStep([crw EXCEPT !.toggle = "patch", !.next = ~crw.seen.run])
Toggled ==
    /\ crw.toggle = "patch"
    /\ LET db == [crw.db EXCEPT !.run = crw.next]
       IN crw' = [crw EXCEPT !.db = db, !.toggle = "load", !.reads["toggle"] = db]

\* Recrawl reads the rows that are not being processed, then resets them; retry resets listed errors.
recrawl == crw.job = "" /\ CrwStep([crw EXCEPT !.job = "read"])
RecrawlRead ==
    /\ crw.job = "read"
    /\ LET ids == {f \in Files : crw.rows[f] # "processing"}
       IN crw' = IF ids = {} THEN [Refreshed(crw) EXCEPT !.job = ""] ELSE [crw EXCEPT !.job = "reset", !.ids = ids]
retryAllErrors == crw.job = "" /\ crw.errors # {} /\ CrwStep([crw EXCEPT !.job = "reset", !.ids = crw.errors])
resetToPending ==
    /\ crw.job = "reset"
    /\ LET rows == [f \in Files |-> IF f \in crw.ids THEN "pending" ELSE crw.rows[f]]
       IN crw' = [Refreshed([crw EXCEPT !.rows = rows]) EXCEPT !.job = "", !.ids = {}]

LeavePage == ~crw.gone /\ CrwStep([crw EXCEPT !.gone = TRUE])

\* The daemon takes a pending row while it is told to run, and finishes it.
DaemonTakes == \E f \in Files : crw.db.run /\ crw.rows[f] = "pending" /\ crw' = [crw EXCEPT !.rows[f] = "processing"]
DaemonEnds ==
    \E f \in Files, s \in {"done", "error"} : crw.rows[f] = "processing" /\ crw' = [crw EXCEPT !.rows[f] = s]

CrwAnswer == SettingsSaved \/ Toggled \/ RecrawlRead \/ resetToPending
CrwNext ==
    \/ Poll \/ (\E r \in Readers : loadState(r)) \/ loadRecent \/ CrwAnswer \/ EditSettings \/ saveSettings \/ SettingsRefused
    \/ toggleRunning \/ recrawl \/ retryAllErrors \/ LeavePage \/ DaemonTakes \/ DaemonEnds

(* A draft with unsaved edits is changed by nothing but an edit, however    *)
(* the reads of the 5 s poll, of a toggle and of a save overtake each other.*)
DirtyDraftKept == [][crw.dirty /\ crw'.dirty /\ crw'.edits = crw.edits => crw'.draft = crw.draft]_crw

(* Once nothing changes any more, the page comes to show the settings and   *)
(* the failed rows as they are, whichever late answers it got before.       *)
CrawlQuiet ==
    crw.gone \/ (/\ crw.seen = crw.db /\ crw.errors = ErrorsOf(crw.rows)
                 /\ (crw.dirty \/ crw.draft = crw.db.cfg) /\ crw.save = "" /\ crw.toggle = "" /\ crw.job = "")

(* Do not hold (README, section 5): files being processed are left alone    *)
(* (Crawler.vue:227), and a form that counts as saved shows what was saved. *)
ProcessingLeftAlone == [][\A f \in Files : crw.rows[f] = "processing" => crw'.rows[f] # "pending"]_crw
CleanWasStored == ~crw.dirty => crw.draft \in crw.ever
==============================================================================
