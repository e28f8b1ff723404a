------------------------------ MODULE ForceHost ------------------------------
(***************************************************************************)
(* The force dashboard's requests to the host: a full-resolution octree, an *)
(* interpolated grid, a bake (reprocessing with a filter chain), taking a   *)
(* bake back, and a render.  Each one PATCHes the analysis row, which the   *)
(* orchestrator's daemon picks up, and then polls the row.  The operator    *)
(* meanwhile selects other operations, and leaves and re-enters the page,   *)
(* which Vue keeps alive: opGuard.ts decides what a late answer may still   *)
(* do.                                                                      *)
(***************************************************************************)
EXTENDS Naturals, FiniteSets

CONSTANTS
    FOps,          \* the operations of the list, one sample each
    BigOps,        \* those with more points than the octree threshold
    MaxRequests,   \* bound on requests to the host
    MaxSelects     \* bound on selections

ASSUME ForceHostAssumption ==
    /\ BigOps \subseteq FOps
    /\ MaxRequests \in Nat /\ MaxSelects \in Nat

NoOp == "no operation"
Chains == {"none", "chain"}
Builds == {"none", "pending", "done", "error"}
Kinds == {"octree", "grid", "bake", "unbake", "render"}

VARIABLES
    frow,      \* the analysis rows in the database
    proc,      \* per row, the chain the orchestrator claimed it with
    fsel,      \* selectedRowId and loadingDetail
    fdet,      \* the detail shown
    floads,    \* detail requests under way; cur: the newest token
    jobs,      \* running requests; live: begun in the guard's epoch
    busy,      \* the flags that disable the buttons
    fview,     \* the map's mode, the page's activity and its queue
    hostPast   \* bounds, and the builds the host finished

hostVars == <<frow, proc, fsel, fdet, floads, jobs, busy, fview, hostPast>>

NoDetail == [op |-> NoOp, octree |-> "none", grid |-> "none",
             chain |-> "none", baked |-> FALSE]

NotBusy == [build |-> FALSE, bake |-> FALSE, render |-> FALSE]

HostInit ==
    /\ frow = [o \in FOps |-> [octree |-> "none", grid |-> "none",
               status |-> "done", chain |-> "none", baked |-> FALSE,
               out |-> "none", render |-> FALSE]]
    /\ proc = [o \in FOps |-> "idle"]
    /\ fsel = [row |-> NoOp, loading |-> FALSE]
    /\ fdet = NoDetail
    /\ floads = {}
    /\ jobs = {}
    /\ busy = NotBusy
    /\ fview = [mode |-> "lite", preferred |-> "lite", gridFull |-> FALSE,
                active |-> TRUE, queue |-> {}]
    /\ hostPast = [requests |-> 0, selects |-> 0, away |-> 0, built |-> {}]

(* opGuard.begin(op)(): the epoch is still the same and so is the op. *)
Live(j) == j.live /\ fdet.op = j.op

FlagOf(kind) ==
    CASE kind \in {"octree", "grid"} -> "build"
      [] kind \in {"bake", "unbake"} -> "bake"
      [] OTHER -> "render"

pickMode(preferred, d) ==
    CASE d.octree = "done" /\ d.op \in BigOps         -> "full"
      [] preferred = "full" /\ d.octree = "done"      -> "full"
      [] OTHER                                         -> "lite"

(***************************************************************************)
(* Selection.                                                               *)
(***************************************************************************)
selectOp(o) ==
    /\ hostPast.selects < MaxSelects
    /\ hostPast' = [hostPast EXCEPT !.selects = @ + 1]
    /\ fsel' = [row |-> o, loading |-> TRUE]
    /\ floads' = {[l EXCEPT !.cur = FALSE] : l \in floads}
                   \cup {[op |-> o, cur |-> TRUE]}
    /\ UNCHANGED <<frow, proc, fdet, jobs, busy, fview>>

Cancelled == {[j EXCEPT !.live = FALSE] : j \in jobs}

(* stopHostPolls: a request of the previous op no longer reports. *)
stopHostPolls == jobs' = Cancelled /\ busy' = NotBusy

(* The watchers on detail.id. *)
ShowDetail(d) ==
    /\ fdet' = d
    /\ IF d.op = fdet.op
       THEN UNCHANGED <<jobs, busy, fview>>
       ELSE /\ stopHostPolls
            /\ fview' = IF d.op = NoOp
                        THEN [fview EXCEPT !.queue = {[q EXCEPT !.live = FALSE] : q \in @}]
                        ELSE [fview EXCEPT !.mode = pickMode(fview.preferred, d),
                                           !.gridFull = FALSE,
                                           !.queue = {[q EXCEPT !.live = FALSE] : q \in @}]

DetailOf(o) == [op |-> o, octree |-> frow[o].octree, grid |-> frow[o].grid,
                chain |-> frow[o].chain, baked |-> frow[o].baked]

(* finally { if (selectToken.isCurrent(seq)) loadingDetail = false } *)
Loaded(ok) == [fsel EXCEPT !.loading = FALSE]

DetailAnswered(l, ok) ==
    /\ l \in floads
    /\ floads' = floads \ {l}
    /\ IF l.cur
       THEN /\ ShowDetail(IF ok THEN DetailOf(l.op) ELSE NoDetail)
            /\ fsel' = Loaded(ok)
       ELSE UNCHANGED <<fdet, jobs, busy, fview, fsel>>
    /\ UNCHANGED <<frow, proc, hostPast>>

(* Another sample is clicked; the shown op is not one of its. *)
selectSample ==
    /\ fdet.op # NoOp
    /\ hostPast.selects < MaxSelects
    /\ hostPast' = [hostPast EXCEPT !.selects = @ + 1]
    /\ fsel' = [fsel EXCEPT !.row = NoOp]
    /\ ShowDetail(NoDetail)
    /\ UNCHANGED <<frow, proc, floads>>

(***************************************************************************)
(* A request: the PATCH, then the poll.                                     *)
(***************************************************************************)
NoAnswer == [status |-> "none", chain |-> "none"]

Begin(kind) == [kind |-> kind, op |-> fdet.op, live |-> TRUE, at |-> "patch",
                ans |-> NoAnswer]

(* What the buttons offer, and the functions' own early returns. *)

MayRequest(kind) ==
    /\ fdet.op # NoOp
    /\ ~busy[FlagOf(kind)]
    /\ CASE kind = "octree" -> fdet.octree # "done"
         [] kind = "bake"   -> fsel.loading = FALSE
         [] kind = "unbake" -> fsel.loading = FALSE /\ fdet.baked
         [] kind = "render" -> fsel.loading = FALSE
         [] OTHER           -> FALSE

RequestHost(kind) ==
    /\ MayRequest(kind)
    /\ hostPast.requests < MaxRequests
    /\ hostPast' = [hostPast EXCEPT !.requests = @ + 1]
    /\ jobs' = jobs \cup {Begin(kind)}
    /\ busy' = [busy EXCEPT ![FlagOf(kind)] = (kind # "unbake") \/ @]
    /\ UNCHANGED <<frow, proc, fsel, fdet, floads, fview>>

(* chooseMode and the Gridded toggle, with the watch that requests a grid. *)
Choose(v) ==
    LET wants == /\ v.gridFull /\ v.mode = "full"
                 /\ fdet.op # NoOp /\ fdet.grid # "done" /\ ~busy.build
                 /\ <<v.gridFull, v.mode>> # <<fview.gridFull, fview.mode>>
    IN  /\ fview' = v
        /\ wants => hostPast.requests < MaxRequests
        /\ IF wants
           THEN /\ jobs' = jobs \cup {Begin("grid")}
                /\ busy' = [busy EXCEPT !.build = TRUE]
                /\ hostPast' = [hostPast EXCEPT !.requests = @ + 1]
           ELSE UNCHANGED <<jobs, busy, hostPast>>

chooseMode(m) ==
    /\ fview.mode # m
    /\ m = "full" => fdet.octree = "done" /\ ~busy.build
    /\ Choose([fview EXCEPT !.mode = m, !.preferred = m])
    /\ UNCHANGED <<frow, proc, fsel, fdet, floads>>

ToggleGrid ==
    /\ fview.mode = "full" /\ ~busy.build
    /\ Choose([fview EXCEPT !.gridFull = ~@])
    /\ UNCHANGED <<frow, proc, fsel, fdet, floads>>

(* The row as the PATCH of each kind leaves it. *)
Patched(kind, r) ==
    CASE kind = "octree" -> [r EXCEPT !.octree = "pending"]
      [] kind = "grid"   -> [r EXCEPT !.grid = "pending"]
      [] kind = "bake"   -> [r EXCEPT !.chain = "chain", !.status = "pending"]
      [] kind = "unbake" -> [r EXCEPT !.chain = "none", !.baked = FALSE,
                                      !.status = "pending"]
      [] OTHER           -> [r EXCEPT !.render = TRUE, !.status = "pending"]

(* The end of a request: finally { if (live()) busy = false }. *)
MutEnds(j) == jobs' = jobs \ {j} /\ UNCHANGED busy
Ends(j) ==
    /\ jobs' = jobs \ {j}
    /\ busy' = [busy EXCEPT ![FlagOf(j.kind)] = @ /\ ~Live(j)]

Continues(j, k) == jobs' = (jobs \ {j}) \cup {k} /\ UNCHANGED busy

PatchAnswered(j, ok) ==
    /\ j \in jobs /\ j.at = "patch"
    /\ frow' = IF ok THEN [frow EXCEPT ![j.op] = Patched(j.kind, @)] ELSE frow
    /\ IF Live(j) /\ (ok \/ j.kind = "unbake")
       THEN /\ jobs' = (jobs \ {j}) \cup {[j EXCEPT !.at = "poll", !.ans = NoAnswer]}
            /\ busy' = [busy EXCEPT ![FlagOf(j.kind)] = TRUE]
       ELSE Ends(j)
    /\ UNCHANGED <<proc, fsel, fdet, floads, fview, hostPast>>

(* What the poll of each kind reads of the row. *)
Answer(kind, r) ==
    [status |-> CASE kind \in {"octree", "grid"}                        -> r[kind]
                  [] kind = "render" /\ r.status = "done" /\ r.render   -> "pending"
                  [] OTHER                                              -> r.status,
     chain |-> r.chain]

(* A poll wakes up: the GET is sent, and the row is read. *)
PollWakes(j) ==
    /\ j \in jobs /\ j.at = "poll"
    /\ IF Live(j) THEN Continues(j, [j EXCEPT !.at = "asked", !.ans = Answer(j.kind, frow[j.op])])
                  ELSE Ends(j)
    /\ UNCHANGED <<frow, proc, fsel, fdet, floads, fview, hostPast>>

(* The deadline of 15 (a render: 5) minutes. *)
DeadlinePasses(j) ==
    /\ j \in jobs /\ j.at = "poll"
    /\ Ends(j)
    /\ UNCHANGED <<frow, proc, fsel, fdet, floads, fview, hostPast>>

(* octree: the detail takes the path, and the page shows it once active. *)

OctreeDone(j) ==
    /\ fdet' = [fdet EXCEPT !.octree = "done"]
    /\ fview' = IF fview.active
                THEN [fview EXCEPT !.mode = "full", !.preferred = "full"]
                ELSE [fview EXCEPT !.queue = @ \cup {[op |-> j.op, live |-> TRUE]}]

PollAnswered(j) ==
    /\ j \in jobs /\ j.at = "asked"
    /\ CASE ~Live(j)   -> Ends(j) /\ UNCHANGED <<fdet, fview>>
         [] OTHER      ->
            CASE j.ans.status = "error" -> Ends(j) /\ UNCHANGED <<fdet, fview>>
              [] j.ans.status = "done" ->
                 CASE j.kind = "octree" -> Ends(j) /\ OctreeDone(j)
                   [] j.kind = "grid"   -> /\ Ends(j)
                                           /\ fdet' = [fdet EXCEPT !.grid = "done"]
                                           /\ UNCHANGED fview
                   [] j.kind = "unbake" -> /\ Ends(j)
                                           /\ fdet' = [fdet EXCEPT !.chain = "none", !.baked = FALSE]
                                           /\ UNCHANGED fview
                   [] j.kind = "bake"   -> /\ Continues(j, [j EXCEPT !.at = "mark"])
                                           /\ UNCHANGED <<fdet, fview>>
                   [] OTHER             -> Ends(j) /\ UNCHANGED <<fdet, fview>>
              [] OTHER -> /\ Continues(j, [j EXCEPT !.at = "poll", !.ans = NoAnswer])
                          /\ UNCHANGED <<fdet, fview>>
    /\ UNCHANGED <<frow, proc, fsel, floads, hostPast>>

(* A failed GET ends every poll but a render's. *)
PollFails(j) ==
    /\ j \in jobs /\ j.at = "asked"
    /\ IF j.kind = "render" /\ Live(j) THEN Continues(j, [j EXCEPT !.at = "poll", !.ans = NoAnswer]) ELSE Ends(j)
    /\ UNCHANGED <<frow, proc, fsel, fdet, floads, fview, hostPast>>

(* The bake is done: the row is marked baked, whether or not that works. *)
MarkAnswered(j, ok) ==
    /\ j \in jobs /\ j.at = "mark"
    /\ frow' = IF ok THEN [frow EXCEPT ![j.op].baked = TRUE] ELSE frow
    /\ fdet' = IF Live(j) THEN [fdet EXCEPT !.chain = j.ans.chain, !.baked = TRUE]
                          ELSE fdet
    /\ Ends(j)
    /\ UNCHANGED <<proc, fsel, floads, fview, hostPast>>

(* applyFilter, and clearFilter of a chain that is not baked. *)
SaveChain(c) ==
    /\ fdet.op # NoOp /\ ~busy.bake /\ ~fsel.loading
    /\ c # fdet.chain
    /\ hostPast.requests < MaxRequests
    /\ hostPast' = [hostPast EXCEPT !.requests = @ + 1]
    /\ c = "none" => ~fdet.baked
    /\ fdet' = [fdet EXCEPT !.chain = c, !.baked = FALSE]
    /\ frow' = [frow EXCEPT ![fdet.op].chain = c, ![fdet.op].baked = FALSE]
    /\ UNCHANGED <<proc, fsel, floads, jobs, busy, fview>>

(***************************************************************************)
(* The page is left and entered again.                                      *)
(***************************************************************************)
Deactivate ==
    /\ fview.active /\ hostPast.away = 0
    /\ fview' = [fview EXCEPT !.active = FALSE]
    /\ hostPast' = [hostPast EXCEPT !.away = 1]
    /\ UNCHANGED <<frow, proc, fsel, fdet, floads, jobs, busy>>

(* The queued chooseMode('full') runs if its request is still live. *)
Activate ==
    /\ ~fview.active
    /\ fview' = [fview EXCEPT !.active = TRUE, !.queue = {},
                   !.mode = IF \E q \in fview.queue : Live(q) THEN "full" ELSE @,
                   !.preferred = IF \E q \in fview.queue : Live(q) THEN "full" ELSE @]
    /\ UNCHANGED <<frow, proc, fsel, fdet, floads, jobs, busy, hostPast>>

(***************************************************************************)
(* The orchestrator.                                                        *)
(***************************************************************************)
Claim(o) ==
    /\ frow[o].status = "pending" /\ proc[o] = "idle"
    /\ proc' = [proc EXCEPT ![o] = frow[o].chain]
    /\ frow' = [frow EXCEPT ![o].status = "processing"]
    /\ UNCHANGED <<fsel, fdet, floads, jobs, busy, fview, hostPast>>

Ingest(o, ok) ==
    /\ proc[o] # "idle"
    /\ frow' = [frow EXCEPT ![o].status = IF ok THEN "done" ELSE "error",
                            ![o].out = IF ok THEN proc[o] ELSE @,
                            ![o].render = FALSE]
    /\ proc' = [proc EXCEPT ![o] = "idle"]
    /\ UNCHANGED <<fsel, fdet, floads, jobs, busy, fview, hostPast>>

BuildEnds(o, k, ok) ==
    /\ frow[o][k] = "pending"
    /\ frow' = [frow EXCEPT ![o][k] = IF ok THEN "done" ELSE "error"]
    /\ hostPast' = IF ok THEN [hostPast EXCEPT !.built = @ \cup {<<o, k>>}] ELSE hostPast
    /\ UNCHANGED <<proc, fsel, fdet, floads, jobs, busy, fview>>

JobStep(j) ==
    \/ \E ok \in BOOLEAN : PatchAnswered(j, ok) \/ MarkAnswered(j, ok)
    \/ PollWakes(j) \/ PollAnswered(j) \/ PollFails(j)

HostNext ==
    \/ \E o \in FOps : selectOp(o)
    \/ selectSample
    \/ \E l \in floads, ok \in BOOLEAN : DetailAnswered(l, ok)
    \/ \E k \in Kinds : RequestHost(k)
    \/ \E m \in {"lite", "full"} : chooseMode(m)
    \/ ToggleGrid
    \/ \E c \in Chains : SaveChain(c)
    \/ \E j \in jobs : JobStep(j) \/ DeadlinePasses(j)
    \/ Deactivate \/ Activate
    \/ \E o \in FOps : Claim(o) \/ \E ok \in BOOLEAN : Ingest(o, ok)
    \/ \E o \in FOps, k \in {"octree", "grid"}, ok \in BOOLEAN : BuildEnds(o, k, ok)

(***************************************************************************)
(* Properties.                                                              *)
(***************************************************************************)
HostTypeOK ==
    /\ frow \in [FOps -> [octree : Builds, grid : Builds,
                 status : {"done", "pending", "processing", "error"},
                 chain : Chains, baked : BOOLEAN, out : Chains, render : BOOLEAN]]
    /\ proc \in [FOps -> Chains \cup {"idle"}]
    /\ fsel \in [row : FOps \cup {NoOp}, loading : BOOLEAN]
    /\ fdet \in [op : FOps \cup {NoOp}, octree : Builds, grid : Builds,
                 chain : Chains, baked : BOOLEAN]
    /\ \A j \in jobs : j.kind \in Kinds /\ j.op \in FOps
                       /\ j.at \in {"patch", "poll", "asked", "mark"}
    /\ busy \in [{"build", "bake", "render"} -> BOOLEAN]
    /\ fview.active => fview.queue = {}
    /\ fview.mode \in {"lite", "full"}

(* A button is disabled only while a request that will release it runs for *)
(* the operation shown: switching operations never leaves one stuck.        *)
BusyHasJob ==
    \A f \in DOMAIN busy :
        busy[f] => \E j \in jobs : Live(j) /\ FlagOf(j.kind) = f

(* Two builds never poll for the operation shown at once. *)
OneBuild ==
    \A j, k \in jobs :
        Live(j) /\ Live(k) /\ FlagOf(j.kind) = "build" /\ FlagOf(k.kind) = "build"
            => j = k

(* An octree or grid the detail offers is one the host built for this very  *)
(* operation: no late answer reports into another one.                      *)
DetailIsTrue ==
    fdet.op # NoOp =>
        /\ fdet.octree = "done" => <<fdet.op, "octree">> \in hostPast.built
        /\ fdet.grid = "done" => <<fdet.op, "grid">> \in hostPast.built

(* No spinner stays for ever. *)
HostBusyEnded == busy = NotBusy

(* The newest selection is answered: the dashboard never stays loading. *)
DetailSettled == ~fsel.loading

(* Does not hold (README, section 5): a render under way is ingested after  *)
(* a bake set the row to pending, and the bake's poll takes it for its own. *)
BakedIsProcessed ==
    \A o \in FOps : frow[o].baked /\ frow[o].status = "done" => frow[o].out = frow[o].chain

(* Does not hold (README, section 5): selectSample does not cancel the      *)
(* detail under way.                                                        *)
DetailIsSelected == ~fsel.loading /\ floads = {} => fdet.op \in {fsel.row, NoOp}
=============================================================================
