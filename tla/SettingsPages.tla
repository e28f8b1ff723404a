---------------------------- MODULE SettingsPages ----------------------------
(***************************************************************************)
(* The Settings pages that ask the recorder for something and show the     *)
(* answer: the Connectivity doctor, the service endpoints, the remote      *)
(* backups, the bug reports and the logs (web/src/settings, config.ts).    *)
(* Each page has its own variable and shares nothing with the others but   *)
(* the bounds.                                                             *)
(***************************************************************************)
EXTENDS Integers, Sequences, FiniteSets, SequencesExt, FiniteSetsExt

CONSTANTS
    Recordings,   \* interrupted recordings the recorder may hold
    MaxDoctorRuns,      \* bound: runs of the doctor
    MaxConfigLaunches,  \* bound: starts of the app
    MaxSaves,     \* bound: clicks on the endpoint and backup forms
    MaxFetches,   \* bound: fetches of the reports the page asks for, and loads of the log
    Areas,        \* the areas of a report other than "general"
    MAX_AREAS

ASSUME SettingsAssumption ==
    /\ {MaxDoctorRuns, MaxConfigLaunches, MaxSaves, MaxFetches} \subseteq Nat /\ MAX_AREAS \in Nat \ {0}
    /\ "general" \notin Areas

VARIABLES doc, cfg, bak, rep, areas, logs

docVars == <<doc>>
cfgVars == <<cfg>>
bakVars == <<bak>>
repVars == <<rep>>
areasVars == <<areas>>
logsVars == <<logs>>

----------------------------------------------------------------------------
(* Connectivity doctor. A finding is pending while the recorder's own slow *)
(* check has not ended; `left` is the set of interrupted recordings.       *)

NoFindings == [pending |-> FALSE, left |-> {}]
NoFix == [at |-> "no", items |-> {}]

DocInit ==
    doc = [open |-> FALSE, findings |-> NoFindings, loading |-> FALSE, down |-> FALSE, timer |-> FALSE, restarting |-> FALSE,
           runs |-> {}, started |-> 0, fix |-> NoFix, held |-> Recordings, slow |-> TRUE, discarded |-> {}, confirmed |-> {}]

\* runDoctor: a quiet run leaves the list on the screen.
runDoctor(d, quiet) ==
    [d EXCEPT !.loading = ~quiet, !.findings = IF quiet THEN @ ELSE NoFindings, !.down = FALSE,
              !.started = @ + 1, !.runs = @ \union {[n |-> d.started + 1, at |-> "health"]}]

MayRun == doc.started < MaxDoctorRuns

scheduleRepoll(d) == IF ~d.open THEN d ELSE [d EXCEPT !.timer = d.findings.pending]

\* The page is opened once: a run starts with it.
DocMount ==
    /\ ~doc.open /\ doc.started = 0
    /\ doc' = runDoctor([doc EXCEPT !.open = TRUE], FALSE)

DocLeave ==
    /\ doc.open
    /\ doc' = [doc EXCEPT !.open = FALSE, !.timer = FALSE]

\* "Run doctor" is disabled while loading; saving the endpoints runs it whatever is under way.
DocClick ==
    /\ doc.open /\ MayRun /\ ~doc.loading
    /\ doc' = runDoctor(doc, FALSE)

DocEndpointsSaved ==
    /\ doc.open /\ MayRun
    /\ doc' = runDoctor(doc, FALSE)

RepollFires ==
    /\ doc.timer /\ MayRun
    /\ doc' = runDoctor([doc EXCEPT !.timer = FALSE], TRUE)

\* /health: without an answer the other services are probed from the browser.
HealthAnswered(r, up) ==
    /\ r \in doc.runs /\ r.at = "health"
    /\ doc' = [doc EXCEPT !.down = @ \/ ~up, !.runs = (@ \ {r}) \union {[r EXCEPT !.at = IF up THEN "doctor" ELSE "probe"]}]

\* The list is replaced by whichever run ends last, and the poll is armed from it.
Shown(r, findings) == scheduleRepoll([doc EXCEPT !.findings = findings, !.loading = FALSE, !.runs = @ \ {r}])

ProbesEnd(r) ==
    /\ r \in doc.runs /\ r.at = "probe"
    /\ doc' = Shown(r, NoFindings)

DoctorAnswered(r) ==
    /\ r \in doc.runs /\ r.at = "doctor"
    /\ doc' = Shown(r, [pending |-> doc.slow, left |-> doc.held])

\* The recorder's slow check ends; a recording is recovered or finalized elsewhere.
SlowCheckEnds == doc.slow /\ doc' = [doc EXCEPT !.slow = FALSE]
Recovered(x) == x \in doc.held /\ doc' = [doc EXCEPT !.held = @ \ {x}]

\* applyFix: the list is read again before the operator is asked; an unreadable list falls back on the finding's.
applyFix ==
    /\ doc.open /\ MayRun /\ doc.findings.left # {} /\ doc.fix.at = "no"
    /\ doc' = [doc EXCEPT !.fix = [at |-> "reading", items |-> doc.findings.left]]

FreshRead(readable) ==
    /\ doc.fix.at = "reading"
    /\ LET items == IF readable THEN doc.held ELSE doc.fix.items
       IN  IF items = {} THEN doc' = runDoctor([doc EXCEPT !.fix = NoFix], FALSE)
           ELSE doc' = [doc EXCEPT !.fix = [at |-> "asking", items |-> items]]

FixConfirmed(ok) ==
    /\ doc.fix.at = "asking"
    /\ doc' = [doc EXCEPT !.fix = IF ok THEN [@ EXCEPT !.at = "discarding"] ELSE NoFix,
                          !.confirmed = IF ok THEN @ \union doc.fix.items ELSE @]

\* The discards go out one by one; the recorder answers 404 for one it no longer holds.
Discard(x) ==
    /\ doc.fix.at = "discarding" /\ x \in doc.fix.items
    /\ doc' = [doc EXCEPT !.fix = [@ EXCEPT !.items = @ \ {x}], !.held = @ \ {x},
                          !.discarded = IF x \in doc.held THEN @ \union {x} ELSE @]

\* Done, or one could not be reached: the doctor runs again.
FixEnds ==
    /\ doc.fix.at = "discarding"
    /\ doc' = runDoctor([doc EXCEPT !.fix = NoFix], FALSE)

\* "Restart recorder" of the desktop shell.
restartRecorder ==
    /\ doc.open /\ MayRun /\ doc.down /\ ~doc.restarting
    /\ doc' = [doc EXCEPT !.restarting = TRUE]

RestartEnds ==
    /\ doc.restarting
    /\ doc' = runDoctor([doc EXCEPT !.restarting = FALSE], FALSE)

DocSteps ==
    \/ \E r \in doc.runs : HealthAnswered(r, TRUE) \/ ProbesEnd(r) \/ DoctorAnswered(r)
    \/ FixEnds \/ RestartEnds
DocNext ==
    \/ DocMount \/ DocLeave \/ DocClick \/ DocEndpointsSaved \/ RepollFires \/ SlowCheckEnds
    \/ \E r \in doc.runs : HealthAnswered(r, TRUE) \/ HealthAnswered(r, FALSE) \/ ProbesEnd(r) \/ DoctorAnswered(r)
    \/ \E x \in Recordings : Recovered(x) \/ Discard(x)
    \/ applyFix \/ FreshRead(TRUE) \/ FreshRead(FALSE) \/ FixConfirmed(TRUE) \/ FixConfirmed(FALSE)
    \/ FixEnds \/ restartRecorder \/ RestartEnds

----------------------------------------------------------------------------
(* Service endpoints (config.ts): defaults < config.json < the override of *)
(* this browser. On the desktop config.json carries the port of the        *)
(* sidecar of this launch.                                                 *)

Keys == {"recorderUrl", "directusUrl"}
Unset == "unset"
CfgUrls == {"8200", "8201"}
NoUrls == [k \in Keys |-> Unset]

\* `stored` may be what an older version left: every key, the recorder's port included.
CfgInit ==
    \E old \in {NoUrls, [recorderUrl |-> "8200", directusUrl |-> "8200"]} :
        cfg = [config |-> NoUrls, base |-> NoUrls, stored |-> old, form |-> NoUrls, typed |-> {}, since |-> FALSE, launches |-> 0, saves |-> 0]

\* migrateStoredOverride, for the desktop build.
migrateStoredOverride(stored, base) ==
    [k \in Keys |-> IF stored[k] = base[k] \/ k = "recorderUrl" THEN Unset ELSE stored[k]]

\* applyPartial: only the keys that are given.
applyPartial(config, given) == [k \in Keys |-> IF given[k] = Unset THEN config[k] ELSE given[k]]

\* loadRuntimeConfig, at every start, with the port this launch got.
loadRuntimeConfig(port) ==
    /\ cfg.launches < MaxConfigLaunches
    /\ LET base == [recorderUrl |-> port, directusUrl |-> "8200"]
           kept == migrateStoredOverride(cfg.stored, base)
       IN  cfg' = [cfg EXCEPT !.base = base, !.stored = kept, !.config = applyPartial(base, kept), !.form = applyPartial(base, kept),
                              !.launches = @ + 1, !.since = FALSE]

\* The form is filled with every value; the operator edits one.
EditEndpoint(k) ==
    /\ cfg.launches > 0 /\ cfg.form[k] # "typed"
    /\ cfg' = [cfg EXCEPT !.form = [@ EXCEPT ![k] = "typed"]]

\* setConfigOverride: only what differs from the base is pinned.
setConfigOverride ==
    /\ cfg.launches > 0 /\ cfg.saves < MaxSaves
    /\ cfg' = [cfg EXCEPT !.config = applyPartial(@, cfg.form), !.saves = @ + 1, !.since = TRUE,
                          !.stored = [k \in Keys |-> IF cfg.form[k] = cfg.base[k] THEN Unset ELSE cfg.form[k]],
                          !.typed = @ \union {k \in Keys : cfg.form[k] = "typed"}]

resetConfigOverride ==
    /\ cfg.launches > 0
    /\ cfg' = [cfg EXCEPT !.config = cfg.base, !.form = cfg.base, !.stored = NoUrls]

CfgNext ==
    \/ \E port \in CfgUrls : loadRuntimeConfig(port)
    \/ \E k \in Keys : EditEndpoint(k)
    \/ setConfigOverride \/ resetConfigOverride

----------------------------------------------------------------------------
(* Remote backups (BackupSettings.vue, backupLabels.ts).                   *)

NoBody == [enabled |-> FALSE, url |-> ""]
NoList == [loaded |-> FALSE, error |-> FALSE, count |-> 0, loading |-> FALSE]

BakInit ==
    bak = [page |-> NoBody, suggestion |-> FALSE, loading |-> FALSE, list |-> NoList,
           saved |-> NoBody, held |-> 1, asks |-> {}, clicks |-> 0, mounted |-> FALSE, wanted |-> FALSE, restoring |-> FALSE]

\* prefillServerUrl: a URL that was never saved is shown as a suggestion.
prefillServerUrl(b, saved) ==
    [b EXCEPT !.page = [enabled |-> saved.enabled, url |-> IF saved.url = "" THEN "suggested" ELSE saved.url],
              !.suggestion = saved.url = ""]

\* serverUrlToSave.
serverUrlToSave(page, suggestion) == IF suggestion /\ ~page.enabled THEN "" ELSE page.url

\* A request on the way, told from the others of its kind by a number.
Asked(b, kind, body) ==
    LET n == CHOOSE i \in 1 .. 9 : \A a \in b.asks : a.n # i
    IN  [b EXCEPT !.asks = @ \union {[kind |-> kind, body |-> body, n |-> n, served |-> FALSE, reply |-> NoBody]}]

loadSessions(b) == [Asked(b, "sessions", NoBody) EXCEPT !.list = [@ EXCEPT !.loading = TRUE]]

BakMount ==
    /\ ~bak.mounted
    /\ bak' = loadSessions(Asked([bak EXCEPT !.mounted = TRUE, !.loading = TRUE], "load", NoBody))

MayAsk == bak.mounted /\ bak.clicks < MaxSaves
Clicked(b) == [b EXCEPT !.clicks = @ + 1]

ToggleEnabled ==
    /\ bak.mounted
    /\ bak' = [bak EXCEPT !.page = [@ EXCEPT !.enabled = ~@]]

\* Typing makes the URL the operator's own.
TypeUrl ==
    /\ bak.mounted /\ bak.page.url # "typed"
    /\ bak' = [bak EXCEPT !.page = [@ EXCEPT !.url = "typed"], !.suggestion = FALSE]

saveConfig ==
    /\ MayAsk
    /\ bak' = Asked([Clicked(bak) EXCEPT !.wanted = @ \/ bak.page.enabled], "save", [bak.page EXCEPT !.url = serverUrlToSave(bak.page, bak.suggestion)])

\* "Test connection" saves the URL it tests.
testConnection ==
    /\ MayAsk /\ ~bak.loading /\ bak.page.url # ""
    /\ bak' = Asked([Clicked(bak) EXCEPT !.loading = TRUE, !.wanted = TRUE], "test", bak.page)

RefreshSessions ==
    /\ MayAsk /\ ~bak.list.loading /\ bak.page.url # ""
    /\ bak' = loadSessions(Clicked(bak))

BakServed(a) ==
    /\ a \in bak.asks /\ ~a.served
    /\ LET saved == CASE a.kind = "save" -> a.body
                      [] a.kind = "test" -> [bak.saved EXCEPT !.url = a.body.url]
                      [] OTHER -> bak.saved
       IN  bak' = [bak EXCEPT !.saved = saved, !.asks = (@ \ {a}) \union {[a EXCEPT !.served = TRUE, !.body = NoBody, !.reply = IF a.kind = "sessions" THEN [saved EXCEPT !.enabled = FALSE] ELSE saved]}]

\* The list of the server: an unconfigured server is not an error, and not an empty list either.
Listed(l, reply, ok) ==
    IF ~ok THEN [l EXCEPT !.error = TRUE, !.loading = FALSE]
    ELSE [loaded |-> reply.url # "", error |-> FALSE, count |-> IF reply.url = "" THEN 0 ELSE bak.held, loading |-> FALSE]

\* After a save the list is read again, after a test the configuration and then the list.
BakAnswered(a, ok) ==
    /\ a \in bak.asks /\ (ok => a.served)
    /\ LET b == [bak EXCEPT !.asks = @ \ {a}]
       IN  bak' = CASE a.kind = "sessions" -> [b EXCEPT !.list = Listed(@, a.reply, ok)]
                    [] a.kind = "load" -> [IF ok THEN prefillServerUrl(b, a.reply) ELSE b EXCEPT !.loading = FALSE]
                    [] a.kind = "save" -> IF ok THEN loadSessions(prefillServerUrl(b, a.reply)) ELSE b
                    [] a.kind = "test" -> IF ok THEN Asked([b EXCEPT !.page = a.reply, !.suggestion = FALSE], "reload", NoBody) ELSE [b EXCEPT !.loading = FALSE]
                    [] OTHER -> loadSessions([IF ok THEN prefillServerUrl(b, a.reply) ELSE b EXCEPT !.loading = FALSE])

\* restoreSession, confirmed; the list is read again once it has been restored.
restoreSession ==
    /\ bak.mounted /\ bak.list.count > 0 /\ ~bak.restoring /\ bak.held > 0
    /\ bak' = [bak EXCEPT !.restoring = TRUE]

RestoreEnds(ok) ==
    /\ bak.restoring
    /\ bak' = IF ok THEN loadSessions([bak EXCEPT !.restoring = FALSE, !.held = 0]) ELSE [bak EXCEPT !.restoring = FALSE]

BakSteps == \E a \in bak.asks : BakServed(a) \/ BakAnswered(a, TRUE)
BakNext ==
    \/ BakMount \/ ToggleEnabled \/ TypeUrl \/ saveConfig \/ testConnection \/ RefreshSessions
    \/ \E a \in bak.asks : BakServed(a) \/ BakAnswered(a, TRUE) \/ BakAnswered(a, FALSE)
    \/ restoreSession \/ RestoreEnds(TRUE) \/ RestoreEnds(FALSE)

----------------------------------------------------------------------------
(* Bug reports (ReportBugSettings.vue, reportIssuesCache.ts,               *)
(* reportBugDraft.ts). GitHub lists a new issue only after a while.        *)

\* `visit`, `loading` and `submitting` are the page's; the draft and the cache outlive it.
RepInit ==
    rep = [open |-> FALSE, visit |-> 0, title |-> FALSE, submitting |-> FALSE, posts |-> {}, timers |-> {}, loading |-> FALSE,
           cached |-> FALSE, list |-> {}, pending |-> {}, fetches |-> {}, asked |-> 0, filed |-> 0, visible |-> {}, seen |-> {}, expired |-> {}]

OnScreen(visit) == rep.open /\ rep.visit = visit
fetchIssues(r, visit) ==
    [r EXCEPT !.loading = @ \/ OnScreen(visit), !.asked = @ + 1,
              !.fetches = @ \union {[n |-> r.asked + 1, visit |-> visit, served |-> FALSE, rows |-> {}]}]
MayFetch == rep.asked < MaxFetches

RepMount ==
    /\ ~rep.open /\ rep.visit < 2
    /\ rep' = [rep EXCEPT !.open = TRUE, !.visit = @ + 1]

\* The status answers, and a stale list is fetched; the Refresh button is disabled while one loads.
ConfiguredAnswered == rep.open /\ ~rep.cached /\ MayFetch /\ rep' = fetchIssues(rep, rep.visit)
RefreshIssues == rep.open /\ ~rep.loading /\ MayFetch /\ rep' = fetchIssues(rep, rep.visit)

RepLeave ==
    /\ rep.open
    /\ rep' = [rep EXCEPT !.open = FALSE, !.loading = FALSE, !.submitting = FALSE, !.timers = @ \ {rep.visit}]

TypeTitle == rep.open /\ ~rep.submitting /\ ~rep.title /\ rep' = [rep EXCEPT !.title = TRUE]

submit ==
    /\ rep.open /\ rep.title /\ ~rep.submitting /\ rep.filed + Cardinality(rep.posts) < 2
    /\ rep' = [rep EXCEPT !.submitting = TRUE, !.posts = @ \union {rep.visit}]

\* addOptimistic: the row is shown at once and kept until a fetch returns it or it is too old.
SubmitAnswered(visit, ok) ==
    /\ visit \in rep.posts
    /\ LET r == [rep EXCEPT !.submitting = @ /\ ~OnScreen(visit), !.posts = @ \ {visit}]
       IN  rep' = IF ~ok THEN r
                  ELSE [r EXCEPT !.title = FALSE, !.filed = @ + 1, !.timers = @ \union {visit},
                                 !.pending = @ \union {rep.filed + 1}, !.list = @ \union {rep.filed + 1}]

RefetchFires(visit) == visit \in rep.timers /\ rep.asked < MaxFetches + 1 /\ rep' = fetchIssues([rep EXCEPT !.timers = @ \ {visit}], visit)

\* GitHub: an issue becomes visible; ten minutes pass for one that is pending.
Indexed(n) == n \in (1 .. rep.filed) \ rep.visible /\ rep' = [rep EXCEPT !.visible = @ \union {n}]
Expires(n) == n \in rep.pending \ rep.expired /\ rep' = [rep EXCEPT !.expired = @ \union {n}]
FetchServed(f) ==
    /\ f \in rep.fetches /\ ~f.served
    /\ rep' = [rep EXCEPT !.fetches = (@ \ {f}) \union {[f EXCEPT !.served = TRUE, !.rows = rep.visible]}]

\* applyFetched: what GitHub does not list yet is kept.
applyFetched(r, rows) ==
    LET kept == (r.pending \ rows) \ r.expired
    IN  [r EXCEPT !.pending = kept, !.list = rows \union kept, !.cached = TRUE, !.seen = @ \union rows]

FetchAnswered(f, ok) ==
    /\ f \in rep.fetches /\ (ok => f.served)
    /\ LET r == [rep EXCEPT !.loading = @ /\ ~OnScreen(f.visit), !.fetches = @ \ {f}] IN rep' = IF ok THEN applyFetched(r, f.rows) ELSE r

RepSteps == (\E v \in rep.posts : SubmitAnswered(v, TRUE)) \/ \E f \in rep.fetches : FetchServed(f) \/ FetchAnswered(f, TRUE)
RepNext ==
    \/ RepMount \/ ConfiguredAnswered \/ RefreshIssues \/ RepLeave \/ TypeTitle \/ submit
    \/ \E v \in 1 .. 2 : SubmitAnswered(v, TRUE) \/ SubmitAnswered(v, FALSE) \/ RefetchFires(v)
    \/ \E n \in 1 .. 2 : Indexed(n) \/ Expires(n)
    \/ \E f \in rep.fetches : FetchServed(f) \/ FetchAnswered(f, TRUE) \/ FetchAnswered(f, FALSE)

Toggled(was, a) ==
    IF a \in was THEN (IF Cardinality(was) > 1 THEN was \ {a} ELSE was)
    ELSE IF a = "general" THEN {a}
    ELSE LET next == (was \ {"general"}) \union {a} IN IF Cardinality(next) > MAX_AREAS THEN was ELSE next

\* The areas of the draft: a fresh draft gets the one of the page it was opened from.
AreasInit == areas = {"general"}
AreasMount(area) == areas' = {area}
\* toggleArea: at least one, at most MAX_AREAS, "general" alone.
toggleArea(a) == areas' = Toggled(areas, a)
AreasNext == \E a \in Areas \union {"general"} : AreasMount(a) \/ toggleArea(a)

----------------------------------------------------------------------------
(* Logs (LogsSettings.vue): filters, auto-refresh, the recorder's level.   *)

LogFilters == {"all", "errors"}
LogsInit ==
    logs = [open |-> FALSE, filter |-> "all", debounce |-> FALSE, loading |-> FALSE, shown |-> Unset, poll |-> FALSE,
            reads |-> {}, asked |-> 0, level |-> Unset, askLevel |-> FALSE, retry |-> FALSE, setting |-> Unset, fails |-> 0]

LoadLogs(l) == [l EXCEPT !.loading = TRUE, !.asked = @ + 1, !.reads = @ \union {[n |-> l.asked + 1, filter |-> l.filter]}]
MayLoad == logs.open /\ logs.asked < MaxFetches + 1

\* The page is opened once; what answers after it was left changes nothing that is shown.
LogsMount ==
    /\ ~logs.open /\ logs.asked = 0
    /\ logs' = LoadLogs([logs EXCEPT !.open = TRUE, !.askLevel = TRUE])

LogsLeave ==
    /\ logs.open
    /\ logs' = [logs EXCEPT !.open = FALSE, !.poll = FALSE, !.debounce = FALSE, !.retry = FALSE]

\* The level and the number of lines reload at once, the search 300 ms after the last key.
SetFilter(f) == MayLoad /\ logs.filter # f /\ logs' = LoadLogs([logs EXCEPT !.filter = f])
TypeSearch(f) == logs.open /\ logs.filter # f /\ logs' = [logs EXCEPT !.filter = f, !.debounce = TRUE]
DebounceFires == logs.debounce /\ MayLoad /\ logs' = LoadLogs([logs EXCEPT !.debounce = FALSE])
AutoRefresh == logs.open /\ logs' = [logs EXCEPT !.poll = ~@]
PollFires == logs.poll /\ MayLoad /\ logs' = LoadLogs(logs)

\* Whichever load ends last is the one shown.
LogsAnswered(r, ok) ==
    /\ r \in logs.reads
    /\ logs' = [logs EXCEPT !.loading = FALSE, !.reads = @ \ {r}, !.shown = IF ok THEN r.filter ELSE @]

\* loadRuntimeLevel: tried again every three seconds until the recorder answers.
LevelAnswered(ok) ==
    /\ logs.askLevel /\ (ok \/ logs.fails < 2)
    /\ logs' = [logs EXCEPT !.askLevel = FALSE, !.level = IF ok THEN "INFO" ELSE @, !.retry = ~ok, !.fails = IF ok THEN @ ELSE @ + 1]
RetryFires == logs.retry /\ logs' = [logs EXCEPT !.retry = FALSE, !.askLevel = TRUE]

setRuntimeLevel(l) ==
    /\ logs.open /\ logs.level # Unset /\ logs.setting = Unset /\ l # logs.level
    /\ logs' = [logs EXCEPT !.setting = l]
LevelSet(ok) ==
    /\ logs.setting # Unset
    /\ logs' = [logs EXCEPT !.level = IF ok THEN logs.setting ELSE @, !.setting = Unset]

LogsAnswer == \E r \in logs.reads : LogsAnswered(r, TRUE)
LogsNext ==
    \/ LogsMount \/ LogsLeave \/ DebounceFires \/ AutoRefresh \/ PollFires \/ RetryFires
    \/ \E f \in LogFilters : SetFilter(f) \/ TypeSearch(f)
    \/ \E r \in logs.reads : LogsAnswered(r, TRUE) \/ LogsAnswered(r, FALSE)
    \/ LevelAnswered(TRUE) \/ LevelAnswered(FALSE) \/ LevelSet(TRUE) \/ LevelSet(FALSE)
    \/ \E l \in {"INFO", "DEBUG"} : setRuntimeLevel(l)

----------------------------------------------------------------------------
(* Properties.                                                             *)

(* A doctor that was left polls no more, even when a run of it ends later; *)
(* one that is open goes on while a check is pending                       *)
(* (ConnectivitySettings.vue 55-64).                                       *)
PollsWhileOpen ==
    /\ doc.timer => doc.open
    /\ doc.open /\ doc.findings.pending => doc.timer \/ doc.runs # {} \/ ~MayRun

(* Every recording the doctor discarded was in the list the operator       *)
(* confirmed (ConnectivitySettings.vue 169-204).                           *)
DiscardsConfirmed == doc.discarded \subseteq doc.confirmed

(* After a start of the desktop app the recorder is the sidecar of this    *)
(* launch, whatever earlier versions and saves have stored, until the      *)
(* operator saves another one; an endpoint nobody typed keeps the base     *)
(* value (config.ts 33-38, 66-85, 100-115).                                *)
LaunchUrlWins ==
    cfg.launches > 0 =>
        /\ ~cfg.since => cfg.config.recorderUrl = cfg.base.recorderUrl
        /\ cfg.config.recorderUrl # cfg.base.recorderUrl => "recorderUrl" \in cfg.typed

(* The suggested server is never saved unless the operator enabled backups *)
(* or tested the connection, in whatever order the answers come, and it is *)
(* marked as a suggestion only while it is shown (backupLabels.ts 96-111). *)
SuggestionNotSaved ==
    /\ bak.saved.url = "suggested" => bak.wanted
    /\ bak.suggestion => bak.page.url = "suggested"

(* A report that was filed stays in the list until a fetch returns it or   *)
(* ten minutes pass (reportIssuesCache.ts).                                *)
FiledIsListed == ((1 .. rep.filed) \ rep.seen) \ rep.expired \subseteq rep.list

(* The draft has between one and MAX_AREAS areas after any sequence of     *)
(* clicks, and "general" goes with no other (reportBugDraft.ts 25-32).     *)
AreasValid ==
    /\ areas # {} /\ Cardinality(areas) <= MAX_AREAS
    /\ "general" \in areas => areas = {"general"}

SettingsSafe == PollsWhileOpen /\ DiscardsConfirmed /\ LaunchUrlWins /\ SuggestionNotSaved /\ FiledIsListed /\ AreasValid

(* No page loads, tests, restarts or submits for ever, and the recorder's  *)
(* level is known in the end.                                              *)
SettingsQuiet ==
    /\ ~doc.loading /\ ~doc.restarting /\ doc.fix.at # "discarding"
    /\ ~bak.loading /\ ~bak.list.loading
    /\ ~rep.submitting /\ ~rep.loading
    /\ ~logs.loading /\ logs.setting = Unset /\ (logs.open => logs.level # Unset)

(* Does not hold (README, section 5): the findings shown are those of the  *)
(* run started last (ConnectivitySettings.vue 155-162).                    *)
NewestIsShown == [][\A r \in doc.runs \ doc'.runs : doc'.findings # doc.findings => \A q \in doc.runs : q.n <= r.n]_docVars

(* Does not hold (README, section 5): a draft is filed once. A page that   *)
(* was left while its report was sent and is opened again may send it      *)
(* again (ReportBugSettings.vue 54, 104-107).                              *)
DraftFiledOnce == Cardinality(rep.posts) <= 1

(* Does not hold (README, section 5): the log shown is the one of the      *)
(* filter (LogsSettings.vue 69-94).                                        *)
FilterIsShown == logs.open /\ logs.reads = {} /\ ~logs.debounce /\ logs.shown # Unset => logs.shown = logs.filter

(* Does not hold (README, section 5): a Logs page that was left asks for   *)
(* the level no more (LogsSettings.vue 49-53, 118).                        *)
NoRetryAfterLeave == logs.retry => logs.open
==============================================================================
