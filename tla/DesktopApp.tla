----------------------------- MODULE DesktopApp -----------------------------
(***************************************************************************)
(* What the desktop shell does besides keeping the backend alive, in two   *)
(* parts that share no state:                                              *)
(*  - the auto-updater (desktop/src/updater.ts) and the card a page shows  *)
(*    for it (web/src/updatePrompt.ts, UpdatePrompt.vue): "feed" steps are *)
(*    the events of electron-updater, every await of isRecording() ends    *)
(*    one step and begins another, and what the main process sends to the  *)
(*    page waits in "mail" until the page handles it;                      *)
(*  - the windows: which pop-outs come back at the next start              *)
(*    (popouts.ts, windowState.ts, main.ts), the dialogs of a window whose *)
(*    page crashes or hangs (rendererWatch.ts), and the two kinds of       *)
(*    process that share the single-instance lock, the app and the         *)
(*    scheduled update check (main.ts, updateCheck.ts).                    *)
(***************************************************************************)
EXTENDS Integers, Sequences, FiniteSets, SequencesExt

CONSTANTS
    Versions,   \* the releases the feed can offer, 1 .. n in order
    MaxChecks,  \* bound: checks of the feed
    MaxMail     \* bound: messages on their way to the page

ASSUME UpdatesAssumption == Versions \subseteq Nat \ {0} /\ MaxChecks \in Nat /\ MaxMail \in Nat \ {0}

VARIABLES
    upd,      \* status, downloaded, pending, recheckTimer, notifiedVersion
    offers,   \* offerUpdate() calls waiting for isRecording()
    boxes,    \* native "Update ready" dialogs open
    install,  \* the update:install request, then the 800 ms pause
    feed,     \* the check of the feed under way, and how many there were
    toasts,   \* per version: OS notifications shown
    recOn,    \* a recording is running or being saved
    updPage,  \* the card: what it knows and whether it has been told
    mail,     \* messages from the main process to the page
    gone      \* how the app ended: "no" or "installed"

updVars == <<upd, offers, boxes, install, feed, toasts, recOn, updPage, mail, gone>>

None == 0
UpdStatus(s, v) == [state |-> s, v |-> v]

UpdInit ==
    /\ upd = [status |-> UpdStatus("idle", None), downloaded |-> None, pending |-> None,
              timer |-> FALSE, notified |-> None, calledOff |-> FALSE]
    /\ offers = {} /\ boxes = {} /\ install = "no"
    /\ feed = [at |-> "no", v |-> None, n |-> 0]
    /\ toasts = [v \in Versions |-> 0]
    /\ recOn = FALSE
    /\ updPage \in [at : {"unmounted"}, status : {UpdStatus("idle", None)}, pushed : {FALSE},
                 window : BOOLEAN, focused : BOOLEAN, dismissed : {None}, since : {None}]
    /\ mail = <<>> /\ gone = "no"

\* push(): the new status, sent to every open page of the app.
Push(u, s) ==
    /\ Len(mail) < MaxMail
    /\ upd' = [u EXCEPT !.status = s, !.downloaded = IF s.state = "downloaded" THEN s.v ELSE @]
    /\ mail' = IF updPage.at = "unmounted" THEN mail ELSE Append(mail, [kind |-> "push", s |-> s])

snapshot == IF upd.downloaded # None /\ upd.status.state # "installing"
            THEN UpdStatus("downloaded", upd.downloaded) ELSE upd.status

\* notifyReady(): once per version, and not while the operator looks at the window.
NotifyReady(u, v) ==
    LET show == updPage.window /\ ~updPage.focused /\ u.notified # v
    IN  /\ upd' = [u EXCEPT !.notified = IF show THEN v ELSE @]
        /\ toasts' = IF show THEN [toasts EXCEPT ![v] = @ + 1] ELSE toasts

----------------------------------------------------------------------------
(* electron-updater's events.                                              *)

CheckBegins ==
    /\ feed.at = "no" /\ feed.n < MaxChecks /\ gone = "no"
    /\ feed' = [feed EXCEPT !.at = "checking", !.n = @ + 1]
    /\ Push(upd, UpdStatus("checking", None))
    /\ UNCHANGED <<offers, boxes, install, toasts, recOn, updPage, gone>>

CheckEnds(s) ==
    /\ feed.at = "checking" /\ gone = "no" /\ s \in {"not-available", "error"}
    /\ feed' = [feed EXCEPT !.at = "no"]
    /\ Push(upd, UpdStatus(s, None))
    /\ UNCHANGED <<offers, boxes, install, toasts, recOn, updPage, gone>>

UpdateAvailable(v) ==
    /\ feed.at = "checking" /\ v >= upd.downloaded /\ gone = "no"
    /\ feed' = [feed EXCEPT !.at = "downloading", !.v = v]
    /\ Push(upd, UpdStatus("downloading", v))
    /\ UNCHANGED <<offers, boxes, install, toasts, recOn, updPage, gone>>

DownloadFails ==
    /\ feed.at = "downloading" /\ gone = "no"
    /\ feed' = [feed EXCEPT !.at = "no", !.v = None]
    /\ Push(upd, UpdStatus("error", None))
    /\ UNCHANGED <<offers, boxes, install, toasts, recOn, updPage, gone>>

\* update-downloaded, and offerUpdate() up to its question to the backend (which
\* answers within its 2 s deadline, before another download can be complete).
UpdateDownloaded ==
    /\ feed.at = "downloading" /\ gone = "no" /\ offers = {}
    /\ feed' = [feed EXCEPT !.at = "no", !.v = None]
    /\ Push(upd, UpdStatus("downloaded", feed.v))
    /\ offers' = offers \union {feed.v}
    /\ UNCHANGED <<boxes, install, toasts, recOn, updPage, gone>>

----------------------------------------------------------------------------
(* offerUpdate(), deferUntilIdle() and the native dialog.                  *)

\* deferUntilIdle(): remembered, and the recheck timer runs.
Deferred(u, v) == [u EXCEPT !.pending = v, !.timer = TRUE]

\* Shown to whoever is there: the page's card already is, so a toast; else a dialog.
Offer(u, v) ==
    IF updPage.window THEN NotifyReady(u, v) /\ UNCHANGED boxes
    ELSE upd' = u /\ boxes' = boxes \union {v} /\ UNCHANGED toasts

OfferReturns(v) ==
    /\ v \in offers /\ gone = "no"
    /\ offers' = offers \ {v}
    /\ IF recOn THEN upd' = Deferred(upd, v) /\ UNCHANGED <<boxes, toasts>> ELSE Offer(upd, v)
    /\ UNCHANGED <<install, feed, recOn, updPage, mail, gone>>

RecheckIdle ==
    /\ upd.timer /\ upd.pending # None /\ ~recOn /\ gone = "no"
    /\ Offer([upd EXCEPT !.timer = FALSE, !.pending = None], upd.pending)
    /\ UNCHANGED <<offers, install, feed, recOn, updPage, mail, gone>>

\* performInstall(): tell the pages, then pause before quitting.
PerformInstall(v) ==
    /\ Push(upd, UpdStatus("installing", v))
    /\ install' = "pause"

BoxAnswered(v, now) ==
    /\ v \in boxes /\ gone = "no" /\ install # "pause"
    /\ boxes' = boxes \ {v}
    /\ \/ ~now /\ UNCHANGED <<upd, install, mail>>
       \/ now /\ recOn /\ upd' = Deferred(upd, v) /\ UNCHANGED <<install, mail>>
       \/ now /\ ~recOn /\ PerformInstall(v)
    /\ UNCHANGED <<offers, feed, toasts, recOn, updPage, gone>>

InstallRequested ==
    /\ install = "no" /\ gone = "no" /\ updPage.at = "mounted" /\ updPage.status.state = "downloaded"
    /\ install' = "asked"
    /\ UNCHANGED <<upd, offers, boxes, feed, toasts, recOn, updPage, mail, gone>>

\* update:install, answered by the backend.
InstallAnswered ==
    /\ install = "asked" /\ gone = "no"
    /\ \/ (recOn \/ upd.downloaded = None) /\ install' = "no" /\ UNCHANGED <<upd, mail>>
       \/ ~recOn /\ upd.downloaded # None /\ PerformInstall(upd.downloaded)
    /\ UNCHANGED <<offers, boxes, feed, toasts, recOn, updPage, gone>>

\* quitAndInstall() goes through before-quit: a recording that began meanwhile
\* makes the quit guard ask, and the operator may keep recording.
QuitAndInstall ==
    /\ install = "pause" /\ gone = "no"
    /\ \/ gone' = "installed" /\ UNCHANGED <<install, upd>>
       \/ recOn /\ gone' = "no" /\ install' = "no" /\ upd' = [upd EXCEPT !.calledOff = TRUE]
    /\ UNCHANGED <<offers, boxes, feed, toasts, recOn, updPage, mail>>

----------------------------------------------------------------------------
(* The card of a page: subscribes, then asks for the snapshot.             *)

PageMounts ==
    /\ updPage.window /\ updPage.at = "unmounted" /\ gone = "no" /\ Len(mail) < MaxMail
    /\ updPage' = [updPage EXCEPT !.at = "asked", !.pushed = FALSE, !.status = UpdStatus("idle", None),
                              !.since = upd.downloaded]
    /\ mail' = <<>>
    /\ UNCHANGED <<upd, offers, boxes, install, feed, toasts, recOn, gone>>

InfoSent ==
    /\ updPage.at = "asked" /\ gone = "no" /\ Len(mail) < MaxMail
    /\ updPage' = [updPage EXCEPT !.at = "mounted"]
    /\ mail' = Append(mail, [kind |-> "info", s |-> snapshot])
    /\ UNCHANGED <<upd, offers, boxes, install, feed, toasts, recOn, gone>>

nextPromptStatus(current, pushed) ==
    IF current.state = "downloaded" /\ pushed.state \notin {"downloaded", "installing"} THEN current ELSE pushed

PageReads ==
    /\ mail # <<>> /\ gone = "no"
    /\ mail' = Tail(mail)
    /\ LET m == Head(mail) IN
       updPage' = CASE m.kind = "push" -> [updPage EXCEPT !.pushed = TRUE, !.status = nextPromptStatus(updPage.status, m.s)]
                 [] m.kind = "info" /\ ~updPage.pushed -> [updPage EXCEPT !.status = m.s]
                 [] OTHER -> updPage
    /\ UNCHANGED <<upd, offers, boxes, install, feed, toasts, recOn, gone>>

NotNow ==
    /\ updPage.at = "mounted" /\ updPage.status.state = "downloaded" /\ gone = "no"
    /\ updPage' = [updPage EXCEPT !.dismissed = updPage.status.v]
    /\ UNCHANGED <<upd, offers, boxes, install, feed, toasts, recOn, mail, gone>>

PageUnmounts ==
    /\ updPage.at = "mounted" /\ gone = "no"
    /\ updPage' = [updPage EXCEPT !.at = "unmounted"]
    /\ mail' = <<>>
    /\ UNCHANGED <<upd, offers, boxes, install, feed, toasts, recOn, gone>>

shouldShowUpdatePrompt ==
    /\ updPage.at = "mounted"
    /\ \/ updPage.status.state = "installing"
       \/ updPage.status.state = "downloaded" /\ ~recOn /\ updPage.dismissed # updPage.status.v

RecordingToggles ==
    /\ gone = "no"
    /\ recOn' = ~recOn
    /\ UNCHANGED <<upd, offers, boxes, install, feed, toasts, updPage, mail, gone>>

----------------------------------------------------------------------------
UpdAnswers == \/ \E v \in Versions : OfferReturns(v)
           \/ RecheckIdle \/ InstallAnswered \/ QuitAndInstall \/ PageReads \/ InfoSent

UpdNext ==
    \/ CheckBegins \/ DownloadFails \/ UpdateDownloaded
    \/ \E s \in {"not-available", "error"} : CheckEnds(s)
    \/ \E v \in Versions : UpdateAvailable(v) \/ \E now \in BOOLEAN : BoxAnswered(v, now)
    \/ UpdAnswers \/ InstallRequested \/ PageMounts \/ NotNow \/ PageUnmounts \/ RecordingToggles

----------------------------------------------------------------------------

\* Types of the updater's state.
UpdTypeOK ==
    /\ upd.downloaded \in Versions \union {None} /\ upd.pending \in Versions \union {None}
    /\ offers \subseteq Versions /\ boxes \subseteq Versions
    /\ Len(mail) <= MaxMail /\ install \in {"no", "asked", "pause"}

(* updater.ts:169-188: a download deferred because of a recording is not   *)
(* forgotten: a timer runs for as long as one is pending, whatever further *)
(* downloads and clicks are deferred while it is being rechecked.          *)
DeferredIsKept == upd.pending # None => upd.timer

(* updater.ts:114-137: a version is announced once, although the offer,    *)
(* the deferral and the recheck can each announce it; again only after     *)
(* another version was, which a deferral that is not dropped when a newer  *)
(* version is offered makes possible (README, section 5).                  *)
NotifiedOnce == \A v \in Versions : toasts[v] > 1 => \E w \in Versions \ {v} : toasts[w] > 0

(* updater.ts:18-20, updatePrompt.ts:32-38: a page that has read its mail  *)
(* shows the newest download that was announced while it was open: later   *)
(* checks and their failures do not hide it.  Two exceptions, which the    *)
(* README describes (section 5): an install called off by the quit guard,  *)
(* and a download older than the page (see CardShowsOlder).                *)
CardShowsDownload ==
    (updPage.at = "mounted" /\ mail = <<>> /\ upd.downloaded # updPage.since /\ install # "pause" /\ ~upd.calledOff)
        => updPage.status = UpdStatus("downloaded", upd.downloaded)

(* UpdatePrompt.vue:54-56: "the snapshot covers an update that finished    *)
(* downloading before this mounted".  Does not hold: a push that arrives   *)
(* before the snapshot makes the page ignore the snapshot (README,         *)
(* section 5).                                                             *)
CardShowsOlder ==
    (updPage.at = "mounted" /\ mail = <<>> /\ upd.downloaded # None /\ install # "pause" /\ ~upd.calledOff)
        => updPage.status = UpdStatus("downloaded", upd.downloaded)

(* updater.ts:243-247: when the pages are told that the install has begun, *)
(* the backend has just said that nothing is being recorded.               *)
InstallFromIdle == [][install # "pause" /\ install' = "pause" => ~recOn]_updVars

(* updater.ts:169-188: an update is not left pending for good unless       *)
(* recordings go on.                                                       *)
UpdQuiet == upd.pending = None \/ recOn \/ gone # "no"

----------------------------------------------------------------------------
(* The windows.                                                            *)

CONSTANTS
    Urls,       \* pop-out pages; the strings of the saved file that are not the app's own are Foreign
    Foreign,
    MaxRestored,   \* MAX_RESTORED_POPOUTS
    MaxRuns        \* bound: starts of the app and of the update check

ASSUME WindowsAssumption == Urls \cap Foreign = {} /\ MaxRestored \in Nat \ {0} /\ MaxRuns \in Nat

VARIABLES
    saved,    \* openPopouts in window-state.json
    open,     \* the pop-outs open, in the order they were opened
    tracker,  \* PopoutTracker: the list to restore, whether quitting, the quit's own list (ghost)
    watch,    \* watchRenderer's flags and dialogs of one window
    inst,     \* the app: "off", "starting", "up", "quitting"
    check     \* the --update-check run: where it is, the marker file, the toasts shown

winVars == <<saved, open, tracker, watch, inst, check>>

NoWatch == [page |-> "fine", crashPrompt |-> FALSE, crashRequested |-> FALSE, hang |-> "no", crashes |-> 0, told |-> 0]

WinInit ==
    /\ saved \in {<<>>} \union {<<f>> : f \in Foreign}
    /\ open = <<>> /\ tracker = [restore |-> <<>>, quitting |-> FALSE, atQuit |-> <<>>, runs |-> 0]
    /\ watch = NoWatch
    /\ inst = "off"
    /\ check = [at |-> "off", latest |-> 0, marker |-> 0, shown |-> {}, again |-> FALSE, launch |-> FALSE]

----------------------------------------------------------------------------
(* Which pop-outs are remembered.                                          *)

\* The app's own pages, each once, at most MaxRestored of them, in order.
restorablePopoutUrls(list) ==
    LET own == SelectSeq(list, LAMBDA u : u \in Urls)
        once == SelectSeq([i \in 1 .. Len(own) |-> IF \E j \in 1 .. (i - 1) : own[j] = own[i] THEN "dup" ELSE own[i]],
                          LAMBDA u : u # "dup")
    IN  SubSeq(once, 1, IF Len(once) < MaxRestored THEN Len(once) ELSE MaxRestored)

\* persist(): rewrites the list from the windows open now.
Persist(wins) == restorablePopoutUrls([i \in 1 .. Len(wins) |-> wins[i].url])

\* A real launch that gets the lock: the saved list is read once, up front.
AppStarts ==
    /\ inst = "starting"
    /\ inst' = "up"
    /\ tracker' = [tracker EXCEPT !.restore = restorablePopoutUrls(saved), !.quitting = FALSE]
    /\ open' = <<>> /\ watch' = NoWatch
    /\ UNCHANGED <<saved, check>>

\* reopenPopouts(), window by window: each one is tracked, which rewrites the file.
Reopen ==
    /\ inst = "up" /\ tracker.restore # <<>>
    /\ open' = Append(open, [url |-> Head(tracker.restore)])
    /\ saved' = Persist(open')
    /\ tracker' = [tracker EXCEPT !.restore = Tail(@)]
    /\ UNCHANGED <<watch, inst, check>>

\* The operator opens a pop-out (did-create-window, track()).
OpenPopout(u) ==
    /\ inst = "up" /\ tracker.restore = <<>> /\ Len(open) < Cardinality(Urls) + 1
    /\ open' = Append(open, [url |-> u])
    /\ saved' = Persist(open')
    /\ UNCHANGED <<tracker, watch, inst, check>>

\* A pop-out navigates within the app; the file is not rewritten.
Navigate(i, u) ==
    /\ inst = "up" /\ i \in DOMAIN open
    /\ open' = [open EXCEPT ![i] = [url |-> u]]
    /\ UNCHANGED <<saved, tracker, watch, inst, check>>

PopoutClosed(i) ==
    /\ inst \in {"up", "quitting"} /\ i \in DOMAIN open /\ tracker.restore = <<>>
    /\ open' = RemoveAt(open, i)
    /\ saved' = IF tracker.quitting THEN saved ELSE Persist(open')
    /\ UNCHANGED <<tracker, watch, inst, check>>

\* beginQuit(): a last snapshot, then nothing is saved any more.
BeginQuit ==
    /\ inst = "up" /\ tracker.restore = <<>>
    /\ inst' = "quitting"
    /\ saved' = Persist(open)
    /\ tracker' = [tracker EXCEPT !.quitting = TRUE, !.atQuit = Persist(open)]
    /\ UNCHANGED <<open, watch, check>>

AppEnds ==
    /\ inst = "quitting"
    /\ inst' = "off" /\ open' = <<>>
    /\ UNCHANGED <<saved, tracker, watch, check>>

----------------------------------------------------------------------------
(* watchRenderer: one crash dialog and one hang dialog at most.            *)

\* render-process-gone: an asked-for crash is not reported, a real one once.
RendererGone ==
    /\ inst = "up" /\ watch.page # "gone" /\ watch.crashes < 2
    /\ watch' = [watch EXCEPT
          !.page = "gone",
          !.crashes = IF watch.crashRequested THEN @ ELSE @ + 1,
          !.crashRequested = FALSE,
          !.hang = IF @ = "open" THEN "aborted" ELSE @,
          !.crashPrompt = @ \/ ~watch.crashRequested,
          !.told = IF watch.crashRequested \/ watch.crashPrompt THEN @ ELSE @ + 1]
    /\ UNCHANGED <<saved, open, tracker, inst, check>>

CrashAnswered ==
    /\ inst = "up" /\ watch.crashPrompt
    /\ watch' = [watch EXCEPT !.crashPrompt = FALSE, !.page = "fine"]
    /\ UNCHANGED <<saved, open, tracker, inst, check>>

Unresponsive ==
    /\ inst = "up" /\ watch.page = "fine"
    /\ watch' = [watch EXCEPT !.page = "hung",
                              !.hang = IF watch.crashPrompt \/ @ # "no" THEN @ ELSE "open"]
    /\ UNCHANGED <<saved, open, tracker, inst, check>>

Responsive ==
    /\ inst = "up" /\ watch.page = "hung"
    /\ watch' = [watch EXCEPT !.page = "fine", !.hang = IF @ = "open" THEN "aborted" ELSE @]
    /\ UNCHANGED <<saved, open, tracker, inst, check>>

\* The hang dialog closes: by an abort (which answers Wait) or by the operator;
\* Reload crashes the page on purpose.
HangAnswered(reload) ==
    /\ inst = "up" /\ watch.hang # "no" /\ (reload => watch.hang = "open")
    /\ watch' = [watch EXCEPT !.hang = "no", !.crashRequested = @ \/ reload]
    /\ UNCHANGED <<saved, open, tracker, inst, check>>

----------------------------------------------------------------------------
(* The single-instance lock: held by the app, or by an update check, which *)
(* hands over to a real launch.                                            *)

\* The operator starts the app: it gets the lock, or the holder hears of it.
Launch ==
    /\ tracker.runs < MaxRuns /\ inst = "off" /\ ~check.launch
    /\ tracker' = [tracker EXCEPT !.runs = @ + 1]
    /\ \/ check.at = "off" /\ inst' = "starting" /\ UNCHANGED check
       \/ /\ check.at # "off"
          /\ check' = [check EXCEPT !.launch = TRUE] /\ UNCHANGED inst
    /\ UNCHANGED <<saved, open, watch>>

\* launchApp(): the check gives the lock back, starts the app and ends.
HandOver ==
    /\ check.launch /\ check.at # "off"
    /\ check' = [check EXCEPT !.launch = FALSE, !.at = "off"]
    /\ inst' = "starting"
    /\ UNCHANGED <<saved, open, tracker, watch>>

\* The scheduled task fires; with the app running it has nothing to do.
CheckStarts ==
    /\ check.at = "off" /\ inst = "off" /\ tracker.runs < MaxRuns
    /\ tracker' = [tracker EXCEPT !.runs = @ + 1]
    /\ check' = [check EXCEPT !.at = "checking"]
    /\ UNCHANGED <<saved, open, watch, inst>>

\* The answer of the feed (0: none, or no answer in time) and the toast.
CheckReturns(v, shows) ==
    /\ check.at = "checking"
    /\ check' = CASE v = 0 \/ v = check.marker -> [check EXCEPT !.at = "ending"]
                  [] v \notin {0, check.marker} /\ ~shows -> [check EXCEPT !.at = "ending", !.latest = v]
                  [] OTHER -> [check EXCEPT !.at = "lingering", !.latest = v, !.marker = v,
                                            !.again = @ \/ v \in check.shown, !.shown = @ \union {v}]
    /\ UNCHANGED <<saved, open, tracker, watch, inst>>

\* Clicking the toast starts the app.
ToastClicked ==
    /\ check.at = "lingering" /\ ~check.launch
    /\ check' = [check EXCEPT !.launch = TRUE]
    /\ UNCHANGED <<saved, open, tracker, watch, inst>>

\* quit(), by the give-up timer, the linger timer or at once.
CheckQuits ==
    /\ check.at \in {"checking", "ending", "lingering"} /\ ~check.launch
    /\ check' = [check EXCEPT !.at = "off"]
    /\ UNCHANGED <<saved, open, tracker, watch, inst>>

----------------------------------------------------------------------------
WinNext ==
    \/ AppStarts \/ Reopen \/ BeginQuit \/ AppEnds
    \/ \E u \in Urls : OpenPopout(u) \/ \E i \in DOMAIN open : Navigate(i, u)
    \/ \E i \in DOMAIN open : PopoutClosed(i)
    \/ RendererGone \/ CrashAnswered \/ Unresponsive \/ Responsive
    \/ \E reload \in BOOLEAN : HangAnswered(reload)
    \/ Launch \/ HandOver \/ CheckStarts \/ ToastClicked \/ CheckQuits
    \/ \E v \in 0 .. 2, shows \in BOOLEAN : CheckReturns(v, shows)

----------------------------------------------------------------------------
\* Types of the windows' state; the saved list is short.
WinTypeOK ==
    /\ saved \in Seq(Urls \union Foreign) /\ Len(saved) <= MaxRestored
    /\ inst \in {"off", "starting", "up", "quitting"}
    /\ check.at \in {"off", "checking", "ending", "lingering"}
    /\ watch.hang \in {"no", "open", "aborted"}

(* popouts.ts:20-29, 77-78: whatever the saved file holds, only the app's  *)
(* own pages are ever reopened, each at most once.                         *)
OnlyOwnReopened == Range(tracker.restore) \subseteq Urls /\ IsInjective(tracker.restore)

(* popouts.ts:32-37, main.ts:468-470: the pop-outs open when the quit      *)
(* began, and not the closes that the quit itself makes, are what the next *)
(* start finds on disk.                                                    *)
QuitKeepsPopouts == inst = "quitting" => saved = tracker.atQuit

(* rendererWatch.ts:16-22: a crash asked for by Reload is never reported   *)
(* as a crash, a crash that was not is reported once.                      *)
CrashToldOnce == watch.told <= watch.crashes /\ (watch.told = 0 => ~watch.crashPrompt)

(* updateCheck.ts:51-57, 92-97: a version is marked as told only when its  *)
(* toast was shown.                                                        *)
MarkedWasShown == check.marker # 0 => check.marker \in check.shown

(* main.ts:36-39: the app and an update check never hold the lock at once. *)
OneInstance == ~(inst # "off" /\ check.at # "off")

(* main.ts:58-74: a launch that lost the lock to the update check still    *)
(* ends with the app running; updateCheck.ts:31-35, 43-48: the windowless  *)
(* update check ends by itself.                                            *)
WinQuiet == ~check.launch /\ check.at = "off"
=============================================================================
