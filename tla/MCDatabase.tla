------------------------------ MODULE MCDatabase ------------------------------
(* The clients of the lab database for TLC: the resumable upload of a      *)
(* capture, the list of local captures, the queue of runs waiting to be    *)
(* sent, the sign-in session, and the pages, endpoints and hooks that      *)
(* extend the database server. As in MCDesktop a behaviour is one of a     *)
(* single component, `focus`.                                              *)
EXTENDS CaptureUpload, CaptureList, SyncQueue, AuthSession, LabServer, LabPages, LabCodes

VARIABLE focus
vars == <<focus, uploadVars, listVars, syncVars, authVars, askVars, grdVars, trcVars, crwVars, recVars, drwVars, camVars, rolVars, opcVars, smcVars, regVars, fstVars>>

\* The components that are not in focus start in one state.
Init ==
    /\ focus \in {"upload", "list", "queue", "auth", "ask", "guard", "trace", "crawl", "record", "drawer", "campaign", "matrix", "opcode", "sampcode", "register", "fast"}
    /\ UploadInit /\ ListInit
    /\ focus # "list" => \A c \in Caps : disk[c] = "incomplete"
    /\ SyncInit
    /\ focus # "queue" => sess.me = CHOOSE u \in Users : TRUE
    /\ focus # "queue" => ~sess.offline
    /\ AuthInit /\ AskInit
    /\ focus # "ask" => qna.store = "ok" /\ qna.access = "app" /\ qna.secret
    /\ GrdInit
    /\ focus # "guard" => grd.camp = "u" /\ \A s \in Samples : grd.owner[s] = "u"
    /\ TrcInit /\ CrwInit
    /\ focus # "crawl" => ErrorsOf(crw.rows) = {}
    /\ RecInit
    /\ focus # "record" => rec.kind = "record"
    /\ DrwInit /\ CamInit
    /\ focus # "campaign" => cam.kind = "move"
    /\ RolInit /\ OpcInit
    /\ focus # "opcode" => opc.kind = "new"
    /\ SmcInit
    /\ focus # "sampcode" => smc.kind = "new"
    /\ RegInit
    /\ focus # "register" => reg.admin
    /\ FstInit
    /\ focus # "fast" => fst.want = 0

Next ==
    \/ focus = "upload" /\ UploadNext /\ UNCHANGED <<focus, listVars, syncVars, authVars, askVars, grdVars, trcVars, crwVars, recVars, drwVars, camVars, rolVars, opcVars, smcVars, regVars, fstVars>>
    \/ focus = "list" /\ ListNext /\ UNCHANGED <<focus, uploadVars, syncVars, authVars, askVars, grdVars, trcVars, crwVars, recVars, drwVars, camVars, rolVars, opcVars, smcVars, regVars, fstVars>>
    \/ focus = "queue" /\ SyncNext /\ UNCHANGED <<focus, uploadVars, listVars, authVars, askVars, grdVars, trcVars, crwVars, recVars, drwVars, camVars, rolVars, opcVars, smcVars, regVars, fstVars>>
    \/ focus = "auth" /\ AuthNext /\ UNCHANGED <<focus, uploadVars, listVars, syncVars, askVars, grdVars, trcVars, crwVars, recVars, drwVars, camVars, rolVars, opcVars, smcVars, regVars, fstVars>>
    \/ focus = "ask" /\ AskNext /\ UNCHANGED <<focus, uploadVars, listVars, syncVars, authVars, grdVars, trcVars, crwVars, recVars, drwVars, camVars, rolVars, opcVars, smcVars, regVars, fstVars>>
    \/ focus = "guard" /\ GrdNext /\ UNCHANGED <<focus, uploadVars, listVars, syncVars, authVars, askVars, trcVars, crwVars, recVars, drwVars, camVars, rolVars, opcVars, smcVars, regVars, fstVars>>
    \/ focus = "trace" /\ TrcNext /\ UNCHANGED <<focus, uploadVars, listVars, syncVars, authVars, askVars, grdVars, crwVars, recVars, drwVars, camVars, rolVars, opcVars, smcVars, regVars, fstVars>>
    \/ focus = "crawl" /\ CrwNext /\ UNCHANGED <<focus, uploadVars, listVars, syncVars, authVars, askVars, grdVars, trcVars, recVars, drwVars, camVars, rolVars, opcVars, smcVars, regVars, fstVars>>
    \/ focus = "record" /\ RecNext /\ UNCHANGED <<focus, uploadVars, listVars, syncVars, authVars, askVars, grdVars, trcVars, crwVars, drwVars, camVars, rolVars, opcVars, smcVars, regVars, fstVars>>
    \/ focus = "drawer" /\ DrwNext /\ UNCHANGED <<focus, uploadVars, listVars, syncVars, authVars, askVars, grdVars, trcVars, crwVars, recVars, camVars, rolVars, opcVars, smcVars, regVars, fstVars>>
    \/ focus = "campaign" /\ CamNext /\ UNCHANGED <<focus, uploadVars, listVars, syncVars, authVars, askVars, grdVars, trcVars, crwVars, recVars, drwVars, rolVars, opcVars, smcVars, regVars, fstVars>>
    \/ focus = "matrix" /\ RolNext /\ UNCHANGED <<focus, uploadVars, listVars, syncVars, authVars, askVars, grdVars, trcVars, crwVars, recVars, drwVars, camVars, opcVars, smcVars, regVars, fstVars>>
    \/ focus = "opcode" /\ OpcNext /\ UNCHANGED <<focus, uploadVars, listVars, syncVars, authVars, askVars, grdVars, trcVars, crwVars, recVars, drwVars, camVars, rolVars, smcVars, regVars, fstVars>>
    \/ focus = "sampcode" /\ SmcNext /\ UNCHANGED <<focus, uploadVars, listVars, syncVars, authVars, askVars, grdVars, trcVars, crwVars, recVars, drwVars, camVars, rolVars, opcVars, regVars, fstVars>>
    \/ focus = "register" /\ RegNext /\ UNCHANGED <<focus, uploadVars, listVars, syncVars, authVars, askVars, grdVars, trcVars, crwVars, recVars, drwVars, camVars, rolVars, opcVars, smcVars, fstVars>>
    \/ focus = "fast" /\ FstNext /\ UNCHANGED <<focus, uploadVars, listVars, syncVars, authVars, askVars, grdVars, trcVars, crwVars, recVars, drwVars, camVars, rolVars, opcVars, smcVars, regVars>>

----------------------------------------------------------------------------
(* Fairness, of the component in focus.                                    *)

\* Requests are answered or time out; the operator presses Upload for as long as
\* the list offers it, and the list is refreshed while it does not know.
UploadFairness ==
    /\ \A u \in Callers : WF_uploadVars(focus = "upload" /\ UploadStep(u))
    /\ WF_uploadVars(focus = "upload" /\ (BeginUpload("list")))
    /\ WF_uploadVars(focus = "upload" /\ (shown = "unknown" /\ ListLookup(TRUE)))

\* Requests are answered; the operator answers a dialog when it suits.
ListFairness ==
    /\ WF_listVars(focus = "list" /\ LoadStep) /\ WF_listVars(focus = "list" /\ BulkStep) /\ WF_listVars(focus = "list" /\ UploadAllStep)
    /\ \A c \in Caps : WF_listVars(focus = "list" /\ RowStep(c))

\* The 15 s timer of startSync(), and requests that are answered.
SyncFairness == WF_syncVars(focus = "queue" /\ FlushStarts) /\ WF_syncVars(focus = "queue" /\ FlushStep)

\* Every request ends, with an answer or as lost; a waiting period passes.
AuthFairness ==
    /\ WF_authVars(focus = "auth" /\ (LoginTaken \/ LoginRefused \/ LoginLost \/ MatchRead \/ OfflineVerified \/ Enrolled))
    /\ WF_authVars(focus = "auth" /\ (\E b \in BOOLEAN : ProfileRead(b)))
    /\ WF_authVars(focus = "auth" /\ (RefreshTaken \/ RefreshLost \/ RefreshRefused))
    /\ \A c \in ApiCalls : WF_authVars(focus = "auth" /\ (CallAnswered(c) \/ CallLost(c) \/ CallRefused(c) \/ CallCut(c)))

\* The crawler page polls, its requests end, and the daemon works through what is pending.
CrawlFairness ==
    /\ WF_crwVars(focus = "crawl" /\ Poll) /\ WF_crwVars(focus = "crawl" /\ loadRecent)
    /\ WF_crwVars(focus = "crawl" /\ CrwAnswer) /\ \A r \in Readers : WF_crwVars(focus = "crawl" /\ loadState(r))
    /\ WF_crwVars(focus = "crawl" /\ (DaemonTakes \/ DaemonEnds))

Spec ==
    /\ Init /\ [][Next]_vars
    /\ UploadFairness /\ ListFairness /\ SyncFairness /\ AuthFairness /\ CrawlFairness

----------------------------------------------------------------------------
(* No capture is called redundant, or done, before the database holds all  *)
(* of it, and none is entered twice (uploadResume.ts,                      *)
(* captureUploadState.ts); the list shows what was asked for and what was  *)
(* looked up (CapturesSettings.vue).  No queued run is lost, sent twice or *)
(* owned by another than its recorder (directusSync.ts); the tokens are    *)
(* the signed-in user's, a refused session is forgotten and an outage ends *)
(* none (authStore.ts, offlineAuth.ts).                                    *)
CapturesSafe ==
    /\ focus = "upload" => UploadTypeOK /\ RedundantIsComplete /\ OneOperation /\ OneAnalysisPerOperation /\ DoneIsComplete
    /\ focus = "list" => ListTypeOK /\ RowsAreOfFilter /\ KnownIsLookedUp
    /\ focus = "queue" => SyncTypeOK /\ DiscardIsFinal /\ NoRunLost /\ NoSecondRow /\ OwnedByRecorder
    /\ focus = "auth" => AuthTypeOK /\ TokensOfUser /\ RefusedIsForgotten /\ OfflineWasOnline /\ OutageKeepsSession

(* A saved question stays saved in every tab and a failed one is explained *)
(* as it failed (history.ts, chat.vue, d1-ask-endpoint); a sample's        *)
(* lineage is listed exactly (d1-trace); a page shows the sections of its  *)
(* own record and a spinner has a read to wait for (useSections.ts); an    *)
(* edit that overwrites another's was confirmed (EditDrawer.vue); the      *)
(* matrix holds every result once (matrix.ts); codes follow the form and   *)
(* numbers the database gives are unique (OperationCode.vue, migration     *)
(* 127); the FAST page shows the selected run (FastDashboard.vue).         *)
LabSafe ==
    /\ focus = "ask" => SavedIsWanted /\ ListsBounded /\ ContextIsAnswered /\ SigninIsOwn
    /\ focus = "trace" => TraceIsExact
    /\ focus = "record" => SectionsOfPage /\ SpinnerHasRead
    /\ focus = "drawer" => OverwriteIsAsked
    /\ focus = "campaign" => ListFollowsOwn
    /\ focus = "matrix" => MatrixIsWhole
    /\ focus = "opcode" => AutoFollows
    /\ focus = "register" => NumbersUnique
    /\ focus = "fast" => FastShowsSelected

(* What no step does: replace a link that is in the row, delete a capture  *)
(* the database does not hold or that is being uploaded, go on after       *)
(* Cancel, begin a second operation on a row, send another user's run,     *)
(* open an offline session for a user who never signed in with it; give a  *)
(* sample away without its owner (d1-access-guard), undo typed settings    *)
(* with an older load (Crawler.vue), take a sample from another campaign   *)
(* (assign.ts), replace a code that was typed or is saved.                 *)
DatabaseSteps ==
    /\ LinkNotOverwritten /\ CleanupDeletesUploaded /\ CancelStops /\ NoDeleteUnderUpload /\ OneAtATime
    /\ OthersAreLeft /\ OfflineIsTheirs
    /\ GrantsAreOwners /\ DirtyDraftKept /\ NeverTaken /\ OverrideKept /\ NeverRenumbered

(* An operator who keeps pressing Upload gets the capture into the         *)
(* database; the list's operations, the queue and the requests come to     *)
(* their end; the crawler's page comes to show what the crawler did.       *)
DatabaseSettles ==
    /\ []<>(AuthQuiet /\ (focus = "upload" => UploadQuiet))
    /\ <>[](ListQuiet /\ QueueQuiet /\ (focus = "crawl" => CrawlQuiet))
==============================================================================
