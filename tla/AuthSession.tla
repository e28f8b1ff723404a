----------------------------- MODULE AuthSession -----------------------------
(***************************************************************************)
(* Signing in (web/src/authStore.ts, offlineAuth.ts, directusClient.ts,    *)
(* LoginPage.vue, OfflineSessionBanner.vue, router.ts): the session and    *)
(* its tokens, the refresh all requests share, offline sign-in against the *)
(* passwords kept on this PC.  Directus is external: the passwords it      *)
(* takes, the tokens it has handed out and rotates, and being out of reach.*)
(***************************************************************************)
EXTENDS Integers, FiniteSets

CONSTANTS
    Accounts,     \* accounts that sign in on this PC
    Passwords,    \* passwords an account has had
    ApiCalls,     \* requests of the app that may be under way together
    FreeAttempts, \* MAX_FREE_ATTEMPTS: wrong passwords before a wait
    MaxTokens,    \* bound: tokens handed out
    MaxLogins     \* bound: sign-ins tried

\* "nobody" and "none" stand for the absence of an account and of a password.
ASSUME AuthAssumption ==
    /\ {FreeAttempts, MaxTokens, MaxLogins} \subseteq Nat
    /\ Passwords # {} /\ "none" \notin Passwords /\ "nobody" \notin Accounts

VARIABLES
    ses,     \* authStore.state: access and refresh token, user, offline
    login,   \* the sign-in under way and how far it is
    rfr,     \* refreshing: the refresh token that was sent
    calls,   \* the requests: sent, waiting for the refresh, sent again
    vault,   \* the offline vault: each account's password and whether it is recent
    lock,    \* the throttle: wrong attempts, waiting
    route,   \* the page: login or the app
    auth,    \* Directus: current passwords, live access and refresh tokens, reachable
    authPast \* bounds and history

authVars == <<ses, login, rfr, calls, vault, lock, route, auth, authPast>>

Nobody == "nobody"
NoPw == "none"
NoToken == [who |-> Nobody, n |-> 0]
SignedOut == [acc |-> NoToken, ref |-> NoToken, user |-> Nobody, offline |-> FALSE]
NoLogin == [at |-> "none", who |-> Nobody, pw |-> NoPw, re |-> FALSE]

AuthInit ==
    /\ ses = SignedOut /\ login = NoLogin /\ rfr = NoToken
    /\ calls = [c \in ApiCalls |-> "none"]
    /\ vault = [u \in Accounts |-> [pw |-> NoPw, fresh |-> FALSE]]
    /\ lock = [fails |-> 0, wait |-> FALSE] /\ route = "login"
    /\ auth = [pw |-> [u \in Accounts |-> CHOOSE p \in Passwords : TRUE], acc |-> {}, ref |-> {}, up |-> TRUE, n |-> 0]
    /\ authPast = [logins |-> 0, taken |-> {}, refused |-> {}, should |-> FALSE, late |-> FALSE, out |-> TRUE]

isAuthenticated(s) == s.ref # NoToken \/ s.acc # NoToken \/ s.offline
offlineEntryValid(u) == u # Nobody /\ vault[u].pw # NoPw /\ vault[u].fresh
Past(f, v) == authPast' = [authPast EXCEPT ![f] = v]
\* A session ended or replaced while its refresh is under way.
Late(p) == [p EXCEPT !.late = @ \/ rfr # NoToken]

----------------------------------------------------------------------------
(* Directus and the world.                                                 *)

PasswordChanges(u, p) ==
    /\ auth.pw[u] # p /\ auth' = [auth EXCEPT !.pw[u] = p]
    /\ UNCHANGED <<ses, login, rfr, calls, vault, lock, route, authPast>>

Reachable(b) ==
    /\ auth.up # b /\ auth' = [auth EXCEPT !.up = b]
    /\ UNCHANGED <<ses, login, rfr, calls, vault, lock, route, authPast>>

\* An access token expires; a session is ended on the server.
TokenExpires(t) ==
    /\ t \in auth.acc /\ auth' = [auth EXCEPT !.acc = @ \ {t}]
    /\ UNCHANGED <<ses, login, rfr, calls, vault, lock, route, authPast>>

SessionEnded(t) ==
    /\ t \in auth.ref /\ auth' = [auth EXCEPT !.ref = @ \ {t}]
    /\ Past("should", FALSE)
    /\ UNCHANGED <<ses, login, rfr, calls, vault, lock, route>>

NewToken(u) == [who |-> u, n |-> auth.n + 1]
MayIssue == auth.up /\ auth.n < MaxTokens
Issued(a, u) == [a EXCEPT !.acc = @ \union {NewToken(u)}, !.ref = @ \union {NewToken(u)}, !.n = @ + 1]

----------------------------------------------------------------------------
(* Signing in.                                                             *)

\* LoginPage.submit(), and reauthenticate() of the offline banner for its own account.
LoginStarts(u, p, re) ==
    /\ login = NoLogin /\ authPast.logins < MaxLogins
    /\ IF re THEN ses.offline /\ ses.user = u /\ route = "app" ELSE route = "login" /\ ~isAuthenticated(ses)
    /\ login' = [at |-> "post", who |-> u, pw |-> p, re |-> re]
    /\ Past("logins", authPast.logins + 1)
    /\ UNCHANGED <<ses, rfr, calls, vault, lock, route, auth>>

\* onlineLogin(): the tokens; a profile of somebody else is dropped.
SignedIn(u) == [acc |-> NewToken(u), ref |-> NewToken(u), user |-> IF ses.user = u THEN ses.user ELSE Nobody, offline |-> FALSE]

LoginTaken ==
    /\ login.at = "post" /\ MayIssue /\ login.pw = auth.pw[login.who]
    /\ auth' = Issued(auth, login.who)
    /\ ses' = SignedIn(login.who)
    /\ login' = [login EXCEPT !.at = "profile"]
    /\ authPast' = Late([authPast EXCEPT !.taken = @ \union {<<login.who, login.pw>>}, !.refused = @ \ {<<login.who, login.pw>>}, !.out = FALSE])
    /\ UNCHANGED <<rfr, calls, vault, lock, route>>

\* The profile, or none: without one the session is dropped again.
ProfileRead(ok) ==
    /\ login.at = "profile"
    /\ LET user == IF ok /\ ses.acc # NoToken THEN ses.acc.who ELSE ses.user IN
       IF user = Nobody
       THEN ses' = SignedOut /\ login' = NoLogin /\ authPast' = Late([authPast EXCEPT !.should = FALSE])
       ELSE /\ ses' = [ses EXCEPT !.user = user] /\ login' = [login EXCEPT !.at = "enroll"]
            /\ Past("should", TRUE)
    /\ UNCHANGED <<rfr, calls, vault, lock, route, auth>>

LeavesLogin == IF login.re THEN route ELSE "app"

\* enrollOfflineLogin(): the derived password is stored; the form goes to the app.
Enrolled ==
    /\ login.at = "enroll" /\ login' = NoLogin /\ route' = LeavesLogin
    /\ vault' = [vault EXCEPT ![login.who] = [pw |-> login.pw, fresh |-> TRUE]]
    /\ lock' = [fails |-> 0, wait |-> FALSE]
    /\ UNCHANGED <<ses, rfr, calls, auth, authPast>>

AfterRefusal == IF login.re THEN NoLogin ELSE [login EXCEPT !.at = "match"]

\* 401: a password the vault still takes is forgotten (not by reauthenticate()).
LoginRefused ==
    /\ login.at = "post" /\ auth.up /\ login.pw # auth.pw[login.who]
    /\ login' = AfterRefusal
    /\ Past("refused", IF login.re THEN authPast.refused ELSE authPast.refused \union {<<login.who, login.pw>>})
    /\ UNCHANGED <<ses, rfr, calls, vault, lock, route, auth>>

\* revokeOfflineLogin().
Forgotten(u) == [vault EXCEPT ![u] = [pw |-> NoPw, fresh |-> FALSE]]

MatchRead ==
    /\ login.at = "match" /\ login' = NoLogin
    /\ vault' = IF vault[login.who].pw = login.pw THEN Forgotten(login.who) ELSE vault
    /\ UNCHANGED <<ses, rfr, calls, lock, route, auth, authPast>>

\* Out of reach; past the bound on tokens every answer is lost.
Unreachable == ~auth.up \/ auth.n = MaxTokens

LoginLost ==
    /\ login.at = "post" /\ Unreachable
    /\ login' = IF login.re THEN NoLogin ELSE [login EXCEPT !.at = "verify"]
    /\ UNCHANGED <<ses, rfr, calls, vault, lock, route, auth, authPast>>

Failed(l) == [fails |-> IF l.fails < FreeAttempts + 1 THEN l.fails + 1 ELSE l.fails, wait |-> l.fails >= FreeAttempts]

\* verifyOfflineLogin(): known on this PC, recent, and the same password.
Verified(u, p) == offlineEntryValid(u) /\ vault[u].pw = p

OfflineVerified ==
    /\ login.at = "verify" /\ login' = NoLogin
    /\ IF ~lock.wait /\ Verified(login.who, login.pw)
       THEN /\ ses' = [SignedOut EXCEPT !.user = login.who, !.offline = TRUE] /\ route' = "app"
            /\ lock' = [fails |-> 0, wait |-> FALSE]
            /\ authPast' = Late([authPast EXCEPT !.should = TRUE, !.out = FALSE])
       ELSE /\ UNCHANGED <<ses, route, authPast>>
            /\ lock' = IF ~lock.wait /\ offlineEntryValid(login.who) THEN Failed(lock) ELSE lock
    /\ UNCHANGED <<rfr, calls, vault, auth>>

WaitOver ==
    /\ lock.wait /\ lock' = [lock EXCEPT !.wait = FALSE]
    /\ UNCHANGED <<ses, login, rfr, calls, vault, route, auth, authPast>>

EntryAges(u) ==
    /\ vault[u].fresh /\ vault' = [vault EXCEPT ![u].fresh = FALSE]
    /\ Past("should", authPast.should /\ ~(ses.offline /\ ses.user = u))
    /\ UNCHANGED <<ses, login, rfr, calls, lock, route, auth>>

\* OfflineModeCard.forget(): not the account that is signed in.
ForgetAccount(u) ==
    /\ route = "app" /\ ses.user # u /\ vault[u].pw # NoPw /\ vault' = Forgotten(u)
    /\ UNCHANGED <<ses, login, rfr, calls, lock, route, auth, authPast>>

----------------------------------------------------------------------------
(* Requests and the refresh they share.                                    *)

CallSent(c) ==
    /\ route = "app" /\ calls[c] = "none" /\ calls' = [calls EXCEPT ![c] = "sent"]
    /\ UNCHANGED <<ses, login, rfr, vault, lock, route, auth, authPast>>

CallAnswered(c) ==
    /\ calls[c] \in {"sent", "again"} /\ auth.up /\ ses.acc \in auth.acc
    /\ calls' = [calls EXCEPT ![c] = "none"]
    /\ UNCHANGED <<ses, login, rfr, vault, lock, route, auth, authPast>>

CallLost(c) ==
    /\ calls[c] \in {"sent", "again"} /\ ~auth.up /\ calls' = [calls EXCEPT ![c] = "none"]
    /\ UNCHANGED <<ses, login, rfr, vault, lock, route, auth, authPast>>

\* 401 without a way back: signed out, unless this is an offline session.
Unauthorized == IF ses.offline THEN UNCHANGED <<ses, route, authPast>>
                ELSE ses' = SignedOut /\ route' = "login" /\ authPast' = Late([authPast EXCEPT !.should = FALSE])

\* refresh(): one for all.
Joins == rfr # NoToken

CallRefused(c) ==
    /\ calls[c] \in {"sent", "again"} /\ auth.up /\ ses.acc \notin auth.acc
    /\ IF calls[c] = "sent" /\ ses.ref # NoToken
       THEN /\ calls' = [calls EXCEPT ![c] = "waits"]
            /\ rfr' = IF Joins THEN rfr ELSE ses.ref
            /\ UNCHANGED <<ses, route, authPast>>
       ELSE calls' = [calls EXCEPT ![c] = "none"] /\ rfr' = rfr /\ Unauthorized
    /\ UNCHANGED <<login, vault, lock, auth>>

\* After the refresh: again with the new token; given up when only the network failed.
Resumed(ok, s) ==
    [c \in ApiCalls |-> IF calls[c] # "waits" THEN calls[c]
                        ELSE IF ok THEN "again" ELSE IF s.ref # NoToken THEN "none" ELSE "cut"]

\* Directus rotates the refresh token; the vault's entry counts as verified again.
RefreshTaken ==
    /\ rfr \in auth.ref /\ MayIssue
    /\ auth' = [Issued(auth, rfr.who) EXCEPT !.ref = @ \ {rfr}]
    /\ ses' = [ses EXCEPT !.acc = NewToken(rfr.who), !.ref = NewToken(rfr.who)]
    /\ vault' = IF ses.user # Nobody /\ vault[ses.user].pw # NoPw THEN [vault EXCEPT ![ses.user].fresh = TRUE] ELSE vault
    /\ rfr' = NoToken /\ calls' = Resumed(TRUE, ses')
    /\ UNCHANGED <<login, lock, route, authPast>>

AfterLoss == ses

RefreshLost ==
    /\ rfr # NoToken /\ Unreachable
    /\ ses' = AfterLoss /\ rfr' = NoToken /\ calls' = Resumed(FALSE, ses')
    /\ UNCHANGED <<login, vault, lock, route, auth, authPast>>

RefreshRefused ==
    /\ rfr # NoToken /\ auth.up /\ rfr \notin auth.ref
    /\ ses' = SignedOut /\ rfr' = NoToken /\ calls' = Resumed(FALSE, ses')
    /\ Past("should", FALSE)
    /\ UNCHANGED <<login, vault, lock, route, auth>>

CutSettles(c) == [calls EXCEPT ![c] = "none"]

\* The request that waited on a refused refresh ends as its 401 did.
CallCut(c) ==
    /\ calls[c] = "cut" /\ calls' = CutSettles(c) /\ Unauthorized
    /\ UNCHANGED <<login, rfr, vault, lock, auth>>

----------------------------------------------------------------------------
(* logout(), and the guard of every navigation.                            *)

Logout ==
    /\ route = "app" /\ isAuthenticated(ses) /\ login = NoLogin
    /\ ses' = SignedOut /\ route' = "login"
    /\ auth' = IF auth.up THEN [auth EXCEPT !.ref = @ \ {ses.ref}] ELSE auth
    /\ authPast' = Late([authPast EXCEPT !.should = FALSE, !.out = TRUE])
    /\ UNCHANGED <<login, rfr, calls, vault, lock>>

\* checkOfflineSession().
Checked(s) == IF s.offline /\ ~offlineEntryValid(s.user) THEN SignedOut ELSE s

Navigate ==
    /\ route = "app" /\ ses' = Checked(ses)
    /\ route' = IF isAuthenticated(ses') THEN "app" ELSE "login"
    /\ authPast' = IF ses' # ses THEN Late([authPast EXCEPT !.should = FALSE]) ELSE authPast
    /\ login' = login
    /\ UNCHANGED <<rfr, calls, vault, lock, auth>>

----------------------------------------------------------------------------
AuthNext ==
    \/ \E u \in Accounts, p \in Passwords : PasswordChanges(u, p) \/ \E re \in BOOLEAN : LoginStarts(u, p, re)
    \/ \E b \in BOOLEAN : Reachable(b) \/ ProfileRead(b)
    \/ \E t \in auth.acc : TokenExpires(t)
    \/ \E t \in auth.ref : SessionEnded(t)
    \/ \E u \in Accounts : EntryAges(u) \/ ForgetAccount(u)
    \/ LoginTaken \/ Enrolled \/ LoginRefused \/ MatchRead \/ LoginLost \/ OfflineVerified \/ WaitOver
    \/ \E c \in ApiCalls : CallSent(c) \/ CallAnswered(c) \/ CallLost(c) \/ CallRefused(c) \/ CallCut(c)
    \/ RefreshTaken \/ RefreshLost \/ RefreshRefused \/ Logout \/ Navigate


----------------------------------------------------------------------------
AuthTypeOK ==
    /\ ses.user \in Accounts \union {Nobody} /\ ses.offline \in BOOLEAN
    /\ login.at \in {"none", "post", "profile", "enroll", "match", "verify"}
    /\ \A c \in ApiCalls : calls[c] \in {"none", "sent", "waits", "again", "cut"}
    /\ \A c \in ApiCalls : calls[c] = "waits" => rfr # NoToken
    /\ lock.fails \in 0..(FreeAttempts + 1) /\ route \in {"login", "app"}

\* The tokens of the session are those of the user it names, and an offline
\* session has none, through refreshes, sign-ins and re-authentication
\* (a refresh that outlives its session is the exception: README, section 5).
TokensOfUser ==
    authPast.late \/
    /\ ses.offline => ses.acc = NoToken /\ ses.ref = NoToken /\ ses.user # Nobody
    /\ (ses.user # Nobody /\ ses.acc # NoToken) => ses.acc.who = ses.user
    /\ ses.acc.who = ses.ref.who

\* A password that Directus refused at the sign-in form does not open an offline
\* session afterwards, until Directus has taken it again.
RefusedIsForgotten ==
    \A u \in Accounts : <<u, vault[u].pw>> \in authPast.refused => (login.at = "match" /\ login.who = u)

\* What the vault takes was taken by Directus before.
OfflineWasOnline == \A u \in Accounts : vault[u].pw # NoPw => <<u, vault[u].pw>> \in authPast.taken

\* A session ends only by signing out, a refusal, or the age of the entry: the
\* network going away, before or during a refresh, never signs anybody out.
OutageKeepsSession == authPast.should /\ ~authPast.late => isAuthenticated(ses)

\* An offline sign-in is only taken with the password of the entry.
OfflineIsTheirs == [][ses'.offline /\ ~ses.offline =>
                        vault[login.who].pw = login.pw /\ vault[login.who].fresh /\ ~lock.wait]_authVars

\* Every request the app makes is settled, also the ones that wait for the refresh
\* of another.
AuthQuiet == \A c \in ApiCalls : calls[c] # "waits"

\* Does not hold (README, section 5): a refresh answered after the sign-out
\* brings the session back.
LogoutIsFinal == authPast.out => ~isAuthenticated(ses)
=============================================================================
