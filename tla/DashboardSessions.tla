------------------------- MODULE DashboardSessions -------------------------
(***************************************************************************)
(* Accounts and dashboard sessions: sign-up, sign-in by password and by    *)
(* GitHub, the rotation of refresh credentials, logout, and one browser    *)
(* whose Auth.js cookie holds the credentials while several of its         *)
(* requests are under way.  A credential is named by its session: the      *)
(* refresh credential and the access credential of a session are issued    *)
(* together.  Passwords, hashes and signatures are abstracted.             *)
(*                                                                         *)
(* Sources: backend auth/dashboard-auth.service.ts, dashboard-session      *)
(* .guard.ts; frontend auth.ts, app/login, app/signup, app/logout.         *)
(***************************************************************************)
EXTENDS Integers, FiniteSets

CONSTANTS Emails,        \* people, by the email address they sign up with
          GithubIds,     \* GitHub accounts
          EmailOf,       \* primary verified email of a GitHub account
          NoGithub,      \* no GitHub account is linked
          Requests,      \* HTTP requests under way at a time
          MaxSessions    \* bound: sessions that are ever created

ASSUME GithubAssumption == EmailOf \in [GithubIds -> Emails] /\ NoGithub \notin GithubIds
ASSUME SessionsAssumption == MaxSessions \in Nat \ {0} /\ Emails # {}

VARIABLES account,    \* User rows with their personal organizations, by email
          session,    \* DashboardSession rows
          cookie,     \* the session whose credentials the browser holds, 0: none
          request,    \* where each request stands and the credentials it carries
          ended       \* logins whose latest session a logout has revoked

sessionVars == <<account, session, cookie, request, ended>>

SessionIds == 1..MaxSessions
NoSession == 0
NoRow == [state |-> "none", owner |-> CHOOSE e \in Emails : TRUE, login |-> NoSession, access |-> "fresh"]
NoRequest == [pc |-> "idle", email |-> CHOOSE e \in Emails : TRUE, github |-> NoGithub, carries |-> NoSession]

InDb(i) == session[i].state # "none"
LiveSession(i) == i \in SessionIds /\ session[i].state = "live"

\* The next id; rows are created in order.
Fresh == CHOOSE i \in SessionIds : ~InDb(i) /\ \A j \in SessionIds : j < i => InDb(j)
MayCreate == \E i \in SessionIds : ~InDb(i)

\* createSession: 30 days of refresh, 15 minutes of access.  A rotation continues its login.
NewSession(e, login) == [state |-> "live", owner |-> e, login |-> login, access |-> "fresh"]

InRequest(r, pc) == request[r].pc = pc
GoRequest(r, pc) == request' = [request EXCEPT ![r].pc = pc]
Done(r) == request' = [request EXCEPT ![r] = NoRequest]
AnswerWith(r, s) == request' = [request EXCEPT ![r].pc = "answer", ![r].carries = s]

SignedIn(r, e) ==
    /\ MayCreate
    /\ session' = [session EXCEPT ![Fresh] = NewSession(e, Fresh)]
    /\ AnswerWith(r, Fresh)
------------------------------------------------------------------------------
(***************************************************************************)
(* Accounts.                                                               *)
(***************************************************************************)
\* The sign-up form; register looks the email up.
RegisterLookup(r, e) ==
    /\ InRequest(r, "idle")
    /\ request' = [request EXCEPT ![r].email = e,
                       ![r].pc = IF account[e].exists THEN "login" ELSE "insertUser"]
    /\ UNCHANGED <<account, session, cookie, ended>>

(* User, personal organization, membership and session in one transaction.  The index on
   email refuses a second row: ROLLBACK.  The sign-up route drops the session it is given
   and sends the browser to the login page. *)
RegisterInsert(r) ==
    /\ InRequest(r, "insertUser") /\ MayCreate
    /\ LET e == request[r].email IN
       IF account[e].exists THEN UNCHANGED <<account, session>>
       ELSE /\ account' = [account EXCEPT ![e].exists = TRUE, ![e].organizations = @ + 1]
            /\ session' = [session EXCEPT ![Fresh] = NewSession(e, Fresh)]
    /\ Done(r)
    /\ UNCHANGED <<cookie, ended>>

\* register of an email that exists is a login with the password given, which may be wrong.
RegisterExisting(r) ==
    /\ InRequest(r, "login") /\ MayCreate
    /\ session' \in {session, [session EXCEPT ![Fresh] = NewSession(request[r].email, Fresh)]}
    /\ Done(r)
    /\ UNCHANGED <<account, cookie, ended>>

\* The login form: authorize() calls login, the cookie is set with the answer.
Login(r, e) ==
    /\ InRequest(r, "idle") /\ account[e].exists
    /\ SignedIn(r, e)
    /\ UNCHANGED <<account, cookie, ended>>

\* Rows of the email or of the GitHub account; only the first one is looked at.
GithubRows(g) == {e \in Emails : account[e].exists /\ (account[e].github = g \/ e = EmailOf[g])}

\* SELECT ... FOR UPDATE, then the UPDATE in the same transaction.
GithubLogin(r, g) ==
    /\ InRequest(r, "idle")
    /\ \/ \E e \in GithubRows(g) :
            IF account[e].github \in {NoGithub, g} /\ \A x \in Emails \ {e} : account[x].github # g
            THEN /\ account' = [account EXCEPT ![e].github = g]
                 /\ SignedIn(r, e)
            ELSE UNCHANGED <<account, session, request>>
       \/ /\ GithubRows(g) = {}
          /\ request' = [request EXCEPT ![r].pc = "insertGithubUser", ![r].github = g]
          /\ UNCHANGED <<account, session>>
    /\ UNCHANGED <<cookie, ended>>

\* The lookup has locked nothing: the indexes on email and githubId refuse a second row.
GithubInsert(r) ==
    /\ InRequest(r, "insertGithubUser") /\ MayCreate
    /\ LET g == request[r].github IN
       IF GithubRows(g) # {} THEN Done(r) /\ UNCHANGED <<account, session>>
       ELSE /\ account' = [account EXCEPT ![EmailOf[g]] =
                   [exists |-> TRUE, github |-> g, organizations |-> @.organizations + 1]]
            /\ SignedIn(r, EmailOf[g])
    /\ UNCHANGED <<cookie, ended>>
------------------------------------------------------------------------------
(***************************************************************************)
(* Requests that carry the browser's cookie.                               *)
(***************************************************************************)
\* DashboardSessionGuard: an access credential that has not expired, of a session that lives.
Principal(s) == LiveSession(s) /\ session[s].access # "expired"

\* A page or a route handler: getToken reads the cookie, the backend is asked who it is.
OpenPage(r) ==
    /\ InRequest(r, "idle") /\ cookie # NoSession
    /\ request' = [request EXCEPT ![r].carries = cookie, ![r].pc = IF Principal(cookie) THEN "served" ELSE "denied"]
    /\ UNCHANGED <<account, session, cookie, ended>>

ClosePage(r) ==
    /\ request[r].pc \in {"served", "denied"}
    /\ Done(r)
    /\ UNCHANGED <<account, session, cookie, ended>>

(* The Auth.js session endpoint runs the jwt callback: with less than a minute of access
   left it refreshes, and answers with the token it has then. *)
JwtCallback(r) ==
    /\ InRequest(r, "idle") /\ cookie # NoSession
    /\ request' = [request EXCEPT ![r].carries = cookie,
                       ![r].pc = IF session[cookie].access = "fresh" THEN "answer" ELSE "refresh"]
    /\ UNCHANGED <<account, session, cookie, ended>>

\* A refresh that has checked a session holds its row until it commits.
RowLocked(s) == \E r \in Requests : InRequest(r, "rotate") /\ request[r].carries = s

\* Mutant: the row is read without FOR UPDATE.
RefreshCheckUnlocked(r) ==
    /\ InRequest(r, "refresh")
    /\ GoRequest(r, IF LiveSession(request[r].carries) THEN "rotate" ELSE "answer")
    /\ UNCHANGED <<account, session, cookie, ended>>

\* sessionById(..., true).  A refresh that is refused leaves the old token in the cookie.
RefreshCheck(r) ==
    /\ InRequest(r, "refresh") /\ ~RowLocked(request[r].carries)
    /\ GoRequest(r, IF LiveSession(request[r].carries) THEN "rotate" ELSE "answer")
    /\ UNCHANGED <<account, session, cookie, ended>>

\* The session is revoked and its successor created; COMMIT.
RefreshRotate(r) ==
    /\ InRequest(r, "rotate") /\ MayCreate
    /\ LET old == request[r].carries IN
       session' = [session EXCEPT ![old].state = "revoked",
                                  ![Fresh] = NewSession(session[old].owner, session[old].login)]
    /\ AnswerWith(r, Fresh)
    /\ UNCHANGED <<account, cookie, ended>>

\* An error of the refresh transaction: ROLLBACK, the request fails without a cookie.
RefreshFails(r) ==
    /\ request[r].pc \in {"refresh", "rotate"}
    /\ Done(r)
    /\ UNCHANGED <<account, session, cookie, ended>>

(* The logout route asks the backend to revoke the session.  The guard reads its row without a
   lock; the route ignores a refusal, and signOut clears the cookie all the same. *)
LogoutGuard(r) ==
    /\ InRequest(r, "idle") /\ cookie # NoSession
    /\ IF Principal(cookie)
       THEN request' = [request EXCEPT ![r].pc = "revoke", ![r].carries = cookie]
       ELSE AnswerWith(r, NoSession)
    /\ UNCHANGED <<account, session, cookie, ended>>

\* A refresh has replaced the session by one of the same login.
Replaced(s) == \E i \in SessionIds : s < i /\ InDb(i) /\ session[i].login = session[s].login

(* revoke: the UPDATE waits for a refresh that holds the row.  A row that is revoked by then,
   by a refresh or by another logout, is not hit: 0 rows, which nobody looks at. *)
LogoutRevoke(r) ==
    LET s == request[r].carries IN
    /\ InRequest(r, "revoke") /\ ~RowLocked(s)
    /\ session' = IF session[s].state = "revoked" THEN session ELSE [session EXCEPT ![s].state = "revoked"]
    /\ ended' = IF Replaced(s) THEN ended ELSE ended \union {session[s].login}
    /\ AnswerWith(r, NoSession)
    /\ UNCHANGED <<account, cookie>>

\* The UPDATE fails: a 500 is ignored too, a call that never answers fails the route.
LogoutFails(r) ==
    /\ InRequest(r, "revoke")
    /\ AnswerWith(r, NoSession) \/ Done(r)
    /\ UNCHANGED <<account, session, cookie, ended>>

\* Answers arrive in any order; each sets the cookie.
AnswerArrives(r) ==
    /\ InRequest(r, "answer")
    /\ cookie' = request[r].carries
    /\ Done(r)
    /\ UNCHANGED <<account, session, ended>>

\* The browser gives a request up: the cookie stays as it is.
AnswerLost(r) ==
    /\ InRequest(r, "answer")
    /\ Done(r)
    /\ UNCHANGED <<account, session, cookie, ended>>
------------------------------------------------------------------------------
\* After 14 minutes, and after 15, of the access credential; after 30 days of the session.
TimePasses(i) ==
    /\ InDb(i)
    /\ \/ session' = [session EXCEPT ![i].access = IF @ = "fresh" THEN "expiring" ELSE "expired"]
       \/ session[i].access = "expired" /\ LiveSession(i) /\ ~RowLocked(i)
          /\ session' = [session EXCEPT ![i].state = "expired"]
    /\ UNCHANGED <<account, cookie, request, ended>>

SessionInit ==
    /\ account = [e \in Emails |-> [exists |-> FALSE, github |-> NoGithub, organizations |-> 0]]
    /\ session = [i \in SessionIds |-> NoRow]
    /\ cookie = NoSession
    /\ request = [r \in Requests |-> NoRequest]
    /\ ended = {}

SignUpOrIn(r) ==
    \/ \E e \in Emails : RegisterLookup(r, e) \/ Login(r, e)
    \/ RegisterInsert(r) \/ RegisterExisting(r)
    \/ \E g \in GithubIds : GithubLogin(r, g)
    \/ GithubInsert(r)

Browse(r) ==
    \/ OpenPage(r) \/ ClosePage(r) \/ JwtCallback(r) \/ RefreshCheck(r) \/ RefreshRotate(r)
    \/ RefreshFails(r) \/ LogoutGuard(r) \/ LogoutRevoke(r) \/ LogoutFails(r)
    \/ AnswerArrives(r) \/ AnswerLost(r)

SessionNext ==
    \/ \E r \in Requests : SignUpOrIn(r) \/ Browse(r)
    \/ \E i \in SessionIds : TimePasses(i)

SessionSpec == SessionInit /\ [][SessionNext]_sessionVars
------------------------------------------------------------------------------
(* Every variable stays in its range. *)
SessionTypeOK ==
    /\ account \in [Emails -> [exists : BOOLEAN, github : GithubIds \union {NoGithub}, organizations : Nat]]
    /\ session \in [SessionIds -> [state : {"none", "live", "revoked", "expired"}, owner : Emails,
                                   login : SessionIds \union {NoSession}, access : {"fresh", "expiring", "expired"}]]
    /\ cookie \in SessionIds \union {NoSession}
    /\ request \in [Requests ->
            [pc : {"idle", "login", "insertUser", "insertGithubUser", "served", "denied",
                   "refresh", "rotate", "revoke", "answer"},
             email : Emails, github : GithubIds \union {NoGithub}, carries : SessionIds \union {NoSession}]]
    /\ ended \subseteq SessionIds \union {NoSession}

(* However many requests refresh one credential at the same time, a login has one live session:
   the row is locked from the check to the rotation.  And once the UPDATE of a logout has run on
   the latest session of a login, the login has none, then or later, though refreshes of its
   credential are under way (dashboard-auth.service.ts:150-182).  It says nothing of the logouts
   that end nothing: refused by the guard after 15 minutes, failed, or overtaken by a refresh
   that committed between the guard and the UPDATE. *)
OneLivePerLogin ==
    \A l \in SessionIds :
        Cardinality({i \in SessionIds : LiveSession(i) /\ session[i].login = l}) <= IF l \in ended THEN 0 ELSE 1

(* "The backend access credential lasts 15 minutes; the rotating hashed refresh session lasts
   30 days" (SYSTEM_DESIGN.md:319): a page is refused only when the session is over. *)
PagesAreServed ==
    \A r \in Requests : InRequest(r, "denied") => ~LiveSession(request[r].carries)
=============================================================================
