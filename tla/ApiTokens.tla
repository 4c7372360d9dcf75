------------------------------ MODULE ApiTokens ------------------------------
(***************************************************************************)
(* API tokens of one organization: the four ways to issue one (dashboard,  *)
(* admin session, GitHub Actions OIDC token, GitHub OAuth token), their    *)
(* revocation and expiry, and the guard that admits a call by the token or *)
(* the dashboard session it presents.  A hash matches its own plaintext    *)
(* only; plaintexts are random and never issued twice, prefixes of         *)
(* different plaintexts may coincide.                                      *)
(*                                                                         *)
(* Sources: backend auth/api-token.guard.ts, dashboard-or-api-token        *)
(* .guard.ts, database-api-token-store.ts, api-tokens.controller.ts,       *)
(* github-oidc-*.ts, github-oauth.service.ts, catalog/dashboard-api-tokens *)
(* .service.ts, versions/versions.service.ts.                              *)
(***************************************************************************)
EXTENDS Integers, FiniteSets

CONSTANTS Plaintexts,   \* tokens that may be generated
          PrefixOf,     \* the first 16 characters of a token
          GuardedCalls, \* HTTP calls under way at a time
          GithubUsers,  \* GitHub accounts, all of one member of the organization
          Scopes,
          NoLink, NoToken

ASSUME ScopesAssumption == "docs:deploy" \in Scopes
ASSUME PrefixAssumption == DOMAIN PrefixOf = Plaintexts /\ NoToken \notin Plaintexts /\ NoLink \notin GithubUsers

VARIABLES token,        \* ApiToken rows, named by the plaintext of their hash
          lastUsed,     \* rows whose lastUsedAt is set
          linked,       \* the GitHub account of the member
          sessionLives, \* the dashboard session a caller may present instead of a token
          oidcAge,      \* seconds since the OIDC token at hand was issued
          guarded       \* where each call stands

tokenVars == <<token, lastUsed, linked, sessionLives, oidcAge, guarded>>

NoTokenRow == [state |-> "none", scopes |-> {}, expires |-> FALSE]
IsRow(p) == token[p].state # "none"
Valid(p) == token[p].state = "live"
Idle == [pc |-> "idle", presents |-> NoToken, row |-> NoToken, deadAtStart |-> {}]
------------------------------------------------------------------------------
(***************************************************************************)
(* Issuing and revoking.                                                   *)
(***************************************************************************)
\* Mutant: tokenPrefix has no index.
IssueAnyPrefix(scopes, expires) ==
    \E p \in Plaintexts :
        /\ ~IsRow(p)
        /\ token' = [token EXCEPT ![p] = [state |-> "live", scopes |-> scopes, expires |-> expires]]

\* INSERT: the index on tokenPrefix refuses a second token of a prefix.
IssueApiToken(scopes, expires) ==
    \E p \in Plaintexts :
        /\ \A q \in Plaintexts : IsRow(q) => PrefixOf[q] # PrefixOf[p]
        /\ token' = [token EXCEPT ![p] = [state |-> "live", scopes |-> scopes, expires |-> expires]]

\* The dashboard: any of the scopes, at least one, no expiry.
CreateDashboardToken ==
    /\ \E scopes \in SUBSET Scopes \ {{}} : IssueApiToken(scopes, FALSE)
    /\ UNCHANGED <<lastUsed, linked, sessionLives, oidcAge, guarded>>

\* The admin session may set an expiry.
CreateAdminToken ==
    /\ \E scopes \in SUBSET Scopes \ {{}}, expires \in BOOLEAN : IssueApiToken(scopes, expires)
    /\ UNCHANGED <<lastUsed, linked, sessionLives, oidcAge, guarded>>

ClockSkewSeconds == 30
MaxIssuedAgeSeconds == 300
OidcLifetimeSeconds == 300

\* exp and iat of the OIDC token, each with the clock skew.
TemporalClaimsAreValid(age) ==
    /\ age < OidcLifetimeSeconds + ClockSkewSeconds
    /\ age <= MaxIssuedAgeSeconds + ClockSkewSeconds /\ age >= -ClockSkewSeconds

(* Issuer, audience, owner, repository, ref and subject are those of an authorized workflow;
   the token is not consumed. *)
ExchangeOidcToken ==
    /\ TemporalClaimsAreValid(oidcAge)
    /\ IssueApiToken({"docs:deploy"}, FALSE)
    /\ UNCHANGED <<lastUsed, linked, sessionLives, oidcAge, guarded>>

\* The CLI login, two steps: the member's row is read, then linked and a token issued.
FindOrganizationUser(c, g) ==
    /\ guarded[c].pc = "idle" /\ linked \in {NoLink, g}
    /\ guarded' = [guarded EXCEPT ![c] = [Idle EXCEPT !.pc = "oauth", !.presents = g, !.row = linked]]
    /\ UNCHANGED <<token, lastUsed, linked, sessionLives, oidcAge>>

\* UPDATE "User" by id: whatever is linked by now.
LinkUser(c) ==
    /\ guarded[c].pc = "oauth"
    /\ linked' = IF guarded[c].row = NoLink THEN guarded[c].presents ELSE linked
    /\ guarded' = [guarded EXCEPT ![c].pc = "oauthLinked"]
    /\ UNCHANGED <<token, lastUsed, sessionLives, oidcAge>>

IssueOauthToken(c) ==
    /\ guarded[c].pc = "oauthLinked"
    /\ IssueApiToken({"docs:deploy"}, FALSE)
    /\ guarded' = [guarded EXCEPT ![c] = Idle]
    /\ UNCHANGED <<lastUsed, linked, sessionLives, oidcAge>>

\* 404 when the token has been revoked; an expired one is revoked all the same.
RevokeToken(p) ==
    /\ token[p].state \in {"live", "expired"}
    /\ token' = [token EXCEPT ![p].state = "revoked"]
    /\ UNCHANGED <<lastUsed, linked, sessionLives, oidcAge, guarded>>
------------------------------------------------------------------------------
(***************************************************************************)
(* The guard.                                                              *)
(***************************************************************************)
\* The call begins; deadAtStart are the tokens that no longer work at that time.
Present(c, credential) ==
    /\ guarded[c].pc = "idle"
    /\ guarded' = [guarded EXCEPT ![c] = [pc |-> "lookup", presents |-> credential, row |-> NoToken,
                                          deadAtStart |-> {p \in Plaintexts : token[p].state \in {"revoked", "expired"}}]]
    /\ UNCHANGED <<token, lastUsed, linked, sessionLives, oidcAge>>

Presented(c) == IF guarded[c].presents \in Plaintexts THEN PrefixOf[guarded[c].presents] ELSE NoToken

FindTokenByPrefix(prefix) == {p \in Plaintexts : IsRow(p) /\ PrefixOf[p] = prefix}

\* Mutant: revokedAt is not looked at.
LookupIgnoringRevocation(c) ==
    /\ guarded[c].pc = "lookup"
    /\ \/ \E p \in FindTokenByPrefix(Presented(c)) :
              /\ token[p].state # "expired"
              /\ guarded' = [guarded EXCEPT ![c].pc = "verify", ![c].row = p]
       \/ /\ ~\E p \in FindTokenByPrefix(Presented(c)) : Valid(p)
          /\ guarded' = [guarded EXCEPT ![c].pc = "session"]
    /\ UNCHANGED <<token, lastUsed, linked, sessionLives, oidcAge>>

\* canActivate: a row of the prefix, neither revoked nor expired.
LookupToken(c) ==
    /\ guarded[c].pc = "lookup"
    /\ \/ \E p \in FindTokenByPrefix(Presented(c)) :
              /\ Valid(p)
              /\ guarded' = [guarded EXCEPT ![c].pc = "verify", ![c].row = p]
       \/ /\ ~\E p \in FindTokenByPrefix(Presented(c)) : Valid(p)
          /\ guarded' = [guarded EXCEPT ![c].pc = "session"]
    /\ UNCHANGED <<token, lastUsed, linked, sessionLives, oidcAge>>

\* argon2; the record is not read again.  lastUsedAt is set later, by a call nobody awaits.
VerifyToken(c) ==
    /\ guarded[c].pc = "verify"
    /\ guarded' = [guarded EXCEPT ![c].pc = IF guarded[c].row = guarded[c].presents THEN "admitted" ELSE "session"]
    /\ UNCHANGED <<token, lastUsed, linked, sessionLives, oidcAge>>

MarkTokenLastUsed(c) ==
    /\ guarded[c].pc = "admitted" /\ guarded[c].row \notin lastUsed
    /\ lastUsed' = lastUsed \union {guarded[c].row}
    /\ UNCHANGED <<token, linked, sessionLives, oidcAge, guarded>>

\* DashboardOrApiTokenGuard: the error of the token is kept when the credential is no session's.
FallBackToSession(c) ==
    /\ guarded[c].pc = "session"
    /\ guarded' = [guarded EXCEPT ![c].pc =
           IF guarded[c].presents = "session" /\ sessionLives THEN "sessionAdmitted" ELSE "refused"]
    /\ UNCHANGED <<token, lastUsed, linked, sessionLives, oidcAge>>

\* createDeploy asks for the scope; a session has every scope.
RequireDeployScope(c) ==
    /\ guarded[c].pc \in {"admitted", "sessionAdmitted"}
    /\ guarded' = [guarded EXCEPT ![c].pc =
           IF @ = "admitted" /\ "docs:deploy" \notin token[guarded[c].row].scopes THEN "refused" ELSE "deploys"]
    /\ UNCHANGED <<token, lastUsed, linked, sessionLives, oidcAge>>

EndGuarded(c) ==
    /\ guarded[c].pc \in {"admitted", "sessionAdmitted", "refused", "deploys", "oauth", "oauthLinked"}
    /\ guarded' = [guarded EXCEPT ![c] = Idle]
    /\ UNCHANGED <<token, lastUsed, linked, sessionLives, oidcAge>>
------------------------------------------------------------------------------
TokenExpires(p) ==
    /\ Valid(p) /\ token[p].expires
    /\ token' = [token EXCEPT ![p].state = "expired"]
    /\ UNCHANGED <<lastUsed, linked, sessionLives, oidcAge, guarded>>

SessionEnds ==
    /\ sessionLives' = FALSE
    /\ UNCHANGED <<token, lastUsed, linked, oidcAge, guarded>>

OidcAges ==
    /\ oidcAge < 330 /\ oidcAge' \in {a \in {299, 330} : a > oidcAge}
    /\ UNCHANGED <<token, lastUsed, linked, sessionLives, guarded>>

TokenInit ==
    /\ token = [p \in Plaintexts |-> NoTokenRow] /\ lastUsed = {}
    /\ linked = NoLink /\ sessionLives = TRUE /\ oidcAge = 0
    /\ guarded = [c \in GuardedCalls |-> Idle]

Issue == CreateDashboardToken \/ CreateAdminToken \/ ExchangeOidcToken

CliLogin(c) == LinkUser(c) \/ IssueOauthToken(c) \/ \E g \in GithubUsers : FindOrganizationUser(c, g)

Guard(c) ==
    \/ \E credential \in Plaintexts \union {"session"} : Present(c, credential)
    \/ LookupToken(c) \/ VerifyToken(c) \/ MarkTokenLastUsed(c) \/ FallBackToSession(c)
    \/ RequireDeployScope(c) \/ EndGuarded(c)

TokenNext ==
    \/ Issue \/ SessionEnds \/ OidcAges
    \/ \E p \in Plaintexts : RevokeToken(p) \/ TokenExpires(p)
    \/ \E c \in GuardedCalls : CliLogin(c) \/ Guard(c)

TokenSpec == TokenInit /\ [][TokenNext]_tokenVars
------------------------------------------------------------------------------
(* Every variable stays in its range, and a prefix has one row. *)
TokenTypeOK ==
    /\ token \in [Plaintexts -> [state : {"none", "live", "revoked", "expired"},
                                 scopes : SUBSET Scopes, expires : BOOLEAN]]
    /\ \A p, q \in Plaintexts : IsRow(p) /\ IsRow(q) /\ PrefixOf[p] = PrefixOf[q] => p = q
    /\ lastUsed \subseteq Plaintexts /\ linked \in GithubUsers \union {NoLink}
    /\ sessionLives \in BOOLEAN /\ oidcAge \in Int
    /\ guarded \in [GuardedCalls -> [pc : {"idle", "oauth", "oauthLinked", "lookup", "verify", "session", "admitted",
                                           "sessionAdmitted", "refused", "deploys"},
                                     presents : Plaintexts \union GithubUsers \union {"session", NoToken},
                                     row : Plaintexts \union GithubUsers \union {NoToken, NoLink},
                                     deadAtStart : SUBSET Plaintexts]]

(* A call that begins after a token was revoked or expired is not admitted by it, and no call
   is admitted by another token than the one it presents, though the guard looks rows up by
   prefix and reads them once, before it verifies the hash (api-token.guard.ts:21-40). *)
RevokedTokensStopWorking ==
    \A c \in GuardedCalls : guarded[c].pc = "admitted" =>
        guarded[c].row = guarded[c].presents /\ guarded[c].row \notin guarded[c].deadAtStart
=============================================================================
