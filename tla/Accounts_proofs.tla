--------------------------- MODULE Accounts_proofs ---------------------------
(***************************************************************************)
(* Proofs about who may act: API tokens, memberships and dashboard         *)
(* sessions, three components that share no state.                         *)
(***************************************************************************)
EXTENDS ApiTokens, Membership, DashboardSessions, FiniteSetTheorems, TLAPS

(***************************************************************************)
(* A revoked or expired token admits no call that begins afterwards, for   *)
(* any tokens, prefixes and number of calls under way.                     *)
(***************************************************************************)
GuardStates == {"idle", "oauth", "oauthLinked", "lookup", "verify", "session", "admitted",
                "sessionAdmitted", "refused", "deploys"}
GuardedType == [pc : GuardStates,
                presents : Plaintexts \union GithubUsers \union {"session", NoToken},
                row : Plaintexts \union GithubUsers \union {NoToken, NoLink},
                deadAtStart : SUBSET Plaintexts]
TokenRows == [state : {"none", "live", "revoked", "expired"}, scopes : SUBSET Scopes, expires : BOOLEAN]

Dead(p) == token[p].state \in {"revoked", "expired"}

\* What was dead when a call began is dead still.
DeadStaysDead == \A c \in GuardedCalls : \A p \in guarded[c].deadAtStart : Dead(p)

\* The row that the lookup has found worked at that time, and the login presents an account.
LookedUp ==
    \A c \in GuardedCalls :
        /\ guarded[c].pc \in {"verify", "admitted"} =>
               guarded[c].row \in Plaintexts /\ guarded[c].row \notin guarded[c].deadAtStart
        /\ guarded[c].pc = "admitted" => guarded[c].row = guarded[c].presents
        /\ guarded[c].pc \in {"oauth", "oauthLinked"} => guarded[c].presents \in GithubUsers

TokenInv == TokenTypeOK /\ DeadStaysDead /\ LookedUp
------------------------------------------------------------------------------
\* No token has been issued, and no call is under way.
LEMMA TokenInitHolds == TokenInit => TokenInv
  BY ScopesAssumption, PrefixAssumption
     DEF TokenInit, TokenInv, TokenTypeOK, DeadStaysDead, LookedUp, NoTokenRow, Idle, IsRow

\* A token is issued: no row that exists changes, and none has the new one's prefix.
LEMMA IssueKeepsRows ==
    ASSUME TokenInv, NEW scopes \in SUBSET Scopes, NEW expires \in BOOLEAN, IssueApiToken(scopes, expires)
    PROVE  /\ token' \in [Plaintexts -> TokenRows]
           /\ \A p, q \in Plaintexts : IsRow(p)' /\ IsRow(q)' /\ PrefixOf[p] = PrefixOf[q] => p = q
           /\ \A p \in Plaintexts : Dead(p) => Dead(p)'
  <1>1. PICK n \in Plaintexts :
            /\ \A q \in Plaintexts : IsRow(q) => PrefixOf[q] # PrefixOf[n]
            /\ token' = [token EXCEPT ![n] = [state |-> "live", scopes |-> scopes, expires |-> expires]]
    BY DEF IssueApiToken
  <1>2. token \in [Plaintexts -> TokenRows]
    BY DEF TokenInv, TokenTypeOK, TokenRows
  <1>3. token' \in [Plaintexts -> TokenRows]
    BY <1>1, <1>2 DEF TokenRows
  <1>4. \A p \in Plaintexts : p # n => token'[p] = token[p]
    BY <1>1, <1>2
  <1>5. ~IsRow(n)
    BY <1>1
  <1>6. \A p, q \in Plaintexts : IsRow(p)' /\ IsRow(q)' /\ PrefixOf[p] = PrefixOf[q] => p = q
    <2> SUFFICES ASSUME NEW p \in Plaintexts, NEW q \in Plaintexts, IsRow(p)', IsRow(q)', PrefixOf[p] = PrefixOf[q], p # q
                 PROVE  FALSE
      OBVIOUS
    <2>1. CASE p = n
      BY <2>1, <1>1, <1>4 DEF IsRow
    <2>2. CASE q = n
      BY <2>2, <1>1, <1>4 DEF IsRow
    <2>3. CASE p # n /\ q # n
      BY <2>3, <1>4 DEF IsRow, TokenInv, TokenTypeOK
    <2> QED BY <2>1, <2>2, <2>3
  <1>7. \A p \in Plaintexts : Dead(p) => Dead(p)'
    BY <1>4, <1>5 DEF Dead, IsRow
  <1> QED BY <1>3, <1>6, <1>7

\* A token is revoked or expires.
LEMMA EndKeepsRows ==
    ASSUME TokenInv, NEW p \in Plaintexts, NEW s \in {"revoked", "expired"}, IsRow(p),
           token' = [token EXCEPT ![p].state = s]
    PROVE  /\ token' \in [Plaintexts -> TokenRows]
           /\ \A x, y \in Plaintexts : IsRow(x)' /\ IsRow(y)' /\ PrefixOf[x] = PrefixOf[y] => x = y
           /\ \A q \in Plaintexts : Dead(q) => Dead(q)'
  <1>1. token \in [Plaintexts -> TokenRows]
    BY DEF TokenInv, TokenTypeOK, TokenRows
  <1>2. token' \in [Plaintexts -> TokenRows] /\ token'[p].state = s
    BY <1>1 DEF TokenRows
  <1>3. \A q \in Plaintexts : q # p => token'[q] = token[q]
    BY <1>1
  <1>4. \A q \in Plaintexts : IsRow(q)' => IsRow(q)
    BY <1>3 DEF IsRow
  <1> QED BY <1>2, <1>3, <1>4 DEF Dead, IsRow, TokenInv, TokenTypeOK

\* While the rows change and the calls do not, the invariant is kept.
LEMMA RowsChange ==
    ASSUME TokenInv, token' \in [Plaintexts -> TokenRows],
           \A p, q \in Plaintexts : IsRow(p)' /\ IsRow(q)' /\ PrefixOf[p] = PrefixOf[q] => p = q,
           \A p \in Plaintexts : Dead(p) => Dead(p)',
           UNCHANGED <<lastUsed, linked, sessionLives, oidcAge, guarded>>
    PROVE  TokenInv'
  <1>1. TokenTypeOK'
    BY DEF TokenInv, TokenTypeOK, TokenRows
  <1>2. DeadStaysDead'
    <2> SUFFICES ASSUME NEW c \in GuardedCalls, NEW p \in guarded[c].deadAtStart PROVE Dead(p)'
      BY DEF DeadStaysDead
    <2>1. guarded[c].deadAtStart \subseteq Plaintexts
      BY DEF TokenInv, TokenTypeOK
    <2> QED BY <2>1 DEF TokenInv, DeadStaysDead
  <1>3. LookedUp'
    BY DEF TokenInv, LookedUp
  <1> QED BY <1>1, <1>2, <1>3 DEF TokenInv

\* A call moves on, the rows do not change.
LEMMA CallMoves ==
    ASSUME TokenInv, NEW c \in GuardedCalls, NEW g \in GuardedType,
           guarded' = [guarded EXCEPT ![c] = g], UNCHANGED token,
           lastUsed' \subseteq Plaintexts, linked' \in GithubUsers \union {NoLink},
           UNCHANGED <<sessionLives, oidcAge>>,
           \A p \in g.deadAtStart : Dead(p),
           g.pc \in {"verify", "admitted"} => g.row \in Plaintexts /\ g.row \notin g.deadAtStart,
           g.pc = "admitted" => g.row = g.presents,
           g.pc \in {"oauth", "oauthLinked"} => g.presents \in GithubUsers
    PROVE  TokenInv'
  <1>1. guarded \in [GuardedCalls -> GuardedType]
    BY DEF TokenInv, TokenTypeOK, GuardedType, GuardStates
  <1>2. guarded' \in [GuardedCalls -> GuardedType] /\ guarded'[c] = g
    BY <1>1
  <1>3. \A d \in GuardedCalls : d # c => guarded'[d] = guarded[d]
    BY <1>1
  <1>4. TokenTypeOK'
    BY <1>2 DEF TokenInv, TokenTypeOK, IsRow, GuardedType, GuardStates
  <1>5. DeadStaysDead'
    BY <1>2, <1>3 DEF TokenInv, DeadStaysDead, Dead
  <1>6. LookedUp'
    BY <1>2, <1>3 DEF TokenInv, LookedUp
  <1> QED BY <1>4, <1>5, <1>6 DEF TokenInv

\* Issuing, revoking and expiry keep the invariant.
LEMMA RowActions ==
    ASSUME TokenInv, Issue \/ SessionEnds \/ OidcAges \/ \E p \in Plaintexts : RevokeToken(p) \/ TokenExpires(p)
    PROVE  TokenInv'
  <1>1. ASSUME NEW scopes \in SUBSET Scopes, NEW expires \in BOOLEAN, IssueApiToken(scopes, expires),
               UNCHANGED <<lastUsed, linked, sessionLives, oidcAge, guarded>>
        PROVE  TokenInv'
    BY <1>1, IssueKeepsRows, RowsChange
  <1>2. CASE CreateDashboardToken
    BY <1>2, <1>1 DEF CreateDashboardToken
  <1>3. CASE CreateAdminToken
    BY <1>3, <1>1 DEF CreateAdminToken
  <1>4. CASE ExchangeOidcToken
    <2>1. {"docs:deploy"} \in SUBSET Scopes
      BY ScopesAssumption
    <2> QED BY <1>4, <2>1, <1>1 DEF ExchangeOidcToken
  <1>5. CASE SessionEnds
    BY <1>5 DEF SessionEnds, TokenInv, TokenTypeOK, DeadStaysDead, Dead, LookedUp, IsRow
  <1>6. CASE OidcAges
    BY <1>6 DEF OidcAges, TokenInv, TokenTypeOK, DeadStaysDead, Dead, LookedUp, IsRow
  <1>7. ASSUME NEW p \in Plaintexts, RevokeToken(p) PROVE TokenInv'
    <2>1. IsRow(p) /\ token' = [token EXCEPT ![p].state = "revoked"]
      BY <1>7 DEF RevokeToken, IsRow
    <2>2. UNCHANGED <<lastUsed, linked, sessionLives, oidcAge, guarded>>
      BY <1>7 DEF RevokeToken
    <2> QED BY <2>1, <2>2, EndKeepsRows, RowsChange
  <1>8. ASSUME NEW p \in Plaintexts, TokenExpires(p) PROVE TokenInv'
    <2>1. IsRow(p) /\ token' = [token EXCEPT ![p].state = "expired"]
      BY <1>8 DEF TokenExpires, Valid, IsRow
    <2>2. UNCHANGED <<lastUsed, linked, sessionLives, oidcAge, guarded>>
      BY <1>8 DEF TokenExpires
    <2> QED BY <2>1, <2>2, EndKeepsRows, RowsChange
  <1> QED BY <1>2, <1>3, <1>4, <1>5, <1>6, <1>7, <1>8 DEF Issue

\* The command line's login keeps it: its last step issues a token and ends the call.
LEMMA LoginActions ==
    ASSUME TokenInv, NEW c \in GuardedCalls, CliLogin(c)
    PROVE  TokenInv'
  <1>1. guarded \in [GuardedCalls -> GuardedType] /\ lastUsed \subseteq Plaintexts /\ linked \in GithubUsers \union {NoLink}
    BY DEF TokenInv, TokenTypeOK, GuardedType, GuardStates
  <1>2. \A p \in guarded[c].deadAtStart : Dead(p)
    BY DEF TokenInv, DeadStaysDead
  <1>3. Idle \in GuardedType /\ Idle.pc = "idle" /\ Idle.deadAtStart = {}
    BY DEF Idle, GuardedType, GuardStates
  <1>4. ASSUME NEW g \in GithubUsers, FindOrganizationUser(c, g) PROVE TokenInv'
    <2> DEFINE n == [Idle EXCEPT !.pc = "oauth", !.presents = g, !.row = linked]
    <2>1. n \in GuardedType /\ n.pc = "oauth" /\ n.presents = g /\ n.deadAtStart = {}
      BY <1>1 DEF Idle, GuardedType, GuardStates
    <2>2. guarded' = [guarded EXCEPT ![c] = n] /\ UNCHANGED <<token, lastUsed, linked, sessionLives, oidcAge>>
      BY <1>4 DEF FindOrganizationUser
    <2> HIDE DEF n
    <2> QED BY <2>1, <2>2, <1>1, CallMoves
  <1>5. CASE LinkUser(c)
    <2> DEFINE n == [guarded[c] EXCEPT !.pc = "oauthLinked"]
    <2>1. guarded[c] \in GuardedType /\ guarded[c].presents \in GithubUsers
      BY <1>1, <1>5 DEF LinkUser, TokenInv, LookedUp
    <2>2. n \in GuardedType /\ n.pc = "oauthLinked" /\ n.presents = guarded[c].presents /\ n.deadAtStart = guarded[c].deadAtStart
      BY <2>1 DEF GuardedType, GuardStates
    <2>3. guarded' = [guarded EXCEPT ![c] = n] /\ linked' \in GithubUsers \union {NoLink}
          /\ UNCHANGED <<token, lastUsed, sessionLives, oidcAge>>
      BY <1>1, <1>5, <2>1 DEF LinkUser
    <2> HIDE DEF n
    <2> QED BY <2>1, <2>2, <2>3, <1>1, <1>2, CallMoves
  <1>6. CASE IssueOauthToken(c)
    <2>1. {"docs:deploy"} \in SUBSET Scopes /\ IssueApiToken({"docs:deploy"}, FALSE)
      BY <1>6, ScopesAssumption DEF IssueOauthToken
    <2>2. /\ token' \in [Plaintexts -> TokenRows]
          /\ \A p, q \in Plaintexts : IsRow(p)' /\ IsRow(q)' /\ PrefixOf[p] = PrefixOf[q] => p = q
          /\ \A p \in Plaintexts : Dead(p) => Dead(p)'
      BY <2>1, IssueKeepsRows
    <2>3. guarded' = [guarded EXCEPT ![c] = Idle] /\ UNCHANGED <<lastUsed, linked, sessionLives, oidcAge>>
      BY <1>6 DEF IssueOauthToken
    <2>4. guarded' \in [GuardedCalls -> GuardedType] /\ guarded'[c] = Idle
      BY <1>1, <1>3, <2>3
    <2>5. \A d \in GuardedCalls : d # c => guarded'[d] = guarded[d]
      BY <1>1, <2>3
    <2>6. TokenTypeOK'
      BY <2>2, <2>3, <2>4 DEF TokenInv, TokenTypeOK, TokenRows, GuardedType, GuardStates
    <2>7. DeadStaysDead'
      <3> SUFFICES ASSUME NEW d \in GuardedCalls, NEW p \in guarded'[d].deadAtStart PROVE Dead(p)'
        BY DEF DeadStaysDead
      <3>1. d # c /\ p \in guarded[d].deadAtStart /\ guarded[d].deadAtStart \subseteq Plaintexts
        BY <2>4, <2>5, <1>1, <1>3 DEF GuardedType
      <3> QED BY <3>1, <2>2 DEF TokenInv, DeadStaysDead
    <2>8. LookedUp'
      BY <2>4, <2>5, <1>3 DEF TokenInv, LookedUp
    <2> QED BY <2>6, <2>7, <2>8 DEF TokenInv
  <1> QED BY <1>4, <1>5, <1>6 DEF CliLogin

\* A step of the guard keeps it.
LEMMA GuardActions ==
    ASSUME TokenInv, NEW c \in GuardedCalls, Guard(c)
    PROVE  TokenInv'
  <1>1. guarded \in [GuardedCalls -> GuardedType] /\ guarded[c] \in GuardedType
        /\ lastUsed \subseteq Plaintexts /\ linked \in GithubUsers \union {NoLink}
    BY DEF TokenInv, TokenTypeOK, GuardedType, GuardStates
  <1>2. \A p \in guarded[c].deadAtStart : Dead(p)
    BY DEF TokenInv, DeadStaysDead
  <1>3. ASSUME NEW s \in {"session", "refused", "sessionAdmitted", "deploys"}, guarded' = [guarded EXCEPT ![c].pc = s],
               UNCHANGED <<token, lastUsed, linked, sessionLives, oidcAge>>
        PROVE  TokenInv'
    <2> DEFINE n == [guarded[c] EXCEPT !.pc = s]
    <2>1. n \in GuardedType /\ n.pc = s /\ n.deadAtStart = guarded[c].deadAtStart
      BY <1>1 DEF GuardedType, GuardStates
    <2>2. guarded' = [guarded EXCEPT ![c] = n]
      BY <1>3
    <2> HIDE DEF n
    <2> QED BY <1>1, <1>2, <1>3, <2>1, <2>2, CallMoves
  <1>4. ASSUME NEW credential \in Plaintexts \union {"session"}, Present(c, credential) PROVE TokenInv'
    <2> DEFINE n == [pc |-> "lookup", presents |-> credential, row |-> NoToken,
                     deadAtStart |-> {p \in Plaintexts : token[p].state \in {"revoked", "expired"}}]
    <2>1. n \in GuardedType /\ n.pc = "lookup" /\ \A p \in n.deadAtStart : Dead(p)
      BY DEF GuardedType, GuardStates, Dead
    <2>2. guarded' = [guarded EXCEPT ![c] = n] /\ UNCHANGED <<token, lastUsed, linked, sessionLives, oidcAge>>
      BY <1>4 DEF Present
    <2> HIDE DEF n
    <2> QED BY <1>1, <2>1, <2>2, CallMoves
  <1>5. CASE LookupToken(c)
    <2>1. CASE guarded' = [guarded EXCEPT ![c].pc = "session"]
      BY <1>3, <1>5, <2>1 DEF LookupToken
    <2>2. ASSUME NEW p \in FindTokenByPrefix(Presented(c)), Valid(p),
                 guarded' = [guarded EXCEPT ![c].pc = "verify", ![c].row = p]
          PROVE  TokenInv'
      <3> DEFINE n == [guarded[c] EXCEPT !.pc = "verify", !.row = p]
      <3>1. p \in Plaintexts /\ p \notin guarded[c].deadAtStart
        BY <2>2, <1>2 DEF FindTokenByPrefix, Valid, Dead
      <3>2. n \in GuardedType /\ n.pc = "verify" /\ n.row = p /\ n.deadAtStart = guarded[c].deadAtStart
        BY <1>1, <3>1 DEF GuardedType, GuardStates
      <3>3. guarded' = [guarded EXCEPT ![c] = n] /\ UNCHANGED <<token, lastUsed, linked, sessionLives, oidcAge>>
        BY <1>1, <1>5, <2>2 DEF LookupToken, GuardedType
      <3> HIDE DEF n
      <3> QED BY <1>1, <1>2, <3>1, <3>2, <3>3, CallMoves
    <2> QED BY <1>5, <2>1, <2>2 DEF LookupToken
  <1>6. CASE VerifyToken(c)
    <2>1. CASE guarded[c].row = guarded[c].presents
      <3> DEFINE n == [guarded[c] EXCEPT !.pc = "admitted"]
      <3>1. n \in GuardedType /\ n.pc = "admitted" /\ n.row = guarded[c].row /\ n.presents = guarded[c].presents
            /\ n.deadAtStart = guarded[c].deadAtStart
        BY <1>1 DEF GuardedType, GuardStates
      <3>2. guarded' = [guarded EXCEPT ![c] = n] /\ UNCHANGED <<token, lastUsed, linked, sessionLives, oidcAge>>
        BY <1>6, <2>1 DEF VerifyToken
      <3>3. guarded[c].row \in Plaintexts /\ guarded[c].row \notin guarded[c].deadAtStart
        BY <1>6 DEF VerifyToken, TokenInv, LookedUp
      <3> HIDE DEF n
      <3> QED BY <1>1, <1>2, <2>1, <3>1, <3>2, <3>3, CallMoves
    <2>2. CASE guarded[c].row # guarded[c].presents
      BY <1>3, <1>6, <2>2 DEF VerifyToken
    <2> QED BY <2>1, <2>2
  <1>7. CASE MarkTokenLastUsed(c)
    <2>1. guarded[c].row \in Plaintexts
      BY <1>7 DEF MarkTokenLastUsed, TokenInv, LookedUp
    <2> QED BY <1>7, <2>1 DEF MarkTokenLastUsed, TokenInv, TokenTypeOK, DeadStaysDead, Dead, LookedUp, IsRow
  <1>8. CASE FallBackToSession(c)
    BY <1>3, <1>8 DEF FallBackToSession
  <1>9. CASE RequireDeployScope(c)
    <2>1. guarded' = [guarded EXCEPT ![c].pc = "refused"] \/ guarded' = [guarded EXCEPT ![c].pc = "deploys"]
      BY <1>9 DEF RequireDeployScope
    <2> QED BY <1>3, <1>9, <2>1 DEF RequireDeployScope
  <1>10. CASE EndGuarded(c)
    <2>1. Idle \in GuardedType /\ Idle.pc = "idle" /\ Idle.deadAtStart = {}
      BY DEF Idle, GuardedType, GuardStates
    <2> QED BY <1>1, <1>10, <2>1, CallMoves DEF EndGuarded
  <1> QED BY <1>4, <1>5, <1>6, <1>7, <1>8, <1>9, <1>10 DEF Guard

\* Every step keeps the invariant.
LEMMA TokenStepHolds == TokenInv /\ [TokenNext]_tokenVars => TokenInv'
  <1> SUFFICES ASSUME TokenInv, [TokenNext]_tokenVars PROVE TokenInv'
    OBVIOUS
  <1>1. CASE UNCHANGED tokenVars
    BY <1>1 DEF tokenVars, TokenInv, TokenTypeOK, DeadStaysDead, Dead, LookedUp, IsRow
  <1>2. CASE TokenNext
    BY <1>2, RowActions, LoginActions, GuardActions DEF TokenNext
  <1> QED BY <1>1, <1>2

(* The tables and the calls keep their types: no two rows ever share a prefix, whatever of the
   four ways issued them. *)
THEOREM TokensTypeCorrect == TokenSpec => []TokenTypeOK
  <1>1. TokenInv => TokenTypeOK
    BY DEF TokenInv
  <1> QED BY <1>1, TokenInitHolds, TokenStepHolds, PTL DEF TokenSpec

(* A call that begins after its token was revoked or expired is not admitted by it, for any
   number of tokens, of calls and of collisions of prefixes: what was dead when the call began
   stays dead, since no plaintext is issued twice, and the lookup finds a live row only. *)
THEOREM RevokedTokensStopWorkingHolds == TokenSpec => []RevokedTokensStopWorking
  <1>1. TokenInv => RevokedTokensStopWorking
    BY DEF TokenInv, LookedUp, RevokedTokensStopWorking
  <1> QED BY <1>1, TokenInitHolds, TokenStepHolds, PTL DEF TokenSpec
------------------------------------------------------------------------------
(***************************************************************************)
(* An invite admits one person and none once it was revoked, but for test  *)
(* tokens and for token calls whose claim is raced: for any invites, users *)
(* and calls under way.                                                    *)
(***************************************************************************)
CommitCalls == [pc : {"commit"}, user : Users, invite : Invites]
TokenCalls == [pc : {"claim", "join"}, user : Users, invite : Invites, saw : InviteRows]
CallType == {NoCall, [pc |-> "manage"]} \union CommitCalls \union TokenCalls

OpenRow(row) == row.exists /\ ~row.expired /\ ~row.revoked /\ row.acceptedBy = NoUser

DueRow(i, row) == row.exists /\ ~row.expired /\ ~row.revoked /\ (row.acceptedBy = NoUser \/ i \in TestInvites)

\* A dashboard call holds the row that it has checked, alone.
CommitsHoldRows ==
    /\ \A c \in MemberCalls : Calling(c, "commit") =>
           memberCall[c].invite \in Invites /\ DueRow(memberCall[c].invite, invite[memberCall[c].invite])
    /\ \A c, d \in MemberCalls :
           Calling(c, "commit") /\ Calling(d, "commit") /\ memberCall[c].invite = memberCall[d].invite => c = d

\* What a token call saw was open, and rows do not go away.
ClaimsSawOpenRows ==
    \A c \in MemberCalls : Calling(c, "claim") => OpenRow(memberCall[c].saw) /\ invite[memberCall[c].invite].exists

\* The row tells whether somebody was admitted.
RowTellsAdmitted ==
    \A i \in Invites : invite[i].acceptedBy = NoUser <=> admitted[i] = {}

\* An invite that was not created has no acceptor.
UncreatedIsUnused == \A i \in Invites : ~invite[i].exists => invite[i].acceptedBy = NoUser

\* What a step that admits somebody may do.
AdmitsOnce ==
    \A i \in Invites : admitted'[i] # admitted[i] =>
        \/ ~invite[i].revoked /\ (admitted[i] = {} \/ i \in TestInvites)
        \/ ClaimRaced(i)

MemberInv == MemberTypeOK /\ CommitsHoldRows /\ ClaimsSawOpenRows /\ RowTellsAdmitted /\ UncreatedIsUnused
------------------------------------------------------------------------------
\* The founder is the only member, only seeded invites exist and nobody has accepted one.
LEMMA MemberInitHolds == MemberInit => MemberInv
  <1> SUFFICES ASSUME MemberInit PROVE MemberInv
    OBVIOUS
  <1>5. PICK seeded \in SUBSET TestInvites, role \in Roles :
            invite = [i \in Invites |-> IF i \in seeded THEN CreatedRow(role) ELSE NoInviteRow]
    BY DEF MemberInit
  <1>6. ASSUME NEW i \in Invites PROVE invite[i] \in InviteRows /\ invite[i].acceptedBy = NoUser
    <2>1. NoInviteRow \in InviteRows /\ NoInviteRow.acceptedBy = NoUser
      BY RolesAssumption DEF NoInviteRow, InviteRows
    <2> QED BY <1>5, <2>1 DEF CreatedRow, InviteRows
  <1>7. invite \in [Invites -> InviteRows]
    BY <1>5, <1>6
  <1>1. MemberTypeOK
    BY <1>7, FounderAssumption, RolesAssumption DEF MemberInit, MemberTypeOK
  <1>2. \A c \in MemberCalls : memberCall[c].pc = "idle"
    BY DEF MemberInit, NoCall
  <1>3. CommitsHoldRows /\ ClaimsSawOpenRows
    BY <1>2 DEF CommitsHoldRows, ClaimsSawOpenRows, Calling
  <1>4. RowTellsAdmitted /\ UncreatedIsUnused
    BY <1>6 DEF MemberInit, RowTellsAdmitted, UncreatedIsUnused
  <1> QED BY <1>1, <1>3, <1>4 DEF MemberInv

\* What a call holds, by where it stands.
LEMMA CallHolds ==
    ASSUME MemberInv, NEW c \in MemberCalls
    PROVE  /\ memberCall \in [MemberCalls -> CallType]
           /\ Calling(c, "commit") => memberCall[c] \in CommitCalls
           /\ Calling(c, "claim") \/ Calling(c, "join") => memberCall[c] \in TokenCalls
  <1>1. memberCall \in [MemberCalls -> CallType]
    BY DEF MemberInv, MemberTypeOK, CallType, CommitCalls, TokenCalls
  <1>2. memberCall[c] \in CallType
    BY <1>1
  <1> QED BY <1>1, <1>2 DEF CallType, CommitCalls, TokenCalls, Calling, NoCall

\* A call ends, or starts to manage; members may change, the invites do not.
LEMMA InvitesStay ==
    ASSUME MemberInv, NEW c \in MemberCalls, NEW k \in {NoCall, [pc |-> "manage"]},
           memberCall' = [memberCall EXCEPT ![c] = k], UNCHANGED <<invite, admitted>>,
           member' \in [Users -> Roles \union {"none"}]
    PROVE  MemberInv'
  <1>1. memberCall \in [MemberCalls -> CallType]
    BY CallHolds DEF MemberInv
  <1>2. k \in CallType /\ k.pc \notin {"commit", "claim"}
    BY DEF CallType, NoCall
  <1>3. memberCall' \in [MemberCalls -> CallType] /\ memberCall'[c] = k
        /\ \A d \in MemberCalls : d # c => memberCall'[d] = memberCall[d]
    BY <1>1, <1>2
  <1>4. MemberTypeOK'
    BY <1>3 DEF MemberInv, MemberTypeOK, CallType, CommitCalls, TokenCalls
  <1>5. CommitsHoldRows'
    BY <1>2, <1>3 DEF MemberInv, CommitsHoldRows, Calling
  <1>6. ClaimsSawOpenRows'
    BY <1>2, <1>3 DEF MemberInv, ClaimsSawOpenRows, Calling
  <1>7. RowTellsAdmitted' /\ UncreatedIsUnused'
    BY DEF MemberInv, RowTellsAdmitted, UncreatedIsUnused
  <1> QED BY <1>4, <1>5, <1>6, <1>7 DEF MemberInv

\* The row of an invite that no dashboard call holds changes; its acceptor does not.
LEMMA UnheldRowChanges ==
    ASSUME MemberInv, NEW i \in Invites, NEW row \in InviteRows, ~InviteLocked(i),
           invite' = [invite EXCEPT ![i] = row], row.exists, row.acceptedBy = invite[i].acceptedBy,
           memberCall' \in [MemberCalls -> CallType],
           \A c \in MemberCalls : memberCall'[c] = memberCall[c] \/ memberCall'[c] = NoCall,
           UNCHANGED <<member, admitted>>
    PROVE  MemberInv'
  <1>1. invite \in [Invites -> InviteRows] /\ invite' \in [Invites -> InviteRows] /\ invite'[i] = row
        /\ \A j \in Invites : j # i => invite'[j] = invite[j]
    BY DEF MemberInv, MemberTypeOK
  <1>2. MemberTypeOK'
    BY <1>1 DEF MemberInv, MemberTypeOK, CallType, CommitCalls, TokenCalls
  <1>3. \A c \in MemberCalls : \A pc \in {"commit", "claim"} : Calling(c, pc)' => memberCall'[c] = memberCall[c] /\ Calling(c, pc)
    BY DEF Calling, NoCall
  <1>4. CommitsHoldRows'
    <2>1. ASSUME NEW c \in MemberCalls, Calling(c, "commit")'
          PROVE  memberCall'[c].invite \in Invites /\ DueRow(memberCall'[c].invite, invite'[memberCall'[c].invite])
      <3>1. Calling(c, "commit") /\ memberCall'[c] = memberCall[c]
        BY <2>1, <1>3
      <3>2. memberCall[c].invite # i
        BY <3>1 DEF InviteLocked
      <3> QED BY <3>1, <3>2, <1>1 DEF MemberInv, CommitsHoldRows
    <2>2. ASSUME NEW c \in MemberCalls, NEW d \in MemberCalls, Calling(c, "commit")', Calling(d, "commit")',
                 memberCall'[c].invite = memberCall'[d].invite
          PROVE  c = d
      BY <2>2, <1>3 DEF MemberInv, CommitsHoldRows
    <2> QED BY <2>1, <2>2 DEF CommitsHoldRows
  <1>5. ClaimsSawOpenRows'
    BY <1>1, <1>3 DEF MemberInv, ClaimsSawOpenRows
  <1>6. RowTellsAdmitted' /\ UncreatedIsUnused'
    BY <1>1 DEF MemberInv, RowTellsAdmitted, UncreatedIsUnused
  <1> QED BY <1>2, <1>4, <1>5, <1>6 DEF MemberInv

\* Managing members and invites keeps the invariant.
LEMMA ManageKeeps ==
    ASSUME MemberInv, NEW c \in MemberCalls, Manage(c)
    PROVE  MemberInv'
  <1>1. /\ member \in [Users -> Roles \union {"none"}] /\ invite \in [Invites -> InviteRows]
        /\ memberCall \in [MemberCalls -> CallType]
    BY CallHolds DEF MemberInv, MemberTypeOK
  <1>2. ASSUME NEW u \in Users, RequireManager(c, u) PROVE MemberInv'
    BY <1>1, <1>2, InvitesStay DEF RequireManager
  <1>3. ASSUME NEW role \in Roles, RequireManageAuth(c, role) PROVE MemberInv'
    BY <1>1, <1>3, InvitesStay DEF RequireManageAuth
  <1>4. ASSUME NEW u \in Users, NEW role \in Roles, UpdateMemberRole(c, u, role) PROVE MemberInv'
    BY <1>1, <1>4, InvitesStay DEF UpdateMemberRole, EndCall
  <1>5. ASSUME NEW u \in Users, DeleteMember(c, u) PROVE MemberInv'
    BY <1>1, <1>5, InvitesStay DEF DeleteMember, EndCall
  <1>6. memberCall' = [memberCall EXCEPT ![c] = NoCall]
            => /\ memberCall' \in [MemberCalls -> CallType]
               /\ \A d \in MemberCalls : memberCall'[d] = memberCall[d] \/ memberCall'[d] = NoCall
    BY <1>1 DEF CallType
  <1>7. ASSUME NEW i \in Invites, NEW role \in Roles, CreateInvite(c, i, role) PROVE MemberInv'
    <2> DEFINE row == CreatedRow(role)
    <2>1. row \in InviteRows /\ row.exists /\ row.acceptedBy = NoUser
      BY DEF CreatedRow, NoInviteRow, InviteRows
    <2>2. ~invite[i].exists /\ invite[i].acceptedBy = NoUser
      BY <1>7 DEF CreateInvite, MemberInv, UncreatedIsUnused
    <2>3. ~InviteLocked(i)
      BY <2>2 DEF InviteLocked, MemberInv, CommitsHoldRows, DueRow
    <2>4. invite' = [invite EXCEPT ![i] = row] /\ memberCall' = [memberCall EXCEPT ![c] = NoCall]
          /\ UNCHANGED <<member, admitted>>
      BY <1>7 DEF CreateInvite, EndCall
    <2> HIDE DEF row
    <2> QED BY <1>6, <2>1, <2>2, <2>3, <2>4, UnheldRowChanges
  <1>8. ASSUME NEW i \in Invites, DeleteInvite(c, i) PROVE MemberInv'
    <2> DEFINE row == [invite[i] EXCEPT !.revoked = TRUE]
    <2>1. invite[i].exists /\ invite[i] \in InviteRows
      BY <1>1, <1>8 DEF DeleteInvite
    <2>2. row \in InviteRows /\ row.exists /\ row.acceptedBy = invite[i].acceptedBy
      BY <2>1 DEF InviteRows
    <2>3. invite' = [invite EXCEPT ![i] = row] /\ memberCall' = [memberCall EXCEPT ![c] = NoCall]
          /\ UNCHANGED <<member, admitted>> /\ ~InviteLocked(i)
      BY <1>8 DEF DeleteInvite, EndCall
    <2> HIDE DEF row
    <2> QED BY <1>6, <2>2, <2>3, UnheldRowChanges
  <1> QED BY <1>2, <1>3, <1>4, <1>5, <1>7, <1>8 DEF Manage

\* An acceptance begins: the row it looks at is open.
LEMMA AcceptanceBegins ==
    ASSUME MemberInv, NEW c \in MemberCalls, NEW u \in Users, NEW i \in Invites,
           AcceptInvite(c, u, i) \/ AcceptInviteToken(c, u, i)
    PROVE  MemberInv'
  <1>1. memberCall \in [MemberCalls -> CallType] /\ invite[i] \in InviteRows /\ DueRow(i, invite[i])
    BY CallHolds DEF MemberInv, MemberTypeOK, AcceptInvite, AcceptInviteToken, Stands, Open, DueRow
  <1>2. UNCHANGED <<member, invite, admitted>>
    BY DEF AcceptInvite, AcceptInviteToken
  <1>3. PICK k \in CallType :
            /\ memberCall' = [memberCall EXCEPT ![c] = k]
            /\ k.invite = i
            /\ \/ k.pc = "commit" /\ ~InviteLocked(i)
               \/ k.pc = "claim" /\ k.saw = invite[i] /\ OpenRow(invite[i])
    <2>1. CASE AcceptInvite(c, u, i)
      <3> DEFINE k == [pc |-> "commit", user |-> u, invite |-> i]
      <3>1. k \in CallType /\ k.pc = "commit" /\ k.invite = i
        BY DEF CallType, CommitCalls
      <3>2. memberCall' = [memberCall EXCEPT ![c] = k] /\ ~InviteLocked(i)
        BY <2>1 DEF AcceptInvite
      <3> HIDE DEF k
      <3> QED BY <3>1, <3>2
    <2>2. CASE AcceptInviteToken(c, u, i)
      <3> DEFINE k == [pc |-> "claim", user |-> u, invite |-> i, saw |-> invite[i]]
      <3>1. k \in CallType /\ k.pc = "claim" /\ k.invite = i /\ k.saw = invite[i]
        BY <1>1 DEF CallType, TokenCalls
      <3>2. memberCall' = [memberCall EXCEPT ![c] = k]
        BY <2>2 DEF AcceptInviteToken
      <3>3. OpenRow(invite[i])
        BY <2>2 DEF AcceptInviteToken, Stands, Open, OpenRow
      <3> HIDE DEF k
      <3> QED BY <3>1, <3>2, <3>3
    <2> QED BY <2>1, <2>2
  <1>4. memberCall' \in [MemberCalls -> CallType] /\ memberCall'[c] = k
        /\ \A d \in MemberCalls : d # c => memberCall'[d] = memberCall[d]
    BY <1>1, <1>3
  <1>5. MemberTypeOK'
    BY <1>2, <1>4 DEF MemberInv, MemberTypeOK, CallType, CommitCalls, TokenCalls
  <1>6. CommitsHoldRows'
    <2>1. \A d \in MemberCalls : Calling(d, "commit")' => memberCall'[d].invite \in Invites /\ DueRow(memberCall'[d].invite, invite'[memberCall'[d].invite])
      BY <1>1, <1>2, <1>3, <1>4 DEF MemberInv, CommitsHoldRows, Calling
    <2>2. \A d \in MemberCalls : d # c /\ Calling(c, "commit")' /\ Calling(d, "commit")' => memberCall'[d].invite # i
      BY <1>3, <1>4 DEF InviteLocked, Calling
    <2>3. \A d, e \in MemberCalls :
              Calling(d, "commit")' /\ Calling(e, "commit")' /\ memberCall'[d].invite = memberCall'[e].invite => d = e
      BY <1>3, <1>4, <2>2 DEF MemberInv, CommitsHoldRows, Calling
    <2> QED BY <2>1, <2>3 DEF CommitsHoldRows
  <1>7. ClaimsSawOpenRows'
    BY <1>1, <1>2, <1>3, <1>4 DEF MemberInv, ClaimsSawOpenRows, Calling, OpenRow
  <1>8. RowTellsAdmitted' /\ UncreatedIsUnused'
    BY <1>2 DEF MemberInv, RowTellsAdmitted, UncreatedIsUnused
  <1> QED BY <1>5, <1>6, <1>7, <1>8 DEF MemberInv

\* An acceptance claims the row of i, which is still as it was found unless the claim is raced.
LEMMA ClaimKeeps ==
    ASSUME MemberInv, NEW c \in MemberCalls, AcceptCommits(c) \/ ClaimInvite(c)
    PROVE  /\ MemberInv'
           /\ AdmitsOnce
  <1> DEFINE i == memberCall[c].invite
             u == memberCall[c].user
  <1>1. memberCall \in [MemberCalls -> CallType] /\ (memberCall[c] \in CommitCalls \/ memberCall[c] \in TokenCalls)
    BY CallHolds DEF AcceptCommits, ClaimInvite
  <1>2. i \in Invites /\ u \in Users
    BY <1>1 DEF CommitCalls, TokenCalls
  <1>3. invite \in [Invites -> InviteRows] /\ admitted \in [Invites -> SUBSET Users]
        /\ member \in [Users -> Roles \union {"none"}]
    BY DEF MemberInv, MemberTypeOK
  <1>4. Claim(u, i)
    BY DEF AcceptCommits, ClaimInvite
  <1>5. /\ invite' \in [Invites -> InviteRows] /\ invite'[i].acceptedBy = u /\ invite'[i].exists = invite[i].exists
        /\ \A j \in Invites : j # i => invite'[j] = invite[j]
    <2>1. invite[i] \in InviteRows
      BY <1>2, <1>3
    <2>2. [invite[i] EXCEPT !.acceptedBy = u] \in InviteRows
      BY <1>2, <2>1 DEF InviteRows
    <2>3. [invite[i] EXCEPT !.acceptedBy = u].acceptedBy = u /\ [invite[i] EXCEPT !.acceptedBy = u].exists = invite[i].exists
      BY <2>1 DEF InviteRows
    <2>4. invite' = [invite EXCEPT ![i] = [invite[i] EXCEPT !.acceptedBy = u]]
      BY <1>4 DEF Claim
    <2> QED BY <1>2, <1>3, <2>2, <2>3, <2>4
  <1>6. /\ admitted' \in [Invites -> SUBSET Users] /\ admitted'[i] # {}
        /\ \A j \in Invites : j # i => admitted'[j] = admitted[j]
    BY <1>2, <1>3, <1>4 DEF Claim
  <1>7. u # NoUser
    BY <1>2, FounderAssumption
  <1>8. invite[i].exists
    BY DEF MemberInv, AcceptCommits, ClaimInvite, CommitsHoldRows, ClaimsSawOpenRows, DueRow
  <1>9. \A j \in Invites : ~InviteLocked(j)' \/ j # i
    <2>1. CASE AcceptCommits(c)
      <3>1. memberCall'[c] = NoCall /\ \A d \in MemberCalls : d # c => memberCall'[d] = memberCall[d]
        BY <1>1, <2>1 DEF AcceptCommits, EndCall
      <3> QED BY <2>1, <3>1 DEF AcceptCommits, InviteLocked, Calling, NoCall, MemberInv, CommitsHoldRows
    <2>2. CASE ClaimInvite(c)
      <3>1. /\ memberCall'[c] = [memberCall[c] EXCEPT !.pc = "join"]
            /\ \A d \in MemberCalls : d # c => memberCall'[d] = memberCall[d]
        BY <1>1, <2>2 DEF ClaimInvite
      <3>2. memberCall[c] \in TokenCalls
        BY <2>2, CallHolds DEF ClaimInvite
      <3>3. memberCall'[c].pc = "join"
        BY <3>1, <3>2 DEF TokenCalls
      <3> QED BY <2>2, <3>1, <3>3 DEF ClaimInvite, InviteLocked, Calling
    <2> QED BY <2>1, <2>2
  <1>10. /\ memberCall' \in [MemberCalls -> CallType]
         /\ \A d \in MemberCalls : \A pc \in {"commit", "claim"} : Calling(d, pc)' => memberCall'[d] = memberCall[d] /\ Calling(d, pc)
    <2>1. CASE AcceptCommits(c)
      <3>1. NoCall \in CallType /\ memberCall' = [memberCall EXCEPT ![c] = NoCall] /\ NoCall.pc = "idle"
        BY <2>1 DEF AcceptCommits, EndCall, CallType, NoCall
      <3> QED BY <1>1, <3>1 DEF Calling
    <2>2. CASE ClaimInvite(c)
      <3> DEFINE k == [memberCall[c] EXCEPT !.pc = "join"]
      <3>1. memberCall[c] \in TokenCalls /\ memberCall' = [memberCall EXCEPT ![c] = k]
        BY <2>2, CallHolds DEF ClaimInvite
      <3>2. k \in TokenCalls /\ k.pc = "join"
        BY <3>1 DEF TokenCalls
      <3>3. k \in CallType
        BY <3>2 DEF CallType
      <3> HIDE DEF k
      <3> QED BY <1>1, <3>1, <3>2, <3>3 DEF Calling
    <2> QED BY <2>1, <2>2
  <1>11. member' \in [Users -> Roles \union {"none"}]
    BY <1>2, <1>3 DEF AcceptCommits, ClaimInvite, Join, InviteRows
  <1> HIDE DEF i, u
  <1>13. MemberTypeOK'
    BY <1>5, <1>6, <1>10, <1>11 DEF MemberTypeOK, CallType, CommitCalls, TokenCalls
  <1>14. CommitsHoldRows'
    <2>1. ASSUME NEW d \in MemberCalls, Calling(d, "commit")'
          PROVE  memberCall'[d].invite \in Invites /\ DueRow(memberCall'[d].invite, invite'[memberCall'[d].invite])
      <3>1. Calling(d, "commit") /\ memberCall'[d] = memberCall[d]
        BY <2>1, <1>10
      <3>2. memberCall[d].invite \in Invites /\ DueRow(memberCall[d].invite, invite[memberCall[d].invite])
        BY <3>1 DEF MemberInv, CommitsHoldRows
      <3>3. memberCall[d].invite # i
        BY <2>1, <3>1, <3>2, <1>9 DEF InviteLocked
      <3> QED BY <3>1, <3>2, <3>3, <1>5
    <2>2. \A d, e \in MemberCalls :
              Calling(d, "commit")' /\ Calling(e, "commit")' /\ memberCall'[d].invite = memberCall'[e].invite => d = e
      BY <1>10 DEF MemberInv, CommitsHoldRows
    <2> QED BY <2>1, <2>2 DEF CommitsHoldRows
  <1>15. ClaimsSawOpenRows'
    <2> SUFFICES ASSUME NEW d \in MemberCalls, Calling(d, "claim")'
                 PROVE  OpenRow(memberCall'[d].saw) /\ invite'[memberCall'[d].invite].exists
      BY DEF ClaimsSawOpenRows
    <2>1. Calling(d, "claim") /\ memberCall'[d] = memberCall[d]
      BY <1>10
    <2>2. OpenRow(memberCall[d].saw) /\ invite[memberCall[d].invite].exists
      BY <2>1 DEF MemberInv, ClaimsSawOpenRows
    <2>3. memberCall[d].invite \in Invites
      BY <2>1, CallHolds DEF TokenCalls
    <2> QED BY <2>1, <2>2, <2>3, <1>5
  <1>16. RowTellsAdmitted'
    BY <1>5, <1>6, <1>7 DEF MemberInv, RowTellsAdmitted
  <1>17. UncreatedIsUnused'
    BY <1>5, <1>8 DEF MemberInv, UncreatedIsUnused
  <1>18. DueRow(i, invite[i]) \/ ClaimRaced(i)
    <2>1. CASE AcceptCommits(c)
      BY <2>1 DEF AcceptCommits, MemberInv, CommitsHoldRows, i
    <2>2. CASE ClaimInvite(c)
      <3>1. memberCall[c] \in TokenCalls /\ memberCall' = [memberCall EXCEPT ![c].pc = "join"]
        BY <2>2, CallHolds DEF ClaimInvite
      <3>2. memberCall'[c].pc = "join"
        BY <1>1, <3>1 DEF TokenCalls
      <3>3. CASE memberCall[c].saw = invite[i]
        BY <2>2, <3>3 DEF ClaimInvite, MemberInv, ClaimsSawOpenRows, OpenRow, DueRow
      <3>4. CASE memberCall[c].saw # invite[i]
        BY <2>2, <3>2, <3>4 DEF ClaimInvite, ClaimRaced, i
      <3> QED BY <3>3, <3>4
    <2> QED BY <2>1, <2>2
  <1>19. DueRow(i, invite[i]) => ~invite[i].revoked /\ (admitted[i] = {} \/ i \in TestInvites)
    BY <1>2 DEF MemberInv, RowTellsAdmitted, DueRow
  <1>20. AdmitsOnce
    BY <1>6, <1>18, <1>19 DEF AdmitsOnce
  <1> QED BY <1>13, <1>14, <1>15, <1>16, <1>17, <1>20 DEF MemberInv

\* Every step keeps the invariant, and the claims are the only steps that admit somebody.
LEMMA MemberStepHolds ==
    MemberInv /\ [MemberNext]_memberVars =>
        MemberInv' /\ AdmitsOnce
  <1> SUFFICES ASSUME MemberInv, [MemberNext]_memberVars
               PROVE  MemberInv' /\ AdmitsOnce
    OBVIOUS
  <1>1. CASE UNCHANGED memberVars
    BY <1>1 DEF memberVars, MemberInv, MemberTypeOK, CommitsHoldRows, ClaimsSawOpenRows, RowTellsAdmitted,
                UncreatedIsUnused, Calling, OpenRow, DueRow, AdmitsOnce
  <1>2. ASSUME NEW c \in MemberCalls, Manage(c) PROVE MemberInv' /\ admitted' = admitted
    <2>1. admitted' = admitted
      BY <1>2 DEF Manage, RequireManager, RequireManageAuth, UpdateMemberRole, DeleteMember, CreateInvite,
         DeleteInvite
    <2> QED BY <1>2, <2>1, ManageKeeps
  <1>3. ASSUME NEW c \in MemberCalls, NEW u \in Users, NEW i \in Invites, AcceptInvite(c, u, i) \/ AcceptInviteToken(c, u, i)
        PROVE  MemberInv' /\ admitted' = admitted
    <2>1. admitted' = admitted
      BY <1>3 DEF AcceptInvite, AcceptInviteToken
    <2> QED BY <1>3, <2>1, AcceptanceBegins
  <1>4. ASSUME NEW c \in MemberCalls, JoinOrganization(c) PROVE MemberInv' /\ admitted' = admitted
    <2>1. memberCall[c] \in TokenCalls
      BY <1>4, CallHolds DEF JoinOrganization
    <2>2. invite[memberCall[c].invite] \in InviteRows /\ memberCall[c].user \in Users
      BY <2>1 DEF MemberInv, MemberTypeOK, TokenCalls
    <2>3. member' \in [Users -> Roles \union {"none"}]
      BY <1>4, <2>2 DEF JoinOrganization, Join, MemberInv, MemberTypeOK, InviteRows
    <2> QED BY <1>4, <2>3, InvitesStay DEF JoinOrganization, EndCall
  <1>5. ASSUME NEW c \in MemberCalls, CallDies(c) PROVE MemberInv' /\ admitted' = admitted
    BY <1>5, InvitesStay DEF CallDies, EndCall, MemberInv, MemberTypeOK
  <1>6. ASSUME NEW i \in Invites, InviteExpires(i) PROVE MemberInv' /\ admitted' = admitted
    <2> DEFINE row == [invite[i] EXCEPT !.expired = TRUE]
    <2>1. invite[i].exists /\ invite[i] \in InviteRows /\ ~InviteLocked(i)
      BY <1>6 DEF InviteExpires, MemberInv, MemberTypeOK
    <2>2. row \in InviteRows /\ row.exists /\ row.acceptedBy = invite[i].acceptedBy
      BY <2>1 DEF InviteRows
    <2>3. invite' = [invite EXCEPT ![i] = row] /\ UNCHANGED <<member, memberCall, admitted>>
      BY <1>6 DEF InviteExpires
    <2>4. memberCall \in [MemberCalls -> CallType]
      BY DEF MemberInv, MemberTypeOK, CallType, CommitCalls, TokenCalls
    <2> HIDE DEF row
    <2> QED BY <2>1, <2>2, <2>3, <2>4, UnheldRowChanges
  <1> QED BY <1>1, <1>2, <1>3, <1>4, <1>5, <1>6, ClaimKeeps DEF MemberNext, Accept, AdmitsOnce

(* Rows, roles and calls keep their types. *)
THEOREM MembersTypeCorrect == MemberSpec => []MemberTypeOK
  <1>1. MemberInv => MemberTypeOK
    BY DEF MemberInv
  <1> QED BY <1>1, MemberInitHolds, MemberStepHolds, PTL DEF MemberSpec

(* An invite admits one person, and nobody once it was revoked: the dashboard's transaction
   holds the row that it checked until it commits (dashboard-auth.service.ts:216-245), and the
   token API's UPDATE by id is harmless as long as the row is still the one it read
   (catalog.service.ts:658-673).  Whoever is admitted beyond that came by a test token, which
   the dashboard accepts again, or by a claim of the token API on a row changed since its SELECT. *)
THEOREM InviteAdmitsOnceHolds == MemberSpec => InviteAdmitsOnce
  <1>1. MemberInv /\ [MemberNext]_memberVars => [AdmitsOnce]_memberVars
    BY MemberStepHolds
  <1> QED BY <1>1, MemberInitHolds, MemberStepHolds, PTL DEF MemberSpec, InviteAdmitsOnce, AdmitsOnce
------------------------------------------------------------------------------
(***************************************************************************)
(* Proofs about DashboardSessions: its types, and that a login has at most *)
(* one live session however many refreshes race, and none once a logout    *)
(* has revoked its latest one.  The argument is in SessionInv: a refresh   *)
(* that has passed its check holds its row, so the session it replaces is  *)
(* still the live one of its login when it commits, and the live session   *)
(* of a login is the one created last.                                     *)
(***************************************************************************)
(***************************************************************************)
(* The inductive invariant.                                                *)
(***************************************************************************)
\* Rows are created in order, so Fresh is the next one.
RowsInOrder == \E n \in 0..MaxSessions : \A i \in SessionIds : InDb(i) <=> i <= n

\* A login is named by its first session, which is in the database.
LoginsExist ==
    /\ \A i \in SessionIds : InDb(i) => session[i].login \in SessionIds /\ InDb(session[i].login)
    /\ \A l \in ended : l \in SessionIds /\ InDb(l)

\* A live session has not been replaced.
LiveIsLatest ==
    \A i, j \in SessionIds :
        LiveSession(i) /\ InDb(j) /\ session[i].login = session[j].login => j <= i

EndedHaveNone == \A i \in SessionIds : LiveSession(i) => session[i].login \notin ended

\* A logout past its guard names a row.
RevocationsNameRows ==
    \A r \in Requests : InRequest(r, "revoke") => request[r].carries \in SessionIds /\ InDb(request[r].carries)

\* A refresh between its check and its commit holds the row of a live session, alone.
RotationsHoldRows ==
    /\ RevocationsNameRows
    /\ \A r \in Requests : InRequest(r, "rotate") => LiveSession(request[r].carries)
    /\ \A r, q \in Requests :
           InRequest(r, "rotate") /\ InRequest(q, "rotate") /\ request[r].carries = request[q].carries => r = q

RowType == [state : {"none", "live", "revoked", "expired"}, owner : Emails,
            login : SessionIds \union {NoSession}, access : {"fresh", "expiring", "expired"}]
RequestRecord ==
    [pc : {"idle", "login", "insertUser", "insertGithubUser", "served", "denied", "refresh", "rotate", "revoke", "answer"},
     email : Emails, github : GithubIds \union {NoGithub}, carries : SessionIds \union {NoSession}]
\* A request about to insert a GitHub user knows which one.
RequestType == {h \in RequestRecord : h.pc = "insertGithubUser" => h.github \in GithubIds}
AccountType == [exists : BOOLEAN, github : GithubIds \union {NoGithub}, organizations : Nat]

SessionInv ==
    /\ SessionTypeOK /\ request \in [Requests -> RequestType]
    /\ RowsInOrder /\ LoginsExist /\ LiveIsLatest /\ EndedHaveNone /\ RotationsHoldRows

\* No request gets past its check of a refresh, and past the guard of a logout with live sessions only.
NoNewRotation ==
    \A r \in Requests :
        /\ request'[r].pc = "rotate" => request[r].pc = "rotate" /\ request'[r].carries = request[r].carries
        /\ request'[r].pc = "revoke" => \/ LiveSession(request'[r].carries)
                                        \/ request[r].pc = "revoke" /\ request'[r].carries = request[r].carries

\* Rows are never deleted.
LEMMA RevocationsKept ==
    ASSUME SessionInv, NoNewRotation, \A i \in SessionIds : InDb(i) => InDb(i)'
    PROVE  RevocationsNameRows'
<1> SUFFICES ASSUME NEW r \in Requests, request'[r].pc = "revoke"
             PROVE  request'[r].carries \in SessionIds /\ session'[request'[r].carries].state # "none"
  BY DEF RevocationsNameRows, InRequest, InDb
<1>1. request'[r].carries \in SessionIds /\ InDb(request'[r].carries)
  BY DEF SessionInv, RotationsHoldRows, RevocationsNameRows, NoNewRotation, InRequest, LiveSession, InDb
<1>2. PICK c \in SessionIds : c = request'[r].carries
  BY <1>1
<1> QED
  BY <1>1, <1>2 DEF InDb

LEMMA Somebody == (CHOOSE e \in Emails : TRUE) \in Emails
BY SessionsAssumption

LEMMA EmptyRow == NoRow \in RowType /\ NoRow.state = "none"
BY Somebody DEF NoRow, RowType, NoSession

LEMMA EmptyRequest == NoRequest \in RequestType /\ NoRequest.pc = "idle"
BY Somebody DEF NoRequest, RequestType, RequestRecord, NoSession

\* The next id is there to be had, and it is next.
LEMMA FreshIsNext ==
    ASSUME SessionTypeOK, RowsInOrder, MayCreate
    PROVE  Fresh \in SessionIds /\ ~InDb(Fresh) /\ \A j \in SessionIds : j < Fresh => InDb(j)
<1>1. PICK n \in 0..MaxSessions : \A i \in SessionIds : InDb(i) <=> i <= n
  BY DEF RowsInOrder
<1>2. PICK i \in SessionIds : ~InDb(i)
  BY DEF MayCreate
<1>3. n + 1 \in SessionIds
  BY <1>1, <1>2, SessionsAssumption DEF SessionIds
<1>4. ~InDb(n + 1) /\ \A j \in SessionIds : j < n + 1 => InDb(j)
  BY <1>1, <1>3, SessionsAssumption DEF SessionIds
<1> QED
  BY <1>3, <1>4 DEF Fresh
\* A row of its own login is created: sign-up, sign-in.
LEMMA CreateKeeps ==
    ASSUME SessionInv, MayCreate, NEW e \in Emails, ended' = ended, NoNewRotation,
           session' = [session EXCEPT ![Fresh] = NewSession(e, Fresh)]
    PROVE  RowsInOrder' /\ LoginsExist' /\ LiveIsLatest' /\ EndedHaveNone' /\ RotationsHoldRows'
<1>1. PICK f \in SessionIds : f = Fresh /\ ~InDb(f) /\ \A j \in SessionIds : j < f => InDb(j)
  BY FreshIsNext DEF SessionInv
<1>2. DOMAIN session = SessionIds
  BY DEF SessionInv, SessionTypeOK
<1>3. session'[f] = NewSession(e, f) /\ \A i \in SessionIds \ {f} : session'[i] = session[i]
  BY <1>1, <1>2
<1>4. /\ InDb(f)' /\ LiveSession(f)' /\ session'[f].login = f
      /\ \A i \in SessionIds \ {f} : (InDb(i)' <=> InDb(i)) /\ (LiveSession(i)' <=> LiveSession(i))
                                       /\ session'[i].login = session[i].login
  BY <1>1, <1>3 DEF InDb, LiveSession, NewSession
<1>5. \A i \in SessionIds \ {f} : LiveSession(i) => session[i].login # f
  BY <1>1 DEF SessionInv, LoginsExist, LiveSession, InDb
<1>6. RowsInOrder'
  <2>1. PICK n \in 0..MaxSessions : \A i \in SessionIds : InDb(i) <=> i <= n
    BY DEF SessionInv, RowsInOrder
  <2>2. f = n + 1
    BY <1>1, <2>1, SessionsAssumption DEF SessionIds
  <2>3. f \in 0..MaxSessions /\ \A i \in SessionIds : InDb(i)' <=> i <= f
    BY <1>1, <1>4, <2>1, <2>2, SessionsAssumption DEF SessionIds
  <2> QED
    BY <2>3 DEF RowsInOrder
<1>7. LoginsExist'
  BY <1>1, <1>4 DEF SessionInv, LoginsExist
<1>11. \A i \in SessionIds \ {f} : InDb(i) => session[i].login # f
  BY <1>1 DEF SessionInv, LoginsExist
<1>8. LiveIsLatest'
  BY <1>1, <1>4, <1>11 DEF SessionInv, LiveIsLatest, SessionIds
<1>9. EndedHaveNone'
  BY <1>1, <1>4 DEF SessionInv, EndedHaveNone, LoginsExist
<1>10. RotationsHoldRows'
  <2>1. \A r \in Requests : InRequest(r, "rotate") => request[r].carries # f
    BY <1>1 DEF SessionInv, RotationsHoldRows, LiveSession, InDb
  <2>2. RevocationsNameRows'
    BY <1>1, <1>4, RevocationsKept
  <2> QED
    BY <1>4, <2>1, <2>2 DEF SessionInv, RotationsHoldRows, NoNewRotation, InRequest, LiveSession
<1> QED
  BY <1>6, <1>7, <1>8, <1>9, <1>10

\* No row comes to life, and none is taken away from a refresh that holds it.
LEMMA FadeKeeps ==
    ASSUME SessionInv, NoNewRotation,
           \A i \in SessionIds : /\ session'[i].login = session[i].login
                                 /\ InDb(i)' <=> InDb(i)
                                 /\ LiveSession(i)' => LiveSession(i) /\ session[i].login \notin ended',
           \A i \in SessionIds : LiveSession(i) /\ RowLocked(i) => LiveSession(i)',
           \A l \in ended' : l \in SessionIds /\ InDb(l)
    PROVE  RowsInOrder' /\ LoginsExist' /\ LiveIsLatest' /\ EndedHaveNone' /\ RotationsHoldRows'
<1>1. RowsInOrder'
  BY DEF SessionInv, RowsInOrder
<1>2. LoginsExist'
  BY DEF SessionInv, LoginsExist
<1>3. LiveIsLatest' /\ EndedHaveNone'
  BY DEF SessionInv, LiveIsLatest, EndedHaveNone
<1>4. RotationsHoldRows'
  <2>1. \A r \in Requests : InRequest(r, "rotate") =>
           request[r].carries \in SessionIds /\ session'[request[r].carries].state = "live"
    BY DEF SessionInv, RotationsHoldRows, RowLocked, LiveSession
  <2>2. RevocationsNameRows'
    BY RevocationsKept
  <2> QED
    BY <2>1, <2>2 DEF SessionInv, RotationsHoldRows, NoNewRotation, InRequest, LiveSession
<1> QED
  BY <1>1, <1>2, <1>3, <1>4

\* The rows stay as they are.
LEMMA SameRowsKeep ==
    ASSUME SessionInv, NoNewRotation, session' = session, ended' = ended
    PROVE  RowsInOrder' /\ LoginsExist' /\ LiveIsLatest' /\ EndedHaveNone' /\ RotationsHoldRows'
<1>1. \A i \in SessionIds : /\ session'[i].login = session[i].login
                            /\ InDb(i)' <=> InDb(i)
                            /\ LiveSession(i)' => LiveSession(i) /\ session[i].login \notin ended'
  BY DEF InDb, LiveSession, SessionInv, EndedHaveNone
<1>2. \A i \in SessionIds : LiveSession(i) /\ RowLocked(i) => LiveSession(i)'
  BY DEF LiveSession
<1>3. \A l \in ended' : l \in SessionIds /\ InDb(l)
  BY DEF SessionInv, LoginsExist
<1> QED
  BY <1>1, <1>2, <1>3, FadeKeeps------------------------------------------------------------------------------
(***************************************************************************)
(* The steps of a request, as far as they do not pass the check of a       *)
(* refresh.                                                                *)
(***************************************************************************)
Pcs == {"idle", "login", "insertUser", "served", "denied", "refresh", "answer"}

RequestsQuiet == request' \in [Requests -> RequestType] /\ NoNewRotation

LEMMA RowsTyped ==
    ASSUME SessionInv
    PROVE  /\ account \in [Emails -> AccountType] /\ session \in [SessionIds -> RowType]
           /\ request \in [Requests -> RequestType]
BY DEF SessionInv, SessionTypeOK, AccountType, RowType

LEMMA SetRequest ==
    ASSUME SessionInv, NEW r \in Requests, NEW h \in RequestType, h.pc \notin {"rotate", "revoke"},
           request' = [request EXCEPT ![r] = h]
    PROVE  RequestsQuiet
BY RowsTyped DEF RequestsQuiet, NoNewRotation

LEMMA DoneQuiet ==
    ASSUME SessionInv, NEW r \in Requests, Done(r)
    PROVE  RequestsQuiet
BY EmptyRequest, SetRequest DEF Done

LEMMA MoveQuiet ==
    ASSUME SessionInv, NEW r \in Requests, NEW pc \in Pcs,
           NEW c \in SessionIds \union {NoSession},
           request' = [request EXCEPT ![r].pc = pc, ![r].carries = c]
    PROVE  RequestsQuiet
<1>1. PICK h : h = [request[r] EXCEPT !.pc = pc, !.carries = c]
  OBVIOUS
<1>2. h \in RequestType /\ h.pc \notin {"rotate", "revoke"}
  BY <1>1, RowsTyped DEF RequestType, RequestRecord, Pcs
<1>3. request' = [request EXCEPT ![r] = h]
  BY <1>1, RowsTyped
<1> QED
  BY <1>2, <1>3, SetRequest

LEMMA AnswerQuiet ==
    ASSUME SessionInv, NEW r \in Requests, NEW c \in SessionIds \union {NoSession}, AnswerWith(r, c)
    PROVE  RequestsQuiet
BY MoveQuiet DEF AnswerWith, Pcs

LEMMA SameQuiet ==
    ASSUME SessionInv, request' = request
    PROVE  RequestsQuiet
BY RowsTyped DEF RequestsQuiet, NoNewRotation

LEMMA NewRowTyped ==
    ASSUME NEW e \in Emails, NEW l \in SessionIds
    PROVE  NewSession(e, l) \in RowType
BY DEF NewSession, RowType

\* What is left of the invariant once the types and the rows are known.
LEMMA Assemble ==
    ASSUME account' \in [Emails -> AccountType], session' \in [SessionIds -> RowType],
           cookie' \in SessionIds \union {NoSession}, request' \in [Requests -> RequestType],
           (RowsInOrder /\ LoginsExist /\ LiveIsLatest /\ EndedHaveNone /\ RotationsHoldRows)'
    PROVE  SessionInv'
<1>1. ended' \subseteq SessionIds \union {NoSession}
  BY DEF LoginsExist
<1> QED
  BY <1>1 DEF SessionInv, SessionTypeOK, AccountType, RowType, RequestType, RequestRecord

\* Steps that leave the rows alone, and steps that create the row of a login.
LEMMA QuietStep ==
    ASSUME SessionInv, RequestsQuiet, session' = session, ended' = ended,
           account' \in [Emails -> AccountType], cookie' \in SessionIds \union {NoSession}
    PROVE  SessionInv'
<1>1. (RowsInOrder /\ LoginsExist /\ LiveIsLatest /\ EndedHaveNone /\ RotationsHoldRows)'
  BY SameRowsKeep DEF RequestsQuiet
<1> QED
  BY <1>1, Assemble, RowsTyped DEF RequestsQuiet, SessionInv

LEMMA CreateStep ==
    ASSUME SessionInv, RequestsQuiet, MayCreate, NEW e \in Emails, ended' = ended,
           session' = [session EXCEPT ![Fresh] = NewSession(e, Fresh)],
           account' \in [Emails -> AccountType], cookie' = cookie
    PROVE  SessionInv'
<1>1. RowsInOrder' /\ LoginsExist' /\ LiveIsLatest' /\ EndedHaveNone' /\ RotationsHoldRows'
  BY CreateKeeps DEF RequestsQuiet
<1>2. Fresh \in SessionIds
  BY FreshIsNext DEF SessionInv
<1>3. session' \in [SessionIds -> RowType] /\ cookie' \in SessionIds \union {NoSession}
  BY <1>2, NewRowTyped, RowsTyped DEF SessionInv, SessionTypeOK
<1> QED
  BY <1>1, <1>3, Assemble DEF RequestsQuiet------------------------------------------------------------------------------
(***************************************************************************)
(* One lemma per action, the ones that change rows in other ways last.     *)
(***************************************************************************)
LEMMA InvTypes ==
    ASSUME SessionInv
    PROVE  /\ SessionTypeOK /\ account \in [Emails -> AccountType] /\ session \in [SessionIds -> RowType]
           /\ request \in [Requests -> RequestType] /\ cookie \in SessionIds \union {NoSession}
           /\ \A r \in Requests : request[r].email \in Emails /\ request[r].github \in GithubIds \union {NoGithub}
                                    /\ request[r].carries \in SessionIds \union {NoSession}
BY RowsTyped DEF SessionInv, SessionTypeOK, RequestType, RequestRecord

LEMMA RegisterLookupKeeps ==
    ASSUME SessionInv, NEW r \in Requests, NEW e \in Emails, RegisterLookup(r, e)
    PROVE  SessionInv'
<1>1. PICK pc \in {"login", "insertUser"} : request' = [request EXCEPT ![r].email = e, ![r].pc = pc]
  BY DEF RegisterLookup
<1>2. PICK h : h = [request[r] EXCEPT !.email = e, !.pc = pc]
  OBVIOUS
<1>3. h \in RequestType /\ h.pc \notin {"rotate", "revoke"} /\ request' = [request EXCEPT ![r] = h]
  BY <1>1, <1>2, InvTypes DEF RequestType, RequestRecord
<1>4. RequestsQuiet
  BY <1>3, SetRequest, InvTypes
<1> QED
  BY <1>4, QuietStep, InvTypes DEF RegisterLookup

LEMMA RegisterInsertKeeps ==
    ASSUME SessionInv, NEW r \in Requests, RegisterInsert(r)
    PROVE  SessionInv'
<1> DEFINE e == request[r].email
<1>1. RequestsQuiet
  BY DoneQuiet, InvTypes DEF RegisterInsert
<1>2. CASE account[e].exists
  BY <1>1, <1>2, QuietStep, InvTypes DEF RegisterInsert
<1>3. CASE ~account[e].exists
  <2>1. PICK h : h = [account[e] EXCEPT !.exists = TRUE, !.organizations = account[e].organizations + 1]
    OBVIOUS
  <2>2. e \in Emails /\ account[e] \in AccountType
    BY InvTypes
  <2>4. h \in AccountType
    <3>1. PICK a \in AccountType : a = account[e]
      BY <2>2
    <3>2. h = [a EXCEPT !.exists = TRUE, !.organizations = a.organizations + 1]
      BY <2>1, <3>1
    <3>3. a.organizations + 1 \in Nat
      BY DEF AccountType
    <3> QED
      BY <3>2, <3>3 DEF AccountType
  <2>3. account' = [account EXCEPT ![e] = h]
    BY <1>3, <2>1, <2>2, InvTypes DEF RegisterInsert
  <2>5. account' \in [Emails -> AccountType]
    BY <2>2, <2>3, <2>4, InvTypes
  <2> QED
    BY <1>1, <1>3, <2>2, <2>5, CreateStep DEF RegisterInsert
<1> QED
  BY <1>2, <1>3

LEMMA RegisterExistingKeeps ==
    ASSUME SessionInv, NEW r \in Requests, RegisterExisting(r)
    PROVE  SessionInv'
<1>1. RequestsQuiet
  BY DoneQuiet, InvTypes DEF RegisterExisting
<1>2. CASE session' = session
  BY <1>1, <1>2, QuietStep, InvTypes DEF RegisterExisting
<1>3. CASE session' = [session EXCEPT ![Fresh] = NewSession(request[r].email, Fresh)]
  <2>1. request[r].email \in Emails /\ account' \in [Emails -> AccountType]
    BY InvTypes DEF RegisterExisting
  <2> QED
    BY <1>1, <1>3, <2>1, CreateStep DEF RegisterExisting
<1> QED
  BY <1>2, <1>3 DEF RegisterExisting

\* A sign-in answers with the row it creates.
LEMMA SignedInKeeps ==
    ASSUME SessionInv, NEW r \in Requests, NEW e \in Emails, SignedIn(r, e),
           ended' = ended, cookie' = cookie, account' \in [Emails -> AccountType]
    PROVE  SessionInv'
<1>1. Fresh \in SessionIds
  BY FreshIsNext DEF SessionInv, SignedIn
<1>2. RequestsQuiet
  BY <1>1, AnswerQuiet, InvTypes DEF SignedIn
<1> QED
  BY <1>2, CreateStep DEF SignedIn

LEMMA LoginKeeps ==
    ASSUME SessionInv, NEW r \in Requests, NEW e \in Emails, Login(r, e)
    PROVE  SessionInv'
BY SignedInKeeps, InvTypes DEF Login

LEMMA GithubLoginKeeps ==
    ASSUME SessionInv, NEW r \in Requests, NEW g \in GithubIds, GithubLogin(r, g)
    PROVE  SessionInv'
<1>1. CASE UNCHANGED <<account, session, request>>
  <2>1. RequestsQuiet
    BY <1>1, SameQuiet, InvTypes
  <2> QED
    BY <1>1, <2>1, QuietStep, InvTypes DEF GithubLogin
<1>2. CASE \E e \in Emails : account' = [account EXCEPT ![e].github = g] /\ SignedIn(r, e)
  <2>1. PICK e \in Emails : account' = [account EXCEPT ![e].github = g] /\ SignedIn(r, e)
    BY <1>2
  <2>2. account' \in [Emails -> AccountType]
    BY <2>1, InvTypes DEF AccountType
  <2> QED
    BY <2>1, <2>2, SignedInKeeps DEF GithubLogin
<1>3. CASE request' = [request EXCEPT ![r].pc = "insertGithubUser", ![r].github = g] /\ UNCHANGED <<account, session>>
  <2>1. PICK h : h = [request[r] EXCEPT !.pc = "insertGithubUser", !.github = g]
    OBVIOUS
  <2>2. h \in RequestType /\ h.pc \notin {"rotate", "revoke"} /\ request' = [request EXCEPT ![r] = h]
    BY <1>3, <2>1, InvTypes DEF RequestType, RequestRecord
  <2>3. RequestsQuiet
    BY <2>2, SetRequest, InvTypes
  <2> QED
    BY <1>3, <2>3, QuietStep, InvTypes DEF GithubLogin
<1> QED
  BY <1>1, <1>2, <1>3 DEF GithubLogin, GithubRows

LEMMA GithubInsertKeeps ==
    ASSUME SessionInv, NEW r \in Requests, GithubInsert(r)
    PROVE  SessionInv'
<1> DEFINE g == request[r].github
           e == EmailOf[g]
<1>1. CASE GithubRows(g) # {}
  <2>1. RequestsQuiet
    BY <1>1, DoneQuiet, InvTypes DEF GithubInsert
  <2> QED
    BY <1>1, <2>1, QuietStep, InvTypes DEF GithubInsert
<1>2. CASE GithubRows(g) = {}
  <2>1. PICK h : h = [exists |-> TRUE, github |-> g, organizations |-> account[e].organizations + 1]
    OBVIOUS
  <2>2. account' = [account EXCEPT ![e] = h] /\ SignedIn(r, e)
    BY <1>2, <2>1 DEF GithubInsert
  <2>3. g \in GithubIds
    BY InvTypes DEF GithubInsert, InRequest, RequestType
  <2>5. e \in Emails /\ account[e] \in AccountType
    BY <2>3, InvTypes, GithubAssumption
  <2>6. h \in AccountType
    BY <2>1, <2>3, <2>5 DEF AccountType
  <2>4. account' \in [Emails -> AccountType]
    BY <2>2, <2>6, <2>5, InvTypes
  <2> QED
    BY <2>2, <2>5, <2>4, SignedInKeeps DEF GithubInsert
<1> QED
  BY <1>1, <1>2
\* Opening and closing a page, and the session endpoint: the request moves, no row does.
LEMMA OpenPageKeeps ==
    ASSUME SessionInv, NEW r \in Requests, OpenPage(r)
    PROVE  SessionInv'
<1>1. PICK pc \in {"served", "denied"} : request' = [request EXCEPT ![r].carries = cookie, ![r].pc = pc]
  BY DEF OpenPage
<1>2. request' = [request EXCEPT ![r].pc = pc, ![r].carries = cookie]
  BY <1>1, InvTypes DEF RequestType, RequestRecord
<1>3. RequestsQuiet
  BY <1>2, MoveQuiet, InvTypes DEF Pcs
<1> QED
  BY <1>3, QuietStep, InvTypes DEF OpenPage

LEMMA JwtCallbackKeeps ==
    ASSUME SessionInv, NEW r \in Requests, JwtCallback(r)
    PROVE  SessionInv'
<1>1. PICK pc \in {"answer", "refresh"} : request' = [request EXCEPT ![r].carries = cookie, ![r].pc = pc]
  BY DEF JwtCallback
<1>2. request' = [request EXCEPT ![r].pc = pc, ![r].carries = cookie]
  BY <1>1, InvTypes DEF RequestType, RequestRecord
<1>3. RequestsQuiet
  BY <1>2, MoveQuiet, InvTypes DEF Pcs
<1> QED
  BY <1>3, QuietStep, InvTypes DEF JwtCallback

LEMMA DoneKeeps ==
    ASSUME SessionInv, NEW r \in Requests, ClosePage(r) \/ RefreshFails(r) \/ AnswerLost(r) \/ AnswerArrives(r)
    PROVE  SessionInv'
<1>1. RequestsQuiet
  BY DoneQuiet DEF ClosePage, RefreshFails, AnswerLost, AnswerArrives
<1>2. cookie' \in SessionIds \union {NoSession} /\ account' = account /\ session' = session /\ ended' = ended
  BY InvTypes DEF ClosePage, RefreshFails, AnswerLost, AnswerArrives
<1> QED
  BY <1>1, <1>2, QuietStep, InvTypes

\* The check takes the row's lock, which no other refresh holds, if the session lives.
LEMMA RefreshCheckKeeps ==
    ASSUME SessionInv, NEW r \in Requests, RefreshCheck(r)
    PROVE  SessionInv'
<1> DEFINE s == request[r].carries
<1>1. account' = account /\ session' = session /\ cookie' = cookie /\ ended' = ended
  BY DEF RefreshCheck
<1>2. CASE ~LiveSession(s)
  <2>1. PICK h : h = [request[r] EXCEPT !.pc = "answer"]
    OBVIOUS
  <2>2. h \in RequestType /\ h.pc \notin {"rotate", "revoke"} /\ request' = [request EXCEPT ![r] = h]
    BY <1>2, <2>1, InvTypes DEF RefreshCheck, GoRequest, RequestType, RequestRecord
  <2> QED
    BY <1>1, <2>2, SetRequest, QuietStep, InvTypes
<1>3. CASE LiveSession(s)
  <2>1. request' = [request EXCEPT ![r].pc = "rotate"]
    BY <1>3 DEF RefreshCheck, GoRequest
  <2>2. request' \in [Requests -> RequestType]
    BY <2>1, InvTypes DEF RequestType, RequestRecord
  <2>3. /\ request'[r].pc = "rotate" /\ request'[r].carries = s
        /\ \A q \in Requests \ {r} : request'[q] = request[q]
    BY <2>1, InvTypes DEF RequestType, RequestRecord
  <2>4. \A q \in Requests : InRequest(q, "rotate") => request[q].carries # s
    BY DEF RefreshCheck, RowLocked
  <2>5. RotationsHoldRows'
    <3>1. \A q \in Requests : InRequest(q, "rotate")' => LiveSession(request[q].carries)'
      BY <1>1, <1>3, <2>3 DEF SessionInv, RotationsHoldRows, InRequest, LiveSession
    <3>2. ASSUME NEW p \in Requests, NEW q \in Requests, p # q,
                 InRequest(p, "rotate")', InRequest(q, "rotate")'
          PROVE  request'[p].carries # request'[q].carries
      BY <2>3, <2>4, <3>2 DEF SessionInv, RotationsHoldRows, InRequest
    <3>3. RevocationsNameRows'
      BY <1>1, <2>3 DEF SessionInv, RotationsHoldRows, RevocationsNameRows, InRequest, InDb
    <3> QED
      BY <3>1, <3>2, <3>3 DEF RotationsHoldRows
  <2>6. (RowsInOrder /\ LoginsExist /\ LiveIsLatest /\ EndedHaveNone)'
    BY <1>1 DEF SessionInv, RowsInOrder, LoginsExist, LiveIsLatest, EndedHaveNone, InDb, LiveSession
  <2> QED
    BY <1>1, <2>2, <2>5, <2>6, Assemble, InvTypes
<1> QED
  BY <1>2, <1>3

\* The row held is live: its login passes to the successor, and nobody else holds it.
LEMMA RefreshRotateKeeps ==
    ASSUME SessionInv, NEW r \in Requests, RefreshRotate(r)
    PROVE  SessionInv'
<1>1. PICK f \in SessionIds : f = Fresh /\ ~InDb(f) /\ \A j \in SessionIds : j < f => InDb(j)
  BY FreshIsNext DEF SessionInv, RefreshRotate
<1>2. PICK o \in SessionIds : o = request[r].carries /\ LiveSession(o)
  BY DEF RefreshRotate, SessionInv, RotationsHoldRows, LiveSession
<1>3. o # f /\ session[o].login \in SessionIds /\ session[o].owner \in Emails
  BY <1>1, <1>2, InvTypes DEF SessionInv, LoginsExist, LiveSession, InDb, RowType
<1>4. PICK h : h = [session[o] EXCEPT !.state = "revoked"]
  OBVIOUS
<1>5. PICK n : n = NewSession(session[o].owner, session[o].login)
  OBVIOUS
<1>6. /\ h \in RowType /\ h.state = "revoked" /\ h.login = session[o].login
      /\ n \in RowType /\ n.state = "live" /\ n.login = session[o].login
  BY <1>3, <1>4, <1>5, NewRowTyped, InvTypes DEF RowType, NewSession
<1>7. session' = [[session EXCEPT ![o] = h] EXCEPT ![f] = n]
  BY <1>1, <1>2, <1>3, <1>4, <1>5, InvTypes DEF RefreshRotate
<1>8. /\ session' \in [SessionIds -> RowType] /\ session'[o] = h /\ session'[f] = n
      /\ \A i \in SessionIds \ {o, f} : session'[i] = session[i]
  BY <1>3, <1>6, <1>7, InvTypes
<1>9. RequestsQuiet /\ ~(request'[r].pc = "rotate")
  <2>1. AnswerWith(r, f)
    BY <1>1 DEF RefreshRotate
  <2>2. request'[r].pc = "answer"
    BY <2>1, InvTypes DEF AnswerWith, RequestType, RequestRecord
  <2> QED
    BY <2>1, <2>2, AnswerQuiet
<1>10. account' = account /\ cookie' = cookie /\ ended' = ended
  BY DEF RefreshRotate
<1>11. /\ InDb(o) /\ InDb(o)' /\ InDb(f)' /\ ~LiveSession(o)' /\ LiveSession(f)'
       /\ session'[o].login = session[o].login /\ session'[f].login = session[o].login
       /\ \A i \in SessionIds \ {o, f} : (InDb(i)' <=> InDb(i)) /\ (LiveSession(i)' <=> LiveSession(i))
                                           /\ session'[i].login = session[i].login
  BY <1>2, <1>6, <1>8 DEF InDb, LiveSession
<1>12. RowsInOrder'
  <2>1. PICK k \in 0..MaxSessions : \A i \in SessionIds : InDb(i) <=> i <= k
    BY DEF SessionInv, RowsInOrder
  <2>2. f = k + 1
    BY <1>1, <2>1, SessionsAssumption DEF SessionIds
  <2>3. f \in 0..MaxSessions
    BY SessionsAssumption DEF SessionIds
  <2>4. \A i \in SessionIds : InDb(i)' <=> i <= f
    BY <1>11, <2>1, <2>2, SessionsAssumption DEF SessionIds
  <2> QED
    BY <2>3, <2>4 DEF RowsInOrder
<1>13. LoginsExist'
  <2>1. \A i \in SessionIds : InDb(i) => InDb(i)'
    BY <1>11
  <2>2. \A i \in SessionIds : InDb(i)' => session'[i].login \in SessionIds /\ InDb(session'[i].login)
    BY <1>11, <1>3 DEF SessionInv, LoginsExist
  <2> QED
    BY <2>1, <2>2, <1>10 DEF SessionInv, LoginsExist, InDb
<1>14. LiveIsLatest'
  <2>1. ASSUME NEW i \in SessionIds, NEW j \in SessionIds, LiveSession(i)', InDb(j)',
               session'[i].login = session'[j].login
        PROVE  j <= i
    <3>1. CASE i = f
      <4>1. j = f \/ InDb(j)
        BY <1>11, <2>1
      <4>2. \A k \in SessionIds : InDb(k) => k < f
        BY <1>1, SessionsAssumption DEF SessionInv, RowsInOrder, SessionIds
      <4> QED
        BY <3>1, <4>1, <4>2 DEF SessionIds
    <3>2. CASE i # f
      <4>1. i # o /\ LiveSession(i) /\ session'[i].login = session[i].login
        BY <1>11, <2>1, <3>2
      <4>2. InDb(i)
        BY <4>1 DEF LiveSession, InDb
      <4>3. session[i].login # session[o].login
        BY <1>2, <1>11, <4>1, <4>2 DEF SessionInv, LiveIsLatest, SessionIds
      <4>4. j \notin {o, f}
        BY <1>11, <2>1, <4>1, <4>3
      <4> QED
        BY <1>11, <2>1, <4>1, <4>4 DEF SessionInv, LiveIsLatest
    <3> QED
      BY <3>1, <3>2
  <2> QED
    BY <2>1 DEF LiveIsLatest
<1>15. EndedHaveNone'
  BY <1>2, <1>10, <1>11 DEF SessionInv, EndedHaveNone
<1>16. RotationsHoldRows'
  <2>1. \A q \in Requests \ {r} : InRequest(q, "rotate") => request[q].carries \in SessionIds \ {o, f}
    BY <1>1, <1>2 DEF RefreshRotate, SessionInv, RotationsHoldRows, LiveSession, InDb
  <2>2. \A q \in Requests : InRequest(q, "rotate")' =>
            q # r /\ InRequest(q, "rotate") /\ request'[q].carries = request[q].carries
    BY <1>9 DEF RequestsQuiet, NoNewRotation, InRequest
  <2>3. RevocationsNameRows'
    BY <1>9, <1>11, RevocationsKept DEF RequestsQuiet
  <2> QED
    BY <1>8, <2>1, <2>2, <2>3 DEF SessionInv, RotationsHoldRows, LiveSession
<1> QED
  BY <1>8, <1>9, <1>10, <1>12, <1>13, <1>14, <1>15, <1>16, Assemble, InvTypes DEF RequestsQuiet
\* The guard and a call that fails: the request moves, no row does.
LEMMA LogoutGuardKeeps ==
    ASSUME SessionInv, NEW r \in Requests, LogoutGuard(r)
    PROVE  SessionInv'
<1>1. CASE AnswerWith(r, NoSession)
  BY <1>1, AnswerQuiet, QuietStep, InvTypes DEF LogoutGuard
<1>2. CASE /\ request' = [request EXCEPT ![r].pc = "revoke", ![r].carries = cookie]
           /\ Principal(cookie)
  <2>1. PICK h : h = [request[r] EXCEPT !.pc = "revoke", !.carries = cookie]
    OBVIOUS
  <2>2. /\ h \in RequestType /\ h.pc = "revoke" /\ LiveSession(h.carries)
        /\ request' = [request EXCEPT ![r] = h]
    BY <1>2, <2>1, InvTypes DEF RequestType, RequestRecord, Principal
  <2>3. request' \in [Requests -> RequestType] /\ request'[r] = h /\ \A q \in Requests \ {r} : request'[q] = request[q]
    BY <2>2, InvTypes
  <2>4. RequestsQuiet
    BY <2>2, <2>3 DEF RequestsQuiet, NoNewRotation
  <2> QED
    BY <2>4, QuietStep, InvTypes DEF LogoutGuard
<1> QED
  BY <1>1, <1>2 DEF LogoutGuard

LEMMA LogoutFailsKeeps ==
    ASSUME SessionInv, NEW r \in Requests, LogoutFails(r)
    PROVE  SessionInv'
<1>1. RequestsQuiet
  BY AnswerQuiet, DoneQuiet DEF LogoutFails
<1> QED
  BY <1>1, QuietStep, InvTypes DEF LogoutFails

(* No refresh holds the row.  If the session is the latest of its login, no other one of the
   login lives, so the login has none once the row is revoked. *)
LEMMA LogoutRevokeKeeps ==
    ASSUME SessionInv, NEW r \in Requests, LogoutRevoke(r)
    PROVE  SessionInv'
<1>1. RequestsQuiet
  BY AnswerQuiet DEF LogoutRevoke
<1>2. PICK c \in SessionIds : c = request[r].carries /\ InDb(c)
  BY DEF LogoutRevoke, SessionInv, RotationsHoldRows, RevocationsNameRows
<1>3. account' = account /\ cookie' = cookie /\ ~RowLocked(c)
  BY <1>2 DEF LogoutRevoke
<1>4. session' = session \/ session' = [session EXCEPT ![c].state = "revoked"]
  BY <1>2 DEF LogoutRevoke
<1>5. session' \in [SessionIds -> RowType]
  BY <1>4, InvTypes DEF RowType
<1>6. /\ session'[c].state = "revoked" /\ session'[c].login = session[c].login
      /\ \A i \in SessionIds \ {c} : session'[i] = session[i]
  BY <1>2, InvTypes DEF LogoutRevoke, RowType
<1>7. ended' = ended \/ (ended' = ended \union {session[c].login} /\ ~Replaced(c))
  BY <1>2 DEF LogoutRevoke
<1>8. \A i \in SessionIds : /\ session'[i].login = session[i].login
                            /\ InDb(i)' <=> InDb(i)
                            /\ LiveSession(i)' => LiveSession(i) /\ i # c
  BY <1>2, <1>6 DEF InDb, LiveSession
<1>9. ASSUME NEW i \in SessionIds, LiveSession(i)'
      PROVE  LiveSession(i) /\ session[i].login \notin ended'
  <2>1. LiveSession(i) /\ i # c
    BY <1>8, <1>9
  <2>2. CASE ~Replaced(c)
    <3>1. session[i].login # session[c].login
      BY <1>2, <2>1, <2>2 DEF SessionInv, LiveIsLatest, Replaced, LiveSession, InDb, SessionIds
    <3> QED
      BY <1>7, <2>1, <3>1 DEF SessionInv, EndedHaveNone
  <2>3. CASE ended' = ended
    BY <2>1, <2>3 DEF SessionInv, EndedHaveNone
  <2> QED
    BY <1>7, <2>2, <2>3
<1>10. \A i \in SessionIds : LiveSession(i) /\ RowLocked(i) => LiveSession(i)'
  BY <1>3, <1>6 DEF LiveSession
<1>11. \A l \in ended' : l \in SessionIds /\ InDb(l)
  BY <1>2, <1>7 DEF SessionInv, LoginsExist
<1>12. \A i \in SessionIds : /\ session'[i].login = session[i].login
                             /\ InDb(i)' <=> InDb(i)
                             /\ LiveSession(i)' => LiveSession(i) /\ session[i].login \notin ended'
  BY <1>8, <1>9
<1>13. RowsInOrder' /\ LoginsExist' /\ LiveIsLatest' /\ EndedHaveNone' /\ RotationsHoldRows'
  BY <1>1, <1>10, <1>11, <1>12, FadeKeeps DEF RequestsQuiet
<1> QED
  BY <1>1, <1>3, <1>5, <1>13, Assemble, InvTypes DEF RequestsQuiet

LEMMA TimePassesKeeps ==
    ASSUME SessionInv, NEW c \in SessionIds, TimePasses(c)
    PROVE  SessionInv'
<1>1. account' = account /\ cookie' = cookie /\ ended' = ended /\ request' = request
  BY DEF TimePasses
<1>2. RequestsQuiet
  BY <1>1, SameQuiet
<1>3. CASE session' = [session EXCEPT ![c].access = IF @ = "fresh" THEN "expiring" ELSE "expired"]
  <2>1. session' \in [SessionIds -> RowType]
    BY <1>3, InvTypes DEF RowType
  <2>2. \A i \in SessionIds : session'[i].login = session[i].login /\ session'[i].state = session[i].state
    BY <1>3, InvTypes DEF RowType
  <2>3. \A i \in SessionIds : /\ session'[i].login = session[i].login
                              /\ InDb(i)' <=> InDb(i)
                              /\ LiveSession(i)' => LiveSession(i) /\ session[i].login \notin ended'
    BY <1>1, <2>2 DEF InDb, LiveSession, SessionInv, EndedHaveNone
  <2>4. \A i \in SessionIds : LiveSession(i) /\ RowLocked(i) => LiveSession(i)'
    BY <2>2 DEF LiveSession
  <2>5. \A l \in ended' : l \in SessionIds /\ InDb(l)
    BY <1>1 DEF SessionInv, LoginsExist
  <2>6. RowsInOrder' /\ LoginsExist' /\ LiveIsLatest' /\ EndedHaveNone' /\ RotationsHoldRows'
    BY <1>2, <2>3, <2>4, <2>5, FadeKeeps DEF RequestsQuiet
  <2> QED
    BY <1>1, <1>2, <2>1, <2>6, Assemble, InvTypes DEF RequestsQuiet
<1>4. CASE LiveSession(c) /\ ~RowLocked(c) /\ session' = [session EXCEPT ![c].state = "expired"]
  <2>1. session' \in [SessionIds -> RowType]
    BY <1>4, InvTypes DEF RowType
  <2>2. /\ session'[c].state = "expired" /\ session'[c].login = session[c].login
        /\ \A i \in SessionIds \ {c} : session'[i] = session[i]
    BY <1>4, InvTypes DEF RowType
  <2>3. \A i \in SessionIds : /\ session'[i].login = session[i].login
                              /\ InDb(i)' <=> InDb(i)
                              /\ LiveSession(i)' => LiveSession(i) /\ session[i].login \notin ended'
    BY <1>1, <1>4, <2>2 DEF InDb, LiveSession, SessionInv, EndedHaveNone
  <2>4. \A i \in SessionIds : LiveSession(i) /\ RowLocked(i) => LiveSession(i)'
    BY <1>4, <2>2 DEF LiveSession
  <2>5. \A l \in ended' : l \in SessionIds /\ InDb(l)
    BY <1>1 DEF SessionInv, LoginsExist
  <2>6. RowsInOrder' /\ LoginsExist' /\ LiveIsLatest' /\ EndedHaveNone' /\ RotationsHoldRows'
    BY <1>2, <2>3, <2>4, <2>5, FadeKeeps DEF RequestsQuiet
  <2> QED
    BY <1>1, <1>2, <2>1, <2>6, Assemble, InvTypes DEF RequestsQuiet
<1> QED
  BY <1>3, <1>4 DEF TimePasses
------------------------------------------------------------------------------
LEMMA SessionInvStarts == SessionInit => SessionInv
<1> SUFFICES ASSUME SessionInit PROVE SessionInv
  OBVIOUS
<1>1. SessionTypeOK
  BY EmptyRow, EmptyRequest DEF SessionInit, SessionTypeOK, RowType, RequestType, RequestRecord, NoSession
<1>2. request \in [Requests -> RequestType]
  BY EmptyRequest DEF SessionInit
<1>3. \A i \in SessionIds : ~InDb(i) /\ ~LiveSession(i)
  BY EmptyRow DEF SessionInit, InDb, LiveSession
<1>4. 0 \in 0..MaxSessions /\ \A i \in SessionIds : InDb(i) <=> i <= 0
  BY <1>3, SessionsAssumption DEF SessionIds
<1>5. RowsInOrder
  BY <1>4 DEF RowsInOrder
<1>6. LoginsExist /\ LiveIsLatest /\ EndedHaveNone
  BY <1>3 DEF LoginsExist, LiveIsLatest, EndedHaveNone, SessionInit
<1>7. RotationsHoldRows
  BY EmptyRequest DEF RotationsHoldRows, RevocationsNameRows, InRequest, SessionInit
<1> QED
  BY <1>1, <1>2, <1>5, <1>6, <1>7 DEF SessionInv

LEMMA SessionInvKept == SessionInv /\ [SessionNext]_sessionVars => SessionInv'
<1> SUFFICES ASSUME SessionInv, [SessionNext]_sessionVars PROVE SessionInv'
  OBVIOUS
<1>1. ASSUME NEW r \in Requests, SignUpOrIn(r) PROVE SessionInv'
  BY <1>1, RegisterLookupKeeps, LoginKeeps, RegisterInsertKeeps, RegisterExistingKeeps, GithubLoginKeeps,
     GithubInsertKeeps DEF SignUpOrIn
<1>2. ASSUME NEW r \in Requests, Browse(r) PROVE SessionInv'
  BY <1>2, OpenPageKeeps, DoneKeeps, JwtCallbackKeeps, RefreshCheckKeeps, RefreshRotateKeeps,
     LogoutGuardKeeps, LogoutRevokeKeeps, LogoutFailsKeeps DEF Browse
<1>3. ASSUME NEW i \in SessionIds, TimePasses(i) PROVE SessionInv'
  BY <1>3, TimePassesKeeps
<1>4. CASE UNCHANGED sessionVars
  <2>1. RequestsQuiet
    BY <1>4, SameQuiet DEF sessionVars
  <2> QED
    BY <1>4, <2>1, QuietStep, InvTypes DEF sessionVars
<1> QED
  BY <1>1, <1>2, <1>3, <1>4 DEF SessionNext

(* Accounts, sessions, the cookie and the requests under way stay in their ranges. *)
THEOREM SessionsTypeCorrect == SessionSpec => []SessionTypeOK
<1>1. SessionInv => SessionTypeOK
  BY DEF SessionInv
<1> QED
  BY <1>1, SessionInvStarts, SessionInvKept, PTL DEF SessionSpec

LEMMA OneLiveCounts == SessionInv => OneLivePerLogin
<1> SUFFICES ASSUME SessionInv, NEW l \in SessionIds
             PROVE  Cardinality({i \in SessionIds : LiveSession(i) /\ session[i].login = l})
                        <= IF l \in ended THEN 0 ELSE 1
  BY DEF OneLivePerLogin
<1> DEFINE S == {i \in SessionIds : LiveSession(i) /\ session[i].login = l}
<1>1. CASE S = {}
  BY <1>1, FS_EmptySet
<1>2. CASE S # {}
  <2>1. PICK i : i \in S
    BY <1>2
  <2>2. S = {i}
    BY <2>1 DEF SessionInv, LiveIsLatest, LiveSession, InDb, SessionIds
  <2>3. l \notin ended
    BY <2>1 DEF SessionInv, EndedHaveNone
  <2>4. Cardinality(S) = 1
    BY <2>2, FS_Singleton
  <2> QED
    BY <2>3, <2>4
<1> QED
  BY <1>1, <1>2

(* However many requests refresh one credential at the same time, a login has at most one live
   session, and none once a logout has revoked its latest one: the row stays locked from the
   check of the old session to the commit of its successor (dashboard-auth.service.ts:150-182).
   A logout that is refused, fails or finds its session replaced ends no login. *)
THEOREM OneLivePerLoginHolds == SessionSpec => []OneLivePerLogin
BY OneLiveCounts, SessionInvStarts, SessionInvKept, PTL DEF SessionSpec
=============================================================================
