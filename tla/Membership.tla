----------------------------- MODULE Membership -----------------------------
(***************************************************************************)
(* Members and invites of one organization: the dashboard API, whose       *)
(* caller's role is read before the operation is carried out, the API for  *)
(* tokens, and the two ways to accept an invite: in one transaction on the *)
(* dashboard, in three statements through the token API.                   *)
(*                                                                         *)
(* Sources: backend catalog/catalog.service.ts, catalog/catalog.controller *)
(* .ts, catalog/dashboard-management.controller.ts, auth/dashboard-auth    *)
(* .service.ts.                                                            *)
(***************************************************************************)
EXTENDS Integers, FiniteSets

CONSTANTS Users, Founder,   \* the founder registered the organization and owns it
          Invites,          \* invites that may be created
          TestInvites,      \* invites whose token is one of three names the dashboard knows
          Roles,            \* membership roles
          MemberCalls,      \* HTTP calls under way at a time
          NoUser

ManageRoles == {"owner", "admin", "member"}
TokenManageRoles == {"owner", "admin"}

ASSUME FounderAssumption == Founder \in Users /\ NoUser \notin Users
ASSUME InvitesAssumption == TestInvites \subseteq Invites
ASSUME RolesAssumption == "owner" \in Roles /\ "none" \notin Roles

VARIABLES member,       \* Membership rows: the role of each user, "none": no row
          invite,       \* Invite rows
          memberCall,   \* where each call stands
          admitted      \* users recorded as acceptor of an invite

memberVars == <<member, invite, memberCall, admitted>>

InviteRows == [exists : BOOLEAN, role : Roles, expired : BOOLEAN, revoked : BOOLEAN,
               acceptedBy : Users \union {NoUser}]
NoInviteRow == [exists |-> FALSE, role |-> "owner", expired |-> FALSE, revoked |-> FALSE, acceptedBy |-> NoUser]
CreatedRow(role) == [NoInviteRow EXCEPT !.exists = TRUE, !.role = role]
NoCall == [pc |-> "idle"]
Calling(c, pc) == memberCall[c].pc = pc
EndCall(c) == memberCall' = [memberCall EXCEPT ![c] = NoCall]

Stands(i) == invite[i].exists /\ ~invite[i].expired /\ ~invite[i].revoked
Open(i) == Stands(i) /\ invite[i].acceptedBy = NoUser

\* A dashboard acceptance that has checked an invite holds its row until it commits.
InviteLocked(i) == \E c \in MemberCalls : Calling(c, "commit") /\ memberCall[c].invite = i
------------------------------------------------------------------------------
(***************************************************************************)
(* Management.  The role is looked up first, the operation comes later.    *)
(***************************************************************************)
RequireManager(c, u) ==
    /\ Calling(c, "idle") /\ member[u] \in ManageRoles
    /\ memberCall' = [memberCall EXCEPT ![c] = [pc |-> "manage"]]
    /\ UNCHANGED <<member, invite, admitted>>

\* The token guard has attached the token's role to the request.
RequireManageAuth(c, role) ==
    /\ Calling(c, "idle") /\ role \in TokenManageRoles
    /\ memberCall' = [memberCall EXCEPT ![c] = [pc |-> "manage"]]
    /\ UNCHANGED <<member, invite, admitted>>

\* Any member's role may be set, the caller's and the last owner's too; 404 without a row.
UpdateMemberRole(c, u, role) ==
    /\ Calling(c, "manage")
    /\ member' = IF member[u] = "none" THEN member ELSE [member EXCEPT ![u] = role]
    /\ EndCall(c)
    /\ UNCHANGED <<invite, admitted>>

DeleteMember(c, u) ==
    /\ Calling(c, "manage")
    /\ member' = [member EXCEPT ![u] = "none"]
    /\ EndCall(c)
    /\ UNCHANGED <<invite, admitted>>

\* The token is a new random one.
CreateInvite(c, i, role) ==
    /\ Calling(c, "manage") /\ ~invite[i].exists /\ i \notin TestInvites
    /\ invite' = [invite EXCEPT ![i] = CreatedRow(role)]
    /\ EndCall(c)
    /\ UNCHANGED <<member, admitted>>

\* Revokes an accepted invite too; 404 when it has been revoked.
DeleteInvite(c, i) ==
    /\ Calling(c, "manage") /\ invite[i].exists /\ ~InviteLocked(i)
    /\ invite' = [invite EXCEPT ![i].revoked = TRUE]
    /\ EndCall(c)
    /\ UNCHANGED <<member, admitted>>
------------------------------------------------------------------------------
(***************************************************************************)
(* Accepting an invite.                                                    *)
(***************************************************************************)
\* ON CONFLICT DO NOTHING: a member keeps the role.
Join(u, i) == member' = IF member[u] = "none" THEN [member EXCEPT ![u] = invite[i].role] ELSE member

Claim(u, i) ==
    /\ invite' = [invite EXCEPT ![i].acceptedBy = u]
    /\ admitted' = [admitted EXCEPT ![i] = @ \union {u}]

\* Mutant: the invite is read without FOR UPDATE.
AcceptInviteUnlocked(c, u, i) ==
    /\ Calling(c, "idle") /\ invite[i].exists
    /\ Stands(i) /\ (invite[i].acceptedBy = NoUser \/ i \in TestInvites)
    /\ memberCall' = [memberCall EXCEPT ![c] = [pc |-> "commit", user |-> u, invite |-> i]]
    /\ UNCHANGED <<member, invite, admitted>>

\* The dashboard: BEGIN, SELECT ... FOR UPDATE.  An invite that is accepted is refused,
\* unless its token is a test token.
AcceptInvite(c, u, i) ==
    /\ Calling(c, "idle") /\ ~InviteLocked(i)
    /\ Stands(i) /\ (invite[i].acceptedBy = NoUser \/ i \in TestInvites)
    /\ memberCall' = [memberCall EXCEPT ![c] = [pc |-> "commit", user |-> u, invite |-> i]]
    /\ UNCHANGED <<member, invite, admitted>>

AcceptCommits(c) ==
    /\ Calling(c, "commit")
    /\ Claim(memberCall[c].user, memberCall[c].invite)
    /\ Join(memberCall[c].user, memberCall[c].invite)
    /\ EndCall(c)

\* The token API: the body names the user.  SELECT without a lock.
AcceptInviteToken(c, u, i) ==
    /\ Calling(c, "idle") /\ Open(i)
    /\ memberCall' = [memberCall EXCEPT ![c] = [pc |-> "claim", user |-> u, invite |-> i, saw |-> invite[i]]]
    /\ UNCHANGED <<member, invite, admitted>>

\* UPDATE by id, whatever the row says by now.
ClaimInvite(c) ==
    /\ Calling(c, "claim")
    /\ LET i == memberCall[c].invite IN
       /\ ~InviteLocked(i)
       /\ Claim(memberCall[c].user, i)
    /\ memberCall' = [memberCall EXCEPT ![c].pc = "join"]
    /\ UNCHANGED member

\* The role is the one that was read.
JoinOrganization(c) ==
    /\ Calling(c, "join")
    /\ Join(memberCall[c].user, memberCall[c].invite)
    /\ EndCall(c)
    /\ UNCHANGED <<invite, admitted>>

\* A statement fails or the process dies: a transaction rolls back, single statements stay.
CallDies(c) ==
    /\ ~Calling(c, "idle")
    /\ EndCall(c)
    /\ UNCHANGED <<member, invite, admitted>>

InviteExpires(i) ==
    /\ invite[i].exists /\ ~InviteLocked(i)
    /\ invite' = [invite EXCEPT ![i].expired = TRUE]
    /\ UNCHANGED <<member, memberCall, admitted>>
------------------------------------------------------------------------------
\* Rows of test tokens have been seeded, or not: no call creates them.
MemberInit ==
    /\ member = [u \in Users |-> IF u = Founder THEN "owner" ELSE "none"]
    /\ \E seeded \in SUBSET TestInvites, role \in Roles :
           invite = [i \in Invites |-> IF i \in seeded THEN CreatedRow(role) ELSE NoInviteRow]
    /\ memberCall = [c \in MemberCalls |-> NoCall]
    /\ admitted = [i \in Invites |-> {}]

Manage(c) ==
    \/ \E u \in Users : RequireManager(c, u) \/ DeleteMember(c, u)
    \/ \E role \in Roles : RequireManageAuth(c, role) \/ \E u \in Users : UpdateMemberRole(c, u, role)
    \/ \E i \in Invites : DeleteInvite(c, i) \/ \E role \in Roles : CreateInvite(c, i, role)

Accept(c) ==
    \/ \E u \in Users, i \in Invites : AcceptInvite(c, u, i) \/ AcceptInviteToken(c, u, i)
    \/ AcceptCommits(c) \/ ClaimInvite(c) \/ JoinOrganization(c)

MemberNext ==
    \/ \E c \in MemberCalls : Manage(c) \/ Accept(c) \/ CallDies(c)
    \/ \E i \in Invites : InviteExpires(i)

MemberSpec == MemberInit /\ [][MemberNext]_memberVars
------------------------------------------------------------------------------
(* Every variable stays in its range. *)
MemberTypeOK ==
    /\ member \in [Users -> Roles \union {"none"}]
    /\ invite \in [Invites -> InviteRows]
    /\ memberCall \in [MemberCalls -> {NoCall, [pc |-> "manage"]}
            \union [pc : {"commit"}, user : Users, invite : Invites]
            \union [pc : {"claim", "join"}, user : Users, invite : Invites, saw : InviteRows]]
    /\ admitted \in [Invites -> SUBSET Users]

\* A token call marks the invite accepted though the row has changed since its SELECT.
ClaimRaced(i) ==
    \E c \in MemberCalls :
        /\ Calling(c, "claim") /\ memberCall[c].invite = i /\ memberCall[c].saw # invite[i]
        /\ memberCall'[c].pc = "join"

(* While the dashboard and the token API accept and revoke an invite at the same time, it
   admits one person, and nobody once it was revoked.  Two things in the code admit more, and
   nothing else does: the dashboard accepts an invite with a test token again, and the UPDATE of
   a token call is guarded by nothing, so it goes through on a row that was accepted, revoked or
   expired since the SELECT (dashboard-auth.service.ts:216-245, catalog.service.ts:658-673). *)
InviteAdmitsOnce ==
    [][\A i \in Invites : admitted'[i] # admitted[i] =>
           \/ ~invite[i].revoked /\ (admitted[i] = {} \/ i \in TestInvites)
           \/ ClaimRaced(i)]_memberVars
=============================================================================
