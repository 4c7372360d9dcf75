------------------------------ MODULE MCClients ------------------------------
(***************************************************************************)
(* One instance of the modules around the dashboard, the portal and the    *)
(* deploy clients: sessions, membership, API tokens, the management pages, *)
(* the environments of tests, the portal's Try-it-out with the draft of a  *)
(* request, the run console, runs of the GitHub action, and the command    *)
(* line.  They share no state, so a behaviour moves one of them, its       *)
(* subject, and the state spaces add up where they would multiply.         *)
(***************************************************************************)
EXTENDS DashboardSessions, Membership, ApiTokens, ManagementPages, TestEnvironments,
        TryItOut, RequestDraft, RunConsole, DeployClients, TLC

CONSTANTS ann, bob, octocat, hubot, token1, token2, thing1, thing2, call1, call2

VARIABLE subject

MCEmailOf == (octocat :> ann) @@ (hubot :> ann)
MCPrefixOf == (token1 :> 1) @@ (token2 :> 1)
MCServerLists == {<<"api">>, <<"rel", "local">>}

NoBody == [content |-> "none", example |-> "empty", required |-> FALSE, params |-> FALSE]
MCDraftOperations ==
    {NoBody} \union
    [content : {"json", "multipart"}, example : {"empty", "bare", "object"}, required : {TRUE}, params : {TRUE}]

MCSymmetry == Permutations({call1, call2})

accountVars == <<sessionVars, memberVars, tokenVars>>
dashboardVars == <<accountVars, pageVars, envVars>>
consoleAndClientVars == <<consoleVars, clientVars>>
portalVars == <<tryVars, draftVars>>

Subjects == {"sessions", "membership", "tokens", "pages", "environments", "try", "draft", "console", "actions", "commands"}

(* What has several initial states starts in one of them where it is not the subject.  A page
   of someone who may manage it starts empty, and the first environment is the default: what
   else there may be at the start is reached from there by a few calls. *)
MCInit ==
    /\ subject \in Subjects
    /\ SessionInit /\ MemberInit /\ TokenInit /\ PageInit /\ EnvInit /\ TryInit /\ DraftInit /\ ConsoleInit /\ ClientsInit
    /\ subject # "membership" => invite = [i \in Invites |-> NoInviteRow]
    /\ subject # "pages" => page = "docs" /\ mayManage
    /\ subject # "environments" => \A e \in Envs : envRow[e] = NoEnvRow
    /\ row = IF mayManage THEN {} ELSE {thing1}
    /\ LiveEnv(thing1) => envRow[thing1].isDefault
    /\ LiveEnv(thing2) => LiveEnv(thing1) /\ StoredKeys(thing1) = Keys
    /\ subject # "draft" => operation = NoBody

\* Bound: a behaviour is about one invite, with a token of its own or with a test token.
OneInvite == \A i, j \in Invites : invite[i].exists /\ invite[j].exists => i = j

MCNext ==
    /\ UNCHANGED subject
    /\ \/ subject = "sessions" /\ SessionNext
          /\ UNCHANGED <<memberVars, tokenVars, pageVars, envVars, portalVars, consoleAndClientVars>>
       \/ subject = "membership" /\ MemberNext /\ OneInvite'
          /\ UNCHANGED <<sessionVars, tokenVars, pageVars, envVars, portalVars, consoleAndClientVars>>
       \/ subject = "tokens" /\ TokenNext
          /\ UNCHANGED <<sessionVars, memberVars, pageVars, envVars, portalVars, consoleAndClientVars>>
       \/ subject = "pages" /\ PageNext /\ UNCHANGED <<accountVars, envVars, portalVars, consoleAndClientVars>>
       \/ subject = "environments" /\ EnvNext /\ UNCHANGED <<accountVars, pageVars, portalVars, consoleAndClientVars>>
       \/ subject = "try" /\ TryNext /\ UNCHANGED <<dashboardVars, draftVars, consoleAndClientVars>>
       \/ subject = "draft" /\ DraftNext /\ UNCHANGED <<dashboardVars, tryVars, consoleAndClientVars>>
       \/ subject = "console" /\ ConsoleNext /\ UNCHANGED <<dashboardVars, portalVars, clientVars>>
       \/ subject = "actions" /\ ActionNext /\ UNCHANGED <<dashboardVars, portalVars, consoleVars>>
       \/ subject = "commands" /\ CommandNext /\ UNCHANGED <<dashboardVars, portalVars, consoleVars>>

MCSpec == MCInit /\ [][MCNext]_<<subject, dashboardVars, portalVars, consoleAndClientVars>>
------------------------------------------------------------------------------
(* Every variable of the module that moves stays in its range. *)
ClientsTypeOK ==
    /\ subject = "sessions" => SessionTypeOK
    /\ subject = "membership" => MemberTypeOK
    /\ subject = "tokens" => TokenTypeOK
    /\ subject = "pages" => PageTypeOK
    /\ subject = "environments" => EnvTypeOK
    /\ subject = "try" => TryTypeOK
    /\ subject = "draft" => DraftTypeOK
    /\ subject = "console" => ConsoleTypeOK
    /\ subject \in {"actions", "commands"} => DeployClientsTypeOK
=============================================================================
