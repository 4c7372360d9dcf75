--------------------------- MODULE DeployClients ---------------------------
(***************************************************************************)
(* The clients of the deploy API: runs of the GitHub action, several of    *)
(* which may be under way for one pull request, and the command line with  *)
(* its two files.  A version's diff is stored by a worker some time after  *)
(* the deploy; diff runs read it, write one comment that is marked as      *)
(* theirs, and fail when the diff is breaking.                             *)
(*                                                                         *)
(* Sources: packages/github-action, apps/cli, backend catalog and          *)
(* versions.controller.                                                    *)
(***************************************************************************)
EXTENDS Naturals, Sequences, FiniteSets

CONSTANTS ActionRuns,   \* runs of the action
          Specs,        \* contents of spec files
          PageSize,     \* comments GitHub lists when no page is asked for, 30
          MaxComments,  \* bound: comments on the pull request
          MaxPolls      \* polls of a login, 60

ASSUME ClientsAssumption == {PageSize, MaxComments, MaxPolls} \subseteq Nat \ {0}

Preview == 0   \* a diff run without version_id
Classifications == {"none", "non_breaking", "breaking"}
CallTypes == {"deploy", "diff"}

VARIABLES deployed,  \* the branch's versions: content, and classification of the diff
          runs,      \* runs of the action
          comments,  \* on the pull request, oldest first: the run that wrote each, or "person"
          raced,     \* two runs were between listing comments and writing theirs
          authFile, projectFile,  \* ~/.config/bumd/auth.json and .bumd.json
          deviceLogin, \* the login under way
          exit       \* how the last command ended

serverVars == <<deployed>>
actionVars == <<runs, comments, raced>>
commandVars == <<authFile, projectFile, deviceLogin, exit>>
clientVars == <<serverVars, actionVars, commandVars>>

Versions == 1..Len(deployed)
NewRun == [pc |-> "new", version |-> Preview, gate |-> FALSE, breaking |-> FALSE, found |-> 0]
NoLogin == [pc |-> "idle", polls |-> 0]
------------------------------------------------------------------------------
(***************************************************************************)
(* The backend.                                                            *)
(***************************************************************************)
\* deploy answers with the version of the same content, or with a new one.
Deployed(spec) ==
    IF \E v \in Versions : deployed[v].spec = spec THEN deployed ELSE Append(deployed, [spec |-> spec, diff |-> "missing"])

\* recordDiff of the worker: once for a version.
StoreDiff ==
    /\ \E v \in Versions, class \in Classifications :
          deployed[v].diff = "missing" /\ deployed' = [deployed EXCEPT ![v].diff = class]
    /\ UNCHANGED <<actionVars, commandVars>>

\* versionDiff: 404 without a stored diff; neither it nor previewDiff has a field hasBreaking.
VersionDiff(v) == {deployed[v].diff} \ {"missing"}
PreviewDiff == {"none"}
------------------------------------------------------------------------------
(***************************************************************************)
(* Runs of the action.                                                     *)
(***************************************************************************)
At(r, pc) == runs[r].pc = pc
Goto(r, pc) == runs' = [runs EXCEPT ![r].pc = pc]

\* readActionInputs and resolveBackendToken; the exchange of an OIDC token is a POST and not retried.
StartRun(r) ==
    /\ At(r, "new")
    /\ \E version \in Versions \union {Preview}, gate \in BOOLEAN, pc \in {"deploy", "fetch", "failed"} :
          /\ runs' = [runs EXCEPT ![r] = [NewRun EXCEPT !.pc = pc, !.version = version, !.gate = gate]]
          /\ pc = "deploy" => version = Preview /\ ~gate
    /\ UNCHANGED <<serverVars, comments, raced, commandVars>>

\* runDeployMode: the answer may be lost, then the run fails and the version stays.
RunDeploy(r) ==
    /\ At(r, "deploy")
    /\ \/ \E spec \in Specs, pc \in {"passed", "failed"} : deployed' = Deployed(spec) /\ Goto(r, pc)
       \/ Goto(r, "failed") /\ UNCHANGED deployed
    /\ UNCHANGED <<comments, raced, commandVars>>

\* Mutant: only the field that the backend does not send says that a diff is breaking.
BreakingFromField(class) == FALSE

\* hasBreaking ?? has_breaking ?? classification === "breaking"
HasBreaking(class) == class = "breaking"

FetchDiff(r) ==
    /\ At(r, "fetch")
    /\ \/ \E class \in IF runs[r].version = Preview THEN PreviewDiff ELSE VersionDiff(runs[r].version),
             pc \in {"list", "gate"} :
             runs' = [runs EXCEPT ![r].pc = pc, ![r].breaking = HasBreaking(class)]
       \/ Goto(r, "failed")
    /\ UNCHANGED <<serverVars, comments, raced, commandVars>>

IsSticky(i) == comments[i] # "person"
Stickies == {i \in DOMAIN comments : IsSticky(i)}

\* upsertStickyDiffComment lists one page; without a token or a pull request the run fails.
ListComments(r) ==
    /\ At(r, "list")
    /\ \/ LET onPage == {i \in Stickies : i <= PageSize} IN
          /\ runs' = [runs EXCEPT ![r].pc = "upsert",
                                  ![r].found = IF onPage = {} THEN 0 ELSE CHOOSE i \in onPage : \A j \in onPage : i <= j]
          /\ raced' = (raced \/ \E o \in ActionRuns \ {r} : At(o, "upsert"))
       \/ Goto(r, "failed") /\ UNCHANGED raced
    /\ UNCHANGED <<serverVars, comments, commandVars>>

\* Mutant: the comment is written anew.
CreateComment(r) ==
    /\ At(r, "upsert") /\ Len(comments) < MaxComments
    /\ comments' = Append(comments, r) /\ Goto(r, "gate")
    /\ UNCHANGED <<serverVars, raced, commandVars>>

UpsertComment(r) ==
    /\ At(r, "upsert") /\ (runs[r].found = 0 => Len(comments) < MaxComments)
    /\ \/ /\ comments' = IF runs[r].found = 0 THEN Append(comments, r) ELSE [comments EXCEPT ![runs[r].found] = r]
          /\ Goto(r, "gate")
       \/ Goto(r, "failed") /\ UNCHANGED comments
    /\ UNCHANGED <<serverVars, raced, commandVars>>

\* setFailed
EndDiff(r) ==
    /\ At(r, "gate") /\ Goto(r, IF runs[r].gate /\ runs[r].breaking THEN "failed" ELSE "passed")
    /\ UNCHANGED <<serverVars, comments, raced, commandVars>>

\* The workflow runs again, and people comment.
NextRun(r) ==
    /\ runs[r].pc \in {"passed", "failed"} /\ runs' = [runs EXCEPT ![r] = NewRun]
    /\ UNCHANGED <<serverVars, comments, raced, commandVars>>

PersonComments ==
    /\ Len(comments) < MaxComments /\ comments' = Append(comments, "person")
    /\ UNCHANGED <<serverVars, runs, raced, commandVars>>
------------------------------------------------------------------------------
(***************************************************************************)
(* The command line.  A command that runs to its end sets its exit code.   *)
(***************************************************************************)
Exit(code) == exit' = code
Files == <<authFile, projectFile>>

\* readAuthState throws on a file that is no JSON, also when BUMD_API_TOKEN is set.
Authenticated(envToken) == authFile # "broken" /\ (envToken \/ authFile = "stored")

\* resolveCliContext reads the project's file first, also when flags say everything.
Context(flags) == projectFile # "broken" /\ (flags \/ projectFile = "written")

InitProject ==   \* bumd init
    /\ projectFile' = "written" /\ Exit("ok")
    /\ UNCHANGED <<serverVars, actionVars, authFile, deviceLogin>>

\* A person edits .bumd.json, which nothing but init writes.
EditProjectFile ==
    /\ \E file \in {"missing", "broken"} : projectFile' = file
    /\ UNCHANGED <<serverVars, actionVars, authFile, deviceLogin, exit>>

CommandDeploy(envToken, flags) ==
    /\ \/ /\ Authenticated(envToken) /\ Context(flags)
          /\ \E spec \in Specs, code \in {"ok", "failed"} : deployed' = Deployed(spec) /\ Exit(code)
       \/ Exit("failed") /\ UNCHANGED deployed
    /\ UNCHANGED <<actionVars, Files, deviceLogin>>

\* Of a job, which asks the project's file for nothing, or of a version.
CommandStatus(envToken, flags) ==
    /\ \/ Authenticated(envToken) /\ (flags \/ Context(flags)) /\ deployed # <<>> /\ Exit("ok")
       \/ Exit("failed")
    /\ UNCHANGED <<serverVars, actionVars, Files, deviceLogin>>

\* The backend has no route that lists versions.
CommandVersions == Exit("failed") /\ UNCHANGED <<serverVars, actionVars, Files, deviceLogin>>

CommandOpen(flags) ==
    /\ Exit(IF Context(flags) THEN "ok" ELSE "failed")
    /\ UNCHANGED <<serverVars, actionVars, Files, deviceLogin>>

CommandAuthStatus ==
    /\ Exit(IF authFile = "broken" THEN "failed" ELSE "ok")
    /\ UNCHANGED <<serverVars, actionVars, Files, deviceLogin>>

\* The schema requires hasBreaking, so the answer of versionDiff is refused.
CommandDiff == Exit("failed") /\ UNCHANGED <<serverVars, actionVars, Files, deviceLogin>>

\* requestDeviceCode
StartLogin ==
    /\ deviceLogin.pc = "idle"
    /\ \/ deviceLogin' = [pc |-> "poll", polls |-> 0] /\ UNCHANGED exit
       \/ Exit("failed") /\ UNCHANGED deviceLogin
    /\ UNCHANGED <<serverVars, actionVars, Files>>

\* authorization_pending and slow_down go on, anything else but a token ends.
PollForGithubAccessToken ==
    /\ deviceLogin.pc = "poll"
    /\ \/ deviceLogin' = [deviceLogin EXCEPT !.pc = "exchange"] /\ UNCHANGED exit
       \/ deviceLogin.polls + 1 < MaxPolls /\ deviceLogin' = [deviceLogin EXCEPT !.polls = @ + 1] /\ UNCHANGED exit
       \/ deviceLogin' = NoLogin /\ Exit("failed")
    /\ UNCHANGED <<serverVars, actionVars, Files>>

ExchangeForBumdToken ==
    /\ deviceLogin.pc = "exchange"
    /\ \/ deviceLogin' = [deviceLogin EXCEPT !.pc = "write"] /\ UNCHANGED exit
       \/ deviceLogin' = NoLogin /\ Exit("failed")
    /\ UNCHANGED <<serverVars, actionVars, Files>>

\* writeFile truncates: a login that is killed leaves half a file.
WriteAuthState ==
    /\ deviceLogin.pc = "write" /\ deviceLogin' = NoLogin
    /\ \/ authFile' = "stored" /\ Exit("ok")
       \/ authFile' = "broken" /\ Exit("failed")
    /\ UNCHANGED <<serverVars, actionVars, projectFile>>

\* clearAuthState; the token stays valid.
CommandLogout ==
    /\ authFile' = "missing" /\ Exit("ok")
    /\ UNCHANGED <<serverVars, actionVars, projectFile, deviceLogin>>
------------------------------------------------------------------------------
ClientsInit ==
    /\ deployed = <<>> /\ runs = [r \in ActionRuns |-> NewRun] /\ comments = <<>> /\ raced = FALSE
    /\ authFile = "missing" /\ projectFile = "missing" /\ deviceLogin = NoLogin /\ exit = "ok"

ActionNext ==
    \/ StoreDiff \/ PersonComments
    \/ \E r \in ActionRuns : \/ StartRun(r) \/ RunDeploy(r) \/ FetchDiff(r) \/ ListComments(r)
                             \/ UpsertComment(r) \/ EndDiff(r) \/ NextRun(r)

CommandNext ==
    \/ StoreDiff
    \/ InitProject \/ EditProjectFile \/ CommandLogout \/ CommandAuthStatus \/ CommandDiff \/ CommandVersions
    \/ \E envToken, flags \in BOOLEAN : CommandDeploy(envToken, flags) \/ CommandStatus(envToken, flags)
    \/ \E flags \in BOOLEAN : CommandOpen(flags)
    \/ StartLogin \/ PollForGithubAccessToken \/ ExchangeForBumdToken \/ WriteAuthState

ClientsNext == ActionNext \/ CommandNext
ClientsSpec == ClientsInit /\ [][ClientsNext]_clientVars
------------------------------------------------------------------------------
DeployClientsTypeOK ==
    /\ deployed \in Seq([spec : Specs, diff : Classifications \union {"missing"}])
    /\ \A v, w \in Versions : deployed[v].spec = deployed[w].spec => v = w
    /\ \A r \in ActionRuns : runs[r].version \in Versions \union {Preview}
    /\ \A i \in DOMAIN comments : comments[i] \in ActionRuns \union {"person"}
    /\ authFile \in {"missing", "stored", "broken"} /\ projectFile \in {"missing", "written", "broken"}
    /\ deviceLogin.polls \in 0..(MaxPolls - 1) /\ exit \in {"ok", "failed"}

(* A run that was to fail on breaking changes and passed has read the stored diff of its
   version, and that diff is not breaking.  Unless two runs were writing at a time, the action
   has one comment on the pull request, or all of its comments are behind the first page. *)
GatesAndCommentsHold ==
    /\ \A r \in ActionRuns : runs[r].pc = "passed" /\ runs[r].gate /\ runs[r].version # Preview =>
           deployed[runs[r].version].diff \in Classifications \ {"breaking"}
    /\ ~raced => Cardinality(Stickies) <= 1 \/ \A i \in Stickies : i > PageSize
=============================================================================
