SPECIFICATION MCSpec
CONSTANTS
    ann = ann
    bob = bob
    octocat = octocat
    hubot = hubot
    token1 = token1
    token2 = token2
    thing1 = thing1
    thing2 = thing2
    call1 = call1
    call2 = call2
    Emails = {ann}
    GithubIds = {octocat, hubot}
    EmailOf <- MCEmailOf
    NoGithub = NoGithub
    Requests = {call1, call2}
    MaxSessions = 3
    Users = {ann, bob}
    Founder = ann
    Invites = {i1, t1}
    TestInvites = {t1}
    Roles = {"owner", "member", "guest"}
    MemberCalls = {call1, call2}
    NoUser = NoUser
    Plaintexts = {token1, token2}
    PrefixOf <- MCPrefixOf
    GuardedCalls = {g1}
    GithubUsers = {octocat, hubot}
    NoLink = NoLink
    NoToken = NoToken
    Scopes = {"docs:deploy", "docs:read"}
    Things = {thing1, thing2}
    Nothing = Nothing
    PageCalls = {call1, call2}
    Envs = {thing1, thing2}
    Keys = {k1}
    Values = {v1}
    EnvTabs = {tab}
    EnvCalls = {call1, call2}
    NoTab = NoTab
    NoEnv = NoEnv
    MaxSaves = 2
    Servers = {"api", "rel", "local"}
    ServerLists <- MCServerLists
    Relative = {"rel"}
    Internal = {"local"}
    AllowedHosts = {}
    Operations = {"get", "post"}
    NoOperation = "nop"
    TryCalls = {call1, call2}
    MaxReady = 2
    DraftOperations <- MCDraftOperations
    MaxRows = 1
    MaxTyped = 4
    ActionRuns = {call1, call2}
    Specs = {s1}
    PageSize = 2
    MaxComments = 3
    MaxPolls = 3
    MaxRuns = 2
    Polls = {call1, call2}
SYMMETRY MCSymmetry
INVARIANTS
    ClientsTypeOK
    OneLivePerLogin
    RevokedTokensStopWorking
    OneSubmitAtATime
    ValuesAreTheLastTyped
    AnswersFitThePage
    RequiredBodiesAreSent
    GatesAndCommentsHold
    RunningIsPolled
PROPERTIES
    InviteAdmitsOnce
CHECK_DEADLOCK FALSE
