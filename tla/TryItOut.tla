------------------------------ MODULE TryItOut ------------------------------
(***************************************************************************)
(* The portal's page of a doc and its Try-it-out: the version the page was *)
(* rendered from, which Next's cache may keep after a newer one is ready,  *)
(* the side panel, the modal, and the proxy that calls the servers of the  *)
(* version's own specification.  Several calls may be under way, and       *)
(* answers arrive in any order.  A response stands for the operation it    *)
(* answers; the draft of a request is RequestDraft's.                      *)
(*                                                                         *)
(* Sources: frontend page/portal-doc, widgets/doc-renderer,                *)
(* features/try-it-out, shared/api; backend try-it-out, catalog, versions. *)
(***************************************************************************)
EXTENDS Naturals, Sequences

CONSTANTS Servers,       \* server URLs
          ServerLists,   \* the lists of servers a specification declares
          Relative,      \* servers that are no absolute URL
          Internal,      \* servers whose host is internal
          AllowedHosts,  \* internal servers BUMD_TRY_PROXY_ALLOWED_HOSTS names
          Operations, NoOperation,
          TryCalls,      \* calls under way at a time
          MaxReady       \* bound: versions that get ready

ASSUME TryItOutAssumption ==
    /\ MaxReady \in Nat
    /\ ServerLists \subseteq Seq(Servers)
    /\ NoOperation \notin Operations

NoReady == 0
NoServer == "https://api.example.com"   \* the placeholder of a page without servers

VARIABLES declared,     \* servers of each version's specification
          cachedReady,  \* the latest-ready answer in Next's cache
          rendered,        \* the answer the page was rendered from
          active,       \* activeOperationId
          panelResult,  \* the operation whose response the panel shows
          modal,        \* the modal: operation, draft, isSending, response, error
          tryCall       \* where each call stands

tryVars == <<declared, cachedReady, rendered, active, panelResult, modal, tryCall>>

Latest == Len(declared)
Elements(list) == {list[i] : i \in DOMAIN list}

NoAnswer == [version |-> NoReady, servers |-> <<>>]
IdleCall == [pc |-> "idle", to |-> "nobody", op |-> NoOperation, server |-> NoServer, version |-> NoReady]
------------------------------------------------------------------------------
\* The state of a modal that mounts.
FreshModal(o) ==
    [op |-> o, server |-> IF rendered.servers = <<>> THEN NoServer ELSE Head(rendered.servers),
     sending |-> FALSE, response |-> NoOperation, failed |-> FALSE]

ClosedModal == [op |-> NoOperation, server |-> NoServer, sending |-> FALSE, response |-> NoOperation, failed |-> FALSE]

IsOpen == modal.op # NoOperation
------------------------------------------------------------------------------
(***************************************************************************)
(* The page.                                                               *)
(***************************************************************************)
\* An answer to a component that is no longer mounted sets nothing, and nothing else comes of a call.
Unmounted(from) == [c \in TryCalls |-> IF tryCall[c].to \in from THEN IdleCall ELSE tryCall[c]]

\* The deploy worker marks a version ready: its specification does not change again.
BecomesReady ==
    /\ Latest < MaxReady
    /\ \E list \in ServerLists : declared' = Append(declared, list)
    /\ UNCHANGED <<cachedReady, rendered, active, panelResult, modal, tryCall>>

\* latestReadyVersion; fetchSpec turns a specification it cannot read into an empty one.
LatestReady == {[version |-> Latest, servers |-> list] : list \in {declared[Latest], <<>>}}

\* The operation that a page shows first, if it has one.
FirstOperation == IF Operations = {} THEN NoOperation ELSE CHOOSE o \in Operations : TRUE

\* A stale answer is rendered while the cache fetches the next one.  A page starts from scratch.
OpenDocPage ==
    /\ Latest # NoReady
    /\ \/ \E answer \in LatestReady : rendered' = answer /\ cachedReady' = answer
       \/ /\ cachedReady # NoAnswer /\ rendered' = cachedReady
          /\ cachedReady' \in LatestReady \union {cachedReady}
    /\ active' = FirstOperation
    /\ panelResult' = NoOperation /\ modal' = ClosedModal
    /\ tryCall' = Unmounted({"panel", "modal"})
    /\ UNCHANGED declared

\* From the navigation, an operation's card or a search hit; the panel keeps its result.
HandleSelectOperation(o) ==
    /\ rendered # NoAnswer /\ ~IsOpen /\ active' = o
    /\ UNCHANGED <<declared, cachedReady, rendered, panelResult, modal, tryCall>>

OpenTry(o) ==
    /\ rendered # NoAnswer /\ ~IsOpen /\ modal' = FreshModal(o)
    /\ UNCHANGED <<declared, cachedReady, rendered, active, panelResult, tryCall>>

\* Mutant: the content of the modal is not keyed by the operation.
SwitchInPlace(o) ==
    /\ IsOpen /\ o # modal.op
    /\ modal' = [modal EXCEPT !.op = o]
    /\ UNCHANGED <<declared, cachedReady, rendered, active, panelResult, tryCall>>

\* key={operation.id}: another operation is another component.
SelectInModal(o) ==
    /\ IsOpen /\ o # modal.op /\ modal' = FreshModal(o)
    /\ tryCall' = Unmounted({"modal"})
    /\ UNCHANGED <<declared, cachedReady, rendered, active, panelResult>>

\* The cross and Escape, also while a call is under way.
CloseModal ==
    /\ IsOpen /\ modal' = ClosedModal
    /\ tryCall' = Unmounted({"modal"})
    /\ UNCHANGED <<declared, cachedReady, rendered, active, panelResult>>

\* The Base URL is free text.
EditServer(s) ==
    /\ IsOpen /\ s # modal.server /\ modal' = [modal EXCEPT !.server = s]
    /\ UNCHANGED <<declared, cachedReady, rendered, active, panelResult, tryCall>>
------------------------------------------------------------------------------
(***************************************************************************)
(* Calls.                                                                  *)
(***************************************************************************)
\* A draft that validates; the button is disabled while its call is under way.
SendRequest(c) ==
    /\ IsOpen /\ ~modal.sending /\ tryCall[c].pc = "idle"
    /\ modal' = [modal EXCEPT !.sending = TRUE, !.response = NoOperation, !.failed = FALSE]
    /\ tryCall' = [tryCall EXCEPT ![c] = [pc |-> "sent", to |-> "modal", op |-> modal.op, server |-> modal.server,
                                          version |-> rendered.version]]
    /\ UNCHANGED <<declared, cachedReady, rendered, active, panelResult>>

\* The panel's form: no draft, the first server, and nothing that says a call is under way.
SubmitPanel(c) ==
    /\ active # NoOperation /\ rendered.servers # <<>> /\ ~IsOpen /\ tryCall[c].pc = "idle"
    /\ tryCall' = [tryCall EXCEPT ![c] = [pc |-> "sent", to |-> "panel", op |-> active, server |-> Head(rendered.servers),
                                          version |-> rendered.version]]
    /\ UNCHANGED <<declared, cachedReady, rendered, active, panelResult, modal>>

\* Mutant: the proxy takes the servers of the version the portal would show now.
DeclaredNow(version) == Elements(declared[Latest]) \ Relative

\* Origins of the servers of the version the call names; a relative one has none.
DeclaredServerOrigins(version) == Elements(declared[version]) \ Relative

\* parseRequest and assertAllowedTarget; an unreadable specification or a timeout fails a call too.
Outcomes(server, version) ==
    IF server \in Relative THEN {"failed"}
    ELSE IF server \notin DeclaredServerOrigins(version) THEN {"undeclared", "failed"}
    ELSE IF server \in Internal \ AllowedHosts THEN {"failed"}
    ELSE {"answered", "failed"}

Execute(c) ==
    /\ tryCall[c].pc = "sent"
    /\ \E pc \in Outcomes(tryCall[c].server, tryCall[c].version) : tryCall' = [tryCall EXCEPT ![c].pc = pc]
    /\ UNCHANGED <<declared, cachedReady, rendered, active, panelResult, modal>>

Ended(c) == tryCall[c].pc \notin {"idle", "sent"}
Returned(c) == tryCall' = [tryCall EXCEPT ![c] = IdleCall]

ModalAnswered(c) ==
    /\ Ended(c) /\ tryCall[c].to = "modal" /\ Returned(c)
    /\ modal' = IF tryCall[c].pc = "answered"
                THEN [modal EXCEPT !.response = tryCall[c].op, !.sending = FALSE]
                ELSE [modal EXCEPT !.failed = TRUE, !.sending = FALSE]
    /\ UNCHANGED <<declared, cachedReady, rendered, active, panelResult>>

\* An answer that is an error has no JSON: the promise rejects and the result stays.
PanelAnswered(c) ==
    /\ Ended(c) /\ tryCall[c].to = "panel" /\ Returned(c)
    /\ panelResult' = IF tryCall[c].pc = "answered" THEN tryCall[c].op ELSE panelResult
    /\ UNCHANGED <<declared, cachedReady, rendered, active, modal>>
------------------------------------------------------------------------------
TryInit ==
    /\ declared = <<>> /\ cachedReady = NoAnswer /\ rendered = NoAnswer
    /\ active = NoOperation /\ panelResult = NoOperation /\ modal = ClosedModal
    /\ tryCall = [c \in TryCalls |-> IdleCall]

TryNext ==
    \/ BecomesReady
    \/ OpenDocPage
    \/ \E o \in Operations : HandleSelectOperation(o) \/ OpenTry(o) \/ SelectInModal(o)
    \/ CloseModal
    \/ \E s \in Servers : EditServer(s)
    \/ \E c \in TryCalls : \/ SendRequest(c) \/ SubmitPanel(c) \/ Execute(c)
                           \/ ModalAnswered(c) \/ PanelAnswered(c)

TrySpec == TryInit /\ [][TryNext]_tryVars
------------------------------------------------------------------------------
TryTypeOK ==
    /\ declared \in Seq(ServerLists) /\ Latest <= MaxReady
    /\ {cachedReady.version, rendered.version} \subseteq 0..Latest
    /\ {active, panelResult, modal.op, modal.response} \subseteq Operations \union {NoOperation}
    /\ \A c \in TryCalls : tryCall[c].pc \in {"idle", "sent", "undeclared", "failed", "answered"}

(* What the page tells of its calls is about what it shows: a response in the modal is one of
   the operation the modal shows, with no call under way or failed since; and a call is refused
   as undeclared only when the page did not offer its server, also when the version of the page
   is no longer the latest. *)
AnswersFitThePage ==
    /\ modal.response \in {NoOperation, modal.op}
    /\ modal.response # NoOperation => ~modal.sending /\ ~modal.failed
    /\ \A c \in TryCalls : tryCall[c].pc = "undeclared" =>
           tryCall[c].server \notin Elements(rendered.servers)
=============================================================================
