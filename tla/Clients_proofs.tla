--------------------------- MODULE Clients_proofs ---------------------------
(***************************************************************************)
(* Proofs about the clients: the management pages, the environments that   *)
(* several tabs edit, Try-it-out, the request draft, the run console and   *)
(* the deploy API's clients.  The modules share no variable; each theorem  *)
(* is of its own module's specification, the last one of all of them.      *)
(***************************************************************************)
EXTENDS MCClients, Accounts_proofs, FiniteSetTheorems, TLAPS
------------------------------------------------------------------------------
(***************************************************************************)
(* The pages that manage webhooks, tokens, members and docs.               *)
(***************************************************************************)
BusyCallType == [pc : {"sent", "answered", "failed"}, kind : {"create", "edit", "delete", "rotate", "fetch"}, thing : Things]
PageCallType == {NoPageCall} \union BusyCallType
DialogType == [isOpen : BOOLEAN, editing : Things \union {Nothing}, secret : Things \union {Nothing}, loading : BOOLEAN]
PanelType == [selected : Things \union {Nothing}, of : Things \union {Nothing}, loading : BOOLEAN]

\* The dialog loads while its submit is under way; a doc's dialog is reset when it is opened, so it stays open till then.
OneSubmit ==
    /\ \A c, d \in Submits : c = d
    /\ Submits # {} => dialog.loading
    /\ page = "docs" => dialog.editing = Nothing /\ (Submits # {} => dialog.isOpen)

PageInv == PageTypeOK /\ pageCall \in [PageCalls -> PageCallType] /\ OneSubmit

\* A call is sent, changes where it stands, or is received.
LEMMA PageCallSteps ==
    ASSUME pageCall \in [PageCalls -> PageCallType], NEW c \in PageCalls, NEW call \in PageCallType, pageCall' = [pageCall EXCEPT ![c] = call]
    PROVE  /\ pageCall' \in [PageCalls -> PageCallType] /\ pageCall'[c] = call
           /\ \A d \in PageCalls : d # c => pageCall'[d] = pageCall[d]
           /\ \A d \in PageCalls : d # c => (d \in Submits' <=> d \in Submits)
           /\ c \in Submits' <=> call.pc # "idle" /\ call.kind \in {"create", "edit"}
  BY DEF Submits, InFlight

\* A step of a call that makes no submit of it keeps the submits there are.
LEMMA NoNewSubmit ==
    ASSUME PageInv, Submits' \subseteq Submits, UNCHANGED page,
           Submits' # {} => dialog'.loading = dialog.loading /\ (page = "docs" => dialog'.isOpen = dialog.isOpen),
           page = "docs" => dialog'.editing = Nothing
    PROVE  OneSubmit'
  BY DEF PageInv, OneSubmit

\* Every operation of the pages keeps them.
LEMMA PageStepHolds == PageInv /\ [PageNext]_pageVars => PageInv'
  <1> SUFFICES ASSUME PageInv, [PageNext]_pageVars PROVE PageInv'
    OBVIOUS
  <1>0. PageTypeOK /\ OneSubmit /\ pageCall \in [PageCalls -> PageCallType] /\ dialog \in DialogType /\ panel \in PanelType
    BY DEF PageInv, PageTypeOK, DialogType, PanelType
  <1>1. ASSUME dialog' \in DialogType, panel' \in PanelType, pageCall' \in [PageCalls -> PageCallType],
               row' \subseteq Things, listed' \subseteq Things, banner' \in Things \union {Nothing},
               UNCHANGED <<page, mayManage>>
        PROVE  PageTypeOK'
    BY <1>0, <1>1 DEF PageTypeOK, PageCallType, BusyCallType, NoPageCall, DialogType, PanelType
  <1>2. CASE UNCHANGED pageVars
    <2>1. Submits' = Submits
      BY <1>2 DEF pageVars, Submits, InFlight
    <2> QED BY <1>0, <1>1, <1>2, <2>1 DEF pageVars, PageInv, OneSubmit, PageTypeOK
  <1>3. CASE HandleOpen
    <2>1. UNCHANGED <<page, mayManage, row, listed, banner, panel, pageCall>> /\ Submits' = Submits
      BY <1>3 DEF HandleOpen, Submits, InFlight
    <2>2. dialog' \in DialogType
      BY <1>0, <1>3 DEF HandleOpen, OpenWebhookForm, OpenTokenForm, OpenInviteForm, OpenDocForm, OpenForm, ClosedDialog, DialogType
    <2>3. OneSubmit'
      <3>1. CASE page # "docs"
        <4>1. dialog' = OpenForm
          BY <1>3, <3>1 DEF HandleOpen, OpenWebhookForm, OpenTokenForm, OpenInviteForm, OpenDocForm
        <4>2. dialog'.loading = dialog.loading
          BY <1>0, <4>1 DEF OpenForm, DialogType
        <4> QED BY <2>1, <3>1, <4>2, NoNewSubmit
      <3>2. CASE page = "docs"
        <4>1. Submits = {}
          BY <1>0, <1>3, <3>2 DEF HandleOpen, Uncovered, OneSubmit
        <4>2. dialog'.editing = Nothing
          BY <1>3, <3>2 DEF HandleOpen, OpenWebhookForm, OpenTokenForm, OpenInviteForm, OpenDocForm, ClosedDialog
        <4> QED BY <2>1, <4>1, <4>2, NoNewSubmit
      <3> QED BY <3>1, <3>2
    <2> QED BY <1>0, <1>1, <2>1, <2>2, <2>3 DEF PageInv, PageTypeOK
  <1>4. ASSUME NEW x \in Things, HandleOpenEdit(x) PROVE PageInv'
    <2>1. UNCHANGED <<page, mayManage, row, listed, banner, panel, pageCall>> /\ Submits' = Submits /\ page # "docs"
      BY <1>4 DEF HandleOpenEdit, Submits, InFlight
    <2>2. dialog' \in DialogType /\ dialog'.loading = dialog.loading
      BY <1>0, <1>4 DEF HandleOpenEdit, DialogType
    <2>3. OneSubmit'
      BY <2>1, <2>2, NoNewSubmit
    <2> QED BY <1>0, <1>1, <2>1, <2>2, <2>3 DEF PageInv, PageTypeOK
  <1>5. CASE HandleClose
    <2>1. UNCHANGED <<page, mayManage, row, listed, panel, pageCall>> /\ Submits' = Submits
      BY <1>5 DEF HandleClose, Submits, InFlight
    <2>2. dialog' \in DialogType /\ dialog'.loading = dialog.loading /\ banner' \in Things \union {Nothing}
      BY <1>0, <1>5 DEF HandleClose, CloseWebhookForms, CloseSecretForm, CloseDocForm, DialogType, PageTypeOK
    <2>3. page = "docs" => Submits = {} /\ dialog'.editing = Nothing
      BY <1>0, <1>5 DEF HandleClose, CloseWebhookForms, CloseSecretForm, CloseDocForm, OneSubmit, DialogType
    <2>4. OneSubmit'
      BY <2>1, <2>2, <2>3, NoNewSubmit
    <2> QED BY <1>0, <1>1, <2>1, <2>2, <2>4 DEF PageInv, PageTypeOK
  <1>6. CASE Refreshed
    <2>1. UNCHANGED <<page, mayManage, row, dialog, banner, panel, pageCall>> /\ Submits' = Submits /\ listed' = row
      BY <1>6 DEF Refreshed, Submits, InFlight
    <2> QED BY <1>0, <1>1, <2>1 DEF PageInv, PageTypeOK, OneSubmit
  <1>7. ASSUME NEW c \in PageCalls, NEW kind \in {"create", "edit"}, NEW x \in Things, Send(c, kind, x), ~dialog.loading,
               dialog' = [dialog EXCEPT !.loading = TRUE], UNCHANGED <<page, mayManage, row, listed, banner, panel>>,
               page = "docs" => dialog.isOpen
        PROVE  PageInv'
    <2>1. PICK call : call = [pc |-> "sent", kind |-> kind, thing |-> x]
      OBVIOUS
    <2>2. call \in PageCallType /\ call.pc = "sent" /\ call.kind = kind
      BY <2>1 DEF PageCallType, BusyCallType
    <2>3. pageCall' = [pageCall EXCEPT ![c] = call]
      BY <1>7, <2>1 DEF Send
    <2>4. /\ pageCall' \in [PageCalls -> PageCallType]
          /\ \A d \in PageCalls : d # c => (d \in Submits' <=> d \in Submits)
      BY <1>0, <2>2, <2>3, PageCallSteps
    <2>5. Submits = {}
      BY <1>0, <1>7 DEF OneSubmit
    <2>6. dialog' \in DialogType /\ dialog'.loading /\ dialog'.isOpen = dialog.isOpen /\ dialog'.editing = dialog.editing
      BY <1>0, <1>7 DEF DialogType
    <2>7. Submits' \subseteq {c}
      BY <2>4, <2>5 DEF Submits
    <2>8. OneSubmit'
      BY <1>0, <1>7, <2>6, <2>7 DEF OneSubmit
    <2> QED BY <1>0, <1>1, <1>7, <2>4, <2>6, <2>8 DEF PageInv, PageTypeOK
  <1>8. ASSUME NEW c \in PageCalls, HandleCreateSubmit(c) PROVE PageInv'
    BY <1>7, <1>8 DEF HandleCreateSubmit, CreateForm
  <1>9. ASSUME NEW c \in PageCalls, HandleEditSubmit(c) PROVE PageInv'
    <2>1. dialog.editing \in Things /\ page # "docs"
      BY <1>0, <1>9 DEF HandleEditSubmit, DialogType, OneSubmit
    <2> QED BY <1>7, <1>9, <2>1 DEF HandleEditSubmit
  <1>10. ASSUME NEW c \in PageCalls, NEW kind \in {"delete", "rotate", "fetch"}, NEW x \in Things, Send(c, kind, x),
                panel' \in PanelType, UNCHANGED <<page, mayManage, row, listed, dialog, banner>>
         PROVE  PageInv'
    <2>1. PICK call : call = [pc |-> "sent", kind |-> kind, thing |-> x]
      OBVIOUS
    <2>2. call \in PageCallType /\ call.pc = "sent" /\ call.kind = kind
      BY <2>1 DEF PageCallType, BusyCallType
    <2>3. pageCall' = [pageCall EXCEPT ![c] = call]
      BY <1>10, <2>1 DEF Send
    <2>4. /\ pageCall' \in [PageCalls -> PageCallType]
          /\ \A d \in PageCalls : d # c => (d \in Submits' <=> d \in Submits)
          /\ c \in Submits' <=> call.pc # "idle" /\ call.kind \in {"create", "edit"}
      BY <1>0, <2>2, <2>3, PageCallSteps
    <2>5. Submits' \subseteq Submits
      BY <2>2, <2>4 DEF Submits
    <2>6. OneSubmit'
      BY <1>0, <1>10, <2>5, NoNewSubmit DEF OneSubmit
    <2> QED BY <1>0, <1>1, <1>10, <2>4, <2>6 DEF PageInv, PageTypeOK
  <1>11. ASSUME NEW c \in PageCalls, NEW x \in Things, HandleDelete(c, x) \/ HandleRotateSecret(c, x) \/ HandleFetchDeliveries(c, x)
         PROVE  PageInv'
    <2>1. CASE HandleDelete(c, x) \/ HandleRotateSecret(c, x)
      BY <1>0, <1>10, <2>1 DEF HandleDelete, HandleRotateSecret
    <2>2. CASE HandleFetchDeliveries(c, x) /\ panel.selected = x
      <3>1. UNCHANGED <<page, mayManage, row, listed, dialog, banner, pageCall>> /\ panel' = [panel EXCEPT !.selected = Nothing, !.of = Nothing]
        BY <2>2 DEF HandleFetchDeliveries
      <3>2. panel' \in PanelType /\ Submits' = Submits
        BY <1>0, <3>1 DEF PanelType, Submits, InFlight
      <3> QED BY <1>0, <1>1, <3>1, <3>2 DEF PageInv, PageTypeOK, OneSubmit
    <2>3. CASE HandleFetchDeliveries(c, x) /\ panel.selected # x
      <3>1. Send(c, "fetch", x) /\ panel' = [selected |-> x, of |-> Nothing, loading |-> TRUE] /\ UNCHANGED <<page, mayManage, row, listed, dialog, banner>>
        BY <2>3 DEF HandleFetchDeliveries
      <3>2. panel' \in PanelType
        BY <3>1 DEF PanelType
      <3> QED BY <1>10, <3>1, <3>2
    <2> QED BY <1>11, <2>1, <2>2, <2>3
  <1>12. ASSUME NEW c \in PageCalls, Serve(c) PROVE PageInv'
    <2>1. PICK pc \in {"answered", "failed"} : pageCall' = [pageCall EXCEPT ![c].pc = pc]
      BY <1>12 DEF Serve
    <2>2. pageCall[c] \in BusyCallType
      BY <1>0, <1>12 DEF Serve, PageCallType, NoPageCall
    <2>3. PICK call : call = [pageCall[c] EXCEPT !.pc = pc]
      OBVIOUS
    <2>4. call \in PageCallType /\ call.kind = pageCall[c].kind /\ pageCall[c].thing \in Things
      BY <2>2, <2>3 DEF PageCallType, BusyCallType
    <2>5. pageCall' = [pageCall EXCEPT ![c] = call]
      BY <2>1, <2>3
    <2>6. /\ pageCall' \in [PageCalls -> PageCallType]
          /\ \A d \in PageCalls : d # c => (d \in Submits' <=> d \in Submits)
          /\ c \in Submits' <=> call.pc # "idle" /\ call.kind \in {"create", "edit"}
      BY <1>0, <2>4, <2>5, PageCallSteps
    <2>7. Submits' \subseteq Submits
      BY <1>12, <2>4, <2>6 DEF Submits, InFlight, Serve
    <2>8. UNCHANGED <<page, mayManage, listed, dialog, banner, panel>> /\ row' \subseteq Things
      BY <1>0, <1>12, <2>4 DEF Serve, PageTypeOK
    <2>9. OneSubmit'
      BY <1>0, <2>7, <2>8, NoNewSubmit DEF OneSubmit
    <2> QED BY <1>0, <1>1, <2>6, <2>8, <2>9 DEF PageInv, PageTypeOK
  <1>13. ASSUME NEW c \in PageCalls, pageCall[c].pc # "idle", Received(c), dialog' \in DialogType, panel' \in PanelType,
                banner' \in Things \union {Nothing}, UNCHANGED <<page, mayManage, row, listed>>,
                page = "docs" => dialog'.editing = Nothing,
                c \notin Submits => dialog'.loading = dialog.loading /\ dialog'.isOpen = dialog.isOpen
         PROVE  PageInv'
    <2>1. NoPageCall \in PageCallType /\ NoPageCall.pc = "idle"
      BY DEF PageCallType, NoPageCall
    <2>2. /\ pageCall' \in [PageCalls -> PageCallType]
          /\ \A d \in PageCalls : d # c => (d \in Submits' <=> d \in Submits)
          /\ c \notin Submits'
      BY <1>0, <1>13, <2>1, PageCallSteps DEF Received
    <2>3. Submits' \subseteq Submits
      BY <2>2 DEF Submits
    <2>4. c \in Submits => Submits' = {}
      BY <1>0, <2>2, <2>3 DEF OneSubmit
    <2>5. OneSubmit'
      BY <1>13, <2>3, <2>4, NoNewSubmit
    <2> QED BY <1>0, <1>1, <1>13, <2>2, <2>5 DEF PageInv, PageTypeOK
  <1>14. page = "docs" => dialog.editing = Nothing
    BY <1>0 DEF OneSubmit
  <1>15. ASSUME NEW c \in PageCalls, CreateAnswered(c) \/ EditAnswered(c) PROVE PageInv'
    <2>1. pageCall[c].pc # "idle" /\ Received(c) /\ UNCHANGED <<page, mayManage, row, listed, banner, panel>> /\ c \in Submits
      BY <1>15 DEF CreateAnswered, EditAnswered, Submits, InFlight
    <2>2. pageCall[c].thing \in Things
      BY <1>0, <2>1 DEF PageCallType, BusyCallType, NoPageCall
    <2>3. dialog' \in DialogType /\ (page = "docs" => dialog'.editing = Nothing)
      BY <1>0, <1>14, <1>15, <2>2 DEF CreateAnswered, EditAnswered, DialogType
    <2> QED BY <1>0, <1>13, <2>1, <2>3 DEF PageTypeOK
  <1>16. ASSUME NEW c \in PageCalls, RotateAnswered(c) \/ DeliveriesAnswered(c) \/ DeleteAnswered(c) PROVE PageInv'
    <2>1. pageCall[c].pc # "idle" /\ Received(c) /\ UNCHANGED <<page, mayManage, row, listed, dialog>>
      BY <1>16 DEF RotateAnswered, DeliveriesAnswered, DeleteAnswered
    <2>2. pageCall[c].thing \in Things
      BY <1>0, <2>1 DEF PageCallType, BusyCallType, NoPageCall
    <2>3. panel' \in PanelType /\ banner' \in Things \union {Nothing}
      BY <1>0, <1>16, <2>2 DEF RotateAnswered, DeliveriesAnswered, DeleteAnswered, PanelType, PageTypeOK
    <2> QED BY <1>0, <1>13, <1>14, <2>1, <2>3
  <1>17. ASSUME NEW c \in PageCalls, CallFailed(c) PROVE PageInv'
    <2>1. pageCall[c].pc # "idle" /\ Received(c) /\ UNCHANGED <<page, mayManage, row, listed, banner>>
      BY <1>17 DEF CallFailed
    <2>2. /\ dialog' \in DialogType /\ dialog'.isOpen = dialog.isOpen /\ dialog'.editing = dialog.editing
          /\ c \notin Submits => dialog'.loading = dialog.loading
      BY <1>0, <1>17 DEF CallFailed, DialogType
    <2>3. panel' \in PanelType
      BY <1>0, <1>17 DEF CallFailed, PanelType
    <2> QED BY <1>0, <1>13, <1>14, <2>1, <2>2, <2>3 DEF PageTypeOK
  <1> QED BY <1>2, <1>3, <1>4, <1>5, <1>6, <1>8, <1>9, <1>11, <1>12, <1>15, <1>16, <1>17 DEF PageNext, PageClick, PageAnswer

\* A page that has just been loaded has no call under way.
LEMMA PageInitHolds == PageInit => PageInv
  <1> SUFFICES ASSUME PageInit PROVE PageInv
    OBVIOUS
  <1>1. Submits = {}
    BY DEF PageInit, Submits, InFlight, NoPageCall
  <1>2. pageCall \in [PageCalls -> PageCallType]
    BY DEF PageInit, PageCallType
  <1>3. PageTypeOK
    BY DEF PageInit, PageTypeOK, ClosedDialog, NoPageCall
  <1> QED BY <1>1, <1>2, <1>3 DEF PageInv, OneSubmit, PageInit, ClosedDialog

(* One submit of a page is under way at a time, for any number of things and of calls,
   however dialogs are closed while they load and opened again (webhooks-client.tsx:79,
   api-tokens-client.tsx:54, create-doc-modal.tsx:66): the submit that is under way keeps the
   dialog loading, on the page of docs because a dialog that loads cannot be closed. *)
THEOREM OneSubmitAtATimeHolds == PageSpec => []OneSubmitAtATime
  <1>1. PageInv => OneSubmitAtATime
    <2> SUFFICES ASSUME PageInv PROVE Cardinality(Submits) <= 1
      BY DEF OneSubmitAtATime
    <2>1. CASE Submits = {}
      <3>1. Cardinality(Submits) = 0
        BY <2>1, FS_EmptySet
      <3> QED BY <3>1
    <2>2. CASE Submits # {}
      <3>1. PICK c \in Submits : TRUE
        BY <2>2
      <3>2. Submits = {c}
        BY <3>1 DEF PageInv, OneSubmit
      <3>3. Cardinality(Submits) = 1
        BY <3>2, FS_Singleton
      <3> QED BY <3>3
    <2> QED BY <2>1, <2>2
  <1> QED BY <1>1, PageInitHolds, PageStepHolds, PTL DEF PageSpec
------------------------------------------------------------------------------
(***************************************************************************)
(* Test environments.                                                      *)
(***************************************************************************)
EnvRowType == [state : {"none", "live", "deleted"}, isDefault : BOOLEAN, value : [Keys -> Stored]]
EnvCallType ==
    [pc : {"idle", "require", "clear", "clearing", "write", "variables", "commit", "readBack", "delete", "answer", "refused"},
     kind : {"create", "update", "delete"}, env : Envs \union {NoEnv}, makeDefault : BOOLEAN, change : [Keys -> Changes],
     saw : SUBSET Envs, locked : SUBSET Envs, read : [Keys -> Stored], tab : EnvTabs \union {NoTab}, mounted : BOOLEAN,
     list : Lists]
EnvPageType == [loaded : BOOLEAN, open : BOOLEAN, saving : BOOLEAN, list : Lists]

EnvTyped ==
    /\ envRow \in [Envs -> EnvRowType] /\ envCall \in [EnvCalls -> EnvCallType]
    /\ envPage \in [EnvTabs -> EnvPageType] /\ typed \in [Envs -> [Keys -> Stored]]

\* A transaction that writes variables has its environment's row locked, and knows what they are.
HoldsItsRow(x) ==
    /\ x.pc # "idle" => x.env \in Envs
    /\ x.pc \in {"variables", "commit"} => x.env \in x.locked
    /\ x.pc = "commit" => x.read = envRow[x.env].value

EnvInv ==
    /\ EnvTyped
    /\ \A c \in EnvCalls : HoldsItsRow(envCall[c])
    /\ \A c, d \in EnvCalls : c # d => envCall[c].locked \intersect envCall[d].locked = {}
    /\ ValuesAreTheLastTyped

LEMMA NewEnvCall == NoEnvCall \in EnvCallType /\ NoEnvCall.pc = "idle" /\ NoEnvCall.locked = {} /\ NoEnvCall.env = NoEnv
  <1>1. NotListed \in [listed : BOOLEAN, keys : SUBSET Keys]
    BY DEF NotListed
  <1>2. [e \in Envs |-> NotListed] \in Lists
    BY <1>1 DEF Lists
  <1>3. [k \in Keys |-> "none"] \in [Keys -> Changes] /\ [k \in Keys |-> "absent"] \in [Keys -> Stored]
    BY DEF Changes, Stored
  <1> QED BY <1>2, <1>3 DEF NoEnvCall, EnvCallType

LEMMA ChangesAreStored == ASSUME NEW change \in Changes, NEW old \in Stored PROVE Changed(change, old) \in Stored
  BY DEF Changes, Stored, Changed

\* One call changes, and no stored value does.
LEMMA OneEnvCall ==
    ASSUME EnvInv, NEW c \in EnvCalls, NEW x \in EnvCallType, envCall' = [envCall EXCEPT ![c] = x],
           envRow' \in [Envs -> EnvRowType], \A e \in Envs : envRow'[e].value = envRow[e].value,
           envPage' \in [EnvTabs -> EnvPageType], typed' = typed,
           HoldsItsRow(x), \A d \in EnvCalls \ {c} : x.locked \intersect envCall[d].locked = {}
    PROVE  EnvInv'
  <1>1. EnvTyped'
    BY DEF EnvInv, EnvTyped
  <1>2. ValuesAreTheLastTyped'
    BY DEF EnvInv, ValuesAreTheLastTyped
  <1>3. envCall'[c] = x /\ \A d \in EnvCalls \ {c} : envCall'[d] = envCall[d]
    BY DEF EnvInv, EnvTyped
  <1>4. \A a, d \in EnvCalls : a # d => envCall'[a].locked \intersect envCall'[d].locked = {}
    BY <1>3 DEF EnvInv
  <1>5. ASSUME NEW d \in EnvCalls PROVE HoldsItsRow(envCall[d])'
    BY <1>3 DEF EnvInv, HoldsItsRow
  <1> QED BY <1>1, <1>2, <1>4, <1>5 DEF EnvInv

\* A call as it is: what it has typed, whose row it holds.
LEMMA OldEnvCall ==
    ASSUME EnvInv, NEW c \in EnvCalls
    PROVE  /\ envCall[c] \in EnvCallType /\ HoldsItsRow(envCall[c])
           /\ \A d \in EnvCalls \ {c} : envCall[c].locked \intersect envCall[d].locked = {}
           /\ envRow \in [Envs -> EnvRowType] /\ envPage \in [EnvTabs -> EnvPageType]
  BY DEF EnvInv, EnvTyped

\* A transaction reads, waits, locks or is given up.
LEMMA ServiceKeeps ==
    ASSUME EnvInv, NEW c \in EnvCalls,
           RequireEnvironment(c) \/ ClearDefaults(c) \/ DefaultsCleared(c) \/ WriteEnvironment(c) \/ ReadVariables(c)
           \/ EnvCallFails(c)
    PROVE  EnvInv'
  <1>0. UNCHANGED <<envRow, envPage, typed>>
    BY DEF RequireEnvironment, ClearDefaults, DefaultsCleared, WriteEnvironment, ReadVariables, EnvCallFails
  <1>1. PICK o : o = envCall[c]
    OBVIOUS
  <1>2. /\ o \in EnvCallType /\ HoldsItsRow(o) /\ \A d \in EnvCalls \ {c} : o.locked \intersect envCall[d].locked = {}
        /\ envRow \in [Envs -> EnvRowType] /\ envPage \in [EnvTabs -> EnvPageType]
    BY <1>1, OldEnvCall
  <1>3. ASSUME NEW x \in EnvCallType, envCall' = [envCall EXCEPT ![c] = x], HoldsItsRow(x),
               \A d \in EnvCalls \ {c} : x.locked \intersect envCall[d].locked = {}
        PROVE  EnvInv'
    BY <1>0, <1>2, <1>3, OneEnvCall
  <1>4. CASE RequireEnvironment(c)
    <2>1. PICK pc \in {"refused", "delete", "clear", "write"} : envCall' = [envCall EXCEPT ![c].pc = pc]
      BY <1>4 DEF RequireEnvironment
    <2>2. PICK x : x = [o EXCEPT !.pc = pc]
      OBVIOUS
    <2>3. x \in EnvCallType /\ x.pc = pc /\ x.env = o.env /\ x.locked = o.locked /\ x.read = o.read
      BY <1>2, <2>2 DEF EnvCallType
    <2>4. envCall' = [envCall EXCEPT ![c] = x]
      BY <1>1, <2>1, <2>2
    <2>5. o.pc # "idle"
      BY <1>1, <1>4 DEF RequireEnvironment, EnvCalling
    <2>6. HoldsItsRow(x)
      BY <1>2, <2>3, <2>5 DEF HoldsItsRow
    <2> QED BY <1>2, <1>3, <2>3, <2>4, <2>6
  <1>5. CASE ClearDefaults(c)
    <2>1. PICK saw \in SUBSET Envs : envCall' = [envCall EXCEPT ![c].pc = "clearing", ![c].saw = saw]
      BY <1>5 DEF ClearDefaults
    <2>2. PICK x : x = [o EXCEPT !.pc = "clearing", !.saw = saw]
      OBVIOUS
    <2>3. x \in EnvCallType /\ x.pc = "clearing" /\ x.env = o.env /\ x.locked = o.locked /\ x.read = o.read
      BY <1>2, <2>2 DEF EnvCallType
    <2>4. envCall' = [envCall EXCEPT ![c] = x]
      BY <1>1, <1>2, <2>1, <2>2 DEF EnvCallType, EnvInv, EnvTyped
    <2>5. o.pc # "idle"
      BY <1>1, <1>5 DEF ClearDefaults, EnvCalling
    <2>6. HoldsItsRow(x)
      BY <1>2, <2>3, <2>5 DEF HoldsItsRow
    <2> QED BY <1>2, <1>3, <2>3, <2>4, <2>6
  <1>6. CASE DefaultsCleared(c)
    <2>1. PICK locked : locked = {e \in envCall[c].saw : LiveEnv(e) /\ envRow[e].isDefault}
      OBVIOUS
    <2>2. locked \in SUBSET Envs /\ \A d \in EnvCalls \ {c} : locked \intersect envCall[d].locked = {}
      BY <1>1, <1>2, <1>6, <2>1 DEF DefaultsCleared, Locked, EnvCallType
    <2>3. PICK x : x = [o EXCEPT !.pc = "write", !.locked = locked]
      OBVIOUS
    <2>4. x \in EnvCallType /\ x.pc = "write" /\ x.env = o.env /\ x.locked = locked
      BY <1>2, <2>2, <2>3 DEF EnvCallType
    <2>5. envCall' = [envCall EXCEPT ![c] = x]
      BY <1>1, <1>2, <1>6, <2>1, <2>3 DEF DefaultsCleared, EnvCallType, EnvInv, EnvTyped
    <2>6. o.pc # "idle"
      BY <1>1, <1>6 DEF DefaultsCleared, EnvCalling
    <2>7. HoldsItsRow(x)
      BY <1>2, <2>4, <2>6 DEF HoldsItsRow
    <2> QED BY <1>3, <2>2, <2>4, <2>5, <2>7
  <1>7. CASE WriteEnvironment(c)
    <2>1. o.pc = "write" /\ ~Locked(c, o.env) /\ o.env \in Envs
      BY <1>1, <1>2, <1>7 DEF WriteEnvironment, EnvCalling, HoldsItsRow
    <2>2. PICK locked : locked = o.locked \union {o.env}
      OBVIOUS
    <2>3. locked \in SUBSET Envs /\ o.env \in locked /\ \A d \in EnvCalls \ {c} : locked \intersect envCall[d].locked = {}
      BY <1>2, <2>1, <2>2 DEF Locked, EnvCallType
    <2>4. PICK x : x = [o EXCEPT !.pc = "variables", !.locked = locked]
      OBVIOUS
    <2>5. x \in EnvCallType /\ x.pc = "variables" /\ x.env = o.env /\ x.locked = locked
      BY <1>2, <2>3, <2>4 DEF EnvCallType
    <2>6. envCall' = [envCall EXCEPT ![c] = x]
      BY <1>1, <1>2, <1>7, <2>2, <2>4 DEF WriteEnvironment, EnvCallType, EnvInv, EnvTyped
    <2>7. HoldsItsRow(x)
      BY <2>1, <2>3, <2>5 DEF HoldsItsRow
    <2> QED BY <1>3, <2>3, <2>5, <2>6, <2>7
  <1>8. CASE ReadVariables(c)
    <2>1. o.pc = "variables" /\ o.env \in Envs /\ o.env \in o.locked
      BY <1>1, <1>2, <1>8 DEF ReadVariables, EnvCalling, HoldsItsRow
    <2>2. PICK read : read = envRow[o.env].value
      OBVIOUS
    <2>3. read \in [Keys -> Stored]
      BY <1>2, <2>1, <2>2 DEF EnvRowType
    <2>4. PICK x : x = [o EXCEPT !.pc = "commit", !.read = read]
      OBVIOUS
    <2>5. x \in EnvCallType /\ x.pc = "commit" /\ x.env = o.env /\ x.locked = o.locked /\ x.read = read
      BY <1>2, <2>3, <2>4 DEF EnvCallType
    <2>6. envCall' = [envCall EXCEPT ![c] = x]
      BY <1>1, <1>2, <1>8, <2>2, <2>4 DEF ReadVariables, EnvCallType, EnvInv, EnvTyped
    <2>7. HoldsItsRow(x)
      BY <2>1, <2>2, <2>5 DEF HoldsItsRow
    <2> QED BY <1>2, <1>3, <2>5, <2>6, <2>7
  <1>9. CASE EnvCallFails(c)
    <2>1. PICK x : x = [o EXCEPT !.pc = "refused", !.locked = {}]
      OBVIOUS
    <2>2. x \in EnvCallType /\ x.pc = "refused" /\ x.env = o.env /\ x.locked = {}
      BY <1>2, <2>1 DEF EnvCallType
    <2>3. envCall' = [envCall EXCEPT ![c] = x]
      BY <1>1, <1>2, <1>9, <2>1 DEF EnvCallFails, EnvCallType, EnvInv, EnvTyped
    <2>4. o.pc # "idle"
      BY <1>1, <1>9 DEF EnvCallFails
    <2>5. HoldsItsRow(x)
      BY <1>2, <2>2, <2>4 DEF HoldsItsRow
    <2> QED BY <1>3, <2>2, <2>3, <2>5
  <1> QED BY <1>4, <1>5, <1>6, <1>7, <1>8, <1>9

\* The answer of a call: its list of environments, which says nothing of values.
LEMMA AnswersKeep ==
    ASSUME EnvInv, NEW c \in EnvCalls, GetEnvironmentById(c) \/ DeleteEnvironment(c)
    PROVE  EnvInv'
  <1>1. PICK o : o = envCall[c]
    OBVIOUS
  <1>2. /\ o \in EnvCallType /\ HoldsItsRow(o) /\ \A d \in EnvCalls \ {c} : o.locked \intersect envCall[d].locked = {}
        /\ envRow \in [Envs -> EnvRowType] /\ envPage \in [EnvTabs -> EnvPageType]
        /\ envCall \in [EnvCalls -> EnvCallType]
    BY <1>1, OldEnvCall DEF EnvInv, EnvTyped
  <1>3. UNCHANGED <<envPage, typed>> /\ o.pc # "idle" /\ o.env \in Envs
    BY <1>1, <1>2 DEF GetEnvironmentById, DeleteEnvironment, EnvCalling, HoldsItsRow
  <1>4. PICK entry \in [listed : BOOLEAN, keys : SUBSET Keys] :
            envCall' = [envCall EXCEPT ![c].pc = "answer", ![c].list[o.env] = entry]
    <2>1. NotListed \in [listed : BOOLEAN, keys : SUBSET Keys]
      BY DEF NotListed
    <2>2. [listed |-> TRUE, keys |-> StoredKeys(o.env)] \in [listed : BOOLEAN, keys : SUBSET Keys]
      BY DEF StoredKeys
    <2> QED BY <1>1, <2>1, <2>2 DEF GetEnvironmentById, DeleteEnvironment
  <1>5. PICK list : list = [o.list EXCEPT ![o.env] = entry]
    OBVIOUS
  <1>6. list \in Lists
    BY <1>2, <1>5 DEF Lists, EnvCallType
  <1>7. PICK x : x = [o EXCEPT !.pc = "answer", !.list = list]
    OBVIOUS
  <1>8. x \in EnvCallType /\ x.pc = "answer" /\ x.env = o.env /\ x.locked = o.locked
    BY <1>2, <1>6, <1>7 DEF EnvCallType
  <1>9. envCall' = [envCall EXCEPT ![c] = x]
    BY <1>1, <1>2, <1>4, <1>5, <1>7 DEF EnvCallType
  <1>10. HoldsItsRow(x)
    BY <1>3, <1>8 DEF HoldsItsRow
  <1>11. envRow' \in [Envs -> EnvRowType] /\ \A e \in Envs : envRow'[e].value = envRow[e].value
    <2>1. CASE GetEnvironmentById(c)
      BY <1>2, <2>1 DEF GetEnvironmentById
    <2>2. CASE DeleteEnvironment(c)
      <3>1. PICK changed : changed = [envRow[o.env] EXCEPT !.state = "deleted"]
        OBVIOUS
      <3>2. changed \in EnvRowType /\ changed.value = envRow[o.env].value
        BY <1>2, <1>3, <3>1 DEF EnvRowType
      <3>3. envRow' = [envRow EXCEPT ![o.env] = changed]
        BY <1>1, <2>2, <3>1 DEF DeleteEnvironment
      <3> QED BY <1>2, <3>2, <3>3
    <2> QED BY <2>1, <2>2
  <1> QED BY <1>2, <1>3, <1>8, <1>9, <1>10, <1>11, OneEnvCall

\* The commit: what is written is what was read or typed, of a row that nobody else wrote.
LEMMA CommitKeeps ==
    ASSUME EnvInv, NEW c \in EnvCalls, CommitEnvironment(c)
    PROVE  EnvInv'
  <1>1. PICK o : o = envCall[c]
    OBVIOUS
  <1>2. /\ o \in EnvCallType /\ HoldsItsRow(o) /\ \A d \in EnvCalls \ {c} : o.locked \intersect envCall[d].locked = {}
        /\ envRow \in [Envs -> EnvRowType] /\ envPage \in [EnvTabs -> EnvPageType]
        /\ envCall \in [EnvCalls -> EnvCallType]
    BY <1>1, OldEnvCall DEF EnvInv, EnvTyped
  <1>3. UNCHANGED envPage /\ o.pc = "commit" /\ o.env \in Envs /\ o.env \in o.locked /\ o.read = envRow[o.env].value
    BY <1>1, <1>2 DEF CommitEnvironment, EnvCalling, HoldsItsRow
  <1>4. PICK written : written = [k \in Keys |-> Changed(o.change[k], o.read[k])]
    OBVIOUS
  <1>5. written \in [Keys -> Stored]
    <2>1. \A k \in Keys : o.change[k] \in Changes /\ o.read[k] \in Stored
      BY <1>2 DEF EnvCallType
    <2> QED BY <1>4, <2>1, ChangesAreStored
  <1>6. [k \in Keys |-> IF o.change[k] = "none" THEN envRow[o.env].value[k] ELSE Changed(o.change[k], o.read[k])] = written
    <2>1. \A k \in Keys : o.change[k] = "none" => Changed(o.change[k], o.read[k]) = envRow[o.env].value[k]
      BY <1>3 DEF Changed
    <2> QED BY <1>4, <2>1
  <1>7. envRow' = [e \in Envs |->
             IF e = o.env THEN [state |-> IF o.kind = "create" THEN "live" ELSE envRow[e].state,
                                isDefault |-> o.makeDefault, value |-> written]
             ELSE IF e \in o.locked THEN [envRow[e] EXCEPT !.isDefault = FALSE] ELSE envRow[e]]
    BY <1>1, <1>6 DEF CommitEnvironment
  <1>8. \A e \in Envs \ {o.env} : envRow'[e] \in EnvRowType /\ envRow'[e].value = envRow[e].value
    BY <1>2, <1>7 DEF EnvRowType
  <1>9. envRow'[o.env] \in EnvRowType /\ envRow'[o.env].value = written
    <2>1. PICK state : state = IF o.kind = "create" THEN "live" ELSE envRow[o.env].state
      OBVIOUS
    <2>2. state \in {"none", "live", "deleted"} /\ o.makeDefault \in BOOLEAN
      BY <1>2, <1>3, <2>1 DEF EnvRowType, EnvCallType
    <2>3. PICK changed : changed = [state |-> state, isDefault |-> o.makeDefault, value |-> written]
      OBVIOUS
    <2>4. changed \in EnvRowType /\ changed.value = written
      BY <1>5, <2>2, <2>3 DEF EnvRowType
    <2>5. envRow'[o.env] = changed
      BY <1>3, <1>7, <2>1, <2>3
    <2> QED BY <2>4, <2>5
  <1>10. envRow' \in [Envs -> EnvRowType]
    <2>1. \A e \in Envs : envRow'[e] \in EnvRowType
      BY <1>8, <1>9
    <2>2. envRow' = [e \in Envs |-> envRow'[e]]
      BY <1>7
    <2> QED BY <2>1, <2>2
  <1>11. typed' = [typed EXCEPT ![o.env] = written] /\ typed \in [Envs -> [Keys -> Stored]]
    <2>1. typed[o.env] = o.read /\ typed \in [Envs -> [Keys -> Stored]]
      BY <1>3 DEF EnvInv, EnvTyped, ValuesAreTheLastTyped
    <2>2. typed' = [typed EXCEPT ![o.env] = [k \in Keys |-> Changed(o.change[k], typed[o.env][k])]]
      BY <1>1, <1>3, <2>1 DEF CommitEnvironment
    <2> QED BY <1>4, <2>1, <2>2
  <1>12. ValuesAreTheLastTyped'
    BY <1>3, <1>8, <1>9, <1>11 DEF EnvInv, ValuesAreTheLastTyped
  <1>13. PICK x : x = [o EXCEPT !.pc = "readBack", !.locked = {}]
    OBVIOUS
  <1>14. x \in EnvCallType /\ x.pc = "readBack" /\ x.env = o.env /\ x.locked = {}
    BY <1>2, <1>13 DEF EnvCallType
  <1>15. envCall' = [envCall EXCEPT ![c] = x]
    BY <1>1, <1>2, <1>13 DEF CommitEnvironment, EnvCallType
  <1>16. EnvTyped'
    BY <1>2, <1>3, <1>5, <1>10, <1>11, <1>14, <1>15 DEF EnvTyped
  <1>17. envCall'[c] = x /\ \A d \in EnvCalls \ {c} : envCall'[d] = envCall[d]
    BY <1>2, <1>15
  <1>18. \A a, d \in EnvCalls : a # d => envCall'[a].locked \intersect envCall'[d].locked = {}
    BY <1>14, <1>17 DEF EnvInv
  <1>19. ASSUME NEW d \in EnvCalls PROVE HoldsItsRow(envCall[d])'
    <2>1. CASE d = c
      BY <1>3, <1>14, <1>17, <2>1 DEF HoldsItsRow
    <2>2. CASE d # c
      <3>1. HoldsItsRow(envCall[d]) /\ o.locked \intersect envCall[d].locked = {} /\ envCall'[d] = envCall[d]
        BY <1>2, <1>17, <2>2 DEF EnvInv
      <3>2. envCall[d].pc = "commit" => envCall[d].env \in Envs \ {o.env}
        BY <1>3, <3>1 DEF HoldsItsRow
      <3> QED BY <1>8, <3>1, <3>2 DEF HoldsItsRow
    <2> QED BY <2>1, <2>2
  <1> QED BY <1>12, <1>16, <1>18, <1>19 DEF EnvInv

\* A tab is loaded, or its modal opened or closed: the calls go on.
LEMMA TabsKeep ==
    ASSUME EnvInv, NEW t \in EnvTabs, LoadTestsPage(t) \/ OpenModal(t)
    PROVE  EnvInv'
  <1>1. UNCHANGED <<envRow, typed>> /\ EnvTyped
    BY DEF LoadTestsPage, OpenModal, EnvInv
  <1>2. envPage' \in [EnvTabs -> EnvPageType]
    <2>1. CASE LoadTestsPage(t)
      <3>1. PICK list : list = [e \in Envs |-> IF LiveEnv(e) THEN [listed |-> TRUE, keys |-> StoredKeys(e)] ELSE NotListed]
        OBVIOUS
      <3>2. list \in Lists
        BY <3>1 DEF Lists, NotListed, StoredKeys
      <3>3. PICK page1 : page1 = [loaded |-> TRUE, open |-> FALSE, saving |-> FALSE, list |-> list]
        OBVIOUS
      <3>4. page1 \in EnvPageType
        BY <3>2, <3>3 DEF EnvPageType
      <3>5. envPage' = [envPage EXCEPT ![t] = page1]
        BY <2>1, <3>1, <3>3 DEF LoadTestsPage
      <3> QED BY <1>1, <3>4, <3>5 DEF EnvTyped
    <2>2. CASE OpenModal(t)
      <3>1. PICK page1 : page1 = [envPage[t] EXCEPT !.open = ~@, !.saving = FALSE]
        OBVIOUS
      <3>2. page1 \in EnvPageType
        BY <1>1, <3>1 DEF EnvTyped, EnvPageType
      <3>3. envPage' = [envPage EXCEPT ![t] = page1]
        BY <1>1, <2>2, <3>1 DEF OpenModal, EnvTyped, EnvPageType
      <3> QED BY <1>1, <3>2, <3>3 DEF EnvTyped
    <2> QED BY <2>1, <2>2
  <1>3. ASSUME NEW c \in EnvCalls
        PROVE  /\ envCall'[c] \in EnvCallType /\ envCall'[c].pc = envCall[c].pc /\ envCall'[c].env = envCall[c].env
               /\ envCall'[c].locked = envCall[c].locked /\ envCall'[c].read = envCall[c].read
    <2>1. PICK o : o = envCall[c]
      OBVIOUS
    <2>2. o \in EnvCallType
      BY <1>1, <2>1 DEF EnvTyped
    <2>3. PICK x : x = [o EXCEPT !.tab = NoTab, !.mounted = FALSE]
      OBVIOUS
    <2>4. PICK y : y = [o EXCEPT !.mounted = FALSE]
      OBVIOUS
    <2>5. x \in EnvCallType /\ x.pc = o.pc /\ x.env = o.env /\ x.locked = o.locked /\ x.read = o.read
      BY <2>2, <2>3 DEF EnvCallType
    <2>6. y \in EnvCallType /\ y.pc = o.pc /\ y.env = o.env /\ y.locked = o.locked /\ y.read = o.read
      BY <2>2, <2>4 DEF EnvCallType
    <2>7. envCall'[c] \in {o, x, y}
      BY <2>1, <2>3, <2>4 DEF LoadTestsPage, OpenModal
    <2> QED BY <2>1, <2>2, <2>5, <2>6, <2>7
  <1>4. envCall' \in [EnvCalls -> EnvCallType]
    BY <1>3 DEF LoadTestsPage, OpenModal
  <1>5. EnvTyped'
    BY <1>1, <1>2, <1>4 DEF EnvTyped
  <1>6. \A c \in EnvCalls : HoldsItsRow(envCall[c])'
    BY <1>1, <1>3 DEF EnvInv, HoldsItsRow
  <1>7. \A c, d \in EnvCalls : c # d => envCall'[c].locked \intersect envCall'[d].locked = {}
    BY <1>3 DEF EnvInv
  <1> QED BY <1>1, <1>5, <1>6, <1>7 DEF EnvInv, ValuesAreTheLastTyped

\* A save is sent: a call with nothing locked yet.
LEMMA SendKeeps ==
    ASSUME EnvInv, NEW t \in EnvTabs, NEW c \in EnvCalls, NEW call \in EnvCallType, SendSave(t, c, call),
           call.pc \in {"require", "clear", "write"}, call.env \in Envs, call.locked = {}
    PROVE  EnvInv'
  <1>0. UNCHANGED <<envRow, typed>> /\ EnvTyped
    BY DEF SendSave, EnvInv
  <1>1. PICK x : x = [call EXCEPT !.tab = t, !.list = envPage[t].list]
    OBVIOUS
  <1>2. envPage[t] \in EnvPageType /\ envPage[t].list \in Lists
    BY <1>0 DEF EnvTyped, EnvPageType
  <1>3. x \in EnvCallType /\ x.pc = call.pc /\ x.env = call.env /\ x.locked = {}
    BY <1>1, <1>2 DEF EnvCallType
  <1>4. envCall' = [envCall EXCEPT ![c] = x]
    BY <1>1 DEF SendSave
  <1>5. PICK page1 : page1 = [envPage[t] EXCEPT !.saving = TRUE]
    OBVIOUS
  <1>6. page1 \in EnvPageType
    BY <1>2, <1>5 DEF EnvPageType
  <1>7. envPage' = [envPage EXCEPT ![t] = page1]
    BY <1>5 DEF SendSave
  <1>8. envPage' \in [EnvTabs -> EnvPageType]
    BY <1>0, <1>6, <1>7 DEF EnvTyped
  <1>9. HoldsItsRow(x)
    BY <1>3 DEF HoldsItsRow
  <1> QED BY <1>0, <1>3, <1>4, <1>8, <1>9, OneEnvCall DEF EnvTyped

LEMMA ModalKeeps ==
    ASSUME EnvInv, NEW t \in EnvTabs, NEW c \in EnvCalls, EnvModal(t, c)
    PROVE  EnvInv'
  <1>1. PICK e \in Envs : HandleCreateEnv(t, c, e) \/ HandleSave(t, c, e) \/ HandleDeleteEnv(t, c, e)
    BY DEF EnvModal
  <1>2. PICK n : n = NoEnvCall
    OBVIOUS
  <1>3. n \in EnvCallType /\ n.locked = {}
    BY <1>2, NewEnvCall
  <1>4. CASE HandleCreateEnv(t, c, e)
    <2>1. PICK change \in VariablesPayload({}), makeDefault \in BOOLEAN :
          SendSave(t, c, [NoEnvCall EXCEPT !.kind = "create", !.env = e, !.makeDefault = makeDefault, !.change = change,
                                           !.pc = IF makeDefault THEN "clear" ELSE "write"])
      BY <1>4 DEF HandleCreateEnv
    <2>2. PICK call : call = [n EXCEPT !.kind = "create", !.env = e, !.makeDefault = makeDefault, !.change = change,
                                       !.pc = IF makeDefault THEN "clear" ELSE "write"]
      OBVIOUS
    <2>3. change \in [Keys -> Changes]
      BY <2>1 DEF VariablesPayload
    <2>4. call \in EnvCallType /\ call.pc \in {"require", "clear", "write"} /\ call.env = e /\ call.locked = {}
      BY <1>3, <2>1, <2>2, <2>3 DEF EnvCallType
    <2>5. SendSave(t, c, call)
      BY <1>2, <2>1, <2>2
    <2> QED BY <2>4, <2>5, SendKeeps
  <1>5. CASE HandleSave(t, c, e)
    <2>1. PICK change \in VariablesPayload(envPage[t].list[e].keys), makeDefault \in BOOLEAN :
          SendSave(t, c, [NoEnvCall EXCEPT !.env = e, !.makeDefault = makeDefault, !.change = change, !.pc = "require"])
      BY <1>5 DEF HandleSave
    <2>2. PICK call : call = [n EXCEPT !.env = e, !.makeDefault = makeDefault, !.change = change, !.pc = "require"]
      OBVIOUS
    <2>3. change \in [Keys -> Changes]
      BY <2>1 DEF VariablesPayload
    <2>4. call \in EnvCallType /\ call.pc \in {"require", "clear", "write"} /\ call.env = e /\ call.locked = {}
      BY <1>3, <2>1, <2>2, <2>3 DEF EnvCallType
    <2>5. SendSave(t, c, call)
      BY <1>2, <2>1, <2>2
    <2> QED BY <2>4, <2>5, SendKeeps
  <1>6. CASE HandleDeleteEnv(t, c, e)
    <2>1. PICK call : call = [n EXCEPT !.kind = "delete", !.env = e, !.pc = "require"]
      OBVIOUS
    <2>2. call \in EnvCallType /\ call.pc \in {"require", "clear", "write"} /\ call.env = e /\ call.locked = {}
      BY <1>3, <2>1 DEF EnvCallType
    <2>3. SendSave(t, c, call)
      BY <1>2, <1>6, <2>1 DEF HandleDeleteEnv
    <2> QED BY <2>2, <2>3, SendKeeps
  <1> QED BY <1>1, <1>4, <1>5, <1>6

\* An answer is put into the list of the page that asked.
LEMMA AnsweredKeeps ==
    ASSUME EnvInv, NEW c \in EnvCalls, EnvAnswered(c)
    PROVE  EnvInv'
  <1>0. UNCHANGED <<envRow, typed>> /\ EnvTyped
    BY DEF EnvAnswered, EnvInv
  <1>1. PICK x : x = NoEnvCall
    OBVIOUS
  <1>2. x \in EnvCallType /\ x.pc = "idle" /\ x.locked = {}
    BY <1>1, NewEnvCall
  <1>3. envCall' = [envCall EXCEPT ![c] = x]
    BY <1>1 DEF EnvAnswered
  <1>4. HoldsItsRow(x)
    BY <1>2 DEF HoldsItsRow
  <1>5. envPage' \in [EnvTabs -> EnvPageType]
    <2>1. PICK t : t = envCall[c].tab
      OBVIOUS
    <2>2. t \in EnvTabs \union {NoTab} /\ envCall[c].mounted \in BOOLEAN /\ envCall[c].list \in Lists
      BY <1>0, <2>1 DEF EnvTyped, EnvCallType
    <2>3. CASE t = NoTab
      BY <1>0, <2>1, <2>3 DEF EnvAnswered, EnvTyped
    <2>4. CASE t \in EnvTabs
      <3>1. t # NoTab
        BY <2>4, EnvAssumption
      <3>2. PICK saving \in BOOLEAN : saving = (envPage[t].saving /\ ~envCall[c].mounted)
        BY <1>0, <2>2, <2>4
      <3>3. PICK list : list = IF EnvCalling(c, "answer") THEN envCall[c].list ELSE envPage[t].list
        OBVIOUS
      <3>4. list \in Lists
        BY <1>0, <2>2, <2>4, <3>3 DEF EnvTyped, EnvPageType
      <3>5. PICK page1 : page1 = [envPage[t] EXCEPT !.saving = saving, !.list = list]
        OBVIOUS
      <3>6. page1 \in EnvPageType
        BY <1>0, <2>4, <3>4, <3>5 DEF EnvTyped, EnvPageType
      <3>7. envPage' = [envPage EXCEPT ![t].saving = saving, ![t].list = list]
        BY <2>1, <3>1, <3>2, <3>3 DEF EnvAnswered
      <3>8. envPage' = [envPage EXCEPT ![t] = page1]
        BY <1>0, <2>4, <3>5, <3>7 DEF EnvTyped, EnvPageType
      <3> QED BY <1>0, <3>6, <3>8 DEF EnvTyped
    <2> QED BY <2>2, <2>3, <2>4
  <1> QED BY <1>0, <1>2, <1>3, <1>4, <1>5, OneEnvCall DEF EnvTyped

\* The environments there are at the start.
LEMMA EnvInitHolds == EnvInit => EnvInv
  <1> SUFFICES ASSUME EnvInit PROVE EnvInv
    OBVIOUS
  <1>1. PICK made \in SUBSET Envs, default \in Envs, value \in [Keys -> Values \union {"absent"}] :
          envRow = [e \in Envs |-> IF e \in made THEN [state |-> "live", isDefault |-> e = default, value |-> value]
                                   ELSE NoEnvRow]
    BY DEF EnvInit
  <1>2. NoEnvRow \in EnvRowType
    BY DEF NoEnvRow, EnvRowType, Stored
  <1>3. \A b \in BOOLEAN : [state |-> "live", isDefault |-> b, value |-> value] \in EnvRowType
    BY <1>1 DEF EnvRowType, Stored
  <1>4. \A e \in Envs : (e = default) \in BOOLEAN
    OBVIOUS
  <1>5. envRow \in [Envs -> EnvRowType]
    BY <1>1, <1>2, <1>3, <1>4
  <1>6. typed \in [Envs -> [Keys -> Stored]] /\ ValuesAreTheLastTyped
    BY <1>5 DEF EnvInit, EnvRowType, ValuesAreTheLastTyped
  <1>7. envCall \in [EnvCalls -> EnvCallType] /\ \A c \in EnvCalls : envCall[c].pc = "idle" /\ envCall[c].locked = {}
    BY NewEnvCall DEF EnvInit
  <1>8. NoEnvCall.list \in Lists
    BY NewEnvCall DEF EnvCallType
  <1>9. PICK list : list = NoEnvCall.list
    OBVIOUS
  <1>10. [loaded |-> FALSE, open |-> FALSE, saving |-> FALSE, list |-> list] \in EnvPageType
    BY <1>8, <1>9 DEF EnvPageType
  <1>11. envPage \in [EnvTabs -> EnvPageType]
    BY <1>9, <1>10 DEF EnvInit
  <1> QED BY <1>5, <1>6, <1>7, <1>11 DEF EnvInv, EnvTyped, HoldsItsRow

\* Every step of a transaction, a tab or the modal.
LEMMA EnvStepHolds == EnvInv /\ [EnvNext]_envVars => EnvInv'
  <1> SUFFICES ASSUME EnvInv, [EnvNext]_envVars PROVE EnvInv'
    OBVIOUS
  <1>1. CASE UNCHANGED envVars
    BY <1>1 DEF envVars, EnvInv, EnvTyped, HoldsItsRow, ValuesAreTheLastTyped
  <1> QED BY <1>1, ServiceKeeps, AnswersKeep, CommitKeeps, TabsKeep, ModalKeeps, AnsweredKeeps DEF EnvNext, EnvService

(* The value of a variable is the last one that was typed, for any number of environments,
   variables, tabs and saves under way (test-environments.service.ts:176-203): a transaction
   holds the row of its environment from before it reads the variables until it commits, and no
   other transaction holds it then. *)
THEOREM ValuesAreTheLastTypedHolds == EnvSpec => []ValuesAreTheLastTyped
  <1>1. EnvInv => ValuesAreTheLastTyped
    BY DEF EnvInv
  <1> QED BY <1>1, EnvInitHolds, EnvStepHolds, PTL DEF EnvSpec

\* The saves that were sent are within their bound.
SavesTyped == saves \in 0..MaxSaves
\* Only a save counts, and not beyond the bound.
LEMMA SavesKept == SavesTyped /\ [EnvNext]_envVars => SavesTyped'
  <1> SUFFICES ASSUME SavesTyped, [EnvNext]_envVars PROVE SavesTyped'
    OBVIOUS
  <1>1. CASE saves' = saves
    BY <1>1 DEF SavesTyped
  <1>2. ASSUME NEW t \in EnvTabs, NEW c \in EnvCalls, NEW call, SendSave(t, c, call) PROVE SavesTyped'
    BY <1>2, EnvAssumption DEF SendSave, SavesTyped
  <1>3. ASSUME NEW c \in EnvCalls, EnvService(c) \/ EnvAnswered(c) PROVE saves' = saves
    BY <1>3 DEF EnvService, EnvAnswered, RequireEnvironment, ClearDefaults, DefaultsCleared, WriteEnvironment, ReadVariables,
                CommitEnvironment, GetEnvironmentById, DeleteEnvironment, EnvCallFails
  <1>4. ASSUME NEW t \in EnvTabs, LoadTestsPage(t) \/ OpenModal(t) PROVE saves' = saves
    BY <1>4 DEF LoadTestsPage, OpenModal
  <1>5. ASSUME NEW t \in EnvTabs, NEW c \in EnvCalls, EnvModal(t, c) PROVE SavesTyped'
    BY <1>2, <1>5 DEF EnvModal, HandleCreateEnv, HandleSave, HandleDeleteEnv
  <1> QED BY <1>1, <1>3, <1>4, <1>5 DEF EnvNext, envVars

\* What keeps the values keeps the types.
LEMMA EnvTypes == EnvInv /\ SavesTyped => EnvTypeOK
  <1> SUFFICES ASSUME EnvInv, SavesTyped PROVE EnvTypeOK
    OBVIOUS
  <1>1. \A c \in EnvCalls : envCall[c] \in EnvCallType
    BY DEF EnvInv, EnvTyped
  <1> QED BY <1>1 DEF EnvInv, EnvTyped, EnvTypeOK, EnvRowType, EnvPageType, SavesTyped, EnvCallType
------------------------------------------------------------------------------
(***************************************************************************)
(* The portal's Try-it-out.                                                *)
(***************************************************************************)
\* The operation that a page shows, if it has one.
Shown == Operations \union {NoOperation}

AnswerType == [version : Nat, servers : Seq(Servers)]
TryCallType == [pc : {"idle", "sent", "undeclared", "failed", "answered"}, to : {"nobody", "panel", "modal"},
                op : Shown, server : Servers \union {NoServer}, version : Nat]
ModalType == [op : Operations \union {NoOperation}, server : Servers \union {NoServer}, sending : BOOLEAN,
              response : Operations \union {NoOperation}, failed : BOOLEAN]

TryTyped ==
    /\ declared \in Seq(ServerLists) /\ {rendered, cachedReady} \subseteq AnswerType
    /\ active \in Shown
    /\ modal \in ModalType /\ tryCall \in [TryCalls -> TryCallType]

\* What the portal answers of a version stays true of it: a version that is ready does not change.
Answer(a) == a = NoAnswer \/ (a.version \in 1..Latest /\ a.servers \in {declared[a.version], <<>>})

\* A call under way is about the page as it is.
CallFits(c) ==
    /\ tryCall[c].pc = "idle" <=> tryCall[c].to = "nobody"
    /\ tryCall[c].pc # "idle" => rendered # NoAnswer /\ tryCall[c].version = rendered.version
    /\ tryCall[c].pc = "undeclared" => tryCall[c].server \notin Elements(rendered.servers)

\* The modal has one call under way, and shows nothing else then.
ModalFits ==
    /\ \A c \in TryCalls : tryCall[c].to = "modal" => tryCall[c].op = modal.op /\ modal.sending
    /\ \A c, d \in TryCalls : tryCall[c].to = "modal" /\ tryCall[d].to = "modal" => c = d
    /\ IsOpen => rendered # NoAnswer
    /\ modal.sending => IsOpen
    /\ modal.sending => modal.response = NoOperation /\ ~modal.failed
    /\ modal.response \in {NoOperation, modal.op}
    /\ modal.response # NoOperation => ~modal.failed

TryInv ==
    /\ TryTyped /\ Answer(rendered) /\ Answer(cachedReady)
    /\ \A c \in TryCalls : CallFits(c)
    /\ ModalFits

\* What comes of the calls of a component that is unmounted, and of the others.
LEMMA UnmountedCalls ==
    ASSUME TryInv, NEW from, tryCall' = Unmounted(from)
    PROVE  /\ tryCall' \in [TryCalls -> TryCallType]
           /\ \A c \in TryCalls : IF tryCall[c].to \in from THEN tryCall'[c] = IdleCall ELSE tryCall'[c] = tryCall[c]
           /\ IdleCall.pc = "idle" /\ IdleCall.to = "nobody"
  BY DEF TryInv, TryTyped, TryCallType, Unmounted, IdleCall, NoReady, Shown

\* A modal that mounts sends nothing and shows nothing.
LEMMA ModalsMount ==
    ASSUME TryInv, NEW o \in Operations
    PROVE  /\ FreshModal(o) \in ModalType /\ FreshModal(o).op = o /\ ~FreshModal(o).sending
           /\ FreshModal(o).response = NoOperation /\ ~FreshModal(o).failed
           /\ ClosedModal \in ModalType /\ ClosedModal.op = NoOperation /\ ~ClosedModal.sending
           /\ ClosedModal.response = NoOperation /\ ~ClosedModal.failed
  <1>1. rendered.servers \in Seq(Servers)
    BY DEF TryInv, TryTyped, AnswerType
  <1>2. rendered.servers # <<>> => Head(rendered.servers) \in Servers
    BY <1>1
  <1>3. FreshModal(o).server \in Servers \union {NoServer}
    BY <1>2 DEF FreshModal
  <1> QED BY <1>3 DEF FreshModal, ClosedModal, ModalType

\* A step of the page that unmounts the modal's calls, or has none.
LEMMA ModalChanges ==
    ASSUME TryInv, UNCHANGED <<declared, cachedReady, rendered>>, active' \in Shown,
           modal' \in ModalType, tryCall' \in [TryCalls -> TryCallType],
           \A c \in TryCalls : tryCall'[c].to # "modal" /\ tryCall'[c] \in {IdleCall, tryCall[c]},
           modal'.op # NoOperation => rendered # NoAnswer,
           ~modal'.sending, modal'.response = NoOperation, ~modal'.failed
    PROVE  TryInv'
  <1>1. TryTyped' /\ Answer(rendered)' /\ Answer(cachedReady)'
    BY DEF TryInv, TryTyped, Answer, Latest
  <1>2. \A c \in TryCalls : CallFits(c)'
    <2> SUFFICES ASSUME NEW c \in TryCalls PROVE CallFits(c)'
      OBVIOUS
    <2>1. CASE tryCall'[c] = IdleCall
      BY <2>1 DEF CallFits, IdleCall
    <2>2. CASE tryCall'[c] = tryCall[c]
      BY <2>2 DEF CallFits, TryInv
    <2> QED BY <2>1, <2>2
  <1>3. ModalFits'
    BY DEF ModalFits, IsOpen
  <1> QED BY <1>1, <1>2, <1>3 DEF TryInv

\* A version gets ready: what was answered before stays true.
LEMMA ReadyKeeps == TryInv /\ BecomesReady => TryInv'
  <1> SUFFICES ASSUME TryInv, BecomesReady PROVE TryInv'
    OBVIOUS
  <1>1. PICK list \in ServerLists : declared' = Append(declared, list)
    BY DEF BecomesReady
  <1>2. UNCHANGED <<cachedReady, rendered, active, panelResult, modal, tryCall>> /\ declared \in Seq(ServerLists)
    BY DEF BecomesReady, TryInv, TryTyped
  <1>3. declared' \in Seq(ServerLists) /\ Latest' = Latest + 1 /\ Latest \in Nat /\ \A v \in 1..Latest : declared'[v] = declared[v]
    BY <1>1, <1>2 DEF Latest
  <1>4. ASSUME NEW a, Answer(a) PROVE a = NoAnswer \/ (a.version \in 1..Latest' /\ a.servers \in {declared'[a.version], <<>>})
    BY <1>3, <1>4 DEF Answer
  <1>5. Answer(rendered)' /\ Answer(cachedReady)'
    BY <1>2, <1>4 DEF Answer, TryInv
  <1>6. TryTyped' /\ (\A c \in TryCalls : CallFits(c)') /\ ModalFits'
    BY <1>2, <1>3 DEF TryInv, TryTyped, CallFits, ModalFits, IsOpen
  <1> QED BY <1>5, <1>6 DEF TryInv

\* A page that is opened is rendered from an answer of the cache or of the backend, and starts from scratch.
LEMMA OpenKeeps == TryInv /\ OpenDocPage => TryInv'
  <1> SUFFICES ASSUME TryInv, OpenDocPage PROVE TryInv'
    OBVIOUS
  <1>1. declared \in Seq(ServerLists) /\ Latest \in 1..Latest /\ declared[Latest] \in Seq(Servers)
    <2>1. declared \in Seq(ServerLists) /\ Latest \in Nat /\ Latest # 0
      BY DEF TryInv, TryTyped, Latest, OpenDocPage, NoReady
    <2>2. declared[Latest] \in ServerLists
      BY <2>1 DEF Latest
    <2> QED BY <2>1, <2>2, TryItOutAssumption
  <1>2. \A a \in LatestReady : a \in AnswerType /\ Answer(a) /\ a # NoAnswer
    <2> SUFFICES ASSUME NEW a \in LatestReady PROVE a \in AnswerType /\ Answer(a) /\ a # NoAnswer
      OBVIOUS
    <2>1. PICK list \in {declared[Latest], <<>>} : a = [version |-> Latest, servers |-> list]
      BY DEF LatestReady
    <2>2. a.version = Latest /\ a.servers = list
      BY <2>1
    <2>3. list \in Seq(Servers) /\ Latest \in Nat /\ Latest # 0
      <3>1. Latest \in Nat /\ Latest # 0
        BY <1>1 DEF OpenDocPage, NoReady, Latest
      <3>2. CASE list = <<>>
        BY <3>1, <3>2
      <3>3. CASE list = declared[Latest]
        BY <1>1, <3>1, <3>3
      <3> QED BY <2>1, <3>2, <3>3
    <2>4. a \in AnswerType
      BY <2>1, <2>3 DEF AnswerType
    <2>5. a # NoAnswer
      BY <2>2, <2>3 DEF NoAnswer, NoReady
    <2>6. Answer(a)
      BY <1>1, <2>1, <2>2 DEF Answer
    <2> QED BY <2>4, <2>5, <2>6
  <1>3. {rendered', cachedReady'} \subseteq LatestReady \union {cachedReady} /\ rendered' # NoAnswer
    BY <1>2 DEF OpenDocPage
  <1>4. {rendered', cachedReady'} \subseteq AnswerType /\ Answer(rendered') /\ Answer(cachedReady')
    BY <1>2, <1>3 DEF TryInv, TryTyped
  <1>5. declared' = declared /\ modal' = ClosedModal /\ tryCall' = Unmounted({"panel", "modal"})
    BY DEF OpenDocPage
  <1>6. tryCall' \in [TryCalls -> TryCallType] /\ \A c \in TryCalls : tryCall'[c].pc = "idle" /\ tryCall'[c].to = "nobody"
    <2>1. \A c \in TryCalls : tryCall[c].to \notin {"panel", "modal"} => tryCall[c].to = "nobody" /\ tryCall[c].pc = "idle"
      BY DEF TryInv, TryTyped, TryCallType, CallFits
    <2> QED BY <1>5, <2>1, UnmountedCalls
  <1>7. active' \in Shown
    BY DEF OpenDocPage, Shown, FirstOperation
  <1>8. /\ ClosedModal \in ModalType /\ ClosedModal.op = NoOperation /\ ~ClosedModal.sending
        /\ ClosedModal.response = NoOperation /\ ~ClosedModal.failed
    BY DEF ClosedModal, ModalType
  <1>9. TryTyped'
    BY <1>1, <1>4, <1>5, <1>6, <1>7, <1>8 DEF TryTyped
  <1>10. Answer(rendered)' /\ Answer(cachedReady)'
    BY <1>4, <1>5 DEF Answer, Latest
  <1>11. \A c \in TryCalls : CallFits(c)'
    BY <1>6 DEF CallFits
  <1>12. ModalFits'
    BY <1>5, <1>6, <1>8 DEF ModalFits, IsOpen
  <1> QED BY <1>9, <1>10, <1>11, <1>12 DEF TryInv

\* Another operation, the modal opened and closed, another server.
LEMMA BrowseKeeps ==
    ASSUME TryInv,
           \/ \E o \in Operations : HandleSelectOperation(o) \/ OpenTry(o) \/ SelectInModal(o)
           \/ CloseModal \/ \E s \in Servers : EditServer(s)
    PROVE  TryInv'
  <1>0. tryCall \in [TryCalls -> TryCallType] /\ modal \in ModalType /\ active \in Shown
    BY DEF TryInv, TryTyped
  <1>1. ASSUME NEW o \in Operations, HandleSelectOperation(o) PROVE TryInv'
    <2>1. UNCHANGED <<declared, cachedReady, rendered, panelResult, modal, tryCall>> /\ active' \in Shown
      BY <1>1 DEF HandleSelectOperation, Shown
    <2> QED BY <2>1 DEF TryInv, TryTyped, Answer, Latest, CallFits, ModalFits, IsOpen
  <1>2. ASSUME NEW o \in Operations, OpenTry(o) PROVE TryInv'
    <2>1. /\ UNCHANGED <<declared, cachedReady, rendered, active, panelResult, tryCall>>
          /\ modal' = FreshModal(o) /\ rendered # NoAnswer /\ ~IsOpen
      BY <1>2 DEF OpenTry
    <2>2. \A c \in TryCalls : tryCall'[c].to # "modal" /\ tryCall'[c] = tryCall[c]
      BY <2>1, TryItOutAssumption DEF TryInv, ModalFits, IsOpen, CallFits, TryTyped, TryCallType
    <2> QED BY <1>0, <2>1, <2>2, ModalsMount, ModalChanges
  <1>3. ASSUME NEW o \in Operations, SelectInModal(o) PROVE TryInv'
    <2>1. /\ UNCHANGED <<declared, cachedReady, rendered, active>> /\ tryCall' = Unmounted({"modal"})
          /\ modal' = FreshModal(o) /\ rendered # NoAnswer
      BY <1>3 DEF SelectInModal, TryInv, ModalFits
    <2>2. /\ tryCall' \in [TryCalls -> TryCallType]
          /\ \A c \in TryCalls : tryCall'[c].to # "modal" /\ tryCall'[c] \in {IdleCall, tryCall[c]}
      BY <2>1, UnmountedCalls
    <2> QED BY <1>0, <2>1, <2>2, ModalsMount, ModalChanges
  <1>4. CASE CloseModal
    <2>1. /\ UNCHANGED <<declared, cachedReady, rendered, active>> /\ tryCall' = Unmounted({"modal"})
          /\ modal' = ClosedModal
      BY <1>4 DEF CloseModal
    <2>2. /\ tryCall' \in [TryCalls -> TryCallType]
          /\ \A c \in TryCalls : tryCall'[c].to # "modal" /\ tryCall'[c] \in {IdleCall, tryCall[c]}
      BY <2>1, UnmountedCalls
    <2>3. /\ ClosedModal \in ModalType /\ ClosedModal.op = NoOperation /\ ~ClosedModal.sending
          /\ ClosedModal.response = NoOperation /\ ~ClosedModal.failed
      BY DEF ClosedModal, ModalType
    <2> QED BY <1>0, <2>1, <2>2, <2>3, ModalChanges
  <1>5. ASSUME NEW s \in Servers, EditServer(s) PROVE TryInv'
    <2>1. /\ UNCHANGED <<declared, cachedReady, rendered, active, panelResult, tryCall>>
          /\ modal' = [modal EXCEPT !.server = s]
      BY <1>5 DEF EditServer
    <2>2. /\ modal' \in ModalType /\ modal'.op = modal.op /\ modal'.sending = modal.sending
          /\ modal'.response = modal.response /\ modal'.failed = modal.failed
      BY <1>0, <2>1 DEF ModalType
    <2> QED BY <2>1, <2>2 DEF TryInv, TryTyped, Answer, Latest, CallFits, ModalFits, IsOpen
  <1> QED BY <1>1, <1>2, <1>3, <1>4, <1>5

\* One call changes: it is sent, ends or returns.
LEMMA OneTryCall ==
    ASSUME TryInv, UNCHANGED <<declared, cachedReady, rendered, active>>, NEW c \in TryCalls, NEW x \in TryCallType,
           tryCall' = [tryCall EXCEPT ![c] = x], modal' \in ModalType, modal'.op = modal.op,
           x.pc = "idle" <=> x.to = "nobody",
           x.pc # "idle" => rendered # NoAnswer /\ x.version = rendered.version,
           x.pc = "undeclared" => x.server \notin Elements(rendered.servers),
           x.to = "modal" => x.op = modal.op /\ modal'.sending /\ \A d \in TryCalls \ {c} : tryCall[d].to # "modal",
           (\E d \in TryCalls \ {c} : tryCall[d].to = "modal") => modal'.sending,
           modal'.sending => modal.op # NoOperation /\ modal'.response = NoOperation /\ ~modal'.failed,
           modal'.response \in {NoOperation, modal.op}, modal'.response # NoOperation => ~modal'.failed
    PROVE  TryInv'
  <1>1. /\ tryCall' \in [TryCalls -> TryCallType] /\ tryCall'[c] = x
        /\ \A d \in TryCalls : d # c => tryCall'[d] = tryCall[d]
    BY DEF TryInv, TryTyped
  <1>2. TryTyped' /\ Answer(rendered)' /\ Answer(cachedReady)'
    BY <1>1 DEF TryInv, TryTyped, Answer, Latest
  <1>3. \A d \in TryCalls : CallFits(d)'
    BY <1>1 DEF TryInv, CallFits
  <1>4. ModalFits'
    BY <1>1 DEF TryInv, ModalFits, IsOpen
  <1> QED BY <1>2, <1>3, <1>4 DEF TryInv

\* A request is sent, from the modal or from the panel.
LEMMA SubmitKeeps ==
    ASSUME TryInv, NEW c \in TryCalls, SendRequest(c) \/ SubmitPanel(c)
    PROVE  TryInv'
  <1>0. /\ tryCall \in [TryCalls -> TryCallType] /\ modal \in ModalType /\ active \in Shown
        /\ rendered \in AnswerType /\ modal.op \in Shown
    BY DEF TryInv, TryTyped, ModalType, Shown
  <1>1. CASE SendRequest(c)
    <2>1. PICK x : x = [pc |-> "sent", to |-> "modal", op |-> modal.op, server |-> modal.server, version |-> rendered.version]
      OBVIOUS
    <2>2. x \in TryCallType /\ x.pc = "sent" /\ x.to = "modal" /\ x.op = modal.op /\ x.version = rendered.version
      BY <1>0, <2>1 DEF TryCallType, AnswerType, ModalType
    <2>3. PICK m : m = [modal EXCEPT !.sending = TRUE, !.response = NoOperation, !.failed = FALSE]
      OBVIOUS
    <2>4. m \in ModalType /\ m.op = modal.op /\ m.sending /\ m.response = NoOperation /\ ~m.failed
      BY <1>0, <2>3 DEF ModalType
    <2>5. /\ tryCall' = [tryCall EXCEPT ![c] = x] /\ modal' = m /\ UNCHANGED <<declared, cachedReady, rendered, active>>
          /\ rendered # NoAnswer /\ modal.op # NoOperation
      BY <1>1, <2>1, <2>3 DEF SendRequest, TryInv, ModalFits, IsOpen
    <2>6. \A d \in TryCalls : tryCall[d].to # "modal"
      BY <1>1 DEF SendRequest, TryInv, ModalFits
    <2> QED BY <2>2, <2>4, <2>5, <2>6, OneTryCall
  <1>2. CASE SubmitPanel(c)
    <2>1. PICK x : x = [pc |-> "sent", to |-> "panel", op |-> active, server |-> Head(rendered.servers), version |-> rendered.version]
      OBVIOUS
    <2>2. x \in TryCallType /\ x.pc = "sent" /\ x.to = "panel" /\ x.version = rendered.version
      <3>1. Head(rendered.servers) \in Servers
        BY <1>0, <1>2 DEF SubmitPanel, AnswerType
      <3> QED BY <1>0, <2>1, <3>1 DEF TryCallType, AnswerType
    <2>3. tryCall' = [tryCall EXCEPT ![c] = x] /\ UNCHANGED <<modal, declared, cachedReady, rendered, active>>
      BY <1>2, <2>1 DEF SubmitPanel
    <2>4. rendered # NoAnswer
      BY <1>2 DEF SubmitPanel, NoAnswer
    <2> QED BY <1>0, <2>2, <2>3, <2>4, OneTryCall DEF TryInv, ModalFits, IsOpen
  <1> QED BY <1>1, <1>2

\* The proxy goes by the servers of the version that the call names, the page's.
LEMMA ExecuteKeeps ==
    ASSUME TryInv, NEW c \in TryCalls, Execute(c)
    PROVE  TryInv'
  <1>1. PICK o : o = tryCall[c]
    OBVIOUS
  <1>2. o \in TryCallType /\ o.pc = "sent" /\ o.to # "nobody" /\ rendered # NoAnswer /\ o.version = rendered.version
    BY <1>1 DEF Execute, TryInv, TryTyped, CallFits
  <1>3. PICK pc \in Outcomes(o.server, o.version) : tryCall' = [tryCall EXCEPT ![c].pc = pc]
    BY <1>1 DEF Execute
  <1>4. pc \in {"undeclared", "failed", "answered"}
    BY <1>3 DEF Outcomes
  <1>5. PICK x : x = [o EXCEPT !.pc = pc]
    OBVIOUS
  <1>6. /\ x \in TryCallType /\ x.pc = pc /\ x.to = o.to /\ x.op = o.op /\ x.server = o.server /\ x.version = o.version
    BY <1>2, <1>4, <1>5 DEF TryCallType
  <1>7. tryCall' = [tryCall EXCEPT ![c] = x]
    BY <1>1, <1>3, <1>5
  <1>8. pc = "undeclared" => o.server \notin Elements(declared[rendered.version])
    <2> SUFFICES ASSUME pc = "undeclared" PROVE o.server \notin Elements(declared[rendered.version])
      OBVIOUS
    <2>1. CASE o.server \in Relative
      <3>1. Outcomes(o.server, o.version) = {"failed"}
        BY <2>1 DEF Outcomes
      <3> QED BY <1>3, <3>1
    <2>2. CASE o.server \notin Relative /\ o.server \in DeclaredServerOrigins(o.version)
      <3>1. Outcomes(o.server, o.version) \in {{"failed"}, {"answered", "failed"}}
        BY <2>2 DEF Outcomes
      <3> QED BY <1>3, <3>1
    <2>3. CASE o.server \notin Relative /\ o.server \notin DeclaredServerOrigins(o.version)
      BY <1>2, <2>3 DEF DeclaredServerOrigins
    <2> QED BY <2>1, <2>2, <2>3
  <1>9. pc = "undeclared" => o.server \notin Elements(rendered.servers)
    <2>1. rendered.servers \in {declared[rendered.version], <<>>}
      BY <1>2 DEF TryInv, Answer
    <2>2. Elements(<<>>) = {}
      BY DEF Elements
    <2> QED BY <1>8, <2>1, <2>2
  <1>10. UNCHANGED <<declared, cachedReady, rendered, active, modal>> /\ modal \in ModalType
    BY DEF Execute, TryInv, TryTyped
  <1>11. x.to = "modal" => x.op = modal.op /\ modal.sending /\ \A d \in TryCalls \ {c} : tryCall[d].to # "modal"
    BY <1>1, <1>6 DEF TryInv, ModalFits
  <1>12. x.pc # "idle"
    BY <1>4, <1>6
  <1>13. /\ x.pc = "idle" <=> x.to = "nobody"
         /\ x.pc # "idle" => rendered # NoAnswer /\ x.version = rendered.version
         /\ x.pc = "undeclared" => x.server \notin Elements(rendered.servers)
    BY <1>2, <1>6, <1>9, <1>12
  <1>14. /\ (\E d \in TryCalls \ {c} : tryCall[d].to = "modal") => modal.sending
         /\ modal.sending => modal.op # NoOperation /\ modal.response = NoOperation /\ ~modal.failed
         /\ modal.response \in {NoOperation, modal.op} /\ (modal.response # NoOperation => ~modal.failed)
    BY DEF TryInv, ModalFits, IsOpen
  <1> QED BY <1>6, <1>7, <1>10, <1>11, <1>13, <1>14, OneTryCall

\* An answer arrives at the component that asked, which is still mounted.
LEMMA AnswerKeeps ==
    ASSUME TryInv, NEW c \in TryCalls, ModalAnswered(c) \/ PanelAnswered(c)
    PROVE  TryInv'
  <1>0. modal \in ModalType /\ tryCall[c] \in TryCallType
    BY DEF TryInv, TryTyped
  <1>1. IdleCall \in TryCallType /\ IdleCall.pc = "idle" /\ IdleCall.to = "nobody"
    BY DEF IdleCall, TryCallType, NoReady, Shown
  <1>2. tryCall' = [tryCall EXCEPT ![c] = IdleCall] /\ UNCHANGED <<declared, cachedReady, rendered, active>>
    BY DEF ModalAnswered, PanelAnswered, Returned
  <1>3. CASE ModalAnswered(c)
    <2>1. tryCall[c].to = "modal" /\ tryCall[c].op = modal.op /\ modal.sending /\ \A d \in TryCalls \ {c} : tryCall[d].to # "modal"
      BY <1>3 DEF ModalAnswered, TryInv, ModalFits
    <2>2. modal.response = NoOperation /\ ~modal.failed
      BY <2>1 DEF TryInv, ModalFits
    <2>3. /\ modal' \in ModalType /\ modal'.op = modal.op /\ ~modal'.sending
          /\ modal'.response \in {NoOperation, modal.op} /\ (modal'.response # NoOperation => ~modal'.failed)
      <3>1. CASE tryCall[c].pc = "answered"
        BY <1>0, <1>3, <2>1, <2>2, <3>1 DEF ModalAnswered, ModalType
      <3>2. CASE tryCall[c].pc # "answered"
        BY <1>0, <1>3, <2>1, <2>2, <3>2 DEF ModalAnswered, ModalType
      <3> QED BY <3>1, <3>2
    <2> QED BY <1>1, <1>2, <2>1, <2>3, OneTryCall
  <1>4. CASE PanelAnswered(c)
    <2>1. modal' = modal
      BY <1>4 DEF PanelAnswered
    <2>2. /\ (\E d \in TryCalls \ {c} : tryCall[d].to = "modal") => modal.sending
          /\ modal.sending => modal.op # NoOperation /\ modal.response = NoOperation /\ ~modal.failed
          /\ modal.response \in {NoOperation, modal.op} /\ (modal.response # NoOperation => ~modal.failed)
      BY DEF TryInv, ModalFits, IsOpen
    <2> QED BY <1>0, <1>1, <1>2, <2>1, <2>2, OneTryCall
  <1> QED BY <1>3, <1>4

\* Nothing is rendered and nothing asked at the start.
LEMMA TryInitHolds == TryInit => TryInv
  <1> SUFFICES ASSUME TryInit PROVE TryInv
    OBVIOUS
  <1>1. IdleCall \in TryCallType /\ IdleCall.pc = "idle" /\ IdleCall.to = "nobody"
    BY DEF IdleCall, TryCallType, NoReady, Shown
  <1>2. /\ ClosedModal \in ModalType /\ ClosedModal.op = NoOperation /\ ~ClosedModal.sending
        /\ ClosedModal.response = NoOperation /\ ~ClosedModal.failed
    BY DEF ClosedModal, ModalType
  <1>3. NoAnswer \in AnswerType /\ <<>> \in Seq(ServerLists)
    BY DEF NoAnswer, AnswerType, NoReady
  <1>4. TryTyped
    BY <1>1, <1>2, <1>3 DEF TryInit, TryTyped, Shown
  <1>5. ModalFits /\ \A c \in TryCalls : CallFits(c)
    BY <1>1, <1>2 DEF TryInit, ModalFits, CallFits, IsOpen
  <1> QED BY <1>4, <1>5 DEF TryInv, TryInit, Answer

\* Every step of the page, its calls and the proxy.
LEMMA TryStepHolds == TryInv /\ [TryNext]_tryVars => TryInv'
  <1> SUFFICES ASSUME TryInv, [TryNext]_tryVars PROVE TryInv'
    OBVIOUS
  <1>1. CASE UNCHANGED tryVars
    BY <1>1 DEF tryVars, TryInv, TryTyped, Answer, Latest, CallFits, ModalFits, IsOpen
  <1> QED BY <1>1, ReadyKeeps, OpenKeeps, BrowseKeeps, SubmitKeeps, ExecuteKeeps, AnswerKeeps DEF TryNext

(* What the page tells of its calls is about what it shows, for any number of versions, servers,
   operations and calls (try-it-out-modal.tsx, try-it-out.service.ts): a call names the version
   of the page that sent it, whose servers do not change, and what is no longer on the screen
   gets no answer. *)
THEOREM AnswersFitThePageHolds == TrySpec => []AnswersFitThePage
  <1>1. TryInv => AnswersFitThePage
    BY DEF TryInv, ModalFits, CallFits, AnswersFitThePage
  <1> QED BY <1>1, TryInitHolds, TryStepHolds, PTL DEF TrySpec

\* What the panel shows is an operation, and versions get ready within their bound.
PanelTyped == Latest <= MaxReady /\ panelResult \in Shown

\* The panel's result is the operation of a call.
LEMMA PanelTypesKept == TryInv /\ PanelTyped /\ [TryNext]_tryVars => PanelTyped'
  <1> SUFFICES ASSUME TryInv, PanelTyped, [TryNext]_tryVars PROVE PanelTyped'
    OBVIOUS
  <1>1. CASE BecomesReady
    <2>1. PICK list \in ServerLists : declared' = Append(declared, list)
      BY <1>1 DEF BecomesReady
    <2>2. declared \in Seq(ServerLists)
      BY DEF TryInv, TryTyped
    <2>3. Latest' = Latest + 1 /\ Latest \in Nat /\ Latest < MaxReady /\ panelResult' = panelResult
      BY <1>1, <2>1, <2>2 DEF Latest, BecomesReady
    <2> QED BY <2>3, TryItOutAssumption DEF PanelTyped
  <1>2. CASE OpenDocPage
    BY <1>2 DEF OpenDocPage, PanelTyped, Latest, Shown
  <1>3. ASSUME NEW c \in TryCalls, PanelAnswered(c) PROVE PanelTyped'
    <2>1. tryCall[c].op \in Shown
      BY DEF TryInv, TryTyped, TryCallType
    <2> QED BY <1>3, <2>1 DEF PanelAnswered, PanelTyped, Latest
  <1>4. CASE UNCHANGED <<declared, panelResult>>
    BY <1>4 DEF PanelTyped, Latest
  <1> QED BY <1>1, <1>2, <1>3, <1>4 DEF TryNext, tryVars, HandleSelectOperation, OpenTry, SelectInModal, CloseModal,
             EditServer, SendRequest, SubmitPanel, Execute, ModalAnswered

\* An answer is about a version that is ready, and only operations are shown.
LEMMA TryTypes == TryInv /\ PanelTyped => TryTypeOK
  <1> SUFFICES ASSUME TryInv, PanelTyped PROVE TryTypeOK
    OBVIOUS
  <1>1. Latest \in Nat
    BY DEF TryInv, TryTyped, Latest
  <1>2. \A a \in {cachedReady, rendered} : a.version \in 0..Latest
    BY <1>1 DEF TryInv, Answer, NoAnswer, NoReady
  <1>3. {active, panelResult, modal.op, modal.response} \subseteq Operations \union {NoOperation}
    BY DEF TryInv, TryTyped, PanelTyped, Shown, ModalType
  <1> QED BY <1>2, <1>3 DEF TryTypeOK, TryInv, TryTyped, PanelTyped, TryCallType
------------------------------------------------------------------------------
(***************************************************************************)
(* The run console.                                                        *)
(***************************************************************************)
\* Every step keeps the interval of the run that may be canceled, and no other.
LEMMA ConsoleStepHolds == RunningIsPolled /\ [ConsoleNext]_consoleVars => RunningIsPolled'
  <1> SUFFICES ASSUME RunningIsPolled, [ConsoleNext]_consoleVars PROVE RunningIsPolled'
    OBVIOUS
  <1>1. ASSUME UNCHANGED <<intervals, pollTimer>>, running' => running /\ currentRun' = currentRun PROVE RunningIsPolled'
    BY <1>1 DEF RunningIsPolled
  <1>2. ASSUME StopPolling PROVE RunningIsPolled'
    BY <1>2 DEF RunningIsPolled, StopPolling, ClearTimer
  <1>3. CASE UNCHANGED consoleVars
    BY <1>1, <1>3 DEF consoleVars
  <1>4. ASSUME NEW r \in Runs, HandleRun(r) \/ SaveAnswered(r) \/ CreateRun(r) \/ CreateFails(r) \/ RunEnds(r)
        PROVE  RunningIsPolled'
    BY <1>1, <1>4 DEF HandleRun, SaveAnswered, CreateRun, CreateFails, RunEnds, consoleView, ForgetRun, RunFinish
  <1>5. ASSUME NEW r \in Runs, RunStart(r) PROVE RunningIsPolled'
    BY <1>5 DEF RunStart, RunningIsPolled
  <1>6. ASSUME NEW r \in Runs, CancelAnswered(r) PROVE RunningIsPolled'
    BY <1>1, <1>2, <1>6 DEF CancelAnswered
  <1>7. ASSUME NEW r \in Runs, NEW p \in Polls, Tick(r, p) \/ GetRun(r, p) \/ PollAnswered(r, p) PROVE RunningIsPolled'
    BY <1>1, <1>2, <1>7 DEF Tick, GetRun, PollAnswered, consoleView
  <1>8. CASE PageSaved \/ HandleCancel \/ CloseConsole \/ LeavePage
    BY <1>1, <1>8 DEF PageSaved, HandleCancel, CloseConsole, LeavePage, consoleView, ForgetRun, RunFinish
  <1> QED BY <1>3, <1>4, <1>5, <1>6, <1>7, <1>8 DEF ConsoleNext

(* While the button offers to cancel a run, that run is polled, and no interval is left behind
   that nothing can clear, for any number of presses of Run and of polls that overtake each
   other (use-run-workflow.ts:17-23, 50-78). *)
THEOREM RunningIsPolledHolds == ConsoleSpec => []RunningIsPolled
  <1>1. ConsoleInit => RunningIsPolled
    BY DEF ConsoleInit, RunningIsPolled
  <1> QED BY <1>1, ConsoleStepHolds, PTL DEF ConsoleSpec

\* A run that is asked about was created, so that an answer is a status.
AskedRunsExist ==
    /\ \A r \in intervals : runRow[r] # "none"
    /\ \A r \in Runs, p \in Polls : poll[r][p] # "idle" => runRow[r] # "none"

ConsoleTyped == ConsoleTypeOK /\ AskedRunsExist

LEMMA ConsoleTypesStart == ConsoleInit => ConsoleTyped
  <1> SUFFICES ASSUME ConsoleInit PROVE ConsoleTyped
    OBVIOUS
  <1>1. [p \in Polls |-> "idle"] \in [Polls -> {"idle", "asked", "active", "error"} \union Over]
    OBVIOUS
  <1>2. poll \in [Runs -> [Polls -> {"idle", "asked", "active", "error"} \union Over]]
    BY <1>1 DEF ConsoleInit
  <1>3. ConsoleTypeOK
    BY <1>2 DEF ConsoleInit, ConsoleTypeOK
  <1>4. AskedRunsExist
    BY DEF ConsoleInit, AskedRunsExist
  <1> QED BY <1>3, <1>4 DEF ConsoleTyped

\* Only a run that was created is asked about.
LEMMA ConsoleTypesKept == ConsoleTyped /\ [ConsoleNext]_consoleVars => ConsoleTyped'
  <1> SUFFICES ASSUME ConsoleTyped, [ConsoleNext]_consoleVars PROVE ConsoleTyped'
    OBVIOUS
  <1>1. CASE UNCHANGED consoleVars
    BY <1>1 DEF consoleVars, ConsoleTyped, ConsoleTypeOK, AskedRunsExist
  <1>2. ASSUME StopPolling PROVE intervals' \subseteq intervals /\ pollTimer' = NoRun /\ running' = FALSE
    BY <1>2 DEF StopPolling, ClearTimer
  <1>3. ASSUME NEW r \in Runs, HandleRun(r) \/ SaveAnswered(r) \/ RunStart(r) \/ CreateFails(r) PROVE ConsoleTyped'
    BY <1>3 DEF HandleRun, SaveAnswered, RunStart, CreateFails, ForgetRun, RunFinish, consoleView,
                ConsoleTyped, ConsoleTypeOK, AskedRunsExist
  <1>4. ASSUME NEW r \in Runs, CreateRun(r) \/ RunEnds(r) PROVE ConsoleTyped'
    BY <1>4 DEF CreateRun, RunEnds, Over, consoleView, ConsoleTyped, ConsoleTypeOK, AskedRunsExist
  <1>5. ASSUME NEW r \in Runs, CancelAnswered(r) PROVE ConsoleTyped'
    BY <1>2, <1>5 DEF CancelAnswered, ConsoleTyped, ConsoleTypeOK, AskedRunsExist
  <1>6. ASSUME NEW r \in Runs, NEW p \in Polls, Tick(r, p) \/ GetRun(r, p) PROVE ConsoleTyped'
    <2>1. runRow[r] \in {"active"} \union Over
      BY <1>6 DEF Tick, GetRun, ConsoleTyped, ConsoleTypeOK, AskedRunsExist
    <2>2. PICK answer \in {"asked", "active", "error"} \union Over : poll' = [poll EXCEPT ![r][p] = answer]
      BY <1>6, <2>1 DEF Tick, GetRun
    <2>3. UNCHANGED <<start, runRow, intervals, pollTimer, cancelCall, mounted, running, currentRun, shown>>
      BY <1>6 DEF Tick, GetRun, consoleView
    <2>4. poll' \in [Runs -> [Polls -> {"idle", "asked", "active", "error"} \union Over]]
      BY <2>2 DEF ConsoleTyped, ConsoleTypeOK
    <2>5. \A q \in Runs, o \in Polls : poll'[q][o] = poll[q][o] \/ q = r
      BY <2>2 DEF ConsoleTyped, ConsoleTypeOK
    <2> QED BY <2>1, <2>3, <2>4, <2>5 DEF ConsoleTyped, ConsoleTypeOK, AskedRunsExist, Over
  <1>7. ASSUME NEW r \in Runs, NEW p \in Polls, PollAnswered(r, p) PROVE ConsoleTyped'
    <2>1. /\ intervals' \subseteq intervals /\ pollTimer' \in {pollTimer, NoRun}
          /\ running' \in {running, FALSE} /\ shown' \in {shown, r, NoRun}
      BY <1>2, <1>7 DEF PollAnswered
    <2>2. poll' = [poll EXCEPT ![r][p] = "idle"] /\ UNCHANGED <<start, runRow, cancelCall, mounted, currentRun>>
      BY <1>7 DEF PollAnswered
    <2> QED BY <2>1, <2>2 DEF ConsoleTyped, ConsoleTypeOK, AskedRunsExist
  <1>8. CASE PageSaved \/ HandleCancel \/ CloseConsole \/ LeavePage
    BY <1>8 DEF PageSaved, HandleCancel, CloseConsole, LeavePage, ForgetRun, RunFinish, consoleView,
                ConsoleTyped, ConsoleTypeOK, AskedRunsExist
  <1> QED BY <1>1, <1>3, <1>4, <1>5, <1>6, <1>7, <1>8 DEF ConsoleNext
------------------------------------------------------------------------------
(***************************************************************************)
(* The draft of a request.                                                 *)
(***************************************************************************)
\* The tab and the text are what the checks of a request tell apart.
DraftInv ==
    /\ operation \in DraftOperations /\ bodyType \in Tabs3 /\ bodyText \in Texts
    /\ RequiredBodiesAreSent

\* An operation that mounts has a tab and a text, and has sent nothing.
LEMMA MountedDraft ==
    ASSUME NEW o \in DraftOperations
    PROVE  InitialBodyType(o) \in Tabs3 /\ DraftText(o) \in Texts
  BY DraftAssumption DEF InitialBodyType, DraftText, Tabs3

\* Every step keeps the draft.
LEMMA DraftStepHolds == DraftInv /\ [DraftNext]_draftVars => DraftInv'
  <1> SUFFICES ASSUME DraftInv, [DraftNext]_draftVars PROVE DraftInv'
    OBVIOUS
  <1>1. ASSUME UNCHANGED <<operation, sentBody>>, bodyType' \in Tabs3, bodyText' \in Texts PROVE DraftInv'
    BY <1>1 DEF DraftInv, RequiredBodiesAreSent
  <1>2. bodyType \in Tabs3 /\ bodyText \in Texts
    BY DEF DraftInv
  <1>3. CASE UNCHANGED draftVars
    BY <1>1, <1>2, <1>3 DEF draftVars
  <1>4. CASE SelectOperation
    BY <1>4, MountedDraft DEF SelectOperation, Mount, DraftInv, RequiredBodiesAreSent
  <1>5. CASE EditParameters \/ EditKeyValueFields \/ EditMultipartFields \/ FileLoaded
    BY <1>1, <1>2, <1>5 DEF EditParameters, EditKeyValueFields, EditMultipartFields, FileLoaded
  <1>6. CASE EditText
    BY <1>1, <1>2, <1>6 DEF EditText
  <1>7. ASSUME NEW type \in Tabs3 \ {bodyType}, HandleBodyTypeChange(type) PROVE DraftInv'
    <2>1. FieldsToJson(keyValueFields) \in Texts
      BY DEF FieldsToJson, Texts
    <2>2. bodyText' \in Texts /\ bodyType' \in Tabs3 /\ UNCHANGED <<operation, sentBody>>
      BY <1>2, <1>7, <2>1 DEF HandleBodyTypeChange
    <2> QED BY <1>1, <2>2
  <1>8. ASSUME NEW i \in 1..MaxRows, HandleFileChange(i) PROVE DraftInv'
    BY <1>1, <1>2, <1>8 DEF HandleFileChange
  <1>9. CASE SendDraft
    <2>1. UNCHANGED <<operation, bodyType, bodyText>> /\ Validate /\ sentBody' = BodyToSend
      BY <1>9 DEF SendDraft
    <2>2. operation.required => BodyToSend \in {"bare", "object", "parts"}
      <3>1. CASE bodyType = "json"
        BY <1>2, <2>1, <3>1 DEF Validate, BodyToSend, Texts
      <3>2. CASE bodyType = "key-value"
        BY <2>1, <3>2 DEF Validate, BodyToSend
      <3>3. CASE bodyType = "multipart"
        BY <2>1, <3>3 DEF Validate, BodyToSend
      <3> QED BY <1>2, <3>1, <3>2, <3>3 DEF Tabs3
    <2> QED BY <2>1, <2>2 DEF DraftInv, RequiredBodiesAreSent
  <1> QED BY <1>3, <1>4, <1>5, <1>6, <1>7, <1>8, <1>9 DEF DraftNext

(* An operation whose body is required is not called without one, whatever the specification
   declares and its example is, whichever tab is open and however many rows the tables have
   (try-it-out-modal.tsx, request-validation): each tab checks what it sends itself. *)
THEOREM RequiredBodiesAreSentHolds == DraftSpec => []RequiredBodiesAreSent
  <1>1. DraftInit => DraftInv
    BY MountedDraft DEF DraftInit, DraftInv, RequiredBodiesAreSent
  <1>2. DraftInv => RequiredBodiesAreSent
    BY DEF DraftInv
  <1> QED BY <1>1, <1>2, DraftStepHolds, PTL DEF DraftSpec

\* Tables of no row and of one.
LEMMA ShortTables == <<>> \in Tables /\ NoRead.rows = <<>> /\ \A r \in Row : <<r>> \in Tables
  <1>1. <<>> \in [1..0 -> Row] /\ \A r \in Row : <<r>> \in [1..1 -> Row]
    OBVIOUS
  <1>2. 0 \in 0..MaxRows /\ 1 \in 0..MaxRows
    BY DraftAssumption
  <1> QED BY <1>1, <1>2 DEF Tables, NoRead

LEMMA FieldsFit == \A text \in Texts : JsonToFields(text) \in Tables
  <1>1. [keyed |-> TRUE, enabled |-> TRUE] \in Row
    BY DEF Row
  <1> QED BY <1>1, ShortTables DEF JsonToFields

DraftTyped == DraftInv /\ DraftTypeOK

LEMMA DraftTypesStart == DraftInit => DraftTyped
  <1> SUFFICES ASSUME DraftInit PROVE DraftTyped
    OBVIOUS
  <1>1. operation \in DraftOperations /\ operation.params \in BOOLEAN /\ DraftText(operation) \in Texts
    BY DraftAssumption DEF DraftInit, DraftText
  <1>2. {keyValueFields, multipartFields, reading.rows} \subseteq Tables
    BY <1>1, FieldsFit, ShortTables DEF DraftInit
  <1>3. draftEdits \in 0..MaxTyped
    BY DraftAssumption DEF DraftInit
  <1> QED BY <1>1, <1>2, <1>3, MountedDraft DEF DraftInit, DraftTyped, DraftInv, DraftTypeOK, RequiredBodiesAreSent

\* A table is one of its edits, one of a text that was taken over, or one a file was read for.
LEMMA DraftTypesKept == DraftTyped /\ [DraftNext]_draftVars => DraftTyped'
  <1> SUFFICES ASSUME DraftTyped, [DraftNext]_draftVars PROVE DraftTyped'
    OBVIOUS
  <1>1. DraftInv'
    BY DraftStepHolds DEF DraftTyped
  <1>2. /\ given \in BOOLEAN /\ draftEdits \in 0..MaxTyped
        /\ keyValueFields \in Tables /\ multipartFields \in Tables /\ reading.rows \in Tables
        /\ bodyText \in Texts
    BY DEF DraftTyped, DraftTypeOK
  <1>3. ASSUME given' \in BOOLEAN, draftEdits' \in 0..MaxTyped, {keyValueFields', multipartFields', reading'.rows} \subseteq Tables
        PROVE  DraftTyped'
    BY <1>1, <1>3 DEF DraftTyped, DraftTypeOK, DraftInv
  <1>4. ASSUME Type PROVE draftEdits' \in 0..MaxTyped
    BY <1>2, <1>4, DraftAssumption DEF Type
  <1>5. CASE UNCHANGED draftVars
    BY <1>2, <1>3, <1>5 DEF draftVars
  <1>6. CASE SelectOperation
    <2>1. PICK o \in DraftOperations : Mount(o)
      BY <1>6 DEF SelectOperation
    <2>2. o.params \in BOOLEAN /\ DraftText(o) \in Texts
      BY DraftAssumption DEF DraftText
    <2>3. keyValueFields' \in Tables /\ multipartFields' \in Tables /\ reading'.rows \in Tables
      BY <2>1, <2>2, FieldsFit, ShortTables DEF Mount
    <2> QED BY <1>3, <2>1, <2>2, <2>3, DraftAssumption DEF Mount
  <1>7. CASE EditParameters \/ EditText
    BY <1>2, <1>3, <1>4, <1>7 DEF EditParameters, EditText
  <1>8. CASE EditKeyValueFields
    BY <1>2, <1>3, <1>4, <1>8 DEF EditKeyValueFields
  <1>9. CASE EditMultipartFields
    BY <1>2, <1>3, <1>4, <1>9 DEF EditMultipartFields
  <1>10. ASSUME NEW type \in Tabs3 \ {bodyType}, HandleBodyTypeChange(type) PROVE DraftTyped'
    BY <1>2, <1>3, <1>4, <1>10, FieldsFit DEF HandleBodyTypeChange
  <1>11. ASSUME NEW i \in 1..MaxRows, HandleFileChange(i) PROVE DraftTyped'
    BY <1>2, <1>3, <1>4, <1>11 DEF HandleFileChange
  <1>12. CASE FileLoaded
    BY <1>2, <1>3, <1>12, ShortTables DEF FileLoaded
  <1>13. CASE SendDraft
    BY <1>2, <1>3, <1>13 DEF SendDraft
  <1> QED BY <1>5, <1>6, <1>7, <1>8, <1>9, <1>10, <1>11, <1>12, <1>13 DEF DraftNext
------------------------------------------------------------------------------
(***************************************************************************)
(* The clients of the deploy API.                                          *)
(***************************************************************************)
\* No comment, or the least of some.
Least(T) == CHOOSE i \in T : \A j \in T : i <= j
Found == {0} \union {Least(T) : T \in SUBSET Nat}

VersionType == [spec : Specs, diff : Classifications \union {"missing"}]
RunType == [pc : {"new", "deploy", "fetch", "list", "upsert", "gate", "passed", "failed"}, version : Nat,
            gate : BOOLEAN, breaking : BOOLEAN, found : Found]

GateTyped ==
    /\ deployed \in Seq(VersionType)
    /\ runs \in [ActionRuns -> RunType]
    /\ comments \in Seq(ActionRuns \union {"person"}) /\ raced \in BOOLEAN

\* What a run knows of a diff is what is stored, which does not change once it is there.
RunFits(x) ==
    /\ x.version \in Versions \union {Preview}
    /\ x.pc = "deploy" => x.version = Preview /\ ~x.gate
    /\ x.version # Preview =>
         /\ x.pc \in {"list", "upsert", "gate"} =>
              deployed[x.version].diff # "missing" /\ (x.breaking <=> deployed[x.version].diff = "breaking")
         /\ x.pc = "passed" /\ x.gate => deployed[x.version].diff \in {"none", "non_breaking"}

\* One run writes at a time, and what it has found on the first page is still all there is.
OneComment ==
    \/ \A i, j \in Stickies : i = j
    \/ \A i \in Stickies : i > PageSize
CommentsFit == ~raced =>
    /\ \A r, o \in ActionRuns : At(r, "upsert") /\ At(o, "upsert") => r = o
    /\ \A r \in ActionRuns : At(r, "upsert") =>
         IF runs[r].found = 0 THEN \A i \in Stickies : i > PageSize ELSE runs[r].found \in Stickies
    /\ OneComment

GateInv == GateTyped /\ (\A r \in ActionRuns : RunFits(runs[r])) /\ CommentsFit

\* The branch's versions may grow, and a missing diff may be stored.
Grows ==
    /\ deployed' \in Seq(VersionType)
    /\ Len(deployed) <= Len(deployed')
    /\ \A v \in Versions : deployed[v].diff \in {"missing", deployed'[v].diff}

LEMMA StoredDiffs == GateTyped => \A v \in Versions : deployed[v] \in VersionType /\ deployed[v].diff \in Classifications \union {"missing"}
  <1> SUFFICES ASSUME GateTyped, NEW v \in Versions
               PROVE  deployed[v] \in VersionType /\ deployed[v].diff \in Classifications \union {"missing"}
    OBVIOUS
  <1>1. deployed \in Seq(VersionType) /\ v \in 1..Len(deployed)
    BY DEF GateTyped, Versions
  <1>2. deployed[v] \in VersionType
    BY <1>1
  <1> QED BY <1>2 DEF VersionType

LEMMA GrowsKeeps ==
    ASSUME GateTyped, Grows, NEW x \in RunType, RunFits(x)
    PROVE  RunFits(x)'
  <1>1. Len(deployed) \in Nat /\ Len(deployed') \in Nat
    BY DEF GateTyped, Grows
  <1>2. Versions \subseteq Versions'
    BY <1>1 DEF Grows, Versions
  <1> QED BY <1>2 DEF RunFits, Grows, RunType

LEMMA SameGrows == GateTyped /\ deployed' = deployed => Grows
  BY DEF GateTyped, Grows

LEMMA DeployedGrows ==
    ASSUME GateTyped, NEW spec \in Specs, deployed' = Deployed(spec)
    PROVE  Grows
  <1>1. CASE \E v \in Versions : deployed[v].spec = spec
    BY <1>1, SameGrows DEF Deployed
  <1>2. CASE ~\E v \in Versions : deployed[v].spec = spec
    <2>1. PICK x : x = [spec |-> spec, diff |-> "missing"]
      OBVIOUS
    <2>2. x \in VersionType /\ deployed' = Append(deployed, x)
      BY <1>2, <2>1 DEF Deployed, VersionType
    <2> QED BY <2>2 DEF GateTyped, Grows, Versions
  <1> QED BY <1>1, <1>2

\* One run changes, or none.
LEMMA OneRun ==
    ASSUME GateInv, NEW r \in ActionRuns, NEW x \in RunType, runs' = [runs EXCEPT ![r] = x],
           Grows, RunFits(x)', comments' \in Seq(ActionRuns \union {"person"}), raced' \in BOOLEAN, CommentsFit'
    PROVE  GateInv'
  <1>1. GateTyped'
    BY DEF GateInv, GateTyped, Grows
  <1>2. ASSUME NEW o \in ActionRuns PROVE RunFits(runs[o])'
    <2>1. CASE o = r
      BY <2>1 DEF GateInv, GateTyped, RunFits
    <2>2. CASE o # r
      <3>1. PICK y : y = runs[o]
        OBVIOUS
      <3>2. y \in RunType /\ RunFits(y) /\ GateTyped
        BY <3>1 DEF GateInv, GateTyped
      <3>3. RunFits(y)'
        BY <3>2, GrowsKeeps
      <3>4. runs'[o] = y
        BY <2>2, <3>1 DEF GateInv, GateTyped
      <3> QED BY <3>3, <3>4 DEF RunFits
    <2> QED BY <2>1, <2>2
  <1> QED BY <1>1, <1>2 DEF GateInv

LEMMA RunsStay ==
    ASSUME GateInv, runs' = runs, Grows, comments' \in Seq(ActionRuns \union {"person"}), raced' \in BOOLEAN, CommentsFit'
    PROVE  GateInv'
  <1>1. GateTyped'
    BY DEF GateInv, GateTyped, Grows
  <1>2. ASSUME NEW o \in ActionRuns PROVE RunFits(runs[o])'
    <2>1. PICK y : y = runs[o]
      OBVIOUS
    <2>2. y \in RunType /\ RunFits(y) /\ GateTyped
      BY <2>1 DEF GateInv, GateTyped
    <2>3. RunFits(y)'
      BY <2>2, GrowsKeeps
    <2> QED BY <2>1, <2>3 DEF RunFits
  <1> QED BY <1>1, <1>2 DEF GateInv

\* A step that has nobody start to write changes nothing of the comments.
LEMMA CommentsStay ==
    ASSUME GateInv, UNCHANGED <<comments, raced>>,
           \A o \in ActionRuns : At(o, "upsert")' => runs'[o] = runs[o]
    PROVE  CommentsFit' /\ comments' \in Seq(ActionRuns \union {"person"}) /\ raced' \in BOOLEAN
  BY DEF GateInv, GateTyped, CommentsFit, OneComment, At, Stickies, IsSticky

\* A run that is neither writing nor about to write.
LEMMA QuietRun ==
    ASSUME GateInv, UNCHANGED <<comments, raced>>, NEW r \in ActionRuns, NEW x \in RunType,
           runs' = [runs EXCEPT ![r] = x], x.pc # "upsert", Grows, RunFits(x)'
    PROVE  GateInv'
  <1>1. \A o \in ActionRuns : At(o, "upsert")' => runs'[o] = runs[o]
    BY DEF At, GateInv, GateTyped
  <1>2. CommentsFit' /\ comments' \in Seq(ActionRuns \union {"person"}) /\ raced' \in BOOLEAN
    BY <1>1, CommentsStay
  <1> QED BY <1>2, OneRun

LEMMA GotoIs ==
    ASSUME GateInv, NEW r \in ActionRuns, Goto(r, "passed") \/ Goto(r, "failed") \/ Goto(r, "gate")
    PROVE  \E x \in RunType : /\ runs' = [runs EXCEPT ![r] = x] /\ x.pc \in {"passed", "failed", "gate"}
                              /\ x.version = runs[r].version /\ x.gate = runs[r].gate /\ x.breaking = runs[r].breaking
                              /\ \A pc \in {"passed", "failed", "gate"} : Goto(r, pc) => x.pc = pc
  <1>0. runs \in [ActionRuns -> RunType] /\ runs[r] \in RunType
    BY DEF GateInv, GateTyped
  <1>1. PICK pc \in {"passed", "failed", "gate"} : Goto(r, pc)
    OBVIOUS
  <1>2. PICK x : x = [runs[r] EXCEPT !.pc = pc]
    OBVIOUS
  <1>3. x \in RunType /\ x.pc = pc /\ x.version = runs[r].version /\ x.gate = runs[r].gate /\ x.breaking = runs[r].breaking
    BY <1>0, <1>2 DEF RunType
  <1>4. runs' = [runs EXCEPT ![r] = x]
    BY <1>1, <1>2 DEF Goto
  <1>5. runs'[r].pc = pc
    BY <1>0, <1>3, <1>4
  <1>6. \A p \in {"passed", "failed", "gate"} : Goto(r, p) => pc = p
    <2>1. \A p \in {"passed", "failed", "gate"} : Goto(r, p) => runs'[r].pc = p
      BY <1>0 DEF Goto, RunType
    <2> QED BY <1>5, <2>1
  <1> QED BY <1>3, <1>4, <1>6

\* A run starts, deploys, reads the diff, or runs again.
LEMMA StartKeeps == ASSUME GateInv, NEW r \in ActionRuns, StartRun(r) PROVE GateInv'
  <1>1. PICK version \in Versions \union {Preview}, gate \in BOOLEAN, pc \in {"deploy", "fetch", "failed"} :
          /\ runs' = [runs EXCEPT ![r] = [NewRun EXCEPT !.pc = pc, !.version = version, !.gate = gate]]
          /\ pc = "deploy" => version = Preview /\ ~gate
    BY DEF StartRun
  <1>2. PICK x : x = [NewRun EXCEPT !.pc = pc, !.version = version, !.gate = gate]
    OBVIOUS
  <1>3. version \in Nat
    BY <1>1 DEF Versions, Preview
  <1>4. x \in RunType /\ x.pc = pc /\ x.version = version /\ x.gate = gate
    BY <1>2, <1>3 DEF NewRun, RunType, Preview, Found
  <1>5. UNCHANGED <<deployed, comments, raced>> /\ GateTyped
    BY DEF StartRun, serverVars, GateInv
  <1>6. RunFits(x)'
    BY <1>1, <1>4, <1>5 DEF RunFits, Versions
  <1> QED BY <1>1, <1>2, <1>4, <1>5, <1>6, SameGrows, QuietRun

LEMMA DeployKeeps == ASSUME GateInv, NEW r \in ActionRuns, RunDeploy(r) PROVE GateInv'
  <1>1. PICK y : y = runs[r]
    OBVIOUS
  <1>2. y \in RunType /\ y.pc = "deploy" /\ y.version = Preview /\ ~y.gate /\ GateTyped
    BY <1>1 DEF RunDeploy, At, GateInv, GateTyped, RunFits
  <1>3. Goto(r, "passed") \/ Goto(r, "failed")
    BY DEF RunDeploy
  <1>4. PICK x \in RunType : /\ runs' = [runs EXCEPT ![r] = x] /\ x.pc \in {"passed", "failed", "gate"}
                             /\ x.version = runs[r].version /\ x.gate = runs[r].gate
    BY <1>3, GotoIs
  <1>5. Grows
    BY <1>2, DeployedGrows, SameGrows DEF RunDeploy
  <1>6. RunFits(x)'
    BY <1>1, <1>2, <1>4 DEF RunFits
  <1>7. UNCHANGED <<comments, raced>> /\ x.pc # "upsert"
    BY <1>4 DEF RunDeploy
  <1> QED BY <1>4, <1>5, <1>6, <1>7, QuietRun

LEMMA FetchKeeps == ASSUME GateInv, NEW r \in ActionRuns, FetchDiff(r) PROVE GateInv'
  <1>0. /\ UNCHANGED <<deployed, comments, raced>> /\ GateTyped /\ runs[r] \in RunType /\ RunFits(runs[r])
        /\ runs[r].version \in Versions \union {Preview} /\ runs \in [ActionRuns -> RunType]
    BY DEF FetchDiff, serverVars, GateInv, GateTyped, RunFits
  <1>1. Grows
    BY <1>0, SameGrows
  <1>2. CASE Goto(r, "failed")
    <2>1. PICK x \in RunType : /\ runs' = [runs EXCEPT ![r] = x] /\ x.version = runs[r].version /\ x.pc = "failed"
      BY <1>2, GotoIs
    <2>2. RunFits(x)'
      BY <1>0, <2>1 DEF RunFits, Versions
    <2> QED BY <1>0, <1>1, <2>1, <2>2, QuietRun
  <1>3. ASSUME NEW class \in IF runs[r].version = Preview THEN PreviewDiff ELSE VersionDiff(runs[r].version),
               NEW pc \in {"list", "gate"},
               runs' = [runs EXCEPT ![r].pc = pc, ![r].breaking = HasBreaking(class)]
        PROVE  GateInv'
    <2>1. PICK x : x = [runs[r] EXCEPT !.pc = pc, !.breaking = HasBreaking(class)]
      OBVIOUS
    <2>2. /\ x \in RunType /\ x.pc = pc /\ x.version = runs[r].version
          /\ x.breaking <=> class = "breaking"
      BY <1>0, <2>1 DEF RunType, HasBreaking
    <2>3. runs' = [runs EXCEPT ![r] = x]
      BY <1>0, <1>3, <2>1 DEF RunType
    <2>4. x.version # Preview => deployed[x.version].diff = class /\ class # "missing"
      BY <1>3, <2>2 DEF VersionDiff
    <2>5. RunFits(x)'
      BY <1>0, <2>2, <2>4 DEF RunFits, Versions
    <2> QED BY <1>0, <1>1, <2>2, <2>3, <2>5, QuietRun
  <1> QED BY <1>2, <1>3 DEF FetchDiff

LEMMA EndKeeps == ASSUME GateInv, NEW r \in ActionRuns, EndDiff(r) \/ NextRun(r) PROVE GateInv'
  <1>0. /\ UNCHANGED <<deployed, comments, raced>> /\ GateTyped /\ runs[r] \in RunType /\ RunFits(runs[r])
        /\ deployed \in Seq(VersionType)
    BY DEF EndDiff, NextRun, serverVars, GateInv, GateTyped
  <1>1. Grows
    BY <1>0, SameGrows
  <1>2. CASE EndDiff(r)
    <2>0. Goto(r, "passed") \/ Goto(r, "failed")
      BY <1>2 DEF EndDiff
    <2>1. PICK x \in RunType : /\ runs' = [runs EXCEPT ![r] = x] /\ x.pc \in {"passed", "failed", "gate"}
                               /\ x.version = runs[r].version /\ x.gate = runs[r].gate /\ x.breaking = runs[r].breaking
                               /\ \A pc \in {"passed", "failed", "gate"} : Goto(r, pc) => x.pc = pc
      BY <2>0, GotoIs
    <2>2. x.pc \in {"passed", "failed"} /\ (x.pc = "passed" => ~(x.gate /\ x.breaking))
      BY <1>2, <2>1 DEF EndDiff
    <2>3. runs[r].pc = "gate"
      BY <1>2 DEF EndDiff, At
    <2>4. x.version # Preview /\ x.pc = "passed" /\ x.gate => deployed[x.version].diff \in {"none", "non_breaking"}
      <3> SUFFICES ASSUME x.version # Preview, x.pc = "passed", x.gate
                   PROVE  deployed[x.version].diff \in {"none", "non_breaking"}
        OBVIOUS
      <3>1. deployed[x.version].diff # "missing" /\ deployed[x.version].diff # "breaking" /\ x.version \in Versions
        BY <1>0, <2>1, <2>2, <2>3 DEF RunFits
      <3>2. \A v \in Versions : deployed[v].diff \in Classifications \union {"missing"}
        BY StoredDiffs DEF GateInv
      <3> QED BY <3>1, <3>2 DEF Classifications
    <2>5. RunFits(x)'
      BY <1>0, <2>1, <2>2, <2>4 DEF RunFits, Versions
    <2> QED BY <1>0, <1>1, <2>1, <2>2, <2>5, QuietRun
  <1>3. CASE NextRun(r)
    <2>1. PICK x : x = NewRun
      OBVIOUS
    <2>2. x \in RunType /\ x.pc = "new" /\ x.version = Preview
      BY <2>1 DEF NewRun, RunType, Preview, Found
    <2>3. runs' = [runs EXCEPT ![r] = x]
      BY <1>3, <2>1 DEF NextRun
    <2>4. RunFits(x)'
      BY <2>2 DEF RunFits
    <2> QED BY <1>0, <1>1, <2>2, <2>3, <2>4, QuietRun
  <1> QED BY <1>2, <1>3

\* The comments are listed: the first page has the one that is there, or none.
LEMMA ListKeeps == ASSUME GateInv, NEW r \in ActionRuns, ListComments(r) PROVE GateInv'
  <1>0. /\ UNCHANGED <<deployed, comments>> /\ GateTyped /\ runs[r] \in RunType /\ RunFits(runs[r])
        /\ runs \in [ActionRuns -> RunType] /\ raced \in BOOLEAN
        /\ comments \in Seq(ActionRuns \union {"person"}) /\ runs[r].pc = "list"
    BY DEF ListComments, serverVars, GateInv, GateTyped, At
  <1>1. Grows
    BY <1>0, SameGrows
  <1>2. CASE Goto(r, "failed") /\ UNCHANGED raced
    <2>1. PICK x \in RunType : /\ runs' = [runs EXCEPT ![r] = x] /\ x.version = runs[r].version /\ x.pc = "failed"
      BY <1>2, GotoIs
    <2>2. RunFits(x)'
      BY <1>0, <2>1 DEF RunFits, Versions
    <2> QED BY <1>0, <1>1, <1>2, <2>1, <2>2, QuietRun
  <1>3. CASE ~(Goto(r, "failed") /\ UNCHANGED raced)
    <2>1. PICK onPage : onPage = {i \in Stickies : i <= PageSize}
      OBVIOUS
    <2>2. PICK first : first = IF onPage = {} THEN 0 ELSE CHOOSE i \in onPage : \A j \in onPage : i <= j
      OBVIOUS
    <2>3. /\ runs' = [runs EXCEPT ![r].pc = "upsert", ![r].found = first]
          /\ raced' = (raced \/ \E o \in ActionRuns \ {r} : At(o, "upsert"))
      BY <1>3, <2>1, <2>2 DEF ListComments
    <2>4. PICK x : x = [runs[r] EXCEPT !.pc = "upsert", !.found = first]
      OBVIOUS
    <2>5. runs' = [runs EXCEPT ![r] = x]
      BY <1>0, <2>3, <2>4 DEF RunType
    <2>6. x.pc = "upsert" /\ x.version = runs[r].version /\ x.gate = runs[r].gate /\ x.breaking = runs[r].breaking /\ x.found = first
      BY <1>0, <2>4 DEF RunType
    <2>7. RunFits(x)'
      BY <1>0, <2>6 DEF RunFits, Versions
    <2>8. \A i \in Stickies : i \in Nat \ {0}
      BY <1>0 DEF Stickies, IsSticky
    <2>9. onPage \subseteq Stickies /\ (\A i \in Stickies : i \notin onPage => i > PageSize)
      BY <2>1, <2>8, ClientsAssumption
    <2>10. raced' \in BOOLEAN
      BY <1>0, <2>3
    <2>11. CommentsFit'
      <3> SUFFICES ASSUME ~raced' PROVE CommentsFit'
        BY DEF CommentsFit
      <3>1. ~raced /\ \A o \in ActionRuns \ {r} : runs[o].pc # "upsert"
        BY <1>0, <2>3 DEF At
      <3>2. Stickies' = Stickies /\ OneComment
        BY <1>0, <3>1 DEF Stickies, IsSticky, GateInv, CommentsFit
      <3>3. runs'[r] = x /\ \A o \in ActionRuns \ {r} : runs'[o].pc # "upsert"
        BY <1>0, <2>5, <3>1
      <3>4. IF first = 0 THEN \A i \in Stickies : i > PageSize ELSE first \in Stickies
        <4>1. CASE onPage = {}
          BY <2>2, <2>9, <4>1
        <4>2. CASE onPage # {}
          <5>1. PICK i \in onPage : TRUE
            BY <4>2
          <5>2. i <= PageSize /\ i \in Stickies
            BY <2>1, <5>1
          <5>3. \A j \in Stickies : j = i
            <6>1. i \in Nat /\ PageSize \in Nat /\ ~(i > PageSize)
              BY <2>8, <5>2, ClientsAssumption
            <6> QED BY <3>2, <5>2, <6>1 DEF OneComment
          <5>4. \A j \in onPage : i <= j
            BY <2>8, <2>9, <5>2, <5>3
          <5>5. first \in onPage
            BY <2>2, <4>2, <5>1, <5>4
          <5> QED BY <2>8, <2>9, <5>5
        <4> QED BY <4>1, <4>2
      <3>5. OneComment'
        BY <3>2 DEF OneComment
      <3> QED BY <2>6, <3>2, <3>3, <3>4, <3>5 DEF CommentsFit, At
    <2>12. x \in RunType
      <3>1. first \in Found
        <4>1. onPage \in SUBSET Nat
          BY <2>8, <2>9
        <4>2. Least(onPage) \in Found
          BY <4>1 DEF Found
        <4> QED BY <2>2, <4>2 DEF Found, Least
      <3> QED BY <1>0, <2>4, <3>1 DEF RunType
    <2> QED BY <1>0, <1>1, <2>5, <2>7, <2>10, <2>11, <2>12, OneRun
  <1> QED BY <1>2, <1>3

\* A comment is written: another run's is edited, or there is one behind the first page, or the first.
LEMMA UpsertKeeps == ASSUME GateInv, NEW r \in ActionRuns, UpsertComment(r) PROVE GateInv'
  <1>0. /\ UNCHANGED <<deployed, raced>> /\ GateTyped /\ runs[r] \in RunType /\ RunFits(runs[r])
        /\ runs \in [ActionRuns -> RunType] /\ raced \in BOOLEAN
        /\ comments \in Seq(ActionRuns \union {"person"}) /\ runs[r].pc = "upsert"
    BY DEF UpsertComment, serverVars, GateInv, GateTyped, At
  <1>1. Grows
    BY <1>0, SameGrows
  <1>2. CASE Goto(r, "failed") /\ UNCHANGED comments
    <2>1. PICK x \in RunType : /\ runs' = [runs EXCEPT ![r] = x] /\ x.version = runs[r].version /\ x.pc = "failed"
      BY <1>2, GotoIs
    <2>2. RunFits(x)'
      BY <1>0, <2>1 DEF RunFits, Versions
    <2> QED BY <1>0, <1>1, <1>2, <2>1, <2>2, QuietRun
  <1>3. CASE /\ comments' = IF runs[r].found = 0 THEN Append(comments, r) ELSE [comments EXCEPT ![runs[r].found] = r]
             /\ Goto(r, "gate")
    <2>1. PICK x \in RunType : /\ runs' = [runs EXCEPT ![r] = x] /\ x.pc = "gate"
                               /\ x.version = runs[r].version /\ x.gate = runs[r].gate /\ x.breaking = runs[r].breaking
      BY <1>3, GotoIs
    <2>2. RunFits(x)'
      BY <1>0, <2>1 DEF RunFits, Versions
    <2>3. PICK found \in Found : found = runs[r].found
      BY <1>0 DEF RunType
    <2>4. comments' \in Seq(ActionRuns \union {"person"})
      BY <1>0, <1>3
    <2>5. CommentsFit'
      <3> SUFFICES ASSUME ~raced PROVE CommentsFit'
        BY <1>0 DEF CommentsFit
      <3>1. \A o \in ActionRuns : runs'[o].pc # "upsert"
        BY <1>0, <2>1 DEF GateInv, CommentsFit, At
      <3>2. IF found = 0 THEN \A i \in Stickies : i > PageSize ELSE found \in Stickies
        BY <1>0, <2>3 DEF GateInv, CommentsFit, At
      <3>3. OneComment
        BY DEF GateInv, CommentsFit
      <3>4. OneComment'
        <4>1. CASE found = 0
          <5>1. comments' = Append(comments, r) /\ Len(comments) \in Nat
            BY <1>0, <1>3, <2>3, <4>1
          <5>2. \A i \in Stickies' : i \in Stickies \/ i = Len(comments) + 1
            BY <1>0, <5>1 DEF Stickies, IsSticky
          <5>3. \A i \in Stickies : i \in 1..Len(comments)
            BY <1>0 DEF Stickies
          <5>4. PageSize \in Nat
            BY ClientsAssumption
          <5>5. CASE PageSize < Len(comments) + 1
            BY <3>2, <4>1, <5>1, <5>2, <5>3, <5>4, <5>5 DEF OneComment
          <5>6. CASE ~(PageSize < Len(comments) + 1)
            <6>1. \A i \in Stickies : FALSE
              BY <3>2, <4>1, <5>1, <5>3, <5>4, <5>6
            <6> QED BY <5>2, <6>1 DEF OneComment
          <5> QED BY <5>5, <5>6
        <4>2. CASE found # 0
          <5>1. comments' = [comments EXCEPT ![found] = r] /\ found \in Stickies
            BY <1>3, <2>3, <3>2, <4>2
          <5>2. Stickies' \subseteq Stickies
            BY <1>0, <5>1 DEF Stickies, IsSticky
          <5> QED BY <3>3, <5>2 DEF OneComment
        <4> QED BY <4>1, <4>2
      <3> QED BY <3>1, <3>4 DEF CommentsFit, At
    <2> QED BY <1>0, <1>1, <2>1, <2>2, <2>4, <2>5, OneRun
  <1> QED BY <1>2, <1>3 DEF UpsertComment

\* The worker stores a diff, a command deploys, people comment, and the other commands.
LEMMA OthersKeep ==
    ASSUME GateInv, StoreDiff \/ PersonComments \/ CommandNext
    PROVE  GateInv'
  <1>0. GateTyped
    BY DEF GateInv
  <1>1. ASSUME Grows, UNCHANGED actionVars PROVE GateInv'
    <2>1. runs' = runs /\ UNCHANGED <<comments, raced>>
      BY <1>1 DEF actionVars
    <2>2. \A o \in ActionRuns : At(o, "upsert")' => runs'[o] = runs[o]
      BY <2>1
    <2>3. CommentsFit' /\ comments' \in Seq(ActionRuns \union {"person"}) /\ raced' \in BOOLEAN
      BY <2>1, <2>2, CommentsStay
    <2> QED BY <1>1, <2>1, <2>3, RunsStay
  <1>2. CASE StoreDiff
    <2>1. PICK v \in Versions, class \in Classifications :
            deployed[v].diff = "missing" /\ deployed' = [deployed EXCEPT ![v].diff = class]
      BY <1>2 DEF StoreDiff
    <2>2. deployed \in Seq(VersionType)
      BY <1>0 DEF GateTyped
    <2>3. PICK d : d = [deployed[v] EXCEPT !.diff = class]
      OBVIOUS
    <2>4. d \in VersionType /\ d.diff = class
      <3>1. deployed[v] \in VersionType
        BY <1>0, StoredDiffs
      <3> QED BY <2>3, <3>1 DEF VersionType
    <2>5. deployed' = [deployed EXCEPT ![v] = d]
      BY <2>1, <2>3
    <2>6. Grows
      BY <2>1, <2>2, <2>4, <2>5 DEF Grows, Versions
    <2> QED BY <1>1, <1>2, <2>6 DEF StoreDiff
  <1>3. CASE PersonComments
    <2>1. runs' = runs /\ UNCHANGED <<deployed, raced>> /\ comments' = Append(comments, "person")
      BY <1>3 DEF PersonComments, serverVars
    <2>2. comments \in Seq(ActionRuns \union {"person"}) /\ raced \in BOOLEAN /\ Grows
      BY <1>0, <2>1, SameGrows DEF GateTyped
    <2>3. Stickies' = Stickies
      BY <2>1, <2>2 DEF Stickies, IsSticky
    <2>4. CommentsFit'
      BY <2>1, <2>3 DEF GateInv, CommentsFit, OneComment, At
    <2>5. comments' \in Seq(ActionRuns \union {"person"}) /\ raced' \in BOOLEAN
      BY <2>1, <2>2
    <2> QED BY <2>1, <2>2, <2>4, <2>5, RunsStay
  <1>4. CASE CommandNext
    <2>1. UNCHANGED actionVars
      BY <1>4 DEF CommandNext, StoreDiff, InitProject, EditProjectFile, CommandLogout, CommandAuthStatus, CommandDiff,
           CommandVersions, CommandDeploy, CommandStatus, CommandOpen, StartLogin, PollForGithubAccessToken,
           ExchangeForBumdToken, WriteAuthState
    <2>2. StoreDiff \/ (\E spec \in Specs : deployed' = Deployed(spec)) \/ deployed' = deployed
      BY <1>4 DEF CommandNext, InitProject, EditProjectFile, CommandLogout, CommandAuthStatus, CommandDiff,
           CommandVersions, CommandDeploy, CommandStatus, CommandOpen, StartLogin, PollForGithubAccessToken,
           ExchangeForBumdToken, WriteAuthState, serverVars
    <2> QED BY <1>0, <1>1, <1>2, <2>1, <2>2, DeployedGrows, SameGrows
  <1> QED BY <1>2, <1>3, <1>4

\* No run, no comment: nothing to keep.
LEMMA GateInitHolds == ClientsInit => GateInv
  <1> SUFFICES ASSUME ClientsInit PROVE GateInv
    OBVIOUS
  <1>1. NewRun \in RunType /\ NewRun.pc = "new" /\ NewRun.version = Preview
    BY DEF NewRun, RunType, Preview, Found
  <1>2. GateTyped
    <2>1. <<>> \in Seq(VersionType) /\ <<>> \in Seq(ActionRuns \union {"person"})
      OBVIOUS
    <2> QED BY <1>1, <2>1 DEF ClientsInit, GateTyped
  <1>3. \A r \in ActionRuns : runs[r] = NewRun
    BY DEF ClientsInit
  <1>4. Stickies = {}
    BY DEF ClientsInit, Stickies
  <1> QED BY <1>1, <1>2, <1>3, <1>4 DEF GateInv, RunFits, CommentsFit, OneComment, At

\* Every step of a run, of the worker or of a command keeps it.
LEMMA GateStepHolds == GateInv /\ [ClientsNext]_clientVars => GateInv'
  <1> SUFFICES ASSUME GateInv, [ClientsNext]_clientVars PROVE GateInv'
    OBVIOUS
  <1>1. CASE UNCHANGED clientVars
    <2>1. UNCHANGED <<deployed, runs, comments, raced>>
      BY <1>1 DEF clientVars, serverVars, actionVars
    <2> QED BY <2>1 DEF GateInv, GateTyped, RunFits, CommentsFit, OneComment, At, Stickies, IsSticky, Versions
  <1> QED BY <1>1, StartKeeps, DeployKeeps, FetchKeeps, EndKeeps, ListKeeps, UpsertKeeps, OthersKeep
          DEF ClientsNext, ActionNext

(* A run that gates and passes has read a diff that is not breaking, and the action keeps one
   comment as long as runs do not write at a time, for any number of runs, versions and comments
   (github-action/src/main.ts, github-comment.ts): a diff that is stored does not change, and the
   comment that was found is still the action's only one when it is written. *)
THEOREM GatesAndCommentsHolds == ClientsSpec => []GatesAndCommentsHold
  <1>1. GateInv => GatesAndCommentsHold
    <2> SUFFICES ASSUME GateInv PROVE GatesAndCommentsHold
      OBVIOUS
    <2>1. \A r \in ActionRuns : runs[r].pc = "passed" /\ runs[r].gate /\ runs[r].version # Preview =>
            deployed[runs[r].version].diff \in Classifications \ {"breaking"}
      BY DEF GateInv, RunFits, Classifications
    <2>2. (\A i, j \in Stickies : i = j) => Cardinality(Stickies) <= 1
      <3>1. CASE Stickies = {}
        BY <3>1, FS_EmptySet
      <3>2. CASE Stickies # {}
        <4>1. PICK i : i \in Stickies
          BY <3>2
        <4>2. (\A k, j \in Stickies : k = j) => Stickies = {i}
          BY <4>1
        <4>3. Cardinality({i}) = 1
          BY FS_Singleton
        <4> QED BY <4>2, <4>3
      <3> QED BY <3>1, <3>2
    <2> QED BY <2>1, <2>2 DEF GateInv, CommentsFit, OneComment, GatesAndCommentsHold
  <1> QED BY <1>1, GateInitHolds, GateStepHolds, PTL DEF ClientsSpec

\* The branch's versions differ in their content, and a command leaves its files and its login in their ranges.
LoginType == [pc : {"idle", "poll", "exchange", "write"}, polls : 0..(MaxPolls - 1)]
CommandsTyped ==
    /\ authFile \in {"missing", "stored", "broken"} /\ projectFile \in {"missing", "written", "broken"}
    /\ deviceLogin \in LoginType /\ exit \in {"ok", "failed"}
ContentsDiffer == \A v, w \in Versions : deployed[v].spec = deployed[w].spec => v = w

DeployClientsTyped == GateInv /\ ContentsDiffer /\ CommandsTyped

\* No login is under way at the start.
LEMMA LoginsStart == NoLogin \in LoginType
  BY ClientsAssumption DEF NoLogin, LoginType

LEMMA DeployClientsTypesStart == ClientsInit => DeployClientsTyped
  BY GateInitHolds, LoginsStart DEF ClientsInit, DeployClientsTyped, ContentsDiffer, CommandsTyped, Versions

\* A deploy adds a version for a content that no version has.
LEMMA ContentsStayDifferent ==
    ASSUME GateInv, ContentsDiffer, StoreDiff \/ (\E spec \in Specs : deployed' = Deployed(spec)) \/ deployed' = deployed
    PROVE  ContentsDiffer'
  <1>1. deployed \in Seq(VersionType)
    BY DEF GateInv, GateTyped
  <1>2. CASE deployed' = deployed
    BY <1>2 DEF ContentsDiffer, Versions
  <1>3. CASE StoreDiff
    <2>1. PICK v \in Versions, class \in Classifications : deployed' = [deployed EXCEPT ![v].diff = class]
      BY <1>3 DEF StoreDiff
    <2>2. \A w \in Versions : deployed[w] \in VersionType
      BY <1>1 DEF Versions
    <2>3. Versions' = Versions /\ \A w \in Versions : deployed'[w].spec = deployed[w].spec
      BY <1>1, <2>1, <2>2 DEF Versions, VersionType
    <2> QED BY <2>3 DEF ContentsDiffer
  <1>4. ASSUME NEW spec \in Specs, deployed' = Deployed(spec) PROVE ContentsDiffer'
    <2>1. CASE \E v \in Versions : deployed[v].spec = spec
      BY <1>2, <1>4, <2>1 DEF Deployed
    <2>2. CASE ~\E v \in Versions : deployed[v].spec = spec
      <3>1. PICK x : x = [spec |-> spec, diff |-> "missing"]
        OBVIOUS
      <3>2. deployed' = Append(deployed, x) /\ x.spec = spec
        BY <1>4, <2>2, <3>1 DEF Deployed
      <3>3. /\ Versions' = Versions \union {Len(deployed) + 1} /\ deployed'[Len(deployed) + 1] = x
            /\ \A v \in Versions : deployed'[v] = deployed[v]
        BY <1>1, <3>2 DEF Versions
      <3>4. ASSUME NEW v \in Versions', NEW w \in Versions', deployed'[v].spec = deployed'[w].spec PROVE v = w
        <4>1. CASE v \in Versions /\ w \in Versions
          BY <3>3, <3>4, <4>1 DEF ContentsDiffer
        <4>2. CASE v \in Versions /\ w = Len(deployed) + 1
          BY <2>2, <3>2, <3>3, <3>4, <4>2
        <4>3. CASE w \in Versions /\ v = Len(deployed) + 1
          BY <2>2, <3>2, <3>3, <3>4, <4>3
        <4> QED BY <3>3, <4>1, <4>2, <4>3
      <3> QED BY <3>4 DEF ContentsDiffer
    <2> QED BY <2>1, <2>2
  <1> QED BY <1>2, <1>3, <1>4

\* A login is polled within its bound, and a command leaves a file whole or broken.
LEMMA CommandTypesKept == CommandsTyped /\ [ClientsNext]_clientVars => CommandsTyped'
  <1> SUFFICES ASSUME CommandsTyped, [ClientsNext]_clientVars PROVE CommandsTyped'
    OBVIOUS
  <1>1. CASE UNCHANGED commandVars
    BY <1>1 DEF commandVars, CommandsTyped
  <1>2. ActionNext => UNCHANGED commandVars
    BY DEF ActionNext, StoreDiff, PersonComments, StartRun, RunDeploy, FetchDiff, ListComments, UpsertComment, EndDiff, NextRun
  <1>3. StoreDiff => UNCHANGED commandVars
    BY DEF StoreDiff
  <1>4. CASE InitProject \/ EditProjectFile \/ CommandLogout
    BY <1>4 DEF InitProject, EditProjectFile, CommandLogout, Exit, CommandsTyped
  <1>5. CASE CommandAuthStatus \/ CommandDiff \/ CommandVersions \/ \E flags \in BOOLEAN : CommandOpen(flags)
    BY <1>5 DEF CommandAuthStatus, CommandDiff, CommandVersions, CommandOpen, Exit, Files, CommandsTyped
  <1>6. CASE \E envToken, flags \in BOOLEAN : CommandDeploy(envToken, flags) \/ CommandStatus(envToken, flags)
    BY <1>6 DEF CommandDeploy, CommandStatus, Exit, Files, CommandsTyped
  <1>7. CASE StartLogin \/ PollForGithubAccessToken \/ ExchangeForBumdToken \/ WriteAuthState
    <2>1. deviceLogin' \in LoginType
      <3>1. CASE StartLogin
        BY <3>1, ClientsAssumption DEF StartLogin, LoginType, CommandsTyped
      <3>2. CASE PollForGithubAccessToken
        <4>1. deviceLogin \in LoginType
          BY DEF CommandsTyped
        <4>2. CASE deviceLogin' = [deviceLogin EXCEPT !.pc = "exchange"]
          BY <4>1, <4>2 DEF LoginType
        <4>3. CASE deviceLogin.polls + 1 < MaxPolls /\ deviceLogin' = [deviceLogin EXCEPT !.polls = @ + 1]
          BY <4>1, <4>3, ClientsAssumption DEF LoginType
        <4> QED BY <3>2, <4>2, <4>3, LoginsStart DEF PollForGithubAccessToken
      <3>3. CASE ExchangeForBumdToken \/ WriteAuthState
        BY <3>3, LoginsStart DEF ExchangeForBumdToken, WriteAuthState, LoginType, CommandsTyped
      <3> QED BY <1>7, <3>1, <3>2, <3>3
    <2> QED BY <1>7, <2>1 DEF StartLogin, PollForGithubAccessToken, ExchangeForBumdToken, WriteAuthState, Exit, Files, CommandsTyped
  <1> QED BY <1>1, <1>2, <1>3, <1>4, <1>5, <1>6, <1>7 DEF ClientsNext, CommandNext, clientVars

LEMMA DeployClientsTypesKept == DeployClientsTyped /\ [ClientsNext]_clientVars => DeployClientsTyped'
  <1> SUFFICES ASSUME DeployClientsTyped, [ClientsNext]_clientVars PROVE DeployClientsTyped'
    OBVIOUS
  <1>1. StoreDiff \/ (\E spec \in Specs : deployed' = Deployed(spec)) \/ deployed' = deployed
    BY DEF ClientsNext, ActionNext, CommandNext, PersonComments, StartRun, RunDeploy, FetchDiff, ListComments, UpsertComment,
           EndDiff, NextRun, InitProject, EditProjectFile, CommandLogout, CommandAuthStatus, CommandDiff, CommandVersions,
           CommandDeploy, CommandStatus, CommandOpen, StartLogin, PollForGithubAccessToken, ExchangeForBumdToken,
           WriteAuthState, clientVars, serverVars
  <1> QED BY <1>1, GateStepHolds, ContentsStayDifferent, CommandTypesKept DEF DeployClientsTyped

LEMMA DeployClientsTypes == DeployClientsTyped => DeployClientsTypeOK
  <1> SUFFICES ASSUME DeployClientsTyped PROVE DeployClientsTypeOK
    OBVIOUS
  <1>1. deployed \in Seq(VersionType) /\ comments \in Seq(ActionRuns \union {"person"})
    BY DEF DeployClientsTyped, GateInv, GateTyped
  <1>2. \A i \in DOMAIN comments : comments[i] \in ActionRuns \union {"person"}
    BY <1>1
  <1>3. \A r \in ActionRuns : runs[r].version \in Versions \union {Preview}
    BY DEF DeployClientsTyped, GateInv, RunFits
  <1>4. deviceLogin.polls \in 0..(MaxPolls - 1)
    BY DEF DeployClientsTyped, CommandsTyped, LoginType
  <1> QED BY <1>1, <1>2, <1>3, <1>4 DEF DeployClientsTyped, ContentsDiffer, CommandsTyped, DeployClientsTypeOK, VersionType
------------------------------------------------------------------------------
(***************************************************************************)
(* All of them beside each other, the accounts of Accounts_proofs included *)
(***************************************************************************)
ClientsInv ==
    /\ subject \in Subjects
    /\ subject = "sessions" => SessionInv
    /\ subject = "membership" => MemberInv
    /\ subject = "tokens" => TokenInv
    /\ subject = "pages" => PageInv
    /\ subject = "environments" => EnvInv /\ SavesTyped
    /\ subject = "try" => TryInv /\ PanelTyped
    /\ subject = "draft" => DraftTyped
    /\ subject = "console" => ConsoleTyped
    /\ subject \in {"actions", "commands"} => DeployClientsTyped

\* Whatever a behaviour is about starts in its range.
LEMMA ClientsStart == MCInit => ClientsInv
  <1> SUFFICES ASSUME MCInit PROVE ClientsInv
    OBVIOUS
  <1>1. SessionInit /\ MemberInit /\ TokenInit /\ PageInit /\ EnvInit /\ TryInit /\ DraftInit /\ ConsoleInit /\ ClientsInit
    BY DEF MCInit
  <1>2. SessionInv /\ MemberInv /\ TokenInv /\ PageInv
    BY <1>1, SessionInvStarts, MemberInitHolds, TokenInitHolds, PageInitHolds
  <1>3. EnvInv /\ SavesTyped
    <2>1. saves = 0
      BY <1>1 DEF EnvInit
    <2> QED BY <1>1, <2>1, EnvInitHolds, EnvAssumption DEF SavesTyped
  <1>4. TryInv /\ PanelTyped
    <2>1. declared = <<>> /\ panelResult = NoOperation
      BY <1>1 DEF TryInit
    <2>2. Len(declared) = 0
      BY <2>1
    <2> QED BY <1>1, <2>1, <2>2, TryInitHolds, TryItOutAssumption DEF PanelTyped, Latest, Shown
  <1>5. DraftTyped /\ ConsoleTyped /\ DeployClientsTyped
    BY <1>1, DraftTypesStart, ConsoleTypesStart, DeployClientsTypesStart
  <1>6. subject \in Subjects
    BY DEF MCInit
  <1> QED BY <1>2, <1>3, <1>4, <1>5, <1>6 DEF ClientsInv

\* What moves keeps its range; nobody asks for the range of the others.
LEMMA ClientsKept == ClientsInv /\ [MCNext]_<<subject, dashboardVars, portalVars, consoleAndClientVars>> => ClientsInv'
  <1> SUFFICES ASSUME ClientsInv, [MCNext]_<<subject, dashboardVars, portalVars, consoleAndClientVars>> PROVE ClientsInv'
    OBVIOUS
  <1>0. subject' = subject
    BY DEF MCNext
  <1>1. subject = "sessions" => [SessionNext]_sessionVars
    BY DEF MCNext, dashboardVars, accountVars
  <1>2. subject = "membership" => [MemberNext]_memberVars
    BY DEF MCNext, dashboardVars, accountVars
  <1>3. subject = "tokens" => [TokenNext]_tokenVars
    BY DEF MCNext, dashboardVars, accountVars
  <1>4. subject = "pages" => [PageNext]_pageVars
    BY DEF MCNext, dashboardVars
  <1>5. subject = "environments" => [EnvNext]_envVars
    BY DEF MCNext, dashboardVars
  <1>6. subject = "try" => [TryNext]_tryVars
    BY DEF MCNext, portalVars
  <1>7. subject = "draft" => [DraftNext]_draftVars
    BY DEF MCNext, portalVars
  <1>8. subject = "console" => [ConsoleNext]_consoleVars
    BY DEF MCNext, consoleAndClientVars
  <1>9. subject \in {"actions", "commands"} => [ClientsNext]_clientVars
    BY DEF MCNext, consoleAndClientVars, ClientsNext
  <1>10. subject \in {"sessions", "membership", "tokens"} => ClientsInv'
    BY <1>0, <1>1, <1>2, <1>3, SessionInvKept, MemberStepHolds, TokenStepHolds DEF ClientsInv
  <1>11. subject \in {"pages", "environments"} => ClientsInv'
    BY <1>0, <1>4, <1>5, PageStepHolds, EnvStepHolds, SavesKept DEF ClientsInv
  <1>12. subject \in {"try", "draft"} => ClientsInv'
    BY <1>0, <1>6, <1>7, TryStepHolds, PanelTypesKept, DraftTypesKept DEF ClientsInv
  <1>13. subject \in {"console", "actions", "commands"} => ClientsInv'
    BY <1>0, <1>8, <1>9, ConsoleTypesKept, DeployClientsTypesKept DEF ClientsInv
  <1> QED BY <1>10, <1>11, <1>12, <1>13 DEF ClientsInv, Subjects

(* Whatever a person, a page, the portal, a console or a client of the deploy API does, and for
   any number of people, calls, environments, versions and runs, every variable stays in its
   range: a page never shows an operation it does not have, a poll never brings a status there is
   none of, no two versions of a branch have one content. *)
THEOREM ClientsTypeOKHolds == MCSpec => []ClientsTypeOK
  <1>1. ClientsInv => ClientsTypeOK
    <2> SUFFICES ASSUME ClientsInv PROVE ClientsTypeOK
      OBVIOUS
    <2>1. subject \in {"sessions", "membership", "tokens"} => ClientsTypeOK
      BY DEF ClientsInv, ClientsTypeOK, SessionInv, MemberInv, TokenInv
    <2>2. subject \in {"pages", "environments", "try"} => ClientsTypeOK
      BY EnvTypes, TryTypes DEF ClientsInv, ClientsTypeOK, PageInv
    <2>3. subject \in {"draft", "console", "actions", "commands"} => ClientsTypeOK
      BY DeployClientsTypes DEF ClientsInv, ClientsTypeOK, DraftTyped, ConsoleTyped
    <2> QED BY <2>1, <2>2, <2>3 DEF ClientsInv, Subjects
  <1> QED BY <1>1, ClientsStart, ClientsKept, PTL DEF MCSpec
=============================================================================
