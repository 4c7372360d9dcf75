--------------------------- MODULE ManagementPages ---------------------------
(***************************************************************************)
(* The dashboard pages that manage webhooks, API tokens, members and docs: *)
(* the React state of one page, its dialogs, and the calls it has under    *)
(* way, whose answers arrive in any order.  A created thing stands for its *)
(* one-time secret: the webhook's signing secret, the plaintext token, the *)
(* invite link.  Form fields, layout and messages are abstracted.          *)
(*                                                                         *)
(* Sources: frontend page/dashboard-webhooks, dashboard-api-tokens,        *)
(* dashboard-members, features/create-doc, shared/ui/dashboard-modal.tsx.  *)
(***************************************************************************)
EXTENDS Integers, FiniteSets

CONSTANTS Things,       \* webhooks, tokens, invites or docs that may be created
          Nothing,
          PageCalls     \* calls under way at a time

ASSUME PagesAssumption == Nothing \notin Things

Pages == {"webhooks", "tokens", "members", "docs"}

VARIABLES page,       \* the page the browser shows
          mayManage,  \* the role of the user, rendered into the page
          row,        \* things that have a row in the database
          listed,     \* things in the page's list, as of the last refresh
          dialog,     \* the dialogs: isOpen, editing, the secret shown, loading
          banner,     \* the webhook whose rotated secret is on the screen
          panel,      \* the delivery panel: selected webhook, whose deliveries, loading
          pageCall    \* where each call stands

pageVars == <<page, mayManage, row, listed, dialog, banner, panel, pageCall>>

NoPageCall == [pc |-> "idle", kind |-> "none", thing |-> Nothing]
ClosedDialog == [isOpen |-> FALSE, editing |-> Nothing, secret |-> Nothing, loading |-> FALSE]

InFlight(c) == pageCall[c].pc # "idle"
Submits == {c \in PageCalls : InFlight(c) /\ pageCall[c].kind \in {"create", "edit"}}
Known ==  \* a new thing has an id that nothing knows yet
    row \union listed \union {pageCall[c].thing : c \in PageCalls}
    \union {dialog.editing, dialog.secret, banner, panel.selected, panel.of}
Uncovered == ~dialog.isOpen /\ dialog.editing = Nothing  \* an open dialog covers the page

Send(c, kind, x) ==
    /\ ~InFlight(c)
    /\ pageCall' = [pageCall EXCEPT ![c] = [pc |-> "sent", kind |-> kind, thing |-> x]]
Received(c) == pageCall' = [pageCall EXCEPT ![c] = NoPageCall]
------------------------------------------------------------------------------
(***************************************************************************)
(* Opening and closing.                                                    *)
(***************************************************************************)
\* Mutant: opening the dialog enables its button again.
OpenFormReset == [dialog EXCEPT !.isOpen = TRUE, !.secret = Nothing, !.loading = FALSE]

\* The three pages with a one-time secret: the form is reset, loading is not.
OpenForm == [dialog EXCEPT !.isOpen = TRUE, !.secret = Nothing]

OpenWebhookForm == page = "webhooks" /\ mayManage /\ dialog' = OpenForm
OpenTokenForm == page = "tokens" /\ mayManage /\ dialog' = OpenForm
OpenInviteForm == page = "members" /\ mayManage /\ dialog' = OpenForm

\* resetForm: loading is reset as well.
OpenDocForm == page = "docs" /\ dialog' = [ClosedDialog EXCEPT !.isOpen = TRUE]

HandleOpen ==
    /\ Uncovered
    /\ OpenWebhookForm \/ OpenTokenForm \/ OpenInviteForm \/ OpenDocForm
    /\ UNCHANGED <<page, mayManage, row, listed, banner, panel, pageCall>>

HandleOpenEdit(x) ==
    /\ Uncovered /\ page = "webhooks" /\ mayManage /\ x \in listed
    /\ dialog' = [dialog EXCEPT !.editing = x]
    /\ UNCHANGED <<page, mayManage, row, listed, banner, panel, pageCall>>

\* Backdrop, cross, Done and the banner's Dismiss; Cancel alone waits for loading.
CloseWebhookForms ==
    /\ page = "webhooks"
    /\ dialog' = [dialog EXCEPT !.isOpen = FALSE, !.editing = Nothing, !.secret = Nothing]
    /\ banner' = Nothing

CloseSecretForm ==
    /\ page \in {"tokens", "members"}
    /\ dialog' = [dialog EXCEPT !.isOpen = FALSE, !.secret = Nothing]
    /\ UNCHANGED banner

\* Escape and the backdrop of DashboardModal come here too.
CloseDocForm ==
    /\ page = "docs" /\ ~dialog.loading
    /\ dialog' = [dialog EXCEPT !.isOpen = FALSE]
    /\ UNCHANGED banner

HandleClose ==
    /\ ~Uncovered \/ banner # Nothing
    /\ CloseWebhookForms \/ CloseSecretForm \/ CloseDocForm
    /\ UNCHANGED <<page, mayManage, row, listed, panel, pageCall>>
------------------------------------------------------------------------------
(***************************************************************************)
(* Calls of the page.                                                      *)
(***************************************************************************)
\* The form is there until its secret is, and its button is disabled while loading.
CreateForm == dialog.isOpen /\ dialog.secret = Nothing /\ ~dialog.loading

HandleCreateSubmit(c) ==
    /\ CreateForm
    /\ \E x \in Things \ Known : Send(c, "create", x)
    /\ dialog' = [dialog EXCEPT !.loading = TRUE]
    /\ UNCHANGED <<page, mayManage, row, listed, banner, panel>>

HandleEditSubmit(c) ==
    /\ dialog.editing # Nothing /\ ~dialog.loading
    /\ Send(c, "edit", dialog.editing)
    /\ dialog' = [dialog EXCEPT !.loading = TRUE]
    /\ UNCHANGED <<page, mayManage, row, listed, banner, panel>>

\* Buttons of a row, after a confirm(): no flag says that a call is under way.
HandleDelete(c, x) ==
    /\ Uncovered /\ page # "docs" /\ mayManage /\ x \in listed
    /\ Send(c, "delete", x)
    /\ UNCHANGED <<page, mayManage, row, listed, dialog, banner, panel>>

HandleRotateSecret(c, x) ==
    /\ Uncovered /\ page = "webhooks" /\ mayManage /\ x \in listed
    /\ Send(c, "rotate", x)
    /\ UNCHANGED <<page, mayManage, row, listed, dialog, banner, panel>>

HandleFetchDeliveries(c, x) ==
    /\ Uncovered /\ page = "webhooks" /\ x \in listed
    /\ IF panel.selected = x
       THEN panel' = [panel EXCEPT !.selected = Nothing, !.of = Nothing] /\ UNCHANGED pageCall
       ELSE Send(c, "fetch", x) /\ panel' = [selected |-> x, of |-> Nothing, loading |-> TRUE]
    /\ UNCHANGED <<page, mayManage, row, listed, dialog, banner>>

\* The route handler and the backend: an error may come before the change or after it.
Serve(c) ==
    LET x == pageCall[c].thing
        kind == pageCall[c].kind IN
    /\ pageCall[c].pc = "sent"
    /\ row' \in {row, CASE kind = "create" -> row \union {x}
                       [] kind = "delete" -> row \ {x}
                       [] OTHER -> row}
    /\ \E pc \in {"answered", "failed"} :
           /\ pc = "answered" => IF kind \in {"create", "delete"} THEN row' # row ELSE x \in row
           /\ pageCall' = [pageCall EXCEPT ![c].pc = pc]
    /\ UNCHANGED <<page, mayManage, listed, dialog, banner, panel>>

CreateAnswered(c) ==
    /\ pageCall[c].pc = "answered" /\ pageCall[c].kind = "create"
    /\ dialog' = IF page = "docs" THEN [dialog EXCEPT !.isOpen = FALSE]
                 ELSE [dialog EXCEPT !.secret = pageCall[c].thing, !.loading = FALSE]
    /\ Received(c)
    /\ UNCHANGED <<page, mayManage, row, listed, banner, panel>>

\* setIsEditOpen(false): whichever webhook is edited by now.
EditAnswered(c) ==
    /\ pageCall[c].pc = "answered" /\ pageCall[c].kind = "edit"
    /\ dialog' = [dialog EXCEPT !.editing = Nothing, !.loading = FALSE]
    /\ Received(c)
    /\ UNCHANGED <<page, mayManage, row, listed, banner, panel>>

RotateAnswered(c) ==
    /\ pageCall[c].pc = "answered" /\ pageCall[c].kind = "rotate"
    /\ banner' = pageCall[c].thing
    /\ Received(c)
    /\ UNCHANGED <<page, mayManage, row, listed, dialog, panel>>

\* setDeliveries(data): whichever webhook is selected by now.
DeliveriesAnswered(c) ==
    /\ pageCall[c].pc = "answered" /\ pageCall[c].kind = "fetch"
    /\ panel' = [panel EXCEPT !.of = pageCall[c].thing, !.loading = FALSE]
    /\ Received(c)
    /\ UNCHANGED <<page, mayManage, row, listed, dialog, banner>>

DeleteAnswered(c) ==
    /\ pageCall[c].pc = "answered" /\ pageCall[c].kind = "delete"
    /\ Received(c)
    /\ UNCHANGED <<page, mayManage, row, listed, dialog, banner, panel>>

\* Not ok, or a connection error: an alert or the form's error message.
CallFailed(c) ==
    /\ pageCall[c].pc = "failed"
    /\ dialog' = [dialog EXCEPT !.loading = IF c \in Submits THEN FALSE ELSE @]
    /\ panel' = [panel EXCEPT !.loading = IF pageCall[c].kind = "fetch" THEN FALSE ELSE @]
    /\ Received(c)
    /\ UNCHANGED <<page, mayManage, row, listed, banner>>

\* router.refresh() asks for the page again; the list is what the backend answers then.
Refreshed ==
    /\ listed' = row
    /\ UNCHANGED <<page, mayManage, row, dialog, banner, panel, pageCall>>
------------------------------------------------------------------------------
PageInit ==
    /\ page \in Pages /\ mayManage \in BOOLEAN
    /\ row \in SUBSET Things /\ listed = row
    /\ dialog = ClosedDialog /\ banner = Nothing
    /\ panel = [selected |-> Nothing, of |-> Nothing, loading |-> FALSE]
    /\ pageCall = [c \in PageCalls |-> NoPageCall]

PageClick(c) ==
    \/ HandleCreateSubmit(c) \/ HandleEditSubmit(c)
    \/ \E x \in Things : HandleDelete(c, x) \/ HandleRotateSecret(c, x) \/ HandleFetchDeliveries(c, x)

PageAnswer(c) ==
    \/ Serve(c) \/ CreateAnswered(c) \/ EditAnswered(c) \/ RotateAnswered(c)
    \/ DeliveriesAnswered(c) \/ DeleteAnswered(c) \/ CallFailed(c)

PageNext ==
    \/ HandleOpen \/ HandleClose \/ Refreshed \/ \E x \in Things : HandleOpenEdit(x)
    \/ \E c \in PageCalls : PageClick(c) \/ PageAnswer(c)

PageSpec == PageInit /\ [][PageNext]_pageVars
------------------------------------------------------------------------------
(* Every variable stays in its range. *)
PageTypeOK ==
    /\ page \in Pages /\ mayManage \in BOOLEAN
    /\ row \subseteq Things /\ listed \subseteq Things
    /\ dialog \in [isOpen : BOOLEAN, editing : Things \union {Nothing},
                   secret : Things \union {Nothing}, loading : BOOLEAN]
    /\ banner \in Things \union {Nothing}
    /\ panel \in [selected : Things \union {Nothing}, of : Things \union {Nothing}, loading : BOOLEAN]
    /\ pageCall \in [PageCalls -> [pc : {"idle", "sent", "answered", "failed"},
                                   kind : {"none", "create", "edit", "delete", "rotate", "fetch"},
                                   thing : Things \union {Nothing}]]

(* However dialogs are closed while they load and opened again, one submit of the page is
   under way at a time, so that one click makes one webhook, token, invite or doc
   (webhooks-client.tsx:79, 493; api-tokens-client.tsx:54, 275; create-doc-modal.tsx:66). *)
OneSubmitAtATime == Cardinality(Submits) <= 1
=============================================================================
