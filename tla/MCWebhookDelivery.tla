------------------------- MODULE MCWebhookDelivery -------------------------
(***************************************************************************)
(* One event, announced any number of times, to one endpoint.              *)
(***************************************************************************)
EXTENDS WebhookDelivery

CONSTANTS version, s1, s2, hook

MCEvents == {<<version, "version.created">>}
MCEventTypes == {"version.created", "version.failed"}
=============================================================================
