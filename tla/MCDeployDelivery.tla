-------------------------- MODULE MCDeployDelivery --------------------------
(***************************************************************************)
(* One deploy of a good or a bad spec, announced to one endpoint that may  *)
(* exist from the start or be created meanwhile.                           *)
(***************************************************************************)
EXTENDS DeployDelivery

CONSTANTS d1, w1, w2, s1, s2, hook, good, bad

MCEvents == {d1} \X {"version.created", "version.failed"}
MCEventTypes == {"version.created", "version.failed"}
=============================================================================
