-------------------------- MODULE MCDeployPipeline --------------------------
(***************************************************************************)
(* A small instance of DeployPipeline alone: one deploy of a good spec,    *)
(* another good spec or one that does not parse, and one worker.           *)
(***************************************************************************)
EXTENDS DeployPipeline

CONSTANTS d1, w1, good, better, bad
=============================================================================
