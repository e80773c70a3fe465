--------------------------- MODULE MCDeployments ---------------------------
(***************************************************************************)
(* Deployments for TLC, alone: what a comment says of TriggerDeploy.       *)
(***************************************************************************)
EXTENDS Deployments
=============================================================================
