---------------------------- MODULE MCDeployment ----------------------------
(* A few jobs of two applications with two commits each.                   *)
EXTENDS Deployment
=============================================================================
