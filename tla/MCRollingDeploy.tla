--------------------------- MODULE MCRollingDeploy ---------------------------
(* Three images to build and two failures, by either method.                *)
EXTENDS RollingDeploy
=============================================================================
