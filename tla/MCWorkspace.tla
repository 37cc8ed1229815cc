----------------------------- MODULE MCWorkspace -----------------------------
(* Instances of Workspace small enough to check.                           *)
EXTENDS Workspace, TLC
=============================================================================
