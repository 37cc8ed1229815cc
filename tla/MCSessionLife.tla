---------------------------- MODULE MCSessionLife ----------------------------
(* Instances of SessionLife small enough to check.                         *)
EXTENDS SessionLife, TLC
=============================================================================
