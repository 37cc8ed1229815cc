-------------------------- MODULE MCSourceDelivery --------------------------
(* Instances of SourceDelivery small enough to check.                      *)
EXTENDS SourceDelivery, TLC

CONSTANTS i1, i2

\* The first state of i1 is noise the rules drop; everything else is wanted.
FirstStateDropped == {<<i1, 1>>}
NothingDropped == {}
=============================================================================
