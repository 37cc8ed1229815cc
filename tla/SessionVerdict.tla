--------------------------- MODULE SessionVerdict ---------------------------
(***************************************************************************)
(* What a session promises the rest of the system, whatever it is made of: *)
(* it is told to stop or it is not, and its card's route hears of it once, *)
(* at its end.  A session that was told to stop in time ends without an    *)
(* outcome: the drag that stopped it may forget the card's place on its    *)
(* route (flowengine.go, handleMove), for nobody will move the card after  *)
(* it.                                                                     *)
(***************************************************************************)
CONSTANTS Sessions, None

VARIABLES
  stopped,   \* the sessions that were told to stop before their end was decided
  outcome    \* what the route was told of each

vars == <<stopped, outcome>>

Init ==
  /\ stopped = {}
  /\ outcome = [s \in Sessions |-> None]

Stop(s) ==
  /\ outcome[s] = None
  /\ stopped' = stopped \cup {s}
  /\ UNCHANGED outcome

Tell(s, o) ==
  /\ outcome[s] = None
  /\ s \in stopped => o = "nothing"
  /\ outcome' = [outcome EXCEPT ![s] = o]
  /\ UNCHANGED stopped

Next ==
  \E s \in Sessions :
    Stop(s) \/ \E o \in {"success", "failure", "nothing"} : Tell(s, o)

Spec == Init /\ [][Next]_vars
=============================================================================
