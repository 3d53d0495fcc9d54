------------------------------- MODULE Mission -------------------------------
(***************************************************************************)
(* What an emergency and its crew promise to an observer of the log, with  *)
(* no threads, locks or counters: an emergency is managed by its whole     *)
(* crew and by nobody less, the crew stays until the end, a timeout sends  *)
(* nobody, and a closed emergency is never reopened.                       *)
(***************************************************************************)
EXTENDS Resources

VARIABLES
  status,  \* the status of every emergency
  onScene  \* the twins that are on the scene of their emergency

vars == <<status, onScene>>

Init ==
  /\ status = [e \in Emergency |-> "WAITING"]
  /\ onScene = {}

SetStatus(e, from, to) ==
  /\ status[e] = from
  /\ status' = [status EXCEPT ![e] = to]
  /\ UNCHANGED onScene

Assign(e) == SetStatus(e, "WAITING", "ASSIGNED")

\* Only an emergency nobody reached may time out.
Timeout(e) ==
  /\ onScene \cap TwinsOf(e) = {}
  /\ SetStatus(e, "ASSIGNED", "TIMEOUT")

\* Only an emergency whose crew is not complete may be cancelled.
Cancel(e) ==
  /\ TwinsOf(e) \subseteq onScene => TwinsOf(e) = {}
  /\ SetStatus(e, "ASSIGNED", "CANCELED")

Start(e) ==
  /\ TwinsOf(e) \subseteq onScene
  /\ SetStatus(e, "ASSIGNED", "IN_PROGRESS")

Complete(e) ==
  /\ TwinsOf(e) \subseteq onScene
  /\ SetStatus(e, "IN_PROGRESS", "COMPLETED")

Arrive(u) ==
  /\ status[u[1]] = "ASSIGNED"
  /\ u \notin onScene
  /\ onScene' = onScene \cup {u}
  /\ UNCHANGED status

Leave(u) ==
  /\ status[u[1]] = "COMPLETED"
  /\ u \in onScene
  /\ onScene' = onScene \ {u}
  /\ UNCHANGED status

Next ==
  \/ \E e \in Emergency :
       Assign(e) \/ Timeout(e) \/ Cancel(e) \/ Start(e) \/ Complete(e)
  \/ \E u \in Twin : Arrive(u) \/ Leave(u)

Spec == Init /\ [][Next]_vars
=============================================================================
