----------------------------- MODULE MCHandlers -----------------------------
(* Scenarios for TLC: one pair of rescuer types, and emergencies over them. *)
EXTENDS HandlerProperties, TLC

CONSTANTS fire, med,        \* rescuer types
          e1, e2, e3, e4 \* emergencies

Request(t, n, secs) == [type |-> t, required_count |-> n, time_to_manage |-> secs]
Em(p, x, reqs) == [priority |-> p, x |-> x, y |-> 0, rescuers |-> reqs]
Base(n, v) == [quantity |-> n, speed |-> v, x |-> 0, y |-> 0]

\* Two fire engines and one ambulance, all next to the emergencies.
TwoTypes == (fire :> Base(2, 1)) @@ (med :> Base(1, 1))

\* Two emergencies that together need more fire engines than there are.
Contention ==
  (e1 :> Em(1, 1, <<Request(fire, 2, 1), Request(med, 1, 0)>>)) @@
  (e2 :> Em(2, 0, <<Request(fire, 1, 0)>>))

\* Two emergencies over the same two types in opposite orders, one that asks for
\* more fire engines than the system has, one that is too far away.
Crossed ==
  (e1 :> Em(0, 0, <<Request(fire, 1, 0), Request(med, 1, 0)>>)) @@
  (e2 :> Em(0, 0, <<Request(med, 1, 0), Request(fire, 1, 0)>>)) @@
  (e3 :> Em(0, 0, <<Request(med, 1, 0), Request(fire, 3, 0)>>)) @@
  (e4 :> Em(2, 2, <<Request(med, 1, 0)>>))

\* Two emergencies without a deadline that need the same single ambulance.
OneAmbulance ==
  (e1 :> Em(0, 0, <<Request(med, 1, 0)>>)) @@
  (e2 :> Em(0, 0, <<Request(med, 1, 0)>>))

\* The same with a deadline and some way to go for e2; e1 keeps the ambulance busy.
OneDeadline ==
  (e1 :> Em(0, 0, <<Request(med, 1, 2)>>)) @@
  (e2 :> Em(2, 1, <<Request(med, 1, 0)>>))

\* A third emergency, less urgent than e2.
Rivals == OneDeadline @@ (e3 :> Em(1, 0, <<Request(med, 1, 0)>>))

=============================================================================
