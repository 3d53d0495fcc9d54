---------------------------- MODULE ResourcePool ----------------------------
(***************************************************************************)
(* What the reservation of rescuers is meant to be: an emergency takes all *)
(* the rescuers it needs in one step and only if they are all free, and    *)
(* gives them back one by one.  No type is ever used beyond its quantity.  *)
(***************************************************************************)
EXTENDS Resources

VARIABLE busy  \* the twins that have a rescuer of their type behind them

InUse(t, S) == Cardinality({u \in S : TypeOfTwin(u) = t})

Init == busy = {}

Reserve(e) ==
  /\ busy \cap TwinsOf(e) = {}
  /\ busy' = busy \cup TwinsOf(e)
  /\ \A u \in TwinsOf(e) :
       InUse(TypeOfTwin(u), busy') <= rescuer_types[TypeOfTwin(u)].quantity

Release(u) ==
  /\ u \in busy
  /\ busy' = busy \ {u}

Next ==
  \/ \E e \in Emergency : Reserve(e)
  \/ \E u \in Twin : Release(u)

Spec == Init /\ [][Next]_busy
=============================================================================
