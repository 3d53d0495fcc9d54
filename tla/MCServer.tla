------------------------------ MODULE MCServer ------------------------------
(* One rescuer type, and two messages of which the second is urgent. *)
EXTENDS ServerProperties, TLC

CONSTANTS med,   \* the rescuer type
          m1, m2 \* messages

OneBase == med :> [quantity |-> 1, speed |-> 1, x |-> 0, y |-> 0]

\* Every emergency needs the only ambulance and is where it is based.
NeedsMed(p) ==
  [priority |-> p, x |-> 0, y |-> 0,
   rescuers |-> <<[type |-> med, required_count |-> 1, time_to_manage |-> 0]>>]

\* m2 has a deadline, m1 has none.
Asked == [m \in Message |-> NeedsMed(IF m = m2 THEN 1 ELSE 0)]
=============================================================================
