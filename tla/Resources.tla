----------------------------- MODULE Resources -----------------------------
(***************************************************************************)
(* What the parsers leave in memory before the threads start: the rescuer  *)
(* types of rescues.conf and, for every emergency that reaches a handler,  *)
(* its priority, its position and its array of rescuer requests.  The      *)
(* module also holds the pure arithmetic of support.c over that data.      *)
(*                                                                         *)
(* A digital twin is the triple <<e, i, j>>: the j-th twin of the i-th     *)
(* request of emergency e, the cell em->rescuers_dt[i][j].  The code       *)
(* creates twins per emergency, so two emergencies never share one.        *)
(***************************************************************************)
EXTENDS Integers, Sequences, FiniteSets, FiniteSetsExt

CONSTANTS
  RescuerType,   \* the names of the rescuer types
  rescuer_types, \* for each of them its quantity, speed and base (x, y)
  Emergency,     \* the emergencies the dispatcher starts a handler for
  emergencies,   \* for each of them priority, x, y and rescuers
  UIntRange      \* 2^32: what sleep(unsigned) adds to a negative argument

RescuerTypeRecord == [quantity : Int, speed : Int, x : Int, y : Int]
RescuerRequest ==
  [type : RescuerType, required_count : Nat, time_to_manage : Int]
EmergencyRecord ==
  [priority : 0..2, x : Nat, y : Nat, rescuers : Seq(RescuerRequest)]

ASSUME ConfigAssumption ==
  /\ rescuer_types \in [RescuerType -> RescuerTypeRecord]
  /\ emergencies \in [Emergency -> EmergencyRecord]
  /\ \A e \in Emergency : Len(emergencies[e].rescuers) >= 1
  /\ UIntRange \in Nat \ {0}

-----------------------------------------------------------------------------
Requests(e) == DOMAIN emergencies[e].rescuers
Rr(e, i) == emergencies[e].rescuers[i]
RequestCount(e) == Len(emergencies[e].rescuers)
Priority(e) == emergencies[e].priority

TwinsOfRequest(e, i) == {<<e, i, j>> : j \in 1..Rr(e, i).required_count}
TwinsOf(e) == UNION {TwinsOfRequest(e, i) : i \in Requests(e)}
Twin == UNION {TwinsOf(e) : e \in Emergency}

TypeOfTwin(u) == Rr(u[1], u[2]).type

\* The order in which the loops over i and j visit the twins.
FirstOf(S) ==
  {u \in S : \A v \in S : u[2] < v[2] \/ (u[2] = v[2] /\ u[3] <= v[3])}

-----------------------------------------------------------------------------
Abs(n) == IF n < 0 THEN -n ELSE n

\* Every twin stands at the base of its type: x and y are never updated.
EstimateArrivalTime(t, e) ==
  LET r == rescuer_types[t]
      distance == Abs(r.x - emergencies[e].x) + Abs(r.y - emergencies[e].y)
  IN  IF r.speed <= 0 THEN -1 ELSE distance \div r.speed

\* A failed estimate (-1) is skipped, so it never raises the maximum.
MaxRescuerArrivingTime(e) ==
  Max({0} \cup {EstimateArrivalTime(TypeOfTwin(u), e) : u \in TwinsOf(e)})

\* What the loop that computes max_managing_time takes the maximum of.
ManagingTimes(e) == {0} \cup {Rr(e, i).time_to_manage : i \in Requests(e)}

\* sleep() takes an unsigned int: a negative argument wraps around.
SleepSeconds(n) == IF n < 0 THEN n + UIntRange ELSE n
=============================================================================
