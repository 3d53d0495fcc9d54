--------------------------- MODULE HandlersProofs ---------------------------
(***************************************************************************)
(* Theorems about the handler and twin threads, for every configuration,   *)
(* any number of emergencies and any set of faults.                        *)
(***************************************************************************)
EXTENDS HandlerProperties, TLAPS, FiniteSetTheorems

-----------------------------------------------------------------------------
(* The data of an emergency *)

LEMMA RequestFacts ==
  ASSUME NEW e \in Emergency
  PROVE  /\ emergencies[e].rescuers \in Seq(RescuerRequest)
         /\ RequestCount(e) \in Nat \ {0}
         /\ Requests(e) = 1..RequestCount(e)
         /\ 1 \in Requests(e)
         /\ Priority(e) \in 0..2
<1>1. emergencies[e] \in EmergencyRecord
  BY ConfigAssumption
<1>2. emergencies[e].rescuers \in Seq(RescuerRequest)
  BY <1>1 DEF EmergencyRecord
<1>3. Len(emergencies[e].rescuers) \in Nat /\ Len(emergencies[e].rescuers) >= 1
  BY <1>2, ConfigAssumption
<1> QED
  BY <1>1, <1>2, <1>3 DEF EmergencyRecord, RequestCount, Requests, Priority

LEMMA RequestType ==
  ASSUME NEW e \in Emergency, NEW i \in Requests(e)
  PROVE  /\ Rr(e, i).type \in RescuerType
         /\ Rr(e, i).required_count \in Nat
         /\ Rr(e, i).time_to_manage \in Int
<1>1. Rr(e, i) \in RescuerRequest
  BY RequestFacts DEF Requests, Rr
<1> QED
  BY <1>1 DEF RescuerRequest

\* A twin is a twin of its own emergency and of no other.
LEMMA TwinFacts ==
  ASSUME NEW u \in Twin
  PROVE  /\ u[1] \in Emergency
         /\ u[2] \in Requests(u[1])
         /\ u \in TwinsOfRequest(u[1], u[2])
         /\ u \in TwinsOf(u[1])
         /\ TypeOfTwin(u) \in RescuerType
<1>1. PICK e \in Emergency : u \in TwinsOf(e)
  BY DEF Twin
<1>2. PICK i \in Requests(e) : u \in TwinsOfRequest(e, i)
  BY <1>1 DEF TwinsOf
<1>3. u[1] = e /\ u[2] = i
  BY <1>2 DEF TwinsOfRequest
<1> QED
  BY <1>1, <1>2, <1>3, RequestType DEF TwinsOf, TypeOfTwin

LEMMA TwinsOfFacts ==
  ASSUME NEW e \in Emergency, NEW u \in TwinsOf(e)
  PROVE  u \in Twin /\ u[1] = e
BY DEF Twin, TwinsOf, TwinsOfRequest

\* The twins of request i are those with i in their second place.
LEMMA TwinsOfRequestFacts ==
  ASSUME NEW e \in Emergency, NEW i \in Requests(e)
  PROVE  TwinsOfRequest(e, i) = {u \in Twin : u[1] = e /\ u[2] = i}
<1>1. ASSUME NEW u \in TwinsOfRequest(e, i)
      PROVE  u \in Twin /\ u[1] = e /\ u[2] = i
  BY DEF Twin, TwinsOf, TwinsOfRequest
<1>2. ASSUME NEW u \in Twin, u[1] = e, u[2] = i
      PROVE  u \in TwinsOfRequest(e, i)
  BY <1>2, TwinFacts
<1> QED
  BY <1>1, <1>2

\* sleep() gets a natural number of seconds, whatever the speed of the type.
LEMMA SleepType ==
  ASSUME NEW u \in Twin
  PROVE  SleepSeconds(ArrivalTime(u)) \in Nat
<1> DEFINE t == TypeOfTwin(u)
           e == u[1]
           r == rescuer_types[t]
           distance == Abs(r.x - emergencies[e].x) + Abs(r.y - emergencies[e].y)
<1>1. t \in RescuerType /\ e \in Emergency
  BY TwinFacts
<1>2. r \in RescuerTypeRecord /\ emergencies[e] \in EmergencyRecord
  BY <1>1, ConfigAssumption
<1>3. distance \in Nat /\ r.speed \in Int
  <2>1. r.x \in Int /\ r.y \in Int /\ r.speed \in Int
    BY <1>2 DEF RescuerTypeRecord
  <2>2. emergencies[e].x \in Nat /\ emergencies[e].y \in Nat
    BY <1>2 DEF EmergencyRecord
  <2>3. \A n \in Int : Abs(n) \in Nat
    BY DEF Abs
  <2> HIDE DEF r, e, t
  <2> QED
    BY <2>1, <2>2, <2>3
<1>4. CASE r.speed <= 0
  BY <1>4, <1>3, ConfigAssumption DEF ArrivalTime, EstimateArrivalTime, SleepSeconds
<1>5. CASE ~(r.speed <= 0)
  <2>1. distance \div r.speed \in Nat
    BY <1>3, <1>5
  <2> QED
    BY <2>1, <1>5 DEF ArrivalTime, EstimateArrivalTime, SleepSeconds
<1> QED
  BY <1>4, <1>5

-----------------------------------------------------------------------------
(* Type correctness *)

\* The step of the loops over the requests keeps the index in range.
LEMMA NextRequestType ==
  ASSUME TypeOK, NEW e \in Emergency, NEW loop \in HandlerPc, NEW after \in HandlerPc,
         NextRequest(e, loop, after)
  PROVE  /\ hpc' \in [Emergency -> HandlerPc]
         /\ idx' \in [Emergency -> Nat]
         /\ \A f \in Emergency : idx'[f] \in Requests(f)
<1>1. idx[e] \in Requests(e) /\ RequestCount(e) \in Nat \ {0}
      /\ Requests(e) = 1..RequestCount(e)
  BY RequestFacts DEF TypeOK
<1>2. PICK i \in Requests(e) : idx' = [idx EXCEPT ![e] = i]
  <2>1. CASE LastRequest(e)
    BY <1>1, <2>1, RequestFacts DEF NextRequest
  <2>2. CASE ~LastRequest(e)
    BY <1>1, <2>2 DEF NextRequest, LastRequest
  <2> QED
    BY <2>1, <2>2
<1>3. hpc' \in [Emergency -> HandlerPc]
  BY DEF TypeOK, NextRequest
<1>4. idx \in [Emergency -> Nat] /\ i \in Nat
  BY <1>1 DEF TypeOK
<1>5. \A f \in Emergency : idx'[f] \in Requests(f)
  BY <1>2, <1>4 DEF TypeOK
<1> QED
  BY <1>2, <1>3, <1>4, <1>5

\* FirstOf picks among the elements of a set.
LEMMA FirstOfFacts == \A S : FirstOf(S) \subseteq S
BY DEF FirstOf

LEMMA InitType == Init => TypeOK
<1> SUFFICES ASSUME Init PROVE TypeOK
  OBVIOUS
<1>1. \A e \in Emergency : idx[e] \in Requests(e)
  BY RequestFacts DEF Init
<1>2. /\ occ \in [RescuerType -> Int]
      /\ status \in [Emergency -> EmergencyStatus]
      /\ hpc \in [Emergency -> HandlerPc]
      /\ dt \in [Twin -> TwinStatus]
      /\ tpc \in [Twin -> TwinPc]
  BY DEF Init, EmergencyStatus, HandlerPc, TwinStatus, TwinPc
<1>3. /\ lock \in [Emergency -> {"free", "handler", "twin"}]
      /\ todo \in [Emergency -> SUBSET Twin]
      /\ held \subseteq Twin
      /\ crashed \in BOOLEAN
  BY DEF Init
<1>4. /\ idx \in [Emergency -> Nat]
      /\ reg \in [Emergency -> Int]
      /\ slack \in [Emergency -> Nat]
      /\ manage \in [Emergency -> Nat]
      /\ left \in [Twin -> Nat]
      /\ rescuer_count \in [Emergency -> Int]
  BY DEF Init
<1> QED
  BY <1>1, <1>2, <1>3, <1>4 DEF TypeOK

LEMMA HandlerStepType ==
  ASSUME TypeOK, NEW e \in Emergency, HandlerStep(e) \/ SpuriousWakeup(e)
  PROVE  TypeOK'
<1> USE DEF TypeOK
<1>1. CASE Begin(e)
  BY <1>1, LimitAssumption DEF Begin, poolVars, handlerVars, twinVars, HandlerPc,
     EmergencyStatus, TimeLimit
<1>2. CASE HandlerMallocFails(e)
  BY <1>2 DEF HandlerMallocFails, poolVars, handlerVars, twinVars, HandlerPc, Quit
<1>3. CASE CancelImpossible(e)
  BY <1>3 DEF CancelImpossible, poolVars, handlerVars, twinVars, HandlerPc, Quit,
     EmergencyStatus
<1>4. CASE TimeoutTooFar(e)
  BY <1>4 DEF TimeoutTooFar, poolVars, handlerVars, twinVars, HandlerPc, Quit, EmergencyStatus
<1>5. CASE Admit(e)
  BY <1>5 DEF Admit, poolVars, handlerVars, twinVars, HandlerPc
<1>6. CASE CheckRequest(e)
  BY <1>6, NextRequestType DEF CheckRequest, poolVars, handlerVars, twinVars, HandlerPc
<1>7. CASE CheckFails(e) \/ StillInTime(e)
  BY <1>7 DEF CheckFails, StillInTime, poolVars, handlerVars, twinVars, HandlerPc
<1>8. CASE TimeoutNoRescuers(e)
  BY <1>8 DEF TimeoutNoRescuers, poolVars, handlerVars, twinVars, HandlerPc, Quit,
     EmergencyStatus
<1>9. CASE WaitEmpty(e)
  BY <1>9 DEF WaitEmpty, poolVars, handlerVars, twinVars, HandlerPc
<1>10. CASE SpuriousWakeup(e)
  BY <1>10 DEF SpuriousWakeup, poolVars, handlerVars, twinVars, HandlerPc
<1>11. CASE Recheck(e)
  BY <1>11, RequestFacts DEF Recheck, poolVars, handlerVars, twinVars, HandlerPc
<1>12. CASE ReserveLoad(e)
  <2>1. Rr(e, idx[e]).type \in RescuerType
    BY RequestType
  <2> QED
    BY <1>12, <2>1 DEF ReserveLoad, poolVars, handlerVars, twinVars, HandlerPc
<1>13. CASE ReserveStore(e)
  <2>1. /\ Rr(e, idx[e]).type \in RescuerType
        /\ Rr(e, idx[e]).required_count \in Nat
    BY RequestType
  <2>2. TwinsOf(e) \subseteq Twin /\ TwinsOfRequest(e, idx[e]) \subseteq Twin
    BY TwinsOfFacts, TwinsOfRequestFacts
  <2>3. /\ hpc' \in [Emergency -> HandlerPc]
        /\ idx' \in [Emergency -> Nat]
        /\ \A f \in Emergency : idx'[f] \in Requests(f)
    <3>1. NextRequest(e, "reserve", "spawn")
      BY <1>13 DEF ReserveStore
    <3> QED
      BY <3>1, NextRequestType DEF HandlerPc
  <2>4. /\ lock' \in [Emergency -> {"free", "handler", "twin"}]
        /\ todo' \in [Emergency -> SUBSET Twin]
    BY <1>13, <2>2 DEF ReserveStore
  <2>5. occ' \in [RescuerType -> Int] /\ held' \subseteq Twin
    BY <1>13, <2>1, <2>2 DEF ReserveStore
  <2> QED
    BY <1>13, <2>3, <2>4, <2>5 DEF ReserveStore, twinVars
<1>14. CASE CreateArrives(e)
  <2>1. PICK u \in FirstOf(todo[e]) :
               /\ todo' = [todo EXCEPT ![e] = @ \ {u}]
               /\ tpc' = [tpc EXCEPT ![u] = "created"]
    BY <1>14 DEF CreateArrives
  <2>2. todo' \in [Emergency -> SUBSET Twin] /\ tpc' \in [Twin -> TwinPc]
    BY <2>1, FirstOfFacts DEF TwinPc
  <2> QED
    BY <1>14, <2>2 DEF CreateArrives, poolVars
<1>15. CASE CreateArrivesFails(e)
  BY <1>15 DEF CreateArrivesFails, poolVars, handlerVars, twinVars, HandlerPc
<1>16. CASE JoinArrivals(e)
  <2>1. PICK m \in ManagingTimes(e) :
               /\ \A n \in ManagingTimes(e) : m >= n
               /\ manage' = [manage EXCEPT ![e] = m]
    BY <1>16 DEF JoinArrivals
  <2>2. m \in Nat
    BY <2>1, RequestType DEF ManagingTimes
  <2>3. manage' \in [Emergency -> Nat] /\ todo' \in [Emergency -> SUBSET Twin]
    BY <1>16, <2>1, <2>2, TwinsOfFacts DEF JoinArrivals
  <2>4. status' \in [Emergency -> EmergencyStatus] /\ hpc' \in [Emergency -> HandlerPc]
    BY <1>16 DEF JoinArrivals, EmergencyStatus, HandlerPc
  <2> QED
    BY <1>16, <2>3, <2>4 DEF JoinArrivals, poolVars, twinVars
<1>17. CASE AbortSpawn(e)
  BY <1>17 DEF AbortSpawn, poolVars, handlerVars, twinVars, HandlerPc, Quit, EmergencyStatus
<1>18. CASE FinishManaging(e)
  BY <1>18 DEF FinishManaging, poolVars, handlerVars, twinVars, HandlerPc, EmergencyStatus
<1>19. CASE CreateGoesAway(e)
  <2>1. PICK u \in FirstOf(todo[e]) :
               /\ todo' = [todo EXCEPT ![e] = @ \ {u}]
               /\ tpc' = [tpc EXCEPT ![u] = "leaving"]
    BY <1>19 DEF CreateGoesAway
  <2>2. todo' \in [Emergency -> SUBSET Twin] /\ tpc' \in [Twin -> TwinPc]
    BY <2>1, FirstOfFacts DEF TwinPc
  <2> QED
    BY <1>19, <2>2 DEF CreateGoesAway, poolVars
<1>20. CASE CreateGoesAwayFails(e)
  BY <1>20 DEF CreateGoesAwayFails, poolVars, handlerVars, twinVars, HandlerPc
<1>21. CASE JoinGoesAway(e)
  BY <1>21 DEF JoinGoesAway, poolVars, handlerVars, twinVars, HandlerPc
<1> QED
  BY <1>1, <1>2, <1>3, <1>4, <1>5, <1>6, <1>7, <1>8, <1>9, <1>10, <1>11, <1>12, <1>13, <1>14,
     <1>15, <1>16, <1>17, <1>18, <1>19, <1>20, <1>21 DEF HandlerStep

LEMMA TwinStepType ==
  ASSUME TypeOK, NEW u \in Twin, TwinStep(u)
  PROVE  TypeOK'
<1> USE DEF TypeOK
<1>0. u[1] \in Emergency /\ TypeOfTwin(u) \in RescuerType
  BY TwinFacts
<1>1. CASE Depart(u)
  BY <1>1, <1>0, SleepType DEF Depart, poolVars, handlerVars, TwinPc, TwinStatus
<1>2. CASE Arrive(u)
  BY <1>2, <1>0 DEF Arrive, poolVars, handlerVars, TwinPc, TwinStatus, CountCrew
<1>3. CASE Leave(u)
  BY <1>3, <1>0, SleepType DEF Leave, poolVars, handlerVars, TwinPc, TwinStatus
<1>4. CASE ReleaseLoad(u)
  BY <1>4, <1>0 DEF ReleaseLoad, poolVars, handlerVars, TwinPc, TwinStatus
<1>5. CASE ReleaseStore(u)
  BY <1>5, <1>0 DEF ReleaseStore, poolVars, handlerVars, TwinPc, TwinStatus, CountCrew,
     SignalEmpty, HandlerPc
<1> QED
  BY <1>1, <1>2, <1>3, <1>4, <1>5 DEF TwinStep

LEMMA TickType == TypeOK /\ Tick => TypeOK'
BY DEF TypeOK, Tick, Countdown, poolVars

\* Type correctness: no step of any thread takes a variable out of its type.
THEOREM TypeCorrect == Spec => []TypeOK
<1>1. TypeOK /\ [Next]_vars => TypeOK'
  <2> SUFFICES ASSUME TypeOK, [Next]_vars PROVE TypeOK'
    OBVIOUS
  <2>1. CASE UNCHANGED vars
    BY <2>1 DEF TypeOK, vars, poolVars, handlerVars, twinVars
  <2>2. CASE Next
    BY <2>2, HandlerStepType, TwinStepType, TickType DEF Next
  <2> QED
    BY <2>1, <2>2
<1> QED
  BY InitType, <1>1, PTL DEF Spec

-----------------------------------------------------------------------------
(* The threads of an emergency keep in step with its handler *)

LEMMA InitInStep == Init => InStep
BY TwinFacts DEF Init, InStep, StatusFollowsThread, ThreadFollowsHandler,
   StatusFollowsHandler, Unreserved, Reserving

LEMMA HandlerStepInStep ==
  ASSUME TypeOK, InStep, NEW e \in Emergency, HandlerStep(e) \/ SpuriousWakeup(e)
  PROVE  \A u \in Twin : StatusFollowsThread(u)' /\ ThreadFollowsHandler(u, u[1])'
<1> SUFFICES ASSUME NEW u \in Twin
             PROVE  StatusFollowsThread(u)' /\ ThreadFollowsHandler(u, u[1])'
  OBVIOUS
<1>0. /\ u[1] \in Emergency
      /\ RequestCount(u[1]) \in Nat
      /\ u[2] \in 1..RequestCount(u[1])
  BY TwinFacts, RequestFacts
<1> USE DEF TypeOK, InStep, StatusFollowsThread, ThreadFollowsHandler, Unreserved, Reserving
<1>1. CASE Begin(e)
  BY <1>1, <1>0 DEF Begin, poolVars, handlerVars, twinVars
<1>2. CASE HandlerMallocFails(e)
  BY <1>2, <1>0 DEF HandlerMallocFails, poolVars, handlerVars, twinVars, Quit
<1>3. CASE CancelImpossible(e)
  BY <1>3, <1>0 DEF CancelImpossible, poolVars, handlerVars, twinVars, Quit
<1>4. CASE TimeoutTooFar(e)
  BY <1>4, <1>0 DEF TimeoutTooFar, poolVars, handlerVars, twinVars, Quit
<1>5. CASE Admit(e)
  BY <1>5, <1>0 DEF Admit, poolVars, handlerVars, twinVars
<1>6. CASE CheckRequest(e)
  BY <1>6, <1>0 DEF CheckRequest, poolVars, handlerVars, twinVars, NextRequest, LastRequest
<1>7. CASE CheckFails(e) \/ StillInTime(e)
  BY <1>7, <1>0 DEF CheckFails, StillInTime, poolVars, handlerVars, twinVars
<1>8. CASE TimeoutNoRescuers(e)
  BY <1>8, <1>0 DEF TimeoutNoRescuers, poolVars, handlerVars, twinVars, Quit
<1>9. CASE WaitEmpty(e)
  BY <1>9, <1>0 DEF WaitEmpty, poolVars, handlerVars, twinVars
<1>10. CASE SpuriousWakeup(e)
  BY <1>10, <1>0 DEF SpuriousWakeup, poolVars, handlerVars, twinVars
<1>11. CASE Recheck(e)
  BY <1>11, <1>0 DEF Recheck, poolVars, handlerVars, twinVars
<1>12. CASE ReserveLoad(e)
  BY <1>12, <1>0 DEF ReserveLoad, poolVars, handlerVars, twinVars
<1>13. CASE ReserveStore(e)
  <2>1. /\ hpc[e] = "reserve_store"
        /\ held' = held \cup {v \in Twin : v[1] = e /\ v[2] = idx[e]}
        /\ UNCHANGED <<tpc, dt>>
    BY <1>13, TwinsOfRequestFacts DEF ReserveStore, twinVars
  <2>2. CASE u[1] # e
    BY <1>13, <2>1, <2>2, <1>0 DEF ReserveStore, NextRequest
  <2>3. CASE u[1] = e /\ LastRequest(e)
    <3>1. hpc'[e] = "spawn"
      BY <1>13, <2>3 DEF ReserveStore, NextRequest
    <3>2. u \in held'
      <4>1. idx[e] \in Nat /\ u[2] \in 1..idx[e]
        BY <2>3, <1>0 DEF LastRequest
      <4>2. u \in held <=> u[2] < idx[e]
        BY <2>1, <2>3
      <4>3. u \in held' <=> u \in held \/ u[2] = idx[e]
        BY <2>1, <2>3
      <4> HIDE DEF TypeOK, InStep
      <4> QED
        BY <4>1, <4>2, <4>3
    <3>3. StatusFollowsThread(u)'
      BY <2>1
    <3>4. tpc'[u] = "none"
      BY <2>1, <2>3
    <3> HIDE DEF StatusFollowsThread
    <3> QED
      BY <3>1, <3>2, <3>3, <3>4, <2>3
  <2>4. CASE u[1] = e /\ ~LastRequest(e)
    <3>1. hpc'[e] = "reserve" /\ idx'[e] = idx[e] + 1
      BY <1>13, <2>4 DEF ReserveStore, NextRequest
    <3>2. u \in held <=> u[2] < idx[e]
      BY <2>1, <2>4
    <3>3. u \in held' <=> u[2] < idx'[e]
      <4>1. idx[e] \in Nat /\ u[2] \in Nat
        BY <1>0
      <4>2. u \in held' <=> u \in held \/ u[2] = idx[e]
        BY <2>1, <2>4
      <4> HIDE DEF TypeOK, InStep
      <4> QED
        BY <4>1, <4>2, <3>1, <3>2
    <3>4. StatusFollowsThread(u)'
      BY <2>1
    <3>5. tpc'[u] = "none"
      BY <2>1, <2>4
    <3> HIDE DEF StatusFollowsThread
    <3> QED
      BY <3>1, <3>3, <3>4, <3>5, <2>4
  <2> QED
    BY <2>2, <2>3, <2>4
<1>14. CASE CreateArrives(e)
  <2>1. PICK v \in FirstOf(todo[e]) :
               /\ todo' = [todo EXCEPT ![e] = @ \ {v}]
               /\ tpc' = [tpc EXCEPT ![v] = "created"]
    BY <1>14 DEF CreateArrives
  <2>2. v \in todo[e] /\ v \in Twin
    BY <2>1, FirstOfFacts
  <2>3. CASE u = v
    <3>1. u[1] = e
      BY <2>2, <2>3, TwinsOfFacts DEF StatusFollowsHandler
    <3> QED
      BY <1>14, <2>1, <2>2, <2>3, <3>1 DEF CreateArrives, poolVars
  <2>4. CASE u # v
    BY <1>14, <2>1, <2>2, <2>4, <1>0 DEF CreateArrives, poolVars
  <2> QED
    BY <2>3, <2>4
<1>15. CASE CreateArrivesFails(e)
  BY <1>15, <1>0 DEF CreateArrivesFails, poolVars, handlerVars, twinVars
<1>16. CASE JoinArrivals(e)
  <2>1. \A w \in TwinsOf(e) : tpc[w] \in {"none", "arrived", "home"}
    BY <1>16 DEF JoinArrivals, Joined
  <2>2. u[1] = e => u \in TwinsOf(e)
    BY TwinFacts
  <2> QED
    BY <1>16, <2>1, <2>2, <1>0 DEF JoinArrivals, poolVars, twinVars, AllCreated
<1>17. CASE AbortSpawn(e)
  <2>1. \A w \in TwinsOf(e) : tpc[w] \in {"none", "arrived", "home"}
    BY <1>17 DEF AbortSpawn, Joined
  <2>2. u[1] = e => u \in TwinsOf(e)
    BY TwinFacts
  <2> QED
    BY <1>17, <2>1, <2>2, <1>0 DEF AbortSpawn, poolVars, twinVars, Quit
<1>18. CASE FinishManaging(e)
  BY <1>18, <1>0 DEF FinishManaging, poolVars, handlerVars, twinVars
<1>19. CASE CreateGoesAway(e)
  <2>1. PICK v \in FirstOf(todo[e]) :
               /\ todo' = [todo EXCEPT ![e] = @ \ {v}]
               /\ tpc' = [tpc EXCEPT ![v] = "leaving"]
    BY <1>19 DEF CreateGoesAway
  <2>2. v \in todo[e] /\ v \in Twin
    BY <2>1, FirstOfFacts
  <2>3. CASE u = v
    <3>1. u[1] = e
      BY <2>2, <2>3, TwinsOfFacts DEF StatusFollowsHandler
    <3> QED
      BY <1>19, <2>1, <2>2, <2>3, <3>1 DEF CreateGoesAway, poolVars
  <2>4. CASE u # v
    BY <1>19, <2>1, <2>2, <2>4, <1>0 DEF CreateGoesAway, poolVars
  <2> QED
    BY <2>3, <2>4
<1>20. CASE CreateGoesAwayFails(e)
  BY <1>20, <1>0 DEF CreateGoesAwayFails, poolVars, handlerVars, twinVars
<1>21. CASE JoinGoesAway(e)
  <2>1. \A w \in TwinsOf(e) : tpc[w] \in {"none", "arrived", "home"}
    BY <1>21 DEF JoinGoesAway, Joined
  <2>2. u[1] = e => u \in TwinsOf(e)
    BY TwinFacts
  <2> QED
    BY <1>21, <2>1, <2>2, <1>0 DEF JoinGoesAway, poolVars, twinVars
<1> QED
  BY <1>1, <1>2, <1>3, <1>4, <1>5, <1>6, <1>7, <1>8, <1>9, <1>10, <1>11, <1>12, <1>13, <1>14,
     <1>15, <1>16, <1>17, <1>18, <1>19, <1>20, <1>21 DEF HandlerStep

LEMMA HandlerStepStatus ==
  ASSUME TypeOK, InStep, NEW e \in Emergency, HandlerStep(e) \/ SpuriousWakeup(e)
  PROVE  \A f \in Emergency : StatusFollowsHandler(f)'
<1> SUFFICES ASSUME NEW f \in Emergency PROVE StatusFollowsHandler(f)'
  OBVIOUS
<1> USE DEF TypeOK, InStep, StatusFollowsHandler, Unreserved, Reserving
<1>1. CASE Begin(e)
  BY <1>1 DEF Begin, poolVars, handlerVars, twinVars
<1>2. CASE HandlerMallocFails(e)
  BY <1>2 DEF HandlerMallocFails, poolVars, handlerVars, twinVars, Quit
<1>3. CASE CancelImpossible(e)
  BY <1>3 DEF CancelImpossible, poolVars, handlerVars, twinVars, Quit
<1>4. CASE TimeoutTooFar(e)
  BY <1>4 DEF TimeoutTooFar, poolVars, handlerVars, twinVars, Quit
<1>5. CASE Admit(e)
  BY <1>5 DEF Admit, poolVars, handlerVars, twinVars
<1>6. CASE CheckRequest(e)
  BY <1>6 DEF CheckRequest, poolVars, handlerVars, twinVars, NextRequest
<1>7. CASE CheckFails(e) \/ StillInTime(e)
  BY <1>7 DEF CheckFails, StillInTime, poolVars, handlerVars, twinVars
<1>8. CASE TimeoutNoRescuers(e)
  BY <1>8 DEF TimeoutNoRescuers, poolVars, handlerVars, twinVars, Quit
<1>9. CASE WaitEmpty(e)
  BY <1>9 DEF WaitEmpty, poolVars, handlerVars, twinVars
<1>10. CASE SpuriousWakeup(e)
  BY <1>10 DEF SpuriousWakeup, poolVars, handlerVars, twinVars
<1>11. CASE Recheck(e)
  BY <1>11 DEF Recheck, poolVars, handlerVars, twinVars
<1>12. CASE ReserveLoad(e)
  BY <1>12 DEF ReserveLoad, poolVars, handlerVars, twinVars
<1>13. CASE ReserveStore(e)
  BY <1>13 DEF ReserveStore, poolVars, handlerVars, twinVars, NextRequest
<1>14. CASE CreateArrives(e)
  BY <1>14 DEF CreateArrives, poolVars, handlerVars, twinVars
<1>15. CASE CreateArrivesFails(e)
  BY <1>15 DEF CreateArrivesFails, poolVars, handlerVars, twinVars
<1>16. CASE JoinArrivals(e)
  <2>1. \A u \in TwinsOf(e) : tpc[u] = "arrived"
    <3>1. \A u \in TwinsOf(e) : u \in Twin /\ u[1] = e
      BY TwinsOfFacts
    <3> QED
      BY <1>16, <3>1 DEF JoinArrivals, AllCreated, Joined, ThreadFollowsHandler
  <2>2. \A u \in TwinsOf(e) : dt[u] = "ON_SCENE"
    BY <2>1, TwinsOfFacts DEF StatusFollowsThread
  <2> QED
    BY <1>16, <2>2 DEF JoinArrivals, poolVars, twinVars
<1>17. CASE AbortSpawn(e)
  BY <1>17 DEF AbortSpawn, poolVars, handlerVars, twinVars, Quit
<1>18. CASE FinishManaging(e)
  BY <1>18 DEF FinishManaging, poolVars, handlerVars, twinVars
<1>19. CASE CreateGoesAway(e)
  BY <1>19 DEF CreateGoesAway, poolVars, handlerVars, twinVars
<1>20. CASE CreateGoesAwayFails(e)
  BY <1>20 DEF CreateGoesAwayFails, poolVars, handlerVars, twinVars
<1>21. CASE JoinGoesAway(e)
  BY <1>21 DEF JoinGoesAway, poolVars, handlerVars, twinVars
<1> QED
  BY <1>1, <1>2, <1>3, <1>4, <1>5, <1>6, <1>7, <1>8, <1>9, <1>10, <1>11, <1>12, <1>13, <1>14,
     <1>15, <1>16, <1>17, <1>18, <1>19, <1>20, <1>21 DEF HandlerStep

LEMMA TwinStepInStep ==
  ASSUME TypeOK, InStep, NEW v \in Twin, TwinStep(v)
  PROVE  InStep'
<1> USE DEF TypeOK, InStep, StatusFollowsThread, ThreadFollowsHandler, StatusFollowsHandler,
   Unreserved, Reserving
<1>0. \A u \in Twin : u[1] \in Emergency
  BY TwinFacts
<1>1. CASE Depart(v)
  BY <1>1, <1>0 DEF Depart, poolVars, handlerVars
<1>2. CASE Arrive(v)
  BY <1>2, <1>0 DEF Arrive, poolVars, handlerVars
<1>3. CASE Leave(v)
  BY <1>3, <1>0 DEF Leave, poolVars, handlerVars
<1>4. CASE ReleaseLoad(v)
  BY <1>4, <1>0 DEF ReleaseLoad, poolVars, handlerVars
<1>5. CASE ReleaseStore(v)
  BY <1>5, <1>0 DEF ReleaseStore, poolVars, handlerVars, SignalEmpty
<1> QED
  BY <1>1, <1>2, <1>3, <1>4, <1>5 DEF TwinStep

LEMMA TickInStep == TypeOK /\ InStep /\ Tick => InStep'
BY DEF InStep, Tick, StatusFollowsThread, ThreadFollowsHandler, StatusFollowsHandler,
   Unreserved, Reserving, poolVars

LEMMA StutterInStep == InStep /\ UNCHANGED vars => InStep'
BY DEF InStep, StatusFollowsThread, ThreadFollowsHandler, StatusFollowsHandler,
   vars, poolVars, handlerVars, twinVars

LEMMA NextInStep == TypeOK /\ InStep /\ [Next]_vars => InStep'
<1> SUFFICES ASSUME TypeOK, InStep, [Next]_vars PROVE InStep'
  OBVIOUS
<1>1. ASSUME NEW e \in Emergency, HandlerStep(e) \/ SpuriousWakeup(e)
      PROVE  InStep'
  BY <1>1, HandlerStepInStep, HandlerStepStatus DEF InStep
<1> QED
  BY <1>1, TwinStepInStep, TickInStep, StutterInStep DEF Next

\* The phase of a handler decides where its twins' threads are, which of their
\* places are reserved and what the emergency's status says.
THEOREM InStepAlways == Spec => []InStep
BY TypeCorrect, InitInStep, NextInStep, PTL DEF Spec

\* An emergency is IN_PROGRESS only with its whole crew on the scene.
THEOREM FullCrew == Spec => []ManagedByFullCrew
<1>1. TypeOK /\ InStep => ManagedByFullCrew
  <2> SUFFICES ASSUME TypeOK, InStep, NEW e \in Emergency, status[e] = "IN_PROGRESS",
                      NEW u \in TwinsOf(e)
               PROVE  dt[u] = "ON_SCENE"
    BY DEF ManagedByFullCrew
  <2>1. u \in Twin /\ u[1] = e
    BY TwinsOfFacts
  <2>2. hpc[e] = "managing"
    BY DEF TypeOK, InStep, StatusFollowsHandler, HandlerPc, Unreserved, Reserving
  <2> QED
    BY <2>1, <2>2 DEF InStep, ThreadFollowsHandler, StatusFollowsThread
<1> QED
  BY <1>1, TypeCorrect, InStepAlways, PTL

\* A twin that is away from its base always has a reserved place.
THEOREM PlaceKept == Spec => []AwayIsHeld
<1>1. TypeOK /\ InStep => AwayIsHeld
  BY TwinFacts DEF TypeOK, InStep, AwayIsHeld, ThreadFollowsHandler,
     StatusFollowsThread, HandlerPc, TwinPc, Unreserved, Reserving
<1> QED
  BY <1>1, TypeCorrect, InStepAlways, PTL

\* A handler that waits for rescuers has reserved nobody.
THEOREM NobodyHeldInWait == Spec => []NoHoldAndWait
<1>1. InStep => NoHoldAndWait
  BY TwinsOfFacts DEF InStep, NoHoldAndWait, ThreadFollowsHandler, Unreserved
<1> QED
  BY <1>1, InStepAlways, PTL

\* No twin's thread runs after its handler returned.
THEOREM ThreadsJoined == Spec => []NoThreadOutlivesHandler
<1>1. InStep => NoThreadOutlivesHandler
  BY TwinsOfFacts DEF InStep, NoThreadOutlivesHandler, ThreadFollowsHandler
<1> QED
  BY <1>1, InStepAlways, PTL

\* A handler that has returned runs no more.
LEMMA OverIsOver ==
  ASSUME TypeOK, [Next]_vars, NEW e \in Emergency, hpc[e] = "done"
  PROVE  hpc'[e] = "done"
<1>1. ASSUME NEW f \in Emergency, HandlerStep(f) \/ SpuriousWakeup(f)
      PROVE  hpc'[e] = "done"
  BY <1>1 DEF TypeOK, HandlerStep, SpuriousWakeup, Quit, NextRequest, Begin,
     HandlerMallocFails, CancelImpossible, TimeoutTooFar, Admit, CheckRequest, CheckFails,
     StillInTime, TimeoutNoRescuers, WaitEmpty, Recheck, ReserveLoad, ReserveStore,
     CreateArrives, CreateArrivesFails, JoinArrivals, AbortSpawn, FinishManaging,
     CreateGoesAway, CreateGoesAwayFails, JoinGoesAway
<1>2. ASSUME NEW u \in Twin, TwinStep(u)
      PROVE  hpc'[e] = "done"
  BY <1>2 DEF TypeOK, TwinStep, Depart, Arrive, Leave, ReleaseLoad, ReleaseStore, SignalEmpty,
     handlerVars
<1>3. CASE Tick \/ UNCHANGED vars
  BY <1>3 DEF Tick, vars, handlerVars
<1> QED
  BY <1>1, <1>2, <1>3 DEF Next

-----------------------------------------------------------------------------
(* The mutex of an emergency *)

Section == {"check", "short", "to_wait", "reserve", "reserve_store"}
MutexOf(e) ==
  /\ lock[e] = "handler" <=> hpc[e] \in Section
  /\ lock[e] = "twin" <=> \E u \in TwinsOf(e) : tpc[u] = "releasing"
  /\ \A u, v \in TwinsOf(e) : tpc[u] = "releasing" /\ tpc[v] = "releasing" => u = v

LEMMA MutexHeldIs == MutexHeld <=> \A e \in Emergency : MutexOf(e)
BY DEF MutexHeld, MutexOf, Section

\* A step that leaves the mutex alone moves nobody into a section or out of it.
LEMMA MutexSame ==
  ASSUME NEW e \in Emergency, MutexOf(e), lock'[e] = lock[e],
         hpc'[e] \in Section <=> hpc[e] \in Section,
         \A u \in TwinsOf(e) : tpc'[u] = "releasing" <=> tpc[u] = "releasing"
  PROVE  MutexOf(e)'
BY DEF MutexOf

\* No step of a handler takes a twin's thread into its return section or out of it.
LEMMA HandlerReleasesNone ==
  ASSUME TypeOK, InStep, NEW e \in Emergency, HandlerStep(e) \/ SpuriousWakeup(e),
         NEW u \in Twin
  PROVE  tpc'[u] = "releasing" <=> tpc[u] = "releasing"
<1>1. CASE CreateArrives(e)
  <2>1. PICK v \in FirstOf(todo[e]) : tpc' = [tpc EXCEPT ![v] = "created"]
    BY <1>1 DEF CreateArrives
  <2>2. v \in todo[e] /\ v \in Twin /\ v[1] = e /\ hpc[e] = "spawn"
    BY <1>1, <2>1, FirstOfFacts, TwinsOfFacts
       DEF CreateArrives, TypeOK, InStep, StatusFollowsHandler
  <2>3. tpc[v] = "none"
    BY <2>2 DEF InStep, ThreadFollowsHandler
  <2> QED
    BY <2>1, <2>2, <2>3 DEF TypeOK
<1>2. CASE CreateGoesAway(e)
  <2>1. PICK v \in FirstOf(todo[e]) : tpc' = [tpc EXCEPT ![v] = "leaving"]
    BY <1>2 DEF CreateGoesAway
  <2>2. v \in todo[e] /\ v \in Twin /\ v[1] = e /\ hpc[e] = "dismiss"
    BY <1>2, <2>1, FirstOfFacts, TwinsOfFacts
       DEF CreateGoesAway, TypeOK, InStep, StatusFollowsHandler
  <2>3. tpc[v] = "arrived"
    BY <2>2 DEF InStep, ThreadFollowsHandler
  <2> QED
    BY <2>1, <2>2, <2>3 DEF TypeOK
<1>3. CASE ~CreateArrives(e) /\ ~CreateGoesAway(e)
  BY <1>3 DEF HandlerStep, SpuriousWakeup, Quit, twinVars, Begin, HandlerMallocFails,
     CancelImpossible, TimeoutTooFar, Admit, CheckRequest, CheckFails, StillInTime,
     TimeoutNoRescuers, WaitEmpty, Recheck, ReserveLoad, ReserveStore, CreateArrivesFails,
     JoinArrivals, AbortSpawn, FinishManaging, CreateGoesAwayFails, JoinGoesAway
<1> QED
  BY <1>1, <1>2, <1>3

LEMMA HandlerMutex ==
  ASSUME TypeOK, InStep, NEW e \in Emergency, HandlerStep(e) \/ SpuriousWakeup(e),
         NEW f \in Emergency, MutexOf(f)
  PROVE  MutexOf(f)'
<1>0. \A u \in TwinsOf(f) : tpc'[u] = "releasing" <=> tpc[u] = "releasing"
  BY HandlerReleasesNone, TwinsOfFacts
<1>1. CASE f # e
  <2>1. lock'[f] = lock[f]
    BY <1>1 DEF TypeOK, HandlerStep, SpuriousWakeup, Quit, Begin, HandlerMallocFails,
       CancelImpossible, TimeoutTooFar, Admit, CheckRequest, CheckFails, StillInTime,
       TimeoutNoRescuers, WaitEmpty, Recheck, ReserveLoad, ReserveStore, CreateArrives,
       CreateArrivesFails, JoinArrivals, AbortSpawn, FinishManaging, CreateGoesAway,
       CreateGoesAwayFails, JoinGoesAway
  <2>2. hpc'[f] = hpc[f]
    BY <1>1 DEF TypeOK, HandlerStep, SpuriousWakeup, Quit, NextRequest, Begin,
       HandlerMallocFails, CancelImpossible, TimeoutTooFar, Admit, CheckRequest, CheckFails,
       StillInTime, TimeoutNoRescuers, WaitEmpty, Recheck, ReserveLoad, ReserveStore,
       CreateArrives, CreateArrivesFails, JoinArrivals, AbortSpawn, FinishManaging,
       CreateGoesAway, CreateGoesAwayFails, JoinGoesAway
  <2> QED
    BY <1>0, <2>1, <2>2, MutexSame
<1>2. CASE f = e /\ (Admit(e) \/ Recheck(e))
  BY <1>0, <1>2 DEF Admit, Recheck, MutexOf, Section, TypeOK
<1>3. CASE f = e /\ (TimeoutNoRescuers(e) \/ WaitEmpty(e))
  BY <1>0, <1>3 DEF TimeoutNoRescuers, WaitEmpty, Quit, MutexOf, Section, TypeOK
<1>4. CASE f = e /\ ReserveStore(e)
  BY <1>0, <1>4 DEF ReserveStore, NextRequest, MutexOf, Section, TypeOK
<1>5. CASE f = e /\ (Begin(e) \/ HandlerMallocFails(e) \/ CancelImpossible(e)
                     \/ TimeoutTooFar(e) \/ CheckRequest(e) \/ CheckFails(e)
                     \/ StillInTime(e) \/ SpuriousWakeup(e) \/ ReserveLoad(e)
                     \/ CreateArrives(e) \/ CreateArrivesFails(e) \/ JoinArrivals(e)
                     \/ AbortSpawn(e) \/ FinishManaging(e) \/ CreateGoesAway(e)
                     \/ CreateGoesAwayFails(e) \/ JoinGoesAway(e))
  <2>1. lock' = lock /\ (hpc'[e] \in Section <=> hpc[e] \in Section)
    BY <1>5 DEF TypeOK, SpuriousWakeup, Quit, NextRequest, Begin, HandlerMallocFails,
       CancelImpossible, TimeoutTooFar, CheckRequest, CheckFails, StillInTime, ReserveLoad,
       CreateArrives, CreateArrivesFails, JoinArrivals, AbortSpawn, FinishManaging,
       CreateGoesAway, CreateGoesAwayFails, JoinGoesAway, Section
  <2> QED
    BY <1>0, <1>5, <2>1, MutexSame
<1> QED
  BY <1>1, <1>2, <1>3, <1>4, <1>5 DEF HandlerStep

LEMMA TwinMutex ==
  ASSUME TypeOK, InStep, NEW v \in Twin, TwinStep(v), NEW f \in Emergency, MutexOf(f)
  PROVE  MutexOf(f)'
<1>0. /\ v[1] \in Emergency /\ v \in TwinsOf(v[1])
      /\ \A u \in TwinsOf(f) : u \in Twin /\ u[1] = f
  BY TwinFacts, TwinsOfFacts
<1>1. CASE Depart(v) \/ Arrive(v) \/ Leave(v)
  <2>1. /\ lock' = lock /\ hpc' = hpc
        /\ \A u \in Twin : tpc'[u] = "releasing" <=> tpc[u] = "releasing"
    BY <1>1 DEF Depart, Arrive, Leave, handlerVars, TypeOK
  <2> QED
    BY <1>0, <2>1, MutexSame
<1>2. CASE ReleaseLoad(v)
  <2>1. /\ lock[v[1]] = "free" /\ lock' = [lock EXCEPT ![v[1]] = "twin"] /\ hpc' = hpc
        /\ tpc' = [tpc EXCEPT ![v] = "releasing"]
    BY <1>2 DEF ReleaseLoad, handlerVars
  <2>2. CASE f # v[1]
    BY <1>0, <2>1, <2>2, MutexSame DEF TypeOK
  <2>3. CASE f = v[1]
    <3>1. \A u \in TwinsOf(f) : tpc'[u] = "releasing" <=> u = v
      BY <1>0, <2>1, <2>3 DEF MutexOf, TypeOK
    <3>2. lock'[f] = "twin" /\ hpc'[f] \notin Section
      BY <2>1, <2>3 DEF MutexOf, TypeOK
    <3> QED
      BY <1>0, <2>3, <3>1, <3>2 DEF MutexOf
  <2> QED
    BY <2>2, <2>3
<1>3. CASE ReleaseStore(v)
  <2>1. /\ tpc[v] = "releasing" /\ lock' = [lock EXCEPT ![v[1]] = "free"]
        /\ tpc' = [tpc EXCEPT ![v] = "home"]
        /\ hpc'[f] \in Section <=> hpc[f] \in Section
    BY <1>3 DEF ReleaseStore, SignalEmpty, TypeOK, Section
  <2>2. CASE f # v[1]
    BY <1>0, <2>1, <2>2, MutexSame DEF TypeOK
  <2>3. CASE f = v[1]
    <3>1. \A u \in TwinsOf(f) : tpc'[u] # "releasing"
      BY <1>0, <2>1, <2>3 DEF MutexOf, TypeOK
    <3>2. lock[f] = "twin" /\ lock'[f] = "free"
      BY <1>0, <2>1, <2>3 DEF MutexOf, TypeOK
    <3> QED
      BY <2>1, <3>1, <3>2 DEF MutexOf
  <2> QED
    BY <2>2, <2>3
<1> QED
  BY <1>1, <1>2, <1>3 DEF TwinStep

LEMMA InitMutex == Init => MutexHeld
BY TwinsOfFacts DEF Init, MutexHeld

LEMMA MutexStep == TypeOK /\ InStep /\ MutexHeld /\ [Next]_vars => MutexHeld'
<1> SUFFICES ASSUME TypeOK, InStep, MutexHeld, [Next]_vars, NEW f \in Emergency
             PROVE  MutexOf(f)'
  BY DEF MutexHeld, MutexOf, Section
<1>1. MutexOf(f)
  BY MutexHeldIs
<1>2. CASE Tick \/ UNCHANGED vars
  BY <1>1, <1>2, MutexSame DEF Tick, vars, handlerVars, twinVars
<1> QED
  BY <1>1, <1>2, HandlerMutex, TwinMutex DEF Next

\* The mutex of an emergency is held exactly by the one thread that is in a section
\* under it, for any crew and whatever calls fail.
THEOREM MutexIsHeld == Spec => []MutexHeld
BY InitMutex, MutexStep, TypeCorrect, InStepAlways, PTL DEF Spec

-----------------------------------------------------------------------------
(* The threads of a twin *)

\* Each twin gets its two threads once, one after the other.
THEOREM ThreadsOnce == Spec => EachThreadOnce
<1> DEFINE Once(u) ==
      /\ tpc'[u] = "created" /\ tpc[u] # "created" => tpc[u] = "none" /\ u \in held
      /\ tpc'[u] = "leaving" /\ tpc[u] # "leaving" => tpc[u] = "arrived"
<1>1. TypeOK /\ InStep /\ Next => \A u \in Twin : Once(u)
  <2> SUFFICES ASSUME TypeOK, InStep, Next, NEW u \in Twin PROVE Once(u)
    OBVIOUS
  <2>1. ASSUME NEW e \in Emergency, CreateArrives(e) PROVE Once(u)
    <3>1. PICK v \in FirstOf(todo[e]) : tpc' = [tpc EXCEPT ![v] = "created"]
      BY <2>1 DEF CreateArrives
    <3>2. v \in todo[e] /\ v \in Twin /\ v[1] = e /\ hpc[e] = "spawn"
      BY <2>1, <3>1, FirstOfFacts, TwinsOfFacts
         DEF CreateArrives, TypeOK, InStep, StatusFollowsHandler
    <3>3. tpc[v] = "none" /\ v \in held
      BY <3>2 DEF InStep, ThreadFollowsHandler
    <3> QED
      BY <3>1, <3>2, <3>3 DEF TypeOK
  <2>2. ASSUME NEW e \in Emergency, CreateGoesAway(e) PROVE Once(u)
    <3>1. PICK v \in FirstOf(todo[e]) : tpc' = [tpc EXCEPT ![v] = "leaving"]
      BY <2>2 DEF CreateGoesAway
    <3>2. v \in todo[e] /\ v \in Twin /\ v[1] = e /\ hpc[e] = "dismiss"
      BY <2>2, <3>1, FirstOfFacts, TwinsOfFacts
         DEF CreateGoesAway, TypeOK, InStep, StatusFollowsHandler
    <3>3. tpc[v] = "arrived"
      BY <3>2 DEF InStep, ThreadFollowsHandler
    <3> QED
      BY <3>1, <3>2, <3>3 DEF TypeOK
  <2>3. ASSUME NEW e \in Emergency, HandlerStep(e) \/ SpuriousWakeup(e),
               ~CreateArrives(e), ~CreateGoesAway(e)
        PROVE  tpc' = tpc
    BY <2>3 DEF HandlerStep, SpuriousWakeup, Quit, twinVars, Begin, HandlerMallocFails,
       CancelImpossible, TimeoutTooFar, Admit, CheckRequest, CheckFails, StillInTime,
       TimeoutNoRescuers, WaitEmpty, Recheck, ReserveLoad, ReserveStore, CreateArrivesFails,
       JoinArrivals, AbortSpawn, FinishManaging, CreateGoesAwayFails, JoinGoesAway
  <2>4. ASSUME NEW v \in Twin, TwinStep(v) PROVE Once(u)
    BY <2>4 DEF TwinStep, Depart, Arrive, Leave, ReleaseLoad, ReleaseStore, TypeOK
  <2>5. Tick => tpc' = tpc
    BY DEF Tick
  <2> QED
    BY <2>1, <2>2, <2>3, <2>4, <2>5 DEF Next
<1>2. TypeOK /\ InStep /\ [Next]_vars => [\A u \in Twin : Once(u)]_vars
  BY <1>1
<1> HIDE DEF Once
<1>3. Spec => [][\A u \in Twin : Once(u)]_vars
  BY <1>2, TypeCorrect, InStepAlways, PTL DEF Spec
<1> QED
  BY <1>3 DEF EachThreadOnce, Once
-----------------------------------------------------------------------------
(* The crew is counted *)

\* Only finite sets have a cardinality to count with.
CrewInv == \A e \in Emergency : IsFiniteSet(Crew(e)) /\ rescuer_count[e] = Cardinality(Crew(e))

\* The handlers touch neither the status of a twin nor the count.
LEMMA UncountedStep ==
  ASSUME NEW e \in Emergency, HandlerStep(e) \/ SpuriousWakeup(e)
  PROVE  UNCHANGED <<dt, rescuer_count>>
BY DEF HandlerStep, twinVars, Quit,
   Begin, HandlerMallocFails, CancelImpossible, TimeoutTooFar, Admit, CheckRequest,
   CheckFails, StillInTime, TimeoutNoRescuers, WaitEmpty, SpuriousWakeup, Recheck,
   ReserveLoad, ReserveStore, CreateArrives, CreateArrivesFails, JoinArrivals, AbortSpawn,
   FinishManaging, CreateGoesAway, CreateGoesAwayFails, JoinGoesAway

LEMMA NextCrew ==
  ASSUME TypeOK, InStep, CrewInv, [Next]_vars
  PROVE  CrewInv'
<1>1. CASE UNCHANGED <<dt, rescuer_count>>
  BY <1>1 DEF CrewInv, Crew
<1>2. ASSUME NEW u \in Twin, Depart(u) \/ Leave(u) \/ ReleaseLoad(u)
      PROVE  CrewInv'
  <2>1. rescuer_count' = rescuer_count
    BY <1>2 DEF Depart, Leave, ReleaseLoad
  <2>2. \A v \in Twin : dt'[v] \in {"ON_SCENE", "RETURNING_TO_BASE"}
                          <=> dt[v] \in {"ON_SCENE", "RETURNING_TO_BASE"}
    BY <1>2 DEF Depart, Leave, ReleaseLoad, TypeOK, InStep, StatusFollowsThread
  <2>3. \A e \in Emergency : Crew(e)' = Crew(e)
    BY <2>2, TwinsOfFacts DEF Crew
  <2> QED
    BY <2>1, <2>3 DEF CrewInv
<1>3. ASSUME NEW u \in Twin, Arrive(u)
      PROVE  CrewInv'
  <2>1. u[1] \in Emergency /\ u \in TwinsOf(u[1])
    BY TwinFacts
  <2>2. /\ dt' = [dt EXCEPT ![u] = "ON_SCENE"]
        /\ rescuer_count' = [rescuer_count EXCEPT ![u[1]] = @ + 1]
        /\ dt[u] = "EN_ROUTE_TO_SCENE"
    BY <1>3 DEF Arrive, CountCrew, InStep, StatusFollowsThread
  <2>3. Crew(u[1])' = Crew(u[1]) \cup {u} /\ u \notin Crew(u[1])
    BY <2>1, <2>2, TwinsOfFacts DEF Crew, TypeOK
  <2>4. \A e \in Emergency : e # u[1] => Crew(e)' = Crew(e)
    BY <2>2, TwinsOfFacts DEF Crew, TypeOK
  <2>5. IsFiniteSet(Crew(u[1])') /\ Cardinality(Crew(u[1])') = Cardinality(Crew(u[1])) + 1
    BY <2>1, <2>3, FS_AddElement DEF CrewInv
  <2> QED
    BY <2>1, <2>2, <2>4, <2>5 DEF CrewInv, TypeOK
<1>4. ASSUME NEW u \in Twin, ReleaseStore(u)
      PROVE  CrewInv'
  <2>1. u[1] \in Emergency /\ u \in TwinsOf(u[1])
    BY TwinFacts
  <2>2. /\ dt' = [dt EXCEPT ![u] = "IDLE"]
        /\ rescuer_count' = [rescuer_count EXCEPT ![u[1]] = @ + -1]
        /\ tpc[u] = "releasing"
    BY <1>4 DEF ReleaseStore, CountCrew
  <2>3. dt[u] = "RETURNING_TO_BASE"
    BY <2>2 DEF TypeOK, TwinStatus, InStep, StatusFollowsThread
  <2>4. Crew(u[1])' = Crew(u[1]) \ {u} /\ u \in Crew(u[1])
    BY <2>1, <2>2, <2>3, TwinsOfFacts DEF Crew, TypeOK
  <2>5. \A e \in Emergency : e # u[1] => Crew(e)' = Crew(e)
    BY <2>2, TwinsOfFacts DEF Crew, TypeOK
  <2>6. IsFiniteSet(Crew(u[1])') /\ Cardinality(Crew(u[1])') = Cardinality(Crew(u[1])) - 1
    BY <2>1, <2>4, FS_RemoveElement DEF CrewInv
  <2> QED
    BY <2>1, <2>2, <2>5, <2>6 DEF CrewInv, TypeOK
<1> QED
  <2>1. UNCHANGED vars => UNCHANGED <<dt, rescuer_count>>
    BY DEF vars, twinVars
  <2>2. Tick => UNCHANGED <<dt, rescuer_count>>
    BY DEF Tick
  <2> QED
    BY <1>1, <1>2, <1>3, <1>4, <2>1, <2>2, UncountedStep DEF Next, TwinStep

\* rescuer_count is the number of twins between their arrival and their return.
THEOREM CrewIsCounted == Spec => []CrewCounted
<1>1. Init => CrewInv
  <2> SUFFICES ASSUME Init, NEW e \in Emergency
               PROVE  IsFiniteSet(Crew(e)) /\ rescuer_count[e] = Cardinality(Crew(e))
    BY DEF CrewInv
  <2>1. Crew(e) = {}
    BY TwinsOfFacts DEF Init, Crew
  <2> QED
    BY <2>1, FS_EmptySet DEF Init
<1>2. CrewInv => CrewCounted
  BY DEF CrewInv, CrewCounted
<1> QED
  BY <1>1, <1>2, NextCrew, TypeCorrect, InStepAlways, PTL DEF Spec

-----------------------------------------------------------------------------
(* The threads implement the abstract mission *)

OnScene == {u \in Twin : dt[u] = "ON_SCENE"}

LEMMA SameTwins ==
  /\ AbstractMission!Twin = Twin
  /\ \A e : AbstractMission!TwinsOf(e) = TwinsOf(e)
BY DEF AbstractMission!Twin, AbstractMission!TwinsOf, AbstractMission!TwinsOfRequest,
   AbstractMission!Requests, AbstractMission!Rr, Twin, TwinsOf, TwinsOfRequest,
   Requests, Rr

LEMMA MissionInit == Init => AbstractMission!Init
BY DEF Init, AbstractMission!Init

\* A step that changes no status and sends nobody to or from the scene.
LEMMA MissionStutter ==
  ASSUME UNCHANGED status, OnScene' = OnScene
  PROVE  UNCHANGED AbstractMission!vars
BY DEF OnScene, AbstractMission!vars

\* A change of status with the twins where they are.
LEMMA MissionStatus ==
  ASSUME NEW e \in Emergency, NEW s, UNCHANGED dt,
         status' = [status EXCEPT ![e] = s]
  PROVE  /\ status[e] = "WAITING" /\ s = "ASSIGNED" => AbstractMission!Next
         /\ status[e] = "ASSIGNED" /\ s = "TIMEOUT" /\ OnScene \cap TwinsOf(e) = {}
              => AbstractMission!Next
         /\ status[e] = "ASSIGNED" /\ s = "CANCELED"
              /\ (TwinsOf(e) \subseteq OnScene => TwinsOf(e) = {})
              => AbstractMission!Next
         /\ status[e] = "ASSIGNED" /\ s = "IN_PROGRESS" /\ TwinsOf(e) \subseteq OnScene
              => AbstractMission!Next
         /\ status[e] = "IN_PROGRESS" /\ s = "COMPLETED" /\ TwinsOf(e) \subseteq OnScene
              => AbstractMission!Next
<1>1. OnScene' = OnScene
  BY DEF OnScene
<1>2. ASSUME NEW from, NEW to, status[e] = from, s = to
      PROVE  AbstractMission!SetStatus(e, from, to)
  BY <1>1, <1>2 DEF OnScene, AbstractMission!SetStatus
<1>3. CASE status[e] = "WAITING" /\ s = "ASSIGNED"
  BY <1>2, <1>3 DEF AbstractMission!Next, AbstractMission!Assign
<1>4. CASE status[e] = "ASSIGNED" /\ s = "TIMEOUT" /\ OnScene \cap TwinsOf(e) = {}
  BY <1>2, <1>4, SameTwins DEF AbstractMission!Next, AbstractMission!Timeout, OnScene
<1>5. CASE status[e] = "ASSIGNED" /\ s = "CANCELED"
           /\ (TwinsOf(e) \subseteq OnScene => TwinsOf(e) = {})
  BY <1>2, <1>5, SameTwins DEF AbstractMission!Next, AbstractMission!Cancel, OnScene
<1>6. CASE status[e] = "ASSIGNED" /\ s = "IN_PROGRESS" /\ TwinsOf(e) \subseteq OnScene
  BY <1>2, <1>6, SameTwins DEF AbstractMission!Next, AbstractMission!Start, OnScene
<1>7. CASE status[e] = "IN_PROGRESS" /\ s = "COMPLETED" /\ TwinsOf(e) \subseteq OnScene
  BY <1>2, <1>7, SameTwins DEF AbstractMission!Next, AbstractMission!Complete, OnScene
<1> QED
  BY <1>3, <1>4, <1>5, <1>6, <1>7

\* Where the twins of an emergency can be when its handler leaves a phase.
LEMMA NobodyOnScene ==
  ASSUME InStep, NEW e \in Emergency, hpc[e] \in Unreserved
  PROVE  OnScene \cap TwinsOf(e) = {}
BY TwinsOfFacts DEF InStep, ThreadFollowsHandler, StatusFollowsThread, OnScene

LEMMA CrewIncomplete ==
  ASSUME InStep, NEW e \in Emergency, hpc[e] = "spawn", ~AllCreated(e)
  PROVE  ~(TwinsOf(e) \subseteq OnScene)
<1>1. PICK u \in TwinsOf(e) : tpc[u] = "none"
  BY DEF AllCreated
<1>2. u \in Twin /\ dt[u] = "IDLE"
  BY <1>1, TwinsOfFacts DEF InStep, StatusFollowsThread
<1> QED
  BY <1>1, <1>2 DEF OnScene

LEMMA CrewComplete ==
  ASSUME InStep, NEW e \in Emergency,
         \/ hpc[e] = "spawn" /\ AllCreated(e) /\ Joined(e)
         \/ hpc[e] = "managing"
  PROVE  /\ TwinsOf(e) \subseteq OnScene
         /\ \A u \in TwinsOf(e) : dt[u] = "ON_SCENE"
<1> SUFFICES ASSUME NEW u \in TwinsOf(e) PROVE u \in Twin /\ dt[u] = "ON_SCENE"
  BY DEF OnScene
<1>1. u \in Twin /\ u[1] = e
  BY TwinsOfFacts
<1>2. tpc[u] = "arrived"
  BY <1>1 DEF InStep, ThreadFollowsHandler, AllCreated, Joined
<1> QED
  BY <1>1, <1>2 DEF InStep, StatusFollowsThread

LEMMA HandlerMission ==
  ASSUME TypeOK, InStep, NEW e \in Emergency, HandlerStep(e) \/ SpuriousWakeup(e)
  PROVE  AbstractMission!Next \/ UNCHANGED AbstractMission!vars
<1>0. UNCHANGED dt
  BY UncountedStep
<1>1. CASE UNCHANGED status
  BY <1>0, <1>1, MissionStutter DEF OnScene
<1>2. CASE Begin(e)
  <2>1. status[e] = "WAITING" /\ status' = [status EXCEPT ![e] = "ASSIGNED"]
    BY <1>2 DEF Begin, InStep, StatusFollowsHandler
  <2> QED
    BY <1>0, <2>1, MissionStatus
<1>3. CASE HandlerMallocFails(e)
  <2>1. UNCHANGED status
    BY <1>3 DEF HandlerMallocFails, Quit, TypeOK
  <2> QED
    BY <2>1, <1>1
<1>4. CASE CancelImpossible(e)
  <2>1. status[e] = "ASSIGNED" /\ status' = [status EXCEPT ![e] = "CANCELED"]
    BY <1>4 DEF CancelImpossible, Quit, InStep, StatusFollowsHandler, Unreserved
  <2>2. OnScene \cap TwinsOf(e) = {}
    BY <1>4, NobodyOnScene DEF CancelImpossible, Unreserved
  <2> QED
    BY <1>0, <2>1, <2>2, MissionStatus
<1>5. CASE TimeoutTooFar(e) \/ TimeoutNoRescuers(e)
  <2>1. status[e] = "ASSIGNED" /\ status' = [status EXCEPT ![e] = "TIMEOUT"]
    BY <1>5 DEF TimeoutTooFar, TimeoutNoRescuers, Quit, InStep, StatusFollowsHandler,
       Unreserved
  <2>2. OnScene \cap TwinsOf(e) = {}
    BY <1>5, NobodyOnScene DEF TimeoutTooFar, TimeoutNoRescuers, Unreserved
  <2> QED
    BY <1>0, <2>1, <2>2, MissionStatus
<1>6. CASE AbortSpawn(e)
  <2>1. status[e] = "ASSIGNED" /\ status' = [status EXCEPT ![e] = "CANCELED"]
    BY <1>6 DEF AbortSpawn, Quit, InStep, StatusFollowsHandler
  <2>2. ~(TwinsOf(e) \subseteq OnScene)
    BY <1>6, CrewIncomplete DEF AbortSpawn
  <2> QED
    BY <1>0, <2>1, <2>2, MissionStatus
<1>7. CASE JoinArrivals(e)
  <2>1. TwinsOf(e) \subseteq OnScene /\ \A u \in TwinsOf(e) : dt[u] = "ON_SCENE"
    BY <1>7, CrewComplete DEF JoinArrivals
  <2>2. status[e] = "ASSIGNED" /\ status' = [status EXCEPT ![e] = "IN_PROGRESS"]
    BY <1>7, <2>1 DEF JoinArrivals, InStep, StatusFollowsHandler
  <2> QED
    BY <1>0, <2>1, <2>2, MissionStatus
<1>8. CASE FinishManaging(e)
  <2>1. status[e] = "IN_PROGRESS" /\ status' = [status EXCEPT ![e] = "COMPLETED"]
    BY <1>8 DEF FinishManaging, InStep, StatusFollowsHandler
  <2>2. TwinsOf(e) \subseteq OnScene
    BY <1>8, CrewComplete DEF FinishManaging
  <2> QED
    BY <1>0, <2>1, <2>2, MissionStatus
<1> QED
  BY <1>1, <1>2, <1>3, <1>4, <1>5, <1>6, <1>7, <1>8 DEF HandlerStep, Admit,
     CheckRequest, CheckFails, StillInTime, WaitEmpty, SpuriousWakeup, Recheck, ReserveLoad,
     ReserveStore, CreateArrives, CreateArrivesFails, CreateGoesAway,
     CreateGoesAwayFails, JoinGoesAway

LEMMA TwinMission ==
  ASSUME TypeOK, InStep, NEW u \in Twin, TwinStep(u)
  PROVE  AbstractMission!Next \/ UNCHANGED AbstractMission!vars
<1>0. u[1] \in Emergency
  BY TwinFacts
<1>1. CASE Depart(u) \/ ReleaseLoad(u) \/ ReleaseStore(u)
  <2>1. UNCHANGED status
    BY <1>1 DEF Depart, ReleaseLoad, ReleaseStore, handlerVars
  <2>2. \A v \in Twin : dt'[v] = "ON_SCENE" <=> dt[v] = "ON_SCENE"
    BY <1>1 DEF Depart, ReleaseLoad, ReleaseStore, TypeOK, InStep, StatusFollowsThread
  <2> QED
    BY <2>1, <2>2, MissionStutter DEF OnScene
<1>2. CASE Arrive(u)
  <2>1. tpc[u] = "driving" /\ dt[u] # "ON_SCENE" /\ hpc[u[1]] = "spawn"
    BY <1>0, <1>2 DEF Arrive, TypeOK, HandlerPc, InStep, StatusFollowsThread,
       ThreadFollowsHandler, Unreserved, Reserving
  <2>2. status[u[1]] = "ASSIGNED" /\ UNCHANGED status
    BY <1>0, <1>2, <2>1 DEF Arrive, handlerVars, InStep, StatusFollowsHandler
  <2>3. OnScene' = OnScene \cup {u} /\ u \notin OnScene
    BY <1>2, <2>1 DEF Arrive, OnScene, TypeOK
  <2> QED
    BY <2>2, <2>3, SameTwins DEF AbstractMission!Next, AbstractMission!Arrive, OnScene
<1>3. CASE Leave(u)
  <2>1. tpc[u] = "leaving" /\ dt[u] = "ON_SCENE" /\ hpc[u[1]] = "dismiss"
    BY <1>0, <1>3 DEF Leave, TypeOK, HandlerPc, InStep, StatusFollowsThread,
       ThreadFollowsHandler, Unreserved, Reserving
  <2>2. status[u[1]] = "COMPLETED" /\ UNCHANGED status
    BY <1>0, <1>3, <2>1 DEF Leave, handlerVars, InStep, StatusFollowsHandler
  <2>3. OnScene' = OnScene \ {u} /\ u \in OnScene
    BY <1>3, <2>1 DEF Leave, OnScene, TypeOK
  <2> QED
    BY <2>2, <2>3, SameTwins DEF AbstractMission!Next, AbstractMission!Leave, OnScene
<1> QED
  BY <1>1, <1>2, <1>3 DEF TwinStep

\* Refinement: every step of the threads is a step of the mission or stutters.
THEOREM ImplementsMission == Spec => MissionRefinement
<1>1. TypeOK /\ InStep /\ [Next]_vars => [AbstractMission!Next]_(AbstractMission!vars)
  <2>1. Tick \/ UNCHANGED vars => UNCHANGED AbstractMission!vars
    BY MissionStutter DEF Tick, vars, handlerVars, twinVars, OnScene
  <2> QED
    BY <2>1, HandlerMission, TwinMission DEF Next
<1> QED
  BY MissionInit, <1>1, TypeCorrect, InStepAlways, PTL
     DEF Spec, MissionRefinement, AbstractMission!Spec
=============================================================================
