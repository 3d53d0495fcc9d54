---------------------------- MODULE ServerProofs ----------------------------
(***************************************************************************)
(* Theorems about the server process: each of its parts behaves as its own *)
(* module says, so what is proved there holds of the process, for every    *)
(* configuration, any number of emergencies and with Ctrl+C.               *)
(***************************************************************************)
EXTENDS ServerProperties, TLAPS

\* The theorems about the two parts, for the constants of the process.
DT == INSTANCE ShutdownProofs
HT == INSTANCE PoolProofs

LEMMA PartsInit == Init => D!Init /\ H!Init
BY DEF Init

LEMMA PartsStep == [Next]_vars => [D!Next]_(D!vars) /\ [H!Next]_(H!vars)
<1>1. CASE ServerThread(D!Next)
  <2>1. D!Next /\ UNCHANGED handlerVars
    BY <1>1 DEF ServerThread
  <2>2. UNCHANGED H!vars
    BY <2>1 DEF handlerVars, H!vars, H!poolVars, H!handlerVars, H!twinVars
  <2> QED
    BY <2>1, <2>2
<1>2. CASE HandlerThread(H!Next)
  <2>1. H!Next /\ UNCHANGED dispatchVars
    BY <1>2 DEF HandlerThread
  <2>2. UNCHANGED D!vars
    BY <2>1 DEF dispatchVars, D!vars, D!receiverVars, D!dispatcherVars
  <2> QED
    BY <2>1, <2>2
<1>3. CASE UseAfterFree \/ UNCHANGED vars
  <2>1. UNCHANGED <<dispatchVars, handlerVars>>
    BY <1>3 DEF UseAfterFree, vars
  <2>2. UNCHANGED H!vars /\ UNCHANGED D!vars
    BY <2>1 DEF handlerVars, H!vars, H!poolVars, H!handlerVars, H!twinVars, dispatchVars,
                D!vars, D!receiverVars, D!dispatcherVars
  <2> QED
    BY <2>2
<1> QED
  BY <1>1, <1>2, <1>3 DEF Next

\* The threads of the front half, in the process, behave as module Dispatch says.
THEOREM FrontHalf == Spec => D!Spec
BY PartsInit, PartsStep, PTL DEF Spec, D!Spec

\* The handlers and twins, in the process, behave as module Handlers says.
THEOREM BackHalf == Spec => H!Spec
BY PartsInit, PartsStep, PTL DEF Spec, H!Spec

-----------------------------------------------------------------------------
(* The theorems of the parts are about the same specifications *)

LEMMA SameFront == D!Spec => DT!Spec
<1> USE DEF D!vars, DT!vars, D!receiverVars, DT!receiverVars, D!dispatcherVars,
            DT!dispatcherVars
<1>1. D!Init => DT!Init
  BY DEF D!Init, DT!Init, D!NoEmergency, DT!NoEmergency
<1>2. \A q, item : D!Insert(q, item) = DT!Insert(q, item)
  BY DEF D!Insert, DT!Insert, D!InsertAt, DT!InsertAt, D!Min, DT!Min, D!CursorStops,
         DT!CursorStops
<1>3. D!Push => DT!Push
  BY <1>2 DEF D!Push, DT!Push, D!WakeDispatcher, DT!WakeDispatcher
<1>4. D!Next => DT!Next
  BY <1>3 DEF D!Next, DT!Next,
         D!Send, DT!Send, D!CheckStop, DT!CheckStop, D!ReceiveNothing, DT!ReceiveNothing,
         D!Receive, DT!Receive, D!WakeDispatcher, DT!WakeDispatcher, D!Receiver, DT!Receiver,
         D!PopLock, DT!PopLock, D!PopFindsNothing, DT!PopFindsNothing, D!PopWaits, DT!PopWaits,
         D!SpuriousWakeup, DT!SpuriousWakeup, D!PopStops, DT!PopStops, D!PopTakes, DT!PopTakes,
         D!StartHandler, DT!StartHandler, D!StartFails, DT!StartFails, D!Dispatcher,
         DT!Dispatcher, D!SigintSetsFlag, DT!SigintSetsFlag, D!SigintBroadcasts,
         DT!SigintBroadcasts, D!JoinReceiver, DT!JoinReceiver, D!JoinDispatcher,
         DT!JoinDispatcher, D!Cleanup, DT!Cleanup, D!Exit, DT!Exit, D!Main, DT!Main
<1>5. [D!Next]_(D!vars) => [DT!Next]_(DT!vars)
  BY <1>4
<1> QED
  BY <1>1, <1>5, PTL DEF D!Spec, DT!Spec

LEMMA NextBack == [H!Next]_(H!vars) => [HT!Next]_(HT!vars)
<1> USE DEF H!vars, HT!vars, H!poolVars, HT!poolVars, H!handlerVars, HT!handlerVars, H!twinVars,
            HT!twinVars
<1>2. \A e : H!TooFar(e) = HT!TooFar(e)
  BY DEF H!TooFar, HT!TooFar, H!TimeLimit, HT!TimeLimit, H!Priority, HT!Priority,
     H!MaxRescuerArrivingTime, HT!MaxRescuerArrivingTime, H!TwinsOf, HT!TwinsOf, H!Requests,
     HT!Requests, H!TwinsOfRequest, HT!TwinsOfRequest, H!Rr, HT!Rr, H!TypeOfTwin, HT!TypeOfTwin,
     H!EstimateArrivalTime, HT!EstimateArrivalTime, H!Abs, HT!Abs, H!Max, HT!Max
<1>3. \A e : H!HandlerStep(e) => HT!HandlerStep(e)
  <2> TAKE e
  <2>1. H!Begin(e) => HT!Begin(e)
    BY DEF H!Begin, HT!Begin, H!TimeLimit, HT!TimeLimit, H!Priority, HT!Priority
  <2>2. H!HandlerMallocFails(e) => HT!HandlerMallocFails(e)
    BY DEF H!HandlerMallocFails, HT!HandlerMallocFails, H!Quit, HT!Quit
  <2>3. H!CancelImpossible(e) => HT!CancelImpossible(e)
    BY DEF H!CancelImpossible, HT!CancelImpossible, H!Quit, HT!Quit, H!Impossible,
           HT!Impossible, H!Rr, HT!Rr, H!Requests, HT!Requests
  <2>4. H!TimeoutTooFar(e) => HT!TimeoutTooFar(e)
    BY <1>2 DEF H!TimeoutTooFar, HT!TimeoutTooFar, H!Quit, HT!Quit, H!Requests,
           HT!Requests, H!Rr, HT!Rr, H!Impossible, HT!Impossible
  <2>5. H!Admit(e) => HT!Admit(e)
    BY <1>2 DEF H!Admit, HT!Admit, H!Requests, HT!Requests, H!Rr, HT!Rr, H!Impossible,
           HT!Impossible
  <2>6. H!CheckRequest(e) => HT!CheckRequest(e)
    BY DEF H!CheckRequest, HT!CheckRequest, H!NextRequest, HT!NextRequest, H!LastRequest,
           HT!LastRequest, H!RequestCount, HT!RequestCount, H!Available, HT!Available, H!Rr,
           HT!Rr
  <2>7. H!CheckFails(e) => HT!CheckFails(e)
    BY DEF H!CheckFails, HT!CheckFails, H!Available, HT!Available, H!Rr, HT!Rr
  <2>8. H!TimeoutNoRescuers(e) => HT!TimeoutNoRescuers(e)
    BY DEF H!TimeoutNoRescuers, HT!TimeoutNoRescuers, H!Quit, HT!Quit, H!Expired,
           HT!Expired, H!Priority, HT!Priority
  <2>9. H!WaitEmpty(e) => HT!WaitEmpty(e)
    BY DEF H!WaitEmpty, HT!WaitEmpty
  <2>10. H!Recheck(e) => HT!Recheck(e)
    BY DEF H!Recheck, HT!Recheck
  <2>11. H!ReserveLoad(e) => HT!ReserveLoad(e)
    BY DEF H!ReserveLoad, HT!ReserveLoad, H!Rr, HT!Rr
  <2>12. H!ReserveStore(e) => HT!ReserveStore(e)
    BY DEF H!ReserveStore, HT!ReserveStore, H!TwinsOf, HT!TwinsOf, H!Requests,
           HT!Requests, H!TwinsOfRequest, HT!TwinsOfRequest, H!Rr, HT!Rr, H!LastRequest,
           HT!LastRequest, H!RequestCount, HT!RequestCount, H!NextRequest, HT!NextRequest
  <2>13. H!CreateArrives(e) => HT!CreateArrives(e)
    BY DEF H!CreateArrives, HT!CreateArrives, H!FirstOf, HT!FirstOf
  <2>14. H!CreateArrivesFails(e) => HT!CreateArrivesFails(e)
    BY DEF H!CreateArrivesFails, HT!CreateArrivesFails, H!FirstOf, HT!FirstOf
  <2>15. H!JoinArrivals(e) => HT!JoinArrivals(e)
    BY DEF H!JoinArrivals, HT!JoinArrivals, H!TwinsOf, HT!TwinsOf, H!Requests,
           HT!Requests, H!TwinsOfRequest, HT!TwinsOfRequest, H!Rr, HT!Rr, H!ManagingTimes,
           HT!ManagingTimes, H!Joined, HT!Joined, H!AllCreated, HT!AllCreated
  <2>16. H!AbortSpawn(e) => HT!AbortSpawn(e)
    BY DEF H!AbortSpawn, HT!AbortSpawn, H!Quit, HT!Quit, H!Joined, HT!Joined, H!TwinsOf,
           HT!TwinsOf, H!Requests, HT!Requests, H!TwinsOfRequest, HT!TwinsOfRequest, H!Rr,
           HT!Rr, H!AllCreated, HT!AllCreated
  <2>17. H!FinishManaging(e) => HT!FinishManaging(e)
    BY DEF H!FinishManaging, HT!FinishManaging
  <2>18. H!CreateGoesAway(e) => HT!CreateGoesAway(e)
    BY DEF H!CreateGoesAway, HT!CreateGoesAway, H!FirstOf, HT!FirstOf
  <2>19. H!CreateGoesAwayFails(e) => HT!CreateGoesAwayFails(e)
    BY DEF H!CreateGoesAwayFails, HT!CreateGoesAwayFails, H!FirstOf, HT!FirstOf
  <2>20. H!JoinGoesAway(e) => HT!JoinGoesAway(e)
    BY DEF H!JoinGoesAway, HT!JoinGoesAway, H!Joined, HT!Joined, H!TwinsOf, HT!TwinsOf,
           H!Requests, HT!Requests, H!TwinsOfRequest, HT!TwinsOfRequest, H!Rr, HT!Rr
  <2>21. H!StillInTime(e) => HT!StillInTime(e)
    BY DEF H!StillInTime, HT!StillInTime, H!Expired, HT!Expired, H!Priority, HT!Priority
  <2> QED
    BY <2>1, <2>2, <2>3, <2>4, <2>5, <2>6, <2>7, <2>8, <2>9, <2>10, <2>11, <2>12, <2>13,
       <2>14, <2>15, <2>16, <2>17, <2>18, <2>19, <2>20, <2>21
       DEF H!HandlerStep, HT!HandlerStep
<1>4. \A u : H!TwinStep(u) => HT!TwinStep(u)
  <2> TAKE u
  <2>1. H!Depart(u) => HT!Depart(u)
    BY DEF H!Depart, HT!Depart, H!ArrivalTime, HT!ArrivalTime, H!TypeOfTwin,
           HT!TypeOfTwin, H!Rr, HT!Rr, H!EstimateArrivalTime, HT!EstimateArrivalTime, H!Abs,
           HT!Abs, H!SleepSeconds, HT!SleepSeconds
  <2>2. H!Arrive(u) => HT!Arrive(u)
    BY DEF H!Arrive, HT!Arrive, H!CountCrew, HT!CountCrew
  <2>3. H!Leave(u) => HT!Leave(u)
    BY DEF H!Leave, HT!Leave, H!ArrivalTime, HT!ArrivalTime, H!TypeOfTwin, HT!TypeOfTwin,
           H!Rr, HT!Rr, H!EstimateArrivalTime, HT!EstimateArrivalTime, H!Abs, HT!Abs,
           H!SleepSeconds, HT!SleepSeconds
  <2>4. H!ReleaseLoad(u) => HT!ReleaseLoad(u)
    BY DEF H!ReleaseLoad, HT!ReleaseLoad, H!TypeOfTwin, HT!TypeOfTwin, H!Rr, HT!Rr
  <2>5. H!ReleaseStore(u) => HT!ReleaseStore(u)
    BY DEF H!ReleaseStore, HT!ReleaseStore, H!SignalEmpty, HT!SignalEmpty, H!CountCrew,
           HT!CountCrew, H!TypeOfTwin, HT!TypeOfTwin, H!Rr, HT!Rr
  <2> QED
    BY <2>1, <2>2, <2>3, <2>4, <2>5 DEF H!TwinStep, HT!TwinStep
<1>5. H!Twin = HT!Twin
  BY DEF H!Twin, HT!Twin, H!TwinsOf, HT!TwinsOf, H!Requests, HT!Requests, H!TwinsOfRequest,
  HT!TwinsOfRequest, H!Rr, HT!Rr
<1>6. H!Tick => HT!Tick
  BY DEF H!Tick, HT!Tick, H!Countdown, HT!Countdown, H!Twin, HT!Twin, H!TwinsOf, HT!TwinsOf,
  H!Requests, HT!Requests, H!TwinsOfRequest, HT!TwinsOfRequest, H!Rr, HT!Rr
<1> QED
  BY <1>3, <1>4, <1>5, <1>6 DEF H!Next, HT!Next, H!SpuriousWakeup, HT!SpuriousWakeup

LEMMA SameBack == H!Spec => HT!Spec
<1>1. H!Init => HT!Init
  BY DEF H!Init, HT!Init, H!Twin, HT!Twin, H!TwinsOf, HT!TwinsOf, H!Requests,
         HT!Requests, H!TwinsOfRequest, HT!TwinsOfRequest, H!Rr, HT!Rr
<1> QED
  BY <1>1, NextBack, PTL DEF H!Spec, HT!Spec

LEMMA PartsAssumed ==
  DT!MessageAssumption /\ HT!ConfigAssumption /\ HT!LimitAssumption /\ HT!FaultAssumption
BY PartsAssumption
   DEF D!MessageAssumption, DT!MessageAssumption, H!ConfigAssumption, HT!ConfigAssumption,
       H!LimitAssumption, HT!LimitAssumption, H!FaultAssumption, HT!FaultAssumption,
       H!RescuerTypeRecord, HT!RescuerTypeRecord, H!EmergencyRecord, HT!EmergencyRecord,
       H!RescuerRequest, HT!RescuerRequest

\* In the process too, nobody is managed by half a crew, sent out without a place or
\* used after its handler returned, crews are counted right, every mutex has the owner
\* it should have, and places come back but for the two failures, whatever main() and
\* the receiver do meanwhile.
THEOREM CrewsInProcess ==
  Spec => [](HT!ManagedByFullCrew /\ HT!AwayIsHeld /\ HT!NoHoldAndWait /\ HT!MutexHeld
               /\ HT!CrewCounted /\ HT!NoThreadOutlivesHandler /\ HT!KeptOnlyByAbort)
BY BackHalf, SameBack, PartsAssumed, HT!FullCrew, HT!PlaceKept, HT!NobodyHeldInWait,
   HT!MutexIsHeld, HT!CrewIsCounted, HT!ThreadsJoined, HT!PlacesComeBack, PTL

\* Nor does the work of the handlers disturb the way to them: the list stays ordered,
\* the dispatcher awake while there is work, every emergency in one place until it is
\* handled, and a stopped server costs at most one.
THEOREM QueueInProcess ==
  Spec => [](DT!QueueOrdered /\ DT!NeverSleepsOnWork /\ DT!ExactlyOnePlace
               /\ DT!LosesAtMostOne)
BY FrontHalf, SameFront, PartsAssumed, DT!ListOrdered, DT!WakesForWork,
   DT!NoneLostNoneTwice, DT!LosesOneAtMost, PTL

\* The process implements what both parts promise: emergencies leave the internal
\* queue most urgent first, and each is then managed as a mission, by threads that are
\* created once.
THEOREM PartsImplement ==
  Spec => DT!QueueRefinement /\ HT!MissionRefinement /\ HT!EachThreadOnce
BY FrontHalf, BackHalf, SameFront, SameBack, PartsAssumed, DT!ImplementsUrgentFirst,
   HT!ImplementsMission, HT!ThreadsOnce, PTL

-----------------------------------------------------------------------------
(* Where the parts meet *)

\* Without receiver and dispatcher no message is taken and no handler started.
LEMMA AfterMainFreed ==
  ASSUME DT!JoinsInOrder, Freed, D!Next
  PROVE  UNCHANGED <<queue, mutex, accepted, handled, lastId>>
<1>1. /\ rpc = "done" /\ dpc = "done"
      /\ mainpc \notin {"join_receiver", "join_dispatcher", "cleanup"}
  BY DEF DT!JoinsInOrder, Freed
<1> QED
  BY <1>1
     DEF D!Next, D!Send, D!Receiver, D!CheckStop, D!ReceiveNothing, D!Receive, D!Push,
         D!Dispatcher, D!PopLock, D!PopFindsNothing, D!PopWaits, D!PopStops, D!PopTakes,
         D!StartHandler, D!StartFails, D!SpuriousWakeup, D!SigintSetsFlag, D!SigintBroadcasts,
         D!Main, D!JoinReceiver, D!JoinDispatcher, D!Cleanup, D!Exit, D!receiverVars,
         D!dispatcherVars

\* The order of the joins in main() (server.c:87, 88) leaves only handlers to the memory
\* it frees: whatever handlers still run, whatever Ctrl+C and the clients do, nobody
\* uses the destroyed queue and no handler is started any more.
THEOREM JoinsLeaveHandlers == Spec => OnlyHandlersRemain
<1>1. Spec => []DT!JoinsInOrder
  BY FrontHalf, SameFront, PartsAssumed, DT!MainJoins, PTL
<1>2. Spec => []HT!TypeOK
  BY BackHalf, SameBack, PartsAssumed, HT!TypeCorrect, PTL
<1>3. ASSUME DT!JoinsInOrder, HT!TypeOK, [Next]_vars, Freed
      PROVE  UNCHANGED <<queue, mutex, accepted>> /\ Working' \subseteq Working
  <2>1. CASE ServerThread(D!Next)
    <3>1. UNCHANGED <<queue, mutex, accepted, handled, lastId>>
      BY <1>3, <2>1, AfterMainFreed DEF ServerThread
    <3>2. UNCHANGED <<taken, hpc>>
      BY <2>1, <3>1 DEF ServerThread, handlerVars
    <3> QED
      BY <3>1, <3>2 DEF Working, Created, IsAmong
  <2>2. CASE HandlerThread(H!Next)
    <3>1. UNCHANGED <<queue, mutex, accepted, handled, taken>>
      BY <2>2 DEF HandlerThread, dispatchVars
    <3>2. [HT!Next]_(HT!vars)
      BY <2>2, NextBack DEF HandlerThread
    <3>3. \A m \in Emergency : hpc[m] = "done" => hpc'[m] = "done"
      BY <1>3, <3>2, PartsAssumed, HT!OverIsOver
    <3> QED
      BY <3>1, <3>3 DEF Working, Created, IsAmong
  <2>3. CASE UseAfterFree \/ UNCHANGED vars
    BY <2>3 DEF UseAfterFree, vars, dispatchVars, handlerVars, Working, Created, IsAmong
  <2> QED
    BY <1>3, <2>1, <2>2, <2>3 DEF Next
<1> QED
  BY <1>1, <1>2, <1>3, PTL DEF Spec, OnlyHandlersRemain
=============================================================================
