--------------------------- MODULE ShutdownProofs ---------------------------
(***************************************************************************)
(* What Ctrl+C can cost: theorems about the end of module Dispatch, for    *)
(* every set of messages and every interleaving.                           *)
(***************************************************************************)
EXTENDS DispatchProofs

\* main() goes on only when the thread it joins has ended.
JoinsInOrder ==
  /\ mainpc # "join_receiver" => rpc = "done"
  /\ mainpc \in {"cleanup", "freed", "exited"} => dpc = "done"

\* The dispatcher leaves an empty list behind, and only once stop_flag is set.  The
\* receiver may have passed its own test before: it pushes one emergency at most.
AfterDispatcher ==
  dpc = "done" =>
    /\ stop_flag
    /\ Len(queue) = 0 \/ (Len(queue) = 1 /\ rpc \in {"poll", "done"})

\* A handler was created only for an emergency that was accepted, is not in the list
\* any more and was not dropped.
HandledIsTaken ==
  /\ handled \subseteq accepted
  /\ handled \cap QueuedIds = {}
  /\ handled \cap dropped = {}

\* What is on its way when nobody is at work any more is in the list.
KInv ==
  JInv /\ JoinsInOrder /\ AfterDispatcher /\ LosesAtMostOne /\ HandledIsTaken

LEMMA JoinsStep == ASSUME JoinsInOrder, [Next]_vars PROVE JoinsInOrder'
<1>1. CASE Receiver
  BY <1>1 DEF JoinsInOrder, Receiver, CheckStop, ReceiveNothing, Receive, Push, WakeDispatcher
<1>2. CASE Dispatcher \/ SpuriousWakeup
  BY <1>2 DEF JoinsInOrder, Dispatcher, PopLock, PopFindsNothing, PopWaits, PopStops, PopTakes,
              StartHandler, StartFails, SpuriousWakeup, receiverVars
<1>3. CASE SigintSetsFlag \/ SigintBroadcasts
  BY <1>3 DEF JoinsInOrder, SigintSetsFlag, SigintBroadcasts, WakeDispatcher, receiverVars,
              dispatcherVars
<1>4. CASE Main
  BY <1>4 DEF JoinsInOrder, Main, JoinReceiver, JoinDispatcher, Cleanup, Exit, receiverVars,
              dispatcherVars
<1>5. CASE (\E m \in Message : Send(m)) \/ UNCHANGED vars
  BY <1>5 DEF JoinsInOrder, Send, vars, receiverVars, dispatcherVars
<1> QED
  BY <1>1, <1>2, <1>3, <1>4, <1>5 DEF Next

\* Once the dispatcher is gone, only the receiver changes the list: it makes it one
\* longer and then finds the flag.
LEMMA AfterStep ==
  ASSUME JInv, AfterDispatcher, [Next]_vars PROVE AfterDispatcher'
<1>1. CASE CheckStop \/ ReceiveNothing \/ Receive
  BY <1>1 DEF AfterDispatcher, CheckStop, ReceiveNothing, Receive, dispatcherVars
<1>2. CASE Push
  <2>1. queue' = Insert(queue, received) /\ rpc = "push" /\ rpc' = "poll" /\ stop_flag' = stop_flag
    BY <1>2 DEF Push
  <2>2. dpc' = "done" => dpc = "done"
    BY <1>2 DEF Push, WakeDispatcher
  <2>3. Len(Insert(queue, received)) = Len(queue) + 1
    BY <2>1, InsertKeepsDistinct DEF JInv, IInv, TypeOK, Ages, Apart
  <2> QED
    BY <2>1, <2>2, <2>3 DEF AfterDispatcher
<1>3. CASE Dispatcher \/ SpuriousWakeup
  <2>1. CASE PopStops
    <3>1. queue = <<>> /\ stop_flag /\ UNCHANGED <<queue, stop_flag>>
      BY <2>1 DEF PopStops
    <3> QED
      BY <3>1 DEF AfterDispatcher
  <2>2. CASE ~PopStops
    BY <1>3, <2>2 DEF AfterDispatcher, Dispatcher, PopLock, PopFindsNothing, PopWaits, PopTakes,
                      StartHandler, StartFails, SpuriousWakeup
  <2> QED
    BY <2>1, <2>2
<1>4. CASE SigintSetsFlag \/ SigintBroadcasts
  BY <1>4 DEF AfterDispatcher, SigintSetsFlag, SigintBroadcasts, WakeDispatcher, receiverVars,
              dispatcherVars
<1>5. CASE Cleanup
  <2>1. Len(queue') = 0 /\ UNCHANGED <<dpc, stop_flag>>
    BY <1>5 DEF Cleanup, dispatcherVars
  <2> QED
    BY <2>1 DEF AfterDispatcher
<1>6. CASE \/ JoinReceiver \/ JoinDispatcher \/ Exit
           \/ \E m \in Message : Send(m)
           \/ UNCHANGED vars
  BY <1>6 DEF AfterDispatcher, JoinReceiver, JoinDispatcher, Exit, Send, vars, receiverVars,
              dispatcherVars
<1> QED
  BY <1>1, <1>2, <1>3, <1>4, <1>5, <1>6 DEF Next, Receiver, Main

\* A list of at most one node holds at most one emergency.
LEMMA FewQueued ==
  ASSUME IInv, Len(queue) \in {0, 1}
  PROVE  IsFiniteSet(QueuedIds) /\ Cardinality(QueuedIds) <= 1
<1>1. DOMAIN queue = 1..Len(queue)
  BY PlaceTypes
<1>2. QueuedIds = {} \/ QueuedIds = {queue[1].id}
  BY <1>1 DEF QueuedIds
<1>3. CASE QueuedIds = {}
  <2>1. Cardinality({}) = 0 /\ IsFiniteSet({})
    BY FS_EmptySet
  <2> QED
    BY <1>3, <2>1
<1>4. CASE QueuedIds = {queue[1].id}
  <2>1. Cardinality({queue[1].id}) = 1 /\ IsFiniteSet({queue[1].id})
    BY FS_Singleton
  <2> QED
    BY <1>4, <2>1
<1> QED
  BY <1>2, <1>3, <1>4

\* The end of the server: main() alone is left.
LEMMA DestroyedStep ==
  ASSUME KInv, [Next]_vars, QueueDestroyed'
  PROVE  /\ rpc = "done" /\ dpc = "done"
         /\ UNCHANGED <<accepted, handled, dropped>>
<1>1. CASE QueueDestroyed
  BY <1>1 DEF KInv, JoinsInOrder, QueueDestroyed, Next, Receiver, CheckStop,
              ReceiveNothing, Receive, Push, Dispatcher, PopLock, PopFindsNothing, PopWaits,
              PopStops, PopTakes, StartHandler, StartFails, SpuriousWakeup, SigintSetsFlag,
              SigintBroadcasts, Main, JoinReceiver, JoinDispatcher, Cleanup, Exit, Send, vars,
              receiverVars, dispatcherVars
<1>2. CASE ~QueueDestroyed
  <2>1. Cleanup
    BY <1>2
       DEF QueueDestroyed, Next, Receiver, CheckStop, ReceiveNothing, Receive, Push, Dispatcher,
           PopLock, PopFindsNothing, PopWaits, PopStops, PopTakes, StartHandler, StartFails,
           SpuriousWakeup, SigintSetsFlag, SigintBroadcasts, Main, JoinReceiver,
           JoinDispatcher, Exit, Send, vars, receiverVars, dispatcherVars
  <2> QED
    BY <2>1 DEF KInv, JoinsInOrder, Cleanup, receiverVars, dispatcherVars
<1> QED
  BY <1>1, <1>2

LEMMA LossStep == ASSUME KInv, [Next]_vars PROVE LosesAtMostOne'
<1>1. CASE QueueDestroyed /\ QueueDestroyed'
  BY <1>1, DestroyedStep DEF KInv, LosesAtMostOne, Served
<1>2. CASE ~QueueDestroyed /\ QueueDestroyed'
  <2>1. /\ rpc = "done" /\ dpc = "done"
        /\ UNCHANGED <<accepted, handled, dropped>>
    BY <1>2, DestroyedStep
  <2>2. accepted \ Served \subseteq QueuedIds
    BY <1>2, <2>1
       DEF KInv, JInv, Balance, ExactlyOnePlace, Served, InReceiver, InDispatcher
  <2>3. Len(queue) \in {0, 1}
    BY <2>1, PlaceTypes DEF KInv, JInv, AfterDispatcher
  <2>4. IsFiniteSet(QueuedIds) /\ Cardinality(QueuedIds) <= 1
    BY <2>3, FewQueued DEF KInv, JInv
  <2>5. Cardinality(accepted \ Served) <= Cardinality(QueuedIds)
    BY <2>2, <2>4, FS_Subset
  <2>6. Cardinality(accepted \ Served) \in Nat /\ Cardinality(QueuedIds) \in Nat
    BY <2>2, <2>4, FS_Subset, FS_CardinalityType
  <2> QED
    BY <2>1, <2>4, <2>5, <2>6 DEF LosesAtMostOne, Served
<1>3. CASE ~QueueDestroyed'
  BY <1>3 DEF LosesAtMostOne
<1> QED
  BY <1>1, <1>2, <1>3

\* What the dispatcher decides about is neither handled nor dropped yet.
LEMMA DecidedOnce ==
  ASSUME JInv, handled \cap dropped = {}, [Next]_vars
  PROVE  handled' \cap dropped' = {}
<1>1. CASE StartHandler \/ StartFails
  BY <1>1 DEF StartHandler, StartFails, JInv, Apart, InDispatcher
<1>2. CASE ~StartHandler /\ ~StartFails
  <2>1. UNCHANGED <<handled, dropped>>
    BY <1>2 DEF Next, vars, dispatcherVars, Send, Receiver, CheckStop, ReceiveNothing, Receive,
       Push, Dispatcher, PopLock, PopFindsNothing, PopWaits, PopStops, PopTakes,
       SpuriousWakeup, SigintSetsFlag, SigintBroadcasts, Main, JoinReceiver, JoinDispatcher,
       Cleanup, Exit
  <2> QED
    BY <2>1
<1> QED
  BY <1>1, <1>2

LEMMA TakenStep == ASSUME KInv, JInv', [Next]_vars PROVE HandledIsTaken'
<1>1. (handled \cap QueuedIds = {})'
  BY DEF JInv, Apart
<1>2. handled' \cap dropped' = {}
  BY DecidedOnce DEF KInv, HandledIsTaken
<1>3. CASE QueueDestroyed'
  BY <1>1, <1>2, <1>3, DestroyedStep DEF KInv, HandledIsTaken
<1>4. CASE ~QueueDestroyed'
  BY <1>1, <1>2, <1>4 DEF JInv, Balance, ExactlyOnePlace, HandledIsTaken
<1> QED
  BY <1>3, <1>4

LEMMA ShutdownInvariant == Spec => []KInv
<1>1. Init => IInv
  BY InitInv
<1>2. Init => JInv
  BY <1>1, PlacesInit DEF JInv
<1>3. Init => KInv
  BY <1>2 DEF Init, KInv, JoinsInOrder, AfterDispatcher, LosesAtMostOne, QueueDestroyed,
              HandledIsTaken
<1>4. KInv /\ [Next]_vars => KInv'
  BY PlacesInductive, JoinsStep, AfterStep, LossStep, TakenStep DEF KInv
<1> QED
  BY <1>3, <1>4, PTL DEF Spec

\* Stopping the server costs at most one accepted emergency, however many are on
\* their way: the one the receiver pushes after the dispatcher has left.
THEOREM LosesOneAtMost == Spec => []LosesAtMostOne
BY ShutdownInvariant, PTL DEF KInv

\* main() goes past a join only when that thread has returned: the receiver first,
\* then the dispatcher.
THEOREM MainJoins == Spec => []JoinsInOrder
BY ShutdownInvariant, PTL DEF KInv

\* Handlers are created only for emergencies that left the queue and were not
\* dropped, to the very end of the server.
THEOREM HandlersAreTaken == Spec => []HandledIsTaken
BY ShutdownInvariant, PTL DEF KInv
=============================================================================
