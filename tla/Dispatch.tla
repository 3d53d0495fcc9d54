------------------------------ MODULE Dispatch ------------------------------
(***************************************************************************)
(* The front half of the server: the clients' messages in the POSIX queue, *)
(* receiver_thread, the internal priority queue with its mutex and         *)
(* condition variable, dispatcher_thread, the SIGINT handler and main().   *)
(*                                                                         *)
(* Insertion and signal happen under the queue's mutex and are one step.   *)
(* priority_queue_pop is split where the SIGINT handler, which takes no    *)
(* mutex, can come in between.                                             *)
(***************************************************************************)
EXTENDS PriorityQueue, FiniteSets

CONSTANTS
  Message,      \* the requests the clients send
  Valid,        \* those that pass validate_name, _timestamp and _coordinates
  PriorityOf,   \* the priority of the emergency type a message names
  MaxMessages,  \* mq_maxmsg (10)
  Interrupts,   \* TRUE if the user presses Ctrl+C in this run
  CreateFails   \* TRUE if malloc or thrd_create may fail in the dispatcher

ASSUME MessageAssumption ==
  /\ Valid \subseteq Message
  /\ PriorityOf \in [Message -> 0..2]
  /\ MaxMessages \in Nat \ {0}
  /\ Interrupts \in BOOLEAN
  /\ CreateFails \in BOOLEAN

VARIABLES
  unsent,     \* messages no client has sent yet
  mq,         \* the POSIX message queue
  stop_flag,  \* set by the SIGINT handler
  sig,        \* where the SIGINT handler is
  rpc,        \* where the receiver is
  lastId,     \* the receiver's `id`
  received,   \* valid_emergency
  queue,      \* internal_queue
  mutex,      \* internal_queue.mutex: free or held by the dispatcher
  dpc,        \* where the dispatcher is
  popped,     \* the dispatcher's `em`
  mainpc,     \* where main() is
  accepted,   \* history: ids of the emergencies found valid
  handled,    \* history: ids of the emergencies that got a handler thread
  dropped     \* history: ids the dispatcher could not start a handler for

receiverVars == <<rpc, lastId, received, accepted>>
dispatcherVars == <<dpc, mutex, popped, handled, dropped>>
vars == <<unsent, mq, stop_flag, sig, receiverVars, queue, dispatcherVars, mainpc>>

NoEmergency == [id |-> 0, priority |-> 0]

Init ==
  /\ unsent = Message
  /\ mq = <<>>
  /\ stop_flag = FALSE
  /\ sig = "none"
  /\ rpc = "poll"
  /\ lastId = 0
  /\ received = NoEmergency
  /\ queue = <<>>
  /\ mutex = "free"
  /\ dpc = "pop"
  /\ popped = NoEmergency
  /\ mainpc = "join_receiver"
  /\ accepted = {}
  /\ handled = {}
  /\ dropped = {}

-----------------------------------------------------------------------------
(* Clients: mq_send blocks while the message queue is full *)

\* Faulty variant: a full message queue does not block the sender.
SendAnyway(m) ==
  /\ m \in unsent
  /\ mq' = Append(mq, m)
  /\ unsent' = unsent \ {m}
  /\ UNCHANGED <<stop_flag, sig, receiverVars, queue, dispatcherVars, mainpc>>

Send(m) ==
  /\ m \in unsent
  /\ Len(mq) < MaxMessages
  /\ mq' = Append(mq, m)
  /\ unsent' = unsent \ {m}
  /\ UNCHANGED <<stop_flag, sig, receiverVars, queue, dispatcherVars, mainpc>>

-----------------------------------------------------------------------------
(* receiver_thread *)

CheckStop ==
  /\ rpc = "poll"
  /\ rpc' = IF stop_flag THEN "done" ELSE "receive"
  /\ UNCHANGED <<unsent, mq, stop_flag, sig, lastId, received, accepted, queue,
                 dispatcherVars, mainpc>>

\* The queue is opened O_NONBLOCK: EAGAIN, and the loop goes round.
ReceiveNothing ==
  /\ rpc = "receive"
  /\ mq = <<>>
  /\ rpc' = "poll"
  /\ UNCHANGED <<unsent, mq, stop_flag, sig, lastId, received, accepted, queue,
                 dispatcherVars, mainpc>>

\* Every message consumes an id, valid or not.
Receive ==
  /\ rpc = "receive"
  /\ mq # <<>>
  /\ mq' = Tail(mq)
  /\ lastId' = lastId + 1
  /\ IF Head(mq) \in Valid
     THEN /\ received' = [id |-> lastId + 1, priority |-> PriorityOf[Head(mq)]]
          /\ accepted' = accepted \cup {lastId + 1}
          /\ rpc' = "push"
     ELSE /\ UNCHANGED <<received, accepted>>
          /\ rpc' = "poll"
  /\ UNCHANGED <<unsent, stop_flag, sig, queue, dispatcherVars, mainpc>>

\* Faulty variant: nobody is woken.
WakeNobody == dpc' = dpc

WakeDispatcher == dpc' = IF dpc = "waiting" THEN "woken" ELSE dpc

\* priority_queue_push: insert and cnd_signal under the mutex.
Push ==
  /\ rpc = "push"
  /\ mutex = "free"
  /\ queue' = Insert(queue, received)
  /\ WakeDispatcher
  /\ rpc' = "poll"
  /\ UNCHANGED <<unsent, mq, stop_flag, sig, lastId, received, accepted, mutex,
                 popped, handled, dropped, mainpc>>

Receiver == CheckStop \/ ReceiveNothing \/ Receive \/ Push

-----------------------------------------------------------------------------
(* dispatcher_thread and priority_queue_pop *)

\* Taking the mutex, on entry and on return from cnd_wait.
PopLock ==
  /\ dpc \in {"pop", "woken"}
  /\ mutex = "free"
  /\ mutex' = "dispatcher"
  /\ dpc' = "test"
  /\ UNCHANGED <<unsent, mq, stop_flag, sig, receiverVars, queue, popped,
                 handled, dropped, mainpc>>

PopFindsNothing ==
  /\ dpc = "test"
  /\ queue = <<>>
  /\ ~stop_flag
  /\ dpc' = "to_wait"
  /\ UNCHANGED <<unsent, mq, stop_flag, sig, receiverVars, queue, mutex, popped,
                 handled, dropped, mainpc>>

\* cnd_wait releases the mutex and sleeps in one step.
PopWaits ==
  /\ dpc = "to_wait"
  /\ mutex' = "free"
  /\ dpc' = "waiting"
  /\ UNCHANGED <<unsent, mq, stop_flag, sig, receiverVars, queue, popped,
                 handled, dropped, mainpc>>

SpuriousWakeup ==
  /\ dpc = "waiting"
  /\ dpc' = "woken"
  /\ UNCHANGED <<unsent, mq, stop_flag, sig, receiverVars, queue, mutex, popped,
                 handled, dropped, mainpc>>

\* Faulty variant: the queue is abandoned as soon as the flag is set.
PopStopsAtOnce ==
  /\ dpc = "test"
  /\ stop_flag
  /\ mutex' = "free"
  /\ dpc' = "done"
  /\ UNCHANGED <<unsent, mq, stop_flag, sig, receiverVars, queue, popped,
                 handled, dropped, mainpc>>

PopStops ==
  /\ dpc = "test"
  /\ queue = <<>>
  /\ stop_flag
  /\ mutex' = "free"
  /\ dpc' = "done"
  /\ UNCHANGED <<unsent, mq, stop_flag, sig, receiverVars, queue, popped,
                 handled, dropped, mainpc>>

PopTakes ==
  /\ dpc = "test"
  /\ queue # <<>>
  /\ popped' = Head(queue)
  /\ queue' = Tail(queue)
  /\ mutex' = "free"
  /\ dpc' = "start"
  /\ UNCHANGED <<unsent, mq, stop_flag, sig, receiverVars, handled, dropped,
                 mainpc>>

StartHandler ==
  /\ dpc = "start"
  /\ handled' = handled \cup {popped.id}
  /\ dpc' = "pop"
  /\ UNCHANGED <<unsent, mq, stop_flag, sig, receiverVars, queue, mutex, popped,
                 dropped, mainpc>>

StartFails ==
  /\ CreateFails
  /\ dpc = "start"
  /\ dropped' = dropped \cup {popped.id}
  /\ dpc' = "pop"
  /\ UNCHANGED <<unsent, mq, stop_flag, sig, receiverVars, queue, mutex, popped,
                 handled, mainpc>>

Dispatcher ==
  \/ PopLock \/ PopFindsNothing \/ PopWaits \/ PopStops \/ PopTakes
  \/ StartHandler \/ StartFails

-----------------------------------------------------------------------------
(* SIGINT, handled on the stack of the main thread, and main() *)

SigintSetsFlag ==
  /\ Interrupts
  /\ sig = "none"
  /\ mainpc # "exited"
  /\ stop_flag' = TRUE
  /\ sig' = "flag_set"
  /\ UNCHANGED <<unsent, mq, receiverVars, queue, dispatcherVars, mainpc>>

\* cnd_broadcast without the mutex.
SigintBroadcasts ==
  /\ sig = "flag_set"
  /\ sig' = "handled"
  /\ WakeDispatcher
  /\ UNCHANGED <<unsent, mq, stop_flag, receiverVars, queue, mutex, popped,
                 handled, dropped, mainpc>>

JoinReceiver ==
  /\ mainpc = "join_receiver"
  /\ sig # "flag_set"
  /\ rpc = "done"
  /\ mainpc' = "join_dispatcher"
  /\ UNCHANGED <<unsent, mq, stop_flag, sig, receiverVars, queue, dispatcherVars>>

\* Faulty variant: the dispatcher is not waited for.
DetachDispatcher ==
  /\ mainpc = "join_dispatcher"
  /\ sig # "flag_set"
  /\ mainpc' = "cleanup"
  /\ UNCHANGED <<unsent, mq, stop_flag, sig, receiverVars, queue, dispatcherVars>>

JoinDispatcher ==
  /\ mainpc = "join_dispatcher"
  /\ sig # "flag_set"
  /\ dpc = "done"
  /\ mainpc' = "cleanup"
  /\ UNCHANGED <<unsent, mq, stop_flag, sig, receiverVars, queue, dispatcherVars>>

\* Faulty variant: the destruction of the queue waits for it to be drained.
CleanupWhenDrained ==
  /\ mainpc = "cleanup"
  /\ queue = <<>>
  /\ mainpc' = "freed"
  /\ UNCHANGED <<unsent, mq, stop_flag, sig, receiverVars, queue, dispatcherVars>>

\* mq_unlink, priority_queue_destroy (frees the nodes that are left), then the
\* arrays of types and the environment are freed.
Cleanup ==
  /\ mainpc = "cleanup"
  /\ queue' = <<>>
  /\ mainpc' = "freed"
  /\ UNCHANGED <<unsent, mq, stop_flag, sig, receiverVars, dispatcherVars>>

\* cnd_destroy(&empty) and the return from main(), which ends the process.
Exit ==
  /\ mainpc = "freed"
  /\ mainpc' = "exited"
  /\ UNCHANGED <<unsent, mq, stop_flag, sig, receiverVars, queue, dispatcherVars>>

Main == JoinReceiver \/ JoinDispatcher \/ Cleanup \/ Exit

Next ==
  \/ \E m \in Message : Send(m)
  \/ Receiver
  \/ Dispatcher
  \/ SpuriousWakeup
  \/ SigintSetsFlag
  \/ SigintBroadcasts
  \/ Main

Spec == Init /\ [][Next]_vars

\* Every thread that can run eventually runs, the signal handler, once entered,
\* ends, and the C library does not wake cnd_wait for nothing for ever (such a
\* dispatcher could keep the mutex busy).  Clients and Ctrl+C are not forced.
Fairness ==
  /\ <>[][~SpuriousWakeup]_vars
  /\ WF_vars(Receiver)
  /\ WF_vars(Dispatcher)
  /\ WF_vars(SigintBroadcasts)
  /\ WF_vars(Main)

FairSpec == Spec /\ Fairness
=============================================================================
