------------------------- MODULE DispatchProperties -------------------------
(* What is claimed about the threads of module Dispatch. *)
EXTENDS Dispatch

EmergencyHead == [id : Nat, priority : 0..2]

\* Type invariant: every variable of the receiver, the dispatcher and main has
\* its type, and the message queue keeps to mq_maxmsg.
TypeOK ==
  /\ unsent \subseteq Message
  /\ mq \in Seq(Message)
  /\ Len(mq) <= MaxMessages
  /\ stop_flag \in BOOLEAN
  /\ sig \in {"none", "flag_set", "handled"}
  /\ rpc \in {"poll", "receive", "push", "done"}
  /\ lastId \in Nat
  /\ received \in EmergencyHead
  /\ queue \in Seq(EmergencyHead)
  /\ mutex \in {"free", "dispatcher"}
  /\ dpc \in {"pop", "test", "to_wait", "waiting", "woken", "start", "done"}
  /\ popped \in EmergencyHead
  /\ mainpc \in {"join_receiver", "join_dispatcher", "cleanup", "freed", "exited"}
  /\ accepted \subseteq Nat
  /\ handled \subseteq Nat
  /\ dropped \subseteq Nat

-----------------------------------------------------------------------------
(* Safety *)

Ordered(q) ==
  \A i, j \in DOMAIN q :
    i < j => \/ q[i].priority > q[j].priority
             \/ q[i].priority = q[j].priority /\ q[i].id < q[j].id

\* The list is ordered by falling priority and, within a priority, by arrival.
QueueOrdered == Ordered(queue)

\* The dispatcher never sleeps on a queue that holds an emergency: the check of
\* the head and cnd_wait are under the mutex that every push takes.
NeverSleepsOnWork == queue # <<>> => dpc # "waiting"

QueuedIds == {queue[i].id : i \in DOMAIN queue}
InReceiver == IF rpc = "push" THEN {received.id} ELSE {}
InDispatcher == IF dpc = "start" THEN {popped.id} ELSE {}

QueueDestroyed == mainpc \in {"freed", "exited"}

\* Until the queue is destroyed every accepted emergency is in exactly one place
\* on its way from the receiver to its handler: none is lost, none handled twice.
ExactlyOnePlace ==
  ~QueueDestroyed =>
    /\ accepted = InReceiver \cup QueuedIds \cup InDispatcher \cup handled \cup dropped
    /\ Cardinality(accepted) =
         Cardinality(InReceiver) + Len(queue) + Cardinality(InDispatcher)
           + Cardinality(handled) + Cardinality(dropped)

Served == handled \cup dropped

\* A server that stops loses at most one accepted emergency, the one the receiver
\* had in its hands when the dispatcher left: everything pushed before is served.
LosesAtMostOne == QueueDestroyed => Cardinality(accepted \ Served) <= 1

\* Refinement: the internal queue is the abstract queue that serves the most
\* urgent and then the oldest emergency.
AbstractQueue ==
  INSTANCE UrgentFirst WITH pending <- {queue[i] : i \in DOMAIN queue}
QueueRefinement == AbstractQueue!Spec

-----------------------------------------------------------------------------
(* Liveness and shutdown *)

\* An emergency that is queued while the dispatcher is still in its loop is given
\* to a handler (or its thread cannot be created), also if the server is being
\* stopped.
QueuedIsServed ==
  \A n \in 1..Cardinality(Message) :
    (n \in QueuedIds /\ dpc # "done") ~> n \in Served

\* Every valid message the receiver took is served, unless the server is stopped.
AcceptedIsServed ==
  \A n \in 1..Cardinality(Message) :
    n \in accepted ~> (n \in Served \/ stop_flag)

\* SIGINT ends the dispatcher (server.c:33, the broadcast "sveglia dispatcher
\* bloccati").
StopEndsDispatcher == stop_flag ~> dpc = "done"
=============================================================================
