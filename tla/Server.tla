------------------------------- MODULE Server -------------------------------
(***************************************************************************)
(* The server process as a whole: the threads of module Dispatch and the   *)
(* handlers and twins of module Handlers, which the dispatcher starts and  *)
(* detaches.  An emergency is what one message asks for: the handlers know *)
(* it by that message, the receiver and the dispatcher by the id it got.   *)
(*                                                                         *)
(* main() joins the receiver and the dispatcher but not the handlers: it   *)
(* frees the types they point to, destroys the condition variable they     *)
(* wait for and ends the process under them.                               *)
(***************************************************************************)
EXTENDS Integers, Sequences, FiniteSets

CONSTANTS
  \* those of Dispatch
  Message, Valid, MaxMessages, Interrupts, CreateFails,
  \* those of Handlers
  RescuerType, rescuer_types, emergencies, UIntRange, Limit1, Limit2, Faults

VARIABLES
  \* those of Dispatch
  unsent, mq, stop_flag, sig, rpc, lastId, received, queue, mutex, dpc, popped,
  mainpc, accepted, handled, dropped,
  \* those of Handlers
  occ, status, hpc, idx, reg, lock, todo, slack, manage, dt, tpc, left,
  rescuer_count, crashed, held,
  killed, \* the process died on a use of what main() freed
  taken   \* history: the message that got each id

\* Every message names an emergency type, which gives priority and rescuers.
Emergency == Message
PriorityOf == [m \in Message |-> emergencies[m].priority]

D == INSTANCE Dispatch
H == INSTANCE Handlers

ASSUME PartsAssumption ==
  /\ D!MessageAssumption
  /\ H!ConfigAssumption /\ H!LimitAssumption /\ H!FaultAssumption

dispatchVars ==
  <<unsent, mq, stop_flag, sig, rpc, lastId, received, queue, mutex, dpc, popped,
    mainpc, accepted, handled, dropped>>
handlerVars ==
  <<occ, status, hpc, idx, reg, lock, todo, slack, manage, dt, tpc, left,
    rescuer_count, crashed, held>>
vars == <<dispatchVars, handlerVars, killed, taken>>

Init == D!Init /\ H!Init /\ killed = FALSE /\ taken = <<>>

-----------------------------------------------------------------------------
Alive == ~killed /\ ~crashed /\ mainpc # "exited"

\* The emergency that the receiver built from message m is one of ids.
IsAmong(m, ids) == \E n \in ids : taken[n] = m

\* StartHandler creates the handler's thread.
Created(m) == IsAmong(m, handled)

\* The threads that are between thrd_create and their return.
Working == {m \in Emergency : Created(m) /\ hpc[m] # "done"}

\* cnd_destroy of the C library in use waits until nobody waits any more.
EmptyUnused == \A m \in Emergency : hpc[m] # "waiting"

\* A step of the receiver, the dispatcher, the signal handler or main().
ServerThread(step) ==
  /\ Alive
  /\ step
  /\ mainpc = "freed" /\ mainpc' = "exited" => EmptyUnused
  /\ taken' = IF lastId' = lastId THEN taken ELSE Append(taken, Head(mq))
  /\ UNCHANGED <<handlerVars, killed>>

\* A step of a handler or a twin, or a second that passes.
HandlerThread(step) ==
  /\ Alive
  /\ step
  /\ \A m \in Emergency : hpc'[m] # "queued" => Created(m)
  /\ UNCHANGED <<dispatchVars, killed, taken>>

\* What a handler finds in freed memory is not defined: it may still be what it
\* was (the steps above), or the process dies.
UseAfterFree ==
  /\ Alive
  /\ mainpc = "freed"
  /\ Working # {}
  /\ killed' = TRUE
  /\ UNCHANGED <<dispatchVars, handlerVars, taken>>

Next == ServerThread(D!Next) \/ HandlerThread(H!Next) \/ UseAfterFree

Spec == Init /\ [][Next]_vars

\* The fairness of the two parts, for the whole process.
Fairness ==
  /\ <>[][~(D!SpuriousWakeup /\ dpc' # dpc)]_vars
  /\ WF_vars(ServerThread(D!Receiver))
  /\ WF_vars(ServerThread(D!Dispatcher))
  /\ WF_vars(ServerThread(D!SigintBroadcasts))
  /\ WF_vars(ServerThread(D!Main))
  /\ \A m \in Emergency : WF_vars(HandlerThread(H!HandlerStep(m)))
  /\ \A u \in H!Twin : WF_vars(HandlerThread(H!TwinStep(u)))
  /\ WF_vars(HandlerThread(H!Tick))

FairSpec == Spec /\ Fairness
=============================================================================
