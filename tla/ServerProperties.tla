-------------------------- MODULE ServerProperties --------------------------
(* What is claimed about the server process as a whole. *)
EXTENDS Server

Freed == mainpc \in {"freed", "exited"}

\* Once main() has destroyed the queue and freed the types only handlers and twins
\* are left: nobody touches the queue or its mutex, takes a message or starts a handler
\* any more, because main() joins the receiver first and then the dispatcher.
OnlyHandlersRemain ==
  [][Freed => UNCHANGED <<queue, mutex, accepted>> /\ Working' \subseteq Working]_vars

Closed(m) == status[m] \in {"COMPLETED", "CANCELED", "TIMEOUT"}
Waits(m) == hpc[m] = "waiting"

\* From the message queue to the end: an accepted emergency is closed, unless no
\* handler could be started for it, the server is stopped or died, or it goes on
\* waiting for rescuers.
AcceptedIsClosed ==
  \A m \in Emergency :
    \/ IsAmong(m, accepted) ~> Closed(m) \/ IsAmong(m, dropped) \/ stop_flag \/ ~Alive
    \/ []<>Waits(m)

\* Once the dispatcher has left, main() ends the process, unless some handler goes
\* on waiting for rescuers: cnd_destroy then does not return (server.c:98).
CleanupEnds ==
  \/ mainpc = "join_dispatcher" /\ dpc = "done" ~> ~Alive
  \/ \E m \in Emergency : []<>Waits(m)

\* When main() frees the rescuer types no handler is at work (server.c:100,
\* "Arrestato correttamente").
HandlersEndBeforeFree == Freed => Working = {}
=============================================================================
