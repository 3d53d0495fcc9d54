------------------------------- MODULE Intake -------------------------------
(***************************************************************************)
(* A client with its input file, the POSIX message queue, and the receiver *)
(* of a server that may be stopped, killed and started again.              *)
(*                                                                         *)
(* The queue outlives a killed server and is unlinked by one that stops;   *)
(* a client goes on using the queue it opened.  `mq` is that queue: nobody *)
(* else posts, so any other queue of the same name stays empty.            *)
(*                                                                         *)
(* Time is relative: left[r] to the end of a delay, age[r] since a request *)
(* was stamped.  The clock may be set back once, by Back seconds.          *)
(***************************************************************************)
EXTENDS Integers, Sequences, FiniteSets

CONSTANTS
  InputFile,    \* the lines: their kind and, for a request, what it says
  MaxThreads,   \* MAX_THREADS of the client (100)
  MaxMessages,  \* mq_maxmsg (10)
  MaxAge,       \* how old a stamp may be (300)
  MaxFuture,    \* how far ahead of the clock a stamp may be (10)
  Back,         \* seconds by which the clock is set back, or 0
  MaxStarts     \* bound: how often a server is started

\* A line is a request, a line to skip (a comment, shorter than 3) or malformed.
LineRecord ==
  [kind : {"request", "skipped", "malformed"}, known : BOOLEAN, ongrid : BOOLEAN,
   delay : Nat]

ASSUME IntakeAssumption ==
  /\ InputFile \in Seq(LineRecord)
  /\ MaxThreads \in Nat \ {0}
  /\ MaxMessages \in Nat \ {0}
  /\ MaxAge \in Nat
  /\ MaxFuture \in Nat
  /\ Back \in Nat
  /\ MaxStarts \in Nat

\* A request is known by the number of its line.
Request == {i \in DOMAIN InputFile : InputFile[i].kind = "request"}

VARIABLES
  clientpc,  \* where the client's main() is
  line,      \* the next line it reads
  sender,    \* where the thread of each request is
  left,      \* seconds left of sleep(delay)
  age,       \* the clock minus the request's timestamp
  setback,   \* the clock has been set back
  mq,        \* the queue the client opened (or would open)
  named,     \* the queue the name refers to: none, that one or a new one
  rpc,       \* where the receiver is; down: there is no server
  serves,    \* the server has opened mq
  stop_flag,
  cur,       \* the receiver's `request`
  memory,    \* the emergencies in the server's list, dispatcher and handlers
  starts,    \* how many servers were started
  verdict,   \* history: what the checks of line 35 found
  logged,    \* history: what the log says of a request
  answered,  \* history: requests the receiver pushed or refused
  closed,    \* history: requests whose emergency a handler brought to its end
  kills      \* history: how many servers died without stopping

clientVars == <<clientpc, line, sender>>
clockVars == <<left, age, setback>>
serverVars == <<rpc, serves, stop_flag, cur, memory, starts, kills>>
resultVars == <<verdict, logged, answered, closed>>
vars == <<clientVars, clockVars, mq, named, serverVars, resultVars>>

Nobody == 0

Init ==
  /\ clientpc = "start"
  /\ line = 1
  /\ sender = [r \in Request |-> "none"]
  /\ left = [r \in Request |-> 0]
  /\ age = [r \in Request |-> 0]
  /\ setback = FALSE
  /\ mq = <<>>
  /\ named = "none"
  /\ rpc = "down"
  /\ serves = FALSE
  /\ stop_flag = FALSE
  /\ cur = Nobody
  /\ memory = {}
  /\ starts = 0
  /\ verdict = [r \in Request |-> "none"]
  /\ logged = [r \in Request |-> "none"]
  /\ answered = {}
  /\ closed = {}
  /\ kills = 0

-----------------------------------------------------------------------------
(* The client's main() *)

Started == {r \in Request : sender[r] # "none"}

\* mq_open without O_CREAT fails if no server has made the queue.
OpenQueue ==
  /\ clientpc = "start"
  /\ clientpc' = IF named = "none" THEN "failed" ELSE "reading"
  /\ UNCHANGED <<line, sender, clockVars, mq, named, serverVars, resultVars>>

\* Faulty variant: the limit is compared with <= .
RoomForOneMore == Cardinality(Started) <= MaxThreads

RoomForThread == Cardinality(Started) < MaxThreads

SkipLine ==
  /\ clientpc = "reading"
  /\ RoomForThread
  /\ line \in DOMAIN InputFile \ Request
  /\ line' = line + 1
  /\ UNCHANGED <<clientpc, sender, clockVars, mq, named, serverVars, resultVars>>

StartThread ==
  /\ clientpc = "reading"
  /\ RoomForThread
  /\ line \in Request
  /\ sender' = [sender EXCEPT ![line] = "sleeping"]
  /\ left' = [left EXCEPT ![line] = InputFile[line].delay]
  /\ line' = line + 1
  /\ UNCHANGED <<clientpc, age, setback, mq, named, serverVars, resultVars>>

StopReading ==
  /\ clientpc = "reading"
  /\ line \notin DOMAIN InputFile \/ ~RoomForThread
  /\ clientpc' = "joining"
  /\ UNCHANGED <<line, sender, clockVars, mq, named, serverVars, resultVars>>

JoinThreads ==
  /\ clientpc = "joining"
  /\ \A r \in Started : sender[r] = "done"
  /\ clientpc' = "ended"
  /\ UNCHANGED <<line, sender, clockVars, mq, named, serverVars, resultVars>>

ClientMain == OpenQueue \/ SkipLine \/ StartThread \/ StopReading \/ JoinThreads

-----------------------------------------------------------------------------
(* send_emergency, one thread per request *)

Stamp(r) ==
  /\ sender[r] = "sleeping"
  /\ left[r] = 0
  /\ sender' = [sender EXCEPT ![r] = "stamped"]
  /\ age' = [age EXCEPT ![r] = 0]
  /\ UNCHANGED <<clientpc, line, left, setback, mq, named, serverVars, resultVars>>

\* Faulty variant: a full queue does not block the sender.
SendAnyway(r) ==
  /\ sender[r] = "stamped"
  /\ mq' = Append(mq, r)
  /\ sender' = [sender EXCEPT ![r] = "done"]
  /\ UNCHANGED <<clientpc, line, clockVars, named, serverVars, resultVars>>

\* mq_send blocks while the queue is full; the order of the senders is free.
Send(r) ==
  /\ sender[r] = "stamped"
  /\ Len(mq) < MaxMessages
  /\ mq' = Append(mq, r)
  /\ sender' = [sender EXCEPT ![r] = "done"]
  /\ UNCHANGED <<clientpc, line, clockVars, named, serverVars, resultVars>>

-----------------------------------------------------------------------------
(* receiver_thread *)

\* validate_timestamp, at the clock of the moment it is called.
validate_timestamp(r) == -MaxFuture <= age[r] /\ age[r] <= MaxAge

\* The first of the three checks that a request fails now.
FirstFault(r) ==
  CASE ~InputFile[r].known -> "name"
    [] InputFile[r].known /\ ~validate_timestamp(r) -> "time"
    [] InputFile[r].known /\ validate_timestamp(r) /\ ~InputFile[r].ongrid -> "place"
    [] OTHER -> "nothing"

CheckStop ==
  /\ rpc = "poll"
  /\ rpc' = IF stop_flag THEN "done" ELSE "receive"
  /\ UNCHANGED <<clientVars, clockVars, mq, named, serves, stop_flag, cur, memory,
                 starts, kills, resultVars>>

\* EAGAIN, and the loop goes round.
ReceiveNothing ==
  /\ rpc = "receive"
  /\ ~serves \/ mq = <<>>
  /\ rpc' = "poll"
  /\ UNCHANGED <<clientVars, clockVars, mq, named, serves, stop_flag, cur, memory,
                 starts, kills, resultVars>>

\* Faulty variant: the message is left in the queue.
PeekMessage ==
  /\ rpc = "receive"
  /\ serves
  /\ mq # <<>>
  /\ cur' = Head(mq)
  /\ rpc' = "check"
  /\ UNCHANGED <<clientVars, clockVars, mq, named, serves, stop_flag, memory, starts,
                 kills, resultVars>>

TakeMessage ==
  /\ rpc = "receive"
  /\ serves
  /\ mq # <<>>
  /\ cur' = Head(mq)
  /\ mq' = Tail(mq)
  /\ rpc' = "check"
  /\ UNCHANGED <<clientVars, clockVars, named, serves, stop_flag, memory, starts, kills,
                 resultVars>>

\* What log_valid_ and log_invalid_emergency_received write of the request.
Log(result) == logged' = [logged EXCEPT ![cur] = result]

\* Faulty variant: a valid request is not logged before it is pushed.
CheckSilently ==
  /\ rpc = "check"
  /\ verdict' = [verdict EXCEPT ![cur] = FirstFault(cur)]
  /\ rpc' = IF FirstFault(cur) = "nothing" THEN "push" ELSE "blame"
  /\ UNCHANGED <<clientVars, clockVars, mq, named, serves, stop_flag, cur, memory,
                 starts, kills, logged, answered, closed>>

\* A valid request is logged, then pushed; any other is looked at again.
Check ==
  /\ rpc = "check"
  /\ verdict' = [verdict EXCEPT ![cur] = FirstFault(cur)]
  /\ IF FirstFault(cur) = "nothing"
     THEN rpc' = "push" /\ Log("valid")
     ELSE rpc' = "blame" /\ UNCHANGED logged
  /\ UNCHANGED <<clientVars, clockVars, mq, named, serves, stop_flag, cur, memory,
                 starts, kills, answered, closed>>

Finish ==
  /\ answered' = answered \cup {cur}
  /\ cur' = Nobody
  /\ rpc' = "poll"
  /\ UNCHANGED <<clientVars, clockVars, mq, named, serves, stop_flag, starts, kills,
                 verdict, closed>>

Push ==
  /\ rpc = "push"
  /\ memory' = memory \cup {cur}
  /\ Finish
  /\ UNCHANGED logged

\* Faulty variant: the branch for the coordinates is missing.
BlameNotPlace ==
  /\ rpc = "blame"
  /\ Log(IF FirstFault(cur) = "place" THEN "nothing" ELSE FirstFault(cur))
  /\ Finish
  /\ UNCHANGED memory

\* Faulty variant: a refused request is checked again for ever.
BlameAgain ==
  /\ rpc = "blame"
  /\ Log(FirstFault(cur))
  /\ rpc' = "check"
  /\ UNCHANGED <<clientVars, clockVars, mq, named, serves, stop_flag, cur, memory,
                 starts, kills, verdict, answered, closed>>

\* The checks are made again, at a later clock, to find the cause to log; if all
\* of them pass this time, nothing is logged.
Blame ==
  /\ rpc = "blame"
  /\ Log(FirstFault(cur))
  /\ Finish
  /\ UNCHANGED memory

Receiver == CheckStop \/ ReceiveNothing \/ TakeMessage \/ Check \/ Push \/ Blame

-----------------------------------------------------------------------------
\* The way of an emergency through list, dispatcher and handler to its end, which
\* modules Dispatch and Handlers tell.  It may take for ever.
Close(r) ==
  /\ rpc # "down"
  /\ r \in memory
  /\ memory' = memory \ {r}
  /\ closed' = closed \cup {r}
  /\ UNCHANGED <<clientVars, clockVars, mq, named, rpc, serves, stop_flag, cur, starts,
                 kills, verdict, logged, answered>>

-----------------------------------------------------------------------------
(* The life of the server process *)

\* Faulty variant: a queue that was left behind is replaced by an empty one.
StartAfresh ==
  /\ rpc = "down"
  /\ starts < MaxStarts
  /\ starts' = starts + 1
  /\ rpc' = "poll"
  /\ named' = "same"
  /\ mq' = <<>>
  /\ serves' = (named' = "same")
  /\ UNCHANGED <<clientVars, clockVars, stop_flag, cur, memory, kills, resultVars>>

\* mq_open with O_CREAT: the queue a killed server left behind, messages and all,
\* or a new one.  A client that has opened the old one does not see the new one.
Start ==
  /\ rpc = "down"
  /\ starts < MaxStarts
  /\ starts' = starts + 1
  /\ rpc' = "poll"
  /\ named' = CASE named # "none" -> named
                [] named = "none" /\ clientpc = "start" -> "same"
                [] OTHER -> "new"
  /\ serves' = (named' = "same")
  /\ UNCHANGED <<clientVars, clockVars, mq, stop_flag, cur, memory, kills, resultVars>>

Sigint ==
  /\ rpc \notin {"down", "done"}
  /\ ~stop_flag
  /\ stop_flag' = TRUE
  /\ UNCHANGED <<clientVars, clockVars, mq, named, rpc, serves, cur, memory, starts,
                 kills, resultVars>>

\* The process ends, and its memory, list and threads with it.
Gone ==
  /\ rpc' = "down"
  /\ serves' = FALSE
  /\ stop_flag' = FALSE
  /\ cur' = Nobody
  /\ memory' = {}

\* Both threads were joined: mq_close, mq_unlink, and main() returns, which ends the
\* detached handlers.
Unlink ==
  /\ rpc = "done"
  /\ named' = "none"
  /\ Gone
  /\ UNCHANGED <<clientVars, clockVars, mq, starts, kills, resultVars>>

\* The process dies at any moment: a second SIGINT finds the default action, and
\* log_event exits when it cannot open the log.  The queue keeps its name.
Kill ==
  /\ rpc # "down"
  /\ Gone
  /\ kills' = kills + 1
  /\ UNCHANGED <<clientVars, clockVars, mq, named, starts, resultVars>>

-----------------------------------------------------------------------------
(* The clock *)

\* Ages beyond this one are alike: too old also after the clock was set back.
OldEnough == MaxAge + Back + 1

Older(n) == IF n < OldEnough THEN n + 1 ELSE n

\* Requests whose stamp may still be looked at; the others do not age.
Underway(r) == sender[r] = "stamped" \/ r = cur \/ \E i \in DOMAIN mq : mq[i] = r
Ageing(r) == InputFile[r].known /\ Underway(r)

Tick ==
  /\ left' = [r \in Request |-> IF left[r] > 0 THEN left[r] - 1 ELSE 0]
  /\ age' = [r \in Request |-> IF Ageing(r) THEN Older(age[r]) ELSE age[r]]
  /\ <<left, age>>' # <<left, age>>
  /\ UNCHANGED <<clientVars, setback, mq, named, serverVars, resultVars>>

SetClockBack ==
  /\ ~setback
  /\ Back > 0
  /\ setback' = TRUE
  /\ age' = [r \in Request |-> IF Ageing(r) THEN age[r] - Back ELSE age[r]]
  /\ UNCHANGED <<clientVars, left, mq, named, serverVars, resultVars>>

-----------------------------------------------------------------------------
Next ==
  \/ ClientMain
  \/ \E r \in Request : Stamp(r) \/ Send(r) \/ Close(r)
  \/ Receiver
  \/ Start \/ Sigint \/ Unlink \/ Kill
  \/ Tick \/ SetClockBack

Spec == Init /\ [][Next]_vars

\* The client's threads and the receiver run, and time passes.  Nothing makes a
\* user start or stop a server, a stopping one get past its dispatcher, or an
\* emergency come to its end.
Fairness ==
  /\ WF_vars(ClientMain)
  /\ \A r \in Request : WF_vars(Stamp(r)) /\ WF_vars(Send(r))
  /\ WF_vars(Receiver)
  /\ WF_vars(Tick)

FairSpec == Spec /\ Fairness
=============================================================================
