------------------------------ MODULE Handlers ------------------------------
(***************************************************************************)
(* The threads that work on emergencies: one handle_emergency thread per   *)
(* emergency and, per digital twin, one digital_twin_arrives thread and    *)
(* later one digital_twin_goes_away thread.                                *)
(*                                                                         *)
(* All of them share occ_rescuers (one counter per rescuer type) and the   *)
(* condition variable `empty`; each handler creates its OWN mutex, so the  *)
(* counters are read and written by several handlers at once.  A load and  *)
(* the store that follows it are separate steps, as in the compiled code.  *)
(*                                                                         *)
(* Time is kept as countdowns: slack[e] to the deadline, manage[e] and     *)
(* left[u] to the end of a sleep.  Tick lets one second pass; a thread may *)
(* be late by any number of ticks.                                         *)
(***************************************************************************)
EXTENDS Resources

CONSTANTS
  Limit1,  \* seconds until the deadline of a priority 1 emergency (30)
  Limit2,  \* seconds until the deadline of a priority 2 emergency (10)
  Faults   \* which library calls may fail in this run

ASSUME LimitAssumption == Limit1 \in Nat /\ Limit2 \in Nat
ASSUME FaultAssumption ==
  Faults \subseteq {"malloc", "arrives_create", "goes_away_create"}

VARIABLES
  occ,           \* occ_rescuers of every rescuer type (shared, unprotected)
  status,        \* em->status
  hpc,           \* where the handler of each emergency is
  idx,           \* i of the loops over em->type.rescuers
  reg,           \* the value loaded by the thread that holds the lock
  lock,          \* the handler's own mutex: free, or who holds it
  todo,          \* twins for which the running loop has yet to create a thread
  slack,         \* seconds left until the deadline
  manage,        \* seconds left of sleep(max_managing_time)
  dt,            \* dt->status of every twin
  tpc,           \* where the thread of every twin is
  left,          \* seconds left of sleep(arrival)
  rescuer_count, \* em->rescuer_count
  crashed,       \* the process was killed by a use of freed memory
  held           \* history: the twins whose place is reserved and not given back

poolVars == <<occ, reg, held, crashed>>
handlerVars == <<status, hpc, idx, todo, slack, manage>>
twinVars == <<dt, tpc, left, rescuer_count>>
vars == <<poolVars, lock, handlerVars, twinVars>>

EmergencyStatus ==
  {"WAITING", "ASSIGNED", "IN_PROGRESS", "COMPLETED", "CANCELED", "TIMEOUT"}
HandlerPc ==
  {"queued", "admit", "check", "short", "to_wait", "waiting", "woken",
   "reserve", "reserve_store", "spawn", "managing", "dismiss", "done"}
TwinStatus == {"IDLE", "EN_ROUTE_TO_SCENE", "ON_SCENE", "RETURNING_TO_BASE"}
TwinPc ==
  {"none", "created", "driving", "arrived", "leaving", "returning",
   "releasing", "home"}

Init ==
  /\ occ = [t \in RescuerType |-> 0]
  /\ status = [e \in Emergency |-> "WAITING"]
  /\ hpc = [e \in Emergency |-> "queued"]
  /\ idx = [e \in Emergency |-> 1]
  /\ reg = [e \in Emergency |-> 0]
  /\ lock = [e \in Emergency |-> "free"]
  /\ todo = [e \in Emergency |-> {}]
  /\ slack = [e \in Emergency |-> 0]
  /\ manage = [e \in Emergency |-> 0]
  /\ dt = [u \in Twin |-> "IDLE"]
  /\ tpc = [u \in Twin |-> "none"]
  /\ left = [u \in Twin |-> 0]
  /\ rescuer_count = [e \in Emergency |-> 0]
  /\ crashed = FALSE
  /\ held = {}

-----------------------------------------------------------------------------
(* The handler thread, up to the reservation *)

TimeLimit(e) == IF Priority(e) = 1 THEN Limit1 ELSE Limit2

\* now >= deadline; the deadline of priority 0 is LONG_MAX.
Expired(e) == Priority(e) # 0 /\ slack[e] = 0

\* now + max_arriving_time >= deadline, with the `now` the deadline is built from.
TooFar(e) == Priority(e) # 0 /\ MaxRescuerArrivingTime(e) >= TimeLimit(e)

Impossible(e) ==
  \E i \in Requests(e) :
    rescuer_types[Rr(e, i).type].quantity < Rr(e, i).required_count

\* Faulty variant: the rescuers that are busy are not subtracted.
AvailableIfOwned(e, i) ==
  Rr(e, i).required_count <= rescuer_types[Rr(e, i).type].quantity

\* One iteration of can_fulfill.
Available(e, i) ==
  Rr(e, i).required_count
    <= rescuer_types[Rr(e, i).type].quantity - occ[Rr(e, i).type]

Begin(e) ==
  /\ hpc[e] = "queued"
  /\ hpc' = [hpc EXCEPT ![e] = "admit"]
  /\ status' = [status EXCEPT ![e] = "ASSIGNED"]
  /\ slack' = [slack EXCEPT ![e] = IF Priority(e) = 0 THEN 0 ELSE TimeLimit(e)]
  /\ UNCHANGED <<poolVars, lock, idx, todo, manage, twinVars>>

Quit(e, s) ==
  /\ hpc' = [hpc EXCEPT ![e] = "done"]
  /\ status' = [status EXCEPT ![e] = s]
  /\ UNCHANGED <<poolVars, idx, todo, slack, manage, twinVars>>

HandlerMallocFails(e) ==
  /\ "malloc" \in Faults
  /\ hpc[e] = "admit"
  /\ Quit(e, status[e])
  /\ UNCHANGED lock

CancelImpossible(e) ==
  /\ hpc[e] = "admit"
  /\ Impossible(e)
  /\ Quit(e, "CANCELED")
  /\ UNCHANGED lock

TimeoutTooFar(e) ==
  /\ hpc[e] = "admit"
  /\ ~Impossible(e)
  /\ TooFar(e)
  /\ Quit(e, "TIMEOUT")
  /\ UNCHANGED lock

Admit(e) ==
  /\ hpc[e] = "admit"
  /\ ~Impossible(e)
  /\ ~TooFar(e)
  /\ lock[e] = "free"
  /\ lock' = [lock EXCEPT ![e] = "handler"]
  /\ hpc' = [hpc EXCEPT ![e] = "check"]
  /\ UNCHANGED <<poolVars, status, idx, todo, slack, manage, twinVars>>

\* Faulty variant: the loop runs once too often.
LastRequestLate(e) == idx[e] = RequestCount(e) + 1

\* Faulty variant: the loop stops one request too early.
LastRequestEarly(e) == idx[e] + 1 >= RequestCount(e)

LastRequest(e) == idx[e] = RequestCount(e)

\* The loop over the requests ends in `after` or goes on in `loop`.
NextRequest(e, loop, after) ==
  IF LastRequest(e)
  THEN /\ idx' = [idx EXCEPT ![e] = 1]
       /\ hpc' = [hpc EXCEPT ![e] = after]
  ELSE /\ idx' = [idx EXCEPT ![e] = @ + 1]
       /\ hpc' = [hpc EXCEPT ![e] = loop]

\* Faulty variant: every request that is found satisfiable is taken at once.
CheckRequestAndTake(e) ==
  /\ hpc[e] = "check"
  /\ Available(e, idx[e])
  /\ NextRequest(e, "check", "reserve")
  /\ held' = held \cup TwinsOfRequest(e, idx[e])
  /\ UNCHANGED <<occ, reg, crashed, lock, status, todo, slack, manage, twinVars>>

CheckRequest(e) ==
  /\ hpc[e] = "check"
  /\ Available(e, idx[e])
  /\ NextRequest(e, "check", "reserve")
  /\ UNCHANGED <<poolVars, lock, status, todo, slack, manage, twinVars>>

CheckFails(e) ==
  /\ hpc[e] = "check"
  /\ ~Available(e, idx[e])
  /\ hpc' = [hpc EXCEPT ![e] = "short"]
  /\ UNCHANGED <<poolVars, lock, status, idx, todo, slack, manage, twinVars>>

\* The clock is read after the failed check.
StillInTime(e) ==
  /\ hpc[e] = "short"
  /\ ~Expired(e)
  /\ hpc' = [hpc EXCEPT ![e] = "to_wait"]
  /\ UNCHANGED <<poolVars, lock, status, idx, todo, slack, manage, twinVars>>

\* Faulty variant: the mutex is still held on return.
TimeoutNoRescuersLocked(e) ==
  /\ hpc[e] = "short"
  /\ Expired(e)
  /\ Quit(e, "TIMEOUT")
  /\ UNCHANGED lock

TimeoutNoRescuers(e) ==
  /\ hpc[e] = "short"
  /\ Expired(e)
  /\ lock' = [lock EXCEPT ![e] = "free"]
  /\ Quit(e, "TIMEOUT")

\* cnd_wait(params->empty, &lock): unlock and sleep in one step, without a timeout.
WaitEmpty(e) ==
  /\ hpc[e] = "to_wait"
  /\ lock' = [lock EXCEPT ![e] = "free"]
  /\ hpc' = [hpc EXCEPT ![e] = "waiting"]
  /\ UNCHANGED <<poolVars, status, idx, todo, slack, manage, twinVars>>

\* cnd_wait may return without a signal.
SpuriousWakeup(e) ==
  /\ hpc[e] = "waiting"
  /\ hpc' = [hpc EXCEPT ![e] = "woken"]
  /\ UNCHANGED <<poolVars, lock, status, idx, todo, slack, manage, twinVars>>

Recheck(e) ==
  /\ hpc[e] = "woken"
  /\ lock[e] = "free"
  /\ lock' = [lock EXCEPT ![e] = "handler"]
  /\ hpc' = [hpc EXCEPT ![e] = "check"]
  /\ idx' = [idx EXCEPT ![e] = 1]
  /\ UNCHANGED <<poolVars, status, todo, slack, manage, twinVars>>

\* Faulty variant: the counter of the first request is read for all of them.
ReserveLoadFirst(e) ==
  /\ hpc[e] = "reserve"
  /\ reg' = [reg EXCEPT ![e] = occ[Rr(e, 1).type]]
  /\ hpc' = [hpc EXCEPT ![e] = "reserve_store"]
  /\ UNCHANGED <<occ, lock, crashed, held, status, idx, todo, slack, manage, twinVars>>

ReserveLoad(e) ==
  /\ hpc[e] = "reserve"
  /\ reg' = [reg EXCEPT ![e] = occ[Rr(e, idx[e]).type]]
  /\ hpc' = [hpc EXCEPT ![e] = "reserve_store"]
  /\ UNCHANGED <<occ, lock, crashed, held, status, idx, todo, slack, manage, twinVars>>

\* Faulty variant: one rescuer is counted, however many are required.
ReserveStoreOne(e) ==
  /\ hpc[e] = "reserve_store"
  /\ occ' = [occ EXCEPT ![Rr(e, idx[e]).type] = reg[e] + 1]
  /\ held' = held \cup TwinsOfRequest(e, idx[e])
  /\ NextRequest(e, "reserve", "spawn")
  /\ IF LastRequest(e)
     THEN /\ lock' = [lock EXCEPT ![e] = "free"]
          /\ todo' = [todo EXCEPT ![e] = TwinsOf(e)]
     ELSE UNCHANGED <<lock, todo>>
  /\ UNCHANGED <<reg, crashed, status, slack, manage, twinVars>>

ReserveStore(e) ==
  /\ hpc[e] = "reserve_store"
  /\ occ' = [occ EXCEPT ![Rr(e, idx[e]).type] =
                           reg[e] + Rr(e, idx[e]).required_count]
  /\ held' = held \cup TwinsOfRequest(e, idx[e])
  /\ NextRequest(e, "reserve", "spawn")
  /\ IF LastRequest(e)
     THEN /\ lock' = [lock EXCEPT ![e] = "free"]
          /\ todo' = [todo EXCEPT ![e] = TwinsOf(e)]
     ELSE UNCHANGED <<lock, todo>>
  /\ UNCHANGED <<reg, crashed, status, slack, manage, twinVars>>

-----------------------------------------------------------------------------
(* The handler thread, from the creation of the twins' threads to the end *)

AllCreated(e) == \A u \in TwinsOf(e) : tpc[u] # "none"

\* Faulty variant: the threads are not joined.
NotJoined(e) == TRUE

\* thrd_join returned for every thread created so far.
Joined(e) == \A u \in TwinsOf(e) : tpc[u] \in {"none", "arrived", "home"}

CreateArrives(e) ==
  /\ hpc[e] = "spawn"
  /\ \E u \in FirstOf(todo[e]) :
       /\ todo' = [todo EXCEPT ![e] = @ \ {u}]
       /\ tpc' = [tpc EXCEPT ![u] = "created"]
  /\ UNCHANGED <<poolVars, lock, status, hpc, idx, slack, manage, dt, left,
                 rescuer_count>>

\* thrd_create (or the malloc of its argument) fails: continue with the next twin.
CreateArrivesFails(e) ==
  /\ "arrives_create" \in Faults
  /\ hpc[e] = "spawn"
  /\ \E u \in FirstOf(todo[e]) : todo' = [todo EXCEPT ![e] = @ \ {u}]
  /\ UNCHANGED <<poolVars, lock, status, hpc, idx, slack, manage, twinVars>>

\* All threads were created and joined.  The emergency is managed if every twin
\* is on the scene; either way `todo` is set for the loop that sends them home.
JoinArrivals(e) ==
  /\ hpc[e] = "spawn"
  /\ todo[e] = {}
  /\ AllCreated(e)
  /\ Joined(e)
  /\ LET valid == \A u \in TwinsOf(e) : dt[u] = "ON_SCENE"
     IN  /\ status' = [status EXCEPT ![e] = IF valid THEN "IN_PROGRESS"
                                                     ELSE "CANCELED"]
         /\ hpc' = [hpc EXCEPT ![e] = IF valid THEN "managing" ELSE "dismiss"]
  /\ \E max_managing_time \in ManagingTimes(e) :
       /\ \A n \in ManagingTimes(e) : max_managing_time >= n
       /\ manage' = [manage EXCEPT ![e] = max_managing_time]
  /\ todo' = [todo EXCEPT ![e] = TwinsOf(e)]
  /\ UNCHANGED <<poolVars, lock, idx, slack, twinVars>>

\* Some thread was not created: join the others and give up.  The places taken
\* by the reservation are not given back and no twin is sent home.
AbortSpawn(e) ==
  /\ hpc[e] = "spawn"
  /\ todo[e] = {}
  /\ ~AllCreated(e)
  /\ Joined(e)
  /\ Quit(e, "CANCELED")
  /\ UNCHANGED lock

\* Faulty variant: the status is left as it is.
FinishManagingSilently(e) ==
  /\ hpc[e] = "managing"
  /\ manage[e] = 0
  /\ hpc' = [hpc EXCEPT ![e] = "dismiss"]
  /\ UNCHANGED <<poolVars, lock, status, idx, todo, slack, manage, twinVars>>

FinishManaging(e) ==
  /\ hpc[e] = "managing"
  /\ manage[e] = 0
  /\ hpc' = [hpc EXCEPT ![e] = "dismiss"]
  /\ status' = [status EXCEPT ![e] = "COMPLETED"]
  /\ UNCHANGED <<poolVars, lock, idx, todo, slack, manage, twinVars>>

\* Faulty variant: the loop does not advance.
CreateGoesAwayAgain(e) ==
  /\ hpc[e] = "dismiss"
  /\ \E u \in FirstOf(todo[e]) : tpc' = [tpc EXCEPT ![u] = "leaving"]
  /\ UNCHANGED <<poolVars, lock, status, hpc, idx, todo, slack, manage, dt, left,
                 rescuer_count>>

CreateGoesAway(e) ==
  /\ hpc[e] = "dismiss"
  /\ \E u \in FirstOf(todo[e]) :
       /\ todo' = [todo EXCEPT ![e] = @ \ {u}]
       /\ tpc' = [tpc EXCEPT ![u] = "leaving"]
  /\ UNCHANGED <<poolVars, lock, status, hpc, idx, slack, manage, dt, left,
                 rescuer_count>>

\* The failed twin's argument is freed but the index of the argument array does
\* not advance: the next iteration hands the freed block to its thread (or frees
\* it again), which kills the process.  Only the last twin may fail unpunished.
CreateGoesAwayFails(e) ==
  /\ "goes_away_create" \in Faults
  /\ hpc[e] = "dismiss"
  /\ \E u \in FirstOf(todo[e]) :
       /\ todo' = [todo EXCEPT ![e] = @ \ {u}]
       /\ crashed' = (todo[e] # {u})
  /\ UNCHANGED <<occ, reg, held, lock, status, hpc, idx, slack, manage, twinVars>>

\* Faulty variant: the handler ends before it has sent everybody home.
JoinGoesAwayEarly(e) ==
  /\ hpc[e] = "dismiss"
  /\ Joined(e)
  /\ hpc' = [hpc EXCEPT ![e] = "done"]
  /\ UNCHANGED <<poolVars, lock, status, idx, todo, slack, manage, twinVars>>

JoinGoesAway(e) ==
  /\ hpc[e] = "dismiss"
  /\ todo[e] = {}
  /\ Joined(e)
  /\ hpc' = [hpc EXCEPT ![e] = "done"]
  /\ UNCHANGED <<poolVars, lock, status, idx, todo, slack, manage, twinVars>>

-----------------------------------------------------------------------------
(* The threads of the digital twins; u[1] is the emergency of twin u *)

ArrivalTime(u) == EstimateArrivalTime(TypeOfTwin(u), u[1])

\* Faulty variant: the count is overwritten instead of changed.
CountCrewAnew(e, n) == rescuer_count' = [rescuer_count EXCEPT ![e] = n]

CountCrew(e, n) == rescuer_count' = [rescuer_count EXCEPT ![e] = @ + n]

Depart(u) ==
  /\ tpc[u] = "created"
  /\ lock[u[1]] = "free"
  /\ dt' = [dt EXCEPT ![u] = "EN_ROUTE_TO_SCENE"]
  /\ tpc' = [tpc EXCEPT ![u] = "driving"]
  /\ left' = [left EXCEPT ![u] = SleepSeconds(ArrivalTime(u))]
  /\ UNCHANGED <<poolVars, lock, handlerVars, rescuer_count>>

Arrive(u) ==
  /\ tpc[u] = "driving"
  /\ left[u] = 0
  /\ lock[u[1]] = "free"
  /\ CountCrew(u[1], 1)
  /\ dt' = [dt EXCEPT ![u] = "ON_SCENE"]
  /\ tpc' = [tpc EXCEPT ![u] = "arrived"]
  /\ UNCHANGED <<poolVars, lock, handlerVars, left>>

\* Faulty variant: the mutex is not released.
LeaveLocked(u) ==
  /\ tpc[u] = "leaving"
  /\ lock[u[1]] = "free"
  /\ lock' = [lock EXCEPT ![u[1]] = "twin"]
  /\ dt' = [dt EXCEPT ![u] = "RETURNING_TO_BASE"]
  /\ tpc' = [tpc EXCEPT ![u] = "returning"]
  /\ left' = [left EXCEPT ![u] = SleepSeconds(ArrivalTime(u))]
  /\ UNCHANGED <<poolVars, handlerVars, rescuer_count>>

Leave(u) ==
  /\ tpc[u] = "leaving"
  /\ lock[u[1]] = "free"
  /\ dt' = [dt EXCEPT ![u] = "RETURNING_TO_BASE"]
  /\ tpc' = [tpc EXCEPT ![u] = "returning"]
  /\ left' = [left EXCEPT ![u] = SleepSeconds(ArrivalTime(u))]
  /\ UNCHANGED <<poolVars, lock, handlerVars, rescuer_count>>

ReleaseLoad(u) ==
  /\ tpc[u] = "returning"
  /\ left[u] = 0
  /\ lock[u[1]] = "free"
  /\ lock' = [lock EXCEPT ![u[1]] = "twin"]
  /\ reg' = [reg EXCEPT ![u[1]] = occ[TypeOfTwin(u)]]
  /\ tpc' = [tpc EXCEPT ![u] = "releasing"]
  /\ UNCHANGED <<occ, crashed, held, handlerVars, dt, left, rescuer_count>>

\* cnd_signal(params->empty): wakes one waiting handler, if there is any.
SignalEmpty ==
  \/ \E w \in Emergency :
       /\ hpc[w] = "waiting"
       /\ hpc' = [hpc EXCEPT ![w] = "woken"]
  \/ /\ \A w \in Emergency : hpc[w] # "waiting"
     /\ UNCHANGED hpc

ReleaseStore(u) ==
  /\ tpc[u] = "releasing"
  /\ occ' = [occ EXCEPT ![TypeOfTwin(u)] = reg[u[1]] - 1]
  /\ held' = held \ {u}
  /\ CountCrew(u[1], -1)
  /\ dt' = [dt EXCEPT ![u] = "IDLE"]
  /\ SignalEmpty
  /\ lock' = [lock EXCEPT ![u[1]] = "free"]
  /\ tpc' = [tpc EXCEPT ![u] = "home"]
  /\ UNCHANGED <<reg, crashed, status, idx, todo, slack, manage, left>>

-----------------------------------------------------------------------------
Countdown(n) == IF n > 0 THEN n - 1 ELSE 0

Tick ==
  /\ slack' = [e \in Emergency |-> Countdown(slack[e])]
  /\ manage' = [e \in Emergency |-> Countdown(manage[e])]
  /\ left' = [u \in Twin |-> Countdown(left[u])]
  /\ <<slack, manage, left>>' # <<slack, manage, left>>
  /\ UNCHANGED <<poolVars, lock, status, hpc, idx, todo, dt, tpc, rescuer_count>>

HandlerStep(e) ==
  \/ Begin(e) \/ HandlerMallocFails(e) \/ CancelImpossible(e) \/ TimeoutTooFar(e)
  \/ Admit(e) \/ CheckRequest(e) \/ CheckFails(e) \/ StillInTime(e)
  \/ TimeoutNoRescuers(e) \/ WaitEmpty(e) \/ Recheck(e)
  \/ ReserveLoad(e) \/ ReserveStore(e)
  \/ CreateArrives(e) \/ CreateArrivesFails(e) \/ JoinArrivals(e) \/ AbortSpawn(e)
  \/ FinishManaging(e) \/ CreateGoesAway(e) \/ CreateGoesAwayFails(e)
  \/ JoinGoesAway(e)

TwinStep(u) ==
  Depart(u) \/ Arrive(u) \/ Leave(u) \/ ReleaseLoad(u) \/ ReleaseStore(u)

Next ==
  /\ ~crashed
  /\ \/ \E e \in Emergency : HandlerStep(e) \/ SpuriousWakeup(e)
     \/ \E u \in Twin : TwinStep(u)
     \/ Tick

Spec == Init /\ [][Next]_vars

\* Every thread that can run eventually runs, and time passes.  Nothing forces a
\* spurious wakeup.
Fairness ==
  /\ \A e \in Emergency : WF_vars(~crashed /\ HandlerStep(e))
  /\ \A u \in Twin : WF_vars(~crashed /\ TwinStep(u))
  /\ WF_vars(~crashed /\ Tick)

FairSpec == Spec /\ Fairness
=============================================================================
