------------------------- MODULE HandlerProperties -------------------------
(***************************************************************************)
(* What is claimed about the handler and twin threads of module Handlers.  *)
(***************************************************************************)
EXTENDS Handlers

\* Type invariant: every variable of the handler and twin threads has its type.
TypeOK ==
  /\ occ \in [RescuerType -> Int]
  /\ status \in [Emergency -> EmergencyStatus]
  /\ hpc \in [Emergency -> HandlerPc]
  /\ idx \in [Emergency -> Nat]
  /\ \A e \in Emergency : idx[e] \in Requests(e)
  /\ reg \in [Emergency -> Int]
  /\ lock \in [Emergency -> {"free", "handler", "twin"}]
  /\ todo \in [Emergency -> SUBSET Twin]
  /\ slack \in [Emergency -> Nat]
  /\ manage \in [Emergency -> Nat]
  /\ dt \in [Twin -> TwinStatus]
  /\ tpc \in [Twin -> TwinPc]
  /\ left \in [Twin -> Nat]
  /\ rescuer_count \in [Emergency -> Int]
  /\ crashed \in BOOLEAN
  /\ held \subseteq Twin

-----------------------------------------------------------------------------
(* Safety *)

Crew(e) == {u \in TwinsOf(e) : dt[u] \in {"ON_SCENE", "RETURNING_TO_BASE"}}

\* rescuer_count is the number of twins that reached the scene and have not
\* returned to base: the increments of digital_twin_arrives and the decrements
\* of digital_twin_goes_away are never lost, whatever threads run.
CrewCounted == \A e \in Emergency : rescuer_count[e] = Cardinality(Crew(e))

\* An emergency is IN_PROGRESS only while every twin it asked for is ON_SCENE:
\* the handler joined all the arrivals and has not sent anybody home.
ManagedByFullCrew ==
  \A e \in Emergency :
    status[e] = "IN_PROGRESS" => \A u \in TwinsOf(e) : dt[u] = "ON_SCENE"

\* A twin that is away from its base always has a reserved place: no twin leaves
\* before its handler's reservation, none gives its place back before it is home.
AwayIsHeld == \A u \in Twin : dt[u] # "IDLE" => u \in held

\* A handler that waits for `empty` holds nobody: the reservation takes all the
\* requests or none, so handlers cannot wait for each other in a circle.
NoHoldAndWait ==
  \A e \in Emergency :
    hpc[e] \in {"check", "short", "to_wait", "waiting", "woken"} =>
      held \cap TwinsOf(e) = {}

\* When a handler has returned no thread of its twins is running: they use the
\* mutex on its stack and the arguments and descriptors it freed.
NoThreadOutlivesHandler ==
  \A e \in Emergency :
    hpc[e] = "done" => \A u \in TwinsOf(e) : tpc[u] \in {"none", "arrived", "home"}

\* The mutex of an emergency is held exactly while somebody is in a section under it,
\* the handler or one returning twin, never both: it is given back on every way out,
\* and whoever holds it has a step that waits for nobody.
MutexHeld ==
  \A e \in Emergency :
    LET releasing == {u \in TwinsOf(e) : tpc[u] = "releasing"} IN
      /\ lock[e] = "handler" <=>
           hpc[e] \in {"check", "short", "to_wait", "reserve", "reserve_store"}
      /\ lock[e] = "twin" <=> releasing # {}
      /\ \A u, v \in releasing : u = v

\* A twin gets each of its two threads once: the way to the scene starts from its
\* base with a place taken, the way back from the scene, and no thread is created
\* for a twin whose other thread still runs, whatever calls fail.
EachThreadOnce ==
  [][\A u \in Twin :
       /\ tpc'[u] = "created" /\ tpc[u] # "created" => tpc[u] = "none" /\ u \in held
       /\ tpc'[u] = "leaving" /\ tpc[u] # "leaving" => tpc[u] = "arrived"]_vars

\* What the invariants above rest on: the phase of the handler decides where
\* its twins' threads can be, which of their places are reserved and what the
\* status says.  Every thread counts on it: the handler's loops and joins are the
\* only order there is among the threads of an emergency.
Unreserved == {"queued", "admit", "check", "short", "to_wait", "waiting", "woken"}
Reserving == {"reserve", "reserve_store"}

StatusFollowsThread(u) ==
  /\ dt[u] = "IDLE" <=> tpc[u] \in {"none", "created", "home"}
  /\ dt[u] = "EN_ROUTE_TO_SCENE" <=> tpc[u] = "driving"
  /\ dt[u] = "ON_SCENE" <=> tpc[u] \in {"arrived", "leaving"}

ThreadFollowsHandler(u, e) ==
  /\ hpc[e] \in Unreserved => tpc[u] = "none" /\ u \notin held
  /\ hpc[e] \in Reserving => tpc[u] = "none" /\ (u \in held <=> u[2] < idx[e])
  /\ hpc[e] = "spawn" =>
       /\ tpc[u] \in {"none", "created", "driving", "arrived"}
       /\ u \in todo[e] => tpc[u] = "none"
       /\ u \in held
  /\ hpc[e] = "managing" => tpc[u] = "arrived" /\ u \in held
  /\ hpc[e] = "dismiss" =>
       /\ tpc[u] \in {"arrived", "leaving", "returning", "releasing", "home"}
       /\ u \in todo[e] => tpc[u] = "arrived"
       /\ u \in held <=> tpc[u] # "home"
  /\ hpc[e] = "done" =>
       /\ tpc[u] \in {"none", "arrived", "home"}
       /\ tpc[u] = "arrived" => u \in held

StatusFollowsHandler(e) ==
  /\ hpc[e] = "queued" => status[e] = "WAITING"
  /\ hpc[e] \in ((Unreserved \ {"queued"}) \cup Reserving \cup {"spawn"}) =>
       status[e] = "ASSIGNED"
  /\ hpc[e] = "managing" => status[e] = "IN_PROGRESS"
  /\ hpc[e] = "dismiss" => status[e] = "COMPLETED"
  /\ hpc[e] = "done" => status[e] \notin {"WAITING", "IN_PROGRESS"}
  /\ todo[e] \subseteq TwinsOf(e)

InStep ==
  /\ \A u \in Twin : StatusFollowsThread(u) /\ ThreadFollowsHandler(u, u[1])
  /\ \A e \in Emergency : StatusFollowsHandler(e)

\* Refinement: status and the twins on the scene follow the abstract Mission.
AbstractMission ==
  INSTANCE Mission WITH onScene <- {u \in Twin : dt[u] = "ON_SCENE"}
MissionRefinement == AbstractMission!Spec

-----------------------------------------------------------------------------
(* The shared counters *)

HeldOfType(t) == {u \in held : TypeOfTwin(u) = t}

Exact(t) == occ[t] = Cardinality(HeldOfType(t))

\* occ_rescuers is the number of rescuers of its type that are taken.
CounterExact == \A t \in RescuerType : Exact(t)

\* Some thread is about to store what it made of a value of the counter that another
\* thread has changed since.
StaleLoad(t) ==
  \/ \E e \in Emergency :
       hpc[e] = "reserve_store" /\ Rr(e, idx[e]).type = t /\ reg[e] # occ[t]
  \/ \E u \in Twin :
       tpc[u] = "releasing" /\ TypeOfTwin(u) = t /\ reg[u[1]] # occ[t]

\* A counter that is right goes wrong in one way only, with no order imposed on the
\* threads: by a lost update, the store of a handler or a twin whose load is stale
\* (threads.c:231, 132).  No abandoned, failed or early way through the code does it.
WrongOnlyByLostUpdate ==
  [][\A t \in RescuerType : Exact(t) /\ ~Exact(t)' => StaleLoad(t)]_vars

\* No rescuer type is ever used by more twins than it has rescuers.
NoOverAllocation ==
  \A t \in RescuerType :
    HeldOfType(t) = {} \/ Cardinality(HeldOfType(t)) <= rescuer_types[t].quantity

\* Refinement: once a reservation is complete, the places taken follow the
\* abstract ResourcePool, all at once and never beyond the quantity.
Committed == {u \in held : hpc[u[1]] \notin {"reserve", "reserve_store"}}
AbstractPool == INSTANCE ResourcePool WITH busy <- Committed
PoolRefinement == AbstractPool!Spec

\* The places of an emergency that is over are all given back, but for two cases:
\* an arrival thread could not be created and the handler gave up, or the return
\* thread of one twin could not be created, and that one stays on the scene.
Kept(e) == held \cap TwinsOf(e)
KeptOnlyByAbort ==
  \A e \in Emergency :
    hpc[e] = "done" /\ Kept(e) # {} =>
      \/ \E u \in TwinsOf(e) : tpc[u] = "none"
      \/ \E u \in TwinsOf(e) : Kept(e) = {u} /\ tpc[u] = "arrived"

\* Behaviours in which the sections that use occ_rescuers[t] never overlap, as one
\* mutex per rescuer type would ensure that all handlers share: a handler would hold
\* those of its types from its check to the end of its reservation or to its wait.
InSection(e, t) ==
  \/ /\ hpc[e] \in {"check", "short", "to_wait", "reserve", "reserve_store"}
     /\ \E i \in Requests(e) : Rr(e, i).type = t
  \/ \E u \in TwinsOf(e) : tpc[u] = "releasing" /\ TypeOfTwin(u) = t
Serial ==
  \A t \in RescuerType : \A e, f \in Emergency :
    InSection(e, t) /\ InSection(f, t) => e = f

SerialSpec == Init /\ [][Next /\ Serial']_vars

-----------------------------------------------------------------------------
(* Deadlines, priorities, liveness *)

CanFulfill(e) == \A i \in Requests(e) : Available(e, i)

\* Nobody takes rescuers that would satisfy a waiting emergency of higher
\* priority (README.md:7, rescuers are assigned by priority).
PriorityRespected ==
  [][\A e, f \in Emergency :
       /\ hpc[e] = "check" /\ hpc'[e] = "reserve"
       /\ hpc[f] \in {"waiting", "woken"}
       /\ Priority(f) > Priority(e)
       => ~CanFulfill(f)]_vars

\* A place that was taken is given back: the twin drives to the scene, the
\* emergency is managed, the twin returns to base.
CrewComesHome == \A u \in Twin : u \in held ~> u \notin held

\* An emergency whose deadline passes while it waits for rescuers becomes TIMEOUT
\* (README.md:41): it neither waits for ever nor is managed late.
ExpiredIsTimeout ==
  \A e \in Emergency :
    (hpc[e] = "waiting" /\ Expired(e)) ~> status[e] = "TIMEOUT"

\* A handler does not sleep forever on rescuers that are free.
NoMissedWakeup ==
  \A e \in Emergency : []<>~(hpc[e] = "waiting" /\ CanFulfill(e))
=============================================================================
