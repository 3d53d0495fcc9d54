----------------------------- MODULE PoolProofs -----------------------------
(***************************************************************************)
(* Theorems about the rescuers that are taken: which of them are never     *)
(* given back, and what the shared counters say when the sections that use *)
(* them do not overlap.  For every configuration and any set of faults.    *)
(***************************************************************************)
EXTENDS HandlersProofs

-----------------------------------------------------------------------------
(* Places that are never given back *)

\* The loop that sends the crew home starts with all of it.  At most one twin is
\* passed over, and only as the last one: an earlier failure kills the process.
PassedOver(e) == {u \in TwinsOf(e) \ todo[e] : tpc[u] = "arrived"}
OnlyLastPassedOver(e) ==
  /\ hpc[e] = "managing" => todo[e] = TwinsOf(e)
  /\ hpc[e] = "dismiss" =>
       \A u \in PassedOver(e) : todo[e] = {} /\ PassedOver(e) = {u}

KeptInv ==
  /\ ~crashed => \A e \in Emergency : OnlyLastPassedOver(e)
  /\ KeptOnlyByAbort

\* Nothing of an emergency changes that matters here.
LEMMA PassedOverSame ==
  ASSUME NEW e \in Emergency, OnlyLastPassedOver(e),
         hpc'[e] \in {hpc[e]} \cup (HandlerPc \ {"managing", "dismiss"}),
         todo'[e] = todo[e], \A u \in TwinsOf(e) : tpc'[u] = "arrived" => tpc[u] = "arrived"
  PROVE  OnlyLastPassedOver(e)'
<1>1. PassedOver(e)' \subseteq PassedOver(e)
  BY DEF PassedOver
<1> QED
  BY <1>1 DEF OnlyLastPassedOver

LEMMA HandlerPassesOver ==
  ASSUME TypeOK, InStep, NEW e \in Emergency, HandlerStep(e) \/ SpuriousWakeup(e),
         NEW f \in Emergency, OnlyLastPassedOver(f), ~crashed'
  PROVE  OnlyLastPassedOver(f)'
<1>1. CASE f # e
  <2>1. hpc'[f] = hpc[f] /\ todo'[f] = todo[f]
    BY <1>1 DEF TypeOK, HandlerStep, SpuriousWakeup, Quit, NextRequest, handlerVars,
       Begin, HandlerMallocFails, CancelImpossible, TimeoutTooFar, Admit, CheckRequest,
       CheckFails, StillInTime, TimeoutNoRescuers, WaitEmpty, Recheck, ReserveLoad,
       ReserveStore, CreateArrives, CreateArrivesFails, JoinArrivals, AbortSpawn,
       FinishManaging, CreateGoesAway, CreateGoesAwayFails, JoinGoesAway
  <2>2. \A u \in TwinsOf(f) : tpc'[u] = "arrived" => tpc[u] = "arrived"
    BY TwinsOfFacts DEF TypeOK, HandlerStep, SpuriousWakeup, Quit, twinVars,
       Begin, HandlerMallocFails, CancelImpossible, TimeoutTooFar, Admit, CheckRequest,
       CheckFails, StillInTime, TimeoutNoRescuers, WaitEmpty, Recheck, ReserveLoad,
       ReserveStore, CreateArrives, CreateArrivesFails, JoinArrivals, AbortSpawn,
       FinishManaging, CreateGoesAway, CreateGoesAwayFails, JoinGoesAway
  <2> QED
    BY <2>1, <2>2, PassedOverSame
<1>2. CASE f = e /\ (Begin(e) \/ HandlerMallocFails(e) \/ CancelImpossible(e)
                     \/ TimeoutTooFar(e) \/ Admit(e) \/ CheckRequest(e) \/ CheckFails(e)
                     \/ StillInTime(e) \/ TimeoutNoRescuers(e) \/ WaitEmpty(e)
                     \/ SpuriousWakeup(e) \/ Recheck(e) \/ ReserveLoad(e) \/ ReserveStore(e)
                     \/ CreateArrives(e) \/ CreateArrivesFails(e) \/ AbortSpawn(e)
                     \/ JoinGoesAway(e))
  <2>1. hpc'[e] \notin {"managing", "dismiss"}
    BY <1>2 DEF TypeOK, Quit, NextRequest,
       Begin, HandlerMallocFails, CancelImpossible, TimeoutTooFar, Admit, CheckRequest,
       CheckFails, StillInTime, TimeoutNoRescuers, WaitEmpty, SpuriousWakeup, Recheck,
       ReserveLoad, ReserveStore, CreateArrives, CreateArrivesFails, AbortSpawn, JoinGoesAway
  <2> QED
    BY <1>2, <2>1 DEF OnlyLastPassedOver
<1>3. CASE f = e /\ JoinArrivals(e)
  <2>1. todo'[e] = TwinsOf(e)
    BY <1>3 DEF JoinArrivals, TypeOK
  <2>2. PassedOver(e)' = {}
    BY <2>1 DEF PassedOver
  <2> QED
    BY <1>3, <2>1, <2>2 DEF OnlyLastPassedOver
<1>4. CASE f = e /\ FinishManaging(e)
  <2>1. todo'[e] = TwinsOf(e) /\ hpc'[e] = "dismiss"
    BY <1>4 DEF FinishManaging, TypeOK, OnlyLastPassedOver
  <2>2. PassedOver(e)' = {}
    BY <2>1 DEF PassedOver
  <2> QED
    BY <1>4, <2>1, <2>2 DEF OnlyLastPassedOver
<1>5. CASE f = e /\ CreateGoesAway(e)
  <2>1. PICK v \in FirstOf(todo[e]) :
               /\ todo' = [todo EXCEPT ![e] = @ \ {v}]
               /\ tpc' = [tpc EXCEPT ![v] = "leaving"]
    BY <1>5 DEF CreateGoesAway
  <2>2. v \in todo[e] /\ v \in Twin /\ hpc[e] = "dismiss" /\ hpc' = hpc
    BY <1>5, <2>1, FirstOfFacts DEF CreateGoesAway, TypeOK
  <2>3. PassedOver(e) = {}
    BY <1>5, <2>2 DEF OnlyLastPassedOver
  <2>4. PassedOver(e)' = {}
    BY <2>1, <2>2, <2>3 DEF PassedOver, TypeOK
  <2> QED
    BY <1>5, <2>2, <2>4 DEF OnlyLastPassedOver
<1>6. CASE f = e /\ CreateGoesAwayFails(e)
  <2>1. PICK v \in FirstOf(todo[e]) :
               /\ todo' = [todo EXCEPT ![e] = @ \ {v}]
               /\ crashed' = (todo[e] # {v})
    BY <1>6 DEF CreateGoesAwayFails
  <2>2. /\ todo[e] = {v} /\ todo'[e] = {}
        /\ hpc[e] = "dismiss" /\ UNCHANGED <<hpc, tpc>>
    BY <1>6, <2>1 DEF CreateGoesAwayFails, TypeOK, twinVars
  <2>3. PassedOver(e) = {}
    BY <1>6, <2>2 DEF OnlyLastPassedOver
  <2>4. PassedOver(e)' \subseteq {v}
    BY <2>2, <2>3 DEF PassedOver
  <2> QED
    BY <1>6, <2>2, <2>4 DEF OnlyLastPassedOver
<1> QED
  BY <1>1, <1>2, <1>3, <1>4, <1>5, <1>6 DEF HandlerStep

\* A twin's own steps leave todo alone, and only an arrival makes it `arrived`.
LEMMA TwinPassesOver ==
  ASSUME TypeOK, InStep, NEW u \in Twin, TwinStep(u),
         NEW f \in Emergency, OnlyLastPassedOver(f)
  PROVE  OnlyLastPassedOver(f)'
<1>0. u[1] \in Emergency
  BY TwinFacts
<1>1. todo' = todo
  BY DEF TwinStep, Depart, Arrive, Leave, ReleaseLoad, ReleaseStore, handlerVars
<1>2. hpc'[f] \in {hpc[f]} \cup (HandlerPc \ {"managing", "dismiss"})
  BY DEF TwinStep, Depart, Arrive, Leave, ReleaseLoad, ReleaseStore, handlerVars, SignalEmpty,
     TypeOK, HandlerPc
<1>3. CASE hpc[f] \in {"managing", "dismiss"}
  <2>1. ASSUME NEW v \in TwinsOf(f), tpc'[v] = "arrived"
        PROVE  tpc[v] = "arrived"
    <3>1. v \in Twin /\ v[1] = f
      BY TwinsOfFacts
    <3>2. tpc[v] # "driving"
      BY <1>3, <3>1 DEF InStep, ThreadFollowsHandler
    <3> QED
      BY <2>1, <3>1, <3>2
         DEF TwinStep, Depart, Arrive, Leave, ReleaseLoad, ReleaseStore, TypeOK
  <2> QED
    BY <1>1, <1>2, <2>1, PassedOverSame
<1>4. CASE hpc[f] \notin {"managing", "dismiss"}
  BY <1>2, <1>4 DEF OnlyLastPassedOver
<1> QED
  BY <1>3, <1>4

\* Nobody touches the places and the threads of an emergency that is over.
LEMMA OverStaysOver ==
  ASSUME TypeOK, InStep, [Next]_vars, NEW e \in Emergency, hpc[e] = "done"
  PROVE  Kept(e)' = Kept(e) /\ \A u \in TwinsOf(e) : tpc'[u] = tpc[u]
<1>1. ASSUME NEW f \in Emergency, HandlerStep(f)
      PROVE  Kept(e)' = Kept(e) /\ \A u \in TwinsOf(e) : tpc'[u] = tpc[u]
  <2>1. CASE f = e
    BY <1>1, <2>1 DEF HandlerStep, Begin, HandlerMallocFails, CancelImpossible,
       TimeoutTooFar, Admit, CheckRequest, CheckFails, StillInTime, TimeoutNoRescuers,
       WaitEmpty, Recheck, ReserveLoad, ReserveStore, CreateArrives, CreateArrivesFails,
       JoinArrivals, AbortSpawn, FinishManaging, CreateGoesAway, CreateGoesAwayFails,
       JoinGoesAway
  <2>2. CASE f # e
    <3>1. held' = held \/ held' = held \cup TwinsOfRequest(f, idx[f])
      BY <1>1 DEF HandlerStep, Quit, poolVars, Begin, HandlerMallocFails, CancelImpossible,
         TimeoutTooFar, Admit, CheckRequest, CheckFails, StillInTime, TimeoutNoRescuers,
         WaitEmpty, Recheck, ReserveLoad, ReserveStore, CreateArrives, CreateArrivesFails,
         JoinArrivals, AbortSpawn, FinishManaging, CreateGoesAway, CreateGoesAwayFails,
         JoinGoesAway
    <3>2. TwinsOfRequest(f, idx[f]) \subseteq TwinsOf(f)
      BY DEF TypeOK, TwinsOf
    <3>3. TwinsOf(f) \cap TwinsOf(e) = {}
      BY <2>2, TwinsOfFacts
    <3>4. tpc' = tpc \/ \E v \in TwinsOf(f), s \in TwinPc : tpc' = [tpc EXCEPT ![v] = s]
      <4>1. \A v \in FirstOf(todo[f]) : v \in TwinsOf(f)
        BY FirstOfFacts DEF InStep, StatusFollowsHandler
      <4> QED
        BY <1>1, <4>1 DEF HandlerStep, Quit, twinVars, TwinPc, Begin, HandlerMallocFails,
           CancelImpossible, TimeoutTooFar, Admit, CheckRequest, CheckFails, StillInTime,
           TimeoutNoRescuers, WaitEmpty, Recheck, ReserveLoad, ReserveStore, CreateArrives,
           CreateArrivesFails, JoinArrivals, AbortSpawn, FinishManaging, CreateGoesAway,
           CreateGoesAwayFails, JoinGoesAway
    <3> QED
      BY <3>1, <3>2, <3>3, <3>4, TwinsOfFacts DEF Kept, TypeOK
  <2> QED
    BY <2>1, <2>2
<1>2. ASSUME NEW u \in Twin, TwinStep(u)
      PROVE  Kept(e)' = Kept(e) /\ \A v \in TwinsOf(e) : tpc'[v] = tpc[v]
  <2>1. u \notin TwinsOf(e)
    BY <1>2, TwinsOfFacts DEF InStep, ThreadFollowsHandler, TwinStep, Depart, Arrive, Leave,
       ReleaseLoad, ReleaseStore
  <2>2. held' = held \/ held' = held \ {u}
    BY <1>2 DEF TwinStep, Depart, Arrive, Leave, ReleaseLoad, ReleaseStore, poolVars
  <2>3. \E s \in TwinPc : tpc' = [tpc EXCEPT ![u] = s]
    BY <1>2 DEF TwinStep, Depart, Arrive, Leave, ReleaseLoad, ReleaseStore, TwinPc
  <2> QED
    BY <2>1, <2>2, <2>3, TwinsOfFacts DEF Kept, TypeOK
<1>3. CASE Tick \/ UNCHANGED vars \/ \E f \in Emergency : SpuriousWakeup(f)
  BY <1>3 DEF Tick, SpuriousWakeup, vars, poolVars, twinVars, Kept
<1> QED
  BY <1>1, <1>2, <1>3 DEF Next

\* How a handler comes to its end.
LEMMA HandlerEnds ==
  ASSUME TypeOK, InStep, [Next]_vars, NEW e \in Emergency,
         hpc[e] # "done", hpc'[e] = "done"
  PROVE  \/ hpc[e] \in Unreserved /\ UNCHANGED <<held, tpc>>
         \/ AbortSpawn(e)
         \/ JoinGoesAway(e)
<1>1. ASSUME NEW f \in Emergency, HandlerStep(f) \/ SpuriousWakeup(f), f # e PROVE FALSE
  BY <1>1 DEF TypeOK, HandlerStep, SpuriousWakeup, Quit, NextRequest, handlerVars,
     Begin, HandlerMallocFails, CancelImpossible, TimeoutTooFar, Admit, CheckRequest,
     CheckFails, StillInTime, TimeoutNoRescuers, WaitEmpty, Recheck, ReserveLoad,
     ReserveStore, CreateArrives, CreateArrivesFails, JoinArrivals, AbortSpawn,
     FinishManaging, CreateGoesAway, CreateGoesAwayFails, JoinGoesAway
<1>2. CASE HandlerMallocFails(e) \/ CancelImpossible(e) \/ TimeoutTooFar(e)
           \/ TimeoutNoRescuers(e)
  BY <1>2 DEF HandlerMallocFails, CancelImpossible, TimeoutTooFar, TimeoutNoRescuers, Quit,
     Unreserved, poolVars, twinVars
<1>3. CASE Begin(e) \/ Admit(e) \/ CheckRequest(e) \/ CheckFails(e) \/ StillInTime(e)
           \/ WaitEmpty(e) \/ SpuriousWakeup(e) \/ Recheck(e) \/ ReserveLoad(e)
           \/ ReserveStore(e) \/ CreateArrives(e) \/ CreateArrivesFails(e) \/ JoinArrivals(e)
           \/ FinishManaging(e) \/ CreateGoesAway(e) \/ CreateGoesAwayFails(e)
  BY <1>3 DEF TypeOK, NextRequest, Begin, Admit, CheckRequest, CheckFails, StillInTime,
     WaitEmpty, SpuriousWakeup, Recheck, ReserveLoad, ReserveStore, CreateArrives,
     CreateArrivesFails, JoinArrivals, FinishManaging, CreateGoesAway, CreateGoesAwayFails
<1>4. ASSUME NEW u \in Twin, TwinStep(u) PROVE FALSE
  BY <1>4 DEF TypeOK, TwinStep, Depart, Arrive, Leave, ReleaseLoad, ReleaseStore, SignalEmpty,
     handlerVars
<1>5. CASE Tick \/ UNCHANGED vars
  BY <1>5 DEF Tick, vars, handlerVars
<1> QED
  BY <1>1, <1>2, <1>3, <1>4, <1>5 DEF Next, HandlerStep

LEMMA KeptStep ==
  ASSUME TypeOK, InStep, KeptInv, Next
  PROVE  KeptOnlyByAbort'
<1> SUFFICES ASSUME NEW e \in Emergency, hpc'[e] = "done", Kept(e)' # {}
             PROVE  \/ \E u \in TwinsOf(e) : tpc'[u] = "none"
                    \/ \E u \in TwinsOf(e) : Kept(e)' = {u} /\ tpc'[u] = "arrived"
  BY DEF KeptOnlyByAbort
<1>1. CASE hpc[e] = "done"
  BY <1>1, OverStaysOver DEF KeptInv, KeptOnlyByAbort
<1>2. CASE hpc[e] \in Unreserved /\ UNCHANGED <<held, tpc>>
  BY <1>2, TwinsOfFacts DEF InStep, ThreadFollowsHandler, Kept
<1>3. CASE AbortSpawn(e)
  BY <1>3 DEF AbortSpawn, AllCreated, Quit, twinVars
<1>4. CASE JoinGoesAway(e)
  <2>1. hpc[e] = "dismiss" /\ todo[e] = {} /\ UNCHANGED <<held, tpc>>
    BY <1>4 DEF JoinGoesAway, poolVars, twinVars
  <2>2. \A u \in TwinsOf(e) : tpc[u] \in {"none", "arrived", "home"}
    BY <1>4 DEF JoinGoesAway, Joined
  <2>3. \A u \in TwinsOf(e) : u \in held <=> tpc[u] = "arrived"
    BY <2>1, <2>2, TwinsOfFacts DEF InStep, ThreadFollowsHandler
  <2>4. Kept(e) = PassedOver(e)
    BY <2>1, <2>3 DEF Kept, PassedOver
  <2>5. OnlyLastPassedOver(e)
    BY DEF KeptInv, Next
  <2>6. PICK u \in PassedOver(e) : TRUE
    BY <2>1, <2>4 DEF Kept
  <2> QED
    BY <2>1, <2>4, <2>5, <2>6 DEF OnlyLastPassedOver, PassedOver, Kept
<1> QED
  BY <1>1, <1>2, <1>3, <1>4, HandlerEnds

\* The places of an emergency that is over are given back, but for an arrival thread
\* that could not be created (handle_emergency gives up and keeps them all) and for
\* the last return thread (one twin stays on the scene).
THEOREM PlacesComeBack == Spec => []KeptOnlyByAbort
<1>1. Init => KeptInv
  BY DEF Init, KeptInv, OnlyLastPassedOver, KeptOnlyByAbort
<1>2. TypeOK /\ InStep /\ KeptInv /\ [Next]_vars => KeptInv'
  <2> SUFFICES ASSUME TypeOK, InStep, KeptInv, [Next]_vars PROVE KeptInv'
    OBVIOUS
  <2>1. CASE UNCHANGED vars
    BY <2>1 DEF vars, poolVars, handlerVars, twinVars, KeptInv, OnlyLastPassedOver,
       PassedOver, KeptOnlyByAbort, Kept
  <2>2. CASE Next
    <3>1. ASSUME ~crashed', NEW f \in Emergency PROVE OnlyLastPassedOver(f)'
      <4>1. OnlyLastPassedOver(f)
        BY <2>2 DEF KeptInv, Next
      <4>2. Tick => OnlyLastPassedOver(f)'
        BY <4>1 DEF Tick, OnlyLastPassedOver, PassedOver
      <4> QED
        BY <2>2, <3>1, <4>1, <4>2, HandlerPassesOver, TwinPassesOver DEF Next
    <3> QED
      BY <2>2, <3>1, KeptStep DEF KeptInv
  <2> QED
    BY <2>1, <2>2
<1> QED
  BY <1>1, <1>2, TypeCorrect, InStepAlways, PTL DEF Spec, KeptInv

-----------------------------------------------------------------------------
(* The shared counters *)

\* A request has as many twins as rescuers are required.
LEMMA RequestSize ==
  ASSUME NEW e \in Emergency, NEW i \in Requests(e)
  PROVE  /\ IsFiniteSet(TwinsOfRequest(e, i))
         /\ Cardinality(TwinsOfRequest(e, i)) = Rr(e, i).required_count
<1> DEFINE n == Rr(e, i).required_count
           f == [j \in 1..n |-> <<e, i, j>>]
<1>1. n \in Nat
  BY RequestType
<1>2. f \in Bijection(1..n, TwinsOfRequest(e, i))
  <2>1. \A j \in 1..n : f[j] = <<e, i, j>> /\ <<e, i, j>> \in TwinsOfRequest(e, i)
    BY DEF TwinsOfRequest
  <2>2. f \in [1..n -> TwinsOfRequest(e, i)]
    BY <2>1
  <2>3. \A j, k \in 1..n : f[j] = f[k] => j = k
    BY <2>1
  <2>4. \A u \in TwinsOfRequest(e, i) : \E j \in 1..n : f[j] = u
    BY <2>1 DEF TwinsOfRequest
  <2> HIDE DEF f, n
  <2> QED
    BY <2>2, <2>3, <2>4 DEF Bijection, Injection, Surjection, IsInjective
<1>3. ExistsBijection(1..n, TwinsOfRequest(e, i))
  BY <1>2 DEF ExistsBijection
<1>4. IsFiniteSet(1..n) /\ Cardinality(1..n) = n
  BY <1>1, FS_Interval
<1> QED
  BY <1>3, <1>4, FS_Bijection

\* The mutex of an emergency admits one return at a time.
LEMMA ReleasesAlone ==
  ASSUME MutexHeld, NEW u \in Twin, tpc[u] = "releasing"
  PROVE  /\ lock[u[1]] = "twin"
         /\ \A v \in Twin : v[1] = u[1] /\ tpc[v] = "releasing" => v = u
<1>1. u[1] \in Emergency /\ \A v \in Twin : v \in TwinsOf(v[1])
  BY TwinFacts
<1> QED
  BY <1>1, MutexHeldIs DEF MutexOf

\* What a thread has loaded is what the counter still says when it stores.
LoadCurrent ==
  /\ \A e \in Emergency :
       hpc[e] = "reserve_store" => reg[e] = occ[Rr(e, idx[e]).type]
  /\ \A u \in Twin : tpc[u] = "releasing" => reg[u[1]] = occ[TypeOfTwin(u)]

\* CounterExact is inductive only together with what keeps a load valid until its
\* store: no other section on its counter is open, and no other thread of the
\* emergency is in it.
CountInv ==
  Serial /\ IsFiniteSet(held) /\ CounterExact /\ MutexHeld /\ LoadCurrent

\* Only the two stores change a counter or a place.
LEMMA OnlyStoresCount ==
  ASSUME [Next]_vars,
         ~ \E e \in Emergency : ReserveStore(e), ~ \E u \in Twin : ReleaseStore(u)
  PROVE  UNCHANGED <<occ, held>>
<1>1. ASSUME NEW e \in Emergency, HandlerStep(e) \/ SpuriousWakeup(e)
      PROVE  UNCHANGED <<occ, held>>
  BY <1>1 DEF HandlerStep, SpuriousWakeup, Quit, poolVars, Begin, HandlerMallocFails,
     CancelImpossible, TimeoutTooFar, Admit, CheckRequest, CheckFails, StillInTime,
     TimeoutNoRescuers, WaitEmpty, Recheck, ReserveLoad, CreateArrives, CreateArrivesFails,
     JoinArrivals, AbortSpawn, FinishManaging, CreateGoesAway, CreateGoesAwayFails,
     JoinGoesAway
<1>2. ASSUME NEW u \in Twin, TwinStep(u)
      PROVE  UNCHANGED <<occ, held>>
  BY <1>2 DEF TwinStep, Depart, Arrive, Leave, ReleaseLoad, poolVars
<1>3. CASE Tick \/ UNCHANGED vars
  BY <1>3 DEF Tick, vars, poolVars
<1> QED
  BY <1>1, <1>2, <1>3 DEF Next

\* A store counts its request right if nobody has changed the counter since the load.
LEMMA ReserveExact ==
  ASSUME TypeOK, InStep, IsFiniteSet(held), NEW e \in Emergency, ReserveStore(e)
  PROVE  /\ IsFiniteSet(held')
         /\ \A s \in RescuerType : Exact(s) /\ ~StaleLoad(s) => Exact(s)'
<1> DEFINE i == idx[e]
           t == Rr(e, i).type
           n == Rr(e, i).required_count
           T == TwinsOfRequest(e, i)
<1>1. i \in Requests(e) /\ t \in RescuerType /\ n \in Nat
  BY RequestType DEF TypeOK
<1>2. IsFiniteSet(T) /\ Cardinality(T) = n
  BY <1>1, RequestSize
<1>3. held' = held \cup T /\ hpc[e] = "reserve_store" /\ occ' = [occ EXCEPT ![t] = reg[e] + n]
  BY DEF ReserveStore
<1>4. \A u \in T : u \in Twin /\ u[1] = e /\ u[2] = i
  BY <1>1, TwinsOfRequestFacts
<1>5. \A u \in T : u \notin held /\ TypeOfTwin(u) = t
  <2> SUFFICES ASSUME NEW u \in T PROVE u \notin held /\ TypeOfTwin(u) = t
    OBVIOUS
  <2>1. u \in held <=> u[2] < i
    BY <1>3, <1>4 DEF InStep, ThreadFollowsHandler, Reserving
  <2>2. ~(i < i)
    BY DEF TypeOK
  <2> QED
    BY <1>4, <2>1, <2>2 DEF TypeOfTwin
<1>6. IsFiniteSet(held')
  BY <1>2, <1>3, FS_Union
<1>7. ASSUME NEW s \in RescuerType, Exact(s), ~StaleLoad(s)
      PROVE  occ'[s] = Cardinality(HeldOfType(s)')
  <2>1. IsFiniteSet(HeldOfType(s)) /\ occ[s] = Cardinality(HeldOfType(s))
    BY <1>7, FS_Subset DEF Exact, HeldOfType
  <2>2. CASE s = t
    <3>1. HeldOfType(s)' = HeldOfType(s) \cup T
      BY <1>3, <1>5, <2>2 DEF HeldOfType
    <3>2. HeldOfType(s) \cap T = {}
      BY <1>5 DEF HeldOfType
    <3>3. Cardinality(HeldOfType(s) \cup T) = Cardinality(HeldOfType(s)) + n
      <4>1. Cardinality(HeldOfType(s) \cup T)
              = Cardinality(HeldOfType(s)) + Cardinality(T) - Cardinality(HeldOfType(s) \cap T)
        BY <1>2, <2>1, FS_Union
      <4>2. Cardinality(HeldOfType(s) \cap T) = 0 /\ Cardinality(HeldOfType(s)) \in Nat
        BY <2>1, <3>2, FS_EmptySet, FS_CardinalityType
      <4> HIDE DEF T, n
      <4> QED
        BY <1>1, <1>2, <4>1, <4>2
    <3>4. reg[e] = occ[s]
      BY <1>3, <1>7, <2>2 DEF StaleLoad
    <3> QED
      BY <1>1, <1>3, <2>1, <2>2, <3>1, <3>3, <3>4 DEF TypeOK
  <2>3. CASE s # t
    <3>1. HeldOfType(s)' = HeldOfType(s)
      BY <1>3, <1>5, <2>3 DEF HeldOfType
    <3> QED
      BY <1>3, <2>1, <2>3, <3>1 DEF TypeOK
  <2> QED
    BY <2>2, <2>3
<1> QED
  BY <1>6, <1>7 DEF Exact

LEMMA ReleaseExact ==
  ASSUME TypeOK, InStep, IsFiniteSet(held), NEW u \in Twin, ReleaseStore(u)
  PROVE  /\ IsFiniteSet(held') /\ u \in held
         /\ \A s \in RescuerType : Exact(s) /\ ~StaleLoad(s) => Exact(s)'
<1> DEFINE t == TypeOfTwin(u)
<1>1. u[1] \in Emergency /\ t \in RescuerType
  BY TwinFacts
<1>2. /\ held' = held \ {u} /\ tpc[u] = "releasing"
      /\ occ' = [occ EXCEPT ![t] = reg[u[1]] - 1]
  BY DEF ReleaseStore
<1>3. u \in held
  BY <1>1, <1>2 DEF InStep, ThreadFollowsHandler, TypeOK, HandlerPc, Unreserved, Reserving
<1>4. IsFiniteSet(held')
  BY <1>2, FS_RemoveElement
<1>5. ASSUME NEW s \in RescuerType, Exact(s), ~StaleLoad(s)
      PROVE  occ'[s] = Cardinality(HeldOfType(s)')
  <2>1. IsFiniteSet(HeldOfType(s)) /\ occ[s] = Cardinality(HeldOfType(s))
    BY <1>5, FS_Subset DEF Exact, HeldOfType
  <2>2. CASE s = t
    <3>1. HeldOfType(s)' = HeldOfType(s) \ {u} /\ u \in HeldOfType(s)
      BY <1>2, <1>3, <2>2 DEF HeldOfType
    <3>2. Cardinality(HeldOfType(s) \ {u}) = Cardinality(HeldOfType(s)) - 1
      BY <2>1, <3>1, FS_RemoveElement
    <3>3. reg[u[1]] = occ[s]
      BY <1>2, <1>5, <2>2 DEF StaleLoad
    <3> QED
      BY <1>2, <2>1, <2>2, <3>1, <3>2, <3>3 DEF TypeOK
  <2>3. CASE s # t
    <3>1. HeldOfType(s)' = HeldOfType(s)
      BY <1>2, <2>3 DEF HeldOfType
    <3> QED
      BY <1>2, <2>1, <2>3, <3>1 DEF TypeOK
  <2> QED
    BY <2>2, <2>3
<1> QED
  BY <1>3, <1>4, <1>5 DEF Exact

\* An exact counter becomes wrong only if some load of it is out of date.
LEMMA ExactStep ==
  ASSUME TypeOK, InStep, IsFiniteSet(held), [Next]_vars
  PROVE  /\ IsFiniteSet(held')
         /\ \A t \in RescuerType : Exact(t) /\ ~StaleLoad(t) => Exact(t)'
<1>1. CASE UNCHANGED <<occ, held>>
  BY <1>1 DEF Exact, HeldOfType
<1> QED
  BY <1>1, OnlyStoresCount, ReserveExact, ReleaseExact

\* The counters of the code, with no mutex that the handlers share, are wrong only
\* where one thread's store overwrites another's (threads.c:231, 132).
THEOREM OnlyLostUpdatesHurt == Spec => WrongOnlyByLostUpdate
<1>1. Init => IsFiniteSet(held)
  BY FS_EmptySet DEF Init
<1>2. /\ TypeOK /\ InStep /\ IsFiniteSet(held) /\ [Next]_vars => IsFiniteSet(held)'
      /\ TypeOK /\ InStep /\ IsFiniteSet(held) /\ [Next]_vars
           => [\A t \in RescuerType : Exact(t) /\ ~Exact(t)' => StaleLoad(t)]_vars
  BY ExactStep
<1> QED
  BY <1>1, <1>2, TypeCorrect, InStepAlways, PTL DEF Spec, WrongOnlyByLostUpdate

LEMMA ReserveCounts ==
  ASSUME TypeOK, CountInv, NEW e \in Emergency, ReserveStore(e)
  PROVE  occ' = [occ EXCEPT ![Rr(e, idx[e]).type] = @ + Rr(e, idx[e]).required_count]
<1>1. reg[e] = occ[Rr(e, idx[e]).type]
  BY DEF ReserveStore, CountInv, LoadCurrent
<1> QED
  BY <1>1 DEF ReserveStore

LEMMA ReleaseCounts ==
  ASSUME TypeOK, InStep, CountInv, NEW u \in Twin, ReleaseStore(u)
  PROVE  u \in held /\ occ' = [occ EXCEPT ![TypeOfTwin(u)] = @ - 1]
<1>1. reg[u[1]] = occ[TypeOfTwin(u)]
  BY DEF ReleaseStore, CountInv, LoadCurrent
<1> QED
  BY <1>1, ReleaseExact DEF ReleaseStore, CountInv

\* Which counters a thread is in a section on.
LEMMA SectionOf ==
  ASSUME TypeOK
  PROVE  /\ \A e \in Emergency : hpc[e] \in {"check"} \cup Reserving =>
              \A i \in Requests(e) :
                Rr(e, i).type \in RescuerType /\ InSection(e, Rr(e, i).type)
         /\ \A u \in Twin : tpc[u] = "releasing" =>
              /\ u[1] \in Emergency /\ TypeOfTwin(u) \in RescuerType
              /\ InSection(u[1], TypeOfTwin(u))
<1>1. \A e \in Emergency : \A i \in Requests(e) : Rr(e, i).type \in RescuerType
  BY RequestType
<1> QED
  BY <1>1, TwinFacts DEF InSection, Reserving

\* Who is inside a section keeps its counter: nobody else may store.
LEMMA LoadStep ==
  ASSUME TypeOK, InStep, CountInv, [Next]_vars
  PROVE  LoadCurrent'
<1> USE DEF CountInv
<1>1. ASSUME NEW e \in Emergency, HandlerStep(e) \/ SpuriousWakeup(e),
             ~ReserveStore(e), ~ReserveLoad(e)
      PROVE  LoadCurrent'
  <2>1. UNCHANGED <<occ, reg>>
    BY <1>1 DEF HandlerStep, SpuriousWakeup, Quit, poolVars, Begin, HandlerMallocFails,
       CancelImpossible, TimeoutTooFar, Admit, CheckRequest, CheckFails, StillInTime,
       TimeoutNoRescuers, WaitEmpty, Recheck, CreateArrives, CreateArrivesFails, JoinArrivals,
       AbortSpawn, FinishManaging, CreateGoesAway, CreateGoesAwayFails, JoinGoesAway
  <2>2. \A u \in Twin : tpc'[u] = "releasing" => tpc[u] = "releasing"
    BY <1>1 DEF TypeOK, HandlerStep, SpuriousWakeup, Quit, twinVars, Begin,
       HandlerMallocFails, CancelImpossible, TimeoutTooFar, Admit, CheckRequest, CheckFails,
       StillInTime, TimeoutNoRescuers, WaitEmpty, Recheck, CreateArrives, CreateArrivesFails,
       JoinArrivals, AbortSpawn, FinishManaging, CreateGoesAway, CreateGoesAwayFails,
       JoinGoesAway
  <2>3. \A f \in Emergency :
          hpc'[f] = "reserve_store" => hpc[f] = "reserve_store" /\ idx'[f] = idx[f]
    BY <1>1 DEF TypeOK, HandlerStep, SpuriousWakeup, Quit, NextRequest, handlerVars, Begin,
       HandlerMallocFails, CancelImpossible, TimeoutTooFar, Admit, CheckRequest, CheckFails,
       StillInTime, TimeoutNoRescuers, WaitEmpty, Recheck, CreateArrives, CreateArrivesFails,
       JoinArrivals, AbortSpawn, FinishManaging, CreateGoesAway, CreateGoesAwayFails,
       JoinGoesAway
  <2> QED
    BY <2>1, <2>2, <2>3 DEF LoadCurrent
<1>2. ASSUME NEW e \in Emergency, ReserveLoad(e)
      PROVE  LoadCurrent'
  <2>1. /\ reg' = [reg EXCEPT ![e] = occ[Rr(e, idx[e]).type]]
        /\ hpc[e] = "reserve" /\ hpc' = [hpc EXCEPT ![e] = "reserve_store"]
        /\ UNCHANGED <<occ, idx, tpc>>
    BY <1>2 DEF ReserveLoad, twinVars
  <2>2. \A u \in Twin : tpc[u] = "releasing" => u[1] # e
    BY <2>1 DEF InStep, ThreadFollowsHandler, Reserving
  <2> QED
    BY <2>1, <2>2, TwinFacts DEF LoadCurrent, TypeOK
<1>3. ASSUME NEW e \in Emergency, ReserveStore(e)
      PROVE  LoadCurrent'
  <2> DEFINE t == Rr(e, idx[e]).type
  <2>1. /\ hpc[e] = "reserve_store" /\ hpc'[e] # "reserve_store" /\ UNCHANGED <<reg, tpc>>
        /\ \A f \in Emergency : f # e => hpc'[f] = hpc[f] /\ idx'[f] = idx[f]
        /\ \A s \in RescuerType : s # t => occ'[s] = occ[s]
    BY <1>3 DEF ReserveStore, NextRequest, twinVars, TypeOK
  <2>2. t \in RescuerType /\ InSection(e, t)
    BY <2>1, SectionOf DEF TypeOK, Reserving
  <2>3. ASSUME NEW f \in Emergency, hpc'[f] = "reserve_store"
        PROVE  reg'[f] = occ'[Rr(f, idx'[f]).type]
    <3>1. f # e /\ hpc[f] = "reserve_store" /\ idx'[f] = idx[f] /\ idx[f] \in Requests(f)
      BY <2>1, <2>3 DEF TypeOK
    <3>2. Rr(f, idx[f]).type \in RescuerType /\ Rr(f, idx[f]).type # t
      BY <2>2, <3>1, SectionOf DEF Serial, Reserving
    <3> QED
      BY <2>1, <3>1, <3>2 DEF LoadCurrent
  <2>4. ASSUME NEW u \in Twin, tpc'[u] = "releasing"
        PROVE  reg'[u[1]] = occ'[TypeOfTwin(u)]
    <3>1. tpc[u] = "releasing" /\ u[1] # e
      BY <2>1, <2>4 DEF InStep, ThreadFollowsHandler, Reserving
    <3>2. TypeOfTwin(u) \in RescuerType /\ TypeOfTwin(u) # t
      BY <2>2, <3>1, SectionOf DEF Serial
    <3> QED
      BY <2>1, <3>1, <3>2 DEF LoadCurrent
  <2> QED
    BY <2>3, <2>4 DEF LoadCurrent
<1>4. ASSUME NEW u \in Twin, Depart(u) \/ Arrive(u) \/ Leave(u)
      PROVE  LoadCurrent'
  BY <1>4 DEF Depart, Arrive, Leave, poolVars, handlerVars, LoadCurrent, TypeOK
<1>5. ASSUME NEW u \in Twin, ReleaseLoad(u)
      PROVE  LoadCurrent'
  <2>1. /\ reg' = [reg EXCEPT ![u[1]] = occ[TypeOfTwin(u)]]
        /\ tpc[u] = "returning" /\ tpc' = [tpc EXCEPT ![u] = "releasing"]
        /\ lock[u[1]] = "free" /\ UNCHANGED <<occ, idx, hpc>>
    BY <1>5 DEF ReleaseLoad, handlerVars
  <2>2. u[1] \in Emergency /\ hpc[u[1]] # "reserve_store"
    BY <2>1, TwinFacts DEF InStep, ThreadFollowsHandler, Reserving
  <2>3. \A v \in Twin : tpc[v] = "releasing" => v[1] # u[1] /\ v # u
    BY <2>1, ReleasesAlone, TwinFacts
  <2> QED
    BY <2>1, <2>2, <2>3, TwinFacts DEF LoadCurrent, TypeOK
<1>6. ASSUME NEW u \in Twin, ReleaseStore(u)
      PROVE  LoadCurrent'
  <2> DEFINE t == TypeOfTwin(u)
  <2>1. /\ tpc[u] = "releasing" /\ UNCHANGED <<reg, idx>>
        /\ \A v \in Twin : tpc'[v] = "releasing" => v # u /\ tpc[v] = "releasing"
        /\ \A f \in Emergency : hpc'[f] = "reserve_store" => hpc[f] = "reserve_store"
        /\ \A s \in RescuerType : s # t => occ'[s] = occ[s]
    BY <1>6 DEF ReleaseStore, SignalEmpty, TypeOK
  <2>2. u[1] \in Emergency /\ t \in RescuerType /\ InSection(u[1], t)
    BY <2>1, SectionOf
  <2>3. ASSUME NEW f \in Emergency, hpc'[f] = "reserve_store"
        PROVE  reg'[f] = occ'[Rr(f, idx'[f]).type]
    <3>1. f # u[1] /\ hpc[f] = "reserve_store" /\ idx[f] \in Requests(f)
      BY <2>1, <2>3 DEF TypeOK, InStep, ThreadFollowsHandler, Reserving
    <3>2. Rr(f, idx[f]).type \in RescuerType /\ Rr(f, idx[f]).type # t
      BY <2>2, <3>1, SectionOf DEF Serial, Reserving
    <3> QED
      BY <2>1, <3>1, <3>2 DEF LoadCurrent
  <2>4. ASSUME NEW v \in Twin, tpc'[v] = "releasing"
        PROVE  reg'[v[1]] = occ'[TypeOfTwin(v)]
    <3>1. tpc[v] = "releasing" /\ v[1] # u[1]
      BY <2>1, <2>4, ReleasesAlone, TwinFacts
    <3>2. TypeOfTwin(v) \in RescuerType /\ TypeOfTwin(v) # t
      BY <2>2, <3>1, SectionOf DEF Serial
    <3> QED
      BY <2>1, <3>1, <3>2 DEF LoadCurrent
  <2> QED
    BY <2>3, <2>4 DEF LoadCurrent
<1>7. CASE Tick \/ UNCHANGED vars
  BY <1>7 DEF Tick, vars, poolVars, handlerVars, twinVars, LoadCurrent
<1> QED
  BY <1>1, <1>2, <1>3, <1>4, <1>5, <1>6, <1>7 DEF Next, TwinStep

LEMMA CountStep ==
  ASSUME TypeOK, InStep, CountInv, [Next /\ Serial']_vars
  PROVE  CountInv'
<1>1. [Next]_vars
  OBVIOUS
<1>2. Serial'
  BY DEF CountInv, Serial, InSection, vars, handlerVars, twinVars
<1>3. IsFiniteSet(held') /\ CounterExact'
  <2>1. \A t \in RescuerType : Exact(t) /\ ~StaleLoad(t)
    BY DEF CountInv, CounterExact, LoadCurrent, StaleLoad
  <2> QED
    BY <1>1, <2>1, ExactStep DEF CountInv, CounterExact
<1> QED
  BY <1>1, <1>2, <1>3, MutexStep, LoadStep DEF CountInv

LEMMA InitCount == Init => CountInv
<1> SUFFICES ASSUME Init PROVE CountInv
  OBVIOUS
<1>1. \A u \in Twin : tpc[u] # "releasing"
  BY DEF Init
<1>2. Serial /\ MutexHeld /\ LoadCurrent
  BY <1>1, InitMutex, TwinsOfFacts DEF Init, Serial, InSection, LoadCurrent
<1>3. IsFiniteSet(held) /\ CounterExact
  BY FS_EmptySet DEF Init, CounterExact, Exact, HeldOfType
<1> QED
  BY <1>2, <1>3 DEF CountInv

LEMMA SerialInvariant == SerialSpec => [](TypeOK /\ InStep /\ CountInv)
<1>1. SerialSpec => Spec
  BY PTL DEF SerialSpec, Spec
<1> QED
  BY <1>1, TypeCorrect, InStepAlways, InitCount, CountStep, PTL DEF SerialSpec

\* With one mutex per rescuer type, which all handlers share, around the sections on
\* its counter, the counters say how many rescuers are taken, for any number of
\* emergencies and any failures: the missing mutexes are all that makes them wrong.
THEOREM CountersAreExact == SerialSpec => []CounterExact
BY SerialInvariant, PTL DEF CountInv

-----------------------------------------------------------------------------
(* Reservations, when moreover no emergency lists a type twice *)

\* can_fulfill compares every request with all that is available: enough only if
\* no other request of the emergency is for the same type.
DistinctTypes ==
  \A e \in Emergency : \A i, j \in Requests(e) : Rr(e, i).type = Rr(e, j).type => i = j

WithinQuantity(t) == occ[t] <= rescuer_types[t].quantity

\* What the loops over the requests have established: those the check has passed
\* are available; during the reservation those still to come are, and the others
\* have been taken within the quantity.
RoomKept(e) ==
  /\ hpc[e] \in {"queued", "admit"} => idx[e] = 1
  /\ hpc[e] = "check" =>
       \A j \in Requests(e) : j < idx[e] => Available(e, j)
  /\ hpc[e] \in Reserving =>
       \A j \in Requests(e) :
         IF j < idx[e] THEN WithinQuantity(Rr(e, j).type) ELSE Available(e, j)

RoomInv == (\A e \in Emergency : RoomKept(e)) /\ NoOverAllocation

LEMMA QuantityType ==
  ASSUME NEW t \in RescuerType PROVE rescuer_types[t].quantity \in Int
BY ConfigAssumption DEF RescuerTypeRecord

LEMMA NoMoreIsAvailable ==
  ASSUME NEW e \in Emergency, NEW i \in Requests(e), TypeOK
  PROVE  /\ Available(e, i) <=>
              occ[Rr(e, i).type] + Rr(e, i).required_count
                <= rescuer_types[Rr(e, i).type].quantity
         /\ occ[Rr(e, i).type] \in Int
BY RequestType, QuantityType DEF Available, TypeOK

LEMMA RoomHandler ==
  ASSUME TypeOK, InStep, CountInv, RoomInv, DistinctTypes, NEW e \in Emergency,
         HandlerStep(e) \/ SpuriousWakeup(e)
  PROVE  RoomKept(e)'
<1> DEFINE i == idx[e]
<1>0. /\ i \in Requests(e) /\ Requests(e) = 1..RequestCount(e) /\ RequestCount(e) \in Nat
      /\ RoomKept(e)
  BY RequestFacts DEF TypeOK, RoomInv
<1>1. CASE Begin(e)
  BY <1>0, <1>1 DEF Begin, RoomKept, Reserving, TypeOK
<1>2. CASE Admit(e)
  <2>1. hpc'[e] = "check" /\ idx'[e] = 1
    BY <1>0, <1>2 DEF Admit, RoomKept, TypeOK
  <2>2. \A j \in Requests(e) : ~(j < 1)
    BY <1>0
  <2> QED
    BY <2>1, <2>2 DEF RoomKept, Reserving
<1>3. CASE Recheck(e)
  <2>1. hpc'[e] = "check" /\ idx'[e] = 1
    BY <1>3 DEF Recheck, TypeOK
  <2>2. \A j \in Requests(e) : ~(j < 1)
    BY <1>0
  <2> QED
    BY <2>1, <2>2 DEF RoomKept, Reserving
<1>4. CASE CheckRequest(e)
  <2>1. /\ hpc[e] = "check" /\ Available(e, i) /\ NextRequest(e, "check", "reserve")
        /\ UNCHANGED occ
    BY <1>4 DEF CheckRequest, poolVars
  <2>2. \A j \in Requests(e) : j <= i => Available(e, j) /\ Available(e, j)'
    BY <1>0, <2>1 DEF RoomKept, Available
  <2>3. CASE LastRequest(e)
    <3>1. hpc'[e] = "reserve" /\ idx'[e] = 1
      BY <2>1, <2>3 DEF NextRequest, TypeOK
    <3>2. \A j \in Requests(e) : j <= i /\ ~(j < 1)
      BY <1>0, <2>3 DEF LastRequest
    <3> QED
      BY <2>2, <3>1, <3>2 DEF RoomKept
  <2>4. CASE ~LastRequest(e)
    <3>1. hpc'[e] = "check" /\ idx'[e] = i + 1
      BY <2>1, <2>4 DEF NextRequest, TypeOK
    <3>2. \A j \in Requests(e) : j < i + 1 => j <= i
      BY <1>0
    <3> QED
      BY <2>2, <3>1, <3>2 DEF RoomKept, Reserving
  <2> QED
    BY <2>3, <2>4
<1>5. CASE ReserveLoad(e)
  <2>1. hpc[e] = "reserve" /\ hpc'[e] = "reserve_store" /\ UNCHANGED <<idx, occ>>
    BY <1>5 DEF ReserveLoad, TypeOK
  <2> QED
    BY <1>0, <2>1 DEF RoomKept, Reserving, WithinQuantity, Available
<1>6. CASE ReserveStore(e)
  <2>1. /\ occ' = [occ EXCEPT ![Rr(e, i).type] = @ + Rr(e, i).required_count]
        /\ hpc[e] = "reserve_store" /\ NextRequest(e, "reserve", "spawn")
    BY <1>6, ReserveCounts DEF ReserveStore
  <2>2. CASE LastRequest(e)
    BY <2>1, <2>2 DEF NextRequest, TypeOK, RoomKept, Reserving
  <2>3. CASE ~LastRequest(e)
    <3>1. hpc'[e] = "reserve" /\ idx'[e] = i + 1
      BY <2>1, <2>3 DEF NextRequest, TypeOK
    <3>2. ASSUME NEW j \in Requests(e)
          PROVE  IF j < i + 1 THEN WithinQuantity(Rr(e, j).type)' ELSE Available(e, j)'
      <4>1. IF j < i THEN WithinQuantity(Rr(e, j).type) ELSE Available(e, j)
        BY <1>0, <2>1 DEF RoomKept, Reserving
      <4>2. CASE j = i
        <5>1. Available(e, i)
          BY <1>0, <4>1, <4>2
        <5>2. occ'[Rr(e, i).type] = occ[Rr(e, i).type] + Rr(e, i).required_count
          BY <1>0, <2>1, RequestType DEF TypeOK
        <5> QED
          BY <1>0, <4>2, <5>1, <5>2, NoMoreIsAvailable DEF WithinQuantity
      <4>3. CASE j # i
        <5>1. occ'[Rr(e, j).type] = occ[Rr(e, j).type]
          BY <1>0, <2>1, <4>3, RequestType DEF TypeOK, DistinctTypes
        <5>2. j < i + 1 <=> j < i
          BY <1>0, <4>3
        <5> QED
          BY <4>1, <5>1, <5>2 DEF WithinQuantity, Available
      <4> QED
        BY <4>2, <4>3
    <3> QED
      BY <3>1, <3>2 DEF RoomKept, Reserving
  <2> QED
    BY <2>2, <2>3
<1>7. CASE HandlerMallocFails(e) \/ CancelImpossible(e) \/ TimeoutTooFar(e)
           \/ CheckFails(e) \/ StillInTime(e) \/ TimeoutNoRescuers(e) \/ WaitEmpty(e)
           \/ SpuriousWakeup(e) \/ CreateArrives(e) \/ CreateArrivesFails(e)
           \/ JoinArrivals(e) \/ AbortSpawn(e) \/ FinishManaging(e) \/ CreateGoesAway(e)
           \/ CreateGoesAwayFails(e) \/ JoinGoesAway(e)
  <2>1. hpc'[e] \notin {"queued", "admit", "check"} \cup Reserving
    BY <1>7 DEF TypeOK, Quit, HandlerMallocFails, CancelImpossible, TimeoutTooFar,
       CheckFails, StillInTime, TimeoutNoRescuers, WaitEmpty, SpuriousWakeup, CreateArrives,
       CreateArrivesFails, JoinArrivals, AbortSpawn, FinishManaging, CreateGoesAway,
       CreateGoesAwayFails, JoinGoesAway, Reserving
  <2> QED
    BY <2>1 DEF RoomKept
<1> QED
  BY <1>1, <1>2, <1>3, <1>4, <1>5, <1>6, <1>7 DEF HandlerStep

\* The others: a section on a counter that is open is the only one, so
\* none of the counters it is on moves under it.
LEMMA RoomOthers ==
  ASSUME TypeOK, InStep, CountInv, RoomInv, [Next]_vars, NEW f \in Emergency,
         ~(HandlerStep(f) \/ SpuriousWakeup(f))
  PROVE  RoomKept(f)'
<1>0. RoomKept(f)
  BY DEF RoomInv
<1>1. \/ hpc'[f] = hpc[f] /\ idx'[f] = idx[f]
      \/ hpc'[f] \notin {"queued", "admit", "check"} \cup Reserving
  <2>1. ASSUME NEW e \in Emergency, HandlerStep(e) \/ SpuriousWakeup(e)
        PROVE  hpc'[f] = hpc[f] /\ idx'[f] = idx[f]
    <3>1. f # e
      BY <2>1
    <3>2. hpc'[f] = hpc[f]
      BY <2>1, <3>1 DEF TypeOK, HandlerStep, SpuriousWakeup, Quit, NextRequest, Begin,
         HandlerMallocFails, CancelImpossible, TimeoutTooFar, Admit, CheckRequest,
         CheckFails, StillInTime, TimeoutNoRescuers, WaitEmpty, Recheck, ReserveLoad,
         ReserveStore, CreateArrives, CreateArrivesFails, JoinArrivals, AbortSpawn,
         FinishManaging, CreateGoesAway, CreateGoesAwayFails, JoinGoesAway
    <3>3. idx'[f] = idx[f]
      BY <2>1, <3>1 DEF TypeOK, HandlerStep, SpuriousWakeup, Quit, NextRequest, Begin,
         HandlerMallocFails, CancelImpossible, TimeoutTooFar, Admit, CheckRequest,
         CheckFails, StillInTime, TimeoutNoRescuers, WaitEmpty, Recheck, ReserveLoad,
         ReserveStore, CreateArrives, CreateArrivesFails, JoinArrivals, AbortSpawn,
         FinishManaging, CreateGoesAway, CreateGoesAwayFails, JoinGoesAway
    <3> QED
      BY <3>2, <3>3
  <2>2. ASSUME NEW u \in Twin, TwinStep(u)
        PROVE  idx'[f] = idx[f] /\ (hpc'[f] = hpc[f] \/ hpc'[f] = "woken")
    BY <2>2 DEF TwinStep, Depart, Arrive, Leave, ReleaseLoad, ReleaseStore, SignalEmpty,
       handlerVars, TypeOK
  <2>3. Tick \/ UNCHANGED vars => hpc' = hpc /\ idx' = idx
    BY DEF Tick, vars, handlerVars
  <2> QED
    BY <2>1, <2>2, <2>3 DEF Next, Reserving
<1>2. CASE hpc[f] \in {"check"} \cup Reserving
  <2>1. ASSUME NEW j \in Requests(f) PROVE occ'[Rr(f, j).type] = occ[Rr(f, j).type]
    <3> DEFINE t == Rr(f, j).type
    <3>1. t \in RescuerType /\ InSection(f, t)
      BY <1>2, SectionOf
    <3>2. ASSUME NEW e \in Emergency, ReserveStore(e) PROVE occ'[t] = occ[t]
      <4>1. /\ e # f /\ hpc[e] = "reserve_store" /\ idx[e] \in Requests(e)
            /\ occ' = [occ EXCEPT ![Rr(e, idx[e]).type] =
                                    reg[e] + Rr(e, idx[e]).required_count]
        BY <3>2 DEF ReserveStore, HandlerStep, TypeOK
      <4>2. Rr(e, idx[e]).type # t
        BY <3>1, <4>1, SectionOf DEF CountInv, Serial, Reserving
      <4> QED
        BY <3>1, <4>1, <4>2 DEF TypeOK
    <3>3. ASSUME NEW u \in Twin, ReleaseStore(u) PROVE occ'[t] = occ[t]
      <4>1. /\ tpc[u] = "releasing"
            /\ occ' = [occ EXCEPT ![TypeOfTwin(u)] = reg[u[1]] - 1]
        BY <3>3 DEF ReleaseStore
      <4>2. u[1] # f
        BY <1>2, <4>1 DEF InStep, ThreadFollowsHandler, Unreserved, Reserving
      <4>3. TypeOfTwin(u) # t
        BY <3>1, <4>1, <4>2, SectionOf DEF CountInv, Serial
      <4> QED
        BY <3>1, <4>1, <4>3 DEF TypeOK
    <3> QED
      BY <3>2, <3>3, OnlyStoresCount
  <2> QED
    BY <1>0, <1>1, <2>1 DEF RoomKept, WithinQuantity, Available, Reserving
<1>3. CASE hpc[f] \notin {"check"} \cup Reserving
  BY <1>0, <1>1, <1>3 DEF RoomKept, Reserving
<1> QED
  BY <1>2, <1>3

\* A reservation stores within the quantity.
LEMMA WithinStep ==
  ASSUME TypeOK, InStep, CountInv, RoomInv, [Next /\ Serial']_vars
  PROVE  NoOverAllocation'
<1> SUFFICES ASSUME NEW t \in RescuerType
             PROVE  \/ HeldOfType(t)' = {}
                    \/ Cardinality(HeldOfType(t)') <= rescuer_types[t].quantity
  BY DEF NoOverAllocation
<1>0. /\ HeldOfType(t) = {} \/ occ[t] <= rescuer_types[t].quantity
      /\ occ'[t] = Cardinality(HeldOfType(t)')
      /\ occ[t] \in Int /\ rescuer_types[t].quantity \in Int
  BY CountStep, QuantityType DEF RoomInv, NoOverAllocation, CountInv, CounterExact, Exact,
     TypeOK
<1>1. CASE UNCHANGED <<occ, held>>
  BY <1>0, <1>1 DEF HeldOfType
<1>2. ASSUME NEW e \in Emergency, ReserveStore(e)
      PROVE  \/ HeldOfType(t)' = {}
             \/ occ'[t] <= rescuer_types[t].quantity
  <2> DEFINE i == idx[e]
  <2>1. i \in Requests(e) /\ Rr(e, i).type \in RescuerType /\ Rr(e, i).required_count \in Nat
    BY RequestType DEF TypeOK
  <2>2. /\ occ' = [occ EXCEPT ![Rr(e, i).type] = @ + Rr(e, i).required_count]
        /\ held' = held \cup TwinsOfRequest(e, i)
    BY <1>2, ReserveCounts DEF ReserveStore
  <2>3. CASE t = Rr(e, i).type
    <3>1. hpc[e] = "reserve_store" /\ ~(i < i)
      BY <1>2 DEF ReserveStore, TypeOK
    <3>2. Available(e, i)
      BY <2>1, <3>1 DEF RoomInv, RoomKept, Reserving
    <3>3. occ'[t] = occ[t] + Rr(e, i).required_count
      BY <2>1, <2>2, <2>3 DEF TypeOK
    <3> QED
      BY <2>1, <2>3, <3>2, <3>3, NoMoreIsAvailable
  <2>4. CASE t # Rr(e, i).type
    <3>1. HeldOfType(t)' = HeldOfType(t)
      BY <2>1, <2>2, <2>4, TwinsOfRequestFacts DEF HeldOfType, TypeOfTwin
    <3>2. occ'[t] = occ[t]
      BY <2>2, <2>4 DEF TypeOK
    <3> QED
      BY <1>0, <3>1, <3>2
  <2> QED
    BY <2>3, <2>4
<1>3. ASSUME NEW u \in Twin, ReleaseStore(u)
      PROVE  \/ HeldOfType(t)' = {}
             \/ occ'[t] <= rescuer_types[t].quantity
  <2>1. HeldOfType(t)' \subseteq HeldOfType(t)
    BY <1>3 DEF ReleaseStore, HeldOfType
  <2>2. occ'[t] = occ[t] \/ occ'[t] = occ[t] - 1
    BY <1>3, ReleaseCounts DEF TypeOK
  <2> QED
    BY <1>0, <2>1, <2>2
<1> QED
  BY <1>0, <1>1, <1>2, <1>3, OnlyStoresCount

LEMMA RoomStep ==
  ASSUME TypeOK, InStep, CountInv, RoomInv, DistinctTypes, [Next /\ Serial']_vars
  PROVE  RoomInv'
BY RoomHandler, RoomOthers, WithinStep DEF RoomInv

LEMMA RoomInvariant ==
  ASSUME DistinctTypes PROVE SerialSpec => [](TypeOK /\ InStep /\ CountInv /\ RoomInv)
<1>1. Init => RoomInv
  <2> SUFFICES ASSUME Init PROVE RoomInv
    OBVIOUS
  <2>1. \A e \in Emergency : RoomKept(e)
    BY DEF Init, RoomKept, Reserving
  <2>2. NoOverAllocation
    BY DEF Init, NoOverAllocation, HeldOfType
  <2> QED
    BY <2>1, <2>2 DEF RoomInv
<1>2. TypeOK /\ InStep /\ CountInv /\ RoomInv /\ [Next /\ Serial']_vars => RoomInv'
  BY RoomStep
<1> QED
  BY <1>1, <1>2, SerialInvariant, PTL DEF SerialSpec

\* With those mutexes and no type listed twice, no type is used beyond its quantity,
\* although each handler checks and reserves request by request.
THEOREM NoneOverAllocated ==
  ASSUME DistinctTypes PROVE SerialSpec => []NoOverAllocation
BY RoomInvariant, PTL DEF RoomInv

-----------------------------------------------------------------------------
(* Reservations are all or nothing *)

LEMMA SamePool ==
  /\ AbstractPool!Twin = Twin
  /\ \A e : AbstractPool!TwinsOf(e) = TwinsOf(e)
  /\ \A u : AbstractPool!TypeOfTwin(u) = TypeOfTwin(u)
  /\ \A S : AbstractPool!Cardinality(S) = Cardinality(S)
<1>1. \A S : AbstractPool!Cardinality(S) = Cardinality(S)
  BY DEF AbstractPool!Cardinality, Cardinality
<1> QED
  BY <1>1 DEF AbstractPool!Twin, AbstractPool!TwinsOf, AbstractPool!TwinsOfRequest,
     AbstractPool!Requests, AbstractPool!Rr, AbstractPool!TypeOfTwin, Twin, TwinsOf,
     TwinsOfRequest, TypeOfTwin, Requests, Rr

\* No handler enters or leaves its reservation: only the places themselves matter.
LEMMA PoolStutter ==
  ASSUME TypeOK, InStep, UNCHANGED held,
         \A f \in Emergency :
           \/ hpc'[f] \in Reserving <=> hpc[f] \in Reserving
           \/ held \cap TwinsOf(f) = {}
  PROVE  UNCHANGED Committed
<1>1. \A u \in held : hpc'[u[1]] \in Reserving <=> hpc[u[1]] \in Reserving
  BY TwinFacts DEF TypeOK
<1> QED
  BY <1>1 DEF Committed, Reserving

LEMMA ReservePool ==
  ASSUME TypeOK, InStep, CountInv, RoomInv, [Next /\ Serial']_vars, DistinctTypes,
         NEW e \in Emergency, ReserveStore(e)
  PROVE  AbstractPool!Reserve(e) \/ UNCHANGED Committed
<1> DEFINE i == idx[e]
<1>0. /\ i \in Requests(e) /\ Requests(e) = 1..RequestCount(e) /\ RequestCount(e) \in Nat
      /\ hpc[e] = "reserve_store" /\ held' = held \cup TwinsOfRequest(e, i)
      /\ NextRequest(e, "reserve", "spawn")
  BY RequestFacts DEF TypeOK, ReserveStore
<1>1. \A u \in TwinsOf(e) : u \notin Committed /\ u \in Twin /\ u[1] = e
  BY <1>0, TwinsOfFacts DEF Committed
<1>2. ASSUME NEW u \in Twin, u[1] # e
      PROVE  u \in Committed' <=> u \in Committed
  <2>1. u[1] \in Emergency /\ hpc'[u[1]] = hpc[u[1]]
    BY <1>0, <1>2, TwinFacts DEF NextRequest, TypeOK
  <2>2. u \in held' <=> u \in held
    BY <1>0, <1>2, TwinsOfRequestFacts
  <2> QED
    BY <2>1, <2>2 DEF Committed
<1>3. Committed \subseteq Twin /\ Committed' \subseteq Twin
  BY <1>0, TwinsOfRequestFacts DEF Committed, TypeOK
<1>4. CASE ~LastRequest(e)
  <2>1. hpc'[e] = "reserve"
    BY <1>0, <1>4 DEF NextRequest, TypeOK
  <2>2. \A u \in TwinsOf(e) : u \notin Committed'
    BY <1>1, <2>1 DEF Committed
  <2>3. \A u \in Twin : u[1] = e => u \in TwinsOf(e)
    BY TwinFacts
  <2> QED
    BY <1>1, <1>2, <1>3, <2>2, <2>3
<1>5. CASE LastRequest(e)
  <2>1. hpc'[e] = "spawn"
    BY <1>0, <1>5 DEF NextRequest, TypeOK
  <2>2. \A u \in TwinsOf(e) : u \in Committed'
    <3> SUFFICES ASSUME NEW u \in TwinsOf(e) PROVE u \in Committed'
      OBVIOUS
    <3>1. u \in Twin /\ u[1] = e
      BY TwinsOfFacts
    <3>2. InStep'
      BY NextInStep
    <3>3. u \in held'
      BY <2>1, <3>1, <3>2 DEF InStep, ThreadFollowsHandler
    <3> QED
      BY <2>1, <3>1, <3>3 DEF Committed
  <2>3. Committed' = Committed \cup TwinsOf(e)
    <3>1. \A u \in Twin : u[1] = e => u \in TwinsOf(e)
      BY TwinFacts
    <3> QED
      BY <1>1, <1>2, <1>3, <2>2, <3>1
  <2>4. ASSUME NEW u \in TwinsOf(e)
        PROVE  AbstractPool!InUse(TypeOfTwin(u), Committed')
                 <= rescuer_types[TypeOfTwin(u)].quantity
    <3> DEFINE t == TypeOfTwin(u)
               S == {v \in Committed' : TypeOfTwin(v) = t}
    <3>1. u \in Twin /\ t \in RescuerType /\ t = Rr(e, u[2]).type /\ u[2] \in Requests(e)
      BY TwinsOfFacts, TwinFacts DEF TypeOfTwin
    <3>2. S \subseteq HeldOfType(t)' /\ IsFiniteSet(HeldOfType(t)')
      <4>1. IsFiniteSet(held')
        BY CountStep DEF CountInv
      <4>2. HeldOfType(t)' \subseteq held'
        BY DEF HeldOfType
      <4>3. S \subseteq HeldOfType(t)'
        BY DEF HeldOfType, Committed
      <4> QED
        BY <4>1, <4>2, <4>3, FS_Subset
    <3>3. IsFiniteSet(S) /\ Cardinality(S) <= Cardinality(HeldOfType(t)')
      BY <3>2, FS_Subset
    <3>4. Cardinality(S) \in Nat /\ Cardinality(HeldOfType(t)') \in Nat
      BY <3>2, <3>3, FS_CardinalityType
    <3>5. u \in HeldOfType(t)'
      BY <2>2 DEF HeldOfType, Committed
    <3>6. Cardinality(HeldOfType(t)') <= rescuer_types[t].quantity
      BY <3>1, <3>5, WithinStep DEF NoOverAllocation
    <3>7. rescuer_types[t].quantity \in Int
      BY <3>1, QuantityType
    <3>8. AbstractPool!InUse(t, Committed') = Cardinality(S)
      BY SamePool DEF AbstractPool!InUse
    <3> HIDE DEF S, t
    <3> QED
      BY <3>3, <3>4, <3>6, <3>7, <3>8 DEF t
  <2> QED
    BY <1>1, <2>3, <2>4, SamePool DEF AbstractPool!Reserve
<1> QED
  BY <1>4, <1>5

LEMMA PoolStep ==
  ASSUME TypeOK, InStep, CountInv, RoomInv, [Next /\ Serial']_vars, DistinctTypes
  PROVE  [AbstractPool!Next]_Committed
<1>1. ASSUME NEW e \in Emergency, ReserveStore(e)
      PROVE  [AbstractPool!Next]_Committed
  BY <1>1, ReservePool DEF AbstractPool!Next
<1>2. ASSUME NEW u \in Twin, ReleaseStore(u)
      PROVE  [AbstractPool!Next]_Committed
  <2>1. u[1] \in Emergency /\ u \in held /\ hpc[u[1]] \notin Reserving
    BY <1>2, TwinFacts, ReleaseCounts
       DEF ReleaseStore, InStep, ThreadFollowsHandler, Reserving
  <2>2. u \in Committed
    BY <2>1 DEF Committed, Reserving
  <2>3. held' = held \ {u}
    BY <1>2 DEF ReleaseStore
  <2>4. \A f \in Emergency : hpc'[f] \in Reserving <=> hpc[f] \in Reserving
    BY <1>2 DEF ReleaseStore, SignalEmpty, TypeOK, Reserving
  <2>5. \A v \in held : v[1] \in Emergency
    BY TwinFacts DEF TypeOK
  <2>6. Committed' = Committed \ {u}
    BY <2>3, <2>4, <2>5 DEF Committed, Reserving
  <2> QED
    BY <2>2, <2>6, SamePool DEF AbstractPool!Next, AbstractPool!Release
<1>3. CASE /\ ~ \E e \in Emergency : ReserveStore(e)
           /\ ~ \E u \in Twin : ReleaseStore(u)
  <2>1. UNCHANGED held
    BY <1>3, OnlyStoresCount
  <2>2. ASSUME NEW e \in Emergency, HandlerStep(e) \/ SpuriousWakeup(e), NEW f \in Emergency
        PROVE  \/ hpc'[f] \in Reserving <=> hpc[f] \in Reserving
               \/ held \cap TwinsOf(f) = {}
    <3>1. CASE CheckRequest(e) /\ f = e
      BY <3>1, TwinsOfFacts DEF CheckRequest, InStep, ThreadFollowsHandler, Unreserved
    <3>2. CASE CheckRequest(e) /\ f # e
      BY <3>2 DEF CheckRequest, NextRequest, TypeOK
    <3>3. CASE ~CheckRequest(e)
      BY <1>3, <2>2, <3>3 DEF TypeOK, HandlerStep, SpuriousWakeup, Quit, Begin,
         HandlerMallocFails, CancelImpossible, TimeoutTooFar, Admit, CheckFails, StillInTime,
         TimeoutNoRescuers, WaitEmpty, Recheck, ReserveLoad, CreateArrives,
         CreateArrivesFails, JoinArrivals, AbortSpawn, FinishManaging, CreateGoesAway,
         CreateGoesAwayFails, JoinGoesAway, Reserving
    <3> QED
      BY <3>1, <3>2, <3>3
  <2>3. ASSUME NEW u \in Twin, TwinStep(u) PROVE hpc' = hpc
    BY <1>3, <2>3 DEF TwinStep, Depart, Arrive, Leave, ReleaseLoad, handlerVars
  <2>4. Tick \/ UNCHANGED vars => hpc' = hpc
    BY DEF Tick, vars, handlerVars
  <2> QED
    BY <2>1, <2>2, <2>3, <2>4, PoolStutter DEF Next
<1> QED
  BY <1>1, <1>2, <1>3

\* With those mutexes and no type listed twice, the loops of handle_emergency reserve as
\* the abstract pool does: all rescuers at once and only if all of them are free.
THEOREM ImplementsPool ==
  ASSUME DistinctTypes PROVE SerialSpec => PoolRefinement
<1>1. Init => AbstractPool!Init
  BY DEF Init, AbstractPool!Init, Committed
<1>2. TypeOK /\ InStep /\ CountInv /\ RoomInv /\ [Next /\ Serial']_vars
        => [AbstractPool!Next]_Committed
  BY PoolStep
<1> QED
  BY <1>1, <1>2, RoomInvariant, PTL DEF SerialSpec, PoolRefinement, AbstractPool!Spec
=============================================================================
