--------------------------- MODULE DispatchProofs ---------------------------
(***************************************************************************)
(* Theorems about the receiver, the internal queue and the dispatcher, for *)
(* every set of messages and every size of the message queue.              *)
(***************************************************************************)
EXTENDS DispatchProperties, TLAPS, SequenceTheorems, FiniteSetTheorems,
        WellFoundedInduction

-----------------------------------------------------------------------------
(* The insertion into the list *)

\* The least of a non-empty set of naturals is in the set.
LEMMA MinOfNats ==
  ASSUME NEW S, S \subseteq Nat, S # {}
  PROVE  /\ Min(S) \in S
         /\ \A y \in S : Min(S) <= y
<1>1. PICK x \in S : \A y \in S : ~ (<<y, x>> \in OpToRel(<, Nat))
  BY WFMin, NatLessThanWellFounded
<1>2. \A y \in S : ~ (y < x)
  BY <1>1 DEF OpToRel
<1>3. \A y \in S : x <= y
  BY <1>2
<1> QED
  BY <1>3 DEF Min

\* The list with the item linked behind node k.
InsertBehind(q, item, k) ==
  SubSeq(q, 1, k) \o <<item>> \o SubSeq(q, k + 1, Len(q))

\* Insertion puts the item behind node k (k = 0: at the head), everything up to k
\* is at least as urgent and node k + 1 is less urgent.
LEMMA InsertPosition ==
  ASSUME NEW q \in Seq(EmergencyHead), NEW item \in EmergencyHead
  PROVE  \E k \in 0..Len(q) :
           /\ Insert(q, item) = InsertBehind(q, item, k)
           /\ \A j \in 1..k : q[j].priority >= item.priority
           /\ k < Len(q) => q[k + 1].priority < item.priority
<1> DEFINE Stops == {k \in 1..Len(q) : CursorStops(q, item, k)}
<1>e. Len(q) \in Nat /\ \A j \in 1..Len(q) : q[j] \in EmergencyHead
  OBVIOUS
<1>0. Len(q) \in Nat /\ \A j \in 1..Len(q) : q[j].priority \in Int
  BY <1>e DEF EmergencyHead
<1>p. item.priority \in Int
  BY DEF EmergencyHead
<1>1. CASE q = <<>> \/ item.priority > q[1].priority
  <2>1. Insert(q, item) = <<item>> \o q
    BY <1>1 DEF Insert
  <2>2. SubSeq(q, 1, 0) = <<>> /\ SubSeq(q, 1, Len(q)) = q
    BY <1>0
  <2>3. SubSeq(q, 1, 0) \o <<item>> \o SubSeq(q, 0 + 1, Len(q)) = <<item>> \o q
    BY <2>2
  <2>4. 0 < Len(q) => q[0 + 1].priority < item.priority
    BY <1>1, <1>0, <1>p
  <2>5. 0 \in 0..Len(q) /\ \A j \in 1..0 : q[j].priority >= item.priority
    BY <1>0
  <2> WITNESS 0 \in 0..Len(q)
  <2> QED
    BY <2>1, <2>3, <2>4, <2>5 DEF InsertBehind
<1>2. CASE ~ (q = <<>> \/ item.priority > q[1].priority)
  <2>1. Len(q) \in Stops
    BY <1>2, <1>0 DEF CursorStops
  <2>2. Min(Stops) \in Stops /\ \A y \in Stops : Min(Stops) <= y
    <3>1. Stops \subseteq Nat /\ Stops # {}
      BY <2>1, <1>0
    <3> HIDE DEF Stops
    <3> QED
      BY <3>1, MinOfNats
  <2>3. PICK k \in Stops : k = Min(Stops) /\ \A y \in Stops : k <= y
    BY <2>2
  <2>4. k \in 1..Len(q) /\ CursorStops(q, item, k)
    BY <2>3
  <2>5. Insert(q, item) = InsertAt(q, 1 + k, item)
    BY <1>2, <2>3 DEF Insert
  <2>6. (1 + k) - 1 = k /\ 1 + k = k + 1
    BY <2>4
  <2>7. Insert(q, item) = SubSeq(q, 1, k) \o <<item>> \o SubSeq(q, k + 1, Len(q))
    BY <2>5, <2>6 DEF InsertAt
  <2>8. ASSUME NEW j \in 1..k
        PROVE  q[j].priority >= item.priority
    <3>1. CASE j = 1
      BY <3>1, <1>2, <1>0, <1>p, <2>4
    <3>2. CASE j # 1
      <4>1. j - 1 \in 1..Len(q) /\ j - 1 < k /\ (j - 1) + 1 = j
        BY <3>2, <2>4
      <4>2. j - 1 \notin Stops
        BY <4>1, <2>3
      <4>3. ~ CursorStops(q, item, j - 1)
        BY <4>1, <4>2
      <4> QED
        BY <4>1, <4>3, <1>0, <1>p, <2>4 DEF CursorStops
    <3> QED
      BY <3>1, <3>2
  <2>9. k < Len(q) => q[k + 1].priority < item.priority
    BY <2>4, <1>0, <1>p DEF CursorStops
  <2>10. k \in 0..Len(q)
    BY <2>4
  <2> WITNESS k \in 0..Len(q)
  <2> QED
    BY <2>7, <2>8, <2>9 DEF InsertBehind
<1> QED
  BY <1>1, <1>2

\* The nodes after an insertion behind node k, one by one.
LEMMA InsertedNodes ==
  ASSUME NEW q \in Seq(EmergencyHead), NEW item \in EmergencyHead,
         NEW k \in 0..Len(q)
  PROVE  LET r == InsertBehind(q, item, k)
         IN  /\ r \in Seq(EmergencyHead)
             /\ Len(r) = Len(q) + 1
             /\ \A j \in 1..k : r[j] = q[j]
             /\ r[k + 1] = item
             /\ \A j \in (k + 2)..(Len(q) + 1) : r[j] = q[j - 1]
<1> DEFINE r == InsertBehind(q, item, k)
<1>0. Len(q) \in Nat
  OBVIOUS
<1> DEFINE a == SubSeq(q, 1, k)
           b == SubSeq(q, k + 1, Len(q))
<1>1. a \in Seq(EmergencyHead) /\ Len(a) = k /\ \A j \in 1..k : a[j] = q[j]
  BY <1>0
<1>2. /\ b \in Seq(EmergencyHead)
      /\ Len(b) = Len(q) - k
      /\ \A j \in 1..(Len(q) - k) : b[j] = q[k + j]
  BY <1>0
<1>3. <<item>> \in Seq(EmergencyHead) /\ Len(<<item>>) = 1 /\ <<item>>[1] = item
  OBVIOUS
<1> HIDE DEF a, b
<1>4. /\ a \o <<item>> \in Seq(EmergencyHead)
      /\ Len(a \o <<item>>) = k + 1
      /\ \A j \in 1..k : (a \o <<item>>)[j] = q[j]
      /\ (a \o <<item>>)[k + 1] = item
  BY <1>1, <1>3, <1>0
<1> DEFINE ai == a \o <<item>>
<1> HIDE DEF ai
<1>5. /\ ai \in Seq(EmergencyHead)
      /\ Len(ai) = k + 1
      /\ \A j \in 1..k : ai[j] = q[j]
      /\ ai[k + 1] = item
  BY <1>4 DEF ai
<1>6. r = ai \o b
  BY DEF ai, a, b, InsertBehind
<1> HIDE DEF r
<1>7. /\ r \in Seq(EmergencyHead)
      /\ Len(r) = (k + 1) + (Len(q) - k)
      /\ \A j \in 1..((k + 1) + (Len(q) - k)) :
           r[j] = IF j <= k + 1 THEN ai[j] ELSE b[j - (k + 1)]
  <2>1. /\ ai \o b \in Seq(EmergencyHead)
        /\ Len(ai \o b) = Len(ai) + Len(b)
        /\ \A j \in 1..(Len(ai) + Len(b)) :
             (ai \o b)[j] = IF j <= Len(ai) THEN ai[j] ELSE b[j - Len(ai)]
    BY <1>5, <1>2, ConcatProperties
  <2>2. Len(ai) = k + 1 /\ Len(b) = Len(q) - k
    BY <1>5, <1>2
  <2> QED
    BY <2>1, <2>2, <1>6, Zenon
<1>8. (k + 1) + (Len(q) - k) = Len(q) + 1
  BY <1>0
<1>9. ASSUME NEW j \in (k + 2)..(Len(q) + 1)
      PROVE  r[j] = q[j - 1]
  <2>1. /\ j \in 1..(Len(q) + 1)
        /\ ~ (j <= k + 1)
        /\ j - (k + 1) \in 1..(Len(q) - k)
        /\ k + (j - (k + 1)) = j - 1
    BY <1>0
  <2>2. r[j] = b[j - (k + 1)]
    BY <2>1, <1>7, <1>8
  <2>3. b[j - (k + 1)] = q[k + (j - (k + 1))]
    BY <2>1, <1>2
  <2> QED
    BY <2>1, <2>2, <2>3
<1>10. ASSUME NEW j \in 1..(k + 1)
       PROVE  r[j] = ai[j]
  <2>1. j \in 1..(Len(q) + 1) /\ j <= k + 1
    BY <1>0
  <2> QED
    BY <2>1, <1>7, <1>8
<1>11. 1..k \subseteq 1..(k + 1) /\ k + 1 \in 1..(k + 1)
  BY <1>0
<1> QED
  BY <1>5, <1>7, <1>8, <1>9, <1>10, <1>11 DEF r

\* Insertion keeps the order if the item is younger than everything queued.
LEMMA InsertKeepsOrder ==
  ASSUME NEW q \in Seq(EmergencyHead), NEW item \in EmergencyHead,
         Ordered(q), \A i \in DOMAIN q : q[i].id < item.id
  PROVE  /\ Insert(q, item) \in Seq(EmergencyHead)
         /\ Ordered(Insert(q, item))
         /\ {Insert(q, item)[i] : i \in DOMAIN Insert(q, item)}
              = {q[i] : i \in DOMAIN q} \cup {item}
<1> DEFINE r == Insert(q, item)
<1>1. PICK k \in 0..Len(q) :
        /\ r = InsertBehind(q, item, k)
        /\ \A j \in 1..k : q[j].priority >= item.priority
        /\ k < Len(q) => q[k + 1].priority < item.priority
  BY InsertPosition
<1> HIDE DEF r
<1>2. /\ r \in Seq(EmergencyHead)
      /\ Len(r) = Len(q) + 1
      /\ \A j \in 1..k : r[j] = q[j]
      /\ r[k + 1] = item
      /\ \A j \in (k + 2)..(Len(q) + 1) : r[j] = q[j - 1]
  BY <1>1, InsertedNodes
<1>3. Len(q) \in Nat /\ DOMAIN q = 1..Len(q) /\ DOMAIN r = 1..(Len(q) + 1)
  BY <1>2
<1>4. \A j \in 1..Len(q) : q[j] \in EmergencyHead
  BY <1>3
<1>5. /\ \A j \in 1..Len(q) : q[j].priority \in Int /\ q[j].id \in Int
      /\ item.priority \in Int /\ item.id \in Int
  BY <1>4 DEF EmergencyHead
<1>6. \A j \in (k + 1)..Len(q) : q[j].priority < item.priority
  <2>1. ASSUME NEW j \in (k + 1)..Len(q)
        PROVE  q[j].priority < item.priority
    <3>1. k < Len(q) /\ k + 1 \in 1..Len(q) /\ j \in 1..Len(q)
      BY <1>3
    <3>2. q[k + 1].priority < item.priority
      BY <1>1, <3>1
    <3>3. CASE j = k + 1
      BY <3>2, <3>3
    <3>4. CASE j # k + 1
      <4>1. k + 1 < j
        BY <3>4, <1>3
      <4>2. \/ q[k + 1].priority > q[j].priority
            \/ q[k + 1].priority = q[j].priority
        BY <3>1, <4>1, <1>3 DEF Ordered
      <4> QED
        BY <3>1, <3>2, <4>2, <1>5
    <3> QED
      BY <3>3, <3>4
  <2> QED
    BY <2>1
<1>7. Ordered(r)
  <2> SUFFICES ASSUME NEW i \in 1..(Len(q) + 1), NEW j \in 1..(Len(q) + 1), i < j
               PROVE  \/ r[i].priority > r[j].priority
                      \/ r[i].priority = r[j].priority /\ r[i].id < r[j].id
    BY <1>3 DEF Ordered
  <2>1. CASE j <= k
    <3>1. i \in 1..k /\ j \in 1..k /\ i \in 1..Len(q) /\ j \in 1..Len(q)
      BY <2>1, <1>3
    <3> QED
      BY <3>1, <1>2, <1>3 DEF Ordered
  <2>2. CASE j = k + 1
    <3>1. i \in 1..k /\ i \in 1..Len(q)
      BY <2>2, <1>3
    <3>2. r[i] = q[i] /\ r[j] = item
      BY <2>2, <3>1, <1>2
    <3>3. q[i].priority >= item.priority /\ q[i].id < item.id
      BY <3>1, <1>1, <1>3
    <3> QED
      BY <3>1, <3>2, <3>3, <1>5
  <2>3. CASE j > k + 1
    <3>1. j \in (k + 2)..(Len(q) + 1) /\ j - 1 \in (k + 1)..Len(q) /\ j - 1 \in 1..Len(q)
      BY <2>3, <1>3
    <3>2. r[j] = q[j - 1] /\ q[j - 1].priority < item.priority
      BY <3>1, <1>2, <1>6
    <3>3. CASE i <= k
      <4>1. i \in 1..k /\ i \in 1..Len(q)
        BY <3>3, <1>3
      <4>2. r[i] = q[i] /\ q[i].priority >= item.priority
        BY <4>1, <1>2, <1>1
      <4> QED
        BY <3>1, <3>2, <4>1, <4>2, <1>5
    <3>4. CASE i = k + 1
      BY <3>1, <3>2, <3>4, <1>2, <1>5
    <3>5. CASE i > k + 1
      <4>1. i \in (k + 2)..(Len(q) + 1) /\ i - 1 \in 1..Len(q) /\ i - 1 < j - 1
        BY <3>5, <3>1, <1>3
      <4>2. r[i] = q[i - 1]
        BY <4>1, <1>2
      <4> QED
        BY <3>1, <3>2, <4>1, <4>2, <1>3 DEF Ordered
    <3> QED
      BY <3>3, <3>4, <3>5
  <2> QED
    BY <2>1, <2>2, <2>3, <1>3
<1>8. {r[i] : i \in DOMAIN r} = {q[i] : i \in DOMAIN q} \cup {item}
  <2>1. ASSUME NEW i \in 1..(Len(q) + 1)
        PROVE  r[i] \in {q[j] : j \in 1..Len(q)} \cup {item}
    <3>1. CASE i <= k
      BY <3>1, <1>2, <1>3
    <3>2. CASE i = k + 1
      BY <3>2, <1>2
    <3>3. CASE i > k + 1
      <4>1. i \in (k + 2)..(Len(q) + 1) /\ i - 1 \in 1..Len(q)
        BY <3>3, <1>3
      <4> QED
        BY <4>1, <1>2
    <3> QED
      BY <3>1, <3>2, <3>3, <1>3
  <2>2. ASSUME NEW i \in 1..Len(q)
        PROVE  q[i] \in {r[j] : j \in 1..(Len(q) + 1)}
    <3>1. CASE i <= k
      BY <3>1, <1>2, <1>3
    <3>2. CASE i > k
      <4>1. i + 1 \in (k + 2)..(Len(q) + 1) /\ i + 1 \in 1..(Len(q) + 1) /\ (i + 1) - 1 = i
        BY <3>2, <1>3
      <4>2. r[i + 1] = q[i]
        BY <4>1, <1>2
      <4> QED
        BY <4>1, <4>2
    <3> QED
      BY <3>1, <3>2, <1>3
  <2>3. k + 1 \in 1..(Len(q) + 1) /\ r[k + 1] = item
    BY <1>2, <1>3
  <2> QED
    BY <2>1, <2>2, <2>3, <1>3
<1> QED
  BY <1>2, <1>7, <1>8 DEF r

-----------------------------------------------------------------------------
(* Type correctness *)

LEMMA TypeInit == Init => TypeOK
<1> SUFFICES ASSUME Init
             PROVE  TypeOK
  OBVIOUS
<1>1. NoEmergency \in EmergencyHead
  BY DEF NoEmergency, EmergencyHead
<1>2. mq \in Seq(Message) /\ Len(mq) <= MaxMessages /\ queue \in Seq(EmergencyHead)
  BY MessageAssumption DEF Init
<1> QED
  BY <1>1, <1>2 DEF Init, TypeOK

\* What QueueOrdered needs of the ids: whatever is queued is older than the
\* emergency the receiver is about to push, and than any it will take later.
Ages ==
  /\ \A i \in DOMAIN queue : queue[i].id <= lastId
  /\ rpc = "push" =>
       /\ received.id <= lastId
       /\ \A i \in DOMAIN queue : queue[i].id < received.id

\* The mutex is the dispatcher's from the test of the head to cnd_wait, and what
\* it found stays true: an empty list is empty until it sleeps, and asleep it is
\* woken by whoever pushes.
WaitsOnEmpty ==
  /\ mutex = "dispatcher" <=> dpc \in {"test", "to_wait"}
  /\ dpc \in {"to_wait", "waiting"} => queue = <<>>

IInv == TypeOK /\ WaitsOnEmpty /\ Ages /\ QueueOrdered

LEMMA SendStep == ASSUME IInv, NEW m \in Message, Send(m) PROVE IInv'
<1>1. /\ unsent' \subseteq Message
      /\ mq' \in Seq(Message)
      /\ Len(mq') <= MaxMessages
  <2>1. mq \in Seq(Message) /\ Len(mq) < MaxMessages /\ unsent \subseteq Message
    BY DEF Send, IInv, TypeOK
  <2>2. mq' = Append(mq, m) /\ unsent' = unsent \ {m}
    BY DEF Send
  <2>3. MaxMessages \in Nat
    BY MessageAssumption
  <2> QED
    BY <2>1, <2>2, <2>3
<1> QED
  BY <1>1 DEF Send, IInv, TypeOK, WaitsOnEmpty, Ages, QueueOrdered, Ordered,
              receiverVars, dispatcherVars

LEMMA CheckStopStep == ASSUME IInv, CheckStop PROVE IInv'
BY DEF CheckStop, IInv, TypeOK, WaitsOnEmpty, Ages, QueueOrdered, dispatcherVars

LEMMA ReceiveNothingStep == ASSUME IInv, ReceiveNothing PROVE IInv'
BY DEF ReceiveNothing, IInv, TypeOK, WaitsOnEmpty, Ages, QueueOrdered, dispatcherVars

LEMMA ReceiveStep == ASSUME IInv, Receive PROVE IInv'
<1>1. /\ mq \in Seq(Message) /\ mq # <<>> /\ lastId \in Nat
      /\ Len(mq) <= MaxMessages /\ MaxMessages \in Nat
  BY MessageAssumption DEF Receive, IInv, TypeOK
<1>2. mq' \in Seq(Message) /\ Len(mq') <= MaxMessages /\ Head(mq) \in Message
  <2>1. mq' = Tail(mq)
    BY DEF Receive
  <2>2. Len(Tail(mq)) = Len(mq) - 1 /\ Tail(mq) \in Seq(Message) /\ Head(mq) \in Message
    BY <1>1
  <2> QED
    BY <1>1, <2>1, <2>2
<1>3. [id |-> lastId + 1, priority |-> PriorityOf[Head(mq)]] \in EmergencyHead
  BY <1>1, <1>2, MessageAssumption DEF EmergencyHead
<1>4. TypeOK'
  <2>1. received' \in EmergencyHead /\ accepted' \subseteq Nat /\ rpc' \in {"push", "poll"}
    <3>1. received \in EmergencyHead /\ accepted \subseteq Nat /\ lastId + 1 \in Nat
      BY <1>1 DEF IInv, TypeOK
    <3>2. CASE Head(mq) \in Valid
      <4>1. /\ received' = [id |-> lastId + 1, priority |-> PriorityOf[Head(mq)]]
            /\ accepted' = accepted \cup {lastId + 1}
            /\ rpc' = "push"
        BY <3>2 DEF Receive
      <4> QED
        BY <4>1, <3>1, <1>3
    <3>3. CASE Head(mq) \notin Valid
      BY <3>1, <3>3 DEF Receive
    <3> QED
      BY <3>2, <3>3
  <2>2. lastId' \in Nat
    BY <1>1 DEF Receive
  <2> QED
    BY <1>2, <2>1, <2>2 DEF Receive, IInv, TypeOK, dispatcherVars
<1>5. WaitsOnEmpty' /\ QueueOrdered'
  BY DEF Receive, IInv, WaitsOnEmpty, QueueOrdered, dispatcherVars
<1>6. Ages'
  <2>1. lastId' = lastId + 1 /\ queue' = queue
    BY DEF Receive
  <2>2. \A i \in DOMAIN queue : queue[i].id \in Nat /\ queue[i].id <= lastId
    <3>1. \A i \in DOMAIN queue : queue[i] \in EmergencyHead
      BY DEF IInv, TypeOK
    <3> QED
      BY <3>1 DEF IInv, Ages, EmergencyHead
  <2>3. rpc' = "push" => received'.id = lastId + 1
    BY DEF Receive
  <2> QED
    BY <1>1, <2>1, <2>2, <2>3 DEF Ages
<1> QED
  BY <1>4, <1>5, <1>6 DEF IInv

LEMMA PushStep == ASSUME IInv, Push PROVE IInv'
<1>1. /\ queue \in Seq(EmergencyHead) /\ received \in EmergencyHead /\ lastId \in Nat
      /\ received.id <= lastId
      /\ \A i \in DOMAIN queue : queue[i].id < received.id
      /\ Ordered(queue)
  BY DEF Push, IInv, TypeOK, Ages, QueueOrdered
<1>2. /\ queue' \in Seq(EmergencyHead)
      /\ Ordered(queue')
      /\ {queue'[i] : i \in DOMAIN queue'} = {queue[i] : i \in DOMAIN queue} \cup {received}
  <2>1. queue' = Insert(queue, received)
    BY DEF Push
  <2>2. /\ Insert(queue, received) \in Seq(EmergencyHead)
        /\ Ordered(Insert(queue, received))
        /\ {Insert(queue, received)[i] : i \in DOMAIN Insert(queue, received)}
             = {queue[i] : i \in DOMAIN queue} \cup {received}
    BY <1>1, InsertKeepsOrder
  <2> QED
    BY <2>1, <2>2
<1>3. TypeOK'
  BY <1>2 DEF Push, WakeDispatcher, IInv, TypeOK
<1>4. WaitsOnEmpty'
  BY DEF Push, WakeDispatcher, IInv, WaitsOnEmpty
<1>5. Ages'
  <2>1. rpc' = "poll" /\ lastId' = lastId
    BY DEF Push
  <2>2. \A i \in DOMAIN queue' : queue'[i] \in {queue[j] : j \in DOMAIN queue} \cup {received}
    BY <1>2
  <2>3. \A i \in DOMAIN queue : queue[i].id <= lastId
    BY DEF IInv, Ages
  <2> QED
    BY <1>1, <2>1, <2>2, <2>3 DEF Ages
<1> QED
  BY <1>2, <1>3, <1>4, <1>5 DEF IInv, QueueOrdered

\* The steps of the dispatcher, the signal handler and main that leave the list
\* alone differ only in the places they go to.
LEMMA QuietStep ==
  ASSUME IInv,
         \/ PopLock \/ PopFindsNothing \/ PopWaits \/ PopStops
         \/ StartHandler \/ StartFails \/ SpuriousWakeup
         \/ SigintSetsFlag \/ SigintBroadcasts \/ JoinReceiver \/ JoinDispatcher \/ Exit
  PROVE  IInv'
<1>1. UNCHANGED <<queue, received, lastId, rpc, mq, unsent, accepted>>
  BY DEF PopLock, PopFindsNothing, PopWaits, PopStops, StartHandler, StartFails,
         SpuriousWakeup, SigintSetsFlag, SigintBroadcasts, JoinReceiver, JoinDispatcher,
         Exit, receiverVars
<1>2. Ages' /\ QueueOrdered'
  BY <1>1 DEF IInv, Ages, QueueOrdered
<1>3. WaitsOnEmpty'
  BY DEF PopLock, PopFindsNothing, PopWaits, PopStops, StartHandler, StartFails,
         SpuriousWakeup, SigintSetsFlag, SigintBroadcasts, JoinReceiver, JoinDispatcher,
         Exit, WakeDispatcher, dispatcherVars, IInv, WaitsOnEmpty
<1>4. popped.id \in Nat
  BY DEF IInv, TypeOK, EmergencyHead
<1>5. TypeOK'
  BY <1>1, <1>4
     DEF PopLock, PopFindsNothing, PopWaits, PopStops, StartHandler, StartFails,
         SpuriousWakeup, SigintSetsFlag, SigintBroadcasts, JoinReceiver, JoinDispatcher,
         Exit, WakeDispatcher, dispatcherVars, IInv, TypeOK
<1> QED
  BY <1>2, <1>3, <1>5 DEF IInv

\* The tail of an ordered list is ordered, and its head goes before the rest.
LEMMA TailFacts ==
  ASSUME NEW q \in Seq(EmergencyHead), q # <<>>, Ordered(q)
  PROVE  /\ Head(q) \in EmergencyHead
         /\ Tail(q) \in Seq(EmergencyHead)
         /\ Ordered(Tail(q))
         /\ {q[i] : i \in DOMAIN q} = {Head(q)} \cup {Tail(q)[i] : i \in DOMAIN Tail(q)}
         /\ \A i \in DOMAIN Tail(q) :
              \/ Head(q).priority > Tail(q)[i].priority
              \/ Head(q).priority = Tail(q)[i].priority /\ Head(q).id < Tail(q)[i].id
<1>1. Len(q) \in Nat /\ Len(q) >= 1 /\ DOMAIN q = 1..Len(q) /\ Head(q) = q[1]
  OBVIOUS
<1> DEFINE t == Tail(q)
<1>2. /\ t \in Seq(EmergencyHead) /\ Len(t) = Len(q) - 1
      /\ \A i \in 1..(Len(q) - 1) : t[i] = q[i + 1]
  BY <1>1
<1>3. DOMAIN t = 1..(Len(q) - 1)
  BY <1>2
<1>4. q[1] \in EmergencyHead
  BY <1>1
<1> HIDE DEF t
<1>5. Ordered(t)
  <2> SUFFICES ASSUME NEW i \in 1..(Len(q) - 1), NEW j \in 1..(Len(q) - 1), i < j
               PROVE  \/ t[i].priority > t[j].priority
                      \/ t[i].priority = t[j].priority /\ t[i].id < t[j].id
    BY <1>3 DEF Ordered
  <2>1. i + 1 \in DOMAIN q /\ j + 1 \in DOMAIN q /\ i + 1 < j + 1
    BY <1>1
  <2>2. \/ q[i + 1].priority > q[j + 1].priority
        \/ q[i + 1].priority = q[j + 1].priority /\ q[i + 1].id < q[j + 1].id
    BY <2>1 DEF Ordered
  <2> QED
    BY <2>2, <1>2
<1>6. \A i \in DOMAIN t : \/ q[1].priority > t[i].priority
                          \/ q[1].priority = t[i].priority /\ q[1].id < t[i].id
  <2> SUFFICES ASSUME NEW i \in 1..(Len(q) - 1)
               PROVE  \/ q[1].priority > t[i].priority
                      \/ q[1].priority = t[i].priority /\ q[1].id < t[i].id
    BY <1>3
  <2>1. 1 \in DOMAIN q /\ i + 1 \in DOMAIN q /\ 1 < i + 1
    BY <1>1
  <2>2. \/ q[1].priority > q[i + 1].priority
        \/ q[1].priority = q[i + 1].priority /\ q[1].id < q[i + 1].id
    BY <2>1 DEF Ordered
  <2> QED
    BY <2>2, <1>2
<1>7. {q[i] : i \in DOMAIN q} = {q[1]} \cup {t[i] : i \in DOMAIN t}
  <2>1. ASSUME NEW i \in 1..Len(q)
        PROVE  q[i] \in {q[1]} \cup {t[j] : j \in 1..(Len(q) - 1)}
    <3>1. CASE i = 1
      BY <3>1
    <3>2. CASE i # 1
      <4>1. i - 1 \in 1..(Len(q) - 1) /\ (i - 1) + 1 = i
        BY <3>2, <1>1
      <4>2. t[i - 1] = q[i]
        BY <4>1, <1>2
      <4> QED
        BY <4>1, <4>2
    <3> QED
      BY <3>1, <3>2
  <2>2. ASSUME NEW i \in 1..(Len(q) - 1)
        PROVE  t[i] \in {q[j] : j \in 1..Len(q)}
    <3>1. i + 1 \in 1..Len(q)
      BY <1>1
    <3> QED
      BY <3>1, <1>2
  <2>3. q[1] \in {q[j] : j \in 1..Len(q)}
    BY <1>1
  <2> QED
    BY <2>1, <2>2, <2>3, <1>1, <1>3
<1> QED
  BY <1>1, <1>2, <1>4, <1>5, <1>6, <1>7 DEF t

LEMMA PopTakesStep == ASSUME IInv, PopTakes PROVE IInv'
<1>1. queue \in Seq(EmergencyHead) /\ queue # <<>> /\ Ordered(queue)
  BY DEF PopTakes, IInv, TypeOK, QueueOrdered
<1>2. queue' = Tail(queue) /\ popped' = Head(queue)
  BY DEF PopTakes
<1>3. /\ popped' \in EmergencyHead /\ queue' \in Seq(EmergencyHead) /\ Ordered(queue')
      /\ \A i \in DOMAIN queue' : queue'[i] \in {queue[j] : j \in DOMAIN queue}
  BY <1>1, <1>2, TailFacts
<1>4. TypeOK' /\ WaitsOnEmpty'
  BY <1>3 DEF PopTakes, IInv, TypeOK, WaitsOnEmpty, receiverVars
<1>5. Ages'
  BY <1>3 DEF PopTakes, IInv, Ages, receiverVars
<1> QED
  BY <1>3, <1>4, <1>5 DEF IInv, QueueOrdered

LEMMA CleanupStep == ASSUME IInv, Cleanup PROVE IInv'
<1>1. queue' = <<>> /\ <<>> \in Seq(EmergencyHead)
  BY DEF Cleanup
<1>2. DOMAIN queue' = {}
  BY <1>1
<1>3. TypeOK' /\ WaitsOnEmpty'
  BY <1>1 DEF Cleanup, IInv, TypeOK, WaitsOnEmpty, receiverVars, dispatcherVars
<1>4. Ages'
  BY <1>2 DEF Cleanup, IInv, Ages, receiverVars
<1>5. QueueOrdered'
  BY <1>2 DEF QueueOrdered, Ordered
<1> QED
  BY <1>3, <1>4, <1>5 DEF IInv

LEMMA Inductive == IInv /\ [Next]_vars => IInv'
<1> SUFFICES ASSUME IInv, [Next]_vars
             PROVE  IInv'
  OBVIOUS
<1>1. CASE \E m \in Message : Send(m)
  BY <1>1, SendStep
<1>2. CASE Receiver
  BY <1>2, CheckStopStep, ReceiveNothingStep, ReceiveStep, PushStep DEF Receiver
<1>3. CASE Dispatcher
  BY <1>3, QuietStep, PopTakesStep DEF Dispatcher
<1>4. CASE SpuriousWakeup \/ SigintSetsFlag \/ SigintBroadcasts
  BY <1>4, QuietStep
<1>5. CASE Main
  BY <1>5, QuietStep, CleanupStep DEF Main
<1>6. CASE UNCHANGED vars
  BY <1>6 DEF vars, receiverVars, dispatcherVars, IInv, TypeOK, WaitsOnEmpty, Ages, QueueOrdered
<1> QED
  BY <1>1, <1>2, <1>3, <1>4, <1>5, <1>6 DEF Next

LEMMA InitInv == Init => IInv
<1>1. ASSUME Init PROVE WaitsOnEmpty /\ Ages /\ QueueOrdered
  <2>1. DOMAIN queue = {}
    BY <1>1 DEF Init
  <2> QED
    BY <1>1, <2>1 DEF Init, WaitsOnEmpty, Ages, QueueOrdered, Ordered
<1> QED
  BY <1>1, TypeInit DEF IInv

LEMMA Invariant == Spec => []IInv
BY InitInv, Inductive, PTL DEF Spec

\* Type correctness of the receiver, the queue, the dispatcher and main; the
\* message queue never holds more than mq_maxmsg.
THEOREM TypeCorrect == Spec => []TypeOK
<1>1. IInv => TypeOK
  BY DEF IInv
<1> QED
  BY <1>1, Invariant, PTL

\* The list is ordered by priority and arrival, however many emergencies arrive.
THEOREM ListOrdered == Spec => []QueueOrdered
<1>1. IInv => QueueOrdered
  BY DEF IInv
<1> QED
  BY <1>1, Invariant, PTL

\* The dispatcher is never asleep while an emergency is queued.
THEOREM WakesForWork == Spec => []NeverSleepsOnWork
<1>1. IInv => NeverSleepsOnWork
  BY DEF IInv, WaitsOnEmpty, NeverSleepsOnWork
<1> QED
  BY <1>1, Invariant, PTL

-----------------------------------------------------------------------------
(* The list implements the abstract queue *)

Nodes == {queue[i] : i \in DOMAIN queue}

LEMMA QueueInit == Init => AbstractQueue!Init
<1>1. ASSUME Init PROVE DOMAIN queue = {}
  BY <1>1 DEF Init
<1> QED
  BY <1>1 DEF AbstractQueue!Init

LEMMA PushIsPut == ASSUME IInv, Push PROVE AbstractQueue!Put
<1>1. /\ queue \in Seq(EmergencyHead) /\ received \in EmergencyHead
      /\ \A i \in DOMAIN queue : queue[i].id < received.id
      /\ Ordered(queue)
  BY DEF Push, IInv, TypeOK, Ages, QueueOrdered
<1>2. queue' = Insert(queue, received)
  BY DEF Push
<1>3. {Insert(queue, received)[i] : i \in DOMAIN Insert(queue, received)}
        = {queue[i] : i \in DOMAIN queue} \cup {received}
  BY <1>1, InsertKeepsOrder
<1>4. Nodes' = Nodes \cup {received}
  BY <1>2, <1>3 DEF Nodes
<1>5. received \in Nodes' \cap AbstractQueue!Item
  BY <1>1, <1>4 DEF AbstractQueue!Item, EmergencyHead
<1>6. \A other \in Nodes : other.id < received.id
  BY <1>1 DEF Nodes
<1> QED
  BY <1>4, <1>5, <1>6 DEF AbstractQueue!Put, Nodes

LEMMA PopIsTake == ASSUME IInv, PopTakes PROVE AbstractQueue!Take
<1>1. queue \in Seq(EmergencyHead) /\ queue # <<>> /\ Ordered(queue)
  BY DEF PopTakes, IInv, TypeOK, QueueOrdered
<1>2. queue' = Tail(queue)
  BY DEF PopTakes
<1>3. /\ {queue[i] : i \in DOMAIN queue}
           = {Head(queue)} \cup {Tail(queue)[i] : i \in DOMAIN Tail(queue)}
      /\ Head(queue) \in EmergencyHead
      /\ Tail(queue) \in Seq(EmergencyHead)
      /\ \A i \in DOMAIN Tail(queue) :
           \/ Head(queue).priority > Tail(queue)[i].priority
           \/ /\ Head(queue).priority = Tail(queue)[i].priority
              /\ Head(queue).id < Tail(queue)[i].id
  BY <1>1, TailFacts
<1>4. Nodes = {Head(queue)} \cup Nodes'
  BY <1>2, <1>3 DEF Nodes
<1>5. \A other \in Nodes' : AbstractQueue!MoreUrgent(Head(queue), other)
  BY <1>2, <1>3 DEF Nodes, AbstractQueue!MoreUrgent
<1>6. Head(queue) \notin Nodes'
  <2>1. Head(queue).priority \in Int /\ Head(queue).id \in Int
    BY <1>3 DEF EmergencyHead
  <2>2. ~ AbstractQueue!MoreUrgent(Head(queue), Head(queue))
    BY <2>1 DEF AbstractQueue!MoreUrgent
  <2> QED
    BY <2>2, <1>5
<1>7. Head(queue) \in Nodes /\ Nodes' = Nodes \ {Head(queue)}
  BY <1>4, <1>6
<1> QED
  BY <1>5, <1>7 DEF AbstractQueue!Take, Nodes

LEMMA QueueStep ==
  IInv /\ [Next]_vars => [AbstractQueue!Next]_Nodes
<1> SUFFICES ASSUME IInv, [Next]_vars
             PROVE  AbstractQueue!Next \/ UNCHANGED Nodes
  OBVIOUS
<1>1. CASE Push
  BY <1>1, PushIsPut DEF AbstractQueue!Next
<1>2. CASE PopTakes
  BY <1>2, PopIsTake DEF AbstractQueue!Next
<1>3. CASE Cleanup
  <2>1. DOMAIN queue' = {}
    BY <1>3 DEF Cleanup
  <2> QED
    BY <2>1 DEF AbstractQueue!Next, AbstractQueue!Destroy
<1>4. CASE UNCHANGED queue
  BY <1>4 DEF Nodes
<1>5. Push \/ PopTakes \/ Cleanup \/ UNCHANGED queue
  BY DEF Next, Receiver, Dispatcher, Main, Exit, vars, Send, CheckStop, ReceiveNothing, Receive,
         PopLock, PopFindsNothing, PopWaits, PopStops, StartHandler, StartFails,
         SpuriousWakeup, SigintSetsFlag, SigintBroadcasts, JoinReceiver, JoinDispatcher
<1> QED
  BY <1>1, <1>2, <1>3, <1>4, <1>5

\* The internal queue always hands out the most urgent and, among equals, the
\* oldest emergency, whatever arrives in between.
THEOREM ImplementsUrgentFirst == Spec => QueueRefinement
<1>1. IInv /\ [Next]_vars => [AbstractQueue!Next]_Nodes
  BY QueueStep
<1> QED
  BY <1>1, QueueInit, Invariant, PTL DEF Spec, QueueRefinement, AbstractQueue!Spec, Nodes

-----------------------------------------------------------------------------
(* Nothing is lost and nothing is handled twice *)

\* No id is queued twice.
Distinct(q) == \A i, j \in DOMAIN q : q[i].id = q[j].id => i = j

\* The places of an emergency on its way do not overlap, and the one the receiver
\* holds is younger than all the others.
Apart ==
  /\ Distinct(queue)
  /\ QueuedIds \cap (InDispatcher \cup handled \cup dropped) = {}
  /\ InDispatcher \cap (handled \cup dropped) = {}
  /\ \A n \in InDispatcher \cup handled \cup dropped :
       n <= lastId /\ (rpc = "push" => n < received.id)
  /\ \A n \in accepted : n <= lastId

\* ExactlyOnePlace in the form the steps preserve: the sets are finite, and the
\* count is kept up to the end of the server.
Balance ==
  /\ IsFiniteSet(accepted) /\ IsFiniteSet(handled) /\ IsFiniteSet(dropped)
  /\ ExactlyOnePlace

LEMMA InsertKeepsDistinct ==
  ASSUME NEW q \in Seq(EmergencyHead), NEW item \in EmergencyHead,
         Distinct(q), \A i \in DOMAIN q : q[i].id < item.id
  PROVE  /\ Distinct(Insert(q, item))
         /\ Len(Insert(q, item)) = Len(q) + 1
<1> DEFINE r == Insert(q, item)
<1>1. PICK k \in 0..Len(q) : r = InsertBehind(q, item, k)
  BY InsertPosition
<1> HIDE DEF r
<1>2. /\ r \in Seq(EmergencyHead)
      /\ Len(r) = Len(q) + 1
      /\ \A j \in 1..k : r[j] = q[j]
      /\ r[k + 1] = item
      /\ \A j \in (k + 2)..(Len(q) + 1) : r[j] = q[j - 1]
  BY <1>1, InsertedNodes
<1>3. Len(q) \in Nat /\ DOMAIN q = 1..Len(q) /\ DOMAIN r = 1..(Len(q) + 1)
  BY <1>2
<1>4. \A j \in 1..Len(q) : q[j] \in EmergencyHead
  BY <1>3
<1>5. (\A j \in 1..Len(q) : q[j].id \in Int) /\ item.id \in Int
  BY <1>4 DEF EmergencyHead
<1> DEFINE From(i) == IF i <= k THEN i ELSE i - 1
<1>6. ASSUME NEW i \in 1..(Len(q) + 1), i # k + 1
      PROVE  From(i) \in 1..Len(q) /\ r[i] = q[From(i)]
  <2>1. CASE i <= k
    <3>1. i \in 1..k /\ i \in 1..Len(q)
      BY <2>1, <1>3
    <3> QED
      BY <2>1, <3>1, <1>2
  <2>2. CASE ~ (i <= k)
    <3>1. i \in (k + 2)..(Len(q) + 1) /\ i - 1 \in 1..Len(q)
      BY <2>2, <1>6, <1>3
    <3> QED
      BY <2>2, <3>1, <1>2
  <2> QED
    BY <2>1, <2>2
<1>7. ASSUME NEW i \in 1..(Len(q) + 1), NEW j \in 1..(Len(q) + 1), r[i].id = r[j].id
      PROVE  i = j
  <2>1. CASE i = k + 1 /\ j # k + 1
    <3>1. From(j) \in 1..Len(q) /\ r[j] = q[From(j)]
      BY <2>1, <1>6
    <3> HIDE DEF From
    <3>2. q[From(j)].id < item.id /\ r[i] = item
      BY <3>1, <2>1, <1>2, <1>3
    <3> QED
      BY <3>1, <3>2, <1>7, <1>5
  <2>2. CASE i # k + 1 /\ j = k + 1
    <3>1. From(i) \in 1..Len(q) /\ r[i] = q[From(i)]
      BY <2>2, <1>6
    <3> HIDE DEF From
    <3>2. q[From(i)].id < item.id /\ r[j] = item
      BY <3>1, <2>2, <1>2, <1>3
    <3> QED
      BY <3>1, <3>2, <1>7, <1>5
  <2>3. CASE i # k + 1 /\ j # k + 1
    <3>1. /\ From(i) \in 1..Len(q) /\ r[i] = q[From(i)]
          /\ From(j) \in 1..Len(q) /\ r[j] = q[From(j)]
      BY <2>3, <1>6
    <3>2. From(i) = From(j)
      <4> HIDE DEF From
      <4> QED
        BY <3>1, <1>7, <1>3 DEF Distinct
    <3> QED
      BY <3>2, <2>3, <1>3
  <2> QED
    BY <2>1, <2>2, <2>3
<1> QED
  BY <1>2, <1>3, <1>7 DEF Distinct, r

JInv == IInv /\ Apart /\ Balance

LEMMA PlaceTypes ==
  ASSUME IInv
  PROVE  /\ lastId \in Nat /\ received.id \in Nat /\ popped.id \in Nat
         /\ accepted \subseteq Nat /\ handled \subseteq Nat /\ dropped \subseteq Nat
         /\ Len(queue) \in Nat /\ DOMAIN queue = 1..Len(queue)
         /\ QueuedIds \subseteq Nat
<1>1. received \in EmergencyHead /\ popped \in EmergencyHead /\ queue \in Seq(EmergencyHead)
  BY DEF IInv, TypeOK
<1>2. \A i \in DOMAIN queue : queue[i] \in EmergencyHead
  BY <1>1
<1>3. \A i \in DOMAIN queue : queue[i].id \in Nat
  BY <1>2 DEF EmergencyHead
<1>4. received.id \in Nat /\ popped.id \in Nat
  BY <1>1 DEF EmergencyHead
<1>5. QueuedIds \subseteq Nat
  BY <1>3 DEF QueuedIds
<1>6. Len(queue) \in Nat /\ DOMAIN queue = 1..Len(queue)
  BY <1>1
<1> QED
  BY <1>4, <1>5, <1>6 DEF IInv, TypeOK

\* The number of emergencies with the receiver and with the dispatcher.
LEMMA OneAtMost ==
  /\ Cardinality(InReceiver) = IF rpc = "push" THEN 1 ELSE 0
  /\ Cardinality(InDispatcher) = IF dpc = "start" THEN 1 ELSE 0
BY FS_EmptySet, FS_Singleton DEF InReceiver, InDispatcher

LEMMA OneAtMostNext ==
  /\ Cardinality(InReceiver)' = IF rpc' = "push" THEN 1 ELSE 0
  /\ Cardinality(InDispatcher)' = IF dpc' = "start" THEN 1 ELSE 0
BY FS_EmptySet, FS_Singleton DEF InReceiver, InDispatcher

\* A step that moves no emergency keeps them apart and the books balanced.
LEMMA UnmovedKeeps ==
  ASSUME Apart, Balance,
         UNCHANGED <<queue, received, lastId, accepted, handled, dropped>>,
         UNCHANGED InReceiver, UNCHANGED InDispatcher,
         rpc' = "push" => rpc = "push",
         QueueDestroyed => QueueDestroyed'
  PROVE  Apart' /\ Balance'
<1>1. UNCHANGED QueuedIds
  BY DEF QueuedIds
<1>2. Apart'
  BY <1>1 DEF Apart
<1>3. Balance'
  BY <1>1 DEF Balance, ExactlyOnePlace, QueueDestroyed
<1> QED
  BY <1>2, <1>3

\* A valid message becomes an accepted emergency, in the hands of the receiver.
LEMMA ReceiveKeeps == ASSUME JInv, Receive PROVE Apart' /\ Balance'
<1>1. /\ rpc = "receive" /\ lastId' = lastId + 1
      /\ UNCHANGED <<queue, handled, dropped, mainpc, dpc, popped>>
  BY DEF Receive, dispatcherVars
<1>2. UNCHANGED QueuedIds /\ UNCHANGED InDispatcher
  BY <1>1 DEF QueuedIds, InDispatcher
<1>3. /\ lastId \in Nat /\ accepted \subseteq Nat /\ handled \subseteq Nat
      /\ dropped \subseteq Nat /\ InDispatcher \subseteq Nat
  BY PlaceTypes DEF JInv, InDispatcher
<1>4. \A n \in InDispatcher \cup handled \cup dropped \cup accepted : n <= lastId
  BY DEF JInv, Apart
<1>5. CASE rpc' = "push"
  <2>1. accepted' = accepted \cup {lastId + 1} /\ received'.id = lastId + 1
    BY <1>5 DEF Receive
  <2>2. Apart'
    <3>1. \A n \in InDispatcher \cup handled \cup dropped : n <= lastId + 1 /\ n < lastId + 1
      BY <1>3, <1>4
    <3>2. \A n \in accepted' : n <= lastId + 1
      BY <1>3, <1>4, <2>1
    <3> QED
      BY <1>1, <1>2, <2>1, <3>1, <3>2 DEF JInv, Apart
  <2>3. lastId + 1 \notin accepted
    BY <1>3, <1>4
  <2>4. /\ IsFiniteSet(accepted')
        /\ Cardinality(accepted') = Cardinality(accepted) + 1
    BY <2>1, <2>3, FS_AddElement DEF JInv, Balance
  <2>5. InReceiver = {} /\ InReceiver' = {lastId + 1}
    BY <1>1, <1>5, <2>1 DEF InReceiver
  <2>6. ASSUME ~QueueDestroyed'
        PROVE  /\ accepted' = InReceiver' \cup QueuedIds' \cup InDispatcher'
                               \cup handled' \cup dropped'
               /\ Cardinality(accepted') =
                    Cardinality(InReceiver)' + Len(queue') + Cardinality(InDispatcher)'
                      + Cardinality(handled') + Cardinality(dropped')
    <3>1. /\ accepted = InReceiver \cup QueuedIds \cup InDispatcher \cup handled \cup dropped
          /\ Cardinality(accepted) =
               Cardinality(InReceiver) + Len(queue) + Cardinality(InDispatcher)
                 + Cardinality(handled) + Cardinality(dropped)
      BY <2>6, <1>1 DEF JInv, Balance, ExactlyOnePlace, QueueDestroyed
    <3>2. Cardinality(InReceiver) = 0 /\ Cardinality(InReceiver)' = 1
      BY <1>1, <1>5, OneAtMost, OneAtMostNext
    <3>3. /\ Len(queue) \in Nat /\ Cardinality(InDispatcher) \in Nat
          /\ Cardinality(handled) \in Nat /\ Cardinality(dropped) \in Nat
      BY PlaceTypes, OneAtMost, FS_CardinalityType DEF JInv, Balance
    <3>4. Cardinality(InDispatcher)' = Cardinality(InDispatcher)
      BY <1>2
    <3> QED
      BY <3>1, <3>2, <3>3, <3>4, <2>1, <2>4, <2>5, <1>1, <1>2
  <2> QED
    BY <2>2, <2>4, <2>6, <1>1 DEF JInv, Balance, ExactlyOnePlace, QueueDestroyed
<1>6. CASE rpc' # "push"
  <2>1. accepted' = accepted /\ received' = received
    BY <1>6 DEF Receive
  <2>2. UNCHANGED InReceiver
    BY <1>1, <1>6 DEF InReceiver
  <2>3. Apart'
    <3>1. \A n \in InDispatcher \cup handled \cup dropped \cup accepted : n <= lastId + 1
      BY <1>3, <1>4
    <3> QED
      BY <1>1, <1>2, <1>6, <2>1, <3>1 DEF JInv, Apart
  <2>4. Balance'
    BY <1>1, <1>2, <2>1, <2>2 DEF JInv, Balance, ExactlyOnePlace, QueueDestroyed
  <2> QED
    BY <2>3, <2>4
<1> QED
  BY <1>5, <1>6

\* The receiver's emergency moves into the list.
LEMMA PushKeeps == ASSUME JInv, Push PROVE Apart' /\ Balance'
<1>1. /\ rpc = "push" /\ rpc' = "poll" /\ queue' = Insert(queue, received)
      /\ UNCHANGED <<lastId, received, accepted, handled, dropped, popped, mainpc>>
  BY DEF Push
<1>2. InDispatcher' = InDispatcher
  BY DEF Push, WakeDispatcher, InDispatcher
<1>3. /\ queue \in Seq(EmergencyHead) /\ received \in EmergencyHead
      /\ Ordered(queue) /\ Distinct(queue)
      /\ \A j \in DOMAIN queue : queue[j].id < received.id
  BY <1>1 DEF JInv, IInv, TypeOK, QueueOrdered, Ages, Apart
<1>4. /\ Distinct(queue') /\ Len(queue') = Len(queue) + 1
      /\ {queue'[i] : i \in DOMAIN queue'} = {queue[i] : i \in DOMAIN queue} \cup {received}
  <2>1. /\ Distinct(Insert(queue, received))
        /\ Len(Insert(queue, received)) = Len(queue) + 1
    BY <1>3, InsertKeepsDistinct
  <2>2. {Insert(queue, received)[i] : i \in DOMAIN Insert(queue, received)}
          = {queue[i] : i \in DOMAIN queue} \cup {received}
    BY <1>3, InsertKeepsOrder
  <2> QED
    BY <1>1, <2>1, <2>2
<1>5. QueuedIds' = QueuedIds \cup {received.id}
  <2>1. QueuedIds = {em.id : em \in {queue[i] : i \in DOMAIN queue}}
    BY DEF QueuedIds
  <2>2. QueuedIds' = {em.id : em \in {queue'[i] : i \in DOMAIN queue'}}
    BY DEF QueuedIds
  <2> QED
    BY <1>4, <2>1, <2>2
<1>6. received.id \notin InDispatcher \cup handled \cup dropped
  <2>1. \A n \in InDispatcher \cup handled \cup dropped : n < received.id
    BY <1>1 DEF JInv, Apart
  <2>2. received.id \in Nat
    BY PlaceTypes DEF JInv
  <2> QED
    BY <2>1, <2>2
<1>7. Apart'
  BY <1>1, <1>2, <1>4, <1>5, <1>6 DEF JInv, Apart
<1>8. InReceiver = {received.id} /\ InReceiver' = {}
  BY <1>1 DEF InReceiver
<1>9. Cardinality(InReceiver) = 1 /\ Cardinality(InReceiver)' = 0
  BY <1>1, OneAtMost, OneAtMostNext
<1>10. Balance'
  <2>1. /\ Len(queue) \in Nat /\ Cardinality(InDispatcher) \in Nat
        /\ Cardinality(handled) \in Nat /\ Cardinality(dropped) \in Nat
    BY PlaceTypes, OneAtMost, FS_CardinalityType DEF JInv, Balance
  <2>2. Cardinality(InDispatcher)' = Cardinality(InDispatcher)
    BY <1>2
  <2> QED
    BY <1>1, <1>2, <1>4, <1>5, <1>8, <1>9, <2>1, <2>2 DEF JInv, Balance, ExactlyOnePlace, QueueDestroyed
<1> QED
  BY <1>7, <1>10

\* The head of the list moves to the dispatcher.
LEMMA PopKeeps == ASSUME JInv, PopTakes PROVE Apart' /\ Balance'
<1>1. /\ dpc = "test" /\ dpc' = "start" /\ queue # <<>>
      /\ queue' = Tail(queue) /\ popped' = Head(queue)
      /\ UNCHANGED <<rpc, lastId, received, accepted, handled, dropped, mainpc>>
  BY DEF PopTakes, receiverVars
<1>2. queue \in Seq(EmergencyHead) /\ Len(queue) \in Nat
  BY DEF JInv, IInv, TypeOK
<1>3. /\ DOMAIN queue = 1..Len(queue) /\ 1 \in DOMAIN queue
      /\ DOMAIN queue' = 1..(Len(queue) - 1) /\ Len(queue') = Len(queue) - 1
      /\ Head(queue) = queue[1]
      /\ \A i \in 1..(Len(queue) - 1) : queue'[i] = queue[i + 1]
  BY <1>1, <1>2
<1>4. \A i \in 1..(Len(queue) - 1) : i + 1 \in DOMAIN queue /\ i + 1 # 1
  BY <1>2, <1>3
<1>5. Distinct(queue')
  BY <1>2, <1>3, <1>4 DEF JInv, Apart, Distinct
<1>6. popped'.id \notin QueuedIds'
  BY <1>1, <1>2, <1>3, <1>4 DEF JInv, Apart, Distinct, QueuedIds
<1>7. QueuedIds = QueuedIds' \cup {popped'.id}
  <2>1. ASSUME NEW i \in DOMAIN queue
        PROVE  queue[i].id \in QueuedIds' \cup {popped'.id}
    <3>1. CASE i = 1
      BY <3>1, <1>1, <1>3
    <3>2. CASE i # 1
      <4>1. i - 1 \in DOMAIN queue' /\ (i - 1) + 1 = i
        BY <3>2, <1>2, <1>3
      <4>2. queue'[i - 1] = queue[i]
        BY <4>1, <1>3
      <4> QED
        BY <4>1, <4>2 DEF QueuedIds
    <3> QED
      BY <3>1, <3>2
  <2>2. QueuedIds' \subseteq QueuedIds
    BY <1>3, <1>4 DEF QueuedIds
  <2>3. popped'.id \in QueuedIds
    BY <1>1, <1>3 DEF QueuedIds
  <2> QED
    BY <2>1, <2>2, <2>3 DEF QueuedIds
<1>8. InDispatcher = {} /\ InDispatcher' = {popped'.id} /\ InReceiver' = InReceiver
  BY <1>1 DEF InDispatcher, InReceiver
<1>9. popped'.id <= lastId /\ (rpc = "push" => popped'.id < received.id)
  BY <1>1, <1>3 DEF JInv, IInv, Ages
<1>10. Apart'
  <2>1. popped'.id \notin handled \cup dropped
    BY <1>7 DEF JInv, Apart
  <2>2. QueuedIds' \cap (InDispatcher' \cup handled' \cup dropped') = {}
    BY <1>1, <1>6, <1>7, <1>8 DEF JInv, Apart
  <2>3. \A n \in InDispatcher' \cup handled' \cup dropped' :
          n <= lastId' /\ (rpc' = "push" => n < received'.id)
    BY <1>1, <1>8, <1>9 DEF JInv, Apart
  <2> QED
    BY <1>1, <1>5, <1>8, <2>1, <2>2, <2>3 DEF JInv, Apart
<1>11. Balance'
  <2>1. /\ Cardinality(InReceiver) \in Nat
        /\ Cardinality(handled) \in Nat /\ Cardinality(dropped) \in Nat
    BY OneAtMost, FS_CardinalityType DEF JInv, Balance
  <2>2. /\ Cardinality(InReceiver)' = Cardinality(InReceiver)
        /\ Cardinality(InDispatcher) = 0 /\ Cardinality(InDispatcher)' = 1
    BY <1>1, <1>8, OneAtMost, OneAtMostNext
  <2>3. ASSUME ~QueueDestroyed'
        PROVE  /\ accepted' = InReceiver' \cup QueuedIds' \cup InDispatcher'
                               \cup handled' \cup dropped'
               /\ Cardinality(accepted') =
                    Cardinality(InReceiver)' + Len(queue') + Cardinality(InDispatcher)'
                      + Cardinality(handled') + Cardinality(dropped')
    <3>1. /\ accepted = InReceiver \cup QueuedIds \cup InDispatcher \cup handled \cup dropped
          /\ Cardinality(accepted) =
               Cardinality(InReceiver) + Len(queue) + Cardinality(InDispatcher)
                 + Cardinality(handled) + Cardinality(dropped)
      BY <2>3, <1>1 DEF JInv, Balance, ExactlyOnePlace, QueueDestroyed
    <3> QED
      BY <3>1, <2>1, <2>2, <1>1, <1>2, <1>3, <1>7, <1>8
  <2> QED
    BY <2>3, <1>1 DEF JInv, Balance, ExactlyOnePlace, QueueDestroyed
<1> QED
  BY <1>10, <1>11

\* The dispatcher's emergency gets a handler thread, or is dropped.
LEMMA StartKeeps == ASSUME JInv, StartHandler \/ StartFails PROVE Apart' /\ Balance'
<1>1. /\ dpc = "start" /\ dpc' = "pop"
      /\ UNCHANGED <<rpc, queue, lastId, received, accepted, popped, mainpc>>
  BY DEF StartHandler, StartFails, receiverVars
<1>2. /\ InDispatcher = {popped.id} /\ InDispatcher' = {} /\ InReceiver' = InReceiver
      /\ QueuedIds' = QueuedIds
  BY <1>1 DEF InDispatcher, InReceiver, QueuedIds
<1>3. handled' \cup dropped' = handled \cup dropped \cup {popped.id}
  BY DEF StartHandler, StartFails
<1>4. popped.id \notin handled \cup dropped
  BY <1>2 DEF JInv, Apart
<1>5. Apart'
  BY <1>1, <1>2, <1>3 DEF JInv, Apart
<1>6. /\ IsFiniteSet(handled') /\ IsFiniteSet(dropped')
      /\ Cardinality(handled') + Cardinality(dropped')
           = Cardinality(handled) + Cardinality(dropped) + 1
  <2>1. /\ IsFiniteSet(handled) /\ IsFiniteSet(dropped)
        /\ Cardinality(handled) \in Nat /\ Cardinality(dropped) \in Nat
    BY FS_CardinalityType DEF JInv, Balance
  <2>2. CASE StartHandler
    <3>1. handled' = handled \cup {popped.id} /\ dropped' = dropped
      BY <2>2 DEF StartHandler
    <3>2. IsFiniteSet(handled') /\ Cardinality(handled') = Cardinality(handled) + 1
      BY <2>1, <3>1, <1>4, FS_AddElement
    <3> QED
      BY <2>1, <3>1, <3>2
  <2>3. CASE StartFails
    <3>1. dropped' = dropped \cup {popped.id} /\ handled' = handled
      BY <2>3 DEF StartFails
    <3>2. IsFiniteSet(dropped') /\ Cardinality(dropped') = Cardinality(dropped) + 1
      BY <2>1, <3>1, <1>4, FS_AddElement
    <3> QED
      BY <2>1, <3>1, <3>2
  <2> QED
    BY <2>2, <2>3
<1>7. Balance'
  <2>1. /\ Len(queue) \in Nat /\ Cardinality(InReceiver) \in Nat
        /\ Cardinality(handled) \in Nat /\ Cardinality(dropped) \in Nat
        /\ Cardinality(handled') \in Nat /\ Cardinality(dropped') \in Nat
    BY <1>6, PlaceTypes, OneAtMost, FS_CardinalityType DEF JInv, Balance
  <2>2. /\ Cardinality(InReceiver)' = Cardinality(InReceiver)
        /\ Cardinality(InDispatcher) = 1 /\ Cardinality(InDispatcher)' = 0
    BY <1>1, <1>2, OneAtMost, OneAtMostNext
  <2>3. ASSUME ~QueueDestroyed'
        PROVE  /\ accepted' = InReceiver' \cup QueuedIds' \cup InDispatcher'
                               \cup handled' \cup dropped'
               /\ Cardinality(accepted') =
                    Cardinality(InReceiver)' + Len(queue') + Cardinality(InDispatcher)'
                      + Cardinality(handled') + Cardinality(dropped')
    <3>1. /\ accepted = InReceiver \cup QueuedIds \cup InDispatcher \cup handled \cup dropped
          /\ Cardinality(accepted) =
               Cardinality(InReceiver) + Len(queue) + Cardinality(InDispatcher)
                 + Cardinality(handled) + Cardinality(dropped)
      BY <2>3, <1>1 DEF JInv, Balance, ExactlyOnePlace, QueueDestroyed
    <3>2. accepted' = InReceiver' \cup QueuedIds' \cup InDispatcher' \cup handled' \cup dropped'
      BY <3>1, <1>1, <1>2, <1>3
    <3>3. Cardinality(accepted') = Cardinality(accepted) /\ Len(queue') = Len(queue)
      BY <1>1
    <3>4. Cardinality(accepted) =
            Cardinality(InReceiver) + Len(queue) + 0
              + Cardinality(handled') + Cardinality(dropped')
      <4>1. Cardinality(accepted) =
              Cardinality(InReceiver) + Len(queue) + 1
                + Cardinality(handled) + Cardinality(dropped)
        BY <3>1, <2>2
      <4> DEFINE h == Cardinality(handled)
                 d == Cardinality(dropped)
                 h2 == Cardinality(handled')
                 d2 == Cardinality(dropped')
                 i == Cardinality(InReceiver)
                 l == Len(queue)
      <4>2. h \in Nat /\ d \in Nat /\ h2 \in Nat /\ d2 \in Nat /\ i \in Nat /\ l \in Nat
        BY <2>1
      <4>3. h2 + d2 = h + d + 1
        BY <1>6
      <4> HIDE DEF h, d, h2, d2, i, l
      <4>4. i + l + 1 + h + d = i + l + 0 + h2 + d2
        BY <4>2, <4>3
      <4> QED
        BY <4>1, <4>4 DEF h, d, h2, d2, i, l
    <3> QED
      BY <3>2, <3>3, <3>4, <2>2
  <2> QED
    BY <2>3, <1>1, <1>6 DEF JInv, Balance, ExactlyOnePlace, QueueDestroyed
<1> QED
  BY <1>5, <1>7

\* At the end of the server the list is gone.
LEMMA CleanupKeeps == ASSUME JInv, Cleanup PROVE Apart' /\ Balance'
<1>1. /\ queue' = <<>> /\ mainpc' = "freed"
      /\ UNCHANGED <<rpc, lastId, received, accepted, handled, dropped, dpc, popped>>
  BY DEF Cleanup, receiverVars, dispatcherVars
<1>2. DOMAIN queue' = {}
  BY <1>1
<1>3. QueuedIds' = {} /\ InDispatcher' = InDispatcher /\ Distinct(queue')
  BY <1>1, <1>2 DEF QueuedIds, InDispatcher, Distinct
<1>4. Apart'
  BY <1>1, <1>3 DEF JInv, Apart
<1>5. Balance'
  BY <1>1 DEF JInv, Balance, ExactlyOnePlace, QueueDestroyed
<1> QED
  BY <1>4, <1>5

LEMMA PlacesInductive == JInv /\ [Next]_vars => JInv'
<1> SUFFICES ASSUME JInv, [Next]_vars
             PROVE  Apart' /\ Balance'
  BY Inductive DEF JInv
<1>1. CASE Receive
  BY <1>1, ReceiveKeeps
<1>2. CASE Push
  BY <1>2, PushKeeps
<1>3. CASE PopTakes
  BY <1>3, PopKeeps
<1>4. CASE StartHandler \/ StartFails
  BY <1>4, StartKeeps
<1>5. CASE Cleanup
  BY <1>5, CleanupKeeps
<1>6. CASE \/ \E m \in Message : Send(m)
           \/ CheckStop \/ ReceiveNothing
           \/ PopLock \/ PopFindsNothing \/ PopWaits \/ PopStops
           \/ SpuriousWakeup \/ SigintSetsFlag \/ SigintBroadcasts
           \/ JoinReceiver \/ JoinDispatcher \/ Exit \/ UNCHANGED vars
  <2>1. /\ UNCHANGED <<queue, received, lastId, accepted, handled, dropped, popped>>
        /\ rpc' = "push" <=> rpc = "push"
        /\ dpc' = "start" <=> dpc = "start"
        /\ QueueDestroyed => QueueDestroyed'
    BY <1>6
       DEF Send, CheckStop, ReceiveNothing, PopLock, PopFindsNothing, PopWaits, PopStops,
           SpuriousWakeup, SigintSetsFlag, SigintBroadcasts, JoinReceiver, JoinDispatcher, Exit,
           QueueDestroyed, WakeDispatcher, vars, receiverVars, dispatcherVars
  <2>2. UNCHANGED InReceiver /\ UNCHANGED InDispatcher
    BY <2>1 DEF InReceiver, InDispatcher
  <2> QED
    BY <2>1, <2>2, UnmovedKeeps DEF JInv
<1> QED
  BY <1>1, <1>2, <1>3, <1>4, <1>5, <1>6 DEF Next, Receiver, Dispatcher, Main

LEMMA PlacesInit == Init => Apart /\ Balance
<1> SUFFICES ASSUME Init
             PROVE  Apart /\ Balance
  OBVIOUS
<1>1. DOMAIN queue = {} /\ Len(queue) = 0
  BY DEF Init
<1>2. QueuedIds = {} /\ InReceiver = {} /\ InDispatcher = {} /\ Distinct(queue)
  BY <1>1 DEF Init, QueuedIds, InReceiver, InDispatcher, Distinct
<1>3. Apart
  BY <1>2 DEF Init, Apart
<1>4. Balance
  BY <1>1, <1>2, FS_EmptySet DEF Init, Balance, ExactlyOnePlace, QueueDestroyed
<1> QED
  BY <1>3, <1>4

\* Until the server cleans up, no accepted emergency is lost on its way to a
\* handler and none gets two, for any number of messages and any interleaving.
THEOREM NoneLostNoneTwice == Spec => []ExactlyOnePlace
<1>1. Init => IInv
  BY InitInv
<1>2. JInv => ExactlyOnePlace
  BY DEF JInv, Balance
<1>3. Init => JInv
  BY <1>1, PlacesInit DEF JInv
<1> QED
  BY <1>2, <1>3, PlacesInductive, PTL DEF Spec
=============================================================================
