---------------------------- MODULE IntakeProofs ----------------------------
(***************************************************************************)
(* Theorems about the way of a request from the client to the server, for  *)
(* every input file, every limit and any number of servers started, ended  *)
(* or killed.                                                              *)
(***************************************************************************)
EXTENDS IntakeProperties, TLAPS, FiniteSetTheorems

LEMMA RequestFacts ==
  /\ Request \subseteq DOMAIN InputFile
  /\ Request \subseteq Nat \ {0}
  /\ Nobody \notin Request
  /\ IsFiniteSet(Request)
  /\ \A r \in Request : InputFile[r] \in LineRecord
<1>1. InputFile \in Seq(LineRecord) /\ Len(InputFile) \in Nat
  BY IntakeAssumption
<1>2. DOMAIN InputFile = 1..Len(InputFile)
  BY <1>1
<1>3. Request \subseteq 1..Len(InputFile)
  BY <1>2 DEF Request
<1>4. IsFiniteSet(Request)
  <2>1. IsFiniteSet(1..Len(InputFile))
    BY <1>1, FS_Interval
  <2> QED
    BY <1>3, <2>1, FS_Subset
<1> QED
  BY <1>1, <1>2, <1>3, <1>4 DEF Nobody

\* The first check a request fails, case by case.
LEMMA FaultFacts ==
  ASSUME NEW r \in Request
  PROVE  /\ FirstFault(r) \in Fault \cup {"nothing"}
         /\ FirstFault(r) = "name" <=> ~InputFile[r].known
         /\ FirstFault(r) = "time" <=> InputFile[r].known /\ ~validate_timestamp(r)
         /\ FirstFault(r) = "place" <=>
              InputFile[r].known /\ validate_timestamp(r) /\ ~InputFile[r].ongrid
<1>1. CASE ~InputFile[r].known
  BY <1>1 DEF FirstFault, Fault
<1>2. CASE InputFile[r].known /\ ~validate_timestamp(r)
  BY <1>2 DEF FirstFault, Fault
<1>3. CASE InputFile[r].known /\ validate_timestamp(r) /\ ~InputFile[r].ongrid
  BY <1>3 DEF FirstFault, Fault
<1>4. CASE InputFile[r].known /\ validate_timestamp(r) /\ InputFile[r].ongrid
  BY <1>4 DEF FirstFault, Fault
<1> QED
  BY <1>1, <1>2, <1>3, <1>4

-----------------------------------------------------------------------------
(* Type correctness *)

\* A server that runs was started and has not been killed.
KillsCounted == kills + (IF rpc = "down" THEN 0 ELSE 1) <= starts

\* The receiver holds a request exactly while it checks and answers it.
HoldsOne == cur # Nobody <=> rpc \in {"check", "blame", "push"}

TInv == TypeOK /\ KillsCounted /\ HoldsOne

LEMMA InitType == Init => TInv
<1> SUFFICES ASSUME Init
             PROVE  TInv
  OBVIOUS
<1>1. mq \in Seq(Request) /\ Len(mq) <= MaxMessages /\ MaxStarts \in Nat
  BY IntakeAssumption DEF Init
<1>2. KillsCounted
  BY DEF Init, KillsCounted
<1>3. HoldsOne
  BY DEF Init, HoldsOne
<1>4. /\ sender \in [Request -> {"none", "sleeping", "stamped", "done"}]
      /\ left \in [Request -> Nat]
      /\ age \in [Request -> Int]
      /\ verdict \in [Request -> {"none", "nothing"} \cup Fault]
      /\ logged \in [Request -> {"none", "valid", "nothing"} \cup Fault]
  BY DEF Init
<1>5. /\ cur \in Request \cup {Nobody} /\ answered \subseteq Request
      /\ memory \subseteq Request /\ closed \subseteq Request
      /\ starts \in 0..MaxStarts /\ kills \in 0..MaxStarts /\ line \in Nat \ {0}
  BY <1>1 DEF Init
<1>6. TypeOK
  BY <1>1, <1>4, <1>5 DEF Init, TypeOK
<1> QED
  BY <1>2, <1>3, <1>6 DEF TInv

LEMMA ClientType ==
  ASSUME TInv, ClientMain \/ \E r \in Request : Stamp(r) \/ Send(r) PROVE TInv'
<1>1. CASE OpenQueue \/ SkipLine \/ StopReading \/ JoinThreads
  BY <1>1 DEF OpenQueue, SkipLine, StopReading, JoinThreads, TInv, TypeOK, KillsCounted, HoldsOne,
              clientVars, clockVars, serverVars, resultVars
<1>2. CASE StartThread
  <2>1. InputFile[line].delay \in Nat
    BY <1>2, RequestFacts DEF StartThread, LineRecord
  <2> QED
    BY <1>2, <2>1 DEF StartThread, TInv, TypeOK, KillsCounted, HoldsOne, serverVars, resultVars
<1>3. ASSUME NEW r \in Request, Stamp(r) PROVE TInv'
  BY <1>3 DEF Stamp, TInv, TypeOK, KillsCounted, HoldsOne, serverVars, resultVars
<1>4. ASSUME NEW r \in Request, Send(r) PROVE TInv'
  <2>1. mq \in Seq(Request) /\ Len(mq) < MaxMessages /\ mq' = Append(mq, r)
    BY <1>4 DEF Send, TInv, TypeOK
  <2>2. mq' \in Seq(Request) /\ Len(mq') <= MaxMessages
    BY <2>1, IntakeAssumption
  <2> QED
    BY <1>4, <2>2 DEF Send, TInv, TypeOK, KillsCounted, HoldsOne, clockVars, serverVars, resultVars
<1> QED
  BY <1>1, <1>2, <1>3, <1>4 DEF ClientMain

LEMMA ReceiverType == ASSUME TInv, Receiver PROVE TInv'
<1>1. CASE CheckStop \/ ReceiveNothing
  BY <1>1 DEF CheckStop, ReceiveNothing, TInv, TypeOK, KillsCounted, HoldsOne, clientVars, clockVars,
              resultVars
<1>2. CASE TakeMessage
  <2>1. mq \in Seq(Request) /\ mq # <<>> /\ Len(mq) <= MaxMessages
    BY <1>2 DEF TakeMessage, TInv, TypeOK
  <2>2. /\ Head(mq) \in Request /\ Tail(mq) \in Seq(Request)
        /\ Len(Tail(mq)) <= MaxMessages
    BY <2>1, IntakeAssumption
  <2> QED
    BY <1>2, <2>2, RequestFacts
       DEF TakeMessage, TInv, TypeOK, KillsCounted, HoldsOne, clientVars, clockVars, resultVars
<1>3. CASE Check
  <2>1. cur \in Request
    BY <1>3, RequestFacts DEF Check, TInv, TypeOK, HoldsOne
  <2>2. FirstFault(cur) \in Fault \cup {"nothing"}
    BY <2>1, FaultFacts
  <2> QED
    BY <1>3, <2>1, <2>2 DEF Check, Log, TInv, TypeOK, KillsCounted, HoldsOne, clientVars, clockVars
<1>4. CASE Push \/ Blame
  <2>1. cur \in Request
    BY <1>4, RequestFacts DEF Push, Blame, TInv, TypeOK, HoldsOne
  <2>2. FirstFault(cur) \in Fault \cup {"nothing"}
    BY <2>1, FaultFacts
  <2>3. logged' \in [Request -> {"none", "valid", "nothing"} \cup Fault]
    BY <1>4, <2>1, <2>2 DEF Push, Blame, Log, TInv, TypeOK
  <2>4. Finish /\ rpc # "down"
    BY <1>4 DEF Push, Blame
  <2>5. memory' \subseteq Request
    BY <1>4, <2>1 DEF Push, Blame, TInv, TypeOK
  <2> QED
    BY <2>1, <2>3, <2>4, <2>5 DEF Finish, TInv, TypeOK, KillsCounted, HoldsOne, clientVars, clockVars
<1> QED
  BY <1>1, <1>2, <1>3, <1>4 DEF Receiver

LEMMA ServerType ==
  ASSUME TInv, \/ Start \/ Sigint \/ Unlink \/ Kill
               \/ \E r \in Request : Close(r)
  PROVE  TInv'
<1>0. MaxStarts \in Nat
  BY IntakeAssumption
<1>1. CASE Start
  <2>1. named' \in {"none", "same", "new"}
    BY <1>1 DEF Start, TInv, TypeOK
  <2> QED
    BY <1>0, <1>1, <2>1 DEF Start, TInv, TypeOK, KillsCounted, HoldsOne, clientVars, clockVars,
                            resultVars
<1>2. CASE Sigint
  BY <1>2 DEF Sigint, TInv, TypeOK, KillsCounted, HoldsOne, clientVars, clockVars, resultVars
<1>3. CASE Unlink
  <2>1. KillsCounted'
    BY <1>0, <1>3 DEF Unlink, Gone, TInv, TypeOK, KillsCounted
  <2>2. HoldsOne'
    BY <1>3 DEF Unlink, Gone, HoldsOne
  <2>3. TypeOK'
    BY <1>3 DEF Unlink, Gone, TInv, TypeOK, clientVars, clockVars, resultVars
  <2> QED
    BY <2>1, <2>2, <2>3 DEF TInv
<1>4. CASE Kill
  <2>1. KillsCounted' /\ kills' \in 0..MaxStarts
    BY <1>0, <1>4 DEF Kill, Gone, TInv, TypeOK, KillsCounted
  <2>2. HoldsOne'
    BY <1>4 DEF Kill, Gone, HoldsOne
  <2>3. TypeOK'
    BY <1>4, <2>1 DEF Kill, Gone, TInv, TypeOK, clientVars, clockVars, resultVars
  <2> QED
    BY <2>1, <2>2, <2>3 DEF TInv
<1>5. ASSUME NEW r \in Request, Close(r) PROVE TInv'
  BY <1>5 DEF Close, TInv, TypeOK, KillsCounted, HoldsOne, clientVars, clockVars
<1> QED
  BY <1>1, <1>2, <1>3, <1>4, <1>5

LEMMA ClockType == ASSUME TInv, Tick \/ SetClockBack PROVE TInv'
<1>1. CASE Tick
  <2>1. OldEnough \in Int
    BY IntakeAssumption DEF OldEnough
  <2>2. left' \in [Request -> Nat] /\ age' \in [Request -> Int]
    BY <1>1, <2>1 DEF Tick, Older, TInv, TypeOK
  <2> QED
    BY <1>1, <2>2 DEF Tick, TInv, TypeOK, KillsCounted, HoldsOne, clientVars, serverVars, resultVars
<1>2. CASE SetClockBack
  <2>1. age' \in [Request -> Int]
    BY <1>2, IntakeAssumption DEF SetClockBack, TInv, TypeOK
  <2> QED
    BY <1>2, <2>1 DEF SetClockBack, TInv, TypeOK, KillsCounted, HoldsOne, clientVars, serverVars,
                      resultVars
<1> QED
  BY <1>1, <1>2

LEMMA TypeStep == TInv /\ [Next]_vars => TInv'
<1>1. ASSUME TInv, UNCHANGED vars PROVE TInv'
  BY <1>1 DEF TInv, TypeOK, KillsCounted, HoldsOne, vars, clientVars, clockVars, serverVars,
              resultVars
<1> QED
  BY <1>1, ClientType, ReceiverType, ServerType, ClockType DEF Next

LEMMA TypeInvariant == Spec => []TInv
BY InitType, TypeStep, PTL DEF Spec

\* Client, queue, receiver and clock keep their types, for any input file and any
\* number of starts; the message queue keeps to mq_maxmsg.
THEOREM TypeCorrect == Spec => []TypeOK
BY TypeInvariant, PTL DEF TInv

-----------------------------------------------------------------------------
(* The client's reading loop *)

\* main() has started a thread for every request above the line it is at, and
\* stops at the end of the file or when it has started as many as it may.
Reading ==
  /\ Started = {r \in Request : r < line}
  /\ Cardinality(Started) <= MaxThreads
  /\ clientpc \in {"joining", "ended"} =>
       line \notin DOMAIN InputFile \/ Cardinality(Started) = MaxThreads

RInv == TInv /\ Reading

LEMMA StartedFinite ==
  ASSUME NEW S, S \subseteq Request PROVE IsFiniteSet(S) /\ Cardinality(S) \in Nat
BY RequestFacts, FS_Subset, FS_CardinalityType

LEMMA InitReading == Init => Reading
<1> SUFFICES ASSUME Init
             PROVE  Reading
  OBVIOUS
<1>1. Started = {}
  BY DEF Init, Started
<1>2. {r \in Request : r < line} = {}
  BY RequestFacts DEF Init
<1>3. Cardinality({}) = 0
  BY FS_EmptySet
<1> QED
  BY <1>1, <1>2, <1>3, IntakeAssumption DEF Init, Reading

LEMMA ReadingStep == RInv /\ [Next]_vars => Reading'
<1> SUFFICES ASSUME RInv, [Next]_vars
             PROVE  Reading'
  OBVIOUS
<1>1. CASE StartThread
  <2>1. /\ line \in Request /\ line' = line + 1 /\ line \in Nat /\ clientpc' = "reading"
        /\ Cardinality(Started) < MaxThreads
    BY <1>1 DEF StartThread, RoomForThread, RInv, TInv, TypeOK
  <2>2. Started' = Started \cup {line}
    BY <1>1 DEF StartThread, Started, RInv, TInv, TypeOK
  <2>3. Started' = {r \in Request : r < line'}
    <3>1. \A r \in Request : r < line + 1 <=> (r < line \/ r = line)
      BY <2>1, RequestFacts
    <3>2. Started = {r \in Request : r < line}
      BY DEF RInv, Reading
    <3> QED
      BY <2>1, <2>2, <3>1, <3>2
  <2>4. line \notin Started
    BY <2>1 DEF RInv, Reading
  <2>5. IsFiniteSet(Started) /\ Cardinality(Started) \in Nat
    BY StartedFinite DEF Started
  <2>6. Cardinality(Started \cup {line}) = Cardinality(Started) + 1
    BY <2>4, <2>5, FS_AddElement
  <2> QED
    BY <2>1, <2>2, <2>3, <2>5, <2>6, IntakeAssumption DEF Reading
<1>2. CASE SkipLine
  <2>1. /\ line' = line + 1 /\ line \in Nat /\ line \notin Request
        /\ clientpc' = clientpc /\ clientpc = "reading" /\ UNCHANGED Started
    BY <1>2 DEF SkipLine, RInv, TInv, TypeOK, Started
  <2>2. {r \in Request : r < line'} = {r \in Request : r < line}
    BY <2>1, RequestFacts
  <2> QED
    BY <2>1, <2>2 DEF RInv, Reading
<1>3. CASE StopReading
  <2>1. UNCHANGED <<line, Started>>
    BY <1>3 DEF StopReading, Started
  <2>2. Cardinality(Started) \in Nat
    BY StartedFinite DEF Started
  <2>3. line \notin DOMAIN InputFile \/ Cardinality(Started) = MaxThreads
    BY <1>3, <2>2, IntakeAssumption DEF StopReading, RoomForThread, RInv, Reading
  <2> QED
    BY <2>1, <2>3 DEF RInv, Reading
<1>4. CASE OpenQueue \/ JoinThreads
  BY <1>4 DEF OpenQueue, JoinThreads, RInv, Reading, Started
<1>5. ASSUME NEW r \in Request, Stamp(r) \/ Send(r) PROVE Reading'
  <2>1. UNCHANGED <<clientpc, line, Started>>
    BY <1>5 DEF Stamp, Send, RInv, TInv, TypeOK, Started
  <2> QED
    BY <2>1 DEF RInv, Reading
<1>6. CASE \/ Receiver \/ Start \/ Sigint \/ Unlink \/ Kill \/ Tick \/ SetClockBack
           \/ UNCHANGED vars \/ \E r \in Request : Close(r)
  <2>1. UNCHANGED clientVars
    BY <1>6 DEF Receiver, CheckStop, ReceiveNothing, TakeMessage, Check, Push, Blame, Finish,
                Close, Start, Sigint, Unlink, Kill, Tick, SetClockBack, vars
  <2> QED
    BY <2>1 DEF clientVars, RInv, Reading, Started
<1> QED
  BY <1>1, <1>2, <1>3, <1>4, <1>5, <1>6 DEF Next, ClientMain

LEMMA ReadingInvariant == Spec => []RInv
<1>1. Init => RInv
  BY InitType, InitReading DEF RInv
<1>2. RInv /\ [Next]_vars => RInv'
  BY TypeStep, ReadingStep DEF RInv
<1> QED
  BY <1>1, <1>2, PTL DEF Spec

\* Where the loop stops decides which requests have a thread: the first ones.
LEMMA StoppedAtLimit ==
  ASSUME RInv, clientpc \in {"joining", "ended"}
  PROVE  Started = {r \in Request : Cardinality({q \in Request : q <= r}) <= MaxThreads}
<1> DEFINE UpTo(r) == {q \in Request : q <= r}
<1>0. Started = {r \in Request : r < line} /\ line \in Nat /\ MaxThreads \in Nat
  BY IntakeAssumption DEF RInv, Reading, TInv, TypeOK
<1>1. IsFiniteSet(Started) /\ Cardinality(Started) \in Nat /\ Cardinality(Started) <= MaxThreads
  BY StartedFinite DEF Started, RInv, Reading
<1>2. ASSUME NEW r \in Started PROVE Cardinality(UpTo(r)) <= MaxThreads
  <2>1. UpTo(r) \subseteq Started
    BY <1>0, RequestFacts
  <2>2. Cardinality(UpTo(r)) <= Cardinality(Started) /\ Cardinality(UpTo(r)) \in Nat
    BY <1>1, <2>1, FS_Subset, FS_CardinalityType
  <2> QED
    BY <1>0, <1>1, <2>2
<1>3. ASSUME NEW r \in Request \ Started PROVE ~(Cardinality(UpTo(r)) <= MaxThreads)
  <2>1. r \in Nat /\ line <= r /\ r \in DOMAIN InputFile
    BY <1>0, RequestFacts
  <2>2. line \in DOMAIN InputFile
    BY <1>0, <2>1, IntakeAssumption DEF RInv, TInv, TypeOK
  <2>3. Cardinality(Started) = MaxThreads
    BY <2>2 DEF RInv, Reading
  <2>4. Started \cup {r} \subseteq UpTo(r)
    BY <1>0, <2>1, RequestFacts
  <2>5. Cardinality(Started \cup {r}) = MaxThreads + 1
    BY <1>1, <2>3, FS_AddElement
  <2>6. IsFiniteSet(UpTo(r))
    BY StartedFinite
  <2>7. Cardinality(Started \cup {r}) <= Cardinality(UpTo(r)) /\ Cardinality(UpTo(r)) \in Nat
    BY <2>4, <2>6, FS_Subset, FS_CardinalityType
  <2> QED
    BY <1>0, <2>5, <2>7
<1> QED
  BY <1>0, <1>2, <1>3

\* The client sends exactly the first requests of its file, for any file and any
\* limit: lines that are skipped take nobody's place.
THEOREM FirstOnes == Spec => []FirstRequestsOnly
<1>1. RInv => FirstRequestsOnly
  BY StoppedAtLimit DEF FirstRequestsOnly
<1> QED
  BY <1>1, ReadingInvariant, PTL

-----------------------------------------------------------------------------
(* Every request is in one place *)

Distinct(q) == \A i, j \in DOMAIN q : q[i] = q[j] => i = j
Elements(q) == {q[i] : i \in DOMAIN q}

LEMMA PostedOneMore ==
  ASSUME NEW q \in Seq(Request), NEW r \in Request, r \notin Elements(q), Distinct(q)
  PROVE  Distinct(Append(q, r)) /\ Elements(Append(q, r)) = Elements(q) \cup {r}
<1>1. Len(q) \in Nat /\ DOMAIN q = 1..Len(q) /\ DOMAIN Append(q, r) = 1..(Len(q) + 1)
  OBVIOUS
<1>2. (\A i \in 1..Len(q) : Append(q, r)[i] = q[i]) /\ Append(q, r)[Len(q) + 1] = r
  OBVIOUS
<1>3. \A i \in 1..Len(q) : q[i] # r
  BY <1>1 DEF Elements
<1> HIDE DEF Elements
<1>4. Distinct(Append(q, r))
  BY <1>1, <1>2, <1>3 DEF Distinct
<1>5. Elements(Append(q, r)) = Elements(q) \cup {r}
  BY <1>1, <1>2 DEF Elements
<1> QED
  BY <1>4, <1>5

LEMMA TakenFirst ==
  ASSUME NEW q \in Seq(Request), q # <<>>, Distinct(q)
  PROVE  /\ Head(q) \in Elements(q)
         /\ Distinct(Tail(q))
         /\ Elements(Tail(q)) = Elements(q) \ {Head(q)}
<1>1. /\ Len(q) \in Nat \ {0} /\ DOMAIN q = 1..Len(q)
      /\ DOMAIN Tail(q) = 1..(Len(q) - 1)
  OBVIOUS
<1>2. Head(q) = q[1] /\ \A i \in 1..(Len(q) - 1) : Tail(q)[i] = q[i + 1]
  OBVIOUS
<1>3. Distinct(Tail(q))
  BY <1>1, <1>2 DEF Distinct
<1>4. \A i \in DOMAIN q : i = 1 \/ (i - 1 \in DOMAIN Tail(q) /\ Tail(q)[i - 1] = q[i])
  BY <1>1, <1>2
<1>5. \A i \in DOMAIN Tail(q) : Tail(q)[i] \in Elements(q) /\ Tail(q)[i] # q[1]
  BY <1>1, <1>2 DEF Elements, Distinct
<1>6. Elements(q) \subseteq {q[1]} \cup Elements(Tail(q))
  BY <1>4 DEF Elements
<1>7. Elements(Tail(q)) \subseteq Elements(q) \ {q[1]}
  BY <1>5 DEF Elements
<1>8. q[1] \in Elements(q)
  BY <1>1 DEF Elements
<1> QED
  BY <1>2, <1>3, <1>6, <1>7, <1>8

\* In the queue, in the receiver's hands and answered are places that do not
\* overlap, and only what was sent is in one of them.
Places ==
  /\ Distinct(mq)
  /\ cur \notin Posted
  /\ Posted \cap answered = {}
  /\ cur \notin answered
  /\ Posted \cup answered \cup ({cur} \ {Nobody}) \subseteq Sent

PInv == RInv /\ Places

LEMMA InitPlaces == Init => Places
BY RequestFacts DEF Init, Places, Distinct, Posted

\* A step that moves no request.
LEMMA UnmovedPlaces ==
  ASSUME Places, UNCHANGED <<mq, cur, answered, sender>> PROVE Places'
BY DEF Places, Distinct, Posted, Sent

\* The queue, the receiver's hands and the answered requests after each step that
\* changes them; the refinement and the count of the losses rest on it.
LEMMA SendMoves ==
  ASSUME PInv, NEW r \in Request, Send(r)
  PROVE  /\ Sent' = Sent \cup {r} /\ Posted' = Posted \cup {r} /\ Distinct(mq')
         /\ r \notin Posted \cup answered \cup {cur}
         /\ UNCHANGED <<cur, answered>>
<1>1. r \notin Sent /\ Sent' = Sent \cup {r}
  BY DEF PInv, RInv, TInv, TypeOK, Send, Sent
<1>2. r \notin Posted \cup answered \cup {cur}
  BY <1>1, RequestFacts DEF PInv, Places
<1>3. mq' = Append(mq, r) /\ mq \in Seq(Request) /\ UNCHANGED <<cur, answered>>
  BY DEF Send, PInv, RInv, TInv, TypeOK, serverVars, resultVars
<1> QED
  BY <1>1, <1>2, <1>3, PostedOneMore DEF Elements, Posted, PInv, Places

LEMMA TakeMoves ==
  ASSUME PInv, TakeMessage
  PROVE  /\ cur = Nobody /\ cur' \in Posted /\ cur' \in Request
         /\ Posted' = Posted \ {cur'} /\ Distinct(mq')
         /\ UNCHANGED <<sender, answered>>
<1>1. /\ mq \in Seq(Request) /\ mq # <<>> /\ Distinct(mq)
      /\ cur' = Head(mq) /\ mq' = Tail(mq) /\ cur = Nobody
      /\ UNCHANGED <<sender, answered>>
  BY DEF TakeMessage, PInv, RInv, TInv, TypeOK, HoldsOne, Places, clientVars, resultVars
<1>2. Head(mq) \in Request
  BY <1>1
<1> QED
  BY <1>1, <1>2, TakenFirst DEF Elements, Posted

LEMMA AnswerMoves ==
  ASSUME PInv, Push \/ Blame
  PROVE  /\ cur \in Request /\ cur' = Nobody /\ answered' = answered \cup {cur}
         /\ UNCHANGED <<mq, sender>>
BY DEF Push, Blame, Finish, PInv, RInv, TInv, TypeOK, HoldsOne, clientVars

LEMMA KillMoves ==
  ASSUME PInv, Kill \/ Unlink
  PROVE  /\ cur' = Nobody /\ UNCHANGED <<mq, sender, answered>>
         /\ Unlink => cur = Nobody
BY DEF Kill, Unlink, Gone, PInv, RInv, TInv, HoldsOne, clientVars, resultVars

LEMMA OthersMoveNothing ==
  ASSUME \/ OpenQueue \/ SkipLine \/ StopReading \/ JoinThreads
         \/ CheckStop \/ ReceiveNothing \/ Check \/ Start \/ Sigint \/ Tick
         \/ SetClockBack \/ UNCHANGED vars \/ \E r \in Request : Close(r)
  PROVE  UNCHANGED <<mq, cur, answered, sender>>
BY DEF OpenQueue, SkipLine, StopReading, JoinThreads, CheckStop, ReceiveNothing, Check, Close,
       Start, Sigint, Tick, SetClockBack, vars, clientVars, clockVars, serverVars, resultVars

\* Starting a thread and stamping a request change where its sender is, but a
\* request that is not sent stays unsent.
LEMMA SendersMoveNothing ==
  ASSUME PInv, StartThread \/ \E r \in Request : Stamp(r)
  PROVE  UNCHANGED <<mq, cur, answered, Sent>>
<1>1. UNCHANGED <<mq, cur, answered>>
  BY DEF StartThread, Stamp, serverVars, resultVars
<1>2. UNCHANGED Sent
  <2>1. PICK r \in Request :
          \/ sender[r] = "sleeping" /\ sender' = [sender EXCEPT ![r] = "stamped"]
          \/ StartThread /\ r = line /\ sender' = [sender EXCEPT ![r] = "sleeping"]
    BY DEF StartThread, Stamp
  <2>2. sender[r] # "done"
    <3>1. CASE StartThread /\ r = line
      <4>1. line \notin Started
        BY <3>1 DEF PInv, RInv, TInv, TypeOK, Reading
      <4> QED
        BY <3>1, <4>1 DEF Started
    <3> QED
      BY <2>1, <3>1
  <2> QED
    BY <2>1, <2>2 DEF PInv, RInv, TInv, TypeOK, Sent
<1> QED
  BY <1>1, <1>2

LEMMA PlacesStep == PInv /\ [Next]_vars => Places'
<1> SUFFICES ASSUME PInv, [Next]_vars
             PROVE  Places'
  OBVIOUS
<1>1. ASSUME NEW r \in Request, Send(r) PROVE Places'
  BY <1>1, SendMoves DEF PInv, Places
<1>2. CASE TakeMessage
  BY <1>2, TakeMoves DEF PInv, Places, Sent
<1>3. CASE Push \/ Blame
  <2>1. Nobody \notin Posted \cup answered
    BY RequestFacts DEF PInv, RInv, TInv, TypeOK, Places, Sent
  <2> QED
    BY <1>3, <2>1, AnswerMoves, RequestFacts DEF PInv, Places, Posted, Sent, Distinct
<1>4. CASE Kill \/ Unlink
  <2>1. Nobody \notin Posted \cup answered
    BY RequestFacts DEF PInv, RInv, TInv, TypeOK, Places, Sent
  <2> QED
    BY <1>4, <2>1, KillMoves DEF PInv, Places, Posted, Sent, Distinct
<1>5. CASE StartThread \/ \E r \in Request : Stamp(r)
  BY <1>5, SendersMoveNothing DEF PInv, Places, Posted, Distinct
<1>6. CASE \/ OpenQueue \/ SkipLine \/ StopReading \/ JoinThreads
           \/ CheckStop \/ ReceiveNothing \/ Check \/ Start \/ Sigint \/ Tick
           \/ SetClockBack \/ UNCHANGED vars \/ \E r \in Request : Close(r)
  BY <1>6, OthersMoveNothing, UnmovedPlaces DEF PInv
<1> QED
  BY <1>1, <1>2, <1>3, <1>4, <1>5, <1>6 DEF Next, ClientMain, Receiver

LEMMA PlacesInvariant == Spec => []PInv
<1>1. Init => PInv
  BY InitType, InitReading, InitPlaces DEF PInv, RInv
<1>2. PInv /\ [Next]_vars => PInv'
  BY TypeStep, ReadingStep, PlacesStep DEF PInv, RInv
<1> QED
  BY <1>1, <1>2, PTL DEF Spec

-----------------------------------------------------------------------------
(* The abstract postbox *)

LEMMA InitBox == Init => AbstractBox!Init
BY DEF Init, AbstractBox!Init

LEMMA StepOfBox == PInv /\ [Next]_vars => [AbstractBox!Next]_(AbstractBox!vars)
<1> SUFFICES ASSUME PInv, [Next]_vars
             PROVE  AbstractBox!Next \/ UNCHANGED AbstractBox!vars
  OBVIOUS
<1>0. ASSUME UNCHANGED <<mq, cur, answered>> PROVE UNCHANGED AbstractBox!vars
  BY <1>0 DEF AbstractBox!vars
<1>1. ASSUME NEW r \in Request, Send(r) PROVE AbstractBox!Post(r)
  BY <1>1, SendMoves DEF Send, AbstractBox!Post, AbstractBox!Waiting, Posted
<1>2. CASE TakeMessage
  BY <1>2, TakeMoves, RequestFacts DEF TakeMessage, AbstractBox!Next, AbstractBox!Take
<1>3. CASE Push \/ Blame
  BY <1>3, AnswerMoves, RequestFacts DEF AbstractBox!Next, AbstractBox!Answer
<1>4. CASE Kill \/ Unlink
  <2>1. CASE cur = Nobody
    BY <1>0, <1>4, <2>1, KillMoves
  <2>2. CASE cur # Nobody
    BY <1>4, <2>2, KillMoves DEF AbstractBox!Next, AbstractBox!Lose
  <2> QED
    BY <2>1, <2>2
<1>5. CASE StartThread \/ \E r \in Request : Stamp(r)
  <2>1. UNCHANGED <<mq, cur, answered>>
    BY <1>5, SendersMoveNothing
  <2> QED
    BY <1>0, <2>1
<1>6. CASE \/ OpenQueue \/ SkipLine \/ StopReading \/ JoinThreads
           \/ CheckStop \/ ReceiveNothing \/ Check \/ Start \/ Sigint \/ Tick
           \/ SetClockBack \/ UNCHANGED vars \/ \E r \in Request : Close(r)
  <2>1. UNCHANGED <<mq, cur, answered>>
    BY <1>6, OthersMoveNothing
  <2> QED
    BY <1>0, <2>1
<1> QED
  BY <1>1, <1>2, <1>3, <1>4, <1>5, <1>6 DEF Next, ClientMain, Receiver, AbstractBox!Next

\* Queue and receiver are a postbox, across any number of restarts: requests are
\* taken in the order they were posted, and answered once or lost in hand.
THEOREM ImplementsPostbox == Spec => PostboxRefinement
BY InitBox, StepOfBox, PlacesInvariant, PTL DEF Spec, PostboxRefinement, AbstractBox!Spec

-----------------------------------------------------------------------------
(* What a server that dies takes with it *)

\* A server that dies takes at most one request out of the receiver's hands.
HandLosses == Cardinality(LostInHand) <= kills

LEMMA LossStep ==
  ASSUME PInv, PInv', HandLosses, [Next]_vars PROVE HandLosses'
<1> USE DEF HandLosses, LostInHand
<1>0. kills \in Nat /\ IsFiniteSet(LostInHand) /\ Cardinality(LostInHand) \in Nat
  <2>1. LostInHand \subseteq Request
    BY DEF Sent
  <2> QED
    BY <2>1, StartedFinite, IntakeAssumption DEF PInv, RInv, TInv, TypeOK
<1>1. ASSUME NEW r \in Request, Send(r) PROVE HandLosses'
  <2>1. UNCHANGED LostInHand
    <3>1. /\ Sent' = Sent \cup {r} /\ Posted' = Posted \cup {r}
          /\ UNCHANGED <<cur, answered>>
      BY <1>1, SendMoves
    <3>2. r \notin Sent
      BY <1>1 DEF Send, Sent
    <3> QED
      BY <3>1, <3>2
  <2> QED
    BY <1>1, <2>1 DEF Send, serverVars
<1>2. CASE TakeMessage
  <2>1. UNCHANGED LostInHand
    <3>1. Nobody \notin Sent
      BY RequestFacts DEF Sent
    <3>2. Sent' = Sent
      BY <1>2, TakeMoves DEF Sent
    <3> QED
      BY <1>2, <3>1, <3>2, TakeMoves
  <2> QED
    BY <1>2, <2>1 DEF TakeMessage
<1>3. CASE Push \/ Blame
  <2>1. UNCHANGED LostInHand
    <3>1. Nobody \notin Sent
      BY RequestFacts DEF Sent
    <3>2. Sent' = Sent /\ Posted' = Posted
      BY <1>3, AnswerMoves DEF Sent, Posted
    <3> QED
      BY <1>3, <3>1, <3>2, AnswerMoves
  <2> QED
    BY <1>3, <2>1 DEF Push, Blame, Finish
<1>4. CASE Kill
  <2>1. LostInHand' \subseteq LostInHand \cup {cur}
    BY <1>4, KillMoves DEF Sent, Posted
  <2>2. /\ IsFiniteSet(LostInHand \cup {cur})
        /\ Cardinality(LostInHand \cup {cur}) <= Cardinality(LostInHand) + 1
    <3> HIDE DEF LostInHand
    <3> QED
      BY <1>0, FS_AddElement
  <2>3. /\ Cardinality(LostInHand') <= Cardinality(LostInHand \cup {cur})
        /\ Cardinality(LostInHand') \in Nat
    BY <2>1, <2>2, FS_Subset, FS_CardinalityType
  <2>4. Cardinality(LostInHand \cup {cur}) \in Nat
    BY <2>2, FS_CardinalityType
  <2> QED
    BY <1>0, <1>4, <2>2, <2>3, <2>4 DEF Kill
<1>5. CASE Unlink
  <2>1. UNCHANGED LostInHand
    BY <1>5, KillMoves DEF Sent, Posted
  <2> QED
    BY <1>5, <2>1 DEF Unlink
<1>6. CASE StartThread \/ \E r \in Request : Stamp(r)
  <2>1. UNCHANGED LostInHand
    BY <1>6, SendersMoveNothing DEF Posted
  <2> QED
    BY <1>6, <2>1 DEF StartThread, Stamp, serverVars
<1>7. CASE \/ OpenQueue \/ SkipLine \/ StopReading \/ JoinThreads
           \/ CheckStop \/ ReceiveNothing \/ Check \/ Start \/ Sigint \/ Tick
           \/ SetClockBack \/ UNCHANGED vars \/ \E r \in Request : Close(r)
  <2>1. UNCHANGED LostInHand
    BY <1>7, OthersMoveNothing DEF Sent, Posted
  <2>2. kills' = kills
    BY <1>7 DEF OpenQueue, SkipLine, StopReading, JoinThreads, CheckStop, ReceiveNothing, Check,
                Close, Start, Sigint, Tick, SetClockBack, vars, serverVars
  <2> QED
    BY <2>1, <2>2
<1> QED
  BY <1>1, <1>2, <1>3, <1>4, <1>5, <1>6, <1>7 DEF Next, ClientMain, Receiver

LEMMA HandLossesCounted == Spec => []HandLosses
<1>1. Init => HandLosses
  <2> SUFFICES ASSUME Init PROVE HandLosses
    OBVIOUS
  <2>1. Sent = {}
    BY DEF Init, Sent
  <2>2. LostInHand = {} /\ Cardinality({}) = 0
    BY <2>1, FS_EmptySet DEF LostInHand
  <2> QED
    BY <2>2 DEF Init, HandLosses
<1> QED
  BY <1>1, LossStep, PlacesInvariant, PTL DEF Spec

-----------------------------------------------------------------------------
(* The log and the verdict *)

\* While the clock was never set back no stamp lies in the future.
NoFuture == ~setback => \A r \in Request : age[r] >= 0

\* Between its check and its log line: what the check found is still known, and a
\* stamp that was too old stays so unless the clock is set back.
Judged ==
  /\ rpc = "push" => verdict[cur] = "nothing" /\ logged[cur] = "valid"
  /\ rpc = "blame" =>
       /\ verdict[cur] \in Fault
       /\ verdict[cur] = "name" <=> ~InputFile[cur].known
       /\ verdict[cur] = "place" => ~InputFile[cur].ongrid
       /\ verdict[cur] = "time" /\ ~setback => age[cur] > MaxAge

LInv == PInv /\ NoFuture /\ Judged /\ LogTellsVerdict

LEMMA InitLog == Init => NoFuture /\ Judged /\ LogTellsVerdict
BY DEF Init, NoFuture, Judged, LogTellsVerdict

LEMMA CheckJudges ==
  ASSUME LInv, Check PROVE NoFuture' /\ Judged' /\ LogTellsVerdict'
<1>1. /\ cur \in Request /\ cur \notin answered /\ cur' = cur
      /\ verdict' = [verdict EXCEPT ![cur] = FirstFault(cur)]
      /\ UNCHANGED <<age, setback, answered>>
  BY RequestFacts DEF Check, LInv, PInv, RInv, TInv, TypeOK, HoldsOne, Places, clockVars
<1>2. verdict'[cur] = FirstFault(cur)
  BY <1>1 DEF LInv, PInv, RInv, TInv, TypeOK
<1>3. NoFuture'
  BY <1>1 DEF LInv, NoFuture
<1>4. CASE FirstFault(cur) = "nothing"
  <2>1. rpc' = "push" /\ logged' = [logged EXCEPT ![cur] = "valid"]
    BY <1>4 DEF Check, Log
  <2>2. logged'[cur] = "valid"
    BY <1>1, <2>1 DEF LInv, PInv, RInv, TInv, TypeOK
  <2>3. Judged'
    BY <1>1, <1>2, <1>4, <2>1, <2>2 DEF Judged
  <2>4. LogTellsVerdict'
    BY <1>1, <2>1 DEF LInv, PInv, RInv, TInv, TypeOK, LogTellsVerdict
  <2> QED
    BY <1>3, <2>3, <2>4
<1>5. CASE FirstFault(cur) # "nothing"
  <2>1. rpc' = "blame" /\ logged' = logged
    BY <1>5 DEF Check
  <2>2. FirstFault(cur) = "time" /\ ~setback => age[cur] > MaxAge
    <3>1. FirstFault(cur) = "time" => ~validate_timestamp(cur)
      BY <1>1, FaultFacts
    <3>2. ~setback => age[cur] >= 0
      BY <1>1 DEF LInv, NoFuture
    <3>3. age[cur] \in Int
      BY <1>1 DEF LInv, PInv, RInv, TInv, TypeOK
    <3> QED
      BY <3>1, <3>2, <3>3, IntakeAssumption DEF validate_timestamp
  <2>3. Judged'
    BY <1>1, <1>2, <1>5, <2>1, <2>2, FaultFacts DEF Judged
  <2>4. LogTellsVerdict'
    BY <1>1, <2>1 DEF LInv, PInv, RInv, TInv, TypeOK, LogTellsVerdict
  <2> QED
    BY <1>3, <2>3, <2>4
<1> QED
  BY <1>4, <1>5

LEMMA AnswerTells ==
  ASSUME LInv, Push \/ Blame PROVE NoFuture' /\ Judged' /\ LogTellsVerdict'
<1>1. /\ cur \in Request /\ cur \notin answered
      /\ answered' = answered \cup {cur} /\ rpc' = "poll"
      /\ UNCHANGED <<age, setback, verdict>>
  BY AnswerMoves DEF Push, Blame, Finish, LInv, PInv, Places, clockVars
<1>2. NoFuture' /\ Judged'
  BY <1>1 DEF LInv, NoFuture, Judged
<1>3. CASE Push
  BY <1>1, <1>2, <1>3 DEF Push, LInv, Judged, LogTellsVerdict
<1>4. CASE Blame
  <2>1. logged' = [logged EXCEPT ![cur] = FirstFault(cur)] /\ rpc = "blame"
    BY <1>4 DEF Blame, Log
  <2>2. /\ logged'[cur] = FirstFault(cur)
        /\ \A r \in answered : logged'[r] = logged[r]
    BY <1>1, <2>1 DEF LInv, PInv, RInv, TInv, TypeOK
  <2>3. \/ FirstFault(cur) \in Fault /\ FirstFault(cur) = verdict[cur]
        \/ FirstFault(cur) = "time" /\ verdict[cur] = "place"
        \/ verdict[cur] = "time" /\ FirstFault(cur) \in {"nothing", "place"} /\ setback
    <3>1. verdict[cur] = "time" /\ ~setback => ~validate_timestamp(cur)
      BY <1>1, <2>1, IntakeAssumption
         DEF validate_timestamp, LInv, Judged, PInv, RInv, TInv, TypeOK
    <3> QED
      BY <1>1, <2>1, <3>1, FaultFacts DEF LInv, Judged, Fault
  <2> QED
    BY <1>1, <1>2, <2>2, <2>3 DEF LInv, LogTellsVerdict
<1> QED
  BY <1>2, <1>3, <1>4

LEMMA ClockKeeps ==
  ASSUME LInv, Tick \/ SetClockBack PROVE NoFuture' /\ Judged' /\ LogTellsVerdict'
<1>1. /\ UNCHANGED <<rpc, cur, verdict, logged, answered>>
      /\ setback => setback'
  BY DEF Tick, SetClockBack, serverVars, resultVars
<1>2. ASSUME ~setback'
      PROVE  ~setback /\ \A r \in Request : age'[r] >= age[r]
  <2>1. Tick
    BY <1>2 DEF SetClockBack
  <2> QED
    BY <1>2, <2>1, IntakeAssumption DEF Tick, Older, OldEnough, LInv, PInv, RInv, TInv, TypeOK
<1>3. age \in [Request -> Int] /\ age' \in [Request -> Int] /\ MaxAge \in Nat
  BY ClockType, IntakeAssumption DEF LInv, PInv, RInv, TInv, TypeOK
<1>4. NoFuture'
  BY <1>2, <1>3 DEF LInv, NoFuture
<1>5. Judged'
  <2>1. rpc = "blame" => cur \in Request
    BY DEF LInv, PInv, RInv, TInv, TypeOK, HoldsOne
  <2> QED
    BY <1>1, <1>2, <1>3, <2>1 DEF LInv, Judged
<1>6. LogTellsVerdict'
  BY <1>1 DEF LInv, LogTellsVerdict
<1> QED
  BY <1>4, <1>5, <1>6

\* The other steps of the server end what the receiver was doing or do not touch it.
LEMMA ServerKeeps ==
  ASSUME LInv, \/ CheckStop \/ ReceiveNothing \/ TakeMessage
               \/ \E r \in Request : Close(r)
               \/ Start \/ Sigint \/ Unlink \/ Kill
  PROVE  NoFuture' /\ Judged' /\ LogTellsVerdict'
<1>1. UNCHANGED <<age, setback, verdict, logged, answered>>
  BY DEF CheckStop, ReceiveNothing, TakeMessage, Close, Start, Sigint, Unlink, Kill, clockVars,
         resultVars
<1>2. UNCHANGED <<rpc, cur>> \/ rpc' \notin {"push", "blame"}
  BY DEF CheckStop, ReceiveNothing, TakeMessage, Close, Start, Sigint, Unlink, Kill, Gone
<1> QED
  BY <1>1, <1>2 DEF LInv, NoFuture, Judged, LogTellsVerdict

LEMMA ClientKeeps ==
  ASSUME LInv, \/ ClientMain \/ UNCHANGED vars
               \/ \E r \in Request : Stamp(r) \/ Send(r)
  PROVE  NoFuture' /\ Judged' /\ LogTellsVerdict'
<1>1. CASE \/ ClientMain \/ UNCHANGED vars
           \/ \E r \in Request : Send(r)
  <2>1. UNCHANGED <<age, setback, rpc, cur, verdict, logged, answered>>
    BY <1>1 DEF ClientMain, OpenQueue, SkipLine, StartThread, StopReading, JoinThreads, Send,
                vars, clockVars, serverVars, resultVars
  <2> QED
    BY <2>1 DEF LInv, NoFuture, Judged, LogTellsVerdict
<1>2. ASSUME NEW r \in Request, Stamp(r)
      PROVE  NoFuture' /\ Judged' /\ LogTellsVerdict'
  <2>1. /\ UNCHANGED <<setback, rpc, cur, verdict, logged, answered>>
        /\ age' = [age EXCEPT ![r] = 0] /\ sender[r] = "sleeping"
    BY <1>2 DEF Stamp, serverVars, resultVars
  <2>2. cur # Nobody => cur # r
    BY <2>1 DEF LInv, PInv, Places, Sent
  <2>3. rpc = "blame" => age'[cur] = age[cur]
    BY <2>1, <2>2 DEF LInv, PInv, RInv, TInv, TypeOK, HoldsOne
  <2>4. NoFuture'
    BY <2>1 DEF LInv, NoFuture, PInv, RInv, TInv, TypeOK
  <2> QED
    BY <2>1, <2>3, <2>4 DEF LInv, Judged, LogTellsVerdict
<1> QED
  BY <1>1, <1>2

LEMMA LogStep == LInv /\ [Next]_vars => NoFuture' /\ Judged' /\ LogTellsVerdict'
BY CheckJudges, AnswerTells, ClockKeeps, ServerKeeps, ClientKeeps DEF Next, Receiver

LEMMA LogInvariant == Spec => []LInv
<1>1. Init => NoFuture /\ Judged /\ LogTellsVerdict
  BY InitLog
<1>2. LInv /\ [Next]_vars => NoFuture' /\ Judged' /\ LogTellsVerdict'
  BY LogStep
<1> QED
  BY <1>1, <1>2, PlacesInvariant, PTL DEF LInv, Spec

\* The log agrees with the verdict but for the named ways a moving clock makes it
\* differ, whatever the limits, the delays and the moment the clock is set back.
THEOREM LogAgrees == Spec => []LogTellsVerdict
BY LogInvariant, PTL DEF LInv

\* However many requests there are and however much the servers that ended or died
\* had accepted, the log names all that was lost but for one request per kill.
THEOREM OneUnloggedPerKill == Spec => []LosesOneUnlogged
<1>1. ASSUME LInv, HandLosses PROVE LosesOneUnlogged
  <2> DEFINE Unlogged == {r \in Lost : logged[r] = "none"}
  <2>1. \A r \in answered : logged[r] # "none"
    BY <1>1 DEF LInv, LogTellsVerdict, Fault
  <2>2. Unlogged \subseteq LostInHand
    BY <2>1 DEF Lost, LostInHand
  <2>3. LostInHand \subseteq Request
    BY DEF LostInHand, Sent
  <2>4. IsFiniteSet(LostInHand) /\ Cardinality(LostInHand) \in Nat
    BY <2>3, StartedFinite
  <2>5. Cardinality(Unlogged) <= Cardinality(LostInHand) /\ Cardinality(Unlogged) \in Nat
    BY <2>2, <2>4, FS_Subset, FS_CardinalityType
  <2>6. kills \in Nat
    BY <1>1, IntakeAssumption DEF LInv, PInv, RInv, TInv, TypeOK
  <2> QED
    BY <1>1, <2>4, <2>5, <2>6 DEF HandLosses, LosesOneUnlogged
<1> QED
  BY <1>1, LogInvariant, HandLossesCounted, PTL
=============================================================================
