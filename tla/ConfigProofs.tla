---------------------------- MODULE ConfigProofs ----------------------------
(***************************************************************************)
(* Theorems about the parsers, for all configuration files and all limits. *)
(* Here are their types and bounds, and parse_env; the lists of rescuers   *)
(* and emergency types are in ListProofs.                                  *)
(***************************************************************************)
EXTENDS ConfigProperties, TLAPS, WellFoundedInduction, SequenceTheorems

-----------------------------------------------------------------------------
(* Types and bounds *)

\* Between the header and the end of a line the slot after the last is filled.
SlotFilled == inLine => phase = "types" /\ num < Len(types)

FilesOK ==
  /\ rescuerFile \in Seq(RescuerLine)
  /\ typeFile \in Seq(TypeLine)
  /\ envFile \in Seq(EnvLine)

TInv == TypeOK /\ SlotFilled /\ FilesOK

\* TypeOK in two parts: the arrays, and the rest.
ArraysOK ==
  /\ rescuers \in Seq([name : Name, quantity : Int])
  /\ Len(rescuers) <= MaxRescuers
  /\ types \in Seq(Slot)
  /\ Len(types) <= MaxTypes
  /\ \A i \in DOMAIN types : Len(types[i].rescuers) <= MaxRequests
  /\ num \in 0..Len(types)
RestOK ==
  /\ phase \in {"rescuers", "types", "env", "done", "overrun"}
  /\ pos \in Nat \ {0}
  /\ tokens \in Seq(Token)
  /\ inLine \in BOOLEAN
  /\ env \in Environment
  /\ log \in Seq(LogEntry)

LEMMA TypeParts == (TypeOK <=> ArraysOK /\ RestOK) /\ (TypeOK <=> ArraysOK /\ RestOK)'
BY DEF TypeOK, ArraysOK, RestOK

Field == {"queue", "height", "width"}

LEMMA NoneBetween == \A n, k \in Nat : n <= k /\ ~(n + 1 <= k) => n = k
OBVIOUS

\* Whatever slot is written, the first free one or the one after the last, the array
\* keeps its type.
LEMMA WriteType ==
  ASSUME types \in Seq(Slot), num \in 0..Len(types), num < MaxTypes, MaxTypes \in Nat,
         Len(types) <= MaxTypes,
         \A i \in DOMAIN types : Len(types[i].rescuers) <= MaxRequests,
         NEW slot \in Slot, Len(slot.rescuers) <= MaxRequests, Write(num + 1, slot)
  PROVE  /\ types' \in Seq(Slot) /\ Len(types') <= MaxTypes
         /\ \A i \in DOMAIN types' : Len(types'[i].rescuers) <= MaxRequests
         /\ num < Len(types') /\ num \in 0..Len(types')
<1>0. Len(types) \in Nat /\ DOMAIN types = 1..Len(types) /\ num \in Nat
  OBVIOUS
<1>1. CASE num + 1 \in DOMAIN types
  <2>1. types' = [types EXCEPT ![num + 1] = slot]
    BY <1>1 DEF Write
  <2>2. types' \in Seq(Slot) /\ Len(types') = Len(types) /\ DOMAIN types' = DOMAIN types
    BY <1>0, <1>1, <2>1
  <2>3. \A i \in DOMAIN types' : types'[i] = IF i = num + 1 THEN slot ELSE types[i]
    BY <1>0, <1>1, <2>1, <2>2
  <2> QED
    BY <1>0, <1>1, <2>2, <2>3
<1>2. CASE num + 1 \notin DOMAIN types
  <2>0. Len(types) = num
    <3>1. ~(num + 1 <= Len(types)) /\ num <= Len(types)
      BY <1>0, <1>2
    <3> QED
      BY <1>0, <3>1, NoneBetween, Zenon
  <2>1. types' = Append(types, slot) /\ Len(types) = num
    BY <1>2, <2>0 DEF Write
  <2>2. types' \in Seq(Slot) /\ Len(types') = num + 1 /\ DOMAIN types' = 1..(num + 1)
    BY <1>0, <2>1
  <2>3. \A i \in DOMAIN types' : types'[i] = IF i = num + 1 THEN slot ELSE types[i]
    BY <1>0, <2>1, <2>2
  <2> QED
    BY <1>0, <2>1, <2>2, <2>3
<1> QED
  BY <1>1, <1>2

LEMMA LogType ==
  ASSUME TypeOK, phase \in {"rescuers", "types", "env"}, NEW o \in {"ok", "error"}, Log(o)
  PROVE  log' \in Seq(LogEntry)
BY DEF TypeOK, Log, LogEntry

LEMMA InitType == Init => TInv
<1> SUFFICES ASSUME Init PROVE TInv
  OBVIOUS
<1>1. FilesOK
  BY ParserAssumption DEF Init, FilesOK
<1>2. env \in Environment
  BY DEF Init, Environment
<1>3. TypeOK
  <2>1. Len(rescuers) <= MaxRescuers /\ Len(types) <= MaxTypes /\ num \in 0..Len(types)
    BY ParserAssumption DEF Init
  <2>2. /\ rescuers \in Seq([name : Name, quantity : Int])
        /\ types \in Seq(Slot)
        /\ \A i \in DOMAIN types : Len(types[i].rescuers) <= MaxRequests
        /\ tokens \in Seq(Token)
        /\ log \in Seq(LogEntry)
    BY DEF Init
  <2>3. phase = "rescuers" /\ pos = 1 /\ inLine = FALSE
    BY DEF Init
  <2>4. ArraysOK
    BY <2>1, <2>2 DEF ArraysOK
  <2>5. pos \in Nat \ {0}
    BY <2>3
  <2>6. RestOK
    BY <1>2, <2>2, <2>3, <2>5, Zenon DEF RestOK
  <2> QED
    BY <2>4, <2>6, TypeParts
<1> QED
  BY <1>1, <1>3 DEF TInv, Init, SlotFilled

LEMMA RescuersType ==
  ASSUME TInv, SkipRescuer \/ ReadRescuer \/ OverrunRescuers \/ EndRescuers
  PROVE  TInv'
<1> USE DEF TInv, TypeOK, SlotFilled, FilesOK, fileVars, typeVars
<1>1. CASE SkipRescuer
  <2>1. log' \in Seq(LogEntry)
    BY <1>1, LogType DEF SkipRescuer
  <2> QED
    BY <1>1, <2>1 DEF SkipRescuer, NextLine
<1>2. CASE ReadRescuer
  <2> DEFINE l == rescuerFile[pos]
             r == [name |-> removeSpaces(l.name), quantity |-> l.quantity]
  <2>1. log' \in Seq(LogEntry)
    BY <1>2, LogType DEF ReadRescuer
  <2>2. l \in RescuerLine
    BY <1>2 DEF ReadRescuer
  <2>3. r \in [name : Name, quantity : Int]
    BY <2>2, ParserAssumption DEF RescuerLine
  <2>4. rescuers' = Append(rescuers, r) /\ Len(rescuers) < MaxRescuers
    BY <1>2 DEF ReadRescuer
  <2>5. rescuers' \in Seq([name : Name, quantity : Int]) /\ Len(rescuers') <= MaxRescuers
    BY <2>3, <2>4, ParserAssumption
  <2> QED
    BY <1>2, <2>1, <2>5 DEF ReadRescuer, NextLine
<1>3. CASE OverrunRescuers
  BY <1>3 DEF OverrunRescuers, Overrun
<1>4. CASE EndRescuers
  BY <1>4 DEF EndRescuers, Open
<1> QED
  BY <1>1, <1>2, <1>3, <1>4

LEMMA HeaderType ==
  ASSUME TInv, SkipType \/ ReadHeader \/ OverrunTypes \/ EndTypes
  PROVE  TInv'
<1> USE DEF TInv, TypeOK, SlotFilled, FilesOK, fileVars
<1>1. CASE SkipType
  <2>1. log' \in Seq(LogEntry)
    BY <1>1, LogType DEF SkipType, AtTypeLine
  <2> QED
    BY <1>1, <2>1 DEF SkipType, NextLine, typeVars
<1>2. CASE ReadHeader
  <2> DEFINE l == typeFile[pos]
             slot == [name |-> removeSpaces(l.name), priority |-> l.priority, rescuers |-> <<>>]
  <2>1. l \in TypeLine /\ l.priority \in 0..2
    BY <1>2 DEF ReadHeader, AtTypeLine, GoodHeader
  <2>2. slot \in Slot /\ Len(slot.rescuers) <= MaxRequests
    BY <2>1, ParserAssumption DEF TypeLine, Slot
  <2>3. Write(num + 1, slot) /\ num < MaxTypes /\ num' = num /\ MaxTypes \in Nat
    BY <1>2, ParserAssumption DEF ReadHeader
  <2>4. /\ types' \in Seq(Slot) /\ Len(types') <= MaxTypes
        /\ \A i \in DOMAIN types' : Len(types'[i].rescuers) <= MaxRequests
        /\ num < Len(types') /\ num \in 0..Len(types')
    <3> HIDE DEF slot
    <3> QED
      BY <2>2, <2>3, WriteType
  <2>5. log' \in Seq(LogEntry)
    BY <1>2, LogType DEF ReadHeader, AtTypeLine
  <2>6. tokens' \in Seq(Token) /\ inLine' \in BOOLEAN
    BY <1>2, <2>1 DEF ReadHeader, TypeLine
  <2>7. pos' \in Nat \ {0} /\ phase' = "types"
    BY <1>2 DEF ReadHeader, AtTypeLine, NextLine
  <2>8. UNCHANGED <<fileVars, rescuers, num, env>>
    BY <1>2 DEF ReadHeader
  <2> HIDE DEF slot, l
  <2> QED
    BY <2>3, <2>4, <2>5, <2>6, <2>7, <2>8
<1>3. CASE OverrunTypes
  BY <1>3 DEF OverrunTypes, AtTypeLine, Overrun, typeVars
<1>4. CASE EndTypes
  BY <1>4 DEF EndTypes, Open, typeVars
<1> QED
  BY <1>1, <1>2, <1>3, <1>4

\* A request is added to the slot after the last, and only below the limit.
LEMMA AddType ==
  ASSUME TInv, AtToken, NEW t \in Nat \cup {Unset}, NEW n \in Int \cup {Unset}, AddRequest(t, n)
  PROVE  /\ types' \in Seq(Slot) /\ Len(types') <= MaxTypes
         /\ \A i \in DOMAIN types' : Len(types'[i].rescuers) <= MaxRequests
         /\ num < Len(types') /\ num \in 0..Len(types')
<1> DEFINE old == types[num + 1]
           rq == [type |-> t, required_count |-> n]
           slot == [old EXCEPT !.rescuers = Append(@, rq)]
<1>1. num + 1 \in DOMAIN types /\ num < MaxTypes /\ MaxTypes \in Nat /\ MaxRequests \in Nat
  BY ParserAssumption DEF TInv, TypeOK, SlotFilled, AtToken
<1>2. old \in Slot /\ Len(old.rescuers) < MaxRequests
  BY <1>1 DEF TInv, TypeOK, AtToken, MoreRoom, RequestsSoFar
<1>3. rq \in [type : Nat \cup {Unset}, required_count : Int \cup {Unset}]
  OBVIOUS
<1>4. slot \in Slot /\ Len(slot.rescuers) <= MaxRequests
  <2>1. old.rescuers \in Seq([type : Nat \cup {Unset}, required_count : Int \cup {Unset}])
    BY <1>2 DEF Slot
  <2>2. /\ Append(old.rescuers, rq)
             \in Seq([type : Nat \cup {Unset}, required_count : Int \cup {Unset}])
        /\ Len(Append(old.rescuers, rq)) <= MaxRequests
    <3> HIDE DEF rq, old
    <3> QED
      BY <1>1, <1>2, <1>3, <2>1
  <2> HIDE DEF rq, old
  <2> QED
    BY <1>2, <2>2 DEF Slot
<1>5. Write(num + 1, slot)
  BY DEF AddRequest
<1> HIDE DEF slot
<1> QED
  BY <1>1, <1>4, <1>5, WriteType DEF TInv, TypeOK

LEMMA MinOfNat ==
  ASSUME NEW S \in SUBSET Nat, S # {}
  PROVE  Min(S) \in S /\ \A m \in S : Min(S) <= m
<1>1. PICK n \in S : \A m \in S : ~(<<m, n>> \in OpToRel(<, Nat))
  BY WFMin, NatLessThanWellFounded
<1>2. \A m \in S : ~(m < n)
  BY <1>1 DEF OpToRel
<1>3. \A m \in S : n <= m
  BY <1>2
<1> QED
  BY <1>3 DEF Min

LEMMA TokenType ==
  ASSUME TInv, ReadToken \/ BadToken \/ UnknownRescuer \/ EndLine
  PROVE  TInv'
<1>0. inLine /\ phase = "types"
  BY DEF ReadToken, BadToken, UnknownRescuer, EndLine, AtToken, TInv, SlotFilled
<1>1. CASE ReadToken
  <2>1. Head(tokens) \in Token /\ Tail(tokens) \in Seq(Token)
    BY <1>1 DEF ReadToken, AtToken, TInv, TypeOK
  <2>2. Head(tokens).count \in Int
    BY <2>1 DEF Token
  <2>3. Min(NamedBy(Head(tokens))) \in Nat
    <3>1. NamedBy(Head(tokens)) \subseteq Nat /\ NamedBy(Head(tokens)) # {}
      BY <1>1 DEF ReadToken, NamedBy, TInv, TypeOK
    <3> QED
      BY <3>1, MinOfNat
  <2>4. /\ types' \in Seq(Slot) /\ Len(types') <= MaxTypes
        /\ \A i \in DOMAIN types' : Len(types'[i].rescuers) <= MaxRequests
        /\ num < Len(types') /\ num \in 0..Len(types')
    BY <1>1, <2>2, <2>3, AddType DEF ReadToken
  <2> QED
    BY <1>0, <1>1, <2>1, <2>4 DEF ReadToken, TInv, TypeOK, SlotFilled, FilesOK, fileVars
<1>2. CASE BadToken
  <2>1. log' \in Seq(LogEntry)
    BY <1>0, <1>2, LogType DEF BadToken, Spoil, TInv
  <2>2. /\ tokens' \in Seq(Token) /\ inLine' = FALSE
        /\ phase' = phase /\ pos' = pos + 1 /\ UNCHANGED <<fileVars, rescuers, types, num, env>>
    BY <1>2 DEF BadToken, Spoil, NextLine
  <2>3. ArraysOK'
    BY <2>2, TypeParts DEF TInv, ArraysOK
  <2>4. pos' \in Nat \ {0}
    BY <2>2, TypeParts DEF TInv, RestOK
  <2>5. RestOK'
    BY <2>1, <2>2, <2>4, TypeParts, Zenon DEF TInv, RestOK
  <2>6. FilesOK'
    BY <2>2 DEF TInv, FilesOK, fileVars
  <2>7. ~inLine'
    BY <2>2
  <2> QED
    BY <2>3, <2>5, <2>6, <2>7, TypeParts DEF TInv, SlotFilled
<1>3. CASE UnknownRescuer
  <2>1. log' \in Seq(LogEntry)
    BY <1>0, <1>3, LogType DEF UnknownRescuer, Spoil, TInv
  <2>2. /\ types' \in Seq(Slot) /\ Len(types') <= MaxTypes
        /\ \A i \in DOMAIN types' : Len(types'[i].rescuers) <= MaxRequests
        /\ num < Len(types') /\ num \in 0..Len(types')
    BY <1>3, AddType DEF UnknownRescuer
  <2>3. /\ tokens' \in Seq(Token) /\ inLine' = FALSE
        /\ phase' = phase /\ pos' = pos + 1 /\ UNCHANGED <<fileVars, rescuers, num, env>>
    BY <1>3 DEF UnknownRescuer, Spoil, NextLine
  <2>4. ArraysOK'
    BY <2>2, <2>3, TypeParts DEF TInv, ArraysOK
  <2>5. pos' \in Nat \ {0}
    BY <2>3, TypeParts DEF TInv, RestOK
  <2>6. RestOK'
    BY <2>1, <2>3, <2>5, TypeParts, Zenon DEF TInv, RestOK
  <2>7. FilesOK'
    BY <2>3 DEF TInv, FilesOK, fileVars
  <2>8. ~inLine'
    BY <2>3
  <2> QED
    BY <2>4, <2>6, <2>7, <2>8, TypeParts DEF TInv, SlotFilled
<1>4. CASE EndLine
  <2>1. log' \in Seq(LogEntry)
    BY <1>0, <1>4, LogType DEF EndLine, TInv
  <2>2. num + 1 \in 0..Len(types)
    BY <1>0 DEF TInv, SlotFilled, TypeOK
  <2>3. /\ tokens' \in Seq(Token) /\ inLine' = FALSE /\ num' = num + 1
        /\ phase' = phase /\ pos' = pos + 1 /\ UNCHANGED <<fileVars, rescuers, types, env>>
    BY <1>4 DEF EndLine, NextLine
  <2>4. ArraysOK'
    BY <2>2, <2>3, TypeParts DEF TInv, ArraysOK
  <2>5. pos' \in Nat \ {0}
    BY <2>3, TypeParts DEF TInv, RestOK
  <2>6. RestOK'
    BY <2>1, <2>3, <2>5, TypeParts, Zenon DEF TInv, RestOK
  <2>7. FilesOK'
    BY <2>3 DEF TInv, FilesOK, fileVars
  <2>8. ~inLine'
    BY <2>3
  <2> QED
    BY <2>4, <2>6, <2>7, <2>8, TypeParts DEF TInv, SlotFilled
<1> QED
  BY <1>1, <1>2, <1>3, <1>4

LEMMA CutType == \A h \in Int \cup {Unset} : CutLowByte(h) \in Int \cup {Unset}
BY DEF CutLowByte

LEMMA EnvType == ASSUME TInv, ReadEnv \/ EndEnv PROVE TInv'
<1>1. CASE ReadEnv
  <2> DEFINE l == envFile[pos]
  <2>0. phase = "env" /\ l \in EnvLine
    <3>1. envFile \in Seq(EnvLine) /\ pos \in DOMAIN envFile /\ phase = "env"
      BY <1>1 DEF ReadEnv, TInv, FilesOK
    <3> QED
      BY <3>1
  <2>1. log' \in Seq(LogEntry)
    BY <1>1, <2>0, LogType DEF ReadEnv, TInv, TypeOK
  <2>2. env' \in Environment
    <3>1. env \in Environment
      BY DEF TInv, TypeOK
    <3>2. CASE ~l.ok \/ l.key = "unknown"
      BY <1>1, <3>1, <3>2 DEF ReadEnv
    <3>3. CASE ~(~l.ok \/ l.key = "unknown")
      <4>1. l.key \in Field /\ l.value \in Int
        BY <2>0, <3>3 DEF EnvLine, Field
      <4>2. CutLowByte(env.height) \in Int \cup {Unset}
        BY <3>1, CutType DEF Environment
      <4>3. CutLowByte(l.value) \in Int \cup {Unset}
        BY <4>1, CutType
      <4> QED
        BY <1>1, <3>1, <3>3, <4>1, <4>2, <4>3 DEF ReadEnv, Field, Environment
    <3> QED
      BY <3>2, <3>3
  <2>3. phase' = phase /\ pos' = pos + 1 /\ UNCHANGED <<fileVars, rescuers, typeVars>>
    BY <1>1 DEF ReadEnv, NextLine
  <2> HIDE DEF l
  <2> QED
    BY <2>1, <2>2, <2>3 DEF TInv, TypeOK, SlotFilled, FilesOK, fileVars, typeVars
<1>2. CASE EndEnv
  BY <1>2 DEF EndEnv, TInv, TypeOK, SlotFilled, FilesOK, fileVars, typeVars
<1> QED
  BY <1>1, <1>2

LEMMA TypeStep == TInv /\ [Next]_vars => TInv'
<1> SUFFICES ASSUME TInv, [Next]_vars PROVE TInv'
  OBVIOUS
<1>1. CASE UNCHANGED vars
  BY <1>1 DEF vars, fileVars, typeVars, TInv, TypeOK, SlotFilled, FilesOK
<1> QED
  BY <1>1, RescuersType, HeaderType, TokenType, EnvType DEF Next

LEMMA TypeInvariant == Spec => []TInv
BY InitType, TypeStep, PTL DEF Spec

\* No parser takes a variable out of its type or makes an array longer than it was
\* allocated without the model saying so, for all files and limits; the slot that is
\* written early never leaves a hole in the array.
THEOREM TypeCorrect == Spec => []TypeOK
BY TypeInvariant, PTL DEF TInv

-----------------------------------------------------------------------------
(* The environment *)

\* The lines among S the parser has passed when it is at line p, and what the last of
\* them says.
Passed(S, p) == {n \in S : n < p}
ValueIn(S) == IF S = {} THEN Unset ELSE ReadLines[LastLine(S)].value

\* EnvAsListed of the part of the file before line p.
EnvBefore(p) ==
  LET height == Passed(LinesWith("height"), p) IN
    /\ env.queue = ValueIn(Passed(LinesWith("queue"), p))
    /\ env.width = ValueIn(Passed(LinesWith("width"), p))
    /\ env.height = IF LastLine(Passed(LongNames, p)) > LastLine(height)
                    THEN CutLowByte(ValueIn(height)) ELSE ValueIn(height)

EnvInv ==
  /\ phase \in {"rescuers", "types"} =>
       env.queue = Unset /\ env.height = Unset /\ env.width = Unset
  /\ phase = "env" => pos <= Len(ReadLines) + 1 /\ EnvBefore(pos)
  /\ EnvAsListed

LEMMA ReadLinesFacts ==
  ASSUME envFile \in Seq(EnvLine)
  PROVE  /\ Len(ReadLines) \in 0..3 /\ Len(ReadLines) <= Len(envFile)
         /\ DOMAIN ReadLines = 1..Len(ReadLines)
         /\ DOMAIN envFile \cap EnvLines = 1..Len(ReadLines)
         /\ \A n \in 1..Len(ReadLines) : ReadLines[n] = envFile[n] /\ envFile[n] \in EnvLine
<1> DEFINE m == Min({3, Len(envFile)})
<1>1. Len(envFile) \in Nat /\ DOMAIN envFile = 1..Len(envFile)
  OBVIOUS
<1>2. m \in {3, Len(envFile)} /\ m <= 3 /\ m <= Len(envFile)
  <2>1. {3, Len(envFile)} \in SUBSET Nat
    BY <1>1
  <2>2. \E x \in {3, Len(envFile)} : \A y \in {3, Len(envFile)} : x <= y
    BY <1>1
  <2> QED
    BY <2>2 DEF Min
<1>3. m \in 0..3 /\ m \in 0..Len(envFile) /\ ReadLines = SubSeq(envFile, 1, m)
  BY <1>1, <1>2 DEF ReadLines
<1> HIDE DEF m
<1>4. /\ ReadLines \in Seq(EnvLine) /\ Len(ReadLines) = m
      /\ \A n \in 1..m : ReadLines[n] = envFile[n]
  <2>1. 1 \in 1..(Len(envFile) + 1) /\ m \in (1 - 1)..Len(envFile)
    BY <1>1, <1>3
  <2>2. /\ SubSeq(envFile, 1, m) \in Seq(EnvLine)
        /\ Len(SubSeq(envFile, 1, m)) = IF 1 <= m THEN m - 1 + 1 ELSE 0
        /\ \A n \in 1..(m - 1 + 1) : SubSeq(envFile, 1, m)[n] = envFile[1 + n - 1]
    BY <2>1, SubSeqProperties
  <2>3. Len(SubSeq(envFile, 1, m)) = m /\ 1..(m - 1 + 1) = 1..m
    BY <1>3, <2>2
  <2>4. \A n \in 1..m : envFile[1 + n - 1] = envFile[n]
    BY <1>3
  <2> QED
    BY <1>3, <2>2, <2>3, <2>4
<1>5. DOMAIN ReadLines = 1..m
  BY <1>4
<1>6. DOMAIN envFile \cap EnvLines = 1..m
  <2>1. \A k \in Nat : (k <= 3 => 1..k \cap 1..3 = 1..k) /\ (k >= 3 => 1..k \cap 1..3 = 1..3)
    OBVIOUS
  <2>2. \/ m = Len(envFile) /\ Len(envFile) <= 3
        \/ m = 3 /\ Len(envFile) >= 3
    BY <1>1, <1>2
  <2> QED
    BY <1>1, <2>1, <2>2 DEF EnvLines
<1>7. \A n \in 1..m : envFile[n] \in EnvLine
  <2>1. \A n \in 1..m : n \in DOMAIN envFile
    BY <1>1, <1>3
  <2> QED
    BY <2>1
<1>8. Len(ReadLines) \in 0..3 /\ Len(ReadLines) <= Len(envFile)
  BY <1>2, <1>3, <1>4
<1> QED
  BY <1>4, <1>5, <1>6, <1>7, <1>8

LEMMA LastLineFacts ==
  ASSUME NEW S \in SUBSET (1..3)
  PROVE  /\ LastLine(S) \in S \cup {0}
         /\ \A n \in S : n <= LastLine(S)
<1>1. \E x \in S \cup {0} : \A y \in S \cup {0} : x >= y
  <2>1. CASE 3 \in S
    BY <2>1
  <2>2. CASE 3 \notin S /\ 2 \in S
    BY <2>2
  <2>3. CASE 3 \notin S /\ 2 \notin S /\ 1 \in S
    BY <2>3
  <2>4. CASE S = {}
    BY <2>4
  <2> QED
    BY <2>1, <2>2, <2>3, <2>4
<1>2. /\ LastLine(S) \in S \cup {0}
      /\ \A y \in S \cup {0} : LastLine(S) >= y
  BY <1>1 DEF LastLine, Max
<1> QED
  BY <1>2

\* A line that is read is the last so far.
LEMMA LastLineRead ==
  ASSUME NEW p \in 1..3, NEW S \in SUBSET (1..3), \A n \in S : n < p
  PROVE  LastLine(S) < p /\ LastLine(S \cup {p}) = p
<1>1. LastLine(S) \in S \cup {0}
  BY LastLineFacts
<1>2. S \cup {p} \in SUBSET (1..3)
  OBVIOUS
<1>3. LastLine(S \cup {p}) \in S \cup {p, 0} /\ p <= LastLine(S \cup {p})
  BY <1>2, LastLineFacts
<1>4. LastLine(S) < p
  <2>1. \A n \in S \cup {0} : n < p
    OBVIOUS
  <2> QED
    BY <1>1, <2>1
<1>5. LastLine(S \cup {p}) <= p
  <2>1. \A n \in S \cup {p, 0} : n <= p
    OBVIOUS
  <2> QED
    BY <1>3, <2>1
<1>6. LastLine(S \cup {p}) \in Int
  <2>1. S \cup {p, 0} \subseteq Int
    OBVIOUS
  <2> QED
    BY <1>3, <2>1
<1> QED
  BY <1>3, <1>4, <1>5, <1>6

\* Cutting the low byte twice is cutting it once.
LEMMA CutTwice == \A h \in Int \cup {Unset} : CutLowByte(CutLowByte(h)) = CutLowByte(h)
<1>1. \A h \in Int : (h - (h % 256)) % 256 = 0 /\ h - (h % 256) \in Int
  OBVIOUS
<1> QED
  BY <1>1, ParserAssumption DEF CutLowByte

\* Reading line p adds it to the lines passed, if it is one of S.
LEMMA PassedNext ==
  ASSUME NEW S \in SUBSET (1..3), NEW p \in 1..3
  PROVE  /\ Passed(S, p) \in SUBSET (1..3) /\ \A n \in Passed(S, p) : n < p
         /\ Passed(S, p + 1) = IF p \in S THEN Passed(S, p) \cup {p} ELSE Passed(S, p)
         /\ LastLine(Passed(S, p)) < p
         /\ p \in S => LastLine(Passed(S, p + 1)) = p
<1>1. Passed(S, p) \in SUBSET (1..3) /\ \A n \in Passed(S, p) : n < p
  BY DEF Passed
<1>2. Passed(S, p + 1) = IF p \in S THEN Passed(S, p) \cup {p} ELSE Passed(S, p)
  <2>1. \A n \in S : n < p + 1 <=> n < p \/ n = p
    OBVIOUS
  <2>2. Passed(S, p + 1) = {n \in S : n < p \/ n = p}
    BY <2>1 DEF Passed
  <2> QED
    BY <2>2, Zenon DEF Passed
<1> QED
  BY <1>1, <1>2, LastLineRead

LEMMA ReadEnvStep ==
  ASSUME TInv, EnvInv, ReadEnv
  PROVE  pos' <= Len(ReadLines)' + 1 /\ EnvBefore(pos)'
<1> DEFINE l == envFile[pos]
           p == pos
<1>1. /\ p \in 1..Len(ReadLines) /\ p \in 1..3 /\ Len(ReadLines) \in 0..3
      /\ ReadLines[p] = l /\ l \in EnvLine
      /\ pos' = p + 1 /\ envFile' = envFile /\ EnvBefore(p)
  <2>1. /\ phase = "env" /\ p \in DOMAIN envFile \cap EnvLines
        /\ pos' = p + 1 /\ envFile' = envFile
    BY DEF ReadEnv, NextLine, fileVars
  <2>2. envFile \in Seq(EnvLine)
    BY DEF TInv, FilesOK
  <2>3. p \in 1..Len(ReadLines) /\ Len(ReadLines) \in 0..3
    BY <2>1, <2>2, ReadLinesFacts
  <2>4. p \in 1..3
    <3>1. \A k \in 0..3 : 1..k \subseteq 1..3
      OBVIOUS
    <3> QED
      BY <2>3, <3>1, Zenon
  <2>5. ReadLines[p] = l /\ l \in EnvLine
    BY <2>2, <2>3, ReadLinesFacts
  <2> QED
    BY <2>1, <2>3, <2>4, <2>5 DEF EnvInv
<1>2. ReadLines' = ReadLines
  BY <1>1 DEF ReadLines
<1>3. /\ \A key : LinesWith(key)' = LinesWith(key) /\ LinesWith(key) \in SUBSET (1..3)
      /\ LongNames' = LongNames /\ LongNames \in SUBSET (1..3)
  BY <1>1, <1>2, ReadLinesFacts DEF LinesWith, LongNames, TInv, FilesOK
<1>4. /\ \A key : p \in LinesWith(key) <=> l.ok /\ l.key = key
      /\ p \in LongNames <=> l.ok /\ l.key = "queue" /\ l.long
  BY <1>1, ReadLinesFacts DEF LinesWith, LongNames, TInv, FilesOK
<1>5. env \in Environment /\ env.height \in Int \cup {Unset}
  BY DEF TInv, TypeOK, Environment
<1> DEFINE Q == Passed(LinesWith("queue"), p)
           H == Passed(LinesWith("height"), p)
           W == Passed(LinesWith("width"), p)
           L == Passed(LongNames, p)
           Q1 == Passed(LinesWith("queue"), p + 1)
           H1 == Passed(LinesWith("height"), p + 1)
           W1 == Passed(LinesWith("width"), p + 1)
           L1 == Passed(LongNames, p + 1)
<1>6. /\ env.queue = ValueIn(Q) /\ env.width = ValueIn(W)
      /\ env.height = IF LastLine(L) > LastLine(H) THEN CutLowByte(ValueIn(H)) ELSE ValueIn(H)
  BY <1>1 DEF EnvBefore
<1>7. EnvBefore(pos)' <=>
        /\ env'.queue = ValueIn(Q1) /\ env'.width = ValueIn(W1)
        /\ env'.height = IF LastLine(L1) > LastLine(H1)
                         THEN CutLowByte(ValueIn(H1)) ELSE ValueIn(H1)
  BY <1>1, <1>2, <1>3 DEF EnvBefore, ValueIn, Passed
<1>8. ASSUME NEW key, l.ok, l.key = key
      PROVE  ValueIn(Passed(LinesWith(key), p + 1)) = l.value
  <2>1. p \in LinesWith(key)
    BY <1>4, <1>8
  <2>2. LastLine(Passed(LinesWith(key), p + 1)) = p /\ p \in Passed(LinesWith(key), p + 1)
    BY <1>1, <1>3, <2>1, PassedNext
  <2> QED
    BY <1>1, <2>2 DEF ValueIn
<1>9. /\ ~(l.ok /\ l.key = "queue") => Q1 = Q /\ L1 = L
      /\ ~(l.ok /\ l.key = "height") => H1 = H
      /\ ~(l.ok /\ l.key = "width") => W1 = W
      /\ ~(l.ok /\ l.key = "queue" /\ l.long) => L1 = L
      /\ l.ok /\ l.key = "queue" /\ l.long => LastLine(L1) = p
      /\ LastLine(H) < p /\ LastLine(L) < p
      /\ l.ok /\ l.key = "height" => LastLine(H1) = p
  BY <1>1, <1>3, <1>4, PassedNext
<1>10. LastLine(H) \in Int /\ LastLine(L) \in Int
  <2>1. H \in SUBSET (1..3) /\ L \in SUBSET (1..3)
    BY <1>1, <1>3, PassedNext
  <2> QED
    BY <2>1, LastLineFacts
<1> HIDE DEF Q, H, W, L, Q1, H1, W1, L1
<1>11. EnvBefore(pos)'
  <2>1. CASE ~l.ok \/ l.key = "unknown"
    <3>1. env' = env
      BY <2>1 DEF ReadEnv
    <3>2. Q1 = Q /\ H1 = H /\ W1 = W /\ L1 = L
      BY <2>1, <1>9
    <3> QED
      BY <1>6, <1>7, <3>1, <3>2
  <2>2. CASE l.ok /\ l.key = "width"
    <3>1. env'.width = l.value /\ env'.queue = env.queue /\ env'.height = env.height
      BY <1>5, <2>2 DEF ReadEnv, Environment
    <3>2. Q1 = Q /\ H1 = H /\ L1 = L /\ ValueIn(W1) = l.value
      BY <1>8, <1>9, <2>2 DEF W1
    <3> QED
      BY <1>6, <1>7, <3>1, <3>2
  <2>3. CASE l.ok /\ l.key = "height"
    <3>1. env'.height = l.value /\ env'.queue = env.queue /\ env'.width = env.width
      BY <1>5, <2>3 DEF ReadEnv, Environment
    <3>2. Q1 = Q /\ W1 = W /\ L1 = L /\ ValueIn(H1) = l.value
      BY <1>8, <1>9, <2>3 DEF H1
    <3>3. ~(LastLine(L1) > LastLine(H1))
      BY <1>1, <1>9, <1>10, <2>3, <3>2
    <3> QED
      BY <1>6, <1>7, <3>1, <3>2, <3>3
  <2>4. CASE l.ok /\ l.key = "queue" /\ ~l.long
    <3>1. env'.queue = l.value /\ env'.height = env.height /\ env'.width = env.width
      BY <1>5, <2>4 DEF ReadEnv, Environment
    <3>2. H1 = H /\ W1 = W /\ L1 = L /\ ValueIn(Q1) = l.value
      BY <1>8, <1>9, <2>4 DEF Q1
    <3> QED
      BY <1>6, <1>7, <3>1, <3>2
  <2>5. CASE l.ok /\ l.key = "queue" /\ l.long
    <3>1. /\ env'.queue = l.value /\ env'.width = env.width
          /\ env'.height = CutLowByte(env.height)
      BY <1>5, <2>5 DEF ReadEnv, Environment
    <3>2. H1 = H /\ W1 = W /\ ValueIn(Q1) = l.value
      BY <1>8, <1>9, <2>5 DEF Q1
    <3>3. LastLine(L1) > LastLine(H1)
      BY <1>1, <1>9, <1>10, <2>5, <3>2
    <3>4. CutLowByte(env.height) = CutLowByte(ValueIn(H))
      <4>1. ValueIn(H) \in Int \cup {Unset}
        <5>1. CASE H = {}
          BY <5>1 DEF ValueIn
        <5>2. CASE H # {}
          <6>1. LastLine(H) \in H /\ H \subseteq LinesWith("height")
            <7>1. H \in SUBSET (1..3) /\ H \subseteq LinesWith("height")
              BY <1>1, <1>3, PassedNext DEF H, Passed
            <7>2. PICK n \in H : n \in 1..3
              BY <5>2, <7>1
            <7>3. LastLine(H) \in H \cup {0} /\ n <= LastLine(H)
              BY <7>1, LastLineFacts
            <7> QED
              BY <7>1, <7>2, <7>3
          <6>2. LastLine(H) \in 1..Len(ReadLines)
            BY <6>1, ReadLinesFacts DEF LinesWith, TInv, FilesOK
          <6>3. ReadLines[LastLine(H)] \in EnvLine
            BY <6>2, ReadLinesFacts DEF TInv, FilesOK
          <6> QED
            BY <5>2, <6>3 DEF ValueIn, EnvLine
        <5> QED
          BY <5>1, <5>2
      <4> QED
        BY <1>6, <4>1, CutTwice
    <3> QED
      BY <1>6, <1>7, <3>1, <3>2, <3>3, <3>4
  <2> QED
    BY <1>1, <2>1, <2>2, <2>3, <2>4, <2>5 DEF EnvLine
<1> QED
  BY <1>1, <1>2, <1>11

\* What is before the end is the whole.
LEMMA EnvWhole ==
  ASSUME TInv, EnvBefore(pos), pos = Len(ReadLines) + 1
  PROVE  /\ env.queue = Value("queue") /\ env.width = Value("width")
         /\ env.height = IF LastLine(LongNames) > LastLine(LinesWith("height"))
                         THEN CutLowByte(Value("height")) ELSE Value("height")
<1>1. Len(ReadLines) \in 0..3 /\ DOMAIN ReadLines = 1..Len(ReadLines)
  BY ReadLinesFacts DEF TInv, FilesOK
<1>2. \A key : Passed(LinesWith(key), pos) = LinesWith(key)
  BY <1>1 DEF Passed, LinesWith
<1>3. Passed(LongNames, pos) = LongNames
  BY <1>1 DEF Passed, LinesWith, LongNames
<1>4. \A key : ValueIn(LinesWith(key)) = Value(key)
  BY DEF ValueIn, Value
<1> QED
  BY <1>2, <1>3, <1>4 DEF EnvBefore

LEMMA EnvStep == ASSUME TInv, EnvInv, [Next]_vars PROVE EnvInv'
<1>1. CASE SkipRescuer \/ ReadRescuer \/ EndRescuers \/ SkipType \/ ReadHeader \/ ReadToken
           \/ BadToken \/ UnknownRescuer \/ EndLine
  <2>1. phase' \in {"rescuers", "types"} /\ phase \in {"rescuers", "types"} /\ env' = env
    BY <1>1 DEF TInv, SlotFilled, SkipRescuer, ReadRescuer, EndRescuers, SkipType, ReadHeader,
       ReadToken, BadToken, UnknownRescuer, EndLine, Spoil, NextLine, Open, AtTypeLine, AtToken
  <2> QED
    BY <2>1 DEF EnvInv, EnvAsListed
<1>2. CASE OverrunRescuers \/ OverrunTypes
  <2>1. phase' = "overrun"
    BY <1>2 DEF OverrunRescuers, OverrunTypes, Overrun
  <2> QED
    BY <2>1 DEF EnvInv, EnvAsListed
<1>3. CASE EndTypes
  <2>1. /\ phase' = "env" /\ pos' = 1 /\ env' = env /\ envFile' = envFile
        /\ env.queue = Unset /\ env.height = Unset /\ env.width = Unset
    BY <1>3 DEF EndTypes, Open, EnvInv, fileVars
  <2>2. ReadLines' = ReadLines
    BY <2>1 DEF ReadLines
  <2>3. Len(ReadLines) \in 0..3 /\ DOMAIN ReadLines = 1..Len(ReadLines)
    BY ReadLinesFacts DEF TInv, FilesOK
  <2>4. /\ \A key : Passed(LinesWith(key), pos)' = {}
        /\ Passed(LongNames, pos)' = {}
    BY <2>1, <2>2, <2>3 DEF Passed, LinesWith, LongNames
  <2>5. EnvBefore(pos)'
    <3>1. ValueIn({})' = Unset
      BY DEF ValueIn
    <3> QED
      BY <2>1, <2>4, <3>1 DEF EnvBefore, CutLowByte
  <2> QED
    BY <2>1, <2>2, <2>3, <2>5 DEF EnvInv, EnvAsListed
<1>4. CASE ReadEnv
  <2>1. phase' = "env"
    BY <1>4 DEF ReadEnv, NextLine
  <2> QED
    BY <1>4, <2>1, ReadEnvStep DEF EnvInv, EnvAsListed
<1>5. CASE EndEnv
  <2>1. /\ phase = "env" /\ phase' = "done" /\ env' = env /\ envFile' = envFile
        /\ pos \notin DOMAIN envFile \cap EnvLines
    BY <1>5 DEF EndEnv, fileVars
  <2>2. pos = Len(ReadLines) + 1 /\ EnvBefore(pos)
    <3>1. /\ Len(ReadLines) \in 0..3 /\ pos \in Nat \ {0} /\ pos <= Len(ReadLines) + 1
          /\ ~(pos \in 1..Len(ReadLines)) /\ EnvBefore(pos)
      BY <2>1, ReadLinesFacts DEF TInv, TypeOK, FilesOK, EnvInv
    <3> QED
      BY <3>1
  <2>3. ReadLines' = ReadLines
    BY <2>1 DEF ReadLines
  <2>4. EnvAsListed'
    BY <2>1, <2>2, <2>3, EnvWhole DEF EnvAsListed, Value, LinesWith, LongNames
  <2> QED
    BY <2>1, <2>4 DEF EnvInv
<1>6. CASE UNCHANGED vars
  <2>1. UNCHANGED <<phase, pos, env, envFile>>
    BY <1>6 DEF vars, fileVars
  <2>2. ReadLines' = ReadLines
    BY <2>1 DEF ReadLines
  <2>3. EnvBefore(pos)' <=> EnvBefore(pos)
    BY <2>1, <2>2 DEF EnvBefore, ValueIn, Passed, LinesWith, LongNames
  <2>4. EnvAsListed' <=> EnvAsListed
    BY <2>1, <2>2 DEF EnvAsListed, Value, LinesWith, LongNames
  <2> QED
    BY <2>1, <2>2, <2>3, <2>4 DEF EnvInv
<1> QED
  BY <1>1, <1>2, <1>3, <1>4, <1>5, <1>6 DEF Next

LEMMA EnvInvariant == Spec => []EnvInv
<1>1. Init => EnvInv
  BY DEF Init, EnvInv, EnvAsListed
<1> QED
  BY <1>1, TypeInvariant, EnvStep, PTL DEF Spec

\* The environment main() starts with is what the last of the three lines with each
\* key says, for every env.conf; only a queue name that fills its array, below the
\* height, takes the low byte off the height, once.
THEOREM EnvironmentListed == Spec => []EnvAsListed
BY EnvInvariant, PTL DEF EnvInv
=============================================================================
