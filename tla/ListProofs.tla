----------------------------- MODULE ListProofs -----------------------------
(***************************************************************************)
(* Theorems about the two lists the parsers read and the log they write,   *)
(* for all configuration files and all limits.  Instead of following the   *)
(* lists by recursion, they count the good lines passed so far.            *)
(***************************************************************************)
EXTENDS ConfigProofs, FiniteSetTheorems

-----------------------------------------------------------------------------
(* Counting lines *)

LEMMA PassedFinite ==
  ASSUME NEW S \in SUBSET Nat, NEW n \in Nat
  PROVE  IsFiniteSet({k \in S : k < n})
<1> DEFINE B == {k \in S : k < n}
<1>1. \A k \in S : k \in Nat /\ (k < n => k <= n)
  OBVIOUS
<1>2. \A k \in B : k \in S /\ k < n
  OBVIOUS
<1>3. B \in SUBSET Nat /\ \A k \in B : k <= n
  <2> HIDE DEF B
  <2> QED
    BY <1>1, <1>2
<1> QED
  BY <1>3, FS_BoundedSetOfNaturals

LEMMA BeforeType == \A S \in SUBSET Nat, n \in Nat : Before(n, S) \in Nat
BY PassedFinite, FS_CardinalityType DEF Before

\* Passing line n counts it, if it is one of S.
LEMMA BeforeNext ==
  ASSUME NEW S \in SUBSET Nat, NEW n \in Nat
  PROVE  Before(n + 1, S) = IF n \in S THEN Before(n, S) + 1 ELSE Before(n, S)
<1> DEFINE B == {k \in S : k < n}
<1>1. n \notin B
  OBVIOUS
<1>2. IsFiniteSet(B)
  BY PassedFinite
<1>3. {k \in S : k < n + 1} = IF n \in S THEN B \cup {n} ELSE B
  <2>1. \A k \in S : k < n + 1 <=> k < n \/ k = n
    OBVIOUS
  <2>2. {k \in S : k < n + 1} = {k \in S : k < n \/ k = n}
    BY <2>1
  <2> QED
    BY <2>2, Zenon
<1>4. Cardinality(B \cup {n}) = Cardinality(B) + 1
  BY <1>1, <1>2, FS_AddElement
<1> QED
  BY <1>3, <1>4 DEF Before

\* A line of S that was passed has its place among those counted.
LEMMA PlacePassed ==
  ASSUME NEW S \in SUBSET Nat, NEW n \in S, NEW m \in Nat, n < m
  PROVE  Place(n, S) \in 1..Before(m, S)
<1> DEFINE B == {k \in S : k < m}
           C == {k \in S : k < n + 1}
<1>2. IsFiniteSet(B)
  BY PassedFinite
<1>3. C \in SUBSET B
  <2>1. \A k \in S : k < n + 1 => k < m
    OBVIOUS
  <2> QED
    BY <2>1, Zenon
<1>4. Before(n + 1, S) <= Before(m, S)
  BY <1>2, <1>3, FS_Subset DEF Before
<1>5. Before(n + 1, S) = Place(n, S) /\ Before(n, S) \in Nat /\ Before(m, S) \in Nat
  BY BeforeNext, BeforeType DEF Place
<1> QED
  BY <1>4, <1>5 DEF Place

LEMMA BeforeFirst == ASSUME NEW S \in SUBSET (Nat \ {0}) PROVE Before(1, S) = 0
<1>1. {k \in S : k < 1} = {}
  <2>1. \A k \in S : ~(k < 1)
    OBVIOUS
  <2> QED
    BY <2>1, Zenon
<1> QED
  BY <1>1, FS_EmptySet DEF Before

\* No place is left out: the k-th line of S was counted when the count became k.
LEMMA PlacesFilled ==
  ASSUME NEW S \in SUBSET (Nat \ {0}), NEW m \in Nat \ {0}, NEW k \in 1..Before(m, S)
  PROVE  \E n \in S : n < m /\ k = Place(n, S)
<1> DEFINE R == {p \in 1..m : Before(p, S) >= k}
<1>1. Before(1, S) = 0
  BY BeforeFirst
<1>2. R \in SUBSET Nat /\ R # {}
  <2>1. m \in R
    BY BeforeType
  <2> QED
    BY <2>1
<1>3. PICK p \in R : \A q \in R : p <= q
  <2> HIDE DEF R
  <2> QED
    BY <1>2, MinOfNat
<1>4. p \in 1..m /\ Before(p, S) >= k
  OBVIOUS
<1>5. p # 1
  BY <1>1, <1>4
<1>6. p - 1 \in Nat \ {0} /\ p - 1 \notin R /\ p - 1 \in 1..m
  BY <1>3, <1>4, <1>5
<1>7. Before(p - 1, S) < k /\ Before(p - 1, S) \in Nat /\ S \in SUBSET Nat
  BY <1>6, BeforeType
<1> HIDE DEF R
<1>8. Before(p, S) = IF p - 1 \in S THEN Before(p - 1, S) + 1 ELSE Before(p - 1, S)
  BY <1>4, <1>6, <1>7, BeforeNext
<1> QED
  BY <1>4, <1>6, <1>7, <1>8 DEF Place

LEMMA BeforeAll ==
  ASSUME NEW S, NEW n, \A k \in S : k < n
  PROVE  Before(n, S) = Cardinality(S)
<1>1. {k \in S : k < n} = S
  OBVIOUS
<1> QED
  BY <1>1 DEF Before

-----------------------------------------------------------------------------
(* The files do not change, nor which of their lines are good *)

LEMMA FilesKept == [Next]_vars => UNCHANGED <<rescuerFile, typeFile, envFile>>
BY DEF Next, vars, fileVars, SkipRescuer, ReadRescuer, OverrunRescuers, EndRescuers,
   SkipType, ReadHeader, OverrunTypes, ReadToken, BadToken, UnknownRescuer, Spoil, EndLine,
   EndTypes, ReadEnv, EndEnv

LEMMA LinesKept ==
  ASSUME [Next]_vars
  PROVE  UNCHANGED <<GoodRescuers, GoodTypes, UnknownKeys, ReadLines, rescuerFile, typeFile>>
<1>1. UNCHANGED <<rescuerFile, typeFile, envFile>>
  BY FilesKept
<1>2. GoodRescuers' = GoodRescuers /\ ReadLines' = ReadLines
  BY <1>1 DEF GoodRescuers, ReadLines
<1>3. \A l : GoodType(l)' <=> GoodType(l)
  BY <1>1, <1>2 DEF GoodType, NamesRescuer
<1> QED
  BY <1>1, <1>2, <1>3 DEF GoodTypes, UnknownKeys

LEMMA LinesType ==
  ASSUME FilesOK
  PROVE  /\ GoodRescuers \in SUBSET (Nat \ {0}) /\ GoodRescuers \in SUBSET (DOMAIN rescuerFile)
         /\ GoodTypes \in SUBSET (Nat \ {0}) /\ GoodTypes \in SUBSET (DOMAIN typeFile)
         /\ UnknownKeys \in SUBSET (Nat \ {0})
         /\ UnknownKeys \in SUBSET (1..Len(ReadLines))
<1>1. UnknownKeys \in SUBSET (1..Len(ReadLines)) /\ Len(ReadLines) \in Nat
  BY ReadLinesFacts DEF FilesOK, UnknownKeys
<1> QED
  BY <1>1 DEF FilesOK, GoodRescuers, GoodTypes

-----------------------------------------------------------------------------
(* The array of rescuer types *)

RescuerOf(l) == [name |-> removeSpaces(l.name), quantity |-> l.quantity]

\* The array when the lines before line p have been read: each good one in its place,
\* and nothing else.
RescuersRead(p) ==
  /\ Len(rescuers) = Before(p, GoodRescuers)
  /\ \A n \in GoodRescuers :
       n < p => rescuers[Place(n, GoodRescuers)] = RescuerOf(rescuerFile[n])
  /\ \A i \in DOMAIN rescuers : \E n \in GoodRescuers : n < p /\ i = Place(n, GoodRescuers)

RescuersInv ==
  /\ phase = "rescuers" => pos <= Len(rescuerFile) + 1 /\ RescuersRead(pos)
  /\ phase \in {"types", "env", "done"} => RescuersRead(Len(rescuerFile) + 1)

LEMMA RescuersWhole ==
  ASSUME TInv, RescuersInv
  PROVE  RescuersAsListed
<1> SUFFICES ASSUME phase \in {"types", "env", "done"} PROVE RescuersAsListed
  BY DEF RescuersAsListed
<1> DEFINE p == Len(rescuerFile) + 1
<1>1. RescuersRead(p) /\ \A n \in GoodRescuers : n < p
  BY LinesType DEF RescuersInv, TInv, FilesOK
<1>2. Before(p, GoodRescuers) = Cardinality(GoodRescuers)
  BY <1>1, BeforeAll
<1> QED
  BY <1>1, <1>2 DEF RescuersRead, RescuersAsListed, RescuerOf

\* The next line changes nothing if it is not good, and else appends what it says.
LEMMA RescuerPassed ==
  ASSUME TInv, RescuersInv, SkipRescuer \/ ReadRescuer
  PROVE  RescuersInv'
<1> DEFINE G == GoodRescuers
           r == RescuerOf(rescuerFile[pos])
<1>1. /\ phase = "rescuers" /\ phase' = "rescuers" /\ pos' = pos + 1 /\ rescuerFile' = rescuerFile
      /\ pos \in 1..Len(rescuerFile) /\ pos \in Nat /\ Len(rescuerFile) \in Nat
  BY DEF SkipRescuer, ReadRescuer, NextLine, fileVars, TInv, FilesOK
<1>2. RescuersRead(pos) /\ G' = G /\ G \in SUBSET Nat
  BY <1>1, LinesKept, LinesType DEF RescuersInv, TInv, Next
<1>3. Before(pos + 1, G) = IF pos \in G THEN Before(pos, G) + 1 ELSE Before(pos, G)
  BY <1>1, <1>2, BeforeNext
<1>4. \A n \in G : n < pos + 1 <=> n < pos \/ n = pos
  BY <1>1, <1>2
<1>5. RescuersRead(pos)'
  <2>1. CASE SkipRescuer
    <3>1. rescuers' = rescuers /\ pos \notin G
      BY <2>1 DEF SkipRescuer, GoodRescuers
    <3> QED
      BY <1>1, <1>2, <1>3, <1>4, <3>1, Zenon DEF RescuersRead
  <2>2. CASE ReadRescuer
    <3>1. rescuers' = Append(rescuers, r) /\ pos \in G
      BY <1>1, <2>2 DEF ReadRescuer, GoodRescuers, RescuerOf
    <3>2. /\ Len(rescuers') = Len(rescuers) + 1 /\ Len(rescuers) \in Nat
          /\ DOMAIN rescuers' = DOMAIN rescuers \cup {Len(rescuers) + 1}
          /\ rescuers'[Len(rescuers) + 1] = r
          /\ \A i \in DOMAIN rescuers : rescuers'[i] = rescuers[i]
      <4> HIDE DEF r
      <4> QED
        BY <3>1 DEF TInv, TypeOK
    <3>3. Place(pos, G) = Len(rescuers) + 1
      BY <1>2 DEF RescuersRead, Place
    <3>4. \A n \in G : n < pos => Place(n, G) \in DOMAIN rescuers
      <4>1. \A n \in G : n < pos => Place(n, G) \in 1..Before(pos, G)
        BY <1>1, <1>2, PlacePassed
      <4> QED
        BY <1>2, <4>1 DEF RescuersRead, TInv, TypeOK
    <3>5. Len(rescuers') = Before(pos + 1, G)
      BY <1>2, <1>3, <3>1, <3>2 DEF RescuersRead
    <3>6. \A n \in G : n < pos + 1 => rescuers'[Place(n, G)] = RescuerOf(rescuerFile[n])
      BY <1>2, <1>4, <3>2, <3>3, <3>4, Zenon DEF RescuersRead
    <3>7. \A i \in DOMAIN rescuers' : \E n \in G : n < pos + 1 /\ i = Place(n, G)
      BY <1>2, <1>4, <3>1, <3>2, <3>3, Zenon DEF RescuersRead
    <3> HIDE DEF r
    <3> QED
      BY <1>1, <1>2, <3>5, <3>6, <3>7, Zenon DEF RescuersRead
  <2> QED
    BY <2>1, <2>2
<1>6. pos' <= Len(rescuerFile') + 1
  BY <1>1
<1> QED
  BY <1>1, <1>5, <1>6 DEF RescuersInv

LEMMA RescuersStep == ASSUME TInv, RescuersInv, [Next]_vars PROVE RescuersInv'
<1>1. CASE SkipRescuer \/ ReadRescuer
  BY <1>1, RescuerPassed
<1>2. CASE EndRescuers
  <2>1. /\ phase = "rescuers" /\ phase' = "types" /\ UNCHANGED <<rescuerFile, rescuers>>
        /\ pos \notin DOMAIN rescuerFile
    BY <1>2 DEF EndRescuers, Open, fileVars
  <2>2. pos = Len(rescuerFile) + 1 /\ RescuersRead(pos)
    BY <2>1 DEF TInv, TypeOK, FilesOK, RescuersInv
  <2>3. RescuersRead(Len(rescuerFile) + 1)'
    BY <2>1, <2>2, LinesKept DEF RescuersRead
  <2> QED
    BY <2>1, <2>3 DEF RescuersInv
<1>3. CASE OverrunRescuers \/ OverrunTypes
  BY <1>3 DEF OverrunRescuers, OverrunTypes, Overrun, RescuersInv
<1>4. CASE \/ SkipType \/ ReadHeader \/ ReadToken \/ BadToken \/ UnknownRescuer \/ EndLine
           \/ EndTypes \/ ReadEnv \/ EndEnv
  <2>1. /\ phase \in {"types", "env", "done"} /\ phase' \in {"types", "env", "done"}
        /\ rescuers' = rescuers
    BY <1>4 DEF TInv, SlotFilled, SkipType, ReadHeader, ReadToken, BadToken, UnknownRescuer,
       EndLine, EndTypes, ReadEnv, EndEnv, Spoil, NextLine, Open, AtTypeLine, AtToken
  <2>2. RescuersRead(Len(rescuerFile) + 1)' <=> RescuersRead(Len(rescuerFile) + 1)
    BY <2>1, LinesKept DEF RescuersRead
  <2> QED
    BY <2>1, <2>2 DEF RescuersInv
<1>5. CASE UNCHANGED vars
  <2>1. UNCHANGED <<phase, pos, rescuers, rescuerFile>>
    BY <1>5 DEF vars, fileVars
  <2>2. RescuersRead(Len(rescuerFile) + 1)' <=> RescuersRead(Len(rescuerFile) + 1)
    BY <2>1, LinesKept DEF RescuersRead
  <2>3. RescuersRead(pos)' <=> RescuersRead(pos)
    BY <2>1, LinesKept DEF RescuersRead
  <2> QED
    BY <2>1, <2>2, <2>3 DEF RescuersInv
<1> QED
  BY <1>1, <1>2, <1>3, <1>4, <1>5 DEF Next

LEMMA RescuersInit == Init => RescuersInv
<1> SUFFICES ASSUME Init PROVE RescuersInv
  OBVIOUS
<1>1. /\ phase = "rescuers" /\ pos = 1 /\ rescuers = <<>>
      /\ Len(rescuerFile) \in Nat /\ GoodRescuers \in SUBSET (Nat \ {0})
  BY InitType, LinesType DEF Init, TInv, FilesOK
<1>2. Before(1, GoodRescuers) = 0 /\ \A n \in GoodRescuers : ~(n < 1)
  BY <1>1, BeforeFirst
<1> QED
  BY <1>1, <1>2 DEF RescuersInv, RescuersRead

LEMMA RescuersInvariant == Spec => []RescuersInv
BY RescuersInit, RescuersStep, TypeInvariant, PTL DEF Spec

\* For every rescues.conf, however long and however many of its lines are bad, the
\* array main() gets is the list of the good lines, squeezed, in order.
THEOREM RescuersListed == Spec => []RescuersAsListed
BY RescuersInvariant, TypeInvariant, RescuersWhole, PTL

-----------------------------------------------------------------------------
(* The array of emergency types *)

\* While a line is in hand: what its slot holds so far, and what strtok has left.
LineRead ==
  LET l == typeFile[pos]
      slot == types[num + 1]
      k == Len(slot.rescuers) IN
    /\ pos \in DOMAIN typeFile /\ GoodHeader(l) /\ l.tokens # <<>>
    /\ slot.name = removeSpaces(l.name) /\ slot.priority = l.priority
    /\ k + Len(tokens) = Len(l.tokens)
    /\ \A i \in 1..Len(tokens) : tokens[i] = l.tokens[k + i]
    /\ \A j \in 1..k : NamesRescuer(l.tokens[j]) /\ HoldsRequest(slot.rescuers[j], l.tokens[j])

\* The slots that count when the lines before line p have been read.
TypesRead(p) ==
  /\ num = Before(p, GoodTypes)
  /\ \A n \in GoodTypes :
       n < p => HoldsLine(types[Place(n, GoodTypes)], typeFile[n])

TypesInv ==
  /\ phase = "rescuers" => num = 0
  /\ phase = "types" =>
       pos <= Len(typeFile) + 1 /\ TypesRead(pos) /\ (inLine => LineRead)
  /\ phase \in {"env", "done"} => TypesRead(Len(typeFile) + 1)

\* The loop over the rescuers finds one exactly if the file has one of that name, and
\* it finds the first.
LEMMA FirstNamed ==
  ASSUME TInv, RescuersInv, phase = "types", NEW t
  PROVE  /\ NamedBy(t) # {} <=>
              \E n \in GoodRescuers :
                removeSpaces(rescuerFile[n].name) = removeSpaces(t.name)
         /\ NamedBy(t) # {} =>
              /\ Min(NamedBy(t)) \in DOMAIN rescuers
              /\ \A i \in 1..Min(NamedBy(t)) :
                   rescuers[i].name = removeSpaces(t.name) <=> i = Min(NamedBy(t))
<1> DEFINE G == GoodRescuers
           p == Len(rescuerFile) + 1
<1>1. RescuersRead(p) /\ (\A n \in G : n < p) /\ G \in SUBSET Nat /\ p \in Nat
  BY LinesType DEF RescuersInv, TInv, FilesOK
<1>2. \A n \in G : rescuers[Place(n, G)].name = removeSpaces(rescuerFile[n].name)
  <2>1. \A n \in G : rescuers[Place(n, G)] = RescuerOf(rescuerFile[n])
    BY <1>1 DEF RescuersRead
  <2>2. \A l : RescuerOf(l).name = removeSpaces(l.name)
    BY DEF RescuerOf
  <2> QED
    BY <2>1, <2>2, Zenon
<1>3. \A n \in G : Place(n, G) \in DOMAIN rescuers
  <2>1. \A n \in G : Place(n, G) \in 1..Before(p, G)
    BY <1>1, PlacePassed
  <2> QED
    BY <1>1, <2>1 DEF RescuersRead, TInv, TypeOK
<1>4. \A i \in DOMAIN rescuers : \E n \in G : i = Place(n, G)
  BY <1>1 DEF RescuersRead
<1>5. NamedBy(t) # {} <=> \E n \in G : removeSpaces(rescuerFile[n].name) = removeSpaces(t.name)
  BY <1>2, <1>3, <1>4, Zenon DEF NamedBy
<1>6. ASSUME NamedBy(t) # {}
      PROVE  /\ Min(NamedBy(t)) \in DOMAIN rescuers
             /\ \A i \in 1..Min(NamedBy(t)) :
                  rescuers[i].name = removeSpaces(t.name) <=> i = Min(NamedBy(t))
  <2> DEFINE m == Min(NamedBy(t))
  <2>1. NamedBy(t) \in SUBSET Nat /\ DOMAIN rescuers = 1..Len(rescuers) /\ Len(rescuers) \in Nat
    BY DEF NamedBy, TInv, TypeOK
  <2>2. m \in NamedBy(t) /\ \A i \in NamedBy(t) : m <= i
    BY <1>6, <2>1, MinOfNat
  <2>3. m \in DOMAIN rescuers /\ rescuers[m].name = removeSpaces(t.name)
    BY <2>2 DEF NamedBy
  <2> HIDE DEF m
  <2>4. ASSUME NEW i \in 1..m, rescuers[i].name = removeSpaces(t.name)
        PROVE  i = m
    <3>1. i \in DOMAIN rescuers
      BY <2>1, <2>3
    <3>2. i \in NamedBy(t)
      BY <2>4, <3>1 DEF NamedBy
    <3> QED
      BY <2>1, <2>2, <2>3, <3>2
  <2> QED
    BY <2>3, <2>4 DEF m
<1> QED
  BY <1>5, <1>6

LEMMA WriteFacts ==
  ASSUME TInv, NEW slot, Write(num + 1, slot)
  PROVE  types'[num + 1] = slot /\ \A i \in 1..num : types'[i] = types[i]
<1>1. types \in Seq(Slot) /\ num \in 0..Len(types) /\ Len(types) \in Nat /\ num \in Nat
  BY DEF TInv, TypeOK
<1>2. CASE num + 1 \in DOMAIN types
  BY <1>1, <1>2 DEF Write
<1>3. CASE num + 1 \notin DOMAIN types
  <2>1. num = Len(types)
    <3>1. ~(num + 1 <= Len(types)) /\ num <= Len(types)
      BY <1>1, <1>3
    <3> QED
      BY <1>1, <3>1, NoneBetween, Zenon
  <2>2. types' = Append(types, slot)
    BY <1>3 DEF Write
  <2> QED
    BY <1>1, <2>1, <2>2
<1> QED
  BY <1>2, <1>3

\* A slot that is written beyond those that count, and a line that is not good, leave
\* the array as it should be.
LEMMA TypesKept ==
  ASSUME TInv, [Next]_vars, TypesRead(pos), num' = num, rescuers' = rescuers,
         \A i \in 1..num : types'[i] = types[i],
         pos' = pos \/ (pos' = pos + 1 /\ pos \notin GoodTypes)
  PROVE  TypesRead(pos)'
<1> DEFINE G == GoodTypes
<1>1. G' = G /\ typeFile' = typeFile /\ G \in SUBSET Nat /\ pos \in Nat
  BY LinesKept, LinesType DEF TInv, TypeOK
<1>2. Before(pos', G) = Before(pos, G)
  BY <1>1, BeforeNext
<1>3. \A n \in G : n < pos' => n < pos
  BY <1>1
<1>4. \A n \in G : n < pos => Place(n, G) \in 1..num
  BY <1>1, PlacePassed DEF TypesRead
<1>5. \A n \in G : n < pos => HoldsLine(types[Place(n, G)], typeFile[n])
  BY DEF TypesRead
<1>6. ASSUME NEW n \in G, n < pos'
      PROVE  HoldsLine(types[Place(n, GoodTypes)], typeFile[n])'
  <2>1. /\ HoldsLine(types[Place(n, G)], typeFile[n])
        /\ types'[Place(n, G)] = types[Place(n, G)]
    BY <1>3, <1>4, <1>5, <1>6
  <2>2. Place(n, GoodTypes)' = Place(n, G)
    BY <1>1
  <2> DEFINE s == types[Place(n, G)]
             l == typeFile[n]
  <2>3. types[Place(n, GoodTypes)]' = s /\ typeFile[n]' = l
    BY <1>1, <2>1, <2>2
  <2> HIDE DEF s, l
  <2>4. HoldsLine(s, l)
    BY <2>1 DEF s, l
  <2> QED
    BY <1>1, <2>3, <2>4 DEF HoldsLine, HoldsRequest, Considered
<1>7. num' = Before(pos', G)
  BY <1>2 DEF TypesRead
<1> QED
  BY <1>1, <1>6, <1>7, Zenon DEF TypesRead

\* The tokens considered are among those there are, and the first always is.
LEMMA ConsideredTokens ==
  ASSUME NEW l, l.tokens \in Seq(Token), l.tokens # <<>>
  PROVE  /\ 1 \in Considered(l)
         /\ \A j \in Considered(l) : j \in DOMAIN l.tokens
<1> DEFINE m == Min({MaxRequests, Len(l.tokens)})
<1>1. MaxRequests \in Nat \ {0} /\ Len(l.tokens) \in Nat \ {0}
  BY ParserAssumption
<1>2. m \in {MaxRequests, Len(l.tokens)} /\ m <= Len(l.tokens)
  BY <1>1, MinOfNat
<1>3. Considered(l) = 1..m
  BY DEF Considered
<1> HIDE DEF m
<1> QED
  BY <1>1, <1>2, <1>3

\* The tokens that are looked at are the first ones, as many as fit.
LEMMA ConsideredFacts ==
  ASSUME NEW l \in TypeLine, NEW k \in Nat, k <= MaxRequests, k <= Len(l.tokens)
  PROVE  /\ k < MaxRequests /\ k < Len(l.tokens) => k + 1 \in Considered(l)
         /\ k = MaxRequests \/ k = Len(l.tokens) => Considered(l) = 1..k
<1> DEFINE m == Min({MaxRequests, Len(l.tokens)})
<1>1. Len(l.tokens) \in Nat /\ MaxRequests \in Nat
  BY ParserAssumption DEF TypeLine
<1>2. {MaxRequests, Len(l.tokens)} \in SUBSET Nat
  BY <1>1
<1>3. m \in {MaxRequests, Len(l.tokens)} /\ m <= MaxRequests /\ m <= Len(l.tokens)
  BY <1>2, MinOfNat
<1>4. Considered(l) = 1..m
  BY DEF Considered
<1> HIDE DEF m
<1> QED
  BY <1>1, <1>3, <1>4

\* What holds of the line in hand.
LEMMA InHand ==
  ASSUME TInv, TypesInv, inLine, NEW l, l = typeFile[pos], NEW slot, slot = types[num + 1],
         NEW k, k = Len(slot.rescuers)
  PROVE  /\ phase = "types" /\ TypesRead(pos) /\ LineRead
         /\ pos \in Nat \ {0} /\ pos \in DOMAIN typeFile /\ l \in TypeLine /\ slot \in Slot
         /\ k \in Nat /\ k <= MaxRequests /\ k + Len(tokens) = Len(l.tokens)
         /\ Len(tokens) \in Nat /\ tokens \in Seq(Token)
         /\ num \in Nat /\ num + 1 \in DOMAIN types /\ num < MaxTypes
<1>1. phase = "types" /\ TypesRead(pos) /\ LineRead
  BY DEF TInv, SlotFilled, TypesInv
<1>2. pos \in DOMAIN typeFile /\ k + Len(tokens) = Len(l.tokens)
  BY <1>1 DEF LineRead
<1>3. /\ num + 1 \in DOMAIN types /\ num \in Nat /\ num < MaxTypes
      /\ types \in Seq(Slot) /\ typeFile \in Seq(TypeLine)
      /\ tokens \in Seq(Token) /\ pos \in Nat \ {0}
  BY ParserAssumption DEF TInv, SlotFilled, TypeOK, FilesOK
<1>4. l \in TypeLine /\ slot \in Slot /\ k <= MaxRequests
  BY <1>2, <1>3 DEF TInv, TypeOK
<1>5. k \in Nat /\ Len(tokens) \in Nat
  BY <1>3, <1>4 DEF Slot
<1> QED
  BY <1>1, <1>2, <1>3, <1>4, <1>5

LEMMA HeaderListed ==
  ASSUME TInv, RescuersInv, TypesInv, SkipType \/ ReadHeader
  PROVE  TypesInv'
<1> DEFINE l == typeFile[pos]
<1>1. /\ phase = "types" /\ ~inLine /\ pos \in DOMAIN typeFile /\ phase' = "types"
      /\ pos \in Nat \ {0} /\ Len(typeFile) \in Nat /\ pos <= Len(typeFile)
      /\ typeFile' = typeFile /\ rescuers' = rescuers /\ num' = num /\ [Next]_vars
  BY DEF SkipType, ReadHeader, AtTypeLine, NextLine, TInv, TypeOK, FilesOK, fileVars, typeVars,
     Next
<1>2. TypesRead(pos)
  BY <1>1 DEF TypesInv
<1>3. pos \in GoodTypes <=> GoodType(l)
  BY <1>1 DEF GoodTypes
<1>4. CASE SkipType
  <2>1. pos' = pos + 1 /\ types' = types /\ inLine' = inLine /\ ~GoodHeader(l)
    BY <1>4 DEF SkipType, NextLine, typeVars
  <2>2. pos \notin GoodTypes
    BY <1>3, <2>1 DEF GoodType
  <2>3. TypesRead(pos)'
    BY <1>1, <1>2, <2>1, <2>2, TypesKept
  <2>4. pos' <= Len(typeFile') + 1
    BY <1>1, <2>1
  <2> QED
    BY <1>1, <2>1, <2>3, <2>4, Zenon DEF TypesInv
<1>5. CASE ReadHeader
  <2> DEFINE slot == [name |-> removeSpaces(l.name), priority |-> l.priority, rescuers |-> <<>>]
  <2>1. GoodHeader(l) /\ Write(num + 1, slot)
    BY <1>5 DEF ReadHeader
  <2>2. types'[num + 1] = slot /\ \A i \in 1..num : types'[i] = types[i]
    <3> HIDE DEF slot
    <3> QED
      BY <2>1, WriteFacts
  <2>3. CASE l.tokens = <<>>
    <3>1. pos' = pos + 1 /\ inLine' = inLine
      BY <1>5, <2>3 DEF ReadHeader, NextLine
    <3>2. pos \notin GoodTypes
      BY <1>3, <2>3 DEF GoodType
    <3>3. TypesRead(pos)'
      BY <1>1, <1>2, <2>2, <3>1, <3>2, TypesKept
    <3>4. pos' <= Len(typeFile') + 1
      BY <1>1, <3>1
    <3> QED
      BY <1>1, <3>1, <3>3, <3>4, Zenon DEF TypesInv
  <2>4. CASE l.tokens # <<>>
    <3>1. pos' = pos /\ tokens' = l.tokens
      BY <1>5, <2>4 DEF ReadHeader
    <3>2. TypesRead(pos)'
      BY <1>1, <1>2, <2>2, <3>1, TypesKept
    <3>3. l \in TypeLine
      BY <1>1 DEF TInv, FilesOK
    <3>4. Len(l.tokens) \in Nat
      BY <3>3 DEF TypeLine
    <3>5. /\ types'[num' + 1].name = removeSpaces(l.name)
          /\ types'[num' + 1].priority = l.priority
          /\ types'[num' + 1].rescuers = <<>>
      BY <1>1, <2>2
    <3>6. LineRead'
      <4>1. /\ typeFile'[pos'] = l /\ pos' \in DOMAIN typeFile' /\ GoodHeader(l)
        BY <1>1, <2>1, <3>1
      <4>2. Len(<<>>) + Len(tokens') = Len(l.tokens)
        BY <3>1, <3>4
      <4>3. \A i \in 1..Len(tokens') : tokens'[i] = l.tokens[Len(<<>>) + i]
        BY <3>1, <3>4
      <4>4. 1..Len(<<>>) = {}
        OBVIOUS
      <4> HIDE DEF l, slot
      <4> QED
        BY <2>4, <3>5, <4>1, <4>2, <4>3, <4>4 DEF LineRead, GoodHeader
    <3>7. pos' <= Len(typeFile') + 1
      BY <1>1, <3>1
    <3> QED
      BY <1>1, <3>2, <3>6, <3>7, Zenon DEF TypesInv
  <2> QED
    BY <2>3, <2>4
<1> QED
  BY <1>4, <1>5

\* A token that is refused spoils its line.
LEMMA SpoiledLine ==
  ASSUME TInv, TypesInv, AtToken, ~NamesRescuer(Head(tokens))
  PROVE  pos \notin GoodTypes
<1> DEFINE l == typeFile[pos]
           slot == types[num + 1]
           k == Len(slot.rescuers)
<1>1. /\ LineRead /\ l \in TypeLine /\ k \in Nat /\ k <= MaxRequests
      /\ k + Len(tokens) = Len(l.tokens) /\ Len(tokens) \in Nat /\ tokens \in Seq(Token)
  BY InHand DEF AtToken
<1>2. k < MaxRequests /\ tokens # <<>>
  BY DEF AtToken, MoreRoom, RequestsSoFar
<1> HIDE DEF k
<1>3. Len(tokens) > 0
  BY <1>1, <1>2
<1>4. k < Len(l.tokens)
  BY <1>1, <1>3
<1>5. k + 1 \in Considered(l)
  BY <1>1, <1>2, <1>4, ConsideredFacts
<1>6. Head(tokens) = l.tokens[k + 1]
  <2>1. 1 \in 1..Len(tokens) /\ Head(tokens) = tokens[1]
    BY <1>1, <1>3
  <2> QED
    BY <1>1, <2>1 DEF LineRead, k
<1> QED
  BY <1>5, <1>6 DEF GoodTypes, GoodType

LEMMA SpoilListed ==
  ASSUME TInv, RescuersInv, TypesInv, BadToken \/ UnknownRescuer
  PROVE  TypesInv' /\ pos \notin GoodTypes
<1>1. /\ AtToken /\ inLine' = FALSE /\ num' = num /\ phase' = phase /\ pos' = pos + 1
      /\ rescuers' = rescuers /\ typeFile' = typeFile /\ [Next]_vars
  BY DEF BadToken, UnknownRescuer, Spoil, NextLine, fileVars, Next
<1>2. /\ phase = "types" /\ TypesRead(pos) /\ pos \in DOMAIN typeFile
      /\ Len(typeFile) \in Nat /\ pos \in 1..Len(typeFile)
  <2>1. phase = "types" /\ TypesRead(pos) /\ pos \in DOMAIN typeFile
    BY <1>1, InHand DEF AtToken
  <2> QED
    BY <2>1 DEF TInv, FilesOK
<1>3. \A i \in 1..num : types'[i] = types[i]
  <2>1. CASE BadToken
    BY <2>1 DEF BadToken
  <2>2. CASE UnknownRescuer
    BY <2>2, WriteFacts DEF UnknownRescuer, AddRequest
  <2> QED
    BY <2>1, <2>2
<1>4. ~NamesRescuer(Head(tokens))
  <2>1. CASE BadToken
    BY <2>1 DEF BadToken, NamesRescuer
  <2>2. CASE UnknownRescuer
    BY <1>2, <2>2, FirstNamed DEF UnknownRescuer, NamesRescuer
  <2> QED
    BY <2>1, <2>2
<1>5. pos \notin GoodTypes
  BY <1>1, <1>4, SpoiledLine
<1>6. TypesRead(pos)'
  BY <1>1, <1>2, <1>3, <1>5, TypesKept
<1>7. pos' <= Len(typeFile') + 1
  BY <1>1, <1>2
<1> QED
  BY <1>1, <1>2, <1>5, <1>6, <1>7, Zenon DEF TypesInv

LEMMA TokenListed ==
  ASSUME TInv, RescuersInv, TypesInv, ReadToken
  PROVE  TypesInv'
<1> DEFINE l == typeFile[pos]
           slot == types[num + 1]
           k == Len(slot.rescuers)
           t == Head(tokens)
           rq == [type |-> Min(NamedBy(t)), required_count |-> t.count]
<1>1. /\ AtToken /\ inLine' = inLine /\ num' = num /\ phase' = phase /\ pos' = pos
      /\ rescuers' = rescuers /\ UNCHANGED <<rescuerFile, typeFile>> /\ [Next]_vars
      /\ tokens' = Tail(tokens) /\ t.ok /\ NamedBy(t) # {}
  BY DEF ReadToken, fileVars, Next
<1>2. /\ phase = "types" /\ TypesRead(pos) /\ LineRead /\ pos \in DOMAIN typeFile
      /\ l \in TypeLine /\ slot \in Slot /\ k \in Nat /\ tokens \in Seq(Token)
      /\ k + Len(tokens) = Len(l.tokens) /\ pos <= Len(typeFile) + 1
  BY <1>1, InHand DEF AtToken, TypesInv
<1>3. AddRequest(Min(NamedBy(t)), t.count)
  BY DEF ReadToken
<1>4. /\ types'[num + 1] = [slot EXCEPT !.rescuers = Append(@, rq)]
      /\ \A i \in 1..num : types'[i] = types[i]
  BY <1>3, WriteFacts DEF AddRequest
<1>5. /\ types'[num + 1].name = slot.name /\ types'[num + 1].priority = slot.priority
      /\ types'[num + 1].rescuers = Append(slot.rescuers, rq)
  BY <1>2, <1>4 DEF Slot
<1>6. /\ Len(tokens) \in Nat /\ Len(tokens) > 0 /\ t = tokens[1]
      /\ Len(Tail(tokens)) = Len(tokens) - 1
      /\ \A i \in 1..(Len(tokens) - 1) : Tail(tokens)[i] = tokens[i + 1]
  BY <1>1, <1>2 DEF AtToken
<1>7. t = l.tokens[k + 1]
  BY <1>2, <1>6 DEF LineRead
<1>8. HoldsRequest(rq, t)
  <2>1. /\ Min(NamedBy(t)) \in DOMAIN rescuers
        /\ \A i \in 1..Min(NamedBy(t)) :
             rescuers[i].name = removeSpaces(t.name) <=> i = Min(NamedBy(t))
    BY <1>1, <1>2, FirstNamed
  <2>2. rq.type = Min(NamedBy(t)) /\ rq.required_count = t.count
    OBVIOUS
  <2> HIDE DEF rq, t
  <2> QED
    BY <2>1, <2>2, Zenon DEF HoldsRequest
<1>9. NamesRescuer(t)
  BY <1>1, <1>2, FirstNamed DEF NamesRescuer
<1>10. /\ Len(Append(slot.rescuers, rq)) = k + 1
       /\ Append(slot.rescuers, rq)[k + 1] = rq
       /\ \A j \in 1..k : Append(slot.rescuers, rq)[j] = slot.rescuers[j]
  <2> HIDE DEF rq
  <2> QED
    BY <1>2 DEF Slot
<1> DEFINE requests == Append(slot.rescuers, rq)
<1>11. \A j \in 1..(k + 1) :
         NamesRescuer(l.tokens[j]) /\ HoldsRequest(requests[j], l.tokens[j])
  <2>1. \A j \in 1..k : NamesRescuer(l.tokens[j]) /\ HoldsRequest(requests[j], l.tokens[j])
    BY <1>2, <1>10 DEF LineRead
  <2>2. \A j \in 1..(k + 1) : j \in 1..k \/ j = k + 1
    BY <1>2
  <2> HIDE DEF requests, rq, t, k, l, slot
  <2> QED
    BY <1>7, <1>8, <1>9, <1>10, <2>1, <2>2, Zenon DEF requests
<1>12. \A request, tok :
         (HoldsRequest(request, tok)' <=> HoldsRequest(request, tok))
         /\ (NamesRescuer(tok)' <=> NamesRescuer(tok))
  BY <1>1, LinesKept DEF HoldsRequest, NamesRescuer
<1>13. LineRead'
  <2>1. /\ typeFile'[pos'] = l /\ pos' \in DOMAIN typeFile' /\ GoodHeader(l)
        /\ l.tokens # <<>> /\ slot.name = removeSpaces(l.name) /\ slot.priority = l.priority
    BY <1>1, <1>2 DEF LineRead
  <2>2. types'[num' + 1].rescuers = requests /\ Len(requests) = k + 1
    BY <1>1, <1>5, <1>10
  <2>3. (k + 1) + Len(tokens') = Len(l.tokens)
    <3>1. Len(tokens') = Len(tokens) - 1
      BY <1>1, <1>6
    <3> HIDE DEF k, l
    <3> QED
      BY <1>2, <1>6, <3>1
  <2>4. \A i \in 1..Len(tokens') : tokens'[i] = l.tokens[(k + 1) + i]
    <3>1. \A i \in 1..(Len(tokens) - 1) : i + 1 \in 1..Len(tokens) /\ k + (i + 1) = (k + 1) + i
      <4> HIDE DEF k
      <4> QED
        BY <1>2, <1>6
    <3>2. \A i \in 1..Len(tokens) : tokens[i] = l.tokens[k + i]
      BY <1>2 DEF LineRead
    <3> QED
      BY <1>1, <1>6, <3>1, <3>2
  <2>5. types'[num' + 1].name = slot.name /\ types'[num' + 1].priority = slot.priority
    BY <1>1, <1>5
  <2> HIDE DEF requests, k, slot, l
  <2> QED
    BY <1>11, <1>12, <2>1, <2>2, <2>3, <2>4, <2>5 DEF LineRead, GoodHeader
<1>14. TypesRead(pos)'
  BY <1>1, <1>2, <1>4, TypesKept
<1>15. pos' <= Len(typeFile') + 1
  BY <1>1, <1>2
<1> QED
  BY <1>1, <1>2, <1>13, <1>14, <1>15, Zenon DEF TypesInv

\* A line whose tokens are used up, or that filled its slot, is good, and its slot
\* counts from now on.
LEMMA EndListed ==
  ASSUME TInv, RescuersInv, TypesInv, EndLine
  PROVE  TypesInv' /\ pos \in GoodTypes
<1> DEFINE l == typeFile[pos]
           slot == types[num + 1]
           k == Len(slot.rescuers)
           G == GoodTypes
<1>1. /\ inLine /\ inLine' = FALSE /\ num' = num + 1 /\ phase' = phase /\ pos' = pos + 1
      /\ rescuers' = rescuers /\ typeFile' = typeFile /\ types' = types /\ [Next]_vars
      /\ tokens = <<>> \/ ~MoreRoom
  BY DEF EndLine, NextLine, fileVars, Next
<1>2. /\ phase = "types" /\ TypesRead(pos) /\ LineRead /\ pos \in DOMAIN typeFile
      /\ l \in TypeLine /\ slot \in Slot /\ k \in Nat /\ k <= MaxRequests
      /\ tokens \in Seq(Token) /\ k + Len(tokens) = Len(l.tokens) /\ Len(tokens) \in Nat
      /\ pos \in Nat
  BY <1>1, InHand
<1>3. k <= Len(l.tokens) /\ (k = MaxRequests \/ k = Len(l.tokens))
  <2>1. k = MaxRequests \/ Len(tokens) = 0
    BY <1>1, <1>2, ParserAssumption DEF MoreRoom, RequestsSoFar
  <2> HIDE DEF k
  <2> QED
    BY <1>2, <2>1
<1>4. Considered(l) = 1..k
  <2> HIDE DEF k, l
  <2> QED
    BY <1>2, <1>3, ConsideredFacts
<1>5. pos \in G
  BY <1>2, <1>4 DEF GoodTypes, GoodType, LineRead
<1>6. HoldsLine(slot, l)
  <2>1. DOMAIN slot.rescuers = 1..k
    BY <1>2 DEF Slot
  <2>2. /\ slot.name = removeSpaces(l.name) /\ slot.priority = l.priority
        /\ \A j \in 1..k : HoldsRequest(slot.rescuers[j], l.tokens[j])
    BY <1>2 DEF LineRead
  <2> HIDE DEF k, slot, l
  <2> QED
    BY <1>4, <2>1, <2>2 DEF HoldsLine
<1>7. G' = G /\ G \in SUBSET Nat
  BY <1>1, LinesKept, LinesType DEF TInv
<1>8. Before(pos + 1, G) = Before(pos, G) + 1 /\ num = Before(pos, G)
  BY <1>2, <1>5, <1>7, BeforeNext DEF TypesRead
<1>9. \A n \in G : n < pos + 1 => HoldsLine(types[Place(n, G)], typeFile[n])
  <2>1. \A n \in G : n < pos + 1 <=> n < pos \/ n = pos
    BY <1>2, <1>7
  <2>2. Place(pos, G) = num + 1
    BY <1>8 DEF Place
  <2> QED
    BY <1>2, <1>6, <2>1, <2>2, Zenon DEF TypesRead
<1>10. \A s, m : HoldsLine(s, m)' <=> HoldsLine(s, m)
  BY <1>1, Zenon DEF HoldsLine, HoldsRequest, Considered
<1>11. TypesRead(pos)'
  <2>1. num' = Before(pos', G)
    BY <1>1, <1>8
  <2>2. ASSUME NEW n \in G, n < pos'
        PROVE  HoldsLine(types[Place(n, GoodTypes)], typeFile[n])'
    <3>1. HoldsLine(types[Place(n, G)], typeFile[n])
      BY <1>1, <1>9, <2>2
    <3>2. Place(n, GoodTypes)' = Place(n, G)
      BY <1>7
    <3> DEFINE s == types[Place(n, G)]
               m == typeFile[n]
    <3>3. types[Place(n, GoodTypes)]' = s /\ typeFile[n]' = m
      BY <1>1, <3>2
    <3> HIDE DEF s, m
    <3>4. HoldsLine(s, m)
      BY <3>1 DEF s, m
    <3> QED
      BY <1>1, <3>3, <3>4 DEF HoldsLine, HoldsRequest, Considered
  <2> QED
    BY <1>7, <2>1, <2>2, Zenon DEF TypesRead
<1>12. pos' <= Len(typeFile') + 1
  BY <1>1, <1>2 DEF TInv, FilesOK
<1> QED
  BY <1>1, <1>2, <1>5, <1>11, <1>12, Zenon DEF TypesInv

LEMMA TypesReadSame ==
  ASSUME [Next]_vars, UNCHANGED <<pos, num, types, rescuers>>
  PROVE  /\ TypesRead(pos)' <=> TypesRead(pos)
         /\ TypesRead(Len(typeFile) + 1)' <=> TypesRead(Len(typeFile) + 1)
<1>1. UNCHANGED <<GoodTypes, typeFile>>
  BY LinesKept
<1>2. TypesRead(pos)' <=> TypesRead(pos)
  BY <1>1 DEF TypesRead, HoldsLine, HoldsRequest, Considered
<1>3. TypesRead(Len(typeFile) + 1)' <=> TypesRead(Len(typeFile) + 1)
  BY <1>1 DEF TypesRead, HoldsLine, HoldsRequest, Considered
<1> QED
  BY <1>2, <1>3

LEMMA TypesStep == ASSUME TInv, RescuersInv, TypesInv, [Next]_vars PROVE TypesInv'
<1>1. CASE SkipType \/ ReadHeader
  BY <1>1, HeaderListed
<1>2. CASE BadToken \/ UnknownRescuer
  BY <1>2, SpoilListed
<1>3. CASE ReadToken
  BY <1>3, TokenListed
<1>4. CASE EndLine
  BY <1>4, EndListed
<1>5. CASE SkipRescuer \/ ReadRescuer \/ OverrunRescuers \/ OverrunTypes
  <2>1. phase' \in {"rescuers", "overrun"} /\ num' = num /\ (phase' = "rescuers" => phase = "rescuers")
    BY <1>5 DEF SkipRescuer, ReadRescuer, OverrunRescuers, OverrunTypes, Overrun, NextLine, typeVars
  <2> QED
    BY <2>1 DEF TypesInv
<1>6. CASE EndRescuers
  <2>1. phase = "rescuers" /\ phase' = "types" /\ pos' = 1 /\ num' = num /\ inLine' = inLine
    BY <1>6 DEF EndRescuers, Open, typeVars
  <2>2. num = 0 /\ ~inLine
    BY <2>1 DEF TypesInv, TInv, SlotFilled
  <2>3. UNCHANGED <<typeFile, GoodTypes>> /\ GoodTypes \in SUBSET (Nat \ {0})
        /\ Len(typeFile) \in Nat
    BY FilesKept, LinesKept, LinesType DEF TInv, FilesOK
  <2>4. Before(1, GoodTypes) = 0 /\ \A n \in GoodTypes : ~(n < 1)
    BY <2>3, BeforeFirst
  <2>5. TypesRead(pos)'
    BY <2>1, <2>2, <2>3, <2>4 DEF TypesRead
  <2>6. pos' <= Len(typeFile') + 1
    BY <2>1, <2>3
  <2> QED
    BY <2>1, <2>2, <2>5, <2>6 DEF TypesInv
<1>7. CASE EndTypes
  <2>1. /\ phase = "types" /\ phase' = "env" /\ pos \notin DOMAIN typeFile
        /\ UNCHANGED <<num, types, rescuers, typeFile>>
    BY <1>7 DEF EndTypes, Open, fileVars, typeVars
  <2>2. pos = Len(typeFile) + 1
    BY <2>1 DEF TypesInv, TInv, TypeOK, FilesOK
  <2>3. TypesRead(Len(typeFile) + 1)
    BY <2>1, <2>2 DEF TypesInv
  <2>4. TypesRead(Len(typeFile) + 1)'
    BY <2>1, <2>3, LinesKept DEF TypesRead, HoldsLine, HoldsRequest, Considered
  <2> QED
    BY <2>1, <2>4 DEF TypesInv
<1>8. CASE ReadEnv \/ EndEnv
  <2>1. /\ phase \in {"env", "done"} /\ phase' \in {"env", "done"}
        /\ UNCHANGED <<num, types, rescuers, typeFile>>
    BY <1>8 DEF ReadEnv, EndEnv, NextLine, fileVars, typeVars
  <2>2. TypesRead(Len(typeFile) + 1)'
    BY <2>1, LinesKept DEF TypesInv, TypesRead, HoldsLine, HoldsRequest, Considered
  <2> QED
    BY <2>1, <2>2 DEF TypesInv
<1>9. CASE UNCHANGED vars
  <2>1. UNCHANGED <<phase, pos, num, types, rescuers, typeFile, inLine, tokens, rescuerFile>>
    BY <1>9 DEF vars, fileVars, typeVars
  <2>2. LineRead' <=> LineRead
    BY <2>1, LinesKept DEF LineRead, HoldsRequest, NamesRescuer, GoodHeader
  <2> QED
    BY <2>1, <2>2, TypesReadSame, Zenon DEF TypesInv
<1> QED
  BY <1>1, <1>2, <1>3, <1>4, <1>5, <1>6, <1>7, <1>8, <1>9 DEF Next

LEMMA TypesInvariant == Spec => []TypesInv
<1>1. Init => TypesInv
  BY DEF Init, TypesInv
<1> QED
  BY <1>1, TypesStep, TypeInvariant, RescuersInvariant, PTL DEF Spec

LEMMA TypesWhole == ASSUME TInv, TypesInv PROVE TypesAsListed
<1> SUFFICES ASSUME phase \in {"env", "done"} PROVE TypesAsListed
  BY DEF TypesAsListed
<1>1. TypesRead(Len(typeFile) + 1) /\ \A n \in GoodTypes : n < Len(typeFile) + 1
  BY LinesType DEF TypesInv, TInv, FilesOK
<1>2. Before(Len(typeFile) + 1, GoodTypes) = Cardinality(GoodTypes)
  BY <1>1, BeforeAll
<1> QED
  BY <1>1, <1>2 DEF TypesRead, TypesAsListed

\* For every emergency_types.conf the array of emergency types is the list of the lines
\* without an error, in order, each with its first requests and the first rescuer of
\* each name, although slots are written before their lines are known to be good.
THEOREM TypesListed == Spec => []TypesAsListed
BY TypesInvariant, TypeInvariant, TypesWhole, PTL

\* Whatever the files hold, an emergency type that counts has requests, and each of
\* them points to a rescuer type and a count that were read: what module Resources
\* assumes of the arrays the handlers work with.
THEOREM LoadedUsable == Spec => []LoadedIsUsable
<1>1. ASSUME TInv, TypesInv PROVE LoadedIsUsable
  <2> SUFFICES ASSUME phase \in {"env", "done"}, NEW k \in 1..num
               PROVE  /\ types[k].rescuers # <<>>
                      /\ \A j \in DOMAIN types[k].rescuers :
                           /\ types[k].rescuers[j].type \in DOMAIN rescuers
                           /\ types[k].rescuers[j].required_count \in Int
    BY DEF LoadedIsUsable
  <2>1. TypesRead(Len(typeFile) + 1) /\ typeFile \in Seq(TypeLine)
    BY <1>1 DEF TypesInv, TInv, FilesOK
  <2>2. PICK n \in GoodTypes : k = Place(n, GoodTypes) /\ n < Len(typeFile) + 1
    <3>1. GoodTypes \in SUBSET (Nat \ {0}) /\ Len(typeFile) + 1 \in Nat \ {0}
      BY <1>1, <2>1, LinesType DEF TInv
    <3>2. k \in 1..Before(Len(typeFile) + 1, GoodTypes)
      BY <2>1 DEF TypesRead
    <3> QED
      BY <3>1, <3>2, PlacesFilled
  <2>3. HoldsLine(types[k], typeFile[n]) /\ GoodType(typeFile[n])
    BY <2>1, <2>2 DEF TypesRead, GoodTypes
  <2>4. typeFile[n].tokens \in Seq(Token) /\ typeFile[n].tokens # <<>>
    <3>1. n \in DOMAIN typeFile
      BY DEF GoodTypes
    <3>2. typeFile[n] \in TypeLine
      BY <2>1, <3>1
    <3> QED
      BY <2>3, <3>2 DEF GoodType, TypeLine
  <2>5. /\ 1 \in Considered(typeFile[n])
        /\ \A j \in Considered(typeFile[n]) : j \in DOMAIN typeFile[n].tokens
    BY <2>4, ConsideredTokens, ParserAssumption
  <2>6. DOMAIN types[k].rescuers = Considered(typeFile[n])
    BY <2>3 DEF HoldsLine
  <2>7. types[k].rescuers # <<>>
    BY <2>5, <2>6
  <2>8. ASSUME NEW j \in DOMAIN types[k].rescuers
        PROVE  /\ types[k].rescuers[j].type \in DOMAIN rescuers
               /\ types[k].rescuers[j].required_count \in Int
    <3>1. HoldsRequest(types[k].rescuers[j], typeFile[n].tokens[j])
      BY <2>3, <2>6 DEF HoldsLine
    <3>2. typeFile[n].tokens[j] \in Token
      BY <2>4, <2>5, <2>6
    <3> QED
      BY <3>1, <3>2 DEF HoldsRequest, Token
  <2> QED
    BY <2>7, <2>8
<1> QED
  BY <1>1, TypesInvariant, TypeInvariant, PTL

-----------------------------------------------------------------------------
(* The ends of the arrays *)

Fits(n) == GoodHeader(typeFile[n]) => Before(n, GoodTypes) < MaxTypes

\* A line that was passed had room in the array.
LimitsInv ==
  /\ phase = "overrun" => ~KeepsToLimits
  /\ phase = "types" => \A n \in DOMAIN typeFile : n < pos => Fits(n)
  /\ phase \in {"env", "done"} => \A n \in DOMAIN typeFile : Fits(n)

LEMMA LineFits ==
  ASSUME TInv, TypesInv,
         SkipType \/ ReadHeader \/ ReadToken \/ BadToken \/ UnknownRescuer \/ EndLine
  PROVE  /\ phase = "types" /\ phase' = "types" /\ typeFile' = typeFile
         /\ pos' \in {pos, pos + 1} /\ Fits(pos)
<1>1. phase = "types" /\ phase' = "types" /\ typeFile' = typeFile /\ pos' \in {pos, pos + 1}
  BY DEF SkipType, ReadHeader, ReadToken, BadToken, UnknownRescuer, EndLine, AtTypeLine, AtToken,
     Spoil, NextLine, TInv, SlotFilled, fileVars
<1>2. num = Before(pos, GoodTypes)
  BY <1>1 DEF TypesInv, TypesRead
<1>3. CASE SkipType
  BY <1>1, <1>3 DEF SkipType, Fits
<1>4. CASE ReadHeader
  BY <1>1, <1>2, <1>4 DEF ReadHeader, Fits
<1>5. CASE ReadToken \/ BadToken \/ UnknownRescuer \/ EndLine
  <2>1. inLine
    BY <1>5 DEF ReadToken, BadToken, UnknownRescuer, EndLine, AtToken
  <2> QED
    BY <1>1, <1>2, <2>1, InHand DEF Fits
<1> QED
  BY <1>1, <1>3, <1>4, <1>5

LEMMA LimitsStep ==
  ASSUME TInv, RescuersInv, TypesInv, LimitsInv, [Next]_vars
  PROVE  LimitsInv'
<1>0. UNCHANGED <<GoodRescuers, GoodTypes, typeFile>>
  BY LinesKept
<1>1. CASE SkipType \/ ReadHeader \/ ReadToken \/ BadToken \/ UnknownRescuer \/ EndLine
  <2>1. /\ phase = "types" /\ phase' = "types" /\ pos' \in {pos, pos + 1} /\ Fits(pos)
        /\ \A n \in DOMAIN typeFile : n < pos => Fits(n)
    BY <1>1, LineFits DEF LimitsInv
  <2>2. \A n \in DOMAIN typeFile : n < pos' => n < pos \/ n = pos
    BY <2>1 DEF TInv, TypeOK, FilesOK
  <2>3. \A n \in DOMAIN typeFile : n < pos' => Fits(n)
    BY <2>1, <2>2
  <2>4. \A n : Fits(n)' <=> Fits(n)
    BY <1>0 DEF Fits, GoodHeader
  <2> QED
    BY <1>0, <2>1, <2>3, <2>4, Zenon DEF LimitsInv
<1>2. CASE OverrunRescuers
  <2> DEFINE G == GoodRescuers
             m == Len(rescuerFile) + 1
  <2>1. /\ phase = "rescuers" /\ phase' = "overrun" /\ pos \in DOMAIN rescuerFile /\ pos \in G
        /\ Len(rescuers) = MaxRescuers
    BY <1>2 DEF OverrunRescuers, Overrun, GoodRescuers
  <2>2. Before(pos, G) = MaxRescuers
    BY <2>1 DEF RescuersInv, RescuersRead
  <2>3. /\ G \in SUBSET Nat /\ m \in Nat /\ pos < m /\ \A n \in G : n < m
    BY <2>1, LinesType DEF TInv, FilesOK
  <2>4. Before(m, G) = Cardinality(G) /\ Before(m, G) \in Nat
    BY <2>3, BeforeAll, BeforeType
  <2>5. Place(pos, G) \in 1..Before(m, G)
    <3> HIDE DEF m, G
    <3> QED
      BY <2>1, <2>3, PlacePassed
  <2>6. ~(Cardinality(G) <= MaxRescuers)
    BY <2>2, <2>4, <2>5, ParserAssumption DEF Place
  <2>7. ~KeepsToLimits'
    BY <1>0, <2>6 DEF KeepsToLimits
  <2> QED
    BY <2>1, <2>7 DEF LimitsInv
<1>3. CASE OverrunTypes
  <2>1. /\ phase = "types" /\ phase' = "overrun" /\ pos \in DOMAIN typeFile
        /\ GoodHeader(typeFile[pos]) /\ num = MaxTypes
    BY <1>3 DEF OverrunTypes, Overrun, AtTypeLine
  <2>2. Before(pos, GoodTypes) = MaxTypes
    BY <2>1 DEF TypesInv, TypesRead
  <2>3. ~(Before(pos, GoodTypes) < MaxTypes)
    BY <2>2, ParserAssumption
  <2>4. ~KeepsToLimits
    BY <2>1, <2>3 DEF KeepsToLimits
  <2>5. KeepsToLimits' <=> KeepsToLimits
    BY <1>0 DEF KeepsToLimits, GoodHeader
  <2> QED
    BY <2>1, <2>4, <2>5 DEF LimitsInv
<1>4. CASE SkipRescuer \/ ReadRescuer
  <2>1. phase' = "rescuers"
    BY <1>4 DEF SkipRescuer, ReadRescuer, NextLine
  <2> QED
    BY <2>1 DEF LimitsInv
<1>5. CASE EndRescuers
  <2>1. phase' = "types" /\ pos' = 1 /\ DOMAIN typeFile' \in SUBSET (Nat \ {0})
    BY <1>0, <1>5 DEF EndRescuers, Open, TInv, FilesOK
  <2>2. \A n \in Nat \ {0} : ~(n < 1)
    OBVIOUS
  <2> QED
    BY <2>1, <2>2 DEF LimitsInv
<1>6. CASE EndTypes \/ ReadEnv \/ EndEnv
  <2>1. /\ phase' \in {"env", "done"}
        /\ phase \in {"env", "done"} \/ (phase = "types" /\ pos \notin DOMAIN typeFile)
    BY <1>6 DEF EndTypes, ReadEnv, EndEnv, Open, NextLine
  <2>2. \A n \in DOMAIN typeFile : Fits(n)
    <3>1. CASE phase = "types" /\ pos \notin DOMAIN typeFile
      <4>1. \A n \in DOMAIN typeFile : n < pos
        BY <3>1 DEF TInv, TypeOK, FilesOK
      <4> QED
        BY <3>1, <4>1 DEF LimitsInv
    <3> QED
      BY <2>1, <3>1 DEF LimitsInv
  <2>3. \A n : Fits(n)' <=> Fits(n)
    BY <1>0 DEF Fits, GoodHeader
  <2> QED
    BY <1>0, <2>1, <2>2, <2>3, Zenon DEF LimitsInv
<1>7. CASE UNCHANGED vars
  <2>1. UNCHANGED <<phase, pos>>
    BY <1>7 DEF vars
  <2>2. \A n : Fits(n)' <=> Fits(n)
    BY <1>0 DEF Fits, GoodHeader
  <2>3. KeepsToLimits' <=> KeepsToLimits
    BY <1>0 DEF KeepsToLimits, GoodHeader
  <2> QED
    BY <1>0, <2>1, <2>2, <2>3, Zenon DEF LimitsInv
<1> QED
  BY <1>1, <1>2, <1>3, <1>4, <1>5, <1>6, <1>7 DEF Next

LEMMA LimitsWhole == ASSUME TInv, RescuersInv, LimitsInv PROVE OverrunOnlyPastLimits
<1>1. ASSUME phase = "done" PROVE KeepsToLimits
  <2>1. Len(rescuers) = Cardinality(GoodRescuers)
    BY <1>1, RescuersWhole DEF RescuersAsListed
  <2>2. Cardinality(GoodRescuers) <= MaxRescuers
    BY <2>1 DEF TInv, TypeOK
  <2> QED
    BY <1>1, <2>2 DEF LimitsInv, KeepsToLimits, Fits
<1> QED
  BY <1>1 DEF LimitsInv, OverrunOnlyPastLimits

\* The parsers write past an array for exactly the configuration files that go beyond
\* the limits, as defined by counting lines, and for no other.
THEOREM OverrunsKnown == Spec => []OverrunOnlyPastLimits
<1>1. Init => LimitsInv
  BY DEF Init, LimitsInv
<1> QED
  BY <1>1, LimitsStep, LimitsWhole, TypeInvariant, RescuersInvariant, TypesInvariant, PTL
     DEF Spec

-----------------------------------------------------------------------------
(* The log *)

\* The log when r lines of rescuers, t lines of emergency types and the lines of
\* env.conf before line p have been read.
LogRead(r, t, p) ==
  /\ Len(log) = r + t + Before(p, UnknownKeys)
  /\ \A n \in 1..r : log[n] = Verdict("rescuers", n, n \in GoodRescuers)
  /\ \A n \in 1..t : log[r + n] = Verdict("types", n, n \in GoodTypes)
  /\ \A n \in UnknownKeys :
       n < p => log[r + t + Place(n, UnknownKeys)] = Verdict("env", n, FALSE)

LogInv ==
  /\ phase = "rescuers" => LogRead(pos - 1, 0, 1)
  /\ phase = "types" => LogRead(Len(rescuerFile), pos - 1, 1)
  /\ phase = "env" => LogRead(Len(rescuerFile), Len(typeFile), pos)
  /\ EveryLineLogged

LEMMA LogAppended ==
  ASSUME TInv, NEW e, log' = Append(log, e)
  PROVE  /\ Len(log) \in Nat /\ Len(log') = Len(log) + 1
         /\ log'[Len(log) + 1] = e
         /\ \A i \in 1..Len(log) : log'[i] = log[i]
BY DEF TInv, TypeOK

LEMMA UnknownFacts ==
  ASSUME TInv
  PROVE  /\ UnknownKeys \in SUBSET (Nat \ {0}) /\ UnknownKeys \in SUBSET Nat
         /\ Before(1, UnknownKeys) = 0 /\ \A n \in UnknownKeys : ~(n < 1)
<1>1. UnknownKeys \in SUBSET (Nat \ {0})
  BY LinesType DEF TInv
<1>2. \A n \in Nat \ {0} : ~(n < 1)
  OBVIOUS
<1> QED
  BY <1>1, <1>2, BeforeFirst

LEMMA RescuerLogged ==
  ASSUME TInv, LogInv, SkipRescuer \/ ReadRescuer
  PROVE  LogInv'
<1> DEFINE e == Verdict("rescuers", pos, pos \in GoodRescuers)
<1>1. /\ phase = "rescuers" /\ phase' = "rescuers" /\ pos' = pos + 1 /\ pos \in Nat \ {0}
      /\ pos \in DOMAIN rescuerFile /\ [Next]_vars
  BY DEF SkipRescuer, ReadRescuer, NextLine, TInv, TypeOK, Next
<1>2. log' = Append(log, e)
  <2>1. CASE SkipRescuer
    BY <1>1, <2>1 DEF SkipRescuer, Log, GoodRescuers, Verdict
  <2>2. CASE ReadRescuer
    BY <1>1, <2>2 DEF ReadRescuer, Log, GoodRescuers, Verdict
  <2> QED
    BY <2>1, <2>2
<1> HIDE DEF e
<1>3. /\ Len(log) = pos - 1 + 0 + 0
      /\ \A n \in 1..(pos - 1) : log[n] = Verdict("rescuers", n, n \in GoodRescuers)
  BY <1>1, UnknownFacts DEF LogInv, LogRead
<1>4. /\ Len(log') = Len(log) + 1 /\ log'[Len(log) + 1] = e
      /\ \A i \in 1..Len(log) : log'[i] = log[i]
  BY <1>2, LogAppended
<1>5. Len(log) = pos - 1 /\ Len(log') = pos /\ Len(log) + 1 = pos
  BY <1>1, <1>3, <1>4
<1>6. \A n \in 1..pos : log'[n] = Verdict("rescuers", n, n \in GoodRescuers)
  <2>1. \A n \in 1..pos : n \in 1..(pos - 1) \/ n = pos
    BY <1>1
  <2> QED
    BY <1>3, <1>4, <1>5, <2>1 DEF e
<1>7. LogRead(pos - 1, 0, 1)'
  <2>1. pos' - 1 = pos /\ pos + 0 + 0 = pos /\ 1..0 = {}
    BY <1>1
  <2>2. UNCHANGED <<UnknownKeys, GoodRescuers>>
    BY <1>1, LinesKept
  <2> QED
    BY <1>5, <1>6, <2>1, <2>2, UnknownFacts DEF LogRead
<1> QED
  BY <1>1, <1>7 DEF LogInv, EveryLineLogged

\* A line of emergency types leaves the array with the verdict the log gets.
LEMMA TypeLogged ==
  ASSUME TInv, LogInv, [Next]_vars, phase = "types", phase' = "types", pos' = pos + 1,
         pos \in DOMAIN typeFile, NEW good \in BOOLEAN, good <=> pos \in GoodTypes,
         log' = Append(log, Verdict("types", pos, good))
  PROVE  LogInv'
<1> DEFINE e == Verdict("types", pos, good)
           R == Len(rescuerFile)
<1>1. R \in Nat /\ pos \in Nat \ {0}
  BY DEF TInv, FilesOK, TypeOK
<1>2. log' = Append(log, e) /\ e = Verdict("types", pos, pos \in GoodTypes)
  BY Zenon DEF Verdict
<1> HIDE DEF e
<1>3. /\ Len(log) = R + (pos - 1) + 0
      /\ \A n \in 1..R : log[n] = Verdict("rescuers", n, n \in GoodRescuers)
      /\ \A n \in 1..(pos - 1) : log[R + n] = Verdict("types", n, n \in GoodTypes)
  BY UnknownFacts DEF LogInv, LogRead
<1>4. /\ Len(log') = Len(log) + 1 /\ log'[Len(log) + 1] = e
      /\ \A i \in 1..Len(log) : log'[i] = log[i]
  BY <1>2, LogAppended
<1> HIDE DEF R
<1>5. Len(log') = R + pos /\ Len(log) + 1 = R + pos
  BY <1>1, <1>3, <1>4
<1>6. \A n \in 1..R : log'[n] = Verdict("rescuers", n, n \in GoodRescuers)
  <2>1. \A n \in 1..R : n \in 1..Len(log)
    BY <1>1, <1>3
  <2> QED
    BY <1>3, <1>4, <2>1
<1>7. \A n \in 1..pos : log'[R + n] = Verdict("types", n, n \in GoodTypes)
  <2>1. \A n \in 1..pos : n \in 1..(pos - 1) \/ n = pos
    BY <1>1
  <2>2. \A n \in 1..(pos - 1) : R + n \in 1..Len(log)
    BY <1>1, <1>3
  <2> QED
    BY <1>2, <1>3, <1>4, <1>5, <2>1, <2>2
<1>8. LogRead(Len(rescuerFile), pos - 1, 1)'
  <2>1. pos' - 1 = pos /\ R + pos + 0 = R + pos
    BY <1>1
  <2>2. UNCHANGED <<UnknownKeys, GoodRescuers, GoodTypes>> /\ Len(rescuerFile)' = R
    BY LinesKept DEF R
  <2> QED
    BY <1>5, <1>6, <1>7, <2>1, <2>2, UnknownFacts DEF LogRead
<1> QED
  BY <1>8 DEF LogInv, EveryLineLogged

\* As long as nothing is logged and no line is passed, nothing has to be.
LEMMA NothingLogged ==
  ASSUME TInv, LogInv, [Next]_vars, phase' = phase, pos' = pos, log' = log
  PROVE  LogInv'
<1>1. UNCHANGED <<UnknownKeys, GoodRescuers, GoodTypes, rescuerFile, typeFile>>
  BY LinesKept
<1>2. LogRead(pos - 1, 0, 1)' <=> LogRead(pos - 1, 0, 1)
  BY <1>1 DEF LogRead
<1>3. LogRead(Len(rescuerFile), pos - 1, 1)' <=> LogRead(Len(rescuerFile), pos - 1, 1)
  BY <1>1 DEF LogRead
<1>4. LogRead(Len(rescuerFile), Len(typeFile), pos)'
        <=> LogRead(Len(rescuerFile), Len(typeFile), pos)
  BY <1>1 DEF LogRead
<1>5. EveryLineLogged' <=> EveryLineLogged
  BY <1>1 DEF EveryLineLogged
<1> QED
  BY <1>2, <1>3, <1>4, <1>5 DEF LogInv

LEMMA TypesLogged ==
  ASSUME TInv, RescuersInv, TypesInv, LogInv,
         SkipType \/ ReadHeader \/ ReadToken \/ BadToken \/ UnknownRescuer \/ EndLine
  PROVE  LogInv'
<1>1. phase = "types" /\ phase' = "types" /\ [Next]_vars
  BY LineFits DEF Next
<1>2. CASE SkipType
  <2>1. /\ pos \in DOMAIN typeFile /\ pos' = pos + 1 /\ ~GoodHeader(typeFile[pos])
        /\ Log("error")
    BY <1>2 DEF SkipType, AtTypeLine, NextLine
  <2>2. log' = Append(log, Verdict("types", pos, FALSE))
    BY <1>1, <2>1 DEF Log, Verdict
  <2>3. pos \notin GoodTypes
    BY <2>1 DEF GoodTypes, GoodType
  <2> QED
    BY <1>1, <2>1, <2>2, <2>3, TypeLogged
<1>3. CASE ReadHeader
  <2>1. pos \in DOMAIN typeFile
    BY <1>3 DEF ReadHeader, AtTypeLine
  <2>2. CASE typeFile[pos].tokens = <<>>
    <3>1. Log("error") /\ pos' = pos + 1
      BY <1>3, <2>2 DEF ReadHeader, NextLine
    <3>2. log' = Append(log, Verdict("types", pos, FALSE))
      BY <1>1, <3>1 DEF Log, Verdict
    <3>3. pos \notin GoodTypes
      BY <2>1, <2>2 DEF GoodTypes, GoodType
    <3> QED
      BY <1>1, <2>1, <3>1, <3>2, <3>3, TypeLogged
  <2>3. CASE typeFile[pos].tokens # <<>>
    <3>1. pos' = pos /\ log' = log
      BY <1>3, <2>3 DEF ReadHeader
    <3> QED
      BY <1>1, <3>1, NothingLogged
  <2> QED
    BY <2>2, <2>3
<1>4. CASE ReadToken
  <2>1. pos' = pos /\ log' = log
    BY <1>4 DEF ReadToken
  <2> QED
    BY <1>1, <2>1, NothingLogged
<1>5. CASE BadToken \/ UnknownRescuer
  <2>1. inLine /\ Log("error") /\ pos' = pos + 1
    BY <1>5 DEF BadToken, UnknownRescuer, AtToken, Spoil, NextLine
  <2>2. log' = Append(log, Verdict("types", pos, FALSE))
    BY <1>1, <2>1 DEF Log, Verdict
  <2>3. pos \in DOMAIN typeFile /\ pos \notin GoodTypes
    BY <1>5, <2>1, SpoilListed, InHand
  <2> QED
    BY <1>1, <2>1, <2>2, <2>3, TypeLogged
<1>6. CASE EndLine
  <2>1. inLine /\ Log("ok") /\ pos' = pos + 1
    BY <1>6 DEF EndLine, NextLine
  <2>2. log' = Append(log, Verdict("types", pos, TRUE))
    BY <1>1, <2>1 DEF Log, Verdict
  <2>3. pos \in DOMAIN typeFile /\ pos \in GoodTypes
    BY <1>6, <2>1, EndListed, InHand
  <2> QED
    BY <1>1, <2>1, <2>2, <2>3, TypeLogged
<1> QED
  BY <1>2, <1>3, <1>4, <1>5, <1>6

LEMMA EnvLogged ==
  ASSUME TInv, LogInv, ReadEnv
  PROVE  LogInv'
<1> DEFINE U == UnknownKeys
           r == Len(rescuerFile)
           t == Len(typeFile)
           e == Verdict("env", pos, FALSE)
<1>1. /\ phase = "env" /\ phase' = "env" /\ pos' = pos + 1 /\ pos \in Nat
      /\ pos \in DOMAIN envFile \cap EnvLines /\ [Next]_vars
  BY DEF ReadEnv, NextLine, TInv, TypeOK, Next
<1>2. pos \in 1..Len(ReadLines) /\ DOMAIN ReadLines = 1..Len(ReadLines) /\ ReadLines[pos] = envFile[pos]
  BY <1>1, ReadLinesFacts DEF TInv, FilesOK
<1>3. pos \in U <=> envFile[pos].ok /\ envFile[pos].key = "unknown"
  BY <1>2 DEF UnknownKeys
<1>4. r \in Nat /\ t \in Nat /\ U \in SUBSET Nat
  BY UnknownFacts DEF TInv, FilesOK
<1>5. UNCHANGED <<UnknownKeys, GoodRescuers, GoodTypes, rescuerFile, typeFile>>
  BY <1>1, LinesKept
<1>6. LogRead(r, t, pos)
  BY <1>1 DEF LogInv
<1>7. Before(pos + 1, U) = IF pos \in U THEN Before(pos, U) + 1 ELSE Before(pos, U)
  BY <1>1, <1>4, BeforeNext
<1>8. \A n \in U : n < pos + 1 <=> n < pos \/ n = pos
  BY <1>1, <1>4
<1>9. CASE pos \notin U
  <2>1. log' = log
    BY <1>3, <1>9 DEF ReadEnv
  <2>2. LogRead(Len(rescuerFile), Len(typeFile), pos)'
    BY <1>1, <1>5, <1>6, <1>7, <1>8, <1>9, <2>1, Zenon DEF LogRead
  <2> QED
    BY <1>1, <2>2 DEF LogInv, EveryLineLogged
<1>10. CASE pos \in U
  <2>1. log' = Append(log, e)
    BY <1>1, <1>3, <1>10 DEF ReadEnv, Log, Verdict
  <2>2. /\ Len(log) \in Nat /\ Len(log') = Len(log) + 1 /\ log'[Len(log) + 1] = e
        /\ \A i \in 1..Len(log) : log'[i] = log[i]
    <3> HIDE DEF e
    <3> QED
      BY <2>1, LogAppended
  <2>3. Before(pos, U) \in Nat /\ Len(log) = r + t + Before(pos, U)
    BY <1>1, <1>4, <1>6, BeforeType DEF LogRead
  <2> HIDE DEF r, t, e, U
  <2>4. Len(log') = r + t + Before(pos + 1, U) /\ Len(log) + 1 = r + t + Place(pos, U)
    BY <1>4, <1>7, <1>10, <2>2, <2>3 DEF Place
  <2>5. \A n \in 1..r : log'[n] = Verdict("rescuers", n, n \in GoodRescuers)
    <3>1. \A n \in 1..r : n \in 1..Len(log)
      BY <1>4, <2>3
    <3> QED
      BY <1>6, <2>2, <3>1 DEF LogRead
  <2>6. \A n \in 1..t : log'[r + n] = Verdict("types", n, n \in GoodTypes)
    <3>1. \A n \in 1..t : r + n \in 1..Len(log)
      BY <1>4, <2>3
    <3> QED
      BY <1>6, <2>2, <3>1 DEF LogRead
  <2>7. \A n \in U : n < pos + 1 => log'[r + t + Place(n, U)] = Verdict("env", n, FALSE)
    <3>1. \A n \in U : n < pos => Place(n, U) \in 1..Before(pos, U)
      BY <1>1, <1>4, PlacePassed
    <3>2. \A n \in U : n < pos => r + t + Place(n, U) \in 1..Len(log)
      BY <1>4, <2>3, <3>1
    <3>3. \A n \in U : n < pos => log[r + t + Place(n, U)] = Verdict("env", n, FALSE)
      BY <1>6 DEF LogRead, U
    <3> QED
      BY <1>8, <2>2, <2>4, <3>2, <3>3 DEF e
  <2>8. LogRead(Len(rescuerFile), Len(typeFile), pos)'
    BY <1>1, <1>5, <2>4, <2>5, <2>6, <2>7, Zenon DEF LogRead, r, t, U
  <2> QED
    BY <1>1, <2>8 DEF LogInv, EveryLineLogged
<1> QED
  BY <1>9, <1>10

LEMMA LogStep ==
  ASSUME TInv, RescuersInv, TypesInv, EnvInv, LogInv, [Next]_vars
  PROVE  LogInv'
<1>0. UNCHANGED <<UnknownKeys, GoodRescuers, GoodTypes, rescuerFile, typeFile, ReadLines>>
  BY LinesKept
<1>1. CASE SkipRescuer \/ ReadRescuer
  BY <1>1, RescuerLogged
<1>2. CASE SkipType \/ ReadHeader \/ ReadToken \/ BadToken \/ UnknownRescuer \/ EndLine
  BY <1>2, TypesLogged
<1>3. CASE ReadEnv
  BY <1>3, EnvLogged
<1>4. CASE OverrunRescuers \/ OverrunTypes
  <2>1. phase' = "overrun"
    BY <1>4 DEF OverrunRescuers, OverrunTypes, Overrun
  <2> QED
    BY <2>1 DEF LogInv, EveryLineLogged
<1>5. CASE EndRescuers
  <2>1. /\ phase = "rescuers" /\ phase' = "types" /\ pos' = 1 /\ log' = log
        /\ pos \notin DOMAIN rescuerFile
    BY <1>5 DEF EndRescuers, Open
  <2>2. pos - 1 = Len(rescuerFile) /\ pos' - 1 = 0
    BY <2>1 DEF RescuersInv, TInv, TypeOK, FilesOK
  <2>3. LogRead(Len(rescuerFile), 0, 1)
    BY <2>1, <2>2 DEF LogInv
  <2>4. LogRead(Len(rescuerFile), pos - 1, 1)'
    BY <1>0, <2>1, <2>2, <2>3, Zenon DEF LogRead
  <2> QED
    BY <2>1, <2>4 DEF LogInv, EveryLineLogged
<1>6. CASE EndTypes
  <2>1. /\ phase = "types" /\ phase' = "env" /\ pos' = 1 /\ log' = log
        /\ pos \notin DOMAIN typeFile
    BY <1>6 DEF EndTypes, Open
  <2>2. pos - 1 = Len(typeFile)
    BY <2>1 DEF TypesInv, TInv, TypeOK, FilesOK
  <2>3. LogRead(Len(rescuerFile), Len(typeFile), 1)
    BY <2>1, <2>2 DEF LogInv
  <2>4. LogRead(Len(rescuerFile), Len(typeFile), pos)'
    BY <1>0, <2>1, <2>3, Zenon DEF LogRead
  <2> QED
    BY <2>1, <2>4 DEF LogInv, EveryLineLogged
<1>7. CASE EndEnv
  <2>1. /\ phase = "env" /\ phase' = "done" /\ log' = log
        /\ pos \notin DOMAIN envFile \cap EnvLines
    BY <1>7 DEF EndEnv
  <2>2. LogRead(Len(rescuerFile), Len(typeFile), pos)
    BY <2>1 DEF LogInv
  <2>3. \A n \in UnknownKeys : n < pos
    <3>1. /\ Len(ReadLines) \in 0..3 /\ pos \in Nat /\ pos # 0
          /\ ~(pos \in 1..Len(ReadLines)) /\ UnknownKeys \in SUBSET (1..Len(ReadLines))
      BY <2>1, ReadLinesFacts, LinesType DEF TInv, TypeOK, FilesOK
    <3>2. \A n \in 1..Len(ReadLines) : n < pos
      BY <3>1
    <3> QED
      BY <3>1, <3>2
  <2>4. Before(pos, UnknownKeys) = Cardinality(UnknownKeys)
    BY <2>3, BeforeAll
  <2>6. EveryLineLogged'
    BY <1>0, <2>1, <2>2, <2>3, <2>4 DEF EveryLineLogged, LogRead
  <2> QED
    BY <2>1, <2>6 DEF LogInv
<1>8. CASE UNCHANGED vars
  BY <1>8, NothingLogged DEF vars
<1> QED
  BY <1>1, <1>2, <1>3, <1>4, <1>5, <1>6, <1>7, <1>8 DEF Next

\* For all files the log is complete when the parsers are through: one verdict on every
\* line of the two lists, in order and the right one, and an error per unknown key.
THEOREM AllLogged == Spec => []EveryLineLogged
<1>1. Init => LogInv
  <2> SUFFICES ASSUME Init PROVE LogInv
    OBVIOUS
  <2>1. TInv /\ phase = "rescuers" /\ pos - 1 = 0 /\ Len(log) = 0 + 0 + 0 /\ 1..0 = {}
    BY InitType DEF Init
  <2>2. LogRead(0, 0, 1)
    BY <2>1, UnknownFacts DEF LogRead
  <2> QED
    BY <2>1, <2>2 DEF LogInv, EveryLineLogged
<1> QED
  BY <1>1, LogStep, TypeInvariant, RescuersInvariant, TypesInvariant, EnvInvariant, PTL
     DEF Spec, LogInv
=============================================================================
