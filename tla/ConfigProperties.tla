-------------------------- MODULE ConfigProperties --------------------------
(***************************************************************************)
(* What the parsers should have found, said of whole files, and the claim  *)
(* that the loops of module ConfigParser find it.                          *)
(***************************************************************************)
EXTENDS ConfigParser

Slot ==
  [name : Name, priority : 0..2,
   rescuers : Seq([type : Nat \cup {Unset}, required_count : Int \cup {Unset}])]

Environment == [{"queue", "height", "width"} -> Int \cup {Unset}]
LogEntry ==
  [file : {"rescuers", "types", "env"}, line : Nat, outcome : {"ok", "error"}]

\* Type invariant: every variable of the parsers has its type, and no array is
\* longer than it was allocated.
TypeOK ==
  /\ phase \in {"rescuers", "types", "env", "done", "overrun"}
  /\ pos \in Nat \ {0}
  /\ rescuers \in Seq([name : Name, quantity : Int])
  /\ Len(rescuers) <= MaxRescuers
  /\ types \in Seq(Slot)
  /\ Len(types) <= MaxTypes
  /\ \A i \in DOMAIN types : Len(types[i].rescuers) <= MaxRequests
  /\ num \in 0..Len(types)
  /\ tokens \in Seq(Token)
  /\ inLine \in BOOLEAN
  /\ env \in Environment
  /\ log \in Seq(LogEntry)

-----------------------------------------------------------------------------
\* How many of the lines in S come before line n.  What is read from line n of S goes
\* behind them.
Before(n, S) == Cardinality({k \in S : k < n})
Place(n, S) == Before(n, S) + 1

GoodRescuers == {n \in DOMAIN rescuerFile : rescuerFile[n].ok}

Considered(l) == 1..Min({MaxRequests, Len(l.tokens)})
NamesRescuer(t) ==
  t.ok /\ \E n \in GoodRescuers : removeSpaces(rescuerFile[n].name) = removeSpaces(t.name)
GoodType(l) ==
  /\ GoodHeader(l)
  /\ l.tokens # <<>>
  /\ \A i \in Considered(l) : NamesRescuer(l.tokens[i])
GoodTypes == {n \in DOMAIN typeFile : GoodType(typeFile[n])}

\* The array of rescuer types holds the well-formed lines, in order, with their
\* names squeezed.
RescuersAsListed ==
  phase \in {"types", "env", "done"} =>
    /\ Len(rescuers) = Cardinality(GoodRescuers)
    /\ \A n \in GoodRescuers :
         rescuers[Place(n, GoodRescuers)] =
           [name |-> removeSpaces(rescuerFile[n].name), quantity |-> rescuerFile[n].quantity]

\* A request holds what a token says, of the first rescuer with the name; a slot what
\* a line says.
HoldsRequest(request, t) ==
  /\ request.type \in DOMAIN rescuers
  /\ \A i \in 1..request.type :
       rescuers[i].name = removeSpaces(t.name) <=> i = request.type
  /\ request.required_count = t.count
HoldsLine(slot, l) ==
  /\ slot.name = removeSpaces(l.name)
  /\ slot.priority = l.priority
  /\ DOMAIN slot.rescuers = Considered(l)
  /\ \A j \in Considered(l) : HoldsRequest(slot.rescuers[j], l.tokens[j])

\* The array of emergency types holds exactly the lines without an error, in
\* order, each with its first requests and pointing to rescuers of those names:
\* nothing of a line that was given up is left in the slot the next one reuses.
TypesAsListed ==
  phase \in {"env", "done"} =>
    /\ num = Cardinality(GoodTypes)
    /\ \A n \in GoodTypes : HoldsLine(types[Place(n, GoodTypes)], typeFile[n])

\* What the handlers count on (module Resources): an emergency type that counts has a
\* request, and all its requests point to rescuer types and counts that were read,
\* although the slots hold garbage before and between.
LoadedIsUsable ==
  phase \in {"env", "done"} =>
    \A k \in 1..num :
      /\ types[k].rescuers # <<>>
      /\ \A j \in DOMAIN types[k].rescuers :
           /\ types[k].rescuers[j].type \in DOMAIN rescuers
           /\ types[k].rescuers[j].required_count \in Int

\* Configuration files that keep to the limits never make a parser write past its
\* array.  A file with as many good emergency types as there are slots does if one
\* more line has a good header, whatever is wrong with its rescuers.
KeepsToLimits ==
  /\ Cardinality(GoodRescuers) <= MaxRescuers
  /\ \A n \in DOMAIN typeFile :
       GoodHeader(typeFile[n]) => Before(n, GoodTypes) < MaxTypes
OverrunOnlyPastLimits ==
  /\ phase = "overrun" => ~KeepsToLimits
  /\ phase = "done" => KeepsToLimits

ReadLines == SubSeq(envFile, 1, Min({3, Len(envFile)}))
UnknownKeys == {n \in DOMAIN ReadLines : ReadLines[n].ok /\ ReadLines[n].key = "unknown"}
Verdict(file, n, good) == [file |-> file, line |-> n, outcome |-> IF good THEN "ok" ELSE "error"]

\* The log has one verdict on every line of the two lists, the right one, and then an
\* error for every unknown key (a line of env.conf without '=' is not logged).
EveryLineLogged ==
  phase = "done" =>
    LET R == Len(rescuerFile)
        T == Len(typeFile) IN
      /\ Len(log) = R + T + Cardinality(UnknownKeys)
      /\ \A n \in 1..R : log[n] = Verdict("rescuers", n, n \in GoodRescuers)
      /\ \A n \in 1..T : log[R + n] = Verdict("types", n, n \in GoodTypes)
      /\ \A n \in UnknownKeys :
           log[R + T + Place(n, UnknownKeys)] = Verdict("env", n, FALSE)

LastLine(S) == Max(S \cup {0})
LinesWith(key) == {n \in DOMAIN ReadLines : ReadLines[n].ok /\ ReadLines[n].key = key}
LongNames == {n \in LinesWith("queue") : ReadLines[n].long}
Value(key) == IF LinesWith(key) = {} THEN Unset ELSE ReadLines[LastLine(LinesWith(key))].value

\* Each field of the environment is what the last of the three lines with its key
\* says, or undefined; only a queue name that fills its array, below the height,
\* takes the low byte off the height.
EnvAsListed ==
  phase = "done" =>
    /\ env.queue = Value("queue")
    /\ env.width = Value("width")
    /\ env.height = IF LastLine(LongNames) > LastLine(LinesWith("height"))
                    THEN CutLowByte(Value("height"))
                    ELSE Value("height")
=============================================================================
