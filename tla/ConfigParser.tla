---------------------------- MODULE ConfigParser ----------------------------
(***************************************************************************)
(* The three parsers main() runs one after the other: parse_rescuers,      *)
(* parse_emergency_types and parse_env.  They read line by line, log what  *)
(* they refuse and fill fixed arrays whose bounds they do not check.       *)
(*                                                                         *)
(* A line is what sscanf makes of it; an emergency type also has the       *)
(* tokens strtok cuts out of its rest.                                     *)
(***************************************************************************)
EXTENDS Integers, Sequences, FiniteSetsExt

CONSTANTS
  Name,          \* names in the files, as sequences of characters
  RescuerFiles,  \* possible contents of rescues.conf,
  TypeFiles,     \* of emergency_types.conf
  EnvFiles,      \* and of env.conf
  MaxRescuers,   \* MAX_RESCUERS (100)
  MaxTypes,      \* MAX_EMERGENCY_TYPES (100)
  MaxRequests,   \* MAX_RESCUER_REQUESTS (10)
  Unset          \* what a block fresh from malloc holds

removeSpaces(str) == SelectSeq(str, LAMBDA c : c # " ")

Token == [ok : BOOLEAN, name : Name, count : Int]
RescuerLine == [ok : BOOLEAN, name : Name, quantity : Int]
TypeLine == [ok : BOOLEAN, name : Name, priority : Int, tokens : Seq(Token)]
\* A line without '=' is not ok; a queue's value says if its name is too long.
EnvLine ==
  [ok : BOOLEAN, key : {"queue", "height", "width", "unknown"}, value : Int, long : BOOLEAN]

ASSUME ParserAssumption ==
  /\ \A n \in Name : removeSpaces(n) \in Name
  /\ RescuerFiles \subseteq Seq(RescuerLine)
  /\ TypeFiles \subseteq Seq(TypeLine)
  /\ EnvFiles \subseteq Seq(EnvLine)
  /\ MaxRescuers \in Nat /\ MaxTypes \in Nat /\ MaxRequests \in Nat \ {0}
  /\ Unset \notin Int

VARIABLES
  rescuerFile, typeFile, envFile,  \* what the files hold
  phase,     \* the parser that runs; "overrun" once it wrote past its array
  pos,       \* the line it is at
  rescuers,  \* rescuer types found so far
  types,     \* emergency_types, as a sequence of all the slots ever written
  num,       \* num_type_emergencies
  tokens,    \* what strtok has yet to return, while a line is being parsed
  inLine,    \* TRUE between the header and the end of a line
  env,       \* env_t
  log        \* errors and successes in the log, oldest first

fileVars == <<rescuerFile, typeFile, envFile>>
typeVars == <<types, num, tokens, inLine>>
vars == <<fileVars, phase, pos, rescuers, typeVars, env, log>>

Init ==
  /\ rescuerFile \in RescuerFiles
  /\ typeFile \in TypeFiles
  /\ envFile \in EnvFiles
  /\ phase = "rescuers"
  /\ pos = 1
  /\ rescuers = <<>>
  /\ types = <<>>
  /\ num = 0
  /\ tokens = <<>>
  /\ inLine = FALSE
  /\ env = [queue |-> Unset, height |-> Unset, width |-> Unset]
  /\ log = <<>>

-----------------------------------------------------------------------------
Log(outcome) == log' = Append(log, [file |-> phase, line |-> pos, outcome |-> outcome])

NextLine == pos' = pos + 1 /\ UNCHANGED phase
Open(file) == pos' = 1 /\ phase' = file
Overrun == phase' = "overrun" /\ UNCHANGED pos

-----------------------------------------------------------------------------
(* parse_rescuers *)

SkipRescuer ==
  /\ phase = "rescuers"
  /\ pos \in DOMAIN rescuerFile
  /\ ~rescuerFile[pos].ok
  /\ Log("error")
  /\ NextLine
  /\ UNCHANGED <<fileVars, rescuers, typeVars, env>>

\* Faulty variant: the name keeps its spaces.
ReadRescuerRaw ==
  /\ phase = "rescuers"
  /\ pos \in DOMAIN rescuerFile
  /\ rescuerFile[pos].ok
  /\ Len(rescuers) < MaxRescuers
  /\ rescuers' = Append(rescuers, [name |-> rescuerFile[pos].name,
                                   quantity |-> rescuerFile[pos].quantity])
  /\ Log("ok")
  /\ NextLine
  /\ UNCHANGED <<fileVars, typeVars, env>>

ReadRescuer ==
  /\ phase = "rescuers"
  /\ pos \in DOMAIN rescuerFile
  /\ rescuerFile[pos].ok
  /\ Len(rescuers) < MaxRescuers
  /\ rescuers' = Append(rescuers, [name |-> removeSpaces(rescuerFile[pos].name),
                                   quantity |-> rescuerFile[pos].quantity])
  /\ Log("ok")
  /\ NextLine
  /\ UNCHANGED <<fileVars, typeVars, env>>

OverrunRescuers ==
  /\ phase = "rescuers"
  /\ pos \in DOMAIN rescuerFile
  /\ rescuerFile[pos].ok
  /\ Len(rescuers) = MaxRescuers
  /\ Overrun
  /\ UNCHANGED <<fileVars, rescuers, typeVars, env, log>>

EndRescuers ==
  /\ phase = "rescuers"
  /\ pos \notin DOMAIN rescuerFile
  /\ Open("types")
  /\ UNCHANGED <<fileVars, rescuers, typeVars, env, log>>

-----------------------------------------------------------------------------
(* parse_emergency_types *)

AtTypeLine == phase = "types" /\ ~inLine /\ pos \in DOMAIN typeFile

GoodHeader(l) == l.ok /\ l.priority \in 0..2

\* Slot n of the array is written, for the first time or again.
Write(n, slot) ==
  types' = IF n \in DOMAIN types THEN [types EXCEPT ![n] = slot]
                                 ELSE Append(types, slot)

SkipType ==
  /\ AtTypeLine
  /\ ~GoodHeader(typeFile[pos])
  /\ Log("error")
  /\ NextLine
  /\ UNCHANGED <<fileVars, rescuers, typeVars, env>>

\* The next free slot is filled before anything is known of the rescuers.
ReadHeader ==
  /\ AtTypeLine
  /\ GoodHeader(typeFile[pos])
  /\ num < MaxTypes
  /\ Write(num + 1, [name |-> removeSpaces(typeFile[pos].name),
                     priority |-> typeFile[pos].priority, rescuers |-> <<>>])
  /\ IF typeFile[pos].tokens = <<>>
     THEN /\ Log("error")
          /\ NextLine
          /\ UNCHANGED <<tokens, inLine>>
     ELSE /\ tokens' = typeFile[pos].tokens
          /\ inLine' = TRUE
          /\ UNCHANGED <<phase, pos, log>>
  /\ UNCHANGED <<fileVars, rescuers, num, env>>

OverrunTypes ==
  /\ AtTypeLine
  /\ GoodHeader(typeFile[pos])
  /\ num = MaxTypes
  /\ Overrun
  /\ UNCHANGED <<fileVars, rescuers, typeVars, env, log>>

NamedBy(t) == {i \in DOMAIN rescuers : rescuers[i].name = removeSpaces(t.name)}
RequestsSoFar == types[num + 1].rescuers

\* Faulty variant: the limit is tested after one request too many.
MoreRoomAfterLimit == Len(RequestsSoFar) <= MaxRequests

MoreRoom == Len(RequestsSoFar) < MaxRequests

\* The slot gets one request more.
AddRequest(type, n) ==
  Write(num + 1, [types[num + 1] EXCEPT !.rescuers =
                    Append(@, [type |-> type, required_count |-> n])])

AtToken == inLine /\ tokens # <<>> /\ MoreRoom

\* The first rescuer type of that name is the one.
ReadToken ==
  /\ AtToken
  /\ Head(tokens).ok
  /\ NamedBy(Head(tokens)) # {}
  /\ AddRequest(Min(NamedBy(Head(tokens))), Head(tokens).count)
  /\ tokens' = Tail(tokens)
  /\ UNCHANGED <<fileVars, phase, pos, rescuers, num, inLine, env, log>>

\* Faulty variant: nothing is logged.
SpoilSilently ==
  /\ inLine' = FALSE
  /\ tokens' = <<>>
  /\ NextLine
  /\ UNCHANGED <<fileVars, rescuers, env, log>>

\* The line is given up: its slot stays half filled, the next line writes over it.
Spoil ==
  /\ Log("error")
  /\ inLine' = FALSE
  /\ tokens' = <<>>
  /\ NextLine
  /\ UNCHANGED <<fileVars, rescuers, env>>

BadToken ==
  /\ AtToken
  /\ ~Head(tokens).ok
  /\ Spoil
  /\ UNCHANGED <<types, num>>

\* Faulty variant: the line is given up but its slot is kept.
UnknownRescuerKept ==
  /\ AtToken
  /\ Head(tokens).ok
  /\ NamedBy(Head(tokens)) = {}
  /\ AddRequest(Unset, Unset)
  /\ num' = num + 1
  /\ Spoil

\* The request was counted before its rescuer was looked for: it is garbage.
UnknownRescuer ==
  /\ AtToken
  /\ Head(tokens).ok
  /\ NamedBy(Head(tokens)) = {}
  /\ AddRequest(Unset, Unset)
  /\ UNCHANGED num
  /\ Spoil

\* Tokens beyond the limit are not looked at.
EndLine ==
  /\ inLine
  /\ tokens = <<>> \/ ~MoreRoom
  /\ num' = num + 1
  /\ inLine' = FALSE
  /\ tokens' = <<>>
  /\ Log("ok")
  /\ NextLine
  /\ UNCHANGED <<fileVars, rescuers, types, env>>

EndTypes ==
  /\ phase = "types"
  /\ ~inLine
  /\ pos \notin DOMAIN typeFile
  /\ Open("env")
  /\ UNCHANGED <<fileVars, rescuers, typeVars, env, log>>

-----------------------------------------------------------------------------
(* parse_env *)

\* Faulty variant: a fourth line is read.
FourLines == 1..4

\* total_lines_counter <= 2
EnvLines == 1..3

\* A name that fills its array is moved by one and pushes its end marker over the
\* low byte of grid_height, which lies behind it.
CutLowByte(h) == IF h = Unset THEN Unset ELSE h - (h % 256)

ReadEnv ==
  /\ phase = "env"
  /\ pos \in DOMAIN envFile \cap EnvLines
  /\ LET l == envFile[pos] IN
       IF ~l.ok \/ l.key = "unknown"
       THEN UNCHANGED env
       ELSE env' = [env EXCEPT ![l.key] = l.value,
                               !.height = IF l.key = "queue" /\ l.long
                                          THEN CutLowByte(@)
                                          ELSE IF l.key = "height" THEN l.value ELSE @]
  /\ IF envFile[pos].ok /\ envFile[pos].key = "unknown"
     THEN Log("error")
     ELSE UNCHANGED log
  /\ NextLine
  /\ UNCHANGED <<fileVars, rescuers, typeVars>>

EndEnv ==
  /\ phase = "env"
  /\ pos \notin DOMAIN envFile \cap EnvLines
  /\ phase' = "done"
  /\ UNCHANGED <<fileVars, pos, rescuers, typeVars, env, log>>

-----------------------------------------------------------------------------
Next ==
  \/ SkipRescuer \/ ReadRescuer \/ OverrunRescuers \/ EndRescuers
  \/ SkipType \/ ReadHeader \/ OverrunTypes
  \/ ReadToken \/ BadToken \/ UnknownRescuer \/ EndLine \/ EndTypes
  \/ ReadEnv \/ EndEnv

Spec == Init /\ [][Next]_vars
=============================================================================
