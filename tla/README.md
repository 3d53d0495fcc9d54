# Emergency Handler: a TLA+ model

This directory specifies the emergency handling server (`src/`, C11 threads) in
TLA+. TLC checks the specifications on small instances, TLAPS proves the main
safety results for every instance. File names below are relative to the
repository; `threads.c` is `src/src/server/threads.c`, and so on.

## 1. The system

| Part | Code | State it keeps | What it does |
| --- | --- | --- | --- |
| Client | `client.c` | one thread per request of its input file | skips comments and bad lines; each thread sleeps, stamps its request with the time, `mq_send` (blocks while the queue is full); `main` joins them all |
| Message queue | POSIX mq, `server.c:50-60` | up to 10 messages | opened by the server non-blocking, for reading; outlives a killed server, unlinked by one that stops |
| Receiver | `receiver_thread` | `id`, the request, the valid emergency | polls the queue until `stop_flag`; validates name, time and place; logs; creates the twins; pushes |
| Internal queue | `priority_queue.c` | linked list, mutex, condition variable | push by priority, blocking pop |
| Dispatcher | `dispatcher_thread` | the popped emergency | pops, copies, starts one detached handler thread per emergency |
| Handler | `handle_emergency` | its own mutex, status, deadline, thread arrays | cancels or times out what cannot be served, waits for rescuers, reserves them, starts and joins the twins, manages, sends them home |
| Digital twin | `digital_twin_arrives`, `digital_twin_goes_away` | status, `rescuer_count` | drives to the scene; drives home and gives its place back |
| Shared by all handlers | `rescuer_type_t.occ_rescuers`, `empty` | a counter per type, one condition variable | what a reservation takes and a return gives back |
| SIGINT handler, `main` | `server.c` | `stop_flag` | sets the flag and wakes the dispatcher; joins receiver and dispatcher, unlinks the message queue, frees the types, destroys `empty`, returns |
| Parsers | `src/src/parsing` | arrays of types, `env_t` | fill the configuration before any thread starts, log every bad line |
| Logger | `logger.c` | none | appends lines to a file; ends the process if it cannot |

The parts talk through the message queue, the internal queue, the shared counters
and `empty`, and thread creation and joining. The hard behaviours are these:
every handler has a **mutex of its own**, so the counters and the condition
variable that all handlers share are not protected by a common lock; the check
of the rescuers, the wait for them and the deadline are separate steps; threads
may fail to be created half-way; the SIGINT handler comes in at any moment and
takes no lock; `main` does not wait for the handlers; the message queue, the
client and the server have separate lives; the clock is read twice for one
verdict; and the parsers write a slot before they know that its line is good.
`PROJECT.json` lists every hazard at its line.

What makes each part correct:

- *Handlers and twins*: nobody is managed by half a crew; a twin is away from its
  base only while its place is reserved; nothing of a handler is used after it
  returned; nobody waits while holding rescuers; the count of the crew is right;
  the counters are exact and no type is used beyond its quantity; an emergency
  whose deadline passed is `TIMEOUT`; free rescuers are not slept on; every crew
  comes home.
- *Receiver, queue, dispatcher*: the most urgent and oldest emergency first;
  nothing lost or handled twice; no sleep on a queue with work; everything
  accepted is served; SIGINT ends the server.
- *The process*: once `main` frees what the threads share, only handlers are left;
  everything accepted is closed; `main` ends, and not under a working handler.
- *Client and message queue*: exactly the first requests of the file are sent;
  the receiver takes each at most once and in order, also the next server's; what a
  server takes with it, because it dies or stops before its handlers are through, is
  in the log, except for the one request the receiver of a dying server had in its
  hands; the log tells the verdict; the client ends.
- *Parsers*: the arrays hold exactly what the good lines say, in order; what counts
  can be used; no write past an array; every line logged with its outcome.

## 2. Modules

| Module | Models | Role |
| --- | --- | --- |
| `Resources` | `structures.h`, `digital_twins.c`, the arithmetic of `support.c` | configuration as constants, twins, travel times |
| `Handlers` | `handle_emergency`, `digital_twin_arrives`, `digital_twin_goes_away` | the threads of all emergencies |
| `Mission` | – | abstract: status of an emergency and who is on the scene |
| `ResourcePool` | – | abstract: all-or-nothing reservation within the quantities |
| `PriorityQueue` | the list operations of `priority_queue.c` | a sequence with an insertion point |
| `Dispatch` | `receiver_thread`, `priority_queue_push/pop`, `dispatcher_thread`, `sigint_handler`, `main`, `mq_send` of the client | the front half of the server |
| `UrgentFirst` | – | abstract: a set from which the most urgent and oldest is taken |
| `Server` | `server.c` as a process | composes `Dispatch` and `Handlers`: the dispatcher creates handlers, `main` ends under them |
| `Intake` | `client.c`, `receiver_thread` with its checks, the life of the message queue, the calls of the log | client, queue and receiver across restarts |
| `Postbox` | – | abstract: requests taken in order, each pushed or refused at most once |
| `ConfigParser` | the three parsers, `remove_spaces`, the log of the parsers | reading the configuration |
| `HandlerProperties`, `DispatchProperties`, `ServerProperties`, `IntakeProperties`, `ConfigProperties` | – | the properties and the refinement mappings |
| `HandlersProofs`, `PoolProofs`, `DispatchProofs`, `ShutdownProofs`, `ServerProofs`, `IntakeProofs`, `ConfigProofs`, `ListProofs` | – | theorems |
| `MCHandlers`, `MCDispatch`, `MCServer`, `MCIntake`, `MCConfig` | – | scenarios for TLC |

The definitions called *Faulty variant* are not used by any specification. Each
is a definition of the model with one plausible slip (a missing unlock, a lost
link, a loop that ends too early); putting it in place of the original breaks a
property, which shows that the property depends on that code.

### `Handlers` and the code

A handler's `hpc` is its place in `handle_emergency`; `idx` is the index of the
loops over the requests; `todo` holds the twins the running loop has yet to start
a thread for. A twin's `tpc` is the place of its thread, first of
`digital_twin_arrives` (`created`, `driving`, `arrived`), then of
`digital_twin_goes_away` (`leaving`, `returning`, `releasing`, `home`).

| Code | Actions |
| --- | --- |
| `threads.c:144-170` entry, deadline | `Begin` |
| 172-181 allocation | `HandlerMallocFails` |
| 183-209 impossible or too far | `CancelImpossible`, `TimeoutTooFar`, `Admit` |
| 211-228 wait for rescuers (`can_fulfill` is one step per request; after a failed check the clock is read in a step of its own) | `CheckRequest`, `CheckFails`, then `StillInTime` or `TimeoutNoRescuers`; `WaitEmpty`, `SpuriousWakeup`, `Recheck` |
| 229-235 reservation (load and store of `occ_rescuers` apart) | `ReserveLoad`, `ReserveStore` |
| 237-283 start and join the arrivals | `CreateArrives`, `CreateArrivesFails`, `JoinArrivals`, `AbortSpawn` |
| 285-319 managing | `JoinArrivals`, `FinishManaging` |
| 321-346 send everybody home | `CreateGoesAway`, `CreateGoesAwayFails`, `JoinGoesAway` |
| 88-142 the twins' threads | `Depart`, `Arrive`, `Leave`, `ReleaseLoad`, `ReleaseStore` |

Steps between two lock operations are one action when all that they touch is
protected by that lock or belongs to one thread. `occ_rescuers` is not protected
by any lock the handlers share, so each read and each write of it is a step: the
compiler turns `+=` and `--` into a load and a store. `held` is a history
variable, the twins whose place was taken and not given back: what
`occ_rescuers` should count.

*Time* is kept as countdowns that `Tick` moves together: seconds to the deadline
and seconds left of each `sleep`. A thread whose countdown is over may run any
number of ticks later. Sleeps start in mid-second in reality, so the model also
allows a sleep to end up to a second early; no property below depends on it.

*Failures* are in the constant `Faults`: the handler's `malloc`, the creation of an
arrival thread (or the `malloc` of its argument), the creation of a return
thread. After the last the code frees an argument it uses again, unless it was
the last one: the process is taken to die there (`crashed`). That is what a use
of freed memory or a double free does with the C library in use; a luckier
outcome would be a defect as well.

### `Dispatch` and the code

`rpc`, `dpc`, `mainpc` and `sig` are the places of the receiver, the dispatcher,
`main` and the SIGINT handler, which runs on the stack of the main thread (so
`main` does not go on while it runs). Push is one action, since everything it
touches is under the queue's mutex. `priority_queue_pop` is split into taking the
mutex, testing, and waiting, because the SIGINT handler takes no mutex and can
come in between the test and the wait. `accepted`, `handled` and `dropped` are
history variables. The messages that pass validation are the set `Valid`; `Intake`
computes it. The end of `main` has two steps, `Cleanup` (what it frees,
`server.c:94-96`) and `Exit`, because detached handlers run in between.

### `Server` and the code

`Server` has the variables of `Dispatch` and `Handlers` side by side and two of its
own: `killed`, and the history `taken`, the message that got each id. An emergency is
what one message asks for (`Emergency == Message`); the handlers know it by that
message, the front half by the id, and `IsAmong` translates. The priority the list
sorts by is that of the emergency's type (`PriorityOf`), as in `threads.c:39`, so
messages of any priorities may mix. A step of the process is a step of one of the two
parts. They meet in three places: a handler exists once the dispatcher's `thrd_create` for its
emergency succeeded (`threads.c:371-377`, `Created`); `cnd_destroy(&empty)`
(`server.c:98`) does not return while a thread waits on `empty`, which is how the C
library in use destroys a condition variable; and after `main` returned, no thread
of the process runs. Between `main`'s `free` and its return a handler at work
reads freed memory. What that does is undefined: either the memory is still what
it was (the ordinary steps) or the process dies (`UseAfterFree`).

### `Intake` and the code

| Code | Actions |
| --- | --- |
| `client.c` `main`: open, the loop over the file, joins | `OpenQueue`, `SkipLine`, `StartThread`, `StopReading`, `JoinThreads` |
| `send_emergency`: sleep and stamp, `mq_send` | `Stamp`, `Send` |
| `receiver_thread`: loop, receive, the checks of line 35 | `CheckStop`, then `ReceiveNothing` or `TakeMessage`; `Check` |
| push; the second look that finds the cause to log (lines 64-76) | `Push`, `Blame` |
| `server.c`: `mq_open`, SIGINT, `mq_unlink`; death of the process | `Start`, `Sigint`, `Unlink`, `Kill` |
| what `Dispatch` and `Handlers` do with a pushed request, in one step | `Close` |

A request is the number of its line. The model keeps the age of its stamp, not the
stamp: `Tick` moves all ages and delays together, `SetClockBack` is the one time the
clock is set back (the code uses `time`, which can be). `named` says which queue the
name stands for: after `Unlink` the client still holds a queue without a name, and a
server that starts then makes a new one. The messages all have the same `mq`
priority, so the queue is first in, first out. A single emergency on the command
line is a file of one line. `memory` holds the pushed requests until a handler has brought
their emergencies to an end (`Close`): the list, the dispatcher's hands and the
handlers. All of it goes with the process, when it is killed and also when it stops,
since `main` does not wait for its handlers. `answered` only says that the receiver is
through with a request, which it pushed or refused.

### `ConfigParser` and the code

One action per outcome of a line or a token: refused (`SkipRescuer`, `SkipType`,
`BadToken`, `UnknownRescuer`), read (`ReadRescuer`, `ReadHeader`, `ReadToken`,
`EndLine`, `ReadEnv`), past the array (`Overrun...`), end of the file (`End...`). What
`sscanf` and `atoi` make of a line is a fact about the line (`ok`, `count`, ...). The
header of an emergency type is written into slot `num + 1` at once; only `EndLine`
increments `num`, so a line that is given up leaves its slot for the next line to
overwrite, as in the code. A queue name that fills its array is moved by one byte
and clears the low byte of `grid_height` (`CutLowByte`).

## 3. Runs

Properties are stated with comments in the `...Properties` modules.

| Run | Instance | Expected | Shows |
| --- | --- | --- | --- |
| `handlers_contention` | `Contention`: two emergencies, four twins, deadlines of 3 and 2 s | holds | type correctness, crew counted, away only with a place, no hold-and-wait, mutexes given back on every way out, refinement of `Mission`, a counter that is right goes wrong by a lost update only, every crew comes home |
| `handlers_serial` | `Crossed`: two emergencies that ask for two types in opposite orders, an impossible one, one too far; all faults; sections on one counter do not overlap | holds | exact counters, refinement of `ResourcePool`, places lost only in the two ways named by `KeptOnlyByAbort`, managed by a full crew only, no thread outlives its handler or is created twice, threads in step with their handler |
| `race_over_allocation` | one ambulance, two emergencies | violated | both handlers take it |
| `missed_wakeup` | one ambulance, two emergencies | violated | the signal falls between check and wait |
| `deadline_in_wait` | `OneDeadline` | violated | a deadline that passes during the wait does not give `TIMEOUT` |
| `priority_inversion` | `Rivals` | violated | a less urgent emergency takes the rescuer a waiting one could have had |
| `dispatch` | two equal messages, a more urgent one, an invalid one; Ctrl+C and failing thread creation | holds | queue order and its refinement of `UrgentFirst`, no sleep on work, nothing in two places, what is queued is served, a stopped server lost at most the emergency the receiver had in its hands |
| `stop_missed` | one message, Ctrl+C | violated | the broadcast without the mutex is lost and the dispatcher sleeps on |
| `server` | two emergencies for one ambulance, one of them urgent and with a deadline, Ctrl+C, failing thread creation | holds | nobody but handlers touches anything after `main` freed it, what is accepted is closed, `main` ends unless a waiting handler keeps it in `cnd_destroy` |
| `handlers_outlive_main` | one emergency, Ctrl+C | violated | `main` frees the types under a working handler |
| `intake` | a file with a line of every kind, two server starts, a clock set back | holds | exactly the first requests, the log and the verdict, one unlogged loss per kill however much is lost, refinement of `Postbox`, the client ends and what is posted is answered while somebody drains the queue |
| `parsers` | every emergency type file of up to 4 lines out of 6, times 3 lists of rescuers and 5 environments | holds | arrays as listed and usable, overrun only past the limits, the log complete, the environment as listed |

A violated property states what a comment or the project's README says of the
program; `PROJECT.json` quotes it under "findings".

Some passing properties name what the code gets wrong, as the exact limit of the
damage. `CounterExact` holds only under `SerialSpec`: in ordinary behaviours an
update of `occ_rescuers` is lost. `WrongOnlyByLostUpdate`, checked in the ordinary
behaviours, says that this is the only way a counter goes wrong: whatever the order of
the threads, the step that makes it differ from the places taken is the store of a
handler or a twin whose load is out of date. `LosesOneUnlogged` does not deny that a
server that dies, or ends under its handlers, loses everything it had accepted; it says
that the log knows of all of it but one request per kill. `KeptOnlyByAbort` says that a
place is never given back when an arrival thread could not be created or a return thread
was lost, and in no other case. `LosesAtMostOne` says that Ctrl+C may strand an emergency that was
accepted but pushed after the dispatcher left, and no more than that one.
`LogTellsVerdict` lists how a request can be dropped without a log entry after the
clock was set back. `ClientEnds` and `PostedIsAnswered` except the time when nobody
drains the queue: the server stopped, or a new one opened a new queue, and the
client blocks in `mq_send` or its messages stay where they are. `CleanupEnds` excepts
a handler that waits for rescuers for ever. `OverrunOnlyPastLimits` says exactly
which files make the parsers write past their arrays; one line more than the limit
is enough if its header is good. `EnvAsListed` has the one-byte shift of the queue
name.

`handlers_serial` uses `SerialSpec`: only the behaviours in which no two emergencies
are at once inside code that uses the counter of the same rescuer type, as one mutex
per type, shared by all handlers, would ensure (a handler would hold those of all its
types, a returning twin the one of its own). It shows that this missing mutex is what
breaks the counters; the last condition is that no emergency lists a type twice, because `can_fulfill`
(`support.c:100-109`) compares each request with the whole availability. The
properties of this run that do not speak of the counters hold in `Spec` as well,
which is proved (section 4).

**Bounds.** Two emergencies over a type with too few rescuers are enough for every
race on a counter, since each race has two parties; the other two in `Crossed` add
the paths that end before a reservation. Two twins of one emergency are enough for
joins, partial creation and the count of the crew. Deadlines of 3 and 2 seconds with
travel times of 0 to 2 leave room for being early, late and exactly on the limit.
`UIntRange` (2^32) is 8 in the runs: it only has to exceed every other duration. A
message queue of two places makes senders block with four messages; two messages of
equal priority and one that is more urgent reach every branch of the insertion.
`Server` needs two emergencies and one ambulance for a handler that waits while
`main` ends; the first emergency has priority 0 and so no deadline, the second has
priority 1 and a deadline of 1 s (`Limit1`), so the queue may overtake and the second may
time out or wait past its deadline. In `Intake` the limit of 100 threads is 3 in a
file of four requests, the queue of 10 places has 1, the limits of 300 s and 10 s are 0,
so that one second, or the clock set back by one, decides a check; two starts
make one restart after a stop and one after a kill. Ages stop at `OldEnough`, where
they no longer make a difference. In `ConfigParser` all three limits are 2, so a file
of four lines passes each of them, before and after a line that is given up.
Deadlock checking is off because all these systems end: the handlers when every
emergency is closed (or the process died), the server when `main` returned, the
intake when no start is left, the parsers after the third file.

**Fairness.** Every thread that can run eventually runs (weak fairness of each
handler, each twin, the receiver, the dispatcher and `main`), and time passes
(weak fairness of `Tick`): the operating system's scheduler and clock. Weak
fairness suffices for a mutex here, since a handler's mutex is held for bounded
sections and its holders do not take it again for ever. In `Dispatch` spurious
wakeups are assumed to happen finitely often, as otherwise the dispatcher could
hold the queue's mutex at every moment the receiver looks. `Server` has the fairness
of both parts. In `Intake` the client's threads, the receiver and `Tick` are fair.
Nothing forces an emergency in `memory` to be closed (`Close`; it may wait for rescuers
for ever), a spurious wakeup, a client, a failure, Ctrl+C, a start or a kill of
the server, or the clock to be set back; a stopping server need not reach
`mq_unlink`, because its dispatcher may sleep for ever (`stop_missed`).

## 4. Proofs

`HandlersProofs` proves, for every configuration that satisfies
`ConfigAssumption`, any set of emergencies, any deadlines and any set of faults:

| Theorem | States |
| --- | --- |
| `TypeCorrect` | `Spec => []TypeOK` |
| `InStepAlways` | `Spec => []InStep` |
| `FullCrew`, `PlaceKept`, `NobodyHeldInWait`, `ThreadsJoined` | `[]ManagedByFullCrew`, `[]AwayIsHeld`, `[]NoHoldAndWait`, `[]NoThreadOutlivesHandler` |
| `MutexIsHeld` | `[]MutexHeld` |
| `ThreadsOnce` | `Spec => EachThreadOnce` |
| `CrewIsCounted` | `[]CrewCounted` |
| `ImplementsMission` | `Spec => MissionRefinement` |

The four properties in the third row are not inductive: that a crew is complete while
it is managed depends on what the handler has started, joined and reserved
before. `InStep` says it phase by phase: where a twin's thread can be, whether
its place is reserved (while a reservation runs, exactly those of the requests
already stored), and what the status is. `TypeOK /\ InStep` is inductive, one step
of the proof per action, and the four invariants follow from it. `MutexHeld` is
inductive on top of it: the handler and a twin exclude each other through `lock`, and
that no twin is inside a section when the handler returns comes from its joins.
`ThreadsOnce` is an action property, proved one creating action at a time from where
`InStep` says the twin is. `CrewIsCounted`
adds that the crew is finite, so that its cardinality can be counted up and down.
`ImplementsMission` maps every action to a step of `Mission` or to a stutter; the
preconditions of the abstract steps come from `InStep`.

None of these results needs the counters to be right, which they are not: they
rest on the handler's loops and joins and on the mutex of each emergency.

`DispatchProofs` proves, for every set of messages, every validity and priority,
every size of the message queue, with and without Ctrl+C and failing thread
creation (`MessageAssumption`):

| Theorem | States |
| --- | --- |
| `TypeCorrect` | `Spec => []TypeOK` |
| `ListOrdered`, `WakesForWork` | `[]QueueOrdered`, `[]NeverSleepsOnWork` |
| `ImplementsUrgentFirst` | `Spec => QueueRefinement` |
| `NoneLostNoneTwice` | `[]ExactlyOnePlace` |

Two lemmas say what `Insert` does to any list: `InsertPosition`, that the cursor
stops where everything before is at least as urgent and the next node is less
urgent (the least node that stops it exists because the last one does), and
`InsertKeepsOrder`, that the list stays ordered and gains exactly the new node.
Order is not inductive alone: the new node must also be younger than all of its
priority, which `Ages` says of the receiver's `id`. `WaitsOnEmpty` ties the mutex
to the dispatcher's place and to the empty list. These with `TypeOK` are the
inductive invariant `IInv`. For `NoneLostNoneTwice` the invariant also says that
the places do not overlap and that no id is queued twice (`Apart`), so that each
step moves one element from one set to another and the cardinalities add up.

`PoolProofs` goes on to the rescuers that are taken:

| Theorem | States |
| --- | --- |
| `PlacesComeBack` | `Spec => []KeptOnlyByAbort` |
| `OnlyLostUpdatesHurt` | `Spec => WrongOnlyByLostUpdate` |
| `CountersAreExact` | `SerialSpec => []CounterExact` |
| `NoneOverAllocated` | `DistinctTypes` implies `SerialSpec => []NoOverAllocation` |
| `ImplementsPool` | `DistinctTypes` implies `SerialSpec => PoolRefinement` |

`PlacesComeBack` needs to know which twins the loop that sends the crew home passed
over: at most one, and only as the last (`OnlyLastPassedOver`), because an earlier
failure kills the process. `OnlyLostUpdatesHurt` is about `Spec`, without the assumed
mutexes: only two actions change a counter, and each adds or takes away exactly the
twins whose places it takes or gives back (`ReserveExact`, `ReleaseExact`), so a store
of a current load keeps an exact counter exact. That every counter *stays* exact is
false of `Spec` and needs `SerialSpec`. There an exact counter is not inductive:
between a load and its store the thread holds a copy, which must still be right when it
is written. `CountInv` says so (`LoadCurrent`), together with what ensures it: no other section
on that counter is open (`Serial`) and no other thread of the same emergency is in one
(`MutexHeld`, by the emergency's mutex; it is not assumed but proved). `RoomKept` is what the two loops over
the requests have established at each index: the requests already checked are
available, those still to be reserved remain so, those reserved are within the
quantity. `DistinctTypes`, that no emergency lists a type twice, is a hypothesis of
the last two theorems and not an assumption of the module, because the parser does
not ensure it. `race_over_allocation` violates `NoOverAllocation` in `Spec`; here it
holds of `SerialSpec`, so the missing mutex is the reason, and one per rescuer type,
not one for all, is enough. That a reservation spans several types needs no more: what
a handler has checked of one type is disturbed only by a section on that type.

`ShutdownProofs` proves `LosesOneAtMost` (`Spec => []LosesAtMostOne`), `MainJoins`
(`main` is past a join only when that thread returned) and
`HandlersAreTaken`: a handler exists only for an emergency that was accepted and has
left the list, and was not dropped. That the places of `handled` and `dropped` are
disjoint holds because the dispatcher decides about an emergency once
(`DecidedOnce`): what it holds is in neither. The invariant adds the order in which `main` joins (`JoinsInOrder`)
and what the dispatcher leaves behind (`AfterDispatcher`): an empty list, to which
the receiver adds one emergency at most, since `stop_flag` is set by then and it
tests the flag after each push.

`ServerProofs` carries all of this over to the process. `FrontHalf` and `BackHalf`
show that each step of `Server` is a step of `Dispatch` and of `Handlers` or leaves
their variables alone, so the process implements both specifications, although one
part creates the threads of the other and cuts them off. `CrewsInProcess`,
`QueueInProcess` and `PartsImplement` are the theorems above, said of the process, for
messages of any priorities. `JoinsLeaveHandlers` (`Spec => OnlyHandlersRemain`) needs both
halves: the joins of `main` (`MainJoins`) leave no thread that could touch the queue or
hand out an emergency, and a handler that is over stays over (`OverIsOver`). The results
that need the missing mutexes are not said of the process, which does not have them.

`IntakeProofs` proves, for every input file, all limits and any number of starts
(`IntakeAssumption`):

| Theorem | States | Invariant it needs |
| --- | --- | --- |
| `TypeCorrect` | `[]TypeOK` | kills and starts are counted, the receiver holds a request exactly while it works on it (`TInv`) |
| `FirstOnes` | `[]FirstRequestsOnly` | the threads started are those of the lines above the one `main` is at (`Reading`) |
| `ImplementsPostbox` | `Spec => PostboxRefinement` | queue, hands and answered do not overlap and hold only what was sent (`Places`) |
| `LogAgrees` | `[]LogTellsVerdict` | no stamp is in the future unless the clock was set back (`NoFuture`); what the check found is known at the log line (`Judged`) |
| `OneUnloggedPerKill` | `[]LosesOneUnlogged` | both, and what got lost from the receiver's hands, counted (`HandLosses`) |

`ConfigProofs` proves, for all configuration files and all limits
(`ParserAssumption`), `TypeCorrect` (`Spec => []TypeOK`, with the bounds of the
arrays) and `EnvironmentListed` (`Spec => []EnvAsListed`). The invariant of the
second is the property said of the lines before `pos` (`EnvBefore`); it is inductive
because cutting the low byte twice is cutting it once (`CutTwice`).

`ListProofs` goes on to the arrays and the log, for all files and limits:

| Theorem | States |
| --- | --- |
| `RescuersListed`, `TypesListed` | `[]RescuersAsListed`, `[]TypesAsListed` |
| `LoadedUsable` | `[]LoadedIsUsable` |
| `OverrunsKnown` | `[]OverrunOnlyPastLimits` |
| `AllLogged` | `[]EveryLineLogged` |

What a filtered list contains would need induction over the list. The properties say it
without: the `k`-th element of an array is the good line before which `k - 1` good lines
stand (`Place`, `Before`), so each step of a parser needs to know only that passing a
good line raises the count by one (`BeforeNext`). The invariants are the properties said
of the lines before `pos`: `RescuersInv`, `TypesInv`, and `LogRead` for the log. Inside
a line of emergency types `LineRead` says in addition what the tokens read so far have
put into the slot past the end, whatever an abandoned line left there; only so does
`EndLine` complete an element that holds this line and nothing else. `LimitsInv` says
that every header passed found room, and that an overrun had a line that did not.
`LoadedUsable` is the converse direction, from slots to lines: every slot that counts
belongs to a good line (`PlacesFilled`: no place is left out, by the least line at which
the count reaches it), so it has tokens and each of them names a rescuer. This is what
the handlers rely on: their requests point to types that exist.

Only model-checked: all liveness (`CrewComesHome`, `QueuedIsServed`, `AcceptedIsServed`,
`AcceptedIsClosed`, `CleanupEnds`, `ClientEnds`, `PostedIsAnswered`), since the prover has
no rules for fairness and `ENABLED`. The properties expected to be violated are
counterexamples TLC finds. Every other property of a passing run is a theorem.

## 5. Not modelled, and the plan

Not modelled: the layout of the log and the lines of handlers and twins; the ids of
twins, which only the log shows; the client's command line and a failing
`thrd_create` of the client (it joins an identifier that was never set); errors of
`mq_receive` other than an empty queue; a stamp of 0, which the client never sends;
negative counts and a speed of 0 in the configuration (`ConfigAssumption` excludes
the first; the second is computed, but no scenario has it);
`occ_rescuers`, which no parser sets: the counters start from the zero of a fresh
block; allocation failures outside handlers and dispatcher.

What could still be added: the second half of `client.c` (its command line and its
failing calls).
