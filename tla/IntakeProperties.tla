-------------------------- MODULE IntakeProperties --------------------------
(* What is claimed about the way of a request from the client to the server. *)
EXTENDS Intake

Fault == {"name", "time", "place"}

\* Type invariant: every variable of the client, the queue and the receiver has
\* its type.
TypeOK ==
  /\ clientpc \in {"start", "failed", "reading", "joining", "ended"}
  /\ line \in Nat \ {0}
  /\ sender \in [Request -> {"none", "sleeping", "stamped", "done"}]
  /\ left \in [Request -> Nat]
  /\ age \in [Request -> Int]
  /\ setback \in BOOLEAN
  /\ mq \in Seq(Request)
  /\ Len(mq) <= MaxMessages
  /\ named \in {"none", "same", "new"}
  /\ rpc \in {"down", "poll", "receive", "check", "blame", "push", "done"}
  /\ serves \in BOOLEAN
  /\ stop_flag \in BOOLEAN
  /\ cur \in Request \cup {Nobody}
  /\ memory \subseteq Request
  /\ starts \in 0..MaxStarts
  /\ kills \in 0..MaxStarts
  /\ verdict \in [Request -> {"none", "nothing"} \cup Fault]
  /\ logged \in [Request -> {"none", "valid", "nothing"} \cup Fault]
  /\ answered \subseteq Request
  /\ closed \subseteq Request

-----------------------------------------------------------------------------
\* A client that waits for its threads has one for each of the first MaxThreads
\* well-formed lines (README.md:145), however many lines it had to skip.
FirstRequestsOnly ==
  clientpc \in {"joining", "ended"} =>
    Started = {r \in Request : Cardinality({q \in Request : q <= r}) <= MaxThreads}

\* The log says of a refused request what the check at line 35 found, although the
\* cause is looked for again later.  There are two ways to differ: a request off
\* the grid gets too old in between, or the clock had been set back and a stamp
\* that lay in the future, or was too old, is now accepted; then the request is
\* neither pushed nor logged.
LogTellsVerdict ==
  \A r \in answered :
    \/ logged[r] = "valid" /\ verdict[r] = "nothing"
    \/ logged[r] \in Fault /\ logged[r] = verdict[r]
    \/ logged[r] = "time" /\ verdict[r] = "place"
    \/ verdict[r] = "time" /\ logged[r] \in {"nothing", "place"} /\ setback

Sent == {r \in Request : sender[r] = "done"}
Posted == {mq[i] : i \in DOMAIN mq}
Refused == {r \in answered : verdict[r] # "nothing"}

\* What was posted and is neither in the queue nor on its way through the server nor
\* refused nor closed: it was in the memory of a server that ended or died.
Lost == Sent \ (Posted \cup {cur} \cup Refused \cup memory \cup closed)

\* A server that ends or dies loses all it has accepted and not closed, but the log
\* knows of it: a valid request is logged before it is pushed (threads.c:37, 56), and
\* what the receiver has not taken waits in the queue for the next server.  Only the
\* request in the receiver's hands can get lost without a trace, one per kill.
LosesOneUnlogged == Cardinality({r \in Lost : logged[r] = "none"}) <= kills

\* Refinement: queue and receiver are an abstract postbox, across restarts.
AbstractBox ==
  INSTANCE Postbox WITH box <- mq, hand <- {cur} \ {Nobody}
PostboxRefinement == AbstractBox!Spec

-----------------------------------------------------------------------------
\* Somebody takes messages from the client's queue.
Drained == serves /\ rpc \notin {"down", "done"}

\* A client that waits for its threads ends, unless at some time nobody is left to
\* drain its queue.
ClientEnds == clientpc = "joining" ~> (clientpc = "ended" \/ <>[]~Drained)

LostInHand == Sent \ (Posted \cup answered \cup {cur})

\* A request in the queue is pushed to the server's list or refused, unless the server
\* dies with it in the receiver's hands or at some time nobody is left to drain the
\* queue.
PostedIsAnswered ==
  \A r \in Request : r \in Posted ~> (r \in answered \cup LostInHand \/ <>[]~Drained)
=============================================================================
