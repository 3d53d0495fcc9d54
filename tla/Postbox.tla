------------------------------ MODULE Postbox ------------------------------
(***************************************************************************)
(* What the message queue promises its clients: requests are taken one at  *)
(* a time in the order they were posted, each is answered (accepted by the *)
(* server or refused) at most once, and only the one in hand can get lost  *)
(* before that.                                                            *)
(***************************************************************************)
EXTENDS Sequences

CONSTANT Request

VARIABLES
  box,      \* requests posted and not taken yet
  hand,     \* the request being looked at, if any
  answered  \* requests that were accepted or refused

vars == <<box, hand, answered>>

Waiting == {box[i] : i \in DOMAIN box}

Init == box = <<>> /\ hand = {} /\ answered = {}

Post(r) ==
  /\ r \notin Waiting \cup hand \cup answered
  /\ box' = Append(box, r)
  /\ UNCHANGED <<hand, answered>>

Take ==
  /\ hand = {}
  /\ box # <<>>
  /\ hand' = {Head(box)}
  /\ box' = Tail(box)
  /\ UNCHANGED answered

Answer ==
  /\ hand # {}
  /\ answered' = answered \cup hand
  /\ hand' = {}
  /\ UNCHANGED box

Lose ==
  /\ hand # {}
  /\ hand' = {}
  /\ UNCHANGED <<box, answered>>

Next == (\E r \in Request : Post(r)) \/ Take \/ Answer \/ Lose

Spec == Init /\ [][Next]_vars
=============================================================================
