---------------------------- MODULE UrgentFirst ----------------------------
(***************************************************************************)
(* What the internal queue promises: a set of emergencies, from which the  *)
(* one taken is always the most urgent and, among equals, the oldest.      *)
(***************************************************************************)
EXTENDS Integers

VARIABLE pending  \* the queued emergencies

Item == [id : Nat, priority : 0..2]

MoreUrgent(a, b) ==
  a.priority > b.priority \/ (a.priority = b.priority /\ a.id < b.id)

Init == pending = {}

\* Ids grow: what is put is younger than everything that waits.
Put ==
  \E em \in pending' \cap Item :
    /\ \A other \in pending : other.id < em.id
    /\ pending' = pending \cup {em}

Take ==
  \E em \in pending :
    /\ \A other \in pending \ {em} : MoreUrgent(em, other)
    /\ pending' = pending \ {em}

Destroy == pending' = {}

Next == Put \/ Take \/ Destroy

Spec == Init /\ [][Next]_pending
=============================================================================
