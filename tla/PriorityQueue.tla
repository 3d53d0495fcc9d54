--------------------------- MODULE PriorityQueue ---------------------------
(***************************************************************************)
(* The linked list of priority_queue.c as a sequence of emergencies, head  *)
(* first.  An emergency is a record with at least its id and priority.     *)
(***************************************************************************)
EXTENDS Integers, Sequences, SequencesExt

\* Faulty variant: the cursor also stops before an equally urgent node.
CursorStopsEarly(q, item, k) ==
  k = Len(q) \/ q[k + 1].priority <= item.priority

\* The cursor stops at node k: it is the last one, or the next is less urgent.
CursorStops(q, item, k) ==
  k = Len(q) \/ q[k + 1].priority < item.priority

\* Faulty variant: the old list is not linked behind the new head.
InsertUnlinked(q, item) ==
  IF q = <<>> \/ item.priority > q[1].priority
  THEN <<item>>
  ELSE InsertAt(q, 1 + Min({k \in 1..Len(q) : CursorStops(q, item, k)}), item)

\* Faulty variant: an equally urgent item becomes the head, too.
InsertBeforeEquals(q, item) ==
  IF q = <<>> \/ item.priority >= q[1].priority
  THEN <<item>> \o q
  ELSE InsertAt(q, 1 + Min({k \in 1..Len(q) : CursorStops(q, item, k)}), item)

\* A more urgent item becomes the head, any other goes behind the cursor.
Insert(q, item) ==
  IF q = <<>> \/ item.priority > q[1].priority
  THEN <<item>> \o q
  ELSE InsertAt(q, 1 + Min({k \in 1..Len(q) : CursorStops(q, item, k)}), item)
=============================================================================
