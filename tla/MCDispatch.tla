----------------------------- MODULE MCDispatch -----------------------------
(* Messages for TLC: one per priority, two that tie, one that is not valid. *)
EXTENDS DispatchProperties

CONSTANTS low, mid, mid2, high, bad

Priorities ==
  [m \in Message |-> CASE m = low -> 0 [] m = high -> 2 [] OTHER -> 1]
=============================================================================
