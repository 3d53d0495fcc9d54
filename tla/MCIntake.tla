------------------------------ MODULE MCIntake ------------------------------
(* An input file for TLC with a line of every kind. *)
EXTENDS IntakeProperties

Line(kind, known, ongrid, delay) ==
  [kind |-> kind, known |-> known, ongrid |-> ongrid, delay |-> delay]

\* A comment, a good request, a malformed line, one off the grid, one with an
\* unknown name, and one too many.
File ==
  <<Line("skipped", FALSE, FALSE, 0), Line("request", TRUE, TRUE, 1),
    Line("malformed", FALSE, FALSE, 0), Line("request", TRUE, FALSE, 0),
    Line("request", FALSE, TRUE, 0), Line("request", TRUE, TRUE, 0)>>
=============================================================================
