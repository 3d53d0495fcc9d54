------------------------------ MODULE MCConfig ------------------------------
(* Small files for TLC: every sequence of a few telling lines. *)
EXTENDS ConfigProperties

\* "Soccorso Alpino" without and with its space, another type and no type.
alpine == <<"S", "A">>
alp == <<"S", " ", "A">>
med == <<"M">>
none == <<"X">>
Names == {alp, alpine, med, none}

Upto(n, S) == UNION {[1..k -> S] : k \in 0..n}

Rescuer(n, q) == [ok |-> TRUE, name |-> n, quantity |-> q]
BadRescuer == [ok |-> FALSE, name |-> none, quantity |-> 0]
Rescues ==
  {<<Rescuer(med, 1), BadRescuer, Rescuer(alp, 2)>>,
   <<Rescuer(alpine, 1), Rescuer(alp, 2)>>,
   <<Rescuer(med, 1), Rescuer(alp, 1), BadRescuer, Rescuer(med, 3)>>}

Tok(n, c) == [ok |-> TRUE, name |-> n, count |-> c]
BadTok == [ok |-> FALSE, name |-> none, count |-> 0]
TypeOf(p, toks) == [ok |-> TRUE, name |-> med, priority |-> p, tokens |-> toks]
TypeLines ==
  {TypeOf(0, <<Tok(alpine, 2), Tok(alp, 1), BadTok>>),
   TypeOf(1, <<Tok(med, 1), Tok(none, 1)>>),
   TypeOf(2, <<Tok(alp, 3), BadTok>>),
   TypeOf(2, <<Tok(alp, 1), Tok(alpine, 1), Tok(alp, 2)>>),
   TypeOf(1, <<>>),
   TypeOf(3, <<Tok(alpine, 1)>>)}
TypeConfigs == Upto(4, TypeLines)

Env(k, v, long) == [ok |-> TRUE, key |-> k, value |-> v, long |-> long]
EnvConfigs ==
  {<<Env("queue", 1, FALSE), Env("height", 300, FALSE), Env("width", 400, FALSE)>>,
   <<Env("height", 300, FALSE), Env("queue", 1, TRUE), Env("width", 400, FALSE)>>,
   <<Env("queue", 1, TRUE), Env("height", 300, FALSE), Env("height", 200, FALSE),
     Env("height", 100, FALSE)>>,
   <<Env("unknown", 0, FALSE), [Env("width", 7, FALSE) EXCEPT !.ok = FALSE],
     Env("queue", 2, TRUE)>>,
   <<>>}
=============================================================================
