---------------------------- MODULE MCYaoPlayers ----------------------------
(* The players on tapes whose batches end at different places: after the    *)
(* last instruction (an empty batch follows), inside a run of reveals, never,*)
(* and after an ANDRS that is itself larger than the limit.                 *)
EXTENDS YaoPlayers

CONSTANTS r1, r2, r3, r4, r5

MCReg == {r1, r2, r3, r4, r5}

E1(op, out, l, r, i, n) ==
  [op |-> op, out |-> out, left |-> l, right |-> r, val |-> TRUE, i |-> i, n |-> n]
Load    == E1("random", r1, r1, r1, 1, 1)
One     == E1("public", r2, r2, r2, 1, 1)
And3    == E1("and", r3, r1, r2, 1, 1)
And2    == E1("and", r2, r3, r1, 1, 1)
Xor1    == E1("xor", r1, r3, r2, 1, 1)
Copy2   == E1("copy", r2, r3, r3, 1, 1)
Three   == <<E1("and", r3, r1, r2, 1, 3), E1("and", r4, r2, r1, 2, 3),
             E1("and", r5, r1, r1, 3, 3)>>
Show(r) == E1("reveal", r, r, r, 1, 1)

MCTapes == {
  <<>>,
  <<Load, Show(r1)>>,
  <<Load, One, And3, And2>>,
  <<Load, One, And3, Xor1, Show(r1), And2, Show(r2), Show(r3)>>,
  <<Load, One, And3>> \o Three \o <<Show(r3), Copy2, Show(r4)>>,
  <<Load, One, And3, And2, Xor1, And3, And2, Show(r2)>> }
=============================================================================
