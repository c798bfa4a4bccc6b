----------------------------- MODULE MCBmrGates -----------------------------
(* BmrGates for the two parties of the default build, on two tapes with     *)
(* every operation and on all that load two wires, one of them input, and   *)
(* then apply any two of ten operations.                                    *)
EXTENDS BmrGates

CONSTANTS r1, r2, r3
MCReg == {r1, r2, r3}

E(op, out, l, r, v, i) ==
  [op |-> op, out |-> out, left |-> l, right |-> r, val |-> v, i |-> i, n |-> 1]
Public(out, v)   == E("public", out, out, out, v, 1)
Random(out)      == E("random", out, out, out, FALSE, 1)
Input(out, p, v) == E("input", out, out, out, v, p)
Xor(out, l, r)   == E("xor", out, l, r, FALSE, 1)
And(out, l, r)   == E("and", out, l, r, FALSE, 1)
Reveal(l)        == E("reveal", l, l, l, FALSE, 1)

Sequential == {<<Input(r1, 2, a), Public(r2, TRUE), And(r3, r1, r2), Xor(r2, r3, r1),
                 Random(r1), Input(r2, 1, b), And(r3, r1, r2), Reveal(r3), Reveal(r1)>> :
                 a \in BOOLEAN, b \in BOOLEAN}

OneOp ==
  {Public(r3, TRUE), Random(r2), Xor(r3, r1, r2), Xor(r1, r2, r3), Xor(r3, r3, r3)}
    \cup {And(o, r1, r) : o \in {r1, r3}, r \in MCReg} \cup {And(r2, r3, r3)}

Short == {<<Input(r1, 1, TRUE), x, a, b, Reveal(r3)>> :
            x \in {Random(r2), Input(r2, 2, TRUE)}, a \in OneOp, b \in OneOp}

MCTapes == Sequential \cup {t \in Short : Tape!WellFormed(PlainTape(t))}
=============================================================================
