----------------------------- MODULE MCYaoGates -----------------------------
(* YaoGates on two long tapes that use every operation, with ANDRS below    *)
(* and above the batching limits, and on all those over three wires that    *)
(* load two random wires and then apply any two operations to them.         *)
EXTENDS YaoGates

CONSTANTS r1, r2, r3, r4, r5

MCReg == {r1, r2, r3, r4, r5}
Three == {r1, r2, r3}

E(op, out, l, r, v, i, n) ==
  [op |-> op, out |-> out, left |-> l, right |-> r, val |-> v, i |-> i, n |-> n]
Public(out, v)   == E("public", out, out, out, v, 1, 1)
Random(out)      == E("random", out, out, out, FALSE, 1, 1)
Xor(out, l, r)   == E("xor", out, l, r, FALSE, 1, 1)
And(out, l, r)   == E("and", out, l, r, FALSE, 1, 1)
Copy(out, l)     == E("copy", out, l, l, FALSE, 1, 1)
Reveal(l)        == E("reveal", l, l, l, FALSE, 1, 1)
AndOf(out, l, r, i, n) == E("and", out, l, r, FALSE, i, n)

(* Single ANDs, XORs of wires that share terms, and revealed wires.         *)
Sequential == <<Random(r1), Public(r2, TRUE), And(r3, r1, r2), Xor(r2, r3, r1),
                And(r1, r2, r3), Reveal(r1), Copy(r3, r2), Xor(r3, r3, r2),
                Reveal(r3)>>

(* An ANDRS of two gates, which only the garbler batches, and one of three, *)
(* which both do.                                                           *)
Batched == <<Random(r1), AndOf(r2, r1, r1, 1, 2), AndOf(r3, r1, r1, 2, 2),
             Xor(r1, r2, r3), AndOf(r3, r1, r2, 1, 3), AndOf(r4, r2, r1, 2, 3),
             AndOf(r5, r2, r2, 3, 3), Reveal(r3), Reveal(r5)>>

OneOp ==
  {Public(r3, TRUE), Copy(r3, r1), Random(r2)}
    \cup {Xor(o, l, r) : o \in Three, l \in {r1, r2}, r \in Three}
    \cup {And(o, l, r) : o \in Three, l \in {r1, r2}, r \in Three}

Short == {<<Random(r1), Random(r2), a, b, Reveal(r3)>> : a \in OneOp, b \in OneOp}

MCTapes == {Sequential, Batched} \cup {t \in Short : WellFormed(t)}
=============================================================================
