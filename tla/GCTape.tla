------------------------------- MODULE GCTape -------------------------------
(***************************************************************************)
(* The boolean-circuit bytecode that both players of the protocol execute  *)
(* (GC/instructions.h, GC/Program.cpp), cut down to the instructions that   *)
(* touch secret wires.  Branches and the integer registers they test are   *)
(* public and the same on both sides, so the model takes the executed      *)
(* trace: a tape is the finite sequence of its wire operations.  An XORS   *)
(* or ANDRS instruction of the bytecode has a list of argument tuples; a    *)
(* tape holds one entry per tuple and per bit of it, numbered i of n.      *)
(* A register of the model holds one wire (a bit of a GC::Secret).         *)
(***************************************************************************)
EXTENDS Naturals, Sequences

CONSTANTS Reg,       \* the wires of the processor's S memory
          Tapes      \* the tapes to execute

(* LDBITS and CONVSINT, BIT, XORS, ANDRS, the wire copies (MOVS, LDMS,     *)
(* STMS, BITDECS, BITCOMS) and REVEAL.                                     *)
Op == {"public", "random", "xor", "and", "copy", "reveal"}

Entry == [op: Op, out: Reg, left: Reg, right: Reg, val: BOOLEAN,
          i: Nat \ {0}, n: Nat \ {0}]

(* The registers an entry reads; every entry but a reveal writes its out.  *)
Uses(e) == CASE e.op \in {"xor", "and"}    -> {e.left, e.right}
             [] e.op \in {"copy", "reveal"} -> {e.left}
             [] OTHER                       -> {}

Writes(e) == e.op # "reveal"

(* The registers written by the entries before position p.                 *)
Defined(t, p) == {r \in Reg : \E q \in 1 .. p - 1 : Writes(t[q]) /\ t[q].out = r}

(* Positions p and q belong to the same ANDRS instruction.                 *)
SameInstruction(t, p, q) ==
  /\ t[p].op = "and"
  /\ t[q].op = "and"
  /\ p - t[p].i = q - t[q].i

(***************************************************************************)
(* What the compiler promises of a tape: nothing is read before it is      *)
(* written, the tuples of an ANDRS are consecutive, and no ANDRS writes a  *)
(* register twice or one that it reads (Compiler/allocator.py places all   *)
(* registers of an instruction before it frees those it defines).          *)
(***************************************************************************)
DefinedBeforeUse(t) == \A p \in DOMAIN t : Uses(t[p]) \subseteq Defined(t, p)

Consecutive(t) ==
  \A p \in DOMAIN t :
    /\ t[p].i <= t[p].n
    /\ t[p].op # "and" => t[p].n = 1
    /\ t[p].i < t[p].n => /\ p + 1 \in DOMAIN t
                          /\ t[p + 1].op = "and"
                          /\ t[p + 1].i = t[p].i + 1
                          /\ t[p + 1].n = t[p].n
    /\ t[p].i > 1 => /\ p - 1 \in DOMAIN t
                     /\ t[p - 1].op = "and"
                     /\ t[p - 1].i + 1 = t[p].i
                     /\ t[p - 1].n = t[p].n

NoAlias(t) ==
  \A p, q \in DOMAIN t : SameInstruction(t, p, q) => t[q].out \notin Uses(t[p])

DistinctOuts(t) ==
  \A p, q \in DOMAIN t : SameInstruction(t, p, q) /\ t[p].out = t[q].out => p = q

WellFormed(t) ==
  /\ t \in Seq(Entry)
  /\ DefinedBeforeUse(t)
  /\ Consecutive(t)
  /\ NoAlias(t)
  /\ DistinctOuts(t)

ASSUME TapesAssumption == \A t \in Tapes : WellFormed(t)
=============================================================================
