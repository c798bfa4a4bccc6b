------------------------------ MODULE AndInstrs ------------------------------
(***************************************************************************)
(* The ANDRS instructions as garbling sees them, and what garbling one      *)
(* gives: its gates in order, gate g under the number counter + g, hashed   *)
(* under the keys its inputs had when the instruction began.                *)
(*                                                                         *)
(* An instruction is the list of its tuples.  Its sizes are given by upto: *)
(* tuple t has the gates upto[t-1]+1 .. upto[t] of the instruction.  A      *)
(* register stands for its wires, and their keys are named by the number of *)
(* the first gate they were drawn for (0: drawn before the program).        *)
(***************************************************************************)
EXTENDS Integers, Sequences, FiniteSets

CONSTANTS Reg,         \* the secret registers
          Instrs       \* the ANDRS instructions of the program, in order

Tuple == [out : Reg, left : Reg, right : Reg]

Upto(x, t) == IF t = 0 THEN 0 ELSE x.upto[t]
Total(x) == x.upto[Len(x.upto)]

(* Every tuple has a gate (the compiler sizes an ANDRS by its wider operand)*)
(* and its outputs are neither shared nor read: Compiler/allocator.py       *)
(* places all registers of an instruction before it frees any.              *)
WellFormedInstr(x) ==
  /\ x.upto \in Seq(Nat) /\ x.tuples \in Seq(Tuple)
  /\ Len(x.upto) = Len(x.tuples) /\ Len(x.upto) > 0
  /\ \A t \in 1 .. Len(x.upto) : Upto(x, t - 1) < x.upto[t]
  /\ \A t \in 1 .. Len(x.upto) : x.upto[t] <= Total(x)
  /\ \A t, u \in 1 .. Len(x.tuples) :
       /\ x.tuples[t].out \notin {x.tuples[u].left, x.tuples[u].right}
       /\ x.tuples[t].out = x.tuples[u].out => t = u

ASSUME InstrsAssumption ==
  /\ Instrs \in Seq([upto : Seq(Nat), tuples : Seq(Tuple)])
  /\ \A k \in DOMAIN Instrs : WellFormedInstr(Instrs[k])

(* A garbled gate: the keys its labels were hashed from, the keys whose     *)
(* masks went into its entries, the key of its output and its number.       *)
Gate(labels, masks, out, T) ==
  [labels |-> labels, masks |-> masks, out |-> out, T |-> T]

Inputs(x, t, keys) == <<keys[x.tuples[t].left], keys[x.tuples[t].right]>>

GateTuple(x, g) == CHOOSE t \in 1 .. Len(x.upto) : Upto(x, t - 1) < g /\ g <= x.upto[t]

(* The gates of an instruction begun with counter c, and the keys after it. *)
Batch(x, keys, c) ==
  [g \in 1 .. Total(x) |->
     LET t == GateTuple(x, g)
     IN Gate(Inputs(x, t, keys), Inputs(x, t, keys), c + Upto(x, t - 1) + 1, c + g)]

Written(x, keys, c) ==
  [r \in Reg |->
     IF \E t \in 1 .. Len(x.tuples) : x.tuples[t].out = r
     THEN c + Upto(x, (CHOOSE t \in 1 .. Len(x.tuples) : x.tuples[t].out = r) - 1) + 1
     ELSE keys[r]]
=============================================================================
