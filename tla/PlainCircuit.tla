---------------------------- MODULE PlainCircuit ----------------------------
(***************************************************************************)
(* What the garbled-circuit protocol promises: the bits it reveals are     *)
(* those of running the tape on plain bits.  A random wire is an arbitrary *)
(* bit; every other wire is determined.                                    *)
(***************************************************************************)
EXTENDS GCTape

VARIABLES tape, pc, val, outputs

vars == <<tape, pc, val, outputs>>

Init ==
  /\ tape \in Tapes
  /\ pc = 1
  /\ val \in [Reg -> BOOLEAN]       \* a register holds junk until written
  /\ outputs = <<>>

(* The plain meaning of an entry: the set of values it may write.          *)
Results(e) ==
  CASE e.op = "public" -> {e.val}
    [] e.op = "random" -> BOOLEAN
    [] e.op = "xor"    -> {val[e.left] # val[e.right]}
    [] e.op = "and"    -> {val[e.left] /\ val[e.right]}
    [] OTHER           -> {val[e.left]}

Write(e) ==
  /\ Writes(e)
  /\ \E b \in Results(e) : val' = [val EXCEPT ![e.out] = b]
  /\ UNCHANGED outputs

Reveal(e) ==
  /\ ~ Writes(e)
  /\ outputs' = Append(outputs, val[e.left])
  /\ UNCHANGED val

Next ==
  /\ pc \in DOMAIN tape
  /\ Write(tape[pc]) \/ Reveal(tape[pc])
  /\ pc' = pc + 1
  /\ UNCHANGED tape

Spec == Init /\ [][Next]_vars
=============================================================================
