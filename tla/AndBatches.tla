----------------------------- MODULE AndBatches -----------------------------
(***************************************************************************)
(* What the garbler promises for a program of ANDRS instructions, however   *)
(* many threads garble them: one instruction after the other, each at once. *)
(***************************************************************************)
EXTENDS AndInstrs

VARIABLES done,        \* instructions garbled so far
          S,           \* the registers' keys
          gates,       \* YaoGarbler::gates
          counter      \* YaoGarbler::counter

vars == <<done, S, gates, counter>>

Init ==
  /\ done = 0
  /\ S = [r \in Reg |-> 0]
  /\ gates = <<>>
  /\ counter = 0

Next ==
  /\ done < Len(Instrs)
  /\ done' = done + 1
  /\ gates' = gates \o Batch(Instrs[done + 1], S, counter)
  /\ S' = Written(Instrs[done + 1], S, counter)
  /\ counter' = counter + Total(Instrs[done + 1])

Spec == Init /\ [][Next]_vars
=============================================================================
