----------------------------- MODULE OramArray -----------------------------
(***************************************************************************)
(* What every ORAM of the compiler promises: it is an array with secret     *)
(* indices (AbstractORAM in Compiler/oram.py).                              *)
(***************************************************************************)
CONSTANTS Index, Value, NoValue

VARIABLES array,       \* the values, NoValue where there is none
          last         \* the result of the last access

vars == <<array, last>>

Init == array = [u \in Index |-> NoValue] /\ last = NoValue

(* access returns what was there, also when it writes or deletes.           *)
Access(u, new) ==
  /\ last' = array[u]
  /\ array' = [array EXCEPT ![u] = new]

Next == \E u \in Index : \E new \in Value \cup {NoValue, array[u]} : Access(u, new)

Spec == Init /\ [][Next]_vars
=============================================================================
