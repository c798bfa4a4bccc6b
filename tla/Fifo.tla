-------------------------------- MODULE Fifo --------------------------------
(***************************************************************************)
(* What a store of received messages promises: they come out as they went   *)
(* in, and an empty store says so and leaves the buffer alone.              *)
(***************************************************************************)
EXTENDS Naturals, Sequences

CONSTANTS Msg,         \* messages
          Reset        \* a buffer without a message

VARIABLES queue,       \* the messages stored, oldest first
          msg,         \* the caller's buffer
          popped       \* what the last pop returned

vars == <<queue, msg, popped>>

Init == queue = <<>> /\ msg = Reset /\ popped = FALSE

Receive == msg' \in Msg /\ UNCHANGED <<queue, popped>>

Push ==
  /\ queue' = Append(queue, msg)
  /\ msg' \in {msg, Reset}
  /\ UNCHANGED popped

Pop ==
  /\ popped' = (queue # <<>>)
  /\ queue' = IF queue = <<>> THEN <<>> ELSE Tail(queue)
  /\ msg' = IF queue = <<>> THEN msg ELSE Head(queue)

Next == Receive \/ Push \/ Pop

Spec == Init /\ [][Next]_vars
=============================================================================
