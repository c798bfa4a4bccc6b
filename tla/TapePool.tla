------------------------------ MODULE TapePool ------------------------------
(***************************************************************************)
(* What the machine promises to whoever starts a tape in a thread: the      *)
(* thread runs it once, with the argument and from the position it was      *)
(* given, before it is given another.                                       *)
(***************************************************************************)
EXTENDS Sequences

CONSTANTS Threads, Work, None

VARIABLES given,       \* what each thread has been given and not finished
          log          \* what each thread has run, in order

vars == <<given, log>>

Init ==
  /\ given = [t \in Threads |-> None]
  /\ log = [t \in Threads |-> <<>>]

Give(t) ==
  /\ given[t] = None
  /\ given'[t] \in Work
  /\ given' = [given EXCEPT ![t] = given'[t]]
  /\ UNCHANGED log

Finish(t) ==
  /\ given[t] # None
  /\ log' = [log EXCEPT ![t] = Append(@, given[t])]
  /\ given' = [given EXCEPT ![t] = None]

Next == \E t \in Threads : Give(t) \/ Finish(t)

Spec == Init /\ [][Next]_vars
=============================================================================
