--------------------------- MODULE TrustedMachine ---------------------------
(***************************************************************************)
(* What the online phase promises: the program as it was written is run by  *)
(* a trusted machine on the players' inputs, and every player is given the  *)
(* public outputs and its own private outputs, in the program's order, and  *)
(* nothing else.                                                            *)
(***************************************************************************)
EXTENDS Bytecode

CONSTANT Sources     \* the programs, with the options to compile them with

VARIABLES source,    \* the program
          given,      \* what the players' inputs start from
          result,     \* what it computes from them
          pub, priv   \* what every player has been given

Init == /\ source \in Sources
        /\ given \in [Player -> Zq]
        /\ result = PlainRun(source.code, given)
        /\ pub = [p \in Player |-> <<>>]
        /\ priv = [p \in Player |-> <<>>]

Publish(p) == /\ Len(pub[p]) < Len(result.pub)
              /\ pub' = [pub EXCEPT ![p] = Append(@, result.pub[Len(@) + 1])]
              /\ UNCHANGED <<source, given, result, priv>>

Tell(p) == /\ Len(priv[p]) < Len(result.priv[p])
           /\ priv' = [priv EXCEPT ![p] = Append(@, result.priv[p][Len(@) + 1])]
           /\ UNCHANGED <<source, given, result, pub>>

Next == \E p \in Player : Publish(p) \/ Tell(p)

Spec == Init /\ [][Next]_<<source, given, result, pub, priv>>
=============================================================================
