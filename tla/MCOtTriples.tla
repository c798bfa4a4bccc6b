---------------------------- MODULE MCOtTriples ----------------------------
(* Three players with one thread each, so that a generator serves two       *)
(* multipliers, and two players with two threads, which the main thread     *)
(* starts together; all kinds of output.                                    *)
EXTENDS OtTriples

Machine(n, t, mode) == [players |-> n, threads |-> t, mode |-> mode]

MCMachines == {Machine(3, 1, "checked"), Machine(2, 1, "bits"),
               Machine(2, 1, "amplified"), Machine(2, 2, "triples")}
=============================================================================
