----------------------------- MODULE MCAndJobs -----------------------------
(* Four instructions for three threads with -t 2: one garbled by the main   *)
(* thread alone, one whose five tuples make three jobs of 2, 2 and 1, one   *)
(* whose first tuple already is more than a share, so that a thread stays   *)
(* idle, and one with a single tuple.                                       *)
EXTENDS AndJobs

CONSTANTS r1, r2, r3, r4, r5, r6
MCReg == {r1, r2, r3, r4, r5, r6}

T(o, l, r) == [out |-> o, left |-> l, right |-> r]

MCInstrs ==
  << [upto |-> <<1>>, tuples |-> <<T(r2, r1, r1)>>],
     [upto |-> <<1, 2, 3, 4, 5>>,
      tuples |-> <<T(r3, r2, r2), T(r4, r2, r2), T(r5, r2, r2), T(r6, r2, r2), T(r1, r2, r2)>>],
     [upto |-> <<3, 4>>, tuples |-> <<T(r2, r4, r1), T(r3, r5, r6)>>],
     [upto |-> <<2>>, tuples |-> <<T(r4, r3, r2)>>] >>
=============================================================================
