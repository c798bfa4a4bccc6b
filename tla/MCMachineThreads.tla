-------------------------- MODULE MCMachineThreads --------------------------
(* Three threads.  Flat programs: two lines, the first with two tapes, one  *)
(* of which declares more than it uses; a tape of unknown usage between two *)
(* others, and one that is not alone; a tape that finds the files at their  *)
(* end.  Nested programs: the first tape starts tapes in both other threads *)
(* and one of these threads again; it starts one of unknown usage.          *)
EXTENDS MachineThreads

I(op, t, n, a) == [op |-> op, thread |-> t, tape |-> n, arg |-> a]
UseItem        == I("use", 1, 0, 0)
RunIn(t, n, a) == I("run", t, n, a)
JoinOf(t)      == I("join", t, 0, 0)

T(code, n) == [code |-> code, usage |-> n, unknown |-> FALSE]
Unknown(code) == [code |-> code, usage |-> 0, unknown |-> TRUE]
L(n, a) == [tape |-> n, arg |-> a]

TwoLines == [tapes |-> <<T(<<UseItem>>, 2), T(<<UseItem, UseItem>>, 2)>>,
             schedule |-> << <<L(1, 1), L(2, 2)>>, <<L(2, 3)>> >>]

UnknownBetween == [tapes |-> <<T(<<UseItem>>, 1), Unknown(<<UseItem, UseItem>>)>>,
                   schedule |-> << <<L(1, 1)>>, <<L(2, 1)>>, <<L(1, 2), L(1, 3)>> >>]

UnknownNotAlone == [tapes |-> <<T(<<UseItem>>, 1), Unknown(<<UseItem>>)>>,
                    schedule |-> << <<L(1, 1), L(2, 1)>> >>]

OutOfData == [tapes |-> <<T(<<UseItem>>, NItems), T(<<UseItem>>, 1)>>,
              schedule |-> << <<L(1, 1), L(2, 2)>> >>]

Fork == [tapes |-> <<T(<<UseItem, RunIn(2, 2, 1), RunIn(3, 2, 2), UseItem, JoinOf(2),
                         RunIn(2, 2, 3), JoinOf(3), JoinOf(2), UseItem>>, 6),
                     T(<<UseItem>>, 1)>>,
         schedule |-> << <<L(1, 0)>> >>]

ForkUnknown == [tapes |-> <<Unknown(<<RunIn(2, 2, 1), JoinOf(2)>>), Unknown(<<UseItem>>)>>,
                schedule |-> << <<L(1, 0)>> >>]

Flat == {TwoLines, UnknownBetween, UnknownNotAlone, OutOfData}
All  == Flat \cup {Fork, ForkUnknown}
OnlyFork == {Fork}
=============================================================================
