---------------------------- MODULE MCSequential ----------------------------
(***************************************************************************)
(* The parts of the system that run alone: the store of messages, and in a  *)
(* compiled program its ORAMs and the calls of its library, of what the      *)
(* machine is built on and of the offline phases.  One of them runs in a     *)
(* session; the others stay as they start.                                  *)
(***************************************************************************)
EXTENDS MsgStore, Oram, Calls

CONSTANT MaxFiles          \* messages in files

VARIABLE session

lib_vars == <<call, result>>

(* Small trees, with indices whose leaves share words and entries of the    *)
(* index structure and ones that do not.                                    *)
Tree(kind, depth, bucket, stash_size, index) ==
  [kind |-> kind, depth |-> depth, bucket |-> bucket, stash |-> stash_size, index |-> index]
SmallShapes ==
  { Tree("trivial", 1, 1, 3, {1, 2, 7}),
    Tree("tree", 3, 3, 0, {1, 2}),
    Tree("path", 2, 2, 2, {1, 7}),
    Tree("path", 1, 2, 2, {1, 2, 7}),
    Tree("circuit", 2, 2, 3, {1, 7}) }

(* All permutations of two and of four, and some of eight.                  *)
SomePerms ==
  SetToSeqs(0 .. 1) \cup SetToSeqs(0 .. 3)
  \cup {[i \in 1 .. 8 |-> ((IF i <= 4 THEN p[i] ELSE i - 1) * a + b) % 8] :
          p \in SetToSeqs(0 .. 3), a \in {1, 3}, b \in {0, 3, 6}}

(* The state of a part outside its session.                                 *)
NoMemory == OramInit /\ shape = CHOOSE s \in Shapes : TRUE
NoCall == call = <<>> /\ result = <<>>

SequentialInit ==
  /\ StoreInit
  /\ \/ session = "store" /\ NoMemory /\ NoCall
     \/ session = "memory" /\ OramInit /\ NoCall
     \/ session = "library" /\ NoMemory /\ LibraryInit
     \/ session = "primitive" /\ NoMemory /\ PrimitiveInit
     \/ session = "offline" /\ NoMemory /\ OfflineInit

SequentialNext ==
  \/ session = "store" /\ StoreNext /\ UNCHANGED <<session, oram_vars, lib_vars>>
  \/ session = "memory" /\ OramNext /\ UNCHANGED <<session, storeVars, lib_vars>>
  \/ session = "library" /\ LibraryNext /\ UNCHANGED <<session, storeVars, oram_vars>>
  \/ session = "primitive" /\ PrimitiveNext /\ UNCHANGED <<session, storeVars, oram_vars>>
  \/ session = "offline" /\ OfflineNext /\ UNCHANGED <<session, storeVars, oram_vars>>

SequentialSpec == SequentialInit /\ [][SequentialNext]_<<session, storeVars, oram_vars, lib_vars>>

FewFiles == Len(files) <= MaxFiles
=============================================================================
