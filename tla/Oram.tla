-------------------------------- MODULE Oram --------------------------------
(***************************************************************************)
(* The ORAMs of the compiler (Compiler/oram.py, path_oram.py and            *)
(* circuit_oram.py) as the program they are compiled to: each access looks  *)
(* up and renews the leaf of an index, takes the entry from the path to the *)
(* old leaf, and adds it where entries are added; then entries are evicted  *)
(* towards their leaves.                                                    *)
(*                                                                         *)
(*   trivial   TrivialORAM: all entries in one RAM, which is searched;      *)
(*   tree      TreeORAM: entries are added to the root, and eviction pops   *)
(*             one entry of the root, of its children, and of two buckets   *)
(*             of each further level;                                       *)
(*   path      PathORAM: entries are added to a stash, and all entries of   *)
(*             the stash and of a path are placed anew;                     *)
(*   circuit   CircuitORAM: one pass down each of two paths moves entries   *)
(*             that have been chosen in two passes before (GF(2^n) only).   *)
(*                                                                         *)
(* A bucket is the set of its entries that are not empty: which of its      *)
(* slots they are in is left open, and so is the choice among entries that  *)
(* the code decides by the slot.  Secret values are the values.             *)
(***************************************************************************)
EXTENDS Networks, FiniteSets

-----------------------------------------------------------------------------
(* PackedIndexStructure (Compiler/oram.py): the position map of a tree ORAM *)
(* packs several entries into the bits of one field element, and several    *)
(* elements into one block of the storage below, which is again an ORAM or, *)
(* for a single block, a list.                                              *)
CONSTANTS Size,          \* the number of entries
          ValueSize,     \* bits of an element, get_value_size
          MaxDemuxBits   \* max_demux_bits

ASSUME PackingAssumption ==
  Size \in Nat \ {0} /\ ValueSize \in Nat \ {0} /\ MaxDemuxBits \in Nat

(* The parameters for entries of so many bits; they fit an element here     *)
(* (else the structure uses MultiSlicer).                                   *)
Bits == 1 .. ValueSize
LogEntriesPerElement == [bits \in Bits |-> Min({Log2(Size), FloorLog2(ValueSize \div bits)})]
LogElementsPerBlock ==
  [bits \in Bits |-> Max({0, Min({MaxDemuxBits, Log2(Size) - LogEntriesPerElement[bits]})})]
EntriesPerElement == [bits \in Bits |-> 2 ^ LogEntriesPerElement[bits]]
ElementsPerBlock == [bits \in Bits |-> 2 ^ LogElementsPerBlock[bits]]
EntriesPerBlock == [bits \in Bits |-> EntriesPerElement[bits] * ElementsPerBlock[bits]]
RealSize == [bits \in Bits |-> (Size + EntriesPerBlock[bits] - 1) \div EntriesPerBlock[bits]]

(* Blocks of elements that are all zero.                                    *)
EmptyPack(bits) ==
  [a \in 0 .. RealSize[bits] - 1 |-> [b \in 0 .. ElementsPerBlock[bits] - 1 |-> 0]]

(* Slicer, translate_index: block, element within it, entry within that.    *)
Rem(u, bits) == u % EntriesPerBlock[bits]
Block(u, bits) ==
  IF RealSize[bits] = 1 THEN 0 ELSE (u - Rem(u, bits)) \div EntriesPerBlock[bits]
Entry(u, bits) == Rem(u, bits) % EntriesPerElement[bits]
Element(u, bits) == (Rem(u, bits) - Entry(u, bits)) \div EntriesPerElement[bits]

(* intBlock: the bits below the slice, the slice, the bits above.           *)
GetSlice(value, c, bits) == (value \div 2 ^ (c * bits)) % 2 ^ bits
SetSlice(value, c, bits, x) ==
  LET shift == 2 ^ (c * bits)
      trunc == value \div shift
  IN  (trunc - (trunc % 2 ^ bits)) * shift + (value % shift) + x * shift

Get(pack, u, bits) ==
  GetSlice(pack[Block(u, bits)][Element(u, bits)], Entry(u, bits), bits)
Put(pack, u, bits, x) ==
  [pack EXCEPT ![Block(u, bits)][Element(u, bits)] = SetSlice(@, Entry(u, bits), bits, x)]

-----------------------------------------------------------------------------
(* ORAMs.                                                                  *)
CONSTANTS Value, NoValue, NoEntry,
          Shapes,          \* kinds with their depth, bucket and stash sizes and indices
          Sigma, Tau       \* PathORAM: levels an entry may move up or down

VARIABLES
  shape,                   \* the ORAM in use
  posmap,                  \* its index structure
  buckets, stash,          \* entries by node; the stash (the RAM, if trivial)
  count,                   \* PathORAM::eviction_count, CircuitORAM::t
  todo,                    \* steps of the eviction that are left
  last                     \* the result of the last access

oram_vars == <<shape, posmap, buckets, stash, count, todo, last>>

None == -1
D == shape.depth           \* the depth of the tree, which never changes
Leaves == 0 .. 2 ^ D - 1
Nodes == 0 .. 2 ^ (D + 1) - 1
Reversed(n) == MapThenSumSet(LAMBDA i : Bit(n, i) * 2 ^ (D - 1 - i), 0 .. D - 1)

(* Entries, with the leaf as first of their values.                         *)
NewEntry(u, leaf, x) == [v |-> u, leaf |-> leaf, x |-> x]

(* TrivialORAM::add: into the first empty slot, and nowhere if there is none. *)
Added(bucket, e, size) ==
  IF e # NoEntry /\ Cardinality(bucket) < size THEN bucket \cup {e} ELSE bucket

-----------------------------------------------------------------------------
(* The node of a path at a level.  Trees are numbered from 1, the first bit *)
(* of a leaf being its highest; those of PathORAM from 0, the first bit     *)
(* being the lowest.                                                        *)
PathNode(leaf, level) ==
  FoldLeftDomain(LAMBDA node, i : 2 * node + 1 + Bit(leaf, i - 1), 0, [i \in 1 .. level |-> i])
TreeNode(leaf, level) == (2 ^ D + leaf) \div 2 ^ (D - level)

Node(leaf, level) == IF shape.kind = "path" THEN PathNode(leaf, level) ELSE TreeNode(leaf, level)
Path(leaf) == {Node(leaf, level) : level \in 0 .. D}

(* Levels that two leaves' paths share below the root: bits in which they   *)
(* agree, from a first one on.                                              *)
Common(a, b, start) ==
  LET bit(n, i) == IF shape.kind = "path" THEN Bit(n, i) ELSE Bit(n, D - 1 - i)
  IN  Min({i \in start .. D - 1 : bit(a, i) # bit(b, i)} \cup {D})

-----------------------------------------------------------------------------
(* Access.                                                                  *)

Position(u) == Get(posmap, u, D)

(* What an access to an index finds: in the RAM, or on the path to the leaf *)
(* of the index and in the stash.  Two entries would be added up.           *)
Found(u) ==
  {e \in stash \cup (IF shape.kind = "trivial" THEN {}
                      ELSE UNION {buckets[n] : n \in Path(Position(u))}) : e.v = u}
ReadValue(u) == IF Cardinality(Found(u)) = 1 THEN (CHOOSE e \in Found(u) : TRUE).x ELSE NoValue

OramInit ==
  /\ shape \in Shapes
  /\ posmap = EmptyPack(D)
  /\ buckets = [n \in Nodes |-> {}] /\ stash = {}
  /\ count = 0 /\ todo = 0 /\ last = NoValue

(* TrivialORAM::_access: the entry that is found is overwritten, or a new   *)
(* one goes to the first empty slot.                                        *)
TrivialAccess(u, write, new) ==
  /\ shape.kind = "trivial"
  /\ last' = ReadValue(u)
  /\ stash' = CASE ~ write -> stash
                [] new = NoValue -> stash \ Found(u)
                [] OTHER -> Added(stash \ Found(u), NewEntry(u, 0, new), shape.stash)
  /\ UNCHANGED <<shape, posmap, buckets, count, todo>>

EvictionSteps == [trivial |-> 0, tree |-> D, path |-> 1, circuit |-> 2][shape.kind]

(* read_and_remove: the leaf is renewed, and the path to the old one and    *)
(* the stash are searched.  _access: what was read, or what is written, is  *)
(* added, to the root of a TreeORAM and to the stash of the others.         *)
TreeAccess(u, leaf, write, new) ==
  LET found == Found(u)
      x == IF write THEN new ELSE ReadValue(u)
      entry == IF x = NoValue THEN NoEntry ELSE NewEntry(u, leaf, x)
      rest == [n \in Nodes |-> buckets[n] \ found]
  IN /\ shape.kind # "trivial"
     /\ posmap' = Put(posmap, u, D, leaf)
     /\ last' = ReadValue(u)
     /\ IF shape.kind = "tree"
        THEN buckets' = [rest EXCEPT ![1] = Added(@, entry, shape.bucket)] /\ stash' = stash
        ELSE buckets' = rest /\ stash' = Added(stash \ found, entry, shape.stash)
     /\ todo' = EvictionSteps
     /\ UNCHANGED <<shape, count>>

Access ==
  /\ todo = 0
  /\ \E u \in shape.index, write \in BOOLEAN :
     \E new \in IF write THEN Value \cup {NoValue} ELSE {NoValue} :
       \/ TrivialAccess(u, write, new)
       \/ \E leaf \in Leaves : TreeAccess(u, leaf, write, new)

-----------------------------------------------------------------------------
(* TreeORAM: evict_bucket pops an entry and adds it to the child on the way *)
(* to its leaf.                                                             *)

Child(n, e, d) == 2 * n + Bit(e.leaf, D - 1 - d)

(* The buckets that are evicted: the root, both of the first level, two     *)
(* different ones of each level after that.                                 *)
Evicted(d) ==
  CASE d = 0 -> {{1}}
    [] d = 1 -> {{2, 3}}
    [] OTHER -> kSubset(2, 2 ^ d .. 2 ^ (d + 1) - 1)

TreeEvict ==
  /\ shape.kind = "tree" /\ todo > 0
  /\ LET d == D - todo IN
     \E from \in Evicted(d) :
     \E pop \in [from -> (UNION {buckets[n] : n \in from}) \cup {NoEntry}] :
       /\ \A n \in from : IF buckets[n] = {} THEN pop[n] = NoEntry ELSE pop[n] \in buckets[n]
       /\ buckets' = [n \in Nodes |->
            LET p == n \div 2 IN
            CASE n \in from -> buckets[n] \ {pop[n]}
              [] p \in from /\ pop[p] # NoEntry ->
                   IF n = Child(p, pop[p], d) THEN Added(buckets[n], pop[p], shape.bucket) ELSE buckets[n]
              [] OTHER -> buckets[n]]
  /\ todo' = todo - 1
  /\ UNCHANGED <<shape, posmap, stash, count, last>>

-----------------------------------------------------------------------------
(* PathORAM: shuffle_evict.                                                 *)

(* size_bits say that a bucket is full at two entries unless it has four    *)
(* slots.                                                                   *)
FullAt == IF shape.bucket = 4 THEN 4 ELSE 2

(* adjust_lca: the deepest level with room, from the last the paths share   *)
(* upwards, not further from the old level than Sigma and Tau; D + 1 is the *)
(* stash.                                                                   *)
AdjustedLca(lca, lev, sizes) ==
  LET upper == Min({lev + Sigma, D})
      lower == Max({lev - Tau, 0})
      allowed == {j \in lower .. lca : sizes[j] < FullAt}
  IN  IF lca > upper \/ allowed = {} THEN D + 1 ELSE Max(allowed)

(* The level of each entry, given one after the other.                      *)
Levels(entries, leaf) ==
  FoldLeft(LAMBDA acc, e :
             LET level == AdjustedLca(Common(e.entry.leaf, leaf, 0), e.level, acc.sizes)
             IN  [sizes |-> [acc.sizes EXCEPT ![level] = @ + 1],
                  levels |-> [acc.levels EXCEPT ![level] = @ \cup {e.entry}]],
           [sizes |-> [j \in 0 .. D + 1 |-> 0], levels |-> [j \in 0 .. D + 1 |-> {}]],
           entries).levels

At(level, s) == [i \in DOMAIN s |-> [entry |-> s[i], level |-> level]]

(* The path's entries by level, then the stash's.  The eviction leaves take *)
(* turns.  No more entries are put into the stash than fit.                 *)
PathEvict ==
  /\ shape.kind = "path" /\ todo > 0
  /\ LET leaf == count
         at(level) == IF level = D + 1 THEN stash ELSE buckets[PathNode(leaf, level)]
     IN \E orders \in {o \in [0 .. D + 1 -> UNION {SetToSeqs(at(level)) : level \in 0 .. D + 1}] :
                         \A level \in 0 .. D + 1 : o[level] \in SetToSeqs(at(level))} :
          LET entries == FlattenSeq([i \in 1 .. D + 2 |->
                           At(IF i = D + 2 THEN 0 ELSE i - 1, orders[i - 1])])
              levels == Levels(entries, leaf)
          IN /\ buckets' = [n \in Nodes |->
                  IF \E level \in 0 .. D : n = PathNode(leaf, level)
                  THEN levels[CHOOSE level \in 0 .. D : n = PathNode(leaf, level)]
                  ELSE buckets[n]]
             /\ \E kept \in kSubset(Min({shape.stash, Cardinality(levels[D + 1])}), levels[D + 1]) :
                  stash' = kept
  /\ count' = (count + 1) % 2 ^ D
  /\ todo' = todo - 1
  /\ UNCHANGED <<shape, posmap, last>>

-----------------------------------------------------------------------------
(* CircuitORAM.  Levels are 0 for the stash and 1 for the root to D + 1 for *)
(* the leaf.                                                                *)

L == D + 1

(* find_deepest in the bucket of a level: the entry that may go deepest on  *)
(* the path and the level it may go to.  From an empty bucket comes what    *)
(* its slots happen to hold.                                                *)
Goal(e, path, level) == 1 + Common(e.leaf, path, IF level = 0 THEN 0 ELSE level - 1)

Deepest(at, path, level) ==
  LET best == Max({Goal(e, path, level) : e \in at[level]})
  IN  IF at[level] # {}
      THEN {[goal |-> best, src |-> level, entry |-> e, i |-> level] :
              e \in {f \in at[level] : Goal(f, path, level) = best}}
      ELSE IF level = 0
      THEN {[goal |-> 0, src |-> None, entry |-> NoEntry, i |-> 0]}
      ELSE {[goal |-> g, src |-> level, entry |-> NoEntry, i |-> level] : g \in level .. L}

(* Fault: an entry may go one level further than its leaf allows.           *)
PrepareDeepestTooFar(at, found) ==
  LET op(left, right) ==
        IF right.goal > left.goal /\ at[right.i] # {} THEN right ELSE [left EXCEPT !.i = right.i]
      pre == PreOpL(op, [i \in 1 .. L |-> found[i - 1]])
  IN  [i \in 1 .. L |-> IF pre[i].goal + 1 >= i THEN pre[i].src ELSE None]

(* prepare_deepest: for each level, the level above it whose deepest entry   *)
(* goes deepest, if it may go to that level.                                *)
PrepareDeepest(at, found) ==
  LET op(left, right) ==
        IF right.goal > left.goal /\ at[right.i] # {} THEN right ELSE [left EXCEPT !.i = right.i]
      pre == PreOpL(op, [i \in 1 .. L |-> found[i - 1]])
  IN  [i \in 1 .. L |-> IF pre[i].goal >= i THEN pre[i].src ELSE None]

(* prepare_target: from the leaf up, an entry is to come to a level that    *)
(* has room, or whose own entry leaves.                                     *)
PrepareTarget(at, deepest) ==
  FoldRight(LAMBDA i, acc :
      LET freed == acc.src = i
          t == IF freed THEN acc.dest ELSE None
          dest == IF freed THEN None ELSE acc.dest
          moves == /\ i > 0
                   /\ (dest = None /\ Cardinality(at[i]) < shape.bucket) \/ t # None
                   /\ deepest[i] # None
      IN  [target |-> [acc.target EXCEPT ![i] = t],
           src |-> IF moves THEN deepest[i] ELSE IF freed THEN None ELSE acc.src,
           dest |-> IF moves THEN i ELSE dest],
    [i \in 1 .. L + 1 |-> i - 1],
    [target |-> [i \in 0 .. L |-> None], src |-> None, dest |-> None]).target

(* evict_once_fast: from the stash down, the entry that is held is written  *)
(* to its level, and the entry that leaves a level is taken.                *)
EvictOnceFast(at, found, target) ==
  FoldLeft(LAMBDA acc, i :
      LET arrived == acc.hold # NoEntry /\ acc.dest = i
          leaves == i # L /\ target[i] # None
      IN  [towrite |-> [acc.towrite EXCEPT ![i] = IF arrived THEN acc.hold ELSE NoEntry],
           at |-> [acc.at EXCEPT ![i] = IF leaves THEN @ \ {found[i].entry} ELSE @],
           hold |-> IF leaves THEN found[i].entry ELSE IF arrived THEN NoEntry ELSE acc.hold,
           dest |-> IF leaves THEN target[i] ELSE IF arrived THEN None ELSE acc.dest],
    [towrite |-> [i \in 0 .. L |-> NoEntry], at |-> at, hold |-> NoEntry, dest |-> None],
    [i \in 1 .. L + 1 |-> i - 1])

(* evict_once and add_evicted, on the two paths of each access in turn.     *)
CircuitEvict ==
  /\ shape.kind = "circuit" /\ todo > 0
  /\ LET path == Reversed((2 * count + 2 - todo) % 2 ^ D)
         at == [i \in 0 .. L |-> IF i = 0 THEN stash ELSE buckets[TreeNode(path, i - 1)]]
     IN \E found \in {f \in [0 .. L - 1 -> UNION {Deepest(at, path, i) : i \in 0 .. L - 1}] :
                        \A i \in 0 .. L - 1 : f[i] \in Deepest(at, path, i)} :
          LET moved == EvictOnceFast(at, found, PrepareTarget(at, PrepareDeepest(at, found)))
          IN /\ stash' = moved.at[0]
             /\ buckets' = [n \in Nodes |->
                  IF n \in Path(path)
                  THEN LET i == CHOOSE i \in 1 .. L : n = TreeNode(path, i - 1)
                       IN  Added(moved.at[i], moved.towrite[i], shape.bucket)
                  ELSE buckets[n]]
  /\ count' = IF todo = 1 THEN (count + 1) % 2 ^ (D - 1) ELSE count
  /\ todo' = todo - 1
  /\ UNCHANGED <<shape, posmap, last>>

-----------------------------------------------------------------------------
OramNext == Access \/ TreeEvict \/ PathEvict \/ CircuitEvict

OramSpec == OramInit /\ [][OramNext]_oram_vars

-----------------------------------------------------------------------------
(* The ORAM is an array, whatever the leaves and the eviction: each entry   *)
(* stays where an access would find it, and there is no second one.         *)
Indices == UNION {s.index : s \in Shapes}
Array == INSTANCE OramArray WITH
  Index <- Indices,
  array <- [u \in Indices |-> ReadValue(u)]

ImplementsArray == Array!Spec
=============================================================================
