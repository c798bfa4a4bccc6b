------------------------------ MODULE Networks ------------------------------
(***************************************************************************)
(* Bits of numbers with the prefixes that the compiler computes in          *)
(* logarithmic rounds, on which its library rests, and its oblivious lists  *)
(* (Compiler/permutation.py and library.py): sorting and merging networks   *)
(* in the ways they are unrolled, Waksman networks and their configuration, *)
(* and loops split among threads.                                           *)
(*                                                                         *)
(* A list is a function from 0 .. n - 1.  Numbers are 0 and 1, which is     *)
(* enough for a network that compares and swaps.                            *)
(***************************************************************************)
EXTENDS Integers, Sequences, SequencesExt, FiniteSetsExt

Bit(n, i) == (n \div 2 ^ i) % 2
BitsOf(n, m) == [i \in 1 .. m |-> Bit(n, i - 1)]

(* Rounded down and up: int(math.floor(math.log(n, 2))) and util.log2.      *)
FloorLog2(n) == Max({k \in 0 .. n : 2 ^ k <= n})
Log2(n) == Min({k \in 0 .. n : 2 ^ k >= n})

(* PreOpL (Compiler/floatingpoint.py).                                      *)
PreOpL(Op(_, _), items) ==
  FoldLeftDomain(LAMBDA out, i :
      [t \in DOMAIN items |->
         LET y == t - 1 IN
         IF Bit(y, i - 1) = 1 THEN Op(out[y - (y % 2 ^ (i - 1))], out[t]) ELSE out[t]],
    items, [i \in 1 .. Log2(Len(items)) |-> i])

-----------------------------------------------------------------------------
(* Lists.                                                                   *)
CONSTANT MaxChunk          \* max_chunk_size

Padding == 2               \* after the others
Length(a) == Cardinality(DOMAIN a)
List(s) == [i \in 0 .. Len(s) - 1 |-> s[i + 1]]
Tuple(a) == [i \in 1 .. Length(a) |-> a[i - 1]]
Joined(a, b) == List(Tuple(a) \o Tuple(b))
Every(a, from, step, n) == [i \in 0 .. n - 1 |-> a[from + i * step]]
UpTo(n) == [i \in 1 .. n |-> i - 1]

CondSwap(x, y) == IF y # Padding /\ (x = Padding \/ x >= y) THEN <<y, x>> ELSE <<x, y>>
CondSwapBit(x, y, b) == IF b = 1 THEN <<y, x>> ELSE <<x, y>>

-----------------------------------------------------------------------------
(* Batcher's networks, recursively.                                         *)

RECURSIVE OddEvenMerge(_)
OddEvenMerge(a) ==
  LET n == Length(a)
      even == OddEvenMerge(Every(a, 0, 2, n \div 2))
      odd == OddEvenMerge(Every(a, 1, 2, n \div 2))
      pair == [i \in 1 .. n \div 2 - 1 |-> CondSwap(odd[i - 1], even[i])]
  IN  CASE n = 1 -> a
        [] n = 2 -> List(CondSwap(a[0], a[1]))
        [] OTHER -> [i \in 0 .. n - 1 |->
             CASE i = 0 -> even[0]
               [] i = n - 1 -> odd[n \div 2 - 1]
               [] OTHER -> IF i % 2 = 1 THEN pair[(i + 1) \div 2][1] ELSE pair[i \div 2][2]]

RECURSIVE OddEvenMergeSort(_)
OddEvenMergeSort(a) ==
  LET h == Length(a) \div 2
  IN  IF h = 0 THEN a
      ELSE OddEvenMerge(Joined(OddEvenMergeSort(Every(a, 0, 1, h)),
                               OddEvenMergeSort(Every(a, h, 1, h))))

(* Lists of any length are padded.  A merge pads the second list to a power *)
(* of two only, as the first is never longer.                               *)
Padded(a, n) == [i \in 0 .. n - 1 |-> IF i < Length(a) THEN a[i] ELSE Padding]
PaddedSort(a) == Every(OddEvenMergeSort(Padded(a, 2 ^ Log2(Length(a)))), 0, 1, Length(a))

Merge(a, b) ==
  LET m == 2 ^ Log2(Length(b))
  IN  List(SelectSeq(Tuple(OddEvenMerge(Joined(Padded(a, m), Padded(b, m)))), LAMBDA v : v # Padding))

(* recursive_merge: the two shortest lists are merged, and the result is    *)
(* put where its length belongs.                                            *)
RECURSIVE RecursiveMerge(_)
RecursiveMerge(lists) ==
  IF Len(lists) = 1 THEN lists[1]
  ELSE LET t == Merge(lists[1], lists[2])
           rest == SubSeq(lists, 3, Len(lists))
           i == Min({j \in 1 .. Len(rest) : Length(rest[j]) >= Length(t)} \cup {Len(rest) + 1})
       IN  RecursiveMerge(InsertAt(rest, i, t))

-----------------------------------------------------------------------------
(* The same networks as loops: rounds of pairs.                             *)

Swap(a, p) == LET s == CondSwap(a[p[1]], a[p[2]]) IN [a EXCEPT ![p[1]] = s[1], ![p[2]] = s[2]]

(* Lengths of lists merged, and the distances in each merge.                *)
Rounds(n, sorted) ==
  FlattenSeq([x \in 1 .. Log2(n) - Log2(sorted) |->
    [y \in 1 .. x + Log2(sorted) |-> [l |-> 2 ^ (x + Log2(sorted)), k |-> 2 ^ y]]])

(* Fault: the pairs start where those of the first round do.                *)
RoundPairsUnshifted(n, r) ==
  LET step == r.l \div r.k
      innermost == IF r.k = 2 THEN 1 ELSE r.k \div 2 - 1
  IN  FlattenSeq([i \in 1 .. n \div r.l |-> FlattenSeq([j \in 1 .. step |->
        [m \in 1 .. innermost |->
           LET base == (i - 1) * r.l + j - 1 + 2 * (m - 1) * step
           IN  <<base, base + step>>]])])

RoundPairs(n, r) ==
  LET step == r.l \div r.k
      innermost == IF r.k = 2 THEN 1 ELSE r.k \div 2 - 1
  IN  FlattenSeq([i \in 1 .. n \div r.l |-> FlattenSeq([j \in 1 .. step |->
        [m \in 1 .. innermost |->
           LET base == (i - 1) * r.l + j - 1 + (IF r.k = 2 THEN 0 ELSE step) + 2 * (m - 1) * step
           IN  <<base, base + step>>]])])

(* chunky_odd_even_merge_sort and loopy_odd_even_merge_sort.                *)
LoopySort(a, sorted) ==
  FoldLeft(LAMBDA b, r : FoldLeft(Swap, b, RoundPairs(Length(a), r)), a, Rounds(Length(a), sorted))

(* run_round: a round of so many numbers as chunks of two even sizes, each  *)
(* one thread.                                                              *)
Chunks(size) ==
  LET n_chunks == (size + MaxChunk - 1) \div MaxChunk
      lower_size == ((size \div n_chunks) \div 2) * 2
      n_lower_size == n_chunks - (size - n_chunks * lower_size) \div 2
  IN  FoldLeftDomain(LAMBDA acc, i :
          LET length == IF i <= n_lower_size THEN lower_size ELSE lower_size + 2
          IN  [chunks |-> Append(acc.chunks, [base |-> acc.next, length |-> length]),
               next |-> acc.next + length],
        [chunks |-> <<>>, next |-> 0], UpTo(n_chunks)).chunks

(* swap_list, for the pairs of a chunk.                                     *)
SwapList(tmp, chunk) ==
  FoldLeft(Swap, tmp, [i \in 1 .. chunk.length \div 2 |->
                         <<chunk.base + 2 * (i - 1), chunk.base + 2 * i - 1>>])

(* chunkier_odd_even_merge_sort and the loopy one: the numbers of a round   *)
(* are copied to temporary memory, pair after pair, and back.               *)
ChunkierSort(a) ==
  FoldLeft(LAMBDA b, r :
      LET at == FlattenSeq(RoundPairs(Length(a), r))
          tmp == FoldLeft(SwapList, [i \in 0 .. Len(at) - 1 |-> b[at[i + 1]]], Chunks(Len(at)))
      IN  FoldLeftDomain(LAMBDA c, i : [c EXCEPT ![at[i]] = tmp[i - 1]], b, at),
    a, Rounds(Length(a), 1))

(* library.sort.                                                            *)
InsertionSort(a) ==
  FoldLeft(LAMBDA b, i : FoldLeft(LAMBDA c, j : Swap(c, <<j, j + 1>>), b, Reverse(UpTo(i))),
           a, UpTo(Length(a)))

(* mergesort: what is compared is revealed.  Pairs of sorted lists of a     *)
(* width are merged into the other array.                                   *)
MergeInto(a, b, i_left, i_right, i_end) ==
  FoldLeft(LAMBDA s, j :
      LET left == s.i0 < i_right /\ (s.i1 >= i_end \/ a[s.i0] <= a[s.i1])
      IN  [b |-> [s.b EXCEPT ![i_left + j] = IF left THEN a[s.i0] ELSE a[s.i1]],
           i0 |-> IF left THEN s.i0 + 1 ELSE s.i0,
           i1 |-> IF left THEN s.i1 ELSE s.i1 + 1],
    [b |-> b, i0 |-> i_left, i1 |-> i_right], UpTo(i_end - i_left)).b

MergeSort(a) ==
  FoldLeft(LAMBDA b, w :
      FoldLeft(LAMBDA c, i : MergeInto(b, c, 2 * w * i, 2 * w * i + w, 2 * w * (i + 1)),
               b, UpTo(Length(a) \div (2 * w))),
    a, [x \in 1 .. Log2(Length(a)) |-> 2 ^ (x - 1)])

-----------------------------------------------------------------------------
(* Waksman networks.                                                        *)

Other(i) == IF i % 2 = 1 THEN i - 1 ELSE i + 1

(* The inner loop of configure_waksman: switches along a cycle, from an     *)
(* output that goes through the first half on.                              *)
RECURSIVE Cycle(_, _, _, _)
Cycle(s, perm, j, j0) ==
  LET i == CHOOSE i \in DOMAIN perm : perm[i] = j
      partner == Other(i)
      t == [I |-> [s.I EXCEPT ![i \div 2] = i % 2],
            O |-> [s.O EXCEPT ![j \div 2] = j % 2],
            p0 |-> [s.p0 EXCEPT ![i \div 2] = j \div 2],
            p1 |-> [s.p1 EXCEPT ![partner \div 2] = perm[partner] \div 2]]
      next == Other(perm[partner])
  IN  IF next = j0 THEN t ELSE Cycle(t, perm, next, j0)

RECURSIVE Cycles(_, _)
Cycles(s, perm) ==
  LET unset == {o \in DOMAIN s.O : s.O[o] = Padding}
  IN  IF unset = {} THEN s
      ELSE LET j == 2 * Min(unset) IN Cycles(Cycle(s, perm, j, j), perm)

(* configure_waksman: rows, one for each depth.                             *)
RECURSIVE ConfigureWaksman(_)
ConfigureWaksman(perm) ==
  LET n == Length(perm)
      nothing == [i \in 0 .. n \div 2 - 1 |-> Padding]
      s == Cycles([I |-> nothing, O |-> nothing, p0 |-> nothing, p1 |-> nothing], perm)
      c0 == ConfigureWaksman(s.p0)
      c1 == ConfigureWaksman(s.p1)
  IN  IF n = 2 THEN <<List(<<perm[0], perm[0]>>)>>
      ELSE <<Joined(s.I, s.O)>> \o [d \in DOMAIN c0 |-> Joined(c0[d], c1[d])]

(* waksman, recursive.                                                      *)
RECURSIVE Waksman(_, _, _, _, _)
Waksman(a, config, depth, start, reverse) ==
  LET h == Length(a) \div 2
      c == config[depth]
      ins(i) == CondSwapBit(a[2 * i], a[2 * i + 1], c[i + start + (IF reverse THEN h ELSE 0)])
      a0 == Waksman([i \in 0 .. h - 1 |-> ins(i)[1]], config, depth + 1, start, reverse)
      a1 == Waksman([i \in 0 .. h - 1 |-> ins(i)[2]], config, depth + 1, start + h, reverse)
      outs(i) == CondSwapBit(a0[i], a1[i], c[i + start + (IF reverse THEN 0 ELSE h)])
  IN  IF h = 1 THEN List(CondSwapBit(a[0], a[1], c[start]))
      ELSE [i \in 0 .. 2 * h - 1 |-> outs(i \div 2)[(i % 2) + 1]]

-----------------------------------------------------------------------------
(* Loops.                                                                   *)

(* map_reduce_single: rounds of so many in parallel, and the rest one after *)
(* the other; a number of loops known at run time only may have a single    *)
(* round.                                                                   *)
MapReduceSingle(n_parallel, n_loops, known) ==
  LET par == IF n_parallel = 0 THEN 1 ELSE n_parallel
      loop_rounds == IF known /\ par >= n_loops THEN 0 ELSE n_loops \div par
  IN  FlattenSeq([i \in 1 .. loop_rounds |-> [k \in 1 .. par |-> (i - 1) * par + k - 1]])
      \o [j \in 1 .. n_loops - loop_rounds * par |-> loop_rounds * par + j - 1]

(* map_reduce: threads for the same number of loops, and as many as there   *)
(* is a remainder for one more.                                             *)
MapReduce(n_threads, n_parallel, n_loops) ==
  LET rounds == n_loops \div n_threads
      remainder == n_loops % n_threads
      thread(base, inc) ==
        [i \in 1 .. rounds + inc |-> base + MapReduceSingle(n_parallel, rounds + inc, TRUE)[i]]
  IN  IF n_threads = 1 \/ n_loops = 1 THEN MapReduceSingle(n_parallel, n_loops, TRUE)
      ELSE FlattenSeq(
             (IF rounds = 0 THEN <<>>
              ELSE [i \in 1 .. n_threads - remainder |-> thread((i - 1) * rounds, 0)])
             \o [i \in 1 .. remainder |-> thread((n_threads - remainder + i - 1) * rounds + i - 1, 1)])
=============================================================================
