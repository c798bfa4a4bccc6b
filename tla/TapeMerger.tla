----------------------------- MODULE TapeMerger -----------------------------
(***************************************************************************)
(* How the compiler reorders a basic block (Compiler/allocator.py, Merger,  *)
(* and Compiler/graph.py): the dependency graph of the instructions, the    *)
(* round of every opening, openings of a round and inputs of a player       *)
(* merged into one instruction, a pre-order that pulls inputs to the front  *)
(* and pushes work between start and stop of an opening, a topological      *)
(* sort, and registers given to what is alive (StraightlineAllocator).      *)
(* Instructions of one element each; the machine runs Compiled(source).     *)
(***************************************************************************)
EXTENDS Bytecode

(* Options: merge (-n off), reorder (-r off), dead (-D), limit (-m, 0: none) *)
Options == [merge: BOOLEAN, reorder: BOOLEAN, dead: BOOLEAN, limit: Nat]

(* Nodes of the graph are positions in the block; an instruction that has   *)
(* been merged into another or eliminated is Nothing.                       *)
Nothing == Ins("none", "p", <<>>, <<>>, 0, 0)
Table(code, f(_)) == <<>> \o [n \in 1 .. Len(code) |-> f(n)]
Nodes(code) == Table(code, LAMBDA n : n)
Ascending(code, S) == SelectSeq(Nodes(code), LAMBDA n : n \in S)
IsOpen(ins) == ins.op = "startopen"
IsRawInput(ins) == ins.op \in {"startinput", "stopinput"}
Fifo(code, op) == SelectSeq(Nodes(code), LAMBDA n : code[n].op = op)

(* The k-th stopopen ends the k-th startopen, of whatever field.            *)
StopOf(code, n) == Fifo(code, "stopopen")[SelectInSeq(Fifo(code, "startopen"), LAMBDA m : m = n)]

(* Fault: private outputs do not stay in order.                             *)
OrderKeyNotPrivate(ins) ==
  CASE ins.op = "input" -> <<"io">>
    [] ins.op = "rawout" -> <<ins.op, ins.f>>
    [] ins.op \in {"startinput", "stopinput"} -> <<ins.op, ins.f, ins.p>>
    [] OTHER -> <<>>

(* keep_order: instructions with the same key stay in order.                *)
OrderKey(ins) ==
  CASE ins.op = "input" -> <<"io">>
    [] ins.op = "rawout" -> <<ins.op, ins.f>>
    [] ins.op \in {"startinput", "stopinput"} -> <<ins.op, ins.f, ins.p>>
    [] ins.op \in {"startpriv", "stoppriv"} -> <<ins.op, ins.p>>
    [] OTHER -> <<>>

MemOp(ins) == ins.op \in {"ldm", "stm"}
MemCell(ins) == CellOf(ins, (ins.in \o ins.out)[1])

-----------------------------------------------------------------------------
(* dependency_graph *)

(* j reads a register that i has written last.                              *)
ByRegister(code, i, j) ==
  \E r \in ToSet(code[j].in) \cap ToSet(code[i].out) :
     \A k \in i + 1 .. j - 1 : ~ Contains(code[k].out, r)

(* Fault: no edge from a load to a later store.                             *)
ByMemoryLoadsOnly(code, i, j) ==
  /\ code[i].op = "stm" /\ code[j].op = "ldm" /\ MemCell(code[i]) = MemCell(code[j])
  /\ ~ \E k \in i + 1 .. j - 1 : code[k].op = "stm" /\ MemCell(code[k]) = MemCell(code[j])

(* j accesses a cell after i has, one of them reads and the other writes,   *)
(* and i is in the last run of its kind before j.  Two accesses of the same *)
(* kind, two writes among them, are not ordered.                            *)
ByMemory(code, i, j) ==
  LET same(k, l) == MemOp(code[k]) /\ MemOp(code[l]) /\ MemCell(code[k]) = MemCell(code[l])
  IN /\ same(i, j) /\ code[i].op # code[j].op
     /\ ~ \E k \in i + 1 .. j - 1, l \in i + 2 .. j - 1 :
            k < l /\ same(k, j) /\ code[k].op = code[j].op
                  /\ same(l, j) /\ code[l].op = code[i].op

ByOrder(code, i, j) ==
  LET last(T(_)) == T(code[i]) /\ \A k \in i + 1 .. j - 1 : ~ T(code[k])
      key == OrderKey(code[j])
  IN \/ key # <<>> /\ last(LAMBDA x : OrderKey(x) = key)
     \/ key # <<>> /\ Head(key) = "stopinput"
        /\ last(LAMBDA x : OrderKey(x) = <<"startinput", code[j].f, code[j].p>>)
     \/ code[j].op = "stopopen" /\ IsOpen(code[i]) /\ StopOf(code, i) = j

(* The graph: the successors of every node, in the order of their edges.    *)
DependencyGraph(code) ==
  Table(code, LAMBDA i : SelectSeq(Nodes(code), LAMBDA j :
    i < j /\ (ByRegister(code, i, j) \/ ByMemory(code, i, j) \/ ByOrder(code, i, j))))
Preds(g, n) == {m \in DOMAIN g : Contains(g[m], n)}

(* The depth of every node: an opening is one round later than what it      *)
(* needs, in the first round that has openings of its own field only and,   *)
(* with a limit, from there the first that is not full.                     *)
Depths(code, g, limit) ==
  LET rounds == 1 .. Len(code) + 1
      below(d, n) == Max({0} \cup {d[m] : m \in Preds(g, n)})
      place(st, n) ==
        IF ~ IsOpen(code[n]) THEN [st EXCEPT !.d = Append(@, below(st.d, n))] ELSE
        LET own == Min({r \in rounds : r > below(st.d, n) /\ st.field[r] \in {"", code[n].f}})
            free == Min({r \in rounds : r >= own /\ (limit = 0 \/ st.load[r] < limit)})
        IN [d |-> Append(st.d, free), field |-> [st.field EXCEPT ![own] = code[n].f],
            load |-> [st.load EXCEPT ![free] = @ + Len(code[n].in)]]
  IN Accumulate(place, [d |-> <<>>, field |-> [r \in rounds |-> ""], load |-> [r \in rounds |-> 0]],
              Nodes(code)).d

-----------------------------------------------------------------------------
(* The state of merging: the graph and the instructions left.               *)
AddEdge(g, i, j) == IF Contains(g[i], j) THEN g ELSE [g EXCEPT ![i] = Append(@, j)]
RemoveNode(g, i) == Table(g, LAMBDA n : IF n = i THEN <<>> ELSE Remove(g[n], i))

(* eliminate_dead_code: from the end, what has results and no successors,   *)
(* and openings of which the result has gone.                               *)
Eliminated(code, g) ==
  LET dead(st, n) ==
        LET x == st.code[n]
            unused == st.g[n] = <<>> /\ x.out # <<>>
                        /\ x.op \notin {"input", "startinput", "stopinput"}
            halved == IsOpen(x) /\ st.code[StopOf(code, n)] = Nothing
        IN IF unused \/ halved THEN [g |-> RemoveNode(st.g, n), code |-> [st.code EXCEPT ![n] = Nothing]]
                               ELSE st
  IN Accumulate(dead, [g |-> g, code |-> code], Reverse(Nodes(code)))

(* merge_nodes and do_merge: all nodes into the first.                      *)
MergeNodes(g, n, i) ==
  LET h == [g EXCEPT ![n] = Remove(@, i), ![i] = Remove(@, n)]
      out == Accumulate(LAMBDA x, k : AddEdge(x, n, k), h, h[i])
  IN RemoveNode(Accumulate(LAMBDA x, k : AddEdge(x, k, n), out, Ascending(g, Preds(h, i))), i)

DoMerge(st, nodes) ==
  LET n == nodes[1]
      join(s, i) ==
        [s EXCEPT !.g = MergeNodes(@, n, i),
                  !.code = [@ EXCEPT ![i] = Nothing,
                                     ![n] = [@ EXCEPT !.n = @ + s.code[i].n, !.in = @ \o s.code[i].in,
                                                      !.out = @ \o s.code[i].out]]]
  IN IF nodes = <<>> THEN st ELSE Accumulate(join, st, Tail(nodes))

First(nodes) == IF nodes = <<>> THEN 0 ELSE nodes[1]

(* The openings of a round, of GF(p) first, and the edges that keep starts  *)
(* and stops in order over the fields and over the rounds.                  *)
Chain(g, last, p, two) ==
  LET h == IF p # 0 /\ two # 0 THEN AddEdge(g, p, two) ELSE g
  IN IF last = 0 THEN h ELSE AddEdge(h, last, IF p = 0 THEN two ELSE p)

MergeStartsAndStops(st, starts, stops) ==
  LET end(nodes) == IF nodes["2"] = <<>> THEN nodes["p"][1] ELSE nodes["2"][1]
      chained(g, last, nodes) == Chain(g, last, First(nodes["p"]), First(nodes["2"]))
  IN [Accumulate(DoMerge, st, <<starts["p"], stops["p"], starts["2"], stops["2"]>>)
        EXCEPT !.g = chained(chained(@, st.start, starts), st.stop, stops),
               !.start = end(starts), !.stop = end(stops), !.merges = Append(@, end(starts))]

StopsOf(source, starts) ==
  [f \in Field |-> Ascending(source, {StopOf(source, n) : n \in ToSet(starts[f])})]
MergeOpens(st, source, starts) == MergeStartsAndStops(st, starts, StopsOf(source, starts))
MergeRound(st, source, round) ==
  MergeOpens(st, source, [f \in Field |->
    SelectSeq(Nodes(source), LAMBDA n : /\ st.code[n].op = "startopen"
                                        /\ st.d[n] = round /\ st.code[n].f = f)])

(* merge_inputs: those of a player and class, in groups of `limit`.         *)
MergeInputs(st, limit) ==
  LET class(n) == SelectSeq(Nodes(st.code), LAMBDA m : OrderKey(st.code[m]) = OrderKey(st.code[n]))
      size(nodes) == IF limit = 0 THEN Len(nodes) ELSE limit
      group(nodes, k) == IF k % size(nodes) # 0 THEN <<>>
                         ELSE SubSeq(nodes, k + 1, Min({k + size(nodes), Len(nodes)}))
      from(nodes, n) == group(nodes, SelectInSeq(nodes, LAMBDA m : m = n) - 1)
      inputs == SelectSeq(Nodes(st.code), LAMBDA n : IsRawInput(st.code[n]))
  IN Accumulate(LAMBDA s, n : DoMerge(s, from(class(n), n)), st, inputs)

-----------------------------------------------------------------------------
(* The sort: depth-first, the last edge first, from the nodes of a          *)
(* pre-order; the result is the nodes by falling time of completion.        *)
RECURSIVE Explore(_, _, _)
Explore(g, done, n) ==
  IF Contains(done, n) THEN done
  ELSE Append(Accumulate(LAMBDA d, k : Explore(g, d, k), done, Reverse(g[n])), n)

TopologicalSort(g, preorder) ==
  Reverse(Accumulate(LAMBDA d, n : Explore(g, d, n), <<>>, preorder))

(* compute_max_depths: the last round in which a node can be placed.        *)
MaxDepths(st) ==
  LET end == Max(ToSet(st.d))
      place(m, n) == [m EXCEPT ![n] = IF IsOpen(st.code[n]) THEN st.d[n] - 1
                                      ELSE Min({end} \cup {m[k] : k \in ToSet(st.g[n])})]
  IN Accumulate(place, st.d, Reverse(TopologicalSort(st.g, Nodes(st.d))))

(* compute_preorder: inputs that start, sources, inputs that stop, then for *)
(* each round the opening's start, what may be done meanwhile, its stop;    *)
(* all in reverse.                                                          *)
Flexible(st, last) ==
  {n \in DOMAIN st.code : /\ st.code[n] # Nothing /\ ~ IsOpen(st.code[n])
                          /\ st.d[n] # last[n] /\ st.g[n] # <<>>
                          /\ st.code[n].op # "stopopen" /\ ~ IsRawInput(st.code[n])}

PreorderOfRounds(st, source, last, flexible) ==
  LET flex(from, to) == Ascending(source, {n \in flexible : st.d[n] = from /\ last[n] = to})
      round(i) == <<StopOf(source, st.merges[i])>>
                    \o FlattenSeq([r \in 1 .. Max(ToSet(st.d)) + 1 |-> flex(i - 1, r - 1)])
                    \o flex(0, i) \o <<st.merges[i]>>
  IN FlattenSeq(Reverse([i \in DOMAIN st.merges |-> round(i)]))

PreorderOfStart(st, source, flexible) ==
  LET left == {n \in DOMAIN st.code : st.code[n] # Nothing}
      starters == {n \in left \ flexible : Preds(st.g, n) = {} /\ ~ IsRawInput(st.code[n])}
      inputs(p) == Ascending(source, {n \in left : IsRawInput(st.code[n]) /\ st.code[n].p = p})
      nth(k) == FlattenSeq([q \in 1 .. N |-> SubSeq(inputs(q - 1), k, Min({k, Len(inputs(q - 1))}))])
  IN Reverse(FlattenSeq([k \in 1 .. Len(source) |-> nth(k + 1)]))
       \o Ascending(source, starters) \o nth(1)

Preorder(st, source, last, flexible) ==
  PreorderOfRounds(st, source, last, flexible) \o PreorderOfStart(st, source, flexible)
PreorderBy(st, source, last) == Preorder(st, source, last, Flexible(st, last))

(* Without openings: compute_continuous_preorder, of which one round is     *)
(* left; that is not round 0 if openings have been eliminated.              *)
PreorderOfInputs(st, source, sources) ==
  LET those(op) == Reverse(Fifo(st.code, op))
      round0 == \A n \in DOMAIN source : ~ IsOpen(source[n])
  IN (IF round0 THEN those("stopinput") \o sources ELSE sources \o those("stopinput"))
       \o those("startinput")

(* longest_paths_merge of a block, from the graph to the code.              *)
Prepared(source, opt, graph) ==
  [d |-> Depths(source, graph, opt.limit), start |-> 0, stop |-> 0, merges |-> <<>>,
   sources |-> Reverse(Ascending(source, {n \in DOMAIN source : Preds(graph, n) = {}}))]
    @@ (IF opt.dead THEN Eliminated(source, graph) ELSE [g |-> graph, code |-> source])

Joined(source, opt, st) ==
  MergeInputs(Accumulate(LAMBDA s, r : MergeRound(s, source, r), st,
                Ascending(source, {st.d[n] : n \in {m \in DOMAIN source : IsOpen(st.code[m])}})),
              opt.limit)

Sorted(source, opt, st) ==
  TopologicalSort(st.g, CASE ~ opt.reorder -> Nodes(source)
                          [] opt.reorder /\ st.merges = <<>> -> PreorderOfInputs(st, source, st.sources)
                          [] OTHER -> PreorderBy(st, source, MaxDepths(st)))

Ordered(source, opt, st) ==
  LET order == Sorted(source, opt, st) IN [k \in DOMAIN order |-> st.code[order[k]]]

Linearised(source, opt, st) ==
  IF opt.merge /\ \E n \in DOMAIN source : IsRawInput(source[n]) \/ IsOpen(st.code[n])
  THEN Ordered(source, opt, Joined(source, opt, st))
  ELSE st.code

Merged(source, opt) ==
  SelectSeq(Linearised(source, opt, Prepared(source, opt, DependencyGraph(source))),
            LAMBDA x : x # Nothing)

-----------------------------------------------------------------------------
(* StraightlineAllocator: from the last instruction to the first, a         *)
(* register is taken when it is first met and is free again above the       *)
(* instruction that writes it.  `at` is where a register of the block is.   *)
Allocated(code) ==
  LET kinds == {[kind |-> k, f |-> f] : k \in {"c", "s"}, f \in Field}
      kind(r) == [kind |-> r.kind, f |-> r.f]
      take(st, r) ==
        IF r \in DOMAIN st.at THEN st
        ELSE IF st.free[kind(r)] # {}
             THEN LET i == CHOOSE i \in st.free[kind(r)] : TRUE
                  IN [st EXCEPT !.free[kind(r)] = @ \ {i}, !.at = @ @@ (r :> i)]
             ELSE [st EXCEPT !.used[kind(r)] = @ + 1, !.at = @ @@ (r :> st.used[kind(r)])]
      give(st, r) == [st EXCEPT !.free[kind(r)] = @ \cup {st.at[r]}]
      process(st, x) == Accumulate(give, Accumulate(take, st, x.out \o x.in), x.out)
      end == Accumulate(process, [at |-> [r \in {} |-> 0], free |-> [k \in kinds |-> {}],
                                used |-> [k \in kinds |-> 0]], Reverse(code))
      place(regs) == [i \in DOMAIN regs |-> [regs[i] EXCEPT !.i = end.at[regs[i]]]]
  IN [n \in DOMAIN code |-> [code[n] EXCEPT !.out = place(@), !.in = place(@)]]

Compiled(source, opt) == Allocated(Merged(source, opt))
=============================================================================
