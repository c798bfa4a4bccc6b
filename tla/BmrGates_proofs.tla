--------------------------- MODULE BmrGates_proofs ---------------------------
(* For every number of parties, every set of wires and every set of        *)
(* well-formed tapes: each stream between the executions holds, at any time,*)
(* exactly what its reader has yet to read; every party's labels fit the    *)
(* trusted party's keys, so that it decrypts, and every party computes the  *)
(* plain circuit.                                                           *)
EXTENDS BmrGates, SequenceFacts, SequenceTheorems, FiniteSetTheorems

-----------------------------------------------------------------------------
(* What one execution stores for each position of tape t, and another       *)
(* loads there; K and M are the trusted party's keys and masks per position.*)

(* The pieces of a stream for the positions from a to before b.             *)
Stream(f, a, b) == FlattenSeq([m \in 1 .. b - a |-> f[a + m - 1]])

Drawn == {"and", "input", "random"}

(* Only what an entry stores.                                               *)
Store(c, s) == IF c THEN s ELSE <<>>

(* The keys that RandomRegister sends party i.                              *)
KeyPiece(e, k, i) ==
  Store(e.op \in Drawn, <<k[i], Add(k[i], Delta(i))>> \o Store(e.op = "random", k))
SentKeys(t, K, i) == [p \in DOMAIN t |-> KeyPiece(t[p], K[p + 1][t[p].out], i)]

(* The masks it sends party i.                                              *)
SentInputMasks(t, M, i) ==
  [p \in DOMAIN t |-> Store(t[p].op = "input" /\ t[p].i = i, <<M[p + 1][t[p].out]>>)]
SentOutputMasks(t, M) ==
  [p \in DOMAIN t |-> Store(t[p].op = "reveal", <<M[p][t[p].left]>>)]

(* The wires it keeps for GarbleRegister.                                   *)
StoredWire(m, k) == <<[mask |-> m, key |-> k]>>
StoredWires(t, K, M) ==
  [p \in DOMAIN t |-> Store(t[p].op \in Drawn \cup {"public"},
                            StoredWire(M[p + 1][t[p].out], K[p + 1][t[p].out]))]

(* The wires that PRFRegister of party i keeps for EvalRegister.            *)
WirePiece(e, k, l, i) ==
  Store(e.op \in {"input", "random"}, <<k[i]>> \o Store(e.op = "random", k))
    \o Store(e.op = "reveal", <<l[i]>>)
KeptWires(t, K, i) ==
  [p \in DOMAIN t |-> WirePiece(t[p], K[p + 1][t[p].out], K[p][t[p].left], i)]

(* The number of gates before position p.                                   *)
Ands(t, p) == Cardinality({q \in 1 .. p - 1 : t[q].op = "and"})

(* The function values of party i for the gate at p: of both its keys s of  *)
(* both inputs, for both extensions.                                        *)
TuplesOf(s, e, i, g) ==
  [j \in Party |-> [side \in {"left", "right"} |-> [b \in BOOLEAN |-> [ext \in BOOLEAN |->
     F(Add(s[e[side]], DeltaIf(i, b)), ext, g, j)]]]]
Tuples(t, K, i, p) == TuplesOf([r \in Reg |-> K[p + 1][r][i]], t[p], i, Ands(t, p) + 1)
SentTuples(t, K, i) ==
  [p \in DOMAIN t |-> Store(t[p].op = "and", <<Tuples(t, K, i, p)>>)]

(* The gate at p: every entry is the label it stands for, hidden by the      *)
(* function values of all parties.                                          *)
Hidden(l, r, g, j, x, y) ==
  AddAll([i \in Party |-> Add(F(Add(l[i], DeltaIf(i, x)), y, g, j), F(Add(r[i], DeltaIf(i, y)), x, g, j))])
OutBit(x, y, m, lm, rm) == ((x # lm) /\ (y # rm)) # m
GateAt(t, K, M, p) ==
  [x \in BOOLEAN |-> [y \in BOOLEAN |-> [j \in Party |->
     Add(Hidden(K[p + 1][t[p].left], K[p + 1][t[p].right], Ands(t, p) + 1, j, x, y),
         Add(K[p + 1][t[p].out][j],
             DeltaIf(j, OutBit(x, y, M[p + 1][t[p].out], M[p + 1][t[p].left], M[p + 1][t[p].right]))))]]]
SentGates(t, K, M) ==
  [p \in DOMAIN t |-> Store(t[p].op = "and", <<GateAt(t, K, M, p)>>)]

(* What EvalRegister of party j sends for an input: the external bit if it  *)
(* is its own, and its label.  A party that has begun the input at `begun`   *)
(* has taken the external bit of it: only the label is left.                *)
External(t, M, p) == M[p + 1][t[p].out] # t[p].val
LabelAt(t, K, M, p, j) == Add(K[p + 1][t[p].out][j], DeltaIf(j, External(t, M, p)))
ExternalMsg(t, M, p) == << <<"external", External(t, M, p)>> >>
LabelMsg(t, K, M, p, j) == << <<"label", LabelAt(t, K, M, p, j)>> >>
SentLabels(t, K, M, j, begun) ==
  [p \in DOMAIN t |->
     Store(t[p].op = "input",
           Store(t[p].i = j /\ p # begun, ExternalMsg(t, M, p))
             \o LabelMsg(t, K, M, p, j))]

-----------------------------------------------------------------------------
(* The inductive invariant.                                                 *)

(* EvalRegister has done the input it waits for, but for the labels.        *)
Reached(i) == IF waiting[i] THEN epc[i] + 1 ELSE epc[i]

Positions == 1 .. Len(tape) + 1

(* The executions follow one another; only an input waits.                  *)
Places ==
  /\ tape \in Tapes
  /\ rpc \in Positions /\ gpc \in Positions
  /\ ppc \in [Party -> Positions] /\ epc \in [Party -> Positions]
  /\ waiting \in [Party -> BOOLEAN]
  /\ \A i \in Party : ppc[i] # 1 => Ended(rpc)
  /\ gpc # 1 => Ended(rpc) /\ \A i \in Party : Ended(ppc[i])
  /\ \A i \in Party : epc[i] # 1 \/ waiting[i] =>
       Ended(gpc) /\ Ended(rpc) /\ \A j \in Party : Ended(ppc[j])
  /\ \A i \in Party : waiting[i] => ~ Ended(epc[i]) /\ tape[epc[i]].op = "input"

(* Something for every party.                                               *)
PerParty(f) == DOMAIN f = Party /\ f = [i \in Party |-> f[i]]

Types ==
  /\ DOMAIN hkey = Positions /\ hmask \in [Positions -> [Reg -> BOOLEAN]]
  /\ \A p \in Positions : DOMAIN hkey[p] = Reg /\ \A r \in Reg : PerParty(hkey[p][r])
  /\ drawn \in Nat
  /\ PerParty(pkey) /\ \A i \in Party : pkey[i] = [r \in Reg |-> pkey[i][r]]
  /\ external \in [Party -> [Reg -> BOOLEAN]]
  /\ PerParty(entry)
  /\ \A i \in Party : DOMAIN entry[i] = Reg /\ \A r \in Reg : PerParty(entry[i][r])
  /\ PerParty(msg_keys) /\ PerParty(msg_input_masks) /\ PerParty(msg_output_masks)
  /\ PerParty(prf_outputs) /\ PerParty(wires) /\ PerParty(gates)
  /\ PerParty(outputs) /\ PerParty(net) /\ \A j \in Party : PerParty(net[j])
  /\ PerParty(gate_counter) /\ PerParty(gate_counter2)

(* How RandomRegister changed the wires at position p.                      *)
RandomRule(e, k, nk, m, nm) ==
  /\ e.op = "reveal" => nk = k /\ nm = m
  /\ e.op # "reveal" => \A r \in Reg \ {e.out} : nk[r] = k[r] /\ nm[r] = m[r]
  /\ e.op = "public" => nk[e.out] = [i \in Party |-> DeltaIf(i, e.val)] /\ nm[e.out] = FALSE
  /\ e.op = "xor" => /\ nk[e.out] = AddEach(k[e.left], k[e.right])
                     /\ nm[e.out] = (m[e.left] # m[e.right])
  /\ e.op \in Drawn => \A i \in Party : ~ Signal(i, nk[e.out][i])

History ==
  /\ rkey = hkey[rpc] /\ rmask = hmask[rpc] /\ gmask = hmask[gpc]
  /\ \A p \in 1 .. rpc - 1 : RandomRule(tape[p], hkey[p], hkey[p + 1], hmask[p], hmask[p + 1])
  /\ \A i \in Party : \A r \in Reg : pkey[i][r] = hkey[ppc[i]][r][i]
  /\ \A i \in Party : gate_counter[i] = Ands(tape, ppc[i]) /\ gate_counter2[i] = Ands(tape, epc[i])

Streams ==
  /\ twires = Stream(StoredWires(tape, hkey, hmask), gpc, rpc)
  /\ circuit = Stream(SentGates(tape, hkey, hmask), 1, gpc)
  /\ \A i \in Party :
       /\ msg_keys[i] = Stream(SentKeys(tape, hkey, i), ppc[i], rpc)
       /\ msg_input_masks[i] = Stream(SentInputMasks(tape, hmask, i), Reached(i), rpc)
       /\ msg_output_masks[i] = Stream(SentOutputMasks(tape, hmask), Reached(i), rpc)
       /\ prf_outputs[i] = Stream(SentTuples(tape, hkey, i), gpc, ppc[i])
       /\ wires[i] = Stream(KeptWires(tape, hkey, i), Reached(i), ppc[i])
       /\ gates[i] = Store(Ended(gpc), Stream(SentGates(tape, hkey, hmask), Reached(i), gpc))

(* The position of the input it waits for, if any.                          *)
BegunAt(k) == IF waiting[k] THEN epc[k] ELSE 0

Messages ==
  \A j, k \in Party :
    IF j = k THEN net[j][k] = <<>>
    ELSE /\ net[j][k] = Stream(SentLabels(tape, hkey, hmask, j, BegunAt(k)), epc[k], Reached(j))
         /\ waiting[k] /\ tape[epc[k]].i = j => Reached(j) > epc[k]
         /\ \A p \in Reached(j) .. epc[k] - 1 : tape[p].op # "input"

(* The input that party i waits for.                                        *)
Begun(i) ==
  waiting[i] =>
    LET p == epc[i] r == tape[p].out
    IN /\ external[i][r] = External(tape, hmask, p)
       /\ entry[i][r][i] = LabelAt(tape, hkey, hmask, p, i)

IInv == Places /\ Types /\ History /\ Streams /\ Messages /\ LabelsFit /\ \A i \in Party : Begun(i)
-----------------------------------------------------------------------------
(* The pieces of a stream are sequences.                                    *)
Pieces(f, a, b) == \A p \in a .. b - 1 : IsSeq(f[p])

(* The list of the pieces.                                                  *)
LEMMA PiecesAre ==
  ASSUME NEW f, NEW a \in Int, NEW b \in Int, Pieces(f, a, b), a <= b
  PROVE  /\ AreSeqs([m \in 1 .. b - a |-> f[a + m - 1]])
         /\ Len([m \in 1 .. b - a |-> f[a + m - 1]]) = b - a
<1>1. PICK n : n = b - a /\ n \in Nat
  OBVIOUS
<1>2. PICK s : s = [m \in 1 .. n |-> f[a + m - 1]]
  OBVIOUS
<1>3. DOMAIN s = 1 .. n /\ s = [m \in 1 .. n |-> s[m]]
  BY <1>2
<1>4. IsSeq(s) /\ Len(s) = n
  BY <1>1, <1>3, IsSeqOf
<1>5. ASSUME NEW m \in 1 .. n PROVE IsSeq(s[m])
  <2>1. PICK p : p = a + m - 1
    OBVIOUS
  <2>2. p \in a .. b - 1 /\ s[m] = f[p]
    BY <1>1, <1>2, <2>1
  <2> QED BY <2>2 DEF Pieces
<1> QED BY <1>1, <1>2, <1>4, <1>5 DEF AreSeqs

(* A stream is a sequence; without pieces it is empty.                      *)
LEMMA StreamFacts ==
  ASSUME NEW f, NEW a \in Int, NEW b \in Int, Pieces(f, a, b)
  PROVE  IsSeq(Stream(f, a, b)) /\ (b <= a => Stream(f, a, b) = <<>>)
<1>1. ASSUME b <= a PROVE Stream(f, a, b) = <<>>
  <2>1. 1 .. b - a = 1 .. 0
    BY <1>1
  <2>2. PICK s : s = [m \in 1 .. b - a |-> f[a + m - 1]]
    OBVIOUS
  <2>3. DOMAIN s = 1 .. 0 /\ s = [m \in 1 .. 0 |-> s[m]]
    BY <2>1, <2>2
  <2>4. IsSeq(s) /\ Len(s) = 0
    BY <2>3, IsSeqOf
  <2>5. s = <<>>
    BY <2>4, LengthFacts
  <2>6. Stream(f, a, b) = FlattenSeq(s)
    BY <2>2 DEF Stream
  <2> QED BY <2>5, <2>6, FlattenEmpty
<1>2. ASSUME ~ (b <= a) PROVE IsSeq(Stream(f, a, b))
  BY <1>2, PiecesAre, FlattenIsSeq DEF Stream
<1> QED BY <1>1, <1>2, EmptyFacts

(* Streams of the same pieces are the same.                                 *)
LEMMA StreamSame ==
  ASSUME NEW f, NEW g, NEW a \in Int, NEW b \in Int, \A p \in a .. b - 1 : f[p] = g[p]
  PROVE  Stream(f, a, b) = Stream(g, a, b)
<1>1. ASSUME NEW m \in 1 .. b - a PROVE f[a + m - 1] = g[a + m - 1]
  <2>1. a + m - 1 \in a .. b - 1
    OBVIOUS
  <2> QED BY <2>1
<1>2. [m \in 1 .. b - a |-> f[a + m - 1]] = [m \in 1 .. b - a |-> g[a + m - 1]]
  BY <1>1
<1> QED BY <1>2 DEF Stream

(* The writer appends the piece of its position.                            *)
LEMMA StreamWrite ==
  ASSUME NEW f, NEW a \in Int, NEW b \in Int, Pieces(f, a, b + 1), a <= b
  PROVE  /\ Stream(f, a, b + 1) = Cat(Stream(f, a, b), f[b])
         /\ IsSeq(f[b]) /\ IsSeq(Stream(f, a, b))
<1>1. b \in a .. b + 1 - 1 /\ a .. b - 1 \subseteq a .. b + 1 - 1
  OBVIOUS
<1>2. Pieces(f, a, b) /\ IsSeq(f[b])
  BY <1>1 DEF Pieces
<1>3. PICK n : n = b - a /\ n \in Nat /\ b + 1 - a = n + 1
  OBVIOUS
<1>4. PICK s : s = [m \in 1 .. n |-> f[a + m - 1]]
  OBVIOUS
<1>5. AreSeqs(s) /\ Len(s) = n
  BY <1>2, <1>3, <1>4, PiecesAre
<1>6. PICK t : t = [m \in 1 .. n + 1 |-> f[a + m - 1]]
  OBVIOUS
<1>7. PICK u : u = Append(s, f[b])
  OBVIOUS
<1>8. t = u
  <2>1. DOMAIN t = 1 .. n + 1 /\ t = [m \in 1 .. n + 1 |-> t[m]] /\ n + 1 \in Nat
    BY <1>3, <1>6
  <2>2. IsSeq(t) /\ Len(t) = n + 1
    BY <2>1, IsSeqOf
  <2>3. IsSeq(s)
    BY <1>5 DEF AreSeqs
  <2>4. IsSeq(u) /\ Len(u) = n + 1 /\ u[n + 1] = f[b] /\ \A m \in 1 .. n : u[m] = s[m]
    BY <1>5, <1>7, <2>3, AppendFacts
  <2>5. ASSUME NEW m \in 1 .. n + 1 PROVE t[m] = u[m]
    <3>1. CASE m = n + 1
      <4>1. a + m - 1 = b
        BY <1>3, <3>1
      <4> QED BY <1>6, <2>4, <3>1, <4>1
    <3>2. CASE m # n + 1
      <4>1. m \in 1 .. n
        BY <1>3, <3>2
      <4> QED BY <1>4, <1>6, <2>4, <4>1
    <3> QED BY <3>1, <3>2
  <2> QED BY <2>2, <2>4, <2>5, SameSeq
<1>9. FlattenSeq(u) = FlattenSeq(s) \o f[b]
  BY <1>2, <1>5, <1>7, FlattenAppend
<1>10. IsSeq(Stream(f, a, b))
  BY <1>2, StreamFacts
<1>11. Stream(f, a, b) = FlattenSeq(s)
  BY <1>3, <1>4 DEF Stream
<1>12. Stream(f, a, b + 1) = FlattenSeq(t)
  BY <1>3, <1>6 DEF Stream
<1> QED BY <1>2, <1>8, <1>9, <1>10, <1>11, <1>12 DEF Cat

(* The reader takes the piece of its position.                              *)
LEMMA StreamRead ==
  ASSUME NEW f, NEW a \in Int, NEW b \in Int, Pieces(f, a, b), a < b
  PROVE  /\ Stream(f, a, b) = Cat(f[a], Stream(f, a + 1, b))
         /\ IsSeq(f[a]) /\ IsSeq(Stream(f, a + 1, b))
<1>1. a \in a .. b - 1 /\ a + 1 .. b - 1 \subseteq a .. b - 1
  OBVIOUS
<1>2. Pieces(f, a + 1, b) /\ IsSeq(f[a])
  BY <1>1 DEF Pieces
<1>3. PICK n : n = b - a /\ n \in Nat /\ n # 0 /\ b - (a + 1) = n - 1 /\ n - 1 \in Nat
  OBVIOUS
<1>4. PICK s : s = [m \in 1 .. n |-> f[a + m - 1]]
  OBVIOUS
<1>5. AreSeqs(s) /\ Len(s) = n
  BY <1>3, <1>4, PiecesAre
<1>6. PICK t : t = [m \in 1 .. n - 1 |-> f[a + 1 + m - 1]]
  OBVIOUS
<1>7. AreSeqs(t) /\ Len(t) = n - 1
  <2>1. a + 1 \in Int /\ a + 1 <= b
    OBVIOUS
  <2> QED BY <1>2, <1>3, <1>6, <2>1, PiecesAre
<1>8. IsSeq(s) /\ IsSeq(t) /\ s # <<>>
  BY <1>3, <1>5, <1>7, LengthFacts DEF AreSeqs
<1>9. /\ IsSeq(Tail(s)) /\ Len(Tail(s)) = n - 1 /\ Head(s) = s[1]
      /\ \A m \in 1 .. n - 1 : Tail(s)[m] = s[m + 1]
  BY <1>5, <1>8, TailFacts
<1>10. Tail(s) = t
  <2>1. ASSUME NEW m \in 1 .. n - 1 PROVE Tail(s)[m] = t[m]
    <3>1. m + 1 \in 1 .. n /\ a + (m + 1) - 1 = a + 1 + m - 1
      BY <1>3
    <3>2. s[m + 1] = f[a + (m + 1) - 1]
      BY <1>4, <3>1
    <3> QED BY <1>6, <1>9, <3>1, <3>2
  <2> QED BY <1>7, <1>8, <1>9, <2>1, SameSeq
<1>11. Head(s) = f[a]
  <2>1. 1 \in 1 .. n /\ a + 1 - 1 = a
    BY <1>3
  <2> QED BY <1>4, <1>9, <2>1
<1>12. FlattenSeq(s) = Head(s) \o FlattenSeq(Tail(s))
  BY <1>5, <1>8, FlattenTail
<1>13. IsSeq(Stream(f, a + 1, b))
  BY <1>2, StreamFacts
<1>14. Stream(f, a, b) = FlattenSeq(s)
  BY <1>3, <1>4 DEF Stream
<1>15. Stream(f, a + 1, b) = FlattenSeq(t)
  BY <1>3, <1>6 DEF Stream
<1> QED BY <1>2, <1>10, <1>11, <1>12, <1>13, <1>14, <1>15 DEF Cat

(* The writer's step when the pieces before its position stay as they were. *)
LEMMA StreamWritten ==
  ASSUME NEW f, NEW g, NEW a \in Int, NEW b \in Int, Pieces(g, a, b + 1), a <= b,
         \A p \in a .. b - 1 : f[p] = g[p]
  PROVE  /\ Stream(g, a, b + 1) = Cat(Stream(f, a, b), g[b])
         /\ IsSeq(g[b]) /\ IsSeq(Stream(f, a, b))
<1>1. Stream(f, a, b) = Stream(g, a, b)
  BY StreamSame
<1> QED BY <1>1, StreamWrite

(* Nothing written, nothing read.                                           *)
LEMMA StreamIdle ==
  ASSUME NEW f, NEW a \in Int, NEW b \in Int, Pieces(f, a, b + 1)
  PROVE  /\ f[b] = <<>> => Stream(f, a, b + 1) = Stream(f, a, b)
         /\ a < b /\ f[a] = <<>> => Stream(f, a + 1, b) = Stream(f, a, b)
<1>0. Pieces(f, a, b)
  <2>1. a .. b - 1 \subseteq a .. b + 1 - 1
    OBVIOUS
  <2> QED BY <2>1 DEF Pieces
<1>1. ASSUME f[b] = <<>>, a <= b PROVE Stream(f, a, b + 1) = Stream(f, a, b)
  <2>1. Stream(f, a, b + 1) = Cat(Stream(f, a, b), f[b]) /\ IsSeq(Stream(f, a, b))
    BY <1>1, StreamWrite
  <2> QED BY <1>1, <2>1, CatEmpty
<1>2. ASSUME ~ (a <= b) PROVE Stream(f, a, b + 1) = Stream(f, a, b)
  <2>1. b + 1 \in Int /\ b + 1 <= a /\ b <= a
    BY <1>2
  <2> QED BY <1>0, <2>1, StreamFacts
<1>3. ASSUME a < b, f[a] = <<>> PROVE Stream(f, a + 1, b) = Stream(f, a, b)
  <2>1. Stream(f, a, b) = Cat(f[a], Stream(f, a + 1, b)) /\ IsSeq(Stream(f, a + 1, b))
    BY <1>0, <1>3, StreamRead
  <2> QED BY <1>3, <2>1, CatEmpty
<1> QED BY <1>1, <1>2, <1>3

-----------------------------------------------------------------------------
(* Cutting sequences.                                                       *)

(* The part of a sequence between two others.                               *)
LEMMA Middle ==
  ASSUME NEW a, NEW b, NEW c, IsSeq(a), IsSeq(b), IsSeq(c)
  PROVE  /\ SubSeq(Cat(a, Cat(b, c)), Len(a) + 1, Len(a) + Len(b)) = b
         /\ Len(a) \in Nat /\ Len(b) \in Nat
<1>1. PICK d : d = Cat(b, c)
  OBVIOUS
<1>2. PICK s : s = Cat(a, d)
  OBVIOUS
<1>3. IsSeq(d) /\ Len(b) \in Nat /\ Len(d) = Len(b) + Len(c) /\ Len(c) \in Nat
      /\ \A m \in 1 .. Len(b) : d[m] = b[m]
  BY <1>1, CatElements, CatSeq
<1>4. IsSeq(s) /\ Len(a) \in Nat /\ \A m \in 1 .. Len(d) : s[Len(a) + m] = d[m]
  BY <1>2, <1>3, CatElements, CatSeq
<1>5. PICK u, v : u = Len(a) + 1 /\ v = Len(a) + Len(b) /\ u \in Int /\ v \in Int /\ v - u + 1 = Len(b)
  BY <1>3, <1>4
<1>6. PICK S : S = {s[m] : m \in u .. v}
  OBVIOUS
<1>7. PICK r : r = SubSeq(s, u, v)
  OBVIOUS
<1>8. r \in Seq(S) /\ Len(r) = (IF u <= v THEN v - u + 1 ELSE 0) /\ \A m \in 1 .. v - u + 1 : r[m] = s[u + m - 1]
  <2>1. \A m \in u .. v : s[m] \in S
    BY <1>6
  <2> QED BY <1>5, <1>7, <2>1, SubSeqProperties
<1>9. IsSeq(r) /\ Len(r) = Len(b)
  BY <1>3, <1>5, <1>8 DEF IsSeq
<1>10. ASSUME NEW m \in 1 .. Len(b) PROVE r[m] = b[m]
  <2>1. m \in 1 .. v - u + 1 /\ u + m - 1 = Len(a) + m /\ m \in 1 .. Len(d)
    BY <1>3, <1>4, <1>5
  <2>2. r[m] = s[Len(a) + m]
    BY <1>8, <2>1
  <2> QED BY <1>3, <1>4, <2>1, <2>2
<1>11. r = b
  BY <1>9, <1>10, SameSeq
<1> QED BY <1>1, <1>2, <1>3, <1>4, <1>5, <1>7, <1>11

(* What is left of a sequence without its first part.                       *)
LEMMA Rest ==
  ASSUME NEW a, NEW b, IsSeq(a), IsSeq(b)
  PROVE  SubSeq(Cat(a, b), Len(a) + 1, Len(Cat(a, b))) = b /\ Len(a) \in Nat
<1>1. Cat(b, <<>>) = b /\ IsSeq(<<>>)
  BY CatEmpty, EmptyFacts
<1>2. Len(Cat(a, b)) = Len(a) + Len(b)
  BY CatElements
<1>3. SubSeq(Cat(a, Cat(b, <<>>)), Len(a) + 1, Len(a) + Len(b)) = b /\ Len(a) \in Nat
  BY <1>1, Middle
<1> QED BY <1>1, <1>2, <1>3

(* Appending one element.                                                   *)
LEMMA AppendIsCat ==
  ASSUME NEW s, NEW x, IsSeq(s)
  PROVE  Append(s, x) = Cat(s, <<x>>)
<1>1. PICK S : s \in Seq(S)
  BY DEF IsSeq
<1>2. PICK T : T = S \cup {x}
  OBVIOUS
<1>3. s \in Seq(T) /\ x \in T
  BY <1>1, <1>2
<1>4. Append(s, x) = s \o <<x>>
  BY <1>3
<1> QED BY <1>4 DEF Cat

(* Sequences of one and of two elements.                                    *)
LEMMA OneFacts ==
  ASSUME NEW x
  PROVE  IsSeq(<<x>>) /\ Len(<<x>>) = 1 /\ <<x>> # <<>> /\ Head(<<x>>) = x /\ Tail(<<x>>) = <<>>
<1>1. PICK S : S = {x}
  OBVIOUS
<1>2. x \in S
  BY <1>1
<1>3. <<x>> \in Seq(S)
  BY <1>2
<1> QED BY <1>3 DEF IsSeq

LEMMA TwoFacts ==
  ASSUME NEW x, NEW y
  PROVE  /\ IsSeq(<<x, y>>) /\ Len(<<x, y>>) = 2 /\ <<x, y>> # <<>>
         /\ Head(<<x, y>>) = x /\ Tail(<<x, y>>) = <<y>>
         /\ <<x, y>> = Cat(<<x>>, <<y>>)
<1>1. PICK S : S = {x, y}
  OBVIOUS
<1>2. x \in S /\ y \in S
  BY <1>1
<1>3. <<x, y>> \in Seq(S) /\ <<x>> \in Seq(S) /\ <<y>> \in Seq(S)
  BY <1>2
<1>4. IsSeq(<<x, y>>) /\ Len(<<x, y>>) = 2 /\ <<x, y>> # <<>> /\ Head(<<x, y>>) = x /\ Tail(<<x, y>>) = <<y>>
  BY <1>3 DEF IsSeq
<1>5. <<x, y>> = Append(<<x>>, y)
  BY <1>3
<1>6. Append(<<x>>, y) = Cat(<<x>>, <<y>>)
  BY OneFacts, AppendIsCat
<1> QED BY <1>4, <1>5, <1>6

(* The head of a sequence that starts with x, and what comes after it.      *)
LEMMA HeadOfOne ==
  ASSUME NEW x, NEW s, IsSeq(s)
  PROVE  /\ Head(Cat(<<x>>, s)) = x /\ Tail(Cat(<<x>>, s)) = s /\ Cat(<<x>>, s) # <<>>
         /\ IsSeq(Cat(<<x>>, s))
<1>1. IsSeq(<<x>>) /\ <<x>> # <<>> /\ Head(<<x>>) = x /\ Tail(<<x>>) = <<>>
  BY OneFacts
<1>2. Cat(<<x>>, s) # <<>> /\ Head(Cat(<<x>>, s)) = Head(<<x>>) /\ Tail(Cat(<<x>>, s)) = Cat(Tail(<<x>>), s)
  BY <1>1, CatHead
<1>3. IsSeq(Cat(<<x>>, s))
  BY <1>1, CatSeq
<1> QED BY <1>1, <1>2, <1>3, CatEmpty

(* Something for every party is a sequence.                                 *)
LEMMA PartySeq ==
  ASSUME NEW k, PerParty(k)
  PROVE  IsSeq(k) /\ Len(k) = N
<1>1. N \in Nat /\ DOMAIN k = 1 .. N /\ k = [i \in 1 .. N |-> k[i]]
  BY PartiesAssumption DEF PerParty, Party
<1> QED BY <1>1, IsSeqOf

LEMMA EachIs ==
  ASSUME NEW f, NEW k, k = [i \in Party |-> f[i]]
  PROVE  PerParty(k) /\ \A i \in Party : k[i] = f[i]
BY DEF PerParty

(* Only what is stored.                                                     *)
LEMMA StoreFacts ==
  ASSUME NEW c, NEW s, c => IsSeq(s)
  PROVE  IsSeq(Store(c, s)) /\ (c => Store(c, s) = s) /\ (~ c => Store(c, s) = <<>>)
BY EmptyFacts DEF Store

(* The keys sent for an entry, and the wires kept.                          *)
LEMMA KeyPieceFacts ==
  ASSUME NEW e, NEW k, PerParty(k), NEW i
  PROVE  /\ IsSeq(KeyPiece(e, k, i))
         /\ e.op \notin Drawn => KeyPiece(e, k, i) = <<>>
         /\ e.op \in Drawn /\ e.op # "random" => KeyPiece(e, k, i) = <<k[i], Add(k[i], Delta(i))>>
         /\ e.op = "random" => KeyPiece(e, k, i) = Cat(<<k[i], Add(k[i], Delta(i))>>, k)
<1>1. PICK d : d = <<k[i], Add(k[i], Delta(i))>>
  OBVIOUS
<1>2. IsSeq(d) /\ IsSeq(k)
  BY <1>1, TwoFacts, PartySeq
<1>3. PICK s : s = Store(e.op = "random", k)
  OBVIOUS
<1>4. IsSeq(s) /\ (e.op = "random" => s = k) /\ (e.op # "random" => s = <<>>)
  BY <1>2, <1>3, StoreFacts
<1>5. PICK u : u = d \o s
  OBVIOUS
<1>6. IsSeq(u) /\ u = Cat(d, s) /\ (s = <<>> => u = d)
  <2>1. u = Cat(d, s)
    BY <1>5 DEF Cat
  <2> QED BY <1>2, <1>4, <2>1, CatSeq, CatEmpty
<1>7. KeyPiece(e, k, i) = Store(e.op \in Drawn, u)
  BY <1>1, <1>3, <1>5 DEF KeyPiece
<1>8. IsSeq(KeyPiece(e, k, i)) /\ (e.op \in Drawn => KeyPiece(e, k, i) = u) /\ (e.op \notin Drawn => KeyPiece(e, k, i) = <<>>)
  BY <1>6, <1>7, StoreFacts
<1>9. e.op = "random" => e.op \in Drawn
  BY DEF Drawn
<1> QED BY <1>1, <1>4, <1>6, <1>8, <1>9

LEMMA WirePieceFacts ==
  ASSUME NEW e, NEW k, PerParty(k), NEW l, NEW i
  PROVE  /\ IsSeq(WirePiece(e, k, l, i))
         /\ e.op \notin {"input", "random", "reveal"} => WirePiece(e, k, l, i) = <<>>
         /\ e.op = "input" => WirePiece(e, k, l, i) = <<k[i]>>
         /\ e.op = "random" => WirePiece(e, k, l, i) = Cat(<<k[i]>>, k)
         /\ e.op = "reveal" => WirePiece(e, k, l, i) = <<l[i]>>
<1>1. PICK a : a = Store(e.op = "random", k)
  OBVIOUS
<1>2. IsSeq(k)
  BY PartySeq
<1>3. IsSeq(a) /\ (e.op = "random" => a = k) /\ (e.op # "random" => a = <<>>)
  BY <1>1, <1>2, StoreFacts
<1>4. PICK o : o = <<k[i]>> /\ IsSeq(o)
  BY OneFacts
<1>5. PICK u : u = o \o a
  OBVIOUS
<1>6. IsSeq(u) /\ u = Cat(o, a) /\ (a = <<>> => u = o)
  <2>1. u = Cat(o, a)
    BY <1>5 DEF Cat
  <2> QED BY <1>3, <1>4, <2>1, CatSeq, CatEmpty
<1>7. PICK v : v = Store(e.op \in {"input", "random"}, u)
  OBVIOUS
<1>8. IsSeq(v) /\ (e.op \in {"input", "random"} => v = u) /\ (e.op \notin {"input", "random"} => v = <<>>)
  BY <1>6, <1>7, StoreFacts
<1>9. PICK q : q = <<l[i]>> /\ IsSeq(q)
  BY OneFacts
<1>10. PICK w : w = Store(e.op = "reveal", q)
  OBVIOUS
<1>11. IsSeq(w) /\ (e.op = "reveal" => w = q) /\ (e.op # "reveal" => w = <<>>)
  BY <1>9, <1>10, StoreFacts
<1>12. WirePiece(e, k, l, i) = Cat(v, w)
  BY <1>1, <1>4, <1>5, <1>7, <1>9, <1>10 DEF WirePiece, Cat
<1>13. IsSeq(Cat(v, w)) /\ (w = <<>> => Cat(v, w) = v) /\ (v = <<>> => Cat(v, w) = w)
  BY <1>8, <1>11, CatSeq, CatEmpty
<1> QED BY <1>3, <1>4, <1>6, <1>8, <1>9, <1>11, <1>12, <1>13

-----------------------------------------------------------------------------
(* The algebra of keys.                                                     *)

(* Decryption undoes encryption.                                            *)
LEMMA AddCancels ==
  ASSUME NEW a, NEW b
  PROVE  Add(Add(a, b), a) = b
BY DEF Add

(* The key of a public bit and a delta for that bit are the same.           *)
LEMMA AddSelf ==
  ASSUME NEW a
  PROVE  Add(a, a) = {}
BY DEF Add

LEMMA AddZero ==
  ASSUME NEW a, NEW i
  PROVE  Add(a, {}) = a /\ Add(a, DeltaIf(i, FALSE)) = a
BY DEF Add, DeltaIf

(* Free XOR: the labels of two bits add up to the label of their exclusive or.*)
LEMMA AddDeltas ==
  ASSUME NEW i, NEW a, NEW b, NEW x \in BOOLEAN, NEW y \in BOOLEAN
  PROVE  Add(Add(a, DeltaIf(i, x)), Add(b, DeltaIf(i, y))) = Add(Add(a, b), DeltaIf(i, x # y))
<1>1. CASE x /\ y
  BY <1>1 DEF Add, DeltaIf
<1>2. CASE x /\ ~ y
  BY <1>2 DEF Add, DeltaIf
<1>3. CASE ~ x /\ y
  BY <1>3 DEF Add, DeltaIf
<1>4. CASE ~ x /\ ~ y
  BY <1>4 DEF Add, DeltaIf
<1> QED BY <1>1, <1>2, <1>3, <1>4

(* The signal of the label of a bit under a clean key is that bit.          *)
LEMMA SignalOfLabel ==
  ASSUME NEW i, NEW k, ~ Signal(i, k), NEW x \in BOOLEAN
  PROVE  Signal(i, Add(k, DeltaIf(i, x))) <=> x
BY DEF Signal, Add, DeltaIf, Delta

(* Keys that were drawn are clean.                                          *)
LEMMA FreshClean ==
  /\ PerParty(FreshKeys)
  /\ \A i \in Party : ~ Signal(i, FreshKeys[i])
<1>1. PerParty(FreshKeys)
  BY DEF FreshKeys, PerParty
<1>2. ASSUME NEW i \in Party PROVE ~ Signal(i, FreshKeys[i])
  <2>1. FreshKeys[i] = {<<"key", i, drawn + 1>>}
    BY DEF FreshKeys
  <2>2. <<"delta", i>> # <<"key", i, drawn + 1>>
    OBVIOUS
  <2> QED BY <2>1, <2>2 DEF Signal
<1> QED BY <1>1, <1>2

-----------------------------------------------------------------------------
(* Tapes.                                                                   *)

(* The wires written before position p.                                     *)
Known(t, p) == Tape!Defined(PlainTape(t), p)

(* The plain tape reads and writes the same wires.                          *)
LEMMA PlainTapeFacts ==
  ASSUME NEW t \in Tapes, NEW p \in DOMAIN t
  PROVE  /\ DOMAIN PlainTape(t) = DOMAIN t
         /\ PlainTape(t)[p].op = (IF t[p].op = "input" THEN "public" ELSE t[p].op)
         /\ PlainTape(t)[p].out = t[p].out /\ PlainTape(t)[p].left = t[p].left
         /\ PlainTape(t)[p].right = t[p].right /\ PlainTape(t)[p].val = t[p].val
<1>1. t[p] \in Entry
  <2>1. t \in Seq(Entry)
    BY TapesAssumption
  <2> QED BY <2>1
<1>2. PICK e : e = t[p]
  OBVIOUS
<1>3. PICK f : f = [e EXCEPT !.op = "public", !.i = 1]
  OBVIOUS
<1>4. PlainTape(t)[p] = (IF e.op = "input" THEN f ELSE e)
  BY <1>2, <1>3 DEF PlainTape
<1>5. f.op = "public" /\ f.out = e.out /\ f.left = e.left /\ f.right = e.right /\ f.val = e.val
  BY <1>1, <1>2, <1>3 DEF Entry
<1>6. DOMAIN PlainTape(t) = DOMAIN t
  BY DEF PlainTape
<1> QED BY <1>2, <1>4, <1>5, <1>6

(* An entry of a tape.                                                      *)
LEMMA EntryFacts ==
  ASSUME NEW t \in Tapes, NEW p \in DOMAIN t
  PROVE  /\ Len(t) \in Nat /\ DOMAIN t = 1 .. Len(t) /\ p \in Nat /\ p >= 1 /\ p <= Len(t)
         /\ t[p].op \in Op /\ t[p].out \in Reg /\ t[p].left \in Reg /\ t[p].right \in Reg
         /\ t[p].val \in BOOLEAN
         /\ t[p].op = "input" => t[p].i \in Party
<1>1. t \in Seq(Entry) /\ \A q \in DOMAIN t : t[q].op = "input" => t[q].i \in Party
  BY TapesAssumption
<1>2. t[p] \in Entry /\ Len(t) \in Nat /\ DOMAIN t = 1 .. Len(t)
  BY <1>1
<1>3. t[p].op \in Op /\ t[p].out \in Reg /\ t[p].left \in Reg /\ t[p].right \in Reg /\ t[p].val \in BOOLEAN
  BY <1>2 DEF Entry
<1> QED BY <1>1, <1>2, <1>3

(* It reads what was written, and an AND does not write what it reads.      *)
LEMMA ReadsFacts ==
  ASSUME NEW t \in Tapes, NEW p \in DOMAIN t
  PROVE  /\ t[p].op \in {"xor", "and"} => t[p].left \in Known(t, p) /\ t[p].right \in Known(t, p)
         /\ t[p].op = "reveal" => t[p].left \in Known(t, p)
         /\ t[p].op = "and" => t[p].out # t[p].left /\ t[p].out # t[p].right
<1>1. PICK u : u = PlainTape(t)
  OBVIOUS
<1>2. /\ p \in DOMAIN u /\ u[p].op = (IF t[p].op = "input" THEN "public" ELSE t[p].op)
      /\ u[p].out = t[p].out /\ u[p].left = t[p].left /\ u[p].right = t[p].right
  BY <1>1, PlainTapeFacts
<1>3. Tape!WellFormed(u)
  BY <1>1, TapesAssumption
<1>4. Tape!Uses(u[p]) \subseteq Tape!Defined(u, p)
  BY <1>2, <1>3 DEF Tape!WellFormed, Tape!DefinedBeforeUse
<1>5. Tape!SameInstruction(u, p, p) => u[p].out \notin Tape!Uses(u[p])
  BY <1>2, <1>3 DEF Tape!WellFormed, Tape!NoAlias
<1>6. Tape!SameInstruction(u, p, p) <=> u[p].op = "and"
  BY DEF Tape!SameInstruction
<1>7. u[p].op \in {"xor", "and"} => Tape!Uses(u[p]) = {u[p].left, u[p].right}
  BY DEF Tape!Uses
<1>8. u[p].op = "reveal" => Tape!Uses(u[p]) = {u[p].left}
  BY DEF Tape!Uses
<1>9. t[p].op \in {"xor", "and", "reveal"} => u[p].op = t[p].op
  BY <1>2
<1> QED BY <1>1, <1>2, <1>4, <1>5, <1>6, <1>7, <1>8, <1>9 DEF Known

(* The wires written grow by the output of an entry.                        *)
LEMMA KnownGrows ==
  ASSUME NEW t \in Tapes, NEW p \in DOMAIN t
  PROVE  /\ Known(t, p) \subseteq Reg
         /\ t[p].op = "reveal" => Known(t, p + 1) = Known(t, p)
         /\ t[p].op # "reveal" => Known(t, p + 1) = Known(t, p) \cup {t[p].out}
<1>1. PICK u : u = PlainTape(t)
  OBVIOUS
<1>2. u[p].op = "reveal" <=> t[p].op = "reveal"
  BY <1>1, PlainTapeFacts
<1>3. u[p].out = t[p].out /\ t[p].out \in Reg /\ p \in Nat /\ p >= 1
  BY <1>1, PlainTapeFacts, EntryFacts
<1>4. 1 .. p + 1 - 1 = (1 .. p - 1) \cup {p}
  BY <1>3
<1>5. Tape!Writes(u[p]) <=> t[p].op # "reveal"
  BY <1>2 DEF Tape!Writes
<1>6. \A q, v : v = p + 1 => (q \in 1 .. v - 1 <=> q \in 1 .. p - 1 \/ q = p)
  BY <1>4
<1>7. Known(t, p) = {r \in Reg : \E q \in 1 .. p - 1 : Tape!Writes(u[q]) /\ u[q].out = r}
  BY <1>1 DEF Known, Tape!Defined
<1>8. ASSUME NEW v, v = p + 1
      PROVE  Known(t, v) = {r \in Reg : \E q \in 1 .. v - 1 : Tape!Writes(u[q]) /\ u[q].out = r}
  BY <1>1 DEF Known, Tape!Defined
<1>9. Known(t, p) \subseteq Reg
  BY <1>7
<1>10. PICK k, n, v : k = Known(t, p) /\ n = Known(t, v) /\ v = p + 1
  OBVIOUS
<1>11. \A r : r \in n <=> r \in Reg /\ \E q : (q \in 1 .. p - 1 \/ q = p) /\ Tape!Writes(u[q]) /\ u[q].out = r
  BY <1>6, <1>8, <1>10
<1>12. \A r : r \in k <=> r \in Reg /\ \E q \in 1 .. p - 1 : Tape!Writes(u[q]) /\ u[q].out = r
  BY <1>7, <1>10
<1>13. \A r : r \in n <=> r \in k \/ (Tape!Writes(u[p]) /\ r = u[p].out)
  BY <1>3, <1>11, <1>12
<1> QED BY <1>3, <1>5, <1>9, <1>10, <1>13

LEMMA KnownFirst ==
  ASSUME NEW t \in Tapes
  PROVE  Known(t, 1) = {}
<1>1. 1 .. 1 - 1 = {}
  OBVIOUS
<1> QED BY <1>1 DEF Known, Tape!Defined

(* Positions of a tape, and where an execution that has not ended stands.   *)
LEMMA PositionFacts ==
  ASSUME tape \in Tapes
  PROVE  /\ Len(tape) \in Nat /\ DOMAIN tape = 1 .. Len(tape)
         /\ 1 \in Positions /\ Positions \subseteq Nat /\ Positions = 1 .. Len(tape) + 1
         /\ \A p \in Positions : /\ p >= 1 /\ p <= Len(tape) + 1 /\ (Ended(p) <=> p = Len(tape) + 1)
                                 /\ ~ Ended(p) => p \in DOMAIN tape /\ p + 1 \in Positions
         /\ \A p \in DOMAIN tape : p \in Positions /\ p + 1 \in Positions /\ ~ Ended(p)
<1>1. tape \in Seq(Entry)
  BY TapesAssumption
<1>2. Len(tape) \in Nat /\ DOMAIN tape = 1 .. Len(tape)
  BY <1>1
<1> QED BY <1>2 DEF Positions, Ended

(* The gates before a position.                                             *)
LEMMA AndsFacts ==
  ASSUME NEW t, NEW p \in Nat, p >= 1
  PROVE  /\ Ands(t, p) \in Nat /\ Ands(t, 1) = 0
         /\ Ands(t, p + 1) = (IF t[p].op = "and" THEN Ands(t, p) + 1 ELSE Ands(t, p))
<1> DEFINE S(q) == {r \in 1 .. q - 1 : t[r].op = "and"}
<1>1. \A q \in Nat : IsFiniteSet(S(q))
  <2> TAKE q \in Nat
  <2>1. IsFiniteSet(1 .. q - 1)
    BY FS_Interval
  <2>2. S(q) \in SUBSET (1 .. q - 1)
    OBVIOUS
  <2> HIDE DEF S
  <2> QED BY <2>1, <2>2, FS_Subset
<1>2. S(1) = {}
  OBVIOUS
<1>3. t[p].op = "and" => S(p + 1) = S(p) \cup {p} /\ p \notin S(p)
  OBVIOUS
<1>4. t[p].op # "and" => S(p + 1) = S(p)
  OBVIOUS
<1>5. \A q : Ands(t, q) = Cardinality(S(q))
  BY DEF Ands
<1> HIDE DEF S
<1>6. IsFiniteSet(S(p)) /\ Cardinality(S(p)) \in Nat
  BY <1>1, FS_CardinalityType
<1>7. t[p].op = "and" => Cardinality(S(p + 1)) = Cardinality(S(p)) + 1
  BY <1>3, <1>6, FS_AddElement
<1>8. Cardinality(S(1)) = 0
  BY <1>2, FS_EmptySet
<1> QED BY <1>4, <1>5, <1>6, <1>7, <1>8

-----------------------------------------------------------------------------
(* The pieces of each stream.                                               *)
KeysTyped(t, K) == \A p \in 1 .. Len(t) + 1 : DOMAIN K[p] = Reg /\ \A r \in Reg : PerParty(K[p][r])

LEMMA KeysAt ==
  ASSUME NEW t \in Tapes, NEW K, KeysTyped(t, K), NEW p \in DOMAIN t, NEW i
  PROVE  /\ IsSeq(SentKeys(t, K, i)[p]) /\ SentKeys(t, K, i)[p] = KeyPiece(t[p], K[p + 1][t[p].out], i)
         /\ PerParty(K[p + 1][t[p].out])
<1>1. PerParty(K[p + 1][t[p].out])
  <2>1. Len(t) \in Nat /\ p \in Nat /\ p >= 1 /\ p <= Len(t) /\ t[p].out \in Reg
    BY EntryFacts
  <2>2. p + 1 \in 1 .. Len(t) + 1
    BY <2>1
  <2> QED BY <2>1, <2>2 DEF KeysTyped
<1> QED BY <1>1, KeyPieceFacts DEF SentKeys

LEMMA KeptAt ==
  ASSUME NEW t \in Tapes, NEW K, KeysTyped(t, K), NEW p \in DOMAIN t, NEW i
  PROVE  /\ IsSeq(KeptWires(t, K, i)[p])
         /\ KeptWires(t, K, i)[p] = WirePiece(t[p], K[p + 1][t[p].out], K[p][t[p].left], i)
<1>1. PerParty(K[p + 1][t[p].out])
  BY KeysAt
<1> QED BY <1>1, WirePieceFacts DEF KeptWires

LEMMA InputMasksAt ==
  ASSUME NEW t, NEW M, NEW p \in DOMAIN t, NEW i
  PROVE  /\ IsSeq(SentInputMasks(t, M, i)[p])
         /\ t[p].op = "input" /\ t[p].i = i => SentInputMasks(t, M, i)[p] = <<M[p + 1][t[p].out]>>
         /\ ~ (t[p].op = "input" /\ t[p].i = i) => SentInputMasks(t, M, i)[p] = <<>>
BY OneFacts, StoreFacts DEF SentInputMasks

LEMMA OutputMasksAt ==
  ASSUME NEW t, NEW M, NEW p \in DOMAIN t
  PROVE  /\ IsSeq(SentOutputMasks(t, M)[p])
         /\ t[p].op = "reveal" => SentOutputMasks(t, M)[p] = <<M[p][t[p].left]>>
         /\ t[p].op # "reveal" => SentOutputMasks(t, M)[p] = <<>>
BY OneFacts, StoreFacts DEF SentOutputMasks

LEMMA StoredAt ==
  ASSUME NEW t, NEW K, NEW M, NEW p \in DOMAIN t
  PROVE  /\ IsSeq(StoredWires(t, K, M)[p])
         /\ t[p].op \in Drawn \cup {"public"} =>
              StoredWires(t, K, M)[p] = StoredWire(M[p + 1][t[p].out], K[p + 1][t[p].out])
         /\ t[p].op \notin Drawn \cup {"public"} => StoredWires(t, K, M)[p] = <<>>
BY OneFacts, StoreFacts DEF StoredWires, StoredWire

LEMMA TuplesAt ==
  ASSUME NEW t, NEW K, NEW p \in DOMAIN t, NEW i
  PROVE  /\ IsSeq(SentTuples(t, K, i)[p])
         /\ t[p].op = "and" => SentTuples(t, K, i)[p] = <<Tuples(t, K, i, p)>>
         /\ t[p].op # "and" => SentTuples(t, K, i)[p] = <<>>
BY OneFacts, StoreFacts DEF SentTuples

LEMMA GatesAt ==
  ASSUME NEW t, NEW K, NEW M, NEW p \in DOMAIN t
  PROVE  /\ IsSeq(SentGates(t, K, M)[p])
         /\ t[p].op = "and" => SentGates(t, K, M)[p] = <<GateAt(t, K, M, p)>>
         /\ t[p].op # "and" => SentGates(t, K, M)[p] = <<>>
BY OneFacts, StoreFacts DEF SentGates

(* What a party sends for an input, in full and to one that began it.       *)
LEMMA LabelPieceFacts ==
  ASSUME NEW t, NEW K, NEW M, NEW p \in DOMAIN t, NEW j, NEW begun
  PROVE  /\ IsSeq(SentLabels(t, K, M, j, begun)[p])
         /\ t[p].op # "input" => SentLabels(t, K, M, j, begun)[p] = <<>>
         /\ t[p].op = "input" /\ t[p].i = j /\ p # begun =>
              SentLabels(t, K, M, j, begun)[p] = Cat(ExternalMsg(t, M, p), LabelMsg(t, K, M, p, j))
         /\ t[p].op = "input" /\ (t[p].i # j \/ p = begun) =>
              SentLabels(t, K, M, j, begun)[p] = LabelMsg(t, K, M, p, j)
<1>1. PICK x, l, s : x = ExternalMsg(t, M, p) /\ l = LabelMsg(t, K, M, p, j) /\ s = SentLabels(t, K, M, j, begun)[p]
  OBVIOUS
<1>2. IsSeq(x) /\ IsSeq(l)
  BY <1>1, OneFacts DEF ExternalMsg, LabelMsg
<1>3. PICK a : a = Store(t[p].i = j /\ p # begun, x)
  OBVIOUS
<1>4. /\ IsSeq(a) /\ (t[p].i = j /\ p # begun => a = x)
      /\ (~ (t[p].i = j /\ p # begun) => a = <<>>)
  BY <1>2, <1>3, StoreFacts
<1>5. PICK u : u = Cat(a, l)
  OBVIOUS
<1>6. IsSeq(u) /\ (a = <<>> => u = l)
  BY <1>2, <1>4, <1>5, CatSeq, CatEmpty
<1>7. s = Store(t[p].op = "input", u)
  BY <1>1, <1>3, <1>5 DEF SentLabels, Cat
<1>8. IsSeq(s) /\ (t[p].op = "input" => s = u) /\ (t[p].op # "input" => s = <<>>)
  BY <1>6, <1>7, StoreFacts
<1> QED BY <1>1, <1>4, <1>5, <1>6, <1>8

(* All pieces of all streams are sequences.                                 *)
LEMMA AllPieces ==
  ASSUME NEW t \in Tapes, NEW K, KeysTyped(t, K), NEW M,
         NEW a \in Int, a >= 1, NEW b \in Int, b <= Len(t) + 1, NEW i
  PROVE  /\ Pieces(SentKeys(t, K, i), a, b) /\ Pieces(SentInputMasks(t, M, i), a, b)
         /\ Pieces(SentOutputMasks(t, M), a, b) /\ Pieces(StoredWires(t, K, M), a, b)
         /\ Pieces(KeptWires(t, K, i), a, b) /\ Pieces(SentTuples(t, K, i), a, b)
         /\ Pieces(SentGates(t, K, M), a, b)
         /\ \A begun : Pieces(SentLabels(t, K, M, i, begun), a, b)
<1>1. Len(t) \in Nat /\ DOMAIN t = 1 .. Len(t)
  <2>1. t \in Seq(Entry)
    BY TapesAssumption
  <2> QED BY <2>1
<1>2. \A p \in a .. b - 1 : p \in DOMAIN t
  BY <1>1
<1>3. ASSUME NEW p \in a .. b - 1
      PROVE  /\ IsSeq(SentKeys(t, K, i)[p]) /\ IsSeq(SentInputMasks(t, M, i)[p])
             /\ IsSeq(SentOutputMasks(t, M)[p]) /\ IsSeq(StoredWires(t, K, M)[p])
             /\ IsSeq(KeptWires(t, K, i)[p]) /\ IsSeq(SentTuples(t, K, i)[p])
             /\ IsSeq(SentGates(t, K, M)[p])
  BY <1>2, KeysAt, KeptAt, InputMasksAt, OutputMasksAt, StoredAt, TuplesAt, GatesAt
<1>4. ASSUME NEW p \in a .. b - 1, NEW begun
      PROVE  IsSeq(SentLabels(t, K, M, i, begun)[p])
  <2>1. p \in DOMAIN t
    BY <1>2
  <2> QED BY <2>1, LabelPieceFacts
<1> QED BY <1>3, <1>4 DEF Pieces

(* A stream without pieces.                                                 *)
LEMMA StreamNone ==
  ASSUME NEW f, NEW a \in Int, NEW b \in Int, b <= a
  PROVE  Stream(f, a, b) = <<>>
<1>1. Pieces(f, a, b)
  BY DEF Pieces
<1> QED BY <1>1, StreamFacts

-----------------------------------------------------------------------------
(* LabelsFit, party by party.                                               *)
LabelsOf(k, x) == [j \in Party |-> Add(k[j], DeltaIf(j, x))]

Fits(i) ==
  \A r \in Known(tape, epc[i]) :
    ~ (waiting[i] /\ r = tape[epc[i]].out) => entry[i][r] = LabelsOf(hkey[epc[i]][r], external[i][r])

LEMMA LabelsFitIs == LabelsFit <=> \A i \in Party : Fits(i)
BY DEF LabelsFit, Fits, LabelsOf, Known

Labels == \A i \in Party : Fits(i) /\ Begun(i)

(* The invariant, part by part.                                             *)
LEMMA Parts == IInv <=> Places /\ Types /\ History /\ Streams /\ Messages /\ Labels
BY LabelsFitIs DEF IInv, Labels

-----------------------------------------------------------------------------
(* The initial state.                                                       *)
LEMMA InitIInv == Init => IInv
<1> SUFFICES ASSUME Init PROVE IInv
  OBVIOUS
<1>1. tape \in Tapes /\ rpc = 1 /\ gpc = 1
  BY DEF Init
<1>2. \A i \in Party : /\ ppc[i] = 1 /\ epc[i] = 1 /\ waiting[i] = FALSE /\ Reached(i) = 1
                       /\ gate_counter[i] = 0 /\ gate_counter2[i] = 0
  BY DEF Init, Each, Reached
<1>3. Len(tape) \in Nat /\ 1 \in Positions
  BY <1>1, PositionFacts
<1>4. Places
  BY <1>1, <1>2, <1>3 DEF Places, Init, Each
<1>5. PerParty(None) /\ \A i \in Party : None[i] = {}
  BY DEF PerParty, None, Each
<1>6. \A p \in Positions : \A r \in Reg : hkey[p][r] = None
  BY DEF Init, Positions
<1>7. Types
  <2>1. DOMAIN hkey = Positions /\ hmask \in [Positions -> [Reg -> BOOLEAN]]
    BY DEF Init, Positions
  <2>2. \A p \in Positions : DOMAIN hkey[p] = Reg
    BY DEF Init, Positions
  <2>3. drawn \in Nat /\ \A i \in Party : pkey[i] = [r \in Reg |-> pkey[i][r]]
    BY DEF Init, Each
  <2>4. external \in [Party -> [Reg -> BOOLEAN]]
    BY DEF Init, Each
  <2>5. \A i \in Party : DOMAIN entry[i] = Reg
    BY DEF Init, Each
  <2>6. \A i \in Party : \A r \in Reg : entry[i][r] = None
    BY DEF Init, Each
  <2>7. \A v : PerParty(Each(v))
    BY DEF PerParty, Each
  <2>8. /\ PerParty(msg_keys) /\ PerParty(msg_input_masks) /\ PerParty(msg_output_masks)
        /\ PerParty(prf_outputs) /\ PerParty(wires) /\ PerParty(gates)
        /\ PerParty(outputs) /\ PerParty(net) /\ PerParty(pkey) /\ PerParty(entry)
        /\ PerParty(gate_counter) /\ PerParty(gate_counter2)
    BY <2>7 DEF Init
  <2>9. \A j \in Party : net[j] = Each(<<>>)
    BY DEF Init, Each
  <2>11. \A j \in Party : PerParty(net[j])
    BY <2>7, <2>9
  <2>12. \A p \in Positions : \A r \in Reg : PerParty(hkey[p][r])
    BY <1>5, <1>6
  <2>13. \A i \in Party : \A r \in Reg : PerParty(entry[i][r])
    BY <1>5, <2>6
  <2> QED BY <2>1, <2>2, <2>3, <2>4, <2>5, <2>8, <2>11, <2>12, <2>13 DEF Types
<1>8. History
  <2>1. hkey[1] = rkey /\ hmask[1] = rmask /\ gmask = rmask
    BY <1>3 DEF Init, Positions
  <2>2. 1 .. rpc - 1 = {}
    BY <1>1
  <2>3. \A i \in Party : \A r \in Reg : pkey[i][r] = {}
    BY DEF Init, Each
  <2>4. Ands(tape, 1) = 0
    BY AndsFacts
  <2>5. \A i \in Party : \A r \in Reg : hkey[1][r][i] = {}
    BY <1>3, <1>5, <1>6
  <2>6. \A i \in Party : \A r \in Reg : pkey[i][r] = hkey[ppc[i]][r][i]
    BY <1>2, <2>3, <2>5
  <2>7. \A i \in Party : gate_counter[i] = Ands(tape, ppc[i]) /\ gate_counter2[i] = Ands(tape, epc[i])
    BY <1>2, <2>4
  <2>8. \A p \in 1 .. rpc - 1 : RandomRule(tape[p], hkey[p], hkey[p + 1], hmask[p], hmask[p + 1])
    BY <2>2
  <2> QED BY <1>1, <2>1, <2>6, <2>7, <2>8 DEF History
<1>9. \A f : Stream(f, 1, 1) = <<>>
  BY StreamNone
<1>10. Streams
  <2>1. twires = <<>> /\ circuit = <<>>
    BY DEF Init
  <2>2. \A i \in Party : /\ msg_keys[i] = <<>> /\ msg_input_masks[i] = <<>> /\ msg_output_masks[i] = <<>>
                         /\ prf_outputs[i] = <<>> /\ wires[i] = <<>> /\ gates[i] = <<>>
    BY DEF Init, Each
  <2>3. \A c : Store(c, <<>>) = <<>>
    BY DEF Store
  <2> QED BY <1>1, <1>2, <1>9, <2>1, <2>2, <2>3 DEF Streams
<1>11. Messages
  <2>1. \A j, k \in Party : net[j][k] = <<>>
    BY DEF Init, Each
  <2>2. 1 .. 1 - 1 = {}
    OBVIOUS
  <2> QED BY <1>2, <1>9, <2>1, <2>2 DEF Messages
<1>12. Labels
  <2>1. Known(tape, 1) = {}
    BY <1>1, KnownFirst
  <2> QED BY <1>2, <2>1 DEF Labels, Fits, Begun
<1> QED BY <1>4, <1>7, <1>8, <1>10, <1>11, <1>12, Parts

-----------------------------------------------------------------------------
(* What holds before an execution has ended.                                *)
LEMMA Before ==
  ASSUME IInv
  PROVE  /\ tape \in Tapes /\ KeysTyped(tape, hkey)
         /\ rpc \in Positions /\ gpc \in Positions
         /\ \A i \in Party : ppc[i] \in Positions /\ epc[i] \in Positions /\ waiting[i] \in BOOLEAN
         /\ ~ Ended(rpc) => gpc = 1 /\ \A i \in Party : ppc[i] = 1
         /\ (\E i \in Party : ~ Ended(ppc[i])) => gpc = 1
         /\ ~ Ended(rpc) \/ (\E i \in Party : ~ Ended(ppc[i])) \/ ~ Ended(gpc) =>
              \A i \in Party : epc[i] = 1 /\ ~ waiting[i] /\ Reached(i) = 1
<1>1. Places /\ Types
  BY DEF IInv
<1>2. KeysTyped(tape, hkey)
  BY <1>1 DEF Types, KeysTyped, Positions
<1>3. \A i \in Party : ppc[i] \in Positions /\ epc[i] \in Positions /\ waiting[i] \in BOOLEAN
  BY <1>1 DEF Places
<1> QED BY <1>1, <1>2, <1>3 DEF Places, Reached

(* How far a party has come in the evaluation.                              *)
LEMMA ReachedFacts ==
  ASSUME IInv, NEW i \in Party
  PROVE  /\ Reached(i) \in Positions /\ Reached(i) \in Nat /\ epc[i] \in Nat /\ epc[i] >= 1
         /\ epc[i] <= Reached(i) /\ Reached(i) >= 1 /\ Reached(i) <= Len(tape) + 1 /\ Len(tape) \in Nat
         /\ waiting[i] => Reached(i) = epc[i] + 1 /\ ~ Ended(epc[i]) /\ epc[i] \in DOMAIN tape /\ tape[epc[i]].op = "input"
         /\ ~ waiting[i] => Reached(i) = epc[i]
<1>1. Places /\ tape \in Tapes /\ epc[i] \in Positions
  BY Before DEF IInv
<1>2. waiting[i] => ~ Ended(epc[i]) /\ tape[epc[i]].op = "input"
  BY <1>1 DEF Places
<1>3. Reached(i) = (IF waiting[i] THEN epc[i] + 1 ELSE epc[i])
  BY DEF Reached
<1>4. /\ Len(tape) \in Nat /\ Positions \subseteq Nat /\ epc[i] >= 1 /\ Positions = 1 .. Len(tape) + 1
      /\ ~ Ended(epc[i]) => epc[i] \in DOMAIN tape /\ epc[i] + 1 \in Positions
  BY <1>1, PositionFacts
<1> HIDE DEF Positions
<1> QED BY <1>1, <1>2, <1>3, <1>4

-----------------------------------------------------------------------------
(* All streams are sequences.                                               *)
LEMMA StreamsAreSeqs ==
  ASSUME IInv
  PROVE  /\ IsSeq(twires) /\ IsSeq(circuit)
         /\ \A i \in Party : /\ IsSeq(msg_keys[i]) /\ IsSeq(msg_input_masks[i]) /\ IsSeq(msg_output_masks[i])
                             /\ IsSeq(prf_outputs[i]) /\ IsSeq(wires[i]) /\ IsSeq(gates[i])
<1>1. /\ tape \in Tapes /\ KeysTyped(tape, hkey) /\ rpc \in Positions /\ gpc \in Positions
      /\ \A i \in Party : ppc[i] \in Positions
  BY Before
<1>2. \A p \in Positions : p \in Int /\ p >= 1 /\ p <= Len(tape) + 1
  BY <1>1, PositionFacts
<1>3. 1 \in Positions
  BY <1>1, PositionFacts
<1> HIDE DEF Positions
<1>4. ASSUME NEW a \in Positions, NEW b \in Positions, NEW i
      PROVE  /\ IsSeq(Stream(SentKeys(tape, hkey, i), a, b)) /\ IsSeq(Stream(SentInputMasks(tape, hmask, i), a, b))
             /\ IsSeq(Stream(SentOutputMasks(tape, hmask), a, b)) /\ IsSeq(Stream(StoredWires(tape, hkey, hmask), a, b))
             /\ IsSeq(Stream(KeptWires(tape, hkey, i), a, b)) /\ IsSeq(Stream(SentTuples(tape, hkey, i), a, b))
             /\ IsSeq(Stream(SentGates(tape, hkey, hmask), a, b))
  <2>1. a \in Int /\ b \in Int /\ a >= 1 /\ b <= Len(tape) + 1
    BY <1>2
  <2>2. /\ Pieces(SentKeys(tape, hkey, i), a, b) /\ Pieces(SentInputMasks(tape, hmask, i), a, b)
        /\ Pieces(SentOutputMasks(tape, hmask), a, b) /\ Pieces(StoredWires(tape, hkey, hmask), a, b)
        /\ Pieces(KeptWires(tape, hkey, i), a, b) /\ Pieces(SentTuples(tape, hkey, i), a, b)
        /\ Pieces(SentGates(tape, hkey, hmask), a, b)
    BY <1>1, <2>1, AllPieces
  <2> QED BY <2>1, <2>2, StreamFacts
<1>5. Streams
  BY DEF IInv
<1>6. IsSeq(twires) /\ IsSeq(circuit)
  BY <1>1, <1>3, <1>4, <1>5 DEF Streams
<1>7. ASSUME NEW i \in Party
      PROVE  /\ IsSeq(msg_keys[i]) /\ IsSeq(msg_input_masks[i]) /\ IsSeq(msg_output_masks[i])
             /\ IsSeq(prf_outputs[i]) /\ IsSeq(wires[i]) /\ IsSeq(gates[i])
  <2>1. Reached(i) \in Positions /\ ppc[i] \in Positions
    BY <1>1, ReachedFacts
  <2>2. /\ msg_keys[i] = Stream(SentKeys(tape, hkey, i), ppc[i], rpc)
        /\ msg_input_masks[i] = Stream(SentInputMasks(tape, hmask, i), Reached(i), rpc)
        /\ msg_output_masks[i] = Stream(SentOutputMasks(tape, hmask), Reached(i), rpc)
        /\ prf_outputs[i] = Stream(SentTuples(tape, hkey, i), gpc, ppc[i])
        /\ wires[i] = Stream(KeptWires(tape, hkey, i), Reached(i), ppc[i])
        /\ gates[i] = Store(Ended(gpc), Stream(SentGates(tape, hkey, hmask), Reached(i), gpc))
    BY <1>5 DEF Streams
  <2>3. IsSeq(msg_keys[i]) /\ IsSeq(msg_input_masks[i]) /\ IsSeq(msg_output_masks[i])
    BY <1>1, <1>4, <2>1, <2>2
  <2>4. IsSeq(prf_outputs[i]) /\ IsSeq(wires[i])
    BY <1>1, <1>4, <2>1, <2>2
  <2>5. IsSeq(gates[i])
    BY <1>1, <1>4, <2>1, <2>2, StoreFacts
  <2> QED BY <2>3, <2>4, <2>5
<1> QED BY <1>6, <1>7

-----------------------------------------------------------------------------
(* RandomRegister.                                                          *)

(* A wire for every party.                                                  *)
WiresTyped(k, m) == DOMAIN k = Reg /\ (\A r \in Reg : PerParty(k[r])) /\ m \in [Reg -> BOOLEAN]

LEMMA RandomKnows ==
  ASSUME IInv, ~ Ended(rpc)
  PROVE  /\ tape \in Tapes /\ rpc \in DOMAIN tape /\ rpc \in Positions /\ rpc + 1 \in Positions
         /\ rpc \in Nat /\ rpc >= 1
         /\ WiresTyped(rkey, rmask) /\ rkey = hkey[rpc] /\ rmask = hmask[rpc]
         /\ drawn \in Nat
<1>1. tape \in Tapes /\ rpc \in Positions /\ Types /\ History
  BY Before DEF IInv
<1>2. rpc \in DOMAIN tape /\ rpc + 1 \in Positions /\ rpc \in Nat /\ rpc >= 1
  BY <1>1, PositionFacts
<1>3. rkey = hkey[rpc] /\ rmask = hmask[rpc]
  BY <1>1 DEF History
<1> HIDE DEF Positions
<1>4. DOMAIN hkey[rpc] = Reg /\ (\A r \in Reg : PerParty(hkey[rpc][r])) /\ hmask[rpc] \in [Reg -> BOOLEAN]
  BY <1>1 DEF Types
<1>5. drawn \in Nat
  BY <1>1 DEF Types
<1> QED BY <1>1, <1>2, <1>3, <1>4, <1>5 DEF WiresTyped

(* Writing one wire.                                                        *)
LEMMA WireWritten ==
  ASSUME WiresTyped(rkey, rmask), NEW r \in Reg, NEW k, PerParty(k), NEW m \in BOOLEAN, RandomWire(r, k, m)
  PROVE  /\ WiresTyped(rkey', rmask') /\ rkey'[r] = k /\ rmask'[r] = m
         /\ \A q \in Reg \ {r} : rkey'[q] = rkey[q] /\ rmask'[q] = rmask[q]
<1>1. rkey' = [rkey EXCEPT ![r] = k] /\ rmask' = [rmask EXCEPT ![r] = m]
  BY DEF RandomWire
<1>2. DOMAIN rkey = Reg /\ (\A q \in Reg : PerParty(rkey[q])) /\ rmask \in [Reg -> BOOLEAN]
  BY DEF WiresTyped
<1>3. rkey'[r] = k /\ DOMAIN rkey' = Reg /\ \A q \in Reg \ {r} : rkey'[q] = rkey[q]
  BY <1>1, <1>2
<1>4. rmask'[r] = m /\ rmask' \in [Reg -> BOOLEAN] /\ \A q \in Reg \ {r} : rmask'[q] = rmask[q]
  BY <1>1, <1>2
<1>5. \A q \in Reg : PerParty(rkey'[q])
  <2> TAKE q \in Reg
  <2>1. CASE q = r
    BY <1>3, <2>1
  <2>2. CASE q # r
    BY <1>2, <1>3, <2>2
  <2> QED BY <2>1, <2>2
<1> QED BY <1>3, <1>4, <1>5 DEF WiresTyped

(* What an operator of RandomRegister does to the wires and the streams.    *)
RandomEffect(e) ==
  /\ WiresTyped(rkey', rmask') /\ drawn' \in Nat
  /\ RandomRule(e, rkey, rkey', rmask, rmask')
  /\ PerParty(msg_keys') /\ PerParty(msg_input_masks') /\ PerParty(msg_output_masks')
  /\ \A i \in Party :
       /\ msg_keys'[i] = Cat(msg_keys[i], KeyPiece(e, rkey'[e.out], i))
       /\ e.op = "input" /\ e.i = i => msg_input_masks'[i] = Cat(msg_input_masks[i], <<rmask'[e.out]>>)
       /\ ~ (e.op = "input" /\ e.i = i) => msg_input_masks'[i] = msg_input_masks[i]
       /\ e.op = "reveal" => msg_output_masks'[i] = Cat(msg_output_masks[i], <<rmask[e.left]>>)
       /\ e.op # "reveal" => msg_output_masks'[i] = msg_output_masks[i]
  /\ e.op \in Drawn \cup {"public"} =>
       twires' = Cat(twires, StoredWire(rmask'[e.out], rkey'[e.out]))
  /\ e.op \notin Drawn \cup {"public"} => twires' = twires

(* The keys of a wire join the streams.                                     *)
LEMMA KeysSent ==
  ASSUME NEW e, e.op \in Drawn, NEW k, PerParty(k), \A i \in Party : IsSeq(msg_keys[i]),
         SendKeys(k, e.op = "random")
  PROVE  PerParty(msg_keys') /\ \A i \in Party : msg_keys'[i] = Cat(msg_keys[i], KeyPiece(e, k, i))
<1>1. msg_keys' = [i \in Party |->
        msg_keys[i] \o <<k[i], Add(k[i], Delta(i))>> \o (IF e.op = "random" THEN k ELSE <<>>)]
  BY DEF SendKeys
<1>2. PerParty(msg_keys')
  BY <1>1 DEF PerParty
<1>3. ASSUME NEW i \in Party PROVE msg_keys'[i] = Cat(msg_keys[i], KeyPiece(e, k, i))
  <2>1. PICK a, b, c : /\ a = msg_keys[i] /\ b = <<k[i], Add(k[i], Delta(i))>>
                       /\ c = (IF e.op = "random" THEN k ELSE <<>>)
    OBVIOUS
  <2>2. msg_keys'[i] = Cat(Cat(a, b), c)
    BY <1>1, <2>1 DEF Cat
  <2>3. IsSeq(a) /\ IsSeq(b) /\ IsSeq(c)
    BY <2>1, TwoFacts, PartySeq, EmptyFacts
  <2>4. KeyPiece(e, k, i) = Cat(b, c)
    <3>1. CASE e.op = "random"
      BY <2>1, <3>1, KeyPieceFacts
    <3>2. CASE e.op # "random"
      <4>1. KeyPiece(e, k, i) = b /\ c = <<>>
        BY <2>1, <3>2, KeyPieceFacts
      <4> QED BY <2>3, <4>1, CatEmpty
    <3> QED BY <3>1, <3>2
  <2> QED BY <2>1, <2>2, <2>3, <2>4, CatAssoc
<1> QED BY <1>2, <1>3

LEMMA RandomDoes ==
  ASSUME IInv, ~ Ended(rpc), NEW e, e = tape[rpc],
         RandomWithKeys(e) \/ RandomPublic(e) \/ RandomXor(e) \/ RandomOutput(e)
  PROVE  RandomEffect(e)
<1>1. /\ tape \in Tapes /\ rpc \in DOMAIN tape /\ WiresTyped(rkey, rmask) /\ drawn \in Nat
  BY RandomKnows
<1>2. /\ e.out \in Reg /\ e.left \in Reg /\ e.right \in Reg /\ e.val \in BOOLEAN
      /\ e.op = "input" => e.i \in Party
  BY <1>1, EntryFacts
<1>3. /\ IsSeq(twires)
      /\ \A i \in Party : IsSeq(msg_keys[i]) /\ IsSeq(msg_input_masks[i]) /\ IsSeq(msg_output_masks[i])
  BY StreamsAreSeqs
<1>4. PerParty(msg_keys) /\ PerParty(msg_input_masks) /\ PerParty(msg_output_masks)
  BY DEF IInv, Types
<1>5. ASSUME msg_keys' = msg_keys, e.op \notin Drawn, WiresTyped(rkey', rmask')
      PROVE  PerParty(msg_keys') /\ \A i \in Party : msg_keys'[i] = Cat(msg_keys[i], KeyPiece(e, rkey'[e.out], i))
  <2>1. PerParty(rkey'[e.out])
    BY <1>2, <1>5 DEF WiresTyped
  <2>2. \A i : KeyPiece(e, rkey'[e.out], i) = <<>>
    BY <1>5, <2>1, KeyPieceFacts
  <2> QED BY <1>3, <1>4, <1>5, <2>2, CatEmpty
<1>6. ASSUME StoreWire(e.out) PROVE twires' = Cat(twires, StoredWire(rmask'[e.out], rkey'[e.out]))
  BY <1>3, <1>6, AppendIsCat DEF StoreWire, StoredWire
<1>7. CASE RandomWithKeys(e)
  <2>1. e.op \in Drawn /\ Randomize(e)
    BY <1>7 DEF RandomWithKeys, Drawn
  <2>2. PICK m \in BOOLEAN : RandomWire(e.out, FreshKeys, m)
    BY <2>1 DEF Randomize
  <2>3. PerParty(FreshKeys) /\ \A i \in Party : ~ Signal(i, FreshKeys[i])
    BY FreshClean
  <2>4. PICK k : k = FreshKeys /\ PerParty(k)
    BY <2>3
  <2>5. /\ WiresTyped(rkey', rmask') /\ rkey'[e.out] = k
        /\ \A q \in Reg \ {e.out} : rkey'[q] = rkey[q] /\ rmask'[q] = rmask[q]
    BY <1>1, <1>2, <2>2, <2>4, WireWritten
  <2>6. drawn' \in Nat
    BY <1>1, <2>1 DEF Randomize
  <2>7. RandomRule(e, rkey, rkey', rmask, rmask')
    <3>1. e.op # "reveal" /\ e.op # "public" /\ e.op # "xor"
      BY <2>1 DEF Drawn
    <3> QED BY <2>3, <2>4, <2>5, <3>1 DEF RandomRule
  <2>8. PerParty(msg_keys') /\ \A i \in Party : msg_keys'[i] = Cat(msg_keys[i], KeyPiece(e, rkey'[e.out], i))
    <3>1. SendKeys(k, e.op = "random")
      BY <2>1, <2>4 DEF Randomize
    <3> QED BY <1>3, <2>1, <2>4, <2>5, <3>1, KeysSent
  <2>9. msg_output_masks' = msg_output_masks /\ StoreWire(e.out) /\ e.op # "reveal"
    BY <2>1 DEF Randomize, Drawn
  <2>10. msg_input_masks' = IF e.op # "input" THEN msg_input_masks
                            ELSE [msg_input_masks EXCEPT ![e.i] = Append(@, rmask'[e.out])]
    BY <1>7 DEF RandomWithKeys
  <2>11. /\ PerParty(msg_input_masks')
         /\ \A i \in Party :
              /\ e.op = "input" /\ e.i = i => msg_input_masks'[i] = Cat(msg_input_masks[i], <<rmask'[e.out]>>)
              /\ ~ (e.op = "input" /\ e.i = i) => msg_input_masks'[i] = msg_input_masks[i]
    <3>1. CASE e.op # "input"
      BY <1>4, <2>10, <3>1
    <3>2. CASE e.op = "input"
      <4>1. PICK j, f, x : j = e.i /\ f = msg_input_masks /\ x = Append(f[j], rmask'[e.out])
        OBVIOUS
      <4>2. j \in Party /\ DOMAIN f = Party
        BY <1>2, <1>4, <3>2, <4>1 DEF PerParty
      <4>3. msg_input_masks' = [f EXCEPT ![j] = x]
        BY <2>10, <3>2, <4>1
      <4>4. PerParty(msg_input_masks')
        BY <4>2, <4>3 DEF PerParty
      <4>5. x = Cat(f[j], <<rmask'[e.out]>>)
        BY <1>3, <4>1, <4>2, AppendIsCat
      <4> QED BY <3>2, <4>1, <4>2, <4>3, <4>4, <4>5
    <3> QED BY <3>1, <3>2
  <2>12. twires' = Cat(twires, StoredWire(rmask'[e.out], rkey'[e.out]))
    BY <1>6, <2>9
  <2> QED BY <1>4, <2>1, <2>5, <2>6, <2>7, <2>8, <2>9, <2>11, <2>12 DEF RandomEffect
<1>8. CASE RandomPublic(e)
  <2>1. /\ e.op = "public" /\ StoreWire(e.out) /\ drawn' = drawn /\ msg_keys' = msg_keys
        /\ msg_input_masks' = msg_input_masks /\ msg_output_masks' = msg_output_masks
    BY <1>8 DEF RandomPublic
  <2>2. PICK k : k = [i \in Party |-> DeltaIf(i, e.val)]
    OBVIOUS
  <2>3. PerParty(k)
    BY <2>2 DEF PerParty
  <2>4. RandomWire(e.out, k, FALSE)
    BY <1>8, <2>2 DEF RandomPublic
  <2>5. /\ WiresTyped(rkey', rmask') /\ rkey'[e.out] = k /\ rmask'[e.out] = FALSE
        /\ \A q \in Reg \ {e.out} : rkey'[q] = rkey[q] /\ rmask'[q] = rmask[q]
    BY <1>1, <1>2, <2>3, <2>4, WireWritten
  <2>6. RandomRule(e, rkey, rkey', rmask, rmask')
    BY <2>1, <2>2, <2>5 DEF RandomRule, Drawn
  <2>7. e.op \notin Drawn /\ e.op # "input" /\ e.op # "reveal"
    BY <2>1 DEF Drawn
  <2> QED BY <1>1, <1>4, <1>5, <1>6, <2>1, <2>5, <2>6, <2>7 DEF RandomEffect
<1>9. CASE RandomXor(e)
  <2>1. /\ e.op = "xor" /\ drawn' = drawn /\ msg_keys' = msg_keys /\ twires' = twires
        /\ msg_input_masks' = msg_input_masks /\ msg_output_masks' = msg_output_masks
    BY <1>9 DEF RandomXor, sent
  <2>2. PICK k, m : k = AddEach(rkey[e.left], rkey[e.right]) /\ m = (rmask[e.left] # rmask[e.right])
    OBVIOUS
  <2>3. PerParty(k) /\ m \in BOOLEAN
    BY <2>2 DEF PerParty, AddEach
  <2>4. RandomWire(e.out, k, m)
    BY <1>9, <2>2 DEF RandomXor
  <2>5. /\ WiresTyped(rkey', rmask') /\ rkey'[e.out] = k /\ rmask'[e.out] = m
        /\ \A q \in Reg \ {e.out} : rkey'[q] = rkey[q] /\ rmask'[q] = rmask[q]
    BY <1>1, <1>2, <2>3, <2>4, WireWritten
  <2>6. RandomRule(e, rkey, rkey', rmask, rmask')
    BY <2>1, <2>2, <2>5 DEF RandomRule, Drawn
  <2>7. e.op \notin Drawn /\ e.op # "input" /\ e.op # "reveal" /\ e.op # "public"
    BY <2>1 DEF Drawn
  <2> QED BY <1>1, <1>4, <1>5, <2>1, <2>5, <2>6, <2>7 DEF RandomEffect
<1>10. CASE RandomOutput(e)
  <2>1. /\ e.op = "reveal" /\ drawn' = drawn /\ msg_keys' = msg_keys /\ twires' = twires
        /\ msg_input_masks' = msg_input_masks /\ rkey' = rkey /\ rmask' = rmask
        /\ msg_output_masks' = [i \in Party |-> Append(msg_output_masks[i], rmask[e.left])]
    BY <1>10 DEF RandomOutput
  <2>2. RandomRule(e, rkey, rkey', rmask, rmask')
    BY <2>1 DEF RandomRule, Drawn
  <2>3. PerParty(msg_output_masks')
    BY <2>1 DEF PerParty
  <2>4. \A i \in Party : msg_output_masks'[i] = Cat(msg_output_masks[i], <<rmask[e.left]>>)
    BY <1>3, <2>1, AppendIsCat
  <2>5. e.op \notin Drawn /\ e.op # "input" /\ e.op # "public"
    BY <2>1 DEF Drawn
  <2> QED BY <1>1, <1>4, <1>5, <2>1, <2>2, <2>3, <2>4, <2>5 DEF RandomEffect
<1> QED BY <1>7, <1>8, <1>9, <1>10

(* RandomRegister preserves the invariant.                                  *)
LEMMA RandomStepIInv ==
  ASSUME IInv, RandomStep
  PROVE  IInv'
<1>1. PICK p, e : p = rpc /\ e = tape[p]
  OBVIOUS
<1>2. ~ Ended(rpc)
  BY DEF RandomStep
<1>3. /\ tape \in Tapes /\ p \in DOMAIN tape /\ p \in Positions /\ p + 1 \in Positions /\ p \in Nat /\ p >= 1
      /\ rkey = hkey[p] /\ rmask = hmask[p]
  BY <1>1, <1>2, RandomKnows
<1>4. RandomEffect(e)
  BY <1>1, <1>2, RandomDoes DEF RandomStep
<1>5. /\ rpc' = p + 1 /\ tape' = tape
      /\ hkey' = [hkey EXCEPT ![p + 1] = rkey'] /\ hmask' = [hmask EXCEPT ![p + 1] = rmask']
      /\ ppc' = ppc /\ pkey' = pkey /\ gate_counter' = gate_counter
      /\ prf_outputs' = prf_outputs /\ wires' = wires
      /\ gpc' = gpc /\ gmask' = gmask /\ circuit' = circuit
      /\ epc' = epc /\ waiting' = waiting /\ external' = external /\ entry' = entry
      /\ gate_counter2' = gate_counter2 /\ gates' = gates /\ net' = net /\ outputs' = outputs
  BY <1>1 DEF RandomStep, prf, garble, eval
<1>6. /\ gpc = 1 /\ \A i \in Party : ppc[i] = 1
      /\ \A i \in Party : epc[i] = 1 /\ ~ waiting[i] /\ Reached(i) = 1
  BY <1>2, Before
<1>7. Places /\ Types /\ History /\ Streams /\ Messages
  BY DEF IInv
<1>8. /\ Positions' = Positions /\ \A q : Ended(q)' <=> Ended(q)
  BY <1>5 DEF Positions, Ended
<1>9. \A i \in Party : Reached(i)' = 1 /\ epc'[i] = 1 /\ ~ waiting'[i] /\ ppc'[i] = 1
  BY <1>5, <1>6 DEF Reached
<1>10. PICK L, O : L = hkey' /\ O = hmask'
  OBVIOUS
<1>11. /\ DOMAIN hkey = Positions /\ hmask \in [Positions -> [Reg -> BOOLEAN]]
       /\ \A q \in Positions : DOMAIN hkey[q] = Reg /\ \A r \in Reg : PerParty(hkey[q][r])
  BY <1>7 DEF Types
<1>12. WiresTyped(rkey', rmask')
  BY <1>4 DEF RandomEffect
<1>13. /\ DOMAIN L = Positions /\ O \in [Positions -> [Reg -> BOOLEAN]]
       /\ L[p + 1] = rkey' /\ O[p + 1] = rmask'
       /\ \A q \in Positions : q # p + 1 => L[q] = hkey[q] /\ O[q] = hmask[q]
  BY <1>3, <1>5, <1>10, <1>11, <1>12 DEF WiresTyped
<1>14. \A q \in Positions : DOMAIN L[q] = Reg /\ \A r \in Reg : PerParty(L[q][r])
  <2> TAKE q \in Positions
  <2>1. CASE q = p + 1
    BY <1>12, <1>13, <2>1 DEF WiresTyped
  <2>2. CASE q # p + 1
    BY <1>11, <1>13, <2>2
  <2> QED BY <2>1, <2>2
<1>15. KeysTyped(tape, L)
  BY <1>14 DEF KeysTyped, Positions
<1>16. /\ 1 \in Positions /\ 1 # p + 1 /\ p # p + 1 /\ p + 1 <= Len(tape) + 1 /\ p + 1 \in Int /\ p + 1 # 1
       /\ \A q \in 1 .. p - 1 : q \in DOMAIN tape /\ q \in Positions /\ q + 1 \in Positions /\ q # p + 1 /\ q + 1 # p + 1
  <2>1. Len(tape) \in Nat /\ DOMAIN tape = 1 .. Len(tape)
    BY <1>3, PositionFacts
  <2> QED BY <1>3, <2>1 DEF Positions
<1>17. Places'
  <2>1. tape' \in Tapes /\ rpc' \in Positions' /\ gpc' \in Positions'
    BY <1>3, <1>5, <1>7, <1>8 DEF Places
  <2>2. ppc' \in [Party -> Positions'] /\ epc' \in [Party -> Positions'] /\ waiting' \in [Party -> BOOLEAN]
    BY <1>5, <1>7, <1>8 DEF Places
  <2> QED BY <1>5, <1>6, <1>9, <2>1, <2>2 DEF Places
<1>18. Types'
  <2>1. /\ PerParty(pkey) /\ (\A i \in Party : pkey[i] = [r \in Reg |-> pkey[i][r]])
        /\ external \in [Party -> [Reg -> BOOLEAN]] /\ PerParty(entry)
        /\ (\A i \in Party : DOMAIN entry[i] = Reg /\ \A r \in Reg : PerParty(entry[i][r]))
        /\ PerParty(prf_outputs) /\ PerParty(wires) /\ PerParty(gates)
        /\ PerParty(outputs) /\ PerParty(net) /\ (\A j \in Party : PerParty(net[j]))
        /\ PerParty(gate_counter) /\ PerParty(gate_counter2)
    BY <1>7 DEF Types
  <2>2. drawn' \in Nat /\ PerParty(msg_keys') /\ PerParty(msg_input_masks') /\ PerParty(msg_output_masks')
    BY <1>4 DEF RandomEffect
  <2>3. DOMAIN hkey' = Positions /\ hmask' \in [Positions -> [Reg -> BOOLEAN]]
    BY <1>10, <1>13
  <2>4. \A q \in Positions : DOMAIN hkey'[q] = Reg /\ \A r \in Reg : PerParty(hkey'[q][r])
    BY <1>10, <1>14
  <2> QED BY <1>5, <1>8, <2>1, <2>2, <2>3, <2>4 DEF Types
<1>19. History'
  <2>1. rkey' = hkey'[rpc'] /\ rmask' = hmask'[rpc'] /\ gmask' = hmask'[gpc']
    <3>1. gmask = hmask[1]
      BY <1>6, <1>7 DEF History
    <3> QED BY <1>5, <1>6, <1>10, <1>13, <1>16, <3>1
  <2>2. ASSUME NEW q \in 1 .. rpc' - 1 PROVE RandomRule(tape'[q], hkey'[q], hkey'[q + 1], hmask'[q], hmask'[q + 1])
    <3>1. q \in 1 .. p - 1 \/ q = p
      BY <1>3, <1>5
    <3>2. CASE q = p
      <4>1. RandomRule(e, rkey, rkey', rmask, rmask')
        BY <1>4 DEF RandomEffect
      <4>2. hkey'[p] = rkey /\ hmask'[p] = rmask /\ hkey'[p + 1] = rkey' /\ hmask'[p + 1] = rmask'
        BY <1>3, <1>10, <1>13, <1>16
      <4> QED BY <1>1, <1>5, <3>2, <4>1, <4>2
    <3>3. CASE q \in 1 .. p - 1
      <4>1. RandomRule(tape[q], hkey[q], hkey[q + 1], hmask[q], hmask[q + 1])
        BY <1>1, <1>7, <3>3 DEF History
      <4>2. hkey'[q] = hkey[q] /\ hmask'[q] = hmask[q] /\ hkey'[q + 1] = hkey[q + 1] /\ hmask'[q + 1] = hmask[q + 1]
        BY <1>10, <1>13, <1>16, <3>3
      <4> QED BY <1>5, <4>1, <4>2
    <3> QED BY <3>1, <3>2, <3>3
  <2>3. ASSUME NEW i \in Party, NEW r \in Reg PROVE pkey'[i][r] = hkey'[ppc'[i]][r][i]
    <3>1. pkey[i][r] = hkey[1][r][i]
      BY <1>6, <1>7 DEF History
    <3>2. hkey'[1] = hkey[1]
      BY <1>10, <1>13, <1>16
    <3> QED BY <1>5, <1>9, <3>1, <3>2
  <2>4. \A i \in Party : gate_counter'[i] = Ands(tape', ppc'[i]) /\ gate_counter2'[i] = Ands(tape', epc'[i])
    BY <1>5, <1>7 DEF History
  <2> QED BY <2>1, <2>2, <2>3, <2>4 DEF History
<1>20. \A f : Stream(f, 1, 1) = <<>>
  BY StreamNone
<1>21. ASSUME NEW i
       PROVE  /\ Stream(SentKeys(tape, L, i), 1, p + 1) =
                   Cat(Stream(SentKeys(tape, hkey, i), 1, p), SentKeys(tape, L, i)[p])
              /\ Stream(SentInputMasks(tape, O, i), 1, p + 1) =
                   Cat(Stream(SentInputMasks(tape, hmask, i), 1, p), SentInputMasks(tape, O, i)[p])
              /\ Stream(SentOutputMasks(tape, O), 1, p + 1) =
                   Cat(Stream(SentOutputMasks(tape, hmask), 1, p), SentOutputMasks(tape, O)[p])
              /\ Stream(StoredWires(tape, L, O), 1, p + 1) =
                   Cat(Stream(StoredWires(tape, hkey, hmask), 1, p), StoredWires(tape, L, O)[p])
  <2>1. /\ Pieces(SentKeys(tape, L, i), 1, p + 1) /\ Pieces(SentInputMasks(tape, O, i), 1, p + 1)
        /\ Pieces(SentOutputMasks(tape, O), 1, p + 1) /\ Pieces(StoredWires(tape, L, O), 1, p + 1)
    <3>1. 1 \in Int /\ 1 >= 1 /\ p + 1 \in Int /\ p + 1 <= Len(tape) + 1
      BY <1>16
    <3> QED BY <1>3, <1>15, <3>1, AllPieces
  <2>2. ASSUME NEW q \in 1 .. p - 1
        PROVE  /\ SentKeys(tape, hkey, i)[q] = SentKeys(tape, L, i)[q]
               /\ SentInputMasks(tape, hmask, i)[q] = SentInputMasks(tape, O, i)[q]
               /\ SentOutputMasks(tape, hmask)[q] = SentOutputMasks(tape, O)[q]
               /\ StoredWires(tape, hkey, hmask)[q] = StoredWires(tape, L, O)[q]
    <3>1. q \in DOMAIN tape /\ hkey[q] = L[q] /\ hkey[q + 1] = L[q + 1] /\ hmask[q] = O[q] /\ hmask[q + 1] = O[q + 1]
      BY <1>13, <1>16
    <3> QED BY <3>1 DEF SentKeys, SentInputMasks, SentOutputMasks, StoredWires
  <2>3. 1 \in Int /\ p \in Int /\ 1 <= p
    BY <1>3
  <2>4. Stream(SentKeys(tape, L, i), 1, p + 1) = Cat(Stream(SentKeys(tape, hkey, i), 1, p), SentKeys(tape, L, i)[p])
    BY <2>1, <2>2, <2>3, StreamWritten, ZenonT(60)
  <2>5. Stream(SentInputMasks(tape, O, i), 1, p + 1) =
          Cat(Stream(SentInputMasks(tape, hmask, i), 1, p), SentInputMasks(tape, O, i)[p])
    BY <2>1, <2>2, <2>3, StreamWritten
  <2>6. Stream(SentOutputMasks(tape, O), 1, p + 1) =
          Cat(Stream(SentOutputMasks(tape, hmask), 1, p), SentOutputMasks(tape, O)[p])
    BY <2>1, <2>2, <2>3, StreamWritten, ZenonT(60)
  <2>7. Stream(StoredWires(tape, L, O), 1, p + 1) =
          Cat(Stream(StoredWires(tape, hkey, hmask), 1, p), StoredWires(tape, L, O)[p])
    BY <2>1, <2>2, <2>3, StreamWritten
  <2> QED BY <2>4, <2>5, <2>6, <2>7
<1>22. twires' = Stream(StoredWires(tape, L, O), 1, p + 1)
  <2>1. twires = Stream(StoredWires(tape, hkey, hmask), 1, p) /\ IsSeq(twires)
    BY <1>1, <1>6, <1>7, StreamsAreSeqs DEF Streams
  <2>2. e.op \in Drawn \cup {"public"} => StoredWires(tape, L, O)[p] = StoredWire(rmask'[e.out], rkey'[e.out])
    <3>1. e.op \in Drawn \cup {"public"} =>
            StoredWires(tape, L, O)[p] = StoredWire(O[p + 1][tape[p].out], L[p + 1][tape[p].out])
      BY <1>1, <1>3, StoredAt
    <3> QED BY <1>1, <1>13, <3>1
  <2>3. e.op \notin Drawn \cup {"public"} => StoredWires(tape, L, O)[p] = <<>>
    BY <1>1, <1>3, StoredAt
  <2>4. twires' = Cat(twires, StoredWires(tape, L, O)[p])
    <3>1. CASE e.op \in Drawn \cup {"public"}
      BY <1>4, <2>2, <3>1 DEF RandomEffect
    <3>2. CASE e.op \notin Drawn \cup {"public"}
      <4>1. twires' = twires
        BY <1>4, <3>2 DEF RandomEffect
      <4> QED BY <2>1, <2>3, <3>2, <4>1, CatEmpty
    <3> QED BY <3>1, <3>2
  <2> QED BY <1>21, <2>1, <2>4
<1>23. ASSUME NEW i \in Party
       PROVE  /\ msg_keys'[i] = Stream(SentKeys(tape, L, i), 1, p + 1)
              /\ msg_input_masks'[i] = Stream(SentInputMasks(tape, O, i), 1, p + 1)
              /\ msg_output_masks'[i] = Stream(SentOutputMasks(tape, O), 1, p + 1)
  <2>1. /\ msg_keys[i] = Stream(SentKeys(tape, hkey, i), 1, p)
        /\ msg_input_masks[i] = Stream(SentInputMasks(tape, hmask, i), 1, p)
        /\ msg_output_masks[i] = Stream(SentOutputMasks(tape, hmask), 1, p)
    BY <1>1, <1>6, <1>7 DEF Streams
  <2>2. IsSeq(msg_input_masks[i]) /\ IsSeq(msg_output_masks[i])
    BY StreamsAreSeqs
  <2>3. msg_keys'[i] = Cat(msg_keys[i], SentKeys(tape, L, i)[p])
    <3>1. SentKeys(tape, L, i)[p] = KeyPiece(e, rkey'[e.out], i)
      BY <1>1, <1>3, <1>13, <1>15, KeysAt
    <3>2. msg_keys'[i] = Cat(msg_keys[i], KeyPiece(e, rkey'[e.out], i))
      BY <1>4 DEF RandomEffect
    <3> QED BY <3>1, <3>2
  <2>4. msg_input_masks'[i] = Cat(msg_input_masks[i], SentInputMasks(tape, O, i)[p])
    <3>1. /\ e.op = "input" /\ e.i = i => SentInputMasks(tape, O, i)[p] = <<rmask'[e.out]>>
          /\ ~ (e.op = "input" /\ e.i = i) => SentInputMasks(tape, O, i)[p] = <<>>
      <4>1. /\ e.op = "input" /\ e.i = i => SentInputMasks(tape, O, i)[p] = <<O[p + 1][tape[p].out]>>
            /\ ~ (e.op = "input" /\ e.i = i) => SentInputMasks(tape, O, i)[p] = <<>>
        BY <1>1, <1>3, InputMasksAt, ZenonT(60)
      <4> QED BY <1>1, <1>13, <4>1
    <3>2. /\ e.op = "input" /\ e.i = i => msg_input_masks'[i] = Cat(msg_input_masks[i], <<rmask'[e.out]>>)
          /\ ~ (e.op = "input" /\ e.i = i) => msg_input_masks'[i] = msg_input_masks[i]
      BY <1>4 DEF RandomEffect
    <3>3. Cat(msg_input_masks[i], <<>>) = msg_input_masks[i]
      BY <2>2, CatEmpty
    <3> QED BY <3>1, <3>2, <3>3
  <2>5. msg_output_masks'[i] = Cat(msg_output_masks[i], SentOutputMasks(tape, O)[p])
    <3>1. O[p] = rmask
      BY <1>3, <1>13, <1>16
    <3>2. /\ e.op = "reveal" => SentOutputMasks(tape, O)[p] = <<rmask[e.left]>>
          /\ e.op # "reveal" => SentOutputMasks(tape, O)[p] = <<>>
      BY <1>1, <1>3, <3>1, OutputMasksAt
    <3>3. /\ e.op = "reveal" => msg_output_masks'[i] = Cat(msg_output_masks[i], <<rmask[e.left]>>)
          /\ e.op # "reveal" => msg_output_masks'[i] = msg_output_masks[i]
      BY <1>4 DEF RandomEffect
    <3>4. Cat(msg_output_masks[i], <<>>) = msg_output_masks[i]
      BY <2>2, CatEmpty
    <3> QED BY <3>2, <3>3, <3>4
  <2> QED BY <1>21, <2>1, <2>3, <2>4, <2>5
<1>24. \A c : Store(c, <<>>) = <<>>
  BY DEF Store
<1>25. ASSUME NEW i \in Party PROVE prf_outputs[i] = <<>> /\ wires[i] = <<>> /\ gates[i] = <<>> /\ circuit = <<>>
  <2>1. /\ prf_outputs[i] = Stream(SentTuples(tape, hkey, i), 1, 1)
        /\ wires[i] = Stream(KeptWires(tape, hkey, i), 1, 1)
        /\ gates[i] = Store(Ended(gpc), Stream(SentGates(tape, hkey, hmask), 1, 1))
        /\ circuit = Stream(SentGates(tape, hkey, hmask), 1, 1)
    BY <1>6, <1>7 DEF Streams
  <2> QED BY <1>20, <1>24, <2>1
<1>26. circuit = <<>>
  BY <1>6, <1>7, <1>20 DEF Streams
<1>27. Streams'
  <2>1. twires' = Stream(StoredWires(tape', hkey', hmask'), gpc', rpc')
    BY <1>5, <1>6, <1>10, <1>22
  <2>2. circuit' = Stream(SentGates(tape', hkey', hmask'), 1, gpc')
    BY <1>5, <1>6, <1>20, <1>26
  <2>3. ASSUME NEW i \in Party
        PROVE  /\ msg_keys'[i] = Stream(SentKeys(tape', hkey', i), ppc'[i], rpc')
               /\ msg_input_masks'[i] = Stream(SentInputMasks(tape', hmask', i), Reached(i)', rpc')
               /\ msg_output_masks'[i] = Stream(SentOutputMasks(tape', hmask'), Reached(i)', rpc')
    BY <1>5, <1>9, <1>10, <1>23
  <2>4. ASSUME NEW i \in Party
        PROVE  /\ prf_outputs'[i] = Stream(SentTuples(tape', hkey', i), gpc', ppc'[i])
               /\ wires'[i] = Stream(KeptWires(tape', hkey', i), Reached(i)', ppc'[i])
               /\ gates'[i] = Store(Ended(gpc)', Stream(SentGates(tape', hkey', hmask'), Reached(i)', gpc'))
    BY <1>5, <1>6, <1>9, <1>20, <1>24, <1>25
  <2> QED BY <2>1, <2>2, <2>3, <2>4 DEF Streams
<1>28. Messages'
  <2>1. ASSUME NEW j \in Party, NEW k \in Party PROVE net[j][k] = <<>>
    <3>1. CASE j = k
      BY <1>7, <3>1 DEF Messages
    <3>2. CASE j # k
      <4>1. net[j][k] = Stream(SentLabels(tape, hkey, hmask, j, BegunAt(k)), epc[k], Reached(j))
        BY <1>7, <3>2 DEF Messages
      <4> QED BY <1>6, <1>20, <4>1
    <3> QED BY <3>1, <3>2
  <2>2. 1 .. 1 - 1 = {}
    OBVIOUS
  <2>3. ASSUME NEW j \in Party, NEW k \in Party
        PROVE  /\ net'[j][k] = Stream(SentLabels(tape', hkey', hmask', j, BegunAt(k)'), epc'[k], Reached(j)')
               /\ ~ waiting'[k] /\ Reached(j)' .. epc'[k] - 1 = {} /\ net'[j][k] = <<>>
    BY <1>5, <1>9, <1>20, <2>1, <2>2
  <2> QED BY <2>3 DEF Messages
<1>29. Labels'
  <2>1. Known(tape', 1) = {}
    BY <1>3, <1>5, KnownFirst
  <2> QED BY <1>9, <2>1 DEF Labels, Fits, Begun
<1>30. (Places /\ Types /\ History /\ Streams /\ Messages /\ Labels)'
  BY <1>17, <1>18, <1>19, <1>27, <1>28, <1>29
<1> QED BY <1>30, Parts, PTL

-----------------------------------------------------------------------------
(* A step of party i: g is f but for what party i now has.                  *)
OnlyFor(i, f, g, v) == PerParty(g) /\ g[i] = v /\ \A j \in Party \ {i} : g[j] = f[j]

LEMMA OnlyForNew ==
  ASSUME NEW i \in Party, NEW f, PerParty(f), NEW v, NEW g, g = [f EXCEPT ![i] = v]
  PROVE  OnlyFor(i, f, g, v)
<1>1. DOMAIN f = Party /\ DOMAIN g = Party /\ g[i] = v /\ \A j \in Party \ {i} : g[j] = f[j]
  BY DEF PerParty
<1>2. g = [j \in Party |-> g[j]]
  BY DEF PerParty
<1> QED BY <1>1, <1>2 DEF OnlyFor, PerParty

LEMMA OnlyForSame ==
  ASSUME NEW i \in Party, NEW f, PerParty(f), NEW g, g = f, NEW v, v = f[i]
  PROVE  OnlyFor(i, f, g, v)
BY DEF OnlyFor

-----------------------------------------------------------------------------
(* PRFRegister.                                                             *)
LEMMA PrfKnows ==
  ASSUME IInv, NEW i \in Party, Ended(rpc), ~ Ended(ppc[i]), NEW p, p = ppc[i]
  PROVE  /\ tape \in Tapes /\ p \in DOMAIN tape /\ p \in Positions /\ p + 1 \in Positions /\ p \in Nat /\ p >= 1
         /\ rpc = Len(tape) + 1 /\ p < rpc /\ rpc \in Int /\ p + 1 <= Len(tape) + 1
         /\ KeysTyped(tape, hkey) /\ PerParty(hkey[p + 1][tape[p].out])
         /\ RandomRule(tape[p], hkey[p], hkey[p + 1], hmask[p], hmask[p + 1])
         /\ pkey[i] = [r \in Reg |-> pkey[i][r]] /\ \A r \in Reg : pkey[i][r] = hkey[p][r][i]
         /\ gate_counter[i] = Ands(tape, p)
<1>1. tape \in Tapes /\ rpc \in Positions /\ ppc[i] \in Positions /\ KeysTyped(tape, hkey)
  BY Before
<1>2. /\ p \in DOMAIN tape /\ p \in Positions /\ p + 1 \in Positions /\ p \in Nat /\ p >= 1
      /\ rpc = Len(tape) + 1 /\ p < rpc /\ rpc \in Int /\ p + 1 <= Len(tape) + 1 /\ p \in 1 .. rpc - 1
  <2>1. Len(tape) \in Nat /\ DOMAIN tape = 1 .. Len(tape)
    BY <1>1, PositionFacts
  <2> QED BY <1>1, <2>1 DEF Positions, Ended
<1>3. PerParty(hkey[p + 1][tape[p].out])
  BY <1>1, <1>2, KeysAt
<1>4. RandomRule(tape[p], hkey[p], hkey[p + 1], hmask[p], hmask[p + 1])
  BY <1>2 DEF IInv, History
<1>5. pkey[i] = [r \in Reg |-> pkey[i][r]]
  BY DEF IInv, Types
<1>6. gate_counter[i] = Ands(tape, p) /\ \A r \in Reg : pkey[i][r] = hkey[p][r][i]
  BY DEF IInv, History
<1> QED BY <1>1, <1>2, <1>3, <1>4, <1>5, <1>6

(* What the party is about to read from its stream of keys.                 *)
LEMMA PrfReads ==
  ASSUME IInv, NEW i \in Party, Ended(rpc), ~ Ended(ppc[i]), NEW p, p = ppc[i],
         NEW rest, rest = Stream(SentKeys(tape, hkey, i), p + 1, rpc),
         NEW k, k = hkey[p + 1][tape[p].out]
  PROVE  IsSeq(rest) /\ msg_keys[i] = Cat(KeyPiece(tape[p], k, i), rest)
<1>1. /\ tape \in Tapes /\ p \in DOMAIN tape /\ p \in Nat /\ p >= 1
      /\ rpc = Len(tape) + 1 /\ p < rpc /\ rpc \in Int /\ KeysTyped(tape, hkey)
  BY PrfKnows
<1>2. SentKeys(tape, hkey, i)[p] = KeyPiece(tape[p], k, i)
  BY <1>1, KeysAt
<1>3. p \in Int /\ p >= 1 /\ rpc <= Len(tape) + 1
  BY <1>1
<1>4. Pieces(SentKeys(tape, hkey, i), p, rpc)
  BY <1>1, <1>3, AllPieces
<1>5. /\ Stream(SentKeys(tape, hkey, i), p, rpc) = Cat(SentKeys(tape, hkey, i)[p], rest)
      /\ IsSeq(rest)
  BY <1>1, <1>3, <1>4, StreamRead
<1>6. msg_keys[i] = Stream(SentKeys(tape, hkey, i), p, rpc)
  BY DEF IInv, Streams
<1> QED BY <1>2, <1>5, <1>6

(* What a step of PRFRegister does.                                         *)
PrfEffect(i, p) ==
  /\ OnlyFor(i, msg_keys, msg_keys', Stream(SentKeys(tape, hkey, i), p + 1, rpc))
  /\ PerParty(pkey') /\ \A j \in Party \ {i} : pkey'[j] = pkey[j]
  /\ pkey'[i] = [r \in Reg |-> hkey[p + 1][r][i]]
  /\ OnlyFor(i, gate_counter, gate_counter', Ands(tape, p + 1))
  /\ OnlyFor(i, prf_outputs, prf_outputs', Cat(prf_outputs[i], SentTuples(tape, hkey, i)[p]))
  /\ OnlyFor(i, wires, wires', Cat(wires[i], KeptWires(tape, hkey, i)[p]))

(* The wire that is written is the party's share of the trusted party's.    *)
LEMMA PrfWritten ==
  ASSUME IInv, NEW i \in Party, Ended(rpc), ~ Ended(ppc[i]), NEW p, p = ppc[i],
         NEW k, k = hkey[p + 1][tape[p].out][i], PrfWire(i, tape[p].out, k), tape[p].op # "reveal"
  PROVE  /\ PerParty(pkey') /\ \A j \in Party \ {i} : pkey'[j] = pkey[j]
         /\ pkey'[i] = [r \in Reg |-> hkey[p + 1][r][i]]
<1>1. /\ tape \in Tapes /\ p \in DOMAIN tape /\ pkey[i] = [r \in Reg |-> pkey[i][r]] /\ \A r \in Reg : pkey[i][r] = hkey[p][r][i]
      /\ RandomRule(tape[p], hkey[p], hkey[p + 1], hmask[p], hmask[p + 1])
  BY PrfKnows
<1>2. PICK v : v = [pkey[i] EXCEPT ![tape[p].out] = k]
  OBVIOUS
<1>3. pkey' = [pkey EXCEPT ![i] = v]
  BY <1>2 DEF PrfWire
<1>4. PerParty(pkey)
  BY DEF IInv, Types
<1>5. OnlyFor(i, pkey, pkey', v)
  BY <1>3, <1>4, OnlyForNew
<1>6. tape[p].out \in Reg
  BY <1>1, EntryFacts
<1>7. DOMAIN v = Reg /\ v[tape[p].out] = k /\ \A r \in Reg \ {tape[p].out} : v[r] = pkey[i][r]
  BY <1>1, <1>2, <1>6
<1>8. \A r \in Reg \ {tape[p].out} : hkey[p + 1][r] = hkey[p][r]
  BY <1>1 DEF RandomRule
<1>9. \A r \in Reg : v[r] = hkey[p + 1][r][i]
  <2> TAKE r \in Reg
  <2>1. CASE r = tape[p].out
    BY <1>7, <2>1
  <2>2. CASE r # tape[p].out
    BY <1>1, <1>7, <1>8, <2>2
  <2> QED BY <2>1, <2>2
<1>10. v = [r \in Reg |-> v[r]]
  BY <1>2, <1>7
<1> QED BY <1>5, <1>9, <1>10 DEF OnlyFor

LEMMA PrfDoes ==
  ASSUME IInv, NEW i \in Party, Ended(rpc), ~ Ended(ppc[i]),
         LET e == tape[ppc[i]] IN PrfAnd(i, e) \/ PrfInput(i, e) \/ PrfLinear(i, e) \/ PrfOutput(i, e)
  PROVE  PrfEffect(i, ppc[i])
<1>0. PICK p, e : p = ppc[i] /\ e = tape[p]
  OBVIOUS
<1>1. /\ tape \in Tapes /\ p \in DOMAIN tape /\ p \in Nat /\ p >= 1 /\ KeysTyped(tape, hkey)
      /\ RandomRule(e, hkey[p], hkey[p + 1], hmask[p], hmask[p + 1])
      /\ pkey[i] = [r \in Reg |-> pkey[i][r]] /\ (\A r \in Reg : pkey[i][r] = hkey[p][r][i])
      /\ gate_counter[i] = Ands(tape, p)
  BY <1>0, PrfKnows
<1>2. /\ e.out \in Reg /\ e.left \in Reg /\ e.right \in Reg /\ e.val \in BOOLEAN
  BY <1>0, <1>1, EntryFacts
<1>3. PICK k, rest, w, c : /\ k = hkey[p + 1][e.out] /\ rest = Stream(SentKeys(tape, hkey, i), p + 1, rpc)
                           /\ w = wires[i] /\ c = msg_keys[i]
  OBVIOUS
<1>4. PerParty(k) /\ IsSeq(k) /\ Len(k) = N
  BY <1>0, <1>3, PrfKnows, PartySeq
<1>5. IsSeq(rest) /\ c = Cat(KeyPiece(e, k, i), rest)
  BY <1>0, <1>3, PrfReads
<1>6. /\ PerParty(msg_keys) /\ PerParty(pkey) /\ PerParty(prf_outputs) /\ PerParty(wires) /\ PerParty(gate_counter)
  BY DEF IInv, Types
<1>7. IsSeq(w) /\ IsSeq(prf_outputs[i])
  BY <1>3, StreamsAreSeqs
<1>8. Ands(tape, p + 1) = (IF e.op = "and" THEN Ands(tape, p) + 1 ELSE Ands(tape, p)) /\ Ands(tape, p) \in Nat
  BY <1>0, <1>1, AndsFacts
<1>9. KeptWires(tape, hkey, i)[p] = WirePiece(e, k, hkey[p][e.left], i)
  BY <1>0, <1>1, <1>3, KeptAt
<1>20. /\ e.op = "input" => KeptWires(tape, hkey, i)[p] = <<k[i]>>
       /\ e.op = "random" => KeptWires(tape, hkey, i)[p] = Cat(<<k[i]>>, k)
       /\ e.op = "reveal" => KeptWires(tape, hkey, i)[p] = <<hkey[p][e.left][i]>>
  <2>1. PICK l : l = hkey[p][e.left]
    OBVIOUS
  <2>2. /\ e.op = "input" => WirePiece(e, k, l, i) = <<k[i]>>
        /\ e.op = "random" => WirePiece(e, k, l, i) = Cat(<<k[i]>>, k)
        /\ e.op = "reveal" => WirePiece(e, k, l, i) = <<l[i]>>
    BY <1>4, WirePieceFacts
  <2> QED BY <1>9, <2>1, <2>2
<1>10. /\ e.op = "and" => SentTuples(tape, hkey, i)[p] = <<Tuples(tape, hkey, i, p)>>
       /\ e.op # "and" => SentTuples(tape, hkey, i)[p] = <<>>
  <2>1. /\ tape[p].op = "and" => SentTuples(tape, hkey, i)[p] = <<Tuples(tape, hkey, i, p)>>
        /\ tape[p].op # "and" => SentTuples(tape, hkey, i)[p] = <<>>
    <3>1. p \in DOMAIN tape
      BY <1>1
    <3> QED BY ONLY <3>1, TuplesAt
  <2> QED BY <1>0, <2>1
<1>11. PICK d : d = <<k[i], Add(k[i], Delta(i))>>
  OBVIOUS
<1>12. IsSeq(d) /\ Len(d) = 2 /\ Head(d) = k[i] /\ d # <<>>
  BY <1>11, TwoFacts
<1>13. ASSUME e.op \notin Drawn, msg_keys' = msg_keys
       PROVE  OnlyFor(i, msg_keys, msg_keys', rest)
  <2>1. KeyPiece(e, k, i) = <<>>
    BY <1>4, <1>13, KeyPieceFacts
  <2>2. rest = msg_keys[i]
    BY <1>3, <1>5, <2>1, CatEmpty
  <2> QED BY <1>6, <1>13, <2>2, OnlyForSame
<1>14. ASSUME gate_counter' = gate_counter, prf_outputs' = prf_outputs, e.op # "and"
       PROVE  /\ OnlyFor(i, gate_counter, gate_counter', Ands(tape, p + 1))
              /\ OnlyFor(i, prf_outputs, prf_outputs', Cat(prf_outputs[i], SentTuples(tape, hkey, i)[p]))
  <2>1. Cat(prf_outputs[i], SentTuples(tape, hkey, i)[p]) = prf_outputs[i]
    BY <1>7, <1>10, <1>14, CatEmpty
  <2>2. Ands(tape, p + 1) = gate_counter[i]
    BY <1>1, <1>8, <1>14
  <2> QED BY <1>6, <1>14, <2>1, <2>2, OnlyForSame
<1>15. ASSUME wires' = wires, e.op \notin {"input", "random", "reveal"}
       PROVE  OnlyFor(i, wires, wires', Cat(wires[i], KeptWires(tape, hkey, i)[p]))
  <2>1. WirePiece(e, k, hkey[p][e.left], i) = <<>>
    BY <1>4, <1>15, WirePieceFacts
  <2>2. Cat(wires[i], KeptWires(tape, hkey, i)[p]) = wires[i]
    BY <1>3, <1>7, <1>9, <2>1, CatEmpty
  <2> QED BY <1>6, <1>15, <2>2, OnlyForSame
<1>16. CASE PrfAnd(i, e)
  <2>1. /\ e.op = "and" /\ ReceiveKeys(i, FALSE) /\ PrfWire(i, e.out, Head(c)) /\ wires' = wires
        /\ gate_counter' = [gate_counter EXCEPT ![i] = gate_counter[i] + 1]
        /\ prf_outputs' = [prf_outputs EXCEPT ![i] = Append(prf_outputs[i], PrfTuples(i, e, gate_counter'[i]))]
    BY <1>3, <1>16 DEF PrfAnd
  <2>2. KeyPiece(e, k, i) = d
    BY <1>4, <1>11, <2>1, KeyPieceFacts DEF Drawn
  <2>3. Head(c) = k[i]
    BY <1>5, <1>12, <2>2, CatHead
  <2>4. OnlyFor(i, msg_keys, msg_keys', rest)
    <3>1. msg_keys' = [msg_keys EXCEPT ![i] = SubSeq(c, 3, Len(c))]
      BY <1>3, <2>1 DEF ReceiveKeys
    <3>2. SubSeq(c, Len(d) + 1, Len(c)) = rest
      BY <1>5, <1>12, <2>2, Rest
    <3>3. SubSeq(c, 3, Len(c)) = rest
      BY <1>12, <3>2
    <3> QED BY <1>6, <3>1, <3>3, OnlyForNew
  <2>5. /\ PerParty(pkey') /\ \A j \in Party \ {i} : pkey'[j] = pkey[j]
        /\ pkey'[i] = [r \in Reg |-> hkey[p + 1][r][i]]
    BY <1>3, <2>1, <2>3, <1>0, PrfWritten
  <2>6. OnlyFor(i, gate_counter, gate_counter', Ands(tape, p + 1))
    BY <1>1, <1>6, <1>8, <2>1, OnlyForNew
  <2>7. PrfTuples(i, e, gate_counter'[i]) = Tuples(tape, hkey, i, p)
    <3>1. gate_counter'[i] = Ands(tape, p) + 1
      BY <1>8, <2>1, <2>6 DEF OnlyFor
    <3>2. PICK s : s = [r \in Reg |-> hkey[p + 1][r][i]]
      OBVIOUS
    <3>3. pkey'[i] = s
      BY <2>5, <3>2
    <3>4. Tuples(tape, hkey, i, p) = TuplesOf(s, e, i, Ands(tape, p) + 1)
      BY <1>0, <3>2 DEF Tuples
    <3>5. PrfTuples(i, e, gate_counter'[i]) = TuplesOf(pkey'[i], e, i, gate_counter'[i])
      BY DEF PrfTuples, TuplesOf
    <3> QED BY <3>1, <3>3, <3>4, <3>5
  <2>8. OnlyFor(i, prf_outputs, prf_outputs', Cat(prf_outputs[i], SentTuples(tape, hkey, i)[p]))
    <3>1. PICK o, x : o = prf_outputs[i] /\ x = Tuples(tape, hkey, i, p)
      OBVIOUS
    <3>2. prf_outputs' = [prf_outputs EXCEPT ![i] = Append(o, x)]
      BY <2>1, <2>7, <3>1
    <3>3. Append(o, x) = Cat(o, <<x>>)
      BY <1>7, <3>1, AppendIsCat
    <3>4. SentTuples(tape, hkey, i)[p] = <<x>>
      BY <1>10, <2>1, <3>1
    <3> QED BY <1>6, <3>1, <3>2, <3>3, <3>4, OnlyForNew
  <2>20. PrfEffect(i, p)
    BY <1>3, <1>15, <2>1, <2>4, <2>5, <2>6, <2>8 DEF PrfEffect
  <2> QED BY <1>0, <2>20
<1>17. CASE PrfInput(i, e)
  <2>1. /\ e.op \in {"input", "random"} /\ ReceiveKeys(i, e.op = "random") /\ PrfWire(i, e.out, Head(c))
        /\ gate_counter' = gate_counter /\ prf_outputs' = prf_outputs
        /\ wires' = [wires EXCEPT ![i] = Append(w, Head(c)) \o (IF e.op = "random" THEN SubSeq(c, 3, N + 2) ELSE <<>>)]
    BY <1>3, <1>17 DEF PrfInput
  <2>2. PICK a : a = KeyPiece(e, k, i)
    OBVIOUS
  <2>3. /\ e.op = "input" => a = d
        /\ e.op = "random" => a = Cat(d, k)
    BY <1>4, <1>11, <2>2, KeyPieceFacts DEF Drawn
  <2>4. /\ IsSeq(a) /\ a # <<>> /\ Head(a) = k[i] /\ Len(a) = (IF e.op = "random" THEN N + 2 ELSE 2)
    <3>1. CASE e.op = "input"
      BY <1>12, <2>3, <3>1
    <3>2. CASE e.op = "random"
      <4>1. a = Cat(d, k)
        BY <2>3, <3>2
      <4>2. Len(a) = Len(d) + Len(k) /\ a # <<>> /\ Head(a) = Head(d) /\ IsSeq(a)
        BY <1>4, <1>12, <4>1, CatElements, CatHead, CatSeq
      <4>3. N \in Nat
        BY PartiesAssumption
      <4> QED BY <1>4, <1>12, <3>2, <4>2, <4>3
    <3> QED BY <2>1, <3>1, <3>2
  <2>5. Head(c) = k[i]
    BY <1>5, <2>2, <2>4, CatHead
  <2>6. OnlyFor(i, msg_keys, msg_keys', rest)
    <3>1. PICK n : n = (IF e.op = "random" THEN N + 3 ELSE 3)
      OBVIOUS
    <3>2. msg_keys' = [msg_keys EXCEPT ![i] = SubSeq(c, n, Len(c))]
      BY <1>3, <2>1, <3>1 DEF ReceiveKeys
    <3>3. SubSeq(c, Len(a) + 1, Len(c)) = rest
      BY <1>5, <2>2, <2>4, Rest
    <3>4. n = Len(a) + 1
      BY <2>4, <3>1, PartiesAssumption
    <3> QED BY <1>6, <3>2, <3>3, <3>4, OnlyForNew
  <2>7. /\ PerParty(pkey') /\ \A j \in Party \ {i} : pkey'[j] = pkey[j]
        /\ pkey'[i] = [r \in Reg |-> hkey[p + 1][r][i]]
    <3>1. e.op # "reveal"
      BY <2>1
    <3> QED BY <1>3, <2>1, <2>5, <3>1, <1>0, PrfWritten, SMTT(30)
  <2>8. OnlyFor(i, wires, wires', Cat(wires[i], KeptWires(tape, hkey, i)[p]))
    <3>1. PICK x, z, s : /\ x = <<k[i]>> /\ z = (IF e.op = "random" THEN SubSeq(c, 3, N + 2) ELSE <<>>)
                         /\ s = Append(w, Head(c)) \o z
      OBVIOUS
    <3>2. OnlyFor(i, wires, wires', s)
      BY <1>6, <2>1, <3>1, OnlyForNew
    <3>3. s = Cat(Cat(w, x), z)
      BY <1>7, <2>5, <3>1, AppendIsCat DEF Cat
    <3>4. IsSeq(x)
      BY <3>1, OneFacts
    <3>5. CASE e.op = "input"
      <4>1. z = <<>> /\ IsSeq(Cat(w, x))
        BY <1>7, <3>1, <3>4, <3>5, CatSeq
      <4>2. s = Cat(w, x)
        BY <3>3, <4>1, CatEmpty
      <4>3. KeptWires(tape, hkey, i)[p] = x
        BY <1>20, <3>1, <3>5
      <4> QED BY <1>3, <3>2, <4>2, <4>3
    <3>6. CASE e.op = "random"
      <4>1. c = Cat(d, Cat(k, rest))
        BY <1>4, <1>5, <1>12, <2>2, <2>3, <3>6, CatAssoc
      <4>2. SubSeq(c, Len(d) + 1, Len(d) + Len(k)) = k
        BY <1>4, <1>5, <1>12, <4>1, Middle
      <4>3. Len(d) + 1 = 3 /\ Len(d) + Len(k) = N + 2
        BY <1>4, <1>12, PartiesAssumption
      <4>4. z = k
        BY <3>1, <3>6, <4>2, <4>3
      <4>5. KeptWires(tape, hkey, i)[p] = Cat(x, k)
        BY <1>20, <3>1, <3>6
      <4>6. s = Cat(w, Cat(x, k))
        BY <1>4, <1>7, <3>3, <3>4, <4>4, CatAssoc
      <4> QED BY <1>3, <3>2, <4>5, <4>6
    <3> QED BY <2>1, <3>5, <3>6
  <2>9. e.op # "and"
    BY <2>1
  <2>20. PrfEffect(i, p)
    BY <1>3, <1>14, <2>1, <2>6, <2>7, <2>8, <2>9 DEF PrfEffect
  <2> QED BY <1>0, <2>20
<1>18. CASE PrfLinear(i, e)
  <2>1. /\ msg_keys' = msg_keys /\ gate_counter' = gate_counter /\ prf_outputs' = prf_outputs /\ wires' = wires
        /\ e.op \in {"public", "xor"}
    BY <1>18 DEF PrfLinear
  <2>2. PrfWire(i, e.out, k[i])
    <3>1. CASE e.op = "public"
      <4>1. k[i] = DeltaIf(i, e.val)
        BY <1>1, <1>3, <3>1 DEF RandomRule
      <4> QED BY <1>18, <3>1, <4>1 DEF PrfLinear
    <3>2. CASE e.op = "xor"
      <4>1. k[i] = Add(hkey[p][e.left][i], hkey[p][e.right][i])
        BY <1>1, <1>3, <3>2 DEF RandomRule, AddEach
      <4>2. k[i] = Add(pkey[i][e.left], pkey[i][e.right])
        BY <1>1, <1>2, <4>1
      <4> QED BY <1>18, <3>2, <4>2 DEF PrfLinear
    <3> QED BY <2>1, <3>1, <3>2
  <2>3. e.op # "reveal" /\ e.op # "and" /\ e.op \notin Drawn /\ e.op \notin {"input", "random", "reveal"}
    BY <2>1 DEF Drawn
  <2>4. /\ PerParty(pkey') /\ \A j \in Party \ {i} : pkey'[j] = pkey[j]
        /\ pkey'[i] = [r \in Reg |-> hkey[p + 1][r][i]]
    BY <1>3, <2>2, <2>3, <1>0, PrfWritten
  <2>20. PrfEffect(i, p)
    BY <1>3, <1>13, <1>14, <1>15, <2>1, <2>3, <2>4 DEF PrfEffect
  <2> QED BY <1>0, <2>20
<1>19. CASE PrfOutput(i, e)
  <2>1. /\ e.op = "reveal" /\ msg_keys' = msg_keys /\ pkey' = pkey /\ gate_counter' = gate_counter
        /\ prf_outputs' = prf_outputs
        /\ wires' = [wires EXCEPT ![i] = Append(w, pkey[i][e.left])]
    BY <1>3, <1>19 DEF PrfOutput
  <2>2. e.op # "and" /\ e.op \notin Drawn
    BY <2>1 DEF Drawn
  <2>3. pkey'[i] = [r \in Reg |-> hkey[p + 1][r][i]]
    <3>1. hkey[p + 1] = hkey[p]
      BY <1>1, <2>1 DEF RandomRule
    <3>2. pkey[i] = [r \in Reg |-> pkey[i][r]]
      BY <1>0, PrfKnows
    <3> QED BY <1>1, <2>1, <3>1, <3>2
  <2>4. OnlyFor(i, wires, wires', Cat(wires[i], KeptWires(tape, hkey, i)[p]))
    <3>1. PICK x : x = hkey[p][e.left][i]
      OBVIOUS
    <3>2. Append(w, pkey[i][e.left]) = Cat(w, <<x>>)
      BY <1>1, <1>2, <1>7, <3>1, AppendIsCat
    <3>3. KeptWires(tape, hkey, i)[p] = <<x>>
      BY <1>20, <2>1, <3>1
    <3> QED BY <1>3, <1>6, <2>1, <3>2, <3>3, OnlyForNew
  <2>20. PrfEffect(i, p)
    BY <1>1, <1>3, <1>6, <1>13, <1>14, <2>1, <2>2, <2>3, <2>4 DEF PrfEffect
  <2> QED BY <1>0, <2>20
<1> QED BY <1>0, <1>16, <1>17, <1>18, <1>19

(* PRFRegister preserves the invariant.                                     *)
LEMMA PrfStepIInv ==
  ASSUME IInv, NEW i \in Party, PrfStep(i)
  PROVE  IInv'
<1>1. PICK p : p = ppc[i]
  OBVIOUS
<1>2. Ended(rpc) /\ ~ Ended(ppc[i])
  BY DEF PrfStep
<1>3. /\ tape \in Tapes /\ p \in DOMAIN tape /\ p \in Positions /\ p + 1 \in Positions /\ p \in Nat /\ p >= 1
      /\ KeysTyped(tape, hkey) /\ p + 1 <= Len(tape) + 1
  BY <1>1, <1>2, PrfKnows
<1>4. PrfEffect(i, p)
  BY <1>1, <1>2, PrfDoes DEF PrfStep
<1>5. /\ ppc' = [ppc EXCEPT ![i] = p + 1]
      /\ tape' = tape /\ rpc' = rpc /\ rkey' = rkey /\ rmask' = rmask /\ drawn' = drawn
      /\ msg_input_masks' = msg_input_masks /\ msg_output_masks' = msg_output_masks /\ twires' = twires
      /\ gpc' = gpc /\ gmask' = gmask /\ circuit' = circuit
      /\ epc' = epc /\ waiting' = waiting /\ external' = external /\ entry' = entry
      /\ gate_counter2' = gate_counter2 /\ gates' = gates /\ net' = net /\ outputs' = outputs
      /\ hkey' = hkey /\ hmask' = hmask
  BY <1>1 DEF PrfStep, random, garble, eval, history
<1>6. /\ gpc = 1 /\ \A j \in Party : epc[j] = 1 /\ ~ waiting[j] /\ Reached(j) = 1
  BY <1>2, Before
<1>7. Places /\ Types /\ History /\ Streams /\ Messages /\ Labels
  BY Parts
<1>8. /\ Positions' = Positions /\ \A q : Ended(q)' <=> Ended(q)
  BY <1>5 DEF Positions, Ended
<1>9. \A j \in Party : Reached(j)' = Reached(j)
  BY <1>5 DEF Reached
<1>10. /\ ppc' \in [Party -> Positions] /\ ppc'[i] = p + 1
       /\ \A j \in Party \ {i} : ppc'[j] = ppc[j]
  <2>1. ppc \in [Party -> Positions]
    BY <1>7 DEF Places
  <2> HIDE DEF Positions
  <2> QED BY <1>3, <1>5, <2>1
<1>11. Places'
  <2>1. tape' \in Tapes /\ rpc' \in Positions' /\ gpc' \in Positions'
    BY <1>5, <1>7, <1>8 DEF Places
  <2>2. ppc' \in [Party -> Positions'] /\ epc' \in [Party -> Positions'] /\ waiting' \in [Party -> BOOLEAN]
    BY <1>5, <1>7, <1>8, <1>10 DEF Places
  <2>3. Ended(rpc)' /\ gpc' = 1 /\ \A j \in Party : epc'[j] = 1 /\ ~ waiting'[j]
    BY <1>2, <1>5, <1>6, <1>8
  <2> QED BY <2>1, <2>2, <2>3 DEF Places
<1>12. /\ OnlyFor(i, msg_keys, msg_keys', Stream(SentKeys(tape, hkey, i), p + 1, rpc))
       /\ PerParty(pkey') /\ (\A j \in Party \ {i} : pkey'[j] = pkey[j])
       /\ pkey'[i] = [r \in Reg |-> hkey[p + 1][r][i]]
       /\ OnlyFor(i, gate_counter, gate_counter', Ands(tape, p + 1))
       /\ OnlyFor(i, prf_outputs, prf_outputs', Cat(prf_outputs[i], SentTuples(tape, hkey, i)[p]))
       /\ OnlyFor(i, wires, wires', Cat(wires[i], KeptWires(tape, hkey, i)[p]))
  BY <1>4 DEF PrfEffect
<1>13. Types'
  <2>1. /\ DOMAIN hkey = Positions /\ hmask \in [Positions -> [Reg -> BOOLEAN]]
        /\ (\A q \in Positions : DOMAIN hkey[q] = Reg /\ \A r \in Reg : PerParty(hkey[q][r]))
        /\ drawn \in Nat
        /\ external \in [Party -> [Reg -> BOOLEAN]] /\ PerParty(entry)
        /\ (\A j \in Party : DOMAIN entry[j] = Reg /\ \A r \in Reg : PerParty(entry[j][r]))
        /\ PerParty(msg_input_masks) /\ PerParty(msg_output_masks) /\ PerParty(gates)
        /\ PerParty(outputs) /\ PerParty(net) /\ (\A j \in Party : PerParty(net[j]))
        /\ PerParty(gate_counter2)
    BY <1>7 DEF Types
  <2>2. \A j \in Party : pkey'[j] = [r \in Reg |-> pkey'[j][r]]
    <3> TAKE j \in Party
    <3>1. CASE j = i
      BY <1>12, <3>1
    <3>2. CASE j # i
      <4>1. pkey'[j] = pkey[j] /\ pkey[j] = [r \in Reg |-> pkey[j][r]]
        BY <1>7, <1>12, <3>2 DEF Types
      <4> QED BY <4>1
    <3> QED BY <3>1, <3>2
  <2>3. /\ PerParty(msg_keys') /\ PerParty(pkey') /\ PerParty(gate_counter')
        /\ PerParty(prf_outputs') /\ PerParty(wires')
    BY <1>12 DEF OnlyFor
  <2> QED BY <1>5, <1>8, <2>1, <2>2, <2>3 DEF Types
<1>14. History'
  <2>1. /\ rkey' = hkey'[rpc'] /\ rmask' = hmask'[rpc'] /\ gmask' = hmask'[gpc']
        /\ \A q \in 1 .. rpc' - 1 : RandomRule(tape'[q], hkey'[q], hkey'[q + 1], hmask'[q], hmask'[q + 1])
    BY <1>5, <1>7 DEF History
  <2>2. ASSUME NEW j \in Party, NEW r \in Reg PROVE pkey'[j][r] = hkey'[ppc'[j]][r][j]
    <3>1. CASE j = i
      BY <1>5, <1>10, <1>12, <3>1
    <3>2. CASE j # i
      <4>1. pkey'[j] = pkey[j] /\ pkey[j][r] = hkey[ppc[j]][r][j]
        BY <1>7, <1>12, <3>2 DEF History
      <4> QED BY <1>5, <1>10, <3>2, <4>1
    <3> QED BY <3>1, <3>2
  <2>3. ASSUME NEW j \in Party PROVE gate_counter'[j] = Ands(tape', ppc'[j]) /\ gate_counter2'[j] = Ands(tape', epc'[j])
    <3>1. gate_counter[j] = Ands(tape, ppc[j]) /\ gate_counter2[j] = Ands(tape, epc[j])
      BY <1>7 DEF History
    <3>2. CASE j = i
      BY <1>5, <1>10, <1>12, <3>1, <3>2 DEF OnlyFor
    <3>3. CASE j # i
      BY <1>5, <1>10, <1>12, <3>1, <3>3 DEF OnlyFor
    <3> QED BY <3>2, <3>3
  <2> QED BY <2>1, <2>2, <2>3 DEF History
<1>15. /\ prf_outputs'[i] = Stream(SentTuples(tape, hkey, i), 1, p + 1)
       /\ wires'[i] = Stream(KeptWires(tape, hkey, i), 1, p + 1)
  <2>1. prf_outputs[i] = Stream(SentTuples(tape, hkey, i), 1, p) /\ wires[i] = Stream(KeptWires(tape, hkey, i), 1, p)
    BY <1>1, <1>6, <1>7 DEF Streams
  <2>2. 1 \in Int /\ 1 >= 1 /\ p + 1 \in Int /\ p \in Int /\ 1 <= p
    BY <1>3
  <2>3. Pieces(SentTuples(tape, hkey, i), 1, p + 1) /\ Pieces(KeptWires(tape, hkey, i), 1, p + 1)
    BY <1>3, <2>2, AllPieces
  <2>4. /\ Stream(SentTuples(tape, hkey, i), 1, p + 1) = Cat(Stream(SentTuples(tape, hkey, i), 1, p), SentTuples(tape, hkey, i)[p])
        /\ Stream(KeptWires(tape, hkey, i), 1, p + 1) = Cat(Stream(KeptWires(tape, hkey, i), 1, p), KeptWires(tape, hkey, i)[p])
    BY <2>2, <2>3, StreamWrite
  <2> QED BY <1>12, <2>1, <2>4 DEF OnlyFor
<1>16. Streams'
  <2>1. /\ twires' = Stream(StoredWires(tape', hkey', hmask'), gpc', rpc')
        /\ circuit' = Stream(SentGates(tape', hkey', hmask'), 1, gpc')
    BY <1>5, <1>7 DEF Streams
  <2>2. ASSUME NEW j \in Party
        PROVE  /\ msg_input_masks'[j] = Stream(SentInputMasks(tape', hmask', j), Reached(j)', rpc')
               /\ msg_output_masks'[j] = Stream(SentOutputMasks(tape', hmask'), Reached(j)', rpc')
               /\ gates'[j] = Store(Ended(gpc)', Stream(SentGates(tape', hkey', hmask'), Reached(j)', gpc'))
    <3>1. /\ msg_input_masks[j] = Stream(SentInputMasks(tape, hmask, j), Reached(j), rpc)
          /\ msg_output_masks[j] = Stream(SentOutputMasks(tape, hmask), Reached(j), rpc)
          /\ gates[j] = Store(Ended(gpc), Stream(SentGates(tape, hkey, hmask), Reached(j), gpc))
      BY <1>7 DEF Streams
    <3> QED BY <1>5, <1>9, <3>1 DEF Ended
  <2>3. ASSUME NEW j \in Party
        PROVE  /\ msg_keys'[j] = Stream(SentKeys(tape', hkey', j), ppc'[j], rpc')
               /\ prf_outputs'[j] = Stream(SentTuples(tape', hkey', j), gpc', ppc'[j])
               /\ wires'[j] = Stream(KeptWires(tape', hkey', j), Reached(j)', ppc'[j])
    <3>1. CASE j = i
      <4>1. msg_keys'[i] = Stream(SentKeys(tape, hkey, i), p + 1, rpc)
        BY <1>12 DEF OnlyFor
      <4> QED BY <1>5, <1>6, <1>9, <1>10, <1>15, <3>1, <4>1
    <3>2. CASE j # i
      <4>1. msg_keys'[j] = msg_keys[j] /\ prf_outputs'[j] = prf_outputs[j] /\ wires'[j] = wires[j]
        BY <1>12, <3>2 DEF OnlyFor
      <4>2. /\ msg_keys[j] = Stream(SentKeys(tape, hkey, j), ppc[j], rpc)
            /\ prf_outputs[j] = Stream(SentTuples(tape, hkey, j), gpc, ppc[j])
            /\ wires[j] = Stream(KeptWires(tape, hkey, j), Reached(j), ppc[j])
        BY <1>7 DEF Streams
      <4> QED BY <1>5, <1>9, <1>10, <3>2, <4>1, <4>2
    <3> QED BY <3>1, <3>2
  <2> QED BY <2>1, <2>2, <2>3 DEF Streams
<1>17. Messages'
  BY <1>5, <1>7, <1>9 DEF Messages, BegunAt
<1>18. Labels'
  BY <1>5, <1>7 DEF Labels, Fits, Begun
<1>19. (Places /\ Types /\ History /\ Streams /\ Messages /\ Labels)'
  BY <1>11, <1>13, <1>14, <1>16, <1>17, <1>18
<1> QED BY <1>19, Parts, PTL

-----------------------------------------------------------------------------
(* GarbleRegister.                                                          *)

(* One of a party's function values.                                        *)
LEMMA TupleFacts ==
  ASSUME NEW t, NEW K, NEW p, NEW i \in Party, t[p].left \in Reg, t[p].right \in Reg,
         NEW j \in Party, NEW x \in BOOLEAN, NEW y \in BOOLEAN
  PROVE  /\ Tuples(t, K, i, p)[j]["left"][x][y] =
              F(Add(K[p + 1][t[p].left][i], DeltaIf(i, x)), y, Ands(t, p) + 1, j)
         /\ Tuples(t, K, i, p)[j]["right"][y][x] =
              F(Add(K[p + 1][t[p].right][i], DeltaIf(i, y)), x, Ands(t, p) + 1, j)
<1>1. PICK s, g, e : s = [r \in Reg |-> K[p + 1][r][i]] /\ g = Ands(t, p) + 1 /\ e = t[p]
  OBVIOUS
<1>2. Tuples(t, K, i, p) = TuplesOf(s, e, i, g)
  BY <1>1 DEF Tuples
<1>3. PICK u : u = [side \in {"left", "right"} |-> [b \in BOOLEAN |-> [ext \in BOOLEAN |->
                      F(Add(s[e[side]], DeltaIf(i, b)), ext, g, j)]]]
  OBVIOUS
<1>4. TuplesOf(s, e, i, g)[j] = u
  BY <1>3 DEF TuplesOf
<1>5. /\ u["left"][x][y] = F(Add(s[e["left"]], DeltaIf(i, x)), y, g, j)
      /\ u["right"][y][x] = F(Add(s[e["right"]], DeltaIf(i, y)), x, g, j)
  BY <1>3
<1>6. s[e["left"]] = K[p + 1][t[p].left][i] /\ s[e["right"]] = K[p + 1][t[p].right][i]
  BY <1>1
<1> QED BY <1>1, <1>2, <1>4, <1>5, <1>6

(* What the parties sent hides the entries of the gate.                     *)
LEMMA SumIs ==
  ASSUME NEW t, NEW K, NEW p, t[p].left \in Reg, t[p].right \in Reg,
         \A i \in Party : Head(prf_outputs[i]) = Tuples(t, K, i, p),
         NEW j \in Party, NEW x \in BOOLEAN, NEW y \in BOOLEAN
  PROVE  SumPrfs(j, x, y) = Hidden(K[p + 1][t[p].left], K[p + 1][t[p].right], Ands(t, p) + 1, j, x, y)
<1>1. PICK l, r, g : l = K[p + 1][t[p].left] /\ r = K[p + 1][t[p].right] /\ g = Ands(t, p) + 1
  OBVIOUS
<1>2. PICK a : a = [i \in Party |-> LET u == Head(prf_outputs[i])[j] IN Add(u["left"][x][y], u["right"][y][x])]
  OBVIOUS
<1>3. PICK b : b = [i \in Party |-> Add(F(Add(l[i], DeltaIf(i, x)), y, g, j), F(Add(r[i], DeltaIf(i, y)), x, g, j))]
  OBVIOUS
<1>4. ASSUME NEW i \in Party PROVE a[i] = b[i]
  <2>1. PICK u : u = Tuples(t, K, i, p)[j]
    OBVIOUS
  <2>2. a[i] = Add(u["left"][x][y], u["right"][y][x])
    BY <1>2, <2>1
  <2>4. /\ Tuples(t, K, i, p)[j]["left"][x][y] = F(Add(K[p + 1][t[p].left][i], DeltaIf(i, x)), y, Ands(t, p) + 1, j)
        /\ Tuples(t, K, i, p)[j]["right"][y][x] = F(Add(K[p + 1][t[p].right][i], DeltaIf(i, y)), x, Ands(t, p) + 1, j)
    BY TupleFacts
  <2>3. u["left"][x][y] = F(Add(l[i], DeltaIf(i, x)), y, g, j) /\ u["right"][y][x] = F(Add(r[i], DeltaIf(i, y)), x, g, j)
    BY <1>1, <2>1, <2>4
  <2> QED BY <1>3, <2>2, <2>3
<1>5. a = b
  BY <1>2, <1>3, <1>4
<1>6. SumPrfs(j, x, y) = AddAll(a)
  BY <1>2 DEF SumPrfs
<1>7. Hidden(l, r, g, j, x, y) = AddAll(b)
  BY <1>3 DEF Hidden
<1> QED BY <1>1, <1>5, <1>6, <1>7

LEMMA GateIs ==
  ASSUME NEW t, NEW K, NEW M, NEW p, t[p].left \in Reg, t[p].right \in Reg,
         \A i \in Party : Head(prf_outputs[i]) = Tuples(t, K, i, p)
  PROVE  GarbledGate(K[p + 1][t[p].out], M[p + 1][t[p].out], M[p + 1][t[p].left], M[p + 1][t[p].right]) =
           GateAt(t, K, M, p)
<1>1. PICK k, m, lm, rm : /\ k = K[p + 1][t[p].out] /\ m = M[p + 1][t[p].out]
                          /\ lm = M[p + 1][t[p].left] /\ rm = M[p + 1][t[p].right]
  OBVIOUS
<1>2. PICK l, r, g : l = K[p + 1][t[p].left] /\ r = K[p + 1][t[p].right] /\ g = Ands(t, p) + 1
  OBVIOUS
<1>3. \A x \in BOOLEAN, y \in BOOLEAN, j \in Party : SumPrfs(j, x, y) = Hidden(l, r, g, j, x, y)
  BY <1>2, SumIs
<1>4. GarbledGate(k, m, lm, rm) =
        [x \in BOOLEAN |-> [y \in BOOLEAN |-> [j \in Party |->
           Add(SumPrfs(j, x, y), Add(k[j], DeltaIf(j, OutBit(x, y, m, lm, rm))))]]]
  BY DEF GarbledGate, OutBit
<1>5. GateAt(t, K, M, p) =
        [x \in BOOLEAN |-> [y \in BOOLEAN |-> [j \in Party |->
           Add(Hidden(l, r, g, j, x, y), Add(k[j], DeltaIf(j, OutBit(x, y, m, lm, rm))))]]]
  BY <1>1, <1>2 DEF GateAt
<1>6. ASSUME NEW x \in BOOLEAN, NEW y \in BOOLEAN
      PROVE  [j \in Party |-> Add(SumPrfs(j, x, y), Add(k[j], DeltaIf(j, OutBit(x, y, m, lm, rm))))] =
             [j \in Party |-> Add(Hidden(l, r, g, j, x, y), Add(k[j], DeltaIf(j, OutBit(x, y, m, lm, rm))))]
  BY <1>3
<1>7. ASSUME NEW x \in BOOLEAN
      PROVE  [y \in BOOLEAN |-> [j \in Party |-> Add(SumPrfs(j, x, y), Add(k[j], DeltaIf(j, OutBit(x, y, m, lm, rm))))]] =
             [y \in BOOLEAN |-> [j \in Party |-> Add(Hidden(l, r, g, j, x, y), Add(k[j], DeltaIf(j, OutBit(x, y, m, lm, rm))))]]
  BY <1>6
<1> QED BY <1>1, <1>4, <1>5, <1>7

LEMMA GarbleKnows ==
  ASSUME IInv, ~ Ended(gpc), \A i \in Party : Ended(ppc[i]), NEW p, p = gpc
  PROVE  /\ tape \in Tapes /\ p \in DOMAIN tape /\ p \in Positions /\ p + 1 \in Positions /\ p \in Nat /\ p >= 1
         /\ Ended(rpc) /\ rpc = Len(tape) + 1 /\ (\A i \in Party : ppc[i] = rpc) /\ p < rpc /\ rpc \in Int
         /\ p + 1 <= Len(tape) + 1 /\ KeysTyped(tape, hkey)
         /\ RandomRule(tape[p], hkey[p], hkey[p + 1], hmask[p], hmask[p + 1])
         /\ gmask = hmask[p] /\ hmask[p] \in [Reg -> BOOLEAN] /\ hmask[p + 1] \in [Reg -> BOOLEAN]
<1>1. tape \in Tapes /\ rpc \in Positions /\ gpc \in Positions /\ KeysTyped(tape, hkey) /\ \A i \in Party : ppc[i] \in Positions
  BY Before
<1>2. Len(tape) \in Nat /\ DOMAIN tape = 1 .. Len(tape)
  BY <1>1, PositionFacts
<1>3. /\ p \in DOMAIN tape /\ p \in Positions /\ p + 1 \in Positions /\ p \in Nat /\ p >= 1 /\ p + 1 <= Len(tape) + 1
      /\ \A i \in Party : ppc[i] = Len(tape) + 1 /\ ppc[i] # 1
  BY <1>1, <1>2 DEF Positions, Ended
<1>4. 1 \in Party
  BY PartiesAssumption DEF Party
<1>5. Ended(rpc)
  BY <1>3, <1>4 DEF IInv, Places
<1>6. rpc = Len(tape) + 1 /\ p < rpc /\ rpc \in Int /\ p \in 1 .. rpc - 1
  BY <1>1, <1>2, <1>3, <1>5 DEF Positions, Ended
<1>7. RandomRule(tape[p], hkey[p], hkey[p + 1], hmask[p], hmask[p + 1]) /\ gmask = hmask[p]
  BY <1>6 DEF IInv, History
<1> HIDE DEF Positions
<1>8. hmask[p] \in [Reg -> BOOLEAN] /\ hmask[p + 1] \in [Reg -> BOOLEAN]
  BY <1>3 DEF IInv, Types
<1> QED BY <1>1, <1>3, <1>5, <1>6, <1>7, <1>8

(* What a step of GarbleRegister does.                                      *)
GarbleEffect(p) ==
  /\ twires' = Stream(StoredWires(tape, hkey, hmask), p + 1, rpc)
  /\ gmask' = hmask[p + 1]
  /\ circuit' = Cat(circuit, SentGates(tape, hkey, hmask)[p])
  /\ PerParty(prf_outputs')
  /\ \A i \in Party : prf_outputs'[i] = Stream(SentTuples(tape, hkey, i), p + 1, rpc)

LEMMA GarbleDoes ==
  ASSUME IInv, ~ Ended(gpc), \A i \in Party : Ended(ppc[i]),
         LET e == tape[gpc] IN GarbleLoad(e) \/ GarbleXor(e) \/ GarbleOutput(e)
  PROVE  GarbleEffect(gpc)
<1>1. PICK p, e : p = gpc /\ e = tape[p]
  OBVIOUS
<1>2. /\ tape \in Tapes /\ p \in DOMAIN tape /\ p \in Nat /\ p >= 1 /\ p < rpc /\ rpc \in Int /\ rpc <= Len(tape) + 1
      /\ KeysTyped(tape, hkey) /\ RandomRule(e, hkey[p], hkey[p + 1], hmask[p], hmask[p + 1])
      /\ gmask = hmask[p] /\ gmask \in [Reg -> BOOLEAN] /\ hmask[p + 1] \in [Reg -> BOOLEAN]
      /\ Len(tape) \in Nat /\ rpc = Len(tape) + 1 /\ \A i \in Party : ppc[i] = rpc
  <2>1. /\ tape \in Tapes /\ p \in DOMAIN tape /\ p \in Nat /\ p >= 1 /\ p < rpc /\ rpc \in Int /\ rpc = Len(tape) + 1
        /\ KeysTyped(tape, hkey) /\ RandomRule(tape[p], hkey[p], hkey[p + 1], hmask[p], hmask[p + 1])
        /\ gmask = hmask[p] /\ hmask[p] \in [Reg -> BOOLEAN] /\ hmask[p + 1] \in [Reg -> BOOLEAN]
        /\ \A i \in Party : ppc[i] = rpc
    BY <1>1, GarbleKnows
  <2> QED BY <1>1, <2>1, EntryFacts
<1>3. e.out \in Reg /\ e.left \in Reg /\ e.right \in Reg /\ e.op \in Op
  BY <1>1, <1>2, EntryFacts
<1>4. PICK m, k, rest : /\ m = hmask[p + 1][e.out] /\ k = hkey[p + 1][e.out]
                        /\ rest = Stream(StoredWires(tape, hkey, hmask), p + 1, rpc)
  OBVIOUS
<1>5. /\ Pieces(StoredWires(tape, hkey, hmask), p, rpc) /\ Pieces(SentGates(tape, hkey, hmask), p, rpc)
      /\ \A i \in Party : Pieces(SentTuples(tape, hkey, i), p, rpc)
  <2>1. p \in Int /\ p >= 1 /\ rpc \in Int /\ rpc <= Len(tape) + 1
    BY <1>2
  <2> QED BY <1>2, <2>1, AllPieces
<1>6. IsSeq(rest) /\ twires = Cat(StoredWires(tape, hkey, hmask)[p], rest)
  <2>1. twires = Stream(StoredWires(tape, hkey, hmask), p, rpc)
    BY <1>1 DEF IInv, Streams
  <2>2. /\ Stream(StoredWires(tape, hkey, hmask), p, rpc) = Cat(StoredWires(tape, hkey, hmask)[p], rest)
        /\ IsSeq(rest)
    BY <1>2, <1>4, <1>5, StreamRead
  <2> QED BY <2>1, <2>2
<1>7. ASSUME NEW i \in Party
      PROVE  /\ prf_outputs[i] = Cat(SentTuples(tape, hkey, i)[p], Stream(SentTuples(tape, hkey, i), p + 1, rpc))
             /\ IsSeq(Stream(SentTuples(tape, hkey, i), p + 1, rpc))
  <2>1. prf_outputs[i] = Stream(SentTuples(tape, hkey, i), p, rpc)
    BY <1>1, <1>2 DEF IInv, Streams
  <2>2. p \in Int /\ rpc \in Int /\ p < rpc /\ Pieces(SentTuples(tape, hkey, i), p, rpc)
    BY <1>2, <1>5
  <2> QED BY <2>1, <2>2, StreamRead
<1>8. IsSeq(circuit) /\ PerParty(prf_outputs) /\ \A i \in Party : IsSeq(prf_outputs[i])
  BY StreamsAreSeqs DEF IInv, Types
<1>9. ASSUME NEW i \in Party
      PROVE  /\ e.op = "and" => SentTuples(tape, hkey, i)[p] = <<Tuples(tape, hkey, i, p)>>
             /\ e.op # "and" => SentTuples(tape, hkey, i)[p] = <<>>
  <2>1. /\ tape[p].op = "and" => SentTuples(tape, hkey, i)[p] = <<Tuples(tape, hkey, i, p)>>
        /\ tape[p].op # "and" => SentTuples(tape, hkey, i)[p] = <<>>
    <3>1. p \in DOMAIN tape
      BY <1>2
    <3> QED BY ONLY <3>1, TuplesAt
  <2> QED BY <1>1, <2>1
<1>10. /\ e.op = "and" => SentGates(tape, hkey, hmask)[p] = <<GateAt(tape, hkey, hmask, p)>>
       /\ e.op # "and" => SentGates(tape, hkey, hmask)[p] = <<>>
  <2>1. /\ tape[p].op = "and" => SentGates(tape, hkey, hmask)[p] = <<GateAt(tape, hkey, hmask, p)>>
        /\ tape[p].op # "and" => SentGates(tape, hkey, hmask)[p] = <<>>
    BY <1>2, GatesAt
  <2> QED BY <1>1, <2>1
<1>11. /\ e.op \in Drawn \cup {"public"} => StoredWires(tape, hkey, hmask)[p] = StoredWire(m, k)
       /\ e.op \notin Drawn \cup {"public"} => StoredWires(tape, hkey, hmask)[p] = <<>>
  <2>1. /\ tape[p].op \in Drawn \cup {"public"} =>
             StoredWires(tape, hkey, hmask)[p] = StoredWire(hmask[p + 1][tape[p].out], hkey[p + 1][tape[p].out])
        /\ tape[p].op \notin Drawn \cup {"public"} => StoredWires(tape, hkey, hmask)[p] = <<>>
    BY <1>2, StoredAt
  <2> QED BY <1>1, <1>4, <2>1
<1>12. ASSUME e.op # "and", prf_outputs' = prf_outputs, circuit' = circuit
       PROVE  /\ circuit' = Cat(circuit, SentGates(tape, hkey, hmask)[p]) /\ PerParty(prf_outputs')
              /\ \A i \in Party : prf_outputs'[i] = Stream(SentTuples(tape, hkey, i), p + 1, rpc)
  <2>1. circuit' = Cat(circuit, SentGates(tape, hkey, hmask)[p])
    BY <1>8, <1>10, <1>12, CatEmpty
  <2>2. ASSUME NEW i \in Party PROVE prf_outputs'[i] = Stream(SentTuples(tape, hkey, i), p + 1, rpc)
    BY <1>7, <1>9, <1>12, CatEmpty
  <2> QED BY <1>8, <1>12, <2>1, <2>2
<1>13. ASSUME e.op \notin Drawn \cup {"public"}, twires' = twires
       PROVE  twires' = rest
  BY <1>6, <1>11, <1>13, CatEmpty
<1>14. \A f : f \in [Reg -> BOOLEAN] /\ (\A r \in Reg : f[r] = hmask[p + 1][r]) => f = hmask[p + 1]
  BY <1>2
<1>15. e.op # "reveal" => \A r \in Reg \ {e.out} : hmask[p + 1][r] = gmask[r]
  BY <1>2 DEF RandomRule
<1>16. m \in BOOLEAN
  BY <1>2, <1>3, <1>4
<1>17. ASSUME gmask' = [gmask EXCEPT ![e.out] = m], e.op # "reveal" PROVE gmask' = hmask[p + 1]
  <2>1. gmask' \in [Reg -> BOOLEAN] /\ gmask'[e.out] = m /\ \A r \in Reg \ {e.out} : gmask'[r] = gmask[r]
    BY <1>2, <1>3, <1>16, <1>17
  <2>2. \A r \in Reg : gmask'[r] = hmask[p + 1][r]
    <3> TAKE r \in Reg
    <3>1. CASE r = e.out
      BY <1>4, <2>1, <3>1
    <3>2. CASE r # e.out
      BY <1>15, <1>17, <2>1, <3>2
    <3> QED BY <3>1, <3>2
  <2> QED BY <1>14, <2>1, <2>2
<1>18. CASE GarbleLoad(e)
  <2>1. e.op \in {"and", "input", "random", "public"} /\ LoadWire(e.out)
    BY <1>18 DEF GarbleLoad
  <2>2. e.op \in Drawn \cup {"public"} /\ e.op # "reveal"
    BY <2>1 DEF Drawn
  <2>3. Head(twires).mask = m /\ Head(twires).key = k /\ Tail(twires) = rest
    <3>1. PICK w : w = [mask |-> m, key |-> k]
      OBVIOUS
    <3>2. StoredWires(tape, hkey, hmask)[p] = <<w>>
      BY <1>11, <2>2, <3>1 DEF StoredWire
    <3>3. Head(twires) = w /\ Tail(twires) = rest
      BY <1>6, <3>2, HeadOfOne
    <3> QED BY <3>1, <3>3
  <2>4. twires' = rest /\ gmask' = [gmask EXCEPT ![e.out] = m]
    BY <2>1, <2>3 DEF LoadWire
  <2>5. gmask' = hmask[p + 1]
    BY <1>17, <2>2, <2>4
  <2>6. CASE e.op # "and"
    <3>1. prf_outputs' = prf_outputs /\ circuit' = circuit
      BY <1>18, <2>6 DEF GarbleLoad
    <3>2. GarbleEffect(p)
      BY <1>4, <1>12, <2>4, <2>5, <2>6, <3>1 DEF GarbleEffect
    <3> QED BY <1>1, <3>2
  <2>7. CASE e.op = "and"
    <3>1. /\ circuit' = Append(circuit, GarbledGate(k, m, gmask'[e.left], gmask'[e.right]))
          /\ prf_outputs' = [i \in Party |-> Tail(prf_outputs[i])]
      BY <1>18, <2>3, <2>7 DEF GarbleLoad
    <3>2. ASSUME NEW i \in Party
          PROVE  /\ Head(prf_outputs[i]) = Tuples(tape, hkey, i, p)
                 /\ Tail(prf_outputs[i]) = Stream(SentTuples(tape, hkey, i), p + 1, rpc)
      <4>1. PICK x, s : x = Tuples(tape, hkey, i, p) /\ s = Stream(SentTuples(tape, hkey, i), p + 1, rpc)
        OBVIOUS
      <4>2. prf_outputs[i] = Cat(<<x>>, s) /\ IsSeq(s)
        BY <1>7, <1>9, <2>7, <4>1
      <4> QED BY <4>1, <4>2, HeadOfOne
    <3>3. GarbledGate(k, m, gmask'[e.left], gmask'[e.right]) = GateAt(tape, hkey, hmask, p)
      <4>1. tape[p].left \in Reg /\ tape[p].right \in Reg
        BY <1>1, <1>3
      <4>2. GarbledGate(hkey[p + 1][tape[p].out], hmask[p + 1][tape[p].out],
                        hmask[p + 1][tape[p].left], hmask[p + 1][tape[p].right]) = GateAt(tape, hkey, hmask, p)
        BY <3>2, <4>1, GateIs
      <4> QED BY <1>1, <1>4, <2>5, <4>2
    <3>4. circuit' = Cat(circuit, SentGates(tape, hkey, hmask)[p])
      <4>1. PICK x : x = GateAt(tape, hkey, hmask, p)
        OBVIOUS
      <4>2. circuit' = Cat(circuit, <<x>>)
        BY <1>8, <3>1, <3>3, <4>1, AppendIsCat
      <4> QED BY <1>10, <2>7, <4>1, <4>2
    <3>5. PerParty(prf_outputs') /\ \A i \in Party : prf_outputs'[i] = Stream(SentTuples(tape, hkey, i), p + 1, rpc)
      <4>1. PerParty(prf_outputs') /\ \A i \in Party : prf_outputs'[i] = Tail(prf_outputs[i])
        BY <3>1 DEF PerParty
      <4> QED BY <3>2, <4>1
    <3>6. GarbleEffect(p)
      BY <1>4, <2>4, <2>5, <3>4, <3>5 DEF GarbleEffect
    <3> QED BY <1>1, <3>6
  <2> QED BY <2>6, <2>7
<1>19. CASE GarbleXor(e)
  <2>1. /\ e.op = "xor" /\ twires' = twires /\ circuit' = circuit /\ prf_outputs' = prf_outputs
        /\ gmask' = [gmask EXCEPT ![e.out] = gmask[e.left] # gmask[e.right]]
    BY <1>19 DEF GarbleXor
  <2>2. m = (gmask[e.left] # gmask[e.right])
    BY <1>2, <1>4, <2>1 DEF RandomRule
  <2>3. gmask' = hmask[p + 1]
    BY <1>17, <2>1, <2>2
  <2>4. e.op \notin Drawn \cup {"public"} /\ e.op # "and"
    BY <2>1 DEF Drawn
  <2>5. GarbleEffect(p)
    BY <1>4, <1>12, <1>13, <2>1, <2>3, <2>4 DEF GarbleEffect
  <2> QED BY <1>1, <2>5
<1>20. CASE GarbleOutput(e)
  <2>1. /\ e.op = "reveal" /\ twires' = twires /\ circuit' = circuit /\ prf_outputs' = prf_outputs /\ gmask' = gmask
    BY <1>20 DEF GarbleOutput
  <2>2. hmask[p + 1] = hmask[p]
    BY <1>2, <2>1 DEF RandomRule
  <2>3. e.op \notin Drawn \cup {"public"} /\ e.op # "and"
    BY <2>1 DEF Drawn
  <2>4. GarbleEffect(p)
    BY <1>2, <1>4, <1>12, <1>13, <2>1, <2>2, <2>3 DEF GarbleEffect
  <2> QED BY <1>1, <2>4
<1> QED BY <1>1, <1>18, <1>19, <1>20

(* GarbleRegister preserves the invariant.                                  *)
LEMMA GarbleStepIInv ==
  ASSUME IInv, GarbleStep
  PROVE  IInv'
<1>1. PICK p : p = gpc
  OBVIOUS
<1>2. ~ Ended(gpc) /\ \A i \in Party : Ended(ppc[i])
  BY DEF GarbleStep
<1>3. /\ tape \in Tapes /\ p \in DOMAIN tape /\ p \in Positions /\ p + 1 \in Positions /\ p \in Nat /\ p >= 1
      /\ Ended(rpc) /\ rpc = Len(tape) + 1 /\ (\A i \in Party : ppc[i] = rpc)
      /\ KeysTyped(tape, hkey) /\ p + 1 <= Len(tape) + 1
  BY <1>1, <1>2, GarbleKnows
<1>4. GarbleEffect(p)
  BY <1>1, <1>2, GarbleDoes DEF GarbleStep
<1>5. /\ gpc' = p + 1 /\ gates' = (IF Ended(p + 1) THEN Each(circuit') ELSE gates)
      /\ tape' = tape /\ rpc' = rpc /\ rkey' = rkey /\ rmask' = rmask /\ drawn' = drawn
      /\ msg_keys' = msg_keys /\ msg_input_masks' = msg_input_masks /\ msg_output_masks' = msg_output_masks
      /\ ppc' = ppc /\ pkey' = pkey /\ gate_counter' = gate_counter /\ wires' = wires
      /\ epc' = epc /\ waiting' = waiting /\ external' = external /\ entry' = entry
      /\ gate_counter2' = gate_counter2 /\ net' = net /\ outputs' = outputs
      /\ hkey' = hkey /\ hmask' = hmask
  BY <1>1 DEF GarbleStep, random, prf, history
<1>6. \A j \in Party : epc[j] = 1 /\ ~ waiting[j] /\ Reached(j) = 1
  BY <1>2, Before
<1>7. Places /\ Types /\ History /\ Streams /\ Messages /\ Labels
  BY Parts
<1>8. /\ Positions' = Positions /\ \A q : Ended(q)' <=> Ended(q)
  BY <1>5 DEF Positions, Ended
<1>9. \A j \in Party : Reached(j)' = Reached(j)
  BY <1>5 DEF Reached
<1>10. Places'
  <2>1. tape' \in Tapes /\ rpc' \in Positions' /\ gpc' \in Positions'
    BY <1>3, <1>5, <1>7, <1>8 DEF Places
  <2>2. ppc' \in [Party -> Positions'] /\ epc' \in [Party -> Positions'] /\ waiting' \in [Party -> BOOLEAN]
    BY <1>5, <1>7, <1>8 DEF Places
  <2>3. Ended(rpc)' /\ \A j \in Party : Ended(ppc[j])' /\ epc'[j] = 1 /\ ~ waiting'[j]
    BY <1>2, <1>3, <1>5, <1>6, <1>8 DEF Ended
  <2> QED BY <2>1, <2>2, <2>3 DEF Places
<1>11. /\ twires' = Stream(StoredWires(tape, hkey, hmask), p + 1, rpc)
       /\ gmask' = hmask[p + 1]
       /\ circuit' = Cat(circuit, SentGates(tape, hkey, hmask)[p])
       /\ PerParty(prf_outputs')
       /\ \A j \in Party : prf_outputs'[j] = Stream(SentTuples(tape, hkey, j), p + 1, rpc)
  BY <1>4 DEF GarbleEffect
<1>12. PerParty(gates')
  <2>1. PerParty(gates) /\ PerParty(Each(circuit'))
    BY <1>7 DEF Types, PerParty, Each
  <2> QED BY <1>5, <2>1
<1>13. Types'
  <2>1. /\ DOMAIN hkey = Positions /\ hmask \in [Positions -> [Reg -> BOOLEAN]]
        /\ (\A q \in Positions : DOMAIN hkey[q] = Reg /\ \A r \in Reg : PerParty(hkey[q][r]))
        /\ drawn \in Nat /\ PerParty(pkey) /\ (\A j \in Party : pkey[j] = [r \in Reg |-> pkey[j][r]])
        /\ external \in [Party -> [Reg -> BOOLEAN]] /\ PerParty(entry)
        /\ (\A j \in Party : DOMAIN entry[j] = Reg /\ \A r \in Reg : PerParty(entry[j][r]))
        /\ PerParty(msg_keys) /\ PerParty(msg_input_masks) /\ PerParty(msg_output_masks)
        /\ PerParty(wires) /\ PerParty(outputs) /\ PerParty(net) /\ (\A j \in Party : PerParty(net[j]))
        /\ PerParty(gate_counter) /\ PerParty(gate_counter2)
    BY <1>7 DEF Types
  <2> QED BY <1>5, <1>8, <1>11, <1>12, <2>1 DEF Types
<1>14. History'
  <2>1. /\ rkey' = hkey'[rpc'] /\ rmask' = hmask'[rpc']
        /\ (\A q \in 1 .. rpc' - 1 : RandomRule(tape'[q], hkey'[q], hkey'[q + 1], hmask'[q], hmask'[q + 1]))
        /\ (\A j \in Party : \A r \in Reg : pkey'[j][r] = hkey'[ppc'[j]][r][j])
        /\ \A j \in Party : gate_counter'[j] = Ands(tape', ppc'[j]) /\ gate_counter2'[j] = Ands(tape', epc'[j])
    BY <1>5, <1>7 DEF History
  <2> QED BY <1>5, <1>11, <2>1 DEF History
<1>15. circuit' = Stream(SentGates(tape, hkey, hmask), 1, p + 1)
  <2>1. circuit = Stream(SentGates(tape, hkey, hmask), 1, p)
    BY <1>1, <1>7 DEF Streams
  <2>2. 1 \in Int /\ 1 >= 1 /\ p + 1 \in Int /\ p \in Int /\ 1 <= p
    BY <1>3
  <2>3. Pieces(SentGates(tape, hkey, hmask), 1, p + 1)
    BY <1>3, <2>2, AllPieces
  <2>4. Stream(SentGates(tape, hkey, hmask), 1, p + 1) =
          Cat(Stream(SentGates(tape, hkey, hmask), 1, p), SentGates(tape, hkey, hmask)[p])
    BY <2>2, <2>3, StreamWrite
  <2> QED BY <1>11, <2>1, <2>4
<1>16. \A s, c : (c => Store(c, s) = s) /\ (~ c => Store(c, s) = <<>>)
  BY DEF Store
<1>17. ASSUME NEW j \in Party
       PROVE  gates'[j] = Store(Ended(gpc)', Stream(SentGates(tape', hkey', hmask'), Reached(j)', gpc'))
  <2>1. PICK s : s = Stream(SentGates(tape, hkey, hmask), 1, p + 1)
    OBVIOUS
  <2>2. s = Stream(SentGates(tape', hkey', hmask'), Reached(j)', gpc')
    BY <1>5, <1>6, <1>9, <2>1
  <2>3. CASE Ended(p + 1)
    <3>1. Ended(gpc)'
      BY <1>5, <1>8, <2>3
    <3>2. gates'[j] = s
      BY <1>5, <1>15, <2>1, <2>3 DEF Each
    <3> QED BY <1>16, <2>2, <3>1, <3>2
  <2>4. CASE ~ Ended(p + 1)
    <3>1. ~ Ended(gpc)'
      BY <1>5, <1>8, <2>4
    <3>2. gates'[j] = <<>>
      BY <1>2, <1>5, <1>7, <1>16, <2>4 DEF Streams
    <3> QED BY <1>16, <3>1, <3>2
  <2> QED BY <2>3, <2>4
<1>18. Streams'
  <2>1. /\ twires' = Stream(StoredWires(tape', hkey', hmask'), gpc', rpc')
        /\ circuit' = Stream(SentGates(tape', hkey', hmask'), 1, gpc')
    BY <1>5, <1>11, <1>15
  <2>2. ASSUME NEW j \in Party
        PROVE  /\ msg_keys'[j] = Stream(SentKeys(tape', hkey', j), ppc'[j], rpc')
               /\ msg_input_masks'[j] = Stream(SentInputMasks(tape', hmask', j), Reached(j)', rpc')
               /\ msg_output_masks'[j] = Stream(SentOutputMasks(tape', hmask'), Reached(j)', rpc')
               /\ wires'[j] = Stream(KeptWires(tape', hkey', j), Reached(j)', ppc'[j])
    <3>1. /\ msg_keys[j] = Stream(SentKeys(tape, hkey, j), ppc[j], rpc)
          /\ msg_input_masks[j] = Stream(SentInputMasks(tape, hmask, j), Reached(j), rpc)
          /\ msg_output_masks[j] = Stream(SentOutputMasks(tape, hmask), Reached(j), rpc)
          /\ wires[j] = Stream(KeptWires(tape, hkey, j), Reached(j), ppc[j])
      BY <1>7 DEF Streams
    <3> QED BY <1>5, <1>9, <3>1
  <2>3. ASSUME NEW j \in Party
        PROVE  prf_outputs'[j] = Stream(SentTuples(tape', hkey', j), gpc', ppc'[j])
    BY <1>3, <1>5, <1>11
  <2> QED BY <1>17, <2>1, <2>2, <2>3 DEF Streams
<1>19. Messages'
  BY <1>5, <1>7, <1>9 DEF Messages, BegunAt
<1>20. Labels'
  BY <1>5, <1>7 DEF Labels, Fits, Begun
<1>21. (Places /\ Types /\ History /\ Streams /\ Messages /\ Labels)'
  BY <1>10, <1>13, <1>14, <1>18, <1>19, <1>20
<1> QED BY <1>21, Parts, PTL

-----------------------------------------------------------------------------
(* EvalRegister.                                                            *)
LEMMA EvalKnows ==
  ASSUME IInv, NEW i \in Party, Ended(gpc), ~ Ended(epc[i]), NEW p, p = epc[i]
  PROVE  /\ tape \in Tapes /\ p \in DOMAIN tape /\ p \in Positions /\ p + 1 \in Positions /\ p \in Nat /\ p >= 1
         /\ Ended(rpc) /\ (\A j \in Party : Ended(ppc[j]) /\ ppc[j] = rpc) /\ rpc = Len(tape) + 1 /\ gpc = rpc
         /\ p < rpc /\ rpc \in Int /\ p + 1 <= Len(tape) + 1 /\ KeysTyped(tape, hkey)
         /\ RandomRule(tape[p], hkey[p], hkey[p + 1], hmask[p], hmask[p + 1])
         /\ hmask[p] \in [Reg -> BOOLEAN] /\ hmask[p + 1] \in [Reg -> BOOLEAN]
         /\ PerParty(hkey[p][tape[p].left]) /\ PerParty(hkey[p + 1][tape[p].out])
         /\ gate_counter2[i] = Ands(tape, p)
<1>1. /\ tape \in Tapes /\ rpc \in Positions /\ gpc \in Positions /\ KeysTyped(tape, hkey) /\ epc[i] \in Positions
      /\ \A j \in Party : ppc[j] \in Positions
  BY Before
<1>2. Len(tape) \in Nat /\ DOMAIN tape = 1 .. Len(tape)
  BY <1>1, PositionFacts
<1>3. /\ p \in DOMAIN tape /\ p \in Positions /\ p + 1 \in Positions /\ p \in Nat /\ p >= 1 /\ p + 1 <= Len(tape) + 1
      /\ gpc # 1 /\ gpc = Len(tape) + 1
  BY <1>1, <1>2 DEF Positions, Ended
<1>4. Ended(rpc) /\ \A j \in Party : Ended(ppc[j])
  BY <1>3 DEF IInv, Places
<1>5. rpc = Len(tape) + 1 /\ p < rpc /\ rpc \in Int /\ p \in 1 .. rpc - 1 /\ \A j \in Party : ppc[j] = rpc
  BY <1>1, <1>2, <1>3, <1>4 DEF Positions, Ended
<1>6. RandomRule(tape[p], hkey[p], hkey[p + 1], hmask[p], hmask[p + 1]) /\ gate_counter2[i] = Ands(tape, p)
  BY <1>5 DEF IInv, History
<1> HIDE DEF Positions
<1>7. hmask[p] \in [Reg -> BOOLEAN] /\ hmask[p + 1] \in [Reg -> BOOLEAN]
  BY <1>3 DEF IInv, Types
<1>8. PerParty(hkey[p + 1][tape[p].out])
  BY <1>1, <1>3, KeysAt
<1>9. PerParty(hkey[p][tape[p].left])
  <2>1. tape[p].left \in Reg
    BY <1>1, <1>3, EntryFacts
  <2> QED BY <1>3, <2>1 DEF IInv, Types
<1> QED BY <1>1, <1>3, <1>4, <1>5, <1>6, <1>7, <1>8, <1>9

(* What is left of party i's streams once it has come to position b.        *)
Rests(i, b) ==
  [input_masks  |-> Stream(SentInputMasks(tape, hmask, i), b, rpc),
   output_masks |-> Stream(SentOutputMasks(tape, hmask), b, rpc),
   wires        |-> Stream(KeptWires(tape, hkey, i), b, rpc),
   gates        |-> Stream(SentGates(tape, hkey, hmask), b, rpc)]

(* What the party is about to read from each.                               *)
LEMMA EvalReads ==
  ASSUME IInv, NEW i \in Party, Ended(gpc), ~ Ended(epc[i]), NEW p, p = epc[i], ~ waiting[i]
  PROVE  /\ msg_input_masks[i] = Cat(SentInputMasks(tape, hmask, i)[p], Rests(i, p + 1).input_masks)
         /\ msg_output_masks[i] = Cat(SentOutputMasks(tape, hmask)[p], Rests(i, p + 1).output_masks)
         /\ wires[i] = Cat(KeptWires(tape, hkey, i)[p], Rests(i, p + 1).wires)
         /\ gates[i] = Cat(SentGates(tape, hkey, hmask)[p], Rests(i, p + 1).gates)
         /\ IsSeq(Rests(i, p + 1).input_masks) /\ IsSeq(Rests(i, p + 1).output_masks)
         /\ IsSeq(Rests(i, p + 1).wires) /\ IsSeq(Rests(i, p + 1).gates)
<1>1. /\ tape \in Tapes /\ p \in Nat /\ p >= 1 /\ p < rpc /\ rpc \in Int /\ rpc = Len(tape) + 1
      /\ KeysTyped(tape, hkey) /\ ppc[i] = rpc /\ gpc = rpc
  BY EvalKnows
<1>2. p \in Int /\ rpc <= Len(tape) + 1
  BY <1>1
<1>3. /\ Pieces(SentInputMasks(tape, hmask, i), p, rpc) /\ Pieces(SentOutputMasks(tape, hmask), p, rpc)
      /\ Pieces(KeptWires(tape, hkey, i), p, rpc) /\ Pieces(SentGates(tape, hkey, hmask), p, rpc)
  BY <1>1, <1>2, AllPieces
<1>4. Reached(i) = p
  BY ReachedFacts
<1>5. Streams /\ \A s : Store(Ended(gpc), s) = s
  BY DEF IInv, Store
<1>6. /\ msg_input_masks[i] = Stream(SentInputMasks(tape, hmask, i), p, rpc)
      /\ msg_output_masks[i] = Stream(SentOutputMasks(tape, hmask), p, rpc)
      /\ wires[i] = Stream(KeptWires(tape, hkey, i), p, rpc)
      /\ gates[i] = Stream(SentGates(tape, hkey, hmask), p, rpc)
  BY <1>1, <1>4, <1>5 DEF Streams
<1>7. \A b : /\ Rests(i, b).input_masks = Stream(SentInputMasks(tape, hmask, i), b, rpc)
             /\ Rests(i, b).output_masks = Stream(SentOutputMasks(tape, hmask), b, rpc)
             /\ Rests(i, b).wires = Stream(KeptWires(tape, hkey, i), b, rpc)
             /\ Rests(i, b).gates = Stream(SentGates(tape, hkey, hmask), b, rpc)
  BY DEF Rests
<1>8. p \in Int /\ rpc \in Int /\ p < rpc
  BY <1>1
<1>9. /\ msg_input_masks[i] = Cat(SentInputMasks(tape, hmask, i)[p], Rests(i, p + 1).input_masks)
      /\ IsSeq(Rests(i, p + 1).input_masks)
  BY <1>3, <1>6, <1>7, <1>8, StreamRead
<1>10. /\ msg_output_masks[i] = Cat(SentOutputMasks(tape, hmask)[p], Rests(i, p + 1).output_masks)
       /\ IsSeq(Rests(i, p + 1).output_masks)
  BY <1>3, <1>6, <1>7, <1>8, StreamRead
<1>11. /\ wires[i] = Cat(KeptWires(tape, hkey, i)[p], Rests(i, p + 1).wires)
       /\ IsSeq(Rests(i, p + 1).wires)
  BY <1>3, <1>6, <1>7, <1>8, StreamRead
<1>12. /\ gates[i] = Cat(SentGates(tape, hkey, hmask)[p], Rests(i, p + 1).gates)
       /\ IsSeq(Rests(i, p + 1).gates)
  BY <1>3, <1>6, <1>7, <1>8, StreamRead
<1> QED BY <1>9, <1>10, <1>11, <1>12

(* All that the steps of EvalRegister leave alone.                          *)
EvalFrame ==
  /\ tape' = tape /\ rpc' = rpc /\ rkey' = rkey /\ rmask' = rmask /\ drawn' = drawn
  /\ msg_keys' = msg_keys /\ twires' = twires
  /\ ppc' = ppc /\ pkey' = pkey /\ gate_counter' = gate_counter /\ prf_outputs' = prf_outputs
  /\ gpc' = gpc /\ gmask' = gmask /\ circuit' = circuit
  /\ hkey' = hkey /\ hmask' = hmask

(* Party i has come to position n, and waits there for an input if w.       *)
EvalPlace(i, n, w) ==
  /\ OnlyFor(i, epc, epc', n) /\ OnlyFor(i, waiting, waiting', w)
  /\ n \in Positions /\ w \in BOOLEAN
  /\ w => ~ Ended(n) /\ tape[n].op = "input"
  /\ OnlyFor(i, gate_counter2, gate_counter2', Ands(tape, n))

(* It has read its streams up to position b.                                *)
EvalTaken(i, b) ==
  /\ OnlyFor(i, msg_input_masks, msg_input_masks', Rests(i, b).input_masks)
  /\ OnlyFor(i, msg_output_masks, msg_output_masks', Rests(i, b).output_masks)
  /\ OnlyFor(i, wires, wires', Rests(i, b).wires)
  /\ OnlyFor(i, gates, gates', Rests(i, b).gates)

(* It holds ext and ent on its wires.                                       *)
EvalWires(i, ext, ent) ==
  /\ OnlyFor(i, external, external', ext) /\ OnlyFor(i, entry, entry', ent)
  /\ ext \in [Reg -> BOOLEAN] /\ DOMAIN ent = Reg /\ \A r \in Reg : PerParty(ent[r])

EvalMessages == PerParty(outputs') /\ PerParty(net') /\ \A j \in Party : PerParty(net'[j])

(* What a step of EvalRegister has to establish.                            *)
LEMMA EvalIInv ==
  ASSUME IInv, NEW i \in Party, Ended(gpc), ~ Ended(epc[i]), EvalFrame,
         NEW n, NEW w, EvalPlace(i, n, w), EvalTaken(i, IF w THEN n + 1 ELSE n),
         NEW ext, NEW ent, EvalWires(i, ext, ent), EvalMessages,
         Messages', Fits(i)', Begun(i)'
  PROVE  IInv'
<1>1. /\ tape' = tape /\ rpc' = rpc /\ rkey' = rkey /\ rmask' = rmask /\ drawn' = drawn
      /\ msg_keys' = msg_keys /\ twires' = twires
      /\ ppc' = ppc /\ pkey' = pkey /\ gate_counter' = gate_counter /\ prf_outputs' = prf_outputs
      /\ gpc' = gpc /\ gmask' = gmask /\ circuit' = circuit
      /\ hkey' = hkey /\ hmask' = hmask
  BY DEF EvalFrame
<1>2. /\ epc'[i] = n /\ waiting'[i] = w /\ n \in Positions /\ w \in BOOLEAN
      /\ w => ~ Ended(n) /\ tape[n].op = "input"
      /\ \A j \in Party \ {i} : epc'[j] = epc[j] /\ waiting'[j] = waiting[j]
      /\ PerParty(epc') /\ PerParty(waiting')
      /\ OnlyFor(i, gate_counter2, gate_counter2', Ands(tape, n))
  BY DEF EvalPlace, OnlyFor
<1>3. Ended(rpc) /\ (\A j \in Party : Ended(ppc[j]) /\ ppc[j] = rpc) /\ gpc = rpc
  BY EvalKnows
<1>4. Places /\ Types /\ History /\ Streams /\ Labels
  BY Parts
<1>5. /\ Positions' = Positions /\ \A q : Ended(q)' <=> Ended(q)
  BY <1>1 DEF Positions, Ended
<1>6. Reached(i)' = (IF w THEN n + 1 ELSE n) /\ \A j \in Party \ {i} : Reached(j)' = Reached(j)
  BY <1>2 DEF Reached
<1>7. Places'
  <2>1. tape' \in Tapes /\ rpc' \in Positions' /\ gpc' \in Positions' /\ ppc' \in [Party -> Positions']
    BY <1>1, <1>4, <1>5 DEF Places
  <2>2. epc' \in [Party -> Positions']
    <3>1. \A j \in Party : epc'[j] \in Positions
      <4> TAKE j \in Party
      <4>1. epc[j] \in Positions
        BY <1>4 DEF Places
      <4> HIDE DEF Positions
      <4> QED BY <1>2, <4>1
    <3> HIDE DEF Positions
    <3> QED BY <1>2, <1>5, <3>1 DEF PerParty
  <2>3. waiting' \in [Party -> BOOLEAN]
    <3>1. \A j \in Party : waiting'[j] \in BOOLEAN
      <4> TAKE j \in Party
      <4>1. waiting[j] \in BOOLEAN
        BY <1>4 DEF Places
      <4> QED BY <1>2, <4>1
    <3> QED BY <1>2, <3>1 DEF PerParty
  <2>4. Ended(rpc)' /\ Ended(gpc)' /\ \A j \in Party : Ended(ppc[j])'
    BY <1>1, <1>3 DEF Ended
  <2>5. \A j \in Party : waiting'[j] => ~ Ended(epc[j])' /\ tape'[epc'[j]].op = "input"
    <3> TAKE j \in Party
    <3>1. CASE j = i
      BY <1>1, <1>2, <3>1 DEF Ended
    <3>2. CASE j # i
      <4>1. epc'[j] = epc[j] /\ waiting'[j] = waiting[j]
        BY <1>2, <3>2
      <4>2. waiting[j] => ~ Ended(epc[j]) /\ tape[epc[j]].op = "input"
        BY <1>4 DEF Places
      <4> QED BY <1>1, <4>1, <4>2 DEF Ended
    <3> QED BY <3>1, <3>2
  <2> QED BY <2>1, <2>2, <2>3, <2>4, <2>5 DEF Places
<1>8. /\ OnlyFor(i, external, external', ext) /\ OnlyFor(i, entry, entry', ent)
      /\ ext \in [Reg -> BOOLEAN] /\ DOMAIN ent = Reg /\ \A r \in Reg : PerParty(ent[r])
  BY DEF EvalWires
<1>9. /\ OnlyFor(i, msg_input_masks, msg_input_masks', Rests(i, Reached(i)').input_masks)
      /\ OnlyFor(i, msg_output_masks, msg_output_masks', Rests(i, Reached(i)').output_masks)
      /\ OnlyFor(i, wires, wires', Rests(i, Reached(i)').wires)
      /\ OnlyFor(i, gates, gates', Rests(i, Reached(i)').gates)
  BY <1>6 DEF EvalTaken
<1>10. Types'
  <2>1. /\ DOMAIN hkey = Positions /\ hmask \in [Positions -> [Reg -> BOOLEAN]]
        /\ (\A q \in Positions : DOMAIN hkey[q] = Reg /\ \A r \in Reg : PerParty(hkey[q][r]))
        /\ drawn \in Nat /\ PerParty(pkey) /\ (\A j \in Party : pkey[j] = [r \in Reg |-> pkey[j][r]])
        /\ PerParty(msg_keys) /\ PerParty(prf_outputs) /\ PerParty(gate_counter)
        /\ (\A j \in Party : external[j] \in [Reg -> BOOLEAN] /\ DOMAIN entry[j] = Reg /\ \A r \in Reg : PerParty(entry[j][r]))
    BY <1>4 DEF Types
  <2>2. external' \in [Party -> [Reg -> BOOLEAN]]
    <3>1. \A j \in Party : external'[j] \in [Reg -> BOOLEAN]
      BY <1>8, <2>1 DEF OnlyFor
    <3> QED BY <1>8, <3>1 DEF OnlyFor, PerParty
  <2>3. PerParty(entry') /\ \A j \in Party : DOMAIN entry'[j] = Reg /\ \A r \in Reg : PerParty(entry'[j][r])
    <3>1. ASSUME NEW j \in Party PROVE DOMAIN entry'[j] = Reg /\ \A r \in Reg : PerParty(entry'[j][r])
      BY <1>8, <2>1 DEF OnlyFor
    <3> QED BY <1>8, <3>1 DEF OnlyFor
  <2>4. /\ PerParty(msg_input_masks') /\ PerParty(msg_output_masks') /\ PerParty(wires') /\ PerParty(gates')
        /\ PerParty(gate_counter2')
    BY <1>2, <1>9 DEF OnlyFor
  <2>5. PerParty(outputs') /\ PerParty(net') /\ \A j \in Party : PerParty(net'[j])
    BY DEF EvalMessages
  <2> QED BY <1>1, <1>5, <2>1, <2>2, <2>3, <2>4, <2>5 DEF Types
<1>11. History'
  <2>1. /\ rkey' = hkey'[rpc'] /\ rmask' = hmask'[rpc'] /\ gmask' = hmask'[gpc']
        /\ (\A q \in 1 .. rpc' - 1 : RandomRule(tape'[q], hkey'[q], hkey'[q + 1], hmask'[q], hmask'[q + 1]))
        /\ (\A j \in Party : \A r \in Reg : pkey'[j][r] = hkey'[ppc'[j]][r][j])
        /\ \A j \in Party : gate_counter'[j] = Ands(tape', ppc'[j])
    BY <1>1, <1>4 DEF History
  <2>2. ASSUME NEW j \in Party PROVE gate_counter2'[j] = Ands(tape', epc'[j])
    <3>1. CASE j = i
      BY <1>1, <1>2, <3>1 DEF OnlyFor
    <3>2. CASE j # i
      <4>1. gate_counter2[j] = Ands(tape, epc[j])
        BY <1>4 DEF History
      <4> QED BY <1>1, <1>2, <3>2, <4>1 DEF OnlyFor
    <3> QED BY <3>1, <3>2
  <2> QED BY <2>1, <2>2 DEF History
<1>12. Streams'
  <2>1. /\ twires' = Stream(StoredWires(tape', hkey', hmask'), gpc', rpc')
        /\ circuit' = Stream(SentGates(tape', hkey', hmask'), 1, gpc')
    BY <1>1, <1>4 DEF Streams
  <2>2. \A j \in Party : /\ msg_keys'[j] = Stream(SentKeys(tape', hkey', j), ppc'[j], rpc')
                         /\ prf_outputs'[j] = Stream(SentTuples(tape', hkey', j), gpc', ppc'[j])
    BY <1>1, <1>4 DEF Streams
  <2>3. Ended(gpc)' /\ \A s : Store(Ended(gpc)', s) = s
    BY <1>1 DEF Store, Ended
  <2>4. ASSUME NEW j \in Party
        PROVE  /\ msg_input_masks'[j] = Stream(SentInputMasks(tape', hmask', j), Reached(j)', rpc')
               /\ msg_output_masks'[j] = Stream(SentOutputMasks(tape', hmask'), Reached(j)', rpc')
               /\ wires'[j] = Stream(KeptWires(tape', hkey', j), Reached(j)', ppc'[j])
               /\ gates'[j] = Store(Ended(gpc)', Stream(SentGates(tape', hkey', hmask'), Reached(j)', gpc'))
    <3>1. CASE j = i
      <4>1. PICK b : b = Reached(i)'
        OBVIOUS
      <4>2. /\ msg_input_masks'[i] = Rests(i, b).input_masks /\ msg_output_masks'[i] = Rests(i, b).output_masks
            /\ wires'[i] = Rests(i, b).wires /\ gates'[i] = Rests(i, b).gates
        BY <1>9, <4>1 DEF OnlyFor
      <4>3. /\ msg_input_masks'[i] = Stream(SentInputMasks(tape, hmask, i), b, rpc)
            /\ msg_output_masks'[i] = Stream(SentOutputMasks(tape, hmask), b, rpc)
            /\ wires'[i] = Stream(KeptWires(tape, hkey, i), b, rpc)
            /\ gates'[i] = Stream(SentGates(tape, hkey, hmask), b, rpc)
        BY <4>2 DEF Rests
      <4> QED BY <1>1, <1>3, <2>3, <3>1, <4>1, <4>3
    <3>2. CASE j # i
      <4>1. /\ msg_input_masks'[j] = msg_input_masks[j] /\ msg_output_masks'[j] = msg_output_masks[j]
            /\ wires'[j] = wires[j] /\ gates'[j] = gates[j] /\ Reached(j)' = Reached(j)
        BY <1>6, <1>9, <3>2 DEF OnlyFor
      <4>2. /\ msg_input_masks[j] = Stream(SentInputMasks(tape, hmask, j), Reached(j), rpc)
            /\ msg_output_masks[j] = Stream(SentOutputMasks(tape, hmask), Reached(j), rpc)
            /\ wires[j] = Stream(KeptWires(tape, hkey, j), Reached(j), ppc[j])
            /\ gates[j] = Store(Ended(gpc), Stream(SentGates(tape, hkey, hmask), Reached(j), gpc))
        BY <1>4 DEF Streams
      <4>3. \A s : Store(Ended(gpc), s) = s
        BY DEF Store
      <4> QED BY <1>1, <2>3, <4>1, <4>2, <4>3
    <3> QED BY <3>1, <3>2
  <2> QED BY <2>1, <2>2, <2>4 DEF Streams
<1>13. Labels'
  <2>1. ASSUME NEW j \in Party, j # i PROVE Fits(j)' /\ Begun(j)'
    <3>1. epc'[j] = epc[j] /\ waiting'[j] = waiting[j] /\ external'[j] = external[j] /\ entry'[j] = entry[j]
      BY <1>2, <1>8, <2>1 DEF OnlyFor
    <3>2. Fits(j) /\ Begun(j)
      BY <1>4 DEF Labels
    <3>3. Fits(j)'
      BY <1>1, <3>1, <3>2 DEF Fits
    <3>4. Begun(j)'
      BY <1>1, <3>1, <3>2 DEF Begun
    <3> QED BY <3>3, <3>4
  <2> QED BY <2>1 DEF Labels
<1>14. (Places /\ Types /\ History /\ Streams /\ Messages /\ Labels)'
  BY <1>7, <1>10, <1>11, <1>12, <1>13
<1> QED BY <1>14, Parts, PTL

-----------------------------------------------------------------------------
(* The messages of an input are the same for all that have not begun it.    *)
LEMMA SameLabels ==
  ASSUME NEW t, NEW K, NEW M, NEW j, NEW q \in DOMAIN t, NEW a, NEW c,
         t[q].i # j \/ (q # a /\ q # c)
  PROVE  SentLabels(t, K, M, j, a)[q] = SentLabels(t, K, M, j, c)[q]
<1>1. PICK x, l : x = ExternalMsg(t, M, q) /\ l = LabelMsg(t, K, M, q, j)
  OBVIOUS
<1>2. /\ t[q].op # "input" => SentLabels(t, K, M, j, a)[q] = <<>>
      /\ t[q].op = "input" /\ t[q].i = j /\ q # a => SentLabels(t, K, M, j, a)[q] = Cat(x, l)
      /\ t[q].op = "input" /\ (t[q].i # j \/ q = a) => SentLabels(t, K, M, j, a)[q] = l
  BY <1>1, LabelPieceFacts
<1>3. /\ t[q].op # "input" => SentLabels(t, K, M, j, c)[q] = <<>>
      /\ t[q].op = "input" /\ t[q].i = j /\ q # c => SentLabels(t, K, M, j, c)[q] = Cat(x, l)
      /\ t[q].op = "input" /\ (t[q].i # j \/ q = c) => SentLabels(t, K, M, j, c)[q] = l
  BY <1>1, LabelPieceFacts
<1> QED BY <1>2, <1>3

(* Without an input no message is sent or read.                             *)
LEMMA MessagesIdle ==
  ASSUME IInv, NEW i \in Party, Ended(gpc), ~ Ended(epc[i]), ~ waiting[i], EvalFrame,
         tape[epc[i]].op # "input", EvalPlace(i, epc[i] + 1, FALSE), net' = net
  PROVE  Messages'
<1>1. PICK p : p = epc[i]
  OBVIOUS
<1>2. tape' = tape /\ hkey' = hkey /\ hmask' = hmask
  BY DEF EvalFrame
<1>3. /\ epc'[i] = p + 1 /\ waiting'[i] = FALSE
      /\ \A j \in Party \ {i} : epc'[j] = epc[j] /\ waiting'[j] = waiting[j]
  BY <1>1 DEF EvalPlace, OnlyFor
<1>4. /\ tape \in Tapes /\ p \in DOMAIN tape /\ p \in Nat /\ p >= 1 /\ p + 1 <= Len(tape) + 1 /\ KeysTyped(tape, hkey)
  BY <1>1, EvalKnows
<1>5. /\ Reached(i) = p /\ Reached(i)' = p + 1
      /\ \A j \in Party \ {i} : Reached(j)' = Reached(j)
  BY <1>1, <1>3 DEF Reached
<1>8. BegunAt(i) = 0 /\ BegunAt(i)' = 0 /\ \A j \in Party \ {i} : BegunAt(j)' = BegunAt(j)
  BY <1>3 DEF BegunAt
<1>6. Messages
  BY DEF IInv
<1>7. ASSUME NEW j \in Party, NEW k \in Party
      PROVE  IF j = k THEN net'[j][k] = <<>>
             ELSE /\ net'[j][k] = Stream(SentLabels(tape', hkey', hmask', j, BegunAt(k)'), epc'[k], Reached(j)')
                  /\ waiting'[k] /\ tape'[epc'[k]].i = j => Reached(j)' > epc'[k]
                  /\ \A q \in Reached(j)' .. epc'[k] - 1 : tape'[q].op # "input"
  <2>1. CASE j = k
    BY <1>6, <2>1 DEF Messages
  <2>2. CASE j # k
    <3>1. /\ net[j][k] = Stream(SentLabels(tape, hkey, hmask, j, BegunAt(k)), epc[k], Reached(j))
          /\ waiting[k] /\ tape[epc[k]].i = j => Reached(j) > epc[k]
          /\ \A q \in Reached(j) .. epc[k] - 1 : tape[q].op # "input"
      BY <1>6, <2>2 DEF Messages
    <3>2. CASE j # i /\ k # i
      <4>1. epc'[k] = epc[k] /\ waiting'[k] = waiting[k] /\ Reached(j)' = Reached(j) /\ BegunAt(k)' = BegunAt(k)
        BY <1>3, <1>5, <1>8, <3>2
      <4> QED BY <1>2, <2>2, <3>1, <4>1
    <3>3. CASE j = i
      <4>1. PICK a, b, f : a = epc[k] /\ b = BegunAt(k) /\ f = SentLabels(tape, hkey, hmask, i, b)
        OBVIOUS
      <4>2. a \in Nat /\ a >= 1
        BY <4>1, ReachedFacts
      <4>3. epc'[k] = a /\ waiting'[k] = waiting[k] /\ BegunAt(k)' = b
        BY <1>3, <1>8, <2>2, <3>3, <4>1
      <4>4. f[p] = <<>>
        <5>1. tape[p].op # "input"
          BY <1>1
        <5> QED BY <1>4, <4>1, <4>2, <5>1, LabelPieceFacts
      <4>5. Pieces(f, a, p + 1)
        <5>1. a \in Int /\ p + 1 \in Int
          BY <1>4, <4>2
        <5> QED BY <1>4, <4>1, <4>2, <5>1, AllPieces
      <4>6. Stream(f, a, p + 1) = Stream(f, a, p)
        <5>1. a \in Int /\ p \in Int
          BY <1>4, <4>2
        <5> QED BY <4>4, <4>5, <5>1, StreamIdle
      <4>7. net'[j][k] = Stream(SentLabels(tape', hkey', hmask', j, BegunAt(k)'), epc'[k], Reached(j)')
        BY <1>2, <1>5, <3>1, <3>3, <4>1, <4>3, <4>6
      <4>8. waiting'[k] /\ tape'[epc'[k]].i = j => Reached(j)' > epc'[k]
        BY <1>2, <1>4, <1>5, <3>1, <3>3, <4>1, <4>2, <4>3
      <4>9. \A q \in Reached(j)' .. epc'[k] - 1 : tape'[q].op # "input"
        <5>1. p + 1 .. a - 1 \subseteq p .. a - 1
          BY <1>4, <4>2
        <5> QED BY <1>2, <1>5, <3>1, <3>3, <4>1, <4>3, <5>1
      <4> QED BY <2>2, <4>7, <4>8, <4>9
    <3>4. CASE k = i
      <4>1. PICK b, f : b = Reached(j) /\ f = SentLabels(tape, hkey, hmask, j, 0)
        OBVIOUS
      <4>2. b \in Nat /\ b <= Len(tape) + 1 /\ Reached(j)' = b
        BY <1>5, <2>2, <3>4, <4>1, ReachedFacts
      <4>3. net[j][i] = Stream(f, p, b)
        BY <1>1, <1>8, <3>1, <3>4, <4>1
      <4>4. Stream(f, p + 1, b) = Stream(f, p, b)
        <5>1. CASE b <= p
          <6>1. Stream(f, p + 1, b) = <<>>
            BY <1>4, <4>2, <5>1, StreamNone
          <6>2. Stream(f, p, b) = <<>>
            BY <1>4, <4>2, <5>1, StreamNone
          <6> QED BY <6>1, <6>2
        <5>2. CASE ~ (b <= p)
          <6>1. p \in Int /\ b \in Int /\ p < b /\ p + 1 \in Int
            BY <1>4, <4>2, <5>2
          <6>2. Pieces(f, p, b)
            BY <1>4, <4>1, <4>2, <6>1, AllPieces
          <6>3. f[p] = <<>>
            <7>1. tape[p].op # "input"
              BY <1>1
            <7> QED BY <1>4, <4>1, <7>1, LabelPieceFacts
          <6>4. Stream(f, p, b) = Cat(f[p], Stream(f, p + 1, b)) /\ IsSeq(Stream(f, p + 1, b))
            BY <6>1, <6>2, StreamRead
          <6> QED BY <6>3, <6>4, CatEmpty
        <5> QED BY <5>1, <5>2
      <4>5. net'[j][k] = Stream(SentLabels(tape', hkey', hmask', j, BegunAt(k)'), epc'[k], Reached(j)')
        BY <1>2, <1>3, <1>8, <3>4, <4>1, <4>2, <4>3, <4>4
      <4>6. \A q \in Reached(j)' .. epc'[k] - 1 : tape'[q].op # "input"
        <5>1. ASSUME NEW q \in b .. p PROVE tape[q].op # "input"
          <6>1. CASE q = p
            BY <1>1, <6>1
          <6>2. CASE q # p
            <7>1. q \in b .. p - 1
              BY <1>4, <4>2, <6>2
            <7> QED BY <1>1, <3>1, <3>4, <4>1, <7>1
          <6> QED BY <6>1, <6>2
        <5>2. Reached(j)' = b /\ epc'[k] - 1 = p
          BY <1>3, <1>4, <3>4, <4>2
        <5> QED BY <1>2, <5>1, <5>2
      <4> QED BY <1>3, <2>2, <3>4, <4>5, <4>6
    <3> QED BY <3>2, <3>3, <3>4
  <2> QED BY <2>1, <2>2
<1> QED BY <1>7 DEF Messages

-----------------------------------------------------------------------------
(* What an entry makes the party read from each stream.                     *)
Reading(i, p, e, k, R) ==
  /\ IsSeq(R.input_masks) /\ IsSeq(R.output_masks) /\ IsSeq(R.wires) /\ IsSeq(R.gates)
  /\ e.op = "input" /\ e.i = i => msg_input_masks[i] = Cat(<<hmask[p + 1][e.out]>>, R.input_masks)
  /\ ~ (e.op = "input" /\ e.i = i) => msg_input_masks[i] = R.input_masks
  /\ e.op = "reveal" => msg_output_masks[i] = Cat(<<hmask[p][e.left]>>, R.output_masks)
  /\ e.op # "reveal" => msg_output_masks[i] = R.output_masks
  /\ e.op \notin {"input", "random", "reveal"} => wires[i] = R.wires
  /\ e.op = "input" => wires[i] = Cat(<<k[i]>>, R.wires)
  /\ e.op = "random" => wires[i] = Cat(Cat(<<k[i]>>, k), R.wires)
  /\ e.op = "reveal" => wires[i] = Cat(<<hkey[p][e.left][i]>>, R.wires)
  /\ e.op = "and" => gates[i] = Cat(<<GateAt(tape, hkey, hmask, p)>>, R.gates)
  /\ e.op # "and" => gates[i] = R.gates

LEMMA EvalPieces ==
  ASSUME IInv, NEW i \in Party, Ended(gpc), ~ Ended(epc[i]), NEW p, p = epc[i], ~ waiting[i]
  PROVE  Reading(i, p, tape[p], hkey[p + 1][tape[p].out], Rests(i, p + 1))
<1>0. PICK e, k, R : e = tape[p] /\ k = hkey[p + 1][e.out] /\ R = Rests(i, p + 1)
  OBVIOUS
<1>1. /\ msg_input_masks[i] = Cat(SentInputMasks(tape, hmask, i)[p], R.input_masks)
      /\ msg_output_masks[i] = Cat(SentOutputMasks(tape, hmask)[p], R.output_masks)
      /\ wires[i] = Cat(KeptWires(tape, hkey, i)[p], R.wires)
      /\ gates[i] = Cat(SentGates(tape, hkey, hmask)[p], R.gates)
      /\ IsSeq(R.input_masks) /\ IsSeq(R.output_masks) /\ IsSeq(R.wires) /\ IsSeq(R.gates)
  BY <1>0, EvalReads
<1>2. tape \in Tapes /\ p \in DOMAIN tape /\ KeysTyped(tape, hkey) /\ PerParty(k)
  BY <1>0, EvalKnows
<1>3. /\ Cat(<<>>, R.input_masks) = R.input_masks /\ Cat(<<>>, R.output_masks) = R.output_masks
      /\ Cat(<<>>, R.wires) = R.wires /\ Cat(<<>>, R.gates) = R.gates
  BY <1>1, CatEmpty
<1>4. /\ e.op = "input" /\ e.i = i => SentInputMasks(tape, hmask, i)[p] = <<hmask[p + 1][e.out]>>
      /\ ~ (e.op = "input" /\ e.i = i) => SentInputMasks(tape, hmask, i)[p] = <<>>
  <2>1. p \in DOMAIN tape
    BY <1>2
  <2>2. /\ tape[p].op = "input" /\ tape[p].i = i => SentInputMasks(tape, hmask, i)[p] = <<hmask[p + 1][tape[p].out]>>
        /\ ~ (tape[p].op = "input" /\ tape[p].i = i) => SentInputMasks(tape, hmask, i)[p] = <<>>
    BY ONLY <2>1, InputMasksAt, ZenonT(60)
  <2> QED BY <1>0, <2>2
<1>5. /\ e.op = "reveal" => SentOutputMasks(tape, hmask)[p] = <<hmask[p][e.left]>>
      /\ e.op # "reveal" => SentOutputMasks(tape, hmask)[p] = <<>>
  BY <1>0, <1>2, OutputMasksAt
<1>6. KeptWires(tape, hkey, i)[p] = WirePiece(e, k, hkey[p][e.left], i)
  BY <1>0, <1>2, KeptAt
<1>7. /\ e.op \notin {"input", "random", "reveal"} => WirePiece(e, k, hkey[p][e.left], i) = <<>>
      /\ e.op = "input" => WirePiece(e, k, hkey[p][e.left], i) = <<k[i]>>
      /\ e.op = "random" => WirePiece(e, k, hkey[p][e.left], i) = Cat(<<k[i]>>, k)
      /\ e.op = "reveal" => WirePiece(e, k, hkey[p][e.left], i) = <<hkey[p][e.left][i]>>
  <2>1. PICK l : l = hkey[p][e.left]
    OBVIOUS
  <2>2. PerParty(k)
    BY <1>2
  <2>3. /\ e.op \notin {"input", "random", "reveal"} => WirePiece(e, k, l, i) = <<>>
        /\ e.op = "input" => WirePiece(e, k, l, i) = <<k[i]>>
        /\ e.op = "random" => WirePiece(e, k, l, i) = Cat(<<k[i]>>, k)
        /\ e.op = "reveal" => WirePiece(e, k, l, i) = <<l[i]>>
    BY ONLY <2>2, WirePieceFacts
  <2> QED BY <2>1, <2>3
<1>8. /\ e.op = "and" => SentGates(tape, hkey, hmask)[p] = <<GateAt(tape, hkey, hmask, p)>>
      /\ e.op # "and" => SentGates(tape, hkey, hmask)[p] = <<>>
  BY <1>0, <1>2, GatesAt
<1>9. /\ e.op = "input" /\ e.i = i => msg_input_masks[i] = Cat(<<hmask[p + 1][e.out]>>, R.input_masks)
      /\ ~ (e.op = "input" /\ e.i = i) => msg_input_masks[i] = R.input_masks
      /\ e.op = "reveal" => msg_output_masks[i] = Cat(<<hmask[p][e.left]>>, R.output_masks)
      /\ e.op # "reveal" => msg_output_masks[i] = R.output_masks
  BY <1>1, <1>3, <1>4, <1>5
<1>10. /\ e.op \notin {"input", "random", "reveal"} => wires[i] = R.wires
       /\ e.op = "input" => wires[i] = Cat(<<k[i]>>, R.wires)
       /\ e.op = "random" => wires[i] = Cat(Cat(<<k[i]>>, k), R.wires)
       /\ e.op = "reveal" => wires[i] = Cat(<<hkey[p][e.left][i]>>, R.wires)
  BY <1>1, <1>3, <1>6, <1>7
<1>11. /\ e.op = "and" => gates[i] = Cat(<<GateAt(tape, hkey, hmask, p)>>, R.gates)
       /\ e.op # "and" => gates[i] = R.gates
  BY <1>1, <1>3, <1>8
<1>12. Reading(i, p, e, k, R)
  BY <1>1, <1>9, <1>10, <1>11 DEF Reading
<1> QED BY <1>0, <1>12

(* What every step starts from.                                             *)
LEMMA EvalTypes ==
  ASSUME IInv
  PROVE  /\ PerParty(epc) /\ PerParty(waiting) /\ PerParty(gate_counter2) /\ PerParty(gates)
         /\ PerParty(external) /\ PerParty(entry) /\ PerParty(outputs) /\ PerParty(net)
         /\ PerParty(wires) /\ PerParty(msg_input_masks) /\ PerParty(msg_output_masks)
         /\ \A i \in Party : /\ external[i] \in [Reg -> BOOLEAN] /\ PerParty(net[i])
                             /\ DOMAIN entry[i] = Reg /\ \A r \in Reg : PerParty(entry[i][r])
<1>1. Places /\ Types
  BY DEF IInv
<1>2. PerParty(epc) /\ PerParty(waiting)
  BY <1>1 DEF Places, PerParty
<1>3. PerParty(external) /\ \A i \in Party : external[i] \in [Reg -> BOOLEAN]
  BY <1>1 DEF Types, PerParty
<1> QED BY <1>1, <1>2, <1>3 DEF Types

(* A wire of party i is written.                                            *)
LEMMA EvalWireIs ==
  ASSUME IInv, NEW i \in Party, NEW r \in Reg, NEW x, x \in BOOLEAN, NEW l, PerParty(l), EvalWire(i, r, x, l)
  PROVE  /\ EvalWires(i, external'[i], entry'[i])
         /\ external'[i][r] = x /\ entry'[i][r] = l
         /\ \A q \in Reg \ {r} : external'[i][q] = external[i][q] /\ entry'[i][q] = entry[i][q]
<1>1. /\ external' = [external EXCEPT ![i][r] = x] /\ entry' = [entry EXCEPT ![i][r] = l]
  BY DEF EvalWire
<1>2. /\ PerParty(external) /\ PerParty(entry) /\ external[i] \in [Reg -> BOOLEAN]
      /\ DOMAIN entry[i] = Reg /\ \A q \in Reg : PerParty(entry[i][q])
  BY EvalTypes
<1>3. PICK f, g : f = [external[i] EXCEPT ![r] = x] /\ g = [entry[i] EXCEPT ![r] = l]
  OBVIOUS
<1>4. external' = [external EXCEPT ![i] = f] /\ entry' = [entry EXCEPT ![i] = g]
  BY <1>1, <1>3
<1>5. OnlyFor(i, external, external', f)
  BY <1>2, <1>4, OnlyForNew
<1>6. OnlyFor(i, entry, entry', g)
  BY <1>2, <1>4, OnlyForNew
<1>7. f \in [Reg -> BOOLEAN] /\ f[r] = x /\ \A q \in Reg \ {r} : f[q] = external[i][q]
  BY <1>2, <1>3
<1>8. DOMAIN g = Reg /\ g[r] = l /\ \A q \in Reg \ {r} : g[q] = entry[i][q]
  BY <1>2, <1>3
<1>9. \A q \in Reg : PerParty(g[q])
  BY <1>2, <1>8
<1>10. external'[i] = f /\ entry'[i] = g
  BY <1>5, <1>6 DEF OnlyFor
<1>11. EvalWires(i, external'[i], entry'[i])
  BY <1>5, <1>6, <1>7, <1>8, <1>9, <1>10 DEF EvalWires
<1> QED BY <1>7, <1>8, <1>10, <1>11

(* An entry that writes a wire without exchanging messages.                 *)
LEMMA EvalWritten ==
  ASSUME IInv, NEW i \in Party, Ended(gpc), ~ Ended(epc[i]), ~ waiting[i], EvalFrame,
         NEW p, p = epc[i], tape[p].op \notin {"input", "reveal"},
         Done(i), waiting' = waiting, net' = net, outputs' = outputs,
         OnlyFor(i, gate_counter2, gate_counter2', Ands(tape, p + 1)), EvalTaken(i, p + 1),
         NEW x, x \in BOOLEAN, EvalWire(i, tape[p].out, x, LabelsOf(hkey[p + 1][tape[p].out], x))
  PROVE  IInv'
<1>1. /\ tape \in Tapes /\ p \in DOMAIN tape /\ p + 1 \in Positions
      /\ RandomRule(tape[p], hkey[p], hkey[p + 1], hmask[p], hmask[p + 1])
  BY EvalKnows
<1>2. PICK r, l : r = tape[p].out /\ l = LabelsOf(hkey[p + 1][r], x)
  OBVIOUS
<1>3. r \in Reg /\ PerParty(l)
  BY <1>1, <1>2, EntryFacts DEF LabelsOf, PerParty
<1>4. EvalWire(i, r, x, l)
  BY <1>2
<1>5. /\ EvalWires(i, external'[i], entry'[i])
      /\ external'[i][r] = x /\ entry'[i][r] = l
      /\ \A q \in Reg \ {r} : external'[i][q] = external[i][q] /\ entry'[i][q] = entry[i][q]
  BY <1>3, <1>4, EvalWireIs
<1>6. waiting[i] = FALSE
  BY DEF IInv, Places
<1>7. PerParty(epc) /\ PerParty(waiting) /\ PerParty(outputs) /\ PerParty(net) /\ \A j \in Party : PerParty(net[j])
  BY EvalTypes
<1>8. OnlyFor(i, epc, epc', p + 1)
  <2>1. epc' = [epc EXCEPT ![i] = p + 1]
    BY DEF Done
  <2> QED BY <1>7, <2>1, OnlyForNew
<1>9. OnlyFor(i, waiting, waiting', FALSE)
  BY <1>6, <1>7 DEF OnlyFor
<1>10. EvalPlace(i, p + 1, FALSE)
  BY <1>1, <1>8, <1>9 DEF EvalPlace
<1>11. Messages'
  BY <1>10, MessagesIdle
<1>12. epc'[i] = p + 1 /\ waiting'[i] = FALSE
  BY <1>8, <1>9 DEF OnlyFor
<1>13. Fits(i)'
  <2>1. /\ tape' = tape /\ hkey' = hkey
    BY DEF EvalFrame
  <2>2. Known(tape, p + 1) = Known(tape, p) \cup {r} /\ Known(tape, p) \subseteq Reg
    BY <1>1, <1>2, KnownGrows
  <2>3. \A q \in Reg \ {r} : hkey[p + 1][q] = hkey[p][q]
    BY <1>1, <1>2 DEF RandomRule
  <2>4. \A q \in Known(tape, p) : entry[i][q] = LabelsOf(hkey[p][q], external[i][q])
    BY <1>6, Parts DEF Labels, Fits
  <2>5. ASSUME NEW q \in Known(tape, p + 1)
        PROVE  entry'[i][q] = LabelsOf(hkey[p + 1][q], external'[i][q])
    <3>1. CASE q = r
      BY <1>2, <1>5, <3>1
    <3>2. CASE q # r
      BY <1>5, <2>2, <2>3, <2>4, <3>2
    <3> QED BY <3>1, <3>2
  <2> QED BY <1>12, <2>1, <2>5 DEF Fits
<1>14. Begun(i)'
  BY <1>12 DEF Begun
<1>15. EvalMessages
  BY <1>7 DEF EvalMessages
<1>16. EvalTaken(i, IF FALSE THEN p + 1 + 1 ELSE p + 1)
  OBVIOUS
<1>17. PICK n, w : n = p + 1 /\ w = FALSE
  OBVIOUS
<1>18. EvalPlace(i, n, w) /\ EvalTaken(i, IF w THEN n + 1 ELSE n)
  BY <1>10, <1>16, <1>17
<1> QED BY <1>5, <1>11, <1>13, <1>14, <1>15, <1>18, EvalIInv

-----------------------------------------------------------------------------
(* The entries that need no message.                                        *)

(* On the wires the entry reads the party holds the labels.                 *)
LEMMA EvalHolds ==
  ASSUME IInv, NEW i \in Party, Ended(gpc), ~ Ended(epc[i]), ~ waiting[i], NEW p, p = epc[i],
         NEW r \in Known(tape, p)
  PROVE  entry[i][r] = LabelsOf(hkey[p][r], external[i][r])
BY Parts DEF Labels, Fits

LEMMA EvalLinearIInv ==
  ASSUME IInv, NEW i \in Party, Ended(gpc), ~ Ended(epc[i]), ~ waiting[i], EvalFrame,
         NEW p, p = epc[i], EvalLinear(i, tape[p])
  PROVE  IInv'
<1>1. PICK e : e = tape[p]
  OBVIOUS
<1>2. /\ tape \in Tapes /\ p \in DOMAIN tape /\ p \in Nat /\ p >= 1
      /\ RandomRule(e, hkey[p], hkey[p + 1], hmask[p], hmask[p + 1])
      /\ gate_counter2[i] = Ands(tape, p)
  BY <1>1, EvalKnows
<1>3. /\ e.op \in {"public", "xor"} /\ Done(i) /\ waiting' = waiting /\ net' = net /\ outputs' = outputs
      /\ gate_counter2' = gate_counter2 /\ gates' = gates /\ wires' = wires
      /\ msg_input_masks' = msg_input_masks /\ msg_output_masks' = msg_output_masks
  BY <1>1 DEF EvalLinear
<1>4. /\ PerParty(gate_counter2) /\ PerParty(gates) /\ PerParty(wires)
      /\ PerParty(msg_input_masks) /\ PerParty(msg_output_masks) /\ external[i] \in [Reg -> BOOLEAN]
  BY EvalTypes
<1>5. OnlyFor(i, gate_counter2, gate_counter2', Ands(tape, p + 1))
  <2>1. Ands(tape, p + 1) = Ands(tape, p)
    BY <1>1, <1>2, <1>3, AndsFacts
  <2> QED BY <1>2, <1>3, <1>4, <2>1, OnlyForSame
<1>6. EvalTaken(i, p + 1)
  <2>1. PICK R : R = Rests(i, p + 1)
    OBVIOUS
  <2>2. /\ msg_input_masks[i] = R.input_masks /\ msg_output_masks[i] = R.output_masks
        /\ wires[i] = R.wires /\ gates[i] = R.gates
    <3>1. PICK k : k = hkey[p + 1][tape[p].out]
      OBVIOUS
    <3>2. Reading(i, p, tape[p], hkey[p + 1][tape[p].out], Rests(i, p + 1))
      BY EvalPieces
    <3>3. Reading(i, p, e, k, R)
      BY <1>1, <2>1, <3>1, <3>2
    <3> QED BY <1>3, <3>3 DEF Reading
  <2> QED BY <1>3, <1>4, <2>1, <2>2 DEF EvalTaken, OnlyFor
<1>7. e.out \in Reg /\ e.val \in BOOLEAN /\ tape[p].op \notin {"input", "reveal"} /\ e.left \in Reg /\ e.right \in Reg
  BY <1>1, <1>2, <1>3, EntryFacts
<1>8. CASE e.op = "public"
  <2>1. PICK x, k : x = e.val /\ k = hkey[p + 1][e.out]
    OBVIOUS
  <2>2. k = [j \in Party |-> DeltaIf(j, x)]
    BY <1>2, <1>8, <2>1 DEF RandomRule
  <2>3. LabelsOf(k, x) = None
    <3>1. ASSUME NEW j \in Party PROVE Add(k[j], DeltaIf(j, x)) = {}
      BY <2>2, AddSelf
    <3> QED BY <3>1 DEF LabelsOf, None, Each
  <2>4. EvalWire(i, tape[p].out, x, LabelsOf(hkey[p + 1][tape[p].out], x))
    BY <1>1, <1>8, <2>1, <2>3 DEF EvalLinear
  <2>5. x \in BOOLEAN
    BY <1>7, <2>1
  <2> QED BY <1>3, <1>5, <1>6, <1>7, <2>4, <2>5, EvalWritten
<1>9. CASE e.op = "xor"
  <2>1. PICK x, y, z : x = external[i][e.left] /\ y = external[i][e.right] /\ z = (x # y)
    OBVIOUS
  <2>2. PICK a, b, k : a = hkey[p][e.left] /\ b = hkey[p][e.right] /\ k = hkey[p + 1][e.out]
    OBVIOUS
  <2>3. x \in BOOLEAN /\ y \in BOOLEAN /\ z \in BOOLEAN
    BY <1>4, <1>7, <2>1
  <2>4. k = AddEach(a, b)
    BY <1>2, <1>9, <2>2 DEF RandomRule
  <2>5. e.left \in Known(tape, p) /\ e.right \in Known(tape, p)
    BY <1>1, <1>2, <1>9, ReadsFacts
  <2>6. entry[i][e.left] = LabelsOf(a, x) /\ entry[i][e.right] = LabelsOf(b, y)
    BY <2>1, <2>2, <2>5, EvalHolds
  <2>7. LabelsOf(k, z) = AddEach(LabelsOf(a, x), LabelsOf(b, y))
    <3>1. ASSUME NEW j \in Party
          PROVE  Add(k[j], DeltaIf(j, z)) = Add(Add(a[j], DeltaIf(j, x)), Add(b[j], DeltaIf(j, y)))
      <4>1. k[j] = Add(a[j], b[j])
        BY <2>4 DEF AddEach
      <4>2. Add(Add(a[j], DeltaIf(j, x)), Add(b[j], DeltaIf(j, y))) = Add(Add(a[j], b[j]), DeltaIf(j, x # y))
        BY <2>3, AddDeltas
      <4> QED BY <2>1, <4>1, <4>2
    <3> QED BY <3>1 DEF LabelsOf, AddEach
  <2>8. EvalWire(i, tape[p].out, z, LabelsOf(hkey[p + 1][tape[p].out], z))
    <3>1. EvalWire(i, e.out, x # y, AddEach(entry[i][e.left], entry[i][e.right]))
      BY <1>1, <1>9, <2>1 DEF EvalLinear
    <3> QED BY <1>1, <2>1, <2>2, <2>6, <2>7, <3>1
  <2> QED BY <1>3, <1>5, <1>6, <1>7, <2>3, <2>8, EvalWritten
<1> QED BY <1>3, <1>8, <1>9

LEMMA EvalRandomIInv ==
  ASSUME IInv, NEW i \in Party, Ended(gpc), ~ Ended(epc[i]), ~ waiting[i], EvalFrame,
         NEW p, p = epc[i], EvalRandom(i, tape[p])
  PROVE  IInv'
<1>1. PICK e, k : e = tape[p] /\ k = hkey[p + 1][e.out]
  OBVIOUS
<1>2. /\ tape \in Tapes /\ p \in DOMAIN tape /\ p \in Nat /\ p >= 1 /\ PerParty(k)
      /\ gate_counter2[i] = Ands(tape, p)
  BY <1>1, EvalKnows
<1>3. /\ e.op = "random" /\ Done(i) /\ waiting' = waiting /\ net' = net /\ outputs' = outputs
      /\ gate_counter2' = gate_counter2 /\ gates' = gates
      /\ wires' = [wires EXCEPT ![i] = SubSeq(wires[i], N + 2, Len(wires[i]))]
      /\ msg_input_masks' = msg_input_masks /\ msg_output_masks' = msg_output_masks
      /\ EvalWire(i, e.out, FALSE, SubSeq(wires[i], 2, N + 1))
  BY <1>1 DEF EvalRandom
<1>4. /\ PerParty(gate_counter2) /\ PerParty(gates) /\ PerParty(wires)
      /\ PerParty(msg_input_masks) /\ PerParty(msg_output_masks)
  BY EvalTypes
<1>5. OnlyFor(i, gate_counter2, gate_counter2', Ands(tape, p + 1))
  <2>1. Ands(tape, p + 1) = Ands(tape, p)
    BY <1>1, <1>2, <1>3, AndsFacts
  <2> QED BY <1>2, <1>3, <1>4, <2>1, OnlyForSame
<1>6. PICK R : R = Rests(i, p + 1)
  OBVIOUS
<1>7. /\ msg_input_masks[i] = R.input_masks /\ msg_output_masks[i] = R.output_masks /\ gates[i] = R.gates
      /\ wires[i] = Cat(Cat(<<k[i]>>, k), R.wires) /\ IsSeq(R.wires)
  <2>1. Reading(i, p, tape[p], hkey[p + 1][tape[p].out], Rests(i, p + 1))
    BY EvalPieces
  <2>2. Reading(i, p, e, k, R)
    BY <1>1, <1>6, <2>1
  <2> QED BY <1>3, <2>2 DEF Reading
<1>8. SubSeq(wires[i], 2, N + 1) = k /\ SubSeq(wires[i], N + 2, Len(wires[i])) = R.wires
  <2>1. PICK a, s : a = <<k[i]>> /\ s = R.wires
    OBVIOUS
  <2>2. IsSeq(a) /\ Len(a) = 1
    BY <2>1, OneFacts
  <2>3. IsSeq(k) /\ Len(k) = N /\ IsSeq(s) /\ N \in Nat
    BY <1>2, <1>7, <2>1, PartySeq, PartiesAssumption
  <2>4. IsSeq(Cat(a, k)) /\ Len(Cat(a, k)) = 1 + N /\ Cat(Cat(a, k), s) = Cat(a, Cat(k, s))
    <3>1. IsSeq(Cat(a, k))
      BY <2>2, <2>3, CatSeq
    <3>2. Len(Cat(a, k)) = 1 + N
      BY <2>2, <2>3, CatElements, SMTT(30)
    <3>3. Cat(Cat(a, k), s) = Cat(a, Cat(k, s))
      BY <2>2, <2>3, CatAssoc
    <3> QED BY <3>1, <3>2, <3>3
  <2>5. SubSeq(Cat(a, Cat(k, s)), Len(a) + 1, Len(a) + Len(k)) = k
    BY <2>2, <2>3, Middle
  <2>6. SubSeq(Cat(Cat(a, k), s), Len(Cat(a, k)) + 1, Len(Cat(Cat(a, k), s))) = s
    BY <2>3, <2>4, Rest
  <2>7. Len(a) + 1 = 2 /\ Len(a) + Len(k) = N + 1 /\ Len(Cat(a, k)) + 1 = N + 2
    BY <2>2, <2>3, <2>4
  <2> QED BY <1>7, <2>1, <2>4, <2>5, <2>6, <2>7
<1>9. EvalTaken(i, p + 1)
  <2>1. wires' = [wires EXCEPT ![i] = R.wires]
    BY <1>3, <1>8
  <2>2. OnlyFor(i, wires, wires', R.wires)
    BY <1>4, <2>1, OnlyForNew
  <2> QED BY <1>3, <1>4, <1>6, <1>7, <2>2 DEF EvalTaken, OnlyFor
<1>10. PICK x : x = FALSE
  OBVIOUS
<1>11. LabelsOf(k, x) = k
  <2>1. ASSUME NEW j \in Party PROVE Add(k[j], DeltaIf(j, x)) = k[j]
    BY <1>10 DEF Add, DeltaIf
  <2> QED BY <1>2, <2>1 DEF LabelsOf, PerParty
<1>12. EvalWire(i, tape[p].out, x, LabelsOf(hkey[p + 1][tape[p].out], x))
  BY <1>1, <1>3, <1>8, <1>10, <1>11
<1>13. x \in BOOLEAN /\ tape[p].op \notin {"input", "reveal"}
  BY <1>1, <1>3, <1>10
<1> QED BY <1>3, <1>5, <1>9, <1>12, <1>13, EvalWritten

(* The labels of both inputs open the entry of the gate for their external  *)
(* bits: what is left is the label of the gate's output.                    *)
LEMMA DecryptedIs ==
  ASSUME NEW i \in Party, NEW e, NEW g, NEW x, NEW y, NEW z, NEW l, NEW r, NEW k, NEW gate,
         external[i][e.left] = x, external[i][e.right] = y, Head(gates[i]) = gate,
         entry[i][e.left] = LabelsOf(l, x), entry[i][e.right] = LabelsOf(r, y),
         \A j \in Party : gate[x][y][j] = Add(Hidden(l, r, g, j, x, y), Add(k[j], DeltaIf(j, z)))
  PROVE  Decrypted(i, e, g) = LabelsOf(k, z)
<1>1. PICK pads : pads = [j \in Party |-> AddAll([p \in Party |->
                           Add(F(entry[i][e.left][p], y, g, j), F(entry[i][e.right][p], x, g, j))])]
  OBVIOUS
<1>2. Decrypted(i, e, g) = [j \in Party |-> Add(gate[x][y][j], pads[j])]
  BY <1>1 DEF Decrypted
<1>3. ASSUME NEW j \in Party PROVE pads[j] = Hidden(l, r, g, j, x, y)
  <2>1. \A p \in Party : /\ entry[i][e.left][p] = Add(l[p], DeltaIf(p, x))
                         /\ entry[i][e.right][p] = Add(r[p], DeltaIf(p, y))
    BY DEF LabelsOf
  <2>2. PICK a : a = [p \in Party |-> Add(F(entry[i][e.left][p], y, g, j), F(entry[i][e.right][p], x, g, j))]
    OBVIOUS
  <2>3. PICK b : b = [p \in Party |-> Add(F(Add(l[p], DeltaIf(p, x)), y, g, j), F(Add(r[p], DeltaIf(p, y)), x, g, j))]
    OBVIOUS
  <2>4. a = b
    BY <2>1, <2>2, <2>3
  <2>5. pads[j] = AddAll(a)
    BY <1>1, <2>2
  <2>6. Hidden(l, r, g, j, x, y) = AddAll(b)
    BY <2>3 DEF Hidden
  <2> QED BY <2>4, <2>5, <2>6
<1>4. ASSUME NEW j \in Party PROVE Add(gate[x][y][j], pads[j]) = Add(k[j], DeltaIf(j, z))
  <2>1. PICK h, b : h = Hidden(l, r, g, j, x, y) /\ b = Add(k[j], DeltaIf(j, z))
    OBVIOUS
  <2>2. gate[x][y][j] = Add(h, b) /\ pads[j] = h
    BY <1>3, <2>1
  <2>3. Add(Add(h, b), h) = b
    BY AddCancels
  <2> QED BY <2>1, <2>2, <2>3
<1> QED BY <1>2, <1>4 DEF LabelsOf

(* The external bit that the party has on the wire written at p.            *)
Sees(i, p, x) == external' = [external EXCEPT ![i][tape[p].out] = x]

(* A gate; its external bit is that of the output's value.                  *)
LEMMA EvalAndIInv ==
  ASSUME IInv, NEW i \in Party, Ended(gpc), ~ Ended(epc[i]), ~ waiting[i], EvalFrame,
         NEW p, p = epc[i], EvalAnd(i, tape[p])
  PROVE  /\ IInv'
         /\ Sees(i, p, OutBit(external[i][tape[p].left], external[i][tape[p].right], hmask[p + 1][tape[p].out],
                             hmask[p + 1][tape[p].left], hmask[p + 1][tape[p].right]))
<1>1. PICK e, k : e = tape[p] /\ k = hkey[p + 1][e.out]
  OBVIOUS
<1>2. /\ tape \in Tapes /\ p \in DOMAIN tape /\ p \in Nat /\ p >= 1 /\ PerParty(k)
      /\ gate_counter2[i] = Ands(tape, p)
      /\ RandomRule(e, hkey[p], hkey[p + 1], hmask[p], hmask[p + 1])
      /\ hmask[p + 1] \in [Reg -> BOOLEAN]
  BY <1>1, EvalKnows
<1>3. PICK g, new : g = gate_counter2[i] + 1 /\ new = Decrypted(i, e, g)
  OBVIOUS
<1>4. /\ e.op = "and" /\ Done(i) /\ waiting' = waiting /\ net' = net /\ outputs' = outputs
      /\ gate_counter2' = [gate_counter2 EXCEPT ![i] = gate_counter2[i] + 1]
      /\ gates' = [gates EXCEPT ![i] = Tail(gates[i])] /\ wires' = wires
      /\ msg_input_masks' = msg_input_masks /\ msg_output_masks' = msg_output_masks
      /\ EvalWire(i, e.out, Signal(i, new[i]), new)
  BY <1>1, <1>3 DEF EvalAnd
<1>5. /\ PerParty(gate_counter2) /\ PerParty(gates) /\ PerParty(wires)
      /\ PerParty(msg_input_masks) /\ PerParty(msg_output_masks) /\ external[i] \in [Reg -> BOOLEAN]
  BY EvalTypes
<1>6. Ands(tape, p + 1) = g
  BY <1>1, <1>2, <1>3, <1>4, AndsFacts, ZenonT(60)
<1>7. OnlyFor(i, gate_counter2, gate_counter2', Ands(tape, p + 1))
  BY <1>3, <1>4, <1>5, <1>6, OnlyForNew
<1>8. PICK R, gate : R = Rests(i, p + 1) /\ gate = GateAt(tape, hkey, hmask, p)
  OBVIOUS
<1>9. /\ msg_input_masks[i] = R.input_masks /\ msg_output_masks[i] = R.output_masks /\ wires[i] = R.wires
      /\ gates[i] = Cat(<<gate>>, R.gates) /\ IsSeq(R.gates)
  <2>1. Reading(i, p, tape[p], hkey[p + 1][tape[p].out], Rests(i, p + 1))
    BY EvalPieces
  <2>2. Reading(i, p, e, k, R)
    BY <1>1, <1>8, <2>1
  <2> QED BY <1>4, <1>8, <2>2 DEF Reading
<1>10. Head(gates[i]) = gate /\ Tail(gates[i]) = R.gates
  BY <1>9, HeadOfOne
<1>11. EvalTaken(i, p + 1)
  <2>1. gates' = [gates EXCEPT ![i] = R.gates]
    BY <1>4, <1>10
  <2>2. OnlyFor(i, gates, gates', R.gates)
    BY <1>5, <2>1, OnlyForNew
  <2> QED BY <1>4, <1>5, <1>8, <1>9, <2>2 DEF EvalTaken, OnlyFor
<1>12. /\ e.left \in Known(tape, p) /\ e.right \in Known(tape, p) /\ e.out # e.left /\ e.out # e.right
       /\ e.out \in Reg /\ e.left \in Reg /\ e.right \in Reg
  BY <1>1, <1>2, <1>4, ReadsFacts, EntryFacts
<1>13. PICK l, r, x, y : /\ l = hkey[p + 1][e.left] /\ r = hkey[p + 1][e.right]
                         /\ x = external[i][e.left] /\ y = external[i][e.right]
  OBVIOUS
<1>14. x \in BOOLEAN /\ y \in BOOLEAN
  BY <1>5, <1>12, <1>13
<1>15. entry[i][e.left] = LabelsOf(l, x) /\ entry[i][e.right] = LabelsOf(r, y)
  <2>1. hkey[p + 1][e.left] = hkey[p][e.left] /\ hkey[p + 1][e.right] = hkey[p][e.right]
    BY <1>2, <1>4, <1>12 DEF RandomRule
  <2>2. entry[i][e.left] = LabelsOf(hkey[p][e.left], external[i][e.left])
    BY <1>12, EvalHolds
  <2>3. entry[i][e.right] = LabelsOf(hkey[p][e.right], external[i][e.right])
    BY <1>12, EvalHolds
  <2> QED BY <1>13, <2>1, <2>2, <2>3
<1>16. PICK m, lm, rm : m = hmask[p + 1][e.out] /\ lm = hmask[p + 1][e.left] /\ rm = hmask[p + 1][e.right]
  OBVIOUS
<1>17. PICK z : z = OutBit(x, y, m, lm, rm)
  OBVIOUS
<1>18. z \in BOOLEAN
  BY <1>17 DEF OutBit
<1>19. ASSUME NEW j \in Party
       PROVE  gate[x][y][j] = Add(Hidden(l, r, g, j, x, y), Add(k[j], DeltaIf(j, z)))
  <2>1. gate = [a \in BOOLEAN |-> [b \in BOOLEAN |-> [c \in Party |->
                  Add(Hidden(l, r, g, c, a, b), Add(k[c], DeltaIf(c, OutBit(a, b, m, lm, rm))))]]]
    <3>1. Ands(tape, p) + 1 = g
      BY <1>2, <1>3
    <3> QED BY <1>1, <1>8, <1>13, <1>16, <3>1 DEF GateAt
  <2> QED BY <1>14, <1>17, <2>1
<1>20. new = LabelsOf(k, z)
  <2>1. Decrypted(i, e, g) = LabelsOf(k, z)
    BY <1>10, <1>13, <1>15, <1>19, DecryptedIs
  <2> QED BY <1>3, <2>1
<1>21. Signal(i, new[i]) <=> z
  <2>1. ~ Signal(i, k[i])
    BY <1>1, <1>2, <1>4 DEF RandomRule, Drawn
  <2>2. Signal(i, Add(k[i], DeltaIf(i, z))) <=> z
    BY <1>18, <2>1, SignalOfLabel
  <2>3. new[i] = Add(k[i], DeltaIf(i, z))
    BY <1>20 DEF LabelsOf
  <2> QED BY <2>2, <2>3
<1>22. PICK s : s = Signal(i, new[i])
  OBVIOUS
<1>23. s = z
  BY <1>18, <1>21, <1>22 DEF Signal
<1>24. EvalWire(i, tape[p].out, z, LabelsOf(hkey[p + 1][tape[p].out], z))
  BY <1>1, <1>4, <1>20, <1>22, <1>23
<1>25. tape[p].op \notin {"input", "reveal"}
  BY <1>1, <1>4
<1>26. IInv'
  BY <1>4, <1>7, <1>11, <1>18, <1>24, <1>25, EvalWritten
<1>27. Sees(i, p, z)
  BY <1>24 DEF EvalWire, Sees
<1> QED BY <1>1, <1>13, <1>16, <1>17, <1>26, <1>27

(* An output: the own label fits its key, so that the check passes, and no  *)
(* wire is written.                                                         *)
LEMMA EvalOutputIInv ==
  ASSUME IInv, NEW i \in Party, Ended(gpc), ~ Ended(epc[i]), ~ waiting[i], EvalFrame,
         NEW p, p = epc[i], EvalOutput(i, tape[p])
  PROVE  IInv'
<1>1. PICK e, k : e = tape[p] /\ k = hkey[p + 1][e.out]
  OBVIOUS
<1>2. /\ tape \in Tapes /\ p \in DOMAIN tape /\ p \in Nat /\ p >= 1 /\ p + 1 \in Positions
      /\ gate_counter2[i] = Ands(tape, p)
      /\ RandomRule(e, hkey[p], hkey[p + 1], hmask[p], hmask[p + 1])
  BY <1>1, EvalKnows
<1>3. /\ e.op = "reveal" /\ Done(i) /\ waiting' = waiting /\ net' = net
      /\ external' = external /\ entry' = entry
      /\ gate_counter2' = gate_counter2 /\ gates' = gates
      /\ wires' = [wires EXCEPT ![i] = Tail(wires[i])]
      /\ msg_input_masks' = msg_input_masks
      /\ msg_output_masks' = [msg_output_masks EXCEPT ![i] = Tail(msg_output_masks[i])]
  BY <1>1 DEF EvalOutput
<1>4. PICK v : outputs' = [outputs EXCEPT ![i] = v]
  BY DEF EvalOutput
<1>5. /\ PerParty(epc) /\ PerParty(waiting) /\ PerParty(gate_counter2) /\ PerParty(gates) /\ PerParty(wires)
      /\ PerParty(msg_input_masks) /\ PerParty(msg_output_masks) /\ external[i] \in [Reg -> BOOLEAN]
      /\ PerParty(external) /\ PerParty(entry) /\ PerParty(outputs) /\ PerParty(net)
      /\ (\A j \in Party : PerParty(net[j]))
      /\ DOMAIN entry[i] = Reg /\ \A r \in Reg : PerParty(entry[i][r])
  BY EvalTypes
<1>6. OnlyFor(i, gate_counter2, gate_counter2', Ands(tape, p + 1))
  <2>1. Ands(tape, p + 1) = Ands(tape, p)
    BY <1>1, <1>2, <1>3, AndsFacts
  <2> QED BY <1>2, <1>3, <1>5, <2>1, OnlyForSame
<1>7. PICK R, m, l : R = Rests(i, p + 1) /\ m = hmask[p][e.left] /\ l = hkey[p][e.left][i]
  OBVIOUS
<1>8. /\ msg_input_masks[i] = R.input_masks /\ gates[i] = R.gates
      /\ msg_output_masks[i] = Cat(<<m>>, R.output_masks) /\ IsSeq(R.output_masks)
      /\ wires[i] = Cat(<<l>>, R.wires) /\ IsSeq(R.wires)
  <2>1. Reading(i, p, tape[p], hkey[p + 1][tape[p].out], Rests(i, p + 1))
    BY EvalPieces
  <2>2. Reading(i, p, e, k, R)
    BY <1>1, <1>7, <2>1
  <2> QED BY <1>3, <1>7, <2>2 DEF Reading
<1>9. Tail(wires[i]) = R.wires /\ Tail(msg_output_masks[i]) = R.output_masks
  BY <1>8, HeadOfOne
<1>10. EvalTaken(i, p + 1)
  <2>1. wires' = [wires EXCEPT ![i] = R.wires] /\ msg_output_masks' = [msg_output_masks EXCEPT ![i] = R.output_masks]
    BY <1>3, <1>9
  <2>2. OnlyFor(i, wires, wires', R.wires)
    BY <1>5, <2>1, OnlyForNew
  <2>3. OnlyFor(i, msg_output_masks, msg_output_masks', R.output_masks)
    BY <1>5, <2>1, OnlyForNew
  <2> QED BY <1>3, <1>5, <1>7, <1>8, <2>2, <2>3 DEF EvalTaken, OnlyFor
<1>11. waiting[i] = FALSE
  BY DEF IInv, Places
<1>12. OnlyFor(i, epc, epc', p + 1)
  <2>1. epc' = [epc EXCEPT ![i] = p + 1]
    BY <1>3 DEF Done
  <2> QED BY <1>5, <2>1, OnlyForNew
<1>13. OnlyFor(i, waiting, waiting', FALSE)
  BY <1>3, <1>5, <1>11 DEF OnlyFor
<1>14. EvalPlace(i, p + 1, FALSE)
  BY <1>2, <1>6, <1>12, <1>13 DEF EvalPlace
<1>15. EvalWires(i, external[i], entry[i])
  BY <1>3, <1>5 DEF EvalWires, OnlyFor
<1>16. Messages'
  <2>1. tape[epc[i]].op # "input" /\ EvalPlace(i, epc[i] + 1, FALSE)
    BY <1>1, <1>3, <1>14
  <2> QED BY <1>3, <2>1, MessagesIdle
<1>17. epc'[i] = p + 1 /\ waiting'[i] = FALSE
  BY <1>12, <1>13 DEF OnlyFor
<1>18. Fits(i)'
  <2>1. tape' = tape /\ hkey' = hkey
    BY DEF EvalFrame
  <2>2. Known(tape, p + 1) = Known(tape, p) /\ hkey[p + 1] = hkey[p]
    BY <1>1, <1>2, <1>3, KnownGrows DEF RandomRule
  <2>3. \A q \in Known(tape, p) : entry[i][q] = LabelsOf(hkey[p][q], external[i][q])
    BY <1>11, Parts DEF Labels, Fits
  <2> QED BY <1>3, <1>17, <2>1, <2>2, <2>3 DEF Fits
<1>19. Begun(i)'
  BY <1>17 DEF Begun
<1>20. EvalMessages
  <2>1. OnlyFor(i, outputs, outputs', v)
    BY <1>4, <1>5, OnlyForNew
  <2> QED BY <1>3, <1>5, <2>1 DEF EvalMessages, OnlyFor
<1>21. PICK n, w : n = p + 1 /\ w = FALSE
  OBVIOUS
<1>22. EvalPlace(i, n, w) /\ EvalTaken(i, IF w THEN n + 1 ELSE n)
  BY <1>10, <1>14, <1>21
<1> QED BY <1>15, <1>16, <1>18, <1>19, <1>20, <1>22, EvalIInv

-----------------------------------------------------------------------------
(* The messages of an input.                                                *)

(* What party i has from party j for the entry it is at.                    *)
LEMMA NetRead ==
  ASSUME IInv, NEW i \in Party, NEW j \in Party, j # i, Ended(gpc), ~ Ended(epc[i]), net[j][i] # <<>>,
         NEW p, p = epc[i], NEW f, f = SentLabels(tape, hkey, hmask, j, BegunAt(i))
  PROVE  /\ p < Reached(j) /\ net[j][i] = Cat(f[p], Stream(f, p + 1, Reached(j)))
         /\ IsSeq(f[p]) /\ IsSeq(Stream(f, p + 1, Reached(j)))
<1>1. PICK b : b = Reached(j)
  OBVIOUS
<1>2. /\ tape \in Tapes /\ KeysTyped(tape, hkey) /\ p \in Nat /\ p >= 1
  BY EvalKnows
<1>3. b \in Nat /\ b <= Len(tape) + 1
  BY <1>1, ReachedFacts
<1>4. net[j][i] = Stream(f, p, b)
  BY <1>1 DEF IInv, Messages
<1>5. p < b
  <2>1. b <= p => Stream(f, p, b) = <<>>
    BY <1>2, <1>3, StreamNone
  <2> QED BY <1>2, <1>3, <1>4, <2>1
<1>6. Pieces(f, p, b)
  <2>1. PICK x : x = BegunAt(i)
    OBVIOUS
  <2>2. p \in Int /\ b \in Int
    BY <1>2, <1>3
  <2>3. \A begun : Pieces(SentLabels(tape, hkey, hmask, j, begun), p, b)
    BY <1>2, <1>3, <2>2, AllPieces
  <2> QED BY <2>1, <2>3
<1>7. p \in Int /\ b \in Int
  BY <1>2, <1>3
<1>8. Stream(f, p, b) = Cat(f[p], Stream(f, p + 1, b)) /\ IsSeq(f[p]) /\ IsSeq(Stream(f, p + 1, b))
  BY <1>5, <1>6, <1>7, StreamRead
<1> QED BY <1>1, <1>4, <1>5, <1>8

(* After an input its messages and those of the inputs to come are the same *)
(* whether or not it was begun.                                             *)
LEMMA LaterLabels ==
  ASSUME NEW t \in Tapes, NEW K, NEW M, NEW j, NEW p \in Nat, p >= 1, NEW b \in Nat, b <= Len(t) + 1
  PROVE  Stream(SentLabels(t, K, M, j, p), p + 1, b) = Stream(SentLabels(t, K, M, j, 0), p + 1, b)
<1>1. PICK f, g : f = SentLabels(t, K, M, j, p) /\ g = SentLabels(t, K, M, j, 0)
  OBVIOUS
<1>2. Len(t) \in Nat /\ DOMAIN t = 1 .. Len(t)
  BY TapesAssumption
<1>3. ASSUME NEW q \in p + 1 .. b - 1 PROVE f[q] = g[q]
  <2>1. q \in DOMAIN t /\ q # p /\ q # 0
    BY <1>2
  <2>2. PICK z : z = 0
    OBVIOUS
  <2>3. SentLabels(t, K, M, j, p)[q] = SentLabels(t, K, M, j, z)[q]
    BY <2>1, <2>2, SameLabels
  <2> QED BY <1>1, <2>2, <2>3
<1>4. p + 1 \in Int /\ b \in Int
  OBVIOUS
<1>5. Stream(f, p + 1, b) = Stream(g, p + 1, b)
  BY <1>3, <1>4, StreamSame
<1> QED BY <1>1, <1>5

(* How the messages change when party i begins the input at p: it sends its *)
(* own, and takes the external bit from the owner.                          *)
BeginNet(i, p) ==
  /\ PerParty(net') /\ \A j \in Party : PerParty(net'[j]) /\ net'[j][j] = net[j][j]
  /\ \A k \in Party \ {i} : net'[i][k] = Cat(net[i][k], SentLabels(tape, hkey, hmask, i, 0)[p])
  /\ \A j \in Party \ {i}, k \in Party \ {i} : net'[j][k] = net[j][k]
  /\ \A j \in Party \ {i} :
       /\ tape[p].i = j => net[j][i] # <<>> /\ net'[j][i] = Tail(net[j][i])
       /\ tape[p].i # j => net'[j][i] = net[j][i]

LEMMA BeginMessages ==
  ASSUME IInv, NEW i \in Party, Ended(gpc), ~ Ended(epc[i]), ~ waiting[i], EvalFrame,
         tape[epc[i]].op = "input", EvalPlace(i, epc[i], TRUE), BeginNet(i, epc[i])
  PROVE  Messages'
<1>1. PICK p : p = epc[i]
  OBVIOUS
<1>2. tape' = tape /\ hkey' = hkey /\ hmask' = hmask
  BY DEF EvalFrame
<1>3. /\ epc'[i] = p /\ waiting'[i] = TRUE
      /\ \A j \in Party \ {i} : epc'[j] = epc[j] /\ waiting'[j] = waiting[j]
  BY <1>1 DEF EvalPlace, OnlyFor
<1>4. /\ tape \in Tapes /\ p \in DOMAIN tape /\ p \in Nat /\ p >= 1 /\ p + 1 <= Len(tape) + 1 /\ KeysTyped(tape, hkey)
  BY <1>1, EvalKnows
<1>5. /\ Reached(i) = p /\ Reached(i)' = p + 1
      /\ \A j \in Party \ {i} : Reached(j)' = Reached(j)
  BY <1>1, <1>3 DEF Reached
<1>6. BegunAt(i) = 0 /\ BegunAt(i)' = p /\ \A j \in Party \ {i} : BegunAt(j)' = BegunAt(j)
  BY <1>3 DEF BegunAt
<1>7. Messages
  BY DEF IInv
<1>8. /\ \A j \in Party : net'[j][j] = net[j][j]
      /\ \A k \in Party \ {i} : net'[i][k] = Cat(net[i][k], SentLabels(tape, hkey, hmask, i, 0)[p])
      /\ \A j \in Party \ {i}, k \in Party \ {i} : net'[j][k] = net[j][k]
      /\ \A j \in Party \ {i} :
           /\ tape[p].i = j => net[j][i] # <<>> /\ net'[j][i] = Tail(net[j][i])
           /\ tape[p].i # j => net'[j][i] = net[j][i]
  BY <1>1 DEF BeginNet
<1>9. tape[p].op = "input"
  BY <1>1
<1>10. ASSUME NEW j \in Party, NEW k \in Party
       PROVE  IF j = k THEN net'[j][k] = <<>>
              ELSE /\ net'[j][k] = Stream(SentLabels(tape', hkey', hmask', j, BegunAt(k)'), epc'[k], Reached(j)')
                   /\ waiting'[k] /\ tape'[epc'[k]].i = j => Reached(j)' > epc'[k]
                   /\ \A q \in Reached(j)' .. epc'[k] - 1 : tape'[q].op # "input"
  <2>1. CASE j = k
    BY <1>7, <1>8, <2>1 DEF Messages
  <2>2. CASE j # k
    <3>1. /\ net[j][k] = Stream(SentLabels(tape, hkey, hmask, j, BegunAt(k)), epc[k], Reached(j))
          /\ waiting[k] /\ tape[epc[k]].i = j => Reached(j) > epc[k]
          /\ \A q \in Reached(j) .. epc[k] - 1 : tape[q].op # "input"
      BY <1>7, <2>2 DEF Messages
    <3>2. CASE j # i /\ k # i
      <4>1. /\ epc'[k] = epc[k] /\ waiting'[k] = waiting[k] /\ Reached(j)' = Reached(j) /\ BegunAt(k)' = BegunAt(k)
            /\ net'[j][k] = net[j][k]
        BY <1>3, <1>5, <1>6, <1>8, <3>2
      <4> QED BY <1>2, <2>2, <3>1, <4>1
    <3>3. CASE j = i
      <4>1. PICK a, b, f : a = epc[k] /\ b = BegunAt(k) /\ f = SentLabels(tape, hkey, hmask, i, b)
        OBVIOUS
      <4>2. a \in Nat /\ a >= 1
        BY <4>1, ReachedFacts
      <4>3. epc'[k] = a /\ waiting'[k] = waiting[k] /\ BegunAt(k)' = b
        BY <1>3, <1>6, <2>2, <3>3, <4>1
      <4>4. a <= p
        <5>1. p \in p .. a - 1 => tape[p].op # "input"
          BY <1>5, <3>1, <3>3, <4>1
        <5> QED BY <1>4, <1>9, <4>2, <5>1
      <4>5. f[p] = SentLabels(tape, hkey, hmask, i, 0)[p]
        <5>1. tape[p].i = i => p # b
          <6>1. b = p => waiting[k] /\ a = p
            BY <1>4, <4>1 DEF BegunAt
          <6>2. b = p /\ tape[p].i = i => p > p
            BY <1>5, <3>1, <3>3, <4>1, <6>1
          <6> QED BY <1>4, <6>2
        <5>2. PICK z : z = 0
          OBVIOUS
        <5>3. SentLabels(tape, hkey, hmask, i, b)[p] = SentLabels(tape, hkey, hmask, i, z)[p]
          <6>1. p # z /\ p \in DOMAIN tape
            BY <1>4, <5>2
          <6>2. tape[p].i # i \/ (p # b /\ p # z)
            BY <5>1, <6>1
          <6> QED BY <6>1, <6>2, SameLabels
        <5> QED BY <4>1, <5>2, <5>3
      <4>6. Pieces(f, a, p + 1)
        <5>1. a \in Int /\ p + 1 \in Int
          BY <1>4, <4>2
        <5> QED BY <1>4, <4>1, <4>2, <5>1, AllPieces
      <4>7. Stream(f, a, p + 1) = Cat(Stream(f, a, p), f[p])
        <5>1. a \in Int /\ p \in Int
          BY <1>4, <4>2
        <5> QED BY <4>4, <4>6, <5>1, StreamWrite
      <4>8. net'[j][k] = Stream(SentLabels(tape', hkey', hmask', j, BegunAt(k)'), epc'[k], Reached(j)')
        <5>1. net'[i][k] = Cat(net[i][k], f[p])
          BY <1>8, <2>2, <3>3, <4>5
        <5>2. net[i][k] = Stream(f, a, p)
          BY <1>5, <3>1, <3>3, <4>1
        <5> QED BY <1>2, <1>5, <3>3, <4>1, <4>3, <4>7, <5>1, <5>2
      <4>9. waiting'[k] /\ tape'[epc'[k]].i = j => Reached(j)' > epc'[k]
        BY <1>2, <1>4, <1>5, <3>1, <3>3, <4>1, <4>2, <4>3
      <4>10. \A q \in Reached(j)' .. epc'[k] - 1 : tape'[q].op # "input"
        <5>1. p + 1 .. a - 1 \subseteq p .. a - 1
          BY <1>4, <4>2
        <5> QED BY <1>2, <1>5, <3>1, <3>3, <4>1, <4>3, <5>1
      <4> QED BY <2>2, <4>8, <4>9, <4>10
    <3>4. CASE k = i
      <4>1. PICK b, f, g : /\ b = Reached(j) /\ f = SentLabels(tape, hkey, hmask, j, 0)
                           /\ g = SentLabels(tape, hkey, hmask, j, p)
        OBVIOUS
      <4>2. b \in Nat /\ b <= Len(tape) + 1 /\ Reached(j)' = b
        BY <1>5, <2>2, <3>4, <4>1, ReachedFacts
      <4>3. net[j][i] = Stream(f, p, b)
        BY <1>1, <1>6, <3>1, <3>4, <4>1
      <4>4. net'[j][i] = Stream(g, p, b) /\ (tape[p].i = j => b > p)
        <5>1. CASE tape[p].i # j
          <6>1. ASSUME NEW q \in p .. b - 1 PROVE f[q] = g[q]
            <7>1. q \in DOMAIN tape /\ q # 0
              <8>1. DOMAIN tape = 1 .. Len(tape) /\ Len(tape) \in Nat
                BY <1>4, EntryFacts
              <8> QED BY <1>4, <4>2, <8>1
            <7>2. PICK z : z = 0
              OBVIOUS
            <7>3. tape[q].i # j \/ (q # z /\ q # p)
              <8>1. CASE q = p
                BY <5>1, <8>1
              <8>2. CASE q # p
                BY <7>1, <7>2, <8>2
              <8> QED BY <8>1, <8>2
            <7>4. SentLabels(tape, hkey, hmask, j, z)[q] = SentLabels(tape, hkey, hmask, j, p)[q]
              BY <7>1, <7>3, SameLabels
            <7> QED BY <4>1, <7>2, <7>4
          <6>2. Stream(f, p, b) = Stream(g, p, b)
            <7>1. p \in Int /\ b \in Int
              BY <1>4, <4>2
            <7> QED BY <6>1, <7>1, StreamSame
          <6> QED BY <1>8, <2>2, <3>4, <4>3, <5>1, <6>2
        <5>2. CASE tape[p].i = j
          <6>1. net[j][i] # <<>> /\ net'[j][i] = Tail(net[j][i])
            BY <1>8, <2>2, <3>4, <5>2
          <6>2. PICK s : s = Stream(f, p + 1, b)
            OBVIOUS
          <6>3. p < b /\ net[j][i] = Cat(f[p], s) /\ IsSeq(f[p]) /\ IsSeq(s)
            <7>1. f = SentLabels(tape, hkey, hmask, j, BegunAt(i)) /\ p = epc[i]
              BY <1>1, <1>6, <4>1
            <7>2. /\ p < Reached(j) /\ net[j][i] = Cat(f[p], Stream(f, p + 1, Reached(j)))
                  /\ IsSeq(f[p]) /\ IsSeq(Stream(f, p + 1, Reached(j)))
              BY <2>2, <3>4, <6>1, <7>1, NetRead
            <7> QED BY <4>1, <6>2, <7>2
          <6>4. PICK x, l : x = ExternalMsg(tape, hmask, p) /\ l = LabelMsg(tape, hkey, hmask, p, j)
            OBVIOUS
          <6>5. f[p] = Cat(x, l)
            <7>1. p # 0
              BY <1>4
            <7>2. SentLabels(tape, hkey, hmask, j, 0)[p] = Cat(ExternalMsg(tape, hmask, p), LabelMsg(tape, hkey, hmask, p, j))
              BY <1>4, <1>9, <5>2, <7>1, LabelPieceFacts
            <7> QED BY <4>1, <6>4, <7>2
          <6>6. g[p] = l
            <7>1. SentLabels(tape, hkey, hmask, j, p)[p] = LabelMsg(tape, hkey, hmask, p, j)
              BY <1>4, <1>9, LabelPieceFacts
            <7> QED BY <4>1, <6>4, <7>1
          <6>7. IsSeq(l) /\ IsSeq(x)
            BY <6>4, OneFacts DEF LabelMsg, ExternalMsg
          <6>8. Cat(Cat(x, l), s) = Cat(x, Cat(l, s)) /\ IsSeq(Cat(l, s))
            BY <6>3, <6>7, CatAssoc, CatSeq
          <6>9. Tail(Cat(x, Cat(l, s))) = Cat(l, s)
            BY <6>4, <6>8, HeadOfOne DEF ExternalMsg
          <6>10. s = Stream(g, p + 1, b)
            <7>1. Stream(SentLabels(tape, hkey, hmask, j, p), p + 1, b) = Stream(SentLabels(tape, hkey, hmask, j, 0), p + 1, b)
              BY <1>4, <4>2, LaterLabels
            <7> QED BY <4>1, <6>2, <7>1
          <6>11. Stream(g, p, b) = Cat(g[p], Stream(g, p + 1, b))
            <7>1. p \in Int /\ b \in Int
              BY <1>4, <4>2
            <7>2. Pieces(g, p, b)
              BY <1>4, <4>1, <4>2, <7>1, AllPieces
            <7> QED BY <6>3, <7>1, <7>2, StreamRead
          <6> QED BY <6>1, <6>3, <6>5, <6>6, <6>8, <6>9, <6>10, <6>11
        <5> QED BY <5>1, <5>2
      <4>5. net'[j][k] = Stream(SentLabels(tape', hkey', hmask', j, BegunAt(k)'), epc'[k], Reached(j)')
        BY <1>2, <1>3, <1>6, <3>4, <4>1, <4>2, <4>4
      <4>6. waiting'[k] /\ tape'[epc'[k]].i = j => Reached(j)' > epc'[k]
        BY <1>2, <1>3, <3>4, <4>2, <4>4
      <4>7. \A q \in Reached(j)' .. epc'[k] - 1 : tape'[q].op # "input"
        BY <1>1, <1>2, <1>3, <3>1, <3>4, <4>1, <4>2
      <4> QED BY <2>2, <4>5, <4>6, <4>7
    <3> QED BY <3>2, <3>3, <3>4
  <2> QED BY <2>1, <2>2
<1> QED BY <1>10 DEF Messages

(* Whoever the input comes from, to begin it keeps the invariant.           *)
LEMMA BegunIInv ==
  ASSUME IInv, NEW i \in Party, Ended(gpc), ~ Ended(epc[i]), ~ waiting[i], EvalFrame,
         NEW p, p = epc[i], tape[p].op = "input",
         epc' = epc, waiting' = [waiting EXCEPT ![i] = TRUE], gate_counter2' = gate_counter2,
         gates' = gates, outputs' = outputs, msg_output_masks' = msg_output_masks,
         wires' = [wires EXCEPT ![i] = Tail(wires[i])],
         OnlyFor(i, msg_input_masks, msg_input_masks', Rests(i, p + 1).input_masks), BeginNet(i, p),
         NEW x, x = External(tape, hmask, p), NEW l, l = LabelAt(tape, hkey, hmask, p, i),
         EvalWire(i, tape[p].out, x, [entry[i][tape[p].out] EXCEPT ![i] = l])
  PROVE  IInv'
<1>1. PICK e, k, r : e = tape[p] /\ r = e.out /\ k = hkey[p + 1][r]
  OBVIOUS
<1>2. /\ tape \in Tapes /\ p \in DOMAIN tape /\ p \in Positions /\ p \in Nat /\ p >= 1
      /\ gate_counter2[i] = Ands(tape, p) /\ hmask[p + 1] \in [Reg -> BOOLEAN]
  BY EvalKnows
<1>3. /\ PerParty(epc) /\ PerParty(waiting) /\ PerParty(gate_counter2) /\ PerParty(gates) /\ PerParty(wires)
      /\ PerParty(msg_output_masks) /\ PerParty(outputs) /\ external[i] \in [Reg -> BOOLEAN]
      /\ DOMAIN entry[i] = Reg /\ \A q \in Reg : PerParty(entry[i][q])
  BY EvalTypes
<1>4. r \in Reg /\ e.val \in BOOLEAN
  BY <1>1, <1>2, EntryFacts
<1>5. x \in BOOLEAN
  BY <1>1, <1>2, <1>4 DEF External
<1>6. PICK new : new = [entry[i][r] EXCEPT ![i] = l]
  OBVIOUS
<1>7. PerParty(new) /\ new[i] = l
  <2>1. PerParty(entry[i][r])
    BY <1>3, <1>4
  <2>2. OnlyFor(i, entry[i][r], new, l)
    BY <1>6, <2>1, OnlyForNew
  <2> QED BY <2>2 DEF OnlyFor
<1>8. /\ EvalWires(i, external'[i], entry'[i]) /\ external'[i][r] = x /\ entry'[i][r] = new
      /\ \A q \in Reg \ {r} : external'[i][q] = external[i][q] /\ entry'[i][q] = entry[i][q]
  <2>1. EvalWire(i, r, x, new)
    BY <1>1, <1>6
  <2> QED BY <1>4, <1>5, <1>7, <2>1, EvalWireIs
<1>9. EvalPlace(i, p, TRUE)
  <2>1. OnlyFor(i, epc, epc', p)
    BY <1>3, OnlyForSame
  <2>2. OnlyFor(i, gate_counter2, gate_counter2', Ands(tape, p))
    BY <1>2, <1>3, OnlyForSame
  <2>3. OnlyFor(i, waiting, waiting', TRUE)
    BY <1>3, OnlyForNew
  <2> QED BY <1>2, <2>1, <2>2, <2>3 DEF EvalPlace
<1>10. PICK R : R = Rests(i, p + 1)
  OBVIOUS
<1>11. wires[i] = Cat(<<k[i]>>, R.wires) /\ IsSeq(R.wires) /\ msg_output_masks[i] = R.output_masks /\ gates[i] = R.gates
  <2>1. Reading(i, p, tape[p], hkey[p + 1][tape[p].out], Rests(i, p + 1))
    BY EvalPieces
  <2>2. Reading(i, p, e, k, R)
    BY <1>1, <1>10, <2>1
  <2> QED BY <1>1, <2>2 DEF Reading
<1>12. EvalTaken(i, p + 1)
  <2>1. Tail(wires[i]) = R.wires
    BY <1>11, HeadOfOne
  <2>2. OnlyFor(i, wires, wires', R.wires)
    BY <1>3, <2>1, OnlyForNew
  <2>3. OnlyFor(i, msg_output_masks, msg_output_masks', R.output_masks)
    BY <1>3, <1>11, OnlyForSame
  <2>4. OnlyFor(i, gates, gates', R.gates)
    BY <1>3, <1>11, OnlyForSame
  <2> QED BY <1>10, <2>2, <2>3, <2>4 DEF EvalTaken
<1>13. Messages'
  <2>1. tape[epc[i]].op = "input" /\ EvalPlace(i, epc[i], TRUE) /\ BeginNet(i, epc[i])
    BY <1>9
  <2> QED BY <2>1, BeginMessages
<1>14. /\ tape' = tape /\ hkey' = hkey /\ hmask' = hmask
  BY DEF EvalFrame
<1>15. epc'[i] = p /\ waiting'[i] = TRUE /\ waiting[i] = FALSE
  <2>1. waiting[i] = FALSE
    BY DEF IInv, Places
  <2> QED BY <1>9, <2>1 DEF EvalPlace, OnlyFor
<1>16. Fits(i)'
  <2>1. Known(tape, p) \subseteq Reg
    BY <1>2, KnownGrows
  <2>2. \A q \in Known(tape, p) : entry[i][q] = LabelsOf(hkey[p][q], external[i][q])
    BY <1>15, Parts DEF Labels, Fits
  <2>3. \A q \in Known(tape, p) : q # r => entry'[i][q] = LabelsOf(hkey[p][q], external'[i][q])
    BY <1>8, <2>1, <2>2
  <2> QED BY <1>1, <1>14, <1>15, <2>3 DEF Fits
<1>17. Begun(i)'
  <2>1. external'[i][r] = External(tape, hmask, p) /\ entry'[i][r][i] = LabelAt(tape, hkey, hmask, p, i)
    BY <1>7, <1>8
  <2> QED BY <1>1, <1>14, <1>15, <2>1 DEF Begun
<1>18. EvalMessages
  BY <1>3 DEF EvalMessages, BeginNet
<1>19. PICK w : w = TRUE
  OBVIOUS
<1>20. EvalPlace(i, p, w) /\ EvalTaken(i, IF w THEN p + 1 ELSE p)
  BY <1>9, <1>12, <1>19
<1> QED BY <1>8, <1>13, <1>16, <1>17, <1>18, <1>20, EvalIInv

(* The messages a party sends.                                              *)
LEMMA Sent ==
  ASSUME IInv, NEW i \in Party, NEW ms, NEW g, g = ToOthers(i, ms)
  PROVE  /\ PerParty(g) /\ \A j \in Party : PerParty(g[j])
         /\ \A k \in Party \ {i} : g[i][k] = Cat(net[i][k], ms)
         /\ \A j \in Party \ {i}, k \in Party : g[j][k] = net[j][k]
         /\ \A j \in Party : g[j][j] = net[j][j]
<1>1. g = [j \in Party |-> [k \in Party |-> IF j = i /\ k # i THEN Cat(net[j][k], ms) ELSE net[j][k]]]
  BY DEF ToOthers, Cat
<1> QED BY <1>1 DEF PerParty

(* What the party knows of its own label and of its own piece.              *)
LEMMA InputKnows ==
  ASSUME IInv, NEW i \in Party, Ended(gpc), ~ Ended(epc[i]), ~ waiting[i],
         NEW p, p = epc[i], NEW e, e = tape[p], e.op = "input",
         NEW x, x = External(tape, hmask, p), NEW l, l = LabelAt(tape, hkey, hmask, p, i)
  PROVE  /\ OwnLabel(i, x) = l
         /\ e.i = i => SentLabels(tape, hkey, hmask, i, 0)[p] = << <<"external", x>>, <<"label", l>> >>
         /\ e.i # i => SentLabels(tape, hkey, hmask, i, 0)[p] = << <<"label", l>> >>
         /\ e.i = i => /\ (Head(msg_input_masks[i]) # e.val) = x
                       /\ Tail(msg_input_masks[i]) = Rests(i, p + 1).input_masks
         /\ e.i # i => msg_input_masks[i] = Rests(i, p + 1).input_masks
<1>1. PICK k, R, m : k = hkey[p + 1][e.out] /\ R = Rests(i, p + 1) /\ m = hmask[p + 1][e.out]
  OBVIOUS
<1>2. tape \in Tapes /\ p \in DOMAIN tape /\ p \in Nat /\ p >= 1
  BY EvalKnows
<1>3. Reading(i, p, e, k, R)
  <2>1. Reading(i, p, tape[p], hkey[p + 1][tape[p].out], Rests(i, p + 1))
    BY EvalPieces
  <2> QED BY <1>1, <2>1
<1>4. OwnLabel(i, x) = l
  <2>1. wires[i] = Cat(<<k[i]>>, R.wires) /\ IsSeq(R.wires)
    BY <1>3 DEF Reading
  <2>2. Head(wires[i]) = k[i]
    BY <2>1, HeadOfOne
  <2>3. l = Add(k[i], DeltaIf(i, x))
    BY <1>1 DEF LabelAt
  <2> QED BY <2>2, <2>3 DEF OwnLabel
<1>5. PICK a, b : a = ExternalMsg(tape, hmask, p) /\ b = LabelMsg(tape, hkey, hmask, p, i)
  OBVIOUS
<1>6. a = << <<"external", x>> >> /\ b = << <<"label", l>> >>
  BY <1>5 DEF ExternalMsg, LabelMsg
<1>7. /\ e.i = i => SentLabels(tape, hkey, hmask, i, 0)[p] = Cat(a, b)
      /\ e.i # i => SentLabels(tape, hkey, hmask, i, 0)[p] = b
  <2>1. PICK z : z = 0
    OBVIOUS
  <2>2. p # z /\ p \in DOMAIN tape
    BY <1>2, <2>1
  <2>3. /\ tape[p].op = "input" /\ tape[p].i = i /\ p # z =>
             SentLabels(tape, hkey, hmask, i, z)[p] = Cat(ExternalMsg(tape, hmask, p), LabelMsg(tape, hkey, hmask, p, i))
        /\ tape[p].op = "input" /\ (tape[p].i # i \/ p = z) =>
             SentLabels(tape, hkey, hmask, i, z)[p] = LabelMsg(tape, hkey, hmask, p, i)
    BY ONLY <2>2, LabelPieceFacts
  <2> QED BY <1>5, <2>1, <2>2, <2>3
<1>8. Cat(a, b) = << <<"external", x>>, <<"label", l>> >>
  BY <1>6, TwoFacts
<1>9. e.i = i => (Head(msg_input_masks[i]) # e.val) = x /\ Tail(msg_input_masks[i]) = R.input_masks
  <2> SUFFICES ASSUME e.i = i PROVE (Head(msg_input_masks[i]) # e.val) = x /\ Tail(msg_input_masks[i]) = R.input_masks
    OBVIOUS
  <2>1. msg_input_masks[i] = Cat(<<m>>, R.input_masks) /\ IsSeq(R.input_masks)
    BY <1>1, <1>3 DEF Reading
  <2>2. Head(msg_input_masks[i]) = m /\ Tail(msg_input_masks[i]) = R.input_masks
    BY <2>1, HeadOfOne
  <2>3. x = (m # e.val)
    BY <1>1 DEF External
  <2> QED BY <2>2, <2>3
<1>10. e.i # i => msg_input_masks[i] = R.input_masks
  BY <1>3 DEF Reading
<1> QED BY <1>1, <1>4, <1>6, <1>7, <1>8, <1>9, <1>10

LEMMA BeginOwnIInv ==
  ASSUME IInv, NEW i \in Party, Ended(gpc), ~ Ended(epc[i]), ~ waiting[i], EvalFrame,
         NEW p, p = epc[i], tape[p].op = "input", BeginInput(i, tape[p]), BeginOwnInput(i, tape[p])
  PROVE  IInv' /\ Sees(i, p, External(tape, hmask, p))
<1>1. PICK e, x, l : e = tape[p] /\ x = External(tape, hmask, p) /\ l = LabelAt(tape, hkey, hmask, p, i)
  OBVIOUS
<1>2. e.i = i
  BY <1>1 DEF BeginOwnInput
<1>3. /\ OwnLabel(i, x) = l
      /\ SentLabels(tape, hkey, hmask, i, 0)[p] = << <<"external", x>>, <<"label", l>> >>
      /\ (Head(msg_input_masks[i]) # e.val) = x
      /\ Tail(msg_input_masks[i]) = Rests(i, p + 1).input_masks
  <2>1. e.op = "input"
    BY <1>1
  <2> QED BY <1>1, <1>2, <2>1, InputKnows
<1>4. PICK y : y = (Head(msg_input_masks[i]) # e.val)
  OBVIOUS
<1>5. /\ EvalWire(i, e.out, y, [entry[i][e.out] EXCEPT ![i] = OwnLabel(i, y)])
      /\ net' = ToOthers(i, << <<"external", y>>, <<"label", OwnLabel(i, y)>> >>)
      /\ msg_input_masks' = [msg_input_masks EXCEPT ![i] = Tail(msg_input_masks[i])]
  BY <1>1, <1>4 DEF BeginOwnInput
<1>6. y = x
  BY <1>3, <1>4
<1>7. EvalWire(i, tape[p].out, x, [entry[i][tape[p].out] EXCEPT ![i] = l])
  BY <1>1, <1>3, <1>5, <1>6
<1>8. /\ epc' = epc /\ waiting' = [waiting EXCEPT ![i] = TRUE] /\ gate_counter2' = gate_counter2
      /\ gates' = gates /\ outputs' = outputs /\ msg_output_masks' = msg_output_masks
      /\ wires' = [wires EXCEPT ![i] = Tail(wires[i])]
  BY DEF BeginInput
<1>9. OnlyFor(i, msg_input_masks, msg_input_masks', Rests(i, p + 1).input_masks)
  BY <1>3, <1>5, EvalTypes, OnlyForNew
<1>10. BeginNet(i, p)
  <2>1. PICK ms : ms = SentLabels(tape, hkey, hmask, i, 0)[p]
    OBVIOUS
  <2>2. net' = ToOthers(i, ms)
    BY <1>3, <1>5, <1>6, <2>1
  <2>3. /\ PerParty(net') /\ (\A j \in Party : PerParty(net'[j]))
        /\ (\A k \in Party \ {i} : net'[i][k] = Cat(net[i][k], ms))
        /\ (\A j \in Party \ {i}, k \in Party : net'[j][k] = net[j][k])
        /\ \A j \in Party : net'[j][j] = net[j][j]
    BY <2>2, Sent
  <2>4. \A j \in Party \ {i} : tape[p].i # j
    BY <1>1, <1>2
  <2> QED BY <2>1, <2>3, <2>4 DEF BeginNet
<1>11. IInv'
  BY <1>1, <1>7, <1>8, <1>9, <1>10, BegunIInv
<1>12. Sees(i, p, x)
  BY <1>7 DEF EvalWire, Sees
<1> QED BY <1>1, <1>11, <1>12

LEMMA BeginOtherIInv ==
  ASSUME IInv, NEW i \in Party, Ended(gpc), ~ Ended(epc[i]), ~ waiting[i], EvalFrame,
         NEW p, p = epc[i], tape[p].op = "input", BeginInput(i, tape[p]), BeginOtherInput(i, tape[p])
  PROVE  IInv' /\ Sees(i, p, External(tape, hmask, p))
<1>1. PICK e, x, l : e = tape[p] /\ x = External(tape, hmask, p) /\ l = LabelAt(tape, hkey, hmask, p, i)
  OBVIOUS
<1>2. PICK o : o = e.i
  OBVIOUS
<1>3. tape \in Tapes /\ p \in DOMAIN tape /\ p \in Nat /\ p >= 1 /\ KeysTyped(tape, hkey)
  BY EvalKnows
<1>4. o # i /\ o \in Party /\ net[o][i] # <<>>
  BY <1>1, <1>2, <1>3, EntryFacts DEF BeginOtherInput
<1>5. PICK y : y = Head(net[o][i])[2]
  OBVIOUS
<1>6. /\ EvalWire(i, e.out, y, [entry[i][e.out] EXCEPT ![i] = OwnLabel(i, y)])
      /\ net' = [ToOthers(i, << <<"label", OwnLabel(i, y)>> >>) EXCEPT ![o][i] = Tail(@)]
      /\ msg_input_masks' = msg_input_masks
  BY <1>1, <1>2, <1>5 DEF BeginOtherInput
<1>7. y = x
  <2>1. PICK f, s : f = SentLabels(tape, hkey, hmask, o, BegunAt(i)) /\ s = Stream(f, p + 1, Reached(o))
    OBVIOUS
  <2>2. net[o][i] = Cat(f[p], s) /\ IsSeq(f[p]) /\ IsSeq(s)
    BY <1>4, <2>1, NetRead
  <2>3. PICK a, b, z : a = ExternalMsg(tape, hmask, p) /\ b = LabelMsg(tape, hkey, hmask, p, o) /\ z = BegunAt(i)
    OBVIOUS
  <2>4. z # p
    BY <1>3, <2>3 DEF BegunAt
  <2>5. f[p] = Cat(a, b)
    <3>1. p \in DOMAIN tape
      BY <1>3
    <3>2. tape[p].op = "input" /\ tape[p].i = o /\ p # z =>
            SentLabels(tape, hkey, hmask, o, z)[p] = Cat(ExternalMsg(tape, hmask, p), LabelMsg(tape, hkey, hmask, p, o))
      BY ONLY <3>1, LabelPieceFacts
    <3> QED BY <1>1, <1>2, <2>1, <2>3, <2>4, <3>2
  <2>6. a = << <<"external", x>> >>
    BY <1>1, <2>3 DEF ExternalMsg
  <2>7. IsSeq(a) /\ IsSeq(b)
    BY <2>3, OneFacts DEF ExternalMsg, LabelMsg
  <2>8. Cat(Cat(a, b), s) = Cat(a, Cat(b, s)) /\ IsSeq(Cat(b, s))
    BY <2>2, <2>7, CatAssoc, CatSeq
  <2>9. Head(Cat(a, Cat(b, s))) = <<"external", x>>
    BY <2>6, <2>8, HeadOfOne
  <2>10. <<"external", x>>[2] = x
    OBVIOUS
  <2> QED BY <1>5, <2>2, <2>5, <2>8, <2>9, <2>10
<1>8. /\ OwnLabel(i, x) = l
      /\ SentLabels(tape, hkey, hmask, i, 0)[p] = << <<"label", l>> >>
      /\ msg_input_masks[i] = Rests(i, p + 1).input_masks
  <2>1. e.op = "input" /\ e.i # i
    BY <1>1, <1>2, <1>4
  <2> QED BY <1>1, <2>1, InputKnows
<1>9. EvalWire(i, tape[p].out, x, [entry[i][tape[p].out] EXCEPT ![i] = l])
  BY <1>1, <1>6, <1>7, <1>8
<1>10. /\ epc' = epc /\ waiting' = [waiting EXCEPT ![i] = TRUE] /\ gate_counter2' = gate_counter2
       /\ gates' = gates /\ outputs' = outputs /\ msg_output_masks' = msg_output_masks
       /\ wires' = [wires EXCEPT ![i] = Tail(wires[i])]
  BY DEF BeginInput
<1>11. OnlyFor(i, msg_input_masks, msg_input_masks', Rests(i, p + 1).input_masks)
  BY <1>6, <1>8, EvalTypes, OnlyForSame
<1>12. BeginNet(i, p)
  <2>1. PICK ms, g : ms = SentLabels(tape, hkey, hmask, i, 0)[p] /\ g = ToOthers(i, ms)
    OBVIOUS
  <2>2. /\ PerParty(g) /\ (\A j \in Party : PerParty(g[j]))
        /\ (\A k \in Party \ {i} : g[i][k] = Cat(net[i][k], ms))
        /\ (\A j \in Party \ {i}, k \in Party : g[j][k] = net[j][k])
        /\ \A j \in Party : g[j][j] = net[j][j]
    BY <2>1, Sent
  <2>3. PICK v : v = [g[o] EXCEPT ![i] = Tail(net[o][i])]
    OBVIOUS
  <2>4. net' = [g EXCEPT ![o] = v]
    <3>1. net' = [g EXCEPT ![o][i] = Tail(@)]
      BY <1>6, <1>7, <1>8, <2>1
    <3>2. g[o][i] = net[o][i]
      BY <1>4, <2>2
    <3> QED BY <2>3, <3>1, <3>2
  <2>5. OnlyFor(o, g, net', v)
    BY <1>4, <2>2, <2>4, OnlyForNew
  <2>6. OnlyFor(i, g[o], v, Tail(net[o][i]))
    BY <1>4, <2>2, <2>3, OnlyForNew
  <2>7. PerParty(net') /\ net'[o] = v /\ \A j \in Party \ {o} : net'[j] = g[j]
    BY <2>5 DEF OnlyFor
  <2>8. PerParty(v) /\ v[i] = Tail(net[o][i]) /\ \A k \in Party \ {i} : v[k] = g[o][k]
    BY <2>6 DEF OnlyFor
  <2>9. ASSUME NEW j \in Party PROVE PerParty(net'[j]) /\ net'[j][j] = net[j][j]
    <3>1. CASE j = o
      BY <1>4, <2>2, <2>7, <2>8, <3>1
    <3>2. CASE j # o
      BY <2>2, <2>7, <3>2
    <3> QED BY <3>1, <3>2
  <2>10. \A k \in Party \ {i} : net'[i][k] = Cat(net[i][k], SentLabels(tape, hkey, hmask, i, 0)[p])
    BY <1>4, <2>1, <2>2, <2>7
  <2>11. ASSUME NEW j \in Party \ {i}, NEW k \in Party \ {i} PROVE net'[j][k] = net[j][k]
    <3>1. CASE j = o
      BY <1>4, <2>2, <2>7, <2>8, <3>1
    <3>2. CASE j # o
      BY <2>2, <2>7, <3>2
    <3> QED BY <3>1, <3>2
  <2>12. ASSUME NEW j \in Party \ {i}
         PROVE  /\ tape[p].i = j => net[j][i] # <<>> /\ net'[j][i] = Tail(net[j][i])
                /\ tape[p].i # j => net'[j][i] = net[j][i]
    <3>1. tape[p].i = o
      BY <1>1, <1>2
    <3>2. CASE j = o
      BY <1>4, <2>7, <2>8, <3>1, <3>2
    <3>3. CASE j # o
      BY <2>2, <2>7, <3>1, <3>3
    <3> QED BY <3>2, <3>3
  <2> QED BY <2>7, <2>9, <2>10, <2>11, <2>12 DEF BeginNet
<1>13. IInv'
  BY <1>1, <1>9, <1>10, <1>11, <1>12, BegunIInv
<1>14. Sees(i, p, x)
  BY <1>9 DEF EvalWire, Sees
<1> QED BY <1>1, <1>13, <1>14

(* The label that party j sent party i, which has begun the input.          *)
LEMMA LabelWaits ==
  ASSUME IInv, NEW i \in Party, NEW j \in Party, j # i, Ended(gpc), ~ Ended(epc[i]), waiting[i], net[j][i] # <<>>,
         NEW p, p = epc[i]
  PROVE  /\ p < Reached(j) /\ Head(net[j][i])[2] = LabelAt(tape, hkey, hmask, p, j)
         /\ Tail(net[j][i]) = Stream(SentLabels(tape, hkey, hmask, j, 0), p + 1, Reached(j))
<1>1. PICK f, s, b : f = SentLabels(tape, hkey, hmask, j, BegunAt(i)) /\ b = Reached(j) /\ s = Stream(f, p + 1, b)
  OBVIOUS
<1>2. p < b /\ net[j][i] = Cat(f[p], s) /\ IsSeq(s)
  <2>1. p < Reached(j) /\ net[j][i] = Cat(f[p], Stream(f, p + 1, Reached(j))) /\ IsSeq(Stream(f, p + 1, Reached(j)))
    BY <1>1, NetRead
  <2> QED BY <1>1, <2>1
<1>3. tape \in Tapes /\ p \in DOMAIN tape /\ p \in Nat /\ p >= 1 /\ tape[p].op = "input"
  <2>1. tape[p].op = "input"
    BY DEF IInv, Places
  <2> QED BY <2>1, EvalKnows
<1>4. BegunAt(i) = p
  BY DEF BegunAt
<1>5. PICK x, l : x = <<"label", l>> /\ l = LabelAt(tape, hkey, hmask, p, j)
  OBVIOUS
<1>6. f[p] = <<x>>
  <2>1. p \in DOMAIN tape
    BY <1>3
  <2>2. tape[p].op = "input" /\ (tape[p].i # j \/ p = p) =>
          SentLabels(tape, hkey, hmask, j, p)[p] = LabelMsg(tape, hkey, hmask, p, j)
    BY ONLY <2>1, LabelPieceFacts
  <2> QED BY <1>1, <1>3, <1>4, <1>5, <2>2 DEF LabelMsg
<1>7. Head(net[j][i]) = x /\ Tail(net[j][i]) = s
  BY <1>2, <1>6, HeadOfOne
<1>8. x[2] = l
  BY <1>5
<1>9. s = Stream(SentLabels(tape, hkey, hmask, j, 0), p + 1, b)
  <2>1. b \in Nat /\ b <= Len(tape) + 1
    BY <1>1, ReachedFacts
  <2>2. Stream(SentLabels(tape, hkey, hmask, j, p), p + 1, b) = Stream(SentLabels(tape, hkey, hmask, j, 0), p + 1, b)
    BY <1>3, <2>1, LaterLabels
  <2> QED BY <1>1, <1>4, <2>2
<1> QED BY <1>1, <1>2, <1>5, <1>7, <1>8, <1>9

(* A party that waits has read its other streams up to the input.           *)
LEMMA EvalAhead ==
  ASSUME IInv, NEW i \in Party, Ended(gpc), ~ Ended(epc[i]), waiting[i], NEW p, p = epc[i]
  PROVE  /\ msg_input_masks[i] = Rests(i, p + 1).input_masks /\ msg_output_masks[i] = Rests(i, p + 1).output_masks
         /\ wires[i] = Rests(i, p + 1).wires /\ gates[i] = Rests(i, p + 1).gates
<1>1. Reached(i) = p + 1
  BY DEF Reached
<1>2. ppc[i] = rpc /\ gpc = rpc
  BY EvalKnows
<1>3. Streams /\ \A s : Store(Ended(gpc), s) = s
  BY DEF IInv, Store
<1>4. /\ msg_input_masks[i] = Stream(SentInputMasks(tape, hmask, i), p + 1, rpc)
      /\ msg_output_masks[i] = Stream(SentOutputMasks(tape, hmask), p + 1, rpc)
      /\ wires[i] = Stream(KeptWires(tape, hkey, i), p + 1, rpc)
      /\ gates[i] = Stream(SentGates(tape, hkey, hmask), p + 1, rpc)
  BY <1>1, <1>2, <1>3 DEF Streams
<1> QED BY <1>4 DEF Rests

LEMMA EndMessages ==
  ASSUME IInv, NEW i \in Party, Ended(gpc), ~ Ended(epc[i]), waiting[i], EvalFrame,
         EvalPlace(i, epc[i] + 1, FALSE), \A j \in Party \ {i} : net[j][i] # <<>>,
         net' = [j \in Party |-> IF j = i THEN net[j] ELSE [net[j] EXCEPT ![i] = Tail(@)]]
  PROVE  Messages' /\ PerParty(net') /\ \A j \in Party : PerParty(net'[j])
<1>1. PICK p : p = epc[i]
  OBVIOUS
<1>2. tape' = tape /\ hkey' = hkey /\ hmask' = hmask
  BY DEF EvalFrame
<1>3. /\ epc'[i] = p + 1 /\ waiting'[i] = FALSE
      /\ \A j \in Party \ {i} : epc'[j] = epc[j] /\ waiting'[j] = waiting[j]
  BY <1>1 DEF EvalPlace, OnlyFor
<1>4. p \in Nat /\ p >= 1
  BY <1>1, EvalKnows
<1>5. \A j \in Party : Reached(j)' = Reached(j)
  BY <1>1, <1>3 DEF Reached
<1>6. BegunAt(i)' = 0 /\ \A j \in Party \ {i} : BegunAt(j)' = BegunAt(j)
  BY <1>3 DEF BegunAt
<1>7. Messages
  BY DEF IInv
<1>8. \A j \in Party : PerParty(net[j])
  BY EvalTypes
<1>9. \A j \in Party \ {i} : net'[j] = [net[j] EXCEPT ![i] = Tail(net[j][i])]
  OBVIOUS
<1>10. ASSUME NEW j \in Party \ {i} PROVE OnlyFor(i, net[j], net'[j], Tail(net[j][i]))
  BY <1>8, <1>9, OnlyForNew
<1>11. /\ net'[i] = net[i]
       /\ \A j \in Party : PerParty(net'[j])
       /\ \A j \in Party \ {i} : net'[j][i] = Tail(net[j][i])
       /\ \A j \in Party, k \in Party \ {i} : net'[j][k] = net[j][k]
  <2>1. net'[i] = net[i]
    OBVIOUS
  <2> QED BY <1>8, <1>10, <2>1 DEF OnlyFor
<1>12. PerParty(net')
  BY DEF PerParty
<1>13. ASSUME NEW j \in Party, NEW k \in Party
       PROVE  IF j = k THEN net'[j][k] = <<>>
              ELSE /\ net'[j][k] = Stream(SentLabels(tape', hkey', hmask', j, BegunAt(k)'), epc'[k], Reached(j)')
                   /\ waiting'[k] /\ tape'[epc'[k]].i = j => Reached(j)' > epc'[k]
                   /\ \A q \in Reached(j)' .. epc'[k] - 1 : tape'[q].op # "input"
  <2>1. CASE j = k
    <3>1. net[j][j] = <<>>
      BY <1>7 DEF Messages
    <3>2. net'[j][j] = net[j][j]
      BY <1>11
    <3> QED BY <2>1, <3>1, <3>2
  <2>2. CASE j # k
    <3>1. CASE k # i
      <4>1. /\ net[j][k] = Stream(SentLabels(tape, hkey, hmask, j, BegunAt(k)), epc[k], Reached(j))
            /\ waiting[k] /\ tape[epc[k]].i = j => Reached(j) > epc[k]
            /\ \A q \in Reached(j) .. epc[k] - 1 : tape[q].op # "input"
        BY <1>7, <2>2 DEF Messages
      <4>2. /\ epc'[k] = epc[k] /\ waiting'[k] = waiting[k] /\ Reached(j)' = Reached(j) /\ BegunAt(k)' = BegunAt(k)
            /\ net'[j][k] = net[j][k]
        BY <1>3, <1>5, <1>6, <1>11, <3>1
      <4> QED BY <1>2, <2>2, <4>1, <4>2
    <3>2. CASE k = i
      <4>1. PICK b : b = Reached(j)
        OBVIOUS
      <4>2. p < b /\ Tail(net[j][i]) = Stream(SentLabels(tape, hkey, hmask, j, 0), p + 1, b)
        <5>1. /\ p < Reached(j)
              /\ Tail(net[j][i]) = Stream(SentLabels(tape, hkey, hmask, j, 0), p + 1, Reached(j))
          BY <1>1, <2>2, <3>2, LabelWaits
        <5> QED BY <4>1, <5>1
      <4>3. net'[j][i] = Tail(net[j][i])
        BY <1>11, <2>2, <3>2
      <4>4. net'[j][k] = Stream(SentLabels(tape', hkey', hmask', j, BegunAt(k)'), epc'[k], Reached(j)')
        BY <1>2, <1>3, <1>5, <1>6, <3>2, <4>1, <4>2, <4>3
      <4>5. \A q \in Reached(j)' .. epc'[k] - 1 : tape'[q].op # "input"
        <5>1. b .. p = {}
          <6>1. b \in Nat
            BY <4>1, ReachedFacts
          <6> QED BY <1>4, <4>2, <6>1
        <5>2. Reached(j)' = b /\ epc'[k] - 1 = p
          BY <1>3, <1>4, <1>5, <3>2, <4>1, SMTT(30)
        <5> QED BY <5>1, <5>2
      <4> QED BY <1>3, <2>2, <3>2, <4>4, <4>5
    <3> QED BY <3>1, <3>2
  <2> QED BY <2>1, <2>2
<1>14. Messages'
  BY <1>13 DEF Messages
<1> QED BY <1>11, <1>12, <1>14

(* With the labels of all others the wire of the input is complete.         *)
LEMMA EndInputIInv ==
  ASSUME IInv, NEW i \in Party, Ended(gpc), ~ Ended(epc[i]), EvalFrame,
         NEW p, p = epc[i], EndInput(i, tape[p])
  PROVE  IInv'
<1>1. PICK e, k, r : e = tape[p] /\ r = e.out /\ k = hkey[p + 1][r]
  OBVIOUS
<1>2. /\ tape \in Tapes /\ p \in DOMAIN tape /\ p \in Nat /\ p >= 1 /\ p + 1 \in Positions
      /\ gate_counter2[i] = Ands(tape, p)
      /\ RandomRule(e, hkey[p], hkey[p + 1], hmask[p], hmask[p + 1])
  BY <1>1, EvalKnows
<1>3. /\ e.op = "input" /\ waiting[i] /\ (\A j \in Party \ {i} : net[j][i] # <<>>)
      /\ entry' = [entry EXCEPT ![i][e.out] = [j \in Party |-> IF j = i THEN @[i] ELSE Head(net[j][i])[2]]]
      /\ net' = [j \in Party |-> IF j = i THEN net[j] ELSE [net[j] EXCEPT ![i] = Tail(@)]]
      /\ waiting' = [waiting EXCEPT ![i] = FALSE] /\ Done(i)
      /\ external' = external /\ gate_counter2' = gate_counter2 /\ gates' = gates /\ outputs' = outputs
      /\ wires' = wires /\ msg_input_masks' = msg_input_masks /\ msg_output_masks' = msg_output_masks
  BY <1>1 DEF EndInput
<1>4. /\ PerParty(epc) /\ PerParty(waiting) /\ PerParty(gate_counter2) /\ PerParty(gates) /\ PerParty(wires)
      /\ PerParty(msg_input_masks) /\ PerParty(msg_output_masks) /\ PerParty(outputs)
      /\ PerParty(external) /\ PerParty(entry) /\ external[i] \in [Reg -> BOOLEAN]
      /\ DOMAIN entry[i] = Reg /\ \A q \in Reg : PerParty(entry[i][q])
  BY EvalTypes
<1>5. r \in Reg
  BY <1>1, <1>2, EntryFacts
<1>6. PICK x : x = External(tape, hmask, p)
  OBVIOUS
<1>7. external[i][r] = x /\ entry[i][r][i] = LabelAt(tape, hkey, hmask, p, i)
  BY <1>1, <1>3, <1>6, Parts DEF Labels, Begun
<1>8. PICK l : l = LabelsOf(k, x)
  OBVIOUS
<1>9. \A j \in Party : LabelAt(tape, hkey, hmask, p, j) = l[j]
  BY <1>1, <1>6, <1>8 DEF LabelAt, LabelsOf
<1>10. PICK new : new = [j \in Party |-> IF j = i THEN entry[i][r][i] ELSE Head(net[j][i])[2]]
  OBVIOUS
<1>11. new = l
  <2>1. ASSUME NEW j \in Party PROVE new[j] = l[j]
    <3>1. CASE j = i
      BY <1>7, <1>9, <1>10, <3>1
    <3>2. CASE j # i
      <4>1. net[j][i] # <<>>
        BY <1>3, <3>2
      <4>2. Head(net[j][i])[2] = LabelAt(tape, hkey, hmask, p, j)
        BY <1>3, <3>2, <4>1, LabelWaits
      <4> QED BY <1>9, <1>10, <3>2, <4>2
    <3> QED BY <3>1, <3>2
  <2> QED BY <1>8, <1>10, <2>1 DEF LabelsOf
<1>12. PICK g : g = [entry[i] EXCEPT ![r] = l]
  OBVIOUS
<1>13. entry' = [entry EXCEPT ![i] = g]
  <2>1. entry' = [entry EXCEPT ![i][r] = new]
    BY <1>1, <1>3, <1>10
  <2> QED BY <1>11, <1>12, <2>1
<1>14. OnlyFor(i, entry, entry', g)
  BY <1>4, <1>13, OnlyForNew
<1>15. DOMAIN g = Reg /\ g[r] = l /\ \A q \in Reg \ {r} : g[q] = entry[i][q]
  BY <1>4, <1>5, <1>12
<1>16. \A q \in Reg : PerParty(g[q])
  <2>1. PerParty(l)
    BY <1>8 DEF LabelsOf, PerParty
  <2> QED BY <1>4, <1>15, <2>1
<1>17. EvalWires(i, external[i], g)
  BY <1>3, <1>4, <1>14, <1>15, <1>16 DEF EvalWires, OnlyFor
<1>18. EvalPlace(i, p + 1, FALSE)
  <2>1. OnlyFor(i, epc, epc', p + 1)
    <3>1. epc' = [epc EXCEPT ![i] = p + 1]
      BY <1>3 DEF Done
    <3> QED BY <1>4, <3>1, OnlyForNew
  <2>2. OnlyFor(i, waiting, waiting', FALSE)
    BY <1>3, <1>4, OnlyForNew
  <2>3. OnlyFor(i, gate_counter2, gate_counter2', Ands(tape, p + 1))
    <3>1. Ands(tape, p + 1) = Ands(tape, p)
      BY <1>1, <1>2, <1>3, AndsFacts
    <3> QED BY <1>2, <1>3, <1>4, <3>1, OnlyForSame
  <2> QED BY <1>2, <2>1, <2>2, <2>3 DEF EvalPlace
<1>19. EvalTaken(i, p + 1)
  <2>1. PICK R : R = Rests(i, p + 1)
    OBVIOUS
  <2>2. /\ msg_input_masks[i] = R.input_masks /\ msg_output_masks[i] = R.output_masks
        /\ wires[i] = R.wires /\ gates[i] = R.gates
    BY <1>3, <2>1, EvalAhead
  <2> QED BY <1>3, <1>4, <2>1, <2>2 DEF EvalTaken, OnlyFor
<1>20. Messages' /\ PerParty(net') /\ \A j \in Party : PerParty(net'[j])
  <2>1. EvalPlace(i, epc[i] + 1, FALSE)
    BY <1>18
  <2> QED BY <1>3, <2>1, EndMessages
<1>21. epc'[i] = p + 1 /\ waiting'[i] = FALSE
  BY <1>18 DEF EvalPlace, OnlyFor
<1>22. Fits(i)'
  <2>1. tape' = tape /\ hkey' = hkey
    BY DEF EvalFrame
  <2>2. Known(tape, p + 1) = Known(tape, p) \cup {r} /\ Known(tape, p) \subseteq Reg
    BY <1>1, <1>2, <1>3, KnownGrows
  <2>3. \A q \in Reg \ {r} : hkey[p + 1][q] = hkey[p][q]
    BY <1>1, <1>2, <1>3 DEF RandomRule
  <2>4. \A q \in Known(tape, p) \ {r} : entry[i][q] = LabelsOf(hkey[p][q], external[i][q])
    BY <1>1, Parts DEF Labels, Fits
  <2>5. entry'[i] = g /\ external'[i] = external[i]
    BY <1>3, <1>14 DEF OnlyFor
  <2>6. ASSUME NEW q \in Known(tape, p + 1)
        PROVE  entry'[i][q] = LabelsOf(hkey[p + 1][q], external'[i][q])
    <3>1. CASE q = r
      BY <1>1, <1>7, <1>8, <1>15, <2>5, <3>1
    <3>2. CASE q # r
      BY <1>15, <2>2, <2>3, <2>4, <2>5, <3>2
    <3> QED BY <3>1, <3>2
  <2> QED BY <1>21, <2>1, <2>6 DEF Fits
<1>23. Begun(i)'
  BY <1>21 DEF Begun
<1>24. EvalMessages
  BY <1>3, <1>4, <1>20 DEF EvalMessages
<1>25. PICK n, w : n = p + 1 /\ w = FALSE
  OBVIOUS
<1>26. EvalPlace(i, n, w) /\ EvalTaken(i, IF w THEN n + 1 ELSE n)
  BY <1>18, <1>19, <1>25
<1> QED BY <1>17, <1>20, <1>22, <1>23, <1>24, <1>26, EvalIInv

(* EvalRegister preserves the invariant.                                    *)
LEMMA EvalStepIInv ==
  ASSUME IInv, NEW i \in Party, EvalStep(i)
  PROVE  IInv'
<1>1. PICK p : p = epc[i]
  OBVIOUS
<1>2. Ended(gpc) /\ ~ Ended(epc[i])
  BY DEF EvalStep
<1>3. EvalFrame
  BY DEF EvalStep, EvalFrame, random, prf, garble, history
<1>4. waiting[i] => tape[p].op = "input"
  BY <1>1 DEF IInv, Places
<1>5. CASE EvalAnd(i, tape[p])
  <2>1. ~ waiting[i]
    BY <1>4, <1>5 DEF EvalAnd
  <2> QED BY <1>1, <1>2, <1>3, <1>5, <2>1, EvalAndIInv
<1>6. CASE EvalLinear(i, tape[p])
  <2>1. ~ waiting[i]
    BY <1>4, <1>6 DEF EvalLinear
  <2> QED BY <1>1, <1>2, <1>3, <1>6, <2>1, EvalLinearIInv
<1>7. CASE EvalRandom(i, tape[p])
  <2>1. ~ waiting[i]
    BY <1>4, <1>7 DEF EvalRandom
  <2> QED BY <1>1, <1>2, <1>3, <1>7, <2>1, EvalRandomIInv
<1>8. CASE BeginInput(i, tape[p])
  <2>1. ~ waiting[i] /\ tape[p].op = "input" /\ (BeginOwnInput(i, tape[p]) \/ BeginOtherInput(i, tape[p]))
    BY <1>8 DEF BeginInput
  <2> QED BY <1>1, <1>2, <1>3, <1>8, <2>1, BeginOwnIInv, BeginOtherIInv
<1>9. CASE EndInput(i, tape[p])
  BY <1>1, <1>2, <1>3, <1>9, EndInputIInv
<1>10. CASE EvalOutput(i, tape[p])
  <2>1. ~ waiting[i]
    BY <1>4, <1>10 DEF EvalOutput
  <2> QED BY <1>1, <1>2, <1>3, <1>10, <2>1, EvalOutputIInv
<1> QED BY <1>1, <1>5, <1>6, <1>7, <1>8, <1>9, <1>10 DEF EvalStep

-----------------------------------------------------------------------------
(* The theorems.                                                            *)

(* Every step preserves the invariant.                                      *)
LEMMA StepIInv == IInv /\ [Next]_vars => IInv'
<1> SUFFICES ASSUME IInv, [Next]_vars PROVE IInv'
  OBVIOUS
<1>1. CASE RandomStep
  BY <1>1, RandomStepIInv
<1>2. CASE GarbleStep
  BY <1>2, GarbleStepIInv
<1>3. ASSUME NEW i \in Party, PrfStep(i) PROVE IInv'
  BY <1>3, PrfStepIInv
<1>4. ASSUME NEW i \in Party, EvalStep(i) PROVE IInv'
  BY <1>4, EvalStepIInv
<1>5. CASE UNCHANGED vars
  <2>1. /\ tape' = tape /\ rpc' = rpc /\ rkey' = rkey /\ rmask' = rmask /\ drawn' = drawn
        /\ msg_keys' = msg_keys /\ msg_input_masks' = msg_input_masks
        /\ msg_output_masks' = msg_output_masks /\ twires' = twires
        /\ ppc' = ppc /\ pkey' = pkey /\ gate_counter' = gate_counter
        /\ prf_outputs' = prf_outputs /\ wires' = wires
        /\ gpc' = gpc /\ gmask' = gmask /\ circuit' = circuit
        /\ epc' = epc /\ waiting' = waiting /\ external' = external /\ entry' = entry
        /\ gate_counter2' = gate_counter2 /\ gates' = gates /\ net' = net /\ outputs' = outputs
        /\ hkey' = hkey /\ hmask' = hmask
    BY <1>5 DEF vars, random, sent, prf, garble, eval, history
  <2>2. Places' /\ Types'
    <3>1. Positions' = Positions /\ \A p : Ended(p)' <=> Ended(p)
      BY <2>1 DEF Positions, Ended
    <3> QED BY <2>1, <3>1 DEF IInv, Places, Types, Ended, PerParty
  <2>3. History'
    BY <2>1 DEF IInv, History
  <2>4. /\ \A i \in Party : Reached(i)' = Reached(i) /\ BegunAt(i)' = BegunAt(i)
        /\ Ended(gpc)' <=> Ended(gpc)
    BY <2>1 DEF Reached, BegunAt, Ended
  <2>5. Streams'
    BY <2>1 DEF IInv, Streams, Reached, Ended
  <2>6. Messages'
    BY <2>1, <2>4 DEF IInv, Messages
  <2>7. LabelsFit' /\ \A i \in Party : Begun(i)'
    BY <2>1, SMTT(30) DEF IInv, LabelsFit, Begun
  <2> QED BY <2>2, <2>3, <2>5, <2>6, <2>7 DEF IInv
<1> QED BY <1>1, <1>2, <1>3, <1>4, <1>5 DEF Next

(* The invariant holds always.                                              *)
THEOREM Invariance == Spec => []IInv
  BY InitIInv, StepIInv, PTL DEF Spec

(* Every party always holds, on every wire and for every party, the label   *)
(* of one and the same bit: what Register::eval needs to decrypt.           *)
THEOREM LabelsAlwaysFit == Spec => []LabelsFit
<1>1. IInv => LabelsFit
  BY DEF IInv
<1> QED BY <1>1, Invariance, PTL

(* When all parties have finished, everything was stored that was loaded    *)
(* and everything loaded that was stored.                                   *)
LEMMA AllAtTheEnd ==
  ASSUME IInv, Finished, NEW z, z = Len(tape) + 1
  PROVE  /\ z \in Int /\ rpc = z /\ gpc = z
         /\ \A i \in Party : ppc[i] = z /\ epc[i] = z /\ ~ waiting[i] /\ Reached(i) = z
<1>1. /\ Places /\ tape \in Tapes /\ rpc \in Positions /\ gpc \in Positions
      /\ \A i \in Party : ppc[i] \in Positions /\ epc[i] \in Positions
  BY DEF IInv, Places
<1>2. z \in Nat /\ \A p \in Positions : p \in Nat /\ p >= 1 /\ p <= z /\ (Ended(p) <=> p = z)
  BY <1>1, PositionFacts
<1>3. \A i \in Party : epc[i] = z /\ ~ waiting[i]
  BY <1>1, <1>2 DEF Finished, Places
<1>4. \A i \in Party : Reached(i) = z
  BY <1>3 DEF Reached
<1>5. PICK o \in Party : TRUE
  BY PartiesAssumption DEF Party
<1>6. rpc = z /\ gpc = z /\ \A i \in Party : ppc[i] = z
  <2>1. CASE z = 1
    BY <1>1, <1>2, <2>1
  <2>2. CASE z # 1
    <3>1. epc[o] # 1
      BY <1>3, <2>2
    <3>2. Ended(gpc) /\ Ended(rpc) /\ \A i \in Party : Ended(ppc[i])
      BY <1>1, <3>1 DEF Places
    <3> QED BY <1>1, <1>2, <3>2
  <2> QED BY <2>1, <2>2
<1> QED BY <1>2, <1>3, <1>4, <1>6

(* Nothing is ever stored that is not loaded.                               *)
THEOREM AllStreamsUsedUp == Spec => []StreamsUsedUp
<1>1. ASSUME IInv, Finished
      PROVE  /\ twires = <<>>
             /\ \A i \in Party :
                  /\ msg_keys[i] = <<>> /\ msg_input_masks[i] = <<>> /\ msg_output_masks[i] = <<>>
                  /\ prf_outputs[i] = <<>> /\ wires[i] = <<>> /\ gates[i] = <<>>
                  /\ \A j \in Party : net[i][j] = <<>>
  <2>1. PICK z : z = Len(tape) + 1
    OBVIOUS
  <2>2. /\ z \in Int /\ rpc = z /\ gpc = z
        /\ \A i \in Party : ppc[i] = z /\ epc[i] = z /\ ~ waiting[i] /\ Reached(i) = z
    BY <1>1, <2>1, AllAtTheEnd
  <2>3. \A f : Stream(f, z, z) = <<>>
    BY <2>2, StreamNone
  <2>4. twires = <<>>
    BY <1>1, <2>2, <2>3 DEF IInv, Streams
  <2>5. ASSUME NEW i \in Party
        PROVE  /\ msg_keys[i] = <<>> /\ msg_input_masks[i] = <<>> /\ msg_output_masks[i] = <<>>
               /\ prf_outputs[i] = <<>> /\ wires[i] = <<>>
    BY <1>1, <2>2, <2>3 DEF IInv, Streams
  <2>6. ASSUME NEW i \in Party PROVE gates[i] = <<>>
    BY <1>1, <2>2, <2>3 DEF IInv, Streams, Store
  <2>7. ASSUME NEW i \in Party, NEW j \in Party PROVE net[i][j] = <<>>
    BY <1>1, <2>2, <2>3 DEF IInv, Messages
  <2> QED BY <2>4, <2>5, <2>6, <2>7
<1>2. IInv => StreamsUsedUp
  BY <1>1 DEF StreamsUsedUp
<1> QED BY <1>2, Invariance, PTL

-----------------------------------------------------------------------------
(* Every party computes the plain circuit.                                  *)

(* The bits that party i has on its wires, for the position it has reached. *)
BitsAt(i, q) == [r \in Reg |-> hmask[q][r] # external[i][r]]
Bits(i) == BitsAt(i, Reached(i))

LEMMA PlainIs ==
  ASSUME NEW i
  PROVE  Plain(i).pc = Reached(i) /\ Plain(i).val = Bits(i)
BY DEF Plain, Reached, Bits, BitsAt

(* A step that neither moves the party nor changes its bits is none of the  *)
(* plain circuit.                                                           *)
LEMMA PlainIdle ==
  ASSUME NEW i, tape' = tape, Reached(i)' = Reached(i), Bits(i)' = Bits(i),
         outputs'[i] = outputs[i]
  PROVE  P(i)!vars' = P(i)!vars
<1>1. Plain(i).pc = Reached(i) /\ Plain(i).val = Bits(i)
  BY PlainIs
<1>2. (Plain(i).pc = Reached(i) /\ Plain(i).val = Bits(i))'
  BY DEF Plain, Reached, Bits, BitsAt
<1> QED BY <1>1, <1>2 DEF P!vars

(* Functions that agree but at one point differ by an update of that point. *)
LEMMA Update ==
  ASSUME NEW S, NEW V \in [S -> BOOLEAN], NEW W \in [S -> BOOLEAN], NEW x \in S,
         \A r \in S : r # x => W[r] = V[r]
  PROVE  W = [V EXCEPT ![x] = W[x]]
  OBVIOUS

(* What the plain circuit writes for an entry, given the bits v.            *)
Meant(e, v, b) ==
  /\ b \in BOOLEAN
  /\ e.op \in {"public", "input"} => b = e.val
  /\ e.op = "xor" => b = (v[e.left] # v[e.right])
  /\ e.op = "and" => b = (v[e.left] /\ v[e.right])

(* The entry that a party does next, as the plain circuit sees it.          *)
LEMMA PlainNext ==
  ASSUME IInv, NEW i \in Party, Ended(gpc), ~ Ended(epc[i]), ~ waiting[i], EvalFrame,
         NEW p, p = epc[i], Reached(i)' = p + 1
  PROVE  /\ Plain(i).pc \in DOMAIN PlainTape(tape) /\ Plain(i).pc = p
         /\ (Plain(i).pc)' = Plain(i).pc + 1 /\ PlainTape(tape)' = PlainTape(tape)
         /\ Plain(i).val = BitsAt(i, p) /\ (Plain(i).val)' = BitsAt(i, p + 1)'
<1>1. tape \in Tapes /\ p \in DOMAIN tape /\ Reached(i) = p
  BY EvalKnows, ReachedFacts
<1>2. Plain(i).pc = Reached(i) /\ Plain(i).val = Bits(i)
  BY PlainIs
<1>3. (Plain(i).pc = Reached(i) /\ Plain(i).val = BitsAt(i, Reached(i)))'
  BY DEF Plain, Reached, BitsAt
<1>4. tape' = tape
  BY DEF EvalFrame
<1>5. DOMAIN PlainTape(tape) = DOMAIN tape
  BY <1>1, PlainTapeFacts
<1>6. (Plain(i).val)' = BitsAt(i, p + 1)'
  <2>1. (Plain(i).val)' = [r \in Reg |-> hmask'[Reached(i)'][r] # external'[i][r]]
    BY <1>3 DEF BitsAt
  <2> QED BY <2>1 DEF BitsAt
<1>7. PlainTape(tape)' = PlainTape(tape)
  BY <1>4
<1> QED BY <1>1, <1>2, <1>3, <1>5, <1>6, <1>7 DEF Bits

LEMMA PlainWrites ==
  ASSUME IInv, NEW i \in Party, Ended(gpc), ~ Ended(epc[i]), ~ waiting[i], EvalFrame,
         NEW p, p = epc[i], Reached(i)' = p + 1, outputs' = outputs, tape[p].op # "reveal",
         NEW x \in BOOLEAN, Sees(i, p, x),
         Meant(tape[p], BitsAt(i, p), hmask[p + 1][tape[p].out] # x)
  PROVE  P(i)!Next
<1>1. PICK e, pe, V, W : e = tape[p] /\ pe = PlainTape(tape)[p] /\ V = BitsAt(i, p) /\ W = [r \in Reg |-> hmask[p + 1][r] # external'[i][r]]
  OBVIOUS
<1>2. /\ tape \in Tapes /\ p \in DOMAIN tape
      /\ RandomRule(e, hkey[p], hkey[p + 1], hmask[p], hmask[p + 1])
      /\ hmask[p] \in [Reg -> BOOLEAN] /\ hmask[p + 1] \in [Reg -> BOOLEAN]
  BY <1>1, EvalKnows
<1>3. /\ e.op \in Op /\ e.out \in Reg /\ e.left \in Reg /\ e.right \in Reg
  BY <1>1, <1>2, EntryFacts
<1>4. /\ pe.op = (IF e.op = "input" THEN "public" ELSE e.op)
      /\ pe.out = e.out /\ pe.left = e.left /\ pe.right = e.right /\ pe.val = e.val
  BY <1>1, <1>2, PlainTapeFacts
<1>5. external[i] \in [Reg -> BOOLEAN] /\ PerParty(external)
  BY EvalTypes
<1>6. external'[i] = [external[i] EXCEPT ![e.out] = x]
  BY <1>1, <1>5 DEF Sees, PerParty
<1>7. PICK b : b = (hmask[p + 1][e.out] # x)
  OBVIOUS
<1>8. b \in BOOLEAN /\ W[e.out] = b
  BY <1>1, <1>3, <1>5, <1>6, <1>7
<1>9. V \in [Reg -> BOOLEAN] /\ W \in [Reg -> BOOLEAN]
  BY <1>1 DEF BitsAt
<1>10. ASSUME NEW r \in Reg, r # e.out PROVE W[r] = V[r]
  <2>1. hmask[p + 1][r] = hmask[p][r]
    BY <1>1, <1>2, <1>10 DEF RandomRule
  <2>2. external'[i][r] = external[i][r]
    BY <1>5, <1>6, <1>10
  <2> QED BY <1>1, <2>1, <2>2 DEF BitsAt
<1>11. W = [V EXCEPT ![e.out] = b]
  <2>1. W = [V EXCEPT ![e.out] = W[e.out]]
    BY <1>3, <1>9, <1>10, Update
  <2> QED BY <1>8, <2>1
<1>12. Meant(e, V, b)
  BY <1>1, <1>7
<1>13. /\ Plain(i).pc \in DOMAIN PlainTape(tape) /\ Plain(i).pc = p
       /\ (Plain(i).pc)' = Plain(i).pc + 1 /\ PlainTape(tape)' = PlainTape(tape)
       /\ Plain(i).val = V /\ (Plain(i).val)' = W
  <2>1. hmask' = hmask
    BY DEF EvalFrame
  <2>2. BitsAt(i, p + 1)' = W
    BY <1>1, <2>1 DEF BitsAt
  <2>3. /\ Plain(i).pc \in DOMAIN PlainTape(tape) /\ Plain(i).pc = p
        /\ (Plain(i).pc)' = Plain(i).pc + 1 /\ PlainTape(tape)' = PlainTape(tape)
        /\ Plain(i).val = BitsAt(i, p) /\ (Plain(i).val)' = BitsAt(i, p + 1)'
    BY PlainNext
  <2> QED BY <1>1, <2>2, <2>3
<1>14. b \in P(i)!Results(pe)
  <2>1. CASE e.op \in {"public", "input"}
    BY <1>4, <1>12, <2>1 DEF Meant, P!Results
  <2>2. CASE e.op = "random"
    BY <1>4, <1>8, <2>2 DEF P!Results
  <2>3. CASE e.op = "xor"
    BY <1>4, <1>12, <1>13, <2>3 DEF Meant, P!Results
  <2>4. CASE e.op = "and"
    BY <1>4, <1>12, <1>13, <2>4 DEF Meant, P!Results
  <2> QED BY <1>1, <1>3, <2>1, <2>2, <2>3, <2>4 DEF Op
<1>15. P(i)!Write(pe)
  <2>1. P(i)!Writes(pe)
    BY <1>1, <1>4 DEF P!Writes
  <2>2. (Plain(i).val)' = [Plain(i).val EXCEPT ![pe.out] = b]
    BY <1>4, <1>11, <1>13
  <2> QED BY <1>14, <2>1, <2>2 DEF P!Write
<1> QED BY <1>1, <1>13, <1>15 DEF P!Next

(* An output reveals the bit of its wire.                                   *)
LEMMA PlainReveals ==
  ASSUME IInv, NEW i \in Party, Ended(gpc), ~ Ended(epc[i]), ~ waiting[i], EvalFrame,
         NEW p, p = epc[i], Reached(i)' = p + 1, EvalOutput(i, tape[p])
  PROVE  P(i)!Next
<1>1. PICK e, pe, k, R, m : /\ e = tape[p] /\ pe = PlainTape(tape)[p] /\ k = hkey[p + 1][e.out]
                            /\ R = Rests(i, p + 1) /\ m = hmask[p][e.left]
  OBVIOUS
<1>2. /\ tape \in Tapes /\ p \in DOMAIN tape
      /\ RandomRule(e, hkey[p], hkey[p + 1], hmask[p], hmask[p + 1])
  BY <1>1, EvalKnows
<1>3. /\ e.op = "reveal" /\ external' = external
      /\ outputs' = [outputs EXCEPT ![i] = Append(outputs[i], Head(msg_output_masks[i]) # external[i][e.left])]
  BY <1>1 DEF EvalOutput
<1>4. pe.op = "reveal" /\ pe.left = e.left
  BY <1>1, <1>2, <1>3, PlainTapeFacts
<1>5. Head(msg_output_masks[i]) = m
  <2>1. Reading(i, p, tape[p], hkey[p + 1][tape[p].out], Rests(i, p + 1))
    BY EvalPieces
  <2>2. Reading(i, p, e, k, R)
    BY <1>1, <2>1
  <2>3. msg_output_masks[i] = Cat(<<m>>, R.output_masks) /\ IsSeq(R.output_masks)
    BY <1>1, <1>3, <2>2 DEF Reading
  <2> QED BY <2>3, HeadOfOne
<1>6. PICK V : V = BitsAt(i, p)
  OBVIOUS
<1>7. V[e.left] = (m # external[i][e.left])
  BY <1>1, <1>2, <1>6, EntryFacts DEF BitsAt
<1>8. outputs'[i] = Append(outputs[i], V[e.left])
  BY <1>3, <1>5, <1>7, EvalTypes DEF PerParty
<1>9. /\ Plain(i).pc \in DOMAIN PlainTape(tape) /\ Plain(i).pc = p
      /\ (Plain(i).pc)' = Plain(i).pc + 1 /\ PlainTape(tape)' = PlainTape(tape)
      /\ Plain(i).val = V /\ (Plain(i).val)' = V
  <2>1. hmask' = hmask /\ hmask[p + 1] = hmask[p]
    BY <1>2, <1>3 DEF EvalFrame, RandomRule
  <2>2. BitsAt(i, p + 1)' = BitsAt(i, p)
    BY <1>3, <2>1 DEF BitsAt
  <2>3. /\ Plain(i).pc \in DOMAIN PlainTape(tape) /\ Plain(i).pc = p
        /\ (Plain(i).pc)' = Plain(i).pc + 1 /\ PlainTape(tape)' = PlainTape(tape)
        /\ Plain(i).val = BitsAt(i, p) /\ (Plain(i).val)' = BitsAt(i, p + 1)'
    BY PlainNext
  <2> QED BY <1>6, <2>2, <2>3
<1>10. P(i)!Reveal(pe)
  <2>1. ~ P(i)!Writes(pe)
    BY <1>4 DEF P!Writes
  <2> QED BY <1>4, <1>8, <1>9, <2>1 DEF P!Reveal
<1> QED BY <1>1, <1>9, <1>10 DEF P!Next

(* Where a party that does an entry gets to.                                *)
LEMMA ReachedNext ==
  ASSUME IInv, NEW i \in Party, Ended(gpc), ~ Ended(epc[i]), ~ waiting[i], NEW p, p = epc[i]
  PROVE  /\ Done(i) /\ waiting' = waiting => Reached(i)' = p + 1
         /\ epc' = epc /\ waiting' = [waiting EXCEPT ![i] = TRUE] => Reached(i)' = p + 1
<1>1. PerParty(epc) /\ PerParty(waiting) /\ DOMAIN epc = Party /\ DOMAIN waiting = Party
  BY EvalTypes DEF PerParty
<1> QED BY <1>1 DEF Done, Reached

LEMMA LinearRefines ==
  ASSUME IInv, NEW i \in Party, Ended(gpc), ~ Ended(epc[i]), ~ waiting[i], EvalFrame,
         NEW p, p = epc[i], EvalLinear(i, tape[p])
  PROVE  P(i)!Next
<1>1. PICK e : e = tape[p]
  OBVIOUS
<1>2. /\ tape \in Tapes /\ p \in DOMAIN tape
      /\ RandomRule(e, hkey[p], hkey[p + 1], hmask[p], hmask[p + 1])
      /\ hmask[p] \in [Reg -> BOOLEAN] /\ hmask[p + 1] \in [Reg -> BOOLEAN]
  BY <1>1, EvalKnows
<1>3. /\ e.op \in {"public", "xor"} /\ Done(i) /\ waiting' = waiting /\ outputs' = outputs
  BY <1>1 DEF EvalLinear
<1>4. Reached(i)' = p + 1
  BY <1>3, ReachedNext
<1>5. e.out \in Reg /\ e.left \in Reg /\ e.right \in Reg /\ e.val \in BOOLEAN /\ external[i] \in [Reg -> BOOLEAN]
  BY <1>1, <1>2, EntryFacts, EvalTypes
<1>6. PICK V : V = BitsAt(i, p)
  OBVIOUS
<1>7. CASE e.op = "public"
  <2>1. PICK x : x = e.val
    OBVIOUS
  <2>2. Sees(i, p, x)
    BY <1>1, <1>7, <2>1 DEF EvalLinear, EvalWire, Sees
  <2>3. hmask[p + 1][e.out] = FALSE
    BY <1>2, <1>7 DEF RandomRule
  <2>4. Meant(e, V, hmask[p + 1][e.out] # x)
    BY <1>5, <1>7, <2>1, <2>3 DEF Meant
  <2>5. x \in BOOLEAN
    BY <1>5, <2>1
  <2> QED BY <1>1, <1>3, <1>4, <1>6, <2>2, <2>4, <2>5, PlainWrites
<1>8. CASE e.op = "xor"
  <2>1. PICK a, b, x : a = external[i][e.left] /\ b = external[i][e.right] /\ x = (a # b)
    OBVIOUS
  <2>2. Sees(i, p, x)
    BY <1>1, <1>8, <2>1 DEF EvalLinear, EvalWire, Sees
  <2>3. PICK l, r : l = hmask[p][e.left] /\ r = hmask[p][e.right]
    OBVIOUS
  <2>4. hmask[p + 1][e.out] = (l # r)
    BY <1>2, <1>8, <2>3 DEF RandomRule
  <2>5. V[e.left] = (l # a) /\ V[e.right] = (r # b)
    BY <1>5, <1>6, <2>1, <2>3 DEF BitsAt
  <2>6. l \in BOOLEAN /\ r \in BOOLEAN /\ a \in BOOLEAN /\ b \in BOOLEAN /\ x \in BOOLEAN
    BY <1>2, <1>5, <2>1, <2>3
  <2>7. ((l # r) # x) = ((l # a) # (r # b))
    BY <2>1, <2>6
  <2>8. Meant(e, V, hmask[p + 1][e.out] # x)
    BY <1>8, <2>4, <2>5, <2>6, <2>7 DEF Meant
  <2> QED BY <1>1, <1>3, <1>4, <1>6, <2>2, <2>6, <2>8, PlainWrites
<1> QED BY <1>3, <1>7, <1>8

LEMMA RandomRefines ==
  ASSUME IInv, NEW i \in Party, Ended(gpc), ~ Ended(epc[i]), ~ waiting[i], EvalFrame,
         NEW p, p = epc[i], EvalRandom(i, tape[p])
  PROVE  P(i)!Next
<1>1. PICK e, x : e = tape[p] /\ x = FALSE
  OBVIOUS
<1>2. tape \in Tapes /\ p \in DOMAIN tape /\ hmask[p + 1] \in [Reg -> BOOLEAN]
  BY EvalKnows
<1>3. e.op = "random" /\ Done(i) /\ waiting' = waiting /\ outputs' = outputs /\ Sees(i, p, x)
  BY <1>1 DEF EvalRandom, EvalWire, Sees
<1>4. Reached(i)' = p + 1
  BY <1>3, ReachedNext
<1>5. Meant(e, BitsAt(i, p), hmask[p + 1][e.out] # x)
  BY <1>1, <1>2, <1>3, EntryFacts DEF Meant
<1> QED BY <1>1, <1>3, <1>4, <1>5, PlainWrites

LEMMA AndRefines ==
  ASSUME IInv, NEW i \in Party, Ended(gpc), ~ Ended(epc[i]), ~ waiting[i], EvalFrame,
         NEW p, p = epc[i], EvalAnd(i, tape[p])
  PROVE  P(i)!Next
<1>1. PICK e, a, b, m, l, r, x : /\ e = tape[p] /\ a = external[i][e.left] /\ b = external[i][e.right]
                                 /\ m = hmask[p + 1][e.out] /\ l = hmask[p + 1][e.left] /\ r = hmask[p + 1][e.right]
                                 /\ x = OutBit(a, b, m, l, r)
  OBVIOUS
<1>2. /\ tape \in Tapes /\ p \in DOMAIN tape
      /\ RandomRule(e, hkey[p], hkey[p + 1], hmask[p], hmask[p + 1])
      /\ hmask[p] \in [Reg -> BOOLEAN] /\ hmask[p + 1] \in [Reg -> BOOLEAN]
  BY <1>1, EvalKnows
<1>3. e.op = "and" /\ Done(i) /\ waiting' = waiting /\ outputs' = outputs
  BY <1>1 DEF EvalAnd
<1>4. Sees(i, p, x)
  <2>1. Sees(i, p, OutBit(external[i][tape[p].left], external[i][tape[p].right], hmask[p + 1][tape[p].out],
                          hmask[p + 1][tape[p].left], hmask[p + 1][tape[p].right]))
    BY EvalAndIInv
  <2> QED BY <1>1, <2>1
<1>5. Reached(i)' = p + 1
  BY <1>3, ReachedNext
<1>6. /\ e.out \in Reg /\ e.left \in Reg /\ e.right \in Reg /\ external[i] \in [Reg -> BOOLEAN]
      /\ e.out # e.left /\ e.out # e.right
  BY <1>1, <1>2, <1>3, EntryFacts, ReadsFacts, EvalTypes
<1>7. PICK V : V = BitsAt(i, p)
  OBVIOUS
<1>8. l = hmask[p][e.left] /\ r = hmask[p][e.right]
  BY <1>1, <1>2, <1>3, <1>6 DEF RandomRule
<1>9. V[e.left] = (l # a) /\ V[e.right] = (r # b)
  BY <1>1, <1>6, <1>7, <1>8 DEF BitsAt
<1>10. l \in BOOLEAN /\ r \in BOOLEAN /\ m \in BOOLEAN /\ a \in BOOLEAN /\ b \in BOOLEAN /\ x \in BOOLEAN
  BY <1>1, <1>2, <1>6 DEF OutBit
<1>11. (m # x) = ((l # a) /\ (r # b))
  BY <1>1, <1>10 DEF OutBit
<1>12. Meant(e, V, m # x)
  BY <1>3, <1>9, <1>11 DEF Meant
<1> QED BY <1>1, <1>3, <1>4, <1>5, <1>7, <1>10, <1>12, PlainWrites

LEMMA InputRefines ==
  ASSUME IInv, NEW i \in Party, Ended(gpc), ~ Ended(epc[i]), ~ waiting[i], EvalFrame,
         NEW p, p = epc[i], BeginInput(i, tape[p])
  PROVE  P(i)!Next
<1>1. PICK e, x, m : e = tape[p] /\ x = External(tape, hmask, p) /\ m = hmask[p + 1][e.out]
  OBVIOUS
<1>2. tape \in Tapes /\ p \in DOMAIN tape /\ hmask[p + 1] \in [Reg -> BOOLEAN]
  BY EvalKnows
<1>3. /\ e.op = "input" /\ epc' = epc /\ waiting' = [waiting EXCEPT ![i] = TRUE] /\ outputs' = outputs
      /\ BeginOwnInput(i, tape[p]) \/ BeginOtherInput(i, tape[p])
  BY <1>1 DEF BeginInput
<1>4. Sees(i, p, x)
  <2>1. tape[p].op = "input"
    BY <1>1, <1>3
  <2>2. Sees(i, p, External(tape, hmask, p))
    BY <1>3, <2>1, BeginOwnIInv, BeginOtherIInv
  <2> QED BY <1>1, <2>2
<1>5. Reached(i)' = p + 1
  BY <1>3, ReachedNext
<1>6. m \in BOOLEAN /\ e.val \in BOOLEAN /\ x = (m # e.val)
  BY <1>1, <1>2, EntryFacts DEF External
<1>7. x \in BOOLEAN /\ (m # x) = e.val
  BY <1>6
<1>8. Meant(e, BitsAt(i, p), m # x)
  BY <1>3, <1>6, <1>7 DEF Meant
<1> QED BY <1>1, <1>3, <1>4, <1>5, <1>7, <1>8, PlainWrites

(* What EvalRegister of another party leaves alone.                         *)
LEMMA OthersKeep ==
  ASSUME IInv, NEW i \in Party, NEW j \in Party, i # j, EvalStep(j)
  PROVE  /\ external'[i] = external[i] /\ epc'[i] = epc[i] /\ waiting'[i] = waiting[i]
         /\ outputs'[i] = outputs[i]
<1>1. PICK e : e = tape[epc[j]]
  OBVIOUS
<1>2. /\ DOMAIN external = Party /\ DOMAIN epc = Party /\ DOMAIN waiting = Party /\ DOMAIN outputs = Party
  BY EvalTypes DEF PerParty
<1>3. CASE EvalAnd(j, e)
  BY <1>2, <1>3 DEF EvalAnd, EvalWire, Done
<1>4. CASE EvalLinear(j, e)
  BY <1>2, <1>4 DEF EvalLinear, EvalWire, Done
<1>5. CASE EvalRandom(j, e)
  BY <1>2, <1>5 DEF EvalRandom, EvalWire, Done
<1>6. CASE BeginInput(j, e)
  BY <1>2, <1>6 DEF BeginInput, BeginOwnInput, BeginOtherInput, EvalWire
<1>7. CASE EndInput(j, e)
  BY <1>2, <1>7 DEF EndInput, Done
<1>8. CASE EvalOutput(j, e)
  BY <1>2, <1>8 DEF EvalOutput, Done
<1> QED BY <1>1, <1>3, <1>4, <1>5, <1>6, <1>7, <1>8 DEF EvalStep

(* Each step of EvalRegister is a step of the plain circuit, but for the    *)
(* last one of an input, which only brings the labels of the others.        *)
LEMMA EvalRefines ==
  ASSUME IInv, NEW i \in Party, EvalStep(i)
  PROVE  [P(i)!Next]_(P(i)!vars)
<1>1. PICK p : p = epc[i]
  OBVIOUS
<1>2. Ended(gpc) /\ ~ Ended(epc[i])
  BY DEF EvalStep
<1>3. EvalFrame
  BY DEF EvalStep, EvalFrame, random, prf, garble, history
<1>4. waiting[i] => tape[p].op = "input"
  BY <1>1 DEF IInv, Places
<1>5. CASE EvalAnd(i, tape[p])
  <2>1. ~ waiting[i]
    BY <1>4, <1>5 DEF EvalAnd
  <2> QED BY <1>1, <1>2, <1>3, <1>5, <2>1, AndRefines
<1>6. CASE EvalLinear(i, tape[p])
  <2>1. ~ waiting[i]
    BY <1>4, <1>6 DEF EvalLinear
  <2> QED BY <1>1, <1>2, <1>3, <1>6, <2>1, LinearRefines
<1>7. CASE EvalRandom(i, tape[p])
  <2>1. ~ waiting[i]
    BY <1>4, <1>7 DEF EvalRandom
  <2> QED BY <1>1, <1>2, <1>3, <1>7, <2>1, RandomRefines
<1>8. CASE BeginInput(i, tape[p])
  <2>1. ~ waiting[i]
    BY <1>8 DEF BeginInput
  <2> QED BY <1>1, <1>2, <1>3, <1>8, <2>1, InputRefines
<1>9. CASE EndInput(i, tape[p])
  <2>1. /\ waiting[i] /\ waiting' = [waiting EXCEPT ![i] = FALSE] /\ epc' = [epc EXCEPT ![i] = p + 1]
        /\ external' = external /\ outputs' = outputs
    BY <1>1, <1>9 DEF EndInput, Done
  <2>2. DOMAIN epc = Party /\ DOMAIN waiting = Party
    BY EvalTypes DEF PerParty
  <2>3. Reached(i)' = p + 1 /\ Reached(i) = p + 1
    BY <1>1, <2>1, <2>2 DEF Reached
  <2>4. tape' = tape /\ hmask' = hmask
    BY <1>3 DEF EvalFrame
  <2>5. Bits(i)' = Bits(i)
    BY <2>1, <2>3, <2>4 DEF Bits, BitsAt
  <2> QED BY <2>1, <2>3, <2>4, <2>5, PlainIdle
<1>10. CASE EvalOutput(i, tape[p])
  <2>1. ~ waiting[i] /\ Done(i) /\ waiting' = waiting
    BY <1>4, <1>10 DEF EvalOutput
  <2>2. Reached(i)' = p + 1
    BY <1>1, <1>2, <2>1, ReachedNext
  <2> QED BY <1>1, <1>2, <1>3, <1>10, <2>1, <2>2, PlainReveals
<1> QED BY <1>1, <1>5, <1>6, <1>7, <1>8, <1>9, <1>10 DEF EvalStep

(* A step that leaves what the party sees alone.                            *)
LEMMA StepIdle ==
  ASSUME NEW i, tape' = tape, epc'[i] = epc[i], waiting'[i] = waiting[i], external'[i] = external[i],
         outputs'[i] = outputs[i], hmask'[Reached(i)] = hmask[Reached(i)]
  PROVE  P(i)!vars' = P(i)!vars
<1>1. Reached(i)' = Reached(i)
  BY DEF Reached
<1>2. Bits(i)' = Bits(i)
  <2>1. Bits(i)' = [r \in Reg |-> hmask'[Reached(i)'][r] # external'[i][r]]
    BY DEF Bits, BitsAt
  <2> QED BY <1>1, <2>1 DEF Bits, BitsAt
<1> QED BY <1>1, <1>2, PlainIdle

LEMMA StepRefines ==
  ASSUME IInv, [Next]_vars, NEW i \in Party
  PROVE  [P(i)!Next]_(P(i)!vars)
<1>1. CASE RandomStep
  <2>1. /\ tape' = tape /\ epc' = epc /\ waiting' = waiting /\ external' = external /\ outputs' = outputs
        /\ ~ Ended(rpc) /\ hmask' = [hmask EXCEPT ![rpc + 1] = rmask']
    BY <1>1 DEF RandomStep, eval
  <2>2. Reached(i) = 1 /\ rpc \in Positions /\ tape \in Tapes
    BY <2>1, Before
  <2>3. rpc + 1 # 1 /\ 1 \in Positions
    BY <2>2, PositionFacts
  <2>4. DOMAIN hmask = Positions
    BY DEF IInv, Types
  <2>5. hmask'[Reached(i)] = hmask[Reached(i)]
    BY <2>1, <2>2, <2>3, <2>4
  <2> QED BY <2>1, <2>5, StepIdle
<1>2. CASE GarbleStep
  <2>1. /\ tape' = tape /\ epc' = epc /\ waiting' = waiting /\ external' = external /\ outputs' = outputs
        /\ hmask' = hmask
    BY <1>2 DEF GarbleStep, history
  <2> QED BY <2>1, StepIdle
<1>3. ASSUME NEW j \in Party, PrfStep(j) PROVE [P(i)!Next]_(P(i)!vars)
  <2>1. /\ tape' = tape /\ epc' = epc /\ waiting' = waiting /\ external' = external /\ outputs' = outputs
        /\ hmask' = hmask
    BY <1>3 DEF PrfStep, eval, history
  <2> QED BY <2>1, StepIdle
<1>4. ASSUME NEW j \in Party, EvalStep(j) PROVE [P(i)!Next]_(P(i)!vars)
  <2>1. CASE i = j
    BY <1>4, <2>1, EvalRefines
  <2>2. CASE i # j
    <3>1. tape' = tape /\ hmask' = hmask
      BY <1>4 DEF EvalStep, history
    <3>2. /\ external'[i] = external[i] /\ epc'[i] = epc[i] /\ waiting'[i] = waiting[i]
          /\ outputs'[i] = outputs[i]
      BY <1>4, <2>2, OthersKeep
    <3> QED BY <3>1, <3>2, StepIdle
  <2> QED BY <2>1, <2>2
<1>5. CASE UNCHANGED vars
  <2>1. /\ tape' = tape /\ epc' = epc /\ waiting' = waiting /\ external' = external /\ outputs' = outputs
        /\ hmask' = hmask
    BY <1>5 DEF vars, eval, history
  <2> QED BY <2>1, StepIdle
<1> QED BY <1>1, <1>2, <1>3, <1>4, <1>5 DEF Next

(* Every party starts as the plain circuit does.                            *)
LEMMA InitRefines ==
  ASSUME Init, NEW i \in Party
  PROVE  P(i)!Init
<1>1. tape \in Tapes /\ epc[i] = 1 /\ waiting[i] = FALSE /\ outputs[i] = <<>>
  BY DEF Init, Each
<1>2. Reached(i) = 1
  BY <1>1 DEF Reached
<1>3. Plain(i).pc = 1 /\ Plain(i).val = Bits(i)
  BY <1>2, PlainIs
<1>4. Bits(i) \in [Reg -> BOOLEAN]
  BY DEF Bits, BitsAt
<1>5. PlainTape(tape) \in {PlainTape(t) : t \in Tapes}
  BY <1>1
<1> QED BY <1>1, <1>3, <1>4, <1>5 DEF P!Init

(* Every party's wires hold, and every party outputs, the bits of running   *)
(* the program on plain bits.                                               *)
THEOREM Implementation == Spec => EvaluatesThePlainCircuit
<1>1. Init => \A i \in Party : P(i)!Init
  BY InitRefines
<1>2. IInv /\ [Next]_vars => \A i \in Party : [P(i)!Next]_(P(i)!vars)
  BY StepRefines
<1> QED BY <1>1, <1>2, Invariance, PTL DEF Spec, EvaluatesThePlainCircuit
=============================================================================
