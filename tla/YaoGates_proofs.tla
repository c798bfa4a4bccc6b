--------------------------- MODULE YaoGates_proofs ---------------------------
(* For every set of registers, every set of well-formed tapes and every     *)
(* batching limit: the evaluator's wires always match the garbler's, and    *)
(* the protocol implements the plain circuit.                               *)
EXTENDS YaoGates, TLAPS

-----------------------------------------------------------------------------
(* The algebra of keys.                                                     *)

(* Adding a key twice cancels it: decryption undoes encryption.             *)
LEMMA AddCancels == \A a, b : Add(Add(a, b), b) = a
  BY DEF Add

(* Adding the empty key changes nothing.                                    *)
LEMMA AddZero == \A a : Add(a, {}) = a
  BY DEF Add

(* The sum of two keys each offset by an optional Delta is the sum of the   *)
(* keys offset by the exclusive or of the options (free XOR).               *)
LEMMA AddDeltas ==
  ASSUME NEW a, NEW b, NEW x \in BOOLEAN, NEW y \in BOOLEAN
  PROVE  Add(Add(a, DeltaIf(x)), Add(b, DeltaIf(y))) = Add(Add(a, b), DeltaIf(x # y))
  BY DEF Add, DeltaIf

(* The signal of a clean key offset by an optional Delta is that option.    *)
LEMMA SignalOfOffset ==
  ASSUME NEW k, ~ Signal(k), NEW x \in BOOLEAN
  PROVE  Signal(Add(k, DeltaIf(x))) = x
  BY DEF Signal, Add, DeltaIf, Delta

(* Fresh keys are clean, and so are sums of clean keys.                     *)
LEMMA CleanKeys ==
  /\ ~ Signal({})
  /\ \A T : ~ Signal(FreshKey(T))
  /\ \A a, b : ~ Signal(a) /\ ~ Signal(b) => ~ Signal(Add(a, b))
  BY DEF Signal, FreshKey, Add

(* Evaluating a garbled gate under one key of each input yields the output  *)
(* key, offset by Delta according to the plain AND and the output mask.     *)
LEMMA GateDecrypts ==
  ASSUME NEW k, NEW m \in BOOLEAN, NEW lk, NEW lm \in BOOLEAN, NEW rk, NEW rm \in BOOLEAN,
         NEW T, NEW x \in BOOLEAN, NEW y \in BOOLEAN
  PROVE  EvalGate(GarbleGate(k, m, lk, lm, rk, rm, T),
                  Add(lk, DeltaIf(x)), x, Add(rk, DeltaIf(y)), y, T)
         = Add(k, DeltaIf(((x # lm) /\ (y # rm)) # m))
  <1> DEFINE g == GarbleGate(k, m, lk, lm, rk, rm, T)
             h == Hash(Add(lk, DeltaIf(x)), Add(rk, DeltaIf(y)), T)
             o == Add(k, DeltaIf(((x # lm) /\ (y # rm)) # m))
  <1>1. g[x][y] = Add(o, h)
    BY DEF GarbleGate
  <1>2. EvalGate(g, Add(lk, DeltaIf(x)), x, Add(rk, DeltaIf(y)), y, T) = Add(g[x][y], h)
    BY DEF EvalGate
  <1> HIDE DEF g, h, o
  <1>3. Add(g[x][y], h) = o
    BY <1>1, AddCancels
  <1>4. QED
    BY <1>2, <1>3 DEF g, o

-----------------------------------------------------------------------------
(* Streams of elements of no particular set.                                *)
IsSeq(s) == \E S : s \in Seq(S)

(* Appending keeps what is there and adds one element at the end.           *)
LEMMA AppendFacts ==
  ASSUME NEW s, NEW e, IsSeq(s)
  PROVE  /\ IsSeq(Append(s, e))
         /\ Len(s) \in Nat
         /\ Len(Append(s, e)) = Len(s) + 1
         /\ \A k \in 1 .. Len(s) : Append(s, e)[k] = s[k]
         /\ Append(s, e)[Len(s) + 1] = e
  <1>1. PICK S : s \in Seq(S)
    BY DEF IsSeq
  <1>2. s \in Seq(S \cup {e}) /\ e \in S \cup {e}
    BY <1>1
  <1>3. Append(s, e) \in Seq(S \cup {e})
    BY <1>2
  <1>4. QED
    BY <1>2, <1>3 DEF IsSeq

(* Removing the head shifts the rest by one.                                *)
LEMMA TailFacts ==
  ASSUME NEW s, IsSeq(s), s # <<>>
  PROVE  /\ IsSeq(Tail(s))
         /\ Len(s) \in Nat
         /\ Len(Tail(s)) = Len(s) - 1
         /\ Head(s) = s[1]
         /\ \A k \in 1 .. Len(s) - 1 : Tail(s)[k] = s[k + 1]
  <1>1. PICK S : s \in Seq(S)
    BY DEF IsSeq
  <1>2. Tail(s) \in Seq(S)
    BY <1>1
  <1>3. QED
    BY <1>1, <1>2 DEF IsSeq

-----------------------------------------------------------------------------
(* What a well-formed tape gives at one position.                           *)
LEMMA TapeFacts ==
  ASSUME NEW t \in Tapes, NEW p \in DOMAIN t
  PROVE  /\ t \in Seq(Entry) /\ Len(t) \in Nat /\ DOMAIN t = 1 .. Len(t)
         /\ p \in Nat /\ p >= 1 /\ p <= Len(t)
         /\ t[p] \in Entry
         /\ Uses(t[p]) \subseteq Defined(t, p)
         /\ \A q \in DOMAIN t : SameInstruction(t, p, q) => t[q].out \notin Uses(t[p])
  <1>1. WellFormed(t)
    BY TapesAssumption
  <1>2. t \in Seq(Entry)
    BY <1>1 DEF WellFormed
  <1>3. Len(t) \in Nat /\ DOMAIN t = 1 .. Len(t) /\ t[p] \in Entry
    BY <1>2
  <1>4. p \in Nat /\ p >= 1 /\ p <= Len(t)
    BY <1>3
  <1>5. Uses(t[p]) \subseteq Defined(t, p)
    BY <1>1 DEF WellFormed, DefinedBeforeUse
  <1>6. \A q \in DOMAIN t : SameInstruction(t, p, q) => t[q].out \notin Uses(t[p])
    BY <1>1 DEF WellFormed, NoAlias
  <1>7. QED
    BY <1>2, <1>3, <1>4, <1>5, <1>6

(* Executing an entry defines its output and nothing else.                  *)
LEMMA DefinedGrows ==
  ASSUME NEW t \in Tapes, NEW p \in DOMAIN t
  PROVE  /\ Defined(t, p) \subseteq Reg
         /\ Writes(t[p]) => Defined(t, p + 1) = Defined(t, p) \cup {t[p].out}
         /\ ~ Writes(t[p]) => Defined(t, p + 1) = Defined(t, p)
  <1>1. p \in Nat /\ p >= 1 /\ t[p] \in Entry
    BY TapeFacts
  <1>2. t[p].out \in Reg
    BY <1>1 DEF Entry
  <1>3. 1 .. (p + 1) - 1 = (1 .. p - 1) \cup {p}
    BY <1>1
  <1>4. QED
    BY <1>2, <1>3 DEF Defined

(* Inside a batch the previous entry belongs to the same instruction, and    *)
(* so do, for both, the same earlier entries.                               *)
LEMMA BatchFacts ==
  ASSUME NEW t \in Tapes, NEW p \in DOMAIN t, t[p].op = "and", t[p].i > 1
  PROVE  /\ p - 1 \in DOMAIN t /\ p - 1 \in Nat
         /\ t[p - 1].op = "and" /\ t[p - 1].n = t[p].n
         /\ SameInstruction(t, p - 1, p)
         /\ \A q \in 1 .. p - 2 : SameInstruction(t, q, p - 1) => SameInstruction(t, q, p)
         /\ t[p - 1].i = 1 \/ t[p - 1].i > 1
  <1>1. WellFormed(t)
    BY TapesAssumption
  <1>2. /\ p - 1 \in DOMAIN t
        /\ t[p - 1].op = "and" /\ t[p - 1].i + 1 = t[p].i /\ t[p - 1].n = t[p].n
    BY <1>1 DEF WellFormed, Consecutive
  <1>3. p \in Nat /\ t[p] \in Entry /\ t[p - 1] \in Entry /\ p - 1 \in Nat
    BY <1>2, TapeFacts
  <1>4. t[p].i \in Nat /\ t[p - 1].i \in Nat /\ t[p - 1].i >= 1
    BY <1>3 DEF Entry
  <1>5. p - 1 - t[p - 1].i = p - t[p].i
    BY <1>2, <1>3, <1>4
  <1>6. QED
    BY <1>2, <1>3, <1>4, <1>5 DEF SameInstruction

-----------------------------------------------------------------------------
(* IInv with the facts TLC cannot evaluate.                                 *)
PInv ==
  /\ IInv
  /\ tape \in Tapes
  /\ IsSeq(gates)
  /\ IsSeq(output_masks)

(* Positions of a tape are its entries and the one after the last.          *)
LEMMA PositionFacts ==
  ASSUME NEW t \in Tapes
  PROVE  /\ t \in Seq(Entry) /\ Len(t) \in Nat /\ DOMAIN t = 1 .. Len(t)
         /\ 1 \in Positions(t)
         /\ \A p \in DOMAIN t : p \in Positions(t) /\ p + 1 \in Positions(t)
         /\ \A p \in Positions(t) : p \in Nat /\ p >= 1
  <1>1. t \in Seq(Entry)
    BY TapesAssumption DEF WellFormed
  <1>2. Len(t) \in Nat /\ DOMAIN t = 1 .. Len(t)
    BY <1>1
  <1>3. QED
    BY <1>1, <1>2 DEF Positions

(* The initial state satisfies the invariant.                               *)
LEMMA InitPInv == Init => PInv
  <1> SUFFICES ASSUME Init PROVE PInv
    OBVIOUS
  <1>1. tape \in Tapes /\ gpc = 1 /\ epc = 1
    BY DEF Init
  <1>2. /\ tape \in Seq(Entry) /\ Len(tape) \in Nat
        /\ 1 \in Positions(tape)
    BY <1>1, PositionFacts
  <1>3. TypeOK
    BY <1>1, <1>2 DEF Init, TypeOK, Positions
  <1>4. HistoryOK
    <2>1. hctr[1] = 0 /\ hout[1] = 0 /\ hkey[1] = gkey /\ hmask[1] = gmask
      BY <1>2 DEF Init
    <2>2. 1 .. gpc - 1 = {} /\ 1 .. gpc = {1}
      BY <1>1
    <2>3. QED
      BY <1>1, <2>1, <2>2 DEF HistoryOK
  <1>5. KeysClean
    <2>1. 1 .. gpc = {1}
      BY <1>1
    <2>2. hkey[1] = [r \in Reg |-> {}]
      BY <1>2 DEF Init
    <2>3. QED
      BY <2>1, <2>2, CleanKeys DEF KeysClean
  <1>6. LabelsOK(gpc, glabels, gkey, GarblerBatchMin) /\ LabelsOK(epc, elabels, ekey, EvaluatorBatchMin)
    BY DEF LabelsOK, Init
  <1>7. gates = <<>> /\ output_masks = <<>>
    BY DEF Init
  <1>8. StreamsInStep
    <2>1. epc .. gpc - 1 = {}
      BY <1>1
    <2>2. hctr[1] = 0 /\ hout[1] = 0 /\ gcounter = 0 /\ ecounter = 0
      BY <1>2 DEF Init
    <2>3. QED
      BY <1>1, <1>7, <2>1, <2>2 DEF StreamsInStep
  <1>9. WireCorrect
    <2>1. 1 .. epc - 1 = {}
      BY <1>1
    <2>2. Defined(tape, epc) = {}
      BY <2>1 DEF Defined
    <2>3. QED
      BY <2>2 DEF WireCorrect
  <1>10. IsSeq(gates) /\ IsSeq(output_masks)
    BY <1>7 DEF IsSeq
  <1>11. QED
    BY <1>1, <1>3, <1>4, <1>5, <1>6, <1>8, <1>9, <1>10 DEF PInv, IInv

-----------------------------------------------------------------------------
(* One step of the garbler.                                                 *)

(* Where the garbler stands, and what it leaves alone.                      *)
LEMMA GarblerFrame ==
  ASSUME PInv, GarblerStep
  PROVE  /\ tape' = tape /\ gpc \in DOMAIN tape /\ gpc' = gpc + 1
         /\ gpc \in Nat /\ gpc >= 1 /\ gpc + 1 \in Positions(tape)
         /\ epc \in Nat /\ epc >= 1 /\ epc <= gpc
         /\ tape[gpc] \in Entry
         /\ gpc \in Positions(tape)
         /\ UNCHANGED evaluator
  <1>1. tape' = tape /\ gpc \in DOMAIN tape /\ gpc' = gpc + 1 /\ UNCHANGED evaluator
    BY DEF GarblerStep
  <1>2. tape \in Tapes /\ epc \in Positions(tape) /\ epc <= gpc
    BY DEF PInv, IInv, TypeOK
  <1>3. /\ gpc \in Nat /\ gpc >= 1 /\ gpc + 1 \in Positions(tape) /\ gpc \in Positions(tape)
        /\ epc \in Nat /\ epc >= 1
    BY <1>1, <1>2, PositionFacts
  <1>4. tape[gpc] \in Entry
    BY <1>1, <1>2, TapeFacts
  <1>5. QED
    BY <1>1, <1>2, <1>3, <1>4

(* The history grows by the new position and is otherwise unchanged.        *)
LEMMA GarblerHistory ==
  ASSUME PInv, GarblerStep
  PROVE  /\ \A p \in 1 .. gpc : /\ hkey'[p] = hkey[p] /\ hmask'[p] = hmask[p]
                                /\ hctr'[p] = hctr[p] /\ hout'[p] = hout[p]
         /\ hkey'[gpc + 1] = gkey' /\ hmask'[gpc + 1] = gmask'
         /\ hctr'[gpc + 1] = gcounter'
         /\ hout'[gpc + 1] = hout[gpc] + (IF tape[gpc].op = "reveal" THEN 1 ELSE 0)
  <1>1. Remember
    BY DEF GarblerStep
  <1>2. gpc \in Nat /\ gpc + 1 \in Positions(tape)
    BY GarblerFrame
  <1>3. /\ DOMAIN hkey = Positions(tape)
        /\ hmask \in [Positions(tape) -> [Reg -> BOOLEAN]]
        /\ hctr \in [Positions(tape) -> Nat] /\ hout \in [Positions(tape) -> Nat]
    BY DEF PInv, IInv, TypeOK
  <1>4. \A p \in 1 .. gpc : p \in Positions(tape) /\ p # gpc + 1
    <2>1. Len(tape) \in Nat
      BY PositionFacts DEF PInv
    <2>2. QED
      BY <1>2, <2>1 DEF Positions
  <1>5. \A p \in 1 .. gpc : hkey'[p] = hkey[p]
    BY <1>1, <1>3, <1>4 DEF Remember
  <1>6. \A p \in 1 .. gpc : hmask'[p] = hmask[p]
    BY <1>1, <1>3, <1>4 DEF Remember
  <1>7. \A p \in 1 .. gpc : hctr'[p] = hctr[p] /\ hout'[p] = hout[p]
    BY <1>1, <1>3, <1>4 DEF Remember
  <1>8. /\ hkey'[gpc + 1] = gkey' /\ hmask'[gpc + 1] = gmask'
        /\ hctr'[gpc + 1] = gcounter'
        /\ hout'[gpc + 1] = hout[gpc] + (IF tape[gpc].op = "reveal" THEN 1 ELSE 0)
    BY <1>1, <1>2, <1>3 DEF Remember
  <1>9. QED
    BY <1>5, <1>6, <1>7, <1>8

(* The types are preserved.                                                 *)
LEMMA GarblerType ==
  ASSUME PInv, GarblerStep
  PROVE  TypeOK'
  <1> DEFINE e == tape[gpc]
  <1>1. TypeOK /\ tape \in Tapes /\ IsSeq(gates) /\ IsSeq(output_masks)
    BY DEF PInv, IInv
  <1>2. /\ tape' = tape /\ gpc' = gpc + 1 /\ gpc + 1 \in Positions(tape)
        /\ gpc \in Positions(tape)
        /\ e \in Entry /\ UNCHANGED evaluator /\ gpc \in Nat /\ epc <= gpc /\ epc \in Nat
    BY GarblerFrame
  <1>3. Positions(tape)' = Positions(tape)
    BY <1>2 DEF Positions
  <1>4. /\ e.out \in Reg /\ e.left \in Reg /\ e.right \in Reg /\ e.val \in BOOLEAN
    BY <1>2 DEF Entry
  <1>5. Garble(e) /\ Remember
    BY DEF GarblerStep
  <1>6. /\ gmask' \in [Reg -> BOOLEAN] /\ DOMAIN gkey' = Reg /\ DOMAIN glabels' = Reg
        /\ gcounter' \in Nat
        /\ IsSeq(gates)' /\ IsSeq(output_masks)'
    <2> HIDE DEF e
    <2>0. /\ gmask \in [Reg -> BOOLEAN] /\ DOMAIN gkey = Reg /\ DOMAIN glabels = Reg
          /\ gcounter \in Nat
      BY <1>1 DEF TypeOK
    <2>1. CASE GarbleLinear(e)
      BY <1>1, <1>4, <2>0, <2>1 DEF GarbleLinear, GarbleWire
    <2>2. CASE GarbleAnd(e)
      <3>1. PICK m \in BOOLEAN :
               /\ gmask' = [gmask EXCEPT ![e.out] = m]
               /\ gkey' = [gkey EXCEPT ![e.out] = FreshKey(gcounter + 1)]
               /\ glabels' = GLabels(e, [gkey EXCEPT ![e.out] = FreshKey(gcounter + 1)])
               /\ gcounter' = gcounter + 1
               /\ \E g : gates' = Append(gates, g)
               /\ output_masks' = output_masks
        BY <2>2 DEF GarbleAnd
      <3>2. IsSeq(gates)' /\ IsSeq(output_masks)'
        BY <3>1, <1>1, AppendFacts
      <3>3. DOMAIN glabels' = Reg
        BY <3>1, <2>0 DEF GLabels
      <3>4. QED
        BY <3>1, <3>2, <3>3, <2>0, <1>4
    <2>3. CASE GarbleReveal(e)
      <3>1. IsSeq(output_masks)'
        BY <2>3, <1>1, AppendFacts DEF GarbleReveal
      <3>2. QED
        BY <2>3, <1>1, <2>0, <3>1 DEF GarbleReveal
    <2>4. QED
      BY <1>5, <2>1, <2>2, <2>3 DEF Garble
  <1>7. Len(gates') \in Nat /\ Len(output_masks') \in Nat
    BY <1>6 DEF IsSeq
  <1>8. /\ DOMAIN hkey' = Positions(tape)
        /\ \A p \in Positions(tape) : DOMAIN hkey'[p] = Reg
    BY <1>1, <1>2, <1>5, <1>6 DEF Remember, TypeOK
  <1>9. /\ hmask' \in [Positions(tape) -> [Reg -> BOOLEAN]]
        /\ hctr' \in [Positions(tape) -> Nat]
        /\ hout' \in [Positions(tape) -> Nat]
    <2>1. /\ hmask \in [Positions(tape) -> [Reg -> BOOLEAN]]
          /\ hctr \in [Positions(tape) -> Nat]
          /\ hout \in [Positions(tape) -> Nat]
      BY <1>1 DEF TypeOK
    <2>2. hmask' \in [Positions(tape) -> [Reg -> BOOLEAN]]
      BY <2>1, <1>2, <1>5, <1>6 DEF Remember
    <2>3. hctr' \in [Positions(tape) -> Nat]
      BY <2>1, <1>2, <1>5, <1>6 DEF Remember
    <2>4. hout[gpc] + (IF tape[gpc].op = "reveal" THEN 1 ELSE 0) \in Nat
      BY <2>1, <1>2
    <2>5. hout' \in [Positions(tape) -> Nat]
      BY <2>1, <2>4, <1>2, <1>5 DEF Remember
    <2>6. QED
      BY <2>2, <2>3, <2>5
  <1>10. /\ epc' \in Positions(tape) /\ epc' <= gpc'
         /\ DOMAIN ekey' = Reg /\ DOMAIN elabels' = Reg
         /\ eext' \in [Reg -> BOOLEAN] /\ ecounter' \in Nat /\ outputs' \in Seq(BOOLEAN)
         /\ tape' \in Seq(Entry)
    BY <1>1, <1>2 DEF TypeOK, evaluator
  <1>11. QED
    BY <1>2, <1>3, <1>6, <1>7, <1>8, <1>9, <1>10 DEF TypeOK

(* What the step did, entry by entry, in terms of the history.              *)
LEMMA GarblerHistoryOK ==
  ASSUME PInv, GarblerStep
  PROVE  HistoryOK'
  <1> DEFINE e == tape[gpc]
  <1>1. TypeOK /\ HistoryOK
    BY DEF PInv, IInv
  <1>2. /\ tape' = tape /\ gpc' = gpc + 1 /\ gpc \in Nat /\ gpc >= 1 /\ e \in Entry
        /\ gpc \in Positions(tape)
    BY GarblerFrame
  <1>3. /\ \A p \in 1 .. gpc : /\ hkey'[p] = hkey[p] /\ hmask'[p] = hmask[p]
                               /\ hctr'[p] = hctr[p] /\ hout'[p] = hout[p]
        /\ hkey'[gpc + 1] = gkey' /\ hmask'[gpc + 1] = gmask'
        /\ hctr'[gpc + 1] = gcounter'
        /\ hout'[gpc + 1] = hout[gpc] + (IF e.op = "reveal" THEN 1 ELSE 0)
    BY GarblerHistory
  <1>4. hkey[gpc] = gkey /\ hmask[gpc] = gmask /\ hctr[gpc] = gcounter
    BY DEF PInv, IInv, HistoryOK, StreamsInStep
  <1>5. hctr \in [Positions(tape) -> Nat] /\ hout \in [Positions(tape) -> Nat]
    BY <1>1 DEF TypeOK
  <1>6. gcounter' = gcounter + (IF e.op = "and" THEN 1 ELSE 0) /\ gcounter \in Nat
    BY <1>1 DEF GarblerStep, Garble, GarbleLinear, GarbleAnd, GarbleReveal, TypeOK
  <1>7. ASSUME NEW p \in Nat, p = gpc PROVE HistoryStep(p)'
    <2>1. (hkey'[gpc] = gkey) /\ (hmask'[gpc] = gmask) /\ hctr'[gpc] = gcounter /\ hout'[gpc] = hout[gpc]
      BY <1>2, <1>3, <1>4
    <2>2. Garble(e) /\ DOMAIN gkey = Reg /\ gmask \in [Reg -> BOOLEAN]
      BY <1>1 DEF GarblerStep, TypeOK
    <2>3. e.out \in Reg /\ e.left \in Reg /\ e.right \in Reg /\ e.val \in BOOLEAN
      BY <1>2 DEF Entry
    <2>4. ~ Writes(e) => gkey' = gkey /\ gmask' = gmask
      BY <2>2 DEF Garble, GarbleLinear, GarbleAnd, GarbleReveal, Writes
    <2>5. Writes(e) => \A r \in Reg \ {e.out} : gkey'[r] = gkey[r] /\ gmask'[r] = gmask[r]
      <3> HIDE DEF e
      <3>1. CASE GarbleLinear(e)
        BY <2>2, <2>3, <3>1 DEF GarbleLinear, GarbleWire
      <3>2. CASE GarbleAnd(e)
        BY <2>2, <2>3, <3>2 DEF GarbleAnd
      <3>3. CASE GarbleReveal(e)
        BY <3>3 DEF GarbleReveal
      <3>4. QED
        BY <2>2, <3>1, <3>2, <3>3 DEF Garble
    <2>6. e.op \in {"public", "random", "xor", "copy"} => GarbleLinear(e)
      BY <2>2 DEF Garble, GarbleAnd, GarbleReveal
    <2>7. e.op = "public" => gkey'[e.out] = {} /\ gmask'[e.out] = e.val
      BY <2>2, <2>3, <2>6 DEF GarbleLinear, GarbleWire
    <2>8. e.op = "random" => gkey'[e.out] = {}
      BY <2>2, <2>3, <2>6 DEF GarbleLinear, GarbleWire
    <2>9. e.op = "copy" => gkey'[e.out] = gkey[e.left] /\ gmask'[e.out] = gmask[e.left]
      BY <2>2, <2>3, <2>6 DEF GarbleLinear, GarbleWire
    <2>10. e.op = "xor" => /\ gkey'[e.out] = Add(gkey[e.left], gkey[e.right])
                           /\ gmask'[e.out] = (gmask[e.left] # gmask[e.right])
      BY <2>2, <2>3, <2>6 DEF GarbleLinear, GarbleWire
    <2>13. e.op = "and" => gkey'[e.out] = FreshKey(gcounter')
      <3>1. e.op = "and" => GarbleAnd(e)
        BY <2>2 DEF Garble, GarbleLinear, GarbleReveal
      <3> HIDE DEF e
      <3>2. QED
        BY <2>2, <2>3, <3>1 DEF GarbleAnd
    <2>11. /\ hkey'[p] = gkey /\ hmask'[p] = gmask /\ hctr'[p] = gcounter /\ hout'[p] = hout[gpc]
           /\ hkey'[p + 1] = gkey' /\ hmask'[p + 1] = gmask' /\ hctr'[p + 1] = gcounter'
           /\ hout'[p + 1] = hout[gpc] + (IF e.op = "reveal" THEN 1 ELSE 0)
           /\ tape'[p] = e
      BY <1>2, <1>3, <1>7, <2>1
    <2> HIDE DEF e
    <2>12. QED
      BY <1>6, <2>4, <2>5, <2>7, <2>8, <2>9, <2>10, <2>11, <2>13 DEF HistoryStep
  <1>8. \A p \in 1 .. gpc - 1 : HistoryStep(p)'
    <2> SUFFICES ASSUME NEW p \in 1 .. gpc - 1 PROVE HistoryStep(p)'
      OBVIOUS
    <2>1. p \in 1 .. gpc /\ p + 1 \in 1 .. gpc /\ HistoryStep(p)
      BY <1>1, <1>2 DEF HistoryOK
    <2>2. /\ hkey'[p] = hkey[p] /\ hmask'[p] = hmask[p]
          /\ hctr'[p] = hctr[p] /\ hout'[p] = hout[p]
          /\ hkey'[p + 1] = hkey[p + 1] /\ hmask'[p + 1] = hmask[p + 1]
          /\ hctr'[p + 1] = hctr[p + 1] /\ hout'[p + 1] = hout[p + 1]
      BY <1>3, <2>1
    <2>3. QED
      BY <1>2, <2>1, <2>2 DEF HistoryStep
  <1>9. \A p \in 1 .. gpc' - 1 : HistoryStep(p)'
    <2>1. 1 .. gpc' - 1 = (1 .. gpc - 1) \cup {gpc}
      BY <1>2
    <2>2. QED
      BY <1>2, <1>7, <1>8, <2>1
  <1>10. \A p, q \in 1 .. gpc' : p <= q => hctr'[p] <= hctr'[q] /\ hout'[p] <= hout'[q]
    <2> SUFFICES ASSUME NEW p \in 1 .. gpc + 1, NEW q \in 1 .. gpc + 1, p <= q
                 PROVE  hctr'[p] <= hctr'[q] /\ hout'[p] <= hout'[q]
      BY <1>2
    <2>1. \A r \in 1 .. gpc : hctr[r] <= hctr[gpc] /\ hout[r] <= hout[gpc]
      BY <1>1, <1>2 DEF HistoryOK
    <2>2. \A r \in 1 .. gpc : r \in Positions(tape)
      BY <1>2, PositionFacts DEF Positions, PInv
    <2>3. \A r \in 1 .. gpc : hctr[r] \in Nat /\ hout[r] \in Nat
      BY <2>2, <1>5
    <2>4. gpc \in 1 .. gpc
      BY <1>2
    <2>5. hctr'[gpc + 1] >= hctr[gpc] /\ hctr'[gpc + 1] \in Nat
      BY <1>3, <1>4, <1>6
    <2>6. hout'[gpc + 1] >= hout[gpc] /\ hout'[gpc + 1] \in Nat
      BY <1>3, <2>3, <2>4
    <2>7. CASE q = gpc + 1 /\ p # gpc + 1
      <3>1. p \in 1 .. gpc
        BY <1>2, <2>7
      <3>2. QED
        BY <1>3, <2>1, <2>3, <2>4, <2>5, <2>6, <2>7, <3>1
    <2>8. CASE p = gpc + 1
      <3>1. q = p
        BY <1>2, <2>8
      <3>2. QED
        BY <3>1, <2>5, <2>6, <2>8
    <2>9. CASE q # gpc + 1 /\ p # gpc + 1
      <3>1. p \in 1 .. gpc /\ q \in 1 .. gpc
        BY <1>2, <2>9
      <3>2. QED
        BY <1>1, <1>3, <3>1 DEF HistoryOK
    <2>10. QED
      BY <2>7, <2>8, <2>9
  <1>11. hkey'[gpc'] = gkey' /\ hmask'[gpc'] = gmask'
    BY <1>2, <1>3
  <1>12. QED
    BY <1>9, <1>10, <1>11 DEF HistoryOK

(* Every key the garbler writes has a clear signal bit.                     *)
LEMMA GarblerClean ==
  ASSUME PInv, GarblerStep
  PROVE  KeysClean'
  <1> DEFINE e == tape[gpc]
  <1>1. gpc' = gpc + 1 /\ gpc \in Nat /\ gpc >= 1 /\ e \in Entry
    BY GarblerFrame
  <1>2. /\ \A p \in 1 .. gpc : hkey'[p] = hkey[p]
        /\ hkey'[gpc + 1] = gkey'
    BY GarblerHistory
  <1>3. \A p \in 1 .. gpc : \A r \in Reg : ~ Signal(hkey[p][r])
    BY DEF PInv, IInv, KeysClean
  <1>4. hkey[gpc] = gkey /\ DOMAIN gkey = Reg
    BY DEF PInv, IInv, HistoryOK, TypeOK
  <1>5. \A r \in Reg : ~ Signal(gkey[r])
    <2>1. gpc \in 1 .. gpc
      BY <1>1
    <2>2. QED
      BY <1>3, <1>4, <2>1
  <1>6. ASSUME NEW r \in Reg PROVE ~ Signal(gkey'[r])
    <2>1. e.out \in Reg /\ e.left \in Reg /\ e.right \in Reg
      BY <1>1 DEF Entry
    <2>2. Garble(e)
      BY DEF GarblerStep
    <2> HIDE DEF e
    <2>3. CASE gkey'[r] = gkey[r]
      BY <1>5, <2>3
    <2>4. CASE gkey'[r] # gkey[r]
      <3>1. CASE GarbleLinear(e)
        BY <1>4, <1>5, <2>1, <2>4, <3>1, CleanKeys DEF GarbleLinear, GarbleWire
      <3>2. CASE GarbleAnd(e)
        BY <1>4, <1>5, <2>1, <2>4, <3>2, CleanKeys DEF GarbleAnd
      <3>3. CASE GarbleReveal(e)
        BY <2>4, <3>3 DEF GarbleReveal
      <3>4. QED
        BY <2>2, <3>1, <3>2, <3>3 DEF Garble
    <2>5. QED
      BY <2>3, <2>4
  <1>7. QED
    <2>1. 1 .. gpc' = (1 .. gpc) \cup {gpc + 1}
      BY <1>1
    <2>2. QED
      BY <1>2, <1>3, <1>6, <2>1 DEF KeysClean

(* The labels an AND is hashed under are the garbler's keys at its position,*)
(* for the two registers it reads.                                          *)
LEMMA LabelsAreKeys ==
  ASSUME NEW t \in Tapes, NEW p \in DOMAIN t, t = tape, t[p].op = "and", t[p].i > 1,
         NEW min, t[p].n >= min, NEW labels, NEW key, LabelsOK(p, labels, key, min),
         NEW r \in Reg, r \in Uses(t[p])
  PROVE  labels[r] = key[r]
  <1>1. \A q \in DOMAIN t : SameInstruction(t, p, q) => t[q].out \notin Uses(t[p])
    BY TapeFacts
  <1>2. \A q \in 1 .. p - 1 : q \in DOMAIN t
    BY TapeFacts
  <1>3. \A q \in 1 .. p - 1 : SameInstruction(tape, q, p) => SameInstruction(t, p, q)
    BY DEF SameInstruction
  <1>4. QED
    BY <1>1, <1>2, <1>3 DEF LabelsOK

(* Inside a batch, the labels stay valid for what the batch has not written.*)
LEMMA LabelsStep ==
  ASSUME NEW t \in Tapes, t = tape, NEW p \in DOMAIN t,
         NEW min, NEW labels, NEW key, NEW newlabels, NEW newkey,
         LabelsOK(p, labels, key, min),
         t[p].op = "and" /\ t[p].n >= min =>
            newlabels = (IF t[p].i = 1 THEN key ELSE labels),
         \A r \in Reg \ {t[p].out} : newkey[r] = key[r]
  PROVE  LabelsOK(p + 1, newlabels, newkey, min)
  <1> SUFFICES ASSUME p + 1 \in DOMAIN t, t[p + 1].op = "and", t[p + 1].i > 1,
                      t[p + 1].n >= min, NEW r \in Reg,
                      \A q \in 1 .. (p + 1) - 1 :
                         SameInstruction(t, q, p + 1) => t[q].out # r
               PROVE  newlabels[r] = newkey[r]
    BY DEF LabelsOK
  <1>1. p \in Nat /\ p >= 1 /\ (p + 1) - 1 = p
    BY TapeFacts
  <1>2. /\ t[p].op = "and" /\ t[p].n = t[p + 1].n
        /\ SameInstruction(t, p, p + 1)
        /\ \A q \in 1 .. p - 1 : SameInstruction(t, q, p) => SameInstruction(t, q, p + 1)
        /\ t[p].i = 1 \/ t[p].i > 1
    BY <1>1, BatchFacts
  <1>3. p \in 1 .. p /\ \A q \in 1 .. p - 1 : q \in 1 .. p
    BY <1>1
  <1>4. t[p].out # r /\ \A q \in 1 .. p - 1 : SameInstruction(t, q, p) => t[q].out # r
    BY <1>1, <1>2, <1>3
  <1>5. newkey[r] = key[r]
    BY <1>4
  <1>6. CASE t[p].i = 1
    BY <1>2, <1>5, <1>6
  <1>7. CASE t[p].i > 1
    <2>1. labels[r] = key[r]
      BY <1>2, <1>4, <1>7 DEF LabelsOK
    <2>2. t[p].i # 1
      <3>1. t[p].i \in Nat
        BY TapeFacts DEF Entry
      <3>2. QED
        BY <1>7, <3>1
    <2>3. QED
      BY <1>2, <1>5, <2>1, <2>2
  <1>8. QED
    BY <1>2, <1>6, <1>7

(* An ANDRS tuple does not write the registers it reads.                    *)
LEMMA OutNotUsed ==
  ASSUME NEW t \in Tapes, NEW p \in DOMAIN t, t[p].op = "and"
  PROVE  t[p].out \notin {t[p].left, t[p].right}
  <1>1. SameInstruction(t, p, p)
    BY DEF SameInstruction
  <1>2. Uses(t[p]) = {t[p].left, t[p].right}
    BY DEF Uses
  <1>3. QED
    BY <1>1, <1>2, TapeFacts

(* The gate garbled by a step, in terms of the history it leaves.           *)
LEMMA GarbledGate ==
  ASSUME PInv, GarblerStep, tape[gpc].op = "and"
  PROVE  /\ gates' = Append(gates, GarbleGate(
                gkey'[tape[gpc].out], gmask'[tape[gpc].out],
                gkey[tape[gpc].left], gmask[tape[gpc].left],
                gkey[tape[gpc].right], gmask[tape[gpc].right], gcounter'))
         /\ gcounter' = gcounter + 1
         /\ output_masks' = output_masks
         /\ LabelsOK(gpc + 1, glabels', gkey', GarblerBatchMin)
  <1> DEFINE e == tape[gpc]
             newkey == [gkey EXCEPT ![e.out] = FreshKey(gcounter + 1)]
             labels == GLabels(e, newkey)
  <1>1. /\ gpc \in DOMAIN tape /\ tape \in Tapes /\ e \in Entry
    BY GarblerFrame DEF PInv
  <1>2. e.out \in Reg /\ e.left \in Reg /\ e.right \in Reg /\ e.i \in Nat \ {0} /\ e.n \in Nat \ {0}
    BY <1>1 DEF Entry
  <1>3. DOMAIN gkey = Reg /\ gmask \in [Reg -> BOOLEAN] /\ gcounter \in Nat
        /\ LabelsOK(gpc, glabels, gkey, GarblerBatchMin)
    BY DEF PInv, IInv, TypeOK
  <1>4. e.out # e.left /\ e.out # e.right
    BY <1>1, OutNotUsed
  <1>5. newkey[e.left] = gkey[e.left] /\ newkey[e.right] = gkey[e.right]
        /\ newkey[e.out] = FreshKey(gcounter + 1)
    BY <1>2, <1>3, <1>4
  <1>6. e.op = "and" /\ {e.left, e.right} = Uses(e)
    BY DEF Uses
  <1>7. GarblerBatchMin \in Nat
    BY BatchMinAssumption
  <1>8. labels[e.left] = gkey[e.left] /\ labels[e.right] = gkey[e.right]
    <2>1. CASE e.n < GarblerBatchMin
      BY <1>5, <2>1 DEF GLabels
    <2>2. CASE ~(e.n < GarblerBatchMin) /\ e.i = 1
      BY <2>2 DEF GLabels
    <2>3. CASE ~(e.n < GarblerBatchMin) /\ e.i # 1
      <3>1. e.i > 1 /\ e.n >= GarblerBatchMin
        BY <1>2, <1>7, <2>3
      <3>2. glabels[e.left] = gkey[e.left] /\ glabels[e.right] = gkey[e.right]
        BY <1>1, <1>2, <1>3, <1>6, <3>1, LabelsAreKeys
      <3>3. QED
        BY <2>3, <3>2 DEF GLabels
    <2>4. QED
      BY <2>1, <2>2, <2>3
  <1>9. GarbleAnd(e)
    BY <1>6 DEF GarblerStep, Garble, GarbleLinear, GarbleReveal
  <1> HIDE DEF e
  <1>10. PICK m \in BOOLEAN :
           LET newmask == [gmask EXCEPT ![e.out] = m]
           IN /\ gkey' = newkey
              /\ gmask' = newmask
              /\ glabels' = labels
              /\ gcounter' = gcounter + 1
              /\ output_masks' = output_masks
              /\ gates' = Append(gates, GarbleGate(FreshKey(gcounter + 1), m,
                             labels[e.left], newmask[e.left],
                             labels[e.right], newmask[e.right], gcounter + 1))
    BY <1>9 DEF GarbleAnd
  <1> HIDE DEF newkey, labels
  <1>11. gmask'[e.out] = m /\ gmask'[e.left] = gmask[e.left] /\ gmask'[e.right] = gmask[e.right]
    BY <1>2, <1>3, <1>4, <1>10
  <1>12. gates' = Append(gates, GarbleGate(gkey'[e.out], gmask'[e.out],
                gkey[e.left], gmask[e.left], gkey[e.right], gmask[e.right], gcounter'))
    BY <1>5, <1>8, <1>10, <1>11
  <1>13. LabelsOK(gpc + 1, glabels', gkey', GarblerBatchMin)
    <2>1. e.n >= GarblerBatchMin => glabels' = (IF e.i = 1 THEN gkey ELSE glabels)
      BY <1>2, <1>7, <1>10 DEF labels, GLabels
    <2>2. \A r \in Reg \ {e.out} : gkey'[r] = gkey[r]
      BY <1>2, <1>3, <1>10 DEF newkey
    <2>3. QED
      BY <1>1, <1>3, <2>1, <2>2, LabelsStep DEF e
  <1>14. QED
    BY <1>10, <1>12, <1>13 DEF e

(* The labels of both players stay valid.                                   *)
LEMMA GarblerLabels ==
  ASSUME PInv, GarblerStep
  PROVE  LabelsOK(gpc, glabels, gkey, GarblerBatchMin)' /\ LabelsOK(epc, elabels, ekey, EvaluatorBatchMin)'
  <1>1. /\ gpc \in DOMAIN tape /\ tape \in Tapes /\ gpc' = gpc + 1 /\ tape' = tape
        /\ UNCHANGED evaluator
    BY GarblerFrame DEF PInv
  <1>2. LabelsOK(gpc, glabels, gkey, GarblerBatchMin) /\ LabelsOK(epc, elabels, ekey, EvaluatorBatchMin)
    BY DEF PInv, IInv
  <1>3. LabelsOK(gpc + 1, glabels', gkey', GarblerBatchMin)
    <2>1. CASE tape[gpc].op = "and"
      BY <2>1, GarbledGate
    <2>2. CASE tape[gpc].op # "and"
      <3>1. gpc + 1 \in DOMAIN tape /\ tape[gpc + 1].op = "and" => ~(tape[gpc + 1].i > 1)
        <4> SUFFICES ASSUME gpc + 1 \in DOMAIN tape, tape[gpc + 1].op = "and", tape[gpc + 1].i > 1
                     PROVE  FALSE
          OBVIOUS
        <4>1. tape[(gpc + 1) - 1].op = "and"
          BY <1>1, BatchFacts
        <4>2. (gpc + 1) - 1 = gpc
          BY <1>1, TapeFacts
        <4>3. QED
          BY <2>2, <4>1, <4>2
      <3>2. QED
        BY <3>1 DEF LabelsOK
    <2>3. QED
      BY <2>1, <2>2
  <1>4. LabelsOK(gpc, glabels, gkey, GarblerBatchMin)'
    BY <1>1, <1>3 DEF LabelsOK, SameInstruction
  <1>5. LabelsOK(epc, elabels, ekey, EvaluatorBatchMin)'
    BY <1>1, <1>2 DEF LabelsOK, SameInstruction, evaluator
  <1>6. QED
    BY <1>4, <1>5

(* What a step appends to the streams.                                      *)
LEMMA GarblerAppends ==
  ASSUME PInv, GarblerStep
  PROVE  /\ tape[gpc].op = "and" =>
              /\ gates' = Append(gates, GarbleGate(
                   hkey'[gpc + 1][tape[gpc].out], hmask'[gpc + 1][tape[gpc].out],
                   hkey'[gpc][tape[gpc].left], hmask'[gpc][tape[gpc].left],
                   hkey'[gpc][tape[gpc].right], hmask'[gpc][tape[gpc].right], hctr'[gpc + 1]))
              /\ output_masks' = output_masks /\ gcounter' = gcounter + 1
         /\ tape[gpc].op = "reveal" =>
              /\ output_masks' = Append(output_masks, hmask'[gpc][tape[gpc].left])
              /\ gates' = gates /\ gcounter' = gcounter
         /\ tape[gpc].op \notin {"and", "reveal"} =>
              gates' = gates /\ output_masks' = output_masks /\ gcounter' = gcounter
         /\ IsSeq(gates') /\ IsSeq(output_masks')
  <1>1. /\ hkey'[gpc] = gkey /\ hmask'[gpc] = gmask
        /\ hkey'[gpc + 1] = gkey' /\ hmask'[gpc + 1] = gmask' /\ hctr'[gpc + 1] = gcounter'
    <2>1. gpc \in 1 .. gpc
      BY GarblerFrame
    <2>2. hkey[gpc] = gkey /\ hmask[gpc] = gmask
      BY DEF PInv, IInv, HistoryOK
    <2>3. QED
      BY <2>1, <2>2, GarblerHistory
  <1>2. Garble(tape[gpc]) /\ IsSeq(gates) /\ IsSeq(output_masks)
    BY DEF GarblerStep, PInv
  <1>3. CASE tape[gpc].op = "and"
    <2>1. /\ gates' = Append(gates, GarbleGate(
                   gkey'[tape[gpc].out], gmask'[tape[gpc].out],
                   gkey[tape[gpc].left], gmask[tape[gpc].left],
                   gkey[tape[gpc].right], gmask[tape[gpc].right], gcounter'))
          /\ gcounter' = gcounter + 1
          /\ output_masks' = output_masks
      BY <1>3, GarbledGate
    <2>2. IsSeq(gates') /\ IsSeq(output_masks')
      BY <1>2, <2>1, AppendFacts
    <2>3. QED
      BY <1>1, <1>3, <2>1, <2>2
  <1>4. CASE tape[gpc].op = "reveal"
    <2>1. GarbleReveal(tape[gpc])
      BY <1>2, <1>4 DEF Garble, GarbleLinear, GarbleAnd
    <2>2. QED
      BY <1>1, <1>2, <1>4, <2>1, AppendFacts DEF GarbleReveal
  <1>5. CASE tape[gpc].op \notin {"and", "reveal"}
    <2>1. GarbleLinear(tape[gpc])
      BY <1>2, <1>5 DEF Garble, GarbleAnd, GarbleReveal
    <2>2. QED
      BY <1>2, <1>5, <2>1 DEF GarbleLinear
  <1>6. QED
    BY <1>3, <1>4, <1>5

(* Counted from any position b between the players, the gate and the mask    *)
(* of a later entry lie among those produced since b.                       *)
LEMMA StreamIndex ==
  ASSUME PInv, NEW b \in epc .. gpc, NEW p \in b .. gpc - 1
  PROVE  /\ p \in 1 .. gpc /\ p + 1 \in 1 .. gpc
         /\ tape[p].op = "and" => hctr[p + 1] - hctr[b] \in 1 .. hctr[gpc] - hctr[b]
         /\ tape[p].op = "reveal" => hout[p + 1] - hout[b] \in 1 .. hout[gpc] - hout[b]
         /\ hctr[p + 1] \in Nat /\ hout[p + 1] \in Nat
  <1>1. /\ tape \in Tapes /\ gpc \in Positions(tape) /\ epc \in Positions(tape)
        /\ hctr \in [Positions(tape) -> Nat] /\ hout \in [Positions(tape) -> Nat]
    BY DEF PInv, IInv, TypeOK
  <1>2. gpc \in Nat /\ epc \in Nat /\ epc >= 1 /\ p \in Nat /\ b \in Nat
    BY <1>1, PositionFacts
  <1>3. b \in 1 .. gpc /\ p \in 1 .. gpc /\ p + 1 \in 1 .. gpc /\ gpc \in 1 .. gpc
        /\ p \in 1 .. gpc - 1
    BY <1>2
  <1>4. p \in Positions(tape) /\ p + 1 \in Positions(tape) /\ b \in Positions(tape)
    <2>1. Len(tape) \in Nat
      BY <1>1, PositionFacts
    <2>2. QED
      BY <1>1, <1>2, <1>3, <2>1 DEF Positions
  <1>5. /\ hctr[b] <= hctr[p] /\ hctr[p + 1] <= hctr[gpc]
        /\ hout[b] <= hout[p] /\ hout[p + 1] <= hout[gpc]
        /\ HistoryStep(p)
    <2>1. HistoryOK
      BY DEF PInv, IInv
    <2>2. b <= p /\ p + 1 <= gpc
      BY <1>2
    <2>3. QED
      BY <1>3, <2>1, <2>2 DEF HistoryOK
  <1>6. /\ tape[p].op = "and" => hctr[p + 1] = hctr[p] + 1
        /\ tape[p].op = "reveal" => hout[p + 1] = hout[p] + 1
    BY <1>5 DEF HistoryStep
  <1>7. /\ hctr[b] \in Nat /\ hctr[p] \in Nat /\ hctr[p + 1] \in Nat /\ hctr[gpc] \in Nat
        /\ hout[b] \in Nat /\ hout[p] \in Nat /\ hout[p + 1] \in Nat /\ hout[gpc] \in Nat
    BY <1>1, <1>4
  <1>8. ASSUME tape[p].op = "and"
        PROVE  hctr[p + 1] - hctr[b] \in 1 .. hctr[gpc] - hctr[b]
    BY <1>5, <1>6, <1>7, <1>8
  <1>9. ASSUME tape[p].op = "reveal"
        PROVE  hout[p + 1] - hout[b] \in 1 .. hout[gpc] - hout[b]
    BY <1>5, <1>6, <1>7, <1>9
  <1>10. QED
    BY <1>3, <1>7, <1>8, <1>9

(* The streams stay in step: what the step appends is what its entry needs. *)
LEMMA GarblerStreams ==
  ASSUME PInv, GarblerStep
  PROVE  StreamsInStep'
  <1>1. /\ tape' = tape /\ gpc' = gpc + 1 /\ gpc \in Nat /\ gpc >= 1
        /\ epc \in Nat /\ epc >= 1 /\ epc <= gpc /\ epc' = epc /\ ecounter' = ecounter
        /\ gpc \in 1 .. gpc /\ epc \in 1 .. gpc
    BY GarblerFrame DEF evaluator
  <1>2. /\ \A p \in 1 .. gpc : /\ hkey'[p] = hkey[p] /\ hmask'[p] = hmask[p]
                               /\ hctr'[p] = hctr[p] /\ hout'[p] = hout[p]
        /\ hctr'[gpc + 1] = gcounter'
        /\ hout'[gpc + 1] = hout[gpc] + (IF tape[gpc].op = "reveal" THEN 1 ELSE 0)
    BY GarblerHistory
  <1>3. /\ ecounter = hctr[epc] /\ gcounter = hctr[gpc]
        /\ Len(gates) = gcounter - ecounter
        /\ Len(output_masks) = hout[gpc] - hout[epc]
        /\ IsSeq(gates) /\ IsSeq(output_masks)
    BY DEF PInv, IInv, StreamsInStep
  <1>4. gcounter \in Nat /\ ecounter \in Nat /\ hout[gpc] \in Nat /\ hout[epc] \in Nat
    BY DEF PInv, IInv, TypeOK
  <1>5. Len(gates) \in Nat /\ Len(output_masks) \in Nat
    BY <1>3, AppendFacts
  <1>6. /\ Len(gates') = gcounter' - ecounter
        /\ \A k \in 1 .. Len(gates) : gates'[k] = gates[k]
        /\ Len(output_masks') = hout'[gpc + 1] - hout[epc]
        /\ \A k \in 1 .. Len(output_masks) : output_masks'[k] = output_masks[k]
    <2>1. CASE tape[gpc].op = "and"
      <3>1. PICK g : gates' = Append(gates, g)
        BY <2>1, GarblerAppends
      <3>2. /\ Len(gates') = Len(gates) + 1
            /\ \A k \in 1 .. Len(gates) : gates'[k] = gates[k]
        BY <1>3, <3>1, AppendFacts
      <3>3. output_masks' = output_masks /\ gcounter' = gcounter + 1
        BY <2>1, GarblerAppends
      <3>4. Len(gates') = gcounter' - ecounter
        <4>1. Len(gates') = (gcounter - ecounter) + 1
          BY <1>3, <3>2
        <4>2. QED
          BY <1>4, <3>3, <4>1
      <3>5. hout'[gpc + 1] = hout[gpc]
        BY <1>2, <1>4, <2>1
      <3>6. QED
        BY <1>3, <3>2, <3>3, <3>4, <3>5
    <2>2. CASE tape[gpc].op = "reveal"
      <3>1. PICK m : output_masks' = Append(output_masks, m)
        BY <2>2, GarblerAppends
      <3>2. /\ Len(output_masks') = Len(output_masks) + 1
            /\ \A k \in 1 .. Len(output_masks) : output_masks'[k] = output_masks[k]
        BY <1>3, <3>1, AppendFacts
      <3>3. gates' = gates /\ gcounter' = gcounter
        BY <2>2, GarblerAppends
      <3>4. hout'[gpc + 1] = hout[gpc] + 1
        BY <1>2, <2>2
      <3>5. Len(output_masks') = hout'[gpc + 1] - hout[epc]
        BY <1>3, <1>4, <3>2, <3>4
      <3>6. QED
        BY <1>3, <3>2, <3>3, <3>5
    <2>3. CASE tape[gpc].op \notin {"and", "reveal"}
      BY <1>2, <1>3, <1>4, <2>3, GarblerAppends
    <2>4. QED
      BY <2>1, <2>2, <2>3
  <1>7. ASSUME NEW p \in epc .. gpc - 1
        PROVE  /\ tape[p].op = "and" => gates'[hctr'[p + 1] - ecounter] = GateAt(p)'
               /\ tape[p].op = "reveal" =>
                    output_masks'[hout'[p + 1] - hout[epc]] = hmask'[p][tape[p].left]
    <2>1. /\ tape[p].op = "and" => gates[hctr[p + 1] - ecounter] = GateAt(p)
          /\ tape[p].op = "reveal" =>
               output_masks[hout[p + 1] - hout[epc]] = hmask[p][tape[p].left]
      BY DEF PInv, IInv, StreamsInStep
    <2>2. /\ p \in 1 .. gpc /\ p + 1 \in 1 .. gpc
          /\ tape[p].op = "and" => hctr[p + 1] - ecounter \in 1 .. Len(gates)
          /\ tape[p].op = "reveal" => hout[p + 1] - hout[epc] \in 1 .. Len(output_masks)
      <3>1. epc \in epc .. gpc
        BY <1>1
      <3>2. QED
        BY <1>3, <3>1, StreamIndex
    <2>3. /\ hkey'[p] = hkey[p] /\ hmask'[p] = hmask[p]
          /\ hkey'[p + 1] = hkey[p + 1] /\ hmask'[p + 1] = hmask[p + 1]
          /\ hctr'[p + 1] = hctr[p + 1] /\ hout'[p + 1] = hout[p + 1]
      BY <1>2, <2>2
    <2>4. GateAt(p)' = GateAt(p)
      BY <1>1, <2>3 DEF GateAt
    <2>5. QED
      BY <1>6, <2>1, <2>2, <2>3, <2>4
  <1>8. /\ tape[gpc].op = "and" => gates'[hctr'[gpc + 1] - ecounter] =
             GarbleGate(
                   hkey'[gpc + 1][tape[gpc].out], hmask'[gpc + 1][tape[gpc].out],
                   hkey'[gpc][tape[gpc].left], hmask'[gpc][tape[gpc].left],
                   hkey'[gpc][tape[gpc].right], hmask'[gpc][tape[gpc].right], hctr'[gpc + 1])
        /\ tape[gpc].op = "reveal" =>
             output_masks'[hout'[gpc + 1] - hout[epc]] = hmask'[gpc][tape[gpc].left]
    <2>1. CASE tape[gpc].op = "and"
      <3>1. hctr'[gpc + 1] - ecounter = Len(gates) + 1
        <4>1. hctr'[gpc + 1] = gcounter + 1
          BY <1>2, <2>1, GarblerAppends
        <4>2. (gcounter + 1) - ecounter = (gcounter - ecounter) + 1
          BY <1>4
        <4>3. QED
          BY <1>3, <4>1, <4>2
      <3>2. QED
        BY <1>3, <2>1, <3>1, GarblerAppends, AppendFacts
    <2>2. CASE tape[gpc].op = "reveal"
      <3>1. hout'[gpc + 1] - hout[epc] = Len(output_masks) + 1
        <4>1. hout'[gpc + 1] = hout[gpc] + 1
          BY <1>2, <2>2
        <4>2. (hout[gpc] + 1) - hout[epc] = (hout[gpc] - hout[epc]) + 1
          BY <1>4
        <4>3. QED
          BY <1>3, <4>1, <4>2
      <3>2. QED
        BY <1>3, <2>2, <3>1, GarblerAppends, AppendFacts
    <2>3. QED
      BY <2>1, <2>2
  <1>9. ASSUME NEW p \in epc .. gpc
        PROVE  /\ tape[p].op = "and" => gates'[hctr'[p + 1] - ecounter] = GateAt(p)'
               /\ tape[p].op = "reveal" =>
                    output_masks'[hout'[p + 1] - hout[epc]] = hmask'[p][tape[p].left]
    <2>1. CASE p = gpc
      BY <1>1, <1>8, <2>1 DEF GateAt
    <2>2. CASE p # gpc
      <3>1. p \in epc .. gpc - 1
        BY <1>1, <2>2
      <3>2. QED
        BY <1>7, <3>1
    <2>3. QED
      BY <2>1, <2>2
  <1>10. hctr'[epc] = hctr[epc] /\ hout'[epc] = hout[epc]
    BY <1>1, <1>2
  <1>11. epc .. (gpc + 1) - 1 = epc .. gpc
    BY <1>1
  <1>12. QED
    BY <1>1, <1>2, <1>3, <1>6, <1>9, <1>10, <1>11 DEF StreamsInStep

(* The garbler does not disturb the relation at the evaluator's position.   *)
LEMMA GarblerWires ==
  ASSUME PInv, GarblerStep
  PROVE  WireCorrect'
  <1>1. tape' = tape /\ UNCHANGED evaluator /\ epc \in 1 .. gpc
    BY GarblerFrame
  <1>2. hkey'[epc] = hkey[epc]
    BY <1>1, GarblerHistory
  <1>3. WireCorrect
    BY DEF PInv, IInv
  <1>4. QED
    BY <1>1, <1>2, <1>3 DEF WireCorrect, Defined, evaluator

(* Every step of the garbler preserves the invariant.                       *)
LEMMA GarblerPInv ==
  ASSUME PInv, GarblerStep
  PROVE  PInv'
  <1>1. tape' = tape /\ tape \in Tapes
    BY GarblerFrame DEF PInv
  <1>2. QED
    BY <1>1, GarblerType, GarblerHistoryOK, GarblerClean, GarblerLabels, GarblerStreams,
       GarblerWires, GarblerAppends DEF PInv, IInv

-----------------------------------------------------------------------------
(* One step of the evaluator.                                               *)

(* Where the evaluator stands, and what it leaves alone.                    *)
LEMMA EvaluatorFrame ==
  ASSUME PInv, EvaluatorStep
  PROVE  /\ tape \in Tapes /\ tape' = tape /\ epc \in DOMAIN tape /\ epc' = epc + 1
         /\ epc \in Nat /\ gpc \in Nat /\ epc \in 1 .. gpc - 1
         /\ epc \in 1 .. gpc /\ epc + 1 \in 1 .. gpc /\ epc + 1 \in Positions(tape)
         /\ tape[epc] \in Entry /\ Eval(tape[epc])
         /\ UNCHANGED garbler /\ UNCHANGED history
         /\ HistoryStep(epc)
  <1>1. /\ tape' = tape /\ epc' = epc + 1 /\ epc < gpc /\ Eval(tape[epc])
        /\ UNCHANGED garbler /\ UNCHANGED history
    BY DEF EvaluatorStep
  <1>2. tape \in Tapes /\ gpc \in Positions(tape) /\ epc \in Positions(tape)
    BY DEF PInv, IInv, TypeOK
  <1>3. gpc \in Nat /\ epc \in Nat /\ epc >= 1 /\ Len(tape) \in Nat /\ DOMAIN tape = 1 .. Len(tape)
    BY <1>2, PositionFacts
  <1>4. /\ epc \in 1 .. gpc - 1 /\ epc \in 1 .. gpc /\ epc + 1 \in 1 .. gpc
        /\ epc \in DOMAIN tape /\ epc + 1 \in Positions(tape)
    BY <1>1, <1>2, <1>3 DEF Positions
  <1>5. HistoryStep(epc)
    BY <1>4 DEF PInv, IInv, HistoryOK
  <1>6. tape[epc] \in Entry
    BY <1>2, <1>4, TapeFacts
  <1>7. QED
    BY <1>1, <1>2, <1>3, <1>4, <1>5, <1>6

(* What a step takes from the streams is what the garbler made for its entry.*)
LEMMA EvaluatorTakes ==
  ASSUME PInv, EvaluatorStep
  PROVE  /\ tape[epc].op = "and" =>
              /\ gates # <<>> /\ gates' = Tail(gates) /\ Head(gates) = GateAt(epc)
              /\ output_masks' = output_masks /\ ecounter' = ecounter + 1
              /\ outputs' = outputs
         /\ tape[epc].op = "reveal" =>
              /\ output_masks # <<>> /\ output_masks' = Tail(output_masks)
              /\ Head(output_masks) = hmask[epc][tape[epc].left]
              /\ outputs' = Append(outputs, eext[tape[epc].left] # Head(output_masks))
              /\ gates' = gates /\ ecounter' = ecounter /\ ekey' = ekey /\ eext' = eext
         /\ tape[epc].op \notin {"and", "reveal"} =>
              /\ gates' = gates /\ output_masks' = output_masks /\ ecounter' = ecounter
              /\ outputs' = outputs
         /\ IsSeq(gates') /\ IsSeq(output_masks')
  <1> DEFINE e == tape[epc]
  <1>1. Eval(e) /\ HistoryStep(epc) /\ IsSeq(gates) /\ IsSeq(output_masks)
    BY EvaluatorFrame DEF PInv
  <1>2. epc \in epc .. gpc - 1 /\ epc \in Positions(tape)
    BY EvaluatorFrame DEF PInv, IInv, TypeOK
  <1>3. /\ e.op = "and" => gates[hctr[epc + 1] - ecounter] = GateAt(epc)
        /\ e.op = "reveal" => output_masks[hout[epc + 1] - hout[epc]] = hmask[epc][e.left]
        /\ ecounter = hctr[epc]
    BY <1>2 DEF PInv, IInv, StreamsInStep
  <1>4. hctr[epc] \in Nat /\ hout[epc] \in Nat
    BY <1>2 DEF PInv, IInv, TypeOK
  <1>5. CASE e.op = "and"
    <2>1. EvalAnd(e)
      BY <1>1, <1>5 DEF Eval, EvalLinear, EvalReveal
    <2>2. gates # <<>> /\ gates' = Tail(gates) /\ output_masks' = output_masks
          /\ ecounter' = ecounter + 1 /\ outputs' = outputs
      BY <2>1 DEF EvalAnd
    <2>3. Head(gates) = gates[1] /\ IsSeq(Tail(gates))
      BY <1>1, <2>2, TailFacts
    <2>4. hctr[epc + 1] - ecounter = 1
      BY <1>1, <1>3, <1>4, <1>5 DEF HistoryStep
    <2>5. QED
      BY <1>1, <1>3, <1>5, <2>2, <2>3, <2>4
  <1>6. CASE e.op = "reveal"
    <2>1. EvalReveal(e)
      BY <1>1, <1>6 DEF Eval, EvalLinear, EvalAnd
    <2>2. /\ output_masks # <<>> /\ output_masks' = Tail(output_masks)
          /\ outputs' = Append(outputs, eext[e.left] # Head(output_masks))
          /\ gates' = gates /\ ecounter' = ecounter /\ ekey' = ekey /\ eext' = eext
      BY <2>1 DEF EvalReveal
    <2>3. Head(output_masks) = output_masks[1] /\ IsSeq(Tail(output_masks))
      BY <1>1, <2>2, TailFacts
    <2>4. hout[epc + 1] - hout[epc] = 1
      BY <1>1, <1>4, <1>6 DEF HistoryStep
    <2>5. QED
      BY <1>1, <1>3, <1>6, <2>2, <2>3, <2>4
  <1>7. CASE e.op \notin {"and", "reveal"}
    <2>1. EvalLinear(e)
      BY <1>1, <1>7 DEF Eval, EvalAnd, EvalReveal
    <2>2. QED
      BY <1>1, <1>7, <2>1 DEF EvalLinear
  <1>8. QED
    BY <1>5, <1>6, <1>7

(* The labels the evaluator decrypts with are its keys at its position.     *)
LEMMA EvaluatorLabelsAreKeys ==
  ASSUME PInv, EvaluatorStep, tape[epc].op = "and"
  PROVE  /\ ELabels(tape[epc])[tape[epc].left] = ekey[tape[epc].left]
         /\ ELabels(tape[epc])[tape[epc].right] = ekey[tape[epc].right]
  <1> DEFINE e == tape[epc]
  <1>1. tape \in Tapes /\ epc \in DOMAIN tape /\ e \in Entry
    BY EvaluatorFrame
  <1>2. e.left \in Reg /\ e.right \in Reg
    BY <1>1 DEF Entry
  <1>3. LabelsOK(epc, elabels, ekey, EvaluatorBatchMin)
    BY DEF PInv, IInv
  <1>4. {e.left, e.right} = Uses(e)
    BY DEF Uses
  <1>5. CASE e.n >= EvaluatorBatchMin /\ e.i > 1
    <2>1. elabels[e.left] = ekey[e.left] /\ elabels[e.right] = ekey[e.right]
      BY <1>1, <1>2, <1>3, <1>4, <1>5, LabelsAreKeys
    <2>2. QED
      BY <1>5, <2>1 DEF ELabels
  <1>6. CASE ~(e.n >= EvaluatorBatchMin /\ e.i > 1)
    BY <1>6 DEF ELabels
  <1>7. QED
    BY <1>5, <1>6

(* The wire a step writes: one of the wire's two keys, and which.           *)
LEMMA EvaluatedWire ==
  ASSUME PInv, EvaluatorStep, Writes(tape[epc]),
         NEW e, e = tape[epc]
  PROVE  /\ eext'[e.out] \in BOOLEAN
         /\ ekey'[e.out] = Add(hkey[epc + 1][e.out], DeltaIf(eext'[e.out]))
         /\ e.op = "public" => eext'[e.out] = FALSE
         /\ e.op = "xor" => eext'[e.out] = (eext[e.left] # eext[e.right])
         /\ e.op = "copy" => eext'[e.out] = eext[e.left]
         /\ e.op = "and" =>
              eext'[e.out] = (((eext[e.left] # hmask[epc][e.left])
                                 /\ (eext[e.right] # hmask[epc][e.right]))
                              # hmask[epc + 1][e.out])
  <1>1. /\ tape \in Tapes /\ epc \in DOMAIN tape /\ e \in Entry /\ Eval(e)
        /\ HistoryStep(epc) /\ epc + 1 \in Positions(tape) /\ epc \in Positions(tape)
        /\ epc + 1 \in 1 .. gpc
    BY EvaluatorFrame DEF PInv, IInv, TypeOK
  <1>2. e.out \in Reg /\ e.left \in Reg /\ e.right \in Reg /\ e.op \in Op
    BY <1>1 DEF Entry
  <1>3. /\ DOMAIN ekey = Reg /\ eext \in [Reg -> BOOLEAN]
        /\ hmask \in [Positions(tape) -> [Reg -> BOOLEAN]]
    BY DEF PInv, IInv, TypeOK
  <1>4. \A r \in Uses(e) : ekey[r] = Add(hkey[epc][r], DeltaIf(eext[r]))
    <2>1. Uses(e) \subseteq Defined(tape, epc)
      BY <1>1, TapeFacts
    <2>2. QED
      BY <2>1 DEF PInv, IInv, WireCorrect
  <1>5. CASE e.op \in {"public", "random"}
    <2>1. EvalLinear(e)
      BY <1>1, <1>5 DEF Eval, EvalAnd, EvalReveal
    <2>2. SetWire(e.out, {})
      BY <1>5, <2>1 DEF EvalLinear
    <2>3. ekey'[e.out] = {} /\ eext'[e.out] = Signal({})
      BY <1>2, <1>3, <2>2 DEF SetWire
    <2>4. Signal({}) = FALSE /\ DeltaIf(FALSE) = {}
      BY DEF Signal, DeltaIf
    <2>5. hkey[epc + 1][e.out] = {}
      BY <1>1, <1>5 DEF HistoryStep
    <2>6. QED
      BY <1>5, <2>3, <2>4, <2>5, AddZero
  <1>6. CASE e.op = "xor"
    <2>1. EvalLinear(e)
      BY <1>1, <1>6 DEF Eval, EvalAnd, EvalReveal
    <2>2. /\ ekey'[e.out] = Add(ekey[e.left], ekey[e.right])
          /\ eext'[e.out] = (eext[e.left] # eext[e.right])
      BY <1>2, <1>3, <1>6, <2>1 DEF EvalLinear
    <2>3. hkey[epc + 1][e.out] = Add(hkey[epc][e.left], hkey[epc][e.right])
      BY <1>1, <1>6 DEF HistoryStep
    <2>4. /\ ekey[e.left] = Add(hkey[epc][e.left], DeltaIf(eext[e.left]))
          /\ ekey[e.right] = Add(hkey[epc][e.right], DeltaIf(eext[e.right]))
      BY <1>4, <1>6 DEF Uses
    <2>5. eext[e.left] \in BOOLEAN /\ eext[e.right] \in BOOLEAN
      BY <1>2, <1>3
    <2>6. Add(ekey[e.left], ekey[e.right])
          = Add(hkey[epc + 1][e.out], DeltaIf(eext[e.left] # eext[e.right]))
      BY <2>3, <2>4, <2>5, AddDeltas
    <2>7. (eext[e.left] # eext[e.right]) \in BOOLEAN
      OBVIOUS
    <2>8. QED
      BY <1>6, <2>2, <2>6, <2>7
  <1>7. CASE e.op = "copy"
    <2>1. EvalLinear(e)
      BY <1>1, <1>7 DEF Eval, EvalAnd, EvalReveal
    <2>2. ekey'[e.out] = ekey[e.left] /\ eext'[e.out] = eext[e.left]
      BY <1>2, <1>3, <1>7, <2>1 DEF EvalLinear
    <2>3. hkey[epc + 1][e.out] = hkey[epc][e.left]
      BY <1>1, <1>7 DEF HistoryStep
    <2>4. ekey[e.left] = Add(hkey[epc][e.left], DeltaIf(eext[e.left]))
      BY <1>4, <1>7 DEF Uses
    <2>5. eext[e.left] \in BOOLEAN
      BY <1>2, <1>3
    <2>6. QED
      BY <1>7, <2>2, <2>3, <2>4, <2>5
  <1>8. CASE e.op = "and"
    <2> DEFINE bit == ((eext[e.left] # hmask[epc][e.left])
                          /\ (eext[e.right] # hmask[epc][e.right])) # hmask[epc + 1][e.out]
    <2>1. EvalAnd(e)
      BY <1>1, <1>8 DEF Eval, EvalLinear, EvalReveal
    <2>2. SetWire(e.out, EvalGate(Head(gates), ELabels(e)[e.left], eext[e.left],
                                  ELabels(e)[e.right], eext[e.right], ecounter + 1))
      BY <2>1 DEF EvalAnd
    <2>3. /\ Head(gates) = GateAt(epc)
          /\ ELabels(e)[e.left] = ekey[e.left] /\ ELabels(e)[e.right] = ekey[e.right]
      BY <1>8, EvaluatorTakes, EvaluatorLabelsAreKeys
    <2>4. hctr[epc + 1] = ecounter + 1
      BY <1>1, <1>8 DEF HistoryStep, PInv, IInv, StreamsInStep
    <2>5. /\ ekey[e.left] = Add(hkey[epc][e.left], DeltaIf(eext[e.left]))
          /\ ekey[e.right] = Add(hkey[epc][e.right], DeltaIf(eext[e.right]))
      BY <1>4, <1>8 DEF Uses
    <2>6. /\ eext[e.left] \in BOOLEAN /\ eext[e.right] \in BOOLEAN
          /\ hmask[epc][e.left] \in BOOLEAN /\ hmask[epc][e.right] \in BOOLEAN
          /\ hmask[epc + 1][e.out] \in BOOLEAN
      BY <1>1, <1>2, <1>3
    <2>7. EvalGate(GateAt(epc), ekey[e.left], eext[e.left], ekey[e.right], eext[e.right],
                   ecounter + 1)
          = Add(hkey[epc + 1][e.out], DeltaIf(bit))
      BY <2>4, <2>5, <2>6, GateDecrypts DEF GateAt
    <2>8. bit \in BOOLEAN
      OBVIOUS
    <2> HIDE DEF bit
    <2>9. ~ Signal(hkey[epc + 1][e.out])
      BY <1>1, <1>2 DEF PInv, IInv, KeysClean
    <2>10. Signal(Add(hkey[epc + 1][e.out], DeltaIf(bit))) = bit
      BY <2>8, <2>9, SignalOfOffset
    <2>11. /\ ekey'[e.out] = Add(hkey[epc + 1][e.out], DeltaIf(bit))
           /\ eext'[e.out] = bit
      BY <1>2, <1>3, <2>2, <2>3, <2>7, <2>10 DEF SetWire
    <2>12. /\ eext'[e.out] \in BOOLEAN
           /\ ekey'[e.out] = Add(hkey[epc + 1][e.out], DeltaIf(eext'[e.out]))
      BY <2>8, <2>11
    <2>13. QED
      BY <1>8, <2>11, <2>12 DEF bit
  <1>9. QED
    BY <1>2, <1>5, <1>6, <1>7, <1>8 DEF Op, Writes

(* Nothing but the written wire changes.                                    *)
LEMMA EvaluatorOthers ==
  ASSUME PInv, EvaluatorStep
  PROVE  /\ DOMAIN ekey' = Reg /\ DOMAIN eext' = Reg /\ DOMAIN elabels' = Reg
         /\ \A r \in Reg : ~ Writes(tape[epc]) \/ r # tape[epc].out =>
              ekey'[r] = ekey[r] /\ eext'[r] = eext[r]
         /\ tape[epc].op = "and" => elabels' = ELabels(tape[epc])
  <1> DEFINE e == tape[epc]
  <1>1. Eval(e) /\ e \in Entry
    BY EvaluatorFrame
  <1>2. e.out \in Reg
    BY <1>1 DEF Entry
  <1>3. DOMAIN ekey = Reg /\ DOMAIN eext = Reg /\ DOMAIN elabels = Reg
    BY DEF PInv, IInv, TypeOK
  <1> HIDE DEF e
  <1>4. CASE EvalLinear(e)
    BY <1>2, <1>3, <1>4 DEF EvalLinear, SetWire, Writes, e
  <1>5. CASE EvalAnd(e)
    <2>1. elabels' = ELabels(e) /\ \E k : SetWire(e.out, k) /\ e.op = "and"
      BY <1>5 DEF EvalAnd
    <2>2. DOMAIN ELabels(e) = Reg
      BY <1>3 DEF ELabels
    <2>3. QED
      BY <1>2, <1>3, <2>1, <2>2 DEF SetWire, Writes, e
  <1>6. CASE EvalReveal(e)
    BY <1>3, <1>6 DEF EvalReveal, e
  <1>7. QED
    BY <1>1, <1>4, <1>5, <1>6 DEF Eval

(* The relation of the wires moves on with the evaluator.                   *)
LEMMA EvaluatorWires ==
  ASSUME PInv, EvaluatorStep
  PROVE  WireCorrect' /\ eext' \in [Reg -> BOOLEAN]
  <1> DEFINE e == tape[epc]
  <1>1. /\ tape \in Tapes /\ epc \in DOMAIN tape /\ epc' = epc + 1 /\ tape' = tape
        /\ hkey' = hkey /\ HistoryStep(epc)
    BY EvaluatorFrame DEF history
  <1>2. /\ Defined(tape, epc) \subseteq Reg
        /\ Writes(e) => Defined(tape, epc + 1) = Defined(tape, epc) \cup {e.out}
        /\ ~ Writes(e) => Defined(tape, epc + 1) = Defined(tape, epc)
    BY <1>1, DefinedGrows
  <1>3. ASSUME NEW r \in Defined(tape, epc + 1)
        PROVE  ekey'[r] = Add(hkey[epc + 1][r], DeltaIf(eext'[r]))
    <2>1. CASE Writes(e) /\ r = e.out
      BY <2>1, EvaluatedWire
    <2>2. CASE ~(Writes(e) /\ r = e.out)
      <3>1. r \in Defined(tape, epc) /\ r \in Reg
        BY <1>2, <1>3, <2>2
      <3>2. ekey'[r] = ekey[r] /\ eext'[r] = eext[r]
        BY <2>2, <3>1, EvaluatorOthers
      <3>3. hkey[epc + 1][r] = hkey[epc][r]
        BY <1>1, <2>2, <3>1 DEF HistoryStep
      <3>4. QED
        BY <3>1, <3>2, <3>3 DEF PInv, IInv, WireCorrect
    <2>3. QED
      BY <2>1, <2>2
  <1>4. WireCorrect'
    BY <1>1, <1>3 DEF WireCorrect, Defined
  <1>5. eext' \in [Reg -> BOOLEAN]
    <2>1. eext \in [Reg -> BOOLEAN]
      BY DEF PInv, IInv, TypeOK
    <2>2. ASSUME NEW r \in Reg PROVE eext'[r] \in BOOLEAN
      BY <2>1, EvaluatedWire, EvaluatorOthers
    <2>3. eext' = [r \in Reg |-> eext'[r]]
      <3>1. e.op \in Op /\ Eval(e)
        BY EvaluatorFrame DEF Entry
      <3>2. QED
        BY <2>1, <3>1 DEF Eval, EvalLinear, EvalAnd, EvalReveal, SetWire
    <2>4. QED
      BY <2>2, <2>3
  <1>6. QED
    BY <1>4, <1>5

(* The types are preserved.                                                 *)
LEMMA EvaluatorType ==
  ASSUME PInv, EvaluatorStep
  PROVE  TypeOK'
  <1>1. /\ tape' = tape /\ epc' = epc + 1 /\ gpc' = gpc /\ epc + 1 \in Positions(tape)
        /\ epc + 1 <= gpc /\ gkey' = gkey /\ glabels' = glabels /\ gmask' = gmask
        /\ gcounter' = gcounter /\ hkey' = hkey /\ hmask' = hmask /\ hctr' = hctr /\ hout' = hout
    BY EvaluatorFrame DEF garbler, history
  <1>2. TypeOK
    BY DEF PInv, IInv
  <1>3. DOMAIN ekey' = Reg /\ DOMAIN elabels' = Reg /\ eext' \in [Reg -> BOOLEAN]
    BY EvaluatorOthers, EvaluatorWires
  <1>4. Len(gates') \in Nat /\ Len(output_masks') \in Nat
    <2>1. IsSeq(gates') /\ IsSeq(output_masks')
      BY EvaluatorTakes
    <2>2. QED
      BY <2>1 DEF IsSeq
  <1>5. ecounter' \in Nat /\ outputs' \in Seq(BOOLEAN)
    <2>1. ecounter \in Nat /\ outputs \in Seq(BOOLEAN)
      BY <1>2 DEF TypeOK
    <2>2. CASE tape[epc].op = "and"
      BY <2>1, <2>2, EvaluatorTakes
    <2>3. CASE tape[epc].op = "reveal"
      <3>1. /\ ecounter' = ecounter
            /\ outputs' = Append(outputs, eext[tape[epc].left] # Head(output_masks))
        BY <2>3, EvaluatorTakes
      <3>2. (eext[tape[epc].left] # Head(output_masks)) \in BOOLEAN
        OBVIOUS
      <3>3. \A b \in BOOLEAN : Append(outputs, b) \in Seq(BOOLEAN)
        BY <2>1
      <3>4. QED
        BY <2>1, <3>1, <3>2, <3>3
    <2>4. CASE tape[epc].op \notin {"and", "reveal"}
      BY <2>1, <2>4, EvaluatorTakes
    <2>5. QED
      BY <2>2, <2>3, <2>4
  <1>6. Positions(tape)' = Positions(tape)
    BY <1>1 DEF Positions
  <1>7. QED
    BY <1>1, <1>2, <1>3, <1>4, <1>5, <1>6 DEF TypeOK

(* The labels of both players stay valid.                                   *)
LEMMA EvaluatorLabels ==
  ASSUME PInv, EvaluatorStep
  PROVE  LabelsOK(gpc, glabels, gkey, GarblerBatchMin)' /\ LabelsOK(epc, elabels, ekey, EvaluatorBatchMin)'
  <1>1. /\ epc \in DOMAIN tape /\ tape \in Tapes /\ epc' = epc + 1 /\ tape' = tape
        /\ tape[epc] \in Entry
        /\ gpc' = gpc /\ glabels' = glabels /\ gkey' = gkey
    BY EvaluatorFrame DEF garbler
  <1>2. LabelsOK(gpc, glabels, gkey, GarblerBatchMin) /\ LabelsOK(epc, elabels, ekey, EvaluatorBatchMin)
    BY DEF PInv, IInv
  <1>3. tape[epc].i \in Nat /\ tape[epc].i >= 1
    BY <1>1 DEF Entry
  <1>4. tape[epc].op = "and" /\ tape[epc].n >= EvaluatorBatchMin =>
          elabels' = (IF tape[epc].i = 1 THEN ekey ELSE elabels)
    BY <1>3, EvaluatorOthers DEF ELabels
  <1>5. tape[epc].op = "and" => Writes(tape[epc])
    BY DEF Writes
  <1>6. LabelsOK(epc + 1, elabels', ekey', EvaluatorBatchMin)
    <2>1. \A r \in Reg \ {tape[epc].out} : ekey'[r] = ekey[r]
      BY EvaluatorOthers
    <2>2. QED
      BY <1>1, <1>2, <1>4, <2>1, LabelsStep
  <1>7. LabelsOK(gpc, glabels, gkey, GarblerBatchMin)' /\ LabelsOK(epc, elabels, ekey, EvaluatorBatchMin)'
    BY <1>1, <1>2, <1>6 DEF LabelsOK, SameInstruction
  <1>8. QED
    BY <1>7

(* What is left in the streams is what the entries still to come need.      *)
LEMMA EvaluatorStreams ==
  ASSUME PInv, EvaluatorStep
  PROVE  StreamsInStep'
  <1>1. /\ tape' = tape /\ epc' = epc + 1 /\ gpc' = gpc /\ gcounter' = gcounter
        /\ hkey' = hkey /\ hmask' = hmask /\ hctr' = hctr /\ hout' = hout
        /\ epc \in Nat /\ gpc \in Nat /\ epc \in 1 .. gpc - 1 /\ epc + 1 \in epc .. gpc
        /\ HistoryStep(epc)
    BY EvaluatorFrame DEF garbler, history
  <1>2. /\ ecounter = hctr[epc] /\ gcounter = hctr[gpc]
        /\ Len(gates) = gcounter - ecounter
        /\ Len(output_masks) = hout[gpc] - hout[epc]
        /\ IsSeq(gates) /\ IsSeq(output_masks)
    BY DEF PInv, IInv, StreamsInStep
  <1>3. /\ hctr[epc] \in Nat /\ hctr[gpc] \in Nat /\ hout[gpc] \in Nat /\ hout[epc] \in Nat
        /\ Len(gates) \in Nat /\ Len(output_masks) \in Nat
    BY DEF PInv, IInv, TypeOK
  <1>4. /\ hctr[epc + 1] = hctr[epc] + (IF tape[epc].op = "and" THEN 1 ELSE 0)
        /\ hout[epc + 1] = hout[epc] + (IF tape[epc].op = "reveal" THEN 1 ELSE 0)
    BY <1>1 DEF HistoryStep
  <1>5. /\ ecounter' = hctr[epc + 1]
        /\ Len(gates') = hctr[gpc] - hctr[epc + 1]
        /\ \A k \in 1 .. hctr[gpc] - hctr[epc + 1] :
             gates'[k] = gates[k + hctr[epc + 1] - hctr[epc]]
    <2>1. CASE tape[epc].op = "and"
      <3>1. gates # <<>> /\ gates' = Tail(gates) /\ ecounter' = ecounter + 1
        BY <2>1, EvaluatorTakes
      <3>2. /\ Len(gates') = Len(gates) - 1
            /\ \A k \in 1 .. Len(gates) - 1 : gates'[k] = gates[k + 1]
        BY <1>2, <3>1, TailFacts
      <3>3. hctr[epc + 1] = hctr[epc] + 1
        BY <1>4, <2>1
      <3>4. Len(gates) - 1 = hctr[gpc] - hctr[epc + 1]
        BY <1>2, <1>3, <3>3
      <3>5. ASSUME NEW k \in 1 .. hctr[gpc] - hctr[epc + 1]
            PROVE  k + hctr[epc + 1] - hctr[epc] = k + 1
        BY <1>3, <3>3
      <3>6. QED
        BY <1>2, <3>1, <3>2, <3>3, <3>4, <3>5
    <2>2. CASE tape[epc].op # "and"
      <3>1. gates' = gates /\ ecounter' = ecounter
        BY <2>2, EvaluatorTakes
      <3>2. hctr[epc + 1] = hctr[epc]
        BY <1>3, <1>4, <2>2
      <3>3. ASSUME NEW k \in 1 .. hctr[gpc] - hctr[epc + 1]
            PROVE  k + hctr[epc + 1] - hctr[epc] = k
        BY <1>3, <3>2
      <3>4. QED
        BY <1>2, <3>1, <3>2, <3>3
    <2>3. QED
      BY <2>1, <2>2
  <1>6. /\ Len(output_masks') = hout[gpc] - hout[epc + 1]
        /\ \A k \in 1 .. hout[gpc] - hout[epc + 1] :
             output_masks'[k] = output_masks[k + hout[epc + 1] - hout[epc]]
    <2>1. CASE tape[epc].op = "reveal"
      <3>1. output_masks # <<>> /\ output_masks' = Tail(output_masks)
        BY <2>1, EvaluatorTakes
      <3>2. /\ Len(output_masks') = Len(output_masks) - 1
            /\ \A k \in 1 .. Len(output_masks) - 1 : output_masks'[k] = output_masks[k + 1]
        BY <1>2, <3>1, TailFacts
      <3>3. hout[epc + 1] = hout[epc] + 1
        BY <1>4, <2>1
      <3>4. Len(output_masks) - 1 = hout[gpc] - hout[epc + 1]
        BY <1>2, <1>3, <3>3
      <3>5. ASSUME NEW k \in 1 .. hout[gpc] - hout[epc + 1]
            PROVE  k + hout[epc + 1] - hout[epc] = k + 1
        BY <1>3, <3>3
      <3>6. QED
        BY <3>2, <3>4, <3>5
    <2>2. CASE tape[epc].op # "reveal"
      <3>1. output_masks' = output_masks
        BY <2>2, EvaluatorTakes
      <3>2. hout[epc + 1] = hout[epc]
        BY <1>3, <1>4, <2>2
      <3>3. ASSUME NEW k \in 1 .. hout[gpc] - hout[epc + 1]
            PROVE  k + hout[epc + 1] - hout[epc] = k
        BY <1>3, <3>2
      <3>4. QED
        BY <1>2, <3>1, <3>2, <3>3
    <2>3. QED
      BY <2>1, <2>2
  <1>7. ASSUME NEW p \in epc + 1 .. gpc - 1
        PROVE  /\ tape[p].op = "and" => gates'[hctr[p + 1] - hctr[epc + 1]] = GateAt(p)
               /\ tape[p].op = "reveal" =>
                    output_masks'[hout[p + 1] - hout[epc + 1]] = hmask[p][tape[p].left]
    <2>1. /\ tape[p].op = "and" =>
               hctr[p + 1] - hctr[epc + 1] \in 1 .. hctr[gpc] - hctr[epc + 1]
          /\ tape[p].op = "reveal" =>
               hout[p + 1] - hout[epc + 1] \in 1 .. hout[gpc] - hout[epc + 1]
          /\ hctr[p + 1] \in Nat /\ hout[p + 1] \in Nat
      BY <1>1, StreamIndex
    <2>2. p \in epc .. gpc - 1
      BY <1>1
    <2>3. /\ tape[p].op = "and" => gates[hctr[p + 1] - hctr[epc]] = GateAt(p)
          /\ tape[p].op = "reveal" =>
               output_masks[hout[p + 1] - hout[epc]] = hmask[p][tape[p].left]
      BY <2>2 DEF PInv, IInv, StreamsInStep
    <2>4. hctr[epc + 1] \in Nat /\ hout[epc + 1] \in Nat
      BY <1>3, <1>4
    <2>5. /\ (hctr[p + 1] - hctr[epc + 1]) + hctr[epc + 1] - hctr[epc]
             = hctr[p + 1] - hctr[epc]
          /\ (hout[p + 1] - hout[epc + 1]) + hout[epc + 1] - hout[epc]
             = hout[p + 1] - hout[epc]
      <3>1. \A a, b, c \in Nat : (a - b) + b - c = a - c
        OBVIOUS
      <3>2. /\ hctr[p + 1] \in Nat /\ hctr[epc + 1] \in Nat /\ hctr[epc] \in Nat
            /\ hout[p + 1] \in Nat /\ hout[epc + 1] \in Nat /\ hout[epc] \in Nat
        BY <1>3, <2>1, <2>4
      <3>3. (hctr[p + 1] - hctr[epc + 1]) + hctr[epc + 1] - hctr[epc]
            = hctr[p + 1] - hctr[epc]
        BY <3>1, <3>2
      <3>4. (hout[p + 1] - hout[epc + 1]) + hout[epc + 1] - hout[epc]
            = hout[p + 1] - hout[epc]
        BY <3>1, <3>2
      <3>5. QED
        BY <3>3, <3>4
    <2>6. QED
      BY <1>5, <1>6, <2>1, <2>3, <2>5
  <1>8. \A p \in epc + 1 .. gpc - 1 : GateAt(p)' = GateAt(p)
    BY <1>1 DEF GateAt
  <1>9. /\ (gcounter = hctr[gpc])' /\ (ecounter = hctr[epc])'
        /\ (Len(gates) = gcounter - ecounter)'
        /\ (Len(output_masks) = hout[gpc] - hout[epc])'
    BY <1>1, <1>2, <1>5, <1>6
  <1>10. \A p \in epc' .. gpc' - 1 :
            /\ tape'[p].op = "and" => gates'[hctr'[p + 1] - ecounter'] = GateAt(p)'
            /\ tape'[p].op = "reveal" =>
                 output_masks'[hout'[p + 1] - hout'[epc']] = hmask'[p][tape'[p].left]
    BY <1>1, <1>5, <1>7, <1>8
  <1>11. QED
    BY <1>9, <1>10 DEF StreamsInStep

(* Every step of the evaluator preserves the invariant.                     *)
LEMMA EvaluatorPInv ==
  ASSUME PInv, EvaluatorStep
  PROVE  PInv'
  <1>1. /\ tape \in Tapes /\ tape' = tape /\ gpc' = gpc /\ gkey' = gkey /\ gmask' = gmask
        /\ hkey' = hkey /\ hmask' = hmask /\ hctr' = hctr /\ hout' = hout
    BY EvaluatorFrame DEF garbler, history
  <1>2. HistoryOK'
    <2>1. HistoryOK
      BY DEF PInv, IInv
    <2>2. \A p \in 1 .. gpc - 1 : HistoryStep(p)' = HistoryStep(p)
      BY <1>1 DEF HistoryStep
    <2>3. \A p \in 1 .. gpc - 1 : HistoryStep(p)'
      BY <2>1, <2>2 DEF HistoryOK
    <2>4. QED
      BY <1>1, <2>1, <2>3 DEF HistoryOK
  <1>3. KeysClean'
    <2>1. KeysClean
      BY DEF PInv, IInv
    <2>2. QED
      BY <1>1, <2>1 DEF KeysClean
  <1>4. QED
    BY <1>1, <1>2, <1>3, EvaluatorType, EvaluatorLabels, EvaluatorStreams,
       EvaluatorWires, EvaluatorTakes DEF PInv, IInv

(* A stutter preserves the invariant.                                       *)
LEMMA StutterPInv ==
  ASSUME PInv, UNCHANGED vars
  PROVE  PInv'
  <1>1. TypeOK'
    BY DEF PInv, IInv, TypeOK, Positions, vars, garbler, evaluator, history
  <1>2. HistoryOK'
    <2>1. \A p \in 1 .. gpc - 1 : HistoryStep(p)' = HistoryStep(p)
      BY DEF HistoryStep, vars, history
    <2>2. \A p \in 1 .. gpc - 1 : HistoryStep(p)'
      BY <2>1 DEF PInv, IInv, HistoryOK
    <2>3. QED
      BY <2>2 DEF PInv, IInv, HistoryOK, vars, garbler, history
  <1>3. KeysClean'
    BY DEF PInv, IInv, KeysClean, vars, garbler, history
  <1>4. LabelsOK(gpc, glabels, gkey, GarblerBatchMin)' /\ LabelsOK(epc, elabels, ekey, EvaluatorBatchMin)'
    BY DEF PInv, IInv, LabelsOK, SameInstruction, vars, garbler, evaluator
  <1>5. StreamsInStep'
    <2>1. \A p \in epc .. gpc - 1 : GateAt(p)' = GateAt(p)
      BY DEF GateAt, vars, history
    <2>2. QED
      BY <2>1 DEF PInv, IInv, StreamsInStep, vars, garbler, evaluator, history
  <1>6. WireCorrect'
    BY DEF PInv, IInv, WireCorrect, Defined, vars, evaluator, history
  <1>7. QED
    BY <1>1, <1>2, <1>3, <1>4, <1>5, <1>6 DEF PInv, IInv, vars

-----------------------------------------------------------------------------
(* The theorems.                                                            *)

(* The strengthened invariant holds throughout.                             *)
THEOREM Invariance == Spec => []PInv
  <1>1. PInv /\ [Next]_vars => PInv'
    <2> SUFFICES ASSUME PInv, [Next]_vars PROVE PInv'
      OBVIOUS
    <2>1. CASE GarblerStep
      BY <2>1, GarblerPInv
    <2>2. CASE EvaluatorStep
      BY <2>2, EvaluatorPInv
    <2>3. CASE UNCHANGED vars
      BY <2>3, StutterPInv
    <2>4. QED
      BY <2>1, <2>2, <2>3 DEF Next
  <1>2. QED
    BY <1>1, InitPInv, PTL DEF Spec

(* The types of the two players' state.                                     *)
THEOREM TypeCorrect == Spec => []TypeOK
  <1>1. PInv => TypeOK
    BY DEF PInv, IInv
  <1>2. QED
    BY <1>1, Invariance, PTL

(* The inductive invariant the runs check.                                  *)
THEOREM InductiveInvariant == Spec => []IInv
  <1>1. PInv => IInv
    BY DEF PInv
  <1>2. QED
    BY <1>1, Invariance, PTL

(* YaoEvalWire::set and YaoGate::eval: the evaluator's key of a wire is     *)
(* always one of the garbler's two, the one its external bit says.          *)
THEOREM WiresMatch == Spec => []WireCorrect
  <1>1. PInv => WireCorrect
    BY DEF PInv, IInv
  <1>2. QED
    BY <1>1, Invariance, PTL

(* YaoEvalWire::XOR never reads a key's signal, and is right not to.        *)
THEOREM ExternalIsSignal == Spec => []SignalIsExternal
  <1>1. PInv => SignalIsExternal
    <2> SUFFICES ASSUME PInv, NEW r \in Defined(tape, epc)
                 PROVE  eext[r] = Signal(ekey[r])
      BY DEF SignalIsExternal
    <2>1. /\ tape \in Tapes /\ gpc \in Positions(tape) /\ epc \in Positions(tape) /\ epc <= gpc
          /\ eext \in [Reg -> BOOLEAN]
      BY DEF PInv, IInv, TypeOK
    <2>2. r \in Reg /\ epc \in 1 .. gpc
      BY <2>1, PositionFacts DEF Defined
    <2>3. ~ Signal(hkey[epc][r]) /\ eext[r] \in BOOLEAN
      BY <2>1, <2>2 DEF PInv, IInv, KeysClean
    <2>4. ekey[r] = Add(hkey[epc][r], DeltaIf(eext[r]))
      BY DEF PInv, IInv, WireCorrect
    <2>5. QED
      BY <2>3, <2>4, SignalOfOffset
  <1>2. QED
    BY <1>1, Invariance, PTL

(* YaoEvaluator::load_gate and output_masks.pop_front never run dry or get  *)
(* the wrong entry: the streams hold what the entries still to come need.   *)
THEOREM StreamsStayInStep == Spec => []StreamsInStep
  <1>1. PInv => StreamsInStep
    BY DEF PInv, IInv
  <1>2. QED
    BY <1>1, Invariance, PTL

(* Keys that the evaluator can form: sums of keys it has had on its wires.  *)
(* They are closed under addition, do not contain Delta alone, and contain  *)
(* no key of a gate that is still to be evaluated.                          *)
KeyGroup(H, c) ==
  /\ {} \in H
  /\ \A a, b \in H : Add(a, b) \in H
  /\ Delta \notin H
  /\ \A a \in H : \A T \in Nat : T > c => <<"key", T>> \notin a

KnownKeys == \E H : KeyGroup(H, ecounter) /\ \A r \in Defined(tape, epc) : ekey[r] \in H

Extend(H, k) == H \cup {Add(h, k) : h \in H}

(* The key of the next gate, either of the two, makes a larger such group.  *)
LEMMA GroupGrows ==
  ASSUME NEW H, NEW c \in Nat, KeyGroup(H, c), NEW k, NEW x \in BOOLEAN,
         k = Add(FreshKey(c + 1), DeltaIf(x))
  PROVE  KeyGroup(Extend(H, k), c + 1) /\ H \subseteq Extend(H, k) /\ k \in Extend(H, k)
  <1> DEFINE G == Extend(H, k)
  <1>a. G = H \cup {Add(h, k) : h \in H}
    BY DEF Extend
  <1> HIDE DEF G
  <1>1. \A T \in Nat : <<"key", T>> \in k <=> T = c + 1
    BY DEF Add, FreshKey, DeltaIf, Delta
  <1>2. \A h \in H : <<"key", c + 1>> \in Add(h, k)
    <2> SUFFICES ASSUME NEW h \in H PROVE <<"key", c + 1>> \in Add(h, k)
      OBVIOUS
    <2>1. c + 1 \in Nat /\ c + 1 > c
      OBVIOUS
    <2>2. <<"key", c + 1>> \notin h
      BY <2>1 DEF KeyGroup
    <2>3. <<"key", c + 1>> \in k
      BY <1>1, <2>1
    <2>4. QED
      BY <2>2, <2>3 DEF Add
  <1>3. {} \in G /\ H \subseteq G
    BY <1>a DEF KeyGroup
  <1>4. k \in G
    <2>1. Add({}, k) = k
      BY DEF Add
    <2>2. QED
      BY <1>a, <2>1 DEF KeyGroup
  <1>5. \A a, b \in G : Add(a, b) \in G
    <2>1. \A a, b : Add(a, Add(b, k)) = Add(Add(a, b), k) /\ Add(Add(a, k), b) = Add(Add(a, b), k)
                    /\ Add(Add(a, k), Add(b, k)) = Add(a, b)
      BY DEF Add
    <2> SUFFICES ASSUME NEW a \in G, NEW b \in G PROVE Add(a, b) \in G
      OBVIOUS
    <2>2. PICK u \in H : a = u \/ a = Add(u, k)
      BY <1>a
    <2>3. PICK v \in H : b = v \/ b = Add(v, k)
      BY <1>a
    <2>4. Add(u, v) \in H
      BY DEF KeyGroup
    <2>5. Add(u, v) \in G /\ Add(Add(u, v), k) \in G
      BY <1>a, <2>4
    <2>6. CASE a = u /\ b = v
      BY <2>5, <2>6
    <2>7. CASE a = u /\ b = Add(v, k)
      BY <2>1, <2>5, <2>7
    <2>8. CASE a = Add(u, k) /\ b = v
      BY <2>1, <2>5, <2>8
    <2>9. CASE a = Add(u, k) /\ b = Add(v, k)
      BY <2>1, <2>5, <2>9
    <2>10. QED
      BY <2>2, <2>3, <2>6, <2>7, <2>8, <2>9
  <1>6. Delta \notin G
    <2>1. <<"key", c + 1>> \notin Delta
      BY DEF Delta
    <2>2. \A h \in H : Add(h, k) # Delta
      BY <1>2, <2>1
    <2>3. QED
      BY <1>a, <2>2 DEF KeyGroup
  <1>7. \A a \in G : \A T \in Nat : T > c + 1 => <<"key", T>> \notin a
    <2> SUFFICES ASSUME NEW a \in G, NEW T \in Nat, T > c + 1 PROVE <<"key", T>> \notin a
      OBVIOUS
    <2>1. PICK h \in H : a = h \/ a = Add(h, k)
      BY <1>a
    <2>2. <<"key", T>> \notin h /\ <<"key", T>> \notin k
      BY <1>1 DEF KeyGroup
    <2>3. QED
      BY <2>1, <2>2 DEF Add
  <1>8. KeyGroup(G, c + 1)
    BY <1>3, <1>5, <1>6, <1>7 DEF KeyGroup
  <1>9. QED
    BY <1>3, <1>4, <1>8 DEF G

(* At the start the evaluator knows only the empty key.                     *)
LEMMA InitKnownKeys == Init => KnownKeys
  <1> SUFFICES ASSUME Init PROVE KnownKeys
    OBVIOUS
  <1>1. epc = 1 /\ ecounter = 0
    BY DEF Init
  <1>2. Defined(tape, epc) = {}
    BY <1>1 DEF Defined
  <1>3. KeyGroup({{}}, ecounter)
    BY DEF KeyGroup, Add, Delta
  <1>4. QED
    BY <1>2, <1>3 DEF KnownKeys

(* Evaluating an entry leaves the evaluator within the keys it can form, or *)
(* adds the one key of the gate's output that it decrypts.                  *)
LEMMA EvaluatorKnownKeys ==
  ASSUME PInv, KnownKeys, EvaluatorStep
  PROVE  KnownKeys'
  <1> DEFINE e == tape[epc]
  <1>1. /\ tape \in Tapes /\ epc \in DOMAIN tape /\ epc' = epc + 1 /\ tape' = tape
        /\ e \in Entry /\ Eval(e) /\ HistoryStep(epc)
    BY EvaluatorFrame
  <1>2. PICK H : KeyGroup(H, ecounter) /\ \A r \in Defined(tape, epc) : ekey[r] \in H
    BY DEF KnownKeys
  <1>3. /\ Defined(tape, epc) \subseteq Reg
        /\ Writes(e) => Defined(tape, epc + 1) = Defined(tape, epc) \cup {e.out}
        /\ ~ Writes(e) => Defined(tape, epc + 1) = Defined(tape, epc)
    BY <1>1, DefinedGrows
  <1>4. \A r \in Defined(tape, epc) : ~ Writes(e) \/ r # e.out => ekey'[r] = ekey[r]
    BY <1>3, EvaluatorOthers
  <1>5. Defined(tape, epc)' = Defined(tape, epc + 1)
    BY <1>1 DEF Defined
  <1>6. ecounter \in Nat
    BY DEF PInv, IInv, TypeOK
  <1>7. \A r \in Uses(e) : ekey[r] \in H
    BY <1>1, <1>2, TapeFacts
  <1>8. DOMAIN ekey = Reg /\ e.out \in Reg /\ e.op \in Op
    BY <1>1 DEF PInv, IInv, TypeOK, Entry
  <1>9. CASE e.op \notin {"and", "reveal"}
    <2>1. EvalLinear(e)
      BY <1>1, <1>9 DEF Eval, EvalAnd, EvalReveal
    <2>2. ecounter' = ecounter
      BY <2>1 DEF EvalLinear
    <2>3. ekey'[e.out] \in H
      <3>1. CASE e.op \in {"public", "random"}
        <4>1. ekey'[e.out] = {}
          BY <1>8, <2>1, <3>1 DEF EvalLinear, SetWire
        <4>2. QED
          BY <1>2, <4>1 DEF KeyGroup
      <3>2. CASE e.op = "xor"
        <4>1. ekey'[e.out] = Add(ekey[e.left], ekey[e.right])
          BY <1>8, <2>1, <3>2 DEF EvalLinear
        <4>2. ekey[e.left] \in H /\ ekey[e.right] \in H
          BY <1>7, <3>2 DEF Uses
        <4>3. QED
          BY <1>2, <4>1, <4>2 DEF KeyGroup
      <3>3. CASE e.op = "copy"
        <4>1. ekey'[e.out] = ekey[e.left]
          BY <1>8, <2>1, <3>3 DEF EvalLinear
        <4>2. QED
          BY <1>7, <3>3, <4>1 DEF Uses
      <3>4. QED
        BY <1>8, <1>9, <3>1, <3>2, <3>3 DEF Op
    <2>4. \A r \in Defined(tape, epc + 1) : ekey'[r] \in H
      BY <1>2, <1>3, <1>4, <2>3
    <2>5. QED
      BY <1>2, <1>5, <2>2, <2>4 DEF KnownKeys
  <1>10. CASE e.op = "reveal"
    <2>1. ekey' = ekey /\ ecounter' = ecounter
      BY <1>10, EvaluatorTakes
    <2>2. ~ Writes(e)
      BY <1>10 DEF Writes
    <2>3. QED
      BY <1>2, <1>3, <1>5, <2>1, <2>2 DEF KnownKeys
  <1>11. CASE e.op = "and"
    <2> DEFINE k == ekey'[e.out]
               x == eext'[e.out]
               G == Extend(H, k)
    <2>1. Writes(e)
      BY <1>11 DEF Writes
    <2>2. /\ eext'[e.out] \in BOOLEAN
          /\ k = Add(hkey[epc + 1][e.out], DeltaIf(eext'[e.out]))
      BY <2>1, EvaluatedWire
    <2>3. ecounter' = ecounter + 1 /\ ecounter = hctr[epc]
      BY <1>11, EvaluatorTakes DEF PInv, IInv, StreamsInStep
    <2>4. hkey[epc + 1][e.out] = FreshKey(ecounter + 1)
      BY <1>1, <1>11, <2>3 DEF HistoryStep
    <2>5. KeyGroup(G, ecounter + 1) /\ H \subseteq G /\ k \in G
      <3>1. x \in BOOLEAN /\ k = Add(FreshKey(ecounter + 1), DeltaIf(x))
        BY <2>2, <2>4
      <3> HIDE DEF k, x
      <3>2. QED
        BY <1>2, <1>6, <3>1, GroupGrows
    <2>6. \A r \in Defined(tape, epc + 1) : ekey'[r] \in G
      BY <1>2, <1>3, <1>4, <2>5
    <2>7. QED
      BY <1>5, <2>3, <2>5, <2>6 DEF KnownKeys
  <1>12. QED
    BY <1>9, <1>10, <1>11

(* YaoGate::eval gives one label of a gate's output, and no combination of  *)
(* labels the evaluator has ever had gives the other: it never knows Delta. *)
THEOREM OneKeyOfTwo == Spec => []NeverBothKeys
  <1>1. PInv /\ KnownKeys /\ [Next]_vars => KnownKeys'
    <2> SUFFICES ASSUME PInv, KnownKeys, [Next]_vars PROVE KnownKeys'
      OBVIOUS
    <2>1. CASE GarblerStep
      <3>1. tape' = tape /\ UNCHANGED evaluator
        BY <2>1, GarblerFrame
      <3>2. QED
        BY <3>1 DEF KnownKeys, Defined, evaluator
    <2>2. CASE EvaluatorStep
      BY <2>2, EvaluatorKnownKeys
    <2>3. CASE UNCHANGED vars
      BY <2>3 DEF KnownKeys, Defined, vars, evaluator
    <2>4. QED
      BY <2>1, <2>2, <2>3 DEF Next
  <1>2. KnownKeys => NeverBothKeys
    BY DEF KnownKeys, KeyGroup, NeverBothKeys
  <1>3. QED
    BY <1>1, <1>2, InitKnownKeys, Invariance, PTL DEF Spec

(* Functions that agree but at one point differ by an update of that point. *)
LEMMA Update ==
  ASSUME NEW S, NEW V \in [S -> BOOLEAN], NEW W \in [S -> BOOLEAN], NEW x \in S,
         \A r \in S : r # x => W[r] = V[r]
  PROVE  W = [V EXCEPT ![x] = W[x]]
  OBVIOUS

(* An evaluator's step is the same step of the plain circuit.               *)
LEMMA EvaluatorRefines ==
  ASSUME PInv, EvaluatorStep
  PROVE  Plain!Next
  <1> DEFINE e == tape[epc]
             V == [r \in Reg |-> hmask[epc][r] # eext[r]]
             W == [r \in Reg |-> hmask'[epc'][r] # eext'[r]]
  <1>1. /\ epc \in DOMAIN tape /\ epc' = epc + 1 /\ tape' = tape /\ hmask' = hmask
        /\ e \in Entry /\ HistoryStep(epc) /\ epc \in Positions(tape)
        /\ epc + 1 \in Positions(tape)
    BY EvaluatorFrame DEF history, PInv, IInv, TypeOK
  <1>2. e.out \in Reg /\ e.left \in Reg /\ e.right \in Reg /\ e.val \in BOOLEAN /\ e.op \in Op
    BY <1>1 DEF Entry
  <1>3. hmask[epc] \in [Reg -> BOOLEAN] /\ hmask[epc + 1] \in [Reg -> BOOLEAN]
        /\ eext \in [Reg -> BOOLEAN]
    BY <1>1 DEF PInv, IInv, TypeOK
  <1>4. CASE Writes(e)
    <2> DEFINE b == hmask[epc + 1][e.out] # eext'[e.out]
    <2>1. \A r \in Reg : r # e.out => W[r] = V[r]
      <3>1. \A r \in Reg \ {e.out} : hmask[epc + 1][r] = hmask[epc][r]
        BY <1>1, <1>4 DEF HistoryStep
      <3>2. \A r \in Reg \ {e.out} : eext'[r] = eext[r]
        BY EvaluatorOthers
      <3>3. QED
        BY <1>1, <3>1, <3>2
    <2>2. W[e.out] = b
      BY <1>1, <1>2
    <2>3. W = [V EXCEPT ![e.out] = b]
      <3>1. V \in [Reg -> BOOLEAN] /\ W \in [Reg -> BOOLEAN]
        OBVIOUS
      <3> HIDE DEF V, W, b
      <3>2. W = [V EXCEPT ![e.out] = W[e.out]]
        BY <1>2, <2>1, <3>1, Update
      <3>3. QED
        BY <2>2, <3>2
    <2>4. b \in Plain!Results(e)
      <3>1. /\ eext'[e.out] \in BOOLEAN
            /\ e.op = "public" => eext'[e.out] = FALSE
            /\ e.op = "xor" => eext'[e.out] = (eext[e.left] # eext[e.right])
            /\ e.op = "copy" => eext'[e.out] = eext[e.left]
            /\ e.op = "and" =>
                 eext'[e.out] = (((eext[e.left] # hmask[epc][e.left])
                                    /\ (eext[e.right] # hmask[epc][e.right]))
                                 # hmask[epc + 1][e.out])
        BY <1>4, EvaluatedWire
      <3>2. /\ hmask[epc][e.left] \in BOOLEAN /\ hmask[epc][e.right] \in BOOLEAN
            /\ hmask[epc + 1][e.out] \in BOOLEAN
            /\ eext[e.left] \in BOOLEAN /\ eext[e.right] \in BOOLEAN
        BY <1>2, <1>3
      <3>3. CASE e.op = "public"
        <4>1. hmask[epc + 1][e.out] = e.val
          BY <1>1, <3>3 DEF HistoryStep
        <4>2. b = e.val
          BY <1>2, <3>1, <3>3, <4>1
        <4>3. QED
          BY <3>3, <4>2 DEF Plain!Results
      <3>4. CASE e.op = "random"
        BY <3>4 DEF Plain!Results
      <3>5. CASE e.op = "xor"
        <4>1. hmask[epc + 1][e.out] = (hmask[epc][e.left] # hmask[epc][e.right])
          BY <1>1, <3>5 DEF HistoryStep
        <4>2. b = (V[e.left] # V[e.right])
          BY <1>2, <3>1, <3>2, <3>5, <4>1
        <4>3. QED
          BY <3>5, <4>2 DEF Plain!Results
      <3>6. CASE e.op = "and"
        <4>1. b = (V[e.left] /\ V[e.right])
          BY <1>2, <3>1, <3>2, <3>6
        <4>2. QED
          BY <3>6, <4>1 DEF Plain!Results
      <3>7. CASE e.op = "copy"
        <4>1. hmask[epc + 1][e.out] = hmask[epc][e.left]
          BY <1>1, <3>7 DEF HistoryStep
        <4>2. b = V[e.left]
          BY <1>2, <3>1, <3>2, <3>7, <4>1
        <4>3. QED
          BY <3>7, <4>2 DEF Plain!Results
      <3>8. QED
        BY <1>2, <1>4, <3>3, <3>4, <3>5, <3>6, <3>7 DEF Op, Writes
    <2>5. outputs' = outputs
      BY <1>4, EvaluatorTakes DEF Writes
    <2> HIDE DEF b
    <2>6. Plain!Write(e)
      <3>1. Plain!Writes(e)
        BY <1>4 DEF Writes, Plain!Writes
      <3>2. QED
        BY <2>3, <2>4, <2>5, <3>1 DEF Plain!Write
    <2>7. QED
      BY <1>1, <2>6 DEF Plain!Next
  <1>5. CASE ~ Writes(e)
    <2>1. e.op = "reveal"
      BY <1>5 DEF Writes
    <2>2. /\ outputs' = Append(outputs, eext[e.left] # hmask[epc][e.left])
          /\ eext' = eext
      BY <2>1, EvaluatorTakes
    <2>3. V[e.left] = (eext[e.left] # hmask[epc][e.left])
      BY <1>2, <1>3
    <2>4. hmask[epc + 1] = hmask[epc]
      BY <1>1, <1>5 DEF HistoryStep
    <2>5. W = V
      BY <1>1, <2>2, <2>4
    <2>6. Plain!Reveal(e)
      <3>1. ~ Plain!Writes(e)
        BY <1>5 DEF Writes, Plain!Writes
      <3>2. QED
        BY <2>2, <2>3, <2>5, <3>1 DEF Plain!Reveal
    <2>7. QED
      BY <1>1, <2>6 DEF Plain!Next
  <1>6. QED
    BY <1>4, <1>5

(* Garbled evaluation reveals what running the tape on plain bits reveals:  *)
(* the abstract specification is implemented.                               *)
THEOREM Implementation == Spec => EvaluatesThePlainCircuit
  <1>1. Init => Plain!Init
    <2> SUFFICES ASSUME Init PROVE Plain!Init
      OBVIOUS
    <2>1. tape \in Tapes /\ epc = 1 /\ outputs = <<>>
      BY DEF Init
    <2>2. [r \in Reg |-> hmask[epc][r] # eext[r]] \in [Reg -> BOOLEAN]
      OBVIOUS
    <2>3. QED
      BY <2>1, <2>2 DEF Plain!Init
  <1>2. PInv /\ [Next]_vars => [Plain!Next]_Plain!vars
    <2> SUFFICES ASSUME PInv, [Next]_vars PROVE [Plain!Next]_Plain!vars
      OBVIOUS
    <2>1. CASE GarblerStep
      <3>1. tape' = tape /\ epc' = epc /\ eext' = eext /\ outputs' = outputs /\ epc \in 1 .. gpc
        BY <2>1, GarblerFrame DEF evaluator
      <3>2. hmask'[epc] = hmask[epc]
        BY <2>1, <3>1, GarblerHistory
      <3>3. QED
        BY <3>1, <3>2 DEF Plain!vars
    <2>2. CASE EvaluatorStep
      BY <2>2, EvaluatorRefines
    <2>3. CASE UNCHANGED vars
      BY <2>3 DEF vars, evaluator, history, Plain!vars
    <2>4. QED
      BY <2>1, <2>2, <2>3 DEF Next
  <1>3. QED
    BY <1>1, <1>2, Invariance, PTL DEF Spec, EvaluatesThePlainCircuit, Plain!Spec
=============================================================================
