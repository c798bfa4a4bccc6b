------------------------------ MODULE YaoGates ------------------------------
(***************************************************************************)
(* Garbling and evaluating over one stream of gates and one stream of      *)
(* output masks.  The garbler executes the tape and appends to the streams;*)
(* the evaluator executes the same tape and takes from them, in order.     *)
(* How the streams are cut into batches, sent and stored is the subject of *)
(* YaoPlayers, which implements this module.                               *)
(*                                                                         *)
(* The properties relate the evaluator's wires at a position of the tape to*)
(* those the garbler held at that position, which may be long ago; history *)
(* variables keep the garbler's wires and stream positions per position.   *)
(***************************************************************************)
EXTENDS GCTape

(* An ANDRS of at least this many gates hashes all its labels first: 10 for  *)
(* the evaluator, the smaller of 10 and the -t option for the garbler.      *)
CONSTANTS GarblerBatchMin, EvaluatorBatchMin
ASSUME BatchMinAssumption == GarblerBatchMin \in Nat /\ EvaluatorBatchMin \in Nat

-----------------------------------------------------------------------------
(* The algebra of keys behind the garbled gates (BMR/Key.h, Yao/YaoGate).   *)
(*                                                                         *)
(* A key is a 128-bit string and the code only ever adds keys bitwise, so  *)
(* a key is modelled by the set of independent terms it is the sum of: the *)
(* global difference Delta, the fresh key drawn for a gate's output, and   *)
(* values of the hash.  Addition is then the symmetric difference.  The    *)
(* hash is free: it agrees only on equal inputs, so whatever cancels here   *)
(* cancels in every run of the code.  Bit 0 of a key, its signal, is set   *)
(* in Delta and cleared in every fresh key.  The signal of a hash value is *)
(* arbitrary; the model takes it to be 0, which matters only for a key that*)
(* was decrypted with the wrong hash.                                      *)

(* YaoGarbler::delta, signal 1.                                            *)
Delta == {<<"delta", 0>>}

(* Fault: a generator that repeats itself.                                 *)
RepeatedKey(T) == {<<"key", 0>>}

(* The key randomize() draws for the output of the gate with number T.     *)
FreshKey(T) == {<<"key", T>>}

(* Key::operator^, += and -=.                                              *)
Add(a, b) == (a \ b) \cup (b \ a)

(* i ? delta : 0                                                           *)
DeltaIf(b) == IF b THEN Delta ELSE {}

(* Key::get_signal                                                         *)
Signal(k) == <<"delta", 0>> \in k

(* mmo.hash(YaoGate::E_input(left, right, T))                              *)
Hash(left, right, T) == {<<"hash", left, right, T>>}

(* YaoGate::garble: the entry for the external bits x and y of the inputs. *)
(* The plain bits behind them are x # lmask and y # rmask.                 *)
GarbleGate(outkey, outmask, lkey, lmask, rkey, rmask, T) ==
  [x \in BOOLEAN |-> [y \in BOOLEAN |->
     Add(Add(outkey, DeltaIf(((x # lmask) /\ (y # rmask)) # outmask)),
         Hash(Add(lkey, DeltaIf(x)), Add(rkey, DeltaIf(y)), T))]]

(* YaoGate::eval: the entry the external bits select, less the hash.       *)
EvalGate(gate, lkey, lext, rkey, rext, T) ==
  Add(gate[lext][rext], Hash(lkey, rkey, T))

-----------------------------------------------------------------------------
VARIABLES
  tape,                            \* the bytecode both players parsed
  gpc, gkey, gmask, glabels,       \* garbler: position, YaoGarbleWire key and mask, hashed labels
  gcounter,                        \* YaoGarbler::counter
  gates, output_masks,             \* the streams, oldest first
  epc, ekey, eext, elabels,        \* evaluator: position, YaoEvalWire key and external, labels
  ecounter,                        \* YaoEvaluator::counter
  outputs,                         \* the bits the evaluator revealed
  hkey, hmask, hctr, hout          \* history: garbler wires, gates and masks produced, per position

garbler   == <<gpc, gkey, gmask, glabels, gcounter>>
evaluator == <<epc, ekey, eext, elabels, ecounter, outputs>>
history   == <<hkey, hmask, hctr, hout>>
vars      == <<tape, garbler, gates, output_masks, evaluator, history>>

Positions(t) == 1 .. Len(t) + 1

Init ==
  /\ tape \in Tapes
  /\ gpc = 1
  /\ gkey = [r \in Reg |-> {}]
  /\ gmask = [r \in Reg |-> FALSE]
  /\ glabels = gkey
  /\ gcounter = 0
  /\ gates = <<>>
  /\ output_masks = <<>>
  /\ epc = 1
  /\ ekey = [r \in Reg |-> {}]
  /\ eext = [r \in Reg |-> TRUE]      \* junk: no key has this external bit
  /\ elabels = ekey
  /\ ecounter = 0
  /\ outputs = <<>>
  /\ hkey = [p \in Positions(tape) |-> gkey]
  /\ hmask = [p \in Positions(tape) |-> gmask]
  /\ hctr = [p \in Positions(tape) |-> 0]
  /\ hout = [p \in Positions(tape) |-> 0]

-----------------------------------------------------------------------------
(* One tuple of an instruction, for the garbler.  G is its next wire state. *)

(* The keys an AND is hashed under: an instruction of enough gates hashes   *)
(* all of its labels before it writes any output, a shorter one reads each  *)
(* tuple's inputs after it has randomized that tuple's output.              *)
GLabels(e, newkey) ==
  IF e.n < GarblerBatchMin THEN newkey ELSE IF e.i = 1 THEN gkey ELSE glabels

GarbleWire(r, k, m) ==
  /\ gkey' = [gkey EXCEPT ![r] = k]
  /\ gmask' = [gmask EXCEPT ![r] = m]

(* YaoGarbleWire::public_input, random and XOR, and the copy of a wire.     *)
GarbleLinear(e) ==
  /\ \/ e.op = "public" /\ GarbleWire(e.out, {}, e.val)
     \/ e.op = "random" /\ \E b \in BOOLEAN : GarbleWire(e.out, {}, b)
     \/ /\ e.op = "xor"
        /\ GarbleWire(e.out, Add(gkey[e.left], gkey[e.right]), gmask[e.left] # gmask[e.right])
     \/ e.op = "copy" /\ GarbleWire(e.out, gkey[e.left], gmask[e.left])
  /\ UNCHANGED <<glabels, gcounter, gates, output_masks>>

(* Fault: the gate is garbled before its output is randomized.              *)
GarbleBeforeRandomize(e) ==
  /\ e.op = "and"
  /\ \E m \in BOOLEAN :
       LET T       == gcounter + 1
           newkey  == [gkey EXCEPT ![e.out] = FreshKey(T)]
           labels  == GLabels(e, newkey)
       IN /\ GarbleWire(e.out, FreshKey(T), m)
          /\ glabels' = labels
          /\ gcounter' = T
          /\ gates' = Append(gates, GarbleGate(gkey[e.out], gmask[e.out],
                          labels[e.left], gmask[e.left],
                          labels[e.right], gmask[e.right], T))
  /\ UNCHANGED output_masks

(* YaoGarbleWire::op and the tuples of andrs: randomize the output, count   *)
(* the gate, garble it with the masks now in the registers.                 *)
GarbleAnd(e) ==
  /\ e.op = "and"
  /\ \E m \in BOOLEAN :
       LET T       == gcounter + 1
           newkey  == [gkey EXCEPT ![e.out] = FreshKey(T)]
           newmask == [gmask EXCEPT ![e.out] = m]
           labels  == GLabels(e, newkey)
       IN /\ gkey' = newkey
          /\ gmask' = newmask
          /\ glabels' = labels
          /\ gcounter' = T
          /\ gates' = Append(gates, GarbleGate(FreshKey(T), m,
                          labels[e.left], newmask[e.left],
                          labels[e.right], newmask[e.right], T))
  /\ UNCHANGED output_masks

(* YaoGarbleWire::get_output                                               *)
GarbleReveal(e) ==
  /\ e.op = "reveal"
  /\ output_masks' = Append(output_masks, gmask[e.left])
  /\ UNCHANGED <<gkey, gmask, glabels, gcounter, gates>>

Garble(e) == GarbleLinear(e) \/ GarbleAnd(e) \/ GarbleReveal(e)

Remember ==
  /\ hkey' = [hkey EXCEPT ![gpc + 1] = gkey']
  /\ hmask' = [hmask EXCEPT ![gpc + 1] = gmask']
  /\ hctr' = [hctr EXCEPT ![gpc + 1] = gcounter']
  /\ hout' = [hout EXCEPT ![gpc + 1] = hout[gpc] + (IF tape[gpc].op = "reveal" THEN 1 ELSE 0)]

GarblerStep ==
  /\ gpc \in DOMAIN tape
  /\ Garble(tape[gpc])
  /\ Remember
  /\ gpc' = gpc + 1
  /\ UNCHANGED <<tape, evaluator>>

-----------------------------------------------------------------------------
(* The same tuple, for the evaluator.                                      *)

(* Fault: the external bit is not taken from the new key.                   *)
SetOnlyKey(r, k) ==
  /\ ekey' = [ekey EXCEPT ![r] = k]
  /\ UNCHANGED eext

(* YaoEvalWire::set                                                        *)
SetWire(r, k) ==
  /\ ekey' = [ekey EXCEPT ![r] = k]
  /\ eext' = [eext EXCEPT ![r] = Signal(k)]

(* YaoEvalWire::public_input, random and XOR, and the copy of a wire.       *)
EvalLinear(e) ==
  /\ \/ e.op \in {"public", "random"} /\ SetWire(e.out, {})
     \/ /\ e.op = "xor"
        /\ ekey' = [ekey EXCEPT ![e.out] = Add(ekey[e.left], ekey[e.right])]
        /\ eext' = [eext EXCEPT ![e.out] = eext[e.left] # eext[e.right]]
     \/ /\ e.op = "copy"
        /\ ekey' = [ekey EXCEPT ![e.out] = ekey[e.left]]
        /\ eext' = [eext EXCEPT ![e.out] = eext[e.left]]
  /\ UNCHANGED <<elabels, ecounter, gates, output_masks, outputs>>

ELabels(e) ==
  IF e.n >= EvaluatorBatchMin /\ e.i > 1 THEN elabels ELSE ekey

(* Fault: the counter is read before it is incremented.                     *)
EvalWithOldCounter(e) ==
  /\ e.op = "and"
  /\ gates # <<>>
  /\ LET labels == ELabels(e)
     IN /\ SetWire(e.out, EvalGate(Head(gates), labels[e.left], eext[e.left],
                                   labels[e.right], eext[e.right], ecounter))
        /\ elabels' = labels
        /\ ecounter' = ecounter + 1
  /\ gates' = Tail(gates)
  /\ UNCHANGED <<output_masks, outputs>>

(* YaoEvalWire::op and the tuples of andrs: load_gate, count it, decrypt    *)
(* the entry selected by the external bits.                                 *)
EvalAnd(e) ==
  /\ e.op = "and"
  /\ gates # <<>>
  /\ LET T      == ecounter + 1
         labels == ELabels(e)
     IN /\ SetWire(e.out, EvalGate(Head(gates), labels[e.left], eext[e.left],
                                   labels[e.right], eext[e.right], T))
        /\ elabels' = labels
        /\ ecounter' = T
  /\ gates' = Tail(gates)
  /\ UNCHANGED <<output_masks, outputs>>

(* Fault: the external bit is output without its mask.                      *)
RevealExternal(e) ==
  /\ e.op = "reveal"
  /\ output_masks # <<>>
  /\ outputs' = Append(outputs, eext[e.left])
  /\ output_masks' = Tail(output_masks)
  /\ UNCHANGED <<ekey, eext, elabels, ecounter, gates>>

(* YaoEvalWire::get_output                                                 *)
EvalReveal(e) ==
  /\ e.op = "reveal"
  /\ output_masks # <<>>
  /\ outputs' = Append(outputs, eext[e.left] # Head(output_masks))
  /\ output_masks' = Tail(output_masks)
  /\ UNCHANGED <<ekey, eext, elabels, ecounter, gates>>

Eval(e) == EvalLinear(e) \/ EvalAnd(e) \/ EvalReveal(e)

(* The evaluator never overtakes the garbler: it is handed a batch only     *)
(* after the garbler has executed all of it.                                *)
EvaluatorStep ==
  /\ epc < gpc
  /\ Eval(tape[epc])
  /\ epc' = epc + 1
  /\ UNCHANGED <<tape, garbler, history>>

Next == GarblerStep \/ EvaluatorStep

Spec == Init /\ [][Next]_vars

-----------------------------------------------------------------------------
(* Types of all variables but the keys, whose only structure is their domain.*)
TypeOK ==
  /\ tape \in Seq(Entry)
  /\ gpc \in Positions(tape) /\ epc \in Positions(tape)
  /\ epc <= gpc
  /\ \A k \in {gkey, glabels, ekey, elabels} : DOMAIN k = Reg
  /\ gmask \in [Reg -> BOOLEAN] /\ eext \in [Reg -> BOOLEAN]
  /\ gcounter \in Nat /\ ecounter \in Nat
  /\ Len(gates) \in Nat /\ Len(output_masks) \in Nat
  /\ outputs \in Seq(BOOLEAN)
  /\ DOMAIN hkey = Positions(tape)
  /\ \A p \in DOMAIN hkey : DOMAIN hkey[p] = Reg
  /\ hmask \in [Positions(tape) -> [Reg -> BOOLEAN]]
  /\ hctr \in [Positions(tape) -> Nat]
  /\ hout \in [Positions(tape) -> Nat]

(* The evaluator holds, on every wire written so far, exactly one of the    *)
(* wire's two keys: the garbler's key if its external bit is 0 and the key  *)
(* plus Delta if it is 1.  The garbler's key is the one it had when it was  *)
(* at the evaluator's position.  It is what makes YaoGate::eval decrypt.    *)
WireCorrect ==
  \A r \in Defined(tape, epc) :
    ekey[r] = Add(hkey[epc][r], DeltaIf(eext[r]))

(* The external bit of a wire is the signal bit of its key, also after      *)
(* chains of free XORs that never look at the signal.                       *)
SignalIsExternal == \A r \in Defined(tape, epc) : eext[r] = Signal(ekey[r])

(* The gate of position p, in terms of the wires the garbler had there.     *)
GateAt(p) ==
  LET e == tape[p]
  IN GarbleGate(hkey[p + 1][e.out], hmask[p + 1][e.out], hkey[p][e.left], hmask[p][e.left],
                hkey[p][e.right], hmask[p][e.right], hctr[p + 1])

(* The two players number a gate alike, and the streams hold exactly what   *)
(* the garbler has produced and the evaluator not yet consumed: for every   *)
(* entry between the two, in order, its gate or its output mask, garbled    *)
(* under the wires it reads even when its labels were hashed in advance.    *)
StreamsInStep ==
  /\ gcounter = hctr[gpc] /\ ecounter = hctr[epc]
  /\ Len(gates) = gcounter - ecounter
  /\ Len(output_masks) = hout[gpc] - hout[epc]
  /\ \A p \in epc .. gpc - 1 :
       /\ tape[p].op = "and" => gates[hctr[p + 1] - ecounter] = GateAt(p)
       /\ tape[p].op = "reveal" =>
            output_masks[hout[p + 1] - hout[epc]] = hmask[p][tape[p].left]

(* The evaluator never holds both keys of a wire: no two of its keys differ *)
(* by Delta, or it could decrypt every entry of every gate.                 *)
NeverBothKeys ==
  \A r, s \in Defined(tape, epc) : Add(ekey[r], ekey[s]) # Delta

(* How one entry changed the garbler, read off the history.                 *)
HistoryStep(p) ==
  LET e == tape[p]
  IN /\ ~ Writes(e) => hkey[p + 1] = hkey[p] /\ hmask[p + 1] = hmask[p]
     /\ Writes(e) => \A r \in Reg \ {e.out} :
                        hkey[p + 1][r] = hkey[p][r] /\ hmask[p + 1][r] = hmask[p][r]
     /\ e.op = "public" => hkey[p + 1][e.out] = {} /\ hmask[p + 1][e.out] = e.val
     /\ e.op = "random" => hkey[p + 1][e.out] = {}
     /\ e.op = "copy" => /\ hkey[p + 1][e.out] = hkey[p][e.left]
                         /\ hmask[p + 1][e.out] = hmask[p][e.left]
     /\ e.op = "xor" => /\ hkey[p + 1][e.out] = Add(hkey[p][e.left], hkey[p][e.right])
                        /\ hmask[p + 1][e.out] = (hmask[p][e.left] # hmask[p][e.right])
     /\ e.op = "and" => hkey[p + 1][e.out] = FreshKey(hctr[p + 1])
     /\ hctr[p + 1] = hctr[p] + (IF e.op = "and" THEN 1 ELSE 0)
     /\ hout[p + 1] = hout[p] + (IF e.op = "reveal" THEN 1 ELSE 0)

HistoryOK ==
  /\ hkey[gpc] = gkey /\ hmask[gpc] = gmask
  /\ \A p \in 1 .. gpc - 1 : HistoryStep(p)
  /\ \A p, q \in 1 .. gpc : p <= q => hctr[p] <= hctr[q] /\ hout[p] <= hout[q]

(* No key of the garbler contains Delta: signal bits are clear throughout.  *)
KeysClean == \A p \in 1 .. gpc : \A r \in Reg : ~ Signal(hkey[p][r])

(* Inside a batch, the labels hashed in advance are still those of the      *)
(* registers that the batch has not written.                                *)
LabelsOK(p, labels, key, min) ==
  p \in DOMAIN tape /\ tape[p].op = "and" /\ tape[p].i > 1 /\ tape[p].n >= min =>
    \A r \in Reg :
      (\A q \in 1 .. p - 1 : SameInstruction(tape, q, p) => tape[q].out # r)
        => labels[r] = key[r]

(* The inductive invariant behind the properties above.                     *)
IInv ==
  /\ TypeOK
  /\ HistoryOK
  /\ KeysClean
  /\ LabelsOK(gpc, glabels, gkey, GarblerBatchMin)
  /\ LabelsOK(epc, elabels, ekey, EvaluatorBatchMin)
  /\ StreamsInStep
  /\ WireCorrect

(* The bit on a wire, recovered from the two players' views of it, and the  *)
(* outputs revealed are those of the plain circuit.                         *)
Plain == INSTANCE PlainCircuit WITH
           pc <- epc, val <- [r \in Reg |-> hmask[epc][r] # eext[r]]
EvaluatesThePlainCircuit == Plain!Spec
=============================================================================
