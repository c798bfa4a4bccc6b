------------------------------ MODULE BmrGates ------------------------------
(***************************************************************************)
(* The four executions of one program in the BMR protocol (BMR/Register):   *)
(* the trusted party draws keys and masks (RandomRegister), every party     *)
(* computes the pseudo-random function of its keys (PRFRegister), the       *)
(* trusted party garbles (GarbleRegister), and every party evaluates        *)
(* (EvalRegister).  The four hand each other keys, masks, function values   *)
(* and gates in streams that say nothing of the wire they belong to: what   *)
(* one execution appends for an instruction, another must take for the same *)
(* instruction.  How the streams are cut into messages is BmrParties.       *)
(*                                                                         *)
(* As built by default, with free XOR and the signal bit in the keys.  The  *)
(* function is a free hash, so a key is a set of terms as in YaoGates, with *)
(* one difference per party.                                               *)
(***************************************************************************)
EXTENDS Naturals, Sequences, SequencesExt

CONSTANTS N,        \* number of parties
          Reg,      \* the wires
          Tapes     \* the executed traces of wire operations

ASSUME PartiesAssumption == N \in Nat \ {0}

Party == 1 .. N

(* An input has the party it comes from in i, and what that party reads     *)
(* from its file in val; the other parties never see the latter.            *)
Op == {"public", "random", "input", "xor", "and", "reveal"}
Entry == [op: Op, out: Reg, left: Reg, right: Reg, val: BOOLEAN,
          i: Nat \ {0}, n: Nat \ {0}]

(* The program on plain bits: an input is then as good as a constant.       *)
PlainTape(t) ==
  [p \in DOMAIN t |-> IF t[p].op = "input"
                      THEN [t[p] EXCEPT !.op = "public", !.i = 1] ELSE t[p]]
Tape == INSTANCE GCTape WITH Tapes <- {}

ASSUME TapesAssumption ==
  \A t \in Tapes : /\ t \in Seq(Entry)
                   /\ Tape!WellFormed(PlainTape(t))
                   /\ \A p \in DOMAIN t : t[p].op = "input" => t[p].i \in Party

VARIABLES
  tape,
  \* RandomRegister: position, 0-keys of all parties, masks, keys drawn so far
  rpc, rkey, rmask, drawn,
  \* what the trusted party sends before the garbling, and keeps for it
  msg_keys, msg_input_masks, msg_output_masks, twires,
  \* PRFRegister, per party: position, own 0-keys, gate_counter, its streams
  ppc, pkey, gate_counter, prf_outputs, wires,
  \* GarbleRegister: position and masks, and the circuit garbled so far
  gpc, gmask, circuit,
  \* EvalRegister, per party: position, inside an input, external bits,
  \* garbled_entry, gate_counter2, messages on their way, outputs
  epc, waiting, external, entry, gate_counter2, gates, net, outputs,
  \* history: RandomRegister's keys and masks at each position
  hkey, hmask

random == <<rpc, rkey, rmask, drawn>>
sent   == <<msg_keys, msg_input_masks, msg_output_masks, twires>>
prf    == <<ppc, pkey, gate_counter>>
garble == <<gpc, gmask>>
eval   == <<epc, waiting, external, entry, gate_counter2, gates, net, outputs>>
history == <<hkey, hmask>>
vars == <<tape, random, sent, prf, prf_outputs, wires, garble, circuit, eval, history>>

Each(v) == [i \in Party |-> v]
None == Each({})                         \* a zero key for every party

Init ==
  /\ tape \in Tapes
  /\ rpc = 1 /\ rkey = [r \in Reg |-> None] /\ rmask = [r \in Reg |-> FALSE] /\ drawn = 0
  /\ msg_keys = Each(<<>>) /\ msg_input_masks = Each(<<>>)
  /\ msg_output_masks = Each(<<>>) /\ twires = <<>>
  /\ ppc = Each(1) /\ pkey = Each([r \in Reg |-> {}]) /\ gate_counter = Each(0)
  /\ prf_outputs = Each(<<>>) /\ wires = Each(<<>>)
  /\ gpc = 1 /\ gmask = rmask /\ circuit = <<>>
  /\ epc = Each(1) /\ waiting = Each(FALSE) /\ external = Each([r \in Reg |-> FALSE])
  /\ entry = Each(rkey) /\ gate_counter2 = Each(0) /\ gates = Each(<<>>)
  /\ net = Each(Each(<<>>)) /\ outputs = Each(<<>>)
  /\ hkey = [p \in 1 .. Len(tape) + 1 |-> rkey]
  /\ hmask = [p \in 1 .. Len(tape) + 1 |-> rmask]

-----------------------------------------------------------------------------
(* Keys (BMR/Key.h), deltas, and the function F of a key (BMR/prf.h) on     *)
(* extension, gate and party.                                              *)
Add(a, b) == (a \ b) \cup (b \ a)
AddEach(a, b) == [i \in Party |-> Add(a[i], b[i])]
AddAll(s) == FoldSeq(Add, {}, s)
Delta(i) == {<<"delta", i>>}
DeltaIf(i, b) == IF b THEN Delta(i) ELSE {}
Signal(i, k) == <<"delta", i>> \in k
F(key, ext, gate, j) == {<<"prf", key, ext, gate, j>>}

Ended(pc) == pc > Len(tape)

-----------------------------------------------------------------------------
(* RandomRegister                                                          *)

FreshKeys == [i \in Party |-> {<<"key", i, drawn + 1>>}]

RandomWire(r, k, m) ==
  /\ rkey' = [rkey EXCEPT ![r] = k]
  /\ rmask' = [rmask EXCEPT ![r] = m]

(* add_keys, and add_all_keys for the external value 0 if `all`.            *)
SendKeys(k, all) ==
  msg_keys' = [i \in Party |->
    msg_keys[i] \o <<k[i], Add(k[i], Delta(i))>> \o (IF all THEN k ELSE <<>>)]

StoreWire(r) == twires' = Append(twires, [mask |-> rmask'[r], key |-> rkey'[r]])

(* randomize: draw the wire and send its keys.                              *)
Randomize(e) ==
  /\ \E m \in BOOLEAN : RandomWire(e.out, FreshKeys, m)
  /\ drawn' = drawn + 1
  /\ SendKeys(FreshKeys, e.op = "random")
  /\ StoreWire(e.out)
  /\ UNCHANGED msg_output_masks

(* Fault: the mask of an input is sent to all parties.                      *)
RandomWithMaskForAll(e) ==
  /\ e.op \in {"and", "input", "random"}
  /\ Randomize(e)
  /\ msg_input_masks' = IF e.op # "input" THEN msg_input_masks
       ELSE [i \in Party |-> Append(msg_input_masks[i], rmask'[e.out])]

(* op, input and random; the owner of an input is sent its mask.            *)
RandomWithKeys(e) ==
  /\ e.op \in {"and", "input", "random"}
  /\ Randomize(e)
  /\ msg_input_masks' = IF e.op # "input" THEN msg_input_masks
       ELSE [msg_input_masks EXCEPT ![e.i] = Append(@, rmask'[e.out])]

(* Fault: the value of a public wire is taken for its mask.                 *)
RandomPublicMasked(e) ==
  /\ e.op = "public"
  /\ RandomWire(e.out, [i \in Party |-> DeltaIf(i, e.val)], e.val)
  /\ StoreWire(e.out)
  /\ UNCHANGED <<drawn, msg_keys, msg_input_masks, msg_output_masks>>

(* public_input: the key of the public value is zero.                       *)
RandomPublic(e) ==
  /\ e.op = "public"
  /\ RandomWire(e.out, [i \in Party |-> DeltaIf(i, e.val)], FALSE)
  /\ StoreWire(e.out)
  /\ UNCHANGED <<drawn, msg_keys, msg_input_masks, msg_output_masks>>

RandomXor(e) ==
  /\ e.op = "xor"
  /\ RandomWire(e.out, AddEach(rkey[e.left], rkey[e.right]), rmask[e.left] # rmask[e.right])
  /\ UNCHANGED <<drawn, sent>>

(* output: one stream, broadcast to all parties.                            *)
RandomOutput(e) ==
  /\ e.op = "reveal"
  /\ msg_output_masks' = [i \in Party |-> Append(msg_output_masks[i], rmask[e.left])]
  /\ UNCHANGED <<rkey, rmask, drawn, msg_keys, msg_input_masks, twires>>

RandomStep ==
  /\ ~ Ended(rpc)
  /\ LET e == tape[rpc]
     IN RandomWithKeys(e) \/ RandomPublic(e) \/ RandomXor(e) \/ RandomOutput(e)
  /\ rpc' = rpc + 1
  /\ hkey' = [hkey EXCEPT ![rpc + 1] = rkey']
  /\ hmask' = [hmask EXCEPT ![rpc + 1] = rmask']
  /\ UNCHANGED <<tape, prf, prf_outputs, wires, garble, circuit, eval>>

-----------------------------------------------------------------------------
(* PRFRegister, party i.  It keeps its own two keys of a wire, of which the *)
(* second is always the first plus its delta.                               *)

PrfWire(i, r, k) == pkey' = [pkey EXCEPT ![i][r] = k]

(* receive_keys, and receive_all_keys if `all`.                             *)
ReceiveKeys(i, all) ==
  /\ Len(msg_keys[i]) >= 2
  /\ msg_keys' = [msg_keys EXCEPT ![i] = SubSeq(@, IF all THEN N + 3 ELSE 3, Len(@))]

(* GarbledGate::compute_prfs_outputs: for every party j, the function of    *)
(* both keys of both inputs and for both extensions.                        *)
PrfTuples(i, e, g) ==
  [j \in Party |-> [side \in {"left", "right"} |-> [b \in BOOLEAN |-> [ext \in BOOLEAN |->
     F(Add(pkey'[i][e[side]], DeltaIf(i, b)), ext, g, j)]]]]

(* op; its inputs are read after its output was received.                   *)
PrfAnd(i, e) ==
  /\ e.op = "and"
  /\ ReceiveKeys(i, FALSE)
  /\ PrfWire(i, e.out, Head(msg_keys[i]))
  /\ gate_counter' = [gate_counter EXCEPT ![i] = @ + 1]
  /\ prf_outputs' = [prf_outputs EXCEPT ![i] = Append(@, PrfTuples(i, e, gate_counter'[i]))]
  /\ UNCHANGED wires

(* input and random: store_wire, and on random the 0-keys of all parties.   *)
PrfInput(i, e) ==
  /\ e.op \in {"input", "random"}
  /\ ReceiveKeys(i, e.op = "random")
  /\ PrfWire(i, e.out, Head(msg_keys[i]))
  /\ wires' = [wires EXCEPT ![i] =
       Append(@, Head(msg_keys[i]))
         \o (IF e.op = "random" THEN SubSeq(msg_keys[i], 3, N + 2) ELSE <<>>)]
  /\ UNCHANGED <<gate_counter, prf_outputs>>

PrfLinear(i, e) ==
  /\ \/ e.op = "public" /\ PrfWire(i, e.out, DeltaIf(i, e.val))
     \/ e.op = "xor" /\ PrfWire(i, e.out, Add(pkey[i][e.left], pkey[i][e.right]))
  /\ UNCHANGED <<msg_keys, gate_counter, prf_outputs, wires>>

PrfOutput(i, e) ==
  /\ e.op = "reveal"
  /\ wires' = [wires EXCEPT ![i] = Append(@, pkey[i][e.left])]
  /\ UNCHANGED <<msg_keys, pkey, gate_counter, prf_outputs>>

PrfStep(i) ==
  /\ Ended(rpc) /\ ~ Ended(ppc[i])
  /\ LET e == tape[ppc[i]]
     IN PrfAnd(i, e) \/ PrfInput(i, e) \/ PrfLinear(i, e) \/ PrfOutput(i, e)
  /\ ppc' = [ppc EXCEPT ![i] = @ + 1]
  /\ UNCHANGED <<tape, random, msg_input_masks, msg_output_masks, twires, garble,
                 circuit, eval, history>>

-----------------------------------------------------------------------------
(* GarbleRegister                                                          *)

(* The sum over the parties i of their function values for part j of the    *)
(* entry with external bits x and y: each side is extended by the other's.  *)
SumPrfs(j, x, y) ==
  AddAll([i \in Party |->
    LET t == Head(prf_outputs[i])[j] IN Add(t["left"][x][y], t["right"][y][x])])

(* Fault: each side extended by its own bit.                                *)
GarbledGateOwnExtension(k, m, lm, rm) ==
  [x \in BOOLEAN |-> [y \in BOOLEAN |-> [j \in Party |->
     Add(AddAll([i \in Party |->
           LET t == Head(prf_outputs[i])[j] IN Add(t["left"][x][x], t["right"][y][y])]),
         Add(k[j], DeltaIf(j, ((x # lm) /\ (y # rm)) # m)))]]]

(* Register::garble for output keys k and mask m.                           *)
GarbledGate(k, m, lm, rm) ==
  [x \in BOOLEAN |-> [y \in BOOLEAN |-> [j \in Party |->
     Add(SumPrfs(j, x, y),
         Add(k[j], DeltaIf(j, ((x # lm) /\ (y # rm)) # m)))]]]

LoadWire(r) ==
  /\ twires # <<>>
  /\ gmask' = [gmask EXCEPT ![r] = Head(twires).mask]
  /\ twires' = Tail(twires)

(* op loads its output's mask and keys and garbles; input, public_input and *)
(* random only load.                                                        *)
GarbleLoad(e) ==
  /\ e.op \in {"and", "input", "random", "public"}
  /\ LoadWire(e.out)
  /\ IF e.op = "and"
     THEN /\ circuit' = Append(circuit,
               GarbledGate(Head(twires).key, Head(twires).mask, gmask'[e.left], gmask'[e.right]))
          /\ prf_outputs' = [i \in Party |-> Tail(prf_outputs[i])]
     ELSE UNCHANGED <<circuit, prf_outputs>>

GarbleXor(e) ==
  /\ e.op = "xor"
  /\ gmask' = [gmask EXCEPT ![e.out] = gmask[e.left] # gmask[e.right]]
  /\ UNCHANGED <<twires, circuit, prf_outputs>>

GarbleOutput(e) ==
  /\ e.op = "reveal"
  /\ UNCHANGED <<gmask, twires, circuit, prf_outputs>>

(* The circuit is broadcast when it is complete.                            *)
GarbleStep ==
  /\ \A i \in Party : Ended(ppc[i])
  /\ ~ Ended(gpc)
  /\ LET e == tape[gpc] IN GarbleLoad(e) \/ GarbleXor(e) \/ GarbleOutput(e)
  /\ gpc' = gpc + 1
  /\ gates' = IF Ended(gpc + 1) THEN Each(circuit') ELSE gates
  /\ UNCHANGED <<tape, random, msg_keys, msg_input_masks, msg_output_masks, prf, wires,
                 epc, waiting, external, entry, gate_counter2, net, outputs, history>>

-----------------------------------------------------------------------------
(* EvalRegister, party i                                                    *)

EvalWire(i, r, ext, ent) ==
  /\ external' = [external EXCEPT ![i][r] = ext]
  /\ entry' = [entry EXCEPT ![i][r] = ent]

Done(i) == epc' = [epc EXCEPT ![i] = @ + 1]

(* Register::eval: the entry for the external bits, less the function of    *)
(* every party's label of both inputs.                                      *)
Decrypted(i, e, g) ==
  LET x == external[i][e.left]
      y == external[i][e.right]
      pad(j) == AddAll([p \in Party |->
                  Add(F(entry[i][e.left][p], y, g, j), F(entry[i][e.right][p], x, g, j))])
  IN [j \in Party |-> Add(Head(gates[i])[x][y][j], pad(j))]

EvalAnd(i, e) ==
  /\ e.op = "and"
  /\ gates[i] # <<>>
  /\ LET g == gate_counter2[i] + 1
         new == Decrypted(i, e, g)
     IN EvalWire(i, e.out, Signal(i, new[i]), new)
  /\ gate_counter2' = [gate_counter2 EXCEPT ![i] = @ + 1]
  /\ gates' = [gates EXCEPT ![i] = Tail(@)]
  /\ Done(i)
  /\ UNCHANGED <<waiting, net, outputs, wires, msg_input_masks, msg_output_masks>>

EvalLinear(i, e) ==
  /\ \/ e.op = "public" /\ EvalWire(i, e.out, e.val, None)
     \/ /\ e.op = "xor"
        /\ EvalWire(i, e.out, external[i][e.left] # external[i][e.right],
                    AddEach(entry[i][e.left], entry[i][e.right]))
  /\ Done(i)
  /\ UNCHANGED <<waiting, gate_counter2, gates, net, outputs, wires,
                 msg_input_masks, msg_output_masks>>

(* random: the own key, and the 0-keys of all; the external bit is 0.       *)
EvalRandom(i, e) ==
  /\ e.op = "random"
  /\ Len(wires[i]) >= N + 1
  /\ EvalWire(i, e.out, FALSE, SubSeq(wires[i], 2, N + 1))
  /\ wires' = [wires EXCEPT ![i] = SubSeq(@, N + 2, Len(@))]
  /\ Done(i)
  /\ UNCHANGED <<waiting, gate_counter2, gates, net, outputs, msg_input_masks, msg_output_masks>>

(* input: load the wire; its owner masks the value and sends the external   *)
(* bit; with the external bit, everybody sends the label of its own key.    *)
ToOthers(i, ms) ==
  [j \in Party |-> [k \in Party |->
     IF j = i /\ k # i THEN net[j][k] \o ms ELSE net[j][k]]]

OwnLabel(i, ext) == Add(Head(wires[i]), DeltaIf(i, ext))

BeginOwnInput(i, e) ==
  LET ext == Head(msg_input_masks[i]) # e.val
  IN /\ e.i = i
     /\ msg_input_masks[i] # <<>>
     /\ EvalWire(i, e.out, ext, [entry[i][e.out] EXCEPT ![i] = OwnLabel(i, ext)])
     /\ net' = ToOthers(i, << <<"external", ext>>, <<"label", OwnLabel(i, ext)>> >>)
     /\ msg_input_masks' = [msg_input_masks EXCEPT ![i] = Tail(@)]

BeginOtherInput(i, e) ==
  /\ e.i # i
  /\ net[e.i][i] # <<>>
  /\ LET ext == Head(net[e.i][i])[2]
     IN /\ EvalWire(i, e.out, ext, [entry[i][e.out] EXCEPT ![i] = OwnLabel(i, ext)])
        /\ net' = [ToOthers(i, << <<"label", OwnLabel(i, ext)>> >>) EXCEPT ![e.i][i] = Tail(@)]
  /\ UNCHANGED msg_input_masks

BeginInput(i, e) ==
  /\ e.op = "input" /\ ~ waiting[i]
  /\ wires[i] # <<>>
  /\ BeginOwnInput(i, e) \/ BeginOtherInput(i, e)
  /\ wires' = [wires EXCEPT ![i] = Tail(@)]
  /\ waiting' = [waiting EXCEPT ![i] = TRUE]
  /\ UNCHANGED <<epc, gate_counter2, gates, outputs, msg_output_masks>>

(* The labels of all others, which a party takes in one Broadcast_Receive.  *)
EndInput(i, e) ==
  /\ e.op = "input" /\ waiting[i]
  /\ \A j \in Party \ {i} : net[j][i] # <<>>
  /\ entry' = [entry EXCEPT ![i][e.out] =
       [j \in Party |-> IF j = i THEN @[i] ELSE Head(net[j][i])[2]]]
  /\ net' = [j \in Party |-> IF j = i THEN net[j] ELSE [net[j] EXCEPT ![i] = Tail(@)]]
  /\ waiting' = [waiting EXCEPT ![i] = FALSE]
  /\ Done(i)
  /\ UNCHANGED <<external, gate_counter2, gates, outputs, wires, msg_input_masks, msg_output_masks>>

(* output: load the keys for the check of the own label, and the mask.      *)
LabelFits(i, e) ==
  entry[i][e.left][i] = Add(Head(wires[i]), DeltaIf(i, external[i][e.left]))

EvalOutput(i, e) ==
  /\ e.op = "reveal"
  /\ wires[i] # <<>> /\ msg_output_masks[i] # <<>>
  /\ LabelFits(i, e)
  /\ outputs' = [outputs EXCEPT ![i] = Append(@, Head(msg_output_masks[i]) # external[i][e.left])]
  /\ wires' = [wires EXCEPT ![i] = Tail(@)]
  /\ msg_output_masks' = [msg_output_masks EXCEPT ![i] = Tail(@)]
  /\ Done(i)
  /\ UNCHANGED <<waiting, external, entry, gate_counter2, gates, net, msg_input_masks>>

EvalStep(i) ==
  /\ Ended(gpc) /\ ~ Ended(epc[i])
  /\ LET e == tape[epc[i]]
     IN \/ EvalAnd(i, e) \/ EvalLinear(i, e) \/ EvalRandom(i, e)
        \/ BeginInput(i, e) \/ EndInput(i, e) \/ EvalOutput(i, e)
  /\ UNCHANGED <<tape, random, msg_keys, twires, prf, prf_outputs, garble, circuit, history>>

Finished == \A i \in Party : Ended(epc[i])

Next ==
  \/ RandomStep
  \/ GarbleStep
  \/ \E i \in Party : PrfStep(i) \/ EvalStep(i)
  \/ Finished /\ UNCHANGED vars

Spec == Init /\ [][Next]_vars

-----------------------------------------------------------------------------
(* Every party holds on every wire, for every party, the label of one and   *)
(* the same bit: the trusted party's 0-key of that wire, plus that party's  *)
(* delta where the external bit is 1.  The wire an input is still waiting   *)
(* for is excepted.  It is what makes Register::eval decrypt, and what      *)
(* check_signal_key tests at outputs for the own key alone.  The external   *)
(* bit need not be the signal of the own label: the key of a public 1 is 0. *)
LabelsFit ==
  \A i \in Party : \A r \in Tape!Defined(PlainTape(tape), epc[i]) :
    ~ (waiting[i] /\ r = tape[epc[i]].out) =>
      entry[i][r] = [j \in Party |-> Add(hkey[epc[i]][r][j], DeltaIf(j, external[i][r]))]

(* No stream ever runs out and none has anything left at the end: between   *)
(* the executions nothing is stored that is not loaded.  That nothing runs  *)
(* out is that the model never stops before Finished.                       *)
StreamsUsedUp ==
  Finished => /\ twires = <<>>
              /\ \A i \in Party :
                   /\ <<>> = msg_keys[i] /\ <<>> = msg_input_masks[i]
                   /\ <<>> = msg_output_masks[i] /\ <<>> = prf_outputs[i]
                   /\ <<>> = wires[i] /\ <<>> = gates[i]
                   /\ \A j \in Party : net[i][j] = <<>>

(* Party i computes the plain circuit: the bit of a wire is its external    *)
(* bit less the trusted party's mask.  An input counts as done when its     *)
(* external bit is known.                                                   *)
Plain(i) ==
  LET pc == IF waiting[i] THEN epc[i] + 1 ELSE epc[i]
  IN [pc |-> pc, val |-> [r \in Reg |-> hmask[pc][r] # external[i][r]]]

P(i) == INSTANCE PlainCircuit WITH
  Tapes <- {PlainTape(t) : t \in Tapes}, tape <- PlainTape(tape),
  pc <- Plain(i).pc, val <- Plain(i).val, outputs <- outputs[i]

(* The outputs of every party, and the bit on each of its wires, are those  *)
(* of running the program on plain bits: what the four types of             *)
(* BMR/Register compute together.                                           *)
EvaluatesThePlainCircuit ==
  /\ \A i \in Party : P(i)!Init
  /\ [][\A i \in Party : [P(i)!Next]_(P(i)!vars)]_vars
=============================================================================
