------------------------------ MODULE BmrParties ------------------------------
(***************************************************************************)
(* The BMR protocol between the trusted party and the parties, over the     *)
(* nodes of BmrNodes (BMR/TrustedParty.cpp, Party.cpp, CommonParty.cpp;     *)
(* the versions that run a program).                                        *)
(*                                                                         *)
(* A program is garbled in Chunks pieces, where Program::execute breaks.    *)
(* For each, the trusted party draws keys and masks and sends them; each    *)
(* party answers with its PRF outputs; from those of all parties the        *)
(* trusted party garbles the piece and broadcasts it; when all parties have *)
(* received it the next one is prepared, and after the last the parties are *)
(* told to evaluate.  Keys, masks and circuits are their chunk's number.    *)
(*                                                                         *)
(* What a piece is garbled from, and what it is evaluated with, comes from  *)
(* stores that are filled and emptied by different messages.                *)
(*                                                                         *)
(* NewMessage is told the sender that the node has mapped the connection    *)
(* to.  Of the handlers of these programs only that of the PRFs uses it.    *)
(***************************************************************************)
EXTENDS BmrNodes, Functions

CONSTANT Chunks                \* pieces of the program

ASSUME ChunksAssumption == Chunks \in Nat \ {0}

VARIABLES
  (* trusted party *)
  prepared,      \* first_phase: pieces whose keys are drawn
  sentTo,        \* send_randomness: parties that have been sent the keys
  slots,         \* prf_outputs has an entry for each party
  prf_outputs, num_prf_received,
  garbled,       \* second_phase: pieces garbled
  received_gc_received, n_received,
  (* parties *)
  prfs,          \* first_phase of a party: pieces whose PRFs are computed
  delta,         \* the party has its global difference
  spdz_wires,    \* deliveries of SPDZ wires
  wires,         \* wire_storage of everyone
  circuits, input_masks, output_masks,    \* the stores of a party
  (* history *)
  evaluated,     \* what each piece was evaluated with
  undefined      \* the code has no defined behaviour from here on

filling     == <<prepared, sentTo, slots>>
answers     == <<prf_outputs, num_prf_received, garbled, received_gc_received, n_received>>
trustedVars == <<filling, answers>>
partyVars   == <<prfs, delta, spdz_wires, circuits, input_masks, output_masks, evaluated>>
vars == <<nodeVars, trustedVars, partyVars, wires, undefined>>

Msg(t, n) == [type |-> t, n |-> n]

(* The token that LAUNCH_ONLINE adds to the circuits.                       *)
Token == [code |-> 0, wires |-> 0, prfs |-> {}]

Init ==
  /\ NodesInit
  /\ prepared = 0 /\ sentTo = 0 /\ slots = FALSE
  /\ prf_outputs = [p \in Parties |-> 0] /\ num_prf_received = 0
  /\ garbled = 0 /\ received_gc_received = 0 /\ n_received = 0
  /\ prfs = [p \in Parties |-> 0]
  /\ delta = [p \in Parties |-> FALSE]
  /\ spdz_wires = [p \in Parties |-> 0]
  /\ wires = [i \in Nodes |-> <<>>]
  /\ circuits = [p \in Parties |-> <<>>]
  /\ input_masks = [p \in Parties |-> <<>>]
  /\ output_masks = [p \in Parties |-> <<>>]
  /\ evaluated = [p \in Parties |-> <<>>]
  /\ undefined = FALSE

DoneFilling == prepared = Chunks

Deltas == [p \in Parties |-> <<Type("DELTA")>>]
Randomness(n) == <<Msg("KEYS", n), Msg("MASK_INPUTS", n)>>

-----------------------------------------------------------------------------
(* The trusted party.                                                       *)

(* The first NodeReady runs in a listener that holds no lock: the others go  *)
(* on.  A second one would draw keys again, beside the first or after it.    *)
NodeReady(j) ==
  /\ listener[<<Trusted, j>>] = "comparing" /\ AllIdentified(Trusted)
  /\ IF prepared > 0
     THEN /\ undefined' = TRUE
          /\ UNCHANGED <<nodeVars, trustedVars, partyVars, wires>>
     ELSE /\ prepared' = 1
          /\ wires' = [wires EXCEPT ![Trusted] = Append(@, 1)]
          /\ Send(chan, Trusted, Deltas)
          /\ listener' = [listener EXCEPT ![<<Trusted, j>>] = "sending"]
          /\ UNCHANGED <<startup, ending, sentTo, slots, answers, partyVars, undefined>>

SendRandomness(j) ==
  /\ listener[<<Trusted, j>>] = "sending" /\ sentTo < N
  /\ sentTo' = sentTo + 1
  /\ Send(chan, Trusted, ToOne(Trusted, sentTo + 1, Randomness(1)))
  /\ UNCHANGED <<startup, listener, ending, prepared, slots, answers, partyVars, wires,
                 undefined>>

SendOutputMasks(j) ==
  /\ listener[<<Trusted, j>>] = "sending" /\ sentTo = N
  /\ Send(chan, Trusted, ToAll(Trusted, Msg("MASK_OUTPUT", 1)))
  /\ slots' = TRUE
  /\ listener' = [listener EXCEPT ![<<Trusted, j>>] = "receiving"]
  /\ UNCHANGED <<startup, ending, prepared, sentTo, answers, partyVars, wires, undefined>>

(* TYPE_PRF_OUTPUTS: the entry of the sender is written, whose number is     *)
(* what the node has mapped its connection to: entry 0 is before the first.  *)
(* The entries must be there.  The last one makes the garbled circuit.       *)
LastPrf == num_prf_received + 1 = N

\* Fault: the piece is garbled before the last answer is stored.
GarbleTooEarly(outputs) ==
  [code |-> garbled + 1, wires |-> Head(wires[Trusted]), prfs |-> Range(prf_outputs)]

Garble(outputs) ==
  [code |-> garbled + 1, wires |-> Head(wires[Trusted]), prfs |-> Range(outputs)]

TakePrf(j) ==
  /\ prf_outputs' = [prf_outputs EXCEPT ![j] = Head(chan[<<j, Trusted>>]).n]
  /\ IF LastPrf
     THEN LET gc == Garble(prf_outputs')
              msgs == [p \in Parties |-> <<Type("SPDZ_WIRES"), Msg("GARBLED_CIRCUIT", gc)>>]
          IN  /\ num_prf_received' = 0
              /\ garbled' = garbled + 1
              /\ wires' = [wires EXCEPT ![Trusted] = Tail(@)]
              /\ Send(Rest(Trusted, j), Trusted, msgs)
     ELSE /\ num_prf_received' = num_prf_received + 1
          /\ Take(Trusted, j)
          /\ UNCHANGED <<garbled, wires>>

HearPrf(j) ==
  /\ Incoming(Trusted, j, "PRF_OUTPUTS")
  /\ IF slots /\ clientsmap[<<Trusted, j>>] = j
     THEN TakePrf(j) /\ UNCHANGED undefined
     ELSE /\ undefined' = TRUE
          /\ UNCHANGED <<prf_outputs, num_prf_received, garbled, wires, net>>
  /\ UNCHANGED <<startup, listener, ending, filling, received_gc_received, n_received, partyVars>>

(* TYPE_RECEIVED_GC: after the last of them the next piece is prepared and   *)
(* sent (NodeReady under the lock), or the parties are told to evaluate.     *)
NextPiece ==
  IF DoneFilling THEN ToAll(Trusted, Type("LAUNCH_ONLINE"))
  ELSE [p \in Parties |-> <<Type("DELTA")>> \o Randomness(prepared + 1)
                          \o <<Msg("MASK_OUTPUT", prepared + 1)>>]

\* Fault: the first party that has its circuit goes on for all.
AnyReceivedGc == TRUE

LastReceivedGc == received_gc_received + 1 = N

HearReceivedGc(j) ==
  /\ Incoming(Trusted, j, "RECEIVED_GC")
  /\ IF LastReceivedGc
     THEN /\ received_gc_received' = 0
          /\ Send(Rest(Trusted, j), Trusted, NextPiece)
          /\ prepared' = IF DoneFilling THEN prepared ELSE prepared + 1
          /\ wires' = IF DoneFilling THEN wires
                      ELSE [wires EXCEPT ![Trusted] = Append(@, prepared + 1)]
     ELSE /\ received_gc_received' = received_gc_received + 1
          /\ Take(Trusted, j)
          /\ UNCHANGED <<prepared, wires>>
  /\ UNCHANGED <<startup, listener, ending, sentTo, slots, prf_outputs, num_prf_received, garbled,
                 n_received, partyVars, undefined>>

(* TYPE_DONE: the last one stops the node.                                   *)
HearDone(j) ==
  /\ Incoming(Trusted, j, "DONE")
  /\ n_received' = n_received + 1
  /\ Take(Trusted, j)
  /\ IF n_received + 1 = N
     THEN /\ stopping' = stopping \cup {Trusted}
          /\ listener' = [listener EXCEPT ![<<Trusted, j>>] = "stopping"]
     ELSE UNCHANGED <<stopping, listener>>
  /\ UNCHANGED <<startup, sending, closed, filling, prf_outputs, num_prf_received, garbled,
                 received_gc_received, partyVars, wires, undefined>>

TrustedStep == \E j \in Parties :
  \/ NodeReady(j)
  \/ SendRandomness(j)
  \/ SendOutputMasks(j)
  \/ HearPrf(j)
  \/ HearReceivedGc(j)
  \/ HearDone(j)

-----------------------------------------------------------------------------
(* The parties.                                                             *)

PartyReady(p, j) ==
  /\ listener[<<p, j>>] = "comparing" /\ AllIdentified(p)
  /\ listener' = [listener EXCEPT ![<<p, j>>] = "receiving"]
  /\ UNCHANGED <<startup, net, ending, trustedVars, partyVars, wires, undefined>>

FromTrusted(p, t) == Incoming(p, Trusted, t)
Content(p) == Head(chan[<<Trusted, p>>]).n

HearDelta(p) ==
  /\ FromTrusted(p, "DELTA")
  /\ delta' = [delta EXCEPT ![p] = TRUE]
  /\ Take(p, Trusted)
  /\ UNCHANGED <<startup, listener, ending, trustedVars, prfs, spdz_wires, circuits, input_masks,
                 output_masks, evaluated, wires, undefined>>

(* TYPE_KEYS: first_phase stores the wires and the PRFs go back.             *)
HearKeys(p) ==
  /\ FromTrusted(p, "KEYS")
  /\ prfs' = [prfs EXCEPT ![p] = @ + 1]
  /\ wires' = [wires EXCEPT ![p] = Append(@, Content(p))]
  /\ Send(Rest(p, Trusted), p, ToOne(p, Trusted, <<Msg("PRF_OUTPUTS", prfs[p] + 1)>>))
  /\ UNCHANGED <<startup, listener, ending, trustedVars, delta, spdz_wires, circuits, input_masks,
                 output_masks, evaluated, undefined>>

HearMasks(p) ==
  /\ \/ /\ FromTrusted(p, "MASK_INPUTS")
        /\ input_masks' = [input_masks EXCEPT ![p] = Append(@, Content(p))]
        /\ UNCHANGED output_masks
     \/ /\ FromTrusted(p, "MASK_OUTPUT")
        /\ output_masks' = [output_masks EXCEPT ![p] = Append(@, Content(p))]
        /\ UNCHANGED input_masks
  /\ Take(p, Trusted)
  /\ UNCHANGED <<startup, listener, ending, trustedVars, prfs, delta, spdz_wires, circuits,
                 evaluated, wires, undefined>>

HearSpdzWires(p) ==
  /\ FromTrusted(p, "SPDZ_WIRES")
  /\ spdz_wires' = [spdz_wires EXCEPT ![p] = @ + 1]
  /\ Take(p, Trusted)
  /\ UNCHANGED <<startup, listener, ending, trustedVars, prfs, delta, circuits, input_masks,
                 output_masks, evaluated, wires, undefined>>

HearCircuit(p) ==
  /\ FromTrusted(p, "GARBLED_CIRCUIT")
  /\ circuits' = [circuits EXCEPT ![p] = Append(@, Content(p))]
  /\ Send(Rest(p, Trusted), p, ToOne(p, Trusted, <<Type("RECEIVED_GC")>>))
  /\ UNCHANGED <<startup, listener, ending, trustedVars, prfs, delta, spdz_wires, input_masks,
                 output_masks, evaluated, wires, undefined>>

HearLaunch(p) ==
  /\ FromTrusted(p, "LAUNCH_ONLINE")
  /\ circuits' = [circuits EXCEPT ![p] = Append(@, Token)]
  /\ listener' = [listener EXCEPT ![<<p, Trusted>>] = "evaluating"]
  /\ Take(p, Trusted)
  /\ UNCHANGED <<startup, ending, trustedVars, prfs, delta, spdz_wires, input_masks,
                 output_masks, evaluated, wires, undefined>>

(* One round of _check_evaluate: load_garbled_circuit and second_phase.  An  *)
(* empty store is an exception in a thread, which ends the process.          *)
CanLoad(p) == <<>> \notin {circuits[p], output_masks[p], input_masks[p], wires[p]}

Evaluate(p) ==
  /\ listener[<<p, Trusted>>] = "evaluating" /\ CanLoad(p)
  /\ Len(evaluated[p]) < Chunks
  /\ evaluated' = [evaluated EXCEPT ![p] = Append(@,
       [circuit |-> Head(circuits[p]), inputs |-> Head(input_masks[p]),
        outputs |-> Head(output_masks[p]), keys |-> Head(wires[p])])]
  /\ circuits' = [circuits EXCEPT ![p] = Tail(@)]
  /\ input_masks' = [input_masks EXCEPT ![p] = Tail(@)]
  /\ output_masks' = [output_masks EXCEPT ![p] = Tail(@)]
  /\ wires' = [wires EXCEPT ![p] = Tail(@)]
  /\ UNCHANGED <<nodeVars, trustedVars, prfs, delta, spdz_wires, undefined>>

(* done: the message is queued before the node is stopped, but the node may  *)
(* have been stopped already by the end of another party.                    *)
Done(p) ==
  /\ listener[<<p, Trusted>>] = "evaluating" /\ Len(evaluated[p]) = Chunks
  /\ Send(chan, p, ToOne(p, Trusted, <<Type("DONE")>>))
  /\ stopping' = stopping \cup {p}
  /\ listener' = [listener EXCEPT ![<<p, Trusted>>] = "stopping"]
  /\ UNCHANGED <<startup, sending, closed, trustedVars, partyVars, wires, undefined>>

PartyStep(p) ==
  \/ \E j \in Others(p) : PartyReady(p, j)
  \/ HearDelta(p)
  \/ HearKeys(p)
  \/ HearMasks(p)
  \/ HearSpdzWires(p)
  \/ HearCircuit(p)
  \/ HearLaunch(p)
  \/ Evaluate(p)
  \/ Done(p)

Next ==
  /\ ~undefined
  /\ \/ TrustedStep
     \/ \E p \in Parties : PartyStep(p)
     \/ \E i \in Nodes : NodeStep(i) /\ UNCHANGED <<trustedVars, partyVars, wires, undefined>>

(* Every thread that can go on does.                                        *)
Spec == Init /\ [][Next]_vars /\ WF_vars(Next)

-----------------------------------------------------------------------------
(* Every piece is evaluated with the circuit, the masks and the keys of that *)
(* piece, and its circuit was garbled from the wires and from every party's  *)
(* PRFs of the same piece.                                                   *)
Aligned == \A p \in Parties : \A k \in DOMAIN evaluated[p] :
  evaluated[p][k] = [circuit |-> [code |-> k, wires |-> k, prfs |-> {k}],
                     inputs |-> k, outputs |-> k, keys |-> k]

(* A party that evaluates finds something in each of its stores, and has had *)
(* the SPDZ wires of every piece and its difference.                         *)
StoresFilled == \A p \in Parties :
  listener[<<p, Trusted>>] = "evaluating" /\ Len(evaluated[p]) < Chunks =>
    CanLoad(p) /\ spdz_wires[p] = Chunks /\ delta[p]

(* The stores on both sides, which six kinds of messages fill and which are  *)
(* emptied in another phase, are never out of step and never short.          *)
StoresInStep == Aligned /\ StoresFilled

(* However early a node is stopped by another that ends, nothing is left in  *)
(* a queue whose thread has gone but messages that nobody waits for then:    *)
(* that a party is done, and that a node whose start thread slept through    *)
(* the protocol knows the others.                                           *)
NothingNeededLost == lost \subseteq {"DONE", "ALL_IDENTIFIED"}

(* Unless it becomes undefined, Start returns at every node, with the whole  *)
(* program evaluated by every party.  A party that the trusted party has     *)
(* mapped to 0 makes it undefined with its first PRFs.                       *)
AllDone ==
  /\ \A i \in Nodes : Returned(i)
  /\ \A p \in Parties : Len(evaluated[p]) = Chunks
Termination == []~undefined => <>AllDone
=============================================================================
