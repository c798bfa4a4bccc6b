------------------------- MODULE BmrParties_proofs -------------------------
(***************************************************************************)
(* Proofs about BmrParties: what a party evaluates with is of one piece and *)
(* there when it is needed, and no send thread leaves a message behind that *)
(* somebody waits for.                                                      *)
(*                                                                         *)
(* Between the trusted party and a party the messages of the protocol are   *)
(* always the same, in the same order: six for each piece on the way down,  *)
(* and then the launch; two for each piece on the way up, and then that the *)
(* party is done.  So a message is known by its number, and a channel by    *)
(* how many have been sent and how many received.                           *)
(***************************************************************************)
EXTENDS BmrParties, SequenceFacts, FiniteSetTheorems

(* Messages of the network itself may be anywhere between those.            *)
Protocol(m) == m.type \notin {"ID", "ALL_IDENTIFIED", "EOF"}

(* The circuit of piece k, as it should be.                                 *)
Circuit(k) == [code |-> k, wires |-> k, prfs |-> {k}]

(* Message number c, from 0, of the piece after k pieces; and message       *)
(* number h of the protocol.                                                *)
DownOf(k, c) ==
  CASE c = 0 -> Type("DELTA")
    [] c = 1 -> Msg("KEYS", k + 1)
    [] c = 2 -> Msg("MASK_INPUTS", k + 1)
    [] c = 3 -> Msg("MASK_OUTPUT", k + 1)
    [] c = 4 -> Type("SPDZ_WIRES")
    [] c = 5 -> Msg("GARBLED_CIRCUIT", Circuit(k + 1))
UpOf(k, c) == IF c = 0 THEN Msg("PRF_OUTPUTS", k + 1) ELSE Type("RECEIVED_GC")

Down == [h \in Nat |-> IF h = 6 * Chunks THEN Type("LAUNCH_ONLINE") ELSE DownOf(h \div 6, h % 6)]
Up   == [h \in Nat |-> IF h = 2 * Chunks THEN Type("DONE") ELSE UpOf(h \div 2, h % 2)]

(* A channel holds messages a to b - 1 of M: pos[i] of them were sent       *)
(* before the (i+1)-th message in it.                                       *)
Numbers(ch, pos, a, b) ==
  /\ pos \in [0 .. Len(ch) -> Nat]
  /\ pos[0] = a /\ pos[Len(ch)] = b
  /\ \A i \in 1 .. Len(ch) : pos[i] <= b
  /\ \A i \in 1 .. Len(ch) : pos[i] = IF Protocol(ch[i]) THEN pos[i - 1] + 1 ELSE pos[i - 1]
Carries(ch, M, a, b) ==
  \E pos : /\ Numbers(ch, pos, a, b)
           /\ \A i \in 1 .. Len(ch) : Protocol(ch[i]) => ch[i] = M[pos[i - 1]]

Inside(ch, t) == \E i \in 1 .. Len(ch) : ch[i].type = t

-----------------------------------------------------------------------------
(* The inductive invariant.  L says that the launch has been sent; party p  *)
(* has received hk[p] pieces and hc[p] messages of the next one, and sent   *)
(* U[p] messages that were not lost, of which V[p] have been received.      *)

Heard(hk, hc, p) == 6 * hk[p] + hc[p]

SentDown(L, p) ==
  IF L THEN 6 * Chunks + 1
  ELSE IF garbled = prepared THEN 6 * prepared
  ELSE IF slots THEN 6 * garbled + 4
  ELSE IF p <= sentTo THEN 3 ELSE 1

WitnessTypes(L, hk, hc, U, V) ==
  /\ L \in BOOLEAN
  /\ hk \in [Parties -> 0 .. Chunks] /\ hc \in [Parties -> 0 .. 5]
  /\ \A p \in Parties : hk[p] = Chunks => hc[p] <= 1
  /\ U \in [Parties -> Nat] /\ V \in [Parties -> Nat]

(* The trusted party is waiting for PRFs, for circuits to be received, or   *)
(* for the end.                                                             *)
Answers(L, V) ==
  /\ L => prepared = Chunks /\ garbled = Chunks
  /\ \A p \in Parties :
       /\ L => V[p] \in {2 * Chunks, 2 * Chunks + 1}
       /\ ~L /\ garbled < prepared => V[p] \in {2 * garbled, 2 * garbled + 1}
       /\ ~L /\ garbled = prepared /\ garbled > 0 => V[p] \in {2 * garbled - 1, 2 * garbled}
       /\ prepared = 0 => V[p] = 0
       /\ \A k \in Nat : V[p] \in {2 * k - 1, 2 * k} /\ k <= Chunks => prf_outputs[p] = k
       /\ V[p] > 0 => clientsmap[<<Trusted, p>>] = p

SentPrf(V) == {p \in Parties : V[p] = 2 * garbled + 1}
HasCircuit(V) == {p \in Parties : V[p] = 2 * garbled}

Counts(L, V) ==
  /\ num_prf_received =
       IF ~L /\ garbled < prepared THEN Cardinality(SentPrf(V)) ELSE 0
  /\ received_gc_received =
       IF ~L /\ garbled = prepared /\ garbled > 0 THEN Cardinality(HasCircuit(V)) ELSE 0
  /\ num_prf_received < N /\ received_gc_received < N

TrustedInv(L, V) ==
  /\ prepared \in 0 .. Chunks /\ garbled \in 0 .. Chunks
  /\ garbled <= prepared /\ prepared <= garbled + 1
  /\ wires[Trusted] = IF garbled = prepared THEN <<>> ELSE <<prepared>>
  /\ sentTo \in 0 .. N /\ slots \in BOOLEAN
  /\ slots => prepared > 0
  /\ ~slots => prepared <= 1 /\ garbled = 0 /\ ~L /\ \A p \in Parties : V[p] = 0
  /\ prepared = 0 => sentTo = 0
  /\ prf_outputs \in [Parties -> Nat]
  /\ \A j \in Parties : listener[<<Trusted, j>>] = "sending" => prepared = 1 /\ ~slots
  /\ \A j, k \in Parties :
       listener[<<Trusted, j>>] = "sending" /\ listener[<<Trusted, k>>] = "sending" => j = k

(* s holds the pieces after e up to n.                                      *)
Pieces(s, e, n) == IsSeq(s) /\ Len(s) = n - e /\ \A i \in 1 .. Len(s) : s[i] = e + i

More(hc, p, c) == IF hc[p] >= c THEN 1 ELSE 0
Launched(hk, hc, p) == hk[p] = Chunks /\ hc[p] = 1
IsDone(p) == Len(evaluated[p]) = Chunks /\ listener[<<p, Trusted>>] # "evaluating"

StoresInv(hk, hc, p) ==
  LET e == Len(evaluated[p])
  IN /\ IsSeq(evaluated[p]) /\ e \in 0 .. Chunks
     /\ e > 0 => Launched(hk, hc, p)
     /\ Pieces(wires[p], e, hk[p] + More(hc, p, 2))
     /\ Pieces(input_masks[p], e, hk[p] + More(hc, p, 3))
     /\ Pieces(output_masks[p], e, hk[p] + More(hc, p, 4))
     /\ IsSeq(circuits[p])
     /\ Len(circuits[p]) = hk[p] - e + (IF Launched(hk, hc, p) THEN 1 ELSE 0)
     /\ \A i \in 1 .. hk[p] - e : circuits[p][i] = Circuit(e + i)
     /\ \A k \in 1 .. e : evaluated[p][k] =
          [circuit |-> Circuit(k), inputs |-> k, outputs |-> k, keys |-> k]

PartyInv(hk, hc, U, p) ==
  /\ StoresInv(hk, hc, p)
  /\ prfs[p] = hk[p] + More(hc, p, 2)
  /\ spdz_wires[p] = hk[p] + More(hc, p, 5)
  /\ Heard(hk, hc, p) > 0 => delta[p]
  /\ IF IsDone(p) THEN U[p] \in {2 * Chunks, 2 * Chunks + 1}
                  ELSE U[p] = 2 * hk[p] + More(hc, p, 2)
  /\ listener[<<p, Trusted>>] = "evaluating" => Launched(hk, hc, p)

ChannelInv(L, hk, hc, U, V, p) ==
  /\ Carries(chan[<<Trusted, p>>], Down, Heard(hk, hc, p), SentDown(L, p))
  /\ Carries(chan[<<p, Trusted>>], Up, V[p], U[p])

(* The network: who has identified itself, and who is stopping.             *)
NetChannels ==
  /\ \A c \in Connections : IsSeq(chan[c])
  /\ \A c \in Connections : Inside(chan[c], "ID") => conn[c[1]] = "done"
  /\ \A c \in Connections : Inside(chan[c], "EOF") => c[1] \in stopping
  /\ \A j \in Parties : Inside(chan[<<j, Trusted>>], "ALL_IDENTIFIED") => conn[Trusted] = "done"

NetRest(L) ==
  /\ \A i \in Nodes : \A j \in ready_nodes[i] : conn[j] = "done"
  /\ \A p \in Parties : clientsmap[<<Trusted, p>>] = p => conn[p] = "done"
  /\ num_identified[Trusted] \in Nat
  /\ num_identified[Trusted] > 0 \/ prepared > 0 => conn[Trusted] = "done"
  /\ \A c \in Connections : listener[c] \in {"stopping", "aborting"} => c[1] \in stopping
  /\ \A c \in Connections : c \notin sending => c[1] \in stopping
  /\ stopping # {} => L

Functions ==
  /\ DOMAIN chan = Connections /\ DOMAIN listener = Connections
  /\ DOMAIN conn = Nodes /\ DOMAIN starter = Nodes
  /\ DOMAIN ready_nodes = Nodes /\ DOMAIN num_identified = Nodes
  /\ DOMAIN clientsmap = Connections
  /\ DOMAIN wires = Nodes
  /\ DOMAIN prfs = Parties /\ DOMAIN delta = Parties /\ DOMAIN spdz_wires = Parties
  /\ DOMAIN circuits = Parties /\ DOMAIN input_masks = Parties
  /\ DOMAIN output_masks = Parties /\ DOMAIN evaluated = Parties

TrustedPart(L, V) == Answers(L, V) /\ Counts(L, V) /\ TrustedInv(L, V)
NetPart(L) == NetChannels /\ NetRest(L) /\ NothingNeededLost

Holds(L, hk, hc, U, V) ==
  /\ WitnessTypes(L, hk, hc, U, V)
  /\ Functions
  /\ TrustedPart(L, V)
  /\ \A p \in Parties : PartyInv(hk, hc, U, p)
  /\ \A p \in Parties : ChannelInv(L, hk, hc, U, V, p)
  /\ NetPart(L)

IInv == \E L, hk, hc, U, V : Holds(L, hk, hc, U, V)

-----------------------------------------------------------------------------
(* Channels.                                                                *)

(* Messages by the number of the piece and the number in it.                *)
LEMMA DownIs ==
  /\ Down[6 * Chunks] = Type("LAUNCH_ONLINE")
  /\ \A k \in Nat, c \in 0 .. 5 : 6 * k + c # 6 * Chunks => Down[6 * k + c] = DownOf(k, c)
<1>1. 6 * Chunks \in Nat
  BY ChunksAssumption
<1>2. ASSUME NEW k \in Nat, NEW c \in 0 .. 5
      PROVE  6 * k + c \in Nat /\ (6 * k + c) \div 6 = k /\ (6 * k + c) % 6 = c
  OBVIOUS
<1> QED
  BY <1>1, <1>2 DEF Down

LEMMA UpIs ==
  /\ Up[2 * Chunks] = Type("DONE")
  /\ \A k \in Nat, c \in 0 .. 1 : 2 * k + c # 2 * Chunks => Up[2 * k + c] = UpOf(k, c)
<1>1. 2 * Chunks \in Nat
  BY ChunksAssumption
<1>2. ASSUME NEW k \in Nat, NEW c \in 0 .. 1
      PROVE  2 * k + c \in Nat /\ (2 * k + c) \div 2 = k /\ (2 * k + c) % 2 = c
  OBVIOUS
<1> QED
  BY <1>1, <1>2 DEF Up

(* Messages of the protocol that are sent are the next of the channel.      *)
LEMMA CarriesMore ==
  ASSUME NEW ch, NEW M, NEW a, NEW b \in Nat, NEW l, IsSeq(ch), IsSeq(l), Carries(ch, M, a, b),
         \A i \in 1 .. Len(l) : Protocol(l[i]) /\ l[i] = M[b + i - 1]
  PROVE  Carries(ch \o l, M, a, b + Len(l))
<1>1. PICK pos : Numbers(ch, pos, a, b)
                 /\ \A i \in 1 .. Len(ch) : Protocol(ch[i]) => ch[i] = M[pos[i - 1]]
  BY DEF Carries
<1> DEFINE n == Len(ch)
           c == ch \o l
           q == [i \in 0 .. n + Len(l) |-> IF i <= n THEN pos[i] ELSE b + (i - n)]
<1>2. /\ n \in Nat /\ Len(l) \in Nat /\ Len(c) = n + Len(l)
      /\ \A i \in 1 .. n : c[i] = ch[i]
      /\ \A i \in 1 .. Len(l) : c[n + i] = l[i]
  BY CatElements DEF Cat
<1> HIDE DEF c
<1>3. /\ pos \in [0 .. n -> Nat] /\ pos[0] = a /\ pos[n] = b
      /\ \A i \in 1 .. n : pos[i] <= b
  BY <1>1 DEF Numbers
<1>8. /\ \A i \in 1 .. n : pos[i] = IF Protocol(ch[i]) THEN pos[i - 1] + 1 ELSE pos[i - 1]
      /\ \A i \in 1 .. n : Protocol(ch[i]) => ch[i] = M[pos[i - 1]]
  BY <1>1 DEF Numbers
<1>4. /\ \A i \in 0 .. n : q[i] = pos[i] /\ pos[i] \in Nat /\ pos[i] <= b
      /\ \A j \in 0 .. Len(l) : q[n + j] = b + j
  <2>1. \A i \in 0 .. n : q[i] = pos[i] /\ pos[i] \in Nat
    BY <1>2, <1>3
  <2>2. \A i \in 0 .. n : pos[i] <= b
    <3>1. a <= b
      <4>1. CASE n = 0
        BY <1>3, <4>1
      <4>2. CASE n > 0
        <5>1. 1 \in 1 .. n /\ 1 - 1 = 0 /\ 0 \in 0 .. n /\ 1 \in 0 .. n
          BY <1>2, <4>2
        <5>2. pos[0] \in Nat /\ pos[1] \in Nat
          BY <1>3, <5>1
        <5>3. pos[1] \in {pos[0], pos[0] + 1} /\ pos[1] <= b /\ pos[0] = a
          BY <1>3, <1>8, <5>1
        <5> QED BY ONLY b \in Nat, <5>2, <5>3
      <4> QED BY <1>2, <4>1, <4>2
    <3> QED BY <1>3, <3>1
  <2>3. ASSUME NEW j \in 0 .. Len(l) PROVE q[n + j] = b + j
    <3>1. n + j \in 0 .. n + Len(l) /\ (n + j <= n <=> j = 0) /\ n + j - n = j
      BY <1>2
    <3>2. pos[n] = b
      BY <1>3
    <3>3. CASE j = 0
      <4>1. n + j = n
        BY <1>2, <3>3
      <4> QED BY <3>1, <3>2, <3>3, <4>1
    <3>4. CASE j # 0
      BY <3>1, <3>4
    <3> QED BY <3>3, <3>4
  <2> QED BY <1>2, <2>1, <2>2, <2>3
<1>9. DOMAIN q = 0 .. Len(c) /\ q = [i \in 0 .. Len(c) |-> q[i]]
  BY <1>2
<1> HIDE DEF q
<1>5. ASSUME NEW i \in 1 .. Len(c)
      PROVE  /\ q[i] = IF Protocol(c[i]) THEN q[i - 1] + 1 ELSE q[i - 1]
             /\ Protocol(c[i]) => c[i] = M[q[i - 1]]
  <2>1. CASE i <= n
    <3>1. i \in 1 .. n /\ i \in 0 .. n /\ i - 1 \in 0 .. n
      BY <1>2, <2>1
    <3> QED BY <1>2, <1>8, <1>4, <3>1
  <2>2. CASE i > n
    <3>1. PICK j \in 1 .. Len(l) : i = n + j
      <4>1. i - n \in 1 .. Len(l) /\ i = n + (i - n)
        BY <1>2, <2>2
      <4> QED BY <4>1
    <3>2. c[i] = l[j] /\ Protocol(l[j]) /\ l[j] = M[b + j - 1]
      BY <1>2, <3>1
    <3>3. j \in 0 .. Len(l) /\ j - 1 \in 0 .. Len(l) /\ i - 1 = n + (j - 1)
      BY <1>2, <3>1
    <3>4. q[i] = b + j /\ q[i - 1] = b + (j - 1)
      BY <1>4, <3>1, <3>3
    <3>5. b + (j - 1) = b + j - 1 /\ b + j = b + j - 1 + 1
      BY <3>3
    <3> QED BY <3>2, <3>4, <3>5
  <2> QED BY <2>1, <2>2, <1>2
<1>6. /\ q \in [0 .. Len(c) -> Nat] /\ q[0] = a /\ q[Len(c)] = b + Len(l)
      /\ \A i \in 0 .. Len(c) : q[i] <= b + Len(l)
  <2>1. ASSUME NEW i \in 0 .. Len(c) PROVE q[i] \in Nat /\ q[i] <= b + Len(l)
    <3>1. CASE i <= n
      <4>1. i \in 0 .. n
        BY <1>2, <3>1
      <4>2. q[i] \in Nat /\ q[i] <= b
        BY <1>4, <4>1
      <4> QED BY <1>2, <4>2
    <3>2. CASE i > n
      <4>1. PICK j \in 0 .. Len(l) : i = n + j
        <5>1. i - n \in 0 .. Len(l) /\ i = n + (i - n)
          BY <1>2, <3>2
        <5> QED BY <5>1
      <4>2. q[i] = b + j
        BY <1>4, <4>1
      <4> QED BY <1>2, <4>1, <4>2
    <3> QED BY <3>1, <3>2, <1>2
  <2>2. 0 \in 0 .. n /\ Len(l) \in 0 .. Len(l)
    BY <1>2
  <2>3. q[0] = a /\ q[Len(c)] = b + Len(l)
    BY <1>2, <1>3, <1>4, <2>2
  <2> QED BY <1>9, <2>1, <2>3
<1>7. Carries(c, M, a, b + Len(l))
  <2>1. \A i \in 1 .. Len(c) : q[i] <= b + Len(l)
    BY <1>2, <1>6
  <2>2. Numbers(c, q, a, b + Len(l))
    BY <1>5, <1>6, <2>1 DEF Numbers
  <2>3. \A i \in 1 .. Len(c) : Protocol(c[i]) => c[i] = M[q[i - 1]]
    BY <1>5
  <2> QED BY <2>2, <2>3 DEF Carries
<1> QED
  BY <1>7 DEF c

(* Messages of the network do not count.                                    *)
LEMMA CarriesNoise ==
  ASSUME NEW ch, NEW M, NEW a, NEW b \in Nat, NEW l, IsSeq(ch), IsSeq(l), Carries(ch, M, a, b),
         \A i \in 1 .. Len(l) : ~Protocol(l[i])
  PROVE  Carries(ch \o l, M, a, b)
<1>1. PICK pos : Numbers(ch, pos, a, b)
                 /\ \A i \in 1 .. Len(ch) : Protocol(ch[i]) => ch[i] = M[pos[i - 1]]
  BY DEF Carries
<1> DEFINE n == Len(ch)
           c == ch \o l
           q == [i \in 0 .. n + Len(l) |-> IF i <= n THEN pos[i] ELSE b]
<1>2. /\ n \in Nat /\ Len(l) \in Nat /\ Len(c) = n + Len(l)
      /\ \A i \in 1 .. n : c[i] = ch[i]
      /\ \A i \in 1 .. Len(l) : c[n + i] = l[i]
  BY CatElements DEF Cat
<1> HIDE DEF c
<1>3. /\ pos \in [0 .. n -> Nat] /\ pos[0] = a /\ pos[n] = b
      /\ \A i \in 1 .. n : pos[i] <= b
  BY <1>1 DEF Numbers
<1>8. /\ \A i \in 1 .. n : pos[i] = IF Protocol(ch[i]) THEN pos[i - 1] + 1 ELSE pos[i - 1]
      /\ \A i \in 1 .. n : Protocol(ch[i]) => ch[i] = M[pos[i - 1]]
  BY <1>1 DEF Numbers
<1>4. /\ \A i \in 0 .. n : q[i] = pos[i] /\ pos[i] \in Nat /\ pos[i] <= b
      /\ \A j \in 0 .. Len(l) : q[n + j] = b
  <2>1. \A i \in 0 .. n : q[i] = pos[i] /\ pos[i] \in Nat
    BY <1>2, <1>3
  <2>2. \A i \in 0 .. n : pos[i] <= b
    <3>1. a <= b
      <4>1. CASE n = 0
        BY <1>3, <4>1
      <4>2. CASE n > 0
        <5>1. 1 \in 1 .. n /\ 1 - 1 = 0 /\ 0 \in 0 .. n /\ 1 \in 0 .. n
          BY <1>2, <4>2
        <5>2. pos[0] \in Nat /\ pos[1] \in Nat
          BY <1>3, <5>1
        <5>3. pos[1] \in {pos[0], pos[0] + 1} /\ pos[1] <= b /\ pos[0] = a
          BY <1>3, <1>8, <5>1
        <5> QED BY ONLY b \in Nat, <5>2, <5>3
      <4> QED BY <1>2, <4>1, <4>2
    <3> QED BY <1>3, <3>1
  <2>3. ASSUME NEW j \in 0 .. Len(l) PROVE q[n + j] = b
    <3>1. n + j \in 0 .. n + Len(l) /\ (n + j <= n <=> j = 0) /\ n + j - n = j
      BY <1>2
    <3>2. pos[n] = b
      BY <1>3
    <3>3. CASE j = 0
      <4>1. n + j = n
        BY <1>2, <3>3
      <4> QED BY <3>1, <3>2, <3>3, <4>1
    <3>4. CASE j # 0
      BY <3>1, <3>4
    <3> QED BY <3>3, <3>4
  <2> QED BY <1>2, <2>1, <2>2, <2>3
<1>9. DOMAIN q = 0 .. Len(c) /\ q = [i \in 0 .. Len(c) |-> q[i]]
  BY <1>2
<1> HIDE DEF q
<1>5. ASSUME NEW i \in 1 .. Len(c)
      PROVE  /\ q[i] = IF Protocol(c[i]) THEN q[i - 1] + 1 ELSE q[i - 1]
             /\ Protocol(c[i]) => c[i] = M[q[i - 1]]
  <2>1. CASE i <= n
    <3>1. i \in 1 .. n /\ i \in 0 .. n /\ i - 1 \in 0 .. n
      BY <1>2, <2>1
    <3> QED BY <1>2, <1>8, <1>4, <3>1
  <2>2. CASE i > n
    <3>1. PICK j \in 1 .. Len(l) : i = n + j
      <4>1. i - n \in 1 .. Len(l) /\ i = n + (i - n)
        BY <1>2, <2>2
      <4> QED BY <4>1
    <3>2. c[i] = l[j] /\ ~Protocol(l[j])
      BY <1>2, <3>1
    <3>3. j \in 0 .. Len(l) /\ j - 1 \in 0 .. Len(l) /\ i - 1 = n + (j - 1)
      BY <1>2, <3>1
    <3>4. q[i] = b /\ q[i - 1] = b
      BY <1>4, <3>1, <3>3
    <3>5. TRUE
      BY <3>3
    <3> QED BY <3>2, <3>4, <3>5
  <2> QED BY <2>1, <2>2, <1>2
<1>6. /\ q \in [0 .. Len(c) -> Nat] /\ q[0] = a /\ q[Len(c)] = b
      /\ \A i \in 0 .. Len(c) : q[i] <= b
  <2>1. ASSUME NEW i \in 0 .. Len(c) PROVE q[i] \in Nat /\ q[i] <= b
    <3>1. CASE i <= n
      <4>1. i \in 0 .. n
        BY <1>2, <3>1
      <4>2. q[i] \in Nat /\ q[i] <= b
        BY <1>4, <4>1
      <4> QED BY <1>2, <4>2
    <3>2. CASE i > n
      <4>1. PICK j \in 0 .. Len(l) : i = n + j
        <5>1. i - n \in 0 .. Len(l) /\ i = n + (i - n)
          BY <1>2, <3>2
        <5> QED BY <5>1
      <4>2. q[i] = b
        BY <1>4, <4>1
      <4> QED BY <1>2, <4>1, <4>2
    <3> QED BY <3>1, <3>2, <1>2
  <2>2. 0 \in 0 .. n /\ Len(l) \in 0 .. Len(l)
    BY <1>2
  <2>3. q[0] = a /\ q[Len(c)] = b
    BY <1>2, <1>3, <1>4, <2>2
  <2> QED BY <1>9, <2>1, <2>3
<1>7. Carries(c, M, a, b)
  <2>1. \A i \in 1 .. Len(c) : q[i] <= b
    BY <1>2, <1>6
  <2>2. Numbers(c, q, a, b)
    BY <1>5, <1>6, <2>1 DEF Numbers
  <2>3. \A i \in 1 .. Len(c) : Protocol(c[i]) => c[i] = M[q[i - 1]]
    BY <1>5
  <2> QED BY <2>2, <2>3 DEF Carries
<1> QED
  BY <1>7 DEF c

(* A message of the protocol that is received is the oldest that has not    *)
(* been; any other leaves the numbers alone.                                *)
LEMMA CarriesTail ==
  ASSUME NEW ch, NEW M, NEW a, NEW b, IsSeq(ch), ch # <<>>, Carries(ch, M, a, b)
  PROVE  /\ Protocol(Head(ch)) => /\ Head(ch) = M[a] /\ a \in Nat /\ b \in Nat /\ a < b
                                  /\ Carries(Tail(ch), M, a + 1, b)
         /\ ~Protocol(Head(ch)) => Carries(Tail(ch), M, a, b)
<1>1. PICK pos : Numbers(ch, pos, a, b)
                 /\ \A i \in 1 .. Len(ch) : Protocol(ch[i]) => ch[i] = M[pos[i - 1]]
  BY DEF Carries
<1> DEFINE n == Len(ch)
           t == Tail(ch)
           q == [i \in 0 .. n - 1 |-> pos[i + 1]]
<1>2. /\ n \in Nat /\ n > 0 /\ Len(t) = n - 1 /\ Head(ch) = ch[1]
      /\ \A i \in 1 .. n - 1 : t[i] = ch[i + 1]
  BY TailFacts, LengthFacts
<1> HIDE DEF t
<1>3. /\ pos \in [0 .. n -> Nat] /\ pos[0] = a /\ pos[n] = b /\ b \in Nat
      /\ \A i \in 1 .. n : pos[i] <= b
      /\ \A i \in 1 .. n : pos[i] = IF Protocol(ch[i]) THEN pos[i - 1] + 1 ELSE pos[i - 1]
      /\ \A i \in 1 .. n : Protocol(ch[i]) => ch[i] = M[pos[i - 1]]
  BY <1>1, <1>2 DEF Numbers
<1>4. /\ q \in [0 .. Len(t) -> Nat] /\ q[0] = pos[1] /\ q[Len(t)] = b
      /\ \A i \in 1 .. Len(t) : q[i] <= b
  BY <1>2, <1>3
<1>5. ASSUME NEW i \in 1 .. Len(t)
      PROVE  /\ q[i] = IF Protocol(t[i]) THEN q[i - 1] + 1 ELSE q[i - 1]
             /\ Protocol(t[i]) => t[i] = M[q[i - 1]]
  <2>1. i \in Int /\ i + 1 \in 1 .. n /\ t[i] = ch[i + 1] /\ q[i] = pos[i + 1] /\ q[i - 1] = pos[i]
    BY <1>2
  <2>2. (i + 1) - 1 = i
    BY <2>1
  <2> QED BY <1>3, <2>1, <2>2
<1> HIDE DEF q
<1>6. Carries(t, M, pos[1], b)
  BY <1>4, <1>5, <1>3 DEF Carries, Numbers
<1>7. /\ pos[1] = IF Protocol(ch[1]) THEN pos[0] + 1 ELSE pos[0]
      /\ Protocol(ch[1]) => ch[1] = M[pos[0]]
      /\ pos[1] <= b /\ pos[0] \in Nat
  <2>1. 1 \in 1 .. n /\ 1 - 1 = 0 /\ 0 \in 0 .. n
    BY <1>2
  <2> QED BY <1>3, <2>1
<1> QED
  BY <1>2, <1>3, <1>6, <1>7 DEF t

(* Nothing is carried by an empty channel.                                  *)
LEMMA CarriesNothing ==
  ASSUME NEW M, NEW a \in Nat
  PROVE  Carries(<<>>, M, a, a)
<1> DEFINE pos == [i \in 0 .. 0 |-> a]
<1>1. Len(<<>>) = 0
  BY EmptyFacts
<1>2. Numbers(<<>>, pos, a, a)
  BY <1>1 DEF Numbers
<1> QED
  BY <1>1, <1>2 DEF Carries

(* What is in a channel was there or has been put there.                    *)
LEMMA InsideMore ==
  ASSUME NEW ch, NEW l, NEW t, IsSeq(ch), IsSeq(l)
  PROVE  IsSeq(ch \o l) /\ (Inside(ch \o l, t) => Inside(ch, t) \/ Inside(l, t))
<1> DEFINE c == ch \o l
<1>2. /\ IsSeq(c) /\ Len(ch) \in Nat /\ Len(l) \in Nat /\ Len(c) = Len(ch) + Len(l)
      /\ \A i \in 1 .. Len(ch) : c[i] = ch[i]
      /\ \A i \in 1 .. Len(l) : c[Len(ch) + i] = l[i]
  BY CatElements, CatSeq DEF Cat
<1> HIDE DEF c
<1>3. ASSUME NEW i \in 1 .. Len(c), c[i].type = t
      PROVE  Inside(ch, t) \/ Inside(l, t)
  <2>1. CASE i <= Len(ch)
    BY <1>2, <1>3, <2>1 DEF Inside
  <2>2. CASE i > Len(ch)
    <3>1. i - Len(ch) \in 1 .. Len(l) /\ i = Len(ch) + (i - Len(ch))
      BY <1>2, <2>2
    <3> QED BY <1>2, <1>3, <3>1 DEF Inside
  <2> QED BY <2>1, <2>2, <1>2
<1>4. Inside(c, t) => Inside(ch, t) \/ Inside(l, t)
  BY <1>3 DEF Inside
<1> QED BY <1>2, <1>4 DEF c

LEMMA InsideTail ==
  ASSUME NEW ch, NEW t, IsSeq(ch), ch # <<>>
  PROVE  /\ IsSeq(Tail(ch)) /\ (Inside(Tail(ch), t) => Inside(ch, t))
         /\ Inside(ch, Head(ch).type)
<1>1. /\ Len(ch) \in Nat /\ Len(ch) > 0 /\ IsSeq(Tail(ch)) /\ Len(Tail(ch)) = Len(ch) - 1
      /\ Head(ch) = ch[1] /\ \A i \in 1 .. Len(ch) - 1 : Tail(ch)[i] = ch[i + 1]
  BY TailFacts, LengthFacts
<1>2. ASSUME NEW i \in 1 .. Len(Tail(ch)), Tail(ch)[i].type = t PROVE Inside(ch, t)
  <2>1. i + 1 \in 1 .. Len(ch) /\ Tail(ch)[i] = ch[i + 1]
    BY <1>1
  <2> QED BY <1>2, <2>1 DEF Inside
<1>3. Inside(Tail(ch), t) => Inside(ch, t)
  BY <1>2 DEF Inside
<1>4. 1 \in 1 .. Len(ch)
  BY <1>1
<1> QED BY <1>1, <1>3, <1>4 DEF Inside

-----------------------------------------------------------------------------
(* The nodes and their connections.                                         *)
LEMMA NodeFacts ==
  /\ N \in Nat /\ N >= 1 /\ Chunks \in Nat /\ Chunks >= 1
  /\ Trusted \in Nodes /\ Others(Trusted) = Parties /\ Parties \subseteq Nodes
  /\ \A p \in Parties : /\ p \in Nat /\ p >= 1 /\ p <= N /\ p # Trusted
                        /\ <<Trusted, p>> \in Connections /\ <<p, Trusted>> \in Connections
                        /\ Trusted \in Others(p)
  /\ \A i \in Nodes : \A j \in Others(i) :
       /\ <<i, j>> \in Connections /\ <<j, i>> \in Connections /\ j \in Nodes /\ i # j
  /\ \A i \in Nodes : i = Trusted \/ i \in Parties
  /\ \A c \in Connections : /\ c = <<c[1], c[2]>> /\ c[1] \in Nodes /\ c[2] \in Nodes
                            /\ c[2] \in Others(c[1])
  BY PartiesAssumption, ChunksAssumption DEF Nodes, Parties, Others, Connections, Trusted

(* One and several messages.                                                *)
LEMMA SmallSeqs ==
  /\ IsSeq(<<>>) /\ Len(<<>>) = 0
  /\ \A a : IsSeq(<<a>>) /\ Len(<<a>>) = 1 /\ <<a>>[1] = a
  /\ \A a, b : IsSeq(<<a, b>>) /\ Len(<<a, b>>) = 2 /\ <<a, b>>[1] = a /\ <<a, b>>[2] = b
  /\ \A a, b, c, d : /\ <<a>> \o <<b, c>> \o <<d>> = <<a, b, c, d>>
                     /\ IsSeq(<<a, b, c, d>>) /\ Len(<<a, b, c, d>>) = 4
                     /\ <<a, b, c, d>>[1] = a /\ <<a, b, c, d>>[2] = b
                     /\ <<a, b, c, d>>[3] = c /\ <<a, b, c, d>>[4] = d
<1>1. ASSUME NEW a PROVE IsSeq(<<a>>) /\ Len(<<a>>) = 1 /\ <<a>>[1] = a
  <2>1. <<a>> \in Seq({a})
    OBVIOUS
  <2> QED BY <2>1 DEF IsSeq
<1>2. ASSUME NEW a, NEW b PROVE IsSeq(<<a, b>>) /\ Len(<<a, b>>) = 2 /\ <<a, b>>[1] = a /\ <<a, b>>[2] = b
  <2>1. <<a, b>> \in Seq({a, b})
    OBVIOUS
  <2> QED BY <2>1 DEF IsSeq
<1>3. ASSUME NEW a, NEW b, NEW c, NEW d
      PROVE  /\ <<a>> \o <<b, c>> \o <<d>> = <<a, b, c, d>>
             /\ IsSeq(<<a, b, c, d>>) /\ Len(<<a, b, c, d>>) = 4
             /\ <<a, b, c, d>>[1] = a /\ <<a, b, c, d>>[2] = b
             /\ <<a, b, c, d>>[3] = c /\ <<a, b, c, d>>[4] = d
  <2> DEFINE S == {a, b, c, d}
  <2>1. <<a>> \in Seq(S) /\ <<b, c>> \in Seq(S) /\ <<d>> \in Seq(S) /\ <<a, b, c, d>> \in Seq(S)
    OBVIOUS
  <2> DEFINE l == <<a>> \o <<b, c>>
  <2>3. l \in Seq(S) /\ Len(l) = 3 /\ l[1] = a /\ l[2] = b /\ l[3] = c
    BY <2>1
  <2>4. Len(l \o <<d>>) = 4 /\ \A i \in 1 .. 4 : (l \o <<d>>)[i] = IF i <= 3 THEN l[i] ELSE d
    <3>1. l \in Seq(S) /\ <<d>> \in Seq(S) /\ Len(<<d>>) = 1 /\ <<d>>[1] = d
      BY <2>3, <2>1
    <3> DEFINE e == <<d>>
    <3> HIDE DEF l, e, S
    <3>2. l \in Seq(S) /\ e \in Seq(S) /\ Len(e) = 1 /\ e[1] = d /\ Len(l) = 3
      BY <3>1, <2>3 DEF e
    <3>3. IsSeq(l) /\ IsSeq(e)
      BY <3>2 DEF IsSeq
    <3>4. /\ Len(l \o e) = Len(l) + Len(e)
          /\ \A k \in 1 .. Len(l) : (l \o e)[k] = l[k]
          /\ \A k \in 1 .. Len(e) : (l \o e)[Len(l) + k] = e[k]
      BY <3>3, CatElements DEF Cat
    <3>5. Len(l \o e) = 4 /\ (\A i \in 1 .. 3 : (l \o e)[i] = l[i]) /\ (l \o e)[3 + 1] = e[1]
      BY <3>2, <3>4
    <3>6. \A i \in 1 .. 4 : i <= 3 \/ i = 3 + 1
      OBVIOUS
    <3> QED BY <3>2, <3>5, <3>6 DEF e
  <2>5. l \o <<d>> \in Seq(S)
    <3> HIDE DEF l
    <3> QED BY <2>3, <2>1
  <2>6. \A i \in 1 .. 4 : (l \o <<d>>)[i] = <<a, b, c, d>>[i]
    <3> HIDE DEF l
    <3> QED BY <2>3, <2>4
  <2>2. <<a>> \o <<b, c>> \o <<d>> = <<a, b, c, d>>
    <3>1. IsSeq(l \o <<d>>) /\ IsSeq(<<a, b, c, d>>) /\ Len(<<a, b, c, d>>) = 4
      BY <2>1, <2>5 DEF IsSeq
    <3> QED BY <3>1, <2>4, <2>6, SameSeq
  <2> QED BY <2>1, <2>2 DEF IsSeq
<1> QED BY <1>1, <1>2, <1>3, EmptyFacts

-----------------------------------------------------------------------------
(* What a step leaves alone stays true.                                     *)
LEMMA TrustedSame ==
  ASSUME NEW L, NEW V, TrustedPart(L, V),
         UNCHANGED <<prepared, sentTo, slots, prf_outputs, num_prf_received, garbled,
                     received_gc_received>>,
         wires'[Trusted] = wires[Trusted],
         \A j \in Parties : listener'[<<Trusted, j>>] = "sending" => listener[<<Trusted, j>>] = "sending",
         \A p \in Parties : clientsmap[<<Trusted, p>>] = p => clientsmap'[<<Trusted, p>>] = p
  PROVE  TrustedPart(L, V)'
<1>1. Answers(L, V)'
  BY DEF TrustedPart, Answers
<1>2. Counts(L, V)'
  BY DEF TrustedPart, Counts, SentPrf, HasCircuit
<1>3. TrustedInv(L, V)'
  BY DEF TrustedPart, TrustedInv
<1> QED BY <1>1, <1>2, <1>3 DEF TrustedPart

LEMMA PartySame ==
  ASSUME NEW hk, NEW hc, NEW U, NEW p, PartyInv(hk, hc, U, p),
         prfs'[p] = prfs[p], spdz_wires'[p] = spdz_wires[p], delta'[p] = delta[p],
         wires'[p] = wires[p], input_masks'[p] = input_masks[p],
         output_masks'[p] = output_masks[p], circuits'[p] = circuits[p],
         evaluated'[p] = evaluated[p],
         listener'[<<p, Trusted>>] = "evaluating" <=> listener[<<p, Trusted>>] = "evaluating"
  PROVE  PartyInv(hk, hc, U, p)'
<1>1. StoresInv(hk, hc, p)'
  BY DEF PartyInv, StoresInv, Pieces, Launched
<1>2. IsDone(p)' <=> IsDone(p)
  BY DEF IsDone
<1> QED BY <1>1, <1>2 DEF PartyInv, Launched

(* No message of the network is added.                                      *)
Noise == {"ID", "ALL_IDENTIFIED", "EOF"}
LEMMA NetChannelsSame ==
  ASSUME NetChannels, \A i \in Nodes : conn[i] = "done" => conn'[i] = "done",
         stopping \subseteq stopping',
         \A c \in Connections : IsSeq(chan'[c]) /\ \A t \in Noise : Inside(chan'[c], t) => Inside(chan[c], t)
  PROVE  NetChannels'
  BY NodeFacts DEF NetChannels, Noise

(* While a node may still have a message of the protocol to send, all       *)
(* threads run.                                                             *)
LEMMA AllSending ==
  ASSUME NEW L, NetRest(L), ~L
  PROVE  stopping = {} /\ \A c \in Connections : c \in sending
  BY DEF NetRest

(* How many messages a party has heard fixes the next.                      *)
NextDown(L, hk, hc, p) ==
  /\ hk[p] = Chunks => Head(chan[<<Trusted, p>>]) = Type("LAUNCH_ONLINE")
  /\ hk[p] # Chunks => Head(chan[<<Trusted, p>>]) = DownOf(hk[p], hc[p])
  /\ hk[p] = Chunks => hc[p] = 0 /\ L
  /\ Heard(hk, hc, p) < SentDown(L, p)
  /\ Carries(Tail(chan[<<Trusted, p>>]), Down, Heard(hk, hc, p) + 1, SentDown(L, p))

LEMMA HearsDown ==
  ASSUME NEW L, NEW hk, NEW hc, NEW U, NEW V, NEW p \in Parties, Holds(L, hk, hc, U, V),
         chan[<<Trusted, p>>] # <<>>, Protocol(Head(chan[<<Trusted, p>>]))
  PROVE  NextDown(L, hk, hc, p)
<1> DEFINE ch == chan[<<Trusted, p>>]
<1>1. IsSeq(ch) /\ Carries(ch, Down, Heard(hk, hc, p), SentDown(L, p))
  BY NodeFacts DEF Holds, NetPart, NetChannels, ChannelInv
<1>2. /\ Head(ch) = Down[Heard(hk, hc, p)] /\ Heard(hk, hc, p) < SentDown(L, p)
      /\ Carries(Tail(ch), Down, Heard(hk, hc, p) + 1, SentDown(L, p))
  BY <1>1, CarriesTail
<1> HIDE DEF ch
<1>3. hk[p] \in 0 .. Chunks /\ hc[p] \in 0 .. 5 /\ (hk[p] = Chunks => hc[p] <= 1)
  BY DEF Holds, WitnessTypes
<1>4. SentDown(L, p) <= 6 * Chunks + 1 /\ (~L => SentDown(L, p) <= 6 * Chunks)
  BY NodeFacts DEF Holds, TrustedPart, TrustedInv, SentDown
<1>7. SentDown(L, p) \in Nat
  BY NodeFacts DEF Holds, TrustedPart, TrustedInv, SentDown
<1>5. hk[p] = Chunks => hc[p] = 0 /\ L
  <2>1. SentDown(L, p) \in Int
    BY <1>7
  <2>2. PICK h, c, s : h = hk[p] /\ c = hc[p] /\ s = SentDown(L, p)
    OBVIOUS
  <2>3. /\ h \in 0 .. Chunks /\ c \in 0 .. 5 /\ (h = Chunks => c <= 1) /\ s \in Int
        /\ s <= 6 * Chunks + 1 /\ (~L => s <= 6 * Chunks) /\ 6 * h + c < s
    BY <1>2, <1>3, <1>4, <2>1, <2>2 DEF Heard
  <2>4. h = Chunks => c = 0 /\ L
    BY <2>3, NodeFacts
  <2> QED BY <2>2, <2>4
<1>6. Down[Heard(hk, hc, p)] = IF hk[p] = Chunks THEN Type("LAUNCH_ONLINE") ELSE DownOf(hk[p], hc[p])
  <2>1. CASE hk[p] = Chunks
    <3>1. Heard(hk, hc, p) = 6 * Chunks
      BY <1>5, <2>1, NodeFacts DEF Heard
    <3> QED BY <3>1, <2>1, DownIs
  <2>2. CASE hk[p] # Chunks
    <3>1. hk[p] \in Nat /\ 6 * hk[p] + hc[p] # 6 * Chunks
      BY <1>3, <2>2, NodeFacts
    <3> QED BY <3>1, <1>3, <2>2, DownIs DEF Heard
  <2> QED BY <2>1, <2>2
<1> QED BY <1>2, <1>5, <1>6 DEF ch, NextDown

NextUp(U, V, p) ==
  /\ Head(chan[<<p, Trusted>>]) = Up[V[p]]
  /\ V[p] < U[p] /\ U[p] \in Nat /\ V[p] \in Nat
  /\ Carries(Tail(chan[<<p, Trusted>>]), Up, V[p] + 1, U[p])

LEMMA HearsUp ==
  ASSUME NEW L, NEW hk, NEW hc, NEW U, NEW V, NEW p \in Parties, Holds(L, hk, hc, U, V),
         chan[<<p, Trusted>>] # <<>>, Protocol(Head(chan[<<p, Trusted>>]))
  PROVE  NextUp(U, V, p)
<1> DEFINE ch == chan[<<p, Trusted>>]
<1>1. IsSeq(ch) /\ Carries(ch, Up, V[p], U[p])
  BY NodeFacts DEF Holds, NetPart, NetChannels, ChannelInv
<1>2. U[p] \in Nat /\ V[p] \in Nat
  BY DEF Holds, WitnessTypes
<1> QED BY <1>1, <1>2, CarriesTail DEF NextUp

-----------------------------------------------------------------------------
(* The network.  Its steps change no number.                                *)
LEMMA AppendCat ==
  ASSUME NEW s, NEW e, IsSeq(s)
  PROVE  Append(s, e) = s \o <<e>>
<1>1. IsSeq(<<>>) /\ s \o <<>> = s /\ Append(<<>>, e) = <<e>>
  BY EmptyFacts, ConcatFacts
<1> QED BY <1>1, ConcatFacts

(* The channels keep what they carry, and no message of the network comes    *)
(* but one of type t from i.                                                *)
Quiet(i, t) ==
  /\ DOMAIN chan' = Connections
  /\ \A c \in Connections :
       /\ IsSeq(chan'[c])
       /\ \A M, a : \A b \in Nat : Carries(chan[c], M, a, b) => Carries(chan'[c], M, a, b)
       /\ \A u : Inside(chan'[c], u) => Inside(chan[c], u) \/ (u = t /\ c[1] = i)

LEMMA QuietMessage ==
  ASSUME NEW i \in Nodes, NEW t \in Noise, DOMAIN chan' = Connections,
         \A c \in Connections : IsSeq(chan[c]),
         \A c \in Connections : \/ chan'[c] = chan[c]
                                \/ c[1] = i /\ chan'[c] = chan[c] \o <<Type(t)>>
  PROVE  Quiet(i, t)
<1> DEFINE l == <<Type(t)>>
<1>1. /\ IsSeq(l) /\ Len(l) = 1 /\ l[1] = Type(t)
      /\ \A k \in 1 .. Len(l) : ~Protocol(l[k])
  BY SmallSeqs DEF Protocol, Type, Noise
<1>2. \A u : Inside(l, u) => u = t
  BY <1>1 DEF Inside, Type
<1> HIDE DEF l
<1>3. ASSUME NEW c \in Connections
      PROVE  /\ IsSeq(chan'[c])
             /\ \A M, a : \A b \in Nat : Carries(chan[c], M, a, b) => Carries(chan'[c], M, a, b)
             /\ \A u : Inside(chan'[c], u) => Inside(chan[c], u) \/ (u = t /\ c[1] = i)
  <2>1. CASE chan'[c] = chan[c]
    BY <2>1
  <2>2. CASE c[1] = i /\ chan'[c] = chan[c] \o l
    <3>1. IsSeq(chan[c] \o l) /\ \A u : Inside(chan[c] \o l, u) => Inside(chan[c], u) \/ Inside(l, u)
      BY <1>1, InsideMore
    <3>2. \A M, a : \A b \in Nat : Carries(chan[c], M, a, b) => Carries(chan[c] \o l, M, a, b)
      BY <1>1, CarriesNoise
    <3> QED BY <2>2, <3>1, <3>2, <1>2
  <2> QED BY <2>1, <2>2 DEF l
<1> QED BY <1>3 DEF Quiet

LEMMA QuietTake ==
  ASSUME NEW i \in Nodes, NEW j \in Others(i), DOMAIN chan = Connections,
         \A c \in Connections : IsSeq(chan[c]),
         Take(i, j), chan[<<j, i>>] # <<>>, ~Protocol(Head(chan[<<j, i>>]))
  PROVE  Quiet(i, "none") /\ \A c \in Connections : \A u : Inside(chan'[c], u) => Inside(chan[c], u)
<1>1. /\ DOMAIN chan' = Connections
      /\ \A c \in Connections : chan'[c] = IF c = <<j, i>> THEN Tail(chan[c]) ELSE chan[c]
  BY NodeFacts DEF Take, Rest
<1>2. ASSUME NEW c \in Connections
      PROVE  /\ IsSeq(chan'[c])
             /\ \A M, a : \A b \in Nat : Carries(chan[c], M, a, b) => Carries(chan'[c], M, a, b)
             /\ \A u : Inside(chan'[c], u) => Inside(chan[c], u)
  <2>1. CASE c = <<j, i>>
    BY <1>1, <2>1, InsideTail, CarriesTail
  <2>2. CASE c # <<j, i>>
    BY <1>1, <2>2
  <2> QED BY <2>1, <2>2
<1> QED BY <1>1, <1>2 DEF Quiet

LEMMA SentNumbers ==
  ASSUME NEW L, NEW hk, NEW hc, NEW U, NEW V, NEW p \in Parties, Holds(L, hk, hc, U, V)
  PROVE  SentDown(L, p) \in Nat /\ U[p] \in Nat /\ V[p] \in Nat
<1>1. SentDown(L, p) \in Nat
  BY NodeFacts DEF Holds, TrustedPart, TrustedInv, SentDown
<1>2. U[p] \in Nat /\ V[p] \in Nat
  BY DEF Holds, WitnessTypes
<1> QED BY <1>1, <1>2

LEMMA NetKeeps ==
  ASSUME NEW L, NEW hk, NEW hc, NEW U, NEW V, Holds(L, hk, hc, U, V),
         UNCHANGED <<trustedVars, partyVars, wires>>,
         NEW i, NEW t, Quiet(i, t),
         DOMAIN listener' = Connections, DOMAIN conn' = Nodes, DOMAIN starter' = Nodes,
         DOMAIN ready_nodes' = Nodes, DOMAIN num_identified' = Nodes,
         DOMAIN clientsmap' = Connections,
         \A c \in Connections : \A s \in {"evaluating", "sending"} :
           listener'[c] = s <=> listener[c] = s,
         \A p \in Parties : clientsmap[<<Trusted, p>>] = p => clientsmap'[<<Trusted, p>>] = p,
         NetPart(L)'
  PROVE  Holds(L, hk, hc, U, V)'
<1>1. WitnessTypes(L, hk, hc, U, V)'
  BY DEF Holds, WitnessTypes
<1>2. Functions'
  BY DEF Holds, Functions, Quiet, trustedVars, partyVars
<1>3. TrustedPart(L, V)'
  <2>1. TrustedPart(L, V)
    BY DEF Holds
  <2> QED BY <2>1, NodeFacts, TrustedSame DEF trustedVars, filling, answers
<1>4. ASSUME NEW p \in Parties PROVE PartyInv(hk, hc, U, p)'
  <2>1. PartyInv(hk, hc, U, p)
    BY DEF Holds
  <2> QED BY <2>1, NodeFacts, PartySame DEF partyVars
<1>5. ASSUME NEW p \in Parties PROVE ChannelInv(L, hk, hc, U, V, p)'
  <2>1. ChannelInv(L, hk, hc, U, V, p)
    BY DEF Holds
  <2>2. SentDown(L, p)' = SentDown(L, p)
    BY DEF SentDown, trustedVars, filling, answers
  <2>3. SentDown(L, p) \in Nat /\ U[p] \in Nat
    BY SentNumbers
  <2>4. /\ \A M, a : \A b \in Nat :
             Carries(chan[<<Trusted, p>>], M, a, b) => Carries(chan[<<Trusted, p>>]', M, a, b)
        /\ \A M, a : \A b \in Nat :
             Carries(chan[<<p, Trusted>>], M, a, b) => Carries(chan[<<p, Trusted>>]', M, a, b)
    BY NodeFacts DEF Quiet
  <2> QED BY <2>1, <2>2, <2>3, <2>4 DEF ChannelInv
<1> QED BY <1>1, <1>2, <1>3, <1>4, <1>5 DEF Holds

(* A node stops only when every node has identified itself.                 *)
LEMMA LaunchedLate ==
  ASSUME NEW L, NEW hk, NEW hc, NEW U, NEW V, Holds(L, hk, hc, U, V), L
  PROVE  \A i \in Nodes : conn[i] = "done"
<1>1. conn[Trusted] = "done"
  BY NodeFacts DEF Holds, NetPart, NetRest, TrustedPart, Answers
<1>2. ASSUME NEW p \in Parties PROVE conn[p] = "done"
  <2>1. V[p] > 0
    <3>1. V[p] \in {2 * Chunks, 2 * Chunks + 1}
      BY DEF Holds, TrustedPart, Answers
    <3> QED BY <3>1, NodeFacts
  <2>2. clientsmap[<<Trusted, p>>] = p
    BY <2>1 DEF Holds, TrustedPart, Answers
  <2> QED BY <2>2, NodeFacts DEF Holds, NetPart, NetRest
<1> QED BY <1>1, <1>2, NodeFacts

LEMMA NetDomains ==
  ASSUME NEW L, NEW hk, NEW hc, NEW U, NEW V, Holds(L, hk, hc, U, V)
  PROVE  /\ DOMAIN chan = Connections /\ DOMAIN listener = Connections
         /\ DOMAIN conn = Nodes /\ DOMAIN starter = Nodes
         /\ DOMAIN ready_nodes = Nodes /\ DOMAIN num_identified = Nodes
         /\ DOMAIN clientsmap = Connections
         /\ NetChannels /\ NetRest(L) /\ NothingNeededLost
         /\ \A c \in Connections : IsSeq(chan[c])
  BY DEF Holds, Functions, NetPart, NetChannels

OthersKept == UNCHANGED <<trustedVars, partyVars, wires>>

LEMMA ConnectKeeps ==
  ASSUME NEW L, NEW hk, NEW hc, NEW U, NEW V, Holds(L, hk, hc, U, V), OthersKept,
         NEW i \in Nodes, Connect(i)
  PROVE  Holds(L, hk, hc, U, V)'
<1>1. /\ conn[i] = "connecting" /\ conn' = [conn EXCEPT ![i] = "connected"]
      /\ UNCHANGED <<starter, ready_nodes, num_identified, clientsmap, chan, lost, listener, stopping,
                     sending>>
      /\ prepared' = prepared
  BY DEF Connect, net, ending, OthersKept, trustedVars, filling
<1>2. Quiet(i, "none")
  BY <1>1, NetDomains DEF Quiet
<1>3. \A k \in Nodes : conn[k] = "done" => conn'[k] = "done"
  BY <1>1, NetDomains
<1>4. NetChannels'
  BY <1>1, <1>3, NetDomains, NodeFacts DEF NetChannels, Inside
<1>5. NetRest(L)'
  <2>1. /\ \A k \in Nodes : \A j \in ready_nodes'[k] : conn'[j] = "done"
        /\ \A p \in Parties : clientsmap'[<<Trusted, p>>] = p => conn'[p] = "done"
    BY <1>1, NetDomains, NodeFacts DEF NetRest
  <2>2. num_identified'[Trusted] > 0 \/ prepared' > 0 => conn'[Trusted] = "done"
    BY <1>1, <1>3, NetDomains, NodeFacts DEF NetRest
  <2> QED BY <1>1, <2>1, <2>2, NetDomains DEF NetRest
<1>6. NothingNeededLost'
  BY <1>1, NetDomains DEF NothingNeededLost
<1> QED BY <1>1, <1>2, <1>4, <1>5, <1>6, NetDomains, NetKeeps DEF NetPart, OthersKept

(* If somebody stops already all nodes have identified themselves.          *)
LEMMA IdentifyKeeps ==
  ASSUME NEW L, NEW hk, NEW hc, NEW U, NEW V, Holds(L, hk, hc, U, V), OthersKept,
         NEW i \in Nodes, Identify(i)
  PROVE  Holds(L, hk, hc, U, V)'
<1>1. /\ conn[i] = "connected" /\ conn' = [conn EXCEPT ![i] = "done"]
      /\ UNCHANGED <<starter, ready_nodes, num_identified, clientsmap, listener, stopping, sending>>
      /\ prepared' = prepared
      /\ Send(chan, i, ToAll(i, Type("ID")))
  BY DEF Identify, ending, OthersKept, trustedVars, filling
<1>2. ~L
  BY <1>1, LaunchedLate
<1>3. \A c \in Connections : c \in sending
  BY <1>2, NetDomains, AllSending
<1>4. /\ DOMAIN chan' = Connections /\ lost' = lost
      /\ \A c \in Connections : \/ chan'[c] = chan[c]
                                \/ c[1] = i /\ chan'[c] = chan[c] \o <<Type("ID")>>
  <2>1. /\ chan' = [d \in Connections |->
                    IF d[1] = i /\ d \in sending THEN chan[d] \o ToAll(i, Type("ID"))[d[2]] ELSE chan[d]]
        /\ {j \in Others(i) : <<i, j>> \notin sending} = {} => lost' = lost
    BY <1>1 DEF Send
  <2>2. {j \in Others(i) : <<i, j>> \notin sending} = {}
    BY <1>3, NodeFacts
  <2>3. \A j \in Others(i) : ToAll(i, Type("ID"))[j] = <<Type("ID")>>
    BY DEF ToAll
  <2> QED BY <2>1, <2>2, <2>3, NodeFacts
<1>5. Quiet(i, "ID")
  BY <1>4, NetDomains, QuietMessage DEF Noise
<1>6. \A k \in Nodes : conn'[k] = IF k = i THEN "done" ELSE conn[k]
  BY <1>1, NetDomains
<1>7. NetChannels'
  <2>1. \A c \in Connections : Inside(chan'[c], "ID") => conn'[c[1]] = "done"
    BY <1>5, <1>6, NetDomains, NodeFacts DEF NetChannels, Quiet
  <2>2. \A c \in Connections : Inside(chan'[c], "EOF") => c[1] \in stopping'
    BY <1>1, <1>5, NetDomains DEF NetChannels, Quiet
  <2>3. \A j \in Parties : Inside(chan'[<<j, Trusted>>], "ALL_IDENTIFIED") => conn'[Trusted] = "done"
    BY <1>5, <1>6, NetDomains, NodeFacts DEF NetChannels, Quiet
  <2> QED BY <1>5, <2>1, <2>2, <2>3 DEF NetChannels, Quiet
<1>8. NetRest(L)'
  <2>1. /\ \A k \in Nodes : \A j \in ready_nodes'[k] : conn'[j] = "done"
        /\ \A p \in Parties : clientsmap'[<<Trusted, p>>] = p => conn'[p] = "done"
    BY <1>1, NetDomains, NodeFacts DEF NetRest
  <2>2. num_identified'[Trusted] > 0 \/ prepared' > 0 => conn'[Trusted] = "done"
    BY <1>1, <1>6, NetDomains, NodeFacts DEF NetRest
  <2> QED BY <1>1, <2>1, <2>2, NetDomains DEF NetRest
<1>9. NothingNeededLost'
  BY <1>4, NetDomains DEF NothingNeededLost
<1> QED BY <1>1, <1>5, <1>7, <1>8, <1>9, NetDomains, NetKeeps DEF NetPart, OthersKept

LEMMA StartKeeps ==
  ASSUME NEW L, NEW hk, NEW hc, NEW U, NEW V, Holds(L, hk, hc, U, V), OthersKept,
         NEW i \in Nodes, Start(i)
  PROVE  Holds(L, hk, hc, U, V)'
<1>1. /\ DOMAIN starter' = Nodes
      /\ UNCHANGED <<conn, ready_nodes, num_identified, clientsmap, listener, stopping, sending>>
      /\ prepared' = prepared /\ ready_nodes[i] = Others(i)
      /\ Send(chan, i, ToAll(i, Type("ALL_IDENTIFIED")))
  BY NetDomains DEF Start, AllReady, ending, OthersKept, trustedVars, filling
<1>2. /\ DOMAIN chan' = Connections
      /\ \A c \in Connections : \/ chan'[c] = chan[c]
                                \/ c[1] = i /\ chan'[c] = chan[c] \o <<Type("ALL_IDENTIFIED")>>
  <2>1. chan' = [d \in Connections |->
          IF d[1] = i /\ d \in sending THEN chan[d] \o ToAll(i, Type("ALL_IDENTIFIED"))[d[2]] ELSE chan[d]]
    BY <1>1 DEF Send
  <2>2. \A j \in Others(i) : ToAll(i, Type("ALL_IDENTIFIED"))[j] = <<Type("ALL_IDENTIFIED")>>
    BY DEF ToAll
  <2> QED BY <2>1, <2>2, NodeFacts
<1>3. Quiet(i, "ALL_IDENTIFIED")
  BY <1>2, NetDomains, QuietMessage DEF Noise
<1>4. i \in Parties => conn[Trusted] = "done"
  <2>1. i \in Parties => Trusted \in ready_nodes[i]
    BY <1>1, NodeFacts
  <2> QED BY <2>1, NetDomains DEF NetRest
<1>5. NetChannels'
  BY <1>1, <1>3, <1>4, NetDomains, NodeFacts DEF NetChannels, Quiet
<1>6. NetRest(L)'
  BY <1>1, NetDomains DEF NetRest
<1>7. NothingNeededLost'
  <2>1. ASSUME NEW x \in lost', x \notin lost PROVE x = "ALL_IDENTIFIED"
    <3>1. PICK j \in Others(i) : \E k \in DOMAIN ToAll(i, Type("ALL_IDENTIFIED"))[j] :
                                   x = ToAll(i, Type("ALL_IDENTIFIED"))[j][k].type
      <4>1. lost' = lost \cup UNION {{ToAll(i, Type("ALL_IDENTIFIED"))[m][k].type :
                                        k \in DOMAIN ToAll(i, Type("ALL_IDENTIFIED"))[m]} :
                                     m \in {n \in Others(i) : <<i, n>> \notin sending}}
        BY <1>1 DEF Send
      <4> QED BY <2>1, <4>1
    <3>2. ToAll(i, Type("ALL_IDENTIFIED"))[j] = <<Type("ALL_IDENTIFIED")>>
      BY DEF ToAll
    <3> QED BY <3>1, <3>2 DEF Type
  <2> QED BY <2>1, NetDomains DEF NothingNeededLost
<1> QED BY <1>1, <1>3, <1>5, <1>6, <1>7, NetDomains, NetKeeps DEF NetPart, OthersKept

(* An entry of the map stays: a sender once known is known for good.         *)
LEMMA MappedOnce ==
  ASSUME NEW i \in Nodes, NEW j \in Others(i), NEW id, clientsmap' = Mapped(i, j, id),
         DOMAIN clientsmap = Connections
  PROVE  /\ DOMAIN clientsmap' = Connections
         /\ \A p \in Parties : clientsmap[<<Trusted, p>>] = p => clientsmap'[<<Trusted, p>>] = p
         /\ \A p \in Parties : clientsmap'[<<Trusted, p>>] = p =>
              clientsmap[<<Trusted, p>>] = p \/ (i = Trusted /\ p = j /\ id = p)
<1>1. <<i, j>> \in Connections /\ \A p \in Parties : <<Trusted, p>> \in Connections
  BY NodeFacts
<1>2. \A p \in Parties : p # Unmapped
  BY NodeFacts DEF Parties, Unmapped
<1>3. DOMAIN clientsmap' = Connections
  BY DEF Mapped
<1>4. \A c \in Connections : clientsmap'[c] =
        IF c = <<i, j>> THEN (IF clientsmap[c] = Unmapped THEN id ELSE clientsmap[c]) ELSE clientsmap[c]
  BY DEF Mapped
<1> QED BY <1>1, <1>2, <1>3, <1>4

LEMMA HearIdKeeps ==
  ASSUME NEW L, NEW hk, NEW hc, NEW U, NEW V, Holds(L, hk, hc, U, V), OthersKept,
         NEW i \in Nodes, NEW j \in Others(i), HearId(i, j)
  PROVE  Holds(L, hk, hc, U, V)'
<1>1. /\ chan[<<j, i>>] # <<>> /\ Head(chan[<<j, i>>]).type = "ID"
      /\ ready_nodes' = [ready_nodes EXCEPT ![i] = @ \cup {j}] /\ Take(i, j)
      /\ clientsmap' = Mapped(i, j, j)
      /\ UNCHANGED <<conn, starter, num_identified, listener, stopping, sending>>
      /\ prepared' = prepared /\ lost' = lost
  BY DEF HearId, Incoming, Take, ending, OthersKept, trustedVars, filling
<1>2. Quiet(i, "none") /\ \A c \in Connections : \A u : Inside(chan'[c], u) => Inside(chan[c], u)
  BY <1>1, NetDomains, QuietTake DEF Protocol
<1>3. conn[j] = "done"
  <2>1. <<j, i>> \in Connections /\ Inside(chan[<<j, i>>], "ID")
    BY <1>1, NetDomains, InsideTail, NodeFacts
  <2> QED BY <2>1, NetDomains DEF NetChannels
<1>4. \A k \in Nodes : ready_nodes'[k] = IF k = i THEN ready_nodes[k] \cup {j} ELSE ready_nodes[k]
  BY <1>1, NetDomains
<1>9. /\ DOMAIN clientsmap' = Connections
      /\ \A p \in Parties : clientsmap[<<Trusted, p>>] = p => clientsmap'[<<Trusted, p>>] = p
      /\ \A p \in Parties : clientsmap'[<<Trusted, p>>] = p =>
           clientsmap[<<Trusted, p>>] = p \/ (i = Trusted /\ p = j)
  BY <1>1, NetDomains, MappedOnce
<1>5. NetChannels'
  BY <1>1, <1>2, NetDomains, NodeFacts DEF NetChannels, Quiet
<1>6. NetRest(L)'
  <2>1. \A k \in Nodes : \A m \in ready_nodes'[k] : conn'[m] = "done"
    BY <1>1, <1>3, <1>4, NetDomains DEF NetRest
  <2>2. \A p \in Parties : clientsmap'[<<Trusted, p>>] = p => conn'[p] = "done"
    BY <1>1, <1>3, <1>9, NetDomains DEF NetRest
  <2> QED BY <1>1, <2>1, <2>2, NetDomains DEF NetRest
<1>7. NothingNeededLost'
  BY <1>1, NetDomains DEF NothingNeededLost
<1>8. DOMAIN ready_nodes' = Nodes
  BY <1>1, NetDomains
<1> QED BY <1>1, <1>2, <1>5, <1>6, <1>7, <1>8, <1>9, NetDomains, NetKeeps DEF NetPart, OthersKept

LEMMA HearAllIdentifiedKeeps ==
  ASSUME NEW L, NEW hk, NEW hc, NEW U, NEW V, Holds(L, hk, hc, U, V), OthersKept,
         NEW i \in Nodes, NEW j \in Others(i), HearAllIdentified(i, j)
  PROVE  Holds(L, hk, hc, U, V)'
<1>1. /\ chan[<<j, i>>] # <<>> /\ Head(chan[<<j, i>>]).type = "ALL_IDENTIFIED"
      /\ listener[<<i, j>>] = "receiving" /\ listener' = [listener EXCEPT ![<<i, j>>] = "comparing"]
      /\ num_identified' = [num_identified EXCEPT ![i] = @ + 1] /\ Take(i, j)
      /\ clientsmap' = Mapped(i, j, 0)
      /\ UNCHANGED <<conn, starter, ready_nodes, stopping, sending>>
      /\ prepared' = prepared /\ lost' = lost
  BY DEF HearAllIdentified, Incoming, Take, ending, OthersKept, trustedVars, filling
<1>2. Quiet(i, "none") /\ \A c \in Connections : \A u : Inside(chan'[c], u) => Inside(chan[c], u)
  BY <1>1, NetDomains, QuietTake DEF Protocol
<1>3. i = Trusted => conn[Trusted] = "done"
  <2>1. Inside(chan[<<j, i>>], "ALL_IDENTIFIED")
    BY <1>1, NetDomains, InsideTail, NodeFacts
  <2> QED BY <2>1, NetDomains, NodeFacts DEF NetChannels
<1>4. \A c \in Connections : listener'[c] = IF c = <<i, j>> THEN "comparing" ELSE listener[c]
  BY <1>1, NetDomains
<1>9. /\ DOMAIN clientsmap' = Connections
      /\ \A p \in Parties : clientsmap[<<Trusted, p>>] = p <=> clientsmap'[<<Trusted, p>>] = p
  BY <1>1, NetDomains, MappedOnce, NodeFacts
<1>5. NetChannels'
  BY <1>1, <1>2, NetDomains, NodeFacts DEF NetChannels, Quiet
<1>6. NetRest(L)'
  <2>1. num_identified'[Trusted] =
          IF i = Trusted THEN num_identified[Trusted] + 1 ELSE num_identified[Trusted]
    BY <1>1, NetDomains, NodeFacts
  <2>2. /\ num_identified'[Trusted] \in Nat
        /\ num_identified'[Trusted] > 0 \/ prepared' > 0 => conn'[Trusted] = "done"
    BY <1>1, <1>3, <2>1, NetDomains DEF NetRest
  <2>3. \A c \in Connections : listener'[c] \in {"stopping", "aborting"} => c[1] \in stopping'
    BY <1>1, <1>4, NetDomains DEF NetRest
  <2> QED BY <1>1, <1>9, <2>2, <2>3, NetDomains DEF NetRest
<1>7. NothingNeededLost'
  BY <1>1, NetDomains DEF NothingNeededLost
<1>8. /\ DOMAIN listener' = Connections /\ DOMAIN num_identified' = Nodes
      /\ \A c \in Connections : \A s \in {"evaluating", "sending"} :
           listener'[c] = s <=> listener[c] = s
  BY <1>1, <1>4, NetDomains
<1> QED BY <1>1, <1>2, <1>5, <1>6, <1>7, <1>8, <1>9, NetDomains, NetKeeps DEF NetPart, OthersKept

LEMMA NotAllKeeps ==
  ASSUME NEW L, NEW hk, NEW hc, NEW U, NEW V, Holds(L, hk, hc, U, V), OthersKept,
         NEW i \in Nodes, NEW j \in Others(i), NotAll(i, j)
  PROVE  Holds(L, hk, hc, U, V)'
<1>1. /\ listener[<<i, j>>] = "comparing" /\ listener' = [listener EXCEPT ![<<i, j>>] = "receiving"]
      /\ UNCHANGED <<conn, starter, ready_nodes, num_identified, clientsmap, chan, lost, stopping,
                     sending>>
      /\ prepared' = prepared
  BY DEF NotAll, startup, net, ending, OthersKept, trustedVars, filling
<1>2. Quiet(i, "none")
  BY <1>1, NetDomains DEF Quiet
<1>4. \A c \in Connections : listener'[c] = IF c = <<i, j>> THEN "receiving" ELSE listener[c]
  BY <1>1, NetDomains
<1>5. NetChannels'
  BY <1>1, NetDomains, NodeFacts DEF NetChannels, Inside
<1>6. NetRest(L)'
  <2>3. \A c \in Connections : listener'[c] \in {"stopping", "aborting"} => c[1] \in stopping'
    BY <1>1, <1>4, NetDomains DEF NetRest
  <2> QED BY <1>1, <2>3, NetDomains DEF NetRest
<1>7. NothingNeededLost'
  BY <1>1, NetDomains DEF NothingNeededLost
<1>8. /\ DOMAIN listener' = Connections
      /\ \A c \in Connections : \A s \in {"evaluating", "sending"} :
           listener'[c] = s <=> listener[c] = s
  BY <1>1, <1>4, NetDomains
<1> QED BY <1>1, <1>2, <1>5, <1>6, <1>7, <1>8, NetDomains, NetKeeps DEF NetPart, OthersKept

(* A connection closes after the launch only.                               *)
LEMMA HearEndKeeps ==
  ASSUME NEW L, NEW hk, NEW hc, NEW U, NEW V, Holds(L, hk, hc, U, V), OthersKept,
         NEW i \in Nodes, NEW j \in Others(i), HearEnd(i, j)
  PROVE  Holds(L, hk, hc, U, V)'
<1>1. /\ chan[<<j, i>>] # <<>> /\ Head(chan[<<j, i>>]).type = "EOF"
      /\ listener[<<i, j>>] = "receiving" /\ listener' = [listener EXCEPT ![<<i, j>>] = "aborting"]
      /\ stopping' = stopping \cup {i} /\ Take(i, j)
      /\ UNCHANGED <<conn, starter, ready_nodes, num_identified, clientsmap, sending>>
      /\ prepared' = prepared /\ lost' = lost
  BY DEF HearEnd, Incoming, Take, startup, OthersKept, trustedVars, filling
<1>2. Quiet(i, "none") /\ \A c \in Connections : \A u : Inside(chan'[c], u) => Inside(chan[c], u)
  BY <1>1, NetDomains, QuietTake DEF Protocol
<1>3. j \in stopping
  <2>1. <<j, i>> \in Connections /\ Inside(chan[<<j, i>>], "EOF")
    BY <1>1, NetDomains, InsideTail, NodeFacts
  <2> QED BY <2>1, NetDomains DEF NetChannels
<1>4. \A c \in Connections : listener'[c] = IF c = <<i, j>> THEN "aborting" ELSE listener[c]
  BY <1>1, NetDomains
<1>5. NetChannels'
  BY <1>1, <1>2, NetDomains, NodeFacts DEF NetChannels, Quiet
<1>6. NetRest(L)'
  <2>3. \A c \in Connections : listener'[c] \in {"stopping", "aborting"} => c[1] \in stopping'
    BY <1>1, <1>4, NetDomains DEF NetRest
  <2>4. \A c \in Connections : c \notin sending' => c[1] \in stopping'
    BY <1>1, NetDomains DEF NetRest
  <2> QED BY <1>1, <1>3, <2>3, <2>4, NetDomains DEF NetRest
<1>7. NothingNeededLost'
  BY <1>1, NetDomains DEF NothingNeededLost
<1>8. /\ DOMAIN listener' = Connections
      /\ \A c \in Connections : \A s \in {"evaluating", "sending"} :
           listener'[c] = s <=> listener[c] = s
  BY <1>1, <1>4, NetDomains
<1> QED BY <1>1, <1>2, <1>5, <1>6, <1>7, <1>8, NetDomains, NetKeeps DEF NetPart, OthersKept

LEMMA SentKeeps ==
  ASSUME NEW L, NEW hk, NEW hc, NEW U, NEW V, Holds(L, hk, hc, U, V), OthersKept,
         NEW i \in Nodes, NEW j \in Others(i), Sent(i, j)
  PROVE  Holds(L, hk, hc, U, V)'
<1>1. /\ i \in stopping /\ sending' = sending \ {<<i, j>>}
      /\ UNCHANGED <<conn, starter, ready_nodes, num_identified, clientsmap, chan, lost, listener,
                     stopping>>
      /\ prepared' = prepared
  BY DEF Sent, startup, net, OthersKept, trustedVars, filling
<1>2. Quiet(i, "none")
  BY <1>1, NetDomains DEF Quiet
<1>5. NetChannels'
  BY <1>1, NetDomains, NodeFacts DEF NetChannels, Inside
<1>6. NetRest(L)'
  <2>4. \A c \in Connections : c \notin sending' => c[1] \in stopping'
    BY <1>1, NetDomains DEF NetRest
  <2> QED BY <1>1, <2>4, NetDomains DEF NetRest
<1>7. NothingNeededLost'
  BY <1>1, NetDomains DEF NothingNeededLost
<1> QED BY <1>1, <1>2, <1>5, <1>6, <1>7, NetDomains, NetKeeps DEF NetPart, OthersKept

LEMMA StopReturnsKeeps ==
  ASSUME NEW L, NEW hk, NEW hc, NEW U, NEW V, Holds(L, hk, hc, U, V), OthersKept,
         NEW i \in Nodes, NEW j \in Others(i), StopReturns(i, j)
  PROVE  Holds(L, hk, hc, U, V)'
<1>1. /\ listener[<<i, j>>] \in {"stopping", "aborting"}
      /\ listener' = [listener EXCEPT ![<<i, j>>] = IF @ = "aborting" THEN "gone" ELSE "receiving"]
      /\ chan' = [c \in Connections |-> IF c[1] = i /\ i \notin closed THEN Append(chan[c], EOF) ELSE chan[c]]
      /\ UNCHANGED <<conn, starter, ready_nodes, num_identified, clientsmap, lost, stopping, sending>>
      /\ prepared' = prepared
  BY DEF StopReturns, Shutdown, startup, OthersKept, trustedVars, filling
<1>2. /\ DOMAIN chan' = Connections
      /\ \A c \in Connections : chan'[c] = chan[c] \/ (c[1] = i /\ chan'[c] = chan[c] \o <<Type("EOF")>>)
  BY <1>1, NetDomains, AppendCat DEF EOF
<1>3. Quiet(i, "EOF")
  BY <1>2, NetDomains, QuietMessage DEF Noise
<1>4. \E s \in {"gone", "receiving"} :
        \A c \in Connections : listener'[c] = IF c = <<i, j>> THEN s ELSE listener[c]
  BY <1>1, NetDomains
<1>5. i \in stopping
  BY <1>1, NetDomains, NodeFacts DEF NetRest
<1>6. NetChannels'
  <2>1. \A c \in Connections : Inside(chan'[c], "ID") => conn'[c[1]] = "done"
    BY <1>1, <1>3, NetDomains DEF NetChannels, Quiet
  <2>2. \A c \in Connections : Inside(chan'[c], "EOF") => c[1] \in stopping'
    BY <1>1, <1>3, <1>5, NetDomains DEF NetChannels, Quiet
  <2>3. \A k \in Parties : Inside(chan'[<<k, Trusted>>], "ALL_IDENTIFIED") => conn'[Trusted] = "done"
    <3>1. \A k \in Parties : Inside(chan'[<<k, Trusted>>], "ALL_IDENTIFIED") =>
                               Inside(chan[<<k, Trusted>>], "ALL_IDENTIFIED")
      <4>1. \A k \in Parties : <<k, Trusted>> \in Connections
        BY NodeFacts
      <4>2. \A c \in Connections : Inside(chan'[c], "ALL_IDENTIFIED") => Inside(chan[c], "ALL_IDENTIFIED")
        BY <1>3 DEF Quiet
      <4> QED BY <4>1, <4>2
    <3> QED BY <1>1, <3>1, NetDomains DEF NetChannels
  <2> QED BY <1>3, <2>1, <2>2, <2>3 DEF NetChannels, Quiet
<1>7. NetRest(L)'
  <2>3. \A c \in Connections : listener'[c] \in {"stopping", "aborting"} => c[1] \in stopping'
    BY <1>1, <1>4, NetDomains DEF NetRest
  <2> QED BY <1>1, <2>3, NetDomains DEF NetRest
<1>8. NothingNeededLost'
  BY <1>1, NetDomains DEF NothingNeededLost
<1>9. /\ DOMAIN listener' = Connections
      /\ \A c \in Connections : \A s \in {"evaluating", "sending"} :
           listener'[c] = s <=> listener[c] = s
  BY <1>1, <1>4, NetDomains
<1> QED BY <1>1, <1>3, <1>6, <1>7, <1>8, <1>9, NetDomains, NetKeeps DEF NetPart, OthersKept

LEMMA NodeStepKeeps ==
  ASSUME NEW L, NEW hk, NEW hc, NEW U, NEW V, Holds(L, hk, hc, U, V), OthersKept,
         NEW i \in Nodes, NodeStep(i)
  PROVE  Holds(L, hk, hc, U, V)'
BY ConnectKeeps, IdentifyKeeps, StartKeeps, HearIdKeeps, HearAllIdentifiedKeeps, NotAllKeeps,
   HearEndKeeps, SentKeeps, StopReturnsKeeps DEF NodeStep

-----------------------------------------------------------------------------
(* The parties.                                                             *)
LEMMA CarriesOrder ==
  ASSUME NEW ch, NEW M, NEW a, NEW b, IsSeq(ch), Carries(ch, M, a, b)
  PROVE  a \in Nat /\ b \in Nat /\ a <= b
<1>1. PICK pos : Numbers(ch, pos, a, b)
  BY DEF Carries
<1>2. Len(ch) \in Nat
  BY LengthFacts
<1>3. pos \in [0 .. Len(ch) -> Nat] /\ pos[0] = a /\ pos[Len(ch)] = b
  BY <1>1 DEF Numbers
<1>4. a \in Nat /\ b \in Nat
  BY <1>2, <1>3
<1>5. CASE Len(ch) = 0
  BY <1>3, <1>4, <1>5
<1>6. CASE Len(ch) # 0
  <2>1. 1 \in 1 .. Len(ch) /\ 1 - 1 = 0
    BY <1>2, <1>6
  <2>2. pos[1] <= b /\ pos[1] = IF Protocol(ch[1]) THEN pos[0] + 1 ELSE pos[0]
    BY <1>1, <2>1 DEF Numbers
  <2> QED BY <1>3, <1>4, <2>2
<1> QED BY <1>4, <1>5, <1>6

LEMMA PiecesMore ==
  ASSUME NEW s, NEW e \in Nat, NEW n \in Nat, Pieces(s, e, n)
  PROVE  Pieces(Append(s, n + 1), e, n + 1)
<1> DEFINE t == Append(s, n + 1)
<1>1. /\ IsSeq(t) /\ Len(s) \in Nat /\ Len(t) = Len(s) + 1
      /\ \A k \in 1 .. Len(s) : t[k] = s[k]
      /\ t[Len(s) + 1] = n + 1
  BY AppendFacts DEF Pieces
<1>2. Len(s) = n - e /\ \A i \in 1 .. Len(s) : s[i] = e + i
  BY DEF Pieces
<1> HIDE DEF t
<1>3. ASSUME NEW i \in 1 .. Len(t) PROVE t[i] = e + i
  <2>1. CASE i <= Len(s)
    BY <1>1, <1>2, <2>1
  <2>2. CASE i > Len(s)
    <3>1. i = Len(s) + 1
      BY <1>1, <2>2
    <3>2. e + i = n + 1
      BY <1>1, <1>2, <3>1
    <3> QED BY <1>1, <3>1, <3>2
  <2> QED BY <1>1, <2>1, <2>2
<1>4. Len(t) = (n + 1) - e
  BY <1>1, <1>2
<1> QED BY <1>1, <1>3, <1>4 DEF Pieces, t

LEMMA PiecesTail ==
  ASSUME NEW s, NEW e \in Nat, NEW n \in Nat, Pieces(s, e, n), s # <<>>
  PROVE  Head(s) = e + 1 /\ Pieces(Tail(s), e + 1, n)
<1>1. IsSeq(s) /\ Len(s) = n - e /\ \A i \in 1 .. Len(s) : s[i] = e + i
  BY DEF Pieces
<1>2. /\ IsSeq(Tail(s)) /\ Len(s) \in Nat /\ Len(s) # 0 /\ Len(Tail(s)) = Len(s) - 1
      /\ Head(s) = s[1] /\ \A k \in 1 .. Len(s) - 1 : Tail(s)[k] = s[k + 1]
  BY <1>1, TailFacts, LengthFacts
<1>3. ASSUME NEW i \in 1 .. Len(Tail(s)) PROVE Tail(s)[i] = (e + 1) + i
  <2>1. i \in 1 .. Len(s) - 1 /\ i + 1 \in 1 .. Len(s)
    BY <1>2
  <2>2. Tail(s)[i] = s[i + 1]
    BY <1>2, <2>1
  <2>3. PICK j : j = i + 1
    OBVIOUS
  <2>4. s[j] = e + j
    BY <1>1, <2>1, <2>3
  <2> QED BY <2>1, <2>2, <2>3, <2>4
<1>4. Head(s) = e + 1
  <2>1. 1 \in 1 .. Len(s)
    BY <1>2
  <2> QED BY <1>1, <1>2, <2>1
<1>5. Len(Tail(s)) = n - (e + 1)
  BY <1>1, <1>2
<1> QED BY <1>2, <1>3, <1>4, <1>5 DEF Pieces

(* A step of party p, which changes its own state and its two channels.      *)
Elsewhere(p) ==
  /\ UNCHANGED <<trustedVars, conn, starter, ready_nodes, num_identified, clientsmap, sending>>
  /\ wires'[Trusted] = wires[Trusted]
  /\ \A q \in Parties : q # p =>
       /\ prfs'[q] = prfs[q] /\ spdz_wires'[q] = spdz_wires[q] /\ delta'[q] = delta[q]
       /\ wires'[q] = wires[q] /\ input_masks'[q] = input_masks[q]
       /\ output_masks'[q] = output_masks[q] /\ circuits'[q] = circuits[q]
       /\ evaluated'[q] = evaluated[q]
  /\ \A c \in Connections : c # <<p, Trusted>> => listener'[c] = listener[c]
  /\ \A c \in Connections : c # <<p, Trusted>> /\ c # <<Trusted, p>> => chan'[c] = chan[c]

(* No message of the network comes into a channel.                          *)
NoNoise(c) == IsSeq(chan'[c]) /\ \A u \in Noise : Inside(chan'[c], u) => Inside(chan[c], u)

LEMMA PartyKeeps ==
  ASSUME NEW L, NEW hk, NEW hc, NEW U, NEW V, Holds(L, hk, hc, U, V), NEW p \in Parties,
         NEW hk2, NEW hc2, NEW U2, WitnessTypes(L, hk2, hc2, U2, V),
         \A q \in Parties : q # p => hk2[q] = hk[q] /\ hc2[q] = hc[q] /\ U2[q] = U[q],
         Elsewhere(p), Functions',
         PartyInv(hk2, hc2, U2, p)', ChannelInv(L, hk2, hc2, U2, V, p)',
         NoNoise(<<Trusted, p>>), NoNoise(<<p, Trusted>>),
         lost' \subseteq lost \cup {"DONE"},
         stopping \subseteq stopping', stopping' # {} => L,
         listener'[<<p, Trusted>>] \in {"stopping", "aborting"} => p \in stopping'
  PROVE  Holds(L, hk2, hc2, U2, V)'
<1>1. WitnessTypes(L, hk2, hc2, U2, V)'
  BY DEF WitnessTypes
<1>2. TrustedPart(L, V)'
  <2>1. TrustedPart(L, V)
    BY DEF Holds
  <2>2. \A j \in Parties : listener'[<<Trusted, j>>] = listener[<<Trusted, j>>]
    BY NodeFacts DEF Elsewhere
  <2> QED BY <2>1, <2>2, NodeFacts, TrustedSame DEF Elsewhere, trustedVars, filling, answers
<1>3. ASSUME NEW q \in Parties PROVE PartyInv(hk2, hc2, U2, q)'
  <2>1. CASE q = p
    BY <2>1
  <2>2. CASE q # p
    <3>1. PartyInv(hk, hc, U, q)
      BY DEF Holds
    <3>2. PartyInv(hk2, hc2, U2, q)
      BY <3>1, <2>2 DEF PartyInv, StoresInv, More, Launched, Heard
    <3>3. listener'[<<q, Trusted>>] = listener[<<q, Trusted>>]
      BY <2>2, NodeFacts DEF Elsewhere
    <3> QED BY <3>2, <3>3, <2>2, PartySame DEF Elsewhere
  <2> QED BY <2>1, <2>2
<1>4. ASSUME NEW q \in Parties PROVE ChannelInv(L, hk2, hc2, U2, V, q)'
  <2>1. CASE q = p
    BY <2>1
  <2>2. CASE q # p
    <3>1. ChannelInv(L, hk, hc, U, V, q)
      BY DEF Holds
    <3>2. chan'[<<Trusted, q>>] = chan[<<Trusted, q>>] /\ chan'[<<q, Trusted>>] = chan[<<q, Trusted>>]
      BY <2>2, NodeFacts DEF Elsewhere
    <3>3. SentDown(L, q)' = SentDown(L, q)
      BY DEF Elsewhere, SentDown, trustedVars, filling, answers
    <3>4. Heard(hk2, hc2, q) = Heard(hk, hc, q) /\ U2[q] = U[q]
      BY <2>2 DEF Heard
    <3> QED BY <3>1, <3>2, <3>3, <3>4 DEF ChannelInv
  <2> QED BY <2>1, <2>2
<1>5. \A c \in Connections : NoNoise(c)
  <2>1. ASSUME NEW c \in Connections, c # <<p, Trusted>>, c # <<Trusted, p>> PROVE NoNoise(c)
    BY <2>1, NetDomains DEF Elsewhere, NoNoise
  <2> QED BY <2>1
<1>6. NetChannels'
  <2>1. conn' = conn
    BY DEF Elsewhere
  <2> QED BY <1>5, <2>1, NetDomains, NetChannelsSame DEF NoNoise
<1>7. NetRest(L)'
  <2>1. \A c \in Connections : listener'[c] \in {"stopping", "aborting"} => c[1] \in stopping'
    <3>1. ASSUME NEW c \in Connections, c # <<p, Trusted>>, listener'[c] \in {"stopping", "aborting"}
          PROVE  c[1] \in stopping'
      BY <3>1, NetDomains DEF Elsewhere, NetRest
    <3> QED BY <3>1
  <2>2. \A c \in Connections : c \notin sending' => c[1] \in stopping'
    BY NetDomains DEF Elsewhere, NetRest
  <2> QED BY <2>1, <2>2, NetDomains DEF Elsewhere, NetRest, trustedVars, filling
<1>8. NothingNeededLost'
  BY NetDomains DEF NothingNeededLost
<1> QED BY <1>1, <1>2, <1>3, <1>4, <1>6, <1>7, <1>8 DEF Holds, NetPart

(* What a party hears next.                                                 *)
LEMMA DownTypes ==
  ASSUME NEW k, NEW c \in 0 .. 5
  PROVE  LET m == DownOf(k, c)
         IN  /\ m.type = "DELTA" => c = 0
             /\ m.type = "KEYS" => c = 1 /\ m.n = k + 1
             /\ m.type = "MASK_INPUTS" => c = 2 /\ m.n = k + 1
             /\ m.type = "MASK_OUTPUT" => c = 3 /\ m.n = k + 1
             /\ m.type = "SPDZ_WIRES" => c = 4
             /\ m.type = "GARBLED_CIRCUIT" => c = 5 /\ m.n = Circuit(k + 1)
             /\ m.type # "LAUNCH_ONLINE"
<1>1. c = 0 \/ c = 1 \/ c = 2 \/ c = 3 \/ c = 4 \/ c = 5
  OBVIOUS
<1> QED BY <1>1 DEF DownOf, Type, Msg

Finds(L, hk, hc, U, p, t) ==
  /\ chan[<<Trusted, p>>] # <<>> /\ listener[<<p, Trusted>>] = "receiving"
  /\ Carries(Tail(chan[<<Trusted, p>>]), Down, Heard(hk, hc, p) + 1, SentDown(L, p))
  /\ hk[p] \in 0 .. Chunks /\ hc[p] \in 0 .. 5
  /\ t = "LAUNCH_ONLINE" => hk[p] = Chunks /\ hc[p] = 0 /\ L
  /\ t # "LAUNCH_ONLINE" => /\ hk[p] < Chunks
                            /\ Head(chan[<<Trusted, p>>]) = DownOf(hk[p], hc[p])
                            /\ DownOf(hk[p], hc[p]).type = t
                            /\ Len(evaluated[p]) = 0 /\ ~IsDone(p)
                            /\ U[p] = 2 * hk[p] + More(hc, p, 2)

LEMMA HeadDown ==
  ASSUME NEW L, NEW hk, NEW hc, NEW U, NEW V, Holds(L, hk, hc, U, V), NEW p \in Parties,
         NEW t \in {"DELTA", "KEYS", "MASK_INPUTS", "MASK_OUTPUT", "SPDZ_WIRES", "GARBLED_CIRCUIT",
                    "LAUNCH_ONLINE"}, FromTrusted(p, t)
  PROVE  Finds(L, hk, hc, U, p, t)
<1>1. /\ chan[<<Trusted, p>>] # <<>> /\ listener[<<p, Trusted>>] = "receiving"
      /\ Head(chan[<<Trusted, p>>]).type = t /\ Protocol(Head(chan[<<Trusted, p>>]))
  BY DEF FromTrusted, Incoming, Protocol
<1>2. /\ hk[p] = Chunks => Head(chan[<<Trusted, p>>]) = Type("LAUNCH_ONLINE")
      /\ hk[p] # Chunks => Head(chan[<<Trusted, p>>]) = DownOf(hk[p], hc[p])
      /\ hk[p] = Chunks => hc[p] = 0 /\ L
      /\ Carries(Tail(chan[<<Trusted, p>>]), Down, Heard(hk, hc, p) + 1, SentDown(L, p))
  <2>1. NextDown(L, hk, hc, p)
    BY <1>1, HearsDown
  <2> QED BY <2>1 DEF NextDown
<1>3. hk[p] \in 0 .. Chunks /\ hc[p] \in 0 .. 5
  BY DEF Holds, WitnessTypes
<1>4. t = "LAUNCH_ONLINE" => hk[p] = Chunks
  BY <1>1, <1>2, <1>3, DownTypes
<1>5. t # "LAUNCH_ONLINE" => hk[p] # Chunks
  BY <1>1, <1>2 DEF Type
<1>6. hk[p] # Chunks => hk[p] < Chunks
  BY <1>3, NodeFacts
<1>7. hk[p] # Chunks => /\ Len(evaluated[p]) = 0 /\ ~IsDone(p)
                        /\ U[p] = 2 * hk[p] + More(hc, p, 2)
  <2>1. PartyInv(hk, hc, U, p)
    BY DEF Holds
  <2>2. Len(evaluated[p]) \in 0 .. Chunks /\ (Len(evaluated[p]) > 0 => hk[p] = Chunks)
    BY <2>1 DEF PartyInv, StoresInv, Launched
  <2>3. hk[p] # Chunks => Len(evaluated[p]) = 0
    BY <2>2, NodeFacts
  <2>4. hk[p] # Chunks => ~IsDone(p)
    BY <2>3, NodeFacts DEF IsDone
  <2> QED BY <2>1, <2>3, <2>4 DEF PartyInv
<1> QED BY <1>1, <1>2, <1>3, <1>4, <1>5, <1>6, <1>7 DEF Finds

(* While a party has not got all its pieces, the launch has not been sent.   *)
LEMMA NotLaunched ==
  ASSUME NEW L, NEW hk, NEW hc, NEW U, NEW V, Holds(L, hk, hc, U, V), NEW p \in Parties,
         hk[p] \in Nat, U[p] < 2 * Chunks
  PROVE  ~L
<1>1. Carries(chan[<<p, Trusted>>], Up, V[p], U[p])
  BY DEF Holds, ChannelInv
<1>2. IsSeq(chan[<<p, Trusted>>])
  BY NetDomains, NodeFacts
<1>3. V[p] <= U[p] /\ V[p] \in Nat /\ U[p] \in Nat
  BY <1>1, <1>2, CarriesOrder
<1>4. L => V[p] \in {2 * Chunks, 2 * Chunks + 1}
  BY DEF Holds, TrustedPart, Answers
<1> QED BY <1>3, <1>4, NodeFacts

(* Taking a message from the trusted party.                                 *)
Next1(hk, hc, p) == [hk EXCEPT ![p] = IF hc[p] = 5 THEN @ + 1 ELSE @]
Next2(hk, hc, p) == [hc EXCEPT ![p] = IF @ = 5 THEN 0 ELSE @ + 1]

LEMMA NextHeard ==
  ASSUME NEW L, NEW hk, NEW hc, NEW U, NEW V, WitnessTypes(L, hk, hc, U, V), NEW p \in Parties,
         hk[p] < Chunks \/ (hk[p] = Chunks /\ hc[p] = 0)
  PROVE  /\ Next1(hk, hc, p)[p] = IF hc[p] = 5 THEN hk[p] + 1 ELSE hk[p]
         /\ Next2(hk, hc, p)[p] = IF hc[p] = 5 THEN 0 ELSE hc[p] + 1
         /\ WitnessTypes(L, Next1(hk, hc, p), Next2(hk, hc, p), U, V)
         /\ \A q \in Parties : q # p => /\ Next1(hk, hc, p)[q] = hk[q]
                                        /\ Next2(hk, hc, p)[q] = hc[q]
         /\ Heard(Next1(hk, hc, p), Next2(hk, hc, p), p) = Heard(hk, hc, p) + 1
<1> DEFINE k == Next1(hk, hc, p)
           c == Next2(hk, hc, p)
<1>1. hk \in [Parties -> 0 .. Chunks] /\ hc \in [Parties -> 0 .. 5] /\ Chunks \in Nat /\ Chunks >= 1
  BY NodeFacts DEF WitnessTypes
<1>2. hk[p] \in 0 .. Chunks /\ hc[p] \in 0 .. 5
  BY <1>1
<1>3. (IF hc[p] = 5 THEN hk[p] + 1 ELSE hk[p]) \in 0 .. Chunks
      /\ (IF hc[p] = 5 THEN 0 ELSE hc[p] + 1) \in 0 .. 5
  BY <1>1, <1>2
<1>4. /\ k \in [Parties -> 0 .. Chunks] /\ c \in [Parties -> 0 .. 5]
      /\ k[p] = (IF hc[p] = 5 THEN hk[p] + 1 ELSE hk[p])
      /\ c[p] = (IF hc[p] = 5 THEN 0 ELSE hc[p] + 1)
      /\ \A q \in Parties : q # p => k[q] = hk[q] /\ c[q] = hc[q]
  BY <1>1, <1>3 DEF Next1, Next2
<1> HIDE DEF k, c
<1>5. \A q \in Parties : k[q] = Chunks => c[q] <= 1
  <2>1. k[p] = Chunks => c[p] <= 1
    BY <1>1, <1>2, <1>4
  <2> QED BY <2>1, <1>4 DEF WitnessTypes
<1>6. WitnessTypes(L, k, c, U, V)
  BY <1>4, <1>5 DEF WitnessTypes
<1>7. 6 * k[p] + c[p] = (6 * hk[p] + hc[p]) + 1
  BY <1>2, <1>4
<1> QED BY <1>4, <1>6, <1>7 DEF k, c, Heard

LEMMA TakeDown ==
  ASSUME NEW L, NEW hk, NEW hc, NEW U, NEW V, Holds(L, hk, hc, U, V), NEW p \in Parties,
         Take(p, Trusted), chan[<<Trusted, p>>] # <<>>
  PROVE  /\ DOMAIN chan' = Connections /\ lost' = lost
         /\ chan'[<<Trusted, p>>] = Tail(chan[<<Trusted, p>>])
         /\ \A c \in Connections : c # <<Trusted, p>> => chan'[c] = chan[c]
         /\ NoNoise(<<Trusted, p>>) /\ NoNoise(<<p, Trusted>>)
<1>1. /\ DOMAIN chan' = Connections /\ lost' = lost
      /\ chan'[<<Trusted, p>>] = Tail(chan[<<Trusted, p>>])
      /\ \A c \in Connections : c # <<Trusted, p>> => chan'[c] = chan[c]
  BY NodeFacts, NetDomains DEF Take, Rest
<1>2. NoNoise(<<Trusted, p>>)
  <2>1. IsSeq(chan[<<Trusted, p>>])
    BY NetDomains, NodeFacts
  <2> QED BY <1>1, <2>1, InsideTail DEF NoNoise
<1>3. NoNoise(<<p, Trusted>>)
  BY <1>1, NetDomains, NodeFacts DEF NoNoise
<1> QED BY <1>1, <1>2, <1>3

(* A step that takes a message, changes the party's stores and sends nothing. *)
LEMMA TakeKeeps ==
  ASSUME NEW L, NEW hk, NEW hc, NEW U, NEW V, Holds(L, hk, hc, U, V), NEW p \in Parties,
         Take(p, Trusted), chan[<<Trusted, p>>] # <<>>,
         Carries(Tail(chan[<<Trusted, p>>]), Down, Heard(hk, hc, p) + 1, SentDown(L, p)),
         hk[p] < Chunks \/ (hk[p] = Chunks /\ hc[p] = 0),
         Elsewhere(p), Functions', stopping' = stopping,
         PartyInv(Next1(hk, hc, p), Next2(hk, hc, p), U, p)',
         listener'[<<p, Trusted>>] \notin {"stopping", "aborting"}
  PROVE  IInv'
<1> DEFINE k == Next1(hk, hc, p)
           c == Next2(hk, hc, p)
<1>1. WitnessTypes(L, hk, hc, U, V)
  BY DEF Holds
<1>2. /\ WitnessTypes(L, k, c, U, V) /\ Heard(k, c, p) = Heard(hk, hc, p) + 1
      /\ \A q \in Parties : q # p => k[q] = hk[q] /\ c[q] = hc[q]
  BY <1>1, NextHeard
<1> HIDE DEF k, c
<1>3. SentDown(L, p)' = SentDown(L, p)
  BY DEF Elsewhere, SentDown, trustedVars, filling, answers
<1>4. ChannelInv(L, hk, hc, U, V, p)
  BY DEF Holds
<1>5. ChannelInv(L, k, c, U, V, p)'
  BY <1>2, <1>3, <1>4, TakeDown, NodeFacts DEF ChannelInv
<1>6. stopping' # {} => L
  BY NetDomains DEF NetRest
<1>7. PartyInv(k, c, U, p)'
  BY DEF k, c
<1>8. Holds(L, k, c, U, V)'
  BY <1>2, <1>5, <1>6, <1>7, TakeDown, PartyKeeps
<1> QED BY <1>8 DEF IInv

(* The invariant of a party that has not heard the launch.                  *)
Gathering(k, c, U, p) ==
  /\ IsSeq(evaluated[p]) /\ Len(evaluated[p]) = 0
  /\ Pieces(wires[p], 0, k[p] + More(c, p, 2))
  /\ Pieces(input_masks[p], 0, k[p] + More(c, p, 3))
  /\ Pieces(output_masks[p], 0, k[p] + More(c, p, 4))
  /\ IsSeq(circuits[p]) /\ Len(circuits[p]) = k[p]
  /\ \A i \in 1 .. k[p] : circuits[p][i] = Circuit(i)
  /\ prfs[p] = k[p] + More(c, p, 2)
  /\ spdz_wires[p] = k[p] + More(c, p, 5)
  /\ Heard(k, c, p) > 0 => delta[p]
  /\ U[p] = 2 * k[p] + More(c, p, 2)
  /\ listener[<<p, Trusted>>] # "evaluating"

LEMMA GatheringOf ==
  ASSUME NEW k, NEW c, NEW U, NEW p, k[p] \in 0 .. Chunks, ~Launched(k, c, p), PartyInv(k, c, U, p)
  PROVE  Gathering(k, c, U, p)
<1>1. StoresInv(k, c, p)
  BY DEF PartyInv
<1>2. Len(evaluated[p]) \in 0 .. Chunks /\ ~(Len(evaluated[p]) > 0)
  BY <1>1 DEF StoresInv
<1>3. Len(evaluated[p]) = 0 /\ k[p] \in Nat
  BY <1>2, NodeFacts
<1>4. ~IsDone(p)
  BY <1>3, NodeFacts DEF IsDone
<1>5. /\ k[p] - 0 + 0 = k[p] /\ k[p] - 0 = k[p]
      /\ \A i \in 1 .. k[p] : 0 + i = i
  BY <1>3
<1> QED BY <1>1, <1>3, <1>4, <1>5 DEF PartyInv, StoresInv, Gathering

LEMMA GatheredInv ==
  ASSUME NEW k, NEW c, NEW U, NEW p, k[p] \in 0 .. Chunks, ~Launched(k, c, p),
         Gathering(k, c, U, p)'
  PROVE  PartyInv(k, c, U, p)'
<1>1. Len(evaluated'[p]) = 0 /\ k[p] \in Nat /\ 0 \in 0 .. Chunks
  BY NodeFacts DEF Gathering
<1>2. /\ k[p] - 0 + 0 = k[p] /\ k[p] - 0 = k[p]
      /\ \A i \in 1 .. k[p] : 0 + i = i
      /\ 1 .. 0 = {}
  BY <1>1
<1>3. StoresInv(k, c, p)'
  BY <1>1, <1>2 DEF StoresInv, Gathering
<1>4. ~IsDone(p)'
  BY <1>1, NodeFacts DEF IsDone
<1> QED BY <1>3, <1>4 DEF PartyInv, Gathering

(* What a message that is no launch finds.                                  *)
LEMMA Gathers ==
  ASSUME NEW L, NEW hk, NEW hc, NEW U, NEW V, Holds(L, hk, hc, U, V), NEW p \in Parties,
         NEW t \in {"DELTA", "KEYS", "MASK_INPUTS", "MASK_OUTPUT", "SPDZ_WIRES", "GARBLED_CIRCUIT"},
         FromTrusted(p, t)
  PROVE  /\ Gathering(hk, hc, U, p) /\ hk[p] \in Nat /\ hk[p] < Chunks /\ ~L
         /\ chan[<<Trusted, p>>] # <<>>
         /\ Carries(Tail(chan[<<Trusted, p>>]), Down, Heard(hk, hc, p) + 1, SentDown(L, p))
         /\ t = "DELTA" => hc[p] = 0
         /\ t = "KEYS" => hc[p] = 1 /\ Content(p) = hk[p] + 1
         /\ t = "MASK_INPUTS" => hc[p] = 2 /\ Content(p) = hk[p] + 1
         /\ t = "MASK_OUTPUT" => hc[p] = 3 /\ Content(p) = hk[p] + 1
         /\ t = "SPDZ_WIRES" => hc[p] = 4
         /\ t = "GARBLED_CIRCUIT" => hc[p] = 5 /\ Content(p) = Circuit(hk[p] + 1)
<1>1. /\ chan[<<Trusted, p>>] # <<>>
      /\ Carries(Tail(chan[<<Trusted, p>>]), Down, Heard(hk, hc, p) + 1, SentDown(L, p))
      /\ hk[p] \in 0 .. Chunks /\ hk[p] < Chunks /\ hc[p] \in 0 .. 5
      /\ Head(chan[<<Trusted, p>>]) = DownOf(hk[p], hc[p])
      /\ DownOf(hk[p], hc[p]).type = t
      /\ U[p] = 2 * hk[p] + More(hc, p, 2)
  <2>1. Finds(L, hk, hc, U, p, t)
    BY HeadDown
  <2> QED BY <2>1 DEF Finds
<1>2. Gathering(hk, hc, U, p)
  BY <1>1, NodeFacts, GatheringOf DEF Holds, Launched
<1>3. ~L
  <2>1. U[p] < 2 * Chunks /\ hk[p] \in Nat
    BY <1>1, NodeFacts DEF More
  <2> QED BY <2>1, NotLaunched
<1>4. /\ t = "DELTA" => hc[p] = 0
      /\ t = "KEYS" => hc[p] = 1 /\ Content(p) = hk[p] + 1
      /\ t = "MASK_INPUTS" => hc[p] = 2 /\ Content(p) = hk[p] + 1
      /\ t = "MASK_OUTPUT" => hc[p] = 3 /\ Content(p) = hk[p] + 1
      /\ t = "SPDZ_WIRES" => hc[p] = 4
      /\ t = "GARBLED_CIRCUIT" => hc[p] = 5 /\ Content(p) = Circuit(hk[p] + 1)
  BY <1>1, DownTypes DEF Content
<1> QED BY <1>1, <1>2, <1>3, <1>4, NodeFacts

LEMMA HearDeltaKeeps ==
  ASSUME NEW L, NEW hk, NEW hc, NEW U, NEW V, Holds(L, hk, hc, U, V), NEW p \in Parties,
         HearDelta(p)
  PROVE  IInv'
<1> DEFINE k == Next1(hk, hc, p)
           c == Next2(hk, hc, p)
<1>1. /\ FromTrusted(p, "DELTA") /\ Take(p, Trusted)
      /\ delta' = [delta EXCEPT ![p] = TRUE]
      /\ UNCHANGED <<conn, starter, ready_nodes, num_identified, clientsmap, listener, stopping, sending,
                     trustedVars, prfs, spdz_wires, circuits, input_masks, output_masks, evaluated,
                     wires>>
  BY DEF HearDelta, startup, ending
<1>2. /\ Gathering(hk, hc, U, p) /\ hk[p] \in Nat /\ hk[p] < Chunks /\ hc[p] = 0
      /\ chan[<<Trusted, p>>] # <<>>
      /\ Carries(Tail(chan[<<Trusted, p>>]), Down, Heard(hk, hc, p) + 1, SentDown(L, p))
  BY <1>1, Gathers
<1>3. k[p] = hk[p] /\ c[p] = 1
  BY <1>2, NextHeard DEF Holds
<1>4. Functions /\ Functions'
  BY <1>1, <1>2, TakeDown DEF Holds, Functions
<1>5. Elsewhere(p)
  BY <1>1, <1>2, <1>4, TakeDown DEF Elsewhere, Functions
<1>6. PartyInv(k, c, U, p)'
  <2> HIDE DEF k, c
  <2>1. Gathering(k, c, U, p)'
    BY <1>1, <1>2, <1>3, <1>4 DEF Gathering, More, Functions
  <2> QED BY <1>2, <1>3, <2>1, NodeFacts, GatheredInv DEF Launched
<1> QED BY <1>1, <1>2, <1>4, <1>5, <1>6, TakeKeeps DEF Gathering, FromTrusted, Incoming

LEMMA HearMasksKeeps ==
  ASSUME NEW L, NEW hk, NEW hc, NEW U, NEW V, Holds(L, hk, hc, U, V), NEW p \in Parties,
         HearMasks(p)
  PROVE  IInv'
<1> DEFINE k == Next1(hk, hc, p)
           c == Next2(hk, hc, p)
<1>1. /\ Take(p, Trusted)
      /\ UNCHANGED <<conn, starter, ready_nodes, num_identified, clientsmap, listener, stopping, sending,
                     trustedVars, prfs, delta, spdz_wires, circuits, evaluated, wires>>
      /\ \/ /\ FromTrusted(p, "MASK_INPUTS")
            /\ input_masks' = [input_masks EXCEPT ![p] = Append(@, Content(p))]
            /\ output_masks' = output_masks
         \/ /\ FromTrusted(p, "MASK_OUTPUT")
            /\ output_masks' = [output_masks EXCEPT ![p] = Append(@, Content(p))]
            /\ input_masks' = input_masks
  BY DEF HearMasks, startup, ending
<1>2. /\ Gathering(hk, hc, U, p) /\ hk[p] \in Nat /\ hk[p] < Chunks
      /\ chan[<<Trusted, p>>] # <<>>
      /\ Carries(Tail(chan[<<Trusted, p>>]), Down, Heard(hk, hc, p) + 1, SentDown(L, p))
      /\ \/ /\ hc[p] = 2
            /\ input_masks' = [input_masks EXCEPT ![p] = Append(@, hk[p] + 1)]
            /\ output_masks' = output_masks
         \/ /\ hc[p] = 3
            /\ output_masks' = [output_masks EXCEPT ![p] = Append(@, hk[p] + 1)]
            /\ input_masks' = input_masks
  BY <1>1, Gathers
<1>3. k[p] = hk[p] /\ c[p] = hc[p] + 1
  BY <1>2, NextHeard DEF Holds
<1>4. Functions /\ Functions'
  BY <1>1, <1>2, TakeDown DEF Holds, Functions
<1>5. Elsewhere(p)
  BY <1>1, <1>2, <1>4, TakeDown DEF Elsewhere, Functions
<1>6. PartyInv(k, c, U, p)'
  <2> HIDE DEF k, c
  <2>1. CASE hc[p] = 2
    <3>1. input_masks'[p] = Append(input_masks[p], hk[p] + 1) /\ output_masks' = output_masks
      BY <1>2, <1>4, <2>1 DEF Functions
    <3>2. Pieces(input_masks'[p], 0, hk[p] + 1)
      BY <1>2, <2>1, <3>1, PiecesMore DEF Gathering, More
    <3>3. Gathering(k, c, U, p)'
      BY <1>1, <1>2, <1>3, <2>1, <3>1, <3>2 DEF Gathering, More, Heard
    <3> QED BY <1>2, <1>3, <3>3, NodeFacts, GatheredInv DEF Launched
  <2>2. CASE hc[p] = 3
    <3>1. output_masks'[p] = Append(output_masks[p], hk[p] + 1) /\ input_masks' = input_masks
      BY <1>2, <1>4, <2>2 DEF Functions
    <3>2. Pieces(output_masks'[p], 0, hk[p] + 1)
      BY <1>2, <2>2, <3>1, PiecesMore DEF Gathering, More
    <3>3. Gathering(k, c, U, p)'
      BY <1>1, <1>2, <1>3, <2>2, <3>1, <3>2 DEF Gathering, More, Heard
    <3> QED BY <1>2, <1>3, <3>3, NodeFacts, GatheredInv DEF Launched
  <2> QED BY <1>2, <2>1, <2>2
<1> QED BY <1>1, <1>2, <1>4, <1>5, <1>6, TakeKeeps DEF FromTrusted, Incoming

LEMMA HearSpdzWiresKeeps ==
  ASSUME NEW L, NEW hk, NEW hc, NEW U, NEW V, Holds(L, hk, hc, U, V), NEW p \in Parties,
         HearSpdzWires(p)
  PROVE  IInv'
<1> DEFINE k == Next1(hk, hc, p)
           c == Next2(hk, hc, p)
<1>1. /\ FromTrusted(p, "SPDZ_WIRES") /\ Take(p, Trusted)
      /\ spdz_wires' = [spdz_wires EXCEPT ![p] = @ + 1]
      /\ UNCHANGED <<conn, starter, ready_nodes, num_identified, clientsmap, listener, stopping, sending,
                     trustedVars, prfs, delta, circuits, input_masks, output_masks, evaluated,
                     wires>>
  BY DEF HearSpdzWires, startup, ending
<1>2. /\ Gathering(hk, hc, U, p) /\ hk[p] \in Nat /\ hk[p] < Chunks /\ hc[p] = 4
      /\ chan[<<Trusted, p>>] # <<>>
      /\ Carries(Tail(chan[<<Trusted, p>>]), Down, Heard(hk, hc, p) + 1, SentDown(L, p))
  BY <1>1, Gathers
<1>3. k[p] = hk[p] /\ c[p] = 5
  BY <1>2, NextHeard DEF Holds
<1>4. Functions /\ Functions'
  BY <1>1, <1>2, TakeDown DEF Holds, Functions
<1>5. Elsewhere(p)
  BY <1>1, <1>2, <1>4, TakeDown DEF Elsewhere, Functions
<1>6. PartyInv(k, c, U, p)'
  <2> HIDE DEF k, c
  <2>1. spdz_wires'[p] = spdz_wires[p] + 1
    BY <1>1, <1>4 DEF Functions
  <2>2. Gathering(k, c, U, p)'
    BY <1>1, <1>2, <1>3, <2>1 DEF Gathering, More, Heard
  <2> QED BY <1>2, <1>3, <2>2, NodeFacts, GatheredInv DEF Launched
<1> QED BY <1>1, <1>2, <1>4, <1>5, <1>6, TakeKeeps DEF FromTrusted, Incoming

LEMMA PartyReadyKeeps ==
  ASSUME NEW L, NEW hk, NEW hc, NEW U, NEW V, Holds(L, hk, hc, U, V),
         NEW p \in Parties, NEW j \in Others(p), PartyReady(p, j)
  PROVE  IInv'
<1>1. /\ listener[<<p, j>>] = "comparing" /\ listener' = [listener EXCEPT ![<<p, j>>] = "receiving"]
      /\ UNCHANGED <<conn, starter, ready_nodes, num_identified, clientsmap, chan, lost, stopping,
                     sending>>
      /\ prepared' = prepared /\ OthersKept
  BY DEF PartyReady, startup, net, ending, OthersKept, trustedVars, filling
<1>2. Quiet(p, "none")
  BY <1>1, NetDomains DEF Quiet
<1>3. <<p, j>> \in Connections /\ \A c \in Connections : listener'[c] = IF c = <<p, j>> THEN "receiving" ELSE listener[c]
  BY <1>1, NetDomains, NodeFacts
<1>4. NetChannels'
  BY <1>1, NetDomains, NodeFacts DEF NetChannels, Inside
<1>5. NetRest(L)'
  <2>1. \A c \in Connections : listener'[c] \in {"stopping", "aborting"} => c[1] \in stopping'
    BY <1>1, <1>3, NetDomains DEF NetRest
  <2> QED BY <1>1, <2>1, NetDomains DEF NetRest
<1>6. NothingNeededLost'
  BY <1>1, NetDomains DEF NothingNeededLost
<1>7. /\ DOMAIN listener' = Connections
      /\ \A c \in Connections : \A s \in {"evaluating", "sending"} :
           listener'[c] = s <=> listener[c] = s
  BY <1>1, <1>3, NetDomains
<1>8. Holds(L, hk, hc, U, V)'
  BY <1>1, <1>2, <1>4, <1>5, <1>6, <1>7, NetDomains, NetKeeps DEF NetPart, OthersKept
<1> QED BY <1>8 DEF IInv

LEMMA HearLaunchKeeps ==
  ASSUME NEW L, NEW hk, NEW hc, NEW U, NEW V, Holds(L, hk, hc, U, V), NEW p \in Parties,
         HearLaunch(p)
  PROVE  IInv'
<1> DEFINE k == Next1(hk, hc, p)
           c == Next2(hk, hc, p)
<1>1. /\ FromTrusted(p, "LAUNCH_ONLINE") /\ Take(p, Trusted)
      /\ circuits' = [circuits EXCEPT ![p] = Append(@, Token)]
      /\ listener' = [listener EXCEPT ![<<p, Trusted>>] = "evaluating"]
      /\ UNCHANGED <<conn, starter, ready_nodes, num_identified, clientsmap, stopping, sending,
                     trustedVars, prfs, delta, spdz_wires, input_masks, output_masks, evaluated,
                     wires>>
  BY DEF HearLaunch, startup, ending
<1>2. /\ hk[p] = Chunks /\ hc[p] = 0
      /\ chan[<<Trusted, p>>] # <<>>
      /\ Carries(Tail(chan[<<Trusted, p>>]), Down, Heard(hk, hc, p) + 1, SentDown(L, p))
  <2>1. Finds(L, hk, hc, U, p, "LAUNCH_ONLINE")
    BY <1>1, HeadDown
  <2> QED BY <2>1 DEF Finds
<1>3. Gathering(hk, hc, U, p)
  BY <1>2, NodeFacts, GatheringOf DEF Holds, Launched
<1>4. k[p] = Chunks /\ c[p] = 1
  BY <1>2, NextHeard DEF Holds
<1>5. Functions /\ Functions'
  BY <1>1, <1>2, TakeDown DEF Holds, Functions
<1>6. /\ circuits'[p] = Append(circuits[p], Token)
      /\ listener'[<<p, Trusted>>] = "evaluating"
      /\ \A d \in Connections : d # <<p, Trusted>> => listener'[d] = listener[d]
  BY <1>1, <1>5, NodeFacts DEF Functions
<1>7. Elsewhere(p)
  BY <1>1, <1>2, <1>5, <1>6, TakeDown DEF Elsewhere, Functions
<1>8. PartyInv(k, c, U, p)'
  <2> HIDE DEF k, c
  <2>1. /\ IsSeq(circuits'[p]) /\ Len(circuits'[p]) = Chunks + 1
        /\ \A i \in 1 .. Chunks : circuits'[p][i] = Circuit(i)
    <3>1. IsSeq(circuits[p]) /\ Len(circuits[p]) = Chunks /\ \A i \in 1 .. Chunks : circuits[p][i] = Circuit(i)
      BY <1>2, <1>3 DEF Gathering
    <3> QED BY <1>6, <3>1, AppendFacts
  <2>2. /\ Len(evaluated'[p]) = 0 /\ IsSeq(evaluated'[p]) /\ 0 \in 0 .. Chunks /\ Chunks \in Nat
        /\ Launched(k, c, p)
    BY <1>1, <1>3, <1>4, NodeFacts DEF Gathering, Launched
  <2>3. /\ Chunks - 0 + 1 = Chunks + 1 /\ Chunks - 0 = Chunks /\ 1 .. 0 = {}
        /\ \A i \in 1 .. Chunks : 0 + i = i
    BY NodeFacts
  <2>4. \A d \in 2 .. 5 : More(c, p, d) = 0 /\ More(hc, p, d) = 0
    BY <1>2, <1>4 DEF More
  <2>5. StoresInv(k, c, p)'
    BY <1>1, <1>2, <1>3, <1>4, <2>1, <2>2, <2>3, <2>4 DEF StoresInv, Gathering
  <2>6. ~IsDone(p)'
    BY <2>2, NodeFacts DEF IsDone
  <2>7. delta[p] /\ prfs[p] = Chunks + 0 /\ spdz_wires[p] = Chunks + 0 /\ U[p] = 2 * Chunks + 0
    <3>1. Heard(hk, hc, p) > 0
      BY <1>2, NodeFacts DEF Heard
    <3> QED BY <1>2, <1>3, <2>4, <3>1 DEF Gathering
  <2> QED BY <1>1, <1>4, <2>2, <2>4, <2>5, <2>6, <2>7 DEF PartyInv
<1> QED BY <1>1, <1>2, <1>5, <1>6, <1>7, <1>8, TakeKeeps

(* A step that takes a message and answers.                                 *)
LEMMA AnswerKeeps ==
  ASSUME NEW L, NEW hk, NEW hc, NEW U, NEW V, Holds(L, hk, hc, U, V), NEW p \in Parties,
         NEW m, m = Up[U[p]], Protocol(m), chan[<<Trusted, p>>] # <<>>,
         Carries(Tail(chan[<<Trusted, p>>]), Down, Heard(hk, hc, p) + 1, SentDown(L, p)),
         hk[p] < Chunks, lost' = lost,
         chan'[<<Trusted, p>>] = Tail(chan[<<Trusted, p>>]),
         chan'[<<p, Trusted>>] = chan[<<p, Trusted>>] \o <<m>>,
         Elsewhere(p), Functions', stopping' = stopping,
         PartyInv(Next1(hk, hc, p), Next2(hk, hc, p), [U EXCEPT ![p] = @ + 1], p)',
         listener'[<<p, Trusted>>] \notin {"stopping", "aborting"}
  PROVE  IInv'
<1> DEFINE k == Next1(hk, hc, p)
           c == Next2(hk, hc, p)
           U2 == [U EXCEPT ![p] = @ + 1]
           l == <<m>>
<1>1. WitnessTypes(L, hk, hc, U, V)
  BY DEF Holds
<1>2. /\ WitnessTypes(L, k, c, U, V) /\ Heard(k, c, p) = Heard(hk, hc, p) + 1
      /\ \A q \in Parties : q # p => k[q] = hk[q] /\ c[q] = hc[q]
  BY <1>1, NextHeard
<1>3. /\ U \in [Parties -> Nat] /\ U2 \in [Parties -> Nat] /\ U2[p] = U[p] + 1
      /\ \A q \in Parties : q # p => U2[q] = U[q]
  BY <1>1 DEF WitnessTypes
<1>4. IsSeq(l) /\ Len(l) = 1 /\ l[1] = m
  BY SmallSeqs
<1>5. PartyInv(k, c, U2, p)'
  OBVIOUS
<1> HIDE DEF k, c, U2, l
<1>6. WitnessTypes(L, k, c, U2, V)
  BY <1>2, <1>3 DEF WitnessTypes
<1>7. /\ IsSeq(chan[<<Trusted, p>>]) /\ IsSeq(chan[<<p, Trusted>>])
      /\ ChannelInv(L, hk, hc, U, V, p)
  BY NetDomains, NodeFacts DEF Holds
<1>8. chan'[<<p, Trusted>>] = chan[<<p, Trusted>>] \o l
  BY DEF l
<1>9. Carries(chan[<<p, Trusted>>] \o l, Up, V[p], U[p] + Len(l))
  <2>1. \A i \in 1 .. Len(l) : Protocol(l[i]) /\ l[i] = Up[U[p] + i - 1]
    <3>1. U[p] + 1 - 1 = U[p]
      BY <1>3
    <3> QED BY <1>4, <3>1
  <2>2. Carries(chan[<<p, Trusted>>], Up, V[p], U[p]) /\ U[p] \in Nat
    BY <1>3, <1>7 DEF ChannelInv
  <2> QED BY <1>4, <1>7, <2>1, <2>2, CarriesMore
<1>10. ChannelInv(L, k, c, U2, V, p)'
  <2>1. SentDown(L, p)' = SentDown(L, p)
    BY DEF Elsewhere, SentDown, trustedVars, filling, answers
  <2> QED BY <1>2, <1>3, <1>4, <1>8, <1>9, <2>1 DEF ChannelInv
<1>11. NoNoise(<<Trusted, p>>)
  BY <1>7, InsideTail DEF NoNoise
<1>12. NoNoise(<<p, Trusted>>)
  <2>1. \A u \in Noise : ~Inside(l, u)
    BY <1>4 DEF Inside, Protocol, Noise
  <2>2. IsSeq(chan[<<p, Trusted>>] \o l) /\ \A u : Inside(chan[<<p, Trusted>>] \o l, u) =>
                                              Inside(chan[<<p, Trusted>>], u) \/ Inside(l, u)
    BY <1>4, <1>7, InsideMore
  <2> QED BY <1>8, <2>1, <2>2 DEF NoNoise
<1>13. stopping' # {} => L
  BY NetDomains DEF NetRest
<1>14. Holds(L, k, c, U2, V)'
  BY <1>2, <1>3, <1>5, <1>6, <1>10, <1>11, <1>12, <1>13, PartyKeeps
<1> QED BY <1>14 DEF IInv

LEMMA HearKeysKeeps ==
  ASSUME NEW L, NEW hk, NEW hc, NEW U, NEW V, Holds(L, hk, hc, U, V), NEW p \in Parties,
         HearKeys(p)
  PROVE  IInv'
<1> DEFINE k == Next1(hk, hc, p)
           c == Next2(hk, hc, p)
           U2 == [U EXCEPT ![p] = @ + 1]
<1>1. /\ FromTrusted(p, "KEYS")
      /\ Send(Rest(p, Trusted), p, ToOne(p, Trusted, <<Msg("PRF_OUTPUTS", prfs[p] + 1)>>))
      /\ prfs' = [prfs EXCEPT ![p] = @ + 1]
      /\ wires' = [wires EXCEPT ![p] = Append(@, Content(p))]
      /\ UNCHANGED <<conn, starter, ready_nodes, num_identified, clientsmap, listener, stopping, sending,
                     trustedVars, delta, spdz_wires, circuits, input_masks, output_masks, evaluated>>
  BY DEF HearKeys, startup, ending
<1>2. /\ Gathering(hk, hc, U, p) /\ hk[p] \in Nat /\ hk[p] < Chunks /\ hc[p] = 1 /\ ~L
      /\ chan[<<Trusted, p>>] # <<>> /\ Content(p) = hk[p] + 1
      /\ Carries(Tail(chan[<<Trusted, p>>]), Down, Heard(hk, hc, p) + 1, SentDown(L, p))
  BY <1>1, Gathers
<1>3. k[p] = hk[p] /\ c[p] = 2
  BY <1>2, NextHeard DEF Holds
<1>4. PICK m : m = Msg("PRF_OUTPUTS", prfs[p] + 1)
  OBVIOUS
<1>5. /\ DOMAIN chan' = Connections /\ lost' = lost
      /\ chan'[<<Trusted, p>>] = Tail(chan[<<Trusted, p>>])
      /\ chan'[<<p, Trusted>>] = chan[<<p, Trusted>>] \o <<m>>
      /\ \A d \in Connections : d # <<p, Trusted>> /\ d # <<Trusted, p>> => chan'[d] = chan[d]
  <2> DEFINE ms == ToOne(p, Trusted, <<Msg("PRF_OUTPUTS", prfs[p] + 1)>>)
             r == Rest(p, Trusted)
  <2>1. \A d \in Connections : d \in sending
    BY <1>2, NetDomains, AllSending
  <2>2. {j \in Others(p) : <<p, j>> \notin sending} = {}
    BY <2>1, NodeFacts
  <2>3. /\ chan' = [d \in Connections |-> IF d[1] = p /\ d \in sending THEN r[d] \o ms[d[2]] ELSE r[d]]
        /\ {j \in Others(p) : <<p, j>> \notin sending} = {} => lost' = lost
    BY <1>1 DEF Send
  <2>4. /\ r[<<Trusted, p>>] = Tail(chan[<<Trusted, p>>])
        /\ \A d \in Connections : d # <<Trusted, p>> => r[d] = chan[d]
    BY NetDomains, NodeFacts DEF Rest
  <2>5. ms[Trusted] = <<m>> /\ \A j \in Others(p) : j # Trusted => ms[j] = <<>>
    BY <1>4, NodeFacts DEF ToOne
  <2> HIDE DEF ms, r
  <2>6. \A d \in Connections : chan'[d] = IF d[1] = p THEN r[d] \o ms[d[2]] ELSE r[d]
    BY <2>1, <2>3
  <2>7. \A d \in Connections : chan[d] \o <<>> = chan[d]
    BY NetDomains, EmptyFacts, ConcatFacts
  <2>8. chan'[<<Trusted, p>>] = Tail(chan[<<Trusted, p>>])
    BY <2>4, <2>6, NodeFacts
  <2>9. chan'[<<p, Trusted>>] = chan[<<p, Trusted>>] \o <<m>>
    <3>1. <<p, Trusted>> # <<Trusted, p>> /\ <<p, Trusted>> \in Connections
      BY NodeFacts
    <3> QED BY <2>4, <2>5, <2>6, <3>1
  <2>10. ASSUME NEW d \in Connections, d # <<p, Trusted>>, d # <<Trusted, p>>
         PROVE  chan'[d] = chan[d]
    <3>1. CASE d[1] = p
      <4>1. d[2] \in Others(p) /\ d[2] # Trusted
        BY <2>10, <3>1, NodeFacts
      <4> QED BY <2>4, <2>5, <2>6, <2>7, <2>10, <3>1, <4>1
    <3>2. CASE d[1] # p
      BY <2>4, <2>6, <2>10, <3>2
    <3> QED BY <3>1, <3>2
  <2> QED BY <2>2, <2>3, <2>8, <2>9, <2>10
<1>6. Functions /\ Functions'
  BY <1>1, <1>5 DEF Holds, Functions
<1>7. Elsewhere(p)
  BY <1>1, <1>5, <1>6, NodeFacts DEF Elsewhere, Functions
<1>8. U2[p] = U[p] + 1
  BY DEF Holds, WitnessTypes
<1>9. PartyInv(k, c, U2, p)'
  <2> HIDE DEF k, c, U2
  <2>1. prfs'[p] = prfs[p] + 1 /\ wires'[p] = Append(wires[p], hk[p] + 1)
    BY <1>1, <1>2, <1>6, NodeFacts DEF Functions
  <2>2. Pieces(wires'[p], 0, hk[p] + 1)
    BY <1>2, <2>1, PiecesMore DEF Gathering, More
  <2>3. /\ \A d \in 2 .. 5 : More(hc, p, d) = 0
        /\ More(c, p, 2) = 1 /\ \A d \in 3 .. 5 : More(c, p, d) = 0
    BY <1>2, <1>3 DEF More
  <2>4. U2[p] = 2 * k[p] + 1 /\ prfs'[p] = k[p] + 1
    BY <1>2, <1>3, <1>8, <2>1, <2>3 DEF Gathering
  <2>5. delta[p]
    <3>1. Heard(hk, hc, p) > 0
      BY <1>2 DEF Heard
    <3> QED BY <1>2, <3>1 DEF Gathering
  <2>9. Gathering(k, c, U2, p)'
    BY <1>1, <1>2, <1>3, <2>2, <2>3, <2>4, <2>5 DEF Gathering
  <2> QED BY <1>2, <1>3, <2>9, NodeFacts, GatheredInv DEF Launched
<1>10. m = Up[U[p]] /\ Protocol(m)
  <2>1. U[p] = 2 * hk[p] + 0 /\ 2 * hk[p] + 0 # 2 * Chunks /\ prfs[p] = hk[p]
    BY <1>2, NodeFacts DEF Gathering, More
  <2>2. Up[2 * hk[p] + 0] = UpOf(hk[p], 0)
    BY <1>2, <2>1, UpIs
  <2> QED BY <1>4, <2>1, <2>2 DEF UpOf, Msg, Protocol
<1>11. listener'[<<p, Trusted>>] \notin {"stopping", "aborting"}
  BY <1>1 DEF FromTrusted, Incoming
<1> QED BY <1>1, <1>2, <1>5, <1>6, <1>7, <1>9, <1>10, <1>11, AnswerKeeps

LEMMA HearCircuitKeeps ==
  ASSUME NEW L, NEW hk, NEW hc, NEW U, NEW V, Holds(L, hk, hc, U, V), NEW p \in Parties,
         HearCircuit(p)
  PROVE  IInv'
<1> DEFINE k == Next1(hk, hc, p)
           c == Next2(hk, hc, p)
           U2 == [U EXCEPT ![p] = @ + 1]
<1>1. /\ FromTrusted(p, "GARBLED_CIRCUIT")
      /\ Send(Rest(p, Trusted), p, ToOne(p, Trusted, <<Type("RECEIVED_GC")>>))
      /\ circuits' = [circuits EXCEPT ![p] = Append(@, Content(p))]
      /\ UNCHANGED <<conn, starter, ready_nodes, num_identified, clientsmap, listener, stopping, sending,
                     trustedVars, prfs, delta, spdz_wires, input_masks, output_masks, evaluated, wires>>
  BY DEF HearCircuit, startup, ending
<1>2. /\ Gathering(hk, hc, U, p) /\ hk[p] \in Nat /\ hk[p] < Chunks /\ hc[p] = 5 /\ ~L
      /\ chan[<<Trusted, p>>] # <<>> /\ Content(p) = Circuit(hk[p] + 1)
      /\ Carries(Tail(chan[<<Trusted, p>>]), Down, Heard(hk, hc, p) + 1, SentDown(L, p))
  BY <1>1, Gathers
<1>3. k[p] = hk[p] + 1 /\ c[p] = 0
  BY <1>2, NextHeard DEF Holds
<1>4. PICK m : m = Type("RECEIVED_GC")
  OBVIOUS
<1>5. /\ DOMAIN chan' = Connections /\ lost' = lost
      /\ chan'[<<Trusted, p>>] = Tail(chan[<<Trusted, p>>])
      /\ chan'[<<p, Trusted>>] = chan[<<p, Trusted>>] \o <<m>>
      /\ \A d \in Connections : d # <<p, Trusted>> /\ d # <<Trusted, p>> => chan'[d] = chan[d]
  <2> DEFINE ms == ToOne(p, Trusted, <<Type("RECEIVED_GC")>>)
             r == Rest(p, Trusted)
  <2>1. \A d \in Connections : d \in sending
    BY <1>2, NetDomains, AllSending
  <2>2. {j \in Others(p) : <<p, j>> \notin sending} = {}
    BY <2>1, NodeFacts
  <2>3. /\ chan' = [d \in Connections |-> IF d[1] = p /\ d \in sending THEN r[d] \o ms[d[2]] ELSE r[d]]
        /\ {j \in Others(p) : <<p, j>> \notin sending} = {} => lost' = lost
    BY <1>1 DEF Send
  <2>4. /\ r[<<Trusted, p>>] = Tail(chan[<<Trusted, p>>])
        /\ \A d \in Connections : d # <<Trusted, p>> => r[d] = chan[d]
    BY NetDomains, NodeFacts DEF Rest
  <2>5. ms[Trusted] = <<m>> /\ \A j \in Others(p) : j # Trusted => ms[j] = <<>>
    BY <1>4, NodeFacts DEF ToOne
  <2> HIDE DEF ms, r
  <2>6. \A d \in Connections : chan'[d] = IF d[1] = p THEN r[d] \o ms[d[2]] ELSE r[d]
    BY <2>1, <2>3
  <2>7. \A d \in Connections : chan[d] \o <<>> = chan[d]
    BY NetDomains, EmptyFacts, ConcatFacts
  <2>8. chan'[<<Trusted, p>>] = Tail(chan[<<Trusted, p>>])
    BY <2>4, <2>6, NodeFacts
  <2>9. chan'[<<p, Trusted>>] = chan[<<p, Trusted>>] \o <<m>>
    <3>1. <<p, Trusted>> # <<Trusted, p>> /\ <<p, Trusted>> \in Connections
      BY NodeFacts
    <3> QED BY <2>4, <2>5, <2>6, <3>1
  <2>10. ASSUME NEW d \in Connections, d # <<p, Trusted>>, d # <<Trusted, p>>
         PROVE  chan'[d] = chan[d]
    <3>1. CASE d[1] = p
      <4>1. d[2] \in Others(p) /\ d[2] # Trusted
        BY <2>10, <3>1, NodeFacts
      <4> QED BY <2>4, <2>5, <2>6, <2>7, <2>10, <3>1, <4>1
    <3>2. CASE d[1] # p
      BY <2>4, <2>6, <2>10, <3>2
    <3> QED BY <3>1, <3>2
  <2> QED BY <2>2, <2>3, <2>8, <2>9, <2>10
<1>6. Functions /\ Functions'
  BY <1>1, <1>5 DEF Holds, Functions
<1>7. Elsewhere(p)
  BY <1>1, <1>5, <1>6, NodeFacts DEF Elsewhere, Functions
<1>8. U2[p] = U[p] + 1
  BY DEF Holds, WitnessTypes
<1>9. PartyInv(k, c, U2, p)'
  <2> HIDE DEF k, c, U2
  <2>1. circuits'[p] = Append(circuits[p], Circuit(hk[p] + 1))
    BY <1>1, <1>2, <1>6 DEF Functions
  <2>2. /\ IsSeq(circuits'[p]) /\ Len(circuits'[p]) = hk[p] + 1
        /\ \A i \in 1 .. hk[p] + 1 : circuits'[p][i] = Circuit(i)
    <3>1. IsSeq(circuits[p]) /\ Len(circuits[p]) = hk[p] /\ \A i \in 1 .. hk[p] : circuits[p][i] = Circuit(i)
      BY <1>2 DEF Gathering
    <3>2. \A i \in 1 .. hk[p] + 1 : i \in 1 .. hk[p] \/ i = hk[p] + 1
      BY <1>2
    <3> QED BY <2>1, <3>1, <3>2, AppendFacts
  <2>3. \A d \in 2 .. 5 : More(c, p, d) = 0 /\ More(hc, p, d) = 1
    BY <1>2, <1>3 DEF More
  <2>4. U2[p] = 2 * k[p] /\ k[p] \in Nat /\ delta[p]
    <3>1. U2[p] = 2 * hk[p] + 1 + 1
      BY <1>2, <1>8, <2>3 DEF Gathering
    <3>2. Heard(hk, hc, p) > 0
      BY <1>2 DEF Heard
    <3>3. delta[p]
      BY <1>2, <3>2 DEF Gathering
    <3>4. U2[p] = 2 * k[p] /\ k[p] \in Nat
      BY <1>2, <1>3, <3>1
    <3> QED BY <3>3, <3>4
  <2>5. \A n \in Nat : n + 0 = n
    OBVIOUS
  <2>9. Gathering(k, c, U2, p)'
    BY <1>1, <1>2, <1>3, <2>2, <2>3, <2>4, <2>5 DEF Gathering
  <2> QED BY <1>2, <1>3, <2>9, NodeFacts, GatheredInv DEF Launched
<1>10. m = Up[U[p]] /\ Protocol(m)
  <2>1. U[p] = 2 * hk[p] + 1 /\ 2 * hk[p] + 1 # 2 * Chunks
    BY <1>2, NodeFacts DEF Gathering, More
  <2>2. Up[2 * hk[p] + 1] = UpOf(hk[p], 1)
    BY <1>2, <2>1, UpIs
  <2> QED BY <1>4, <2>1, <2>2 DEF UpOf, Type, Protocol
<1>11. listener'[<<p, Trusted>>] \notin {"stopping", "aborting"}
  BY <1>1 DEF FromTrusted, Incoming
<1> QED BY <1>1, <1>2, <1>5, <1>6, <1>7, <1>9, <1>10, <1>11, AnswerKeeps

(* Nobody evaluates before the launch.                                      *)
LEMMA LaunchSent ==
  ASSUME NEW L, NEW hk, NEW hc, NEW U, NEW V, Holds(L, hk, hc, U, V), NEW p \in Parties,
         Launched(hk, hc, p)
  PROVE  L
<1>1. Carries(chan[<<Trusted, p>>], Down, Heard(hk, hc, p), SentDown(L, p))
  BY DEF Holds, ChannelInv
<1>2. Heard(hk, hc, p) <= SentDown(L, p)
  BY <1>1, NetDomains, NodeFacts, CarriesOrder
<1>3. Heard(hk, hc, p) = 6 * Chunks + 1
  BY DEF Launched, Heard
<1>4. ~L => SentDown(L, p) <= 6 * Chunks /\ SentDown(L, p) \in Nat
  <2>1. SentDown(L, p) \in Nat
    BY SentNumbers
  <2>2. ~L => SentDown(L, p) <= 6 * Chunks
    BY NodeFacts DEF Holds, TrustedPart, TrustedInv, SentDown
  <2> QED BY <2>1, <2>2
<1> QED BY <1>2, <1>3, <1>4, NodeFacts

LEMMA EvaluateKeeps ==
  ASSUME NEW L, NEW hk, NEW hc, NEW U, NEW V, Holds(L, hk, hc, U, V), NEW p \in Parties,
         Evaluate(p)
  PROVE  IInv'
<1> DEFINE e == Len(evaluated[p])
           r == [circuit |-> Head(circuits[p]), inputs |-> Head(input_masks[p]),
                 outputs |-> Head(output_masks[p]), keys |-> Head(wires[p])]
<1>1. /\ listener[<<p, Trusted>>] = "evaluating" /\ e < Chunks
      /\ circuits[p] # <<>> /\ output_masks[p] # <<>> /\ input_masks[p] # <<>> /\ wires[p] # <<>>
      /\ evaluated' = [evaluated EXCEPT ![p] = Append(@, r)]
      /\ circuits' = [circuits EXCEPT ![p] = Tail(@)]
      /\ input_masks' = [input_masks EXCEPT ![p] = Tail(@)]
      /\ output_masks' = [output_masks EXCEPT ![p] = Tail(@)]
      /\ wires' = [wires EXCEPT ![p] = Tail(@)]
      /\ UNCHANGED <<conn, starter, ready_nodes, num_identified, clientsmap, chan, lost, listener, stopping,
                     sending, trustedVars, prfs, delta, spdz_wires>>
  BY DEF Evaluate, CanLoad, nodeVars, startup, net, ending
<1>2. PartyInv(hk, hc, U, p) /\ Functions
  BY DEF Holds
<1>3. Launched(hk, hc, p) /\ hk[p] = Chunks /\ hc[p] = 1
  BY <1>1, <1>2 DEF PartyInv, Launched
<1>4. \A d \in 2 .. 5 : More(hc, p, d) = 0
  BY <1>3 DEF More
<1>5. /\ IsSeq(evaluated[p]) /\ e \in 0 .. Chunks /\ Chunks \in Nat
      /\ Pieces(wires[p], e, Chunks) /\ Pieces(input_masks[p], e, Chunks)
      /\ Pieces(output_masks[p], e, Chunks)
      /\ IsSeq(circuits[p]) /\ Len(circuits[p]) = Chunks - e + 1
      /\ \A i \in 1 .. Chunks - e : circuits[p][i] = Circuit(e + i)
      /\ \A k \in 1 .. e : evaluated[p][k] =
           [circuit |-> Circuit(k), inputs |-> k, outputs |-> k, keys |-> k]
  <2>1. StoresInv(hk, hc, p) /\ Chunks + 0 = Chunks
    BY <1>2, NodeFacts DEF PartyInv
  <2> QED BY <1>3, <1>4, <2>1, NodeFacts DEF StoresInv
<1>6. /\ evaluated'[p] = Append(evaluated[p], r) /\ circuits'[p] = Tail(circuits[p])
      /\ input_masks'[p] = Tail(input_masks[p]) /\ output_masks'[p] = Tail(output_masks[p])
      /\ wires'[p] = Tail(wires[p])
  BY <1>1, <1>2, NodeFacts DEF Functions
<1>7. r = [circuit |-> Circuit(e + 1), inputs |-> e + 1, outputs |-> e + 1, keys |-> e + 1]
  <2>1. Head(wires[p]) = e + 1 /\ Head(input_masks[p]) = e + 1 /\ Head(output_masks[p]) = e + 1
    BY <1>1, <1>5, PiecesTail
  <2>2. Head(circuits[p]) = Circuit(e + 1)
    <3>1. 1 \in 1 .. Chunks - e
      BY <1>1, <1>5
    <3> QED BY <1>1, <1>5, <3>1, TailFacts
  <2> QED BY <2>1, <2>2
<1> HIDE DEF r
<1>8. /\ IsSeq(evaluated'[p]) /\ Len(evaluated'[p]) = e + 1 /\ e + 1 \in 0 .. Chunks /\ e + 1 > 0
      /\ \A k \in 1 .. e + 1 : evaluated'[p][k] =
           [circuit |-> Circuit(k), inputs |-> k, outputs |-> k, keys |-> k]
  <2>1. /\ IsSeq(evaluated'[p]) /\ Len(evaluated'[p]) = e + 1
        /\ \A k \in 1 .. e : evaluated'[p][k] = evaluated[p][k]
        /\ evaluated'[p][e + 1] = r
    BY <1>5, <1>6, AppendFacts
  <2>2. \A k \in 1 .. e + 1 : k \in 1 .. e \/ k = e + 1
    BY <1>5
  <2>3. e + 1 \in 0 .. Chunks /\ e + 1 > 0
    BY <1>1, <1>5
  <2>4. ASSUME NEW k \in 1 .. e + 1
        PROVE  evaluated'[p][k] = [circuit |-> Circuit(k), inputs |-> k, outputs |-> k, keys |-> k]
    <3>1. CASE k \in 1 .. e
      BY <1>5, <2>1, <3>1
    <3>2. CASE k = e + 1
      BY <1>7, <2>1, <3>2
    <3> QED BY <2>2, <3>1, <3>2
  <2> QED BY <2>1, <2>3, <2>4
<1>9. /\ IsSeq(circuits'[p]) /\ Len(circuits'[p]) = Chunks - (e + 1) + 1
      /\ \A i \in 1 .. Chunks - (e + 1) : circuits'[p][i] = Circuit((e + 1) + i)
  <2>1. /\ IsSeq(circuits'[p]) /\ Len(circuits'[p]) = Len(circuits[p]) - 1
        /\ \A i \in 1 .. Len(circuits[p]) - 1 : circuits'[p][i] = circuits[p][i + 1]
    <3>1. IsSeq(circuits[p]) /\ circuits[p] # <<>> /\ circuits'[p] = Tail(circuits[p])
      BY <1>1, <1>5, <1>6
    <3> QED BY <3>1, TailFacts
  <2>2. ASSUME NEW i \in 1 .. Chunks - (e + 1) PROVE circuits'[p][i] = Circuit((e + 1) + i)
    <3>1. i \in 1 .. Len(circuits[p]) - 1 /\ i + 1 \in 1 .. Chunks - e /\ e + (i + 1) = (e + 1) + i
      <4>1. e \in Nat /\ Chunks \in Nat /\ Len(circuits[p]) = Chunks - e + 1
        BY <1>5
      <4> HIDE DEF e
      <4> QED BY <4>1
    <3>2. circuits'[p][i] = circuits[p][i + 1]
      BY <2>1, <3>1
    <3>3. PICK j : j = i + 1
      OBVIOUS
    <3>4. circuits[p][j] = Circuit(e + j)
      BY <1>5, <3>1, <3>3
    <3> QED BY <3>1, <3>2, <3>3, <3>4
  <2> QED BY <1>5, <2>1, <2>2
<1>10. /\ Pieces(wires'[p], e + 1, Chunks) /\ Pieces(input_masks'[p], e + 1, Chunks)
       /\ Pieces(output_masks'[p], e + 1, Chunks)
  <2>1. /\ wires[p] # <<>> /\ input_masks[p] # <<>> /\ output_masks[p] # <<>>
        /\ Pieces(wires[p], e, Chunks) /\ Pieces(input_masks[p], e, Chunks)
        /\ Pieces(output_masks[p], e, Chunks) /\ e \in Nat /\ Chunks \in Nat
    BY <1>1, <1>5
  <2> HIDE DEF e
  <2>2. /\ Pieces(Tail(wires[p]), e + 1, Chunks) /\ Pieces(Tail(input_masks[p]), e + 1, Chunks)
        /\ Pieces(Tail(output_masks[p]), e + 1, Chunks)
    BY <2>1, PiecesTail
  <2> QED BY <1>6, <2>2
<1>11. StoresInv(hk, hc, p)'
  <2>1. Chunks + 0 = Chunks
    BY NodeFacts
  <2> HIDE DEF e
  <2>2. PICK n : n = e + 1
    OBVIOUS
  <2> QED BY <1>3, <1>4, <1>8, <1>9, <1>10, <2>1, <2>2 DEF StoresInv
<1>12. PartyInv(hk, hc, U, p)'
  <2>1. ~IsDone(p) /\ ~IsDone(p)'
    BY <1>1 DEF IsDone
  <2> QED BY <1>1, <1>2, <1>3, <1>11, <2>1 DEF PartyInv
<1>13. ChannelInv(L, hk, hc, U, V, p)'
  <2>1. SentDown(L, p)' = SentDown(L, p)
    BY <1>1 DEF SentDown, trustedVars, filling, answers
  <2>2. ChannelInv(L, hk, hc, U, V, p)
    BY DEF Holds
  <2> QED BY <1>1, <2>1, <2>2 DEF ChannelInv
<1>14. Functions'
  BY <1>1, <1>2 DEF Functions
<1>15. Elsewhere(p)
  BY <1>1, <1>2, NodeFacts DEF Elsewhere, Functions
<1>16. NoNoise(<<Trusted, p>>) /\ NoNoise(<<p, Trusted>>)
  BY <1>1, NetDomains, NodeFacts DEF NoNoise
<1>17. stopping' # {} => L
  BY <1>1, NetDomains DEF NetRest
<1>18. WitnessTypes(L, hk, hc, U, V)
  BY DEF Holds
<1>19. Holds(L, hk, hc, U, V)'
  BY <1>1, <1>12, <1>13, <1>14, <1>15, <1>16, <1>17, <1>18, PartyKeeps
<1> QED BY <1>19 DEF IInv

(* The end of a party: its message may come too late for its send thread.    *)
LEMMA DoneKeeps ==
  ASSUME NEW L, NEW hk, NEW hc, NEW U, NEW V, Holds(L, hk, hc, U, V), NEW p \in Parties,
         Done(p)
  PROVE  IInv'
<1> DEFINE ms == ToOne(p, Trusted, <<Type("DONE")>>)
           l == <<Type("DONE")>>
<1>1. /\ listener[<<p, Trusted>>] = "evaluating" /\ Len(evaluated[p]) = Chunks
      /\ Send(chan, p, ms)
      /\ stopping' = stopping \cup {p}
      /\ listener' = [listener EXCEPT ![<<p, Trusted>>] = "stopping"]
      /\ UNCHANGED <<conn, starter, ready_nodes, num_identified, clientsmap, sending, trustedVars, prfs, delta,
                     spdz_wires, circuits, input_masks, output_masks, evaluated, wires>>
  BY DEF Done, startup, partyVars
<1>2. PartyInv(hk, hc, U, p) /\ Functions /\ WitnessTypes(L, hk, hc, U, V)
      /\ ChannelInv(L, hk, hc, U, V, p)
  BY DEF Holds
<1>3. Launched(hk, hc, p) /\ hk[p] = Chunks /\ hc[p] = 1
  BY <1>1, <1>2 DEF PartyInv, Launched
<1>4. L
  BY <1>3, LaunchSent
<1>5. U[p] = 2 * Chunks
  <2>1. U[p] = 2 * hk[p] + 0
    BY <1>1, <1>2, <1>3 DEF PartyInv, IsDone, More
  <2> QED BY <1>3, <2>1, NodeFacts
<1>6. /\ chan' = [d \in Connections |-> IF d[1] = p /\ d \in sending THEN chan[d] \o ms[d[2]] ELSE chan[d]]
      /\ lost' = lost \cup UNION {{ms[j][k].type : k \in DOMAIN ms[j]} :
                                    j \in {n \in Others(p) : <<p, n>> \notin sending}}
  BY <1>1 DEF Send
<1>7. ms[Trusted] = l /\ \A j \in Others(p) : j # Trusted => ms[j] = <<>>
  BY NodeFacts DEF ToOne
<1>8. IsSeq(l) /\ Len(l) = 1 /\ l[1] = Type("DONE")
  BY SmallSeqs
<1>9. lost' \subseteq lost \cup {"DONE"}
  <2>1. ASSUME NEW j \in Others(p), NEW k \in DOMAIN ms[j] PROVE ms[j][k].type = "DONE"
    BY <1>7 DEF Type
  <2> HIDE DEF ms
  <2> QED BY <1>6, <2>1
<1> HIDE DEF ms, l
<1>10. \A d \in Connections : chan[d] \o <<>> = chan[d]
  BY NetDomains, EmptyFacts, ConcatFacts
<1>11. /\ DOMAIN chan' = Connections
       /\ chan'[<<p, Trusted>>] =
            IF <<p, Trusted>> \in sending THEN chan[<<p, Trusted>>] \o l ELSE chan[<<p, Trusted>>]
       /\ \A d \in Connections : d # <<p, Trusted>> => chan'[d] = chan[d]
  <2>1. <<p, Trusted>> \in Connections
    BY NodeFacts
  <2>2. ASSUME NEW d \in Connections, d # <<p, Trusted>> PROVE chan'[d] = chan[d]
    <3>1. CASE d[1] = p
      <4>1. d[2] \in Others(p) /\ d[2] # Trusted
        BY <2>2, <3>1, NodeFacts
      <4> QED BY <1>6, <1>7, <1>10, <4>1
    <3>2. CASE d[1] # p
      BY <1>6, <3>2
    <3> QED BY <3>1, <3>2
  <2> QED BY <1>6, <1>7, <2>1, <2>2
<1>12. PICK n \in {0, 1} : n = IF <<p, Trusted>> \in sending THEN 1 ELSE 0
  OBVIOUS
<1> DEFINE U2 == [U EXCEPT ![p] = @ + n]
<1>13. /\ U2 \in [Parties -> Nat] /\ U2[p] = U[p] + n /\ U[p] \in Nat
       /\ \A q \in Parties : q # p => U2[q] = U[q]
  BY <1>2, <1>12 DEF WitnessTypes
<1> HIDE DEF U2
<1>14. WitnessTypes(L, hk, hc, U2, V)
  BY <1>2, <1>13 DEF WitnessTypes
<1>15. Functions'
  BY <1>1, <1>2, <1>11 DEF Functions
<1>16. /\ listener'[<<p, Trusted>>] = "stopping"
       /\ \A d \in Connections : d # <<p, Trusted>> => listener'[d] = listener[d]
  BY <1>1, <1>2, NodeFacts DEF Functions
<1>17. Elsewhere(p)
  BY <1>1, <1>11, <1>16 DEF Elsewhere
<1>18. PartyInv(hk, hc, U2, p)'
  <2>1. StoresInv(hk, hc, p)'
    BY <1>1, <1>2 DEF PartyInv, StoresInv
  <2>2. IsDone(p)'
    BY <1>1, <1>16 DEF IsDone
  <2>3. U2[p] \in {2 * Chunks, 2 * Chunks + 1}
    BY <1>5, <1>12, <1>13, NodeFacts
  <2> QED BY <1>1, <1>2, <1>16, <2>1, <2>2, <2>3 DEF PartyInv
<1>19. IsSeq(chan[<<Trusted, p>>]) /\ IsSeq(chan[<<p, Trusted>>])
  BY NetDomains, NodeFacts
<1>20. Carries(chan'[<<p, Trusted>>], Up, V[p], U2[p])
  <2>1. Carries(chan[<<p, Trusted>>], Up, V[p], U[p])
    BY <1>2 DEF ChannelInv
  <2>2. CASE <<p, Trusted>> \in sending
    <3>1. \A i \in 1 .. Len(l) : Protocol(l[i]) /\ l[i] = Up[U[p] + i - 1]
      <4>1. U[p] + 1 - 1 = 2 * Chunks
        BY <1>5, NodeFacts
      <4> QED BY <1>8, <4>1, UpIs DEF Protocol, Type
    <3>2. Carries(chan[<<p, Trusted>>] \o l, Up, V[p], U[p] + Len(l))
      BY <1>8, <1>13, <1>19, <2>1, <3>1, CarriesMore
    <3> QED BY <1>8, <1>11, <1>12, <1>13, <2>2, <3>2
  <2>3. CASE <<p, Trusted>> \notin sending
    BY <1>11, <1>12, <1>13, <2>1, <2>3
  <2> QED BY <2>2, <2>3
<1>21. ChannelInv(L, hk, hc, U2, V, p)'
  <2>1. SentDown(L, p)' = SentDown(L, p)
    BY <1>1 DEF SentDown, trustedVars, filling, answers
  <2>2. chan'[<<Trusted, p>>] = chan[<<Trusted, p>>]
    BY <1>11, NodeFacts
  <2> QED BY <1>2, <1>20, <2>1, <2>2 DEF ChannelInv
<1>22. NoNoise(<<Trusted, p>>)
  BY <1>11, <1>19, NodeFacts DEF NoNoise
<1>23. NoNoise(<<p, Trusted>>)
  <2>1. \A u \in Noise : ~Inside(l, u)
    BY <1>8 DEF Inside, Noise, Type
  <2>2. IsSeq(chan[<<p, Trusted>>] \o l) /\ \A u : Inside(chan[<<p, Trusted>>] \o l, u) =>
                                              Inside(chan[<<p, Trusted>>], u) \/ Inside(l, u)
    BY <1>8, <1>19, InsideMore
  <2> QED BY <1>11, <1>19, <2>1, <2>2 DEF NoNoise
<1>24. Holds(L, hk, hc, U2, V)'
  BY <1>1, <1>4, <1>9, <1>13, <1>14, <1>15, <1>17, <1>18, <1>21, <1>22, <1>23, PartyKeeps
<1> QED BY <1>24 DEF IInv

LEMMA PartyStepKeeps ==
  ASSUME NEW L, NEW hk, NEW hc, NEW U, NEW V, Holds(L, hk, hc, U, V), NEW p \in Parties,
         PartyStep(p)
  PROVE  IInv'
BY PartyReadyKeeps, HearDeltaKeeps, HearKeysKeeps, HearMasksKeeps, HearSpdzWiresKeeps,
   HearCircuitKeeps, HearLaunchKeeps, EvaluateKeeps, DoneKeeps DEF PartyStep

-----------------------------------------------------------------------------
(* The trusted party.  A step of its listener for party j changes nothing of *)
(* the parties.                                                             *)
Aside(j) ==
  /\ UNCHANGED <<conn, starter, ready_nodes, num_identified, clientsmap, sending, partyVars>>
  /\ \A p \in Parties : wires'[p] = wires[p]
  /\ \A c \in Connections : c # <<Trusted, j>> => listener'[c] = listener[c]

LEMMA TrustedKeeps ==
  ASSUME NEW L, NEW hk, NEW hc, NEW U, NEW V, Holds(L, hk, hc, U, V), NEW j \in Parties,
         NEW L2, NEW V2, WitnessTypes(L2, hk, hc, U, V2),
         Aside(j), Functions', TrustedPart(L2, V2)',
         \A p \in Parties : ChannelInv(L2, hk, hc, U, V2, p)',
         \A c \in Connections : NoNoise(c),
         lost' = lost, stopping \subseteq stopping', stopping' # {} => L2,
         listener'[<<Trusted, j>>] \in {"stopping", "aborting"} => Trusted \in stopping',
         prepared' > 0 => conn[Trusted] = "done"
  PROVE  IInv'
<1>1. WitnessTypes(L2, hk, hc, U, V2)'
  BY DEF WitnessTypes
<1>2. ASSUME NEW p \in Parties PROVE PartyInv(hk, hc, U, p)'
  <2>1. PartyInv(hk, hc, U, p)
    BY DEF Holds
  <2>2. listener'[<<p, Trusted>>] = listener[<<p, Trusted>>]
    BY NodeFacts DEF Aside
  <2> QED BY <2>1, <2>2, PartySame DEF Aside, partyVars
<1>3. NetChannels'
  BY NetDomains, NetChannelsSame DEF Aside, NoNoise
<1>4. NetRest(L2)'
  <2>1. \A c \in Connections : listener'[c] \in {"stopping", "aborting"} => c[1] \in stopping'
    <3>1. ASSUME NEW c \in Connections, c # <<Trusted, j>>, listener'[c] \in {"stopping", "aborting"}
          PROVE  c[1] \in stopping'
      BY <3>1, NetDomains DEF Aside, NetRest
    <3> QED BY <3>1
  <2>2. \A c \in Connections : c \notin sending' => c[1] \in stopping'
    BY NetDomains DEF Aside, NetRest
  <2> QED BY <2>1, <2>2, NetDomains DEF Aside, NetRest
<1>5. NothingNeededLost'
  BY NetDomains DEF NothingNeededLost
<1>6. Holds(L2, hk, hc, U, V2)'
  BY <1>1, <1>2, <1>3, <1>4, <1>5 DEF Holds, NetPart
<1> QED BY <1>6 DEF IInv

(* Nothing changes but that the code has no defined behaviour any more.      *)
LEMMA UndefinedKeeps ==
  ASSUME NEW L, NEW hk, NEW hc, NEW U, NEW V, Holds(L, hk, hc, U, V),
         UNCHANGED <<nodeVars, trustedVars, partyVars, wires>>
  PROVE  IInv'
<1>1. /\ UNCHANGED <<conn, starter, ready_nodes, num_identified, clientsmap, chan, lost, listener,
                     stopping, sending>>
      /\ prepared' = prepared
  BY DEF nodeVars, startup, net, ending, trustedVars, filling
<1>2. Quiet(Trusted, "none")
  BY <1>1, NetDomains DEF Quiet
<1>3. NetChannels'
  BY <1>1, NetDomains, NodeFacts DEF NetChannels, Inside
<1>4. NetRest(L)'
  BY <1>1, NetDomains DEF NetRest
<1>5. NothingNeededLost'
  BY <1>1, NetDomains DEF NothingNeededLost
<1>6. Holds(L, hk, hc, U, V)'
  BY <1>1, <1>2, <1>3, <1>4, <1>5, NetDomains, NetKeeps DEF NetPart
<1> QED BY <1>6 DEF IInv

(* The two directions of a channel: l continues the messages on the way down *)
(* and is queued for p.                                                     *)
Continues(l, s) == IsSeq(l) /\ \A i \in 1 .. Len(l) : Protocol(l[i]) /\ l[i] = Down[s + i - 1]
Queues(p, l) == chan'[<<Trusted, p>>] = chan[<<Trusted, p>>] \o l

LEMMA DownMore ==
  ASSUME NEW L, NEW hk, NEW hc, NEW U, NEW V, Holds(L, hk, hc, U, V), NEW p \in Parties,
         NEW l, NEW s, Queues(p, l), Continues(l, s), s = SentDown(L, p)
  PROVE  /\ Carries(chan'[<<Trusted, p>>], Down, Heard(hk, hc, p), s + Len(l))
         /\ NoNoise(<<Trusted, p>>)
<1>1. /\ Carries(chan[<<Trusted, p>>], Down, Heard(hk, hc, p), s) /\ s \in Nat
      /\ IsSeq(chan[<<Trusted, p>>])
  BY NetDomains, NodeFacts, SentNumbers DEF Holds, ChannelInv
<1>2. Carries(chan[<<Trusted, p>>] \o l, Down, Heard(hk, hc, p), s + Len(l))
  BY <1>1, CarriesMore DEF Continues
<1>3. \A u \in Noise : ~Inside(l, u)
  BY DEF Inside, Noise, Protocol, Continues
<1>4. IsSeq(chan[<<Trusted, p>>] \o l) /\ \A u : Inside(chan[<<Trusted, p>>] \o l, u) =>
                                            Inside(chan[<<Trusted, p>>], u) \/ Inside(l, u)
  BY <1>1, InsideMore DEF Continues
<1> QED BY <1>2, <1>3, <1>4 DEF NoNoise, Queues

LEMMA ChannelSame ==
  ASSUME NEW L, NEW hk, NEW hc, NEW U, NEW V, Holds(L, hk, hc, U, V), NEW p \in Parties
  PROVE  /\ chan'[<<Trusted, p>>] = chan[<<Trusted, p>>] =>
              /\ Carries(chan'[<<Trusted, p>>], Down, Heard(hk, hc, p), SentDown(L, p))
              /\ NoNoise(<<Trusted, p>>)
         /\ chan'[<<p, Trusted>>] = chan[<<p, Trusted>>] =>
              Carries(chan'[<<p, Trusted>>], Up, V[p], U[p]) /\ NoNoise(<<p, Trusted>>)
<1>1. /\ Carries(chan[<<Trusted, p>>], Down, Heard(hk, hc, p), SentDown(L, p))
      /\ Carries(chan[<<p, Trusted>>], Up, V[p], U[p])
      /\ IsSeq(chan[<<Trusted, p>>]) /\ IsSeq(chan[<<p, Trusted>>])
  BY NetDomains, NodeFacts DEF Holds, ChannelInv
<1> QED BY <1>1 DEF NoNoise

LEMMA OtherChannels ==
  ASSUME NEW L, NEW hk, NEW hc, NEW U, NEW V, Holds(L, hk, hc, U, V),
         \A c \in Connections : c[1] # Trusted /\ c[2] # Trusted => chan'[c] = chan[c],
         \A p \in Parties : NoNoise(<<Trusted, p>>) /\ NoNoise(<<p, Trusted>>)
  PROVE  \A c \in Connections : NoNoise(c)
<1>1. ASSUME NEW c \in Connections PROVE NoNoise(c)
  <2>0. c = <<c[1], c[2]>> /\ c[1] \in Nodes /\ c[2] \in Others(c[1]) /\ c[2] \in Nodes
    BY NodeFacts
  <2>1. CASE c[1] = Trusted
    <3>1. c[2] \in Parties
      BY <2>0, <2>1, NodeFacts
    <3>2. NoNoise(<<Trusted, c[2]>>)
      BY <3>1
    <3>3. c = <<Trusted, c[2]>>
      BY <2>0, <2>1
    <3> QED BY <3>2, <3>3 DEF NoNoise
  <2>2. CASE c[1] # Trusted /\ c[2] = Trusted
    <3>1. c[1] \in Parties
      BY <2>0, <2>2, NodeFacts
    <3>2. NoNoise(<<c[1], Trusted>>)
      BY <3>1
    <3>3. c = <<c[1], Trusted>>
      BY <2>0, <2>2
    <3> QED BY <3>2, <3>3 DEF NoNoise
  <2>3. CASE c[1] # Trusted /\ c[2] # Trusted
    BY <2>3, NetDomains DEF NoNoise
  <2> QED BY <2>1, <2>2, <2>3
<1> QED BY <1>1

LEMMA NodeReadyKeeps ==
  ASSUME NEW L, NEW hk, NEW hc, NEW U, NEW V, Holds(L, hk, hc, U, V), NEW j \in Parties,
         NodeReady(j)
  PROVE  IInv'
<1>1. CASE UNCHANGED <<nodeVars, trustedVars, partyVars, wires>>
  BY <1>1, UndefinedKeeps
<1>2. ASSUME ~(UNCHANGED <<nodeVars, trustedVars, partyVars, wires>>) PROVE IInv'
  <2> DEFINE l == <<Type("DELTA")>>
  <2>1. /\ listener[<<Trusted, j>>] = "comparing" /\ num_identified[Trusted] = N /\ ~(prepared > 0)
        /\ prepared' = 1 /\ wires' = [wires EXCEPT ![Trusted] = Append(@, 1)]
        /\ Send(chan, Trusted, Deltas)
        /\ listener' = [listener EXCEPT ![<<Trusted, j>>] = "sending"]
        /\ UNCHANGED <<conn, starter, ready_nodes, num_identified, clientsmap, stopping, sending, sentTo, slots,
                       prf_outputs, num_prf_received, garbled, received_gc_received, partyVars>>
    BY <1>2 DEF NodeReady, AllIdentified, startup, ending, answers
  <2>2. /\ Answers(L, V) /\ Counts(L, V) /\ TrustedInv(L, V) /\ Functions
        /\ WitnessTypes(L, hk, hc, U, V)
    BY DEF Holds, TrustedPart
  <2>3. prepared = 0 /\ garbled = 0 /\ ~L /\ ~slots /\ sentTo = 0 /\ wires[Trusted] = <<>>
        /\ (\A p \in Parties : V[p] = 0) /\ num_prf_received = 0 /\ received_gc_received = 0
        /\ (\A p \in Parties : listener[<<Trusted, p>>] # "sending")
    <3>1. prepared = 0 /\ garbled = 0
      BY <2>1, <2>2, NodeFacts DEF TrustedInv
    <3>2. ~L
      BY <2>2, <3>1, NodeFacts DEF Answers
    <3> QED BY <2>2, <3>1, <3>2 DEF TrustedInv, Counts, Answers
  <2>4. \A d \in Connections : d \in sending
    BY <2>3, NetDomains, AllSending
  <2>5. /\ DOMAIN chan' = Connections /\ lost' = lost
        /\ \A p \in Parties : /\ chan'[<<Trusted, p>>] = chan[<<Trusted, p>>] \o l
                              /\ chan'[<<p, Trusted>>] = chan[<<p, Trusted>>]
        /\ \A d \in Connections : d[1] # Trusted => chan'[d] = chan[d]
    <3>1. {i \in Others(Trusted) : <<Trusted, i>> \notin sending} = {}
      BY <2>4, NodeFacts
    <3>2. /\ chan' = [d \in Connections |-> IF d[1] = Trusted /\ d \in sending
                                            THEN chan[d] \o Deltas[d[2]] ELSE chan[d]]
          /\ {i \in Others(Trusted) : <<Trusted, i>> \notin sending} = {} => lost' = lost
      BY <2>1 DEF Send
    <3>3. \A p \in Parties : Deltas[p] = l
      BY DEF Deltas
    <3> HIDE DEF l
    <3> QED BY <2>4, <3>1, <3>2, <3>3, NodeFacts
  <2>6. IsSeq(l) /\ Len(l) = 1 /\ l[1] = Type("DELTA")
    BY SmallSeqs
  <2> HIDE DEF l
  <2>7. Down[0] = Type("DELTA")
    <3>1. 6 * 0 + 0 # 6 * Chunks /\ 6 * 0 + 0 = 0
      BY NodeFacts
    <3>2. Down[6 * 0 + 0] = DownOf(0, 0)
      BY <3>1, DownIs
    <3> QED BY <3>1, <3>2 DEF DownOf
  <2>8. Functions'
    BY <2>1, <2>2, <2>5 DEF Functions, partyVars
  <2>9. ASSUME NEW p \in Parties
        PROVE  ChannelInv(L, hk, hc, U, V, p)' /\ NoNoise(<<Trusted, p>>) /\ NoNoise(<<p, Trusted>>)
    <3>1. SentDown(L, p) = 0
      BY <2>3 DEF SentDown
    <3>2. SentDown(L, p)' = 1
      <4>1. ~(p <= 0)
        <5>1. p \in Nat /\ p >= 1
          BY NodeFacts
        <5> QED BY <5>1
      <4>2. prepared' = 1 /\ garbled' = 0 /\ ~slots' /\ sentTo' = 0 /\ ~L
        BY <2>1, <2>3
      <4> QED BY <4>1, <4>2 DEF SentDown
    <3>0. PICK s : s = SentDown(L, p)
      OBVIOUS
    <3>3. Continues(l, s) /\ Queues(p, l)
      <4>1. s + 1 - 1 = 0 /\ \A i \in 1 .. 1 : i = 1
        BY <3>0, <3>1
      <4>2. Protocol(l[1]) /\ l[1] = Down[0]
        BY <2>6, <2>7 DEF Protocol, Type
      <4>3. Queues(p, l)
        BY <2>5 DEF Queues
      <4>4. Continues(l, s)
        BY <2>6, <4>1, <4>2 DEF Continues
      <4> QED BY <4>3, <4>4
    <3>4. Carries(chan'[<<Trusted, p>>], Down, Heard(hk, hc, p), s + Len(l)) /\ NoNoise(<<Trusted, p>>)
      BY <3>0, <3>3, DownMore
    <3>5. Carries(chan'[<<p, Trusted>>], Up, V[p], U[p]) /\ NoNoise(<<p, Trusted>>)
      BY <2>5, ChannelSame
    <3> QED BY <2>6, <3>0, <3>1, <3>2, <3>4, <3>5 DEF ChannelInv
  <2>10. TrustedPart(L, V)'
    <3>1. Answers(L, V)'
      BY <2>1, <2>2, <2>3 DEF Answers
    <3>2. Counts(L, V)'
      <4>1. SentPrf(V)' = {}
        BY <2>1, <2>3 DEF SentPrf
      <4> QED BY <2>1, <2>2, <2>3, <4>1, FS_EmptySet DEF Counts
    <3>3. TrustedInv(L, V)'
      <4>1. wires'[Trusted] = <<1>>
        BY <2>1, <2>2, <2>3, NodeFacts DEF Functions
      <4>2. \A p \in Parties : listener'[<<Trusted, p>>] = IF p = j THEN "sending" ELSE listener[<<Trusted, p>>]
        BY <2>1, <2>2, NodeFacts DEF Functions
      <4> QED BY <2>1, <2>2, <2>3, <4>1, <4>2, NodeFacts DEF TrustedInv
    <3> QED BY <3>1, <3>2, <3>3 DEF TrustedPart
  <2>11. Aside(j)
    BY <2>1, <2>2, NodeFacts DEF Aside, Functions
  <2>12. \A c \in Connections : NoNoise(c)
    BY <2>5, <2>9, OtherChannels
  <2>13. conn[Trusted] = "done"
    BY <2>1, NetDomains, NodeFacts DEF NetRest
  <2>14. listener'[<<Trusted, j>>] = "sending"
    BY <2>1, <2>2, NodeFacts DEF Functions
  <2>15. stopping' # {} => L
    BY <2>1, NetDomains DEF NetRest
  <2> QED BY <2>1, <2>2, <2>5, <2>8, <2>9, <2>10, <2>11, <2>12, <2>13, <2>14, <2>15, TrustedKeeps
<1> QED BY <1>1, <1>2

LEMMA ContinuesBy ==
  ASSUME NEW s \in Nat
  PROVE  /\ \A a : Protocol(a) /\ a = Down[s] => Continues(<<a>>, s) /\ Len(<<a>>) = 1
         /\ \A a, b : Protocol(a) /\ a = Down[s] /\ Protocol(b) /\ b = Down[s + 1] =>
              Continues(<<a, b>>, s) /\ Len(<<a, b>>) = 2
         /\ \A a, b, c, d :
              Protocol(a) /\ a = Down[s] /\ Protocol(b) /\ b = Down[s + 1] /\
              Protocol(c) /\ c = Down[s + 2] /\ Protocol(d) /\ d = Down[s + 3] =>
                Continues(<<a, b, c, d>>, s) /\ Len(<<a, b, c, d>>) = 4
<1>1. s + 1 - 1 = s /\ s + 2 - 1 = s + 1 /\ s + 3 - 1 = s + 2 /\ s + 4 - 1 = s + 3
  OBVIOUS
<1>2. ASSUME NEW a, Protocol(a), a = Down[s] PROVE Continues(<<a>>, s) /\ Len(<<a>>) = 1
  <2> DEFINE l == <<a>>
  <2>1. IsSeq(l) /\ Len(l) = 1 /\ l[1] = a
    BY SmallSeqs
  <2> HIDE DEF l
  <2>2. \A i \in 1 .. 1 : i = 1
    OBVIOUS
  <2>3. Continues(l, s) /\ Len(l) = 1
    BY <1>1, <1>2, <2>1, <2>2 DEF Continues
  <2> QED BY <2>3 DEF l
<1>3. ASSUME NEW a, NEW b, Protocol(a), a = Down[s], Protocol(b), b = Down[s + 1]
      PROVE  Continues(<<a, b>>, s) /\ Len(<<a, b>>) = 2
  <2> DEFINE l == <<a, b>>
  <2>1. IsSeq(l) /\ Len(l) = 2 /\ l[1] = a /\ l[2] = b
    BY SmallSeqs
  <2> HIDE DEF l
  <2>2. \A i \in 1 .. 2 : i = 1 \/ i = 2
    OBVIOUS
  <2>3. Continues(l, s) /\ Len(l) = 2
    BY <1>1, <1>3, <2>1, <2>2 DEF Continues
  <2> QED BY <2>3 DEF l
<1>4. ASSUME NEW a, NEW b, NEW c, NEW d, Protocol(a), a = Down[s], Protocol(b), b = Down[s + 1],
             Protocol(c), c = Down[s + 2], Protocol(d), d = Down[s + 3]
      PROVE  Continues(<<a, b, c, d>>, s) /\ Len(<<a, b, c, d>>) = 4
  <2> DEFINE l == <<a, b, c, d>>
  <2>1. IsSeq(l) /\ Len(l) = 4 /\ l[1] = a /\ l[2] = b /\ l[3] = c /\ l[4] = d
    BY SmallSeqs
  <2> HIDE DEF l
  <2>2. \A i \in 1 .. 4 : i = 1 \/ i = 2 \/ i = 3 \/ i = 4
    OBVIOUS
  <2>3. Continues(l, s) /\ Len(l) = 4
    BY <1>1, <1>4, <2>1, <2>2 DEF Continues
  <2> QED BY <2>3 DEF l
<1> QED BY <1>2, <1>3, <1>4

(* While the first NodeReady sends.                                         *)
LEMMA Filling ==
  ASSUME NEW L, NEW hk, NEW hc, NEW U, NEW V, Holds(L, hk, hc, U, V), NEW j \in Parties,
         listener[<<Trusted, j>>] = "sending"
  PROVE  /\ prepared = 1 /\ garbled = 0 /\ ~L /\ ~slots /\ sentTo \in 0 .. N
         /\ \A p \in Parties : V[p] = 0
         /\ \A p \in Parties : p # j => listener[<<Trusted, p>>] # "sending"
         /\ \A d \in Connections : d \in sending
         /\ conn[Trusted] = "done" /\ stopping = {}
<1>1. TrustedInv(L, V)
  BY DEF Holds, TrustedPart
<1>2. /\ prepared = 1 /\ garbled = 0 /\ ~L /\ ~slots /\ sentTo \in 0 .. N
      /\ \A p \in Parties : V[p] = 0
      /\ \A p \in Parties : p # j => listener[<<Trusted, p>>] # "sending"
  BY <1>1 DEF TrustedInv
<1>3. stopping = {} /\ \A d \in Connections : d \in sending
  BY <1>2, NetDomains, AllSending
<1>4. conn[Trusted] = "done"
  BY <1>2, NetDomains DEF NetRest
<1> QED BY <1>2, <1>3, <1>4

LEMMA SendRandomnessKeeps ==
  ASSUME NEW L, NEW hk, NEW hc, NEW U, NEW V, Holds(L, hk, hc, U, V), NEW j \in Parties,
         SendRandomness(j)
  PROVE  IInv'
<1> DEFINE l == Randomness(1)
           ms == ToOne(Trusted, sentTo + 1, l)
<1>1. /\ listener[<<Trusted, j>>] = "sending" /\ sentTo < N /\ sentTo' = sentTo + 1
      /\ Send(chan, Trusted, ms)
      /\ UNCHANGED <<conn, starter, ready_nodes, num_identified, clientsmap, listener, stopping, sending,
                     prepared, slots, prf_outputs, num_prf_received, garbled,
                     received_gc_received, partyVars, wires>>
  BY DEF SendRandomness, startup, ending, answers
<1>2. /\ TrustedPart(L, V) /\ Functions /\ WitnessTypes(L, hk, hc, U, V)
  BY DEF Holds
<1>3. /\ prepared = 1 /\ garbled = 0 /\ ~L /\ ~slots /\ sentTo \in 0 .. N
      /\ \A d \in Connections : d \in sending
      /\ conn[Trusted] = "done" /\ stopping = {}
  BY <1>1, Filling
<1>4. IsSeq(<<>>) /\ \A d \in Connections : chan[d] \o <<>> = chan[d]
  BY NetDomains, EmptyFacts, ConcatFacts
<1>5. /\ DOMAIN chan' = Connections /\ lost' = lost
      /\ \A p \in Parties : /\ p = sentTo + 1 => Queues(p, l)
                            /\ p # sentTo + 1 => chan'[<<Trusted, p>>] = chan[<<Trusted, p>>]
                            /\ chan'[<<p, Trusted>>] = chan[<<p, Trusted>>]
      /\ \A d \in Connections : d[1] # Trusted => chan'[d] = chan[d]
  <2>1. {i \in Others(Trusted) : <<Trusted, i>> \notin sending} = {}
    BY <1>3, NodeFacts
  <2>2. /\ chan' = [d \in Connections |-> IF d[1] = Trusted /\ d \in sending
                                          THEN chan[d] \o ms[d[2]] ELSE chan[d]]
        /\ {i \in Others(Trusted) : <<Trusted, i>> \notin sending} = {} => lost' = lost
    BY <1>1 DEF Send
  <2>3. \A p \in Parties : ms[p] = IF p = sentTo + 1 THEN l ELSE <<>>
    BY NodeFacts DEF ToOne
  <2> HIDE DEF l, ms
  <2>4. \A p \in Parties : /\ chan'[<<Trusted, p>>] = chan[<<Trusted, p>>] \o ms[p]
                           /\ chan'[<<p, Trusted>>] = chan[<<p, Trusted>>]
    BY <1>3, <2>2, NodeFacts
  <2>5. \A p \in Parties : /\ p = sentTo + 1 => Queues(p, l)
                           /\ p # sentTo + 1 => chan'[<<Trusted, p>>] = chan[<<Trusted, p>>]
    BY <1>4, <2>3, <2>4, NodeFacts DEF Queues
  <2> QED BY <2>1, <2>2, <2>4, <2>5
<1>6. Continues(l, 1) /\ Len(l) = 2
  <2>1. Down[1] = Msg("KEYS", 1) /\ Down[1 + 1] = Msg("MASK_INPUTS", 1)
    <3>1. 6 * 0 + 1 = 1 /\ 6 * 0 + 2 = 1 + 1 /\ 6 * 0 + 1 # 6 * Chunks /\ 6 * 0 + 2 # 6 * Chunks
          /\ 0 + 1 = 1
      BY NodeFacts
    <3>2. Down[6 * 0 + 1] = DownOf(0, 1) /\ Down[6 * 0 + 2] = DownOf(0, 2)
      BY <3>1, DownIs
    <3> QED BY <3>1, <3>2 DEF DownOf
  <2>2. Protocol(Msg("KEYS", 1)) /\ Protocol(Msg("MASK_INPUTS", 1))
    BY DEF Protocol, Msg
  <2> QED BY <2>1, <2>2, ContinuesBy DEF Randomness
<1> HIDE DEF l, ms
<1>7. Functions'
  BY <1>1, <1>2, <1>5 DEF Functions, partyVars
<1>8. ASSUME NEW p \in Parties
      PROVE  ChannelInv(L, hk, hc, U, V, p)' /\ NoNoise(<<Trusted, p>>) /\ NoNoise(<<p, Trusted>>)
  <2>0. p \in Nat /\ sentTo \in Nat
    <3>1. p \in Nat /\ N \in Nat
      BY NodeFacts
    <3> QED BY <1>3, <3>1
  <2>1. SentDown(L, p) = IF p <= sentTo THEN 3 ELSE 1
    BY <1>3 DEF SentDown
  <2>2. SentDown(L, p)' = IF p <= sentTo + 1 THEN 3 ELSE 1
    BY <1>1, <1>3 DEF SentDown
  <2>3. Carries(chan'[<<p, Trusted>>], Up, V[p], U[p]) /\ NoNoise(<<p, Trusted>>)
    BY <1>5, ChannelSame
  <2>4. CASE p = sentTo + 1
    <3>1. SentDown(L, p) = 1 /\ SentDown(L, p)' = 3
      BY <2>0, <2>1, <2>2, <2>4
    <3>2. Carries(chan'[<<Trusted, p>>], Down, Heard(hk, hc, p), 1 + Len(l)) /\ NoNoise(<<Trusted, p>>)
      BY <1>5, <1>6, <2>4, <3>1, DownMore
    <3> QED BY <1>6, <2>3, <3>1, <3>2 DEF ChannelInv
  <2>5. CASE p # sentTo + 1
    <3>1. SentDown(L, p) = SentDown(L, p)'
      BY <2>0, <2>1, <2>2, <2>5
    <3>2. Carries(chan'[<<Trusted, p>>], Down, Heard(hk, hc, p), SentDown(L, p)) /\ NoNoise(<<Trusted, p>>)
      BY <1>5, <2>5, ChannelSame
    <3> QED BY <2>3, <3>1, <3>2 DEF ChannelInv
  <2> QED BY <2>4, <2>5
<1>9. TrustedPart(L, V)'
  <2>1. Answers(L, V)'
    BY <1>1, <1>2 DEF TrustedPart, Answers
  <2>2. Counts(L, V)'
    BY <1>1, <1>2 DEF TrustedPart, Counts, SentPrf, HasCircuit
  <2>3. TrustedInv(L, V)'
    <3>1. sentTo' \in 0 .. N /\ prepared' # 0
      BY <1>1, <1>3, NodeFacts
    <3> QED BY <1>1, <1>2, <3>1 DEF TrustedPart, TrustedInv
  <2> QED BY <2>1, <2>2, <2>3 DEF TrustedPart
<1>10. Aside(j)
  BY <1>1 DEF Aside
<1>11. \A c \in Connections : NoNoise(c)
  BY <1>5, <1>8, OtherChannels
<1> QED BY <1>1, <1>2, <1>3, <1>5, <1>7, <1>8, <1>9, <1>10, <1>11, TrustedKeeps

LEMMA SendOutputMasksKeeps ==
  ASSUME NEW L, NEW hk, NEW hc, NEW U, NEW V, Holds(L, hk, hc, U, V), NEW j \in Parties,
         SendOutputMasks(j)
  PROVE  IInv'
<1> DEFINE l == <<Msg("MASK_OUTPUT", 1)>>
           ms == ToAll(Trusted, Msg("MASK_OUTPUT", 1))
<1>1. /\ listener[<<Trusted, j>>] = "sending" /\ sentTo = N /\ slots' = TRUE
      /\ Send(chan, Trusted, ms)
      /\ listener' = [listener EXCEPT ![<<Trusted, j>>] = "receiving"]
      /\ UNCHANGED <<conn, starter, ready_nodes, num_identified, clientsmap, stopping, sending,
                     prepared, sentTo, prf_outputs, num_prf_received, garbled,
                     received_gc_received, partyVars, wires>>
  BY DEF SendOutputMasks, startup, ending, answers
<1>2. /\ TrustedPart(L, V) /\ Functions /\ WitnessTypes(L, hk, hc, U, V)
  BY DEF Holds
<1>3. /\ prepared = 1 /\ garbled = 0 /\ ~L /\ ~slots
      /\ \A p \in Parties : p # j => listener[<<Trusted, p>>] # "sending"
      /\ \A d \in Connections : d \in sending
      /\ conn[Trusted] = "done" /\ stopping = {}
  BY <1>1, Filling
<1>4. \A p \in Parties : listener'[<<Trusted, p>>] # "sending"
  BY <1>1, <1>2, <1>3, NodeFacts DEF Functions
<1>5. /\ DOMAIN chan' = Connections /\ lost' = lost
      /\ \A p \in Parties : /\ Queues(p, l)
                            /\ chan'[<<p, Trusted>>] = chan[<<p, Trusted>>]
      /\ \A d \in Connections : d[1] # Trusted => chan'[d] = chan[d]
  <2>1. {i \in Others(Trusted) : <<Trusted, i>> \notin sending} = {}
    BY <1>3, NodeFacts
  <2>2. /\ chan' = [d \in Connections |-> IF d[1] = Trusted /\ d \in sending
                                          THEN chan[d] \o ms[d[2]] ELSE chan[d]]
        /\ {i \in Others(Trusted) : <<Trusted, i>> \notin sending} = {} => lost' = lost
    BY <1>1 DEF Send
  <2>3. \A p \in Parties : ms[p] = l
    BY NodeFacts DEF ToAll
  <2> HIDE DEF l, ms
  <2>4. \A p \in Parties : /\ chan'[<<Trusted, p>>] = chan[<<Trusted, p>>] \o ms[p]
                           /\ chan'[<<p, Trusted>>] = chan[<<p, Trusted>>]
    BY <1>3, <2>2, NodeFacts
  <2> QED BY <2>1, <2>2, <2>3, <2>4 DEF Queues
<1>6. Continues(l, 3) /\ Len(l) = 1
  <2>1. Down[3] = Msg("MASK_OUTPUT", 1)
    <3>1. 6 * 0 + 3 = 3 /\ 6 * 0 + 3 # 6 * Chunks /\ 0 + 1 = 1
      BY NodeFacts
    <3>2. Down[6 * 0 + 3] = DownOf(0, 3)
      BY <3>1, DownIs
    <3> QED BY <3>1, <3>2 DEF DownOf
  <2>2. Protocol(Msg("MASK_OUTPUT", 1))
    BY DEF Protocol, Msg
  <2> QED BY <2>1, <2>2, ContinuesBy
<1> HIDE DEF l, ms
<1>7. Functions'
  BY <1>1, <1>2, <1>5 DEF Functions, partyVars
<1>8. ASSUME NEW p \in Parties
      PROVE  ChannelInv(L, hk, hc, U, V, p)' /\ NoNoise(<<Trusted, p>>) /\ NoNoise(<<p, Trusted>>)
  <2>1. SentDown(L, p) = 3
    BY <1>1, <1>3, NodeFacts DEF SentDown
  <2>2. SentDown(L, p)' = 4
    BY <1>1, <1>3 DEF SentDown
  <2>3. Carries(chan'[<<p, Trusted>>], Up, V[p], U[p]) /\ NoNoise(<<p, Trusted>>)
    BY <1>5, ChannelSame
  <2>4. Carries(chan'[<<Trusted, p>>], Down, Heard(hk, hc, p), 3 + Len(l)) /\ NoNoise(<<Trusted, p>>)
    BY <1>5, <1>6, <2>1, DownMore
  <2> QED BY <1>6, <2>2, <2>3, <2>4 DEF ChannelInv
<1>9. TrustedPart(L, V)'
  <2>1. Answers(L, V)'
    BY <1>1, <1>2 DEF TrustedPart, Answers
  <2>2. Counts(L, V)'
    BY <1>1, <1>2 DEF TrustedPart, Counts, SentPrf, HasCircuit
  <2>3. TrustedInv(L, V)'
    BY <1>1, <1>2, <1>3, <1>4 DEF TrustedPart, TrustedInv
  <2> QED BY <2>1, <2>2, <2>3 DEF TrustedPart
<1>10. Aside(j)
  BY <1>1, <1>2, NodeFacts DEF Aside, Functions
<1>11. \A c \in Connections : NoNoise(c)
  BY <1>5, <1>8, OtherChannels
<1>12. listener'[<<Trusted, j>>] = "receiving"
  BY <1>1, <1>2, NodeFacts DEF Functions
<1> QED BY <1>1, <1>2, <1>3, <1>5, <1>7, <1>8, <1>9, <1>10, <1>11, <1>12, TrustedKeeps

(* How far a party can have come with what it has been sent.                *)
LEMMA SentUp ==
  ASSUME NEW L, NEW hk, NEW hc, NEW U, NEW V, Holds(L, hk, hc, U, V), NEW p \in Parties
  PROVE  /\ U[p] \in Nat /\ U[p] <= 2 * Chunks + 1
         /\ U[p] = 2 * Chunks + 1 => L
         /\ \A g \in Nat : g < Chunks /\ U[p] > 2 * g => SentDown(L, p) >= 6 * g + 2
         /\ \A g \in Nat : g < Chunks /\ U[p] > 2 * g + 1 => SentDown(L, p) >= 6 * g + 6
<1>1. /\ Carries(chan[<<Trusted, p>>], Down, Heard(hk, hc, p), SentDown(L, p))
      /\ IsSeq(chan[<<Trusted, p>>])
      /\ PartyInv(hk, hc, U, p)
  BY NetDomains, NodeFacts DEF Holds, ChannelInv
<1>2. /\ 6 * hk[p] + hc[p] <= SentDown(L, p) /\ SentDown(L, p) \in Nat
      /\ hk[p] \in 0 .. Chunks /\ hc[p] \in 0 .. 5 /\ U[p] \in Nat
      /\ hk[p] = Chunks => hc[p] <= 1
  BY <1>1, CarriesOrder, SentNumbers DEF Heard, Holds, WitnessTypes
<1>3. PICK h, c, s, u : h = hk[p] /\ c = hc[p] /\ s = SentDown(L, p) /\ u = U[p]
  OBVIOUS
<1>4. CASE IsDone(p)
  <2>1. Len(evaluated[p]) = Chunks /\ u \in {2 * Chunks, 2 * Chunks + 1}
    BY <1>1, <1>3, <1>4 DEF PartyInv, IsDone
  <2>2. Launched(hk, hc, p)
    BY <1>1, <2>1, NodeFacts DEF PartyInv, StoresInv
  <2>3. L
    BY <2>2, LaunchSent
  <2>4. s >= 6 * Chunks + 1 /\ s \in Nat
    BY <1>2, <1>3, <2>2, NodeFacts DEF Launched
  <2>5. /\ u \in Nat /\ u <= 2 * Chunks + 1
        /\ \A g \in Nat : g < Chunks => s >= 6 * g + 2 /\ s >= 6 * g + 6
    BY <2>1, <2>4, NodeFacts
  <2> QED BY <1>3, <2>3, <2>5
<1>5. CASE ~IsDone(p)
  <2>1. u = 2 * h + More(hc, p, 2) /\ More(hc, p, 2) = IF c >= 2 THEN 1 ELSE 0
    BY <1>1, <1>3, <1>5 DEF PartyInv, More
  <2>2. /\ 6 * h + c <= s /\ s \in Nat /\ h \in 0 .. Chunks /\ c \in 0 .. 5
        /\ h = Chunks => c <= 1
    BY <1>2, <1>3
  <2>3. u \in Nat /\ u <= 2 * Chunks + 1 /\ u # 2 * Chunks + 1
    BY <2>1, <2>2, NodeFacts
  <2>4. ASSUME NEW g \in Nat, g < Chunks, u > 2 * g PROVE s >= 6 * g + 2
    BY <2>1, <2>2, <2>4, NodeFacts
  <2>5. ASSUME NEW g \in Nat, g < Chunks, u > 2 * g + 1 PROVE s >= 6 * g + 6
    BY <2>1, <2>2, <2>5, NodeFacts
  <2> QED BY <1>3, <2>3, <2>4, <2>5
<1> QED BY <1>4, <1>5

(* The trusted party gets the message it waits for.                         *)
Waits(L, V, U, j, m) ==
  /\ m.type = "PRF_OUTPUTS" =>
       /\ ~L /\ garbled < prepared /\ V[j] = 2 * garbled
       /\ m = Msg("PRF_OUTPUTS", garbled + 1)
  /\ m.type = "RECEIVED_GC" =>
       /\ ~L /\ garbled = prepared /\ garbled > 0 /\ V[j] = 2 * garbled - 1
  /\ m.type = "DONE" => L /\ V[j] = 2 * Chunks

LEMMA HearsWaited ==
  ASSUME NEW L, NEW hk, NEW hc, NEW U, NEW V, Holds(L, hk, hc, U, V), NEW j \in Parties,
         chan[<<j, Trusted>>] # <<>>, Protocol(Head(chan[<<j, Trusted>>]))
  PROVE  Waits(L, V, U, j, Head(chan[<<j, Trusted>>]))
<1>1. PICK m : m = Head(chan[<<j, Trusted>>])
  OBVIOUS
<1>2. m = Up[V[j]] /\ V[j] < U[j] /\ U[j] \in Nat /\ V[j] \in Nat
  <2>1. NextUp(U, V, j)
    BY HearsUp
  <2> QED BY <1>1, <2>1 DEF NextUp
<1>3. /\ Answers(L, V) /\ TrustedInv(L, V) /\ Chunks \in Nat /\ Chunks >= 1
  BY NodeFacts DEF Holds, TrustedPart
<1>4. PICK v, u, s : v = V[j] /\ u = U[j] /\ s = SentDown(L, j)
  OBVIOUS
<1>5. /\ garbled \in 0 .. Chunks /\ prepared \in 0 .. Chunks /\ garbled <= prepared
      /\ prepared <= garbled + 1
      /\ L => prepared = Chunks /\ garbled = Chunks
      /\ L => v \in {2 * Chunks, 2 * Chunks + 1}
      /\ ~L /\ garbled < prepared => v \in {2 * garbled, 2 * garbled + 1}
      /\ ~L /\ garbled = prepared /\ garbled > 0 => v \in {2 * garbled - 1, 2 * garbled}
      /\ prepared = 0 => v = 0
  BY <1>3, <1>4 DEF Answers, TrustedInv
<1>6. /\ u \in Nat /\ v \in Nat /\ v < u /\ u <= 2 * Chunks + 1
      /\ u = 2 * Chunks + 1 => L
      /\ \A g \in Nat : g < Chunks /\ u > 2 * g => s >= 6 * g + 2
      /\ \A g \in Nat : g < Chunks /\ u > 2 * g + 1 => s >= 6 * g + 6
  BY <1>2, <1>4, SentUp
<1>7. /\ s \in Nat
      /\ ~L /\ garbled = prepared => s = 6 * garbled
      /\ ~L /\ garbled < prepared => s <= 6 * garbled + 4
  <2>1. s \in Nat
    BY <1>4, SentNumbers
  <2>2. ~L /\ garbled = prepared => s = 6 * garbled
    BY <1>4 DEF SentDown
  <2>3. ~L /\ garbled < prepared => s <= 6 * garbled + 4
    BY <1>4, <1>5 DEF SentDown
  <2> QED BY <2>1, <2>2, <2>3
<1>8. v <= 2 * Chunks
  BY <1>3, <1>6
<1>9. CASE L
  <2>1. v = 2 * Chunks
    BY <1>3, <1>5, <1>6, <1>9
  <2>2. m = Type("DONE")
    BY <1>2, <1>4, <2>1, UpIs
  <2> QED BY <1>1, <1>4, <1>9, <2>1, <2>2 DEF Waits, Type
<1>10. CASE ~L /\ garbled < prepared
  <2>1. garbled \in Nat /\ garbled < Chunks
    BY <1>3, <1>5, <1>10
  <2>2. v = 2 * garbled
    <3>1. ~(u > 2 * garbled + 1)
      BY <1>6, <1>7, <1>10, <2>1
    <3> QED BY <1>5, <1>6, <1>10, <2>1, <3>1
  <2>3. Up[2 * garbled + 0] = UpOf(garbled, 0) /\ 2 * garbled + 0 = 2 * garbled
    <3>1. 2 * garbled + 0 # 2 * Chunks /\ 2 * garbled + 0 = 2 * garbled
      BY <1>3, <2>1
    <3> QED BY <2>1, <3>1, UpIs
  <2>4. m = Msg("PRF_OUTPUTS", garbled + 1)
    BY <1>2, <1>4, <2>2, <2>3 DEF UpOf
  <2> QED BY <1>1, <1>4, <1>10, <2>2, <2>4 DEF Waits, Msg
<1>11. CASE ~L /\ garbled = prepared /\ garbled > 0
  <2>1. garbled \in Nat
    BY <1>5
  <2>2. ~(garbled < Chunks /\ u > 2 * garbled)
    BY <1>6, <1>7, <1>11, <2>1
  <2>3. ~(garbled = Chunks /\ u > 2 * garbled)
    BY <1>3, <1>6, <1>11
  <2>4. v = 2 * garbled - 1
    BY <1>3, <1>5, <1>6, <1>11, <2>1, <2>2, <2>3
  <2>5. PICK g \in Nat : garbled = g + 1
    <3>1. garbled - 1 \in Nat /\ garbled = (garbled - 1) + 1
      BY <1>11, <2>1
    <3> QED BY <3>1
  <2>6. v = 2 * g + 1 /\ 2 * g + 1 # 2 * Chunks
    BY <1>3, <2>4, <2>5
  <2>7. m = Type("RECEIVED_GC")
    BY <1>2, <1>4, <2>6, UpIs DEF UpOf
  <2> QED BY <1>1, <1>4, <1>11, <2>4, <2>7 DEF Waits, Type
<1>12. CASE ~L /\ garbled = prepared /\ ~(garbled > 0)
  <2>1. garbled = 0 /\ prepared = 0
    BY <1>3, <1>5, <1>12
  <2>2. 0 \in Nat /\ 0 < Chunks /\ u > 2 * 0 /\ s = 0
    BY <1>3, <1>5, <1>6, <1>7, <1>12, <2>1
  <2> QED BY <1>6, <2>2
<1>13. garbled < prepared \/ garbled = prepared
  BY <1>3, <1>5
<1> QED BY <1>9, <1>10, <1>11, <1>12, <1>13

(* Receiving an answer, and counting them.                                  *)
LEMMA TakeUp ==
  ASSUME NEW L, NEW hk, NEW hc, NEW U, NEW V, Holds(L, hk, hc, U, V), NEW j \in Parties,
         chan[<<j, Trusted>>] # <<>>, Protocol(Head(chan[<<j, Trusted>>])),
         chan'[<<j, Trusted>>] = Tail(chan[<<j, Trusted>>])
  PROVE  Carries(chan'[<<j, Trusted>>], Up, V[j] + 1, U[j]) /\ NoNoise(<<j, Trusted>>)
<1>1. NextUp(U, V, j)
  BY HearsUp
<1>2. IsSeq(chan[<<j, Trusted>>])
  BY NetDomains, NodeFacts
<1> QED BY <1>1, <1>2, InsideTail DEF NextUp, NoNoise

LEMMA Counting ==
  ASSUME NEW S, S \subseteq Parties, NEW j \in Parties, j \notin S
  PROVE  /\ Cardinality(S) \in Nat /\ Cardinality(S \cup {j}) = Cardinality(S) + 1
         /\ Cardinality(S) + 1 = N => S \cup {j} = Parties
         /\ Cardinality(S) < N
<1>1. IsFiniteSet(Parties) /\ Cardinality(Parties) = N
  <2>1. /\ 1 <= N => IsFiniteSet(1 .. N) /\ Cardinality(1 .. N) = N - 1 + 1
        /\ N - 1 + 1 = N
    BY NodeFacts, FS_Interval
  <2> QED BY <2>1, NodeFacts DEF Parties
<1>2. IsFiniteSet(S) /\ Cardinality(S) \in Nat
  BY <1>1, FS_Subset, FS_CardinalityType
<1>3. IsFiniteSet(S \cup {j}) /\ Cardinality(S \cup {j}) = Cardinality(S) + 1
  BY <1>2, FS_AddElement
<1>4. S \cup {j} \subseteq Parties
  OBVIOUS
<1>5. Cardinality(S \cup {j}) <= Cardinality(Parties) /\ (Cardinality(S \cup {j}) = Cardinality(Parties) => S \cup {j} = Parties)
  BY <1>1, <1>4, FS_Subset
<1> QED BY <1>1, <1>2, <1>3, <1>5, NodeFacts

(* The messages of the trusted party on top of the rest of a channel.       *)
TrustedQueues(j, ms) ==
  /\ DOMAIN chan' = Connections /\ lost' = lost
  /\ \A p \in Parties : /\ Queues(p, ms[p])
                        /\ chan'[<<p, Trusted>>] =
                             IF p = j THEN Tail(chan[<<p, Trusted>>]) ELSE chan[<<p, Trusted>>]
  /\ \A d \in Connections : d[1] # Trusted /\ d[2] # Trusted => chan'[d] = chan[d]

LEMMA SendRest ==
  ASSUME NEW L, NEW hk, NEW hc, NEW U, NEW V, Holds(L, hk, hc, U, V), NEW j \in Parties, ~L,
         NEW r, r = Rest(Trusted, j), NEW ms,
         chan' = [d \in Connections |-> IF d[1] = Trusted /\ d \in sending THEN r[d] \o ms[d[2]] ELSE r[d]],
         {i \in Others(Trusted) : <<Trusted, i>> \notin sending} = {} => lost' = lost
  PROVE  TrustedQueues(j, ms)
<1>1. \A d \in Connections : d \in sending
  BY NetDomains, AllSending
<1>2. {i \in Others(Trusted) : <<Trusted, i>> \notin sending} = {}
  BY <1>1, NodeFacts
<1>3. \A d \in Connections : r[d] = IF d = <<j, Trusted>> THEN Tail(chan[d]) ELSE chan[d]
  BY NetDomains, NodeFacts DEF Rest
<1>4. \A d \in Connections : chan'[d] = IF d[1] = Trusted THEN r[d] \o ms[d[2]] ELSE r[d]
  BY <1>1
<1>5. ASSUME NEW p \in Parties
      PROVE  /\ Queues(p, ms[p])
             /\ chan'[<<p, Trusted>>] = IF p = j THEN Tail(chan[<<p, Trusted>>]) ELSE chan[<<p, Trusted>>]
  <2>1. /\ <<p, Trusted>> \in Connections /\ <<Trusted, p>> \in Connections /\ p # Trusted
    BY NodeFacts
  <2>2. chan'[<<Trusted, p>>] = chan[<<Trusted, p>>] \o ms[p]
    BY <1>3, <1>4, <2>1
  <2>3. chan'[<<p, Trusted>>] = IF p = j THEN Tail(chan[<<p, Trusted>>]) ELSE chan[<<p, Trusted>>]
    BY <1>3, <1>4, <2>1
  <2> QED BY <2>2, <2>3 DEF Queues
<1>6. \A d \in Connections : d[1] # Trusted /\ d[2] # Trusted => chan'[d] = chan[d]
  BY <1>3, <1>4
<1> QED BY <1>2, <1>5, <1>6 DEF TrustedQueues

(* What TakePrf and HearReceivedGc do to the channels.                      *)
QueuedBy(L, L2, ms, s, n) == \A p \in Parties :
  /\ SentDown(L, p) = s /\ SentDown(L2, p)' = s + n
  /\ Continues(ms[p], s) /\ Len(ms[p]) = n
ChannelsKept(L2, hk, hc, U, V2) ==
  /\ \A p \in Parties : ChannelInv(L2, hk, hc, U, V2, p)'
  /\ \A c \in Connections : NoNoise(c)

LEMMA QueuesKeep ==
  ASSUME NEW L, NEW hk, NEW hc, NEW U, NEW V, Holds(L, hk, hc, U, V), NEW j \in Parties,
         NEW L2, NEW V2, V2[j] = V[j] + 1, \A p \in Parties : p # j => V2[p] = V[p],
         chan[<<j, Trusted>>] # <<>>, Protocol(Head(chan[<<j, Trusted>>])),
         NEW ms, TrustedQueues(j, ms), NEW n \in Nat, NEW s \in Nat,
         QueuedBy(L, L2, ms, s, n)
  PROVE  ChannelsKept(L2, hk, hc, U, V2)
<1>1. ASSUME NEW p \in Parties
      PROVE  ChannelInv(L2, hk, hc, U, V2, p)' /\ NoNoise(<<Trusted, p>>) /\ NoNoise(<<p, Trusted>>)
  <2>1. Queues(p, ms[p])
    BY DEF TrustedQueues
  <2>2. PICK l : l = ms[p]
    OBVIOUS
  <2>3. Queues(p, l) /\ Continues(l, s) /\ Len(l) = n /\ s = SentDown(L, p)
    BY <2>1, <2>2 DEF QueuedBy
  <2>4. Carries(chan'[<<Trusted, p>>], Down, Heard(hk, hc, p), s + Len(l)) /\ NoNoise(<<Trusted, p>>)
    BY <2>3, DownMore
  <2>5. Carries(chan'[<<p, Trusted>>], Up, V2[p], U[p]) /\ NoNoise(<<p, Trusted>>)
    <3>1. CASE p = j
      <4>1. chan'[<<j, Trusted>>] = Tail(chan[<<j, Trusted>>])
        BY DEF TrustedQueues
      <4> QED BY <3>1, <4>1, TakeUp
    <3>2. CASE p # j
      <4>1. chan'[<<p, Trusted>>] = chan[<<p, Trusted>>]
        BY <3>2 DEF TrustedQueues
      <4> QED BY <3>2, <4>1, ChannelSame
    <3> QED BY <3>1, <3>2
  <2>6. SentDown(L2, p)' = s + n
    BY DEF QueuedBy
  <2> QED BY <2>3, <2>4, <2>5, <2>6 DEF ChannelInv
<1>2. \A c \in Connections : NoNoise(c)
  BY <1>1, OtherChannels DEF TrustedQueues
<1> QED BY <1>1, <1>2 DEF ChannelsKept

LEMMA TakeQueues ==
  ASSUME NEW L, NEW hk, NEW hc, NEW U, NEW V, Holds(L, hk, hc, U, V), NEW j \in Parties,
         Take(Trusted, j)
  PROVE  TrustedQueues(j, [p \in Parties |-> <<>>])
<1> DEFINE ms == [p \in Parties |-> <<>>]
<1>1. /\ DOMAIN chan' = Connections /\ lost' = lost
      /\ \A d \in Connections : chan'[d] = IF d = <<j, Trusted>> THEN Tail(chan[d]) ELSE chan[d]
  BY NetDomains, NodeFacts DEF Take, Rest
<1>2. \A d \in Connections : chan[d] \o <<>> = chan[d]
  BY NetDomains, EmptyFacts, ConcatFacts
<1>3. \A p \in Parties : ms[p] = <<>>
  OBVIOUS
<1> HIDE DEF ms
<1>4. ASSUME NEW p \in Parties
      PROVE  /\ Queues(p, ms[p])
             /\ chan'[<<p, Trusted>>] = IF p = j THEN Tail(chan[<<p, Trusted>>]) ELSE chan[<<p, Trusted>>]
  <2>1. /\ <<p, Trusted>> \in Connections /\ <<Trusted, p>> \in Connections /\ p # Trusted
    BY NodeFacts
  <2>2. chan'[<<Trusted, p>>] = chan[<<Trusted, p>>]
    BY <1>1, <2>1
  <2>3. chan'[<<p, Trusted>>] = IF p = j THEN Tail(chan[<<p, Trusted>>]) ELSE chan[<<p, Trusted>>]
    BY <1>1, <2>1
  <2> QED BY <1>2, <1>3, <2>1, <2>2, <2>3 DEF Queues
<1>5. TrustedQueues(j, ms)
  BY <1>1, <1>4 DEF TrustedQueues
<1> QED BY <1>5 DEF ms

LEMMA ContinuesNothing == \A s \in Nat : Continues(<<>>, s) /\ Len(<<>>) = 0
  BY SmallSeqs DEF Continues

(* The PRF outputs of a party.                                              *)
PrfWaited(L, V, j) ==
  /\ ~L /\ garbled \in 0 .. Chunks - 1 /\ prepared = garbled + 1
  /\ V[j] = 2 * garbled /\ Head(chan[<<j, Trusted>>]).n = garbled + 1
  /\ chan[<<j, Trusted>>] # <<>> /\ Protocol(Head(chan[<<j, Trusted>>]))
  /\ wires[Trusted] = <<prepared>>
  /\ num_prf_received = Cardinality(SentPrf(V)) /\ received_gc_received = 0

LEMMA HearsPrf ==
  ASSUME NEW L, NEW hk, NEW hc, NEW U, NEW V, Holds(L, hk, hc, U, V), NEW j \in Parties,
         Incoming(Trusted, j, "PRF_OUTPUTS")
  PROVE  PrfWaited(L, V, j)
<1>1. chan[<<j, Trusted>>] # <<>> /\ Head(chan[<<j, Trusted>>]).type = "PRF_OUTPUTS"
  BY DEF Incoming
<1>2. Protocol(Head(chan[<<j, Trusted>>]))
  BY <1>1 DEF Protocol
<1>3. Waits(L, V, U, j, Head(chan[<<j, Trusted>>]))
  BY <1>1, <1>2, HearsWaited
<1>4. /\ ~L /\ garbled < prepared /\ V[j] = 2 * garbled
      /\ Head(chan[<<j, Trusted>>]) = Msg("PRF_OUTPUTS", garbled + 1)
  BY <1>1, <1>3 DEF Waits
<1>5. TrustedInv(L, V) /\ Counts(L, V)
  BY DEF Holds, TrustedPart
<1>6. garbled \in 0 .. Chunks - 1 /\ prepared = garbled + 1
  <2>1. /\ prepared \in 0 .. Chunks /\ garbled \in 0 .. Chunks
        /\ garbled <= prepared /\ prepared <= garbled + 1
    BY <1>5 DEF TrustedInv
  <2> QED BY <1>4, <2>1, NodeFacts
<1>7. wires[Trusted] = <<prepared>>
  BY <1>4, <1>5, <1>6 DEF TrustedInv
<1>8. num_prf_received = Cardinality(SentPrf(V)) /\ received_gc_received = 0
  BY <1>4, <1>5, <1>6 DEF Counts
<1>9. Head(chan[<<j, Trusted>>]).n = garbled + 1
  BY <1>4 DEF Msg
<1> QED BY <1>1, <1>2, <1>4, <1>6, <1>7, <1>8, <1>9 DEF PrfWaited

(* What the step leaves alone, and what it writes for the sender.           *)
PrfAside(j) ==
  /\ UNCHANGED <<conn, starter, ready_nodes, num_identified, clientsmap, sending, stopping, listener, partyVars,
                 prepared, sentTo, slots, received_gc_received>>
  /\ prf_outputs' = [prf_outputs EXCEPT ![j] = garbled + 1]

LEMMA AnswersPrf ==
  ASSUME NEW L, NEW hk, NEW hc, NEW U, NEW V, Holds(L, hk, hc, U, V), NEW j \in Parties,
         PrfWaited(L, V, j), PrfAside(j), clientsmap[<<Trusted, j>>] = j,
         NEW V2, V2[j] = V[j] + 1, \A p \in Parties : p # j => V2[p] = V[p],
         \/ garbled' = garbled
         \/ garbled' = garbled + 1 /\ \A p \in Parties : V2[p] = 2 * garbled + 1
  PROVE  Answers(L, V2)'
<1>1. Answers(L, V) /\ TrustedInv(L, V)
  BY DEF Holds, TrustedPart
<1>2. PICK g : g = garbled
  OBVIOUS
<1>3. /\ ~L /\ g \in 0 .. Chunks - 1 /\ prepared = g + 1 /\ V[j] = 2 * g
      /\ prepared' = g + 1 /\ Chunks \in Nat
      /\ prf_outputs' = [prf_outputs EXCEPT ![j] = g + 1]
      /\ clientsmap' = clientsmap /\ prf_outputs \in [Parties -> Nat]
      /\ garbled' = g \/ garbled' = g + 1
      /\ garbled' = g + 1 => \A p \in Parties : V2[p] = 2 * g + 1
  BY <1>1, <1>2, NodeFacts DEF PrfWaited, PrfAside, TrustedInv
<1>4. ASSUME NEW p \in Parties
      PROVE  /\ garbled' < prepared' => V2[p] \in {2 * garbled', 2 * garbled' + 1}
             /\ garbled' = prepared' /\ garbled' > 0 => V2[p] \in {2 * garbled' - 1, 2 * garbled'}
             /\ prepared' = 0 => V2[p] = 0
             /\ V2[p] > 0 => clientsmap'[<<Trusted, p>>] = p
             /\ \A k \in Nat : V2[p] \in {2 * k - 1, 2 * k} /\ k <= Chunks => prf_outputs'[p] = k
  <2>1. V[p] \in {2 * g, 2 * g + 1} /\ (V[p] > 0 => clientsmap[<<Trusted, p>>] = p)
    BY <1>1, <1>2, <1>3 DEF Answers
  <2>2. V2[p] = IF p = j THEN 2 * g + 1 ELSE V[p]
    BY <1>3
  <2>3. garbled' < prepared' => V2[p] \in {2 * garbled', 2 * garbled' + 1}
    BY <1>3, <2>1, <2>2
  <2>4. garbled' = prepared' /\ garbled' > 0 => V2[p] \in {2 * garbled' - 1, 2 * garbled'}
    BY <1>3, <2>1, <2>2
  <2>5. V2[p] > 0 => clientsmap'[<<Trusted, p>>] = p
    BY <1>3, <2>1, <2>2
  <2>6. ASSUME NEW k \in Nat, V2[p] \in {2 * k - 1, 2 * k}, k <= Chunks PROVE prf_outputs'[p] = k
    <3>1. CASE p = j
      <4>1. k = g + 1
        BY <1>3, <2>2, <2>6, <3>1
      <4> QED BY <1>3, <3>1, <4>1
    <3>2. CASE p # j
      <4>1. prf_outputs'[p] = prf_outputs[p]
        BY <1>3, <3>2
      <4>2. prf_outputs[p] = k
        BY <1>1, <2>2, <2>6, <3>2 DEF Answers
      <4> QED BY <4>1, <4>2
    <3> QED BY <3>1, <3>2
  <2>7. prepared' # 0
    BY <1>3
  <2> QED BY <2>3, <2>4, <2>5, <2>6, <2>7
<1> QED BY <1>3, <1>4 DEF Answers

(* The numbers of the others are as they were: who has sent its outputs.    *)
LEMMA SentPrfMore ==
  ASSUME NEW g \in Nat, NEW j \in Parties, NEW V, NEW V2, V[j] = 2 * g, V2[j] = V[j] + 1,
         \A p \in Parties : p # j => V2[p] = V[p]
  PROVE  /\ j \notin {p \in Parties : V[p] = 2 * g + 1}
         /\ {p \in Parties : V2[p] = 2 * g + 1} = {p \in Parties : V[p] = 2 * g + 1} \cup {j}
<1>1. V[j] # 2 * g + 1 /\ V2[j] = 2 * g + 1
  OBVIOUS
<1> QED BY <1>1

LEMMA TrustedInvPrf ==
  ASSUME NEW L, NEW hk, NEW hc, NEW U, NEW V, Holds(L, hk, hc, U, V), NEW j \in Parties,
         PrfWaited(L, V, j), PrfAside(j), slots, NEW V2,
         \/ garbled' = garbled /\ wires' = wires
         \/ garbled' = garbled + 1 /\ wires'[Trusted] = <<>>
  PROVE  TrustedInv(L, V2)'
<1>1. TrustedInv(L, V)
  BY DEF Holds, TrustedPart
<1>2. PICK g : g = garbled
  OBVIOUS
<1>3. /\ g \in 0 .. Chunks - 1 /\ prepared = g + 1 /\ Chunks \in Nat /\ wires[Trusted] = <<prepared>>
      /\ prepared' = prepared /\ slots' = slots /\ sentTo' = sentTo /\ listener' = listener
      /\ prf_outputs' = [prf_outputs EXCEPT ![j] = g + 1]
  BY <1>2, NodeFacts DEF PrfWaited, PrfAside
<1>4. (garbled' = g /\ wires' = wires) \/ (garbled' = g + 1 /\ wires'[Trusted] = <<>>)
  BY <1>2
<1>5. /\ prepared' \in 0 .. Chunks /\ garbled' \in 0 .. Chunks
      /\ garbled' <= prepared' /\ prepared' <= garbled' + 1
      /\ garbled' = g => garbled' # prepared'
      /\ garbled' = g + 1 => garbled' = prepared'
      /\ prepared' > 0 /\ prepared' # 0
      /\ g + 1 \in Nat
  BY <1>3, <1>4
<1>6. wires'[Trusted] = IF garbled' = prepared' THEN <<>> ELSE <<prepared'>>
  BY <1>3, <1>4, <1>5
<1>7. prf_outputs' \in [Parties -> Nat]
  BY <1>1, <1>3, <1>5 DEF TrustedInv
<1> QED BY <1>1, <1>3, <1>5, <1>6, <1>7 DEF TrustedInv

LEMMA StoppingStays ==
  ASSUME NEW L, NEW hk, NEW hc, NEW U, NEW V, Holds(L, hk, hc, U, V), NEW j \in Parties
  PROVE  /\ UNCHANGED stopping => stopping \subseteq stopping' /\ (stopping' # {} => L)
         /\ UNCHANGED <<listener, stopping>> =>
              (listener'[<<Trusted, j>>] \in {"stopping", "aborting"} => Trusted \in stopping')
         /\ prepared > 0 => conn[Trusted] = "done"
<1>1. NetRest(L)
  BY NetDomains
<1>2. <<Trusted, j>> \in Connections /\ <<Trusted, j>>[1] = Trusted
  BY NodeFacts
<1> QED BY <1>1, <1>2 DEF NetRest

(* Not the last of them.                                                    *)
LEMMA FirstPrfKeeps ==
  ASSUME NEW L, NEW hk, NEW hc, NEW U, NEW V, Holds(L, hk, hc, U, V), NEW j \in Parties,
         PrfWaited(L, V, j), PrfAside(j), slots, clientsmap[<<Trusted, j>>] = j,
         num_prf_received + 1 # N, num_prf_received' = num_prf_received + 1,
         Take(Trusted, j), garbled' = garbled, wires' = wires
  PROVE  IInv'
<1>1. PICK V2 : V2 = [V EXCEPT ![j] = @ + 1]
  OBVIOUS
<1>2. WitnessTypes(L, hk, hc, U, V) /\ Functions /\ TrustedPart(L, V)
  BY DEF Holds
<1>3. /\ WitnessTypes(L, hk, hc, U, V2) /\ V2[j] = V[j] + 1
      /\ \A p \in Parties : p # j => V2[p] = V[p]
  BY <1>1, <1>2 DEF WitnessTypes
<1>4. PICK ms : ms = [p \in Parties |-> <<>>]
  OBVIOUS
<1>5. TrustedQueues(j, ms)
  BY <1>4, TakeQueues
<1>6. PICK s : s = 6 * garbled + 4
  OBVIOUS
<1>7. s \in Nat /\ s + 0 = s
  BY <1>6, NodeFacts DEF PrfWaited
<1>8. /\ ~L /\ prepared # garbled /\ prepared' # garbled'
      /\ chan[<<j, Trusted>>] # <<>> /\ Protocol(Head(chan[<<j, Trusted>>]))
  BY NodeFacts DEF PrfWaited, PrfAside
<1>9. ASSUME NEW p \in Parties
      PROVE  /\ SentDown(L, p) = s /\ SentDown(L, p)' = s + 0
             /\ Continues(ms[p], s) /\ Len(ms[p]) = 0
  <2>1. SentDown(L, p) = s
    BY <1>6, <1>8 DEF SentDown
  <2>2. SentDown(L, p)' = s
    BY <1>6, <1>8 DEF SentDown, PrfAside
  <2>3. ms[p] = <<>>
    BY <1>4
  <2> QED BY <1>7, <2>1, <2>2, <2>3, ContinuesNothing
<1>10. /\ \A p \in Parties : ChannelInv(L, hk, hc, U, V2, p)'
       /\ \A c \in Connections : NoNoise(c)
  <2>1. QueuedBy(L, L, ms, s, 0)
    BY <1>9 DEF QueuedBy
  <2>2. ChannelsKept(L, hk, hc, U, V2)
    BY <1>3, <1>5, <1>7, <1>8, <2>1, QueuesKeep
  <2> QED BY <2>2 DEF ChannelsKept
<1>11. Answers(L, V2)'
  BY <1>3, AnswersPrf
<1>12. Counts(L, V2)'
  <2>1. /\ garbled' < prepared' /\ ~(garbled' = prepared')
    BY NodeFacts DEF PrfWaited, PrfAside
  <2>2. SentPrf(V2)' = SentPrf(V) \cup {j} /\ j \notin SentPrf(V)
    BY <1>3, NodeFacts, SentPrfMore DEF SentPrf, PrfWaited
  <2>3. SentPrf(V) \subseteq Parties
    BY DEF SentPrf
  <2>4. PICK S, S2 : S = SentPrf(V) /\ S2 = SentPrf(V2)'
    OBVIOUS
  <2>5. /\ Cardinality(S) \in Nat /\ Cardinality(S2) = Cardinality(S) + 1 /\ Cardinality(S) < N
    BY <2>2, <2>3, <2>4, Counting
  <2>6. num_prf_received' = Cardinality(S2) /\ num_prf_received' < N
    BY <2>4, <2>5, NodeFacts DEF PrfWaited
  <2>7. received_gc_received' = 0 /\ 0 < N
    BY NodeFacts DEF PrfWaited, PrfAside
  <2> QED BY <1>8, <2>1, <2>4, <2>6, <2>7 DEF Counts
<1>13. TrustedInv(L, V2)'
  BY TrustedInvPrf
<1>14. Aside(j) /\ Functions'
  BY <1>2, <1>5, NodeFacts DEF Aside, Functions, PrfAside, partyVars, TrustedQueues
<1>15. /\ stopping \subseteq stopping' /\ (stopping' # {} => L)
       /\ listener'[<<Trusted, j>>] \in {"stopping", "aborting"} => Trusted \in stopping'
       /\ prepared' > 0 => conn[Trusted] = "done"
  <2>1. prepared' > 0 => prepared > 0
    BY DEF PrfAside
  <2> QED BY <2>1, StoppingStays DEF PrfAside
<1> QED BY <1>3, <1>5, <1>10, <1>11, <1>12, <1>13, <1>14, <1>15, TrustedKeeps
           DEF TrustedPart, TrustedQueues

(* The last: the piece is garbled and broadcast.                            *)
LEMMA LastPrfKeeps ==
  ASSUME NEW L, NEW hk, NEW hc, NEW U, NEW V, Holds(L, hk, hc, U, V), NEW j \in Parties,
         PrfWaited(L, V, j), PrfAside(j), slots, clientsmap[<<Trusted, j>>] = j,
         num_prf_received + 1 = N, num_prf_received' = 0, garbled' = garbled + 1,
         wires' = [wires EXCEPT ![Trusted] = Tail(@)],
         NEW gc, gc.code = garbled + 1, gc.wires = Head(wires[Trusted]), gc.prfs = Range(prf_outputs'),
         gc = [code |-> gc.code, wires |-> gc.wires, prfs |-> gc.prfs],
         NEW ms, \A p \in Parties : ms[p] = <<Type("SPDZ_WIRES"), Msg("GARBLED_CIRCUIT", gc)>>,
         TrustedQueues(j, ms)
  PROVE  IInv'
<1>1. PICK V2 : V2 = [V EXCEPT ![j] = @ + 1]
  OBVIOUS
<1>2. WitnessTypes(L, hk, hc, U, V) /\ Functions /\ TrustedPart(L, V)
  BY DEF Holds
<1>3. /\ WitnessTypes(L, hk, hc, U, V2) /\ V2[j] = V[j] + 1
      /\ \A p \in Parties : p # j => V2[p] = V[p]
  BY <1>1, <1>2 DEF WitnessTypes
<1>4. PICK g : g = garbled
  OBVIOUS
<1>5. g \in Nat /\ g < Chunks /\ prepared = g + 1 /\ prepared' = g + 1 /\ garbled' = g + 1 /\ ~L
  BY <1>4, NodeFacts DEF PrfWaited, PrfAside
<1>6. \A p \in Parties : V2[p] = 2 * g + 1
  <2>1. SentPrf(V) \subseteq Parties /\ j \notin SentPrf(V)
    BY <1>3, NodeFacts, SentPrfMore DEF SentPrf, PrfWaited
  <2>2. Cardinality(SentPrf(V)) + 1 = N
    BY DEF PrfWaited
  <2>3. PICK S : S = SentPrf(V)
    OBVIOUS
  <2>4. S \cup {j} = Parties
    BY <2>1, <2>2, <2>3, Counting
  <2>5. ASSUME NEW p \in Parties, p # j PROVE V2[p] = 2 * g + 1
    BY <1>3, <1>4, <2>3, <2>4, <2>5 DEF SentPrf
  <2>6. V2[j] = 2 * g + 1
    BY <1>3, <1>4 DEF PrfWaited
  <2> QED BY <2>5, <2>6
<1>7. Answers(L, V2)'
  BY <1>3, <1>4, <1>6, AnswersPrf
<1>8. wires[Trusted] = <<g + 1>> /\ Head(wires[Trusted]) = g + 1 /\ wires'[Trusted] = <<>>
  <2>1. wires[Trusted] = <<g + 1>>
    BY <1>5 DEF PrfWaited
  <2>2. wires'[Trusted] = Tail(wires[Trusted])
    BY <1>2, NodeFacts DEF Functions
  <2> QED BY <2>1, <2>2
<1>9. gc = Circuit(g + 1)
  <2>1. \A p \in Parties : prf_outputs'[p] = g + 1
    <3>1. ASSUME NEW p \in Parties PROVE prf_outputs'[p] = g + 1
      <4>1. \A k \in Nat : V2[p] \in {2 * k - 1, 2 * k} /\ k <= Chunks => prf_outputs'[p] = k
        BY <1>7 DEF Answers
      <4>2. PICK k \in Nat : k = g + 1
        BY <1>5
      <4>3. V2[p] \in {2 * k - 1, 2 * k} /\ k <= Chunks
        BY <1>5, <1>6, <4>2, NodeFacts
      <4> QED BY <4>1, <4>2, <4>3
    <3> QED BY <3>1
  <2>2. DOMAIN prf_outputs' = Parties
    BY <1>2 DEF TrustedPart, TrustedInv, PrfAside
  <2>3. Range(prf_outputs') = {g + 1}
    BY <2>1, <2>2 DEF Range
  <2> QED BY <1>4, <1>8, <2>3 DEF Circuit
<1>10. TrustedInv(L, V2)'
  BY <1>8, TrustedInvPrf
<1>11. Counts(L, V2)'
  <2>1. ~(garbled' < prepared') /\ garbled' = prepared' /\ garbled' > 0
    BY <1>5
  <2>2. HasCircuit(V2)' = {}
    <3>1. 2 * g + 1 # 2 * (g + 1)
      BY <1>5
    <3> QED BY <1>5, <1>6, <3>1 DEF HasCircuit
  <2>3. received_gc_received' = 0 /\ 0 < N
    BY NodeFacts DEF PrfWaited, PrfAside
  <2> QED BY <2>1, <2>2, <2>3, FS_EmptySet DEF Counts
<1>12. PICK s : s = 6 * g + 4
  OBVIOUS
<1>13. s \in Nat /\ s + 2 = 6 * (g + 1) /\ s + 1 = 6 * g + 5 /\ 2 \in Nat
  BY <1>5, <1>12
<1>14. Down[s] = Type("SPDZ_WIRES") /\ Down[s + 1] = Msg("GARBLED_CIRCUIT", gc)
  <2>1. Down[6 * g + 4] = DownOf(g, 4)
    <3>1. 6 * g + 4 # 6 * Chunks
      BY <1>5, NodeFacts
    <3> QED BY <1>5, <3>1, DownIs
  <2>2. Down[6 * g + 5] = DownOf(g, 5)
    <3>1. 6 * g + 5 # 6 * Chunks
      BY <1>5, NodeFacts
    <3> QED BY <1>5, <3>1, DownIs
  <2> QED BY <1>9, <1>12, <1>13, <2>1, <2>2 DEF DownOf
<1>15. Protocol(Type("SPDZ_WIRES")) /\ Protocol(Msg("GARBLED_CIRCUIT", gc))
  BY DEF Protocol, Type, Msg
<1>16. ASSUME NEW p \in Parties
       PROVE  /\ SentDown(L, p) = s /\ SentDown(L, p)' = s + 2
              /\ Continues(ms[p], s) /\ Len(ms[p]) = 2
  <2>1. SentDown(L, p) = s
    <3>1. g # g + 1
      BY <1>5
    <3> QED BY <1>4, <1>5, <1>12, <3>1 DEF SentDown
  <2>2. SentDown(L, p)' = 6 * (g + 1)
    BY <1>5 DEF SentDown
  <2>3. PICK a, b : a = Type("SPDZ_WIRES") /\ b = Msg("GARBLED_CIRCUIT", gc) /\ ms[p] = <<a, b>>
    OBVIOUS
  <2>4. Continues(<<a, b>>, s) /\ Len(<<a, b>>) = 2
    BY <1>13, <1>14, <1>15, <2>3, ContinuesBy
  <2> QED BY <1>13, <2>1, <2>2, <2>3, <2>4
<1>17. /\ \A p \in Parties : ChannelInv(L, hk, hc, U, V2, p)'
       /\ \A c \in Connections : NoNoise(c)
  <2>1. chan[<<j, Trusted>>] # <<>> /\ Protocol(Head(chan[<<j, Trusted>>]))
    BY DEF PrfWaited
  <2>2. QueuedBy(L, L, ms, s, 2)
    BY <1>16 DEF QueuedBy
  <2>3. ChannelsKept(L, hk, hc, U, V2)
    BY <1>3, <1>13, <2>1, <2>2, QueuesKeep
  <2> QED BY <2>3 DEF ChannelsKept
<1>18. Aside(j) /\ Functions'
  <2>1. \A p \in Parties : wires'[p] = wires[p]
    BY <1>2, NodeFacts DEF Functions
  <2>2. DOMAIN wires' = Nodes
    BY <1>2 DEF Functions
  <2> QED BY <1>2, <2>1, <2>2, NodeFacts DEF Aside, Functions, PrfAside, partyVars, TrustedQueues
<1>19. /\ stopping \subseteq stopping' /\ (stopping' # {} => L)
       /\ listener'[<<Trusted, j>>] \in {"stopping", "aborting"} => Trusted \in stopping'
       /\ prepared' > 0 => conn[Trusted] = "done"
  <2>1. prepared' > 0 => prepared > 0
    BY DEF PrfAside
  <2> QED BY <2>1, StoppingStays DEF PrfAside
<1> QED BY <1>3, <1>7, <1>10, <1>11, <1>17, <1>18, <1>19, TrustedKeeps
           DEF TrustedPart, TrustedQueues

LEMMA HearPrfKeeps ==
  ASSUME NEW L, NEW hk, NEW hc, NEW U, NEW V, Holds(L, hk, hc, U, V), NEW j \in Parties,
         HearPrf(j)
  PROVE  IInv'
<1>1. /\ Incoming(Trusted, j, "PRF_OUTPUTS")
      /\ UNCHANGED <<startup, listener, ending, filling, received_gc_received, n_received, partyVars>>
  BY DEF HearPrf
<1>2. CASE ~(slots /\ clientsmap[<<Trusted, j>>] = j)
  <2>1. UNCHANGED <<prf_outputs, num_prf_received, garbled, wires, net>>
    BY <1>2 DEF HearPrf
  <2> QED BY <1>1, <2>1, UndefinedKeeps DEF nodeVars, trustedVars, answers
<1>3. CASE slots /\ clientsmap[<<Trusted, j>>] = j
  <2>1. PrfWaited(L, V, j)
    BY <1>1, HearsPrf
  <2>2. PrfAside(j)
    <3>1. prf_outputs' = [prf_outputs EXCEPT ![j] = Head(chan[<<j, Trusted>>]).n]
      BY <1>3 DEF HearPrf, TakePrf
    <3> QED BY <1>1, <2>1, <3>1 DEF PrfAside, PrfWaited, startup, ending, filling
  <2>3. CASE ~LastPrf
    <3>1. num_prf_received' = num_prf_received + 1 /\ Take(Trusted, j) /\ garbled' = garbled /\ wires' = wires
      BY <1>3, <2>3 DEF HearPrf, TakePrf
    <3> QED BY <1>3, <2>1, <2>2, <2>3, <3>1, FirstPrfKeeps DEF LastPrf
  <2>4. CASE LastPrf
    <3>1. PICK gc : gc = Garble(prf_outputs')
      OBVIOUS
    <3>2. PICK ms : ms = [p \in Parties |-> <<Type("SPDZ_WIRES"), Msg("GARBLED_CIRCUIT", gc)>>]
      OBVIOUS
    <3>3. PICK r : r = Rest(Trusted, j)
      OBVIOUS
    <3>4. /\ num_prf_received' = 0 /\ garbled' = garbled + 1
          /\ wires' = [wires EXCEPT ![Trusted] = Tail(@)]
      BY <1>3, <2>4 DEF HearPrf, TakePrf
    <3>5. Send(r, Trusted, [p \in Parties |-> <<Type("SPDZ_WIRES"), Msg("GARBLED_CIRCUIT", Garble(prf_outputs'))>>])
      BY <1>3, <2>4, <3>3 DEF HearPrf, TakePrf
    <3>9. /\ chan' = [d \in Connections |-> IF d[1] = Trusted /\ d \in sending
                                            THEN r[d] \o ms[d[2]] ELSE r[d]]
          /\ {i \in Others(Trusted) : <<Trusted, i>> \notin sending} = {} => lost' = lost
      <4>1. ms = [p \in Parties |-> <<Type("SPDZ_WIRES"), Msg("GARBLED_CIRCUIT", Garble(prf_outputs'))>>]
        BY <3>1, <3>2
      <4>2. chan' = [d \in Connections |-> IF d[1] = Trusted /\ d \in sending
                                            THEN r[d] \o ms[d[2]] ELSE r[d]]
        BY <3>5, <4>1 DEF Send
      <4>3. {i \in Others(Trusted) : <<Trusted, i>> \notin sending} = {} => lost' = lost
        BY <3>5 DEF Send
      <4> QED BY <4>2, <4>3
    <3>6. TrustedQueues(j, ms)
      BY <2>1, <3>3, <3>9, SendRest DEF PrfWaited
    <3>7. /\ gc.code = garbled + 1 /\ gc.wires = Head(wires[Trusted]) /\ gc.prfs = Range(prf_outputs')
          /\ gc = [code |-> gc.code, wires |-> gc.wires, prfs |-> gc.prfs]
      BY <3>1 DEF Garble
    <3>8. \A p \in Parties : ms[p] = <<Type("SPDZ_WIRES"), Msg("GARBLED_CIRCUIT", gc)>>
      BY <3>2
    <3> QED BY <1>3, <2>1, <2>2, <2>4, <3>4, <3>6, <3>7, <3>8, LastPrfKeeps DEF LastPrf
  <2> QED BY <2>3, <2>4
<1> QED BY <1>2, <1>3

(* A party has received its circuit.                                        *)
GcWaited(L, V, j) ==
  /\ ~L /\ garbled \in 1 .. Chunks /\ prepared = garbled
  /\ V[j] = 2 * garbled - 1 /\ slots
  /\ chan[<<j, Trusted>>] # <<>> /\ Protocol(Head(chan[<<j, Trusted>>]))
  /\ wires[Trusted] = <<>>
  /\ num_prf_received = 0 /\ received_gc_received = Cardinality(HasCircuit(V))

LEMMA HearsGc ==
  ASSUME NEW L, NEW hk, NEW hc, NEW U, NEW V, Holds(L, hk, hc, U, V), NEW j \in Parties,
         Incoming(Trusted, j, "RECEIVED_GC")
  PROVE  GcWaited(L, V, j)
<1>1. chan[<<j, Trusted>>] # <<>> /\ Head(chan[<<j, Trusted>>]).type = "RECEIVED_GC"
  BY DEF Incoming
<1>2. Protocol(Head(chan[<<j, Trusted>>]))
  BY <1>1 DEF Protocol
<1>3. Waits(L, V, U, j, Head(chan[<<j, Trusted>>]))
  BY <1>1, <1>2, HearsWaited
<1>4. ~L /\ garbled = prepared /\ garbled > 0 /\ V[j] = 2 * garbled - 1
  BY <1>1, <1>3 DEF Waits
<1>5. TrustedInv(L, V) /\ Counts(L, V)
  BY DEF Holds, TrustedPart
<1>6. garbled \in 1 .. Chunks /\ garbled # 0 /\ ~(garbled < prepared)
  <2>1. garbled \in 0 .. Chunks
    BY <1>5 DEF TrustedInv
  <2> QED BY <1>4, <2>1, NodeFacts
<1>7. slots
  BY <1>5, <1>6 DEF TrustedInv
<1>8. wires[Trusted] = <<>>
  BY <1>4, <1>5 DEF TrustedInv
<1>9. num_prf_received = 0 /\ received_gc_received = Cardinality(HasCircuit(V))
  BY <1>4, <1>5, <1>6 DEF Counts
<1> QED BY <1>1, <1>2, <1>4, <1>6, <1>7, <1>8, <1>9 DEF GcWaited

GcAside(j) ==
  UNCHANGED <<conn, starter, ready_nodes, num_identified, clientsmap, sending, stopping, listener, partyVars,
              sentTo, slots, prf_outputs, num_prf_received, garbled>>

(* The last answer, or not: with the next piece, with the launch, or with   *)
(* nothing to send.                                                         *)
AfterGc(L2, V2) ==
  \/ ~L2 /\ prepared' = prepared
  \/ ~L2 /\ prepared' = prepared + 1 /\ prepared < Chunks /\ \A p \in Parties : V2[p] = 2 * garbled
  \/ L2 /\ prepared' = prepared /\ prepared = Chunks /\ \A p \in Parties : V2[p] = 2 * garbled

LEMMA AnswersGc ==
  ASSUME NEW L, NEW hk, NEW hc, NEW U, NEW V, Holds(L, hk, hc, U, V), NEW j \in Parties,
         GcWaited(L, V, j), GcAside(j),
         NEW L2, NEW V2, V2[j] = V[j] + 1, \A p \in Parties : p # j => V2[p] = V[p],
         AfterGc(L2, V2)
  PROVE  Answers(L2, V2)'
<1>1. Answers(L, V)
  BY DEF Holds, TrustedPart
<1>2. PICK g : g = garbled
  OBVIOUS
<1>3. /\ ~L /\ g \in 1 .. Chunks /\ prepared = g /\ V[j] = 2 * g - 1 /\ Chunks \in Nat
      /\ garbled' = g /\ prf_outputs' = prf_outputs /\ clientsmap' = clientsmap
      /\ prepared' = g \/ prepared' = g + 1
      /\ L2 => prepared' = Chunks /\ g = Chunks /\ \A p \in Parties : V2[p] = 2 * g
      /\ ~L2 /\ prepared' = g + 1 => \A p \in Parties : V2[p] = 2 * g
  BY <1>2, NodeFacts DEF GcWaited, GcAside, AfterGc
<1>4. ASSUME NEW p \in Parties
      PROVE  /\ L2 => V2[p] \in {2 * Chunks, 2 * Chunks + 1}
             /\ ~L2 /\ garbled' < prepared' => V2[p] \in {2 * garbled', 2 * garbled' + 1}
             /\ ~L2 /\ garbled' = prepared' /\ garbled' > 0 =>
                  V2[p] \in {2 * garbled' - 1, 2 * garbled'}
             /\ prepared' = 0 => V2[p] = 0
             /\ V2[p] > 0 => clientsmap'[<<Trusted, p>>] = p
             /\ \A k \in Nat : V2[p] \in {2 * k - 1, 2 * k} /\ k <= Chunks => prf_outputs'[p] = k
  <2>1. V[p] \in {2 * g - 1, 2 * g} /\ (V[p] > 0 => clientsmap[<<Trusted, p>>] = p)
    <3>1. g > 0
      BY <1>3
    <3> QED BY <1>1, <1>2, <1>3, <3>1 DEF Answers
  <2>2. V2[p] = IF p = j THEN 2 * g ELSE V[p]
    BY <1>3
  <2>3. V2[p] \in {2 * g - 1, 2 * g} /\ g > 0 /\ V[p] > 0
    BY <1>3, <2>1, <2>2
  <2>4. L2 => V2[p] \in {2 * Chunks, 2 * Chunks + 1}
    BY <1>3
  <2>5. ~L2 /\ garbled' < prepared' => V2[p] \in {2 * garbled', 2 * garbled' + 1}
    BY <1>3
  <2>6. ASSUME NEW k \in Nat, V2[p] \in {2 * k - 1, 2 * k}, k <= Chunks PROVE prf_outputs'[p] = k
    <3>1. k = g
      BY <1>3, <2>3, <2>6
    <3>2. \A i \in Nat : V[p] \in {2 * i - 1, 2 * i} /\ i <= Chunks => prf_outputs[p] = i
      BY <1>1 DEF Answers
    <3>3. prf_outputs[p] = k
      BY <2>1, <2>6, <3>1, <3>2
    <3> QED BY <1>3, <3>3
  <2>7. prepared' # 0
    BY <1>3
  <2>8. V2[p] > 0 => clientsmap'[<<Trusted, p>>] = p
    BY <1>3, <2>1, <2>3
  <2> QED BY <1>3, <2>3, <2>4, <2>5, <2>6, <2>7, <2>8
<1>5. L2 => prepared' = Chunks /\ garbled' = Chunks
  BY <1>3
<1> QED BY <1>4, <1>5 DEF Answers

LEMMA TrustedInvGc ==
  ASSUME NEW L, NEW hk, NEW hc, NEW U, NEW V, Holds(L, hk, hc, U, V), NEW j \in Parties,
         GcWaited(L, V, j), GcAside(j), NEW L2, NEW V2,
         \/ prepared' = prepared /\ wires' = wires
         \/ prepared < Chunks /\ prepared' = prepared + 1 /\ wires'[Trusted] = <<prepared + 1>>
  PROVE  TrustedInv(L2, V2)'
<1>1. TrustedInv(L, V)
  BY DEF Holds, TrustedPart
<1>2. PICK g : g = garbled
  OBVIOUS
<1>3. /\ g \in 1 .. Chunks /\ prepared = g /\ Chunks \in Nat /\ wires[Trusted] = <<>>
      /\ garbled' = g /\ slots' = slots /\ slots /\ sentTo' = sentTo /\ listener' = listener
      /\ prf_outputs' = prf_outputs
  BY <1>2, NodeFacts DEF GcWaited, GcAside
<1>4. \/ prepared' = g /\ wires' = wires
      \/ g < Chunks /\ prepared' = g + 1 /\ wires'[Trusted] = <<g + 1>>
  BY <1>2, <1>3
<1>5. /\ prepared' \in 0 .. Chunks /\ garbled' \in 0 .. Chunks
      /\ garbled' <= prepared' /\ prepared' <= garbled' + 1
      /\ prepared' = g + 1 => garbled' # prepared'
      /\ prepared' > 0 /\ prepared' # 0
  BY <1>3, <1>4
<1>6. wires'[Trusted] = IF garbled' = prepared' THEN <<>> ELSE <<prepared'>>
  BY <1>3, <1>4, <1>5
<1>7. \A p \in Parties : listener'[<<Trusted, p>>] # "sending"
  BY <1>1, <1>3 DEF TrustedInv
<1> QED BY <1>1, <1>3, <1>5, <1>6, <1>7 DEF TrustedInv

(* Not the last of them.                                                    *)
LEMMA FirstGcKeeps ==
  ASSUME NEW L, NEW hk, NEW hc, NEW U, NEW V, Holds(L, hk, hc, U, V), NEW j \in Parties,
         GcWaited(L, V, j), GcAside(j),
         received_gc_received + 1 # N, received_gc_received' = received_gc_received + 1,
         Take(Trusted, j), prepared' = prepared, wires' = wires
  PROVE  IInv'
<1>1. PICK V2 : V2 = [V EXCEPT ![j] = @ + 1]
  OBVIOUS
<1>2. WitnessTypes(L, hk, hc, U, V) /\ Functions /\ TrustedPart(L, V)
  BY DEF Holds
<1>3. /\ WitnessTypes(L, hk, hc, U, V2) /\ V2[j] = V[j] + 1
      /\ \A p \in Parties : p # j => V2[p] = V[p]
  BY <1>1, <1>2 DEF WitnessTypes
<1>4. PICK ms : ms = [p \in Parties |-> <<>>]
  OBVIOUS
<1>5. TrustedQueues(j, ms)
  BY <1>4, TakeQueues
<1>6. PICK s : s = 6 * garbled
  OBVIOUS
<1>7. s \in Nat /\ s + 0 = s
  BY <1>6, NodeFacts DEF GcWaited
<1>8. /\ ~L /\ prepared = garbled /\ prepared' = garbled' /\ garbled' = garbled
      /\ chan[<<j, Trusted>>] # <<>> /\ Protocol(Head(chan[<<j, Trusted>>]))
  BY DEF GcWaited, GcAside
<1>9. ASSUME NEW p \in Parties
      PROVE  /\ SentDown(L, p) = s /\ SentDown(L, p)' = s + 0
             /\ Continues(ms[p], s) /\ Len(ms[p]) = 0
  <2>1. SentDown(L, p) = s
    BY <1>6, <1>8 DEF SentDown
  <2>2. SentDown(L, p)' = s
    BY <1>6, <1>8 DEF SentDown
  <2>3. ms[p] = <<>>
    BY <1>4
  <2> QED BY <1>7, <2>1, <2>2, <2>3, ContinuesNothing
<1>10. /\ \A p \in Parties : ChannelInv(L, hk, hc, U, V2, p)'
       /\ \A c \in Connections : NoNoise(c)
  <2>1. QueuedBy(L, L, ms, s, 0)
    BY <1>9 DEF QueuedBy
  <2>2. ChannelsKept(L, hk, hc, U, V2)
    BY <1>3, <1>5, <1>7, <1>8, <2>1, QueuesKeep
  <2> QED BY <2>2 DEF ChannelsKept
<1>11. Answers(L, V2)'
  BY <1>3, <1>8, AnswersGc DEF AfterGc
<1>12. Counts(L, V2)'
  <2>1. garbled' = prepared' /\ garbled' > 0 /\ ~(garbled' < prepared')
    BY NodeFacts DEF GcWaited, GcAside
  <2>2. /\ HasCircuit(V2)' = HasCircuit(V) \cup {j} /\ j \notin HasCircuit(V)
    <3>1. V[j] # 2 * garbled /\ V2[j] = 2 * garbled
      BY <1>3, NodeFacts DEF GcWaited
    <3> QED BY <1>3, <1>8, <3>1 DEF HasCircuit
  <2>3. HasCircuit(V) \subseteq Parties
    BY DEF HasCircuit
  <2>4. PICK S, S2 : S = HasCircuit(V) /\ S2 = HasCircuit(V2)'
    OBVIOUS
  <2>5. /\ Cardinality(S) \in Nat /\ Cardinality(S2) = Cardinality(S) + 1 /\ Cardinality(S) < N
    BY <2>2, <2>3, <2>4, Counting
  <2>6. received_gc_received' = Cardinality(S2) /\ received_gc_received' < N
    BY <2>4, <2>5, NodeFacts DEF GcWaited
  <2>7. num_prf_received' = 0 /\ 0 < N
    BY NodeFacts DEF GcWaited, GcAside
  <2> QED BY <1>8, <2>1, <2>4, <2>6, <2>7 DEF Counts
<1>13. TrustedInv(L, V2)'
  BY TrustedInvGc
<1>14. Aside(j) /\ Functions'
  BY <1>2, <1>5, NodeFacts DEF Aside, Functions, GcAside, partyVars, TrustedQueues
<1>15. /\ stopping \subseteq stopping' /\ (stopping' # {} => L)
       /\ listener'[<<Trusted, j>>] \in {"stopping", "aborting"} => Trusted \in stopping'
       /\ prepared' > 0 => conn[Trusted] = "done"
  BY StoppingStays DEF GcAside
<1> QED BY <1>3, <1>5, <1>10, <1>11, <1>12, <1>13, <1>14, <1>15, TrustedKeeps
           DEF TrustedPart, TrustedQueues

(* The last: the parties are launched, or the next piece is sent.           *)
Launches(L2, ms, n) ==
  /\ L2 = TRUE /\ prepared = Chunks /\ prepared' = prepared /\ wires' = wires /\ n = 1
  /\ \A p \in Parties : ms[p] = <<Type("LAUNCH_ONLINE")>>
Prepares(L2, ms, n) ==
  /\ L2 = FALSE /\ prepared < Chunks /\ prepared' = prepared + 1 /\ n = 4
  /\ wires' = [wires EXCEPT ![Trusted] = Append(@, prepared + 1)]
  /\ \A p \in Parties : ms[p] = <<Type("DELTA"), Msg("KEYS", prepared + 1),
                                  Msg("MASK_INPUTS", prepared + 1), Msg("MASK_OUTPUT", prepared + 1)>>

LEMMA GcContinues ==
  ASSUME NEW L, NEW hk, NEW hc, NEW U, NEW V, Holds(L, hk, hc, U, V), NEW j \in Parties,
         GcWaited(L, V, j), GcAside(j), NEW L2, NEW ms, NEW n,
         Launches(L2, ms, n) \/ Prepares(L2, ms, n), NEW s, s = 6 * garbled
  PROVE  QueuedBy(L, L2, ms, s, n)
<1>1. PICK g : g = garbled
  OBVIOUS
<1>2. /\ ~L /\ g \in 1 .. Chunks /\ prepared = g /\ garbled = g /\ garbled' = g /\ slots /\ slots'
      /\ Chunks \in Nat /\ s = 6 * g /\ s \in Nat
  BY <1>1, NodeFacts DEF GcWaited, GcAside
<1>3. \A p \in Parties : SentDown(L, p) = s
  BY <1>2 DEF SentDown
<1>4. CASE Launches(L2, ms, n)
  <2>1. L2 /\ n = 1 /\ g = Chunks /\ s = 6 * Chunks
    BY <1>2, <1>4 DEF Launches
  <2>2. \A p \in Parties : SentDown(L2, p)' = s + n
    BY <2>1 DEF SentDown
  <2>3. Down[s] = Type("LAUNCH_ONLINE")
    BY <2>1, DownIs
  <2>4. Protocol(Type("LAUNCH_ONLINE"))
    BY DEF Protocol, Type
  <2>5. Continues(<<Type("LAUNCH_ONLINE")>>, s) /\ Len(<<Type("LAUNCH_ONLINE")>>) = 1
    BY <1>2, <2>3, <2>4, ContinuesBy
  <2>6. \A p \in Parties : ms[p] = <<Type("LAUNCH_ONLINE")>>
    BY <1>4 DEF Launches
  <2> QED BY <1>3, <2>1, <2>2, <2>5, <2>6 DEF QueuedBy
<1>5. CASE Prepares(L2, ms, n)
  <2>1. ~L2 /\ n = 4 /\ g < Chunks /\ prepared' = g + 1
    BY <1>2, <1>5 DEF Prepares
  <2>2. \A p \in Parties : SentDown(L2, p)' = s + n
    <3>1. g # g + 1 /\ s + n = 6 * g + 4
      BY <1>2, <2>1
    <3> QED BY <1>2, <2>1, <3>1 DEF SentDown
  <2>3. PICK a, b, c, d : /\ a = Type("DELTA") /\ b = Msg("KEYS", g + 1)
                          /\ c = Msg("MASK_INPUTS", g + 1) /\ d = Msg("MASK_OUTPUT", g + 1)
    OBVIOUS
  <2>4. Protocol(a) /\ Protocol(b) /\ Protocol(c) /\ Protocol(d)
    BY <2>3 DEF Protocol, Type, Msg
  <2>5. Down[s] = a /\ Down[s + 1] = b /\ Down[s + 2] = c /\ Down[s + 3] = d
    <3>1. /\ 6 * g + 0 # 6 * Chunks /\ 6 * g + 1 # 6 * Chunks
          /\ 6 * g + 2 # 6 * Chunks /\ 6 * g + 3 # 6 * Chunks
          /\ g \in Nat /\ s = 6 * g + 0
      BY <1>2, <2>1
    <3>2. /\ Down[6 * g + 0] = DownOf(g, 0) /\ Down[6 * g + 1] = DownOf(g, 1)
          /\ Down[6 * g + 2] = DownOf(g, 2) /\ Down[6 * g + 3] = DownOf(g, 3)
      BY <3>1, DownIs
    <3>3. s + 1 = 6 * g + 1 /\ s + 2 = 6 * g + 2 /\ s + 3 = 6 * g + 3
      BY <1>2
    <3>4. DownOf(g, 0) = a /\ DownOf(g, 1) = b /\ DownOf(g, 2) = c /\ DownOf(g, 3) = d
      BY <2>3 DEF DownOf
    <3> QED BY <3>1, <3>2, <3>3, <3>4
  <2>6. Continues(<<a, b, c, d>>, s) /\ Len(<<a, b, c, d>>) = 4
    BY <1>2, <2>4, <2>5, ContinuesBy
  <2>7. \A p \in Parties : ms[p] = <<a, b, c, d>>
    BY <1>2, <1>5, <2>3 DEF Prepares
  <2> QED BY <1>3, <2>1, <2>2, <2>6, <2>7 DEF QueuedBy
<1> QED BY <1>4, <1>5

LEMMA LastGcKeeps ==
  ASSUME NEW L, NEW hk, NEW hc, NEW U, NEW V, Holds(L, hk, hc, U, V), NEW j \in Parties,
         GcWaited(L, V, j), GcAside(j),
         received_gc_received + 1 = N, received_gc_received' = 0,
         NEW L2, NEW ms, NEW n, Launches(L2, ms, n) \/ Prepares(L2, ms, n),
         TrustedQueues(j, ms)
  PROVE  IInv'
<1>1. PICK V2 : V2 = [V EXCEPT ![j] = @ + 1]
  OBVIOUS
<1>2. WitnessTypes(L, hk, hc, U, V) /\ Functions /\ TrustedPart(L, V)
  BY DEF Holds
<1>3. /\ WitnessTypes(L2, hk, hc, U, V2) /\ V2[j] = V[j] + 1
      /\ \A p \in Parties : p # j => V2[p] = V[p]
  <2>1. L2 \in BOOLEAN
    BY DEF Launches, Prepares
  <2>2. /\ V \in [Parties -> Nat] /\ V2 \in [Parties -> Nat] /\ V2[j] = V[j] + 1
        /\ \A p \in Parties : p # j => V2[p] = V[p]
    BY <1>1, <1>2 DEF WitnessTypes
  <2> QED BY <1>2, <2>1, <2>2 DEF WitnessTypes
<1>4. PICK g : g = garbled
  OBVIOUS
<1>5. g \in 1 .. Chunks /\ prepared = g /\ garbled' = g /\ ~L /\ g \in Nat /\ Chunks \in Nat
  BY <1>4, NodeFacts DEF GcWaited, GcAside
<1>6. \A p \in Parties : V2[p] = 2 * g
  <2>0. V[j] # 2 * g /\ V2[j] = 2 * g
    BY <1>3, <1>4, <1>5 DEF GcWaited
  <2>1. HasCircuit(V) \subseteq Parties /\ j \notin HasCircuit(V)
    BY <1>4, <2>0 DEF HasCircuit
  <2>2. Cardinality(HasCircuit(V)) + 1 = N
    BY DEF GcWaited
  <2>3. PICK S : S = HasCircuit(V)
    OBVIOUS
  <2>4. S \cup {j} = Parties
    BY <2>1, <2>2, <2>3, Counting
  <2>5. ASSUME NEW p \in Parties, p # j PROVE V2[p] = 2 * g
    BY <1>3, <1>4, <2>3, <2>4, <2>5 DEF HasCircuit
  <2> QED BY <2>0, <2>5
<1>7. Answers(L2, V2)'
  <2>1. AfterGc(L2, V2)
    BY <1>4, <1>6 DEF AfterGc, Launches, Prepares
  <2> QED BY <1>3, <2>1, AnswersGc
<1>8. TrustedInv(L2, V2)'
  <2>1. ASSUME Prepares(L2, ms, n) PROVE wires'[Trusted] = <<prepared + 1>>
    <3>1. wires[Trusted] = <<>> /\ wires'[Trusted] = Append(wires[Trusted], prepared + 1)
      BY <1>2, <2>1, NodeFacts DEF Functions, Prepares, GcWaited
    <3> QED BY <3>1
  <2>2. \/ prepared' = prepared /\ wires' = wires
        \/ prepared < Chunks /\ prepared' = prepared + 1 /\ wires'[Trusted] = <<prepared + 1>>
    BY <2>1 DEF Launches, Prepares
  <2> QED BY <2>2, TrustedInvGc
<1>9. Counts(L2, V2)'
  <2>1. num_prf_received' = 0 /\ received_gc_received' = 0 /\ 0 < N
    BY NodeFacts DEF GcWaited, GcAside
  <2>2. SentPrf(V2)' = {}
    <3>1. 2 * g # 2 * g + 1
      BY <1>5
    <3> QED BY <1>5, <1>6, <3>1 DEF SentPrf
  <2>3. ~L2 => garbled' # prepared'
    <3>1. ~L2 => prepared' = g + 1
      BY <1>5 DEF Launches, Prepares
    <3> QED BY <1>5, <3>1
  <2> QED BY <2>1, <2>2, <2>3, FS_EmptySet DEF Counts
<1>10. PICK s : s = 6 * garbled
  OBVIOUS
<1>11. s \in Nat /\ n \in Nat
  BY <1>4, <1>5, <1>10 DEF Launches, Prepares
<1>12. /\ \A p \in Parties : ChannelInv(L2, hk, hc, U, V2, p)'
       /\ \A c \in Connections : NoNoise(c)
  <2>1. QueuedBy(L, L2, ms, s, n)
    BY <1>10, GcContinues
  <2>2. chan[<<j, Trusted>>] # <<>> /\ Protocol(Head(chan[<<j, Trusted>>]))
    BY DEF GcWaited
  <2>3. ChannelsKept(L2, hk, hc, U, V2)
    BY <1>3, <1>11, <2>1, <2>2, QueuesKeep
  <2> QED BY <2>3 DEF ChannelsKept
<1>13. Aside(j) /\ Functions'
  <2>1. (\A p \in Parties : wires'[p] = wires[p]) /\ DOMAIN wires' = Nodes
    BY <1>2, NodeFacts DEF Functions, Launches, Prepares
  <2> QED BY <1>2, <2>1, NodeFacts DEF Aside, Functions, GcAside, partyVars, TrustedQueues
<1>14. /\ stopping \subseteq stopping' /\ (stopping' # {} => L)
       /\ listener'[<<Trusted, j>>] \in {"stopping", "aborting"} => Trusted \in stopping'
       /\ prepared > 0 => conn[Trusted] = "done"
  BY StoppingStays DEF GcAside
<1>15. prepared > 0
  BY <1>5
<1> QED BY <1>3, <1>5, <1>7, <1>8, <1>9, <1>12, <1>13, <1>14, <1>15, TrustedKeeps
           DEF TrustedPart, TrustedQueues

LEMMA HearReceivedGcKeeps ==
  ASSUME NEW L, NEW hk, NEW hc, NEW U, NEW V, Holds(L, hk, hc, U, V), NEW j \in Parties,
         HearReceivedGc(j)
  PROVE  IInv'
<1>1. Incoming(Trusted, j, "RECEIVED_GC") /\ GcAside(j)
  BY DEF HearReceivedGc, GcAside, startup, ending
<1>2. GcWaited(L, V, j)
  BY <1>1, HearsGc
<1>3. CASE ~LastReceivedGc
  <2>1. /\ received_gc_received' = received_gc_received + 1 /\ Take(Trusted, j)
        /\ prepared' = prepared /\ wires' = wires
    BY <1>3 DEF HearReceivedGc
  <2> QED BY <1>1, <1>2, <1>3, <2>1, FirstGcKeeps DEF LastReceivedGc
<1>4. CASE LastReceivedGc
  <2>1. PICK r : r = Rest(Trusted, j)
    OBVIOUS
  <2>2. /\ received_gc_received' = 0
        /\ Send(r, Trusted, NextPiece)
        /\ prepared' = IF DoneFilling THEN prepared ELSE prepared + 1
        /\ wires' = IF DoneFilling THEN wires ELSE [wires EXCEPT ![Trusted] = Append(@, prepared + 1)]
    BY <1>4, <2>1 DEF HearReceivedGc
  <2>3. PICK ms : ms = NextPiece
    OBVIOUS
  <2>4. /\ chan' = [d \in Connections |-> IF d[1] = Trusted /\ d \in sending
                                          THEN r[d] \o ms[d[2]] ELSE r[d]]
        /\ {i \in Others(Trusted) : <<Trusted, i>> \notin sending} = {} => lost' = lost
    <3>1. chan' = [d \in Connections |-> IF d[1] = Trusted /\ d \in sending
                                         THEN r[d] \o ms[d[2]] ELSE r[d]]
      BY <2>2, <2>3 DEF Send
    <3>2. {i \in Others(Trusted) : <<Trusted, i>> \notin sending} = {} => lost' = lost
      BY <2>2 DEF Send
    <3> QED BY <3>1, <3>2
  <2>5. TrustedQueues(j, ms)
    BY <1>2, <2>1, <2>4, SendRest DEF GcWaited
  <2>6. CASE DoneFilling
    <3>1. ms = [k \in Others(Trusted) |-> <<Type("LAUNCH_ONLINE")>>]
      BY <2>3, <2>6 DEF NextPiece, ToAll
    <3>2. \A p \in Parties : ms[p] = <<Type("LAUNCH_ONLINE")>>
      BY <3>1, NodeFacts
    <3>3. Launches(TRUE, ms, 1)
      BY <2>2, <2>6, <3>2 DEF Launches, DoneFilling
    <3> QED BY <1>1, <1>2, <1>4, <2>2, <2>5, <3>3, LastGcKeeps DEF LastReceivedGc
  <2>7. CASE ~DoneFilling
    <3>1. \A p \in Parties : ms[p] = <<Type("DELTA")>> \o Randomness(prepared + 1)
                                      \o <<Msg("MASK_OUTPUT", prepared + 1)>>
      BY <2>3, <2>7 DEF NextPiece
    <3>2. PICK a, b, c, d : /\ a = Type("DELTA") /\ b = Msg("KEYS", prepared + 1)
                            /\ c = Msg("MASK_INPUTS", prepared + 1) /\ d = Msg("MASK_OUTPUT", prepared + 1)
      OBVIOUS
    <3>3. \A p \in Parties : ms[p] = <<a>> \o <<b, c>> \o <<d>>
      BY <3>1, <3>2 DEF Randomness
    <3>4. \A p \in Parties : ms[p] = <<a, b, c, d>>
      BY <3>3, SmallSeqs
    <3>5. prepared < Chunks
      <4>1. prepared \in 1 .. Chunks /\ prepared # Chunks
        BY <1>2, <2>7 DEF GcWaited, DoneFilling
      <4> QED BY <4>1, NodeFacts
    <3>6. Prepares(FALSE, ms, 4)
      BY <2>2, <2>7, <3>2, <3>4, <3>5 DEF Prepares
    <3> QED BY <1>1, <1>2, <1>4, <2>2, <2>5, <3>6, LastGcKeeps DEF LastReceivedGc
  <2> QED BY <2>6, <2>7
<1> QED BY <1>3, <1>4

(* A party is done.                                                         *)
LEMMA HearDoneKeeps ==
  ASSUME NEW L, NEW hk, NEW hc, NEW U, NEW V, Holds(L, hk, hc, U, V), NEW j \in Parties,
         HearDone(j)
  PROVE  IInv'
<1>1. /\ Incoming(Trusted, j, "DONE") /\ Take(Trusted, j)
      /\ \/ stopping' = stopping \cup {Trusted} /\ listener' = [listener EXCEPT ![<<Trusted, j>>] = "stopping"]
         \/ stopping' = stopping /\ listener' = listener
      /\ UNCHANGED <<conn, starter, ready_nodes, num_identified, clientsmap, sending, prepared, sentTo, slots,
                     prf_outputs, num_prf_received, garbled, received_gc_received, partyVars, wires>>
  BY DEF HearDone, startup, filling
<1>2. WitnessTypes(L, hk, hc, U, V) /\ Functions /\ TrustedPart(L, V)
  BY DEF Holds
<1>3. chan[<<j, Trusted>>] # <<>> /\ Protocol(Head(chan[<<j, Trusted>>]))
  BY <1>1 DEF Incoming, Protocol
<1>4. L /\ V[j] = 2 * Chunks
  <2>1. Waits(L, V, U, j, Head(chan[<<j, Trusted>>]))
    BY <1>3, HearsWaited
  <2> QED BY <1>1, <2>1 DEF Waits, Incoming
<1>5. PICK V2 : V2 = [V EXCEPT ![j] = @ + 1]
  OBVIOUS
<1>6. /\ WitnessTypes(L, hk, hc, U, V2) /\ V2[j] = V[j] + 1
      /\ \A p \in Parties : p # j => V2[p] = V[p]
  BY <1>2, <1>5 DEF WitnessTypes
<1>7. prepared = Chunks /\ garbled = Chunks /\ slots /\ prepared > 0
  <2>1. prepared = Chunks /\ garbled = Chunks /\ slots
    BY <1>2, <1>4 DEF TrustedPart, Answers, TrustedInv
  <2> QED BY <2>1, NodeFacts
<1>8. Answers(L, V2)'
  <2>1. ASSUME NEW p \in Parties
        PROVE  /\ V2[p] \in {2 * Chunks, 2 * Chunks + 1}
               /\ V2[p] > 0 => clientsmap[<<Trusted, p>>] = p
               /\ \A k \in Nat : V2[p] \in {2 * k - 1, 2 * k} /\ k <= Chunks => prf_outputs[p] = k
    <3>1. CASE p = j
      <4>1. V2[p] = 2 * Chunks + 1 /\ V[j] > 0
        BY <1>4, <1>6, <3>1, NodeFacts
      <4>2. clientsmap[<<Trusted, j>>] = j
        BY <1>2, <4>1 DEF TrustedPart, Answers
      <4>3. ASSUME NEW k \in Nat, 2 * Chunks + 1 \in {2 * k - 1, 2 * k} PROVE ~(k <= Chunks)
        BY <4>3, NodeFacts
      <4> QED BY <3>1, <4>1, <4>2, <4>3
    <3>2. CASE p # j
      <4>1. V2[p] = V[p]
        BY <1>6, <3>2
      <4> QED BY <1>2, <1>4, <4>1 DEF TrustedPart, Answers
    <3> QED BY <3>1, <3>2
  <2> QED BY <1>1, <1>4, <1>7, <2>1 DEF Answers
<1>9. Counts(L, V2)'
  BY <1>1, <1>2, <1>4 DEF TrustedPart, Counts
<1>10. TrustedInv(L, V2)'
  <2>1. \A p \in Parties : listener'[<<Trusted, p>>] = "sending" => listener[<<Trusted, p>>] = "sending"
    BY <1>1, <1>2, NodeFacts DEF Functions
  <2> QED BY <1>1, <1>2, <1>7, <2>1 DEF TrustedPart, TrustedInv
<1>11. PICK ms : ms = [p \in Parties |-> <<>>]
  OBVIOUS
<1>12. TrustedQueues(j, ms)
  BY <1>1, <1>11, TakeQueues
<1>13. PICK s : s = 6 * Chunks + 1
  OBVIOUS
<1>14. s \in Nat /\ s + 0 = s
  BY <1>13, NodeFacts
<1>15. /\ \A p \in Parties : ChannelInv(L, hk, hc, U, V2, p)'
       /\ \A c \in Connections : NoNoise(c)
  <2>1. ASSUME NEW p \in Parties
        PROVE  /\ SentDown(L, p) = s /\ SentDown(L, p)' = s + 0
               /\ Continues(ms[p], s) /\ Len(ms[p]) = 0
    <3>1. SentDown(L, p) = s /\ SentDown(L, p)' = s
      BY <1>4, <1>13 DEF SentDown
    <3> QED BY <1>11, <1>14, <3>1, ContinuesNothing
  <2>2. QueuedBy(L, L, ms, s, 0)
    BY <2>1 DEF QueuedBy
  <2>3. ChannelsKept(L, hk, hc, U, V2)
    BY <1>3, <1>6, <1>12, <1>14, <2>2, QueuesKeep
  <2> QED BY <2>3 DEF ChannelsKept
<1>16. Aside(j) /\ Functions'
  BY <1>1, <1>2, <1>12, NodeFacts DEF Aside, Functions, partyVars, TrustedQueues
<1>17. /\ stopping \subseteq stopping' /\ (stopping' # {} => L)
       /\ prepared' > 0 => conn[Trusted] = "done"
  BY <1>1, <1>4, StoppingStays
<1>18. listener'[<<Trusted, j>>] \in {"stopping", "aborting"} => Trusted \in stopping'
  <2>1. CASE stopping' = stopping \cup {Trusted}
    BY <2>1
  <2>2. CASE stopping' = stopping /\ listener' = listener
    BY <2>2, StoppingStays
  <2> QED BY <1>1, <2>1, <2>2
<1> QED BY <1>6, <1>8, <1>9, <1>10, <1>12, <1>15, <1>16, <1>17, <1>18, TrustedKeeps
           DEF TrustedPart, TrustedQueues

LEMMA TrustedStepKeeps ==
  ASSUME NEW L, NEW hk, NEW hc, NEW U, NEW V, Holds(L, hk, hc, U, V), TrustedStep
  PROVE  IInv'
<1>1. PICK j \in Parties : \/ NodeReady(j) \/ SendRandomness(j) \/ SendOutputMasks(j)
                           \/ HearPrf(j) \/ HearReceivedGc(j) \/ HearDone(j)
  BY DEF TrustedStep
<1> QED BY <1>1, NodeReadyKeeps, SendRandomnessKeeps, SendOutputMasksKeeps, HearPrfKeeps,
           HearReceivedGcKeeps, HearDoneKeeps

-----------------------------------------------------------------------------
(* The invariant holds at the start, and every step keeps it.               *)
LEMMA InitHolds == Init => IInv
<1> SUFFICES ASSUME Init PROVE IInv
  OBVIOUS
<1> DEFINE zero == [p \in Parties |-> 0]
<1>1. PICK hk, hc, U, V : hk = zero /\ hc = zero /\ U = zero /\ V = zero
  OBVIOUS
<1>2. \A p \in Parties : hk[p] = 0 /\ hc[p] = 0 /\ U[p] = 0 /\ V[p] = 0
  BY <1>1
<1>3. WitnessTypes(FALSE, hk, hc, U, V)
  <2>1. 0 \in 0 .. Chunks /\ 0 \in 0 .. 5 /\ 0 \in Nat /\ 0 <= 1
    BY NodeFacts
  <2>2. hk \in [Parties -> 0 .. Chunks] /\ hc \in [Parties -> 0 .. 5] /\ U \in [Parties -> Nat] /\ V \in [Parties -> Nat]
    BY <1>1, <2>1
  <2> QED BY <1>2, <2>1, <2>2 DEF WitnessTypes
<1> HIDE DEF zero
<1>4. Functions
  BY DEF Init, NodesInit, Functions
<1>5. TrustedPart(FALSE, V)
  <2>1. prepared = 0 /\ garbled = 0 /\ sentTo = 0 /\ slots = FALSE /\ num_prf_received = 0
        /\ received_gc_received = 0 /\ prf_outputs = [p \in Parties |-> 0]
    BY DEF Init
  <2>2. Answers(FALSE, V)
    <3>1. ASSUME NEW p \in Parties, NEW k \in Nat, V[p] \in {2 * k - 1, 2 * k} PROVE prf_outputs[p] = k
      <4>1. k = 0
        BY <1>2, <3>1
      <4> QED BY <2>1, <4>1
    <3> QED BY <1>2, <2>1, <3>1 DEF Answers
  <2>3. Counts(FALSE, V)
    BY <2>1, NodeFacts DEF Counts
  <2>4. TrustedInv(FALSE, V)
    <3>1. wires[Trusted] = <<>>
      BY NodeFacts DEF Init
    <3>2. \A j \in Parties : listener[<<Trusted, j>>] = "receiving"
      BY NodeFacts DEF Init, NodesInit
    <3>3. 0 \in 0 .. Chunks /\ 0 \in 0 .. N /\ 0 <= 0 /\ 0 <= 0 + 1 /\ 0 <= 1 /\ prf_outputs \in [Parties -> Nat]
      BY <2>1, NodeFacts
    <3> QED BY <1>2, <2>1, <3>1, <3>2, <3>3 DEF TrustedInv
  <2> QED BY <2>2, <2>3, <2>4 DEF TrustedPart
<1>6. ASSUME NEW p \in Parties PROVE PartyInv(hk, hc, U, p)
  <2>1. /\ evaluated[p] = <<>> /\ wires[p] = <<>> /\ input_masks[p] = <<>> /\ output_masks[p] = <<>>
        /\ circuits[p] = <<>> /\ prfs[p] = 0 /\ spdz_wires[p] = 0
        /\ listener[<<p, Trusted>>] = "receiving"
    BY NodeFacts DEF Init, NodesInit
  <2>2. IsSeq(<<>>) /\ Len(<<>>) = 0
    BY SmallSeqs
  <2>3. More(hc, p, 2) = 0 /\ More(hc, p, 3) = 0 /\ More(hc, p, 4) = 0 /\ More(hc, p, 5) = 0
    BY <1>2 DEF More
  <2>4. ~Launched(hk, hc, p) /\ Heard(hk, hc, p) = 0 /\ ~IsDone(p)
    BY <1>2, <2>1, <2>2, NodeFacts DEF Launched, Heard, IsDone
  <2>5. Pieces(<<>>, 0, 0 + 0)
    BY <2>2 DEF Pieces
  <2>6. StoresInv(hk, hc, p)
    <3>1. 0 \in 0 .. Chunks /\ ~(0 > 0) /\ 0 - 0 + 0 = 0 /\ 1 .. 0 - 0 = {} /\ 1 .. 0 = {}
      BY NodeFacts
    <3> QED BY <1>2, <2>1, <2>2, <2>3, <2>4, <2>5, <3>1 DEF StoresInv
  <2> QED BY <1>2, <2>1, <2>3, <2>4, <2>6 DEF PartyInv
<1>7. \A c \in Connections : chan[c] = <<>>
  BY DEF Init, NodesInit
<1>8. ASSUME NEW p \in Parties PROVE ChannelInv(FALSE, hk, hc, U, V, p)
  <2>1. Heard(hk, hc, p) = 0
    BY <1>2 DEF Heard
  <2>2. SentDown(FALSE, p) = 0
    BY DEF Init, SentDown
  <2>3. chan[<<Trusted, p>>] = <<>> /\ chan[<<p, Trusted>>] = <<>>
    BY <1>7, NodeFacts
  <2>4. Carries(<<>>, Down, 0, 0) /\ Carries(<<>>, Up, 0, 0)
    BY CarriesNothing
  <2> QED BY <1>2, <2>1, <2>2, <2>3, <2>4 DEF ChannelInv
<1>9. NetPart(FALSE)
  <2>1. \A t : ~Inside(<<>>, t)
    BY SmallSeqs DEF Inside
  <2>2. NetChannels
    <3>1. \A j \in Parties : <<j, Trusted>> \in Connections
      BY NodeFacts
    <3> QED BY <1>7, <2>1, <3>1, SmallSeqs DEF NetChannels
  <2>3. NetRest(FALSE)
    <3>1. /\ ready_nodes = [i \in Nodes |-> {}] /\ num_identified = [i \in Nodes |-> 0] /\ prepared = 0
          /\ listener = [c \in Connections |-> "receiving"] /\ stopping = {} /\ sending = Connections
      BY DEF Init, NodesInit
    <3>2. num_identified[Trusted] = 0
      BY <3>1, NodeFacts
    <3>3. \A p \in Parties : clientsmap[<<Trusted, p>>] # p
      <4>1. clientsmap = [c \in Connections |-> Unmapped]
        BY DEF Init, NodesInit
      <4>2. \A p \in Parties : <<Trusted, p>> \in Connections
        BY NodeFacts
      <4>3. \A p \in Parties : p # Unmapped
        BY NodeFacts DEF Parties, Unmapped
      <4> QED BY <4>1, <4>2, <4>3
    <3> QED BY <3>1, <3>2, <3>3 DEF NetRest
  <2>4. NothingNeededLost
    BY DEF NothingNeededLost, Init, NodesInit
  <2> QED BY <2>2, <2>3, <2>4 DEF NetPart
<1>10. Holds(FALSE, hk, hc, U, V)
  BY <1>3, <1>4, <1>5, <1>6, <1>8, <1>9 DEF Holds
<1> QED BY <1>10 DEF IInv

LEMMA NextKeeps == IInv /\ [Next]_vars => IInv'
<1> SUFFICES ASSUME IInv, [Next]_vars PROVE IInv'
  OBVIOUS
<1>1. PICK L, hk, hc, U, V : Holds(L, hk, hc, U, V)
  BY DEF IInv
<1>2. CASE UNCHANGED vars
  BY <1>1, <1>2, UndefinedKeeps DEF vars
<1>3. CASE TrustedStep
  BY <1>1, <1>3, TrustedStepKeeps
<1>4. ASSUME NEW p \in Parties, PartyStep(p) PROVE IInv'
  BY <1>1, <1>4, PartyStepKeeps
<1>5. ASSUME NEW i \in Nodes, NodeStep(i), UNCHANGED <<trustedVars, partyVars, wires, undefined>>
      PROVE  IInv'
  <2>1. OthersKept
    BY <1>5 DEF OthersKept
  <2>2. Holds(L, hk, hc, U, V)'
    BY <1>1, <1>5, <2>1, NodeStepKeeps
  <2> QED BY <2>2 DEF IInv
<1> QED BY <1>2, <1>3, <1>4, <1>5 DEF Next

(* What the invariant says of the stores.                                   *)
LEMMA InvAligned == IInv => Aligned
<1> SUFFICES ASSUME IInv PROVE Aligned
  OBVIOUS
<1>1. PICK L, hk, hc, U, V : Holds(L, hk, hc, U, V)
  BY DEF IInv
<1>2. ASSUME NEW p \in Parties, NEW k \in DOMAIN evaluated[p]
      PROVE  evaluated[p][k] = [circuit |-> [code |-> k, wires |-> k, prfs |-> {k}],
                                inputs |-> k, outputs |-> k, keys |-> k]
  <2>1. StoresInv(hk, hc, p)
    BY <1>1 DEF Holds, PartyInv
  <2>2. IsSeq(evaluated[p])
    BY <2>1 DEF StoresInv
  <2>3. DOMAIN evaluated[p] = 1 .. Len(evaluated[p])
    BY <2>2, SeqDomain
  <2>4. \A i \in 1 .. Len(evaluated[p]) : evaluated[p][i] =
          [circuit |-> Circuit(i), inputs |-> i, outputs |-> i, keys |-> i]
    BY <2>1 DEF StoresInv
  <2> QED BY <1>2, <2>3, <2>4 DEF Circuit
<1> QED BY <1>2 DEF Aligned

LEMMA InvFilled == IInv => StoresFilled
<1> SUFFICES ASSUME IInv, NEW p \in Parties, listener[<<p, Trusted>>] = "evaluating",
                    Len(evaluated[p]) < Chunks
             PROVE  CanLoad(p) /\ spdz_wires[p] = Chunks /\ delta[p]
  BY DEF StoresFilled
<1>1. PICK L, hk, hc, U, V : Holds(L, hk, hc, U, V)
  BY DEF IInv
<1>2. PartyInv(hk, hc, U, p)
  BY <1>1 DEF Holds
<1>3. hk[p] = Chunks /\ hc[p] = 1
  BY <1>2 DEF PartyInv, Launched
<1>4. PICK e : e = Len(evaluated[p])
  OBVIOUS
<1>5. e \in 0 .. Chunks /\ e < Chunks /\ Chunks \in Nat
  BY <1>2, <1>4, NodeFacts DEF PartyInv, StoresInv
<1>6. More(hc, p, 2) = 0 /\ More(hc, p, 3) = 0 /\ More(hc, p, 4) = 0 /\ More(hc, p, 5) = 0
  BY <1>3 DEF More
<1>7. /\ Len(wires[p]) = Chunks - e /\ Len(input_masks[p]) = Chunks - e
      /\ Len(output_masks[p]) = Chunks - e /\ Len(circuits[p]) = Chunks - e + 1
  <2>1. /\ Len(wires[p]) = (hk[p] + 0) - e /\ Len(input_masks[p]) = (hk[p] + 0) - e
        /\ Len(output_masks[p]) = (hk[p] + 0) - e /\ Len(circuits[p]) = hk[p] - e + 1
    <3>1. StoresInv(hk, hc, p)
      BY <1>2 DEF PartyInv
    <3>2. /\ Pieces(wires[p], e, hk[p] + 0) /\ Pieces(input_masks[p], e, hk[p] + 0)
          /\ Pieces(output_masks[p], e, hk[p] + 0)
      BY <1>4, <1>6, <3>1 DEF StoresInv
    <3>3. Launched(hk, hc, p)
      BY <1>3 DEF Launched
    <3>4. Len(circuits[p]) = hk[p] - e + 1
      BY <1>4, <3>1, <3>3 DEF StoresInv
    <3> QED BY <3>2, <3>4 DEF Pieces
  <2> QED BY <1>3, <1>5, <2>1
<1>8. CanLoad(p)
  <2>1. \A s : s = <<>> => Len(s) = 0
    BY SmallSeqs
  <2>2. Chunks - e # 0 /\ Chunks - e + 1 # 0
    BY <1>5
  <2>3. /\ wires[p] # <<>> /\ input_masks[p] # <<>> /\ output_masks[p] # <<>> /\ circuits[p] # <<>>
    BY <1>7, <2>1, <2>2
  <2> QED BY <2>3 DEF CanLoad
<1>9. spdz_wires[p] = Chunks
  BY <1>2, <1>3, <1>5, <1>6 DEF PartyInv
<1>10. delta[p]
  <2>1. Heard(hk, hc, p) > 0
    BY <1>3, NodeFacts DEF Heard
  <2> QED BY <1>2, <2>1 DEF PartyInv
<1> QED BY <1>8, <1>9, <1>10

LEMMA InvNothingLost == IInv => NothingNeededLost
  BY DEF IInv, Holds, NetPart

(* The numbering of the messages holds in every state of the protocol.  It  *)
(* counts an answer as received when the trusted party has stored it, for a  *)
(* sender it has mapped to its number; one from a sender it takes for party  *)
(* 0 (Node.cpp:110, 115) sets undefined, and nothing follows.                *)
THEOREM Numbered == Spec => []IInv
  BY InitHolds, NextKeeps, PTL DEF Spec

(* Every piece is evaluated with circuit, masks and keys of that piece, which *)
(* was garbled from the wires and the PRFs of all parties for it; and a party *)
(* that evaluates never finds a store empty.                                 *)
THEOREM StoresAlwaysInStep == Spec => []StoresInStep
<1>1. IInv => StoresInStep
  BY InvAligned, InvFilled DEF StoresInStep
<1> QED BY <1>1, Numbered, PTL

(* A send thread that leaves early loses nothing that somebody waits for.    *)
THEOREM NeededArrives == Spec => []NothingNeededLost
  BY Numbered, InvNothingLost, PTL
=============================================================================
