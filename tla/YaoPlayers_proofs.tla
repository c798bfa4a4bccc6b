------------------------- MODULE YaoPlayers_proofs -------------------------
(***************************************************************************)
(* Proofs about YaoPlayers: the players cut the tape at the same places, so *)
(* the evaluator never runs out of its buffers, takes no message for        *)
(* another and leaves nothing over; and the two processes implement         *)
(* YaoGates.                                                                *)
(*                                                                         *)
(* The argument numbers the batches of the tape: batch k holds the entries  *)
(* st[k] .. st[k + 1] - 1, where st[k + 1] is the position at which the     *)
(* complexity counted from st[k] first reaches the limit, and the last      *)
(* batch, which may be empty, ends with the tape.  The garbler has ended n  *)
(* batches, the evaluator has received r and has begun to evaluate e.       *)
(***************************************************************************)
EXTENDS YaoPlayers, MsgStore, SequenceFacts, SequenceTheorems

-----------------------------------------------------------------------------
(* The inductive invariant.                                                 *)

(* What does not depend on where the batches end.                           *)
TypeInv ==
  /\ mode \in {"store", "continuous", "simulate"}
  /\ tape \in Tapes
  /\ gpc \in 1 .. Len(tape) + 1 /\ epc \in 1 .. Len(tape) + 1
  /\ gstate \in {"execute", "send_gates", "send_masks", "finish", "done"}
  /\ gbreak \in {"TIME_BREAK", "DONE_BREAK"}
  /\ estate \in {"wait", "peek", "receive_gates", "receive_masks", "pop", "execute", "done"}
  /\ gcomplexity \in Nat /\ ecomplexity \in Nat /\ gcounter \in Nat

(* The history: ANDs and reveals executed before each position.             *)
Counts ==
  /\ hctr \in [1 .. Len(tape) + 1 -> Nat] /\ hout \in [1 .. Len(tape) + 1 -> Nat]
  /\ hctr[gpc] = gcounter
  /\ \A p \in 1 .. gpc - 1 :
       /\ hctr[p + 1] = Complexity(tape[p], hctr[p])
       /\ hout[p + 1] = hout[p] + (IF tape[p].op = "reveal" THEN 1 ELSE 0)
  /\ \A p, q \in 1 .. gpc : p <= q => hctr[p] <= hctr[q] /\ hout[p] <= hout[q]

(* A batch of tape t that began at position a ends with entry p, by the     *)
(* complexity that h counts; and the two ways for one to end before b.      *)
Breaks(t, h, a, p) == TimeBreak(t[p], h[p] - h[a])
Unbroken(t, h, a, b) == \A p \in a .. b - 1 : ~ Breaks(t, h, a, p)
TimeCut(t, h, a, b) == a < b /\ Unbroken(t, h, a, b - 1) /\ Breaks(t, h, a, b - 1)
LastCut(t, h, a, b) == a <= b /\ Unbroken(t, h, a, b) /\ b = Len(t) + 1

(* Buffer s has one element for all that c counts in positions a .. b - 1.  *)
Holds(s, c, a, b) == IsSeq(s) /\ Len(s) = c[b] - c[a]

(* The batches the garbler has ended, and the one it is executing.          *)
Cuts(st, n) ==
  /\ n \in Nat /\ st \in [Nat -> Nat] /\ st[1] = 1
  /\ \A k \in 1 .. n + 1 : st[k] \in 1 .. gpc
  /\ \A k \in 1 .. n : IF k = n /\ gbreak = "DONE_BREAK"
                       THEN LastCut(tape, hctr, st[k], st[k + 1]) ELSE TimeCut(tape, hctr, st[k], st[k + 1])

GarblerInv(st, n) ==
  /\ Cuts(st, n)
  /\ gstate = "execute" =>
       /\ gbreak = "TIME_BREAK"
       /\ Unbroken(tape, hctr, st[n + 1], gpc)
       /\ gcomplexity = hctr[gpc] - hctr[st[n + 1]]
       /\ Holds(ggates, hctr, st[n + 1], gpc) /\ Holds(gmasks, hout, st[n + 1], gpc)
  /\ gstate # "execute" => gcomplexity = 0 /\ n > 0 /\ st[n + 1] = gpc
  /\ gstate \in {"send_gates", "send_masks"} =>
       Holds(ggates, hctr, st[n], gpc) /\ Holds(gmasks, hout, st[n], gpc)
  /\ gstate \in {"finish", "done"} =>
       gbreak = "DONE_BREAK" /\ ggates = <<>> /\ gmasks = <<>>
  /\ gstate = "finish" => mode = "store"

(* Batches whose gates, and whose masks, have been sent or taken.           *)
GatesSent(n) == IF gstate = "send_gates" THEN n - 1 ELSE n
MasksSent(n) == IF gstate \in {"send_gates", "send_masks"} THEN n - 1 ELSE n
GatesTaken(r) == IF estate = "receive_masks" THEN r + 1 ELSE r

Receiving == estate \in {"peek", "receive_gates", "receive_masks"}
EndSent == IF mode = "store" /\ gstate = "done" /\ Receiving THEN 1 ELSE 0

(* Messages sent and taken, and where those of batch k are in between.      *)
Sent(n) == GatesSent(n) + MasksSent(n)
Taken(r) == GatesTaken(r) + r
GatesAt(k, r) == 2 * k - 1 - Taken(r)
MasksAt(k, r) == 2 * k - Taken(r)

Carries(mg, of, c, a, b) == mg.of = of /\ Holds(mg.data, c, a, b)

(* The connection: gates and masks in turn, one pair for every batch.       *)
ChanInv(st, n, r) ==
  /\ r \in Nat /\ GatesTaken(r) <= GatesSent(n) /\ r <= MasksSent(n)
  /\ IsSeq(chan)
  /\ Len(chan) = Sent(n) - Taken(r) + EndSent
  /\ \A k \in GatesTaken(r) + 1 .. GatesSent(n) :
       Carries(chan[GatesAt(k, r)], "gates", hctr, st[k], st[k + 1])
  /\ \A k \in r + 1 .. MasksSent(n) :
       Carries(chan[MasksAt(k, r)], "masks", hout, st[k], st[k + 1])
  /\ EndSent = 1 => chan[Len(chan)] = EndMarker

(* The evaluator between two batches, e of them evaluated.                  *)
Between(st, e) == epc = st[e + 1] /\ ecomplexity = 0

(* The evaluator within batch e.                                            *)
Within(st, e) ==
  /\ e > 0
  /\ epc \in st[e] .. st[e + 1]
  /\ Unbroken(tape, hctr, st[e], epc)
  /\ ecomplexity = hctr[epc] - hctr[st[e]]
  /\ Holds(egates, hctr, epc, st[e + 1]) /\ Holds(emasks, hout, epc, st[e + 1])

StoreInv(st, r, e) ==
  /\ IsSeq(gates_store) /\ IsSeq(output_masks_store)
  /\ Len(gates_store) = r - e /\ Len(output_masks_store) = r - e
  /\ \A k \in 1 .. r - e : /\ Holds(gates_store[k], hctr, st[e + k], st[e + k + 1])
                           /\ Holds(output_masks_store[k], hout, st[e + k], st[e + k + 1])

EvaluatorInv(st, n, r, e) ==
  /\ e \in 0 .. r
  /\ StoreInv(st, r, e)
  /\ IsSeq(egates) /\ IsSeq(emasks)
  /\ estate # "wait"
  /\ estate \in {"execute", "done"} => Within(st, e)
  /\ estate \notin {"execute", "done"} => Between(st, e)
  /\ estate = "receive_masks" => Holds(egates, hctr, st[r + 1], st[r + 2])
  /\ estate = "done" => epc = Len(tape) + 1
  /\ mode = "continuous" =>
       /\ e = r
       /\ estate \notin {"peek", "pop"}
       /\ estate = "receive_gates" => egates = <<>>
       /\ Receiving => emasks = <<>>
  /\ mode = "store" =>
       /\ Receiving => e = 0
       /\ ~ Receiving => chan = <<>> /\ r = n /\ gstate = "done"
       /\ estate = "receive_gates" => r < GatesSent(n)
       /\ estate = "pop" => e < n

(* One process, and buffers that are not cut at all.                        *)
SimulateInv ==
  /\ gstate \in {"execute", "done"} /\ estate \in {"wait", "execute", "done"}
  /\ chan = <<>> /\ gates_store = <<>> /\ output_masks_store = <<>>
  /\ estate = "wait" =>
       /\ epc = 1 /\ egates = <<>> /\ emasks = <<>> /\ ecomplexity = 0
       /\ Holds(ggates, hctr, epc, gpc) /\ Holds(gmasks, hout, epc, gpc)
  /\ estate # "wait" =>
       /\ gstate = "done" /\ ggates = <<>> /\ gmasks = <<>>
       /\ Holds(egates, hctr, epc, gpc) /\ Holds(emasks, hout, epc, gpc)
  /\ gstate = "done" => gpc = Len(tape) + 1
  /\ estate = "done" => epc = gpc

BatchesInv == \E st, n, r, e :
  GarblerInv(st, n) /\ ChanInv(st, n, r) /\ EvaluatorInv(st, n, r, e)

IInv ==
  /\ TypeInv
  /\ Counts
  /\ epc <= gpc
  /\ IF mode = "simulate" THEN SimulateInv ELSE BatchesInv

-----------------------------------------------------------------------------
(* What executing an entry adds to a player's buffers.                      *)

(* A tape of the program is a sequence of entries.                          *)
LEMMA TapeFacts ==
  ASSUME tape \in Tapes
  PROVE  Len(tape) \in Nat /\ DOMAIN tape = 1 .. Len(tape) /\ tape \in Seq(Entry)
  <1>1. tape \in Seq(Entry)
    BY TapesAssumption DEF WellFormed
  <1>2. QED
    BY <1>1

(* A gate is added for an AND and a mask for a reveal, and nothing else.    *)
LEMMA GarbleFacts ==
  ASSUME NEW e \in Entry, G!Garble(e), gcounter \in Nat, IsSeq(ggates), IsSeq(gmasks)
  PROVE  /\ gcounter' = Complexity(e, gcounter) /\ gcounter' \in Nat
         /\ IsSeq(ggates') /\ Len(ggates') = Len(ggates) + (gcounter' - gcounter)
         /\ IsSeq(gmasks')
         /\ Len(gmasks') = Len(gmasks) + (IF e.op = "reveal" THEN 1 ELSE 0)
  <1>0. Len(ggates) \in Nat /\ Len(gmasks) \in Nat
    BY LengthFacts
  <1>1. CASE G!GarbleLinear(e)
    <2>1. e.op \notin {"and", "reveal"} /\ UNCHANGED <<gcounter, ggates, gmasks>>
      BY <1>1 DEF G!GarbleLinear
    <2>2. QED
      BY <1>0, <2>1 DEF Complexity
  <1>2. CASE G!GarbleAnd(e)
    <2>1. PICK g : ggates' = Append(ggates, g)
      BY <1>2 DEF G!GarbleAnd
    <2>2. e.op = "and" /\ gcounter' = gcounter + 1 /\ gmasks' = gmasks
      BY <1>2 DEF G!GarbleAnd
    <2>3. IsSeq(ggates') /\ Len(ggates') = Len(ggates) + 1
      BY <2>1, AppendFacts
    <2>4. QED
      BY <1>0, <2>2, <2>3 DEF Complexity
  <1>3. CASE G!GarbleReveal(e)
    <2>1. /\ e.op = "reveal" /\ UNCHANGED <<gcounter, ggates>>
          /\ gmasks' = Append(gmasks, gmask[e.left])
      BY <1>3 DEF G!GarbleReveal
    <2>2. IsSeq(gmasks') /\ Len(gmasks') = Len(gmasks) + 1
      BY <2>1, AppendFacts
    <2>3. QED
      BY <1>0, <2>1, <2>2 DEF Complexity
  <1>4. QED
    BY <1>1, <1>2, <1>3 DEF G!Garble

(* The history of the garbler's counts grows by one position.               *)
LEMMA CountsGrow ==
  ASSUME TypeInv, Counts, GarblerExecute, IsSeq(ggates), IsSeq(gmasks)
  PROVE  /\ Counts'
         /\ gpc + 1 \in 1 .. Len(tape) + 1
         /\ \A p \in 1 .. gpc : hctr'[p] = hctr[p] /\ hout'[p] = hout[p]
         /\ hctr'[gpc + 1] = Complexity(tape[gpc], hctr[gpc])
         /\ Len(ggates') = Len(ggates) + (hctr'[gpc + 1] - hctr[gpc])
         /\ Len(gmasks') = Len(gmasks) + (hout'[gpc + 1] - hout[gpc])
         /\ hctr'[gpc + 1] \in Nat /\ hout'[gpc + 1] \in Nat
         /\ IsSeq(ggates') /\ IsSeq(gmasks')
  <1> DEFINE e == tape[gpc]
  <1>1. /\ gpc \in DOMAIN tape /\ G!Garble(e) /\ G!Remember
        /\ gpc' = gpc + 1 /\ tape' = tape
    BY DEF GarblerExecute
  <1>2. Len(tape) \in Nat /\ DOMAIN tape = 1 .. Len(tape) /\ e \in Entry
    BY <1>1, TapeFacts DEF TypeInv
  <1>3. gpc \in 1 .. Len(tape)
    BY <1>1, <1>2
  <1>4. gcounter \in Nat
    BY DEF TypeInv
  <1>5. /\ gcounter' = Complexity(e, gcounter) /\ gcounter' \in Nat
        /\ IsSeq(ggates') /\ Len(ggates') = Len(ggates) + (gcounter' - gcounter)
        /\ IsSeq(gmasks')
        /\ Len(gmasks') = Len(gmasks) + (IF e.op = "reveal" THEN 1 ELSE 0)
    BY <1>1, <1>2, <1>4, GarbleFacts
  <1>6. /\ hctr' = [hctr EXCEPT ![gpc + 1] = gcounter']
        /\ hout' = [hout EXCEPT ![gpc + 1] = hout[gpc] + (IF e.op = "reveal" THEN 1 ELSE 0)]
    BY <1>1 DEF G!Remember
  <1>7. /\ hctr \in [1 .. Len(tape) + 1 -> Nat] /\ hout \in [1 .. Len(tape) + 1 -> Nat]
        /\ hctr[gpc] = gcounter
        /\ \A p \in 1 .. gpc - 1 :
             /\ hctr[p + 1] = Complexity(tape[p], hctr[p])
             /\ hout[p + 1] = hout[p] + (IF tape[p].op = "reveal" THEN 1 ELSE 0)
        /\ \A p, q \in 1 .. gpc : p <= q => hctr[p] <= hctr[q] /\ hout[p] <= hout[q]
    BY DEF Counts
  <1>8. gpc + 1 \in 1 .. Len(tape) + 1
    BY <1>2, <1>3
  <1>9. /\ \A p \in 1 .. gpc : hctr'[p] = hctr[p] /\ hout'[p] = hout[p]
        /\ hctr'[gpc + 1] = gcounter'
        /\ hout'[gpc + 1] = hout[gpc] + (IF e.op = "reveal" THEN 1 ELSE 0)
    BY <1>2, <1>3, <1>6, <1>7
  <1>16. hout[gpc] \in Nat
    BY <1>2, <1>3, <1>7
  <1>10. hctr' \in [1 .. Len(tape) + 1 -> Nat] /\ hout' \in [1 .. Len(tape) + 1 -> Nat]
    <2>1. hout[gpc] + (IF e.op = "reveal" THEN 1 ELSE 0) \in Nat
      BY <1>16
    <2>2. hctr' \in [1 .. Len(tape) + 1 -> Nat]
      BY <1>5, <1>6, <1>7
    <2>3. hout' \in [1 .. Len(tape) + 1 -> Nat]
      BY <1>6, <1>7, <2>1
    <2>4. QED
      BY <2>2, <2>3
  <1>11. gcounter' >= gcounter /\ gpc \in Nat
    BY <1>3, <1>4, <1>5 DEF Complexity
  <1>12. \A p \in 1 .. gpc' - 1 :
           /\ hctr'[p + 1] = Complexity(tape[p], hctr'[p])
           /\ hout'[p + 1] = hout'[p] + (IF tape[p].op = "reveal" THEN 1 ELSE 0)
    <2> TAKE p \in 1 .. gpc' - 1
    <2>1. CASE p = gpc
      BY <1>3, <1>5, <1>7, <1>9, <2>1
    <2>2. CASE p # gpc
      <3>1. p \in 1 .. gpc - 1 /\ p + 1 \in 1 .. gpc /\ p \in 1 .. gpc
        BY <1>1, <1>11, <2>2
      <3>2. QED
        BY <1>7, <1>9, <3>1
    <2>3. QED
      BY <2>1, <2>2
  <1>13. \A p, q \in 1 .. gpc' : p <= q => hctr'[p] <= hctr'[q] /\ hout'[p] <= hout'[q]
    <2> SUFFICES ASSUME NEW p \in 1 .. gpc + 1, NEW q \in 1 .. gpc + 1, p <= q
                 PROVE  hctr'[p] <= hctr'[q] /\ hout'[p] <= hout'[q]
      BY <1>1
    <2>1. CASE q \in 1 .. gpc
      <3>1. p \in 1 .. gpc
        BY <2>1, <1>11
      <3>2. QED
        BY <1>7, <1>9, <2>1, <3>1
    <2>2. CASE q = gpc + 1 /\ p \in 1 .. gpc
      <3>1. hctr[p] <= hctr[gpc] /\ hout[p] <= hout[gpc]
        BY <1>3, <1>7, <2>2
      <3>2. hctr[p] \in Nat /\ hout[p] \in Nat /\ hout[gpc] \in Nat
        <4>1. /\ hctr \in [1 .. Len(tape) + 1 -> Nat] /\ hout \in [1 .. Len(tape) + 1 -> Nat]
          BY <1>7
        <4>2. p \in 1 .. Len(tape) + 1 /\ gpc \in 1 .. Len(tape) + 1
          BY <1>2, <1>3, <2>2
        <4>3. QED
          BY <4>1, <4>2
      <3>3. hctr'[p] = hctr[p] /\ hout'[p] = hout[p]
        BY <1>9, <2>2
      <3>4. hctr[p] <= gcounter'
        BY <1>4, <1>5, <1>7, <1>11, <3>1, <3>2, SMTT(30)
      <3>6. hout[p] <= hout'[gpc + 1]
        BY <1>9, <3>1, <3>2
      <3>5. QED
        BY <1>9, <2>2, <3>3, <3>4, <3>6
    <2>3. CASE q = gpc + 1 /\ p = gpc + 1
      BY <1>8, <1>10, <2>3
    <2>4. QED
      BY <1>11, <2>1, <2>2, <2>3
  <1>14. Counts'
    BY <1>1, <1>7, <1>9, <1>10, <1>12, <1>13 DEF Counts
  <1>15. hctr'[gpc + 1] \in Nat /\ hout'[gpc + 1] \in Nat
    BY <1>8, <1>10
  <1>17. Len(gmasks') = Len(gmasks) + (hout'[gpc + 1] - hout[gpc])
    BY <1>5, <1>9, <1>16
  <1>18. QED
    BY <1>5, <1>7, <1>8, <1>9, <1>14, <1>15, <1>17

(* Whether a batch ends depends on the counts within it only.               *)
LEMMA SameCuts ==
  ASSUME NEW t, NEW h, NEW g, NEW a \in Nat, NEW b \in Nat,
         \A p \in a .. b : g[p] = h[p]
  PROVE  /\ Unbroken(t, g, a, b) <=> Unbroken(t, h, a, b)
         /\ TimeCut(t, g, a, b) <=> TimeCut(t, h, a, b)
         /\ LastCut(t, g, a, b) <=> LastCut(t, h, a, b)
         /\ a <= b => \A s : Holds(s, g, a, b) <=> Holds(s, h, a, b)
  <1>1. \A p \in a .. b : Breaks(t, g, a, p) <=> Breaks(t, h, a, p)
    <2> TAKE p \in a .. b
    <2>1. a \in a .. b
      OBVIOUS
    <2>2. g[p] = h[p] /\ g[a] = h[a]
      BY <2>1
    <2>3. QED
      BY <2>2 DEF Breaks
  <1>2. Unbroken(t, g, a, b) <=> Unbroken(t, h, a, b)
    BY <1>1 DEF Unbroken
  <1>3. TimeCut(t, g, a, b) <=> TimeCut(t, h, a, b)
    BY <1>1 DEF TimeCut, Unbroken
  <1>4. QED
    BY <1>2, <1>3 DEF LastCut, Holds

(* The invariant for one numbering of the batches.                          *)
Joint(st, n, r, e) == GarblerInv(st, n) /\ ChanInv(st, n, r) /\ EvaluatorInv(st, n, r, e)

(* Two evaluator steps that leave the garbler alone.                        *)
LEMMA GarblerUntouched ==
  ASSUME NEW st, NEW n, GarblerInv(st, n), UNCHANGED <<mode, tape, garbler>>
  PROVE  GarblerInv(st, n)'
  <1>1. UNCHANGED <<mode, tape, gpc, gcounter, hctr, hout, gstate, gcomplexity, gbreak, ggates, gmasks>>
    BY DEF garbler, garbling
  <1>2. Cuts(st, n)'
    BY <1>1 DEF GarblerInv, Cuts
  <1>3. QED
    BY <1>1, <1>2 DEF GarblerInv

(* EvaluatorPeek                                                            *)
LEMMA PeekStep ==
  ASSUME TypeInv, mode # "simulate", NEW st, NEW n, NEW r, NEW e, Joint(st, n, r, e), EvaluatorPeek
  PROVE  Joint(st, n, r, e)'
  <1>1. /\ estate = "peek" /\ chan # <<>>
        /\ UNCHANGED <<mode, tape, garbler, evaluating, ecomplexity, egates, emasks, stores>>
    BY DEF EvaluatorPeek
  <1>2. GarblerInv(st, n) /\ ChanInv(st, n, r) /\ EvaluatorInv(st, n, r, e) /\ n \in Nat /\ r \in Nat
    BY DEF Joint, GarblerInv, Cuts, ChanInv
  <1>3. GarblerInv(st, n)'
    BY <1>1, <1>2, GarblerUntouched
  <1>4. /\ UNCHANGED <<mode, tape, epc, gpc, hctr, hout, gstate, gbreak, ecomplexity, egates, emasks>>
        /\ UNCHANGED <<gates_store, output_masks_store>>
    BY <1>1 DEF garbler, garbling, evaluating, stores
  <1>5. mode = "store"
    BY <1>1, <1>2 DEF EvaluatorInv, TypeInv
  <1>6. IsSeq(chan) /\ Len(chan) \in Nat /\ Len(chan) > 0 /\ Head(chan) = chan[1]
    BY <1>1, <1>2, LengthFacts, TailFacts DEF ChanInv
  <1>7. GatesTaken(r) = r /\ Receiving
    BY <1>1 DEF GatesTaken, Receiving
  <1>8. CASE r < GatesSent(n)
    <2>1. GatesSent(n) \in Nat
      BY <1>2, <1>8 DEF GatesSent
    <2>2. chan[1].of = "gates"
      <3>1. r + 1 \in GatesTaken(r) + 1 .. GatesSent(n)
        BY <1>2, <1>7, <1>8, <2>1
      <3>2. GatesAt(r + 1, r) = 1
        BY <1>2, <1>7 DEF GatesAt, Taken
      <3>3. Carries(chan[GatesAt(r + 1, r)], "gates", hctr, st[r + 1], st[r + 1 + 1])
        BY <1>2, <3>1 DEF ChanInv
      <3>4. QED
        BY <3>2, <3>3 DEF Carries
    <2>3. Head(chan) # EndMarker
      BY <1>6, <2>2 DEF EndMarker, Message
    <2>4. chan' = chan /\ estate' = "receive_gates"
      BY <2>3 DEF EvaluatorPeek
    <2>5. /\ GatesTaken(r)' = r /\ Receiving' /\ GatesSent(n)' = GatesSent(n)
          /\ MasksSent(n)' = MasksSent(n) /\ EndSent' = EndSent
      BY <1>4, <1>7, <2>4 DEF GatesTaken, Receiving, GatesSent, MasksSent, EndSent
    <2>6. ChanInv(st, n, r)'
      BY <1>2, <1>4, <1>7, <2>4, <2>5 DEF ChanInv, GatesAt, MasksAt, Taken, Sent
    <2>7. StoreInv(st, r, e)' /\ Between(st, e)'
      BY <1>1, <1>2, <1>4 DEF EvaluatorInv, StoreInv, Between
    <2>8. EvaluatorInv(st, n, r, e)'
      BY <1>1, <1>2, <1>4, <1>5, <1>7, <1>8, <2>4, <2>5, <2>7 DEF EvaluatorInv
    <2>9. QED
      BY <1>3, <2>6, <2>8 DEF Joint
  <1>9. CASE ~ r < GatesSent(n)
    <2>1. GatesSent(n) = r /\ MasksSent(n) = r
      BY <1>2, <1>7, <1>9 DEF ChanInv, GatesSent, MasksSent, GarblerInv
    <2>2. Len(chan) = EndSent
      BY <1>2, <1>6, <1>7, <2>1 DEF ChanInv, EndSent, Sent, Taken
    <2>3. EndSent = 1 /\ gstate = "done"
      BY <1>6, <2>2 DEF EndSent
    <2>4. Head(chan) = EndMarker /\ Len(chan) = 1
      BY <1>2, <1>6, <2>2, <2>3 DEF ChanInv
    <2>5. chan' = Tail(chan) /\ estate' = "pop"
      BY <2>4 DEF EvaluatorPeek
    <2>6. IsSeq(chan') /\ chan' = <<>>
      <3>1. IsSeq(Tail(chan)) /\ Len(Tail(chan)) = 0
        BY <1>1, <1>6, <2>4, TailFacts
      <3>2. QED
        BY <2>5, <3>1, LengthFacts
    <2>7. /\ GatesTaken(r)' = r /\ ~ Receiving' /\ GatesSent(n)' = n /\ n = r
          /\ MasksSent(n)' = n /\ EndSent' = 0
      BY <1>4, <2>1, <2>3, <2>5 DEF GatesTaken, Receiving, GatesSent, MasksSent, EndSent
    <2>8. ChanInv(st, n, r)'
      BY <1>2, <2>6, <2>7, EmptyFacts DEF ChanInv, Sent, Taken
    <2>9. StoreInv(st, r, e)' /\ Between(st, e)'
      BY <1>1, <1>2, <1>4 DEF EvaluatorInv, StoreInv, Between
    <2>10. e = 0 /\ n > 0
      BY <1>2, <1>5, <1>7, <2>3 DEF EvaluatorInv, GarblerInv
    <2>11. EvaluatorInv(st, n, r, e)'
      BY <1>2, <1>4, <1>5, <2>3, <2>5, <2>6, <2>7, <2>9, <2>10 DEF EvaluatorInv
    <2>12. QED
      BY <1>3, <2>8, <2>11 DEF Joint
  <1>10. QED
    BY <1>8, <1>9

(* The arithmetic behind the places of messages in the connection.          *)
LEMMA Places ==
  ASSUME NEW k \in Int, NEW gt \in Int, NEW r \in Nat, NEW gs \in Int, NEW ms \in Int,
         gt = r \/ gt = r + 1, ms = gs \/ ms = gs - 1
  PROVE  /\ k \in gt + 1 .. gs => 2 * k - 1 - (gt + r) \in 1 .. gs + ms - (gt + r)
         /\ k \in r + 1 .. ms => 2 * k - (gt + r) \in 1 .. gs + ms - (gt + r)
  OBVIOUS

(* Every message of a batch has its place in the connection.                *)
LEMMA ChanFacts ==
  ASSUME NEW st, NEW n, NEW r, GarblerInv(st, n), ChanInv(st, n, r)
  PROVE  /\ n \in Nat /\ r \in Nat /\ Taken(r) \in Nat
         /\ GatesTaken(r) = r \/ GatesTaken(r) = r + 1
         /\ GatesSent(n) \in Int /\ MasksSent(n) \in Int /\ Sent(n) \in Int
         /\ MasksSent(n) = GatesSent(n) \/ MasksSent(n) = GatesSent(n) - 1
         /\ GatesSent(n) = n \/ GatesSent(n) = n - 1
         /\ GatesTaken(r) <= GatesSent(n) /\ r <= MasksSent(n)
         /\ EndSent = 0 \/ EndSent = 1
         /\ IsSeq(chan) /\ Len(chan) \in Nat /\ Len(chan) = Sent(n) - Taken(r) + EndSent
         /\ \A k \in GatesTaken(r) + 1 .. GatesSent(n) :
              k \in Int /\ GatesAt(k, r) \in 1 .. Sent(n) - Taken(r)
         /\ \A k \in r + 1 .. MasksSent(n) : k \in Int /\ MasksAt(k, r) \in 1 .. Sent(n) - Taken(r)
  <1>1. n \in Nat /\ r \in Nat
    BY DEF GarblerInv, Cuts, ChanInv
  <1>2. (GatesTaken(r) = r \/ GatesTaken(r) = r + 1) /\ (EndSent = 0 \/ EndSent = 1)
    BY DEF GatesTaken, EndSent
  <1>3. /\ GatesSent(n) \in Int /\ MasksSent(n) \in Int
        /\ MasksSent(n) = GatesSent(n) \/ MasksSent(n) = GatesSent(n) - 1
        /\ GatesSent(n) = n \/ GatesSent(n) = n - 1
    BY <1>1 DEF GatesSent, MasksSent
  <1>4. /\ GatesTaken(r) <= GatesSent(n) /\ r <= MasksSent(n) /\ IsSeq(chan)
        /\ Len(chan) = Sent(n) - Taken(r) + EndSent
    BY DEF ChanInv
  <1>5. Len(chan) \in Nat
    BY <1>4, LengthFacts
  <1>6. Taken(r) \in Nat /\ Sent(n) \in Int /\ GatesTaken(r) \in Int
    BY <1>1, <1>2, <1>3 DEF Taken, Sent
  <1>7. \A k \in GatesTaken(r) + 1 .. GatesSent(n) :
          k \in Int /\ GatesAt(k, r) \in 1 .. Sent(n) - Taken(r)
    BY <1>1, <1>2, <1>3, <1>6, Places DEF GatesAt, Sent, Taken
  <1>8. \A k \in r + 1 .. MasksSent(n) : k \in Int /\ MasksAt(k, r) \in 1 .. Sent(n) - Taken(r)
    BY <1>1, <1>2, <1>3, <1>6, Places DEF MasksAt, Sent, Taken
  <1>9. QED
    BY <1>1, <1>2, <1>3, <1>4, <1>5, <1>6, <1>7, <1>8

(* The first message is taken: the others move up, in order.                *)
LEMMA ChanShift ==
  ASSUME NEW st, NEW n, NEW r, GarblerInv(st, n), ChanInv(st, n, r), chan # <<>>, chan' = Tail(chan),
         NEW s \in Nat, s <= MasksSent(n), GatesTaken(r) <= GatesTaken(s)', r <= s,
         Taken(s)' = Taken(r) + 1, GatesTaken(s)' <= GatesSent(n),
         GatesSent(n)' = GatesSent(n), MasksSent(n)' = MasksSent(n), EndSent' = EndSent,
         hctr' = hctr, hout' = hout, GatesTaken(s)' \in Nat
  PROVE  ChanInv(st, n, s)'
  <1>1. /\ n \in Nat /\ r \in Nat /\ Taken(r) \in Nat /\ Sent(n) \in Int
        /\ GatesSent(n) \in Int /\ MasksSent(n) \in Int
        /\ EndSent = 0 \/ EndSent = 1
        /\ GatesTaken(r) = r \/ GatesTaken(r) = r + 1
        /\ IsSeq(chan) /\ Len(chan) \in Nat /\ Len(chan) = Sent(n) - Taken(r) + EndSent
        /\ \A k \in GatesTaken(r) + 1 .. GatesSent(n) :
             k \in Int /\ GatesAt(k, r) \in 1 .. Sent(n) - Taken(r)
        /\ \A k \in r + 1 .. MasksSent(n) : k \in Int /\ MasksAt(k, r) \in 1 .. Sent(n) - Taken(r)
    BY ChanFacts
  <1>2. /\ IsSeq(chan') /\ Len(chan') = Len(chan) - 1 /\ Len(chan') \in Nat
        /\ \A k \in 1 .. Len(chan) - 1 : chan'[k] = chan[k + 1]
    BY <1>1, TailFacts, LengthFacts
  <1>3. Sent(n)' = Sent(n)
    BY DEF Sent
  <1>0. Taken(r) \in Nat /\ Taken(s)' = Taken(r) + 1
    BY <1>1
  <1>4. Sent(n) - Taken(r) >= 1 /\ Sent(n) - Taken(r) <= Len(chan)
    <2>1. Sent(n) = GatesSent(n) + MasksSent(n) /\ Taken(s)' = GatesTaken(s)' + s
      BY DEF Sent, Taken
    <2>2. QED
      BY <1>1, <2>1, SMTT(30)
  <1>5. \A k \in GatesTaken(s)' + 1 .. GatesSent(n) :
          Carries(chan'[GatesAt(k, s)'], "gates", hctr, st[k], st[k + 1])
    <2> SUFFICES ASSUME NEW k \in GatesTaken(s)' + 1 .. GatesSent(n)
                 PROVE  Carries(chan'[GatesAt(k, s)'], "gates", hctr, st[k], st[k + 1])
      OBVIOUS
    <2>1. k \in GatesTaken(r) + 1 .. GatesSent(n) /\ k \in Int
      BY <1>1, SMTT(30)
    <2>2. GatesAt(k, r) = 2 * k - 1 - Taken(r) /\ GatesAt(k, s)' = 2 * k - 1 - Taken(s)'
      BY DEF GatesAt
    <2>3. GatesAt(k, s)' + 1 = GatesAt(k, r) /\ GatesAt(k, s)' \in Int
      BY <1>0, <2>1, <2>2
    <2>4. GatesAt(k, s)' >= 1
      <3>1. GatesTaken(s)' + 1 <= k /\ s + 1 <= k
        <4>1. GatesTaken(s)' = s \/ GatesTaken(s)' = s + 1
          BY DEF GatesTaken
        <4>2. QED
          BY <2>1, <4>1
      <3>2. Taken(s)' = GatesTaken(s)' + s
        BY DEF Taken
      <3>3. QED
        BY <2>1, <2>2, <3>1, <3>2
    <2>5. GatesAt(k, r) <= Len(chan)
      BY <1>1, <1>4, <2>1
    <2>6. GatesAt(k, s)' \in 1 .. Len(chan) - 1
      BY <1>1, <2>3, <2>4, <2>5, SMTT(30)
    <2>7. chan'[GatesAt(k, s)'] = chan[GatesAt(k, r)]
      BY <1>2, <2>3, <2>6
    <2>8. QED
      BY <2>1, <2>7 DEF ChanInv
  <1>6. \A k \in s + 1 .. MasksSent(n) :
          Carries(chan'[MasksAt(k, s)'], "masks", hout, st[k], st[k + 1])
    <2> SUFFICES ASSUME NEW k \in s + 1 .. MasksSent(n)
                 PROVE  Carries(chan'[MasksAt(k, s)'], "masks", hout, st[k], st[k + 1])
      OBVIOUS
    <2>1. k \in r + 1 .. MasksSent(n) /\ k \in Int
      BY <1>1
    <2>2. MasksAt(k, r) = 2 * k - Taken(r) /\ MasksAt(k, s)' = 2 * k - Taken(s)'
      BY DEF MasksAt
    <2>3. MasksAt(k, s)' + 1 = MasksAt(k, r) /\ MasksAt(k, s)' \in Int
      BY <1>0, <2>1, <2>2
    <2>4. MasksAt(k, s)' >= 1
      <3>1. s + 1 <= k /\ Taken(s)' <= s + s + 1
        <4>1. GatesTaken(s)' = s \/ GatesTaken(s)' = s + 1
          BY DEF GatesTaken
        <4>2. Taken(s)' = GatesTaken(s)' + s
          BY DEF Taken
        <4>3. QED
          BY <2>1, <4>1, <4>2
      <3>2. QED
        BY <1>1, <2>1, <2>2, <3>1, SMTT(30)
    <2>5. MasksAt(k, r) <= Len(chan)
      BY <1>1, <1>4, <2>1
    <2>6. MasksAt(k, s)' \in 1 .. Len(chan) - 1
      BY <1>1, <2>3, <2>4, <2>5, SMTT(30)
    <2>7. chan'[MasksAt(k, s)'] = chan[MasksAt(k, r)]
      BY <1>2, <2>3, <2>6
    <2>8. QED
      BY <2>1, <2>7 DEF ChanInv
  <1>7. EndSent = 1 => chan'[Len(chan')] = EndMarker
    <2> SUFFICES ASSUME EndSent = 1 PROVE chan'[Len(chan')] = EndMarker
      OBVIOUS
    <2>1. Len(chan) >= 2
      BY <1>1, <1>4
    <2>2. Len(chan') \in 1 .. Len(chan) - 1 /\ Len(chan') + 1 = Len(chan)
      BY <1>1, <1>2, <2>1
    <2>3. chan[Len(chan)] = EndMarker
      BY DEF ChanInv
    <2>4. QED
      BY <1>2, <2>2, <2>3
  <1>8. Len(chan') = Sent(n) - Taken(s)' + EndSent
    BY <1>1, <1>2, SMTT(30)
  <1>9. QED
    BY <1>2, <1>3, <1>5, <1>6, <1>7, <1>8 DEF ChanInv

(* The types of the counts up to the position of the garbler.               *)
LEMMA CountTypes ==
  ASSUME TypeInv, Counts
  PROVE  /\ gpc \in Nat /\ gpc >= 1 /\ gpc \in 1 .. gpc /\ gpc <= Len(tape) + 1 /\ Len(tape) \in Nat
         /\ \A p \in 1 .. gpc : hctr[p] \in Nat /\ hout[p] \in Nat
  <1>1. Len(tape) \in Nat /\ gpc \in 1 .. Len(tape) + 1
    BY TapeFacts DEF TypeInv
  <1>2. \A p \in 1 .. gpc : hctr[p] \in Nat /\ hout[p] \in Nat
    BY <1>1 DEF Counts
  <1>3. QED
    BY <1>1, <1>2

(* Batches begin and end at positions that the garbler has reached.         *)
LEMMA CutFacts ==
  ASSUME TypeInv, Counts, NEW st, NEW n, Cuts(st, n), NEW k \in 1 .. n
  PROVE  /\ n \in Nat /\ k + 1 \in 1 .. n + 1 /\ k \in 1 .. n + 1
         /\ st[k] \in 1 .. gpc /\ st[k + 1] \in 1 .. gpc /\ st[k] <= st[k + 1]
         /\ gpc \in Nat /\ gpc <= Len(tape) + 1 /\ Len(tape) \in Nat
         /\ \A p \in 1 .. gpc : hctr[p] \in Nat /\ hout[p] \in Nat
         /\ \/ TimeCut(tape, hctr, st[k], st[k + 1])
            \/ k = n /\ gbreak = "DONE_BREAK" /\ LastCut(tape, hctr, st[k], st[k + 1])
         /\ k = n /\ gbreak = "DONE_BREAK" => LastCut(tape, hctr, st[k], st[k + 1])
  <1>1. /\ n \in Nat /\ \A j \in 1 .. n + 1 : st[j] \in 1 .. gpc
        /\ IF k = n /\ gbreak = "DONE_BREAK"
           THEN LastCut(tape, hctr, st[k], st[k + 1]) ELSE TimeCut(tape, hctr, st[k], st[k + 1])
    BY DEF Cuts
  <1>2. k + 1 \in 1 .. n + 1 /\ k \in 1 .. n + 1
    BY <1>1
  <1>3. Len(tape) \in Nat /\ gpc \in 1 .. Len(tape) + 1
    BY TapeFacts DEF TypeInv
  <1>4. st[k] \in 1 .. gpc /\ st[k + 1] \in 1 .. gpc
    BY <1>1, <1>2
  <1>5. st[k] <= st[k + 1]
    BY <1>1, <1>3, <1>4 DEF LastCut, TimeCut
  <1>6. \A p \in 1 .. gpc : hctr[p] \in Nat /\ hout[p] \in Nat
    BY <1>3, SMTT(30) DEF Counts
  <1>7. QED
    BY <1>1, <1>2, <1>3, <1>4, <1>5, <1>6

(* EvaluatorReceiveGates                                                    *)
LEMMA ReceiveGatesStep ==
  ASSUME TypeInv, mode # "simulate", NEW st, NEW n, NEW r, NEW e, Joint(st, n, r, e),
         EvaluatorReceiveGates
  PROVE  Joint(st, n, r, e)'
  <1>1. /\ estate = "receive_gates" /\ chan # <<>> /\ estate' = "receive_masks"
        /\ egates' = Head(chan).data /\ chan' = Tail(chan)
        /\ UNCHANGED <<mode, tape, garbler, evaluating, ecomplexity, emasks, stores>>
    BY DEF EvaluatorReceiveGates
  <1>2. GarblerInv(st, n) /\ ChanInv(st, n, r) /\ EvaluatorInv(st, n, r, e)
    BY DEF Joint
  <1>3. GarblerInv(st, n)'
    BY <1>1, <1>2, GarblerUntouched
  <1>4. /\ UNCHANGED <<mode, tape, epc, gpc, hctr, hout, gstate, gbreak, ecomplexity, emasks>>
        /\ UNCHANGED <<gates_store, output_masks_store>>
    BY <1>1 DEF garbler, garbling, evaluating, stores
  <1>5. /\ n \in Nat /\ r \in Nat
        /\ GatesSent(n) \in Int /\ MasksSent(n) \in Int
        /\ MasksSent(n) = GatesSent(n) \/ MasksSent(n) = GatesSent(n) - 1
        /\ r <= MasksSent(n) /\ GatesTaken(r) <= GatesSent(n)
        /\ Len(chan) \in Nat /\ IsSeq(chan) /\ Len(chan) = Sent(n) - Taken(r) + EndSent
    BY <1>2, ChanFacts
  <1>6. /\ GatesTaken(r) = r /\ Receiving
        /\ GatesTaken(r)' = r + 1 /\ Receiving' /\ GatesSent(n)' = GatesSent(n)
        /\ MasksSent(n)' = MasksSent(n) /\ EndSent' = EndSent
    BY <1>1, <1>4 DEF GatesTaken, Receiving, GatesSent, MasksSent, EndSent
  <1>7. Taken(r) = r + r /\ Taken(r)' = r + 1 + r /\ Sent(n) = GatesSent(n) + MasksSent(n)
    BY <1>6 DEF Taken, Sent
  <1>8. Len(chan) > 0 /\ Head(chan) = chan[1]
    BY <1>1, <1>5, LengthFacts, TailFacts
  <1>9. r < GatesSent(n)
    <2>1. CASE mode = "store"
      BY <1>1, <1>2, <2>1 DEF EvaluatorInv
    <2>2. CASE mode # "store"
      <3>1. EndSent = 0
        BY <2>2 DEF EndSent
      <3>2. QED
        BY <1>5, <1>7, <1>8, <3>1
    <2>3. QED
      BY <2>1, <2>2
  <1>10. Holds(egates', hctr, st[r + 1], st[r + 2])
    <2>1. r + 1 \in GatesTaken(r) + 1 .. GatesSent(n)
      BY <1>5, <1>6, <1>9
    <2>2. GatesAt(r + 1, r) = 1
      BY <1>5, <1>7 DEF GatesAt
    <2>3. Carries(chan[GatesAt(r + 1, r)], "gates", hctr, st[r + 1], st[r + 1 + 1])
      BY <1>2, <2>1 DEF ChanInv
    <2>4. r + 1 + 1 = r + 2
      BY <1>5
    <2>5. QED
      BY <1>1, <1>8, <2>2, <2>3, <2>4 DEF Carries
  <1>11. ChanInv(st, n, r)'
    <2>1. /\ Taken(r)' = Taken(r) + 1 /\ GatesTaken(r)' <= GatesSent(n) /\ GatesTaken(r)' \in Nat
          /\ GatesTaken(r) <= GatesTaken(r)' /\ r <= r
      BY <1>5, <1>6, <1>7, <1>9
    <2>2. QED
      BY <1>1, <1>2, <1>4, <1>5, <1>6, <2>1, ChanShift
  <1>12. StoreInv(st, r, e)' /\ Between(st, e)'
    BY <1>1, <1>2, <1>4 DEF EvaluatorInv, StoreInv, Between
  <1>13. EvaluatorInv(st, n, r, e)'
    BY <1>1, <1>2, <1>4, <1>6, <1>10, <1>12 DEF EvaluatorInv, Holds
  <1>14. QED
    BY <1>3, <1>11, <1>13 DEF Joint

(* EvaluatorReceiveMasks                                                    *)
LEMMA ReceiveMasksStep ==
  ASSUME TypeInv, Counts, mode # "simulate", NEW st, NEW n, NEW r, NEW e, Joint(st, n, r, e),
         EvaluatorReceiveMasks
  PROVE  \E f : Joint(st, n, r + 1, f)'
  <1>1. /\ estate = "receive_masks" /\ chan # <<>> /\ chan' = Tail(chan)
        /\ UNCHANGED <<mode, tape, garbler, evaluating, ecomplexity>>
        /\ estate' \in {"execute", "peek"}
    BY DEF EvaluatorReceiveMasks
  <1>2. GarblerInv(st, n) /\ ChanInv(st, n, r) /\ EvaluatorInv(st, n, r, e)
    BY DEF Joint
  <1>3. GarblerInv(st, n)'
    BY <1>1, <1>2, GarblerUntouched
  <1>4. UNCHANGED <<mode, tape, epc, gpc, hctr, hout, gstate, gbreak, ecomplexity>>
    BY <1>1 DEF garbler, garbling, evaluating, stores
  <1>5. /\ n \in Nat /\ r \in Nat
        /\ GatesSent(n) \in Int /\ MasksSent(n) \in Int
        /\ MasksSent(n) = GatesSent(n) \/ MasksSent(n) = GatesSent(n) - 1
        /\ GatesSent(n) = n \/ GatesSent(n) = n - 1
        /\ r <= MasksSent(n) /\ GatesTaken(r) <= GatesSent(n)
        /\ Len(chan) \in Nat /\ IsSeq(chan) /\ Len(chan) = Sent(n) - Taken(r) + EndSent
    BY <1>2, ChanFacts
  <1>6. /\ GatesTaken(r) = r + 1 /\ Receiving
        /\ GatesTaken(r + 1)' = r + 1 /\ GatesSent(n)' = GatesSent(n)
        /\ MasksSent(n)' = MasksSent(n)
    BY <1>1, <1>4 DEF GatesTaken, Receiving, GatesSent, MasksSent
  <1>7. Taken(r) = r + 1 + r /\ Taken(r + 1)' = r + 1 + (r + 1) /\ Sent(n) = GatesSent(n) + MasksSent(n)
    BY <1>6 DEF Taken, Sent
  <1>8. Len(chan) > 0 /\ Head(chan) = chan[1]
    BY <1>1, <1>5, LengthFacts, TailFacts
  <1>9. r < MasksSent(n) /\ r + 1 <= n
    <2>1. EndSent = 0 \/ (EndSent = 1 /\ GatesSent(n) = MasksSent(n))
      BY DEF EndSent, GatesSent, MasksSent
    <2>2. QED
      BY <1>5, <1>6, <1>7, <1>8, <2>1
  <1>10. Holds(Head(chan).data, hout, st[r + 1], st[r + 2])
    <2>1. r + 1 \in r + 1 .. MasksSent(n)
      BY <1>5, <1>9
    <2>2. MasksAt(r + 1, r) = 1
      BY <1>5, <1>7 DEF MasksAt
    <2>3. Carries(chan[MasksAt(r + 1, r)], "masks", hout, st[r + 1], st[r + 1 + 1])
      BY <1>2, <2>1 DEF ChanInv
    <2>4. r + 1 + 1 = r + 2
      BY <1>5
    <2>5. QED
      BY <1>8, <2>2, <2>3, <2>4 DEF Carries
  <1>11. Holds(egates, hctr, st[r + 1], st[r + 2]) /\ epc = st[e + 1] /\ ecomplexity = 0
    BY <1>1, <1>2 DEF EvaluatorInv, Between
  <1>12. EndSent' = EndSent
    <2>1. mode = "store" => estate' = "peek"
      BY DEF EvaluatorReceiveMasks
    <2>2. QED
      BY <1>4, <1>6, <2>1 DEF EndSent, Receiving
  <1>14. ChanInv(st, n, r + 1)'
    <2>1. /\ Taken(r + 1)' = Taken(r) + 1 /\ GatesTaken(r + 1)' <= GatesSent(n)
          /\ GatesTaken(r + 1)' \in Nat /\ r + 1 \in Nat /\ r + 1 <= MasksSent(n)
          /\ GatesTaken(r) <= GatesTaken(r + 1)' /\ r <= r + 1
      BY <1>5, <1>6, <1>7, <1>9
    <2>2. QED
      BY <1>1, <1>2, <1>4, <1>5, <1>6, <1>12, <2>1, ChanShift
  <1>15. CASE mode = "continuous"
    <2>1. /\ emasks' = Head(chan).data /\ estate' = "execute"
          /\ UNCHANGED <<egates, gates_store, output_masks_store>>
      BY <1>15 DEF EvaluatorReceiveMasks, stores
    <2>2. e = r
      BY <1>2, <1>15 DEF EvaluatorInv
    <2>3. Within(st, r + 1)'
      <3>1. r + 1 \in 1 .. n
        BY <1>5, <1>9
      <3>2. /\ st[r + 1] \in 1 .. gpc /\ st[r + 1 + 1] \in 1 .. gpc
            /\ st[r + 1] <= st[r + 1 + 1] /\ gpc \in Nat
            /\ hctr[st[r + 1]] \in Nat
        BY <1>2, <3>1, CutFacts DEF GarblerInv
      <3>3. r + 1 + 1 = r + 2
        BY <1>5
      <3>4. Unbroken(tape, hctr, st[r + 1], st[r + 1])
        BY <3>2 DEF Unbroken
      <3>5. epc \in st[r + 1] .. st[r + 2] /\ hctr[epc] - hctr[st[r + 1]] = 0
        BY <1>11, <2>2, <3>2, <3>3
      <3>6. QED
        BY <1>4, <1>5, <1>10, <1>11, <2>1, <2>2, <3>3, <3>4, <3>5 DEF Within
    <2>4. StoreInv(st, r + 1, r + 1)'
      BY <1>2, <1>4, <1>5, <2>1, <2>2 DEF EvaluatorInv, StoreInv
    <2>5. EvaluatorInv(st, n, r + 1, r + 1)'
      BY <1>2, <1>4, <1>5, <1>10, <1>15, <2>1, <2>3, <2>4 DEF EvaluatorInv, Holds, Receiving
    <2>6. QED
      BY <1>3, <1>14, <2>5 DEF Joint
  <1>16. CASE mode = "store"
    <2>1. /\ gates_store' = Append(gates_store, egates)
          /\ output_masks_store' = Append(output_masks_store, Head(chan).data)
          /\ egates' = LeftBy(gates_store, egates)
          /\ emasks' = LeftBy(output_masks_store, Head(chan).data)
          /\ estate' = "peek"
      BY <1>16 DEF EvaluatorReceiveMasks
    <2>2. e = 0
      BY <1>2, <1>6, <1>16 DEF EvaluatorInv
    <2>3. StoreInv(st, r + 1, 0)'
      <3>1. /\ IsSeq(gates_store) /\ IsSeq(output_masks_store)
            /\ Len(gates_store) = r /\ Len(output_masks_store) = r
            /\ \A k \in 1 .. r : /\ Holds(gates_store[k], hctr, st[k], st[k + 1])
                                 /\ Holds(output_masks_store[k], hout, st[k], st[k + 1])
        BY <1>2, <1>5, <2>2 DEF EvaluatorInv, StoreInv
      <3>2. /\ IsSeq(gates_store') /\ Len(gates_store') = r + 1
            /\ \A k \in 1 .. r : gates_store'[k] = gates_store[k]
            /\ gates_store'[r + 1] = egates
        BY <2>1, <3>1, AppendFacts
      <3>3. /\ IsSeq(output_masks_store') /\ Len(output_masks_store') = r + 1
            /\ \A k \in 1 .. r : output_masks_store'[k] = output_masks_store[k]
            /\ output_masks_store'[r + 1] = Head(chan).data
        BY <2>1, <3>1, AppendFacts
      <3>4. \A k \in 1 .. r + 1 : /\ Holds(gates_store'[k], hctr, st[k], st[k + 1])
                                  /\ Holds(output_masks_store'[k], hout, st[k], st[k + 1])
        <4> TAKE k \in 1 .. r + 1
        <4>1. CASE k \in 1 .. r
          BY <3>1, <3>2, <3>3, <4>1
        <4>2. CASE k = r + 1
          <5>1. k + 1 = r + 2
            BY <1>5, <4>2
          <5>2. QED
            BY <1>10, <1>11, <3>2, <3>3, <4>2, <5>1
        <4>3. QED
          BY <1>5, <4>1, <4>2
      <3>5. \A k \in 1 .. r + 1 : 0 + k = k /\ 0 + k + 1 = k + 1
        BY <1>5
      <3>6. QED
        BY <1>4, <1>5, <3>2, <3>3, <3>4, <3>5 DEF StoreInv
    <2>4. IsSeq(egates') /\ IsSeq(emasks')
      BY <1>10, <1>11, <2>1, EmptyFacts DEF LeftBy, Holds
    <2>5. Between(st, 0)'
      BY <1>4, <1>11, <2>2 DEF Between
    <2>6. EvaluatorInv(st, n, r + 1, 0)'
      BY <1>4, <1>5, <1>16, <2>1, <2>3, <2>4, <2>5 DEF EvaluatorInv, Receiving
    <2>7. QED
      BY <1>3, <1>14, <2>6 DEF Joint
  <1>17. QED
    BY <1>15, <1>16 DEF TypeInv

(* EvaluatorPop                                                             *)
LEMMA PopStep ==
  ASSUME TypeInv, Counts, mode # "simulate", NEW st, NEW n, NEW r, NEW e, Joint(st, n, r, e),
         EvaluatorPop
  PROVE  Joint(st, n, r, e + 1)'
  <1>1. /\ estate = "pop" /\ estate' = "execute"
        /\ UNCHANGED <<mode, tape, garbler, chan, evaluating, ecomplexity>>
        /\ egates' = Popped(gates_store, egates) /\ gates_store' = Rest(gates_store)
        /\ emasks' = Popped(output_masks_store, emasks)
        /\ output_masks_store' = Rest(output_masks_store)
    BY DEF EvaluatorPop
  <1>2. GarblerInv(st, n) /\ ChanInv(st, n, r) /\ EvaluatorInv(st, n, r, e)
    BY DEF Joint
  <1>3. GarblerInv(st, n)'
    BY <1>1, <1>2, GarblerUntouched
  <1>4. UNCHANGED <<mode, tape, epc, gpc, hctr, hout, gstate, gbreak, ecomplexity, chan>>
    BY <1>1 DEF garbler, garbling, evaluating
  <1>5. n \in Nat /\ r \in Nat /\ e \in 0 .. r
    BY <1>2 DEF GarblerInv, Cuts, ChanInv, EvaluatorInv
  <1>6. mode = "store"
    BY <1>1, <1>2 DEF EvaluatorInv, TypeInv
  <1>7. e < n /\ r = n /\ chan = <<>> /\ gstate = "done"
    BY <1>1, <1>2, <1>6 DEF EvaluatorInv, Receiving
  <1>8. ChanInv(st, n, r)'
    <2>1. /\ GatesTaken(r)' = GatesTaken(r) /\ GatesSent(n)' = GatesSent(n)
          /\ MasksSent(n)' = MasksSent(n) /\ EndSent' = EndSent
      BY <1>1, <1>4 DEF GatesTaken, GatesSent, MasksSent, EndSent, Receiving
    <2>2. QED
      BY <1>2, <1>4, <2>1 DEF ChanInv, GatesAt, MasksAt, Taken, Sent
  <1>9. /\ IsSeq(gates_store) /\ IsSeq(output_masks_store)
        /\ Len(gates_store) = r - e /\ Len(output_masks_store) = r - e
        /\ \A k \in 1 .. r - e : /\ Holds(gates_store[k], hctr, st[e + k], st[e + k + 1])
                                 /\ Holds(output_masks_store[k], hout, st[e + k], st[e + k + 1])
    BY <1>2 DEF EvaluatorInv, StoreInv
  <1>10. gates_store # <<>> /\ output_masks_store # <<>>
    BY <1>5, <1>7, <1>9, EmptyFacts
  <1>11. /\ egates' = Head(gates_store) /\ gates_store' = Tail(gates_store)
         /\ emasks' = Head(output_masks_store) /\ output_masks_store' = Tail(output_masks_store)
    BY <1>1, <1>10 DEF Popped, Rest
  <1>12. /\ IsSeq(gates_store') /\ Len(gates_store') = r - e - 1 /\ egates' = gates_store[1]
         /\ \A k \in 1 .. r - e - 1 : gates_store'[k] = gates_store[k + 1]
    BY <1>9, <1>10, <1>11, TailFacts
  <1>13. /\ IsSeq(output_masks_store') /\ Len(output_masks_store') = r - e - 1
         /\ emasks' = output_masks_store[1]
         /\ \A k \in 1 .. r - e - 1 : output_masks_store'[k] = output_masks_store[k + 1]
    BY <1>9, <1>10, <1>11, TailFacts
  <1>14. Holds(egates', hctr, st[e + 1], st[e + 2]) /\ Holds(emasks', hout, st[e + 1], st[e + 2])
    <2>1. 1 \in 1 .. r - e /\ e + 1 + 1 = e + 2
      BY <1>5, <1>7
    <2>2. QED
      BY <1>9, <1>12, <1>13, <2>1
  <1>15. StoreInv(st, r, e + 1)'
    <2>1. r - (e + 1) = r - e - 1
      BY <1>5
    <2>2. \A k \in 1 .. r - e - 1 :
            /\ Holds(gates_store'[k], hctr, st[e + 1 + k], st[e + 1 + k + 1])
            /\ Holds(output_masks_store'[k], hout, st[e + 1 + k], st[e + 1 + k + 1])
      <3> TAKE k \in 1 .. r - e - 1
      <3>1. k + 1 \in 1 .. r - e /\ e + (k + 1) = e + 1 + k /\ e + (k + 1) + 1 = e + 1 + k + 1
        BY <1>5
      <3>2. QED
        BY <1>9, <1>12, <1>13, <3>1
    <2>3. QED
      BY <1>4, <1>12, <1>13, <2>1, <2>2 DEF StoreInv
  <1>16. Within(st, e + 1)'
    <2>1. e + 1 \in 1 .. n /\ e + 1 > 0 /\ e + 1 + 1 = e + 2
      BY <1>5, <1>7
    <2>2. /\ st[e + 1] \in 1 .. gpc /\ st[e + 2] \in 1 .. gpc /\ st[e + 1] <= st[e + 2]
          /\ gpc \in Nat /\ \A p \in 1 .. gpc : hctr[p] \in Nat
      BY <1>2, <2>1, CutFacts DEF GarblerInv
    <2>3. epc = st[e + 1] /\ ecomplexity = 0
      BY <1>1, <1>2 DEF EvaluatorInv, Between
    <2>4. Unbroken(tape, hctr, st[e + 1], st[e + 1])
      BY <2>2 DEF Unbroken
    <2>5. hctr[st[e + 1]] - hctr[st[e + 1]] = 0 /\ st[e + 1] \in st[e + 1] .. st[e + 2]
      BY <2>2
    <2>6. QED
      BY <1>4, <1>14, <2>1, <2>3, <2>4, <2>5 DEF Within
  <1>17. EvaluatorInv(st, n, r, e + 1)'
    <2>1. e + 1 \in 0 .. r
      BY <1>5, <1>7
    <2>2. QED
      BY <1>4, <1>1, <1>6, <1>7, <1>14, <1>15, <1>16, <2>1 DEF EvaluatorInv, Holds, Receiving
  <1>18. QED
    BY <1>3, <1>8, <1>17 DEF Joint

(* Evaluating an entry takes from the buffers what garbling it added.       *)
LEMMA EvalFacts ==
  ASSUME NEW e \in Entry, E!Eval(e), IsSeq(egates), IsSeq(emasks)
  PROVE  /\ IsSeq(egates') /\ IsSeq(emasks')
         /\ Len(egates') = Len(egates) - (IF e.op = "and" THEN 1 ELSE 0)
         /\ Len(emasks') = Len(emasks) - (IF e.op = "reveal" THEN 1 ELSE 0)
         /\ e.op = "and" => egates # <<>> /\ egates' = Tail(egates)
         /\ e.op # "and" => egates' = egates
         /\ e.op = "reveal" => emasks # <<>> /\ emasks' = Tail(emasks)
         /\ e.op # "reveal" => emasks' = emasks
  <1>0. Len(egates) \in Nat /\ Len(emasks) \in Nat
    BY LengthFacts
  <1>1. CASE E!EvalLinear(e)
    <2>1. e.op \notin {"and", "reveal"} /\ UNCHANGED <<egates, emasks>>
      BY <1>1 DEF E!EvalLinear
    <2>2. QED
      BY <1>0, <2>1
  <1>2. CASE E!EvalAnd(e)
    <2>1. e.op = "and" /\ egates # <<>> /\ egates' = Tail(egates) /\ emasks' = emasks
      BY <1>2 DEF E!EvalAnd
    <2>2. IsSeq(egates') /\ Len(egates') = Len(egates) - 1
      BY <2>1, TailFacts
    <2>3. QED
      BY <1>0, <2>1, <2>2
  <1>3. CASE E!EvalReveal(e)
    <2>1. e.op = "reveal" /\ emasks # <<>> /\ emasks' = Tail(emasks) /\ egates' = egates
      BY <1>3 DEF E!EvalReveal
    <2>2. IsSeq(emasks') /\ Len(emasks') = Len(emasks) - 1
      BY <2>1, TailFacts
    <2>3. QED
      BY <1>0, <2>1, <2>2
  <1>4. QED
    BY <1>1, <1>2, <1>3 DEF E!Eval

(* While its batch lasts the evaluator is at an entry of it.                *)
LEMMA WithinFacts ==
  ASSUME TypeInv, Counts, NEW st, NEW n, NEW e, Cuts(st, n), Within(st, e), e \in 1 .. n,
         epc \in DOMAIN tape
  PROVE  /\ epc < st[e + 1] /\ epc \in Nat /\ epc >= 1 /\ epc + 1 \in 1 .. gpc /\ epc \in 1 .. gpc - 1
         /\ st[e] \in Nat /\ st[e] >= 1 /\ st[e] <= epc /\ st[e + 1] \in 1 .. gpc /\ gpc \in Nat
         /\ hctr[epc + 1] = Complexity(tape[epc], hctr[epc])
         /\ hout[epc + 1] = hout[epc] + (IF tape[epc].op = "reveal" THEN 1 ELSE 0)
         /\ \A p \in 1 .. gpc : hctr[p] \in Nat /\ hout[p] \in Nat
         /\ hctr[epc + 1] <= hctr[st[e + 1]] /\ hout[epc + 1] <= hout[st[e + 1]]
  <1>1. /\ st[e] \in 1 .. gpc /\ st[e + 1] \in 1 .. gpc /\ st[e] <= st[e + 1]
        /\ gpc \in Nat /\ gpc <= Len(tape) + 1 /\ Len(tape) \in Nat
        /\ \A p \in 1 .. gpc : hctr[p] \in Nat /\ hout[p] \in Nat
        /\ \/ TimeCut(tape, hctr, st[e], st[e + 1])
           \/ LastCut(tape, hctr, st[e], st[e + 1])
    BY CutFacts
  <1>2. epc \in st[e] .. st[e + 1] /\ Unbroken(tape, hctr, st[e], epc)
    BY DEF Within
  <1>3. epc \in 1 .. Len(tape)
    BY TapeFacts DEF TypeInv
  <1>4. epc # st[e + 1]
    <2>1. CASE TimeCut(tape, hctr, st[e], st[e + 1])
      <3> SUFFICES ASSUME epc = st[e + 1] PROVE FALSE
        OBVIOUS
      <3>1. st[e + 1] - 1 \in st[e] .. epc - 1 /\ Breaks(tape, hctr, st[e], st[e + 1] - 1)
        BY <1>1, <1>2, <2>1 DEF TimeCut
      <3>2. QED
        BY <1>2, <3>1 DEF Unbroken
    <2>2. CASE LastCut(tape, hctr, st[e], st[e + 1])
      BY <1>1, <1>3, <2>2 DEF LastCut
    <2>3. QED
      BY <1>1, <2>1, <2>2
  <1>5. /\ epc < st[e + 1] /\ epc \in Nat /\ epc >= 1 /\ epc + 1 \in 1 .. gpc /\ epc \in 1 .. gpc - 1
        /\ epc + 1 <= st[e + 1] /\ st[e] <= epc
    BY <1>1, <1>2, <1>3, <1>4
  <1>6. /\ hctr[epc + 1] = Complexity(tape[epc], hctr[epc])
        /\ hout[epc + 1] = hout[epc] + (IF tape[epc].op = "reveal" THEN 1 ELSE 0)
    BY <1>5 DEF Counts
  <1>7. hctr[epc + 1] <= hctr[st[e + 1]] /\ hout[epc + 1] <= hout[st[e + 1]]
    BY <1>1, <1>5 DEF Counts
  <1>8. QED
    BY <1>1, <1>5, <1>6, <1>7, SMTT(30)

(* Counts may be subtracted in either order.                                *)
LEMMA Balance ==
  ASSUME NEW x \in Nat, NEW y \in Nat, NEW d \in Nat
  PROVE  (x - y) - d = x - (y + d)
  OBVIOUS

(* EvaluatorExecute: the batch ends for the evaluator where it ended for    *)
(* the garbler, with nothing left in the buffers.                           *)
LEMMA ExecuteStep ==
  ASSUME TypeInv, Counts, mode # "simulate", NEW st, NEW n, NEW r, NEW e, Joint(st, n, r, e),
         EvaluatorExecute
  PROVE  /\ Joint(st, n, r, e)' /\ epc' <= gpc' /\ epc < gpc
         /\ TimeBreak(tape[epc], ecomplexity) => egates' = <<>> /\ emasks' = <<>>
  <1> DEFINE x == tape[epc]
             a == st[e]
             b == st[e + 1]
  <1>1. /\ estate = "execute" /\ epc \in DOMAIN tape /\ E!Eval(x) /\ epc' = epc + 1
        /\ UNCHANGED <<mode, tape, garbler, chan, stores>>
        /\ IF TimeBreak(x, ecomplexity)
           THEN estate' = AfterTimeBreak /\ ecomplexity' = 0
           ELSE estate' = estate /\ ecomplexity' = Complexity(x, ecomplexity)
    BY DEF EvaluatorExecute
  <1>2. GarblerInv(st, n) /\ ChanInv(st, n, r) /\ EvaluatorInv(st, n, r, e)
    BY DEF Joint
  <1>3. GarblerInv(st, n)'
    BY <1>1, <1>2, GarblerUntouched
  <1>4. /\ UNCHANGED <<mode, tape, gpc, hctr, hout, gstate, gbreak, chan>>
        /\ UNCHANGED <<gates_store, output_masks_store>>
    BY <1>1 DEF garbler, garbling, stores
  <1>5. /\ n \in Nat /\ r \in Nat /\ e \in 0 .. r /\ e > 0 /\ Cuts(st, n)
        /\ Within(st, e) /\ IsSeq(egates) /\ IsSeq(emasks) /\ StoreInv(st, r, e)
    BY <1>1, <1>2 DEF GarblerInv, Cuts, ChanInv, EvaluatorInv, Within
  <1>6. /\ e \in 1 .. n
        /\ MasksSent(n) <= n /\ r <= MasksSent(n)
    <2>1. MasksSent(n) <= n /\ r <= MasksSent(n)
      BY <1>2, <1>5 DEF ChanInv, MasksSent
    <2>2. MasksSent(n) \in Int
      BY <1>5 DEF MasksSent
    <2>3. QED
      BY <1>5, <2>1, <2>2
  <1>7. /\ epc < b /\ epc \in Nat /\ epc >= 1 /\ epc + 1 \in 1 .. gpc /\ epc \in 1 .. gpc - 1
        /\ a \in Nat /\ a >= 1 /\ a <= epc /\ b \in 1 .. gpc /\ gpc \in Nat
        /\ hctr[epc + 1] = Complexity(x, hctr[epc])
        /\ hout[epc + 1] = hout[epc] + (IF x.op = "reveal" THEN 1 ELSE 0)
        /\ \A p \in 1 .. gpc : hctr[p] \in Nat /\ hout[p] \in Nat
    BY <1>1, <1>5, <1>6, WithinFacts
  <1>8. /\ Unbroken(tape, hctr, a, epc) /\ ecomplexity = hctr[epc] - hctr[a]
        /\ Len(egates) = hctr[b] - hctr[epc] /\ Len(emasks) = hout[b] - hout[epc]
    BY <1>5 DEF Within, Holds
  <1>9. /\ a \in 1 .. gpc /\ epc \in 1 .. gpc
        /\ hctr[epc] \in Nat /\ hctr[a] \in Nat /\ hctr[b] \in Nat /\ hctr[epc + 1] \in Nat
        /\ hout[epc] \in Nat /\ hout[b] \in Nat /\ hout[epc + 1] \in Nat
    BY <1>7
  <1> DEFINE d == IF x.op = "and" THEN 1 ELSE 0
             m == IF x.op = "reveal" THEN 1 ELSE 0
  <1>d. /\ d \in Nat /\ m \in Nat /\ hctr[epc + 1] = hctr[epc] + d /\ hout[epc + 1] = hout[epc] + m
        /\ Complexity(x, ecomplexity) = ecomplexity + d
    BY <1>7, <1>9 DEF Complexity, TypeInv
  <1>10. Complexity(x, ecomplexity) = hctr[epc + 1] - hctr[a]
    <2> HIDE DEF d
    <2>1. QED
      BY <1>8, <1>9, <1>d, SMTT(30)
  <1>11. Holds(egates', hctr, epc + 1, b) /\ Holds(emasks', hout, epc + 1, b)
    <2>1. x \in Entry
      BY <1>1, TapeFacts DEF TypeInv
    <2>2. /\ IsSeq(egates') /\ IsSeq(emasks')
          /\ Len(egates') = Len(egates) - d /\ Len(emasks') = Len(emasks) - m
      BY <1>1, <1>5, <2>1, EvalFacts
    <2> HIDE DEF d, m
    <2>4. Len(egates') = hctr[b] - hctr[epc + 1]
      <3>1. (hctr[b] - hctr[epc]) - d = hctr[b] - (hctr[epc] + d)
        BY <1>9, <1>d, Balance
      <3>2. QED
        BY <1>8, <1>d, <2>2, <3>1
    <2>5. Len(emasks') = hout[b] - hout[epc + 1]
      <3>1. (hout[b] - hout[epc]) - m = hout[b] - (hout[epc] + m)
        BY <1>9, <1>d, Balance
      <3>2. QED
        BY <1>8, <1>d, <2>2, <3>1
    <2>6. QED
      BY <2>2, <2>4, <2>5 DEF Holds
  <1>12. TimeBreak(x, ecomplexity) <=> Breaks(tape, hctr, a, epc)
    BY <1>8 DEF Breaks
  <1>13. ChanInv(st, n, r)'
    <2>1. ~ Receiving /\ estate # "receive_masks"
      BY <1>1 DEF Receiving
    <2>2. mode = "store" => ~ Receiving' /\ estate' # "receive_masks"
      BY <1>1 DEF Receiving, AfterTimeBreak
    <2>3. estate' # "receive_masks"
      BY <1>1 DEF AfterTimeBreak, TypeInv
    <2>4. /\ GatesTaken(r)' = GatesTaken(r) /\ GatesSent(n)' = GatesSent(n)
          /\ MasksSent(n)' = MasksSent(n) /\ EndSent' = EndSent
      BY <1>4, <2>1, <2>2, <2>3 DEF GatesTaken, GatesSent, MasksSent, EndSent
    <2>5. QED
      BY <1>2, <1>4, <2>4 DEF ChanInv, GatesAt, MasksAt, Taken, Sent
  <1>14. StoreInv(st, r, e)'
    BY <1>4, <1>5 DEF StoreInv
  <1>17. ASSUME TimeBreak(x, ecomplexity)
         PROVE  /\ TimeCut(tape, hctr, a, b) /\ epc + 1 = b
                /\ ~ (e = n /\ gbreak = "DONE_BREAK")
                /\ egates' = <<>> /\ emasks' = <<>>
    <2>1. /\ TimeCut(tape, hctr, a, b)
             \/ (e = n /\ gbreak = "DONE_BREAK" /\ LastCut(tape, hctr, a, b))
          /\ e = n /\ gbreak = "DONE_BREAK" => LastCut(tape, hctr, a, b)
      BY <1>5, <1>6, CutFacts
    <2>2. ~ LastCut(tape, hctr, a, b)
      <3>1. epc \in a .. b - 1
        BY <1>7
      <3>2. QED
        BY <1>12, <1>17, <3>1 DEF LastCut, Unbroken
    <2>3. epc \notin a .. b - 1 - 1
      BY <1>12, <1>17, <2>1, <2>2 DEF TimeCut, Unbroken
    <2>4. epc + 1 = b
      BY <1>7, <2>3
    <2>5. Len(egates') = 0 /\ Len(emasks') = 0 /\ IsSeq(egates') /\ IsSeq(emasks')
      BY <1>9, <1>11, <2>4 DEF Holds
    <2>6. egates' = <<>> /\ emasks' = <<>>
      BY <2>5, LengthFacts
    <2>7. QED
      BY <2>1, <2>2, <2>4, <2>6
  <1>15. EvaluatorInv(st, n, r, e)'
    <2>1. CASE ~ TimeBreak(x, ecomplexity)
      <3>1. estate' = "execute" /\ ecomplexity' = hctr[epc + 1] - hctr[a]
        BY <1>1, <1>10, <2>1
      <3>2. Unbroken(tape, hctr, a, epc + 1)
        <4> SUFFICES ASSUME NEW p \in a .. (epc + 1) - 1 PROVE ~ Breaks(tape, hctr, a, p)
          BY DEF Unbroken
        <4>1. p = epc \/ p \in a .. epc - 1
          BY <1>7
        <4>2. QED
          BY <1>8, <1>12, <2>1, <4>1 DEF Unbroken
      <3>3. epc + 1 \in a .. b
        BY <1>7
      <3>4. Within(st, e)'
        BY <1>1, <1>4, <1>5, <1>11, <3>1, <3>2, <3>3 DEF Within
      <3>5. QED
        BY <1>1, <1>2, <1>4, <1>11, <1>14, <3>1, <3>4 DEF EvaluatorInv, Receiving, Holds
    <2>2. CASE TimeBreak(x, ecomplexity)
      <3>1. /\ epc + 1 = b /\ ~ (e = n /\ gbreak = "DONE_BREAK")
            /\ egates' = <<>> /\ emasks' = <<>>
        BY <1>17, <2>2
      <3>2. Between(st, e)'
        BY <1>1, <2>2, <3>1 DEF Between
      <3>3. IsSeq(egates') /\ IsSeq(emasks')
        BY <1>11 DEF Holds
      <3>4. egates' = <<>> /\ emasks' = <<>>
        BY <3>1
      <3>5. CASE mode = "continuous"
        <4>1. estate' = "receive_gates" /\ e = r
          BY <1>1, <1>2, <2>2, <3>5 DEF AfterTimeBreak, EvaluatorInv
        <4>2. QED
          BY <1>4, <1>5, <1>14, <3>2, <3>3, <3>4, <3>5, <4>1 DEF EvaluatorInv
      <3>6. CASE mode = "store"
        <4>1. estate' = "pop"
          BY <1>1, <2>2, <3>6 DEF AfterTimeBreak
        <4>2. r = n /\ chan = <<>> /\ gstate = "done"
          BY <1>1, <1>2, <3>6 DEF EvaluatorInv, Receiving
        <4>3. gbreak = "DONE_BREAK"
          BY <1>2, <4>2 DEF GarblerInv
        <4>4. e < n
          BY <1>5, <3>1, <4>2, <4>3
        <4>5. QED
          BY <1>4, <1>5, <1>14, <3>2, <3>3, <3>6, <4>1, <4>2, <4>4 DEF EvaluatorInv, Receiving
      <3>7. QED
        BY <3>5, <3>6 DEF TypeInv
    <2>3. QED
      BY <2>1, <2>2
  <1>16. epc < gpc /\ epc' <= gpc'
    BY <1>1, <1>4, <1>7
  <1>18. QED
    BY <1>3, <1>13, <1>15, <1>16, <1>17 DEF Joint

(* EvaluatorEnd                                                             *)
LEMMA EndStep ==
  ASSUME TypeInv, mode # "simulate", NEW st, NEW n, NEW r, NEW e, Joint(st, n, r, e),
         EvaluatorEnd
  PROVE  Joint(st, n, r, e)'
  <1>1. /\ estate = "execute" /\ epc \notin DOMAIN tape /\ estate' = "done"
        /\ UNCHANGED <<mode, tape, garbler, chan, evaluating, ecomplexity, egates, emasks, stores>>
    BY DEF EvaluatorEnd
  <1>2. GarblerInv(st, n) /\ ChanInv(st, n, r) /\ EvaluatorInv(st, n, r, e)
    BY DEF Joint
  <1>3. GarblerInv(st, n)'
    BY <1>1, <1>2, GarblerUntouched
  <1>4. /\ UNCHANGED <<mode, tape, epc, gpc, hctr, hout, gstate, gbreak, chan, ecomplexity>>
        /\ UNCHANGED <<egates, emasks, gates_store, output_masks_store>>
    BY <1>1 DEF garbler, garbling, evaluating, stores
  <1>5. ChanInv(st, n, r)'
    <2>1. /\ GatesTaken(r)' = GatesTaken(r) /\ GatesSent(n)' = GatesSent(n)
          /\ MasksSent(n)' = MasksSent(n) /\ EndSent' = EndSent
      BY <1>1, <1>4 DEF GatesTaken, GatesSent, MasksSent, EndSent, Receiving
    <2>2. QED
      BY <1>2, <1>4, <2>1 DEF ChanInv, GatesAt, MasksAt, Taken, Sent
  <1>6. epc = Len(tape) + 1
    <2>1. epc \in 1 .. Len(tape) + 1 /\ epc \notin 1 .. Len(tape) /\ Len(tape) \in Nat
      BY <1>1, TapeFacts DEF TypeInv
    <2>2. QED
      BY <2>1
  <1>7. StoreInv(st, r, e)' /\ Within(st, e)'
    BY <1>1, <1>2, <1>4 DEF EvaluatorInv, StoreInv, Within
  <1>8. EvaluatorInv(st, n, r, e)'
    BY <1>1, <1>2, <1>4, <1>6, <1>7 DEF EvaluatorInv, Receiving
  <1>9. QED
    BY <1>3, <1>5, <1>8 DEF Joint

-----------------------------------------------------------------------------
(* The garbler's steps.                                                     *)

(* What the garbler does before it is done leaves the evaluator's view of   *)
(* the batches it has ended as it was.                                      *)
LEMMA EvaluatorUntouched ==
  ASSUME TypeInv, Counts, NEW st, NEW n, NEW r, NEW e, Joint(st, n, r, e),
         UNCHANGED <<mode, tape, evaluator>>, gstate # "done",
         NEW s, NEW m, \A k \in 1 .. n + 1 : s[k] = st[k],
         \A p \in 1 .. gpc : hctr'[p] = hctr[p] /\ hout'[p] = hout[p],
         GatesSent(m)' \in Int, GatesSent(n) <= GatesSent(m)', n \in Nat
  PROVE  EvaluatorInv(s, m, r, e)'
  <1>1. GarblerInv(st, n) /\ ChanInv(st, n, r) /\ EvaluatorInv(st, n, r, e) /\ Cuts(st, n)
    BY DEF Joint, GarblerInv
  <1>2. /\ UNCHANGED <<mode, tape, epc, estate, ecomplexity, egates, emasks>>
        /\ UNCHANGED <<gates_store, output_masks_store>>
    BY DEF evaluator, evaluating, stores
  <1>3. /\ r \in Nat /\ e \in 0 .. r /\ GatesSent(n) \in Int
        /\ r <= n /\ (estate = "receive_masks" => r + 1 <= n)
    <2>1. /\ r \in Nat /\ GatesSent(n) \in Int
          /\ GatesTaken(r) = r \/ GatesTaken(r) = r + 1
          /\ GatesSent(n) = n \/ GatesSent(n) = n - 1
          /\ GatesTaken(r) <= GatesSent(n)
      BY <1>1, ChanFacts
    <2>2. GatesTaken(r) <= n
      BY <2>1
    <2>3. e \in 0 .. r
      BY <1>1 DEF EvaluatorInv
    <2>4. estate = "receive_masks" => GatesTaken(r) = r + 1
      BY DEF GatesTaken
    <2>5. QED
      BY <2>1, <2>2, <2>3, <2>4
  <1>4. \A k \in 1 .. n + 1 : s[k] = st[k] /\ st[k] \in 1 .. gpc
    BY <1>1 DEF Cuts
  <1>5. \A k \in 1 .. n : \A q : Holds(q, hctr', s[k], s[k + 1]) <=> Holds(q, hctr, st[k], st[k + 1])
    <2> TAKE k \in 1 .. n
    <2>1. k \in 1 .. n + 1 /\ k + 1 \in 1 .. n + 1
      OBVIOUS
    <2>2. QED
      BY <1>4, <2>1 DEF Holds
  <1>6. \A k \in 1 .. n : \A q : Holds(q, hout', s[k], s[k + 1]) <=> Holds(q, hout, st[k], st[k + 1])
    <2> TAKE k \in 1 .. n
    <2>1. k \in 1 .. n + 1 /\ k + 1 \in 1 .. n + 1
      OBVIOUS
    <2>2. QED
      BY <1>4, <2>1 DEF Holds
  <1>7. StoreInv(s, r, e)'
    <2>1. StoreInv(st, r, e)
      BY <1>1 DEF EvaluatorInv
    <2>2. \A k \in 1 .. r - e : e + k \in 1 .. n
      BY <1>3
    <2>3. \A k \in 1 .. r - e : /\ Holds(gates_store[k], hctr', s[e + k], s[e + k + 1])
                               /\ Holds(output_masks_store[k], hout', s[e + k], s[e + k + 1])
      BY <1>5, <1>6, <2>1, <2>2 DEF StoreInv
    <2>4. QED
      BY <1>2, <2>1, <2>3 DEF StoreInv
  <1>8. estate \notin {"execute", "done"} => Between(s, e)'
    <2>1. e + 1 \in 1 .. n + 1
      BY <1>3
    <2>2. QED
      BY <1>1, <1>2, <1>4, <2>1 DEF EvaluatorInv, Between
  <1>9. estate \in {"execute", "done"} => Within(s, e)'
    <2> SUFFICES ASSUME estate \in {"execute", "done"} PROVE Within(s, e)'
      OBVIOUS
    <2>1. Within(st, e)
      BY <1>1 DEF EvaluatorInv
    <2>2. e \in 1 .. n + 1 /\ e + 1 \in 1 .. n + 1 /\ e > 0
      BY <1>3, <2>1 DEF Within
    <2>3. s[e] = st[e] /\ s[e + 1] = st[e + 1] /\ st[e] \in 1 .. gpc /\ st[e + 1] \in 1 .. gpc
      BY <1>4, <2>2
    <2>4. epc \in st[e] .. st[e + 1] /\ epc \in 1 .. gpc /\ gpc \in Nat /\ epc \in Nat /\ st[e] \in Nat
      <3>1. gpc \in Nat
        BY TapeFacts DEF TypeInv
      <3>2. QED
        BY <2>1, <2>3, <3>1 DEF Within
    <2>5. Unbroken(tape, hctr', st[e], epc)
      <3>1. \A p \in st[e] .. epc : hctr'[p] = hctr[p]
        BY <2>3, <2>4
      <3>2. Unbroken(tape, hctr, st[e], epc)
        BY <2>1 DEF Within
      <3>3. QED
        BY <2>4, <3>1, <3>2, SameCuts
    <2>6. QED
      BY <1>2, <2>1, <2>2, <2>3, <2>4, <2>5 DEF Within, Holds
  <1>10. estate = "receive_masks" => Holds(egates, hctr', s[r + 1], s[r + 2])
    <2> SUFFICES ASSUME estate = "receive_masks" PROVE Holds(egates, hctr', s[r + 1], s[r + 2])
      OBVIOUS
    <2>1. r + 1 \in 1 .. n /\ r + 1 + 1 = r + 2
      BY <1>3
    <2>2. QED
      BY <1>1, <1>5, <2>1 DEF EvaluatorInv
  <1>11. Receiving' = Receiving /\ (mode = "store" => Receiving)
    BY <1>1, <1>2 DEF Receiving, EvaluatorInv
  <1>12. estate = "receive_gates" /\ mode = "store" => r < GatesSent(m)'
    BY <1>1, <1>3 DEF EvaluatorInv
  <1>13. mode = "store" => estate # "pop"
    BY <1>11 DEF Receiving
  <1>14. QED
    BY <1>1, <1>2, <1>7, <1>8, <1>9, <1>10, <1>11, <1>12, <1>13 DEF EvaluatorInv

(* Messages stay as they are while the garbler executes.                    *)
LEMMA ChanUntouched ==
  ASSUME TypeInv, Counts, NEW st, NEW n, NEW r, NEW e, Joint(st, n, r, e),
         UNCHANGED <<mode, tape, chan, evaluator>>,
         NEW s, NEW m, \A k \in 1 .. n + 1 : s[k] = st[k],
         \A p \in 1 .. gpc : hctr'[p] = hctr[p] /\ hout'[p] = hout[p],
         GatesSent(m)' = GatesSent(n), MasksSent(m)' = MasksSent(n), EndSent' = EndSent
  PROVE  ChanInv(s, m, r)'
  <1>1. GarblerInv(st, n) /\ ChanInv(st, n, r) /\ Cuts(st, n)
    BY DEF Joint, GarblerInv
  <1>2. /\ n \in Nat /\ r \in Nat /\ GatesSent(n) \in Int /\ MasksSent(n) \in Int
        /\ MasksSent(n) = GatesSent(n) \/ MasksSent(n) = GatesSent(n) - 1
        /\ GatesSent(n) = n \/ GatesSent(n) = n - 1
        /\ GatesTaken(r) = r \/ GatesTaken(r) = r + 1
    BY <1>1, ChanFacts
  <1>3. UNCHANGED estate
    BY DEF evaluator
  <1>4. /\ GatesTaken(r)' = GatesTaken(r) /\ Taken(r)' = Taken(r) /\ Sent(m)' = Sent(n)
        /\ \A k : GatesAt(k, r)' = GatesAt(k, r) /\ MasksAt(k, r)' = MasksAt(k, r)
    BY <1>3 DEF GatesTaken, Taken, Sent, GatesAt, MasksAt
  <1>5. \A k \in 1 .. n : /\ s[k] = st[k] /\ s[k + 1] = st[k + 1]
                         /\ st[k] \in 1 .. gpc /\ st[k + 1] \in 1 .. gpc
    <2> TAKE k \in 1 .. n
    <2>1. k \in 1 .. n + 1 /\ k + 1 \in 1 .. n + 1
      BY <1>2
    <2>2. QED
      BY <1>1, <2>1 DEF Cuts
  <1>6. \A k \in GatesTaken(r) + 1 .. GatesSent(n) : k \in 1 .. n
    BY <1>2
  <1>7. \A k \in r + 1 .. MasksSent(n) : k \in 1 .. n
    BY <1>2
  <1>8. \A k \in GatesTaken(r) + 1 .. GatesSent(n) :
          Carries(chan[GatesAt(k, r)], "gates", hctr', s[k], s[k + 1])
    BY <1>1, <1>5, <1>6, SMTT(30) DEF ChanInv, Carries, Holds
  <1>9. \A k \in r + 1 .. MasksSent(n) :
          Carries(chan[MasksAt(k, r)], "masks", hout', s[k], s[k + 1])
    BY <1>1, <1>5, <1>7 DEF ChanInv, Carries, Holds
  <1>10. QED
    BY <1>1, <1>4, <1>8, <1>9 DEF ChanInv

(* The batch that ends becomes one of those that have ended.                *)
LEMMA CutsGrow ==
  ASSUME TypeInv, TypeInv', Counts, NEW st, NEW n, Cuts(st, n), 
         NEW s, NEW m, m = n + 1, s = [st EXCEPT ![m + 1] = gpc'],
         tape' = tape, gpc <= gpc', gbreak = "TIME_BREAK",
         \A p \in 1 .. gpc : hctr'[p] = hctr[p],
         IF gbreak' = "DONE_BREAK" THEN LastCut(tape, hctr', st[m], gpc')
                                   ELSE TimeCut(tape, hctr', st[m], gpc')
  PROVE  Cuts(s, m)'
  <1>1. n \in Nat /\ st \in [Nat -> Nat] /\ st[1] = 1 /\ \A k \in 1 .. n + 1 : st[k] \in 1 .. gpc
    BY DEF Cuts
  <1>2. gpc \in Nat /\ gpc' \in Nat /\ gpc' >= 1
    BY TapeFacts DEF TypeInv
  <1>3. /\ s \in [Nat -> Nat] /\ s[n + 2] = gpc' /\ n + 2 \in Nat /\ n + 1 + 1 = n + 2 /\ m + 1 = n + 2
        /\ \A k \in 1 .. n + 1 : s[k] = st[k]
    BY <1>1, <1>2
  <1>4. 1 \in 1 .. n + 1 /\ n + 1 \in 1 .. n + 1
    BY <1>1
  <1>5. \A k \in 1 .. (n + 1) + 1 : s[k] \in 1 .. gpc'
    <2> TAKE k \in 1 .. (n + 1) + 1
    <2>1. k \in 1 .. n + 1 \/ k = n + 2
      BY <1>1
    <2>2. QED
      BY <1>1, <1>2, <1>3, <2>1
  <1>6. \A k \in 1 .. n : TimeCut(tape, hctr', s[k], s[k + 1])
    <2> TAKE k \in 1 .. n
    <2>1. k \in 1 .. n + 1 /\ k + 1 \in 1 .. n + 1
      BY <1>1
    <2>2. s[k] = st[k] /\ s[k + 1] = st[k + 1] /\ st[k] \in 1 .. gpc /\ st[k + 1] \in 1 .. gpc
      BY <1>1, <1>3, <2>1
    <2>3. TimeCut(tape, hctr, st[k], st[k + 1])
      BY DEF Cuts
    <2>4. /\ st[k] \in Nat /\ st[k + 1] \in Nat
          /\ \A p \in st[k] .. st[k + 1] : hctr'[p] = hctr[p]
      BY <1>2, <2>2
    <2>5. TimeCut(tape, hctr', st[k], st[k + 1])
      BY <2>3, <2>4, SameCuts
    <2>6. QED
      BY <2>2, <2>5
  <1>7. \A k \in 1 .. n + 1 : IF k = n + 1 /\ gbreak' = "DONE_BREAK"
                             THEN LastCut(tape, hctr', s[k], s[k + 1])
                             ELSE TimeCut(tape, hctr', s[k], s[k + 1])
    <2> TAKE k \in 1 .. n + 1
    <2>1. CASE k \in 1 .. n
      <3>1. k # n + 1
        BY <1>1, <2>1
      <3>2. QED
        BY <1>6, <2>1, <3>1
    <2>2. CASE k = n + 1
      <3>1. s[k] = st[n + 1] /\ s[k + 1] = gpc'
        BY <1>3, <1>4, <2>2
      <3>2. QED
        BY <2>2, <3>1
    <2>3. QED
      BY <1>1, <2>1, <2>2
  <1>8. s[1] = 1
    BY <1>1, <1>3, <1>4
  <1>9. QED
    BY <1>1, <1>3, <1>4, <1>5, <1>7, <1>8 DEF Cuts

(* GarblerExecute                                                           *)
LEMMA GarblerExecuteStep ==
  ASSUME TypeInv, TypeInv', Counts, mode # "simulate", NEW st, NEW n, NEW r, NEW e,
         Joint(st, n, r, e), GarblerExecute
  PROVE  BatchesInv'
  <1> DEFINE x == tape[gpc]
             a == st[n + 1]
  <1>1. /\ gstate = "execute" /\ gpc \in DOMAIN tape /\ gpc' = gpc + 1
        /\ UNCHANGED <<mode, tape, chan, evaluator>>
        /\ IF TimeBreak(x, gcomplexity)
           THEN GarblerBreak("TIME_BREAK")
           ELSE gcomplexity' = Complexity(x, gcomplexity) /\ UNCHANGED <<gstate, gbreak>>
    BY DEF GarblerExecute
  <1>2. GarblerInv(st, n) /\ ChanInv(st, n, r) /\ EvaluatorInv(st, n, r, e) /\ Cuts(st, n)
    BY DEF Joint, GarblerInv
  <1>3. /\ n \in Nat /\ n + 1 \in 1 .. n + 1 /\ a \in 1 .. gpc /\ gpc \in Nat /\ a \in Nat /\ a <= gpc
    <2>1. gpc \in Nat
      BY TapeFacts DEF TypeInv
    <2>2. n \in Nat /\ n + 1 \in 1 .. n + 1
      BY <1>2 DEF Cuts
    <2>3. a \in 1 .. gpc
      BY <1>2, <2>2 DEF Cuts
    <2>4. QED
      BY <2>1, <2>2, <2>3
  <1>4. /\ gbreak = "TIME_BREAK" /\ Unbroken(tape, hctr, a, gpc)
        /\ gcomplexity = hctr[gpc] - hctr[a]
        /\ IsSeq(ggates) /\ Len(ggates) = hctr[gpc] - hctr[a]
        /\ IsSeq(gmasks) /\ Len(gmasks) = hout[gpc] - hout[a]
    BY <1>1, <1>2 DEF GarblerInv, Holds
  <1>5. /\ \A p \in 1 .. gpc : hctr'[p] = hctr[p] /\ hout'[p] = hout[p]
        /\ hctr'[gpc + 1] = Complexity(x, hctr[gpc])
        /\ Len(ggates') = Len(ggates) + (hctr'[gpc + 1] - hctr[gpc])
        /\ Len(gmasks') = Len(gmasks) + (hout'[gpc + 1] - hout[gpc])
        /\ hctr'[gpc + 1] \in Nat /\ hout'[gpc + 1] \in Nat
        /\ IsSeq(ggates') /\ IsSeq(gmasks')
    BY <1>4, CountsGrow
  <1>6. /\ hctr[gpc] \in Nat /\ hctr[a] \in Nat /\ hout[gpc] \in Nat /\ hout[a] \in Nat
        /\ hctr'[a] = hctr[a] /\ hout'[a] = hout[a] /\ hctr'[gpc] = hctr[gpc]
    BY <1>3, <1>5, CountTypes
  <1>7. Holds(ggates', hctr', a, gpc + 1) /\ Holds(gmasks', hout', a, gpc + 1)
    <2>1. (hctr[gpc] - hctr[a]) + (hctr'[gpc + 1] - hctr[gpc]) = hctr'[gpc + 1] - hctr[a]
      BY <1>5, <1>6
    <2>2. (hout[gpc] - hout[a]) + (hout'[gpc + 1] - hout[gpc]) = hout'[gpc + 1] - hout[a]
      BY <1>5, <1>6, SMTT(30)
    <2>3. QED
      BY <1>4, <1>5, <1>6, <2>1, <2>2 DEF Holds
  <1>8. Unbroken(tape, hctr', a, gpc)
    <2>1. \A p \in a .. gpc : hctr'[p] = hctr[p]
      BY <1>3, <1>5
    <2>2. QED
      BY <1>3, <1>4, <2>1, SameCuts
  <1>9. TimeBreak(x, gcomplexity) <=> Breaks(tape, hctr', a, gpc)
    BY <1>4, <1>6 DEF Breaks
  <1>10. GatesSent(n) = n /\ MasksSent(n) = n /\ EndSent = 0
    BY <1>1 DEF GatesSent, MasksSent, EndSent
  <1>11. CASE ~ TimeBreak(x, gcomplexity)
    <2>1. gcomplexity' = Complexity(x, gcomplexity) /\ UNCHANGED <<gstate, gbreak>>
      BY <1>1, <1>11
    <2>2. gcomplexity' = hctr'[gpc + 1] - hctr'[a]
      BY <1>4, <1>5, <1>6, <2>1, SMTT(30) DEF Complexity
    <2>3. Unbroken(tape, hctr', a, gpc + 1)
      <3> SUFFICES ASSUME NEW p \in a .. (gpc + 1) - 1 PROVE ~ Breaks(tape, hctr', a, p)
        BY DEF Unbroken
      <3>1. p = gpc \/ p \in a .. gpc - 1
        BY <1>3
      <3>2. QED
        BY <1>8, <1>9, <1>11, <3>1 DEF Unbroken
    <2>4. Cuts(st, n)'
      <3>1. \A k \in 1 .. n : TimeCut(tape, hctr', st[k], st[k + 1])
        <4> TAKE k \in 1 .. n
        <4>1. /\ st[k] \in 1 .. gpc /\ st[k + 1] \in 1 .. gpc
              /\ TimeCut(tape, hctr, st[k], st[k + 1])
          BY <1>2, <1>4, CutFacts
        <4>2. /\ st[k] \in Nat /\ st[k + 1] \in Nat
              /\ \A p \in st[k] .. st[k + 1] : hctr'[p] = hctr[p]
          BY <1>3, <1>5, <4>1, SMTT(30)
        <4>3. QED
          BY <4>1, <4>2, SameCuts
      <3>2. \A k \in 1 .. n + 1 : st[k] \in 1 .. gpc + 1
        BY <1>2, <1>3 DEF Cuts
      <3>3. QED
        BY <1>1, <1>2, <1>4, <2>1, <3>1, <3>2 DEF Cuts
    <2>5. GarblerInv(st, n)'
      BY <1>1, <1>4, <1>7, <2>1, <2>2, <2>3, <2>4 DEF GarblerInv
    <2>6. GatesSent(n)' = n /\ MasksSent(n)' = n /\ EndSent' = 0
      BY <1>1, <2>1 DEF GatesSent, MasksSent, EndSent
    <2>7. ChanInv(st, n, r)'
      BY <1>1, <1>5, <1>10, <2>6, ChanUntouched
    <2>8. EvaluatorInv(st, n, r, e)'
      BY <1>1, <1>3, <1>5, <1>10, <2>6, EvaluatorUntouched, SMTT(30)
    <2>9. QED
      BY <2>5, <2>7, <2>8 DEF BatchesInv
  <1>12. CASE TimeBreak(x, gcomplexity)
    <2>1. gbreak' = "TIME_BREAK" /\ gcomplexity' = 0 /\ gstate' = "send_gates"
      BY <1>1, <1>12 DEF GarblerBreak
    <2>2. TimeCut(tape, hctr', a, gpc')
      BY <1>1, <1>3, <1>8, <1>9, <1>12 DEF TimeCut
    <2>0. PICK s, m : m = n + 1 /\ s = [st EXCEPT ![m + 1] = gpc']
      OBVIOUS
    <2>3. /\ Cuts(s, m)' /\ s[m] = st[m] /\ s[m + 1] = gpc'
          /\ \A k \in 1 .. n + 1 : s[k] = st[k]
      <3>1. /\ Cuts(st, n) /\ tape' = tape /\ gpc <= gpc' /\ gbreak = "TIME_BREAK"
            /\ \A p \in 1 .. gpc : hctr'[p] = hctr[p]
        BY <1>1, <1>2, <1>3, <1>4, <1>5
      <3>2. IF gbreak' = "DONE_BREAK" THEN LastCut(tape, hctr', st[m], gpc')
                                      ELSE TimeCut(tape, hctr', st[m], gpc')
        BY <2>0, <2>1, <2>2
      <3>3. Cuts(s, m)'
        BY <2>0, <3>1, <3>2, CutsGrow
      <3>4. s[m] = st[m] /\ s[m + 1] = gpc' /\ \A k \in 1 .. n + 1 : s[k] = st[k]
        BY <1>2, <1>3, <2>0 DEF Cuts
      <3>5. QED
        BY <3>3, <3>4
    <2>4. m = n + 1 /\ m > 0 /\ m - 1 = n
      BY <1>3, <2>0
    <2>5. GarblerInv(s, m)'
      BY <1>1, <1>7, <2>1, <2>3, <2>4 DEF GarblerInv
    <2>6. GatesSent(m)' = n /\ MasksSent(m)' = n /\ EndSent' = 0
      BY <1>3, <2>1, <2>4 DEF GatesSent, MasksSent, EndSent
    <2>7. ChanInv(s, m, r)'
      BY <1>1, <1>5, <1>10, <2>3, <2>6, ChanUntouched
    <2>8. EvaluatorInv(s, m, r, e)'
      BY <1>1, <1>3, <1>5, <1>10, <2>3, <2>6, EvaluatorUntouched
    <2>9. QED
      BY <2>5, <2>7, <2>8 DEF BatchesInv
  <1>13. QED
    BY <1>11, <1>12

(* GarblerEnd                                                               *)
LEMMA GarblerEndStep ==
  ASSUME TypeInv, TypeInv', Counts, mode # "simulate", NEW st, NEW n, NEW r, NEW e,
         Joint(st, n, r, e), GarblerEnd
  PROVE  BatchesInv'
  <1> DEFINE a == st[n + 1]
  <1>1. /\ gstate = "execute" /\ gpc \notin DOMAIN tape /\ GarblerBreak("DONE_BREAK")
        /\ UNCHANGED <<mode, tape, garbling, ggates, gmasks, chan, evaluator>>
    BY DEF GarblerEnd
  <1>2. GarblerInv(st, n) /\ ChanInv(st, n, r) /\ EvaluatorInv(st, n, r, e) /\ Cuts(st, n)
    BY DEF Joint, GarblerInv
  <1>3. UNCHANGED <<gpc, hctr, hout>>
    BY <1>1 DEF garbling
  <1>4. n \in Nat /\ n + 1 \in 1 .. n + 1 /\ a \in 1 .. gpc /\ gpc \in Nat /\ gpc = Len(tape) + 1
    <2>1. n \in Nat /\ n + 1 \in 1 .. n + 1
      BY <1>2 DEF Cuts
    <2>2. a \in 1 .. gpc
      BY <1>2, <2>1 DEF Cuts
    <2>3. gpc \in 1 .. Len(tape) + 1 /\ Len(tape) \in Nat /\ gpc \notin 1 .. Len(tape)
      BY <1>1, TapeFacts DEF TypeInv
    <2>4. QED
      BY <2>1, <2>2, <2>3
  <1>5. /\ gbreak = "TIME_BREAK" /\ Unbroken(tape, hctr, a, gpc)
        /\ Holds(ggates, hctr, a, gpc) /\ Holds(gmasks, hout, a, gpc)
    BY <1>1, <1>2 DEF GarblerInv
  <1>6. gbreak' = "DONE_BREAK" /\ gcomplexity' = 0 /\ gstate' = "send_gates"
    BY <1>1 DEF GarblerBreak
  <1>7. PICK s, m : m = n + 1 /\ s = [st EXCEPT ![m + 1] = gpc']
    OBVIOUS
  <1>8. /\ Cuts(s, m)' /\ s[m] = st[m] /\ s[m + 1] = gpc'
        /\ \A k \in 1 .. n + 1 : s[k] = st[k]
    <2>1. IF gbreak' = "DONE_BREAK" THEN LastCut(tape, hctr', st[m], gpc')
                                    ELSE TimeCut(tape, hctr', st[m], gpc')
      BY <1>3, <1>4, <1>5, <1>6, <1>7 DEF LastCut
    <2>2. /\ tape' = tape /\ gpc <= gpc' /\ \A p \in 1 .. gpc : hctr'[p] = hctr[p]
      BY <1>1, <1>3, <1>4
    <2>3. Cuts(s, m)'
      BY <1>2, <1>5, <1>7, <2>1, <2>2, CutsGrow
    <2>4. s[m] = st[m] /\ s[m + 1] = gpc' /\ \A k \in 1 .. n + 1 : s[k] = st[k]
      BY <1>2, <1>4, <1>7 DEF Cuts
    <2>5. QED
      BY <2>3, <2>4
  <1>9. m = n + 1 /\ m > 0 /\ m - 1 = n
    BY <1>4, <1>7
  <1>10. GarblerInv(s, m)'
    BY <1>1, <1>3, <1>5, <1>6, <1>8, <1>9 DEF GarblerInv
  <1>11. GatesSent(n) = n /\ MasksSent(n) = n /\ EndSent = 0
    BY <1>1 DEF GatesSent, MasksSent, EndSent
  <1>12. GatesSent(m)' = n /\ MasksSent(m)' = n /\ EndSent' = 0
    BY <1>4, <1>6, <1>9 DEF GatesSent, MasksSent, EndSent
  <1>13. ChanInv(s, m, r)'
    BY <1>1, <1>3, <1>8, <1>11, <1>12, ChanUntouched
  <1>14. EvaluatorInv(s, m, r, e)'
    BY <1>1, <1>3, <1>4, <1>8, <1>11, <1>12, EvaluatorUntouched
  <1>15. QED
    BY <1>10, <1>13, <1>14 DEF BatchesInv

(* A message is added at the end: the others stay where they are.           *)
LEMMA ChanGrows ==
  ASSUME NEW st, NEW n, NEW r, GarblerInv(st, n), ChanInv(st, n, r),
         NEW mg, chan' = Append(chan, mg), EndSent = 0,
         UNCHANGED <<estate, hctr, hout>>
  PROVE  /\ IsSeq(chan') /\ Len(chan') = Sent(n) - Taken(r) + 1 /\ chan'[Len(chan')] = mg
         /\ \A k \in GatesTaken(r) + 1 .. GatesSent(n) :
              Carries(chan'[GatesAt(k, r)], "gates", hctr', st[k], st[k + 1])
         /\ \A k \in r + 1 .. MasksSent(n) :
              Carries(chan'[MasksAt(k, r)], "masks", hout', st[k], st[k + 1])
         /\ GatesTaken(r)' = GatesTaken(r) /\ Taken(r)' = Taken(r)
         /\ \A k : GatesAt(k, r)' = GatesAt(k, r) /\ MasksAt(k, r)' = MasksAt(k, r)
  <1>1. /\ Taken(r) \in Nat /\ Sent(n) \in Int
        /\ IsSeq(chan) /\ Len(chan) \in Nat /\ Len(chan) = Sent(n) - Taken(r) + EndSent
        /\ \A k \in GatesTaken(r) + 1 .. GatesSent(n) :
             k \in Int /\ GatesAt(k, r) \in 1 .. Sent(n) - Taken(r)
        /\ \A k \in r + 1 .. MasksSent(n) : k \in Int /\ MasksAt(k, r) \in 1 .. Sent(n) - Taken(r)
    BY ChanFacts
  <1>2. Len(chan) = Sent(n) - Taken(r)
    BY <1>1
  <1>3. /\ IsSeq(chan') /\ Len(chan') = Len(chan) + 1 /\ chan'[Len(chan) + 1] = mg
        /\ \A k \in 1 .. Len(chan) : chan'[k] = chan[k]
    BY <1>1, AppendFacts
  <1>4. \A k \in GatesTaken(r) + 1 .. GatesSent(n) :
          Carries(chan'[GatesAt(k, r)], "gates", hctr', st[k], st[k + 1])
    BY <1>1, <1>2, <1>3 DEF ChanInv
  <1>5. \A k \in r + 1 .. MasksSent(n) :
          Carries(chan'[MasksAt(k, r)], "masks", hout', st[k], st[k + 1])
    BY <1>1, <1>2, <1>3 DEF ChanInv
  <1>6. GatesTaken(r)' = GatesTaken(r) /\ Taken(r)' = Taken(r)
    BY DEF GatesTaken, Taken
  <1>7. \A k : GatesAt(k, r)' = GatesAt(k, r) /\ MasksAt(k, r)' = MasksAt(k, r)
    BY <1>6 DEF GatesAt, MasksAt
  <1>8. QED
    BY <1>2, <1>3, <1>4, <1>5, <1>6, <1>7

(* GarblerSendGates                                                         *)
LEMMA SendGatesStep ==
  ASSUME TypeInv, Counts, mode # "simulate", NEW st, NEW n, NEW r, NEW e,
         Joint(st, n, r, e), GarblerSendGates
  PROVE  Joint(st, n, r, e)'
  <1>1. /\ gstate = "send_gates" /\ gstate' = "send_masks"
        /\ chan' = Append(chan, Message("gates", ggates))
        /\ UNCHANGED <<mode, tape, garbling, gcomplexity, gbreak, ggates, gmasks, evaluator>>
    BY DEF GarblerSendGates, Send
  <1>2. GarblerInv(st, n) /\ ChanInv(st, n, r) /\ EvaluatorInv(st, n, r, e) /\ Cuts(st, n)
    BY DEF Joint, GarblerInv
  <1>3. UNCHANGED <<gpc, hctr, hout, estate>>
    BY <1>1 DEF garbling, evaluator
  <1>4. /\ n \in Nat /\ n > 0 /\ st[n + 1] = gpc /\ r \in Nat /\ Taken(r) \in Nat
        /\ r <= MasksSent(n) /\ GatesTaken(r) <= GatesSent(n)
        /\ GatesTaken(r) = r \/ GatesTaken(r) = r + 1
    BY <1>1, <1>2, ChanFacts DEF GarblerInv
  <1>5. /\ GatesSent(n) = n - 1 /\ MasksSent(n) = n - 1 /\ EndSent = 0
        /\ GatesSent(n)' = n /\ MasksSent(n)' = n - 1 /\ EndSent' = 0
        /\ Sent(n) = (n - 1) + (n - 1) /\ Sent(n)' = n + (n - 1)
    BY <1>1 DEF GatesSent, MasksSent, EndSent, Sent
  <1>6. /\ IsSeq(chan') /\ Len(chan') = Sent(n) - Taken(r) + 1
        /\ chan'[Len(chan')] = Message("gates", ggates)
        /\ \A k \in GatesTaken(r) + 1 .. GatesSent(n) :
             Carries(chan'[GatesAt(k, r)], "gates", hctr', st[k], st[k + 1])
        /\ \A k \in r + 1 .. MasksSent(n) :
             Carries(chan'[MasksAt(k, r)], "masks", hout', st[k], st[k + 1])
        /\ GatesTaken(r)' = GatesTaken(r) /\ Taken(r)' = Taken(r)
        /\ \A k : GatesAt(k, r)' = GatesAt(k, r) /\ MasksAt(k, r)' = MasksAt(k, r)
    BY <1>1, <1>2, <1>3, <1>5, ChanGrows
  <1>7. GarblerInv(st, n)'
    <2>1. Cuts(st, n)'
      BY <1>1, <1>2, <1>3 DEF Cuts
    <2>2. QED
      BY <1>1, <1>2, <1>3, <2>1 DEF GarblerInv
  <1>8. Carries(chan'[GatesAt(n, r)], "gates", hctr', st[n], st[n + 1])
    <2>1. GatesAt(n, r) = 2 * n - 1 - Taken(r)
      BY DEF GatesAt
    <2>2. GatesAt(n, r) = Len(chan')
      BY <1>4, <1>5, <1>6, <2>1
    <2>3. Holds(ggates, hctr', st[n], st[n + 1])
      BY <1>1, <1>2, <1>3, <1>4 DEF GarblerInv
    <2>4. QED
      BY <1>6, <2>2, <2>3 DEF Carries, Message
  <1>9. \A k \in GatesTaken(r) + 1 .. n :
          Carries(chan'[GatesAt(k, r)], "gates", hctr', st[k], st[k + 1])
    <2> TAKE k \in GatesTaken(r) + 1 .. n
    <2>1. k = n \/ k \in GatesTaken(r) + 1 .. n - 1
      BY <1>4
    <2>2. QED
      BY <1>5, <1>6, <1>8, <2>1
  <1>10. ChanInv(st, n, r)'
    <2>1. Len(chan') = Sent(n)' - Taken(r) + 0
      BY <1>4, <1>5, <1>6
    <2>2. GatesTaken(r) <= n
      BY <1>4, <1>5
    <2>3. QED
      BY <1>4, <1>5, <1>6, <1>9, <2>1, <2>2, SMTT(30) DEF ChanInv
  <1>11. EvaluatorInv(st, n, r, e)'
    <2>1. GatesSent(n)' \in Int /\ GatesSent(n) <= GatesSent(n)' /\ gstate # "done"
      BY <1>1, <1>4, <1>5
    <2>3. \A k \in 1 .. n + 1 : st[k] = st[k]
      OBVIOUS
    <2>4. QED
      BY <1>1, <1>3, <1>4, <2>1, <2>3, EvaluatorUntouched
  <1>12. QED
    BY <1>7, <1>10, <1>11 DEF Joint

(* GarblerSendMasks                                                         *)
LEMMA SendMasksStep ==
  ASSUME TypeInv, Counts, mode # "simulate", NEW st, NEW n, NEW r, NEW e,
         Joint(st, n, r, e), GarblerSendMasks
  PROVE  Joint(st, n, r, e)'
  <1>1. /\ gstate = "send_masks" /\ ggates' = <<>> /\ gmasks' = <<>>
        /\ chan' = Append(chan, Message("masks", gmasks))
        /\ gbreak \in {"TIME_BREAK", "DONE_BREAK"}
        /\ gstate' = CASE gbreak = "TIME_BREAK" -> "execute"
                       [] gbreak = "DONE_BREAK" /\ mode = "store" -> "finish"
                       [] OTHER -> "done"
        /\ UNCHANGED <<mode, tape, garbling, gcomplexity, gbreak, evaluator>>
    BY DEF GarblerSendMasks, Send, TypeInv
  <1>2. GarblerInv(st, n) /\ ChanInv(st, n, r) /\ EvaluatorInv(st, n, r, e) /\ Cuts(st, n)
    BY DEF Joint, GarblerInv
  <1>3. UNCHANGED <<gpc, hctr, hout, estate>>
    BY <1>1 DEF garbling, evaluator
  <1>4. /\ n \in Nat /\ n > 0 /\ st[n + 1] = gpc /\ r \in Nat /\ Taken(r) \in Nat
        /\ r <= MasksSent(n) /\ GatesTaken(r) <= GatesSent(n)
        /\ GatesTaken(r) = r \/ GatesTaken(r) = r + 1
    BY <1>1, <1>2, ChanFacts DEF GarblerInv
  <1>5. \/ gstate' = "execute" /\ gbreak = "TIME_BREAK"
        \/ gstate' = "finish" /\ gbreak = "DONE_BREAK" /\ mode = "store"
        \/ gstate' = "done" /\ gbreak = "DONE_BREAK" /\ mode # "store"
    BY <1>1
  <1>6. /\ GatesSent(n) = n /\ MasksSent(n) = n - 1 /\ EndSent = 0
        /\ GatesSent(n)' = n /\ MasksSent(n)' = n /\ EndSent' = 0
        /\ Sent(n) = n + (n - 1) /\ Sent(n)' = n + n
    BY <1>1, <1>5 DEF GatesSent, MasksSent, EndSent, Sent
  <1>7. /\ IsSeq(chan') /\ Len(chan') = Sent(n) - Taken(r) + 1
        /\ chan'[Len(chan')] = Message("masks", gmasks)
        /\ \A k \in GatesTaken(r) + 1 .. GatesSent(n) :
             Carries(chan'[GatesAt(k, r)], "gates", hctr', st[k], st[k + 1])
        /\ \A k \in r + 1 .. MasksSent(n) :
             Carries(chan'[MasksAt(k, r)], "masks", hout', st[k], st[k + 1])
        /\ GatesTaken(r)' = GatesTaken(r) /\ Taken(r)' = Taken(r)
        /\ \A k : GatesAt(k, r)' = GatesAt(k, r) /\ MasksAt(k, r)' = MasksAt(k, r)
    BY <1>1, <1>2, <1>3, <1>6, ChanGrows
  <1>8. GarblerInv(st, n)'
    <2>1. Cuts(st, n)'
      BY <1>1, <1>2, <1>3 DEF Cuts
    <2>2. gcomplexity = 0 /\ gpc \in Nat /\ hctr[gpc] \in Nat /\ hout[gpc] \in Nat
      BY <1>1, <1>2, CountTypes DEF GarblerInv
    <2>3. Unbroken(tape, hctr, gpc, gpc)
      BY <2>2 DEF Unbroken
    <2>4. Holds(<<>>, hctr, gpc, gpc) /\ Holds(<<>>, hout, gpc, gpc)
      BY <2>2, EmptyFacts DEF Holds
    <2>5. gcomplexity = hctr[gpc] - hctr[gpc]
      BY <2>2
    <2>6. QED
      BY <1>1, <1>3, <1>4, <1>5, <2>1, <2>2, <2>3, <2>4, <2>5 DEF GarblerInv
  <1>9. Carries(chan'[MasksAt(n, r)], "masks", hout', st[n], st[n + 1])
    <2>1. MasksAt(n, r) = 2 * n - Taken(r)
      BY DEF MasksAt
    <2>2. MasksAt(n, r) = Len(chan')
      BY <1>4, <1>6, <1>7, <2>1
    <2>3. Holds(gmasks, hout', st[n], st[n + 1])
      BY <1>1, <1>2, <1>3, <1>4 DEF GarblerInv
    <2>4. QED
      BY <1>7, <2>2, <2>3 DEF Carries, Message
  <1>10. \A k \in r + 1 .. n : Carries(chan'[MasksAt(k, r)], "masks", hout', st[k], st[k + 1])
    <2> TAKE k \in r + 1 .. n
    <2>1. k = n \/ k \in r + 1 .. n - 1
      BY <1>4
    <2>2. QED
      BY <1>6, <1>7, <1>9, <2>1
  <1>11. ChanInv(st, n, r)'
    <2>1. Len(chan') = Sent(n)' - Taken(r) + 0
      BY <1>4, <1>6, <1>7
    <2>2. r <= n
      BY <1>4, <1>6
    <2>3. QED
      BY <1>4, <1>6, <1>7, <1>10, <2>1, <2>2 DEF ChanInv
  <1>12. EvaluatorInv(st, n, r, e)'
    <2>1. GatesSent(n)' \in Int /\ GatesSent(n) <= GatesSent(n)' /\ gstate # "done"
      BY <1>1, <1>4, <1>6
    <2>2. \A k \in 1 .. n + 1 : st[k] = st[k]
      OBVIOUS
    <2>3. QED
      BY <1>1, <1>3, <1>4, <2>1, <2>2, EvaluatorUntouched
  <1>13. QED
    BY <1>8, <1>11, <1>12 DEF Joint

(* GarblerFinish: the end marker is the last message.                       *)
LEMMA FinishStep ==
  ASSUME TypeInv, Counts, mode # "simulate", NEW st, NEW n, NEW r, NEW e,
         Joint(st, n, r, e), GarblerFinish
  PROVE  Joint(st, n, r, e)'
  <1>1. /\ gstate = "finish" /\ gstate' = "done" /\ chan' = Append(chan, EndMarker)
        /\ UNCHANGED <<mode, tape, garbling, gcomplexity, gbreak, ggates, gmasks, evaluator>>
    BY DEF GarblerFinish, Send
  <1>2. GarblerInv(st, n) /\ ChanInv(st, n, r) /\ EvaluatorInv(st, n, r, e) /\ Cuts(st, n)
    BY DEF Joint, GarblerInv
  <1>3. UNCHANGED <<gpc, hctr, hout, estate>>
    BY <1>1 DEF garbling, evaluator
  <1>4. mode = "store" /\ Receiving
    BY <1>1, <1>2 DEF GarblerInv, EvaluatorInv
  <1>5. /\ n \in Nat /\ r \in Nat /\ Taken(r) \in Nat
        /\ r <= MasksSent(n) /\ GatesTaken(r) <= GatesSent(n)
    BY <1>2, ChanFacts
  <1>6. /\ GatesSent(n) = n /\ MasksSent(n) = n /\ EndSent = 0
        /\ GatesSent(n)' = n /\ MasksSent(n)' = n /\ EndSent' = 1 /\ Sent(n)' = Sent(n)
    BY <1>1, <1>3, <1>4 DEF GatesSent, MasksSent, EndSent, Sent, Receiving
  <1>7. /\ IsSeq(chan') /\ Len(chan') = Sent(n) - Taken(r) + 1
        /\ chan'[Len(chan')] = EndMarker
        /\ \A k \in GatesTaken(r) + 1 .. GatesSent(n) :
             Carries(chan'[GatesAt(k, r)], "gates", hctr', st[k], st[k + 1])
        /\ \A k \in r + 1 .. MasksSent(n) :
             Carries(chan'[MasksAt(k, r)], "masks", hout', st[k], st[k + 1])
        /\ GatesTaken(r)' = GatesTaken(r) /\ Taken(r)' = Taken(r)
        /\ \A k : GatesAt(k, r)' = GatesAt(k, r) /\ MasksAt(k, r)' = MasksAt(k, r)
    BY <1>1, <1>2, <1>3, <1>6, ChanGrows
  <1>8. GarblerInv(st, n)'
    <2>1. Cuts(st, n)'
      BY <1>1, <1>2, <1>3 DEF Cuts
    <2>2. QED
      BY <1>1, <1>2, <1>3, <2>1 DEF GarblerInv
  <1>9. ChanInv(st, n, r)'
    BY <1>5, <1>6, <1>7 DEF ChanInv
  <1>10. EvaluatorInv(st, n, r, e)'
    <2>1. GatesSent(n)' \in Int /\ GatesSent(n) <= GatesSent(n)' /\ gstate # "done"
      BY <1>1, <1>5, <1>6
    <2>2. \A k \in 1 .. n + 1 : st[k] = st[k]
      OBVIOUS
    <2>3. QED
      BY <1>1, <1>3, <1>5, <2>1, <2>2, EvaluatorUntouched
  <1>11. QED
    BY <1>8, <1>9, <1>10 DEF Joint

-----------------------------------------------------------------------------
(* One process: yao-simulate.x.                                             *)

(* The garbler runs alone and fills its buffers.                            *)
LEMMA SimulateGarblerStep ==
  ASSUME TypeInv, Counts, mode = "simulate", SimulateInv, GarblerExecute \/ GarblerEnd
  PROVE  SimulateInv'
  <1>1. gstate = "execute" /\ UNCHANGED <<mode, tape, chan, evaluator>>
    BY DEF GarblerExecute, GarblerEnd
  <1>2. /\ estate = "wait" /\ epc = 1 /\ egates = <<>> /\ emasks = <<>> /\ ecomplexity = 0
        /\ Holds(ggates, hctr, 1, gpc) /\ Holds(gmasks, hout, 1, gpc)
        /\ chan = <<>> /\ gates_store = <<>> /\ output_masks_store = <<>>
    BY <1>1 DEF SimulateInv
  <1>3. /\ UNCHANGED <<epc, estate, ecomplexity, egates, emasks>>
        /\ UNCHANGED <<gates_store, output_masks_store>>
    BY <1>1 DEF evaluator, evaluating, stores
  <1>4. CASE GarblerExecute
    <2>1. gpc' = gpc + 1 /\ gstate' = "execute"
      BY <1>1, <1>4 DEF GarblerExecute, GarblerBreak
    <2>2. IsSeq(ggates) /\ IsSeq(gmasks)
      BY <1>2 DEF Holds
    <2>3. /\ \A p \in 1 .. gpc : hctr'[p] = hctr[p] /\ hout'[p] = hout[p]
          /\ Len(ggates') = Len(ggates) + (hctr'[gpc + 1] - hctr[gpc])
          /\ Len(gmasks') = Len(gmasks) + (hout'[gpc + 1] - hout[gpc])
          /\ hctr'[gpc + 1] \in Nat /\ hout'[gpc + 1] \in Nat
          /\ IsSeq(ggates') /\ IsSeq(gmasks')
      BY <1>4, <2>2, CountsGrow
    <2>4. /\ hctr[gpc] \in Nat /\ hctr[1] \in Nat /\ hout[gpc] \in Nat /\ hout[1] \in Nat
          /\ hctr'[1] = hctr[1] /\ hout'[1] = hout[1]
      <3>1. 1 \in 1 .. gpc /\ gpc \in 1 .. gpc
        BY CountTypes
      <3>2. QED
        BY <2>3, <3>1, CountTypes
    <2>5. Holds(ggates', hctr', 1, gpc + 1) /\ Holds(gmasks', hout', 1, gpc + 1)
      <3>1. (hctr[gpc] - hctr[1]) + (hctr'[gpc + 1] - hctr[gpc]) = hctr'[gpc + 1] - hctr[1]
        BY <2>3, <2>4, SMTT(30)
      <3>2. (hout[gpc] - hout[1]) + (hout'[gpc + 1] - hout[gpc]) = hout'[gpc + 1] - hout[1]
        BY <2>3, <2>4, SMTT(30)
      <3>3. QED
        BY <1>2, <2>3, <2>4, <3>1, <3>2 DEF Holds
    <2>6. QED
      BY <1>1, <1>2, <1>3, <2>1, <2>5 DEF SimulateInv
  <1>5. CASE GarblerEnd
    <2>1. /\ gstate' = "done" /\ gpc \notin DOMAIN tape
          /\ UNCHANGED <<gpc, hctr, hout, ggates, gmasks>>
      BY <1>5 DEF GarblerEnd, GarblerBreak, garbling
    <2>2. gpc = Len(tape) + 1
      <3>1. gpc \in 1 .. Len(tape) + 1 /\ Len(tape) \in Nat /\ gpc \notin 1 .. Len(tape)
        BY <2>1, TapeFacts DEF TypeInv
      <3>2. QED
        BY <3>1
    <2>3. QED
      BY <1>1, <1>2, <1>3, <2>1, <2>2 DEF SimulateInv
  <1>6. QED
    BY <1>4, <1>5

(* The evaluator takes the buffers over and empties them.                   *)
LEMMA SimulateEvaluatorStep ==
  ASSUME TypeInv, Counts, epc <= gpc, mode = "simulate", SimulateInv,
         EvaluatorHandover \/ EvaluatorExecute \/ EvaluatorEnd
  PROVE  SimulateInv' /\ epc' <= gpc'
  <1>1. UNCHANGED <<mode, tape, gpc, hctr, hout, gstate, chan, gates_store, output_masks_store>>
    BY DEF EvaluatorHandover, EvaluatorExecute, EvaluatorEnd, garbler, garbling, stores
  <1>2. CASE EvaluatorHandover
    <2>1. /\ estate = "wait" /\ gstate = "done" /\ estate' = "execute"
          /\ egates' = ggates /\ ggates' = <<>> /\ emasks' = gmasks /\ gmasks' = <<>>
          /\ UNCHANGED epc
      BY <1>2 DEF EvaluatorHandover, evaluating
    <2>2. QED
      BY <1>1, <2>1 DEF SimulateInv
  <1>3. CASE EvaluatorExecute
    <2> DEFINE x == tape[epc]
               c == IF x.op = "and" THEN 1 ELSE 0
               d == IF x.op = "reveal" THEN 1 ELSE 0
    <2>1. /\ estate = "execute" /\ epc \in DOMAIN tape /\ E!Eval(x) /\ epc' = epc + 1
          /\ UNCHANGED <<ggates, gmasks>>
      BY <1>3 DEF EvaluatorExecute, garbler
    <2>2. estate' = "execute"
      BY <1>3, <2>1 DEF EvaluatorExecute, AfterTimeBreak
    <2>3. /\ gstate = "done" /\ ggates = <<>> /\ gmasks = <<>> /\ gpc = Len(tape) + 1
          /\ IsSeq(egates) /\ Len(egates) = hctr[gpc] - hctr[epc]
          /\ IsSeq(emasks) /\ Len(emasks) = hout[gpc] - hout[epc]
      BY <2>1 DEF SimulateInv, Holds
    <2>4. x \in Entry /\ epc \in 1 .. Len(tape) /\ Len(tape) \in Nat
      BY <2>1, TapeFacts DEF TypeInv
    <2>5. epc \in 1 .. gpc - 1 /\ epc \in 1 .. gpc /\ epc + 1 \in 1 .. gpc /\ epc + 1 <= gpc
      BY <2>3, <2>4
    <2>6. hctr[epc + 1] = Complexity(x, hctr[epc]) /\ hout[epc + 1] = hout[epc] + d
      BY <2>5 DEF Counts
    <2>7. /\ hctr[epc] \in Nat /\ hout[epc] \in Nat /\ hctr[gpc] \in Nat /\ hout[gpc] \in Nat
          /\ hctr[epc + 1] \in Nat /\ hout[epc + 1] \in Nat
      BY <2>5, CountTypes
    <2>8. hctr[epc + 1] = hctr[epc] + c /\ c \in Nat /\ d \in Nat
      BY <2>6, <2>7 DEF Complexity
    <2>9. /\ IsSeq(egates') /\ IsSeq(emasks')
          /\ Len(egates') = Len(egates) - c /\ Len(emasks') = Len(emasks) - d
      BY <2>1, <2>3, <2>4, EvalFacts
    <2> HIDE DEF c, d
    <2>10. Holds(egates', hctr, epc + 1, gpc) /\ Holds(emasks', hout, epc + 1, gpc)
      <3>1. (hctr[gpc] - hctr[epc]) - c = hctr[gpc] - (hctr[epc] + c)
        BY <2>7, <2>8, Balance
      <3>2. (hout[gpc] - hout[epc]) - d = hout[gpc] - (hout[epc] + d)
        BY <2>7, <2>8, Balance
      <3>3. QED
        BY <2>3, <2>6, <2>8, <2>9, <3>1, <3>2 DEF Holds
    <2>11. QED
      BY <1>1, <2>1, <2>2, <2>3, <2>5, <2>10 DEF SimulateInv
  <1>4. CASE EvaluatorEnd
    <2>1. /\ estate = "execute" /\ epc \notin DOMAIN tape /\ estate' = "done"
          /\ UNCHANGED <<epc, egates, emasks, ggates, gmasks>>
      BY <1>4 DEF EvaluatorEnd, evaluating, garbler
    <2>2. gpc = Len(tape) + 1 /\ gstate = "done"
      BY <2>1 DEF SimulateInv
    <2>3. epc = gpc
      <3>1. epc \in 1 .. Len(tape) + 1 /\ Len(tape) \in Nat /\ epc \notin 1 .. Len(tape)
        BY <2>1, TapeFacts DEF TypeInv
      <3>2. QED
        BY <2>2, <3>1
    <2>4. QED
      BY <1>1, <2>1, <2>2, <2>3 DEF SimulateInv
  <1>5. QED
    BY <1>2, <1>3, <1>4

-----------------------------------------------------------------------------
(* The invariant is inductive.                                              *)

(* The buffers of the garbler are sequences while it executes.              *)
LEMMA GarblerBuffers ==
  ASSUME IInv, gstate = "execute"
  PROVE  IsSeq(ggates) /\ IsSeq(gmasks)
  <1>1. CASE mode = "simulate"
    BY <1>1 DEF IInv, SimulateInv, Holds
  <1>2. CASE mode # "simulate"
    <2>1. PICK st, n, r, e : GarblerInv(st, n)
      BY <1>2 DEF IInv, BatchesInv
    <2>2. QED
      BY <2>1 DEF GarblerInv, Holds
  <1>3. QED
    BY <1>1, <1>2

(* Types, and the counts, which only GarblerExecute extends.                *)
LEMMA TypesKept ==
  ASSUME IInv, Next
  PROVE  TypeInv' /\ Counts'
  <1>1. TypeInv /\ Counts /\ Len(tape) \in Nat /\ DOMAIN tape = 1 .. Len(tape)
    BY TapeFacts DEF IInv, TypeInv
  <1>2. UNCHANGED <<mode, tape>>
    BY DEF Next, GarblerNext, EvaluatorNext, GarblerExecute, GarblerEnd, GarblerSendGates,
           GarblerSendMasks, GarblerFinish, EvaluatorHandover, EvaluatorPeek, EvaluatorReceiveGates,
           EvaluatorReceiveMasks, EvaluatorPop, EvaluatorExecute, EvaluatorEnd
  <1>3. ASSUME UNCHANGED garbling PROVE Counts' /\ UNCHANGED <<gpc, gcounter>>
    BY <1>1, <1>2, <1>3 DEF garbling, Counts
  <1>4. CASE GarblerExecute
    <2>1. gstate = "execute" /\ UNCHANGED evaluator
      BY <1>4 DEF GarblerExecute
    <2>2. IsSeq(ggates) /\ IsSeq(gmasks)
      BY <2>1, GarblerBuffers
    <2>3. Counts' /\ gpc + 1 \in 1 .. Len(tape) + 1
      BY <1>1, <1>4, <2>2, CountsGrow
    <2>4. gpc \in DOMAIN tape /\ G!Garble(tape[gpc]) /\ gpc' = gpc + 1
      BY <1>4 DEF GarblerExecute
    <2>5. gcounter' \in Nat
      <3>1. tape[gpc] \in Entry
        BY <1>1, <2>4, TapeFacts DEF TypeInv
      <3>2. QED
        BY <1>1, <2>2, <2>4, <3>1, GarbleFacts DEF TypeInv
    <2>6. /\ gcomplexity' \in Nat /\ gbreak' \in {"TIME_BREAK", "DONE_BREAK"}
          /\ gstate' \in {"execute", "send_gates", "done"}
      BY <1>1, <1>4 DEF GarblerExecute, GarblerBreak, Complexity, TypeInv
    <2>7. QED
      BY <1>1, <1>2, <2>1, <2>3, <2>4, <2>5, <2>6 DEF TypeInv, evaluator, evaluating
  <1>5. CASE GarblerEnd
    <2>1. /\ UNCHANGED <<garbling, epc, estate, ecomplexity>>
          /\ gcomplexity' = 0 /\ gbreak' = "DONE_BREAK" /\ gstate' \in {"send_gates", "done"}
      BY <1>5 DEF GarblerEnd, GarblerBreak, evaluator, evaluating
    <2>2. QED
      BY <1>1, <1>2, <1>3, <2>1 DEF TypeInv
  <1>6. CASE GarblerSendGates \/ GarblerSendMasks \/ GarblerFinish
    <2>1. /\ UNCHANGED <<garbling, epc, estate, ecomplexity, gcomplexity, gbreak>>
          /\ gstate' \in {"send_masks", "execute", "finish", "done"}
      BY <1>1, <1>6 DEF GarblerSendGates, GarblerSendMasks, GarblerFinish, evaluator, evaluating, TypeInv
    <2>2. QED
      BY <1>1, <1>2, <1>3, <2>1 DEF TypeInv
  <1>7. CASE \/ EvaluatorHandover \/ EvaluatorPeek \/ EvaluatorReceiveGates
             \/ EvaluatorReceiveMasks \/ EvaluatorPop \/ EvaluatorEnd
    <2>1. /\ UNCHANGED <<garbling, epc, ecomplexity, gcomplexity, gbreak, gstate>>
          /\ estate' \in {"execute", "pop", "receive_gates", "receive_masks", "peek", "done"}
      BY <1>7 DEF EvaluatorHandover, EvaluatorPeek, EvaluatorReceiveGates, EvaluatorReceiveMasks,
                  EvaluatorPop, EvaluatorEnd, garbler, evaluating
    <2>2. QED
      BY <1>1, <1>2, <1>3, <2>1 DEF TypeInv
  <1>8. CASE EvaluatorExecute
    <2>1. /\ UNCHANGED garbler /\ epc \in DOMAIN tape /\ epc' = epc + 1
          /\ estate' \in {"execute", "pop", "receive_gates"}
          /\ ecomplexity' \in {0, Complexity(tape[epc], ecomplexity)}
      BY <1>1, <1>8 DEF EvaluatorExecute, AfterTimeBreak, TypeInv
    <2>2. ecomplexity' \in Nat /\ epc' \in 1 .. Len(tape) + 1
      BY <1>1, <2>1 DEF TypeInv, Complexity
    <2>3. UNCHANGED <<garbling, gcomplexity, gbreak, gstate>>
      BY <2>1 DEF garbler
    <2>4. QED
      BY <1>1, <1>2, <1>3, <2>1, <2>2, <2>3 DEF TypeInv
  <1>9. QED
    BY <1>4, <1>5, <1>6, <1>7, <1>8 DEF Next, GarblerNext, EvaluatorNext

(* Every step of the one process keeps its invariant.                       *)
LEMMA SimulateStep ==
  ASSUME IInv, mode = "simulate", Next
  PROVE  SimulateInv' /\ epc' <= gpc'
  <1>1. TypeInv /\ Counts /\ epc <= gpc /\ SimulateInv
    BY DEF IInv
  <1>2. CASE GarblerExecute \/ GarblerEnd
    <2>1. SimulateInv'
      BY <1>1, <1>2, SimulateGarblerStep
    <2>2. epc' = epc /\ (gpc' = gpc \/ gpc' = gpc + 1)
      BY <1>2 DEF GarblerExecute, GarblerEnd, evaluator, evaluating, garbling
    <2>3. gpc \in Nat /\ epc \in Int
      BY <1>1, TapeFacts DEF TypeInv
    <2>4. QED
      BY <1>1, <2>1, <2>2, <2>3
  <1>3. CASE EvaluatorHandover \/ EvaluatorExecute \/ EvaluatorEnd
    BY <1>1, <1>3, SimulateEvaluatorStep
  <1>4. ~ (GarblerSendGates \/ GarblerSendMasks \/ GarblerFinish)
    BY <1>1 DEF SimulateInv, GarblerSendGates, GarblerSendMasks, GarblerFinish
  <1>5. ~ (EvaluatorPeek \/ EvaluatorReceiveGates \/ EvaluatorReceiveMasks \/ EvaluatorPop)
    BY <1>1 DEF SimulateInv, EvaluatorPeek, EvaluatorReceiveGates, EvaluatorReceiveMasks, EvaluatorPop
  <1>6. QED
    BY <1>2, <1>3, <1>4, <1>5 DEF Next, GarblerNext, EvaluatorNext

(* Every step of the two processes keeps theirs, for some numbering of the  *)
(* batches.                                                                 *)
LEMMA BatchesStep ==
  ASSUME IInv, mode # "simulate", Next
  PROVE  BatchesInv' /\ epc' <= gpc'
  <1>1. TypeInv /\ Counts /\ epc <= gpc /\ TypeInv'
    BY TypesKept DEF IInv
  <1>2. PICK st, n, r, e : Joint(st, n, r, e)
    BY DEF IInv, BatchesInv, Joint
  <1>3. \A s, m, k, f : Joint(s, m, k, f)' => BatchesInv'
    BY DEF Joint, BatchesInv
  <1>4. gpc \in Nat /\ epc \in Int
    BY <1>1, TapeFacts DEF TypeInv
  <1>5. CASE GarblerExecute \/ GarblerEnd
    <2>1. BatchesInv'
      BY <1>1, <1>2, <1>5, GarblerExecuteStep, GarblerEndStep
    <2>2. epc' = epc /\ (gpc' = gpc \/ gpc' = gpc + 1)
      BY <1>5 DEF GarblerExecute, GarblerEnd, evaluator, evaluating, garbling
    <2>3. QED
      BY <1>1, <1>4, <2>1, <2>2
  <1>6. CASE GarblerSendGates \/ GarblerSendMasks \/ GarblerFinish
    <2>1. Joint(st, n, r, e)'
      BY <1>1, <1>2, <1>6, SendGatesStep, SendMasksStep, FinishStep
    <2>2. epc' = epc /\ gpc' = gpc
      BY <1>6 DEF GarblerSendGates, GarblerSendMasks, GarblerFinish, evaluator, evaluating, garbling
    <2>3. QED
      BY <1>1, <1>3, <2>1, <2>2
  <1>7. CASE EvaluatorPeek \/ EvaluatorReceiveGates \/ EvaluatorEnd
    <2>1. Joint(st, n, r, e)'
      BY <1>1, <1>2, <1>7, PeekStep, ReceiveGatesStep, EndStep
    <2>2. epc' = epc /\ gpc' = gpc
      BY <1>7 DEF EvaluatorPeek, EvaluatorReceiveGates, EvaluatorEnd, garbler, evaluating, garbling
    <2>3. QED
      BY <1>1, <1>3, <2>1, <2>2
  <1>8. CASE EvaluatorReceiveMasks
    <2>1. \E f : Joint(st, n, r + 1, f)'
      BY <1>1, <1>2, <1>8, ReceiveMasksStep
    <2>2. epc' = epc /\ gpc' = gpc
      BY <1>8 DEF EvaluatorReceiveMasks, garbler, evaluating, garbling
    <2>3. QED
      BY <1>1, <1>3, <2>1, <2>2
  <1>9. CASE EvaluatorPop
    <2>1. Joint(st, n, r, e + 1)'
      BY <1>1, <1>2, <1>9, PopStep
    <2>2. epc' = epc /\ gpc' = gpc
      BY <1>9 DEF EvaluatorPop, garbler, evaluating, garbling
    <2>3. QED
      BY <1>1, <1>3, <2>1, <2>2
  <1>10. CASE EvaluatorExecute
    BY <1>1, <1>2, <1>3, <1>10, ExecuteStep
  <1>11. ~ EvaluatorHandover
    BY <1>2 DEF Joint, EvaluatorInv, EvaluatorHandover
  <1>12. QED
    BY <1>5, <1>6, <1>7, <1>8, <1>9, <1>10, <1>11 DEF Next, GarblerNext, EvaluatorNext

(* The invariant holds before the first batch.                              *)
LEMMA InitIInv == Init => IInv
  <1> SUFFICES ASSUME Init PROVE IInv
    OBVIOUS
  <1>1. /\ mode \in {"store", "continuous", "simulate"} /\ tape \in Tapes
        /\ gpc = 1 /\ epc = 1 /\ gcounter = 0 /\ ggates = <<>> /\ gmasks = <<>>
        /\ egates = <<>> /\ emasks = <<>>
        /\ hctr = [p \in 1 .. Len(tape) + 1 |-> 0] /\ hout = [p \in 1 .. Len(tape) + 1 |-> 0]
        /\ gstate = "execute" /\ gcomplexity = 0 /\ gbreak = "TIME_BREAK" /\ chan = <<>>
        /\ ecomplexity = 0 /\ gates_store = <<>> /\ output_masks_store = <<>>
        /\ mode = "store" => estate = "peek"
        /\ mode = "continuous" => estate = "receive_gates"
        /\ mode = "simulate" => estate = "wait"
    BY DEF Init, G!Init, E!Init, G!Positions
  <1>2. Len(tape) \in Nat /\ 1 \in 1 .. Len(tape) + 1
    BY <1>1, TapeFacts
  <1>3. TypeInv
    BY <1>1, <1>2 DEF TypeInv
  <1>4. Counts
    BY <1>1, <1>2 DEF Counts
  <1>5. Holds(<<>>, hctr, 1, 1) /\ Holds(<<>>, hout, 1, 1)
    BY <1>1, <1>2, EmptyFacts DEF Holds
  <1>6. CASE mode = "simulate"
    BY <1>1, <1>3, <1>4, <1>5, <1>6 DEF IInv, SimulateInv
  <1>7. CASE mode # "simulate"
    <2>1. PICK st : st = [k \in Nat |-> 1]
      OBVIOUS
    <2>2. st \in [Nat -> Nat] /\ st[1] = 1 /\ st[0 + 1] = 1 /\ \A k \in 1 .. 0 + 1 : st[k] \in 1 .. gpc
      BY <1>1, <2>1
    <2>3. Cuts(st, 0)
      BY <2>2 DEF Cuts
    <2>4. Unbroken(tape, hctr, 1, 1)
      BY DEF Unbroken
    <2>5. GarblerInv(st, 0)
      BY <1>1, <1>2, <1>5, <2>2, <2>3, <2>4 DEF GarblerInv
    <2>6. /\ GatesSent(0) = 0 /\ MasksSent(0) = 0 /\ GatesTaken(0) = 0 /\ EndSent = 0
          /\ Sent(0) = 0 /\ Taken(0) = 0
      BY <1>1, <1>7 DEF GatesSent, MasksSent, GatesTaken, EndSent, Sent, Taken
    <2>7. ChanInv(st, 0, 0)
      BY <1>1, <2>6, EmptyFacts DEF ChanInv
    <2>8. StoreInv(st, 0, 0) /\ Between(st, 0)
      BY <1>1, <2>2, EmptyFacts DEF StoreInv, Between
    <2>9. EvaluatorInv(st, 0, 0, 0)
      BY <1>1, <1>7, <2>6, <2>8, EmptyFacts DEF EvaluatorInv, Receiving
    <2>10. QED
      BY <1>1, <1>3, <1>4, <1>7, <2>5, <2>7, <2>9 DEF IInv, BatchesInv
  <1>8. QED
    BY <1>6, <1>7

(* The invariant is kept by every step.                                     *)
LEMMA StepIInv == IInv /\ [Next]_vars => IInv'
  <1> SUFFICES ASSUME IInv, [Next]_vars PROVE IInv'
    OBVIOUS
  <1>1. CASE Next
    <2>1. TypeInv' /\ Counts'
      BY <1>1, TypesKept
    <2>2. mode' = mode
      BY <1>1 DEF Next, GarblerNext, EvaluatorNext, GarblerExecute, GarblerEnd, GarblerSendGates,
                  GarblerSendMasks, GarblerFinish, EvaluatorHandover, EvaluatorPeek,
                  EvaluatorReceiveGates, EvaluatorReceiveMasks, EvaluatorPop, EvaluatorExecute,
                  EvaluatorEnd
    <2>3. (IF mode = "simulate" THEN SimulateInv' ELSE BatchesInv') /\ epc' <= gpc'
      BY <1>1, SimulateStep, BatchesStep
    <2>4. QED
      BY <2>1, <2>2, <2>3 DEF IInv
  <1>2. CASE UNCHANGED vars
    <2>1. /\ UNCHANGED <<mode, tape, gpc, gcounter, hctr, hout, gstate, gcomplexity, gbreak>>
          /\ UNCHANGED <<ggates, gmasks, chan, epc, estate, ecomplexity, egates, emasks>>
          /\ UNCHANGED <<gates_store, output_masks_store>>
      BY <1>2 DEF vars, garbler, garbling, evaluator, evaluating, stores
    <2>2. TypeInv' /\ Counts' /\ (epc <= gpc)'
      BY <2>1 DEF IInv, TypeInv, Counts
    <2>3. mode = "simulate" => SimulateInv'
      BY <2>1 DEF IInv, SimulateInv
    <2>4. ASSUME mode # "simulate" PROVE BatchesInv'
      <3>1. PICK st, n, r, e : Joint(st, n, r, e)
        BY <2>4 DEF IInv, BatchesInv, Joint
      <3>2. GarblerInv(st, n)'
        BY <1>2, <3>1, GarblerUntouched DEF vars, Joint
      <3>3. /\ GatesSent(n)' = GatesSent(n) /\ MasksSent(n)' = MasksSent(n)
            /\ GatesTaken(r)' = GatesTaken(r) /\ EndSent' = EndSent /\ Receiving' = Receiving
        BY <2>1 DEF GatesSent, MasksSent, GatesTaken, EndSent, Receiving
      <3>4. ChanInv(st, n, r)'
        BY <2>1, <3>1, <3>3 DEF Joint, ChanInv, Sent, Taken, GatesAt, MasksAt
      <3>5. StoreInv(st, r, e)' /\ Between(st, e)' = Between(st, e) /\ Within(st, e)' = Within(st, e)
        BY <2>1, <3>1 DEF Joint, EvaluatorInv, StoreInv, Between, Within
      <3>6. EvaluatorInv(st, n, r, e)'
        BY <2>1, <3>1, <3>3, <3>5 DEF Joint, EvaluatorInv
      <3>7. QED
        BY <3>2, <3>4, <3>6 DEF BatchesInv
    <2>5. QED
      BY <2>1, <2>2, <2>3, <2>4 DEF IInv
  <1>3. QED
    BY <1>1, <1>2

(* The batches of both players agree in every state.                        *)
THEOREM Invariance == Spec => []IInv
  <1>1. QED
    BY InitIInv, StepIInv, PTL DEF Spec

-----------------------------------------------------------------------------
(* What follows from it.                                                    *)

(* What the evaluator is about to read is there: the batch it executes ends *)
(* after the entry.                                                         *)
LEMMA RoomToRead ==
  ASSUME IInv, estate = "execute", epc \in DOMAIN tape
  PROVE  /\ tape[epc].op = "and" => egates # <<>>
         /\ tape[epc].op = "reveal" => emasks # <<>>
  <1>1. TypeInv /\ Counts
    BY DEF IInv
  <1>2. \E b \in 1 .. gpc : /\ IsSeq(egates) /\ Len(egates) = hctr[b] - hctr[epc]
                            /\ IsSeq(emasks) /\ Len(emasks) = hout[b] - hout[epc]
                            /\ epc < b /\ epc \in 1 .. gpc - 1
    <2>1. CASE mode = "simulate"
      <3>1. /\ gpc = Len(tape) + 1 /\ Holds(egates, hctr, epc, gpc) /\ Holds(emasks, hout, epc, gpc)
        BY <2>1 DEF IInv, SimulateInv
      <3>2. epc \in 1 .. Len(tape) /\ Len(tape) \in Nat
        BY <1>1, TapeFacts DEF TypeInv
      <3>3. gpc \in 1 .. gpc /\ epc < gpc /\ epc \in 1 .. gpc - 1
        BY <3>1, <3>2
      <3>4. QED
        BY <3>1, <3>3 DEF Holds
    <2>2. CASE mode # "simulate"
      <3>1. PICK st, n, r, e : GarblerInv(st, n) /\ ChanInv(st, n, r) /\ EvaluatorInv(st, n, r, e)
        BY <2>2 DEF IInv, BatchesInv
      <3>2. Within(st, e) /\ Cuts(st, n) /\ e \in 0 .. r
        BY <3>1 DEF EvaluatorInv, GarblerInv
      <3>3. e \in 1 .. n
        <4>1. /\ n \in Nat /\ r \in Nat /\ r <= MasksSent(n) /\ GatesSent(n) \in Int /\ MasksSent(n) \in Int
              /\ MasksSent(n) = GatesSent(n) \/ MasksSent(n) = GatesSent(n) - 1
              /\ GatesSent(n) = n \/ GatesSent(n) = n - 1
          BY <3>1, ChanFacts
        <4>2. QED
          BY <3>2, <4>1 DEF Within
      <3>4. epc < st[e + 1] /\ epc \in 1 .. gpc - 1 /\ st[e + 1] \in 1 .. gpc
        BY <1>1, <3>2, <3>3, WithinFacts
      <3>5. QED
        BY <3>2, <3>4 DEF Within, Holds
    <2>3. QED
      BY <2>1, <2>2
  <1>3. PICK b \in 1 .. gpc : /\ IsSeq(egates) /\ Len(egates) = hctr[b] - hctr[epc]
                            /\ IsSeq(emasks) /\ Len(emasks) = hout[b] - hout[epc]
                            /\ epc < b /\ epc \in 1 .. gpc - 1
    BY <1>2
  <1>4. /\ gpc \in Nat /\ epc + 1 \in 1 .. gpc /\ epc \in 1 .. gpc /\ epc + 1 <= b
    BY <1>1, <1>3, CountTypes
  <1>5. /\ hctr[epc + 1] = Complexity(tape[epc], hctr[epc])
        /\ hout[epc + 1] = hout[epc] + (IF tape[epc].op = "reveal" THEN 1 ELSE 0)
        /\ hctr[epc + 1] <= hctr[b] /\ hout[epc + 1] <= hout[b]
    BY <1>1, <1>3, <1>4 DEF Counts
  <1>6. /\ hctr[epc] \in Nat /\ hout[epc] \in Nat /\ hctr[b] \in Nat /\ hout[b] \in Nat
        /\ hctr[epc + 1] \in Nat /\ hout[epc + 1] \in Nat
    BY <1>1, <1>3, <1>4, CountTypes
  <1>7. tape[epc].op = "and" => Len(egates) # 0
    BY <1>3, <1>5, <1>6 DEF Complexity
  <1>8. tape[epc].op = "reveal" => Len(emasks) # 0
    BY <1>3, <1>5, <1>6
  <1>9. QED
    BY <1>7, <1>8, EmptyFacts

(* The evaluator never reads past the end of a batch (YaoEvaluator's        *)
(* buffers have no bounds check).                                           *)
THEOREM BuffersSuffice == Spec => []NoUnderrun
  <1>1. IInv => NoUnderrun
    BY RoomToRead DEF NoUnderrun
  <1>2. QED
    BY <1>1, Invariance, PTL

(* The message at the head of the connection is the one the evaluator waits *)
(* for.                                                                     *)
LEMMA InTurn == IInv => FramesMatch
  <1>1. ASSUME IInv, chan # <<>>
        PROVE  /\ estate = "peek" => Head(chan).of \in {"gates", "end"}
               /\ estate = "receive_gates" => Head(chan).of = "gates"
               /\ estate = "receive_masks" => Head(chan).of = "masks"
    <2>1. mode # "simulate"
      BY <1>1 DEF IInv, SimulateInv
    <2>2. PICK st, n, r, e : GarblerInv(st, n) /\ ChanInv(st, n, r) /\ EvaluatorInv(st, n, r, e)
      BY <1>1, <2>1 DEF IInv, BatchesInv
    <2>3. /\ n \in Nat /\ r \in Nat /\ Taken(r) \in Nat
          /\ GatesSent(n) \in Int /\ MasksSent(n) \in Int
          /\ MasksSent(n) = GatesSent(n) \/ MasksSent(n) = GatesSent(n) - 1
          /\ GatesTaken(r) <= GatesSent(n) /\ r <= MasksSent(n)
          /\ EndSent = 0 \/ EndSent = 1
          /\ IsSeq(chan) /\ Len(chan) \in Nat /\ Len(chan) = Sent(n) - Taken(r) + EndSent
      BY <2>2, ChanFacts
    <2>4. Len(chan) > 0 /\ Head(chan) = chan[1]
      BY <1>1, <2>3, LengthFacts, TailFacts
    <2>5. Sent(n) = GatesSent(n) + MasksSent(n) /\ Taken(r) = GatesTaken(r) + r
      BY DEF Sent, Taken
    <2>6. CASE estate \in {"peek", "receive_gates"}
      <3>1. GatesTaken(r) = r
        BY <2>6 DEF GatesTaken
      <3>2. CASE r < GatesSent(n)
        <4>1. r + 1 \in GatesTaken(r) + 1 .. GatesSent(n) /\ GatesAt(r + 1, r) = 1
          BY <2>3, <2>5, <3>1, <3>2 DEF GatesAt
        <4>2. Carries(chan[GatesAt(r + 1, r)], "gates", hctr, st[r + 1], st[r + 1 + 1])
          BY <2>2, <4>1 DEF ChanInv
        <4>3. QED
          BY <2>4, <2>6, <4>1, <4>2 DEF Carries
      <3>3. CASE ~ r < GatesSent(n)
        <4>1. EndSent = 1 /\ Len(chan) = 1
          BY <2>3, <2>4, <2>5, <3>1, <3>3
        <4>2. Head(chan) = EndMarker
          BY <2>2, <2>4, <4>1 DEF ChanInv
        <4>3. mode = "store" /\ estate # "receive_gates"
          BY <2>2, <3>3, <4>1 DEF EndSent, EvaluatorInv
        <4>4. QED
          BY <2>6, <4>2, <4>3 DEF EndMarker, Message
      <3>4. QED
        BY <3>2, <3>3
    <2>7. CASE estate = "receive_masks"
      <3>1. GatesTaken(r) = r + 1
        BY <2>7 DEF GatesTaken
      <3>2. r < MasksSent(n)
        <4>1. EndSent = 0 \/ (EndSent = 1 /\ GatesSent(n) = MasksSent(n))
          BY DEF EndSent, GatesSent, MasksSent
        <4>2. QED
          BY <2>3, <2>4, <2>5, <3>1, <4>1
      <3>3. r + 1 \in r + 1 .. MasksSent(n) /\ MasksAt(r + 1, r) = 1
        BY <2>3, <2>5, <3>1, <3>2 DEF MasksAt
      <3>4. Carries(chan[MasksAt(r + 1, r)], "masks", hout, st[r + 1], st[r + 1 + 1])
        BY <2>2, <3>3 DEF ChanInv
      <3>5. QED
        BY <2>4, <2>7, <3>3, <3>4 DEF Carries
    <2>8. QED
      BY <2>6, <2>7
  <1>2. QED
    BY <1>1 DEF FramesMatch

(* The evaluator takes each message for what it is: nothing in the message  *)
(* but its place tells gates from masks.                                    *)
THEOREM MessagesInTurn == Spec => []FramesMatch
  <1>1. QED
    BY InTurn, Invariance, PTL

(* The evaluator ends with the last batch: it has read all of it, no batch  *)
(* is left in its stores or on the connection, and the garbler is done.     *)
THEOREM AllUsedUp == Spec => []NothingLeftOver
  <1>1. ASSUME IInv, estate = "done"
        PROVE  /\ egates = <<>> /\ emasks = <<>> /\ gates_store = <<>> /\ chan = <<>>
               /\ gstate = "done" /\ gpc = epc
    <2>1. TypeInv /\ Counts
      BY <1>1 DEF IInv
    <2>2. /\ gpc \in Nat /\ gpc <= Len(tape) + 1 /\ Len(tape) \in Nat /\ gpc \in 1 .. gpc
          /\ hctr[gpc] \in Nat /\ hout[gpc] \in Nat
      BY <2>1, CountTypes
    <2>3. hctr[gpc] - hctr[gpc] = 0 /\ hout[gpc] - hout[gpc] = 0
      BY <2>2
    <2>4. CASE mode = "simulate"
      <3>1. /\ epc = gpc /\ chan = <<>> /\ gates_store = <<>> /\ gstate = "done"
            /\ Holds(egates, hctr, epc, gpc) /\ Holds(emasks, hout, epc, gpc)
        BY <1>1, <2>4 DEF IInv, SimulateInv
      <3>2. QED
        BY <2>3, <3>1, LengthFacts DEF Holds
    <2>5. CASE mode # "simulate"
      <3>1. PICK st, n, r, e : GarblerInv(st, n) /\ ChanInv(st, n, r) /\ EvaluatorInv(st, n, r, e)
        BY <1>1, <2>5 DEF IInv, BatchesInv
      <3>2. Within(st, e) /\ Cuts(st, n) /\ e \in 0 .. r /\ epc = Len(tape) + 1
        BY <1>1, <3>1 DEF EvaluatorInv, GarblerInv
      <3>3. /\ n \in Nat /\ r \in Nat /\ Taken(r) \in Nat /\ r <= MasksSent(n)
            /\ GatesSent(n) \in Int /\ MasksSent(n) \in Int
            /\ MasksSent(n) = GatesSent(n) \/ MasksSent(n) = GatesSent(n) - 1
            /\ GatesSent(n) = n \/ GatesSent(n) = n - 1
            /\ IsSeq(chan) /\ Len(chan) = Sent(n) - Taken(r) + EndSent
        BY <3>1, ChanFacts
      <3>4. e \in 1 .. n
        BY <3>2, <3>3 DEF Within
      <3>5. st[e] \in 1 .. gpc /\ st[e + 1] \in 1 .. gpc /\ epc \in st[e] .. st[e + 1]
        BY <2>1, <3>2, <3>4, CutFacts DEF Within
      <3>6. epc = gpc /\ st[e + 1] = gpc
        BY <2>2, <3>2, <3>5
      <3>7. egates = <<>> /\ emasks = <<>>
        BY <2>3, <3>2, <3>6, LengthFacts DEF Within, Holds
      <3>8. ~ TimeCut(tape, hctr, st[e], st[e + 1])
        BY <2>2, <3>2, <3>5, <3>6 DEF Within, Unbroken, TimeCut
      <3>9. e = n /\ gbreak = "DONE_BREAK"
        BY <2>1, <3>2, <3>4, <3>8, CutFacts
      <3>10. r = n /\ MasksSent(n) = n /\ GatesSent(n) = n
        BY <3>2, <3>3, <3>9
      <3>11. gates_store = <<>>
        <4>1. IsSeq(gates_store) /\ Len(gates_store) = r - e
          BY <3>1 DEF EvaluatorInv, StoreInv
        <4>2. QED
          BY <3>3, <3>9, <3>10, <4>1, LengthFacts
      <3>12. gstate = "done"
        <4>1. gstate \notin {"send_gates", "send_masks"}
          BY <3>3, <3>10 DEF MasksSent
        <4>2. gstate # "execute"
          BY <3>1, <3>9 DEF GarblerInv
        <4>3. gstate # "finish"
          BY <1>1, <3>1 DEF GarblerInv, EvaluatorInv, Receiving
        <4>4. QED
          BY <2>1, <4>1, <4>2, <4>3 DEF TypeInv
      <3>13. chan = <<>>
        <4>1. GatesTaken(r) = r /\ EndSent = 0
          BY <1>1 DEF GatesTaken, EndSent, Receiving
        <4>2. Len(chan) = 0
          BY <3>3, <3>10, <4>1 DEF Sent, Taken
        <4>3. QED
          BY <3>3, <4>2, LengthFacts
      <3>14. QED
        BY <3>6, <3>7, <3>11, <3>12, <3>13
    <2>6. QED
      BY <2>4, <2>5
  <1>2. IInv => NothingLeftOver
    BY <1>1 DEF NothingLeftOver
  <1>3. QED
    BY <1>2, Invariance, PTL


-----------------------------------------------------------------------------
(* The streams of YaoGates: what its buffers, stores and messages hold.     *)

AreMessages(c) == IsSeq(c) /\ \A k \in 1 .. Len(c) : IsSeq(c[k].data)

SeqsInv ==
  /\ IsSeq(ggates) /\ IsSeq(gmasks) /\ IsSeq(egates) /\ IsSeq(emasks)
  /\ AreSeqs(gates_store) /\ AreSeqs(output_masks_store)
  /\ AreMessages(chan)

Part(mg, of) == IF mg.of = of THEN mg.data ELSE <<>>
Parts(c, of) == [k \in DOMAIN c |-> Part(c[k], of)]

(* One more message.                                                        *)
LEMMA MessagesAppend ==
  ASSUME NEW c, AreMessages(c), NEW m, IsSeq(m.data)
  PROVE  AreMessages(Append(c, m))
  <1>1. PICK d : d = Append(c, m)
    OBVIOUS
  <1>2. /\ IsSeq(d) /\ Len(c) \in Nat /\ Len(d) = Len(c) + 1
        /\ \A k \in 1 .. Len(c) : d[k] = c[k]
        /\ d[Len(c) + 1] = m
    BY <1>1, AppendFacts DEF AreMessages
  <1>3. ASSUME NEW k \in 1 .. Len(d) PROVE IsSeq(d[k].data)
    <2>1. k \in 1 .. Len(c) \/ k = Len(c) + 1
      BY <1>2
    <2>2. QED
      BY <1>2, <2>1 DEF AreMessages
  <1>4. QED
    BY <1>1, <1>2, <1>3 DEF AreMessages

(* One message less.                                                        *)
LEMMA MessagesTail ==
  ASSUME NEW c, AreMessages(c), c # <<>>
  PROVE  AreMessages(Tail(c)) /\ IsSeq(Head(c).data)
  <1>1. PICK d : d = Tail(c)
    OBVIOUS
  <1>2. /\ IsSeq(d) /\ Len(c) \in Nat /\ Len(c) # 0 /\ Len(d) = Len(c) - 1 /\ Head(c) = c[1]
        /\ \A k \in 1 .. Len(c) - 1 : d[k] = c[k + 1]
    BY <1>1, TailFacts, LengthFacts DEF AreMessages
  <1>3. ASSUME NEW k \in 1 .. Len(d) PROVE IsSeq(d[k].data)
    <2>1. k \in 1 .. Len(c) - 1 /\ k + 1 \in 1 .. Len(c)
      BY <1>2
    <2>2. QED
      BY <1>2, <2>1 DEF AreMessages
  <1>4. 1 \in 1 .. Len(c)
    BY <1>2
  <1>5. QED
    BY <1>1, <1>2, <1>3, <1>4 DEF AreMessages

(* The parts of one kind, one for every message.                            *)
LEMMA PartsFacts ==
  ASSUME NEW c, AreMessages(c), NEW of
  PROVE  /\ AreSeqs(Parts(c, of)) /\ Len(Parts(c, of)) = Len(c) /\ Len(c) \in Nat
         /\ \A k \in 1 .. Len(c) : Parts(c, of)[k] = Part(c[k], of)
  <1>1. PICK p : p = Parts(c, of)
    OBVIOUS
  <1>2. DOMAIN c = 1 .. Len(c) /\ Len(c) \in Nat
    BY SeqDomain DEF AreMessages
  <1>3. /\ DOMAIN p = 1 .. Len(c) /\ \A k \in 1 .. Len(c) : p[k] = Part(c[k], of)
        /\ p = [k \in 1 .. Len(c) |-> p[k]]
    BY <1>1, <1>2 DEF Parts
  <1>4. IsSeq(p) /\ Len(p) = Len(c)
    BY <1>2, <1>3, IsSeqOf
  <1>5. \A k \in 1 .. Len(p) : IsSeq(p[k])
    BY <1>3, <1>4, EmptyFacts DEF AreMessages, Part
  <1>6. QED
    BY <1>1, <1>2, <1>3, <1>4, <1>5 DEF AreSeqs

(* The parts after one more message.                                        *)
LEMMA PartsAppend ==
  ASSUME NEW c, AreMessages(c), NEW m, IsSeq(m.data), NEW of
  PROVE  Parts(Append(c, m), of) = Append(Parts(c, of), Part(m, of))
  <1>1. PICK d, p, q, r : /\ d = Append(c, m) /\ p = Parts(c, of) /\ q = Parts(d, of)
                         /\ r = Append(p, Part(m, of))
    OBVIOUS
  <1>2. /\ IsSeq(d) /\ Len(c) \in Nat /\ Len(d) = Len(c) + 1
        /\ \A k \in 1 .. Len(c) : d[k] = c[k]
        /\ d[Len(c) + 1] = m
    BY <1>1, AppendFacts DEF AreMessages
  <1>3. AreMessages(d)
    BY <1>1, MessagesAppend
  <1>4. /\ IsSeq(q) /\ Len(q) = Len(c) + 1
        /\ \A k \in 1 .. Len(c) + 1 : q[k] = Part(d[k], of)
    BY <1>1, <1>2, <1>3, PartsFacts DEF AreSeqs
  <1>5. /\ IsSeq(p) /\ Len(p) = Len(c) /\ \A k \in 1 .. Len(c) : p[k] = Part(c[k], of)
    BY <1>1, PartsFacts DEF AreSeqs
  <1>6. /\ IsSeq(r) /\ Len(r) = Len(c) + 1 /\ \A k \in 1 .. Len(c) : r[k] = p[k]
        /\ r[Len(c) + 1] = Part(m, of)
    BY <1>1, <1>5, AppendFacts
  <1>7. ASSUME NEW k \in 1 .. Len(q) PROVE q[k] = r[k]
    <2>1. k \in 1 .. Len(c) + 1 /\ (k \in 1 .. Len(c) \/ k = Len(c) + 1)
      BY <1>2, <1>4
    <2>2. QED
      BY <1>2, <1>4, <1>5, <1>6, <2>1
  <1>8. q = r
    BY <1>4, <1>6, <1>7, SameSeq
  <1>9. QED
    BY <1>1, <1>8

(* The parts after one message less.                                        *)
LEMMA PartsTail ==
  ASSUME NEW c, AreMessages(c), c # <<>>, NEW of
  PROVE  /\ Parts(Tail(c), of) = Tail(Parts(c, of))
         /\ Parts(c, of) # <<>> /\ Head(Parts(c, of)) = Part(Head(c), of)
  <1>1. PICK d, p, q, r : d = Tail(c) /\ p = Parts(c, of) /\ q = Parts(d, of) /\ r = Tail(p)
    OBVIOUS
  <1>2. /\ IsSeq(d) /\ Len(c) \in Nat /\ Len(c) # 0 /\ Len(d) = Len(c) - 1 /\ Head(c) = c[1]
        /\ \A k \in 1 .. Len(c) - 1 : d[k] = c[k + 1]
    BY <1>1, TailFacts, LengthFacts DEF AreMessages
  <1>3. AreMessages(d)
    BY <1>1, MessagesTail
  <1>4. /\ IsSeq(q) /\ Len(q) = Len(c) - 1
        /\ \A k \in 1 .. Len(c) - 1 : q[k] = Part(d[k], of)
    <2>1. IsSeq(q) /\ Len(q) = Len(d) /\ \A k \in 1 .. Len(d) : q[k] = Part(d[k], of)
      BY <1>1, <1>3, PartsFacts DEF AreSeqs
    <2>2. QED
      BY <1>2, <2>1
  <1>5. /\ IsSeq(p) /\ Len(p) = Len(c) /\ p # <<>> /\ \A k \in 1 .. Len(c) : p[k] = Part(c[k], of)
    BY <1>1, <1>2, PartsFacts, LengthFacts DEF AreSeqs
  <1>6. /\ IsSeq(r) /\ Len(r) = Len(c) - 1 /\ Head(p) = p[1]
        /\ \A k \in 1 .. Len(c) - 1 : r[k] = p[k + 1]
    BY <1>1, <1>5, TailFacts
  <1>7. ASSUME NEW k \in 1 .. Len(q) PROVE q[k] = r[k]
    <2>1. k \in 1 .. Len(c) - 1 /\ k + 1 \in 1 .. Len(c)
      BY <1>2, <1>4
    <2>2. QED
      BY <1>2, <1>4, <1>5, <1>6, <2>1
  <1>8. q = r
    BY <1>4, <1>6, <1>7, SameSeq
  <1>9. 1 \in 1 .. Len(c)
    BY <1>2
  <1>10. Head(p) = Part(Head(c), of)
    BY <1>2, <1>5, <1>6, <1>9
  <1>11. QED
    BY <1>1, <1>5, <1>8, <1>10

(* What is in flight is the concatenation of the parts.                     *)
LEMMA FlightIsSeq ==
  ASSUME AreMessages(chan), NEW of
  PROVE  IsSeq(InFlight(of)) /\ InFlight(of) = FlattenSeq(Parts(chan, of))
  <1>1. InFlight(of) = FlattenSeq(Parts(chan, of))
    BY DEF InFlight, Parts, Part
  <1>2. QED
    BY <1>1, PartsFacts, FlattenIsSeq

(* A message sent is in flight after those before it.                       *)
LEMMA FlightGrows ==
  ASSUME AreMessages(chan), NEW m, IsSeq(m.data), chan' = Append(chan, m), NEW of
  PROVE  InFlight(of)' = InFlight(of) \o Part(m, of) /\ AreMessages(chan')
  <1>1. InFlight(of)' = FlattenSeq(Parts(chan', of))
    BY DEF InFlight, Parts, Part
  <1>2. Parts(chan', of) = Append(Parts(chan, of), Part(m, of))
    BY PartsAppend
  <1>3. IsSeq(Part(m, of)) /\ AreSeqs(Parts(chan, of))
    BY EmptyFacts, PartsFacts DEF Part
  <1>4. FlattenSeq(Append(Parts(chan, of), Part(m, of))) = FlattenSeq(Parts(chan, of)) \o Part(m, of)
    BY <1>3, FlattenAppend
  <1>5. QED
    BY <1>1, <1>2, <1>4, FlightIsSeq, MessagesAppend

(* A message received was in flight before the others.                      *)
LEMMA FlightShrinks ==
  ASSUME AreMessages(chan), chan # <<>>, chan' = Tail(chan), NEW of
  PROVE  InFlight(of) = Part(Head(chan), of) \o InFlight(of)' /\ AreMessages(chan')
  <1>1. InFlight(of)' = FlattenSeq(Parts(chan', of))
    BY DEF InFlight, Parts, Part
  <1>2. /\ Parts(chan', of) = Tail(Parts(chan, of))
        /\ Parts(chan, of) # <<>> /\ Head(Parts(chan, of)) = Part(Head(chan), of)
    BY PartsTail
  <1>3. AreSeqs(Parts(chan, of))
    BY PartsFacts
  <1>4. FlattenSeq(Parts(chan, of)) = Head(Parts(chan, of)) \o FlattenSeq(Tail(Parts(chan, of)))
    BY <1>2, <1>3, FlattenTail
  <1>5. QED
    BY <1>1, <1>2, <1>4, FlightIsSeq, MessagesTail

(* Only messages of its own kind add to a stream.                           *)
LEMMA FlightSent ==
  ASSUME AreMessages(chan), NEW s, NEW data, IsSeq(data), chan' = Append(chan, Message(s, data)), NEW of
  PROVE  InFlight(of)' = InFlight(of) \o (IF s = of THEN data ELSE <<>>)
  <1>1. PICK m : m = Message(s, data)
    OBVIOUS
  <1>2. IsSeq(m.data) /\ Part(m, of) = IF s = of THEN data ELSE <<>>
    BY <1>1 DEF Message, Part
  <1>3. InFlight(of)' = InFlight(of) \o Part(m, of)
    BY <1>1, <1>2, FlightGrows
  <1>4. QED
    BY <1>2, <1>3

(* Every step keeps the buffers, stores and messages sequences.             *)
LEMMA SeqsKept ==
  ASSUME IInv, SeqsInv, [Next]_vars
  PROVE  SeqsInv'
  <1>0. TypeInv
    BY DEF IInv
  <1>1. CASE GarblerExecute
    <2>1. /\ gpc \in DOMAIN tape /\ G!Garble(tape[gpc])
          /\ UNCHANGED <<chan, egates, emasks, gates_store, output_masks_store>>
      BY <1>1 DEF GarblerExecute, evaluator, stores
    <2>2. tape[gpc] \in Entry
      BY <1>0, <2>1, TapeFacts DEF TypeInv
    <2>3. IsSeq(ggates') /\ IsSeq(gmasks')
      BY <1>0, <2>1, <2>2, GarbleFacts DEF SeqsInv, TypeInv
    <2>4. QED
      BY <2>1, <2>3 DEF SeqsInv
  <1>2. CASE GarblerEnd
    BY <1>2 DEF GarblerEnd, SeqsInv, evaluator, stores
  <1>3. CASE GarblerSendGates \/ GarblerSendMasks \/ GarblerFinish
    <2>1. /\ UNCHANGED <<egates, emasks, gates_store, output_masks_store>>
          /\ ggates' \in {ggates, <<>>} /\ gmasks' \in {gmasks, <<>>}
          /\ \E data \in {ggates, gmasks, <<>>}, of \in {"gates", "masks", "end"} :
               chan' = Append(chan, Message(of, data))
      BY <1>3 DEF GarblerSendGates, GarblerSendMasks, GarblerFinish, Send, EndMarker, evaluator, stores
    <2>2. PICK m : chan' = Append(chan, m) /\ IsSeq(m.data)
      BY <2>1, EmptyFacts DEF SeqsInv, Message
    <2>3. AreMessages(chan')
      BY <2>2, MessagesAppend DEF SeqsInv
    <2>4. QED
      BY <2>1, <2>3, EmptyFacts DEF SeqsInv
  <1>4. CASE EvaluatorHandover
    BY <1>4, EmptyFacts DEF EvaluatorHandover, SeqsInv, stores
  <1>5. CASE EvaluatorPeek \/ EvaluatorReceiveGates
    <2>1. /\ UNCHANGED <<ggates, gmasks, emasks, gates_store, output_masks_store>>
          /\ chan # <<>> /\ egates' \in {egates, Head(chan).data} /\ chan' \in {chan, Tail(chan)}
      BY <1>5 DEF EvaluatorPeek, EvaluatorReceiveGates, garbler, stores
    <2>2. QED
      BY <2>1, MessagesTail DEF SeqsInv
  <1>6. CASE EvaluatorReceiveMasks
    <2>1. /\ UNCHANGED <<ggates, gmasks>> /\ chan # <<>> /\ chan' = Tail(chan)
          /\ egates' \in {egates, <<>>} /\ emasks' \in {Head(chan).data, <<>>}
          /\ gates_store' \in {gates_store, Append(gates_store, egates)}
          /\ output_masks_store' \in {output_masks_store, Append(output_masks_store, Head(chan).data)}
      BY <1>6 DEF EvaluatorReceiveMasks, LeftBy, garbler, stores
    <2>2. AreMessages(chan') /\ IsSeq(Head(chan).data)
      BY <2>1, MessagesTail DEF SeqsInv
    <2>3. AreSeqs(gates_store') /\ AreSeqs(output_masks_store')
      BY <2>1, <2>2, FlattenAppend DEF SeqsInv
    <2>4. QED
      BY <2>1, <2>2, <2>3, EmptyFacts DEF SeqsInv
  <1>7. CASE EvaluatorPop
    <2>1. /\ UNCHANGED <<ggates, gmasks, chan>>
          /\ IF gates_store = <<>> THEN egates' = egates /\ gates_store' = <<>>
             ELSE egates' = Head(gates_store) /\ gates_store' = Tail(gates_store)
          /\ IF output_masks_store = <<>> THEN emasks' = emasks /\ output_masks_store' = <<>>
             ELSE emasks' = Head(output_masks_store) /\ output_masks_store' = Tail(output_masks_store)
      BY <1>7 DEF EvaluatorPop, Popped, Rest, garbler
    <2>2. AreSeqs(gates_store') /\ IsSeq(egates')
      BY <2>1, FlattenTail DEF SeqsInv
    <2>3. AreSeqs(output_masks_store') /\ IsSeq(emasks')
      BY <2>1, FlattenTail DEF SeqsInv
    <2>4. QED
      BY <2>1, <2>2, <2>3 DEF SeqsInv
  <1>8. CASE EvaluatorExecute
    <2>1. /\ UNCHANGED <<ggates, gmasks, chan, gates_store, output_masks_store>>
          /\ epc \in DOMAIN tape /\ E!Eval(tape[epc])
      BY <1>8 DEF EvaluatorExecute, garbler, stores
    <2>2. tape[epc] \in Entry
      BY <1>0, <2>1, TapeFacts DEF TypeInv
    <2>3. IsSeq(egates') /\ IsSeq(emasks')
      BY <2>1, <2>2, EvalFacts DEF SeqsInv
    <2>4. QED
      BY <2>1, <2>3 DEF SeqsInv
  <1>9. CASE EvaluatorEnd
    BY <1>9 DEF EvaluatorEnd, SeqsInv, garbler, stores
  <1>10. CASE UNCHANGED vars
    BY <1>10 DEF vars, SeqsInv, garbler, evaluator, stores
  <1>11. QED
    BY <1>1, <1>2, <1>3, <1>4, <1>5, <1>6, <1>7, <1>8, <1>9, <1>10 DEF Next, GarblerNext, EvaluatorNext

(* All are empty at first.                                                  *)
LEMMA InitSeqs == Init => SeqsInv
  <1> SUFFICES ASSUME Init PROVE SeqsInv
    OBVIOUS
  <1>1. /\ ggates = <<>> /\ gmasks = <<>> /\ egates = <<>> /\ emasks = <<>>
        /\ gates_store = <<>> /\ output_masks_store = <<>> /\ chan = <<>>
    BY DEF Init, G!Init, E!Init
  <1>2. AreSeqs(<<>>) /\ AreMessages(<<>>)
    BY EmptyFacts DEF AreSeqs, AreMessages
  <1>3. QED
    BY <1>1, <1>2, EmptyFacts DEF SeqsInv

-----------------------------------------------------------------------------
(* The two streams.                                                         *)

(* Both streams, bracketed to either side.                                  *)
Gates(h, f, r, i, u) == Cat(Cat(Cat(Cat(h, f), r), i), u)
Masks(h, f, i, u) == Cat(Cat(Cat(h, f), i), u)

(* The streams are concatenations of these kinds, in this state and the     *)
(* next.                                                                    *)
LEMMA Streams ==
  /\ GateStream = Gates(Held, FlattenSeq(gates_store), Received, InFlight("gates"), Unsent)
  /\ MaskStream = Masks(HeldMasks, FlattenSeq(output_masks_store), InFlight("masks"), gmasks)
  /\ GateStream' = Gates(Held', FlattenSeq(gates_store'), Received', InFlight("gates")', Unsent')
  /\ MaskStream' = Masks(HeldMasks', FlattenSeq(output_masks_store'), InFlight("masks")', gmasks')
  BY DEF GateStream, MaskStream, Gates, Masks, Cat

(* The gates, bracketed to the right.                                       *)
LEMMA GatesFacts ==
  ASSUME NEW h, NEW f, NEW r, NEW i, NEW u, IsSeq(h), IsSeq(f), IsSeq(r), IsSeq(i), IsSeq(u)
  PROVE  /\ IsSeq(Cat(Cat(Cat(h, f), r), i))
         /\ IsSeq(Cat(f, Cat(r, Cat(i, u))))
         /\ Gates(h, f, r, i, u) = Cat(h, Cat(f, Cat(r, Cat(i, u))))
  BY CatSeq, CatAssoc DEF Gates

(* The masks, bracketed to the right.                                       *)
LEMMA MasksFacts ==
  ASSUME NEW h, NEW f, NEW i, NEW u, IsSeq(h), IsSeq(f), IsSeq(i), IsSeq(u)
  PROVE  /\ IsSeq(Cat(Cat(h, f), i))
         /\ IsSeq(Cat(f, Cat(i, u)))
         /\ Masks(h, f, i, u) = Cat(h, Cat(f, Cat(i, u)))
  BY CatSeq, CatAssoc DEF Masks

(* What the steps need to know of the state they start from.                *)
LEMMA StateFacts ==
  ASSUME IInv
  PROVE  /\ mode \in {"store", "continuous", "simulate"}
         /\ estate = "wait" => /\ mode = "simulate" /\ egates = <<>> /\ emasks = <<>> /\ chan = <<>>
                              /\ gates_store = <<>> /\ output_masks_store = <<>>
                              /\ gstate \in {"execute", "done"}
         /\ estate \in {"peek", "pop"} => mode = "store"
         /\ estate \in {"receive_gates", "receive_masks"} => mode # "simulate"
         /\ mode = "continuous" => gates_store = <<>> /\ output_masks_store = <<>>
         /\ estate = "receive_gates" /\ mode = "continuous" => egates = <<>>
         /\ estate = "receive_masks" /\ mode = "continuous" => emasks = <<>>
         /\ estate = "pop" => gates_store # <<>> /\ output_masks_store # <<>>
  <1>1. TypeInv
    BY DEF IInv
  <1>2. CASE mode = "simulate"
    BY <1>1, <1>2 DEF IInv, SimulateInv
  <1>3. CASE mode # "simulate"
    <2>1. PICK st, n, r, e : GarblerInv(st, n) /\ ChanInv(st, n, r) /\ EvaluatorInv(st, n, r, e)
      BY <1>3 DEF IInv, BatchesInv
    <2>2. /\ IsSeq(gates_store) /\ Len(gates_store) = r - e
          /\ IsSeq(output_masks_store) /\ Len(output_masks_store) = r - e
      BY <2>1 DEF EvaluatorInv, StoreInv
    <2>3. n \in Nat /\ r \in Nat /\ e \in 0 .. r
      BY <2>1 DEF GarblerInv, Cuts, ChanInv, EvaluatorInv
    <2>4. mode = "continuous" => gates_store = <<>> /\ output_masks_store = <<>>
      <3>1. mode = "continuous" => r - e = 0
        BY <2>1, <2>3 DEF EvaluatorInv
      <3>2. QED
        BY <2>2, <3>1, LengthFacts
    <2>5. estate \in {"peek", "pop"} => mode = "store"
      BY <1>1, <1>3, <2>1 DEF EvaluatorInv, TypeInv
    <2>6. estate = "pop" => gates_store # <<>> /\ output_masks_store # <<>>
      <3>1. estate = "pop" => e < r
        BY <2>1, <2>5 DEF EvaluatorInv, Receiving
      <3>2. e < r => r - e # 0
        BY <2>3
      <3>3. QED
        BY <2>2, <3>1, <3>2, EmptyFacts
    <2>7. QED
      BY <1>1, <1>3, <2>1, <2>4, <2>5, <2>6 DEF TypeInv, EvaluatorInv, Receiving
  <1>4. QED
    BY <1>2, <1>3

(* The evaluator executes what the garbler has garbled, and empties its     *)
(* buffers before it pops the next.                                         *)
LEMMA ExecuteFacts ==
  ASSUME IInv, EvaluatorExecute
  PROVE  /\ epc < gpc
         /\ mode = "store" /\ estate' = "pop" => egates' = <<>> /\ emasks' = <<>>
  <1>1. TypeInv /\ Counts /\ epc \in DOMAIN tape
    BY DEF IInv, EvaluatorExecute
  <1>2. CASE mode = "simulate"
    <2>1. gpc = Len(tape) + 1
      BY <1>2 DEF IInv, SimulateInv, EvaluatorExecute
    <2>2. epc \in 1 .. Len(tape) /\ Len(tape) \in Nat
      BY <1>1, TapeFacts DEF TypeInv
    <2>3. QED
      BY <1>2, <2>1, <2>2
  <1>3. CASE mode # "simulate"
    <2>1. PICK st, n, r, e : Joint(st, n, r, e)
      BY <1>3 DEF IInv, BatchesInv, Joint
    <2>2. epc < gpc /\ (TimeBreak(tape[epc], ecomplexity) => egates' = <<>> /\ emasks' = <<>>)
      BY <1>1, <1>3, <2>1, ExecuteStep
    <2>3. estate' = "pop" => TimeBreak(tape[epc], ecomplexity)
      BY DEF EvaluatorExecute
    <2>4. QED
      BY <2>2, <2>3
  <1>4. QED
    BY <1>2, <1>3

StreamSeqs ==
  /\ IsSeq(Held) /\ IsSeq(HeldMasks) /\ IsSeq(Received) /\ IsSeq(Unsent) /\ IsSeq(gmasks)
  /\ IsSeq(FlattenSeq(gates_store)) /\ IsSeq(FlattenSeq(output_masks_store))
  /\ IsSeq(InFlight("gates")) /\ IsSeq(InFlight("masks"))

(* All parts of the streams are sequences.                                  *)
LEMMA StreamsAreSeqs ==
  ASSUME SeqsInv
  PROVE  StreamSeqs
  <1>1. IsSeq(FlattenSeq(gates_store)) /\ IsSeq(FlattenSeq(output_masks_store))
    BY FlattenIsSeq DEF SeqsInv
  <1>2. IsSeq(InFlight("gates")) /\ IsSeq(InFlight("masks"))
    BY FlightIsSeq DEF SeqsInv
  <1>3. IsSeq(Held) /\ IsSeq(HeldMasks) /\ IsSeq(Received) /\ IsSeq(Unsent) /\ IsSeq(gmasks)
    BY EmptyFacts DEF SeqsInv, Held, HeldMasks, Received, Unsent
  <1>4. QED
    BY <1>1, <1>2, <1>3 DEF StreamSeqs

(* The messages in flight after one more is sent or one is received.        *)
LEMMA MessageSent ==
  ASSUME SeqsInv, NEW s, NEW data, IsSeq(data), chan' = Append(chan, Message(s, data)), NEW of
  PROVE  InFlight(of)' = IF s = of THEN Cat(InFlight(of), data) ELSE InFlight(of)
  <1>1. AreMessages(chan) /\ IsSeq(InFlight(of))
    BY FlightIsSeq DEF SeqsInv
  <1>2. InFlight(of)' = Cat(InFlight(of), IF s = of THEN data ELSE <<>>)
    BY <1>1, FlightSent DEF Cat
  <1>3. QED
    BY <1>1, <1>2, CatEmpty

(* One message is received.                                                 *)
LEMMA MessageArrived ==
  ASSUME SeqsInv, chan # <<>>, chan' = Tail(chan), NEW of
  PROVE  /\ IsSeq(Head(chan).data) /\ IsSeq(InFlight(of)')
         /\ InFlight(of) = IF Head(chan).of = of THEN Cat(Head(chan).data, InFlight(of)')
                           ELSE InFlight(of)'
  <1>1. AreMessages(chan) /\ AreMessages(chan') /\ IsSeq(Head(chan).data)
    BY MessagesTail DEF SeqsInv
  <1>2. IsSeq(InFlight(of)')
    <2>1. InFlight(of)' = FlattenSeq(Parts(chan', of))
      BY DEF InFlight, Parts, Part
    <2>2. QED
      BY <1>1, <2>1, PartsFacts, FlattenIsSeq
  <1>3. InFlight(of) = Cat(Part(Head(chan), of), InFlight(of)')
    BY <1>1, FlightShrinks DEF Cat
  <1>4. QED
    BY <1>1, <1>2, <1>3, CatEmpty DEF Part

(* A step that leaves both streams and all wires as they are is a stutter   *)
(* of YaoGates.                                                             *)
LEMMA Stutters ==
  ASSUME GateStream' = GateStream, MaskStream' = MaskStream, tape' = tape,
         UNCHANGED garbling, UNCHANGED evaluating
  PROVE  UNCHANGED Y!vars
  BY DEF Y!vars, Y!garbler, Y!evaluator, Y!history, garbling, evaluating

(* The garbler appends to its buffers what GarblerStep of YaoGates appends  *)
(* to the streams.                                                          *)
LEMMA GarblerExecuteMaps ==
  ASSUME IInv, SeqsInv, GarblerExecute
  PROVE  Y!GarblerStep
  <1>1. PICK f, i, fm, im : /\ f = FlattenSeq(gates_store) /\ i = InFlight("gates")
                           /\ fm = FlattenSeq(output_masks_store) /\ im = InFlight("masks")
    OBVIOUS
  <1>2. PICK before : before = Cat(Cat(Cat(Held, f), Received), i) /\ IsSeq(before)
    BY <1>1, StreamsAreSeqs, CatSeq DEF StreamSeqs
  <1>3. PICK mbefore : mbefore = Cat(Cat(HeldMasks, fm), im) /\ IsSeq(mbefore)
    BY <1>1, StreamsAreSeqs, CatSeq DEF StreamSeqs
  <1>4. /\ gstate = "execute" /\ gstate' # "send_masks"
        /\ gpc \in DOMAIN tape /\ G!Garble(tape[gpc]) /\ G!Remember /\ gpc' = gpc + 1
        /\ UNCHANGED <<mode, tape, chan, evaluator>>
    BY DEF GarblerExecute, GarblerBreak
  <1>5. GateStream = Cat(before, ggates) /\ MaskStream = Cat(mbefore, gmasks)
    BY <1>1, <1>2, <1>3, <1>4, Streams DEF Gates, Masks, Unsent
  <1>6. GateStream' = Cat(before, ggates') /\ MaskStream' = Cat(mbefore, gmasks')
    <2>1. /\ Held' = Held /\ HeldMasks' = HeldMasks /\ Received' = Received /\ Unsent' = ggates'
          /\ InFlight("gates")' = i /\ InFlight("masks")' = im
          /\ gates_store' = gates_store /\ output_masks_store' = output_masks_store
      BY <1>1, <1>4 DEF Unsent, Held, HeldMasks, Received, Executing, InFlight, evaluator, stores
    <2>2. QED
      BY <1>1, <1>2, <1>3, <2>1, Streams DEF Gates, Masks
  <1>7. Y!Garble(tape[gpc])
    <2>1. IsSeq(ggates) /\ IsSeq(gmasks)
      BY DEF SeqsInv
    <2>2. CASE G!GarbleLinear(tape[gpc])
      BY <1>5, <1>6, <2>2 DEF G!GarbleLinear, Y!GarbleLinear, Y!Garble, G!GarbleWire, Y!GarbleWire, Y!Add, G!Add
    <2>3. CASE G!GarbleAnd(tape[gpc])
      <3>1. ASSUME NEW x, ggates' = Append(ggates, x) PROVE GateStream' = Append(GateStream, x)
        BY <1>2, <1>5, <1>6, <2>1, <3>1, CatAppend
      <3>2. MaskStream' = MaskStream
        BY <1>5, <1>6, <2>3 DEF G!GarbleAnd
      <3>3. Y!GarbleAnd(tape[gpc])
        BY <3>1, <3>2, <2>3 DEF G!GarbleAnd, Y!GarbleAnd, G!GLabels, Y!GLabels, G!GarbleGate, Y!GarbleGate,
          G!FreshKey, Y!FreshKey, G!Add, Y!Add, G!DeltaIf, Y!DeltaIf, G!Hash, Y!Hash, G!Delta, Y!Delta
      <3>4. QED
        BY <3>3 DEF Y!Garble
    <2>4. CASE G!GarbleReveal(tape[gpc])
      <3>1. MaskStream' = Append(MaskStream, gmask[tape[gpc].left])
        BY <1>3, <1>5, <1>6, <2>1, <2>4, CatAppend DEF G!GarbleReveal
      <3>2. GateStream' = GateStream
        BY <1>5, <1>6, <2>4 DEF G!GarbleReveal
      <3>3. QED
        BY <2>4, <3>1, <3>2 DEF G!GarbleReveal, Y!GarbleReveal, Y!Garble
    <2>5. QED
      BY <1>4, <2>2, <2>3, <2>4 DEF G!Garble
  <1>8. Y!Remember
    BY <1>4 DEF G!Remember, Y!Remember
  <1>9. QED
    BY <1>4, <1>7, <1>8 DEF Y!GarblerStep, Y!evaluator, evaluator, evaluating

(* The evaluator takes from its buffers what EvaluatorStep of YaoGates      *)
(* takes from the streams.                                                  *)
LEMMA EvaluatorExecuteMaps ==
  ASSUME IInv, SeqsInv, EvaluatorExecute
  PROVE  Y!EvaluatorStep
  <1>1. TypeInv /\ IsSeq(egates) /\ IsSeq(emasks)
    BY DEF IInv, SeqsInv
  <1>2. PICK f, r, i, u, fm, im, um :
          /\ f = FlattenSeq(gates_store) /\ r = Received /\ i = InFlight("gates") /\ u = Unsent
          /\ fm = FlattenSeq(output_masks_store) /\ im = InFlight("masks") /\ um = gmasks
          /\ IsSeq(f) /\ IsSeq(r) /\ IsSeq(i) /\ IsSeq(u) /\ IsSeq(fm) /\ IsSeq(im) /\ IsSeq(um)
    BY StreamsAreSeqs DEF StreamSeqs
  <1>3. PICK after, mafter : after = Cat(f, Cat(r, Cat(i, u))) /\ mafter = Cat(fm, Cat(im, um))
    OBVIOUS
  <1>9. IsSeq(after) /\ IsSeq(mafter)
    BY <1>2, <1>3, CatSeq
  <1>4. /\ estate = "execute" /\ epc \in DOMAIN tape /\ E!Eval(tape[epc]) /\ epc' = epc + 1
        /\ UNCHANGED <<mode, tape, garbler, chan, stores>>
        /\ estate' \in {"execute", "pop", "receive_gates"}
        /\ mode = "store" => estate' \in {"execute", "pop"}
    BY <1>1 DEF EvaluatorExecute, AfterTimeBreak, TypeInv
  <1>5. GateStream = Cat(egates, after) /\ MaskStream = Cat(emasks, mafter)
    <2>1. Held = egates /\ HeldMasks = emasks
      BY <1>4 DEF Held, HeldMasks, Executing
    <2>2. GateStream = Gates(egates, f, r, i, u) /\ MaskStream = Masks(emasks, fm, im, um)
      BY <1>2, <2>1, Streams
    <2>3. QED
      BY <1>1, <1>2, <1>3, <2>2, GatesFacts, MasksFacts
  <1>6. GateStream' = Cat(egates', after) /\ MaskStream' = Cat(emasks', mafter)
    <2>1. Held' = egates' /\ HeldMasks' = emasks'
      BY <1>4, ExecuteFacts DEF Held, HeldMasks, Executing
    <2>2. /\ FlattenSeq(gates_store') = f /\ Received' = r /\ InFlight("gates")' = i /\ Unsent' = u
          /\ FlattenSeq(output_masks_store') = fm /\ InFlight("masks")' = im /\ gmasks' = um
      BY <1>2, <1>4 DEF Received, Unsent, InFlight, Executing, garbler, stores
    <2>3. IsSeq(egates') /\ IsSeq(emasks')
      <3>1. tape[epc] \in Entry
        BY <1>1, <1>4, TapeFacts DEF TypeInv
      <3>2. QED
        BY <1>1, <1>4, <3>1, EvalFacts
    <2>4. GateStream' = Gates(egates', f, r, i, u) /\ MaskStream' = Masks(emasks', fm, im, um)
      BY <2>1, <2>2, Streams
    <2>5. QED
      BY <1>2, <1>3, <2>3, <2>4, GatesFacts, MasksFacts
  <1>7. Y!Eval(tape[epc])
    <2>1. CASE E!EvalLinear(tape[epc])
      BY <1>5, <1>6, <2>1 DEF E!EvalLinear, Y!EvalLinear, Y!Eval, E!SetWire, Y!SetWire,
         Y!Add, E!Add, Y!Signal, E!Signal
    <2>2. CASE E!EvalAnd(tape[epc])
      <3>1. egates # <<>> /\ egates' = Tail(egates) /\ emasks' = emasks
        BY <2>2 DEF E!EvalAnd
      <3>2. /\ GateStream # <<>> /\ Head(GateStream) = Head(egates)
            /\ GateStream' = Tail(GateStream) /\ MaskStream' = MaskStream
        BY <1>1, <1>9, <1>5, <1>6, <3>1, CatHead
      <3>3. Y!EvalAnd(tape[epc])
        BY <3>2, <2>2 DEF E!EvalAnd, Y!EvalAnd, E!ELabels, Y!ELabels, E!SetWire, Y!SetWire,
          E!EvalGate, Y!EvalGate, E!Signal, Y!Signal, E!Add, Y!Add, E!Hash, Y!Hash
      <3>4. QED
        BY <3>3 DEF Y!Eval
    <2>3. CASE E!EvalReveal(tape[epc])
      <3>1. emasks # <<>> /\ emasks' = Tail(emasks) /\ egates' = egates
        BY <2>3 DEF E!EvalReveal
      <3>2. /\ MaskStream # <<>> /\ Head(MaskStream) = Head(emasks)
            /\ MaskStream' = Tail(MaskStream) /\ GateStream' = GateStream
        BY <1>1, <1>9, <1>5, <1>6, <3>1, CatHead
      <3>3. QED
        BY <3>2, <2>3 DEF E!EvalReveal, Y!EvalReveal, Y!Eval
    <2>4. QED
      BY <1>4, <2>1, <2>2, <2>3 DEF E!Eval
  <1>8. QED
    BY <1>4, <1>7, ExecuteFacts DEF Y!EvaluatorStep, Y!garbler, Y!history, garbler, garbling

(* Ending a batch and sending it moves gates from one place of the streams  *)
(* to the next.                                                             *)
LEMMA GarblerStutters ==
  ASSUME IInv, SeqsInv, GarblerEnd \/ GarblerSendGates \/ GarblerSendMasks \/ GarblerFinish
  PROVE  UNCHANGED Y!vars
  <1>1. UNCHANGED <<mode, tape, garbling, evaluator>>
    BY DEF GarblerEnd, GarblerSendGates, GarblerSendMasks, GarblerFinish
  <1>2. PICK i, u, im, um : /\ i = InFlight("gates") /\ u = Unsent /\ im = InFlight("masks") /\ um = gmasks
                           /\ IsSeq(i) /\ IsSeq(u) /\ IsSeq(im) /\ IsSeq(um)
    BY StreamsAreSeqs DEF StreamSeqs
  <1>3. PICK before, mbefore : /\ before = Cat(Cat(Held, FlattenSeq(gates_store)), Received)
                              /\ mbefore = Cat(HeldMasks, FlattenSeq(output_masks_store))
                              /\ IsSeq(before) /\ IsSeq(mbefore)
    BY StreamsAreSeqs, CatSeq DEF StreamSeqs
  <1>4. GateStream = Cat(Cat(before, i), u) /\ MaskStream = Cat(Cat(mbefore, im), um)
    BY <1>2, <1>3, Streams DEF Gates, Masks
  <1>5. /\ GateStream' = Cat(Cat(before, InFlight("gates")'), Unsent')
        /\ MaskStream' = Cat(Cat(mbefore, InFlight("masks")'), gmasks')
    <2>1. /\ Held' = Held /\ HeldMasks' = HeldMasks /\ Received' = Received
          /\ gates_store' = gates_store /\ output_masks_store' = output_masks_store
      BY <1>1 DEF Held, HeldMasks, Received, Executing, evaluator, stores
    <2>2. QED
      BY <1>3, <2>1, Streams DEF Gates, Masks
  <1>6. IsSeq(ggates) /\ IsSeq(gmasks) /\ IsSeq(<<>>)
    BY EmptyFacts DEF SeqsInv
  <1>7. GateStream' = GateStream /\ MaskStream' = MaskStream
    <2>1. CASE GarblerEnd
      <3>1. Unsent' = u /\ InFlight("gates")' = i /\ InFlight("masks")' = im /\ gmasks' = um
        BY <1>2, <2>1 DEF GarblerEnd, GarblerBreak, Unsent, InFlight
      <3>2. QED
        BY <1>4, <1>5, <3>1
    <2>2. CASE GarblerSendGates
      <3>1. /\ chan' = Append(chan, Message("gates", ggates)) /\ gmasks' = um
            /\ u = ggates /\ Unsent' = <<>>
        BY <1>2, <2>2 DEF GarblerSendGates, Send, Unsent
      <3>2. InFlight("gates")' = Cat(i, u) /\ InFlight("masks")' = im
        BY <1>2, <1>6, <3>1, MessageSent
      <3>3. Cat(Cat(before, Cat(i, u)), <<>>) = Cat(Cat(before, i), u)
        BY <1>2, <1>3, CatSeq, CatEmpty, CatAssoc
      <3>4. QED
        BY <1>4, <1>5, <3>1, <3>2, <3>3
    <2>3. CASE GarblerSendMasks
      <3>1. /\ chan' = Append(chan, Message("masks", gmasks)) /\ gmasks' = <<>>
            /\ u = <<>> /\ Unsent' = <<>>
        BY <1>2, <2>3 DEF GarblerSendMasks, Send, Unsent
      <3>2. InFlight("masks")' = Cat(im, um) /\ InFlight("gates")' = i
        BY <1>2, <1>6, <3>1, MessageSent
      <3>3. Cat(Cat(mbefore, Cat(im, um)), <<>>) = Cat(Cat(mbefore, im), um)
        BY <1>2, <1>3, CatSeq, CatEmpty, CatAssoc
      <3>4. QED
        BY <1>4, <1>5, <3>1, <3>2, <3>3
    <2>4. CASE GarblerFinish
      <3>1. /\ chan' = Append(chan, Message("end", <<>>)) /\ gmasks' = um /\ Unsent' = u
        BY <1>2, <2>4 DEF GarblerFinish, Send, Unsent, EndMarker
      <3>2. InFlight("masks")' = im /\ InFlight("gates")' = i
        BY <1>2, <1>6, <3>1, MessageSent
      <3>3. QED
        BY <1>4, <1>5, <3>1, <3>2
    <2>5. QED
      BY <2>1, <2>2, <2>3, <2>4
  <1>8. QED
    BY <1>1, <1>7, Stutters DEF evaluator

(* What the evaluator stutters on leaves its wires and the garbler alone.   *)
LEMMA HandoverStutters ==
  ASSUME IInv, SeqsInv, EvaluatorHandover
  PROVE  UNCHANGED Y!vars
  <1>1. /\ estate = "wait" /\ gstate = "done" /\ gstate' = gstate /\ estate' = "execute" /\ mode' = mode
        /\ egates' = ggates /\ ggates' = <<>> /\ emasks' = gmasks /\ gmasks' = <<>>
        /\ UNCHANGED <<tape, garbling, evaluating, chan, gates_store, output_masks_store>>
    BY DEF EvaluatorHandover, stores
  <1>2. /\ mode = "simulate" /\ egates = <<>> /\ emasks = <<>> /\ chan = <<>>
        /\ gates_store = <<>> /\ output_masks_store = <<>>
    BY <1>1, StateFacts
  <1>3. PICK g, m : g = ggates /\ m = gmasks /\ IsSeq(g) /\ IsSeq(m) /\ IsSeq(<<>>)
    BY EmptyFacts DEF SeqsInv
  <1>4. /\ Held = <<>> /\ HeldMasks = <<>> /\ Received = <<>> /\ Unsent = g
        /\ Held' = g /\ HeldMasks' = m /\ Received' = <<>> /\ Unsent' = <<>>
    BY <1>1, <1>2, <1>3 DEF Held, HeldMasks, Received, Unsent, Executing
  <1>5. \A of : InFlight(of) = <<>> /\ InFlight(of)' = <<>>
    <2>1. ASSUME NEW of PROVE Parts(<<>>, of) = <<>>
      BY DEF Parts
    <2>2. ASSUME NEW of PROVE InFlight(of) = FlattenSeq(Parts(chan, of)) /\ InFlight(of)' = FlattenSeq(Parts(chan', of))
      BY DEF InFlight, Parts, Part
    <2>3. QED
      BY <1>1, <1>2, <2>1, <2>2, FlattenEmpty
  <1>6. GateStream = Gates(<<>>, <<>>, <<>>, <<>>, g) /\ MaskStream = Masks(<<>>, <<>>, <<>>, m)
    BY <1>2, <1>3, <1>4, <1>5, FlattenEmpty, Streams
  <1>7. GateStream' = Gates(g, <<>>, <<>>, <<>>, <<>>) /\ MaskStream' = Masks(m, <<>>, <<>>, <<>>)
    BY <1>1, <1>2, <1>4, <1>5, FlattenEmpty, Streams
  <1>8. GateStream' = g /\ GateStream = g /\ MaskStream' = m /\ MaskStream = m
    BY <1>3, <1>6, <1>7, CatEmpty DEF Gates, Masks
  <1>9. QED
    BY <1>1, <1>8, Stutters

(* Receiving and storing a batch does so too.                               *)
LEMMA ReceiveStutters ==
  ASSUME IInv, SeqsInv, EvaluatorPeek \/ EvaluatorReceiveGates \/ EvaluatorReceiveMasks
  PROVE  UNCHANGED Y!vars
  <1>1. UNCHANGED <<mode, tape, garbler, evaluating>> /\ chan # <<>>
    BY DEF EvaluatorPeek, EvaluatorReceiveGates, EvaluatorReceiveMasks
  <1>2. PICK h, f, i, hm, fm, im :
          /\ h = Held /\ f = FlattenSeq(gates_store) /\ i = InFlight("gates")
          /\ hm = HeldMasks /\ fm = FlattenSeq(output_masks_store) /\ im = InFlight("masks")
          /\ IsSeq(h) /\ IsSeq(f) /\ IsSeq(i) /\ IsSeq(hm) /\ IsSeq(fm) /\ IsSeq(im)
    BY StreamsAreSeqs DEF StreamSeqs
  <1>3. PICK r, u, um : /\ r = Received /\ u = Unsent /\ um = gmasks
                       /\ IsSeq(r) /\ IsSeq(u) /\ IsSeq(um)
    BY StreamsAreSeqs DEF StreamSeqs
  <1>4. Unsent' = u /\ gmasks' = um
    BY <1>1, <1>3 DEF Unsent, garbler
  <1>5. GateStream = Gates(h, f, r, i, u) /\ MaskStream = Masks(hm, fm, im, um)
    BY <1>2, <1>3, Streams
  <1>6. /\ GateStream' = Gates(Held', FlattenSeq(gates_store'), Received', InFlight("gates")', u)
        /\ MaskStream' = Masks(HeldMasks', FlattenSeq(output_masks_store'), InFlight("masks")', um)
    BY <1>4, Streams
  <1>7. TypeInv /\ FramesMatch /\ IsSeq(egates) /\ IsSeq(emasks) /\ IsSeq(<<>>)
    BY InTurn, EmptyFacts DEF IInv, SeqsInv
  <1>8. GateStream' = GateStream /\ MaskStream' = MaskStream
    <2>1. CASE EvaluatorPeek
      <3>1. /\ estate = "peek" /\ mode = "store" /\ estate' \in {"pop", "receive_gates"}
            /\ UNCHANGED <<egates, emasks, gates_store, output_masks_store>>
        BY <2>1, StateFacts DEF EvaluatorPeek, stores
      <3>2. Held' = h /\ HeldMasks' = hm /\ Received' = r
        BY <1>1, <1>2, <1>3, <3>1 DEF Held, HeldMasks, Received, Executing
      <3>3. InFlight("gates")' = i /\ InFlight("masks")' = im
        <4>1. CASE chan' = chan
          BY <1>2, <4>1 DEF InFlight
        <4>2. CASE chan' # chan
          <5>1. chan' = Tail(chan) /\ Head(chan) = EndMarker
            BY <2>1, <4>2 DEF EvaluatorPeek
          <5>2. Head(chan).of = "end"
            BY <5>1 DEF EndMarker, Message
          <5>3. QED
            BY <1>1, <1>2, <5>1, <5>2, MessageArrived
        <4>3. QED
          BY <4>1, <4>2
      <3>4. QED
        BY <1>2, <1>5, <1>6, <3>1, <3>2, <3>3
    <2>2. CASE EvaluatorReceiveGates
      <3>1. /\ estate = "receive_gates" /\ estate' = "receive_masks" /\ egates' = Head(chan).data
            /\ chan' = Tail(chan) /\ UNCHANGED <<emasks, gates_store, output_masks_store>>
            /\ Head(chan).of = "gates"
        BY <1>1, <1>7, <2>2 DEF EvaluatorReceiveGates, FramesMatch, stores
      <3>2. PICK d, j : /\ d = Head(chan).data /\ j = InFlight("gates")' /\ i = Cat(d, j)
                       /\ IsSeq(d) /\ IsSeq(j) /\ InFlight("masks")' = im
        BY <1>1, <1>2, <3>1, MessageArrived
      <3>3. HeldMasks' = hm
        BY <1>1, <1>2, <3>1 DEF HeldMasks, Executing
      <3>4. CASE mode = "store"
        <4>1. h = <<>> /\ r = <<>> /\ Held' = <<>> /\ Received' = d
          BY <1>1, <1>2, <1>3, <3>1, <3>2, <3>4 DEF Held, Received, Executing
        <4>2. Gates(<<>>, f, d, j, u) = Gates(<<>>, f, <<>>, i, u)
          BY <1>2, <1>3, <1>7, <3>2, CatSeq, CatEmpty, CatAssoc DEF Gates
        <4>3. QED
          BY <1>2, <1>5, <1>6, <3>1, <3>2, <3>3, <4>1, <4>2
      <3>5. CASE mode # "store"
        <4>1. mode = "continuous"
          BY <1>7, <3>1, <3>5, StateFacts DEF TypeInv
        <4>2. egates = <<>> /\ gates_store = <<>>
          BY <3>1, <4>1, StateFacts
        <4>3. h = <<>> /\ r = <<>> /\ Held' = d /\ Received' = <<>> /\ f = <<>>
          BY <1>1, <1>2, <1>3, <3>1, <3>2, <4>1, <4>2, FlattenEmpty DEF Held, Received, Executing
        <4>4. Gates(d, <<>>, <<>>, j, u) = Gates(<<>>, <<>>, <<>>, i, u)
          BY <1>2, <1>3, <1>7, <3>2, CatSeq, CatEmpty, CatAssoc DEF Gates
        <4>5. QED
          BY <1>2, <1>5, <1>6, <3>1, <3>2, <3>3, <4>3, <4>4
      <3>6. QED
        BY <3>4, <3>5
    <2>3. CASE EvaluatorReceiveMasks
      <3>1. /\ estate = "receive_masks" /\ chan' = Tail(chan) /\ Head(chan).of = "masks"
        BY <1>1, <1>7, <2>3 DEF EvaluatorReceiveMasks, FramesMatch
      <3>2. PICK d, j : /\ d = Head(chan).data /\ j = InFlight("masks")' /\ im = Cat(d, j)
                       /\ IsSeq(d) /\ IsSeq(j) /\ InFlight("gates")' = i
        BY <1>1, <1>2, <3>1, MessageArrived
      <3>3. CASE mode = "continuous"
        <4>1. /\ emasks' = d /\ estate' = "execute"
              /\ UNCHANGED <<egates, gates_store, output_masks_store>>
          BY <2>3, <3>2, <3>3 DEF EvaluatorReceiveMasks, stores
        <4>2. emasks = <<>> /\ output_masks_store = <<>>
          BY <3>1, <3>3, StateFacts
        <4>3. h = egates /\ r = <<>> /\ Held' = h /\ Received' = r
          BY <1>1, <1>2, <1>3, <3>3, <4>1 DEF Held, Received, Executing
        <4>4. hm = <<>> /\ fm = <<>> /\ HeldMasks' = d
          BY <1>1, <1>2, <3>3, <4>1, <4>2, FlattenEmpty DEF HeldMasks, Executing
        <4>5. Masks(d, <<>>, j, um) = Masks(<<>>, <<>>, im, um)
          BY <1>2, <1>3, <1>7, <3>2, CatSeq, CatEmpty, CatAssoc DEF Masks
        <4>6. QED
          BY <1>2, <1>5, <1>6, <3>2, <4>1, <4>3, <4>4, <4>5
      <3>4. CASE mode = "store"
        <4>1. /\ estate' = "peek"
              /\ gates_store' = Append(gates_store, egates)
              /\ output_masks_store' = Append(output_masks_store, d)
          BY <2>3, <3>2, <3>4 DEF EvaluatorReceiveMasks
        <4>2. /\ h = <<>> /\ hm = <<>> /\ r = egates
              /\ Held' = <<>> /\ HeldMasks' = <<>> /\ Received' = <<>>
          BY <1>1, <1>2, <1>3, <3>1, <3>4, <4>1 DEF Held, HeldMasks, Received, Executing
        <4>3. FlattenSeq(gates_store') = Cat(f, r) /\ FlattenSeq(output_masks_store') = Cat(fm, d)
          BY <1>2, <1>3, <1>7, <3>2, <4>1, <4>2, FlattenAppend DEF SeqsInv, Cat
        <4>4. Gates(<<>>, Cat(f, r), <<>>, i, u) = Gates(<<>>, f, r, i, u)
          BY <1>2, <1>3, <1>7, CatSeq, CatEmpty, CatAssoc DEF Gates
        <4>5. Masks(<<>>, Cat(fm, d), j, um) = Masks(<<>>, fm, im, um)
          BY <1>2, <1>3, <1>7, <3>2, CatSeq, CatEmpty, CatAssoc DEF Masks
        <4>6. QED
          BY <1>5, <1>6, <3>2, <4>2, <4>3, <4>4, <4>5
      <3>5. QED
        BY <2>3, <3>3, <3>4 DEF EvaluatorReceiveMasks
    <2>4. QED
      BY <2>1, <2>2, <2>3
  <1>9. QED
    BY <1>1, <1>8, Stutters DEF garbler

(* So does taking a batch out of the stores.                                *)
LEMMA PopStutters ==
  ASSUME IInv, SeqsInv, EvaluatorPop \/ EvaluatorEnd
  PROVE  UNCHANGED Y!vars
  <1>1. UNCHANGED <<mode, tape, garbler, chan, evaluating>> /\ estate' \in {"execute", "done"}
    BY DEF EvaluatorPop, EvaluatorEnd
  <1>2. Unsent' = Unsent /\ gmasks' = gmasks /\ \A of : InFlight(of)' = InFlight(of)
    BY <1>1 DEF Unsent, InFlight, garbler
  <1>3. CASE EvaluatorEnd
    <2>1. /\ estate = "execute" /\ estate' = "done"
          /\ UNCHANGED <<egates, emasks, gates_store, output_masks_store>>
      BY <1>3 DEF EvaluatorEnd, stores
    <2>2. Held' = Held /\ HeldMasks' = HeldMasks /\ Received' = Received
      BY <1>1, <2>1 DEF Held, HeldMasks, Received, Executing
    <2>3. GateStream' = GateStream /\ MaskStream' = MaskStream
      BY <1>2, <2>1, <2>2, Streams
    <2>4. QED
      BY <1>1, <2>3, Stutters DEF garbler
  <1>4. CASE EvaluatorPop
    <2>1. mode = "store" /\ estate = "pop" /\ gates_store # <<>> /\ output_masks_store # <<>>
      BY <1>4, StateFacts DEF EvaluatorPop
    <2>2. /\ egates' = Head(gates_store) /\ gates_store' = Tail(gates_store)
          /\ emasks' = Head(output_masks_store) /\ output_masks_store' = Tail(output_masks_store)
          /\ estate' = "execute"
      BY <1>4, <2>1 DEF EvaluatorPop, Popped, Rest
    <2>3. /\ Held = <<>> /\ HeldMasks = <<>> /\ Received = <<>>
          /\ Held' = egates' /\ HeldMasks' = emasks' /\ Received' = <<>>
      BY <1>1, <2>1, <2>2 DEF Held, HeldMasks, Received, Executing
    <2>4. PICK h, f, hm, fm :
            /\ h = egates' /\ f = FlattenSeq(gates_store')
            /\ hm = emasks' /\ fm = FlattenSeq(output_masks_store')
            /\ IsSeq(h) /\ IsSeq(f) /\ IsSeq(hm) /\ IsSeq(fm)
            /\ FlattenSeq(gates_store) = Cat(h, f) /\ FlattenSeq(output_masks_store) = Cat(hm, fm)
      <3>1. /\ AreSeqs(gates_store') /\ IsSeq(egates')
            /\ AreSeqs(output_masks_store') /\ IsSeq(emasks')
        BY <2>1, <2>2, FlattenTail DEF SeqsInv
      <3>2. /\ FlattenSeq(gates_store) = Cat(egates', FlattenSeq(gates_store'))
            /\ FlattenSeq(output_masks_store) = Cat(emasks', FlattenSeq(output_masks_store'))
        BY <2>1, <2>2, FlattenTail DEF SeqsInv, Cat
      <3>3. IsSeq(FlattenSeq(gates_store')) /\ IsSeq(FlattenSeq(output_masks_store'))
        BY <3>1, FlattenIsSeq
      <3>4. QED
        BY <3>1, <3>2, <3>3
    <2>5. PICK i, u, im, um : /\ i = InFlight("gates") /\ u = Unsent /\ im = InFlight("masks") /\ um = gmasks
                             /\ IsSeq(i) /\ IsSeq(u) /\ IsSeq(im) /\ IsSeq(um)
      BY StreamsAreSeqs DEF StreamSeqs
    <2>6. /\ GateStream = Gates(<<>>, Cat(h, f), <<>>, i, u) /\ GateStream' = Gates(h, f, <<>>, i, u)
          /\ MaskStream = Masks(<<>>, Cat(hm, fm), im, um) /\ MaskStream' = Masks(hm, fm, im, um)
      BY <1>2, <2>3, <2>4, <2>5, Streams
    <2>7. GateStream' = GateStream
      BY <2>4, <2>5, <2>6, CatSeq, CatEmpty, EmptyFacts DEF Gates
    <2>8. MaskStream' = MaskStream
      BY <2>4, <2>5, <2>6, CatSeq, CatEmpty, EmptyFacts DEF Masks
    <2>9. QED
      BY <1>1, <2>7, <2>8, Stutters DEF garbler
  <1>5. QED
    BY <1>3, <1>4

(* The streams are empty at first.                                          *)
LEMMA InitMaps == Init => Y!Init
  <1> SUFFICES ASSUME Init PROVE Y!Init
    OBVIOUS
  <1>1. /\ G!Init /\ E!Init /\ chan = <<>> /\ gates_store = <<>> /\ output_masks_store = <<>>
        /\ ggates = <<>> /\ gmasks = <<>> /\ egates = <<>> /\ emasks = <<>>
    BY DEF Init, G!Init, E!Init
  <1>2. Held = <<>> /\ HeldMasks = <<>> /\ Received = <<>> /\ Unsent = <<>>
    BY <1>1 DEF Held, HeldMasks, Received, Unsent
  <1>3. \A of : InFlight(of) = <<>>
    <2>1. ASSUME NEW of PROVE InFlight(of) = FlattenSeq(<<>>)
      BY <1>1 DEF InFlight
    <2>2. QED
      BY <2>1, FlattenEmpty
  <1>4. GateStream = <<>> /\ MaskStream = <<>>
    BY <1>1, <1>2, <1>3, FlattenEmpty, EmptyFacts, CatEmpty, Streams DEF Gates, Masks
  <1>5. QED
    BY <1>1, <1>4 DEF G!Init, E!Init, Y!Init, G!Positions, Y!Positions, E!Positions

(* Every step is one of YaoGates on the streams, or none.                   *)
LEMMA StepMaps == IInv /\ SeqsInv /\ [Next]_vars => [Y!Next]_(Y!vars)
  <1> SUFFICES ASSUME IInv, SeqsInv, [Next]_vars PROVE Y!Next \/ UNCHANGED Y!vars
    OBVIOUS
  <1>1. CASE GarblerNext
    BY <1>1, GarblerExecuteMaps, GarblerStutters DEF GarblerNext, Y!Next
  <1>2. CASE EvaluatorNext
    BY <1>2, EvaluatorExecuteMaps, HandoverStutters, ReceiveStutters, PopStutters DEF EvaluatorNext, Y!Next
  <1>3. CASE UNCHANGED vars
    <2>1. UNCHANGED <<mode, tape, garbling, gstate, ggates, gmasks, chan, evaluating, estate, egates, emasks,
                      gates_store, output_masks_store>>
      BY <1>3 DEF vars, garbler, evaluator, stores
    <2>2. GateStream' = GateStream /\ MaskStream' = MaskStream
      BY <2>1 DEF GateStream, MaskStream, Held, HeldMasks, Received, Unsent, Executing, InFlight
    <2>3. QED
      BY <2>1, <2>2, Stutters
  <1>4. QED
    BY <1>1, <1>2, <1>3 DEF Next

(* The players implement YaoGates: however the two streams are cut into     *)
(* batches, sent, stored and taken out of the store, each step of a player   *)
(* is a step of the garbler or the evaluator on the whole streams, or none.  *)
THEOREM Refinement == Spec => ImplementsYaoGates
  <1>1. Init => IInv /\ SeqsInv /\ Y!Init
    BY InitIInv, InitSeqs, InitMaps
  <1>2. IInv /\ SeqsInv /\ [Next]_vars => IInv' /\ SeqsInv' /\ [Y!Next]_(Y!vars)
    BY StepIInv, SeqsKept, StepMaps
  <1>3. QED
    BY <1>1, <1>2, PTL DEF Spec, ImplementsYaoGates, Y!Spec

-----------------------------------------------------------------------------
(* What is proved of YaoGates holds of the two processes, on their streams. *)

YG == INSTANCE YaoGates_proofs WITH gates <- GateStream, output_masks <- MaskStream

(* YaoGates is instantiated twice, here with its theorems: the two           *)
(* instances say the same.                                                  *)
LEMMA SameInit == Y!Init => YG!Init
  BY DEF Y!Init, YG!Init, Y!Positions, YG!Positions

(* Their steps are the same.                                                *)
LEMMA SameNext == [Y!Next]_(Y!vars) => [YG!Next]_(YG!vars)
  BY DEF Y!GLabels, YG!GLabels, Y!GarbleWire, YG!GarbleWire, Y!GarbleLinear,
     YG!GarbleLinear, Y!GarbleAnd, YG!GarbleAnd, Y!GarbleReveal,
     YG!GarbleReveal, Y!Garble, YG!Garble, Y!Remember, YG!Remember,
     Y!GarblerStep, YG!GarblerStep, Y!SetWire, YG!SetWire, Y!EvalLinear,
     YG!EvalLinear, Y!ELabels, YG!ELabels, Y!EvalAnd, YG!EvalAnd,
     Y!EvalReveal, YG!EvalReveal, Y!Eval, YG!Eval, Y!EvaluatorStep,
     YG!EvaluatorStep, Y!Next, YG!Next, Y!vars, YG!vars, Y!garbler,
     YG!garbler, Y!evaluator, YG!evaluator, Y!history, YG!history, Y!Delta,
     YG!Delta, Y!FreshKey, YG!FreshKey, Y!Add, YG!Add, Y!DeltaIf,
     YG!DeltaIf, Y!Signal, YG!Signal, Y!Hash, YG!Hash, Y!GarbleGate,
     YG!GarbleGate, Y!EvalGate, YG!EvalGate

(* The tapes are well-formed for both.                                      *)
LEMMA SameAssumptions == \A t \in Tapes : YG!WellFormed(t)
  BY TapesAssumption DEF WellFormed, YG!WellFormed, Entry, YG!Entry, Op, YG!Op,
     DefinedBeforeUse, YG!DefinedBeforeUse, Consecutive, YG!Consecutive, NoAlias, YG!NoAlias,
     DistinctOuts, YG!DistinctOuts, SameInstruction, YG!SameInstruction, Uses, YG!Uses,
     Defined, YG!Defined, Writes, YG!Writes

(* So their specifications are.                                             *)
LEMMA SameSpec == Y!Spec => YG!Spec
  BY SameInit, SameNext, PTL DEF Y!Spec, YG!Spec

(* The evaluator process holds on every wire one of the two keys that the   *)
(* garbler process gave it, whatever the batches, buffers and messages in   *)
(* between.                                                                 *)
THEOREM PlayersWires == Spec => []Y!WireCorrect
  <1>1. YG!Spec => []YG!WireCorrect
    BY YG!WiresMatch, SameAssumptions, BatchMinAssumption
  <1>2. YG!WireCorrect <=> Y!WireCorrect
    BY DEF Y!WireCorrect, YG!WireCorrect, Y!Add, YG!Add, Y!DeltaIf, YG!DeltaIf, Y!Delta, YG!Delta,
      Y!Defined, YG!Defined, Y!Writes, YG!Writes
  <1>3. QED
    BY <1>1, <1>2, SameSpec, Refinement, PTL DEF ImplementsYaoGates

(* The evaluator process never holds two keys that differ by Delta.         *)
THEOREM PlayersOneKey == Spec => []Y!NeverBothKeys
  <1>1. YG!Spec => []YG!NeverBothKeys
    BY YG!OneKeyOfTwo, SameAssumptions, BatchMinAssumption
  <1>2. YG!NeverBothKeys <=> Y!NeverBothKeys
    BY DEF Y!NeverBothKeys, YG!NeverBothKeys, Y!Add, YG!Add, Y!Delta, YG!Delta,
      Y!Defined, YG!Defined, Y!Writes, YG!Writes
  <1>3. QED
    BY <1>1, <1>2, SameSpec, Refinement, PTL DEF ImplementsYaoGates

(* The plain circuits of the two instances are the same, too.               *)
LEMMA SamePlain ==
  /\ YG!Plain!Init => Y!Plain!Init
  /\ [YG!Plain!Next]_(YG!Plain!vars) => [Y!Plain!Next]_(Y!Plain!vars)
  BY DEF Y!Plain!Init, YG!Plain!Init, Y!Plain!Next, YG!Plain!Next, Y!Plain!vars, YG!Plain!vars,
     Y!Plain!Write, YG!Plain!Write, Y!Plain!Reveal, YG!Plain!Reveal,
     Y!Plain!Results, YG!Plain!Results, Y!Plain!Writes, YG!Plain!Writes

(* Two processes and a connection reveal the outputs of the plain circuit:  *)
(* through the streams to YaoGates, and from there to PlainCircuit.         *)
THEOREM PlayersEvaluate == Spec => Y!EvaluatesThePlainCircuit
  <1>1. YG!Spec => YG!EvaluatesThePlainCircuit
    BY YG!Implementation, SameAssumptions, BatchMinAssumption
  <1>2. YG!Plain!Spec => Y!Plain!Spec
    BY SamePlain, PTL DEF Y!Plain!Spec, YG!Plain!Spec
  <1>3. QED
    BY <1>1, <1>2, SameSpec, Refinement, PTL DEF ImplementsYaoGates, YG!EvaluatesThePlainCircuit, Y!EvaluatesThePlainCircuit

-----------------------------------------------------------------------------
(* The store of received messages is a queue for every size of its ring.    *)
Ring == [i \in 1 .. mem_size |-> mem[Slot(i)]]

(* A number below twice the modulus is reduced by subtracting it once.      *)
LEMMA Wrap ==
  ASSUME NEW a \in Nat, NEW n \in Nat \ {0}, a < 2 * n
  PROVE  a % n = IF a < n THEN a ELSE a - n
<1> DEFINE q == a \div n
           r == a % n
<1>1. q \in Int /\ r \in 0 .. n - 1 /\ a = n * q + r
  OBVIOUS
<1> HIDE DEF q, r
<1>2. n * q \in Int
  BY <1>1
<1>3. q >= 0
  <2>1. SUFFICES ASSUME q <= -1 PROVE FALSE
    BY <1>1
  <2>2. PICK d \in Nat : q = -1 - d
    <3>1. -1 - q \in Nat /\ q = -1 - (-1 - q)
      BY <1>1, <2>1
    <3> QED BY <3>1
  <2>3. n * q = - n - n * d /\ n * d \in Nat
    BY <2>2
  <2> QED BY <1>1, <2>3
<1>4. q <= 1
  <2>1. SUFFICES ASSUME q >= 2 PROVE FALSE
    BY <1>1
  <2>2. PICK d \in Nat : q = 2 + d
    <3>1. q - 2 \in Nat /\ q = 2 + (q - 2)
      BY <1>1, <2>1
    <3> QED BY <3>1
  <2>3. n * q = 2 * n + n * d /\ n * d \in Nat
    BY <2>2
  <2> QED BY <1>1, <2>3
<1>5. CASE q = 0
  BY <1>1, <1>5 DEF r
<1>6. CASE q = 1
  BY <1>1, <1>6 DEF r
<1> QED BY <1>1, <1>3, <1>4, <1>5, <1>6

(* The slots of the ring, without the modulus.                              *)
LEMMA SlotValue ==
  ASSUME start \in Slots, mem_size \in 0 .. N, NEW i \in 1 .. N + 1
  PROVE  Slot(i) = IF start + i - 1 < N THEN start + i - 1 ELSE start + i - 1 - N
<1> DEFINE a == start + i - 1
<1>1. a \in Nat /\ a < 2 * N /\ N \in Nat \ {0}
  BY StoreAssumption DEF Slots
<1>2. Slot(i) = a % N
  BY DEF Slot
<1> HIDE DEF a
<1>3. a % N = IF a < N THEN a ELSE a - N
  BY <1>1, Wrap
<1>4. Slot(i) = IF a < N THEN a ELSE a - N
  BY <1>2, <1>3
<1> QED BY <1>4, StoreAssumption DEF a, Slots

(* An empty store has its types.                                           *)
LEMMA TypeInit == StoreInit => TypeOK
  BY StoreAssumption DEF StoreInit, TypeOK, Slots, Buffer, InUse

(* Every operation keeps them, and resets the slots it takes out of use.    *)
LEMMA TypeStep == TypeOK /\ [StoreNext]_storeVars => TypeOK'
<1> SUFFICES ASSUME TypeOK, [StoreNext]_storeVars PROVE TypeOK'
  OBVIOUS
<1> USE StoreAssumption DEF TypeOK, Buffer
<1>0. \A i \in 1 .. N + 1 :
        Slot(i) = IF start + i - 1 < N THEN start + i - 1 ELSE start + i - 1 - N
  BY SlotValue
<1>1. CASE Receive
  BY <1>1 DEF Receive, InUse, Slot, Slots
<1>2. CASE PushToMemory
  <2>1. mem_size < N /\ mem_size' = mem_size + 1 /\ start' = start
    BY <1>2 DEF PushToMemory, InMemory
  <2>2. NextSlot = Slot(mem_size + 1) /\ NextSlot \in Slots
    <3>1. NextSlot = Slot(mem_size + 1)
      BY DEF NextSlot, Slot, Slots
    <3>2. mem_size + 1 \in 1 .. N + 1
      OBVIOUS
    <3> QED BY <3>1, <3>2, <1>0 DEF Slots
  <2>3. mem' = [mem EXCEPT ![NextSlot] = msg]
    BY <1>2 DEF PushToMemory
  <2>4. NextSlot \in InUse' /\ InUse \subseteq InUse'
    <3>1. \A i : Slot(i)' = Slot(i)
      BY <2>1 DEF Slot
    <3>2. mem_size + 1 \in 1 .. mem_size' /\ 1 .. mem_size \subseteq 1 .. mem_size'
      BY <2>1
    <3> QED BY <2>2, <3>1, <3>2 DEF InUse
  <2>5. \A s \in Slots \ InUse' : mem'[s] = Reset
    BY <2>2, <2>3, <2>4
  <2>6. mem' \in [Slots -> Buffer]
    BY <2>3
  <2> QED BY <1>2, <2>1, <2>5, <2>6 DEF PushToMemory, Slots
<1>3. CASE PushToFile
  BY <1>3 DEF PushToFile, InUse, Slot, Slots
<1>4. CASE PopFromMemory
  <2>1. /\ mem_size > 0 /\ mem_size' = mem_size - 1
        /\ mem' = [mem EXCEPT ![start] = Reset]
        /\ start' = IF start + 1 < N THEN start + 1 ELSE 0
    <3>1. start + 1 \in Nat /\ (start + 1 < 2 * N \/ N = 1)
      BY DEF Slots
    <3>2. start' = (start + 1) % N
      BY <1>4 DEF PopFromMemory
    <3>3. (start + 1) % N = Slot(2)
      BY DEF Slot, Slots
    <3>4. start' = IF start + 1 < N THEN start + 1 ELSE start + 1 - N
      BY <3>2, <3>3, <1>0 DEF Slots
    <3> QED BY <1>4, <3>4 DEF PopFromMemory, Slots
  <2>2. start' \in Slots /\ mem_size' \in 0 .. N
    BY <2>1 DEF Slots
  <2>3. \A i \in 1 .. N + 1 : Slot(i)' = IF start' + i - 1 < N THEN start' + i - 1
                                                          ELSE start' + i - 1 - N
    <3> SUFFICES ASSUME NEW i \in 1 .. N + 1
                 PROVE  Slot(i)' = IF start' + i - 1 < N THEN start' + i - 1
                                                          ELSE start' + i - 1 - N
      OBVIOUS
    <3> DEFINE a == start' + i - 1
    <3>1. a \in Nat /\ a < 2 * N /\ N \in Nat \ {0}
      BY <2>2 DEF Slots
    <3>2. Slot(i)' = a % N
      BY DEF Slot
    <3> HIDE DEF a
    <3>3. a % N = IF a < N THEN a ELSE a - N
      BY <3>1, Wrap
    <3>4. Slot(i)' = IF a < N THEN a ELSE a - N
      BY <3>2, <3>3
    <3> QED BY <3>4, <2>2 DEF a, Slots
  <2>4. ASSUME NEW s \in Slots, s \notin InUse' PROVE mem'[s] = Reset
    <3>1. CASE s = start
      BY <2>1, <3>1
    <3>2. CASE s # start
      <4>1. s \notin InUse
        <5>1. SUFFICES ASSUME NEW i \in 1 .. mem_size, s = Slot(i) PROVE FALSE
          BY DEF InUse
        <5>2. i # 1
          BY <1>0, <3>2, <5>1 DEF Slots
        <5>3. i - 1 \in 1 .. mem_size' /\ i - 1 \in 1 .. N + 1 /\ i \in 1 .. N + 1
          BY <2>1, <5>2
        <5>4. Slot(i - 1)' = Slot(i)
          BY <1>0, <2>1, <2>3, <5>3 DEF Slots
        <5> QED BY <2>4, <5>1, <5>3, <5>4 DEF InUse
      <4> QED BY <2>1, <3>2, <4>1
    <3> QED BY <3>1, <3>2
  <2>5. mem[start] \in Buffer
    OBVIOUS
  <2> QED BY <1>4, <2>1, <2>2, <2>4, <2>5 DEF PopFromMemory
<1>5. CASE PopFromFile
  BY <1>5 DEF PopFromFile, InUse, Slot, Slots
<1>6. CASE PopNothing
  BY <1>6 DEF PopNothing, InUse, Slot, Slots
<1>7. CASE UNCHANGED storeVars
  BY <1>7 DEF storeVars, InUse, Slot, Slots
<1> QED BY <1>1, <1>2, <1>3, <1>4, <1>5, <1>6, <1>7 DEF StoreNext

(* Types of the store, and unused slots of the ring hold nothing.           *)
THEOREM StoreTypes == StoreSpec => []TypeOK
<1> QED BY TypeInit, TypeStep, PTL DEF StoreSpec

-----------------------------------------------------------------------------
(* An empty store is an empty queue.                                        *)
LEMMA QueueInit == StoreInit => F!Init
  BY DEF StoreInit, F!Init

(* Two sequences of the same length that agree everywhere.                  *)
LEMMA RingType ==
  ASSUME TypeOK
  PROVE  /\ Ring \in Seq(Buffer) /\ Len(Ring) = mem_size
         /\ \A i \in 1 .. mem_size : Ring[i] = mem[Slot(i)]
<1>1. \A i \in 1 .. mem_size : Slot(i) \in Slots
  <2> TAKE i \in 1 .. mem_size
  <2>1. i \in 1 .. N + 1
    BY StoreAssumption DEF TypeOK
  <2> QED BY <2>1, SlotValue, StoreAssumption DEF TypeOK, Slots
<1>2. mem_size \in Nat /\ \A i \in 1 .. mem_size : mem[Slot(i)] \in Buffer
  BY <1>1, StoreAssumption DEF TypeOK
<1> QED BY <1>2 DEF Ring

(* Pushed into memory: the ring grows by the message, there are no files.   *)
LEMMA RingPush ==
  ASSUME TypeOK, PushToMemory
  PROVE  Ring' = Append(Ring, msg)
<1> USE StoreAssumption DEF TypeOK
<1>1. /\ mem_size < N /\ mem_size' = mem_size + 1 /\ start' = start
      /\ mem' = [mem EXCEPT ![NextSlot] = msg]
  BY DEF PushToMemory, InMemory
<1>2. \A i \in 1 .. N + 1 :
        Slot(i) = IF start + i - 1 < N THEN start + i - 1 ELSE start + i - 1 - N
  BY SlotValue
<1>3. NextSlot = Slot(mem_size + 1)
  BY DEF NextSlot, Slot, Slots
<1>4. \A i : Slot(i)' = Slot(i)
  BY <1>1 DEF Slot
<1>5. \A i \in 1 .. mem_size : Slot(i) # NextSlot /\ Slot(i) \in Slots
  BY <1>1, <1>2, <1>3 DEF Slots
<1>6. NextSlot \in Slots
  BY <1>1, <1>2, <1>3 DEF Slots
<1>7. \A i \in 1 .. mem_size + 1 :
        mem'[Slot(i)'] = IF i = mem_size + 1 THEN msg ELSE mem[Slot(i)]
  BY <1>1, <1>3, <1>4, <1>5, <1>6
<1>8. Ring' = [i \in 1 .. mem_size + 1 |-> mem'[Slot(i)']]
  BY <1>1 DEF Ring
<1>9. /\ Len(Ring) = mem_size /\ Ring \in Seq(Buffer)
      /\ \A i \in 1 .. mem_size : Ring[i] = mem[Slot(i)]
  BY RingType
<1>10. /\ Append(Ring, msg) \in Seq(Buffer) /\ Len(Append(Ring, msg)) = mem_size + 1
       /\ \A i \in 1 .. mem_size + 1 :
            Append(Ring, msg)[i] = IF i = mem_size + 1 THEN msg ELSE mem[Slot(i)]
  BY <1>9
<1>11. \A i \in 1 .. mem_size + 1 : mem'[Slot(i)'] \in Buffer
  BY <1>5, <1>7
<1>12. /\ Ring' \in Seq(Buffer) /\ Len(Ring') = mem_size + 1
       /\ \A i \in 1 .. mem_size + 1 : Ring'[i] = mem'[Slot(i)']
  BY <1>8, <1>11
<1>13. \A i \in 1 .. mem_size + 1 : Ring'[i] = Append(Ring, msg)[i]
  BY <1>7, <1>10, <1>12
<1> QED BY <1>10, <1>12, <1>13, SeqEqual

(* Popped from memory: the oldest message is the ring's head.               *)
LEMMA RingPop ==
  ASSUME TypeOK, PopFromMemory
  PROVE  Ring # <<>> /\ msg' = Head(Ring) /\ Ring' = Tail(Ring)
<1> USE StoreAssumption DEF TypeOK
<1>1. /\ mem_size > 0 /\ mem_size' = mem_size - 1 /\ start' = (start + 1) % N
      /\ mem' = [mem EXCEPT ![start] = Reset] /\ msg' = mem[start]
  BY DEF PopFromMemory
<1>2. \A i \in 1 .. N + 1 :
        Slot(i) = IF start + i - 1 < N THEN start + i - 1 ELSE start + i - 1 - N
  BY SlotValue
<1>3. start' = IF start + 1 < N THEN start + 1 ELSE 0
  <2>1. (start + 1) % N = Slot(2)
    BY DEF Slot, Slots
  <2> QED BY <1>1, <1>2, <2>1 DEF Slots
<1>4. \A i \in 1 .. mem_size - 1 : Slot(i)' = Slot(i + 1)
  <2> TAKE i \in 1 .. mem_size - 1
  <2>1. start' \in Slots /\ i + 1 \in 1 .. N + 1
    BY <1>3 DEF Slots
  <2> DEFINE a == start' + i - 1
  <2>2. a \in Nat /\ a < 2 * N /\ N \in Nat \ {0} /\ Slot(i)' = a % N
    BY <2>1 DEF Slots, Slot
  <2> HIDE DEF a
  <2>3. Slot(i)' = IF a < N THEN a ELSE a - N
    BY <2>2, Wrap
  <2> USE DEF a
  <2> QED BY <1>2, <1>3, <2>1, <2>3 DEF Slots
<1>5. \A i \in 2 .. mem_size : Slot(i) # start /\ Slot(i) \in Slots
  BY <1>2 DEF Slots
<1>6. \A i \in 1 .. mem_size - 1 : mem'[Slot(i)'] = mem[Slot(i + 1)]
  <2> TAKE i \in 1 .. mem_size - 1
  <2>1. i + 1 \in 2 .. mem_size
    OBVIOUS
  <2> QED BY <1>1, <1>4, <1>5, <2>1
<1>7. /\ Len(Ring) = mem_size /\ Ring \in Seq(Buffer)
      /\ \A i \in 1 .. mem_size : Ring[i] = mem[Slot(i)]
  BY RingType
<1>8. Ring # <<>> /\ msg' = Head(Ring)
  <2>1. Slot(1) = start
    BY <1>2 DEF Slots
  <2> QED BY <1>1, <1>7, <2>1
<1>9. Ring' = [i \in 1 .. mem_size - 1 |-> mem'[Slot(i)']]
  BY <1>1 DEF Ring
<1>10. /\ Tail(Ring) \in Seq(Buffer) /\ Len(Tail(Ring)) = mem_size - 1
       /\ \A i \in 1 .. mem_size - 1 : Tail(Ring)[i] = Ring[i + 1]
  BY <1>1, <1>7, <1>8
<1>11. \A i \in 1 .. mem_size - 1 : mem'[Slot(i)'] \in Buffer
  <2> TAKE i \in 1 .. mem_size - 1
  <2>1. i + 1 \in 2 .. mem_size
    OBVIOUS
  <2> QED BY <1>5, <1>6, <2>1
<1>12. /\ Ring' \in Seq(Buffer) /\ Len(Ring') = mem_size - 1
       /\ \A i \in 1 .. mem_size - 1 : Ring'[i] = mem'[Slot(i)']
  BY <1>1, <1>9, <1>11
<1>13. \A i \in 1 .. mem_size - 1 : Ring'[i] = Tail(Ring)[i]
  <2> TAKE i \in 1 .. mem_size - 1
  <2>1. i + 1 \in 1 .. mem_size
    OBVIOUS
  <2> QED BY <1>6, <1>7, <1>10, <1>12, <2>1
<1>14. Ring' = Tail(Ring)
  BY <1>10, <1>12, <1>13, SeqEqual
<1> QED BY <1>8, <1>14

(* Every operation of the store is that of the queue.                       *)
LEMMA QueueStep == TypeOK /\ [StoreNext]_storeVars => [F!Next]_F!vars
<1> SUFFICES ASSUME TypeOK, [StoreNext]_storeVars PROVE [F!Next]_F!vars
  OBVIOUS
<1> DEFINE Q == Ring \o files
<1>0. /\ Len(Ring) = mem_size /\ Ring \in Seq(Buffer)
      /\ files \in Seq(Buffer) /\ mem_size \in Nat
  BY RingType, StoreAssumption DEF TypeOK
<1>1. CASE Receive
  <2>1. Q' = Q
    BY <1>1 DEF Receive, Ring, Slot
  <2> QED BY <1>1, <2>1 DEF Receive, F!Next, F!Receive, Ring
<1>2. CASE PushToMemory
  <2>1. files = <<>> /\ files' = <<>>
    BY <1>2 DEF PushToMemory, InMemory
  <2>2. Q' = Append(Q, msg)
    BY <1>0, <1>2, <2>1, RingPush
  <2> QED BY <1>2, <2>2 DEF PushToMemory, F!Next, F!Push, Ring
<1>3. CASE PushToFile
  <2>1. Ring' = Ring
    BY <1>3 DEF PushToFile, Ring, Slot
  <2>2. Q' = Append(Q, msg)
    BY <1>0, <1>3, <2>1 DEF PushToFile
  <2> QED BY <1>3, <2>2 DEF PushToFile, F!Next, F!Push, Ring
<1>4. CASE PopFromMemory
  <2>1. Ring # <<>> /\ msg' = Head(Ring) /\ Ring' = Tail(Ring) /\ files' = files
    BY <1>4, RingPop DEF PopFromMemory
  <2>2. Q # <<>> /\ Head(Q) = Head(Ring) /\ Tail(Q) = Tail(Ring) \o files
    BY <1>0, <2>1
  <2> QED BY <1>4, <2>1, <2>2 DEF PopFromMemory, F!Next, F!Pop, Ring
<1>5. CASE PopFromFile
  <2>1. Ring = <<>> /\ Ring' = <<>>
    BY <1>5 DEF PopFromFile, Ring
  <2>2. Q = files /\ Q' = Tail(files) /\ files # <<>>
    BY <1>0, <1>5, <2>1 DEF PopFromFile
  <2> QED BY <1>5, <2>2 DEF PopFromFile, F!Next, F!Pop, Ring
<1>6. CASE PopNothing
  <2>1. Ring = <<>> /\ Ring' = <<>>
    BY <1>6 DEF PopNothing, Ring
  <2>2. Q = <<>> /\ Q' = <<>>
    BY <1>0, <1>6, <2>1 DEF PopNothing
  <2> QED BY <1>6, <2>2 DEF PopNothing, F!Next, F!Pop, Ring
<1>7. CASE UNCHANGED storeVars
  <2>1. Q' = Q
    BY <1>7 DEF storeVars, Ring, Slot
  <2> QED BY <1>7, <2>1 DEF storeVars, F!vars, Ring
<1> QED BY <1>1, <1>2, <1>3, <1>4, <1>5, <1>6, <1>7 DEF StoreNext

(* The ring in memory and the files after it are one queue, whatever the    *)
(* order of pushes and pops.                                                *)
THEOREM StoreIsQueue == StoreSpec => ImplementsFifo
<1> QED BY QueueInit, QueueStep, StoreTypes, PTL DEF StoreSpec, ImplementsFifo, F!Spec
=============================================================================
