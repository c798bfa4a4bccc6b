----------------------------- MODULE YaoPlayers -----------------------------
(***************************************************************************)
(* The two processes of yao-player.x and the one of yao-simulate.x         *)
(* (Yao/YaoPlayer.cpp, Yao/YaoSimulator.cpp).                               *)
(*                                                                         *)
(* The garbler executes the tape until Program::execute breaks, sends the  *)
(* buffers of gates and output masks it has filled and clears them.  The   *)
(* evaluator loads one pair of buffers and executes until its own execute   *)
(* breaks.  Nothing in the messages says where a batch ends: the players   *)
(* stay in step because both count the same complexity and break at the    *)
(* same instruction.  Three modes:                                          *)
(*   store       the evaluator first stores all messages, up to the long -1 *)
(*               that ends them, and then evaluates from the store;        *)
(*   continuous  the -C option: it evaluates each batch as it arrives;      *)
(*   simulate    one process: the garbler runs to the end, then the         *)
(*               evaluator is handed its buffers.                           *)
(*                                                                         *)
(* What a garbled or evaluated entry does to wires and buffers is that of   *)
(* YaoGates, instantiated once for each player's own buffers.               *)
(***************************************************************************)
EXTENDS GCTape, SequencesExt

CONSTANTS GarblerBatchMin, EvaluatorBatchMin,   \* see YaoGates
          Limit,       \* complexity that ends a batch, 1 << 20 in the code
          Capacity     \* messages the connection holds before a send blocks
ASSUME BatchMinAssumption == GarblerBatchMin \in Nat /\ EvaluatorBatchMin \in Nat

VARIABLES
  mode, tape,
  gpc, gkey, gmask, glabels, gcounter,     \* garbler: its wires, as in YaoGates
  gstate, gcomplexity, gbreak,             \* what it does next, its complexity, its last break
  ggates, gmasks,                          \* YaoGarbler::gates and output_masks
  chan,                                    \* the connection, oldest message first
  epc, ekey, eext, elabels, ecounter,      \* evaluator: its wires
  outputs,
  estate, ecomplexity,
  egates, emasks,                          \* YaoEvaluator::gates and output_masks, what is unread
  gates_store, output_masks_store,         \* the ReceivedMsgStores
  hkey, hmask, hctr, hout                  \* history, as in YaoGates

garbling   == <<gpc, gkey, gmask, glabels, gcounter, hkey, hmask, hctr, hout>>
evaluating == <<epc, ekey, eext, elabels, ecounter, outputs>>
garbler    == <<garbling, gstate, gcomplexity, gbreak, ggates, gmasks>>
stores     == <<gates_store, output_masks_store>>
evaluator  == <<evaluating, estate, ecomplexity, egates, emasks, stores>>
vars       == <<mode, tape, garbler, chan, evaluator>>

G == INSTANCE YaoGates WITH gates <- ggates, output_masks <- gmasks
E == INSTANCE YaoGates WITH gates <- egates, output_masks <- emasks

(* A message carries only its data; "of" is for the properties.  The end    *)
(* marker is the long -1, which no message's length can be.                 *)
Message(of, data) == [of |-> of, data |-> data]
EndMarker == Message("end", <<>>)

(* YaoPlayer::YaoPlayer: which loop each player enters.                     *)
Init ==
  /\ mode \in {"store", "continuous", "simulate"}
  /\ G!Init
  /\ E!Init
  /\ gstate = "execute"
  /\ gcomplexity = 0
  /\ gbreak = "TIME_BREAK"
  /\ chan = <<>>
  /\ estate = CASE mode = "store"      -> "peek"
                [] mode = "continuous" -> "receive_gates"
                [] mode = "simulate"   -> "wait"
  /\ ecomplexity = 0
  /\ gates_store = <<>>
  /\ output_masks_store = <<>>

-----------------------------------------------------------------------------
(* Program::execute.  Of these entries only ANDs count as complexity        *)
(* (FREE_XOR), and the limit is looked at after a whole instruction.        *)

Complexity(e, c) == IF e.op = "and" THEN c + 1 ELSE c

TimeBreak(e, c) == e.i = e.n /\ Complexity(e, c) >= Limit

-----------------------------------------------------------------------------
(* The garbler.                                                             *)

(* YaoGarbler::run: what follows a break.  execute starts over from a       *)
(* complexity of 0.                                                         *)
GarblerBreak(b) ==
  /\ gbreak' = b
  /\ gcomplexity' = 0
  /\ gstate' = CASE mode # "simulate" -> "send_gates"
                 [] mode = "simulate" /\ b = "TIME_BREAK" -> "execute"
                 [] OTHER -> "done"

GarblerExecute ==
  /\ gstate = "execute"
  /\ gpc \in DOMAIN tape
  /\ G!Garble(tape[gpc])
  /\ G!Remember
  /\ gpc' = gpc + 1
  /\ IF TimeBreak(tape[gpc], gcomplexity)
     THEN GarblerBreak("TIME_BREAK")
     ELSE /\ gcomplexity' = Complexity(tape[gpc], gcomplexity)
          /\ UNCHANGED <<gstate, gbreak>>
  /\ UNCHANGED <<mode, tape, chan, evaluator>>

GarblerEnd ==
  /\ gstate = "execute"
  /\ gpc \notin DOMAIN tape
  /\ GarblerBreak("DONE_BREAK")
  /\ UNCHANGED <<mode, tape, garbling, ggates, gmasks, chan, evaluator>>

Send(msg) ==
  /\ Len(chan) < Capacity
  /\ chan' = Append(chan, msg)

(* Fault: the masks are sent first.                                         *)
GarblerSendMasksFirst ==
  /\ gstate = "send_gates"
  /\ Send(Message("masks", gmasks))
  /\ gstate' = "send_masks"
  /\ UNCHANGED <<mode, tape, garbling, gcomplexity, gbreak, ggates, gmasks, evaluator>>

(* YaoGarbler::send: the gates, then the masks; run then clears both.       *)
GarblerSendGates ==
  /\ gstate = "send_gates"
  /\ Send(Message("gates", ggates))
  /\ gstate' = "send_masks"
  /\ UNCHANGED <<mode, tape, garbling, gcomplexity, gbreak, ggates, gmasks, evaluator>>

(* Fault: the buffers are not cleared after sending.                        *)
GarblerSendAgain ==
  /\ gstate = "send_masks"
  /\ Send(Message("masks", gmasks))
  /\ gstate' = CASE gbreak = "TIME_BREAK" -> "execute"
                 [] gbreak = "DONE_BREAK" /\ mode = "store" -> "finish"
                 [] OTHER -> "done"
  /\ UNCHANGED <<mode, tape, garbling, gcomplexity, gbreak, ggates, gmasks, evaluator>>

GarblerSendMasks ==
  /\ gstate = "send_masks"
  /\ Send(Message("masks", gmasks))
  /\ ggates' = <<>>
  /\ gmasks' = <<>>
  /\ gstate' = CASE gbreak = "TIME_BREAK" -> "execute"
                 [] gbreak = "DONE_BREAK" /\ mode = "store" -> "finish"
                 [] OTHER -> "done"
  /\ UNCHANGED <<mode, tape, garbling, gcomplexity, gbreak, evaluator>>

(* Fault: no end marker.                                                    *)
GarblerFinishSilently ==
  /\ gstate = "finish"
  /\ gstate' = "done"
  /\ UNCHANGED <<mode, tape, garbling, gcomplexity, gbreak, ggates, gmasks, chan, evaluator>>

(* send_long(1, -1)                                                         *)
GarblerFinish ==
  /\ gstate = "finish"
  /\ Send(EndMarker)
  /\ gstate' = "done"
  /\ UNCHANGED <<mode, tape, garbling, gcomplexity, gbreak, ggates, gmasks, evaluator>>

GarblerNext ==
  \/ GarblerExecute
  \/ GarblerEnd
  \/ GarblerSendGates
  \/ GarblerSendMasks
  \/ GarblerFinish

-----------------------------------------------------------------------------
(* The evaluator.                                                           *)

(* YaoSimulator::run: the buffers move from one player to the other.        *)
EvaluatorHandover ==
  /\ estate = "wait"
  /\ gstate = "done"
  /\ egates' = ggates /\ ggates' = <<>>
  /\ emasks' = gmasks /\ gmasks' = <<>>
  /\ estate' = "execute"
  /\ UNCHANGED <<mode, tape, garbling, gstate, gcomplexity, gbreak, chan,
                 evaluating, ecomplexity, stores>>

(* receive_to_store: peek_long tells the end marker from a message.         *)
EvaluatorPeek ==
  /\ estate = "peek"
  /\ chan # <<>>
  /\ IF Head(chan) = EndMarker
     THEN chan' = Tail(chan) /\ estate' = "pop"
     ELSE chan' = chan /\ estate' = "receive_gates"
  /\ UNCHANGED <<mode, tape, garbler, evaluating, ecomplexity, egates, emasks, stores>>

EvaluatorReceiveGates ==
  /\ estate = "receive_gates"
  /\ chan # <<>>
  /\ egates' = Head(chan).data
  /\ chan' = Tail(chan)
  /\ estate' = "receive_masks"
  /\ UNCHANGED <<mode, tape, garbler, evaluating, ecomplexity, emasks, stores>>

(* ReceivedMsgStore::push.  A message kept in memory is moved out of the    *)
(* buffer, one written to a file is copied; only the first of a store is    *)
(* kept in memory.                                                          *)
LeftBy(store, buffer) == IF store = <<>> THEN <<>> ELSE buffer

(* The end of receive, and in store mode the two pushes.                    *)
EvaluatorReceiveMasks ==
  /\ estate = "receive_masks"
  /\ chan # <<>>
  /\ chan' = Tail(chan)
  /\ \/ /\ mode = "continuous"
        /\ emasks' = Head(chan).data
        /\ estate' = "execute"
        /\ UNCHANGED <<egates, stores>>
     \/ /\ mode = "store"
        /\ gates_store' = Append(gates_store, egates)
        /\ output_masks_store' = Append(output_masks_store, Head(chan).data)
        /\ egates' = LeftBy(gates_store, egates)
        /\ emasks' = LeftBy(output_masks_store, Head(chan).data)
        /\ estate' = "peek"
  /\ UNCHANGED <<mode, tape, garbler, evaluating, ecomplexity>>

(* Fault: the newest message is popped instead of the oldest.               *)
PoppedLast(store, buffer) == IF store = <<>> THEN buffer ELSE Last(store)

(* run_from_store does not look at what pop returns: with an empty store    *)
(* the buffer stays as it is.                                               *)
Popped(store, buffer) == IF store = <<>> THEN buffer ELSE Head(store)
Rest(store) == IF store = <<>> THEN <<>> ELSE Tail(store)

EvaluatorPop ==
  /\ estate = "pop"
  /\ egates' = Popped(gates_store, egates)
  /\ gates_store' = Rest(gates_store)
  /\ emasks' = Popped(output_masks_store, emasks)
  /\ output_masks_store' = Rest(output_masks_store)
  /\ estate' = "execute"
  /\ UNCHANGED <<mode, tape, garbler, chan, evaluating, ecomplexity>>

(* What follows a time break: run loads the next batch, the simulator has   *)
(* everything loaded.                                                       *)
AfterTimeBreak ==
  CASE mode = "store"      -> "pop"
    [] mode = "continuous" -> "receive_gates"
    [] mode = "simulate"   -> "execute"

(* Faults: the limit is passed by one gate, or the complexity of the last   *)
(* batch is carried into the next.                                          *)
EvaluatorBreaksLate ==
  /\ estate = "execute"
  /\ epc \in DOMAIN tape
  /\ E!Eval(tape[epc])
  /\ epc' = epc + 1
  /\ IF TimeBreak(tape[epc], ecomplexity - 1)
     THEN estate' = AfterTimeBreak /\ ecomplexity' = 0
     ELSE estate' = estate /\ ecomplexity' = Complexity(tape[epc], ecomplexity)
  /\ UNCHANGED <<mode, tape, garbler, chan, stores>>

EvaluatorExecute ==
  /\ estate = "execute"
  /\ epc \in DOMAIN tape
  /\ E!Eval(tape[epc])
  /\ epc' = epc + 1
  /\ IF TimeBreak(tape[epc], ecomplexity)
     THEN estate' = AfterTimeBreak /\ ecomplexity' = 0
     ELSE estate' = estate /\ ecomplexity' = Complexity(tape[epc], ecomplexity)
  /\ UNCHANGED <<mode, tape, garbler, chan, stores>>

EvaluatorEnd ==
  /\ estate = "execute"
  /\ epc \notin DOMAIN tape
  /\ estate' = "done"
  /\ UNCHANGED <<mode, tape, garbler, chan, evaluating, ecomplexity, egates, emasks, stores>>

EvaluatorNext ==
  \/ EvaluatorHandover
  \/ EvaluatorPeek
  \/ EvaluatorReceiveGates
  \/ EvaluatorReceiveMasks
  \/ EvaluatorPop
  \/ EvaluatorExecute
  \/ EvaluatorEnd

Next == GarblerNext \/ EvaluatorNext

(* Each player is a running process that never chooses to stop.             *)
Spec == Init /\ [][Next]_vars /\ WF_vars(GarblerNext) /\ WF_vars(EvaluatorNext)

-----------------------------------------------------------------------------
(* The buffers are read without a bounds check: at every AND there is a     *)
(* gate left and at every reveal a mask, or the evaluator would read past    *)
(* the end.                                                                 *)
NoUnderrun ==
  estate = "execute" /\ epc \in DOMAIN tape =>
    /\ tape[epc].op = "and" => egates # <<>>
    /\ tape[epc].op = "reveal" => emasks # <<>>

(* The evaluator takes no message for another: gates, masks and the end     *)
(* marker arrive where it expects them.                                     *)
FramesMatch ==
  chan # <<>> =>
    /\ estate = "peek" => Head(chan).of \in {"gates", "end"}
    /\ estate = "receive_gates" => Head(chan).of = "gates"
    /\ estate = "receive_masks" => Head(chan).of = "masks"

(* When the evaluator is done nothing is left over anywhere, and the        *)
(* garbler had executed the whole tape.                                     *)
NothingLeftOver ==
  estate = "done" =>
    /\ egates = <<>> /\ emasks = <<>>
    /\ gates_store = <<>> /\ chan = <<>>
    /\ gstate = "done" /\ gpc = epc

(* Before its store is complete the evaluator's buffers are only passed on. *)
Executing == mode # "store" \/ estate \in {"execute", "done"}

InFlight(of) ==
  FlattenSeq([k \in DOMAIN chan |-> IF chan[k].of = of THEN chan[k].data ELSE <<>>])

(* What the evaluator still has to read: of the batch it executes, in its   *)
(* stores, just received, in flight, and what the garbler has yet to send.  *)
Held      == IF Executing THEN egates ELSE <<>>
HeldMasks == IF Executing THEN emasks ELSE <<>>
Received  == IF ~ Executing /\ estate = "receive_masks" THEN egates ELSE <<>>
Unsent    == IF gstate = "send_masks" THEN <<>> ELSE ggates

GateStream == Held \o FlattenSeq(gates_store) \o Received \o InFlight("gates") \o Unsent
MaskStream == HeldMasks \o FlattenSeq(output_masks_store) \o InFlight("masks") \o gmasks

(* Batches, messages and stores together are the two streams of YaoGates:   *)
(* no gate or mask is lost, repeated or reordered between the players.      *)
Y == INSTANCE YaoGates WITH gates <- GateStream, output_masks <- MaskStream
ImplementsYaoGates == Y!Spec

(* Both players run to the end of the tape.                                 *)
Termination == <>(gstate = "done" /\ estate = "done")
=============================================================================
