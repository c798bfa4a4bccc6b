----------------------------- MODULE OtTriples -----------------------------
(***************************************************************************)
(* The threads of ot-offline.x (OT/TripleMachine, NPartyTripleGenerator and *)
(* OTMultiplier).  The main thread of a player starts its generators; each  *)
(* generator starts a multiplier per other player, which runs oblivious     *)
(* transfers with its counterpart there.  A generator and its multipliers   *)
(* hand work to each other with one mutex and one condition variable per    *)
(* multiplier and no flag: who is not waiting when it is signalled has      *)
(* missed the signal.  A wait ends by a signal only.                        *)
(*                                                                         *)
(* The bits to multiply are the loop and phase they are drawn for.  A       *)
(* transfer is a message each way, and so is a round of a generator with    *)
(* its counterparts (the common seed, the opening and check of MACs).       *)
(***************************************************************************)
EXTENDS Integers, Sequences, FiniteSets

CONSTANTS Machines,     \* the machines to run: numbers of players and threads, and options
          NLoops        \* --nloops

(* What a multiplier computes in a loop: without MACs the products only,    *)
(* for bits of GF(2^n) the MACs only.                                       *)
Phases == [triples |-> <<"product">>, amplified |-> <<"product">>,
           checked |-> <<"product", "mac">>, bits |-> <<"mac">>]

ASSUME MachinesAssumption ==
  /\ NLoops \in Nat \ {0}
  /\ \A m \in Machines : m.players \in Nat \ {0, 1} /\ m.threads \in Nat \ {0}
                         /\ m.mode \in DOMAIN Phases

VARIABLES
  machine,                       \* one of Machines
  mainpc, main_j,                \* the main threads, and their loop variables
  gpc, gen_i, gen_k, phase,      \* generators: where they are, loop variables, phase
  valueBits, met,                \* their bits; how many rounds they have begun
  mpc, round,                    \* multipliers: where they are, loops and phases begun
  sent, outputs,                  \* what they have sent, c_output and macs
  owner, waiting                 \* mutexes, and who waits on the condition variables

mains       == <<mainpc, main_j>>
generators  == <<gpc, gen_i, gen_k, phase, valueBits, met>>
multipliers == <<mpc, round, sent, outputs>>
locks       == <<owner, waiting>>
otVars        == <<machine, mains, generators, multipliers, locks>>

Players == 0 .. machine.players - 1
Generator == Players \X (1 .. machine.threads)
Multiplier == {m \in Players \X (1 .. machine.threads) \X Players : m[1] # m[3]}
Mult(g, q) == <<g[1], g[2], q>>
GeneratorOf(m) == <<m[1], m[2]>>
Counterpart(m) == <<m[3], m[2], m[1]>>
MainThread(p) == <<p>>
Nobody == <<>>

(* The other players in order: the multipliers of a generator.              *)
NOthers == machine.players - 1
OtherPlayer(g, n) == IF n <= g[1] THEN n - 1 ELSE n
MultOf(g, n) == Mult(g, OtherPlayer(g, n))
Mults(g) == {MultOf(g, n) : n \in 1 .. NOthers}

(* The main thread has locked each generator before it starts it, and that  *)
(* each multiplier.                                                         *)
OtInit ==
  /\ machine \in Machines
  /\ mainpc = [p \in Players |-> "wait"] /\ main_j = [p \in Players |-> 1]
  /\ gpc = [g \in Generator |-> "progress"]
  /\ gen_i = [g \in Generator |-> 1] /\ gen_k = gen_i /\ phase = gen_i
  /\ valueBits = [g \in Generator |-> <<0, 0>>]
  /\ met = [g \in Generator |-> 0]
  /\ mpc = [m \in Multiplier |-> "extend"]
  /\ round = [m \in Multiplier |-> 0]
  /\ sent = [m \in Multiplier |-> <<>>]
  /\ outputs = [m \in Multiplier |-> <<>>]
  /\ owner = [x \in Generator \cup Multiplier |->
                IF x \in Generator THEN MainThread(x[1]) ELSE GeneratorOf(x)]
  /\ waiting = [x \in Generator \cup Multiplier |-> {}]

(* pthread_cond_signal wakes one of those who wait, if any do.              *)
AfterSignal(w, X) ==
  [x \in DOMAIN w |-> IF x \in X /\ w[x] # {} THEN w[x] \ {CHOOSE t \in w[x] : TRUE} ELSE w[x]]

Signal(X) == waiting' = AfterSignal(waiting, X)

(* pthread_cond_wait releases the mutex, and takes it again when woken.     *)
Wait(x, t) ==
  /\ owner[x] = t
  /\ owner' = [owner EXCEPT ![x] = Nobody]
  /\ waiting' = [waiting EXCEPT ![x] = @ \cup {t}]

Wake(x, t) ==
  /\ t \notin waiting[x] /\ owner[x] = Nobody
  /\ owner' = [owner EXCEPT ![x] = t]
  /\ UNCHANGED waiting

(* A thread signals on x and waits on it, all under the mutex.              *)
SignalAndWait(x, t) ==
  /\ owner' = [owner EXCEPT ![x] = Nobody]
  /\ waiting' = [AfterSignal(waiting, {x}) EXCEPT ![x] = @ \cup {t}]

-----------------------------------------------------------------------------
(* The main thread of player p.                                             *)

MainAt(p, here) == mainpc[p] = here
MainTo(p, there) == mainpc' = [mainpc EXCEPT ![p] = there]
Mine(p) == <<p, main_j[p]>>
(* On to the next generator, or back to the first for what comes then.      *)
MainNextOne(p, same, then) ==
  IF main_j[p] = machine.threads THEN MainTo(p, then) /\ main_j' = [main_j EXCEPT ![p] = 1]
  ELSE MainTo(p, same) /\ main_j' = [main_j EXCEPT ![p] = @ + 1]

MainWait(p) ==
  /\ MainAt(p, "wait") /\ Wait(Mine(p), MainThread(p))
  /\ MainTo(p, "waiting") /\ UNCHANGED main_j

MainWoken(p) ==
  /\ MainAt(p, "waiting") /\ Wake(Mine(p), MainThread(p))
  /\ MainNextOne(p, "wait", "start")

MainStart(p) ==
  /\ MainAt(p, "start")
  /\ Signal({Mine(p)})
  /\ owner' = [owner EXCEPT ![Mine(p)] = Nobody]
  /\ MainNextOne(p, "start", "join")

MainJoin(p) ==
  /\ MainAt(p, "join") /\ gpc[Mine(p)] = "done"
  /\ MainNextOne(p, "join", "done")
  /\ UNCHANGED locks

MainStep(p) ==
  /\ MainWait(p) \/ MainWoken(p) \/ MainStart(p) \/ MainJoin(p)
  /\ UNCHANGED <<generators, multipliers>>

-----------------------------------------------------------------------------
(* Generator g.                                                            *)

GenAt(g, here) == gpc[g] = here
To(g, there) == gpc' = [gpc EXCEPT ![g] = there]
NextOne(g, same, then) ==
  IF gen_i[g] = NOthers THEN To(g, then) /\ gen_i' = [gen_i EXCEPT ![g] = 1]
  ELSE To(g, same) /\ gen_i' = [gen_i EXCEPT ![g] = @ + 1]

(* Waiting for all multipliers, one after the other; the others stay        *)
(* locked meanwhile.                                                        *)
Await(g) ==
  \/ /\ GenAt(g, "progress") /\ Wait(MultOf(g, gen_i[g]), g)
     /\ To(g, "progressing") /\ UNCHANGED gen_i
  \/ /\ GenAt(g, "progressing") /\ Wake(MultOf(g, gen_i[g]), g)
     /\ NextOne(g, "progress", "report")
  \/ /\ GenAt(g, "await") /\ Wait(MultOf(g, gen_i[g]), g)
     /\ To(g, "awaiting") /\ UNCHANGED gen_i
  \/ /\ GenAt(g, "awaiting") /\ Wake(MultOf(g, gen_i[g]), g)
     /\ NextOne(g, "await", "add")

(* start_progress: tell the main thread and wait for it, then start.        *)
Report(g) ==
  /\ GenAt(g, "report") /\ owner[g] = Nobody
  /\ SignalAndWait(g, g)
  /\ To(g, "reporting")
  /\ UNCHANGED gen_i

Start(g) ==
  /\ GenAt(g, "reporting")
  /\ g \notin waiting[g] /\ owner[g] = Nobody
  /\ owner' = [owner EXCEPT ![g] = g]
  /\ Signal(Mults(g))
  /\ To(g, "fill")
  /\ UNCHANGED gen_i

(* The bits of a phase, random ones or those of the amplified triples.      *)
Fill(g) ==
  /\ GenAt(g, "fill")
  /\ valueBits' = [valueBits EXCEPT ![g] = <<gen_k[g], phase[g]>>]
  /\ IF phase[g] = 2 \/ machine.mode = "bits" THEN Signal(Mults(g)) ELSE UNCHANGED waiting
  /\ To(g, "await")
  /\ UNCHANGED <<gen_i, gen_k, phase, met, owner>>

(* Adding up what the multipliers have put out, then the common seed, or    *)
(* the opening and check of MACs, with the same generator of all others.    *)
AddUp(g) ==
  /\ GenAt(g, "add")
  /\ To(g, IF machine.mode = "triples" THEN "end" ELSE "meet")
  /\ UNCHANGED <<gen_i, gen_k, phase, valueBits, met, locks>>

Meet(g) ==
  /\ GenAt(g, "meet")
  /\ met' = [met EXCEPT ![g] = @ + 1]
  /\ To(g, "meeting")
  /\ UNCHANGED <<gen_i, gen_k, phase, valueBits, locks>>

Met(g) ==
  /\ GenAt(g, "meeting") /\ \A p \in Players : met[<<p, g[2]>>] >= met[g]
  /\ IF phase[g] < Len(Phases[machine.mode])
     THEN To(g, "fill") /\ phase' = [phase EXCEPT ![g] = @ + 1]
     ELSE To(g, "end") /\ UNCHANGED phase
  /\ UNCHANGED <<gen_i, gen_k, valueBits, met, locks>>

(* Fault: the multipliers are not signalled at the end of a loop.           *)
EndLoopSilently(g) ==
  /\ GenAt(g, "end")
  /\ gen_k' = [gen_k EXCEPT ![g] = @ + 1]
  /\ phase' = [phase EXCEPT ![g] = 1]
  /\ To(g, IF gen_k[g] = NLoops THEN "unlock" ELSE "fill")
  /\ UNCHANGED <<gen_i, valueBits, met, locks>>

EndLoop(g) ==
  /\ GenAt(g, "end")
  /\ Signal(Mults(g))
  /\ gen_k' = [gen_k EXCEPT ![g] = @ + 1]
  /\ phase' = [phase EXCEPT ![g] = 1]
  /\ To(g, IF gen_k[g] = NLoops THEN "unlock" ELSE "fill")
  /\ UNCHANGED <<gen_i, valueBits, met, owner>>

Unlock(g) ==
  /\ GenAt(g, "unlock")
  /\ owner' = [owner EXCEPT ![MultOf(g, gen_i[g])] = Nobody]
  /\ To(g, "join")
  /\ UNCHANGED <<gen_i, waiting>>

Join(g) ==
  /\ GenAt(g, "join") /\ mpc[MultOf(g, gen_i[g])] = "done"
  /\ NextOne(g, "unlock", "done")
  /\ UNCHANGED locks

GeneratorStep(g) ==
  /\ \/ /\ Await(g) \/ Report(g) \/ Start(g) \/ Unlock(g) \/ Join(g)
        /\ UNCHANGED <<gen_k, phase, valueBits, met>>
     \/ Fill(g) \/ AddUp(g) \/ Meet(g) \/ Met(g) \/ EndLoop(g)
  /\ UNCHANGED <<mains, multipliers>>

-----------------------------------------------------------------------------
(* Multiplier m.                                                           *)

MultAt(m, here) == mpc[m] = here
MultTo(m, there) == mpc' = [mpc EXCEPT ![m] = there]
Bits(m) == valueBits[GeneratorOf(m)]
NRounds == NLoops * Len(Phases[machine.mode])

(* A transfer is sent, and ends when the counterpart's has come.            *)
SendTransfer(m, what) == sent' = [sent EXCEPT ![m] = Append(@, what)]
TransferHere(m) == Len(sent[Counterpart(m)]) >= Len(sent[m])
Theirs(m) == sent[Counterpart(m)][Len(sent[m])]

(* The extension that needs no lock, for the MAC key.                       *)
Extend(m) ==
  \/ /\ MultAt(m, "extend") /\ SendTransfer(m, <<0, 0>>) /\ MultTo(m, "extending")
     /\ UNCHANGED <<round, outputs, locks>>
  \/ /\ MultAt(m, "extending") /\ TransferHere(m) /\ MultTo(m, "lock")
     /\ UNCHANGED <<round, sent, outputs, locks>>

LockAndWait(m) ==
  /\ MultAt(m, "lock") /\ owner[m] = Nobody
  /\ SignalAndWait(m, m)
  /\ MultTo(m, "waiting")
  /\ UNCHANGED <<round, sent, outputs>>

MultWoken(m) ==
  /\ MultAt(m, "waiting") /\ Wake(m, m)
  /\ MultTo(m, IF round[m] = NRounds THEN "unlock" ELSE "multiply")
  /\ UNCHANGED <<round, sent, outputs>>

Multiply(m) ==
  /\ MultAt(m, "multiply")
  /\ SendTransfer(m, Bits(m))
  /\ round' = [round EXCEPT ![m] = @ + 1]
  /\ MultTo(m, "multiplying")
  /\ UNCHANGED <<outputs, locks>>

(* Fault: after the MACs the next loop is begun at once.                    *)
MultipliedNoWait(m) ==
  /\ MultAt(m, "multiplying") /\ TransferHere(m)
  /\ outputs' = [outputs EXCEPT ![m] = <<round[m], sent[m][Len(sent[m])], Bits(m), Theirs(m)>>]
  /\ IF round[m] % 2 = 0 /\ round[m] < NRounds
     THEN Signal({m}) /\ MultTo(m, "multiply") /\ UNCHANGED owner
     ELSE SignalAndWait(m, m) /\ MultTo(m, "waiting")
  /\ UNCHANGED <<round, sent>>

(* The bits are read once more; c_output or macs are set, as the round says.*)
Multiplied(m) ==
  /\ MultAt(m, "multiplying") /\ TransferHere(m)
  /\ outputs' = [outputs EXCEPT ![m] = <<round[m], sent[m][Len(sent[m])], Bits(m), Theirs(m)>>]
  /\ SignalAndWait(m, m)
  /\ MultTo(m, "waiting")
  /\ UNCHANGED <<round, sent>>

Exit(m) ==
  /\ MultAt(m, "unlock")
  /\ owner' = [owner EXCEPT ![m] = Nobody]
  /\ MultTo(m, "done")
  /\ UNCHANGED <<round, sent, outputs, waiting>>

MultiplierStep(m) ==
  /\ Extend(m) \/ LockAndWait(m) \/ MultWoken(m) \/ Multiply(m) \/ Multiplied(m) \/ Exit(m)
  /\ UNCHANGED <<mains, generators>>

-----------------------------------------------------------------------------
AllDone == \A p \in Players : mainpc[p] = "done"

Step ==
  \/ \E p \in Players : MainStep(p)
  \/ \E g \in Generator : GeneratorStep(g)
  \/ \E m \in Multiplier : MultiplierStep(m)

OtNext ==
  \/ Step /\ UNCHANGED machine
  \/ AllDone /\ UNCHANGED otVars

(* Some thread that can run does: no thread runs forever, so all do.        *)
OtSpec == OtInit /\ [][OtNext]_otVars /\ WF_otVars(OtNext)

-----------------------------------------------------------------------------
(* What a generator adds up has been computed by all of its multipliers in  *)
(* this loop and phase, from its own bits of this phase, which have not     *)
(* changed meanwhile, and the counterpart's; and a multiplier that reads    *)
(* the bits or writes its output is the only one to run in its generator,   *)
(* although nothing but the order of waits and signals says so              *)
(* (OTMultiplier.cpp:75-101, NPartyTripleGenerator.cpp:352-370).            *)
SumsMatch ==
  \A g \in Generator :
    /\ GenAt(g, "add") => \A m \in Mults(g) :
         LET now == <<gen_k[g], phase[g]>>
         IN outputs[m] = <<(gen_k[g] - 1) * Len(Phases[machine.mode]) + phase[g], now, now, now>>
    /\ \A m \in Mults(g) :
         mpc[m] \in {"multiply", "multiplying"} =>
           /\ GenAt(g, "awaiting") /\ MultOf(g, gen_i[g]) = m
           /\ \A l \in Mults(g) \ {m} : mpc[l] \notin {"multiply", "multiplying"}

(* No signal is missed by who needs it, and the order in which the          *)
(* generators of all players serve their multipliers leaves no cycle of     *)
(* waits: every thread ends and is joined.                                  *)
EventuallyDone == <>AllDone
=============================================================================
