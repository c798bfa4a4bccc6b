-------------------------- MODULE OnlineProcessor --------------------------
(***************************************************************************)
(* The players run a compiled block on shares (Processor/Instruction.cpp,   *)
(* Processor/Input.cpp, PrivateOutput.cpp, POpen_Start and POpen_Stop of    *)
(* Processor.cpp, Math/Share).  Every player runs the same tape at its own  *)
(* speed; what one sends to another travels in order, and nothing but this  *)
(* order says what a message is for: inputs and openings of both fields     *)
(* share the channel.  One thread, one block; openings are direct, every    *)
(* player sends its share to the others (MacCheck has the other ways).      *)
(***************************************************************************)
EXTENDS TapeMerger

CONSTANTS Sources,     \* the programs, with the options to compile them with
          Seeds,       \* to choose the shares of the offline data by
          Givens       \* what a player's inputs may start from

ASSUME SourcesAssumption ==
  \A s \in Sources : s.opt \in Options /\ \A i \in DOMAIN s.code : s.code[i].f \in Field
ASSUME GivensAssumption == Givens \subseteq Zq

VARIABLES
  source, given, seed,   \* the program, its inputs and the offline data
  result,                \* what a trusted machine computes (no part of the code)
  tape,                  \* the block as compiled
  cpu,                   \* every player's processor, memory and files
  chan                   \* chan[<<p, q>>]: what p has sent to q

vars == <<source, given, seed, result, tape, cpu, chan>>

-----------------------------------------------------------------------------
(* Shares: player p's part of a value and of the value times the key.       *)
KeyShare(f, p) == IF f = "p" THEN p + 1 ELSE 2 * p + 1
Key(f) == Total([i \in 1 .. N |-> KeyShare(f, i - 1)])
Share(a, m) == [a |-> a, m |-> m]

AddShares(x, y) == Share(Plus(x.a, y.a), Plus(x.m, y.m))
SubShares(x, y) == Share(Minus(x.a, y.a), Minus(x.m, y.m))
Scaled(x, c) == Share(Times(x.a, c), Times(x.m, c))

(* A public value: part of the first player's share, and of all MACs.       *)
Public(c, f, p) == Share(IF p = 0 THEN c ELSE 0, Times(KeyShare(f, p), c))
AdjustMac(x, t, f, p) == Share(x.a, Plus(x.m, Times(KeyShare(f, p), t)))

(* The offline data: player p's shares of the k-th item of a stream.        *)
Stream == (TupleOps \X Field) \cup ({"mask"} \X Player \X Field)
Offline(s, k, p) ==
  LET f == s[Len(s)]
      vals == OfflineValue(s[1], f, IF s[1] = "mask" THEN k + s[2] ELSE k)
      a(j, q) == (seed + 2 * k + 3 * j + q) % Q
      m(j, q) == (2 * seed + k + j * q + 1) % Q
      others(g(_, _), j) == Total([q \in 1 .. N - 1 |-> g(j, q)])
  IN [j \in DOMAIN vals |->
        IF p > 0 THEN Share(a(j, p), m(j, p))
                 ELSE Share(Minus(vals[j], others(a, j)), Minus(Times(Key(f), vals[j]), others(m, j)))]
MaskValue(q, f, k) == OfflineValue("mask", f, k + q)[1]

-----------------------------------------------------------------------------
InitialCpu(code) ==
  [pc |-> 1,
   reg |-> [r \in RegsOf(code) |-> IF Clear(r) THEN 0 ELSE Share(0, 0)],
   mem |-> [c \in Cells |-> IF c.kind = "c" THEN 0 ELSE Share(0, 0)],
   read |-> [s \in Source |-> 0],        \* inputs of the player read so far
   used |-> [s \in Stream |-> 0],        \* offline data used so far
   shares |-> [q \in Player |-> [f \in Field |-> <<>>]],   \* Input::shares
   po |-> [f \in Field |-> <<>>],        \* values being opened
   masks |-> [f \in Field |-> <<>>],     \* PrivateOutput::masks
   macs |-> [f \in Field |-> <<>>],      \* of what has been opened,
   vals |-> [f \in Field |-> <<>>],      \*   to be checked at some time
   pub |-> <<>>, priv |-> <<>>]          \* the output files

Init == /\ source \in Sources
        /\ tape = Compiled(source.code, source.opt)
        /\ given \in [Player -> Givens]
        /\ seed \in Seeds
        /\ result = PlainRun(source.code, given)
        /\ cpu = [p \in Player |-> InitialCpu(tape)]
        /\ chan = [c \in Player \X Player |-> <<>>]

Others(p) == Player \ {p}
Running(p) == cpu[p].pc <= Len(tape)
Current(p) == tape[cpu[p].pc]

(* The end of an instruction: the new state of the processor.               *)
Done(p, c) == /\ cpu' = [cpu EXCEPT ![p] = [c EXCEPT !.pc = @ + 1]]
              /\ UNCHANGED <<source, given, seed, result, tape>>
Set(c, outs, vals) == [c EXCEPT !.reg = SetAll(@, outs, vals)]

SendAll(p, msg) == chan' = [c \in DOMAIN chan |-> IF c[1] = p /\ c[2] # p THEN Append(chan[c], msg)
                                                                         ELSE chan[c]]
(* The next message from q has the n values the receiver unpacks; to unpack *)
(* more than there is ends the player.                                      *)
Has(p, q, n) == chan[<<q, p>>] # <<>> /\ Len(Head(chan[<<q, p>>])) >= n
TakeFrom(p, S) == chan' = [c \in DOMAIN chan |-> IF c[2] = p /\ c[1] \in S THEN Tail(chan[c])
                                                                          ELSE chan[c]]
-----------------------------------------------------------------------------
(* Arithmetic on clear registers, and on shares without communication.      *)
ShareAlu(ins, v, p) ==
  LET secret(i) == i \in DOMAIN ins.in /\ ~ Clear(ins.in[i])
      public(c) == Public(c, ins.f, p)
  IN CASE ins.op = "ld" -> public(v[2])
       [] ins.op = "mov" -> v[1]
       [] ins.op = "mul" -> Scaled(v[1], v[2])
       [] ins.op = "add" -> AddShares(v[1], IF secret(2) THEN v[2] ELSE public(v[2]))
       [] ins.op = "sub" -> SubShares(IF secret(1) THEN v[1] ELSE public(v[1]),
                                      IF secret(2) THEN v[2] ELSE public(v[2]))
       [] ins.op = "subfi" -> SubShares(public(v[2]), v[1])

Compute(p, ins) ==
  LET v == Operand(ins, cpu[p].reg)
  IN /\ ins.op \in AluOps
     /\ ins.op = "div" => v[2] # 0
     /\ Done(p, Set(cpu[p], ins.out, <<IF Clear(ins.out[1]) THEN Alu(ins.op, v[1], v[2])
                                                            ELSE ShareAlu(ins, v, p)>>))
     /\ UNCHANGED chan

Load(p, ins) == /\ ins.op = "ldm"
                /\ Done(p, Set(cpu[p], ins.out, <<cpu[p].mem[CellOf(ins, ins.out[1])]>>))
                /\ UNCHANGED chan

Store(p, ins) == /\ ins.op = "stm"
                 /\ Done(p, [cpu[p] EXCEPT !.mem[CellOf(ins, ins.in[1])] = cpu[p].reg[ins.in[1]]])
                 /\ UNCHANGED chan

GetTuple(p, ins) ==
  LET s == <<ins.op, ins.f>>
  IN /\ ins.op \in TupleOps
     /\ Done(p, [Set(cpu[p], ins.out, Offline(s, cpu[p].used[s], p)) EXCEPT !.used[s] = @ + 1])
     /\ UNCHANGED chan

-----------------------------------------------------------------------------
(* Inputs.  All players take the next mask of the player whose input it is; *)
(* that player alone knows the mask, and sends the difference to the input. *)
Masks(p, ins, n) ==
  LET s == <<"mask", ins.p, ins.f>> IN [i \in 1 .. n |-> Offline(s, cpu[p].used[s] + i - 1, p)[1]]
Differences(p, ins, from, n) ==
  [i \in 1 .. n |-> Minus(InputValue(given, p, from, cpu[p].read[from] + i),
                          MaskValue(p, ins.f, cpu[p].used[<<"mask", p, ins.f>>] + i - 1))]
(* Fault: the owner leaves its share of the MAC alone.                      *)
OwnInputMacKept(x, t, f, p) == Share(Plus(x.a, t), x.m)
OwnInput(x, t, f, p) == AdjustMac(Share(Plus(x.a, t), x.m), t, f, p)

MasksUsed(c, ins, n) == [c EXCEPT !.used[<<"mask", ins.p, ins.f>>] = @ + n]

StartInput(p, ins) ==
  LET masks == Masks(p, ins, ins.n)
      t == Differences(p, ins, ins.f, ins.n)
      c == MasksUsed(cpu[p], ins, ins.n)
  IN /\ ins.op = "startinput"
     /\ \/ /\ p = ins.p
           /\ Done(p, [c EXCEPT !.shares[p][ins.f] = [i \in DOMAIN t |-> OwnInput(masks[i], t[i], ins.f, p)],
                                !.read[ins.f] = @ + ins.n])
           /\ SendAll(p, t)
        \/ /\ p # ins.p
           /\ Done(p, [c EXCEPT !.shares[ins.p][ins.f] = masks])
           /\ UNCHANGED chan

StopInput(p, ins) ==
  LET s == cpu[p].shares[ins.p][ins.f]
      t == Head(chan[<<ins.p, p>>])
  IN /\ ins.op = "stopinput"
     /\ \/ /\ p = ins.p
           /\ Done(p, Set(cpu[p], ins.out, s))
           /\ UNCHANGED chan
        \/ /\ p # ins.p /\ Has(p, ins.p, Len(ins.out))
           /\ Done(p, Set(cpu[p], ins.out, [i \in DOMAIN ins.out |-> AdjustMac(s[i], t[i], ins.f, p)]))
           /\ TakeFrom(p, {ins.p})

InputNow(p, ins) ==
  LET mask == Masks(p, ins, 1)[1]
      t == Differences(p, ins, "cin", 1)
      c == MasksUsed(cpu[p], ins, 1)
  IN /\ ins.op = "input"
     /\ \/ /\ p = ins.p
           /\ Done(p, [Set(c, ins.out, <<OwnInput(mask, t[1], ins.f, p)>>) EXCEPT !.read["cin"] = @ + 1])
           /\ SendAll(p, t)
        \/ /\ p # ins.p /\ Has(p, ins.p, 1)
           /\ Done(p, Set(c, ins.out, <<AdjustMac(mask, Head(chan[<<ins.p, p>>])[1], ins.f, p)>>))
           /\ TakeFrom(p, {ins.p})

-----------------------------------------------------------------------------
(* Openings: the vectors PO of a field hold one opening at a time; MACs are *)
(* put aside at its start and values at its end.                            *)
StartOpen(p, ins) ==
  LET s == [i \in DOMAIN ins.in |-> cpu[p].reg[ins.in[i]]]
      own == [i \in DOMAIN s |-> s[i].a]
  IN /\ ins.op = "startopen"
     /\ Done(p, [cpu[p] EXCEPT !.po[ins.f] = own,
                               !.macs[ins.f] = @ \o [i \in DOMAIN s |-> s[i].m]])
     /\ SendAll(p, own)

StopOpen(p, ins) ==
  LET own == cpu[p].po[ins.f]
      part(q, i) == IF q = p THEN own[i] ELSE Head(chan[<<q, p>>])[i]
      sum == [i \in DOMAIN ins.out |-> Total([k \in 1 .. N |-> part(k - 1, i)])]
  IN /\ ins.op = "stopopen"
     /\ \A q \in Others(p) : Has(p, q, Len(ins.out))
     /\ Done(p, [Set(cpu[p], ins.out, sum) EXCEPT !.vals[ins.f] = @ \o sum])
     /\ TakeFrom(p, Others(p))

-----------------------------------------------------------------------------
(* Outputs.  A private output is opened under a mask of the player it is    *)
(* for, who keeps the masks in a queue.  The target gets the mask before    *)
(* the source is added to it.                                               *)
StartPrivateOutput(p, ins) ==
  LET c == Set(cpu[p], ins.out, Masks(p, ins, 1))
      mask == MaskValue(p, ins.f, cpu[p].used[<<"mask", p, ins.f>>])
  IN /\ ins.op = "startpriv"
     /\ Done(p, [MasksUsed(Set(c, ins.out, <<AddShares(c.reg[ins.out[1]], c.reg[ins.in[1]])>>), ins, 1)
                   EXCEPT !.masks[ins.f] = IF p = ins.p THEN Append(@, mask) ELSE @])
     /\ UNCHANGED chan

StopPrivateOutput(p, ins) ==
  LET c == cpu[p]
  IN /\ ins.op = "stoppriv"
     /\ Done(p, IF p # ins.p THEN c
                ELSE [c EXCEPT !.priv = Append(@, Minus(c.reg[ins.in[1]], Head(c.masks[ins.f]))),
                               !.masks[ins.f] = Tail(@)])
     /\ UNCHANGED chan

RawOutput(p, ins) == /\ ins.op = "rawout"
                     /\ Done(p, [cpu[p] EXCEPT !.pub = Append(@, cpu[p].reg[ins.in[1]])])
                     /\ UNCHANGED chan

-----------------------------------------------------------------------------
Execute(p, ins) ==
  \/ Compute(p, ins) \/ Load(p, ins) \/ Store(p, ins) \/ GetTuple(p, ins)
  \/ StartInput(p, ins) \/ StopInput(p, ins) \/ InputNow(p, ins)
  \/ StartOpen(p, ins) \/ StopOpen(p, ins)
  \/ StartPrivateOutput(p, ins) \/ StopPrivateOutput(p, ins) \/ RawOutput(p, ins)

Ended == /\ \A p \in Player : ~ Running(p)
         /\ UNCHANGED vars

Next == \/ \E p \in Player : Running(p) /\ Execute(p, Current(p))
        \/ Ended

Spec == Init /\ [][Next]_vars

-----------------------------------------------------------------------------
(* Every value opened passes the MAC check when it comes: at the same       *)
(* position of their vectors the players have shares of one MAC, the key    *)
(* times the value that each of them has opened (MAC_Check::Check), through *)
(* all arithmetic on shares, inputs and reordering by the compiler.         *)
MacsHold ==
  \A f \in Field, q \in Player :
     \A k \in DOMAIN cpu[q].vals[f] :
        (\A p \in Player : k <= Len(cpu[p].macs[f])) =>
           Total([i \in 1 .. N |-> cpu[i - 1].macs[f][k]]) = Times(Key(f), cpu[q].vals[f][k])

(* After an input from the terminal the players share the number its owner  *)
(* has entered, and its MAC: what the others have received is the owner's   *)
(* difference to the mask (asm_input: "Receive input from player p and put  *)
(* in register s_i").                                                       *)
InputsShared ==
  \A k \in DOMAIN tape :
     (tape[k].op = "input" /\ \A p \in Player : cpu[p].pc = k + 1) =>
        LET shares == [i \in 1 .. N |-> cpu[i - 1].reg[tape[k].out[1]]]
            x == InputValue(given, tape[k].p, "cin", cpu[tape[k].p].read["cin"])
        IN /\ Total([i \in 1 .. N |-> shares[i].a]) = x
           /\ Total([i \in 1 .. N |-> shares[i].m]) = Times(Key(tape[k].f), x)

(* At the end memory holds what the program as written leaves there, clear  *)
(* cells at every player and secret cells in the sum of the shares: stores  *)
(* and loads of a block may be reordered, not so that it matters            *)
(* (Merger.dependency_graph).                                               *)
Cell(c) == IF c.kind = "c" THEN cpu[0].mem[c] ELSE Total([i \in 1 .. N |-> cpu[i - 1].mem[c].a])
MemoryAsWritten ==
  (\A p \in Player : ~ Running(p)) =>
     \A c \in Cells : /\ Cell(c) = result.mem[c]
                      /\ c.kind = "c" => \A p \in Player : cpu[p].mem[c] = Cell(c)

(* The players' output files are filled as a trusted machine that runs the  *)
(* source program fills them: reordered and merged instructions, shares,    *)
(* masks and the speed of the players make no difference.                   *)
Trusted == INSTANCE TrustedMachine
             WITH pub <- [p \in Player |-> cpu[p].pub], priv <- [p \in Player |-> cpu[p].priv]
ImplementsTrusted == Trusted!Spec
=============================================================================
