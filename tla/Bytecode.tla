------------------------------ MODULE Bytecode ------------------------------
(***************************************************************************)
(* Straight-line code of the online machine, as far as the order of its     *)
(* instructions and the values they compute matter, and what a program      *)
(* means: one trusted machine that runs it on the inputs of all players     *)
(* (PlainRun).  The two fields, GF(p) and GF(2^n), are "p" and "2"; both    *)
(* compute modulo Q here, but have registers, MAC keys, offline data and    *)
(* openings of their own.                                                   *)
(***************************************************************************)
EXTENDS Integers, Sequences, SequencesExt

CONSTANTS Q,          \* the modulus
          N,          \* number of players, from 0
          NCells      \* memory cells, from 0, of every kind

ASSUME SizesAssumption == Q \in Nat \ {0, 1} /\ N \in Nat \ {0} /\ NCells \in Nat

Player == 0 .. N - 1
Field == {"p", "2"}
Zq == 0 .. Q - 1

(* A register: clear or secret, of a field, with a number.  An instruction  *)
(* has the registers it writes and reads, an immediate n and a player.      *)
Reg == [kind: {"c", "s"}, f: Field, i: Nat]
Clear(r) == r.kind = "c"

Ins(op, f, out, in, n, p) ==
  [op |-> op, f |-> f, out |-> out, in |-> in, n |-> n, p |-> p]

Neg(x) == (Q - x) % Q
Plus(x, y) == (x + y) % Q
Minus(x, y) == (x + Q - y) % Q
Times(x, y) == (x * y) % Q
Invert(x) == CHOOSE y \in Zq : Times(x, y) = 1

(* A left fold, by the length of the prefix: TLC evaluates it in one pass.  *)
Accumulate(op(_, _), base, s) ==
  LET acc[n \in 0 .. Len(s)] == IF n = 0 THEN base ELSE op(acc[n - 1], s[n]) IN acc[Len(s)]

Total(s) == Accumulate(Plus, 0, s)

(* The arithmetic instructions and what they compute of plain values: the   *)
(* second operand is a register or the immediate; subfi subtracts from it.  *)
AluOps == {"ld", "mov", "add", "sub", "mul", "subfi", "div"}
Alu(op, x, y) ==
  CASE op = "ld" -> y
    [] op = "mov" -> x
    [] op = "add" -> Plus(x, y)
    [] op = "sub" -> Minus(x, y)
    [] op = "mul" -> Times(x, y)
    [] op = "subfi" -> Minus(y, x)
    [] op = "div" -> Times(x, Invert(y))

(* Offline data: the k-th item of a kind in a field, as plain values.       *)
TupleOps == {"triple", "square", "bit", "inverse"}
OfflineValue(type, f, k) ==
  LET a == 1 + ((2 * k + (IF f = "p" THEN 0 ELSE 1)) % (Q - 1))
      b == 1 + ((3 * k + 1) % (Q - 1))
  IN CASE type = "triple" -> <<a, b, Times(a, b)>>
       [] type = "square" -> <<a, Times(a, a)>>
       [] type = "bit" -> <<a % 2>>
       [] type = "inverse" -> <<a, Invert(a)>>
       [] type = "mask" -> <<a>>

SetAll(reg, outs, vals) ==
  Accumulate(LAMBDA now, i : [now EXCEPT ![outs[i]] = vals[i]], reg, [i \in DOMAIN outs |-> i])

RegsOf(code) == UNION {ToSet(code[i].out) \cup ToSet(code[i].in) : i \in DOMAIN code}
Cells == [kind: {"c", "s"}, f: Field, i: 0 .. NCells - 1]
CellOf(ins, r) == [kind |-> r.kind, f |-> r.f, i |-> ins.n]

-----------------------------------------------------------------------------
(* The trusted machine: a player's inputs come from its file for a field or *)
(* from the terminal, each in order; values that have been opened or read   *)
(* wait for the instruction that takes them.                                *)
Source == Field \cup {"cin"}
InputValue(given, p, source, k) ==
  (given[p] + k * (1 + p) + (CASE source = "p" -> 0 [] source = "2" -> 1 [] source = "cin" -> 2)) % Q
PlainStart(code) ==
  [reg |-> [r \in RegsOf(code) |-> 0], mem |-> [c \in Cells |-> 0],
   read |-> [p \in Player |-> [s \in Source |-> 0]], used |-> [f \in Field |-> 0],
   inputs |-> [p \in Player |-> [f \in Field |-> <<>>]],
   opened |-> <<>>, owed |-> [p \in Player |-> <<>>],
   pub |-> <<>>, priv |-> [p \in Player |-> <<>>]]

Operand(ins, reg) ==
  <<IF ins.in = <<>> THEN 0 ELSE reg[ins.in[1]],
    IF Len(ins.in) = 2 THEN reg[ins.in[2]] ELSE ins.n>>

PlainStep(st, ins, given) ==
  LET put(outs, vals) == [st EXCEPT !.reg = SetAll(@, outs, vals)]
      next(s, n) == [k \in 1 .. n |-> InputValue(given, ins.p, s, st.read[ins.p][s] + k)]
  IN CASE ins.op \in AluOps ->
            LET v == Operand(ins, st.reg) IN put(ins.out, <<Alu(ins.op, v[1], v[2])>>)
       [] ins.op = "ldm" -> put(ins.out, <<st.mem[CellOf(ins, ins.out[1])]>>)
       [] ins.op = "stm" -> [st EXCEPT !.mem[CellOf(ins, ins.in[1])] = st.reg[ins.in[1]]]
       [] ins.op \in TupleOps ->
            [put(ins.out, OfflineValue(ins.op, ins.f, st.used[ins.f]))
               EXCEPT !.used[ins.f] = @ + 1]
       [] ins.op = "input" ->
            [put(ins.out, next("cin", 1)) EXCEPT !.read[ins.p]["cin"] = @ + 1]
       [] ins.op = "startinput" ->
            [st EXCEPT !.inputs[ins.p][ins.f] = @ \o next(ins.f, ins.n),
                       !.read[ins.p][ins.f] = @ + ins.n]
       [] ins.op = "stopinput" ->
            [put(ins.out, st.inputs[ins.p][ins.f])
               EXCEPT !.inputs[ins.p][ins.f] = SubSeq(@, Len(ins.out) + 1, Len(@))]
       [] ins.op = "startopen" ->
            [st EXCEPT !.opened = @ \o [i \in DOMAIN ins.in |-> st.reg[ins.in[i]]]]
       [] ins.op = "stopopen" ->
            [put(ins.out, st.opened)
               EXCEPT !.opened = SubSeq(@, Len(ins.out) + 1, Len(@))]
       [] ins.op = "startpriv" ->
            [put(ins.out, <<0>>) EXCEPT !.owed[ins.p] = Append(@, st.reg[ins.in[1]])]
       [] ins.op = "stoppriv" ->
            [st EXCEPT !.priv[ins.p] = Append(@, Head(st.owed[ins.p])),
                       !.owed[ins.p] = Tail(@)]
       [] ins.op = "rawout" -> [st EXCEPT !.pub = Append(@, st.reg[ins.in[1]])]

PlainRun(code, given) ==
  Accumulate(LAMBDA st, ins : PlainStep(st, ins, given), PlainStart(code), code)
=============================================================================
