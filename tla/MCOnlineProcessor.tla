------------------------- MODULE MCOnlineProcessor -------------------------
(***************************************************************************)
(* Few players, small blocks of code as the compiler's types emit them      *)
(* before they are merged, each with options to compile it with.            *)
(***************************************************************************)
EXTENDS OnlineProcessor

C(i) == [kind |-> "c", f |-> "p", i |-> i]
S(i) == [kind |-> "s", f |-> "p", i |-> i]
C2(i) == [kind |-> "c", f |-> "2", i |-> i]
S2(i) == [kind |-> "s", f |-> "2", i |-> i]

Op(op, out, in) == <<Ins(op, (out \o in)[1].f, out, in, 0, 0)>>
OpI(op, out, in, n) == <<Ins(op, (out \o in)[1].f, out, in, n, 0)>>

(* sint: constants, raw inputs, reveal, reveal_to; muls and sqrs. *)
RawInput(s, p) == <<Ins("startinput", s.f, <<>>, <<>>, 1, p), Ins("stopinput", s.f, <<s>>, <<>>, 0, p)>>
TerminalInput(s, p) == <<Ins("input", s.f, <<s>>, <<>>, 0, p)>>
Open(cs, ss) == Op("startopen", <<>>, ss) \o Op("stopopen", cs, <<>>)
RevealTo(p, s, masked, c) ==
  <<Ins("startpriv", s.f, <<masked>>, <<s>>, 0, p)>> \o Open(<<c>>, <<masked>>)
    \o <<Ins("stoppriv", s.f, <<>>, <<c>>, 0, p)>>
Muls(z, x, y, s(_), c(_), k) ==
  Op("triple", <<s(k), s(k + 1), s(k + 2)>>, <<>>)
    \o Op("sub", <<s(k + 3)>>, <<x, s(k)>>) \o Op("sub", <<s(k + 4)>>, <<y, s(k + 1)>>)
    \o Open(<<c(k), c(k + 1)>>, <<s(k + 3), s(k + 4)>>)
    \o Op("mul", <<s(k + 5)>>, <<s(k + 1), c(k)>>) \o Op("mul", <<s(k + 6)>>, <<s(k), c(k + 1)>>)
    \o Op("mul", <<c(k + 2)>>, <<c(k), c(k + 1)>>)
    \o Op("add", <<s(k + 7)>>, <<s(k + 2), s(k + 5)>>) \o Op("add", <<s(k + 8)>>, <<s(k + 7), s(k + 6)>>)
    \o Op("add", <<z>>, <<s(k + 8), c(k + 2)>>)
Sqrs(z, x, s(_), c(_), k) ==
  Op("square", <<s(k), s(k + 1)>>, <<>>) \o Op("sub", <<s(k + 2)>>, <<x, s(k)>>)
    \o Open(<<c(k)>>, <<s(k + 2)>>)
    \o Op("mul", <<s(k + 3)>>, <<s(k), c(k)>>) \o Op("add", <<s(k + 4)>>, <<s(k + 3), s(k + 3)>>)
    \o Op("mul", <<c(k + 1)>>, <<c(k), c(k)>>) \o Op("add", <<s(k + 5)>>, <<s(k + 4), s(k + 1)>>)
    \o Op("add", <<z>>, <<s(k + 5), c(k + 1)>>)

(* The product of two inputs, told to one player and published.             *)
Product == RawInput(S(0), 0) \o RawInput(S(1), 1) \o Muls(S(2), S(0), S(1), S, C, 10)
             \o RevealTo(1, S(2), S(3), C(0)) \o Open(<<C(1)>>, <<S(2)>>) \o Op("rawout", <<>>, <<C(1)>>)

(* Inputs at the terminal; all kinds of operands; two private outputs to    *)
(* one player, of which the first has more to wait for.                     *)
Linear == TerminalInput(S(0), 1) \o OpI("ld", <<S(1)>>, <<>>, 2) \o TerminalInput(S(2), 0)
            \o Op("sub", <<S(3)>>, <<S(0), S(1)>>) \o OpI("subfi", <<S(4)>>, <<S(3)>>, 1)
            \o Op("add", <<S(10)>>, <<S(2), S(4)>>)
            \o Open(<<C(0)>>, <<S(10)>>) \o OpI("add", <<C(1)>>, <<C(0)>>, 1)
            \o Op("sub", <<S(5)>>, <<C(1), S(2)>>) \o OpI("mul", <<S(6)>>, <<S(5)>>, 3)
            \o RevealTo(0, S(6), S(7), C(2))
            \o OpI("ld", <<C(3)>>, <<>>, 2) \o Op("sub", <<S(8)>>, <<S(2), C(3)>>)
            \o RevealTo(0, S(8), S(9), C(4)) \o Op("mov", <<C(5)>>, <<C(0)>>) \o Op("rawout", <<>>, <<C(5)>>)

(* Stores and loads, of clear and secret cells, before and after an         *)
(* opening; a value loaded, and the cell stored again before its use; no    *)
(* cell is stored twice without a load in between.                          *)
Memory == RawInput(S(0), 0) \o Op("stm", <<>>, <<S(0)>>) \o OpI("ld", <<C(0)>>, <<>>, 3)
            \o Op("stm", <<>>, <<C(0)>>) \o Op("ldm", <<S(1)>>, <<>>) \o OpI("add", <<S(2)>>, <<S(1)>>, 1)
            \o Open(<<C(1), C(2)>>, <<S(1), S(2)>>) \o Op("ldm", <<S(3)>>, <<>>)
            \o Op("stm", <<>>, <<S(2)>>) \o Op("ldm", <<S(4)>>, <<>>) \o Op("mul", <<S(5)>>, <<S(3), C(1)>>)
            \o Op("add", <<S(6)>>, <<S(4), S(5)>>) \o Op("stm", <<>>, <<S(6)>>) \o Op("ldm", <<C(3)>>, <<>>)
            \o Op("mul", <<C(4)>>, <<C(2), C(3)>>) \o Op("stm", <<>>, <<C(4)>>)
            \o RevealTo(1, S(6), S(7), C(5)) \o Op("ldm", <<C(6)>>, <<>>) \o Op("rawout", <<>>, <<C(6)>>)

(* Both fields in turn, and three inputs of a player: merged by field, not  *)
(* across.                                                                  *)
TwoFields == RawInput(S(0), 0) \o RawInput(S2(0), 1) \o Open(<<C(0)>>, <<S(0)>>)
               \o RawInput(S(1), 0) \o Open(<<C2(0)>>, <<S2(0)>>) \o RawInput(S(2), 0)
               \o Op("mul", <<S2(1)>>, <<S2(0), C2(0)>>) \o Op("add", <<S(3)>>, <<S(1), S(2)>>)
               \o Open(<<C(1)>>, <<S(3)>>) \o RevealTo(0, S2(1), S2(2), C2(1))
               \o Op("add", <<C(2)>>, <<C(0), C(1)>>) \o Op("rawout", <<>>, <<C(2)>>)

(* Squares, bits, inverses and a quotient: b * b = b, r * 1/r = 1.          *)
Tuples == RawInput(S(0), 1) \o Sqrs(S(1), S(0), S, C, 10)
            \o Op("bit", <<S(2)>>, <<>>) \o Sqrs(S(3), S(2), S, C, 20) \o Op("sub", <<S(4)>>, <<S(3), S(2)>>)
            \o Op("inverse", <<S(5), S(6)>>, <<>>) \o Muls(S(7), S(5), S(6), S, C, 30)
            \o Open(<<C(0), C(1), C(2)>>, <<S(1), S(4), S(7)>>) \o Op("div", <<C(3)>>, <<C(0), C(2)>>)
            \o Op("add", <<C(4)>>, <<C(3), C(1)>>) \o Op("rawout", <<>>, <<C(4)>>)

Plain == [merge |-> TRUE, reorder |-> TRUE, dead |-> FALSE, limit |-> 0]
With(code, opts) == {[code |-> code, opt |-> o] : o \in opts}
MCSources == With(Product, {Plain, [Plain EXCEPT !.merge = FALSE]})
               \cup With(Linear, {Plain, [Plain EXCEPT !.dead = TRUE]})
               \cup With(Memory, {Plain, [Plain EXCEPT !.reorder = FALSE]})
               \cup With(TwoFields, {Plain, [Plain EXCEPT !.limit = 1], [Plain EXCEPT !.reorder = FALSE]})
               \cup With(Tuples, {[Plain EXCEPT !.dead = TRUE]})

(* a = sint.get_input_from(0).reveal(); b = sint.get_input_from(1);         *)
(* (b * a).reveal(): the second input is not needed by the first opening.   *)
LateInput == With(TerminalInput(S(0), 0) \o Open(<<C(0)>>, <<S(0)>>) \o TerminalInput(S(1), 1)
                    \o Op("mul", <<S(2)>>, <<S(1), C(0)>>) \o Open(<<C(1)>>, <<S(2)>>), {Plain})
=============================================================================
