----------------------------- MODULE PrimeField -----------------------------
(***************************************************************************)
(* Integers modulo a prime in an array of limbs, in Montgomery's form       *)
(* (Math/Zp_Data.h, Math/Zp_Data.cpp, Math/modp.h, Math/modp.cpp,           *)
(* Math/gfp.cpp, Math/bigint.cpp).                                          *)
(*                                                                          *)
(* A limb is a number below Limb; an array is a function from 0.  The       *)
(* functions of the library of large numbers are external and stand as      *)
(* what they compute.                                                       *)
(***************************************************************************)
EXTENDS Integers, Sequences, FiniteSetsExt, SequencesExt, Bitwise

CONSTANT Limb              \* 2 ^ 64 in the code

(* The number in n limbs from one on, and an array with a number put there. *)
LimbValue(a, at, n) == MapThenSumSet(LAMBDA i : a[at + i] * Limb ^ i, 0 .. n - 1)
Put(a, at, n, v) ==
  [i \in DOMAIN a |-> IF i \in at .. at + n - 1 THEN (v \div Limb ^ (i - at)) % Limb ELSE a[i]]
Limbs(v, n) == Put([i \in 0 .. n - 1 |-> 0], 0, n, v)

PowerMod(x, e, p) == FoldLeft(LAMBDA r, i : (r * x) % p, 1 % p, [i \in 1 .. e |-> i])
InverseMod(x, m) == CHOOSE y \in 0 .. m - 1 : (x * y) % m = 1
Legendre(x, p) == IF x % p = 0 THEN 0 ELSE IF \E y \in 1 .. p - 1 : (y * y) % p = x % p THEN 1 ELSE -1

-----------------------------------------------------------------------------
(* Zp_Data.                                                                 *)

SizeInLimbs(p) == CHOOSE t \in 1 .. 4 : p < Limb ^ t /\ (t > 1 => p >= Limb ^ (t - 1))

(* init: the constants of a prime.                                          *)
ZpData(p, montgomery) ==
  LET t == SizeInLimbs(p)
      r == (Limb ^ t) % p
      pp == Limb ^ t - InverseMod(p, Limb ^ t)
  IN  [p |-> p, t |-> t, montgomery |-> montgomery, prA |-> Limbs(p, t + 1),
       pi |-> pp % Limb, R |-> Limbs(r, t), R2 |-> Limbs((r * r) % p, t),
       R3 |-> Limbs((((r * r) % p) * r) % p, t)]

(* Mont_Mult: for each limb of x a multiple of y and one of the prime are    *)
(* added that make the lowest limb left zero.                                *)
Carry(a, at, n, sum) == [Put(a, at, n, sum) EXCEPT ![at + n] = (@ + sum \div Limb ^ n) % Limb]
AddMul(a, at, n, v, m) ==      \* mpn_addmul_1; the carry is added to what is there
  Carry(a, at, n, LimbValue(a, at, n) + v * m)
SubtractOnCarry(z, upper) ==
  Limbs(IF upper >= Limb ^ z.t THEN upper - z.p ELSE upper, z.t)
SubtractPrime(z, upper) ==     \* at the end, if it is not below the prime
  Limbs(IF upper >= z.p THEN upper - z.p ELSE upper, z.t)
MontMult(z, x, y) ==
  LET step(ans, i) ==
        AddMul(AddMul(ans, i, z.t, LimbValue(y, 0, z.t), x[i]), i, z.t + 1, z.p,
               ((ans[i] + x[i] * y[0]) * z.pi) % Limb)
  IN  SubtractPrime(z, LimbValue(FoldLeft(step, [i \in 0 .. 2 * z.t |-> 0], [i \in 1 .. z.t |-> i - 1]),
                                 z.t, z.t + 1))

(* Add, with the carry of the two limbs, and Sub, with the borrow.          *)
AddWords(z, sum) ==
  LET ans == sum % Limb ^ z.t IN
  Limbs(IF sum # ans \/ ans >= z.p THEN (ans - z.p) % Limb ^ z.t ELSE ans, z.t)
Add(z, x, y) == AddWords(z, LimbValue(x, 0, z.t) + LimbValue(y, 0, z.t))
SubWords(z, d) ==
  LET ans == d % Limb ^ z.t IN Limbs(IF d < 0 THEN (ans + z.p) % Limb ^ z.t ELSE ans, z.t)
Sub(z, x, y) == SubWords(z, LimbValue(x, 0, z.t) - LimbValue(y, 0, z.t))

-----------------------------------------------------------------------------
(* modp.                                                                    *)

Mul(z, x, y) ==
  IF z.montgomery THEN MontMult(z, x, y)
  ELSE Limbs((LimbValue(x, 0, z.t) * LimbValue(y, 0, z.t)) % z.p, z.t)
Sqr(z, x) == Mul(z, x, x)

ToBigint(z, x) ==
  LimbValue(IF z.montgomery THEN MontMult(z, x, Limbs(1, z.t)) ELSE x, 0, z.t)
Represented(z, a) == IF z.montgomery THEN MontMult(z, a, z.R2) ELSE a
ConvertDestroy(z, v) == Represented(z, Limbs(v % z.p, z.t))

(* to_modp of an int: with a single limb the prime and a negative number     *)
(* are added in a limb.                                                      *)
ToModp(z, v) ==
  Represented(z, IF z.t = 1 THEN Limbs(((IF v < 0 THEN z.p + v ELSE v) % Limb) % z.p, 1)
                 ELSE Limbs(IF v < 0 THEN (z.p + v) % z.p ELSE v, z.t))

AssignOne(z) == IF z.montgomery THEN z.R ELSE Limbs(1, z.t)
IsZero(z, x) == \A i \in 0 .. z.t - 1 : x[i] = 0
Negate(z, x) == IF IsZero(z, x) THEN x ELSE Limbs(z.p - LimbValue(x, 0, z.t), z.t)

(* Inv: the cofactor of the greatest common divisor may be negative.         *)
Cofactor(g, p) == IF g > p \div 2 THEN g - p ELSE g
Inv(z, x) ==
  LET cofactor == Cofactor(InverseMod(LimbValue(x, 0, z.t), z.p), z.p)
      a == Limbs(IF cofactor < 0 THEN z.p - (-cofactor) ELSE cofactor, z.t)
  IN  IF z.montgomery THEN MontMult(z, a, z.R3) ELSE a

RECURSIVE PowerFrom(_, _, _, _)
PowerFrom(z, ans, T, e) ==
  IF e = 0 THEN ans
  ELSE PowerFrom(z, IF e % 2 = 1 THEN Mul(z, ans, T) ELSE ans, Sqr(z, T), e \div 2)
Power(z, x, e) == IF e = 1 THEN x ELSE PowerFrom(z, AssignOne(z), x, e)

(* output for people and input of it.                                       *)
Centred(z, te) == IF te < z.p \div 2 THEN te ELSE te - z.p
Printed(z, x) == Centred(z, ToBigint(z, x))

-----------------------------------------------------------------------------
(* gfp.                                                                     *)

AND(z, x, y) == ConvertDestroy(z, ToBigint(z, x) & ToBigint(z, y))
OR(z, x, y) == ConvertDestroy(z, ToBigint(z, x) | ToBigint(z, y))
XOR(z, x, y) == ConvertDestroy(z, ToBigint(z, x) ^^ ToBigint(z, y))
(* The limbs are shifted: what leaves the highest is lost.                  *)
SHL(z, x, n) ==
  IF n = 0 THEN x ELSE ConvertDestroy(z, (ToBigint(z, x) * 2 ^ n) % Limb ^ z.t)
SHR(z, x, n) == IF n = 0 THEN x ELSE ConvertDestroy(z, ToBigint(z, x) \div 2 ^ n)

(* sqrRootMod: the algorithm of Shanks for a prime of one above a multiple  *)
(* of four; n is not a square.                                              *)
RECURSIVE Order(_, _)          \* the smallest m > 0 with b ^ (2 ^ m) = 1
Order(b, p) == IF (b * b) % p = 1 THEN 1 ELSE 1 + Order((b * b) % p, p)
RECURSIVE Shanks(_, _, _, _, _)
Shanks(x, b, y, r, p) ==
  IF b = 1 THEN x
  ELSE LET m == Order(b, p)
           t == FoldLeft(LAMBDA s, i : (s * s) % p, y, [i \in 1 .. r - m - 1 |-> i])
           y1 == (t * t) % p
       IN  Shanks((x * t) % p, (b * y1) % p, y1, m, p)
SqrRootMod(a, p, n) ==
  IF a = 0 THEN 0
  ELSE IF (p \div 2) % 2 = 1 THEN PowerMod(a, (p + 1) \div 4, p)
  ELSE LET e == Max({i \in 1 .. 10 : (p - 1) % 2 ^ i = 0})
           q == (p - 1) \div 2 ^ e
           x == PowerMod(a, (q - 1) \div 2, p)
       IN  Shanks((a * x) % p, (a * x * x) % p, PowerMod(n, q, p), e, p)
(* sqrRoot: the odd one of the two.                                         *)
OddRoot(z, ti) == ConvertDestroy(z, IF ti % 2 = 0 THEN z.p - ti ELSE ti)
SqrRoot(z, x, n) == OddRoot(z, SqrRootMod(ToBigint(z, x), z.p, n))

-----------------------------------------------------------------------------
(* Instructions on clear numbers: how the compiler emulates them            *)
(* (Compiler/instructions.py, Compiler/instructions_base.py) and how the    *)
(* machine executes them (Processor/Instruction.cpp).                       *)
(* Of two registers, and of a register and a number.                         *)
OfRegisters == {"ADDC", "SUBC", "MULC", "DIVC", "MODC", "ANDC", "ORC", "XORC", "SHLC", "SHRC"}
OfNumber == {"LDI", "ADDCI", "SUBCI", "SUBCFI", "MULCI", "DIVCI", "MODCI", "ANDCI", "ORCI", "XORCI",
             "SHLCI", "SHRCI", "NOTC"}
(* Without emulation.                                                        *)
ByMachine == {"INV2M", "LEGENDREC", "CONVINT", "CONVMODP"}

(* The class methods execute: numbers modulo P of unbounded integers, y      *)
(* the second register or the immediate value.                               *)
Emulate(op, x, y, p) ==
  LET op1 == CASE op \in {"LDI"} -> y
               [] op \in {"ADDC", "ADDCI"} -> x + y
               [] op \in {"SUBC", "SUBCI"} -> x - y
               [] op = "SUBCFI" -> y - x
               [] op \in {"MULC", "MULCI"} -> x * y
               [] op \in {"DIVC", "DIVCI"} -> x * PowerMod(y, p - 2, p)
               [] op \in {"MODC", "MODCI"} -> x % y
               [] op \in {"ANDC", "ANDCI"} -> x & y
               [] op \in {"ORC", "ORCI"} -> x | y
               [] op \in {"XORC", "XORCI"} -> x ^^ y
               [] op \in {"SHLC", "SHLCI"} -> x * 2 ^ y
               [] op \in {"SHRC", "SHRCI"} -> x \div 2 ^ y
               [] op = "NOTC" -> 2 ^ y - 1 - x
  IN  op1 % p

(* to_signed_bigint: the sign, and as many bits of the amount.               *)
Signed(z, v, len) == IF v < (z.p - 1) \div 2 THEN v % 2 ^ len ELSE -((z.p - v) % 2 ^ len)
ToSignedBigint(z, x, len) == Signed(z, ToBigint(z, x), len)

(* What the processor shifts a limb by at most, 63 in the code.              *)
MaxShift == CHOOSE i \in 1 .. 7 : 2 ^ (i + 1) = Limb

(* execute: of represented numbers, n the number in the instruction; an      *)
(* exception ends the program.                                               *)
Throws == <<>>
ExecuteWith(z, op, x, y, n, ansp, aa, aa2) ==
  CASE op = "LDI" -> ansp
    [] op = "ADDC" -> Add(z, x, y)
    [] op = "SUBC" -> Sub(z, x, y)
    [] op = "MULC" -> Mul(z, x, y)
    [] op = "DIVC" -> IF IsZero(z, y) THEN Throws ELSE Mul(z, Inv(z, y), x)
    [] op = "MODC" -> ConvertDestroy(z, aa % aa2)
    [] op = "ADDCI" -> Add(z, ansp, x)
    [] op = "SUBCI" -> Sub(z, x, ansp)
    [] op = "SUBCFI" -> Sub(z, ansp, x)
    [] op = "MULCI" -> Mul(z, ansp, x)
    [] op = "DIVCI" -> IF n = 0 THEN Throws ELSE Mul(z, Inv(z, ansp), x)
    [] op = "MODCI" -> ConvertDestroy(z, aa % n)
    [] op = "ANDC" -> AND(z, x, y)
    [] op = "ORC" -> OR(z, x, y)
    [] op = "XORC" -> XOR(z, x, y)
    [] op = "ANDCI" -> ConvertDestroy(z, aa & n)
    [] op = "ORCI" -> ConvertDestroy(z, aa | n)
    [] op = "XORCI" -> ConvertDestroy(z, aa ^^ n)
    [] op = "NOTC" -> ConvertDestroy(z, 2 ^ n - 1 - aa)
    [] op = "SHLC" -> IF aa2 > MaxShift THEN Throws ELSE SHL(z, x, aa2)
    [] op = "SHRC" -> IF aa2 > MaxShift THEN Throws ELSE SHR(z, x, aa2)
    [] op = "SHLCI" -> SHL(z, x, n)
    [] op = "SHRCI" -> SHR(z, x, n)
    [] op = "INV2M" -> Inv(z, ConvertDestroy(z, 2 ^ n))
    [] op = "LEGENDREC" -> ConvertDestroy(z, Legendre(aa, z.p))
    [] op = "CONVINT" -> ansp
ExecuteClear(z, op, x, y, n) ==
  ExecuteWith(z, op, x, y, n, ConvertDestroy(z, n), ToBigint(z, x), ToBigint(z, y))
=============================================================================
