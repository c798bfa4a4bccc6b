----------------------------- MODULE BinaryField -----------------------------
(***************************************************************************)
(* GF(2^n) in 64-bit words (Math/gf2n.h, Math/gf2n.cpp) and GF(2^128) in    *)
(* two lanes of 64 bits (Math/gf2nlong.h, Math/gf2nlong.cpp).               *)
(*                                                                          *)
(* A word is the set of the positions of its ones.                          *)
(***************************************************************************)
EXTENDS Integers, FiniteSetsExt

Xor(x, y) == (x \ y) \cup (y \ x)
Left(x, k, width) == {i + k : i \in x} \cap 0 .. width - 1
Right(x, k) == {i - k : i \in {j \in x : j >= k}}
Low(x, width) == x \cap 0 .. width - 1
(* a and x shifted by each of some numbers: an odd number of ones is a one.   *)
XorShifts(a, x, shifts, width) ==
  Xor(a, {i \in 0 .. width - 1 : Cardinality({s \in shifts : i - s \in x}) % 2 = 1})

(* A product without carries, as of _mm_clmulepi64_si128.                   *)
Clmul(x, y) == XorShifts({}, y, x, 128)

(* u >= v as numbers.                                                       *)
AtLeast(u, v) == LET d == Xor(u, v) IN d = {} \/ Max(d) \in u

-----------------------------------------------------------------------------
(* Fields of up to 63 bits.                                                 *)

Field(n, terms) == [n |-> n, terms |-> terms]
Fields == {Field(4, {1}), Field(8, {4, 3, 1}), Field(28, {1}), Field(40, {20, 15, 10})}
Modulus(f) == f.terms \cup {0, f.n}

(* init_tables: the product of two bytes.                                   *)
Table(x, y) == XorShifts({}, y, x, 64)
Byte(x, i) == Low(Right(x, 8 * i), 8)
Cross(x, y) == Xor(Table(Byte(x, 0), Byte(y, 1)), Table(Byte(x, 1), Byte(y, 0)))

(* The two forms of mul16.                                                  *)
Mul16Halves(x, y) ==
  LET te == Cross(x, y) IN
  [c0 |-> Xor(Table(Byte(x, 0), Byte(y, 0)), Left(Low(te, 8), 8, 64)),
   c1 |-> Xor(Table(Byte(x, 1), Byte(y, 1)), Right(te, 8))]
Mul16(x, y) ==
  Xor(Left(Xor(Left(Table(Byte(x, 1), Byte(y, 1)), 8, 64), Cross(x, y)), 8, 64),
      Table(Byte(x, 0), Byte(y, 0)))
Sqr16(x) == Xor(Left(Table(Byte(x, 1), Byte(x, 1)), 16, 64), Table(Byte(x, 0), Byte(x, 0)))

Half(x, i) == Low(Right(x, 16 * i), 16)
AddCross(low, upp, m, k) ==
  Xor(Xor(low, Left(Xor(m.c0, k.c0), 16, 64)), Left(Xor(upp, Xor(m.c1, k.c1)), 32, 64))
Mul32(x, y) ==
  AddCross(Mul16(Half(x, 0), Half(y, 0)), Mul16(Half(x, 1), Half(y, 1)),
           Mul16Halves(Half(x, 0), Half(y, 1)), Mul16Halves(Half(x, 1), Half(y, 0)))
Sqr32(x) == Xor(Sqr16(Half(x, 0)), Left(Sqr16(Half(x, 1)), 32, 64))

(* reduce_trinomial and reduce_pentanomial: first the upper word, then what *)
(* is left above the degree.                                                *)
RECURSIVE Fold(_, _)
Fold(f, a) ==
  LET hi == Right(a, f.n) IN
  IF hi = {} THEN a
  ELSE Fold(f, XorShifts(Low(a, f.n), hi, f.terms \cup {0}, 64))
Reduce(f, c) == Fold(f, XorShifts(c.lo, c.hi, {64 - f.n + s : s \in f.terms \cup {0}}, 64))

(* Without the processor's instruction by three products of halves.         *)
Combine(c, d, e) ==
  LET t == Xor(Xor(c, e), d) IN [lo |-> Xor(c, Left(t, 32, 64)), hi |-> Xor(d, Right(t, 32))]
Words(c) == [lo |-> Low(c, 64), hi |-> Right(c, 64)]
Product(useC, x, y) ==
  IF useC
  THEN Combine(Mul32(Low(x, 32), Low(y, 32)), Mul32(Right(x, 32), Right(y, 32)),
               Mul32(Xor(Low(x, 32), Right(x, 32)), Xor(Low(y, 32), Right(y, 32))))
  ELSE Words(Clmul(x, y))
Mul(f, useC, x, y) == Reduce(f, Product(useC, x, y))
Square(f, x) == Reduce(f, [lo |-> Sqr32(Low(x, 32)), hi |-> Sqr32(Right(x, 32))])

(* invert: u and v halved and subtracted, B and D changed along modulo the  *)
(* polynomial.                                                              *)
Part(u, b) == [u |-> u, b |-> b]
RECURSIVE Halve(_, _)
Halve(part, mod) ==
  IF part.u = {} \/ 0 \in part.u THEN part
  ELSE Halve(Part(Right(part.u, 1), Right(IF 0 \in part.b THEN Xor(part.b, mod) ELSE part.b, 1)), mod)
Subtract(U, V) == Part(Xor(U.u, V.u), Xor(U.b, V.b))
RECURSIVE Euclid(_, _, _), EuclidStep(_, _, _)
Euclid(U, V, mod) ==
  IF U.u = {} THEN V.b ELSE EuclidStep(Halve(U, mod), Halve(V, mod), mod)
EuclidStep(U, V, mod) ==
  IF AtLeast(U.u, V.u) THEN Euclid(Subtract(U, V), V, mod) ELSE Euclid(U, Subtract(V, U), mod)
InverseModulo(x, mod) == Euclid(Part(mod, {}), Part(x, {0}), mod)
Invert(f, x) == IF x = {0} THEN x ELSE InverseModulo(x, Modulus(f))

(* power, with a negative exponent of the inverse.                          *)
RECURSIVE PowerFrom(_, _, _, _, _)
PowerFrom(f, useC, a, T, i) ==
  IF i = 0 THEN a
  ELSE PowerFrom(f, useC, IF i % 2 = 1 THEN Mul(f, useC, a, T) ELSE a, Square(f, T), i \div 2)
Power(f, useC, x, i) ==
  PowerFrom(f, useC, {0}, IF i < 0 THEN Invert(f, x) ELSE x, IF i < 0 THEN -i ELSE i)

-----------------------------------------------------------------------------
(* GF(2^128).                                                               *)

LongField == Field(128, {7, 2, 1})

Lane(x, l) == Low(Right(x, 64 * l), 64)
Lanes(lower, upper) == lower \cup Left(upper, 64, 128)

(* The shifts of int128: of both lanes, and what passes from one to the     *)
(* other.                                                                   *)
LeftLong(x, k) ==
  LET passed == IF k < 64 THEN Right(Lane(x, 0), 64 - k) ELSE Left(Lane(x, 0), k - 64, 64)
  IN  Lanes(Left(Lane(x, 0), k, 64), Xor(Left(Lane(x, 1), k, 64), passed))
RightLong(x, k) ==
  LET passed == IF k < 64 THEN Left(Lane(x, 1), 64 - k, 64) ELSE Right(Lane(x, 1), k - 64)
  IN  Lanes(Xor(Right(Lane(x, 0), k), passed), Right(Lane(x, 1), k))

(* mul128: four products of lanes.                                          *)
WithMixed(mixed, x, y) ==
  [lo |-> Xor(Clmul(Lane(x, 0), Lane(y, 0)), Left(mixed, 64, 128)),
   hi |-> Xor(Clmul(Lane(x, 1), Lane(y, 1)), Right(mixed, 64))]
ProductLong(x, y) ==
  WithMixed(Xor(Clmul(Lane(x, 0), Lane(y, 1)), Clmul(Lane(x, 1), Lane(y, 0))), x, y)

(* reduce_pentanomial: the upper seven bits of the upper half reach beyond  *)
(* the lower half; they are brought down first.                             *)
Shifts == {0, 7, 2, 1}
BringDown(c, upper, tmp) ==
  FoldSet(LAMBDA s, r : Xor(r, LeftLong(Xor(c.hi \ upper, RightLong(tmp, 7)), s)),
          Xor(c.lo, LeftLong(tmp, 128 - 7)), Shifts)
ReduceLong(c) ==
  LET upper == c.hi \cap 121 .. 127 IN
  BringDown(c, upper, FoldSet(LAMBDA s, r : Xor(r, RightLong(upper, 128 - 7 - s)), {}, Shifts))
MulLong(x, y) == ReduceLong(ProductLong(x, y))

(* With int129, which holds the polynomial.                                 *)
InvertLong(x) ==
  IF x = {0} THEN x ELSE Low(InverseModulo(x, Modulus(LongField)), 128)
=============================================================================
