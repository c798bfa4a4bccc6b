--------------------------- MODULE SecretIntegers ---------------------------
(***************************************************************************)
(* The protocols on secret integers (Compiler/comparison.py and             *)
(* floatingpoint.py): comparison, truncation, bit decomposition, the ones   *)
(* with a secret shift, and normalization, in GF(P) with masks that hide    *)
(* Kappa bits more than the number has.                                     *)
(*                                                                         *)
(* An operator is the set of what a protocol may return, over all random    *)
(* numbers it draws; negative numbers are the upper half of the field.      *)
(* Sharing is left out: an opening returns the number.                      *)
(***************************************************************************)
EXTENDS Networks

CONSTANTS P, Kappa,
          MaxBits,           \* comparisons are tabulated up to this length
          Masks              \* PreMulC: the invertible numbers drawn

Elem(n) == n % P
Number(bits) == FoldRight(LAMBDA b, n : b + 2 * n, bits, 0)

(* divc, inv2m.                                                             *)
Inverse1 == [x \in 1 .. P - 1 |-> CHOOSE y \in 1 .. P - 1 : (x * y) % P = 1]
Divided(n, d) == Elem(n * Inverse1[Elem(d)])

(* What follows of each outcome.                                            *)
Then(S, Op(_)) == UNION {Op(x) : x \in S}

(* One outcome each of so many protocols.                                   *)
Each(Op(_), n) ==
  FoldLeftDomain(LAMBDA acc, i : {Append(s, x) : s \in acc, x \in Op(i)}, {<<>>}, [i \in 1 .. n |-> i])

(* PRandM: a mask of the bits above m, and one of the m bits below.         *)
PRandM(k, m) == [dprime : 0 .. 2 ^ (k + Kappa - m) - 1, prime : 0 .. 2 ^ m - 1]
Mask(r, m) == 2 ^ m * r.dprime + r.prime

-----------------------------------------------------------------------------
(* Operators on lists.                                                      *)

OrOp(a, b) == Elem(a + b - a * b)
MulOp(a, b) == Elem(a * b)

(* KOpL and KORL: by halves.                                                *)
RECURSIVE KOpL(_, _)
KOpL(Op(_, _), a) ==
  IF Len(a) = 1 THEN a[1]
  ELSE LET h == Len(a) \div 2
       IN  Op(KOpL(Op, SubSeq(a, 1, h)), KOpL(Op, SubSeq(a, h + 1, Len(a))))

(* PreMulC_with_inverses and PreMulC_end: all prefix products in one round; *)
(* what is opened is each item times a random number over the one before.   *)
(* Without numbers inverted in advance the inverses are opened under another *)
(* mask, which leaves the result as it is.                                  *)
PreMulC(a) ==
  LET k == Len(a)
      products(r) ==
        LET m == [i \in 1 .. k |->
                    Elem(a[i] * (IF i = 1 THEN r[1] ELSE Divided(r[i], r[i - 1])))]
            c == FoldLeft(LAMBDA s, x : Append(s, IF s = <<>> THEN x ELSE MulOp(Last(s), x)), <<>>, m)
        IN  [i \in 1 .. k |-> IF i = 1 THEN a[1] ELSE Divided(c[i], r[i])]
  IN  {products(r) : r \in [1 .. k -> Masks]}

-----------------------------------------------------------------------------
(* Remainders and comparison.                                               *)

(* Mod2: the lowest bit of what is opened, corrected by the mask's.         *)
Mod2(a, k, signed) ==
  IF k <= 1 THEN {Elem(a)}
  ELSE LET offset == IF signed THEN 2 ^ (k - 1) ELSE 0
           from(r) == LET c == Elem(a + offset + Mask(r, 1)) IN
                      Elem(r.prime + (c % 2) - 2 * r.prime * (c % 2))
       IN  {from(r) : r \in PRandM(k, 1)}

(* BitLTC1: constant rounds.  The products of 1 + XOR from the top down     *)
(* are powers of two, which differ for the last time where the numbers      *)
(* differ for the first.                                                    *)
BitLTC1(a, b, k) ==
  LET d == [i \in 1 .. k |-> 1 + Bit(a, i - 1) + Bit(b, i - 1) - 2 * Bit(a, i - 1) * Bit(b, i - 1)]
      sum(p) == MapThenSumSet(
        LAMBDA i : (p[i] - (IF i = k THEN 1 ELSE p[i + 1])) * (1 - Bit(a, i - 1)), 1 .. k)
  IN  Then(PreMulC(Reverse(d)), LAMBDA q : Mod2(sum(Reverse(q)), k, FALSE))

(* carry: of pairs of what propagates and what generates.  Where the        *)
(* propagation is not needed it is not computed.                            *)
NotComputed == -1
Carry(low, high) ==
  <<IF low[1] = NotComputed THEN NotComputed ELSE MulOp(high[1], low[1]),
    Elem(high[2] + high[1] * low[2])>>

(* CarryOutAux: pairs are combined from the lowest, and an odd one at the   *)
(* top waits for the next round.                                            *)
RECURSIVE CarryOutAux(_)
CarryOutAux(a) ==
  LET k == Len(a)
      pair(i) == IF 2 * i > k THEN a[k] ELSE Carry(a[2 * i - 1], a[2 * i])
  IN  IF k = 1 THEN a[1][2] ELSE CarryOutAux([i \in 1 .. (k + 1) \div 2 |-> pair(i)])

(* BitLTL: logarithmic rounds, the carry of a - b.                          *)
BitLTL(a, b, k) ==
  LET propagate(i) == Bit(a, i - 1) + (1 - Bit(b, i - 1)) - 2 * Bit(a, i - 1) * (1 - Bit(b, i - 1))
      generate(i) == Bit(a, i - 1) * (1 - Bit(b, i - 1))
      d == [i \in 1 .. k |->
              IF i = 1 THEN <<NotComputed, generate(1) + propagate(1)>>
              ELSE <<propagate(i), generate(i)>>]
  IN  {1 - CarryOutAux(d)}

BitLTTable == [const \in BOOLEAN, k \in 1 .. MaxBits |->
  [a, b \in 0 .. 2 ^ k - 1 |-> IF const THEN BitLTC1(a, b, k) ELSE BitLTL(a, b, k)]]
BitLT(const, a, b, k) == BitLTTable[const, k][a, b]


(* Mod2m: the low bits of what is opened, less the mask's, plus 2^m if that *)
(* is negative.                                                             *)
Mod2m(const, a, k, m, signed) ==
  IF m >= k THEN {Elem(a)}
  ELSE LET offset == IF signed THEN 2 ^ (k - 1) ELSE 0
           from(r) ==
             LET c == Elem(a + offset + Mask(r, m))
             IN  {Elem((c % 2 ^ m) - r.prime + 2 ^ m * u) : u \in BitLT(const, c % 2 ^ m, r.prime, m)}
       IN  UNION {from(r) : r \in PRandM(k, m)}

Trunc(const, a, k, m, signed) ==
  IF m = 0 THEN {Elem(a)}
  ELSE {Divided(a - x, 2 ^ m) :
          x \in IF m = 1 THEN Mod2(a, k, signed) ELSE Mod2m(const, a, k, m, signed)}

LTZ(const, a, k) == {Elem(-x) : x \in Trunc(const, a, k, k - 1, TRUE)}

(* TruncRoundNearest: the highest of the m bits that are cut off decides.   *)
TruncRoundNearest(const, a, k, m) ==
  LET from(r) ==
        LET c == Elem(2 ^ (k - 1) + a + Mask(r, m))
            c1 == c % 2 ^ (m - 1)
            top == Bit(r.prime, m - 1)
            bit == Bit(c, m - 1)
            value(u) ==
              LET xor == bit + u - 2 * bit * u
                  borrow == bit * u + u - 2 * bit * u + top - xor * top
                  d == Divided(a - (c % 2 ^ m) + r.prime - 2 ^ m * borrow, 2 ^ m)
              IN  Elem(d + xor + top - 2 * xor * top)
        IN  {value(u) : u \in BitLT(const, c1, r.prime % 2 ^ (m - 1), m - 1)}
  IN  IF m = 1 THEN {Divided(a + x, 2) : x \in Mod2(a, k, FALSE)}
      ELSE UNION {from(r) : r \in PRandM(k, m)}

(* TruncPr: rounded up or down.                                             *)
TruncPr(a, k, m) ==
  {Divided(a - (Elem(2 ^ (k - 1) + a + Mask(r, m)) % 2 ^ m) + r.prime, 2 ^ m) : r \in PRandM(k, m)}

-----------------------------------------------------------------------------
(* Bits.                                                                    *)

(* PreORC: prefix products of one more than the bits are even from the      *)
(* first one on.                                                            *)
PreORC(bits) ==
  LET k == Len(bits) IN
  IF k = 1 THEN {bits}
  ELSE Then(PreMulC([i \in 1 .. k |-> bits[i] + 1]),
            LAMBDA b : {[i \in 1 .. k |-> 1 - p[i]] : p \in Each(LAMBDA i : Mod2(b[i], k, FALSE), k)})
PreOR(const, bits) == IF const THEN PreORC(bits) ELSE {PreOpL(OrOp, bits)}
KOR(const, bits) == IF const THEN {Last(p) : p \in PreORC(bits)} ELSE {KOpL(OrOp, bits)}
KMul(const, a) == IF const THEN {Last(p) : p \in PreMulC(a)} ELSE {KOpL(MulOp, a)}

(* EQZ.  A negative number needs a mask that is not less than its amount:   *)
(* with another one, less than one in 2^Kappa, the sum is negative.         *)
EQZ(const, a, k) ==
  LET differ(r) == LET c == Elem(a + Mask(r, k)) IN
        [i \in 1 .. k |-> Bit(c, i - 1) + Bit(r.prime, i - 1) - 2 * Bit(c, i - 1) * Bit(r.prime, i - 1)]
  IN  {1 - x : x \in UNION {KOR(const, differ(r)) : r \in {q \in PRandM(k, k) : a + Mask(q, k) >= 0}}}

(* BitAdd, with one bit more, and BitDec.                                   *)
BitAdd(a, b) ==
  LET k == Len(a)
      d == [i \in 1 .. k |->
              <<IF i = 1 THEN NotComputed ELSE a[i] + b[i] - 2 * a[i] * b[i], a[i] * b[i]>>]
      c == PreOpL(Carry, d)
  IN  [i \in 1 .. k + 1 |->
         CASE i = 1 -> Elem(a[1] + b[1] - 2 * c[1][2])
           [] i = k + 1 -> c[k][2]
           [] OTHER -> Elem(a[i] + b[i] + c[i - 1][2] - 2 * c[i][2])]

BitDec(a, k, m) ==
  {SubSeq(BitAdd(BitsOf(Elem(2 ^ (k + Kappa) + 2 ^ k + a - Mask(r, m)), m), BitsOf(r.prime, m)), 1, m) :
     r \in PRandM(k, m)}

-----------------------------------------------------------------------------
(* Secret shifts.                                                           *)

Pow2(const, a, l) ==
  LET m == Log2(l)
      factors(t) == [i \in 1 .. m |-> Elem(t[i] * 2 ^ (2 ^ (i - 1)) + 1 - t[i])]
  IN  Then(BitDec(a, m, m), LAMBDA t : KMul(const, factors(t)))

(* B2U: as many ones as the number says, and its power of two.              *)
B2U(const, a, l) ==
  LET xor(c, r) == [i \in 1 .. l |-> Bit(c, i - 1) + Bit(r, i - 1) - 2 * Bit(c, i - 1) * Bit(r, i - 1)]
      from(pow, r) == {<<[i \in 1 .. l |-> 1 - y[i]], pow>> :
                         y \in PreOR(const, xor(Elem(pow + Mask(r, l)), r.prime))}
  IN  Then(Pow2(const, a, l), LAMBDA pow : UNION {from(pow, r) : r \in PRandM(l, l)})

(* Trunc by a secret m: the remainder and 2^m, or the quotient.  The masks  *)
(* below and above bit m are made of the same random bits.                  *)
SecretTrunc(const, a, l, m, modulo) ==
  LET shares(x, r) == [low |-> MapThenSumSet(LAMBDA i : 2 ^ i * Bit(r.prime, i) * x[i + 1], 0 .. l - 1),
                       all |-> Mask(r, l)]
      cut(c, x) == Elem(MapThenSumSet(LAMBDA i : (c % 2 ^ i) * (x[i] - x[i + 1]), 1 .. l - 1))
      result(x, pow, low, c, d) ==
        IF modulo THEN <<Elem(c - low + pow * d), pow>>
        ELSE <<Elem(Divided(a - c + low, pow) - d)>>
      from(x, pow, r) ==
        LET s == shares(x, r)
            c == cut(Elem(a + s.all), x)
        IN  {result(x, pow, s.low, c, d) : d \in LTZ(const, c - s.low, l)}
  IN  IF l = 1
      THEN {IF modulo THEN <<Elem(a * m), 1 + m>> ELSE <<Elem(a * (1 - m))>>}
      ELSE UNION {UNION {from(b[1], b[2], r) : r \in PRandM(l, l)} : b \in B2U(const, m, l)}

(* Norm (Compiler/library.py): the number shifted so that its highest bit   *)
(* is the k-th, and the factor with its sign.                               *)
Norm(const, b, k) ==
  LET unary(s) == [i \in 1 .. k |-> IF i = k THEN s[k] ELSE s[i] - s[i + 1]]
      factor(z) == MapThenSumSet(LAMBDA i : 2 ^ (k - i) * z[i], 1 .. k)
      suffixes(bits) == {Reverse(p) : p \in PreOR(const, Reverse(bits))}
      from(sign) ==
        {LET v == factor(unary(s)) IN <<Elem(sign * b * v), Elem(sign * v)>> :
           s \in Then(BitDec(sign * b, k, k), suffixes)}
  IN  Then(LTZ(const, b, k), LAMBDA negative : from(1 - 2 * negative))
=============================================================================
