---------------------------- MODULE OtExtension ----------------------------
(***************************************************************************)
(* What the threads of ot-offline.x compute (OT/OTExtensionWithMatrix.cpp,  *)
(* OT/OTMultiplier.cpp, OT/NPartyTripleGenerator.cpp; module OtTriples has  *)
(* their order): oblivious transfers extended from K base transfers, and    *)
(* from them products of numbers of two parties, triples, MACs and bits.    *)
(*                                                                         *)
(* K stands for the 128 of the code.  A row of K bits is a number, a square *)
(* is a function from 0 to rows, a matrix a function from 0 to squares.     *)
(***************************************************************************)
EXTENDS Integers, Sequences, FiniteSetsExt, SequencesExt, Bitwise

Upto(n) == 0 .. n - 1
Bit(x, i) == (x \div 2 ^ i) % 2
XorOver(S, op(_)) == FoldSet(LAMBDA i, s : s ^^ op(i), 0, S)

-----------------------------------------------------------------------------
(* Fields: GF(2^K) by its polynomial, and a prime below 2^K.                *)

FieldOf(K, prime, modulus) == [K |-> K, prime |-> prime, modulus |-> modulus]
GF(f) == [f EXCEPT !.prime = FALSE]     \* bits are added
Order(f) == IF f.prime THEN f.modulus ELSE 2 ^ f.K

Plus(f, x, y) == IF f.prime THEN (x + y) % f.modulus ELSE x ^^ y
Minus(f, x, y) == IF f.prime THEN (x - y) % f.modulus ELSE x ^^ y
ProductOf(K, x, y) ==      \* without carries
  XorOver({i \in Upto(K) : Bit(x, i) = 1}, LAMBDA i : y * 2 ^ i)
ReduceTo(f, x) ==
  FoldLeft(LAMBDA v, i : IF Bit(v, i) = 1 THEN v ^^ (f.modulus * 2 ^ (i - f.K)) ELSE v,
           x, [i \in 1 .. f.K |-> 2 * f.K - i])
TimesIn(f, x, y) ==
  IF f.prime THEN (x * y) % f.modulus ELSE ReduceTo(f, ProductOf(f.K, x, y))
SumIn(f, S, op(_)) == FoldSet(LAMBDA i, s : Plus(f, s, op(i)), 0, S)
InverseIn(f, x) == CHOOSE y \in Upto(Order(f)) : TimesIn(f, x, y) = 1

(* square128::to: the rows are the coefficients of the powers of two.       *)
RowsTo(f, rows) ==
  IF f.prime
  THEN (MapThenSumSet(LAMBDA i : rows[i] * 2 ^ i, Upto(f.K)) % 2 ^ (2 * f.K)) % f.modulus
  ELSE ReduceTo(f, XorOver(Upto(f.K), LAMBDA i : rows[i] * 2 ^ i))

-----------------------------------------------------------------------------
(* Transposition of 128 x 128 bits.  A bit is the set of the bits it is the *)
(* sum of; a row is a function to bits.                                     *)

AddBits(x, y) == (x \ y) \cup (y \ x)
Zeros == [b \in Upto(64) |-> {}]
Masked(w, mask) == [b \in Upto(64) |-> IF b \in mask THEN w[b] ELSE {}]
XorWords(v, w) == [b \in Upto(64) |-> AddBits(v[b], w[b])]
Shl(w, n) == [b \in Upto(64) |-> IF b >= n THEN w[b - n] ELSE {}]
Shr(w, n) == [b \in Upto(64) |-> IF b + n < 64 THEN w[b + n] ELSE {}]
Words(row) == [b \in Upto(128) |-> row[b \div 64][b % 64]]
WordsOf(bits, at) == [k \in {0, 1} |-> [b \in Upto(64) |-> bits[at + 64 * k + b]]]

TransposeMask(width, k) == {b \in Upto(64) : IF width = 64 THEN k = 1 ELSE (b \div width) % 2 = 0}

(* One level of Eklundh's algorithm: rows i1 and i2 exchange a half of each *)
(* of their parts.  A shift of a whole word is left out.                    *)
Swap(rows, width) ==
  LET mask1 == TransposeMask(width, 1)
      mask2 == TransposeMask(width, 0)
      inv1 == Upto(64) \ mask1
      inv2 == Upto(64) \ mask2
      left(w) == IF width < 64 THEN Shl(w, width) ELSE Zeros
      right(w) == IF width < 64 THEN Shr(w, width) ELSE Zeros
  IN  [i \in Upto(128) |->
         IF i % (2 * width) < width
         THEN LET t == rows[i]
                  tt == rows[i + width]
              IN  [k \in {0, 1} |->
                     IF k = 0 THEN XorWords(Masked(t[0], mask1), left(Masked(tt[0], mask1)))
                     ELSE XorWords(XorWords(Masked(t[1], mask2), left(Masked(tt[1], mask2))),
                                   Shr(Masked(tt[0], mask1), 64 - width))]
         ELSE LET t == rows[i - width]
                  tt == rows[i]
              IN  [k \in {0, 1} |->
                     IF k = 0 THEN XorWords(XorWords(Masked(tt[0], inv1), right(Masked(t[0], inv1))),
                                            Shl(Masked(t[1], inv2), 64 - width))
                     ELSE XorWords(Masked(tt[1], inv2), right(Masked(t[1], inv2)))]]

(* A square of n bits in columns of bytes: of the upper bits of a column a   *)
(* row is made, of those below the row before.                              *)
Input(rows, n, x, y) ==
  [i \in Upto(n \div 8) |-> [l \in Upto(n) |-> [k \in Upto(8) |-> rows[n * x + l][n * y + 8 * i + k]]]]
Output(rows, n, columns, x, y) ==
  [r \in DOMAIN rows |->
     [b \in DOMAIN rows[r] |->
        IF r \div n = x /\ b \div n = y THEN columns[(r % n) \div 8][b % n][r % 8]
        ELSE rows[r][b]]]

(* eklundh_transpose128: input holds 128 rows, and their bits from offset    *)
(* on become the rows from offset on; squares of 16 bits at last.           *)
EklundhTranspose128(input, offset) ==
  LET copied == [i \in Upto(128) |-> WordsOf(input[i], offset)]
      swapped == Swap(Swap(Swap(copied, 64), 32), 16)
      rows == [i \in Upto(128) |-> Words(swapped[i])]
  IN  [i \in offset .. offset + 127 |->
         [b \in Upto(128) |-> Input(rows, 16, (i - offset) \div 16, b \div 16)
                                 [((i - offset) % 16) \div 8][b % 16][(i - offset) % 8]]]

(* square128::transpose: two subsquares change places.                      *)
TransposePair(rows, n, j, k) ==
  Output(Output(rows, n, Input(rows, n, k, j), j, k), n, Input(rows, n, j, k), k, j)
TransposeSquare(rows, n) ==
  LET pairs == {p \in Upto(128 \div n) \X Upto(128 \div n) : p[2] < p[1]} IN
  FoldSet(LAMBDA j, s : Output(s, n, Input(s, n, j, j), j, j),
          FoldSet(LAMBDA p, s : TransposePair(s, n, p[1], p[2]), rows, pairs),
          Upto(128 \div n))

-----------------------------------------------------------------------------
(* The extension.  A generator of random numbers is its seed; its n-th      *)
(* number below a bound is one of a fixed sequence.                         *)
Random(seed, n, bound) == (((seed * 37 + n * n * 11 + n * 5 + 3) % 1009) + n * seed) % bound

Transposed(f, square) ==
  [i \in Upto(f.K) |-> MapThenSumSet(LAMBDA j : Bit(square[j], i) * 2 ^ j, Upto(f.K))]

(* expand: n squares of the numbers of generators from position at on.      *)
Expand(f, seeds, at, n, bound) ==
  [s \in Upto(n) |-> [i \in Upto(f.K) |-> Random(seeds[i], at + s, bound)]]

(* The matrices of a receiver, who has both seeds of each base transfer, and *)
(* of the sender, who has one of them.                                      *)
Matrices(f, seeds, known, at, n, bound) ==
  [t0 |-> Expand(f, seeds[0], at, n, bound), t1 |-> Expand(f, seeds[1], at, n, bound),
   q |-> Expand(f, known, at, n, bound)]

(* correlate: the receiver sends the difference of its matrices less its     *)
(* input; where the sender's base input is one, it adds that to its own.    *)
CorrelateAdding(f, m, x, base, constant, repeat) ==      \* the input added
  [s \in DOMAIN m.t0 |->
     [i \in Upto(f.K) |->
        LET u == Plus(f, Minus(f, m.t0[s][i], m.t1[s][i]), x[s \div repeat])
        IN  IF Bit(base[IF constant THEN 0 ELSE s], i) = 1 THEN Plus(f, m.q[s][i], u)
            ELSE m.q[s][i]]]
Correlate(f, m, x, base, constant, repeat) ==
  [s \in DOMAIN m.t0 |->
     [i \in Upto(f.K) |->
        LET u == Minus(f, Minus(f, m.t0[s][i], m.t1[s][i]), x[s \div repeat])
        IN  IF Bit(base[IF constant THEN 0 ELSE s], i) = 1 THEN Plus(f, m.q[s][i], u)
            ELSE m.q[s][i]]]

(* check_correlation, on products that are not reduced.                     *)
CheckCorrelation(f, t, q, x, delta, chi) ==
  LET all == (DOMAIN t) \X Upto(f.K)
      factor(o) == Random(chi, o[1] * f.K + o[2], 2 ^ f.K)
      combined(m) == XorOver(all, LAMBDA o : ProductOf(f.K, m[o[1]][o[2]], factor(o)))
  IN  ProductOf(f.K, XorOver({o \in all : Bit(x[o[1]], o[2]) = 1}, factor), delta) ^^ combined(q)
      = combined(t)

(* A hash of each row that is a number of the field.                        *)
Hash(f, square) == [i \in DOMAIN square |-> Random(5 + square[i], 7, Order(f))]

(* extend: n squares that are kept, and two that are only checked, with     *)
(* random inputs.                                                           *)
Outputs(f, n, receiver, sender, delta, passed) ==
  [passed |-> passed,
   receiver |-> [s \in Upto(n) |-> Hash(f, receiver[s])],
   sender |-> <<[s \in Upto(n) |-> Hash(f, sender[s])],
                [s \in Upto(n) |-> Hash(f, [i \in Upto(f.K) |-> sender[s][i] ^^ delta])]>>]
Checked(f, n, x, receiver, sender, delta, at) ==
  Outputs(f, n, receiver, sender, delta, CheckCorrelation(f, receiver, sender, x, delta, at))
Corrected(f, m, n, x, delta, at) ==
  LET own == Correlate(GF(f), m, x, [s \in {0} |-> delta], TRUE, 1) IN
  Checked(f, n, x, [s \in DOMAIN x |-> Transposed(f, m.t0[s])],
          [s \in DOMAIN x |-> Transposed(f, own[s])], delta, at)
Extend(f, seeds, known, at, n, input, delta) ==
  Corrected(f, Matrices(f, seeds, known, at, n + 2, 2 ^ f.K), n,
            [s \in Upto(n + 2) |-> IF s < n THEN input[s] ELSE Random(seeds[0][0], at + s, 2 ^ f.K)],
            delta, at)

-----------------------------------------------------------------------------
(* What the generators make of the transfers (OT/OTMultiplier.cpp,          *)
(* OT/NPartyTripleGenerator.cpp).  A run is a record of the field, the      *)
(* number of players, how many triples a loop makes, the kind of output,    *)
(* and a seed of all that is random.                                        *)
Kinds == {"triples", "amplified", "macs", "checked", "bits"}
NAmplify(g) == IF g.kind = "triples" THEN 1 ELSE 3

Players(g) == Upto(g.players)
Draw(g, what, p, i, bound) == Random(g.seed + 3 * p, 17 * what + i, bound)
Delta(g, p) == Draw(g, 1, p, 0, 2 ^ g.f.K)       \* base inputs
Key(g, p) == Draw(g, 2, p, 1, Order(g.f))        \* of MACs

(* The base transfers and the extensions from r to s; position at and on    *)
(* of the generators.                                                       *)
BaseSeeds(g, r, s) == [b \in {0, 1} |-> [i \in Upto(g.f.K) |-> g.seed + 64 * (g.players * r + s) + 2 * i + b]]
Extension(g, r, s, at, n, input) ==
  LET seeds == BaseSeeds(g, r, s)
      delta == Delta(g, s)
  IN  Extend(g.f, seeds, [i \in Upto(g.f.K) |-> seeds[Bit(delta, i)][i]], at, n, input, delta)

Links(g) == {l \in Players(g) \X Players(g) : l[1] # l[2]}

(* reduce_squares, added up by the generator of p: what p holds as receiver  *)
(* less what it holds as sender.  m[h, k] are the matrices of h, who puts    *)
(* numbers in, and k, who puts bits in.                                     *)
CrossDifferences(g, m, own) ==
  [p \in Players(g) |->
     [s \in DOMAIN m[<<p, IF p = 0 THEN 1 ELSE 0>>].t0 |->
        SumIn(g.f, Players(g) \ {p},
              LAMBDA o : Minus(g.f, RowsTo(g.f, m[<<p, o>>].t0[s]), RowsTo(g.f, own[<<o, p>>][s])))]]
CrossSums(g, m, x, base, constant, repeat) ==
  CrossDifferences(g, m,
    [l \in Links(g) |-> Correlate(g.f, m[l], x[l[1]], base[l[2]], constant, repeat)])

(* The extension with the key as input, whose outputs are seeds from then on.*)
KeyExtensions(g) == [l \in Links(g) |-> Extension(g, l[2], l[1], 0, 1, [s \in {0} |-> Key(g, l[2])])]
AuthMatrices(g, keys, at, n, bound) ==
  [l \in Links(g) |-> Matrices(g.f, [b \in {0, 1} |-> keys[l].sender[b + 1][0]], keys[l].receiver[0], at, n, bound)]
KeyBits(g) == [p \in Players(g) |-> [s \in {0} |-> Key(g, p)]]

(* Shares with MACs of numbers of all players, as of auth_ot_ext and         *)
(* ShareTriple::from.                                                       *)
WithMacs(g, values, macs) ==
  [p \in Players(g) |->
     [s \in DOMAIN values[p] |->
        [share |-> values[p][s], mac |-> Plus(g.f, TimesIn(g.f, values[p][s], Key(g, p)), macs[p][s])]]]
Authenticated(g, keys, at, values) ==
  WithMacs(g, values,
           CrossSums(g, AuthMatrices(g, keys, at, Cardinality(DOMAIN values[0]), Order(g.f)),
                     values, KeyBits(g), TRUE, 1))

(* The triples before they are amplified.                                   *)
Products(g, a, b, cross) ==
  [p \in Players(g) |->
     [s \in DOMAIN a[p] |-> Plus(g.f, TimesIn(g.f, a[p][s], b[p][s \div NAmplify(g)]), cross[p][s])]]
Multiplied(g, a, b, ext) ==
  LET m == [l \in Links(g) |-> [t0 |-> ext[l].sender[1], t1 |-> ext[l].sender[2], q |-> ext[l].receiver]]
  IN  [passed |-> \A l \in Links(g) : ext[l].passed, a |-> a, b |-> b,
       c |-> Products(g, a, b, CrossSums(g, m, b, a, FALSE, NAmplify(g)))]
Drawn(g, what, n) == [p \in Players(g) |-> [s \in Upto(n) |-> Draw(g, what, p, s, Order(g.f))]]
Multiply(g) ==
  LET n == g.triples * NAmplify(g)
      a == Drawn(g, 3, n)
  IN  Multiplied(g, a, Drawn(g, 5, g.triples),
                 [l \in Links(g) |-> Extension(g, l[2], l[1], 3, n, a[l[2]])])

(* amplify: to of every from numbers, with factors all players draw from a   *)
(* common seed.                                                             *)
Amplified(g, x, from, to, what) ==
  [s \in Upto(g.triples * to) |->
     SumIn(g.f, Upto(from),
           LAMBDA j : TimesIn(g.f, Draw(g, what, 0, s * from + j, Order(g.f)), x[(s \div to) * from + j]))]

Open(g, shares(_)) == SumIn(g.f, Players(g), shares)
MacHolds(g, shares(_), macs(_)) ==
  Open(g, macs) = TimesIn(g.f, Open(g, shares), Open(g, LAMBDA p : Key(g, p)))

Field(x, field) == [s \in DOMAIN x |-> x[s][field]]

(* Triples with MACs, sacrificed for a check of c = a * b.                  *)
Combined(g, w, field) == [p \in Players(g) |-> Amplified(g, Field(w[p], field), 2, 1, 9)]
Sacrificed(g, shareA, macA, macC, wb) ==
  LET opened(j) == Open(g, LAMBDA p : shareA[p][j]) IN
  \A j \in Upto(g.triples) :
    /\ MacHolds(g, LAMBDA p : shareA[p][j], LAMBDA p : macA[p][j])
    /\ Open(g, LAMBDA p : Minus(g.f, macC[p][j], TimesIn(g.f, opened(j), wb[p][j].mac))) = 0
CheckedTriples(g, a, b, c) ==
  [a |-> a, b |-> b, c |-> c,
   passed |-> Sacrificed(g, Combined(g, a, "share"), Combined(g, a, "mac"), Combined(g, c, "mac"), b)]

AllPassed(made, passed, keys) ==
  [made EXCEPT !.passed = @ /\ passed /\ \A l \in DOMAIN keys : keys[l].passed]
AmplifiedOf(g, x) == [p \in Players(g) |-> Amplified(g, x[p], 3, 2, 8)]
TriplesWithMacs(g, plain, keys) ==
  AllPassed(CheckedTriples(g, Authenticated(g, keys, 0, AmplifiedOf(g, plain.a)),
                           Authenticated(g, keys, 2 * g.triples, plain.b),
                           Authenticated(g, keys, 3 * g.triples, AmplifiedOf(g, plain.c))),
            plain.passed, keys)
TriplesFrom(g, plain) ==
  CASE g.kind = "triples" -> plain
    [] g.kind \in {"amplified", "macs"} ->
         [plain EXCEPT !.a = AmplifiedOf(g, @), !.c = AmplifiedOf(g, @)]
    [] OTHER -> TriplesWithMacs(g, plain, KeyExtensions(g))
Triples(g) == TriplesFrom(g, Multiply(g))

(* generateBitsFromTriples: from an opened square, half of one more than the *)
(* number over the root.                                                    *)
Root(f, x) ==      \* of a number that has none, any
  CHOOSE r \in Upto(f.modulus) :
    LET odd(n) == (n * n) % f.modulus = x /\ n % 2 = 1 IN
    IF \E n \in Upto(f.modulus) : odd(n) THEN odd(r) ELSE r = 0
Squares(g, t, sums, field) ==
  [p \in Players(g) |->
     [j \in Upto(g.triples) |->
        Minus(g.f, TimesIn(g.f, t.a[p][2 * j][field], sums[j]), t.c[p][2 * j][field])]]
Half(f, x) == TimesIn(f, x, InverseIn(f, 2))
BitsFromRoots(g, t, roots, passed) ==
  LET bit(p, j, field, one) ==
        Half(g.f, Plus(g.f, TimesIn(g.f, t.a[p][2 * j][field], InverseIn(g.f, roots[j])), one))
  IN  [passed |-> passed,
       bits |-> [p \in Players(g) |->
                   [j \in {i \in DOMAIN roots : roots[i] # 0} |->
                      [share |-> bit(p, j, "share", IF p = 0 THEN 1 ELSE 0),
                       mac |-> bit(p, j, "mac", Key(g, p))]]]]
BitsFromSquares(g, t, shares, macs) ==
  BitsFromRoots(g, t, [j \in Upto(g.triples) |-> Root(g.f, Open(g, LAMBDA p : shares[p][j]))],
    t.passed /\ \A j \in Upto(g.triples) : MacHolds(g, LAMBDA p : shares[p][j], LAMBDA p : macs[p][j]))
BitsFromTriples(g, t) ==
  LET sums == [j \in Upto(g.triples) |->
                 Open(g, LAMBDA p : Plus(g.f, t.a[p][2 * j].share, t.b[p][j].share))]
  IN  BitsFromSquares(g, t, Squares(g, t, sums, "share"), Squares(g, t, sums, "mac"))
(* generateBits of GF(2^K): rows of transposed squares are MACs of bits; K   *)
(* more are made for a check of a random combination.                       *)
CheckedBits(g, bits) ==
  LET factor(j) == Draw(g, 9, 0, j, 2 ^ g.f.K)
      combined(p, field) ==
        SumIn(g.f, DOMAIN bits[p], LAMBDA j : TimesIn(g.f, factor(j), bits[p][j][field]))
  IN  [passed |-> MacHolds(g, LAMBDA p : combined(p, "share"), LAMBDA p : combined(p, "mac")),
       bits |-> bits]
RowBit(f, square, j) == Transposed(f, square[j \div f.K])[j % f.K]
BitsOfRows(g, x, m, own) ==
  LET f == g.f
      value(p, j) == Bit(x[p][j \div f.K], j % f.K)
      mac(p, j) ==
        Plus(f, value(p, j) * Key(g, p),
             XorOver(Players(g) \ {p}, LAMBDA o : RowBit(f, m[<<p, o>>].t0, j) ^^ RowBit(f, own[<<o, p>>], j)))
  IN  [p \in Players(g) |->
         [j \in Upto(g.triples + f.K) |-> [share |-> value(p, j), mac |-> mac(p, j)]]]
BitsWithKeys(g, keys, blocks) ==
  LET x == [p \in Players(g) |-> [s \in Upto(blocks) |-> Draw(g, 3, p, s, 2 ^ g.f.K)]]
      rows(m) == BitsOfRows(g, x, m,
                   [l \in Links(g) |-> Correlate(g.f, m[l], x[l[1]], KeyBits(g)[l[2]], TRUE, 1)])
  IN  AllPassed(CheckedBits(g, rows(AuthMatrices(g, keys, 0, blocks, 2 ^ g.f.K))), TRUE, keys)
BinaryBits(g) == BitsWithKeys(g, KeyExtensions(g), (g.triples + 2 * g.f.K - 1) \div g.f.K)

MadeOfTriples(g, t) == IF g.kind = "bits" THEN BitsFromTriples(g, t) ELSE t
Generate(g) ==
  IF g.kind = "bits" /\ ~ g.f.prime THEN BinaryBits(g) ELSE MadeOfTriples(g, Triples(g))
=============================================================================
