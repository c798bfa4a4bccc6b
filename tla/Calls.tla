------------------------------- MODULE Calls --------------------------------
(***************************************************************************)
(* Calls of functions that run alone: of the compiler's library, as the     *)
(* operators of sint make them (Compiler/types.py), of its networks and     *)
(* loops; of what the machine is built on, the reading of instructions and  *)
(* the arithmetic of the fields; and of what the offline phases compute.    *)
(***************************************************************************)
EXTENDS SecretIntegers, Networks, InstructionSet

VARIABLES call, result     \* a call; what it gave, <<>> before

(* A program calls again, with other random numbers.                        *)
Return == result # <<>> /\ result' = <<>> /\ UNCHANGED call

CONSTANTS Lengths,         \* bit lengths
          MaxLog,          \* lists have at most 2 ^ MaxLog numbers
          Perms            \* permutations, as tuples of numbers from 0

-----------------------------------------------------------------------------
(* Integers.                                                                *)

Signed(k) == -(2 ^ (k - 1)) .. 2 ^ (k - 1) - 1
Unsigned(k) == 0 .. 2 ^ k - 1
Range0(k, signed) == IF signed THEN Signed(k) ELSE Unsigned(k)

IntegerCall(op, const, a, k, m, signed) ==
  [op |-> op, const |-> const, a |-> a, k |-> k, m |-> m, signed |-> signed]

(* A number of its length, and a shift the protocol is for.                 *)
IntegerCalls ==
  UNION {
    {IntegerCall(op, const, a, k, m, signed) :
       op \in {"mod2m", "trunc"}, a \in Range0(k, signed),
       m \in 1 .. (IF signed THEN k - 1 ELSE k)}
    \cup {IntegerCall("less", const, a, k, 0, TRUE) : a \in Signed(k)}
    \cup {IntegerCall("equal", const, a, k, 0, TRUE) : a \in Signed(k) \cup Unsigned(k)}
    \cup {IntegerCall(op, const, a, k, m, TRUE) : op \in {"round", "trunc_pr"},
            a \in Signed(k), m \in 2 .. k - 1}
    \cup {IntegerCall("round", const, a, k, m, FALSE) : a \in Unsigned(k), m \in 1 .. k - 1}
    \cup {IntegerCall("bits", const, a, k, m, TRUE) : a \in Signed(k) \cup Unsigned(k), m \in 1 .. k}
    \cup {IntegerCall(op, const, a, k, 0, FALSE) : op \in {"pow2", "unary"}, a \in 0 .. k - 1}
    \cup {IntegerCall(op, const, a, k, m, FALSE) : op \in {"secret_mod", "secret_trunc"},
            a \in Unsigned(k - 1), m \in 0 .. k - 1}
    \cup {IntegerCall("norm", const, a, k, 0, TRUE) : a \in Signed(k) \ {0}}
    : k \in Lengths, const \in BOOLEAN, signed \in BOOLEAN}

Singles(S) == {<<x>> : x \in S}

IntegerOutcomes(c) ==
  CASE c.op = "mod2m" -> Singles(IF c.m = 1 THEN Mod2(c.a, c.k, c.signed)
                                 ELSE Mod2m(c.const, c.a, c.k, c.m, c.signed))
    [] c.op = "trunc" -> Singles(Trunc(c.const, c.a, c.k, c.m, c.signed))
    [] c.op = "less" -> Singles(LTZ(c.const, c.a, c.k))
    [] c.op = "equal" -> Singles(EQZ(c.const, c.a, c.k))
    [] c.op = "round" -> Singles(TruncRoundNearest(c.const, c.a, c.k, c.m))
    [] c.op = "trunc_pr" -> Singles(TruncPr(c.a, c.k, c.m))
    [] c.op = "bits" -> BitDec(c.a, c.k, c.m)
    [] c.op = "pow2" -> Singles(Pow2(c.const, c.a, c.k))
    [] c.op = "unary" -> {Append(b[1], b[2]) : b \in B2U(c.const, c.a, c.k)}
    [] c.op = "secret_mod" -> SecretTrunc(c.const, c.a, c.k, c.m, TRUE)
    [] c.op = "secret_trunc" -> SecretTrunc(c.const, c.a, c.k, c.m, FALSE)
    [] c.op = "norm" -> Norm(c.const, c.a, c.k)

-----------------------------------------------------------------------------
(* Lists.                                                                   *)

Lists(n) == [0 .. n - 1 -> {0, 1}]
Powers == {2 ^ x : x \in 0 .. MaxLog}
Ascending(a) == \A i, j \in DOMAIN a : i <= j => a[i] <= a[j]
Blocks(a, length) == \A i \in 0 .. Length(a) \div length - 1 : Ascending(Every(a, i * length, 1, length))

ListCall(op, list, arg) == [op |-> op, list |-> list, arg |-> arg]

ListCalls ==
  {ListCall("sort", a, 0) : a \in UNION {Lists(n) : n \in 1 .. 2 ^ MaxLog}}
  \cup {ListCall(op, a, 0) : op \in {"odd_even", "chunkier", "insertion", "mergesort"},
          a \in UNION {Lists(n) : n \in Powers}}
  \cup UNION {{ListCall("loopy", a, s) : a \in {b \in Lists(n) : Blocks(b, s)}} :
          n \in Powers \ {1}, s \in {1, 2}}
  \cup {ListCall("recursive_merge", lists, 0) :
          lists \in {t \in TupleOf(UNION {{a \in Lists(n) : Ascending(a)} : n \in 1 .. 3}, 3) :
                       Length(t[1]) <= Length(t[2]) /\ Length(t[2]) <= Length(t[3])}}
  \cup {ListCall("waksman", List(p), reverse) : p \in Perms, reverse \in BOOLEAN}
  \cup {ListCall("map_reduce", n, <<t, par>>) : n \in 0 .. 7, t \in 1 .. 4, par \in 0 .. 3}
  \cup {ListCall("single", n, <<1, par>>) : n \in 0 .. 7, par \in 0 .. 3}

Positions(a) == [i \in DOMAIN a |-> i]

ListOutcome(c) ==
  CASE c.op = "sort" -> PaddedSort(c.list)
    [] c.op = "odd_even" -> OddEvenMergeSort(c.list)
    [] c.op = "chunkier" -> ChunkierSort(c.list)
    [] c.op = "insertion" -> InsertionSort(c.list)
    [] c.op = "mergesort" -> MergeSort(c.list)
    [] c.op = "loopy" -> LoopySort(c.list, c.arg)
    [] c.op = "recursive_merge" -> RecursiveMerge(c.list)
    [] c.op = "waksman" ->
         Waksman(Positions(c.list), ConfigureWaksman(c.list), 1, 0, c.arg)
    [] c.op = "map_reduce" -> MapReduce(c.arg[1], c.arg[2], c.list)
    [] c.op = "single" -> MapReduceSingle(c.arg[2], c.list, FALSE)

-----------------------------------------------------------------------------
LibraryInit == call \in IntegerCalls \cup ListCalls /\ result = <<>>

(* A protocol's outcome depends on random numbers; a list has one.          *)
ExecuteLibrary ==
  /\ result = <<>>
  /\ IF call \in IntegerCalls THEN result' \in IntegerOutcomes(call)
                             ELSE result' = <<ListOutcome(call)>>
  /\ UNCHANGED call

LibraryNext == ExecuteLibrary \/ Return

-----------------------------------------------------------------------------
(* What the operators of integers return.                                   *)
Flag(b) == IF b THEN 1 ELSE 0
Highest(n) == Max({i \in 0 .. n : 2 ^ i <= n})
Allowed(c) ==
  LET quotient == c.a \div 2 ^ c.m
      rest == c.a % 2 ^ c.m
      amount == IF c.a < 0 THEN -c.a ELSE c.a
  IN  CASE c.op = "mod2m" -> {<<rest>>}
        [] c.op = "trunc" -> {<<quotient>>}
        [] c.op = "less" -> {<<Flag(c.a < 0)>>}
        [] c.op = "equal" -> {<<Flag(c.a = 0)>>}
        [] c.op = "round" -> {<<(c.a + 2 ^ (c.m - 1)) \div 2 ^ c.m>>}
        [] c.op = "trunc_pr" -> {<<quotient>>, <<quotient + Flag(rest # 0)>>}
        [] c.op = "bits" -> {BitsOf(c.a, c.m)}
        [] c.op = "pow2" -> {<<2 ^ c.a>>}
        [] c.op = "unary" -> {Append([i \in 1 .. c.k |-> Flag(i <= c.a)], 2 ^ c.a)}
        [] c.op = "secret_mod" -> {<<rest, 2 ^ c.m>>}
        [] c.op = "secret_trunc" -> {<<quotient>>}
        [] c.op = "norm" -> LET v == 2 ^ (c.k - 1 - Highest(amount)) IN
             {<<amount * v, IF c.a < 0 THEN -v ELSE v>>}

(* The protocols return what the operators of integers do, whatever the     *)
(* masks.                                                                   *)
ProtocolsCorrect ==
  result # <<>> /\ call \in IntegerCalls =>
    \E r \in Allowed(call) : result = [i \in DOMAIN r |-> Elem(r[i])]

Ones(a) == Cardinality({i \in DOMAIN a : a[i] = 1})
SortedFrom(a, r) == Length(r) = Length(a) /\ Ones(r) = Ones(a) /\ Ascending(r)

(* Every list is sorted, every permutation is done (or undone), and every   *)
(* loop is run for each number once.                                        *)
NetworksCorrect ==
  result # <<>> /\ call \in ListCalls =>
    LET r == result[1] IN
    CASE call.op = "recursive_merge" ->
           SortedFrom(List(FlattenSeq([i \in DOMAIN call.list |-> Tuple(call.list[i])])), r)
      [] call.op = "waksman" ->
           \A i \in DOMAIN call.list :
             IF call.arg THEN r[i] = call.list[i] ELSE r[call.list[i]] = i
      [] call.op \in {"map_reduce", "single"} ->
           Len(r) = call.list /\ Range(r) = 0 .. call.list - 1
      [] OTHER -> SortedFrom(call.list, r)

(* Every call returns what the operator or function is for.                  *)
LibraryCorrect == ProtocolsCorrect /\ NetworksCorrect

CONSTANTS Limb,            \* a limb of an integer modulo a prime is below
          Primes           \* primes
LimbAssumption == Limb \in {2 ^ i : i \in 2 .. 8}
DigitAssumption == Digit \in 16 .. 256
ASSUME LimbAssumption
ASSUME DigitAssumption

GFp == INSTANCE PrimeField
GF2n == INSTANCE BinaryField

PrimitiveCall(op, of, arg) == [op |-> op, of |-> of, arg |-> arg]

-----------------------------------------------------------------------------
(* Instructions.                                                            *)

(* A register for every argument, with room for vectors, and a number.       *)
Argument(f, k, number) ==
  CASE f \in {"int", "i", "ig", "p"} -> number + k
    [] OTHER -> 10 * k
Arguments(c, others, number) ==
  [k \in 1 .. Len(c.format) + others |-> Argument(FormatAt(c, k), k, number)]

InstructionCalls ==
  {PrimitiveCall("instruction", c, <<size, Arguments(c, others, number)>>) :
     c \in Classes, size \in {1, 3}, others \in {0, 1, 2}, number \in {0, 7, -9, Digit ^ 4 \div 2 - 4}}
Instructions ==
  {i \in InstructionCalls : (~i.of.vec => i.arg[1] = 1)
                            /\ (IF i.of.rest = "" THEN Len(i.arg[2]) = Len(i.of.format)
                                ELSE Len(i.arg[2]) > Len(i.of.format))}

(* The arguments in registers and as numbers, as the compiler means them.    *)
Registers(c, args, element) ==
  {[bank |-> Bank(FormatAt(c, k)), written |-> Written(FormatAt(c, k)),
    reg |-> args[k] + element] :
     k \in {i \in DOMAIN args : Bank(FormatAt(c, i)) # "none"}}
Numbers(c, args) ==
  LET at == SetToSortSeq({i \in DOMAIN args : FormatAt(c, i) \in {"int", "i", "ig", "p"}}, <)
  IN  [i \in DOMAIN at |-> args[at[i]]]

(* Where the two sides differ.                                               *)
NoCase == {Opcodes[n] + 256 : n \in {"SHLC", "SHRC", "PROTECTMEMINT"}}
TakenTwice == {"MODC", "MODCI"}     \* in GF(2^n) their opcodes are those of GMULBITC, GMULBITM
AnotherUse == {"PRINTMEM", "GPRINTMEM", "READCLIENTPUBLICKEY"}
StartStands == {"READSOCKETC", "READSOCKETS", "READSOCKETINT", "WRITESOCKETC", "WRITESOCKETS",
                "WRITESOCKETSHARE", "WRITESOCKETINT", "BITDECINT", "PRINTFLOATPLAIN"}
CountedElsewhere == {"LDTN", "ACCEPTCLIENTCONNECTION", "CONNECTIPV4", "PUBINPUT", "PREP", "READFILESHARE"}

RegType(bank) == CASE bank \in {"C", "S"} -> "MODP" [] bank \in {"C2", "S2"} -> "GF2N" [] OTHER -> "INT"
Agrees(c, size, args, d) ==
  LET elements == IF d.op \in StartStands THEN {0} ELSE 0 .. size - 1 IN
  /\ d.used = Len(GetEncoding(c, size, args)) /\ d.size = size
  /\ Numbers(c, args) = NumbersOf(d)
  /\ d.op \notin AnotherUse =>
       \A e \in elements : AccessesOf(d, e) = Registers(c, args, e)
  /\ d.op \notin CountedElsewhere =>
       \A e \in elements : \A a \in AccessesOf(d, e) :
         a.written => a.reg < GetMaxReg(d, RegType(a.bank))

(* Every instruction the compiler writes is read to its last word, names the *)
(* same registers of the same kind and the same numbers on both sides, for   *)
(* every element of a vector, and writes only registers that are counted.    *)
InstructionsAgree ==
  result # <<>> /\ call.op = "instruction" =>
    IF Code(call.of) \in NoCase THEN result[1].op = "invalid"
    ELSE IF call.of.op \in TakenTwice /\ Code(call.of) >= 256
    THEN result[1].op \in {"GMULBITC", "GMULBITM"}
    ELSE Agrees(call.of, call.arg[1], call.arg[2], result[1])

-----------------------------------------------------------------------------
(* Clear instructions.                                                      *)

Data == [p \in Primes |-> [montgomery \in BOOLEAN |-> GFp!ZpData(p, montgomery)]]
Represent(p, x) == GFp!ConvertDestroy(Data[p][TRUE], x)

(* The second arguments the emulation covers: a divisor is not zero, a number *)
(* of bits is not negative and leaves the result within the limbs.           *)
Seconds(op, p, x) ==
  CASE op \in {"SHLC", "SHRC", "SHLCI", "SHRCI"} ->
         {y \in 0 .. GFp!MaxShift : y < p /\ x * 2 ^ y < Limb ^ Data[p][TRUE].t}
    [] op \in {"NOTC", "INV2M", "CONVMODP"} -> 1 .. 5
    [] op \in {"DIVC", "MODC"} -> 1 .. p - 1
    [] op = "DIVCI" -> {y \in -p .. p : y % p # 0}
    [] op = "MODCI" -> 1 .. p
    [] op \in {"ANDCI", "ORCI", "XORCI"} -> 0 .. p
    [] op \in {"LDI", "ADDCI", "SUBCI", "SUBCFI", "MULCI", "CONVINT"} -> -p - 1 .. p + 1
    [] op = "LEGENDREC" -> {0}
    [] OTHER -> 0 .. p - 1

ClearCalls ==
  {PrimitiveCall("clear", op, <<p, x>>) :
     op \in GFp!OfRegisters \cup GFp!OfNumber \cup GFp!ByMachine, p \in Primes, x \in 0 .. Max(Primes)}
ClearOutcomes(op, z, x, ys) ==
  [y \in ys |->
     IF op = "CONVMODP" THEN GFp!ToSignedBigint(z, x, y)
     ELSE GFp!ToBigint(z, GFp!ExecuteClear(z, op, x, GFp!ConvertDestroy(z, y), y))]
ClearResult(c) ==
  ClearOutcomes(c.of, Data[c.arg[1]][TRUE], Represent(c.arg[1], c.arg[2]),
                Seconds(c.of, c.arg[1], c.arg[2]))

Signed0(x, p) == IF x < (p - 1) \div 2 THEN x ELSE x - p
Meant(op, x, y, p) ==
  CASE op = "INV2M" -> GFp!InverseMod(2 ^ y % p, p)
    [] op = "LEGENDREC" -> GFp!Legendre(x, p) % p
    [] op = "CONVINT" -> y % p
    [] OTHER -> GFp!Emulate(op, x, y, p)

(* A clear instruction does what the compiler emulates for it, on numbers in *)
(* Montgomery's form; a conversion to an integer gives the signed number if  *)
(* that has so many bits.                                                    *)
ClearCorrect ==
  result # <<>> /\ call.op = "clear" =>
    LET p == call.arg[1]
        x == call.arg[2]
    IN  \A y \in DOMAIN result[1] :
          IF call.of = "CONVMODP"
          THEN Signed0(x, p) \in 1 - 2 ^ y .. 2 ^ y - 1 => result[1][y] = Signed0(x, p)
          ELSE result[1][y] = Meant(call.of, x, y, p)

-----------------------------------------------------------------------------
(* The fields.                                                              *)

PrimeCalls == {PrimitiveCall("prime", m, <<p, x>>) : m \in BOOLEAN, p \in Primes, x \in 0 .. Max(Primes)}
Elements(z) == [y \in 0 .. z.p - 1 |-> GFp!ConvertDestroy(z, y)]
PrimeOutcomes(z, v, x, elements) ==
  LET of(y) == elements[y]
      all == DOMAIN elements
      n == CHOOSE n \in all : GFp!Legendre(n, z.p) = -1
  IN  [sums |-> [y \in all |-> GFp!Add(z, x, of(y))], differences |-> [y \in all |-> GFp!Sub(z, x, of(y))],
       products |-> [y \in all |-> GFp!Mul(z, x, of(y))], negative |-> GFp!Negate(z, x),
       inverse |-> IF GFp!IsZero(z, x) THEN x ELSE GFp!Inv(z, x),
       numbers |-> [i \in -z.p .. Limb - 1 |-> GFp!ToModp(z, i)],
       powers |-> [e \in 0 .. 5 |-> GFp!Power(z, x, e)],
       root |-> IF GFp!Legendre(v, z.p) = -1 THEN x ELSE GFp!SqrRoot(z, x, n),
       printed |-> GFp!Printed(z, x), back |-> GFp!ToBigint(z, x), one |-> GFp!AssignOne(z)]
PrimeResult(c) ==
  LET z == Data[c.arg[1]][c.of] IN
  PrimeOutcomes(z, c.arg[2], GFp!ConvertDestroy(z, c.arg[2]), Elements(z))
(* Compared in the form they are in.                                        *)
PrimeAgrees(z, x, r, elements) ==
  LET is(v, e) == v = elements[e % z.p] IN
  /\ r.back = x /\ is(r.one, 1) /\ r.printed = IF x < z.p \div 2 THEN x ELSE x - z.p
  /\ \A y \in DOMAIN elements : is(r.sums[y], x + y) /\ is(r.differences[y], x - y) /\ is(r.products[y], x * y)
  /\ is(r.negative, -x) /\ (x # 0 => is(r.inverse, GFp!InverseMod(x, z.p)))
  /\ \A i \in DOMAIN r.numbers : is(r.numbers[i], i)
  /\ \A e \in DOMAIN r.powers : is(r.powers[e], GFp!PowerMod(x, e, z.p))
  /\ GFp!Legendre(x, z.p) # -1 => \E s \in DOMAIN elements :
       is(r.root, s) /\ (s * s) % z.p = x /\ (x # 0 => s % 2 = 1)

(* Products of powers of X, of which all others are sums, and of GF(2^128)   *)
(* those around the ends of lanes; inverses of all of the two small fields.  *)
Around == {0, 1, 7, 63, 64, 65, 120, 121, 127}
BinaryCalls ==
  UNION {{PrimitiveCall("product", f, i) : i \in 0 .. f.n - 1} : f \in GF2n!Fields}
  \cup {PrimitiveCall("product", GF2n!LongField, i) : i \in Around}
  \cup UNION {{PrimitiveCall("inverse", f, x) : x \in SUBSET (0 .. f.n - 1) \ {{}}} :
                f \in {g \in GF2n!Fields : g.n < 10}}
  \cup {PrimitiveCall("inverse", GF2n!LongField, {i}) : i \in Around}
BinaryResult(c) ==
  CASE c.op = "inverse" -> IF c.of = GF2n!LongField THEN <<GF2n!InvertLong(c.arg)>>
                           ELSE <<GF2n!Invert(c.of, c.arg), GF2n!Power(c.of, FALSE, c.arg, -1)>>
    [] c.of = GF2n!LongField -> [j \in Around |-> GF2n!MulLong({c.arg}, {j})]
    [] OTHER -> [j \in 0 .. c.of.n - 1 |->
                   {GF2n!Mul(c.of, useC, {c.arg}, {j}) : useC \in BOOLEAN}
                   \cup (IF j = c.arg THEN {GF2n!Square(c.of, {j})} ELSE {})]

(* The remainder modulo the polynomial of the field.                         *)
RECURSIVE Remainder(_, _)
Remainder(f, a) ==
  IF \A i \in a : i < f.n THEN a
  ELSE Remainder(f, GF2n!Xor(a, {Max(a) - f.n + s : s \in GF2n!Modulus(f)}))
Times(x, y) == FoldSet(LAMBDA i, s : GF2n!Xor(s, {i + j : j \in y}), {}, x)

BinaryAgrees(c, r) ==
  CASE c.op = "inverse" -> \A i \in DOMAIN r : Remainder(c.of, Times(c.arg, r[i])) = {0}
    [] c.of = GF2n!LongField -> \A j \in DOMAIN r : r[j] = Remainder(c.of, {c.arg + j})
    [] OTHER -> \A j \in DOMAIN r : r[j] = {Remainder(c.of, {c.arg + j})}

(* Sums, products, inverses, powers and roots are those of the field.        *)
FieldsCorrect ==
  result # <<>> =>
    /\ call.op = "prime" => LET z == Data[call.arg[1]][call.of] IN PrimeAgrees(z, call.arg[2], result[1], Elements(z))
    /\ call.op \in {"product", "inverse"} => BinaryAgrees(call, result[1])

(* The arithmetic of the instructions and of the fields.                     *)
ArithmeticCorrect == ClearCorrect /\ FieldsCorrect

-----------------------------------------------------------------------------
BelowPrime(calls) == {c \in calls : c.arg[2] < c.arg[1]}
PrimitiveInit ==
  /\ call \in Instructions \cup BelowPrime(ClearCalls \cup PrimeCalls) \cup BinaryCalls
  /\ result = <<>>
ExecutePrimitive ==
  /\ result = <<>>
  /\ result' = <<CASE call.op = "instruction" ->
                        Parse(GetEncoding(call.of, call.arg[1], call.arg[2]))
                   [] call.op = "clear" -> ClearResult(call)
                   [] call.op = "prime" -> PrimeResult(call)
                   [] OTHER -> BinaryResult(call)>>
  /\ UNCHANGED call
PrimitiveNext == ExecutePrimitive \/ Return

-----------------------------------------------------------------------------
(* Oblivious transfers.                                                     *)
Ot == INSTANCE OtExtension

OtCall(run) == [op |-> "ot", run |-> run]

(* Transposes of a matrix in which every bit is another.                     *)
SquareOfBits == [i \in 0 .. 127 |-> [j \in 0 .. 127 |-> {<<i, j>>}]]
WideOfBits(offset) ==
  [i \in 0 .. 127 |-> [j \in 0 .. offset + 127 |-> {<<i, j>>}]]
TransposeCall(how, n) == [op |-> "transpose", how |-> how, n |-> n]

OtRuns ==
  [f : {Ot!FieldOf(2, FALSE, 7), Ot!FieldOf(3, TRUE, 7)}, kind : Ot!Kinds, players : {2},
   triples : {2}, seed : 0 .. 2]
  \cup [f : {Ot!FieldOf(3, FALSE, 11)}, kind : Ot!Kinds, players : {2}, triples : {1}, seed : {4}]
  \cup [f : {Ot!FieldOf(2, FALSE, 7), Ot!FieldOf(2, TRUE, 3)}, kind : Ot!Kinds, players : {3},
        triples : {1}, seed : {5}]
OfflineCall == {OtCall(run) : run \in OtRuns}
               \cup {TransposeCall("eklundh", n) : n \in {0, 128}}
               \cup {TransposeCall("square", n) : n \in {16, 32}}

(* Shares of a kind at a position, as the player's number gives them.        *)
Opened(g, shares) == Ot!Open(g, LAMBDA p : shares[p])
WithMac(g, shares) ==
  Ot!MacHolds(g, LAMBDA p : shares[p].share, LAMBDA p : shares[p].mac)
OfAll(g, values, j) == [p \in Ot!Players(g) |-> values[p][j]]
Shares(g, t, field, j) ==
  [p \in Ot!Players(g) |-> IF g.kind = "checked" THEN t[field][p][j].share ELSE t[field][p][j]]

BitsHold(g, t) ==
  \A j \in DOMAIN t.bits[0] :
    /\ WithMac(g, OfAll(g, t.bits, j))
    /\ Opened(g, [p \in Ot!Players(g) |-> t.bits[p][j].share]) \in {0, 1}
(* A number b belongs to all the amplified triples of its loop.              *)
TriplesHold(g, t) ==
  \A j \in DOMAIN t.a[0] :
    LET n == IF g.kind = "triples" THEN j ELSE j \div 2 IN
    /\ Ot!TimesIn(g.f, Opened(g, Shares(g, t, "a", j)), Opened(g, Shares(g, t, "b", n)))
         = Opened(g, Shares(g, t, "c", j))
    /\ g.kind = "checked" =>
         WithMac(g, OfAll(g, t.a, j)) /\ WithMac(g, OfAll(g, t.b, n)) /\ WithMac(g, OfAll(g, t.c, j))

(* Of honest players all checks pass, the triples multiply, bits are bits,   *)
(* and their MACs are the keys times the values; and a transposed matrix is  *)
(* one.                                                                     *)
TriplesCorrect ==
  result # <<>> =>
    /\ call.op = "ot" =>
         /\ result[1].passed
         /\ IF call.run.kind = "bits" THEN BitsHold(call.run, result[1])
            ELSE TriplesHold(call.run, result[1])
    /\ call.op = "transpose" =>
         \A i \in DOMAIN result[1] : \A j \in 0 .. 127 : result[1][i][j] = {<<j, i>>}

OfflineInit == call \in OfflineCall /\ result = <<>>
ExecuteOffline ==
  /\ result = <<>>
  /\ result' = <<CASE call.op = "ot" -> Ot!Generate(call.run)
                   [] call.op = "transpose" /\ call.how = "eklundh" ->
                        Ot!EklundhTranspose128(WideOfBits(call.n), call.n)
                   [] OTHER -> Ot!TransposeSquare(SquareOfBits, call.n)>>
  /\ UNCHANGED call
OfflineNext == ExecuteOffline \/ Return
=============================================================================
