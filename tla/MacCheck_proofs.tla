-------------------------- MODULE MacCheck_proofs --------------------------
(***************************************************************************)
(* Proofs about MacCheck, for every number of players, every arity of the   *)
(* tree and every well-formed program: openings deliver the sum of all      *)
(* shares, and a check pairs each value with its own MAC.                   *)
(***************************************************************************)
EXTENDS MacCheck, SequenceFacts, FiniteSetTheorems

-----------------------------------------------------------------------------
(* The openings of a program.                                              *)

(* The number of opening o: openings are counted across MAC checks.         *)
NumberOf(pr, o) == CallsOf("begin", pr, o)

(* Opening o of MAC check m is one of numbers lo + 1 to hi.                 *)
Opens(pr, m, o, lo, hi) ==
  /\ o \in DOMAIN pr /\ pr[o].op = "begin" /\ pr[o].mc = m
  /\ lo < NumberOf(pr, o) /\ NumberOf(pr, o) <= hi

(* How many values the openings up to number n put into m.                  *)
Items(pr, m, n) == UNION {{o} \X (1 .. Len(pr[o].ids)) : o \in {b \in DOMAIN pr : Opens(pr, m, b, 0, n)}}
Size(pr, m, n) == Cardinality(Items(pr, m, n))

(* Where a player is: in a check; how many openings have begun and ended    *)
(* there; inside a call.                                                   *)
Checking(a) == a.do \in {"send_tau", "hear_tau", "verify"}
Begun(pr, c, a) == CallsOf("begin", pr, IF a = Idle THEN c - 1 ELSE c)
Ended(pr, c, a) == CallsOf("end", pr, IF Checking(a) THEN c ELSE c - 1)
Inside(pr, c, a, op) == a # Idle /\ ~ Checking(a) /\ pr[c].op = op

-----------------------------------------------------------------------------
(* The sum along the tree.  Before each round, how many players hold sums,  *)
(* and which of them holds a player's share.                               *)
Lower(l) ==
  IF l.last = 1 THEN l
  ELSE [last |-> SumPlayers(l.last), holder |-> [x \in Player |-> l.holder[x] % SumPlayers(l.last)]]

(* The rounds: Level[r] is before round r.                                *)
Level[r \in Nat] ==
  IF r = 0 THEN [last |-> N, holder |-> [x \in Player |-> x]] ELSE Lower(Level[r - 1])

(* q passes its sum on in round r; what it then holds; and what p holds     *)
(* before it adds the sum of player i.                                     *)
PassesIn(q, r) == Level[r].last > 1 /\ SumPlayers(Level[r].last) <= q /\ q < Level[r].last
Part(q) == {x \in Player : \E r \in Nat : PassesIn(q, r) /\ Level[r].holder[x] = q}
Partial(p, i, last) ==
  {x \in Player : \E r \in Nat :
     /\ Level[r].last = last /\ last > 1
     /\ Level[r].holder[x] < i /\ Level[r].holder[x] % SumPlayers(last) = p}
Parent(q, p) == \E r \in Nat : PassesIn(q, r) /\ p = q % SumPlayers(Level[r].last)

(* The n players that end with q.                                          *)
Distance(x, q) == IF x <= q THEN q - x ELSE q - x + N
Behind(q, n) == {x \in Player : Distance(x, q) < n}

-----------------------------------------------------------------------------
(* Sums, and where they are.                                               *)

(* The sum of the shares of S in a value, and in values.                  *)
SumOf(id, S) == SetToBag({id} \X S)
IsSum(v, ids, S) ==
  IsSeq(v) /\ Len(v) = Len(ids) /\ \A k \in 1 .. Len(ids) : v[k] = SumOf(ids[k], S)

(* Whose shares are in the values of player p.                              *)
Held(me, pr, p, c, a) ==
  CASE me = "tree" /\ a.do = "add" -> Partial(p, a.i, a.last)
    [] me = "tree" /\ a.do \in {"pass_up", "receive"} -> Part(p)
    [] me # "tree" /\ pr[c].op = "begin" -> {p}
    [] me = "direct" /\ a.do = "add" -> {p} \cup {q \in Player : q < a.i}
    [] OTHER -> Player

(* What a player's vector holds,                                          *)
ValuesOK(me, pr, p, c, a, v) ==
  LET ids == pr[c].ids
  IN /\ Inside(pr, c, a, "begin") => IsSum(v, ids, Held(me, pr, p, c, a))
     /\ Inside(pr, c, a, "end") =>
          IF a.do \in {"get", "receive"} THEN IsSeq(v) /\ Len(v) = Len(ids)
          ELSE IsSum(v, ids, Held(me, pr, p, c, a))

(* and its stream.                                                        *)
StreamOK(me, pr, p, c, a, o) ==
  me = "passing" /\ Inside(pr, c, a, "begin") =>
    IsSum(o, pr[c].ids, IF a.do = "append_stream" THEN Player ELSE Behind(p, a.i))

(* A vector in store: cnt elements of openings that have ended, then those  *)
(* of the openings under way, from number e + 1 to n, in order; content[o]  *)
(* is what opening o has put there.                                        *)
Place(pr, m, o, e, cnt) == (cnt + Size(pr, m, NumberOf(pr, o) - 1)) - Size(pr, m, e)
InPlace(pr, m, e, n, content, store, cnt) ==
  /\ IsSeq(store)
  /\ Len(store) = (cnt + Size(pr, m, n)) - Size(pr, m, e)
  /\ \A o \in DOMAIN pr : Opens(pr, m, o, e, n) =>
       \A k \in 1 .. Len(pr[o].ids) : store[Place(pr, m, o, e, cnt) + k] = content[o][k]

(* The MACs of all openings that have begun.                               *)
MacContent(pr) == [o \in DOMAIN pr |-> pr[o].ids]
MacsOK(pr, m, e, b, mac, cnt) == InPlace(pr, m, e, b, MacContent(pr), mac, cnt)

(* The values of the first s openings; in the direct method, sums only of   *)
(* the opening that is being closed.                                       *)
Closing(pr, c, a) == Inside(pr, c, a, "end") /\ a.do = "close"
Stored(me, pr, p, c, a) ==
  IF me = "tree" /\ ~ Relays(p)
  THEN Ended(pr, c, a) + (IF Closing(pr, c, a) THEN 1 ELSE 0)
  ELSE Begun(pr, c, a) -
         (IF Inside(pr, c, a, "begin") /\ ~ (me = "tree" /\ p > 0 /\ a.do = "send") THEN 1 ELSE 0)
Replaced(me, pr, c, a) == me = "direct" /\ Closing(pr, c, a)
InStore(me, pr, p, o, e, replaced) ==
  IF me = "direct" /\ ~ (replaced /\ NumberOf(pr, o) = e + 1) THEN {p} ELSE Player
ValContent(me, pr, p, e, replaced) ==
  [o \in DOMAIN pr |->
    [k \in DOMAIN pr[o].ids |-> SumOf(pr[o].ids[k], InStore(me, pr, p, o, e, replaced))]]
ValsOK(me, pr, m, p, e, s, replaced, val, cnt) ==
  InPlace(pr, m, e, s, ValContent(me, pr, p, e, replaced), val, cnt)

(* The first cnt values belong to the first cnt MACs.                     *)
Paired(mac, val, cnt) ==
  /\ cnt \in Nat /\ cnt <= Len(mac) /\ cnt <= Len(val)
  /\ \A i \in 1 .. cnt : val[i] = Opened(mac[i])

(* The two vectors of MAC check m.                                        *)
StoreOK(me, pr, m, p, c, a, mac, val, cnt) ==
  LET b == Begun(pr, c, a)
      e == Ended(pr, c, a)
  IN /\ MacsOK(pr, m, e, b, mac, cnt)
     /\ ValsOK(me, pr, m, p, e, Stored(me, pr, p, c, a), Replaced(me, pr, c, a), val, cnt)
     /\ Paired(mac, val, cnt)

(* What has been delivered.                                               *)
ResultsOK(res) ==
  /\ IsSeq(res)
  /\ \A i \in 1 .. Len(res) :
       res[i].values = [j \in DOMAIN res[i].ids |-> Opened(res[i].ids[j])]

-----------------------------------------------------------------------------
(* The messages with values from q to p, for each opening 1, or N - 1 when  *)
(* streams go around.  <<n, t>> is the t-th of opening n.                   *)
PerOpening(me) == IF me = "passing" THEN N - 1 ELSE 1
After(me, x) == IF x[2] < PerOpening(me) THEN <<x[1], x[2] + 1>> ELSE <<x[1] + 1, 1>>

(* Who sends values to whom, and what is in the t-th message of an        *)
(* opening.                                                               *)
Linked(me, q, p) ==
  CASE me = "tree" /\ p < q -> Parent(q, p)
    [] me = "tree" /\ p > q -> q = p \div MaxBroadcast
    [] me = "direct" -> p # q
    [] me = "passing" -> p = NextPlayer(q)
    [] OTHER -> FALSE

Content(me, q, p, t) ==
  CASE me = "tree" -> IF q > p THEN Part(q) ELSE Player
    [] me = "direct" -> {q}
    [] OTHER -> Behind(q, t)

BodyOK(me, pr, q, p, x, body) ==
  \A o \in DOMAIN pr : pr[o].op = "begin" /\ NumberOf(pr, o) = x[1] =>
    IsSum(body, pr[o].ids, Content(me, q, p, x[2]))

(* The messages of a channel, numbered, are those after `from` up to      *)
(* `to`.                                                                  *)
Numbers(me, pr, q, p, ch, pos, from, to) ==
  /\ IsSeq(ch)
  /\ pos \in [0 .. Len(ch) -> Nat \X Nat]
  /\ pos[0] = from /\ pos[Len(ch)] = to
  /\ \A i \in 1 .. Len(ch) :
       IF ch[i].kind = "values"
       THEN pos[i] = After(me, pos[i - 1]) /\ BodyOK(me, pr, q, p, pos[i], ch[i].body)
       ELSE pos[i] = pos[i - 1]
Carries(me, pr, q, p, ch, from, to) == \E pos : Numbers(me, pr, q, p, ch, pos, from, to)

(* The last message q, at a in call c, has sent to p.                       *)
Upwards == {"add", "pass_up"}
Unsent(me, q, p, a) ==
  CASE me = "tree" /\ p < q -> a.do \in Upwards
    [] me = "tree" /\ p >= q -> \/ a.do \in Upwards \cup {"receive"}
                                \/ a.do = "append" /\ q > 0
                                \/ a.do = "send" /\ a.i <= p
    [] OTHER -> a.do = "send" /\ a.i <= p
Passed(a) == IF a.do = "pass" THEN a.i - 1 ELSE IF a.do = "take" THEN a.i ELSE N - 1
Around(b, n) == IF n = 0 THEN <<b - 1, N - 1>> ELSE <<b, n>>
LastSent(me, pr, q, p, c, a) ==
  LET b == Begun(pr, c, a)
  IN IF me = "passing" THEN Around(b, IF Inside(pr, c, a, "begin") THEN Passed(a) ELSE N - 1)
     ELSE <<IF Inside(pr, c, a, "begin") /\ Unsent(me, q, p, a) THEN b - 1 ELSE b, 1>>

(* The last message p, at a in call c, has taken from q.                    *)
Untaken(q, p, a) ==
  IF q > p THEN a.do = "add" /\ q < a.last /\ ~ (SumPlayers(a.last) <= q /\ q < a.i)
  ELSE a.do \in Upwards \cup {"receive"}
TakenAtEnd(me, q, a) ==
  IF me = "tree" THEN a.do # "receive" ELSE a.do \in {"put", "close"} \/ (a.do = "add" /\ q < a.i)
Taken(a) == IF a.do \in {"pass", "take"} THEN a.i - 1 ELSE N - 1
LastTaken(me, pr, q, p, c, a) ==
  LET b == Begun(pr, c, a)
      e == Ended(pr, c, a)
  IN IF me = "passing" THEN Around(b, IF Inside(pr, c, a, "begin") THEN Taken(a) ELSE N - 1)
     ELSE IF me = "tree" /\ (q > p \/ Relays(p))
     THEN <<IF Inside(pr, c, a, "begin") /\ Untaken(q, p, a) THEN b - 1 ELSE b, 1>>
     ELSE <<IF Inside(pr, c, a, "end") /\ TakenAtEnd(me, q, a) THEN e + 1 ELSE e, 1>>

(* A channel carries what has been sent and not been taken.               *)
ChannelOK(me, pr, q, p, cq, aq, cp, ap, ch) ==
  Linked(me, q, p) =>
    Carries(me, pr, q, p, ch, LastTaken(me, pr, q, p, cp, ap), LastSent(me, pr, q, p, cq, aq))

-----------------------------------------------------------------------------
(* Where a player can be.                                                  *)
Numbered(p, a) == a.i \in Nat /\ a.last \in Nat

(* Places in the beginning and the end of an opening by the tree method.  *)
SumPlace(p, a) ==
  /\ a.last > 1 /\ \E r \in Nat : Level[r].last = a.last
  /\ a.do = "add" => /\ p < SumPlayers(a.last) /\ SumPlayers(a.last) <= a.i /\ a.i < a.last
                     /\ a.i % SumPlayers(a.last) = p
  /\ a.do = "pass_up" => /\ SumPlayers(a.last) <= p /\ p < a.last
                         /\ a.i = p % SumPlayers(a.last)
TreeBegin(p, a) ==
  \/ a.do \in {"add", "pass_up"} /\ SumPlace(p, a)
  \/ a.do = "receive" /\ p > 0 /\ Relays(p) /\ a = AwaitSum(p)
  \/ a.do = "append" /\ Relays(p)
  \/ a.do = "send" /\ Relays(p) /\ a.i < Receivers(p)
       /\ (IF p = 0 THEN 1 ELSE p * MaxBroadcast) <= a.i
TreeEnd(p, a) ==
  \/ a.do = "receive" /\ ~ Relays(p) /\ a = AwaitSum(p)
  \/ a.do = "append" /\ ~ Relays(p)
  \/ a.do = "get" /\ Relays(p)
  \/ a.do = "close"

(* All places, by method.                                                 *)
OtherPlace(p, a) == a.i \in Player \ {p}
PlaceOK(me, pr, p, c, a) ==
  /\ c \in 1 .. Len(pr) + 1 /\ a.i \in Nat /\ a.last \in Nat /\ a = At(a.do, a.i, a.last)
  /\ a # Idle =>
       /\ c \in DOMAIN pr
       /\ \/ Checking(a) /\ (a.do # "verify" => a.i \in 1 .. N - 1)
          \/ pr[c].op = "add" /\ a.do = "check_if_needed"
          \/ /\ pr[c].op = "begin" /\ ~ Checking(a)
             /\ \/ me = "tree" /\ TreeBegin(p, a)
                \/ me = "direct" /\ (a.do = "append" \/ (a.do = "send" /\ OtherPlace(p, a)))
                \/ me = "passing" /\ (a.do = "append_stream" \/ (a.do \in {"pass", "take"} /\ a.i \in 1 .. N - 1))
          \/ /\ pr[c].op = "end"  /\ ~ Checking(a)
             /\ \/ me = "tree" /\ TreeEnd(p, a)
                \/ me = "direct" /\ (a.do \in {"get", "put", "close"} \/ (a.do = "add" /\ OtherPlace(p, a)))
                \/ me = "passing" /\ a.do \in {"get", "close"}
  /\ a # Idle /\ Checking(a) => pr[c].op # "begin"

-----------------------------------------------------------------------------
(* All that holds of player p; V, Mac, Val and Cnt are by MAC check.        *)
Stores(me, pr, p, c, a, Mac, Val, Cnt) ==
  \A m \in MCs : StoreOK(me, pr, m, p, c, a, Mac[m], Val[m], Cnt[m])
Sums(me, pr, p, c, a, V, o) ==
  c \in DOMAIN pr => ValuesOK(me, pr, p, c, a, V[pr[c].mc]) /\ StreamOK(me, pr, p, c, a, o)
LocalOK(me, pr, p, c, a, V, o, Mac, Val, Cnt, res) ==
  /\ PlaceOK(me, pr, p, c, a)
  /\ Stores(me, pr, p, c, a, Mac, Val, Cnt)
  /\ Sums(me, pr, p, c, a, V, o)
  /\ ResultsOK(res)
-----------------------------------------------------------------------------
(* Counting calls.                                                         *)

(* A call counts at its own position.                                       *)
LEMMA CountStep ==
  ASSUME NEW op, NEW pr, NEW k \in Nat
  PROVE  /\ CallsOf(op, pr, k) \in Nat
         /\ CallsOf(op, pr, k + 1) = CallsOf(op, pr, k) + (IF pr[k + 1].op = op THEN 1 ELSE 0)
         /\ CallsOf(op, pr, 0) = 0
<1> DEFINE S(j) == {i \in 1 .. j : pr[i].op = op}
<1>1. \A j \in Nat : IsFiniteSet(S(j)) /\ Cardinality(S(j)) \in Nat
  <2> TAKE j \in Nat
  <2>1. IsFiniteSet(1 .. j)
    BY FS_Interval
  <2>2. S(j) \in SUBSET (1 .. j)
    OBVIOUS
  <2>3. QED
    BY <2>1, <2>2, FS_Subset, FS_CardinalityType
<1>2. S(0) = {}
  OBVIOUS
<1>3. CASE pr[k + 1].op = op
  <2>1. S(k + 1) = S(k) \cup {k + 1} /\ k + 1 \notin S(k)
    BY <1>3
  <2>2. Cardinality(S(k + 1)) = Cardinality(S(k)) + 1
    BY <1>1, <2>1, FS_AddElement
  <2>3. QED
    BY <1>1, <1>2, <1>3, <2>2, FS_EmptySet DEF CallsOf
<1>4. CASE pr[k + 1].op # op
  <2>1. S(k + 1) = S(k)
    BY <1>4
  <2>2. Cardinality(S(k)) \in Nat
    BY <1>1
  <2>3. Cardinality(S(0)) = 0
    BY <1>2, FS_EmptySet
  <2> DEFINE T == S(k)
             U == S(k + 1)
  <2> HIDE DEF T, U
  <2>4. Cardinality(U) = Cardinality(T) /\ Cardinality(T) \in Nat
    BY <2>1, <2>2 DEF T, U
  <2>5. Cardinality(U) = Cardinality(T) + 0
    BY <2>4
  <2>6. CallsOf(op, pr, k + 1) = CallsOf(op, pr, k) + 0 /\ CallsOf(op, pr, k) \in Nat
    BY <2>4, <2>5 DEF T, U, CallsOf
  <2>7. QED
    BY <1>4, <2>3, <2>6 DEF CallsOf
<1>5. QED
  BY <1>3, <1>4

(* Counts of calls do not fall.                                           *)
LEMMA CountGrows ==
  ASSUME NEW op, NEW pr, NEW j \in Nat, NEW k \in Nat, j <= k
  PROVE  CallsOf(op, pr, j) <= CallsOf(op, pr, k)
<1>1. IsFiniteSet(1 .. k)
  BY FS_Interval
<1>2. /\ {i \in 1 .. j : pr[i].op = op} \in SUBSET {i \in 1 .. k : pr[i].op = op}
      /\ {i \in 1 .. k : pr[i].op = op} \in SUBSET (1 .. k)
  OBVIOUS
<1>3. QED
  BY <1>1, <1>2, FS_Subset DEF CallsOf

(* The number of a begin is one more than the begins before it.             *)
LEMMA NumberIs ==
  ASSUME NEW pr, NEW k, NEW o \in DOMAIN pr, DOMAIN pr = 1 .. k, k \in Nat, pr[o].op = "begin"
  PROVE  /\ o \in Nat /\ o >= 1 /\ o - 1 \in Nat
         /\ NumberOf(pr, o) = CallsOf("begin", pr, o - 1) + 1
         /\ NumberOf(pr, o) \in Nat /\ NumberOf(pr, o) >= 1
<1>1. o \in Nat /\ o - 1 \in Nat /\ (o - 1) + 1 = o /\ o >= 1
  OBVIOUS
<1>2. /\ CallsOf("begin", pr, o - 1) \in Nat
      /\ CallsOf("begin", pr, (o - 1) + 1) =
           CallsOf("begin", pr, o - 1) + (IF pr[(o - 1) + 1].op = "begin" THEN 1 ELSE 0)
  BY <1>1, CountStep
<1>3. QED
  BY <1>1, <1>2 DEF NumberOf

(* Openings are ordered by their numbers; no two have the same.             *)
LEMMA NumberOrder ==
  ASSUME NEW pr, NEW k, DOMAIN pr = 1 .. k, k \in Nat,
         NEW o \in DOMAIN pr, NEW b \in Nat, pr[o].op = "begin"
  PROVE  /\ b < o => CallsOf("begin", pr, b) < NumberOf(pr, o)
         /\ o <= b => NumberOf(pr, o) <= CallsOf("begin", pr, b)
<1>1. /\ o \in Nat /\ o >= 1 /\ o - 1 \in Nat
      /\ NumberOf(pr, o) = CallsOf("begin", pr, o - 1) + 1
      /\ CallsOf("begin", pr, o - 1) \in Nat /\ CallsOf("begin", pr, b) \in Nat
  BY NumberIs, CountStep
<1>2. CASE b < o
  <2>1. CallsOf("begin", pr, b) <= CallsOf("begin", pr, o - 1)
    BY <1>1, <1>2, CountGrows
  <2>2. QED
    BY <1>1, <1>2, <2>1
<1>3. CASE o <= b
  BY <1>1, <1>3, CountGrows DEF NumberOf
<1>4. QED
  BY <1>1, <1>2, <1>3

(* Openings have different numbers.                                       *)
LEMMA NumberInjective ==
  ASSUME NEW pr, NEW k, DOMAIN pr = 1 .. k, k \in Nat,
         NEW o \in DOMAIN pr, NEW b \in DOMAIN pr, pr[o].op = "begin", pr[b].op = "begin",
         NumberOf(pr, o) = NumberOf(pr, b)
  PROVE  o = b
<1>1. o \in Nat /\ b \in Nat /\ NumberOf(pr, o) \in Nat
  BY NumberIs
<1>2. ~ (b < o) /\ ~ (o < b)
  BY <1>1, NumberOrder DEF NumberOf
<1>3. QED
  BY <1>1, <1>2

-----------------------------------------------------------------------------
(* How many values openings have.                                          *)

(* A program, of the assumption on Cases.                                 *)
Program(pr) == pr \in Seq(Call) /\ WellFormed(pr)

(* What the types of a program give.                                      *)
LEMMA ProgramFacts ==
  ASSUME NEW pr, Program(pr)
  PROVE  /\ Len(pr) \in Nat /\ DOMAIN pr = 1 .. Len(pr)
         /\ \A o \in DOMAIN pr :
              /\ o \in Nat /\ pr[o] \in Call /\ pr[o].ids \in Seq(Nat) /\ Len(pr[o].ids) \in Nat
              /\ pr[o].mc \in MCs
<1>1. pr \in Seq(Call)
  BY DEF Program
<1>2. \A x \in Call : x.ids \in Seq(Nat) /\ x.mc \in MCs /\ Len(x.ids) \in Nat
  BY DEF Call
<1>3. /\ Len(pr) \in Nat /\ DOMAIN pr = 1 .. Len(pr)
      /\ \A o \in DOMAIN pr : o \in Nat /\ pr[o] \in Call
  BY <1>1
<1>4. QED
  BY <1>2, <1>3

(* The values of one opening.                                             *)
ItemsOf(pr, o) == {o} \X (1 .. Len(pr[o].ids))

(* The values of the openings up to a number can be counted.              *)
LEMMA ItemsFinite ==
  ASSUME NEW pr, Program(pr), NEW m, NEW n
  PROVE  IsFiniteSet(Items(pr, m, n)) /\ Size(pr, m, n) \in Nat
<1> DEFINE O == {b \in DOMAIN pr : Opens(pr, m, b, 0, n)}
           U == {ItemsOf(pr, o) : o \in O}
<1>1. IsFiniteSet(O)
  <2>1. IsFiniteSet(DOMAIN pr)
    BY ProgramFacts, FS_Interval
  <2>2. QED
    BY <2>1, FS_Subset
<1>2. \A o \in O : IsFiniteSet(ItemsOf(pr, o))
  <2> TAKE o \in O
  <2>1. PICK l \in Nat : l = Len(pr[o].ids)
    BY ProgramFacts
  <2>2. IsFiniteSet(1 .. l)
    BY FS_Interval
  <2>3. IsFiniteSet(1 .. l) /\ IsFiniteSet({o})
    BY <2>2, FS_Singleton
  <2>4. IsFiniteSet({o} \X (1 .. l))
    BY <2>3, FS_Product
  <2>5. QED
    BY <2>1, <2>4 DEF ItemsOf
<1>3. IsFiniteSet(U)
  <2> DEFINE f == [o \in O |-> ItemsOf(pr, o)]
  <2>1. f \in Surjection(O, U)
    BY DEF Surjection
  <2>2. QED
    BY <1>1, <2>1, FS_Surjection
<1>4. IsFiniteSet(UNION U)
  <2>1. \A T \in U : IsFiniteSet(T)
    BY <1>2
  <2> HIDE DEF U
  <2>2. QED
    BY <1>3, <2>1, FS_UNION
<1>5. Items(pr, m, n) = UNION U
  BY DEF Items, ItemsOf
<1>6. QED
  BY <1>4, <1>5, FS_CardinalityType DEF Size

(* The next opening adds its values to its MAC check, and to no other.      *)
LEMMA SizeStep ==
  ASSUME NEW pr, Program(pr), NEW m, NEW o \in DOMAIN pr, pr[o].op = "begin"
  PROVE  /\ NumberOf(pr, o) - 1 \in Nat
         /\ Size(pr, m, NumberOf(pr, o)) =
              Size(pr, m, NumberOf(pr, o) - 1) + (IF pr[o].mc = m THEN Len(pr[o].ids) ELSE 0)
<1> DEFINE n == NumberOf(pr, o)
<1>1. n \in Nat /\ n >= 1 /\ n - 1 \in Nat
  BY NumberIs, ProgramFacts
<1>2. \A b \in DOMAIN pr : pr[b].op = "begin" => NumberOf(pr, b) \in Nat
  BY NumberIs, ProgramFacts
<1>3. \A b \in DOMAIN pr : Opens(pr, m, b, 0, n) <=> Opens(pr, m, b, 0, n - 1) \/ (b = o /\ pr[o].mc = m)
  <2> TAKE b \in DOMAIN pr
  <2>1. CASE pr[b].op = "begin" /\ pr[b].mc = m
    <3>1. NumberOf(pr, b) = n => b = o
      BY <2>1, NumberInjective, ProgramFacts
    <3>2. NumberOf(pr, b) \in Nat
      BY <1>2, <2>1
    <3> HIDE DEF n
    <3>3. NumberOf(pr, b) <= n <=> NumberOf(pr, b) <= n - 1 \/ NumberOf(pr, b) = n
      BY <1>1, <3>2
    <3>4. NumberOf(pr, b) = n <=> b = o
      BY <3>1 DEF n
    <3>5. b = o => 0 < NumberOf(pr, b)
      BY <1>1, <3>4
    <3>6. QED
      BY <2>1, <3>3, <3>4, <3>5 DEF Opens
  <2>2. QED
    BY <2>1 DEF Opens
<1> HIDE DEF n
<1>4. CASE pr[o].mc = m
  <2>1. Items(pr, m, n) = Items(pr, m, n - 1) \cup ItemsOf(pr, o)
    BY <1>3, <1>4 DEF Items, ItemsOf
  <2>2. Items(pr, m, n - 1) \cap ItemsOf(pr, o) = {}
    <3>1. ~ Opens(pr, m, o, 0, n - 1)
      BY <1>1 DEF Opens, n
    <3>2. QED
      BY <3>1 DEF Items, ItemsOf
  <2>3. IsFiniteSet(ItemsOf(pr, o)) /\ Cardinality(ItemsOf(pr, o)) = Len(pr[o].ids)
    <3>1. PICK l \in Nat : l = Len(pr[o].ids)
      BY ProgramFacts
    <3>2. IsFiniteSet(1 .. l) /\ Cardinality(1 .. l) = l
      BY FS_Interval
    <3>3. IsFiniteSet({o}) /\ Cardinality({o}) = 1
      BY FS_Singleton
    <3>4. PICK A, B : A = {o} /\ B = 1 .. l
      OBVIOUS
    <3>5. IsFiniteSet(A \X B) /\ Cardinality(A \X B) = Cardinality(A) * Cardinality(B)
      BY ONLY <3>2, <3>3, <3>4, FS_Product
    <3>6. Cardinality(A \X B) = 1 * l
      BY <3>2, <3>3, <3>4, <3>5
    <3>7. QED
      BY <3>1, <3>4, <3>5, <3>6 DEF ItemsOf
  <2>4. /\ IsFiniteSet(Items(pr, m, n - 1)) /\ Cardinality(Items(pr, m, n - 1)) \in Nat
        /\ Len(pr[o].ids) \in Nat
    BY ItemsFinite, ProgramFacts DEF Size
  <2>5. PICK A, B : A = Items(pr, m, n - 1) /\ B = ItemsOf(pr, o)
    OBVIOUS
  <2>6. /\ IsFiniteSet(A) /\ IsFiniteSet(B) /\ Cardinality(A \cap B) = 0
        /\ Cardinality(A) \in Nat /\ Cardinality(B) \in Nat
    BY <2>2, <2>3, <2>4, <2>5, FS_EmptySet
  <2>7. Cardinality(A \cup B) = Cardinality(A) + Cardinality(B) - Cardinality(A \cap B)
    BY <2>6, FS_Union
  <2>8. Cardinality(A \cup B) = Cardinality(A) + Cardinality(B)
    BY <2>6, <2>7
  <2>9. Size(pr, m, n) = Size(pr, m, n - 1) + Len(pr[o].ids)
    BY <2>1, <2>3, <2>5, <2>8 DEF Size
  <2>10. QED
    BY <1>1, <1>4, <2>9 DEF n
<1>5. CASE pr[o].mc # m
  <2>1. Items(pr, m, n) = Items(pr, m, n - 1)
    BY <1>3, <1>5 DEF Items
  <2>2. QED
    BY <1>1, <1>5, <2>1, ItemsFinite DEF Size, n
<1>6. QED
  BY <1>4, <1>5

(* More openings have no fewer values.                                    *)
LEMMA SizeGrows ==
  ASSUME NEW pr, Program(pr), NEW m, NEW j \in Nat, NEW k \in Nat, j <= k
  PROVE  Size(pr, m, j) <= Size(pr, m, k)
<1>1. \A o \in DOMAIN pr : Opens(pr, m, o, 0, j) => Opens(pr, m, o, 0, k)
  <2> TAKE o \in DOMAIN pr
  <2>1. pr[o].op = "begin" => NumberOf(pr, o) \in Nat
    BY NumberIs, ProgramFacts
  <2>2. QED
    BY <2>1 DEF Opens
<1>2. Items(pr, m, j) \subseteq Items(pr, m, k)
  BY <1>1 DEF Items
<1>3. QED
  BY <1>2, ItemsFinite, FS_Subset DEF Size

(* Where no opening is, sizes are the same.                                 *)
LEMMA SizeSame ==
  ASSUME NEW pr, Program(pr), NEW m, NEW j \in Nat, NEW k \in Nat, j <= k,
         \A o \in DOMAIN pr : ~ Opens(pr, m, o, j, k)
  PROVE  Size(pr, m, j) = Size(pr, m, k)
<1>1. \A o \in DOMAIN pr : Opens(pr, m, o, 0, j) <=> Opens(pr, m, o, 0, k)
  <2> TAKE o \in DOMAIN pr
  <2>1. pr[o].op = "begin" => NumberOf(pr, o) \in Nat
    BY NumberIs, ProgramFacts
  <2>2. QED
    BY <2>1 DEF Opens
<1>2. Items(pr, m, j) = Items(pr, m, k)
  BY <1>1 DEF Items
<1>3. QED
  BY <1>2 DEF Size

(* The place of an opening under way is among those of all under way.       *)
LEMMA PlaceFacts ==
  ASSUME NEW pr, Program(pr), NEW m, NEW o, NEW e \in Nat, NEW b \in Nat, NEW cnt \in Nat,
         Opens(pr, m, o, e, b)
  PROVE  /\ Place(pr, m, o, e, cnt) \in Nat /\ cnt <= Place(pr, m, o, e, cnt)
         /\ Len(pr[o].ids) \in Nat
         /\ Place(pr, m, o, e, cnt) + Len(pr[o].ids) <= (cnt + Size(pr, m, b)) - Size(pr, m, e)
         /\ NumberOf(pr, o) = e + 1 => Place(pr, m, o, e, cnt) = cnt
<1>1. o \in DOMAIN pr /\ pr[o].op = "begin" /\ pr[o].mc = m
  BY DEF Opens
<1>2. PICK n \in Nat : n = NumberOf(pr, o) /\ n - 1 \in Nat /\ e <= n - 1 /\ n <= b
  <2>1. NumberOf(pr, o) \in Nat /\ NumberOf(pr, o) >= 1
    BY <1>1, NumberIs, ProgramFacts
  <2>2. e < NumberOf(pr, o) /\ NumberOf(pr, o) <= b
    BY DEF Opens
  <2>3. QED
    BY <2>1, <2>2
<1>3. Len(pr[o].ids) \in Nat
  BY <1>1, ProgramFacts
<1>4. /\ Size(pr, m, e) <= Size(pr, m, n - 1) /\ Size(pr, m, n) <= Size(pr, m, b)
      /\ Size(pr, m, n) = Size(pr, m, n - 1) + Len(pr[o].ids)
  BY <1>1, <1>2, SizeGrows, SizeStep
<1>5. /\ Size(pr, m, e) \in Nat /\ Size(pr, m, n - 1) \in Nat /\ Size(pr, m, n) \in Nat
      /\ Size(pr, m, b) \in Nat
  BY ItemsFinite
<1>6. Place(pr, m, o, e, cnt) = (cnt + Size(pr, m, n - 1)) - Size(pr, m, e)
  BY <1>2 DEF Place
<1>7. n = e + 1 => n - 1 = e
  BY <1>2
<1>8. PICK se, sn, sb, l, pl :
        /\ se = Size(pr, m, e) /\ sn = Size(pr, m, n - 1) /\ sb = Size(pr, m, b)
        /\ l = Len(pr[o].ids) /\ pl = Place(pr, m, o, e, cnt)
  OBVIOUS
<1>9. /\ se \in Nat /\ sn \in Nat /\ sb \in Nat /\ l \in Nat
      /\ se <= sn /\ sn + l <= sb /\ pl = (cnt + sn) - se
  BY <1>3, <1>4, <1>5, <1>6, <1>8
<1>10. n = e + 1 => sn = se
  BY <1>7, <1>8
<1>11. pl \in Nat /\ cnt <= pl /\ pl + l <= (cnt + sb) - se /\ (sn = se => pl = cnt)
  BY <1>9
<1>12. QED
  BY <1>2, <1>8, <1>9, <1>10, <1>11

-----------------------------------------------------------------------------
(* Remainders.                                                             *)

(* Division with remainder.                                               *)
LEMMA Remainder ==
  ASSUME NEW a \in Nat, NEW s \in Nat, s >= 1
  PROVE  a % s \in 0 .. s - 1 /\ \E k \in Nat, m \in Nat : a = s * k + m /\ m = a % s /\ m < s
<1>1. a % s \in 0 .. s - 1 /\ a \div s \in Nat
  OBVIOUS
<1>2. PICK m \in Nat, k \in Nat : m = a % s /\ k = a \div s
  BY <1>1
<1>3. a = s * k + m
  BY <1>2, SMTT(30)
<1>4. m < s
  BY <1>1, <1>2
<1>5. \E j \in Nat, n \in Nat : a = s * j + n /\ n = a % s /\ n < s
  <2> WITNESS k \in Nat, m \in Nat
  <2>1. QED
    BY <1>2, <1>3, <1>4, Zenon
<1>6. QED
  BY <1>1, <1>5

(* Quotient and remainder are unique.                                     *)
LEMMA RemainderIs ==
  ASSUME NEW a \in Nat, NEW s \in Nat, s >= 1, NEW k \in Nat, NEW m \in Nat, m < s, a = s * k + m
  PROVE  a % s = m
BY SMTT(30)

(* A number below the divisor is its own remainder.                       *)
LEMMA RemainderSmall ==
  ASSUME NEW a \in Nat, NEW s \in Nat, a < s
  PROVE  a % s = a
OBVIOUS

(* Numbers s apart have one remainder, and no number between them has it.   *)
LEMMA RemainderNext ==
  ASSUME NEW a \in Nat, NEW s \in Nat, s >= 1
  PROVE  (a + s) % s = a % s
<1>1. PICK k \in Nat, m \in Nat : a = s * k + m /\ m = a % s /\ m < s
  BY Remainder, Zenon
<1>2. a + s = s * (k + 1) + m
  BY <1>1
<1>3. a + s \in Nat /\ k + 1 \in Nat
  BY <1>1
<1>4. (a + s) % s = m
  BY <1>1, <1>2, <1>3, RemainderIs, Zenon
<1>5. QED
  BY <1>1, <1>4

(* Two numbers less than the divisor apart with one remainder are equal.  *)
LEMMA RemainderApart ==
  ASSUME NEW a \in Nat, NEW b \in Nat, NEW s \in Nat, s >= 1, a <= b, b < a + s, a % s = b % s
  PROVE  a = b
<1>1. PICK k \in Nat, m \in Nat : a = s * k + m /\ m = a % s /\ m < s
  BY Remainder, Zenon
<1>2. PICK j \in Nat, n \in Nat : b = s * j + n /\ n = b % s /\ n < s
  BY Remainder, Zenon
<1>3. n = m
  BY <1>1, <1>2
<1>4. PICK x, y : x = s * k /\ y = s * j
  OBVIOUS
<1>5. x \in Int /\ y \in Int
  BY <1>4
<1>6. x <= y /\ y < x + s
  BY <1>1, <1>2, <1>3, <1>4, <1>5
<1>7. CASE j < k
  <2>1. PICK d \in Nat : k = j + 1 + d
    <3>1. k - j - 1 \in Nat /\ k = j + 1 + (k - j - 1)
      BY <1>7
    <3>2. QED
      BY <3>1
  <2>2. x = y + s + s * d /\ s * d \in Nat
    BY <1>4, <2>1
  <2>3. QED
    BY <1>5, <1>6, <2>2
<1>8. CASE j > k
  <2>1. PICK d \in Nat : j = k + 1 + d
    <3>1. j - k - 1 \in Nat /\ j = k + 1 + (j - k - 1)
      BY <1>8
    <3>2. QED
      BY <3>1
  <2>2. y = x + s + s * d /\ s * d \in Nat
    BY <1>4, <2>1
  <2>3. QED
    BY <1>5, <1>6, <2>2
<1>9. QED
  BY <1>1, <1>2, <1>3, <1>7, <1>8

-----------------------------------------------------------------------------
(* The rounds of the sum.                                                  *)

(* At least halved by each round.                                           *)
LEMMA SumPlayersFacts ==
  ASSUME NEW last \in Nat, last > 1
  PROVE  /\ SumPlayers(last) \in Nat /\ SumPlayers(last) >= 1
         /\ SumPlayers(last) + SumPlayers(last) <= last
         /\ SumPlayers(last) < last
<1>1. OpeningSum \in Nat /\ OpeningSum >= 2 /\ last - 2 + OpeningSum \in Nat
  BY SizeAssumption
<1>2. PICK a \in Nat : a = last - 2 + OpeningSum
  BY <1>1
<1>3. PICK d : d = a \div OpeningSum
  OBVIOUS
<1>4. d \in Nat /\ OpeningSum * d <= a /\ a < OpeningSum * d + OpeningSum
  BY <1>1, <1>3
<1>5. d >= 1 /\ d + d <= last
  BY <1>1, <1>2, <1>4
<1>6. SumPlayers(last) = d
  BY <1>2, <1>3 DEF SumPlayers
<1>7. QED
  BY <1>4, <1>5, <1>6

(* Iterating a function: the first n steps, and all of them.                *)
Iterates(g, S, s0, step, n) ==
  g \in [0 .. n -> S] /\ g[0] = s0 /\ \A k \in 1 .. n : g[k] = step[g[k - 1]]

(* There is an iterate of every length.                                   *)
LEMMA IteratesExist ==
  ASSUME NEW S, NEW s0 \in S, NEW step \in [S -> S]
  PROVE  \A n \in Nat : \E g : Iterates(g, S, s0, step, n)
<1> DEFINE Bad == {n \in Nat : ~ \E g : Iterates(g, S, s0, step, n)}
<1>1. SUFFICES ASSUME Bad # {} PROVE FALSE
  OBVIOUS
<1>2. PICK n \in Bad : \A k \in Bad : n <= k
  <2>1. Bad \subseteq Nat
    OBVIOUS
  <2> HIDE DEF Bad
  <2>2. QED
    BY <1>1, <2>1, LeastNatural
<1>3. n # 0
  <2>1. Iterates([k \in 0 .. 0 |-> s0], S, s0, step, 0)
    BY DEF Iterates
  <2>2. QED
    BY <2>1
<1>4. n - 1 \in Nat /\ n \in Nat
  BY <1>3
<1>5. n - 1 \notin Bad
  <2> HIDE DEF Bad
  <2>1. QED
    BY <1>2, <1>4
<1>6. PICK g : Iterates(g, S, s0, step, n - 1)
  BY <1>4, <1>5
<1>7. PICK h : h = [k \in 0 .. n |-> IF k = n THEN step[g[n - 1]] ELSE g[k]]
  OBVIOUS
<1>8. Iterates(h, S, s0, step, n)
  <2>1. g[n - 1] \in S /\ \A k \in 0 .. n : k # n => k \in 0 .. n - 1 /\ g[k] \in S
    BY <1>4, <1>6 DEF Iterates
  <2>2. h \in [0 .. n -> S]
    BY <1>7, <2>1
  <2>3. h[0] = s0
    BY <1>4, <1>3, <1>6, <1>7 DEF Iterates
  <2>4. ASSUME NEW k \in 1 .. n PROVE h[k] = step[h[k - 1]]
    <3>1. h[k - 1] = g[k - 1]
      BY <1>4, <1>7
    <3>2. CASE k = n
      BY <1>4, <1>7, <3>1, <3>2
    <3>3. CASE k # n
      BY <1>4, <1>6, <1>7, <3>1, <3>3 DEF Iterates
    <3>4. QED
      BY <3>2, <3>3
  <2>5. QED
    BY <2>2, <2>3, <2>4 DEF Iterates
<1>9. QED
  BY <1>8

(* Iterates agree where both are defined.                                 *)
LEMMA IteratesAgree ==
  ASSUME NEW S, NEW s0 \in S, NEW step \in [S -> S], NEW n \in Nat, NEW m \in Nat, n <= m,
         NEW g, NEW h, Iterates(g, S, s0, step, n), Iterates(h, S, s0, step, m)
  PROVE  g[n] = h[n]
<1> DEFINE Bad == {k \in 0 .. n : g[k] # h[k]}
<1>1. SUFFICES ASSUME Bad # {} PROVE FALSE
  OBVIOUS
<1>2. PICK k \in Bad : \A j \in Bad : k <= j
  <2>1. Bad \subseteq Nat
    OBVIOUS
  <2> HIDE DEF Bad
  <2>2. QED
    BY <1>1, <2>1, LeastNatural
<1>3. k # 0
  BY DEF Iterates
<1>4. k \in 1 .. n /\ k \in 1 .. m /\ k - 1 \in 0 .. n
  BY <1>3
<1>5. k - 1 \notin Bad
  <2>1. ~ (k <= k - 1)
    BY <1>4
  <2> HIDE DEF Bad
  <2>2. QED
    BY <1>2, <2>1
<1>6. g[k - 1] = h[k - 1]
  BY <1>4, <1>5
<1>7. g[k] = h[k]
  BY <1>4, <1>6 DEF Iterates
<1>8. QED
  BY <1>7

(* So a function on the naturals exists that iterates a step.             *)
LEMMA Iteration ==
  ASSUME NEW S, NEW s0 \in S, NEW step \in [S -> S]
  PROVE  \E f : f = [n \in Nat |-> IF n = 0 THEN s0 ELSE step[f[n - 1]]] /\ f \in [Nat -> S]
<1> DEFINE G(n) == CHOOSE g : Iterates(g, S, s0, step, n)
<1>1. \A n \in Nat : Iterates(G(n), S, s0, step, n)
  BY IteratesExist
<1> HIDE DEF G
<1>2. PICK f : f = [n \in Nat |-> G(n)[n]]
  OBVIOUS
<1>3. \A n \in Nat : f[n] \in S
  BY <1>1, <1>2 DEF Iterates
<1>4. f[0] = s0
  BY <1>1, <1>2 DEF Iterates
<1>5. ASSUME NEW n \in Nat, n # 0 PROVE f[n] = step[f[n - 1]]
  <2>1. n - 1 \in Nat /\ n - 1 <= n /\ n \in 1 .. n
    BY <1>5
  <2>2. G(n)[n] = step[G(n)[n - 1]]
    BY <1>1, <2>1 DEF Iterates
  <2>3. G(n - 1)[n - 1] = G(n)[n - 1]
    BY <1>1, <2>1, IteratesAgree
  <2>4. QED
    BY <1>2, <2>1, <2>2, <2>3
<1>6. f = [n \in Nat |-> IF n = 0 THEN s0 ELSE step[f[n - 1]]]
  <2>1. PICK h : h = [n \in Nat |-> IF n = 0 THEN s0 ELSE step[f[n - 1]]]
    OBVIOUS
  <2>2. \A n \in Nat : f[n] = h[n]
    BY <1>4, <1>5, <2>1
  <2>3. f = h
    BY <1>2, <2>1, <2>2
  <2>4. QED
    BY <2>1, <2>3
<1>7. f \in [Nat -> S]
  BY <1>2, <1>3
<1>8. QED
  BY <1>6, <1>7

(* The type of a level, and the first.                                    *)
Levels == [last: 1 .. N, holder: [Player -> Nat]]
TopLevel == [last |-> N, holder |-> [x \in Player |-> x]]

(* A round leaves the types of a level, and does what it says while more  *)
(* than one player holds sums.                                            *)
LEMMA LowerLevel ==
  ASSUME NEW l \in Levels
  PROVE  /\ Lower(l) \in Levels
         /\ l.last > 1 => /\ Lower(l).last = SumPlayers(l.last)
                          /\ \A x \in Player : Lower(l).holder[x] = l.holder[x] % SumPlayers(l.last)
<1>1. l.last \in 1 .. N /\ l.holder \in [Player -> Nat] /\ N \in Nat
  BY SizeAssumption DEF Levels
<1>2. CASE l.last = 1
  BY <1>2 DEF Lower
<1>3. CASE l.last # 1
  <2>1. PICK s : s = SumPlayers(l.last)
    OBVIOUS
  <2>2. l.last \in Nat /\ l.last > 1
    BY <1>1, <1>3
  <2>3. s \in Nat /\ s >= 1 /\ s < l.last
    BY <2>1, <2>2, SumPlayersFacts
  <2>4. \A x \in Player : l.holder[x] % s \in Nat
    <3> TAKE x \in Player
    <3>1. l.holder[x] \in Nat
      BY <1>1
    <3>2. QED
      BY <2>3, <3>1, Remainder
  <2>5. s \in 1 .. N
    BY <1>1, <2>3
  <2>6. [x \in Player |-> l.holder[x] % s] \in [Player -> Nat]
    BY <2>4
  <2>7. Lower(l) = [last |-> s, holder |-> [x \in Player |-> l.holder[x] % s]]
    BY <1>3, <2>1 DEF Lower
  <2>8. QED
    BY <2>1, <2>5, <2>6, <2>7 DEF Levels
<1>4. QED
  BY <1>2, <1>3

(* The levels are defined: each is the round after the one before.        *)
LEMMA LevelSteps ==
  /\ \A r \in Nat : Level[r] \in Levels
  /\ Level[0] = TopLevel
  /\ \A r \in Nat : Level[r + 1] = Lower(Level[r])
<1> DEFINE Rec(f) == f = [r \in Nat |-> IF r = 0 THEN TopLevel ELSE Lower(f[r - 1])]
<1>1. PICK step : step = [l \in Levels |-> Lower(l)]
  OBVIOUS
<1>2. step \in [Levels -> Levels]
  BY <1>1, LowerLevel
<1>3. TopLevel \in Levels
  BY SizeAssumption DEF TopLevel, Levels, Player
<1>4. PICK f : f = [n \in Nat |-> IF n = 0 THEN TopLevel ELSE step[f[n - 1]]] /\ f \in [Nat -> Levels]
  BY <1>2, <1>3, Iteration
<1>5. Rec(f)
  <2>1. \A n \in Nat : n # 0 => n - 1 \in Nat /\ step[f[n - 1]] = Lower(f[n - 1])
    BY <1>1, <1>4
  <2>2. PICK h : h = [r \in Nat |-> IF r = 0 THEN TopLevel ELSE Lower(f[r - 1])]
    OBVIOUS
  <2>3. \A n \in Nat : f[n] = h[n]
    BY <1>4, <2>1, <2>2
  <2>4. f = h
    BY <1>4, <2>2, <2>3
  <2>5. QED
    BY <2>2, <2>4
<1>6. Level = CHOOSE g : Rec(g)
  BY DEF Level, TopLevel
<1>7. Rec(Level)
  BY <1>5, <1>6
<1>8. \A r \in Nat : Level[r] = IF r = 0 THEN TopLevel ELSE Lower(Level[r - 1])
  BY <1>7
<1>9. Level[0] = TopLevel
  BY <1>8
<1>10. \A r \in Nat : Level[r + 1] = Lower(Level[r])
  <2> TAKE r \in Nat
  <2>1. r + 1 \in Nat /\ r + 1 # 0 /\ (r + 1) - 1 = r
    OBVIOUS
  <2>2. QED
    BY <1>8, <2>1
<1> DEFINE Bad == {r \in Nat : Level[r] \notin Levels}
<1>11. Bad = {}
  <2>1. SUFFICES ASSUME Bad # {} PROVE FALSE
    OBVIOUS
  <2>2. PICK m \in Bad : \A k \in Bad : m <= k
    <3>1. Bad \subseteq Nat
      OBVIOUS
    <3> HIDE DEF Bad
    <3>2. QED
      BY <2>1, <3>1, LeastNatural
  <2>3. m # 0
    BY <1>3, <1>9
  <2>4. m - 1 \in Nat /\ ~ (m <= m - 1) /\ m \in Nat
    BY <2>3
  <2>5. m - 1 \notin Bad
    <3> HIDE DEF Bad
    <3>1. QED
      BY <2>2, <2>4
  <2>6. Level[m - 1] \in Levels
    BY <2>4, <2>5
  <2>7. Level[m] = Lower(Level[m - 1])
    BY <1>8, <2>3, <2>4
  <2>8. QED
    BY <2>6, <2>7, LowerLevel
<1>12. QED
  BY <1>9, <1>10, <1>11


(* How many players hold sums in a round, and the next one.                 *)
LEMMA LevelFacts ==
  ASSUME NEW r \in Nat
  PROVE  /\ Level[r].last \in Nat /\ Level[r].last >= 1 /\ Level[r].last <= N
         /\ \A x \in Player : Level[r].holder[x] \in Nat
         /\ Level[r].last = 1 => Level[r + 1] = Level[r]
         /\ Level[r].last > 1 =>
              /\ Level[r + 1].last = SumPlayers(Level[r].last)
              /\ \A x \in Player : Level[r + 1].holder[x] = Level[r].holder[x] % SumPlayers(Level[r].last)
<1>1. Level[r] \in Levels /\ Level[r + 1] = Lower(Level[r])
  BY LevelSteps
<1>2. Level[r].last \in 1 .. N /\ Level[r].holder \in [Player -> Nat] /\ N \in Nat
  BY <1>1, SizeAssumption DEF Levels
<1>3. Level[r].last = 1 => Level[r + 1] = Level[r]
  BY <1>1 DEF Lower
<1>4. QED
  BY <1>1, <1>2, <1>3, LowerLevel

(* A round leaves at most half of the players.                            *)
LEMMA LevelLess ==
  ASSUME NEW r \in Nat, Level[r].last > 1
  PROVE  /\ r + 1 \in Nat
         /\ Level[r + 1].last = SumPlayers(Level[r].last)
         /\ SumPlayers(Level[r].last) \in Nat /\ SumPlayers(Level[r].last) >= 1
         /\ SumPlayers(Level[r].last) + SumPlayers(Level[r].last) <= Level[r].last
         /\ SumPlayers(Level[r].last) < Level[r].last
<1>1. Level[r].last \in Nat /\ Level[r + 1].last = SumPlayers(Level[r].last)
  BY LevelFacts
<1>2. QED
  BY <1>1, SumPlayersFacts

(* A player that holds a sum holds its own share; all hold theirs.          *)
LEMMA HolderFacts ==
  ASSUME NEW r \in Nat
  PROVE  /\ \A x \in Player : Level[r].holder[x] < Level[r].last
         /\ \A q \in Player : q < Level[r].last => Level[r].holder[q] = q
<1> DEFINE Good(k) == /\ \A x \in Player : Level[k].holder[x] < Level[k].last
                      /\ \A q \in Player : q < Level[k].last => Level[k].holder[q] = q
           Bad == {k \in Nat : ~ Good(k)}
<1>1. SUFFICES ASSUME Bad # {} PROVE FALSE
  OBVIOUS
<1>2. PICK k \in Bad : \A j \in Bad : k <= j
  <2>1. Bad \subseteq Nat
    OBVIOUS
  <2> HIDE DEF Bad
  <2>2. QED
    BY <1>1, <2>1, LeastNatural
<1>3. Good(0)
  <2>1. Level[0].last = N /\ \A x \in Player : Level[0].holder[x] = x /\ x < N
    BY LevelSteps, SizeAssumption DEF TopLevel, Player
  <2>2. QED
    BY <2>1
<1> HIDE DEF Good
<1>4. k \in Nat /\ k # 0 /\ ~ Good(k)
  BY <1>3
<1>5. PICK j \in Nat : k = j + 1
  <2>1. k - 1 \in Nat /\ k = (k - 1) + 1
    BY <1>4
  <2>2. QED
    BY <2>1
<1>6. Good(j)
  <2>1. ~ (k <= j)
    BY <1>5
  <2>2. j \notin Bad
    <3> HIDE DEF Bad
    <3>1. QED
      BY <1>2, <2>1
  <2>3. QED
    BY <2>2
<1>7. Good(j + 1)
  <2>1. CASE Level[j].last = 1
    BY <1>6, <2>1, LevelFacts DEF Good
  <2>2. CASE Level[j].last > 1
    <3>1. PICK s : s = SumPlayers(Level[j].last)
      OBVIOUS
    <3>2. /\ Level[j + 1].last = s
          /\ \A x \in Player : Level[j + 1].holder[x] = Level[j].holder[x] % s
      BY <2>2, <3>1, LevelFacts
    <3>3. s \in Nat /\ s >= 1 /\ s < Level[j].last /\ Level[j].last \in Nat
      BY <2>2, <3>1, LevelLess, LevelFacts
    <3>4. ASSUME NEW x \in Player PROVE Level[j].holder[x] % s < s
      <4>1. Level[j].holder[x] \in Nat
        BY LevelFacts
      <4>2. QED
        BY <3>3, <4>1, Remainder
    <3>5. ASSUME NEW q \in Player, q < s PROVE Level[j].holder[q] % s = q
      <4>1. q \in Nat /\ q < Level[j].last
        BY <3>3, <3>5, SizeAssumption DEF Player
      <4>2. Level[j].holder[q] = q
        BY <1>6, <4>1 DEF Good
      <4>3. QED
        BY <3>3, <3>5, <4>1, <4>2, RemainderSmall
    <3>6. QED
      BY <3>2, <3>4, <3>5 DEF Good
  <2>3. Level[j].last = 1 \/ Level[j].last > 1
    BY LevelFacts
  <2>4. QED
    BY <2>1, <2>2, <2>3
<1>8. QED
  BY <1>4, <1>5, <1>7

(* Fewer and fewer players hold sums.                                      *)
LEMMA LevelsFall ==
  ASSUME NEW r \in Nat, NEW k \in Nat, r < k, Level[r].last > 1
  PROVE  Level[k].last <= SumPlayers(Level[r].last)
<1> DEFINE Bad == {j \in Nat : r < j /\ ~ (Level[j].last <= SumPlayers(Level[r].last))}
<1>1. SUFFICES ASSUME Bad # {} PROVE FALSE
  OBVIOUS
<1>2. PICK b \in Bad : \A j \in Bad : b <= j
  <2>1. Bad \subseteq Nat
    OBVIOUS
  <2> HIDE DEF Bad
  <2>2. QED
    BY <1>1, <2>1, LeastNatural
<1>3. b \in Nat /\ r < b /\ ~ (Level[b].last <= SumPlayers(Level[r].last))
  OBVIOUS
<1>4. PICK j \in Nat : b = j + 1
  <2>1. b - 1 \in Nat /\ b = (b - 1) + 1
    BY <1>3
  <2>2. QED
    BY <2>1
<1>5. Level[r + 1].last = SumPlayers(Level[r].last) /\ SumPlayers(Level[r].last) \in Nat
  BY LevelLess
<1>6. r < j
  <2>1. SUFFICES ASSUME j = r PROVE FALSE
    BY <1>3, <1>4
  <2>2. QED
    BY <1>3, <1>4, <1>5, <2>1
<1>7. Level[j].last <= SumPlayers(Level[r].last)
  <2>1. ~ (b <= j)
    BY <1>4
  <2>2. j \notin Bad
    <3> HIDE DEF Bad
    <3>1. QED
      BY <1>2, <2>1
  <2>3. QED
    BY <1>6, <2>2
<1>8. Level[j + 1].last <= Level[j].last
  BY LevelFacts, LevelLess
<1>9. Level[j].last \in Nat /\ Level[j + 1].last \in Nat
  BY LevelFacts
<1>10. QED
  BY <1>3, <1>4, <1>5, <1>7, <1>8, <1>9

(* The round in which a player passes its sum on, and the round of a number *)
(* of players, are unique.                                                 *)
LEMMA RoundUnique ==
  ASSUME NEW r \in Nat, NEW k \in Nat
  PROVE  /\ Level[r].last > 1 /\ Level[k].last = Level[r].last => r = k
         /\ \A q \in Nat : PassesIn(q, r) /\ PassesIn(q, k) => r = k
<1>1. /\ Level[r].last \in Nat /\ Level[k].last \in Nat
      /\ Level[r].last > 1 => SumPlayers(Level[r].last) \in Nat /\ SumPlayers(Level[r].last) < Level[r].last
      /\ Level[k].last > 1 => SumPlayers(Level[k].last) \in Nat /\ SumPlayers(Level[k].last) < Level[k].last
  BY LevelFacts, LevelLess
<1>2. /\ r < k /\ Level[r].last > 1 => Level[k].last <= SumPlayers(Level[r].last)
      /\ k < r /\ Level[k].last > 1 => Level[r].last <= SumPlayers(Level[k].last)
  BY LevelsFall
<1>3. Level[r].last > 1 /\ Level[k].last = Level[r].last => r = k
  BY <1>1, <1>2
<1>4. ASSUME NEW q \in Nat, PassesIn(q, r), PassesIn(q, k) PROVE r = k
  BY <1>1, <1>2, <1>4 DEF PassesIn
<1>5. QED
  BY <1>3, <1>4

-----------------------------------------------------------------------------
(* Whose shares are in a sum.                                              *)

(* Whose shares q holds before round r.                                   *)
Holders(q, r) == {x \in Player : Level[r].holder[x] = q}

(* Players are numbers from 0 to N - 1.                                   *)
LEMMA PlayerFacts ==
  ASSUME NEW p \in Player
  PROVE  p \in Nat /\ p < N /\ N \in Nat /\ N >= 2 /\ 0 \in Player
BY SizeAssumption DEF Player

(* Who passes its sum on has it from those who hold it in that round.       *)
LEMMA PartIs ==
  ASSUME NEW r \in Nat, NEW q \in Nat, PassesIn(q, r)
  PROVE  Part(q) = Holders(q, r)
BY RoundUnique DEF Part, Holders

(* Partial, in the round that it belongs to.                              *)
LEMMA PartialIs ==
  ASSUME NEW r \in Nat, Level[r].last > 1, NEW p, NEW i
  PROVE  Partial(p, i, Level[r].last) =
           {x \in Player : Level[r].holder[x] < i /\ Level[r].holder[x] % SumPlayers(Level[r].last) = p}
BY RoundUnique DEF Partial

(* At the start of a round a player holds its own sum.                      *)
LEMMA PartialStarts ==
  ASSUME NEW r \in Nat, Level[r].last > 1, NEW p \in Nat, p < SumPlayers(Level[r].last)
  PROVE  Partial(p, p + SumPlayers(Level[r].last), Level[r].last) = Holders(p, r)
<1>1. PICK s : s = SumPlayers(Level[r].last)
  OBVIOUS
<1>2. s \in Nat /\ s >= 1 /\ p < s
  BY <1>1, LevelLess
<1>3. ASSUME NEW x \in Player
      PROVE  Level[r].holder[x] < p + s /\ Level[r].holder[x] % s = p <=> Level[r].holder[x] = p
  <2>1. PICK h \in Nat : h = Level[r].holder[x]
    BY LevelFacts
  <2>2. p % s = p
    BY <1>2, RemainderSmall
  <2>3. ASSUME h < p + s, h % s = p PROVE h = p
    <3>1. CASE h < s
      BY <1>2, <2>3, <3>1, RemainderSmall
    <3>2. CASE h >= s
      <4>1. p <= h
        BY <1>2, <3>2
      <4>2. QED
        BY <1>2, <2>2, <2>3, <4>1, RemainderApart
    <3>3. QED
      BY <1>2, <3>1, <3>2
  <2>4. h = p => h < p + s /\ h % s = p
    BY <1>2, <2>2
  <2>5. QED
    BY <2>1, <2>3, <2>4
<1>4. QED
  BY <1>1, <1>3, PartialIs DEF Holders

(* It adds the sum of another, s players on.                                *)
LEMMA PartialGrows ==
  ASSUME NEW r \in Nat, Level[r].last > 1, NEW p \in Nat, NEW i \in Nat,
         SumPlayers(Level[r].last) <= i, i < Level[r].last, i % SumPlayers(Level[r].last) = p
  PROVE  /\ PassesIn(i, r)
         /\ Partial(p, i, Level[r].last) \cap Part(i) = {}
         /\ Partial(p, i + SumPlayers(Level[r].last), Level[r].last) = Partial(p, i, Level[r].last) \cup Part(i)
<1>1. PICK s : s = SumPlayers(Level[r].last)
  OBVIOUS
<1>2. s \in Nat /\ s >= 1
  BY <1>1, LevelLess
<1>3. PassesIn(i, r)
  BY DEF PassesIn
<1>4. Part(i) = Holders(i, r)
  BY <1>3, PartIs
<1>5. ASSUME NEW x \in Player
      PROVE  /\ ~ (Level[r].holder[x] < i /\ Level[r].holder[x] = i)
             /\ Level[r].holder[x] < i + s /\ Level[r].holder[x] % s = p <=>
                  \/ Level[r].holder[x] < i /\ Level[r].holder[x] % s = p
                  \/ Level[r].holder[x] = i
  <2>1. PICK h \in Nat : h = Level[r].holder[x]
    BY LevelFacts
  <2>2. h >= i /\ h < i + s /\ h % s = p => h = i
    BY <1>1, <1>2, RemainderApart
  <2>3. h = i => h % s = p
    BY <1>1
  <2>4. ~ (h < i /\ h = i) /\ (h < i => h < i + s) /\ (h = i => h < i + s) /\ (h < i \/ h >= i)
    BY <1>2
  <2>5. QED
    BY <2>1, <2>2, <2>3, <2>4
<1>6. /\ Partial(p, i, Level[r].last) =
             {x \in Player : Level[r].holder[x] < i /\ Level[r].holder[x] % s = p}
      /\ Partial(p, i + s, Level[r].last) =
             {x \in Player : Level[r].holder[x] < i + s /\ Level[r].holder[x] % s = p}
      /\ Part(i) = {x \in Player : Level[r].holder[x] = i}
  BY <1>1, <1>4, PartialIs DEF Holders
<1>7. Partial(p, i, Level[r].last) \cap Part(i) = {}
  BY <1>5, <1>6
<1>8. Partial(p, i + s, Level[r].last) = Partial(p, i, Level[r].last) \cup Part(i)
  BY <1>5, <1>6
<1>9. QED
  BY <1>1, <1>3, <1>7, <1>8

(* At the end of a round it holds what it holds in the next one.            *)
LEMMA PartialEnds ==
  ASSUME NEW r \in Nat, Level[r].last > 1, NEW p \in Nat, NEW i \in Nat, Level[r].last <= i
  PROVE  Partial(p, i, Level[r].last) = Holders(p, r + 1)
<1>1. \A x \in Player : Level[r].holder[x] < Level[r].last /\ Level[r].holder[x] \in Nat
  BY HolderFacts, LevelFacts
<1>2. Level[r].last \in Nat
  BY LevelFacts
<1>3. \A x \in Player : Level[r].holder[x] < i
  BY <1>1, <1>2
<1>4. \A x \in Player : Level[r + 1].holder[x] = Level[r].holder[x] % SumPlayers(Level[r].last)
  BY LevelFacts
<1>5. QED
  BY <1>3, <1>4, PartialIs DEF Holders

(* What a player does in round r, if it holds a sum then; and which of      *)
(* those that send it theirs it has not heard yet.                         *)
LEMMA SumRoundFacts ==
  ASSUME NEW r \in Nat, NEW p \in Player, p < Level[r].last, NEW a, a = SumRound(p, Level[r].last)
  PROVE  /\ a.i \in Nat /\ a.last \in Nat /\ a = At(a.do, a.i, a.last)
         /\ \/ /\ Level[r].last = 1 /\ p = 0 /\ a = At("send", 1, 0)
               /\ Holders(p, r) = Player
            \/ /\ Level[r].last > 1 /\ a.do = "pass_up" /\ SumPlace(p, a)
               /\ Part(p) = Holders(p, r)
            \/ /\ Level[r].last > 1 /\ a.do = "add" /\ SumPlace(p, a)
               /\ Partial(p, a.i, a.last) = Holders(p, r)
         /\ \A q \in Player : p < q /\ Parent(q, p) => (Untaken(q, p, a) <=> q < Level[r].last)
<1>1. Level[r].last \in Nat /\ Level[r].last >= 1 /\ p \in Nat
  BY LevelFacts, PlayerFacts
<1>2. CASE Level[r].last = 1
  <2>1. p = 0
    BY <1>1, <1>2
  <2>2. a = At("send", 1, 0)
    BY <1>2 DEF SumRound
  <2>3. \A x \in Player : Level[r].holder[x] = 0
    BY <1>2, HolderFacts, LevelFacts
  <2>4. Holders(p, r) = Player
    BY <2>1, <2>3 DEF Holders
  <2>5. \A q \in Player : p < q => ~ (q < Level[r].last) /\ ~ Untaken(q, p, a)
    BY <1>2, <2>1, <2>2, PlayerFacts DEF Untaken, At
  <2>6. a.i \in Nat /\ a.last \in Nat /\ a = At(a.do, a.i, a.last)
    BY <2>2 DEF At
  <2>7. QED
    BY <1>2, <2>1, <2>2, <2>4, <2>5, <2>6
<1>3. CASE Level[r].last > 1
  <2>1. PICK s, l : s = SumPlayers(Level[r].last) /\ l = Level[r].last
    OBVIOUS
  <2>2. s \in Nat /\ s >= 1 /\ s + s <= l /\ l \in Nat /\ p < l /\ l > 1
    BY <1>1, <1>3, <2>1, LevelLess
  <2>3. CASE p >= s
    <3>1. a = At("pass_up", p % s, l)
      BY <1>3, <2>1, <2>2, <2>3 DEF SumRound
    <3>2. p % s \in Nat /\ p % s < s
      BY <1>1, <2>2, Remainder
    <3>3. a.i \in Nat /\ a.last \in Nat /\ a = At(a.do, a.i, a.last) /\ a.do = "pass_up"
      BY <2>2, <3>1, <3>2 DEF At
    <3>4. SumPlace(p, a)
      BY <2>1, <2>2, <2>3, <3>1 DEF SumPlace, At
    <3>5. PassesIn(p, r)
      BY <1>3, <2>1, <2>3 DEF PassesIn
    <3>6. Part(p) = Holders(p, r)
      BY <1>1, <3>5, PartIs
    <3>7. ASSUME NEW q \in Player, p < q, Parent(q, p), q < l PROVE FALSE
      <4>1. q \in Nat
        BY PlayerFacts
      <4>2. PICK k \in Nat : PassesIn(q, k) /\ p = q % SumPlayers(Level[k].last)
        BY <3>7 DEF Parent
      <4>3. PassesIn(q, r)
        BY <1>1, <1>3, <2>1, <2>2, <2>3, <3>7, <4>1 DEF PassesIn
      <4>4. k = r
        BY <4>1, <4>2, <4>3, RoundUnique
      <4>5. p < s
        BY <2>1, <2>2, <4>1, <4>2, <4>4, Remainder
      <4>6. QED
        BY <1>1, <2>2, <2>3, <4>5
    <3>8. \A q \in Player : p < q => ~ Untaken(q, p, a)
      BY <3>3, PlayerFacts DEF Untaken
    <3>9. QED
      BY <1>3, <2>1, <3>3, <3>4, <3>6, <3>7, <3>8
  <2>4. CASE p < s
    <3>1. a = At("add", p + s, l)
      BY <1>1, <1>3, <2>1, <2>2, <2>4 DEF SumRound
    <3>2. a.i = p + s /\ a.i \in Nat /\ a.last = l /\ a = At(a.do, a.i, a.last) /\ a.do = "add"
      BY <1>1, <2>2, <3>1 DEF At
    <3>3. p + s < l /\ s <= p + s /\ p + s \in Nat
      BY <1>1, <2>2, <2>4
    <3>4. (p + s) % s = p
      BY <1>1, <2>2, <2>4, RemainderNext, RemainderSmall
    <3>5. SumPlace(p, a)
      BY <2>1, <2>2, <2>4, <3>2, <3>3, <3>4 DEF SumPlace
    <3>6. Partial(p, a.i, a.last) = Holders(p, r)
      BY <1>1, <1>3, <2>1, <2>4, <3>2, PartialStarts
    <3>7. ASSUME NEW q \in Player, p < q, Parent(q, p), q < l, s <= q, q < p + s PROVE FALSE
      <4>1. q \in Nat
        BY PlayerFacts
      <4>2. PICK k \in Nat : PassesIn(q, k) /\ p = q % SumPlayers(Level[k].last)
        BY <3>7 DEF Parent
      <4>3. PassesIn(q, r)
        BY <1>3, <2>1, <3>7 DEF PassesIn
      <4>4. k = r
        BY <4>1, <4>2, <4>3, RoundUnique
      <4>5. p % s = q % s
        BY <1>1, <2>1, <2>2, <2>4, <4>2, <4>4, RemainderSmall
      <4>6. p <= q
        BY <1>1, <3>7, <4>1
      <4>7. p = q
        BY <1>1, <2>2, <3>7, <4>1, <4>5, <4>6, RemainderApart, Zenon
      <4>8. QED
        BY <1>1, <3>7, <4>7
    <3>8. \A q \in Player : p < q /\ Parent(q, p) => (Untaken(q, p, a) <=> q < l)
      <4> TAKE q \in Player
      <4> HAVE p < q /\ Parent(q, p)
      <4>1. Untaken(q, p, a) <=> q < l /\ ~ (s <= q /\ q < p + s)
        BY <2>1, <3>2 DEF Untaken
      <4>2. QED
        BY <3>7, <4>1
    <3>9. QED
      BY <1>3, <2>1, <2>2, <3>2, <3>5, <3>6, <3>8
  <2>5. QED
    BY <1>1, <2>2, <2>3, <2>4
<1>4. QED
  BY <1>1, <1>2, <1>3

(* Whose shares player p holds while it sums up in the tree.                *)
HeldInTree(p, a) ==
  CASE a.do = "add" -> Partial(p, a.i, a.last)
    [] a.do = "pass_up" -> Part(p)
    [] OTHER -> Player

(* One sum added: the next place, whose shares are then held, and that of *)
(* all others nothing has changed.                                        *)
LEMMA AddStep ==
  ASSUME NEW p \in Player, NEW a, a.do = "add", a.i \in Nat, a.last \in Nat, SumPlace(p, a),
         NEW b, b = IF a.i + SumPlayers(a.last) < a.last
                    THEN At("add", a.i + SumPlayers(a.last), a.last) ELSE SumRound(p, SumPlayers(a.last))
  PROVE  /\ a.i \in Player /\ p < a.i /\ Parent(a.i, p)
         /\ b.i \in Nat /\ b.last \in Nat /\ b = At(b.do, b.i, b.last)
         /\ (b.do \in {"add", "pass_up"} /\ SumPlace(p, b)) \/ (b = At("send", 1, 0) /\ p = 0)
         /\ Partial(p, a.i, a.last) \cap Part(a.i) = {}
         /\ HeldInTree(p, b) = Partial(p, a.i, a.last) \cup Part(a.i)
         /\ Untaken(a.i, p, a) /\ ~ Untaken(a.i, p, b)
         /\ \A q \in Player : p < q /\ Parent(q, p) /\ q # a.i => (Untaken(q, p, b) <=> Untaken(q, p, a))
<1>1. PICK r \in Nat : Level[r].last = a.last
  BY DEF SumPlace
<1>2. PICK s, l, i : s = SumPlayers(a.last) /\ l = a.last /\ i = a.i
  OBVIOUS
<1>3. l > 1 /\ p < s /\ s <= i /\ i < l /\ i % s = p
  BY <1>2 DEF SumPlace
<1>4. /\ s \in Nat /\ s >= 1 /\ s + s <= l /\ s < l /\ l \in Nat /\ i \in Nat /\ l <= N /\ N \in Nat /\ p \in Nat
      /\ Level[r].last = l /\ r + 1 \in Nat /\ Level[r + 1].last = s
  BY <1>1, <1>2, <1>3, LevelLess, LevelFacts, PlayerFacts
<1>5. i \in Player /\ p < i
  BY <1>3, <1>4 DEF Player
<1>6. /\ PassesIn(i, r)
      /\ Partial(p, i, l) \cap Part(i) = {}
      /\ Partial(p, i + s, l) = Partial(p, i, l) \cup Part(i)
  BY <1>1, <1>2, <1>3, <1>4, PartialGrows
<1>7. Parent(i, p)
  BY <1>1, <1>2, <1>3, <1>6 DEF Parent
<1>8. Untaken(i, p, a)
  BY <1>2, <1>3, <1>4, <1>5 DEF Untaken
<1>9. ASSUME NEW q \in Player, p < q, Parent(q, p), s <= q, q < l PROVE q % s = p /\ q \in Nat
  <2>1. q \in Nat
    BY PlayerFacts
  <2>2. PICK k \in Nat : PassesIn(q, k) /\ p = q % SumPlayers(Level[k].last)
    BY <1>9 DEF Parent
  <2>3. PassesIn(q, r)
    BY <1>1, <1>2, <1>3, <1>9 DEF PassesIn
  <2>4. k = r
    BY <2>1, <2>2, <2>3, RoundUnique
  <2>5. QED
    BY <1>1, <1>2, <2>1, <2>2, <2>4
<1>10. ASSUME NEW q \in Player, p < q, Parent(q, p), i <= q, q < i + s, q < l PROVE q = i
  <2>1. q \in Nat /\ s <= q
    BY <1>3, <1>4, <1>10, PlayerFacts
  <2>2. q % s = p
    BY <1>9, <1>10, <2>1
  <2>3. i % s = q % s
    BY <1>3, <2>2
  <2>4. QED
    BY <1>4, <1>10, <2>1, <2>3, RemainderApart, Zenon
<1>11. ASSUME NEW q \in Player, p < q PROVE Untaken(q, p, a) <=> q < l /\ ~ (s <= q /\ q < i)
  BY <1>2, <1>11 DEF Untaken
<1>12. CASE i + s < l
  <2>1. b = At("add", i + s, l)
    BY <1>2, <1>12
  <2>2. b.do = "add" /\ b.i = i + s /\ b.last = l
    BY <2>1 DEF At
  <2>3. b.i \in Nat /\ b.last \in Nat /\ b = At(b.do, b.i, b.last)
    BY <1>4, <2>1, <2>2
  <2>4. (i + s) % s = p
    BY <1>3, <1>4, RemainderNext
  <2>5. SumPlace(p, b)
    BY <1>1, <1>2, <1>3, <1>4, <1>12, <2>2, <2>4 DEF SumPlace
  <2>6. HeldInTree(p, b) = Partial(p, i, l) \cup Part(i)
    BY <1>6, <2>2 DEF HeldInTree
  <2>7. ASSUME NEW q \in Player, p < q PROVE Untaken(q, p, b) <=> q < l /\ ~ (s <= q /\ q < i + s)
    BY <1>2, <2>2, <2>7 DEF Untaken
  <2>8. ~ Untaken(i, p, b)
    BY <1>3, <1>4, <1>5, <2>7
  <2>9. ASSUME NEW q \in Player, p < q, Parent(q, p), q # i PROVE Untaken(q, p, b) <=> Untaken(q, p, a)
    <3>1. q \in Nat
      BY PlayerFacts
    <3>2. q < i => q < i + s
      BY <1>4, <3>1
    <3>3. i <= q /\ q < i + s => ~ (q < l)
      BY <1>10, <2>9
    <3>4. q < i \/ i <= q
      BY <1>4, <3>1
    <3>5. QED
      BY <1>11, <2>7, <2>9, <3>2, <3>3, <3>4
  <2>10. QED
    BY <1>2, <1>5, <1>6, <1>7, <1>8, <2>2, <2>3, <2>5, <2>6, <2>8, <2>9
<1>13. CASE ~ (i + s < l)
  <2>1. b = SumRound(p, Level[r + 1].last)
    BY <1>2, <1>4, <1>13
  <2>2. p < Level[r + 1].last
    BY <1>3, <1>4
  <2>3. /\ b.i \in Nat /\ b.last \in Nat /\ b = At(b.do, b.i, b.last)
        /\ \/ Level[r + 1].last = 1 /\ p = 0 /\ b = At("send", 1, 0) /\ Holders(p, r + 1) = Player
           \/ b.do = "pass_up" /\ SumPlace(p, b) /\ Part(p) = Holders(p, r + 1)
           \/ b.do = "add" /\ SumPlace(p, b) /\ Partial(p, b.i, b.last) = Holders(p, r + 1)
        /\ \A q \in Player : p < q /\ Parent(q, p) => (Untaken(q, p, b) <=> q < Level[r + 1].last)
    BY <1>4, <2>1, <2>2, SumRoundFacts
  <2>4. Partial(p, i + s, l) = Holders(p, r + 1)
    <3>1. i + s \in Nat /\ l <= i + s
      BY <1>4, <1>13
    <3>2. QED
      BY <1>3, <1>4, <3>1, PartialEnds
  <2>5. (b.do \in {"add", "pass_up"} /\ SumPlace(p, b)) \/ (b = At("send", 1, 0) /\ p = 0)
    BY <2>3
  <2>6. HeldInTree(p, b) = Partial(p, i, l) \cup Part(i)
    <3>1. CASE p = 0 /\ b = At("send", 1, 0) /\ Holders(p, r + 1) = Player
      BY <1>6, <2>4, <3>1 DEF HeldInTree, At
    <3>2. CASE b.do = "pass_up" /\ Part(p) = Holders(p, r + 1)
      BY <1>6, <2>4, <3>2 DEF HeldInTree
    <3>3. CASE b.do = "add" /\ Partial(p, b.i, b.last) = Holders(p, r + 1)
      BY <1>6, <2>4, <3>3 DEF HeldInTree
    <3>4. QED
      BY <2>3, <3>1, <3>2, <3>3
  <2>7. ~ Untaken(i, p, b)
    BY <1>3, <1>4, <1>5, <1>7, <2>3
  <2>8. ASSUME NEW q \in Player, p < q, Parent(q, p), q # i PROVE Untaken(q, p, b) <=> Untaken(q, p, a)
    <3>1. q \in Nat
      BY PlayerFacts
    <3>2. Untaken(q, p, b) <=> q < s
      BY <1>4, <2>3, <2>8
    <3>3. q < s => q < l
      BY <1>4, <3>1
    <3>4. q < l /\ s <= q => q < i
      <4>1. q < l => q < i + s
        BY <1>4, <1>13, <3>1
      <4>2. q < l => ~ (i <= q)
        BY <1>10, <2>8, <4>1
      <4>3. QED
        BY <1>4, <3>1, <4>2
    <3>5. s <= q \/ q < s
      BY <1>4, <3>1
    <3>6. ~ (s <= q /\ q < s)
      BY <1>4, <3>1
    <3>7. QED
      BY <1>11, <2>8, <3>2, <3>3, <3>4, <3>5, <3>6
  <2>9. QED
    BY <1>2, <1>5, <1>6, <1>7, <1>8, <2>3, <2>5, <2>6, <2>7, <2>8
<1>14. QED
  BY <1>12, <1>13

-----------------------------------------------------------------------------
(* The tree by which the sum comes back.                                   *)

(* The quotient, between its bounds.                                      *)
LEMMA Quotient ==
  ASSUME NEW a \in Nat, NEW s \in Nat, s >= 1
  PROVE  a \div s \in Nat /\ s * (a \div s) <= a /\ a < s * (a \div s) + s
OBVIOUS

(* Only one number lies between them.                                     *)
LEMMA QuotientIs ==
  ASSUME NEW a \in Nat, NEW s \in Nat, s >= 1, NEW q \in Nat, q * s <= a, a < q * s + s
  PROVE  a \div s = q
BY SMTT(30)

(* To whom a player sends the sum: to the players whose number divided by *)
(* max_broadcast is its own.                                              *)
LEMMA RelayFacts ==
  ASSUME NEW q \in Player
  PROVE  /\ q * MaxBroadcast \in Nat /\ (q + 1) * MaxBroadcast = q * MaxBroadcast + MaxBroadcast
         /\ MaxBroadcast \in Nat /\ MaxBroadcast >= 2
         /\ q > 0 => q < q * MaxBroadcast
         /\ Receivers(q) = Smaller(q * MaxBroadcast + MaxBroadcast, N)
         /\ \A p \in Player : q = p \div MaxBroadcast <=>
              q * MaxBroadcast <= p /\ p < q * MaxBroadcast + MaxBroadcast
<1>1. q \in Nat /\ MaxBroadcast \in Nat /\ MaxBroadcast >= 2
  BY PlayerFacts, SizeAssumption
<1>2. PICK x : x = q * MaxBroadcast
  OBVIOUS
<1>3. x \in Nat /\ (q + 1) * MaxBroadcast = x + MaxBroadcast
  BY <1>1, <1>2
<1>4. q > 0 => q < x
  BY <1>1, <1>2
<1>5. q = 0 => x = 0
  BY <1>1, <1>2
<1>6. Receivers(q) = Smaller(x + MaxBroadcast, N)
  <2>1. q = 0 => Receivers(q) = Smaller(MaxBroadcast, N) /\ x + MaxBroadcast = MaxBroadcast
    BY <1>1, <1>5 DEF Receivers
  <2>2. q # 0 => Receivers(q) = Smaller(x + MaxBroadcast, N)
    BY <1>3 DEF Receivers
  <2>3. QED
    BY <2>1, <2>2
<1>7. ASSUME NEW p \in Player
      PROVE  q = p \div MaxBroadcast <=> x <= p /\ p < x + MaxBroadcast
  <2>1. p \in Nat
    BY PlayerFacts
  <2>2. x <= p /\ p < x + MaxBroadcast => q = p \div MaxBroadcast
    BY <1>1, <1>2, <2>1, QuotientIs
  <2>3. q = p \div MaxBroadcast => MaxBroadcast * q <= p /\ p < MaxBroadcast * q + MaxBroadcast
    BY <1>1, <2>1, Quotient
  <2>4. MaxBroadcast * q = x
    BY <1>1, <1>2
  <2>5. QED
    BY <2>2, <2>3, <2>4
<1>8. QED
  BY <1>1, <1>2, <1>3, <1>4, <1>6, <1>7

(* A player but the first has one that sends it the sum.                    *)
LEMMA AwaitFacts ==
  ASSUME NEW p \in Player, p > 0
  PROVE  /\ AwaitSum(p).i \in Player /\ AwaitSum(p).i < p /\ AwaitSum(p).i = p \div MaxBroadcast
         /\ AwaitSum(p) = At("receive", AwaitSum(p).i, 0)
<1>1. PICK i : i = p \div MaxBroadcast
  OBVIOUS
<1>2. AwaitSum(p) = At("receive", i, 0) /\ AwaitSum(p).i = i
  BY <1>1 DEF AwaitSum, At
<1>3. p \in Nat /\ MaxBroadcast \in Nat /\ MaxBroadcast >= 2
  BY PlayerFacts, SizeAssumption
<1>4. i \in Nat /\ MaxBroadcast * i <= p
  BY <1>1, <1>3, Quotient
<1>5. i = 0 \/ i + i <= MaxBroadcast * i
  BY <1>3, <1>4
<1>6. i < p
  BY <1>3, <1>4, <1>5
<1>7. i \in Player
  BY <1>4, <1>6, PlayerFacts DEF Player
<1>8. QED
  BY <1>1, <1>2, <1>6, <1>7

(* It sends to those that wait for it, one after the other.                 *)
LEMMA SendStep ==
  ASSUME NEW p \in Player, Relays(p), NEW i \in Nat,
         i < Receivers(p), (IF p = 0 THEN 1 ELSE p * MaxBroadcast) <= i
  PROVE  /\ i \in Player /\ p < i /\ p = i \div MaxBroadcast
         /\ ~ (i + 1 < Receivers(p)) => \A q \in Player : p = q \div MaxBroadcast => q <= i
<1>1. PICK x : x = p * MaxBroadcast
  OBVIOUS
<1>2. /\ x \in Nat /\ MaxBroadcast \in Nat /\ MaxBroadcast >= 2 /\ (p > 0 => p < x)
      /\ Receivers(p) = Smaller(x + MaxBroadcast, N)
      /\ \A q \in Player : p = q \div MaxBroadcast <=> x <= q /\ q < x + MaxBroadcast
  BY <1>1, RelayFacts
<1>3. p \in Nat /\ N \in Nat /\ p < N
  BY PlayerFacts
<1>4. PICK e \in Nat : e = Receivers(p) /\ e <= N /\ e <= x + MaxBroadcast /\ (e = N \/ e = x + MaxBroadcast)
  BY <1>2, <1>3 DEF Smaller
<1>5. i < e /\ x <= i /\ p < i
  <2>1. p = 0 => x = 0
    BY <1>1, <1>2
  <2>2. QED
    BY <1>1, <1>2, <1>3, <1>4, <2>1
<1>6. i \in Player
  BY <1>3, <1>4, <1>5 DEF Player
<1>7. p = i \div MaxBroadcast
  BY <1>2, <1>4, <1>5, <1>6
<1>8. ASSUME ~ (i + 1 < Receivers(p)), NEW q \in Player, p = q \div MaxBroadcast PROVE q <= i
  <2>1. q \in Nat /\ q < N /\ q < x + MaxBroadcast
    BY <1>2, <1>8, PlayerFacts
  <2>2. QED
    BY <1>2, <1>3, <1>4, <1>8, <2>1
<1>9. QED
  BY <1>5, <1>6, <1>7, <1>8

(* It starts with the first of them; there are none if it is no relay.      *)
LEMMA SendStarts ==
  ASSUME NEW p \in Player
  PROVE  /\ Relays(0) /\ 1 < Receivers(0)
         /\ Relays(p) /\ p > 0 => /\ p * MaxBroadcast \in Nat /\ p * MaxBroadcast < Receivers(p)
         /\ \A q \in Player : p < q /\ p = q \div MaxBroadcast =>
              Relays(p) /\ (IF p = 0 THEN 1 ELSE p * MaxBroadcast) <= q
<1>1. PICK x : x = p * MaxBroadcast
  OBVIOUS
<1>2. /\ x \in Nat /\ MaxBroadcast \in Nat /\ MaxBroadcast >= 2
      /\ Receivers(p) = Smaller(x + MaxBroadcast, N)
      /\ \A q \in Player : p = q \div MaxBroadcast <=> x <= q /\ q < x + MaxBroadcast
  BY <1>1, RelayFacts
<1>3. p \in Nat /\ N \in Nat /\ p < N /\ N >= 2
  BY PlayerFacts
<1>4. Relays(0) /\ 1 < Receivers(0)
  BY <1>2, <1>3 DEF Relays, Receivers, Smaller
<1>5. Relays(p) /\ p > 0 => x < Receivers(p)
  BY <1>1, <1>2, <1>3 DEF Relays, Smaller
<1>6. ASSUME NEW q \in Player, p < q, p = q \div MaxBroadcast
      PROVE  Relays(p) /\ (IF p = 0 THEN 1 ELSE x) <= q
  <2>1. q \in Nat /\ q < N /\ x <= q
    BY <1>2, <1>6, PlayerFacts
  <2>2. x < N /\ (p = 0 => 1 <= q)
    BY <1>2, <1>3, <1>6, <2>1
  <2>3. QED
    BY <1>1, <2>1, <2>2 DEF Relays
<1>7. QED
  BY <1>1, <1>2, <1>4, <1>5, <1>6

-----------------------------------------------------------------------------
(* Sums of shares.                                                         *)

(* Sums over disjoint sets of players add up to the sum over both.        *)
LEMMA SumsAdd ==
  ASSUME NEW v, NEW w, NEW ids, NEW S, NEW T, IsSum(v, ids, S), IsSum(w, ids, T), S \cap T = {}
  PROVE  IsSum(SumUp(v, w), ids, S \cup T)
<1>1. DOMAIN v = 1 .. Len(v) /\ Len(v) \in Nat /\ Len(v) = Len(ids)
  BY SeqDomain DEF IsSum
<1>2. PICK u : u = SumUp(v, w)
  OBVIOUS
<1>3. u = [i \in 1 .. Len(v) |-> v[i] (+) w[i]]
  BY <1>1, <1>2 DEF SumUp
<1>4. IsSeq(u) /\ Len(u) = Len(v)
  <2>1. DOMAIN u = 1 .. Len(v) /\ u = [k \in 1 .. Len(v) |-> u[k]]
    BY <1>3
  <2>2. QED
    BY <1>1, <2>1, IsSeqOf
<1>5. ASSUME NEW x PROVE SumOf(x, S) (+) SumOf(x, T) = SumOf(x, S \cup T)
  BY DEF SumOf, SetToBag, (+)
<1>6. ASSUME NEW k \in 1 .. Len(ids) PROVE u[k] = SumOf(ids[k], S \cup T)
  <2>1. u[k] = v[k] (+) w[k]
    BY <1>1, <1>3
  <2>2. v[k] = SumOf(ids[k], S) /\ w[k] = SumOf(ids[k], T)
    BY DEF IsSum
  <2>3. QED
    BY <1>5, <2>1, <2>2
<1>7. QED
  BY <1>1, <1>2, <1>4, <1>6 DEF IsSum

(* A player's own shares are the sum over it alone.                       *)
LEMMA SumOfOwn ==
  ASSUME NEW ids, IsSeq(ids), NEW p
  PROVE  IsSum([i \in DOMAIN ids |-> Share(ids[i], p)], ids, {p})
<1>1. DOMAIN ids = 1 .. Len(ids) /\ Len(ids) \in Nat
  BY SeqDomain
<1>2. PICK v : v = [i \in DOMAIN ids |-> Share(ids[i], p)]
  OBVIOUS
<1>3. IsSeq(v) /\ Len(v) = Len(ids)
  <2>1. DOMAIN v = 1 .. Len(ids) /\ v = [k \in 1 .. Len(ids) |-> v[k]]
    BY <1>1, <1>2
  <2>2. QED
    BY <1>1, <2>1, IsSeqOf
<1>4. ASSUME NEW k \in 1 .. Len(ids) PROVE v[k] = SumOf(ids[k], {p})
  <2>1. {<<ids[k], p>>} = {ids[k]} \X {p}
    OBVIOUS
  <2>2. QED
    BY <1>1, <1>2, <2>1 DEF Share, SumOf
<1>5. QED
  BY <1>2, <1>3, <1>4 DEF IsSum

(* The sum over all players is the opened value.                          *)
LEMMA SumOfAll ==
  ASSUME NEW v, NEW ids, IsSeq(ids), IsSum(v, ids, Player)
  PROVE  v = [j \in DOMAIN ids |-> Opened(ids[j])]
<1>1. DOMAIN ids = 1 .. Len(ids) /\ DOMAIN v = 1 .. Len(v) /\ v = [k \in 1 .. Len(v) |-> v[k]] /\ Len(v) = Len(ids)
  BY SeqDomain DEF IsSum
<1>2. \A k \in 1 .. Len(ids) : v[k] = Opened(ids[k])
  BY DEF IsSum, SumOf, Opened
<1>3. QED
  BY <1>1, <1>2

(* The values that End starts with have the length of the opening.          *)
LEMMA LengthOfMap ==
  ASSUME NEW ids, IsSeq(ids), NEW v, DOMAIN v = DOMAIN ids, v = [i \in DOMAIN ids |-> v[i]]
  PROVE  IsSeq(v) /\ Len(v) = Len(ids)
<1>1. DOMAIN ids = 1 .. Len(ids) /\ Len(ids) \in Nat
  BY SeqDomain
<1>2. QED
  BY <1>1, IsSeqOf

-----------------------------------------------------------------------------
(* The streams that go around.                                             *)

(* The ring of players, and how a stream that goes around it grows.       *)
LEMMA BehindFacts ==
  ASSUME NEW p \in Player
  PROVE  /\ Behind(p, 1) = {p} /\ Behind(p, N) = Player
         /\ PreviousPlayer(p) \in Player /\ PreviousPlayer(p) # p /\ p = NextPlayer(PreviousPlayer(p))
         /\ NextPlayer(p) \in Player /\ NextPlayer(p) # p /\ p = PreviousPlayer(NextPlayer(p))
         /\ \A q \in Player : p = NextPlayer(q) => q = PreviousPlayer(p)
         /\ \A t \in 1 .. N - 1 :
              /\ Behind(p, t + 1) = {p} \cup Behind(PreviousPlayer(p), t)
              /\ {p} \cap Behind(PreviousPlayer(p), t) = {}
<1>1. p \in Nat /\ p < N /\ N \in Nat /\ N >= 2
  BY PlayerFacts
<1>2. PICK q : q = PreviousPlayer(p)
  OBVIOUS
<1>3. q \in Nat /\ q < N /\ q # p /\ (p = 0 => q = N - 1) /\ (p > 0 => q = p - 1)
  BY <1>1, <1>2 DEF PreviousPlayer
<1>4. q \in Player /\ p = NextPlayer(q)
  BY <1>1, <1>3 DEF NextPlayer, Player
<1>5. NextPlayer(p) \in Player /\ NextPlayer(p) # p /\ p = PreviousPlayer(NextPlayer(p))
  BY <1>1 DEF NextPlayer, PreviousPlayer, Player
<1>6. ASSUME NEW x \in Player PROVE Distance(x, p) < 1 <=> x = p
  BY <1>1, PlayerFacts DEF Distance
<1>7. ASSUME NEW x \in Player PROVE Distance(x, p) < N
  BY <1>1, PlayerFacts DEF Distance
<1>8. ASSUME NEW t \in 1 .. N - 1, NEW x \in Player
      PROVE  /\ Distance(x, p) < t + 1 <=> x = p \/ Distance(x, q) < t
             /\ ~ (x = p /\ Distance(x, q) < t)
  <2>1. x \in Nat /\ x < N /\ t \in Nat /\ t <= N - 1
    BY <1>1, PlayerFacts
  <2>2. CASE p = 0
    BY <1>1, <1>3, <2>1, <2>2 DEF Distance
  <2>3. CASE p > 0
    BY <1>1, <1>3, <2>1, <2>3 DEF Distance
  <2>4. QED
    BY <1>1, <2>2, <2>3
<1>9. Behind(p, 1) = {p} /\ Behind(p, N) = Player
  BY <1>6, <1>7 DEF Behind
<1>10. ASSUME NEW t \in 1 .. N - 1
       PROVE  Behind(p, t + 1) = {p} \cup Behind(q, t) /\ {p} \cap Behind(q, t) = {}
  BY <1>8 DEF Behind
<1>11. ASSUME NEW x \in Player, p = NextPlayer(x) PROVE x = q
  BY <1>1, <1>3, <1>11, PlayerFacts DEF NextPlayer
<1>12. QED
  BY <1>2, <1>3, <1>4, <1>5, <1>9, <1>10, <1>11

-----------------------------------------------------------------------------
(* What the channels carry.                                                *)

(* The number after a number.                                             *)
LEMMA AfterType ==
  ASSUME NEW me, NEW x \in Nat \X Nat
  PROVE  After(me, x) \in Nat \X Nat
<1>1. x[1] \in Nat /\ x[2] \in Nat
  OBVIOUS
<1>2. QED
  BY <1>1 DEF After

(* An empty channel.                                                      *)
LEMMA CarriesNothing ==
  ASSUME NEW me, NEW pr, NEW q, NEW p, NEW x \in Nat \X Nat
  PROVE  Carries(me, pr, q, p, <<>>, x, x)
<1>1. PICK pos : pos = [k \in 0 .. 0 |-> x]
  OBVIOUS
<1>2. IsSeq(<<>>) /\ Len(<<>>) = 0
  BY EmptyFacts
<1>3. pos \in [0 .. 0 -> Nat \X Nat] /\ pos[0] = x
  BY <1>1
<1>4. Numbers(me, pr, q, p, <<>>, pos, x, x)
  BY <1>2, <1>3 DEF Numbers
<1>5. QED
  BY <1>4 DEF Carries

(* A channel after another message.                                       *)
LEMMA CarriesSent ==
  ASSUME NEW me, NEW pr, NEW q, NEW p, NEW ch, NEW from, NEW to, Carries(me, pr, q, p, ch, from, to),
         NEW msg, msg.kind = "values" => BodyOK(me, pr, q, p, After(me, to), msg.body)
  PROVE  Carries(me, pr, q, p, Append(ch, msg), from, IF msg.kind = "values" THEN After(me, to) ELSE to)
<1>1. PICK pos : Numbers(me, pr, q, p, ch, pos, from, to)
  BY DEF Carries
<1>2. PICK n : n = Len(ch)
  OBVIOUS
<1>3. /\ IsSeq(ch) /\ n \in Nat /\ pos \in [0 .. n -> Nat \X Nat] /\ pos[0] = from /\ pos[n] = to
      /\ \A i \in 1 .. n :
           IF ch[i].kind = "values"
           THEN pos[i] = After(me, pos[i - 1]) /\ BodyOK(me, pr, q, p, pos[i], ch[i].body)
           ELSE pos[i] = pos[i - 1]
  BY <1>1, <1>2, LengthFacts DEF Numbers
<1>4. PICK end : end = IF msg.kind = "values" THEN After(me, to) ELSE to
  OBVIOUS
<1>5. to \in Nat \X Nat
  BY <1>3
<1>6. end \in Nat \X Nat
  BY <1>4, <1>5, AfterType
<1>7. PICK d : d = Append(ch, msg)
  OBVIOUS
<1>8. /\ IsSeq(d) /\ Len(d) = n + 1 /\ d[n + 1] = msg
      /\ \A k \in 1 .. n : d[k] = ch[k]
  BY <1>2, <1>3, <1>7, AppendFacts
<1>9. PICK pos2 : pos2 = [k \in 0 .. n + 1 |-> IF k = n + 1 THEN end ELSE pos[k]]
  OBVIOUS
<1>10. /\ pos2[n + 1] = end
       /\ \A k \in 0 .. n : pos2[k] = pos[k]
       /\ pos2 \in [0 .. n + 1 -> Nat \X Nat]
  <2>1. \A k \in 0 .. n + 1 : k # n + 1 => k \in 0 .. n
    BY <1>3
  <2>2. \A k \in 0 .. n : pos[k] \in Nat \X Nat
    BY <1>3
  <2>3. \A k \in 0 .. n : k # n + 1 /\ k \in 0 .. n + 1
    BY <1>3
  <2>4. n + 1 \in 0 .. n + 1
    BY <1>3
  <2>5. pos2 \in [0 .. n + 1 -> Nat \X Nat]
    BY <1>6, <1>9, <2>1, <2>2
  <2>6. QED
    BY <1>9, <2>3, <2>4, <2>5
<1>11. ASSUME NEW i \in 1 .. n + 1
       PROVE  IF d[i].kind = "values"
              THEN pos2[i] = After(me, pos2[i - 1]) /\ BodyOK(me, pr, q, p, pos2[i], d[i].body)
              ELSE pos2[i] = pos2[i - 1]
  <2>1. CASE i = n + 1
    <3>1. pos2[i] = end /\ pos2[i - 1] = to /\ d[i] = msg
      <4>1. i - 1 = n /\ n \in 0 .. n
        BY <1>3, <2>1
      <4>2. QED
        BY <1>3, <1>8, <1>10, <2>1, <4>1
    <3>2. QED
      BY <1>4, <3>1
  <2>2. CASE i # n + 1
    <3>1. i \in 1 .. n /\ i \in 0 .. n /\ i - 1 \in 0 .. n
      BY <1>3, <2>2
    <3>2. pos2[i] = pos[i] /\ pos2[i - 1] = pos[i - 1] /\ d[i] = ch[i]
      BY <1>8, <1>10, <3>1
    <3>3. QED
      BY <1>3, <3>1, <3>2
  <2>3. QED
    BY <2>1, <2>2
<1>12. pos2[0] = from
  BY <1>3, <1>10
<1>13. Numbers(me, pr, q, p, d, pos2, from, end)
  BY <1>8, <1>10, <1>11, <1>12 DEF Numbers
<1>14. Carries(me, pr, q, p, d, from, end)
  BY <1>13 DEF Carries
<1>15. QED
  BY <1>4, <1>7, <1>14

(* A channel after its first message has been taken, and what that was.   *)
LEMMA CarriesTaken ==
  ASSUME NEW me, NEW pr, NEW q, NEW p, NEW ch, NEW from, NEW to, Carries(me, pr, q, p, ch, from, to), ch # <<>>
  PROVE  /\ Head(ch).kind = "values" => BodyOK(me, pr, q, p, After(me, from), Head(ch).body)
         /\ Carries(me, pr, q, p, Tail(ch), IF Head(ch).kind = "values" THEN After(me, from) ELSE from, to)
<1>1. PICK pos : Numbers(me, pr, q, p, ch, pos, from, to)
  BY DEF Carries
<1>2. PICK n : n = Len(ch)
  OBVIOUS
<1>3. /\ IsSeq(ch) /\ n \in Nat /\ pos \in [0 .. n -> Nat \X Nat] /\ pos[0] = from /\ pos[n] = to
      /\ \A i \in 1 .. n :
           IF ch[i].kind = "values"
           THEN pos[i] = After(me, pos[i - 1]) /\ BodyOK(me, pr, q, p, pos[i], ch[i].body)
           ELSE pos[i] = pos[i - 1]
  BY <1>1, <1>2, LengthFacts DEF Numbers
<1>4. n >= 1
  BY <1>2, <1>3, LengthFacts
<1>5. PICK m \in Nat : n = m + 1
  <2>1. n - 1 \in Nat /\ n = (n - 1) + 1
    BY <1>3, <1>4
  <2>2. QED
    BY <2>1
<1>6. PICK d : d = Tail(ch)
  OBVIOUS
<1>7. /\ IsSeq(d) /\ Len(d) = m /\ Head(ch) = ch[1] /\ \A k \in 1 .. m : d[k] = ch[k + 1]
  <2>1. n - 1 = m
    BY <1>5
  <2>2. /\ IsSeq(d) /\ Len(d) = Len(ch) - 1 /\ Head(ch) = ch[1]
        /\ \A k \in 1 .. Len(ch) - 1 : d[k] = ch[k + 1]
    BY <1>3, <1>6, TailFacts
  <2>3. QED
    BY <1>2, <2>1, <2>2
<1>8. pos[1] = IF ch[1].kind = "values" THEN After(me, from) ELSE from
  <2>1. 1 \in 1 .. n /\ 1 - 1 = 0
    BY <1>3, <1>4
  <2>2. QED
    BY <1>3, <2>1
<1>9. ch[1].kind = "values" => BodyOK(me, pr, q, p, pos[1], ch[1].body)
  <2>1. 1 \in 1 .. n
    BY <1>3, <1>4
  <2>2. QED
    BY <1>3, <2>1
<1>10. PICK pos2 : pos2 = [k \in 0 .. m |-> pos[k + 1]]
  OBVIOUS
<1>11. /\ \A k \in 0 .. m : pos2[k] = pos[k + 1]
       /\ pos2 \in [0 .. m -> Nat \X Nat]
       /\ pos2[0] = pos[1] /\ pos2[m] = to
  <2>1. \A k \in 0 .. m : k + 1 \in 0 .. n
    BY <1>5
  <2>2. \A k \in 0 .. n : pos[k] \in Nat \X Nat
    BY <1>3
  <2>3. pos2 \in [0 .. m -> Nat \X Nat]
    BY <1>10, <2>1, <2>2
  <2>4. 0 \in 0 .. m /\ m \in 0 .. m /\ 0 + 1 = 1
    BY <1>5
  <2>5. QED
    BY <1>3, <1>5, <1>10, <2>3, <2>4
<1>12. ASSUME NEW i \in 1 .. m
       PROVE  IF d[i].kind = "values"
              THEN pos2[i] = After(me, pos2[i - 1]) /\ BodyOK(me, pr, q, p, pos2[i], d[i].body)
              ELSE pos2[i] = pos2[i - 1]
  <2>1. /\ i \in 0 .. m /\ i - 1 \in 0 .. m /\ i + 1 \in 1 .. n
        /\ (i - 1) + 1 = i /\ (i + 1) - 1 = i
    BY <1>5
  <2>2. pos2[i] = pos[i + 1]
    BY <1>11, <2>1
  <2>3. pos2[i - 1] = pos[(i + 1) - 1]
    <3>1. pos2[i - 1] = pos[(i - 1) + 1]
      BY <1>11, <2>1
    <3>2. QED
      BY <2>1, <3>1
  <2>4. d[i] = ch[i + 1]
    BY <1>7
  <2>5. QED
    BY <1>3, <2>1, <2>2, <2>3, <2>4
<1>13. Numbers(me, pr, q, p, d, pos2, pos[1], to)
  BY <1>7, <1>11, <1>12 DEF Numbers
<1>14. Carries(me, pr, q, p, d, pos[1], to)
  BY <1>13 DEF Carries
<1>15. QED
  BY <1>6, <1>7, <1>8, <1>9, <1>14

(* Types of a channel's numbers.                                          *)
LEMMA CarriesType ==
  ASSUME NEW me, NEW pr, NEW q, NEW p, NEW ch, NEW from, NEW to, Carries(me, pr, q, p, ch, from, to)
  PROVE  IsSeq(ch) /\ from \in Nat \X Nat /\ to \in Nat \X Nat
<1>1. PICK pos : Numbers(me, pr, q, p, ch, pos, from, to)
  BY DEF Carries
<1>2. IsSeq(ch) /\ Len(ch) \in Nat /\ pos \in [0 .. Len(ch) -> Nat \X Nat] /\ pos[0] = from /\ pos[Len(ch)] = to
  BY <1>1, LengthFacts DEF Numbers
<1>3. QED
  BY <1>2

-----------------------------------------------------------------------------
(* What is in store.                                                       *)

(* Length and type of a vector in store.                                  *)
LEMMA InPlaceFacts ==
  ASSUME NEW pr, Program(pr), NEW m, NEW e \in Nat, NEW n \in Nat, NEW g, NEW st, NEW cnt \in Nat,
         InPlace(pr, m, e, n, g, st, cnt)
  PROVE  /\ IsSeq(st) /\ Len(st) \in Nat /\ Size(pr, m, e) \in Nat /\ Size(pr, m, n) \in Nat
         /\ Len(st) = (cnt + Size(pr, m, n)) - Size(pr, m, e)
         /\ e <= n => cnt <= Len(st)
<1>1. IsSeq(st) /\ Len(st) = (cnt + Size(pr, m, n)) - Size(pr, m, e)
  BY DEF InPlace
<1>2. Size(pr, m, e) \in Nat /\ Size(pr, m, n) \in Nat
  BY ItemsFinite
<1>3. e <= n => Size(pr, m, e) <= Size(pr, m, n)
  BY SizeGrows
<1>4. Len(st) \in Nat
  BY <1>1, LengthFacts
<1>5. QED
  BY <1>1, <1>2, <1>3, <1>4

(* Nothing of an opening under way.                                         *)
LEMMA InPlaceAlone ==
  ASSUME NEW pr, Program(pr), NEW m, NEW e \in Nat, NEW n \in Nat, NEW g, NEW st, NEW cnt \in Nat,
         InPlace(pr, m, e, n, g, st, cnt), e <= n, \A o \in DOMAIN pr : ~ Opens(pr, m, o, e, n)
  PROVE  IsSeq(st) /\ Len(st) = cnt
<1>1. Size(pr, m, e) = Size(pr, m, n)
  BY SizeSame
<1>2. IsSeq(st) /\ Len(st) = (cnt + Size(pr, m, n)) - Size(pr, m, e) /\ Size(pr, m, n) \in Nat
  BY InPlaceFacts
<1>3. QED
  BY <1>1, <1>2

(* Nothing in store yet.                                                   *)
LEMMA InPlaceEmpty ==
  ASSUME NEW pr, Program(pr), NEW m, NEW g
  PROVE  InPlace(pr, m, 0, 0, g, <<>>, 0)
<1>1. Size(pr, m, 0) \in Nat
  BY ItemsFinite
<1>2. IsSeq(<<>>) /\ Len(<<>>) = 0
  BY EmptyFacts
<1>3. \A o \in DOMAIN pr : ~ Opens(pr, m, o, 0, 0)
  <2> TAKE o \in DOMAIN pr
  <2>1. SUFFICES ASSUME Opens(pr, m, o, 0, 0) PROVE FALSE
    OBVIOUS
  <2>2. pr[o].op = "begin" /\ 0 < NumberOf(pr, o) /\ NumberOf(pr, o) <= 0
    BY <2>1 DEF Opens
  <2>3. NumberOf(pr, o) \in Nat
    BY <2>2, NumberIs, ProgramFacts
  <2>4. QED
    BY <2>2, <2>3
<1>4. QED
  BY <1>1, <1>2, <1>3 DEF InPlace

(* v is what opening c puts in store.                                      *)
Puts(pr, c, g, v) == IsSeq(v) /\ Len(v) = Len(pr[c].ids) /\ \A k \in 1 .. Len(v) : v[k] = g[c][k]

(* The next opening puts its elements at the end.                           *)
LEMMA InPlaceAppend ==
  ASSUME NEW pr, Program(pr), NEW m, NEW e \in Nat, NEW n \in Nat, NEW g, NEW st, NEW cnt \in Nat,
         InPlace(pr, m, e, n, g, st, cnt),
         NEW c \in DOMAIN pr, pr[c].op = "begin", NumberOf(pr, c) = n + 1,
         NEW v, Puts(pr, c, g, v)
  PROVE  InPlace(pr, m, e, n + 1, g, IF pr[c].mc = m THEN st \o v ELSE st, cnt)
<1>1. PICK l, se, sn, s1 : l = Len(st) /\ se = Size(pr, m, e) /\ sn = Size(pr, m, n) /\ s1 = Size(pr, m, n + 1)
  OBVIOUS
<1>2. IsSeq(st) /\ l \in Nat /\ se \in Nat /\ sn \in Nat /\ l = (cnt + sn) - se
  BY <1>1, InPlaceFacts
<1>3. (n + 1) - 1 = n /\ n + 1 \in Nat
  OBVIOUS
<1>4. s1 = sn + (IF pr[c].mc = m THEN Len(pr[c].ids) ELSE 0)
  <2>1. Size(pr, m, NumberOf(pr, c)) =
          Size(pr, m, NumberOf(pr, c) - 1) + (IF pr[c].mc = m THEN Len(pr[c].ids) ELSE 0)
    BY SizeStep
  <2>2. QED
    BY <1>1, <1>3, <2>1
<1>5. ASSUME NEW o \in DOMAIN pr, Opens(pr, m, o, e, n + 1)
      PROVE  Opens(pr, m, o, e, n) \/ (o = c /\ pr[c].mc = m)
  <2>1. pr[o].op = "begin" /\ pr[o].mc = m /\ e < NumberOf(pr, o) /\ NumberOf(pr, o) <= n + 1
    BY <1>5 DEF Opens
  <2>2. NumberOf(pr, o) \in Nat
    BY <2>1, NumberIs, ProgramFacts
  <2>3. CASE NumberOf(pr, o) = n + 1
    <3>1. o = c
      BY <2>1, <2>3, NumberInjective, ProgramFacts
    <3>2. QED
      BY <2>1, <3>1
  <2>4. CASE NumberOf(pr, o) # n + 1
    <3>1. NumberOf(pr, o) <= n
      BY <2>1, <2>2, <2>4
    <3>2. QED
      BY <2>1, <3>1 DEF Opens
  <2>5. QED
    BY <2>3, <2>4
<1>6. ASSUME NEW o \in DOMAIN pr, Opens(pr, m, o, e, n), NEW k \in 1 .. Len(pr[o].ids)
      PROVE  /\ Place(pr, m, o, e, cnt) + k \in 1 .. l
             /\ st[Place(pr, m, o, e, cnt) + k] = g[o][k]
  <2>1. PICK pl, len : pl = Place(pr, m, o, e, cnt) /\ len = Len(pr[o].ids)
    OBVIOUS
  <2>2. pl \in Nat /\ len \in Nat /\ pl + len <= (cnt + sn) - se
    BY <1>1, <1>6, <2>1, PlaceFacts
  <2>3. k \in 1 .. len
    BY <2>1
  <2>4. pl + k \in 1 .. l
    BY ONLY <1>2, <2>2, <2>3
  <2>5. QED
    BY <1>6, <2>1, <2>4 DEF InPlace
<1>7. CASE pr[c].mc = m
  <2>1. PICK w : w = Cat(st, v)
    OBVIOUS
  <2>2. /\ IsSeq(w) /\ Len(w) = l + Len(v) /\ Len(v) \in Nat
        /\ \A k \in 1 .. l : w[k] = st[k]
        /\ \A k \in 1 .. Len(v) : w[l + k] = v[k]
    <3>1. IsSeq(Cat(st, v)) /\ IsSeq(v)
      BY <1>2, CatSeq DEF Puts
    <3>2. /\ Len(v) \in Nat /\ Len(Cat(st, v)) = Len(st) + Len(v)
          /\ \A k \in 1 .. Len(st) : Cat(st, v)[k] = st[k]
          /\ \A k \in 1 .. Len(v) : Cat(st, v)[Len(st) + k] = v[k]
      BY <1>2, <3>1, CatElements
    <3>3. QED
      BY <1>1, <2>1, <3>1, <3>2
  <2>3. Len(w) = (cnt + s1) - se
    <3>1. PICK x : x = Len(v) /\ s1 = sn + x
      BY <1>4, <1>7 DEF Puts
    <3>2. PICK y : y = Len(w)
      OBVIOUS
    <3>3. y = l + x /\ x \in Nat
      BY <2>2, <3>1, <3>2
    <3>4. y = (cnt + s1) - se
      BY <1>2, <3>1, <3>3
    <3>5. QED
      BY <3>2, <3>4
  <2>4. ASSUME NEW o \in DOMAIN pr, Opens(pr, m, o, e, n + 1), NEW k \in 1 .. Len(pr[o].ids)
        PROVE  w[Place(pr, m, o, e, cnt) + k] = g[o][k]
    <3>1. CASE Opens(pr, m, o, e, n)
      BY <1>6, <2>2, <2>4, <3>1
    <3>2. CASE o = c
      <4>1. Place(pr, m, c, e, cnt) = l
        BY <1>1, <1>2, <1>3 DEF Place
      <4>2. QED
        BY <2>2, <2>4, <3>2, <4>1 DEF Puts
    <3>3. QED
      BY <1>5, <2>4, <3>1, <3>2
  <2>5. QED
    BY <1>1, <1>7, <2>1, <2>2, <2>3, <2>4 DEF InPlace, Cat
<1>8. CASE pr[c].mc # m
  <2>1. l = (cnt + s1) - se
    BY <1>2, <1>4, <1>8
  <2>2. QED
    BY <1>1, <1>2, <1>5, <1>6, <1>8, <2>1 DEF InPlace
<1>9. QED
  BY <1>7, <1>8

(* Elements that are not opened are put behind those of ended openings,     *)
(* while none is under way.                                                *)
LEMMA InPlaceAdd ==
  ASSUME NEW pr, Program(pr), NEW m, NEW e \in Nat, NEW n \in Nat, NEW g, NEW st, NEW cnt \in Nat,
         InPlace(pr, m, e, n, g, st, cnt), e <= n, \A o \in DOMAIN pr : ~ Opens(pr, m, o, e, n),
         NEW v, IsSeq(v)
  PROVE  InPlace(pr, m, e, n, g, st \o v, cnt + Len(v))
<1>1. PICK l, se, sn : l = Len(st) /\ se = Size(pr, m, e) /\ sn = Size(pr, m, n)
  OBVIOUS
<1>2. IsSeq(st) /\ l \in Nat /\ se \in Nat /\ sn \in Nat /\ l = (cnt + sn) - se
  BY <1>1, InPlaceFacts
<1>3. PICK w, x : w = st \o v /\ x = Len(v)
  OBVIOUS
<1>4. IsSeq(w) /\ Len(w) = l + x /\ x \in Nat
  BY <1>1, <1>2, <1>3, CatSeq, CatElements DEF Cat
<1>5. Len(w) = ((cnt + x) + sn) - se
  BY <1>2, <1>4
<1>6. QED
  BY <1>1, <1>3, <1>4, <1>5 DEF InPlace

(* The opening that ends is the first of those under way.                   *)
(* A vector from position cnt on begins with what opening c has put there.  *)
BeginsWith(pr, c, g, st, cnt) ==
  /\ Len(pr[c].ids) \in Nat /\ cnt + Len(pr[c].ids) <= Len(st)
  /\ \A k \in 1 .. Len(pr[c].ids) : st[cnt + k] = g[c][k]

(* The opening to be ended next lies at the front of what has not been    *)
(* ended.                                                                 *)
LEMMA InPlaceFirst ==
  ASSUME NEW pr, Program(pr), NEW m, NEW e \in Nat, NEW n \in Nat, NEW g, NEW st, NEW cnt \in Nat,
         InPlace(pr, m, e, n, g, st, cnt),
         NEW c \in DOMAIN pr, pr[c].op = "begin", pr[c].mc = m, NumberOf(pr, c) = e + 1, e + 1 <= n
  PROVE  BeginsWith(pr, c, g, st, cnt)
<1>1. Opens(pr, m, c, e, n)
  BY DEF Opens
<1>2. Place(pr, m, c, e, cnt) = cnt
  BY <1>1, PlaceFacts
<1>3. Len(pr[c].ids) \in Nat /\ cnt + Len(pr[c].ids) <= (cnt + Size(pr, m, n)) - Size(pr, m, e)
  BY <1>1, <1>2, PlaceFacts
<1>4. QED
  BY <1>1, <1>2, <1>3 DEF InPlace, BeginsWith

(* An opening is ended: its values now count among those to be checked.   *)
LEMMA InPlaceClose ==
  ASSUME NEW pr, Program(pr), NEW m, NEW e \in Nat, NEW n \in Nat, NEW g, NEW st, NEW cnt \in Nat,
         InPlace(pr, m, e, n, g, st, cnt),
         NEW c \in DOMAIN pr, pr[c].op = "begin", NumberOf(pr, c) = e + 1, e + 1 <= n
  PROVE  InPlace(pr, m, e + 1, n, g, st, cnt + (IF pr[c].mc = m THEN Len(pr[c].ids) ELSE 0))
<1>1. PICK l, se, sn, s1, d : /\ l = Len(st) /\ se = Size(pr, m, e) /\ sn = Size(pr, m, n)
                              /\ s1 = Size(pr, m, e + 1) /\ d = IF pr[c].mc = m THEN Len(pr[c].ids) ELSE 0
  OBVIOUS
<1>2. IsSeq(st) /\ l \in Nat /\ se \in Nat /\ sn \in Nat /\ l = (cnt + sn) - se
  BY <1>1, InPlaceFacts
<1>3. s1 = se + d
  <2>1. Size(pr, m, NumberOf(pr, c)) =
          Size(pr, m, NumberOf(pr, c) - 1) + (IF pr[c].mc = m THEN Len(pr[c].ids) ELSE 0)
    BY SizeStep
  <2>2. (e + 1) - 1 = e
    OBVIOUS
  <2>3. QED
    BY <1>1, <2>1, <2>2
<1>4. d \in Nat
  BY <1>1, ProgramFacts
<1>5. l = ((cnt + d) + sn) - s1
  BY <1>2, <1>3, <1>4
<1>6. ASSUME NEW o \in DOMAIN pr, Opens(pr, m, o, e + 1, n)
      PROVE  Opens(pr, m, o, e, n) /\ Place(pr, m, o, e + 1, cnt + d) = Place(pr, m, o, e, cnt)
  <2>1. pr[o].op = "begin" /\ pr[o].mc = m /\ e + 1 < NumberOf(pr, o) /\ NumberOf(pr, o) <= n
    BY <1>6 DEF Opens
  <2>2. NumberOf(pr, o) \in Nat /\ NumberOf(pr, o) - 1 \in Nat
    BY <2>1, NumberIs, SizeStep, ProgramFacts
  <2>3. Opens(pr, m, o, e, n)
    BY <2>1, <2>2 DEF Opens
  <2>4. PICK x : x = Size(pr, m, NumberOf(pr, o) - 1)
    OBVIOUS
  <2>5. x \in Nat
    BY <2>2, <2>4, ItemsFinite
  <2>6. ((cnt + d) + x) - s1 = (cnt + x) - se
    BY <1>2, <1>3, <1>4, <2>5
  <2>7. QED
    BY <1>1, <2>3, <2>4, <2>6 DEF Place
<1>7. ASSUME NEW o \in DOMAIN pr, Opens(pr, m, o, e + 1, n), NEW k \in 1 .. Len(pr[o].ids)
      PROVE  st[Place(pr, m, o, e + 1, cnt + d) + k] = g[o][k]
  BY <1>6, <1>7 DEF InPlace
<1>8. QED
  BY <1>1, <1>2, <1>5, <1>7 DEF InPlace

(* A check takes the elements of the ended openings out.                    *)
LEMMA CutFacts ==
  ASSUME NEW st, IsSeq(st), NEW cnt \in Nat, cnt <= Len(st)
  PROVE  /\ IsSeq(SubSeq(st, cnt + 1, Len(st))) /\ Len(SubSeq(st, cnt + 1, Len(st))) = Len(st) - cnt
         /\ \A k \in 1 .. Len(st) - cnt : SubSeq(st, cnt + 1, Len(st))[k] = st[cnt + k]
<1>1. PICK S : st \in Seq(S)
  BY DEF IsSeq
<1>2. PICK l : l = Len(st)
  OBVIOUS
<1>3. l \in Nat /\ cnt <= l
  BY <1>1, <1>2
<1>4. SubSeq(st, cnt + 1, l) = [i \in 1 .. (l - (cnt + 1)) + 1 |-> st[(i + (cnt + 1)) - 1]]
  BY <1>3 DEF SubSeq
<1>5. (l - (cnt + 1)) + 1 = l - cnt /\ l - cnt \in Nat
  BY <1>3
<1>6. \A i \in 1 .. l - cnt : (i + (cnt + 1)) - 1 = cnt + i
  BY <1>3
<1>7. PICK d : d = SubSeq(st, cnt + 1, l)
  OBVIOUS
<1>8. d = [i \in 1 .. l - cnt |-> st[cnt + i]]
  BY <1>4, <1>5, <1>6, <1>7
<1>9. IsSeq(d) /\ Len(d) = l - cnt
  <2>1. DOMAIN d = 1 .. l - cnt /\ d = [k \in 1 .. l - cnt |-> d[k]]
    BY <1>8
  <2>2. QED
    BY <1>5, <2>1, IsSeqOf
<1>10. QED
  BY <1>2, <1>7, <1>8, <1>9

(* A check cuts off what it has checked.                                  *)
LEMMA InPlaceCut ==
  ASSUME NEW pr, Program(pr), NEW m, NEW e \in Nat, NEW n \in Nat, NEW g, NEW st, NEW cnt \in Nat,
         InPlace(pr, m, e, n, g, st, cnt), e <= n
  PROVE  InPlace(pr, m, e, n, g, SubSeq(st, cnt + 1, Len(st)), 0)
<1>1. PICK l, se, sn, d : /\ l = Len(st) /\ se = Size(pr, m, e) /\ sn = Size(pr, m, n)
                          /\ d = SubSeq(st, cnt + 1, Len(st))
  OBVIOUS
<1>2. IsSeq(st) /\ l \in Nat /\ se \in Nat /\ sn \in Nat /\ l = (cnt + sn) - se /\ cnt <= l
  BY <1>1, InPlaceFacts
<1>3. IsSeq(d) /\ Len(d) = l - cnt /\ \A k \in 1 .. l - cnt : d[k] = st[cnt + k]
  BY ONLY <1>1, <1>2, cnt \in Nat, CutFacts
<1>4. Len(d) = (0 + sn) - se
  BY <1>2, <1>3
<1>5. ASSUME NEW o \in DOMAIN pr, Opens(pr, m, o, e, n), NEW k \in 1 .. Len(pr[o].ids)
      PROVE  d[Place(pr, m, o, e, 0) + k] = g[o][k]
  <2>1. PICK pl, p0, x, len : /\ pl = Place(pr, m, o, e, cnt) /\ p0 = Place(pr, m, o, e, 0)
                              /\ x = Size(pr, m, NumberOf(pr, o) - 1) /\ len = Len(pr[o].ids)
    OBVIOUS
  <2>2. pl \in Nat /\ cnt <= pl /\ len \in Nat /\ pl + len <= l
    <3>1. /\ pl \in Nat /\ cnt <= pl /\ len \in Nat
          /\ pl + len <= (cnt + Size(pr, m, n)) - Size(pr, m, e)
      BY <1>5, <2>1, PlaceFacts
    <3>2. QED
      BY <1>1, <1>2, <3>1
  <2>3. p0 \in Nat
    BY <1>5, <2>1, PlaceFacts
  <2>4. pl = (cnt + x) - se /\ p0 = (0 + x) - se
    BY <1>1, <2>1 DEF Place
  <2>5. x \in Nat
    <3>1. pr[o].op = "begin"
      BY <1>5 DEF Opens
    <3>2. NumberOf(pr, o) - 1 \in Nat
      BY <3>1, SizeStep
    <3>3. QED
      BY <2>1, <3>2, ItemsFinite
  <2>6. pl = cnt + p0
    BY <1>2, <2>4, <2>5
  <2>7. p0 + k \in 1 .. l - cnt /\ cnt + (p0 + k) = pl + k
    <3>1. k \in 1 .. len
      BY <2>1
    <3>2. QED
      BY <1>2, <2>2, <2>3, <2>6, <3>1
  <2>8. d[p0 + k] = st[pl + k]
    BY <1>3, <2>7
  <2>9. st[pl + k] = g[o][k]
    BY <1>5, <2>1 DEF InPlace
  <2>10. QED
    BY <2>1, <2>8, <2>9
<1>6. QED
  BY <1>1, <1>3, <1>4, <1>5 DEF InPlace

(* What an opening has put there is seen in another way.                    *)
LEMMA InPlaceSame ==
  ASSUME NEW pr, NEW m, NEW e, NEW n, NEW g, NEW h, NEW st, NEW cnt,
         InPlace(pr, m, e, n, g, st, cnt),
         \A o \in DOMAIN pr : Opens(pr, m, o, e, n) => \A k \in 1 .. Len(pr[o].ids) : g[o][k] = h[o][k]
  PROVE  InPlace(pr, m, e, n, h, st, cnt)
BY DEF InPlace

(* The first opening under way replaces its elements.                       *)
Differ(pr, c, g, h) ==
  \A o \in DOMAIN pr : o # c /\ pr[o].op = "begin" => \A k \in 1 .. Len(pr[o].ids) : g[o][k] = h[o][k]

(* The values of the opening to be ended next are replaced.               *)
LEMMA InPlacePut ==
  ASSUME NEW pr, Program(pr), NEW m, NEW e \in Nat, NEW n \in Nat, NEW g, NEW st, NEW cnt \in Nat,
         InPlace(pr, m, e, n, g, st, cnt), e <= n,
         NEW c \in DOMAIN pr, pr[c].op = "begin", pr[c].mc = m, NumberOf(pr, c) = e + 1,
         NEW v, NEW h, Puts(pr, c, h, v), Differ(pr, c, g, h)
  PROVE  InPlace(pr, m, e, n, h, [i \in DOMAIN st |-> IF i - cnt \in DOMAIN v THEN v[i - cnt] ELSE st[i]], cnt)
<1>1. PICK l, len : l = Len(st) /\ len = Len(v)
  OBVIOUS
<1>2. IsSeq(st) /\ l \in Nat /\ cnt <= l /\ DOMAIN st = 1 .. l /\ DOMAIN v = 1 .. len /\ len \in Nat
  <2>1. IsSeq(st) /\ Len(st) \in Nat /\ cnt <= Len(st)
    <3>1. IsSeq(st) /\ Len(st) \in Nat
      BY InPlaceFacts
    <3>2. e <= n => cnt <= Len(st)
      BY ONLY Program(pr), e \in Nat, n \in Nat, cnt \in Nat, InPlace(pr, m, e, n, g, st, cnt), InPlaceFacts
    <3>3. QED
      BY <3>1, <3>2
  <2>2. DOMAIN st = 1 .. Len(st) /\ DOMAIN v = 1 .. Len(v) /\ Len(v) \in Nat
    BY <2>1, SeqDomain DEF Puts
  <2>3. QED
    BY <1>1, <2>1, <2>2
<1>3. PICK w : w = [i \in DOMAIN st |-> IF i - cnt \in DOMAIN v THEN v[i - cnt] ELSE st[i]]
  OBVIOUS
<1>4. /\ IsSeq(w) /\ Len(w) = l
      /\ \A i \in 1 .. l : w[i] = IF i - cnt \in 1 .. len THEN v[i - cnt] ELSE st[i]
  <2>1. DOMAIN w = 1 .. l /\ w = [k \in 1 .. l |-> w[k]]
    BY <1>2, <1>3
  <2>2. QED
    BY <1>2, <1>3, <2>1, IsSeqOf
<1>5. ASSUME NEW o \in DOMAIN pr, Opens(pr, m, o, e, n), NEW k \in 1 .. Len(pr[o].ids)
      PROVE  w[Place(pr, m, o, e, cnt) + k] = h[o][k]
  <2>1. PICK pl, lo : pl = Place(pr, m, o, e, cnt) /\ lo = Len(pr[o].ids)
    OBVIOUS
  <2>2. pl \in Nat /\ cnt <= pl /\ lo \in Nat /\ k \in 1 .. lo
    BY <1>5, <2>1, PlaceFacts
  <2>3. pl + lo <= l
    <3>1. pl + lo <= (cnt + Size(pr, m, n)) - Size(pr, m, e)
      BY <1>5, <2>1, PlaceFacts
    <3>2. Len(st) = (cnt + Size(pr, m, n)) - Size(pr, m, e)
      BY DEF InPlace
    <3>3. QED
      BY <1>1, <3>1, <3>2
  <2>4. pl + k \in 1 .. l
    BY ONLY <1>2, <2>2, <2>3
  <2>5. st[pl + k] = g[o][k]
    BY <1>5, <2>1 DEF InPlace
  <2>6. CASE o = c
    <3>1. pl = cnt /\ lo = len
      BY <1>1, <1>5, <2>1, <2>6, PlaceFacts DEF Puts
    <3>2. (pl + k) - cnt = k /\ k \in 1 .. len
      BY <2>2, <3>1
    <3>3. w[pl + k] = v[k]
      BY <1>4, <2>4, <3>2
    <3>4. QED
      BY <1>1, <2>1, <2>6, <3>2, <3>3 DEF Puts
  <2>7. CASE o # c
    <3>1. pl >= cnt + len
      <4>1. pr[o].op = "begin" /\ pr[o].mc = m /\ e < NumberOf(pr, o) /\ NumberOf(pr, o) <= n
        BY <1>5 DEF Opens
      <4>2. NumberOf(pr, o) \in Nat /\ NumberOf(pr, o) - 1 \in Nat
        BY <4>1, NumberIs, SizeStep, ProgramFacts
      <4>3. NumberOf(pr, o) # e + 1
        BY <2>7, <4>1, NumberInjective, ProgramFacts
      <4>4. PICK j : j = NumberOf(pr, o) - 1
        OBVIOUS
      <4>5. j \in Nat /\ e + 1 <= j /\ e + 1 \in Nat
        BY <4>1, <4>2, <4>3, <4>4
      <4>6. PICK se, s1, sj : se = Size(pr, m, e) /\ s1 = Size(pr, m, e + 1) /\ sj = Size(pr, m, j)
        OBVIOUS
      <4>7. se \in Nat /\ s1 \in Nat /\ sj \in Nat /\ s1 <= sj
        BY <4>5, <4>6, ItemsFinite, SizeGrows
      <4>8. s1 = se + len
        <5>1. Size(pr, m, NumberOf(pr, c)) =
                Size(pr, m, NumberOf(pr, c) - 1) + (IF pr[c].mc = m THEN Len(pr[c].ids) ELSE 0)
          BY SizeStep
        <5>2. (e + 1) - 1 = e
          OBVIOUS
        <5>3. QED
          BY <1>1, <4>6, <5>1, <5>2 DEF Puts
      <4>9. pl = (cnt + sj) - se
        BY <2>1, <4>4, <4>6 DEF Place
      <4>10. QED
        BY <1>2, <4>7, <4>8, <4>9
    <3>2. (pl + k) - cnt \notin 1 .. len
      BY <1>2, <2>2, <3>1
    <3>3. w[pl + k] = st[pl + k]
      BY <1>4, <2>4, <3>2
    <3>4. pr[o].op = "begin"
      BY <1>5 DEF Opens
    <3>5. QED
      BY <2>1, <2>5, <2>7, <3>3, <3>4 DEF Differ
  <2>8. QED
    BY <2>6, <2>7
<1>6. Len(w) = (cnt + Size(pr, m, n)) - Size(pr, m, e)
  BY <1>1, <1>4, InPlaceFacts
<1>7. QED
  BY <1>3, <1>4, <1>5, <1>6 DEF InPlace

-----------------------------------------------------------------------------
(* The calls of a program.                                                 *)

(* No more openings are ended than have begun.                            *)
LEMMA EndsBehind ==
  ASSUME NEW pr, Program(pr), NEW k \in 0 .. Len(pr)
  PROVE  CallsOf("end", pr, k) <= CallsOf("begin", pr, k)
<1> DEFINE Bad == {j \in Nat : j <= Len(pr) /\ ~ (CallsOf("end", pr, j) <= CallsOf("begin", pr, j))}
<1>1. Len(pr) \in Nat /\ DOMAIN pr = 1 .. Len(pr) /\ WellFormed(pr)
  BY ProgramFacts DEF Program
<1>2. SUFFICES ASSUME Bad # {} PROVE FALSE
  BY <1>1
<1>3. PICK b \in Bad : \A j \in Bad : b <= j
  <2>1. Bad \subseteq Nat
    OBVIOUS
  <2> HIDE DEF Bad
  <2>2. QED
    BY <1>2, <2>1, LeastNatural
<1>4. b \in Nat /\ b <= Len(pr) /\ ~ (CallsOf("end", pr, b) <= CallsOf("begin", pr, b))
  OBVIOUS
<1>5. b # 0
  <2>1. CallsOf("end", pr, 0) = 0 /\ CallsOf("begin", pr, 0) = 0
    BY CountStep
  <2>2. QED
    BY <1>4, <2>1
<1>6. PICK j \in Nat : b = j + 1
  <2>1. b - 1 \in Nat /\ b = (b - 1) + 1
    BY <1>4, <1>5
  <2>2. QED
    BY <2>1
<1>7. CallsOf("end", pr, j) <= CallsOf("begin", pr, j)
  <2>1. ~ (b <= j) /\ j <= Len(pr)
    BY <1>1, <1>4, <1>6
  <2>2. j \notin Bad
    <3> HIDE DEF Bad
    <3>1. QED
      BY <1>3, <2>1
  <2>3. QED
    BY <2>1, <2>2
<1>8. CASE pr[b].op = "end"
  <2>1. b \in DOMAIN pr
    BY <1>1, <1>4, <1>5
  <2>2. PICK o \in 1 .. b - 1 : CallsOf("begin", pr, o) = CallsOf("end", pr, b)
    BY <1>1, <1>8, <2>1 DEF WellFormed
  <2>3. o \in Nat /\ o <= b
    BY <1>4
  <2>4. CallsOf("begin", pr, o) <= CallsOf("begin", pr, b)
    BY <1>4, <2>3, CountGrows
  <2>5. QED
    BY <1>4, <2>2, <2>4
<1>9. CASE pr[b].op # "end"
  <2>1. CallsOf("end", pr, b) = CallsOf("end", pr, j) + 0 /\ CallsOf("end", pr, j) \in Nat
    BY <1>6, <1>9, CountStep
  <2>2. CallsOf("begin", pr, j) <= CallsOf("begin", pr, b)
    BY <1>6, CountGrows
  <2>3. CallsOf("begin", pr, j) \in Nat /\ CallsOf("begin", pr, b) \in Nat
    BY <1>4, CountStep
  <2>4. QED
    BY <1>4, <1>7, <2>1, <2>2, <2>3
<1>10. QED
  BY <1>8, <1>9

(* An end has its beginning, and is the next one.                           *)
LEMMA EndMatches ==
  ASSUME NEW pr, Program(pr), NEW c \in DOMAIN pr, pr[c].op = "end"
  PROVE  /\ CallsOf("end", pr, c - 1) + 1 <= CallsOf("begin", pr, c - 1)
         /\ \E o \in DOMAIN pr :
              /\ pr[o].op = "begin" /\ NumberOf(pr, o) = CallsOf("end", pr, c - 1) + 1
              /\ pr[o].mc = pr[c].mc /\ pr[o].ids = pr[c].ids
<1>1. Len(pr) \in Nat /\ DOMAIN pr = 1 .. Len(pr) /\ WellFormed(pr)
  BY ProgramFacts DEF Program
<1>2. PICK j \in Nat : c = j + 1 /\ c - 1 = j
  <2>1. c - 1 \in Nat /\ c = (c - 1) + 1
    BY <1>1
  <2>2. QED
    BY <2>1
<1>3. CallsOf("end", pr, c) = CallsOf("end", pr, j) + 1
  BY <1>2, CountStep
<1>4. PICK o \in 1 .. c - 1 : /\ pr[o].op = "begin" /\ CallsOf("begin", pr, o) = CallsOf("end", pr, c)
                              /\ pr[o].mc = pr[c].mc /\ pr[o].ids = pr[c].ids
  BY <1>1 DEF WellFormed
<1>5. o \in DOMAIN pr /\ o \in Nat /\ o <= j
  BY <1>1, <1>2
<1>6. CallsOf("begin", pr, o) <= CallsOf("begin", pr, j)
  BY <1>5, CountGrows
<1>7. QED
  BY <1>2, <1>3, <1>4, <1>5, <1>6 DEF NumberOf

(* A value is added while no opening of the MAC check is under way.         *)
LEMMA AddAlone ==
  ASSUME NEW pr, Program(pr), NEW c \in DOMAIN pr, pr[c].op = "add", NEW o \in DOMAIN pr
  PROVE  ~ Opens(pr, pr[c].mc, o, CallsOf("end", pr, c - 1), CallsOf("begin", pr, c - 1))
<1>1. SUFFICES ASSUME Opens(pr, pr[c].mc, o, CallsOf("end", pr, c - 1), CallsOf("begin", pr, c - 1)) PROVE FALSE
  OBVIOUS
<1>2. Len(pr) \in Nat /\ DOMAIN pr = 1 .. Len(pr) /\ WellFormed(pr)
  BY ProgramFacts DEF Program
<1>3. PICK j \in Nat : c = j + 1 /\ c - 1 = j
  <2>1. c - 1 \in Nat /\ c = (c - 1) + 1
    BY <1>2
  <2>2. QED
    BY <2>1
<1>4. CallsOf("end", pr, c) = CallsOf("end", pr, j) + 0 /\ CallsOf("end", pr, j) \in Nat
  BY <1>3, CountStep
<1>5. /\ pr[o].op = "begin" /\ pr[o].mc = pr[c].mc
      /\ CallsOf("end", pr, j) < NumberOf(pr, o) /\ NumberOf(pr, o) <= CallsOf("begin", pr, j)
  BY <1>1, <1>3 DEF Opens
<1>6. o \in Nat /\ NumberOf(pr, o) \in Nat /\ CallsOf("begin", pr, j) \in Nat
  BY <1>2, <1>5, NumberIs, CountStep
<1>7. j < o => CallsOf("begin", pr, j) < NumberOf(pr, o)
  BY <1>2, <1>5, NumberOrder
<1>8. o \in 1 .. c - 1
  BY <1>2, <1>3, <1>5, <1>6, <1>7
<1>9. CallsOf("begin", pr, o) <= CallsOf("end", pr, c)
  BY <1>2, <1>5, <1>8 DEF WellFormed
<1>10. QED
  BY <1>4, <1>5, <1>6, <1>9 DEF NumberOf

-----------------------------------------------------------------------------
(* How far a player is.                                                    *)

(* Counts, at the next call.                                              *)
LEMMA CountAt ==
  ASSUME NEW op, NEW pr, NEW j \in Nat
  PROVE  /\ pr[j + 1].op = op => CallsOf(op, pr, j + 1) = CallsOf(op, pr, j) + 1
         /\ pr[j + 1].op # op => CallsOf(op, pr, j + 1) = CallsOf(op, pr, j)
<1>1. /\ CallsOf(op, pr, j) \in Nat
      /\ CallsOf(op, pr, j + 1) = CallsOf(op, pr, j) + (IF pr[j + 1].op = op THEN 1 ELSE 0)
  BY CountStep
<1>2. QED
  BY <1>1

(* The counts at a call and after it.                                     *)
LEMMA CallNumbers ==
  ASSUME NEW pr, Program(pr), NEW c \in 1 .. Len(pr) + 1
  PROVE  /\ CallsOf("begin", pr, c - 1) \in Nat /\ CallsOf("end", pr, c - 1) \in Nat
         /\ CallsOf("end", pr, c - 1) <= CallsOf("begin", pr, c - 1)
         /\ \A op : CallsOf(op, pr, (c + 1) - 1) = CallsOf(op, pr, c)
         /\ CallsOf("begin", pr, c) = CallsOf("begin", pr, c - 1) + (IF pr[c].op = "begin" THEN 1 ELSE 0)
         /\ CallsOf("end", pr, c) = CallsOf("end", pr, c - 1) + (IF pr[c].op = "end" THEN 1 ELSE 0)
         /\ c \in DOMAIN pr => c + 1 \in 1 .. Len(pr) + 1
         /\ c \in DOMAIN pr /\ pr[c].op = "end" =>
              CallsOf("end", pr, c - 1) + 1 <= CallsOf("begin", pr, c - 1)
         /\ c \in DOMAIN pr /\ pr[c].op = "begin" => NumberOf(pr, c) = CallsOf("begin", pr, c - 1) + 1
<1>1. Len(pr) \in Nat /\ DOMAIN pr = 1 .. Len(pr)
  BY ProgramFacts
<1>2. PICK j \in 0 .. Len(pr) : c = j + 1 /\ c - 1 = j /\ (c + 1) - 1 = c /\ j \in Nat
  <2>1. c - 1 \in 0 .. Len(pr) /\ c = (c - 1) + 1 /\ (c + 1) - 1 = c
    BY <1>1
  <2>2. QED
    BY <2>1
<1>3. CallsOf("begin", pr, j) \in Nat /\ CallsOf("end", pr, j) \in Nat
  BY <1>2, CountStep
<1>4. CallsOf("end", pr, j) <= CallsOf("begin", pr, j)
  BY EndsBehind
<1>5. /\ CallsOf("begin", pr, j + 1) = CallsOf("begin", pr, j) + (IF pr[j + 1].op = "begin" THEN 1 ELSE 0)
      /\ CallsOf("end", pr, j + 1) = CallsOf("end", pr, j) + (IF pr[j + 1].op = "end" THEN 1 ELSE 0)
  <2>1. CallsOf("begin", pr, j) \in Nat /\ CallsOf("end", pr, j) \in Nat
    BY <1>2, CountStep
  <2>2. CASE pr[j + 1].op = "begin"
    BY <1>2, <2>1, <2>2, CountAt
  <2>3. CASE pr[j + 1].op = "end"
    BY <1>2, <2>1, <2>3, CountAt
  <2>4. CASE pr[j + 1].op # "begin" /\ pr[j + 1].op # "end"
    BY <1>2, <2>1, <2>4, CountAt
  <2>5. QED
    BY <2>2, <2>3, <2>4
<1>6. c \in DOMAIN pr /\ pr[c].op = "end" => CallsOf("end", pr, j) + 1 <= CallsOf("begin", pr, j)
  BY <1>2, EndMatches
<1>7. c \in DOMAIN pr => c + 1 \in 1 .. Len(pr) + 1
  BY <1>1
<1>8. c \in DOMAIN pr /\ pr[c].op = "begin" => NumberOf(pr, c) = CallsOf("begin", pr, j) + 1
  BY <1>2, <1>5 DEF NumberOf
<1>9. QED
  BY <1>2, <1>3, <1>4, <1>5, <1>6, <1>7, <1>8

(* At every place no more openings have ended than are stored, and no     *)
(* more are stored than have begun.                                       *)
LEMMA PlaceNumbers ==
  ASSUME NEW me, NEW pr, Program(pr), NEW p \in Player, NEW c, NEW a, PlaceOK(me, pr, p, c, a)
  PROVE  /\ c \in 1 .. Len(pr) + 1 /\ (a = Idle <=> a.do = "idle") /\ (a # Idle => c \in DOMAIN pr)
         /\ Begun(pr, c, a) \in Nat /\ Ended(pr, c, a) \in Nat /\ Stored(me, pr, p, c, a) \in Nat
         /\ Ended(pr, c, a) <= Stored(me, pr, p, c, a) /\ Stored(me, pr, p, c, a) <= Begun(pr, c, a)
         /\ Ended(pr, c, a) <= Begun(pr, c, a)
<1>1. /\ c \in 1 .. Len(pr) + 1 /\ (a # Idle => c \in DOMAIN pr) /\ a = At(a.do, a.i, a.last)
      /\ a # Idle /\ Checking(a) => pr[c].op # "begin"
      /\ a # Idle /\ ~ Checking(a) => pr[c].op # "check"
  BY DEF PlaceOK
<1>2. a.do = "idle" => a = Idle
  BY DEF PlaceOK, Checking, TreeBegin, TreeEnd
<1>3. a = Idle => a.do = "idle" /\ ~ Checking(a)
  BY DEF Idle, Local, At, Checking
<1>4. PICK b0, e0, b1, e1 : /\ b0 = CallsOf("begin", pr, c - 1) /\ e0 = CallsOf("end", pr, c - 1)
                            /\ b1 = CallsOf("begin", pr, c) /\ e1 = CallsOf("end", pr, c)
  OBVIOUS
<1>5. /\ b0 \in Nat /\ e0 \in Nat /\ e0 <= b0
      /\ b1 = b0 + (IF pr[c].op = "begin" THEN 1 ELSE 0) /\ e1 = e0 + (IF pr[c].op = "end" THEN 1 ELSE 0)
      /\ (c \in DOMAIN pr /\ pr[c].op = "end" => e0 + 1 <= b0)
  BY <1>1, <1>4, CallNumbers
<1>6. /\ Begun(pr, c, a) = IF a = Idle THEN b0 ELSE b1
      /\ Ended(pr, c, a) = IF Checking(a) THEN e1 ELSE e0
  BY <1>4 DEF Begun, Ended
<1>7. Begun(pr, c, a) \in Nat /\ Ended(pr, c, a) \in Nat /\ Ended(pr, c, a) <= Begun(pr, c, a)
  BY <1>1, <1>3, <1>5, <1>6
<1>8. PICK b, e : b = Begun(pr, c, a) /\ e = Ended(pr, c, a)
  OBVIOUS
<1>9. Inside(pr, c, a, "begin") => b = b0 + 1 /\ e = e0
  BY <1>5, <1>6, <1>8 DEF Inside
<1>10. Closing(pr, c, a) => e + 1 <= b
  BY <1>1, <1>5, <1>6, <1>8 DEF Inside, Closing
<1>11. \/ Stored(me, pr, p, c, a) = e
       \/ Stored(me, pr, p, c, a) = e + 1 /\ Closing(pr, c, a)
       \/ Stored(me, pr, p, c, a) = b
       \/ Stored(me, pr, p, c, a) = b - 1 /\ Inside(pr, c, a, "begin")
  BY <1>7, <1>8 DEF Stored
<1>12. Stored(me, pr, p, c, a) \in Nat /\ e <= Stored(me, pr, p, c, a) /\ Stored(me, pr, p, c, a) <= b
  BY <1>5, <1>7, <1>8, <1>9, <1>10, <1>11
<1>13. QED
  BY <1>1, <1>2, <1>3, <1>7, <1>8, <1>12

-----------------------------------------------------------------------------
(* How a step in a call moves a player from a in call c to z; it is in call *)
(* Onward(c, z) then.                                                      *)

(* The call a player is in after it has gone to z; what the stores depend *)
(* on; what of the channels to or from all others but x stays the same.   *)
Onward(c, z) == IF z = Idle THEN c + 1 ELSE c

Tally(me, pr, p, c, a) == <<Begun(pr, c, a), Ended(pr, c, a), Stored(me, pr, p, c, a), Replaced(me, pr, c, a)>>

(* Nothing is sent to or taken from anybody but player x.                   *)
SentBut(me, pr, p, x, c, a, z) ==
  \A q \in Player : Linked(me, p, q) /\ q # x =>
    LastSent(me, pr, p, q, Onward(c, z), z) = LastSent(me, pr, p, q, c, a)
TakenBut(me, pr, p, x, c, a, z) ==
  \A q \in Player : Linked(me, q, p) /\ q # x =>
    LastTaken(me, pr, q, p, Onward(c, z), z) = LastTaken(me, pr, q, p, c, a)

(* Counts, under names that are not expanded.                             *)
Begins(pr, k) == CallsOf("begin", pr, k)
Ends(pr, k) == CallsOf("end", pr, k)

(* The place a of a player in or before call c in numbers.                  *)
LEMMA PlaceCounts ==
  ASSUME NEW pr, Program(pr), NEW c \in DOMAIN pr, NEW a
  PROVE  /\ c \in 1 .. Len(pr) + 1 /\ c + 1 \in 1 .. Len(pr) + 1 /\ c \in Nat
         /\ Begins(pr, c - 1) \in Nat /\ Ends(pr, c - 1) \in Nat /\ Ends(pr, c - 1) <= Begins(pr, c - 1)
         /\ Begins(pr, c) = Begins(pr, c - 1) + (IF pr[c].op = "begin" THEN 1 ELSE 0)
         /\ Ends(pr, c) = Ends(pr, c - 1) + (IF pr[c].op = "end" THEN 1 ELSE 0)
         /\ Begins(pr, c) \in Nat /\ Ends(pr, c) \in Nat
         /\ pr[c].op = "end" => Ends(pr, c - 1) + 1 <= Begins(pr, c - 1)
         /\ pr[c].op = "begin" => NumberOf(pr, c) = Begins(pr, c - 1) + 1
         /\ Begun(pr, c, a) = IF a = Idle THEN Begins(pr, c - 1) ELSE Begins(pr, c)
         /\ Ended(pr, c, a) = IF Checking(a) THEN Ends(pr, c) ELSE Ends(pr, c - 1)
         /\ Begun(pr, Onward(c, a), a) = Begins(pr, c)
         /\ Ended(pr, Onward(c, a), a) = IF a = Idle \/ Checking(a) THEN Ends(pr, c) ELSE Ends(pr, c - 1)
         /\ \A op : Inside(pr, Onward(c, a), a, op) <=> Inside(pr, c, a, op)
         /\ ~ Checking(Idle) /\ Idle.do = "idle"
<1>1. DOMAIN pr = 1 .. Len(pr) /\ Len(pr) \in Nat
  BY ProgramFacts
<1>2. c \in 1 .. Len(pr) + 1 /\ c + 1 \in 1 .. Len(pr) + 1 /\ c \in Nat
  BY <1>1
<1>3. /\ Begins(pr, c - 1) \in Nat /\ Ends(pr, c - 1) \in Nat /\ Ends(pr, c - 1) <= Begins(pr, c - 1)
      /\ Begins(pr, c) = Begins(pr, c - 1) + (IF pr[c].op = "begin" THEN 1 ELSE 0)
      /\ Ends(pr, c) = Ends(pr, c - 1) + (IF pr[c].op = "end" THEN 1 ELSE 0)
      /\ pr[c].op = "end" => Ends(pr, c - 1) + 1 <= Begins(pr, c - 1)
      /\ pr[c].op = "begin" => NumberOf(pr, c) = Begins(pr, c - 1) + 1
  BY <1>2, CallNumbers DEF Begins, Ends
<1>4. Begins(pr, c) \in Nat /\ Ends(pr, c) \in Nat
  BY <1>3
<1>5. ~ Checking(Idle) /\ Idle.do = "idle"
  BY DEF Checking, Idle, Local, At
<1>6. /\ Begun(pr, c, a) = IF a = Idle THEN Begins(pr, c - 1) ELSE Begins(pr, c)
      /\ Ended(pr, c, a) = IF Checking(a) THEN Ends(pr, c) ELSE Ends(pr, c - 1)
  BY DEF Begun, Ended, Begins, Ends
<1>7. (c + 1) - 1 = c
  BY <1>2
<1>8. Begun(pr, Onward(c, a), a) = Begins(pr, c)
  BY <1>7 DEF Begun, Begins, Onward
<1>9. Ended(pr, Onward(c, a), a) = IF a = Idle \/ Checking(a) THEN Ends(pr, c) ELSE Ends(pr, c - 1)
  BY <1>5, <1>7 DEF Ended, Ends, Onward
<1>10. ASSUME NEW op PROVE Inside(pr, Onward(c, a), a, op) <=> Inside(pr, c, a, op)
  BY DEF Inside, Onward
<1>11. QED
  BY <1>2, <1>3, <1>4, <1>5, <1>6, <1>8, <1>9, <1>10

(* Calls that open nothing, and checks, send and take nothing.              *)
LEMMA Aside ==
  ASSUME NEW me, NEW pr, Program(pr), NEW p \in Player, NEW c \in DOMAIN pr, NEW a, NEW z,
         \/ pr[c].op \in {"add", "check"}
         \/ pr[c].op = "end" /\ Checking(a) /\ (Checking(z) \/ z = Idle)
  PROVE  /\ Tally(me, pr, p, Onward(c, z), z) = Tally(me, pr, p, c, a)
         /\ SentBut(me, pr, p, p, c, a, z) /\ TakenBut(me, pr, p, p, c, a, z)
<1>1. PICK d : d = Onward(c, z)
  OBVIOUS
<1>2. Begun(pr, d, z) = Begun(pr, c, a) /\ Ended(pr, d, z) = Ended(pr, c, a)
  BY <1>1, PlaceCounts
<1>3. /\ ~ Inside(pr, c, a, "begin") /\ ~ Inside(pr, c, a, "end")
      /\ ~ Inside(pr, d, z, "begin") /\ ~ Inside(pr, d, z, "end")
  BY <1>1 DEF Inside, Onward
<1>4. Stored(me, pr, p, d, z) = Stored(me, pr, p, c, a)
  BY <1>2, <1>3 DEF Stored, Closing
<1>5. Replaced(me, pr, d, z) = Replaced(me, pr, c, a)
  BY <1>3 DEF Replaced, Closing
<1>6. ASSUME NEW q \in Player
      PROVE  LastSent(me, pr, p, q, d, z) = LastSent(me, pr, p, q, c, a)
  BY <1>2, <1>3 DEF LastSent
<1>7. ASSUME NEW q \in Player
      PROVE  LastTaken(me, pr, q, p, d, z) = LastTaken(me, pr, q, p, c, a)
  BY <1>2, <1>3 DEF LastTaken
<1>8. QED
  BY <1>1, <1>2, <1>4, <1>5, <1>6, <1>7 DEF Tally, SentBut, TakenBut

(* The first place of an opening's beginning, of any method.              *)
FirstPlace(me, p) ==
  CASE me = "tree"    -> SumRound(p, N)
    [] me = "direct"  -> At("send", Other(p, 0), 0)
    [] me = "passing" -> At("pass", 1, 0)

(* The next player that is not p.                                         *)
LEMMA OtherFacts ==
  ASSUME NEW p \in Player, NEW j \in Nat
  PROVE  /\ Other(p, j) \in Nat /\ Other(p, j) # p /\ j <= Other(p, j)
         /\ \A q \in Player : q # p /\ j <= q => Other(p, j) <= q
         /\ \A q \in Player : q # p => (q < Other(p, j) <=> q < j)
<1>1. p \in Nat
  BY PlayerFacts
<1>2. Other(p, j) \in Nat /\ Other(p, j) # p /\ j <= Other(p, j)
  BY <1>1 DEF Other
<1>3. ASSUME NEW q \in Player, q # p PROVE (j <= q => Other(p, j) <= q) /\ (q < Other(p, j) <=> q < j)
  BY <1>1, <1>3, PlayerFacts DEF Other
<1>4. QED
  BY <1>2, <1>3

(* The first place of an opening's beginning.                             *)
LEMMA BeginPlace ==
  ASSUME NEW me \in Method, NEW pr, Program(pr), NEW p \in Player, NEW c \in DOMAIN pr, pr[c].op = "begin",
         NEW z, z = FirstPlace(me, p)
  PROVE  /\ z # Idle /\ ~ Checking(z) /\ PlaceOK(me, pr, p, c, z)
         /\ Tally(me, pr, p, c, z) =
              <<Begun(pr, c, Idle) + 1, Ended(pr, c, Idle), Stored(me, pr, p, c, Idle), Replaced(me, pr, c, Idle)>>
         /\ SentBut(me, pr, p, p, c, Idle, z) /\ TakenBut(me, pr, p, p, c, Idle, z)
         /\ Held(me, pr, p, c, z) = {p}
         /\ me = "passing" => z.do = "pass" /\ z.i = 1
<1>1. p \in Nat /\ N \in Nat /\ p < N /\ N >= 2
  BY PlayerFacts
<1>2. me = "tree" => /\ z.do \in Upwards /\ SumPlace(p, z) /\ z.i \in Nat /\ z.last \in Nat
                     /\ z = At(z.do, z.i, z.last)
                     /\ Held(me, pr, p, c, z) = {p}
                     /\ \A q \in Player : p < q /\ Parent(q, p) => Untaken(q, p, z)
  <2>1. SUFFICES ASSUME me = "tree"
                 PROVE  /\ z.do \in Upwards /\ SumPlace(p, z) /\ z.i \in Nat /\ z.last \in Nat
                        /\ z = At(z.do, z.i, z.last)
                        /\ Held(me, pr, p, c, z) = {p}
                        /\ \A q \in Player : p < q /\ Parent(q, p) => Untaken(q, p, z)
    OBVIOUS
  <2>2. 0 \in Nat /\ Level[0].last = N /\ \A x \in Player : Level[0].holder[x] = x
    BY LevelSteps DEF TopLevel
  <2>3. Holders(p, 0) = {p}
    BY <2>2 DEF Holders
  <2>4. z = SumRound(p, Level[0].last) /\ p < Level[0].last
    BY <1>1, <2>1, <2>2 DEF FirstPlace
  <2>5. /\ z.i \in Nat /\ z.last \in Nat /\ z = At(z.do, z.i, z.last)
        /\ \/ Level[0].last = 1
           \/ z.do = "pass_up" /\ SumPlace(p, z) /\ Part(p) = Holders(p, 0)
           \/ z.do = "add" /\ SumPlace(p, z) /\ Partial(p, z.i, z.last) = Holders(p, 0)
        /\ \A q \in Player : p < q /\ Parent(q, p) => (Untaken(q, p, z) <=> q < Level[0].last)
    BY <2>2, <2>4, SumRoundFacts
  <2>6. z.do \in Upwards /\ SumPlace(p, z)
    BY <1>1, <2>2, <2>5 DEF Upwards
  <2>7. Held(me, pr, p, c, z) = {p}
    BY <1>1, <2>1, <2>2, <2>3, <2>5 DEF Held
  <2>8. \A q \in Player : p < q /\ Parent(q, p) => Untaken(q, p, z)
    BY <2>2, <2>5, PlayerFacts
  <2>9. QED
    BY <2>5, <2>6, <2>7, <2>8
<1>3. me = "direct" => /\ z = At("send", Other(p, 0), 0) /\ z.do = "send" /\ z.i = Other(p, 0) /\ z.last = 0
                       /\ OtherPlace(p, z) /\ Other(p, 0) \in Nat
                       /\ \A q \in Player : q # p => z.i <= q
  <2>1. Other(p, 0) \in Nat /\ Other(p, 0) # p /\ \A q \in Player : q # p => Other(p, 0) <= q
    BY OtherFacts, PlayerFacts
  <2>2. Other(p, 0) < N
    BY <1>1 DEF Other
  <2>3. Other(p, 0) \in Player
    BY <1>1, <2>1, <2>2 DEF Player
  <2>4. QED
    BY <2>1, <2>3 DEF FirstPlace, At, OtherPlace
<1>4. me = "passing" => z = At("pass", 1, 0) /\ z.do = "pass" /\ z.i = 1 /\ z.last = 0
  BY DEF FirstPlace, At
<1>5. z.do \in {"add", "pass_up", "send", "pass"}
  BY <1>2, <1>3, <1>4 DEF Method, Upwards
<1>6. z # Idle /\ ~ Checking(z)
  BY <1>5 DEF Idle, Local, At, Checking
<1>7. c \in 1 .. Len(pr) + 1 /\ Onward(c, z) = c
  BY <1>6, PlaceCounts DEF Onward
<1>8. PlaceOK(me, pr, p, c, z)
  <2>1. CASE me = "tree"
    BY <1>2, <1>6, <1>7, <2>1 DEF PlaceOK, TreeBegin, Upwards
  <2>2. CASE me = "direct"
    BY <1>3, <1>6, <1>7, <2>2 DEF PlaceOK
  <2>3. CASE me = "passing"
    <3>1. 1 \in 1 .. N - 1
      BY <1>1
    <3>2. QED
      BY <1>4, <1>6, <1>7, <2>3, <3>1 DEF PlaceOK
  <2>4. QED
    BY <2>1, <2>2, <2>3 DEF Method
<1>9. PICK b, e : b = Begun(pr, c, Idle) /\ e = Ended(pr, c, Idle)
  OBVIOUS
<1>10. /\ b \in Nat /\ e \in Nat /\ Begun(pr, c, z) = b + 1 /\ Ended(pr, c, z) = e
       /\ Inside(pr, c, z, "begin") /\ ~ Inside(pr, c, z, "end")
       /\ ~ Inside(pr, c, Idle, "begin") /\ ~ Inside(pr, c, Idle, "end")
  <2>1. /\ b \in Nat /\ e \in Nat /\ Begun(pr, c, z) = b + 1 /\ Ended(pr, c, z) = e
    BY <1>6, <1>9, PlaceCounts
  <2>2. QED
    BY <1>6, <2>1 DEF Inside
<1>11. ~ (me = "tree" /\ p > 0 /\ z.do = "send")
  BY <1>2 DEF Upwards
<1>12. (b + 1) - 1 = b
  BY <1>10
<1>13. Stored(me, pr, p, c, z) = Stored(me, pr, p, c, Idle)
  BY <1>9, <1>10, <1>11, <1>12 DEF Stored, Closing
<1>14. Replaced(me, pr, c, z) = Replaced(me, pr, c, Idle)
  BY <1>10 DEF Replaced, Closing
<1>15. ASSUME NEW q \in Player, Linked(me, p, q)
       PROVE  LastSent(me, pr, p, q, c, z) = LastSent(me, pr, p, q, c, Idle)
  <2>1. CASE me = "passing"
    <3>1. Passed(z) = 0
      BY <1>4, <2>1 DEF Passed
    <3>2. Around(b + 1, 0) = <<b, N - 1>> /\ Around(b, N - 1) = <<b, N - 1>>
      BY <1>1, <1>12 DEF Around
    <3>3. QED
      BY <1>9, <1>10, <2>1, <3>1, <3>2 DEF LastSent
  <2>2. CASE me # "passing"
    <3>1. Unsent(me, p, q, z)
      <4>1. CASE me = "tree"
        BY <1>2, <4>1, <1>1, PlayerFacts DEF Unsent, Upwards, Linked
      <4>2. CASE me = "direct"
        BY <1>3, <1>15, <4>2 DEF Unsent, Linked
      <4>3. QED
        BY <2>2, <4>1, <4>2 DEF Method
    <3>2. QED
      BY <1>9, <1>10, <1>12, <2>2, <3>1 DEF LastSent
  <2>3. QED
    BY <2>1, <2>2
<1>16. ASSUME NEW q \in Player, Linked(me, q, p)
       PROVE  LastTaken(me, pr, q, p, c, z) = LastTaken(me, pr, q, p, c, Idle)
  <2>1. CASE me = "passing"
    <3>1. Taken(z) = 0
      BY <1>4, <2>1 DEF Taken
    <3>2. Around(b + 1, 0) = <<b, N - 1>> /\ Around(b, N - 1) = <<b, N - 1>>
      BY <1>1, <1>12 DEF Around
    <3>3. QED
      BY <1>9, <1>10, <2>1, <3>1, <3>2 DEF LastTaken
  <2>2. CASE me = "tree" /\ (q > p \/ Relays(p))
    <3>1. Untaken(q, p, z)
      <4>1. CASE q > p
        <5>1. Parent(q, p)
          BY <1>16, <1>1, <2>2, <4>1, PlayerFacts DEF Linked
        <5>2. p < q
          BY <1>1, <4>1, PlayerFacts
        <5>3. QED
          BY <1>2, <2>2, <5>1, <5>2
      <4>2. CASE ~ (q > p)
        BY <1>2, <2>2, <4>2 DEF Untaken
      <4>3. QED
        BY <4>1, <4>2
    <3>2. QED
      BY <1>9, <1>10, <1>12, <2>2, <3>1 DEF LastTaken
  <2>3. CASE me # "passing" /\ ~ (me = "tree" /\ (q > p \/ Relays(p)))
    BY <1>9, <1>10, <2>3 DEF LastTaken
  <2>4. QED
    BY <2>1, <2>2, <2>3
<1>17. Held(me, pr, p, c, z) = {p}
  BY <1>2, <1>3, <1>4 DEF Held, Method
<1>18. QED
  BY <1>4, <1>6, <1>7, <1>8, <1>9, <1>10, <1>13, <1>14, <1>15, <1>16, <1>17 DEF Tally, SentBut, TakenBut

(* The first place of an opening's end.                                   *)
LEMMA EndPlace ==
  ASSUME NEW me \in Method, NEW pr, Program(pr), NEW p \in Player, NEW c \in DOMAIN pr, pr[c].op = "end",
         NEW z, z = IF me = "tree" /\ ~ Relays(p) THEN AwaitSum(p) ELSE Local("get")
  PROVE  /\ z # Idle /\ ~ Checking(z) /\ PlaceOK(me, pr, p, c, z) /\ z.do \in {"get", "receive"}
         /\ Tally(me, pr, p, c, z) = Tally(me, pr, p, c, Idle)
         /\ SentBut(me, pr, p, p, c, Idle, z) /\ TakenBut(me, pr, p, p, c, Idle, z)
<1>1. p \in Nat /\ N \in Nat /\ p < N /\ N >= 2
  BY PlayerFacts
<1>2. me = "tree" /\ ~ Relays(p) => z = AwaitSum(p) /\ z.do = "receive" /\ z.i \in Nat /\ z.last = 0 /\ z = At("receive", z.i, 0)
  <2>1. SUFFICES ASSUME me = "tree", ~ Relays(p)
                 PROVE  z = AwaitSum(p) /\ z.do = "receive" /\ z.i \in Nat /\ z.last = 0 /\ z = At("receive", z.i, 0)
    OBVIOUS
  <2>2. p > 0
    <3>1. Relays(0)
      BY SendStarts
    <3>2. QED
      BY <1>1, <2>1, <3>1
  <2>3. AwaitSum(p).i \in Player /\ AwaitSum(p) = At("receive", AwaitSum(p).i, 0)
    BY <2>2, AwaitFacts
  <2>4. AwaitSum(p).i \in Nat
    BY <2>3, PlayerFacts
  <2>5. QED
    BY <2>1, <2>3, <2>4 DEF At
<1>3. ~ (me = "tree" /\ ~ Relays(p)) => z = At("get", 0, 0) /\ z.do = "get" /\ z.i = 0 /\ z.last = 0
  BY DEF Local, At
<1>4. z.do \in {"get", "receive"} /\ z.i \in Nat /\ z.last \in Nat /\ z = At(z.do, z.i, z.last)
  BY <1>2, <1>3
<1>5. z # Idle /\ ~ Checking(z)
  BY <1>4 DEF Idle, Local, At, Checking
<1>6. c \in 1 .. Len(pr) + 1 /\ Onward(c, z) = c
  BY <1>5, PlaceCounts DEF Onward
<1>7. PlaceOK(me, pr, p, c, z)
  <2>1. CASE me = "tree" /\ ~ Relays(p)
    BY <1>2, <1>4, <1>5, <1>6, <2>1 DEF PlaceOK, TreeEnd
  <2>2. CASE me = "tree" /\ Relays(p)
    BY <1>3, <1>4, <1>5, <1>6, <2>2 DEF PlaceOK, TreeEnd
  <2>3. CASE me # "tree"
    BY <1>3, <1>4, <1>5, <1>6, <2>3 DEF PlaceOK, Method
  <2>4. QED
    BY <2>1, <2>2, <2>3
<1>8. PICK b, e : b = Begun(pr, c, Idle) /\ e = Ended(pr, c, Idle)
  OBVIOUS
<1>9. /\ b \in Nat /\ e \in Nat /\ Begun(pr, c, z) = b /\ Ended(pr, c, z) = e
      /\ ~ Inside(pr, c, z, "begin") /\ Inside(pr, c, z, "end")
      /\ ~ Inside(pr, c, Idle, "begin") /\ ~ Inside(pr, c, Idle, "end")
  <2>1. b \in Nat /\ e \in Nat /\ Begun(pr, c, z) = b /\ Ended(pr, c, z) = e
    BY <1>5, <1>8, PlaceCounts
  <2>2. QED
    BY <1>5, <2>1 DEF Inside
<1>10. ~ Closing(pr, c, z) /\ ~ Closing(pr, c, Idle)
  BY <1>4, <1>9 DEF Closing
<1>11. Stored(me, pr, p, c, z) = Stored(me, pr, p, c, Idle)
  BY <1>8, <1>9, <1>10 DEF Stored
<1>12. Replaced(me, pr, c, z) = Replaced(me, pr, c, Idle)
  BY <1>10 DEF Replaced
<1>13. ASSUME NEW q \in Player
       PROVE  LastSent(me, pr, p, q, c, z) = LastSent(me, pr, p, q, c, Idle)
  BY <1>8, <1>9 DEF LastSent
<1>14. ASSUME NEW q \in Player, Linked(me, q, p)
       PROVE  LastTaken(me, pr, q, p, c, z) = LastTaken(me, pr, q, p, c, Idle)
  <2>1. CASE me = "passing" \/ (me = "tree" /\ (q > p \/ Relays(p)))
    BY <1>8, <1>9, <2>1 DEF LastTaken
  <2>2. CASE me # "passing" /\ ~ (me = "tree" /\ (q > p \/ Relays(p)))
    <3>1. ~ TakenAtEnd(me, q, z)
      BY <1>2, <1>3, <2>2 DEF TakenAtEnd
    <3>2. QED
      BY <1>8, <1>9, <2>2, <3>1 DEF LastTaken
  <2>3. QED
    BY <2>1, <2>2
<1>15. QED
  BY <1>4, <1>5, <1>6, <1>7, <1>8, <1>9, <1>11, <1>12, <1>13, <1>14 DEF Tally, SentBut, TakenBut

(* A place in the call of an opening.                                       *)
LEMMA InsideFacts ==
  ASSUME NEW pr, Program(pr), NEW c \in DOMAIN pr, NEW a, a # Idle, ~ Checking(a)
  PROVE  /\ Begun(pr, c, a) = Begins(pr, c) /\ Ended(pr, c, a) = Ends(pr, c - 1)
         /\ Onward(c, a) = c
         /\ \A op : Inside(pr, c, a, op) <=> pr[c].op = op
BY PlaceCounts DEF Inside, Onward

(* Only one place is out of calls.                                        *)
LEMMA InACall == \A do, i, last : do # "idle" => At(do, i, last) # Idle
  BY DEF Idle, Local, At

(* A call that is not an end ends nothing.                                *)
LEMMA EndsSame ==
  ASSUME NEW pr, Program(pr), NEW c \in DOMAIN pr, pr[c].op # "end"
  PROVE  Ends(pr, c) = Ends(pr, c - 1)
<1>1. c \in 1 .. Len(pr) + 1
  BY PlaceCounts
<1>2. PICK x, y : x = CallsOf("end", pr, c) /\ y = CallsOf("end", pr, c - 1)
  OBVIOUS
<1>3. x = y + (IF pr[c].op = "end" THEN 1 ELSE 0) /\ y \in Nat
  BY <1>1, <1>2, CallNumbers
<1>4. x = y
  BY <1>3
<1>5. QED
  BY <1>2, <1>4 DEF Ends

(* An opening that has begun is one of the begun.                           *)
LEMMA BeginsBefore ==
  ASSUME NEW pr, Program(pr), NEW c \in DOMAIN pr, pr[c].op = "begin"
  PROVE  Begins(pr, c) - 1 \in Nat
<1>1. c \in 1 .. Len(pr) + 1
  BY PlaceCounts
<1>2. PICK x, y : x = CallsOf("begin", pr, c) /\ y = CallsOf("begin", pr, c - 1)
  OBVIOUS
<1>3. x = y + (IF pr[c].op = "begin" THEN 1 ELSE 0) /\ y \in Nat
  BY <1>1, <1>2, CallNumbers
<1>4. x - 1 \in Nat
  BY <1>3
<1>5. QED
  BY <1>2, <1>4 DEF Begins

(* Between two calls.                                                     *)
LEMMA IdleFacts ==
  ASSUME NEW pr, Program(pr), NEW c \in DOMAIN pr
  PROVE  /\ Onward(c, Idle) = c + 1
         /\ Begun(pr, c + 1, Idle) = Begins(pr, c) /\ Ended(pr, c + 1, Idle) = Ends(pr, c)
         /\ \A op, d : ~ Inside(pr, d, Idle, op)
<1>1. Onward(c, Idle) = c + 1
  BY DEF Onward
<1>2. \A op, d : ~ Inside(pr, d, Idle, op)
  BY DEF Inside
<1>3. Begun(pr, Onward(c, Idle), Idle) = Begins(pr, c) /\ Ended(pr, Onward(c, Idle), Idle) = Ends(pr, c)
  BY PlaceCounts
<1>4. QED
  BY <1>1, <1>2, <1>3

(* Between two calls is a place.                                          *)
LEMMA IdlePlace ==
  ASSUME NEW me, NEW pr, Program(pr), NEW p, NEW c \in DOMAIN pr
  PROVE  PlaceOK(me, pr, p, c + 1, Idle)
<1>1. c + 1 \in 1 .. Len(pr) + 1
  BY PlaceCounts
<1>2. QED
  BY <1>1 DEF PlaceOK, Idle, Local, At

(* What changes for a player's place in each step: its sum is passed on.  *)
LEMMA PassUpPlace ==
  ASSUME NEW pr, Program(pr), NEW p \in Player, NEW c \in DOMAIN pr, NEW a, PlaceOK("tree", pr, p, c, a),
         a.do = "pass_up", NEW z, z = IF Relays(p) THEN AwaitSum(p) ELSE Idle
  PROVE  /\ pr[c].op = "begin" /\ Inside(pr, c, a, "begin")
         /\ PlaceOK("tree", pr, p, Onward(c, z), z)
         /\ z # Idle => z.do = "receive"
         /\ Tally("tree", pr, p, Onward(c, z), z) = Tally("tree", pr, p, c, a)
         /\ a.i \in Player /\ a.i < p /\ Linked("tree", p, a.i)
         /\ LastSent("tree", pr, p, a.i, Onward(c, z), z) = After("tree", LastSent("tree", pr, p, a.i, c, a))
         /\ After("tree", LastSent("tree", pr, p, a.i, c, a))[1] = NumberOf(pr, c)
         /\ SentBut("tree", pr, p, a.i, c, a, z) /\ TakenBut("tree", pr, p, p, c, a, z)
<1>1. p \in Nat /\ N \in Nat /\ p < N /\ N >= 2
  BY PlayerFacts
<1>2. a # Idle /\ ~ Checking(a)
  BY DEF Idle, Local, At, Checking
<1>3. pr[c].op = "begin" /\ SumPlace(p, a) /\ a.i \in Nat /\ a.last \in Nat
  BY <1>2 DEF PlaceOK, TreeBegin, TreeEnd
<1>4. Inside(pr, c, a, "begin") /\ ~ Inside(pr, c, a, "end")
  BY <1>2, <1>3 DEF Inside
<1>5. PICK r \in Nat : Level[r].last = a.last
  BY <1>3 DEF SumPlace
<1>6. PICK s : s = SumPlayers(a.last)
  OBVIOUS
<1>7. /\ a.last > 1 /\ s <= p /\ p < a.last /\ a.i = p % s
      /\ s \in Nat /\ s >= 1
  BY <1>3, <1>5, <1>6, LevelLess DEF SumPlace
<1>8. a.i \in Player /\ a.i < p /\ a.i < s
  <2>1. a.i < s
    BY <1>1, <1>7, Remainder
  <2>2. QED
    BY <1>1, <1>3, <1>7, <2>1 DEF Player
<1>9. Parent(p, a.i)
  BY <1>5, <1>6, <1>7 DEF Parent, PassesIn
<1>10. Linked("tree", p, a.i)
  BY <1>1, <1>3, <1>8, <1>9 DEF Linked
<1>11. p > 0
  BY <1>1, <1>7
<1>12. PICK i : i = AwaitSum(p).i
  OBVIOUS
<1>13. i \in Nat /\ i < p /\ AwaitSum(p) = At("receive", i, 0) /\ i = p \div MaxBroadcast
  BY <1>11, <1>12, AwaitFacts, PlayerFacts
<1>14. Relays(p) => z = At("receive", i, 0) /\ z.do = "receive" /\ z.i = i /\ z.last = 0 /\ z # Idle /\ ~ Checking(z)
  BY <1>13 DEF At, Idle, Local, Checking
<1>15. c \in 1 .. Len(pr) + 1
  BY PlaceCounts
<1>16. PlaceOK("tree", pr, p, Onward(c, z), z)
  <2>1. CASE Relays(p)
    <3>1. Onward(c, z) = c
      BY <1>14, <2>1 DEF Onward
    <3>2. QED
      BY <1>3, <1>11, <1>13, <1>14, <1>15, <2>1, <3>1 DEF PlaceOK, TreeBegin
  <2>2. CASE ~ Relays(p)
    BY <2>2, IdlePlace, IdleFacts
  <2>3. QED
    BY <2>1, <2>2
<1>17. PICK d : d = Onward(c, z)
  OBVIOUS
<1>18. PICK b, e : b = Begins(pr, c) /\ e = Ends(pr, c - 1)
  OBVIOUS
<1>19. /\ b \in Nat /\ e \in Nat /\ b - 1 \in Nat /\ NumberOf(pr, c) = b
       /\ Begun(pr, c, a) = b /\ Ended(pr, c, a) = e /\ Begun(pr, d, z) = b /\ Ended(pr, d, z) = e
  <2>1. Ends(pr, c) = Ends(pr, c - 1)
    BY <1>3, EndsSame
  <2>2. Begins(pr, c) - 1 \in Nat
    BY <1>3, BeginsBefore
  <2>3. QED
    BY <1>2, <1>3, <1>14, <1>17, <1>18, <2>1, <2>2, PlaceCounts
<1>20. ~ Inside(pr, d, z, "end") /\ (Inside(pr, d, z, "begin") <=> Relays(p))
  BY <1>3, <1>14, <1>17 DEF Inside, Onward
<1>21. Tally("tree", pr, p, d, z) = Tally("tree", pr, p, c, a)
  <2>1. Stored("tree", pr, p, d, z) = Stored("tree", pr, p, c, a)
    <3>1. ~ Closing(pr, d, z) /\ ~ Closing(pr, c, a)
      BY <1>4, <1>20 DEF Closing
    <3>2. QED
      BY <1>4, <1>14, <1>19, <1>20, <3>1 DEF Stored
  <2>2. QED
    BY <1>19, <2>1 DEF Tally, Replaced
<1>22. /\ LastSent("tree", pr, p, a.i, c, a) = <<b - 1, 1>>
       /\ LastSent("tree", pr, p, a.i, d, z) = <<b, 1>>
  <2>1. Unsent("tree", p, a.i, a)
    BY <1>8 DEF Unsent, Upwards
  <2>2. Relays(p) => ~ Unsent("tree", p, a.i, z)
    BY <1>1, <1>3, <1>8, <1>14 DEF Unsent, Upwards
  <2>3. QED
    BY <1>4, <1>19, <1>20, <2>1, <2>2 DEF LastSent
<1>23. After("tree", <<b - 1, 1>>) = <<b, 1>>
  BY <1>19 DEF After, PerOpening
<1>24. ASSUME NEW q \in Player, Linked("tree", p, q), q # a.i
       PROVE  LastSent("tree", pr, p, q, d, z) = LastSent("tree", pr, p, q, c, a)
  <2>1. q \in Nat /\ q # p
    BY <1>24, PlayerFacts DEF Linked
  <2>2. CASE q < p
    <3>1. Parent(p, q)
      BY <1>24, <2>1, <2>2, <1>1 DEF Linked
    <3>2. PICK k \in Nat : PassesIn(p, k) /\ q = p % SumPlayers(Level[k].last)
      BY <3>1 DEF Parent
    <3>3. PassesIn(p, r)
      BY <1>5, <1>6, <1>7 DEF PassesIn
    <3>4. k = r
      BY <1>1, <3>2, <3>3, RoundUnique
    <3>5. QED
      BY <1>5, <1>6, <1>7, <1>24, <3>2, <3>4
  <2>3. CASE p < q
    <3>1. Relays(p)
      BY <1>1, <1>24, <2>1, <2>3, SendStarts DEF Linked
    <3>2. Unsent("tree", p, q, a) /\ Unsent("tree", p, q, z)
      BY <1>1, <1>14, <2>1, <2>3, <3>1 DEF Unsent, Upwards
    <3>3. QED
      BY <1>4, <1>19, <1>20, <3>1, <3>2 DEF LastSent
  <2>4. QED
    BY <1>1, <2>1, <2>2, <2>3
<1>25. ASSUME NEW q \in Player, Linked("tree", q, p)
       PROVE  LastTaken("tree", pr, q, p, d, z) = LastTaken("tree", pr, q, p, c, a)
  <2>1. q \in Nat
    BY PlayerFacts
  <2>2. CASE q > p
    <3>1. ~ Untaken(q, p, a) /\ ~ (Relays(p) /\ Untaken(q, p, z))
      BY <1>14, <2>2 DEF Untaken
    <3>2. QED
      BY <1>4, <1>19, <1>20, <2>2, <3>1 DEF LastTaken
  <2>3. CASE ~ (q > p) /\ Relays(p)
    <3>1. Untaken(q, p, a) /\ Untaken(q, p, z)
      BY <1>14, <2>3 DEF Untaken, Upwards
    <3>2. QED
      BY <1>4, <1>19, <1>20, <2>3, <3>1 DEF LastTaken
  <2>4. CASE ~ (q > p) /\ ~ Relays(p)
    BY <1>4, <1>19, <1>20, <2>4 DEF LastTaken
  <2>5. QED
    BY <2>2, <2>3, <2>4
<1>26. <<b, 1>>[1] = b
  OBVIOUS
<1>27. QED
  BY <1>3, <1>4, <1>8, <1>10, <1>14, <1>16, <1>17, <1>19, <1>21, <1>22, <1>23, <1>24, <1>25, <1>26 DEF SentBut, TakenBut

(* The sum, or the own share, is sent to one more player.                 *)
LEMMA SendPlace ==
  ASSUME NEW me \in {"tree", "direct"}, NEW pr, Program(pr), NEW p \in Player, NEW c \in DOMAIN pr,
         NEW a, PlaceOK(me, pr, p, c, a), a.do = "send",
         NEW next, next = IF me = "tree" THEN a.i + 1 ELSE Other(p, a.i + 1),
         NEW end, end = IF me = "tree" THEN Receivers(p) ELSE N,
         NEW z, z = IF next < end THEN At("send", next, 0)
                    ELSE IF me = "tree" /\ p > 0 THEN Idle ELSE Local("append")
  PROVE  /\ pr[c].op = "begin" /\ Inside(pr, c, a, "begin")
         /\ PlaceOK(me, pr, p, Onward(c, z), z)
         /\ z # Idle => z.do \in {"send", "append"}
         /\ Tally(me, pr, p, Onward(c, z), z) = Tally(me, pr, p, c, a)
         /\ a.i \in Player /\ a.i # p /\ Linked(me, p, a.i)
         /\ me = "tree" => p < a.i
         /\ LastSent(me, pr, p, a.i, Onward(c, z), z) = After(me, LastSent(me, pr, p, a.i, c, a))
         /\ After(me, LastSent(me, pr, p, a.i, c, a))[1] = NumberOf(pr, c)
         /\ SentBut(me, pr, p, a.i, c, a, z) /\ TakenBut(me, pr, p, p, c, a, z)
<1>1. p \in Nat /\ N \in Nat /\ p < N /\ N >= 2
  BY PlayerFacts
<1>2. a # Idle /\ ~ Checking(a)
  BY DEF Idle, Local, At, Checking
<1>3. /\ pr[c].op = "begin" /\ a.i \in Nat
      /\ me = "tree" => Relays(p) /\ a.i < Receivers(p) /\ (IF p = 0 THEN 1 ELSE p * MaxBroadcast) <= a.i
      /\ me = "direct" => OtherPlace(p, a)
  BY <1>2 DEF PlaceOK, TreeBegin, TreeEnd, SumPlace
<1>4. Inside(pr, c, a, "begin") /\ ~ Inside(pr, c, a, "end")
  BY <1>2, <1>3 DEF Inside
<1>5. PICK i : i = a.i
  OBVIOUS
<1>6. me = "tree" => /\ i \in Player /\ p < i /\ p = i \div MaxBroadcast
                     /\ ~ (i + 1 < Receivers(p)) => \A q \in Player : p = q \div MaxBroadcast => q <= i
  BY <1>3, <1>5, SendStep
<1>7. me = "direct" => i \in Player /\ i # p
  BY <1>3, <1>5 DEF OtherPlace
<1>8. i \in Player /\ i # p /\ i \in Nat /\ i < N /\ Linked(me, p, i)
  <2>1. i \in Player /\ i # p
    BY <1>1, <1>6, <1>7
  <2>2. i \in Nat /\ i < N
    BY <2>1, PlayerFacts
  <2>3. CASE me = "tree"
    <3>1. p < i /\ p = i \div MaxBroadcast /\ i > p /\ ~ (i < p)
      BY <1>1, <1>6, <2>2, <2>3
    <3>2. QED
      BY <2>1, <2>2, <2>3, <3>1 DEF Linked
  <2>4. CASE me = "direct"
    BY <2>1, <2>2, <2>4 DEF Linked
  <2>5. QED
    BY <2>1, <2>2, <2>3, <2>4
<1>9. next \in Nat /\ i < next /\ (me = "tree" => next = i + 1)
      /\ \A q \in Player : Linked(me, p, q) /\ q # i /\ i <= q => next <= q
  <2>1. CASE me = "tree"
    <3>1. next = i + 1
      BY <1>5, <2>1
    <3>2. QED
      BY <1>8, <2>1, <3>1, PlayerFacts
  <2>2. CASE me = "direct"
    <3>1. next = Other(p, i + 1) /\ i + 1 \in Nat
      BY <1>5, <1>8, <2>2
    <3>2. next \in Nat /\ i + 1 <= next /\ \A q \in Player : q # p /\ i + 1 <= q => next <= q
      BY <3>1, OtherFacts
    <3>3. \A q \in Player : q # i /\ i <= q => i + 1 <= q
      BY <1>8, PlayerFacts
    <3>4. \A q \in Player : Linked(me, p, q) => q # p
      BY <2>2 DEF Linked
    <3>5. i < next /\ me # "tree"
      BY <1>8, <2>2, <3>2
    <3>6. QED
      BY <3>2, <3>3, <3>4, <3>5
  <2>3. QED
    BY <2>1, <2>2
<1>10. next < end => /\ z = At("send", next, 0) /\ z.do = "send" /\ z.i = next /\ z.last = 0
                     /\ z # Idle /\ ~ Checking(z)
  BY DEF At, Idle, Local, Checking
<1>11. ~ (next < end) /\ ~ (me = "tree" /\ p > 0) =>
         z = At("append", 0, 0) /\ z.do = "append" /\ z.i = 0 /\ z.last = 0 /\ z # Idle /\ ~ Checking(z)
  BY DEF At, Idle, Local, Checking
<1>12. ~ (next < end) /\ (me = "tree" /\ p > 0) => z = Idle
  OBVIOUS
<1>13. ~ (next < end) => \A q \in Player : Linked(me, p, q) /\ q # i => q < i
  <2>1. SUFFICES ASSUME ~ (next < end), NEW q \in Player, Linked(me, p, q), q # i PROVE q < i
    OBVIOUS
  <2>2. q \in Nat /\ q < N
    BY PlayerFacts
  <2>3. CASE me = "direct"
    <3>1. N <= next
      BY <1>1, <1>9, <2>1, <2>3
    <3>2. ~ (i <= q)
      BY <1>1, <1>9, <2>1, <2>2, <3>1
    <3>3. QED
      BY <1>8, <2>2, <3>2
  <2>4. CASE me = "tree"
    <3>1. ~ (i + 1 < Receivers(p))
      BY <1>9, <2>1, <2>4
    <3>2. p < q => p = q \div MaxBroadcast
      BY <1>1, <2>1, <2>2, <2>4 DEF Linked
    <3>3. p < q => q <= i
      BY <1>6, <2>4, <3>1, <3>2
    <3>4. QED
      BY <1>1, <1>6, <1>8, <2>1, <2>2, <2>4, <3>3
  <2>5. QED
    BY <2>3, <2>4
<1>14. c \in 1 .. Len(pr) + 1
  BY PlaceCounts
<1>15. PlaceOK(me, pr, p, Onward(c, z), z)
  <2>1. CASE next < end /\ me = "tree"
    <3>1. Onward(c, z) = c
      BY <1>10, <2>1 DEF Onward
    <3>2. PICK f : f = IF p = 0 THEN 1 ELSE p * MaxBroadcast
      OBVIOUS
    <3>3. f \in Nat /\ f <= i
      <4>1. p * MaxBroadcast \in Nat
        BY RelayFacts
      <4>2. QED
        BY <1>3, <1>5, <2>1, <3>2, <4>1
    <3>4. f <= next /\ next < Receivers(p)
      BY <1>8, <1>9, <2>1, <3>3
    <3>5. TreeBegin(p, z)
      BY <1>3, <1>10, <2>1, <3>2, <3>4 DEF TreeBegin
    <3>6. QED
      BY <1>3, <1>9, <1>10, <1>14, <2>1, <3>1, <3>5 DEF PlaceOK
  <2>2. CASE next < end /\ me = "direct"
    <3>1. Onward(c, z) = c
      BY <1>10, <2>2 DEF Onward
    <3>2. next \in Player
      BY <1>1, <1>9, <2>2 DEF Player
    <3>3. next # p
      <4>1. next = Other(p, i + 1) /\ i + 1 \in Nat
        BY <1>5, <1>8, <2>2
      <4>2. QED
        BY <4>1, OtherFacts
    <3>4. OtherPlace(p, z)
      BY <1>10, <2>2, <3>2, <3>3 DEF OtherPlace
    <3>5. QED
      BY <1>3, <1>9, <1>10, <1>14, <2>2, <3>1, <3>4 DEF PlaceOK
  <2>3. CASE ~ (next < end) /\ (me = "tree" /\ p > 0)
    BY <1>12, <2>3, IdlePlace, IdleFacts
  <2>4. CASE ~ (next < end) /\ ~ (me = "tree" /\ p > 0)
    <3>1. Onward(c, z) = c
      BY <1>11, <2>4 DEF Onward
    <3>2. QED
      BY <1>3, <1>11, <1>14, <2>4, <3>1 DEF PlaceOK, TreeBegin
  <2>5. QED
    BY <2>1, <2>2, <2>3, <2>4
<1>16. z # Idle => z.do \in {"send", "append"} /\ ~ Checking(z)
  BY <1>10, <1>11, <1>12
<1>17. PICK d : d = Onward(c, z)
  OBVIOUS
<1>18. PICK b, e : b = Begins(pr, c) /\ e = Ends(pr, c - 1)
  OBVIOUS
<1>19. /\ b \in Nat /\ e \in Nat /\ b - 1 \in Nat /\ NumberOf(pr, c) = b
       /\ Begun(pr, c, a) = b /\ Ended(pr, c, a) = e /\ Begun(pr, d, z) = b /\ Ended(pr, d, z) = e
  <2>1. Ends(pr, c) = Ends(pr, c - 1)
    BY <1>3, EndsSame
  <2>2. Begins(pr, c) - 1 \in Nat
    BY <1>3, BeginsBefore
  <2>3. QED
    <3>1. Begun(pr, c, a) = b /\ Ended(pr, c, a) = e
      BY <1>2, <1>18, PlaceCounts
    <3>2. Begun(pr, d, z) = b /\ Ended(pr, d, z) = e
      BY <1>16, <1>17, <1>18, <2>1, PlaceCounts
    <3>3. b \in Nat /\ e \in Nat /\ NumberOf(pr, c) = b
      BY <1>3, <1>18, PlaceCounts DEF NumberOf, Begins
    <3>4. QED
      BY <1>18, <2>2, <3>1, <3>2, <3>3
<1>20. ~ Inside(pr, d, z, "end") /\ (Inside(pr, d, z, "begin") <=> z # Idle)
  BY <1>3, <1>16, <1>17 DEF Inside, Onward
<1>21. Tally(me, pr, p, d, z) = Tally(me, pr, p, c, a)
  <2>1. Stored(me, pr, p, d, z) = Stored(me, pr, p, c, a)
    <3>1. ~ Closing(pr, d, z) /\ ~ Closing(pr, c, a)
      BY <1>4, <1>20 DEF Closing
    <3>2. me = "tree" => Relays(p)
      BY <1>3
    <3>3. CASE me = "tree" /\ p > 0
      <4>1. Stored(me, pr, p, c, a) = b - 0
        BY <1>19, <3>2, <3>3 DEF Stored
      <4>2. Stored(me, pr, p, d, z) = b - 0
        <5>1. z = Idle \/ z.do = "send"
          BY <1>10, <1>12, <3>3
        <5>2. QED
          BY <1>19, <1>20, <3>2, <3>3, <5>1 DEF Stored
      <4>3. QED
        BY <4>1, <4>2
    <3>4. CASE ~ (me = "tree" /\ p > 0)
      <4>1. z # Idle
        BY <1>10, <1>11, <3>4
      <4>2. QED
        BY <1>4, <1>19, <1>20, <3>2, <3>4, <4>1 DEF Stored
    <3>5. QED
      BY <3>3, <3>4
  <2>2. Replaced(me, pr, d, z) = Replaced(me, pr, c, a)
    BY <1>4, <1>20 DEF Closing, Replaced
  <2>3. QED
    BY <1>19, <2>1, <2>2 DEF Tally
<1>22. ASSUME NEW q \in Player, Linked(me, p, q)
       PROVE  /\ me = "tree" /\ q < p =>
                   LastSent(me, pr, p, q, c, a) = <<b, 1>> /\ LastSent(me, pr, p, q, d, z) = <<b, 1>>
              /\ ~ (me = "tree" /\ q < p) =>
                   /\ LastSent(me, pr, p, q, c, a) = <<IF i <= q THEN b - 1 ELSE b, 1>>
                   /\ LastSent(me, pr, p, q, d, z) = <<IF next < end /\ next <= q THEN b - 1 ELSE b, 1>>
  <2>1. q \in Nat /\ q # p
    BY <1>22, PlayerFacts DEF Linked
  <2>2. CASE me = "tree" /\ q < p
    <3>1. ~ Unsent(me, p, q, a)
      BY <1>1, <2>1, <2>2 DEF Unsent, Upwards
    <3>2. z # Idle => ~ Unsent(me, p, q, z)
      BY <1>1, <2>1, <1>16, <2>2 DEF Unsent, Upwards
    <3>3. QED
      BY <1>4, <1>19, <1>20, <2>2, <3>1, <3>2 DEF LastSent
  <2>3. CASE me = "tree" /\ ~ (q < p)
    <3>1. Unsent(me, p, q, a) <=> i <= q
      BY <1>1, <1>5, <2>1, <2>3 DEF Unsent, Upwards
    <3>2. CASE next < end
      <4>1. Unsent(me, p, q, z) <=> next <= q
        BY <1>1, <1>10, <2>1, <2>3, <3>2 DEF Unsent, Upwards
      <4>2. QED
        BY <1>4, <1>10, <1>19, <1>20, <2>3, <3>1, <3>2, <4>1 DEF LastSent
    <3>3. CASE ~ (next < end) /\ p > 0
      BY <1>4, <1>12, <1>19, <1>20, <2>3, <3>1, <3>3 DEF LastSent
    <3>4. CASE ~ (next < end) /\ ~ (p > 0)
      <4>1. ~ Unsent(me, p, q, z)
        BY <1>1, <1>11, <2>1, <2>3, <3>4 DEF Unsent, Upwards
      <4>2. QED
        BY <1>4, <1>11, <1>19, <1>20, <2>3, <3>1, <3>4, <4>1 DEF LastSent
    <3>5. QED
      BY <3>2, <3>3, <3>4
  <2>4. CASE me = "direct"
    <3>1. Unsent(me, p, q, a) <=> i <= q
      BY <1>5, <2>4 DEF Unsent
    <3>2. CASE next < end
      <4>1. Unsent(me, p, q, z) <=> next <= q
        BY <1>10, <2>4, <3>2 DEF Unsent
      <4>2. QED
        BY <1>4, <1>10, <1>19, <1>20, <2>4, <3>1, <3>2, <4>1 DEF LastSent
    <3>3. CASE ~ (next < end)
      <4>1. ~ Unsent(me, p, q, z) /\ z # Idle
        BY <1>11, <2>4, <3>3 DEF Unsent
      <4>2. QED
        BY <1>4, <1>19, <1>20, <2>4, <3>1, <3>3, <4>1 DEF LastSent
    <3>4. QED
      BY <3>2, <3>3
  <2>5. QED
    BY <2>2, <2>3, <2>4
<1>23. ~ (me = "tree" /\ i < p)
  BY <1>1, <1>6, <1>8
<1>24. ~ (next <= i)
  BY <1>8, <1>9
<1>25. /\ LastSent(me, pr, p, i, c, a) = <<b - 1, 1>>
       /\ LastSent(me, pr, p, i, d, z) = <<b, 1>>
  <2>1. i <= i
    BY <1>8
  <2>2. QED
    BY <1>8, <1>22, <1>23, <1>24, <2>1
<1>26. After(me, <<b - 1, 1>>) = <<b, 1>> /\ <<b, 1>>[1] = b
  BY <1>19 DEF After, PerOpening
<1>27. ASSUME NEW q \in Player, Linked(me, p, q), q # i
       PROVE  LastSent(me, pr, p, q, d, z) = LastSent(me, pr, p, q, c, a)
  <2>1. CASE me = "tree" /\ q < p
    BY <1>22, <1>27, <2>1
  <2>2. CASE ~ (me = "tree" /\ q < p)
    <3>1. q \in Nat
      BY PlayerFacts
    <3>2. next < end => (next <= q <=> i <= q)
      <4>1. i <= q => next <= q
        BY <1>9, <1>27
      <4>2. next <= q => i <= q
        BY <1>8, <1>9, <3>1
      <4>3. QED
        BY <4>1, <4>2
    <3>3. ~ (next < end) => ~ (i <= q)
      BY <1>8, <1>13, <1>27, <3>1
    <3>4. (next < end /\ next <= q) <=> i <= q
      BY <3>2, <3>3
    <3>5. /\ LastSent(me, pr, p, q, c, a) = <<IF i <= q THEN b - 1 ELSE b, 1>>
          /\ LastSent(me, pr, p, q, d, z) = <<IF next < end /\ next <= q THEN b - 1 ELSE b, 1>>
      BY <1>22, <1>27, <2>2
    <3>6. QED
      BY <3>4, <3>5
  <2>3. QED
    BY <2>1, <2>2
<1>28. ASSUME NEW q \in Player, Linked(me, q, p)
       PROVE  LastTaken(me, pr, q, p, d, z) = LastTaken(me, pr, q, p, c, a)
  <2>1. q \in Nat
    BY PlayerFacts
  <2>2. CASE me = "tree"
    <3>1. ~ Untaken(q, p, a) /\ (z # Idle => ~ Untaken(q, p, z))
      BY <1>16 DEF Untaken, Upwards
    <3>2. Relays(p)
      BY <1>3, <2>2
    <3>3. QED
      BY <1>4, <1>19, <1>20, <2>2, <3>1, <3>2 DEF LastTaken
  <2>3. CASE me = "direct"
    BY <1>4, <1>19, <1>20, <2>3 DEF LastTaken
  <2>4. QED
    BY <2>2, <2>3
<1>29. me = "tree" => p < i
  BY <1>6
<1>30. QED
  BY <1>3, <1>4, <1>5, <1>8, <1>15, <1>16, <1>17, <1>19, <1>21, <1>25, <1>26, <1>27, <1>28, <1>29 DEF SentBut, TakenBut

(* One more sum is added, on the way down to player 0.                    *)
LEMMA AddTreePlace ==
  ASSUME NEW pr, Program(pr), NEW p \in Player, NEW c \in DOMAIN pr, NEW a, PlaceOK("tree", pr, p, c, a),
         a.do = "add",
         NEW z, z = IF a.i + SumPlayers(a.last) < a.last
                    THEN At("add", a.i + SumPlayers(a.last), a.last) ELSE SumRound(p, SumPlayers(a.last))
  PROVE  /\ pr[c].op = "begin" /\ Inside(pr, c, a, "begin")
         /\ z # Idle /\ ~ Checking(z) /\ PlaceOK("tree", pr, p, c, z)
         /\ Tally("tree", pr, p, c, z) = Tally("tree", pr, p, c, a)
         /\ a.i \in Player /\ a.i # p /\ Linked("tree", a.i, p)
         /\ LastTaken("tree", pr, a.i, p, c, z) = After("tree", LastTaken("tree", pr, a.i, p, c, a))
         /\ After("tree", LastTaken("tree", pr, a.i, p, c, a)) = <<NumberOf(pr, c), 1>>
         /\ SentBut("tree", pr, p, p, c, a, z) /\ TakenBut("tree", pr, p, a.i, c, a, z)
         /\ Held("tree", pr, p, c, z) = Held("tree", pr, p, c, a) \cup Content("tree", a.i, p, 1)
         /\ Held("tree", pr, p, c, a) \cap Content("tree", a.i, p, 1) = {}
<1>1. p \in Nat /\ N \in Nat /\ p < N /\ N >= 2
  BY PlayerFacts
<1>2. a # Idle /\ ~ Checking(a)
  BY DEF Idle, Local, At, Checking
<1>3. pr[c].op = "begin" /\ SumPlace(p, a) /\ a.i \in Nat /\ a.last \in Nat
  BY <1>2 DEF PlaceOK, TreeBegin, TreeEnd
<1>4. Inside(pr, c, a, "begin") /\ ~ Inside(pr, c, a, "end")
  BY <1>2, <1>3 DEF Inside
<1>5. /\ a.i \in Player /\ p < a.i /\ Parent(a.i, p)
      /\ z.i \in Nat /\ z.last \in Nat /\ z = At(z.do, z.i, z.last)
      /\ (z.do \in {"add", "pass_up"} /\ SumPlace(p, z)) \/ (z = At("send", 1, 0) /\ p = 0)
      /\ Partial(p, a.i, a.last) \cap Part(a.i) = {}
      /\ Held("tree", pr, p, c, z) = Partial(p, a.i, a.last) \cup Part(a.i)
      /\ Untaken(a.i, p, a) /\ ~ Untaken(a.i, p, z)
      /\ \A q \in Player : p < q /\ Parent(q, p) /\ q # a.i => (Untaken(q, p, z) <=> Untaken(q, p, a))
  <2>1. /\ a.i \in Player /\ p < a.i /\ Parent(a.i, p)
        /\ z.i \in Nat /\ z.last \in Nat /\ z = At(z.do, z.i, z.last)
        /\ (z.do \in {"add", "pass_up"} /\ SumPlace(p, z)) \/ (z = At("send", 1, 0) /\ p = 0)
        /\ Partial(p, a.i, a.last) \cap Part(a.i) = {}
    <3>1. a.i \in Player /\ p < a.i /\ Parent(a.i, p)
      BY <1>3, AddStep
    <3>2. z.i \in Nat /\ z.last \in Nat
      BY <1>3, AddStep
    <3>3. z = At(z.do, z.i, z.last)
      BY SMT DEF SumRound, At
    <3>4. (z.do \in {"add", "pass_up"} /\ SumPlace(p, z)) \/ (z = At("send", 1, 0) /\ p = 0)
      BY <1>3, AddStep
    <3>5. Partial(p, a.i, a.last) \cap Part(a.i) = {}
      BY <1>3, AddStep
    <3>6. QED
      BY <3>1, <3>2, <3>3, <3>4, <3>5
  <2>2. Held("tree", pr, p, c, z) = Partial(p, a.i, a.last) \cup Part(a.i)
    <3>1. HeldInTree(p, z) = Partial(p, a.i, a.last) \cup Part(a.i)
      BY <1>3, AddStep
    <3>2. z = At("send", 1, 0) => z.do = "send"
      BY DEF At
    <3>3. Held("tree", pr, p, c, z) = HeldInTree(p, z)
      BY <2>1, <3>2 DEF Held, HeldInTree
    <3>4. QED
      BY <3>1, <3>3
  <2>3. Untaken(a.i, p, a) /\ ~ Untaken(a.i, p, z)
    BY <1>3, AddStep
  <2>4. \A q \in Player : p < q /\ Parent(q, p) /\ q # a.i => (Untaken(q, p, z) <=> Untaken(q, p, a))
    BY <1>3, AddStep
  <2>5. QED
    BY <2>1, <2>2, <2>3, <2>4
<1>6. z = At("send", 1, 0) => z.do = "send" /\ z.i = 1 /\ z.last = 0
  BY DEF At
<1>7. z.do \in {"add", "pass_up", "send"} /\ z # Idle /\ ~ Checking(z)
  <2>1. z.do \in {"add", "pass_up", "send"}
    BY <1>5, <1>6
  <2>2. QED
    BY <2>1 DEF Idle, Local, At, Checking
<1>8. a.i # p /\ a.i \in Nat /\ Linked("tree", a.i, p)
  BY <1>1, <1>3, <1>5 DEF Linked
<1>9. c \in 1 .. Len(pr) + 1 /\ Onward(c, z) = c
  BY <1>7, PlaceCounts DEF Onward
<1>10. PlaceOK("tree", pr, p, c, z)
  <2>1. CASE z.do \in {"add", "pass_up"} /\ SumPlace(p, z)
    BY <1>3, <1>5, <1>7, <1>9, <2>1 DEF PlaceOK, TreeBegin
  <2>2. CASE z = At("send", 1, 0) /\ p = 0
    <3>1. Relays(p) /\ 1 < Receivers(p)
      BY <2>2, SendStarts
    <3>2. TreeBegin(p, z)
      BY <1>6, <2>2, <3>1 DEF TreeBegin
    <3>3. QED
      BY <1>3, <1>5, <1>7, <1>9, <3>2 DEF PlaceOK
  <2>3. QED
    BY <1>5, <2>1, <2>2
<1>11. Inside(pr, c, z, "begin") /\ ~ Inside(pr, c, z, "end")
  BY <1>3, <1>7 DEF Inside
<1>12. PICK b, e : b = Begins(pr, c) /\ e = Ends(pr, c - 1)
  OBVIOUS
<1>13. /\ b \in Nat /\ e \in Nat /\ b - 1 \in Nat /\ NumberOf(pr, c) = b
       /\ Begun(pr, c, a) = b /\ Ended(pr, c, a) = e /\ Begun(pr, c, z) = b /\ Ended(pr, c, z) = e
  <2>1. Begins(pr, c) - 1 \in Nat
    BY <1>3, BeginsBefore
  <2>2. Begun(pr, c, a) = b /\ Ended(pr, c, a) = e /\ Begun(pr, c, z) = b /\ Ended(pr, c, z) = e
    BY <1>2, <1>7, <1>12, InsideFacts
  <2>3. b \in Nat /\ e \in Nat /\ NumberOf(pr, c) = b
    BY <1>3, <1>12, PlaceCounts DEF NumberOf, Begins
  <2>4. QED
    BY <1>12, <2>1, <2>2, <2>3
<1>14. Tally("tree", pr, p, c, z) = Tally("tree", pr, p, c, a)
  <2>1. ~ Closing(pr, c, z) /\ ~ Closing(pr, c, a)
    BY <1>4, <1>11 DEF Closing
  <2>2. ~ (p > 0 /\ z.do = "send")
    BY <1>1, <1>5
  <2>3. Stored("tree", pr, p, c, z) = Stored("tree", pr, p, c, a)
    BY <1>4, <1>11, <1>13, <2>1, <2>2 DEF Stored
  <2>4. QED
    BY <1>13, <2>3 DEF Tally, Replaced
<1>15. ASSUME NEW q \in Player, Linked("tree", p, q)
       PROVE  LastSent("tree", pr, p, q, c, z) = LastSent("tree", pr, p, q, c, a)
  <2>1. q \in Nat /\ q # p
    BY <1>1, <1>15, PlayerFacts DEF Linked
  <2>2. Unsent("tree", p, q, a)
    BY <1>1, <2>1 DEF Unsent, Upwards
  <2>3. Unsent("tree", p, q, z)
    <3>1. CASE z.do \in {"add", "pass_up"}
      BY <1>1, <2>1, <3>1 DEF Unsent, Upwards
    <3>2. CASE z = At("send", 1, 0) /\ p = 0
      BY <1>6, <2>1, <3>2 DEF Unsent
    <3>3. QED
      BY <1>5, <3>1, <3>2
  <2>4. QED
    BY <1>4, <1>11, <1>13, <2>2, <2>3 DEF LastSent
<1>16. ASSUME NEW q \in Player, Linked("tree", q, p), q # a.i
       PROVE  LastTaken("tree", pr, q, p, c, z) = LastTaken("tree", pr, q, p, c, a)
  <2>1. q \in Nat /\ q # p
    BY <1>1, <1>16, PlayerFacts DEF Linked
  <2>2. CASE p < q
    <3>1. Parent(q, p)
      BY <1>1, <1>16, <2>1, <2>2 DEF Linked
    <3>2. Untaken(q, p, z) <=> Untaken(q, p, a)
      BY <1>5, <1>16, <2>2, <3>1
    <3>3. q > p
      BY <1>1, <2>1, <2>2
    <3>4. QED
      BY <1>4, <1>11, <1>13, <3>2, <3>3 DEF LastTaken
  <2>3. CASE ~ (p < q)
    <3>1. q < p /\ ~ (q > p)
      BY <1>1, <2>1, <2>3
    <3>2. z.do \in {"add", "pass_up"}
      <4>1. ~ (p = 0)
        BY <1>1, <2>1, <3>1
      <4>2. QED
        BY <1>5, <4>1
    <3>3. Untaken(q, p, z) /\ Untaken(q, p, a)
      BY <3>1, <3>2 DEF Untaken, Upwards
    <3>4. QED
      BY <1>4, <1>11, <1>13, <3>1, <3>3 DEF LastTaken
  <2>4. QED
    BY <2>2, <2>3
<1>17. /\ LastTaken("tree", pr, a.i, p, c, a) = <<b - 1, 1>>
       /\ LastTaken("tree", pr, a.i, p, c, z) = <<b, 1>>
  <2>1. a.i > p
    BY <1>1, <1>3, <1>5
  <2>2. QED
    BY <1>4, <1>5, <1>11, <1>13, <2>1 DEF LastTaken
<1>18. After("tree", <<b - 1, 1>>) = <<b, 1>>
  BY <1>13 DEF After, PerOpening
<1>19. Held("tree", pr, p, c, a) = Partial(p, a.i, a.last) /\ Content("tree", a.i, p, 1) = Part(a.i)
  <2>1. a.i > p
    BY <1>1, <1>3, <1>5
  <2>2. QED
    BY <2>1 DEF Held, Content
<1>20. QED
  BY <1>3, <1>4, <1>5, <1>7, <1>8, <1>9, <1>10, <1>13, <1>14, <1>15, <1>16, <1>17, <1>18, <1>19 DEF SentBut, TakenBut

(* One more share is added at an opening's end.                           *)
LEMMA AddDirectPlace ==
  ASSUME NEW pr, Program(pr), NEW p \in Player, NEW c \in DOMAIN pr, NEW a, PlaceOK("direct", pr, p, c, a),
         a.do = "add", NEW next, next = Other(p, a.i + 1),
         NEW z, z = IF next < N THEN At("add", next, a.last) ELSE Local("put")
  PROVE  /\ pr[c].op = "end" /\ Inside(pr, c, a, "end")
         /\ z # Idle /\ ~ Checking(z) /\ PlaceOK("direct", pr, p, c, z) /\ z.do \in {"add", "put"}
         /\ Tally("direct", pr, p, c, z) = Tally("direct", pr, p, c, a)
         /\ a.i \in Player /\ a.i # p /\ Linked("direct", a.i, p)
         /\ LastTaken("direct", pr, a.i, p, c, z) = After("direct", LastTaken("direct", pr, a.i, p, c, a))
         /\ After("direct", LastTaken("direct", pr, a.i, p, c, a)) = <<Ended(pr, c, a) + 1, 1>>
         /\ SentBut("direct", pr, p, p, c, a, z) /\ TakenBut("direct", pr, p, a.i, c, a, z)
         /\ Held("direct", pr, p, c, z) = Held("direct", pr, p, c, a) \cup Content("direct", a.i, p, 1)
         /\ Held("direct", pr, p, c, a) \cap Content("direct", a.i, p, 1) = {}
<1>1. p \in Nat /\ N \in Nat /\ p < N /\ N >= 2
  BY PlayerFacts
<1>2. a # Idle /\ ~ Checking(a)
  BY DEF Idle, Local, At, Checking
<1>3. pr[c].op = "end" /\ a.i \in Player /\ a.i # p /\ a.last \in Nat
  BY <1>2 DEF PlaceOK, OtherPlace
<1>4. Inside(pr, c, a, "end") /\ ~ Inside(pr, c, a, "begin")
  BY <1>2, <1>3 DEF Inside
<1>5. PICK i : i = a.i
  OBVIOUS
<1>6. i \in Nat /\ i + 1 \in Nat /\ i < N /\ i \in Player /\ i # p
  BY <1>3, <1>5, PlayerFacts
<1>7. /\ next \in Nat /\ next # p /\ i < next
      /\ \A q \in Player : q # p => (q < next <=> q < i + 1)
  <2>1. /\ next \in Nat /\ next # p /\ i + 1 <= next
        /\ \A q \in Player : q # p => (q < next <=> q < i + 1)
    BY <1>5, <1>6, OtherFacts
  <2>2. QED
    BY <1>6, <2>1
<1>8. ASSUME NEW q \in Player, q # p, q # i PROVE q < next <=> q < i
  <2>1. q \in Nat /\ (q < next <=> q < i + 1)
    BY <1>7, <1>8, PlayerFacts
  <2>2. q < i + 1 <=> q < i
    BY <1>6, <1>8, <2>1
  <2>3. QED
    BY <2>1, <2>2
<1>9. next < N => z = At("add", next, a.last) /\ z.do = "add" /\ z.i = next /\ z.last = a.last
  BY DEF At
<1>10. ~ (next < N) => z = At("put", 0, 0) /\ z.do = "put" /\ z.i = 0 /\ z.last = 0
  BY DEF At, Local
<1>11. z.do \in {"add", "put"} /\ z # Idle /\ ~ Checking(z) /\ z = At(z.do, z.i, z.last)
  <2>1. z.do \in {"add", "put"} /\ z = At(z.do, z.i, z.last)
    BY <1>9, <1>10
  <2>2. QED
    BY <2>1 DEF Idle, Local, At, Checking
<1>12. c \in 1 .. Len(pr) + 1 /\ Onward(c, z) = c
  BY <1>11, PlaceCounts DEF Onward
<1>13. PlaceOK("direct", pr, p, c, z)
  <2>1. CASE next < N
    <3>1. next \in Player
      BY <1>1, <1>7, <2>1 DEF Player
    <3>2. OtherPlace(p, z)
      BY <1>7, <1>9, <2>1, <3>1 DEF OtherPlace
    <3>3. QED
      BY <1>3, <1>7, <1>9, <1>11, <1>12, <2>1, <3>2 DEF PlaceOK
  <2>2. CASE ~ (next < N)
    BY <1>3, <1>10, <1>11, <1>12, <2>2 DEF PlaceOK
  <2>3. QED
    BY <2>1, <2>2
<1>14. Inside(pr, c, z, "end") /\ ~ Inside(pr, c, z, "begin")
  BY <1>3, <1>11 DEF Inside
<1>15. PICK b, e : b = Begins(pr, c) /\ e = Ends(pr, c - 1)
  OBVIOUS
<1>16. /\ e \in Nat
       /\ Begun(pr, c, a) = b /\ Ended(pr, c, a) = e /\ Begun(pr, c, z) = b /\ Ended(pr, c, z) = e
  <2>1. Begun(pr, c, a) = b /\ Ended(pr, c, a) = e /\ Begun(pr, c, z) = b /\ Ended(pr, c, z) = e
    BY <1>2, <1>11, <1>15, InsideFacts
  <2>2. e \in Nat
    BY <1>15, PlaceCounts
  <2>3. QED
    BY <2>1, <2>2
<1>17. Tally("direct", pr, p, c, z) = Tally("direct", pr, p, c, a)
  <2>1. ~ Closing(pr, c, z) /\ ~ Closing(pr, c, a)
    BY <1>11 DEF Closing
  <2>2. Stored("direct", pr, p, c, z) = Stored("direct", pr, p, c, a)
    BY <1>4, <1>14, <1>16 DEF Stored
  <2>3. QED
    BY <1>16, <2>1, <2>2 DEF Tally, Replaced
<1>18. ASSUME NEW q \in Player
       PROVE  LastSent("direct", pr, p, q, c, z) = LastSent("direct", pr, p, q, c, a)
  BY <1>4, <1>14, <1>16 DEF LastSent
<1>19. ASSUME NEW q \in Player
       PROVE  /\ TakenAtEnd("direct", q, a) <=> q < i
              /\ TakenAtEnd("direct", q, z) <=> (next < N => q < next)
              /\ LastTaken("direct", pr, q, p, c, a) = <<IF TakenAtEnd("direct", q, a) THEN e + 1 ELSE e, 1>>
              /\ LastTaken("direct", pr, q, p, c, z) = <<IF TakenAtEnd("direct", q, z) THEN e + 1 ELSE e, 1>>
  <2>1. TakenAtEnd("direct", q, a) <=> q < i
    BY <1>5 DEF TakenAtEnd
  <2>2. TakenAtEnd("direct", q, z) <=> (next < N => q < next)
    <3>1. CASE next < N
      BY <1>9, <3>1 DEF TakenAtEnd
    <3>2. CASE ~ (next < N)
      BY <1>10, <3>2 DEF TakenAtEnd
    <3>3. QED
      BY <3>1, <3>2
  <2>3. /\ LastTaken("direct", pr, q, p, c, a) = <<IF TakenAtEnd("direct", q, a) THEN e + 1 ELSE e, 1>>
        /\ LastTaken("direct", pr, q, p, c, z) = <<IF TakenAtEnd("direct", q, z) THEN e + 1 ELSE e, 1>>
    BY <1>4, <1>14, <1>16 DEF LastTaken
  <2>4. QED
    BY <2>1, <2>2, <2>3
<1>20. ASSUME NEW q \in Player PROVE q < N /\ q \in Nat
  BY PlayerFacts
<1>21. /\ LastTaken("direct", pr, i, p, c, a) = <<e, 1>>
       /\ LastTaken("direct", pr, i, p, c, z) = <<e + 1, 1>>
  <2>1. ~ (i < i)
    BY <1>6
  <2>2. ~ TakenAtEnd("direct", i, a) /\ TakenAtEnd("direct", i, z)
    BY <1>6, <1>7, <1>19, <2>1
  <2>3. QED
    BY <1>6, <1>19, <2>2
<1>22. After("direct", <<e, 1>>) = <<e + 1, 1>>
  BY <1>16 DEF After, PerOpening
<1>23. ASSUME NEW q \in Player, q # p, q # i
       PROVE  LastTaken("direct", pr, q, p, c, z) = LastTaken("direct", pr, q, p, c, a)
  <2>1. ~ (next < N) => q < i
    <3>1. ~ (next < N) => q < next
      BY <1>1, <1>7, <1>20
    <3>2. QED
      BY <1>8, <1>23, <3>1
  <2>2. TakenAtEnd("direct", q, z) <=> TakenAtEnd("direct", q, a)
    BY <1>8, <1>19, <1>23, <2>1
  <2>3. QED
    BY <1>19, <2>2
<1>24. Held("direct", pr, p, c, a) = {p} \cup {q \in Player : q < i} /\ Content("direct", i, p, 1) = {i}
  BY <1>3, <1>5 DEF Held, Content
<1>25. Held("direct", pr, p, c, z) = IF next < N THEN {p} \cup {q \in Player : q < next} ELSE Player
  BY <1>3, <1>9, <1>10 DEF Held
<1>26. Held("direct", pr, p, c, a) \cap Content("direct", i, p, 1) = {}
  <2>1. ~ (i < i)
    BY <1>6
  <2>2. QED
    BY <1>6, <1>24, <2>1
<1>27. {p} \cup {q \in Player : q < next} = ({p} \cup {q \in Player : q < i}) \cup {i}
  <2>1. ASSUME NEW q PROVE (q \in {p} \cup {x \in Player : x < next}) <=> (q \in ({p} \cup {x \in Player : x < i}) \cup {i})
    BY <1>6, <1>7, <1>8
  <2>2. QED
    BY <2>1
<1>28. ~ (next < N) => Player = {p} \cup {q \in Player : q < next}
  <2>1. ASSUME ~ (next < N), NEW q \in Player PROVE q < next
    BY <1>1, <1>7, <1>20, <2>1
  <2>2. QED
    BY <2>1
<1>29. Held("direct", pr, p, c, z) = Held("direct", pr, p, c, a) \cup Content("direct", i, p, 1)
  BY <1>24, <1>25, <1>27, <1>28
<1>30. Linked("direct", i, p)
  BY <1>6 DEF Linked
<1>31. ASSUME NEW q \in Player, Linked("direct", q, p) PROVE q # p
  BY <1>31 DEF Linked
<1>32. SentBut("direct", pr, p, p, c, a, z)
  BY <1>12, <1>18 DEF SentBut
<1>33. TakenBut("direct", pr, p, i, c, a, z)
  BY <1>12, <1>23, <1>31 DEF TakenBut
<1>34. QED
  BY <1>3, <1>4, <1>5, <1>11, <1>13, <1>16, <1>17, <1>21, <1>22, <1>26, <1>29, <1>30, <1>32, <1>33

(* The sum is received from the tree.                                     *)
LEMMA ReceivePlace ==
  ASSUME NEW pr, Program(pr), NEW p \in Player, NEW c \in DOMAIN pr, NEW a, PlaceOK("tree", pr, p, c, a),
         a.do = "receive", NEW z, z = Local("append")
  PROVE  /\ z # Idle /\ ~ Checking(z) /\ z.do = "append" /\ PlaceOK("tree", pr, p, c, z)
         /\ pr[c].op = (IF Relays(p) THEN "begin" ELSE "end") /\ p > 0
         /\ Inside(pr, c, a, pr[c].op)
         /\ Tally("tree", pr, p, c, z) = Tally("tree", pr, p, c, a)
         /\ a.i \in Player /\ a.i # p /\ Linked("tree", a.i, p)
         /\ LastTaken("tree", pr, a.i, p, c, z) = After("tree", LastTaken("tree", pr, a.i, p, c, a))
         /\ After("tree", LastTaken("tree", pr, a.i, p, c, a)) =
              <<IF pr[c].op = "begin" THEN NumberOf(pr, c) ELSE Ended(pr, c, a) + 1, 1>>
         /\ SentBut("tree", pr, p, p, c, a, z) /\ TakenBut("tree", pr, p, a.i, c, a, z)
         /\ Content("tree", a.i, p, 1) = Player
<1>1. p \in Nat /\ N \in Nat /\ p < N /\ N >= 2
  BY PlayerFacts
<1>2. a # Idle /\ ~ Checking(a)
  BY DEF Idle, Local, At, Checking
<1>3. /\ pr[c].op = (IF Relays(p) THEN "begin" ELSE "end") /\ a = AwaitSum(p)
      /\ Relays(p) => p > 0
  <2>1. CASE pr[c].op = "begin"
    BY <1>2, <2>1 DEF PlaceOK, TreeBegin, SumPlace
  <2>2. CASE pr[c].op = "end"
    BY <1>2, <2>2 DEF PlaceOK, TreeEnd
  <2>3. QED
    BY <1>2, <2>1, <2>2 DEF PlaceOK
<1>4. p > 0
  <2>1. Relays(0)
    BY SendStarts, PlayerFacts
  <2>2. CASE p = 0
    BY <1>1, <1>3, <2>1, <2>2
  <2>3. QED
    BY <1>1, <2>2
<1>5. PICK i : i = a.i
  OBVIOUS
<1>6. i \in Player /\ i < p /\ i = p \div MaxBroadcast /\ i \in Nat
  BY <1>3, <1>4, <1>5, AwaitFacts, PlayerFacts
<1>7. i # p /\ p > i /\ ~ (p < i) /\ ~ (i > p)
  BY <1>1, <1>6
<1>8. Linked("tree", i, p)
  BY <1>6, <1>7 DEF Linked
<1>9. z = At("append", 0, 0) /\ z.do = "append" /\ z.i = 0 /\ z.last = 0
  BY DEF At, Local
<1>10. z # Idle /\ ~ Checking(z)
  BY <1>9 DEF Idle, Local, At, Checking
<1>11. c \in 1 .. Len(pr) + 1 /\ Onward(c, z) = c
  BY <1>10, PlaceCounts DEF Onward
<1>12. PlaceOK("tree", pr, p, c, z)
  <2>1. CASE Relays(p)
    BY <1>3, <1>9, <1>10, <1>11, <2>1 DEF PlaceOK, TreeBegin
  <2>2. CASE ~ Relays(p)
    BY <1>3, <1>9, <1>10, <1>11, <2>2 DEF PlaceOK, TreeEnd
  <2>3. QED
    BY <2>1, <2>2
<1>13. /\ Inside(pr, c, a, "begin") <=> Relays(p)
       /\ Inside(pr, c, a, "end") <=> ~ Relays(p)
       /\ Inside(pr, c, z, "begin") <=> Relays(p)
       /\ Inside(pr, c, z, "end") <=> ~ Relays(p)
       /\ Inside(pr, c, a, pr[c].op)
  BY <1>2, <1>3, <1>10 DEF Inside
<1>14. PICK b, e : b = Begins(pr, c) /\ e = Ends(pr, c - 1)
  OBVIOUS
<1>15. /\ b \in Nat /\ e \in Nat /\ (Relays(p) => NumberOf(pr, c) = b /\ b - 1 \in Nat)
       /\ Begun(pr, c, a) = b /\ Ended(pr, c, a) = e /\ Begun(pr, c, z) = b /\ Ended(pr, c, z) = e
  <2>1. Begun(pr, c, a) = b /\ Ended(pr, c, a) = e /\ Begun(pr, c, z) = b /\ Ended(pr, c, z) = e
    BY <1>2, <1>10, <1>14, InsideFacts
  <2>2. b \in Nat /\ e \in Nat
    BY <1>14, PlaceCounts
  <2>3. Relays(p) => NumberOf(pr, c) = b /\ b - 1 \in Nat
    BY <1>3, <1>14, PlaceCounts DEF NumberOf, Begins
  <2>4. QED
    BY <2>1, <2>2, <2>3
<1>16. Tally("tree", pr, p, c, z) = Tally("tree", pr, p, c, a)
  <2>1. ~ Closing(pr, c, z) /\ ~ Closing(pr, c, a)
    BY <1>9 DEF Closing
  <2>2. Stored("tree", pr, p, c, z) = Stored("tree", pr, p, c, a)
    BY <1>9, <1>13, <1>15, <2>1 DEF Stored
  <2>3. QED
    BY <1>15, <2>1, <2>2 DEF Tally, Replaced
<1>17. ASSUME NEW q \in Player, q # p
       PROVE  LastSent("tree", pr, p, q, c, z) = LastSent("tree", pr, p, q, c, a)
  <2>1. q \in Nat
    BY PlayerFacts
  <2>2. CASE Relays(p)
    <3>1. CASE q < p
      <4>1. ~ Unsent("tree", p, q, a) /\ ~ Unsent("tree", p, q, z)
        BY <1>1, <1>9, <2>1, <3>1 DEF Unsent, Upwards
      <4>2. QED
        BY <1>13, <1>15, <2>2, <4>1 DEF LastSent
    <3>2. CASE ~ (q < p)
      <4>1. Unsent("tree", p, q, a) /\ Unsent("tree", p, q, z)
        BY <1>1, <1>4, <1>9, <2>1, <3>2 DEF Unsent, Upwards
      <4>2. QED
        BY <1>13, <1>15, <2>2, <4>1 DEF LastSent
    <3>3. QED
      BY <3>1, <3>2
  <2>3. CASE ~ Relays(p)
    BY <1>13, <1>15, <2>3 DEF LastSent
  <2>4. QED
    BY <2>2, <2>3
<1>18. /\ LastTaken("tree", pr, i, p, c, a) = IF Relays(p) THEN <<b - 1, 1>> ELSE <<e, 1>>
       /\ LastTaken("tree", pr, i, p, c, z) = IF Relays(p) THEN <<b, 1>> ELSE <<e + 1, 1>>
  <2>1. CASE Relays(p)
    <3>1. Untaken(i, p, a) /\ ~ Untaken(i, p, z)
      BY <1>7, <1>9 DEF Untaken, Upwards
    <3>2. QED
      BY <1>13, <1>15, <2>1, <3>1 DEF LastTaken
  <2>2. CASE ~ Relays(p)
    <3>1. ~ TakenAtEnd("tree", i, a) /\ TakenAtEnd("tree", i, z)
      BY <1>9 DEF TakenAtEnd
    <3>2. QED
      BY <1>7, <1>13, <1>15, <2>2, <3>1 DEF LastTaken
  <2>3. QED
    BY <2>1, <2>2
<1>19. (Relays(p) => After("tree", <<b - 1, 1>>) = <<b, 1>>) /\ After("tree", <<e, 1>>) = <<e + 1, 1>>
  BY <1>15 DEF After, PerOpening
<1>20. ASSUME NEW q \in Player, Linked("tree", q, p), q # i
       PROVE  LastTaken("tree", pr, q, p, c, z) = LastTaken("tree", pr, q, p, c, a)
  <2>1. q \in Nat /\ q > p
    <3>1. q \in Nat /\ ((p > q) => q = p \div MaxBroadcast) /\ q # p
      BY <1>1, <1>20, PlayerFacts DEF Linked
    <3>2. QED
      BY <1>1, <1>6, <1>20, <3>1
  <2>2. ~ Untaken(q, p, a) /\ ~ Untaken(q, p, z)
    BY <1>9, <2>1 DEF Untaken
  <2>3. QED
    BY <1>13, <1>15, <2>1, <2>2 DEF LastTaken
<1>21. Content("tree", i, p, 1) = Player
  BY <1>7 DEF Content
<1>22. ASSUME NEW q \in Player, Linked("tree", p, q) PROVE q # p
  BY <1>1, <1>22 DEF Linked
<1>23. SentBut("tree", pr, p, p, c, a, z)
  BY <1>11, <1>17 DEF SentBut
<1>24. TakenBut("tree", pr, p, i, c, a, z)
  BY <1>11, <1>20 DEF TakenBut
<1>25. After("tree", LastTaken("tree", pr, i, p, c, a)) =
         <<IF pr[c].op = "begin" THEN NumberOf(pr, c) ELSE Ended(pr, c, a) + 1, 1>>
  <2>1. CASE Relays(p)
    BY <1>3, <1>15, <1>18, <1>19, <2>1
  <2>2. CASE ~ Relays(p)
    BY <1>3, <1>15, <1>18, <1>19, <2>2
  <2>3. QED
    BY <2>1, <2>2
<1>26. LastTaken("tree", pr, i, p, c, z) = After("tree", LastTaken("tree", pr, i, p, c, a))
  BY <1>18, <1>19
<1>27. QED
  BY <1>3, <1>4, <1>5, <1>6, <1>7, <1>8, <1>9, <1>10, <1>12, <1>13, <1>16, <1>21, <1>23, <1>24, <1>25, <1>26

(* The messages of a stream, numbered.                                    *)
LEMMA AroundNext ==
  ASSUME NEW b \in Nat, NEW i \in 1 .. N - 1, NEW x, x = Around(b, i - 1)
  PROVE  After("passing", x) = Around(b, i) /\ Around(b, i) = <<b, i>>
<1>1. N \in Nat /\ N >= 2
  BY SizeAssumption
<1>2. i \in Nat /\ i >= 1 /\ i <= N - 1 /\ i - 1 \in Nat
  BY <1>1
<1>3. Around(b, i) = <<b, i>>
  BY <1>2 DEF Around
<1>4. CASE i = 1
  <2>1. x = <<b - 1, N - 1>>
    BY <1>2, <1>4 DEF Around
  <2>2. ~ (x[2] < N - 1) /\ x[1] + 1 = b
    BY <1>1, <2>1
  <2>3. QED
    BY <1>3, <1>4, <2>2 DEF After, PerOpening
<1>5. CASE i # 1
  <2>1. x = <<b, i - 1>>
    BY <1>2, <1>5 DEF Around
  <2>2. x[2] < N - 1 /\ x[1] = b /\ x[2] + 1 = i
    BY <1>1, <1>2, <2>1
  <2>3. QED
    BY <1>3, <2>2 DEF After, PerOpening
<1>6. QED
  BY <1>3, <1>4, <1>5

(* A stream is passed on.                                                 *)
LEMMA PassPlace ==
  ASSUME NEW pr, Program(pr), NEW p \in Player, NEW c \in DOMAIN pr, NEW a, PlaceOK("passing", pr, p, c, a),
         a.do = "pass", NEW z, z = At("take", a.i, 0), NEW x, x = NextPlayer(p)
  PROVE  /\ z # Idle /\ ~ Checking(z) /\ PlaceOK("passing", pr, p, c, z) /\ z.do = "take" /\ z.i = a.i
         /\ pr[c].op = "begin" /\ Inside(pr, c, a, "begin") /\ a.i \in 1 .. N - 1
         /\ Tally("passing", pr, p, c, z) = Tally("passing", pr, p, c, a)
         /\ x \in Player /\ x # p /\ Linked("passing", p, x)
         /\ LastSent("passing", pr, p, x, c, z) = After("passing", LastSent("passing", pr, p, x, c, a))
         /\ After("passing", LastSent("passing", pr, p, x, c, a)) = <<NumberOf(pr, c), a.i>>
         /\ SentBut("passing", pr, p, x, c, a, z) /\ TakenBut("passing", pr, p, p, c, a, z)
<1>1. p \in Nat /\ N \in Nat /\ p < N /\ N >= 2
  BY PlayerFacts
<1>2. a # Idle /\ ~ Checking(a)
  BY DEF Idle, Local, At, Checking
<1>3. pr[c].op = "begin" /\ a.i \in 1 .. N - 1
  BY <1>2 DEF PlaceOK
<1>4. a.i \in Nat
  BY <1>1, <1>3
<1>5. z.do = "take" /\ z.i = a.i /\ z.last = 0 /\ z = At(z.do, z.i, z.last)
  BY DEF At
<1>6. z # Idle /\ ~ Checking(z)
  BY <1>5 DEF Idle, Local, At, Checking
<1>7. c \in 1 .. Len(pr) + 1 /\ Onward(c, z) = c
  BY <1>6, PlaceCounts DEF Onward
<1>8. PlaceOK("passing", pr, p, c, z)
  BY <1>3, <1>4, <1>5, <1>6, <1>7 DEF PlaceOK
<1>9. /\ Inside(pr, c, a, "begin") /\ ~ Inside(pr, c, a, "end")
      /\ Inside(pr, c, z, "begin") /\ ~ Inside(pr, c, z, "end")
  BY <1>2, <1>3, <1>6 DEF Inside
<1>10. PICK b, e : b = Begins(pr, c) /\ e = Ends(pr, c - 1)
  OBVIOUS
<1>11. /\ b \in Nat /\ NumberOf(pr, c) = b
       /\ Begun(pr, c, a) = b /\ Ended(pr, c, a) = e /\ Begun(pr, c, z) = b /\ Ended(pr, c, z) = e
  <2>1. Begun(pr, c, a) = b /\ Ended(pr, c, a) = e /\ Begun(pr, c, z) = b /\ Ended(pr, c, z) = e
    BY <1>2, <1>6, <1>10, InsideFacts
  <2>2. b \in Nat /\ NumberOf(pr, c) = b
    BY <1>3, <1>10, PlaceCounts DEF NumberOf, Begins
  <2>3. QED
    BY <2>1, <2>2
<1>12. Tally("passing", pr, p, c, z) = Tally("passing", pr, p, c, a)
  <2>1. Stored("passing", pr, p, c, z) = Stored("passing", pr, p, c, a)
    BY <1>9, <1>11 DEF Stored
  <2>2. QED
    BY <1>11, <2>1 DEF Tally, Replaced
<1>13. x \in Player /\ x # p /\ Linked("passing", p, x)
  BY BehindFacts DEF Linked
<1>14. ASSUME NEW q
       PROVE  /\ LastSent("passing", pr, p, q, c, a) = Around(b, a.i - 1)
              /\ LastSent("passing", pr, p, q, c, z) = Around(b, a.i)
              /\ LastTaken("passing", pr, q, p, c, a) = Around(b, a.i - 1)
              /\ LastTaken("passing", pr, q, p, c, z) = Around(b, a.i - 1)
  <2>1. Passed(a) = a.i - 1 /\ Passed(z) = a.i /\ Taken(a) = a.i - 1 /\ Taken(z) = a.i - 1
    BY <1>5 DEF Passed, Taken
  <2>2. QED
    BY <1>9, <1>11, <2>1 DEF LastSent, LastTaken
<1>15. ASSUME NEW q \in Player, Linked("passing", p, q) PROVE q = x
  BY <1>15 DEF Linked
<1>16. After("passing", Around(b, a.i - 1)) = Around(b, a.i) /\ Around(b, a.i) = <<b, a.i>>
  BY <1>3, <1>11, AroundNext
<1>17. SentBut("passing", pr, p, x, c, a, z)
  BY <1>15 DEF SentBut
<1>18. TakenBut("passing", pr, p, p, c, a, z)
  BY <1>7, <1>14 DEF TakenBut
<1>19. QED
  BY <1>3, <1>5, <1>6, <1>8, <1>9, <1>11, <1>12, <1>13, <1>14, <1>16, <1>17, <1>18

(* A stream is taken from the player before.                              *)
LEMMA TakePlace ==
  ASSUME NEW pr, Program(pr), NEW p \in Player, NEW c \in DOMAIN pr, NEW a, PlaceOK("passing", pr, p, c, a),
         a.do = "take", NEW z, z = IF a.i < N - 1 THEN At("pass", a.i + 1, 0) ELSE Local("append_stream"),
         NEW x, x = PreviousPlayer(p)
  PROVE  /\ z # Idle /\ ~ Checking(z) /\ PlaceOK("passing", pr, p, c, z) /\ z.do \in {"pass", "append_stream"}
         /\ pr[c].op = "begin" /\ Inside(pr, c, a, "begin") /\ a.i \in 1 .. N - 1
         /\ Tally("passing", pr, p, c, z) = Tally("passing", pr, p, c, a)
         /\ x \in Player /\ x # p /\ Linked("passing", x, p)
         /\ LastTaken("passing", pr, x, p, c, z) = After("passing", LastTaken("passing", pr, x, p, c, a))
         /\ After("passing", LastTaken("passing", pr, x, p, c, a)) = <<NumberOf(pr, c), a.i>>
         /\ SentBut("passing", pr, p, p, c, a, z) /\ TakenBut("passing", pr, p, x, c, a, z)
         /\ (IF z.do = "append_stream" THEN Player ELSE Behind(p, z.i)) = {p} \cup Behind(x, a.i)
         /\ {p} \cap Behind(x, a.i) = {}
<1>1. p \in Nat /\ N \in Nat /\ p < N /\ N >= 2
  BY PlayerFacts
<1>2. a # Idle /\ ~ Checking(a)
  BY DEF Idle, Local, At, Checking
<1>3. pr[c].op = "begin" /\ a.i \in 1 .. N - 1
  BY <1>2 DEF PlaceOK
<1>4. a.i \in Nat /\ a.i + 1 \in Nat /\ a.i <= N - 1 /\ (a.i + 1) - 1 = a.i /\ a.i >= 1
  BY <1>1, <1>3
<1>5. /\ a.i < N - 1 => z = At("pass", a.i + 1, 0) /\ z.do = "pass" /\ z.i = a.i + 1 /\ z.last = 0
      /\ ~ (a.i < N - 1) => z = At("append_stream", 0, 0) /\ z.do = "append_stream" /\ z.i = 0 /\ z.last = 0
  BY DEF At, Local
<1>6. z.do \in {"pass", "append_stream"} /\ z # Idle /\ ~ Checking(z) /\ z = At(z.do, z.i, z.last)
  <2>1. z.do \in {"pass", "append_stream"} /\ z = At(z.do, z.i, z.last)
    BY <1>5
  <2>2. QED
    BY <2>1 DEF Idle, Local, At, Checking
<1>7. c \in 1 .. Len(pr) + 1 /\ Onward(c, z) = c
  BY <1>6, PlaceCounts DEF Onward
<1>8. PlaceOK("passing", pr, p, c, z)
  <2>1. CASE a.i < N - 1
    <3>1. a.i + 1 \in 1 .. N - 1
      BY <1>1, <1>4, <2>1
    <3>2. QED
      BY <1>3, <1>4, <1>5, <1>6, <1>7, <2>1, <3>1 DEF PlaceOK
  <2>2. CASE ~ (a.i < N - 1)
    BY <1>3, <1>5, <1>6, <1>7, <2>2 DEF PlaceOK
  <2>3. QED
    BY <2>1, <2>2
<1>9. /\ Inside(pr, c, a, "begin") /\ ~ Inside(pr, c, a, "end")
      /\ Inside(pr, c, z, "begin") /\ ~ Inside(pr, c, z, "end")
  BY <1>2, <1>3, <1>6 DEF Inside
<1>10. PICK b, e : b = Begins(pr, c) /\ e = Ends(pr, c - 1)
  OBVIOUS
<1>11. /\ b \in Nat /\ NumberOf(pr, c) = b
       /\ Begun(pr, c, a) = b /\ Ended(pr, c, a) = e /\ Begun(pr, c, z) = b /\ Ended(pr, c, z) = e
  <2>1. Begun(pr, c, a) = b /\ Ended(pr, c, a) = e /\ Begun(pr, c, z) = b /\ Ended(pr, c, z) = e
    BY <1>2, <1>6, <1>10, InsideFacts
  <2>2. b \in Nat /\ NumberOf(pr, c) = b
    BY <1>3, <1>10, PlaceCounts DEF NumberOf, Begins
  <2>3. QED
    BY <2>1, <2>2
<1>12. Tally("passing", pr, p, c, z) = Tally("passing", pr, p, c, a)
  <2>1. Stored("passing", pr, p, c, z) = Stored("passing", pr, p, c, a)
    BY <1>9, <1>11 DEF Stored
  <2>2. QED
    BY <1>11, <2>1 DEF Tally, Replaced
<1>13. x \in Player /\ x # p /\ Linked("passing", x, p)
  BY BehindFacts DEF Linked
<1>14. ~ (a.i < N - 1) => N - 1 = a.i
  BY <1>1, <1>4
<1>15. ASSUME NEW q
       PROVE  /\ LastSent("passing", pr, p, q, c, a) = Around(b, a.i)
              /\ LastSent("passing", pr, p, q, c, z) = Around(b, a.i)
              /\ LastTaken("passing", pr, q, p, c, a) = Around(b, a.i - 1)
              /\ LastTaken("passing", pr, q, p, c, z) = Around(b, a.i)
  <2>1. Passed(a) = a.i /\ Taken(a) = a.i - 1
    BY DEF Passed, Taken
  <2>2. Passed(z) = a.i /\ Taken(z) = a.i
    <3>1. CASE a.i < N - 1
      BY <1>4, <1>5, <3>1 DEF Passed, Taken
    <3>2. CASE ~ (a.i < N - 1)
      BY <1>5, <1>14, <3>2 DEF Passed, Taken
    <3>3. QED
      BY <3>1, <3>2
  <2>3. QED
    BY <1>9, <1>11, <2>1, <2>2 DEF LastSent, LastTaken
<1>16. ASSUME NEW q \in Player, Linked("passing", q, p) PROVE q = x
  <2>1. p = NextPlayer(q)
    BY <1>16 DEF Linked
  <2>2. PreviousPlayer(NextPlayer(q)) = q
    BY BehindFacts
  <2>3. QED
    BY <2>1, <2>2
<1>17. After("passing", Around(b, a.i - 1)) = Around(b, a.i) /\ Around(b, a.i) = <<b, a.i>>
  BY <1>3, <1>11, AroundNext
<1>18. SentBut("passing", pr, p, p, c, a, z)
  BY <1>7, <1>15 DEF SentBut
<1>19. TakenBut("passing", pr, p, x, c, a, z)
  BY <1>16 DEF TakenBut
<1>20. Behind(p, a.i + 1) = {p} \cup Behind(x, a.i) /\ {p} \cap Behind(x, a.i) = {}
  BY <1>3, BehindFacts
<1>21. (IF z.do = "append_stream" THEN Player ELSE Behind(p, z.i)) = Behind(p, a.i + 1)
  <2>1. CASE a.i < N - 1
    BY <1>5, <2>1
  <2>2. CASE ~ (a.i < N - 1)
    <3>1. a.i + 1 = N
      BY <1>1, <1>14, <2>2
    <3>2. Behind(p, N) = Player
      BY BehindFacts
    <3>3. QED
      BY <1>5, <2>2, <3>1, <3>2
  <2>3. QED
    BY <2>1, <2>2
<1>22. QED
  BY <1>3, <1>6, <1>8, <1>9, <1>11, <1>12, <1>13, <1>15, <1>17, <1>18, <1>19, <1>20, <1>21

(* The counts at an end.                                                  *)
LEMMA EndNumbers ==
  ASSUME NEW pr, Program(pr), NEW c \in DOMAIN pr, pr[c].op = "end"
  PROVE  /\ Begins(pr, c) \in Nat /\ Ends(pr, c - 1) \in Nat
         /\ Begins(pr, c) = Begins(pr, c - 1) /\ Ends(pr, c) = Ends(pr, c - 1) + 1
         /\ Ends(pr, c - 1) + 1 <= Begins(pr, c)
<1>1. c \in 1 .. Len(pr) + 1
  BY PlaceCounts
<1>2. PICK x, y, u, v : /\ x = CallsOf("end", pr, c) /\ y = CallsOf("end", pr, c - 1)
                        /\ u = CallsOf("begin", pr, c) /\ v = CallsOf("begin", pr, c - 1)
  OBVIOUS
<1>3. /\ x = y + (IF pr[c].op = "end" THEN 1 ELSE 0) /\ y \in Nat
      /\ u = v + (IF pr[c].op = "begin" THEN 1 ELSE 0) /\ v \in Nat
      /\ y + 1 <= v
  BY <1>1, <1>2, CallNumbers
<1>4. x = y + 1 /\ u = v
  BY <1>3
<1>5. QED
  BY <1>2, <1>3, <1>4 DEF Ends, Begins

(* Values go to the end of vals.                                          *)
LEMMA AppendPlace ==
  ASSUME NEW me \in Method, NEW pr, Program(pr), NEW p \in Player, NEW c \in DOMAIN pr, NEW a,
         PlaceOK(me, pr, p, c, a), a.do = "append",
         NEW z, z = IF pr[c].op = "end" THEN Local("close")
                    ELSE IF me = "tree" /\ p > 0 THEN At("send", p * MaxBroadcast, 0) ELSE Idle,
         NEW d, d = Onward(c, z)
  PROVE  /\ PlaceOK(me, pr, p, d, z)
         /\ pr[c].op \in {"begin", "end"} /\ Inside(pr, c, a, pr[c].op)
         /\ Begun(pr, d, z) = Begun(pr, c, a) /\ Ended(pr, d, z) = Ended(pr, c, a)
         /\ ~ Replaced(me, pr, d, z) /\ ~ Replaced(me, pr, c, a)
         /\ Stored(me, pr, p, d, z) = Stored(me, pr, p, c, a) + 1
         /\ pr[c].op = "begin" => Stored(me, pr, p, c, a) + 1 = NumberOf(pr, c)
         /\ pr[c].op = "end" => me = "tree" /\ Stored(me, pr, p, c, a) = Ended(pr, c, a)
         /\ Held(me, pr, p, c, a) = (IF me = "direct" THEN {p} ELSE Player)
         /\ z # Idle => d = c /\ z.do \in {"send", "close"} /\ Held(me, pr, p, c, z) = Held(me, pr, p, c, a)
         /\ SentBut(me, pr, p, p, c, a, z) /\ TakenBut(me, pr, p, p, c, a, z)
<1>1. p \in Nat /\ N \in Nat /\ p < N /\ N >= 2
  BY PlayerFacts
<1>2. a # Idle /\ ~ Checking(a)
  BY DEF Idle, Local, At, Checking
<1>3. \/ pr[c].op = "begin" /\ me = "tree" /\ Relays(p)
      \/ pr[c].op = "begin" /\ me = "direct"
      \/ pr[c].op = "end" /\ me = "tree" /\ ~ Relays(p)
  BY <1>2 DEF PlaceOK, TreeBegin, TreeEnd, SumPlace
<1>4. Inside(pr, c, a, "begin") <=> pr[c].op = "begin"
  BY <1>2 DEF Inside
<1>5. Inside(pr, c, a, "end") <=> pr[c].op = "end"
  BY <1>2 DEF Inside
<1>6. PICK f : f = p * MaxBroadcast
  OBVIOUS
<1>7. f \in Nat /\ (Relays(p) /\ p > 0 => f < Receivers(p))
  BY <1>6, SendStarts, RelayFacts
<1>8. pr[c].op = "end" => z = At("close", 0, 0) /\ z.do = "close" /\ z.i = 0 /\ z.last = 0
  BY DEF At, Local
<1>9. pr[c].op # "end" /\ me = "tree" /\ p > 0 => z = At("send", f, 0) /\ z.do = "send" /\ z.i = f /\ z.last = 0
  BY <1>6 DEF At
<1>10. pr[c].op # "end" /\ ~ (me = "tree" /\ p > 0) => z = Idle
  OBVIOUS
<1>11. z # Idle => z.do \in {"send", "close"} /\ ~ Checking(z) /\ d = c
  <2>1. z # Idle => z.do \in {"send", "close"}
    BY <1>8, <1>9, <1>10
  <2>2. QED
    BY <2>1 DEF Idle, Local, At, Checking, Onward
<1>12. z.do \in {"send", "close"} => z # Idle
  BY DEF Idle, Local, At
<1>13. c \in 1 .. Len(pr) + 1
  BY PlaceCounts
<1>14. PlaceOK(me, pr, p, d, z)
  <2>1. CASE pr[c].op = "end"
    BY <1>3, <1>8, <1>11, <1>12, <1>13, <2>1 DEF PlaceOK, TreeEnd
  <2>2. CASE pr[c].op # "end" /\ me = "tree" /\ p > 0
    <3>1. TreeBegin(p, z)
      <4>1. f <= f /\ ~ (p = 0)
        BY <1>1, <1>7, <2>2
      <4>2. QED
        BY <1>3, <1>6, <1>7, <1>9, <2>2, <4>1 DEF TreeBegin
    <3>2. QED
      BY <1>3, <1>7, <1>9, <1>11, <1>12, <1>13, <2>2, <3>1 DEF PlaceOK
  <2>3. CASE pr[c].op # "end" /\ ~ (me = "tree" /\ p > 0)
    BY <1>10, <2>3, IdlePlace, IdleFacts
  <2>4. QED
    BY <2>1, <2>2, <2>3
<1>15. PICK b, e : b = Begins(pr, c) /\ e = Ends(pr, c - 1)
  OBVIOUS
<1>16. /\ b \in Nat /\ e \in Nat /\ (pr[c].op = "begin" => b - 1 \in Nat /\ NumberOf(pr, c) = b /\ Ends(pr, c) = e)
  <2>1. pr[c].op = "begin" => Begins(pr, c) - 1 \in Nat
    BY BeginsBefore
  <2>2. pr[c].op = "begin" => Ends(pr, c) = Ends(pr, c - 1)
    BY EndsSame
  <2>3. b \in Nat /\ e \in Nat /\ NumberOf(pr, c) = b
    BY <1>15, PlaceCounts DEF NumberOf, Begins
  <2>4. QED
    BY <1>15, <2>1, <2>2, <2>3
<1>17. Begun(pr, c, a) = b /\ Ended(pr, c, a) = e
  BY <1>2, <1>15, InsideFacts
<1>18. Begun(pr, d, z) = b /\ Ended(pr, d, z) = e
  <2>1. CASE z # Idle
    BY <1>11, <1>15, <2>1, InsideFacts
  <2>2. CASE z = Idle
    <3>1. pr[c].op = "begin"
      BY <1>3, <1>8, <1>12, <2>2
    <3>2. Onward(c, Idle) = c + 1 /\ Begun(pr, c + 1, Idle) = Begins(pr, c) /\ Ended(pr, c + 1, Idle) = Ends(pr, c)
      BY IdleFacts
    <3>3. QED
      BY <1>15, <1>16, <2>2, <3>1, <3>2
  <2>3. QED
    BY <2>1, <2>2
<1>19. Inside(pr, d, z, "begin") <=> z # Idle /\ pr[c].op = "begin"
  BY <1>11 DEF Inside
<1>20. Inside(pr, d, z, "end") <=> z # Idle /\ pr[c].op = "end"
  BY <1>11 DEF Inside
<1>21. ~ Replaced(me, pr, d, z) /\ ~ Replaced(me, pr, c, a)
  <2>1. ~ Closing(pr, c, a)
    BY DEF Closing
  <2>2. me = "direct" => ~ Closing(pr, d, z)
    BY <1>3, <1>20 DEF Closing
  <2>3. QED
    BY <2>1, <2>2 DEF Replaced
<1>22. /\ Stored(me, pr, p, d, z) = Stored(me, pr, p, c, a) + 1
       /\ pr[c].op = "begin" => Stored(me, pr, p, c, a) = b - 1
       /\ pr[c].op = "end" => Stored(me, pr, p, c, a) = e
  <2>1. CASE pr[c].op = "begin"
    <3>1. ~ (me = "tree" /\ ~ Relays(p))
      BY <1>3, <2>1
    <3>2. Stored(me, pr, p, c, a) = b - 1
      BY <1>4, <1>17, <2>1, <3>1 DEF Stored
    <3>3. ~ (Inside(pr, d, z, "begin") /\ ~ (me = "tree" /\ p > 0 /\ z.do = "send"))
      BY <1>9, <1>10, <1>19, <2>1
    <3>4. Stored(me, pr, p, d, z) = b - 0
      BY <1>18, <3>1, <3>3 DEF Stored
    <3>5. QED
      BY <1>16, <2>1, <3>2, <3>4
  <2>2. CASE pr[c].op = "end"
    <3>1. me = "tree" /\ ~ Relays(p)
      BY <1>3, <2>2
    <3>2. ~ Closing(pr, c, a) /\ Closing(pr, d, z)
      BY <1>8, <1>12, <1>20, <2>2 DEF Closing
    <3>3. Stored(me, pr, p, c, a) = e + 0 /\ Stored(me, pr, p, d, z) = e + 1
      BY <1>17, <1>18, <3>1, <3>2 DEF Stored
    <3>4. QED
      BY <1>16, <2>2, <3>3
  <2>3. QED
    BY <1>3, <2>1, <2>2
<1>23. Held(me, pr, p, c, a) = (IF me = "direct" THEN {p} ELSE Player)
  BY <1>3 DEF Held
<1>24. z # Idle => Held(me, pr, p, c, z) = Held(me, pr, p, c, a)
  BY <1>3, <1>10, <1>11 DEF Held
<1>25. ASSUME NEW q \in Player, Linked(me, p, q)
       PROVE  LastSent(me, pr, p, q, d, z) = LastSent(me, pr, p, q, c, a)
  <2>1. q \in Nat
    BY PlayerFacts
  <2>2. CASE pr[c].op = "end"
    BY <1>3, <1>4, <1>17, <1>18, <1>19, <2>2 DEF LastSent
  <2>3. CASE pr[c].op # "end" /\ me = "tree" /\ p > 0
    <3>1. pr[c].op = "begin" /\ Relays(p) /\ z # Idle
      BY <1>3, <1>9, <1>12, <2>3
    <3>2. CASE q < p
      <4>1. ~ Unsent(me, p, q, a) /\ ~ Unsent(me, p, q, z)
        BY <1>1, <1>9, <2>1, <2>3, <3>2 DEF Unsent, Upwards
      <4>2. QED
        BY <1>17, <1>18, <2>3, <4>1 DEF LastSent
    <3>3. CASE ~ (q < p)
      <4>1. p < q /\ p = q \div MaxBroadcast
        BY <1>1, <1>25, <2>1, <2>3, <3>3 DEF Linked
      <4>2. f <= q
        BY <1>1, <1>6, <2>3, <4>1, SendStarts
      <4>3. Unsent(me, p, q, a) /\ Unsent(me, p, q, z)
        BY <1>1, <1>9, <2>1, <2>3, <3>3, <4>2 DEF Unsent, Upwards
      <4>4. QED
        BY <1>4, <1>17, <1>18, <1>19, <2>3, <3>1, <4>3 DEF LastSent
    <3>4. QED
      BY <3>2, <3>3
  <2>4. CASE pr[c].op # "end" /\ ~ (me = "tree" /\ p > 0)
    <3>1. ~ Unsent(me, p, q, a) /\ me # "passing"
      BY <1>1, <1>3, <2>4 DEF Unsent, Upwards
    <3>2. ~ Inside(pr, d, z, "begin")
      BY <1>10, <1>19, <2>4
    <3>3. QED
      BY <1>17, <1>18, <3>1, <3>2 DEF LastSent
  <2>5. QED
    BY <2>2, <2>3, <2>4
<1>26. ASSUME NEW q \in Player
       PROVE  LastTaken(me, pr, q, p, d, z) = LastTaken(me, pr, q, p, c, a)
  <2>1. me # "passing"
    BY <1>3
  <2>2. CASE me = "tree" /\ (q > p \/ Relays(p))
    <3>1. ~ Untaken(q, p, a) /\ (z # Idle => ~ Untaken(q, p, z))
      BY <1>11 DEF Untaken, Upwards
    <3>2. QED
      BY <1>17, <1>18, <1>19, <2>2, <3>1 DEF LastTaken
  <2>3. CASE me = "tree" /\ ~ (q > p \/ Relays(p))
    <3>1. pr[c].op = "end" /\ z # Idle
      BY <1>3, <1>8, <1>12, <2>3
    <3>2. TakenAtEnd(me, q, a) /\ TakenAtEnd(me, q, z)
      BY <1>8, <2>3, <3>1 DEF TakenAtEnd
    <3>3. QED
      BY <1>5, <1>17, <1>18, <1>20, <2>3, <3>1, <3>2 DEF LastTaken
  <2>4. CASE me # "tree"
    <3>1. ~ Inside(pr, c, a, "end") /\ ~ Inside(pr, d, z, "end")
      BY <1>3, <1>5, <1>20, <2>4
    <3>2. QED
      BY <1>17, <1>18, <2>1, <2>4, <3>1 DEF LastTaken
  <2>5. QED
    BY <2>2, <2>3, <2>4
<1>27. SentBut(me, pr, p, p, c, a, z)
  BY <1>25 DEF SentBut
<1>28. TakenBut(me, pr, p, p, c, a, z)
  BY <1>26 DEF TakenBut
<1>29. pr[c].op \in {"begin", "end"} /\ Inside(pr, c, a, pr[c].op)
  BY <1>3, <1>4, <1>5
<1>30. pr[c].op = "begin" => Stored(me, pr, p, c, a) + 1 = NumberOf(pr, c)
  BY <1>16, <1>22
<1>31. pr[c].op = "end" => me = "tree" /\ Stored(me, pr, p, c, a) = Ended(pr, c, a)
  BY <1>3, <1>17, <1>22
<1>32. QED
  BY <1>11, <1>14, <1>17, <1>18, <1>21, <1>22, <1>23, <1>24, <1>27, <1>28, <1>29, <1>30, <1>31

(* The stream goes to the end of vals.                                    *)
LEMMA StreamPlace ==
  ASSUME NEW pr, Program(pr), NEW p \in Player, NEW c \in DOMAIN pr, NEW a,
         PlaceOK("passing", pr, p, c, a), a.do = "append_stream", NEW d, d = Onward(c, Idle)
  PROVE  /\ PlaceOK("passing", pr, p, d, Idle)
         /\ pr[c].op = "begin" /\ Inside(pr, c, a, "begin")
         /\ Begun(pr, d, Idle) = Begun(pr, c, a) /\ Ended(pr, d, Idle) = Ended(pr, c, a)
         /\ ~ Replaced("passing", pr, d, Idle) /\ ~ Replaced("passing", pr, c, a)
         /\ Stored("passing", pr, p, d, Idle) = Stored("passing", pr, p, c, a) + 1
         /\ Stored("passing", pr, p, c, a) + 1 = NumberOf(pr, c)
         /\ SentBut("passing", pr, p, p, c, a, Idle) /\ TakenBut("passing", pr, p, p, c, a, Idle)
<1>1. p \in Nat /\ N \in Nat /\ p < N /\ N >= 2
  BY PlayerFacts
<1>2. a # Idle /\ ~ Checking(a)
  BY DEF Idle, Local, At, Checking
<1>3. pr[c].op = "begin"
  BY <1>2 DEF PlaceOK
<1>4. Inside(pr, c, a, "begin")
  BY <1>2, <1>3 DEF Inside
<1>5. /\ PlaceOK("passing", pr, p, d, Idle) /\ d = c + 1
      /\ \A op : ~ Inside(pr, d, Idle, op)
  BY IdlePlace, IdleFacts
<1>6. PICK b, e : b = Begins(pr, c) /\ e = Ends(pr, c - 1)
  OBVIOUS
<1>7. b - 1 \in Nat /\ b \in Nat /\ NumberOf(pr, c) = b
  <2>1. Begins(pr, c) - 1 \in Nat
    BY <1>3, BeginsBefore
  <2>2. b \in Nat /\ NumberOf(pr, c) = b
    BY <1>6, PlaceCounts DEF NumberOf, Begins
  <2>3. QED
    BY <1>6, <2>1, <2>2
<1>8. Begun(pr, c, a) = b /\ Ended(pr, c, a) = e
  BY <1>2, <1>6, InsideFacts
<1>9. Begun(pr, d, Idle) = b /\ Ended(pr, d, Idle) = e
  <2>1. Begun(pr, c + 1, Idle) = Begins(pr, c) /\ Ended(pr, c + 1, Idle) = Ends(pr, c)
    BY IdleFacts
  <2>2. Ends(pr, c) = Ends(pr, c - 1)
    BY <1>3, EndsSame
  <2>3. QED
    BY <1>5, <1>6, <2>1, <2>2
<1>10. Stored("passing", pr, p, c, a) = b - 1
  BY <1>4, <1>8 DEF Stored
<1>11. Stored("passing", pr, p, d, Idle) = b - 0
  BY <1>5, <1>9 DEF Stored
<1>12. ASSUME NEW q
       PROVE  /\ LastSent("passing", pr, p, q, d, Idle) = LastSent("passing", pr, p, q, c, a)
              /\ LastTaken("passing", pr, q, p, d, Idle) = LastTaken("passing", pr, q, p, c, a)
  <2>1. Passed(a) = N - 1 /\ Taken(a) = N - 1
    BY DEF Passed, Taken
  <2>2. QED
    BY <1>4, <1>5, <1>8, <1>9, <2>1 DEF LastSent, LastTaken
<1>13. SentBut("passing", pr, p, p, c, a, Idle) /\ TakenBut("passing", pr, p, p, c, a, Idle)
  BY <1>12 DEF SentBut, TakenBut
<1>14. ~ Replaced("passing", pr, d, Idle) /\ ~ Replaced("passing", pr, c, a)
  BY DEF Replaced
<1>15. QED
  BY <1>3, <1>4, <1>5, <1>7, <1>8, <1>9, <1>10, <1>11, <1>13, <1>14

(* The sum is put in the place of the own share.                          *)
LEMMA PutPlace ==
  ASSUME NEW pr, Program(pr), NEW p \in Player, NEW c \in DOMAIN pr, NEW a,
         PlaceOK("direct", pr, p, c, a), a.do = "put", NEW z, z = Local("close")
  PROVE  /\ z # Idle /\ ~ Checking(z) /\ PlaceOK("direct", pr, p, c, z) /\ z.do = "close"
         /\ pr[c].op = "end" /\ Inside(pr, c, a, "end")
         /\ Begun(pr, c, z) = Begun(pr, c, a) /\ Ended(pr, c, z) = Ended(pr, c, a)
         /\ Replaced("direct", pr, c, z) /\ ~ Replaced("direct", pr, c, a)
         /\ Stored("direct", pr, p, c, z) = Stored("direct", pr, p, c, a)
         /\ Ended(pr, c, a) + 1 <= Stored("direct", pr, p, c, a)
         /\ Held("direct", pr, p, c, a) = Player /\ Held("direct", pr, p, c, z) = Player
         /\ SentBut("direct", pr, p, p, c, a, z) /\ TakenBut("direct", pr, p, p, c, a, z)
<1>1. a # Idle /\ ~ Checking(a)
  BY DEF Idle, Local, At, Checking
<1>2. pr[c].op = "end"
  BY <1>1 DEF PlaceOK
<1>3. z = At("close", 0, 0) /\ z.do = "close" /\ z.i = 0 /\ z.last = 0
  BY DEF At, Local
<1>4. z # Idle /\ ~ Checking(z)
  BY <1>3 DEF Idle, Local, At, Checking
<1>5. c \in 1 .. Len(pr) + 1 /\ Onward(c, z) = c
  BY <1>4, PlaceCounts DEF Onward
<1>6. PlaceOK("direct", pr, p, c, z)
  BY <1>2, <1>3, <1>4, <1>5 DEF PlaceOK
<1>7. /\ Inside(pr, c, a, "end") /\ ~ Inside(pr, c, a, "begin")
      /\ Inside(pr, c, z, "end") /\ ~ Inside(pr, c, z, "begin")
  BY <1>1, <1>2, <1>4 DEF Inside
<1>8. PICK b, e : b = Begins(pr, c) /\ e = Ends(pr, c - 1)
  OBVIOUS
<1>9. Begun(pr, c, a) = b /\ Ended(pr, c, a) = e /\ Begun(pr, c, z) = b /\ Ended(pr, c, z) = e
  BY <1>1, <1>4, <1>8, InsideFacts
<1>10. e + 1 <= b /\ b \in Nat /\ e \in Nat
  BY <1>2, <1>8, EndNumbers
<1>11. Stored("direct", pr, p, c, a) = b - 0 /\ Stored("direct", pr, p, c, z) = b - 0
  BY <1>7, <1>9 DEF Stored
<1>12. Replaced("direct", pr, c, z) /\ ~ Replaced("direct", pr, c, a)
  BY <1>3, <1>7 DEF Replaced, Closing
<1>13. Held("direct", pr, p, c, a) = Player /\ Held("direct", pr, p, c, z) = Player
  BY <1>2, <1>3 DEF Held
<1>14. ASSUME NEW q
       PROVE  /\ LastSent("direct", pr, p, q, c, z) = LastSent("direct", pr, p, q, c, a)
              /\ LastTaken("direct", pr, q, p, c, z) = LastTaken("direct", pr, q, p, c, a)
  <2>1. TakenAtEnd("direct", q, a) /\ TakenAtEnd("direct", q, z)
    BY <1>3 DEF TakenAtEnd
  <2>2. QED
    BY <1>7, <1>9, <2>1 DEF LastSent, LastTaken
<1>15. SentBut("direct", pr, p, p, c, a, z) /\ TakenBut("direct", pr, p, p, c, a, z)
  BY <1>5, <1>14 DEF SentBut, TakenBut
<1>16. QED
  BY <1>2, <1>3, <1>4, <1>6, <1>7, <1>9, <1>10, <1>11, <1>12, <1>13, <1>15

(* An opening's values are read.                                          *)
LEMMA GetPlace ==
  ASSUME NEW me \in Method, NEW pr, Program(pr), NEW p \in Player, NEW c \in DOMAIN pr, NEW a,
         PlaceOK(me, pr, p, c, a), a.do = "get",
         NEW z, z = IF me = "direct" THEN At("add", Other(p, 0), 0) ELSE Local("close")
  PROVE  /\ z # Idle /\ ~ Checking(z) /\ PlaceOK(me, pr, p, c, z) /\ z.do \in {"add", "close"}
         /\ pr[c].op = "end" /\ Inside(pr, c, a, "end")
         /\ Tally(me, pr, p, c, z) = Tally(me, pr, p, c, a) /\ ~ Replaced(me, pr, c, a)
         /\ Ended(pr, c, a) + 1 <= Stored(me, pr, p, c, a)
         /\ Held(me, pr, p, c, z) = (IF me = "direct" THEN {p} ELSE Player)
         /\ SentBut(me, pr, p, p, c, a, z) /\ TakenBut(me, pr, p, p, c, a, z)
<1>1. p \in Nat /\ N \in Nat /\ p < N /\ N >= 2
  BY PlayerFacts
<1>2. a # Idle /\ ~ Checking(a)
  BY DEF Idle, Local, At, Checking
<1>3. pr[c].op = "end" /\ (me = "tree" => Relays(p))
  BY <1>2 DEF PlaceOK, TreeBegin, TreeEnd, SumPlace
<1>4. me = "direct" => z = At("add", Other(p, 0), 0) /\ z.do = "add" /\ z.i = Other(p, 0) /\ z.last = 0
  BY DEF At
<1>5. me # "direct" => z = At("close", 0, 0) /\ z.do = "close" /\ z.i = 0 /\ z.last = 0
  BY DEF At, Local
<1>6. z.do \in {"add", "close"} /\ z # Idle /\ ~ Checking(z)
  <2>1. z.do \in {"add", "close"}
    BY <1>4, <1>5
  <2>2. QED
    BY <2>1 DEF Idle, Local, At, Checking
<1>7. c \in 1 .. Len(pr) + 1 /\ Onward(c, z) = c
  BY <1>6, PlaceCounts DEF Onward
<1>8. Other(p, 0) \in Player /\ Other(p, 0) \in Nat /\ Other(p, 0) # p /\ \A q \in Player : q # p => ~ (q < Other(p, 0))
  <2>1. Other(p, 0) \in Nat /\ Other(p, 0) # p /\ \A q \in Player : q # p => (q < Other(p, 0) <=> q < 0)
    BY OtherFacts
  <2>2. \A q \in Player : ~ (q < 0)
    BY PlayerFacts
  <2>3. Other(p, 0) < N
    BY <1>1 DEF Other
  <2>4. Other(p, 0) \in Player
    BY <1>1, <2>1, <2>3 DEF Player
  <2>5. QED
    BY <2>1, <2>2, <2>4
<1>9. PlaceOK(me, pr, p, c, z)
  <2>1. CASE me = "direct"
    <3>1. OtherPlace(p, z)
      BY <1>4, <1>8, <2>1 DEF OtherPlace
    <3>2. QED
      BY <1>3, <1>4, <1>6, <1>7, <1>8, <2>1, <3>1 DEF PlaceOK
  <2>2. CASE me # "direct"
    <3>1. \/ me = "tree" /\ TreeEnd(p, z)
          \/ me = "passing"
      BY <1>5, <2>2 DEF Method, TreeEnd
    <3>2. QED
      BY <1>3, <1>5, <1>6, <1>7, <2>2, <3>1 DEF PlaceOK
  <2>3. QED
    BY <2>1, <2>2
<1>10. /\ Inside(pr, c, a, "end") /\ ~ Inside(pr, c, a, "begin")
       /\ Inside(pr, c, z, "end") /\ ~ Inside(pr, c, z, "begin")
  BY <1>2, <1>3, <1>6 DEF Inside
<1>11. PICK b, e : b = Begins(pr, c) /\ e = Ends(pr, c - 1)
  OBVIOUS
<1>12. Begun(pr, c, a) = b /\ Ended(pr, c, a) = e /\ Begun(pr, c, z) = b /\ Ended(pr, c, z) = e
  BY <1>2, <1>6, <1>11, InsideFacts
<1>13. e + 1 <= b /\ b \in Nat /\ e \in Nat
  BY <1>3, <1>11, EndNumbers
<1>14. Stored(me, pr, p, c, a) = b - 0 /\ Stored(me, pr, p, c, z) = b - 0
  BY <1>3, <1>10, <1>12 DEF Stored
<1>15. ~ Replaced(me, pr, c, z) /\ ~ Replaced(me, pr, c, a)
  BY <1>4 DEF Replaced, Closing
<1>16. Tally(me, pr, p, c, z) = Tally(me, pr, p, c, a)
  BY <1>12, <1>14, <1>15 DEF Tally, Replaced
<1>17. Held(me, pr, p, c, z) = (IF me = "direct" THEN {p} ELSE Player)
  <2>1. CASE me = "direct"
    <3>1. Held(me, pr, p, c, z) = {p} \cup {q \in Player : q < Other(p, 0)}
      BY <1>3, <1>4, <2>1 DEF Held
    <3>2. QED
      BY <1>8, <2>1, <3>1
  <2>2. CASE me # "direct"
    BY <1>3, <1>5, <2>2 DEF Held
  <2>3. QED
    BY <2>1, <2>2
<1>18. ASSUME NEW q \in Player
       PROVE  LastSent(me, pr, p, q, c, z) = LastSent(me, pr, p, q, c, a)
  BY <1>10, <1>12 DEF LastSent
<1>19. ASSUME NEW q \in Player, Linked(me, q, p)
       PROVE  LastTaken(me, pr, q, p, c, z) = LastTaken(me, pr, q, p, c, a)
  <2>1. CASE me = "passing" \/ (me = "tree" /\ (q > p \/ Relays(p)))
    BY <1>10, <1>12, <2>1 DEF LastTaken
  <2>2. CASE me = "direct"
    <3>1. q # p
      BY <1>19, <2>2 DEF Linked
    <3>2. ~ (q < Other(p, 0))
      BY <1>8, <3>1
    <3>3. ~ TakenAtEnd(me, q, a) /\ ~ TakenAtEnd(me, q, z)
      BY <1>4, <2>2, <3>2 DEF TakenAtEnd
    <3>4. QED
      BY <1>10, <1>12, <2>2, <3>3 DEF LastTaken
  <2>3. QED
    BY <1>3, <2>1, <2>2 DEF Method
<1>20. SentBut(me, pr, p, p, c, a, z)
  BY <1>7, <1>18 DEF SentBut
<1>21. TakenBut(me, pr, p, p, c, a, z)
  BY <1>7, <1>19 DEF TakenBut
<1>22. Ended(pr, c, a) + 1 <= Stored(me, pr, p, c, a)
  BY <1>12, <1>13, <1>14
<1>23. QED
  BY <1>3, <1>6, <1>9, <1>10, <1>15, <1>16, <1>17, <1>20, <1>21, <1>22

(* An opening is closed, and a check begins or does not.                  *)
LEMMA ClosePlace ==
  ASSUME NEW me \in Method, NEW pr, Program(pr), NEW p \in Player, NEW c \in DOMAIN pr, NEW a,
         PlaceOK(me, pr, p, c, a), a.do = "close",
         NEW z, z \in {Idle, FirstOfCheck}, NEW d, d = Onward(c, z)
  PROVE  /\ PlaceOK(me, pr, p, d, z) /\ (z = Idle \/ Checking(z))
         /\ pr[c].op = "end" /\ Inside(pr, c, a, "end")
         /\ Begun(pr, d, z) = Begun(pr, c, a) /\ Ended(pr, d, z) = Ended(pr, c, a) + 1
         /\ Replaced(me, pr, c, a) = (me = "direct") /\ ~ Replaced(me, pr, d, z)
         /\ Stored(me, pr, p, d, z) = Stored(me, pr, p, c, a)
         /\ Ended(pr, c, a) + 1 <= Stored(me, pr, p, c, a)
         /\ Held(me, pr, p, c, a) = Player
         /\ SentBut(me, pr, p, p, c, a, z) /\ TakenBut(me, pr, p, p, c, a, z)
<1>1. p \in Nat /\ N \in Nat /\ p < N /\ N >= 2
  BY PlayerFacts
<1>2. a # Idle /\ ~ Checking(a)
  BY DEF Idle, Local, At, Checking
<1>3. pr[c].op = "end"
  BY <1>2 DEF PlaceOK, TreeBegin, SumPlace
<1>4. z # Idle => z = At("send_tau", 1, 0) /\ z.do = "send_tau" /\ z.i = 1 /\ z.last = 0 /\ Checking(z) /\ d = c
  BY DEF FirstOfCheck, At, Checking, Onward
<1>5. z = Idle => ~ Checking(z) /\ d = c + 1
  BY DEF Idle, Local, At, Checking, Onward
<1>6. c \in 1 .. Len(pr) + 1
  BY PlaceCounts
<1>7. PlaceOK(me, pr, p, d, z)
  <2>1. CASE z = Idle
    BY <1>5, <2>1, IdlePlace
  <2>2. CASE z # Idle
    <3>1. 1 \in 1 .. N - 1
      BY <1>1
    <3>2. QED
      BY <1>3, <1>4, <1>6, <2>2, <3>1 DEF PlaceOK
  <2>3. QED
    BY <2>1, <2>2
<1>8. /\ Inside(pr, c, a, "end") /\ ~ Inside(pr, c, a, "begin")
      /\ ~ Inside(pr, d, z, "end") /\ ~ Inside(pr, d, z, "begin")
  BY <1>2, <1>3, <1>4 DEF Inside
<1>9. PICK b, e : b = Begins(pr, c) /\ e = Ends(pr, c - 1)
  OBVIOUS
<1>10. e + 1 <= b /\ b \in Nat /\ e \in Nat /\ Ends(pr, c) = e + 1
  BY <1>3, <1>9, EndNumbers
<1>11. Begun(pr, c, a) = b /\ Ended(pr, c, a) = e
  BY <1>2, <1>9, InsideFacts
<1>12. Begun(pr, d, z) = b /\ Ended(pr, d, z) = e + 1
  <2>1. Begun(pr, Onward(c, z), z) = Begins(pr, c)
    BY PlaceCounts
  <2>2. Ended(pr, Onward(c, z), z) = IF z = Idle \/ Checking(z) THEN Ends(pr, c) ELSE Ends(pr, c - 1)
    BY PlaceCounts
  <2>3. QED
    BY <1>4, <1>9, <1>10, <2>1, <2>2
<1>13. Closing(pr, c, a) /\ ~ Closing(pr, d, z)
  BY <1>8 DEF Closing
<1>14. /\ Stored(me, pr, p, c, a) = (IF me = "tree" /\ ~ Relays(p) THEN e + 1 ELSE b)
       /\ Stored(me, pr, p, d, z) = (IF me = "tree" /\ ~ Relays(p) THEN e + 1 ELSE b)
  <2>1. CASE me = "tree" /\ ~ Relays(p)
    <3>1. Stored(me, pr, p, c, a) = e + 1 /\ Stored(me, pr, p, d, z) = (e + 1) + 0
      BY <1>11, <1>12, <1>13, <2>1 DEF Stored
    <3>2. QED
      BY <1>10, <2>1, <3>1
  <2>2. CASE ~ (me = "tree" /\ ~ Relays(p))
    <3>1. Stored(me, pr, p, c, a) = b - 0 /\ Stored(me, pr, p, d, z) = b - 0
      BY <1>8, <1>11, <1>12, <2>2 DEF Stored
    <3>2. QED
      BY <1>10, <2>2, <3>1
  <2>3. QED
    BY <2>1, <2>2
<1>15. Replaced(me, pr, c, a) = (me = "direct") /\ ~ Replaced(me, pr, d, z)
  BY <1>13 DEF Replaced
<1>16. Held(me, pr, p, c, a) = Player
  BY <1>3 DEF Held
<1>17. ASSUME NEW q \in Player
       PROVE  LastSent(me, pr, p, q, d, z) = LastSent(me, pr, p, q, c, a)
  BY <1>8, <1>11, <1>12 DEF LastSent
<1>18. ASSUME NEW q \in Player
       PROVE  LastTaken(me, pr, q, p, d, z) = LastTaken(me, pr, q, p, c, a)
  <2>1. CASE me = "passing" \/ (me = "tree" /\ (q > p \/ Relays(p)))
    BY <1>8, <1>11, <1>12, <2>1 DEF LastTaken
  <2>2. CASE ~ (me = "passing" \/ (me = "tree" /\ (q > p \/ Relays(p))))
    <3>1. TakenAtEnd(me, q, a)
      BY DEF TakenAtEnd
    <3>2. QED
      BY <1>8, <1>11, <1>12, <2>2, <3>1 DEF LastTaken
  <2>3. QED
    BY <2>1, <2>2
<1>19. SentBut(me, pr, p, p, c, a, z)
  BY <1>17 DEF SentBut
<1>20. TakenBut(me, pr, p, p, c, a, z)
  BY <1>18 DEF TakenBut
<1>21. Ended(pr, c, a) + 1 <= Stored(me, pr, p, c, a)
  <2>1. e + 1 <= e + 1
    BY <1>10
  <2>2. QED
    BY <1>10, <1>11, <1>14, <2>1
<1>22. z = Idle \/ Checking(z)
  BY <1>4
<1>23. QED
  BY <1>3, <1>7, <1>8, <1>11, <1>12, <1>14, <1>15, <1>16, <1>19, <1>20, <1>21, <1>22

(* Places of a check, and of AddToCheck.                                    *)
LEMMA CheckPlace ==
  ASSUME NEW me, NEW pr, Program(pr), NEW p, NEW c \in DOMAIN pr, pr[c].op # "begin",
         NEW z, z = Idle \/ (Checking(z) /\ z.i \in Nat /\ z.last \in Nat /\ z = At(z.do, z.i, z.last)
                             /\ (z.do # "verify" => z.i \in 1 .. N - 1))
  PROVE  PlaceOK(me, pr, p, Onward(c, z), z)
<1>1. CASE z = Idle
  BY <1>1, IdlePlace DEF Onward
<1>2. CASE z # Idle
  <2>1. c \in 1 .. Len(pr) + 1 /\ Onward(c, z) = c
    BY <1>2, PlaceCounts DEF Onward
  <2>2. QED
    BY <1>2, <2>1 DEF PlaceOK
<1>3. QED
  BY <1>1, <1>2

(* A value has been added.                                                *)
LEMMA AddPlace ==
  ASSUME NEW me, NEW pr, Program(pr), NEW p, NEW c \in DOMAIN pr, pr[c].op = "add",
         NEW z, z = Local("check_if_needed")
  PROVE  /\ z # Idle /\ ~ Checking(z) /\ Onward(c, z) = c
         /\ PlaceOK(me, pr, p, c, z)
         /\ ~ Inside(pr, c, z, "begin") /\ ~ Inside(pr, c, z, "end")
<1>1. z = At("check_if_needed", 0, 0) /\ z.do = "check_if_needed" /\ z.i = 0 /\ z.last = 0
  BY DEF At, Local
<1>2. z # Idle /\ ~ Checking(z)
  BY <1>1 DEF Idle, Local, At, Checking
<1>3. c \in 1 .. Len(pr) + 1 /\ Onward(c, z) = c
  BY <1>2, PlaceCounts DEF Onward
<1>4. PlaceOK(me, pr, p, c, z)
  BY <1>1, <1>2, <1>3 DEF PlaceOK
<1>5. ~ Inside(pr, c, z, "begin") /\ ~ Inside(pr, c, z, "end")
  BY DEF Inside
<1>6. QED
  BY <1>2, <1>3, <1>4, <1>5

(* Where a player is that does something of a check.                        *)
LEMMA AtCheck ==
  ASSUME NEW me, NEW pr, Program(pr), NEW p, NEW c, NEW a, PlaceOK(me, pr, p, c, a),
         Checking(a) \/ a.do = "check_if_needed"
  PROVE  /\ c \in DOMAIN pr /\ a # Idle /\ a.i \in Nat /\ a.last \in Nat
         /\ pr[c].op \in {"add", "check"} \/ (pr[c].op = "end" /\ Checking(a))
         /\ ~ Inside(pr, c, a, "begin") /\ ~ Inside(pr, c, a, "end")
         /\ Checking(a) /\ a.do # "verify" => a.i \in 1 .. N - 1
<1>1. a # Idle
  BY DEF Idle, Local, At, Checking
<1>2. c \in DOMAIN pr /\ a.i \in Nat /\ a.last \in Nat
  BY <1>1 DEF PlaceOK
<1>3. pr[c].op \in {"begin", "end", "add", "check"}
  BY <1>2, ProgramFacts DEF Call
<1>4. CASE Checking(a)
  <2>1. pr[c].op # "begin"
    BY <1>1, <1>4 DEF PlaceOK
  <2>2. a.do # "verify" => a.i \in 1 .. N - 1
    BY <1>1, <1>4 DEF PlaceOK, Checking
  <2>3. QED
    BY <1>1, <1>2, <1>3, <1>4, <2>1, <2>2 DEF Inside
<1>5. CASE ~ Checking(a) /\ a.do = "check_if_needed"
  <2>1. pr[c].op = "add"
    BY <1>1, <1>5 DEF PlaceOK, TreeBegin, TreeEnd
  <2>2. QED
    BY <1>1, <1>2, <1>5, <2>1 DEF Inside
<1>6. QED
  BY <1>4, <1>5

-----------------------------------------------------------------------------
(* What the steps of a player do to its store.                              *)

(* What is paired stays so when either vector grows.                      *)
LEMMA PairedMore ==
  ASSUME NEW mac, NEW val, NEW cnt, Paired(mac, val, cnt), IsSeq(mac), IsSeq(val), NEW x, IsSeq(x)
  PROVE  Paired(Cat(mac, x), val, cnt) /\ Paired(mac, Cat(val, x), cnt)
<1>1. PICK lm, lv, lx : lm = Len(mac) /\ lv = Len(val) /\ lx = Len(x)
  OBVIOUS
<1>2. /\ lm \in Nat /\ lv \in Nat /\ lx \in Nat
      /\ Len(Cat(mac, x)) = lm + lx /\ Len(Cat(val, x)) = lv + lx
      /\ \A k \in 1 .. lm : Cat(mac, x)[k] = mac[k]
      /\ \A k \in 1 .. lv : Cat(val, x)[k] = val[k]
  BY <1>1, CatElements
<1>3. cnt \in Nat /\ cnt <= lm /\ cnt <= lv /\ \A i \in 1 .. cnt : val[i] = Opened(mac[i])
  BY <1>1 DEF Paired
<1>4. cnt <= lm + lx /\ cnt <= lv + lx
  BY <1>2, <1>3
<1>5. ASSUME NEW i \in 1 .. cnt PROVE i \in 1 .. lm /\ i \in 1 .. lv
  BY <1>2, <1>3
<1>6. \A i \in 1 .. cnt : val[i] = Opened(Cat(mac, x)[i]) /\ Cat(val, x)[i] = Opened(mac[i])
  BY <1>2, <1>3, <1>5
<1>7. QED
  BY <1>1, <1>2, <1>3, <1>4, <1>6 DEF Paired

(* More of two vectors is paired when the next values belong to the next  *)
(* MACs.                                                                  *)
LEMMA PairedFurther ==
  ASSUME NEW mac, NEW val, NEW cnt, Paired(mac, val, cnt), NEW n \in Nat,
         cnt + n <= Len(mac), cnt + n <= Len(val), \A k \in 1 .. n : val[cnt + k] = Opened(mac[cnt + k])
  PROVE  Paired(mac, val, cnt + n)
<1>1. cnt \in Nat /\ \A i \in 1 .. cnt : val[i] = Opened(mac[i])
  BY DEF Paired
<1>2. ASSUME NEW i \in 1 .. cnt + n, ~ (i \in 1 .. cnt) PROVE \E k \in 1 .. n : i = cnt + k
  <2>1. i - cnt \in 1 .. n /\ i = cnt + (i - cnt)
    BY <1>1, <1>2
  <2>2. QED
    BY <2>1
<1>3. \A i \in 1 .. cnt + n : val[i] = Opened(mac[i])
  BY <1>1, <1>2
<1>4. cnt + n \in Nat
  BY <1>1
<1>5. QED
  BY <1>3, <1>4 DEF Paired

(* What is in store depends on the place in numbers only.                   *)
LEMMA StoreMoves ==
  ASSUME NEW me, NEW pr, NEW m, NEW p, NEW c, NEW a, NEW d, NEW z, NEW mac, NEW val, NEW cnt,
         StoreOK(me, pr, m, p, c, a, mac, val, cnt), Tally(me, pr, p, d, z) = Tally(me, pr, p, c, a)
  PROVE  StoreOK(me, pr, m, p, d, z, mac, val, cnt)
<1>1. /\ Begun(pr, d, z) = Begun(pr, c, a) /\ Ended(pr, d, z) = Ended(pr, c, a)
      /\ Stored(me, pr, p, d, z) = Stored(me, pr, p, c, a) /\ Replaced(me, pr, d, z) = Replaced(me, pr, c, a)
  BY DEF Tally
<1>2. QED
  BY <1>1 DEF StoreOK

(* What is in store, where nothing has been replaced.                     *)
LEMMA ContentSame ==
  ASSUME NEW me, NEW pr, NEW p, NEW e, NEW x, NEW y, ~ x, ~ y
  PROVE  ValContent(me, pr, p, e, x) = ValContent(me, pr, p, e, y)
<1>1. ASSUME NEW o PROVE InStore(me, pr, p, o, e, x) = InStore(me, pr, p, o, e, y)
  BY DEF InStore
<1>2. QED
  BY <1>1 DEF ValContent

(* What an opening has put in store.                                      *)
LEMMA ContentIs ==
  ASSUME NEW me, NEW pr, Program(pr), NEW p, NEW e, NEW x, NEW o \in DOMAIN pr, NEW k \in 1 .. Len(pr[o].ids)
  PROVE  ValContent(me, pr, p, e, x)[o][k] = SumOf(pr[o].ids[k], InStore(me, pr, p, o, e, x))
<1>1. k \in DOMAIN pr[o].ids
  BY ProgramFacts
<1>2. QED
  BY <1>1 DEF ValContent

(* The ids of a call are a sequence.                                      *)
LEMMA IdsAreSeqs ==
  ASSUME NEW pr, Program(pr), NEW o \in DOMAIN pr
  PROVE  IsSeq(pr[o].ids) /\ Len(pr[o].ids) \in Nat /\ DOMAIN pr[o].ids = 1 .. Len(pr[o].ids)
<1>1. pr[o].ids \in Seq(Nat)
  BY ProgramFacts
<1>2. IsSeq(pr[o].ids)
  BY <1>1 DEF IsSeq
<1>3. QED
  BY <1>2, SeqDomain

(* The stores in each step: an opening's MACs are appended.               *)
LEMMA BeginStore ==
  ASSUME NEW me \in Method, NEW pr, Program(pr), NEW p \in Player, NEW c \in DOMAIN pr, pr[c].op = "begin",
         NEW z, z = FirstPlace(me, p), PlaceOK(me, pr, p, c, Idle),
         NEW m, NEW mac, NEW val, NEW cnt, StoreOK(me, pr, m, p, c, Idle, mac, val, cnt)
  PROVE  StoreOK(me, pr, m, p, c, z, IF pr[c].mc = m THEN mac \o pr[c].ids ELSE mac, val, cnt)
<1>1. PICK b, e, s, r : /\ b = Begun(pr, c, Idle) /\ e = Ended(pr, c, Idle)
                        /\ s = Stored(me, pr, p, c, Idle) /\ r = Replaced(me, pr, c, Idle)
  OBVIOUS
<1>2. /\ Begun(pr, c, z) = b + 1 /\ Ended(pr, c, z) = e
      /\ Stored(me, pr, p, c, z) = s /\ Replaced(me, pr, c, z) = r
  <2>1. Tally(me, pr, p, c, z) = <<b + 1, e, s, r>>
    BY <1>1, BeginPlace
  <2>2. QED
    BY <2>1 DEF Tally
<1>3. b \in Nat /\ e \in Nat /\ s \in Nat /\ e <= s /\ s <= b /\ e <= b
  BY <1>1, PlaceNumbers
<1>4. MacsOK(pr, m, e, b, mac, cnt) /\ ValsOK(me, pr, m, p, e, s, r, val, cnt) /\ Paired(mac, val, cnt) /\ cnt \in Nat
  BY <1>1 DEF StoreOK, Paired
<1>5. NumberOf(pr, c) = b + 1
  BY <1>1, PlaceCounts
<1>6. Puts(pr, c, MacContent(pr), pr[c].ids)
  BY IdsAreSeqs DEF Puts, MacContent
<1>7. PICK x : x = IF pr[c].mc = m THEN mac \o pr[c].ids ELSE mac
  OBVIOUS
<1>8. MacsOK(pr, m, e, b + 1, x, cnt)
  BY <1>3, <1>4, <1>5, <1>6, <1>7, InPlaceAppend DEF MacsOK
<1>9. IsSeq(mac) /\ IsSeq(val)
  BY <1>4 DEF MacsOK, ValsOK, InPlace
<1>10. Paired(x, val, cnt)
  <2>1. Paired(Cat(mac, pr[c].ids), val, cnt)
    BY <1>4, <1>9, IdsAreSeqs, PairedMore
  <2>2. QED
    BY <1>4, <1>7, <2>1 DEF Cat
<1>11. QED
  BY <1>2, <1>4, <1>7, <1>8, <1>10 DEF StoreOK

(* An opening's values are appended.                                      *)
LEMMA AppendStore ==
  ASSUME NEW me, NEW pr, Program(pr), NEW p \in Player, NEW c, NEW a, NEW d, NEW z,
         PlaceOK(me, pr, p, c, a),
         Begun(pr, d, z) = Begun(pr, c, a), Ended(pr, d, z) = Ended(pr, c, a),
         ~ Replaced(me, pr, d, z), ~ Replaced(me, pr, c, a),
         Stored(me, pr, p, d, z) = Stored(me, pr, p, c, a) + 1,
         NEW o \in DOMAIN pr, pr[o].op = "begin", NumberOf(pr, o) = Stored(me, pr, p, c, a) + 1,
         NEW v, IsSum(v, pr[o].ids, IF me = "direct" THEN {p} ELSE Player),
         NEW m, NEW mac, NEW val, NEW cnt, StoreOK(me, pr, m, p, c, a, mac, val, cnt)
  PROVE  StoreOK(me, pr, m, p, d, z, mac, IF pr[o].mc = m THEN val \o v ELSE val, cnt)
<1>1. PICK b, e, s : b = Begun(pr, c, a) /\ e = Ended(pr, c, a) /\ s = Stored(me, pr, p, c, a)
  OBVIOUS
<1>2. b \in Nat /\ e \in Nat /\ s \in Nat /\ e <= s /\ s <= b /\ e <= b
  BY <1>1, PlaceNumbers
<1>3. /\ MacsOK(pr, m, e, b, mac, cnt) /\ Paired(mac, val, cnt) /\ cnt \in Nat
      /\ ValsOK(me, pr, m, p, e, s, Replaced(me, pr, c, a), val, cnt)
  BY <1>1 DEF StoreOK, Paired
<1>4. PICK g : g = ValContent(me, pr, p, e, Replaced(me, pr, c, a))
  OBVIOUS
<1>5. g = ValContent(me, pr, p, e, Replaced(me, pr, d, z))
  BY <1>4, ContentSame
<1>6. InPlace(pr, m, e, s, g, val, cnt)
  BY <1>3, <1>4 DEF ValsOK
<1>7. Puts(pr, o, g, v)
  <2>1. InStore(me, pr, p, o, e, Replaced(me, pr, c, a)) = IF me = "direct" THEN {p} ELSE Player
    BY DEF InStore
  <2>2. IsSeq(v) /\ Len(v) = Len(pr[o].ids)
    BY DEF IsSum
  <2>3. ASSUME NEW k \in 1 .. Len(pr[o].ids) PROVE v[k] = g[o][k]
    <3>1. v[k] = SumOf(pr[o].ids[k], IF me = "direct" THEN {p} ELSE Player)
      BY DEF IsSum
    <3>2. g[o][k] = SumOf(pr[o].ids[k], InStore(me, pr, p, o, e, Replaced(me, pr, c, a)))
      BY <1>4, ContentIs
    <3>3. QED
      BY <2>1, <3>1, <3>2
  <2>4. QED
    BY <2>2, <2>3 DEF Puts
<1>8. PICK x : x = IF pr[o].mc = m THEN val \o v ELSE val
  OBVIOUS
<1>9. InPlace(pr, m, e, s + 1, g, x, cnt)
  BY <1>1, <1>2, <1>3, <1>6, <1>7, <1>8, InPlaceAppend
<1>10. ValsOK(me, pr, m, p, e, s + 1, Replaced(me, pr, d, z), x, cnt)
  BY <1>5, <1>9 DEF ValsOK
<1>11. Paired(mac, x, cnt)
  <2>1. IsSeq(mac) /\ IsSeq(val) /\ IsSeq(v)
    BY <1>3, <1>6 DEF MacsOK, InPlace, IsSum
  <2>2. Paired(mac, Cat(val, v), cnt)
    BY <1>3, <2>1, PairedMore
  <2>3. QED
    BY <1>3, <1>8, <2>2 DEF Cat
<1>12. QED
  BY <1>1, <1>3, <1>8, <1>10, <1>11 DEF StoreOK

(* The opening that is closed next.                                         *)
LEMMA NextOpening ==
  ASSUME NEW me, NEW pr, Program(pr), NEW p, NEW c, NEW a, PlaceOK(me, pr, p, c, a), Inside(pr, c, a, "end")
  PROVE  \E o \in DOMAIN pr :
           /\ pr[o].op = "begin" /\ NumberOf(pr, o) = Ended(pr, c, a) + 1
           /\ pr[o].mc = pr[c].mc /\ pr[o].ids = pr[c].ids
<1>1. a # Idle /\ ~ Checking(a) /\ pr[c].op = "end"
  BY DEF Inside
<1>2. c \in DOMAIN pr
  BY <1>1 DEF PlaceOK
<1>3. Ended(pr, c, a) = CallsOf("end", pr, c - 1)
  BY <1>1 DEF Ended
<1>4. QED
  BY <1>1, <1>2, <1>3, EndMatches

(* The sums of the opening that is being ended are put in place.          *)
LEMMA PutStore ==
  ASSUME NEW pr, Program(pr), NEW p \in Player, NEW c, NEW a, NEW d, NEW z,
         PlaceOK("direct", pr, p, c, a), Inside(pr, c, a, "end"),
         Begun(pr, d, z) = Begun(pr, c, a), Ended(pr, d, z) = Ended(pr, c, a),
         Replaced("direct", pr, d, z), ~ Replaced("direct", pr, c, a),
         Stored("direct", pr, p, d, z) = Stored("direct", pr, p, c, a),
         NEW v, IsSum(v, pr[c].ids, Player),
         NEW m, NEW mac, NEW val, NEW cnt, StoreOK("direct", pr, m, p, c, a, mac, val, cnt)
  PROVE  StoreOK("direct", pr, m, p, d, z, mac,
                 IF pr[c].mc = m THEN [i \in DOMAIN val |-> IF i - cnt \in DOMAIN v THEN v[i - cnt] ELSE val[i]]
                 ELSE val, cnt)
<1>1. PICK b, e, s : b = Begun(pr, c, a) /\ e = Ended(pr, c, a) /\ s = Stored("direct", pr, p, c, a)
  OBVIOUS
<1>2. b \in Nat /\ e \in Nat /\ s \in Nat /\ e <= s /\ s <= b /\ e <= b
  BY <1>1, PlaceNumbers
<1>3. /\ MacsOK(pr, m, e, b, mac, cnt) /\ Paired(mac, val, cnt) /\ cnt \in Nat
      /\ ValsOK("direct", pr, m, p, e, s, Replaced("direct", pr, c, a), val, cnt)
  BY <1>1 DEF StoreOK, Paired
<1>4. PICK o \in DOMAIN pr : /\ pr[o].op = "begin" /\ NumberOf(pr, o) = e + 1
                             /\ pr[o].mc = pr[c].mc /\ pr[o].ids = pr[c].ids
  BY <1>1, NextOpening
<1>5. PICK g, h : /\ g = ValContent("direct", pr, p, e, Replaced("direct", pr, c, a))
                  /\ h = ValContent("direct", pr, p, e, Replaced("direct", pr, d, z))
  OBVIOUS
<1>6. InPlace(pr, m, e, s, g, val, cnt)
  BY <1>3, <1>5 DEF ValsOK
<1>7. ASSUME NEW x \in DOMAIN pr, pr[x].op = "begin", x # o, NEW k \in 1 .. Len(pr[x].ids) PROVE g[x][k] = h[x][k]
  <2>1. NumberOf(pr, x) # e + 1
    BY <1>4, <1>7, NumberInjective, ProgramFacts
  <2>2. InStore("direct", pr, p, x, e, Replaced("direct", pr, c, a)) = {p}
    BY DEF InStore
  <2>3. InStore("direct", pr, p, x, e, Replaced("direct", pr, d, z)) = {p}
    BY <2>1 DEF InStore
  <2>4. /\ g[x][k] = SumOf(pr[x].ids[k], InStore("direct", pr, p, x, e, Replaced("direct", pr, c, a)))
        /\ h[x][k] = SumOf(pr[x].ids[k], InStore("direct", pr, p, x, e, Replaced("direct", pr, d, z)))
    BY <1>5, ContentIs
  <2>5. QED
    BY <2>2, <2>3, <2>4
<1>8. Puts(pr, o, h, v)
  <2>1. InStore("direct", pr, p, o, e, Replaced("direct", pr, d, z)) = Player
    BY <1>4 DEF InStore
  <2>2. IsSeq(v) /\ Len(v) = Len(pr[o].ids)
    BY <1>4 DEF IsSum
  <2>3. ASSUME NEW k \in 1 .. Len(pr[o].ids) PROVE v[k] = h[o][k]
    <3>1. v[k] = SumOf(pr[o].ids[k], Player)
      BY <1>4 DEF IsSum
    <3>2. h[o][k] = SumOf(pr[o].ids[k], InStore("direct", pr, p, o, e, Replaced("direct", pr, d, z)))
      BY <1>5, ContentIs
    <3>3. QED
      BY <2>1, <3>1, <3>2
  <2>4. QED
    BY <2>2, <2>3 DEF Puts
<1>9. PICK y : y = [i \in DOMAIN val |-> IF i - cnt \in DOMAIN v THEN v[i - cnt] ELSE val[i]]
  OBVIOUS
<1>10. PICK x : x = IF pr[c].mc = m THEN y ELSE val
  OBVIOUS
<1>11. InPlace(pr, m, e, s, h, x, cnt)
  <2>1. CASE pr[c].mc = m
    <3>1. Differ(pr, o, g, h)
      BY <1>7 DEF Differ
    <3>2. pr[o].mc = m
      BY <1>4, <2>1
    <3>3. InPlace(pr, m, e, s, h, y, cnt)
      BY <1>2, <1>3, <1>4, <1>6, <1>8, <1>9, <3>1, <3>2, InPlacePut
    <3>4. QED
      BY <1>10, <2>1, <3>3
  <2>2. CASE pr[c].mc # m
    <3>1. ASSUME NEW q \in DOMAIN pr, Opens(pr, m, q, e, s), NEW k \in 1 .. Len(pr[q].ids) PROVE g[q][k] = h[q][k]
      <4>1. q # o /\ pr[q].op = "begin"
        BY <1>4, <2>2, <3>1 DEF Opens
      <4>2. QED
        BY <1>7, <4>1
    <3>2. InPlace(pr, m, e, s, h, val, cnt)
      BY <1>6, <3>1, InPlaceSame
    <3>3. QED
      BY <1>10, <2>2, <3>2
  <2>3. QED
    BY <2>1, <2>2
<1>12. Paired(mac, x, cnt)
  <2>1. CASE pr[c].mc = m
    <3>1. IsSeq(val) /\ Len(val) \in Nat /\ DOMAIN val = 1 .. Len(val)
      <4>1. IsSeq(val)
        BY <1>6 DEF InPlace
      <4>2. QED
        BY <4>1, SeqDomain
    <3>2. PICK lv : lv = Len(val)
      OBVIOUS
    <3>3. DOMAIN y = 1 .. lv /\ y = [k \in 1 .. lv |-> y[k]]
      BY <1>9, <3>1, <3>2
    <3>4. Len(y) = lv
      BY <3>1, <3>2, <3>3, IsSeqOf
    <3>5. cnt <= lv /\ cnt <= Len(mac) /\ \A i \in 1 .. cnt : val[i] = Opened(mac[i])
      BY <1>3, <3>2 DEF Paired
    <3>6. DOMAIN v = 1 .. Len(v)
      BY SeqDomain DEF IsSum
    <3>7. ASSUME NEW i \in 1 .. cnt PROVE y[i] = val[i]
      <4>1. i \in 1 .. lv /\ ~ (i - cnt \in 1 .. Len(v))
        BY <1>3, <3>1, <3>2, <3>5
      <4>2. QED
        BY <1>9, <3>1, <3>2, <3>6, <4>1
    <3>8. Paired(mac, y, cnt)
      BY <1>3, <3>4, <3>5, <3>7 DEF Paired
    <3>9. QED
      BY <1>10, <2>1, <3>8
  <2>2. CASE pr[c].mc # m
    BY <1>3, <1>10, <2>2
  <2>3. QED
    BY <2>1, <2>2
<1>13. ValsOK("direct", pr, m, p, e, s, Replaced("direct", pr, d, z), x, cnt)
  BY <1>5, <1>11 DEF ValsOK
<1>14. QED
  BY <1>1, <1>3, <1>9, <1>10, <1>12, <1>13 DEF StoreOK

(* The opening's values join those to be checked, each paired with its    *)
(* MAC.                                                                   *)
LEMMA CloseStore ==
  ASSUME NEW me, NEW pr, Program(pr), NEW p \in Player, NEW c, NEW a, NEW d, NEW z,
         PlaceOK(me, pr, p, c, a), Inside(pr, c, a, "end"),
         Begun(pr, d, z) = Begun(pr, c, a), Ended(pr, d, z) = Ended(pr, c, a) + 1,
         Replaced(me, pr, c, a) = (me = "direct"), ~ Replaced(me, pr, d, z),
         Stored(me, pr, p, d, z) = Stored(me, pr, p, c, a),
         Ended(pr, c, a) + 1 <= Stored(me, pr, p, c, a),
         NEW m, NEW mac, NEW val, NEW cnt, StoreOK(me, pr, m, p, c, a, mac, val, cnt)
  PROVE  StoreOK(me, pr, m, p, d, z, mac, val, cnt + (IF pr[c].mc = m THEN Len(pr[c].ids) ELSE 0))
<1>1. PICK b, e, s : b = Begun(pr, c, a) /\ e = Ended(pr, c, a) /\ s = Stored(me, pr, p, c, a)
  OBVIOUS
<1>2. b \in Nat /\ e \in Nat /\ s \in Nat /\ e <= s /\ s <= b /\ e <= b /\ e + 1 <= s /\ e + 1 <= b
  <2>1. b \in Nat /\ e \in Nat /\ s \in Nat /\ e <= s /\ s <= b /\ e <= b
    BY <1>1, PlaceNumbers
  <2>2. e + 1 <= s
    BY <1>1
  <2>3. QED
    BY <2>1, <2>2
<1>3. /\ MacsOK(pr, m, e, b, mac, cnt) /\ Paired(mac, val, cnt) /\ cnt \in Nat
      /\ ValsOK(me, pr, m, p, e, s, Replaced(me, pr, c, a), val, cnt)
  BY <1>1 DEF StoreOK, Paired
<1>4. PICK o \in DOMAIN pr : /\ pr[o].op = "begin" /\ NumberOf(pr, o) = e + 1
                             /\ pr[o].mc = pr[c].mc /\ pr[o].ids = pr[c].ids
  BY <1>1, NextOpening
<1>5. PICK g, h : /\ g = ValContent(me, pr, p, e, Replaced(me, pr, c, a))
                  /\ h = ValContent(me, pr, p, e + 1, Replaced(me, pr, d, z))
  OBVIOUS
<1>6. InPlace(pr, m, e, s, g, val, cnt) /\ InPlace(pr, m, e, b, MacContent(pr), mac, cnt)
  BY <1>3, <1>5 DEF ValsOK, MacsOK
<1>7. PICK n, x : n = Len(pr[c].ids) /\ x = cnt + (IF pr[c].mc = m THEN Len(pr[c].ids) ELSE 0)
  OBVIOUS
<1>8. x = cnt + (IF pr[o].mc = m THEN Len(pr[o].ids) ELSE 0)
  BY <1>4, <1>7
<1>9. InPlace(pr, m, e + 1, b, MacContent(pr), mac, x)
  BY <1>2, <1>3, <1>4, <1>6, <1>8, InPlaceClose
<1>10. InPlace(pr, m, e + 1, s, g, val, x)
  BY <1>2, <1>3, <1>4, <1>6, <1>8, InPlaceClose
<1>11. ASSUME NEW q \in DOMAIN pr, Opens(pr, m, q, e + 1, s), NEW k \in 1 .. Len(pr[q].ids) PROVE g[q][k] = h[q][k]
  <2>1. NumberOf(pr, q) # e + 1
    <3>1. pr[q].op = "begin" /\ e + 1 < NumberOf(pr, q)
      BY <1>11 DEF Opens
    <3>2. NumberOf(pr, q) \in Nat
      BY <3>1, NumberIs, ProgramFacts
    <3>3. QED
      BY <1>2, <3>1, <3>2
  <2>2. InStore(me, pr, p, q, e, Replaced(me, pr, c, a)) = IF me = "direct" THEN {p} ELSE Player
    BY <2>1 DEF InStore
  <2>3. InStore(me, pr, p, q, e + 1, Replaced(me, pr, d, z)) = IF me = "direct" THEN {p} ELSE Player
    BY DEF InStore
  <2>4. /\ g[q][k] = SumOf(pr[q].ids[k], InStore(me, pr, p, q, e, Replaced(me, pr, c, a)))
        /\ h[q][k] = SumOf(pr[q].ids[k], InStore(me, pr, p, q, e + 1, Replaced(me, pr, d, z)))
    BY <1>5, ContentIs
  <2>5. QED
    BY <2>2, <2>3, <2>4
<1>12. InPlace(pr, m, e + 1, s, h, val, x)
  BY <1>10, <1>11, InPlaceSame
<1>13. Paired(mac, val, x)
  <2>1. CASE pr[c].mc = m
    <3>1. BeginsWith(pr, o, MacContent(pr), mac, cnt)
      <4>1. pr[o].mc = m
        BY <1>4, <2>1
      <4>2. InPlace(pr, m, e, b, MacContent(pr), mac, cnt) /\ pr[o].op = "begin" /\ NumberOf(pr, o) = e + 1
        BY <1>4, <1>6
      <4>3. QED
        BY <1>2, <1>3, <4>1, <4>2, InPlaceFirst
    <3>2. BeginsWith(pr, o, g, val, cnt)
      <4>1. pr[o].mc = m
        BY <1>4, <2>1
      <4>2. InPlace(pr, m, e, s, g, val, cnt) /\ pr[o].op = "begin" /\ NumberOf(pr, o) = e + 1
        BY <1>4, <1>6
      <4>3. QED
        BY <1>2, <1>3, <4>1, <4>2, InPlaceFirst
    <3>3. n \in Nat /\ n = Len(pr[o].ids) /\ x = cnt + n
      BY <1>4, <1>7, <2>1, <3>1 DEF BeginsWith
    <3>4. ASSUME NEW k \in 1 .. n PROVE val[cnt + k] = Opened(mac[cnt + k])
      <4>1. mac[cnt + k] = pr[o].ids[k]
        BY <3>1, <3>3 DEF MacContent, BeginsWith
      <4>2. g[o][k] = SumOf(pr[o].ids[k], InStore(me, pr, p, o, e, Replaced(me, pr, c, a)))
        BY <1>5, <3>3, ContentIs
      <4>3. InStore(me, pr, p, o, e, Replaced(me, pr, c, a)) = Player
        BY <1>4 DEF InStore
      <4>4. SumOf(pr[o].ids[k], Player) = Opened(pr[o].ids[k])
        BY DEF SumOf, Opened
      <4>5. QED
        BY <3>2, <3>3, <4>1, <4>2, <4>3, <4>4 DEF BeginsWith
    <3>5. cnt + n <= Len(mac) /\ cnt + n <= Len(val)
      BY <3>1, <3>2, <3>3 DEF BeginsWith
    <3>6. Paired(mac, val, cnt + n)
      BY <1>3, <3>3, <3>4, <3>5, PairedFurther
    <3>7. QED
      BY <3>3, <3>6
  <2>2. CASE pr[c].mc # m
    <3>1. x = cnt
      BY <1>3, <1>7, <2>2
    <3>2. QED
      BY <1>3, <3>1
  <2>3. QED
    BY <2>1, <2>2
<1>14. MacsOK(pr, m, e + 1, b, mac, x) /\ ValsOK(me, pr, m, p, e + 1, s, Replaced(me, pr, d, z), val, x)
  BY <1>5, <1>9, <1>12 DEF MacsOK, ValsOK
<1>15. QED
  BY <1>1, <1>7, <1>13, <1>14 DEF StoreOK

(* AddToCheck finds both vectors with nothing of an opening under way.      *)
LEMMA AddStore ==
  ASSUME NEW me, NEW pr, Program(pr), NEW p \in Player, NEW c \in DOMAIN pr, pr[c].op = "add",
         NEW z, z = Local("check_if_needed"),
         NEW mac, NEW val, NEW cnt, StoreOK(me, pr, pr[c].mc, p, c, Idle, mac, val, cnt)
  PROVE  StoreOK(me, pr, pr[c].mc, p, c, z, mac \o pr[c].ids,
                 val \o [i \in DOMAIN pr[c].ids |-> Opened(pr[c].ids[i])], cnt + Len(pr[c].ids))
<1>1. PICK b, e, s, r : /\ b = Begun(pr, c, Idle) /\ e = Ended(pr, c, Idle)
                        /\ s = Stored(me, pr, p, c, Idle) /\ r = Replaced(me, pr, c, Idle)
  OBVIOUS
<1>2. /\ Begun(pr, c, z) = b /\ Ended(pr, c, z) = e
      /\ Stored(me, pr, p, c, z) = s /\ Replaced(me, pr, c, z) = r
  <2>1. Tally(me, pr, p, Onward(c, z), z) = Tally(me, pr, p, c, Idle) /\ Onward(c, z) = c
    BY Aside, AddPlace
  <2>2. QED
    BY <1>1, <2>1 DEF Tally
<1>3. PlaceOK(me, pr, p, c, Idle)
  BY PlaceCounts DEF PlaceOK, Idle, Local, At
<1>4. b \in Nat /\ e \in Nat /\ s \in Nat /\ e <= s /\ s <= b /\ e <= b
  BY <1>1, <1>3, PlaceNumbers
<1>5. PICK m, ids : m = pr[c].mc /\ ids = pr[c].ids
  OBVIOUS
<1>6. /\ MacsOK(pr, m, e, b, mac, cnt) /\ ValsOK(me, pr, m, p, e, s, r, val, cnt)
      /\ Paired(mac, val, cnt) /\ cnt \in Nat
  BY <1>1, <1>5 DEF StoreOK, Paired
<1>7. b = Begins(pr, c - 1) /\ e = Ends(pr, c - 1)
  BY <1>1, PlaceCounts
<1>8. ASSUME NEW o \in DOMAIN pr PROVE ~ Opens(pr, m, o, e, b) /\ ~ Opens(pr, m, o, e, s)
  <2>1. ~ Opens(pr, m, o, e, b)
    BY <1>5, <1>7, AddAlone DEF Begins, Ends
  <2>2. ASSUME Opens(pr, m, o, e, s) PROVE Opens(pr, m, o, e, b)
    <3>1. NumberOf(pr, o) \in Nat
      BY <2>2, NumberIs, ProgramFacts DEF Opens
    <3>2. QED
      BY <1>4, <2>2, <3>1 DEF Opens
  <2>3. QED
    BY <2>1, <2>2
<1>9. PICK w : w = [i \in DOMAIN ids |-> Opened(ids[i])]
  OBVIOUS
<1>10. IsSeq(ids) /\ Len(ids) \in Nat /\ DOMAIN ids = 1 .. Len(ids)
  BY <1>5, IdsAreSeqs
<1>11. IsSeq(w) /\ Len(w) = Len(ids)
  BY <1>9, <1>10, LengthOfMap
<1>12. MacsOK(pr, m, e, b, mac \o ids, cnt + Len(ids))
  BY <1>4, <1>6, <1>8, <1>10, InPlaceAdd DEF MacsOK
<1>13. ValsOK(me, pr, m, p, e, s, r, val \o w, cnt + Len(ids))
  <2>1. InPlace(pr, m, e, s, ValContent(me, pr, p, e, r), val \o w, cnt + Len(w))
    BY <1>4, <1>6, <1>8, <1>11, InPlaceAdd DEF ValsOK
  <2>2. QED
    BY <1>11, <2>1 DEF ValsOK
<1>14. IsSeq(mac) /\ IsSeq(val) /\ Len(mac) = cnt /\ Len(val) = cnt
  <2>1. InPlace(pr, m, e, b, MacContent(pr), mac, cnt) /\ InPlace(pr, m, e, s, ValContent(me, pr, p, e, r), val, cnt)
    BY <1>6 DEF MacsOK, ValsOK
  <2>2. IsSeq(mac) /\ Len(mac) = cnt
    BY <1>4, <1>6, <1>8, <2>1, InPlaceAlone
  <2>3. IsSeq(val) /\ Len(val) = cnt
    BY <1>4, <1>6, <1>8, <2>1, InPlaceAlone
  <2>4. QED
    BY <2>2, <2>3
<1>15. Paired(mac \o ids, val \o w, cnt + Len(ids))
  <2>1. Paired(Cat(mac, ids), val, cnt) /\ IsSeq(Cat(mac, ids))
    <3>1. Paired(Cat(mac, ids), val, cnt)
      BY <1>6, <1>10, <1>14, PairedMore
    <3>2. IsSeq(mac \o ids)
      BY <1>12 DEF MacsOK, InPlace
    <3>3. QED
      BY <3>1, <3>2 DEF Cat
  <2>2. Paired(Cat(mac, ids), Cat(val, w), cnt)
    BY <1>11, <1>14, <2>1, PairedMore
  <2>3. PICK n : n = Len(ids)
    OBVIOUS
  <2>4. /\ n \in Nat /\ Len(Cat(mac, ids)) = cnt + n /\ Len(Cat(val, w)) = cnt + n
        /\ \A k \in 1 .. n : Cat(mac, ids)[cnt + k] = ids[k] /\ Cat(val, w)[cnt + k] = w[k]
    <3>1. /\ Len(Cat(mac, ids)) = Len(mac) + Len(ids)
          /\ \A k \in 1 .. Len(ids) : Cat(mac, ids)[Len(mac) + k] = ids[k]
      <4>1. IsSeq(mac) /\ IsSeq(ids)
        BY <1>10, <1>14
      <4>2. QED
        BY ONLY <4>1, CatElements
    <3>2. /\ Len(Cat(val, w)) = Len(val) + Len(w)
          /\ \A k \in 1 .. Len(w) : Cat(val, w)[Len(val) + k] = w[k]
      BY ONLY <1>11, <1>14, CatElements
    <3>3. n \in Nat /\ Len(ids) = n /\ Len(w) = n /\ Len(mac) = cnt /\ Len(val) = cnt
      BY <1>10, <1>11, <1>14, <2>3
    <3>4. ASSUME NEW k \in 1 .. n PROVE Cat(mac, ids)[cnt + k] = ids[k] /\ Cat(val, w)[cnt + k] = w[k]
      BY <3>1, <3>2, <3>3
    <3>5. QED
      BY <3>1, <3>2, <3>3, <3>4
  <2>5. \A k \in 1 .. n : w[k] = Opened(ids[k])
    BY <1>9, <1>10, <2>3
  <2>6. cnt + n <= cnt + n
    BY <1>6, <2>4
  <2>7. Paired(Cat(mac, ids), Cat(val, w), cnt + n)
    BY <2>2, <2>4, <2>5, <2>6, PairedFurther
  <2>8. QED
    BY <2>3, <2>7 DEF Cat
<1>16. StoreOK(me, pr, m, p, c, z, mac \o ids, val \o w, cnt + Len(ids))
  BY <1>2, <1>12, <1>13, <1>15 DEF StoreOK
<1>17. QED
  BY <1>5, <1>9, <1>16

(* A check cuts both vectors where the openings under way start.            *)
LEMMA VerifyStore ==
  ASSUME NEW me, NEW pr, Program(pr), NEW p \in Player, NEW c, NEW a, NEW d, NEW z,
         PlaceOK(me, pr, p, c, a), Tally(me, pr, p, d, z) = Tally(me, pr, p, c, a),
         NEW m, NEW mac, NEW val, NEW cnt, StoreOK(me, pr, m, p, c, a, mac, val, cnt)
  PROVE  StoreOK(me, pr, m, p, d, z, SubSeq(mac, cnt + 1, Len(mac)), SubSeq(val, cnt + 1, Len(val)), 0)
<1>1. PICK b, e, s, r : /\ b = Begun(pr, c, a) /\ e = Ended(pr, c, a)
                        /\ s = Stored(me, pr, p, c, a) /\ r = Replaced(me, pr, c, a)
  OBVIOUS
<1>2. /\ Begun(pr, d, z) = b /\ Ended(pr, d, z) = e
      /\ Stored(me, pr, p, d, z) = s /\ Replaced(me, pr, d, z) = r
  BY <1>1 DEF Tally
<1>3. b \in Nat /\ e \in Nat /\ s \in Nat /\ e <= s /\ e <= b
  BY <1>1, PlaceNumbers
<1>4. /\ MacsOK(pr, m, e, b, mac, cnt) /\ ValsOK(me, pr, m, p, e, s, r, val, cnt)
      /\ cnt \in Nat /\ cnt <= Len(mac) /\ cnt <= Len(val)
  BY <1>1 DEF StoreOK, Paired
<1>5. PICK x, y : x = SubSeq(mac, cnt + 1, Len(mac)) /\ y = SubSeq(val, cnt + 1, Len(val))
  OBVIOUS
<1>6. MacsOK(pr, m, e, b, x, 0) /\ ValsOK(me, pr, m, p, e, s, r, y, 0)
  BY <1>3, <1>4, <1>5, InPlaceCut DEF MacsOK, ValsOK
<1>7. IsSeq(x) /\ IsSeq(y)
  BY <1>6 DEF MacsOK, ValsOK, InPlace
<1>8. Len(x) \in Nat /\ Len(y) \in Nat
  BY <1>7, SeqDomain
<1>9. Paired(x, y, 0)
  BY <1>8 DEF Paired
<1>10. QED
  BY <1>2, <1>5, <1>6, <1>9 DEF StoreOK

-----------------------------------------------------------------------------
(* What the steps of a player do to all it has.                             *)

(* G is F, but for MAC check m, if any.                                     *)
Same(F, G) == \A y \in MCs : G[y] = F[y]

(* One MAC check's vector has changed, to x.                              *)
Only(F, G, m, x) == G[m] = x /\ \A y \in MCs : y # m => G[y] = F[y]

(* Stores that do not change at a place with the same counts.             *)
LEMMA StoresKept ==
  ASSUME NEW me, NEW pr, NEW p, NEW c, NEW a, NEW d, NEW z, Tally(me, pr, p, d, z) = Tally(me, pr, p, c, a),
         NEW Mac, NEW Val, NEW Cnt, Stores(me, pr, p, c, a, Mac, Val, Cnt),
         NEW Mac2, NEW Val2, NEW Cnt2, Same(Mac, Mac2), Same(Val, Val2), Same(Cnt, Cnt2)
  PROVE  Stores(me, pr, p, d, z, Mac2, Val2, Cnt2)
<1>1. ASSUME NEW m \in MCs PROVE StoreOK(me, pr, m, p, d, z, Mac2[m], Val2[m], Cnt2[m])
  <2>1. StoreOK(me, pr, m, p, c, a, Mac[m], Val[m], Cnt[m])
    BY DEF Stores
  <2>2. StoreOK(me, pr, m, p, d, z, Mac[m], Val[m], Cnt[m])
    BY <2>1, StoreMoves
  <2>3. Mac2[m] = Mac[m] /\ Val2[m] = Val[m] /\ Cnt2[m] = Cnt[m]
    BY DEF Same
  <2>4. QED
    BY <2>2, <2>3
<1>2. QED
  BY <1>1 DEF Stores

(* Outside of openings nothing is being summed.                           *)
LEMMA SumsNone ==
  ASSUME NEW me, NEW pr, NEW p, NEW d, NEW z, NEW V, NEW o,
         ~ Inside(pr, d, z, "begin"), ~ Inside(pr, d, z, "end")
  PROVE  Sums(me, pr, p, d, z, V, o)
  BY DEF Sums, ValuesOK, StreamOK

(* Between calls and in a check a player is not in an opening.            *)
LEMMA NotInside ==
  ASSUME NEW pr, NEW d, NEW z, z = Idle \/ Checking(z), NEW op
  PROVE  ~ Inside(pr, d, z, op)
  BY DEF Inside

(* What has to hold of the sums in an opening's beginning,                *)
LEMMA SumsInBegin ==
  ASSUME NEW me, NEW pr, NEW p, NEW c, NEW z, pr[c].op = "begin",
         NEW V, NEW o, IsSum(V[pr[c].mc], pr[c].ids, Held(me, pr, p, c, z)),
         me = "passing" => IsSum(o, pr[c].ids, IF z.do = "append_stream" THEN Player ELSE Behind(p, z.i))
  PROVE  Sums(me, pr, p, c, z, V, o)
<1>1. ~ Inside(pr, c, z, "end")
  BY DEF Inside
<1>2. QED
  BY <1>1 DEF Sums, ValuesOK, StreamOK

(* and in its end.                                                        *)
LEMMA SumsInEnd ==
  ASSUME NEW me, NEW pr, NEW p, NEW c, NEW z, pr[c].op = "end", NEW V, NEW o,
         IF z.do \in {"get", "receive"} THEN IsSeq(V[pr[c].mc]) /\ Len(V[pr[c].mc]) = Len(pr[c].ids)
         ELSE IsSum(V[pr[c].mc], pr[c].ids, Held(me, pr, p, c, z))
  PROVE  Sums(me, pr, p, c, z, V, o)
<1>1. ~ Inside(pr, c, z, "begin")
  BY DEF Inside
<1>2. QED
  BY <1>1 DEF Sums, ValuesOK, StreamOK

(* What the invariant says of a player in an opening.                     *)
LEMMA LocalFacts ==
  ASSUME NEW me, NEW pr, NEW p, NEW c \in DOMAIN pr, NEW a, NEW V, NEW o, NEW Mac, NEW Val, NEW Cnt, NEW res,
         LocalOK(me, pr, p, c, a, V, o, Mac, Val, Cnt, res)
  PROVE  /\ PlaceOK(me, pr, p, c, a) /\ Stores(me, pr, p, c, a, Mac, Val, Cnt) /\ ResultsOK(res)
         /\ Inside(pr, c, a, "begin") => IsSum(V[pr[c].mc], pr[c].ids, Held(me, pr, p, c, a))
         /\ Inside(pr, c, a, "begin") /\ me = "passing" =>
              IsSum(o, pr[c].ids, IF a.do = "append_stream" THEN Player ELSE Behind(p, a.i))
         /\ Inside(pr, c, a, "end") /\ a.do \in {"get", "receive"} =>
              IsSeq(V[pr[c].mc]) /\ Len(V[pr[c].mc]) = Len(pr[c].ids)
         /\ Inside(pr, c, a, "end") /\ ~ (a.do \in {"get", "receive"}) =>
              IsSum(V[pr[c].mc], pr[c].ids, Held(me, pr, p, c, a))
  BY DEF LocalOK, Sums, ValuesOK, StreamOK

(* Steps between calls and in a check change nothing it has.                *)
LEMMA LocalAside ==
  ASSUME NEW me, NEW pr, Program(pr), NEW p \in Player, NEW c \in DOMAIN pr, NEW a, NEW z,
         pr[c].op \in {"add", "check"} \/ (pr[c].op = "end" /\ Checking(a)),
         z = Idle \/ Checking(z), PlaceOK(me, pr, p, Onward(c, z), z),
         NEW V, NEW o, NEW Mac, NEW Val, NEW Cnt, NEW res, LocalOK(me, pr, p, c, a, V, o, Mac, Val, Cnt, res),
         NEW V2, NEW o2, NEW Mac2, NEW Val2, NEW Cnt2, Same(Mac, Mac2), Same(Val, Val2), Same(Cnt, Cnt2)
  PROVE  LocalOK(me, pr, p, Onward(c, z), z, V2, o2, Mac2, Val2, Cnt2, res)
<1>1. PICK d : d = Onward(c, z)
  OBVIOUS
<1>2. Tally(me, pr, p, d, z) = Tally(me, pr, p, c, a)
  BY <1>1, Aside
<1>3. Stores(me, pr, p, c, a, Mac, Val, Cnt) /\ ResultsOK(res)
  BY LocalFacts
<1>4. Stores(me, pr, p, d, z, Mac2, Val2, Cnt2)
  BY <1>2, <1>3, StoresKept
<1>5. Sums(me, pr, p, d, z, V2, o2)
  BY NotInside, SumsNone
<1>6. QED
  BY <1>1, <1>3, <1>4, <1>5 DEF LocalOK

(* A player's invariant in each step: an opening begins,                  *)
LEMMA LocalBegin ==
  ASSUME NEW me \in Method, NEW pr, Program(pr), NEW p \in Player, NEW c \in DOMAIN pr, pr[c].op = "begin",
         NEW z, z = FirstPlace(me, p),
         NEW V, NEW o, NEW Mac, NEW Val, NEW Cnt, NEW res, LocalOK(me, pr, p, c, Idle, V, o, Mac, Val, Cnt, res),
         NEW V2, NEW own, own = [i \in DOMAIN pr[c].ids |-> Share(pr[c].ids[i], p)],
         Only(V, V2, pr[c].mc, own),
         NEW Mac2, Only(Mac, Mac2, pr[c].mc, Mac[pr[c].mc] \o pr[c].ids)
  PROVE  LocalOK(me, pr, p, c, z, V2, own, Mac2, Val, Cnt, res)
<1>1. PlaceOK(me, pr, p, c, Idle) /\ Stores(me, pr, p, c, Idle, Mac, Val, Cnt) /\ ResultsOK(res)
  BY LocalFacts
<1>2. /\ PlaceOK(me, pr, p, c, z) /\ Held(me, pr, p, c, z) = {p}
      /\ me = "passing" => z.do = "pass" /\ z.i = 1
  BY BeginPlace
<1>3. ASSUME NEW m \in MCs PROVE StoreOK(me, pr, m, p, c, z, Mac2[m], Val[m], Cnt[m])
  <2>1. StoreOK(me, pr, m, p, c, Idle, Mac[m], Val[m], Cnt[m])
    BY <1>1 DEF Stores
  <2>2. PICK x : x = IF pr[c].mc = m THEN Mac[m] \o pr[c].ids ELSE Mac[m]
    OBVIOUS
  <2>3. StoreOK(me, pr, m, p, c, z, x, Val[m], Cnt[m])
    BY <1>1, <2>1, <2>2, BeginStore
  <2>4. Mac2[m] = x
    BY <2>2 DEF Only
  <2>5. QED
    BY <2>3, <2>4
<1>4. IsSum(own, pr[c].ids, {p})
  BY IdsAreSeqs, SumOfOwn
<1>5. V2[pr[c].mc] = own /\ Behind(p, 1) = {p}
  BY BehindFacts DEF Only
<1>6. IsSum(V2[pr[c].mc], pr[c].ids, Held(me, pr, p, c, z))
  BY <1>2, <1>4, <1>5
<1>7. me = "passing" => IsSum(own, pr[c].ids, IF z.do = "append_stream" THEN Player ELSE Behind(p, z.i))
  BY <1>2, <1>4, <1>5
<1>8. Sums(me, pr, p, c, z, V2, own)
  BY <1>6, <1>7, SumsInBegin
<1>9. Stores(me, pr, p, c, z, Mac2, Val, Cnt)
  BY <1>3 DEF Stores
<1>10. QED
  BY <1>1, <1>2, <1>8, <1>9 DEF LocalOK

(* is ended,                                                              *)
LEMMA LocalEnd ==
  ASSUME NEW me \in Method, NEW pr, Program(pr), NEW p \in Player, NEW c \in DOMAIN pr, pr[c].op = "end",
         NEW z, z = IF me = "tree" /\ ~ Relays(p) THEN AwaitSum(p) ELSE Local("get"),
         NEW V, NEW o, NEW Mac, NEW Val, NEW Cnt, NEW res, LocalOK(me, pr, p, c, Idle, V, o, Mac, Val, Cnt, res),
         NEW V2, Only(V, V2, pr[c].mc, [i \in DOMAIN pr[c].ids |-> EmptyBag])
  PROVE  LocalOK(me, pr, p, c, z, V2, o, Mac, Val, Cnt, res)
<1>1. Stores(me, pr, p, c, Idle, Mac, Val, Cnt) /\ ResultsOK(res)
  BY LocalFacts
<1>2. /\ PlaceOK(me, pr, p, c, z) /\ z.do \in {"get", "receive"}
      /\ Tally(me, pr, p, c, z) = Tally(me, pr, p, c, Idle)
  BY EndPlace
<1>3. Stores(me, pr, p, c, z, Mac, Val, Cnt)
  BY <1>1, <1>2, StoresKept DEF Same
<1>4. PICK v : v = [i \in DOMAIN pr[c].ids |-> EmptyBag]
  OBVIOUS
<1>5. IsSeq(v) /\ Len(v) = Len(pr[c].ids)
  BY <1>4, IdsAreSeqs, LengthOfMap
<1>6. V2[pr[c].mc] = v
  BY <1>4 DEF Only
<1>7. Sums(me, pr, p, c, z, V2, o)
  BY <1>2, <1>5, <1>6, SumsInEnd
<1>8. QED
  BY <1>1, <1>2, <1>3, <1>7 DEF LocalOK

(* or a value is added.                                                   *)
LEMMA LocalAdd ==
  ASSUME NEW me \in Method, NEW pr, Program(pr), NEW p \in Player, NEW c \in DOMAIN pr, pr[c].op = "add",
         NEW z, z = Local("check_if_needed"),
         NEW V, NEW o, NEW Mac, NEW Val, NEW Cnt, NEW res, LocalOK(me, pr, p, c, Idle, V, o, Mac, Val, Cnt, res),
         NEW Mac2, NEW Val2, NEW Cnt2, NEW x, x = pr[c].mc,
         Only(Mac, Mac2, x, Mac[x] \o pr[c].ids),
         Only(Val, Val2, x, Val[x] \o [i \in DOMAIN pr[c].ids |-> Opened(pr[c].ids[i])]),
         Only(Cnt, Cnt2, x, Cnt[x] + Len(pr[c].ids))
  PROVE  LocalOK(me, pr, p, c, z, V, o, Mac2, Val2, Cnt2, res)
<1>1. Stores(me, pr, p, c, Idle, Mac, Val, Cnt) /\ ResultsOK(res)
  BY LocalFacts
<1>2. /\ PlaceOK(me, pr, p, c, z) /\ Onward(c, z) = c
      /\ ~ Inside(pr, c, z, "begin") /\ ~ Inside(pr, c, z, "end")
  BY AddPlace
<1>3. Tally(me, pr, p, c, z) = Tally(me, pr, p, c, Idle)
  <2>1. Tally(me, pr, p, Onward(c, z), z) = Tally(me, pr, p, c, Idle)
    BY Aside
  <2>2. QED
    BY <1>2, <2>1
<1>4. ASSUME NEW m \in MCs PROVE StoreOK(me, pr, m, p, c, z, Mac2[m], Val2[m], Cnt2[m])
  <2>1. StoreOK(me, pr, m, p, c, Idle, Mac[m], Val[m], Cnt[m])
    BY <1>1 DEF Stores
  <2>2. CASE m = x
    <3>1. StoreOK(me, pr, pr[c].mc, p, c, Idle, Mac[m], Val[m], Cnt[m])
      BY <2>1, <2>2
    <3>2. PICK y : y = [i \in DOMAIN pr[c].ids |-> Opened(pr[c].ids[i])]
      OBVIOUS
    <3>3. StoreOK(me, pr, pr[c].mc, p, c, z, Mac[m] \o pr[c].ids, Val[m] \o y, Cnt[m] + Len(pr[c].ids))
      BY <3>1, <3>2, AddStore
    <3>4. Mac2[m] = Mac[m] \o pr[c].ids /\ Val2[m] = Val[m] \o y /\ Cnt2[m] = Cnt[m] + Len(pr[c].ids)
      BY <2>2, <3>2 DEF Only
    <3>5. QED
      BY <2>2, <3>3, <3>4
  <2>3. CASE m # x
    <3>1. Mac2[m] = Mac[m] /\ Val2[m] = Val[m] /\ Cnt2[m] = Cnt[m]
      BY <2>3 DEF Only
    <3>2. QED
      BY <1>3, <2>1, <3>1, StoreMoves
  <2>4. QED
    BY <2>2, <2>3
<1>5. Stores(me, pr, p, c, z, Mac2, Val2, Cnt2)
  BY <1>4 DEF Stores
<1>6. Sums(me, pr, p, c, z, V, o)
  BY <1>2, SumsNone
<1>7. QED
  BY <1>1, <1>2, <1>5, <1>6 DEF LocalOK

(* The sum is passed on,                                                  *)
LEMMA LocalPassUp ==
  ASSUME NEW pr, Program(pr), NEW p \in Player, NEW c \in DOMAIN pr, NEW a, a.do = "pass_up",
         NEW z, z = IF Relays(p) THEN AwaitSum(p) ELSE Idle,
         NEW V, NEW o, NEW Mac, NEW Val, NEW Cnt, NEW res, LocalOK("tree", pr, p, c, a, V, o, Mac, Val, Cnt, res)
  PROVE  LocalOK("tree", pr, p, Onward(c, z), z, V, o, Mac, Val, Cnt, res)
<1>1. /\ PlaceOK("tree", pr, p, c, a) /\ Stores("tree", pr, p, c, a, Mac, Val, Cnt) /\ ResultsOK(res)
      /\ Inside(pr, c, a, "begin") => IsSum(V[pr[c].mc], pr[c].ids, Held("tree", pr, p, c, a))
  BY LocalFacts
<1>2. PICK d : d = Onward(c, z)
  OBVIOUS
<1>3. /\ pr[c].op = "begin" /\ Inside(pr, c, a, "begin")
      /\ PlaceOK("tree", pr, p, d, z) /\ (z # Idle => z.do = "receive")
      /\ Tally("tree", pr, p, d, z) = Tally("tree", pr, p, c, a)
  BY <1>1, <1>2, PassUpPlace
<1>4. Stores("tree", pr, p, d, z, Mac, Val, Cnt)
  BY <1>1, <1>3, StoresKept DEF Same
<1>5. Sums("tree", pr, p, d, z, V, o)
  <2>1. CASE z = Idle
    BY <2>1, NotInside, SumsNone
  <2>2. CASE z # Idle
    <3>1. d = c /\ z.do = "receive"
      BY <1>2, <1>3, <2>2 DEF Onward
    <3>2. Held("tree", pr, p, c, a) = Part(p) /\ Held("tree", pr, p, c, z) = Part(p)
      BY <3>1 DEF Held
    <3>3. IsSum(V[pr[c].mc], pr[c].ids, Held("tree", pr, p, c, z))
      BY <1>1, <1>3, <3>2
    <3>4. Sums("tree", pr, p, c, z, V, o)
      BY <1>3, <3>3, SumsInBegin
    <3>5. QED
      BY <3>1, <3>4
  <2>3. QED
    BY <2>1, <2>2
<1>6. QED
  BY <1>1, <1>2, <1>3, <1>4, <1>5 DEF LocalOK

(* sent,                                                                  *)
LEMMA LocalSend ==
  ASSUME NEW me \in {"tree", "direct"}, NEW pr, Program(pr), NEW p \in Player, NEW c \in DOMAIN pr,
         NEW a, a.do = "send",
         NEW next, next = IF me = "tree" THEN a.i + 1 ELSE Other(p, a.i + 1),
         NEW end, end = IF me = "tree" THEN Receivers(p) ELSE N,
         NEW z, z = IF next < end THEN At("send", next, 0)
                    ELSE IF me = "tree" /\ p > 0 THEN Idle ELSE Local("append"),
         NEW V, NEW o, NEW Mac, NEW Val, NEW Cnt, NEW res, LocalOK(me, pr, p, c, a, V, o, Mac, Val, Cnt, res)
  PROVE  LocalOK(me, pr, p, Onward(c, z), z, V, o, Mac, Val, Cnt, res)
<1>1. /\ PlaceOK(me, pr, p, c, a) /\ Stores(me, pr, p, c, a, Mac, Val, Cnt) /\ ResultsOK(res)
      /\ Inside(pr, c, a, "begin") => IsSum(V[pr[c].mc], pr[c].ids, Held(me, pr, p, c, a))
  BY LocalFacts
<1>2. PICK d : d = Onward(c, z)
  OBVIOUS
<1>3. /\ pr[c].op = "begin" /\ Inside(pr, c, a, "begin")
      /\ PlaceOK(me, pr, p, d, z) /\ (z # Idle => z.do \in {"send", "append"})
      /\ Tally(me, pr, p, d, z) = Tally(me, pr, p, c, a)
  BY <1>1, <1>2, SendPlace
<1>4. Stores(me, pr, p, d, z, Mac, Val, Cnt)
  BY <1>1, <1>3, StoresKept DEF Same
<1>5. Sums(me, pr, p, d, z, V, o)
  <2>1. CASE z = Idle
    BY <2>1, NotInside, SumsNone
  <2>2. CASE z # Idle
    <3>1. d = c /\ z.do \in {"send", "append"} /\ me # "passing"
      BY <1>2, <1>3, <2>2 DEF Onward
    <3>2. Held(me, pr, p, c, z) = Held(me, pr, p, c, a)
      BY <1>3, <3>1 DEF Held
    <3>3. IsSum(V[pr[c].mc], pr[c].ids, Held(me, pr, p, c, z))
      BY <1>1, <1>3, <3>2
    <3>4. Sums(me, pr, p, c, z, V, o)
      BY <1>3, <3>1, <3>3, SumsInBegin
    <3>5. QED
      BY <3>1, <3>4
  <2>3. QED
    BY <2>1, <2>2
<1>6. QED
  BY <1>1, <1>2, <1>3, <1>4, <1>5 DEF LocalOK

(* added to in the tree,                                                  *)
LEMMA LocalAddTree ==
  ASSUME NEW pr, Program(pr), NEW p \in Player, NEW c \in DOMAIN pr, NEW a, a.do = "add",
         NEW z, z = IF a.i + SumPlayers(a.last) < a.last
                    THEN At("add", a.i + SumPlayers(a.last), a.last) ELSE SumRound(p, SumPlayers(a.last)),
         NEW V, NEW o, NEW Mac, NEW Val, NEW Cnt, NEW res, LocalOK("tree", pr, p, c, a, V, o, Mac, Val, Cnt, res),
         NEW w, IsSum(w, pr[c].ids, Content("tree", a.i, p, 1)),
         NEW V2, Only(V, V2, pr[c].mc, SumUp(V[pr[c].mc], w))
  PROVE  LocalOK("tree", pr, p, c, z, V2, o, Mac, Val, Cnt, res)
<1>1. /\ PlaceOK("tree", pr, p, c, a) /\ Stores("tree", pr, p, c, a, Mac, Val, Cnt) /\ ResultsOK(res)
      /\ Inside(pr, c, a, "begin") => IsSum(V[pr[c].mc], pr[c].ids, Held("tree", pr, p, c, a))
  BY LocalFacts
<1>2. /\ pr[c].op = "begin" /\ Inside(pr, c, a, "begin")
      /\ PlaceOK("tree", pr, p, c, z) /\ Tally("tree", pr, p, c, z) = Tally("tree", pr, p, c, a)
      /\ Held("tree", pr, p, c, z) = Held("tree", pr, p, c, a) \cup Content("tree", a.i, p, 1)
      /\ Held("tree", pr, p, c, a) \cap Content("tree", a.i, p, 1) = {}
  BY <1>1, AddTreePlace
<1>3. Stores("tree", pr, p, c, z, Mac, Val, Cnt)
  BY <1>1, <1>2, StoresKept DEF Same
<1>4. IsSum(SumUp(V[pr[c].mc], w), pr[c].ids, Held("tree", pr, p, c, a) \cup Content("tree", a.i, p, 1))
  BY <1>1, <1>2, SumsAdd
<1>5. IsSum(V2[pr[c].mc], pr[c].ids, Held("tree", pr, p, c, z))
  BY <1>2, <1>4 DEF Only
<1>6. Sums("tree", pr, p, c, z, V2, o)
  BY <1>2, <1>5, SumsInBegin
<1>7. QED
  BY <1>1, <1>2, <1>3, <1>6 DEF LocalOK

(* added to in the direct method,                                         *)
LEMMA LocalAddDirect ==
  ASSUME NEW pr, Program(pr), NEW p \in Player, NEW c \in DOMAIN pr, NEW a, a.do = "add",
         NEW next, next = Other(p, a.i + 1),
         NEW z, z = IF next < N THEN At("add", next, a.last) ELSE Local("put"),
         NEW V, NEW o, NEW Mac, NEW Val, NEW Cnt, NEW res,
         LocalOK("direct", pr, p, c, a, V, o, Mac, Val, Cnt, res),
         NEW w, IsSum(w, pr[c].ids, Content("direct", a.i, p, 1)),
         NEW V2, Only(V, V2, pr[c].mc, SumUp(V[pr[c].mc], w))
  PROVE  LocalOK("direct", pr, p, c, z, V2, o, Mac, Val, Cnt, res)
<1>1. /\ PlaceOK("direct", pr, p, c, a) /\ Stores("direct", pr, p, c, a, Mac, Val, Cnt) /\ ResultsOK(res)
      /\ Inside(pr, c, a, "end") => IsSum(V[pr[c].mc], pr[c].ids, Held("direct", pr, p, c, a))
  BY LocalFacts
<1>2. /\ pr[c].op = "end" /\ Inside(pr, c, a, "end") /\ z.do \in {"add", "put"}
      /\ PlaceOK("direct", pr, p, c, z) /\ Tally("direct", pr, p, c, z) = Tally("direct", pr, p, c, a)
      /\ Held("direct", pr, p, c, z) = Held("direct", pr, p, c, a) \cup Content("direct", a.i, p, 1)
      /\ Held("direct", pr, p, c, a) \cap Content("direct", a.i, p, 1) = {}
  BY <1>1, AddDirectPlace
<1>3. Stores("direct", pr, p, c, z, Mac, Val, Cnt)
  BY <1>1, <1>2, StoresKept DEF Same
<1>4. IsSum(SumUp(V[pr[c].mc], w), pr[c].ids, Held("direct", pr, p, c, a) \cup Content("direct", a.i, p, 1))
  BY <1>1, <1>2, SumsAdd
<1>5. IsSum(V2[pr[c].mc], pr[c].ids, Held("direct", pr, p, c, z))
  BY <1>2, <1>4 DEF Only
<1>6. Sums("direct", pr, p, c, z, V2, o)
  BY <1>2, <1>5, SumsInEnd
<1>7. QED
  BY <1>1, <1>2, <1>3, <1>6 DEF LocalOK

(* or received.                                                           *)
LEMMA LocalReceive ==
  ASSUME NEW pr, Program(pr), NEW p \in Player, NEW c \in DOMAIN pr, NEW a, a.do = "receive",
         NEW z, z = Local("append"),
         NEW V, NEW o, NEW Mac, NEW Val, NEW Cnt, NEW res, LocalOK("tree", pr, p, c, a, V, o, Mac, Val, Cnt, res),
         NEW w, IsSum(w, pr[c].ids, Player), NEW V2, Only(V, V2, pr[c].mc, w)
  PROVE  LocalOK("tree", pr, p, c, z, V2, o, Mac, Val, Cnt, res)
<1>1. PlaceOK("tree", pr, p, c, a) /\ Stores("tree", pr, p, c, a, Mac, Val, Cnt) /\ ResultsOK(res)
  BY LocalFacts
<1>2. /\ PlaceOK("tree", pr, p, c, z) /\ Tally("tree", pr, p, c, z) = Tally("tree", pr, p, c, a)
      /\ z.do = "append" /\ pr[c].op = (IF Relays(p) THEN "begin" ELSE "end")
  BY <1>1, ReceivePlace
<1>3. Stores("tree", pr, p, c, z, Mac, Val, Cnt)
  BY <1>1, <1>2, StoresKept DEF Same
<1>4. Held("tree", pr, p, c, z) = Player
  BY <1>2 DEF Held
<1>5. IsSum(V2[pr[c].mc], pr[c].ids, Held("tree", pr, p, c, z))
  BY <1>4 DEF Only
<1>6. Sums("tree", pr, p, c, z, V2, o)
  <2>1. CASE Relays(p)
    BY <1>2, <1>5, <2>1, SumsInBegin
  <2>2. CASE ~ Relays(p)
    BY <1>2, <1>5, <2>2, SumsInEnd
  <2>3. QED
    BY <2>1, <2>2
<1>7. QED
  BY <1>1, <1>2, <1>3, <1>6 DEF LocalOK

(* A stream is passed on,                                                 *)
LEMMA LocalPass ==
  ASSUME NEW pr, Program(pr), NEW p \in Player, NEW c \in DOMAIN pr, NEW a, a.do = "pass",
         NEW z, z = At("take", a.i, 0),
         NEW V, NEW o, NEW Mac, NEW Val, NEW Cnt, NEW res,
         LocalOK("passing", pr, p, c, a, V, o, Mac, Val, Cnt, res)
  PROVE  /\ LocalOK("passing", pr, p, c, z, V, o, Mac, Val, Cnt, res)
         /\ IsSum(o, pr[c].ids, Behind(p, a.i))
<1>1. /\ PlaceOK("passing", pr, p, c, a) /\ Stores("passing", pr, p, c, a, Mac, Val, Cnt) /\ ResultsOK(res)
      /\ Inside(pr, c, a, "begin") => IsSum(V[pr[c].mc], pr[c].ids, Held("passing", pr, p, c, a))
      /\ Inside(pr, c, a, "begin") =>
           IsSum(o, pr[c].ids, IF a.do = "append_stream" THEN Player ELSE Behind(p, a.i))
  BY LocalFacts
<1>2. /\ PlaceOK("passing", pr, p, c, z) /\ Tally("passing", pr, p, c, z) = Tally("passing", pr, p, c, a)
      /\ z.do = "take" /\ z.i = a.i /\ pr[c].op = "begin" /\ Inside(pr, c, a, "begin")
  BY <1>1, PassPlace
<1>3. Stores("passing", pr, p, c, z, Mac, Val, Cnt)
  BY <1>1, <1>2, StoresKept DEF Same
<1>4. Held("passing", pr, p, c, z) = Held("passing", pr, p, c, a)
  BY <1>2 DEF Held
<1>5. IsSum(V[pr[c].mc], pr[c].ids, Held("passing", pr, p, c, z))
  BY <1>1, <1>2, <1>4
<1>6. IsSum(o, pr[c].ids, Behind(p, a.i)) /\ IsSum(o, pr[c].ids, IF z.do = "append_stream" THEN Player ELSE Behind(p, z.i))
  BY <1>1, <1>2
<1>7. Sums("passing", pr, p, c, z, V, o)
  BY <1>2, <1>5, <1>6, SumsInBegin
<1>8. QED
  BY <1>1, <1>2, <1>3, <1>6, <1>7 DEF LocalOK

(* or taken and added to.                                                 *)
LEMMA LocalTake ==
  ASSUME NEW pr, Program(pr), NEW p \in Player, NEW c \in DOMAIN pr, NEW a, a.do = "take",
         NEW z, z = IF a.i < N - 1 THEN At("pass", a.i + 1, 0) ELSE Local("append_stream"),
         NEW V, NEW o, NEW Mac, NEW Val, NEW Cnt, NEW res,
         LocalOK("passing", pr, p, c, a, V, o, Mac, Val, Cnt, res),
         NEW w, IsSum(w, pr[c].ids, Behind(PreviousPlayer(p), a.i)),
         NEW o2, o2 = SumUp(V[pr[c].mc], w)
  PROVE  LocalOK("passing", pr, p, c, z, V, o2, Mac, Val, Cnt, res)
<1>1. /\ PlaceOK("passing", pr, p, c, a) /\ Stores("passing", pr, p, c, a, Mac, Val, Cnt) /\ ResultsOK(res)
      /\ Inside(pr, c, a, "begin") => IsSum(V[pr[c].mc], pr[c].ids, Held("passing", pr, p, c, a))
  BY LocalFacts
<1>2. PICK x : x = PreviousPlayer(p)
  OBVIOUS
<1>3. /\ PlaceOK("passing", pr, p, c, z) /\ Tally("passing", pr, p, c, z) = Tally("passing", pr, p, c, a)
      /\ pr[c].op = "begin" /\ Inside(pr, c, a, "begin")
      /\ (IF z.do = "append_stream" THEN Player ELSE Behind(p, z.i)) = {p} \cup Behind(x, a.i)
      /\ {p} \cap Behind(x, a.i) = {}
  BY <1>1, <1>2, TakePlace
<1>4. Stores("passing", pr, p, c, z, Mac, Val, Cnt)
  BY <1>1, <1>3, StoresKept DEF Same
<1>5. Held("passing", pr, p, c, z) = {p} /\ Held("passing", pr, p, c, a) = {p}
  BY <1>3 DEF Held
<1>6. IsSum(V[pr[c].mc], pr[c].ids, {p}) /\ IsSum(V[pr[c].mc], pr[c].ids, Held("passing", pr, p, c, z))
  BY <1>1, <1>3, <1>5
<1>7. IsSum(o2, pr[c].ids, {p} \cup Behind(x, a.i))
  BY <1>2, <1>3, <1>6, SumsAdd
<1>8. IsSum(o2, pr[c].ids, IF z.do = "append_stream" THEN Player ELSE Behind(p, z.i))
  BY <1>3, <1>7
<1>9. Sums("passing", pr, p, c, z, V, o2)
  BY <1>3, <1>6, <1>8, SumsInBegin
<1>10. QED
  BY <1>1, <1>3, <1>4, <1>9 DEF LocalOK

(* The opening whose values are appended.                                   *)
LEMMA AppendedOpening ==
  ASSUME NEW me \in Method, NEW pr, Program(pr), NEW p \in Player, NEW c \in DOMAIN pr, NEW a,
         PlaceOK(me, pr, p, c, a), a.do = "append"
  PROVE  \E o \in DOMAIN pr :
           /\ pr[o].op = "begin" /\ NumberOf(pr, o) = Stored(me, pr, p, c, a) + 1
           /\ pr[o].mc = pr[c].mc /\ pr[o].ids = pr[c].ids
<1>1. PICK z : z = IF pr[c].op = "end" THEN Local("close")
                   ELSE IF me = "tree" /\ p > 0 THEN At("send", p * MaxBroadcast, 0) ELSE Idle
  OBVIOUS
<1>2. PICK d : d = Onward(c, z)
  OBVIOUS
<1>3. /\ pr[c].op \in {"begin", "end"} /\ Inside(pr, c, a, pr[c].op)
      /\ pr[c].op = "begin" => Stored(me, pr, p, c, a) + 1 = NumberOf(pr, c)
      /\ pr[c].op = "end" => me = "tree" /\ Stored(me, pr, p, c, a) = Ended(pr, c, a)
  BY <1>1, <1>2, AppendPlace
<1>4. CASE pr[c].op = "begin"
  BY <1>3, <1>4
<1>5. CASE pr[c].op = "end"
  <2>1. Inside(pr, c, a, "end")
    BY <1>3, <1>5
  <2>2. PICK o \in DOMAIN pr : /\ pr[o].op = "begin" /\ NumberOf(pr, o) = Ended(pr, c, a) + 1
                               /\ pr[o].mc = pr[c].mc /\ pr[o].ids = pr[c].ids
    BY <2>1, NextOpening
  <2>3. NumberOf(pr, o) = Stored(me, pr, p, c, a) + 1
    BY <1>3, <1>5, <2>2
  <2>4. QED
    BY <2>2, <2>3
<1>6. QED
  BY <1>3, <1>4, <1>5

(* Values are appended,                                                   *)
LEMMA LocalAppend ==
  ASSUME NEW me \in Method, NEW pr, Program(pr), NEW p \in Player, NEW c \in DOMAIN pr, NEW a, a.do = "append",
         NEW z, z = IF pr[c].op = "end" THEN Local("close")
                    ELSE IF me = "tree" /\ p > 0 THEN At("send", p * MaxBroadcast, 0) ELSE Idle,
         NEW V, NEW o, NEW Mac, NEW Val, NEW Cnt, NEW res, LocalOK(me, pr, p, c, a, V, o, Mac, Val, Cnt, res),
         NEW Val2, Only(Val, Val2, pr[c].mc, Val[pr[c].mc] \o V[pr[c].mc])
  PROVE  LocalOK(me, pr, p, Onward(c, z), z, V, o, Mac, Val2, Cnt, res)
<1>1. /\ PlaceOK(me, pr, p, c, a) /\ Stores(me, pr, p, c, a, Mac, Val, Cnt) /\ ResultsOK(res)
      /\ Inside(pr, c, a, "begin") => IsSum(V[pr[c].mc], pr[c].ids, Held(me, pr, p, c, a))
      /\ Inside(pr, c, a, "end") /\ ~ (a.do \in {"get", "receive"}) =>
           IsSum(V[pr[c].mc], pr[c].ids, Held(me, pr, p, c, a))
  BY LocalFacts
<1>2. PICK d : d = Onward(c, z)
  OBVIOUS
<1>3. /\ PlaceOK(me, pr, p, d, z)
      /\ pr[c].op \in {"begin", "end"} /\ Inside(pr, c, a, pr[c].op)
      /\ Begun(pr, d, z) = Begun(pr, c, a) /\ Ended(pr, d, z) = Ended(pr, c, a)
      /\ ~ Replaced(me, pr, d, z) /\ ~ Replaced(me, pr, c, a)
      /\ Stored(me, pr, p, d, z) = Stored(me, pr, p, c, a) + 1
      /\ Held(me, pr, p, c, a) = (IF me = "direct" THEN {p} ELSE Player)
      /\ (z # Idle => d = c /\ z.do \in {"send", "close"} /\ Held(me, pr, p, c, z) = Held(me, pr, p, c, a))
  BY <1>1, <1>2, AppendPlace
<1>4. IsSum(V[pr[c].mc], pr[c].ids, Held(me, pr, p, c, a))
  BY <1>1, <1>3
<1>5. PICK b \in DOMAIN pr : /\ pr[b].op = "begin" /\ NumberOf(pr, b) = Stored(me, pr, p, c, a) + 1
                             /\ pr[b].mc = pr[c].mc /\ pr[b].ids = pr[c].ids
  BY <1>1, AppendedOpening
<1>6. PICK v : v = V[pr[c].mc]
  OBVIOUS
<1>7. IsSum(v, pr[b].ids, IF me = "direct" THEN {p} ELSE Player)
  BY <1>3, <1>4, <1>5, <1>6
<1>8. ASSUME NEW m \in MCs PROVE StoreOK(me, pr, m, p, d, z, Mac[m], Val2[m], Cnt[m])
  <2>1. StoreOK(me, pr, m, p, c, a, Mac[m], Val[m], Cnt[m])
    BY <1>1 DEF Stores
  <2>2. PICK x : x = IF pr[b].mc = m THEN Val[m] \o v ELSE Val[m]
    OBVIOUS
  <2>3. StoreOK(me, pr, m, p, d, z, Mac[m], x, Cnt[m])
    <3>1. /\ PlaceOK(me, pr, p, c, a) /\ Program(pr) /\ p \in Player /\ b \in DOMAIN pr
          /\ Begun(pr, d, z) = Begun(pr, c, a) /\ Ended(pr, d, z) = Ended(pr, c, a)
          /\ ~ Replaced(me, pr, d, z) /\ ~ Replaced(me, pr, c, a)
          /\ Stored(me, pr, p, d, z) = Stored(me, pr, p, c, a) + 1
          /\ pr[b].op = "begin" /\ NumberOf(pr, b) = Stored(me, pr, p, c, a) + 1
      BY <1>1, <1>3, <1>5
    <3>2. QED
      BY ONLY <1>7, <2>1, <2>2, <3>1, AppendStore
  <2>4. Val2[m] = x
    BY <1>5, <1>6, <2>2 DEF Only
  <2>5. QED
    BY <2>3, <2>4
<1>9. Stores(me, pr, p, d, z, Mac, Val2, Cnt)
  BY <1>8 DEF Stores
<1>10. Sums(me, pr, p, d, z, V, o)
  <2>1. CASE z = Idle
    BY <2>1, NotInside, SumsNone
  <2>2. CASE z # Idle
    <3>1. d = c /\ IsSum(V[pr[c].mc], pr[c].ids, Held(me, pr, p, c, z)) /\ z.do \in {"send", "close"}
      BY <1>3, <1>4, <2>2
    <3>2. CASE pr[c].op = "begin"
      <4>1. me = "tree"
        BY <2>2, <3>2
      <4>2. QED
        BY <3>1, <3>2, <4>1, SumsInBegin
    <3>3. CASE pr[c].op = "end"
      BY <3>1, <3>3, SumsInEnd
    <3>4. QED
      BY <1>3, <3>2, <3>3
  <2>3. QED
    BY <2>1, <2>2
<1>11. QED
  BY <1>1, <1>2, <1>3, <1>9, <1>10 DEF LocalOK

(* a stream is,                                                           *)
LEMMA LocalAppendStream ==
  ASSUME NEW pr, Program(pr), NEW p \in Player, NEW c \in DOMAIN pr, NEW a, a.do = "append_stream",
         NEW V, NEW o, NEW Mac, NEW Val, NEW Cnt, NEW res,
         LocalOK("passing", pr, p, c, a, V, o, Mac, Val, Cnt, res),
         NEW Val2, Only(Val, Val2, pr[c].mc, Val[pr[c].mc] \o o)
  PROVE  LocalOK("passing", pr, p, Onward(c, Idle), Idle, V, o, Mac, Val2, Cnt, res)
<1>1. /\ PlaceOK("passing", pr, p, c, a) /\ Stores("passing", pr, p, c, a, Mac, Val, Cnt) /\ ResultsOK(res)
      /\ Inside(pr, c, a, "begin") =>
           IsSum(o, pr[c].ids, IF a.do = "append_stream" THEN Player ELSE Behind(p, a.i))
  BY LocalFacts
<1>2. PICK d : d = Onward(c, Idle)
  OBVIOUS
<1>3. /\ PlaceOK("passing", pr, p, d, Idle)
      /\ pr[c].op = "begin" /\ Inside(pr, c, a, "begin")
      /\ Begun(pr, d, Idle) = Begun(pr, c, a) /\ Ended(pr, d, Idle) = Ended(pr, c, a)
      /\ ~ Replaced("passing", pr, d, Idle) /\ ~ Replaced("passing", pr, c, a)
      /\ Stored("passing", pr, p, d, Idle) = Stored("passing", pr, p, c, a) + 1
      /\ Stored("passing", pr, p, c, a) + 1 = NumberOf(pr, c)
  BY <1>1, <1>2, StreamPlace
<1>4. IsSum(o, pr[c].ids, IF "passing" = "direct" THEN {p} ELSE Player)
  BY <1>1, <1>3
<1>5. ASSUME NEW m \in MCs PROVE StoreOK("passing", pr, m, p, d, Idle, Mac[m], Val2[m], Cnt[m])
  <2>1. StoreOK("passing", pr, m, p, c, a, Mac[m], Val[m], Cnt[m])
    BY <1>1 DEF Stores
  <2>2. PICK x : x = IF pr[c].mc = m THEN Val[m] \o o ELSE Val[m]
    OBVIOUS
  <2>3. StoreOK("passing", pr, m, p, d, Idle, Mac[m], x, Cnt[m])
    BY <1>1, <1>3, <1>4, <2>1, <2>2, AppendStore
  <2>4. Val2[m] = x
    BY <2>2 DEF Only
  <2>5. QED
    BY <2>3, <2>4
<1>6. Stores("passing", pr, p, d, Idle, Mac, Val2, Cnt)
  BY <1>5 DEF Stores
<1>7. Sums("passing", pr, p, d, Idle, V, o)
  BY NotInside, SumsNone
<1>8. QED
  BY <1>1, <1>2, <1>3, <1>6, <1>7 DEF LocalOK

(* or sums are put in place.                                              *)
LEMMA LocalPut ==
  ASSUME NEW pr, Program(pr), NEW p \in Player, NEW c \in DOMAIN pr, NEW a, a.do = "put",
         NEW z, z = Local("close"),
         NEW V, NEW o, NEW Mac, NEW Val, NEW Cnt, NEW res,
         LocalOK("direct", pr, p, c, a, V, o, Mac, Val, Cnt, res),
         NEW x, x = pr[c].mc,
         NEW Val2, Only(Val, Val2, x, [i \in DOMAIN Val[x] |->
                     IF i - Cnt[x] \in DOMAIN V[x] THEN V[x][i - Cnt[x]] ELSE Val[x][i]])
  PROVE  LocalOK("direct", pr, p, c, z, V, o, Mac, Val2, Cnt, res)
<1>1. /\ PlaceOK("direct", pr, p, c, a) /\ Stores("direct", pr, p, c, a, Mac, Val, Cnt) /\ ResultsOK(res)
      /\ Inside(pr, c, a, "end") /\ ~ (a.do \in {"get", "receive"}) =>
           IsSum(V[pr[c].mc], pr[c].ids, Held("direct", pr, p, c, a))
  BY LocalFacts
<1>2. /\ PlaceOK("direct", pr, p, c, z) /\ z.do = "close"
      /\ pr[c].op = "end" /\ Inside(pr, c, a, "end")
      /\ Begun(pr, c, z) = Begun(pr, c, a) /\ Ended(pr, c, z) = Ended(pr, c, a)
      /\ Replaced("direct", pr, c, z) /\ ~ Replaced("direct", pr, c, a)
      /\ Stored("direct", pr, p, c, z) = Stored("direct", pr, p, c, a)
      /\ Held("direct", pr, p, c, a) = Player /\ Held("direct", pr, p, c, z) = Player
  BY <1>1, PutPlace
<1>3. PICK v : v = V[x]
  OBVIOUS
<1>4. IsSum(v, pr[c].ids, Player)
  BY <1>1, <1>2, <1>3
<1>5. ASSUME NEW m \in MCs PROVE StoreOK("direct", pr, m, p, c, z, Mac[m], Val2[m], Cnt[m])
  <2>1. StoreOK("direct", pr, m, p, c, a, Mac[m], Val[m], Cnt[m])
    BY <1>1 DEF Stores
  <2>2. PICK y : y = IF pr[c].mc = m
                     THEN [i \in DOMAIN Val[m] |-> IF i - Cnt[m] \in DOMAIN v THEN v[i - Cnt[m]] ELSE Val[m][i]]
                     ELSE Val[m]
    OBVIOUS
  <2>3. StoreOK("direct", pr, m, p, c, z, Mac[m], y, Cnt[m])
    BY <1>1, <1>2, <1>4, <2>1, <2>2, PutStore
  <2>4. Val2[m] = y
    BY <1>3, <2>2 DEF Only
  <2>5. QED
    BY <2>3, <2>4
<1>6. Stores("direct", pr, p, c, z, Mac, Val2, Cnt)
  BY <1>5 DEF Stores
<1>7. Sums("direct", pr, p, c, z, V, o)
  BY <1>2, <1>3, <1>4, SumsInEnd
<1>8. QED
  BY <1>1, <1>2, <1>6, <1>7 DEF LocalOK

(* A piece of a vector in store.                                            *)
LEMMA PieceFacts ==
  ASSUME NEW st, IsSeq(st), NEW cnt \in Nat, NEW n \in Nat, cnt + n <= Len(st)
  PROVE  /\ IsSeq(SubSeq(st, cnt + 1, cnt + n)) /\ Len(SubSeq(st, cnt + 1, cnt + n)) = n
         /\ \A k \in 1 .. n : SubSeq(st, cnt + 1, cnt + n)[k] = st[cnt + k]
<1>1. PICK S : st \in Seq(S)
  BY DEF IsSeq
<1>2. PICK l : l = Len(st)
  OBVIOUS
<1>3. l \in Nat /\ cnt + n <= l /\ \A i \in 1 .. l : st[i] \in S
  BY <1>1, <1>2
<1>4. \A i \in cnt + 1 .. cnt + n : i \in 1 .. l
  BY <1>3
<1>5. SubSeq(st, cnt + 1, cnt + n) \in Seq(S)
  BY <1>1, <1>2, <1>3, <1>4
<1>6. PICK w : w = SubSeq(st, cnt + 1, cnt + n)
  OBVIOUS
<1>7. Len(w) = n /\ \A k \in 1 .. n : w[k] = st[cnt + k]
  BY <1>1, <1>3, <1>6
<1>8. QED
  BY <1>5, <1>6, <1>7 DEF IsSeq

(* Values are read.                                                       *)
LEMMA LocalGet ==
  ASSUME NEW me \in Method, NEW pr, Program(pr), NEW p \in Player, NEW c \in DOMAIN pr, NEW a, a.do = "get",
         NEW z, z = IF me = "direct" THEN At("add", Other(p, 0), 0) ELSE Local("close"),
         NEW V, NEW o, NEW Mac, NEW Val, NEW Cnt, NEW res, LocalOK(me, pr, p, c, a, V, o, Mac, Val, Cnt, res),
         NEW x, x = pr[c].mc, x \in MCs,
         NEW V2, Only(V, V2, x, SubSeq(Val[x], Cnt[x] + 1, Cnt[x] + Len(V[x])))
  PROVE  LocalOK(me, pr, p, c, z, V2, o, Mac, Val, Cnt, res)
<1>1. /\ PlaceOK(me, pr, p, c, a) /\ Stores(me, pr, p, c, a, Mac, Val, Cnt) /\ ResultsOK(res)
      /\ Inside(pr, c, a, "end") /\ a.do \in {"get", "receive"} => Len(V[pr[c].mc]) = Len(pr[c].ids)
  BY LocalFacts
<1>2. /\ PlaceOK(me, pr, p, c, z) /\ z.do \in {"add", "close"}
      /\ pr[c].op = "end" /\ Inside(pr, c, a, "end")
      /\ Tally(me, pr, p, c, z) = Tally(me, pr, p, c, a) /\ ~ Replaced(me, pr, c, a)
      /\ Ended(pr, c, a) + 1 <= Stored(me, pr, p, c, a)
      /\ Held(me, pr, p, c, z) = (IF me = "direct" THEN {p} ELSE Player)
  <2>1. PlaceOK(me, pr, p, c, z) /\ z.do \in {"add", "close"} /\ pr[c].op = "end" /\ Inside(pr, c, a, "end")
    BY <1>1, GetPlace
  <2>2. Tally(me, pr, p, c, z) = Tally(me, pr, p, c, a) /\ ~ Replaced(me, pr, c, a)
    BY <1>1, GetPlace
  <2>3. Ended(pr, c, a) + 1 <= Stored(me, pr, p, c, a)
    BY <1>1, GetPlace
  <2>4. Held(me, pr, p, c, z) = (IF me = "direct" THEN {p} ELSE Player)
    <3>1. CASE me = "direct"
      <4>1. z = At("add", Other(p, 0), 0)
        BY <3>1
      <4>2. Held(me, pr, p, c, z) = {p}
        BY <1>1, <3>1, <4>1, GetPlace
      <4>3. QED
        BY <3>1, <4>2
    <3>2. CASE me # "direct"
      <4>1. z = Local("close")
        BY <3>2
      <4>2. Held(me, pr, p, c, z) = Player
        BY <1>1, <3>2, <4>1, GetPlace
      <4>3. QED
        BY <3>2, <4>2
    <3>3. QED
      BY <3>1, <3>2
  <2>5. QED
    BY <2>1, <2>2, <2>3, <2>4
<1>3. Stores(me, pr, p, c, z, Mac, Val, Cnt)
  BY <1>1, <1>2, StoresKept DEF Same
<1>4. PICK e, s, st, cnt, n : /\ e = Ended(pr, c, a) /\ s = Stored(me, pr, p, c, a)
                              /\ st = Val[x] /\ cnt = Cnt[x] /\ n = Len(V[x])
  OBVIOUS
<1>5. PICK g : g = ValContent(me, pr, p, e, Replaced(me, pr, c, a))
  OBVIOUS
<1>6. InPlace(pr, x, e, s, g, st, cnt) /\ cnt \in Nat
  <2>1. StoreOK(me, pr, x, p, c, a, Mac[x], st, cnt)
    BY <1>1, <1>4 DEF Stores
  <2>2. QED
    BY <1>4, <1>5, <2>1 DEF StoreOK, ValsOK, Paired
<1>7. e \in Nat /\ s \in Nat /\ e + 1 <= s
  BY <1>1, <1>2, <1>4, PlaceNumbers
<1>8. PICK b \in DOMAIN pr : /\ pr[b].op = "begin" /\ NumberOf(pr, b) = e + 1
                             /\ pr[b].mc = x /\ pr[b].ids = pr[c].ids
  BY <1>1, <1>2, <1>4, NextOpening
<1>9. BeginsWith(pr, b, g, st, cnt)
  BY <1>6, <1>7, <1>8, InPlaceFirst
<1>10. n = Len(pr[b].ids) /\ n \in Nat /\ cnt + n <= Len(st) /\ \A k \in 1 .. n : st[cnt + k] = g[b][k]
  <2>1. n = Len(pr[b].ids)
    BY <1>1, <1>2, <1>4, <1>8
  <2>2. QED
    BY <1>9, <2>1 DEF BeginsWith
<1>11. IsSeq(st)
  BY <1>6 DEF InPlace
<1>12. PICK w : w = SubSeq(st, cnt + 1, cnt + n)
  OBVIOUS
<1>13. IsSeq(w) /\ Len(w) = n /\ \A k \in 1 .. n : w[k] = st[cnt + k]
  <2>1. cnt \in Nat /\ n \in Nat /\ cnt + n <= Len(st)
    BY <1>6, <1>10
  <2>2. QED
    BY ONLY <1>11, <1>12, <2>1, PieceFacts
<1>14. ASSUME NEW k \in 1 .. n PROVE w[k] = SumOf(pr[c].ids[k], Held(me, pr, p, c, z))
  <2>1. k \in 1 .. Len(pr[b].ids)
    BY <1>10
  <2>2. g[b][k] = SumOf(pr[b].ids[k], InStore(me, pr, p, b, e, Replaced(me, pr, c, a)))
    BY <1>5, <2>1, ContentIs
  <2>3. InStore(me, pr, p, b, e, Replaced(me, pr, c, a)) = Held(me, pr, p, c, z)
    BY <1>2 DEF InStore
  <2>4. QED
    BY <1>8, <1>10, <1>13, <2>2, <2>3
<1>15. IsSum(w, pr[c].ids, Held(me, pr, p, c, z))
  BY <1>8, <1>10, <1>13, <1>14 DEF IsSum
<1>16. V2[pr[c].mc] = w
  BY <1>4, <1>12 DEF Only
<1>17. Sums(me, pr, p, c, z, V2, o)
  BY <1>2, <1>15, <1>16, SumsInEnd
<1>18. QED
  BY <1>1, <1>2, <1>3, <1>17 DEF LocalOK

(* One more result.                                                       *)
LEMMA ResultMore ==
  ASSUME NEW res, ResultsOK(res), NEW ids, IsSeq(ids), NEW v, IsSum(v, ids, Player)
  PROVE  ResultsOK(Append(res, [ids |-> ids, values |-> v]))
<1>1. PICK e : e = [ids |-> ids, values |-> v]
  OBVIOUS
<1>2. e.values = [j \in DOMAIN e.ids |-> Opened(e.ids[j])]
  <2>1. e.ids = ids /\ e.values = v
    BY <1>1
  <2>2. v = [j \in DOMAIN ids |-> Opened(ids[j])]
    BY SumOfAll
  <2>3. QED
    BY <2>1, <2>2
<1>3. PICK r, l : r = Append(res, e) /\ l = Len(res)
  OBVIOUS
<1>4. IsSeq(r) /\ l \in Nat /\ Len(r) = l + 1 /\ r[l + 1] = e /\ \A i \in 1 .. l : r[i] = res[i]
  BY <1>3, AppendFacts DEF ResultsOK
<1>5. ASSUME NEW i \in 1 .. l + 1 PROVE r[i].values = [j \in DOMAIN r[i].ids |-> Opened(r[i].ids[j])]
  <2>1. CASE i = l + 1
    BY <1>2, <1>4, <2>1
  <2>2. CASE i # l + 1
    <3>1. i \in 1 .. l
      BY <1>4, <2>2
    <3>2. res[i].values = [j \in DOMAIN res[i].ids |-> Opened(res[i].ids[j])]
      BY <1>3, <3>1 DEF ResultsOK
    <3>3. QED
      BY <1>4, <3>1, <3>2
  <2>3. QED
    BY <2>1, <2>2
<1>6. QED
  BY <1>1, <1>3, <1>4, <1>5 DEF ResultsOK

(* The opening is closed.                                                 *)
LEMMA LocalClose ==
  ASSUME NEW me \in Method, NEW pr, Program(pr), NEW p \in Player, NEW c \in DOMAIN pr, NEW a, a.do = "close",
         NEW z, z \in {Idle, FirstOfCheck},
         NEW V, NEW o, NEW Mac, NEW Val, NEW Cnt, NEW res, LocalOK(me, pr, p, c, a, V, o, Mac, Val, Cnt, res),
         NEW Cnt2, Only(Cnt, Cnt2, pr[c].mc, Cnt[pr[c].mc] + Len(V[pr[c].mc]))
  PROVE  LocalOK(me, pr, p, Onward(c, z), z, V, o, Mac, Val, Cnt2,
                 Append(res, [ids |-> pr[c].ids, values |-> V[pr[c].mc]]))
<1>1. /\ PlaceOK(me, pr, p, c, a) /\ Stores(me, pr, p, c, a, Mac, Val, Cnt) /\ ResultsOK(res)
      /\ Inside(pr, c, a, "end") /\ ~ (a.do \in {"get", "receive"}) =>
           IsSum(V[pr[c].mc], pr[c].ids, Held(me, pr, p, c, a))
  BY LocalFacts
<1>2. PICK d, v : d = Onward(c, z) /\ v = V[pr[c].mc]
  OBVIOUS
<1>3. /\ PlaceOK(me, pr, p, d, z) /\ (z = Idle \/ Checking(z))
      /\ pr[c].op = "end" /\ Inside(pr, c, a, "end")
      /\ Begun(pr, d, z) = Begun(pr, c, a) /\ Ended(pr, d, z) = Ended(pr, c, a) + 1
      /\ Replaced(me, pr, c, a) = (me = "direct") /\ ~ Replaced(me, pr, d, z)
      /\ Stored(me, pr, p, d, z) = Stored(me, pr, p, c, a)
      /\ Ended(pr, c, a) + 1 <= Stored(me, pr, p, c, a)
      /\ Held(me, pr, p, c, a) = Player
  BY <1>1, <1>2, ClosePlace
<1>4. IsSum(v, pr[c].ids, Player) /\ Len(v) = Len(pr[c].ids)
  BY <1>1, <1>2, <1>3 DEF IsSum
<1>5. ASSUME NEW m \in MCs PROVE StoreOK(me, pr, m, p, d, z, Mac[m], Val[m], Cnt2[m])
  <2>1. StoreOK(me, pr, m, p, c, a, Mac[m], Val[m], Cnt[m]) /\ Cnt[m] \in Nat
    BY <1>1 DEF Stores, StoreOK, Paired
  <2>2. PICK y : y = Cnt[m] + (IF pr[c].mc = m THEN Len(pr[c].ids) ELSE 0)
    OBVIOUS
  <2>3. StoreOK(me, pr, m, p, d, z, Mac[m], Val[m], y)
    BY <1>1, <1>3, <2>1, <2>2, CloseStore
  <2>4. Cnt2[m] = y
    <3>1. CASE pr[c].mc = m
      BY <1>2, <1>4, <2>2, <3>1 DEF Only
    <3>2. CASE pr[c].mc # m
      BY <2>1, <2>2, <3>2 DEF Only
    <3>3. QED
      BY <3>1, <3>2
  <2>5. QED
    BY <2>3, <2>4
<1>6. Stores(me, pr, p, d, z, Mac, Val, Cnt2)
  BY <1>5 DEF Stores
<1>7. Sums(me, pr, p, d, z, V, o)
  BY <1>3, NotInside, SumsNone
<1>8. ResultsOK(Append(res, [ids |-> pr[c].ids, values |-> v]))
  BY <1>1, <1>4, IdsAreSeqs, ResultMore
<1>9. QED
  BY <1>2, <1>3, <1>6, <1>7, <1>8 DEF LocalOK

(* A check cuts the vectors.                                              *)
LEMMA LocalVerify ==
  ASSUME NEW me, NEW pr, Program(pr), NEW p \in Player, NEW c \in DOMAIN pr, NEW a, a.do = "verify",
         NEW V, NEW o, NEW Mac, NEW Val, NEW Cnt, NEW res, LocalOK(me, pr, p, c, a, V, o, Mac, Val, Cnt, res),
         NEW x, x = pr[c].mc,
         NEW Mac2, NEW Val2, NEW Cnt2, Only(Mac, Mac2, x, SubSeq(Mac[x], Cnt[x] + 1, Len(Mac[x]))),
         Only(Val, Val2, x, SubSeq(Val[x], Cnt[x] + 1, Len(Val[x]))), Only(Cnt, Cnt2, x, 0)
  PROVE  LocalOK(me, pr, p, Onward(c, Idle), Idle, V, o, Mac2, Val2, Cnt2, res)
<1>1. PlaceOK(me, pr, p, c, a) /\ Stores(me, pr, p, c, a, Mac, Val, Cnt) /\ ResultsOK(res)
  BY LocalFacts
<1>2. PICK d : d = Onward(c, Idle)
  OBVIOUS
<1>3. Checking(a)
  BY DEF Checking
<1>4. pr[c].op \in {"add", "check"} \/ pr[c].op = "end"
  BY <1>1, <1>3, AtCheck
<1>5. Tally(me, pr, p, d, Idle) = Tally(me, pr, p, c, a)
  BY <1>2, <1>3, <1>4, Aside
<1>6. PlaceOK(me, pr, p, d, Idle)
  BY <1>2, <1>4, CheckPlace
<1>7. ASSUME NEW m \in MCs PROVE StoreOK(me, pr, m, p, d, Idle, Mac2[m], Val2[m], Cnt2[m])
  <2>1. StoreOK(me, pr, m, p, c, a, Mac[m], Val[m], Cnt[m])
    BY <1>1 DEF Stores
  <2>2. CASE m = x
    <3>1. /\ Mac2[m] = SubSeq(Mac[m], Cnt[m] + 1, Len(Mac[m]))
          /\ Val2[m] = SubSeq(Val[m], Cnt[m] + 1, Len(Val[m])) /\ Cnt2[m] = 0
      BY <2>2 DEF Only
    <3>2. StoreOK(me, pr, m, p, d, Idle, SubSeq(Mac[m], Cnt[m] + 1, Len(Mac[m])),
                  SubSeq(Val[m], Cnt[m] + 1, Len(Val[m])), 0)
      BY <1>1, <1>5, <2>1, VerifyStore
    <3>3. QED
      BY <3>1, <3>2
  <2>3. CASE m # x
    <3>1. Mac2[m] = Mac[m] /\ Val2[m] = Val[m] /\ Cnt2[m] = Cnt[m]
      BY <2>3 DEF Only
    <3>2. QED
      BY <1>5, <2>1, <3>1, StoreMoves
  <2>4. QED
    BY <2>2, <2>3
<1>8. Stores(me, pr, p, d, Idle, Mac2, Val2, Cnt2)
  BY <1>7 DEF Stores
<1>9. Sums(me, pr, p, d, Idle, V, o)
  BY NotInside, SumsNone
<1>10. QED
  BY <1>1, <1>2, <1>6, <1>8, <1>9 DEF LocalOK

-----------------------------------------------------------------------------
(* All channels; C and A are the players' places, W the messages.           *)
Channels(me, pr, C, A, W) ==
  \A q, r \in Player : ChannelOK(me, pr, q, r, C[q], A[q], C[r], A[r], W[q][r])

(* One player has moved; all channels but two are the same.               *)
Moved(F, G, p, x) == G[p] = x /\ \A q \in Player : q # p => G[q] = F[q]
SameBut(W, W2, p, x, y) ==
  \A q, r \in Player : ~ (q = p /\ r = x) /\ ~ (q = y /\ r = p) => W2[q][r] = W[q][r]

(* Nobody is linked to itself.                                            *)
LEMMA NotSelf ==
  ASSUME NEW me, NEW p \in Player
  PROVE  ~ Linked(me, p, p)
<1>1. p \in Nat /\ NextPlayer(p) # p
  BY PlayerFacts, BehindFacts
<1>2. ~ (p < p) /\ ~ (p > p)
  BY <1>1
<1>3. QED
  BY <1>1, <1>2 DEF Linked

(* What a channel carries between linked players.                         *)
LEMMA ChannelIs ==
  ASSUME NEW me, NEW pr, NEW C, NEW A, NEW W, Channels(me, pr, C, A, W),
         NEW q \in Player, NEW r \in Player, Linked(me, q, r)
  PROVE  Carries(me, pr, q, r, W[q][r], LastTaken(me, pr, q, r, C[r], A[r]), LastSent(me, pr, q, r, C[q], A[q]))
  BY DEF Channels, ChannelOK

(* A step of p changes the last message sent on the channel to x, and the   *)
(* last taken on the one from y, at most.                                   *)
LEMMA ChannelsMove ==
  ASSUME NEW me, NEW pr, NEW C, NEW A, NEW W, Channels(me, pr, C, A, W),
         NEW p \in Player, NEW z, NEW d, d = Onward(C[p], z),
         NEW C2, Moved(C, C2, p, d), NEW A2, Moved(A, A2, p, z),
         NEW x \in Player, NEW y \in Player, NEW W2, SameBut(W, W2, p, x, y),
         SentBut(me, pr, p, x, C[p], A[p], z), TakenBut(me, pr, p, y, C[p], A[p], z),
         x # p /\ Linked(me, p, x) =>
           Carries(me, pr, p, x, W2[p][x], LastTaken(me, pr, p, x, C[x], A[x]), LastSent(me, pr, p, x, d, z)),
         y # p /\ Linked(me, y, p) =>
           Carries(me, pr, y, p, W2[y][p], LastTaken(me, pr, y, p, d, z), LastSent(me, pr, y, p, C[y], A[y]))
  PROVE  Channels(me, pr, C2, A2, W2)
<1>1. SUFFICES ASSUME NEW q \in Player, NEW r \in Player, Linked(me, q, r)
               PROVE  Carries(me, pr, q, r, W2[q][r], LastTaken(me, pr, q, r, C2[r], A2[r]),
                              LastSent(me, pr, q, r, C2[q], A2[q]))
  BY DEF Channels, ChannelOK
<1>2. q # r
  BY <1>1, NotSelf
<1>3. Carries(me, pr, q, r, W[q][r], LastTaken(me, pr, q, r, C[r], A[r]), LastSent(me, pr, q, r, C[q], A[q]))
  BY <1>1, ChannelIs
<1>4. C2[p] = d /\ A2[p] = z /\ \A s \in Player : s # p => C2[s] = C[s] /\ A2[s] = A[s]
  BY DEF Moved
<1>5. CASE q = p
  <2>1. C2[r] = C[r] /\ A2[r] = A[r] /\ C2[q] = d /\ A2[q] = z
    BY <1>2, <1>4, <1>5
  <2>2. CASE r = x
    BY <1>1, <1>2, <1>5, <2>1, <2>2
  <2>3. CASE r # x
    <3>1. W2[q][r] = W[q][r]
      BY <1>2, <1>5, <2>3 DEF SameBut
    <3>2. LastSent(me, pr, q, r, d, z) = LastSent(me, pr, q, r, C[q], A[q])
      BY <1>1, <1>5, <2>3 DEF SentBut
    <3>3. QED
      BY <1>3, <2>1, <3>1, <3>2
  <2>4. QED
    BY <2>2, <2>3
<1>6. CASE r = p
  <2>1. C2[q] = C[q] /\ A2[q] = A[q] /\ C2[r] = d /\ A2[r] = z
    BY <1>2, <1>4, <1>6
  <2>2. CASE q = y
    BY <1>1, <1>2, <1>6, <2>1, <2>2
  <2>3. CASE q # y
    <3>1. W2[q][r] = W[q][r]
      BY <1>2, <1>6, <2>3 DEF SameBut
    <3>2. LastTaken(me, pr, q, r, d, z) = LastTaken(me, pr, q, r, C[r], A[r])
      BY <1>1, <1>6, <2>3 DEF TakenBut
    <3>3. QED
      BY <1>3, <2>1, <3>1, <3>2
  <2>4. QED
    BY <2>2, <2>3
<1>7. CASE q # p /\ r # p
  <2>1. W2[q][r] = W[q][r]
    BY <1>7 DEF SameBut
  <2>2. C2[q] = C[q] /\ A2[q] = A[q] /\ C2[r] = C[r] /\ A2[r] = A[r]
    BY <1>4, <1>7
  <2>3. QED
    BY <1>3, <2>1, <2>2
<1>8. QED
  BY <1>5, <1>6, <1>7

(* The channels in a step of p that neither sends nor takes values,       *)
LEMMA ChannelsQuiet ==
  ASSUME NEW me, NEW pr, NEW C, NEW A, NEW W, Channels(me, pr, C, A, W),
         NEW p \in Player, NEW z, NEW d, d = Onward(C[p], z),
         NEW C2, Moved(C, C2, p, d), NEW A2, Moved(A, A2, p, z),
         SentBut(me, pr, p, p, C[p], A[p], z), TakenBut(me, pr, p, p, C[p], A[p], z)
  PROVE  Channels(me, pr, C2, A2, W)
<1>1. SameBut(W, W, p, p, p)
  BY DEF SameBut
<1>2. QED
  BY <1>1, ChannelsMove

(* One message is sent, or taken.                                         *)
Sent(W, W2, p, x, msg) ==
  W2[p][x] = Append(W[p][x], msg) /\ \A q, r \in Player : ~ (q = p /\ r = x) => W2[q][r] = W[q][r]
Received(W, W2, p, y) ==
  W2[y][p] = Tail(W[y][p]) /\ \A q, r \in Player : ~ (q = y /\ r = p) => W2[q][r] = W[q][r]

(* in one that sends values,                                              *)
LEMMA ChannelsSend ==
  ASSUME NEW me, NEW pr, NEW C, NEW A, NEW W, Channels(me, pr, C, A, W),
         NEW p \in Player, NEW z, NEW d, d = Onward(C[p], z),
         NEW C2, Moved(C, C2, p, d), NEW A2, Moved(A, A2, p, z),
         NEW x \in Player, NEW W2, NEW msg, Sent(W, W2, p, x, msg), msg.kind = "values",
         SentBut(me, pr, p, x, C[p], A[p], z), TakenBut(me, pr, p, p, C[p], A[p], z),
         LastSent(me, pr, p, x, d, z) = After(me, LastSent(me, pr, p, x, C[p], A[p])),
         BodyOK(me, pr, p, x, After(me, LastSent(me, pr, p, x, C[p], A[p])), msg.body)
  PROVE  Channels(me, pr, C2, A2, W2)
<1>1. SameBut(W, W2, p, x, p)
  BY DEF SameBut, Sent
<1>2. ASSUME Linked(me, p, x)
      PROVE  Carries(me, pr, p, x, W2[p][x], LastTaken(me, pr, p, x, C[x], A[x]), LastSent(me, pr, p, x, d, z))
  <2>1. PICK ch, from, to : /\ ch = W[p][x] /\ from = LastTaken(me, pr, p, x, C[x], A[x])
                            /\ to = LastSent(me, pr, p, x, C[p], A[p])
    OBVIOUS
  <2>2. Carries(me, pr, p, x, ch, from, to)
    BY <1>2, <2>1, ChannelIs
  <2>3. Carries(me, pr, p, x, Append(ch, msg), from, After(me, to))
    BY <2>1, <2>2, CarriesSent
  <2>4. QED
    BY <2>1, <2>3 DEF Sent
<1>3. QED
  BY <1>1, <1>2, ChannelsMove

(* in one that takes values,                                              *)
LEMMA ChannelsTake ==
  ASSUME NEW me, NEW pr, NEW C, NEW A, NEW W, Channels(me, pr, C, A, W),
         NEW p \in Player, NEW z, NEW d, d = Onward(C[p], z),
         NEW C2, Moved(C, C2, p, d), NEW A2, Moved(A, A2, p, z),
         NEW y \in Player, NEW W2, Received(W, W2, p, y), W[y][p] # <<>>, Head(W[y][p]).kind = "values",
         SentBut(me, pr, p, p, C[p], A[p], z), TakenBut(me, pr, p, y, C[p], A[p], z),
         LastTaken(me, pr, y, p, d, z) = After(me, LastTaken(me, pr, y, p, C[p], A[p]))
  PROVE  Channels(me, pr, C2, A2, W2)
<1>1. SameBut(W, W2, p, p, y)
  BY DEF SameBut, Received
<1>2. ASSUME Linked(me, y, p)
      PROVE  Carries(me, pr, y, p, W2[y][p], LastTaken(me, pr, y, p, d, z), LastSent(me, pr, y, p, C[y], A[y]))
  <2>1. PICK ch, from, to : /\ ch = W[y][p] /\ from = LastTaken(me, pr, y, p, C[p], A[p])
                            /\ to = LastSent(me, pr, y, p, C[y], A[y])
    OBVIOUS
  <2>2. Carries(me, pr, y, p, ch, from, to) /\ ch # <<>> /\ Head(ch).kind = "values"
    BY <1>2, <2>1, ChannelIs
  <2>3. Carries(me, pr, y, p, Tail(ch), After(me, from), to)
    BY <2>2, CarriesTaken
  <2>4. QED
    BY <2>1, <2>3 DEF Received
<1>3. QED
  BY <1>1, <1>2, ChannelsMove

(* Messages of a check do not count.                                        *)
LEMMA ChannelsTell ==
  ASSUME NEW me, NEW pr, NEW C, NEW A, NEW W, Channels(me, pr, C, A, W),
         NEW p \in Player, NEW z, NEW d, d = Onward(C[p], z),
         NEW C2, Moved(C, C2, p, d), NEW A2, Moved(A, A2, p, z),
         NEW x \in Player, NEW W2, NEW msg, Sent(W, W2, p, x, msg), msg.kind = "tau",
         SentBut(me, pr, p, p, C[p], A[p], z), TakenBut(me, pr, p, p, C[p], A[p], z)
  PROVE  Channels(me, pr, C2, A2, W2)
<1>1. SameBut(W, W2, p, x, p)
  BY DEF SameBut, Sent
<1>2. ASSUME Linked(me, p, x), x # p
      PROVE  Carries(me, pr, p, x, W2[p][x], LastTaken(me, pr, p, x, C[x], A[x]), LastSent(me, pr, p, x, d, z))
  <2>1. PICK ch, from, to : /\ ch = W[p][x] /\ from = LastTaken(me, pr, p, x, C[x], A[x])
                            /\ to = LastSent(me, pr, p, x, C[p], A[p])
    OBVIOUS
  <2>2. Carries(me, pr, p, x, ch, from, to) /\ LastSent(me, pr, p, x, d, z) = to
    BY <1>2, <2>1, ChannelIs DEF SentBut
  <2>3. Carries(me, pr, p, x, Append(ch, msg), from, to)
    BY <2>1, <2>2, CarriesSent
  <2>4. QED
    BY <2>1, <2>2, <2>3 DEF Sent
<1>3. SentBut(me, pr, p, x, C[p], A[p], z)
  BY NotSelf DEF SentBut
<1>4. QED
  BY <1>1, <1>2, <1>3, ChannelsMove

(* and in one that takes what belongs to a check.                         *)
LEMMA ChannelsHear ==
  ASSUME NEW me, NEW pr, NEW C, NEW A, NEW W, Channels(me, pr, C, A, W),
         NEW p \in Player, NEW z, NEW d, d = Onward(C[p], z),
         NEW C2, Moved(C, C2, p, d), NEW A2, Moved(A, A2, p, z),
         NEW y \in Player, NEW W2, Received(W, W2, p, y), W[y][p] # <<>>, Head(W[y][p]).kind = "tau",
         SentBut(me, pr, p, p, C[p], A[p], z), TakenBut(me, pr, p, p, C[p], A[p], z)
  PROVE  Channels(me, pr, C2, A2, W2)
<1>1. SameBut(W, W2, p, p, y)
  BY DEF SameBut, Received
<1>2. ASSUME Linked(me, y, p), y # p
      PROVE  Carries(me, pr, y, p, W2[y][p], LastTaken(me, pr, y, p, d, z), LastSent(me, pr, y, p, C[y], A[y]))
  <2>1. PICK ch, from, to : /\ ch = W[y][p] /\ from = LastTaken(me, pr, y, p, C[p], A[p])
                            /\ to = LastSent(me, pr, y, p, C[y], A[y])
    OBVIOUS
  <2>2. /\ Carries(me, pr, y, p, ch, from, to) /\ ch # <<>> /\ Head(ch).kind = "tau"
        /\ LastTaken(me, pr, y, p, d, z) = from
    BY <1>2, <2>1, ChannelIs DEF TakenBut
  <2>3. Carries(me, pr, y, p, Tail(ch), from, to)
    BY <2>2, CarriesTaken
  <2>4. QED
    BY <2>1, <2>2, <2>3 DEF Received
<1>3. TakenBut(me, pr, p, y, C[p], A[p], z)
  BY NotSelf DEF TakenBut
<1>4. QED
  BY <1>1, <1>2, <1>3, ChannelsMove

(* What is in the next message p takes.                                     *)
LEMMA NextMessage ==
  ASSUME NEW me, NEW pr, NEW C, NEW A, NEW W, Channels(me, pr, C, A, W), NEW p \in Player, NEW y \in Player,
         Linked(me, y, p), W[y][p] # <<>>, Head(W[y][p]).kind = "values",
         NEW x, x = After(me, LastTaken(me, pr, y, p, C[p], A[p])),
         NEW o \in DOMAIN pr, pr[o].op = "begin", NumberOf(pr, o) = x[1]
  PROVE  IsSum(Head(W[y][p]).body, pr[o].ids, Content(me, y, p, x[2]))
<1>1. PICK ch, from, to : /\ ch = W[y][p] /\ from = LastTaken(me, pr, y, p, C[p], A[p])
                          /\ to = LastSent(me, pr, y, p, C[y], A[y])
  OBVIOUS
<1>2. Carries(me, pr, y, p, ch, from, to) /\ ch # <<>> /\ Head(ch).kind = "values"
  BY <1>1, ChannelIs
<1>3. BodyOK(me, pr, y, p, x, Head(ch).body)
  BY <1>1, <1>2, CarriesTaken
<1>4. QED
  BY <1>1, <1>3 DEF BodyOK

(* What a message must carry, from the opening it belongs to.             *)
LEMMA BodyIs ==
  ASSUME NEW me, NEW pr, Program(pr), NEW q, NEW p, NEW x, NEW body,
         NEW o \in DOMAIN pr, pr[o].op = "begin", NumberOf(pr, o) = x[1],
         IsSum(body, pr[o].ids, Content(me, q, p, x[2]))
  PROVE  BodyOK(me, pr, q, p, x, body)
<1>1. ASSUME NEW b \in DOMAIN pr, pr[b].op = "begin", NumberOf(pr, b) = x[1]
      PROVE  IsSum(body, pr[b].ids, Content(me, q, p, x[2]))
  <2>1. b = o
    BY <1>1, NumberInjective, ProgramFacts
  <2>2. QED
    BY <2>1
<1>2. QED
  BY <1>1 DEF BodyOK

-----------------------------------------------------------------------------
(* The inductive invariant.                                                *)

(* What player p has of a table by MAC check and player.                    *)
Column(f, p) == [m \in MCs |-> f[m][p]]

(* Tables by MAC check and player, and nets.                              *)
IsTable(f) == DOMAIN f = MCs /\ \A m \in MCs : DOMAIN f[m] = Player
IsNet(w) == /\ DOMAIN w = Channel
            /\ \A c \in Channel : DOMAIN w[c] = Player /\ \A q \in Player : DOMAIN w[c][q] = Player

(* The domains of all that is updated by EXCEPT.                          *)
Shape ==
  /\ DOMAIN pc = Player /\ DOMAIN at = Player /\ DOMAIN os = Player /\ DOMAIN results = Player
  /\ IsTable(values) /\ IsTable(macs) /\ IsTable(vals) /\ IsTable(popen_cnt) /\ IsNet(net)

(* What holds of player p.                                                *)
LocalOf(p) ==
  LocalOK(method, prog, p, pc[p], at[p], Column(values, p), os[p],
          Column(macs, p), Column(vals, p), Column(popen_cnt, p), results[p])

(* The inductive invariant: what holds of each player, and of the         *)
(* channels between them.                                                 *)
IInv ==
  /\ method \in Method /\ Program(prog)
  /\ Shape
  /\ \A p \in Player : LocalOf(p)
  /\ Channels(method, prog, pc, at, net["P"])

(* The vectors and tables of others do not change in a step of p.           *)
VectorStep(f, g, p) == DOMAIN g = Player /\ \A q \in Player : q # p => g[q] = f[q]
TableStep(f, g, p) == IsTable(g) /\ \A q \in Player : q # p => Column(g, q) = Column(f, q)

(* A vector and a table with one element replaced.                        *)
LEMMA VectorExcept ==
  ASSUME NEW f, DOMAIN f = Player, NEW p \in Player, NEW x, NEW g, g = [f EXCEPT ![p] = x]
  PROVE  VectorStep(f, g, p) /\ g[p] = x
  BY DEF VectorStep

(* The same for a table.                                                  *)
LEMMA TableExcept ==
  ASSUME NEW f, IsTable(f), NEW m \in MCs, NEW p \in Player, NEW x, NEW g, g = [f EXCEPT ![m][p] = x]
  PROVE  TableStep(f, g, p) /\ Only(Column(f, p), Column(g, p), m, x)
<1>1. /\ DOMAIN g = MCs /\ \A k \in MCs : DOMAIN g[k] = Player
      /\ g[m][p] = x /\ \A k \in MCs, q \in Player : ~ (k = m /\ q = p) => g[k][q] = f[k][q]
  BY DEF IsTable
<1>2. IsTable(g)
  BY <1>1 DEF IsTable
<1>3. ASSUME NEW q \in Player, q # p PROVE Column(g, q) = Column(f, q)
  BY <1>1, <1>3 DEF Column
<1>4. Column(g, p)[m] = x /\ \A k \in MCs : k # m => Column(g, p)[k] = Column(f, p)[k]
  BY <1>1 DEF Column
<1>5. QED
  BY <1>2, <1>3, <1>4 DEF TableStep, Only

(* What does not change is a step.                                        *)
LEMMA NoStep ==
  ASSUME NEW p \in Player
  PROVE  /\ \A f : DOMAIN f = Player => VectorStep(f, f, p)
         /\ \A f : IsTable(f) => TableStep(f, f, p)
  BY DEF VectorStep, TableStep

(* A step of p keeps the invariant if it keeps what is said of p and of   *)
(* the channels.                                                          *)
LEMMA StepKeeps ==
  ASSUME IInv, NEW p \in Player, method' = method, prog' = prog,
         VectorStep(pc, pc', p), VectorStep(at, at', p), VectorStep(os, os', p), VectorStep(results, results', p),
         TableStep(values, values', p), TableStep(macs, macs', p), TableStep(vals, vals', p),
         TableStep(popen_cnt, popen_cnt', p), IsNet(net'),
         LocalOK(method, prog, p, pc'[p], at'[p], Column(values', p), os'[p],
                 Column(macs', p), Column(vals', p), Column(popen_cnt', p), results'[p]),
         Channels(method, prog, pc', at', net'["P"])
  PROVE  IInv'
<1>1. method' \in Method /\ Program(prog')
  BY DEF IInv
<1>2. Shape'
  BY DEF Shape, VectorStep, TableStep
<1>3. ASSUME NEW q \in Player PROVE LocalOf(q)'
  <2>1. CASE q = p
    BY <2>1 DEF LocalOf
  <2>2. CASE q # p
    <3>1. pc'[q] = pc[q] /\ at'[q] = at[q] /\ os'[q] = os[q] /\ results'[q] = results[q]
      BY <2>2 DEF VectorStep
    <3>2. /\ Column(values', q) = Column(values, q) /\ Column(macs', q) = Column(macs, q)
          /\ Column(vals', q) = Column(vals, q) /\ Column(popen_cnt', q) = Column(popen_cnt, q)
      BY <2>2 DEF TableStep
    <3>3. LocalOf(q)
      BY DEF IInv
    <3>4. QED
      BY <3>1, <3>2, <3>3 DEF LocalOf
  <2>3. QED
    BY <2>1, <2>2
<1>4. Channels(method', prog', pc', at', net'["P"])
  OBVIOUS
<1>5. QED
  BY <1>1, <1>2, <1>3, <1>4 DEF IInv

(* What GoTo changes.                                                     *)
LEMMA GoFacts ==
  ASSUME Shape, NEW p \in Player, NEW z, GoTo(p, z)
  PROVE  /\ VectorStep(pc, pc', p) /\ VectorStep(at, at', p)
         /\ pc'[p] = Onward(pc[p], z) /\ at'[p] = z
         /\ Moved(pc, pc', p, Onward(pc[p], z)) /\ Moved(at, at', p, z)
<1>1. DOMAIN pc = Player /\ DOMAIN at = Player
  BY DEF Shape
<1>2. at' = [at EXCEPT ![p] = z] /\ pc' = IF z = Idle THEN [pc EXCEPT ![p] = @ + 1] ELSE pc
  BY DEF GoTo
<1>3. VectorStep(at, at', p) /\ at'[p] = z
  BY <1>1, <1>2 DEF VectorStep
<1>4. VectorStep(pc, pc', p) /\ pc'[p] = Onward(pc[p], z)
  <2>1. CASE z = Idle
    BY <1>1, <1>2, <2>1 DEF VectorStep, Onward
  <2>2. CASE z # Idle
    BY <1>1, <1>2, <2>2 DEF VectorStep, Onward
  <2>3. QED
    BY <2>1, <2>2
<1>5. QED
  BY <1>3, <1>4 DEF VectorStep, Moved

(* What sending changes.                                                  *)
LEMMA SendFacts ==
  ASSUME IsNet(net), NEW c \in Channel, NEW p \in Player, NEW x \in Player, NEW msg, SendOn(c, p, x, msg)
  PROVE  /\ IsNet(net')
         /\ c = "P" => Sent(net["P"], net'["P"], p, x, msg)
         /\ c # "P" => net'["P"] = net["P"]
<1>1. net' = [net EXCEPT ![c][p][x] = Append(net[c][p][x], msg)]
  BY DEF SendOn
<1>2. /\ DOMAIN net' = Channel /\ net'[c] = [net[c] EXCEPT ![p][x] = Append(net[c][p][x], msg)]
      /\ \A k \in Channel : k # c => net'[k] = net[k]
  BY <1>1 DEF IsNet
<1>3. DOMAIN net[c] = Player /\ \A q \in Player : DOMAIN net[c][q] = Player
  BY DEF IsNet
<1>4. DOMAIN net'[c] = Player /\ \A q \in Player : DOMAIN net'[c][q] = Player
  BY <1>2, <1>3
<1>5. Sent(net[c], net'[c], p, x, msg)
  BY <1>2, <1>3 DEF Sent
<1>6. IsNet(net')
  <2>1. ASSUME NEW k \in Channel PROVE DOMAIN net'[k] = Player /\ \A q \in Player : DOMAIN net'[k][q] = Player
    <3>1. CASE k = c
      BY <1>4, <3>1
    <3>2. CASE k # c
      <4>1. net'[k] = net[k]
        BY <1>2, <3>2
      <4>2. QED
        BY <4>1 DEF IsNet
    <3>3. QED
      BY <3>1, <3>2
  <2>2. QED
    BY <1>2, <2>1 DEF IsNet
<1>7. "P" \in Channel
  BY DEF Channel
<1>8. QED
  BY <1>2, <1>5, <1>6, <1>7

(* What taking changes.                                                   *)
LEMMA TakeFacts ==
  ASSUME IsNet(net), NEW c \in Channel, NEW p \in Player, NEW y \in Player, TakeFrom(c, p, y)
  PROVE  /\ IsNet(net')
         /\ c = "P" => Received(net["P"], net'["P"], p, y)
         /\ c # "P" => net'["P"] = net["P"]
<1>1. net' = [net EXCEPT ![c][y][p] = Tail(net[c][y][p])]
  BY DEF TakeFrom
<1>2. /\ DOMAIN net' = Channel /\ net'[c] = [net[c] EXCEPT ![y][p] = Tail(net[c][y][p])]
      /\ \A k \in Channel : k # c => net'[k] = net[k]
  BY <1>1 DEF IsNet
<1>3. DOMAIN net[c] = Player /\ \A q \in Player : DOMAIN net[c][q] = Player
  BY DEF IsNet
<1>4. DOMAIN net'[c] = Player /\ \A q \in Player : DOMAIN net'[c][q] = Player
  BY <1>2, <1>3
<1>5. Received(net[c], net'[c], p, y)
  BY <1>2, <1>3 DEF Received
<1>6. IsNet(net')
  <2>1. ASSUME NEW k \in Channel PROVE DOMAIN net'[k] = Player /\ \A q \in Player : DOMAIN net'[k][q] = Player
    <3>1. CASE k = c
      BY <1>4, <3>1
    <3>2. CASE k # c
      <4>1. net'[k] = net[k]
        BY <1>2, <3>2
      <4>2. QED
        BY <4>1 DEF IsNet
    <3>3. QED
      BY <3>1, <3>2
  <2>2. QED
    BY <1>2, <2>1 DEF IsNet
<1>7. "P" \in Channel
  BY DEF Channel
<1>8. QED
  BY <1>2, <1>5, <1>6, <1>7

(* What is known of a player in a call.                                     *)
LEMMA Here ==
  ASSUME IInv, NEW p \in Player, Ahead(p), NEW c, c = pc[p], NEW a, a = at[p]
  PROVE  /\ method \in Method /\ Program(prog) /\ Shape /\ Channels(method, prog, pc, at, net["P"])
         /\ c \in DOMAIN prog /\ prog[c].mc \in MCs /\ Now(p) = prog[c]
         /\ LocalOK(method, prog, p, c, a, Column(values, p), os[p],
                    Column(macs, p), Column(vals, p), Column(popen_cnt, p), results[p])
         /\ PlaceOK(method, prog, p, c, a)
<1>1. /\ method \in Method /\ Program(prog) /\ Shape /\ Channels(method, prog, pc, at, net["P"])
      /\ LocalOK(method, prog, p, c, a, Column(values, p), os[p],
                 Column(macs, p), Column(vals, p), Column(popen_cnt, p), results[p])
  BY DEF IInv, LocalOf
<1>2. c \in DOMAIN prog /\ Now(p) = prog[c]
  BY DEF Ahead, Now
<1>3. prog[c].mc \in MCs
  BY <1>1, <1>2, ProgramFacts
<1>4. PlaceOK(method, prog, p, c, a)
  BY <1>1 DEF LocalOK
<1>5. QED
  BY <1>1, <1>2, <1>3, <1>4

(* Which method and call a place belongs to.                              *)
LEMMA MethodOf ==
  ASSUME NEW me, NEW pr, NEW p, NEW c, NEW a, PlaceOK(me, pr, p, c, a)
  PROVE  /\ a.do \in {"pass_up", "receive"} => me = "tree"
         /\ a.do \in {"send", "add"} => me \in {"tree", "direct"}
         /\ a.do \in {"pass", "take", "append_stream"} => me = "passing"
         /\ a.do = "put" => me = "direct"
         /\ a.do = "check_if_needed" => pr[c].op = "add"
  BY DEF PlaceOK, TreeBegin, TreeEnd, Checking, Idle, Local, At

-----------------------------------------------------------------------------
(* The invariant holds at first.                                            *)
LEMMA Initially ==
  ASSUME Init
  PROVE  IInv
<1>1. PICK k \in Cases : method = k.method /\ prog = k.prog
  BY DEF Init
<1>2. method \in Method /\ Program(prog)
  BY <1>1, CasesAssumption DEF Program
<1>3. /\ pc = [p \in Player |-> 1] /\ at = [p \in Player |-> Idle]
      /\ values = [m \in MCs |-> [p \in Player |-> <<>>]]
      /\ os = [p \in Player |-> <<>>] /\ macs = values /\ vals = values
      /\ popen_cnt = [m \in MCs |-> [p \in Player |-> 0]]
      /\ net = [c \in Channel |-> [p \in Player |-> [q \in Player |-> <<>>]]]
      /\ results = [p \in Player |-> <<>>]
  BY DEF Init
<1>4. Shape
  <2>1. IsTable(values) /\ IsTable(macs) /\ IsTable(vals) /\ IsTable(popen_cnt)
    BY <1>3 DEF IsTable
  <2>2. IsNet(net)
    BY <1>3 DEF IsNet
  <2>3. QED
    BY <1>3, <2>1, <2>2 DEF Shape
<1>5. 1 \in 1 .. Len(prog) + 1
  BY <1>2, ProgramFacts
<1>6. /\ Begun(prog, 1, Idle) = 0 /\ Ended(prog, 1, Idle) = 0
      /\ ~ Checking(Idle) /\ \A op : ~ Inside(prog, 1, Idle, op)
  <2>1. CallsOf("begin", prog, 0) = 0 /\ CallsOf("end", prog, 0) = 0
    BY CountStep
  <2>2. ~ Checking(Idle)
    BY DEF Checking, Idle, Local, At
  <2>3. QED
    BY <2>1, <2>2 DEF Begun, Ended, Inside
<1>7. ASSUME NEW p \in Player PROVE LocalOf(p)
  <2>1. PlaceOK(method, prog, p, 1, Idle)
    BY <1>5 DEF PlaceOK, Idle, Local, At
  <2>2. Stored(method, prog, p, 1, Idle) = 0
    <3>1. ~ Closing(prog, 1, Idle)
      BY <1>6 DEF Closing
    <3>2. QED
      BY <1>6, <3>1 DEF Stored
  <2>3. ASSUME NEW m \in MCs PROVE StoreOK(method, prog, m, p, 1, Idle, <<>>, <<>>, 0)
    <3>1. MacsOK(prog, m, 0, 0, <<>>, 0)
      BY <1>2, InPlaceEmpty DEF MacsOK
    <3>2. ValsOK(method, prog, m, p, 0, 0, Replaced(method, prog, 1, Idle), <<>>, 0)
      BY <1>2, InPlaceEmpty DEF ValsOK
    <3>3. Paired(<<>>, <<>>, 0)
      BY EmptyFacts DEF Paired
    <3>4. QED
      BY <1>6, <2>2, <3>1, <3>2, <3>3 DEF StoreOK
  <2>4. ASSUME NEW m \in MCs
        PROVE  Column(macs, p)[m] = <<>> /\ Column(vals, p)[m] = <<>> /\ Column(popen_cnt, p)[m] = 0
    BY <1>3 DEF Column
  <2>5. Stores(method, prog, p, 1, Idle, Column(macs, p), Column(vals, p), Column(popen_cnt, p))
    BY <2>3, <2>4 DEF Stores
  <2>6. Sums(method, prog, p, 1, Idle, Column(values, p), os[p])
    BY <1>6, SumsNone
  <2>7. ResultsOK(<<>>)
    BY EmptyFacts DEF ResultsOK
  <2>8. pc[p] = 1 /\ at[p] = Idle /\ results[p] = <<>>
    BY <1>3
  <2>9. QED
    BY <2>1, <2>5, <2>6, <2>7, <2>8 DEF LocalOf, LocalOK
<1>8. ASSUME NEW q \in Player, NEW r \in Player
      PROVE  ChannelOK(method, prog, q, r, 1, Idle, 1, Idle, <<>>)
  <2>1. N \in Nat /\ N >= 2
    BY SizeAssumption
  <2>2. \E x \in Nat \X Nat : LastSent(method, prog, q, r, 1, Idle) = x /\ LastTaken(method, prog, q, r, 1, Idle) = x
    <3>1. CASE method = "passing"
      <4>1. LastSent(method, prog, q, r, 1, Idle) = Around(0, N - 1) /\ LastTaken(method, prog, q, r, 1, Idle) = Around(0, N - 1)
        BY <1>6, <3>1 DEF LastSent, LastTaken
      <4>2. Around(0, N - 1) = <<0, N - 1>> /\ N - 1 \in Nat
        BY <2>1 DEF Around
      <4>3. QED
        BY <4>1, <4>2
    <3>2. CASE method # "passing"
      <4>1. LastSent(method, prog, q, r, 1, Idle) = <<0, 1>>
        BY <1>6, <3>2 DEF LastSent
      <4>2. LastTaken(method, prog, q, r, 1, Idle) = <<0, 1>>
        BY <1>6, <3>2 DEF LastTaken
      <4>3. QED
        BY <4>1, <4>2
    <3>3. QED
      BY <3>1, <3>2
  <2>3. QED
    BY <2>2, CarriesNothing DEF ChannelOK
<1>9. Channels(method, prog, pc, at, net["P"])
  <2>1. "P" \in Channel
    BY DEF Channel
  <2>2. ASSUME NEW q \in Player, NEW r \in Player
        PROVE  pc[q] = 1 /\ at[q] = Idle /\ pc[r] = 1 /\ at[r] = Idle /\ net["P"][q][r] = <<>>
    BY <1>3, <2>1
  <2>3. QED
    BY <1>8, <2>2 DEF Channels
<1>10. QED
  BY <1>2, <1>4, <1>7, <1>9 DEF IInv

-----------------------------------------------------------------------------
(* Every step keeps it.                                                    *)

(* An element of a column.                                                *)
LEMMA ColumnIs ==
  ASSUME NEW f, NEW p, NEW m \in MCs
  PROVE  Column(f, p)[m] = f[m][p]
  BY DEF Column

(* Each action keeps the invariant: Begin,                                *)
LEMMA BeginKeeps ==
  ASSUME IInv, NEW p \in Player, Begin(p)
  PROVE  IInv'
<1>1. PICK c, m, own, z : /\ c = pc[p] /\ m = prog[c].mc
                          /\ own = [i \in DOMAIN prog[c].ids |-> Share(prog[c].ids[i], p)]
                          /\ z = FirstPlace(method, p)
  OBVIOUS
<1>2. Ahead(p) /\ at[p] = Idle /\ Now(p) = prog[c] /\ prog[c].op = "begin"
  BY <1>1 DEF Begin, Starts, Now
<1>3. /\ method \in Method /\ Program(prog) /\ Shape /\ Channels(method, prog, pc, at, net["P"])
      /\ c \in DOMAIN prog /\ m \in MCs
      /\ LocalOK(method, prog, p, c, Idle, Column(values, p), os[p],
                 Column(macs, p), Column(vals, p), Column(popen_cnt, p), results[p])
  BY <1>1, <1>2, Here, Zenon
<1>4. /\ values' = [values EXCEPT ![m][p] = own] /\ os' = [os EXCEPT ![p] = own]
      /\ macs' = [macs EXCEPT ![m][p] = macs[m][p] \o prog[c].ids]
      /\ method' = method /\ prog' = prog /\ vals' = vals /\ popen_cnt' = popen_cnt
      /\ net' = net /\ results' = results
  BY <1>1, <1>2 DEF Begin
<1>5. GoTo(p, z)
  <2>1. FirstOfBegin(p) = z
    BY <1>1 DEF FirstOfBegin, FirstPlace
  <2>2. QED
    BY <2>1 DEF Begin
<1>6. /\ DOMAIN os = Player /\ DOMAIN results = Player /\ IsNet(net)
      /\ IsTable(values) /\ IsTable(macs) /\ IsTable(vals) /\ IsTable(popen_cnt)
  BY <1>3 DEF Shape
<1>7. /\ TableStep(values, values', p) /\ Only(Column(values, p), Column(values', p), m, own)
      /\ TableStep(macs, macs', p) /\ TableStep(vals, vals', p) /\ TableStep(popen_cnt, popen_cnt', p)
      /\ Only(Column(macs, p), Column(macs', p), m, Column(macs, p)[m] \o prog[c].ids)
      /\ VectorStep(os, os', p) /\ os'[p] = own /\ VectorStep(results, results', p)
  <2>1. TableStep(values, values', p) /\ Only(Column(values, p), Column(values', p), m, own)
    BY <1>3, <1>4, <1>6, TableExcept
  <2>2. PICK x : x = macs[m][p] \o prog[c].ids
    OBVIOUS
  <2>3. TableStep(macs, macs', p) /\ Only(Column(macs, p), Column(macs', p), m, x)
    BY <1>3, <1>4, <1>6, <2>2, TableExcept
  <2>4. Column(macs, p)[m] = macs[m][p]
    BY <1>3, ColumnIs
  <2>5. VectorStep(os, os', p) /\ os'[p] = own
    BY <1>4, <1>6, VectorExcept
  <2>6. TableStep(vals, vals', p) /\ TableStep(popen_cnt, popen_cnt', p) /\ VectorStep(results, results', p)
    BY <1>4, <1>6, NoStep
  <2>7. QED
    BY <2>1, <2>2, <2>3, <2>4, <2>5, <2>6
<1>8. /\ z # Idle /\ SentBut(method, prog, p, p, c, Idle, z) /\ TakenBut(method, prog, p, p, c, Idle, z)
  BY <1>1, <1>2, <1>3, BeginPlace
<1>9. /\ VectorStep(pc, pc', p) /\ VectorStep(at, at', p) /\ pc'[p] = c /\ at'[p] = z
      /\ Moved(pc, pc', p, Onward(pc[p], z)) /\ Moved(at, at', p, z)
  <2>1. Onward(pc[p], z) = c
    BY <1>1, <1>8 DEF Onward
  <2>2. QED
    BY <1>3, <1>5, <2>1, GoFacts
<1>10. LocalOK(method, prog, p, c, z, Column(values', p), own, Column(macs', p),
               Column(vals, p), Column(popen_cnt, p), results[p])
  BY <1>1, <1>2, <1>3, <1>7, LocalBegin
<1>11. Channels(method, prog, pc', at', net["P"])
  BY <1>1, <1>2, <1>3, <1>8, <1>9, ChannelsQuiet
<1>12. QED
  BY <1>4, <1>6, <1>7, <1>9, <1>10, <1>11, StepKeeps

(* End,                                                                   *)
LEMMA EndKeeps ==
  ASSUME IInv, NEW p \in Player, End(p)
  PROVE  IInv'
<1>1. PICK c, m, none, z : /\ c = pc[p] /\ m = prog[c].mc
                           /\ none = [i \in DOMAIN prog[c].ids |-> EmptyBag]
                           /\ z = IF method = "tree" /\ ~ Relays(p) THEN AwaitSum(p) ELSE Local("get")
  OBVIOUS
<1>2. Ahead(p) /\ at[p] = Idle /\ Now(p) = prog[c] /\ prog[c].op = "end"
  BY <1>1 DEF End, Starts, Now
<1>3. /\ method \in Method /\ Program(prog) /\ Shape /\ Channels(method, prog, pc, at, net["P"])
      /\ c \in DOMAIN prog /\ m \in MCs
      /\ LocalOK(method, prog, p, c, Idle, Column(values, p), os[p],
                 Column(macs, p), Column(vals, p), Column(popen_cnt, p), results[p])
  BY <1>1, <1>2, Here
<1>4. /\ values' = [values EXCEPT ![m][p] = none]
      /\ method' = method /\ prog' = prog /\ os' = os /\ macs' = macs /\ vals' = vals /\ popen_cnt' = popen_cnt
      /\ net' = net /\ results' = results
  BY <1>1, <1>2 DEF End
<1>5. GoTo(p, z)
  <2>1. FirstOfEnd(p) = z
    BY <1>1 DEF FirstOfEnd
  <2>2. QED
    BY <2>1 DEF End
<1>6. /\ DOMAIN os = Player /\ DOMAIN results = Player /\ IsNet(net)
      /\ IsTable(values) /\ IsTable(macs) /\ IsTable(vals) /\ IsTable(popen_cnt)
  BY <1>3 DEF Shape
<1>7. /\ TableStep(values, values', p) /\ Only(Column(values, p), Column(values', p), m, none)
      /\ TableStep(macs, macs', p) /\ TableStep(vals, vals', p) /\ TableStep(popen_cnt, popen_cnt', p)
      /\ VectorStep(os, os', p) /\ VectorStep(results, results', p)
  <2>1. TableStep(values, values', p) /\ Only(Column(values, p), Column(values', p), m, none)
    BY <1>3, <1>4, <1>6, TableExcept
  <2>2. /\ TableStep(macs, macs', p) /\ TableStep(vals, vals', p) /\ TableStep(popen_cnt, popen_cnt', p)
        /\ VectorStep(os, os', p) /\ VectorStep(results, results', p)
    BY <1>4, <1>6, NoStep
  <2>3. QED
    BY <2>1, <2>2
<1>8. z # Idle /\ SentBut(method, prog, p, p, c, Idle, z) /\ TakenBut(method, prog, p, p, c, Idle, z)
  BY <1>1, <1>2, <1>3, EndPlace
<1>9. /\ VectorStep(pc, pc', p) /\ VectorStep(at, at', p) /\ pc'[p] = c /\ at'[p] = z
      /\ Moved(pc, pc', p, Onward(pc[p], z)) /\ Moved(at, at', p, z)
  <2>1. Onward(pc[p], z) = c
    BY <1>1, <1>8 DEF Onward
  <2>2. QED
    BY <1>3, <1>5, <2>1, GoFacts
<1>10. LocalOK(method, prog, p, c, z, Column(values', p), os[p], Column(macs, p),
               Column(vals, p), Column(popen_cnt, p), results[p])
  BY <1>1, <1>2, <1>3, <1>7, LocalEnd
<1>11. Channels(method, prog, pc', at', net["P"])
  BY <1>1, <1>2, <1>3, <1>8, <1>9, ChannelsQuiet
<1>12. QED
  BY <1>4, <1>6, <1>7, <1>9, <1>10, <1>11, StepKeeps

(* Add,                                                                   *)
LEMMA AddKeeps ==
  ASSUME IInv, NEW p \in Player, Add(p)
  PROVE  IInv'
<1>1. PICK c, m, z, w : /\ c = pc[p] /\ m = prog[c].mc /\ z = Local("check_if_needed")
                        /\ w = [i \in DOMAIN prog[c].ids |-> Opened(prog[c].ids[i])]
  BY Zenon
<1>2. Ahead(p) /\ at[p] = Idle /\ Now(p) = prog[c] /\ prog[c].op = "add"
  BY <1>1, Zenon DEF Add, Starts, Now
<1>3. /\ method \in Method /\ Program(prog) /\ Shape /\ Channels(method, prog, pc, at, net["P"])
      /\ c \in DOMAIN prog /\ m \in MCs
      /\ LocalOK(method, prog, p, c, Idle, Column(values, p), os[p],
                 Column(macs, p), Column(vals, p), Column(popen_cnt, p), results[p])
  BY <1>1, <1>2, Here
<1>4. PICK x, y, n : /\ x = macs[m][p] \o prog[c].ids /\ y = vals[m][p] \o w
                     /\ n = popen_cnt[m][p] + Len(prog[c].ids)
  BY Zenon
<1>5. /\ macs' = [macs EXCEPT ![m][p] = x] /\ vals' = [vals EXCEPT ![m][p] = y]
      /\ popen_cnt' = [popen_cnt EXCEPT ![m][p] = n]
      /\ method' = method /\ prog' = prog /\ os' = os /\ values' = values /\ net' = net /\ results' = results
  BY <1>1, <1>2, <1>4, Zenon DEF Add
<1>6. GoTo(p, z)
  BY <1>1 DEF Add
<1>7. /\ DOMAIN os = Player /\ DOMAIN results = Player /\ IsNet(net)
      /\ IsTable(values) /\ IsTable(macs) /\ IsTable(vals) /\ IsTable(popen_cnt)
  BY <1>3 DEF Shape
<1>8. TableStep(macs, macs', p) /\ Only(Column(macs, p), Column(macs', p), m, Column(macs, p)[m] \o prog[c].ids)
  <2>1. TableStep(macs, macs', p) /\ Only(Column(macs, p), Column(macs', p), m, x)
    BY <1>3, <1>5, <1>7, TableExcept
  <2>2. x = Column(macs, p)[m] \o prog[c].ids
    BY <1>3, <1>4, ColumnIs
  <2>3. QED
    BY <2>1, <2>2
<1>9. TableStep(vals, vals', p) /\ Only(Column(vals, p), Column(vals', p), m, Column(vals, p)[m] \o w)
  <2>1. TableStep(vals, vals', p) /\ Only(Column(vals, p), Column(vals', p), m, y)
    BY <1>3, <1>5, <1>7, TableExcept
  <2>2. y = Column(vals, p)[m] \o w
    BY <1>3, <1>4, ColumnIs
  <2>3. QED
    BY <2>1, <2>2
<1>10. /\ TableStep(popen_cnt, popen_cnt', p)
       /\ Only(Column(popen_cnt, p), Column(popen_cnt', p), m, Column(popen_cnt, p)[m] + Len(prog[c].ids))
  <2>1. TableStep(popen_cnt, popen_cnt', p) /\ Only(Column(popen_cnt, p), Column(popen_cnt', p), m, n)
    BY <1>3, <1>5, <1>7, TableExcept
  <2>2. n = Column(popen_cnt, p)[m] + Len(prog[c].ids)
    BY <1>3, <1>4, ColumnIs
  <2>3. QED
    BY <2>1, <2>2
<1>11. TableStep(values, values', p) /\ VectorStep(os, os', p) /\ VectorStep(results, results', p)
  BY <1>5, <1>7, NoStep
<1>12. z # Idle /\ SentBut(method, prog, p, p, c, Idle, z) /\ TakenBut(method, prog, p, p, c, Idle, z)
  BY <1>1, <1>2, <1>3, AddPlace, Aside
<1>13. /\ VectorStep(pc, pc', p) /\ VectorStep(at, at', p) /\ pc'[p] = c /\ at'[p] = z
       /\ Moved(pc, pc', p, Onward(pc[p], z)) /\ Moved(at, at', p, z)
  <2>1. Onward(pc[p], z) = c
    BY <1>1, <1>12 DEF Onward
  <2>2. QED
    BY <1>3, <1>6, <2>1, GoFacts
<1>14. LocalOK(method, prog, p, c, z, Column(values, p), os[p], Column(macs', p),
               Column(vals', p), Column(popen_cnt', p), results[p])
  BY <1>1, <1>2, <1>3, <1>8, <1>9, <1>10, LocalAdd
<1>15. Channels(method, prog, pc', at', net["P"])
  BY <1>1, <1>2, <1>3, <1>12, <1>13, ChannelsQuiet
<1>16. QED
  BY <1>5, <1>7, <1>8, <1>9, <1>10, <1>11, <1>13, <1>14, <1>15, StepKeeps

(* A step that changes no data, in parts.                                 *)
LEMMA DataSame ==
  ASSUME Shape, NEW p \in Player, UNCHANGED data, results' = results
  PROVE  /\ TableStep(values, values', p) /\ TableStep(macs, macs', p) /\ TableStep(vals, vals', p)
         /\ TableStep(popen_cnt, popen_cnt', p) /\ VectorStep(os, os', p) /\ VectorStep(results, results', p)
         /\ Column(values', p) = Column(values, p) /\ Column(macs', p) = Column(macs, p)
         /\ Column(vals', p) = Column(vals, p) /\ Column(popen_cnt', p) = Column(popen_cnt, p) /\ os'[p] = os[p]
<1>1. values' = values /\ os' = os /\ macs' = macs /\ vals' = vals /\ popen_cnt' = popen_cnt
  BY DEF data
<1>2. /\ DOMAIN os = Player /\ DOMAIN results = Player
      /\ IsTable(values) /\ IsTable(macs) /\ IsTable(vals) /\ IsTable(popen_cnt)
  BY DEF Shape
<1>3. QED
  BY <1>1, <1>2, NoStep

(* A step that changes no data: where the player is, and the channels.      *)
LEMMA PlaceKeeps ==
  ASSUME IInv, NEW p \in Player, UNCHANGED data, method' = method, prog' = prog, results' = results,
         NEW z, GoTo(p, z), IsNet(net'),
         LocalOK(method, prog, p, Onward(pc[p], z), z, Column(values, p), os[p],
                 Column(macs, p), Column(vals, p), Column(popen_cnt, p), results[p]),
         Channels(method, prog, pc', at', net'["P"])
  PROVE  IInv'
<1>1. Shape
  BY DEF IInv
<1>2. /\ VectorStep(pc, pc', p) /\ VectorStep(at, at', p) /\ pc'[p] = Onward(pc[p], z) /\ at'[p] = z
  BY <1>1, GoFacts
<1>3. LocalOK(method, prog, p, pc'[p], at'[p], Column(values', p), os'[p],
              Column(macs', p), Column(vals', p), Column(popen_cnt', p), results'[p])
  BY <1>1, <1>2, DataSame
<1>4. QED
  BY <1>1, <1>2, <1>3, DataSame, StepKeeps

(* Check,                                                                 *)
LEMMA CheckKeeps ==
  ASSUME IInv, NEW p \in Player, Check(p)
  PROVE  IInv'
<1>1. PICK c, m, z : /\ c = pc[p] /\ m = prog[c].mc
                     /\ z = IF WaitingForCheck(m, p) = 0 THEN Idle ELSE FirstOfCheck
  OBVIOUS
<1>2. Ahead(p) /\ at[p] = Idle /\ Now(p) = prog[c] /\ prog[c].op = "check"
  BY <1>1 DEF Check, Starts, Now
<1>3. /\ Program(prog) /\ Shape /\ Channels(method, prog, pc, at, net["P"]) /\ c \in DOMAIN prog
      /\ LocalOK(method, prog, p, c, Idle, Column(values, p), os[p],
                 Column(macs, p), Column(vals, p), Column(popen_cnt, p), results[p])
  BY <1>1, <1>2, Here
<1>4. /\ UNCHANGED data /\ method' = method /\ prog' = prog /\ net' = net /\ results' = results
      /\ GoTo(p, z)
  BY <1>1, <1>2 DEF Check
<1>5. /\ z = Idle \/ Checking(z)
      /\ PlaceOK(method, prog, p, Onward(c, z), z)
  <2>1. z = Idle \/ z = FirstOfCheck
    BY <1>1
  <2>2. N \in Nat /\ N >= 2
    BY SizeAssumption
  <2>3. z = Idle \/ (Checking(z) /\ z.i \in Nat /\ z.last \in Nat /\ z = At(z.do, z.i, z.last) /\ z.i \in 1 .. N - 1)
    BY <2>1, <2>2 DEF FirstOfCheck, At, Checking
  <2>4. PlaceOK(method, prog, p, Onward(c, z), z)
    BY <1>2, <1>3, <2>3, CheckPlace
  <2>5. QED
    BY <2>3, <2>4
<1>6. LocalOK(method, prog, p, Onward(c, z), z, Column(values, p), os[p],
              Column(macs, p), Column(vals, p), Column(popen_cnt, p), results[p])
  BY <1>2, <1>3, <1>5, LocalAside DEF Same
<1>7. SentBut(method, prog, p, p, c, Idle, z) /\ TakenBut(method, prog, p, p, c, Idle, z)
  BY <1>2, <1>3, Aside
<1>8. Moved(pc, pc', p, Onward(pc[p], z)) /\ Moved(at, at', p, z)
  BY <1>3, <1>4, GoFacts
<1>9. Channels(method, prog, pc', at', net["P"])
  BY <1>1, <1>2, <1>3, <1>7, <1>8, ChannelsQuiet
<1>10. IsNet(net')
  BY <1>3, <1>4 DEF Shape
<1>11. QED
  BY <1>1, <1>4, <1>6, <1>9, <1>10, PlaceKeeps

(* PassUp,                                                                *)
LEMMA PassUpKeeps ==
  ASSUME IInv, NEW p \in Player, Ahead(p), NEW m, m = Now(p).mc, PassUp(p, m),
         method' = method, prog' = prog, results' = results
  PROVE  IInv'
<1>1. PICK c, a, z, msg : /\ c = pc[p] /\ a = at[p] /\ z = IF Relays(p) THEN AwaitSum(p) ELSE Idle
                          /\ msg = Values(values[m][p])
  OBVIOUS
<1>2. a.do = "pass_up" /\ SendOn("P", p, a.i, msg) /\ GoTo(p, z) /\ UNCHANGED data
  BY <1>1 DEF PassUp, Does, Peer
<1>3. /\ Program(prog) /\ Shape /\ Channels(method, prog, pc, at, net["P"])
      /\ c \in DOMAIN prog /\ m = prog[c].mc /\ m \in MCs
      /\ LocalOK(method, prog, p, c, a, Column(values, p), os[p],
                 Column(macs, p), Column(vals, p), Column(popen_cnt, p), results[p])
      /\ PlaceOK(method, prog, p, c, a)
  BY <1>1, Here
<1>4. method = "tree"
  BY <1>2, <1>3, MethodOf
<1>5. /\ prog[c].op = "begin" /\ Inside(prog, c, a, "begin") /\ a.i \in Player /\ a.i < p
      /\ SentBut("tree", prog, p, a.i, c, a, z) /\ TakenBut("tree", prog, p, p, c, a, z)
      /\ LastSent("tree", prog, p, a.i, Onward(c, z), z) = After("tree", LastSent("tree", prog, p, a.i, c, a))
      /\ After("tree", LastSent("tree", prog, p, a.i, c, a))[1] = NumberOf(prog, c)
  BY <1>1, <1>2, <1>3, <1>4, PassUpPlace
<1>6. LocalOK("tree", prog, p, Onward(c, z), z, Column(values, p), os[p],
              Column(macs, p), Column(vals, p), Column(popen_cnt, p), results[p])
  BY <1>1, <1>2, <1>3, <1>4, LocalPassUp
<1>7. IsNet(net) /\ "P" \in Channel
  BY <1>3 DEF Shape, Channel
<1>8. IsNet(net') /\ Sent(net["P"], net'["P"], p, a.i, msg)
  BY <1>2, <1>5, <1>7, SendFacts
<1>9. PICK x : x = After("tree", LastSent("tree", prog, p, a.i, c, a))
  OBVIOUS
<1>10. msg.kind = "values" /\ BodyOK("tree", prog, p, a.i, x, msg.body)
  <2>1. msg.kind = "values" /\ msg.body = Column(values, p)[prog[c].mc]
    BY <1>1, <1>3, ColumnIs DEF Values
  <2>2. IsSum(Column(values, p)[prog[c].mc], prog[c].ids, Held("tree", prog, p, c, a))
    BY <1>3, <1>4, <1>5, LocalFacts
  <2>3. Held("tree", prog, p, c, a) = Part(p)
    BY <1>2 DEF Held
  <2>4. Content("tree", p, a.i, x[2]) = Part(p)
    <3>1. p > a.i
      BY <1>5, PlayerFacts
    <3>2. QED
      BY <3>1 DEF Content
  <2>5. BodyOK("tree", prog, p, a.i, x, Column(values, p)[prog[c].mc])
    BY <1>3, <1>5, <1>9, <2>2, <2>3, <2>4, BodyIs
  <2>6. QED
    BY <2>1, <2>5
<1>11. Moved(pc, pc', p, Onward(pc[p], z)) /\ Moved(at, at', p, z)
  BY <1>2, <1>3, GoFacts
<1>12. Channels(method, prog, pc', at', net'["P"])
  BY <1>1, <1>3, <1>4, <1>5, <1>8, <1>9, <1>10, <1>11, ChannelsSend
<1>13. QED
  BY <1>1, <1>2, <1>4, <1>6, <1>8, <1>12, PlaceKeeps

(* Send,                                                                  *)
LEMMA SendKeeps ==
  ASSUME IInv, NEW p \in Player, Ahead(p), NEW m, m = Now(p).mc, Send(p, m),
         method' = method, prog' = prog, results' = results
  PROVE  IInv'
<1>1. PICK c, a, me, msg : c = pc[p] /\ a = at[p] /\ me = method /\ msg = Values(values[m][p])
  OBVIOUS
<1>2. PICK next, end : /\ next = IF me = "tree" THEN a.i + 1 ELSE Other(p, a.i + 1)
                       /\ end = IF me = "tree" THEN Receivers(p) ELSE N
  OBVIOUS
<1>3. PICK z : z = IF next < end THEN At("send", next, 0)
                   ELSE IF me = "tree" /\ p > 0 THEN Idle ELSE Local("append")
  OBVIOUS
<1>4. a.do = "send" /\ SendOn("P", p, a.i, msg) /\ UNCHANGED data
  BY <1>1 DEF Send, Does, Peer
<1>5. GoTo(p, z)
  BY <1>1, <1>2, <1>3 DEF Send, Peer
<1>6. /\ Program(prog) /\ Shape /\ Channels(me, prog, pc, at, net["P"])
      /\ c \in DOMAIN prog /\ m = prog[c].mc /\ m \in MCs
      /\ LocalOK(me, prog, p, c, a, Column(values, p), os[p],
                 Column(macs, p), Column(vals, p), Column(popen_cnt, p), results[p])
      /\ PlaceOK(me, prog, p, c, a)
  BY <1>1, Here
<1>7. me \in {"tree", "direct"}
  BY <1>4, <1>6, MethodOf
<1>8. /\ prog[c].op = "begin" /\ Inside(prog, c, a, "begin") /\ a.i \in Player /\ (me = "tree" => p < a.i)
      /\ SentBut(me, prog, p, a.i, c, a, z) /\ TakenBut(me, prog, p, p, c, a, z)
      /\ LastSent(me, prog, p, a.i, Onward(c, z), z) = After(me, LastSent(me, prog, p, a.i, c, a))
      /\ After(me, LastSent(me, prog, p, a.i, c, a))[1] = NumberOf(prog, c)
  BY <1>2, <1>3, <1>4, <1>6, <1>7, SendPlace
<1>9. LocalOK(me, prog, p, Onward(c, z), z, Column(values, p), os[p],
              Column(macs, p), Column(vals, p), Column(popen_cnt, p), results[p])
  BY <1>2, <1>3, <1>4, <1>6, <1>7, LocalSend
<1>10. IsNet(net) /\ "P" \in Channel
  BY <1>6 DEF Shape, Channel
<1>11. IsNet(net') /\ Sent(net["P"], net'["P"], p, a.i, msg)
  BY <1>4, <1>8, <1>10, SendFacts
<1>12. PICK x : x = After(me, LastSent(me, prog, p, a.i, c, a))
  OBVIOUS
<1>13. msg.kind = "values" /\ BodyOK(me, prog, p, a.i, x, msg.body)
  <2>1. msg.kind = "values" /\ msg.body = Column(values, p)[prog[c].mc]
    BY <1>1, <1>6, ColumnIs DEF Values
  <2>2. IsSum(Column(values, p)[prog[c].mc], prog[c].ids, Held(me, prog, p, c, a))
    BY <1>6, <1>8, LocalFacts
  <2>3. Held(me, prog, p, c, a) = Content(me, p, a.i, x[2])
    <3>1. CASE me = "tree"
      <4>1. Held(me, prog, p, c, a) = Player
        BY <1>4, <3>1 DEF Held
      <4>2. ~ (p > a.i)
        BY <1>8, <3>1, PlayerFacts
      <4>3. QED
        BY <3>1, <4>1, <4>2 DEF Content
    <3>2. CASE me = "direct"
      <4>1. Held("direct", prog, p, c, a) = {p}
        BY <1>4, <1>8 DEF Held
      <4>2. Content("direct", p, a.i, x[2]) = {p}
        BY DEF Content
      <4>3. QED
        BY <3>2, <4>1, <4>2
    <3>3. QED
      BY <1>7, <3>1, <3>2
  <2>4. BodyOK(me, prog, p, a.i, x, Column(values, p)[prog[c].mc])
    BY <1>6, <1>8, <1>12, <2>2, <2>3, BodyIs
  <2>5. QED
    BY <2>1, <2>4
<1>14. Moved(pc, pc', p, Onward(pc[p], z)) /\ Moved(at, at', p, z)
  BY <1>5, <1>6, GoFacts
<1>15. Channels(me, prog, pc', at', net'["P"])
  BY <1>1, <1>6, <1>8, <1>11, <1>12, <1>13, <1>14, ChannelsSend
<1>16. QED
  BY <1>1, <1>4, <1>5, <1>9, <1>11, <1>15, PlaceKeeps

(* A step in which p takes a message y has sent it, and stays in the call.  *)
LEMMA TakeKeeps ==
  ASSUME IInv, NEW p \in Player, NEW y \in Player, method' = method, prog' = prog, results' = results,
         NEW z, GoTo(p, z), Waiting("P", p, y, "values"), TakeFrom("P", p, y),
         TableStep(values, values', p), UNCHANGED <<macs, vals, popen_cnt>>, VectorStep(os, os', p),
         LocalOK(method, prog, p, Onward(pc[p], z), z, Column(values', p), os'[p],
                 Column(macs, p), Column(vals, p), Column(popen_cnt, p), results[p]),
         SentBut(method, prog, p, p, pc[p], at[p], z), TakenBut(method, prog, p, y, pc[p], at[p], z),
         LastTaken(method, prog, y, p, Onward(pc[p], z), z) = After(method, LastTaken(method, prog, y, p, pc[p], at[p]))
  PROVE  IInv'
<1>1. /\ Shape /\ Channels(method, prog, pc, at, net["P"])
      /\ DOMAIN results = Player /\ IsTable(macs) /\ IsTable(vals) /\ IsTable(popen_cnt)
      /\ IsNet(net) /\ "P" \in Channel
  BY DEF IInv, Shape, Channel
<1>2. /\ VectorStep(pc, pc', p) /\ VectorStep(at, at', p) /\ pc'[p] = Onward(pc[p], z) /\ at'[p] = z
      /\ Moved(pc, pc', p, Onward(pc[p], z)) /\ Moved(at, at', p, z)
  BY <1>1, GoFacts
<1>3. /\ TableStep(macs, macs', p) /\ TableStep(vals, vals', p) /\ TableStep(popen_cnt, popen_cnt', p)
      /\ VectorStep(results, results', p)
  BY <1>1, NoStep
<1>4. LocalOK(method, prog, p, pc'[p], at'[p], Column(values', p), os'[p],
              Column(macs', p), Column(vals', p), Column(popen_cnt', p), results'[p])
  BY <1>2
<1>5. IsNet(net') /\ Received(net["P"], net'["P"], p, y)
  BY <1>1, TakeFacts
<1>6. net["P"][y][p] # <<>> /\ Head(net["P"][y][p]).kind = "values"
  BY DEF Waiting
<1>7. Channels(method, prog, pc', at', net'["P"])
  BY <1>1, <1>2, <1>5, <1>6, ChannelsTake
<1>8. QED
  BY <1>2, <1>3, <1>4, <1>5, <1>7, StepKeeps

(* AddShares in the tree,                                                 *)
LEMMA AddTreeKeeps ==
  ASSUME IInv, NEW p \in Player, Ahead(p), NEW m, m = Now(p).mc, AddShares(p, m), method = "tree",
         method' = method, prog' = prog, results' = results
  PROVE  IInv'
<1>1. PICK c, a, w, z : /\ c = pc[p] /\ a = at[p] /\ w = Message("P", p, a.i)
                        /\ z = IF a.i + SumPlayers(a.last) < a.last
                               THEN At("add", a.i + SumPlayers(a.last), a.last) ELSE SumRound(p, SumPlayers(a.last))
  OBVIOUS
<1>2. PICK v : v = SumUp(values[m][p], w)
  OBVIOUS
<1>3. /\ a.do = "add" /\ Waiting("P", p, a.i, "values") /\ values' = [values EXCEPT ![m][p] = v]
      /\ TakeFrom("P", p, a.i) /\ os' = os /\ UNCHANGED <<macs, vals, popen_cnt>>
  BY <1>1, <1>2 DEF AddShares, Does, Peer
<1>4. GoTo(p, z)
  BY <1>1 DEF AddShares, Peer
<1>5. /\ Program(prog) /\ Shape /\ Channels(method, prog, pc, at, net["P"])
      /\ c \in DOMAIN prog /\ m = prog[c].mc /\ m \in MCs
      /\ LocalOK("tree", prog, p, c, a, Column(values, p), os[p],
                 Column(macs, p), Column(vals, p), Column(popen_cnt, p), results[p])
      /\ PlaceOK("tree", prog, p, c, a)
  BY <1>1, Here
<1>6. /\ prog[c].op = "begin" /\ z # Idle /\ a.i \in Player /\ Linked("tree", a.i, p)
      /\ LastTaken("tree", prog, a.i, p, c, z) = After("tree", LastTaken("tree", prog, a.i, p, c, a))
      /\ After("tree", LastTaken("tree", prog, a.i, p, c, a)) = <<NumberOf(prog, c), 1>>
      /\ SentBut("tree", prog, p, p, c, a, z) /\ TakenBut("tree", prog, p, a.i, c, a, z)
  BY <1>1, <1>3, <1>5, AddTreePlace
<1>7. IsSum(w, prog[c].ids, Content("tree", a.i, p, 1))
  <2>1. PICK x : x = After("tree", LastTaken("tree", prog, a.i, p, c, a))
    OBVIOUS
  <2>2. x[1] = NumberOf(prog, c) /\ x[2] = 1
    BY <1>6, <2>1
  <2>3. net["P"][a.i][p] # <<>> /\ Head(net["P"][a.i][p]).kind = "values" /\ Head(net["P"][a.i][p]).body = w
    BY <1>1, <1>3 DEF Waiting, Message
  <2>4. IsSum(Head(net["P"][a.i][p]).body, prog[c].ids, Content("tree", a.i, p, x[2]))
    BY <1>1, <1>5, <1>6, <2>1, <2>2, <2>3, NextMessage
  <2>5. QED
    BY <2>2, <2>3, <2>4
<1>8. TableStep(values, values', p) /\ Only(Column(values, p), Column(values', p), m, SumUp(Column(values, p)[m], w))
  <2>1. IsTable(values)
    BY <1>5 DEF Shape
  <2>2. TableStep(values, values', p) /\ Only(Column(values, p), Column(values', p), m, v)
    BY <1>3, <1>5, <2>1, TableExcept
  <2>3. Column(values, p)[m] = values[m][p]
    BY <1>5, ColumnIs
  <2>4. QED
    BY <1>2, <2>2, <2>3
<1>9. LocalOK("tree", prog, p, c, z, Column(values', p), os[p],
              Column(macs, p), Column(vals, p), Column(popen_cnt, p), results[p])
  <2>1. z = IF a.i + SumPlayers(a.last) < a.last
            THEN At("add", a.i + SumPlayers(a.last), a.last) ELSE SumRound(p, SumPlayers(a.last))
    BY <1>1
  <2>2. PICK V, V2, o, Mac, Val, Cnt, res :
          /\ V = Column(values, p) /\ V2 = Column(values', p) /\ o = os[p] /\ res = results[p]
          /\ Mac = Column(macs, p) /\ Val = Column(vals, p) /\ Cnt = Column(popen_cnt, p)
    OBVIOUS
  <2>3. Program(prog) /\ c \in DOMAIN prog /\ a.do = "add" /\ IsSum(w, prog[c].ids, Content("tree", a.i, p, 1))
    BY <1>3, <1>5, <1>7
  <2>4. LocalOK("tree", prog, p, c, a, V, o, Mac, Val, Cnt, res)
    BY <1>5, <2>2
  <2>5. Only(V, V2, prog[c].mc, SumUp(V[prog[c].mc], w))
    BY <1>5, <1>8, <2>2
  <2>6. LocalOK("tree", prog, p, c, z, V2, o, Mac, Val, Cnt, res)
    BY ONLY p \in Player, <2>1, <2>3, <2>4, <2>5, LocalAddTree
  <2>7. QED
    BY <2>2, <2>6
<1>10. Onward(pc[p], z) = c /\ VectorStep(os, os', p) /\ os'[p] = os[p]
  BY <1>1, <1>3, <1>5, <1>6, NoStep DEF Onward, Shape
<1>11. QED
  BY <1>1, <1>3, <1>4, <1>6, <1>8, <1>9, <1>10, TakeKeeps

(* AddShares in the direct method,                                        *)
LEMMA AddDirectKeeps ==
  ASSUME IInv, NEW p \in Player, Ahead(p), NEW m, m = Now(p).mc, AddShares(p, m), method = "direct",
         method' = method, prog' = prog, results' = results
  PROVE  IInv'
<1>1. PICK c, a, w, next : c = pc[p] /\ a = at[p] /\ w = Message("P", p, a.i) /\ next = Other(p, a.i + 1)
  OBVIOUS
<1>2. PICK v, z : v = SumUp(values[m][p], w) /\ z = IF next < N THEN At("add", next, a.last) ELSE Local("put")
  OBVIOUS
<1>3. /\ a.do = "add" /\ Waiting("P", p, a.i, "values") /\ values' = [values EXCEPT ![m][p] = v]
      /\ TakeFrom("P", p, a.i) /\ os' = os /\ UNCHANGED <<macs, vals, popen_cnt>>
  BY <1>1, <1>2 DEF AddShares, Does, Peer
<1>4. GoTo(p, z)
  BY <1>1, <1>2 DEF AddShares, Peer
<1>5. /\ Program(prog) /\ Shape /\ Channels(method, prog, pc, at, net["P"])
      /\ c \in DOMAIN prog /\ m = prog[c].mc /\ m \in MCs
      /\ LocalOK("direct", prog, p, c, a, Column(values, p), os[p],
                 Column(macs, p), Column(vals, p), Column(popen_cnt, p), results[p])
      /\ PlaceOK("direct", prog, p, c, a)
  BY <1>1, Here
<1>6. /\ Inside(prog, c, a, "end") /\ z # Idle /\ a.i \in Player /\ Linked("direct", a.i, p)
      /\ LastTaken("direct", prog, a.i, p, c, z) = After("direct", LastTaken("direct", prog, a.i, p, c, a))
      /\ After("direct", LastTaken("direct", prog, a.i, p, c, a)) = <<Ended(prog, c, a) + 1, 1>>
      /\ SentBut("direct", prog, p, p, c, a, z) /\ TakenBut("direct", prog, p, a.i, c, a, z)
  BY <1>1, <1>2, <1>3, <1>5, AddDirectPlace
<1>7. IsSum(w, prog[c].ids, Content("direct", a.i, p, 1))
  <2>1. PICK x : x = After("direct", LastTaken("direct", prog, a.i, p, c, a))
    OBVIOUS
  <2>2. PICK o \in DOMAIN prog : /\ prog[o].op = "begin" /\ NumberOf(prog, o) = Ended(prog, c, a) + 1
                                 /\ prog[o].ids = prog[c].ids
    BY <1>5, <1>6, NextOpening
  <2>3. NumberOf(prog, o) = x[1] /\ x[2] = 1
    BY <1>6, <2>1, <2>2
  <2>4. net["P"][a.i][p] # <<>> /\ Head(net["P"][a.i][p]).kind = "values" /\ Head(net["P"][a.i][p]).body = w
    BY <1>1, <1>3 DEF Waiting, Message
  <2>5. IsSum(Head(net["P"][a.i][p]).body, prog[o].ids, Content("direct", a.i, p, x[2]))
    BY <1>1, <1>5, <1>6, <2>1, <2>2, <2>3, <2>4, NextMessage
  <2>6. QED
    BY <2>2, <2>3, <2>4, <2>5
<1>8. TableStep(values, values', p) /\ Only(Column(values, p), Column(values', p), m, SumUp(Column(values, p)[m], w))
  <2>1. IsTable(values)
    BY <1>5 DEF Shape
  <2>2. TableStep(values, values', p) /\ Only(Column(values, p), Column(values', p), m, v)
    BY <1>3, <1>5, <2>1, TableExcept
  <2>3. Column(values, p)[m] = values[m][p]
    BY <1>5, ColumnIs
  <2>4. QED
    BY <1>2, <2>2, <2>3
<1>9. LocalOK("direct", prog, p, c, z, Column(values', p), os[p],
              Column(macs, p), Column(vals, p), Column(popen_cnt, p), results[p])
  <2>1. next = Other(p, a.i + 1) /\ z = IF next < N THEN At("add", next, a.last) ELSE Local("put")
    BY <1>1, <1>2
  <2>2. PICK V, V2, o, Mac, Val, Cnt, res :
          /\ V = Column(values, p) /\ V2 = Column(values', p) /\ o = os[p] /\ res = results[p]
          /\ Mac = Column(macs, p) /\ Val = Column(vals, p) /\ Cnt = Column(popen_cnt, p)
    OBVIOUS
  <2>3. Program(prog) /\ c \in DOMAIN prog /\ a.do = "add" /\ IsSum(w, prog[c].ids, Content("direct", a.i, p, 1))
    BY <1>3, <1>5, <1>7
  <2>4. LocalOK("direct", prog, p, c, a, V, o, Mac, Val, Cnt, res)
    BY <1>5, <2>2
  <2>5. Only(V, V2, prog[c].mc, SumUp(V[prog[c].mc], w))
    BY <1>5, <1>8, <2>2
  <2>6. LocalOK("direct", prog, p, c, z, V2, o, Mac, Val, Cnt, res)
    BY ONLY p \in Player, <2>1, <2>3, <2>4, <2>5, LocalAddDirect
  <2>7. QED
    BY <2>2, <2>6
<1>10. Onward(pc[p], z) = c /\ VectorStep(os, os', p) /\ os'[p] = os[p]
  BY <1>1, <1>3, <1>5, <1>6, NoStep DEF Onward, Shape
<1>11. QED
  BY <1>1, <1>3, <1>4, <1>6, <1>8, <1>9, <1>10, TakeKeeps

(* Receive,                                                               *)
LEMMA ReceiveKeeps ==
  ASSUME IInv, NEW p \in Player, Ahead(p), NEW m, m = Now(p).mc, Receive(p, m),
         method' = method, prog' = prog, results' = results
  PROVE  IInv'
<1>1. PICK c, a, w, z : c = pc[p] /\ a = at[p] /\ w = Message("P", p, a.i) /\ z = Local("append")
  OBVIOUS
<1>2. /\ a.do = "receive" /\ Waiting("P", p, a.i, "values") /\ values' = [values EXCEPT ![m][p] = w]
      /\ TakeFrom("P", p, a.i) /\ os' = os /\ UNCHANGED <<macs, vals, popen_cnt>>
  BY <1>1 DEF Receive, Does, Peer
<1>3. GoTo(p, z)
  BY <1>1 DEF Receive
<1>4. /\ Program(prog) /\ Shape /\ Channels(method, prog, pc, at, net["P"])
      /\ c \in DOMAIN prog /\ m = prog[c].mc /\ m \in MCs
      /\ LocalOK(method, prog, p, c, a, Column(values, p), os[p],
                 Column(macs, p), Column(vals, p), Column(popen_cnt, p), results[p])
      /\ PlaceOK(method, prog, p, c, a)
  BY <1>1, Here
<1>5. method = "tree"
  BY <1>2, <1>4, MethodOf
<1>6. /\ prog[c].op = (IF Relays(p) THEN "begin" ELSE "end") /\ Inside(prog, c, a, prog[c].op)
      /\ z # Idle /\ a.i \in Player /\ Linked("tree", a.i, p)
      /\ LastTaken("tree", prog, a.i, p, c, z) = After("tree", LastTaken("tree", prog, a.i, p, c, a))
      /\ After("tree", LastTaken("tree", prog, a.i, p, c, a)) =
           <<IF prog[c].op = "begin" THEN NumberOf(prog, c) ELSE Ended(prog, c, a) + 1, 1>>
      /\ SentBut("tree", prog, p, p, c, a, z) /\ TakenBut("tree", prog, p, a.i, c, a, z)
      /\ Content("tree", a.i, p, 1) = Player
  BY <1>1, <1>2, <1>4, <1>5, ReceivePlace
<1>7. IsSum(w, prog[c].ids, Player)
  <2>1. PICK x : x = After("tree", LastTaken("tree", prog, a.i, p, c, a))
    OBVIOUS
  <2>2. PICK o \in DOMAIN prog : prog[o].op = "begin" /\ NumberOf(prog, o) = x[1] /\ prog[o].ids = prog[c].ids
    <3>1. CASE prog[c].op = "begin"
      BY <1>4, <1>6, <2>1, <3>1
    <3>2. CASE prog[c].op = "end"
      <4>1. x[1] = Ended(prog, c, a) + 1
        BY <1>6, <2>1, <3>2
      <4>2. Inside(prog, c, a, "end")
        BY <1>6, <3>2
      <4>3. QED
        BY <1>4, <1>5, <4>1, <4>2, NextOpening
    <3>3. QED
      BY <1>6, <3>1, <3>2
  <2>3. x[2] = 1
    BY <1>6, <2>1
  <2>4. net["P"][a.i][p] # <<>> /\ Head(net["P"][a.i][p]).kind = "values" /\ Head(net["P"][a.i][p]).body = w
    BY <1>1, <1>2 DEF Waiting, Message
  <2>5. x = After(method, LastTaken(method, prog, a.i, p, pc[p], at[p])) /\ Linked(method, a.i, p)
    BY <1>1, <1>5, <1>6, <2>1
  <2>6. IsSum(Head(net["P"][a.i][p]).body, prog[o].ids, Content(method, a.i, p, x[2]))
    BY <1>4, <1>6, <2>2, <2>4, <2>5, NextMessage
  <2>7. QED
    BY <1>5, <1>6, <2>2, <2>3, <2>4, <2>6
<1>8. TableStep(values, values', p) /\ Only(Column(values, p), Column(values', p), m, w)
  BY <1>2, <1>4, TableExcept DEF Shape
<1>9. LocalOK("tree", prog, p, c, z, Column(values', p), os[p],
              Column(macs, p), Column(vals, p), Column(popen_cnt, p), results[p])
  BY <1>1, <1>2, <1>4, <1>5, <1>7, <1>8, LocalReceive, SMTT(30)
<1>10. Onward(pc[p], z) = c /\ VectorStep(os, os', p) /\ os'[p] = os[p]
  BY <1>1, <1>2, <1>4, <1>6, NoStep DEF Onward, Shape
<1>11. QED
  BY <1>1, <1>2, <1>3, <1>5, <1>6, <1>8, <1>9, <1>10, TakeKeeps

(* Pass, sending,                                                         *)
LEMMA PassKeeps ==
  ASSUME IInv, NEW p \in Player, Ahead(p), NEW m, m = Now(p).mc, Does(p, "pass"), Pass(p, m),
         method' = method, prog' = prog, results' = results
  PROVE  IInv'
<1>1. PICK c, a, z, x, msg : /\ c = pc[p] /\ a = at[p] /\ z = At("take", a.i, 0) /\ x = NextPlayer(p)
                             /\ msg = Values(os[p])
  OBVIOUS
<1>2. a.do = "pass" /\ SendOn("P", p, x, msg) /\ GoTo(p, z) /\ UNCHANGED data
  BY <1>1 DEF Pass, Does, data
<1>3. /\ Program(prog) /\ Shape /\ Channels(method, prog, pc, at, net["P"])
      /\ c \in DOMAIN prog
      /\ LocalOK(method, prog, p, c, a, Column(values, p), os[p],
                 Column(macs, p), Column(vals, p), Column(popen_cnt, p), results[p])
      /\ PlaceOK(method, prog, p, c, a)
  BY <1>1, Here
<1>4. method = "passing"
  BY <1>2, <1>3, MethodOf
<1>5. /\ z # Idle /\ x \in Player /\ prog[c].op = "begin"
      /\ LastSent("passing", prog, p, x, c, z) = After("passing", LastSent("passing", prog, p, x, c, a))
      /\ After("passing", LastSent("passing", prog, p, x, c, a)) = <<NumberOf(prog, c), a.i>>
      /\ SentBut("passing", prog, p, x, c, a, z) /\ TakenBut("passing", prog, p, p, c, a, z)
  BY <1>1, <1>2, <1>3, <1>4, PassPlace
<1>6. Onward(c, z) = c
  BY <1>5 DEF Onward
<1>7. /\ LocalOK("passing", prog, p, c, z, Column(values, p), os[p],
                 Column(macs, p), Column(vals, p), Column(popen_cnt, p), results[p])
      /\ IsSum(os[p], prog[c].ids, Behind(p, a.i))
  BY <1>1, <1>2, <1>3, <1>4, LocalPass
<1>8. IsNet(net) /\ "P" \in Channel
  BY <1>3 DEF Shape, Channel
<1>9. IsNet(net') /\ Sent(net["P"], net'["P"], p, x, msg)
  BY <1>2, <1>5, <1>8, SendFacts
<1>10. PICK y : y = After("passing", LastSent("passing", prog, p, x, c, a))
  OBVIOUS
<1>11. msg.kind = "values" /\ BodyOK("passing", prog, p, x, y, msg.body)
  <2>1. msg.kind = "values" /\ msg.body = os[p]
    BY <1>1 DEF Values
  <2>2. y[1] = NumberOf(prog, c) /\ y[2] = a.i
    BY <1>5, <1>10
  <2>3. Content("passing", p, x, y[2]) = Behind(p, a.i)
    BY <2>2 DEF Content
  <2>4. BodyOK("passing", prog, p, x, y, os[p])
    BY <1>3, <1>5, <1>7, <2>2, <2>3, BodyIs
  <2>5. QED
    BY <2>1, <2>4
<1>12. Moved(pc, pc', p, Onward(pc[p], z)) /\ Moved(at, at', p, z)
  BY <1>2, <1>3, GoFacts
<1>13. Channels(method, prog, pc', at', net'["P"])
  BY <1>1, <1>3, <1>4, <1>5, <1>6, <1>9, <1>10, <1>11, <1>12, ChannelsSend
<1>14. QED
  BY <1>1, <1>2, <1>4, <1>6, <1>7, <1>9, <1>13, PlaceKeeps

(* Pass, taking,                                                          *)
LEMMA TakeStreamKeeps ==
  ASSUME IInv, NEW p \in Player, Ahead(p), NEW m, m = Now(p).mc, Does(p, "take"), Pass(p, m),
         method' = method, prog' = prog, results' = results
  PROVE  IInv'
<1>1. PICK c, a, x, w : /\ c = pc[p] /\ a = at[p] /\ x = PreviousPlayer(p) /\ w = Message("P", p, x)
  OBVIOUS
<1>2. PICK o2, z : /\ o2 = SumUp(values[m][p], w)
                   /\ z = IF a.i < N - 1 THEN At("pass", a.i + 1, 0) ELSE Local("append_stream")
  OBVIOUS
<1>3. /\ a.do = "take" /\ Waiting("P", p, x, "values") /\ os' = [os EXCEPT ![p] = o2]
      /\ TakeFrom("P", p, x) /\ values' = values /\ UNCHANGED <<macs, vals, popen_cnt>>
  BY <1>1, <1>2 DEF Pass, Does
<1>4. GoTo(p, z)
  BY <1>1, <1>2 DEF Pass, Does
<1>5. /\ Program(prog) /\ Shape /\ Channels(method, prog, pc, at, net["P"])
      /\ c \in DOMAIN prog /\ m = prog[c].mc /\ m \in MCs
      /\ LocalOK(method, prog, p, c, a, Column(values, p), os[p],
                 Column(macs, p), Column(vals, p), Column(popen_cnt, p), results[p])
      /\ PlaceOK(method, prog, p, c, a)
  BY <1>1, Here
<1>6. method = "passing"
  BY <1>3, <1>5, MethodOf
<1>7. /\ z # Idle /\ x \in Player /\ Linked("passing", x, p) /\ prog[c].op = "begin"
      /\ LastTaken("passing", prog, x, p, c, z) = After("passing", LastTaken("passing", prog, x, p, c, a))
      /\ After("passing", LastTaken("passing", prog, x, p, c, a)) = <<NumberOf(prog, c), a.i>>
      /\ SentBut("passing", prog, p, p, c, a, z) /\ TakenBut("passing", prog, p, x, c, a, z)
  BY <1>1, <1>2, <1>3, <1>5, <1>6, TakePlace
<1>8. IsSum(w, prog[c].ids, Behind(x, a.i))
  <2>1. PICK y : y = After("passing", LastTaken("passing", prog, x, p, c, a))
    OBVIOUS
  <2>2. y[1] = NumberOf(prog, c) /\ y[2] = a.i
    BY <1>7, <2>1
  <2>3. net["P"][x][p] # <<>> /\ Head(net["P"][x][p]).kind = "values" /\ Head(net["P"][x][p]).body = w
    BY <1>1, <1>3 DEF Waiting, Message
  <2>4. y = After(method, LastTaken(method, prog, x, p, pc[p], at[p])) /\ Linked(method, x, p)
    BY <1>1, <1>6, <1>7, <2>1
  <2>5. IsSum(Head(net["P"][x][p]).body, prog[c].ids, Content(method, x, p, y[2]))
    BY <1>5, <1>7, <2>2, <2>3, <2>4, NextMessage
  <2>6. Content("passing", x, p, a.i) = Behind(x, a.i)
    BY DEF Content
  <2>7. QED
    BY <1>6, <2>2, <2>3, <2>5, <2>6
<1>9. TableStep(values, values', p) /\ Column(values', p) = Column(values, p)
  BY <1>3, <1>5, NoStep DEF Shape
<1>10. VectorStep(os, os', p) /\ os'[p] = o2
  BY <1>3, <1>5, VectorExcept DEF Shape
<1>11. LocalOK("passing", prog, p, c, z, Column(values, p), o2,
               Column(macs, p), Column(vals, p), Column(popen_cnt, p), results[p])
  <2>1. o2 = SumUp(Column(values, p)[prog[c].mc], w)
    BY <1>2, <1>5, ColumnIs
  <2>2. z = IF a.i < N - 1 THEN At("pass", a.i + 1, 0) ELSE Local("append_stream")
    BY <1>2
  <2>3. IsSum(w, prog[c].ids, Behind(PreviousPlayer(p), a.i))
    BY <1>1, <1>8
  <2>4. QED
    BY <1>3, <1>5, <1>6, <2>1, <2>2, <2>3, LocalTake
<1>12. Onward(pc[p], z) = c
  BY <1>1, <1>7 DEF Onward
<1>13. QED
  BY <1>1, <1>3, <1>4, <1>6, <1>7, <1>9, <1>10, <1>11, <1>12, TakeKeeps

(* A step of p alone, that neither sends nor takes.                        *)
LEMMA QuietKeeps ==
  ASSUME IInv, NEW p \in Player, method' = method, prog' = prog, net' = net,
         NEW z, GoTo(p, z), VectorStep(os, os', p), VectorStep(results, results', p),
         TableStep(values, values', p), TableStep(macs, macs', p), TableStep(vals, vals', p),
         TableStep(popen_cnt, popen_cnt', p),
         LocalOK(method, prog, p, Onward(pc[p], z), z, Column(values', p), os'[p],
                 Column(macs', p), Column(vals', p), Column(popen_cnt', p), results'[p]),
         SentBut(method, prog, p, p, pc[p], at[p], z), TakenBut(method, prog, p, p, pc[p], at[p], z)
  PROVE  IInv'
<1>1. Shape /\ Channels(method, prog, pc, at, net["P"]) /\ IsNet(net)
  BY DEF IInv, Shape
<1>2. /\ VectorStep(pc, pc', p) /\ VectorStep(at, at', p) /\ pc'[p] = Onward(pc[p], z) /\ at'[p] = z
      /\ Moved(pc, pc', p, Onward(pc[p], z)) /\ Moved(at, at', p, z)
  BY <1>1, GoFacts
<1>3. LocalOK(method, prog, p, pc'[p], at'[p], Column(values', p), os'[p],
              Column(macs', p), Column(vals', p), Column(popen_cnt', p), results'[p])
  BY <1>2
<1>4. Channels(method, prog, pc', at', net["P"])
  BY <1>1, <1>2, ChannelsQuiet
<1>5. QED
  BY <1>1, <1>2, <1>3, <1>4, StepKeeps

(* What a step leaves alone.                                               *)
LEMMA Unchanged ==
  ASSUME Shape, NEW p \in Player
  PROVE  /\ values' = values => TableStep(values, values', p) /\ Column(values', p) = Column(values, p)
         /\ macs' = macs => TableStep(macs, macs', p) /\ Column(macs', p) = Column(macs, p)
         /\ vals' = vals => TableStep(vals, vals', p) /\ Column(vals', p) = Column(vals, p)
         /\ popen_cnt' = popen_cnt =>
              TableStep(popen_cnt, popen_cnt', p) /\ Column(popen_cnt', p) = Column(popen_cnt, p)
         /\ os' = os => VectorStep(os, os', p) /\ os'[p] = os[p]
         /\ results' = results => VectorStep(results, results', p) /\ results'[p] = results[p]
  BY NoStep DEF Shape

(* Store, appending values,                                               *)
LEMMA AppendKeeps ==
  ASSUME IInv, NEW p \in Player, Ahead(p), NEW m, m = Now(p).mc, Does(p, "append"), Store(p, m),
         method' = method, prog' = prog, results' = results
  PROVE  IInv'
<1>1. PICK c, a : c = pc[p] /\ a = at[p]
  OBVIOUS
<1>2. PICK x, z : /\ x = vals[m][p] \o values[m][p]
                  /\ z = IF prog[c].op = "end" THEN Local("close")
                         ELSE IF method = "tree" /\ p > 0 THEN At("send", p * MaxBroadcast, 0) ELSE Idle
  OBVIOUS
<1>3. /\ Program(prog) /\ Shape /\ method \in Method
      /\ c \in DOMAIN prog /\ m = prog[c].mc /\ m \in MCs /\ Now(p) = prog[c]
      /\ LocalOK(method, prog, p, c, a, Column(values, p), os[p],
                 Column(macs, p), Column(vals, p), Column(popen_cnt, p), results[p])
      /\ PlaceOK(method, prog, p, c, a)
  BY <1>1, Here
<1>4. /\ a.do = "append" /\ vals' = [vals EXCEPT ![m][p] = x]
      /\ values' = values /\ os' = os /\ macs' = macs /\ popen_cnt' = popen_cnt /\ net' = net
  BY <1>1, <1>2 DEF Store, Does
<1>5. GoTo(p, z)
  BY <1>2, <1>3 DEF Store, Does
<1>6. SentBut(method, prog, p, p, c, a, z) /\ TakenBut(method, prog, p, p, c, a, z)
  BY <1>2, <1>3, <1>4, AppendPlace, SMTT(30)
<1>7. TableStep(vals, vals', p) /\ Only(Column(vals, p), Column(vals', p), m, x)
  BY <1>3, <1>4, TableExcept DEF Shape
<1>8. LocalOK(method, prog, p, Onward(c, z), z, Column(values, p), os[p],
              Column(macs, p), Column(vals', p), Column(popen_cnt, p), results[p])
  <2>1. z = IF prog[c].op = "end" THEN Local("close")
            ELSE IF method = "tree" /\ p > 0 THEN At("send", p * MaxBroadcast, 0) ELSE Idle
    BY <1>2
  <2>2. Column(vals, p)[m] = vals[m][p] /\ Column(values, p)[m] = values[m][p]
    <3>1. m \in MCs
      BY <1>3
    <3>2. QED
      BY ONLY <3>1 DEF Column
  <2>3. Only(Column(vals, p), Column(vals', p), m, Column(vals, p)[m] \o Column(values, p)[m])
    BY <1>2, <1>7, <2>2
  <2>4. Only(Column(vals, p), Column(vals', p), prog[c].mc, Column(vals, p)[prog[c].mc] \o Column(values, p)[prog[c].mc])
    BY <1>3, <2>3
  <2>5. QED
    BY <1>3, <1>4, <2>1, <2>4, LocalAppend
<1>9. QED
  BY <1>1, <1>3, <1>4, <1>5, <1>6, <1>7, <1>8, Unchanged, QuietKeeps

(* Store, appending the stream,                                           *)
LEMMA AppendStreamKeeps ==
  ASSUME IInv, NEW p \in Player, Ahead(p), NEW m, m = Now(p).mc, Does(p, "append_stream"), Store(p, m),
         method' = method, prog' = prog, results' = results
  PROVE  IInv'
<1>1. PICK c, a, x : c = pc[p] /\ a = at[p] /\ x = vals[m][p] \o os[p]
  OBVIOUS
<1>2. /\ Program(prog) /\ Shape
      /\ c \in DOMAIN prog /\ m = prog[c].mc /\ m \in MCs
      /\ LocalOK(method, prog, p, c, a, Column(values, p), os[p],
                 Column(macs, p), Column(vals, p), Column(popen_cnt, p), results[p])
      /\ PlaceOK(method, prog, p, c, a)
  BY <1>1, Here
<1>3. /\ a.do = "append_stream" /\ vals' = [vals EXCEPT ![m][p] = x] /\ GoTo(p, Idle)
      /\ values' = values /\ os' = os /\ macs' = macs /\ popen_cnt' = popen_cnt /\ net' = net
  BY <1>1 DEF Store, Does
<1>4. method = "passing"
  BY <1>2, <1>3, MethodOf
<1>5. SentBut("passing", prog, p, p, c, a, Idle) /\ TakenBut("passing", prog, p, p, c, a, Idle)
  BY <1>2, <1>3, <1>4, StreamPlace
<1>6. TableStep(vals, vals', p) /\ Only(Column(vals, p), Column(vals', p), m, x)
  BY <1>2, <1>3, TableExcept DEF Shape
<1>7. LocalOK("passing", prog, p, Onward(c, Idle), Idle, Column(values, p), os[p],
              Column(macs, p), Column(vals', p), Column(popen_cnt, p), results[p])
  <2>1. Column(vals, p)[m] = vals[m][p]
    <3>1. m \in MCs
      BY <1>2
    <3>2. QED
      BY ONLY <3>1 DEF Column
  <2>2. Only(Column(vals, p), Column(vals', p), m, Column(vals, p)[m] \o os[p])
    BY <1>1, <1>6, <2>1
  <2>3. Only(Column(vals, p), Column(vals', p), prog[c].mc, Column(vals, p)[prog[c].mc] \o os[p])
    BY <1>2, <2>2
  <2>4. QED
    BY <1>2, <1>3, <1>4, <2>3, LocalAppendStream
<1>8. QED
  BY <1>1, <1>2, <1>3, <1>4, <1>5, <1>6, <1>7, Unchanged, QuietKeeps, Zenon

(* Store, putting sums in place,                                          *)
LEMMA PutKeeps ==
  ASSUME IInv, NEW p \in Player, Ahead(p), NEW m, m = Now(p).mc, Does(p, "put"), Store(p, m),
         method' = method, prog' = prog, results' = results
  PROVE  IInv'
<1>1. PICK c, a, z : c = pc[p] /\ a = at[p] /\ z = Local("close")
  OBVIOUS
<1>2. PICK x : x = [i \in DOMAIN vals[m][p] |->
                     IF i - popen_cnt[m][p] \in DOMAIN values[m][p]
                     THEN values[m][p][i - popen_cnt[m][p]] ELSE vals[m][p][i]]
  OBVIOUS
<1>3. /\ Program(prog) /\ Shape
      /\ c \in DOMAIN prog /\ m = prog[c].mc /\ m \in MCs
      /\ LocalOK(method, prog, p, c, a, Column(values, p), os[p],
                 Column(macs, p), Column(vals, p), Column(popen_cnt, p), results[p])
      /\ PlaceOK(method, prog, p, c, a)
  BY <1>1, Here
<1>4. /\ a.do = "put" /\ vals' = [vals EXCEPT ![m][p] = x] /\ GoTo(p, z)
      /\ values' = values /\ os' = os /\ macs' = macs /\ popen_cnt' = popen_cnt /\ net' = net
  BY <1>1, <1>2 DEF Store, Does
<1>5. method = "direct"
  BY <1>3, <1>4, MethodOf
<1>6. SentBut("direct", prog, p, p, c, a, z) /\ TakenBut("direct", prog, p, p, c, a, z)
  BY <1>1, <1>3, <1>4, <1>5, PutPlace
<1>7. TableStep(vals, vals', p) /\ Only(Column(vals, p), Column(vals', p), m, x)
  BY <1>3, <1>4, TableExcept DEF Shape
<1>8. LocalOK("direct", prog, p, c, z, Column(values, p), os[p],
              Column(macs, p), Column(vals', p), Column(popen_cnt, p), results[p])
  <2>1. PICK V, Val, Val2, Cnt : /\ V = Column(values, p) /\ Val = Column(vals, p) /\ Val2 = Column(vals', p)
                                 /\ Cnt = Column(popen_cnt, p)
    OBVIOUS
  <2>2. V[m] = values[m][p] /\ Val[m] = vals[m][p] /\ Cnt[m] = popen_cnt[m][p]
    <3>1. m \in MCs
      BY <1>3
    <3>2. QED
      BY ONLY <2>1, <3>1 DEF Column
  <2>3. Only(Val, Val2, m, [i \in DOMAIN Val[m] |->
                     IF i - Cnt[m] \in DOMAIN V[m] THEN V[m][i - Cnt[m]] ELSE Val[m][i]])
    BY <1>2, <1>7, <2>1, <2>2
  <2>4. LocalOK("direct", prog, p, c, a, V, os[p], Column(macs, p), Val, Cnt, results[p])
    BY <1>3, <1>5, <2>1
  <2>5. LocalOK("direct", prog, p, c, z, V, os[p], Column(macs, p), Val2, Cnt, results[p])
    BY <1>1, <1>3, <1>4, <2>3, <2>4, LocalPut
  <2>6. QED
    BY <2>1, <2>5
<1>9. Onward(pc[p], z) = c
  BY <1>1, InACall DEF Onward, Local
<1>10. QED
  BY <1>1, <1>3, <1>4, <1>5, <1>6, <1>7, <1>8, <1>9, Unchanged, QuietKeeps

(* GetValues,                                                             *)
LEMMA GetKeeps ==
  ASSUME IInv, NEW p \in Player, Ahead(p), NEW m, m = Now(p).mc, GetValues(p, m),
         method' = method, prog' = prog, results' = results
  PROVE  IInv'
<1>1. PICK c, a, x : /\ c = pc[p] /\ a = at[p]
                     /\ x = SubSeq(vals[m][p], popen_cnt[m][p] + 1, popen_cnt[m][p] + Len(values[m][p]))
  OBVIOUS
<1>2. PICK z : z = IF method = "direct" THEN At("add", Other(p, 0), 0) ELSE Local("close")
  OBVIOUS
<1>3. /\ Program(prog) /\ Shape /\ method \in Method
      /\ c \in DOMAIN prog /\ m = prog[c].mc /\ m \in MCs
      /\ LocalOK(method, prog, p, c, a, Column(values, p), os[p],
                 Column(macs, p), Column(vals, p), Column(popen_cnt, p), results[p])
      /\ PlaceOK(method, prog, p, c, a)
  BY <1>1, Here
<1>4. /\ a.do = "get" /\ values' = [values EXCEPT ![m][p] = x]
      /\ vals' = vals /\ os' = os /\ macs' = macs /\ popen_cnt' = popen_cnt /\ net' = net
  BY <1>1 DEF GetValues, Does
<1>5. GoTo(p, z)
  BY <1>2, Zenon DEF GetValues, AfterGet
<1>6. /\ SentBut(method, prog, p, p, c, a, z) /\ TakenBut(method, prog, p, p, c, a, z)
      /\ Onward(pc[p], z) = c
  BY <1>1, <1>2, <1>3, <1>4, GetPlace DEF Onward
<1>7. TableStep(values, values', p) /\ Only(Column(values, p), Column(values', p), m, x)
  BY <1>3, <1>4, TableExcept DEF Shape
<1>8. LocalOK(method, prog, p, c, z, Column(values', p), os[p],
              Column(macs, p), Column(vals, p), Column(popen_cnt, p), results[p])
  <2>1. PICK V, V2, Val, Cnt : /\ V = Column(values, p) /\ V2 = Column(values', p) /\ Val = Column(vals, p)
                               /\ Cnt = Column(popen_cnt, p)
    OBVIOUS
  <2>2. V[m] = values[m][p] /\ Val[m] = vals[m][p] /\ Cnt[m] = popen_cnt[m][p]
    <3>1. m \in MCs
      BY <1>3
    <3>2. QED
      BY ONLY <2>1, <3>1 DEF Column
  <2>3. Only(V, V2, m, SubSeq(Val[m], Cnt[m] + 1, Cnt[m] + Len(V[m])))
    BY <1>1, <1>7, <2>1, <2>2
  <2>4. LocalOK(method, prog, p, c, a, V, os[p], Column(macs, p), Val, Cnt, results[p])
    BY <1>3, <2>1
  <2>5. LocalOK(method, prog, p, c, z, V2, os[p], Column(macs, p), Val, Cnt, results[p])
    BY <1>2, <1>3, <1>4, <2>3, <2>4, LocalGet
  <2>6. QED
    BY <2>1, <2>5
<1>9. QED
  BY <1>1, <1>3, <1>4, <1>5, <1>6, <1>7, <1>8, Unchanged, QuietKeeps, Zenon

(* Close, of an opening,                                                  *)
LEMMA CloseKeeps ==
  ASSUME IInv, NEW p \in Player, Ahead(p), NEW m, m = Now(p).mc, Does(p, "close"), Close(p, m),
         method' = method, prog' = prog
  PROVE  IInv'
<1>1. PICK c, a, x : c = pc[p] /\ a = at[p] /\ x = popen_cnt[m][p] + Len(values[m][p])
  OBVIOUS
<1>2. PICK z : z = IF WaitingForCheck(m, p) >= PopenMax THEN FirstOfCheck ELSE Idle
  OBVIOUS
<1>3. /\ Program(prog) /\ Shape /\ method \in Method
      /\ c \in DOMAIN prog /\ m = prog[c].mc /\ m \in MCs /\ Now(p) = prog[c]
      /\ LocalOK(method, prog, p, c, a, Column(values, p), os[p],
                 Column(macs, p), Column(vals, p), Column(popen_cnt, p), results[p])
      /\ PlaceOK(method, prog, p, c, a)
  BY <1>1, Here
<1>4. PICK r : r = Append(results[p], [ids |-> prog[c].ids, values |-> values[m][p]])
  OBVIOUS
<1>5. /\ a.do = "close" /\ popen_cnt' = [popen_cnt EXCEPT ![m][p] = x] /\ results' = [results EXCEPT ![p] = r]
      /\ values' = values /\ vals' = vals /\ os' = os /\ macs' = macs /\ net' = net
  BY <1>1, <1>3, <1>4 DEF Close, Does
<1>6. GoTo(p, z) /\ z \in {Idle, FirstOfCheck}
  BY <1>2 DEF Close
<1>7. SentBut(method, prog, p, p, c, a, z) /\ TakenBut(method, prog, p, p, c, a, z)
  BY <1>3, <1>5, <1>6, ClosePlace
<1>8. /\ TableStep(popen_cnt, popen_cnt', p) /\ Only(Column(popen_cnt, p), Column(popen_cnt', p), m, x)
      /\ VectorStep(results, results', p) /\ results'[p] = r
  BY <1>3, <1>5, TableExcept, VectorExcept DEF Shape
<1>9. LocalOK(method, prog, p, Onward(c, z), z, Column(values, p), os[p],
              Column(macs, p), Column(vals, p), Column(popen_cnt', p), r)
  <2>1. PICK V, Cnt, Cnt2 : /\ V = Column(values, p) /\ Cnt = Column(popen_cnt, p) /\ Cnt2 = Column(popen_cnt', p)
    OBVIOUS
  <2>2. V[m] = values[m][p] /\ Cnt[m] = popen_cnt[m][p]
    BY <1>3, <2>1, ColumnIs
  <2>3. Only(Cnt, Cnt2, prog[c].mc, Cnt[prog[c].mc] + Len(V[prog[c].mc]))
    BY <1>1, <1>3, <1>8, <2>1, <2>2
  <2>4. LocalOK(method, prog, p, c, a, V, os[p], Column(macs, p), Column(vals, p), Cnt, results[p])
    BY <1>3, <2>1
  <2>5. r = Append(results[p], [ids |-> prog[c].ids, values |-> V[prog[c].mc]])
    BY <1>3, <1>4, <2>2
  <2>6. LocalOK(method, prog, p, Onward(c, z), z, V, os[p], Column(macs, p), Column(vals, p), Cnt2, r)
    BY <1>3, <1>5, <1>6, <2>3, <2>4, <2>5, LocalClose
  <2>7. QED
    BY <2>1, <2>6
<1>10. QED
  BY <1>1, <1>3, <1>5, <1>6, <1>7, <1>8, <1>9, Unchanged, QuietKeeps

(* A step of a check, or to its beginning, that changes no data.            *)
LEMMA AsidePlace ==
  ASSUME IInv, NEW p \in Player, Ahead(p), NEW c, c = pc[p], NEW a, a = at[p],
         Checking(a) \/ a.do = "check_if_needed",
         NEW z, z = Idle \/ (Checking(z) /\ z.i \in Nat /\ z.last \in Nat /\ z = At(z.do, z.i, z.last)
                             /\ (z.do # "verify" => z.i \in 1 .. N - 1))
  PROVE  /\ LocalOK(method, prog, p, Onward(c, z), z, Column(values, p), os[p],
                    Column(macs, p), Column(vals, p), Column(popen_cnt, p), results[p])
         /\ SentBut(method, prog, p, p, c, a, z) /\ TakenBut(method, prog, p, p, c, a, z)
         /\ Checking(a) /\ a.do # "verify" => a.i \in 1 .. N - 1
<1>1. /\ Program(prog) /\ c \in DOMAIN prog
      /\ LocalOK(method, prog, p, c, a, Column(values, p), os[p],
                 Column(macs, p), Column(vals, p), Column(popen_cnt, p), results[p])
      /\ PlaceOK(method, prog, p, c, a)
  BY Here
<1>2. /\ prog[c].op \in {"add", "check"} \/ (prog[c].op = "end" /\ Checking(a))
      /\ Checking(a) /\ a.do # "verify" => a.i \in 1 .. N - 1
  BY <1>1, AtCheck
<1>3. PlaceOK(method, prog, p, Onward(c, z), z) /\ (z = Idle \/ Checking(z))
  <2>1. prog[c].op # "begin"
    BY <1>2
  <2>2. QED
    BY <1>1, <2>1, CheckPlace
<1>4. LocalOK(method, prog, p, Onward(c, z), z, Column(values, p), os[p],
              Column(macs, p), Column(vals, p), Column(popen_cnt, p), results[p])
  BY <1>1, <1>2, <1>3, LocalAside DEF Same
<1>5. SentBut(method, prog, p, p, c, a, z) /\ TakenBut(method, prog, p, p, c, a, z)
  BY <1>1, <1>2, <1>3, Aside
<1>6. QED
  BY <1>2, <1>4, <1>5

(* Close, after a value has been added,                                   *)
LEMMA AddedKeeps ==
  ASSUME IInv, NEW p \in Player, Ahead(p), NEW m, m = Now(p).mc, Does(p, "check_if_needed"), Close(p, m),
         method' = method, prog' = prog
  PROVE  IInv'
<1>1. PICK c, a, z : /\ c = pc[p] /\ a = at[p]
                     /\ z = IF WaitingForCheck(m, p) >= PopenMax THEN FirstOfCheck ELSE Idle
  OBVIOUS
<1>2. /\ a.do = "check_if_needed" /\ UNCHANGED data /\ results' = results /\ net' = net /\ GoTo(p, z)
  BY <1>1 DEF Close, Does, data
<1>3. z = Idle \/ (Checking(z) /\ z.i \in Nat /\ z.last \in Nat /\ z = At(z.do, z.i, z.last) /\ z.i \in 1 .. N - 1)
  <2>1. z = Idle \/ z = FirstOfCheck
    BY <1>1
  <2>2. N \in Nat /\ N >= 2
    BY SizeAssumption
  <2>3. QED
    BY <2>1, <2>2 DEF FirstOfCheck, At, Checking
<1>4. /\ LocalOK(method, prog, p, Onward(c, z), z, Column(values, p), os[p],
                 Column(macs, p), Column(vals, p), Column(popen_cnt, p), results[p])
      /\ SentBut(method, prog, p, p, c, a, z) /\ TakenBut(method, prog, p, p, c, a, z)
  BY <1>1, <1>2, <1>3, AsidePlace
<1>5. Shape /\ Channels(method, prog, pc, at, net["P"]) /\ IsNet(net')
  BY <1>2 DEF IInv, Shape
<1>6. Moved(pc, pc', p, Onward(pc[p], z)) /\ Moved(at, at', p, z)
  BY <1>2, <1>5, GoFacts
<1>7. Channels(method, prog, pc', at', net["P"])
  BY <1>1, <1>4, <1>5, <1>6, ChannelsQuiet
<1>8. QED
  BY <1>1, <1>2, <1>4, <1>5, <1>7, PlaceKeeps

(* The channel of a check, and the players around p.                       *)
LEMMA AroundFacts ==
  ASSUME NEW m \in MCs, NEW p \in Player, NEW i \in 1 .. N - 1
  PROVE  CheckChannel(m) \in Channel /\ (p + i) % N \in Player /\ (p + N - i) % N \in Player
<1>1. N \in Nat /\ N >= 2 /\ p \in Nat /\ i \in Nat /\ i < N
  BY PlayerFacts
<1>2. p + i \in Nat /\ p + N - i \in Nat
  BY <1>1
<1>3. (p + i) % N \in 0 .. N - 1 /\ (p + N - i) % N \in 0 .. N - 1
  BY <1>1, <1>2, Remainder
<1>4. CheckChannel(m) \in Channel
  BY DEF CheckChannel, Channel
<1>5. QED
  BY <1>3, <1>4 DEF Player

(* Tell, sending,                                                         *)
LEMMA TellKeeps ==
  ASSUME IInv, NEW p \in Player, Ahead(p), NEW m, m = Now(p).mc, Does(p, "send_tau"), Tell(p, m),
         method' = method, prog' = prog, results' = results
  PROVE  IInv'
<1>1. PICK c, a, x, msg, z, k : /\ c = pc[p] /\ a = at[p] /\ x = (p + a.i) % N
                                /\ msg = [kind |-> "tau", body |-> Pairs(m, p)] /\ z = At("hear_tau", a.i, 0)
                                /\ k = CheckChannel(m)
  OBVIOUS
<1>2. a.do = "send_tau" /\ SendOn(k, p, x, msg) /\ GoTo(p, z) /\ UNCHANGED data
  BY <1>1 DEF Tell, Does
<1>3. Shape /\ Channels(method, prog, pc, at, net["P"]) /\ IsNet(net) /\ m \in MCs /\ PlaceOK(method, prog, p, c, a)
      /\ Program(prog)
  BY <1>1, Here DEF Shape
<1>4. Checking(a) /\ a.i \in 1 .. N - 1
  <2>1. Checking(a)
    BY <1>2 DEF Checking
  <2>2. QED
    BY <1>2, <1>3, <2>1, AtCheck
<1>5. N \in Nat /\ Checking(z) /\ z.i \in Nat /\ z.last \in Nat /\ z = At(z.do, z.i, z.last) /\ z.i \in 1 .. N - 1
  BY <1>1, <1>4, SizeAssumption DEF At, Checking
<1>6. /\ LocalOK(method, prog, p, Onward(c, z), z, Column(values, p), os[p],
                 Column(macs, p), Column(vals, p), Column(popen_cnt, p), results[p])
      /\ SentBut(method, prog, p, p, c, a, z) /\ TakenBut(method, prog, p, p, c, a, z)
  BY <1>1, <1>4, <1>5, AsidePlace
<1>7. k \in Channel /\ x \in Player
  BY <1>1, <1>3, <1>4, AroundFacts
<1>8. Moved(pc, pc', p, Onward(pc[p], z)) /\ Moved(at, at', p, z)
  BY <1>2, <1>3, GoFacts
<1>9. /\ IsNet(net')
      /\ k = "P" => Sent(net["P"], net'["P"], p, x, msg)
      /\ k # "P" => net'["P"] = net["P"]
  BY <1>2, <1>3, <1>7, SendFacts
<1>10. Channels(method, prog, pc', at', net'["P"])
  <2>1. CASE k = "P"
    <3>1. msg.kind = "tau"
      BY <1>1
    <3>2. QED
      BY <1>1, <1>3, <1>6, <1>7, <1>8, <1>9, <2>1, <3>1, ChannelsTell
  <2>2. CASE k # "P"
    BY <1>1, <1>3, <1>6, <1>8, <1>9, <2>2, ChannelsQuiet
  <2>3. QED
    BY <2>1, <2>2
<1>11. QED
  BY <1>1, <1>2, <1>6, <1>9, <1>10, PlaceKeeps

(* Tell, receiving,                                                       *)
LEMMA HearKeeps ==
  ASSUME IInv, NEW p \in Player, Ahead(p), NEW m, m = Now(p).mc, Does(p, "hear_tau"), Tell(p, m),
         method' = method, prog' = prog, results' = results
  PROVE  IInv'
<1>1. PICK c, a, y, k : c = pc[p] /\ a = at[p] /\ y = (p + N - a.i) % N /\ k = CheckChannel(m)
  OBVIOUS
<1>2. PICK z : z = IF a.i < N - 1 THEN At("send_tau", a.i + 1, 0) ELSE Local("verify")
  OBVIOUS
<1>3. a.do = "hear_tau" /\ Waiting(k, p, y, "tau") /\ TakeFrom(k, p, y) /\ UNCHANGED data
  BY <1>1 DEF Tell, Does
<1>4. GoTo(p, z)
  BY <1>1, <1>2 DEF Tell, Does
<1>5. Shape /\ Channels(method, prog, pc, at, net["P"]) /\ IsNet(net) /\ m \in MCs /\ PlaceOK(method, prog, p, c, a)
      /\ Program(prog)
  BY <1>1, Here DEF Shape
<1>6. Checking(a) /\ a.i \in 1 .. N - 1
  <2>1. Checking(a)
    BY <1>3 DEF Checking
  <2>2. QED
    BY <1>3, <1>5, <2>1, AtCheck
<1>7. /\ Checking(z) /\ z.i \in Nat /\ z.last \in Nat /\ z = At(z.do, z.i, z.last)
      /\ z.do # "verify" => z.i \in 1 .. N - 1
  <2>1. N \in Nat
    BY SizeAssumption
  <2>2. CASE a.i < N - 1
    BY <1>2, <1>6, <2>1, <2>2 DEF At, Checking
  <2>3. CASE ~ (a.i < N - 1)
    BY <1>2, <2>3 DEF At, Checking, Local
  <2>4. QED
    BY <2>2, <2>3
<1>8. /\ LocalOK(method, prog, p, Onward(c, z), z, Column(values, p), os[p],
                 Column(macs, p), Column(vals, p), Column(popen_cnt, p), results[p])
      /\ SentBut(method, prog, p, p, c, a, z) /\ TakenBut(method, prog, p, p, c, a, z)
  BY <1>1, <1>6, <1>7, AsidePlace
<1>9. k \in Channel /\ y \in Player
  BY <1>1, <1>5, <1>6, AroundFacts
<1>10. Moved(pc, pc', p, Onward(pc[p], z)) /\ Moved(at, at', p, z)
  BY <1>4, <1>5, GoFacts
<1>11. /\ IsNet(net')
       /\ k = "P" => Received(net["P"], net'["P"], p, y)
       /\ k # "P" => net'["P"] = net["P"]
  BY <1>3, <1>5, <1>9, TakeFacts
<1>12. Channels(method, prog, pc', at', net'["P"])
  <2>1. CASE k = "P"
    <3>1. net["P"][y][p] # <<>> /\ Head(net["P"][y][p]).kind = "tau"
      BY <1>3, <2>1 DEF Waiting
    <3>2. QED
      BY <1>1, <1>5, <1>8, <1>9, <1>10, <1>11, <2>1, <3>1, ChannelsHear, SMTT(30)
  <2>2. CASE k # "P"
    <3>1. /\ SentBut(method, prog, p, p, pc[p], at[p], z) /\ TakenBut(method, prog, p, p, pc[p], at[p], z)
          /\ net'["P"] = net["P"]
      BY <1>1, <1>8, <1>11, <2>2
    <3>2. Channels(method, prog, pc', at', net["P"])
      BY ONLY <1>5, <1>10, <3>1, p \in Player, ChannelsQuiet
    <3>3. QED
      BY <3>1, <3>2
  <2>3. QED
    BY <2>1, <2>2
<1>13. QED
  BY <1>1, <1>3, <1>4, <1>8, <1>11, <1>12, PlaceKeeps

(* and Verify.                                                            *)
LEMMA VerifyKeeps ==
  ASSUME IInv, NEW p \in Player, Ahead(p), NEW m, m = Now(p).mc, Verify(p, m),
         method' = method, prog' = prog, results' = results
  PROVE  IInv'
<1>1. PICK c, a, x, y : /\ c = pc[p] /\ a = at[p]
                        /\ x = SubSeq(macs[m][p], popen_cnt[m][p] + 1, Len(macs[m][p]))
                        /\ y = SubSeq(vals[m][p], popen_cnt[m][p] + 1, Len(vals[m][p]))
  OBVIOUS
<1>2. /\ Program(prog) /\ Shape
      /\ c \in DOMAIN prog /\ m = prog[c].mc /\ m \in MCs
      /\ LocalOK(method, prog, p, c, a, Column(values, p), os[p],
                 Column(macs, p), Column(vals, p), Column(popen_cnt, p), results[p])
      /\ PlaceOK(method, prog, p, c, a)
  BY <1>1, Here
<1>3. /\ a.do = "verify" /\ GoTo(p, Idle) /\ macs' = [macs EXCEPT ![m][p] = x] /\ vals' = [vals EXCEPT ![m][p] = y]
      /\ popen_cnt' = [popen_cnt EXCEPT ![m][p] = 0] /\ values' = values /\ os' = os /\ net' = net
  BY <1>1 DEF Verify, Does
<1>4. SentBut(method, prog, p, p, c, a, Idle) /\ TakenBut(method, prog, p, p, c, a, Idle)
  <2>1. Checking(a)
    BY <1>3 DEF Checking
  <2>2. QED
    BY <1>1, <2>1, AsidePlace
<1>5. /\ TableStep(macs, macs', p) /\ Only(Column(macs, p), Column(macs', p), m, x)
      /\ TableStep(vals, vals', p) /\ Only(Column(vals, p), Column(vals', p), m, y)
      /\ TableStep(popen_cnt, popen_cnt', p) /\ Only(Column(popen_cnt, p), Column(popen_cnt', p), m, 0)
  BY <1>2, <1>3, TableExcept DEF Shape
<1>6. LocalOK(method, prog, p, Onward(c, Idle), Idle, Column(values, p), os[p],
              Column(macs', p), Column(vals', p), Column(popen_cnt', p), results[p])
  <2>1. PICK Mac, Mac2, Val, Val2, Cnt, Cnt2 :
          /\ Mac = Column(macs, p) /\ Val = Column(vals, p) /\ Cnt = Column(popen_cnt, p)
          /\ Mac2 = Column(macs', p) /\ Val2 = Column(vals', p) /\ Cnt2 = Column(popen_cnt', p)
    OBVIOUS
  <2>2. Mac[m] = macs[m][p] /\ Val[m] = vals[m][p] /\ Cnt[m] = popen_cnt[m][p]
    BY <1>2, <2>1, ColumnIs
  <2>3. /\ Only(Mac, Mac2, m, SubSeq(Mac[m], Cnt[m] + 1, Len(Mac[m])))
        /\ Only(Val, Val2, m, SubSeq(Val[m], Cnt[m] + 1, Len(Val[m]))) /\ Only(Cnt, Cnt2, m, 0)
    BY <1>1, <1>5, <2>1, <2>2
  <2>4. LocalOK(method, prog, p, c, a, Column(values, p), os[p], Mac, Val, Cnt, results[p])
    BY <1>2, <2>1
  <2>5. LocalOK(method, prog, p, Onward(c, Idle), Idle, Column(values, p), os[p], Mac2, Val2, Cnt2, results[p])
    BY <1>2, <1>3, <2>3, <2>4, LocalVerify
  <2>6. QED
    BY <2>1, <2>5
<1>7. QED
  BY <1>1, <1>2, <1>3, <1>4, <1>5, <1>6, Unchanged, QuietKeeps, Zenon

(* A step inside a call, of any kind.                                     *)
LEMMA InCallKeeps ==
  ASSUME IInv, NEW p \in Player, InCall(p)
  PROVE  IInv'
<1>1. PICK m : m = Now(p).mc
  OBVIOUS
<1>2. Ahead(p) /\ method' = method /\ prog' = prog
  BY DEF InCall
<1>3. method \in Method
  BY DEF IInv
<1>4. \/ results' = results /\ (\/ PassUp(p, m) \/ Send(p, m) \/ AddShares(p, m) \/ Receive(p, m)
                                \/ Pass(p, m) \/ Store(p, m) \/ GetValues(p, m) \/ Tell(p, m) \/ Verify(p, m))
      \/ Close(p, m)
  BY <1>1 DEF InCall
<1>5. CASE PassUp(p, m) /\ results' = results
  BY <1>1, <1>2, <1>5, PassUpKeeps
<1>6. CASE Send(p, m) /\ results' = results
  BY <1>1, <1>2, <1>6, SendKeeps
<1>7. CASE AddShares(p, m) /\ results' = results
  <2>1. method \in {"tree", "direct"}
    <3>1. at[p].do = "add"
      BY <1>7 DEF AddShares, Does
    <3>2. PlaceOK(method, prog, p, pc[p], at[p])
      BY <1>2, Here
    <3>3. QED
      BY <3>1, <3>2, MethodOf
  <2>2. QED
    BY <1>1, <1>2, <1>7, <2>1, AddTreeKeeps, AddDirectKeeps
<1>8. CASE Receive(p, m) /\ results' = results
  BY <1>1, <1>2, <1>8, ReceiveKeeps
<1>9. CASE Pass(p, m) /\ results' = results
  <2>1. Does(p, "pass") \/ Does(p, "take")
    BY <1>9 DEF Pass
  <2>2. QED
    BY <1>1, <1>2, <1>9, <2>1, PassKeeps, TakeStreamKeeps
<1>10. CASE Store(p, m) /\ results' = results
  <2>1. Does(p, "append") \/ Does(p, "append_stream") \/ Does(p, "put")
    BY <1>10 DEF Store
  <2>2. QED
    BY <1>1, <1>2, <1>10, <2>1, AppendKeeps, AppendStreamKeeps, PutKeeps
<1>11. CASE GetValues(p, m) /\ results' = results
  BY <1>1, <1>2, <1>11, GetKeeps
<1>12. CASE Tell(p, m) /\ results' = results
  <2>1. Does(p, "send_tau") \/ Does(p, "hear_tau")
    BY <1>12 DEF Tell
  <2>2. QED
    BY <1>1, <1>2, <1>12, <2>1, TellKeeps, HearKeeps
<1>13. CASE Verify(p, m) /\ results' = results
  BY <1>1, <1>2, <1>13, VerifyKeeps
<1>14. CASE Close(p, m)
  <2>1. Does(p, "close") \/ Does(p, "check_if_needed")
    BY <1>14 DEF Close
  <2>2. QED
    BY <1>1, <1>2, <1>14, <2>1, CloseKeeps, AddedKeeps
<1>15. QED
  BY <1>4, <1>5, <1>6, <1>7, <1>8, <1>9, <1>10, <1>11, <1>12, <1>13, <1>14

(* Every step keeps the invariant.                                        *)
LEMMA StepsKeep ==
  ASSUME IInv, [Next]_vars
  PROVE  IInv'
<1>1. CASE UNCHANGED vars
  <2>1. /\ method' = method /\ prog' = prog /\ pc' = pc /\ at' = at /\ net' = net /\ results' = results
        /\ values' = values /\ os' = os /\ macs' = macs /\ vals' = vals /\ popen_cnt' = popen_cnt
    BY <1>1 DEF vars, data
  <2>2. Shape'
    BY <2>1 DEF IInv, Shape
  <2>3. ASSUME NEW p \in Player PROVE LocalOf(p)'
    BY <2>1 DEF IInv, LocalOf
  <2>4. QED
    BY <2>1, <2>2, <2>3 DEF IInv
<1>2. ASSUME NEW p \in Player, Begin(p) \/ End(p) \/ Add(p) \/ Check(p) \/ InCall(p) PROVE IInv'
  BY <1>2, BeginKeeps, EndKeeps, AddKeeps, CheckKeeps, InCallKeeps
<1>3. QED
  BY <1>1, <1>2 DEF Next

(* The invariant says what is wanted: it names the content of both        *)
(* vectors.                                                               *)
LEMMA InvariantImplies == IInv => PairsMatch
<1>1. SUFFICES ASSUME IInv PROVE PairsMatch
  OBVIOUS
<1>2. ASSUME NEW m \in MCs, NEW p \in Player
      PROVE  /\ popen_cnt[m][p] <= Len(macs[m][p]) /\ popen_cnt[m][p] <= Len(vals[m][p])
             /\ \A i \in 1 .. popen_cnt[m][p] : vals[m][p][i] = Opened(macs[m][p][i])
  <2>1. Stores(method, prog, p, pc[p], at[p], Column(macs, p), Column(vals, p), Column(popen_cnt, p))
    <3>1. LocalOf(p)
      BY <1>1 DEF IInv
    <3>2. QED
      BY <3>1 DEF LocalOf, LocalOK
  <2>2. StoreOK(method, prog, m, p, pc[p], at[p], macs[m][p], vals[m][p], popen_cnt[m][p])
    BY <2>1, ColumnIs DEF Stores
  <2>3. Paired(macs[m][p], vals[m][p], popen_cnt[m][p])
    BY <2>2 DEF StoreOK
  <2>4. QED
    BY <2>3 DEF Paired
<1>3. ASSUME NEW p \in Player, NEW i \in DOMAIN results[p]
      PROVE  results[p][i].values = [j \in DOMAIN results[p][i].ids |-> Opened(results[p][i].ids[j])]
  <2>1. ResultsOK(results[p])
    <3>1. LocalOf(p)
      BY <1>1 DEF IInv
    <3>2. QED
      BY <3>1 DEF LocalOf, LocalOK
  <2>2. DOMAIN results[p] = 1 .. Len(results[p])
    BY <2>1, SeqDomain DEF ResultsOK
  <2>3. QED
    BY <2>1, <2>2 DEF ResultsOK
<1>4. QED
  BY <1>2, <1>3 DEF PairsMatch

(* For every method, number of players, arity of the tree and well-formed   *)
(* program, and for any speed of the players: where each is in its calls,   *)
(* whose shares are in its vectors, which values are stored in which place, *)
(* and which messages, by number, are on the way to it (POpen_Begin,        *)
(* POpen_End, AddToCheck and Check of MAC_Check and its subclasses).        *)
THEOREM OpeningsInStep == Spec => []IInv
  BY Initially, StepsKeep, PTL DEF Spec

(* So every opening delivers the sum of everybody's shares of what was      *)
(* opened, and Check pairs each value with its own MAC, although the two    *)
(* are stored at different times and cut while openings are under way       *)
(* (MAC_Check::AddToMacs, AddToValues, GetValues and Check).                *)
THEOREM SharesPaired == Spec => []PairsMatch
  BY OpeningsInStep, InvariantImplies, PTL
=============================================================================
