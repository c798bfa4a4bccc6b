---------------------------- MODULE SequenceFacts ----------------------------
(***************************************************************************)
(* Lemmas about sequences of anything: appending, heads and tails,         *)
(* concatenation, and FlattenSeq, which concatenates a sequence of         *)
(* sequences.  FlattenSeq is a recursive function; that it exists is proved *)
(* by looking at the least length for which it would not.                   *)
(***************************************************************************)
EXTENDS SequencesExt, WellFoundedInduction, TLAPS

(* A sequence, whatever it holds.                                           *)
IsSeq(s) == \E S : s \in Seq(S)

(* Appending keeps what is there and adds one element at the end.           *)
LEMMA AppendFacts ==
  ASSUME NEW s, NEW e, IsSeq(s)
  PROVE  /\ IsSeq(Append(s, e))
         /\ Len(s) \in Nat
         /\ Len(Append(s, e)) = Len(s) + 1
         /\ \A k \in 1 .. Len(s) : Append(s, e)[k] = s[k]
         /\ Append(s, e)[Len(s) + 1] = e
  <1>1. PICK S : s \in Seq(S)
    BY DEF IsSeq
  <1>2. s \in Seq(S \cup {e}) /\ e \in S \cup {e}
    BY <1>1
  <1>3. Append(s, e) \in Seq(S \cup {e})
    BY <1>2
  <1>4. QED
    BY <1>2, <1>3 DEF IsSeq

(* Removing the head shifts the rest by one.                                *)
LEMMA TailFacts ==
  ASSUME NEW s, IsSeq(s), s # <<>>
  PROVE  /\ IsSeq(Tail(s))
         /\ Len(s) \in Nat
         /\ Len(Tail(s)) = Len(s) - 1
         /\ Head(s) = s[1]
         /\ \A k \in 1 .. Len(s) - 1 : Tail(s)[k] = s[k + 1]
  <1>1. PICK S : s \in Seq(S)
    BY DEF IsSeq
  <1>2. Tail(s) \in Seq(S)
    BY <1>1
  <1>3. QED
    BY <1>1, <1>2 DEF IsSeq

(* Only the empty sequence has no elements.                                 *)
LEMMA LengthFacts ==
  ASSUME NEW s, IsSeq(s)
  PROVE  Len(s) \in Nat /\ (Len(s) = 0 <=> s = <<>>)
  <1>1. PICK S : s \in Seq(S)
    BY DEF IsSeq
  <1>2. QED
    BY <1>1

(* The empty sequence is a sequence.                                        *)
LEMMA EmptyFacts == IsSeq(<<>>) /\ Len(<<>>) = 0
  <1>1. <<>> \in Seq({})
    OBVIOUS
  <1>2. QED
    BY <1>1 DEF IsSeq

(* A set of natural numbers that is not empty has a least element.          *)
LEMMA LeastNatural ==
  ASSUME NEW S, S \subseteq Nat, S # {}
  PROVE  \E m \in S : \A k \in S : m <= k
  <1> DEFINE R == OpToRel(<, Nat)
  <1>1. \A x, y \in Nat : <<x, y>> \in R <=> x < y
    BY DEF OpToRel
  <1>2. IsWellFoundedOn(R, Nat)
    BY NatLessThanWellFounded
  <1> HIDE DEF R
  <1>3. PICK m \in S : \A y \in S : ~ (<<y, m>> \in R)
    BY <1>2, WFMin
  <1>4. \A k \in S : m <= k
    <2> TAKE k \in S
    <2>1. k \in Nat /\ m \in Nat
      OBVIOUS
    <2>2. <<k, m>> \in R <=> k < m
      BY <1>1, <2>1
    <2>3. QED
      BY <1>3, <2>1, <2>2
  <1>5. QED
    BY <1>4

(* The function f for length n, grown by one; and what FlattenSeq builds   *)
(* up: f[i] is the first i elements of s concatenated.                     *)
Grown(f, s, n) == [i \in 1 .. n + 1 |-> IF i = 1 THEN s[i] ELSE IF i = n + 1 THEN f[n] \o s[i] ELSE f[i]]

Built(f, s, n) ==
  /\ DOMAIN f = 1 .. n
  /\ f = [i \in 1 .. n |-> f[i]]
  /\ \A i \in 1 .. n : f[i] = IF i = 1 THEN s[i] ELSE f[i - 1] \o s[i]

(* One step of building, with the index shifted.                            *)
LEMMA BuiltStep ==
  ASSUME NEW f, NEW s, NEW n \in Nat, Built(f, s, n), NEW k \in Nat, k + 1 \in 1 .. n
  PROVE  k # 0 => f[k + 1] = f[k] \o s[k + 1]
  <1>1. PICK i : i = k + 1
    OBVIOUS
  <1>2. i \in 1 .. n /\ i - 1 = k /\ (k # 0 => i # 1)
    BY <1>1
  <1>3. f[i] = IF i = 1 THEN s[i] ELSE f[i - 1] \o s[i]
    BY <1>2 DEF Built
  <1>4. k # 0 => f[i] = f[k] \o s[i]
    BY <1>2, <1>3
  <1>5. QED
    BY <1>1, <1>4

(* The function that FlattenSeq chooses exists: were there a least length   *)
(* for which none does, the one of the length before could be grown by one. *)
LEMMA FlatExists ==
  ASSUME NEW s, NEW n \in Nat
  PROVE  \E f : Built(f, s, n)
  <1> DEFINE Bad == {k \in Nat : ~ \E f : Built(f, s, k)}
  <1>1. 0 \notin Bad
    <2>1. PICK f : f = [i \in 1 .. 0 |-> s[i]]
      OBVIOUS
    <2>2. Built(f, s, 0)
      BY <2>1 DEF Built
    <2>3. QED
      BY <2>2
  <1>2. ASSUME NEW k \in Nat, k + 1 \in Bad PROVE k \in Bad
    <2>1. ASSUME NEW f, Built(f, s, k) PROVE FALSE
      <3>1. PICK g : g = Grown(f, s, k)
        OBVIOUS
      <3>2. DOMAIN g = 1 .. k + 1 /\ g = [i \in 1 .. k + 1 |-> g[i]]
        BY <3>1 DEF Grown
      <3>3. ASSUME NEW i \in 1 .. k + 1 PROVE g[i] = IF i = 1 THEN s[i] ELSE g[i - 1] \o s[i]
        <4>1. CASE i = 1
          BY <3>1, <4>1 DEF Grown
        <4>2. CASE i # 1 /\ i = k + 1
          <5>0. i - 1 = k /\ k \in 1 .. k /\ k \in 1 .. k + 1 /\ k # k + 1
            BY <4>2
          <5>1. g[i] = f[k] \o s[i]
            BY <3>1, <4>2 DEF Grown
          <5>2. f[k] = g[k]
            BY <2>1, <3>1, <5>0 DEF Grown, Built
          <5>3. QED
            BY <4>2, <5>0, <5>1, <5>2
        <4>3. CASE i # 1 /\ i # k + 1
          <5>1. i \in 1 .. k /\ i - 1 \in 1 .. k /\ i - 1 \in 1 .. k + 1 /\ i - 1 # k + 1
            BY <4>3
          <5>2. g[i] = f[i] /\ g[i - 1] = f[i - 1]
            BY <2>1, <3>1, <4>3, <5>1 DEF Grown, Built
          <5>3. QED
            BY <2>1, <4>3, <5>1, <5>2 DEF Built
        <4>4. QED
          BY <4>1, <4>2, <4>3
      <3>4. Built(g, s, k + 1)
        BY <3>2, <3>3 DEF Built
      <3>5. QED
        BY <1>2, <3>4
    <2>2. QED
      BY <2>1
  <1>3. Bad = {}
    <2> SUFFICES ASSUME Bad # {} PROVE FALSE
      OBVIOUS
    <2>1. PICK m \in Bad : \A k \in Bad : m <= k
      BY LeastNatural
    <2>2. m \in Nat /\ m # 0
      BY <1>1
    <2>3. m - 1 \in Nat /\ m - 1 + 1 = m
      BY <2>2
    <2>4. m - 1 \in Bad
      BY <1>2, <2>3
    <2> HIDE DEF Bad
    <2>5. m <= m - 1
      BY <2>1, <2>4
    <2>6. QED
      BY <2>2, <2>5
  <1>4. QED
    BY <1>3

(* Two such functions agree wherever both are defined.                      *)
LEMMA FlatUnique ==
  ASSUME NEW s, NEW t, NEW f, NEW g, NEW m \in Nat, NEW n \in Nat, n <= m,
         Built(f, s, n), Built(g, t, m), \A i \in 1 .. n : s[i] = t[i]
  PROVE  \A i \in 1 .. n : f[i] = g[i]
  <1> DEFINE Bad == {k \in 1 .. n : f[k] # g[k]}
  <1>1. CASE Bad # {}
    <2>0. Bad \subseteq Nat
      OBVIOUS
    <2>1. PICK k \in Bad : \A j \in Bad : k <= j
      BY <1>1, <2>0, LeastNatural
    <2>2. k \in 1 .. n /\ k \in 1 .. m /\ f[k] # g[k] /\ s[k] = t[k]
      OBVIOUS
    <2>3. k # 1
      BY <2>2 DEF Built
    <2>4. k - 1 \in 1 .. n /\ k - 1 < k
      BY <2>2, <2>3
    <2>5. f[k - 1] = g[k - 1]
      <3>1. k - 1 \in Bad => k <= k - 1
        BY <2>1
      <3>2. QED
        BY <2>4, <3>1
    <2>6. f[k] = f[k - 1] \o s[k]
      BY <2>2, <2>3 DEF Built
    <2>7. g[k] = g[k - 1] \o t[k]
      BY <2>2, <2>3 DEF Built
    <2>8. QED
      BY <2>2, <2>5, <2>6, <2>7
  <1>2. CASE Bad = {}
    BY <1>2
  <1>3. QED
    BY <1>1, <1>2

(* FlattenSeq(s) is the last of what is built up.                           *)
LEMMA FlattenIs ==
  ASSUME NEW s, Len(s) \in Nat, Len(s) # 0
  PROVE  \E f : Built(f, s, Len(s)) /\ FlattenSeq(s) = f[Len(s)]
  <1> DEFINE flatten == CHOOSE f : f = [i \in 1 .. Len(s) |-> IF i = 1 THEN s[i] ELSE f[i - 1] \o s[i]]
  <1>1. FlattenSeq(s) = flatten[Len(s)]
    BY DEF FlattenSeq
  <1>2. PICK g : Built(g, s, Len(s))
    BY FlatExists
  <1>3. g = [i \in 1 .. Len(s) |-> IF i = 1 THEN s[i] ELSE g[i - 1] \o s[i]]
    BY <1>2 DEF Built
  <1>4. flatten = [i \in 1 .. Len(s) |-> IF i = 1 THEN s[i] ELSE flatten[i - 1] \o s[i]]
    BY <1>3
  <1> HIDE DEF flatten
  <1>5. Built(flatten, s, Len(s))
    BY <1>4 DEF Built
  <1>6. QED
    BY <1>1, <1>5

(* Concatenation of sequences of any elements.                              *)
LEMMA ConcatFacts ==
  ASSUME NEW a, NEW b, NEW c, IsSeq(a), IsSeq(b), IsSeq(c)
  PROVE  /\ IsSeq(a \o b)
         /\ (a \o b) \o c = a \o (b \o c)
         /\ <<>> \o a = a /\ a \o <<>> = a
         /\ \A x : Append(a \o b, x) = a \o Append(b, x)
         /\ a # <<>> => /\ a \o b # <<>> /\ Head(a \o b) = Head(a)
                        /\ Tail(a \o b) = Tail(a) \o b /\ IsSeq(Tail(a))
  <1>1. PICK A, B, C : a \in Seq(A) /\ b \in Seq(B) /\ c \in Seq(C)
    BY DEF IsSeq
  <1>2. PICK S : S = A \cup B \cup C
    OBVIOUS
  <1>3. a \in Seq(S) /\ b \in Seq(S) /\ c \in Seq(S)
    BY <1>1, <1>2
  <1>4. a \o b \in Seq(S) /\ b \o c \in Seq(S)
    BY <1>3
  <1>5. (a \o b) \o c = a \o (b \o c)
    BY <1>3, <1>4
  <1>6. <<>> \o a = a /\ a \o <<>> = a
    BY <1>3
  <1>7. \A x : Append(a \o b, x) = a \o Append(b, x)
    <2> TAKE x
    <2>1. PICK T : T = S \cup {x}
      OBVIOUS
    <2>2. a \in Seq(T) /\ b \in Seq(T) /\ x \in T
      BY <1>3, <2>1
    <2>3. QED
      BY <2>2
  <1>8. a # <<>> => /\ a \o b # <<>> /\ Head(a \o b) = Head(a)
                   /\ Tail(a \o b) = Tail(a) \o b /\ Tail(a) \in Seq(S)
    BY <1>3, <1>4
  <1>9. QED
    BY <1>4, <1>5, <1>6, <1>7, <1>8 DEF IsSeq

AreSeqs(s) == IsSeq(s) /\ \A i \in 1 .. Len(s) : IsSeq(s[i])

(* All that FlattenSeq builds up are sequences.                             *)
LEMMA BuiltAreSeqs ==
  ASSUME NEW s, NEW n \in Nat, NEW f, Built(f, s, n), \A i \in 1 .. n : IsSeq(s[i])
  PROVE  \A i \in 1 .. n : IsSeq(f[i])
  <1> DEFINE Bad == {k \in 1 .. n : ~ IsSeq(f[k])}
  <1>1. CASE Bad # {}
    <2>1. Bad \subseteq Nat
      OBVIOUS
    <2>2. PICK k \in Bad : \A j \in Bad : k <= j
      BY <1>1, <2>1, LeastNatural
    <2>3. k \in 1 .. n /\ ~ IsSeq(f[k]) /\ IsSeq(s[k])
      OBVIOUS
    <2>4. k # 1
      BY <2>3 DEF Built
    <2>5. k - 1 \in 1 .. n /\ k - 1 < k
      BY <2>3, <2>4
    <2>6. IsSeq(f[k - 1])
      <3>1. k - 1 \in Bad => k <= k - 1
        BY <2>2
      <3>2. QED
        BY <2>5, <3>1
    <2>7. f[k] = f[k - 1] \o s[k]
      BY <2>3, <2>4 DEF Built
    <2>8. QED
      BY <2>3, <2>6, <2>7, ConcatFacts
  <1>2. CASE Bad = {}
    BY <1>2
  <1>3. QED
    BY <1>1, <1>2

(* Nothing concatenated is nothing.                                         *)
LEMMA FlattenEmpty == FlattenSeq(<<>>) = <<>>
  BY DEF FlattenSeq

(* Sequences concatenated are a sequence.                                   *)
LEMMA FlattenIsSeq ==
  ASSUME NEW s, AreSeqs(s)
  PROVE  IsSeq(FlattenSeq(s))
  <1>1. Len(s) \in Nat /\ (Len(s) = 0 => s = <<>>)
    BY LengthFacts DEF AreSeqs
  <1>2. CASE Len(s) = 0
    BY <1>1, <1>2, FlattenEmpty DEF AreSeqs
  <1>3. CASE Len(s) # 0
    <2>1. PICK f : Built(f, s, Len(s)) /\ FlattenSeq(s) = f[Len(s)]
      BY <1>1, <1>3, FlattenIs
    <2>2. Len(s) \in 1 .. Len(s)
      BY <1>1, <1>3
    <2>3. QED
      BY <1>1, <2>1, <2>2, BuiltAreSeqs DEF AreSeqs
  <1>4. QED
    BY <1>2, <1>3

(* Appending a sequence to the list appends its elements.                   *)
LEMMA FlattenAppend ==
  ASSUME NEW s, NEW e, AreSeqs(s), IsSeq(e)
  PROVE  /\ FlattenSeq(Append(s, e)) = FlattenSeq(s) \o e
         /\ AreSeqs(Append(s, e))
  <1>1. IsSeq(s) /\ Len(s) \in Nat /\ (Len(s) = 0 => s = <<>>)
    BY LengthFacts DEF AreSeqs
  <1>2. PICK t : t = Append(s, e)
    OBVIOUS
  <1>3. /\ IsSeq(t) /\ Len(t) = Len(s) + 1
        /\ \A k \in 1 .. Len(s) : t[k] = s[k]
        /\ t[Len(s) + 1] = e
    BY <1>1, <1>2, AppendFacts
  <1>4. AreSeqs(t)
    <2>1. ASSUME NEW k \in 1 .. Len(t) PROVE IsSeq(t[k])
      <3>1. k \in 1 .. Len(s) \/ k = Len(s) + 1
        BY <1>1, <1>3
      <3>2. QED
        BY <1>3, <3>1 DEF AreSeqs
    <2>2. QED
      BY <1>3, <2>1 DEF AreSeqs
  <1>5. PICK g : Built(g, t, Len(t)) /\ FlattenSeq(t) = g[Len(t)]
    <2>1. Len(t) \in Nat /\ Len(t) # 0
      BY <1>1, <1>3
    <2>2. QED
      BY <2>1, FlattenIs
  <1>6. CASE Len(s) = 0
    <2>1. g[1] = t[1] /\ t[1] = e /\ Len(t) = 1
      BY <1>3, <1>5, <1>6 DEF Built
    <2>2. FlattenSeq(s) = <<>>
      BY <1>1, <1>6, FlattenEmpty
    <2>3. QED
      BY <1>2, <1>4, <1>5, <2>1, <2>2, ConcatFacts
  <1>7. CASE Len(s) # 0
    <2>1. PICK f : Built(f, s, Len(s)) /\ FlattenSeq(s) = f[Len(s)]
      BY <1>1, <1>7, FlattenIs
    <2>2. /\ Len(s) \in 1 .. Len(s) /\ Len(t) \in Nat /\ Len(s) <= Len(t)
          /\ Len(s) + 1 \in 1 .. Len(t) /\ Len(s) + 1 # 1 /\ Len(s) + 1 - 1 = Len(s)
      BY <1>1, <1>3, <1>7
    <2>3. \A k \in 1 .. Len(s) : f[k] = g[k]
      BY <1>1, <1>3, <1>5, <2>1, <2>2, FlatUnique
    <2>4. g[Len(s) + 1] = g[Len(s)] \o t[Len(s) + 1]
      BY <1>1, <1>5, <1>7, <2>2, BuiltStep
    <2>5. QED
      BY <1>2, <1>3, <1>4, <1>5, <2>1, <2>2, <2>3, <2>4
  <1>8. QED
    BY <1>6, <1>7

(* The elements of the first sequence of the list come first.               *)
LEMMA FlattenTail ==
  ASSUME NEW s, AreSeqs(s), s # <<>>
  PROVE  /\ FlattenSeq(s) = Head(s) \o FlattenSeq(Tail(s))
         /\ AreSeqs(Tail(s)) /\ IsSeq(Head(s))
  <1>1. IsSeq(s) /\ Len(s) \in Nat /\ Len(s) # 0
    BY LengthFacts DEF AreSeqs
  <1>2. PICK t : t = Tail(s)
    OBVIOUS
  <1>3. /\ IsSeq(t) /\ Len(t) = Len(s) - 1 /\ Len(t) \in Nat /\ Head(s) = s[1]
        /\ \A k \in 1 .. Len(s) - 1 : t[k] = s[k + 1]
    <2>1. PICK S : s \in Seq(S)
      BY <1>1 DEF IsSeq
    <2>2. Tail(s) \in Seq(S)
      BY <2>1
    <2>3. QED
      BY <1>1, <1>2, <2>1, <2>2 DEF IsSeq
  <1>4. AreSeqs(t) /\ IsSeq(s[1])
    <2>1. ASSUME NEW k \in 1 .. Len(t) PROVE IsSeq(t[k])
      <3>1. k + 1 \in 1 .. Len(s) /\ k \in 1 .. Len(s) - 1
        BY <1>1, <1>3
      <3>2. QED
        BY <1>3, <3>1 DEF AreSeqs
    <2>2. 1 \in 1 .. Len(s)
      BY <1>1
    <2>3. QED
      BY <1>3, <2>1, <2>2 DEF AreSeqs
  <1>5. PICK f : Built(f, s, Len(s)) /\ FlattenSeq(s) = f[Len(s)]
    BY <1>1, FlattenIs
  <1>6. f[1] = s[1]
    <2>1. 1 \in 1 .. Len(s)
      BY <1>1
    <2>2. QED
      BY <1>5, <2>1 DEF Built
  <1>7. CASE Len(t) = 0
    <2>1. t = <<>> /\ Len(s) = 1
      BY <1>1, <1>3, <1>7, LengthFacts
    <2>2. s[1] \o <<>> = s[1]
      BY <1>4, ConcatFacts
    <2>3. QED
      BY <1>2, <1>3, <1>4, <1>5, <1>6, <2>1, <2>2, FlattenEmpty
  <1>8. CASE Len(t) # 0
    <2>1. PICK g : Built(g, t, Len(t)) /\ FlattenSeq(t) = g[Len(t)]
      BY <1>3, <1>8, FlattenIs
    <2>2. \A i \in 1 .. Len(t) : IsSeq(g[i])
      BY <1>3, <1>4, <2>1, BuiltAreSeqs DEF AreSeqs
    <2> DEFINE Good(k) == f[k + 1] = s[1] \o g[k]
               Bad == {k \in 1 .. Len(t) : ~ Good(k)}
    <2> HIDE DEF Good
    <2>3. CASE Bad # {}
      <3>1. Bad \subseteq Nat
        BY <1>3
      <3>2. PICK k \in Bad : \A j \in Bad : k <= j
        BY <2>3, <3>1, LeastNatural
      <3>3. k \in 1 .. Len(t) /\ f[k + 1] # s[1] \o g[k]
        BY DEF Good
      <3>4. k + 1 \in 1 .. Len(s) /\ k + 1 # 1 /\ k + 1 - 1 = k /\ t[k] = s[k + 1]
        BY <1>1, <1>3, <3>3
      <3>5. f[k + 1] = f[k] \o s[k + 1]
        <4>1. k \in Nat /\ k # 0
          BY <3>3
        <4>2. QED
          BY <1>1, <1>5, <3>4, <4>1, BuiltStep
      <3>6. CASE k = 1
        <4>1. g[k] = t[k]
          BY <2>1, <3>3, <3>6 DEF Built
        <4>2. QED
          BY <1>6, <3>3, <3>4, <3>5, <3>6, <4>1
      <3>7. CASE k # 1
        <4>1. k - 1 \in 1 .. Len(t) /\ k - 1 < k /\ k - 1 + 1 = k
          BY <1>3, <3>3, <3>7
        <4>2. f[k] = s[1] \o g[k - 1]
          <5>1. k - 1 \in Bad => k <= k - 1
            BY <3>2
          <5>2. Good(k - 1)
            BY <4>1, <5>1
          <5>3. QED
            BY <4>1, <5>2 DEF Good
        <4>3. g[k] = g[k - 1] \o t[k]
          BY <2>1, <3>3, <3>7 DEF Built
        <4>4. IsSeq(g[k - 1]) /\ IsSeq(t[k])
          BY <1>4, <2>2, <3>3, <4>1 DEF AreSeqs
        <4>5. (s[1] \o g[k - 1]) \o t[k] = s[1] \o (g[k - 1] \o t[k])
          <5>1. PICK u, v, w : u = s[1] /\ v = g[k - 1] /\ w = t[k]
            OBVIOUS
          <5>2. IsSeq(u) /\ IsSeq(v) /\ IsSeq(w)
            BY <1>4, <4>4, <5>1
          <5>3. (u \o v) \o w = u \o (v \o w)
            BY <5>2, ConcatFacts
          <5>4. QED
            BY <5>1, <5>3
        <4>6. QED
          BY <3>3, <3>4, <3>5, <4>2, <4>3, <4>5
      <3>8. QED
        BY <3>6, <3>7
    <2>4. CASE Bad = {}
      <3>1. Len(t) \in 1 .. Len(t) /\ Len(t) + 1 = Len(s)
        BY <1>1, <1>3, <1>8
      <3>2. f[Len(t) + 1] = s[1] \o g[Len(t)]
        BY <2>4, <3>1 DEF Good
      <3>3. QED
        BY <1>2, <1>3, <1>4, <1>5, <2>1, <3>1, <3>2
    <2>5. QED
      BY <2>3, <2>4
  <1>9. QED
    BY <1>7, <1>8

(* A sequence is a function on 1 .. Len(s).                                 *)
LEMMA SeqDomain ==
  ASSUME NEW s, IsSeq(s)
  PROVE  DOMAIN s = 1 .. Len(s) /\ Len(s) \in Nat /\ s = [k \in 1 .. Len(s) |-> s[k]]
  <1>1. PICK S : s \in Seq(S)
    BY DEF IsSeq
  <1>2. QED
    BY <1>1

(* A function on 1 .. n is a sequence of length n.                          *)
LEMMA IsSeqOf ==
  ASSUME NEW n \in Nat, NEW f, DOMAIN f = 1 .. n, f = [k \in 1 .. n |-> f[k]]
  PROVE  IsSeq(f) /\ Len(f) = n
  <1>1. PICK S : S = {f[k] : k \in 1 .. n}
    OBVIOUS
  <1>2. f \in [1 .. n -> S]
    BY <1>1
  <1>3. f \in Seq(S) /\ Len(f) = n
    BY <1>2
  <1>4. QED
    BY <1>3 DEF IsSeq

(* Sequences of one length that agree everywhere are equal.                 *)
LEMMA SameSeq ==
  ASSUME NEW s, NEW t, IsSeq(s), IsSeq(t), Len(s) = Len(t), \A k \in 1 .. Len(s) : s[k] = t[k]
  PROVE  s = t
  <1>1. PICK n : n = Len(s)
    OBVIOUS
  <1>2. s = [k \in 1 .. n |-> s[k]] /\ t = [k \in 1 .. n |-> t[k]]
    BY <1>1, SeqDomain
  <1>3. \A k \in 1 .. n : s[k] = t[k]
    BY <1>1
  <1>4. QED
    BY <1>2, <1>3

(* Concatenation, as an operator that the provers need not look into.       *)
Cat(a, b) == a \o b

(* Cat of sequences is a sequence.                                          *)
LEMMA CatSeq ==
  ASSUME NEW a, NEW b, IsSeq(a), IsSeq(b)
  PROVE  IsSeq(Cat(a, b))
  BY ConcatFacts, EmptyFacts DEF Cat

(* Brackets do not matter to Cat.                                           *)
LEMMA CatAssoc ==
  ASSUME NEW a, NEW b, NEW c, IsSeq(a), IsSeq(b), IsSeq(c)
  PROVE  Cat(Cat(a, b), c) = Cat(a, Cat(b, c))
  BY ConcatFacts DEF Cat

(* The empty sequence is the unit of Cat.                                   *)
LEMMA CatEmpty ==
  ASSUME NEW a, IsSeq(a)
  PROVE  Cat(<<>>, a) = a /\ Cat(a, <<>>) = a
  BY ConcatFacts DEF Cat

(* The elements of a concatenation are those of its parts.                  *)
LEMMA CatElements ==
  ASSUME NEW a, NEW b, IsSeq(a), IsSeq(b)
  PROVE  /\ Len(a) \in Nat /\ Len(b) \in Nat /\ Len(Cat(a, b)) = Len(a) + Len(b)
         /\ \A k \in 1 .. Len(a) : Cat(a, b)[k] = a[k]
         /\ \A k \in 1 .. Len(b) : Cat(a, b)[Len(a) + k] = b[k]
  <1>1. PICK A, B : a \in Seq(A) /\ b \in Seq(B)
    BY DEF IsSeq
  <1>2. PICK S : S = A \cup B
    OBVIOUS
  <1>3. a \in Seq(S) /\ b \in Seq(S)
    BY <1>1, <1>2
  <1>4. QED
    BY <1>3 DEF Cat

(* What is appended to a concatenation is appended to its second part.      *)
LEMMA CatAppend ==
  ASSUME NEW a, NEW b, NEW x, IsSeq(a), IsSeq(b)
  PROVE  Append(Cat(a, b), x) = Cat(a, Append(b, x))
  BY ConcatFacts DEF Cat

(* The head is taken from the first part while it has elements.             *)
LEMMA CatHead ==
  ASSUME NEW a, NEW b, IsSeq(a), IsSeq(b), a # <<>>
  PROVE  /\ Cat(a, b) # <<>> /\ Head(Cat(a, b)) = Head(a)
         /\ Tail(Cat(a, b)) = Cat(Tail(a), b)
  BY ConcatFacts DEF Cat
=============================================================================
