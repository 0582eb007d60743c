------------------------ MODULE BatchProtocol_proofs ------------------------
(* Proofs of BatchProtocol: the client gives up no healthy worker, the     *)
(* protocol implements GroupService, and no cancel with room is lost.      *)
EXTENDS BatchProtocol, SequenceTheorems, FiniteSetTheorems, WellFoundedInduction, TLAPS

-----------------------------------------------------------------------------
(* Facts about sequences *)

\* A cut of a sequence splits its length.
LEMMA CutType ==
  ASSUME NEW S, NEW q \in Seq(S), NEW k \in 0..Len(q)
  PROVE  /\ SubSeq(q, 1, k) \in Seq(S) /\ Len(SubSeq(q, 1, k)) = k
         /\ SubSeq(q, k + 1, Len(q)) \in Seq(S)
         /\ Len(SubSeq(q, k + 1, Len(q))) = Len(q) - k
<1>1. \A i \in 1..Len(q) : q[i] \in S
  OBVIOUS
<1>2. SubSeq(q, 1, k) \in Seq(S) /\ Len(SubSeq(q, 1, k)) = k
  BY <1>1, SubSeqProperties
<1>3. /\ SubSeq(q, k + 1, Len(q)) \in Seq(S)
      /\ Len(SubSeq(q, k + 1, Len(q))) = Len(q) - k
  BY <1>1, SubSeqProperties
<1> QED
  BY <1>2, <1>3

\* An element of a sequence is at one of its places.
LEMMA PlacesLine ==
  ASSUME NEW S, NEW q \in Seq(S)
  PROVE  /\ Elements(q) \subseteq S
         /\ \A x : x \in Elements(q) <=> \E i \in 1..Len(q) : q[i] = x
         /\ IsInjective(q) <=> \A i, j \in 1..Len(q) : q[i] = q[j] => i = j
         /\ q = <<>> <=> Elements(q) = {}
<1>1. DOMAIN q = 1..Len(q) /\ Len(q) \in Nat /\ \A i \in 1..Len(q) : q[i] \in S
  OBVIOUS
<1>2. \A x : x \in Elements(q) <=> \E i \in 1..Len(q) : q[i] = x
  BY <1>1 DEF Elements, ToSet
<1>3. IsInjective(q) <=> \A i, j \in 1..Len(q) : q[i] = q[j] => i = j
  BY <1>1, Zenon DEF IsInjective
<1>4. Elements(q) \subseteq S
  BY <1>1, <1>2
<1>5. ASSUME q # <<>> PROVE Elements(q) # {}
  <2>1. 1 \in 1..Len(q)
    BY <1>1, <1>5, EmptySeq
  <2>2. q[1] \in Elements(q)
    BY <1>2, <2>1
  <2> QED
    BY <2>2
<1>6. ASSUME q = <<>> PROVE Elements(q) = {}
  BY <1>2, <1>6
<1> QED
  BY <1>2, <1>3, <1>4, <1>5, <1>6

\* Taking the first element off.
LEMMA TailLine ==
  ASSUME NEW S, NEW q \in Seq(S), q # <<>>
  PROVE  /\ Tail(q) \in Seq(S) /\ Head(q) \in Elements(q) /\ Len(Tail(q)) = Len(q) - 1
         /\ Elements(q) = {Head(q)} \cup Elements(Tail(q))
         /\ IsInjective(q) => IsInjective(Tail(q)) /\ Head(q) \notin Elements(Tail(q))
<1> DEFINE t == Tail(q)
<1>1. /\ t \in Seq(S) /\ Len(t) = Len(q) - 1 /\ Len(q) \in Nat /\ Len(q) > 0
      /\ \A i \in 1..Len(t) : t[i] = q[i + 1] /\ i + 1 \in 1..Len(q)
      /\ Head(q) = q[1]
  BY HeadTailProperties
<1> HIDE DEF t
<1>2. \A j \in 1..Len(q) : j = 1 \/ \E i \in 1..Len(t) : j = i + 1
  <2>1. ASSUME NEW j \in 1..Len(q), j # 1 PROVE j - 1 \in 1..Len(t) /\ j = (j - 1) + 1
    BY <1>1, <2>1
  <2> QED
    BY <2>1
<1>3. \A x : x \in Elements(q) <=> \E i \in 1..Len(q) : q[i] = x
  BY PlacesLine
<1>4. \A x : x \in Elements(t) <=> \E i \in 1..Len(t) : t[i] = x
  BY <1>1, PlacesLine
<1>5. Head(q) \in Elements(q)
  BY <1>1, <1>3
<1>6. \A x : x \in Elements(t) => x \in Elements(q)
  BY <1>1, <1>3, <1>4
<1>7. \A x : x \in Elements(q) => x = Head(q) \/ x \in Elements(t)
  <2> SUFFICES ASSUME NEW x \in Elements(q), x # Head(q) PROVE x \in Elements(t)
    OBVIOUS
  <2>1. PICK j \in 1..Len(q) : q[j] = x
    BY <1>3
  <2>2. PICK i \in 1..Len(t) : j = i + 1
    BY <1>1, <1>2, <2>1
  <2> QED
    BY <1>1, <1>4, <2>1, <2>2
<1>8. ASSUME IsInjective(q) PROVE IsInjective(t) /\ Head(q) \notin Elements(t)
  <2>1. \A i, j \in 1..Len(q) : q[i] = q[j] => i = j
    BY <1>8, PlacesLine
  <2>2. \A i, j \in 1..Len(t) : t[i] = t[j] => i = j
    <3> SUFFICES ASSUME NEW i \in 1..Len(t), NEW j \in 1..Len(t), t[i] = t[j] PROVE i = j
      OBVIOUS
    <3>1. i + 1 = j + 1
      BY <1>1, <2>1
    <3> QED
      BY <1>1, <3>1
  <2>3. \A i \in 1..Len(t) : t[i] # Head(q)
    <3> SUFFICES ASSUME NEW i \in 1..Len(t), t[i] = Head(q) PROVE FALSE
      OBVIOUS
    <3>1. i + 1 = 1
      BY <1>1, <2>1
    <3> QED
      BY <1>1, <3>1
  <2> QED
    BY <1>1, <1>4, <2>2, <2>3, PlacesLine
<1>9. Elements(q) = {Head(q)} \cup Elements(t)
  BY <1>5, <1>6, <1>7
<1> QED
  BY <1>1, <1>5, <1>8, <1>9 DEF t

\* Adding an element at the end.
LEMMA AppendLine ==
  ASSUME NEW S, NEW q \in Seq(S), NEW x \in S
  PROVE  /\ Append(q, x) \in Seq(S) /\ Elements(Append(q, x)) = Elements(q) \cup {x}
         /\ Len(Append(q, x)) = Len(q) + 1
         /\ IsInjective(q) /\ x \notin Elements(q) => IsInjective(Append(q, x))
<1> DEFINE t == Append(q, x)
<1>1. /\ t \in Seq(S) /\ Len(t) = Len(q) + 1 /\ Len(q) \in Nat
      /\ t[Len(q) + 1] = x /\ \A i \in 1..Len(q) : t[i] = q[i]
  OBVIOUS
<1> HIDE DEF t
<1>2. \A y : y \in Elements(q) <=> \E i \in 1..Len(q) : q[i] = y
  BY PlacesLine
<1>3. \A y : y \in Elements(t) <=> \E i \in 1..Len(q) + 1 : t[i] = y
  BY <1>1, PlacesLine
<1>4. Elements(t) = Elements(q) \cup {x}
  BY <1>1, <1>2, <1>3
<1>5. ASSUME IsInjective(q), x \notin Elements(q) PROVE IsInjective(t)
  <2>1. \A i, j \in 1..Len(q) : q[i] = q[j] => i = j
    BY <1>5, PlacesLine
  <2>2. \A i, j \in 1..Len(t) : t[i] = t[j] => i = j
    BY <1>1, <1>2, <1>5, <2>1
  <2> QED
    BY <1>1, <2>2, PlacesLine
<1> QED
  BY <1>1, <1>4, <1>5 DEF t

\* Putting one sequence before another.
LEMMA ConcatLine ==
  ASSUME NEW S, NEW q \in Seq(S), NEW t \in Seq(S)
  PROVE  /\ q \o t \in Seq(S) /\ Elements(q \o t) = Elements(q) \cup Elements(t)
         /\ IsInjective(q \o t) <=>
              IsInjective(q) /\ IsInjective(t) /\ Elements(q) \cap Elements(t) = {}
<1> DEFINE c == q \o t
           m == Len(q)
           n == Len(t)
<1>1. c \in Seq(S) /\ Len(c) = m + n /\ m \in Nat /\ n \in Nat
  BY ConcatProperties
<1>2. \A k \in 1..m + n : c[k] = IF k <= m THEN q[k] ELSE t[k - m]
  BY ConcatProperties
<1>3. \A k \in 1..m : c[k] = q[k]
  BY <1>1, <1>2
<1>4. \A k \in 1..n : c[m + k] = t[k] /\ m + k \in 1..m + n
  <2>1. ASSUME NEW k \in 1..n PROVE m + k \in 1..m + n /\ ~(m + k <= m) /\ m + k - m = k
    BY <1>1
  <2> QED
    BY <1>2, <2>1
<1> HIDE DEF c
<1>5. \A k \in 1..m + n : k \in 1..m \/ \E l \in 1..n : k = m + l
  <2>1. ASSUME NEW k \in 1..m + n, k \notin 1..m PROVE k - m \in 1..n /\ k = m + (k - m)
    BY <1>1, <2>1
  <2> QED
    BY <2>1
<1> HIDE DEF m, n
<1>6. \A x : x \in Elements(q) <=> \E i \in 1..m : q[i] = x
  BY PlacesLine DEF m
<1>7. \A x : x \in Elements(t) <=> \E i \in 1..n : t[i] = x
  BY PlacesLine DEF n
<1>8. \A x : x \in Elements(c) <=> \E i \in 1..m + n : c[i] = x
  BY <1>1, PlacesLine
<1>9. Elements(c) = Elements(q) \cup Elements(t)
  <2>1. \A x : x \in Elements(q) => x \in Elements(c)
    BY <1>1, <1>3, <1>6, <1>8
  <2>2. \A x : x \in Elements(t) => x \in Elements(c)
    BY <1>4, <1>7, <1>8
  <2>3. \A x : x \in Elements(c) => x \in Elements(q) \/ x \in Elements(t)
    BY <1>3, <1>4, <1>5, <1>6, <1>7, <1>8
  <2> QED
    BY <2>1, <2>2, <2>3
<1>10. ASSUME IsInjective(c) PROVE IsInjective(q) /\ IsInjective(t) /\ Elements(q) \cap Elements(t) = {}
  <2>1. \A i, j \in 1..m + n : c[i] = c[j] => i = j
    BY <1>1, <1>10, PlacesLine
  <2>2. \A i, j \in 1..m : q[i] = q[j] => i = j
    BY <1>1, <1>3, <2>1
  <2>3. \A i, j \in 1..n : t[i] = t[j] => i = j
    <3> SUFFICES ASSUME NEW i \in 1..n, NEW j \in 1..n, t[i] = t[j] PROVE i = j
      OBVIOUS
    <3>1. m + i = m + j
      BY <1>4, <2>1
    <3> QED
      BY <1>1, <3>1
  <2>4. ASSUME NEW i \in 1..m, NEW j \in 1..n PROVE q[i] # t[j]
    <3>1. c[i] = q[i] /\ c[m + j] = t[j] /\ i \in 1..m + n /\ m + j \in 1..m + n /\ i # m + j
      BY <1>1, <1>3, <1>4
    <3> QED
      BY <3>1, <2>1
  <2>5. IsInjective(q)
    BY <2>2, PlacesLine DEF m
  <2>6. IsInjective(t)
    BY <2>3, PlacesLine DEF n
  <2> QED
    BY <2>4, <2>5, <2>6, <1>6, <1>7
<1>11. ASSUME IsInjective(q), IsInjective(t), Elements(q) \cap Elements(t) = {} PROVE IsInjective(c)
  <2>1. \A i, j \in 1..m : q[i] = q[j] => i = j
    BY <1>11, PlacesLine DEF m
  <2>2. \A i, j \in 1..n : t[i] = t[j] => i = j
    BY <1>11, PlacesLine DEF n
  <2>3. \A i \in 1..m, j \in 1..n : q[i] # t[j]
    BY <1>6, <1>7, <1>11
  <2>4. ASSUME NEW i \in 1..m + n, NEW j \in 1..m + n, c[i] = c[j] PROVE i = j
    <3>1. CASE i \in 1..m /\ j \in 1..m
      BY <3>1, <1>3, <2>1, <2>4
    <3>2. CASE i \in 1..m /\ \E l \in 1..n : j = m + l
      BY <3>2, <1>3, <1>4, <2>3, <2>4
    <3>3. CASE j \in 1..m /\ \E l \in 1..n : i = m + l
      BY <3>3, <1>3, <1>4, <2>3, <2>4
    <3>4. CASE (\E l \in 1..n : i = m + l) /\ \E l \in 1..n : j = m + l
      BY <3>4, <1>4, <2>2, <2>4
    <3> QED
      BY <3>1, <3>2, <3>3, <3>4, <1>5
  <2> QED
    BY <1>1, <2>4, PlacesLine
<1> QED
  BY <1>1, <1>9, <1>10, <1>11 DEF c

\* Cutting a sequence in two.
LEMMA CutLine ==
  ASSUME NEW S, NEW q \in Seq(S), NEW k \in 0..Len(q)
  PROVE  LET a == SubSeq(q, 1, k)  b == SubSeq(q, k + 1, Len(q)) IN
         /\ a \in Seq(S) /\ b \in Seq(S) /\ q = a \o b
         /\ Len(a) = k /\ Len(b) = Len(q) - k
         /\ Elements(q) = Elements(a) \cup Elements(b)
         /\ IsInjective(q) => IsInjective(a) /\ IsInjective(b) /\ Elements(a) \cap Elements(b) = {}
<1> DEFINE a == SubSeq(q, 1, k)
           b == SubSeq(q, k + 1, Len(q))
<1>1. a \in Seq(S) /\ b \in Seq(S) /\ Len(a) = k /\ Len(b) = Len(q) - k
  BY CutType
<1>2. a \o b = q
  <2>1. 1 \in 1..Len(q) + 1 /\ k \in 1 - 1..Len(q) /\ Len(q) \in k..Len(q)
    OBVIOUS
  <2>2. SubSeq(q, 1, k) \o SubSeq(q, k + 1, Len(q)) = SubSeq(q, 1, Len(q))
    BY ONLY <2>1, ConcatAdjacentSubSeq, q \in Seq(S)
  <2> QED
    BY <2>2, SubSeqFull
<1> HIDE DEF a, b
<1>3. /\ q = a \o b /\ Elements(q) = Elements(a) \cup Elements(b)
      /\ IsInjective(q) => IsInjective(a) /\ IsInjective(b) /\ Elements(a) \cap Elements(b) = {}
  <2>1. /\ Elements(a \o b) = Elements(a) \cup Elements(b)
        /\ IsInjective(a \o b) <=> IsInjective(a) /\ IsInjective(b) /\ Elements(a) \cap Elements(b) = {}
    BY <1>1, ConcatLine
  <2> QED
    BY <1>2, <2>1
<1> QED
  BY <1>1, <1>3 DEF a, b

\* A set that holds 0 and each successor holds every number.
LEMMA AllNumbers ==
  ASSUME NEW C \in SUBSET Nat, 0 \in C, \A n \in C : n + 1 \in C
  PROVE  C = Nat
<1> DEFINE R == {q \in Nat \X Nat : q[1] < q[2]}
<1>1. SUFFICES ASSUME C # Nat PROVE FALSE
  OBVIOUS
<1>2. IsWellFoundedOn(R, Nat)
  <2>1. IsWellFoundedOn(OpToRel(<, Nat), Nat)
    BY NatLessThanWellFounded
  <2>2. OpToRel(<, Nat) = R
    BY DEF OpToRel
  <2> QED
    BY <2>1, <2>2
<1>3. Nat \ C # {} /\ Nat \ C \subseteq Nat
  BY <1>1
<1>4. PICK n \in Nat \ C : \A m \in Nat \ C : ~ (<<m, n>> \in R)
  <2> HIDE DEF R
  <2> QED
    BY <1>2, <1>3, WFMin
<1>5. n # 0 /\ n - 1 \in Nat /\ (n - 1) + 1 = n
  OBVIOUS
<1>6. n - 1 \notin C
  BY <1>5
<1>7. <<n - 1, n>> \in R
  BY <1>5
<1> QED
  BY <1>4, <1>5, <1>6, <1>7

-----------------------------------------------------------------------------
(* What FlattenSeq gives.  The library defines it by recursion.                *)

\* The turn of the recursion of FlattenSeq.
Turn(ss, h, i) == IF i = 1 THEN ss[i] ELSE h[i - 1] \o ss[i]

Flat(ss) == CHOOSE h : h = [i \in 1..Len(ss) |-> Turn(ss, h, i)]

\* FlattenSeq is the last value of the recursion's solution.
LEMMA FlatChoice ==
  ASSUME NEW ss
  PROVE  FlattenSeq(ss) = IF Len(ss) = 0 THEN ss ELSE Flat(ss)[Len(ss)]
BY DEF FlattenSeq, Flat, Turn

\* The recursion has a solution, and its values are sequences.
LEMMA FlatExists ==
  ASSUME NEW S, NEW ss \in Seq(Seq(S))
  PROVE  \E h \in [1..Len(ss) -> Seq(S)] : h = [i \in 1..Len(ss) |-> Turn(ss, h, i)]
<1> DEFINE Has(n) == \E h \in [1..n -> Seq(S)] : \A i \in 1..n : h[i] = Turn(ss, h, i)
           C == {n \in Nat : n <= Len(ss) => Has(n)}
<1>1. Len(ss) \in Nat /\ \A i \in 1..Len(ss) : ss[i] \in Seq(S)
  OBVIOUS
<1>2. 0 \in C
  <2>1. [i \in 1..0 |-> <<>>] \in [1..0 -> Seq(S)] /\ 1..0 = {}
    OBVIOUS
  <2> QED
    BY <2>1
<1>3. ASSUME NEW n \in C PROVE n + 1 \in C
  <2> SUFFICES ASSUME n + 1 <= Len(ss) PROVE Has(n + 1)
    BY n + 1 \in Nat
  <2>0. n \in Nat /\ Has(n)
    <3>1. n \in Nat /\ (n <= Len(ss) => Has(n))
      OBVIOUS
    <3> HIDE DEF Has
    <3> QED
      BY <1>1, <3>1
  <2>1. PICK h \in [1..n -> Seq(S)] : \A i \in 1..n : h[i] = Turn(ss, h, i)
    BY <2>0
  <2> DEFINE g == [i \in 1..n + 1 |-> IF i <= n THEN h[i] ELSE Turn(ss, h, n + 1)]
  <2>2. Turn(ss, h, n + 1) \in Seq(S)
    <3>1. CASE n = 0
      BY <1>1, <3>1 DEF Turn
    <3>2. CASE n # 0
      <4>1. h[n] \in Seq(S) /\ ss[n + 1] \in Seq(S) /\ (n + 1) - 1 = n /\ n + 1 # 1
        BY <1>1, <3>2
      <4>2. h[n] \o ss[n + 1] \in Seq(S)
        BY <4>1, ConcatProperties
      <4> QED
        BY <4>1, <4>2 DEF Turn
    <3> QED
      BY <3>1, <3>2
  <2>3. g \in [1..n + 1 -> Seq(S)]
    BY <2>1, <2>2
  <2>4. ASSUME NEW i \in 1..n + 1 PROVE g[i] = Turn(ss, g, i)
    <3>1. CASE i = 1
      <4>1. g[1] = ss[1]
        <5>1. CASE n = 0
          BY <5>1 DEF Turn
        <5>2. CASE n # 0
          <6>1. 1 \in 1..n /\ 1 \in 1..n + 1 /\ 1 <= n
            BY <2>0, <5>2
          <6> QED
            BY <2>1, <6>1 DEF Turn
        <5> QED
          BY <5>1, <5>2
      <4> HIDE DEF g
      <4> QED
        BY <3>1, <4>1 DEF Turn
    <3>2. CASE i # 1 /\ i <= n
      <4>1. i - 1 \in 1..n /\ i \in 1..n /\ i - 1 \in 1..n + 1 /\ i - 1 <= n
        BY <3>2
      <4> QED
        BY <2>1, <3>2, <4>1 DEF Turn
    <3>3. CASE i # 1 /\ ~(i <= n)
      <4>1. i = n + 1 /\ n \in 1..n + 1 /\ n <= n /\ (n + 1) - 1 = n
        BY <3>3
      <4> QED
        BY <2>1, <3>3, <4>1 DEF Turn
    <3> QED
      BY <3>1, <3>2, <3>3
  <2> HIDE DEF g
  <2> QED
    BY <2>3, <2>4
<1>4. C = Nat
  <2> HIDE DEF C
  <2>1. C \in SUBSET Nat
    BY DEF C
  <2> QED
    BY <1>2, <1>3, <2>1, AllNumbers
<1>5. Has(Len(ss))
  <2>1. Len(ss) \in C
    BY <1>1, <1>4
  <2> QED
    BY <1>1, <2>1
<1>6. PICK h \in [1..Len(ss) -> Seq(S)] : \A i \in 1..Len(ss) : h[i] = Turn(ss, h, i)
  BY <1>5
<1>7. h = [i \in 1..Len(ss) |-> Turn(ss, h, i)]
  BY <1>6
<1> QED
  BY <1>7

\* The solution is a sequence at each place.
LEMMA FlatType ==
  ASSUME NEW S, NEW ss \in Seq(Seq(S))
  PROVE  /\ \A i \in 1..Len(ss) : Flat(ss)[i] \in Seq(S) /\ Flat(ss)[i] = Turn(ss, Flat(ss), i)
         /\ FlattenSeq(ss) \in Seq(S)
<1>1. Len(ss) \in Nat /\ \A i \in 1..Len(ss) : ss[i] \in Seq(S)
  OBVIOUS
<1>2. Flat(ss) = [i \in 1..Len(ss) |-> Turn(ss, Flat(ss), i)]
  <2>1. \E h : h = [i \in 1..Len(ss) |-> Turn(ss, h, i)]
    BY FlatExists
  <2> QED
    BY <2>1 DEF Flat
<1> DEFINE f == Flat(ss)
<1> HIDE DEF f
<1>3. \A i \in 1..Len(ss) : f[i] = Turn(ss, f, i)
  BY <1>2 DEF f
<1> DEFINE C == {n \in Nat : n + 1 <= Len(ss) => f[n + 1] \in Seq(S)}
<1>4. 0 \in C
  BY <1>1, <1>3 DEF Turn
<1>5. ASSUME NEW n \in C PROVE n + 1 \in C
  <2> SUFFICES ASSUME (n + 1) + 1 <= Len(ss) PROVE f[(n + 1) + 1] \in Seq(S)
    BY n + 1 \in Nat
  <2> DEFINE i == (n + 1) + 1
  <2>1. i \in 1..Len(ss) /\ i # 1 /\ i - 1 = n + 1 /\ n + 1 <= Len(ss)
    BY <1>1
  <2>2. f[i - 1] \in Seq(S) /\ ss[i] \in Seq(S)
    BY <1>1, <2>1
  <2> HIDE DEF i
  <2>3. f[i] = f[i - 1] \o ss[i]
    BY <1>3, <2>1 DEF Turn
  <2>4. f[i] \in Seq(S)
    BY <2>2, <2>3, ConcatProperties
  <2> QED
    BY <2>4 DEF i
<1>6. C = Nat
  <2> HIDE DEF C
  <2>1. C \in SUBSET Nat
    BY DEF C
  <2> QED
    BY <1>4, <1>5, <2>1, AllNumbers
<1>7. \A i \in 1..Len(ss) : f[i] \in Seq(S)
  <2> SUFFICES ASSUME NEW i \in 1..Len(ss) PROVE f[i] \in Seq(S)
    OBVIOUS
  <2>1. i - 1 \in Nat /\ (i - 1) + 1 = i /\ i <= Len(ss)
    BY <1>1
  <2>2. i - 1 \in C
    <3> HIDE DEF C
    <3> QED
      BY <1>6, <2>1
  <2> QED
    BY <2>1, <2>2
<1>8. FlattenSeq(ss) \in Seq(S)
  <2>1. CASE Len(ss) = 0
    <3>1. FlattenSeq(ss) = ss /\ ss = <<>>
      BY <2>1, FlatChoice
    <3> QED
      BY <3>1
  <2>2. CASE Len(ss) # 0
    <3>1. FlattenSeq(ss) = f[Len(ss)] /\ Len(ss) \in 1..Len(ss)
      BY <1>1, <2>2, FlatChoice DEF f
    <3> QED
      BY <1>7, <3>1
  <2> QED
    BY <2>1, <2>2
<1> QED
  BY <1>3, <1>7, <1>8 DEF f

\* No sequences flatten to the empty one.
LEMMA FlatEmpty == FlattenSeq(<<>>) = <<>>
BY FlatChoice

\* One sequence more at the end.
LEMMA FlatAppend ==
  ASSUME NEW S, NEW ss \in Seq(Seq(S)), NEW s \in Seq(S)
  PROVE  FlattenSeq(Append(ss, s)) = FlattenSeq(ss) \o s
<1> DEFINE tt == Append(ss, s)
           f == Flat(ss)
           g == Flat(tt)
           m == Len(ss)
<1>1. /\ m \in Nat /\ tt \in Seq(Seq(S)) /\ Len(tt) = m + 1
      /\ tt[m + 1] = s /\ \A i \in 1..m : tt[i] = ss[i]
  BY AppendProperties
<1> HIDE DEF tt, f, g
<1>2. \A i \in 1..m : f[i] = Turn(ss, f, i)
  BY FlatType DEF f
<1>3. \A i \in 1..m + 1 : g[i] = Turn(tt, g, i) /\ g[i] \in Seq(S)
  BY <1>1, FlatType DEF g
<1> HIDE DEF m
<1> DEFINE C == {n \in Nat : n + 1 <= m => f[n + 1] = g[n + 1]}
<1>4. 0 \in C
  <2> SUFFICES ASSUME 1 <= m PROVE f[1] = g[1]
    OBVIOUS
  <2>1. 1 \in 1..m /\ 1 \in 1..m + 1
    BY <1>1
  <2> QED
    BY <1>1, <1>2, <1>3, <2>1 DEF Turn
<1>5. ASSUME NEW n \in C PROVE n + 1 \in C
  <2> SUFFICES ASSUME (n + 1) + 1 <= m PROVE f[(n + 1) + 1] = g[(n + 1) + 1]
    BY n + 1 \in Nat
  <2> DEFINE i == (n + 1) + 1
  <2>1. i \in 1..m /\ i \in 1..m + 1 /\ i # 1 /\ i - 1 = n + 1 /\ n + 1 <= m
    BY <1>1
  <2>2. f[i - 1] = g[i - 1]
    BY <2>1
  <2> HIDE DEF i
  <2>3. f[i] = g[i]
    BY <1>1, <1>2, <1>3, <2>1, <2>2 DEF Turn
  <2> QED
    BY <2>3 DEF i
<1>6. C = Nat
  <2> HIDE DEF C
  <2>1. C \in SUBSET Nat
    BY DEF C
  <2> QED
    BY <1>4, <1>5, <2>1, AllNumbers
<1>7. FlattenSeq(tt) = g[m + 1]
  BY <1>1, FlatChoice DEF g
<1>8. CASE m = 0
  <2>1. ss = <<>> /\ FlattenSeq(ss) = <<>>
    BY <1>8, FlatEmpty DEF m
  <2>2. g[m + 1] = s
    BY <1>1, <1>3, <1>8 DEF Turn
  <2> QED
    BY <1>7, <2>1, <2>2, ConcatEmptySeq DEF tt
<1>9. CASE m # 0
  <2>1. FlattenSeq(ss) = f[m]
    BY <1>9, FlatChoice DEF m, f
  <2>2. m - 1 \in Nat /\ (m - 1) + 1 = m
    BY <1>1, <1>9
  <2>3. f[m] = g[m]
    <3>1. m - 1 \in C
      <4> HIDE DEF C
      <4> QED
        BY <1>6, <2>2
    <3> QED
      BY <1>1, <2>2, <3>1
  <2>4. g[m + 1] = g[m] \o s
    <3>1. m + 1 \in 1..m + 1 /\ m + 1 # 1 /\ (m + 1) - 1 = m
      BY <1>1, <1>9
    <3> QED
      BY <1>1, <1>3, <3>1 DEF Turn
  <2> QED
    BY <1>7, <2>1, <2>3, <2>4 DEF tt
<1> QED
  BY <1>8, <1>9

\* What holds of the empty sequence and is kept by one element more holds of all.
LEMMA AllSequences ==
  ASSUME NEW S, NEW C \in SUBSET Seq(S), <<>> \in C,
         \A s \in C : \A x \in S : Append(s, x) \in C
  PROVE  C = Seq(S)
<1> DEFINE D == {n \in Nat : \A s \in Seq(S) : Len(s) = n => s \in C}
<1>1. 0 \in D
  <2>1. \A s \in Seq(S) : Len(s) = 0 => s = <<>>
    OBVIOUS
  <2> QED
    BY <2>1
<1>2. ASSUME NEW n \in D PROVE n + 1 \in D
  <2> SUFFICES ASSUME NEW s \in Seq(S), Len(s) = n + 1 PROVE s \in C
    BY n + 1 \in Nat
  <2>1. s # <<>> /\ n \in Nat
    OBVIOUS
  <2>2. PICK t \in Seq(S), x \in S : s = Append(t, x)
    BY <2>1, SequenceEmptyOrAppend
  <2>3. Len(t) = n
    BY <2>1, <2>2
  <2> QED
    BY <2>2, <2>3
<1>3. D = Nat
  <2> HIDE DEF D
  <2>1. D \in SUBSET Nat
    BY DEF D
  <2> QED
    BY <1>1, <1>2, <2>1, AllNumbers
<1>4. ASSUME NEW s \in Seq(S) PROVE s \in C
  <2>1. Len(s) \in D
    BY <1>3
  <2> QED
    BY <2>1
<1> QED
  BY <1>4

\* Putting something at the end of what is put at the end.
LEMMA ConcatAppend ==
  ASSUME NEW S, NEW s \in Seq(S), NEW t \in Seq(S), NEW x \in S
  PROVE  s \o Append(t, x) = Append(s \o t, x)
<1>1. Append(t, x) = t \o <<x>> /\ Append(s \o t, x) = (s \o t) \o <<x>>
  BY AppendIsConcat, ConcatProperties
<1>2. (s \o t) \o <<x>> = s \o (t \o <<x>>)
  BY ConcatAssociative
<1> QED
  BY <1>1, <1>2

\* Flattening one sequence after another.
LEMMA FlatConcat ==
  ASSUME NEW S, NEW ss \in Seq(Seq(S)), NEW tt \in Seq(Seq(S))
  PROVE  FlattenSeq(ss \o tt) = FlattenSeq(ss) \o FlattenSeq(tt)
<1> DEFINE C == {u \in Seq(Seq(S)) : FlattenSeq(ss \o u) = FlattenSeq(ss) \o FlattenSeq(u)}
<1>1. <<>> \in C
  BY FlatEmpty, FlatType, ConcatEmptySeq
<1>2. ASSUME NEW u \in C, NEW x \in Seq(S) PROVE Append(u, x) \in C
  <2>1. u \in Seq(Seq(S)) /\ Append(u, x) \in Seq(Seq(S)) /\ ss \o u \in Seq(Seq(S))
    OBVIOUS
  <2> HIDE DEF C
  <2>2. ss \o Append(u, x) = Append(ss \o u, x)
    BY <2>1, ConcatAppend
  <2>3. FlattenSeq(ss \o Append(u, x)) = FlattenSeq(ss \o u) \o x
    BY <2>1, <2>2, FlatAppend
  <2>4. FlattenSeq(Append(u, x)) = FlattenSeq(u) \o x
    BY <2>1, FlatAppend
  <2>5. FlattenSeq(ss) \in Seq(S) /\ FlattenSeq(u) \in Seq(S)
    BY <2>1, FlatType
  <2>6. (FlattenSeq(ss) \o FlattenSeq(u)) \o x = FlattenSeq(ss) \o (FlattenSeq(u) \o x)
    BY <2>5, ConcatAssociative
  <2>7. FlattenSeq(ss \o u) = FlattenSeq(ss) \o FlattenSeq(u)
    BY DEF C
  <2> QED
    BY <2>1, <2>3, <2>4, <2>6, <2>7 DEF C
<1>3. C = Seq(Seq(S))
  <2> HIDE DEF C
  <2>1. C \in SUBSET Seq(Seq(S))
    BY DEF C
  <2> QED
    BY <1>1, <1>2, <2>1, AllSequences
<1> QED
  BY <1>3

-----------------------------------------------------------------------------
(* What Only keeps *)

\* What Only flattens.
Single(s, S) == [i \in DOMAIN s |-> IF s[i] \in S THEN <<s[i]>> ELSE <<>>]

\* Each element is kept as a sequence of one, or as none.
LEMMA SingleType ==
  ASSUME NEW T, NEW s \in Seq(T), NEW S
  PROVE  Single(s, S) \in Seq(Seq(T)) /\ Len(Single(s, S)) = Len(s)
<1>1. DOMAIN s = 1..Len(s) /\ Len(s) \in Nat /\ \A i \in 1..Len(s) : s[i] \in T
  OBVIOUS
<1>2. Single(s, S) \in [1..Len(s) -> Seq(T)]
  BY <1>1 DEF Single
<1> QED
  BY <1>1, <1>2

\* Of the empty sequence nothing is kept.
LEMMA OnlyEmpty ==
  ASSUME NEW S
  PROVE  Only(<<>>, S) = <<>>
<1>1. Single(<<>>, S) = <<>>
  <2>1. <<>> \in Seq({})
    OBVIOUS
  <2> QED
    <3>1. Single(<<>>, S) \in Seq(Seq({})) /\ Len(Single(<<>>, S)) = Len(<<>>)
      BY <2>1, SingleType
    <3> QED
      BY <3>1
<1> QED
  BY <1>1, FlatEmpty DEF Only, Single

\* What Only keeps of one element more.
LEMMA OnlyAppend ==
  ASSUME NEW T, NEW s \in Seq(T), NEW x \in T, NEW S
  PROVE  Only(Append(s, x), S) = Only(s, S) \o IF x \in S THEN <<x>> ELSE <<>>
<1> DEFINE e == IF x \in S THEN <<x>> ELSE <<>>
           t == Append(s, x)
<1>1. t \in Seq(T) /\ Len(t) = Len(s) + 1 /\ Len(s) \in Nat
      /\ t[Len(s) + 1] = x /\ \A i \in 1..Len(s) : t[i] = s[i]
  BY AppendProperties
<1>2. e \in Seq(T)
  OBVIOUS
<1> HIDE DEF t
<1>3. Single(s, S) \in Seq(Seq(T)) /\ Len(Single(s, S)) = Len(s)
  BY SingleType
<1>4. Single(t, S) \in Seq(Seq(T)) /\ Len(Single(t, S)) = Len(t)
  BY <1>1, SingleType
<1>5. Append(Single(s, S), e) \in Seq(Seq(T)) /\ Len(Append(Single(s, S), e)) = Len(s) + 1
      /\ Append(Single(s, S), e)[Len(s) + 1] = e
      /\ \A i \in 1..Len(s) : Append(Single(s, S), e)[i] = Single(s, S)[i]
  BY <1>2, <1>3, AppendProperties
<1>6. \A i \in 1..Len(t) : Single(t, S)[i] = Append(Single(s, S), e)[i]
  <2>1. DOMAIN t = 1..Len(t) /\ DOMAIN s = 1..Len(s)
    BY <1>1
  <2>2. \A i \in 1..Len(s) : Single(t, S)[i] = Single(s, S)[i]
    BY <1>1, <2>1 DEF Single
  <2>3. Single(t, S)[Len(s) + 1] = e
    BY <1>1, <2>1 DEF Single
  <2> QED
    BY <1>1, <1>5, <2>2, <2>3
<1>7. Single(t, S) = Append(Single(s, S), e)
  BY <1>1, <1>4, <1>5, <1>6, SeqEqual
<1>8. FlattenSeq(Single(t, S)) = FlattenSeq(Single(s, S)) \o e
  BY <1>2, <1>3, <1>7, FlatAppend
<1> QED
  BY <1>8 DEF Only, Single, t

\* Only keeps the order of what it keeps.
LEMMA OnlyLine ==
  ASSUME NEW T, NEW s \in Seq(T), NEW S
  PROVE  /\ Only(s, S) \in Seq(T)
         /\ Elements(Only(s, S)) = Elements(s) \cap S
         /\ IsInjective(s) => IsInjective(Only(s, S))
         /\ Elements(s) \subseteq S => Only(s, S) = s
<1> DEFINE Fine(t) == /\ Only(t, S) \in Seq(T)
                      /\ Elements(Only(t, S)) = Elements(t) \cap S
                      /\ IsInjective(t) => IsInjective(Only(t, S))
                      /\ Elements(t) \subseteq S => Only(t, S) = t
           C == {t \in Seq(T) : Fine(t)}
<1>1. <<>> \in C
  <2>1. Elements(<<>>) = {} /\ <<>> \in Seq(T)
    BY DEF Elements, ToSet
  <2> QED
    BY <2>1, OnlyEmpty
<1>2. ASSUME NEW t \in C, NEW x \in T PROVE Append(t, x) \in C
  <2>1. t \in Seq(T) /\ Fine(t)
    OBVIOUS
  <2>2. /\ Append(t, x) \in Seq(T) /\ Elements(Append(t, x)) = Elements(t) \cup {x}
        /\ Append(t, x) = t \o <<x>>
    BY <2>1, AppendLine, AppendIsConcat
  <2>3. IsInjective(Append(t, x)) => IsInjective(t) /\ x \notin Elements(t)
    <3>1. <<x>> \in Seq(T) /\ Elements(<<x>>) = {x}
      BY DEF Elements, ToSet
    <3>2. IsInjective(t \o <<x>>) <=> IsInjective(t) /\ IsInjective(<<x>>) /\ Elements(t) \cap Elements(<<x>>) = {}
      BY <2>1, <3>1, ConcatLine
    <3> QED
      BY <2>2, <3>1, <3>2
  <2>4. Only(Append(t, x), S) = Only(t, S) \o IF x \in S THEN <<x>> ELSE <<>>
    BY <2>1, OnlyAppend
  <2>5. CASE x \in S
    <3>1. Only(Append(t, x), S) = Append(Only(t, S), x)
      BY <2>1, <2>4, <2>5, AppendIsConcat
    <3>2. /\ Append(Only(t, S), x) \in Seq(T)
          /\ Elements(Append(Only(t, S), x)) = Elements(Only(t, S)) \cup {x}
          /\ IsInjective(Only(t, S)) /\ x \notin Elements(Only(t, S)) => IsInjective(Append(Only(t, S), x))
      BY <2>1, AppendLine
    <3>3. Elements(Append(Only(t, S), x)) = Elements(Append(t, x)) \cap S
      BY <2>1, <2>2, <2>5, <3>2
    <3>4. IsInjective(Append(t, x)) => IsInjective(Append(Only(t, S), x))
      BY <2>1, <2>3, <3>2
    <3>5. Elements(Append(t, x)) \subseteq S => Append(Only(t, S), x) = Append(t, x)
      BY <2>1, <2>2
    <3>6. Fine(Append(t, x))
      BY <3>1, <3>2, <3>3, <3>4, <3>5
    <3> QED
      BY <2>2, <3>6
  <2>6. CASE x \notin S
    <3>1. Only(Append(t, x), S) = Only(t, S)
      BY <2>1, <2>4, <2>6, ConcatEmptySeq
    <3>2. Fine(Append(t, x))
      BY <2>1, <2>2, <2>3, <2>6, <3>1
    <3> QED
      BY <2>2, <3>2
  <2> QED
    BY <2>5, <2>6
<1>3. C = Seq(T)
  <2> HIDE DEF C
  <2>1. C \in SUBSET Seq(T)
    BY DEF C
  <2> QED
    BY <1>1, <1>2, <2>1, AllSequences
<1> QED
  BY <1>3

\* Only of one sequence after another.
LEMMA OnlyConcat ==
  ASSUME NEW T, NEW s \in Seq(T), NEW t \in Seq(T), NEW S
  PROVE  Only(s \o t, S) = Only(s, S) \o Only(t, S)
<1> DEFINE C == {u \in Seq(T) : Only(s \o u, S) = Only(s, S) \o Only(u, S)}
<1>1. <<>> \in C
  BY OnlyEmpty, OnlyLine, ConcatEmptySeq
<1>2. ASSUME NEW u \in C, NEW x \in T PROVE Append(u, x) \in C
  <2> DEFINE e == IF x \in S THEN <<x>> ELSE <<>>
  <2>1. u \in Seq(T) /\ Append(u, x) \in Seq(T) /\ s \o u \in Seq(T) /\ e \in Seq(T)
    OBVIOUS
  <2> DEFINE v == s \o u
             a == Only(s, S)
             b == Only(u, S)
  <2>2. a \in Seq(T) /\ b \in Seq(T)
    BY <2>1, OnlyLine
  <2>3. Only(v, S) = a \o b
    OBVIOUS
  <2>4. s \o Append(u, x) = Append(v, x)
    BY <2>1, ConcatAppend
  <2>5. Only(Append(u, x), S) = b \o e
    BY <2>1, OnlyAppend
  <2>6. v \in Seq(T)
    BY <2>1
  <2> HIDE DEF C, e, v, a, b
  <2>7. Only(Append(v, x), S) = Only(v, S) \o e
    BY <2>6, OnlyAppend DEF e
  <2>8. (a \o b) \o e = a \o (b \o e)
    BY <2>1, <2>2, ConcatAssociative
  <2>9. Only(s \o Append(u, x), S) = a \o Only(Append(u, x), S)
    BY <2>3, <2>4, <2>5, <2>7, <2>8
  <2> QED
    BY <2>1, <2>9 DEF C, a
<1>3. C = Seq(T)
  <2> HIDE DEF C
  <2>1. C \in SUBSET Seq(T)
    BY DEF C
  <2> QED
    BY <1>1, <1>2, <2>1, AllSequences
<1> QED
  BY <1>3

-----------------------------------------------------------------------------
(* What messages bring *)

\* A sequence of one element.
LEMMA OneLine ==
  ASSUME NEW T, NEW x \in T
  PROVE  /\ <<x>> \in Seq(T) /\ Len(<<x>>) = 1 /\ <<x>>[1] = x /\ Elements(<<x>>) = {x}
         /\ IsInjective(<<x>>) /\ <<x>> # <<>>
<1>1. <<x>> \in Seq(T) /\ Len(<<x>>) = 1 /\ <<x>>[1] = x /\ <<x>> # <<>>
  OBVIOUS
<1>2. DOMAIN <<x>> = {1}
  OBVIOUS
<1> QED
  BY <1>1, <1>2 DEF Elements, ToSet, IsInjective

\* One sequence flattens to itself.
LEMMA FlatOne ==
  ASSUME NEW S, NEW s \in Seq(S)
  PROVE  FlattenSeq(<<s>>) = s
<1>1. <<>> \in Seq(Seq(S)) /\ Append(<<>>, s) = <<s>>
  OBVIOUS
<1>2. FlattenSeq(Append(<<>>, s)) = FlattenSeq(<<>>) \o s
  BY <1>1, FlatAppend
<1> QED
  BY <1>1, <1>2, FlatEmpty, ConcatEmptySeq

\* Flattening collects the elements of each sequence.
LEMMA FlatElements ==
  ASSUME NEW S, NEW ss \in Seq(Seq(S))
  PROVE  \A x : x \in Elements(FlattenSeq(ss)) <=> \E i \in 1..Len(ss) : x \in Elements(ss[i])
<1> DEFINE Fine(u) == \A x : x \in Elements(FlattenSeq(u)) <=> \E i \in 1..Len(u) : x \in Elements(u[i])
           C == {u \in Seq(Seq(S)) : Fine(u)}
<1>1. <<>> \in C
  <2>1. Elements(<<>>) = {} /\ Len(<<>>) = 0 /\ <<>> \in Seq(Seq(S))
    BY DEF Elements, ToSet
  <2> QED
    BY <2>1, FlatEmpty
<1>2. ASSUME NEW u \in C, NEW s \in Seq(S) PROVE Append(u, s) \in C
  <2> DEFINE v == Append(u, s)
  <2>1. u \in Seq(Seq(S)) /\ Fine(u) /\ Len(u) \in Nat
    OBVIOUS
  <2>2. /\ v \in Seq(Seq(S)) /\ Len(v) = Len(u) + 1 /\ v[Len(u) + 1] = s
        /\ \A i \in 1..Len(u) : v[i] = u[i]
    BY <2>1, AppendProperties
  <2>3. FlattenSeq(v) = FlattenSeq(u) \o s /\ FlattenSeq(u) \in Seq(S)
    BY <2>1, FlatAppend, FlatType
  <2> HIDE DEF v
  <2>4. Elements(FlattenSeq(v)) = Elements(FlattenSeq(u)) \cup Elements(s)
    BY <2>3, ConcatLine
  <2>5. ASSUME NEW x PROVE x \in Elements(FlattenSeq(v)) <=> \E i \in 1..Len(v) : x \in Elements(v[i])
    <3>1. ASSUME x \in Elements(FlattenSeq(u)) PROVE \E i \in 1..Len(v) : x \in Elements(v[i])
      <4>1. PICK i \in 1..Len(u) : x \in Elements(u[i])
        BY <2>1, <3>1
      <4> QED
        BY <2>1, <2>2, <4>1
    <3>2. ASSUME x \in Elements(s) PROVE \E i \in 1..Len(v) : x \in Elements(v[i])
      <4>1. Len(u) + 1 \in 1..Len(v) /\ x \in Elements(v[Len(u) + 1])
        BY <2>1, <2>2, <3>2
      <4> QED
        BY <4>1
    <3>3. ASSUME NEW i \in 1..Len(v), x \in Elements(v[i]) PROVE x \in Elements(FlattenSeq(v))
      <4>1. CASE i = Len(u) + 1
        BY <2>2, <2>4, <3>3, <4>1
      <4>2. CASE i # Len(u) + 1
        <5>1. i \in 1..Len(u) /\ x \in Elements(u[i])
          BY <2>1, <2>2, <3>3, <4>2
        <5> QED
          BY <2>1, <2>4, <5>1
      <4> QED
        BY <4>1, <4>2
    <3> QED
      BY <2>4, <3>1, <3>2, <3>3
  <2> QED
    BY <2>2, <2>5 DEF v
<1>3. C = Seq(Seq(S))
  <2> HIDE DEF C
  <2>1. C \in SUBSET Seq(Seq(S))
    BY DEF C
  <2> QED
    BY <1>1, <1>2, <2>1, AllSequences
<1> QED
  BY <1>3

Message ==
  [kind : {"generate", "join"}, batch : Nat, rows : Seq(Requests)]
    \cup [kind : {"cancel"}, id : Requests]

\* What a message brings to a batch.
Load(m, b) == IF m.kind # "cancel" /\ m.batch = b THEN m.rows ELSE <<>>
Loads(s, b) == [i \in DOMAIN s |-> Load(s[i], b)]
Carried(s, b) == FlattenSeq(Loads(s, b))

\* The fields of a message, and what it brings.
LEMMA MessageLine ==
  ASSUME NEW m \in Message
  PROVE  /\ m.kind \in {"generate", "join", "cancel"}
         /\ m.kind # "cancel" => m.batch \in Nat /\ m.rows \in Seq(Requests)
         /\ m.kind = "cancel" => m.id \in Requests
         /\ \A b : Load(m, b) \in Seq(Requests)
<1>1. /\ m.kind \in {"generate", "join", "cancel"}
      /\ m.kind # "cancel" => m.batch \in Nat /\ m.rows \in Seq(Requests)
      /\ m.kind = "cancel" => m.id \in Requests
  BY DEF Message
<1>2. <<>> \in Seq(Requests)
  OBVIOUS
<1> QED
  BY <1>1, <1>2 DEF Load

\* The rows that messages bring are requests.
LEMMA LoadsType ==
  ASSUME NEW s \in Seq(Message), NEW b
  PROVE  /\ Loads(s, b) \in Seq(Seq(Requests)) /\ Len(Loads(s, b)) = Len(s)
         /\ \A i \in 1..Len(s) : Loads(s, b)[i] = Load(s[i], b) /\ s[i] \in Message
         /\ Carried(s, b) \in Seq(Requests)
<1>1. DOMAIN s = 1..Len(s) /\ Len(s) \in Nat /\ \A i \in 1..Len(s) : s[i] \in Message
  OBVIOUS
<1>2. \A i \in 1..Len(s) : Load(s[i], b) \in Seq(Requests)
  BY <1>1, MessageLine
<1>3. Loads(s, b) \in [1..Len(s) -> Seq(Requests)]
  BY <1>1, <1>2 DEF Loads
<1>4. Loads(s, b) \in Seq(Seq(Requests)) /\ Len(Loads(s, b)) = Len(s)
  BY <1>1, <1>3
<1>5. \A i \in 1..Len(s) : Loads(s, b)[i] = Load(s[i], b)
  BY <1>1 DEF Loads
<1> QED
  BY <1>1, <1>4, <1>5, FlatType DEF Carried

\* The rows carried are those of the messages.
LEMMA CarriedElements ==
  ASSUME NEW s \in Seq(Message), NEW b
  PROVE  /\ \A r : r \in Elements(Carried(s, b)) <=> \E i \in 1..Len(s) : r \in Elements(Load(s[i], b))
         /\ (\A i \in 1..Len(s) : Load(s[i], b) = <<>>) => Carried(s, b) = <<>>
<1>1. \A r : r \in Elements(Carried(s, b)) <=> \E i \in 1..Len(s) : r \in Elements(Load(s[i], b))
  <2>1. \A r : r \in Elements(Carried(s, b)) <=> \E i \in 1..Len(Loads(s, b)) : r \in Elements(Loads(s, b)[i])
    BY LoadsType, FlatElements DEF Carried
  <2>2. Len(Loads(s, b)) = Len(s) /\ \A i \in 1..Len(s) : Loads(s, b)[i] = Load(s[i], b)
    BY LoadsType
  <2> QED
    BY <2>1, <2>2
<1>2. ASSUME \A i \in 1..Len(s) : Load(s[i], b) = <<>> PROVE Carried(s, b) = <<>>
  <2>1. Elements(<<>>) = {}
    BY DEF Elements, ToSet
  <2>2. Elements(Carried(s, b)) = {}
    BY <1>1, <1>2, <2>1
  <2> QED
    BY <2>2, LoadsType, PlacesLine
<1> QED
  BY <1>1, <1>2

\* Messages after messages.
LEMMA CarriedConcat ==
  ASSUME NEW s \in Seq(Message), NEW t \in Seq(Message), NEW b
  PROVE  Carried(s \o t, b) = Carried(s, b) \o Carried(t, b)
<1> DEFINE u == s \o t
           m == Len(s)
           n == Len(t)
<1>1. u \in Seq(Message) /\ Len(u) = m + n /\ m \in Nat /\ n \in Nat
      /\ \A i \in 1..m + n : u[i] = IF i <= m THEN s[i] ELSE t[i - m]
  BY ConcatProperties
<1>2. /\ Loads(s, b) \in Seq(Seq(Requests)) /\ Len(Loads(s, b)) = m
      /\ \A i \in 1..m : Loads(s, b)[i] = Load(s[i], b)
  BY LoadsType
<1>3. /\ Loads(t, b) \in Seq(Seq(Requests)) /\ Len(Loads(t, b)) = n
      /\ \A i \in 1..n : Loads(t, b)[i] = Load(t[i], b)
  BY LoadsType
<1> HIDE DEF u
<1>4. /\ Loads(u, b) \in Seq(Seq(Requests)) /\ Len(Loads(u, b)) = m + n
      /\ \A i \in 1..m + n : Loads(u, b)[i] = Load(u[i], b)
  BY <1>1, LoadsType
<1> DEFINE p == Loads(s, b)
           q == Loads(t, b)
           w == p \o q
<1> HIDE DEF m, n, p, q
<1>5. w \in Seq(Seq(Requests)) /\ Len(w) = m + n
      /\ \A i \in 1..m + n : w[i] = IF i <= m THEN p[i] ELSE q[i - m]
  <2>1. p \in Seq(Seq(Requests)) /\ q \in Seq(Seq(Requests)) /\ Len(p) = m /\ Len(q) = n
    BY <1>2, <1>3 DEF p, q
  <2> QED
    BY <2>1, ConcatProperties
<1> HIDE DEF w
<1>6. \A i \in 1..m + n : Loads(u, b)[i] = w[i]
  <2> SUFFICES ASSUME NEW i \in 1..m + n PROVE Loads(u, b)[i] = w[i]
    OBVIOUS
  <2>1. CASE i <= m
    <3>1. i \in 1..m
      BY <1>1, <2>1
    <3>2. Loads(u, b)[i] = Load(s[i], b)
      BY <1>1, <1>4, <2>1
    <3>3. w[i] = p[i]
      BY <1>5, <2>1
    <3> QED
      BY <1>2, <3>1, <3>2, <3>3 DEF p
  <2>2. CASE ~(i <= m)
    <3>1. i - m \in 1..n
      BY <1>1, <2>2
    <3> QED
      BY <1>1, <1>3, <1>4, <1>5, <2>2, <3>1 DEF q
  <2> QED
    BY <2>1, <2>2
<1>7. Loads(u, b) = w
  BY <1>4, <1>5, <1>6, SeqEqual
<1> QED
  BY <1>2, <1>3, <1>7, FlatConcat DEF Carried, u, w, p, q

\* One message brings its own rows.
LEMMA CarriedOne ==
  ASSUME NEW m \in Message, NEW b
  PROVE  Carried(<<m>>, b) = Load(m, b)
<1>1. <<m>> \in Seq(Message) /\ Len(<<m>>) = 1 /\ <<m>>[1] = m
  OBVIOUS
<1>2. Loads(<<m>>, b) \in Seq(Seq(Requests)) /\ Len(Loads(<<m>>, b)) = 1 /\ Loads(<<m>>, b)[1] = Load(m, b)
  <2>1. \A i \in 1..Len(<<m>>) : Loads(<<m>>, b)[i] = Load(<<m>>[i], b)
    BY <1>1, LoadsType
  <2>2. Loads(<<m>>, b) \in Seq(Seq(Requests)) /\ Len(Loads(<<m>>, b)) = Len(<<m>>)
    BY <1>1, LoadsType
  <2> QED
    BY <1>1, <2>1, <2>2
<1>3. Loads(<<m>>, b) = <<Load(m, b)>>
  BY <1>2
<1> QED
  BY <1>3, MessageLine, FlatOne DEF Carried

\* No messages bring no rows.
LEMMA CarriedEmpty ==
  ASSUME NEW b
  PROVE  Carried(<<>>, b) = <<>>
<1>1. <<>> \in Seq(Message) /\ Len(<<>>) = 0
  OBVIOUS
<1>2. \A i \in 1..Len(<<>>) : Load(<<>>[i], b) = <<>>
  BY <1>1
<1> QED
  BY <1>1, <1>2, CarriedElements

\* A message taken from the front.
LEMMA CarriedTail ==
  ASSUME NEW s \in Seq(Message), s # <<>>, NEW b
  PROVE  /\ Head(s) \in Message /\ Tail(s) \in Seq(Message)
         /\ Carried(s, b) = Load(Head(s), b) \o Carried(Tail(s), b)
<1>1. Head(s) \in Message /\ Tail(s) \in Seq(Message) /\ s = <<Head(s)>> \o Tail(s) /\ <<Head(s)>> \in Seq(Message)
  <2>1. Head(s) \in Message /\ Tail(s) \in Seq(Message) /\ Len(s) \in Nat \ {0}
    OBVIOUS
  <2>2. 1 \in 1..Len(s) /\ Len(s) \in 1..Len(s) /\ Head(s) = s[1]
    BY <2>1
  <2>3. SubSeq(s, 1, Len(s)) = <<s[1]>> \o SubSeq(s, 2, Len(s))
    BY <2>2, SubSeqRecursiveFirst
  <2>4. SubSeq(s, 1, Len(s)) = s /\ SubSeq(s, 2, Len(s)) = Tail(s)
    BY SubSeqFull, TailIsSubSeq
  <2> QED
    BY <2>1, <2>2, <2>3, <2>4
<1>2. Carried(<<Head(s)>> \o Tail(s), b) = Carried(<<Head(s)>>, b) \o Carried(Tail(s), b)
  BY <1>1, CarriedConcat
<1>3. Carried(<<Head(s)>>, b) = Load(Head(s), b)
  BY <1>1, CarriedOne
<1> QED
  BY <1>1, <1>2, <1>3

\* Messages that are no cancels bring what RowsOf says.
LEMMA CarriedRows ==
  ASSUME NEW s \in Seq(Message), NEW b, \A i \in 1..Len(s) : s[i].kind # "cancel"
  PROVE  RowsOf(s, b) = Carried(s, b)
<1>1. DOMAIN s = 1..Len(s)
  OBVIOUS
<1>2. Loads(s, b) = [i \in DOMAIN s |-> IF s[i].batch = b THEN s[i].rows ELSE <<>>]
  BY <1>1 DEF Loads, Load
<1> QED
  BY <1>2 DEF Carried, RowsOf

-----------------------------------------------------------------------------
(* The types *)

RowFrame ==
  [kind : {"token"}, batch : Nat, id : Requests, n : Nat]
    \cup [kind : {"done"}, batch : Nat, id : Requests, how : {"stop", "cancelled"}, n : Nat]
    \cup [kind : {"rejected"}, batch : Nat, id : Requests, limit : Nat]
LastFrame ==
  [kind : {"batch_done"}, batch : Nat, ids : Seq(Requests)] \cup [kind : {"error"}, batch : Nat]
Frame == RowFrame \cup LastFrame

Command == [kind : {"generate"}, batch : Nat, rows : Seq(Requests)]
Joining == [kind : {"join"}, batch : Nat, rows : Seq(Requests)]
Bound == (Nat \ {0}) \cup {NoLimit}

ClientTyped ==
  /\ cancelled \subseteq Requests /\ free \subseteq Requests /\ cancelSent \subseteq Requests
  /\ answer \in [Requests -> {"none", "stop", "cancelled", "rejected"}]
  /\ got \in [Requests -> Nat]
  /\ client \in {"idle", "running", "failed"} /\ batch \in 0..MaxBatches
  /\ listed \in Seq(Requests) /\ initial \in 0..Capacity

PipesTyped ==
  /\ toWorker \in Seq(Message) /\ toClient \in Seq(Frame)
  /\ commands \in Seq(Command) /\ joins \in Seq(Joining)

WorkerTyped ==
  /\ registered \subseteq Requests /\ flagged \subseteq Requests /\ pending \subseteq Requests
  /\ wpc \in {"wait", "round", "prefill", "admit", "joining", "form", "decode", "report", "cleanup"}
  /\ wbatch \in 0..MaxBatches /\ limit \in Bound
  /\ allIds \in Seq(Requests) /\ report \in Seq(Requests) /\ joined \in Seq(Requests)
  /\ waiting \in Seq(Requests) /\ leftovers \in Seq(Requests) /\ skipped \subseteq Requests
  /\ made \in [Requests -> Nat] /\ sent \in [Requests -> Nat]
  /\ stopped \subseteq Requests /\ finished \subseteq Requests /\ done \subseteq Requests
  /\ rotation \in Seq(Requests) /\ arriving \in Seq(Requests) /\ todo \in Seq(Requests)

Typed ==
  /\ engine \in Engines /\ faulted \in BOOLEAN
  /\ ClientTyped /\ PipesTyped /\ WorkerTyped

\* A stream sends no more than its session made, and that no more than asked.
Counted == \A r \in Requests : sent[r] <= made[r] /\ made[r] <= Output[r]

-----------------------------------------------------------------------------
(* The invariant: what the frames in the pipe say *)

RowKinds == {"token", "done", "rejected"}
About(q, i, r) == q[i].kind \in RowKinds /\ q[i].id = r
TokenAt(q, i, r, n) == q[i].kind = "token" /\ q[i].id = r /\ q[i].n = n

\* The pipe has nothing of r, and r nothing from earlier frames.
Silent(q, r) == \A i \in 1..Len(q) : ~About(q, i, r)
Untouched(q, r) == got[r] = 0 /\ answer[r] = "none" /\ Silent(q, r)

\* r was answered, or its end is in the pipe.
EndIn(q, r) == \E i \in 1..Len(q) : About(q, i, r) /\ q[i].kind # "token"
Ended(q, r) == answer[r] # "none" \/ EndIn(q, r)

\* By place i of the pipe the client has n tokens of r.
Reached(q, r, n, i) == got[r] = n \/ \E j \in 1..i - 1 : TokenAt(q, j, r, n)

\* The last token of r so far is n.
Latest(q, r, n) ==
  /\ Reached(q, r, n, Len(q) + 1)
  /\ \A i \in 1..Len(q) : q[i].kind = "token" /\ q[i].id = r => q[i].n <= n

\* The client will accept the frame at place i, once it gets there.
Acceptable(q, i) ==
  /\ q[i].batch = batch /\ q[i].id \in Elements(listed) /\ answer[q[i].id] = "none"
  /\ q[i].kind = "token" => q[i].n \in 1..Output[q[i].id] /\ Reached(q, q[i].id, q[i].n - 1, i)
  /\ q[i].kind = "done" =>
       /\ \/ q[i].how = "stop" /\ q[i].n = Output[q[i].id]
          \/ q[i].how = "cancelled" /\ q[i].n <= Output[q[i].id] /\ q[i].id \in cancelSent
       /\ Reached(q, q[i].id, q[i].n, i)
  /\ q[i].kind = "rejected" => q[i].limit \in 1..ContextLimit /\ Reached(q, q[i].id, 0, i)

\* Of two frames of a request the first is a token, and the counts go up.
InOrder(q, i, j) ==
  i < j /\ q[j].kind \in RowKinds /\ About(q, i, q[j].id) =>
    /\ q[i].kind = "token" /\ q[j].kind # "rejected"
    /\ q[j].kind = "token" => q[i].n < q[j].n
    /\ q[j].kind = "done" => q[i].n <= q[j].n

Framed(q) ==
  /\ \A i \in 1..Len(q) : q[i].kind \in RowKinds => Acceptable(q, i)
  /\ \A i, j \in 1..Len(q) : InOrder(q, i, j)

-----------------------------------------------------------------------------
(* The invariant: where the batch is *)

Busy == wpc \notin {"wait", "cleanup"}
InRun == wpc \in {"prefill", "admit", "joining", "form", "decode", "report"}

Final == toClient[Len(toClient)]
Closed == toClient # <<>> /\ Final.kind \in {"batch_done", "error"}
Broken == toClient # <<>> /\ Final.kind = "error"

NoGenerate == \A i \in 1..Len(toWorker) : toWorker[i].kind # "generate"

\* The command is on its way to the receiver, before any join of its batch.
AskedAt(g) ==
  /\ toWorker[g].kind = "generate" /\ toWorker[g].batch = batch /\ Len(toWorker[g].rows) = initial
  /\ \A j \in 1..Len(toWorker) : j # g => toWorker[j].kind # "generate"
  /\ \A j \in 1..g - 1 : toWorker[j].kind # "cancel" => toWorker[j].batch < batch
Asked ==
  /\ \E g \in 1..Len(toWorker) : AskedAt(g)
  /\ commands = <<>> /\ ~Busy /\ toClient = <<>>
  /\ \A j \in 1..Len(joins) : joins[j].batch < batch

\* The command waits for the main thread.
Commanded ==
  /\ NoGenerate /\ ~Busy /\ toClient = <<>>
  /\ Len(commands) = 1 /\ commands[1].batch = batch /\ Len(commands[1].rows) = initial

Working ==
  /\ NoGenerate /\ commands = <<>>
  /\ Busy /\ ~Closed /\ wbatch = batch /\ initial <= Len(allIds)

\* The last frame is on its way to the client.
Ending ==
  /\ NoGenerate /\ commands = <<>>
  /\ ~Busy /\ Closed /\ Final.batch = batch
  /\ IF Broken THEN faulted
     ELSE initial <= Len(Final.ids) /\ \A r \in Elements(Final.ids) : Ended(toClient, r)

Resting == NoGenerate /\ commands = <<>> /\ ~Busy /\ listed = <<>> /\ toClient = <<>>

Phased ==
  /\ client = "idle" => Resting
  /\ client = "running" => Asked \/ Commanded \/ Working \/ Ending
  /\ \A i \in 1..Len(toWorker) : toWorker[i].kind # "cancel" => toWorker[i].batch <= batch
  /\ \A i \in 1..Len(joins) : joins[i].batch <= batch
  /\ \A i \in 1..Len(toClient) - 1 : toClient[i].kind \in RowKinds

\* The requests the worker has taken into the batch.
Taken == IF Busy THEN allIds ELSE IF Closed THEN Final.ids ELSE <<>>

\* What the client listed is what the worker took and what is on its way;
\* of the latter nothing was heard yet.
Split(X) == listed = ((X \o Carried(commands, batch)) \o Carried(joins, batch)) \o Carried(toWorker, batch)
Share(X) ==
  /\ Split(X)
  /\ ~Broken => X = Taken
  /\ \A r \in Elements(listed) \ Elements(X) : Untouched(toClient, r)
  /\ \A r \in registered : answer[r] # "none" \/ r \in Elements(X)

Accounted ==
  /\ IsInjective(listed)
  /\ client = "running" => \E X \in Seq(Requests) : Share(X)
  /\ client = "idle" => \A r \in registered : answer[r] # "none"

Kept == \A r \in free : r \notin Elements(listed) /\ Untouched(toClient, r)

-----------------------------------------------------------------------------
(* The invariant: cancels *)

IsCancel(i, r) == toWorker[i].kind = "cancel" /\ toWorker[i].id = r
Heeded(r) == r \in flagged \cup pending \/ \E i \in 1..Len(toWorker) : IsCancel(i, r)

Caused ==
  /\ cancelSent \subseteq cancelled
  /\ \A r \in Requests : Heeded(r) => r \in cancelled /\ (r \in Elements(listed) => r \in cancelSent)

-----------------------------------------------------------------------------
(* The invariant: the worker's rows *)

Live == Elements(report) \cup Elements(joined) \cup Elements(waiting) \cup Elements(leftovers)

Apart ==
  /\ IsInjective(report) /\ IsInjective(joined) /\ IsInjective(waiting) /\ IsInjective(leftovers)
  /\ Elements(report) \cap Elements(joined) = {} /\ Elements(report) \cap Elements(waiting) = {}
  /\ Elements(report) \cap Elements(leftovers) = {} /\ Elements(joined) \cap Elements(waiting) = {}
  /\ Elements(joined) \cap Elements(leftovers) = {} /\ Elements(waiting) \cap Elements(leftovers) = {}

\* The rows the engine runs.
Started == IF InRun THEN (Elements(report) \ skipped) \cup Elements(joined) ELSE {}

Progress(r) ==
  /\ r \in finished <=> Ended(toClient, r)
  /\ Latest(toClient, r, sent[r])
  /\ r \notin flagged => sent[r] = made[r]
  /\ r \in done => r \in flagged \/ r \in finished
  /\ r \notin done => made[r] < Output[r]
  /\ r \in finished => r \in done

Worked ==
  /\ flagged \subseteq registered
  /\ wpc = "wait" =>
       /\ registered = {} /\ joined = <<>> /\ waiting = <<>> /\ leftovers = <<>>
       /\ stopped = {} /\ finished = {}
  /\ Busy =>
       /\ Apart /\ Live \subseteq Elements(allIds)
       /\ \A r \in Elements(allIds) : Ended(toClient, r) \/ r \in Live
       /\ stopped \subseteq flagged
       /\ \A r \in finished : Ended(toClient, r)
       /\ wpc = "round" => joined = <<>> /\ leftovers = <<>>
       /\ wpc \in {"round", "prefill", "report"} => waiting = <<>>
       /\ InRun => report # <<>> /\ skipped \subseteq flagged \cap Elements(report)
       /\ \A r \in Live \ Started : Untouched(toClient, r)
       /\ \A r \in Started : Progress(r)

\* The engine's own lists.
Running == Elements(rotation) \cup Elements(arriving)
Engined == InRun =>
  /\ IsInjective(rotation) /\ IsInjective(arriving) /\ Elements(rotation) \cap Elements(arriving) = {}
  /\ Running \subseteq Started /\ Started \subseteq done \cup Running
  /\ wpc \in {"prefill", "joining"} =>
       todo # <<>> /\ IsInjective(todo) /\ Elements(todo) \subseteq Started \ done
  /\ wpc = "decode" =>
       /\ todo # <<>> /\ IsInjective(todo) /\ Elements(todo) \cap done = {}
       /\ \E rest \in Seq(Requests) : rotation = todo \o rest
  /\ wpc = "report" => Started \subseteq done

Seated == Dense => Cardinality(Open) <= Capacity

Sane == Phased /\ Accounted /\ Framed(toClient) /\ Kept /\ Caused /\ Worked /\ Engined /\ Seated

IInv == Typed /\ Counted /\ NeverCondemned /\ (client # "failed" => Sane)

\* The cancel of a listed request follows the message that brings it.
Trailing ==
  client = "running" =>
    \A r \in cancelSent, i \in 1..Len(toWorker) :
      r \in Elements(Load(toWorker[i], batch)) => \E j \in i..Len(toWorker) : IsCancel(j, r)

-----------------------------------------------------------------------------
(* What a pipe says when a frame is taken from it or put into it *)

\* The fields of a frame.
LEMMA FrameLine ==
  ASSUME NEW f \in Frame
  PROVE  /\ f.kind \in {"token", "done", "rejected", "batch_done", "error"}
         /\ f.batch \in Nat
         /\ f.kind \in RowKinds => f.id \in Requests
         /\ f.kind \in {"token", "done"} => f.n \in Nat
         /\ f.kind = "done" => f.how \in {"stop", "cancelled"}
         /\ f.kind = "rejected" => f.limit \in Nat
         /\ f.kind = "batch_done" => f.ids \in Seq(Requests)
  BY DEF Frame, RowFrame, LastFrame, RowKinds

\* The places of one sequence after another.
LEMMA JoinLine ==
  ASSUME NEW S, NEW q \in Seq(S), NEW t \in Seq(S)
  PROVE  /\ q \o t \in Seq(S) /\ Len(q \o t) = Len(q) + Len(t) /\ Len(q) \in Nat /\ Len(t) \in Nat
         /\ \A i \in 1..Len(q) : (q \o t)[i] = q[i]
         /\ \A i \in 1..Len(t) : (q \o t)[Len(q) + i] = t[i]
         /\ \A k \in 1..Len(q \o t) : k \notin 1..Len(q) => k - Len(q) \in 1..Len(t) /\ (q \o t)[k] = t[k - Len(q)]
<1>1. q \o t \in Seq(S) /\ Len(q \o t) = Len(q) + Len(t) /\ Len(q) \in Nat /\ Len(t) \in Nat
  BY ConcatProperties
<1>2. \A i \in 1..Len(q) + Len(t) : (q \o t)[i] = IF i <= Len(q) THEN q[i] ELSE t[i - Len(q)]
  BY ConcatProperties
<1> HIDE DEF RowKinds
<1> QED
  BY <1>1, <1>2

\* A further token at the end of the pipe is in order, and tells only of its request.
LEMMA TokenPipe ==
  ASSUME NEW q \in Seq(Frame), NEW e \in Frame, Framed(q), got \in [Requests -> Nat],
         e.kind = "token", e.batch = batch, e.id \in Elements(listed), e.n \in 1..Output[e.id],
         ~Ended(q, e.id), Latest(q, e.id, e.n - 1)
  PROVE  /\ Framed(q \o <<e>>)
         /\ \A r \in Requests : Ended(q \o <<e>>, r) <=> Ended(q, r)
         /\ \A r \in Requests \ {e.id} : Untouched(q, r) => Untouched(q \o <<e>>, r)
         /\ \A r \in Requests \ {e.id}, n \in Nat : Latest(q, r, n) => Latest(q \o <<e>>, r, n)
         /\ Latest(q \o <<e>>, e.id, e.n)
<1> DEFINE p == q \o <<e>>
<1>1. /\ p \in Seq(Frame) /\ Len(p) = Len(q) + 1 /\ Len(q) \in Nat /\ p[Len(q) + 1] = e
      /\ \A i \in 1..Len(q) : p[i] = q[i]
  <2>1. <<e>> \in Seq(Frame) /\ Len(<<e>>) = 1 /\ <<e>>[1] = e
    BY OneLine
  <2> QED
    BY <2>1, JoinLine
<1>2. e.id \in Requests /\ e.n \in Nat /\ e.n >= 1
  BY FrameLine, RequestAssumption DEF RowKinds
<1>3. \A i \in 1..Len(q) : q[i] \in Frame
  BY <1>1
<1>4. ~EndIn(q, e.id) /\ answer[e.id] = "none"
  BY DEF Ended
<1> HIDE DEF p
<1>5. \A r \in Requests : EndIn(p, r) <=> EndIn(q, r)
  <2>1. ASSUME NEW r \in Requests, EndIn(p, r) PROVE EndIn(q, r)
    <3>1. PICK i \in 1..Len(p) : About(p, i, r) /\ p[i].kind # "token"
      BY <2>1 DEF EndIn
    <3>2. i \in 1..Len(q)
      BY <3>1, <1>1
    <3> QED
      BY <3>1, <3>2, <1>1 DEF EndIn, About
  <2>2. ASSUME NEW r \in Requests, EndIn(q, r) PROVE EndIn(p, r)
    <3>1. PICK i \in 1..Len(q) : About(q, i, r) /\ q[i].kind # "token"
      BY <2>2 DEF EndIn
    <3> QED
      BY <3>1, <1>1 DEF EndIn, About
  <2> QED
    BY <2>1, <2>2
<1>6. ASSUME NEW r \in Requests \ {e.id}, Untouched(q, r) PROVE Untouched(p, r)
  BY <1>1, <1>6 DEF Untouched, Silent, About
<1>7. ASSUME NEW r, NEW n, NEW i \in 1..Len(q) + 1 PROVE Reached(q, r, n, i) <=> Reached(p, r, n, i)
  <2>1. \A j \in 1..i - 1 : p[j] = q[j]
    BY <1>1
  <2> QED
    BY <2>1 DEF Reached, TokenAt
<1>8. ASSUME NEW r \in Requests, NEW n \in Nat, Latest(q, r, n) PROVE Reached(p, r, n, Len(p) + 1)
  <2>1. CASE got[r] = n
    BY <2>1 DEF Reached
  <2>2. CASE got[r] # n
    <3>1. PICK j \in 1..Len(q) : TokenAt(q, j, r, n)
      BY <2>2, <1>8, <1>1 DEF Latest, Reached
    <3>2. j \in 1..(Len(p) + 1) - 1 /\ TokenAt(p, j, r, n)
      BY <3>1, <1>1 DEF TokenAt
    <3> QED
      BY <3>2 DEF Reached
  <2> QED
    BY <2>1, <2>2
<1>9. ASSUME NEW r \in Requests \ {e.id}, NEW n \in Nat, Latest(q, r, n) PROVE Latest(p, r, n)
  <2>1. \A i \in 1..Len(p) : p[i].kind = "token" /\ p[i].id = r => p[i].n <= n
    BY <1>1, <1>9 DEF Latest
  <2> QED
    BY <2>1, <1>8, <1>9 DEF Latest
<1>10. Latest(p, e.id, e.n)
  <2>1. TokenAt(p, Len(q) + 1, e.id, e.n) /\ Len(q) + 1 \in 1..(Len(p) + 1) - 1
    BY <1>1 DEF TokenAt
  <2>2. \A i \in 1..Len(p) : p[i].kind = "token" /\ p[i].id = e.id => p[i].n <= e.n
    <3>1. ASSUME NEW i \in 1..Len(q), q[i].kind = "token", q[i].id = e.id PROVE q[i].n <= e.n
      BY <3>1, <1>2, <1>3, FrameLine DEF Latest
    <3> QED
      BY <3>1, <1>1, <1>2
  <2> QED
    BY <2>1, <2>2 DEF Latest, Reached
<1>11. Framed(p)
  <2>1. ASSUME NEW i \in 1..Len(p), p[i].kind \in RowKinds PROVE Acceptable(p, i)
    <3>1. CASE i \in 1..Len(q)
      <4>1. Acceptable(q, i) /\ p[i] = q[i]
        BY <2>1, <3>1, <1>1 DEF Framed
      <4> QED
        BY <4>1, <3>1, <1>7, <1>1 DEF Acceptable
    <3>2. CASE i = Len(q) + 1
      <4>1. Reached(p, e.id, e.n - 1, i) /\ p[i] = e
        BY <3>2, <1>7, <1>1 DEF Latest
      <4> QED
        BY <4>1, <1>4 DEF Acceptable
    <3> QED
      BY <3>1, <3>2, <1>1
  <2>2. ASSUME NEW i \in 1..Len(p), NEW j \in 1..Len(p) PROVE InOrder(p, i, j)
    <3>1. CASE j \in 1..Len(q)
      <4>1. i < j => i \in 1..Len(q)
        BY <3>1, <1>1
      <4>2. i \in 1..Len(q) => InOrder(q, i, j)
        BY <3>1 DEF Framed
      <4> QED
        BY <4>1, <4>2, <3>1, <1>1 DEF InOrder, About
    <3>2. CASE j = Len(q) + 1
      <4>1. SUFFICES ASSUME i < j, About(p, i, e.id) PROVE p[i].kind = "token" /\ p[i].n < e.n
        BY <3>2, <1>1 DEF InOrder
      <4>2. i \in 1..Len(q) /\ p[i] = q[i] /\ q[i] \in Frame
        BY <4>1, <3>2, <1>1, <1>3
      <4>3. q[i].kind = "token"
        BY <4>1, <4>2, <1>4 DEF EndIn, About
      <4>4. q[i].n <= e.n - 1 /\ q[i].n \in Nat
        BY <4>1, <4>2, <4>3, FrameLine DEF Latest, About
      <4> QED
        BY <4>2, <4>3, <4>4, <1>2
    <3> QED
      BY <3>1, <3>2, <1>1
  <2> QED
    BY <2>1, <2>2 DEF Framed
<1>12. p = q \o <<e>>
  BY DEF p
<1> QED
  BY <1>5, <1>6, <1>9, <1>10, <1>11, <1>12 DEF Ended

\* The ends of requests that have none yet are in order, and tell only of them.
LEMMA EndsPipe ==
  ASSUME NEW q \in Seq(Frame), NEW es \in Seq(Frame), Framed(q), got \in [Requests -> Nat],
         \A i \in 1..Len(es) :
           /\ es[i].kind \in {"done", "rejected"} /\ es[i].batch = batch /\ es[i].id \in Elements(listed)
           /\ ~Ended(q, es[i].id)
           /\ es[i].kind = "done" =>
                /\ \/ es[i].how = "stop" /\ es[i].n = Output[es[i].id]
                   \/ es[i].how = "cancelled" /\ es[i].n <= Output[es[i].id] /\ es[i].id \in cancelSent
                /\ Latest(q, es[i].id, es[i].n)
           /\ es[i].kind = "rejected" => es[i].limit \in 1..ContextLimit /\ Untouched(q, es[i].id),
         \A i, j \in 1..Len(es) : es[i].id = es[j].id => i = j
  PROVE  /\ Framed(q \o es)
         /\ \A r \in Requests : Ended(q \o es, r) <=> Ended(q, r) \/ \E i \in 1..Len(es) : es[i].id = r
         /\ \A r \in Requests : Untouched(q, r) /\ (\A i \in 1..Len(es) : es[i].id # r) => Untouched(q \o es, r)
         /\ \A r \in Requests, n \in Nat : Latest(q, r, n) => Latest(q \o es, r, n)
<1> DEFINE p == q \o es
<1>1. /\ p \in Seq(Frame) /\ Len(p) = Len(q) + Len(es) /\ Len(q) \in Nat /\ Len(es) \in Nat
      /\ \A i \in 1..Len(q) : p[i] = q[i]
      /\ \A i \in 1..Len(es) : p[Len(q) + i] = es[i]
      /\ \A k \in 1..Len(p) : k \notin 1..Len(q) => k - Len(q) \in 1..Len(es) /\ p[k] = es[k - Len(q)]
  BY JoinLine
<1>2. p = q \o es
  OBVIOUS
<1>3. \A i \in 1..Len(q) : q[i] \in Frame
  BY <1>1
<1>4. \A i \in 1..Len(es) : es[i] \in Frame /\ es[i].id \in Requests /\ es[i].kind \in RowKinds
  BY <1>1, FrameLine DEF RowKinds
<1> HIDE DEF p
<1>5. \A r \in Requests : EndIn(p, r) <=> EndIn(q, r) \/ \E i \in 1..Len(es) : es[i].id = r
  <2>1. ASSUME NEW r \in Requests, EndIn(p, r) PROVE EndIn(q, r) \/ \E i \in 1..Len(es) : es[i].id = r
    <3>1. PICK i \in 1..Len(p) : About(p, i, r) /\ p[i].kind # "token"
      BY <2>1 DEF EndIn
    <3>2. CASE i \in 1..Len(q)
      BY <3>1, <3>2, <1>1 DEF EndIn, About
    <3>3. CASE i \notin 1..Len(q)
      BY <3>1, <3>3, <1>1 DEF About
    <3> QED
      BY <3>2, <3>3
  <2>2. ASSUME NEW r \in Requests, EndIn(q, r) PROVE EndIn(p, r)
    <3>1. PICK i \in 1..Len(q) : About(q, i, r) /\ q[i].kind # "token"
      BY <2>2 DEF EndIn
    <3> QED
      BY <3>1, <1>1 DEF EndIn, About
  <2>3. ASSUME NEW r \in Requests, NEW i \in 1..Len(es), es[i].id = r PROVE EndIn(p, r)
    <3>1. Len(q) + i \in 1..Len(p) /\ p[Len(q) + i] = es[i]
      BY <1>1
    <3> QED
      BY <3>1, <2>3, <1>4 DEF EndIn, About
  <2> QED
    BY <2>1, <2>2, <2>3
<1>6. ASSUME NEW r \in Requests, Untouched(q, r), \A i \in 1..Len(es) : es[i].id # r PROVE Untouched(p, r)
  <2>1. ASSUME NEW i \in 1..Len(p) PROVE ~About(p, i, r)
    <3>1. CASE i \in 1..Len(q)
      BY <3>1, <1>1, <1>6 DEF Untouched, Silent, About
    <3>2. CASE i \notin 1..Len(q)
      BY <3>2, <1>1, <1>6 DEF About
    <3> QED
      BY <3>1, <3>2
  <2> QED
    BY <2>1, <1>6 DEF Untouched, Silent
<1>7. ASSUME NEW r, NEW n, NEW i \in 1..Len(q) + 1 PROVE Reached(q, r, n, i) <=> Reached(p, r, n, i)
  <2>1. \A j \in 1..i - 1 : p[j] = q[j]
    BY <1>1
  <2> QED
    BY <2>1 DEF Reached, TokenAt
<1>8. ASSUME NEW r \in Requests, NEW n \in Nat, NEW i \in Len(q) + 1..Len(p) + 1, Latest(q, r, n)
      PROVE  Reached(p, r, n, i)
  <2>1. CASE got[r] = n
    BY <2>1 DEF Reached
  <2>2. CASE got[r] # n
    <3>1. PICK j \in 1..Len(q) : TokenAt(q, j, r, n)
      BY <2>2, <1>8, <1>1 DEF Latest, Reached
    <3>2. j \in 1..i - 1 /\ TokenAt(p, j, r, n)
      BY <3>1, <1>1 DEF TokenAt
    <3> QED
      BY <3>2 DEF Reached
  <2> QED
    BY <2>1, <2>2
<1>9. ASSUME NEW r \in Requests, NEW n \in Nat, Latest(q, r, n) PROVE Latest(p, r, n)
  <2>1. \A i \in 1..Len(p) : p[i].kind = "token" /\ p[i].id = r => p[i].n <= n
    BY <1>1, <1>9 DEF Latest
  <2>2. Reached(p, r, n, Len(p) + 1)
    BY <1>8, <1>9, <1>1
  <2> QED
    BY <2>1, <2>2 DEF Latest
<1>10. ASSUME NEW i \in 1..Len(p), p[i].kind \in RowKinds PROVE Acceptable(p, i)
  <2>1. CASE i \in 1..Len(q)
    <3>1. Acceptable(q, i) /\ p[i] = q[i] /\ i \in 1..Len(q) + 1
      BY <1>10, <2>1, <1>1 DEF Framed
    <3>2. \A r, n : Reached(q, r, n, i) <=> Reached(p, r, n, i)
      BY <3>1, <1>7
    <3> QED
      BY <3>1, <3>2 DEF Acceptable
  <2>2. CASE i \notin 1..Len(q)
    <3> DEFINE k == i - Len(q)
               e == es[k]
    <3>1. k \in 1..Len(es) /\ p[i] = e /\ i \in Len(q) + 1..Len(p) + 1
      BY <2>2, <1>1
    <3>2. e \in Frame /\ e.id \in Requests
      BY <3>1, <1>4
    <3>3. answer[e.id] = "none"
      BY <3>1 DEF Ended
    <3>4. e.kind = "done" => Reached(p, e.id, e.n, i)
      BY <3>1, <3>2, <1>8, FrameLine
    <3>5. e.kind = "rejected" => Reached(p, e.id, 0, i)
      BY <3>1 DEF Untouched, Reached
    <3> HIDE DEF e, k
    <3>6. /\ e.kind \in {"done", "rejected"} /\ e.batch = batch /\ e.id \in Elements(listed)
          /\ e.kind = "done" =>
                \/ e.how = "stop" /\ e.n = Output[e.id]
                \/ e.how = "cancelled" /\ e.n <= Output[e.id] /\ e.id \in cancelSent
          /\ e.kind = "rejected" => e.limit \in 1..ContextLimit
      BY <3>1 DEF e
    <3> QED
      BY <3>1, <3>3, <3>4, <3>5, <3>6 DEF Acceptable
  <2> QED
    BY <2>1, <2>2
<1>11. ASSUME NEW i \in 1..Len(p), NEW j \in 1..Len(p) PROVE InOrder(p, i, j)
  <2>1. CASE j \in 1..Len(q)
    <3>1. i < j => i \in 1..Len(q)
      BY <2>1, <1>1
    <3>2. i \in 1..Len(q) => InOrder(q, i, j)
      BY <2>1 DEF Framed
    <3> QED
      BY <3>1, <3>2, <2>1, <1>1 DEF InOrder, About
  <2>2. CASE j \notin 1..Len(q)
    <3> DEFINE k == j - Len(q)
               e == es[k]
    <3>1. k \in 1..Len(es) /\ p[j] = e
      BY <2>2, <1>1
    <3>2. SUFFICES ASSUME i < j, About(p, i, e.id)
                   PROVE  /\ p[i].kind = "token" /\ e.kind # "rejected"
                          /\ e.kind = "done" => p[i].n <= e.n
      BY <3>1 DEF InOrder
    <3>3. i \in 1..Len(q)
      <4>1. CASE i \notin 1..Len(q)
        <5>1. i - Len(q) \in 1..Len(es) /\ es[i - Len(q)].id = e.id
          BY <4>1, <3>2, <1>1 DEF About
        <5>2. i - Len(q) = k
          BY <5>1, <3>1
        <5> QED
          BY <5>2, <3>2, <1>1
      <4> QED
        BY <4>1
    <3>4. About(q, i, e.id) /\ p[i] = q[i] /\ q[i] \in Frame
      BY <3>3, <3>2, <1>1, <1>3 DEF About
    <3>5. ~EndIn(q, e.id)
      BY <3>1 DEF Ended
    <3>6. q[i].kind = "token"
      BY <3>3, <3>4, <3>5 DEF EndIn
    <3>7. e.kind # "rejected"
      BY <3>1, <3>3, <3>4 DEF Untouched, Silent
    <3>8. e.kind = "done" => q[i].n <= e.n
      BY <3>1, <3>3, <3>4, <3>6 DEF Latest, About
    <3> QED
      BY <3>4, <3>6, <3>7, <3>8
  <2> QED
    BY <2>1, <2>2
<1>12. Framed(p)
  BY <1>10, <1>11 DEF Framed
<1> QED
  BY <1>2, <1>5, <1>6, <1>9, <1>12 DEF Ended

\* The last frame of a batch tells of no request.
LEMMA LastPipe ==
  ASSUME NEW q \in Seq(Frame), NEW e \in Frame, Framed(q), got \in [Requests -> Nat], e.kind \notin RowKinds
  PROVE  /\ Framed(q \o <<e>>)
         /\ \A r \in Requests : Ended(q \o <<e>>, r) <=> Ended(q, r)
         /\ \A r \in Requests : Untouched(q, r) => Untouched(q \o <<e>>, r)
         /\ \A r \in Requests, n \in Nat : Latest(q, r, n) => Latest(q \o <<e>>, r, n)
<1> DEFINE p == q \o <<e>>
<1>1. /\ p \in Seq(Frame) /\ Len(p) = Len(q) + 1 /\ Len(q) \in Nat /\ p[Len(q) + 1] = e
      /\ \A i \in 1..Len(q) : p[i] = q[i]
  <2>1. <<e>> \in Seq(Frame) /\ Len(<<e>>) = 1 /\ <<e>>[1] = e
    BY OneLine
  <2> QED
    BY <2>1, JoinLine
<1>2. p = q \o <<e>>
  OBVIOUS
<1> HIDE DEF p
<1>3. \A r \in Requests : EndIn(p, r) <=> EndIn(q, r)
  <2>1. ASSUME NEW r \in Requests, EndIn(p, r) PROVE EndIn(q, r)
    <3>1. PICK i \in 1..Len(p) : About(p, i, r) /\ p[i].kind # "token"
      BY <2>1 DEF EndIn
    <3>2. i \in 1..Len(q)
      BY <3>1, <1>1 DEF About
    <3> QED
      BY <3>1, <3>2, <1>1 DEF EndIn, About
  <2>2. ASSUME NEW r \in Requests, EndIn(q, r) PROVE EndIn(p, r)
    <3>1. PICK i \in 1..Len(q) : About(q, i, r) /\ q[i].kind # "token"
      BY <2>2 DEF EndIn
    <3> QED
      BY <3>1, <1>1 DEF EndIn, About
  <2> QED
    BY <2>1, <2>2
<1>4. ASSUME NEW r \in Requests, Untouched(q, r) PROVE Untouched(p, r)
  BY <1>1, <1>4 DEF Untouched, Silent, About
<1>5. \A r, n, i : i \in 1..Len(q) + 1 => (Reached(q, r, n, i) <=> Reached(p, r, n, i))
  BY <1>1 DEF Reached, TokenAt
<1>6. ASSUME NEW r \in Requests, NEW n \in Nat, Latest(q, r, n) PROVE Latest(p, r, n)
  <2>1. \A i \in 1..Len(p) : p[i].kind = "token" /\ p[i].id = r => p[i].n <= n
    BY <1>1, <1>6 DEF Latest, RowKinds
  <2>2. Reached(q, r, n, Len(q) + 1)
    BY <1>6 DEF Latest
  <2>3. Reached(p, r, n, Len(p) + 1)
    BY <2>2, <1>1 DEF Reached, TokenAt
  <2> QED
    BY <2>1, <2>3 DEF Latest
<1>7. ASSUME NEW i \in 1..Len(p), p[i].kind \in RowKinds PROVE Acceptable(p, i)
  <2>1. i \in 1..Len(q)
    BY <1>1, <1>7
  <2>2. Acceptable(q, i) /\ p[i] = q[i]
    BY <2>1, <1>1, <1>7 DEF Framed
  <2> QED
    BY <2>1, <2>2, <1>5, <1>1 DEF Acceptable
<1>8. ASSUME NEW i \in 1..Len(p), NEW j \in 1..Len(p) PROVE InOrder(p, i, j)
  <2>1. SUFFICES ASSUME i < j, p[j].kind \in RowKinds PROVE InOrder(p, i, j)
    BY DEF InOrder
  <2>2. i \in 1..Len(q) /\ j \in 1..Len(q)
    BY <2>1, <1>1
  <2>3. InOrder(q, i, j)
    BY <2>2 DEF Framed
  <2> QED
    BY <2>2, <2>3, <1>1 DEF InOrder, About
<1>9. Framed(p)
  BY <1>7, <1>8 DEF Framed
<1> QED
  BY <1>2, <1>3, <1>4, <1>6, <1>9 DEF Ended

\* The client's view of each request goes on as it was.
Flow ==
  \A r \in Requests :
    /\ Ended(toClient, r)' <=> Ended(toClient, r)
    /\ Untouched(toClient, r) => Untouched(toClient, r)'
    /\ \A n \in Nat : Latest(toClient, r, n) => Latest(toClient, r, n)'

\* With the pipe and the answers untouched nothing new was heard.
LEMMA StillFlow ==
  ASSUME UNCHANGED <<toClient, got, answer>>
  PROVE  Flow
  BY DEF Flow, Ended, EndIn, Untouched, Silent, Latest, Reached, TokenAt, About

\* Listing more requests and sending more cancels keeps the pipe acceptable.
LEMMA StillFramed ==
  ASSUME UNCHANGED <<toClient, got, answer, batch>>, Framed(toClient), toClient \in Seq(Frame),
         Elements(listed) \subseteq Elements(listed'), cancelSent \subseteq cancelSent'
  PROVE  Framed(toClient)'
<1>1. ASSUME NEW i \in 1..Len(toClient), toClient[i].kind \in RowKinds PROVE Acceptable(toClient, i)'
  <2>1. Acceptable(toClient, i)
    BY <1>1 DEF Framed
  <2>2. \A r, n : Reached(toClient, r, n, i)' <=> Reached(toClient, r, n, i)
    BY DEF Reached, TokenAt
  <2>3. toClient' = toClient /\ answer' = answer /\ batch' = batch
    OBVIOUS
  <2> QED
    BY <2>1, <2>2, <2>3 DEF Acceptable
<1>2. ASSUME NEW i \in 1..Len(toClient), NEW j \in 1..Len(toClient) PROVE InOrder(toClient, i, j)'
  BY DEF Framed, InOrder, About
<1> QED
  BY <1>1, <1>2 DEF Framed

\* The places of a sequence without its first element.
LEMMA TailPlaces ==
  ASSUME NEW S, NEW q \in Seq(S), q # <<>>
  PROVE  /\ Tail(q) \in Seq(S) /\ Len(q) \in Nat /\ Len(q) >= 1 /\ Len(Tail(q)) = Len(q) - 1
         /\ Head(q) = q[1] /\ q[1] \in S
         /\ \A i \in 1..Len(Tail(q)) : i + 1 \in 1..Len(q) /\ Tail(q)[i] = q[i + 1]
         /\ \A i \in 2..Len(q) : i - 1 \in 1..Len(Tail(q)) /\ Tail(q)[i - 1] = q[i]
<1>1. Tail(q) \in Seq(S) /\ Len(q) \in Nat /\ Len(q) >= 1 /\ Len(Tail(q)) = Len(q) - 1
  BY HeadTailProperties, EmptySeq
<1>2. \A i \in 1..Len(Tail(q)) : Tail(q)[i] = q[i + 1]
  BY HeadTailProperties
<1>3. Head(q) = q[1] /\ q[1] \in S
  BY HeadTailProperties, <1>1
<1> QED
  BY <1>1, <1>2, <1>3

\* A token the client accepts.
LEMMA TokenRead ==
  ASSUME toClient \in Seq(Frame), toClient # <<>>, got \in [Requests -> Nat], Framed(toClient),
         toClient' = Tail(toClient), toClient[1].kind = "token", UNCHANGED <<answer, batch>>,
         toClient[1].n = got[toClient[1].id] + 1,
         got' = [got EXCEPT ![toClient[1].id] = @ + 1],
         Elements(listed) \subseteq Elements(listed'), cancelSent \subseteq cancelSent'
  PROVE  Flow /\ Framed(toClient)'
<1> DEFINE q == toClient
           p == Tail(toClient)
           k == toClient[1].id
           g == got[toClient[1].id] + 1
<1>1. /\ q \in Seq(Frame) /\ Len(q) \in Nat /\ Len(q) >= 1 /\ Len(p) = Len(q) - 1 /\ q[1] \in Frame
      /\ \A i \in 1..Len(p) : i + 1 \in 1..Len(q) /\ p[i] = q[i + 1]
      /\ \A i \in 2..Len(q) : i - 1 \in 1..Len(p) /\ p[i - 1] = q[i]
  BY TailPlaces
<1>2. k \in Requests /\ g \in Nat /\ q[1].n = g /\ q[1].id = k /\ q[1].kind = "token"
  BY <1>1, FrameLine DEF RowKinds
<1>3. /\ got' = [got EXCEPT ![k] = g] /\ got'[k] = g /\ \A r \in Requests \ {k} : got'[r] = got[r]
      /\ got[k] + 1 = g /\ toClient' = p /\ toClient = q
  BY <1>2
<1>12. Framed(q)
  OBVIOUS
<1> HIDE DEF q, p, k, g
<1>13. ASSUME NEW r, NEW n, NEW i, got'[r] = n \/ \E j \in 1..i - 1 : TokenAt(p, j, r, n)
       PROVE  Reached(toClient, r, n, i)'
  <2>1. toClient' = p
    BY <1>3
  <2> QED
    BY <1>13, <2>1 DEF Reached, TokenAt
<1>4. ASSUME NEW r \in Requests PROVE EndIn(q, r) <=> EndIn(p, r)
  <2>1. ASSUME EndIn(q, r) PROVE EndIn(p, r)
    <3>1. PICK i \in 1..Len(q) : About(q, i, r) /\ q[i].kind # "token"
      BY <2>1 DEF EndIn
    <3>2. i \in 2..Len(q)
      BY <3>1, <1>1, <1>2
    <3> QED
      BY <3>1, <3>2, <1>1 DEF EndIn, About
  <2>2. ASSUME EndIn(p, r) PROVE EndIn(q, r)
    <3>1. PICK i \in 1..Len(p) : About(p, i, r) /\ p[i].kind # "token"
      BY <2>2 DEF EndIn
    <3>2. i + 1 \in 1..Len(q) /\ About(q, i + 1, r) /\ q[i + 1].kind # "token"
      BY <3>1, <1>1 DEF About
    <3> QED
      BY <3>2 DEF EndIn
  <2> QED
    BY <2>1, <2>2
<1>5. ASSUME NEW r \in Requests, Untouched(q, r)
      PROVE  got'[r] = 0 /\ answer'[r] = "none" /\ Silent(p, r)
  <2>1. r # k
    BY <1>5, <1>1, <1>2 DEF Untouched, Silent, About, RowKinds
  <2>2. Silent(p, r)
    BY <1>5, <1>1 DEF Untouched, Silent, About
  <2> QED
    BY <2>1, <2>2, <1>3, <1>5 DEF Untouched
<1>6. ASSUME NEW r \in Requests, NEW n \in Nat, NEW i \in 1..Len(q), Reached(q, r, n, i + 1),
             r = k => n >= g
      PROVE  got'[r] = n \/ \E j \in 1..i - 1 : TokenAt(p, j, r, n)
  <2>1. CASE got[r] = n
    BY <2>1, <1>6, <1>2, <1>3
  <2>2. CASE got[r] # n
    <3>1. PICK j \in 1..(i + 1) - 1 : TokenAt(q, j, r, n)
      BY <1>6, <2>2 DEF Reached
    <3>2. CASE j = 1
      BY <3>1, <3>2, <1>2, <1>3 DEF TokenAt
    <3>3. CASE j # 1
      <4>1. j - 1 \in 1..i - 1 /\ j \in 2..Len(q)
        BY <3>3, <1>1
      <4>2. TokenAt(p, j - 1, r, n)
        BY <3>1, <4>1, <1>1 DEF TokenAt
      <4> QED
        BY <4>1, <4>2
    <3> QED
      BY <3>2, <3>3
  <2> QED
    BY <2>1, <2>2
<1>7. ASSUME NEW r \in Requests, NEW n \in Nat, Latest(q, r, n)
      PROVE  /\ got'[r] = n \/ \E j \in 1..(Len(p) + 1) - 1 : TokenAt(p, j, r, n)
             /\ \A i \in 1..Len(p) : p[i].kind = "token" /\ p[i].id = r => p[i].n <= n
  <2>1. r = k => n >= g
    BY <1>7, <1>1, <1>2 DEF Latest
  <2>2. Len(q) \in 1..Len(q) /\ (Len(p) + 1) - 1 = Len(q) - 1
    BY <1>1
  <2>3. Reached(q, r, n, Len(q) + 1)
    BY <1>7 DEF Latest
  <2>4. got'[r] = n \/ \E j \in 1..Len(q) - 1 : TokenAt(p, j, r, n)
    BY <2>1, <2>2, <2>3, <1>6
  <2>5. \A i \in 1..Len(p) : p[i].kind = "token" /\ p[i].id = r => p[i].n <= n
    BY <1>7, <1>1 DEF Latest
  <2> QED
    BY <2>2, <2>4, <2>5
<1>8. Flow
  <2>1. ASSUME NEW r \in Requests PROVE Ended(toClient, r)' <=> Ended(toClient, r)
    <3>1. Ended(toClient, r)' <=> answer'[r] # "none" \/ EndIn(p, r)
      BY <1>3 DEF Ended, EndIn, About
    <3> QED
      BY <3>1, <1>3, <1>4 DEF Ended
  <2>2. ASSUME NEW r \in Requests, Untouched(toClient, r) PROVE Untouched(toClient, r)'
    <3>1. got'[r] = 0 /\ answer'[r] = "none" /\ Silent(p, r)
      BY <2>2, <1>3, <1>5
    <3> QED
      BY <3>1, <1>3 DEF Untouched, Silent, About
  <2>3. ASSUME NEW r \in Requests, NEW n \in Nat, Latest(toClient, r, n) PROVE Latest(toClient, r, n)'
    <3>1. /\ got'[r] = n \/ \E j \in 1..(Len(p) + 1) - 1 : TokenAt(p, j, r, n)
          /\ \A i \in 1..Len(p) : p[i].kind = "token" /\ p[i].id = r => p[i].n <= n
      BY <2>3, <1>3, <1>7
    <3> QED
      BY <3>1, <1>3 DEF Latest, Reached, TokenAt
  <2> QED
    BY <2>1, <2>2, <2>3 DEF Flow
<1>9. ASSUME NEW i \in 1..Len(p), p[i].kind \in RowKinds PROVE Acceptable(toClient, i)'
  <2>0. PICK e \in Frame : e = p[i]
    BY <1>1
  <2>1. i + 1 \in 1..Len(q) /\ e = q[i + 1] /\ i \in 1..Len(q) /\ q[i + 1] \in Frame
    BY <1>1, <2>0
  <2>2. Acceptable(q, i + 1)
    <3>1. q[i + 1].kind \in RowKinds
      BY <2>0, <2>1, <1>9
    <3> QED
      BY <3>1, <2>1, <1>12 DEF Framed
  <2>3. e.id \in Requests /\ (e.kind \in {"token", "done"} => e.n \in Nat) /\ e.kind \in RowKinds
    BY <2>0, <1>9, FrameLine DEF RowKinds
  <2>4. InOrder(q, 1, i + 1)
    BY <2>1, <1>1, <1>3 DEF Framed
  <2>5. e.id = k => /\ e.kind # "rejected"
                    /\ e.kind = "token" => g < e.n
                    /\ e.kind = "done" => g <= e.n
    BY <2>1, <2>3, <2>4, <1>2, <1>1 DEF InOrder, About, RowKinds
  <2>6. e.kind = "token" => e.n - 1 \in Nat /\ (e.id = k => e.n - 1 >= g)
    <3>1. e.kind = "token" => e.n \in Nat /\ e.n >= 1
      BY <2>1, <2>2, <2>3, RequestAssumption DEF Acceptable
    <3> QED
      BY <3>1, <2>5, <1>2
  <2>7. \A n \in Nat : Reached(q, e.id, n, i + 1) /\ (e.id = k => n >= g) => Reached(toClient, e.id, n, i)'
    <3>1. ASSUME NEW n \in Nat, Reached(q, e.id, n, i + 1), e.id = k => n >= g
          PROVE  got'[e.id] = n \/ \E j \in 1..i - 1 : TokenAt(p, j, e.id, n)
      BY <3>1, <2>1, <2>3, <1>6
    <3> QED
      BY <3>1, <1>13
  <2>8. /\ q[i + 1].batch = batch /\ e.id \in Elements(listed) /\ answer[e.id] = "none"
        /\ e.kind = "token" => e.n \in 1..Output[e.id] /\ Reached(q, e.id, e.n - 1, i + 1)
        /\ e.kind = "done" =>
             /\ \/ e.how = "stop" /\ e.n = Output[e.id]
                \/ e.how = "cancelled" /\ e.n <= Output[e.id] /\ e.id \in cancelSent
             /\ Reached(q, e.id, e.n, i + 1)
        /\ e.kind = "rejected" => e.limit \in 1..ContextLimit /\ Reached(q, e.id, 0, i + 1)
    BY <2>1, <2>2 DEF Acceptable
  <2>9. e.kind = "token" => Reached(toClient, e.id, e.n - 1, i)'
    BY <2>6, <2>7, <2>8
  <2>10. e.kind = "done" => Reached(toClient, e.id, e.n, i)'
    BY <2>3, <2>5, <2>7, <2>8
  <2>11. e.kind = "rejected" => Reached(toClient, e.id, 0, i)'
    BY <2>3, <2>5, <2>7, <2>8
  <2>12. toClient'[i] = e /\ e.batch = batch' /\ e.id \in Elements(listed') /\ answer'[e.id] = "none"
    BY <2>1, <2>8, <1>3, <2>0
  <2> QED
    BY <2>8, <2>9, <2>10, <2>11, <2>12 DEF Acceptable
<1>10. ASSUME NEW i \in 1..Len(p), NEW j \in 1..Len(p) PROVE InOrder(toClient, i, j)'
  <2>1. i + 1 \in 1..Len(q) /\ j + 1 \in 1..Len(q) /\ p[i] = q[i + 1] /\ p[j] = q[j + 1]
    BY <1>1
  <2>2. InOrder(q, i + 1, j + 1)
    BY <2>1, <1>3 DEF Framed
  <2>3. i < j => i + 1 < j + 1
    BY <1>1
  <2> QED
    BY <2>1, <2>2, <2>3, <1>3 DEF InOrder, About
<1>11. Framed(toClient)'
  BY <1>3, <1>9, <1>10 DEF Framed
<1> QED
  BY <1>8, <1>11

\* The end of a request the client accepts.
LEMMA EndRead ==
  ASSUME toClient \in Seq(Frame), toClient # <<>>, answer \in [Requests -> {"none", "stop", "cancelled", "rejected"}],
         Framed(toClient), NEW how, how # "none",
         toClient' = Tail(toClient), toClient[1].kind \in {"done", "rejected"}, UNCHANGED <<got, batch>>,
         answer' = [answer EXCEPT ![toClient[1].id] = how],
         Elements(listed) \subseteq Elements(listed'), cancelSent \subseteq cancelSent'
  PROVE  Flow /\ Framed(toClient)'
<1> DEFINE q == toClient
           p == Tail(toClient)
           k == toClient[1].id
<1>1. /\ q \in Seq(Frame) /\ Len(q) \in Nat /\ Len(q) >= 1 /\ Len(p) = Len(q) - 1 /\ q[1] \in Frame
      /\ \A i \in 1..Len(p) : i + 1 \in 1..Len(q) /\ p[i] = q[i + 1]
      /\ \A i \in 2..Len(q) : i - 1 \in 1..Len(p) /\ p[i - 1] = q[i]
  BY TailPlaces
<1>2. k \in Requests /\ q[1].id = k /\ q[1].kind \in {"done", "rejected"} /\ q[1].kind \in RowKinds
  BY <1>1, FrameLine DEF RowKinds
<1>3. /\ answer'[k] = how /\ \A r \in Requests \ {k} : answer'[r] = answer[r]
      /\ toClient' = p /\ toClient = q
  BY <1>2
<1>12. Framed(q)
  OBVIOUS
<1> HIDE DEF q, p, k
<1>13. ASSUME NEW r, NEW n, NEW i, got'[r] = n \/ \E j \in 1..i - 1 : TokenAt(p, j, r, n)
       PROVE  Reached(toClient, r, n, i)'
  <2>1. toClient' = p
    BY <1>3
  <2> QED
    BY <1>13, <2>1 DEF Reached, TokenAt
<1>4. ASSUME NEW r \in Requests PROVE EndIn(q, r) <=> EndIn(p, r) \/ r = k
  <2>1. ASSUME EndIn(q, r), r # k PROVE EndIn(p, r)
    <3>1. PICK i \in 1..Len(q) : About(q, i, r) /\ q[i].kind # "token"
      BY <2>1 DEF EndIn
    <3>2. i \in 2..Len(q)
      BY <3>1, <2>1, <1>1, <1>2 DEF About
    <3> QED
      BY <3>1, <3>2, <1>1 DEF EndIn, About
  <2>2. ASSUME EndIn(p, r) PROVE EndIn(q, r)
    <3>1. PICK i \in 1..Len(p) : About(p, i, r) /\ p[i].kind # "token"
      BY <2>2 DEF EndIn
    <3>2. i + 1 \in 1..Len(q) /\ About(q, i + 1, r) /\ q[i + 1].kind # "token"
      BY <3>1, <1>1 DEF About
    <3> QED
      BY <3>2 DEF EndIn
  <2>3. EndIn(q, k)
    <3>1. 1 \in 1..Len(q) /\ About(q, 1, k) /\ q[1].kind # "token"
      BY <1>1, <1>2 DEF About
    <3> QED
      BY <3>1 DEF EndIn
  <2> QED
    BY <2>1, <2>2, <2>3
<1>5. ASSUME NEW r \in Requests, Untouched(q, r)
      PROVE  got'[r] = 0 /\ answer'[r] = "none" /\ Silent(p, r)
  <2>1. r # k
    BY <1>5, <1>1, <1>2 DEF Untouched, Silent, About
  <2>2. Silent(p, r)
    BY <1>5, <1>1 DEF Untouched, Silent, About
  <2> QED
    BY <2>1, <2>2, <1>3, <1>5 DEF Untouched
<1>6. ASSUME NEW r, NEW n \in Nat, NEW i \in 1..Len(q), Reached(q, r, n, i + 1)
      PROVE  got'[r] = n \/ \E j \in 1..i - 1 : TokenAt(p, j, r, n)
  <2>1. CASE got[r] = n
    BY <2>1
  <2>2. CASE got[r] # n
    <3>1. PICK j \in 1..(i + 1) - 1 : TokenAt(q, j, r, n)
      BY <1>6, <2>2 DEF Reached
    <3>2. j # 1
      BY <3>1, <1>2 DEF TokenAt
    <3>3. j - 1 \in 1..i - 1 /\ j \in 2..Len(q)
      BY <3>2, <1>1
    <3>4. TokenAt(p, j - 1, r, n)
      BY <3>1, <3>3, <1>1 DEF TokenAt
    <3> QED
      BY <3>3, <3>4
  <2> QED
    BY <2>1, <2>2
<1>7. ASSUME NEW r \in Requests, NEW n \in Nat, Latest(q, r, n)
      PROVE  /\ got'[r] = n \/ \E j \in 1..(Len(p) + 1) - 1 : TokenAt(p, j, r, n)
             /\ \A i \in 1..Len(p) : p[i].kind = "token" /\ p[i].id = r => p[i].n <= n
  <2>2. Len(q) \in 1..Len(q) /\ (Len(p) + 1) - 1 = Len(q) - 1
    BY <1>1
  <2>3. Reached(q, r, n, Len(q) + 1)
    BY <1>7 DEF Latest
  <2>4. got'[r] = n \/ \E j \in 1..Len(q) - 1 : TokenAt(p, j, r, n)
    BY <2>2, <2>3, <1>6
  <2>5. \A i \in 1..Len(p) : p[i].kind = "token" /\ p[i].id = r => p[i].n <= n
    BY <1>7, <1>1 DEF Latest
  <2> QED
    BY <2>2, <2>4, <2>5
<1>8. Flow
  <2>1. ASSUME NEW r \in Requests PROVE Ended(toClient, r)' <=> Ended(toClient, r)
    <3>1. Ended(toClient, r)' <=> answer'[r] # "none" \/ EndIn(p, r)
      BY <1>3 DEF Ended, EndIn, About
    <3> QED
      BY <3>1, <1>3, <1>4 DEF Ended
  <2>2. ASSUME NEW r \in Requests, Untouched(toClient, r) PROVE Untouched(toClient, r)'
    <3>1. got'[r] = 0 /\ answer'[r] = "none" /\ Silent(p, r)
      BY <2>2, <1>3, <1>5
    <3> QED
      BY <3>1, <1>3 DEF Untouched, Silent, About
  <2>3. ASSUME NEW r \in Requests, NEW n \in Nat, Latest(toClient, r, n) PROVE Latest(toClient, r, n)'
    <3>1. /\ got'[r] = n \/ \E j \in 1..(Len(p) + 1) - 1 : TokenAt(p, j, r, n)
          /\ \A i \in 1..Len(p) : p[i].kind = "token" /\ p[i].id = r => p[i].n <= n
      BY <2>3, <1>3, <1>7
    <3> QED
      BY <3>1, <1>3 DEF Latest, Reached, TokenAt
  <2> QED
    BY <2>1, <2>2, <2>3 DEF Flow
<1>9. ASSUME NEW i \in 1..Len(p), p[i].kind \in RowKinds PROVE Acceptable(toClient, i)'
  <2>0. PICK e \in Frame : e = p[i]
    BY <1>1
  <2>1. i + 1 \in 1..Len(q) /\ e = q[i + 1] /\ i \in 1..Len(q) /\ q[i + 1] \in Frame
    BY <1>1, <2>0
  <2>2. Acceptable(q, i + 1)
    <3>1. q[i + 1].kind \in RowKinds
      BY <2>0, <2>1, <1>9
    <3> QED
      BY <3>1, <2>1, <1>12 DEF Framed
  <2>3. e.id \in Requests /\ (e.kind \in {"token", "done"} => e.n \in Nat) /\ e.kind \in RowKinds
    BY <2>0, <1>9, FrameLine DEF RowKinds
  <2>4. InOrder(q, 1, i + 1)
    BY <2>1, <1>1, <1>3 DEF Framed
  <2>5. e.id # k
    BY <2>1, <2>3, <2>4, <1>2, <1>1 DEF InOrder, About
  <2>6. e.kind = "token" => e.n - 1 \in Nat
    BY <2>2, <2>3, <2>1, RequestAssumption DEF Acceptable
  <2>7. \A n \in Nat : Reached(q, e.id, n, i + 1) => Reached(toClient, e.id, n, i)'
    <3>1. ASSUME NEW n \in Nat, Reached(q, e.id, n, i + 1)
          PROVE  got'[e.id] = n \/ \E j \in 1..i - 1 : TokenAt(p, j, e.id, n)
      BY <3>1, <2>1, <2>3, <1>6
    <3> QED
      BY <3>1, <1>13
  <2>8. /\ q[i + 1].batch = batch /\ e.id \in Elements(listed) /\ answer[e.id] = "none"
        /\ e.kind = "token" => e.n \in 1..Output[e.id] /\ Reached(q, e.id, e.n - 1, i + 1)
        /\ e.kind = "done" =>
             /\ \/ e.how = "stop" /\ e.n = Output[e.id]
                \/ e.how = "cancelled" /\ e.n <= Output[e.id] /\ e.id \in cancelSent
             /\ Reached(q, e.id, e.n, i + 1)
        /\ e.kind = "rejected" => e.limit \in 1..ContextLimit /\ Reached(q, e.id, 0, i + 1)
    BY <2>1, <2>2 DEF Acceptable
  <2>9. /\ e.kind = "token" => Reached(toClient, e.id, e.n - 1, i)'
        /\ e.kind = "done" => Reached(toClient, e.id, e.n, i)'
        /\ e.kind = "rejected" => Reached(toClient, e.id, 0, i)'
    BY <2>3, <2>6, <2>7, <2>8
  <2>12. toClient'[i] = e /\ e.batch = batch' /\ e.id \in Elements(listed') /\ answer'[e.id] = "none"
    BY <2>1, <2>3, <2>5, <2>8, <1>3, <2>0
  <2> QED
    BY <2>8, <2>9, <2>12 DEF Acceptable
<1>10. ASSUME NEW i \in 1..Len(p), NEW j \in 1..Len(p) PROVE InOrder(toClient, i, j)'
  <2>1. i + 1 \in 1..Len(q) /\ j + 1 \in 1..Len(q) /\ p[i] = q[i + 1] /\ p[j] = q[j + 1]
    BY <1>1
  <2>2. InOrder(q, i + 1, j + 1)
    BY <2>1, <1>3 DEF Framed
  <2>3. i < j => i + 1 < j + 1
    BY <1>1
  <2> QED
    BY <2>1, <2>2, <2>3, <1>3 DEF InOrder, About
<1>11. Framed(toClient)'
  BY <1>3, <1>9, <1>10 DEF Framed
<1> QED
  BY <1>8, <1>11

\* The last frame of a batch says nothing of a request.
LEMMA LastRead ==
  ASSUME toClient \in Seq(Frame), Len(toClient) = 1, toClient[1].kind \notin RowKinds,
         toClient' = Tail(toClient), UNCHANGED <<got, answer>>
  PROVE  Flow /\ Framed(toClient)' /\ toClient' = <<>>
<1>1. toClient # <<>>
  OBVIOUS
<1>2. Len(toClient') = 0 /\ toClient' \in Seq(Frame)
  BY <1>1, TailPlaces
<1>3. toClient' = <<>>
  BY <1>2, EmptySeq
<1>4. ASSUME NEW r \in Requests PROVE ~EndIn(toClient, r) /\ ~EndIn(toClient, r)'
  BY <1>2 DEF EndIn, About, RowKinds
<1>5. ASSUME NEW r \in Requests, Untouched(toClient, r) PROVE Untouched(toClient, r)'
  BY <1>5, <1>2 DEF Untouched, Silent
<1>6. ASSUME NEW r \in Requests, NEW n \in Nat, Latest(toClient, r, n) PROVE Latest(toClient, r, n)'
  BY <1>6, <1>2 DEF Latest, Reached, TokenAt, RowKinds
<1>7. Framed(toClient)'
  BY <1>2 DEF Framed
<1> QED
  BY <1>3, <1>4, <1>5, <1>6, <1>7 DEF Flow, Ended

-----------------------------------------------------------------------------
(* Counting, and what is put into the pipe to the worker *)

\* A sequence that repeats nothing is as long as it has elements.
LEMMA CountLine ==
  ASSUME NEW S, NEW q \in Seq(S)
  PROVE  /\ IsFiniteSet(Elements(q)) /\ Cardinality(Elements(q)) \in Nat /\ Len(q) \in Nat
         /\ IsInjective(q) => Cardinality(Elements(q)) = Len(q)
<1>1. q \in Surjection(1..Len(q), Elements(q)) /\ Len(q) \in Nat
  BY DEF Surjection, Elements, ToSet
<1>2. Cardinality(1..Len(q)) = IF 1 > Len(q) THEN 0 ELSE Len(q) - 1 + 1
  BY <1>1, FS_Interval
<1>3. IsFiniteSet(1..Len(q))
  BY <1>1, FS_Interval
<1>4. IsFiniteSet(Elements(q)) /\ Cardinality(Elements(q)) \in Nat
  BY <1>1, <1>3, FS_Surjection, FS_CardinalityType
<1>5. ASSUME IsInjective(q) PROVE Cardinality(Elements(q)) = Len(q)
  <2>1. q \in Injection(1..Len(q), Elements(q))
    BY <1>1, <1>5 DEF Surjection, Injection, IsInjective
  <2>2. Cardinality(Elements(q)) = Cardinality(1..Len(q))
    BY <1>1, <1>3, <2>1, FS_Surjection
  <2> QED
    BY <1>1, <1>2, <2>2
<1> QED
  BY <1>1, <1>4, <1>5

\* What the members of Distinct are.
LEMMA DistinctLine ==
  ASSUME NEW T \in SUBSET Requests, NEW n \in Nat, NEW s \in Distinct(T, n)
  PROVE  s \in Seq(Requests) /\ IsInjective(s) /\ Len(s) <= n /\ Elements(s) \subseteq T
<1>1. PICK m \in 0..n : s \in [1..m -> T]
  BY DEF Distinct, SeqOf
<1>2. s \in Seq(T) /\ Len(s) = m
  BY <1>1
<1>3. Elements(s) \subseteq T
  BY <1>2, PlacesLine
<1>4. s \in Seq(Requests)
  BY <1>1
<1> QED
  BY <1>1, <1>2, <1>3, <1>4 DEF Distinct

\* Commands and joins are messages, and no cancels.
LEMMA MessagesLine ==
  /\ Command \subseteq Message /\ Joining \subseteq Message
  /\ \A s : (s \in Seq(Command) \/ s \in Seq(Joining)) =>
       s \in Seq(Message) /\ \A i \in 1..Len(s) : s[i].kind # "cancel"
<1>1. Command \subseteq Message /\ Joining \subseteq Message
  BY DEF Command, Joining, Message
<1>2. ASSUME NEW s \in Seq(Command) PROVE s \in Seq(Message) /\ \A i \in 1..Len(s) : s[i].kind # "cancel"
  <2>1. Len(s) \in Nat /\ \A i \in 1..Len(s) : s[i] \in Command
    OBVIOUS
  <2>2. \A i \in 1..Len(s) : s[i] \in Message /\ s[i].kind # "cancel"
    BY <2>1, <1>1 DEF Command
  <2>3. s \in Seq(Message)
    BY <2>1, <2>2
  <2> QED
    BY <2>2, <2>3
<1>3. ASSUME NEW s \in Seq(Joining) PROVE s \in Seq(Message) /\ \A i \in 1..Len(s) : s[i].kind # "cancel"
  <2>1. Len(s) \in Nat /\ \A i \in 1..Len(s) : s[i] \in Joining
    OBVIOUS
  <2>2. \A i \in 1..Len(s) : s[i] \in Message /\ s[i].kind # "cancel"
    BY <2>1, <1>1 DEF Joining
  <2>3. s \in Seq(Message)
    BY <2>1, <2>2
  <2> QED
    BY <2>2, <2>3
<1> QED
  BY <1>1, <1>2, <1>3

\* The rows on their way that the receiver took.
LEMMA TakenRows ==
  ASSUME PipesTyped, NEW number
  PROVE  /\ RowsOf(joins, number) = Carried(joins, number) /\ Carried(joins, number) \in Seq(Requests)
         /\ RowsOf(commands, number) = Carried(commands, number) /\ Carried(commands, number) \in Seq(Requests)
         /\ Carried(toWorker, number) \in Seq(Requests)
  BY MessagesLine, CarriedRows, LoadsType DEF PipesTyped

\* The messages poll_cancels() puts into the pipe.
Sent(fresh) ==
  CancelsOf(Only(listed, Due)) \o IF fresh = <<>> THEN <<>> ELSE <<[kind |-> "join", batch |-> batch, rows |-> fresh]>>

\* A poll sends the cancels that are due and at most one join, and no cancel is left out.
LEMMA SentLine ==
  ASSUME ClientTyped, BoundAssumption, NEW fresh \in Seq(Requests)
  PROVE  /\ Sent(fresh) \in Seq(Message)
         /\ \A i \in 1..Len(Sent(fresh)) :
              \/ Sent(fresh)[i].kind = "cancel" /\ Sent(fresh)[i].id \in Due \cap Elements(listed)
              \/ /\ Sent(fresh)[i].kind = "join" /\ Sent(fresh)[i].batch = batch
                 /\ Sent(fresh)[i].rows = fresh
         /\ \A r \in Due \cap Elements(listed) :
              \E i \in 1..Len(Sent(fresh)) : Sent(fresh)[i].kind = "cancel" /\ Sent(fresh)[i].id = r
         /\ Carried(Sent(fresh), batch) = fresh
<1> DEFINE o == Only(listed, Due)
           c == CancelsOf(o)
           m == [kind |-> "join", batch |-> batch, rows |-> fresh]
           j == IF fresh = <<>> THEN <<>> ELSE <<m>>
<1>1. batch \in Nat /\ listed \in Seq(Requests) /\ Due \subseteq Requests
  BY DEF ClientTyped, BoundAssumption, Due
<1>2. o \in Seq(Requests) /\ Elements(o) = Elements(listed) \cap Due
  BY <1>1, OnlyLine
<1> HIDE DEF o
<1>3. DOMAIN o = 1..Len(o) /\ Len(o) \in Nat /\ \A i \in 1..Len(o) : o[i] \in Requests
  BY <1>2
<1>4. /\ c \in Seq(Message) /\ Len(c) = Len(o)
      /\ \A i \in 1..Len(c) : c[i].kind = "cancel" /\ c[i].id = o[i]
  <2>1. c = [i \in 1..Len(o) |-> [kind |-> "cancel", id |-> o[i]]]
    BY <1>3 DEF CancelsOf
  <2>2. \A i \in 1..Len(o) : [kind |-> "cancel", id |-> o[i]] \in Message
    BY <1>3 DEF Message
  <2> QED
    BY <2>1, <2>2, <1>3
<1> HIDE DEF c
<1>5. \A r : r \in Elements(o) <=> \E i \in 1..Len(o) : o[i] = r
  BY <1>2, PlacesLine
<1>6. /\ j \in Seq(Message) /\ Len(j) \in Nat
      /\ \A i \in 1..Len(j) : j[i].kind = "join" /\ j[i].batch = batch /\ j[i].rows = fresh
  <2>1. CASE fresh = <<>>
    BY <2>1
  <2>2. CASE fresh # <<>>
    <3>1. m \in Message
      BY <1>1 DEF Message
    <3>2. j = <<m>> /\ m.kind = "join" /\ m.batch = batch /\ m.rows = fresh
      BY <2>2
    <3> HIDE DEF m, j
    <3> QED
      BY <3>1, <3>2, OneLine
  <2> QED
    BY <2>1, <2>2
<1>7. Carried(c, batch) = <<>> /\ Carried(c, batch) \in Seq(Requests)
  <2>1. \A i \in 1..Len(c) : Load(c[i], batch) = <<>>
    BY <1>4 DEF Load
  <2> QED
    BY <2>1, <1>4, CarriedElements, LoadsType
<1>8. Carried(j, batch) = fresh
  <2>1. CASE fresh = <<>>
    BY <2>1, CarriedEmpty
  <2>2. CASE fresh # <<>>
    <3>1. m \in Message /\ Load(m, batch) = fresh /\ j = <<m>>
      BY <1>1, <2>2 DEF Message, Load
    <3> HIDE DEF m, j
    <3> QED
      BY <3>1, CarriedOne
  <2> QED
    BY <2>1, <2>2
<1>9. Sent(fresh) = c \o j
  BY DEF Sent, c, o
<1> HIDE DEF j
<1>10. Carried(c \o j, batch) = fresh
  <2>1. Carried(c \o j, batch) = Carried(c, batch) \o Carried(j, batch)
    BY <1>4, <1>6, CarriedConcat
  <2> QED
    BY <2>1, <1>7, <1>8, ConcatEmptySeq
<1>11. /\ Sent(fresh) \in Seq(Message) /\ Len(Sent(fresh)) = Len(c) + Len(j) /\ Len(c) \in Nat
       /\ \A i \in 1..Len(c) : Sent(fresh)[i] = c[i]
       /\ \A k \in 1..Len(Sent(fresh)) : k \notin 1..Len(c) => k - Len(c) \in 1..Len(j) /\ Sent(fresh)[k] = j[k - Len(c)]
  <2>1. c \in Seq(Message) /\ j \in Seq(Message)
    BY <1>4, <1>6
  <2>2. /\ c \o j \in Seq(Message) /\ Len(c \o j) = Len(c) + Len(j) /\ Len(c) \in Nat
        /\ \A i \in 1..Len(c) : (c \o j)[i] = c[i]
        /\ \A k \in 1..Len(c \o j) : k \notin 1..Len(c) => k - Len(c) \in 1..Len(j) /\ (c \o j)[k] = j[k - Len(c)]
    BY <2>1, JoinLine
  <2> QED
    BY <2>2, <1>9
<1>12. ASSUME NEW i \in 1..Len(Sent(fresh))
       PROVE \/ Sent(fresh)[i].kind = "cancel" /\ Sent(fresh)[i].id \in Due \cap Elements(listed)
             \/ /\ Sent(fresh)[i].kind = "join" /\ Sent(fresh)[i].batch = batch /\ Sent(fresh)[i].rows = fresh
  <2>1. CASE i \in 1..Len(c)
    BY <2>1, <1>11, <1>4, <1>5, <1>2
  <2>2. CASE i \notin 1..Len(c)
    BY <2>2, <1>11, <1>6
  <2> QED
    BY <2>1, <2>2
<1>13. ASSUME NEW r \in Due \cap Elements(listed)
       PROVE  \E i \in 1..Len(Sent(fresh)) : Sent(fresh)[i].kind = "cancel" /\ Sent(fresh)[i].id = r
  <2>1. PICK i \in 1..Len(o) : o[i] = r
    BY <1>2, <1>5
  <2>2. i \in 1..Len(Sent(fresh)) /\ Sent(fresh)[i] = c[i] /\ i \in 1..Len(c)
    BY <1>11, <1>4, <1>6
  <2> QED
    BY <2>1, <2>2, <1>4
<1> QED
  BY <1>9, <1>10, <1>11, <1>12, <1>13

-----------------------------------------------------------------------------
(* What others leave alone *)

\* The worker's rows are requests.
LEMMA JobLine ==
  ASSUME WorkerTyped
  PROVE  /\ Live \subseteq Requests /\ Started \subseteq Requests /\ Running \subseteq Requests
         /\ Elements(allIds) \subseteq Requests /\ Elements(todo) \subseteq Requests
         /\ Elements(report) \subseteq Requests /\ Elements(joined) \subseteq Requests
         /\ Elements(waiting) \subseteq Requests /\ Elements(leftovers) \subseteq Requests
         /\ Elements(rotation) \subseteq Requests /\ Elements(arriving) \subseteq Requests
  BY PlacesLine DEF WorkerTyped, Live, Started, Running

\* The rows of the worker are untouched by the client and by the receiver.
LEMMA WorkUndisturbed ==
  ASSUME WorkerTyped, Worked, Engined, Flow,
         UNCHANGED <<wpc, batchVars, streamVars, runVars, registered>>,
         flagged \subseteq flagged', flagged' \subseteq registered
  PROVE  Worked' /\ Engined'
<1>1. UNCHANGED <<wpc, allIds, report, skipped, joined, waiting, leftovers, sent, stopped, finished,
                 rotation, arriving, todo, made, done, registered>>
  BY DEF batchVars, streamVars, runVars
<1>2. /\ Live' = Live /\ Started' = Started /\ Running' = Running
      /\ (InRun' <=> InRun) /\ (Busy' <=> Busy) /\ (Apart' <=> Apart)
  BY <1>1 DEF Live, Started, Running, InRun, Busy, Apart
<1>3. Engined'
  BY <1>1, <1>2 DEF Engined
<1>4. sent \in [Requests -> Nat]
  BY DEF WorkerTyped
<1>5. ASSUME NEW r \in Requests, Progress(r) PROVE Progress(r)'
  <2>1. r \in finished' <=> Ended(toClient, r)'
    BY <1>1, <1>5 DEF Progress, Flow
  <2>2. Latest(toClient, r, sent[r])'
    <3>1. sent[r] \in Nat /\ sent'[r] = sent[r]
      BY <1>1, <1>4
    <3>2. Latest(toClient, r, sent[r])
      BY <1>5 DEF Progress
    <3>3. PICK n \in Nat : n = sent[r]
      BY <3>1
    <3>4. Latest(toClient, r, n)'
      BY <3>2, <3>3 DEF Flow
    <3> QED
      BY <3>1, <3>3, <3>4
  <2> QED
    BY <2>1, <2>2, <1>1, <1>5 DEF Progress
<1>6. ASSUME Busy
      PROVE  /\ \A r \in Elements(allIds') : Ended(toClient, r)' \/ r \in Live'
             /\ \A r \in Live' \ Started' : Untouched(toClient, r)'
             /\ \A r \in Started' : Progress(r)'
             /\ \A r \in finished' : Ended(toClient, r)'
  <2>1. /\ \A r \in Elements(allIds) : Ended(toClient, r) \/ r \in Live
        /\ \A r \in Live \ Started : Untouched(toClient, r)
        /\ \A r \in Started : Progress(r)
        /\ \A r \in finished : Ended(toClient, r)
    BY <1>6 DEF Worked
  <2>2. /\ Live \subseteq Requests /\ Started \subseteq Requests /\ Elements(allIds) \subseteq Requests
    BY JobLine
  <2>3. \A r \in Elements(allIds') : Ended(toClient, r)' \/ r \in Live'
    BY <2>1, <2>2, <1>1, <1>2 DEF Flow
  <2>4. \A r \in Live' \ Started' : Untouched(toClient, r)'
    BY <2>1, <2>2, <1>1, <1>2 DEF Flow
  <2>5. \A r \in Started' : Progress(r)'
    BY <2>1, <2>2, <1>2, <1>5
  <2>6. \A r \in finished' : Ended(toClient, r)'
    <3>1. finished \subseteq Requests
      BY DEF WorkerTyped
    <3> QED
      BY <2>1, <3>1, <1>1 DEF Flow
  <2> QED
    BY <2>3, <2>4, <2>5, <2>6
<1>7. Worked'
  <2>1. ASSUME Busy'
        PROVE  /\ Apart' /\ Live' \subseteq Elements(allIds') /\ stopped' \subseteq flagged'
               /\ wpc' = "round" => joined' = <<>> /\ leftovers' = <<>>
               /\ wpc' \in {"round", "prefill", "report"} => waiting' = <<>>
               /\ InRun' => report' # <<>> /\ skipped' \subseteq flagged' \cap Elements(report')
    BY <2>1, <1>1, <1>2 DEF Worked
  <2>2. /\ flagged' \subseteq registered'
        /\ wpc' = "wait" =>
             /\ registered' = {} /\ joined' = <<>> /\ waiting' = <<>> /\ leftovers' = <<>>
             /\ stopped' = {} /\ finished' = {}
    BY <1>1 DEF Worked
  <2> QED
    BY <2>1, <2>2, <1>2, <1>6 DEF Worked
<1> QED
  BY <1>3, <1>7

-----------------------------------------------------------------------------
(* The client polls and reads *)

\* The pipe's end is as it was.
PipeSame ==
  /\ toClient = <<>> => toClient' = <<>>
  /\ toClient' \in Seq(Frame)
  /\ Closed' <=> Closed
  /\ Closed => Final' = Final
  /\ \A i \in 1..Len(toClient') - 1 : toClient'[i].kind \in RowKinds

Fresh(fresh) ==
  /\ fresh \in Seq(Requests) /\ IsInjective(fresh)
  /\ Elements(fresh) \subseteq free \ cancelled /\ Len(fresh) <= Room

\* poll_cancels() and what the client lists.
Polled(fresh) ==
  /\ client = "running" /\ Fresh(fresh)
  /\ toWorker' = toWorker \o Sent(fresh)
  /\ cancelSent' = cancelSent \cup (Due \cap Elements(listed))
  /\ UNCHANGED <<machine, cancelled, batch, initial, receiverVars, wpc, batchVars, streamVars, runVars>>

Grows(fresh) ==
  /\ Polled(fresh) /\ client' = "running"
  /\ listed' = listed \o fresh /\ free' = free \ Elements(fresh)

\* An untouched pipe ends as it did.
LEMMA StillPipe ==
  ASSUME UNCHANGED toClient, PipesTyped, Phased
  PROVE  PipeSame
  BY DEF PipeSame, Closed, Final, PipesTyped, Phased

\* The next frame is of a row.
LEMMA HeadPipe ==
  ASSUME PipesTyped, Phased, toClient # <<>>, toClient' = Tail(toClient), toClient[1].kind \in RowKinds
  PROVE  PipeSame
<1> DEFINE q == toClient
           p == Tail(toClient)
<1>1. /\ p \in Seq(Frame) /\ Len(q) \in Nat /\ Len(q) >= 1 /\ Len(p) = Len(q) - 1
      /\ \A i \in 1..Len(p) : i + 1 \in 1..Len(q) /\ p[i] = q[i + 1]
  BY TailPlaces DEF PipesTyped
<1>2. \A i \in 1..Len(q) - 1 : q[i].kind \in RowKinds
  BY DEF Phased
<1>3. toClient' = p /\ toClient = q
  OBVIOUS
<1> HIDE DEF p, q
<1>4. \A i \in 1..Len(p) - 1 : p[i].kind \in RowKinds
  BY <1>1, <1>2
<1>5. CASE Len(q) = 1
  <2>1. ~Closed
    BY <1>3, <1>5 DEF Closed, Final, RowKinds
  <2>2. p = <<>>
    BY <1>1, <1>5, EmptySeq
  <2>3. ~Closed'
    BY <2>2, <1>3 DEF Closed
  <2> QED
    BY <2>1, <2>3, <1>1, <1>3, <1>4 DEF PipeSame
<1>6. CASE Len(q) # 1
  <2>1. p # <<>> /\ q # <<>> /\ Len(p) \in 1..Len(p)
    BY <1>1, <1>6
  <2>2. p[Len(p)] = q[Len(q)]
    BY <2>1, <1>1
  <2>3. Final' = Final
    BY <2>2, <1>3 DEF Final
  <2>4. Closed' <=> Closed
    BY <2>1, <2>3, <1>3 DEF Closed
  <2> QED
    BY <2>3, <2>4, <1>1, <1>3, <1>4 DEF PipeSame
<1> QED
  BY <1>5, <1>6

\* The pipe to the worker after a poll.
LEMMA PolledPipe ==
  ASSUME Typed, NEW fresh, Polled(fresh)
  PROVE  /\ toWorker' \in Seq(Message) /\ Len(toWorker') = Len(toWorker) + Len(Sent(fresh)) /\ Len(toWorker) \in Nat
         /\ \A i \in 1..Len(toWorker) : toWorker'[i] = toWorker[i]
         /\ \A i \in 1..Len(toWorker') : i \notin 1..Len(toWorker) =>
              \/ toWorker'[i].kind = "cancel" /\ toWorker'[i].id \in Due \cap Elements(listed)
              \/ toWorker'[i].kind = "join" /\ toWorker'[i].batch = batch /\ toWorker'[i].rows = fresh
         /\ \A r \in Due \cap Elements(listed) :
              \E i \in 1..Len(toWorker') : i \notin 1..Len(toWorker) /\ toWorker'[i].kind = "cancel" /\ toWorker'[i].id = r
         /\ Carried(toWorker', batch) = Carried(toWorker, batch) \o fresh
         /\ Carried(toWorker, batch) \in Seq(Requests) /\ fresh \in Seq(Requests)
<1> DEFINE s == Sent(fresh)
           w == toWorker
<1>1. toWorker \in Seq(Message) /\ ClientTyped /\ fresh \in Seq(Requests) /\ toWorker' = w \o s
  BY DEF Typed, PipesTyped, Polled, Fresh
<1>2. /\ s \in Seq(Message) /\ Carried(s, batch) = fresh
      /\ \A i \in 1..Len(s) :
              \/ s[i].kind = "cancel" /\ s[i].id \in Due \cap Elements(listed)
              \/ s[i].kind = "join" /\ s[i].batch = batch /\ s[i].rows = fresh
      /\ \A r \in Due \cap Elements(listed) :
              \E i \in 1..Len(s) : s[i].kind = "cancel" /\ s[i].id = r
  BY <1>1, SentLine, BoundAssumption
<1> HIDE DEF s
<1>3. /\ w \o s \in Seq(Message) /\ Len(w \o s) = Len(w) + Len(s) /\ Len(w) \in Nat /\ Len(s) \in Nat
      /\ \A i \in 1..Len(w) : (w \o s)[i] = w[i]
      /\ \A i \in 1..Len(s) : (w \o s)[Len(w) + i] = s[i]
      /\ \A k \in 1..Len(w \o s) : k \notin 1..Len(w) => k - Len(w) \in 1..Len(s) /\ (w \o s)[k] = s[k - Len(w)]
  BY <1>1, <1>2, JoinLine
<1>4. Carried(w \o s, batch) = Carried(w, batch) \o fresh
  <2>1. Carried(w \o s, batch) = Carried(w, batch) \o Carried(s, batch)
    <3>1. w \in Seq(Message) /\ s \in Seq(Message)
      BY <1>1, <1>2
    <3> QED
      BY ONLY <3>1, CarriedConcat
  <2> QED
    BY <2>1, <1>2
<1>5. Carried(toWorker, batch) \in Seq(Requests)
  BY <1>1, LoadsType
<1>6. w = toWorker /\ s = Sent(fresh)
  BY DEF s
<1> HIDE DEF w
<1>7. ASSUME NEW i \in 1..Len(toWorker'), i \notin 1..Len(w)
      PROVE  \/ toWorker'[i].kind = "cancel" /\ toWorker'[i].id \in Due \cap Elements(listed)
             \/ toWorker'[i].kind = "join" /\ toWorker'[i].batch = batch /\ toWorker'[i].rows = fresh
  <2>1. i - Len(w) \in 1..Len(s) /\ toWorker'[i] = s[i - Len(w)]
    BY <1>1, <1>3, <1>7
  <2> QED
    BY <2>1, <1>2
<1>8. ASSUME NEW r \in Due \cap Elements(listed)
      PROVE  \E i \in 1..Len(toWorker') : i \notin 1..Len(w) /\ toWorker'[i].kind = "cancel" /\ toWorker'[i].id = r
  <2>1. PICK i \in 1..Len(s) : s[i].kind = "cancel" /\ s[i].id = r
    BY <1>2
  <2>2. Len(w) + i \in 1..Len(toWorker') /\ Len(w) + i \notin 1..Len(w) /\ toWorker'[Len(w) + i] = s[i]
    BY <1>1, <1>3
  <2> QED
    BY <2>1, <2>2
<1> QED
  BY <1>1, <1>3, <1>4, <1>5, <1>6, <1>7, <1>8

\* A poll sends no command, and what it sends belongs to this batch.
LEMMA PolledMessages ==
  ASSUME Typed, Phased, NEW fresh, Polled(fresh)
  PROVE  /\ NoGenerate => NoGenerate'
         /\ \A i \in 1..Len(toWorker') : toWorker'[i].kind # "cancel" => toWorker'[i].batch <= batch'
         /\ \A g \in 1..Len(toWorker) : AskedAt(g) => g \in 1..Len(toWorker') /\ AskedAt(g)'
<1>1. /\ Len(toWorker) \in Nat /\ Len(toWorker') \in Nat /\ Len(toWorker') >= Len(toWorker)
      /\ \A i \in 1..Len(toWorker) : toWorker'[i] = toWorker[i]
      /\ \A i \in 1..Len(toWorker') : i \notin 1..Len(toWorker) =>
           /\ toWorker'[i].kind \in {"cancel", "join"}
           /\ toWorker'[i].kind = "join" => toWorker'[i].batch = batch
  <2>1. toWorker' \in Seq(Message) /\ toWorker \in Seq(Message) /\ Sent(fresh) \in Seq(Message)
    BY PolledPipe, SentLine, BoundAssumption DEF Typed, PipesTyped, Polled, Fresh
  <2> QED
    BY <2>1, PolledPipe
<1>2. batch' = batch /\ initial' = initial /\ batch \in Nat
  BY BoundAssumption DEF Polled, Typed, ClientTyped
<1>3. ASSUME NoGenerate PROVE NoGenerate'
  BY <1>1, <1>3 DEF NoGenerate
<1>4. ASSUME NEW i \in 1..Len(toWorker'), toWorker'[i].kind # "cancel" PROVE toWorker'[i].batch <= batch'
  <2>1. CASE i \in 1..Len(toWorker)
    BY <2>1, <1>1, <1>2, <1>4 DEF Phased
  <2>2. CASE i \notin 1..Len(toWorker)
    BY <2>2, <1>1, <1>2, <1>4
  <2> QED
    BY <2>1, <2>2
<1>5. ASSUME NEW g \in 1..Len(toWorker), AskedAt(g) PROVE g \in 1..Len(toWorker') /\ AskedAt(g)'
  <2>1. g \in 1..Len(toWorker') /\ toWorker'[g] = toWorker[g]
    BY <1>1
  <2>2. \A j \in 1..Len(toWorker') : j # g => toWorker'[j].kind # "generate"
    BY <1>1, <1>5 DEF AskedAt
  <2>3. \A j \in 1..g - 1 : toWorker'[j].kind # "cancel" => toWorker'[j].batch < batch'
    BY <1>1, <1>2, <1>5 DEF AskedAt
  <2> QED
    BY <2>1, <2>2, <2>3, <1>2, <1>5 DEF AskedAt
<1> QED
  BY <1>3, <1>4, <1>5

\* A poll, or a row's frame, leaves the phase of the batch as it is.
LEMMA GrownPhased ==
  ASSUME Typed, Phased, NEW fresh, Grows(fresh), PipeSame, Flow
  PROVE  Phased' /\ Taken' = Taken /\ (Broken' <=> Broken)
<1>1. /\ UNCHANGED <<batch, initial, commands, joins, wpc, wbatch, allIds, faulted>>
      /\ client = "running" /\ client' = "running"
  BY DEF Grows, Polled, receiverVars, batchVars, machine
<1>2. (Closed' <=> Closed) /\ (Closed => Final' = Final) /\ (toClient = <<>> => toClient' = <<>>)
  BY DEF PipeSame
<1>3. Broken' <=> Broken
  BY <1>2 DEF Broken, Closed
<1>4. (Busy' <=> Busy) /\ Taken' = Taken
  BY <1>1, <1>2 DEF Busy, Taken
<1>5. /\ NoGenerate => NoGenerate'
      /\ \A i \in 1..Len(toWorker') : toWorker'[i].kind # "cancel" => toWorker'[i].batch <= batch'
      /\ \A g \in 1..Len(toWorker) : AskedAt(g) => g \in 1..Len(toWorker') /\ AskedAt(g)'
  BY PolledMessages DEF Grows
<1>6. ASSUME Asked PROVE Asked'
  BY <1>6, <1>1, <1>2, <1>4, <1>5 DEF Asked
<1>7. ASSUME Commanded PROVE Commanded'
  BY <1>7, <1>1, <1>2, <1>4, <1>5 DEF Commanded
<1>8. ASSUME Working PROVE Working'
  BY <1>8, <1>1, <1>2, <1>4, <1>5 DEF Working
<1>9. ASSUME Ending PROVE Ending'
  <2>1. ASSUME ~Broken, NEW r \in Elements(Final.ids) PROVE Ended(toClient, r)'
    <3>1. Final \in Frame /\ Final.kind = "batch_done"
      <4>1. toClient \in Seq(Frame) /\ Closed /\ toClient # <<>>
        BY <1>9 DEF Typed, PipesTyped, Ending, Closed
      <4>2. Len(toClient) \in 1..Len(toClient)
        BY <4>1, EmptySeq
      <4> QED
        BY <4>1, <4>2, <2>1 DEF Final, Closed, Broken
    <3>2. r \in Requests
      BY <3>1, <2>1, FrameLine, PlacesLine
    <3> QED
      BY <3>2, <2>1, <1>9 DEF Ending, Flow
  <2> QED
    BY <2>1, <1>1, <1>2, <1>3, <1>4, <1>5, <1>9 DEF Ending
<1>10. Asked' \/ Commanded' \/ Working' \/ Ending'
  BY <1>1, <1>6, <1>7, <1>8, <1>9 DEF Phased
<1>11. /\ \A i \in 1..Len(joins') : joins'[i].batch <= batch'
       /\ \A i \in 1..Len(toClient') - 1 : toClient'[i].kind \in RowKinds
  BY <1>1 DEF Phased, PipeSame
<1> QED
  BY <1>1, <1>3, <1>4, <1>5, <1>10, <1>11 DEF Phased

\* What the client lists is still what the worker took and what is on its way.
LEMMA GrownAccounted ==
  ASSUME Typed, Phased, Accounted, Kept, NEW fresh, Grows(fresh), PipeSame, Flow,
         \A r \in Requests : answer[r] # "none" => answer'[r] # "none"
  PROVE  Accounted' /\ Kept'
<1>1. /\ UNCHANGED <<batch, commands, joins, registered, allIds, wpc>>
      /\ client = "running" /\ client' = "running" /\ Fresh(fresh) /\ Polled(fresh)
      /\ listed' = listed \o fresh /\ free' = free \ Elements(fresh)
  BY DEF Grows, Polled, receiverVars, batchVars
<1>2. Taken' = Taken /\ (Broken' <=> Broken)
  BY GrownPhased
<1>3. listed \in Seq(Requests) /\ fresh \in Seq(Requests) /\ free \subseteq Requests /\ registered \subseteq Requests
  BY <1>1 DEF Typed, ClientTyped, WorkerTyped, Fresh
<1>4. Elements(fresh) \cap Elements(listed) = {} /\ IsInjective(fresh) /\ Elements(fresh) \subseteq free
  BY <1>1 DEF Fresh, Kept
<1>5. IsInjective(listed') /\ Elements(listed') = Elements(listed) \cup Elements(fresh)
  BY <1>1, <1>3, <1>4, ConcatLine DEF Accounted
<1>6. PICK X \in Seq(Requests) : Share(X)
  BY <1>1 DEF Accounted
<1>7. Split(X)'
  <2> DEFINE c == Carried(commands, batch)
             j == Carried(joins, batch)
             w == Carried(toWorker, batch)
             h == (X \o c) \o j
  <2>1. c \in Seq(Requests) /\ j \in Seq(Requests) /\ w \in Seq(Requests)
    BY TakenRows DEF Typed
  <2>2. Carried(toWorker', batch) = w \o fresh
    BY <1>1, PolledPipe
  <2>3. listed = h \o w
    BY <1>6 DEF Share, Split
  <2>4. h \in Seq(Requests)
    BY <2>1
  <2>5. Split(X)' <=> listed' = h \o Carried(toWorker', batch)
    BY <1>1 DEF Split
  <2> HIDE DEF h, w, c, j
  <2>6. (h \o w) \o fresh = h \o (w \o fresh)
    <3>1. h \in Seq(Requests) /\ w \in Seq(Requests) /\ fresh \in Seq(Requests)
      BY <2>1, <2>4, <1>3
    <3> QED
      BY ONLY <3>1, ConcatAssociative
  <2> QED
    BY <2>2, <2>3, <2>5, <2>6, <1>1
<1>8. ASSUME NEW r \in Elements(listed') \ Elements(X) PROVE Untouched(toClient, r)'
  <2>1. r \in Requests
    BY <1>3, <1>5, PlacesLine
  <2>2. Untouched(toClient, r)
    BY <1>4, <1>5, <1>6 DEF Share, Kept
  <2> QED
    BY <2>1, <2>2 DEF Flow
<1>9. \A r \in registered' : answer'[r] # "none" \/ r \in Elements(X)
  BY <1>1, <1>3, <1>6 DEF Share
<1>10. Share(X)'
  BY <1>2, <1>6, <1>7, <1>8, <1>9 DEF Share
<1>11. Accounted'
  BY <1>1, <1>5, <1>10 DEF Accounted
<1>12. Kept'
  BY <1>1, <1>3, <1>5 DEF Kept, Flow
<1> QED
  BY <1>11, <1>12

\* Each cancel the client counts as sent was asked for by its caller.
LEMMA PolledCaused ==
  ASSUME Typed, Caused, NEW fresh, Polled(fresh), Elements(listed') \subseteq Elements(listed) \cup Elements(fresh)
  PROVE  Caused'
<1>1. /\ UNCHANGED <<cancelled, flagged, pending>> /\ cancelSent' = cancelSent \cup (Due \cap Elements(listed))
      /\ Elements(fresh) \cap cancelled = {}
  BY DEF Polled, receiverVars, Fresh
<1>2. Due \subseteq cancelled
  BY DEF Due
<1>3. /\ Len(toWorker) \in Nat /\ \A i \in 1..Len(toWorker) : toWorker'[i] = toWorker[i]
      /\ \A i \in 1..Len(toWorker') : i \notin 1..Len(toWorker) /\ toWorker'[i].kind = "cancel" =>
           toWorker'[i].id \in Due \cap Elements(listed)
  <2>1. \A i \in 1..Len(toWorker') : i \notin 1..Len(toWorker) =>
              \/ toWorker'[i].kind = "cancel" /\ toWorker'[i].id \in Due \cap Elements(listed)
              \/ toWorker'[i].kind = "join" /\ toWorker'[i].batch = batch /\ toWorker'[i].rows = fresh
    BY PolledPipe
  <2>2. Len(toWorker) \in Nat /\ \A i \in 1..Len(toWorker) : toWorker'[i] = toWorker[i]
    BY PolledPipe
  <2> QED
    BY <2>1, <2>2
<1>4. ASSUME NEW r \in Requests, Heeded(r)' PROVE Heeded(r) \/ r \in cancelSent'
  BY <1>1, <1>3, <1>4 DEF Heeded, IsCancel
<1>5. ASSUME NEW r \in Requests, Heeded(r)'
      PROVE  r \in cancelled' /\ (r \in Elements(listed') => r \in cancelSent')
  BY <1>1, <1>2, <1>4, <1>5 DEF Caused
<1> QED
  BY <1>1, <1>2, <1>5 DEF Caused

\* A dense plan keeps a slot for each request that is open.
LEMMA GrownSeated ==
  ASSUME Typed, Seated, NEW fresh, Grows(fresh),
         \A r \in Requests : answer[r] # "none" => answer'[r] # "none"
  PROVE  Seated'
<1>1. /\ engine' = engine /\ Fresh(fresh) /\ listed' = listed \o fresh
      /\ listed \in Seq(Requests) /\ fresh \in Seq(Requests)
  BY DEF Grows, Polled, Fresh, machine, Typed, ClientTyped
<1>2. SUFFICES ASSUME Dense PROVE Cardinality(Open') <= Capacity
  BY <1>1 DEF Seated, Dense
<1>3. /\ IsFiniteSet(Elements(listed)) /\ IsFiniteSet(Elements(fresh))
      /\ Cardinality(Elements(fresh)) = Len(fresh) /\ Len(fresh) \in Nat
  BY <1>1, CountLine DEF Fresh
<1>4. Open \subseteq Elements(listed) /\ IsFiniteSet(Open) /\ Cardinality(Open) \in Nat
  BY <1>3, FS_Subset, FS_CardinalityType DEF Open
<1>5. Cardinality(Open) <= Capacity /\ Capacity \in Nat
  BY <1>2, BoundAssumption DEF Seated
<1>6. Len(fresh) <= Capacity - Cardinality(Open)
  BY <1>1, <1>2, <1>3, <1>4, <1>5 DEF Fresh, Room
<1>7. Open' \subseteq Open \cup Elements(fresh)
  <2>1. Elements(listed') = Elements(listed) \cup Elements(fresh) /\ Elements(listed') \subseteq Requests
    BY <1>1, ConcatLine, PlacesLine
  <2> QED
    BY <2>1 DEF Open
<1>8. /\ IsFiniteSet(Open \cup Elements(fresh))
      /\ Cardinality(Open \cup Elements(fresh)) \in Nat
      /\ Cardinality(Open \cup Elements(fresh)) <= Cardinality(Open) + Cardinality(Elements(fresh))
  <2>1. /\ IsFiniteSet(Open \cup Elements(fresh))
        /\ Cardinality(Open \cup Elements(fresh))
             = Cardinality(Open) + Cardinality(Elements(fresh)) - Cardinality(Open \cap Elements(fresh))
    BY <1>3, <1>4, FS_Union
  <2>2. Cardinality(Open \cap Elements(fresh)) \in Nat
    BY <1>4, FS_Subset, FS_CardinalityType
  <2> QED
    BY <2>1, <2>2, <1>3, <1>4, FS_CardinalityType
<1>9. Cardinality(Open') <= Cardinality(Open \cup Elements(fresh)) /\ Cardinality(Open') \in Nat
  BY <1>7, <1>8, FS_Subset, FS_CardinalityType
<1> QED
  BY <1>3, <1>4, <1>5, <1>6, <1>8, <1>9

\* A poll with or without a row's frame keeps all that relates client and worker.
LEMMA ClientGrown ==
  ASSUME Typed, Sane, NEW fresh, Grows(fresh), PipeSame, Flow, Framed(toClient)',
         \A r \in Requests : answer[r] # "none" => answer'[r] # "none"
  PROVE  Sane'
<1>1. Phased /\ Accounted /\ Kept /\ Caused /\ Worked /\ Engined /\ Seated /\ WorkerTyped
  BY DEF Sane, Typed
<1>2. Phased' /\ Accounted' /\ Kept'
  BY <1>1, GrownPhased, GrownAccounted
<1>3. Caused'
  <2>1. Elements(listed') \subseteq Elements(listed) \cup Elements(fresh) /\ Polled(fresh)
    BY ConcatLine DEF Grows, Polled, Fresh, Typed, ClientTyped
  <2> QED
    BY <2>1, <1>1, PolledCaused
<1>4. Worked' /\ Engined'
  <2>1. /\ UNCHANGED <<wpc, batchVars, streamVars, runVars, registered>>
        /\ flagged' = flagged /\ flagged \subseteq registered
    BY <1>1 DEF Grows, Polled, receiverVars, Worked
  <2> QED
    BY <2>1, <1>1, WorkUndisturbed
<1>5. Seated'
  BY <1>1, GrownSeated
<1> QED
  BY <1>2, <1>3, <1>4, <1>5 DEF Sane

\* A poll with or without a row's frame keeps the types.
LEMMA GrownTyped ==
  ASSUME Typed, NEW fresh, Polled(fresh),
         client' \in {"idle", "running", "failed"}, listed' \in Seq(Requests), free' \subseteq Requests,
         toClient' \in Seq(Frame), got' \in [Requests -> Nat],
         answer' \in [Requests -> {"none", "stop", "cancelled", "rejected"}]
  PROVE  Typed'
<1>1. toWorker' \in Seq(Message)
  BY PolledPipe
<1>2. cancelSent' \subseteq Requests
  BY DEF Polled, Due, Typed, ClientTyped
<1>3. /\ UNCHANGED <<engine, faulted, cancelled, batch, initial, commands, joins, registered, flagged, pending, wpc,
                     wbatch, limit, allIds, report, skipped, joined, waiting, leftovers,
                     sent, stopped, finished, rotation, arriving, todo, made, done>>
  BY DEF Polled, machine, receiverVars, batchVars, streamVars, runVars
<1>4. ClientTyped'
  BY <1>2, <1>3 DEF Typed, ClientTyped
<1>5. PipesTyped'
  BY <1>1, <1>3 DEF Typed, PipesTyped
<1>6. WorkerTyped'
  BY <1>3 DEF Typed, WorkerTyped
<1> QED
  BY <1>3, <1>4, <1>5, <1>6 DEF Typed

\* The room for joiners is never negative.
LEMMA RoomLine ==
  ASSUME ClientTyped
  PROVE  Room \in Nat
<1>1. IsFiniteSet(Elements(listed)) /\ Len(listed) \in Nat /\ Capacity \in Nat
  BY CountLine, BoundAssumption DEF ClientTyped
<1>2. Cardinality(Open) \in Nat
  BY <1>1, FS_Subset, FS_CardinalityType DEF Open
<1> QED
  BY <1>1, <1>2 DEF Room

\* A poll of the idle loop is a poll.
LEMMA PollLine ==
  ASSUME Typed, client = "running", NEW fresh, PollCancels(fresh),
         UNCHANGED <<machine, cancelled, batch, initial, receiverVars, wpc, batchVars, streamVars, runVars>>
  PROVE  Polled(fresh)
<1> DEFINE c == CancelsOf(Only(listed, Due))
           j == IF fresh = <<>> THEN <<>> ELSE <<[kind |-> "join", batch |-> batch, rows |-> fresh]>>
<1>1. Fresh(fresh)
  <2>1. free \cap Requests = free /\ ClientTyped /\ (free \ cancelled) \in SUBSET Requests
    BY DEF Typed, ClientTyped
  <2>2. fresh \in Distinct(free \ cancelled, Room)
    BY DEF PollCancels
  <2> QED
    BY <2>1, <2>2, RoomLine, DistinctLine DEF Fresh
<1>2. toWorker' = (toWorker \o c) \o j
  BY DEF PollCancels
<1>3. Sent(fresh) = c \o j /\ toWorker \in Seq(Message) /\ fresh \in Seq(Requests) /\ ClientTyped
  BY <1>1 DEF Sent, Typed, PipesTyped, Fresh
<1>4. c \in Seq(Message)
  <2>1. Only(listed, Due) \in Seq(Requests)
    BY <1>3, OnlyLine DEF ClientTyped
  <2> DEFINE o == Only(listed, Due)
  <2>2. DOMAIN o = 1..Len(o) /\ Len(o) \in Nat /\ \A i \in 1..Len(o) : o[i] \in Requests
    BY <2>1
  <2>3. c = [i \in 1..Len(o) |-> [kind |-> "cancel", id |-> o[i]]]
    BY <2>2 DEF CancelsOf
  <2>4. \A i \in 1..Len(o) : [kind |-> "cancel", id |-> o[i]] \in Message
    BY <2>2 DEF Message
  <2> HIDE DEF o, c
  <2> QED
    BY <2>2, <2>3, <2>4
<1>5. j \in Seq(Message)
  <2>1. [kind |-> "join", batch |-> batch, rows |-> fresh] \in Message
    BY <1>3, BoundAssumption DEF Message, ClientTyped
  <2> QED
    BY <2>1
<1>6. (toWorker \o c) \o j = toWorker \o (c \o j)
  <2> HIDE DEF c, j
  <2> QED
    BY <1>3, <1>4, <1>5, ConcatAssociative
<1>7. cancelSent' = cancelSent \cup (Due \cap Elements(listed))
  BY DEF PollCancels
<1> HIDE DEF c, j
<1>8. toWorker' = toWorker \o Sent(fresh)
  BY <1>2, <1>3, <1>6
<1> QED
  BY <1>1, <1>7, <1>8 DEF Polled

\* Reading a frame takes the first of the pipe, after a poll.
LEMMA ReadingLine ==
  ASSUME Typed, NEW kind, NEW fresh, Reading(kind, fresh)
  PROVE  /\ client = "running" /\ toClient # <<>> /\ toClient' = Tail(toClient) /\ Polled(fresh)
         /\ Head(toClient) = toClient[1] /\ toClient[1].kind = kind /\ toClient[1] \in Frame
         /\ toClient' \in Seq(Frame)
         /\ UNCHANGED <<batch, sent, made, faulted>> /\ cancelSent \subseteq cancelSent'
         /\ listed \o fresh \in Seq(Requests)
         /\ Elements(listed \o fresh) = Elements(listed) \cup Elements(fresh)
<1>1. client = "running" /\ toClient # <<>> /\ toClient' = Tail(toClient) /\ Head(toClient).kind = kind
  BY DEF Reading
<1>2. Polled(fresh)
  BY PollLine DEF Reading
<1>3. /\ Tail(toClient) \in Seq(Frame) /\ Head(toClient) = toClient[1] /\ toClient[1] \in Frame
  BY <1>1, TailPlaces DEF Typed, PipesTyped
<1>4. listed \o fresh \in Seq(Requests) /\ Elements(listed \o fresh) = Elements(listed) \cup Elements(fresh)
  BY <1>2, ConcatLine DEF Polled, Fresh, Typed, ClientTyped
<1> QED
  BY <1>1, <1>2, <1>3, <1>4 DEF Polled, streamVars, runVars, machine

\* A step that touches no stream of the worker condemns no worker.
LEMMA Intact ==
  ASSUME IInv, Typed', Sane', client' # "failed", UNCHANGED <<sent, made>>
  PROVE  IInv'
  BY DEF IInv, Counted, NeverCondemned

\* Poll keeps the invariant.
LEMMA PollSafe ==
  ASSUME IInv, Poll
  PROVE  IInv'
<1>1. Typed /\ Sane /\ client = "running"
  BY DEF IInv, Poll
<1>2. PICK fresh : /\ PollCancels(fresh)
                   /\ listed' = listed \o fresh
                   /\ free' = free \ Elements(fresh)
  BY DEF Poll
<1>3. UNCHANGED <<toClient, answer, got, client, batch>>
  BY DEF Poll
<1>4. Polled(fresh)
  BY <1>1, <1>2, PollLine DEF Poll
<1>5. Grows(fresh)
  BY <1>1, <1>2, <1>3, <1>4 DEF Grows
<1>6. Flow /\ PipeSame
  BY <1>1, <1>3, StillFlow, StillPipe DEF Typed, Sane
<1>7. listed \o fresh \in Seq(Requests) /\ Elements(listed \o fresh) = Elements(listed) \cup Elements(fresh)
  BY <1>1, <1>4, ConcatLine DEF Polled, Fresh, Typed, ClientTyped
<1>8. Framed(toClient)'
  <2>1. Elements(listed) \subseteq Elements(listed') /\ cancelSent \subseteq cancelSent'
    BY <1>2, <1>4, <1>7 DEF Polled
  <2> QED
    BY <2>1, <1>1, <1>3, StillFramed DEF Sane, Typed, PipesTyped
<1>9. Sane'
  BY <1>1, <1>3, <1>5, <1>6, <1>8, ClientGrown
<1>10. Typed'
  BY <1>1, <1>2, <1>3, <1>4, <1>7, GrownTyped DEF Typed, ClientTyped, PipesTyped
<1>11. UNCHANGED <<sent, made>> /\ client' # "failed"
  BY <1>1, <1>3, <1>4 DEF Polled, streamVars, runVars
<1> QED
  BY <1>9, <1>10, <1>11, Intact

\* ReadToken keeps the invariant: the token is the next one of its request.
LEMMA ReadTokenSafe ==
  ASSUME IInv, ReadToken
  PROVE  IInv'
<1>1. Typed /\ got \in [Requests -> Nat]
  BY DEF IInv, Typed, ClientTyped
<1>2. PICK fresh : /\ Reading("token", fresh)
                   /\ TokenValid(Head(toClient), listed \o fresh)
                   /\ got' = [got EXCEPT ![Head(toClient).id] = @ + 1]
                   /\ listed' = listed \o fresh /\ free' = free \ Elements(fresh)
                   /\ UNCHANGED <<answer, client>>
  BY DEF ReadToken
<1>3. /\ client = "running" /\ toClient # <<>> /\ toClient' = Tail(toClient) /\ Polled(fresh)
      /\ Head(toClient) = toClient[1] /\ toClient[1].kind = "token" /\ toClient[1] \in Frame
      /\ toClient' \in Seq(Frame) /\ UNCHANGED <<batch, sent, made, faulted>> /\ cancelSent \subseteq cancelSent'
      /\ listed \o fresh \in Seq(Requests)
      /\ Elements(listed \o fresh) = Elements(listed) \cup Elements(fresh)
  BY <1>1, <1>2, ReadingLine
<1>4. Sane /\ Framed(toClient) /\ Phased /\ PipesTyped
  BY <1>3 DEF IInv, Sane, Typed
<1>5. Grows(fresh)
  BY <1>2, <1>3 DEF Grows
<1>6. PipeSame
  BY <1>3, <1>4, HeadPipe DEF RowKinds
<1>7. Flow /\ Framed(toClient)'
  <2>1. toClient[1].n = got[toClient[1].id] + 1
    BY <1>2, <1>3 DEF TokenValid
  <2>2. got' = [got EXCEPT ![toClient[1].id] = @ + 1] /\ UNCHANGED <<answer, batch>>
    BY <1>2, <1>3
  <2>3. Elements(listed) \subseteq Elements(listed')
    BY <1>2, <1>3
  <2> QED
    BY <2>1, <2>2, <2>3, <1>1, <1>3, <1>4, TokenRead DEF PipesTyped
<1>8. Sane'
  BY <1>1, <1>2, <1>4, <1>5, <1>6, <1>7, ClientGrown
<1>9. got' \in [Requests -> Nat]
  <2>1. toClient[1].id \in Requests /\ got' = [got EXCEPT ![toClient[1].id] = @ + 1]
    BY <1>2, <1>3, FrameLine DEF RowKinds
  <2> QED
    BY <2>1, <1>1
<1>10. Typed'
  BY <1>1, <1>2, <1>3, <1>9, GrownTyped DEF Typed, ClientTyped
<1> QED
  BY <1>2, <1>3, <1>8, <1>10, Intact

\* The end of a request: how it was answered.
LEMMA EndSafe ==
  ASSUME IInv, NEW kind \in {"done", "rejected"}, NEW fresh, NEW how \in {"stop", "cancelled", "rejected"},
         Reading(kind, fresh),
         answer' = [answer EXCEPT ![Head(toClient).id] = how],
         listed' = listed \o fresh, free' = free \ Elements(fresh), UNCHANGED <<got, client>>
  PROVE  IInv'
<1>1. Typed /\ answer \in [Requests -> {"none", "stop", "cancelled", "rejected"}]
  BY DEF IInv, Typed, ClientTyped
<1>3. /\ client = "running" /\ toClient # <<>> /\ toClient' = Tail(toClient) /\ Polled(fresh)
      /\ Head(toClient) = toClient[1] /\ toClient[1].kind = kind /\ toClient[1] \in Frame
      /\ toClient' \in Seq(Frame) /\ UNCHANGED <<batch, sent, made, faulted>> /\ cancelSent \subseteq cancelSent'
      /\ listed \o fresh \in Seq(Requests)
      /\ Elements(listed \o fresh) = Elements(listed) \cup Elements(fresh)
  BY <1>1, ReadingLine
<1>4. Sane /\ Framed(toClient) /\ Phased /\ PipesTyped
  BY <1>3 DEF IInv, Sane, Typed
<1>5. Grows(fresh)
  BY <1>3 DEF Grows
<1>6. PipeSame
  BY <1>3, <1>4, HeadPipe DEF RowKinds
<1>7. Flow /\ Framed(toClient)'
  <2>1. answer' = [answer EXCEPT ![toClient[1].id] = how] /\ UNCHANGED <<got, batch>> /\ how # "none"
    BY <1>3
  <2>2. Elements(listed) \subseteq Elements(listed')
    BY <1>3
  <2> QED
    BY <2>1, <2>2, <1>1, <1>3, <1>4, EndRead DEF PipesTyped
<1>8. \A r \in Requests : answer[r] # "none" => answer'[r] # "none"
  BY <1>1
<1>9. Sane'
  BY <1>1, <1>4, <1>5, <1>6, <1>7, <1>8, ClientGrown
<1>10. answer' \in [Requests -> {"none", "stop", "cancelled", "rejected"}]
  BY <1>1
<1>11. Typed'
  BY <1>1, <1>3, <1>10, GrownTyped DEF Typed, ClientTyped
<1> QED
  BY <1>3, <1>9, <1>11, Intact

\* ReadDone keeps the invariant: the client has every token of the request.
LEMMA ReadDoneSafe ==
  ASSUME IInv, ReadDone
  PROVE  IInv'
<1>1. PICK fresh : /\ Reading("done", fresh)
                   /\ answer' = [answer EXCEPT ![Head(toClient).id] = Head(toClient).how]
                   /\ listed' = listed \o fresh /\ free' = free \ Elements(fresh)
                   /\ UNCHANGED <<got, client>>
  BY DEF ReadDone
<1>2. Head(toClient).how \in {"stop", "cancelled"}
  <2>1. Head(toClient) = toClient[1] /\ toClient[1].kind = "done" /\ toClient[1] \in Frame
    BY <1>1, ReadingLine DEF IInv
  <2> QED
    BY <2>1, FrameLine
<1> QED
  BY <1>1, <1>2, EndSafe

\* ReadRejected keeps the invariant.
LEMMA ReadRejectedSafe ==
  ASSUME IInv, ReadRejected
  PROVE  IInv'
<1>1. PICK fresh : /\ Reading("rejected", fresh)
                   /\ answer' = [answer EXCEPT ![Head(toClient).id] = "rejected"]
                   /\ listed' = listed \o fresh /\ free' = free \ Elements(fresh)
                   /\ UNCHANGED <<got, client>>
  BY DEF ReadRejected
<1> QED
  BY <1>1, EndSafe

\* A frame that is not of a row is the batch's last.
LEMMA LastHead ==
  ASSUME Typed, Sane, client = "running", toClient # <<>>, toClient[1].kind \notin RowKinds
  PROVE  /\ Len(toClient) = 1 /\ Ending /\ Final = toClient[1] /\ toClient[1] \in Frame
         /\ toClient[1].kind \in {"batch_done", "error"}
<1>1. toClient \in Seq(Frame) /\ Len(toClient) \in Nat /\ Len(toClient) >= 1 /\ toClient[1] \in Frame
  BY TailPlaces DEF Typed, PipesTyped
<1>2. Len(toClient) = 1
  <2>1. \A i \in 1..Len(toClient) - 1 : toClient[i].kind \in RowKinds
    BY DEF Sane, Phased
  <2>2. SUFFICES ASSUME Len(toClient) # 1 PROVE FALSE
    OBVIOUS
  <2>3. 1 \in 1..Len(toClient) - 1
    <3>1. PICK n \in Nat : n = Len(toClient) /\ n >= 1 /\ n # 1
      BY <2>2, <1>1
    <3>2. 1 \in 1..n - 1
      BY ONLY <3>1
    <3> QED
      BY <3>1, <3>2
  <2> QED
    BY <2>1, <2>3
<1>3. toClient[1].kind \in {"batch_done", "error"}
  BY <1>1, FrameLine DEF RowKinds
<1>4. Final = toClient[1] /\ Closed
  BY <1>2, <1>3 DEF Final, Closed
<1>5. Ending
  BY <1>4 DEF Sane, Phased, Asked, Commanded, Working
<1> QED
  BY <1>1, <1>2, <1>3, <1>4, <1>5

\* Every batch_done is right: it names all rows the worker took, and each was answered.
LEMMA DoneRight ==
  ASSUME Typed, Sane, NEW fresh, Polled(fresh), toClient # <<>>, toClient[1].kind = "batch_done"
  PROVE  /\ BatchDoneValid(toClient[1], listed \o fresh)
         /\ Unserved(toClient[1], listed \o fresh) = Elements(listed \o fresh) \ Elements(toClient[1].ids)
         /\ \A r \in Elements(toClient[1].ids) : answer[r] # "none"
         /\ toClient[1].ids \in Seq(Requests) /\ Taken = toClient[1].ids /\ ~Broken
<1> DEFINE f == toClient[1]
           s == listed \o fresh
           ids == toClient[1].ids
           c == Carried(commands, batch)
           j == Carried(joins, batch)
           w == Carried(toWorker, batch)
           rest == ((c \o j) \o w) \o fresh
           b == SubSeq(s, initial + 1, Len(s))
           U == Unserved(f, s)
<1>1. /\ Len(toClient) = 1 /\ Ending /\ Final = f /\ f \in Frame /\ ~Broken /\ f.kind = "batch_done"
      /\ client = "running"
  BY LastHead DEF Polled, RowKinds, Broken
<1>2. ids \in Seq(Requests) /\ Len(ids) \in Nat /\ Elements(ids) \subseteq Requests
  BY <1>1, FrameLine, PlacesLine
<1>3. /\ c \in Seq(Requests) /\ j \in Seq(Requests) /\ w \in Seq(Requests) /\ fresh \in Seq(Requests)
      /\ listed \in Seq(Requests)
  BY TakenRows DEF Typed, ClientTyped, Polled, Fresh
<1>4. Taken = ids
  BY <1>1 DEF Taken, Ending, Busy
<1>5. PICK X \in Seq(Requests) : Share(X)
  BY <1>1 DEF Sane, Accounted
<1>6. X = ids /\ listed = ((ids \o c) \o j) \o w
  BY <1>1, <1>4, <1>5 DEF Share, Split
<1>7. s = ids \o rest /\ rest \in Seq(Requests)
  <2> HIDE DEF c, j, w, ids
  <2> DEFINE cj == c \o j
             cjw == cj \o w
  <2>1. (ids \o c) \o j = ids \o cj /\ cj \in Seq(Requests)
    <3>1. ids \in Seq(Requests) /\ c \in Seq(Requests) /\ j \in Seq(Requests)
      BY <1>2, <1>3
    <3> QED
      BY ONLY <3>1, ConcatAssociative, ConcatProperties
  <2> HIDE DEF cj
  <2>2. (ids \o cj) \o w = ids \o cjw /\ cjw \in Seq(Requests)
    <3>1. ids \in Seq(Requests) /\ cj \in Seq(Requests) /\ w \in Seq(Requests)
      BY <2>1, <1>2, <1>3
    <3> QED
      BY ONLY <3>1, ConcatAssociative, ConcatProperties
  <2> HIDE DEF cjw
  <2>3. (ids \o cjw) \o fresh = ids \o (cjw \o fresh) /\ cjw \o fresh \in Seq(Requests)
    <3>1. ids \in Seq(Requests) /\ cjw \in Seq(Requests) /\ fresh \in Seq(Requests)
      BY <2>2, <1>2, <1>3
    <3> QED
      BY ONLY <3>1, ConcatAssociative, ConcatProperties
  <2>4. s = (ids \o cjw) \o fresh
    BY <2>1, <2>2, <1>6
  <2>5. rest = cjw \o fresh
    BY DEF cj, cjw
  <2> QED
    BY <2>3, <2>4, <2>5
<1>8. IsInjective(s) /\ s \in Seq(Requests)
  BY <1>3, ConcatLine DEF Sane, Accounted, Kept, Polled, Fresh
<1> HIDE DEF f, s, ids, c, j, w, rest, U
<1>9. /\ Elements(s) = Elements(ids) \cup Elements(rest) /\ Elements(ids) \cap Elements(rest) = {}
      /\ Elements(rest) \subseteq Requests /\ Elements(s) \subseteq Requests
  BY <1>2, <1>7, <1>8, ConcatLine, PlacesLine
<1>10. /\ initial \in Nat /\ initial <= Len(ids) /\ f.batch = batch
       /\ \A r \in Elements(ids) : Ended(toClient, r)
  BY <1>1, BoundAssumption DEF Ending, ids, f, Typed, ClientTyped
<1>11. initial \in 0..Len(s) /\ Len(s) = Len(ids) + Len(rest) /\ Len(rest) \in Nat
  BY <1>2, <1>7, <1>10, JoinLine
<1>12. Elements(rest) \subseteq Elements(b) /\ Elements(b) \subseteq Elements(s)
  <2> DEFINE a == SubSeq(s, 1, initial)
  <2>1. /\ a \in Seq(Requests) /\ Len(a) = initial /\ Elements(s) = Elements(a) \cup Elements(b)
        /\ Elements(b) \subseteq Elements(s)
    <3>1. s \in Seq(Requests) /\ initial \in 0..Len(s)
      BY <1>8, <1>11
    <3>2. a \in Seq(Requests) /\ Len(a) = initial
      BY <3>1, CutType
    <3>3. Elements(s) = Elements(a) \cup Elements(b)
      BY <3>1, CutLine
    <3> QED
      BY <3>2, <3>3
  <2>2. \A i \in 1..initial : a[i] = s[i]
    BY <1>8, <1>11, <2>1
  <2> HIDE DEF a
  <2>3. \A i \in 1..Len(ids) : s[i] = ids[i]
    BY <1>2, <1>7, JoinLine
  <2>4. Elements(a) \subseteq Elements(ids)
    <3>1. ASSUME NEW x \in Elements(a) PROVE x \in Elements(ids)
      <4>1. PICK i \in 1..Len(a) : a[i] = x
        BY <2>1, PlacesLine
      <4>2. i \in 1..Len(ids) /\ ids[i] = x
        BY <4>1, <2>1, <2>2, <2>3, <1>2, <1>10
      <4> QED
        BY <4>2, <1>2, PlacesLine
    <3> QED
      BY <3>1
  <2> QED
    BY <2>1, <2>4, <1>9
<1>13. \A r \in Elements(rest) : got[r] = 0 /\ answer[r] = "none"
  <2>1. SUFFICES ASSUME NEW r \in Elements(rest) PROVE Untouched(toClient, r)
    BY DEF Untouched
  <2>2. r \in Elements(listed) \/ r \in Elements(fresh)
    BY <1>3, <1>9, ConcatLine DEF s
  <2>3. CASE r \in Elements(listed)
    BY <2>3, <1>5, <1>6, <1>9 DEF Share
  <2>4. CASE r \in Elements(fresh)
    BY <2>4 DEF Polled, Fresh, Sane, Kept
  <2> QED
    BY <2>2, <2>3, <2>4
<1>14. U = Elements(rest)
  <2>1. U = {r \in Elements(b) : r \notin Elements(ids) /\ got[r] = 0 /\ answer[r] = "none"}
    BY DEF U, Unserved, ids, f, s
  <2> QED
    BY <2>1, <1>9, <1>12, <1>13
<1>15. ids = Without(s, U)
  <2> DEFINE K == Requests \ U
  <2>1. Only(ids \o rest, K) = Only(ids, K) \o Only(rest, K)
    BY <1>2, <1>7, OnlyConcat
  <2>2. Only(ids, K) = ids
    BY <1>2, <1>9, <1>14, OnlyLine
  <2>3. Only(rest, K) \in Seq(Requests) /\ Elements(Only(rest, K)) = {}
    BY <1>7, <1>14, OnlyLine
  <2>4. Only(rest, K) = <<>>
    BY <2>3, PlacesLine
  <2> QED
    BY <2>1, <2>2, <2>4, <1>2, <1>7, ConcatEmptySeq DEF Without
<1>16. \A r \in Elements(ids) : answer[r] # "none"
  BY <1>1, <1>10 DEF Ended, EndIn, About, RowKinds, f
<1>17. {r \in Elements(s) : answer[r] # "none"} \cup U = Elements(s)
  BY <1>9, <1>14, <1>16
<1>18. BatchDoneValid(f, s)
  BY <1>1, <1>10, <1>15, <1>17 DEF BatchDoneValid, U, ids, f
<1>19. U = Elements(s) \ Elements(ids)
  BY <1>9, <1>14
<1> QED
  BY <1>1, <1>2, <1>4, <1>16, <1>18, <1>19 DEF f, s, ids, U

\* The empty sequence has no elements.
LEMMA EmptyLine == Elements(<<>>) = {} /\ IsInjective(<<>>)
<1>1. <<>> \in Seq({}) /\ Len(<<>>) = 0
  OBVIOUS
<1> QED
  BY <1>1, PlacesLine

\* ReadBatchDone keeps the invariant: the batch is closed on both sides.
LEMMA ReadBatchDoneSafe ==
  ASSUME IInv, ReadBatchDone
  PROVE  IInv'
<1>1. Typed
  BY DEF IInv
<1>2. PICK fresh : /\ Reading("batch_done", fresh)
                   /\ client' = "idle"
                   /\ free' = (free \ Elements(fresh)) \cup Unserved(Head(toClient), listed \o fresh)
                   /\ listed' = <<>>
                   /\ UNCHANGED <<answer, got>>
  BY DEF ReadBatchDone
<1>3. /\ client = "running" /\ toClient # <<>> /\ toClient' = Tail(toClient) /\ Polled(fresh)
      /\ Head(toClient) = toClient[1] /\ toClient[1].kind = "batch_done" /\ toClient[1] \in Frame
      /\ toClient' \in Seq(Frame) /\ UNCHANGED <<batch, sent, made, faulted>> /\ cancelSent \subseteq cancelSent'
      /\ listed \o fresh \in Seq(Requests)
      /\ Elements(listed \o fresh) = Elements(listed) \cup Elements(fresh)
  BY <1>1, <1>2, ReadingLine
<1>4. Sane /\ Phased /\ Accounted /\ Kept /\ Caused /\ Worked /\ Engined /\ WorkerTyped
  BY <1>1, <1>3 DEF IInv, Sane, Typed
<1>5. Len(toClient) = 1 /\ Ending
  BY <1>1, <1>3, <1>4, LastHead DEF RowKinds
<1>6. Flow /\ Framed(toClient)' /\ toClient' = <<>>
  BY <1>1, <1>2, <1>3, <1>5, LastRead DEF Typed, PipesTyped, RowKinds
<1> DEFINE U == Unserved(toClient[1], listed \o fresh)
           ids == toClient[1].ids
<1>7. /\ U = (Elements(listed) \cup Elements(fresh)) \ Elements(ids)
      /\ \A r \in Elements(ids) : answer[r] # "none"
      /\ Taken = ids /\ ~Broken
  BY <1>1, <1>3, <1>4, DoneRight
<1>8. free' = (free \ Elements(fresh)) \cup U
  BY <1>2, <1>3
<1> HIDE DEF U, ids
<1>9. PICK X \in Seq(Requests) : Share(X)
  BY <1>3, <1>4 DEF Accounted
<1>10. X = ids
  BY <1>7, <1>9 DEF Share
<1>11. UNCHANGED <<commands, joins, registered, flagged, pending, wpc, batch, engine>>
  BY <1>3 DEF Polled, receiverVars, machine
<1>12. Phased'
  <2>1. NoGenerate' /\ \A i \in 1..Len(toWorker') : toWorker'[i].kind # "cancel" => toWorker'[i].batch <= batch'
    BY <1>1, <1>3, <1>4, <1>5, PolledMessages DEF Ending
  <2>2. Resting'
    BY <2>1, <1>2, <1>5, <1>6, <1>11 DEF Resting, Ending, Busy
  <2>3. \A i \in 1..Len(joins') : joins'[i].batch <= batch'
    BY <1>4, <1>11 DEF Phased
  <2>4. \A i \in 1..Len(toClient') - 1 : toClient'[i].kind \in RowKinds
    BY <1>6
  <2> QED
    BY <2>1, <2>2, <2>3, <2>4, <1>2 DEF Phased
<1>13. Accounted'
  <2>1. \A r \in registered' : answer'[r] # "none"
    BY <1>2, <1>7, <1>9, <1>10, <1>11 DEF Share
  <2> QED
    BY <2>1, <1>2, EmptyLine DEF Accounted
<1>14. Kept'
  <2>1. ASSUME NEW r \in free' PROVE r \in Requests /\ Untouched(toClient, r)
    <3>1. free \subseteq Requests /\ listed \in Seq(Requests) /\ fresh \in Seq(Requests) /\ Elements(fresh) \subseteq free
      BY <1>1, <1>3 DEF Typed, ClientTyped, Polled, Fresh
    <3>2. CASE r \in free
      BY <3>1, <3>2, <1>4 DEF Kept
    <3>3. CASE r \in Elements(listed) \ Elements(ids)
      BY <3>1, <3>3, <1>9, <1>10, PlacesLine DEF Share
    <3> QED
      BY <3>1, <3>2, <3>3, <1>7, <1>8
  <2> QED
    BY <2>1, <1>2, <1>6, EmptyLine DEF Kept, Flow
<1>15. Caused'
  <2>1. Elements(listed') = {}
    BY <1>2, EmptyLine
  <2> QED
    BY <2>1, <1>1, <1>3, <1>4, PolledCaused
<1>16. Worked' /\ Engined'
  <2>1. /\ UNCHANGED <<wpc, batchVars, streamVars, runVars, registered>>
        /\ flagged' = flagged /\ flagged \subseteq registered
    BY <1>3, <1>4 DEF Polled, receiverVars, Worked
  <2> QED
    BY <2>1, <1>4, <1>6, WorkUndisturbed
<1>17. Seated'
  <2>1. Open' = {}
    BY <1>2, EmptyLine DEF Open
  <2>2. Cardinality(Open') = 0 /\ Capacity \in Nat
    BY <2>1, FS_EmptySet, BoundAssumption
  <2> QED
    BY <2>2 DEF Seated
<1>18. Sane'
  BY <1>6, <1>12, <1>13, <1>14, <1>15, <1>16, <1>17 DEF Sane
<1>19. Typed'
  <2>1. free' \subseteq Requests /\ listed' \in Seq(Requests)
    <3>1. free \subseteq Requests /\ Elements(listed \o fresh) \subseteq Requests
      BY <1>1, <1>3, PlacesLine DEF Typed, ClientTyped
    <3> QED
      BY <3>1, <1>2, <1>3, <1>7, <1>8
  <2> QED
    BY <2>1, <1>1, <1>2, <1>3, GrownTyped DEF Typed, ClientTyped
<1> QED
  BY <1>2, <1>3, <1>18, <1>19, Intact

\* The client gives up only a worker whose engine raised.
LEMMA ReadInvalidFaulted ==
  ASSUME Typed, Sane, NEW fresh, Reading(Head(toClient).kind, fresh), toClient # <<>>,
         ~ \/ Head(toClient).kind = "token" /\ TokenValid(Head(toClient), listed \o fresh)
           \/ Head(toClient).kind = "done" /\ DoneValid(Head(toClient), listed \o fresh, cancelSent')
           \/ Head(toClient).kind = "rejected" /\ RejectedValid(Head(toClient), listed \o fresh)
           \/ Head(toClient).kind = "batch_done" /\ BatchDoneValid(Head(toClient), listed \o fresh)
  PROVE  faulted
<1> DEFINE f == toClient[1]
           s == listed \o fresh
<1>1. /\ client = "running" /\ Polled(fresh) /\ Head(toClient) = f /\ f \in Frame
      /\ cancelSent \subseteq cancelSent' /\ Elements(s) = Elements(listed) \cup Elements(fresh)
  BY ReadingLine
<1>2. SUFFICES ASSUME f.kind \notin {"batch_done", "error"} PROVE FALSE
  <2>1. CASE f.kind = "error"
    BY <2>1, <1>1, LastHead DEF RowKinds, Ending, Broken
  <2>2. f.kind # "batch_done"
    BY <1>1, DoneRight
  <2> QED
    BY <2>1, <2>2
<1>3. f.kind \in RowKinds /\ f.id \in Requests
  BY <1>1, <1>2, FrameLine DEF RowKinds
<1>4. 1 \in 1..Len(toClient) /\ Framed(toClient)
  BY TailPlaces DEF Typed, PipesTyped, Sane
<1>5. Acceptable(toClient, 1)
  BY <1>3, <1>4 DEF Framed
<1>6. \A r, n : Reached(toClient, r, n, 1) => got[r] = n
  BY DEF Reached
<1>7. got \in [Requests -> Nat]
  BY DEF Typed, ClientTyped
<1> HIDE DEF s
<1>8. /\ Known(f, s)
      /\ f.kind = "token" => f.n \in 1..Output[f.id] /\ got[f.id] = f.n - 1
      /\ f.kind = "done" =>
           /\ \/ f.how = "stop" /\ f.n = Output[f.id]
              \/ f.how = "cancelled" /\ f.n <= Output[f.id] /\ f.id \in cancelSent
           /\ got[f.id] = f.n
      /\ f.kind = "rejected" => f.limit \in 1..ContextLimit /\ got[f.id] = 0
  BY <1>1, <1>5, <1>6 DEF Acceptable, Known
<1>9. /\ f.kind = "token" => f.n \in Nat
      /\ f.kind = "done" => f.n \in Nat
      /\ Output[f.id] \in Nat /\ got[f.id] \in Nat
  BY <1>1, <1>3, <1>7, FrameLine, RequestAssumption
<1> HIDE DEF f
<1>10. CASE f.kind = "token"
  <2>1. TokenValid(f, s)
    BY <1>8, <1>9, <1>10 DEF TokenValid
  <2> QED
    BY <2>1, <1>1, <1>10 DEF s
<1>11. CASE f.kind = "done"
  <2>1. DoneValid(f, s, cancelSent')
    BY <1>1, <1>8, <1>9, <1>11 DEF DoneValid
  <2> QED
    BY <2>1, <1>1, <1>11 DEF s
<1>12. CASE f.kind = "rejected"
  <2>1. RejectedValid(f, s)
    BY <1>8, <1>12 DEF RejectedValid
  <2> QED
    BY <2>1, <1>1, <1>12 DEF s
<1> QED
  BY <1>3, <1>10, <1>11, <1>12 DEF RowKinds

\* ReadInvalid keeps the invariant: only a worker whose engine raised sends such a frame.
LEMMA ReadInvalidSafe ==
  ASSUME IInv, ReadInvalid
  PROVE  IInv'
<1>1. Typed
  BY DEF IInv
<1>2. PICK fresh \in Distinct(free \ cancelled, Room) :
        /\ toClient # <<>> /\ Reading(Head(toClient).kind, fresh)
        /\ ~ \/ Head(toClient).kind = "token" /\ TokenValid(Head(toClient), listed \o fresh)
             \/ Head(toClient).kind = "done" /\ DoneValid(Head(toClient), listed \o fresh, cancelSent')
             \/ Head(toClient).kind = "rejected" /\ RejectedValid(Head(toClient), listed \o fresh)
             \/ Head(toClient).kind = "batch_done" /\ BatchDoneValid(Head(toClient), listed \o fresh)
        /\ client' = "failed"
        /\ listed' = listed \o fresh /\ free' = free \ Elements(fresh)
        /\ UNCHANGED <<answer, got>>
  BY DEF ReadInvalid
<1>3. /\ client = "running" /\ Polled(fresh) /\ toClient' \in Seq(Frame)
      /\ UNCHANGED <<sent, made, faulted>> /\ listed \o fresh \in Seq(Requests)
  BY <1>1, <1>2, ReadingLine
<1>4. faulted
  BY <1>1, <1>2, <1>3, ReadInvalidFaulted DEF IInv
<1>5. Typed'
  BY <1>1, <1>2, <1>3, GrownTyped DEF Typed, ClientTyped
<1>6. Counted' /\ NeverCondemned'
  BY <1>3, <1>4 DEF IInv, Counted, NeverCondemned
<1> QED
  BY <1>2, <1>5, <1>6 DEF IInv

-----------------------------------------------------------------------------
(* A batch starts, a caller cancels *)

\* Cancel keeps the invariant.
LEMMA CancelSafe ==
  ASSUME IInv, NEW r \in Requests, Cancel(r)
  PROVE  IInv'
<1>1. /\ client # "failed" /\ r \notin cancelled
      /\ cancelled' = cancelled \cup {r}
      /\ UNCHANGED <<engine, faulted, free, answer, got, client, batch, listed, initial, cancelSent,
                     toWorker, toClient, commands, joins, registered, flagged, pending, wpc,
                     wbatch, limit, allIds, report, skipped, joined, waiting, leftovers,
                     sent, stopped, finished, rotation, arriving, todo, made, done>>
      /\ UNCHANGED <<batchVars, streamVars, runVars, receiverVars, machine>>
  BY DEF Cancel, machine, receiverVars, batchVars, streamVars, runVars
<1>2. Typed /\ Sane /\ ClientTyped /\ PipesTyped /\ WorkerTyped
  BY <1>1 DEF IInv, Typed
<1>3. Typed'
  <2>1. ClientTyped'
    BY <1>1, <1>2 DEF ClientTyped
  <2>2. PipesTyped'
    BY <1>1, <1>2 DEF PipesTyped
  <2>3. WorkerTyped'
    BY <1>1, <1>2 DEF WorkerTyped
  <2> QED
    BY <2>1, <2>2, <2>3, <1>1, <1>2 DEF Typed
<1>4. Caused'
  <2>1. /\ cancelSent \subseteq cancelled
        /\ \A x \in Requests : Heeded(x) => x \in cancelled /\ (x \in Elements(listed) => x \in cancelSent)
    BY <1>2 DEF Sane, Caused
  <2>2. \A x \in Requests : Heeded(x)' <=> Heeded(x)
    BY <1>1 DEF Heeded, IsCancel
  <2> QED
    BY <2>1, <2>2, <1>1 DEF Caused
<1>5. Flow
  BY <1>1, StillFlow
<1>6. Framed(toClient)'
  BY <1>1, <1>2, StillFramed DEF Sane, PipesTyped
<1>7. Worked' /\ Engined'
  <2>1. flagged \subseteq registered
    BY <1>2 DEF Sane, Worked
  <2> QED
    BY <2>1, <1>1, <1>2, <1>5, WorkUndisturbed DEF Sane
<1>8. Seated'
  <2>1. Open' = Open /\ (Dense' <=> Dense)
    BY <1>1 DEF Open, Dense
  <2> QED
    BY <2>1, <1>2 DEF Sane, Seated
<1>9. /\ Taken' = Taken /\ (Broken' <=> Broken) /\ (Busy' <=> Busy) /\ (Closed' <=> Closed) /\ Final' = Final
      /\ (NoGenerate' <=> NoGenerate) /\ \A g : AskedAt(g)' <=> AskedAt(g)
  BY <1>1 DEF Taken, Broken, Busy, Closed, Final, NoGenerate, AskedAt
<1>10. Phased'
  <2>1. Resting => Resting'
    BY <1>1, <1>9 DEF Resting
  <2>2. Asked => Asked'
    BY <1>1, <1>9 DEF Asked
  <2>3. Commanded => Commanded'
    BY <1>1, <1>9 DEF Commanded
  <2>4. Working => Working'
    BY <1>1, <1>9 DEF Working
  <2>5. Ending => Ending'
    <3>1. \A x : Ended(toClient, x)' <=> Ended(toClient, x)
      BY <1>1 DEF Ended, EndIn, About
    <3> QED
      BY <3>1, <1>1, <1>9 DEF Ending
  <2> QED
    BY <2>1, <2>2, <2>3, <2>4, <2>5, <1>1, <1>2 DEF Sane, Phased
<1>11. Accounted' /\ Kept'
  <2>1. \A x : Untouched(toClient, x)' <=> Untouched(toClient, x)
    BY <1>1 DEF Untouched, Silent, About
  <2>2. \A X : Share(X)' <=> Share(X)
    BY <2>1, <1>1, <1>9 DEF Share, Split
  <2> QED
    BY <2>1, <2>2, <1>1, <1>2 DEF Sane, Accounted, Kept
<1>12. Sane'
  BY <1>4, <1>6, <1>7, <1>8, <1>10, <1>11 DEF Sane
<1> QED
  BY <1>1, <1>3, <1>12, Intact

\* Start keeps the invariant.
LEMMA StartSafe ==
  ASSUME IInv, Start
  PROVE  IInv'
<1>1. PICK rows \in Distinct(free \ cancelled, Capacity) :
       /\ rows # <<>>
       /\ batch' = batch + 1
       /\ listed' = rows /\ initial' = Len(rows)
       /\ free' = free \ Elements(rows)
       /\ toWorker' = Append(toWorker, [kind |-> "generate", batch |-> batch', rows |-> rows])
  BY DEF Start
<1>2. /\ client = "idle" /\ batch < MaxBatches /\ cancelSent' = {} /\ client' = "running"
      /\ UNCHANGED <<engine, faulted, cancelled, answer, got, toClient,
                     commands, joins, registered, flagged, pending, wpc,
                     wbatch, limit, allIds, report, skipped, joined, waiting, leftovers,
                     sent, stopped, finished, rotation, arriving, todo, made, done>>
      /\ UNCHANGED <<batchVars, streamVars, runVars, receiverVars, machine>>
  BY DEF Start, machine, receiverVars, batchVars, streamVars, runVars
<1>3. Typed /\ Sane /\ ClientTyped /\ PipesTyped /\ WorkerTyped /\ Resting
  BY <1>2 DEF IInv, Typed, Sane, Phased
<1>4. /\ rows \in Seq(Requests) /\ IsInjective(rows) /\ Len(rows) <= Capacity /\ Elements(rows) \subseteq free \ cancelled
      /\ Len(rows) \in Nat /\ free \subseteq Requests
  <2>1. (free \ cancelled) \in SUBSET Requests /\ Capacity \in Nat
    BY <1>3, BoundAssumption DEF ClientTyped
  <2> QED
    BY <2>1, <1>3, DistinctLine DEF ClientTyped
<1>5. batch \in Nat /\ MaxBatches \in Nat /\ batch' \in 0..MaxBatches /\ batch' \in Nat /\ batch < batch'
  BY <1>1, <1>2, <1>3, BoundAssumption DEF ClientTyped
<1>6. PICK m \in Message : m = [kind |-> "generate", batch |-> batch', rows |-> rows]
  BY <1>4, <1>5 DEF Message
<1>7. m.kind = "generate" /\ m.batch = batch' /\ m.rows = rows
  BY <1>6
<1>8. /\ toWorker \in Seq(Message) /\ toWorker' \in Seq(Message) /\ Len(toWorker) \in Nat
      /\ Len(toWorker') = Len(toWorker) + 1 /\ toWorker'[Len(toWorker) + 1] = m
      /\ \A i \in 1..Len(toWorker) : toWorker'[i] = toWorker[i]
  <2>1. toWorker' = Append(toWorker, m) /\ toWorker \in Seq(Message)
    BY <1>1, <1>3, <1>6 DEF PipesTyped
  <2> QED
    BY <2>1, AppendProperties
<1>9. /\ NoGenerate /\ commands = <<>> /\ ~Busy /\ listed = <<>> /\ toClient = <<>>
      /\ \A i \in 1..Len(toWorker) : toWorker[i].kind # "cancel" => toWorker[i].batch <= batch
      /\ \A i \in 1..Len(joins) : joins[i].batch <= batch
  BY <1>3 DEF Resting, Sane, Phased
<1>10. \A i \in 1..Len(toWorker) : toWorker[i].kind # "cancel" => toWorker[i].batch < batch' /\ toWorker[i].batch \in Nat
  BY <1>5, <1>8, <1>9, MessageLine
<1>11. \A i \in 1..Len(joins) : joins[i].batch < batch' /\ joins[i].batch \in Nat
  <2>1. joins \in Seq(Message) /\ \A i \in 1..Len(joins) : joins[i].kind # "cancel"
    BY <1>3, MessagesLine DEF PipesTyped
  <2>2. \A i \in 1..Len(joins) : joins[i].batch \in Nat
    BY <2>1, MessageLine
  <2> QED
    BY <2>2, <1>5, <1>9
<1>12. Typed'
  <2>1. ClientTyped'
    BY <1>1, <1>2, <1>3, <1>4, <1>5 DEF ClientTyped
  <2>2. PipesTyped'
    BY <1>2, <1>3, <1>8 DEF PipesTyped
  <2>3. WorkerTyped'
    BY <1>2, <1>3 DEF WorkerTyped
  <2> QED
    BY <2>1, <2>2, <2>3, <1>2, <1>3 DEF Typed
<1>13. Flow
  BY <1>2, StillFlow
<1>14. Framed(toClient)'
  BY <1>2, <1>9 DEF Framed
<1>15. Phased'
  <2>0. PICK g \in Nat : g = Len(toWorker) + 1
    BY <1>8
  <2>1. AskedAt(g)'
    <3>1. toWorker'[g].kind = "generate" /\ toWorker'[g].batch = batch' /\ Len(toWorker'[g].rows) = initial'
      BY <2>0, <1>1, <1>7, <1>8
    <3>2. \A j \in 1..Len(toWorker') : j # g => toWorker'[j].kind # "generate"
      BY <2>0, <1>8, <1>9 DEF NoGenerate
    <3>3. \A j \in 1..g - 1 : toWorker'[j].kind # "cancel" => toWorker'[j].batch < batch'
      BY <2>0, <1>8, <1>10
    <3> QED
      BY <3>1, <3>2, <3>3 DEF AskedAt
  <2>2. Asked'
    <3>1. commands' = <<>> /\ ~Busy' /\ toClient' = <<>>
      BY <1>2, <1>9 DEF Busy
    <3>2. \A j \in 1..Len(joins') : joins'[j].batch < batch'
      BY <1>2, <1>11
    <3>3. g \in 1..Len(toWorker')
      BY <2>0, <1>8
    <3> QED
      BY <2>1, <3>1, <3>2, <3>3 DEF Asked
  <2>3. \A i \in 1..Len(toWorker') : toWorker'[i].kind # "cancel" => toWorker'[i].batch <= batch'
    BY <1>5, <1>7, <1>8, <1>10
  <2>4. \A i \in 1..Len(joins') : joins'[i].batch <= batch'
    BY <1>2, <1>5, <1>11
  <2> QED
    BY <2>2, <2>3, <2>4, <1>2, <1>9 DEF Phased
<1>16. Taken' = <<>> /\ ~Broken'
  BY <1>2, <1>9 DEF Taken, Busy, Closed, Broken
<1>17. Accounted'
  <2>1. Carried(toWorker', batch') = rows
    <3>1. PICK k \in Nat : k = batch'
      BY <1>5
    <3>2. toWorker' = toWorker \o <<m>> /\ <<m>> \in Seq(Message)
      BY <1>1, <1>6, <1>8
    <3>3. Carried(toWorker \o <<m>>, k) = Carried(toWorker, k) \o Carried(<<m>>, k)
      <4>1. toWorker \in Seq(Message) /\ <<m>> \in Seq(Message)
        BY <3>2, <1>8
      <4> QED
        BY ONLY <4>1, CarriedConcat
    <3>4. Carried(toWorker, k) = <<>>
      <4>1. \A i \in 1..Len(toWorker) : Load(toWorker[i], k) = <<>>
        BY <3>1, <1>10 DEF Load
      <4> QED
        BY <4>1, <1>8, CarriedElements
    <3>5. Carried(<<m>>, k) = rows
      BY <3>1, <1>7, CarriedOne DEF Load
    <3> QED
      BY <3>1, <3>2, <3>3, <3>4, <3>5, <1>4, ConcatEmptySeq
  <2>2. Carried(joins', batch') = <<>> /\ Carried(commands', batch') = <<>>
    <3>1. PICK k \in Nat : k = batch'
      BY <1>5
    <3>2. joins \in Seq(Message)
      BY <1>3, MessagesLine DEF PipesTyped
    <3>3. \A i \in 1..Len(joins) : Load(joins[i], k) = <<>>
      BY <3>1, <1>11 DEF Load
    <3> QED
      BY <3>1, <3>2, <3>3, <1>2, <1>9, CarriedElements, CarriedEmpty
  <2>3. Split(<<>>)'
    <3>1. (((<<>> \o <<>>) \o <<>>) \o rows) = rows
      BY <1>4, ConcatEmptySeq
    <3> QED
      BY <3>1, <2>1, <2>2, <1>1 DEF Split
  <2>4. \A r \in Elements(listed') \ Elements(<<>>) : Untouched(toClient, r)'
    BY <1>1, <1>3, <1>4, <1>13 DEF Flow, Sane, Kept
  <2>5. \A r \in registered' : answer'[r] # "none"
    BY <1>2, <1>3 DEF Sane, Accounted
  <2>6. Share(<<>>)'
    BY <2>3, <2>4, <2>5, <1>16 DEF Share
  <2>7. <<>> \in Seq(Requests)
    OBVIOUS
  <2> QED
    BY <2>6, <2>7, <1>1, <1>2, <1>4 DEF Accounted
<1>18. Kept'
  <2>1. \A r \in free : Untouched(toClient, r)
    BY <1>3 DEF Sane, Kept
  <2> QED
    BY <2>1, <1>1, <1>4, <1>13 DEF Kept, Flow
<1>19. Caused'
  <2>1. \A x \in Requests : Heeded(x) => x \in cancelled
    BY <1>3 DEF Sane, Caused
  <2>2. ASSUME NEW x \in Requests, Heeded(x)' PROVE Heeded(x)
    BY <2>2, <1>2, <1>7, <1>8 DEF Heeded, IsCancel
  <2>3. \A x \in cancelled : x \notin Elements(listed')
    BY <1>1, <1>4
  <2> QED
    BY <2>1, <2>2, <2>3, <1>2 DEF Caused
<1>20. Worked' /\ Engined'
  <2>1. flagged \subseteq registered
    BY <1>3 DEF Sane, Worked
  <2> QED
    BY <2>1, <1>2, <1>3, <1>13, WorkUndisturbed DEF Sane
<1>21. Seated'
  <2>1. IsFiniteSet(Elements(rows)) /\ Cardinality(Elements(rows)) = Len(rows)
    BY <1>4, CountLine
  <2>2. Open' \subseteq Elements(rows)
    BY <1>1 DEF Open
  <2>3. Cardinality(Open') <= Len(rows) /\ Cardinality(Open') \in Nat
    BY <2>1, <2>2, FS_Subset, FS_CardinalityType
  <2> QED
    BY <2>3, <1>4, BoundAssumption DEF Seated
<1>22. Sane'
  BY <1>14, <1>15, <1>17, <1>18, <1>19, <1>20, <1>21 DEF Sane
<1> QED
  BY <1>2, <1>12, <1>22, Intact

-----------------------------------------------------------------------------
(* The worker's receiver thread *)

\* What every step of the receiver leaves alone.
LEMMA ReceiveLine ==
  ASSUME IInv, NEW kind, Receive(kind)
  PROVE  /\ Typed /\ Sane /\ client # "failed"
         /\ UNCHANGED <<engine, faulted, cancelled, free, answer, got, client, batch, listed, initial, cancelSent,
                        toClient, registered, wpc, wbatch, limit, allIds, report, skipped, joined, waiting,
                        leftovers, sent, stopped, finished, rotation, arriving, todo, made, done>>
         /\ UNCHANGED <<batchVars, streamVars, runVars, machine>>
         /\ toWorker \in Seq(Message) /\ toWorker # <<>> /\ toWorker' = Tail(toWorker) /\ toWorker' \in Seq(Message)
         /\ Head(toWorker) = toWorker[1] /\ toWorker[1].kind = kind /\ toWorker[1] \in Message
         /\ Len(toWorker) \in Nat /\ Len(toWorker) >= 1 /\ Len(toWorker') = Len(toWorker) - 1
         /\ \A i \in 1..Len(toWorker') : i + 1 \in 1..Len(toWorker) /\ toWorker'[i] = toWorker[i + 1]
         /\ Flow /\ Framed(toClient)' /\ Kept' /\ Seated'
<1>1. /\ client # "failed" /\ toWorker # <<>> /\ Head(toWorker).kind = kind /\ toWorker' = Tail(toWorker)
      /\ UNCHANGED <<engine, faulted, cancelled, free, answer, got, client, batch, listed, initial, cancelSent,
                        toClient, registered, wpc, wbatch, limit, allIds, report, skipped, joined, waiting,
                        leftovers, sent, stopped, finished, rotation, arriving, todo, made, done>>
      /\ UNCHANGED <<batchVars, streamVars, runVars, machine>>
  BY DEF Receive, Alive, machine, clientVars, batchVars, streamVars, runVars
<1>2. Typed /\ Sane /\ PipesTyped
  BY <1>1 DEF IInv, Typed
<1>3. /\ toWorker \in Seq(Message) /\ toWorker' \in Seq(Message)
      /\ Head(toWorker) = toWorker[1] /\ toWorker[1] \in Message
      /\ Len(toWorker) \in Nat /\ Len(toWorker) >= 1 /\ Len(toWorker') = Len(toWorker) - 1
      /\ \A i \in 1..Len(toWorker') : i + 1 \in 1..Len(toWorker) /\ toWorker'[i] = toWorker[i + 1]
  <2>1. toWorker \in Seq(Message)
    BY <1>2 DEF PipesTyped
  <2> QED
    BY <2>1, <1>1, TailPlaces
<1>4. Flow /\ Framed(toClient)'
  BY <1>1, <1>2, StillFlow, StillFramed DEF Sane, PipesTyped
<1>5. Kept'
  BY <1>1, <1>2 DEF Sane, Kept, Untouched, Silent, About
<1>6. Seated'
  BY <1>1, <1>2 DEF Sane, Seated, Open, Dense
<1> QED
  BY <1>1, <1>2, <1>3, <1>4, <1>5, <1>6

\* What holds of the batch when the receiver took something but a command.
LEMMA ReceivePhased ==
  ASSUME IInv, NEW kind \in {"join", "cancel"}, Receive(kind), UNCHANGED commands,
         joins' = IF kind = "join" THEN Append(joins, Head(toWorker)) ELSE joins
  PROVE  Phased' /\ Accounted' /\ joins' \in Seq(Joining)
<1>1. /\ Typed /\ Sane /\ Phased /\ Accounted
      /\ UNCHANGED <<faulted, answer, got, client, batch, listed, initial, commands, toClient, registered,
                     wpc, wbatch, allIds>>
      /\ toWorker \in Seq(Message) /\ toWorker # <<>> /\ toWorker' = Tail(toWorker) /\ toWorker' \in Seq(Message)
      /\ Head(toWorker) = toWorker[1] /\ toWorker[1].kind = kind /\ toWorker[1] \in Message
      /\ Len(toWorker) \in Nat /\ Len(toWorker) >= 1 /\ Len(toWorker') = Len(toWorker) - 1
      /\ \A i \in 1..Len(toWorker') : i + 1 \in 1..Len(toWorker) /\ toWorker'[i] = toWorker[i + 1]
  BY ReceiveLine DEF Sane
<1>2. joins \in Seq(Joining) /\ batch \in Nat
  BY <1>1, BoundAssumption DEF Typed, PipesTyped, ClientTyped
<1>3. /\ joins' \in Seq(Joining)
      /\ \A i \in 1..Len(joins') :
           \/ joins'[i] = joins[i] /\ i \in 1..Len(joins)
           \/ kind = "join" /\ joins'[i] = toWorker[1]
  <2>1. CASE kind = "cancel"
    <3>1. joins' = joins
      BY <2>1
    <3> QED
      BY <3>1, <1>2
  <2>2. CASE kind = "join"
    <3>1. toWorker[1] \in Joining
      BY <2>2, <1>1 DEF Message, Joining
    <3>2. /\ joins' \in Seq(Joining) /\ Len(joins') = Len(joins) + 1 /\ Len(joins) \in Nat
          /\ joins'[Len(joins) + 1] = toWorker[1]
          /\ \A i \in 1..Len(joins) : joins'[i] = joins[i]
      BY <2>2, <3>1, <1>1, <1>2, AppendProperties
    <3>3. PICK n \in Nat : n = Len(joins)
      BY <3>2
    <3>4. \A i \in 1..n + 1 : i \in 1..n \/ i = n + 1
      BY SMT
    <3>5. Len(joins') = n + 1 /\ joins'[n + 1] = toWorker[1] /\ \A i \in 1..n : joins'[i] = joins[i]
      BY <3>2, <3>3
    <3> QED
      BY <2>2, <3>2, <3>3, <3>4, <3>5
  <2> QED
    BY <2>1, <2>2
<1>4. /\ Taken' = Taken /\ (Broken' <=> Broken) /\ (Busy' <=> Busy) /\ (Closed' <=> Closed) /\ Final' = Final
  BY <1>1 DEF Taken, Broken, Busy, Closed, Final
<1>5. NoGenerate => NoGenerate'
  BY <1>1 DEF NoGenerate
<1>6. /\ \A i \in 1..Len(toWorker') : toWorker'[i].kind # "cancel" => toWorker'[i].batch <= batch'
      /\ \A i \in 1..Len(joins') : joins'[i].batch <= batch'
      /\ \A i \in 1..Len(toClient') - 1 : toClient'[i].kind \in RowKinds
  <2>1. /\ \A i \in 1..Len(toWorker) : toWorker[i].kind # "cancel" => toWorker[i].batch <= batch
        /\ \A i \in 1..Len(joins) : joins[i].batch <= batch
        /\ \A i \in 1..Len(toClient) - 1 : toClient[i].kind \in RowKinds
    BY <1>1 DEF Phased
  <2>2. 1 \in 1..Len(toWorker)
    BY <1>1
  <2> QED
    BY <2>1, <2>2, <1>1, <1>3
<1>7. ASSUME Asked PROVE Asked'
  <2>1. PICK g \in 1..Len(toWorker) : AskedAt(g)
    BY <1>7 DEF Asked
  <2>2. g - 1 \in 1..Len(toWorker') /\ g \in Nat
    BY <2>1, <1>1 DEF AskedAt
  <2>3. PICK h \in 1..Len(toWorker') : h = g - 1
    BY <2>2
  <2>4. toWorker'[h] = toWorker[g]
    BY <2>2, <2>3, <1>1
  <2>5. \A j \in 1..Len(toWorker') : j # h => toWorker'[j].kind # "generate"
    BY <2>1, <2>2, <2>3, <1>1 DEF AskedAt
  <2>6. \A j \in 1..h - 1 : toWorker'[j].kind # "cancel" => toWorker'[j].batch < batch'
    BY <2>1, <2>2, <2>3, <1>1 DEF AskedAt
  <2>7. AskedAt(h)'
    BY <2>1, <2>4, <2>5, <2>6, <1>1 DEF AskedAt
  <2>8. \A j \in 1..Len(joins') : joins'[j].batch < batch'
    <3>1. kind = "join" => toWorker[1].batch < batch
      <4>1. 1 \in 1..g - 1
        BY <2>2, <2>3
      <4> QED
        BY <4>1, <2>1, <1>1 DEF AskedAt
    <3>2. \A j \in 1..Len(joins) : joins[j].batch < batch
      BY <1>7 DEF Asked
    <3> QED
      BY <3>1, <3>2, <1>1, <1>3
  <2> QED
    BY <2>7, <2>8, <1>1, <1>4, <1>7 DEF Asked
<1>8. ASSUME Commanded PROVE Commanded'
  BY <1>8, <1>1, <1>4, <1>5 DEF Commanded
<1>9. ASSUME Working PROVE Working'
  BY <1>9, <1>1, <1>4, <1>5 DEF Working
<1>10. ASSUME Ending PROVE Ending'
  <2>1. \A x : Ended(toClient, x)' <=> Ended(toClient, x)
    BY <1>1 DEF Ended, EndIn, About
  <2> QED
    BY <2>1, <1>1, <1>4, <1>5, <1>10 DEF Ending
<1>11. ASSUME Resting PROVE Resting'
  BY <1>11, <1>1, <1>4, <1>5 DEF Resting
<1>12. Phased'
  BY <1>1, <1>6, <1>7, <1>8, <1>9, <1>10, <1>11 DEF Phased
<1>13. Accounted'
  <2>1. \A x : Untouched(toClient, x)' <=> Untouched(toClient, x)
    BY <1>1 DEF Untouched, Silent, About
  <2>2. ASSUME NEW X \in Seq(Requests), Split(X) PROVE Split(X)'
    <3> DEFINE c == Carried(commands, batch)
               j == Carried(joins, batch)
               l == Load(toWorker[1], batch)
               t == Carried(Tail(toWorker), batch)
               h == X \o c
    <3>1. c \in Seq(Requests) /\ j \in Seq(Requests) /\ joins \in Seq(Message)
      BY <1>1, TakenRows, MessagesLine DEF Typed, PipesTyped
    <3>2. Carried(toWorker, batch) = l \o t /\ t \in Seq(Requests) /\ l \in Seq(Requests)
      <4>1. Carried(toWorker, batch) = l \o t
        BY <1>1, CarriedTail
      <4>2. t \in Seq(Requests) /\ l \in Seq(Requests)
        BY <1>1, LoadsType, MessageLine
      <4> QED
        BY <4>1, <4>2
    <3>3. h \in Seq(Requests)
      BY <3>1
    <3>4. Carried(joins', batch) = j \o l
      <4>1. CASE kind = "cancel"
        <5>1. l = <<>>
          BY <4>1, <1>1 DEF Load
        <5> QED
          BY <5>1, <4>1, <3>1, ConcatEmptySeq
      <4>2. CASE kind = "join"
        <5>1. joins' = joins \o <<toWorker[1]>> /\ <<toWorker[1]>> \in Seq(Message)
          BY <4>2, <3>1, <1>1
        <5>2. Carried(joins \o <<toWorker[1]>>, batch) = j \o Carried(<<toWorker[1]>>, batch)
          BY <5>1, <3>1, CarriedConcat
        <5>3. Carried(<<toWorker[1]>>, batch) = l
          BY <1>1, CarriedOne
        <5> QED
          BY <5>1, <5>2, <5>3
      <4> QED
        BY <4>1, <4>2
    <3>5. listed = (h \o j) \o Carried(toWorker, batch)
      BY <2>2 DEF Split
    <3>6. Split(X)' <=> listed = (h \o Carried(joins', batch)) \o t
      BY <1>1 DEF Split
    <3> HIDE DEF c, j, l, t, h
    <3>7. (h \o j) \o l = h \o (j \o l)
      <4>1. h \in Seq(Requests) /\ j \in Seq(Requests) /\ l \in Seq(Requests)
        BY <3>1, <3>2, <3>3
      <4> QED
        BY ONLY <4>1, ConcatAssociative
    <3>8. PICK e : e = h \o j /\ e \in Seq(Requests)
      BY <3>1, <3>3, ConcatProperties
    <3>9. (e \o l) \o t = e \o (l \o t)
      <4>1. e \in Seq(Requests) /\ l \in Seq(Requests) /\ t \in Seq(Requests)
        BY <3>2, <3>8
      <4> QED
        BY ONLY <4>1, ConcatAssociative
    <3> QED
      BY <3>2, <3>4, <3>5, <3>6, <3>7, <3>8, <3>9
  <2>3. \A X \in Seq(Requests) : Share(X) => Share(X)'
    BY <2>1, <2>2, <1>1, <1>4 DEF Share
  <2> QED
    BY <2>3, <1>1 DEF Accounted
<1> QED
  BY <1>3, <1>12, <1>13

\* A message taken off the pipe keeps the types.
LEMMA ReceiveTyped ==
  ASSUME IInv, NEW kind, Receive(kind), commands' \in Seq(Command), joins' \in Seq(Joining),
         flagged' \subseteq Requests, pending' \subseteq Requests
  PROVE  Typed'
<1>1. /\ Typed /\ toWorker' \in Seq(Message)
      /\ UNCHANGED <<engine, faulted, cancelled, free, answer, got, client, batch, listed, initial, cancelSent,
                     toClient, registered, wpc, wbatch, limit, allIds, report, skipped, joined, waiting,
                     leftovers, sent, stopped, finished, rotation, arriving, todo, made, done>>
  BY ReceiveLine
<1>2. ClientTyped'
  BY <1>1 DEF Typed, ClientTyped
<1>3. PipesTyped'
  BY <1>1 DEF Typed, PipesTyped
<1>4. WorkerTyped'
  BY <1>1 DEF Typed, WorkerTyped
<1> QED
  BY <1>1, <1>2, <1>3, <1>4 DEF Typed

\* The cancels that were on their way still are, or were taken.
LEMMA ReceiveCaused ==
  ASSUME IInv, NEW kind, Receive(kind),
         \A r \in Requests : r \in flagged' \cup pending' => Heeded(r)
  PROVE  Caused'
<1>1. /\ Sane /\ UNCHANGED <<cancelled, cancelSent, listed>>
      /\ \A i \in 1..Len(toWorker') : i + 1 \in 1..Len(toWorker) /\ toWorker'[i] = toWorker[i + 1]
  BY ReceiveLine
<1>2. ASSUME NEW r \in Requests, Heeded(r)' PROVE Heeded(r)
  BY <1>1, <1>2 DEF Heeded, IsCancel
<1> QED
  BY <1>1, <1>2 DEF Sane, Caused

\* The receiver touches no row of the run.
LEMMA ReceiveWorked ==
  ASSUME IInv, NEW kind, Receive(kind), flagged \subseteq flagged', flagged' \subseteq registered
  PROVE  Worked' /\ Engined'
<1>1. /\ Typed /\ Sane /\ Flow /\ UNCHANGED <<wpc, batchVars, streamVars, runVars, registered>>
  BY ReceiveLine
<1> QED
  BY <1>1, WorkUndisturbed DEF Typed, Sane

\* ReceiveCommand keeps the invariant.
LEMMA ReceiveCommandSafe ==
  ASSUME IInv, ReceiveCommand
  PROVE  IInv'
<1>1. /\ Receive("generate") /\ commands' = Append(commands, Head(toWorker))
      /\ UNCHANGED <<joins, flagged, pending>>
  BY DEF ReceiveCommand
<1>2. /\ Typed /\ Sane /\ Phased /\ Accounted /\ Worked /\ client # "failed"
      /\ UNCHANGED <<faulted, answer, got, client, batch, listed, initial, toClient, registered,
                     wpc, wbatch, allIds, sent, made>>
      /\ toWorker \in Seq(Message) /\ toWorker # <<>> /\ toWorker' = Tail(toWorker) /\ toWorker' \in Seq(Message)
      /\ Head(toWorker) = toWorker[1] /\ toWorker[1].kind = "generate" /\ toWorker[1] \in Message
      /\ Len(toWorker) \in Nat /\ Len(toWorker) >= 1 /\ Len(toWorker') = Len(toWorker) - 1
      /\ \A i \in 1..Len(toWorker') : i + 1 \in 1..Len(toWorker) /\ toWorker'[i] = toWorker[i + 1]
      /\ Framed(toClient)' /\ Kept' /\ Seated'
  BY <1>1, ReceiveLine DEF Sane
<1>3. 1 \in 1..Len(toWorker) /\ ~NoGenerate
  BY <1>2 DEF NoGenerate
<1>4. client = "running" /\ Asked
  BY <1>2, <1>3 DEF Phased, Resting, Commanded, Working, Ending, Typed, ClientTyped
<1>5. AskedAt(1)
  BY <1>2, <1>3, <1>4 DEF Asked, AskedAt
<1>6. /\ toWorker[1].batch = batch /\ Len(toWorker[1].rows) = initial
      /\ \A i \in 1..Len(toWorker') : toWorker'[i].kind # "generate"
      /\ commands = <<>> /\ ~Busy /\ toClient = <<>>
      /\ \A j \in 1..Len(joins) : joins[j].batch < batch
  BY <1>2, <1>4, <1>5 DEF AskedAt, Asked
<1>7. PICK m \in Command : m = toWorker[1]
  BY <1>2 DEF Message, Command
<1>8. commands' = <<m>> /\ commands' \in Seq(Command) /\ Len(commands') = 1 /\ commands'[1] = m
  <2>1. commands' = <<m>>
    BY <1>1, <1>2, <1>6, <1>7
  <2> QED
    BY <2>1, OneLine
<1>9. Typed'
  BY <1>1, <1>2, <1>8, ReceiveTyped DEF Typed, PipesTyped, WorkerTyped
<1>10. Phased'
  <2>1. Commanded'
    BY <1>2, <1>6, <1>7, <1>8 DEF Commanded, NoGenerate, Busy
  <2>2. /\ \A i \in 1..Len(toWorker') : toWorker'[i].kind # "cancel" => toWorker'[i].batch <= batch'
        /\ \A i \in 1..Len(joins') : joins'[i].batch <= batch'
        /\ \A i \in 1..Len(toClient') - 1 : toClient'[i].kind \in RowKinds
    BY <1>1, <1>2 DEF Phased
  <2> QED
    BY <2>1, <2>2, <1>2, <1>4 DEF Phased
<1>11. Accounted'
  <2>1. PICK X \in Seq(Requests) : Share(X)
    BY <1>2, <1>4 DEF Accounted
  <2>2. Taken' = Taken /\ (Broken' <=> Broken)
    BY <1>2 DEF Taken, Broken, Busy, Closed, Final
  <2>3. \A x : Untouched(toClient, x)' <=> Untouched(toClient, x)
    BY <1>2 DEF Untouched, Silent, About
  <2>4. Split(X)'
    <3> DEFINE t == Carried(Tail(toWorker), batch)
               rows == m.rows
    <3>1. Carried(toWorker, batch) = rows \o t /\ t \in Seq(Requests) /\ rows \in Seq(Requests)
      <4>1. Carried(toWorker, batch) = Load(toWorker[1], batch) \o t
        BY <1>2, CarriedTail
      <4>2. Load(toWorker[1], batch) = rows
        BY <1>2, <1>6, <1>7 DEF Load
      <4>3. t \in Seq(Requests) /\ Load(toWorker[1], batch) \in Seq(Requests)
        BY <1>2, LoadsType, MessageLine
      <4> QED
        BY <4>1, <4>2, <4>3
    <3>2. Carried(joins, batch) = <<>>
      <4>1. joins \in Seq(Message) /\ \A i \in 1..Len(joins) : joins[i].kind # "cancel"
        BY <1>2, MessagesLine DEF Typed, PipesTyped
      <4>2. \A i \in 1..Len(joins) : joins[i].batch \in Nat /\ batch \in Nat
        BY <4>1, <1>2, MessageLine, BoundAssumption DEF Typed, ClientTyped
      <4>3. \A i \in 1..Len(joins) : Load(joins[i], batch) = <<>>
        BY <4>2, <1>6 DEF Load
      <4> QED
        BY <4>1, <4>3, CarriedElements
    <3>3. Carried(commands, batch) = <<>> /\ Carried(commands', batch) = rows
      <4>1. Load(m, batch) = rows /\ m \in Message
        BY <1>6, <1>7, <1>2 DEF Load, Command
      <4> QED
        BY <4>1, <1>6, <1>8, CarriedEmpty, CarriedOne
    <3>4. listed = ((X \o <<>>) \o <<>>) \o (rows \o t)
      BY <2>1, <3>1, <3>2, <3>3 DEF Share, Split
    <3>5. Split(X)' <=> listed = ((X \o rows) \o <<>>) \o t
      BY <1>1, <1>2, <3>2, <3>3 DEF Split
    <3> HIDE DEF t, rows
    <3>6. (X \o <<>>) \o <<>> = X /\ (X \o rows) \o <<>> = X \o rows
      BY <3>1, ConcatEmptySeq, ConcatProperties
    <3>7. X \o (rows \o t) = (X \o rows) \o t
      BY <3>1, ConcatAssociative
    <3> QED
      BY <3>4, <3>5, <3>6, <3>7
  <2>5. Share(X)'
    BY <2>1, <2>2, <2>3, <2>4, <1>2 DEF Share
  <2> QED
    BY <2>5, <1>2, <1>4 DEF Accounted
<1>12. Caused'
  <2>1. \A r \in Requests : r \in flagged' \cup pending' => Heeded(r)
    BY <1>1 DEF Heeded
  <2> QED
    BY <2>1, <1>1, ReceiveCaused
<1>13. Worked' /\ Engined'
  <2>1. flagged \subseteq flagged' /\ flagged' \subseteq registered
    BY <1>1, <1>2 DEF Worked
  <2> QED
    BY <2>1, <1>1, ReceiveWorked
<1>14. Sane'
  BY <1>2, <1>10, <1>11, <1>12, <1>13 DEF Sane
<1> QED
  BY <1>2, <1>9, <1>14, Intact

\* ReceiveJoin keeps the invariant.
LEMMA ReceiveJoinSafe ==
  ASSUME IInv, ReceiveJoin
  PROVE  IInv'
<1>1. /\ Receive("join") /\ joins' = Append(joins, Head(toWorker))
      /\ UNCHANGED <<commands, flagged, pending>>
  BY DEF ReceiveJoin
<1>2. /\ Typed /\ Sane /\ client # "failed" /\ UNCHANGED <<sent, made, client>>
      /\ Framed(toClient)' /\ Kept' /\ Seated'
  BY <1>1, ReceiveLine
<1>3. Phased' /\ Accounted' /\ joins' \in Seq(Joining)
  BY <1>1, ReceivePhased
<1>4. Typed'
  BY <1>1, <1>2, <1>3, ReceiveTyped DEF Typed, PipesTyped, WorkerTyped
<1>5. Caused'
  <2>1. \A r \in Requests : r \in flagged' \cup pending' => Heeded(r)
    BY <1>1 DEF Heeded
  <2> QED
    BY <2>1, <1>1, ReceiveCaused
<1>6. Worked' /\ Engined'
  <2>1. flagged \subseteq flagged' /\ flagged' \subseteq registered
    BY <1>1, <1>2 DEF Sane, Worked
  <2> QED
    BY <2>1, <1>1, ReceiveWorked
<1>7. Sane'
  BY <1>2, <1>3, <1>5, <1>6 DEF Sane
<1> QED
  BY <1>2, <1>4, <1>7, Intact

\* ReceiveCancel keeps the invariant.
LEMMA ReceiveCancelSafe ==
  ASSUME IInv, ReceiveCancel
  PROVE  IInv'
<1>1. /\ Receive("cancel") /\ UNCHANGED <<commands, joins>>
      /\ flagged \subseteq flagged' /\ flagged' \subseteq registered \cup flagged
      /\ flagged' \cup pending' \subseteq flagged \cup pending \cup {Head(toWorker).id}
  BY DEF ReceiveCancel
<1>2. /\ Typed /\ Sane /\ client # "failed" /\ UNCHANGED <<sent, made, client>>
      /\ Head(toWorker) = toWorker[1] /\ toWorker[1].kind = "cancel" /\ toWorker[1] \in Message
      /\ Len(toWorker) \in Nat /\ Len(toWorker) >= 1
      /\ Framed(toClient)' /\ Kept' /\ Seated'
  BY <1>1, ReceiveLine
<1>3. Phased' /\ Accounted' /\ joins' \in Seq(Joining)
  BY <1>1, ReceivePhased
<1>4. Typed'
  <2>1. toWorker[1].id \in Requests
    BY <1>2, MessageLine
  <2>2. flagged' \subseteq Requests /\ pending' \subseteq Requests
    BY <2>1, <1>1, <1>2 DEF Typed, WorkerTyped
  <2> QED
    BY <2>2, <1>1, <1>2, <1>3, ReceiveTyped DEF Typed, PipesTyped
<1>5. Caused'
  <2>1. Heeded(toWorker[1].id)
    <3>1. 1 \in 1..Len(toWorker) /\ IsCancel(1, toWorker[1].id)
      BY <1>2 DEF IsCancel
    <3> QED
      BY <3>1 DEF Heeded
  <2>2. \A r \in Requests : r \in flagged' \cup pending' => Heeded(r)
    BY <2>1, <1>1, <1>2 DEF Heeded
  <2> QED
    BY <2>2, <1>1, ReceiveCaused
<1>6. Worked' /\ Engined'
  <2>1. flagged \subseteq flagged' /\ flagged' \subseteq registered
    BY <1>1, <1>2 DEF Sane, Worked
  <2> QED
    BY <2>1, <1>1, ReceiveWorked
<1>7. Sane'
  BY <1>2, <1>3, <1>5, <1>6 DEF Sane
<1> QED
  BY <1>2, <1>4, <1>7, Intact

-----------------------------------------------------------------------------
(* The worker's main thread *)

\* What every step of the main thread leaves alone.
WorkerOnly == UNCHANGED <<engine, cancelled, free, answer, got, client, batch, listed, initial, cancelSent, toWorker>>

\* The client's view of another pipe.
LEMMA PipeMoves ==
  ASSUME NEW p, toClient' = p, UNCHANGED <<got, answer, batch, listed, cancelSent>>
  PROVE  /\ Framed(p) => Framed(toClient)'
         /\ \A r : Ended(toClient, r)' <=> Ended(p, r)
         /\ \A r : Untouched(toClient, r)' <=> Untouched(p, r)
         /\ \A r, n : Latest(toClient, r, n)' <=> Latest(p, r, n)
<1>1. \A r, n, i : Reached(toClient, r, n, i)' <=> Reached(p, r, n, i)
  BY DEF Reached, TokenAt
<1>2. \A i : Acceptable(p, i) => Acceptable(toClient, i)'
  BY <1>1 DEF Acceptable
<1>3. \A i, j : InOrder(p, i, j) => InOrder(toClient, i, j)'
  BY DEF InOrder, About
<1>4. Framed(p) => Framed(toClient)'
  BY <1>2, <1>3 DEF Framed
<1>5. \A r : Ended(toClient, r)' <=> Ended(p, r)
  BY DEF Ended, EndIn, About
<1>6. \A r : Untouched(toClient, r)' <=> Untouched(p, r)
  BY DEF Untouched, Silent, About
<1>7. \A r, n : Latest(toClient, r, n)' <=> Latest(p, r, n)
  BY <1>1 DEF Latest
<1> QED
  BY <1>4, <1>5, <1>6, <1>7

\* While a batch runs, the worker's rows are the first of the listed ones.
LEMMA AtWork ==
  ASSUME IInv, client # "failed", Busy
  PROVE  /\ Typed /\ Sane /\ ClientTyped /\ PipesTyped /\ WorkerTyped
         /\ client = "running" /\ Working /\ NoGenerate /\ commands = <<>> /\ ~Closed /\ ~Broken
         /\ wbatch = batch /\ initial <= Len(allIds) /\ Share(allIds) /\ allIds \in Seq(Requests)
         /\ Arrived \in Seq(Requests) /\ Arrived = Carried(joins, batch)
         /\ Carried(toWorker, batch) \in Seq(Requests)
         /\ listed = (allIds \o Arrived) \o Carried(toWorker, batch) /\ IsInjective(listed)
         /\ IsInjective(allIds) /\ IsInjective(Arrived) /\ Elements(allIds) \cap Elements(Arrived) = {}
         /\ IsInjective(allIds \o Arrived) /\ ~Duplicate
         /\ Elements(allIds) \subseteq Elements(listed) /\ Elements(Arrived) \subseteq Elements(listed)
         /\ \A r \in Elements(listed) \ Elements(allIds) : Untouched(toClient, r)
         /\ \A i \in 1..Len(toClient) : toClient[i].kind \in RowKinds
<1>1. Typed /\ Sane /\ ClientTyped /\ PipesTyped /\ WorkerTyped /\ Phased /\ Accounted
  BY DEF IInv, Typed, Sane
<1>2. client = "running" /\ Working
  BY <1>1 DEF Phased, ClientTyped, Resting, Asked, Commanded, Ending
<1>3. NoGenerate /\ commands = <<>> /\ ~Closed /\ ~Broken /\ wbatch = batch /\ initial <= Len(allIds)
  BY <1>2 DEF Working, Broken, Closed
<1>4. PICK X \in Seq(Requests) : Share(X)
  BY <1>1, <1>2 DEF Accounted
<1>5. X = allIds /\ Share(allIds) /\ allIds \in Seq(Requests)
  BY <1>3, <1>4 DEF Share, Taken
<1>6. Arrived = Carried(joins, batch) /\ Arrived \in Seq(Requests) /\ Carried(toWorker, batch) \in Seq(Requests)
  BY <1>1, <1>3, TakenRows DEF Arrived
<1> DEFINE w == Carried(toWorker, batch)
           a == Arrived
<1>7. listed = (allIds \o a) \o w
  <2>1. Carried(commands, batch) = <<>>
    BY <1>3, CarriedEmpty
  <2>2. allIds \o <<>> = allIds
    BY <1>5, ConcatEmptySeq
  <2> QED
    BY <1>5, <1>6, <2>1, <2>2 DEF Share, Split
<1>8. IsInjective(listed)
  BY <1>1 DEF Accounted
<1>9. a \in Seq(Requests) /\ w \in Seq(Requests)
  BY <1>6
<1>10. w = Carried(toWorker, batch) /\ a = Arrived
  OBVIOUS
<1> HIDE DEF w, a
<1>11. /\ allIds \o a \in Seq(Requests) /\ Elements(allIds \o a) = Elements(allIds) \cup Elements(a)
       /\ IsInjective(allIds \o a) <=>
            IsInjective(allIds) /\ IsInjective(a) /\ Elements(allIds) \cap Elements(a) = {}
  BY <1>5, <1>9, ConcatLine
<1>12. PICK h : h = allIds \o a /\ h \in Seq(Requests)
  BY <1>11
<1>13. IsInjective(h) /\ Elements(h) \subseteq Elements(h \o w)
  <2>1. h \in Seq(Requests) /\ w \in Seq(Requests)
    BY <1>9, <1>12
  <2>2. /\ Elements(h \o w) = Elements(h) \cup Elements(w)
        /\ IsInjective(h \o w) => IsInjective(h)
    BY ONLY <2>1, ConcatLine
  <2> QED
    BY <2>2, <1>7, <1>8, <1>12
<1>14. /\ IsInjective(allIds \o a) /\ IsInjective(allIds) /\ IsInjective(a) /\ Elements(allIds) \cap Elements(a) = {}
       /\ Elements(allIds) \subseteq Elements(listed) /\ Elements(a) \subseteq Elements(listed)
  BY <1>7, <1>11, <1>12, <1>13
<1>15. ~Duplicate
  BY <1>10, <1>14 DEF Duplicate
<1>16. \A r \in Elements(listed) \ Elements(allIds) : Untouched(toClient, r)
  BY <1>5 DEF Share
<1>17. \A i \in 1..Len(toClient) : toClient[i].kind \in RowKinds
  <2>1. SUFFICES ASSUME NEW i \in 1..Len(toClient) PROVE toClient[i].kind \in RowKinds
    OBVIOUS
  <2>2. toClient \in Seq(Frame) /\ Len(toClient) \in Nat
    BY <1>1 DEF PipesTyped
  <2>3. i \in 1..Len(toClient) - 1 \/ i = Len(toClient)
    BY <2>2
  <2>4. CASE i = Len(toClient)
    <3>1. toClient # <<>> /\ toClient[i] \in Frame
      BY <2>2, <2>4
    <3>2. toClient[i].kind \notin {"batch_done", "error"}
      BY <2>4, <3>1, <1>3 DEF Closed, Final
    <3> QED
      BY <3>1, <3>2, FrameLine DEF RowKinds
  <2> QED
    BY <2>3, <2>4, <1>1 DEF Phased
<1> QED
  BY <1>1, <1>2, <1>3, <1>5, <1>6, <1>7, <1>8, <1>10, <1>14, <1>15, <1>16, <1>17

\* A row frame at its end does not close a pipe.
LEMMA OpenPipe ==
  ASSUME toClient' \in Seq(Frame), \A i \in 1..Len(toClient') : toClient'[i].kind \in RowKinds
  PROVE  ~Closed' /\ ~Broken' /\ \A i \in 1..Len(toClient') - 1 : toClient'[i].kind \in RowKinds
<1>1. Len(toClient') \in Nat
  OBVIOUS
<1>2. \A i \in 1..Len(toClient') - 1 : i \in 1..Len(toClient')
  BY <1>1
<1>3. toClient' # <<>> => Len(toClient') \in 1..Len(toClient')
  BY <1>1
<1> QED
  BY <1>2, <1>3 DEF Closed, Broken, Final, RowKinds

\* No step of the main thread takes a request from a caller, or seats one.
LEMMA WorkSeated ==
  ASSUME Sane, WorkerOnly
  PROVE  Seated'
  BY DEF Sane, Seated, Dense, Open, WorkerOnly

\* A step of a running batch that stays in it.
LEMMA WorkOn ==
  ASSUME IInv, client # "failed", Busy, Busy', WorkerOnly, UNCHANGED <<commands, wbatch>>,
         toClient' \in Seq(Frame), \A i \in 1..Len(toClient') : toClient'[i].kind \in RowKinds,
         NEW more \in Seq(Requests), allIds' = allIds \o more,
         \/ more = <<>> /\ joins' = joins
         \/ more = Arrived /\ joins' = <<>>,
         \A r \in Requests \ Elements(allIds') : Untouched(toClient, r) => Untouched(toClient, r)',
         registered' \subseteq registered \cup Elements(allIds'),
         flagged' \cup pending' \subseteq flagged \cup pending
  PROVE  Phased' /\ Accounted' /\ Kept' /\ Caused' /\ Seated'
<1>1. /\ Typed /\ Sane /\ ClientTyped /\ PipesTyped /\ WorkerTyped
      /\ client = "running" /\ Working /\ NoGenerate /\ commands = <<>> /\ ~Closed /\ ~Broken
      /\ wbatch = batch /\ initial <= Len(allIds) /\ Share(allIds) /\ allIds \in Seq(Requests)
      /\ Arrived \in Seq(Requests) /\ Arrived = Carried(joins, batch)
      /\ Carried(toWorker, batch) \in Seq(Requests)
      /\ listed = (allIds \o Arrived) \o Carried(toWorker, batch) /\ IsInjective(listed)
      /\ \A r \in Elements(listed) \ Elements(allIds) : Untouched(toClient, r)
      /\ \A r \in registered : answer[r] # "none" \/ r \in Elements(allIds)
  BY AtWork DEF Share
<1>2. UNCHANGED <<engine, cancelled, free, answer, got, client, batch, listed, initial, cancelSent, toWorker>>
  BY DEF WorkerOnly
<1>3. ~Closed' /\ ~Broken' /\ \A i \in 1..Len(toClient') - 1 : toClient'[i].kind \in RowKinds
  BY OpenPipe
<1>4. /\ allIds' \in Seq(Requests) /\ Elements(allIds') = Elements(allIds) \cup Elements(more)
      /\ Len(allIds') >= Len(allIds) /\ Len(allIds) \in Nat /\ Len(allIds') \in Nat
  BY <1>1, ConcatLine, JoinLine
<1>5. /\ \A i \in 1..Len(toWorker') : toWorker'[i].kind # "cancel" => toWorker'[i].batch <= batch'
      /\ \A i \in 1..Len(joins') : joins'[i].batch <= batch'
  BY <1>1, <1>2 DEF Sane, Phased
<1>6. Working'
  <2>1. NoGenerate' /\ commands' = <<>> /\ wbatch' = batch'
    BY <1>1, <1>2 DEF NoGenerate
  <2>2. initial' <= Len(allIds')
    BY <1>1, <1>2, <1>4, BoundAssumption DEF ClientTyped
  <2> QED
    BY <2>1, <2>2, <1>3 DEF Working
<1>7. Phased'
  BY <1>1, <1>2, <1>3, <1>5, <1>6 DEF Phased
<1>8. Carried(joins', batch') \in Seq(Requests) /\ allIds \o Arrived = allIds' \o Carried(joins', batch')
  <2>1. CASE more = <<>> /\ joins' = joins
    <3>1. allIds' = allIds
      BY <2>1, <1>1, ConcatEmptySeq
    <3> QED
      BY <3>1, <2>1, <1>1, <1>2
  <2>2. CASE more = Arrived /\ joins' = <<>>
    <3>1. Carried(joins', batch') = <<>>
      BY <2>2, CarriedEmpty
    <3>2. allIds' \o <<>> = allIds'
      BY <1>4, ConcatEmptySeq
    <3> QED
      BY <3>1, <3>2, <2>2
  <2> QED
    BY <2>1, <2>2
<1>9. listed = (allIds' \o Carried(joins', batch')) \o Carried(toWorker, batch)
  BY <1>1, <1>8
<1>10. /\ (allIds' \o Carried(joins', batch')) \in Seq(Requests)
       /\ Elements(allIds') \subseteq Elements(listed)
  <2>1. PICK c : c = Carried(joins', batch') /\ c \in Seq(Requests)
    BY <1>8
  <2>2. PICK a : a = allIds' /\ a \in Seq(Requests)
    BY <1>4
  <2>3. PICK w : w = Carried(toWorker, batch) /\ w \in Seq(Requests)
    BY <1>1
  <2>4. PICK h : h = a \o c
    OBVIOUS
  <2>5. h \in Seq(Requests) /\ Elements(a) \subseteq Elements(h)
    <3>1. a \in Seq(Requests) /\ c \in Seq(Requests)
      BY <2>1, <2>2
    <3>2. a \o c \in Seq(Requests) /\ Elements(a \o c) = Elements(a) \cup Elements(c)
      BY ONLY <3>1, ConcatLine
    <3> QED
      BY <3>2, <2>4
  <2>6. Elements(h) \subseteq Elements(h \o w)
    BY <2>3, <2>5, ConcatLine
  <2>7. listed = h \o w
    BY <2>1, <2>2, <2>3, <2>4, <1>9
  <2> QED
    BY <2>1, <2>2, <2>4, <2>5, <2>6, <2>7
<1>11. Split(allIds)' 
  <2>1. Carried(commands', batch') = <<>>
    BY <1>1, CarriedEmpty
  <2>2. allIds' \o <<>> = allIds'
    BY <1>4, ConcatEmptySeq
  <2> QED
    BY <2>1, <2>2, <1>2, <1>9 DEF Split
<1>12. \A r \in Elements(listed') \ Elements(allIds') : Untouched(toClient, r)'
  <2>1. Elements(listed) \subseteq Requests
    <3>1. listed \in Seq(Requests)
      BY <1>1 DEF ClientTyped
    <3> QED
      BY <3>1, PlacesLine
  <2> QED
    BY <2>1, <1>1, <1>2, <1>4
<1>13. \A r \in registered' : answer'[r] # "none" \/ r \in Elements(allIds')
  BY <1>1, <1>2, <1>4
<1>14. Share(allIds)'
  <2>1. Taken' = allIds'
    BY DEF Taken
  <2> QED
    BY <2>1, <1>11, <1>12, <1>13 DEF Share
<1>15. Accounted'
  BY <1>1, <1>2, <1>4, <1>14 DEF Accounted
<1>16. Kept'
  <2>1. free \subseteq Requests
    BY <1>1 DEF ClientTyped
  <2> QED
    BY <2>1, <1>1, <1>2, <1>10 DEF Sane, Kept
<1>17. Caused'
  BY <1>1, <1>2 DEF Sane, Caused, Heeded, IsCancel
<1>18. Seated'
  BY <1>1, WorkSeated
<1> QED
  BY <1>7, <1>15, <1>16, <1>17, <1>18

\* The parts of the invariant a step of the main thread disturbs.
LEMMA WorkIntact ==
  ASSUME IInv, Typed', Counted', Sane', client' # "failed"
  PROVE  IInv'
  BY DEF IInv, NeverCondemned

\* The types, once the worker's own are right.
LEMMA WorkTyped ==
  ASSUME Typed, WorkerOnly, faulted' \in BOOLEAN, WorkerTyped',
         toClient' \in Seq(Frame), commands' \in Seq(Command), joins' \in Seq(Joining)
  PROVE  Typed'
<1>1. UNCHANGED <<engine, cancelled, free, answer, got, client, batch, listed, initial, cancelSent, toWorker>>
  BY DEF WorkerOnly
<1>2. ClientTyped'
  BY <1>1 DEF Typed, ClientTyped
<1>3. PipesTyped'
  BY <1>1 DEF Typed, PipesTyped
<1> QED
  BY <1>1, <1>2, <1>3 DEF Typed

\* A row no step touches keeps its progress.
LEMMA ProgressKept ==
  ASSUME NEW s \in Requests, sent \in [Requests -> Nat], Progress(s),
         Ended(toClient, s)' <=> Ended(toClient, s),
         \A n \in Nat : Latest(toClient, s, n) => Latest(toClient, s, n)',
         sent'[s] = sent[s], made'[s] = made[s], flagged \subseteq flagged',
         s \in finished' <=> s \in finished, s \in done' <=> s \in done
  PROVE  Progress(s)'
<1>1. PICK n \in Nat : n = sent[s]
  OBVIOUS
<1>2. Latest(toClient, s, n)'
  BY <1>1 DEF Progress
<1>3. Latest(toClient, s, sent[s])'
  BY <1>1, <1>2
<1> QED
  BY <1>3 DEF Progress

\* A new row starts from nothing.
LEMMA ProgressNew ==
  ASSUME NEW s \in Requests, Untouched(toClient, s)', sent'[s] = 0, made'[s] = 0, s \notin finished', s \notin done'
  PROVE  Progress(s)'
<1>1. PICK z \in Nat : z = 0
  OBVIOUS
<1>2. Latest(toClient, s, z)'
  BY <1>1 DEF Untouched, Silent, About, Latest, Reached, RowKinds
<1>3. ~Ended(toClient, s)'
  BY DEF Untouched, Silent, Ended, EndIn
<1>4. 0 < Output[s]
  BY RequestAssumption
<1>5. Latest(toClient, s, sent[s])'
  BY <1>1, <1>2
<1> QED
  BY <1>3, <1>4, <1>5 DEF Progress

\* A request nothing was heard of has no end, and no token yet.
LEMMA UntouchedLine ==
  ASSUME NEW q, NEW r, Untouched(q, r)
  PROVE  ~Ended(q, r) /\ answer[r] = "none" /\ Latest(q, r, 0)
  BY DEF Untouched, Silent, About, Latest, Reached, RowKinds, Ended, EndIn

\* What holds of the rows of a running batch.
LEMMA RowsLine ==
  ASSUME IInv, client # "failed", Busy
  PROVE  /\ Apart /\ Live \subseteq Elements(allIds) /\ flagged \subseteq registered
         /\ \A r \in Elements(allIds) : Ended(toClient, r) \/ r \in Live
         /\ stopped \subseteq flagged
         /\ \A r \in finished : Ended(toClient, r)
         /\ wpc = "round" => joined = <<>> /\ leftovers = <<>>
         /\ wpc \in {"round", "prefill", "report"} => waiting = <<>>
         /\ InRun => report # <<>> /\ skipped \subseteq flagged \cap Elements(report)
         /\ \A r \in Live \ Started : Untouched(toClient, r)
         /\ \A r \in Started : Progress(r)
         /\ Started \subseteq Live /\ Live \subseteq Requests
         /\ Engined
<1>1. Worked /\ Engined /\ WorkerTyped
  BY DEF IInv, Sane, Typed
<1>2. Live \subseteq Requests /\ Started \subseteq Live
  BY <1>1, JobLine DEF Live, Started
<1> QED
  BY <1>1, <1>2 DEF Worked

\* Form keeps the invariant.
LEMMA FormSafe ==
  ASSUME IInv, Form
  PROVE  IInv'
<1>1. /\ wpc = "form" /\ client # "failed" /\ Busy /\ InRun
      /\ done' = done \cup {r \in Elements(rotation \o arriving) : Stoppable(r)}
      /\ rotation' = Without(rotation \o arriving, done')
      /\ arriving' = <<>>
      /\ todo' = SubSeq(rotation', 1, IF Len(rotation') < GroupWidth THEN Len(rotation') ELSE GroupWidth)
      /\ \/ rotation' = <<>> /\ wpc' = "report" /\ leftovers' = leftovers \o waiting /\ waiting' = <<>>
         \/ rotation' # <<>> /\ wpc' = "decode" /\ UNCHANGED <<leftovers, waiting>>
      /\ UNCHANGED <<engine, faulted, cancelled, free, answer, got, client, batch, listed, initial, cancelSent,
                     toWorker, toClient, commands, joins, registered, flagged, pending,
                     wbatch, limit, allIds, report, skipped, joined, sent, stopped, finished, made>>
  BY DEF Form, At, Alive, machine, clientVars, receiverVars, streamVars, Busy, InRun
<1>2. /\ Typed /\ Sane /\ PipesTyped /\ WorkerTyped /\ allIds \in Seq(Requests) /\ client = "running"
      /\ \A i \in 1..Len(toClient) : toClient[i].kind \in RowKinds
  BY <1>1, AtWork
<1>3. /\ Apart /\ Live \subseteq Elements(allIds) /\ flagged \subseteq registered
      /\ \A r \in Elements(allIds) : Ended(toClient, r) \/ r \in Live
      /\ stopped \subseteq flagged
      /\ \A r \in finished : Ended(toClient, r)
      /\ report # <<>> /\ skipped \subseteq flagged \cap Elements(report)
      /\ \A r \in Live \ Started : Untouched(toClient, r)
      /\ \A r \in Started : Progress(r)
      /\ Started \subseteq Live /\ Live \subseteq Requests /\ Engined
  BY <1>1, RowsLine
<1>4. /\ rotation \in Seq(Requests) /\ arriving \in Seq(Requests) /\ waiting \in Seq(Requests)
      /\ leftovers \in Seq(Requests) /\ done \subseteq Requests /\ sent \in [Requests -> Nat]
  BY <1>2 DEF WorkerTyped
<1>5. /\ rotation \o arriving \in Seq(Requests) /\ Elements(rotation \o arriving) = Running
      /\ IsInjective(rotation \o arriving)
  <2>1. IsInjective(rotation) /\ IsInjective(arriving) /\ Elements(rotation) \cap Elements(arriving) = {}
    BY <1>1, <1>3 DEF Engined
  <2> QED
    BY <2>1, <1>4, ConcatLine DEF Running
<1>6. Running \subseteq Started /\ Started \subseteq done \cup Running /\ Running \subseteq Requests
  BY <1>1, <1>3 DEF Engined
<1>7. done' = done \cup {r \in Running : Stoppable(r)} /\ done' \subseteq Requests
  BY <1>1, <1>4, <1>5, <1>6
<1>8. /\ rotation' \in Seq(Requests) /\ Elements(rotation') = Running \ done' /\ IsInjective(rotation')
  <2>1. PICK q \in Seq(Requests) : q = rotation \o arriving
    BY <1>5
  <2>2. PICK D : D = done'
    OBVIOUS
  <2>3. /\ Only(q, Requests \ D) \in Seq(Requests) /\ Elements(Only(q, Requests \ D)) = Elements(q) \cap (Requests \ D)
        /\ IsInjective(q) => IsInjective(Only(q, Requests \ D))
    BY <2>1, OnlyLine
  <2>4. rotation' = Only(q, Requests \ D)
    BY <2>1, <2>2, <1>1 DEF Without
  <2> QED
    BY <2>1, <2>2, <2>3, <2>4, <1>5, <1>6
<1>9. /\ todo' \in Seq(Requests) /\ Elements(todo') \subseteq Elements(rotation') /\ IsInjective(todo')
      /\ \E rest \in Seq(Requests) : rotation' = todo' \o rest
      /\ rotation' # <<>> => todo' # <<>>
  <2>1. PICK q \in Seq(Requests) : q = rotation'
    BY <1>8
  <2>2. PICK n \in Nat : n = Len(q)
    OBVIOUS
  <2>3. PICK k : k = IF n < GroupWidth THEN n ELSE GroupWidth
    OBVIOUS
  <2>4. k \in 0..n /\ (n # 0 => k # 0)
    BY <2>3, BoundAssumption
  <2>5. PICK a : a = SubSeq(q, 1, k)
    OBVIOUS
  <2>6. PICK b : b = SubSeq(q, k + 1, Len(q))
    OBVIOUS
  <2>7. /\ a \in Seq(Requests) /\ b \in Seq(Requests) /\ q = a \o b
        /\ Len(a) = k /\ Elements(q) = Elements(a) \cup Elements(b)
        /\ IsInjective(q) => IsInjective(a)
    <3>1. q \in Seq(Requests) /\ k \in 0..Len(q)
      BY <2>2, <2>4
    <3> DEFINE a1 == SubSeq(q, 1, k)
               b1 == SubSeq(q, k + 1, Len(q))
    <3>2. /\ a1 \in Seq(Requests) /\ b1 \in Seq(Requests) /\ q = a1 \o b1
          /\ Len(a1) = k /\ Elements(q) = Elements(a1) \cup Elements(b1)
          /\ IsInjective(q) => IsInjective(a1)
      <4>1. a1 \in Seq(Requests) /\ b1 \in Seq(Requests) /\ Len(a1) = k
        BY ONLY <3>1, CutType
      <4>2. q = a1 \o b1
        BY ONLY <3>1, CutLine
      <4>3. Elements(q) = Elements(a1) \cup Elements(b1)
        BY ONLY <3>1, CutLine
      <4>4. IsInjective(q) => IsInjective(a1)
        BY ONLY <3>1, CutLine
      <4> QED
        BY <4>1, <4>2, <4>3, <4>4
    <3> HIDE DEF a1, b1
    <3>3. a = a1 /\ b = b1
      BY <2>5, <2>6 DEF a1, b1
    <3> QED
      BY <3>2, <3>3
  <2>8. q # <<>> => n # 0
    BY <2>2, EmptySeq
  <2>9. todo' = a
    BY <1>1, <2>1, <2>2, <2>3, <2>5
  <2>10. k # 0 => a # <<>>
    BY <2>7
  <2> QED
    BY <2>1, <2>4, <2>7, <2>8, <2>9, <2>10, <1>8
<1>10. /\ leftovers' \in Seq(Requests) /\ waiting' \in Seq(Requests) /\ Live' = Live /\ Apart'
       /\ wpc' = "report" => waiting' = <<>>
  <2>1. CASE rotation' # <<>>
    BY <2>1, <1>1, <1>3, <1>4 DEF Live, Apart
  <2>2. CASE rotation' = <<>>
    <3>1. leftovers' = leftovers \o waiting /\ waiting' = <<>>
      BY <2>2, <1>1
    <3>2. /\ leftovers' \in Seq(Requests) /\ Elements(leftovers') = Elements(leftovers) \cup Elements(waiting)
          /\ IsInjective(leftovers')
      BY <3>1, <1>3, <1>4, ConcatLine DEF Apart
    <3>3. Elements(waiting') = {} /\ IsInjective(waiting')
      BY <3>1, EmptyLine
    <3> QED
      BY <3>1, <3>2, <3>3, <1>1, <1>3 DEF Live, Apart
  <2> QED
    BY <2>1, <2>2
<1>11. Busy' /\ InRun' /\ wpc' \in {"report", "decode"} /\ Started' = Started
  BY <1>1 DEF Busy, InRun, Started
<1>12. Flow
  BY <1>1, StillFlow
<1>13. \A r \in Started : Progress(r)'
  <2>1. SUFFICES ASSUME NEW r \in Started PROVE Progress(r)'
    OBVIOUS
  <2>2. r \in Requests /\ Progress(r) /\ (r \in done' => r \in done \/ r \in flagged)
    BY <1>3, <1>7 DEF Stoppable
  <2>3. r \notin done' => r \notin done
    BY <1>7
  <2>4. Latest(toClient, r, sent[r])' /\ (Ended(toClient, r)' <=> Ended(toClient, r))
    <3>1. PICK n \in Nat : n = sent[r] /\ n = sent'[r]
      BY <2>2, <1>1, <1>4
    <3>2. Latest(toClient, r, n)'
      BY <2>2, <3>1, <1>12 DEF Progress, Flow
    <3> QED
      BY <3>1, <3>2, <2>2, <1>12 DEF Flow
  <2>5. UNCHANGED <<finished, flagged, made, sent>>
    BY <1>1
  <2>6. done \subseteq done'
    BY <1>7
  <2> QED
    BY <2>2, <2>3, <2>4, <2>5, <2>6 DEF Progress
<1>14. Worked'
  <2>1. \A r \in Live \ Started : Untouched(toClient, r)'
    BY <1>3, <1>12 DEF Flow
  <2>2. \A r \in Elements(allIds) : Ended(toClient, r)' \/ r \in Live
    <3>1. Elements(allIds) \subseteq Requests
      BY <1>2, PlacesLine
    <3> QED
      BY <3>1, <1>3, <1>12 DEF Flow
  <2>3. \A r \in finished : Ended(toClient, r)'
    BY <1>2, <1>3, <1>12 DEF Flow, WorkerTyped
  <2> QED
    BY <2>1, <2>2, <2>3, <1>1, <1>3, <1>10, <1>11, <1>13 DEF Worked
<1>15. Engined'
  <2>1. Elements(arriving') = {} /\ IsInjective(arriving')
    BY <1>1, EmptyLine
  <2>2. Running' = Running \ done'
    BY <2>1, <1>8 DEF Running
  <2>3. rotation' = <<>> => Running' = {}
    BY <2>1, EmptyLine DEF Running
  <2>4. done \subseteq done'
    BY <1>7
  <2> QED
    BY <2>1, <2>2, <2>3, <2>4, <1>1, <1>6, <1>8, <1>9, <1>11 DEF Engined
<1>16. Framed(toClient)'
  BY <1>1, <1>2, StillFramed DEF Sane, PipesTyped
<1>17. Phased' /\ Accounted' /\ Kept' /\ Caused' /\ Seated'
  <2>1. allIds' = allIds \o <<>> /\ <<>> \in Seq(Requests)
    BY <1>1, <1>2, ConcatEmptySeq
  <2>2. WorkerOnly
    BY <1>1 DEF WorkerOnly
  <2>3. \A r \in Requests : Untouched(toClient, r) => Untouched(toClient, r)'
    BY <1>12 DEF Flow
  <2>4. toClient' \in Seq(Frame)
    BY <1>1, <1>2 DEF PipesTyped
  <2> QED
    BY <2>1, <2>2, <2>3, <2>4, <1>1, <1>2, <1>11, <1>16, WorkOn
<1>18. Sane'
  BY <1>14, <1>15, <1>16, <1>17 DEF Sane
<1>19. Typed'
  <2>1. WorkerTyped'
    <3>1. WorkerTyped
      BY <1>2
    <3>2. wpc' \in {"report", "decode"} /\ arriving' \in Seq(Requests)
      BY <1>1, <1>11
    <3>3. /\ rotation' \in Seq(Requests) /\ todo' \in Seq(Requests) /\ done' \subseteq Requests
          /\ leftovers' \in Seq(Requests) /\ waiting' \in Seq(Requests)
      BY <1>7, <1>8, <1>9, <1>10
    <3>4. UNCHANGED <<registered, flagged, pending, wbatch, limit, allIds, report, skipped, joined, sent, stopped,
                      finished, made>>
      BY <1>1
    <3> QED
      BY <3>1, <3>2, <3>3, <3>4 DEF WorkerTyped
  <2>2. WorkerOnly
    BY <1>1 DEF WorkerOnly
  <2> QED
    BY <2>1, <2>2, <1>1, <1>2, WorkTyped DEF Typed, PipesTyped
<1>20. UNCHANGED <<sent, made>> /\ client' # "failed"
  BY <1>1, <1>2
<1> QED
  BY <1>18, <1>19, <1>20, Intact

\* The last frame of a batch.
LEMMA BatchOver ==
  ASSUME IInv, client # "failed", Busy, WorkerOnly,
         UNCHANGED <<commands, joins, wbatch, allIds, registered, flagged, pending>>,
         NEW e \in Frame, e.kind \in {"batch_done", "error"}, e.batch = wbatch, toClient' = toClient \o <<e>>,
         wpc' = "cleanup", e.kind = "error" => faulted',
         e.kind = "batch_done" => e.ids = allIds /\ \A r \in Elements(allIds) : Ended(toClient, r)
  PROVE  Sane' /\ toClient' \in Seq(Frame) /\ Typed
<1>1. /\ Typed /\ Sane /\ ClientTyped /\ PipesTyped /\ WorkerTyped
      /\ client = "running" /\ NoGenerate /\ commands = <<>>
      /\ wbatch = batch /\ initial <= Len(allIds) /\ Share(allIds) /\ allIds \in Seq(Requests)
      /\ \A i \in 1..Len(toClient) : toClient[i].kind \in RowKinds
  BY AtWork
<1>2. UNCHANGED <<engine, cancelled, free, answer, got, client, batch, listed, initial, cancelSent, toWorker>>
  BY DEF WorkerOnly
<1>3. PICK p : p = toClient \o <<e>>
  OBVIOUS
<1>4. /\ p \in Seq(Frame) /\ Len(p) = Len(toClient) + 1 /\ Len(toClient) \in Nat /\ p[Len(toClient) + 1] = e
      /\ \A i \in 1..Len(toClient) : p[i] = toClient[i]
  <2>1. <<e>> \in Seq(Frame) /\ Len(<<e>>) = 1 /\ <<e>>[1] = e /\ toClient \in Seq(Frame)
    BY <1>1, OneLine DEF PipesTyped
  <2>2. /\ toClient \o <<e>> \in Seq(Frame) /\ Len(toClient \o <<e>>) = Len(toClient) + Len(<<e>>) /\ Len(toClient) \in Nat
        /\ \A i \in 1..Len(toClient) : (toClient \o <<e>>)[i] = toClient[i]
        /\ \A i \in 1..Len(<<e>>) : (toClient \o <<e>>)[Len(toClient) + i] = <<e>>[i]
    BY <2>1, JoinLine
  <2> QED
    BY <2>1, <2>2, <1>3
<1>5. /\ Framed(p)
      /\ \A r \in Requests : Ended(p, r) <=> Ended(toClient, r)
      /\ \A r \in Requests : Untouched(toClient, r) => Untouched(p, r)
  <2>1. toClient \in Seq(Frame) /\ Framed(toClient) /\ got \in [Requests -> Nat] /\ e.kind \notin RowKinds
    BY <1>1 DEF PipesTyped, ClientTyped, Sane, RowKinds
  <2> QED
    BY <2>1, <1>3, LastPipe
<1>6. toClient' = p
  BY <1>3
<1>7. /\ Framed(toClient)'
      /\ \A r : Ended(toClient, r)' <=> Ended(p, r)
      /\ \A r : Untouched(toClient, r)' <=> Untouched(p, r)
  BY <1>2, <1>5, <1>6, PipeMoves
<1>8. /\ Final' = e /\ Closed' /\ (Broken' <=> e.kind = "error") /\ ~Busy'
  <2>1. p # <<>> /\ p[Len(p)] = e
    BY <1>4
  <2> QED
    BY <2>1, <1>6 DEF Final, Closed, Broken, Busy
<1>9. \A i \in 1..Len(toClient') - 1 : toClient'[i].kind \in RowKinds
  BY <1>1, <1>4, <1>6
<1>10. \A r \in Requests : Untouched(toClient, r) => Untouched(toClient, r)'
  BY <1>5, <1>7
<1>11. Ending'
  <2>1. NoGenerate' /\ commands' = <<>>
    BY <1>1, <1>2 DEF NoGenerate
  <2>2. CASE e.kind = "error"
    BY <2>1, <2>2, <1>1, <1>2, <1>8 DEF Ending
  <2>3. CASE e.kind = "batch_done"
    <3>1. \A r \in Elements(allIds) : Ended(toClient, r)'
      <4>1. Elements(allIds) \subseteq Requests
        BY <1>1, PlacesLine
      <4> QED
        BY <4>1, <2>3, <1>5, <1>7
    <3> QED
      BY <3>1, <2>1, <2>3, <1>1, <1>2, <1>8 DEF Ending
  <2> QED
    BY <2>2, <2>3
<1>12. Phased'
  BY <1>1, <1>2, <1>9, <1>11 DEF Sane, Phased
<1>13. Accounted'
  <2>1. ~Broken' => Taken' = allIds
    BY <1>8 DEF Taken
  <2>2. Split(allIds)'
    BY <1>1, <1>2 DEF Share, Split
  <2>3. Elements(listed) \subseteq Requests
    <3>1. listed \in Seq(Requests)
      BY <1>1 DEF ClientTyped
    <3> QED
      BY <3>1, PlacesLine
  <2>4. Share(allIds)'
    BY <2>1, <2>2, <2>3, <1>1, <1>2, <1>10 DEF Share
  <2> QED
    BY <2>4, <1>1, <1>2 DEF Sane, Accounted
<1>14. Kept'
  BY <1>1, <1>2, <1>10 DEF Sane, Kept, ClientTyped
<1>15. Caused'
  BY <1>1, <1>2 DEF Sane, Caused, Heeded, IsCancel
<1>16. Worked' /\ Engined'
  BY <1>1, <1>8 DEF Sane, Worked, Engined, InRun
<1>17. Seated'
  BY <1>1, WorkSeated
<1> QED
  BY <1>1, <1>4, <1>6, <1>7, <1>12, <1>13, <1>14, <1>15, <1>16, <1>17 DEF Sane

\* NoRowsLeft keeps the invariant: the batch_done it sends names every row, and each has its end.
LEMMA NoRowsLeftSafe ==
  ASSUME IInv, NoRowsLeft
  PROVE  IInv'
<1> DEFINE f == [kind |-> "batch_done", batch |-> wbatch, ids |-> allIds]
<1>1. /\ client # "failed" /\ wpc = "round" /\ Busy /\ report = <<>> /\ toClient' = Append(toClient, f) /\ wpc' = "cleanup"
      /\ UNCHANGED <<engine, faulted, cancelled, free, answer, got, client, batch, listed, initial, cancelSent,
                     toWorker, commands, joins, registered, flagged, pending, wbatch, limit, allIds, report, skipped,
                     joined, waiting, leftovers, sent, stopped, finished, rotation, arriving, todo, made, done>>
  BY DEF NoRowsLeft, At, Alive, machine, clientVars, receiverVars, batchVars, streamVars, runVars, Busy
<1>2. Typed /\ PipesTyped /\ WorkerTyped /\ wbatch \in Nat /\ allIds \in Seq(Requests)
  BY <1>1, AtWork, BoundAssumption DEF WorkerTyped
<1>3. PICK e \in Frame : e = f
  BY <1>2 DEF Frame, LastFrame
<1>4. e.kind = "batch_done" /\ e.batch = wbatch /\ e.ids = allIds
  BY <1>3
<1>5. toClient' = toClient \o <<e>>
  BY <1>1, <1>2, <1>3 DEF PipesTyped
<1>6. \A r \in Elements(allIds) : Ended(toClient, r)
  <2>1. Live = {}
    BY <1>1, RowsLine, EmptyLine DEF Live
  <2> QED
    BY <2>1, <1>1, RowsLine
<1>7. Sane' /\ toClient' \in Seq(Frame)
  BY <1>1, <1>4, <1>5, <1>6, BatchOver DEF WorkerOnly
<1>8. Typed'
  <2>1. WorkerTyped' /\ WorkerOnly
    BY <1>1, <1>2 DEF WorkerTyped, WorkerOnly
  <2> QED
    BY <2>1, <1>1, <1>2, <1>7, WorkTyped DEF PipesTyped, Typed
<1> QED
  BY <1>1, <1>7, <1>8, Intact

\* EngineFault keeps the invariant.
LEMMA EngineFaultSafe ==
  ASSUME IInv, EngineFault
  PROVE  IInv'
<1> DEFINE f == [kind |-> "error", batch |-> wbatch]
<1>1. /\ client # "failed" /\ Busy /\ toClient' = Append(toClient, f) /\ wpc' = "cleanup" /\ faulted' = TRUE
      /\ UNCHANGED <<engine, cancelled, free, answer, got, client, batch, listed, initial, cancelSent,
                     toWorker, commands, joins, registered, flagged, pending, wbatch, limit, allIds, report, skipped,
                     joined, waiting, leftovers, sent, stopped, finished, rotation, arriving, todo, made, done>>
  BY DEF EngineFault, Fail, Alive, clientVars, receiverVars, batchVars, streamVars, runVars, Busy
<1>2. Typed /\ PipesTyped /\ WorkerTyped /\ wbatch \in Nat
  BY <1>1, AtWork, BoundAssumption DEF WorkerTyped
<1>3. PICK e \in Frame : e = f
  BY <1>2 DEF Frame, LastFrame
<1>4. e.kind = "error" /\ e.batch = wbatch
  BY <1>3
<1>5. toClient' = toClient \o <<e>>
  BY <1>1, <1>2, <1>3 DEF PipesTyped
<1>7. Sane' /\ toClient' \in Seq(Frame)
  BY <1>1, <1>4, <1>5, BatchOver DEF WorkerOnly
<1>8. Typed'
  <2>1. WorkerTyped' /\ WorkerOnly
    BY <1>1, <1>2 DEF WorkerTyped, WorkerOnly
  <2> QED
    BY <2>1, <1>1, <1>2, <1>7, WorkTyped DEF PipesTyped, Typed
<1> QED
  BY <1>1, <1>7, <1>8, Intact

\* finally: the registered events are dropped.
LEMMA CleanupSafe ==
  ASSUME IInv, Cleanup
  PROVE  IInv'
<1>1. /\ client # "failed" /\ wpc = "cleanup" /\ wpc' = "wait"
      /\ registered' = {} /\ flagged' = {} /\ joined' = <<>> /\ waiting' = <<>> /\ leftovers' = <<>>
      /\ stopped' = {} /\ finished' = {}
      /\ UNCHANGED <<engine, faulted, cancelled, free, answer, got, client, batch, listed, initial, cancelSent,
                     toWorker, toClient, commands, joins, pending>>
  BY DEF Cleanup, At, Alive, machine, clientVars
<1>2. /\ wbatch' = 0 /\ limit' = NoLimit /\ allIds' = <<>> /\ report' = <<>> /\ skipped' = {}
      /\ rotation' = <<>> /\ arriving' = <<>> /\ todo' = <<>> /\ done' = {}
      /\ sent' = [r \in Requests |-> 0] /\ made' = [r \in Requests |-> 0]
  BY DEF Cleanup
<1>3. Typed /\ Sane /\ ClientTyped /\ PipesTyped /\ WorkerTyped
  BY <1>1 DEF IInv, Typed
<1>4. Typed'
  <2>1. WorkerTyped'
    BY <1>1, <1>2, <1>3, BoundAssumption DEF WorkerTyped, Bound
  <2>2. WorkerOnly
    BY <1>1 DEF WorkerOnly
  <2> QED
    BY <2>1, <2>2, <1>1, <1>3, WorkTyped DEF PipesTyped, Typed
<1>5. Counted'
  BY <1>2, RequestAssumption DEF Counted
<1>6. ~Busy /\ ~Busy' /\ Taken' = Taken /\ (Broken' <=> Broken) /\ (Closed' <=> Closed) /\ Final' = Final
  BY <1>1 DEF Busy, Taken, Broken, Closed, Final
<1>7. Flow /\ \A x : Untouched(toClient, x)' <=> Untouched(toClient, x)
  BY <1>1, StillFlow DEF Untouched, Silent, About
<1>8. Phased'
  <2>1. NoGenerate' <=> NoGenerate
    BY <1>1 DEF NoGenerate
  <2>2. Resting => Resting'
    BY <2>1, <1>1, <1>6 DEF Resting
  <2>3. \A g : AskedAt(g) => AskedAt(g)'
    BY <1>1 DEF AskedAt
  <2>4. Asked => Asked'
    BY <2>3, <1>1, <1>6 DEF Asked
  <2>5. Commanded => Commanded'
    BY <2>1, <1>1, <1>6 DEF Commanded
  <2>6. Ending => Ending'
    <3>1. \A x : Ended(toClient, x)' <=> Ended(toClient, x)
      BY <1>1 DEF Ended, EndIn, About
    <3> QED
      BY <3>1, <2>1, <1>1, <1>6 DEF Ending
  <2>7. ~Working
    BY <1>6 DEF Working
  <2> QED
    BY <2>2, <2>4, <2>5, <2>6, <2>7, <1>1, <1>3 DEF Sane, Phased
<1>9. Accounted'
  <2>1. \A X \in Seq(Requests) : Share(X) => Share(X)'
    BY <1>1, <1>6, <1>7 DEF Share, Split
  <2> QED
    BY <2>1, <1>1, <1>3 DEF Sane, Accounted
<1>10. Kept'
  BY <1>1, <1>3, <1>7 DEF Sane, Kept
<1>11. Caused'
  BY <1>1, <1>3 DEF Sane, Caused, Heeded, IsCancel
<1>12. Worked' /\ Engined'
  BY <1>1, <1>6 DEF Worked, Engined, InRun
<1>13. Seated'
  BY <1>1, <1>3, WorkSeated DEF WorkerOnly
<1>14. Framed(toClient)'
  BY <1>1, <1>3, StillFramed DEF Sane, PipesTyped
<1>15. Sane'
  BY <1>8, <1>9, <1>10, <1>11, <1>12, <1>13, <1>14 DEF Sane
<1> QED
  BY <1>1, <1>4, <1>5, <1>15, WorkIntact

\* New rows have a stream and a session of their own, and others keep theirs.
LEMMA NewRowsLine ==
  ASSUME WorkerTyped, Counted, NEW rows \in Seq(Requests), NewRows(rows)
  PROVE  /\ sent' \in [Requests -> Nat] /\ made' \in [Requests -> Nat] /\ Counted'
         /\ stopped' \subseteq stopped /\ finished' \subseteq finished /\ done' = done \ Elements(rows)
         /\ finished' = finished \ Elements(rows)
         /\ \A r \in Elements(rows) :
              r \in Requests /\ sent'[r] = 0 /\ made'[r] = 0 /\ r \notin finished' /\ r \notin done'
         /\ \A r \in Requests \ Elements(rows) : sent'[r] = sent[r] /\ made'[r] = made[r]
<1>1. Elements(rows) \subseteq Requests
  BY PlacesLine
<1>2. /\ sent' = [r \in Requests |-> IF r \in Elements(rows) THEN 0 ELSE sent[r]]
      /\ made' = [r \in Requests |-> IF r \in Elements(rows) THEN 0 ELSE made[r]]
      /\ stopped' = stopped \ Elements(rows)
      /\ finished' = finished \ Elements(rows)
      /\ done' = done \ Elements(rows)
  BY DEF NewRows
<1>3. sent \in [Requests -> Nat] /\ made \in [Requests -> Nat]
  BY DEF WorkerTyped
<1>4. sent' \in [Requests -> Nat] /\ made' \in [Requests -> Nat]
  BY <1>2, <1>3
<1>5. /\ \A r \in Elements(rows) : sent'[r] = 0 /\ made'[r] = 0
      /\ \A r \in Requests \ Elements(rows) : sent'[r] = sent[r] /\ made'[r] = made[r]
  BY <1>1, <1>2
<1>6. Counted'
  <2>1. SUFFICES ASSUME NEW r \in Requests PROVE sent'[r] <= made'[r] /\ made'[r] <= Output[r]
    BY DEF Counted
  <2>2. CASE r \in Elements(rows)
    BY <2>2, <1>5, RequestAssumption
  <2>3. CASE r \notin Elements(rows)
    BY <2>3, <1>5 DEF Counted
  <2> QED
    BY <2>2, <2>3
<1> QED
  BY <1>1, <1>2, <1>4, <1>5, <1>6

\* The engine's slots are enough for a round: its rows are open requests.
LEMMA SlotsLine ==
  ASSUME IInv, client # "failed", Busy, Dense, NEW S, S \subseteq Elements(allIds),
         \A r \in S : answer[r] = "none"
  PROVE  /\ IsFiniteSet(S) /\ Cardinality(S) \in Nat /\ Cardinality(S) <= engine.slots /\ engine.slots \in Nat
<1>1. Sane /\ Typed /\ Elements(allIds) \subseteq Elements(listed) /\ listed \in Seq(Requests)
  BY AtWork DEF ClientTyped
<1>2. IsFiniteSet(Elements(listed))
  BY <1>1, CountLine
<1>3. Open \subseteq Elements(listed) /\ S \subseteq Open
  BY <1>1 DEF Open
<1>4. IsFiniteSet(Open) /\ Cardinality(Open) \in Nat
  BY <1>2, <1>3, FS_Subset, FS_CardinalityType
<1>5. IsFiniteSet(S) /\ Cardinality(S) \in Nat /\ Cardinality(S) <= Cardinality(Open)
  BY <1>3, <1>4, FS_Subset, FS_CardinalityType
<1>6. Cardinality(Open) <= Capacity /\ Capacity \in Nat
  BY <1>1, BoundAssumption DEF Sane, Seated
<1>7. engine.slots \in Nat /\ engine.slots >= Capacity
  BY <1>1, EngineAssumption DEF Typed
<1> QED
  BY <1>4, <1>5, <1>6, <1>7

\* Round keeps the invariant.
LEMMA RoundSafe ==
  ASSUME IInv, Round
  PROVE  IInv'
<1>1. /\ wpc = "round" /\ client # "failed" /\ Busy /\ report # <<>>
      /\ skipped' = flagged \cap Elements(report)
      /\ todo' = Without(report, skipped')
      /\ NewRows(todo')
      /\ rotation' = <<>> /\ arriving' = todo'
      /\ UNCHANGED <<engine, faulted, cancelled, free, answer, got, client, batch, listed, initial, cancelSent,
                     toWorker, commands, joins, registered, flagged, pending,
                     wbatch, limit, allIds, report, joined, waiting, leftovers>>
  BY DEF Round, At, Alive, machine, clientVars, receiverVars, Busy
<1>2. /\ Typed /\ Sane /\ PipesTyped /\ WorkerTyped /\ allIds \in Seq(Requests) /\ client = "running"
      /\ \A i \in 1..Len(toClient) : toClient[i].kind \in RowKinds
  BY <1>1, AtWork
<1>3. /\ Apart /\ Live \subseteq Elements(allIds) /\ flagged \subseteq registered
      /\ \A r \in Elements(allIds) : Ended(toClient, r) \/ r \in Live
      /\ stopped \subseteq flagged
      /\ \A r \in finished : Ended(toClient, r)
      /\ joined = <<>> /\ leftovers = <<>> /\ waiting = <<>>
      /\ \A r \in Live \ Started : Untouched(toClient, r)
      /\ Live \subseteq Requests
  BY <1>1, RowsLine
<1>4. Started = {} /\ Live = Elements(report)
  BY <1>1, <1>3, EmptyLine DEF Started, InRun, Live
<1>5. report \in Seq(Requests) /\ flagged \subseteq Requests /\ skipped' \subseteq Requests
  BY <1>1, <1>2 DEF WorkerTyped
<1>6. PICK rows : rows = todo'
  OBVIOUS
<1>7. /\ rows \in Seq(Requests) /\ Elements(rows) = Elements(report) \ flagged /\ IsInjective(rows)
  <2>1. PICK D : D = skipped'
    OBVIOUS
  <2>2. rows = Only(report, Requests \ D)
    BY <2>1, <1>1, <1>6 DEF Without
  <2>3. /\ Only(report, Requests \ D) \in Seq(Requests)
        /\ Elements(Only(report, Requests \ D)) = Elements(report) \cap (Requests \ D)
        /\ IsInjective(report) => IsInjective(Only(report, Requests \ D))
    BY <1>5, OnlyLine
  <2>4. Elements(report) \subseteq Requests /\ IsInjective(report)
    BY <1>3, <1>4 DEF Apart
  <2> QED
    BY <2>1, <2>2, <2>3, <2>4, <1>1
<1>8. /\ sent' \in [Requests -> Nat] /\ made' \in [Requests -> Nat] /\ Counted'
      /\ stopped' \subseteq stopped /\ finished' \subseteq finished /\ done' = done \ Elements(rows)
      /\ \A r \in Elements(rows) :
           r \in Requests /\ sent'[r] = 0 /\ made'[r] = 0 /\ r \notin finished' /\ r \notin done'
  <2>1. NewRows(rows) /\ Counted
    BY <1>1, <1>6 DEF IInv
  <2> QED
    BY <2>1, <1>2, <1>7, NewRowsLine
<1>9. \A r \in Elements(rows) : answer[r] = "none"
  BY <1>3, <1>4, <1>7 DEF Untouched
<1>10. ~(Dense /\ Len(todo') > engine.slots)
  <2>1. SUFFICES ASSUME Dense PROVE Len(rows) <= engine.slots /\ engine.slots \in Nat /\ Len(rows) \in Nat
    BY <1>6
  <2>2. Elements(rows) \subseteq Elements(allIds)
    BY <1>3, <1>4, <1>7
  <2>3. Cardinality(Elements(rows)) <= engine.slots /\ engine.slots \in Nat
    BY <2>1, <2>2, <1>1, <1>9, SlotsLine
  <2>4. Cardinality(Elements(rows)) = Len(rows) /\ Len(rows) \in Nat
    BY <1>7, CountLine
  <2> QED
    BY <2>3, <2>4
<1>11. wpc' = (IF todo' = <<>> THEN "report" ELSE "prefill") /\ UNCHANGED toClient
  BY <1>10 DEF Round
<1>12. Busy' /\ InRun' /\ wpc' \in {"report", "prefill"} /\ (wpc' = "report" <=> rows = <<>>)
  BY <1>6, <1>11 DEF Busy, InRun
<1>13. Live' = Live /\ Apart' /\ Started' = Elements(rows)
  <2>1. Live' = Live /\ Apart'
    BY <1>1, <1>3 DEF Live, Apart
  <2>2. Started' = (Elements(report) \ skipped') \cup Elements(joined)
    BY <1>1, <1>12 DEF Started
  <2> QED
    BY <2>1, <2>2, <1>1, <1>3, <1>7, EmptyLine
<1>14. Flow
  BY <1>1, <1>11, StillFlow
<1>15. \A r \in Live : Untouched(toClient, r)'
  BY <1>3, <1>4, <1>14 DEF Flow
<1>16. \A r \in Elements(rows) : Progress(r)'
  <2>1. SUFFICES ASSUME NEW r \in Elements(rows) PROVE Progress(r)'
    OBVIOUS
  <2>2. r \in Requests /\ r \in Live
    BY <1>4, <1>7, <1>8
  <2>3. Untouched(toClient, r)'
    BY <2>2, <1>15
  <2> QED
    BY <2>2, <2>3, <1>8, ProgressNew
<1>17. Worked'
  <2>1. \A r \in Elements(allIds) : Ended(toClient, r)' \/ r \in Live
    <3>1. Elements(allIds) \subseteq Requests
      BY <1>2, PlacesLine
    <3> QED
      BY <3>1, <1>3, <1>14 DEF Flow
  <2>2. \A r \in finished' : Ended(toClient, r)'
    BY <1>2, <1>3, <1>8, <1>14 DEF Flow, WorkerTyped
  <2>3. wpc' # "wait" /\ wpc' # "round" /\ stopped' \subseteq flagged'
    BY <1>1, <1>3, <1>8, <1>12
  <2> QED
    BY <2>1, <2>2, <2>3, <1>1, <1>3, <1>13, <1>15, <1>16 DEF Worked
<1>18. Engined'
  <2>1. rotation' = <<>> /\ arriving' = rows /\ todo' = rows
    BY <1>1, <1>6
  <2>2. Elements(rotation') = {} /\ IsInjective(rotation') /\ Running' = Elements(rows)
    BY <2>1, EmptyLine DEF Running
  <2>3. Elements(rows) \cap done' = {}
    BY <1>8
  <2>4. rows = <<>> => Elements(rows) = {}
    BY EmptyLine
  <2> QED
    BY <2>1, <2>2, <2>3, <2>4, <1>7, <1>12, <1>13 DEF Engined
<1>19. Framed(toClient)'
  BY <1>1, <1>2, <1>11, StillFramed DEF Sane, PipesTyped
<1>20. Phased' /\ Accounted' /\ Kept' /\ Caused' /\ Seated'
  <2>1. allIds' = allIds \o <<>> /\ <<>> \in Seq(Requests)
    BY <1>1, <1>2, ConcatEmptySeq
  <2>2. WorkerOnly
    BY <1>1 DEF WorkerOnly
  <2>3. \A r \in Requests : Untouched(toClient, r) => Untouched(toClient, r)'
    BY <1>14 DEF Flow
  <2>4. toClient' \in Seq(Frame)
    BY <1>2, <1>11 DEF PipesTyped
  <2> QED
    BY <2>1, <2>2, <2>3, <2>4, <1>1, <1>2, <1>11, <1>12, <1>19, WorkOn
<1>21. Sane'
  BY <1>17, <1>18, <1>19, <1>20 DEF Sane
<1>22. Typed'
  <2>1. /\ rotation' \in Seq(Requests) /\ arriving' \in Seq(Requests) /\ todo' \in Seq(Requests)
        /\ wpc' \in {"report", "prefill"} /\ skipped' \subseteq Requests
        /\ stopped' \subseteq Requests /\ finished' \subseteq Requests /\ done' \subseteq Requests
    <3>1. rotation' \in Seq(Requests) /\ arriving' \in Seq(Requests) /\ todo' \in Seq(Requests)
      BY <1>1, <1>6, <1>7
    <3>2. stopped \subseteq Requests /\ finished \subseteq Requests /\ done \subseteq Requests
      BY <1>2 DEF WorkerTyped
    <3> QED
      BY <3>1, <3>2, <1>5, <1>8, <1>12
  <2>2. UNCHANGED <<registered, flagged, pending, wbatch, limit, allIds, report, joined, waiting, leftovers>>
    BY <1>1
  <2>3. WorkerTyped'
    BY <2>1, <2>2, <1>2, <1>8 DEF WorkerTyped
  <2>4. WorkerOnly
    BY <1>1 DEF WorkerOnly
  <2> QED
    BY <2>3, <2>4, <1>1, <1>2, <1>11, WorkTyped DEF Typed, PipesTyped
<1> QED
  BY <1>1, <1>8, <1>21, <1>22, WorkIntact

\* Pipe p tells token n + 1 of r more than pipe q, and its end when it was the last.
Told(q, p, r, n) ==
  /\ p \in Seq(Frame) /\ Framed(p) /\ \A i \in 1..Len(p) : p[i].kind \in RowKinds
  /\ \A s \in Requests \ {r} : Ended(p, s) <=> Ended(q, s)
  /\ Ended(p, r) <=> n + 1 = Output[r]
  /\ \A s \in Requests \ {r} : Untouched(q, s) => Untouched(p, s)
  /\ \A s \in Requests \ {r}, k \in Nat : Latest(q, s, k) => Latest(p, s, k)
  /\ Latest(p, r, n + 1)

\* The frames of a token: the token, and with the last one the end.
LEMMA TokenFrames ==
  ASSUME NEW q \in Seq(Frame), Framed(q), \A i \in 1..Len(q) : q[i].kind \in RowKinds,
         got \in [Requests -> Nat], batch \in Nat, NEW r \in Requests, NEW n \in Nat,
         r \in Elements(listed), ~Ended(q, r), Latest(q, r, n), n < Output[r],
         NEW e \in Frame, e = [kind |-> "token", batch |-> batch, id |-> r, n |-> n + 1],
         NEW d \in Frame, d = [kind |-> "done", batch |-> batch, id |-> r, how |-> "stop", n |-> n + 1],
         NEW p, p = (q \o <<e>>) \o (IF n + 1 = Output[r] THEN <<d>> ELSE <<>>)
  PROVE  Told(q, p, r, n)
<1>1. e.kind = "token" /\ e.batch = batch /\ e.id = r /\ e.n = n + 1
  OBVIOUS
<1>2. d.kind = "done" /\ d.batch = batch /\ d.id = r /\ d.n = n + 1 /\ d.how = "stop"
  OBVIOUS
<1>3. PICK o \in Nat : o = Output[r] /\ n < o
  BY RequestAssumption
<1>4. PICK q1 : q1 = q \o <<e>>
  OBVIOUS
<1>5. /\ Framed(q1)
      /\ \A s \in Requests : Ended(q1, s) <=> Ended(q, s)
      /\ \A s \in Requests \ {r} : Untouched(q, s) => Untouched(q1, s)
      /\ \A s \in Requests \ {r}, k \in Nat : Latest(q, s, k) => Latest(q1, s, k)
      /\ Latest(q1, r, n + 1)
  <2>1. e.n \in 1..Output[e.id] /\ e.n - 1 = n
    BY <1>1, <1>3
  <2>2. Latest(q, e.id, e.n - 1) /\ ~Ended(q, e.id) /\ e.id \in Elements(listed)
    BY <2>1, <1>1
  <2> HIDE <1>3
  <2>3. /\ Framed(q \o <<e>>)
        /\ \A s \in Requests : Ended(q \o <<e>>, s) <=> Ended(q, s)
        /\ \A s \in Requests \ {e.id} : Untouched(q, s) => Untouched(q \o <<e>>, s)
        /\ \A s \in Requests \ {e.id}, k \in Nat : Latest(q, s, k) => Latest(q \o <<e>>, s, k)
        /\ Latest(q \o <<e>>, e.id, e.n)
    BY <2>1, <2>2, <1>1, TokenPipe
  <2> QED
    BY <2>3, <1>1, <1>4
<1>6. /\ q1 \in Seq(Frame) /\ Len(q1) = Len(q) + 1 /\ Len(q) \in Nat /\ q1[Len(q) + 1] = e
      /\ \A i \in 1..Len(q) : q1[i] = q[i]
  <2>1. <<e>> \in Seq(Frame) /\ Len(<<e>>) = 1 /\ <<e>>[1] = e
    BY OneLine
  <2>2. /\ q \o <<e>> \in Seq(Frame) /\ Len(q \o <<e>>) = Len(q) + Len(<<e>>) /\ Len(q) \in Nat
        /\ \A i \in 1..Len(q) : (q \o <<e>>)[i] = q[i]
        /\ \A i \in 1..Len(<<e>>) : (q \o <<e>>)[Len(q) + i] = <<e>>[i]
    BY <2>1, JoinLine
  <2> QED
    BY <2>1, <2>2, <1>4
<1>7. \A i \in 1..Len(q1) : q1[i].kind \in RowKinds
  <2>1. \A i \in 1..Len(q1) : i \in 1..Len(q) \/ i = Len(q) + 1
    BY <1>6
  <2> QED
    BY <2>1, <1>1, <1>6 DEF RowKinds
<1>8. CASE n + 1 # Output[r]
  <2>1. p = q1
    BY <1>4, <1>6, <1>8, ConcatEmptySeq
  <2> QED
    BY <2>1, <1>5, <1>6, <1>7, <1>8 DEF Told
<1>9. CASE n + 1 = Output[r]
  <2>1. PICK es : es = <<d>>
    OBVIOUS
  <2>2. es \in Seq(Frame) /\ Len(es) = 1 /\ es[1] = d
    BY <2>1, OneLine
  <2>3. \A i \in 1..Len(es) : i = 1 /\ es[i] = d
    BY <2>2
  <2>4. p = q1 \o es
    BY <2>1, <1>4, <1>9
  <2>5. ~Ended(q1, r) /\ Latest(q1, r, d.n) /\ d.n = Output[d.id]
    BY <1>2, <1>5, <1>9
  <2>6. /\ Framed(q1 \o es)
        /\ \A s \in Requests : Ended(q1 \o es, s) <=> Ended(q1, s) \/ \E i \in 1..Len(es) : es[i].id = s
        /\ \A s \in Requests : Untouched(q1, s) /\ (\A i \in 1..Len(es) : es[i].id # s) => Untouched(q1 \o es, s)
        /\ \A s \in Requests, k \in Nat : Latest(q1, s, k) => Latest(q1 \o es, s, k)
    <3>1. \A i \in 1..Len(es) :
           /\ es[i].kind \in {"done", "rejected"} /\ es[i].batch = batch /\ es[i].id \in Elements(listed)
           /\ ~Ended(q1, es[i].id)
           /\ es[i].kind = "done" =>
                /\ \/ es[i].how = "stop" /\ es[i].n = Output[es[i].id]
                   \/ es[i].how = "cancelled" /\ es[i].n <= Output[es[i].id] /\ es[i].id \in cancelSent
                /\ Latest(q1, es[i].id, es[i].n)
           /\ es[i].kind = "rejected" => es[i].limit \in 1..ContextLimit /\ Untouched(q1, es[i].id)
      BY <2>3, <2>5, <1>2
    <3>2. \A i, j \in 1..Len(es) : es[i].id = es[j].id => i = j
      BY <2>3
    <3> QED
      BY <2>2, <3>1, <3>2, <1>5, <1>6, EndsPipe
  <2>7. /\ Framed(p)
        /\ \A s \in Requests \ {r} : Ended(p, s) <=> Ended(q, s)
        /\ Ended(p, r)
        /\ \A s \in Requests \ {r} : Untouched(q, s) => Untouched(p, s)
        /\ \A s \in Requests \ {r}, k \in Nat : Latest(q, s, k) => Latest(p, s, k)
        /\ Latest(p, r, n + 1)
    <3>1. 1 \in 1..Len(es) /\ n + 1 \in Nat
      BY <2>2
    <3> QED
      <4>1. es[1].id = r /\ \A i \in 1..Len(es) : es[i].id = r
        BY <2>3, <3>1, <1>2
      <4>2. Framed(p) /\ \A s \in Requests : Ended(p, s) <=> Ended(q1, s) \/ \E i \in 1..Len(es) : es[i].id = s
        BY <2>4, <2>6
      <4>3. /\ \A s \in Requests : Untouched(q1, s) /\ (\A i \in 1..Len(es) : es[i].id # s) => Untouched(p, s)
            /\ \A s \in Requests, k \in Nat : Latest(q1, s, k) => Latest(p, s, k)
        BY <2>4, <2>6
      <4>4. \A s \in Requests \ {r} : Ended(p, s) <=> Ended(q, s)
        BY <4>1, <4>2, <1>5
      <4>5. Ended(p, r)
        BY <4>1, <4>2, <3>1
      <4>6. \A s \in Requests \ {r} : Untouched(q, s) => Untouched(p, s)
        BY <4>1, <4>3, <1>5
      <4>7. \A s \in Requests \ {r}, k \in Nat : Latest(q, s, k) => Latest(p, s, k)
        BY <4>3, <1>5
      <4>8. Latest(p, r, n + 1)
        BY <4>3, <3>1, <1>5
      <4> QED
        BY <4>2, <4>4, <4>5, <4>6, <4>7, <4>8
  <2>8. /\ p \in Seq(Frame) /\ Len(q1) \in Nat
        /\ \A i \in 1..Len(q1) : p[i] = q1[i]
        /\ \A k \in 1..Len(p) : k \notin 1..Len(q1) => k - Len(q1) \in 1..Len(es) /\ p[k] = es[k - Len(q1)]
    <3>1. q1 \in Seq(Frame) /\ es \in Seq(Frame)
      BY <2>2, <1>6
    <3>2. /\ q1 \o es \in Seq(Frame) /\ Len(q1) \in Nat
          /\ \A i \in 1..Len(q1) : (q1 \o es)[i] = q1[i]
          /\ \A k \in 1..Len(q1 \o es) : k \notin 1..Len(q1) =>
               k - Len(q1) \in 1..Len(es) /\ (q1 \o es)[k] = es[k - Len(q1)]
      BY ONLY <3>1, JoinLine
    <3> QED
      BY <3>2, <2>4
  <2>9. \A i \in 1..Len(p) : p[i].kind \in RowKinds
    <3>1. SUFFICES ASSUME NEW i \in 1..Len(p) PROVE p[i].kind \in RowKinds
      OBVIOUS
    <3>2. CASE i \in 1..Len(q1)
      BY <3>2, <2>8, <1>7
    <3>3. CASE i \notin 1..Len(q1)
      BY <3>3, <2>3, <2>8, <1>2 DEF RowKinds
    <3> QED
      BY <3>2, <3>3
  <2> QED
    BY <2>7, <2>8, <2>9, <1>9 DEF Told
<1> QED
  BY <1>8, <1>9

\* One more token of a row that runs.
LEMMA ProduceLine ==
  ASSUME IInv, client # "failed", Busy, NEW r \in Started, r \notin done, Produce(r),
         UNCHANGED <<got, answer, batch, listed, cancelSent, flagged, wbatch>>
  PROVE  /\ toClient' \in Seq(Frame) /\ Framed(toClient)'
         /\ \A i \in 1..Len(toClient') : toClient'[i].kind \in RowKinds
         /\ made' \in [Requests -> Nat] /\ sent' \in [Requests -> Nat] /\ Counted'
         /\ stopped' \subseteq flagged /\ finished' \subseteq Requests
         /\ done \subseteq done' /\ done' \subseteq done \cup {r}
         /\ \A s \in Started : Progress(s)'
         /\ \A s \in Requests : Ended(toClient, s) => Ended(toClient, s)'
         /\ \A s \in finished' : Ended(toClient, s)'
         /\ \A s \in Requests \ {r} : Untouched(toClient, s) => Untouched(toClient, s)'
<1>1. /\ Typed /\ Sane /\ PipesTyped /\ WorkerTyped /\ ClientTyped /\ wbatch = batch
      /\ Elements(allIds) \subseteq Elements(listed)
      /\ \A i \in 1..Len(toClient) : toClient[i].kind \in RowKinds
  BY AtWork
<1>2. /\ stopped \subseteq flagged /\ \A s \in finished : Ended(toClient, s)
      /\ \A s \in Started : Progress(s)
      /\ Started \subseteq Requests /\ Started \subseteq Elements(allIds)
  BY RowsLine
<1>3. /\ r \in Requests /\ Progress(r) /\ r \notin finished /\ ~Ended(toClient, r)
      /\ Latest(toClient, r, sent[r]) /\ made[r] < Output[r] /\ r \in Elements(listed)
  BY <1>1, <1>2 DEF Progress
<1>4. /\ toClient \in Seq(Frame) /\ Framed(toClient) /\ got \in [Requests -> Nat] /\ batch \in Nat
      /\ made \in [Requests -> Nat] /\ sent \in [Requests -> Nat]
      /\ stopped \subseteq Requests /\ finished \subseteq Requests /\ done \subseteq Requests
  BY <1>1, BoundAssumption DEF PipesTyped, ClientTyped, WorkerTyped, Sane
<1>5. PICK n \in Nat : n = made[r] + 1
  BY <1>3, <1>4
<1>6. PICK o \in Nat : o = Output[r] /\ n <= o
  BY <1>3, <1>4, <1>5, RequestAssumption
<1>7. /\ made' = [made EXCEPT ![r] = n]
      /\ done' = IF n = o THEN done \cup {r} ELSE done
      /\ stopped' = IF r \in stopped \cup flagged THEN stopped \cup {r} ELSE stopped
      /\ sent' = IF r \in stopped \cup flagged THEN sent ELSE [sent EXCEPT ![r] = @ + 1]
      /\ finished' = IF n = o /\ r \notin stopped \cup flagged THEN finished \cup {r} ELSE finished
  BY <1>5, <1>6 DEF Produce
<1>8. /\ made' \in [Requests -> Nat] /\ made'[r] = n /\ \A s \in Requests \ {r} : made'[s] = made[s]
  BY <1>3, <1>4, <1>7
<1>9. done \subseteq done' /\ done' \subseteq done \cup {r} /\ (r \in done' <=> n = o)
  BY <1>7
<1>10. UNCHANGED <<got, answer, batch, listed, cancelSent>>
  OBVIOUS
<1>11. CASE r \in flagged
  <2>1. toClient' = toClient
    <3>1. toClient' = (toClient \o <<>>) \o <<>>
      BY <1>11 DEF Produce
    <3> QED
      BY <3>1, <1>4, ConcatEmptySeq
  <2>2. sent' = sent /\ finished' = finished /\ stopped' \subseteq flagged
    BY <1>2, <1>7, <1>11
  <2>3. Flow
    BY <2>1, <1>10, StillFlow
  <2>4. \A s \in Requests : Ended(toClient, s)' <=> Ended(toClient, s)
    BY <2>3 DEF Flow
  <2>5. \A s \in Started \ {r} : Progress(s)'
    <3>1. SUFFICES ASSUME NEW s \in Started \ {r} PROVE Progress(s)'
      OBVIOUS
    <3>2. s \in Requests /\ Progress(s) /\ made'[s] = made[s] /\ (s \in done' <=> s \in done)
      BY <1>2, <1>8, <1>9
    <3> QED
      BY <3>2, <2>2, <2>3, <1>4, ProgressKept DEF Flow
  <2>6. Progress(r)'
    <3>1. PICK k \in Nat : k = sent[r]
      BY <1>3, <1>4
    <3>2. Latest(toClient, r, k)'
      BY <3>1, <2>3, <1>3 DEF Flow
    <3>3. Latest(toClient, r, sent[r])' /\ r \in flagged' /\ r \notin finished' /\ ~Ended(toClient, r)'
      BY <3>1, <3>2, <2>2, <2>4, <1>3, <1>11
    <3>4. r \notin done' => made'[r] < Output[r]
      BY <1>6, <1>8, <1>9
    <3> QED
      BY <3>3, <3>4 DEF Progress
  <2>7. Counted'
    <3>1. SUFFICES ASSUME NEW s \in Requests PROVE sent'[s] <= made'[s] /\ made'[s] <= Output[s]
      BY DEF Counted
    <3>2. sent[s] <= made[s] /\ made[s] <= Output[s]
      BY DEF IInv, Counted
    <3>3. CASE s = r
      BY <3>2, <3>3, <2>2, <1>3, <1>4, <1>5, <1>6, <1>8
    <3>4. CASE s # r
      BY <3>2, <3>4, <2>2, <1>8
    <3> QED
      BY <3>3, <3>4
  <2>8. Framed(toClient)'
    BY <2>1, <1>4, <1>10, StillFramed
  <2> QED
    BY <2>1, <2>2, <2>3, <2>4, <2>5, <2>6, <2>7, <2>8, <1>1, <1>2, <1>4, <1>8, <1>9 DEF Flow
<1>12. CASE r \notin flagged
  <2>1. r \notin stopped \cup flagged /\ sent[r] = made[r] /\ sent[r] + 1 = n
    BY <1>2, <1>3, <1>5, <1>12 DEF Progress
  <2>2. /\ sent' = [sent EXCEPT ![r] = @ + 1] /\ stopped' = stopped
        /\ finished' = IF n = o THEN finished \cup {r} ELSE finished
    BY <2>1, <1>7
  <2>3. sent' \in [Requests -> Nat] /\ sent'[r] = n /\ \A s \in Requests \ {r} : sent'[s] = sent[s]
    BY <2>1, <2>2, <1>3, <1>4, <1>5
  <2>4. PICK m \in Nat : m = sent[r] /\ n = m + 1
    BY <2>1, <1>3, <1>4
  <2>5. PICK e \in Frame : e = [kind |-> "token", batch |-> batch, id |-> r, n |-> m + 1]
    <3>1. r \in Requests /\ batch \in Nat /\ m + 1 \in Nat
      BY <2>4, <1>3, <1>4
    <3>2. [kind |-> "token", batch |-> batch, id |-> r, n |-> m + 1] \in RowFrame
      BY ONLY <3>1 DEF RowFrame
    <3> QED
      BY <3>2 DEF Frame
  <2>6. PICK d \in Frame : d = [kind |-> "done", batch |-> batch, id |-> r, how |-> "stop", n |-> m + 1]
    <3>1. r \in Requests /\ batch \in Nat /\ m + 1 \in Nat
      BY <2>4, <1>3, <1>4
    <3>2. [kind |-> "done", batch |-> batch, id |-> r, how |-> "stop", n |-> m + 1] \in RowFrame
      BY ONLY <3>1 DEF RowFrame
    <3> QED
      BY <3>2 DEF Frame
  <2>7. PICK p : p = (toClient \o <<e>>) \o (IF m + 1 = Output[r] THEN <<d>> ELSE <<>>)
    OBVIOUS
  <2>8. toClient' = p
    BY <2>1, <2>4, <2>5, <2>6, <2>7, <1>1, <1>5 DEF Produce, DoneFrame
  <2>9. /\ p \in Seq(Frame) /\ Framed(p) /\ \A i \in 1..Len(p) : p[i].kind \in RowKinds
        /\ \A s \in Requests \ {r} : Ended(p, s) <=> Ended(toClient, s)
        /\ Ended(p, r) <=> n = o
        /\ \A s \in Requests \ {r} : Untouched(toClient, s) => Untouched(p, s)
        /\ \A s \in Requests \ {r}, k \in Nat : Latest(toClient, s, k) => Latest(p, s, k)
        /\ Latest(p, r, n)
    <3>1. Latest(toClient, r, m) /\ m < Output[r] /\ n = m + 1 /\ o = Output[r]
      BY <2>1, <2>4, <1>3, <1>6
    <3>2. PICK q \in Seq(Frame) : q = toClient
      BY <1>4
    <3>3. Told(q, p, r, m)
      <4>1. /\ Framed(q) /\ \A i \in 1..Len(q) : q[i].kind \in RowKinds
            /\ r \in Requests /\ r \in Elements(listed) /\ ~Ended(q, r) /\ Latest(q, r, m)
            /\ p = (q \o <<e>>) \o (IF m + 1 = Output[r] THEN <<d>> ELSE <<>>)
            /\ q \in Seq(Frame) /\ got \in [Requests -> Nat] /\ batch \in Nat /\ m \in Nat /\ m < Output[r]
            /\ e \in Frame /\ e = [kind |-> "token", batch |-> batch, id |-> r, n |-> m + 1]
            /\ d \in Frame /\ d = [kind |-> "done", batch |-> batch, id |-> r, how |-> "stop", n |-> m + 1]
        BY <3>1, <3>2, <2>4, <2>5, <2>6, <2>7, <1>1, <1>3, <1>4
      <4> QED
        BY ONLY <4>1, TokenFrames
    <3>4. /\ p \in Seq(Frame) /\ Framed(p) /\ \A i \in 1..Len(p) : p[i].kind \in RowKinds
          /\ \A s \in Requests \ {r} : Ended(p, s) <=> Ended(q, s)
          /\ Ended(p, r) <=> m + 1 = Output[r]
          /\ \A s \in Requests \ {r} : Untouched(q, s) => Untouched(p, s)
          /\ \A s \in Requests \ {r}, k \in Nat : Latest(q, s, k) => Latest(p, s, k)
          /\ Latest(p, r, m + 1)
      BY <3>3 DEF Told
    <3> QED
      BY <3>1, <3>2, <3>4
  <2>10. /\ Framed(toClient)'
         /\ \A s : Ended(toClient, s)' <=> Ended(p, s)
         /\ \A s : Untouched(toClient, s)' <=> Untouched(p, s)
         /\ \A s, k : Latest(toClient, s, k)' <=> Latest(p, s, k)
    BY <2>8, <2>9, <1>10, PipeMoves
  <2>11. \A s \in Started \ {r} : Progress(s)'
    <3>1. SUFFICES ASSUME NEW s \in Started \ {r} PROVE Progress(s)'
      OBVIOUS
    <3>2. /\ s \in Requests /\ Progress(s) /\ made'[s] = made[s] /\ (s \in done' <=> s \in done)
          /\ sent'[s] = sent[s] /\ (s \in finished' <=> s \in finished)
      BY <2>2, <2>3, <1>2, <1>8, <1>9
    <3>3. (Ended(toClient, s)' <=> Ended(toClient, s)) /\ \A k \in Nat : Latest(toClient, s, k) => Latest(toClient, s, k)'
      BY <3>2, <2>9, <2>10
    <3> QED
      BY <3>2, <3>3, <1>4, ProgressKept
  <2>12. Progress(r)'
    <3>1. Latest(toClient, r, n)' /\ (Ended(toClient, r)' <=> n = o)
      BY <2>9, <2>10
    <3>2. Latest(toClient, r, sent[r])'
      BY <3>1, <2>3
    <3>3. (r \in finished' <=> n = o) /\ sent'[r] = made'[r] /\ (n # o => made'[r] < Output[r])
      BY <2>2, <2>3, <1>3, <1>6, <1>8
    <3> QED
      BY <3>1, <3>2, <3>3, <1>9 DEF Progress
  <2>13. Counted'
    <3>1. SUFFICES ASSUME NEW s \in Requests PROVE sent'[s] <= made'[s] /\ made'[s] <= Output[s]
      BY DEF Counted
    <3>2. sent[s] <= made[s] /\ made[s] <= Output[s]
      BY DEF IInv, Counted
    <3>3. CASE s = r
      BY <3>3, <2>3, <1>6, <1>8
    <3>4. CASE s # r
      BY <3>2, <3>4, <2>3, <1>8
    <3> QED
      BY <3>3, <3>4
  <2>14. \A s \in Requests : Ended(toClient, s) => Ended(toClient, s)'
    BY <2>9, <2>10, <1>3
  <2>15. \A s \in finished' : Ended(toClient, s)'
    BY <2>2, <2>9, <2>10, <2>14, <1>2, <1>4
  <2> QED
    BY <2>2, <2>3, <2>8, <2>9, <2>10, <2>11, <2>12, <2>13, <2>14, <2>15, <1>2, <1>3, <1>4, <1>8, <1>9
<1> QED
  BY <1>11, <1>12

\* A step of the run that stays in it, with the rows it runs.
LEMMA RunOn ==
  ASSUME IInv, client # "failed", InRun, WorkerOnly, faulted' = faulted,
         wpc' \in {"prefill", "admit", "joining", "form", "decode"}, wpc' = "prefill" => wpc = "prefill",
         UNCHANGED <<commands, joins, registered, flagged, pending, wbatch, limit, allIds, report, skipped,
                     joined, waiting, leftovers>>,
         toClient' \in Seq(Frame), Framed(toClient)', \A i \in 1..Len(toClient') : toClient'[i].kind \in RowKinds,
         made' \in [Requests -> Nat], sent' \in [Requests -> Nat], Counted',
         stopped' \subseteq flagged, finished' \subseteq Requests, done' \subseteq Requests,
         \A s \in Started : Progress(s)',
         \A s \in Requests : Ended(toClient, s) => Ended(toClient, s)',
         \A s \in finished' : Ended(toClient, s)',
         \A s \in Requests \ Started : Untouched(toClient, s) => Untouched(toClient, s)',
         rotation' \in Seq(Requests), arriving' \in Seq(Requests), todo' \in Seq(Requests), Engined'
  PROVE  IInv'
<1>1. Busy /\ Busy' /\ InRun' /\ Started' = Started /\ Live' = Live
  BY DEF Busy, InRun, Started, Live
<1>2. /\ Typed /\ Sane /\ PipesTyped /\ WorkerTyped /\ allIds \in Seq(Requests) /\ client = "running"
  BY <1>1, AtWork
<1>3. /\ Apart /\ Live \subseteq Elements(allIds) /\ flagged \subseteq registered
      /\ \A r \in Elements(allIds) : Ended(toClient, r) \/ r \in Live
      /\ wpc \in {"round", "prefill", "report"} => waiting = <<>>
      /\ report # <<>> /\ skipped \subseteq flagged \cap Elements(report)
      /\ \A r \in Live \ Started : Untouched(toClient, r)
      /\ Started \subseteq Live /\ Live \subseteq Requests
  BY <1>1, RowsLine
<1>4. Elements(allIds) \subseteq Requests
  BY <1>2, PlacesLine
<1>5. Worked'
  <2>1. \A r \in Live' \ Started' : Untouched(toClient, r)'
    BY <1>1, <1>3
  <2>2. \A r \in Elements(allIds) : Ended(toClient, r)' \/ r \in Live
    BY <1>3, <1>4
  <2>3. Apart'
    BY <1>3 DEF Apart
  <2>4. wpc' # "wait" /\ wpc' # "round" /\ (wpc' \in {"round", "prefill", "report"} => waiting' = <<>>)
    BY <1>3
  <2> QED
    BY <2>1, <2>2, <2>3, <2>4, <1>1, <1>3 DEF Worked
<1>6. Phased' /\ Accounted' /\ Kept' /\ Caused' /\ Seated'
  <2>1. allIds' = allIds \o <<>> /\ <<>> \in Seq(Requests)
    BY <1>2, ConcatEmptySeq
  <2>2. \A r \in Requests \ Elements(allIds') : Untouched(toClient, r) => Untouched(toClient, r)'
    BY <1>3
  <2>3. joins' = joins
    OBVIOUS
  <2> QED
    BY <2>1, <2>2, <2>3, <1>1, WorkOn
<1>7. Sane'
  BY <1>5, <1>6 DEF Sane
<1>8. WorkerTyped'
  <2>1. wpc' \in {"prefill", "admit", "joining", "form", "decode"}
    OBVIOUS
  <2>2. stopped' \subseteq Requests
    BY <1>2 DEF WorkerTyped
  <2> QED
    BY <2>1, <2>2, <1>2 DEF WorkerTyped
<1>9. Typed'
  <2>1. faulted' \in BOOLEAN /\ commands' \in Seq(Command) /\ joins' \in Seq(Joining)
    BY <1>2 DEF Typed, PipesTyped
  <2> QED
    BY <2>1, <1>2, <1>8, WorkTyped
<1>10. client' # "failed"
  BY DEF WorkerOnly
<1> QED
  BY <1>7, <1>9, <1>10, WorkIntact

\* Prefill keeps the invariant.
LEMMA PrefillSafe ==
  ASSUME IInv, Prefill
  PROVE  IInv'
<1>1. /\ client # "failed" /\ wpc \in {"prefill", "joining"} /\ InRun /\ Busy
      /\ todo' = Tail(todo)
      /\ wpc' = IF Len(todo) > 1 THEN wpc ELSE IF wpc = "prefill" THEN "admit" ELSE "form"
      /\ UNCHANGED <<engine, faulted, cancelled, free, answer, got, client, batch, listed, initial, cancelSent,
                     toWorker, commands, joins, registered, flagged, pending, wbatch, limit, allIds, report,
                     skipped, joined, waiting, leftovers, rotation, arriving>>
      /\ \/ /\ Stoppable(Head(todo)) /\ done' = done \cup {Head(todo)}
            /\ UNCHANGED <<made, sent, stopped, finished, toClient>>
         \/ Produce(Head(todo))
  BY DEF Prefill, EngineStep, Alive, machine, clientVars, receiverVars, batchVars, streamVars, InRun, Busy
<1>2. /\ Typed /\ Sane /\ PipesTyped /\ WorkerTyped
      /\ \A i \in 1..Len(toClient) : toClient[i].kind \in RowKinds
  BY <1>1, AtWork
<1>3. /\ stopped \subseteq flagged /\ \A s \in finished : Ended(toClient, s)
      /\ \A s \in Started : Progress(s)
      /\ Started \subseteq Live /\ Live \subseteq Requests /\ Engined
  BY <1>1, RowsLine
<1>4. /\ IsInjective(rotation) /\ IsInjective(arriving) /\ Elements(rotation) \cap Elements(arriving) = {}
      /\ Running \subseteq Started /\ Started \subseteq done \cup Running
      /\ todo # <<>> /\ IsInjective(todo) /\ Elements(todo) \subseteq Started \ done
  BY <1>1, <1>3 DEF Engined
<1>5. PICK q \in Seq(Requests) : q = todo
  BY <1>2 DEF WorkerTyped
<1>6. PICK r : r = Head(q)
  OBVIOUS
<1>7. /\ Tail(q) \in Seq(Requests) /\ r \in Elements(q) /\ Len(Tail(q)) = Len(q) - 1 /\ Len(q) \in Nat
      /\ Elements(q) = {r} \cup Elements(Tail(q))
      /\ IsInjective(Tail(q)) /\ r \notin Elements(Tail(q))
  BY <1>4, <1>5, <1>6, TailLine
<1>8. r \in Started /\ r \in Requests /\ r \notin done
  BY <1>3, <1>4, <1>5, <1>7
<1>9. /\ toClient' \in Seq(Frame) /\ Framed(toClient)'
      /\ \A i \in 1..Len(toClient') : toClient'[i].kind \in RowKinds
      /\ made' \in [Requests -> Nat] /\ sent' \in [Requests -> Nat] /\ Counted'
      /\ stopped' \subseteq flagged /\ finished' \subseteq Requests
      /\ done \subseteq done' /\ done' \subseteq done \cup {r}
      /\ \A s \in Started : Progress(s)'
      /\ \A s \in Requests : Ended(toClient, s) => Ended(toClient, s)'
      /\ \A s \in finished' : Ended(toClient, s)'
      /\ \A s \in Requests \ {r} : Untouched(toClient, s) => Untouched(toClient, s)'
  <2>1. CASE Produce(r)
    BY <2>1, <1>1, <1>8, ProduceLine
  <2>2. CASE Stoppable(r) /\ done' = done \cup {r} /\ UNCHANGED <<made, sent, stopped, finished, toClient>>
    <3>1. r \in flagged
      BY <2>2 DEF Stoppable
    <3>2. Flow
      BY <2>2, <1>1, StillFlow
    <3>3. Framed(toClient)'
      BY <2>2, <1>1, <1>2, StillFramed DEF Sane, PipesTyped
    <3>4. /\ toClient' \in Seq(Frame) /\ made' \in [Requests -> Nat] /\ sent' \in [Requests -> Nat]
          /\ finished' \subseteq Requests
      BY <2>2, <1>2 DEF PipesTyped, WorkerTyped
    <3>5. Counted'
      BY <2>2 DEF IInv, Counted
    <3>6. \A s \in Started : Progress(s)'
      <4>1. SUFFICES ASSUME NEW s \in Started PROVE Progress(s)'
        OBVIOUS
      <4>2. s \in Requests /\ Progress(s)
        BY <1>3
      <4>3. PICK n \in Nat : n = sent[s] /\ n = sent'[s]
        BY <4>2, <2>2, <1>2 DEF WorkerTyped
      <4>4. Latest(toClient, s, n)'
        BY <4>2, <4>3, <3>2 DEF Progress, Flow
      <4>5. Latest(toClient, s, sent[s])' /\ (Ended(toClient, s)' <=> Ended(toClient, s))
        BY <4>2, <4>3, <4>4, <3>2 DEF Flow
      <4>6. (s \in done' => s \in done \/ s \in flagged) /\ (s \in done => s \in done')
        BY <2>2, <3>1
      <4>7. UNCHANGED <<finished, flagged, made, sent>>
        BY <2>2, <1>1
      <4> QED
        BY <4>2, <4>5, <4>6, <4>7 DEF Progress
    <3>7. \A s \in Requests : Ended(toClient, s) => Ended(toClient, s)'
      BY <3>2 DEF Flow
    <3>8. \A s \in finished' : Ended(toClient, s)'
      BY <2>2, <3>4, <3>7, <1>3
    <3>9. \A s \in Requests \ {r} : Untouched(toClient, s) => Untouched(toClient, s)'
      BY <3>2 DEF Flow
    <3> QED
      BY <2>2, <3>3, <3>4, <3>5, <3>6, <3>7, <3>8, <3>9, <1>2, <1>3
  <2> QED
    BY <2>1, <2>2, <1>1, <1>5, <1>6
<1>10. /\ wpc' \in {"prefill", "admit", "joining", "form", "decode"} /\ (wpc' = "prefill" => wpc = "prefill")
       /\ wpc' \in {"prefill", "joining"} => Len(q) > 1
       /\ wpc' # "decode" /\ wpc' # "report"
  BY <1>1, <1>5
<1>11. Started' = Started
  BY <1>1, <1>10 DEF Started, InRun
<1>12. Engined'
  <2>1. Running' = Running
    BY <1>1 DEF Running
  <2>2. todo' = Tail(q) /\ IsInjective(todo') /\ Elements(todo') \subseteq Started \ done'
    BY <1>1, <1>4, <1>5, <1>7, <1>9
  <2>3. wpc' \in {"prefill", "joining"} => todo' # <<>>
    <3>1. Len(q) > 1 => Len(Tail(q)) # 0
      BY <1>7
    <3> QED
      BY <3>1, <2>2, <1>10
  <2> QED
    BY <2>1, <2>2, <2>3, <1>1, <1>4, <1>9, <1>10, <1>11 DEF Engined
<1>13. /\ rotation' \in Seq(Requests) /\ arriving' \in Seq(Requests) /\ todo' \in Seq(Requests)
       /\ done' \subseteq Requests
  BY <1>1, <1>2, <1>5, <1>7, <1>8, <1>9 DEF WorkerTyped
<1>14. WorkerOnly
  BY <1>1 DEF WorkerOnly
<1>15. \A s \in Requests \ Started : Untouched(toClient, s) => Untouched(toClient, s)'
  BY <1>8, <1>9
<1> QED
  BY <1>1, <1>9, <1>10, <1>12, <1>13, <1>14, <1>15, RunOn

\* Decode keeps the invariant.
LEMMA DecodeSafe ==
  ASSUME IInv, Decode
  PROVE  IInv'
<1>1. /\ client # "failed" /\ wpc = "decode" /\ InRun /\ Busy
      /\ Produce(Head(todo))
      /\ todo' = Tail(todo)
      /\ rotation' = Tail(rotation) \o IF Head(todo) \in done' THEN <<>> ELSE <<Head(todo)>>
      /\ wpc' = IF Len(todo) > 1 THEN "decode" ELSE "admit"
      /\ UNCHANGED <<engine, faulted, cancelled, free, answer, got, client, batch, listed, initial, cancelSent,
                     toWorker, commands, joins, registered, flagged, pending, wbatch, limit, allIds, report,
                     skipped, joined, waiting, leftovers, arriving>>
  BY DEF Decode, EngineStep, At, Alive, machine, clientVars, receiverVars, batchVars, InRun, Busy
<1>2. Typed /\ WorkerTyped
  BY <1>1, AtWork
<1>3. /\ Started \subseteq Live /\ Live \subseteq Requests /\ Engined
  BY <1>1, RowsLine
<1>4. /\ IsInjective(rotation) /\ IsInjective(arriving) /\ Elements(rotation) \cap Elements(arriving) = {}
      /\ Running \subseteq Started /\ Started \subseteq done \cup Running
      /\ todo # <<>> /\ IsInjective(todo) /\ Elements(todo) \cap done = {}
      /\ \E rest \in Seq(Requests) : rotation = todo \o rest
  BY <1>1, <1>3 DEF Engined
<1>5. PICK q \in Seq(Requests) : q = todo
  BY <1>2 DEF WorkerTyped
<1>6. PICK r : r = Head(q)
  OBVIOUS
<1>7. PICK rest \in Seq(Requests) : rotation = q \o rest
  BY <1>4, <1>5
<1>8. PICK t : t = Tail(q)
  OBVIOUS
<1>9. /\ t \in Seq(Requests) /\ r \in Elements(q) /\ Len(t) = Len(q) - 1 /\ Len(q) \in Nat
      /\ Elements(q) = {r} \cup Elements(t)
      /\ IsInjective(t) /\ r \notin Elements(t)
  BY <1>4, <1>5, <1>6, <1>8, TailLine
<1>10. PICK w : w = t \o rest
  OBVIOUS
<1>11. /\ w \in Seq(Requests) /\ Elements(w) = Elements(t) \cup Elements(rest)
       /\ (IsInjective(w) <=> IsInjective(t) /\ IsInjective(rest) /\ Elements(t) \cap Elements(rest) = {})
  <2>1. t \in Seq(Requests) /\ rest \in Seq(Requests)
    BY <1>9
  <2> QED
    BY <2>1, <1>10, ConcatLine
<1>12. /\ Elements(rotation) = Elements(q) \cup Elements(rest)
       /\ IsInjective(rest) /\ Elements(q) \cap Elements(rest) = {}
  <2>1. /\ Elements(q \o rest) = Elements(q) \cup Elements(rest)
        /\ (IsInjective(q \o rest) <=> IsInjective(q) /\ IsInjective(rest) /\ Elements(q) \cap Elements(rest) = {})
    BY ConcatLine
  <2> QED
    BY <2>1, <1>4, <1>7
<1>13. Tail(rotation) = w
  <2>1. q # <<>>
    BY <1>4, <1>5
  <2>2. q \in Seq(Requests) /\ rest \in Seq(Requests) /\ t \in Seq(Requests)
    BY <1>9
  <2>3. /\ Len(q) \in Nat /\ Len(q) # 0 /\ Len(rest) \in Nat /\ Len(q \o rest) = Len(q) + Len(rest)
        /\ Len(t) = Len(q) - 1 /\ Len(t \o rest) = Len(t) + Len(rest)
    BY <2>1, <2>2, <1>8
  <2>4. Tail(q \o rest) = t \o rest
    BY <2>2, <2>3, <1>8
  <2> QED
    BY <2>4, <1>7, <1>10
<1>14. Elements(rotation) = {r} \cup Elements(w) /\ r \notin Elements(w) /\ IsInjective(w)
  <2>1. r \notin Elements(rest)
    BY <1>9, <1>12
  <2> QED
    BY <2>1, <1>9, <1>11, <1>12
<1>15. r \in Started /\ r \in Requests /\ r \notin done /\ r \in Elements(rotation)
  BY <1>3, <1>4, <1>5, <1>9, <1>14 DEF Running
<1>16. Produce(r)
  BY <1>1, <1>5, <1>6
<1>17. /\ toClient' \in Seq(Frame) /\ Framed(toClient)'
       /\ \A i \in 1..Len(toClient') : toClient'[i].kind \in RowKinds
       /\ made' \in [Requests -> Nat] /\ sent' \in [Requests -> Nat] /\ Counted'
       /\ stopped' \subseteq flagged /\ finished' \subseteq Requests
       /\ done \subseteq done' /\ done' \subseteq done \cup {r}
       /\ \A s \in Started : Progress(s)'
       /\ \A s \in Requests : Ended(toClient, s) => Ended(toClient, s)'
       /\ \A s \in finished' : Ended(toClient, s)'
       /\ \A s \in Requests \ {r} : Untouched(toClient, s) => Untouched(toClient, s)'
  BY <1>1, <1>15, <1>16, ProduceLine
<1>18. PICK b : b = IF r \in done' THEN <<>> ELSE <<r>>
  OBVIOUS
<1>19. b \in Seq(Requests) /\ Elements(b) = (IF r \in done' THEN {} ELSE {r}) /\ IsInjective(b)
  <2>1. CASE r \in done'
    BY <2>1, <1>18, EmptyLine
  <2>2. CASE r \notin done'
    <3>1. <<r>> \in Seq(Requests) /\ Elements(<<r>>) = {r} /\ IsInjective(<<r>>)
      BY <1>15, OneLine
    <3>2. b = <<r>>
      BY <2>2, <1>18
    <3> QED
      BY <2>2, <3>1, <3>2
  <2> QED
    BY <2>1, <2>2
<1>20. rotation' = w \o b
  BY <1>1, <1>5, <1>6, <1>13, <1>18
<1>21. /\ rotation' \in Seq(Requests) /\ Elements(rotation') = Elements(w) \cup Elements(b)
       /\ IsInjective(rotation')
  <2>1. Elements(w) \cap Elements(b) = {}
    BY <1>14, <1>19
  <2>2. w \in Seq(Requests) /\ b \in Seq(Requests)
    BY <1>11, <1>19
  <2>3. /\ w \o b \in Seq(Requests) /\ Elements(w \o b) = Elements(w) \cup Elements(b)
        /\ (IsInjective(w \o b) <=> IsInjective(w) /\ IsInjective(b) /\ Elements(w) \cap Elements(b) = {})
    BY ONLY <2>2, ConcatLine
  <2> QED
    BY <2>1, <2>3, <1>14, <1>19, <1>20
<1>22. /\ Elements(rotation') \subseteq Elements(rotation)
       /\ Elements(rotation) \subseteq Elements(rotation') \cup done'
  BY <1>14, <1>19, <1>21
<1>23. \E more \in Seq(Requests) : rotation' = t \o more
  <2>1. PICK more : more = rest \o b
    OBVIOUS
  <2>2. t \in Seq(Requests) /\ rest \in Seq(Requests) /\ b \in Seq(Requests)
    BY <1>9, <1>19
  <2>3. (t \o rest) \o b = t \o (rest \o b)
    BY ONLY <2>2, ConcatAssociative
  <2>4. rest \o b \in Seq(Requests)
    BY ONLY <2>2, ConcatLine
  <2>5. rotation' = t \o more
    BY <2>1, <2>3, <1>10, <1>20
  <2> QED
    BY <2>1, <2>4, <2>5
<1>24. wpc' \in {"admit", "decode"} /\ (wpc' = "decode" => Len(q) > 1)
  BY <1>1, <1>5
<1>25. Started' = Started
  BY <1>1, <1>24 DEF Started, InRun
<1>26. todo' = t
  BY <1>1, <1>5, <1>8
<1>27. Engined'
  <2>1. Running' = Elements(rotation') \cup Elements(arriving)
    BY <1>1 DEF Running
  <2>2. Running' \subseteq Started /\ Started \subseteq done' \cup Running'
    BY <2>1, <1>4, <1>17, <1>22 DEF Running
  <2>3. IsInjective(arriving') /\ Elements(rotation') \cap Elements(arriving') = {}
    BY <1>1, <1>4, <1>22
  <2>4. IsInjective(todo') /\ Elements(todo') \cap done' = {}
    BY <1>4, <1>5, <1>9, <1>17, <1>26
  <2>5. wpc' = "decode" => todo' # <<>>
    <3>1. Len(q) > 1 => Len(t) # 0
      BY <1>9
    <3> QED
      BY <3>1, <1>24, <1>26
  <2>6. \E more \in Seq(Requests) : rotation' = todo' \o more
    BY <1>23, <1>26
  <2> QED
    BY <2>2, <2>3, <2>4, <2>5, <2>6, <1>21, <1>24, <1>25 DEF Engined
<1>28. arriving' \in Seq(Requests) /\ todo' \in Seq(Requests) /\ done' \subseteq Requests
  BY <1>1, <1>2, <1>9, <1>15, <1>17, <1>26 DEF WorkerTyped
<1>29. WorkerOnly
  BY <1>1 DEF WorkerOnly
<1>30. \A s \in Requests \ Started : Untouched(toClient, s) => Untouched(toClient, s)'
  BY <1>15, <1>17
<1> QED
  BY <1>1, <1>17, <1>21, <1>24, <1>27, <1>28, <1>29, <1>30, RunOn

\* The rows that fit.
LEMMA FitLine ==
  ASSUME NEW rows \in Seq(Requests), NEW bound
  PROVE  /\ Fitting(rows, bound) \in Seq(Requests)
         /\ Elements(Fitting(rows, bound)) = {r \in Elements(rows) : ~TooLong(r, bound)}
         /\ IsInjective(rows) => IsInjective(Fitting(rows, bound))
<1>1. PICK S : S = {r \in Requests : ~TooLong(r, bound)}
  OBVIOUS
<1>2. Fitting(rows, bound) = Only(rows, S)
  BY <1>1 DEF Fitting
<1>3. /\ Only(rows, S) \in Seq(Requests) /\ Elements(Only(rows, S)) = Elements(rows) \cap S
      /\ IsInjective(rows) => IsInjective(Only(rows, S))
  BY OnlyLine
<1>4. Elements(rows) \subseteq Requests
  BY PlacesLine
<1> QED
  BY <1>1, <1>2, <1>3, <1>4

\* Each row that does not fit has one frame, with a limit it is over.
Rejecting(es, number, rows, bound) ==
  /\ es \in Seq(Frame)
  /\ \A i \in 1..Len(es) :
       /\ es[i].kind = "rejected" /\ es[i].batch = number
       /\ es[i].id \in Elements(rows) /\ TooLong(es[i].id, bound)
       /\ es[i].limit \in 1..ContextLimit
  /\ \A i, j \in 1..Len(es) : es[i].id = es[j].id => i = j
  /\ \A r \in Elements(rows) : TooLong(r, bound) => \E i \in 1..Len(es) : es[i].id = r

\* Rejections has one frame for each row that does not fit.
LEMMA RejectLine ==
  ASSUME NEW rows \in Seq(Requests), IsInjective(rows), NEW number \in Nat, NEW bound \in Bound,
         NEW es, es = Rejections(number, rows, bound)
  PROVE  Rejecting(es, number, rows, bound)
<1>1. PICK S : S = {r \in Requests : TooLong(r, bound)}
  OBVIOUS
<1>2. PICK bad : bad = Only(rows, S)
  OBVIOUS
<1>3. bad \in Seq(Requests) /\ Elements(bad) = Elements(rows) \cap S /\ IsInjective(bad)
  BY <1>2, OnlyLine
<1>4. PICK z : z = [i \in DOMAIN bad |->
        [kind |-> "rejected", batch |-> number, id |-> bad[i],
         limit |-> IF Cost(bad[i]) > ContextLimit THEN ContextLimit ELSE bound]]
  OBVIOUS
<1>5. es = z
  BY <1>1, <1>2, <1>4 DEF Rejections
<1>6. DOMAIN bad = 1..Len(bad) /\ Len(bad) \in Nat
  BY <1>3
<1>7. \A i \in 1..Len(bad) : bad[i] \in Elements(rows) /\ bad[i] \in Requests /\ TooLong(bad[i], bound)
  <2>1. \A x : x \in Elements(bad) <=> \E i \in 1..Len(bad) : bad[i] = x
    BY <1>3, PlacesLine
  <2> QED
    BY <2>1, <1>1, <1>3
<1>8. \A i \in 1..Len(bad) : (IF Cost(bad[i]) > ContextLimit THEN ContextLimit ELSE bound) \in 1..ContextLimit
  <2>1. SUFFICES ASSUME NEW i \in 1..Len(bad)
                 PROVE  (IF Cost(bad[i]) > ContextLimit THEN ContextLimit ELSE bound) \in 1..ContextLimit
    OBVIOUS
  <2>2. PICK c : c = Cost(bad[i])
    OBVIOUS
  <2>3. c \in Nat
    BY <2>2, <1>7, RequestAssumption DEF Cost
  <2>4. c > ContextLimit \/ (bound # NoLimit /\ c > bound)
    BY <2>2, <1>7 DEF TooLong
  <2>5. ContextLimit \in Nat \ {0}
    BY BoundAssumption
  <2>6. CASE c > ContextLimit
    BY <2>2, <2>5, <2>6
  <2>7. CASE ~(c > ContextLimit)
    <3>1. bound \in Nat \ {0} /\ c > bound
      BY <2>4, <2>7 DEF Bound
    <3> QED
      BY <3>1, <2>2, <2>3, <2>5, <2>7
  <2> QED
    BY <2>6, <2>7
<1>9. /\ DOMAIN z = 1..Len(bad)
      /\ \A i \in 1..Len(bad) :
           /\ z[i].kind = "rejected" /\ z[i].batch = number /\ z[i].id = bad[i]
           /\ z[i].limit \in 1..ContextLimit /\ z[i] \in Frame
  <2>1. DOMAIN z = 1..Len(bad)
    BY <1>4, <1>6
  <2>2. SUFFICES ASSUME NEW i \in 1..Len(bad)
                 PROVE  /\ z[i].kind = "rejected" /\ z[i].batch = number /\ z[i].id = bad[i]
                        /\ z[i].limit \in 1..ContextLimit /\ z[i] \in Frame
    BY <2>1
  <2>3. PICK l : l = IF Cost(bad[i]) > ContextLimit THEN ContextLimit ELSE bound
    OBVIOUS
  <2>4. z[i] = [kind |-> "rejected", batch |-> number, id |-> bad[i], limit |-> l]
    BY <2>3, <1>4, <1>6
  <2>5. l \in 1..ContextLimit
    BY <2>3, <1>8
  <2>6. l \in Nat /\ bad[i] \in Requests
    BY <2>5, <1>7
  <2>7. z[i] \in RowFrame
    BY <2>4, <2>6 DEF RowFrame
  <2> QED
    BY <2>4, <2>5, <2>7 DEF Frame
<1>10. z \in Seq(Frame) /\ Len(z) = Len(bad)
  <2>1. z = [i \in 1..Len(bad) |-> z[i]]
    BY <1>4, <1>6
  <2>2. z \in [1..Len(bad) -> Frame]
    BY <2>1, <1>9
  <2> QED
    BY <2>2, <1>6
<1>11. \A i, j \in 1..Len(bad) : bad[i] = bad[j] => i = j
  BY <1>3, PlacesLine
<1>12. \A r \in Elements(rows) : TooLong(r, bound) => \E i \in 1..Len(bad) : bad[i] = r
  <2>1. \A x : x \in Elements(bad) <=> \E i \in 1..Len(bad) : bad[i] = x
    BY <1>3, PlacesLine
  <2>2. Elements(rows) \subseteq Requests
    BY PlacesLine
  <2> QED
    BY <2>1, <2>2, <1>1, <1>3
<1> QED
  BY <1>5, <1>7, <1>9, <1>10, <1>11, <1>12 DEF Rejecting

\* Row frames before and after.
LEMMA KindsLine ==
  ASSUME NEW q \in Seq(Frame), NEW es \in Seq(Frame),
         \A i \in 1..Len(q) : q[i].kind \in RowKinds, \A i \in 1..Len(es) : es[i].kind \in RowKinds
  PROVE  q \o es \in Seq(Frame) /\ \A i \in 1..Len(q \o es) : (q \o es)[i].kind \in RowKinds
<1>1. PICK p : p = q \o es
  OBVIOUS
<1>2. /\ p \in Seq(Frame) /\ \A i \in 1..Len(q) : p[i] = q[i]
      /\ \A k \in 1..Len(p) : k \notin 1..Len(q) => k - Len(q) \in 1..Len(es) /\ p[k] = es[k - Len(q)]
  BY <1>1, JoinLine
<1>3. SUFFICES ASSUME NEW i \in 1..Len(p) PROVE p[i].kind \in RowKinds
  BY <1>1, <1>2
<1>4. CASE i \in 1..Len(q)
  BY <1>2, <1>4
<1>5. CASE i \notin 1..Len(q)
  BY <1>2, <1>5
<1> QED
  BY <1>4, <1>5

\* Pipe p rejects those of the rows that do not fit, beyond pipe q.
Refused(q, p, rows, bound) ==
  /\ p \in Seq(Frame) /\ Framed(p) /\ \A i \in 1..Len(p) : p[i].kind \in RowKinds
  /\ \A s \in Requests : Ended(p, s) <=> Ended(q, s) \/ (s \in Elements(rows) /\ TooLong(s, bound))
  /\ \A s \in Requests : Untouched(q, s) /\ ~(s \in Elements(rows) /\ TooLong(s, bound)) => Untouched(p, s)
  /\ \A s \in Requests, k \in Nat : Latest(q, s, k) => Latest(p, s, k)

\* The rejections of rows nothing was heard of are in order, and end just those.
LEMMA RefusePipe ==
  ASSUME NEW q \in Seq(Frame), Framed(q), \A i \in 1..Len(q) : q[i].kind \in RowKinds,
         got \in [Requests -> Nat], batch \in Nat, NEW rows \in Seq(Requests), IsInjective(rows),
         Elements(rows) \subseteq Elements(listed), \A r \in Elements(rows) : Untouched(q, r),
         NEW bound \in Bound, NEW p, p = q \o Rejections(batch, rows, bound)
  PROVE  Refused(q, p, rows, bound)
<1>1. PICK es : es = Rejections(batch, rows, bound)
  OBVIOUS
<1>2. /\ es \in Seq(Frame)
      /\ \A i \in 1..Len(es) :
           /\ es[i].kind = "rejected" /\ es[i].batch = batch
           /\ es[i].id \in Elements(rows) /\ TooLong(es[i].id, bound)
           /\ es[i].limit \in 1..ContextLimit
      /\ \A i, j \in 1..Len(es) : es[i].id = es[j].id => i = j
      /\ \A r \in Elements(rows) : TooLong(r, bound) => \E i \in 1..Len(es) : es[i].id = r
  <2>1. /\ rows \in Seq(Requests) /\ IsInjective(rows) /\ batch \in Nat /\ bound \in Bound
        /\ es = Rejections(batch, rows, bound)
    BY <1>1
  <2>2. Rejecting(es, batch, rows, bound)
    BY ONLY <2>1, RejectLine
  <2> QED
    BY <2>2 DEF Rejecting
<1>3. p = q \o es
  BY <1>1
<1>4. \A r \in Elements(rows) : ~Ended(q, r)
  BY UntouchedLine
<1>5. \A i \in 1..Len(es) :
        /\ es[i].kind \in {"done", "rejected"} /\ es[i].batch = batch /\ es[i].id \in Elements(listed)
        /\ ~Ended(q, es[i].id)
        /\ es[i].kind = "done" =>
             /\ \/ es[i].how = "stop" /\ es[i].n = Output[es[i].id]
                \/ es[i].how = "cancelled" /\ es[i].n <= Output[es[i].id] /\ es[i].id \in cancelSent
             /\ Latest(q, es[i].id, es[i].n)
        /\ es[i].kind = "rejected" => es[i].limit \in 1..ContextLimit /\ Untouched(q, es[i].id)
  BY <1>2, <1>4
<1>6. /\ Framed(q \o es)
      /\ \A r \in Requests : Ended(q \o es, r) <=> Ended(q, r) \/ \E i \in 1..Len(es) : es[i].id = r
      /\ \A r \in Requests : Untouched(q, r) /\ (\A i \in 1..Len(es) : es[i].id # r) => Untouched(q \o es, r)
      /\ \A r \in Requests, n \in Nat : Latest(q, r, n) => Latest(q \o es, r, n)
  BY <1>2, <1>5, EndsPipe
<1>7. \A r \in Requests : (\E i \in 1..Len(es) : es[i].id = r) <=> (r \in Elements(rows) /\ TooLong(r, bound))
  BY <1>2
<1>8. q \o es \in Seq(Frame) /\ \A i \in 1..Len(q \o es) : (q \o es)[i].kind \in RowKinds
  BY <1>2, KindsLine DEF RowKinds
<1> QED
  BY <1>3, <1>6, <1>7, <1>8 DEF Refused

\* TakeCommand keeps the invariant.
LEMMA TakeCommandSafe ==
  ASSUME IInv, TakeCommand
  PROVE  IInv'
<1>1. PICK c : c = Head(commands)
  OBVIOUS
<1>2. /\ client # "failed" /\ wpc = "wait" /\ commands # <<>>
      /\ wbatch' = c.batch /\ limit' = engine.limit /\ allIds' = c.rows
      /\ report' = Fitting(c.rows, limit')
      /\ toClient' = toClient \o Rejections(c.batch, c.rows, limit')
      /\ registered' = registered \cup Elements(report')
      /\ flagged' = flagged \cup (pending \cap Elements(report'))
      /\ pending' = pending \ Elements(report')
      /\ commands' = Tail(commands) /\ wpc' = "round"
      /\ UNCHANGED <<engine, faulted, cancelled, free, answer, got, client, batch, listed, initial, cancelSent,
                     toWorker, joins, skipped, joined, waiting, leftovers, sent, stopped, finished,
                     rotation, arriving, todo, made, done>>
  BY <1>1 DEF TakeCommand, Register, At, Alive, machine, clientVars, streamVars, runVars
<1>3. /\ Typed /\ Sane /\ ClientTyped /\ PipesTyped /\ WorkerTyped
      /\ Phased /\ Accounted /\ Framed(toClient) /\ Kept /\ Caused /\ Worked
  BY <1>2 DEF IInv, Typed, Sane
<1>4. client = "running" /\ Commanded
  BY <1>2, <1>3 DEF Phased, ClientTyped, Resting, Asked, Working, Ending
<1>5. /\ NoGenerate /\ ~Busy /\ toClient = <<>>
      /\ Len(commands) = 1 /\ commands[1].batch = batch /\ Len(commands[1].rows) = initial
  BY <1>4 DEF Commanded
<1>6. /\ c \in Command /\ c = commands[1] /\ commands' = <<>>
      /\ c.kind = "generate" /\ c.batch = batch /\ c.rows \in Seq(Requests) /\ Len(c.rows) = initial
  <2>1. commands \in Seq(Command) /\ commands' = Tail(commands)
    BY <1>2, <1>3 DEF PipesTyped
  <2>2. commands[1] \in Command /\ Head(commands) = commands[1] /\ Len(Tail(commands)) = 0
    BY <2>1, <1>5
  <2>3. Tail(commands) = <<>>
    BY <2>1, <2>2
  <2> QED
    BY <2>1, <2>2, <2>3, <1>1, <1>5 DEF Command
<1>7. PICK rows \in Seq(Requests) : rows = c.rows
  BY <1>6
<1>8. PICK J \in Seq(Requests) : J = Carried(joins, batch)
  BY <1>3, TakenRows
<1>9. PICK W \in Seq(Requests) : W = Carried(toWorker, batch)
  BY <1>3, TakenRows
<1>10. Carried(commands, batch) = rows
  <2>1. commands \in Seq(Message) /\ commands # <<>>
    BY <1>2, <1>3, MessagesLine DEF PipesTyped
  <2>2. Carried(commands, batch) = Load(Head(commands), batch) \o Carried(Tail(commands), batch)
    BY <2>1, CarriedTail
  <2>3. Load(Head(commands), batch) = rows
    BY <1>1, <1>6, <1>7 DEF Load
  <2>4. Carried(Tail(commands), batch) = <<>>
    BY <1>2, <1>6, CarriedEmpty
  <2>5. rows \o <<>> = rows
    BY ConcatEmptySeq
  <2> QED
    BY <2>2, <2>3, <2>4, <2>5
<1>11. /\ listed = (rows \o J) \o W
       /\ \A r \in Elements(listed) : Untouched(toClient, r)
  <2>1. ~Broken /\ Taken = <<>>
    BY <1>5 DEF Broken, Taken, Closed
  <2>2. PICK X \in Seq(Requests) : Share(X)
    BY <1>3, <1>4 DEF Accounted
  <2>3. X = <<>>
    BY <2>1, <2>2 DEF Share
  <2>4. Split(<<>>) /\ \A r \in Elements(listed) \ Elements(<<>>) : Untouched(toClient, r)
    BY <2>2, <2>3 DEF Share
  <2>5. <<>> \o rows = rows
    BY ConcatEmptySeq
  <2> QED
    BY <2>4, <2>5, <1>8, <1>9, <1>10, EmptyLine DEF Split
<1>12. /\ IsInjective(rows) /\ Elements(rows) \subseteq Elements(listed) /\ Elements(rows) \subseteq Requests
       /\ Elements(listed) \subseteq Requests
  <2>1. PICK h : h = rows \o J
    OBVIOUS
  <2>2. /\ h \in Seq(Requests) /\ Elements(h) = Elements(rows) \cup Elements(J)
        /\ (IsInjective(h) <=> IsInjective(rows) /\ IsInjective(J) /\ Elements(rows) \cap Elements(J) = {})
    BY <2>1, ConcatLine
  <2>3. /\ Elements(h \o W) = Elements(h) \cup Elements(W)
        /\ (IsInjective(h \o W) => IsInjective(h))
    BY <2>2, ConcatLine
  <2>4. listed = h \o W /\ IsInjective(listed)
    BY <2>1, <1>3, <1>11 DEF Accounted
  <2>5. Elements(rows) \subseteq Requests /\ Elements(listed) \subseteq Requests
    <3>1. listed \in Seq(Requests)
      BY <1>3 DEF ClientTyped
    <3> QED
      BY <3>1, PlacesLine
  <2> QED
    BY <2>2, <2>3, <2>4, <2>5
<1>13. PICK bound \in Bound : bound = engine.limit /\ bound = limit'
  <2>1. engine.limit \in Bound
    BY <1>3, EngineAssumption DEF Typed, Bound
  <2> QED
    BY <2>1, <1>2
<1>14. PICK fit : fit = Fitting(rows, bound)
  OBVIOUS
<1>15. fit \in Seq(Requests) /\ Elements(fit) = {r \in Elements(rows) : ~TooLong(r, bound)} /\ IsInjective(fit)
  BY <1>12, <1>14, FitLine
<1>16. PICK p : p = toClient'
  OBVIOUS
<1>17. PICK q \in Seq(Frame) : q = toClient
  BY <1>3 DEF PipesTyped
<1>18. Refused(q, p, rows, bound)
  <2>1. \A i \in 1..Len(q) : q[i].kind \in RowKinds
    BY <1>5, <1>17
  <2>2. Framed(q) /\ got \in [Requests -> Nat] /\ batch \in Nat
    BY <1>3, <1>17, BoundAssumption DEF ClientTyped
  <2>3. \A r \in Elements(rows) : Untouched(q, r)
    BY <1>11, <1>12, <1>17
  <2>4. p = q \o Rejections(batch, rows, bound)
    BY <1>2, <1>6, <1>7, <1>13, <1>16, <1>17
  <2>5. IsInjective(rows) /\ Elements(rows) \subseteq Elements(listed) /\ rows \in Seq(Requests) /\ bound \in Bound /\ q \in Seq(Frame)
    BY <1>12
  <2> QED
    BY ONLY <2>1, <2>2, <2>3, <2>4, <2>5, RefusePipe
<1>19. /\ p \in Seq(Frame) /\ Framed(p) /\ \A i \in 1..Len(p) : p[i].kind \in RowKinds
       /\ \A s \in Requests : Ended(p, s) <=> Ended(q, s) \/ (s \in Elements(rows) /\ TooLong(s, bound))
       /\ \A s \in Requests : Untouched(q, s) /\ ~(s \in Elements(rows) /\ TooLong(s, bound)) => Untouched(p, s)
  BY <1>18 DEF Refused
<1>20. /\ Framed(toClient)'
       /\ \A r : Ended(toClient, r)' <=> Ended(p, r)
       /\ \A r : Untouched(toClient, r)' <=> Untouched(p, r)
  <2>1. UNCHANGED <<got, answer, batch, listed, cancelSent>> /\ toClient' = p
    BY <1>2, <1>16
  <2> QED
    BY <2>1, <1>19, PipeMoves
<1>21. /\ wbatch' = batch /\ allIds' = rows /\ report' = fit /\ Busy' /\ ~InRun'
       /\ registered = {} /\ flagged = {} /\ joined = <<>> /\ waiting = <<>> /\ leftovers = <<>>
       /\ stopped = {} /\ finished = {}
       /\ registered' = Elements(fit) /\ flagged' = pending \cap Elements(fit) /\ pending' = pending \ Elements(fit)
  <2>1. /\ flagged \subseteq registered /\ registered = {} /\ joined = <<>> /\ waiting = <<>> /\ leftovers = <<>>
        /\ stopped = {} /\ finished = {}
    BY <1>2, <1>3 DEF Worked
  <2> QED
    BY <2>1, <1>2, <1>6, <1>7, <1>13, <1>14 DEF Busy, InRun
<1>22. \A r \in Requests \ Elements(rows) : Untouched(toClient, r) => Untouched(toClient, r)'
  BY <1>17, <1>19, <1>20
<1>23. ~Closed' /\ ~Broken' /\ \A i \in 1..Len(toClient') - 1 : toClient'[i].kind \in RowKinds
  <2>1. toClient' \in Seq(Frame) /\ \A i \in 1..Len(toClient') : toClient'[i].kind \in RowKinds
    BY <1>16, <1>19
  <2> QED
    BY <2>1, OpenPipe
<1>24. Phased'
  <2>1. Working'
    <3>1. NoGenerate' /\ commands' = <<>> /\ initial' <= Len(allIds')
      BY <1>2, <1>3, <1>5, <1>6, <1>7, <1>21, BoundAssumption DEF NoGenerate, ClientTyped
    <3> QED
      BY <3>1, <1>2, <1>21, <1>23 DEF Working
  <2> QED
    BY <2>1, <1>2, <1>3, <1>4, <1>23 DEF Phased
<1>25. Accounted'
  <2>1. Split(allIds)'
    <3>1. Carried(commands', batch') = <<>>
      BY <1>6, CarriedEmpty
    <3>2. rows \o <<>> = rows
      BY ConcatEmptySeq
    <3> QED
      BY <3>1, <3>2, <1>2, <1>8, <1>9, <1>11, <1>21 DEF Split
  <2>2. Taken' = allIds'
    BY <1>21 DEF Taken
  <2>3. \A r \in Elements(listed') \ Elements(allIds') : Untouched(toClient, r)'
    BY <1>2, <1>11, <1>12, <1>21, <1>22
  <2>4. \A r \in registered' : answer'[r] # "none" \/ r \in Elements(allIds')
    BY <1>15, <1>21
  <2>5. Share(allIds)' /\ allIds' \in Seq(Requests)
    BY <2>1, <2>2, <2>3, <2>4, <1>21 DEF Share
  <2> QED
    BY <2>5, <1>2, <1>3, <1>4 DEF Accounted
<1>26. Kept'
  BY <1>2, <1>3, <1>12, <1>22 DEF Kept, ClientTyped
<1>27. Caused'
  <2>1. \A r \in Requests : Heeded(r)' => Heeded(r)
    BY <1>2, <1>21 DEF Heeded, IsCancel
  <2> QED
    BY <2>1, <1>2, <1>3 DEF Caused
<1>28. Worked'
  <2>1. /\ IsInjective(joined') /\ IsInjective(waiting') /\ IsInjective(leftovers')
        /\ Elements(joined') = {} /\ Elements(waiting') = {} /\ Elements(leftovers') = {}
    BY <1>2, <1>21, EmptyLine
  <2>2. Live' = Elements(fit) /\ Apart' /\ Started' = {}
    BY <2>1, <1>15, <1>21 DEF Live, Apart, Started
  <2>3. \A r \in Elements(allIds') : Ended(toClient, r)' \/ r \in Live'
    BY <2>2, <1>12, <1>15, <1>19, <1>20, <1>21
  <2>4. \A r \in Elements(fit) : Untouched(toClient, r)'
    BY <1>11, <1>12, <1>15, <1>17, <1>19, <1>20
  <2>5. stopped' = {} /\ finished' = {} /\ joined' = <<>> /\ leftovers' = <<>> /\ waiting' = <<>>
    BY <1>2, <1>21
  <2>6. flagged' \subseteq registered' /\ wpc' = "round"
    BY <1>2, <1>21
  <2>7. Live' \subseteq Elements(allIds')
    BY <2>2, <1>15, <1>21
  <2> QED
    BY <2>2, <2>3, <2>4, <2>5, <2>6, <2>7, <1>21 DEF Worked
<1>29. Engined' /\ Seated'
  <2>1. WorkerOnly
    BY <1>2 DEF WorkerOnly
  <2> QED
    BY <2>1, <1>3, <1>21, WorkSeated DEF Engined
<1>30. Sane'
  BY <1>20, <1>24, <1>25, <1>26, <1>27, <1>28, <1>29 DEF Sane
<1>31. Typed'
  <2>1. WorkerTyped'
    <3>1. wpc' = "round" /\ wbatch' \in 0..MaxBatches /\ limit' \in Bound
      BY <1>2, <1>3, <1>13, <1>21 DEF ClientTyped
    <3>2. allIds' \in Seq(Requests) /\ report' \in Seq(Requests)
      BY <1>15, <1>21
    <3>3. registered' \subseteq Requests /\ flagged' \subseteq Requests /\ pending' \subseteq Requests
      BY <1>3, <1>12, <1>15, <1>21 DEF WorkerTyped
    <3>4. UNCHANGED <<skipped, joined, waiting, leftovers, sent, stopped, finished, rotation, arriving, todo, made, done>>
      BY <1>2
    <3> QED
      BY <3>1, <3>2, <3>3, <3>4, <1>3 DEF WorkerTyped
  <2>2. toClient' \in Seq(Frame) /\ commands' \in Seq(Command) /\ joins' \in Seq(Joining)
    BY <1>2, <1>3, <1>6, <1>16, <1>19 DEF PipesTyped
  <2>3. WorkerOnly /\ faulted' \in BOOLEAN
    BY <1>2, <1>3 DEF WorkerOnly, Typed
  <2> QED
    BY <2>1, <2>2, <2>3, <1>3, WorkTyped
<1>32. Counted' /\ client' # "failed"
  BY <1>2, <1>4 DEF IInv, Counted
<1> QED
  BY <1>30, <1>31, <1>32, WorkIntact

\* The free slots are never fewer than none.
LEMMA RoomForJoiners ==
  ASSUME IInv, client # "failed", InRun, Dense
  PROVE  FreeSlots \in Nat
<1>1. Busy /\ WorkerTyped
  BY AtWork DEF Busy, InRun
<1>2. /\ Live \subseteq Elements(allIds) /\ Started \subseteq Live /\ Engined
      /\ \A r \in Started : Progress(r)
  BY <1>1, RowsLine
<1>3. Running \subseteq Started
  BY <1>2 DEF Engined
<1>4. Elements(rotation \o arriving) = Running
  BY <1>1, ConcatLine DEF WorkerTyped, Running
<1>5. PICK S : S = Running \ done
  OBVIOUS
<1>6. \A r \in S : answer[r] = "none"
  BY <1>2, <1>3, <1>5 DEF Progress, Ended
<1>7. S \subseteq Elements(allIds)
  BY <1>2, <1>3, <1>5
<1>8. Cardinality(S) \in Nat /\ Cardinality(S) <= engine.slots /\ engine.slots \in Nat
  BY <1>1, <1>6, <1>7, SlotsLine
<1>9. FreeSlots = engine.slots - Cardinality(S)
  BY <1>4, <1>5 DEF FreeSlots
<1> QED
  BY <1>8, <1>9

\* A list cut in two.
Halves(q, a, b) ==
  /\ a \in Seq(Requests) /\ b \in Seq(Requests) /\ Elements(q) = Elements(a) \cup Elements(b)
  /\ IsInjective(a) /\ IsInjective(b) /\ Elements(a) \cap Elements(b) = {}

\* The two halves of a list that repeats nothing.
LEMMA CutTwo ==
  ASSUME NEW q \in Seq(Requests), NEW k \in 0..Len(q), IsInjective(q),
         NEW a, a = SubSeq(q, 1, k), NEW b, b = SubSeq(q, k + 1, Len(q))
  PROVE  Halves(q, a, b)
<1> DEFINE a1 == SubSeq(q, 1, k)
           b1 == SubSeq(q, k + 1, Len(q))
<1>1. q \in Seq(Requests) /\ k \in 0..Len(q)
  OBVIOUS
<1>2. a1 \in Seq(Requests) /\ b1 \in Seq(Requests)
  BY ONLY <1>1, CutType
<1>3. Elements(q) = Elements(a1) \cup Elements(b1)
  BY ONLY <1>1, CutLine
<1>4. IsInjective(q) => IsInjective(a1) /\ IsInjective(b1) /\ Elements(a1) \cap Elements(b1) = {}
  BY ONLY <1>1, CutLine
<1> HIDE DEF a1, b1
<1>5. a = a1 /\ b = b1
  BY DEF a1, b1
<1> QED
  BY <1>2, <1>3, <1>4, <1>5 DEF Halves

\* Admit keeps the invariant.
LEMMA AdmitSafe ==
  ASSUME IInv, Admit
  PROVE  IInv'
<1>1. /\ client # "failed" /\ wpc = "admit" /\ InRun /\ Busy
      /\ UNCHANGED <<engine, faulted, cancelled, free, answer, got, client, batch, listed, initial, cancelSent,
                     toWorker, commands>>
      /\ joins' = <<>>
  BY DEF Admit, At, Alive, machine, clientVars, InRun, Busy
<1>2. /\ Typed /\ Sane /\ ClientTyped /\ PipesTyped /\ WorkerTyped /\ client = "running"
      /\ wbatch = batch /\ allIds \in Seq(Requests)
      /\ Arrived \in Seq(Requests)
      /\ IsInjective(Arrived) /\ Elements(allIds) \cap Elements(Arrived) = {} /\ ~Duplicate
      /\ Elements(allIds) \subseteq Elements(listed) /\ Elements(Arrived) \subseteq Elements(listed)
      /\ \A r \in Elements(listed) \ Elements(allIds) : Untouched(toClient, r)
      /\ \A i \in 1..Len(toClient) : toClient[i].kind \in RowKinds
  BY <1>1, AtWork
<1>3. /\ Apart /\ Live \subseteq Elements(allIds) /\ flagged \subseteq registered
      /\ \A r \in Elements(allIds) : Ended(toClient, r) \/ r \in Live
      /\ stopped \subseteq flagged
      /\ \A r \in finished : Ended(toClient, r)
      /\ report # <<>> /\ skipped \subseteq flagged \cap Elements(report)
      /\ \A r \in Live \ Started : Untouched(toClient, r)
      /\ \A r \in Started : Progress(r)
      /\ Started \subseteq Live /\ Live \subseteq Requests /\ Engined
  BY <1>1, RowsLine
<1>4. PICK A \in Seq(Requests) : A = Arrived
  BY <1>2
<1>5. PICK bound \in Bound : bound = limit
  BY <1>2 DEF WorkerTyped
<1>6. PICK fit : fit = Fitting(A, bound)
  OBVIOUS
<1>7. /\ fit \in Seq(Requests) /\ Elements(fit) = {r \in Elements(A) : ~TooLong(r, bound)}
      /\ IsInjective(fit) /\ Elements(A) \subseteq Requests
  BY <1>2, <1>4, <1>6, FitLine, PlacesLine
<1>8. PICK cand : cand = waiting \o fit
  OBVIOUS
<1>9. /\ cand \in Seq(Requests) /\ Elements(cand) = Elements(waiting) \cup Elements(fit) /\ IsInjective(cand)
  <2>1. waiting \in Seq(Requests) /\ fit \in Seq(Requests)
    BY <1>2, <1>7 DEF WorkerTyped
  <2>2. IsInjective(waiting) /\ Elements(waiting) \cap Elements(fit) = {}
    BY <1>2, <1>3, <1>4, <1>7 DEF Apart, Live
  <2>3. /\ waiting \o fit \in Seq(Requests) /\ Elements(waiting \o fit) = Elements(waiting) \cup Elements(fit)
        /\ (IsInjective(waiting \o fit) <=>
              IsInjective(waiting) /\ IsInjective(fit) /\ Elements(waiting) \cap Elements(fit) = {})
    BY ONLY <2>1, ConcatLine
  <2> QED
    BY <2>2, <2>3, <1>7, <1>8
<1>10. PICK S : S = {r \in Requests : ~LongForRun(r)}
  OBVIOUS
<1>11. PICK L : L = {r \in Requests : LongForRun(r)}
  OBVIOUS
<1>12. PICK short : short = Only(cand, S)
  OBVIOUS
<1>13. PICK long : long = Only(cand, L)
  OBVIOUS
<1>14. /\ short \in Seq(Requests) /\ Elements(short) = Elements(cand) \cap S /\ IsInjective(short)
       /\ long \in Seq(Requests) /\ Elements(long) = Elements(cand) \cap L /\ IsInjective(long)
  BY <1>9, <1>12, <1>13, OnlyLine
<1>15. /\ Elements(short) \cap Elements(long) = {}
       /\ Elements(short) \cup Elements(long) = Elements(cand) /\ Elements(cand) \subseteq Requests
  <2>1. Elements(cand) \subseteq Requests
    BY <1>9, PlacesLine
  <2> QED
    BY <2>1, <1>10, <1>11, <1>14
<1>16. PICK room : room = IF Dense /\ FreeSlots < Len(short) THEN FreeSlots ELSE Len(short)
  OBVIOUS
<1>17. room \in 0..Len(short)
  <2>1. Len(short) \in Nat
    BY <1>14
  <2>2. Dense => FreeSlots \in Nat
    BY <1>1, RoomForJoiners
  <2> QED
    BY <2>1, <2>2, <1>16
<1>18. PICK new : new = SubSeq(short, 1, room)
  OBVIOUS
<1>19. PICK wait : wait = SubSeq(short, room + 1, Len(short))
  OBVIOUS
<1>20. /\ new \in Seq(Requests) /\ wait \in Seq(Requests) /\ Elements(short) = Elements(new) \cup Elements(wait)
       /\ IsInjective(new) /\ IsInjective(wait) /\ Elements(new) \cap Elements(wait) = {}
  <2>1. short \in Seq(Requests) /\ room \in 0..Len(short) /\ IsInjective(short)
    BY <1>14, <1>17
  <2>2. Halves(short, new, wait)
    BY ONLY <2>1, <1>18, <1>19, CutTwo
  <2> QED
    BY <2>2 DEF Halves
<1>21. /\ allIds' = allIds \o A
       /\ registered' = registered \cup Elements(fit)
       /\ flagged' = flagged \cup (pending \cap Elements(fit))
       /\ pending' = pending \ Elements(fit)
       /\ leftovers' = leftovers \o long /\ waiting' = wait /\ todo' = new
       /\ joined' = joined \o new /\ NewRows(new) /\ arriving' = new \o arriving
       /\ wpc' = IF new = <<>> THEN "form" ELSE "joining"
       /\ UNCHANGED <<wbatch, limit, report, skipped, rotation>>
       /\ toClient' = toClient \o Rejections(batch, A, bound)
  BY <1>2, <1>4, <1>5, <1>6, <1>8, <1>10, <1>11, <1>12, <1>13, <1>16, <1>18, <1>19 DEF Admit, Register
<1>22. PICK p : p = toClient'
  OBVIOUS
<1>23. PICK q \in Seq(Frame) : q = toClient
  BY <1>2 DEF PipesTyped
<1>24. Refused(q, p, A, bound)
  <2>1. \A i \in 1..Len(q) : q[i].kind \in RowKinds
    BY <1>2, <1>23
  <2>2. Framed(q) /\ got \in [Requests -> Nat] /\ batch \in Nat
    BY <1>2, <1>23, BoundAssumption DEF ClientTyped, Sane
  <2>3. \A r \in Elements(A) : Untouched(q, r)
    BY <1>2, <1>4, <1>23
  <2>4. p = q \o Rejections(batch, A, bound)
    BY <1>21, <1>22, <1>23
  <2>5. IsInjective(A) /\ Elements(A) \subseteq Elements(listed) /\ A \in Seq(Requests) /\ bound \in Bound /\ q \in Seq(Frame)
    BY <1>2, <1>4
  <2> QED
    BY ONLY <2>1, <2>2, <2>3, <2>4, <2>5, RefusePipe
<1>25. /\ p \in Seq(Frame) /\ Framed(p) /\ \A i \in 1..Len(p) : p[i].kind \in RowKinds
       /\ \A s \in Requests : Ended(p, s) <=> Ended(q, s) \/ (s \in Elements(A) /\ TooLong(s, bound))
       /\ \A s \in Requests : Untouched(q, s) /\ ~(s \in Elements(A) /\ TooLong(s, bound)) => Untouched(p, s)
       /\ \A s \in Requests, k \in Nat : Latest(q, s, k) => Latest(p, s, k)
  BY <1>24 DEF Refused
<1>26. /\ Framed(toClient)'
       /\ \A r : Ended(toClient, r)' <=> Ended(p, r)
       /\ \A r : Untouched(toClient, r)' <=> Untouched(p, r)
       /\ \A r, n : Latest(toClient, r, n)' <=> Latest(p, r, n)
  <2>1. UNCHANGED <<got, answer, batch, listed, cancelSent>> /\ toClient' = p
    BY <1>1, <1>22
  <2> QED
    BY <2>1, <1>25, PipeMoves
<1>27. /\ \A r \in Requests : Ended(toClient, r) => Ended(toClient, r)'
       /\ \A r \in Requests \ Elements(A) :
            /\ Ended(toClient, r)' <=> Ended(toClient, r)
            /\ Untouched(toClient, r) => Untouched(toClient, r)'
            /\ \A n \in Nat : Latest(toClient, r, n) => Latest(toClient, r, n)'
       /\ \A r \in Elements(A) : TooLong(r, bound) => Ended(toClient, r)'
       /\ \A r \in Elements(fit) : Untouched(toClient, r)'
  <2>1. \A r \in Elements(A) : r \in Requests /\ Untouched(q, r)
    BY <1>2, <1>4, <1>7, <1>23
  <2> QED
    BY <2>1, <1>7, <1>23, <1>25, <1>26
<1>28. /\ Elements(new) \subseteq Elements(waiting) \cup Elements(fit)
       /\ Elements(wait) \subseteq Elements(waiting) \cup Elements(fit)
       /\ Elements(long) \subseteq Elements(waiting) \cup Elements(fit)
       /\ Elements(waiting) \cup Elements(fit) = Elements(new) \cup Elements(wait) \cup Elements(long)
       /\ Elements(new) \cap Elements(wait) = {} /\ Elements(new) \cap Elements(long) = {}
       /\ Elements(wait) \cap Elements(long) = {}
  BY <1>9, <1>14, <1>15, <1>20
<1>29. /\ Elements(fit) \cap Elements(allIds) = {} /\ Elements(fit) \cap Live = {}
       /\ Elements(waiting) \subseteq Live /\ Elements(A) \cap Live = {}
       /\ Elements(waiting) \cap Elements(report) = {} /\ Elements(waiting) \cap Elements(joined) = {}
       /\ Elements(waiting) \cap Elements(leftovers) = {}
       /\ Elements(waiting) \cap Started = {} /\ Elements(fit) \cap Started = {}
  BY <1>1, <1>2, <1>3, <1>4, <1>7 DEF Apart, Live, Started
<1>30. /\ joined' \in Seq(Requests) /\ Elements(joined') = Elements(joined) \cup Elements(new) /\ IsInjective(joined')
  <2>1. joined \in Seq(Requests) /\ new \in Seq(Requests)
    BY <1>2, <1>20 DEF WorkerTyped
  <2>2. IsInjective(joined) /\ Elements(joined) \cap Elements(new) = {}
    BY <1>3, <1>28, <1>29 DEF Apart, Live
  <2>3. /\ joined \o new \in Seq(Requests) /\ Elements(joined \o new) = Elements(joined) \cup Elements(new)
        /\ (IsInjective(joined \o new) <=>
              IsInjective(joined) /\ IsInjective(new) /\ Elements(joined) \cap Elements(new) = {})
    BY ONLY <2>1, ConcatLine
  <2> QED
    BY <2>2, <2>3, <1>20, <1>21
<1>31. /\ leftovers' \in Seq(Requests) /\ Elements(leftovers') = Elements(leftovers) \cup Elements(long)
       /\ IsInjective(leftovers')
  <2>1. leftovers \in Seq(Requests) /\ long \in Seq(Requests)
    BY <1>2, <1>14 DEF WorkerTyped
  <2>2. IsInjective(leftovers) /\ Elements(leftovers) \cap Elements(long) = {}
    BY <1>3, <1>28, <1>29 DEF Apart, Live
  <2>3. /\ leftovers \o long \in Seq(Requests) /\ Elements(leftovers \o long) = Elements(leftovers) \cup Elements(long)
        /\ (IsInjective(leftovers \o long) <=>
              IsInjective(leftovers) /\ IsInjective(long) /\ Elements(leftovers) \cap Elements(long) = {})
    BY ONLY <2>1, ConcatLine
  <2> QED
    BY <2>2, <2>3, <1>14, <1>21
<1>32. Running \subseteq Started /\ Started \subseteq done \cup Running
       /\ IsInjective(rotation) /\ IsInjective(arriving) /\ Elements(rotation) \cap Elements(arriving) = {}
  BY <1>1, <1>3 DEF Engined
<1>33. /\ arriving' \in Seq(Requests) /\ Elements(arriving') = Elements(new) \cup Elements(arriving)
       /\ IsInjective(arriving')
  <2>1. new \in Seq(Requests) /\ arriving \in Seq(Requests)
    BY <1>2, <1>20 DEF WorkerTyped
  <2>2. Elements(new) \cap Elements(arriving) = {}
    BY <1>28, <1>29, <1>32 DEF Running
  <2>3. /\ new \o arriving \in Seq(Requests) /\ Elements(new \o arriving) = Elements(new) \cup Elements(arriving)
        /\ (IsInjective(new \o arriving) <=>
              IsInjective(new) /\ IsInjective(arriving) /\ Elements(new) \cap Elements(arriving) = {})
    BY ONLY <2>1, ConcatLine
  <2> QED
    BY <2>2, <2>3, <1>20, <1>21, <1>32
<1>34. /\ sent' \in [Requests -> Nat] /\ made' \in [Requests -> Nat] /\ Counted'
       /\ stopped' \subseteq stopped /\ finished' \subseteq finished /\ done' = done \ Elements(new)
       /\ finished' = finished \ Elements(new)
       /\ \A r \in Elements(new) :
            r \in Requests /\ sent'[r] = 0 /\ made'[r] = 0 /\ r \notin finished' /\ r \notin done'
       /\ \A r \in Requests \ Elements(new) : sent'[r] = sent[r] /\ made'[r] = made[r]
  <2>1. Counted /\ NewRows(new)
    BY <1>21 DEF IInv
  <2> QED
    BY <2>1, <1>2, <1>20, NewRowsLine
<1>35. Busy' /\ InRun' /\ wpc' \in {"form", "joining"} /\ (wpc' = "joining" => new # <<>>)
  BY <1>21 DEF Busy, InRun
<1>36. /\ allIds' \in Seq(Requests) /\ Elements(allIds') = Elements(allIds) \cup Elements(A)
  BY <1>2, <1>21, ConcatLine
<1>37. Live' = Live \cup Elements(fit) /\ Started' = Started \cup Elements(new)
  <2>1. Live' = Elements(report) \cup (Elements(joined) \cup Elements(new)) \cup Elements(wait)
                  \cup (Elements(leftovers) \cup Elements(long))
    BY <1>21, <1>30, <1>31 DEF Live
  <2>2. Started' = (Elements(report) \ skipped) \cup (Elements(joined) \cup Elements(new))
    BY <1>21, <1>30, <1>35 DEF Started
  <2>3. Started = (Elements(report) \ skipped) \cup Elements(joined)
    BY <1>1 DEF Started
  <2> QED
    BY <2>1, <2>2, <2>3, <1>28 DEF Live
<1>38. Apart'
  <2>1. IsInjective(report') /\ IsInjective(waiting')
    BY <1>3, <1>20, <1>21 DEF Apart
  <2>2. /\ Elements(report) \cap Elements(joined') = {} /\ Elements(report) \cap Elements(wait) = {}
        /\ Elements(report) \cap Elements(leftovers') = {}
    BY <1>3, <1>28, <1>29, <1>30, <1>31 DEF Apart, Live
  <2>3. /\ Elements(joined') \cap Elements(wait) = {} /\ Elements(joined') \cap Elements(leftovers') = {}
        /\ Elements(wait) \cap Elements(leftovers') = {}
    BY <1>3, <1>28, <1>29, <1>30, <1>31 DEF Apart, Live
  <2> QED
    BY <2>1, <2>2, <2>3, <1>21, <1>30, <1>31 DEF Apart
<1>39. \A s \in Started : Progress(s)'
  <2>1. SUFFICES ASSUME NEW s \in Started PROVE Progress(s)'
    OBVIOUS
  <2>2. s \in Requests /\ Progress(s) /\ s \notin Elements(new) /\ s \notin Elements(A)
    BY <1>3, <1>28, <1>29
  <2>3. /\ Ended(toClient, s)' <=> Ended(toClient, s)
        /\ \A n \in Nat : Latest(toClient, s, n) => Latest(toClient, s, n)'
    BY <2>2, <1>27
  <2>4. /\ sent'[s] = sent[s] /\ made'[s] = made[s] /\ flagged \subseteq flagged'
        /\ (s \in finished' <=> s \in finished) /\ (s \in done' <=> s \in done)
    BY <2>2, <1>21, <1>34
  <2>5. sent \in [Requests -> Nat]
    BY <1>2 DEF WorkerTyped
  <2> QED
    BY <2>2, <2>3, <2>4, <2>5, ProgressKept
<1>40. \A s \in Elements(waiting) \cup Elements(fit) : Untouched(toClient, s)'
  <2>1. \A s \in Elements(waiting) : s \in Requests \ Elements(A) /\ Untouched(toClient, s)
    BY <1>3, <1>29
  <2> QED
    BY <2>1, <1>27
<1>41. \A s \in Elements(new) : Progress(s)'
  <2>1. SUFFICES ASSUME NEW s \in Elements(new) PROVE Progress(s)'
    OBVIOUS
  <2>2. s \in Requests /\ Untouched(toClient, s)'
    BY <1>28, <1>34, <1>40
  <2> QED
    BY <2>2, <1>34, ProgressNew
<1>42. Worked'
  <2>1. \A r \in Elements(allIds') : Ended(toClient, r)' \/ r \in Live'
    <3>1. Elements(allIds) \subseteq Requests
      BY <1>2, PlacesLine
    <3> QED
      BY <3>1, <1>3, <1>7, <1>27, <1>36, <1>37
  <2>2. \A r \in Live' \ Started' : Untouched(toClient, r)'
    <3>1. \A r \in Live \ Started : r \in Requests \ Elements(A)
      BY <1>3, <1>29
    <3> QED
      BY <3>1, <1>3, <1>27, <1>37
  <2>3. \A r \in Started' : Progress(r)'
    BY <1>37, <1>39, <1>41
  <2>4. \A r \in finished' : Ended(toClient, r)'
    BY <1>2, <1>3, <1>27, <1>34 DEF WorkerTyped
  <2>5. stopped' \subseteq flagged' /\ flagged' \subseteq registered'
    BY <1>3, <1>21, <1>34
  <2>6. Live' \subseteq Elements(allIds')
    BY <1>3, <1>7, <1>36, <1>37
  <2>7. report' # <<>> /\ skipped' \subseteq flagged' \cap Elements(report')
    BY <1>3, <1>21
  <2>8. wpc' \notin {"wait", "round", "prefill", "report"}
    BY <1>35
  <2> QED
    BY <2>1, <2>2, <2>3, <2>4, <2>5, <2>6, <2>7, <2>8, <1>38 DEF Worked
<1>43. Engined'
  <2>1. Running' = Running \cup Elements(new)
    BY <1>21, <1>33 DEF Running
  <2>2. Started \cap Elements(new) = {}
    BY <1>28, <1>29
  <2>3. Running' \subseteq Started' /\ Started' \subseteq done' \cup Running'
    BY <2>1, <2>2, <1>32, <1>34, <1>37
  <2>4. IsInjective(rotation') /\ Elements(rotation') \cap Elements(arriving') = {}
    BY <2>2, <1>21, <1>32, <1>33 DEF Running
  <2>5. IsInjective(todo') /\ Elements(todo') \subseteq Started' \ done'
    BY <1>20, <1>21, <1>34, <1>37
  <2>6. wpc' = "joining" => todo' # <<>>
    BY <1>21, <1>35
  <2>7. wpc' \in {"form", "joining"}
    BY <1>35
  <2> QED
    BY <2>3, <2>4, <2>5, <2>6, <2>7, <1>33 DEF Engined
<1>44. Phased' /\ Accounted' /\ Kept' /\ Caused' /\ Seated'
  <2>1. WorkerOnly
    BY <1>1 DEF WorkerOnly
  <2>2. toClient' \in Seq(Frame) /\ \A i \in 1..Len(toClient') : toClient'[i].kind \in RowKinds
    BY <1>22, <1>25
  <2>3. \A r \in Requests \ Elements(allIds') : Untouched(toClient, r) => Untouched(toClient, r)'
    BY <1>27, <1>36
  <2>4. registered' \subseteq registered \cup Elements(allIds') /\ flagged' \cup pending' \subseteq flagged \cup pending
    BY <1>7, <1>21, <1>36
  <2>5. allIds' = allIds \o A /\ A = Arrived /\ joins' = <<>>
    BY <1>1, <1>4, <1>21
  <2>6. UNCHANGED <<commands, wbatch>>
    BY <1>1, <1>21
  <2> QED
    BY <2>1, <2>2, <2>3, <2>4, <2>5, <2>6, <1>1, <1>35, WorkOn
<1>45. Sane'
  BY <1>26, <1>42, <1>43, <1>44 DEF Sane
<1>46. Typed'
  <2>1. WorkerTyped'
    <3>1. wpc' \in {"form", "joining"} /\ UNCHANGED <<wbatch, limit, report, skipped, rotation>>
      BY <1>21, <1>35
    <3>2. /\ allIds' \in Seq(Requests) /\ joined' \in Seq(Requests) /\ leftovers' \in Seq(Requests)
          /\ arriving' \in Seq(Requests) /\ waiting' \in Seq(Requests) /\ todo' \in Seq(Requests)
      BY <1>20, <1>21, <1>30, <1>31, <1>33, <1>36
    <3>3. registered' \subseteq Requests /\ flagged' \subseteq Requests /\ pending' \subseteq Requests
      BY <1>2, <1>7, <1>21 DEF WorkerTyped
    <3>4. stopped' \subseteq Requests /\ finished' \subseteq Requests /\ done' \subseteq Requests
      BY <1>2, <1>34 DEF WorkerTyped
    <3> QED
      BY <3>1, <3>2, <3>3, <3>4, <1>2, <1>34 DEF WorkerTyped
  <2>2. toClient' \in Seq(Frame) /\ commands' \in Seq(Command) /\ joins' \in Seq(Joining)
    BY <1>1, <1>2, <1>22, <1>25 DEF PipesTyped
  <2>3. WorkerOnly /\ faulted' \in BOOLEAN
    BY <1>1, <1>2 DEF WorkerOnly, Typed
  <2> QED
    BY <2>1, <2>2, <2>3, <1>2, WorkTyped
<1> QED
  BY <1>1, <1>34, <1>45, <1>46, WorkIntact

\* The frames Report sends for the rows of its run.
Endings(ending) ==
  [i \in DOMAIN ending |->
     IF ending[i] \in skipped THEN DoneFrame(ending[i], "cancelled", 0)
     ELSE IF ending[i] \in flagged THEN DoneFrame(ending[i], "cancelled", sent[ending[i]])
     ELSE DoneFrame(ending[i], "stop", made[ending[i]])]

\* Pipe p ends the requests of S, beyond pipe q.
Finishing(q, p, S) ==
  /\ p \in Seq(Frame) /\ Framed(p) /\ \A i \in 1..Len(p) : p[i].kind \in RowKinds
  /\ \A s \in Requests : Ended(p, s) <=> Ended(q, s) \/ s \in S
  /\ \A s \in Requests : Untouched(q, s) /\ s \notin S => Untouched(p, s)

\* A row of the run that has no end yet was skipped or stopped: its cancel was seen.
LEMMA RowEnds ==
  ASSUME IInv, client # "failed", wpc = "report", NEW r \in Elements(report) \cup Elements(joined), r \notin finished
  PROVE  /\ r \in Requests /\ r \in Elements(listed) /\ ~Ended(toClient, r) /\ r \in cancelSent
         /\ r \in skipped => Latest(toClient, r, 0)
         /\ r \notin skipped => r \in flagged /\ Latest(toClient, r, sent[r]) /\ sent[r] \in Nat /\ sent[r] <= Output[r]
<1>1. Busy /\ InRun
  BY DEF Busy, InRun
<1>2. /\ Typed /\ Sane /\ WorkerTyped /\ Elements(allIds) \subseteq Elements(listed)
  BY <1>1, AtWork
<1>3. /\ Apart /\ Live \subseteq Elements(allIds) /\ skipped \subseteq flagged \cap Elements(report)
      /\ \A s \in Live \ Started : Untouched(toClient, s)
      /\ \A s \in Started : Progress(s)
      /\ Live \subseteq Requests /\ Engined
  BY <1>1, RowsLine
<1>4. r \in Live /\ r \in Requests /\ r \in Elements(listed)
  BY <1>2, <1>3 DEF Live
<1>5. CASE r \in skipped
  <2>1. r \notin Started
    BY <1>1, <1>3, <1>5 DEF Started, Apart
  <2>2. ~Ended(toClient, r) /\ Latest(toClient, r, 0)
    BY <2>1, <1>3, <1>4, UntouchedLine
  <2>3. r \in cancelSent
    BY <1>2, <1>3, <1>4, <1>5 DEF Sane, Caused, Heeded
  <2> QED
    BY <2>2, <2>3, <1>4, <1>5
<1>6. CASE r \notin skipped
  <2>1. r \in Started
    BY <1>1, <1>6 DEF Started
  <2>2. Progress(r) /\ r \in done
    BY <2>1, <1>1, <1>3 DEF Engined
  <2>3. r \in flagged /\ ~Ended(toClient, r) /\ Latest(toClient, r, sent[r])
    BY <2>2 DEF Progress
  <2>4. r \in cancelSent
    BY <2>3, <1>2, <1>4 DEF Sane, Caused, Heeded
  <2>5. sent[r] \in Nat /\ made[r] \in Nat /\ Output[r] \in Nat /\ sent[r] <= made[r] /\ made[r] <= Output[r]
    BY <1>2, <1>4, RequestAssumption DEF WorkerTyped, IInv, Counted
  <2> QED
    BY <2>3, <2>4, <2>5, <1>4, <1>6
<1> QED
  BY <1>5, <1>6

\* The frames Report sends are in order, and end the rows of the run that had no end.
LEMMA EndingsPipe ==
  ASSUME IInv, client # "failed", wpc = "report", NEW rows, rows = report \o joined,
         NEW ending, ending = Without(rows, finished), NEW p, p = toClient \o Endings(ending)
  PROVE  Finishing(toClient, p, Elements(ending)) /\ Elements(ending) = Elements(rows) \ finished
<1>1. Busy /\ InRun
  BY DEF Busy, InRun
<1>2. /\ Typed /\ Sane /\ ClientTyped /\ PipesTyped /\ WorkerTyped /\ wbatch = batch
      /\ \A i \in 1..Len(toClient) : toClient[i].kind \in RowKinds
  BY <1>1, AtWork
<1>3. Apart
  BY <1>1, RowsLine
<1>4. /\ rows \in Seq(Requests) /\ Elements(rows) = Elements(report) \cup Elements(joined) /\ IsInjective(rows)
  <2>1. report \in Seq(Requests) /\ joined \in Seq(Requests)
    BY <1>2 DEF WorkerTyped
  <2>2. /\ report \o joined \in Seq(Requests) /\ Elements(report \o joined) = Elements(report) \cup Elements(joined)
        /\ (IsInjective(report \o joined) <=>
              IsInjective(report) /\ IsInjective(joined) /\ Elements(report) \cap Elements(joined) = {})
    BY ONLY <2>1, ConcatLine
  <2> QED
    BY <2>2, <1>3 DEF Apart
<1>5. ending \in Seq(Requests) /\ Elements(ending) = Elements(rows) \ finished /\ IsInjective(ending)
  <2>1. PICK D : D = Requests \ finished
    OBVIOUS
  <2>2. ending = Only(rows, D)
    BY <2>1 DEF Without
  <2>3. /\ Only(rows, D) \in Seq(Requests) /\ Elements(Only(rows, D)) = Elements(rows) \cap D
        /\ IsInjective(Only(rows, D))
    BY <1>4, OnlyLine
  <2>4. Elements(rows) \subseteq Requests
    BY <1>4, PlacesLine
  <2> QED
    BY <2>1, <2>2, <2>3, <2>4
<1>6. DOMAIN ending = 1..Len(ending) /\ Len(ending) \in Nat
  BY <1>5
<1>7. PICK es : es = Endings(ending)
  OBVIOUS
<1>8. \A i \in 1..Len(ending) : ending[i] \in Elements(report) \cup Elements(joined) /\ ending[i] \notin finished
  <2>1. \A x : x \in Elements(ending) <=> \E i \in 1..Len(ending) : ending[i] = x
    BY <1>5, PlacesLine
  <2> QED
    BY <2>1, <1>4, <1>5
<1>9. DOMAIN es = 1..Len(ending) /\ es = [i \in 1..Len(ending) |-> es[i]]
  BY <1>6, <1>7 DEF Endings
<1>10. batch \in Nat
  BY <1>2, BoundAssumption DEF ClientTyped
<1>11. \A i \in 1..Len(ending) :
         /\ es[i].kind = "done" /\ es[i].batch = batch /\ es[i].id = ending[i] /\ es[i] \in Frame
         /\ es[i].id \in Elements(listed) /\ ~Ended(toClient, es[i].id)
         /\ es[i].how = "cancelled" /\ es[i].n <= Output[es[i].id] /\ es[i].id \in cancelSent
         /\ Latest(toClient, es[i].id, es[i].n)
  <2>1. SUFFICES ASSUME NEW i \in 1..Len(ending)
                 PROVE  /\ es[i].kind = "done" /\ es[i].batch = batch /\ es[i].id = ending[i] /\ es[i] \in Frame
                        /\ es[i].id \in Elements(listed) /\ ~Ended(toClient, es[i].id)
                        /\ es[i].how = "cancelled" /\ es[i].n <= Output[es[i].id] /\ es[i].id \in cancelSent
                        /\ Latest(toClient, es[i].id, es[i].n)
    OBVIOUS
  <2>2. PICK r : r = ending[i]
    OBVIOUS
  <2>3. /\ r \in Requests /\ r \in Elements(listed) /\ ~Ended(toClient, r) /\ r \in cancelSent
        /\ r \in skipped => Latest(toClient, r, 0)
        /\ r \notin skipped => r \in flagged /\ Latest(toClient, r, sent[r]) /\ sent[r] \in Nat /\ sent[r] <= Output[r]
    BY <2>2, <1>8, RowEnds
  <2>4. PICK n : n = IF r \in skipped THEN 0 ELSE sent[r]
    OBVIOUS
  <2>5. n \in Nat /\ n <= Output[r] /\ Latest(toClient, r, n)
    BY <2>3, <2>4, RequestAssumption
  <2>6. es[i] = [kind |-> "done", batch |-> batch, id |-> r, how |-> "cancelled", n |-> n]
    BY <2>2, <2>3, <2>4, <1>2, <1>6, <1>7 DEF Endings, DoneFrame
  <2>7. es[i] \in RowFrame
    BY <2>3, <2>5, <2>6, <1>10 DEF RowFrame
  <2> QED
    BY <2>2, <2>3, <2>5, <2>6, <2>7 DEF Frame
<1>12. es \in Seq(Frame) /\ Len(es) = Len(ending)
  <2>1. PICK n \in Nat : n = Len(ending)
    BY <1>6
  <2>2. \A i \in 1..n : es[i] \in Frame
    BY <2>1, <1>11
  <2>3. es = [i \in 1..n |-> es[i]]
    BY <2>1, <1>9
  <2>4. es \in [1..n -> Frame]
    BY ONLY <2>2, <2>3
  <2>5. es \in Seq(Frame) /\ Len(es) = n
    BY ONLY <2>4, n \in Nat
  <2> QED
    BY <2>1, <2>5
<1>13. PICK q \in Seq(Frame) : q = toClient
  BY <1>2 DEF PipesTyped
<1>14. \A i \in 1..Len(es) :
         /\ es[i].kind \in {"done", "rejected"} /\ es[i].batch = batch /\ es[i].id \in Elements(listed)
         /\ ~Ended(q, es[i].id)
         /\ es[i].kind = "done" =>
              /\ \/ es[i].how = "stop" /\ es[i].n = Output[es[i].id]
                 \/ es[i].how = "cancelled" /\ es[i].n <= Output[es[i].id] /\ es[i].id \in cancelSent
              /\ Latest(q, es[i].id, es[i].n)
         /\ es[i].kind = "rejected" => es[i].limit \in 1..ContextLimit /\ Untouched(q, es[i].id)
  BY <1>11, <1>12, <1>13
<1>15. \A i, j \in 1..Len(es) : es[i].id = es[j].id => i = j
  <2>1. \A i, j \in 1..Len(ending) : ending[i] = ending[j] => i = j
    BY <1>5, PlacesLine
  <2>2. \A i \in 1..Len(es) : es[i].id = ending[i]
    BY <1>11, <1>12
  <2>3. 1..Len(es) = 1..Len(ending)
    BY <1>12
  <2> QED
    BY ONLY <2>1, <2>2, <2>3
<1>16. /\ Framed(q \o es)
       /\ \A r \in Requests : Ended(q \o es, r) <=> Ended(q, r) \/ \E i \in 1..Len(es) : es[i].id = r
       /\ \A r \in Requests : Untouched(q, r) /\ (\A i \in 1..Len(es) : es[i].id # r) => Untouched(q \o es, r)
  <2>1. Framed(q) /\ got \in [Requests -> Nat]
    BY <1>2, <1>13 DEF Sane, ClientTyped
  <2> QED
    BY <2>1, <1>12, <1>14, <1>15, EndsPipe
<1>17. \A r : r \in Elements(ending) <=> \E i \in 1..Len(es) : es[i].id = r
  <2>1. \A x : x \in Elements(ending) <=> \E i \in 1..Len(ending) : ending[i] = x
    BY <1>5, PlacesLine
  <2>2. \A i \in 1..Len(es) : es[i].id = ending[i]
    BY <1>11, <1>12
  <2>3. 1..Len(es) = 1..Len(ending)
    BY <1>12
  <2> QED
    BY ONLY <2>1, <2>2, <2>3
<1>18. q \o es \in Seq(Frame) /\ \A i \in 1..Len(q \o es) : (q \o es)[i].kind \in RowKinds
  <2>1. \A i \in 1..Len(q) : q[i].kind \in RowKinds
    BY <1>2, <1>13
  <2>2. \A i \in 1..Len(es) : es[i].kind \in RowKinds
    BY <1>11, <1>12 DEF RowKinds
  <2> QED
    BY <2>1, <2>2, <1>12, KindsLine
<1>19. p = q \o es
  BY <1>7, <1>13
<1> QED
  BY <1>5, <1>13, <1>16, <1>17, <1>18, <1>19 DEF Finishing

\* Report keeps the invariant.
LEMMA ReportSafe ==
  ASSUME IInv, Report
  PROVE  IInv'
<1>1. /\ client # "failed" /\ wpc = "report" /\ InRun /\ Busy
      /\ UNCHANGED <<engine, faulted, cancelled, free, answer, got, client, batch, listed, initial, cancelSent,
                     toWorker, commands, wbatch, skipped, waiting, sent, stopped, finished,
                     rotation, arriving, todo, made, done>>
      /\ joins' = <<>>
  BY DEF Report, At, Alive, machine, clientVars, streamVars, runVars, InRun, Busy
<1>2. /\ Typed /\ Sane /\ ClientTyped /\ PipesTyped /\ WorkerTyped /\ client = "running"
      /\ wbatch = batch /\ allIds \in Seq(Requests)
      /\ Arrived \in Seq(Requests)
      /\ IsInjective(Arrived) /\ Elements(allIds) \cap Elements(Arrived) = {} /\ ~Duplicate
      /\ Elements(allIds) \subseteq Elements(listed) /\ Elements(Arrived) \subseteq Elements(listed)
      /\ \A r \in Elements(listed) \ Elements(allIds) : Untouched(toClient, r)
  BY <1>1, AtWork
<1>3. /\ Apart /\ Live \subseteq Elements(allIds) /\ flagged \subseteq registered
      /\ \A r \in Elements(allIds) : Ended(toClient, r) \/ r \in Live
      /\ stopped \subseteq flagged
      /\ \A r \in finished : Ended(toClient, r)
      /\ waiting = <<>> /\ report # <<>>
      /\ \A r \in Live \ Started : Untouched(toClient, r)
      /\ Live \subseteq Requests
  BY <1>1, RowsLine
<1>4. PICK A \in Seq(Requests) : A = Arrived
  BY <1>2
<1>5. PICK rows : rows = report \o joined
  OBVIOUS
<1>6. PICK ending : ending = Without(rows, finished)
  OBVIOUS
<1>7. PICK p1 : p1 = toClient \o Endings(ending)
  OBVIOUS
<1>8. Finishing(toClient, p1, Elements(ending)) /\ Elements(ending) = Elements(rows) \ finished
  BY <1>1, <1>5, <1>6, <1>7, EndingsPipe
<1>9. /\ rows \in Seq(Requests) /\ Elements(rows) = Elements(report) \cup Elements(joined) /\ rows # <<>>
  <2>1. report \in Seq(Requests) /\ joined \in Seq(Requests)
    BY <1>2 DEF WorkerTyped
  <2>2. /\ report \o joined \in Seq(Requests) /\ Elements(report \o joined) = Elements(report) \cup Elements(joined)
    BY ONLY <2>1, ConcatLine
  <2>3. Elements(report) # {}
    BY <2>1, <1>3, PlacesLine
  <2>4. rows # <<>>
    BY <2>2, <2>3, <1>5, EmptyLine
  <2> QED
    BY <2>2, <2>4, <1>5
<1>10. PICK bound \in Bound : bound = Output[Last(rows)]
  <2>1. Len(rows) \in 1..Len(rows)
    BY <1>9
  <2>2. Last(rows) \in Requests
    BY <2>1, <1>9 DEF Last
  <2> QED
    BY <2>2, RequestAssumption DEF Bound
<1>11. PICK fit : fit = Fitting(A, bound)
  OBVIOUS
<1>12. /\ fit \in Seq(Requests) /\ Elements(fit) = {r \in Elements(A) : ~TooLong(r, bound)}
       /\ IsInjective(fit) /\ Elements(A) \subseteq Requests
  BY <1>2, <1>4, <1>11, FitLine, PlacesLine
<1>13. /\ limit' = bound
       /\ allIds' = allIds \o A
       /\ registered' = registered \cup Elements(fit)
       /\ flagged' = flagged \cup (pending \cap Elements(fit))
       /\ pending' = pending \ Elements(fit)
       /\ report' = leftovers \o fit
       /\ leftovers' = <<>> /\ joined' = <<>>
       /\ toClient' = p1 \o Rejections(batch, A, bound)
       /\ wpc' = "round"
  <2>1. limit' = bound
    BY <1>5, <1>10 DEF Report
  <2>2. ~Duplicate
    BY <1>2
  <2> QED
    BY <2>1, <2>2, <1>2, <1>4, <1>5, <1>6, <1>7, <1>11 DEF Report, Register, Endings
<1>14. PICK q \in Seq(Frame) : q = toClient
  BY <1>2 DEF PipesTyped
<1>15. /\ p1 \in Seq(Frame) /\ Framed(p1) /\ \A i \in 1..Len(p1) : p1[i].kind \in RowKinds
       /\ \A s \in Requests : Ended(p1, s) <=> Ended(q, s) \/ s \in Elements(ending)
       /\ \A s \in Requests : Untouched(q, s) /\ s \notin Elements(ending) => Untouched(p1, s)
  BY <1>8, <1>14 DEF Finishing
<1>16. Elements(rows) \subseteq Live /\ Elements(ending) \subseteq Live
  BY <1>8, <1>9 DEF Live
<1>17. \A r \in Elements(A) : Untouched(p1, r)
  <2>1. SUFFICES ASSUME NEW r \in Elements(A) PROVE Untouched(p1, r)
    OBVIOUS
  <2>2. r \in Requests /\ Untouched(q, r)
    BY <1>2, <1>4, <1>12, <1>14
  <2>3. r \notin Elements(ending)
    BY <1>2, <1>3, <1>4, <1>16
  <2> QED
    BY <2>2, <2>3, <1>15
<1>18. PICK p : p = toClient'
  OBVIOUS
<1>19. Refused(p1, p, A, bound)
  <2>1. \A i \in 1..Len(p1) : p1[i].kind \in RowKinds
    BY <1>15
  <2>2. Framed(p1) /\ got \in [Requests -> Nat] /\ batch \in Nat
    BY <1>2, <1>15, BoundAssumption DEF ClientTyped
  <2>3. \A r \in Elements(A) : Untouched(p1, r)
    BY <1>17
  <2>4. p = p1 \o Rejections(batch, A, bound)
    BY <1>13, <1>18
  <2>5. IsInjective(A) /\ Elements(A) \subseteq Elements(listed) /\ A \in Seq(Requests) /\ bound \in Bound /\ p1 \in Seq(Frame)
    BY <1>2, <1>4, <1>15
  <2> QED
    BY ONLY <2>1, <2>2, <2>3, <2>4, <2>5, RefusePipe
<1>20. /\ p \in Seq(Frame) /\ Framed(p) /\ \A i \in 1..Len(p) : p[i].kind \in RowKinds
       /\ \A s \in Requests : Ended(p, s) <=> Ended(p1, s) \/ (s \in Elements(A) /\ TooLong(s, bound))
       /\ \A s \in Requests : Untouched(p1, s) /\ ~(s \in Elements(A) /\ TooLong(s, bound)) => Untouched(p, s)
  BY <1>19 DEF Refused
<1>21. /\ Framed(toClient)'
       /\ \A r : Ended(toClient, r)' <=> Ended(p, r)
       /\ \A r : Untouched(toClient, r)' <=> Untouched(p, r)
  <2>1. UNCHANGED <<got, answer, batch, listed, cancelSent>> /\ toClient' = p
    BY <1>1, <1>18
  <2> QED
    BY <2>1, <1>20, PipeMoves
<1>22. /\ \A r \in Requests : Ended(toClient, r) => Ended(toClient, r)'
       /\ \A r \in Elements(rows) : Ended(toClient, r)'
       /\ \A r \in Elements(A) : TooLong(r, bound) => Ended(toClient, r)'
       /\ \A r \in Elements(fit) : Untouched(toClient, r)'
       /\ \A r \in Requests : r \notin Elements(A) /\ r \notin Elements(rows) /\ Untouched(toClient, r)
            => Untouched(toClient, r)'
  <2>1. \A r \in Requests : Ended(toClient, r) => Ended(toClient, r)'
    BY <1>14, <1>15, <1>20, <1>21
  <2>2. \A r \in Elements(rows) : Ended(toClient, r)'
    BY <2>1, <1>3, <1>8, <1>15, <1>16, <1>20, <1>21
  <2>3. \A r \in Elements(A) : TooLong(r, bound) => Ended(toClient, r)'
    BY <1>12, <1>20, <1>21
  <2>4. \A r \in Elements(fit) : Untouched(toClient, r)'
    BY <1>12, <1>17, <1>20, <1>21
  <2>5. \A r \in Requests : r \notin Elements(A) /\ r \notin Elements(rows) /\ Untouched(toClient, r)
            => Untouched(toClient, r)'
    BY <1>8, <1>14, <1>15, <1>20, <1>21
  <2> QED
    BY <2>1, <2>2, <2>3, <2>4, <2>5
<1>23. /\ report' \in Seq(Requests) /\ Elements(report') = Elements(leftovers) \cup Elements(fit) /\ IsInjective(report')
  <2>1. leftovers \in Seq(Requests) /\ fit \in Seq(Requests)
    BY <1>2, <1>12 DEF WorkerTyped
  <2>2. IsInjective(leftovers) /\ Elements(leftovers) \cap Elements(fit) = {}
    BY <1>2, <1>3, <1>4, <1>12 DEF Apart, Live
  <2>3. /\ leftovers \o fit \in Seq(Requests) /\ Elements(leftovers \o fit) = Elements(leftovers) \cup Elements(fit)
        /\ (IsInjective(leftovers \o fit) <=>
              IsInjective(leftovers) /\ IsInjective(fit) /\ Elements(leftovers) \cap Elements(fit) = {})
    BY ONLY <2>1, ConcatLine
  <2> QED
    BY <2>2, <2>3, <1>12, <1>13
<1>24. /\ allIds' \in Seq(Requests) /\ Elements(allIds') = Elements(allIds) \cup Elements(A)
  BY <1>2, <1>4, <1>13, ConcatLine
<1>25. Busy' /\ ~InRun' /\ Started' = {}
  BY <1>13 DEF Busy, InRun, Started
<1>26. /\ IsInjective(joined') /\ IsInjective(waiting') /\ IsInjective(leftovers')
       /\ Elements(joined') = {} /\ Elements(waiting') = {} /\ Elements(leftovers') = {}
       /\ joined' = <<>> /\ waiting' = <<>> /\ leftovers' = <<>>
  BY <1>1, <1>3, <1>13, EmptyLine
<1>27. Live' = Elements(leftovers) \cup Elements(fit) /\ Apart'
  BY <1>23, <1>26 DEF Live, Apart
<1>28. Worked'
  <2>1. \A r \in Elements(allIds') : Ended(toClient, r)' \/ r \in Live'
    <3>1. SUFFICES ASSUME NEW r \in Elements(allIds') PROVE Ended(toClient, r)' \/ r \in Live'
      OBVIOUS
    <3>2. CASE r \in Elements(A)
      BY <3>2, <1>12, <1>22, <1>27
    <3>3. CASE r \in Elements(allIds)
      <4>1. r \in Requests
        BY <3>3, <1>2, PlacesLine
      <4>2. Live = Elements(rows) \cup Elements(leftovers)
        BY <1>3, <1>9, EmptyLine DEF Live
      <4> QED
        BY <3>3, <4>1, <4>2, <1>3, <1>22, <1>27
    <3> QED
      BY <3>2, <3>3, <1>24
  <2>2. \A r \in Live' : Untouched(toClient, r)'
    <3>1. SUFFICES ASSUME NEW r \in Elements(leftovers) PROVE Untouched(toClient, r)'
      BY <1>22, <1>27
    <3>2. r \in Live /\ r \notin Elements(report) /\ r \notin Elements(joined)
      BY <1>3 DEF Apart, Live
    <3>3. r \notin Elements(A) /\ r \notin Elements(rows) /\ r \in Requests
      BY <3>2, <1>2, <1>3, <1>4, <1>9
    <3>4. r \notin Started
      BY <3>2, <1>1 DEF Started
    <3> QED
      BY <3>2, <3>3, <3>4, <1>3, <1>22
  <2>3. \A r \in finished' : Ended(toClient, r)'
    BY <1>1, <1>2, <1>3, <1>22 DEF WorkerTyped
  <2>4. stopped' \subseteq flagged' /\ flagged' \subseteq registered'
    BY <1>1, <1>3, <1>13
  <2>5. Live' \subseteq Elements(allIds')
    BY <1>3, <1>12, <1>24, <1>27 DEF Live
  <2> QED
    BY <2>1, <2>2, <2>3, <2>4, <2>5, <1>13, <1>25, <1>26, <1>27 DEF Worked
<1>29. Engined'
  BY <1>25 DEF Engined
<1>30. Phased' /\ Accounted' /\ Kept' /\ Caused' /\ Seated'
  <2>1. WorkerOnly
    BY <1>1 DEF WorkerOnly
  <2>2. toClient' \in Seq(Frame) /\ \A i \in 1..Len(toClient') : toClient'[i].kind \in RowKinds
    BY <1>18, <1>20
  <2>3. \A r \in Requests \ Elements(allIds') : Untouched(toClient, r) => Untouched(toClient, r)'
    BY <1>3, <1>16, <1>22, <1>24
  <2>4. registered' \subseteq registered \cup Elements(allIds') /\ flagged' \cup pending' \subseteq flagged \cup pending
    BY <1>12, <1>13, <1>24
  <2>5. allIds' = allIds \o A /\ A = Arrived /\ joins' = <<>>
    BY <1>1, <1>4, <1>13
  <2>6. UNCHANGED <<commands, wbatch>>
    BY <1>1
  <2> QED
    BY <2>1, <2>2, <2>3, <2>4, <2>5, <2>6, <1>1, <1>25, WorkOn
<1>31. Sane'
  BY <1>21, <1>28, <1>29, <1>30 DEF Sane
<1>32. Typed'
  <2>1. WorkerTyped'
    <3>1. wpc' = "round" /\ limit' \in Bound /\ UNCHANGED <<wbatch, skipped, waiting>>
      BY <1>1, <1>13
    <3>2. allIds' \in Seq(Requests) /\ report' \in Seq(Requests) /\ joined' \in Seq(Requests) /\ leftovers' \in Seq(Requests)
      BY <1>13, <1>23, <1>24
    <3>3. registered' \subseteq Requests /\ flagged' \subseteq Requests /\ pending' \subseteq Requests
      BY <1>2, <1>12, <1>13 DEF WorkerTyped
    <3>4. UNCHANGED <<sent, stopped, finished, rotation, arriving, todo, made, done>>
      BY <1>1
    <3> QED
      BY <3>1, <3>2, <3>3, <3>4, <1>2 DEF WorkerTyped
  <2>2. toClient' \in Seq(Frame) /\ commands' \in Seq(Command) /\ joins' \in Seq(Joining)
    BY <1>1, <1>2, <1>18, <1>20 DEF PipesTyped
  <2>3. WorkerOnly /\ faulted' \in BOOLEAN
    BY <1>1, <1>2 DEF WorkerOnly, Typed
  <2> QED
    BY <2>1, <2>2, <2>3, <1>2, WorkTyped
<1>33. Counted'
  BY <1>1 DEF IInv, Counted
<1> QED
  BY <1>1, <1>31, <1>32, <1>33, WorkIntact

\* The invariant holds at first.
LEMMA InitSafe ==
  ASSUME Init
  PROVE  IInv
<1>1. /\ engine \in Engines
      /\ cancelled = {} /\ free = Requests
      /\ answer = [r \in Requests |-> "none"] /\ got = [r \in Requests |-> 0]
      /\ client = "idle" /\ batch = 0 /\ listed = <<>> /\ initial = 0 /\ cancelSent = {}
      /\ toWorker = <<>> /\ toClient = <<>>
      /\ commands = <<>> /\ joins = <<>> /\ registered = {} /\ flagged = {} /\ pending = {}
      /\ wpc = "wait"
      /\ wbatch = 0 /\ limit = NoLimit /\ allIds = <<>> /\ report = <<>> /\ skipped = {}
      /\ joined = <<>> /\ waiting = <<>> /\ leftovers = <<>>
      /\ sent = [r \in Requests |-> 0] /\ stopped = {} /\ finished = {}
      /\ rotation = <<>> /\ arriving = <<>> /\ todo = <<>> /\ made = [r \in Requests |-> 0] /\ done = {}
      /\ faulted = FALSE
  BY DEF Init
<1>2. Typed
  <2>1. ClientTyped
    BY <1>1, BoundAssumption DEF ClientTyped
  <2>2. PipesTyped
    BY <1>1 DEF PipesTyped
  <2>3. WorkerTyped
    BY <1>1, BoundAssumption DEF WorkerTyped, Bound
  <2> QED
    BY <2>1, <2>2, <2>3, <1>1 DEF Typed
<1>3. Counted /\ NeverCondemned
  BY <1>1, RequestAssumption DEF Counted, NeverCondemned
<1>4. Phased
  <2>1. Resting
    BY <1>1 DEF Resting, NoGenerate, Busy
  <2>2. Len(toWorker) = 0 /\ Len(joins) = 0 /\ Len(toClient) = 0
    BY <1>1
  <2> QED
    BY <2>1, <2>2, <1>1 DEF Phased
<1>5. Accounted
  BY <1>1, EmptyLine DEF Accounted
<1>6. Framed(toClient)
  BY <1>1 DEF Framed
<1>7. Kept
  BY <1>1, EmptyLine DEF Kept, Untouched, Silent
<1>8. Caused
  BY <1>1 DEF Caused, Heeded, IsCancel
<1>9. Worked /\ Engined
  BY <1>1 DEF Worked, Engined, InRun, Busy
<1>10. Seated
  <2>1. Open = {}
    BY <1>1, EmptyLine DEF Open
  <2> QED
    BY <2>1, FS_EmptySet, BoundAssumption DEF Seated
<1> QED
  BY <1>2, <1>3, <1>4, <1>5, <1>6, <1>7, <1>8, <1>9, <1>10 DEF IInv, Sane

\* A step that changes nothing keeps the invariant.
LEMMA StillSafe ==
  ASSUME IInv, UNCHANGED vars
  PROVE  IInv'
<1>1. UNCHANGED <<engine, faulted, cancelled, free, answer, got, client, batch, listed, initial, cancelSent,
                  toWorker, toClient, commands, joins, registered, flagged, pending, wpc,
                  wbatch, limit, allIds, report, skipped, joined, waiting, leftovers,
                  sent, stopped, finished, rotation, arriving, todo, made, done>>
  BY DEF vars, machine, clientVars, receiverVars, batchVars, streamVars, runVars
<1>2. Typed' /\ Counted' /\ NeverCondemned'
  BY <1>1 DEF IInv, Typed, ClientTyped, PipesTyped, WorkerTyped, Counted, NeverCondemned
<1>3. ASSUME client # "failed" PROVE Sane'
  <2>1. Typed /\ Sane /\ PipesTyped /\ WorkerTyped
    BY <1>3 DEF IInv, Typed
  <2>2. Flow
    BY <1>1, StillFlow
  <2>3. Framed(toClient)'
    BY <1>1, <2>1, StillFramed DEF Sane, PipesTyped
  <2>4. (\A r \in Requests : Ended(toClient, r)' <=> Ended(toClient, r)) /\ \A r \in Requests : Untouched(toClient, r) => Untouched(toClient, r)'
    BY <2>2 DEF Flow
  <2>5. Worked' /\ Engined'
    <3>1. UNCHANGED <<wpc, batchVars, streamVars, runVars, registered>>
      BY <1>1 DEF batchVars, streamVars, runVars
    <3>2. Worked /\ Engined /\ flagged \subseteq flagged' /\ flagged' \subseteq registered
      BY <2>1, <1>1 DEF Sane, Worked
    <3> QED
      BY <3>1, <3>2, <2>1, <2>2, WorkUndisturbed
  <2>6. Phased'
    <3>1. NoGenerate' <=> NoGenerate
      BY <1>1 DEF NoGenerate
    <3>2. \A g : AskedAt(g) => AskedAt(g)'
      BY <1>1 DEF AskedAt
    <3>3. Busy' = Busy /\ (Closed' <=> Closed) /\ Final' = Final /\ (Broken' <=> Broken)
      BY <1>1 DEF Busy, Closed, Final, Broken
    <3>4. Asked => Asked'
      BY <3>2, <3>3, <1>1 DEF Asked
    <3>5. Commanded => Commanded'
      BY <3>1, <3>3, <1>1 DEF Commanded
    <3>6. Working => Working'
      BY <3>1, <3>3, <1>1 DEF Working
    <3>7. Ending => Ending'
      <4>1. Final' = Final
        BY <3>3
      <4>2. \A r : Ended(toClient, r) => Ended(toClient, r)'
        BY <1>1 DEF Ended, EndIn, About
      <4> QED
        BY <4>1, <4>2, <3>1, <3>3, <1>1 DEF Ending
    <3>8. Resting => Resting'
      BY <3>1, <3>3, <1>1 DEF Resting
    <3> QED
      BY <3>4, <3>5, <3>6, <3>7, <3>8, <2>1, <1>1 DEF Sane, Phased
  <2>7. Accounted'
    <3>1. \A X : Share(X) => Share(X)'
      <4>1. SUFFICES ASSUME NEW X, Share(X) PROVE Share(X)'
        OBVIOUS
      <4>2. Split(X)' /\ (Broken' <=> Broken) /\ Taken' = Taken
        BY <4>1, <1>1 DEF Share, Split, Broken, Taken, Busy, Closed, Final
      <4>3. \A r \in Elements(listed') \ Elements(X) : Untouched(toClient, r)'
        BY <4>1, <1>1 DEF Share, Untouched, Silent, About
      <4> QED
        BY <4>1, <4>2, <4>3, <1>1 DEF Share
    <3> QED
      BY <3>1, <2>1, <1>1 DEF Sane, Accounted
  <2>8. Kept' /\ Caused' /\ Seated'
    <3>1. Kept'
      BY <2>1, <2>4, <1>1 DEF Sane, Kept, Typed, ClientTyped
    <3>2. Caused'
      BY <2>1, <1>1 DEF Sane, Caused, Heeded, IsCancel
    <3>3. Seated'
      BY <2>1, <1>1 DEF Sane, Seated, Dense, Open
    <3> QED
      BY <3>1, <3>2, <3>3
  <2> QED
    BY <2>3, <2>5, <2>6, <2>7, <2>8 DEF Sane
<1> QED
  BY <1>1, <1>2, <1>3 DEF IInv

\* Every step of the client, of the receiver and of the main thread keeps the invariant.
LEMMA StepSafe ==
  ASSUME IInv, Next
  PROVE  IInv'
<1>1. CASE Start
  BY <1>1, StartSafe
<1>2. CASE \E r \in Requests : Cancel(r)
  BY <1>2, CancelSafe
<1>3. CASE Client
  BY <1>3, PollSafe, ReadTokenSafe, ReadDoneSafe, ReadRejectedSafe, ReadBatchDoneSafe, ReadInvalidSafe DEF Client
<1>4. CASE Receiver
  BY <1>4, ReceiveCommandSafe, ReceiveJoinSafe, ReceiveCancelSafe DEF Receiver
<1>5. CASE Worker
  BY <1>5, TakeCommandSafe, NoRowsLeftSafe, CleanupSafe, RoundSafe, PrefillSafe, AdmitSafe, FormSafe, DecodeSafe,
     ReportSafe, EngineFaultSafe DEF Worker
<1> QED
  BY <1>1, <1>2, <1>3, <1>4, <1>5 DEF Next

\* The parts of the invariant hold at all times: the frames in the pipe are ones the
\* client will accept, and what it lists is what the worker took and what is on its way.
THEOREM ProtocolSafe == Spec => []IInv
<1>1. Init => IInv
  BY InitSafe
<1>2. IInv /\ [Next]_vars => IInv'
  BY StepSafe, StillSafe
<1> QED
  BY <1>1, <1>2, PTL DEF Spec

\* complete_batch() gives up (_mark_unusable) only a worker whose engine raised,
\* however joins, cancels and the end of a batch cross in the pipes.
THEOREM WorkerNotCondemned == Spec => []NeverCondemned
<1>1. IInv => NeverCondemned
  BY DEF IInv
<1> QED
  BY <1>1, ProtocolSafe, PTL

\* The client's, the receiver's and the main thread's state keep their types.
THEOREM ProtocolTyped == Spec => []TypeOK
<1>1. IInv => TypeOK
  <2>1. SUFFICES ASSUME IInv PROVE TypeOK
    OBVIOUS
  <2>2. Typed /\ Counted
    BY <2>1 DEF IInv
  <2>3. \A r \in Requests : made[r] \in 0..Output[r] /\ sent[r] \in 0..made[r]
    <3>1. made \in [Requests -> Nat] /\ sent \in [Requests -> Nat]
      BY <2>2 DEF Typed, WorkerTyped
    <3>2. \A r \in Requests : made[r] \in Nat /\ sent[r] \in Nat /\ Output[r] \in Nat
      BY <3>1, RequestAssumption
    <3> QED
      BY <3>2, <2>2 DEF Counted
  <2> QED
    BY <2>2, <2>3 DEF Typed, ClientTyped, WorkerTyped, Bound, TypeOK
<1> QED
  BY <1>1, ProtocolSafe, PTL

\* The joiners a poll lists enter the batch.
LEMMA JoinersEnter ==
  ASSUME Typed, Sane, NEW fresh, Fresh(fresh), NEW list, list = listed \o fresh
  PROVE  /\ Elements(fresh) \in SUBSET Requests /\ Promise!Enter(Elements(fresh))
         /\ Elements(list) = Elements(listed) \cup Elements(fresh)
         /\ \A r \in Elements(fresh) : answer[r] = "none" /\ r \notin Elements(listed)
<1>1. fresh \in Seq(Requests) /\ Elements(fresh) \subseteq free /\ free \subseteq Requests /\ listed \in Seq(Requests)
  BY DEF Fresh, Typed, ClientTyped
<1>2. \A r \in Elements(fresh) : r \notin Elements(listed) /\ answer[r] = "none" /\ got[r] = 0
  BY <1>1 DEF Sane, Kept, Untouched
<1>3. Promise!Enter(Elements(fresh))
  BY <1>2 DEF Promise!Enter, Open
<1>4. Elements(list) = Elements(listed) \cup Elements(fresh)
  BY <1>1, ConcatLine
<1> QED
  BY <1>1, <1>2, <1>3, <1>4

\* A poll that only lists joiners.
LEMMA JoinersListed ==
  ASSUME Typed, Sane, NEW fresh, Fresh(fresh), listed' = listed \o fresh, UNCHANGED <<answer, got, cancelled>>
  PROVE  [Promise!Next]_Promise!abstractVars
<1>1. PICK list : list = listed \o fresh
  OBVIOUS
<1>2. PICK S \in SUBSET Requests :
        /\ S = Elements(fresh) /\ Promise!Enter(S) /\ Elements(list) = Elements(listed) \cup S
        /\ \A r \in S : answer[r] = "none" /\ r \notin Elements(listed)
  BY <1>1, JoinersEnter
<1>3. Open' = Open \cup S
  BY <1>1, <1>2 DEF Open
<1>4. CASE S = {}
  BY <1>3, <1>4 DEF Promise!abstractVars
<1>5. CASE S # {}
  BY <1>2, <1>3, <1>5 DEF Promise!Next
<1> QED
  BY <1>4, <1>5

\* Start is the entry of its requests into the service.
LEMMA StartEnters ==
  ASSUME IInv, Start
  PROVE  Promise!Next
<1>1. Typed /\ Sane /\ client = "idle"
  BY DEF IInv, Start
<1>2. PICK rows \in Distinct(free \ cancelled, Capacity) : rows # <<>> /\ listed' = rows
  BY DEF Start
<1>3. UNCHANGED <<answer, got, cancelled>>
  BY DEF Start
<1>4. /\ rows \in Seq(Requests) /\ Elements(rows) \subseteq free \ cancelled /\ free \subseteq Requests
  <2>1. free \ cancelled \in SUBSET Requests /\ Capacity \in Nat
    BY <1>1, BoundAssumption DEF Typed, ClientTyped
  <2> QED
    BY <2>1, <1>1, <1>2, DistinctLine DEF Typed, ClientTyped
<1>5. PICK S \in SUBSET Requests : S = Elements(rows)
  BY <1>4
<1>6. S # {} /\ \A r \in S : answer[r] = "none" /\ got[r] = 0
  BY <1>1, <1>2, <1>4, <1>5, PlacesLine DEF Sane, Kept, Untouched
<1>7. Open = {}
  BY <1>1, EmptyLine DEF Sane, Phased, Resting, Open
<1>8. Open' = Open \cup S
  BY <1>2, <1>3, <1>5, <1>6, <1>7 DEF Open
<1>9. Promise!Enter(S)
  BY <1>6, <1>7 DEF Promise!Enter
<1> QED
  BY <1>3, <1>6, <1>8, <1>9 DEF Promise!Next

\* Cancel is the caller's cancel.
LEMMA CancelAsks ==
  ASSUME IInv, NEW r \in Requests, Cancel(r)
  PROVE  Promise!Next
<1>1. r \notin cancelled /\ cancelled' = cancelled \cup {r} /\ UNCHANGED <<listed, answer, got>>
  BY DEF Cancel
<1>2. Open' = Open
  BY <1>1 DEF Open
<1> QED
  BY <1>1, <1>2 DEF Promise!Next, Promise!Ask

\* Poll is the entry of the joiners it lists, or no step of the service.
LEMMA PollEnters ==
  ASSUME IInv, Poll
  PROVE  [Promise!Next]_Promise!abstractVars
<1>1. Typed /\ Sane /\ client = "running"
  BY DEF IInv, Poll
<1>2. PICK fresh : PollCancels(fresh) /\ listed' = listed \o fresh
  BY DEF Poll
<1>3. UNCHANGED <<answer, got, cancelled>>
  BY DEF Poll
<1>4. Fresh(fresh)
  BY <1>1, <1>2, PollLine DEF Poll, Polled
<1> QED
  BY <1>1, <1>2, <1>3, <1>4, JoinersListed

\* ReadToken is the delivery of the next token.
LEMMA TokenDelivers ==
  ASSUME IInv, ReadToken
  PROVE  Promise!Next
<1>1. Typed
  BY DEF IInv
<1>2. PICK fresh : /\ Reading("token", fresh)
                   /\ TokenValid(Head(toClient), listed \o fresh)
                   /\ got' = [got EXCEPT ![Head(toClient).id] = @ + 1]
                   /\ listed' = listed \o fresh
                   /\ UNCHANGED <<answer, client>>
  BY DEF ReadToken
<1>3. /\ client = "running" /\ toClient # <<>> /\ Polled(fresh)
      /\ Head(toClient) = toClient[1] /\ toClient[1].kind = "token" /\ toClient[1] \in Frame
  BY <1>1, <1>2, ReadingLine
<1>4. Sane /\ Fresh(fresh) /\ cancelled' = cancelled
  BY <1>3 DEF IInv, Polled
<1>5. PICK list : list = listed \o fresh
  OBVIOUS
<1>6. PICK S \in SUBSET Requests :
        /\ S = Elements(fresh) /\ Promise!Enter(S) /\ Elements(list) = Elements(listed) \cup S
        /\ \A r \in S : answer[r] = "none" /\ r \notin Elements(listed)
  BY <1>1, <1>4, <1>5, JoinersEnter
<1>7. Open' = Open \cup S
  BY <1>2, <1>5, <1>6 DEF Open
<1>8. PICK r \in Requests : r = toClient[1].id
  BY <1>3, FrameLine DEF RowKinds
<1>9. Acceptable(toClient, 1)
  <2>1. 1 \in 1..Len(toClient)
    BY <1>1, <1>3 DEF Typed, PipesTyped
  <2> QED
    BY <2>1, <1>3, <1>4 DEF Sane, Framed, RowKinds
<1>10. r \in Open
  BY <1>8, <1>9 DEF Acceptable, Open
<1>11. got[r] < Output[r]
  <2>1. got[r] \in Nat /\ Output[r] \in Nat
    BY <1>1, RequestAssumption DEF Typed, ClientTyped
  <2>2. got[r] + 1 <= Output[r]
    BY <1>2, <1>3, <1>8 DEF TokenValid
  <2> QED
    BY <2>1, <2>2
<1>12. Promise!Token(r)
  BY <1>2, <1>3, <1>8, <1>10, <1>11 DEF Promise!Token
<1> QED
  BY <1>2, <1>4, <1>6, <1>7, <1>12 DEF Promise!Next

\* The end of a request, by a done or a rejected frame.
LEMMA EndDelivers ==
  ASSUME Typed, Sane, NEW fresh, Fresh(fresh), listed' = listed \o fresh, UNCHANGED <<got, cancelled>>,
         toClient # <<>>, toClient[1] \in Frame, toClient[1].kind \in {"done", "rejected"},
         NEW how, how = IF toClient[1].kind = "done" THEN toClient[1].how ELSE "rejected",
         answer' = [answer EXCEPT ![toClient[1].id] = how]
  PROVE  Promise!Next
<1>1. PICK list : list = listed \o fresh
  OBVIOUS
<1>2. PICK S \in SUBSET Requests :
        /\ S = Elements(fresh) /\ Promise!Enter(S) /\ Elements(list) = Elements(listed) \cup S
        /\ \A r \in S : answer[r] = "none" /\ r \notin Elements(listed)
  BY <1>1, JoinersEnter
<1>3. PICK r \in Requests : r = toClient[1].id
  BY FrameLine DEF RowKinds
<1>4. Acceptable(toClient, 1)
  <2>1. 1 \in 1..Len(toClient)
    BY DEF Typed, PipesTyped
  <2> QED
    BY <2>1 DEF Sane, Framed, RowKinds
<1>5. r \in Open /\ r \in Elements(listed)
  BY <1>3, <1>4 DEF Acceptable, Open
<1>6. how \in {"stop", "cancelled", "rejected"}
  BY FrameLine
<1>7. \/ how = "stop" /\ got[r] = Output[r]
      \/ how = "cancelled" /\ r \in cancelled
      \/ how = "rejected" /\ got[r] = 0
  <2>1. \A n : Reached(toClient, r, n, 1) => got[r] = n
    BY DEF Reached
  <2>2. CASE toClient[1].kind = "done"
    <3>1. /\ \/ toClient[1].how = "stop" /\ toClient[1].n = Output[r]
             \/ toClient[1].how = "cancelled" /\ r \in cancelSent
          /\ Reached(toClient, r, toClient[1].n, 1)
      BY <2>2, <1>3, <1>4 DEF Acceptable
    <3>2. cancelSent \subseteq cancelled
      BY DEF Sane, Caused
    <3> QED
      BY <3>1, <3>2, <2>1, <2>2
  <2>3. CASE toClient[1].kind = "rejected"
    BY <2>1, <2>3, <1>3, <1>4 DEF Acceptable
  <2> QED
    BY <2>2, <2>3
<1>8. answer' = [answer EXCEPT ![r] = how] /\ answer \in [Requests -> {"none", "stop", "cancelled", "rejected"}]
  BY <1>3 DEF Typed, ClientTyped
<1>9. Open' = (Open \cup S) \ {r}
  <2>1. Elements(listed') = Elements(listed) \cup S /\ Elements(listed) \cup S \subseteq Requests
    <3>1. listed \in Seq(Requests)
      BY DEF Typed, ClientTyped
    <3> QED
      BY <3>1, <1>1, <1>2, PlacesLine
  <2>2. answer'[r] # "none" /\ \A s \in Requests \ {r} : answer'[s] = answer[s]
    BY <1>6, <1>8
  <2>3. Open' = {s \in Elements(listed) \cup S : answer'[s] = "none"}
    BY <2>1 DEF Open
  <2>4. Open \cup S = {s \in Elements(listed) \cup S : answer[s] = "none"}
    BY <1>2 DEF Open
  <2> QED
    BY <2>1, <2>2, <2>3, <2>4
<1>10. Promise!End(r, how)
  BY <1>5, <1>7, <1>8 DEF Promise!End
<1>11. how \in Promise!Answers \ {"none"}
  BY <1>6 DEF Promise!Answers
<1> QED
  BY <1>2, <1>9, <1>10, <1>11 DEF Promise!Next

\* ReadDone is the end of its request.
LEMMA DoneEnds ==
  ASSUME IInv, ReadDone
  PROVE  Promise!Next
<1>1. Typed
  BY DEF IInv
<1>2. PICK fresh : /\ Reading("done", fresh)
                   /\ answer' = [answer EXCEPT ![Head(toClient).id] = Head(toClient).how]
                   /\ listed' = listed \o fresh
                   /\ UNCHANGED <<got, client>>
  BY DEF ReadDone
<1>3. /\ client = "running" /\ toClient # <<>> /\ Polled(fresh)
      /\ Head(toClient) = toClient[1] /\ toClient[1].kind = "done" /\ toClient[1] \in Frame
  BY <1>1, <1>2, ReadingLine
<1>4. Sane /\ Fresh(fresh) /\ cancelled' = cancelled
  BY <1>3 DEF IInv, Polled
<1>5. PICK how : how = IF toClient[1].kind = "done" THEN toClient[1].how ELSE "rejected"
  OBVIOUS
<1>6. answer' = [answer EXCEPT ![toClient[1].id] = how]
  BY <1>2, <1>3, <1>5
<1> QED
  BY <1>1, <1>2, <1>3, <1>4, <1>5, <1>6, EndDelivers

\* ReadRejected is the rejection of a request that got nothing.
LEMMA RejectedEnds ==
  ASSUME IInv, ReadRejected
  PROVE  Promise!Next
<1>1. Typed
  BY DEF IInv
<1>2. PICK fresh : /\ Reading("rejected", fresh)
                   /\ answer' = [answer EXCEPT ![Head(toClient).id] = "rejected"]
                   /\ listed' = listed \o fresh
                   /\ UNCHANGED <<got, client>>
  BY DEF ReadRejected
<1>3. /\ client = "running" /\ toClient # <<>> /\ Polled(fresh)
      /\ Head(toClient) = toClient[1] /\ toClient[1].kind = "rejected" /\ toClient[1] \in Frame
  BY <1>1, <1>2, ReadingLine
<1>4. Sane /\ Fresh(fresh) /\ cancelled' = cancelled
  BY <1>3 DEF IInv, Polled
<1>5. PICK how : how = IF toClient[1].kind = "done" THEN toClient[1].how ELSE "rejected"
  OBVIOUS
<1>6. answer' = [answer EXCEPT ![toClient[1].id] = how]
  BY <1>2, <1>3, <1>5
<1> QED
  BY <1>1, <1>2, <1>3, <1>4, <1>5, <1>6, EndDelivers

\* ReadBatchDone is the end of a batch, with the hand-back of requests that got nothing.
LEMMA BatchDoneCloses ==
  ASSUME IInv, ReadBatchDone
  PROVE  Promise!Next
<1>1. Typed
  BY DEF IInv
<1>2. PICK fresh : /\ Reading("batch_done", fresh)
                   /\ BatchDoneValid(Head(toClient), listed \o fresh)
                   /\ listed' = <<>>
                   /\ UNCHANGED <<answer, got>>
  BY DEF ReadBatchDone
<1>3. Polled(fresh)
  BY <1>1, <1>2, ReadingLine
<1>4. client = "running" /\ cancelled' = cancelled
  BY <1>3 DEF Polled
<1>5. Sane /\ Fresh(fresh)
  BY <1>3, <1>4 DEF IInv, Polled
<1>6. PICK list : list = listed \o fresh
  OBVIOUS
<1>7. Elements(list) = Elements(listed) \cup Elements(fresh)
  BY <1>1, <1>5, <1>6, JoinersEnter
<1>8. {r \in Elements(list) : answer[r] # "none"} \cup Unserved(Head(toClient), list) = Elements(list)
  BY <1>2, <1>6 DEF BatchDoneValid
<1>9. \A r \in Unserved(Head(toClient), list) : got[r] = 0
  BY DEF Unserved
<1>10. \A r \in Open : got[r] = 0
  BY <1>7, <1>8, <1>9 DEF Open
<1>11. Open' = {}
  BY <1>2, EmptyLine DEF Open
<1>12. Promise!Close
  BY <1>2, <1>4, <1>10, <1>11 DEF Promise!Close
<1> QED
  BY <1>12 DEF Promise!Next

\* ReadInvalid is at most the entry of the joiners it lists.
LEMMA InvalidEnters ==
  ASSUME IInv, ReadInvalid
  PROVE  [Promise!Next]_Promise!abstractVars
<1>1. Typed
  BY DEF IInv
<1>2. PICK fresh : /\ Reading(Head(toClient).kind, fresh)
                   /\ listed' = listed \o fresh
                   /\ UNCHANGED <<answer, got>>
  BY DEF ReadInvalid
<1>3. Polled(fresh)
  BY <1>1, <1>2, ReadingLine
<1>4. Sane /\ Fresh(fresh) /\ cancelled' = cancelled
  BY <1>3 DEF IInv, Polled
<1> QED
  BY <1>1, <1>2, <1>4, JoinersListed

\* A step that touches no list, answer, count or cancel of the client is no step of the service.
LEMMA OthersStutter ==
  ASSUME UNCHANGED <<listed, answer, got, cancelled>>
  PROVE  [Promise!Next]_Promise!abstractVars
<1>1. Open' = Open
  BY DEF Open
<1> QED
  BY <1>1 DEF Promise!abstractVars

\* Every step is a step of the service or none.
LEMMA StepPromised ==
  ASSUME IInv, [Next]_vars
  PROVE  [Promise!Next]_Promise!abstractVars
<1>1. CASE Start
  BY <1>1, StartEnters
<1>2. CASE \E r \in Requests : Cancel(r)
  BY <1>2, CancelAsks
<1>3. CASE Client
  BY <1>3, PollEnters, TokenDelivers, DoneEnds, RejectedEnds, BatchDoneCloses, InvalidEnters DEF Client
<1>4. CASE Receiver
  <2>1. UNCHANGED clientVars
    BY <1>4 DEF Receiver, ReceiveCommand, ReceiveJoin, ReceiveCancel, Receive
  <2> QED
    BY <2>1, OthersStutter DEF clientVars
<1>5. CASE Worker
  <2>1. UNCHANGED clientVars
    BY <1>5 DEF Worker, TakeCommand, NoRowsLeft, Cleanup, Round, Prefill, Admit, Form, Decode, Report, EngineFault, EngineStep
  <2> QED
    BY <2>1, OthersStutter DEF clientVars
<1>6. CASE UNCHANGED vars
  BY <1>6, OthersStutter DEF vars, clientVars
<1> QED
  BY <1>1, <1>2, <1>3, <1>4, <1>5, <1>6 DEF Next

\* The service is at its start.
LEMMA InitPromised ==
  ASSUME Init
  PROVE  Promise!Init
<1>1. listed = <<>> /\ cancelled = {} /\ answer = [r \in Requests |-> "none"] /\ got = [r \in Requests |-> 0]
  BY DEF Init
<1>2. Open = {}
  BY <1>1, EmptyLine DEF Open
<1> QED
  BY <1>1, <1>2 DEF Promise!Init

\* The client with its worker is a GroupService: each request is answered once, in order and
\* in full, or handed back with nothing streamed.
THEOREM ServiceImplemented == Spec => Implements
<1>1. Init => Promise!Init
  BY InitPromised
<1>2. IInv /\ [Next]_vars => [Promise!Next]_Promise!abstractVars
  BY StepPromised
<1> QED
  BY <1>1, <1>2, ProtocolSafe, PTL DEF Spec, Implements, Promise!Spec

\* The rows of commands and of joins, those already registered, are apart.
LEMMA HeldApart ==
  ASSUME Typed, Sane, client = "running"
  PROVE  /\ InJoins \cap InCommands = {} /\ InJoins \cup InCommands \subseteq Requests
         /\ \A r \in InJoins \cup InCommands : r \notin registered
<1>1. PICK X \in Seq(Requests) : Share(X)
  BY DEF Sane, Accounted
<1>2. PICK C \in Seq(Requests) : C = Carried(commands, batch) /\ InCommands = Elements(C)
  BY TakenRows DEF Typed, InCommands
<1>3. PICK J \in Seq(Requests) : J = Carried(joins, batch) /\ InJoins = Elements(J)
  BY TakenRows DEF Typed, InJoins
<1>4. PICK W \in Seq(Requests) : W = Carried(toWorker, batch)
  BY TakenRows DEF Typed
<1>5. listed = ((X \o C) \o J) \o W
  BY <1>1, <1>2, <1>3, <1>4 DEF Share, Split
<1>6. PICK a : a = X \o C
  OBVIOUS
<1>7. PICK b : b = a \o J
  OBVIOUS
<1>8. /\ a \in Seq(Requests) /\ Elements(a) = Elements(X) \cup Elements(C)
      /\ (IsInjective(a) => Elements(X) \cap Elements(C) = {})
  BY <1>6, ConcatLine
<1>9. /\ b \in Seq(Requests) /\ Elements(b) = Elements(a) \cup Elements(J)
      /\ (IsInjective(b) => IsInjective(a) /\ Elements(a) \cap Elements(J) = {})
  BY <1>7, <1>8, ConcatLine
<1>10. Elements(b \o W) = Elements(b) \cup Elements(W) /\ (IsInjective(b \o W) => IsInjective(b))
  BY <1>9, ConcatLine
<1>11. IsInjective(b) /\ Elements(b) \subseteq Elements(listed)
  <2>1. listed = b \o W /\ IsInjective(listed)
    BY <1>5, <1>6, <1>7 DEF Sane, Accounted
  <2> QED
    BY <2>1, <1>10
<1>12. /\ Elements(C) \cap Elements(J) = {} /\ Elements(C) \cap Elements(X) = {} /\ Elements(J) \cap Elements(X) = {}
       /\ Elements(C) \subseteq Elements(listed) /\ Elements(J) \subseteq Elements(listed)
  BY <1>8, <1>9, <1>11
<1>13. \A r \in Elements(C) \cup Elements(J) : answer[r] = "none" /\ r \notin Elements(X)
  BY <1>1, <1>12 DEF Share, Untouched
<1>14. \A r \in Elements(C) \cup Elements(J) : r \notin registered
  BY <1>1, <1>13 DEF Share
<1>15. Elements(C) \subseteq Requests /\ Elements(J) \subseteq Requests
  BY PlacesLine
<1> QED
  BY <1>2, <1>3, <1>12, <1>14, <1>15

\* A poll leaves each cancel behind the rows it is about, and on its way.
LEMMA PollKeeps ==
  ASSUME IInv, Trailing, NEW fresh, Polled(fresh)
  PROVE  Trailing' /\ HoldsCancels
<1>1. client = "running" /\ Typed /\ Sane
  BY DEF IInv, Polled
<1>2. /\ Len(toWorker') = Len(toWorker) + Len(Sent(fresh)) /\ Len(toWorker) \in Nat
      /\ \A i \in 1..Len(toWorker) : toWorker'[i] = toWorker[i]
      /\ \A i \in 1..Len(toWorker') : i \notin 1..Len(toWorker) =>
           \/ toWorker'[i].kind = "cancel" /\ toWorker'[i].id \in Due \cap Elements(listed)
           \/ toWorker'[i].kind = "join" /\ toWorker'[i].batch = batch /\ toWorker'[i].rows = fresh
      /\ \A r \in Due \cap Elements(listed) :
           \E i \in 1..Len(toWorker') : i \notin 1..Len(toWorker) /\ toWorker'[i].kind = "cancel" /\ toWorker'[i].id = r
      /\ fresh \in Seq(Requests)
  BY <1>1, PolledPipe
<1>3. PICK n \in Nat : n = Len(toWorker)
  BY <1>2
<1>4. PICK m \in Nat : m = Len(toWorker') /\ n <= m
  <2>1. Sent(fresh) \in Seq(Message)
    BY <1>1, <1>2, BoundAssumption, SentLine DEF Typed
  <2> QED
    BY <2>1, <1>2, <1>3
<1>5. /\ cancelSent' = cancelSent \cup (Due \cap Elements(listed))
      /\ UNCHANGED <<batch, commands, joins, registered, flagged, pending>>
  BY DEF Polled, receiverVars
<1>6. cancelSent' \subseteq cancelled /\ Elements(fresh) \cap cancelled = {}
  BY <1>1, <1>5 DEF Sane, Caused, Due, Polled, Fresh
<1>7. \A r \in Due \cap Elements(listed) : \E j \in n + 1..m : IsCancel(j, r)'
  <2>1. \A j \in 1..m : j \notin 1..n => j \in n + 1..m
    BY <1>4
  <2> QED
    BY <2>1, <1>2, <1>3, <1>4 DEF IsCancel
<1>8. Trailing'
  <2>1. SUFFICES ASSUME NEW r \in cancelSent', NEW i \in 1..m, r \in Elements(Load(toWorker'[i], batch))
                 PROVE  \E j \in i..m : IsCancel(j, r)'
    BY <1>4, <1>5 DEF Trailing
  <2>2. CASE i \in 1..n
    <3>1. toWorker'[i] = toWorker[i]
      BY <2>2, <1>2, <1>3
    <3>2. CASE r \in cancelSent
      <4>1. PICK j \in i..n : IsCancel(j, r)
        BY <2>1, <2>2, <3>1, <3>2, <1>1, <1>3 DEF Trailing
      <4>2. j \in 1..n /\ j \in i..m
        BY <4>1, <2>2, <1>4
      <4>3. IsCancel(j, r)'
        BY <4>1, <4>2, <1>2, <1>3 DEF IsCancel
      <4> QED
        BY <4>2, <4>3
    <3>3. CASE r \in Due \cap Elements(listed)
      <4>1. PICK j \in n + 1..m : IsCancel(j, r)'
        BY <3>3, <1>7
      <4>2. j \in i..m
        BY <4>1, <2>2, <1>4
      <4> QED
        BY <4>1, <4>2
    <3> QED
      BY <3>2, <3>3, <1>5
  <2>3. CASE i \notin 1..n
    <3>1. \/ toWorker'[i].kind = "cancel"
          \/ toWorker'[i].kind = "join" /\ toWorker'[i].batch = batch /\ toWorker'[i].rows = fresh
      BY <2>3, <1>2, <1>3, <1>4
    <3>2. toWorker'[i].kind # "cancel"
      BY <2>1, EmptyLine DEF Load
    <3>3. r \in Elements(fresh)
      BY <2>1, <3>1, <3>2 DEF Load
    <3> QED
      BY <3>3, <1>6
  <2> QED
    BY <2>2, <2>3
<1>9. DOMAIN toWorker' = 1..m /\ DOMAIN toWorker = 1..n
  <2>1. toWorker \in Seq(Message) /\ toWorker' \in Seq(Message)
    BY <1>1, PolledPipe DEF Typed, PipesTyped
  <2> QED
    BY <2>1, <1>3, <1>4
<1>10. ASSUME NEW r \in cancelSent', r \in cancelSent => Held(r) PROVE Held(r)'
  <2>1. CASE r \in Due \cap Elements(listed)
    <3>1. PICK j \in n + 1..m : IsCancel(j, r)'
      BY <2>1, <1>7
    <3>2. j \in 1..m
      BY <3>1, <1>3, <1>4
    <3> QED
      BY <3>1, <3>2, <1>9 DEF IsCancel, Held, Sending
  <2>2. CASE r \in cancelSent /\ Sending(r)
    <3>1. PICK j \in 1..n : toWorker[j].kind = "cancel" /\ toWorker[j].id = r
      BY <2>2, <1>9 DEF Sending
    <3>2. j \in 1..m /\ toWorker'[j] = toWorker[j]
      BY <3>1, <1>2, <1>3, <1>4
    <3> QED
      BY <3>1, <3>2, <1>9 DEF Held, Sending
  <2>3. CASE Received(r)
    <3>1. Received(r)'
      BY <2>3, <1>5 DEF Received, InJoins, InCommands
    <3> QED
      BY <3>1 DEF Held
  <2> QED
    BY <2>1, <2>2, <2>3, <1>5, <1>10 DEF Held
<1> QED
  BY <1>8, <1>10 DEF HoldsCancels

\* The receiver takes a message off the pipe; what it leaves keeps its order.
LEMMA TakenOff ==
  ASSUME IInv, Trailing, client = "running", toWorker # <<>>, toWorker' = Tail(toWorker),
         UNCHANGED <<client, cancelSent, batch>>
  PROVE  /\ Trailing' /\ Head(toWorker) \in Message
         /\ \A r : Sending(r) => Sending(r)' \/ (Head(toWorker).kind = "cancel" /\ Head(toWorker).id = r)
         /\ \A r \in cancelSent : r \in Elements(Load(Head(toWorker), batch)) => Sending(r)'
<1>1. toWorker \in Seq(Message)
  BY DEF IInv, Typed, PipesTyped
<1>2. PICK n \in Nat : n = Len(toWorker) /\ n >= 1
  BY <1>1, TailPlaces
<1>3. /\ toWorker' \in Seq(Message) /\ Len(toWorker') = n - 1
      /\ Head(toWorker) = toWorker[1] /\ toWorker[1] \in Message
      /\ \A i \in 1..n - 1 : i + 1 \in 1..n /\ toWorker'[i] = toWorker[i + 1]
      /\ \A i \in 2..n : i - 1 \in 1..n - 1 /\ toWorker'[i - 1] = toWorker[i]
  BY <1>1, <1>2, TailPlaces
<1>4. DOMAIN toWorker = 1..n /\ DOMAIN toWorker' = 1..n - 1
  BY <1>1, <1>2, <1>3
<1>5. Trailing'
  <2>1. SUFFICES ASSUME NEW r \in cancelSent, NEW i \in 1..n - 1, r \in Elements(Load(toWorker'[i], batch))
                 PROVE  \E j \in i..n - 1 : IsCancel(j, r)'
    BY <1>3 DEF Trailing
  <2>2. r \in Elements(Load(toWorker[i + 1], batch)) /\ i + 1 \in 1..n
    BY <2>1, <1>3
  <2>3. PICK j \in i + 1..n : IsCancel(j, r)
    BY <2>2, <1>2 DEF Trailing
  <2>4. j \in 2..n /\ j - 1 \in i..n - 1
    BY <2>3, <1>2
  <2>5. IsCancel(j - 1, r)'
    BY <2>3, <2>4, <1>3 DEF IsCancel
  <2> QED
    BY <2>4, <2>5
<1>6. \A r, j : j \in 2..n /\ toWorker[j].kind = "cancel" /\ toWorker[j].id = r => Sending(r)'
  BY <1>3, <1>4 DEF Sending
<1>7. ASSUME NEW r, Sending(r) PROVE Sending(r)' \/ (Head(toWorker).kind = "cancel" /\ Head(toWorker).id = r)
  <2>1. PICK j \in 1..n : toWorker[j].kind = "cancel" /\ toWorker[j].id = r
    BY <1>4, <1>7 DEF Sending
  <2>2. j = 1 \/ j \in 2..n
    BY <2>1, <1>2
  <2> QED
    BY <2>1, <2>2, <1>3, <1>6
<1>8. ASSUME NEW r \in cancelSent, r \in Elements(Load(Head(toWorker), batch)) PROVE Sending(r)'
  <2>1. 1 \in 1..n /\ r \in Elements(Load(toWorker[1], batch))
    BY <1>2, <1>3, <1>8
  <2>2. PICK j \in 1..n : IsCancel(j, r)
    BY <2>1, <1>2 DEF Trailing
  <2>3. toWorker[1].kind # "cancel"
    BY <2>1, EmptyLine DEF Load
  <2>4. j # 1
    BY <2>2, <2>3 DEF IsCancel
  <2>5. j \in 2..n
    BY <2>2, <2>4
  <2> QED
    BY <2>2, <2>5, <1>6 DEF IsCancel
<1> QED
  BY <1>3, <1>5, <1>7, <1>8

\* The rows of the messages a list gains.
LEMMA HeldAppend ==
  ASSUME NEW s \in Seq(Message), NEW m \in Message, NEW b, NEW t, t = Append(s, m)
  PROVE  Elements(Carried(t, b)) \subseteq Elements(Carried(s, b)) \cup Elements(Load(m, b))
<1>1. /\ t \in Seq(Message) /\ Len(t) = Len(s) + 1 /\ Len(s) \in Nat
      /\ \A i \in 1..Len(t) : (i \in 1..Len(s) /\ t[i] = s[i]) \/ t[i] = m
  OBVIOUS
<1>2. \A r : r \in Elements(Carried(t, b)) <=> \E i \in 1..Len(t) : r \in Elements(Load(t[i], b))
  BY <1>1, CarriedElements
<1>3. \A r : r \in Elements(Carried(s, b)) <=> \E i \in 1..Len(s) : r \in Elements(Load(s[i], b))
  BY CarriedElements
<1> QED
  BY <1>1, <1>2, <1>3

\* The receiver keeps every cancel, but one that comes early when its set is full.
LEMMA ReceiveKeeps ==
  ASSUME IInv, Trailing, client = "running", Receiver
  PROVE  Trailing' /\ HoldsCancels
<1>1. Typed /\ Sane /\ PipesTyped
  BY DEF IInv, Typed
<1>2. /\ toWorker # <<>> /\ toWorker' = Tail(toWorker)
      /\ UNCHANGED <<client, cancelSent, batch, listed, answer, registered>>
  BY DEF Receiver, ReceiveCommand, ReceiveJoin, ReceiveCancel, Receive, clientVars
<1>3. /\ Trailing' /\ Head(toWorker) \in Message
      /\ \A r : Sending(r) => Sending(r)' \/ (Head(toWorker).kind = "cancel" /\ Head(toWorker).id = r)
      /\ \A r \in cancelSent : r \in Elements(Load(Head(toWorker), batch)) => Sending(r)'
  BY <1>2, TakenOff
<1>4. /\ commands \in Seq(Message) /\ joins \in Seq(Message)
      /\ InJoins = Elements(Carried(joins, batch)) /\ InCommands = Elements(Carried(commands, batch))
  BY <1>1, MessagesLine, TakenRows DEF PipesTyped, InJoins, InCommands
<1>5. SUFFICES ASSUME NEW r \in cancelSent, Held(r) PROVE Held(r)' \/ NoRoomFor(r)
  BY <1>2, <1>3 DEF HoldsCancels
<1>6. CASE ReceiveCommand \/ ReceiveJoin
  <2>1. /\ Head(toWorker).kind # "cancel" /\ UNCHANGED <<flagged, pending>>
        /\ \/ commands' = Append(commands, Head(toWorker)) /\ joins' = joins
           \/ joins' = Append(joins, Head(toWorker)) /\ commands' = commands
    BY <1>6 DEF ReceiveCommand, ReceiveJoin, Receive
  <2>2. PICK m \in Message : m = Head(toWorker)
    BY <1>3
  <2>3. PipesTyped'
    BY <1>6, ReceiveCommandSafe, ReceiveJoinSafe DEF IInv, Typed
  <2>4. /\ InJoins' = Elements(Carried(joins', batch)) /\ InCommands' = Elements(Carried(commands', batch))
    <3>1. \A s : (s \in Seq(Command) \/ s \in Seq(Joining)) => RowsOf(s, batch) = Carried(s, batch)
      BY MessagesLine, CarriedRows
    <3>2. commands' \in Seq(Command) /\ joins' \in Seq(Joining)
      BY <2>3 DEF PipesTyped
    <3> QED
      BY <3>1, <3>2, <1>2 DEF InJoins, InCommands
  <2>5. InJoins' \cup InCommands' \subseteq InJoins \cup InCommands \cup Elements(Load(m, batch))
    <3>1. CASE commands' = Append(commands, m) /\ joins' = joins
      <4>1. Elements(Carried(commands', batch)) \subseteq Elements(Carried(commands, batch)) \cup Elements(Load(m, batch))
        BY <3>1, <1>4, HeldAppend
      <4> QED
        BY <3>1, <4>1, <2>4, <1>4
    <3>2. CASE joins' = Append(joins, m) /\ commands' = commands
      <4>1. Elements(Carried(joins', batch)) \subseteq Elements(Carried(joins, batch)) \cup Elements(Load(m, batch))
        BY <3>2, <1>4, HeldAppend
      <4> QED
        BY <3>2, <4>1, <2>4, <1>4
    <3> QED
      BY <3>1, <3>2, <2>1, <2>2
  <2>6. CASE Sending(r) \/ r \in Elements(Load(m, batch))
    BY <2>1, <2>2, <2>6, <1>3, <1>5 DEF Held
  <2>7. CASE Received(r) /\ r \notin Elements(Load(m, batch))
    <3>1. Received(r)'
      BY <2>1, <2>5, <2>7, <1>2 DEF Received
    <3> QED
      BY <3>1 DEF Held
  <2> QED
    BY <2>6, <2>7, <1>5 DEF Held
<1>7. CASE ReceiveCancel
  <2>1. PICK x : x = Head(toWorker).id
    OBVIOUS
  <2>2. /\ Head(toWorker).kind = "cancel" /\ UNCHANGED <<commands, joins>>
        /\ x \in registered => flagged' = flagged \cup {x} /\ pending' = pending
        /\ x \notin registered =>
             /\ flagged' = flagged
             /\ pending' = IF Cardinality(pending) < PendingCap THEN pending \cup {x} ELSE pending
    BY <2>1, <1>7 DEF ReceiveCancel, Receive
  <2>3. InJoins' = InJoins /\ InCommands' = InCommands
    BY <2>2, <1>2 DEF InJoins, InCommands
  <2>4. flagged \subseteq flagged' /\ pending \subseteq pending' /\ (x \in registered => x \in flagged')
    BY <2>2
  <2>5. CASE Received(r)
    <3>1. Received(r)'
      BY <2>3, <2>4, <2>5, <1>2 DEF Received
    <3> QED
      BY <3>1 DEF Held
  <2>6. CASE Sending(r) /\ r # x
    BY <2>1, <2>6, <1>3 DEF Held
  <2>7. CASE r = x /\ x \in registered
    <3>1. \A q \in InJoins \cup InCommands : q \notin registered
      BY <1>1, HeldApart
    <3>2. Received(r)'
      BY <3>1, <2>3, <2>4, <2>7, <1>2 DEF Received
    <3> QED
      BY <3>2 DEF Held
  <2>8. CASE r = x /\ x \notin registered /\ Cardinality(pending) < PendingCap
    <3>1. x \in pending' /\ r \notin registered'
      BY <2>2, <2>8, <1>2
    <3>2. Received(r)'
      BY <3>1, <2>8 DEF Received
    <3> QED
      BY <3>2 DEF Held
  <2>9. CASE r = x /\ x \notin registered /\ ~(Cardinality(pending) < PendingCap)
    BY <2>1, <2>9, <1>7 DEF NoRoomFor
  <2> QED
    BY <2>5, <2>6, <2>7, <2>8, <2>9, <1>5 DEF Held
<1> QED
  BY <1>6, <1>7 DEF Receiver

\* The main thread takes the cancels of the rows it registers.
LEMMA RegisterKeeps ==
  ASSUME IInv, Trailing, client = "running", UNCHANGED <<client, batch, cancelSent, toWorker>>,
         NEW rows, Register(rows), Elements(rows) \subseteq InJoins \cup InCommands,
         InJoins' \cup InCommands' \subseteq (InJoins \cup InCommands) \ Elements(rows)
  PROVE  Trailing' /\ HoldsCancels
<1>1. /\ registered' = registered \cup Elements(rows)
      /\ flagged' = flagged \cup (pending \cap Elements(rows))
      /\ pending' = pending \ Elements(rows)
  BY DEF Register
<1>2. Trailing'
  BY DEF Trailing, IsCancel
<1>3. ASSUME NEW r \in cancelSent, Held(r) PROVE Held(r)'
  <2>1. CASE Sending(r)
    BY <2>1 DEF Held, Sending
  <2>2. CASE Received(r)
    <3>1. Received(r)'
      BY <2>2, <1>1 DEF Received
    <3> QED
      BY <3>1 DEF Held
  <2> QED
    BY <2>1, <2>2, <1>3 DEF Held
<1> QED
  BY <1>2, <1>3 DEF HoldsCancels

\* What a step of the main thread leaves alone otherwise.
LEMMA WorkKeeps ==
  ASSUME Trailing, UNCHANGED <<client, batch, cancelSent, toWorker, commands, joins, registered, flagged, pending>>
  PROVE  Trailing' /\ HoldsCancels
<1>1. Trailing'
  BY DEF Trailing, IsCancel
<1>2. \A r : Held(r)' <=> Held(r)
  BY DEF Held, Sending, Received, InJoins, InCommands
<1> QED
  BY <1>1, <1>2 DEF HoldsCancels

\* An empty pipe holds no rows.
LEMMA NoRowsIn ==
  ASSUME NEW b
  PROVE  RowsOf(<<>>, b) = <<>>
<1>1. PICK s \in Seq(Message) : s = <<>> /\ Len(s) = 0
  <2>1. <<>> \in Seq(Message) /\ Len(<<>>) = 0
    OBVIOUS
  <2> QED
    BY <2>1
<1>2. \A i \in 1..Len(s) : s[i].kind # "cancel"
  BY <1>1
<1>3. RowsOf(s, b) = Carried(s, b)
  BY ONLY <1>1, <1>2, CarriedRows
<1>4. Carried(<<>>, b) = <<>>
  BY CarriedEmpty
<1> QED
  BY ONLY <1>1, <1>3, <1>4

\* The main thread takes the cancels of the rows of a command.
LEMMA TakeCommandKeeps ==
  ASSUME IInv, Trailing, client = "running", TakeCommand
  PROVE  Trailing' /\ HoldsCancels
<1>1. PICK c : c = Head(commands)
  OBVIOUS
<1>2. PICK fit : fit = Fitting(c.rows, engine.limit)
  OBVIOUS
<1>3. /\ wpc = "wait" /\ commands # <<>> /\ Register(fit) /\ commands' = Tail(commands)
      /\ UNCHANGED <<client, batch, cancelSent, toWorker, joins>>
  BY <1>1, <1>2 DEF TakeCommand, At, clientVars
<1>4. Typed /\ Sane /\ PipesTyped
  BY DEF IInv, Typed
<1>5. Commanded
  BY <1>3, <1>4 DEF Sane, Phased, Asked, Working, Ending
<1>6. /\ c \in Command /\ c = commands[1] /\ commands' = <<>> /\ c.batch = batch /\ c.kind # "cancel"
      /\ c.rows \in Seq(Requests) /\ 1 \in 1..Len(commands)
  <2>1. commands \in Seq(Command) /\ Len(commands) = 1 /\ commands[1].batch = batch
    BY <1>4, <1>5 DEF PipesTyped, Commanded
  <2>2. commands[1] \in Command /\ Head(commands) = commands[1] /\ Len(Tail(commands)) = 0
    BY <2>1
  <2>3. PICK t \in Seq(Command) : t = Tail(commands)
    <3>1. commands # <<>>
      BY <1>3
    <3>2. Tail(commands) \in Seq(Command)
      BY <2>1, <3>1, TailLine
    <3> QED
      BY <3>2
  <2>4. Len(t) = 0
    BY ONLY <2>2, <2>3
  <2>5. t = <<>>
    BY ONLY <2>3, <2>4, EmptySeq
  <2> QED
    BY <2>1, <2>2, <2>3, <2>5, <1>1, <1>3 DEF Command
<1>7. Elements(c.rows) \subseteq InCommands
  <2>1. commands \in Seq(Message) /\ InCommands = Elements(Carried(commands, batch))
    BY <1>4, MessagesLine, TakenRows DEF PipesTyped, InCommands
  <2>2. \A r : r \in Elements(Carried(commands, batch)) <=> \E i \in 1..Len(commands) : r \in Elements(Load(commands[i], batch))
    BY <2>1, CarriedElements
  <2>3. Load(commands[1], batch) = c.rows
    BY <1>6 DEF Load
  <2> QED
    BY <2>1, <2>2, <2>3, <1>6
<1>8. Elements(fit) \subseteq Elements(c.rows)
  BY <1>2, <1>6, FitLine
<1>9. InJoins \cap InCommands = {}
  BY <1>4, HeldApart
<1>10. InJoins' = InJoins /\ InCommands' = {}
  <2>1. RowsOf(commands', batch') = <<>>
    <3>1. RowsOf(<<>>, batch) = <<>>
      BY NoRowsIn
    <3> QED
      BY <3>1, <1>3, <1>6
  <2> QED
    BY <2>1, <1>3, EmptyLine DEF InJoins, InCommands
<1> QED
  BY <1>3, <1>7, <1>8, <1>9, <1>10, RegisterKeeps

\* The main thread takes the cancels of the joiners it drains.
LEMMA JoinersKeep ==
  ASSUME IInv, Trailing, client = "running", Admit \/ Report
  PROVE  Trailing' /\ HoldsCancels
<1>1. /\ Busy /\ joins' = <<>>
      /\ UNCHANGED <<client, batch, cancelSent, toWorker, commands>>
  BY DEF Admit, Report, At, Busy, clientVars
<1>2. /\ Arrived \in Seq(Requests) /\ ~Duplicate /\ wbatch = batch /\ commands = <<>>
  BY <1>1, AtWork
<1>3. PICK bound : Register(Fitting(Arrived, bound))
  BY <1>2 DEF Admit, Report
<1>4. PICK fit : fit = Fitting(Arrived, bound)
  OBVIOUS
<1>5. Elements(fit) \subseteq InJoins
  <2>1. Elements(fit) \subseteq Elements(Arrived)
    BY <1>2, <1>4, FitLine
  <2> QED
    BY <2>1, <1>2 DEF Arrived, InJoins
<1>6. InJoins' = {} /\ InCommands' = {}
  <2>1. RowsOf(<<>>, batch) = <<>>
    BY NoRowsIn
  <2>2. joins' = <<>> /\ commands' = <<>> /\ batch' = batch
    BY <1>1, <1>2
  <2> QED
    BY <2>1, <2>2, EmptyLine DEF InJoins, InCommands
<1> QED
  BY <1>1, <1>3, <1>4, <1>5, <1>6, RegisterKeeps

\* The end of a batch (finally:) drops the registered events, and no cancel on its way.
LEMMA CleanupKeeps ==
  ASSUME Trailing, Cleanup
  PROVE  Trailing' /\ HoldsCancels
<1>1. registered' = {} /\ UNCHANGED <<client, batch, cancelSent, toWorker, commands, joins, pending>>
  BY DEF Cleanup, clientVars
<1>2. Trailing'
  BY <1>1 DEF Trailing, IsCancel
<1>3. \A r : Held(r) => Held(r)'
  BY <1>1 DEF Held, Sending, Received, InJoins, InCommands
<1> QED
  BY <1>1, <1>2, <1>3 DEF HoldsCancels

\* Every step keeps every cancel, but for one there is no room for.
LEMMA StepKeeps ==
  ASSUME IInv, Trailing, [Next]_vars
  PROVE  Trailing' /\ HoldsCancels
<1>1. CASE client' # "running"
  BY <1>1 DEF Trailing, HoldsCancels
<1>2. CASE client' = "running"
  <2>1. CASE Start
    <3>1. cancelSent' = {}
      BY <2>1 DEF Start
    <3> QED
      BY <3>1 DEF Trailing, HoldsCancels
  <2>2. CASE \E r \in Requests : Cancel(r)
    <3>1. UNCHANGED <<client, batch, cancelSent, toWorker, commands, joins, registered, flagged, pending>>
      BY <2>2 DEF Cancel, receiverVars
    <3> QED
      BY <3>1, WorkKeeps
  <2>3. CASE Client
    <3>1. Typed /\ client = "running"
      BY <2>3 DEF IInv, Client, Poll, ReadToken, ReadDone, ReadRejected, ReadBatchDone, ReadInvalid, Reading
    <3>2. CASE Poll
      <4>1. PICK fresh : PollCancels(fresh) /\ UNCHANGED <<machine, cancelled, batch, initial, receiverVars, wpc, batchVars, streamVars, runVars>>
        BY <3>2 DEF Poll
      <4>2. Polled(fresh)
        BY <3>1, <4>1, PollLine DEF Polled
      <4> QED
        BY <4>2, PollKeeps
    <3>3. CASE ReadToken \/ ReadDone \/ ReadRejected
      <4>1. PICK fresh, kind : Reading(kind, fresh)
        BY <3>3 DEF ReadToken, ReadDone, ReadRejected
      <4>2. Polled(fresh)
        BY <3>1, <4>1, ReadingLine
      <4> QED
        BY <4>2, PollKeeps
    <3>4. CASE ReadBatchDone \/ ReadInvalid
      BY <1>2, <3>4 DEF ReadBatchDone, ReadInvalid
    <3> QED
      BY <2>3, <3>2, <3>3, <3>4 DEF Client
  <2>4. CASE Receiver
    <3>1. client = "running"
      BY <1>2, <2>4 DEF Receiver, ReceiveCommand, ReceiveJoin, ReceiveCancel, Receive, clientVars
    <3> QED
      BY <2>4, <3>1, ReceiveKeeps
  <2>5. CASE Worker
    <3>1. client = "running"
      BY <1>2, <2>5 DEF Worker, TakeCommand, NoRowsLeft, Cleanup, Round, Prefill, Admit, Form, Decode, Report,
                        EngineFault, EngineStep, clientVars
    <3>2. CASE NoRowsLeft \/ Round \/ Prefill \/ Form \/ Decode \/ EngineFault
      <4>1. UNCHANGED <<client, batch, cancelSent, toWorker, commands, joins, registered, flagged, pending>>
        BY <3>2 DEF NoRowsLeft, Round, Prefill, Form, Decode, EngineFault, EngineStep, clientVars, receiverVars
      <4> QED
        BY <4>1, WorkKeeps
    <3> QED
      BY <2>5, <3>1, <3>2, TakeCommandKeeps, JoinersKeep, CleanupKeeps DEF Worker
  <2>6. CASE UNCHANGED vars
    <3>1. UNCHANGED <<client, batch, cancelSent, toWorker, commands, joins, registered, flagged, pending>>
      BY <2>6 DEF vars, clientVars, receiverVars
    <3> QED
      BY <3>1, WorkKeeps
  <2> QED
    BY <2>1, <2>2, <2>3, <2>4, <2>5, <2>6 DEF Next
<1> QED
  BY <1>1, <1>2

\* A cancel the client sent for a request that is underway stays on its way, set or kept,
\* whatever crosses it between the pipes and the worker's threads.  The one step that loses it
\* is the receiver's, when the cancel comes before its request is registered and the set of
\* early cancels is full.
THEOREM CancelsKept == Spec => CancelKept
<1>1. Init => Trailing
  BY DEF Init, Trailing
<1>2. IInv /\ Trailing /\ [Next]_vars => Trailing' /\ [HoldsCancels]_vars
  BY StepKeeps
<1> QED
  BY <1>1, <1>2, ProtocolSafe, PTL DEF Spec, CancelKept
=============================================================================
