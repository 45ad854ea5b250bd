------------------------------ MODULE Induction ------------------------------
(***************************************************************************)
(* Induction on the naturals with sets in the place of predicates, what    *)
(* the proofs of the components take from it (greatest elements of bounded *)
(* sets of numbers), and facts on sequences whatever their elements and on *)
(* the elements at chosen positions.                                       *)
(***************************************************************************)
EXTENDS Integers, Sequences, SequencesExt, Positions, FiniteSetTheorems,
        WellFoundedInduction, TLAPS

(* A non-empty set of naturals has a least element.                         *)
LEMMA LeastNumber ==
    ASSUME NEW T, T \subseteq Nat, T # {}
    PROVE  \E m \in T : \A n \in T : m <= n
  <1> DEFINE R == OpToRel(<, Nat)
  <1>1. IsWellFoundedOn(R, Nat)
    BY NatLessThanWellFounded
  <1>2. PICK m \in T : \A n \in T : ~(<<n, m>> \in R)
    <2> HIDE DEF R
    <2> QED BY <1>1, WFMin
  <1>3. \A n \in T : <<n, m>> \in R <=> n < m
    BY DEF OpToRel
  <1> HIDE DEF R
  <1>4. \A n \in T : ~(n < m)
    BY <1>2, <1>3
  <1> QED BY <1>4

(* Induction up to N: a set with 0 and, below N, with the successor of each *)
(* of its elements contains 0..N.                                           *)
LEMMA UpTo ==
    ASSUME NEW N \in Nat, NEW S, 0 \in S,
           \A n \in 0..(N - 1) : n \in S => n + 1 \in S
    PROVE  \A n \in 0..N : n \in S
  <1> DEFINE T == {n \in 0..N : n \notin S}
  <1>1. SUFFICES ASSUME T # {} PROVE FALSE
    OBVIOUS
  <1>2. T \subseteq Nat
    OBVIOUS
  <1>3. PICK m \in T : \A n \in T : m <= n
    <2> HIDE DEF T
    <2> QED BY <1>1, <1>2, LeastNumber
  <1>4. m \in 0..N /\ m \notin S
    BY <1>3
  <1>5. m # 0
    BY <1>4
  <1>6. m - 1 \in 0..(N - 1) /\ m - 1 \in 0..N
    BY <1>4, <1>5
  <1>7. m - 1 \notin T
    BY <1>3, <1>4, <1>6
  <1>8. m - 1 \in S
    BY <1>6, <1>7
  <1>9. (m - 1) + 1 \in S
    BY <1>6, <1>8
  <1> QED BY <1>4, <1>9

(* A non-empty set of naturals with an upper bound has a greatest element.  *)
LEMMA GreatestNumber ==
    ASSUME NEW b \in Nat, NEW S, S \subseteq 0..b, S # {}
    PROVE  \E m \in S : \A n \in S : n <= m
  <1> DEFINE T == {n \in 0..b : b - n \in S}
  <1>1. T \subseteq Nat
    OBVIOUS
  <1>2. T # {}
    <2>1. PICK x \in S : TRUE
      OBVIOUS
    <2>2. x \in 0..b
      BY <2>1
    <2>3. b - x \in 0..b /\ b - (b - x) = x
      BY <2>2
    <2> QED BY <2>1, <2>3
  <1>3. PICK m \in T : \A n \in T : m <= n
    <2> HIDE DEF T
    <2> QED BY <1>1, <1>2, LeastNumber
  <1>4. m \in 0..b /\ b - m \in S
    BY <1>3
  <1>5. ASSUME NEW n \in S PROVE n <= b - m
    <2>1. n \in 0..b
      OBVIOUS
    <2>2. b - n \in 0..b /\ b - (b - n) = n
      BY <2>1
    <2>3. b - n \in T
      BY <2>1, <2>2
    <2>4. m <= b - n
      BY <1>3, <2>3
    <2> QED BY <1>4, <2>1, <2>4
  <1> QED BY <1>4, <1>5

(* The values of a function into the naturals on 1..N are bounded.          *)
LEMMA BoundedValues ==
    ASSUME NEW N \in Nat, NEW f, \A i \in 1..N : f[i] \in Nat
    PROVE  \E b \in Nat : \A i \in 1..N : f[i] <= b
  <1> DEFINE S == {n \in 0..N : \E b \in Nat : \A i \in 1..n : f[i] <= b}
  <1>1. 0 \in S
    OBVIOUS
  <1>2. ASSUME NEW n \in 0..(N - 1), n \in S PROVE n + 1 \in S
    <2>1. PICK b \in Nat : \A i \in 1..n : f[i] <= b
      BY <1>2
    <2>2. f[n + 1] \in Nat
      OBVIOUS
    <2>3. PICK c \in Nat : b <= c /\ f[n + 1] <= c
      <3>1. \A x, y \in Nat : \E z \in Nat : x <= z /\ y <= z
        OBVIOUS
      <3> QED BY <2>2, <3>1
    <2>4. \A i \in 1..(n + 1) : f[i] <= c
      <3>1. SUFFICES ASSUME NEW i \in 1..(n + 1) PROVE f[i] <= c
        OBVIOUS
      <3>2. CASE i = n + 1
        BY <2>3, <3>2
      <3>3. CASE i \in 1..n
        <4>1. f[i] \in Nat /\ f[i] <= b
          BY <2>1, <3>3
        <4> QED BY <2>3, <4>1
      <3> QED BY <3>2, <3>3
    <2> QED BY <2>4
  <1>3. \A n \in 0..N : n \in S
    <2> HIDE DEF S
    <2> QED BY <1>1, <1>2, UpTo
  <1>4. N \in S
    <2>1. N \in 0..N
      OBVIOUS
    <2> HIDE DEF S
    <2> QED BY <1>3, <2>1
  <1> QED BY <1>4

-----------------------------------------------------------------------------
(* Sequences of any elements                                                *)

IsSeq(s) == \E S : s \in Seq(S)

(* Appending to a sequence.                                                 *)
LEMMA AppendFacts ==
  ASSUME NEW s, IsSeq(s), NEW e
  PROVE  /\ IsSeq(Append(s, e)) /\ Len(s) \in Nat /\ Len(Append(s, e)) = Len(s) + 1
         /\ DOMAIN s = 1..Len(s) /\ DOMAIN Append(s, e) = 1..(Len(s) + 1)
         /\ \A i \in 1..Len(s) : Append(s, e)[i] = s[i]
         /\ Append(s, e)[Len(s) + 1] = e
  <1>1. PICK S : s \in Seq(S)
    BY DEF IsSeq
  <1>2. s \in Seq(S \cup {e}) /\ e \in S \cup {e}
    <2>1. Len(s) \in Nat /\ s \in [1..Len(s) -> S \cup {e}]
      BY <1>1
    <2> QED BY <2>1
  <1>3. Append(s, e) \in Seq(S \cup {e})
    BY <1>2
  <1>4. /\ Len(s) \in Nat /\ Len(Append(s, e)) = Len(s) + 1
        /\ DOMAIN s = 1..Len(s) /\ DOMAIN Append(s, e) = 1..(Len(s) + 1)
        /\ \A i \in 1..Len(s) : Append(s, e)[i] = s[i]
        /\ Append(s, e)[Len(s) + 1] = e
    BY <1>2
  <1> QED BY <1>3, <1>4 DEF IsSeq

(* A sequence with one element taken out.                                   *)
LEMMA RemoveAtFacts ==
  ASSUME NEW s, IsSeq(s), NEW p \in DOMAIN s
  PROVE  /\ IsSeq(RemoveAt(s, p)) /\ Len(RemoveAt(s, p)) = Len(s) - 1
         /\ DOMAIN RemoveAt(s, p) = 1..(Len(s) - 1)
         /\ \A i \in 1..(Len(s) - 1) : RemoveAt(s, p)[i] = s[IF i < p THEN i ELSE i + 1]
  <1>1. PICK S : s \in Seq(S)
    BY DEF IsSeq
  <1>2. Len(s) \in Nat /\ DOMAIN s = 1..Len(s) /\ p \in 1..Len(s)
    BY <1>1
  <1> DEFINE a == SubSeq(s, 1, p - 1)
  <1> DEFINE b == SubSeq(s, p + 1, Len(s))
  <1>3. /\ a \in Seq(S) /\ Len(a) = p - 1
        /\ \A i \in 1..(p - 1) : a[i] = s[i]
    BY <1>1, <1>2
  <1>4. /\ b \in Seq(S) /\ Len(b) = Len(s) - p
        /\ \A i \in 1..(Len(s) - p) : b[i] = s[i + p]
    BY <1>1, <1>2
  <1>5. RemoveAt(s, p) = a \o b
    BY DEF RemoveAt
  <1> HIDE DEF a, b
  <1>6. a \o b \in Seq(S) /\ Len(a \o b) = Len(s) - 1
    <2>1. a \in Seq(S) /\ b \in Seq(S)
      BY <1>3, <1>4
    <2>2. a \o b \in Seq(S)
      BY <2>1
    <2>3. Len(a \o b) = Len(a) + Len(b)
      BY <2>1
    <2> QED BY <1>2, <1>3, <1>4, <2>2, <2>3
  <1>7. ASSUME NEW i \in 1..(Len(s) - 1) PROVE (a \o b)[i] = s[IF i < p THEN i ELSE i + 1]
    <2>1. CASE i < p
      BY <1>2, <1>3, <1>4, <2>1
    <2>2. CASE ~(i < p)
      <3>1. i - (p - 1) \in 1..(Len(s) - p) /\ i - (p - 1) + p = i + 1
        BY <1>2, <2>2
      <3>2. (a \o b)[i] = b[i - (p - 1)]
        BY <1>2, <1>3, <1>4, <2>2
      <3> QED BY <1>4, <2>2, <3>1, <3>2
    <2> QED BY <2>1, <2>2
  <1>8. IsSeq(RemoveAt(s, p))
    BY <1>5, <1>6 DEF IsSeq
  <1>9. DOMAIN (a \o b) = 1..(Len(s) - 1)
    <2>1. DOMAIN (a \o b) = 1..Len(a \o b)
      BY <1>6
    <2> QED BY <1>6, <2>1
  <1> QED BY <1>5, <1>6, <1>7, <1>8, <1>9

(* A function on 1..n is a sequence.                                        *)
LEMMA FunctionIsSeq ==
  ASSUME NEW n \in Nat, NEW f, f = [i \in 1..n |-> f[i]]
  PROVE  IsSeq(f) /\ Len(f) = n /\ DOMAIN f = 1..n
  <1>1. f \in Seq({f[i] : i \in 1..n})
    <2>1. f \in [1..n -> {f[i] : i \in 1..n}]
      OBVIOUS
    <2> QED BY <2>1
  <1>2. DOMAIN f = 1..n
    OBVIOUS
  <1>3. Len(f) = n
    BY <1>1, <1>2
  <1> QED BY <1>1, <1>2, <1>3 DEF IsSeq

(* A sequence is a function on 1..Len(s).                                   *)
LEMMA SeqIsFunction ==
  ASSUME NEW s, IsSeq(s)
  PROVE  Len(s) \in Nat /\ DOMAIN s = 1..Len(s) /\ s = [i \in 1..Len(s) |-> s[i]]
  <1>1. PICK S : s \in Seq(S)
    BY DEF IsSeq
  <1> QED BY <1>1

(* Two sequences run together.                                              *)
LEMMA ConcatFacts ==
  ASSUME NEW s, NEW t, IsSeq(s), IsSeq(t)
  PROVE  /\ IsSeq(s \o t) /\ Len(s) \in Nat /\ Len(t) \in Nat
         /\ Len(s \o t) = Len(s) + Len(t) /\ DOMAIN (s \o t) = 1..(Len(s) + Len(t))
         /\ \A i \in 1..Len(s) : (s \o t)[i] = s[i]
         /\ \A i \in 1..Len(t) : (s \o t)[Len(s) + i] = t[i]
  <1>1. PICK S : s \in Seq(S)
    BY DEF IsSeq
  <1>2. PICK T : t \in Seq(T)
    BY DEF IsSeq
  <1>3. s \in Seq(S \cup T) /\ t \in Seq(S \cup T)
    <2>1. Len(s) \in Nat /\ s \in [1..Len(s) -> S \cup T]
      BY <1>1
    <2>2. Len(t) \in Nat /\ t \in [1..Len(t) -> S \cup T]
      BY <1>2
    <2> QED BY <2>1, <2>2
  <1>4. s \o t \in Seq(S \cup T)
    BY <1>3
  <1>5. /\ Len(s) \in Nat /\ Len(t) \in Nat /\ Len(s \o t) = Len(s) + Len(t)
        /\ \A i \in 1..Len(s) : (s \o t)[i] = s[i]
    BY <1>3
  <1>6. ASSUME NEW i \in 1..Len(t) PROVE (s \o t)[Len(s) + i] = t[i]
    <2>1. Len(s) + i \in 1..(Len(s) + Len(t)) /\ ~(Len(s) + i <= Len(s)) /\ Len(s) + i - Len(s) = i
      BY <1>5
    <2> QED BY <2>1, <1>3
  <1>7. DOMAIN (s \o t) = 1..(Len(s) + Len(t))
    <2>1. DOMAIN (s \o t) = 1..Len(s \o t)
      BY <1>4
    <2> QED BY <2>1, <1>5
  <1> QED BY <1>4, <1>5, <1>6, <1>7 DEF IsSeq

-----------------------------------------------------------------------------
(* Elements at chosen positions *)

Low(K, p) == {q \in K : q < p}

Place(K, i) == CHOOSE p \in K : Cardinality(Low(K, p)) = i - 1

\* A set of positions is finite.
LEMMA PositionsFinite ==
  ASSUME NEW N \in Nat, NEW K, K \subseteq 1..N
  PROVE  /\ IsFiniteSet(K) /\ Cardinality(K) \in Nat
         /\ \A p : IsFiniteSet(Low(K, p)) /\ Cardinality(Low(K, p)) \in Nat
  <1>1. IsFiniteSet(1..N)
    BY FS_Interval
  <1>2. IsFiniteSet(K)
    BY <1>1, FS_Subset
  <1>3. ASSUME NEW p PROVE IsFiniteSet(Low(K, p))
    <2>1. Low(K, p) \subseteq K
      BY DEF Low
    <2> QED BY <2>1, <1>2, FS_Subset
  <1> QED BY <1>2, <1>3, FS_CardinalityType

\* Every rank is taken.
LEMMA PlaceExists ==
  ASSUME NEW N \in Nat, NEW K, K \subseteq 1..N, NEW i \in 1..Cardinality(K)
  PROVE  \E p \in K : Cardinality(Low(K, p)) = i - 1
  <1> DEFINE Part(n) == K \cap (1..n)
             S == {n \in 0..N : \A j \in 1..Cardinality(Part(n)) :
                                  \E p \in Part(n) : Cardinality(Low(K, p)) = j - 1}
  <1>0. ASSUME NEW n \in 0..N PROVE IsFiniteSet(Part(n)) /\ Cardinality(Part(n)) \in Nat
    <2>1. Part(n) \subseteq 1..n /\ n \in Nat
      OBVIOUS
    <2> QED BY <2>1, PositionsFinite
  <1>1. 0 \in S
    <2>1. Part(0) = {}
      OBVIOUS
    <2>2. Cardinality(Part(0)) = 0
      BY <2>1, FS_EmptySet
    <2> QED BY <2>2
  <1>2. ASSUME NEW n \in 0..(N - 1), n \in S PROVE n + 1 \in S
    <2>1. n + 1 \in 0..N /\ n \in 0..N
      OBVIOUS
    <2>2. \A j \in 1..Cardinality(Part(n)) :
            \E p \in Part(n) : Cardinality(Low(K, p)) = j - 1
      BY <1>2
    <2>3. CASE n + 1 \notin K
      <3>1. Part(n + 1) = Part(n)
        BY <2>3
      <3> HIDE DEF Part
      <3> QED BY <2>1, <2>2, <3>1
    <2>4. CASE n + 1 \in K
      <3>1. Part(n + 1) = Part(n) \cup {n + 1} /\ n + 1 \notin Part(n)
        BY <2>4
      <3>2. Cardinality(Part(n + 1)) = Cardinality(Part(n)) + 1
        <4>1. IsFiniteSet(Part(n)) /\ Cardinality(Part(n)) \in Nat
          BY <1>0, <2>1
        <4> HIDE DEF Part
        <4> QED BY <3>1, <4>1, FS_AddElement
      <3>3. Low(K, n + 1) = Part(n)
        <4>1. \A q \in K : q \in 1..N
          OBVIOUS
        <4>2. ASSUME NEW q PROVE q \in Low(K, n + 1) <=> q \in Part(n)
          <5>1. CASE q \in K
            <6>1. q \in Low(K, n + 1) <=> q < n + 1
              BY <5>1 DEF Low
            <6>2. q \in Part(n) <=> q \in 1..n
              BY <5>1
            <6> QED BY <6>1, <6>2, <4>1, <5>1
          <5>2. CASE q \notin K
            BY <5>2 DEF Low
          <5> QED BY <5>1, <5>2
        <4> HIDE DEF Part
        <4> QED BY <4>2
      <3>4. Cardinality(Part(n)) \in Nat
        BY <1>0, <2>1
      <3> SUFFICES ASSUME NEW j \in 1..Cardinality(Part(n + 1))
                   PROVE  \E p \in Part(n + 1) : Cardinality(Low(K, p)) = j - 1
        BY <2>1
      <3> HIDE DEF Part
      <3>5. CASE j \in 1..Cardinality(Part(n))
        BY <2>2, <3>1, <3>5
      <3>6. CASE j = Cardinality(Part(n)) + 1
        BY <3>1, <3>3, <3>4, <3>6
      <3> QED BY <3>2, <3>4, <3>5, <3>6
    <2> QED BY <2>3, <2>4
  <1>3. N \in S
    <2>1. N \in 0..N
      OBVIOUS
    <2> HIDE DEF S
    <2> QED BY <1>1, <1>2, <2>1, UpTo
  <1>4. Part(N) = K
    OBVIOUS
  <1> HIDE DEF Part
  <1> QED BY <1>3, <1>4

\* Positions of higher rank are higher.
LEMMA PlaceFacts ==
  ASSUME NEW N \in Nat, NEW K, K \subseteq 1..N
  PROVE  /\ \A i \in 1..Cardinality(K) : Place(K, i) \in K
         /\ \A i, j \in 1..Cardinality(K) : i < j => Place(K, i) < Place(K, j)
  <1>1. ASSUME NEW i \in 1..Cardinality(K)
        PROVE  Place(K, i) \in K /\ Cardinality(Low(K, Place(K, i))) = i - 1
    BY PlaceExists DEF Place
  <1>2. ASSUME NEW i \in 1..Cardinality(K), NEW j \in 1..Cardinality(K), i < j
        PROVE  Place(K, i) < Place(K, j)
    <2> DEFINE a == Place(K, i)
               b == Place(K, j)
    <2>1. /\ a \in 1..N /\ b \in 1..N
          /\ Cardinality(Low(K, a)) = i - 1 /\ Cardinality(Low(K, b)) = j - 1
      BY <1>1
    <2> HIDE DEF a, b
    <2> SUFFICES ASSUME b <= a PROVE FALSE
      BY <2>1 DEF a, b
    <2>2. Low(K, b) \subseteq Low(K, a)
      <3>1. ASSUME NEW q \in Low(K, b) PROVE q \in Low(K, a)
        <4>1. q \in K /\ q < b
          BY DEF Low
        <4>2. q \in 1..N
          BY <4>1
        <4>3. q < a
          BY <4>1, <4>2, <2>1
        <4> QED BY <4>1, <4>3 DEF Low
      <3> QED BY <3>1
    <2>3. IsFiniteSet(Low(K, a)) /\ Cardinality(K) \in Nat
      BY PositionsFinite
    <2>4. Cardinality(Low(K, b)) <= Cardinality(Low(K, a))
      BY <2>2, <2>3, FS_Subset
    <2> QED BY <2>1, <2>3, <2>4, <1>2
  <1> QED BY <1>1, <1>2

\* At takes the elements in their order.
LEMMA AtFacts ==
  ASSUME NEW s, NEW N \in Nat, NEW K, K \subseteq 1..N
  PROVE  /\ IsSeq(At(s, K)) /\ Len(At(s, K)) = Cardinality(K) /\ Cardinality(K) \in Nat
         /\ DOMAIN At(s, K) = 1..Cardinality(K)
         /\ \A i \in 1..Cardinality(K) : At(s, K)[i] = s[Place(K, i)]
  <1>1. Cardinality(K) \in Nat
    BY PositionsFinite
  <1>2. At(s, K) = [i \in 1..Cardinality(K) |-> s[Place(K, i)]]
    BY DEF At, Place, Low
  <1> DEFINE f == At(s, K)
  <1>3. f = [i \in 1..Cardinality(K) |-> f[i]]
    BY <1>2
  <1>4. IsSeq(f) /\ Len(f) = Cardinality(K) /\ DOMAIN f = 1..Cardinality(K)
    <2> HIDE DEF f
    <2> QED BY <1>1, <1>3, FunctionIsSeq
  <1> QED BY <1>1, <1>2, <1>4

\* Nothing at no positions.
LEMMA AtNone ==
  ASSUME NEW s
  PROVE  At(s, {}) = <<>>
  <1>1. Cardinality({}) = 0 /\ 1..0 = {}
    BY FS_EmptySet
  <1>2. DOMAIN At(s, {}) = {}
    BY <1>1 DEF At
  <1>3. IsSeq(At(s, {})) /\ Len(At(s, {})) = 0
    <2>1. {} \subseteq 1..0 /\ 0 \in Nat
      OBVIOUS
    <2> QED BY <1>1, <2>1, AtFacts
  <1>4. \A f : IsSeq(f) /\ Len(f) = 0 => f = <<>>
    BY DEF IsSeq
  <1> QED BY <1>3, <1>4

\* Every chosen position has a rank.
LEMMA PlaceOnto ==
  ASSUME NEW N \in Nat, NEW K, K \subseteq 1..N, NEW p \in K
  PROVE  \E i \in 1..Cardinality(K) : Place(K, i) = p
  <1> DEFINE i == Cardinality(Low(K, p)) + 1
  <1>1. /\ IsFiniteSet(K) /\ Cardinality(K) \in Nat
        /\ \A q : IsFiniteSet(Low(K, q)) /\ Cardinality(Low(K, q)) \in Nat
    BY PositionsFinite
  <1>2. ASSUME NEW q \in K, NEW r \in K, q < r
        PROVE  Cardinality(Low(K, q)) < Cardinality(Low(K, r))
    <2>1. q \in Low(K, r) /\ q \notin Low(K, q)
      BY <1>2 DEF Low
    <2>2. Low(K, q) \subseteq Low(K, r)
      <3>1. ASSUME NEW x \in K, x < q PROVE x < r
        <4>1. x \in 1..N /\ q \in 1..N /\ r \in 1..N
          OBVIOUS
        <4> QED BY <4>1, <3>1, <1>2
      <3> QED BY <3>1 DEF Low
    <2>3. Cardinality(Low(K, q)) <= Cardinality(Low(K, r))
      BY <1>1, <2>2, FS_Subset
    <2>4. Cardinality(Low(K, q)) # Cardinality(Low(K, r))
      BY <1>1, <2>1, <2>2, FS_Subset
    <2> QED BY <1>1, <2>3, <2>4
  <1>3. i \in 1..Cardinality(K)
    <2>1. Low(K, p) \subseteq K /\ p \notin Low(K, p)
      BY DEF Low
    <2>2. Cardinality(Low(K, p)) <= Cardinality(K) /\ Cardinality(Low(K, p)) # Cardinality(K)
      BY <1>1, <2>1, FS_Subset
    <2> QED BY <1>1, <2>2
  <1>4. Place(K, i) \in K /\ Cardinality(Low(K, Place(K, i))) = Cardinality(Low(K, p))
    <2>1. Cardinality(Low(K, p)) = i - 1
      BY <1>1
    <2>2. Place(K, i) \in K /\ Cardinality(Low(K, Place(K, i))) = i - 1
      <3> HIDE DEF i
      <3> QED BY <2>1 DEF Place
    <2> QED BY <2>1, <2>2
  <1> HIDE DEF i
  <1>5. Place(K, i) = p
    <2>1. Place(K, i) \in 1..N /\ p \in 1..N
      BY <1>4
    <2>2. CASE Place(K, i) < p
      <3>1. Cardinality(Low(K, Place(K, i))) < Cardinality(Low(K, p))
        BY <1>2, <1>4, <2>2
      <3> QED BY <1>1, <1>4, <3>1
    <2>3. CASE p < Place(K, i)
      <3>1. Cardinality(Low(K, p)) < Cardinality(Low(K, Place(K, i)))
        BY <1>2, <1>4, <2>3
      <3> QED BY <1>1, <1>4, <3>1
    <2> QED BY <2>1, <2>2, <2>3
  <1> QED BY <1>3, <1>5

\* As many values as places: no value occurs twice, and the other way round.
LEMMA DistinctValues ==
  ASSUME NEW N \in Nat, NEW f, f = [i \in 1..N |-> f[i]]
  PROVE  Cardinality({f[i] : i \in 1..N}) = N <=> \A i, j \in 1..N : f[i] = f[j] => i = j
  <1> DEFINE T == {f[i] : i \in 1..N}
  <1>1. f \in Surjection(1..N, T)
    <2>1. f \in [1..N -> T]
      OBVIOUS
    <2> QED BY <2>1 DEF Surjection
  <1>2. IsFiniteSet(1..N) /\ Cardinality(1..N) = N
    BY FS_Interval
  <1>3. Cardinality(T) = N <=> f \in Injection(1..N, T)
    BY <1>1, <1>2, FS_Surjection
  <1>4. f \in Injection(1..N, T) <=> \A i, j \in 1..N : f[i] = f[j] => i = j
    <2>1. DOMAIN f = 1..N /\ f \in [1..N -> T]
      OBVIOUS
    <2> HIDE DEF T
    <2> QED BY <2>1 DEF Injection, IsInjective
  <1> QED BY <1>3, <1>4

\* Sequences that agree at the chosen positions.
LEMMA AtSame ==
  ASSUME NEW s, NEW t, NEW N \in Nat, NEW K, K \subseteq 1..N, \A k \in K : s[k] = t[k]
  PROVE  At(s, K) = At(t, K)
  <1>1. \A i \in 1..Cardinality(K) : Place(K, i) \in K
    BY PlaceFacts
  <1>2. At(s, K) = [i \in 1..Cardinality(K) |-> s[Place(K, i)]]
    BY DEF At, Place, Low
  <1>3. At(t, K) = [i \in 1..Cardinality(K) |-> t[Place(K, i)]]
    BY DEF At, Place, Low
  <1> QED BY <1>1, <1>2, <1>3

\* M has one position more than K, behind all others.
Extends(M, K, n) == n \in Nat \ {0} /\ K \subseteq 1..(n - 1) /\ M = K \cup {n}

\* The element at that position is the last one.
LEMMA AtExtend ==
  ASSUME NEW s, NEW L, NEW K, NEW n, Extends(L, K, n)
  PROVE  At(s, L) = Append(At(s, K), s[n])
  <1>0. PICK N \in Nat : n = N + 1 /\ K \subseteq 1..N
    BY DEF Extends
  <1> DEFINE M == K \cup {N + 1}
  <1>1. M \subseteq 1..(N + 1) /\ N + 1 \in Nat /\ N + 1 \notin K
    BY <1>0
  <1>2. IsFiniteSet(K) /\ Cardinality(K) \in Nat
    BY <1>0, PositionsFinite
  <1>3. Cardinality(M) = Cardinality(K) + 1
    BY <1>1, <1>2, FS_AddElement
  <1>4. Low(M, N + 1) = K /\ \A p \in K : Low(M, p) = Low(K, p)
    <2>1. \A p \in K : p < N + 1 /\ ~(N + 1 < p) /\ p \in 1..N
      BY <1>0
    <2>2. ~(N + 1 < N + 1)
      OBVIOUS
    <2> QED BY <2>1, <2>2 DEF Low
  <1>5. \A p \in K : Cardinality(Low(K, p)) < Cardinality(K)
    <2> TAKE p \in K
    <2>1. Low(K, p) \subseteq K /\ p \notin Low(K, p)
      <3>1. p \in 1..N
        BY <1>0
      <3> QED BY <3>1 DEF Low
    <2>2. Cardinality(Low(K, p)) \in Nat
      BY <1>0, PositionsFinite
    <2>3. Cardinality(Low(K, p)) <= Cardinality(K) /\ Cardinality(Low(K, p)) # Cardinality(K)
      BY <1>2, <2>1, FS_Subset
    <2> QED BY <1>2, <2>2, <2>3
  <1>6. \A i \in 1..Cardinality(K) : Place(M, i) = Place(K, i)
    <2> TAKE i \in 1..Cardinality(K)
    <2>1. i - 1 # Cardinality(K)
      BY <1>2
    <2>2. {p \in M : Cardinality(Low(M, p)) = i - 1} = {p \in K : Cardinality(Low(K, p)) = i - 1}
      BY <1>4, <2>1
    <2>3. \A p : (p \in M /\ Cardinality(Low(M, p)) = i - 1)
                   <=> (p \in K /\ Cardinality(Low(K, p)) = i - 1)
      BY <2>2
    <2>4. (CHOOSE p : p \in M /\ Cardinality(Low(M, p)) = i - 1)
            = CHOOSE p : p \in K /\ Cardinality(Low(K, p)) = i - 1
      BY <2>3
    <2> QED BY <2>4 DEF Place
  <1>7. Place(M, Cardinality(K) + 1) = N + 1
    <2>2. \A p \in K : Cardinality(Low(M, p)) # Cardinality(K)
      BY <1>0, <1>2, <1>4, <1>5, PositionsFinite
    <2>3. Cardinality(Low(M, N + 1)) = Cardinality(K)
      BY <1>4
    <2>4. \A p \in M : Cardinality(Low(M, p)) = Cardinality(K) => p = N + 1
      BY <2>2
    <2>5. N + 1 \in M
      OBVIOUS
    <2> DEFINE j == Cardinality(K) + 1
    <2>6. j - 1 = Cardinality(K)
      BY <1>2
    <2> HIDE DEF M, j
    <2>7. Place(M, j) \in M /\ Cardinality(Low(M, Place(M, j))) = j - 1
      BY <2>3, <2>5, <2>6 DEF Place
    <2>8. Cardinality(Low(M, Place(M, j))) = Cardinality(K)
      BY <2>6, <2>7
    <2> QED BY <2>4, <2>7, <2>8 DEF j
  <1>8. /\ \A i \in 1..Cardinality(K) : At(s, K)[i] = s[Place(K, i)]
        /\ \A i \in 1..Cardinality(M) : At(s, M)[i] = s[Place(M, i)]
    BY <1>1, AtFacts
  <1> HIDE DEF M
  <1>9. /\ \A i \in 1..Cardinality(K) : i \in 1..Cardinality(M)
        /\ Cardinality(K) + 1 \in 1..Cardinality(M)
    BY <1>2, <1>3
  <1>10. /\ Cardinality(K) \in Nat /\ Cardinality(M) = Cardinality(K) + 1
         /\ \A i \in 1..Cardinality(K) : At(s, M)[i] = At(s, K)[i]
         /\ At(s, M)[Cardinality(K) + 1] = s[N + 1]
    BY <1>2, <1>3, <1>6, <1>7, <1>8, <1>9
  <1>11. L = M /\ n = N + 1
    BY <1>0 DEF Extends, M
  <1> DEFINE a == At(s, K)
             b == At(s, M)
             e == s[n]
  <1>12. /\ IsSeq(a) /\ Len(a) = Cardinality(K)
         /\ IsSeq(b) /\ Len(b) = Cardinality(M)
    <2>1. N + 1 \in Nat /\ M \subseteq 1..(N + 1)
      BY <1>1
    <2>2. IsSeq(a) /\ Len(a) = Cardinality(K)
      BY <1>0, AtFacts
    <2>3. IsSeq(b) /\ Len(b) = Cardinality(M)
      BY <2>1, AtFacts
    <2> QED BY <2>2, <2>3
  <1>13. /\ Len(b) = Len(a) + 1 /\ Len(a) \in Nat /\ b[Len(a) + 1] = e
         /\ \A i \in 1..Len(a) : b[i] = a[i]
    BY <1>10, <1>11, <1>12
  <1> HIDE DEF a, b, e
  <1>14. /\ IsSeq(Append(a, e)) /\ Len(Append(a, e)) = Len(a) + 1
         /\ \A i \in 1..Len(a) : Append(a, e)[i] = a[i]
         /\ Append(a, e)[Len(a) + 1] = e
    BY <1>12, AppendFacts
  <1>15. \A i \in 1..Len(b) : b[i] = Append(a, e)[i]
    BY <1>13, <1>14
  <1>16. b = [i \in 1..Len(b) |-> b[i]]
    BY <1>12, SeqIsFunction
  <1>17. Append(a, e) = [i \in 1..Len(Append(a, e)) |-> Append(a, e)[i]]
    BY <1>14, SeqIsFunction
  <1>18. b = Append(a, e)
    BY <1>13, <1>14, <1>15, <1>16, <1>17
  <1> QED BY <1>11, <1>18 DEF a, b, e

\* A suffix, element by element.
LEMMA SuffixFacts ==
  ASSUME NEW s, NEW t, IsSeq(s), IsSeq(t)
  PROVE  IsSuffix(s, t) <=> /\ Len(s) <= Len(t)
                            /\ \A i \in 1..Len(s) : s[i] = t[Len(t) - Len(s) + i]
  <1>1. Len(s) \in Nat /\ Len(t) \in Nat
    BY SeqIsFunction
  <1> DEFINE r == Reverse(s)
             q == Reverse(t)
  <1>2. /\ r = [i \in 1..Len(s) |-> s[Len(s) - i + 1]]
        /\ q = [i \in 1..Len(t) |-> t[Len(t) - i + 1]]
    BY DEF Reverse
  <1>3. IsSeq(r) /\ Len(r) = Len(s) /\ IsSeq(q) /\ Len(q) = Len(t)
    BY <1>1, <1>2, FunctionIsSeq
  <1> HIDE DEF r, q
  <1>4. ASSUME Len(s) <= Len(t)
        PROVE  /\ SubSeq(r, 1, Len(r)) = [i \in 1..Len(s) |-> r[i]]
               /\ SubSeq(q, 1, Len(r)) = [i \in 1..Len(s) |-> q[i]]
    <2>1. \A i \in 1..Len(s) : 1 + i - 1 = i
      BY <1>1
    <2>2. Len(s) - 1 + 1 = Len(s)
      BY <1>1
    <2> QED BY <1>1, <1>3, <1>4, <2>1, <2>2
  <1>5. ASSUME Len(s) <= Len(t)
        PROVE  (\A i \in 1..Len(s) : r[i] = q[i])
                 <=> \A i \in 1..Len(s) : s[i] = t[Len(t) - Len(s) + i]
    <2>1. \A i \in 1..Len(s) : r[i] = s[Len(s) - i + 1] /\ q[i] = t[Len(t) - i + 1]
      BY <1>1, <1>2, <1>5
    <2>2. \A i \in 1..Len(s) : /\ Len(s) - i + 1 \in 1..Len(s)
                               /\ Len(s) - (Len(s) - i + 1) + 1 = i
                               /\ Len(t) - (Len(s) - i + 1) + 1 = Len(t) - Len(s) + i
                               /\ Len(t) - Len(s) + (Len(s) - i + 1) = Len(t) - i + 1
      BY <1>1
    <2>3. ASSUME \A i \in 1..Len(s) : r[i] = q[i], NEW i \in 1..Len(s)
          PROVE  s[i] = t[Len(t) - Len(s) + i]
      <3> DEFINE j == Len(s) - i + 1
      <3>1. j \in 1..Len(s) /\ Len(s) - j + 1 = i /\ Len(t) - j + 1 = Len(t) - Len(s) + i
        BY <2>2
      <3> HIDE DEF j
      <3>2. r[j] = s[Len(s) - j + 1] /\ q[j] = t[Len(t) - j + 1] /\ r[j] = q[j]
        BY <2>1, <2>3, <3>1
      <3> QED BY <3>1, <3>2
    <2>4. ASSUME \A i \in 1..Len(s) : s[i] = t[Len(t) - Len(s) + i], NEW i \in 1..Len(s)
          PROVE  r[i] = q[i]
      <3> DEFINE j == Len(s) - i + 1
      <3>1. j \in 1..Len(s) /\ Len(t) - Len(s) + j = Len(t) - i + 1
        BY <2>2
      <3>2. r[i] = s[j] /\ q[i] = t[Len(t) - i + 1]
        BY <2>1
      <3> HIDE DEF j
      <3> QED BY <2>4, <3>1, <3>2
    <2> QED BY <2>3, <2>4
  <1>6. IsSuffix(s, t) <=> Len(r) <= Len(q) /\ SubSeq(r, 1, Len(r)) = SubSeq(q, 1, Len(r))
    BY DEF IsSuffix, IsPrefix, r, q
  <1> QED BY <1>3, <1>4, <1>5, <1>6

=============================================================================
