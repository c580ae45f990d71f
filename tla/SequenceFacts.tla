---------------------------- MODULE SequenceFacts -----------------------------
(***************************************************************************)
(* Facts about the sequences and finite sets that the models keep their    *)
(* queues and lists in: which elements an operation leaves, and that no    *)
(* element comes to be there twice.  And about natural numbers: induction  *)
(* for a set of them, and the powers of two.                               *)
(***************************************************************************)
EXTENDS SequencesExt, FiniteSetTheorems, SequenceTheorems, WellFoundedInduction, TLAPS

\* A set without two different elements.
LEMMA AtMostOne ==
  ASSUME NEW S, \A x, y \in S : x = y
  PROVE  /\ IsFiniteSet(S) /\ Cardinality(S) \in 0 .. 1
         /\ S = {} => Cardinality(S) = 0
<1>1. CASE S = {}
  BY <1>1, FS_EmptySet
<1>2. CASE S # {}
  <2>1. PICK x \in S : TRUE
    BY <1>2
  <2>2. S = {x}
    BY <2>1
  <2>3. IsFiniteSet(S) /\ Cardinality(S) = 1
    BY <2>2, FS_Singleton
  <2>4. QED BY <1>2, <2>3
<1>3. QED BY <1>1, <1>2

\* What the operations on a queue do to the set of its elements.
LEMMA AppendFacts ==
  ASSUME NEW S, NEW s \in Seq(S), NEW x \in S
  PROVE  /\ Append(s, x) \in Seq(S)
         /\ ToSet(Append(s, x)) = ToSet(s) \cup {x}
         /\ IsInjective(s) /\ x \notin ToSet(s) => IsInjective(Append(s, x))
<1> DEFINE r == Append(s, x)
<1>1. /\ r \in Seq(S) /\ Len(r) = Len(s) + 1 /\ Len(s) \in Nat
      /\ DOMAIN r = 1 .. Len(s) + 1 /\ DOMAIN s = 1 .. Len(s)
      /\ \A i \in 1 .. Len(s) : r[i] = s[i]
      /\ r[Len(s) + 1] = x
  OBVIOUS
<1> HIDE DEF r
<1>2. ToSet(r) = ToSet(s) \cup {x}
  BY <1>1, SMT DEF ToSet
<1>3. IsInjective(s) /\ x \notin ToSet(s) => IsInjective(r)
  BY <1>1, SMT DEF ToSet, IsInjective
<1> QED BY <1>1, <1>2, <1>3 DEF r

\* What is left without the first element.
LEMMA TailFacts ==
  ASSUME NEW S, NEW s \in Seq(S), s # <<>>
  PROVE  /\ Tail(s) \in Seq(S) /\ Head(s) \in S
         /\ ToSet(s) = ToSet(Tail(s)) \cup {Head(s)}
         /\ IsInjective(s) => IsInjective(Tail(s)) /\ Head(s) \notin ToSet(Tail(s))
<1> DEFINE r == Tail(s)
<1>1. /\ r \in Seq(S) /\ Len(r) = Len(s) - 1 /\ Len(s) \in Nat /\ Len(s) > 0
      /\ DOMAIN r = 1 .. Len(s) - 1 /\ DOMAIN s = 1 .. Len(s)
      /\ \A i \in 1 .. Len(s) - 1 : r[i] = s[i + 1]
      /\ Head(s) = s[1] /\ Head(s) \in S
  OBVIOUS
<1> HIDE DEF r
<1>2. ToSet(s) = ToSet(r) \cup {Head(s)}
  <2>1. \A i \in DOMAIN s : i = 1 \/ (i - 1 \in DOMAIN r /\ r[i - 1] = s[i])
    BY <1>1, SMT
  <2>2. \A i \in DOMAIN r : i + 1 \in DOMAIN s /\ r[i] = s[i + 1]
    BY <1>1, SMT
  <2>3. 1 \in DOMAIN s
    BY <1>1, SMT
  <2> QED BY <1>1, <2>1, <2>2, <2>3 DEF ToSet
<1>3. IsInjective(s) => IsInjective(r) /\ Head(s) \notin ToSet(r)
  <2>1. \A i \in DOMAIN r : i + 1 \in DOMAIN s /\ r[i] = s[i + 1] /\ i + 1 # 1 /\ i \in Int
    BY <1>1, SMT
  <2> QED BY <1>1, <2>1, SMT DEF ToSet, IsInjective
<1> QED BY <1>1, <1>2, <1>3 DEF r

\* What is left without the last element.
LEMMA FrontFacts ==
  ASSUME NEW S, NEW s \in Seq(S), s # <<>>
  PROVE  /\ Front(s) \in Seq(S) /\ Last(s) \in S
         /\ ToSet(s) = ToSet(Front(s)) \cup {Last(s)}
         /\ IsInjective(s) => IsInjective(Front(s)) /\ Last(s) \notin ToSet(Front(s))
<1> DEFINE r == Front(s)
<1>1. /\ r \in Seq(S) /\ Len(r) = Len(s) - 1 /\ Len(s) \in Nat /\ Len(s) > 0
      /\ DOMAIN r = 1 .. Len(s) - 1 /\ DOMAIN s = 1 .. Len(s)
      /\ \A i \in 1 .. Len(s) - 1 : r[i] = s[i]
      /\ Last(s) = s[Len(s)] /\ Last(s) \in S
  <2>1. Len(s) \in Nat /\ Len(s) > 0 /\ DOMAIN s = 1 .. Len(s)
    OBVIOUS
  <2> QED BY <2>1, SMT DEF Front, Last
<1> HIDE DEF r
<1>2. ToSet(s) = ToSet(r) \cup {Last(s)}
  <2>1. \A i \in DOMAIN s : i = Len(s) \/ (i \in DOMAIN r /\ r[i] = s[i])
    BY <1>1, SMT
  <2>2. \A i \in DOMAIN r : i \in DOMAIN s /\ r[i] = s[i]
    BY <1>1, SMT
  <2>3. Len(s) \in DOMAIN s
    BY <1>1, SMT
  <2> QED BY <1>1, <2>1, <2>2, <2>3, SMT DEF ToSet
<1>3. IsInjective(s) => IsInjective(r) /\ Last(s) \notin ToSet(r)
  <2>1. \A i \in DOMAIN r : i \in DOMAIN s /\ r[i] = s[i] /\ i # Len(s)
    BY <1>1, SMT
  <2>2. Len(s) \in DOMAIN s
    BY <1>1, SMT
  <2> QED BY <1>1, <2>1, <2>2, SMT DEF ToSet, IsInjective
<1> QED BY <1>1, <1>2, <1>3 DEF r

\* What is left without the k-th element.
LEMMA RemoveAtFacts ==
  ASSUME NEW S, NEW s \in Seq(S), NEW k \in 1 .. Len(s)
  PROVE  /\ RemoveAt(s, k) \in Seq(S) /\ Len(RemoveAt(s, k)) = Len(s) - 1
         /\ s[k] \in S /\ s[k] \in ToSet(s)
         /\ ToSet(s) = ToSet(RemoveAt(s, k)) \cup {s[k]}
         /\ IsInjective(s) => IsInjective(RemoveAt(s, k)) /\ s[k] \notin ToSet(RemoveAt(s, k))
<1> DEFINE r == RemoveAt(s, k)
           a == SubSeq(s, 1, k - 1)
           b == SubSeq(s, k + 1, Len(s))
<1>1. /\ Len(s) \in Nat /\ Len(s) > 0 /\ k \in Nat /\ 1 <= k /\ k <= Len(s)
      /\ DOMAIN s = 1 .. Len(s) /\ s[k] \in S
  OBVIOUS
<1>2. a \in Seq(S) /\ Len(a) = k - 1 /\ \A i \in 1 .. k - 1 : a[i] = s[i]
  BY <1>1, SMT
<1>3. b \in Seq(S) /\ Len(b) = Len(s) - k /\ \A i \in 1 .. Len(s) - k : b[i] = s[k + i]
  <2>1. /\ k + 1 \in Int /\ Len(s) \in Int /\ \A i \in k + 1 .. Len(s) : s[i] \in S
    BY <1>1, SMT
  <2>2. /\ b \in Seq(S)
        /\ Len(b) = IF k + 1 <= Len(s) THEN Len(s) - (k + 1) + 1 ELSE 0
        /\ \A i \in 1 .. Len(s) - (k + 1) + 1 : b[i] = s[(k + 1) + i - 1]
    BY <2>1, SubSeqProperties
  <2>3. Len(b) = Len(s) - k
    <3> HIDE DEF b
    <3>1. CASE k + 1 <= Len(s)
      <4>1. Len(s) - (k + 1) + 1 = Len(s) - k
        BY <1>1, SMT
      <4> QED BY <2>2, <3>1, <4>1
    <3>2. CASE ~(k + 1 <= Len(s))
      <4>1. \A x, y \in Int : x <= y /\ ~(x + 1 <= y) => y - x = 0
        BY SMT
      <4>2. k \in Int /\ Len(s) \in Int
        BY <1>1
      <4>3. Len(s) - k = 0
        BY <1>1, <3>2, <4>1, <4>2, Zenon
      <4> QED BY <2>2, <3>2, <4>3
    <3> QED BY <3>1, <3>2
  <2>4. ASSUME NEW i \in 1 .. Len(s) - k PROVE b[i] = s[k + i]
    <3>1. i \in 1 .. Len(s) - (k + 1) + 1 /\ (k + 1) + i - 1 = k + i
      BY <1>1, SMT
    <3> HIDE DEF b
    <3> QED BY <2>2, <3>1
  <2> QED BY <2>2, <2>3, <2>4
<1>4. r = a \o b
  BY DEF RemoveAt
<1> HIDE DEF r, a, b
<1>5. /\ r \in Seq(S) /\ Len(r) = Len(s) - 1
      /\ DOMAIN r = 1 .. Len(s) - 1
      /\ \A i \in DOMAIN r : r[i] = IF i < k THEN s[i] ELSE s[i + 1]
  <2>1. r \in Seq(S) /\ Len(r) = Len(a) + Len(b)
    BY <1>2, <1>3, <1>4, ConcatProperties
  <2>2. \A i \in 1 .. Len(a) + Len(b) : r[i] = IF i <= Len(a) THEN a[i] ELSE b[i - Len(a)]
    BY <1>2, <1>3, <1>4, ConcatProperties
  <2>3. Len(a) + Len(b) = Len(s) - 1
    BY <1>1, <1>2, <1>3, SMT
  <2>4. ASSUME NEW i \in 1 .. Len(s) - 1 PROVE r[i] = IF i < k THEN s[i] ELSE s[i + 1]
    <3>1. r[i] = IF i <= Len(a) THEN a[i] ELSE b[i - Len(a)]
      BY <2>2, <2>3
    <3>2. CASE i < k
      <4>1. i <= Len(a) /\ i \in 1 .. k - 1
        BY <1>1, <1>2, <3>2, SMT
      <4> QED BY <1>2, <3>1, <3>2, <4>1
    <3>3. CASE ~(i < k)
      <4>1. i - Len(a) \in 1 .. Len(s) - k /\ k + (i - Len(a)) = i + 1 /\ ~(i <= Len(a))
        BY <1>1, <1>2, <3>3, SMT
      <4> QED BY <1>3, <3>1, <3>3, <4>1
    <3> QED BY <3>2, <3>3
  <2>5. DOMAIN r = 1 .. Len(r)
    BY <2>1
  <2> QED BY <2>1, <2>3, <2>4, <2>5
<1>6. ToSet(s) = ToSet(r) \cup {s[k]}
  <2>1. \A i \in DOMAIN s : i # k => \E j \in DOMAIN r : r[j] = s[i]
    <3> SUFFICES ASSUME NEW i \in DOMAIN s, i # k PROVE \E j \in DOMAIN r : r[j] = s[i]
      OBVIOUS
    <3>1. CASE i < k
      BY <1>1, <1>5, <3>1, SMT
    <3>2. CASE ~(i < k)
      <4>1. i - 1 \in DOMAIN r /\ ~(i - 1 < k) /\ (i - 1) + 1 = i
        BY <1>1, <1>5, <3>2, SMT
      <4> QED BY <1>5, <4>1
    <3> QED BY <3>1, <3>2
  <2>2. \A j \in DOMAIN r : \E i \in DOMAIN s : r[j] = s[i]
    BY <1>1, <1>5, SMT
  <2>3. k \in DOMAIN s
    BY <1>1
  <2> QED BY <2>1, <2>2, <2>3 DEF ToSet
<1>7. IsInjective(s) => IsInjective(r) /\ s[k] \notin ToSet(r)
  <2> SUFFICES ASSUME IsInjective(s) PROVE IsInjective(r) /\ s[k] \notin ToSet(r)
    OBVIOUS
  <2> DEFINE at(i) == IF i < k THEN i ELSE i + 1
  <2>1. \A i \in DOMAIN r : at(i) \in DOMAIN s /\ at(i) # k /\ r[i] = s[at(i)]
    BY <1>1, <1>5, SMT
  <2>2. \A i, j \in DOMAIN r : at(i) = at(j) => i = j
    BY <1>1, <1>5, SMT
  <2>3. k \in DOMAIN s
    BY <1>1
  <2> HIDE DEF at
  <2> QED BY <2>1, <2>2, <2>3 DEF ToSet, IsInjective
<1>8. s[k] \in ToSet(s)
  BY <1>1 DEF ToSet
<1> QED BY <1>1, <1>5, <1>6, <1>7, <1>8 DEF r

\* What two sequences make together.
LEMMA ConcatFacts ==
  ASSUME NEW S, NEW s \in Seq(S), NEW t \in Seq(S)
  PROVE  /\ s \o t \in Seq(S)
         /\ ToSet(s \o t) = ToSet(s) \cup ToSet(t)
         /\ IsInjective(s) /\ IsInjective(t) /\ ToSet(s) \cap ToSet(t) = {} => IsInjective(s \o t)
<1> DEFINE r == s \o t
<1>1. /\ r \in Seq(S) /\ Len(s) \in Nat /\ Len(t) \in Nat
      /\ DOMAIN r = 1 .. Len(s) + Len(t) /\ DOMAIN s = 1 .. Len(s) /\ DOMAIN t = 1 .. Len(t)
      /\ \A i \in 1 .. Len(s) + Len(t) : r[i] = IF i <= Len(s) THEN s[i] ELSE t[i - Len(s)]
  OBVIOUS
<1> HIDE DEF r
<1>2. \A i \in DOMAIN s : i \in DOMAIN r /\ r[i] = s[i]
  BY <1>1, SMT
<1>3. \A i \in DOMAIN t : i + Len(s) \in DOMAIN r /\ r[i + Len(s)] = t[i]
  <2> SUFFICES ASSUME NEW i \in DOMAIN t PROVE i + Len(s) \in DOMAIN r /\ r[i + Len(s)] = t[i]
    OBVIOUS
  <2>1. i + Len(s) \in DOMAIN r /\ ~(i + Len(s) <= Len(s)) /\ (i + Len(s)) - Len(s) = i
    BY <1>1, SMT
  <2> QED BY <1>1, <2>1
<1>4. \A i \in DOMAIN r : \/ i \in DOMAIN s /\ r[i] = s[i]
                          \/ i - Len(s) \in DOMAIN t /\ r[i] = t[i - Len(s)]
  BY <1>1, SMT
<1>5. ToSet(r) = ToSet(s) \cup ToSet(t)
  BY <1>2, <1>3, <1>4 DEF ToSet
<1>6. ASSUME IsInjective(s), IsInjective(t), ToSet(s) \cap ToSet(t) = {} PROVE IsInjective(r)
  <2> SUFFICES ASSUME NEW i \in DOMAIN r, NEW j \in DOMAIN r, r[i] = r[j] PROVE i = j
    BY DEF IsInjective
  <2>1. i \in Int /\ j \in Int /\ Len(s) \in Int
    BY <1>1
  <2>2. CASE i \in DOMAIN s /\ r[i] = s[i] /\ j \in DOMAIN s /\ r[j] = s[j]
    BY <1>6, <2>2 DEF IsInjective
  <2>3. CASE i - Len(s) \in DOMAIN t /\ r[i] = t[i - Len(s)] /\ j - Len(s) \in DOMAIN t /\ r[j] = t[j - Len(s)]
    <3>1. i - Len(s) = j - Len(s)
      BY <1>6, <2>3 DEF IsInjective
    <3> QED BY <2>1, <3>1, SMT
  <2>4. CASE i \in DOMAIN s /\ r[i] = s[i] /\ j - Len(s) \in DOMAIN t /\ r[j] = t[j - Len(s)]
    BY <1>6, <2>4 DEF ToSet
  <2>5. CASE j \in DOMAIN s /\ r[j] = s[j] /\ i - Len(s) \in DOMAIN t /\ r[i] = t[i - Len(s)]
    BY <1>6, <2>5 DEF ToSet
  <2> QED BY <1>4, <2>2, <2>3, <2>4, <2>5
<1> QED BY <1>1, <1>5, <1>6 DEF r

\* A sequence made of a finite set has each of its elements once.
LEMMA SetToSeqFacts ==
  ASSUME NEW S, IsFiniteSet(S)
  PROVE  SetToSeq(S) \in Seq(S) /\ ToSet(SetToSeq(S)) = S /\ IsInjective(SetToSeq(S))
<1> DEFINE n == Cardinality(S)
           s == SetToSeq(S)
<1>1. n \in Nat /\ ExistsBijection(1 .. n, S)
  BY FS_CardinalityType
<1>2. PICK f \in Bijection(1 .. n, S) : TRUE
  BY <1>1 DEF ExistsBijection
<1>3. f \in [1 .. n -> S] /\ IsInjective(f)
  BY <1>2 DEF Bijection, Injection
<1>4. s \in [1 .. n -> S] /\ IsInjective(s)
  BY <1>3 DEF SetToSeq
<1> HIDE DEF s
<1>5. s \in Injection(1 .. n, S)
  BY <1>4 DEF Injection
<1>6. IsFiniteSet(1 .. n) /\ Cardinality(1 .. n) = n
  BY <1>1, FS_Interval, SMT
<1>7. s \in Surjection(1 .. n, S)
  BY <1>5, <1>6, FS_Injection
<1>8. ToSet(s) = S
  BY <1>4, <1>7 DEF ToSet, Surjection
<1>9. s \in Seq(S)
  BY <1>1, <1>4
<1> QED BY <1>4, <1>8, <1>9 DEF s

\* What Append leaves where it was, and where it puts the new element.
LEMMA AppendAt ==
  ASSUME NEW S, NEW s \in Seq(S), NEW x \in S
  PROVE  /\ Append(s, x) \in Seq(S)
         /\ Len(Append(s, x)) = Len(s) + 1
         /\ \A i \in 1 .. Len(s) : Append(s, x)[i] = s[i]
         /\ Append(s, x)[Len(s) + 1] = x
OBVIOUS

\* All places but the last.
LEMMA FrontAt ==
  ASSUME NEW S, NEW s \in Seq(S), s # <<>>, NEW r, r = SubSeq(s, 1, Len(s) - 1)
  PROVE  /\ Len(s) > 0 /\ Len(r) = Len(s) - 1 /\ \A i \in 1 .. Len(r) : r[i] = s[i]
<1>1. PICK n \in Nat : n = Len(s) - 1 /\ Len(s) > 0
  OBVIOUS
<1>2. \A i \in 1 .. n : s[i] \in S
  BY <1>1
<1>3. /\ Len(r) = IF 1 <= n THEN n - 1 + 1 ELSE 0
      /\ \A i \in 1 .. n - 1 + 1 : r[i] = s[1 + i - 1]
  BY <1>1, <1>2, SubSeqProperties
<1>4. n - 1 + 1 = n /\ \A i \in 1 .. n : 1 + i - 1 = i
  OBVIOUS
<1>5. Len(r) = n
  BY <1>3
<1> QED BY <1>1, <1>3, <1>4, <1>5

\* Removing an element of a sequence without repetitions takes it out of the set.
LEMMA RemoveFirstFacts ==
  ASSUME NEW S, NEW s \in Seq(S), NEW e, IsInjective(s)
  PROVE  /\ RemoveFirst(s, e) \in Seq(S)
         /\ ToSet(RemoveFirst(s, e)) = ToSet(s) \ {e}
         /\ IsInjective(RemoveFirst(s, e))
<1>1. CASE \E i \in 1 .. Len(s) : s[i] = e
  <2>1. PICK k \in 1 .. Len(s) : s[k] = e
    BY <1>1
  <2>2. {i \in 1 .. Len(s) : s[i] = e} = {k}
    BY <2>1 DEF IsInjective
  <2>3. Min({k}) = k
    BY DEF Min
  <2>4. SelectInSeq(s, LAMBDA v : v = e) = k
    BY <2>2, <2>3 DEF SelectInSeq
  <2>5. RemoveFirst(s, e) = RemoveAt(s, k)
    BY <1>1, <2>4 DEF RemoveFirst
  <2> QED BY <2>1, <2>5, RemoveAtFacts
<1>2. CASE ~\E i \in 1 .. Len(s) : s[i] = e
  <2>1. RemoveFirst(s, e) = s
    BY <1>2 DEF RemoveFirst
  <2>2. e \notin ToSet(s)
    BY <1>2 DEF ToSet
  <2> QED BY <2>1, <2>2
<1> QED BY <1>1, <1>2

\* What a new first element adds.
LEMMA PushFacts ==
  ASSUME NEW S, NEW s \in Seq(S), NEW x \in S
  PROVE  /\ <<x>> \o s \in Seq(S) /\ ToSet(<<x>> \o s) = {x} \cup ToSet(s)
         /\ IsInjective(s) /\ x \notin ToSet(s) => IsInjective(<<x>> \o s)
<1> DEFINE one == <<x>>
<1>1. one \in Seq(S) /\ ToSet(one) = {x} /\ IsInjective(one)
  BY DEF ToSet, IsInjective
<1> HIDE DEF one
<1>2. /\ one \o s \in Seq(S) /\ ToSet(one \o s) = ToSet(one) \cup ToSet(s)
      /\ IsInjective(one) /\ IsInjective(s) /\ ToSet(one) \cap ToSet(s) = {} => IsInjective(one \o s)
  BY <1>1, ConcatFacts
<1> QED BY <1>1, <1>2 DEF one

\* Contains is membership in the set of the elements.
LEMMA ContainsIsMember ==
  ASSUME NEW S, NEW s \in Seq(S), NEW e
  PROVE  Contains(s, e) <=> e \in ToSet(s)
BY DEF Contains, ToSet
\* A set of natural numbers has a least one: induction, for a fact about data.
LEMMA LeastNumber ==
  ASSUME NEW T, T \subseteq Nat, T # {}
  PROVE  \E x \in T : \A y \in T : x <= y
<1>1. IsWellFoundedOn(OpToRel(<, Nat), Nat)
  BY NatLessThanWellFounded
<1>2. PICK x \in T : \A y \in T : <<y, x>> \notin OpToRel(<, Nat)
  BY <1>1, WFMin
<1>3. \A y \in T : ~(y < x)
  BY <1>2 DEF OpToRel
<1>4. \A y \in T : x <= y
  BY <1>3
<1> QED BY <1>4

\* Induction: a set with 0 and with the successor of each number in it has them all.
LEMMA NumberInduction ==
  ASSUME NEW P, 0 \in P, \A n \in Nat : n \in P => n + 1 \in P
  PROVE  \A n \in Nat : n \in P
<1>1. SUFFICES ASSUME Nat \ P # {} PROVE FALSE
  OBVIOUS
<1>2. PICK x \in Nat \ P : \A y \in Nat \ P : x <= y
  <2>1. Nat \ P \subseteq Nat
    OBVIOUS
  <2> QED BY <1>1, <2>1, LeastNumber
<1>3. x # 0 /\ x \in Nat
  OBVIOUS
<1>4. x - 1 \in Nat /\ ~(x <= x - 1) /\ (x - 1) + 1 = x
  BY <1>3
<1>5. x - 1 \in P
  BY <1>2, <1>4
<1> QED BY <1>4, <1>5

\* The powers of two up to the m-th.
Doubles(g, m) == /\ g \in [0 .. m -> Nat]
                 /\ \A n \in 0 .. m : g[n] = IF n = 0 THEN 1 ELSE 2 * g[n - 1]

\* There is a function of the powers of two up to any exponent.
LEMMA PowersExist == \A m \in Nat : \E g : Doubles(g, m)
<1> DEFINE P == {m \in Nat : \E g : Doubles(g, m)}
<1>1. 0 \in P
  <2>1. Doubles([n \in 0 .. 0 |-> 1], 0)
    BY DEF Doubles
  <2> QED BY <2>1
<1>2. ASSUME NEW x \in Nat, x \in P PROVE x + 1 \in P
  <2>1. PICK g : Doubles(g, x)
    BY <1>2
  <2> DEFINE h == [n \in 0 .. x + 1 |-> IF n = x + 1 THEN 2 * g[x] ELSE g[n]]
  <2>2. /\ x + 1 \in Nat /\ x + 1 # 0 /\ (x + 1) - 1 = x /\ x \in 0 .. x /\ x # x + 1
        /\ x \in 0 .. x + 1 /\ \A n \in 0 .. x + 1 : n = x + 1 \/ n \in 0 .. x
    OBVIOUS
  <2>3. h \in [0 .. x + 1 -> Nat]
    BY <2>1, <2>2 DEF Doubles
  <2>4. ASSUME NEW n \in 0 .. x + 1 PROVE h[n] = IF n = 0 THEN 1 ELSE 2 * h[n - 1]
    <3>1. CASE n = x + 1
      BY <2>1, <2>2, <3>1 DEF Doubles
    <3>2. CASE n # x + 1
      <4>1. n \in 0 .. x /\ (n # 0 => n - 1 \in 0 .. x + 1 /\ n - 1 # x + 1)
        BY <2>2, <3>2
      <4> QED BY <2>1, <3>2, <4>1 DEF Doubles
    <3> QED BY <3>1, <3>2
  <2>5. Doubles(h, x + 1)
    BY <2>3, <2>4, Zenon DEF Doubles
  <2> QED BY <2>2, <2>5
<1> HIDE DEF P
<1>3. \A m \in Nat : m \in P
  BY <1>1, <1>2, NumberInduction
<1> QED BY <1>3 DEF P

\* So what a model defines by recursion as the powers of two are those.
LEMMA PowersDefined ==
  ASSUME NEW m \in Nat, NEW e,
         e = CHOOSE g : g = [n \in 0 .. m |-> IF n = 0 THEN 1 ELSE 2 * g[n - 1]]
  PROVE  Doubles(e, m)
<1> DEFINE F(g) == [n \in 0 .. m |-> IF n = 0 THEN 1 ELSE 2 * g[n - 1]]
           P == {n \in Nat : n <= m => e[n] \in Nat}
<1>1. PICK g : Doubles(g, m)
  BY PowersExist
<1>2. g = F(g)
  BY <1>1 DEF Doubles
<1>3. e = F(e)
  BY <1>2
<1>4. \A n \in 0 .. m : e[n] = IF n = 0 THEN 1 ELSE 2 * e[n - 1]
  BY <1>3
<1>5. 0 \in P
  BY <1>4
<1>6. ASSUME NEW n \in Nat, n \in P PROVE n + 1 \in P
  <2>1. CASE n + 1 <= m
    <3>1. n + 1 \in 0 .. m /\ n + 1 # 0 /\ (n + 1) - 1 = n /\ n <= m
      BY <2>1
    <3> QED BY <1>4, <1>6, <3>1
  <2> QED BY <2>1
<1>7. \A n \in Nat : n \in P
  <2> HIDE DEF P
  <2> QED BY <1>5, <1>6, NumberInduction
<1>8. DOMAIN e = 0 .. m /\ e = [n \in 0 .. m |-> e[n]]
  BY <1>3
<1> QED BY <1>4, <1>7, <1>8, SMTT(60) DEF Doubles

\* A power of two is at least twice each one before it, and exponents add up.
LEMMA PowersGrow ==
  ASSUME NEW m \in Nat, NEW e, Doubles(e, m)
  PROVE  /\ \A n \in 0 .. m : e[n] \in Nat \ {0}
         /\ \A j, n \in 0 .. m : j < n => 2 * e[j] <= e[n]
         /\ \A j, n \in 0 .. m : j + n <= m => e[j + n] = e[j] * e[n]
<1>1. \A n \in 0 .. m : e[n] \in Nat /\ e[n] = IF n = 0 THEN 1 ELSE 2 * e[n - 1]
  BY DEF Doubles
<1> DEFINE P == {n \in Nat : n <= m => e[n] > 0 /\ \A j \in 0 .. n - 1 : 2 * e[j] <= e[n]}
<1>2. 0 \in P
  BY <1>1
<1>3. ASSUME NEW n \in Nat, n \in P PROVE n + 1 \in P
  <2>1. CASE n + 1 <= m
    <3>1. /\ n + 1 \in 0 .. m /\ n + 1 # 0 /\ (n + 1) - 1 = n /\ n <= m /\ n \in 0 .. m
          /\ \A j \in 0 .. n : j = n \/ j \in 0 .. n - 1
      BY <2>1
    <3>2. e[n + 1] = 2 * e[n] /\ e[n] \in Nat /\ e[n] > 0
      BY <1>1, <1>3, <3>1
    <3>3. \A j \in 0 .. n : e[j] \in Nat
      <4>1. \A j \in 0 .. n : j \in 0 .. m
        BY <3>1
      <4> QED BY <1>1, <4>1
    <3>4. \A j \in 0 .. n - 1 : 2 * e[j] <= e[n]
      BY <1>3, <3>1
    <3>5. e[n + 1] > 0 /\ \A j \in 0 .. n : 2 * e[j] <= e[n + 1]
      BY <3>1, <3>2, <3>3, <3>4
    <3> QED BY <3>1, <3>5
  <2> QED BY <2>1
<1>4. \A n \in Nat : n \in P
  <2> HIDE DEF P
  <2> QED BY <1>2, <1>3, NumberInduction
<1>5. \A j, n \in 0 .. m : j < n => j \in 0 .. n - 1 /\ n \in Nat /\ n <= m
  OBVIOUS
<1>6. \A j, n \in 0 .. m : j < n => 2 * e[j] <= e[n]
  BY <1>4, <1>5
<1>7. ASSUME NEW n \in 0 .. m PROVE e[n] \in Nat \ {0}
  <2>1. e[n] \in Nat /\ e[n] > 0
    BY <1>1, <1>4
  <2> QED BY <2>1
<1>8. ASSUME NEW j \in 0 .. m PROVE \A n \in 0 .. m : j + n <= m => e[j + n] = e[j] * e[n]
  <2> DEFINE Q == {n \in Nat : j + n <= m => e[j + n] = e[j] * e[n]}
  <2>1. 0 \in Q
    <3>1. j + 0 = j /\ e[0] = 1 /\ e[j] \in Nat
      BY <1>1
    <3> QED BY <3>1
  <2>2. ASSUME NEW n \in Nat, n \in Q PROVE n + 1 \in Q
    <3>1. CASE j + (n + 1) <= m
      <4>1. /\ j + n <= m /\ j + n \in 0 .. m /\ n \in 0 .. m
            /\ j + (n + 1) \in 0 .. m /\ j + (n + 1) # 0 /\ (j + (n + 1)) - 1 = j + n
            /\ n + 1 \in 0 .. m /\ n + 1 # 0 /\ (n + 1) - 1 = n
        BY <3>1
      <4>2. e[j + (n + 1)] = 2 * e[j + n] /\ e[n + 1] = 2 * e[n]
        BY <1>1, <4>1
      <4>3. e[j + n] = e[j] * e[n]
        BY <2>2, <4>1
      <4>4. e[j] \in Nat /\ e[n] \in Nat
        BY <1>1, <4>1
      <4>5. 2 * (e[j] * e[n]) = e[j] * (2 * e[n])
        BY <4>4
      <4> QED BY <4>2, <4>3, <4>5
    <3> QED BY <3>1
  <2>3. \A n \in Nat : n \in Q
    <3> HIDE DEF Q
    <3> QED BY <2>1, <2>2, NumberInduction
  <2> QED BY <2>3
<1> QED BY <1>6, <1>7, <1>8

\* A larger number is the smaller one and some more.
LEMMA Difference ==
  ASSUME NEW x \in Nat, NEW y \in Nat, x <= y
  PROVE  \E d \in Nat : y = x + d
<1>1. y - x \in Nat /\ y = x + (y - x)
  OBVIOUS
<1> QED BY <1>1

\* An integer quotient is the largest number of times s fits.
LEMMA DivFacts ==
  ASSUME NEW x \in Nat, NEW s \in Nat \ {0}
  PROVE  /\ x \div s \in Nat /\ s * (x \div s) <= x /\ x < s * (x \div s) + s
         /\ \A n \in Nat : s * n <= x => n <= x \div s
<1>1. x \div s \in Nat /\ s * (x \div s) <= x /\ x < s * (x \div s) + s
  OBVIOUS
<1>2. ASSUME NEW n \in Nat, s * n <= x PROVE n <= x \div s
  <2> DEFINE q == x \div s
  <2>1. q \in Nat /\ x < s * q + s
    BY <1>1
  <2> HIDE DEF q
  <2>2. SUFFICES ASSUME q + 1 <= n PROVE FALSE
    BY <2>1 DEF q
  <2>3. PICK d \in Nat : n = q + 1 + d
    BY <2>1, <2>2
  <2>4. s * n = s * q + s + s * d /\ s * d \in Nat
    BY <2>1, <2>3
  <2> QED BY <1>2, <2>1, <2>4
<1> QED BY <1>1, <1>2
=============================================================================
