----------------------------- MODULE MemoryProofs -----------------------------
(***************************************************************************)
(* Proofs about the memory of base/, for all sizes and any number of       *)
(* steps: the arena (Arena), from what its mask computes bit by bit to     *)
(* what a chain of blocks keeps, the allocator with its destructor records *)
(* (Allocator), and the chunk list and the map (Containers).  Each has one *)
(* inductive invariant and a lemma for each of its operations.             *)
(***************************************************************************)
EXTENDS Components, SequenceFacts

-----------------------------------------------------------------------------
(* The arena (module Arena): its masks, its pages, its blocks, its steps.  *)

\* The powers of two the model computes bits with.
LEMMA PowersOfArena ==
  ASSUME Width \in Nat
  PROVE  /\ \A n \in 0 .. Width : Ar!Power[n] \in Nat \ {0}
         /\ Ar!Power[0] = 1
         /\ \A n \in 0 .. Width - 1 : Ar!Power[n + 1] = 2 * Ar!Power[n]
         /\ \A j, n \in 0 .. Width : j < n => 2 * Ar!Power[j] <= Ar!Power[n]
         /\ \A j, n \in 0 .. Width : j + n <= Width => Ar!Power[j + n] = Ar!Power[j] * Ar!Power[n]
<1>1. Doubles(Ar!Power, Width)
  BY PowersDefined DEF Ar!Power
<1>2. /\ \A n \in 0 .. Width : Ar!Power[n] \in Nat \ {0}
      /\ \A j, n \in 0 .. Width : j < n => 2 * Ar!Power[j] <= Ar!Power[n]
      /\ \A j, n \in 0 .. Width : j + n <= Width => Ar!Power[j + n] = Ar!Power[j] * Ar!Power[n]
  BY <1>1, PowersGrow, Zenon
<1>3. \A n \in 0 .. Width : Ar!Power[n] = IF n = 0 THEN 1 ELSE 2 * Ar!Power[n - 1]
  BY <1>1, Zenon DEF Doubles
<1>4. 0 \in 0 .. Width /\ \A n \in 0 .. Width - 1 : n + 1 \in 0 .. Width /\ n + 1 # 0 /\ (n + 1) - 1 = n
  OBVIOUS
<1> QED BY <1>2, <1>3, <1>4

\* The bits of y above the k-th, the ones that its quotients by the powers lose.
LEMMA BitIsDifference ==
  ASSUME Width \in Nat, NEW y \in Nat, NEW n \in 0 .. Width - 1
  PROVE  LET d == y \div Ar!Power[n]  h == y \div Ar!Power[n + 1] IN
           /\ d \in Nat /\ h \in Nat
           /\ Ar!Bit(y, n) = d - 2 * h /\ Ar!Bit(y, n) \in {0, 1}
<1> DEFINE d == y \div Ar!Power[n]
           h == y \div Ar!Power[n + 1]
<1>1. PICK e \in Nat \ {0} : e = Ar!Power[n] /\ 2 * e = Ar!Power[n + 1]
  <2>1. n \in 0 .. Width
    OBVIOUS
  <2> QED BY <2>1, PowersOfArena
<1>2. d \in Nat /\ e * d <= y /\ y < e * d + e
  BY <1>1, DivFacts
<1>3. h \in Nat /\ (2 * e) * h <= y /\ y < (2 * e) * h + 2 * e
  <2>1. 2 * e \in Nat \ {0}
    OBVIOUS
  <2> QED BY <1>1, <2>1, DivFacts
<1>4. Ar!Bit(y, n) = d % 2
  BY DEF Ar!Bit
<1> HIDE DEF d, h
<1>5. (2 * e) * h = e * (2 * h) /\ e * (2 * h) + 2 * e = e * (2 * h + 2) /\ e * d + e = e * (d + 1)
  BY <1>2, <1>3
<1>6. e * d < e * (2 * h + 2) /\ e * (2 * h) < e * (d + 1)
  <2>1. e * d \in Nat /\ e * (2 * h + 2) \in Nat /\ e * (2 * h) \in Nat /\ e * (d + 1) \in Nat
    BY <1>2, <1>3
  <2> HIDE DEF d, h
  <2> QED BY <1>2, <1>3, <1>5, <2>1
<1>7. \A p, q \in Nat : e * p < e * q => p < q
  <2> SUFFICES ASSUME NEW p \in Nat, NEW q \in Nat, q <= p PROVE e * q <= e * p
    OBVIOUS
  <2>1. PICK r \in Nat : p = q + r
    BY Difference
  <2>2. e * p = e * q + e * r /\ e * r \in Nat /\ e * q \in Nat
    BY <2>1
  <2> QED BY <2>2
<1>8. d < 2 * h + 2 /\ 2 * h < d + 1
  <2>1. d \in Nat /\ 2 * h + 2 \in Nat /\ 2 * h \in Nat /\ d + 1 \in Nat
    BY <1>2, <1>3
  <2> QED BY <1>6, <1>7, <2>1
<1>9. d % 2 = d - 2 * h /\ d % 2 \in {0, 1}
  BY <1>2, <1>3, <1>8
<1> QED BY <1>2, <1>3, <1>4, <1>9 DEF d, h

\* A power of two less one has the bits below its own and no other.
LEMMA BitsOfMask ==
  ASSUME Width \in Nat, NEW k \in 0 .. Width, NEW n \in 0 .. Width - 1
  PROVE  Ar!Bit(Ar!Power[k] - 1, n) = IF n < k THEN 1 ELSE 0
<1>1. PICK b \in Nat \ {0}, e \in Nat \ {0} : b = Ar!Power[k] /\ e = Ar!Power[n]
  <2>1. n \in 0 .. Width
    OBVIOUS
  <2> QED BY <2>1, PowersOfArena
<1>2. Ar!Bit(b - 1, n) = ((b - 1) \div e) % 2
  BY <1>1 DEF Ar!Bit
<1>3. CASE n < k
  <2>1. /\ k - n \in 0 .. Width /\ n + (k - n) = k /\ (k - n) - 1 \in 0 .. Width - 1
        /\ ((k - n) - 1) + 1 = k - n /\ n \in 0 .. Width /\ (k - n) - 1 \in 0 .. Width
    BY <1>3
  <2>2. PICK g \in Nat \ {0}, f \in Nat \ {0} :
          g = Ar!Power[(k - n) - 1] /\ f = Ar!Power[k - n] /\ f = 2 * g /\ b = e * f
    <3>1. Ar!Power[k - n] \in Nat \ {0} /\ Ar!Power[(k - n) - 1] \in Nat \ {0}
      BY <2>1, PowersOfArena, Zenon
    <3>2. Ar!Power[k - n] = 2 * Ar!Power[(k - n) - 1]
      BY <2>1, PowersOfArena, Zenon
    <3>3. Ar!Power[k] = Ar!Power[n] * Ar!Power[k - n]
      <4>1. n + (k - n) <= Width
        BY <2>1
      <4> QED BY <2>1, <4>1, PowersOfArena, Zenon
    <3> QED BY <1>1, <3>1, <3>2, <3>3
  <2>3. b - 1 = e * (f - 1) + (e - 1)
    BY <2>2
  <2>4. b - 1 \in Nat /\ f - 1 \in Nat
    BY <1>1, <2>2
  <2>5. PICK q \in Nat : q = (b - 1) \div e /\ e * q <= b - 1 /\ b - 1 < e * q + e
    BY <2>4, DivFacts
  <2>6. f - 1 <= q
    <3>1. e * (f - 1) <= b - 1
      <4>1. e * (f - 1) \in Nat
        BY <2>4
      <4> QED BY <2>3, <2>4, <4>1
    <3> QED BY <2>4, <2>5, <3>1, DivFacts
  <2>7. q <= f - 1
    <3> SUFFICES ASSUME f <= q PROVE FALSE
      BY <2>4
    <3>1. PICK r \in Nat : q = f + r
      BY Difference
    <3>2. e * q = e * f + e * r /\ e * r \in Nat /\ e * f \in Nat
      BY <3>1
    <3> QED BY <2>2, <2>5, <3>2
  <2>8. q = 2 * g - 1
    BY <2>2, <2>6, <2>7
  <2>9. q % 2 = 1
    BY <2>2, <2>8
  <2> QED BY <1>1, <1>2, <1>3, <2>5, <2>9
<1>4. CASE ~(n < k)
  <2>1. b <= e
    <3>1. CASE k = n
      BY <1>1, <3>1
    <3>2. CASE k < n
      <4>1. n \in 0 .. Width
        OBVIOUS
      <4>2. 2 * b <= e
        BY <1>1, <3>2, <4>1, PowersOfArena, Zenon
      <4> QED BY <4>2
    <3> QED BY <1>4, <3>1, <3>2
  <2>2. (b - 1) \div e = 0
    <3>1. b - 1 \in Nat /\ b - 1 < e
      BY <2>1
    <3>2. PICK q \in Nat : q = (b - 1) \div e /\ e * q <= b - 1
      BY <3>1, DivFacts
    <3>3. q = 0
      <4> SUFFICES ASSUME q # 0 PROVE FALSE
        OBVIOUS
      <4>1. PICK r \in Nat : q = 1 + r
        <5>1. 1 <= q
          BY <3>2
        <5> QED BY <5>1, Difference
      <4>2. e * q = e + e * r /\ e * r \in Nat
        BY <4>1
      <4> QED BY <3>1, <3>2, <4>2
    <3> QED BY <3>2, <3>3
  <2> QED BY <1>1, <1>2, <1>4, <2>2
<1> QED BY <1>3, <1>4

\* align_pow2 to a power of two is the next multiple of it (base_core.hpp align_pow2).
LEMMA AlignIsNextMultiple ==
  ASSUME Width \in Nat, NEW k \in 0 .. Width, NEW b, b = Ar!Power[k],
         NEW x \in Nat, x + b <= Ar!Power[Width]
  PROVE  \E q \in Nat : Ar!align_pow2(x, b) = b * q /\ x <= b * q /\ b * q < x + b
<1> DEFINE y == x + b - 1
           D(i) == y \div Ar!Power[i]
           F(f) == [i \in 0 .. Width |->
                     IF i = 0 THEN 0
                     ELSE f[i - 1] + Ar!Power[i - 1] * (Ar!Bit(x + b - 1, i - 1) * (1 - Ar!Bit(b - 1, i - 1)))]
           g == [i \in 0 .. Width |-> IF i <= k THEN 0 ELSE b * D(k) - Ar!Power[i] * D(i)]
           kept == CHOOSE f : f = F(f)
<1>1. b \in Nat \ {0} /\ y \in Nat /\ y < Ar!Power[Width] /\ Ar!Power[Width] \in Nat \ {0}
  <2>1. Width \in 0 .. Width
    OBVIOUS
  <2>2. Ar!Power[Width] \in Nat \ {0} /\ b \in Nat \ {0}
    BY <2>1, PowersOfArena
  <2> QED BY <2>2
<1>2. \A i \in 0 .. Width : D(i) \in Nat /\ Ar!Power[i] \in Nat \ {0}
  <2> SUFFICES ASSUME NEW i \in 0 .. Width PROVE D(i) \in Nat /\ Ar!Power[i] \in Nat \ {0}
    OBVIOUS
  <2>1. Ar!Power[i] \in Nat \ {0}
    BY PowersOfArena
  <2> QED BY <1>1, <2>1, DivFacts
<1>3. ASSUME NEW i \in 0 .. Width, i # 0
      PROVE  g[i] = g[i - 1] + Ar!Power[i - 1] * (Ar!Bit(x + b - 1, i - 1) * (1 - Ar!Bit(b - 1, i - 1)))
  <2>1. i - 1 \in 0 .. Width - 1 /\ i - 1 \in 0 .. Width /\ (i - 1) + 1 = i
    BY <1>3
  <2>2. PICK n : n = i - 1
    OBVIOUS
  <2>3. PICK m \in {0, 1} : m = Ar!Bit(b - 1, n) /\ m = IF n < k THEN 1 ELSE 0
    BY <2>1, <2>2, BitsOfMask
  <2>4. Ar!Bit(y, n) \in {0, 1} /\ Ar!Bit(y, n) = D(n) - 2 * D(i)
    BY <1>1, <2>1, <2>2, BitIsDifference
  <2>5. PICK e \in Nat \ {0} : e = Ar!Power[n] /\ 2 * e = Ar!Power[i]
    BY <2>1, <2>2, PowersOfArena
  <2>6. PICK t \in {0, 1} : t = Ar!Bit(y, n)
    BY <2>4
  <2>7. g[i] = IF i <= k THEN 0 ELSE b * D(k) - Ar!Power[i] * D(i)
    OBVIOUS
  <2>8. g[n] = IF n <= k THEN 0 ELSE b * D(k) - Ar!Power[n] * D(n)
    BY <2>1, <2>2
  <2>9. g[i] = g[n] + e * (t * (1 - m))
    <3>1. PICK di \in Nat, dn \in Nat, dk \in Nat : di = D(i) /\ dn = D(n) /\ dk = D(k)
      BY <1>2, <2>1, <2>2
    <3>2. t = dn - 2 * di
      BY <2>4, <2>6, <3>1
    <3>3. (2 * e) * di = e * (2 * di) /\ e * t = e * dn - e * (2 * di)
      BY <3>2
    <3>4. b * dk \in Int /\ e * dn \in Int /\ e * (2 * di) \in Int
      BY <1>1
    <3>5. CASE n < k
      <4>1. m = 1 /\ t * (1 - m) = 0 /\ e * (t * (1 - m)) = 0 /\ i <= k /\ n <= k
        BY <2>1, <2>2, <2>3, <3>5
      <4> HIDE DEF g, D
      <4> QED BY <2>7, <2>8, <4>1
    <3>6. CASE ~(n < k)
      <4>1. m = 0 /\ t * (1 - m) = t /\ ~(i <= k)
        BY <2>1, <2>2, <2>3, <3>6
      <4>2. g[i] = b * dk - e * (2 * di)
        BY <2>5, <2>7, <3>1, <3>3, <4>1
      <4>3. g[n] = b * dk - e * dn
        <5>1. CASE n = k
          <6>1. b * dk = e * dn /\ b * dk \in Nat
            BY <1>1, <2>5, <3>1, <5>1
          <6>2. g[n] = 0 /\ b * dk - e * dn = 0
            BY <2>8, <5>1, <6>1
          <6> QED BY <6>2
        <5>2. CASE n # k
          <6>1. ~(n <= k)
            BY <2>1, <2>2, <3>6, <5>2
          <6> HIDE DEF g, D
          <6> QED BY <2>5, <2>8, <3>1, <6>1
        <5> QED BY <5>1, <5>2
      <4>4. PICK u, v, w \in Int : u = b * dk /\ v = e * (2 * di) /\ w = e * dn
        BY <3>4
      <4>5. e * (t * (1 - m)) = w - v
        BY <3>3, <4>1, <4>4
      <4>6. g[i] = u - v /\ g[n] = u - w
        BY <4>2, <4>3, <4>4
      <4> HIDE DEF g, D
      <4> QED BY <4>4, <4>5, <4>6
    <3> QED BY <3>5, <3>6
  <2>10. x + b - 1 = y
    OBVIOUS
  <2> HIDE DEF g, D, y
  <2> QED BY <2>2, <2>3, <2>5, <2>6, <2>9, <2>10, Zenon
<1>4. g = F(g)
  <2>1. ASSUME NEW i \in 0 .. Width PROVE g[i] = F(g)[i]
    <3>1. CASE i = 0
      <4>1. 0 \in 0 .. Width /\ 0 <= k
        OBVIOUS
      <4> QED BY <3>1, <4>1
    <3>2. CASE i # 0
      <4>1. F(g)[i] = g[i - 1] + Ar!Power[i - 1] * (Ar!Bit(x + b - 1, i - 1) * (1 - Ar!Bit(b - 1, i - 1)))
        BY <3>2
      <4> HIDE DEF F, g
      <4> QED BY <1>3, <3>2, <4>1
    <3> QED BY <3>1, <3>2
  <2>2. g = [i \in 0 .. Width |-> g[i]] /\ F(g) = [i \in 0 .. Width |-> F(g)[i]]
    OBVIOUS
  <2> HIDE DEF g, F
  <2> QED BY <2>1, <2>2, Zenon
<1>5. kept = F(kept)
  <2> HIDE DEF g, F
  <2> QED BY <1>4, Zenon
<1>6. \A i \in Nat : i <= Width => kept[i] = g[i]
  <2> DEFINE Same == {i \in Nat : i <= Width => kept[i] = g[i]}
  <2>1. \A i \in 0 .. Width : kept[i] = F(kept)[i] /\ g[i] = F(g)[i]
    <3> HIDE DEF F, kept, g
    <3> QED BY <1>4, <1>5
  <2> HIDE DEF kept, g
  <2>2. 0 \in Same
    <3>1. 0 \in 0 .. Width
      OBVIOUS
    <3> QED BY <2>1, <3>1
  <2>3. ASSUME NEW i \in Nat, i \in Same PROVE i + 1 \in Same
    <3>1. CASE i + 1 <= Width
      <4>1. i + 1 \in 0 .. Width /\ i + 1 # 0 /\ (i + 1) - 1 = i /\ i <= Width
        BY <3>1
      <4>2. kept[i] = g[i]
        BY <2>3, <4>1
      <4>3. F(kept)[i + 1] = F(g)[i + 1]
        BY <4>1, <4>2
      <4> HIDE DEF F
      <4> QED BY <2>1, <4>1, <4>3
    <3> QED BY <3>1
  <2> HIDE DEF Same
  <2>4. \A i \in Nat : i \in Same
    BY <2>2, <2>3, NumberInduction
  <2> QED BY <2>4 DEF Same
<1>7. Ar!align_pow2(x, b) = kept[Width]
  BY DEF Ar!align_pow2
<1>8. kept[Width] = b * D(k)
  <2>1. D(Width) = 0
    <3>1. PICK w \in Nat \ {0} : w = Ar!Power[Width]
      BY <1>1
    <3>2. PICK q \in Nat : q = D(Width) /\ w * q <= y
      BY <1>1, <3>1, DivFacts
    <3> HIDE DEF D, y
    <3>3. SUFFICES ASSUME q # 0 PROVE FALSE
      BY <3>2
    <3>4. PICK r \in Nat : q = 1 + r
      <4>1. 1 <= q
        BY <3>3
      <4> QED BY <4>1, Difference
    <3>5. w * q = w + w * r /\ w * r \in Nat
      BY <3>4
    <3> QED BY <1>1, <3>1, <3>2, <3>5
  <2>2. g[Width] = b * D(k)
    <3>1. Width \in 0 .. Width
      OBVIOUS
    <3>2. CASE Width <= k
      <4>1. k = Width
        BY <3>2
      <4>2. g[Width] = 0
        BY <3>1, <3>2
      <4> HIDE DEF g, D
      <4> QED BY <1>1, <2>1, <4>1, <4>2
    <3>3. CASE ~(Width <= k)
      <4>1. g[Width] = b * D(k) - Ar!Power[Width] * D(Width)
        BY <3>1, <3>3
      <4>2. Ar!Power[Width] * 0 = 0 /\ b * D(k) \in Int
        BY <1>1, <1>2
      <4> HIDE DEF g, D
      <4> QED BY <2>1, <4>1, <4>2
    <3> QED BY <3>2, <3>3
  <2>3. kept[Width] = g[Width]
    <3> HIDE DEF kept, g
    <3> QED BY <1>6
  <2> HIDE DEF kept, g, D
  <2> QED BY <2>2, <2>3
<1>9. D(k) \in Nat /\ b * D(k) <= y /\ y < b * D(k) + b
  BY <1>1, DivFacts
<1>10. x <= b * D(k) /\ b * D(k) < x + b
  <2>1. b * D(k) \in Nat
    BY <1>1, <1>9
  <2>2. y = x + b - 1
    OBVIOUS
  <2> HIDE DEF D, y
  <2> QED BY <1>1, <1>9, <2>1, <2>2
<1> HIDE DEF D, kept
<1> QED BY <1>7, <1>8, <1>9, <1>10

-----------------------------------------------------------------------------
Multiple(x, b) == \E q \in Nat : x = b * q

\* Multiples are what leaves no remainder.
LEMMA MultipleFacts ==
  ASSUME NEW x \in Nat, NEW b \in Nat \ {0}
  PROVE  /\ Multiple(x, b) <=> x % b = 0
         /\ x - (x % b) \in Nat /\ Multiple(x - (x % b), b) /\ x < (x - (x % b)) + b
         /\ \A y \in Nat : Multiple(x, b) /\ Multiple(y, b) /\ x <= y /\ y < x + b => x = y
<1>1. PICK q \in Nat : q = x \div b /\ b * q <= x /\ x < b * q + b
  BY DivFacts
<1>2. PICK r \in Nat : r = x % b /\ r < b
  OBVIOUS
<1>3. x = b * q + r
  BY <1>1, <1>2
<1>4. b * q \in Nat
  BY <1>1
<1>5. x - r = b * q
  BY <1>2, <1>3, <1>4
<1>6. ASSUME NEW p \in Nat, x = b * p PROVE p = q /\ r = 0
  <2>1. CASE p <= q
    <3>1. PICK d \in Nat : q = p + d
      BY <2>1, Difference
    <3>2. b * q = b * p + b * d /\ b * d \in Nat /\ b * p \in Nat
      BY <3>1
    <3>3. b * d + r = 0
      BY <1>3, <1>6, <3>2
    <3>4. d = 0 /\ r = 0
      <4>1. PICK u \in Nat : u = b * d
        BY <3>2
      <4>2. u = 0 /\ r = 0
        <5>1. u + r = 0
          BY <3>3, <4>1
        <5> QED BY <5>1
      <4>3. d <= u
        BY <4>1
      <4> QED BY <4>2, <4>3
    <3> QED BY <3>1, <3>4
  <2>2. CASE q < p
    <3>1. PICK d \in Nat : p = (q + 1) + d
      <4>1. q + 1 <= p
        BY <2>2
      <4> QED BY <4>1, Difference
    <3>2. b * p = (b * q + b) + b * d /\ b * d \in Nat
      BY <3>1
    <3> QED BY <1>1, <1>4, <1>6, <3>2
  <2> QED BY <2>1, <2>2
<1>7. Multiple(x, b) <=> r = 0
  <2>1. r = 0 => x = b * q
    BY <1>3, <1>4
  <2> QED BY <1>6, <2>1, Zenon DEF Multiple
<1>8. ASSUME NEW y \in Nat, Multiple(x, b), Multiple(y, b), x <= y, y < x + b PROVE x = y
  <2>1. PICK m \in Nat, n \in Nat : x = b * m /\ y = b * n
    BY <1>8 DEF Multiple
  <2>2. CASE n <= m
    <3>1. PICK d \in Nat : m = n + d
      BY <2>2, Difference
    <3>2. b * m = b * n + b * d /\ b * d \in Nat
      BY <3>1
    <3> QED BY <1>8, <2>1, <3>2
  <2>3. CASE m < n
    <3>1. PICK d \in Nat : n = (m + 1) + d
      <4>1. m + 1 <= n
        BY <2>3
      <4> QED BY <4>1, Difference
    <3>2. b * n = (b * m + b) + b * d /\ b * d \in Nat
      BY <3>1
    <3> QED BY <1>8, <2>1, <3>2
  <2> QED BY <2>2, <2>3
<1>9. Multiple(x - r, b)
  BY <1>1, <1>5 DEF Multiple
<1>10. x - r \in Nat /\ x < (x - r) + b
  BY <1>2, <1>3, <1>4, <1>5
<1> QED BY <1>2, <1>7, <1>8, <1>9, <1>10, Zenon

Powers == {Ar!Power[n] : n \in 0 .. Width}

\* align_pow2 to a power of two, as its callers count on it.
LEMMA AlignFacts ==
  ASSUME Width \in Nat, NEW b \in Powers, NEW x \in Nat, x + b <= Ar!Power[Width]
  PROVE  /\ b \in Nat \ {0}
         /\ Ar!align_pow2(x, b) \in Nat /\ Multiple(Ar!align_pow2(x, b), b)
         /\ x <= Ar!align_pow2(x, b) /\ Ar!align_pow2(x, b) < x + b
         /\ x % b = 0 => Ar!align_pow2(x, b) = x
<1>1. PICK k \in 0 .. Width : b = Ar!Power[k]
  BY DEF Powers
<1>2. PICK q \in Nat : Ar!align_pow2(x, b) = b * q /\ x <= b * q /\ b * q < x + b
  BY <1>1, AlignIsNextMultiple
<1>3. b \in Nat \ {0}
  BY <1>1, PowersOfArena
<1>4. PICK y \in Nat : y = Ar!align_pow2(x, b) /\ y = b * q
  BY <1>2, <1>3
<1>5. Multiple(y, b)
  BY <1>4 DEF Multiple
<1>6. x % b = 0 => y = x
  BY <1>2, <1>3, <1>4, <1>5, MultipleFacts
<1> QED BY <1>2, <1>3, <1>4, <1>5, <1>6

\* A multiple of a power of two is one of every smaller power.
LEMMA PowersDivide ==
  ASSUME Width \in Nat, NEW b \in Powers, NEW c \in Powers, b <= c, NEW x, Multiple(x, c)
  PROVE  Multiple(x, b)
<1>1. PICK j \in 0 .. Width, n \in 0 .. Width : b = Ar!Power[j] /\ c = Ar!Power[n]
  BY DEF Powers
<1>2. b \in Nat \ {0} /\ c \in Nat \ {0}
  BY <1>1, PowersOfArena
<1>3. j <= n
  <2> SUFFICES ASSUME n < j PROVE FALSE
    OBVIOUS
  <2>1. 2 * c <= b
    BY <1>1, PowersOfArena, Zenon
  <2> QED BY <1>2, <2>1
<1>4. n - j \in 0 .. Width /\ j + (n - j) = n /\ n <= Width
  BY <1>3
<1>5. PICK d \in Nat : d = Ar!Power[n - j]
  BY <1>4, PowersOfArena
<1>6. c = b * d
  <2>1. Ar!Power[j + (n - j)] = Ar!Power[j] * Ar!Power[n - j]
    BY <1>4, PowersOfArena
  <2> QED BY <1>1, <1>4, <1>5, <2>1
<1>7. PICK q \in Nat : x = c * q
  BY DEF Multiple
<1>8. x = b * (d * q) /\ d * q \in Nat
  BY <1>2, <1>5, <1>6, <1>7
<1> QED BY <1>8 DEF Multiple

-----------------------------------------------------------------------------
\* What a commit of pages backs, and what a decommit takes, starting at a page.
LEMMA PagesFacts ==
  ASSUME NEW P \in Nat \ {0}, P = PageSize, NEW k, NEW from \in Nat, NEW to \in Nat,
         Multiple(from, P)
  PROVE  /\ \A p \in Nat : from <= p * P /\ p * P < to => <<k, p>> \in Ar!PagesMoved(k, from, to)
         /\ \A j, p : <<j, p>> \in Ar!PagesMoved(k, from, to) => j = k /\ from <= p * P
<1>1. from % P = 0
  BY MultipleFacts
<1>2. Ar!PagesMoved(k, from, to) =
        IF from >= to THEN {} ELSE {k} \X (from \div P .. (to - 1) \div P)
  BY <1>1 DEF Ar!PagesMoved, Ar!PagesOf
<1>3. PICK m \in Nat : m = from \div P /\ P * m <= from /\ from < P * m + P
  BY DivFacts
<1>4. from = P * m
  <2>2. P * m \in Nat
    BY <1>3
  <2>3. Multiple(P * m, P)
    BY <1>3 DEF Multiple
  <2> QED BY <1>3, <2>2, <2>3, MultipleFacts
<1>5. ASSUME NEW p \in Nat, from <= p * P, p * P < to PROVE <<k, p>> \in Ar!PagesMoved(k, from, to)
  <2>1. from < to /\ to - 1 \in Nat
    <3>1. p * P \in Nat
      BY <1>5
    <3> QED BY <1>5, <3>1
  <2>2. P * p <= to - 1 /\ p * P = P * p
    <3>1. p * P \in Nat /\ p * P = P * p
      BY <1>5
    <3> QED BY <1>5, <3>1
  <2>3. p <= (to - 1) \div P /\ (to - 1) \div P \in Nat
    BY <2>1, <2>2, DivFacts
  <2>4. m <= p
    <3> SUFFICES ASSUME p < m PROVE FALSE
      BY <1>3
    <3>1. PICK d \in Nat : m = (p + 1) + d
      <4>1. p + 1 <= m
        OBVIOUS
      <4> QED BY <4>1, Difference
    <3>2. P * m = (P * p + P) + P * d /\ P * d \in Nat /\ P * p \in Nat
      BY <3>1
    <3> QED BY <1>4, <1>5, <2>2, <3>2
  <2>5. p \in m .. (to - 1) \div P
    BY <2>3, <2>4
  <2> QED BY <1>2, <1>3, <2>1, <2>5
<1>6. ASSUME NEW j, NEW p, <<j, p>> \in Ar!PagesMoved(k, from, to) PROVE j = k /\ from <= p * P
  <2>1. j = k /\ p \in m .. (to - 1) \div P
    BY <1>2, <1>3, <1>6
  <2>2. PICK d \in Nat : p = m + d
    BY <2>1
  <2>3. p * P = P * m + P * d /\ P * d \in Nat
    BY <2>2
  <2> QED BY <1>4, <2>1, <2>3
<1> QED BY <1>5, <1>6

\* The pages of a region that ends before what is committed are backed.
LEMMA RegionPagesBacked ==
  ASSUME NEW P \in Nat \ {0}, P = PageSize, NEW k, NEW from \in Nat, NEW to \in Nat,
         NEW top \in Nat, to <= top, NEW c,
         \A p \in Nat : p * P < top => <<k, p>> \in c
  PROVE  Ar!PagesOf(k, from, to) \subseteq c
<1> SUFFICES ASSUME from < to, NEW p \in from \div P .. (to - 1) \div P PROVE <<k, p>> \in c
  BY DEF Ar!PagesOf
<1>1. to - 1 \in Nat
  OBVIOUS
<1>2. PICK m \in Nat, h \in Nat : m = from \div P /\ h = (to - 1) \div P /\ P * h <= to - 1
  BY <1>1, DivFacts
<1>3. PICK d \in Nat : p \in Nat /\ h = p + d
  <2>1. p \in m .. h
    BY <1>2
  <2>2. p \in Nat /\ p <= h
    BY <1>2, <2>1
  <2> QED BY <1>2, <2>2, Difference
<1>4. P * h = p * P + P * d /\ P * d \in Nat /\ p * P \in Nat
  BY <1>3
<1>5. p * P < top
  BY <1>2, <1>4
<1> QED BY <1>3, <1>5

\* A chain cut at the k-th block, with b in its place.
LEMMA CutFacts ==
  ASSUME NEW S, NEW s \in Seq(S), NEW k \in 1 .. Len(s) + 1, NEW b \in S
  PROVE  LET r == SubSeq(s, 1, k - 1) \o <<b>> IN
           /\ r \in Seq(S) /\ Len(r) = k /\ r # <<>> /\ r[k] = b
           /\ \A i \in 1 .. k - 1 : r[i] = s[i]
<1>1. PICK n \in Nat : n = k - 1 /\ n <= Len(s) /\ Len(s) \in Nat
  OBVIOUS
<1> DEFINE f == SubSeq(s, 1, n)
<1>2. \A i \in 1 .. n : s[i] \in S
  BY <1>1
<1>3. /\ f \in Seq(S) /\ Len(f) = IF 1 <= n THEN n - 1 + 1 ELSE 0
      /\ \A i \in 1 .. n - 1 + 1 : f[i] = s[1 + i - 1]
  BY <1>1, <1>2, SubSeqProperties
<1>4. n - 1 + 1 = n /\ \A i \in 1 .. n : 1 + i - 1 = i
  OBVIOUS
<1>5. Len(f) = n /\ \A i \in 1 .. n : f[i] = s[i]
  BY <1>3, <1>4
<1> HIDE DEF f
<1>6. /\ Append(f, b) \in Seq(S) /\ Len(Append(f, b)) = n + 1
      /\ \A i \in 1 .. n : Append(f, b)[i] = f[i]
      /\ Append(f, b)[n + 1] = b
  BY <1>3, <1>5, AppendAt
<1>7. f \o <<b>> = Append(f, b)
  BY <1>3
<1>8. n + 1 = k
  BY <1>1
<1>9. Append(f, b) # <<>>
  BY <1>1, <1>6
<1> QED BY <1>1, <1>5, <1>6, <1>7, <1>8, <1>9 DEF f

-----------------------------------------------------------------------------
(* The steps of the arena, and its theorem.                                 *)

\* What the sizes an arena is right for give each block that it asks for.
LEMMA ParamsFacts ==
  ASSUME Ar!ArenaFits, NEW r, NEW c, <<r, c>> \in Ar!BlockParams
  PROVE  /\ Width \in Nat /\ Header \in Nat \ {0} /\ PageSize \in Powers /\ PageSize \in Nat \ {0}
         /\ r \in Nat /\ c \in Powers /\ c \in Nat \ {0}
         /\ Header <= r /\ c <= r /\ PageSize <= c /\ ReserveSize <= r /\ ReserveSize \in Nat
         /\ Ar!Power[Width] \in Nat
         /\ r + PageSize + c <= Ar!Power[Width]
         /\ \A align \in Aligns : /\ align \in Powers /\ align \in Nat \ {0}
                                  /\ r + PageSize + align <= Ar!Power[Width]
<1>1. /\ Width \in Nat /\ Header \in Nat \ {0} /\ Sizes \subseteq Nat
      /\ PageSize \in Powers /\ Aligns \subseteq Powers
      /\ \A p \in Ar!BlockParams :
            /\ p[1] \in Nat /\ p[2] \in Powers
            /\ Header <= p[1] /\ p[2] <= p[1] /\ PageSize <= p[2]
            /\ p[1] + PageSize + p[2] <= Ar!Power[Width]
            /\ \A align \in Aligns : p[1] + PageSize + align <= Ar!Power[Width]
      /\ \A size \in Sizes, align \in Aligns : size + Header + align <= Ar!Power[Width]
  BY Zenon DEF Ar!ArenaFits, Powers
<1>2. \A b \in Powers : b \in Nat \ {0}
  BY <1>1, PowersOfArena DEF Powers
<1>3. Ar!Power[Width] \in Nat
  <2>1. Width \in 0 .. Width
    BY <1>1
  <2> QED BY <1>1, <2>1, PowersOfArena
<1>4. <<r, c>>[1] = r /\ <<r, c>>[2] = c
  OBVIOUS
<1>5. /\ r \in Nat /\ c \in Powers /\ Header <= r /\ c <= r /\ PageSize <= c
      /\ r + PageSize + c <= Ar!Power[Width]
      /\ \A align \in Aligns : r + PageSize + align <= Ar!Power[Width]
  BY <1>1, <1>4
<1>6. ReserveSize \in Nat
  <2>1. <<ReserveSize, CommitSize>> \in Ar!BlockParams
    BY DEF Ar!BlockParams
  <2>2. <<ReserveSize, CommitSize>>[1] \in Nat
    BY <1>1, <2>1
  <2> QED BY <2>2
<1>7. ReserveSize <= r
  <2>1. CASE r = ReserveSize
    BY <1>6, <2>1
  <2>2. CASE r \in Ar!OwnSizes
    <3>1. PICK q \in Sizes \X Aligns : q[1] + Header > ReserveSize /\ r = Ar!align_pow2(q[1] + Header, q[2])
      BY <2>2 DEF Ar!OwnSizes
    <3>2. PICK size \in Nat, b \in Powers :
            size = q[1] /\ b = q[2] /\ size + Header + b <= Ar!Power[Width]
      BY <1>1
    <3>3. size + Header \in Nat
      BY <1>1
    <3>4. size + Header <= Ar!align_pow2(size + Header, b)
      BY <1>1, <3>2, <3>3, AlignFacts
    <3> QED BY <1>1, <1>5, <1>6, <3>1, <3>2, <3>3, <3>4
  <2>3. r = ReserveSize \/ r \in Ar!OwnSizes
    <3>1. <<r, c>> = <<ReserveSize, CommitSize>> \/ \E n \in Ar!OwnSizes : <<r, c>> = <<n, n>>
      BY DEF Ar!BlockParams
    <3> QED BY <3>1
  <2> QED BY <2>1, <2>2, <2>3
<1> QED BY <1>1, <1>2, <1>3, <1>5, <1>6, <1>7

BlockRecord == [base_pos : Nat, pos : Nat, cmt : Nat, res : Nat, cmt_size : Nat, res_size : Nat]

\* A block's position is within its reservation, and it commits whole pages.
BlockFits(b) ==
  /\ Header <= b.pos /\ b.pos <= b.res /\ Multiple(b.cmt, PageSize)
  /\ <<b.res_size, b.cmt_size>> \in Ar!BlockParams
  /\ b.res = Ar!align_pow2(b.res_size, PageSize)

\* The sizes of a block that fits.
LEMMA BlockRoom ==
  ASSUME Ar!ArenaFits, NEW b \in BlockRecord,
         <<b.res_size, b.cmt_size>> \in Ar!BlockParams,
         b.res = Ar!align_pow2(b.res_size, PageSize)
  PROVE  /\ b.res_size <= b.res /\ Multiple(b.res, PageSize)
         /\ b.res + b.cmt_size <= Ar!Power[Width]
         /\ \A align \in Aligns : b.res + align <= Ar!Power[Width]
<1>1. PICK r \in Nat, c \in Nat, m \in Nat, P \in Nat \ {0}, W \in Nat :
        /\ r = b.res_size /\ c = b.cmt_size /\ m = b.res /\ P = PageSize /\ W = Ar!Power[Width]
        /\ r + P + c <= W /\ \A align \in Aligns : align \in Nat /\ r + P + align <= W
  <2>1. b.res_size \in Nat /\ b.cmt_size \in Nat /\ b.res \in Nat
    BY DEF BlockRecord
  <2>2. /\ PageSize \in Nat \ {0} /\ Ar!Power[Width] \in Nat
        /\ b.res_size + PageSize + b.cmt_size <= Ar!Power[Width]
        /\ \A align \in Aligns : /\ align \in Nat \ {0}
                                 /\ b.res_size + PageSize + align <= Ar!Power[Width]
    BY ParamsFacts, Zenon
  <2> QED BY <2>1, <2>2
<1>2. r + P <= W
  BY <1>1
<1>3. r <= m /\ m < r + P /\ Multiple(m, P)
  <2>1. Width \in Nat /\ P \in Powers
    BY <1>1, ParamsFacts
  <2> QED BY <1>1, <1>2, <2>1, AlignFacts
<1>4. m + c <= W /\ \A align \in Aligns : m + align <= W
  BY <1>1, <1>3
<1> QED BY <1>1, <1>3, <1>4

\* A new block is a block that fits, with nothing but its header in use.
LEMMA NewBlockFits ==
  ASSUME Ar!ArenaFits, NEW r, NEW c, <<r, c>> \in Ar!BlockParams, NEW base \in Nat
  PROVE  LET b == Ar!arena_alloc(r, c, base) IN
           /\ b \in BlockRecord /\ BlockFits(b)
           /\ b.base_pos = base /\ b.pos = Header /\ r <= b.res
           /\ b.cmt = c /\ b.cmt = Ar!align_pow2(c, PageSize)
<1>1. PICK P \in Nat \ {0}, W \in Nat, H \in Nat \ {0} :
        /\ P = PageSize /\ W = Ar!Power[Width] /\ H = Header /\ Width \in Nat /\ P \in Powers
        /\ r \in Nat /\ c \in Powers /\ c \in Nat \ {0}
        /\ H <= r /\ c <= r /\ P <= c /\ r + P + c <= W
  BY ParamsFacts, Zenon
<1>2. r + P <= W /\ c + P <= W
  BY <1>1
<1>3. PICK m \in Nat : m = Ar!align_pow2(r, P) /\ r <= m
  BY <1>1, <1>2, AlignFacts
<1>4. Multiple(c, c)
  <2>1. c = c * 1
    BY <1>1
  <2> QED BY <2>1 DEF Multiple
<1>5. Multiple(c, P)
  BY <1>1, <1>4, PowersDivide
<1>6. c % P = 0
  BY <1>1, <1>5, MultipleFacts
<1>7. Ar!align_pow2(c, P) = c
  BY <1>1, <1>2, <1>6, AlignFacts
<1> DEFINE b == Ar!arena_alloc(r, c, base)
<1>8. b = [base_pos |-> base, pos |-> H, cmt |-> c, res |-> m, cmt_size |-> c, res_size |-> r]
  BY <1>1, <1>3, <1>7 DEF Ar!arena_alloc
<1> HIDE DEF b
<1>9. /\ b.base_pos = base /\ b.pos = H /\ b.cmt = c /\ b.res = m /\ b.cmt_size = c /\ b.res_size = r
      /\ b \in BlockRecord
  BY <1>1, <1>8 DEF BlockRecord
<1>10. H <= m
  BY <1>1, <1>3
<1>11. BlockFits(b)
  BY <1>1, <1>3, <1>5, <1>9, <1>10 DEF BlockFits
<1> QED BY <1>1, <1>3, <1>7, <1>9, <1>11 DEF b

\* A push that ends inside the reservation has what it ends behind committed.
LEMMA CommitFacts ==
  ASSUME Ar!ArenaFits, NEW b \in BlockRecord, BlockFits(b), NEW to \in Nat, to <= b.res
  PROVE  /\ Ar!CommitTo(b, to) \in Nat /\ Multiple(Ar!CommitTo(b, to), PageSize)
         /\ to <= Ar!CommitTo(b, to) /\ b.cmt <= Ar!CommitTo(b, to)
<1>1. PICK P \in Nat \ {0}, c \in Nat \ {0} :
        P = PageSize /\ c = b.cmt_size /\ P <= c /\ P \in Powers /\ c \in Powers /\ Width \in Nat
  BY ParamsFacts, Zenon DEF BlockFits
<1>2. PICK m \in Nat, old \in Nat :
        m = b.res /\ old = b.cmt /\ Multiple(m, P) /\ Multiple(old, P) /\ to <= m
  BY <1>1, BlockRoom DEF BlockFits, BlockRecord
<1>3. PICK up \in Nat : up = to + c - 1
  BY <1>1
<1>4. PICK n \in Nat : n = up - (up % c) /\ Multiple(n, c) /\ up < n + c
  BY MultipleFacts
<1>5. to <= n /\ Multiple(n, P)
  <2>1. to <= n
    BY <1>1, <1>3, <1>4
  <2> QED BY <1>1, <1>4, <2>1, PowersDivide
<1>6. Ar!CommitTo(b, to) = IF old < to THEN (IF n < m THEN n ELSE m) ELSE old
  BY <1>1, <1>2, <1>3, <1>4 DEF Ar!CommitTo, Ar!AtMost
<1>7. CASE old < to
  <2>1. CASE n < m
    BY <1>1, <1>2, <1>5, <1>6, <1>7, <2>1
  <2>2. CASE ~(n < m)
    BY <1>1, <1>2, <1>6, <1>7, <2>2
  <2> QED BY <2>1, <2>2
<1>8. CASE ~(old < to)
  BY <1>1, <1>2, <1>6, <1>8
<1> QED BY <1>7, <1>8

RegionRecord == [block : Nat, from : Nat, to : Nat, align : Aligns]
TempRecord == [pos : Nat, live : Nat]

\* The blocks lie one after another from position 0.
Blocks(a) ==
  /\ a \in Seq(BlockRecord) /\ a # <<>> /\ a[1].base_pos = 0
  /\ \A i \in 1 .. Len(a) : BlockFits(a[i])
  /\ \A i, j \in 1 .. Len(a) : i < j => a[i].base_pos + a[i].res <= a[j].base_pos

\* A region behind the header of a block of a, on what the block has committed.
RegionFits(a, r) ==
  /\ r.block \in 1 .. Len(a) /\ Header <= r.from /\ r.from <= r.to
  /\ r.to <= a[r.block].pos /\ r.to <= a[r.block].cmt /\ r.from % r.align = 0

Before(r, q) == r.block <= q.block /\ (r.block = q.block => r.to <= q.from)

Fitting(a, l) == l \in Seq(RegionRecord) /\ \A i \in 1 .. Len(l) : RegionFits(a, l[i])
Ordered(l) == \A i, j \in 1 .. Len(l) : i < j => Before(l[i], l[j])

\* The regions lie in the order of their pushes, and every block but the first has one.
Regions(a, l) ==
  /\ Fitting(a, l) /\ Ordered(l)
  /\ \A k \in 2 .. Len(a) : \E i \in 1 .. Len(l) : l[i].block = k

\* Where the first n regions of l end, by its block and position there.
EndBlock(l, n) == IF n = 0 THEN 1 ELSE l[n].block
EndPos(l, n) == IF n = 0 THEN Header ELSE l[n].to
End(a, l, n) == a[EndBlock(l, n)].base_pos + EndPos(l, n)

\* The arena ends with the last region.
EndsWith(a, l) == Len(a) = EndBlock(l, Len(l)) /\ a[Len(a)].pos = EndPos(l, Len(l))

\* What a block takes for committed the system has backed.
Backed(a, c) == \A k \in 1 .. Len(a) : \A p \in Nat : p * PageSize < a[k].cmt => <<k, p>> \in c

\* Each open scope has the position of the end of the regions it found.
Scopes(a, l, t) ==
  /\ t \in Seq(TempRecord)
  /\ \A i \in 1 .. Len(t) : t[i].live <= Len(l) /\ t[i].pos = End(a, l, t[i].live)
  /\ \A i, j \in 1 .. Len(t) : i < j => t[i].live <= t[j].live

\* The inductive invariant of the arena.
ArenaInv ==
  /\ ~aborted /\ Blocks(arena) /\ Regions(arena, live) /\ EndsWith(arena, live)
  /\ Backed(arena, committed) /\ Scopes(arena, live, temps)

\* Where regions end is in a block, behind its header, and a later end is further on.
LEMMA EndFacts ==
  ASSUME Ar!ArenaFits, NEW a, NEW l, Blocks(a), Fitting(a, l), NEW n \in 0 .. Len(l)
  PROVE  /\ EndBlock(l, n) \in 1 .. Len(a) /\ EndPos(l, n) \in Nat
         /\ Header <= EndPos(l, n) /\ EndPos(l, n) <= a[EndBlock(l, n)].pos
         /\ End(a, l, n) \in Nat /\ Header <= End(a, l, n)
         /\ a[EndBlock(l, n)].base_pos < End(a, l, n)
         /\ \A j \in EndBlock(l, n) + 1 .. Len(a) : End(a, l, n) <= a[j].base_pos
<1>1. Header \in Nat \ {0}
  BY DEF Ar!ArenaFits
<1>2. Len(a) \in Nat /\ 1 \in 1 .. Len(a) /\ \A i \in 1 .. Len(a) : a[i] \in BlockRecord
  BY DEF Blocks
<1>3. Len(l) \in Nat /\ \A i \in 1 .. Len(l) : l[i] \in RegionRecord /\ RegionFits(a, l[i])
  BY DEF Regions, Fitting, Ordered
<1>4. PICK k : k = EndBlock(l, n)
  OBVIOUS
<1>5. PICK p : p = EndPos(l, n)
  OBVIOUS
<1>6. k \in 1 .. Len(a) /\ p \in Nat /\ Header <= p /\ p <= a[k].pos
  <2>1. CASE n = 0
    <3>1. k = 1 /\ p = Header
      BY <1>4, <1>5, <2>1 DEF EndBlock, EndPos
    <3>2. Header <= a[1].pos
      BY <1>2 DEF Blocks, BlockFits
    <3> QED BY <1>1, <1>2, <3>1, <3>2
  <2>2. CASE n # 0
    <3>1. k = l[n].block /\ p = l[n].to
      BY <1>4, <1>5, <2>2 DEF EndBlock, EndPos
    <3>2. n \in 1 .. Len(l)
      BY <1>3, <2>2
    <3>3. /\ l[n].from \in Nat /\ l[n].to \in Nat /\ l[n].block \in 1 .. Len(a)
          /\ Header <= l[n].from /\ l[n].from <= l[n].to /\ l[n].to <= a[l[n].block].pos
      BY <1>3, <3>2 DEF RegionFits, RegionRecord
    <3>4. Header <= l[n].to
      BY <1>1, <3>3
    <3> QED BY <3>1, <3>3, <3>4
  <2> QED BY <2>1, <2>2
<1>7. a[k].base_pos \in Nat /\ a[k].pos \in Nat /\ a[k].res \in Nat /\ a[k].pos <= a[k].res
  BY <1>2, <1>6 DEF Blocks, BlockFits, BlockRecord
<1>8. End(a, l, n) = a[k].base_pos + p
  BY <1>4, <1>5 DEF End
<1>9. ASSUME NEW j \in k + 1 .. Len(a) PROVE a[k].base_pos + p <= a[j].base_pos
  <2>1. j \in 1 .. Len(a) /\ k < j
    BY <1>2, <1>6
  <2>2. a[k].base_pos + a[k].res <= a[j].base_pos /\ a[j].base_pos \in Nat
    BY <1>2, <1>6, <2>1 DEF Blocks, BlockRecord
  <2> QED BY <1>6, <1>7, <2>2
<1>10. a[k].base_pos + p \in Nat /\ Header <= a[k].base_pos + p /\ a[k].base_pos < a[k].base_pos + p
  BY <1>1, <1>6, <1>7
<1> QED BY <1>4, <1>5, <1>6, <1>8, <1>9, <1>10

\* A region ends before every region pushed after it.
LEMMA RegionsApart ==
  ASSUME Ar!ArenaFits, NEW a, NEW l, Blocks(a), Regions(a, l),
         NEW i \in 1 .. Len(l), NEW j \in 1 .. Len(l), i < j
  PROVE  a[l[i].block].base_pos + l[i].to <= a[l[j].block].base_pos + l[j].from
<1>1. /\ l[i] \in RegionRecord /\ l[j] \in RegionRecord
      /\ RegionFits(a, l[i]) /\ RegionFits(a, l[j]) /\ Before(l[i], l[j])
  BY DEF Regions, Fitting, Ordered
<1>2. PICK k \in 1 .. Len(a), m \in 1 .. Len(a) : k = l[i].block /\ m = l[j].block
  BY <1>1 DEF RegionFits
<1>3. a[k] \in BlockRecord /\ a[m] \in BlockRecord /\ BlockFits(a[k]) /\ Len(a) \in Nat
  BY DEF Blocks
<1>4. /\ l[i].to \in Nat /\ l[j].from \in Nat /\ a[k].base_pos \in Nat /\ a[m].base_pos \in Nat
      /\ a[k].pos \in Nat /\ a[k].res \in Nat
      /\ l[i].to <= a[k].pos /\ a[k].pos <= a[k].res
  BY <1>1, <1>2, <1>3 DEF RegionRecord, BlockRecord, RegionFits, BlockFits
<1>5. CASE k = m
  <2>1. l[i].to <= l[j].from
    BY <1>1, <1>2, <1>5 DEF Before
  <2> QED BY <1>2, <1>4, <1>5, <2>1
<1>6. CASE k < m
  <2>1. a[k].base_pos + a[k].res <= a[m].base_pos
    BY <1>6 DEF Blocks
  <2>2. \A u, v, p, e, f, g \in Nat : p <= e /\ e <= f /\ u + f <= v => u + p <= v + g
    OBVIOUS
  <2>3. a[k].base_pos + l[i].to <= a[m].base_pos + l[j].from
    BY <1>4, <2>1, <2>2
  <2> QED BY <1>2, <2>3
<1>7. k <= m
  BY <1>1, <1>2 DEF Before
<1> QED BY <1>2, <1>3, <1>5, <1>6, <1>7

\* What the invariant says is what the arena promises.
LEMMA ArenaInvSound == Ar!ArenaFits /\ ArenaInv => ArenaSound
<1> SUFFICES ASSUME Ar!ArenaFits, ArenaInv PROVE ArenaSound
  OBVIOUS
<1>1. /\ ~aborted /\ Blocks(arena) /\ Regions(arena, live) /\ EndsWith(arena, live)
      /\ Backed(arena, committed) /\ Scopes(arena, live, temps)
  BY DEF ArenaInv
<1>2. Len(arena) \in Nat /\ \A i \in 1 .. Len(arena) : arena[i] \in BlockRecord /\ BlockFits(arena[i])
  BY <1>1 DEF Blocks
<1>3. /\ Len(live) \in Nat
      /\ \A i \in 1 .. Len(live) : live[i] \in RegionRecord /\ RegionFits(arena, live[i])
      /\ \A i, j \in 1 .. Len(live) : i < j => Before(live[i], live[j])
  BY <1>1 DEF Regions, Fitting, Ordered
<1>4. PICK P \in Nat \ {0} : P = PageSize
  <2>1. Width \in Nat /\ PageSize \in Powers
    BY Zenon DEF Ar!ArenaFits, Powers
  <2> QED BY <2>1, PowersOfArena DEF Powers
<1>5. ASSUME NEW i \in 1 .. Len(live)
      PROVE  /\ live[i].block \in 1 .. Len(arena)
             /\ Header <= live[i].from /\ live[i].to <= arena[live[i].block].pos
             /\ arena[live[i].block].pos <= arena[live[i].block].res
             /\ live[i].from % live[i].align = 0
             /\ Ar!RegionPages(live[i]) \subseteq committed
             /\ \A j \in 1 .. i - 1 : live[j].block = live[i].block => live[j].to <= live[i].from
  <2>1. PICK k \in 1 .. Len(arena), from \in Nat, to \in Nat, top \in Nat :
          /\ k = live[i].block /\ from = live[i].from /\ to = live[i].to /\ top = arena[k].cmt
          /\ to <= top
    <3>1. live[i].block \in 1 .. Len(arena) /\ live[i].to <= arena[live[i].block].cmt
      BY <1>3, Zenon DEF RegionFits
    <3>2. live[i].from \in Nat /\ live[i].to \in Nat
      BY <1>3 DEF RegionRecord
    <3>3. arena[live[i].block].cmt \in Nat
      BY <1>2, <3>1 DEF BlockRecord
    <3> QED BY <3>1, <3>2, <3>3, Zenon
  <2>2. \A p \in Nat : p * P < top => <<k, p>> \in committed
    BY <1>1, <1>4, <2>1 DEF Backed
  <2>3. Ar!PagesOf(k, from, to) \subseteq committed
    BY <1>4, <2>1, <2>2, RegionPagesBacked
  <2>4. \A j \in 1 .. i - 1 : live[j].block = live[i].block => live[j].to <= live[i].from
    <3>1. \A j \in 1 .. i - 1 : j \in 1 .. Len(live) /\ j < i
      BY <1>3
    <3> QED BY <1>3, <3>1 DEF Before
  <2>5. arena[k].pos <= arena[k].res
    BY <1>2 DEF BlockFits
  <2>6. /\ Header <= live[i].from /\ live[i].to <= arena[live[i].block].pos
        /\ live[i].from % live[i].align = 0
    BY <1>3, Zenon DEF RegionFits
  <2> QED BY <2>1, <2>3, <2>4, <2>5, <2>6, Zenon DEF Ar!RegionPages
<1>12. ASSUME NEW i \in 1 .. Len(live)
       PROVE  /\ live[i].from \in Nat /\ live[i].to \in Nat /\ live[i].from <= live[i].to
              /\ arena[live[i].block].base_pos \in Nat
  <2>1. live[i].block \in 1 .. Len(arena) /\ live[i].from <= live[i].to
    BY <1>3, Zenon DEF RegionFits
  <2>2. live[i].from \in Nat /\ live[i].to \in Nat
    BY <1>3 DEF RegionRecord
  <2>3. arena[live[i].block].base_pos \in Nat
    BY <1>2, <2>1 DEF BlockRecord
  <2> QED BY <2>1, <2>2, <2>3
<1>6. Ar!RegionsUsable
  BY <1>5, Zenon DEF Ar!RegionsUsable
<1>7. Ar!arena_pos(arena) = End(arena, live, Len(live))
  BY <1>1, Zenon DEF Ar!arena_pos, Ar!LastOf, End, EndsWith
<1>8. \A n \in 0 .. Len(live) : \A j \in 1 .. n :
        arena[live[j].block].base_pos + live[j].to <= End(arena, live, n)
  <2> SUFFICES ASSUME NEW n \in 0 .. Len(live), NEW j \in 1 .. n
               PROVE  arena[live[j].block].base_pos + live[j].to <= End(arena, live, n)
    OBVIOUS
  <2>1. j \in 1 .. Len(live) /\ n \in 1 .. Len(live) /\ n # 0
    BY <1>3
  <2>2. End(arena, live, n) = arena[live[n].block].base_pos + live[n].to
    BY <2>1 DEF End, EndBlock, EndPos
  <2>3. /\ live[n].from \in Nat /\ live[n].to \in Nat /\ live[n].from <= live[n].to
        /\ arena[live[n].block].base_pos \in Nat /\ arena[live[j].block].base_pos \in Nat /\ live[j].to \in Nat
    BY <1>12, <2>1
  <2>4. CASE j = n
    BY <2>2, <2>3, <2>4
  <2>5. CASE j < n
    <3>1. arena[live[j].block].base_pos + live[j].to <= arena[live[n].block].base_pos + live[n].from
      BY <1>1, <2>1, <2>5, RegionsApart
    <3> QED BY <2>2, <2>3, <3>1
  <2> QED BY <2>4, <2>5
<1>9. \A n \in 0 .. Len(live) : \A j \in n + 1 .. Len(live) :
        End(arena, live, n) <= arena[live[j].block].base_pos + live[j].from
  <2> SUFFICES ASSUME NEW n \in 0 .. Len(live), NEW j \in n + 1 .. Len(live)
               PROVE  End(arena, live, n) <= arena[live[j].block].base_pos + live[j].from
    OBVIOUS
  <2>1. j \in 1 .. Len(live) /\ n < j
    BY <1>3
  <2>2. CASE n = 0
    <3>1. End(arena, live, n) = Header
      BY <1>1, <2>2, SMT DEF End, EndBlock, EndPos, Blocks, Ar!ArenaFits
    <3>2. Header <= live[j].from /\ live[j].from \in Nat /\ arena[live[j].block].base_pos \in Nat /\ Header \in Nat
      BY <1>5, <1>12, <2>1 DEF Ar!ArenaFits
    <3> QED BY <3>1, <3>2
  <2>3. CASE n # 0
    <3>1. n \in 1 .. Len(live)
      BY <1>3, <2>3
    <3>2. End(arena, live, n) = arena[live[n].block].base_pos + live[n].to
      BY <2>3 DEF End, EndBlock, EndPos
    <3> QED BY <1>1, <2>1, <3>1, <3>2, RegionsApart
  <2> QED BY <2>2, <2>3
<1>10. Ar!TempsReachable
  <2> SUFFICES ASSUME NEW i \in 1 .. Len(temps)
               PROVE  /\ temps[i].pos <= Ar!arena_pos(arena)
                      /\ \A j \in 1 .. temps[i].live :
                           arena[live[j].block].base_pos + live[j].to <= temps[i].pos
                      /\ \A j \in temps[i].live + 1 .. Len(live) :
                           arena[live[j].block].base_pos + live[j].from >= temps[i].pos
    BY Zenon DEF Ar!TempsReachable
  <2>1. PICK n \in 0 .. Len(live) : n = temps[i].live /\ temps[i].pos = End(arena, live, n)
    <3>1. temps \in Seq(TempRecord) /\ i \in 1 .. Len(temps)
      BY <1>1, Zenon DEF Scopes
    <3>2. temps[i] \in TempRecord
      BY <3>1
    <3>3. temps[i].live \in Nat
      BY <3>2 DEF TempRecord
    <3>4. temps[i].live <= Len(live) /\ temps[i].pos = End(arena, live, temps[i].live)
      BY <1>1, <3>1, Zenon DEF Scopes
    <3>5. temps[i].live \in 0 .. Len(live)
      BY <1>3, <3>3, <3>4
    <3> QED BY <3>4, <3>5
  <2>2. /\ End(arena, live, n) \in Nat /\ End(arena, live, Len(live)) \in Nat
        /\ \A j \in n + 1 .. Len(live) : arena[live[j].block].base_pos + live[j].from \in Nat
    <3>1. Len(live) \in 0 .. Len(live)
      BY <1>3
    <3>2. ASSUME NEW j \in n + 1 .. Len(live) PROVE arena[live[j].block].base_pos + live[j].from \in Nat
      <4>1. j \in 1 .. Len(live)
        BY <1>3
      <4> QED BY <1>12, <4>1
    <3> QED BY <1>1, <3>1, <3>2, EndFacts DEF Regions
  <2>3. End(arena, live, n) <= End(arena, live, Len(live))
    <3>1. CASE n = Len(live)
      BY <2>2, <3>1
    <3>2. CASE n # 0
      <4>1. n \in 1 .. Len(live) /\ Len(live) \in 0 .. Len(live)
        BY <1>3, <3>2
      <4>2. End(arena, live, n) = arena[live[n].block].base_pos + live[n].to
        BY <3>2 DEF End, EndBlock, EndPos
      <4> QED BY <1>8, <4>1, <4>2
    <3>3. CASE n = 0 /\ n # Len(live)
      <4>1. Len(live) \in 0 .. Len(live)
        BY <1>3
      <4>2. End(arena, live, n) = Header
        BY <1>1, <3>3, SMT DEF End, EndBlock, EndPos, Blocks, Ar!ArenaFits
      <4> QED BY <1>1, <4>1, <4>2, EndFacts DEF Regions
    <3> QED BY <3>1, <3>2, <3>3
  <2>4. \A j \in n + 1 .. Len(live) : arena[live[j].block].base_pos + live[j].from >= End(arena, live, n)
    BY <1>9, <2>2
  <2> QED BY <1>7, <1>8, <2>1, <2>3, <2>4
<1>11. Ar!NoBlockLeaks
  BY <1>1 DEF Regions, Fitting, Ordered, Ar!NoBlockLeaks
<1> QED BY <1>1, <1>6, <1>10, <1>11 DEF ArenaSound, Ar!ArenaSound

\* A chain that keeps its first blocks and gets a fitting one that starts behind them.
LEMMA CutBlocks ==
  ASSUME NEW a, Blocks(a), NEW k \in 1 .. Len(a) + 1, NEW b \in BlockRecord, BlockFits(b),
         k = 1 => b.base_pos = 0,
         \A i \in 1 .. k - 1 : a[i].base_pos + a[i].res <= b.base_pos
  PROVE  LET r == SubSeq(a, 1, k - 1) \o <<b>> IN
           /\ Blocks(r) /\ Len(r) = k /\ r[k] = b
           /\ \A i \in 1 .. k - 1 : i \in 1 .. Len(a) /\ r[i] = a[i]
<1> DEFINE r == SubSeq(a, 1, k - 1) \o <<b>>
<1>1. a \in Seq(BlockRecord) /\ Len(a) \in Nat
  BY DEF Blocks
<1>2. /\ r \in Seq(BlockRecord) /\ Len(r) = k /\ r # <<>> /\ r[k] = b
      /\ \A i \in 1 .. k - 1 : r[i] = a[i]
  BY <1>1, CutFacts
<1> HIDE DEF r
<1>3. \A i \in 1 .. k - 1 : i \in 1 .. Len(a) /\ i # k
  BY <1>1
<1>4. \A i \in 1 .. k : i = k \/ i \in 1 .. k - 1
  OBVIOUS
<1>5. r[1].base_pos = 0
  <2>1. CASE k = 1
    BY <1>2, <2>1
  <2>2. CASE k # 1
    <3>1. 1 \in 1 .. k - 1
      BY <2>2
    <3> QED BY <1>2, <3>1 DEF Blocks
  <2> QED BY <2>1, <2>2
<1>6. \A i \in 1 .. k : BlockFits(r[i])
  BY <1>2, <1>3, <1>4, Zenon DEF Blocks
<1>7. ASSUME NEW i \in 1 .. k, NEW j \in 1 .. k, i < j PROVE r[i].base_pos + r[i].res <= r[j].base_pos
  <2>1. i \in 1 .. k - 1
    BY <1>7
  <2>2. CASE j = k
    BY <1>2, <2>1, <2>2
  <2>3. CASE j \in 1 .. k - 1
    <3>1. r[i] = a[i] /\ r[j] = a[j] /\ i \in 1 .. Len(a) /\ j \in 1 .. Len(a)
      BY <1>2, <1>3, <2>1, <2>3
    <3> QED BY <1>7, <3>1, Zenon DEF Blocks
  <2> QED BY <1>4, <2>2, <2>3
<1>8. Blocks(r)
  BY <1>2, <1>5, <1>6, <1>7, Zenon DEF Blocks
<1> QED BY <1>2, <1>3, <1>8, Zenon DEF r

\* The block that a push takes has room for it (arena_push).
LEMMA PushBlock ==
  ASSUME Ar!ArenaFits, NEW a, Blocks(a), NEW size \in Sizes, NEW align \in Aligns,
         NEW cur, cur = a[Len(a)],
         NEW chains, chains = (cur.res < Ar!align_pow2(cur.pos, align) + size),
         NEW block, block = IF chains THEN Ar!ChainBlock(cur, size, align) ELSE cur,
         NEW from, from = Ar!align_pow2(block.pos, align)
  PROVE  /\ size \in Nat /\ block \in BlockRecord /\ BlockFits(block)
         /\ from \in Nat /\ block.pos <= from /\ from % align = 0 /\ from + size <= block.res
         /\ chains => /\ block.base_pos = cur.base_pos + cur.res
                      /\ Multiple(block.cmt, PageSize)
<1>1. /\ Len(a) \in Nat /\ Len(a) \in 1 .. Len(a) /\ cur \in BlockRecord /\ BlockFits(cur)
  BY DEF Blocks
<1>2. /\ Width \in Nat /\ Header \in Nat \ {0} /\ size \in Nat
      /\ Header % align = 0 /\ size + Header + align <= Ar!Power[Width]
  BY Zenon DEF Ar!ArenaFits
<1>3. /\ <<cur.res_size, cur.cmt_size>> \in Ar!BlockParams
      /\ cur.res = Ar!align_pow2(cur.res_size, PageSize)
  BY <1>1 DEF BlockFits
<1>4. PICK g \in Nat \ {0}, W \in Nat, H \in Nat \ {0}, P \in Nat \ {0} :
        g = align /\ g \in Powers /\ W = Ar!Power[Width] /\ H = Header /\ P = PageSize
  BY <1>2, <1>3, ParamsFacts
<1>5. /\ cur.res + g <= W /\ cur.res \in Nat /\ cur.pos \in Nat /\ cur.base_pos \in Nat
      /\ cur.res_size \in Nat /\ cur.cmt_size \in Nat /\ cur.pos <= cur.res
  BY <1>1, <1>3, <1>4, BlockRoom DEF BlockRecord, BlockFits
<1>6. CASE ~chains
  <2>1. cur.pos + g <= W
    BY <1>5
  <2>2. from \in Nat /\ cur.pos <= from /\ Multiple(from, g)
    BY <1>2, <1>4, <1>5, <1>6, <2>1, AlignFacts
  <2>3. from % g = 0
    BY <1>4, <2>2, MultipleFacts
  <2>4. from + size <= cur.res
    <3>1. ~(cur.res < from + size)
      BY <1>6
    <3> QED BY <1>2, <1>5, <2>2, <3>1
  <2> QED BY <1>1, <1>2, <1>4, <1>6, <2>2, <2>3, <2>4
<1>7. CASE chains
  <2> DEFINE big == size + Header > cur.res_size
             own == Ar!align_pow2(size + Header, align)
             rs == IF big THEN own ELSE cur.res_size
             cs == IF big THEN own ELSE cur.cmt_size
             base == cur.base_pos + cur.res
  <2>1. block = Ar!arena_alloc(rs, cs, base)
    BY <1>7 DEF Ar!ChainBlock
  <2>2. size + H \in Nat /\ size + H + g <= W
    BY <1>2, <1>4
  <2>3. own \in Nat /\ size + H <= own
    BY <1>2, <1>4, <2>2, AlignFacts
  <2>4. <<rs, cs>> \in Ar!BlockParams /\ size + H <= rs
    <3>1. CASE big
      <4>1. ReserveSize < size + Header
        <5>1. ReserveSize \in Nat /\ ReserveSize <= cur.res_size
          BY <1>3, ParamsFacts
        <5> QED BY <1>2, <1>5, <3>1, <5>1
      <4>2. own \in Ar!OwnSizes
        <5> DEFINE q == <<size, align>>
        <5>1. q \in Sizes \X Aligns /\ q[1] = size /\ q[2] = align
          OBVIOUS
        <5>2. q[1] + Header > ReserveSize /\ own = Ar!align_pow2(q[1] + Header, q[2])
          BY <4>1, <5>1
        <5> HIDE DEF q, own
        <5> QED BY <5>1, <5>2, Zenon DEF Ar!OwnSizes
      <4>3. <<own, own>> \in Ar!BlockParams
        BY <4>2, Zenon DEF Ar!BlockParams
      <4> QED BY <2>3, <3>1, <4>3
    <3>2. CASE ~big
      <4>1. size + H <= cur.res_size
        BY <1>2, <1>4, <1>5, <3>2
      <4> QED BY <1>3, <3>2, <4>1
    <3> QED BY <3>1, <3>2
  <2>5. base \in Nat
    BY <1>5
  <2> HIDE DEF rs, cs, base
  <2>6. /\ block \in BlockRecord /\ BlockFits(block) /\ block.base_pos = base
        /\ block.pos = Header /\ rs <= block.res
    BY <2>1, <2>4, <2>5, NewBlockFits
  <2>7. from = H
    <3>1. H % g = 0 /\ H + g <= W
      BY <1>2, <1>4
    <3> QED BY <1>2, <1>4, <2>6, <3>1, AlignFacts
  <2>8. rs \in Nat /\ block.res \in Nat
    BY <2>4, <2>6, ParamsFacts DEF BlockRecord
  <2>9. from + size <= block.res
    BY <1>2, <2>4, <2>6, <2>7, <2>8
  <2>10. block.pos <= from /\ from % align = 0 /\ from \in Nat
    BY <1>2, <1>4, <2>6, <2>7
  <2>11. Multiple(block.cmt, PageSize)
    BY <2>6 DEF BlockFits
  <2> QED BY <1>2, <2>6, <2>9, <2>10, <2>11 DEF base
<1> QED BY <1>6, <1>7

\* A push keeps the invariant.
LEMMA PushKeeps ==
  ASSUME Ar!ArenaFits, ArenaInv, NEW size \in Sizes, NEW align \in Aligns,
         Ar!arena_push(size, align)
  PROVE  ArenaInv'
<1>1. /\ ~aborted /\ Blocks(arena) /\ Regions(arena, live) /\ EndsWith(arena, live)
      /\ Backed(arena, committed) /\ Scopes(arena, live, temps)
  BY DEF ArenaInv
<1>2. PICK n \in Nat : n = Len(arena) /\ n \in 1 .. n
  BY <1>1 DEF Blocks
<1> DEFINE chains == arena[n].res < Ar!align_pow2(arena[n].pos, align) + size
           b0 == IF chains THEN Ar!ChainBlock(arena[n], size, align) ELSE arena[n]
           k0 == IF chains THEN n + 1 ELSE n
           from0 == Ar!align_pow2(b0.pos, align)
<1>3. PICK k : k = k0
  OBVIOUS
<1>4. PICK b : b = b0
  OBVIOUS
<1>5. PICK from : from = from0
  OBVIOUS
<1>6. PICK to : to = from + size
  OBVIOUS
<1>7. PICK top : top = Ar!CommitTo(b, to)
  OBVIOUS
<1>8. PICK new : new = [b EXCEPT !.cmt = top, !.pos = IF top >= to THEN to ELSE @]
  OBVIOUS
<1>9. PICK region : region = [block |-> k, from |-> from, to |-> to, align |-> align]
  OBVIOUS
<1>10. /\ arena' = SubSeq(arena, 1, k - 1) \o <<new>>
       /\ committed' = committed \cup Ar!os_commit(k, b.cmt, top)
                        \cup (IF chains THEN Ar!os_commit(k, 0, b.cmt) ELSE {})
       /\ live' = Append(live, region)
       /\ temps' = temps /\ ~aborted'
  BY <1>1, <1>2, <1>3, <1>4, <1>5, <1>6, <1>7, <1>8, <1>9 DEF Ar!arena_push, Ar!LastOf
<1>11. /\ size \in Nat /\ b \in BlockRecord /\ BlockFits(b)
       /\ from \in Nat /\ b.pos <= from /\ from % align = 0 /\ to <= b.res
       /\ chains => b.base_pos = arena[n].base_pos + arena[n].res
  <2>1. PICK cs : cs = chains
    OBVIOUS
  <2>2. b = IF cs THEN Ar!ChainBlock(arena[n], size, align) ELSE arena[n]
    BY <1>4, <2>1
  <2>3. cs = (arena[n].res < Ar!align_pow2(arena[n].pos, align) + size)
    BY <2>1
  <2>4. from = Ar!align_pow2(b.pos, align)
    BY <1>4, <1>5
  <2>5. PICK a, cur : a = arena /\ cur = arena[n] /\ cur = a[Len(a)] /\ Blocks(a)
    BY <1>1, <1>2
  <2>6. /\ cs = (cur.res < Ar!align_pow2(cur.pos, align) + size)
        /\ b = IF cs THEN Ar!ChainBlock(cur, size, align) ELSE cur
    BY <2>2, <2>3, <2>5, Zenon
  <2> HIDE DEF chains
  <2>7. /\ size \in Nat /\ b \in BlockRecord /\ BlockFits(b)
        /\ from \in Nat /\ b.pos <= from /\ from % align = 0 /\ from + size <= b.res
        /\ cs => b.base_pos = cur.base_pos + cur.res
    BY <2>4, <2>5, <2>6, PushBlock, SMTT(60)
  <2> QED BY <1>6, <2>1, <2>5, <2>7, Zenon
<1>12. chains \/ (~chains /\ b = arena[n])
  BY <1>4
<1>13. (chains => k = n + 1) /\ (~chains => k = n) /\ k \in 1 .. n + 1
  BY <1>2, <1>3
<1> HIDE DEF chains, b0, k0, from0
<1>14. to \in Nat /\ from <= to
  BY <1>6, <1>11
<1>15. top \in Nat /\ Multiple(top, PageSize) /\ to <= top /\ b.cmt <= top
  BY <1>7, <1>11, <1>14, CommitFacts
<1>16. Header \in Nat \ {0} /\ Header <= b.pos /\ b.pos \in Nat /\ Header <= from
  <2>1. Header \in Nat \ {0} /\ Header <= b.pos /\ b.pos \in Nat
    BY <1>11 DEF BlockFits, BlockRecord, Ar!ArenaFits
  <2> QED BY <1>11, <2>1
<1>17. /\ new \in BlockRecord /\ new.base_pos = b.base_pos /\ new.pos = to /\ new.cmt = top
       /\ new.res = b.res /\ new.cmt_size = b.cmt_size /\ new.res_size = b.res_size
  <2>1. top >= to
    BY <1>14, <1>15
  <2>2. new = [b EXCEPT !.cmt = top, !.pos = to]
    BY <1>8, <2>1
  <2> QED BY <1>11, <1>14, <1>15, <2>2 DEF BlockRecord
<1>18. BlockFits(new)
  <2>1. Header <= to
    BY <1>11, <1>14, <1>16
  <2> QED BY <1>11, <1>15, <1>17, <2>1, Zenon DEF BlockFits
<1>19. \A i \in 1 .. n : arena[i] \in BlockRecord
  BY <1>1, <1>2 DEF Blocks
<1>20. /\ k = 1 => new.base_pos = 0
       /\ \A i \in 1 .. k - 1 : arena[i].base_pos + arena[i].res <= new.base_pos
  <2>1. CASE chains
    <3>1. \A i \in 1 .. k - 1 : i \in 1 .. n /\ (i = n \/ i < n)
      BY <1>2, <1>13, <2>1
    <3>2. new.base_pos = arena[n].base_pos + arena[n].res
      BY <1>11, <1>17, <2>1
    <3>3. \A i \in 1 .. n : arena[i].base_pos \in Nat /\ arena[i].res \in Nat
      BY <1>19 DEF BlockRecord
    <3>4. \A i \in 1 .. n : i < n => arena[i].base_pos + arena[i].res <= arena[n].base_pos
      BY <1>1, <1>2, Zenon DEF Blocks
    <3>5. k # 1
      BY <1>2, <1>13, <2>1
    <3> QED BY <1>2, <3>1, <3>2, <3>3, <3>4, <3>5
  <2>2. CASE ~chains
    <3>1. new.base_pos = arena[n].base_pos /\ k = n
      BY <1>12, <1>13, <1>17, <2>2
    <3>2. \A i \in 1 .. k - 1 : i \in 1 .. n /\ i < n
      BY <1>2, <3>1
    <3> QED BY <1>1, <1>2, <3>1, <3>2 DEF Blocks
  <2> QED BY <2>1, <2>2
<1>21. /\ Blocks(arena') /\ Len(arena') = k /\ arena'[k] = new
       /\ \A i \in 1 .. k - 1 : i \in 1 .. n /\ arena'[i] = arena[i]
  <2>1. PICK a, r : a = arena /\ r = arena'
    OBVIOUS
  <2>2. /\ Blocks(a) /\ Len(a) = n /\ k \in 1 .. Len(a) + 1 /\ r = SubSeq(a, 1, k - 1) \o <<new>>
        /\ \A i \in 1 .. k - 1 : a[i].base_pos + a[i].res <= new.base_pos
    BY <1>1, <1>2, <1>10, <1>13, <1>20, <2>1
  <2>3. /\ Blocks(r) /\ Len(r) = k /\ r[k] = new
        /\ \A i \in 1 .. k - 1 : i \in 1 .. Len(a) /\ r[i] = a[i]
    <3>1. LET s == SubSeq(a, 1, k - 1) \o <<new>> IN
            /\ Blocks(s) /\ Len(s) = k /\ s[k] = new
            /\ \A i \in 1 .. k - 1 : i \in 1 .. Len(a) /\ s[i] = a[i]
      BY <1>17, <1>18, <1>20, <2>2, CutBlocks, Zenon
    <3> QED BY <2>2, <3>1, Zenon
  <2> QED BY <2>1, <2>2, <2>3, Zenon
<1>22. ASSUME NEW i \in 1 .. n
       PROVE  /\ i \in 1 .. k /\ arena'[i].base_pos = arena[i].base_pos
              /\ arena[i].pos <= arena'[i].pos /\ arena[i].cmt <= arena'[i].cmt
              /\ arena'[i].pos \in Nat /\ arena'[i].cmt \in Nat
              /\ i # k => arena'[i] = arena[i]
  <2>1. arena[i].pos \in Nat /\ arena[i].cmt \in Nat
    BY <1>19 DEF BlockRecord
  <2>2. CASE i = k
    <3>1. b = arena[i]
      BY <1>2, <1>12, <1>13, <2>2
    <3> QED BY <1>6, <1>11, <1>14, <1>15, <1>16, <1>17, <1>21, <2>1, <2>2, <3>1
  <2>3. CASE i # k
    <3>1. i \in 1 .. k - 1
      BY <1>2, <1>13, <2>3
    <3> QED BY <1>21, <2>1, <2>3, <3>1
  <2> QED BY <2>2, <2>3
<1>23. PICK m \in Nat : m = Len(live)
  BY <1>1 DEF Regions, Fitting, Ordered
<1>24. region \in RegionRecord
  <2>1. k \in Nat
    BY <1>13
  <2> QED BY <1>9, <1>11, <1>14, <2>1 DEF RegionRecord
<1>25. /\ live' \in Seq(RegionRecord) /\ Len(live') = m + 1
       /\ \A i \in 1 .. m : live'[i] = live[i]
       /\ live'[m + 1] = region
  <2>1. live \in Seq(RegionRecord)
    BY <1>1 DEF Regions, Fitting, Ordered
  <2> QED BY <1>10, <1>23, <1>24, <2>1, AppendAt
<1>26. \A i \in 1 .. m : live[i] \in RegionRecord /\ RegionFits(arena, live[i])
  BY <1>1, <1>23 DEF Regions, Fitting, Ordered
<1>27. /\ region.block = k /\ region.from = from /\ region.to = to /\ region.align = align
  BY <1>9
<1>28. RegionFits(arena', region)
  <2>1. k \in 1 .. k
    BY <1>13
  <2> QED BY <1>11, <1>14, <1>15, <1>16, <1>17, <1>21, <1>27, <2>1 DEF RegionFits
<1>29. ASSUME NEW i \in 1 .. m
       PROVE  RegionFits(arena', live[i]) /\ Before(live[i], region)
  <2>1. PICK j \in 1 .. n, f \in Nat, t \in Nat :
          /\ j = live[i].block /\ f = live[i].from /\ t = live[i].to
          /\ Header <= f /\ f <= t /\ t <= arena[j].pos /\ t <= arena[j].cmt
          /\ live[i].from % live[i].align = 0
    <3>1. live[i].from \in Nat /\ live[i].to \in Nat
      BY <1>26 DEF RegionRecord
    <3> QED BY <1>2, <1>26, <3>1, Zenon DEF RegionFits
  <2>2. /\ j \in 1 .. k /\ arena[j].pos <= arena'[j].pos /\ arena[j].cmt <= arena'[j].cmt
        /\ arena'[j].pos \in Nat /\ arena'[j].cmt \in Nat
        /\ arena[j].pos \in Nat /\ arena[j].cmt \in Nat
    BY <1>19, <1>22 DEF BlockRecord
  <2>3. t <= arena'[j].pos /\ t <= arena'[j].cmt
    BY <2>1, <2>2
  <2>4. RegionFits(arena', live[i])
    BY <1>21, <2>1, <2>2, <2>3, Zenon DEF RegionFits
  <2>5. j <= k /\ (j = k => t <= from)
    <3>1. j <= k
      BY <2>2
    <3>2. ASSUME j = k PROVE t <= from
      <4>1. b = arena[j]
        BY <1>2, <1>12, <1>13, <3>2
      <4> QED BY <1>11, <1>16, <2>1, <4>1
    <3> QED BY <3>1, <3>2
  <2> QED BY <1>27, <2>1, <2>4, <2>5 DEF Before
<1>30. Regions(arena', live')
  <2>1. \A i \in 1 .. m + 1 : i = m + 1 \/ i \in 1 .. m
    BY <1>23
  <2>2. \A i \in 1 .. m + 1 : RegionFits(arena', live'[i])
    BY <1>25, <1>28, <1>29, <2>1, Zenon
  <2>3. ASSUME NEW i \in 1 .. m + 1, NEW j \in 1 .. m + 1, i < j PROVE Before(live'[i], live'[j])
    <3>1. i \in 1 .. m
      BY <1>23, <2>3
    <3>2. CASE j = m + 1
      BY <1>25, <1>29, <3>1, <3>2, Zenon
    <3>3. CASE j \in 1 .. m
      BY <1>1, <1>23, <1>25, <2>3, <3>1, <3>3, Zenon DEF Regions, Fitting, Ordered
    <3> QED BY <2>1, <3>2, <3>3
  <2>4. ASSUME NEW j \in 2 .. k PROVE \E i \in 1 .. m + 1 : live'[i].block = j
    <3>1. CASE j = k
      <4>1. m + 1 \in 1 .. m + 1
        BY <1>23
      <4> QED BY <1>25, <1>27, <3>1, <4>1
    <3>2. CASE j # k
      <4>1. j \in 2 .. n
        BY <1>2, <1>13, <3>2
      <4>2. PICK i \in 1 .. m : live[i].block = j
        BY <1>1, <1>2, <1>23, <4>1 DEF Regions, Fitting, Ordered
      <4>3. i \in 1 .. m + 1
        BY <1>23
      <4> QED BY <1>25, <4>2, <4>3
    <3> QED BY <3>1, <3>2
  <2> QED BY <1>21, <1>25, <2>2, <2>3, <2>4, Zenon DEF Regions, Fitting, Ordered
<1>31. EndsWith(arena', live')
  <2>1. m + 1 # 0
    BY <1>23
  <2>2. EndBlock(live', m + 1) = k /\ EndPos(live', m + 1) = to
    BY <1>25, <1>27, <2>1, Zenon DEF EndBlock, EndPos
  <2> QED BY <1>17, <1>21, <1>25, <2>2, Zenon DEF EndsWith
<1>32. Backed(arena', committed')
  <2>1. PICK P \in Nat \ {0} : P = PageSize
    BY <1>11, ParamsFacts DEF BlockFits
  <2> SUFFICES ASSUME NEW j \in 1 .. k, NEW p \in Nat, p * P < arena'[j].cmt
               PROVE  <<j, p>> \in committed'
    BY <1>21, <2>1 DEF Backed
  <2>2. PICK old \in Nat : old = b.cmt /\ Multiple(old, P)
    BY <1>11, <2>1 DEF BlockRecord, BlockFits
  <2>3. /\ \A q \in Nat : old <= q * P /\ q * P < top => <<k, q>> \in Ar!PagesMoved(k, old, top)
        /\ \A q \in Nat : 0 <= q * P /\ q * P < old => <<k, q>> \in Ar!PagesMoved(k, 0, old)
    <3>1. Multiple(0, P)
      <4>1. 0 = P * 0
        OBVIOUS
      <4> QED BY <4>1 DEF Multiple
    <3> QED BY <1>15, <2>1, <2>2, <3>1, PagesFacts
  <2>4. p * P \in Nat
    OBVIOUS
  <2>5. CASE j # k
    <3>1. j \in 1 .. k - 1
      BY <1>13, <2>5
    <3>2. <<j, p>> \in committed
      BY <1>1, <1>2, <1>21, <2>1, <3>1 DEF Backed
    <3> QED BY <1>10, <3>2
  <2>6. CASE j = k /\ old <= p * P
    <3>1. p * P < top
      BY <1>17, <1>21, <2>6
    <3>2. <<j, p>> \in Ar!os_commit(k, b.cmt, top)
      BY <2>2, <2>3, <2>6, <3>1 DEF Ar!os_commit
    <3> QED BY <1>10, <3>2
  <2>7. CASE j = k /\ p * P < old /\ chains
    <3>1. 0 <= p * P
      BY <2>4
    <3>2. <<j, p>> \in Ar!os_commit(k, 0, b.cmt)
      BY <2>2, <2>3, <2>7, <3>1 DEF Ar!os_commit
    <3> QED BY <1>10, <2>7, <3>2
  <2>8. CASE j = k /\ p * P < old /\ ~chains
    <3>1. j = n /\ b = arena[n]
      BY <1>12, <1>13, <2>8
    <3>2. <<j, p>> \in committed
      BY <1>1, <1>2, <2>1, <2>2, <2>8, <3>1 DEF Backed
    <3> QED BY <1>10, <3>2
  <2>9. old <= p * P \/ p * P < old
    BY <2>2, <2>4
  <2> QED BY <2>5, <2>6, <2>7, <2>8, <2>9
<1>33. Scopes(arena', live', temps')
  <2>1. temps \in Seq(TempRecord) /\ \A i \in 1 .. Len(temps) : temps[i] \in TempRecord
    BY <1>1 DEF Scopes
  <2>2. ASSUME NEW i \in 1 .. Len(temps)
        PROVE temps[i].live <= m + 1 /\ temps[i].pos = End(arena', live', temps[i].live)
    <3>1. PICK h \in Nat : h = temps[i].live /\ h <= m /\ temps[i].pos = End(arena, live, h)
      <4>1. temps[i].live \in Nat
        BY <2>1 DEF TempRecord
      <4> QED BY <1>1, <1>23, <4>1 DEF Scopes
    <3>2. EndBlock(live', h) = EndBlock(live, h) /\ EndPos(live', h) = EndPos(live, h)
      <4>1. h # 0 => h \in 1 .. m
        BY <1>23, <3>1
      <4> QED BY <1>25, <4>1 DEF EndBlock, EndPos
    <3>3. EndBlock(live, h) \in 1 .. n
      <4>1. h \in 0 .. Len(live)
        BY <1>23, <3>1
      <4> QED BY <1>1, <1>2, <4>1, EndFacts DEF Regions
    <3>4. arena'[EndBlock(live, h)].base_pos = arena[EndBlock(live, h)].base_pos
      BY <1>22, <3>3
    <3>5. h <= m + 1
      BY <1>23, <3>1
    <3> QED BY <3>1, <3>2, <3>4, <3>5, Zenon DEF End
  <2> QED BY <1>1, <1>10, <1>25, <2>1, <2>2, Zenon DEF Scopes
<1> QED BY <1>10, <1>21, <1>30, <1>31, <1>32, <1>33, Zenon DEF ArenaInv

\* What a scope remembers still ends where it did when the regions it found are kept.
LEMMA ScopesKept ==
  ASSUME Ar!ArenaFits, NEW a, NEW l, NEW t, Scopes(a, l, t),
         NEW a1, NEW l1, NEW t1, Blocks(a1), Fitting(a1, l1), t1 \in Seq(TempRecord), Len(t1) <= Len(t),
         \A i \in 1 .. Len(t1) : t1[i] = t[i],
         NEW m \in 0 .. Len(l1), \A i \in 1 .. m : l1[i] = l[i],
         \A i \in 1 .. Len(t1) : t1[i].live <= m,
         \A i \in 1 .. Len(a1) : a1[i].base_pos = a[i].base_pos
  PROVE  Scopes(a1, l1, t1)
<1>1. Len(t) \in Nat /\ Len(t1) \in Nat /\ Len(l1) \in Nat
  BY DEF Scopes, Fitting
<1>2. \A i \in 1 .. Len(t1) : i \in 1 .. Len(t)
  BY <1>1
<1>3. ASSUME NEW i \in 1 .. Len(t1)
      PROVE  t1[i].live <= Len(l1) /\ t1[i].pos = End(a1, l1, t1[i].live)
  <2>1. PICK h \in Nat : h = t1[i].live /\ h <= m /\ t1[i].pos = End(a, l, h)
    <3>1. t1[i].live \in Nat
      <4>1. t1[i] \in TempRecord
        BY <1>1
      <4> QED BY <4>1 DEF TempRecord
    <3>2. t1[i].pos = End(a, l, t1[i].live)
      BY <1>2, Zenon DEF Scopes
    <3> QED BY <3>1, <3>2
  <2>2. EndBlock(l1, h) = EndBlock(l, h) /\ EndPos(l1, h) = EndPos(l, h)
    <3>1. h # 0 => h \in 1 .. m
      BY <2>1
    <3> QED BY <3>1 DEF EndBlock, EndPos
  <2>3. h \in 0 .. Len(l1)
    BY <1>1, <2>1
  <2>4. EndBlock(l1, h) \in 1 .. Len(a1)
    BY <2>3, EndFacts
  <2>5. End(a1, l1, h) = End(a, l, h)
    BY <2>2, <2>4, Zenon DEF End
  <2>6. h <= Len(l1)
    BY <2>3
  <2> QED BY <2>1, <2>5, <2>6
<1>4. \A i, j \in 1 .. Len(t1) : i < j => t1[i].live <= t1[j].live
  BY <1>2, Zenon DEF Scopes
<1> QED BY <1>3, <1>4, Zenon DEF Scopes

\* Popping to where the first n regions end, the last of them cut short perhaps, leaves
\* these and nothing else, and its assertion holds (arena_pop_to).
LEMMA PopKeeps ==
  ASSUME Ar!ArenaFits, Blocks(arena), Regions(arena, live), Backed(arena, committed),
         NEW n \in 0 .. Len(live), NEW rest \in Seq(RegionRecord), Len(rest) = n,
         \A i \in 1 .. n - 1 : rest[i] = live[i],
         n # 0 => /\ rest[n].block = live[n].block /\ rest[n].from = live[n].from
                  /\ rest[n].align = live[n].align
                  /\ rest[n].from <= rest[n].to /\ rest[n].to <= live[n].to,
         NEW pos, Ar!AtLeast(pos, Header) = End(arena, rest, n),
         Ar!arena_pop_to(pos, rest)
  PROVE  /\ ~aborted' /\ live' = rest
         /\ Blocks(arena') /\ Regions(arena', live') /\ EndsWith(arena', live')
         /\ Backed(arena', committed')
         /\ \A i \in 1 .. Len(arena') : arena'[i].base_pos = arena[i].base_pos
<1>1. PICK m \in Nat : m = Len(live) /\ n \in Nat /\ n <= m
  BY DEF Regions, Fitting
<1>2. PICK w \in Nat : w = Len(arena) /\ \A i \in 1 .. w : arena[i] \in BlockRecord
  BY DEF Blocks
<1>3. \A i \in 1 .. m : live[i] \in RegionRecord /\ RegionFits(arena, live[i])
  BY <1>1 DEF Regions, Fitting
<1>4. ASSUME NEW i \in 1 .. n
      PROVE  /\ rest[i] \in RegionRecord /\ RegionFits(arena, rest[i])
             /\ rest[i].block = live[i].block /\ rest[i].from = live[i].from
             /\ rest[i].from <= rest[i].to /\ rest[i].to <= live[i].to
             /\ i # n => rest[i] = live[i]
  <2>1. i \in 1 .. m
    BY <1>1
  <2>2. live[i] \in RegionRecord /\ RegionFits(arena, live[i]) /\ rest[i] \in RegionRecord
    BY <1>3, <2>1
  <2>3. live[i].to \in Nat /\ rest[i].to \in Nat
    BY <2>2 DEF RegionRecord
  <2>4. CASE i # n
    <3>1. i \in 1 .. n - 1
      BY <1>1, <2>4
    <3>2. rest[i] = live[i]
      BY <3>1
    <3>3. live[i].from <= live[i].to /\ live[i].to <= live[i].to
      BY <2>2, <2>3 DEF RegionFits
    <3> QED BY <2>2, <2>4, <3>2, <3>3
  <2>5. CASE i = n
    <3>1. /\ rest[i].block = live[i].block /\ rest[i].from = live[i].from /\ rest[i].align = live[i].align
          /\ rest[i].from <= rest[i].to /\ rest[i].to <= live[i].to
      BY <1>1, <2>5
    <3>2. /\ live[i].block \in 1 .. Len(arena) /\ Header <= live[i].from
          /\ live[i].to <= arena[live[i].block].pos /\ live[i].to <= arena[live[i].block].cmt
          /\ live[i].from % live[i].align = 0
      BY <2>2, Zenon DEF RegionFits
    <3>3. arena[live[i].block].pos \in Nat /\ arena[live[i].block].cmt \in Nat
      BY <1>2, <3>2 DEF BlockRecord
    <3>4. rest[i].to <= arena[live[i].block].pos /\ rest[i].to <= arena[live[i].block].cmt
      BY <2>3, <3>1, <3>2, <3>3
    <3>5. RegionFits(arena, rest[i])
      BY <3>1, <3>2, <3>4, Zenon DEF RegionFits
    <3> QED BY <2>2, <2>5, <3>1, <3>5
  <2> QED BY <2>4, <2>5
<1>5. Fitting(arena, rest)
  BY <1>4, Zenon DEF Fitting
<1>6. PICK K : K = EndBlock(rest, n)
  OBVIOUS
<1>7. PICK N : N = EndPos(rest, n)
  OBVIOUS
<1>8. PICK E : E = End(arena, rest, n)
  OBVIOUS
<1>9. /\ K \in 1 .. w /\ N \in Nat /\ Header <= N /\ N <= arena[K].pos /\ E \in Nat
      /\ arena[K].base_pos < E /\ \A j \in K + 1 .. w : E <= arena[j].base_pos
      /\ E = arena[K].base_pos + N
  <2>1. n \in 0 .. Len(rest)
    BY <1>1
  <2>2. E = arena[K].base_pos + N
    BY <1>6, <1>7, <1>8 DEF End
  <2>3. /\ EndBlock(rest, n) \in 1 .. Len(arena) /\ EndPos(rest, n) \in Nat
        /\ Header <= EndPos(rest, n) /\ EndPos(rest, n) <= arena[EndBlock(rest, n)].pos
        /\ End(arena, rest, n) \in Nat
        /\ arena[EndBlock(rest, n)].base_pos < End(arena, rest, n)
        /\ \A j \in EndBlock(rest, n) + 1 .. Len(arena) : End(arena, rest, n) <= arena[j].base_pos
    BY <1>5, <2>1, EndFacts
  <2> QED BY <1>2, <1>6, <1>7, <1>8, <2>2, <2>3
<1>10. \A i \in 1 .. w : arena[i].base_pos \in Nat
  BY <1>2 DEF BlockRecord
<1> DEFINE Starts(i) == /\ arena[i].base_pos < E
                        /\ \A j \in i + 1 .. Len(arena) : arena[j].base_pos >= E
           k0 == CHOOSE i \in 1 .. Len(arena) : Starts(i)
<1>11. Starts(K) /\ \A i \in 1 .. Len(arena) : Starts(i) => i = K
  <2>1. Starts(K)
    <3>1. \A j \in K + 1 .. w : j \in 1 .. w
      BY <1>9
    <3> QED BY <1>2, <1>9, <1>10, <3>1
  <2>2. ASSUME NEW i \in 1 .. w, Starts(i), i < K PROVE FALSE
    <3>1. K \in i + 1 .. Len(arena)
      BY <1>2, <1>9, <2>2
    <3>2. arena[K].base_pos >= E /\ arena[K].base_pos < E /\ arena[K].base_pos \in Nat
      BY <1>9, <1>10, <2>2, <3>1
    <3> QED BY <1>9, <3>2
  <2>3. ASSUME NEW i \in 1 .. w, Starts(i), K < i PROVE FALSE
    <3>1. i \in K + 1 .. w
      BY <1>9, <2>3
    <3>2. E <= arena[i].base_pos /\ arena[i].base_pos < E /\ arena[i].base_pos \in Nat
      BY <1>9, <1>10, <2>3, <3>1
    <3> QED BY <1>9, <3>2
  <2>4. \A i \in 1 .. w : i < K \/ i = K \/ K < i
    BY <1>9
  <2> HIDE DEF Starts
  <2> QED BY <1>2, <2>1, <2>2, <2>3, <2>4
<1>12. k0 = K
  <2> HIDE DEF Starts
  <2> QED BY <1>2, <1>9, <1>11
<1>13. PICK b : b = arena[K]
  OBVIOUS
<1>14. /\ b \in BlockRecord /\ BlockFits(b) /\ b.base_pos \in Nat /\ b.pos \in Nat /\ b.cmt \in Nat
       /\ b.res \in Nat /\ b.pos <= b.res
  <2>1. b \in BlockRecord /\ BlockFits(b)
    BY <1>2, <1>9, <1>13 DEF Blocks
  <2> QED BY <2>1 DEF BlockRecord, BlockFits
<1>15. PICK cmt : cmt = Ar!AtMost(b.cmt, Ar!align_pow2(N, b.cmt_size))
  OBVIOUS
<1>16. PICK new : new = [b EXCEPT !.pos = N, !.cmt = cmt]
  OBVIOUS
<1>17. E - b.base_pos = N
  BY <1>9, <1>13, <1>14
<1>18. /\ aborted' = (N > b.pos)
       /\ arena' = SubSeq(arena, 1, K - 1) \o <<new>>
       /\ committed' = {p \in committed : p[1] <= K} \ Ar!os_decommit(K, cmt, b.cmt)
       /\ live' = rest
  <2>1. k0 = CHOOSE i \in 1 .. Len(arena) :
             /\ arena[i].base_pos < Ar!AtLeast(pos, Header)
             /\ \A j \in i + 1 .. Len(arena) : arena[j].base_pos >= Ar!AtLeast(pos, Header)
    BY <1>8, Zenon
  <2> HIDE DEF k0
  <2>2. Ar!AtLeast(pos, Header) - arena[k0].base_pos = N
    BY <1>8, <1>12, <1>13, <1>17
  <2> QED BY <1>12, <1>13, <1>15, <1>16, <2>1, <2>2, Zenon DEF Ar!arena_pop_to
<1> HIDE DEF k0, Starts
<1>19. PICK P \in Nat \ {0}, c \in Nat \ {0} :
         P = PageSize /\ c = b.cmt_size /\ P <= c /\ P \in Powers /\ c \in Powers /\ Width \in Nat
  BY <1>14, ParamsFacts, Zenon DEF BlockFits
<1>20. PICK up \in Nat : up = Ar!align_pow2(N, c) /\ N <= up /\ Multiple(up, P)
  <2>1. b.res + c <= Ar!Power[Width] /\ Ar!Power[Width] \in Nat
    BY <1>14, <1>19, BlockRoom, ParamsFacts DEF BlockFits
  <2>2. N + c <= Ar!Power[Width]
    <3>1. N <= b.res
      BY <1>9, <1>13, <1>14
    <3> QED BY <1>9, <1>14, <1>19, <2>1, <3>1
  <2>3. /\ Ar!align_pow2(N, c) \in Nat /\ Multiple(Ar!align_pow2(N, c), c)
        /\ N <= Ar!align_pow2(N, c)
    BY <1>9, <1>19, <2>2, AlignFacts
  <2>4. Multiple(Ar!align_pow2(N, c), P)
    BY <1>19, <2>3, PowersDivide
  <2> QED BY <2>3, <2>4
<1>21. cmt = IF b.cmt < up THEN b.cmt ELSE up
  BY <1>15, <1>19, <1>20 DEF Ar!AtMost
<1>22. cmt \in Nat /\ Multiple(cmt, P) /\ cmt <= b.cmt /\ (N <= b.cmt => N <= cmt)
  <2>1. Multiple(b.cmt, P)
    BY <1>14, <1>19 DEF BlockFits
  <2> QED BY <1>9, <1>14, <1>20, <1>21, <2>1
<1>23. /\ new \in BlockRecord /\ new.base_pos = b.base_pos /\ new.pos = N /\ new.cmt = cmt
       /\ new.res = b.res /\ new.cmt_size = b.cmt_size /\ new.res_size = b.res_size
  BY <1>9, <1>14, <1>16, <1>22 DEF BlockRecord
<1>24. BlockFits(new)
  <2>1. N <= b.res
    BY <1>9, <1>13, <1>14
  <2> QED BY <1>9, <1>14, <1>19, <1>22, <1>23, <2>1, Zenon DEF BlockFits
<1>25. /\ Blocks(arena') /\ Len(arena') = K /\ arena'[K] = new
       /\ \A i \in 1 .. K - 1 : i \in 1 .. w /\ arena'[i] = arena[i]
  <2>1. K \in 1 .. Len(arena) + 1
    BY <1>2, <1>9
  <2>2. K = 1 => new.base_pos = 0
    BY <1>13, <1>23 DEF Blocks
  <2>3. \A i \in 1 .. K - 1 : i \in 1 .. Len(arena) /\ i < K
    BY <1>2, <1>9
  <2>4. \A i \in 1 .. K - 1 : arena[i].base_pos + arena[i].res <= new.base_pos
    BY <1>2, <1>9, <1>13, <1>23, <2>3 DEF Blocks
  <2>5. PICK a : a = arena
    OBVIOUS
  <2>6. /\ Blocks(a) /\ K \in 1 .. Len(a) + 1
        /\ \A i \in 1 .. K - 1 : a[i].base_pos + a[i].res <= new.base_pos
    BY <2>1, <2>4, <2>5, Zenon
  <2>7. LET s == SubSeq(a, 1, K - 1) \o <<new>> IN
          /\ Blocks(s) /\ Len(s) = K /\ s[K] = new
          /\ \A i \in 1 .. K - 1 : i \in 1 .. Len(a) /\ s[i] = a[i]
    BY <1>23, <1>24, <2>2, <2>6, CutBlocks, ZenonT(60)
  <2> QED BY <1>2, <1>18, <2>5, <2>7, Zenon
<1>26. \A i \in 1 .. K : i = K \/ i \in 1 .. K - 1
  BY <1>9
<1>27. \A i \in 1 .. K : arena'[i].base_pos = arena[i].base_pos
  BY <1>13, <1>23, <1>25, <1>26, Zenon
<1>28. ASSUME NEW i \in 1 .. n PROVE rest[i].block <= K /\ (rest[i].block = K => rest[i].to <= N)
  <2>1. n # 0 /\ n \in 1 .. n
    BY <1>1
  <2>2. K = rest[n].block /\ N = rest[n].to /\ K = live[n].block
    BY <1>4, <1>6, <1>7, <2>1 DEF EndBlock, EndPos
  <2>3. CASE i = n
    <3>1. K <= K /\ N <= N
      BY <1>9
    <3> QED BY <2>2, <2>3, <3>1
  <2>4. CASE i # n
    <3>1. i \in 1 .. m /\ n \in 1 .. m /\ i < n
      BY <1>1, <2>4
    <3>2. Before(live[i], live[n]) /\ rest[i] = live[i]
      BY <1>1, <1>4, <2>4, <3>1 DEF Regions, Ordered
    <3>3. /\ live[i].to \in Nat /\ live[n].from \in Nat /\ rest[n].to \in Nat
          /\ live[n].from <= rest[n].to
      BY <1>3, <1>4, <2>1, <3>1 DEF RegionRecord
    <3>4. live[i].block <= K /\ (live[i].block = K => live[i].to <= live[n].from)
      BY <2>2, <3>2 DEF Before
    <3> QED BY <2>2, <3>2, <3>3, <3>4
  <2> QED BY <2>3, <2>4
<1>29. Fitting(arena', rest)
  <2> SUFFICES ASSUME NEW i \in 1 .. n PROVE RegionFits(arena', rest[i])
    BY Zenon DEF Fitting
  <2>1. PICK j \in 1 .. w, f \in Nat, t \in Nat :
          /\ j = rest[i].block /\ f = rest[i].from /\ t = rest[i].to
          /\ Header <= f /\ f <= t /\ t <= arena[j].pos /\ t <= arena[j].cmt
          /\ rest[i].from % rest[i].align = 0
    <3>1. rest[i].from \in Nat /\ rest[i].to \in Nat
      BY <1>4 DEF RegionRecord
    <3> QED BY <1>2, <1>4, <3>1, Zenon DEF RegionFits
  <2>2. j \in 1 .. K /\ (j = K => t <= N)
    <3>1. j <= K /\ (j = K => t <= N)
      BY <1>28, <2>1
    <3> QED BY <1>9, <3>1
  <2>3. t <= arena'[j].pos /\ t <= arena'[j].cmt
    <3>1. CASE j = K
      <4>1. t <= N /\ t <= b.cmt
        BY <1>13, <2>1, <2>2, <3>1
      <4>2. t <= cmt
        <5>1. CASE cmt = b.cmt
          BY <4>1, <5>1
        <5>2. CASE cmt = up
          BY <1>9, <1>20, <4>1, <5>2
        <5> QED BY <1>21, <5>1, <5>2
      <4> QED BY <1>23, <1>25, <3>1, <4>1, <4>2
    <3>2. CASE j # K
      BY <1>25, <1>26, <2>1, <2>2, <3>2
    <3> QED BY <3>1, <3>2
  <2> QED BY <1>25, <2>1, <2>2, <2>3, Zenon DEF RegionFits
<1>30. Ordered(rest)
  <2> SUFFICES ASSUME NEW i \in 1 .. n, NEW j \in 1 .. n, i < j PROVE Before(rest[i], rest[j])
    BY Zenon DEF Ordered
  <2>1. i \in 1 .. m /\ j \in 1 .. m /\ i # n
    BY <1>1
  <2>2. Before(live[i], live[j])
    BY <1>1, <2>1, Zenon DEF Regions, Ordered
  <2>3. rest[i] = live[i] /\ rest[j].block = live[j].block /\ rest[j].from = live[j].from
    BY <1>4, <2>1, Zenon
  <2> QED BY <2>2, <2>3, Zenon DEF Before
<1>31. ASSUME NEW j \in 2 .. K PROVE \E i \in 1 .. n : rest[i].block = j
  <2>1. n # 0
    BY <1>6, <1>9 DEF EndBlock
  <2>2. n \in 1 .. n /\ n \in 1 .. m /\ K = rest[n].block
    BY <1>1, <1>6, <2>1 DEF EndBlock
  <2>3. CASE j = K
    BY <2>2, <2>3
  <2>4. CASE j # K
    <3>1. j \in 2 .. w /\ j < K
      BY <1>9, <2>4
    <3>2. PICK i \in 1 .. m : live[i].block = j
      BY <1>1, <1>2, <3>1, Zenon DEF Regions
    <3>3. i < n
      <4>1. SUFFICES ASSUME n < i PROVE FALSE
        <5>1. i # n
          BY <1>4, <2>2, <2>4, <3>2
        <5> QED BY <1>1, <5>1
      <4>2. live[n].block <= live[i].block
        BY <1>1, <2>2, <4>1, Zenon DEF Regions, Ordered, Before
      <4>3. K = live[n].block
        BY <1>4, <2>2
      <4> QED BY <1>9, <3>1, <3>2, <4>2, <4>3
    <3>4. i \in 1 .. n
      BY <1>1, <3>3
    <3> QED BY <1>4, <3>2, <3>4
  <2> QED BY <2>3, <2>4
<1>32. Regions(arena', rest)
  BY <1>25, <1>29, <1>30, <1>31, Zenon DEF Regions
<1>33. EndsWith(arena', rest)
  BY <1>6, <1>7, <1>23, <1>25, Zenon DEF EndsWith
<1>34. Backed(arena', committed')
  <2> SUFFICES ASSUME NEW j \in 1 .. K, NEW p \in Nat, p * P < arena'[j].cmt
               PROVE  <<j, p>> \in committed'
    BY <1>19, <1>25 DEF Backed
  <2>1. p * P \in Nat /\ j <= K
    BY <1>9
  <2>2. arena[j].cmt \in Nat /\ j \in 1 .. w
    BY <1>2, <1>9 DEF BlockRecord
  <2>3. p * P < arena[j].cmt /\ (j = K => ~(cmt <= p * P))
    <3>1. CASE j = K
      BY <1>13, <1>14, <1>22, <1>23, <1>25, <2>1, <3>1
    <3>2. CASE j # K
      BY <1>25, <1>26, <3>2
    <3> QED BY <3>1, <3>2
  <2>4. <<j, p>> \in committed
    BY <1>2, <1>19, <2>2, <2>3 DEF Backed
  <2>5. <<j, p>> \notin Ar!os_decommit(K, cmt, b.cmt)
    <3>1. \A h, q : <<h, q>> \in Ar!PagesMoved(K, cmt, b.cmt) => h = K /\ cmt <= q * P
      BY <1>14, <1>19, <1>22, PagesFacts
    <3> QED BY <2>3, <3>1 DEF Ar!os_decommit
  <2>6. <<j, p>>[1] = j
    OBVIOUS
  <2> QED BY <1>18, <2>1, <2>4, <2>5, <2>6
<1>35. ~aborted'
  <2>1. ~(N > b.pos)
    BY <1>9, <1>13, <1>14
  <2> QED BY <1>18, <2>1, Zenon
<1> QED BY <1>18, <1>25, <1>27, <1>32, <1>33, <1>34, <1>35

\* The new arena has nothing but its header in use.
LEMMA ArenaStarts == Ar!ArenaFits /\ Ar!Init => ArenaInv
<1> SUFFICES ASSUME Ar!ArenaFits, Ar!Init PROVE ArenaInv
  OBVIOUS
<1> DEFINE b == Ar!arena_alloc(ReserveSize, CommitSize, 0)
<1>1. /\ arena = <<b>>
      /\ committed = Ar!os_commit(1, 0, Ar!align_pow2(CommitSize, PageSize))
      /\ live = <<>> /\ temps = <<>> /\ aborted = FALSE
  BY DEF Ar!Init
<1>2. <<ReserveSize, CommitSize>> \in Ar!BlockParams
  BY DEF Ar!BlockParams
<1>3. /\ b \in BlockRecord /\ BlockFits(b) /\ b.base_pos = 0 /\ b.pos = Header
      /\ b.cmt = Ar!align_pow2(CommitSize, PageSize)
  BY <1>2, NewBlockFits
<1> HIDE DEF b
<1>4. Len(arena) = 1 /\ arena[1] = b /\ arena \in Seq(BlockRecord) /\ arena # <<>>
  BY <1>1, <1>3
<1>5. \A i \in 1 .. 1 : i = 1
  OBVIOUS
<1>6. Blocks(arena)
  <2>1. \A i, j \in 1 .. 1 : ~(i < j)
    OBVIOUS
  <2> QED BY <1>3, <1>4, <1>5, <2>1, Zenon DEF Blocks
<1>7. Len(live) = 0 /\ live \in Seq(RegionRecord) /\ Len(temps) = 0 /\ temps \in Seq(TempRecord)
  BY <1>1
<1>8. \A i \in 1 .. 0 : FALSE
  OBVIOUS
<1>9. Regions(arena, live)
  <2>1. \A k \in 2 .. 1 : FALSE
    OBVIOUS
  <2> QED BY <1>4, <1>7, <1>8, <2>1, Zenon DEF Regions, Fitting, Ordered
<1>10. EndsWith(arena, live)
  BY <1>3, <1>4, <1>7, Zenon DEF EndsWith, EndBlock, EndPos
<1>11. Scopes(arena, live, temps)
  BY <1>7, <1>8, Zenon DEF Scopes
<1>12. Backed(arena, committed)
  <2>1. PICK P \in Nat \ {0} : P = PageSize
    BY <1>2, ParamsFacts
  <2> SUFFICES ASSUME NEW j \in 1 .. 1, NEW p \in Nat, p * P < b.cmt PROVE <<j, p>> \in committed
    BY <1>4, <1>5, <2>1 DEF Backed
  <2>2. Multiple(0, P)
    <3>1. 0 = P * 0
      OBVIOUS
    <3> QED BY <3>1 DEF Multiple
  <2>3. b.cmt \in Nat /\ p * P \in Nat /\ 0 <= p * P
    BY <1>3 DEF BlockRecord
  <2>4. <<1, p>> \in Ar!PagesMoved(1, 0, b.cmt)
    BY <2>1, <2>2, <2>3, PagesFacts
  <2> QED BY <1>1, <1>3, <1>5, <2>4 DEF Ar!os_commit
<1> QED BY <1>1, <1>6, <1>9, <1>10, <1>11, <1>12 DEF ArenaInv

\* Clearing pops to the header.
LEMMA ClearKeeps ==
  ASSUME Ar!ArenaFits, ArenaInv, Ar!arena_clear
  PROVE  ArenaInv'
<1>1. /\ ~aborted /\ Blocks(arena) /\ Regions(arena, live) /\ Backed(arena, committed)
      /\ temps = <<>> /\ temps' = <<>> /\ Ar!arena_pop_to(0, <<>>)
  BY Zenon DEF ArenaInv, Ar!arena_clear
<1>2. Len(live) \in Nat /\ 0 \in 0 .. Len(live)
  BY <1>1 DEF Regions, Fitting
<1>3. /\ <<>> \in Seq(RegionRecord) /\ Len(<<>>) = 0
      /\ \A i \in 1 .. 0 - 1 : <<>>[i] = live[i]
  OBVIOUS
<1>4. Ar!AtLeast(0, Header) = End(arena, <<>>, 0)
  <2>1. arena[1].base_pos = 0 /\ Header \in Nat \ {0}
    BY <1>1 DEF Blocks, Ar!ArenaFits
  <2>2. End(arena, <<>>, 0) = 0 + Header
    BY <2>1, Zenon DEF End, EndBlock, EndPos
  <2> QED BY <2>1, <2>2 DEF Ar!AtLeast
<1>5. PICK rest : rest = <<>>
  OBVIOUS
<1>6. /\ ~aborted' /\ live' = rest
      /\ Blocks(arena') /\ Regions(arena', live') /\ EndsWith(arena', live')
      /\ Backed(arena', committed')
  BY <1>1, <1>2, <1>3, <1>4, <1>5, PopKeeps
<1>7. Scopes(arena', live', temps')
  <2>1. temps' \in Seq(TempRecord) /\ Len(temps') = 0 /\ \A i \in 1 .. 0 : FALSE
    BY <1>1
  <2> QED BY <2>1, Zenon DEF Scopes
<1> QED BY <1>6, <1>7, Zenon DEF ArenaInv

\* Giving back the end of the last region keeps the rest of it.
LEMMA PopLastKeeps ==
  ASSUME Ar!ArenaFits, ArenaInv, NEW amt \in Pops, Ar!arena_pop(amt)
  PROVE  ArenaInv'
<1>1. /\ ~aborted /\ Blocks(arena) /\ Regions(arena, live) /\ EndsWith(arena, live)
      /\ Backed(arena, committed) /\ Scopes(arena, live, temps)
  BY DEF ArenaInv
<1>2. PICK n \in Nat : /\ n = Len(live) /\ n # 0 /\ n \in 1 .. n /\ n \in 0 .. n
                       /\ live \in Seq(RegionRecord)
  <2>1. live \in Seq(RegionRecord) /\ live # <<>>
    BY <1>1 DEF Regions, Fitting, Ar!arena_pop
  <2> QED BY <2>1
<1>3. PICK last : last = live[n]
  OBVIOUS
<1>4. PICK k \in 1 .. Len(arena) : k = last.block
  BY <1>1, <1>2, <1>3 DEF Regions, Fitting, RegionFits
<1>5. /\ last \in RegionRecord /\ Header <= last.from /\ last.from <= last.to /\ last.to <= arena[k].pos
      /\ last.from \in Nat /\ last.to \in Nat /\ Header \in Nat \ {0} /\ amt \in Nat
  <2>1. last \in RegionRecord /\ RegionFits(arena, last)
    BY <1>1, <1>2, <1>3 DEF Regions, Fitting
  <2> QED BY <1>4, <2>1 DEF RegionRecord, RegionFits, Ar!ArenaFits
<1>6. k = Len(arena) /\ arena[k].pos = last.to
  BY <1>1, <1>2, <1>3, <1>4, Zenon DEF EndsWith, EndBlock, EndPos
<1>7. PICK base \in Nat : base = arena[k].base_pos
  <2>1. arena[k] \in BlockRecord
    BY <1>1 DEF Blocks
  <2> QED BY <2>1 DEF BlockRecord
<1>8. PICK old : old = Ar!arena_pos(arena)
  OBVIOUS
<1>9. old = base + last.to
  BY <1>6, <1>7, <1>8 DEF Ar!arena_pos, Ar!LastOf
<1>10. PICK short : short = [last EXCEPT !.to = @ - amt]
  OBVIOUS
<1>11. PICK rest : rest = Append(SubSeq(live, 1, n - 1), short)
  OBVIOUS
<1>12. PICK pos : pos = IF amt < old THEN old - amt ELSE old
  OBVIOUS
<1>13. /\ amt <= last.to - last.from /\ Ar!arena_pop_to(pos, rest) /\ temps' = temps
       /\ temps # <<>> => n > temps[Len(temps)].live
  BY <1>2, <1>3, <1>8, <1>10, <1>11, <1>12, Zenon DEF Ar!arena_pop, Ar!LastOf
<1>14. /\ short \in RegionRecord /\ short.block = last.block /\ short.from = last.from
       /\ short.align = last.align /\ short.to = last.to - amt
       /\ short.from <= short.to /\ short.to <= last.to
  BY <1>5, <1>10, <1>13 DEF RegionRecord
<1>15. /\ rest \in Seq(RegionRecord) /\ Len(rest) = n /\ rest[n] = short
       /\ \A i \in 1 .. n - 1 : rest[i] = live[i]
  <2>1. n \in 1 .. Len(live) + 1
    BY <1>2
  <2> DEFINE cut == SubSeq(live, 1, n - 1) \o <<short>>
  <2>2. /\ cut \in Seq(RegionRecord) /\ Len(cut) = n /\ cut[n] = short
        /\ \A i \in 1 .. n - 1 : cut[i] = live[i]
    BY <1>2, <1>14, <2>1, CutFacts
  <2>3. rest = cut
    <3>1. SubSeq(live, 1, n - 1) \in Seq(RegionRecord)
      <4>1. \A i \in 1 .. n - 1 : live[i] \in RegionRecord
        BY <1>2
      <4> QED BY <1>2, <4>1, SubSeqProperties
    <3> QED BY <1>11, <3>1
  <2> HIDE DEF cut
  <2> QED BY <2>2, <2>3
<1>16. Ar!AtLeast(pos, Header) = End(arena, rest, n)
  <2>1. End(arena, rest, n) = base + (last.to - amt)
    BY <1>2, <1>4, <1>7, <1>14, <1>15 DEF End, EndBlock, EndPos
  <2>2. amt < old
    BY <1>5, <1>9, <1>13
  <2>3. pos = base + (last.to - amt)
    BY <1>5, <1>9, <1>12, <2>2
  <2>4. Header <= last.to - amt
    BY <1>5, <1>13
  <2>5. ~(pos < Header) /\ (pos > Header \/ pos = Header)
    BY <1>5, <1>7, <2>3, <2>4
  <2> QED BY <2>1, <2>3, <2>5, Zenon DEF Ar!AtLeast
<1>17. n # 0 => /\ rest[n].block = live[n].block /\ rest[n].from = live[n].from
                /\ rest[n].align = live[n].align
                /\ rest[n].from <= rest[n].to /\ rest[n].to <= live[n].to
  BY <1>3, <1>14, <1>15
<1>18. /\ ~aborted' /\ live' = rest
       /\ Blocks(arena') /\ Regions(arena', live') /\ EndsWith(arena', live')
       /\ Backed(arena', committed')
       /\ \A i \in 1 .. Len(arena') : arena'[i].base_pos = arena[i].base_pos
  BY <1>1, <1>2, <1>13, <1>15, <1>16, <1>17, PopKeeps
<1>19. temps \in Seq(TempRecord) /\ Len(temps) \in Nat /\ \A i \in 1 .. Len(temps) : temps[i].live \in Nat
  <2>1. temps \in Seq(TempRecord)
    BY <1>1 DEF Scopes
  <2>2. \A i \in 1 .. Len(temps) : temps[i] \in TempRecord
    BY <2>1
  <2> QED BY <2>1, <2>2 DEF TempRecord
<1>20. ASSUME NEW i \in 1 .. Len(temps) PROVE temps[i].live <= n - 1
  <2>1. Len(temps) \in 1 .. Len(temps) /\ temps # <<>>
    BY <1>19
  <2>2. temps[i].live <= temps[Len(temps)].live
    <3>1. CASE i = Len(temps)
      BY <1>19, <3>1
    <3>2. CASE i < Len(temps)
      BY <1>1, <2>1, <3>2, Zenon DEF Scopes
    <3> QED BY <1>19, <3>1, <3>2
  <2> QED BY <1>13, <1>19, <2>1, <2>2
<1>21. Scopes(arena', live', temps')
  <2>1. PICK a1, l1 : a1 = arena' /\ l1 = live'
    OBVIOUS
  <2>2. /\ n - 1 \in 0 .. Len(l1) /\ \A i \in 1 .. n - 1 : l1[i] = live[i]
        /\ Blocks(a1) /\ Fitting(a1, l1) /\ Len(temps) <= Len(temps)
        /\ \A i \in 1 .. Len(a1) : a1[i].base_pos = arena[i].base_pos
        /\ \A i \in 1 .. Len(temps) : temps[i] = temps[i]
    <3>1. n - 1 \in 0 .. Len(l1)
      BY <1>2, <1>15, <1>18, <2>1
    <3>2. Len(temps) <= Len(temps)
      BY <1>19
    <3> QED BY <1>15, <1>18, <2>1, <3>1, <3>2, Zenon DEF Regions
  <2>3. Scopes(a1, l1, temps)
    BY <1>1, <1>19, <1>20, <2>2, ScopesKept
  <2> QED BY <1>13, <2>1, <2>3
<1> QED BY <1>18, <1>21, Zenon DEF ArenaInv

\* Opening a scope remembers where the regions end.
LEMMA BeginKeeps ==
  ASSUME Ar!ArenaFits, ArenaInv, Ar!temp_begin
  PROVE  ArenaInv'
<1>1. /\ ~aborted /\ Blocks(arena) /\ Regions(arena, live) /\ EndsWith(arena, live)
      /\ Backed(arena, committed) /\ Scopes(arena, live, temps)
  BY DEF ArenaInv
<1>2. PICK n \in Nat : n = Len(live)
  BY <1>1 DEF Regions, Fitting
<1>3. PICK new : new = [pos |-> Ar!arena_pos(arena), live |-> n]
  OBVIOUS
<1>4. /\ temps' = Append(temps, new) /\ arena' = arena /\ committed' = committed /\ live' = live
      /\ aborted' = aborted
  BY <1>2, <1>3, Zenon DEF Ar!temp_begin
<1>5. Ar!arena_pos(arena) = End(arena, live, n)
  BY <1>1, <1>2, Zenon DEF Ar!arena_pos, Ar!LastOf, End, EndsWith
<1>6. new \in TempRecord /\ new.live = n /\ new.pos = End(arena, live, n)
  <2>1. n \in 0 .. Len(live)
    BY <1>2
  <2>2. End(arena, live, n) \in Nat
    BY <1>1, <2>1, EndFacts DEF Regions
  <2> QED BY <1>2, <1>3, <1>5, <2>2 DEF TempRecord
<1>7. PICK m \in Nat : m = Len(temps) /\ temps \in Seq(TempRecord)
  BY <1>1 DEF Scopes
<1>8. /\ temps' \in Seq(TempRecord) /\ Len(temps') = m + 1
      /\ \A i \in 1 .. m : temps'[i] = temps[i]
      /\ temps'[m + 1] = new
  BY <1>4, <1>6, <1>7, AppendAt
<1>9. \A i \in 1 .. m + 1 : i = m + 1 \/ i \in 1 .. m
  BY <1>7
<1>10. \A i \in 1 .. m : temps[i].live <= n /\ temps[i].pos = End(arena, live, temps[i].live)
  BY <1>1, <1>2, <1>7, Zenon DEF Scopes
<1>11. \A i \in 1 .. m + 1 : temps'[i].live <= n /\ temps'[i].pos = End(arena, live, temps'[i].live)
  <2>1. n <= n
    BY <1>2
  <2> QED BY <1>6, <1>8, <1>9, <1>10, <2>1, Zenon
<1>12. ASSUME NEW i \in 1 .. m + 1, NEW j \in 1 .. m + 1, i < j PROVE temps'[i].live <= temps'[j].live
  <2>1. i \in 1 .. m
    BY <1>7, <1>12
  <2>2. CASE j = m + 1
    BY <1>6, <1>8, <1>10, <2>1, <2>2, Zenon
  <2>3. CASE j \in 1 .. m
    BY <1>1, <1>7, <1>8, <1>12, <2>1, <2>3, Zenon DEF Scopes
  <2> QED BY <1>9, <2>2, <2>3
<1>13. Scopes(arena', live', temps')
  BY <1>2, <1>4, <1>8, <1>11, <1>12, Zenon DEF Scopes
<1> QED BY <1>1, <1>4, <1>13, Zenon DEF ArenaInv

\* Closing the innermost scope leaves the regions it found.
LEMMA EndKeeps ==
  ASSUME Ar!ArenaFits, ArenaInv, Ar!temp_end
  PROVE  ArenaInv'
<1>1. /\ ~aborted /\ Blocks(arena) /\ Regions(arena, live) /\ EndsWith(arena, live)
      /\ Backed(arena, committed) /\ Scopes(arena, live, temps)
  BY DEF ArenaInv
<1>2. PICK w \in Nat : w = Len(temps) /\ w # 0 /\ w \in 1 .. w /\ temps \in Seq(TempRecord) /\ temps # <<>>
  <2>1. temps \in Seq(TempRecord) /\ temps # <<>>
    BY <1>1 DEF Scopes, Ar!temp_end
  <2> QED BY <2>1
<1>3. \A i \in 1 .. w : temps[i].live \in Nat
  <2>1. \A i \in 1 .. w : temps[i] \in TempRecord
    BY <1>2
  <2> QED BY <2>1 DEF TempRecord
<1>4. PICK m \in Nat : m = Len(live) /\ live \in Seq(RegionRecord)
  BY <1>1 DEF Regions, Fitting
<1>5. PICK n \in 0 .. m : n = temps[w].live /\ temps[w].pos = End(arena, live, n)
  <2>1. temps[w].live \in 0 .. m
    BY <1>1, <1>2, <1>3, <1>4 DEF Scopes
  <2> QED BY <1>1, <1>2, <2>1, Zenon DEF Scopes
<1>6. PICK rest : rest = SubSeq(live, 1, n)
  OBVIOUS
<1>7. PICK pos : pos = temps[w].pos
  OBVIOUS
<1>8. Ar!arena_pop_to(pos, rest) /\ temps' = SubSeq(temps, 1, w - 1)
  BY <1>2, <1>5, <1>6, <1>7, Zenon DEF Ar!temp_end, Ar!LastOf
<1>9. rest \in Seq(RegionRecord) /\ Len(rest) = n /\ \A i \in 1 .. n : rest[i] = live[i]
  <2>1. \A i \in 1 .. n : live[i] \in RegionRecord
    BY <1>4
  <2>2. /\ rest \in Seq(RegionRecord) /\ Len(rest) = IF 1 <= n THEN n - 1 + 1 ELSE 0
        /\ \A i \in 1 .. n - 1 + 1 : rest[i] = live[1 + i - 1]
    BY <1>6, <2>1, SubSeqProperties
  <2>3. n - 1 + 1 = n /\ \A i \in 1 .. n : 1 + i - 1 = i
    OBVIOUS
  <2> QED BY <2>2, <2>3
<1>10. EndBlock(rest, n) = EndBlock(live, n) /\ EndPos(rest, n) = EndPos(live, n)
  <2>1. n # 0 => n \in 1 .. n
    BY <1>4
  <2> QED BY <1>9, <2>1, Zenon DEF EndBlock, EndPos
<1>11. Ar!AtLeast(pos, Header) = End(arena, rest, n)
  <2>1. End(arena, rest, n) = End(arena, live, n)
    BY <1>10, Zenon DEF End
  <2>2. End(arena, live, n) \in Nat /\ Header <= End(arena, live, n) /\ Header \in Nat
    BY <1>1, <1>4, EndFacts DEF Regions, Ar!ArenaFits
  <2> QED BY <1>5, <1>7, <2>1, <2>2 DEF Ar!AtLeast
<1>12. n # 0 => /\ rest[n].block = live[n].block /\ rest[n].from = live[n].from
                /\ rest[n].align = live[n].align
                /\ rest[n].from <= rest[n].to /\ rest[n].to <= live[n].to
  <2> SUFFICES ASSUME n # 0
               PROVE  /\ rest[n] = live[n] /\ live[n].from <= live[n].to /\ live[n].to <= live[n].to
    BY Zenon
  <2>1. n \in 1 .. n /\ n \in 1 .. m
    BY <1>4
  <2>2. live[n] \in RegionRecord /\ RegionFits(arena, live[n])
    BY <1>1, <1>4, <2>1 DEF Regions, Fitting
  <2> QED BY <1>9, <2>1, <2>2 DEF RegionRecord, RegionFits
<1>13. \A i \in 1 .. n - 1 : rest[i] = live[i]
  BY <1>9
<1>14. /\ ~aborted' /\ live' = rest
       /\ Blocks(arena') /\ Regions(arena', live') /\ EndsWith(arena', live')
       /\ Backed(arena', committed')
       /\ \A i \in 1 .. Len(arena') : arena'[i].base_pos = arena[i].base_pos
  BY <1>1, <1>4, <1>8, <1>9, <1>11, <1>12, <1>13, PopKeeps
<1>15. /\ temps' \in Seq(TempRecord) /\ Len(temps') = w - 1
       /\ \A i \in 1 .. w - 1 : temps'[i] = temps[i]
  <2>1. Len(temps') = w - 1 /\ \A i \in 1 .. w - 1 : temps'[i] = temps[i]
    BY <1>2, <1>8, FrontAt
  <2>2. temps' \in Seq(TempRecord)
    <3>1. \A i \in 1 .. w - 1 : temps[i] \in TempRecord
      BY <1>2
    <3> QED BY <1>2, <1>8, <3>1, SubSeqProperties
  <2> QED BY <2>1, <2>2
<1>16. \A i \in 1 .. w - 1 : temps[i].live <= n
  <2> SUFFICES ASSUME NEW i \in 1 .. w - 1 PROVE temps[i].live <= n
    OBVIOUS
  <2>1. i \in 1 .. w /\ i < w
    BY <1>2
  <2> QED BY <1>1, <1>2, <1>5, <2>1, Zenon DEF Scopes
<1>17. Scopes(arena', live', temps')
  <2>1. PICK a1, l1, t1 : a1 = arena' /\ l1 = live' /\ t1 = temps'
    OBVIOUS
  <2>2. /\ n \in 0 .. Len(l1) /\ Len(t1) <= Len(temps)
    BY <1>2, <1>4, <1>9, <1>14, <1>15, <2>1
  <2>3. /\ \A i \in 1 .. n : l1[i] = live[i]
        /\ Blocks(a1) /\ Fitting(a1, l1)
        /\ t1 \in Seq(TempRecord)
        /\ \A i \in 1 .. Len(t1) : t1[i] = temps[i]
        /\ \A i \in 1 .. Len(t1) : t1[i].live <= n
        /\ \A i \in 1 .. Len(a1) : a1[i].base_pos = arena[i].base_pos
    BY <1>9, <1>14, <1>15, <1>16, <2>1, Zenon DEF Regions
  <2>4. Scopes(a1, l1, t1)
    BY <1>1, <2>2, <2>3, ScopesKept
  <2> QED BY <2>1, <2>4
<1> QED BY <1>14, <1>17, Zenon DEF ArenaInv

\* However pushes, chained blocks, pops and nested scopes are mixed, what arena_push hands
\* out stays backed, private and aligned until it is popped, no scope's end fails its
\* assertion, and the chain keeps no block that nothing lives in (base_arena.cpp).
THEOREM ArenaStaysSound ==
  ASSUME Ar!ArenaFits
  PROVE  Ar!Init /\ [][Ar!Next]_arenaVars => []ArenaSound
<1>1. Ar!Init => ArenaInv
  BY ArenaStarts
<1>2. ArenaInv /\ [Ar!Next]_arenaVars => ArenaInv'
  <2> SUFFICES ASSUME ArenaInv, [Ar!Next]_arenaVars PROVE ArenaInv'
    OBVIOUS
  <2>1. CASE \E size \in Sizes, align \in Aligns : Ar!arena_push(size, align)
    BY <2>1, PushKeeps
  <2>2. CASE Ar!arena_clear
    BY <2>2, ClearKeeps
  <2>3. CASE \E amt \in Pops : Ar!arena_pop(amt)
    BY <2>3, PopLastKeeps
  <2>4. CASE Ar!temp_begin
    BY <2>4, BeginKeeps
  <2>5. CASE Ar!temp_end
    BY <2>5, EndKeeps
  <2>6. CASE UNCHANGED arenaVars
    BY <2>6, Zenon DEF arenaVars, ArenaInv
  <2> QED BY <2>1, <2>2, <2>3, <2>4, <2>5, <2>6, Zenon DEF Ar!Next
<1>3. ArenaInv => ArenaSound
  BY ArenaInvSound
<1> QED BY <1>1, <1>2, <1>3, PTL

-----------------------------------------------------------------------------
(* The allocator (module Allocator).                                       *)

\* The allocator computes with its arena as any arena does.
LEMMA AllocatorSame ==
  /\ Al!Power = Ar!Power
  /\ \A x, b : Al!align_pow2(x, b) = Ar!align_pow2(x, b)
  /\ \A k, from, to : /\ Al!PagesOf(k, from, to) = Ar!PagesOf(k, from, to)
                      /\ Al!PagesMoved(k, from, to) = Ar!PagesMoved(k, from, to)
<1>1. Al!Power = Ar!Power
  BY Zenon DEF Al!Power, Ar!Power
<1>2. \A x, i : Al!Bit(x, i) = Ar!Bit(x, i)
  BY <1>1, Zenon DEF Al!Bit, Ar!Bit
<1>3. \A x, b : Al!align_pow2(x, b) = Ar!align_pow2(x, b)
  BY <1>1, Zenon DEF Al!align_pow2, Ar!align_pow2, Al!Bit, Ar!Bit, Al!Power, Ar!Power
<1>4. \A k, from, to : Al!PagesOf(k, from, to) = Ar!PagesOf(k, from, to)
  BY Zenon DEF Al!PagesOf, Ar!PagesOf
<1>5. \A k, from, to : Al!PagesMoved(k, from, to) = Ar!PagesMoved(k, from, to)
  BY <1>4, Zenon DEF Al!PagesMoved, Ar!PagesMoved
<1> QED BY <1>1, <1>3, <1>4, <1>5

\* The end of the reserved block.
Top == Al!align_pow2(BlockSize, PageSize)

\* The sizes of an allocator that fits.
LEMMA AllocatorSizes ==
  ASSUME Al!AllocatorFits
  PROVE  /\ Width \in Nat /\ Header \in Nat \ {0} /\ Stride \in Nat \ {0}
         /\ PageSize \in Powers /\ PageSize \in Nat \ {0}
         /\ CommitSize \in Powers /\ CommitSize \in Nat \ {0}
         /\ PageSize <= CommitSize /\ Multiple(CommitSize, PageSize)
         /\ Top \in Nat /\ Multiple(Top, PageSize)
         /\ Header + Stride <= Top /\ CommitSize <= Top
         /\ Al!align_pow2(CommitSize, PageSize) = CommitSize
         /\ Ar!Power[Width] \in Nat /\ Top + CommitSize <= Ar!Power[Width]
         /\ \A align \in ObjectAligns : /\ align \in Powers /\ align \in Nat \ {0}
                                        /\ Top + align <= Ar!Power[Width]
<1>1. /\ Width \in Nat /\ Header \in Nat \ {0} /\ Stride \in Nat \ {0}
      /\ PageSize \in Powers /\ CommitSize \in Powers /\ ObjectAligns \subseteq Powers
      /\ BlockSize \in Nat /\ Header + Stride <= BlockSize
      /\ PageSize <= CommitSize /\ CommitSize <= BlockSize
      /\ BlockSize + PageSize + CommitSize <= Ar!Power[Width]
      /\ \A align \in ObjectAligns : BlockSize + PageSize + align <= Ar!Power[Width]
  BY AllocatorSame, Zenon DEF Al!AllocatorFits, Powers
<1>2. \A b \in Powers : b \in Nat \ {0}
  BY <1>1, PowersOfArena DEF Powers
<1>3. Ar!Power[Width] \in Nat
  <2>1. Width \in 0 .. Width
    BY <1>1
  <2> QED BY <1>1, <2>1, PowersOfArena
<1>4. PICK P \in Nat \ {0}, c \in Nat \ {0}, r \in Nat, W \in Nat, h \in Nat :
        /\ P = PageSize /\ c = CommitSize /\ r = BlockSize /\ W = Ar!Power[Width] /\ h = Header + Stride
        /\ P <= c /\ c <= r /\ h <= r /\ r + P + c <= W /\ P \in Powers /\ c \in Powers
  <2>1. Header + Stride \in Nat
    BY <1>1
  <2> QED BY <1>1, <1>2, <1>3, <2>1, Zenon
<1>5. r + P <= W /\ c + P <= W
  BY <1>4
<1>6. PICK m \in Nat : m = Top /\ Multiple(m, P) /\ r <= m /\ m < r + P
  <2>1. Top = Ar!align_pow2(r, P)
    BY <1>4, AllocatorSame, Zenon DEF Top
  <2> QED BY <1>1, <1>4, <1>5, <2>1, AlignFacts
<1>7. Multiple(c, P)
  <2>1. c = c * 1
    BY <1>4
  <2>2. Multiple(c, c)
    BY <2>1 DEF Multiple
  <2> QED BY <1>1, <1>4, <2>2, PowersDivide
<1>8. Al!align_pow2(c, P) = c
  <2>1. c % P = 0
    BY <1>7, MultipleFacts
  <2>2. Ar!align_pow2(c, P) = c
    BY <1>1, <1>4, <1>5, <2>1, AlignFacts
  <2> QED BY <2>2, AllocatorSame, Zenon
<1>9. m + c <= W
  BY <1>4, <1>6
<1>10. ASSUME NEW align \in ObjectAligns PROVE align \in Powers /\ align \in Nat \ {0} /\ m + align <= W
  <2>1. align \in Powers /\ align \in Nat \ {0} /\ r + P + align <= W
    BY <1>1, <1>2, <1>4
  <2> QED BY <1>6, <2>1
<1>11. h <= m /\ c <= m
  BY <1>4, <1>6
<1> QED BY <1>1, <1>4, <1>6, <1>7, <1>8, <1>9, <1>10, <1>11, Zenon

\* What a decommit takes ends where it is told to.
LEMMA PagesBelow ==
  ASSUME NEW P \in Nat \ {0}, P = PageSize, NEW k, NEW from \in Nat, NEW to \in Nat
  PROVE  \A j, p : <<j, p>> \in Ar!PagesMoved(k, from, to) => j = k /\ p * P < to
<1> SUFFICES ASSUME NEW j, NEW p, <<j, p>> \in Ar!PagesMoved(k, from, to) PROVE j = k /\ p * P < to
  OBVIOUS
<1>1. from < to /\ j = k /\ p \in from \div P .. (to - 1) \div P
  BY DEF Ar!PagesMoved, Ar!PagesOf
<1>2. to - 1 \in Nat
  BY <1>1
<1>3. PICK m \in Nat, h \in Nat : m = from \div P /\ h = (to - 1) \div P /\ P * h <= to - 1
  BY <1>2, DivFacts
<1>4. PICK d \in Nat : p \in Nat /\ h = p + d
  <2>1. p \in m .. h
    BY <1>1, <1>3
  <2>2. p \in Nat /\ p <= h
    BY <1>3, <2>1
  <2> QED BY <1>3, <2>2, Difference
<1>5. P * h = p * P + P * d /\ P * d \in Nat /\ p * P \in Nat
  BY <1>4
<1> QED BY <1>1, <1>3, <1>5

\* The block: what it counts on is committed, and it ends at the top.
AllocBlock(b) ==
  /\ b \in BlockRecord /\ b.base_pos = 0 /\ b.cmt_size = CommitSize /\ b.res = Top
  /\ Multiple(b.cmt, PageSize) /\ b.pos <= b.cmt /\ b.pos <= Top

PlacedRecord == [block : Nat, from : Nat, to : Nat, align : ObjectAligns, object : Nat]

\* The objects lie one after another behind the Allocator, aligned.
Placed(b, low, l) ==
  /\ l \in Seq(PlacedRecord)
  /\ \A i \in 1 .. Len(l) : /\ l[i].block = 1 /\ low <= l[i].from /\ l[i].from <= l[i].to
                            /\ l[i].to <= b.pos /\ l[i].from % l[i].align = 0
  /\ \A i, j \in 1 .. Len(l) : i < j => l[i].to <= l[j].from

\* A push that ends inside the reservation has what it ends behind committed.
LEMMA AllocatorCommit ==
  ASSUME Al!AllocatorFits, NEW b, AllocBlock(b), NEW to \in Nat, to <= Top
  PROVE  /\ Al!CommitTo(b, to) \in Nat /\ Multiple(Al!CommitTo(b, to), PageSize)
         /\ to <= Al!CommitTo(b, to) /\ b.cmt <= Al!CommitTo(b, to)
         /\ b.cmt <= Top => Al!CommitTo(b, to) <= Top
<1>1. PICK P \in Nat \ {0}, c \in Nat \ {0}, m \in Nat :
        /\ P = PageSize /\ c = CommitSize /\ m = Top /\ P <= c /\ P \in Powers /\ c \in Powers
        /\ Width \in Nat /\ Multiple(m, P)
  BY AllocatorSizes, Zenon
<1>2. PICK old \in Nat : old = b.cmt /\ b.cmt_size = c /\ b.res = m /\ Multiple(old, P) /\ to <= m
  BY <1>1 DEF AllocBlock, BlockRecord
<1>3. PICK up \in Nat : up = to + c - 1
  BY <1>1
<1>4. PICK n \in Nat : n = up - (up % c) /\ Multiple(n, c) /\ up < n + c
  BY MultipleFacts
<1>5. to <= n /\ Multiple(n, P)
  <2>1. to <= n
    BY <1>1, <1>3, <1>4
  <2> QED BY <1>1, <1>4, <2>1, PowersDivide
<1>6. Al!CommitTo(b, to) = IF old < to THEN (IF n < m THEN n ELSE m) ELSE old
  BY <1>1, <1>2, <1>3, <1>4 DEF Al!CommitTo, Al!AtMost
<1>7. CASE old < to
  <2>1. CASE n < m
    BY <1>1, <1>2, <1>5, <1>6, <1>7, <2>1
  <2>2. CASE ~(n < m)
    BY <1>1, <1>2, <1>6, <1>7, <2>2
  <2> QED BY <2>1, <2>2
<1>8. CASE ~(old < to)
  BY <1>1, <1>2, <1>6, <1>8
<1> QED BY <1>7, <1>8

\* A push puts the next object behind the others (Allocator::push).
LEMMA PushPlaces ==
  ASSUME Al!AllocatorFits, NEW b, al_arena = <<b>>, AllocBlock(b), NEW low, Placed(b, low, al_live),
         low \in Nat, low <= b.pos, destructor_pos \in Nat, destructor_pos <= Top,
         NEW size \in ObjectSizes, NEW align \in ObjectAligns, NEW object \in Nat,
         Al!Push(size, align, object)
  PROVE  \E b1 : /\ al_arena' = <<b1>> /\ AllocBlock(b1) /\ Placed(b1, low, al_live')
                 /\ low <= b1.pos /\ b1.pos <= destructor_pos /\ b.cmt <= b1.cmt
<1>1. PICK m \in Nat, W \in Nat :
        /\ m = Top /\ W = Ar!Power[Width] /\ Width \in Nat
        /\ align \in Powers /\ align \in Nat \ {0} /\ m + align <= W
  BY AllocatorSizes, Zenon
<1>2. PICK pos \in Nat, old \in Nat : pos = b.pos /\ old = b.cmt /\ b \in BlockRecord /\ pos <= m /\ pos <= old
  BY <1>1 DEF AllocBlock, BlockRecord
<1>3. size \in Nat
  BY DEF Al!AllocatorFits
<1>4. PICK from \in Nat : /\ from = Al!align_pow2(pos, align) /\ pos <= from /\ from % align = 0
  <2>1. pos + align <= W
    BY <1>1, <1>2
  <2>2. /\ Ar!align_pow2(pos, align) \in Nat /\ Multiple(Ar!align_pow2(pos, align), align)
        /\ pos <= Ar!align_pow2(pos, align)
    BY <1>1, <2>1, AlignFacts
  <2>3. Ar!align_pow2(pos, align) % align = 0
    BY <1>1, <2>2, MultipleFacts
  <2> QED BY <2>2, <2>3, AllocatorSame, Zenon
<1>5. PICK to \in Nat : to = from + size
  BY <1>3
<1>6. PICK cmt : cmt = Al!CommitTo(b, to)
  OBVIOUS
<1>7. PICK b1 : b1 = [b EXCEPT !.pos = to, !.cmt = cmt]
  OBVIOUS
<1>8. PICK r : r = [block |-> 1, from |-> from, to |-> to, align |-> align, object |-> object]
  OBVIOUS
<1>9. al_arena[1] = b
  OBVIOUS
<1>10. to <= destructor_pos /\ al_arena' = <<b1>> /\ al_live' = Append(al_live, r)
  BY <1>2, <1>4, <1>5, <1>6, <1>7, <1>8, <1>9, Zenon DEF Al!Push, Al!Block
<1>11. cmt \in Nat /\ Multiple(cmt, PageSize) /\ to <= cmt /\ old <= cmt /\ to <= m
  <2>1. to <= m
    BY <1>1, <1>10
  <2> QED BY <1>1, <1>2, <1>6, <2>1, AllocatorCommit
<1>12. /\ b1 \in BlockRecord /\ b1.pos = to /\ b1.cmt = cmt /\ b1.base_pos = b.base_pos
       /\ b1.res = b.res /\ b1.cmt_size = b.cmt_size
  BY <1>2, <1>7, <1>11 DEF BlockRecord
<1>13. AllocBlock(b1)
  BY <1>1, <1>11, <1>12 DEF AllocBlock
<1>14. r \in PlacedRecord /\ r.block = 1 /\ r.from = from /\ r.to = to /\ r.align = align
  BY <1>8 DEF PlacedRecord
<1>15. PICK n \in Nat : n = Len(al_live) /\ al_live \in Seq(PlacedRecord)
  BY DEF Placed
<1>16. PICK l : l = al_live'
  OBVIOUS
<1>17. /\ l \in Seq(PlacedRecord) /\ Len(l) = n + 1 /\ l[n + 1] = r
       /\ \A i \in 1 .. n : l[i] = al_live[i]
  BY <1>10, <1>14, <1>15, <1>16, AppendAt
<1>18. \A i \in 1 .. n + 1 : i = n + 1 \/ i \in 1 .. n
  BY <1>15
<1>19. ASSUME NEW i \in 1 .. n
       PROVE  /\ l[i].block = 1 /\ low <= l[i].from /\ l[i].from <= l[i].to
              /\ l[i].to <= pos /\ l[i].from % l[i].align = 0
  BY <1>2, <1>15, <1>17, <1>19 DEF Placed
<1>20. low <= from /\ from <= to /\ pos <= to /\ pos <= from
  BY <1>2, <1>3, <1>4, <1>5
<1>21. \A i \in 1 .. n : l[i].to \in Nat
  <2>1. \A i \in 1 .. n : al_live[i] \in PlacedRecord
    BY <1>15
  <2> QED BY <1>17, <2>1 DEF PlacedRecord
<1>22. \A i \in 1 .. n : l[i].to <= to /\ l[i].to <= from
  <2> SUFFICES ASSUME NEW i \in 1 .. n PROVE l[i].to <= to /\ l[i].to <= from
    OBVIOUS
  <2>1. PICK t \in Nat : t = l[i].to /\ t <= pos
    BY <1>19, <1>21
  <2>2. t <= to /\ t <= from
    BY <1>20, <2>1
  <2> QED BY <2>1, <2>2, Zenon
<1>23. \A i \in 1 .. n + 1 : /\ l[i].block = 1 /\ low <= l[i].from /\ l[i].from <= l[i].to
                             /\ l[i].to <= to /\ l[i].from % l[i].align = 0
  <2>1. to <= to
    BY <1>5
  <2> QED BY <1>4, <1>14, <1>17, <1>18, <1>19, <1>20, <1>22, <2>1, Zenon
<1>24. ASSUME NEW i \in 1 .. n + 1, NEW j \in 1 .. n + 1, i < j PROVE l[i].to <= l[j].from
  <2>1. i \in 1 .. n
    BY <1>15, <1>24
  <2>2. CASE j = n + 1
    BY <1>14, <1>17, <1>22, <2>1, <2>2
  <2>3. CASE j \in 1 .. n
    <3>1. al_live[i].to <= al_live[j].from
      BY <1>15, <1>24, <2>1, <2>3, Zenon DEF Placed
    <3> QED BY <1>17, <2>1, <2>3, <3>1, Zenon
  <2> QED BY <1>18, <2>2, <2>3
<1>25. Placed(b1, low, l)
  BY <1>12, <1>17, <1>23, <1>24, Zenon DEF Placed
<1>26. low <= b1.pos /\ b1.pos <= destructor_pos /\ b.cmt <= b1.cmt
  BY <1>2, <1>10, <1>11, <1>12, <1>20
<1> QED BY <1>10, <1>13, <1>16, <1>25, <1>26, Zenon

\* Where the i-th record is.
RecordAt(i) == Top - i * Stride

\* Each object placed and not destroyed has a record, the last object's the lowest.
Recorded(count, pos, cmt, recs, objs) ==
  /\ count \in Nat /\ pos \in Nat /\ pos + count * Stride = Top
  /\ objs \in Seq(Nat) /\ Len(objs) = count /\ \A i \in 1 .. count : objs[i] = i
  /\ \A p \in DOMAIN recs : \E i \in 1 .. count : p = RecordAt(i)
  /\ \A i \in 1 .. count : RecordAt(i) \in DOMAIN recs /\ recs[RecordAt(i)] = i
  /\ cmt \in Nat /\ Multiple(cmt, PageSize) /\ cmt <= pos

\* What is committed on both sides; while they have not met, no decommit of the lower
\* one reaches the upper one.
TwoSided(b, cmt, apart, c) ==
  /\ \A p \in Nat : p * PageSize < b.cmt => <<1, p>> \in c
  /\ apart => /\ b.cmt <= cmt
              /\ \A p \in Nat : cmt <= p * PageSize /\ p * PageSize < Top => <<1, p>> \in c

\* The inductive invariant of the allocator.
AllocatorInv ==
  /\ ~al_aborted /\ base_pos = Header + Stride
  /\ \E b : /\ al_arena = <<b>> /\ AllocBlock(b) /\ Placed(b, base_pos, al_live)
            /\ base_pos <= b.pos /\ b.pos <= destructor_pos
            /\ TwoSided(b, destructor_cmt_pos, mapped, al_committed)
  /\ Recorded(destructor_count, destructor_pos, destructor_cmt_pos, records, objects)
  /\ \E n \in Nat : destroyed = [i \in 1 .. n |-> n + 1 - i]

\* A record for the next object, below the others (_allocator_push_destructor).
LEMMA PushRecords ==
  ASSUME Al!AllocatorFits,
         Recorded(destructor_count, destructor_pos, destructor_cmt_pos, records, objects),
         NEW object, object = Len(objects) + 1, NEW pos \in Nat, Al!PushRecord(object, pos),
         objects' = Append(objects, object)
  PROVE  /\ Recorded(destructor_count', destructor_pos', destructor_cmt_pos', records', objects')
         /\ pos <= destructor_pos'
<1>1. PICK S \in Nat \ {0}, P \in Nat \ {0}, m \in Nat : S = Stride /\ P = PageSize /\ m = Top
  BY AllocatorSizes, Zenon
<1>21. /\ destructor_count \in Nat /\ destructor_pos \in Nat /\ destructor_cmt_pos \in Nat
       /\ objects \in Seq(Nat)
  BY Zenon DEF Recorded
<1>22. PICK n \in Nat, d \in Nat, e \in Nat, objs \in Seq(Nat), recs \in {records} :
         /\ n = destructor_count /\ d = destructor_pos /\ e = destructor_cmt_pos /\ objs = objects
         /\ recs = records
  BY <1>21, Zenon
<1>23. Recorded(n, d, e, recs, objs)
  BY <1>22
<1>2. /\ d + n * S = m /\ Len(objs) = n /\ (\A i \in 1 .. n : objs[i] = i)
      /\ (\A p \in DOMAIN recs : \E i \in 1 .. n : p = RecordAt(i))
      /\ (\A i \in 1 .. n : RecordAt(i) \in DOMAIN recs /\ recs[RecordAt(i)] = i)
      /\ Multiple(e, P) /\ e <= d
  BY <1>1, <1>23, Zenon DEF Recorded
<1>3. PICK low : low = d - S
  OBVIOUS
<1>4. PICK page : page = low - (low % P)
  OBVIOUS
<1>5. /\ pos <= low /\ destructor_pos' = low /\ destructor_count' = n + 1
      /\ destructor_cmt_pos' = IF page < e THEN page ELSE e
      /\ records' = [p \in DOMAIN recs \cup {low} |-> IF p = low THEN n + 1 ELSE recs[p]]
      /\ objects' = Append(objs, n + 1)
  <2>1. object = n + 1
    BY <1>2, <1>22
  <2> QED BY <1>1, <1>22, <1>3, <1>4, <2>1, Zenon DEF Al!PushRecord
<1>6. low \in Nat /\ d = low + S
  BY <1>3, <1>5
<1>7. page \in Nat /\ Multiple(page, P) /\ page <= low
  <2>1. low - (low % P) \in Nat /\ Multiple(low - (low % P), P)
    BY <1>6, MultipleFacts
  <2>2. low % P \in Nat
    BY <1>6
  <2> QED BY <1>4, <1>6, <2>1, <2>2
<1>8. PICK cmt \in Nat : cmt = destructor_cmt_pos' /\ Multiple(cmt, P) /\ cmt <= low
  <2>1. CASE page < e
    BY <1>5, <1>7, <2>1
  <2>2. CASE ~(page < e)
    <3>1. e <= low
      BY <1>7, <2>2, <1>6
    <3> QED BY <1>2, <1>5, <2>2, <3>1
  <2> QED BY <2>1, <2>2
<1>9. low + (n + 1) * S = m
  <2>1. (n + 1) * S = n * S + S /\ n * S \in Nat
    OBVIOUS
  <2> QED BY <1>2, <1>6, <2>1
<1>10. PICK objs1 : objs1 = objects' /\ objs1 \in Seq(Nat) /\ Len(objs1) = n + 1
                    /\ \A i \in 1 .. n + 1 : objs1[i] = i
  <2>1. n + 1 \in Nat
    OBVIOUS
  <2>2. PICK o : o = Append(objs, n + 1)
    OBVIOUS
  <2>3. o \in Seq(Nat) /\ Len(o) = n + 1 /\ o[n + 1] = n + 1 /\ \A i \in 1 .. n : o[i] = objs[i]
    BY <1>2, <2>1, <2>2, AppendAt
  <2>4. \A i \in 1 .. n + 1 : i = n + 1 \/ i \in 1 .. n
    OBVIOUS
  <2> QED BY <1>2, <1>5, <2>2, <2>3, <2>4, Zenon
<1>11. low = RecordAt(n + 1)
  <2>1. (n + 1) * S \in Nat
    OBVIOUS
  <2>2. low = m - (n + 1) * S
    BY <1>6, <1>9, <2>1
  <2> QED BY <1>1, <2>2 DEF RecordAt
<1>12. \A i \in 1 .. n + 1 : i = n + 1 \/ i \in 1 .. n
  OBVIOUS
<1>13. \A i \in 1 .. n : i \in 1 .. n + 1 /\ RecordAt(i) # low
  <2> SUFFICES ASSUME NEW i \in 1 .. n PROVE i \in 1 .. n + 1 /\ RecordAt(i) # low
    OBVIOUS
  <2>1. PICK g \in Nat : n = i + g
    BY Difference
  <2>2. (n + 1) * S = i * S + S + g * S /\ g * S \in Nat /\ i * S \in Nat
    BY <2>1
  <2>3. i \in 1 .. n + 1
    OBVIOUS
  <2>4. RecordAt(i) = m - i * S
    BY <1>1 DEF RecordAt
  <2>5. PICK u \in Nat, w \in Nat, z \in {(n + 1) * S} : u = i * S /\ w = g * S /\ z = (n + 1) * S
    BY <2>2
  <2>6. RecordAt(i) = m - u /\ low + (u + S + w) = m
    BY <1>9, <2>2, <2>4, <2>5
  <2>7. m - u # low
    BY <1>6, <2>6
  <2> QED BY <2>3, <2>6, <2>7
<1>14. PICK recs1 : recs1 = records'
  OBVIOUS
<1>15. /\ DOMAIN recs1 = DOMAIN recs \cup {low} /\ recs1[low] = n + 1
       /\ \A p \in DOMAIN recs : p # low => recs1[p] = recs[p]
  BY <1>5, <1>14
<1>16. n + 1 \in 1 .. n + 1
  OBVIOUS
<1>19. \A p \in DOMAIN recs1 : \E i \in 1 .. n + 1 : p = RecordAt(i)
  <2> SUFFICES ASSUME NEW p \in DOMAIN recs1 PROVE \E i \in 1 .. n + 1 : p = RecordAt(i)
    OBVIOUS
  <2>1. CASE p \in DOMAIN recs
    BY <1>2, <1>13, <2>1, Zenon
  <2>2. CASE p = low
    BY <1>11, <1>16, <2>2, Zenon
  <2> QED BY <1>15, <2>1, <2>2
<1>20. \A i \in 1 .. n + 1 : RecordAt(i) \in DOMAIN recs1 /\ recs1[RecordAt(i)] = i
  <2> SUFFICES ASSUME NEW i \in 1 .. n + 1 PROVE RecordAt(i) \in DOMAIN recs1 /\ recs1[RecordAt(i)] = i
    OBVIOUS
  <2>1. CASE i = n + 1
    <3>1. low \in DOMAIN recs1
      BY <1>15
    <3> QED BY <1>11, <1>15, <2>1, <3>1, Zenon
  <2>2. CASE i \in 1 .. n
    <3>1. RecordAt(i) \in DOMAIN recs /\ RecordAt(i) # low /\ recs[RecordAt(i)] = i
      BY <1>2, <1>13, <2>2, Zenon
    <3>2. RecordAt(i) \in DOMAIN recs1
      BY <1>15, <3>1
    <3> QED BY <1>15, <3>1, <3>2, Zenon
  <2> QED BY <1>12, <2>1, <2>2
<1>17. n + 1 \in Nat
  OBVIOUS
<1>18. Recorded(n + 1, low, cmt, recs1, objs1)
  BY <1>1, <1>6, <1>8, <1>9, <1>10, <1>17, <1>19, <1>20, Zenon DEF Recorded
<1> QED BY <1>5, <1>8, <1>10, <1>14, <1>18, Zenon

\* What a placement commits on both sides.
LEMMA PlaceBacked ==
  ASSUME Al!AllocatorFits, NEW b, NEW b1, AllocBlock(b), AllocBlock(b1), b.cmt <= b1.cmt,
         NEW cmt \in Nat, NEW cmt1 \in Nat, NEW apart, NEW c, TwoSided(b, cmt, apart, c),
         NEW pos1 \in Nat, cmt1 = IF pos1 < cmt THEN pos1 ELSE cmt, Multiple(cmt1, PageSize),
         NEW c1, c1 = c \cup Al!os_commit(1, b.cmt, b1.cmt)
                        \cup (IF pos1 < cmt THEN Al!os_commit(1, pos1, cmt) ELSE {}),
         NEW apart1, apart1 = (apart /\ b1.cmt <= cmt1)
  PROVE  TwoSided(b1, cmt1, apart1, c1)
<1>1. PICK P \in Nat \ {0}, m \in Nat : P = PageSize /\ m = Top
  BY AllocatorSizes, Zenon
<1>2. PICK old \in Nat, now1 \in Nat : old = b.cmt /\ now1 = b1.cmt /\ Multiple(old, P) /\ old <= now1
  BY <1>1 DEF AllocBlock, BlockRecord
<1>3. \A k, from, to : Al!os_commit(k, from, to) = Ar!PagesMoved(k, from, to)
  BY AllocatorSame, Zenon DEF Al!os_commit
<1>4. c \subseteq c1
  OBVIOUS
<1>5. ASSUME NEW p \in Nat, p * P < now1 PROVE <<1, p>> \in c1
  <2>1. CASE p * P < old
    BY <1>1, <1>2, <1>4, <2>1 DEF TwoSided
  <2>2. CASE ~(p * P < old)
    <3>1. old <= p * P
      <4>1. p * P \in Nat
        OBVIOUS
      <4> QED BY <1>2, <2>2, <4>1
    <3>2. <<1, p>> \in Ar!PagesMoved(1, old, now1)
      BY <1>1, <1>2, <1>5, <3>1, PagesFacts
    <3>3. <<1, p>> \in Al!os_commit(1, b.cmt, b1.cmt)
      BY <1>2, <1>3, <3>2
    <3> QED BY <3>3
  <2> QED BY <2>1, <2>2
<1>6. ASSUME apart, NEW p \in Nat, cmt1 <= p * P, p * P < m PROVE <<1, p>> \in c1
  <2>1. CASE cmt <= p * P
    BY <1>1, <1>4, <1>6, <2>1, Zenon DEF TwoSided
  <2>2. CASE ~(cmt <= p * P)
    <3>1. p * P < cmt /\ pos1 < cmt /\ pos1 <= p * P /\ cmt1 = pos1
      <4>1. p * P \in Nat
        OBVIOUS
      <4> QED BY <1>6, <2>2, <4>1
    <3>2. <<1, p>> \in Ar!PagesMoved(1, pos1, cmt)
      <4>1. Multiple(pos1, P)
        BY <1>1, <3>1
      <4> QED BY <1>1, <3>1, <4>1, PagesFacts
    <3>3. <<1, p>> \in Al!os_commit(1, pos1, cmt)
      BY <1>3, <3>2
    <3> QED BY <3>1, <3>3
  <2> QED BY <2>1, <2>2
<1> QED BY <1>1, <1>2, <1>5, <1>6, Zenon DEF TwoSided

\* Popping to a position of the block keeps what is below it (arena_pop_to).
LEMMA AllocatorPops ==
  ASSUME Al!AllocatorFits, NEW b, al_arena = <<b>>, AllocBlock(b),
         NEW cmt \in Nat, NEW apart, TwoSided(b, cmt, apart, al_committed),
         NEW pos \in Nat, Header <= pos, pos <= b.pos, NEW rest, Al!arena_pop_to(pos, rest)
  PROVE  /\ ~al_aborted' /\ al_live' = rest
         /\ \E b1 : /\ al_arena' = <<b1>> /\ AllocBlock(b1) /\ b1.pos = pos
                    /\ TwoSided(b1, cmt, apart, al_committed')
<1>1. PICK P \in Nat \ {0}, c \in Nat \ {0}, m \in Nat, H \in Nat \ {0}, W \in Nat :
        /\ P = PageSize /\ c = CommitSize /\ m = Top /\ H = Header /\ W = Ar!Power[Width]
        /\ P <= c /\ P \in Powers /\ c \in Powers /\ Width \in Nat /\ m + c <= W
  BY AllocatorSizes, Zenon
<1>2. PICK old \in Nat, top \in Nat :
        /\ old = b.cmt /\ top = b.pos /\ b \in BlockRecord /\ b.base_pos = 0 /\ b.cmt_size = c
        /\ b.res = m /\ Multiple(old, P) /\ top <= old /\ top <= m
  <2>1. /\ b \in BlockRecord /\ b.base_pos = 0 /\ b.cmt_size = CommitSize /\ b.res = Top
        /\ Multiple(b.cmt, PageSize) /\ b.pos <= b.cmt /\ b.pos <= Top
    BY Zenon DEF AllocBlock
  <2>2. b.cmt \in Nat /\ b.pos \in Nat
    BY <2>1 DEF BlockRecord
  <2> QED BY <1>1, <2>1, <2>2, Zenon
<1>3. Al!AtLeast(pos, Header) = pos
  BY <1>1 DEF Al!AtLeast
<1>4. Len(al_arena) = 1 /\ al_arena[1] = b
  OBVIOUS
<1> DEFINE k0 == CHOOSE i \in 1 .. Len(al_arena) :
                   /\ al_arena[i].base_pos < pos
                   /\ \A j \in i + 1 .. Len(al_arena) : al_arena[j].base_pos >= pos
<1>5. k0 = 1
  <2>1. /\ 1 \in 1 .. Len(al_arena) /\ \A i \in 1 .. Len(al_arena) : i = 1
        /\ \A j \in 1 + 1 .. Len(al_arena) : FALSE
    BY <1>4
  <2>2. al_arena[1].base_pos < pos
    BY <1>1, <1>2, <1>4
  <2> QED BY <2>1, <2>2, Zenon
<1>6. PICK cmt1 : cmt1 = Al!AtMost(b.cmt, Al!align_pow2(pos, b.cmt_size))
  OBVIOUS
<1>7. PICK b1 : b1 = [b EXCEPT !.pos = pos, !.cmt = cmt1]
  OBVIOUS
<1>8. /\ al_aborted' = (pos > b.pos)
      /\ al_arena' = SubSeq(al_arena, 1, 0) \o <<b1>>
      /\ al_committed' = {p \in al_committed : p[1] <= 1} \ Al!os_decommit(1, cmt1, b.cmt)
      /\ al_live' = rest
  <2>1. k0 = CHOOSE i \in 1 .. Len(al_arena) :
             /\ al_arena[i].base_pos < Al!AtLeast(pos, Header)
             /\ \A j \in i + 1 .. Len(al_arena) : al_arena[j].base_pos >= Al!AtLeast(pos, Header)
    BY <1>3, Zenon
  <2>2. Al!AtLeast(pos, Header) - b.base_pos = pos
    BY <1>2, <1>3
  <2>3. 1 - 1 = 0
    OBVIOUS
  <2> HIDE DEF k0
  <2> QED BY <1>4, <1>5, <1>6, <1>7, <2>1, <2>2, <2>3, Zenon DEF Al!arena_pop_to
<1> HIDE DEF k0
<1>9. al_arena' = <<b1>>
  <2>1. SubSeq(al_arena, 1, 0) = <<>>
    OBVIOUS
  <2>2. <<>> \o <<b1>> = <<b1>>
    OBVIOUS
  <2> QED BY <1>8, <2>1, <2>2
<1>10. PICK up \in Nat : up = Al!align_pow2(pos, c) /\ pos <= up /\ Multiple(up, P)
  <2>1. pos + c <= W
    BY <1>1, <1>2
  <2>2. /\ Ar!align_pow2(pos, c) \in Nat /\ Multiple(Ar!align_pow2(pos, c), c)
        /\ pos <= Ar!align_pow2(pos, c)
    BY <1>1, <2>1, AlignFacts
  <2>3. Multiple(Ar!align_pow2(pos, c), P)
    BY <1>1, <2>2, PowersDivide
  <2> QED BY <2>2, <2>3, AllocatorSame, Zenon
<1>11. cmt1 = IF old < up THEN old ELSE up
  BY <1>2, <1>6, <1>10 DEF Al!AtMost
<1>12. cmt1 \in Nat /\ Multiple(cmt1, P) /\ pos <= cmt1 /\ cmt1 <= old
  BY <1>2, <1>10, <1>11
<1>13. /\ b1 \in BlockRecord /\ b1.pos = pos /\ b1.cmt = cmt1 /\ b1.base_pos = b.base_pos
       /\ b1.res = b.res /\ b1.cmt_size = b.cmt_size
  BY <1>2, <1>7, <1>12 DEF BlockRecord
<1>14. AllocBlock(b1)
  <2>1. pos <= m
    BY <1>2
  <2> QED BY <1>1, <1>2, <1>12, <1>13, <2>1, Zenon DEF AllocBlock
<1>15. \A j, p : <<j, p>> \in Al!os_decommit(1, cmt1, b.cmt) => cmt1 <= p * P /\ p * P < old
  <2>1. Al!os_decommit(1, cmt1, b.cmt) = Ar!PagesMoved(1, cmt1, old)
    BY <1>2, AllocatorSame, Zenon DEF Al!os_decommit
  <2>2. \A j, p : <<j, p>> \in Ar!PagesMoved(1, cmt1, old) => j = 1 /\ cmt1 <= p * P
    BY <1>1, <1>12, PagesFacts
  <2>3. \A j, p : <<j, p>> \in Ar!PagesMoved(1, cmt1, old) => j = 1 /\ p * P < old
    BY <1>1, <1>12, PagesBelow
  <2> QED BY <2>1, <2>2, <2>3, Zenon
<1>16. \A p \in Nat : /\ <<1, p>> \in al_committed /\ (p * P < cmt1 \/ old <= p * P)
                      => <<1, p>> \in al_committed'
  <2> SUFFICES ASSUME NEW p \in Nat, <<1, p>> \in al_committed, p * P < cmt1 \/ old <= p * P
               PROVE  <<1, p>> \in al_committed'
    OBVIOUS
  <2>1. p * P \in Nat
    OBVIOUS
  <2>2. <<1, p>> \notin Al!os_decommit(1, cmt1, b.cmt)
    <3>1. ~(cmt1 <= p * P /\ p * P < old)
      BY <1>12, <2>1
    <3> QED BY <1>15, <3>1, Zenon
  <2>3. <<1, p>>[1] <= 1
    OBVIOUS
  <2> QED BY <1>8, <2>2, <2>3
<1>17. ASSUME NEW p \in Nat, p * P < cmt1 PROVE <<1, p>> \in al_committed'
  <2>1. p * P < old
    <3>1. p * P \in Nat
      OBVIOUS
    <3> QED BY <1>12, <1>17, <3>1
  <2>2. <<1, p>> \in al_committed
    BY <1>1, <1>2, <2>1, Zenon DEF TwoSided
  <2> QED BY <1>16, <1>17, <2>2
<1>18. ASSUME apart PROVE cmt1 <= cmt
  <2>1. old <= cmt
    BY <1>2, <1>18, Zenon DEF TwoSided
  <2> QED BY <1>12, <2>1
<1>19. ASSUME apart, NEW p \in Nat, cmt <= p * P, p * P < m PROVE <<1, p>> \in al_committed'
  <2>1. old <= cmt /\ <<1, p>> \in al_committed
    BY <1>1, <1>2, <1>19, Zenon DEF TwoSided
  <2>2. old <= p * P
    <3>1. p * P \in Nat
      OBVIOUS
    <3> QED BY <1>19, <2>1, <3>1
  <2> QED BY <1>16, <2>1, <2>2
<1>20. TwoSided(b1, cmt, apart, al_committed')
  BY <1>1, <1>13, <1>17, <1>18, <1>19, Zenon DEF TwoSided
<1>21. ~al_aborted'
  <2>1. ~(pos > b.pos)
    BY <1>2
  <2> QED BY <1>8, <2>1, Zenon
<1> QED BY <1>8, <1>9, <1>13, <1>14, <1>20, <1>21, Zenon

\* The pages of what lies in the upper committed part are backed.
LEMMA RecordPagesBacked ==
  ASSUME NEW P \in Nat \ {0}, P = PageSize, NEW e \in Nat, Multiple(e, P), NEW m \in Nat,
         NEW from \in Nat, NEW to \in Nat, e <= from, to <= m, NEW c,
         \A p \in Nat : e <= p * P /\ p * P < m => <<1, p>> \in c
  PROVE  Ar!PagesOf(1, from, to) \subseteq c
<1> SUFFICES ASSUME from < to, NEW p \in from \div P .. (to - 1) \div P PROVE <<1, p>> \in c
  BY DEF Ar!PagesOf
<1>1. to - 1 \in Nat
  OBVIOUS
<1>2. PICK l \in Nat, h \in Nat : /\ l = from \div P /\ h = (to - 1) \div P /\ P * h <= to - 1
                                  /\ \A n \in Nat : P * n <= from => n <= l
  <2>1. from \div P \in Nat /\ \A n \in Nat : P * n <= from => n <= from \div P
    BY DivFacts
  <2>2. (to - 1) \div P \in Nat /\ P * ((to - 1) \div P) <= to - 1
    BY <1>1, DivFacts
  <2> QED BY <2>1, <2>2, Zenon
<1>3. p \in Nat /\ l <= p /\ p <= h
  <2>1. p \in l .. h
    BY <1>2
  <2> QED BY <1>2, <2>1
<1>4. p * P < m
  <2>1. PICK d \in Nat : h = p + d
    BY <1>2, <1>3, Difference
  <2>2. P * h = p * P + P * d /\ P * d \in Nat /\ p * P \in Nat
    BY <1>3, <2>1
  <2> QED BY <1>2, <2>2
<1>5. e <= p * P
  <2>1. PICK q \in Nat : e = P * q
    BY DEF Multiple
  <2>2. q <= p
    <3>1. q <= l
      BY <1>2, <2>1
    <3> QED BY <1>2, <1>3, <3>1
  <2>3. PICK d \in Nat : p = q + d
    BY <1>3, <2>2, Difference
  <2>4. p * P = P * q + P * d /\ P * d \in Nat
    BY <2>3
  <2> QED BY <2>1, <2>4
<1> QED BY <1>3, <1>4, <1>5

\* What the invariant says of the objects, their memory and their records.
LEMMA AllocatorInvSound ==
  ASSUME Al!AllocatorFits, AllocatorInv
  PROVE  DestructorsSound
<1>1. PICK S \in Nat \ {0}, P \in Nat \ {0}, m \in Nat, H \in Nat \ {0} :
        S = Stride /\ P = PageSize /\ m = Top /\ H = Header
  BY AllocatorSizes, Zenon
<1>2. PICK b : /\ al_arena = <<b>> /\ AllocBlock(b) /\ Placed(b, base_pos, al_live)
               /\ base_pos <= b.pos /\ b.pos <= destructor_pos
               /\ TwoSided(b, destructor_cmt_pos, mapped, al_committed)
  BY DEF AllocatorInv
<1>3. PICK old \in Nat, top \in Nat :
        old = b.cmt /\ top = b.pos /\ b.res = m /\ top <= old /\ top <= m
  <2>1. b \in BlockRecord /\ b.res = Top /\ b.pos <= b.cmt /\ b.pos <= Top
    BY <1>2, Zenon DEF AllocBlock
  <2>2. b.cmt \in Nat /\ b.pos \in Nat
    BY <2>1 DEF BlockRecord
  <2> QED BY <1>1, <2>1, <2>2, Zenon
<1>4. Len(al_arena) = 1 /\ al_arena[1] = b
  BY <1>2
<1>5. Al!RegionsUsable
  <2> SUFFICES ASSUME NEW i \in 1 .. Len(al_live)
               PROVE  LET r == al_live[i] IN
                        /\ r.block \in 1 .. Len(al_arena)
                        /\ Header <= r.from /\ r.to <= al_arena[r.block].pos
                        /\ al_arena[r.block].pos <= al_arena[r.block].res
                        /\ r.from % r.align = 0
                        /\ Al!RegionPages(r) \subseteq al_committed
                        /\ \A j \in 1 .. i - 1 : al_live[j].block = r.block => al_live[j].to <= r.from
    BY Zenon DEF Al!RegionsUsable
  <2>1. PICK r \in PlacedRecord : r = al_live[i]
    BY <1>2 DEF Placed
  <2>2. r.from \in Nat /\ r.to \in Nat
    BY <2>1 DEF PlacedRecord
  <2>3. /\ r.block = 1 /\ base_pos <= r.from /\ r.from <= r.to /\ r.to <= b.pos
        /\ r.from % r.align = 0
    BY <1>2, <2>1, Zenon DEF Placed
  <2>4. Header <= r.from
    <3>1. base_pos = H + S
      BY <1>1, Zenon DEF AllocatorInv
    <3> QED BY <1>1, <2>2, <2>3, <3>1
  <2>5. r.block \in 1 .. Len(al_arena) /\ al_arena[r.block] = b /\ b.pos <= b.res
    BY <1>3, <1>4, <2>3
  <2>6. Al!RegionPages(r) \subseteq al_committed
    <3>1. \A p \in Nat : p * P < old => <<1, p>> \in al_committed
      BY <1>1, <1>2, <1>3, Zenon DEF TwoSided
    <3>2. r.to <= old
      BY <1>3, <2>2, <2>3
    <3>3. Ar!PagesOf(1, r.from, r.to) \subseteq al_committed
      BY <1>1, <2>2, <3>1, <3>2, RegionPagesBacked
    <3> QED BY <2>3, <3>3, AllocatorSame, Zenon DEF Al!RegionPages
  <2>7. ASSUME NEW j \in 1 .. i - 1 PROVE al_live[j].to <= r.from
    <3>1. j \in 1 .. Len(al_live) /\ j < i
      BY <1>2 DEF Placed
    <3> QED BY <1>2, <2>1, <3>1, Zenon DEF Placed
  <2> QED BY <2>1, <2>3, <2>4, <2>5, <2>6, <2>7, Zenon
<1>6. /\ destructor_count \in Nat /\ destructor_pos \in Nat /\ destructor_cmt_pos \in Nat
      /\ objects \in Seq(Nat)
  BY Zenon DEF AllocatorInv, Recorded
<1>7. PICK n \in Nat, d \in Nat, e \in Nat :
        n = destructor_count /\ d = destructor_pos /\ e = destructor_cmt_pos
  BY <1>6
<1>8. /\ d + n * S = m /\ Len(objects) = n /\ (\A i \in 1 .. n : objects[i] = i)
      /\ (\A p \in DOMAIN records : \E i \in 1 .. n : p = RecordAt(i))
      /\ (\A i \in 1 .. n : RecordAt(i) \in DOMAIN records /\ records[RecordAt(i)] = i)
      /\ Multiple(e, P) /\ e <= d
  BY <1>1, <1>7, Zenon DEF AllocatorInv, Recorded
<1>9. Al!RecordsMatchObjects
  <2>1. \A i \in 1 .. n : records[b.res - i * Stride] = objects[i]
    <3>1. \A i \in 1 .. n : b.res - i * Stride = RecordAt(i)
      BY <1>1, <1>3, Zenon DEF RecordAt
    <3> QED BY <1>8, <3>1, Zenon
  <2>2. Al!Block = b
    BY <1>4 DEF Al!Block
  <2>3. d + n * Stride = b.res
    BY <1>1, <1>3, <1>8, Zenon
  <2> QED BY <1>2, <1>7, <1>8, <2>1, <2>2, <2>3, Zenon DEF Al!RecordsMatchObjects
<1>10. Al!RecordsBacked
  <2> SUFFICES ASSUME mapped, NEW p \in DOMAIN records PROVE Al!RecordPages(p) \subseteq al_committed
    BY Zenon DEF Al!RecordsBacked
  <2>1. PICK i \in 1 .. n : p = RecordAt(i)
    BY <1>8
  <2>2. PICK g \in Nat : n = i + g
    BY Difference
  <2>3. n * S = i * S + g * S /\ i * S = (i - 1) * S + S
    BY <2>2
  <2>4. PICK u \in Nat, w \in Nat, z \in Nat, y \in Nat :
          u = i * S /\ w = g * S /\ z = (i - 1) * S /\ y = n * S
    <3>1. i * S \in Nat /\ g * S \in Nat /\ (i - 1) * S \in Nat /\ n * S \in Nat
      <4>1. i - 1 \in Nat /\ i \in Nat
        OBVIOUS
      <4> QED BY <4>1
    <3> QED BY <3>1
  <2>5. p = m - u
    BY <1>1, <2>1, <2>4 DEF RecordAt
  <2>6. d + y = m /\ y = u + w /\ u = z + S
    BY <1>8, <2>3, <2>4, Zenon
  <2>7. p \in Nat /\ p + S \in Nat /\ e <= p /\ p + S <= m
    BY <1>8, <2>5, <2>6
  <2>8. \A q \in Nat : e <= q * P /\ q * P < m => <<1, q>> \in al_committed
    BY <1>1, <1>2, <1>7, Zenon DEF TwoSided
  <2>9. Ar!PagesOf(1, p, p + S) \subseteq al_committed
    <3>1. PICK f \in Nat, t \in Nat : f = p /\ t = p + S
      BY <2>7
    <3>2. e <= f /\ t <= m
      BY <2>7, <3>1
    <3>3. Ar!PagesOf(1, f, t) \subseteq al_committed
      BY <1>1, <1>8, <2>8, <3>2, RecordPagesBacked, Zenon
    <3> QED BY <3>1, <3>3, Zenon
  <2> QED BY <1>1, <2>9, AllocatorSame, Zenon DEF Al!RecordPages
<1>11. Al!DestroyedInReverse
  <2>1. PICK k \in Nat : destroyed = [i \in 1 .. k |-> k + 1 - i]
    BY Zenon DEF AllocatorInv
  <2>2. Len(destroyed) = k /\ \A i \in 1 .. k : destroyed[i] = k + 1 - i
    BY <2>1
  <2> QED BY <2>2, Zenon DEF Al!DestroyedInReverse
<1>12. ~al_aborted
  BY Zenon DEF AllocatorInv
<1> QED BY <1>5, <1>9, <1>10, <1>11, <1>12, Zenon DEF DestructorsSound, Al!DestructorsSound

\* The new allocator has nothing but itself in use (Allocator::create).
LEMMA AllocatorStarts ==
  ASSUME Al!AllocatorFits, Al!AllocatorInit
  PROVE  AllocatorInv
<1>1. PICK P \in Nat \ {0}, c \in Nat \ {0}, m \in Nat, H \in Nat \ {0}, S \in Nat \ {0} :
        /\ P = PageSize /\ c = CommitSize /\ m = Top /\ H = Header /\ S = Stride
        /\ H + S <= m /\ c <= m /\ Multiple(c, P) /\ Multiple(m, P)
        /\ Al!align_pow2(c, P) = c
  BY AllocatorSizes, Zenon
<1>2. BlockSize \in Nat
  BY DEF Al!AllocatorFits
<1>3. PICK block : block = Al!arena_alloc(BlockSize, CommitSize, 0)
  OBVIOUS
<1>4. block = [base_pos |-> 0, pos |-> H, cmt |-> c, res |-> m, cmt_size |-> c, res_size |-> BlockSize]
  BY <1>1, <1>3, Zenon DEF Al!arena_alloc, Top
<1>5. PICK none : none = [block EXCEPT !.pos = 0]
  OBVIOUS
<1>6. AllocBlock(none) /\ none.cmt = c /\ none.cmt_size = block.cmt_size /\ none.res = block.res /\ block.cmt = c
  <2>1. /\ none \in BlockRecord /\ none.base_pos = 0 /\ none.cmt_size = c /\ none.res = m
        /\ none.cmt = c /\ none.pos = 0
    BY <1>2, <1>4, <1>5 DEF BlockRecord
  <2>2. 0 <= c /\ 0 <= m
    OBVIOUS
  <2> QED BY <1>1, <1>4, <2>1, <2>2 DEF AllocBlock
<1>7. PICK pos \in Nat : pos = H + S
  OBVIOUS
<1>8. PICK cmt : cmt = Al!CommitTo(block, pos)
  OBVIOUS
<1>9. cmt \in Nat /\ Multiple(cmt, P) /\ pos <= cmt /\ cmt <= m
  <2>1. Al!CommitTo(block, pos) = Al!CommitTo(none, pos)
    BY <1>6, Zenon DEF Al!CommitTo
  <2>2. pos <= Top /\ none.cmt <= Top
    BY <1>1, <1>6, <1>7
  <2>3. /\ Al!CommitTo(none, pos) \in Nat /\ Multiple(Al!CommitTo(none, pos), PageSize)
        /\ pos <= Al!CommitTo(none, pos) /\ Al!CommitTo(none, pos) <= Top
    BY <1>6, <2>2, AllocatorCommit
  <2> QED BY <1>1, <1>8, <2>1, <2>3, Zenon
<1>10. PICK b : b = [block EXCEPT !.pos = pos, !.cmt = cmt]
  OBVIOUS
<1>11. /\ b \in BlockRecord /\ b.base_pos = 0 /\ b.cmt_size = c /\ b.res = m
       /\ b.cmt = cmt /\ b.pos = pos
  BY <1>2, <1>4, <1>9, <1>10 DEF BlockRecord
<1>12. AllocBlock(b)
  <2>1. pos <= m
    BY <1>1, <1>7
  <2> QED BY <1>1, <1>9, <1>11, <2>1, Zenon DEF AllocBlock
<1>13. /\ al_arena = <<b>> /\ al_committed = Al!os_commit(1, 0, cmt)
       /\ al_live = <<>> /\ al_aborted = FALSE
       /\ destructor_pos = m /\ destructor_cmt_pos = m /\ destructor_count = 0
       /\ base_pos = pos /\ records = <<>> /\ objects = <<>> /\ destroyed = <<>>
  <2>1. block.res = m
    BY <1>4
  <2> QED BY <1>1, <1>3, <1>7, <1>8, <1>10, <2>1, Zenon DEF Al!AllocatorInit
<1>14. Placed(b, base_pos, al_live)
  <2>1. <<>> \in Seq(PlacedRecord) /\ \A i \in 1 .. Len(<<>>) : FALSE
    OBVIOUS
  <2> QED BY <1>13, <2>1, Zenon DEF Placed
<1>15. TwoSided(b, destructor_cmt_pos, mapped, al_committed)
  <2>1. Al!os_commit(1, 0, cmt) = Ar!PagesMoved(1, 0, cmt)
    BY AllocatorSame, Zenon DEF Al!os_commit
  <2>2. Multiple(0, P)
    <3>1. 0 = P * 0
      OBVIOUS
    <3> QED BY <3>1 DEF Multiple
  <2>3. \A p \in Nat : 0 <= p * P /\ p * P < cmt => <<1, p>> \in Ar!PagesMoved(1, 0, cmt)
    BY <1>1, <1>9, <2>2, PagesFacts
  <2>4. \A p \in Nat : 0 <= p * P /\ ~(m <= p * P /\ p * P < m)
    <3> SUFFICES ASSUME NEW p \in Nat PROVE 0 <= p * P /\ ~(m <= p * P /\ p * P < m)
      OBVIOUS
    <3>1. PICK x \in Nat : x = p * P
      OBVIOUS
    <3>2. 0 <= x /\ ~(m <= x /\ x < m)
      OBVIOUS
    <3> QED BY <3>1, <3>2, Zenon
  <2> QED BY <1>1, <1>9, <1>11, <1>13, <2>1, <2>3, <2>4, Zenon DEF TwoSided
<1>16. Recorded(destructor_count, destructor_pos, destructor_cmt_pos, records, objects)
  <2>1. m + 0 * Stride = m /\ m <= m
    BY <1>1
  <2>2. /\ DOMAIN records = {} /\ objects \in Seq(Nat) /\ Len(objects) = 0
        /\ \A i \in 1 .. 0 : FALSE
    BY <1>13
  <2>3. 0 \in Nat
    OBVIOUS
  <2> QED BY <1>1, <1>13, <2>1, <2>2, <2>3, Zenon DEF Recorded
<1>17. destroyed = [i \in 1 .. 0 |-> 0 + 1 - i]
  BY <1>13
<1>18. base_pos <= b.pos /\ b.pos <= destructor_pos
  BY <1>1, <1>7, <1>11, <1>13
<1>19. base_pos = Header + Stride /\ 0 \in Nat
  BY <1>1, <1>7, <1>13
<1> QED BY <1>12, <1>13, <1>14, <1>15, <1>16, <1>17, <1>18, <1>19, Zenon DEF AllocatorInv

\* Where the records are and what is committed for them.
LEMMA AllocatorTypes ==
  ASSUME Al!AllocatorFits, AllocatorInv
  PROVE  /\ destructor_cmt_pos \in Nat /\ Multiple(destructor_cmt_pos, PageSize)
         /\ destructor_pos \in Nat /\ destructor_pos <= Top /\ destructor_cmt_pos <= destructor_pos
         /\ base_pos \in Nat /\ Header <= base_pos
<1>1. PICK S \in Nat \ {0}, m \in Nat, n \in Nat, d \in Nat :
        /\ S = Stride /\ m = Top /\ n = destructor_count /\ d = destructor_pos /\ d + n * S = m
  <2>1. /\ destructor_count \in Nat /\ destructor_pos \in Nat
        /\ destructor_pos + destructor_count * Stride = Top
    BY Zenon DEF AllocatorInv, Recorded
  <2> QED BY <2>1, AllocatorSizes, Zenon
<1>2. d <= m
  <2>1. n * S \in Nat
    OBVIOUS
  <2> QED BY <1>1, <2>1
<1>3. base_pos \in Nat /\ Header <= base_pos
  <2>1. PICK u \in Nat, w \in Nat : u = Header /\ w = Stride
    BY AllocatorSizes
  <2>2. base_pos = u + w
    BY <2>1, Zenon DEF AllocatorInv
  <2> QED BY <2>1, <2>2
<1>4. /\ destructor_cmt_pos \in Nat /\ Multiple(destructor_cmt_pos, PageSize)
      /\ destructor_cmt_pos <= destructor_pos
  BY Zenon DEF AllocatorInv, Recorded
<1>5. destructor_pos \in Nat /\ destructor_pos <= Top
  BY <1>1, <1>2, Zenon
<1> QED BY <1>3, <1>4, <1>5, Zenon

\* A placement without a destructor.
LEMMA TrivialKeeps ==
  ASSUME Al!AllocatorFits, AllocatorInv, NEW size \in ObjectSizes, NEW align \in ObjectAligns,
         Al!PlaceTrivial(size, align)
  PROVE  AllocatorInv'
<1>1. PICK b : /\ al_arena = <<b>> /\ AllocBlock(b) /\ Placed(b, base_pos, al_live)
               /\ base_pos <= b.pos /\ b.pos <= destructor_pos
               /\ TwoSided(b, destructor_cmt_pos, mapped, al_committed)
  BY DEF AllocatorInv
<1>2. PICK e \in Nat, d \in Nat : /\ e = destructor_cmt_pos /\ d = destructor_pos
                                  /\ Multiple(e, PageSize) /\ d <= Top /\ base_pos \in Nat
  BY AllocatorTypes, Zenon
<1>3. Al!Push(size, align, 0)
  BY Zenon DEF Al!PlaceTrivial
<1>4. PICK b1 : /\ al_arena' = <<b1>> /\ AllocBlock(b1) /\ Placed(b1, base_pos, al_live')
                /\ base_pos <= b1.pos /\ b1.pos <= destructor_pos /\ b.cmt <= b1.cmt
  <2>1. 0 \in Nat /\ destructor_pos \in Nat /\ destructor_pos <= Top
    BY <1>2
  <2> QED BY <1>1, <1>2, <1>3, <2>1, PushPlaces
<1>5. al_arena[1] = b /\ al_arena'[1] = b1
  BY <1>1, <1>4
<1>6. /\ al_committed' = al_committed \cup Al!os_commit(1, b.cmt, b1.cmt)
      /\ mapped' = (mapped /\ b1.cmt <= e)
      /\ UNCHANGED <<al_aborted, destructor_pos, destructor_cmt_pos, destructor_count,
                     base_pos, records, objects, destroyed>>
  BY <1>2, <1>5, Zenon DEF Al!PlaceTrivial, Al!Block
<1>7. TwoSided(b1, e, mapped', al_committed')
  <2>1. ~(e < e)
    BY <1>2
  <2>2. PICK c, apart, c1, apart1 :
          c = al_committed /\ apart = mapped /\ c1 = al_committed' /\ apart1 = mapped'
    OBVIOUS
  <2>3. e = IF e < e THEN e ELSE e
    OBVIOUS
  <2>4. c1 = c \cup Al!os_commit(1, b.cmt, b1.cmt)
               \cup (IF e < e THEN Al!os_commit(1, e, e) ELSE {})
    BY <1>6, <2>1, <2>2
  <2>5. apart1 = (apart /\ b1.cmt <= e)
    BY <1>6, <2>2, Zenon
  <2>6. TwoSided(b, e, apart, c)
    BY <1>1, <1>2, <2>2, Zenon
  <2>7. TwoSided(b1, e, apart1, c1)
    BY <1>1, <1>2, <1>4, <2>3, <2>4, <2>5, <2>6, PlaceBacked
  <2> QED BY <2>2, <2>7
<1> QED BY <1>2, <1>4, <1>6, <1>7, Zenon DEF AllocatorInv, Recorded

\* A placement with a record, whether the object is in the arena or elsewhere.
LEMMA RecordKeeps ==
  ASSUME Al!AllocatorFits, AllocatorInv, NEW b, NEW b1, al_arena = <<b>>, al_arena' = <<b1>>,
         AllocBlock(b), AllocBlock(b1), b.cmt <= b1.cmt, Placed(b1, base_pos, al_live'),
         base_pos <= b1.pos, TwoSided(b, destructor_cmt_pos, mapped, al_committed),
         Al!PushRecord(Len(objects) + 1, b1.pos), objects' = Append(objects, Len(objects) + 1),
         mapped' = (mapped /\ b1.cmt <= destructor_cmt_pos'),
         UNCHANGED <<al_aborted, base_pos, destroyed>>
  PROVE  AllocatorInv'
<1>1. PICK e \in Nat, d \in Nat, n \in {Len(objects) + 1} :
        /\ e = destructor_cmt_pos /\ d = destructor_pos /\ n = Len(objects) + 1
  BY AllocatorTypes, Zenon
<1>2. PICK pos \in Nat : pos = b1.pos
  BY DEF AllocBlock, BlockRecord
<1>3. /\ Recorded(destructor_count', destructor_pos', destructor_cmt_pos', records', objects')
      /\ b1.pos <= destructor_pos'
  <2>1. Recorded(destructor_count, destructor_pos, destructor_cmt_pos, records, objects)
    BY Zenon DEF AllocatorInv
  <2>2. Al!PushRecord(n, pos) /\ objects' = Append(objects, n)
    BY <1>1, <1>2
  <2> QED BY <1>1, <1>2, <2>1, <2>2, PushRecords
<1>4. al_arena[1] = b /\ al_arena'[1] = b1
  OBVIOUS
<1>5. PICK page \in Nat : page = (d - Stride) - ((d - Stride) % PageSize)
  <2>1. PICK S \in Nat, P \in Nat \ {0} : S = Stride /\ P = PageSize
    BY AllocatorSizes
  <2>2. pos <= d - Stride
    BY <1>1, <1>2, Zenon DEF Al!PushRecord
  <2>3. PICK low \in Nat : low = d - S
    BY <2>1, <2>2
  <2>4. low - (low % P) \in Nat
    BY MultipleFacts
  <2> QED BY <2>1, <2>3, <2>4, Zenon
<1>6. /\ destructor_cmt_pos' = IF page < e THEN page ELSE e
      /\ al_committed' = al_committed \cup Al!os_commit(1, b.cmt, b1.cmt)
                            \cup (IF page < e THEN Al!os_commit(1, page, e) ELSE {})
  BY <1>1, <1>2, <1>4, <1>5, Zenon DEF Al!PushRecord, Al!Block
<1>8. TwoSided(b1, destructor_cmt_pos', mapped', al_committed')
  <2>1. PICK e1 \in Nat : e1 = destructor_cmt_pos' /\ Multiple(e1, PageSize)
    BY <1>3, Zenon DEF Recorded
  <2>2. PICK c, apart, c1, apart1 :
          c = al_committed /\ apart = mapped /\ c1 = al_committed' /\ apart1 = mapped'
    OBVIOUS
  <2>3. e1 = IF page < e THEN page ELSE e
    BY <1>6, <2>1
  <2>4. c1 = c \cup Al!os_commit(1, b.cmt, b1.cmt)
               \cup (IF page < e THEN Al!os_commit(1, page, e) ELSE {})
    BY <1>6, <2>2, Zenon
  <2>5. apart1 = (apart /\ b1.cmt <= e1)
    BY <2>1, <2>2, Zenon
  <2>6. TwoSided(b, e, apart, c)
    BY <1>1, <2>2, Zenon
  <2>7. TwoSided(b1, e1, apart1, c1)
    BY <2>1, <2>3, <2>4, <2>5, <2>6, PlaceBacked
  <2> QED BY <2>1, <2>2, <2>7, Zenon
<1>9. ~al_aborted' /\ base_pos' = Header + Stride /\ base_pos' = base_pos /\ destroyed' = destroyed
  BY Zenon DEF AllocatorInv
<1>10. \E k \in Nat : destroyed' = [i \in 1 .. k |-> k + 1 - i]
  BY <1>9, Zenon DEF AllocatorInv
<1>11. Placed(b1, base_pos', al_live') /\ base_pos' <= b1.pos
  BY <1>9, Zenon
<1> QED BY <1>3, <1>8, <1>9, <1>10, <1>11, Zenon DEF AllocatorInv

\* A placement with a destructor.
LEMMA PlaceKeeps ==
  ASSUME Al!AllocatorFits, AllocatorInv, NEW size \in ObjectSizes, NEW align \in ObjectAligns,
         Al!Place(size, align)
  PROVE  AllocatorInv'
<1>1. PICK b : /\ al_arena = <<b>> /\ AllocBlock(b) /\ Placed(b, base_pos, al_live)
               /\ base_pos <= b.pos /\ b.pos <= destructor_pos
               /\ TwoSided(b, destructor_cmt_pos, mapped, al_committed)
  BY DEF AllocatorInv
<1>2. destructor_pos \in Nat /\ destructor_pos <= Top /\ base_pos \in Nat
  BY AllocatorTypes, Zenon
<1>3. Len(objects) + 1 \in Nat
  <2>1. objects \in Seq(Nat)
    BY Zenon DEF AllocatorInv, Recorded
  <2> QED BY <2>1
<1>4. Al!Push(size, align, Len(objects) + 1)
  BY Zenon DEF Al!Place, Al!NextObject
<1>5. PICK b1 : /\ al_arena' = <<b1>> /\ AllocBlock(b1) /\ Placed(b1, base_pos, al_live')
                /\ base_pos <= b1.pos /\ b1.pos <= destructor_pos /\ b.cmt <= b1.cmt
  BY <1>1, <1>2, <1>3, <1>4, PushPlaces
<1>6. al_arena'[1] = b1
  BY <1>5
<1>7. /\ Al!PushRecord(Len(objects) + 1, b1.pos) /\ objects' = Append(objects, Len(objects) + 1)
      /\ mapped' = (mapped /\ b1.cmt <= destructor_cmt_pos')
      /\ UNCHANGED <<al_aborted, base_pos, destroyed>>
  BY <1>6, Zenon DEF Al!Place, Al!NextObject
<1> QED BY <1>1, <1>5, <1>7, RecordKeeps

\* A record for an object that lives elsewhere.
LEMMA PlaceAtKeeps ==
  ASSUME Al!AllocatorFits, AllocatorInv, Al!PlaceAt
  PROVE  AllocatorInv'
<1>1. PICK b : /\ al_arena = <<b>> /\ AllocBlock(b) /\ Placed(b, base_pos, al_live)
               /\ base_pos <= b.pos /\ b.pos <= destructor_pos
               /\ TwoSided(b, destructor_cmt_pos, mapped, al_committed)
  BY DEF AllocatorInv
<1>2. al_arena[1] = b /\ b.cmt <= b.cmt
  <2>1. b.cmt \in Nat
    BY <1>1 DEF AllocBlock, BlockRecord
  <2> QED BY <1>1, <2>1
<1>3. /\ Al!PushRecord(Len(objects) + 1, b.pos) /\ objects' = Append(objects, Len(objects) + 1)
      /\ mapped' = (mapped /\ b.cmt <= destructor_cmt_pos')
      /\ al_arena' = al_arena /\ al_live' = al_live
      /\ UNCHANGED <<al_aborted, base_pos, destroyed>>
  BY <1>2, Zenon DEF Al!PlaceAt, Al!NextObject, Al!Block
<1>4. al_arena' = <<b>> /\ Placed(b, base_pos, al_live')
  BY <1>1, <1>3, Zenon
<1> QED BY <1>1, <1>2, <1>3, <1>4, RecordKeeps

\* Clearing destroys every object, the last first, and pops to the Allocator itself.
LEMMA ClearAllKeeps ==
  ASSUME Al!AllocatorFits, AllocatorInv, Al!clear
  PROVE  AllocatorInv'
<1>1. PICK b : /\ al_arena = <<b>> /\ AllocBlock(b) /\ Placed(b, base_pos, al_live)
               /\ base_pos <= b.pos /\ b.pos <= destructor_pos
               /\ TwoSided(b, destructor_cmt_pos, mapped, al_committed)
  BY DEF AllocatorInv
<1>2. PICK S \in Nat \ {0}, m \in Nat, n \in Nat, d \in Nat, e \in Nat :
        /\ S = Stride /\ m = Top /\ n = destructor_count /\ d = destructor_pos
        /\ e = destructor_cmt_pos /\ d + n * S = m /\ e <= d
        /\ Multiple(e, PageSize) /\ \A i \in 1 .. n : records[RecordAt(i)] = i
  <2>1. /\ destructor_count \in Nat /\ destructor_pos \in Nat /\ destructor_cmt_pos \in Nat
        /\ destructor_pos + destructor_count * Stride = Top /\ destructor_cmt_pos <= destructor_pos
        /\ Multiple(destructor_cmt_pos, PageSize)
        /\ \A i \in 1 .. destructor_count : records[RecordAt(i)] = i
    BY Zenon DEF AllocatorInv, Recorded
  <2>2. Stride \in Nat \ {0} /\ Top \in Nat
    BY AllocatorSizes, Zenon
  <2> QED BY <2>1, <2>2, Zenon
<1>3. al_arena[1] = b /\ b.res = m
  BY <1>1, <1>2 DEF AllocBlock
<1>4. /\ destroyed' = [i \in 1 .. n |-> records[d + (i - 1) * S]]
      /\ objects' = <<>> /\ destructor_count' = 0 /\ destructor_pos' = m /\ records' = <<>>
      /\ Al!arena_pop_to(base_pos, <<>>)
      /\ UNCHANGED <<destructor_cmt_pos, base_pos, mapped>>
  BY <1>2, <1>3, Zenon DEF Al!clear, Al!Block
<1>5. \A i \in 1 .. n : records[d + (i - 1) * S] = n + 1 - i
  <2> SUFFICES ASSUME NEW i \in 1 .. n PROVE records[d + (i - 1) * S] = n + 1 - i
    OBVIOUS
  <2>1. PICK j \in 1 .. n : j = n + 1 - i /\ n = j + (i - 1)
    OBVIOUS
  <2>2. n * S = j * S + (i - 1) * S /\ j * S \in Nat /\ (i - 1) * S \in Nat
    <3>1. i - 1 \in Nat /\ j \in Nat
      OBVIOUS
    <3> QED BY <2>1, <3>1
  <2>3. PICK u \in Nat, w \in Nat, y \in {n * S} : u = j * S /\ w = (i - 1) * S /\ y = n * S
    BY <2>2
  <2>4. d + y = m /\ y = u + w
    BY <1>2, <2>2, <2>3, Zenon
  <2>5. d + w = m - u
    BY <2>4
  <2>6. RecordAt(j) = m - u
    BY <1>2, <2>3, Zenon DEF RecordAt
  <2>7. records[RecordAt(j)] = j
    BY <1>2
  <2> QED BY <2>1, <2>3, <2>5, <2>6, <2>7, Zenon
<1>6. destroyed' = [i \in 1 .. n |-> n + 1 - i]
  BY <1>4, <1>5, Zenon
<1>7. /\ ~al_aborted' /\ al_live' = <<>>
      /\ \E b1 : /\ al_arena' = <<b1>> /\ AllocBlock(b1) /\ b1.pos = base_pos
                 /\ TwoSided(b1, e, mapped, al_committed')
  <2>1. base_pos \in Nat /\ Header <= base_pos
    BY AllocatorTypes
  <2>2. TwoSided(b, e, mapped, al_committed)
    BY <1>1, <1>2, Zenon
  <2> QED BY <1>1, <1>4, <2>1, <2>2, AllocatorPops
<1>8. PICK b1 : /\ al_arena' = <<b1>> /\ AllocBlock(b1) /\ b1.pos = base_pos
                /\ TwoSided(b1, e, mapped, al_committed')
  BY <1>7
<1>9. Placed(b1, base_pos', al_live')
  <2>1. <<>> \in Seq(PlacedRecord) /\ \A i \in 1 .. Len(<<>>) : FALSE
    OBVIOUS
  <2> QED BY <1>7, <2>1, Zenon DEF Placed
<1>10. Recorded(destructor_count', destructor_pos', destructor_cmt_pos', records', objects')
  <2>1. m + 0 * S = m /\ 0 \in Nat /\ e <= m
    <3>1. n * S \in Nat
      OBVIOUS
    <3> QED BY <1>2, <3>1
  <2>2. /\ DOMAIN records' = {} /\ objects' \in Seq(Nat) /\ Len(objects') = 0
        /\ \A i \in 1 .. 0 : FALSE
    BY <1>4
  <2>3. destructor_cmt_pos' = e
    BY <1>2, <1>4, Zenon
  <2> QED BY <1>2, <1>4, <2>1, <2>2, <2>3, Zenon DEF Recorded
<1>11. base_pos' = base_pos /\ base_pos = Header + Stride /\ mapped' = mapped /\ destructor_cmt_pos' = e
  BY <1>2, <1>4, Zenon DEF AllocatorInv
<1>12. base_pos' <= b1.pos /\ b1.pos <= destructor_pos'
  <2>1. PICK low \in Nat, p \in Nat : low = base_pos /\ p = b.pos /\ p <= m
    <3>1. b.pos \in Nat /\ b.pos <= m
      BY <1>1, <1>2 DEF AllocBlock, BlockRecord
    <3> QED BY <3>1, AllocatorTypes
  <2>2. low <= p /\ low <= low
    BY <1>1, <2>1
  <2>3. low <= m
    BY <2>1, <2>2
  <2> QED BY <1>4, <1>8, <1>11, <2>1, <2>2, <2>3, Zenon
<1> QED BY <1>2, <1>6, <1>7, <1>8, <1>9, <1>10, <1>11, <1>12, Zenon DEF AllocatorInv

\* Popping objects that have no record.
LEMMA PopToKeeps ==
  ASSUME Al!AllocatorFits, AllocatorInv, NEW n \in 1 .. Len(al_live), Al!PopTo(n)
  PROVE  AllocatorInv'
<1>1. PICK b : /\ al_arena = <<b>> /\ AllocBlock(b) /\ Placed(b, base_pos, al_live)
               /\ base_pos <= b.pos /\ b.pos <= destructor_pos
               /\ TwoSided(b, destructor_cmt_pos, mapped, al_committed)
  BY DEF AllocatorInv
<1>2. PICK k \in Nat : k = Len(al_live) /\ al_live \in Seq(PlacedRecord)
  BY <1>1 DEF Placed
<1>3. PICK l : l = SubSeq(al_live, 1, n)
  OBVIOUS
<1>4. /\ Al!arena_pop_to(al_live[n].to, l)
      /\ destructor_pos' = destructor_pos /\ destructor_cmt_pos' = destructor_cmt_pos
      /\ destructor_count' = destructor_count /\ base_pos' = base_pos /\ records' = records
      /\ objects' = objects /\ destroyed' = destroyed /\ mapped' = mapped
  BY <1>3, Zenon DEF Al!PopTo, Al!allocVars
<1>5. /\ l \in Seq(PlacedRecord) /\ Len(l) = n /\ \A i \in 1 .. n : l[i] = al_live[i]
  <2>1. n \in Nat /\ n <= k /\ 1 <= n + 1
    BY <1>2
  <2>2. /\ Len(l) = n /\ \A i \in 1 .. n : l[i] = al_live[i]
    BY <1>2, <1>3, <2>1
  <2>3. l \in Seq(PlacedRecord)
    <3>1. \A i \in 1 .. n : al_live[i] \in PlacedRecord
      BY <1>2
    <3> QED BY <1>2, <1>3, <2>1, <3>1, SubSeqProperties
  <2> QED BY <2>2, <2>3
<1>6. PICK low \in Nat, to \in Nat, p \in Nat, d \in Nat :
        /\ low = base_pos /\ to = al_live[n].to /\ p = b.pos /\ d = destructor_pos
        /\ Header <= low /\ low <= to /\ to <= p /\ p <= d
  <2>1. al_live[n] \in PlacedRecord /\ b \in BlockRecord
    BY <1>1, <1>2 DEF AllocBlock
  <2>2. al_live[n].to \in Nat /\ al_live[n].from \in Nat /\ b.pos \in Nat
    BY <2>1 DEF PlacedRecord, BlockRecord
  <2>3. base_pos <= al_live[n].from /\ al_live[n].from <= al_live[n].to /\ al_live[n].to <= b.pos
    BY <1>1, Zenon DEF Placed
  <2>4. base_pos \in Nat /\ Header <= base_pos /\ destructor_pos \in Nat
    BY AllocatorTypes, Zenon
  <2>5. base_pos <= al_live[n].to
    BY <2>2, <2>3, <2>4
  <2> QED BY <1>1, <2>2, <2>3, <2>4, <2>5, Zenon
<1>7. Header <= to
  <2>1. Header \in Nat
    BY AllocatorSizes
  <2> QED BY <1>6, <2>1
<1>8. /\ ~al_aborted' /\ al_live' = l
      /\ \E b1 : /\ al_arena' = <<b1>> /\ AllocBlock(b1) /\ b1.pos = to
                 /\ TwoSided(b1, destructor_cmt_pos, mapped, al_committed')
  <2>1. PICK e \in Nat : e = destructor_cmt_pos
    BY AllocatorTypes
  <2>2. TwoSided(b, e, mapped, al_committed) /\ Al!arena_pop_to(to, l) /\ to <= b.pos
    BY <1>1, <1>4, <1>6, <2>1, Zenon
  <2>3. /\ ~al_aborted' /\ al_live' = l
        /\ \E b1 : /\ al_arena' = <<b1>> /\ AllocBlock(b1) /\ b1.pos = to
                   /\ TwoSided(b1, e, mapped, al_committed')
    BY <1>1, <1>7, <2>2, AllocatorPops
  <2> QED BY <2>1, <2>3, Zenon
<1>9. PICK b1 : /\ al_arena' = <<b1>> /\ AllocBlock(b1) /\ b1.pos = to
                /\ TwoSided(b1, destructor_cmt_pos, mapped, al_committed')
  BY <1>8
<1>10. \A i \in 1 .. n : i \in 1 .. k
  BY <1>2
<1>11. \A i, j \in 1 .. n : i < j => l[i].to <= l[j].from
  BY <1>1, <1>2, <1>5, <1>10, Zenon DEF Placed
<1>12. \A i \in 1 .. n : /\ l[i].block = 1 /\ base_pos <= l[i].from /\ l[i].from <= l[i].to
                         /\ l[i].from % l[i].align = 0
  BY <1>1, <1>2, <1>5, <1>10, Zenon DEF Placed
<1>13. \A i \in 1 .. n : l[i].to <= to
  <2> SUFFICES ASSUME NEW i \in 1 .. n PROVE l[i].to <= to
    OBVIOUS
  <2>1. l[i] \in PlacedRecord /\ l[n] \in PlacedRecord /\ n \in 1 .. n
    BY <1>5
  <2>2. l[i].to \in Nat /\ l[n].from \in Nat
    BY <2>1 DEF PlacedRecord
  <2>3. CASE i = n
    BY <1>5, <1>6, <2>3
  <2>4. CASE i # n
    <3>1. l[i].to <= l[n].from /\ l[n].from <= l[n].to
      BY <1>11, <1>12, <2>1, <2>4
    <3>2. l[n].to = to
      BY <1>5, <1>6, <2>1
    <3> QED BY <2>2, <3>1, <3>2
  <2> QED BY <2>3, <2>4
<1>14. Placed(b1, base_pos', al_live')
  BY <1>4, <1>5, <1>8, <1>9, <1>11, <1>12, <1>13, Zenon DEF Placed
<1>15. base_pos' <= b1.pos /\ b1.pos <= destructor_pos'
  <2>1. low <= to /\ to <= d
    BY <1>6
  <2> QED BY <1>4, <1>6, <1>9, <2>1, Zenon
<1>16. TwoSided(b1, destructor_cmt_pos', mapped', al_committed')
  BY <1>4, <1>9, Zenon
<1>17. /\ Recorded(destructor_count', destructor_pos', destructor_cmt_pos', records', objects')
       /\ base_pos' = Header + Stride
       /\ \E q \in Nat : destroyed' = [i \in 1 .. q |-> q + 1 - i]
  BY <1>4, Zenon DEF AllocatorInv
<1> QED BY <1>8, <1>9, <1>14, <1>15, <1>16, <1>17, Zenon DEF AllocatorInv

\* However placing, popping and clearing are mixed, each object alive has a destructor
\* record of its own, on backed memory and clear of the objects, and a clear runs all of
\* them once each in the reverse order (base_allocator.cpp).
THEOREM DestructorsStaySound ==
  ASSUME Al!AllocatorFits
  PROVE  Al!AllocatorInit /\ [][Al!AllocatorNext]_allocatorVars => []DestructorsSound
<1>1. Al!AllocatorInit => AllocatorInv
  BY AllocatorStarts
<1>2. AllocatorInv /\ [Al!AllocatorNext]_allocatorVars => AllocatorInv'
  <2> SUFFICES ASSUME AllocatorInv, [Al!AllocatorNext]_allocatorVars PROVE AllocatorInv'
    OBVIOUS
  <2>1. ASSUME NEW size \in ObjectSizes, NEW align \in ObjectAligns, Al!PlaceTrivial(size, align)
        PROVE  AllocatorInv'
    BY <2>1, TrivialKeeps
  <2>2. ASSUME NEW size \in ObjectSizes, NEW align \in ObjectAligns, Al!Place(size, align)
        PROVE  AllocatorInv'
    BY <2>2, PlaceKeeps
  <2>3. CASE Al!PlaceAt
    BY <2>3, PlaceAtKeeps
  <2>4. CASE Al!clear
    BY <2>4, ClearAllKeeps
  <2>5. ASSUME NEW n \in 1 .. Len(al_live), Al!PopTo(n) PROVE AllocatorInv'
    BY <2>5, PopToKeeps
  <2>6. CASE UNCHANGED allocatorVars
    BY <2>6, Zenon DEF allocatorVars, AllocatorInv
  <2> QED BY <2>1, <2>2, <2>3, <2>4, <2>5, <2>6, Zenon DEF Al!AllocatorNext
<1>3. AllocatorInv => DestructorsSound
  BY AllocatorInvSound
<1> QED BY <1>1, <1>2, <1>3, PTL

-----------------------------------------------------------------------------
(* The chunk list and the map (module Containers).                         *)

\* A sequence of chunks of at most cap items, each but the last full, and its items.
Chunked(S, c, cap, t) ==
  /\ c \in Seq(Seq(S)) /\ t \in Seq(S)
  /\ \A i \in 1 .. Len(c) : Len(c[i]) >= 1 /\ Len(c[i]) <= cap /\ (i # Len(c) => Len(c[i]) = cap)
  /\ Len(t) = IF c = <<>> THEN 0 ELSE cap * (Len(c) - 1) + Len(c[Len(c)])
  /\ \A i \in 1 .. Len(c) : \A j \in 1 .. Len(c[i]) : c[i][j] = t[cap * (i - 1) + j]

\* Copying chunk after chunk gives the items in their order (buffer_from_chunk_list).
LEMMA FlattenIsItems ==
  ASSUME NEW S, NEW cap \in Nat \ {0}, NEW c, NEW t, Chunked(S, c, cap, t)
  PROVE  Con!FlattenSeq(c) = t
<1>1. PICK m \in Nat : m = Len(c) /\ c \in Seq(Seq(S)) /\ (m = 0 => c = <<>>) /\ (c = <<>> => m = 0)
  BY DEF Chunked
<1>2. CASE m = 0
  <2>1. t = <<>> /\ c = <<>>
    BY <1>1, <1>2 DEF Chunked
  <2> QED BY <1>1, <1>2, <2>1 DEF Con!FlattenSeq
<1>3. CASE m # 0
  <2> DEFINE F(f) == [i \in 1 .. m |-> IF i = 1 THEN c[i] ELSE f[i - 1] \o c[i]]
             end(i) == cap * (i - 1) + Len(c[i])
             g == [i \in 1 .. m |-> [j \in 1 .. end(i) |-> t[j]]]
             flat == CHOOSE f : f = F(f)
  <2>1. \A i \in 1 .. m : /\ Len(c[i]) \in Nat /\ c[i] \in Seq(S) /\ i \in Nat
                          /\ DOMAIN c[i] = 1 .. Len(c[i])
    BY <1>1
  <2>2. \A i \in 1 .. m : Len(c[i]) >= 1 /\ Len(c[i]) <= cap /\ (i # m => Len(c[i]) = cap)
    BY <1>1, Zenon DEF Chunked
  <2>3. \A i \in 1 .. m : \A j \in 1 .. Len(c[i]) : c[i][j] = t[cap * (i - 1) + j]
    BY <1>1, Zenon DEF Chunked
  <2>4. PICK n \in Nat : n = Len(t) /\ n = end(m) /\ t \in Seq(S) /\ t = [j \in 1 .. n |-> t[j]]
    <3>1. Len(t) = end(m) /\ t \in Seq(S)
      BY <1>1, <1>3, Zenon DEF Chunked
    <3> HIDE DEF end
    <3> QED BY <3>1
  <2>5. ASSUME NEW i \in 1 .. m PROVE end(i) \in Nat /\ end(i) <= n
    <3>1. PICK h \in Nat, e \in Nat :
             h = Len(c[i]) /\ h <= cap /\ e = Len(c[m]) /\ (i # m => 1 <= e /\ h = cap)
      <4>1. m \in 1 .. m
        BY <1>1, <1>3
      <4> QED BY <2>1, <2>2, <4>1
    <3>2. CASE i = m
      BY <2>4, <3>2
    <3>3. CASE i # m
      <4>1. PICK d \in Nat : m - 1 = i + d
        <5>1. m - 1 \in Nat /\ i <= m - 1
          BY <1>1, <3>3
        <5> QED BY <5>1, Difference
      <4>2. cap * (m - 1) = cap * (i - 1) + cap + cap * d /\ cap * d \in Nat /\ cap * (i - 1) \in Nat
        BY <4>1
      <4>3. n = cap * (m - 1) + e /\ end(i) = cap * (i - 1) + cap
        BY <2>4, <3>1, <3>3
      <4> HIDE DEF end
      <4> QED BY <4>2, <4>3
    <3> QED BY <3>2, <3>3
  <2>6. \A i \in 1 .. m : g[i] \in Seq(S) /\ Len(g[i]) = end(i) /\ \A j \in 1 .. end(i) : g[i][j] = t[j]
    <3> SUFFICES ASSUME NEW i \in 1 .. m
                 PROVE  g[i] \in Seq(S) /\ Len(g[i]) = end(i) /\ \A j \in 1 .. end(i) : g[i][j] = t[j]
      OBVIOUS
    <3>1. PICK e \in Nat : e = end(i) /\ e <= n
      BY <2>5
    <3>2. g[i] = [j \in 1 .. e |-> t[j]]
      BY <3>1
    <3>3. \A j \in 1 .. e : t[j] \in S
      BY <2>4, <3>1
    <3> HIDE DEF g, end
    <3> QED BY <3>1, <3>2, <3>3
  <2>7. ASSUME NEW i \in 1 .. m, i # 1 PROVE g[i] = g[i - 1] \o c[i]
    <3>1. i - 1 \in 1 .. m /\ i - 1 # m /\ (i - 1) - 1 = i - 2 /\ i \in Nat /\ i - 1 \in Nat /\ i - 2 \in Nat
      BY <2>7
    <3>2. PICK h \in Nat, e \in Nat : h = cap * (i - 1) /\ e = Len(c[i])
      <4>1. cap * (i - 1) \in Nat
        BY <3>1
      <4> QED BY <2>1, <4>1
    <3>3. end(i) = h + e /\ end(i - 1) = h
      <4>1. end(i - 1) = cap * (i - 2) + cap
        BY <2>2, <3>1
      <4>2. cap * (i - 2) + cap = cap * (i - 1)
        BY <3>1
      <4>3. end(i) = h + e
        BY <3>2
      <4> HIDE DEF end
      <4> QED BY <3>2, <4>1, <4>2, <4>3
    <3>4. PICK a \in Seq(S), b \in Seq(S), r \in Seq(S) : a = g[i - 1] /\ b = c[i] /\ r = g[i]
      <4> HIDE DEF g, end
      <4> QED BY <2>1, <2>6, <3>1
    <3>5. /\ Len(a) = h /\ Len(b) = e /\ Len(r) = h + e
          /\ \A j \in 1 .. h : a[j] = t[j]
          /\ \A j \in 1 .. h + e : r[j] = t[j]
          /\ \A j \in 1 .. e : b[j] = t[h + j]
      <4>1. \A j \in 1 .. e : b[j] = t[h + j]
        BY <2>3, <3>2, <3>4
      <4> HIDE DEF g, end
      <4> QED BY <2>6, <3>1, <3>2, <3>3, <3>4, <4>1
    <3>6. /\ a \o b \in Seq(S) /\ Len(a \o b) = h + e
          /\ \A j \in 1 .. h + e : (a \o b)[j] = IF j <= h THEN a[j] ELSE b[j - h]
      BY <3>5, ConcatProperties
    <3>7. \A j \in 1 .. h + e : (a \o b)[j] = r[j]
      <4> SUFFICES ASSUME NEW j \in 1 .. h + e PROVE (a \o b)[j] = r[j]
        OBVIOUS
      <4>1. CASE j <= h
        <5>1. j \in 1 .. h
          BY <4>1
        <5> QED BY <3>5, <3>6, <4>1, <5>1
      <4>2. CASE ~(j <= h)
        <5>1. j - h \in 1 .. e /\ h + (j - h) = j
          BY <4>2
        <5> QED BY <3>5, <3>6, <4>2, <5>1
      <4> QED BY <4>1, <4>2
    <3>8. a \o b = r
      BY <3>5, <3>6, <3>7, SeqEqual
    <3> HIDE DEF g
    <3> QED BY <3>4, <3>8
  <2>8. g = F(g)
    <3>1. ASSUME NEW i \in 1 .. m PROVE g[i] = F(g)[i]
      <4>1. CASE i = 1
        <5>1. /\ g[1] \in Seq(S) /\ Len(g[1]) = end(1) /\ \A j \in 1 .. end(1) : g[1][j] = t[j]
              /\ c[1] \in Seq(S) /\ Len(c[1]) \in Nat
              /\ \A j \in 1 .. Len(c[1]) : c[1][j] = t[cap * (1 - 1) + j]
          BY <2>1, <2>3, <2>6, <4>1
        <5>2. cap * (1 - 1) = 0 /\ \A j \in 1 .. Len(c[1]) : cap * (1 - 1) + j = j
          OBVIOUS
        <5>3. end(1) = Len(c[1])
          <6>1. PICK e \in Nat, z \in {cap * (1 - 1)} : e = Len(c[1]) /\ z = cap * (1 - 1) /\ z = 0
            BY <5>1, <5>2
          <6>2. end(1) = z + e
            BY <6>1
          <6>3. 0 + e = e
            OBVIOUS
          <6> HIDE DEF end
          <6> QED BY <6>1, <6>2, <6>3, Zenon
        <5> HIDE DEF g, end
        <5>4. g[1] = c[1]
          BY <5>1, <5>2, <5>3, SeqEqual
        <5>5. F(g)[i] = c[1]
          BY <4>1
        <5> QED BY <4>1, <5>4, <5>5
      <4>2. CASE i # 1
        <5>1. F(g)[i] = g[i - 1] \o c[i]
          BY <4>2
        <5> HIDE DEF F, g
        <5> QED BY <2>7, <4>2, <5>1
      <4> QED BY <4>1, <4>2
    <3>2. g = [i \in 1 .. m |-> g[i]] /\ F(g) = [i \in 1 .. m |-> F(g)[i]]
      OBVIOUS
    <3> HIDE DEF g, F
    <3> QED BY <3>1, <3>2, Zenon
  <2>9. flat = F(flat)
    <3> HIDE DEF g, F
    <3> QED BY <2>8, Zenon
  <2>10. \A i \in Nat : i + 1 <= m => flat[i + 1] = g[i + 1]
    <3> DEFINE Same == {i \in Nat : i + 1 <= m => flat[i + 1] = g[i + 1]}
    <3>1. \A i \in 1 .. m : flat[i] = F(flat)[i] /\ g[i] = F(g)[i]
      <4> HIDE DEF F, flat, g
      <4> QED BY <2>8, <2>9
    <3> HIDE DEF flat, g
    <3>2. 0 \in Same
      <4>1. 1 \in 1 .. m /\ 0 + 1 = 1
        BY <1>1, <1>3
      <4>2. F(flat)[1] = F(g)[1]
        BY <4>1
      <4> HIDE DEF F
      <4> QED BY <3>1, <4>1, <4>2
    <3>3. ASSUME NEW i \in Nat, i \in Same PROVE i + 1 \in Same
      <4>1. CASE (i + 1) + 1 <= m
        <5>1. PICK k \in Nat : k = i + 1
          OBVIOUS
        <5>2. k + 1 \in 1 .. m /\ k + 1 # 1 /\ (k + 1) - 1 = k /\ i + 1 <= m
          BY <1>1, <4>1, <5>1
        <5>3. flat[k] = g[k]
          BY <3>3, <5>1, <5>2
        <5>4. F(flat)[k + 1] = F(g)[k + 1]
          BY <5>2, <5>3
        <5> HIDE DEF F
        <5> QED BY <3>1, <5>1, <5>2, <5>4
      <4> QED BY <4>1
    <3> HIDE DEF Same
    <3>4. \A i \in Nat : i \in Same
      BY <3>2, <3>3, NumberInduction
    <3> QED BY <3>4 DEF Same
  <2>11. flat[m] = g[m]
    <3>1. m - 1 \in Nat /\ (m - 1) + 1 = m /\ m <= m
      BY <1>1, <1>3
    <3> HIDE DEF flat, g
    <3> QED BY <2>10, <3>1
  <2>12. g[m] = t
    <3>1. m \in 1 .. m
      BY <1>1, <1>3
    <3> QED BY <2>4, <3>1
  <2>13. Con!FlattenSeq(c) = flat[m]
    BY <1>1, <1>3 DEF Con!FlattenSeq
  <2> HIDE DEF flat, g
  <2> QED BY <2>11, <2>12, <2>13
<1> QED BY <1>2, <1>3

\* The quotient and the remainder of what is put together from them.
LEMMA DivUnique ==
  ASSUME NEW cap \in Nat \ {0}, NEW q \in Nat, NEW r \in Nat, r < cap, NEW x, x = cap * q + r
  PROVE  x \in Nat /\ x \div cap = q
<1>1. cap * q \in Nat /\ x \in Nat
  OBVIOUS
<1>2. PICK p \in Nat : p = x \div cap /\ cap * p <= x /\ x < cap * p + cap
  BY <1>1, DivFacts
<1>3. q <= p
  BY <1>1, <1>2, DivFacts
<1>4. p <= q
  <2> SUFFICES ASSUME q < p PROVE FALSE
    BY <1>2
  <2>1. PICK d \in Nat : p = (q + 1) + d
    <3>1. q + 1 <= p
      OBVIOUS
    <3> QED BY <3>1, Difference
  <2>2. cap * p = cap * q + cap + cap * d /\ cap * d \in Nat
    BY <2>1
  <2> QED BY <1>1, <1>2, <2>2
<1> QED BY <1>1, <1>2, <1>3, <1>4

Entry == [key : MapKeys, value : Nat]

\* The chunks are full but for the last, the items in them are those inserted, and what
\* was handed out for each is where it is.
ListInv ==
  /\ Chunked(Nat, list, ChunkCapacity, inserted)
  /\ refs \in Seq(Seq(Nat)) /\ Len(refs) = Len(inserted)
  /\ \A i \in 1 .. Len(inserted) :
       \E p \in 1 .. Len(list) : \E q \in 1 .. Len(list[p]) :
         refs[i] = <<p, q>> /\ list[p][q] = inserted[i]

\* Each chunk of the map has one entry, what its key was first inserted with, and what
\* was handed out for a key that has one is where it is.
MapInv ==
  /\ map \in [0 .. TableSize - 1 -> Seq(Seq(Entry))]
  /\ dict \in [MapKeys -> Nat] /\ DOMAIN entry_refs = MapKeys
  /\ \A slot \in 0 .. TableSize - 1 : \A i \in 1 .. Len(map[slot]) :
       /\ Len(map[slot][i]) = 1
       /\ map[slot][i][1].value = dict[map[slot][i][1].key] /\ map[slot][i][1].value # 0
  /\ \A k \in MapKeys : dict[k] # 0 =>
       \E i \in 1 .. Len(map[Con!Slot(k)]) :
         entry_refs[k] = <<i, 1>> /\ map[Con!Slot(k)][i][1] = [key |-> k, value |-> dict[k]]

\* The walk takes the items in their order (ChunkList::Iterator).
LEMMA WalkIsItems ==
  ASSUME ChunkCapacity \in Nat \ {0}, Chunked(Nat, list, ChunkCapacity, inserted)
  PROVE  Con!Walk = inserted
<1>1. PICK c \in Nat \ {0}, m \in Nat, T \in Nat :
        /\ c = ChunkCapacity /\ m = Len(list) /\ T = Len(inserted)
        /\ list \in Seq(Seq(Nat)) /\ inserted \in Seq(Nat)
        /\ (m = 0 => list = <<>>) /\ (list = <<>> => m = 0)
  <2>1. list \in Seq(Seq(Nat)) /\ inserted \in Seq(Nat)
    BY Zenon DEF Chunked
  <2>2. Len(list) \in Nat /\ Len(inserted) \in Nat /\ (Len(list) = 0 => list = <<>>)
    BY <2>1
  <2>3. list = <<>> => Len(list) = 0
    OBVIOUS
  <2> QED BY <2>1, <2>2, <2>3
<1>2. CASE m = 0
  <2>1. Con!Walk = <<>>
    BY <1>1, <1>2 DEF Con!Walk
  <2>2. inserted = <<>>
    BY <1>1, <1>2 DEF Chunked
  <2> QED BY <2>1, <2>2
<1>3. CASE m # 0
  <2>1. \A i \in 1 .. m : /\ Len(list[i]) \in Nat /\ Len(list[i]) >= 1 /\ Len(list[i]) <= c
                          /\ (i # m => Len(list[i]) = c)
    <3>1. \A i \in 1 .. m : Len(list[i]) \in Nat
      BY <1>1
    <3> QED BY <1>1, <3>1, Zenon DEF Chunked
  <2>2. \A i \in 1 .. m : \A j \in 1 .. Len(list[i]) : list[i][j] = inserted[c * (i - 1) + j]
    BY <1>1, Zenon DEF Chunked
  <2>3. PICK M \in Nat, e \in Nat :
          M = c * (m - 1) /\ e = Len(list[m]) /\ T = M + e /\ 1 <= e /\ e <= c /\ c * m = M + c
    <3>1. m \in 1 .. m /\ m - 1 \in Nat
      BY <1>1, <1>3
    <3>2. c * (m - 1) \in Nat /\ c * m = c * (m - 1) + c
      BY <3>1
    <3>3. T = c * (m - 1) + Len(list[m])
      BY <1>1, <1>3, Zenon DEF Chunked
    <3> QED BY <2>1, <3>1, <3>2, <3>3
  <2> DEFINE place(n) == IF n < M THEN <<(n \div c) + 1, n - c * (n \div c)>> ELSE <<m, n - M>>
             F(f) == [n \in 0 .. c * m |-> IF n = 0 THEN <<1, 0>> ELSE Con!Advance(f[n - 1])]
             g == [n \in 0 .. c * m |-> place(n)]
             after == CHOOSE f : f = F(f)
             end == <<m, e>>
  <2>4. ASSUME NEW n \in Nat, n < M
        PROVE  \E q \in Nat, r \in Nat : /\ n = c * q + r /\ r < c /\ q + 2 <= m
                                         /\ n \div c = q /\ place(n) = <<q + 1, r>>
    <3>1. PICK q \in Nat : q = n \div c /\ c * q <= n /\ n < c * q + c
      BY <2>4, DivFacts
    <3>2. PICK u \in Nat : u = c * q
      BY <3>1
    <3>3. PICK r \in Nat : r = n - u /\ n = u + r /\ r < c
      BY <3>1, <3>2
    <3>4. q + 2 <= m
      <4> SUFFICES ASSUME m <= q + 1 PROVE FALSE
        BY <3>1
      <4>1. PICK d \in Nat : q = (m - 1) + d
        <5>1. m - 1 \in Nat /\ m - 1 <= q
          BY <1>1, <1>3
        <5> QED BY <5>1, Difference
      <4>2. c * q = c * (m - 1) + c * d /\ c * d \in Nat
        BY <1>1, <1>3, <4>1
      <4> QED BY <2>3, <2>4, <3>1, <3>2, <4>2
    <3>5. place(n) = <<q + 1, r>>
      BY <2>4, <3>1, <3>2, <3>3
    <3> HIDE DEF place
    <3> QED BY <3>1, <3>2, <3>3, <3>4, <3>5
  <2>5. ASSUME NEW n \in Nat, M <= n PROVE place(n) = <<m, n - M>>
    <3>1. ~(n < M)
      BY <2>5
    <3> QED BY <3>1
  <2>6. ASSUME NEW n \in Nat PROVE place(n + 1) = Con!Advance(place(n))
    <3>1. CASE M <= n
      <4>1. place(n) = <<m, n - M>> /\ place(n + 1) = <<m, (n + 1) - M>>
        <5>1. M <= n + 1 /\ n + 1 \in Nat
          BY <3>1
        <5> HIDE DEF place
        <5> QED BY <2>5, <3>1, <5>1
      <4>2. Con!Advance(<<m, n - M>>) = <<m, (n - M) + 1>>
        BY <1>1 DEF Con!Advance
      <4>3. (n - M) + 1 = (n + 1) - M
        BY <3>1
      <4> HIDE DEF place
      <4> QED BY <4>1, <4>2, <4>3
    <3>2. CASE n < M
      <4>1. PICK q \in Nat, r \in Nat : n = c * q + r /\ r < c /\ q + 2 <= m /\ place(n) = <<q + 1, r>>
        BY <2>4, <3>2
      <4>2. Len(list[q + 1]) = c /\ q + 1 < Len(list) /\ q + 1 \in Nat
        <5>1. q + 1 \in 1 .. m /\ q + 1 # m
          BY <4>1
        <5> QED BY <1>1, <2>1, <4>1, <5>1
      <4>3. Con!Advance(<<q + 1, r>>) = IF r + 1 >= c THEN <<(q + 1) + 1, 0>> ELSE <<q + 1, r + 1>>
        BY <4>2 DEF Con!Advance
      <4>4. PICK u \in Nat : u = c * q /\ n = u + r /\ c * (q + 1) = u + c
        BY <4>1
      <4>5. CASE r + 1 >= c
        <5>1. n + 1 = c * (q + 1) + 0
          BY <4>1, <4>4, <4>5
        <5>2. CASE n + 1 < M
          <6>1. (n + 1) \div c = q + 1
            BY <5>1, DivUnique
          <6>2. (n + 1) - c * (q + 1) = 0
            BY <4>4, <5>1
          <6>3. place(n + 1) = <<(q + 1) + 1, (n + 1) - c * (q + 1)>>
            BY <5>2, <6>1
          <6> HIDE DEF place
          <6> QED BY <4>1, <4>3, <4>5, <6>2, <6>3
        <5>3. CASE ~(n + 1 < M)
          <6>1. n + 1 = M
            BY <3>2, <5>3
          <6>2. q + 1 = m - 1
            <7>1. SUFFICES ASSUME q + 2 < m PROVE FALSE
              BY <1>1, <4>1
            <7>2. PICK d \in Nat : m - 1 = (q + 2) + d
              <8>1. m - 1 \in Nat /\ q + 2 <= m - 1
                BY <1>1, <7>1
              <8> QED BY <8>1, Difference
            <7>3. c * (m - 1) = c * (q + 1) + c + c * d /\ c * d \in Nat
              BY <7>2
            <7> QED BY <2>3, <4>4, <5>1, <6>1, <7>3
          <6>3. place(n + 1) = <<m, (n + 1) - M>> /\ (n + 1) - M = 0 /\ (q + 1) + 1 = m
            <7>1. M <= n + 1
              BY <6>1
            <7>2. place(n + 1) = <<m, (n + 1) - M>>
              <8> HIDE DEF place
              <8> QED BY <2>5, <7>1
            <7> HIDE DEF place
            <7> QED BY <1>1, <6>1, <6>2, <7>2
          <6> HIDE DEF place
          <6> QED BY <4>1, <4>3, <4>5, <6>3
        <5> QED BY <5>2, <5>3
      <4>6. CASE ~(r + 1 >= c)
        <5>1. r + 1 < c /\ n + 1 = u + (r + 1)
          BY <4>4, <4>6
        <5>2. n + 1 < M
          <6>1. PICK d \in Nat : m - 1 = (q + 1) + d
            <7>1. m - 1 \in Nat /\ q + 1 <= m - 1
              BY <1>1, <4>1
            <7> QED BY <7>1, Difference
          <6>2. c * (m - 1) = c * (q + 1) + c * d /\ c * d \in Nat
            BY <6>1
          <6> QED BY <2>3, <4>4, <5>1, <6>2
        <5>3. (n + 1) \div c = q
          BY <4>4, <5>1, DivUnique
        <5>4. place(n + 1) = <<q + 1, (n + 1) - c * q>>
          BY <5>2, <5>3
        <5>5. (n + 1) - c * q = r + 1
          BY <4>4, <5>1
        <5> HIDE DEF place
        <5> QED BY <4>1, <4>3, <4>6, <5>4, <5>5
      <4> QED BY <4>5, <4>6
    <3> QED BY <3>1, <3>2
  <2>7. place(0) = <<1, 0>>
    <3>1. CASE 0 < M
      <4>1. PICK q \in Nat, r \in Nat : 0 = c * q + r /\ place(0) = <<q + 1, r>> /\ 0 \div c = q
        BY <2>4, <3>1
      <4>2. r = 0 /\ q = 0
        <5>1. 0 = c * 0 + 0 /\ 0 < c
          OBVIOUS
        <5>2. 0 \div c = 0
          BY <5>1, DivUnique
        <5>3. c * 0 = 0
          OBVIOUS
        <5> QED BY <4>1, <5>2, <5>3
      <4> HIDE DEF place
      <4> QED BY <4>1, <4>2
    <3>2. CASE M = 0
      <4>1. m = 1
        <5>1. SUFFICES ASSUME 1 < m PROVE FALSE
          BY <1>1, <1>3
        <5>2. PICK d \in Nat : m - 1 = 1 + d
          <6>1. m - 1 \in Nat /\ 1 <= m - 1
            BY <1>1, <5>1
          <6> QED BY <6>1, Difference
        <5>3. c * (m - 1) = c + c * d /\ c * d \in Nat
          BY <5>2
        <5> QED BY <2>3, <3>2, <5>3
      <4>2. place(0) = <<m, 0 - M>>
        BY <2>5, <3>2
      <4> HIDE DEF place
      <4> QED BY <3>2, <4>1, <4>2
    <3> QED BY <3>1, <3>2
  <2>17. T = M + e /\ 1 <= e /\ e <= c
    BY <2>3
  <2>8. PICK N \in Nat : N = c * m /\ T <= N
    <3>1. PICK v \in Nat : v = c * m /\ v = M + c
      BY <2>3
    <3> QED BY <2>17, <3>1
  <2>9. g = F(g)
    <3>1. ASSUME NEW n \in 0 .. N PROVE g[n] = F(g)[n]
      <4>1. CASE n = 0
        <5>1. g[0] = place(0) /\ F(g)[0] = <<1, 0>>
          BY <2>8
        <5> HIDE DEF g, F, place
        <5> QED BY <2>7, <4>1, <5>1
      <4>2. CASE n # 0
        <5>1. n - 1 \in 0 .. N /\ n - 1 \in Nat /\ (n - 1) + 1 = n
          BY <4>2
        <5>2. g[n] = place(n) /\ g[n - 1] = place(n - 1)
          <6> HIDE DEF place
          <6> QED BY <2>8, <5>1
        <5>3. F(g)[n] = Con!Advance(g[n - 1])
          <6> HIDE DEF g
          <6> QED BY <2>8, <4>2
        <5>4. place((n - 1) + 1) = Con!Advance(place(n - 1))
          <6> HIDE DEF place
          <6> QED BY <2>6, <5>1
        <5> HIDE DEF g, F, place
        <5> QED BY <5>1, <5>2, <5>3, <5>4
      <4> QED BY <4>1, <4>2
    <3>2. g = [n \in 0 .. N |-> g[n]] /\ F(g) = [n \in 0 .. N |-> F(g)[n]]
      BY <2>8
    <3> HIDE DEF g, F
    <3> QED BY <3>1, <3>2, Zenon
  <2>10. after = F(after)
    <3> HIDE DEF g, F
    <3> QED BY <2>9, Zenon
  <2>11. \A n \in Nat : n <= N => after[n] = place(n)
    <3> DEFINE Same == {n \in Nat : n <= N => after[n] = place(n)}
    <3>1. /\ after[0] = <<1, 0>>
          /\ \A n \in 1 .. N : after[n] = Con!Advance(after[n - 1])
      <4>1. \A n \in 0 .. N : F(after)[n] = IF n = 0 THEN <<1, 0>> ELSE Con!Advance(after[n - 1])
        <5> HIDE DEF after
        <5> QED BY <2>8
      <4>2. 0 \in 0 .. N /\ \A n \in 1 .. N : n \in 0 .. N /\ n # 0
        OBVIOUS
      <4> HIDE DEF after, F
      <4> QED BY <2>10, <4>1, <4>2
    <3> HIDE DEF after, place
    <3>2. 0 \in Same
      BY <2>7, <3>1
    <3>3. ASSUME NEW n \in Nat, n \in Same PROVE n + 1 \in Same
      <4>1. CASE n + 1 <= N
        <5>1. n + 1 \in 1 .. N /\ (n + 1) - 1 = n /\ n <= N
          BY <4>1
        <5> QED BY <2>6, <3>1, <3>3, <5>1
      <4> QED BY <4>1
    <3> HIDE DEF Same
    <3>4. \A n \in Nat : n \in Same
      BY <3>2, <3>3, NumberInduction
    <3> QED BY <3>4 DEF Same
  <2>12. DOMAIN after = 0 .. N
    <3>1. DOMAIN F(after) = 0 .. N
      BY <2>8
    <3> HIDE DEF after, F
    <3> QED BY <2>10, <3>1
  <2>13. Con!Min({n \in DOMAIN after : after[n] = end}) = T
    <3>1. ASSUME NEW n \in 0 .. N, after[n] = end PROVE n = T
      <4>1. place(n) = <<m, e>>
        <5> HIDE DEF after, place
        <5> QED BY <2>11, <3>1
      <4>2. CASE n < M
        <5>1. PICK q \in Nat, r \in Nat : q + 2 <= m /\ place(n) = <<q + 1, r>>
          <6>1. n \in Nat
            OBVIOUS
          <6> HIDE DEF place
          <6> QED BY <2>4, <4>2, <6>1
        <5>2. q + 1 = m
          <6> HIDE DEF place
          <6> QED BY <4>1, <5>1
        <5> QED BY <5>1, <5>2
      <4>3. CASE M <= n
        <5>1. place(n) = <<m, n - M>>
          BY <2>5, <4>3
        <5>2. n - M = e
          <6> HIDE DEF place
          <6> QED BY <4>1, <5>1
        <5> HIDE DEF place, after, g, F, end
        <5> QED BY <2>17, <5>2
      <4> QED BY <4>2, <4>3
    <3>2. T \in 0 .. N /\ after[T] = end
      <4>1. T \in 0 .. N /\ M <= T /\ T - M = e
        BY <2>8, <2>17
      <4>2. place(T) = <<m, T - M>>
        BY <2>5, <4>1
      <4> HIDE DEF after, place
      <4> QED BY <2>11, <4>1, <4>2
    <3> HIDE DEF after, end
    <3>3. {n \in DOMAIN after : after[n] = end} = {T}
      BY <2>12, <3>1, <3>2
    <3>4. T <= T
      OBVIOUS
    <3>5. Con!Min({T}) = T
      BY <3>4, Zenon DEF Con!Min
    <3> QED BY <3>3, <3>5
  <2>14. Con!Walk = [n \in 1 .. T |-> list[after[n - 1][1]][after[n - 1][2] + 1]]
    <3>1. list # <<>>
      BY <1>1, <1>3
    <3>2. end = <<Len(list), Len(Con!Last(list))>>
      BY <1>1, <2>3 DEF Con!Last
    <3>3. after = CHOOSE f : f = [n \in 0 .. ChunkCapacity * Len(list) |->
                                    IF n = 0 THEN <<1, 0>> ELSE Con!Advance(f[n - 1])]
      BY <1>1
    <3>4. Con!Min({n \in DOMAIN after : after[n] = <<Len(list), Len(Con!Last(list))>>}) = T
      <4> HIDE DEF after, end
      <4> QED BY <2>13, <3>2
    <3> DEFINE aft[n \in 0 .. ChunkCapacity * Len(list)] ==
                 IF n = 0 THEN <<1, 0>> ELSE Con!Advance(aft[n - 1])
    <3>5. Con!Walk = IF list = <<>> THEN <<>>
                     ELSE [n \in 1 .. Con!Min({n \in DOMAIN aft : aft[n] = <<Len(list), Len(Con!Last(list))>>}) |->
                             list[aft[n - 1][1]][aft[n - 1][2] + 1]]
      BY DEF Con!Walk
    <3>6. aft = after
      BY <3>3
    <3> HIDE DEF after, end, aft
    <3> QED BY <3>1, <3>4, <3>5, <3>6, Zenon
  <2>15. ASSUME NEW n \in 1 .. T PROVE list[after[n - 1][1]][after[n - 1][2] + 1] = inserted[n]
    <3>1. n - 1 \in Nat /\ n - 1 <= N
      BY <2>8
    <3>2. after[n - 1] = place(n - 1)
      <4> HIDE DEF after, place
      <4> QED BY <2>11, <3>1
    <3>3. CASE n - 1 < M
      <4>1. PICK q \in Nat, r \in Nat :
              n - 1 = c * q + r /\ r < c /\ q + 2 <= m /\ place(n - 1) = <<q + 1, r>>
        BY <2>4, <3>1, <3>3
      <4>2. q + 1 \in 1 .. m /\ q + 1 # m /\ (q + 1) - 1 = q /\ r + 1 \in 1 .. c
        BY <4>1
      <4>3. list[q + 1][r + 1] = inserted[c * ((q + 1) - 1) + (r + 1)]
        BY <2>1, <2>2, <4>2
      <4>4. c * ((q + 1) - 1) + (r + 1) = n
        <5>1. PICK u \in Nat : u = c * q
          BY <4>1
        <5>2. n - 1 = u + r
          BY <4>1, <5>1
        <5>3. c * ((q + 1) - 1) = u
          BY <4>2, <5>1
        <5> QED BY <5>2, <5>3
      <4>5. after[n - 1] = <<q + 1, r>>
        <5> HIDE DEF after, place
        <5> QED BY <3>2, <4>1
      <4> HIDE DEF after, place
      <4> QED BY <4>3, <4>4, <4>5
    <3>4. CASE M <= n - 1
      <4>1. place(n - 1) = <<m, (n - 1) - M>>
        BY <2>5, <3>1, <3>4
      <4>2. ((n - 1) - M) + 1 = n - M /\ n - M \in 1 .. e /\ m \in 1 .. m
        BY <1>1, <1>3, <2>17, <3>4
      <4>3. list[m][n - M] = inserted[c * (m - 1) + (n - M)]
        BY <2>2, <2>3, <4>2
      <4>4. c * (m - 1) + (n - M) = n
        BY <2>3
      <4>5. after[n - 1] = <<m, (n - 1) - M>>
        <5> HIDE DEF after, place
        <5> QED BY <3>2, <4>1
      <4> HIDE DEF after, place
      <4> QED BY <4>2, <4>3, <4>4, <4>5
    <3> QED BY <3>1, <3>3, <3>4
  <2>16. inserted = [n \in 1 .. T |-> inserted[n]]
    BY <1>1
  <2> HIDE DEF after
  <2> QED BY <2>14, <2>15, <2>16, Zenon
<1> QED BY <1>2, <1>3

\* The items before a chunk and before a later one.
LEMMA Gap ==
  ASSUME NEW cap \in Nat, NEW i \in Nat, NEW d \in Nat, NEW m \in Nat, m - 1 = i + d
  PROVE  cap * (m - 1) = cap * (i - 1) + cap + cap * d /\ cap * d \in Nat
OBVIOUS

\* Where the items of a chunk are among all items.
LEMMA ChunkedPlace ==
  ASSUME NEW S, NEW cap \in Nat \ {0}, NEW c, NEW t, Chunked(S, c, cap, t),
         NEW i \in 1 .. Len(c), NEW j \in 1 .. Len(c[i])
  PROVE  cap * (i - 1) + j \in 1 .. Len(t)
<1>1. PICK m \in Nat, n \in Nat : m = Len(c) /\ n = Len(t) /\ c \in Seq(Seq(S)) /\ i <= m /\ i \in Nat /\ 1 <= i
  <2>1. c \in Seq(Seq(S)) /\ t \in Seq(S)
    BY Zenon DEF Chunked
  <2> QED BY <2>1
<1>2. m \in 1 .. m /\ c # <<>> /\ i - 1 \in Nat /\ m - 1 \in Nat
  BY <1>1
<1>8. PICK a, b : a = c[i] /\ b = c[m]
  OBVIOUS
<1>3. PICK h \in Nat, e \in Nat : /\ h = Len(c[i]) /\ e = Len(c[m]) /\ h <= cap /\ 1 <= e
                                  /\ (i # m => h = cap) /\ j \in Nat /\ 1 <= j /\ j <= h
  <2>1. a \in Seq(S) /\ b \in Seq(S)
    <3>1. i \in 1 .. Len(c) /\ m \in 1 .. Len(c)
      BY <1>1, <1>2
    <3>2. \A k \in 1 .. Len(c) : c[k] \in Seq(S)
      BY <1>1
    <3> QED BY <1>8, <3>1, <3>2, Zenon
  <2>2. Len(a) \in Nat /\ Len(b) \in Nat
    BY <2>1
  <2>3. Len(b) >= 1
    <3>1. \A k \in 1 .. Len(c) : Len(c[k]) >= 1
      BY Zenon DEF Chunked
    <3> QED BY <1>1, <1>2, <1>8, <3>1
  <2>4. Len(a) <= cap /\ (i # m => Len(a) = cap)
    <3>1. \A k \in 1 .. Len(c) : Len(c[k]) <= cap /\ (k # Len(c) => Len(c[k]) = cap)
      BY Zenon DEF Chunked
    <3> QED BY <1>1, <1>8, <3>1, Zenon
  <2>5. j \in 1 .. Len(a)
    BY <1>8
  <2> HIDE <1>8
  <2>6. /\ Len(a) \in Nat /\ Len(b) \in Nat /\ Len(a) <= cap /\ 1 <= Len(b)
        /\ (i # m => Len(a) = cap) /\ j \in Nat /\ 1 <= j /\ j <= Len(a)
    BY <2>2, <2>3, <2>4, <2>5
  <2> QED BY <1>8, <2>6, Zenon
<1>4. PICK u \in Nat, M \in Nat : u = cap * (i - 1) /\ M = cap * (m - 1)
  BY <1>2
<1>5. n = M + e
  BY <1>1, <1>2, <1>3, <1>4, Zenon DEF Chunked
<1>6. CASE i = m
  <2>1. u = M /\ h = e
    BY <1>3, <1>4, <1>6, Zenon
  <2>2. u + j \in 1 .. n
    BY <1>3, <1>5, <2>1
  <2> QED BY <1>1, <1>4, <2>2
<1>7. CASE i # m
  <2>1. PICK d \in Nat : m - 1 = i + d
    <3>1. i <= m - 1
      BY <1>1, <1>7
    <3> QED BY <1>1, <1>2, <3>1, Difference
  <2>2. cap * (m - 1) = cap * (i - 1) + cap + cap * d /\ cap * d \in Nat
    <3>1. i \in Nat
      BY <1>1
    <3> QED BY <2>1, <3>1, Gap
  <2>3. PICK w \in Nat : w = cap * d /\ M = u + cap + w
    BY <1>4, <2>2, Zenon
  <2>4. u + j \in 1 .. n
    <3>1. h = cap /\ j \in Nat /\ 1 <= j /\ j <= h
      BY <1>3, <1>7, Zenon
    <3>2. M = u + cap + w
      BY <2>3
    <3> QED BY <1>5, <3>1, <3>2
  <2> QED BY <1>1, <1>4, <2>4
<1> QED BY <1>6, <1>7

\* An item in a chunk of its own, behind full ones.
LEMMA ChunkedAppend ==
  ASSUME NEW S, NEW cap \in Nat \ {0}, NEW c, NEW t, Chunked(S, c, cap, t), NEW x \in S,
         c = <<>> \/ Len(c[Len(c)]) >= cap
  PROVE  Chunked(S, Append(c, <<x>>), cap, Append(t, x))
<1>1. PICK m \in Nat, n \in Nat : m = Len(c) /\ n = Len(t) /\ c \in Seq(Seq(S)) /\ t \in Seq(S)
  <2>1. c \in Seq(Seq(S)) /\ t \in Seq(S)
    BY Zenon DEF Chunked
  <2> QED BY <2>1
<1>2. PICK one : one = <<x>> /\ one \in Seq(S) /\ Len(one) = 1 /\ one[1] = x
  <2>1. <<x>> \in Seq(S) /\ Len(<<x>>) = 1 /\ <<x>>[1] = x
    OBVIOUS
  <2> QED BY <2>1, Zenon
<1>3. PICK r : r = Append(c, one)
  OBVIOUS
<1>4. PICK s : s = Append(t, x)
  OBVIOUS
<1>5. /\ r \in Seq(Seq(S)) /\ Len(r) = m + 1 /\ r[m + 1] = one
      /\ \A i \in 1 .. m : r[i] = c[i]
  BY <1>1, <1>2, <1>3, AppendAt
<1>6. /\ s \in Seq(S) /\ Len(s) = n + 1 /\ s[n + 1] = x
      /\ \A i \in 1 .. n : s[i] = t[i]
  BY <1>1, <1>4, AppendAt
<1>7. \A i \in 1 .. m : Len(c[i]) \in Nat
  BY <1>1
<1>8. \A i \in 1 .. m : Len(c[i]) = cap
  <2> SUFFICES ASSUME NEW i \in 1 .. m PROVE Len(c[i]) = cap
    OBVIOUS
  <2>1. c # <<>>
    BY <1>1
  <2>2. Len(c[m]) >= cap
    BY <1>1, <2>1
  <2>3. Len(c[i]) <= cap /\ (i # m => Len(c[i]) = cap)
    BY <1>1, Zenon DEF Chunked
  <2> QED BY <1>1, <1>7, <2>2, <2>3
<1>9. n = cap * m
  <2>1. CASE c = <<>>
    <3>1. n = 0 /\ m = 0
      BY <1>1, <2>1 DEF Chunked
    <3> QED BY <3>1
  <2>2. CASE c # <<>>
    <3>1. m \in 1 .. m /\ m - 1 \in Nat
      BY <1>1, <2>2
    <3>2. n = cap * (m - 1) + Len(c[m])
      BY <1>1, <2>2, Zenon DEF Chunked
    <3>3. n = cap * (m - 1) + cap
      BY <1>8, <3>1, <3>2
    <3>4. cap * (m - 1) + cap = cap * m
      BY <3>1
    <3> QED BY <3>3, <3>4
  <2> QED BY <2>1, <2>2
<1>10. \A i \in 1 .. m + 1 : i = m + 1 \/ (i \in 1 .. m /\ i # m + 1)
  BY <1>1
<1>11. \A i \in 1 .. m + 1 : Len(r[i]) >= 1 /\ Len(r[i]) <= cap /\ (i # m + 1 => Len(r[i]) = cap)
  <2> SUFFICES ASSUME NEW i \in 1 .. m + 1
               PROVE  Len(r[i]) >= 1 /\ Len(r[i]) <= cap /\ (i # m + 1 => Len(r[i]) = cap)
    OBVIOUS
  <2>1. CASE i = m + 1
    <3>1. Len(r[i]) = 1
      BY <1>2, <1>5, <2>1
    <3> QED BY <2>1, <3>1
  <2>2. CASE i \in 1 .. m
    <3>1. Len(r[i]) = cap
      BY <1>5, <1>8, <2>2
    <3> QED BY <3>1
  <2> QED BY <1>10, <2>1, <2>2
<1>12. Len(s) = cap * ((m + 1) - 1) + Len(r[m + 1]) /\ r # <<>>
  <2>1. (m + 1) - 1 = m /\ Len(r[m + 1]) = 1 /\ m + 1 # 0
    BY <1>2, <1>5
  <2> QED BY <1>5, <1>6, <1>9, <2>1
<1>13. \A i \in 1 .. m + 1 : \A j \in 1 .. Len(r[i]) : r[i][j] = s[cap * (i - 1) + j]
  <2> SUFFICES ASSUME NEW i \in 1 .. m + 1, NEW j \in 1 .. Len(r[i])
               PROVE  r[i][j] = s[cap * (i - 1) + j]
    OBVIOUS
  <2>1. CASE i = m + 1
    <3>1. j = 1 /\ i - 1 = m
      <4>1. r[i] = one
        BY <1>5, <2>1, Zenon
      <4>2. j \in 1 .. 1
        BY <1>2, <4>1
      <4> QED BY <2>1, <4>2
    <3>2. cap * (i - 1) + j = n + 1
      BY <1>9, <3>1
    <3> QED BY <1>2, <1>5, <1>6, <2>1, <3>1, <3>2
  <2>2. CASE i \in 1 .. m
    <3>1. r[i] = c[i]
      BY <1>5, <2>2
    <3>2. cap * (i - 1) + j \in 1 .. n
      BY <1>1, <2>2, <3>1, ChunkedPlace
    <3>3. c[i][j] = t[cap * (i - 1) + j]
      BY <1>1, <2>2, <3>1, Zenon DEF Chunked
    <3> QED BY <1>6, <3>1, <3>2, <3>3
  <2> QED BY <1>10, <2>1, <2>2
<1>14. Chunked(S, r, cap, s)
  BY <1>5, <1>6, <1>11, <1>12, <1>13, Zenon DEF Chunked
<1> QED BY <1>2, <1>3, <1>4, <1>14

\* An item in the last chunk, while that has room.
LEMMA ChunkedExtend ==
  ASSUME NEW S, NEW cap \in Nat \ {0}, NEW c, NEW t, Chunked(S, c, cap, t), NEW x \in S,
         c # <<>>, ~(Len(c[Len(c)]) >= cap)
  PROVE  Chunked(S, [c EXCEPT ![Len(c)] = Append(@, x)], cap, Append(t, x))
<1>1. PICK m \in Nat, n \in Nat : /\ m = Len(c) /\ n = Len(t) /\ c \in Seq(Seq(S)) /\ t \in Seq(S)
                                  /\ m \in 1 .. m /\ DOMAIN c = 1 .. m
  <2>1. c \in Seq(Seq(S)) /\ t \in Seq(S)
    BY Zenon DEF Chunked
  <2> QED BY <2>1
<1>2. PICK h \in Nat, last \in Seq(S) : last = c[m] /\ h = Len(last) /\ h < cap
  <2>1. c[m] \in Seq(S)
    BY <1>1
  <2>2. Len(c[m]) \in Nat /\ ~(Len(c[m]) >= cap)
    BY <1>1, <2>1
  <2> QED BY <2>1, <2>2
<1>3. PICK new : new = Append(last, x)
  OBVIOUS
<1>4. PICK r : r = [c EXCEPT ![m] = new]
  OBVIOUS
<1>5. PICK s : s = Append(t, x)
  OBVIOUS
<1>6. /\ new \in Seq(S) /\ Len(new) = h + 1 /\ new[h + 1] = x
      /\ \A j \in 1 .. h : new[j] = last[j]
  BY <1>2, <1>3, AppendAt
<1>7. /\ s \in Seq(S) /\ Len(s) = n + 1 /\ s[n + 1] = x
      /\ \A i \in 1 .. n : s[i] = t[i]
  BY <1>1, <1>5, AppendAt
<1>8. /\ r \in Seq(Seq(S)) /\ Len(r) = m /\ r # <<>> /\ r[m] = new
      /\ \A i \in 1 .. m : i # m => r[i] = c[i]
  <2>1. r \in [1 .. m -> Seq(S)] /\ r[m] = new /\ \A i \in 1 .. m : i # m => r[i] = c[i]
    BY <1>1, <1>4, <1>6
  <2>2. r \in Seq(Seq(S)) /\ Len(r) = m
    <3>1. PICK T : T = Seq(S)
      OBVIOUS
    <3>2. r \in [1 .. m -> T] /\ m \in Nat
      BY <1>1, <2>1, <3>1
    <3>3. r \in Seq(T) /\ Len(r) = m
      BY <3>2
    <3> QED BY <3>1, <3>3, Zenon
  <2>3. r # <<>>
    BY <1>1, <2>2
  <2> QED BY <2>1, <2>2, <2>3
<1>9. n = cap * (m - 1) + h
  BY <1>1, <1>2, Zenon DEF Chunked
<1>10. PICK M \in Nat : M = cap * (m - 1)
  <2>1. m - 1 \in Nat
    BY <1>1
  <2> QED BY <2>1
<1>11. \A i \in 1 .. m : Len(r[i]) >= 1 /\ Len(r[i]) <= cap /\ (i # m => Len(r[i]) = cap)
  <2> SUFFICES ASSUME NEW i \in 1 .. m
               PROVE  Len(r[i]) >= 1 /\ Len(r[i]) <= cap /\ (i # m => Len(r[i]) = cap)
    OBVIOUS
  <2>1. CASE i = m
    <3>1. Len(r[i]) = h + 1
      BY <1>6, <1>8, <2>1
    <3> QED BY <1>2, <2>1, <3>1
  <2>2. CASE i # m
    <3>1. r[i] = c[i]
      BY <1>8, <2>2
    <3>2. Len(c[i]) >= 1 /\ Len(c[i]) <= cap /\ (i # m => Len(c[i]) = cap)
      BY <1>1, Zenon DEF Chunked
    <3> QED BY <3>1, <3>2
  <2> QED BY <2>1, <2>2
<1>12. Len(s) = cap * (m - 1) + Len(r[m])
  BY <1>6, <1>7, <1>8, <1>9, <1>10
<1>13. \A i \in 1 .. m : \A j \in 1 .. Len(r[i]) : r[i][j] = s[cap * (i - 1) + j]
  <2> SUFFICES ASSUME NEW i \in 1 .. m, NEW j \in 1 .. Len(r[i])
               PROVE  r[i][j] = s[cap * (i - 1) + j]
    OBVIOUS
  <2>1. CASE i = m /\ j = h + 1
    <3>1. cap * (i - 1) + j = n + 1
      BY <1>9, <1>10, <2>1
    <3> QED BY <1>6, <1>7, <1>8, <2>1, <3>1
  <2>2. CASE ~(i = m /\ j = h + 1)
    <3>1. j \in 1 .. Len(c[i]) /\ r[i][j] = c[i][j]
      <4>1. CASE i = m
        <5>1. j \in 1 .. h
          BY <1>6, <1>8, <2>2, <4>1
        <5> QED BY <1>2, <1>6, <1>8, <4>1, <5>1
      <4>2. CASE i # m
        BY <1>8, <4>2
      <4> QED BY <4>1, <4>2
    <3>2. cap * (i - 1) + j \in 1 .. n
      BY <1>1, <3>1, ChunkedPlace
    <3>3. c[i][j] = t[cap * (i - 1) + j]
      BY <1>1, <3>1, Zenon DEF Chunked
    <3> QED BY <1>7, <3>1, <3>2, <3>3
  <2> QED BY <2>1, <2>2
<1>14. Chunked(S, r, cap, s)
  BY <1>7, <1>8, <1>11, <1>12, <1>13, Zenon DEF Chunked
<1> QED BY <1>1, <1>2, <1>3, <1>4, <1>5, <1>14

\* An insertion into the chunk list moves nothing (chunk_list_insert).
LEMMA ListKeeps ==
  ASSUME Con!ContainersFit, ListInv, NEW v \in Nat, Con!chunk_list_insert(v)
  PROVE  ListInv'
<1>1. PICK cap \in Nat \ {0} : cap = ChunkCapacity
  BY DEF Con!ContainersFit
<1>2. Chunked(Nat, list, cap, inserted)
  BY <1>1 DEF ListInv
<1>3. PICK m \in Nat, n \in Nat : /\ m = Len(list) /\ n = Len(inserted)
                                  /\ list \in Seq(Seq(Nat)) /\ inserted \in Seq(Nat)
  <2>1. list \in Seq(Seq(Nat)) /\ inserted \in Seq(Nat)
    BY <1>2, Zenon DEF Chunked
  <2> QED BY <2>1
<1> DEFINE full == list = <<>> \/ Len(list[m]) >= cap
<1>4. /\ list' = IF full THEN Append(list, <<v>>) ELSE [list EXCEPT ![m] = Append(@, v)]
      /\ inserted' = Append(inserted, v)
      /\ refs' = Append(refs, << IF full THEN m + 1 ELSE m, Len(list'[IF full THEN m + 1 ELSE m]) >>)
  <2>1. full = (list = <<>> \/ Len(Con!Last(list)) >= ChunkCapacity)
    BY <1>1, <1>3 DEF Con!Last
  <2> HIDE DEF full
  <2>2. PICK k : k = IF full THEN m + 1 ELSE m
    OBVIOUS
  <2>3. /\ list' = IF full THEN Append(list, <<v>>) ELSE [list EXCEPT ![k] = Append(@, v)]
        /\ inserted' = Append(inserted, v)
        /\ refs' = Append(refs, <<k, Len(list'[k])>>)
    BY <1>3, <2>1, <2>2, Zenon DEF Con!chunk_list_insert
  <2>4. ~full => k = m
    BY <2>2
  <2>5. list' = IF full THEN Append(list, <<v>>) ELSE [list EXCEPT ![m] = Append(@, v)]
    BY <2>3, <2>4, Zenon
  <2> QED BY <2>2, <2>3, <2>5, Zenon
<1>5. Chunked(Nat, list', cap, inserted')
  <2>1. CASE full
    BY <1>2, <1>3, <1>4, <2>1, ChunkedAppend
  <2>2. CASE ~full
    BY <1>2, <1>3, <1>4, <2>2, ChunkedExtend
  <2> QED BY <2>1, <2>2
<1>6. PICK k \in Nat, h \in Nat :
        /\ k \in 1 .. Len(list') /\ h \in 1 .. Len(list'[k]) /\ list'[k][h] = v
        /\ refs' = Append(refs, <<k, h>>)
        /\ \A p \in 1 .. m : \A q \in 1 .. Len(list[p]) :
             p \in 1 .. Len(list') /\ q \in 1 .. Len(list'[p]) /\ list'[p][q] = list[p][q]
  <2>1. CASE full
    <3>1. PICK one : one = <<v>> /\ one \in Seq(Nat) /\ Len(one) = 1 /\ one[1] = v
      <4>1. <<v>> \in Seq(Nat) /\ Len(<<v>>) = 1 /\ <<v>>[1] = v
        OBVIOUS
      <4> QED BY <4>1, Zenon
    <3>2. /\ Len(list') = m + 1 /\ list'[m + 1] = one /\ \A i \in 1 .. m : list'[i] = list[i]
      BY <1>3, <1>4, <2>1, <3>1, AppendAt
    <3>3. /\ m + 1 \in 1 .. m + 1 /\ \A i \in 1 .. m : i \in 1 .. m + 1
      BY <1>3
    <3>4. refs' = Append(refs, <<m + 1, 1>>)
      BY <1>4, <2>1, <3>1, <3>2
    <3>5. 1 \in 1 .. Len(list'[m + 1]) /\ list'[m + 1][1] = v
      BY <3>1, <3>2
    <3>6. \A p \in 1 .. m : \A q \in 1 .. Len(list[p]) :
            p \in 1 .. Len(list') /\ q \in 1 .. Len(list'[p]) /\ list'[p][q] = list[p][q]
      BY <3>2, <3>3, Zenon
    <3>7. m + 1 \in Nat /\ 1 \in Nat /\ m + 1 \in 1 .. Len(list')
      BY <3>2, <3>3
    <3> HIDE DEF full
    <3> QED BY <3>4, <3>5, <3>6, <3>7, Zenon
  <2>2. CASE ~full
    <3>1. m \in 1 .. m /\ DOMAIN list = 1 .. m
      BY <1>3, <2>2
    <3>2. PICK w \in Nat, last \in Seq(Nat) : last = list[m] /\ w = Len(last)
      <4>1. list[m] \in Seq(Nat)
        BY <1>3, <3>1
      <4> QED BY <4>1
    <3>3. PICK new : new = Append(last, v)
      OBVIOUS
    <3>4. Len(new) = w + 1 /\ new[w + 1] = v /\ new \in Seq(Nat) /\ \A j \in 1 .. w : new[j] = last[j]
      BY <3>2, <3>3, AppendAt
    <3>5. list' = [list EXCEPT ![m] = new]
      BY <1>4, <2>2, <3>2, <3>3
    <3>6. list' \in [1 .. m -> Seq(Nat)] /\ list'[m] = new /\ \A i \in 1 .. m : i # m => list'[i] = list[i]
      BY <1>3, <3>1, <3>4, <3>5
    <3>7. Len(list') = m
      BY <1>3, <3>6
    <3>8. refs' = Append(refs, <<m, w + 1>>)
      BY <1>4, <2>2, <3>4, <3>6
    <3>9. w + 1 \in 1 .. Len(list'[m]) /\ \A j \in 1 .. w : j \in 1 .. Len(list'[m])
      BY <3>4, <3>6
    <3>10. \A p \in 1 .. m : \A q \in 1 .. Len(list[p]) : q \in 1 .. Len(list'[p]) /\ list'[p][q] = list[p][q]
      <4> SUFFICES ASSUME NEW p \in 1 .. m, NEW q \in 1 .. Len(list[p])
                   PROVE q \in 1 .. Len(list'[p]) /\ list'[p][q] = list[p][q]
        OBVIOUS
      <4>1. CASE p = m
        <5>1. q \in 1 .. w
          BY <3>2, <4>1
        <5> QED BY <3>2, <3>4, <3>6, <3>9, <4>1, <5>1
      <4>2. CASE p # m
        BY <3>6, <4>2
      <4> QED BY <4>1, <4>2
    <3>11. \A p \in 1 .. m : \A q \in 1 .. Len(list[p]) :
             p \in 1 .. Len(list') /\ q \in 1 .. Len(list'[p]) /\ list'[p][q] = list[p][q]
      BY <3>7, <3>10, Zenon
    <3>12. m \in Nat /\ w + 1 \in Nat /\ m \in 1 .. Len(list') /\ list'[m][w + 1] = v
      BY <3>1, <3>4, <3>6, <3>7
    <3> HIDE DEF full
    <3> QED BY <3>8, <3>9, <3>11, <3>12, Zenon
  <2> QED BY <2>1, <2>2
<1> HIDE DEF full
<1>7. refs \in Seq(Seq(Nat)) /\ Len(refs) = n /\ <<k, h>> \in Seq(Nat)
  BY <1>3, <1>6 DEF ListInv
<1>8. /\ refs' \in Seq(Seq(Nat)) /\ Len(refs') = n + 1 /\ refs'[n + 1] = <<k, h>>
      /\ \A i \in 1 .. n : refs'[i] = refs[i]
  BY <1>6, <1>7, AppendAt
<1>9. /\ Len(inserted') = n + 1 /\ inserted'[n + 1] = v /\ \A i \in 1 .. n : inserted'[i] = inserted[i]
  BY <1>3, <1>4, AppendAt
<1>10. ASSUME NEW i \in 1 .. n + 1
       PROVE  \E p \in 1 .. Len(list') : \E q \in 1 .. Len(list'[p]) :
                refs'[i] = <<p, q>> /\ list'[p][q] = inserted'[i]
  <2>1. CASE i = n + 1
    BY <1>6, <1>8, <1>9, <2>1
  <2>2. CASE i \in 1 .. n
    <3>1. PICK p \in 1 .. m : \E q \in 1 .. Len(list[p]) : refs[i] = <<p, q>> /\ list[p][q] = inserted[i]
      BY <1>3, <2>2, Zenon DEF ListInv
    <3>2. PICK q \in 1 .. Len(list[p]) : refs[i] = <<p, q>> /\ list[p][q] = inserted[i]
      BY <3>1
    <3>3. p \in 1 .. Len(list') /\ q \in 1 .. Len(list'[p]) /\ list'[p][q] = list[p][q]
      BY <1>6
    <3> QED BY <1>8, <1>9, <2>2, <3>2, <3>3, Zenon
  <2> QED BY <1>3, <2>1, <2>2
<1>11. ChunkCapacity' = ChunkCapacity
  OBVIOUS
<1> QED BY <1>1, <1>5, <1>8, <1>9, <1>10, Zenon DEF ListInv

\* A chunk list of one item to a chunk.
LEMMA FlattenSingles ==
  ASSUME NEW S, NEW c \in Seq(Seq(S)), \A i \in 1 .. Len(c) : Len(c[i]) = 1
  PROVE  Con!FlattenSeq(c) = [i \in 1 .. Len(c) |-> c[i][1]]
<1>1. PICK m \in Nat : m = Len(c) /\ (c = <<>> => m = 0) /\ (c # <<>> => m # 0)
  OBVIOUS
<1>2. PICK t : t = [i \in 1 .. m |-> c[i][1]]
  OBVIOUS
<1>3. \A i \in 1 .. m : c[i][1] \in S
  BY <1>1
<1>4. t \in Seq(S) /\ Len(t) = m /\ \A i \in 1 .. m : t[i] = c[i][1]
  BY <1>2, <1>3
<1>5. Len(t) = IF c = <<>> THEN 0 ELSE 1 * (Len(c) - 1) + Len(c[Len(c)])
  <2>1. CASE c = <<>>
    BY <1>1, <1>4, <2>1
  <2>2. CASE c # <<>>
    <3>1. Len(c[m]) = 1
      BY <1>1, <2>2
    <3>2. 1 * (m - 1) + 1 = m
      OBVIOUS
    <3> QED BY <1>1, <1>4, <2>2, <3>1, <3>2, Zenon
  <2> QED BY <2>1, <2>2
<1>6. \A i \in 1 .. Len(c) : \A j \in 1 .. Len(c[i]) : c[i][j] = t[1 * (i - 1) + j]
  <2> SUFFICES ASSUME NEW i \in 1 .. Len(c), NEW j \in 1 .. Len(c[i])
               PROVE  c[i][j] = t[1 * (i - 1) + j]
    OBVIOUS
  <2>1. Len(c[i]) = 1
    BY Zenon
  <2>2. j \in 1 .. 1 /\ i \in 1 .. m
    BY <1>1, <2>1, Zenon
  <2>3. j = 1 /\ 1 * (i - 1) + 1 = i
    BY <2>2
  <2> QED BY <1>4, <2>2, <2>3
<1>7. \A i \in 1 .. Len(c) : Len(c[i]) >= 1 /\ Len(c[i]) <= 1 /\ (i # Len(c) => Len(c[i]) = 1)
  <2>1. 1 >= 1 /\ 1 <= 1
    OBVIOUS
  <2> QED BY <2>1, Zenon
<1>8. Chunked(S, c, 1, t)
  BY <1>4, <1>5, <1>6, <1>7, Zenon DEF Chunked
<1>9. 1 \in Nat \ {0}
  OBVIOUS
<1>10. Con!FlattenSeq(c) = t
  BY <1>8, <1>9, FlattenIsItems
<1> QED BY <1>1, <1>2, <1>10

\* Every key has a slot.
LEMMA SlotInTable ==
  ASSUME Con!ContainersFit, NEW k \in MapKeys
  PROVE  Con!Slot(k) \in 0 .. TableSize - 1
<1>1. k \in Nat /\ TableSize \in Nat \ {0}
  BY DEF Con!ContainersFit
<1> QED BY <1>1 DEF Con!Slot

\* The search finds what was inserted first for a key (map_get).
LEMMA MapGetIsDict ==
  ASSUME Con!ContainersFit, MapInv, NEW k \in MapKeys
  PROVE  Con!map_get(k) = dict[k]
<1>1. PICK slot \in 0 .. TableSize - 1 : slot = Con!Slot(k)
  BY SlotInTable
<1>2. PICK c \in Seq(Seq(Entry)), m \in Nat : c = map[slot] /\ m = Len(c)
  <2>1. map \in [0 .. TableSize - 1 -> Seq(Seq(Entry))]
    BY Zenon DEF MapInv
  <2>2. map[slot] \in Seq(Seq(Entry))
    BY <2>1
  <2> QED BY <2>2
<1>3. \A i \in 1 .. m : Len(c[i]) = 1 /\ c[i][1].value = dict[c[i][1].key] /\ c[i][1].value # 0
  BY <1>2, Zenon DEF MapInv
<1> DEFINE entries == Con!Entries(Con!Slot(k))
           found == {i \in DOMAIN entries : entries[i].key = k}
<1>4. entries = [i \in 1 .. m |-> c[i][1]]
  <2>1. \A i \in 1 .. Len(c) : Len(c[i]) = 1
    BY <1>2, <1>3
  <2>2. Con!FlattenSeq(c) = [i \in 1 .. Len(c) |-> c[i][1]]
    BY <2>1, FlattenSingles
  <2> QED BY <1>1, <1>2, <2>2 DEF Con!Entries
<1>5. DOMAIN entries = 1 .. m /\ \A i \in 1 .. m : entries[i] = c[i][1]
  <2> HIDE DEF entries
  <2> QED BY <1>4
<1>6. Con!map_get(k) = IF found = {} THEN 0 ELSE entries[Con!Min(found)].value
  BY Zenon DEF Con!map_get, Con!NoValue
<1> HIDE DEF entries
<1>7. CASE found = {}
  <2>1. dict[k] = 0
    <3>1. SUFFICES ASSUME dict[k] # 0 PROVE FALSE
      OBVIOUS
    <3>2. PICK i \in 1 .. m : c[i][1] = [key |-> k, value |-> dict[k]]
      BY <1>1, <1>2, <3>1, Zenon DEF MapInv
    <3>3. c[i][1].key = k
      BY <3>2
    <3>4. i \in found
      BY <1>5, <3>3
    <3> QED BY <1>7, <3>4
  <2> QED BY <1>6, <1>7, <2>1
<1>8. CASE found # {}
  <2>1. found \subseteq 1 .. m /\ \A i \in found : c[i][1].key = k
    BY <1>5
  <2> HIDE DEF found
  <2>2. \E x \in found : \A y \in found : x <= y
    <3>1. found \subseteq Nat
      BY <2>1
    <3> QED BY <1>8, <3>1, LeastNumber
  <2>3. Con!Min(found) \in found
    BY <2>2, Zenon DEF Con!Min
  <2>4. PICK i \in 1 .. m : i = Con!Min(found) /\ c[i][1].key = k
    BY <2>1, <2>3, Zenon
  <2>5. entries[i].value = dict[k]
    BY <1>3, <1>5, <2>4
  <2> QED BY <1>6, <1>8, <2>4, <2>5, Zenon
<1> QED BY <1>7, <1>8

\* An insertion into the map moves no entry and replaces none (map_insert).
LEMMA MapKeeps ==
  ASSUME Con!ContainersFit, MapInv, NEW k \in MapKeys, NEW v \in Nat \ {0}, Con!map_insert(k, v)
  PROVE  MapInv'
<1>1. Con!map_get(k) = dict[k]
  BY MapGetIsDict
<1>2. CASE dict[k] # 0
  <2>1. map' = map /\ dict' = dict /\ entry_refs' = entry_refs
    BY <1>1, <1>2, Zenon DEF Con!map_insert, Con!NoValue
  <2> QED BY <2>1, Zenon DEF MapInv, Con!Slot
<1>3. CASE dict[k] = 0
  <2>1. PICK slot \in 0 .. TableSize - 1 : slot = Con!Slot(k)
    BY SlotInTable
  <2>2. /\ map \in [0 .. TableSize - 1 -> Seq(Seq(Entry))]
        /\ dict \in [MapKeys -> Nat] /\ DOMAIN entry_refs = MapKeys
    BY Zenon DEF MapInv
  <2>3. PICK c \in Seq(Seq(Entry)), m \in Nat : c = map[slot] /\ m = Len(c)
    <3>1. map[slot] \in Seq(Seq(Entry))
      BY <2>2
    <3> QED BY <3>1
  <2>4. PICK entry : entry = [key |-> k, value |-> v]
    OBVIOUS
  <2>5. entry \in Entry /\ entry.key = k /\ entry.value = v
    BY <2>4 DEF Entry
  <2>6. PICK one : one = <<entry>> /\ one \in Seq(Entry) /\ Len(one) = 1 /\ one[1] = entry
    <3>1. <<entry>> \in Seq(Entry) /\ Len(<<entry>>) = 1 /\ <<entry>>[1] = entry
      BY <2>5
    <3> QED BY <3>1, Zenon
  <2>7. PICK longer : longer = Append(c, one)
    OBVIOUS
  <2>8. /\ longer \in Seq(Seq(Entry)) /\ Len(longer) = m + 1 /\ longer[m + 1] = one
        /\ \A i \in 1 .. m : longer[i] = c[i]
    BY <2>3, <2>6, <2>7, AppendAt
  <2>9. /\ map' = [map EXCEPT ![slot] = longer] /\ dict' = [dict EXCEPT ![k] = v]
        /\ entry_refs' = [entry_refs EXCEPT ![k] = <<m + 1, 1>>]
    BY <1>1, <1>3, <2>1, <2>3, <2>4, <2>6, <2>7, Zenon DEF Con!map_insert, Con!NoValue
  <2>10. /\ map' \in [0 .. TableSize - 1 -> Seq(Seq(Entry))]
         /\ dict' \in [MapKeys -> Nat] /\ DOMAIN entry_refs' = MapKeys
    BY <2>2, <2>8, <2>9
  <2>11. /\ map'[slot] = longer /\ \A s \in 0 .. TableSize - 1 : s # slot => map'[s] = map[s]
         /\ dict'[k] = v /\ \A x \in MapKeys : x # k => dict'[x] = dict[x]
         /\ entry_refs'[k] = <<m + 1, 1>>
         /\ \A x \in MapKeys : x # k => entry_refs'[x] = entry_refs[x]
    BY <2>2, <2>9
  <2>12. ASSUME NEW s \in 0 .. TableSize - 1, NEW i \in 1 .. Len(map[s])
         PROVE  /\ Len(map[s][i]) = 1
                /\ map[s][i][1].value = dict'[map[s][i][1].key] /\ map[s][i][1].value # 0
    <3>1. /\ Len(map[s][i]) = 1
          /\ map[s][i][1].value = dict[map[s][i][1].key] /\ map[s][i][1].value # 0
      BY Zenon DEF MapInv
    <3>2. map[s][i][1].key \in MapKeys
      <4>1. PICK d \in Seq(Seq(Entry)) : d = map[s]
        BY <2>2
      <4>2. d[i][1] \in Entry
        BY <3>1, <4>1
      <4> QED BY <4>1, <4>2 DEF Entry
    <3>3. map[s][i][1].key # k
      BY <1>3, <3>1, Zenon
    <3> QED BY <2>11, <3>1, <3>2, <3>3, Zenon
  <2>13. ASSUME NEW s \in 0 .. TableSize - 1, NEW i \in 1 .. Len(map'[s])
         PROVE  /\ Len(map'[s][i]) = 1
                /\ map'[s][i][1].value = dict'[map'[s][i][1].key] /\ map'[s][i][1].value # 0
    <3>1. CASE s # slot
      BY <2>11, <2>12, <3>1
    <3>2. CASE s = slot /\ i = m + 1
      <4>1. map'[s][i] = one
        BY <2>8, <2>11, <3>2, Zenon
      <4>2. v # 0
        OBVIOUS
      <4> QED BY <2>5, <2>6, <2>11, <4>1, <4>2, Zenon
    <3>3. CASE s = slot /\ i # m + 1
      <4>1. i \in 1 .. m
        BY <2>8, <2>11, <3>3
      <4>2. map'[s][i] = map[s][i] /\ i \in 1 .. Len(map[s])
        BY <2>3, <2>8, <2>11, <3>3, <4>1, Zenon
      <4> QED BY <2>12, <4>2, Zenon
    <3> QED BY <3>1, <3>2, <3>3
  <2>14. ASSUME NEW x \in MapKeys, dict'[x] # 0
         PROVE  \E i \in 1 .. Len(map'[Con!Slot(x)]) :
                  entry_refs'[x] = <<i, 1>> /\ map'[Con!Slot(x)][i][1] = [key |-> x, value |-> dict'[x]]
    <3>1. CASE x = k
      <4>1. m + 1 \in 1 .. Len(map'[slot])
        BY <2>8, <2>11
      <4>2. map'[slot][m + 1][1] = entry
        BY <2>6, <2>8, <2>11, Zenon
      <4> QED BY <2>1, <2>4, <2>11, <3>1, <4>1, <4>2, Zenon
    <3>2. CASE x # k
      <4>1. PICK s \in 0 .. TableSize - 1 : s = Con!Slot(x)
        BY SlotInTable
      <4>2. dict[x] # 0 /\ dict'[x] = dict[x] /\ entry_refs'[x] = entry_refs[x]
        BY <2>11, <2>14, <3>2, Zenon
      <4>3. PICK i \in 1 .. Len(map[s]) :
              entry_refs[x] = <<i, 1>> /\ map[s][i][1] = [key |-> x, value |-> dict[x]]
        BY <4>1, <4>2, Zenon DEF MapInv
      <4>4. i \in 1 .. Len(map'[s]) /\ map'[s][i] = map[s][i]
        <5>1. CASE s = slot
          <6>1. i \in 1 .. m /\ i \in 1 .. m + 1
            BY <2>3, <5>1
          <6> QED BY <2>3, <2>8, <2>11, <5>1, <6>1, Zenon
        <5>2. CASE s # slot
          BY <2>11, <5>2, Zenon
        <5> QED BY <5>1, <5>2
      <4> QED BY <4>1, <4>2, <4>3, <4>4, Zenon
    <3> QED BY <3>1, <3>2
  <2> QED BY <2>10, <2>13, <2>14, Zenon DEF MapInv, Con!Slot
<1> QED BY <1>2, <1>3

\* The empty list and the empty map.
LEMMA ContainersStart ==
  ASSUME Con!ContainersFit, Con!ContainersInit
  PROVE  ListInv /\ MapInv
<1>1. list = <<>> /\ inserted = <<>> /\ refs = <<>>
  BY DEF Con!ContainersInit
<1>2. ListInv
  <2>1. /\ <<>> \in Seq(Seq(Nat)) /\ <<>> \in Seq(Nat) /\ Len(<<>>) = 0
        /\ \A i \in 1 .. 0 : FALSE
    OBVIOUS
  <2>2. Chunked(Nat, <<>>, ChunkCapacity, <<>>)
    <3>1. PICK e : /\ e = <<>> /\ e \in Seq(Seq(Nat)) /\ e \in Seq(Nat) /\ Len(e) = 0
                   /\ \A i \in 1 .. Len(e) : FALSE
      <4>1. \A i \in 1 .. Len(<<>>) : FALSE
        BY <2>1
      <4> QED BY <2>1, <4>1, Zenon
    <3>2. Len(e) = IF e = <<>> THEN 0 ELSE ChunkCapacity * (Len(e) - 1) + Len(e[Len(e)])
      BY <3>1
    <3>3. Chunked(Nat, e, ChunkCapacity, e)
      BY <3>1, <3>2, Zenon DEF Chunked
    <3> QED BY <3>1, <3>3, Zenon
  <2> QED BY <1>1, <2>1, <2>2, Zenon DEF ListInv
<1>3. MapInv
  <2>1. /\ map = [s \in 0 .. TableSize - 1 |-> <<>>]
        /\ dict = [k \in MapKeys |-> 0] /\ DOMAIN entry_refs = MapKeys
    BY DEF Con!ContainersInit, Con!NoValue
  <2>2. map \in [0 .. TableSize - 1 -> Seq(Seq(Entry))] /\ dict \in [MapKeys -> Nat]
    BY <2>1
  <2>3. /\ \A s \in 0 .. TableSize - 1 : \A i \in 1 .. Len(map[s]) : FALSE
        /\ \A k \in MapKeys : dict[k] = 0
    BY <2>1
  <2> QED BY <2>1, <2>2, <2>3, Zenon DEF MapInv
<1> QED BY <1>2, <1>3

\* What the invariants say of what the callers see.
LEMMA ContainersAgree ==
  ASSUME Con!ContainersFit, ListInv, MapInv
  PROVE  ContainersExact
<1>1. PICK cap \in Nat \ {0} : cap = ChunkCapacity
  BY DEF Con!ContainersFit
<1>2. Chunked(Nat, list, ChunkCapacity, inserted)
  BY DEF ListInv
<1>3. Con!buffer_from_chunk_list = inserted
  BY <1>1, <1>2, FlattenIsItems DEF Con!buffer_from_chunk_list
<1>4. Con!Walk = inserted
  BY <1>1, <1>2, WalkIsItems
<1>5. ASSUME NEW i \in DOMAIN refs PROVE list[refs[i][1]][refs[i][2]] = inserted[i]
  <2>1. DOMAIN refs = 1 .. Len(inserted)
    <3>1. refs \in Seq(Seq(Nat)) /\ Len(refs) = Len(inserted)
      BY Zenon DEF ListInv
    <3> QED BY <3>1
  <2>2. PICK p, q : refs[i] = <<p, q>> /\ list[p][q] = inserted[i]
    BY <2>1, Zenon DEF ListInv
  <2>3. refs[i][1] = p /\ refs[i][2] = q
    BY <2>2
  <2> QED BY <2>2, <2>3, Zenon
<1>6. ASSUME NEW k \in MapKeys
      PROVE  /\ Con!map_get(k) = dict[k]
             /\ dict[k] # 0 =>
                  map[Con!Slot(k)][entry_refs[k][1]][entry_refs[k][2]] = [key |-> k, value |-> dict[k]]
  <2>1. Con!map_get(k) = dict[k]
    BY MapGetIsDict
  <2>2. ASSUME dict[k] # 0
        PROVE  map[Con!Slot(k)][entry_refs[k][1]][entry_refs[k][2]] = [key |-> k, value |-> dict[k]]
    <3>1. PICK i : entry_refs[k] = <<i, 1>> /\ map[Con!Slot(k)][i][1] = [key |-> k, value |-> dict[k]]
      BY <2>2, Zenon DEF MapInv
    <3>2. entry_refs[k][1] = i /\ entry_refs[k][2] = 1
      BY <3>1
    <3> QED BY <3>1, <3>2, Zenon
  <2> QED BY <2>1, <2>2
<1> QED BY <1>3, <1>4, <1>5, <1>6, Zenon DEF ContainersExact, Con!ContainersExact, Con!NoValue

\* Whatever is inserted in whatever order, the chunk list is the sequence of it, copied
\* or walked, the map gives each key what was inserted first for it, and no place handed
\* out ever holds another item (base/container.cpp).
THEOREM ContainersStayExact ==
  ASSUME Con!ContainersFit
  PROVE  Con!ContainersInit /\ [][Con!ContainersNext]_containerVars => []ContainersExact
<1> DEFINE Inv == ListInv /\ MapInv
<1>1. Con!ContainersInit => Inv
  BY ContainersStart
<1>2. Inv /\ [Con!ContainersNext]_containerVars => Inv'
  <2> SUFFICES ASSUME ListInv, MapInv, [Con!ContainersNext]_containerVars PROVE ListInv' /\ MapInv'
    BY Zenon
  <2>1. ASSUME NEW v \in 1 .. 2, Con!chunk_list_insert(v) PROVE ListInv' /\ MapInv'
    <3>1. v \in Nat
      OBVIOUS
    <3>2. ListInv'
      BY <2>1, <3>1, ListKeeps
    <3>3. map' = map /\ dict' = dict /\ entry_refs' = entry_refs
      BY <2>1, Zenon DEF Con!chunk_list_insert
    <3>4. MapInv'
      BY <3>3, Zenon DEF MapInv, Con!Slot
    <3> QED BY <3>2, <3>4
  <2>2. ASSUME NEW v \in 1 .. 2, NEW k \in MapKeys, Con!map_insert(k, v) PROVE ListInv' /\ MapInv'
    <3>1. v \in Nat \ {0}
      OBVIOUS
    <3>2. MapInv'
      BY <2>2, <3>1, MapKeeps
    <3>3. list' = list /\ inserted' = inserted /\ refs' = refs
      BY <2>2, Zenon DEF Con!map_insert
    <3>4. ListInv'
      BY <3>3, Zenon DEF ListInv, Chunked
    <3> QED BY <3>2, <3>4
  <2>3. CASE UNCHANGED containerVars
    BY <2>3, Zenon DEF containerVars, ListInv, MapInv, Chunked, Con!Slot
  <2> QED BY <2>1, <2>2, <2>3, Zenon DEF Con!ContainersNext
<1>3. Inv => ContainersExact
  BY ContainersAgree
<1> HIDE DEF Inv
<1> QED BY <1>1, <1>2, <1>3, PTL
=============================================================================
