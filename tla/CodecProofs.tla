----------------------------- MODULE CodecProofs -----------------------------
(***************************************************************************)
(* What a record of the store is read as, for any set of values and any    *)
(* sizes of bytes, words and rows: each reader takes back what its writer  *)
(* put down, never looks at what comes behind, and gives only what could   *)
(* have been written.                                                      *)
(***************************************************************************)
EXTENDS Codec, SequenceTheorems, WellFoundedInduction, TLAPS

----------------------------------------------------------------------------
(***************************************************************************)
(* Functions defined by recursion                                          *)
(***************************************************************************)
\* Induction over the numbers, for a set of them.
LEMMA NatSets ==
    ASSUME NEW S, 0 \in S, \A n \in Nat : n \in S => n + 1 \in S
    PROVE  Nat \subseteq S
<1> SUFFICES ASSUME Nat \ S # {} PROVE FALSE
  OBVIOUS
<1>1. PICK m \in Nat \ S : \A y \in Nat \ S : <<y, m>> \notin OpToRel(<, Nat)
  <2>1. Nat \ S \subseteq Nat
    OBVIOUS
  <2> QED
    BY <2>1, NatLessThanWellFounded, WFMin
<1>2. \A y \in Nat \ S : ~ (y < m)
  BY <1>1 DEF OpToRel
<1>3. m \in Nat /\ m \notin S /\ m # 0
  OBVIOUS
<1>4. m - 1 \in Nat /\ m - 1 < m /\ m - 1 + 1 = m
  BY <1>3
<1>5. m - 1 \in S
  BY <1>2, <1>4
<1> QED
  BY <1>3, <1>4, <1>5

\* What takes a recursion from one value to the next.
Stepping(A) == [Nat \X A -> A]

\* The first m steps of a recursion that begins with a and goes on by G.
Steps(a, G, A, m, f) ==
    /\ f \in [0 .. m -> A] /\ f[0] = a
    /\ \A n \in 0 .. m - 1 : f[n + 1] = G[<<n, f[n]>>]

\* They can be taken.
LEMMA StepsExist ==
    ASSUME NEW A, NEW a \in A, NEW G \in Stepping(A), NEW m \in Nat
    PROVE  \E f : Steps(a, G, A, m, f)
<1> DEFINE S == {k \in Nat : \E f : Steps(a, G, A, k, f)}
<1>1. 0 \in S
  <2>1. Steps(a, G, A, 0, [i \in 0 .. 0 |-> a])
    BY DEF Steps
  <2> QED
    BY <2>1
<1>2. ASSUME NEW k \in Nat, k \in S PROVE k + 1 \in S
  <2>1. PICK f : Steps(a, G, A, k, f)
    BY <1>2
  <2>2. f[k] \in A /\ f \in [0 .. k -> A] /\ f[0] = a
    BY <2>1 DEF Steps
  <2>3. G[<<k, f[k]>>] \in A
    BY <2>2 DEF Stepping
  <2> DEFINE g == [i \in 0 .. k + 1 |-> IF i = k + 1 THEN G[<<k, f[k]>>] ELSE f[i]]
  <2>4. g \in [0 .. k + 1 -> A] /\ g[0] = a
    BY <2>2, <2>3
  <2>5. g[k + 1] = G[<<k, f[k]>>] /\ \A i \in 0 .. k : g[i] = f[i]
    OBVIOUS
  <2> HIDE DEF g
  <2>6. ASSUME NEW n \in 0 .. k PROVE g[n + 1] = G[<<n, g[n]>>]
    <3>1. CASE n = k
      BY <2>5, <3>1
    <3>2. CASE n # k
      <4>1. n \in 0 .. k - 1 /\ n + 1 \in 0 .. k
        BY <3>2
      <4>2. f[n + 1] = G[<<n, f[n]>>]
        BY <2>1, <4>1 DEF Steps
      <4> QED
        BY <2>5, <4>1, <4>2
    <3> QED
      BY <3>1, <3>2
  <2>7. k + 1 - 1 = k
    OBVIOUS
  <2>8. Steps(a, G, A, k + 1, g)
    BY <2>4, <2>6, <2>7 DEF Steps
  <2> QED
    BY <2>8
<1> HIDE DEF S
<1>3. Nat \subseteq S
  BY <1>1, <1>2, NatSets
<1> QED
  BY <1>3 DEF S

\* In one way only.
LEMMA StepsAgree ==
    ASSUME NEW A, NEW a \in A, NEW G \in Stepping(A), NEW m \in Nat, NEW l \in Nat,
           m <= l, NEW f, Steps(a, G, A, m, f), NEW g, Steps(a, G, A, l, g)
    PROVE  \A i \in 0 .. m : f[i] = g[i]
<1> DEFINE S == {k \in Nat : k <= m => f[k] = g[k]}
<1>1. 0 \in S
  BY DEF Steps
<1>2. ASSUME NEW k \in Nat, k \in S PROVE k + 1 \in S
  <2>1. ASSUME k + 1 <= m PROVE f[k + 1] = g[k + 1]
    <3>1. f[k] = g[k] /\ k \in 0 .. m - 1 /\ k \in 0 .. l - 1
      BY <1>2, <2>1
    <3> QED
      BY <3>1 DEF Steps
  <2> QED
    BY <2>1
<1> HIDE DEF S
<1>3. Nat \subseteq S
  BY <1>1, <1>2, NatSets
<1> QED
  BY <1>3 DEF S

\* All of them.
Defined(a, G, A, f) ==
    /\ f \in [Nat -> A] /\ f[0] = a
    /\ \A n \in Nat : f[n + 1] = G[<<n, f[n]>>]

\* There is a function that a recursion defines.
LEMMA Recursion ==
    ASSUME NEW A, NEW a \in A, NEW G \in Stepping(A)
    PROVE  \E f : Defined(a, G, A, f)
<1> DEFINE F(m) == CHOOSE f : Steps(a, G, A, m, f)
<1>1. \A m \in Nat : Steps(a, G, A, m, F(m))
  BY StepsExist
<1> HIDE DEF F
<1> DEFINE whole == [m \in Nat |-> F(m)[m]]
<1>2. \A m \in Nat : F(m)[m] \in A
  BY <1>1 DEF Steps
<1>3. whole \in [Nat -> A]
  BY <1>2
<1>4. whole[0] = a
  BY <1>1 DEF Steps
<1>5. ASSUME NEW n \in Nat PROVE whole[n + 1] = G[<<n, whole[n]>>]
  <2>1. n + 1 \in Nat /\ n \in 0 .. n /\ n \in 0 .. n + 1 - 1 /\ n <= n + 1
    OBVIOUS
  <2>2. Steps(a, G, A, n, F(n)) /\ Steps(a, G, A, n + 1, F(n + 1))
    BY <1>1, <2>1
  <2>3. F(n)[n] = F(n + 1)[n]
    <3>1. PICK l \in Nat : l = n + 1
      OBVIOUS
    <3>2. PICK u, v : u = F(n) /\ v = F(l)
      OBVIOUS
    <3>3. Steps(a, G, A, n, u) /\ Steps(a, G, A, l, v) /\ n <= l
      BY <2>2, <3>1, <3>2
    <3>4. \A i \in 0 .. n : u[i] = v[i]
      BY <3>3, StepsAgree
    <3> QED
      BY <2>1, <3>1, <3>2, <3>4
  <2>4. F(n + 1)[n + 1] = G[<<n, F(n + 1)[n]>>]
    BY <2>1, <2>2 DEF Steps
  <2> QED
    BY <2>1, <2>3, <2>4
<1> QED
  BY <1>3, <1>4, <1>5 DEF Defined

----------------------------------------------------------------------------
(***************************************************************************)
(* Numbers and digits                                                      *)
(***************************************************************************)
\* What is assumed of the constants.
LEMMA Sizes ==
    /\ Half \in Nat /\ Half > 5 /\ Digits \in Nat /\ Digits > 1
    /\ MaxValues \in Nat /\ Second \in Nat
BY CodecAssumption

\* Numbers is what its definition says.
LEMMA NumbersIs ==
    /\ Numbers \in [Nat -> Nat]
    /\ \A n \in Nat : Numbers[n] = IF n < 2 THEN 2 ELSE Half * Numbers[n - 1]
<1> DEFINE G == [p \in Nat \X Nat |-> IF p[1] = 0 THEN 2 ELSE Half * p[2]]
<1>1. G \in Stepping(Nat)
  BY Sizes DEF Stepping
<1>2. \A n, x \in Nat : G[<<n, x>>] = IF n = 0 THEN 2 ELSE Half * x
  OBVIOUS
<1> HIDE DEF G
<1>3. PICK f : Defined(2, G, Nat, f)
  BY <1>1, Recursion
<1>4. f \in [Nat -> Nat] /\ f[0] = 2 /\ \A n \in Nat : f[n + 1] = G[<<n, f[n]>>]
  BY <1>3 DEF Defined
<1>5. \A n \in Nat : f[n] = IF n < 2 THEN 2 ELSE Half * f[n - 1]
  <2> SUFFICES ASSUME NEW n \in Nat
               PROVE  f[n] = IF n < 2 THEN 2 ELSE Half * f[n - 1]
    OBVIOUS
  <2>1. CASE n = 0
    BY <2>1, <1>4
  <2>2. CASE n # 0
    <3>1. PICK k \in Nat : k = n - 1 /\ k + 1 = n
      BY <2>2
    <3>2. f[k] \in Nat /\ f[k + 1] = G[<<k, f[k]>>]
      BY <1>4
    <3>3. f[n] = IF k = 0 THEN 2 ELSE Half * f[k]
      BY <1>2, <3>1, <3>2
    <3>4. n < 2 <=> k = 0
      BY <3>1
    <3> QED
      BY <3>1, <3>3, <3>4
  <2> QED
    BY <2>1, <2>2
<1>6. f = [n \in Nat |-> IF n < 2 THEN 2 ELSE Half * f[n - 1]]
  BY <1>4, <1>5
<1>7. Numbers = [n \in Nat |-> IF n < 2 THEN 2 ELSE Half * Numbers[n - 1]]
  BY <1>6 DEF Numbers
<1>8. \A n \in Nat : Numbers[n] = IF n < 2 THEN 2 ELSE Half * Numbers[n - 1]
  BY <1>7
<1>9. \A n \in Nat : Numbers[n] \in Nat
  <2> DEFINE S == {n \in Nat : Numbers[n] \in Nat}
  <2>1. 0 \in S
    BY <1>8
  <2>2. ASSUME NEW n \in Nat, n \in S PROVE n + 1 \in S
    <3>1. n + 1 \in Nat /\ n + 1 - 1 = n /\ Numbers[n] \in Nat
      BY <2>2
    <3>2. Numbers[n + 1] = IF n + 1 < 2 THEN 2 ELSE Half * Numbers[n]
      BY <1>8, <3>1
    <3>3. Half * Numbers[n] \in Nat
      BY <3>1, Sizes
    <3> QED
      BY <3>1, <3>2, <3>3
  <2> HIDE DEF S
  <2>3. Nat \subseteq S
    BY <2>1, <2>2, NatSets
  <2> QED
    BY <2>3 DEF S
<1> QED
  BY <1>7, <1>8, <1>9

\* One digit more.
LEMMA MoreDigits ==
    /\ Numbers[1] = 2
    /\ \A n \in Nat \ {0} : Numbers[n + 1] = Half * Numbers[n]
<1>1. ASSUME NEW n \in Nat \ {0} PROVE Numbers[n + 1] = Half * Numbers[n]
  <2>1. n + 1 \in Nat /\ ~ (n + 1 < 2) /\ n + 1 - 1 = n
    OBVIOUS
  <2> QED
    BY <2>1, NumbersIs
<1> QED
  BY <1>1, NumbersIs

\* There are numbers of any length.
LEMMA NumbersPositive == \A n \in Nat : Numbers[n] \in Nat /\ Numbers[n] > 0
<1> DEFINE S == {n \in Nat : Numbers[n] > 0}
<1>1. 0 \in S
  BY NumbersIs
<1>2. ASSUME NEW n \in Nat, n \in S PROVE n + 1 \in S
  <2>1. CASE n = 0
    BY <2>1, MoreDigits
  <2>2. CASE n # 0
    <3>1. Numbers[n + 1] = Half * Numbers[n] /\ Numbers[n] \in Nat /\ Numbers[n] > 0
      BY <1>2, <2>2, MoreDigits, NumbersIs
    <3>2. Half * Numbers[n] > 0
      BY <3>1, Sizes
    <3> QED
      BY <3>1, <3>2
  <2> QED
    BY <2>1, <2>2
<1> HIDE DEF S
<1>3. Nat \subseteq S
  BY <1>1, <1>2, NatSets
<1> QED
  BY <1>3, NumbersIs DEF S

\* The digits of a product.
LEMMA OneDigit ==
    ASSUME NEW h \in Nat, h > 0, NEW v \in Nat
    PROVE  /\ v \div h \in Nat /\ v % h \in 0 .. h - 1
           /\ v = h * (v \div h) + (v % h)
OBVIOUS

\* A number below a product has fewer of the factor in it.
LEMMA Within ==
    ASSUME NEW h \in Nat, h > 0, NEW v \in Nat, NEW n \in Nat, v < h * n
    PROVE  v \div h < n
<1>1. PICK q \in Nat, m \in 0 .. h - 1 : q = v \div h /\ v = h * q + m
  BY OneDigit
<1> SUFFICES ASSUME ~ (q < n) PROVE FALSE
  BY <1>1
<1>2. PICK d \in Nat : q = n + d
  <2>1. q - n \in Nat /\ q = n + (q - n)
    OBVIOUS
  <2> QED
    BY <2>1
<1>3. h * q = h * n + h * d /\ h * d \in Nat /\ h * n \in Nat
  BY <1>2
<1> QED
  BY <1>1, <1>3

\* A number is less than the digits it takes hold.
LEMMA Composed ==
    ASSUME NEW h \in Nat, h > 0, NEW n \in Nat, NEW q \in 0 .. n - 1, NEW m \in 0 .. h - 1
    PROVE  /\ m + h * q \in 0 .. h * n - 1
           /\ (m + h * q) \div h = q /\ (m + h * q) % h = m
<1>1. PICK d \in Nat : n = q + 1 + d
  <2>1. n - q - 1 \in Nat /\ n = q + 1 + (n - q - 1)
    OBVIOUS
  <2> QED
    BY <2>1
<1>2. h * n = h * q + h + h * d /\ h * q \in Nat /\ h * d \in Nat
  BY <1>1
<1> QED
  BY <1>2

\* A word holds every digit, and as many numbers of either sign.
LEMMA WordIs ==
    /\ Word \in Nat /\ Word > 2 * 5 /\ Half < Word
    /\ \E w \in Nat : Word = 2 * w /\ Word \div 2 = w
<1> DEFINE S == {n \in Nat : \E w \in Nat : Numbers[n + 1] = 2 * w /\ w > 0}
<1>1. 0 \in S
  BY MoreDigits
<1>2. ASSUME NEW n \in Nat, n \in S PROVE n + 1 \in S
  <2>1. PICK w \in Nat : Numbers[n + 1] = 2 * w /\ w > 0
    BY <1>2
  <2>2. n + 1 \in Nat \ {0} /\ n + 1 + 1 = n + 2
    OBVIOUS
  <2>3. Numbers[n + 1 + 1] = Half * (2 * w)
    BY <2>1, <2>2, MoreDigits
  <2>4. Half * (2 * w) = 2 * (Half * w) /\ Half * w \in Nat /\ Half * w > 0
    BY <2>1, Sizes
  <2> QED
    BY <2>3, <2>4
<1> HIDE DEF S
<1>3. Nat \subseteq S
  BY <1>1, <1>2, NatSets
<1>4. PICK k \in Nat : Digits = k + 2
  <2>1. Digits - 2 \in Nat /\ Digits = (Digits - 2) + 2
    BY Sizes
  <2> QED
    BY <2>1
<1>5. PICK w \in Nat : Word = 2 * w
  <2>1. k + 1 \in S /\ k + 1 + 1 = Digits
    BY <1>3, <1>4
  <2>2. PICK j \in Nat : j = k + 1 /\ j \in S
    BY <2>1
  <2> QED
    BY <2>1, <2>2 DEF S, Word
<1>6. Word = Half * Numbers[k + 1]
  <2>1. k + 1 \in Nat \ {0} /\ k + 1 + 1 = Digits
    BY <1>4
  <2> QED
    BY <2>1, MoreDigits DEF Word
<1>7. PICK u \in Nat : Numbers[k + 1] = 2 * u /\ u > 0
  BY <1>3 DEF S
<1>8. Word = 2 * (Half * u) /\ Half * u \in Nat /\ Half * u >= Half
  BY <1>6, <1>7, Sizes
<1>9. Word \div 2 = w
  BY <1>5
<1> QED
  BY <1>5, <1>8, <1>9, Sizes

\* The bytes of a number, given those of smaller ones.
DigitsFrom(q, v) ==
    IF v < Half THEN <<v>> ELSE <<(v % Half) + Half>> \o q[v \div Half]

\* A number without its lowest digit.
LEMMA Shorter ==
    ASSUME NEW v \in Unsigned64
    PROVE  /\ v \in Nat /\ v \div Half \in Unsigned64
           /\ v >= Half => v \div Half < v
           /\ (v % Half) + Half \in Byte
           /\ v < Half => v \in Byte
<1>1. v \in Nat /\ v < Word /\ Word \in Nat
  BY WordIs DEF Unsigned64
<1>2. PICK q \in Nat, m \in 0 .. Half - 1 : q = v \div Half /\ m = v % Half /\ v = Half * q + m
  BY <1>1, OneDigit, Sizes
<1>3. q <= v /\ (q > 0 => q < v)
  <2>1. Half * q = q + (Half - 1) * q /\ (Half - 1) * q \in Nat
    BY Sizes
  <2>2. q > 0 => (Half - 1) * q > 0
    BY Sizes
  <2> QED
    BY <1>2, <2>1, <2>2
<1>4. v >= Half => q > 0
  BY <1>2, Sizes
<1>5. m + Half \in Byte /\ (v < Half => v \in Byte)
  BY <1>1, <1>2, Sizes DEF Byte
<1> QED
  BY <1>1, <1>2, <1>3, <1>4, <1>5 DEF Unsigned64

\* They are bytes.
LEMMA DigitsFromType ==
    ASSUME NEW q \in [Unsigned64 -> Seq(Byte)], NEW v \in Unsigned64
    PROVE  DigitsFrom(q, v) \in Seq(Byte)
<1>1. v \div Half \in Unsigned64 /\ (v % Half) + Half \in Byte /\ (v < Half => v \in Byte)
  BY Shorter
<1>2. q[v \div Half] \in Seq(Byte)
  BY <1>1
<1>3. <<(v % Half) + Half>> \in Seq(Byte)
  BY <1>1
<1>4. <<(v % Half) + Half>> \o q[v \div Half] \in Seq(Byte)
  BY <1>2, <1>3, ConcatProperties
<1> QED
  BY <1>1, <1>4 DEF DigitsFrom

\* Uvarint is what its definition says.
LEMMA UvarintIs ==
    /\ Uvarint \in [Unsigned64 -> Seq(Byte)]
    /\ \A v \in Unsigned64 : Uvarint[v] = DigitsFrom(Uvarint, v)
<1> DEFINE A == [Unsigned64 -> Seq(Byte)]
<1> DEFINE G == [p \in Nat \X A |-> [v \in Unsigned64 |-> DigitsFrom(p[2], v)]]
<1> DEFINE none == [v \in Unsigned64 |-> <<>>]
<1>1. G \in Stepping(A)
  <2>1. ASSUME NEW p \in Nat \X A PROVE [v \in Unsigned64 |-> DigitsFrom(p[2], v)] \in A
    BY DigitsFromType
  <2> QED
    BY <2>1 DEF Stepping
<1>2. \A n \in Nat, q \in A : G[<<n, q>>] = [v \in Unsigned64 |-> DigitsFrom(q, v)]
  OBVIOUS
<1>3. none \in A
  OBVIOUS
<1> HIDE DEF G, none, A
<1>4. PICK f : Defined(none, G, A, f)
  BY <1>1, <1>3, Recursion
<1>5. \A n \in Nat : f[n] \in A /\ f[n + 1] = G[<<n, f[n]>>]
  BY <1>4 DEF Defined
<1>6. \A n \in Nat, v \in Unsigned64 : f[n + 1][v] = DigitsFrom(f[n], v)
  <2> SUFFICES ASSUME NEW n \in Nat, NEW v \in Unsigned64
               PROVE  f[n + 1][v] = DigitsFrom(f[n], v)
    OBVIOUS
  <2>1. f[n] \in A /\ f[n + 1] = G[<<n, f[n]>>]
    BY <1>5
  <2>2. f[n + 1] = [w \in Unsigned64 |-> DigitsFrom(f[n], w)]
    BY <1>2, <2>1
  <2> QED
    BY <2>2
<1> DEFINE S == {n \in Nat : \A v \in Unsigned64 : v < n => f[n + 1][v] = f[n][v]}
<1>0. \A v \in Unsigned64 : ~ (v < 0)
  BY DEF Unsigned64
<1>7. 0 \in S
  BY <1>0
<1>8. ASSUME NEW n \in Nat, n \in S PROVE n + 1 \in S
  <2>1. PICK l \in Nat : l = n + 1
    OBVIOUS
  <2>2. ASSUME NEW v \in Unsigned64, v < l PROVE f[l + 1][v] = f[l][v]
    <3>1. f[l + 1][v] = DigitsFrom(f[l], v) /\ f[l][v] = DigitsFrom(f[n], v)
      BY <1>6, <2>1
    <3>2. PICK d : d = v \div Half
      OBVIOUS
    <3>3. v >= Half => d < n /\ d \in Unsigned64
      BY <2>1, <2>2, <3>2, Shorter
    <3>4. v >= Half => f[l][d] = f[n][d]
      BY <1>8, <2>1, <3>3
    <3>5. v \in Nat /\ Half \in Nat
      BY Shorter, Sizes
    <3>6. CASE v < Half
      BY <3>1, <3>6 DEF DigitsFrom
    <3>7. CASE v >= Half
      BY <3>1, <3>2, <3>4, <3>7 DEF DigitsFrom
    <3> QED
      BY <3>5, <3>6, <3>7
  <2> QED
    BY <2>1, <2>2
<1> HIDE DEF S
<1>9. Nat \subseteq S
  BY <1>7, <1>8, NatSets
<1>10. PICK u : u = f[Word]
  OBVIOUS
<1>11. u \in A /\ \A v \in Unsigned64 : u[v] = DigitsFrom(u, v)
  <2>1. Word \in Nat /\ Word \in S /\ \A v \in Unsigned64 : v < Word
    BY <1>9, WordIs DEF Unsigned64
  <2>2. \A v \in Unsigned64 : f[Word + 1][v] = f[Word][v]
    BY <2>1 DEF S
  <2> QED
    BY <1>5, <1>6, <1>10, <2>1, <2>2
<1>12. u = [v \in Unsigned64 |-> IF v < Half THEN <<v>> ELSE <<(v % Half) + Half>> \o u[v \div Half]]
  BY <1>11 DEF DigitsFrom, A
<1>13. Uvarint = [v \in Unsigned64 |->
                    IF v < Half THEN <<v>> ELSE <<(v % Half) + Half>> \o Uvarint[v \div Half]]
  BY <1>12 DEF Uvarint
<1>14. \A v \in Unsigned64 : Uvarint[v] = DigitsFrom(Uvarint, v)
  BY <1>13 DEF DigitsFrom
<1>15. \A v \in Unsigned64 : Uvarint[v] \in Seq(Byte)
  <2> DEFINE T == {n \in Nat : \A v \in Unsigned64 : v < n => Uvarint[v] \in Seq(Byte)}
  <2>1. 0 \in T
    BY <1>0
  <2>2. ASSUME NEW n \in Nat, n \in T PROVE n + 1 \in T
    <3>1. ASSUME NEW v \in Unsigned64, v < n + 1 PROVE Uvarint[v] \in Seq(Byte)
      <4>0. PICK d, b : d = v \div Half /\ b = (v % Half) + Half
        OBVIOUS
      <4>1. /\ v \in Nat /\ Half \in Nat /\ d \in Unsigned64
            /\ v >= Half => d < n
            /\ b \in Byte /\ (v < Half => v \in Byte)
        BY <3>1, <4>0, Shorter, Sizes
      <4>2. CASE v < Half
        <5>1. Uvarint[v] = <<v>> /\ v \in Byte
          BY <1>14, <4>1, <4>2 DEF DigitsFrom
        <5> QED
          BY <5>1
      <4>3. CASE v >= Half
        <5>1. Uvarint[d] \in Seq(Byte) /\ <<b>> \in Seq(Byte)
          BY <2>2, <4>1, <4>3
        <5>2. <<b>> \o Uvarint[d] \in Seq(Byte)
          BY <5>1, ConcatProperties
        <5>3. ~ (v < Half)
          BY <4>1, <4>3
        <5>4. Uvarint[v] = <<b>> \o Uvarint[d]
          BY <1>14, <4>0, <5>3 DEF DigitsFrom
        <5> QED
          BY <5>2, <5>4
      <4> QED
        BY <4>1, <4>2, <4>3
    <3> QED
      BY <3>1
  <2> HIDE DEF T
  <2>3. Nat \subseteq T
    BY <2>1, <2>2, NatSets
  <2>4. Word \in T /\ \A v \in Unsigned64 : v < Word
    BY <2>3, WordIs DEF Unsigned64
  <2> QED
    BY <2>4 DEF T
<1> QED
  BY <1>13, <1>14, <1>15

----------------------------------------------------------------------------
(***************************************************************************)
(* Reading                                                                 *)
(*                                                                         *)
(* Of each reader three things are shown: that it refuses, or gives what   *)
(* its writer could have written and leaves bytes; that more bytes behind  *)
(* the record change nothing but what is left (Carries); and that it takes *)
(* back what its writer wrote and leaves the rest.                         *)
(***************************************************************************)
\* What a read of one of X gives.
Reading(X) == {Refused} \cup {Got(x, rest) : x \in X, rest \in Seq(Byte)}

\* s is r with q behind what it leaves.
Carries(r, s, q) == r.ok => s = Got(r.is, r.rest \o q)

\* What was got can be looked at.
LEMMA GotIs ==
    ASSUME NEW r, NEW x, NEW t, r = Got(x, t)
    PROVE  r.ok = TRUE /\ r.is = x /\ r.rest = t
<1>1. Got(x, t).ok = TRUE /\ Got(x, t).is = x /\ Got(x, t).rest = t
  BY DEF Got
<1> QED
  BY <1>1

\* A refusal is not ok.
LEMMA RefusedIs == Refused.ok = FALSE
BY DEF Refused

\* What was read is a refusal or has all its fields.
LEMMA ReadingIs ==
    ASSUME NEW X, NEW r \in Reading(X)
    PROVE  \/ r = Refused /\ r.ok = FALSE
           \/ /\ r.ok = TRUE /\ r.is \in X /\ r.rest \in Seq(Byte)
              /\ r = Got(r.is, r.rest)
<1>1. CASE r = Refused
  BY <1>1, RefusedIs
<1>2. CASE r # Refused
  <2>1. PICK x \in X, t \in Seq(Byte) : r = Got(x, t)
    BY <1>2 DEF Reading
  <2>2. r.ok = TRUE /\ r.is = x /\ r.rest = t
    BY <2>1 DEF Got
  <2> QED
    BY <2>1, <2>2
<1> QED
  BY <1>1, <1>2

\* What was got is a reading.
LEMMA GotReads ==
    ASSUME NEW X, NEW x \in X, NEW t \in Seq(Byte)
    PROVE  Got(x, t) \in Reading(X)
BY DEF Reading

\* So is a refusal.
LEMMA RefusedReads == ASSUME NEW X PROVE Refused \in Reading(X)
BY DEF Reading

\* The two parts of a sequence put together.
LEMMA FrontAndBack ==
    ASSUME NEW s \in Seq(Byte), NEW t \in Seq(Byte)
    PROVE  /\ SubSeq(s \o t, 1, Len(s)) = s
           /\ SubSeq(s \o t, Len(s) + 1, Len(s \o t)) = t
<1>1. /\ Len(s) \in Nat /\ Len(t) \in Nat /\ Len(s \o t) = Len(s) + Len(t)
      /\ s \o t \in Seq(Byte)
  BY LenProperties, ConcatProperties
<1>2. SubSeq(s \o t, 1, Len(s)) = s
  <2>1. CASE Len(s) = 0
    <3>1. s = <<>>
      BY <2>1, EmptySeq
    <3>2. SubSeq(s \o t, 1, Len(s)) = <<>>
      BY <2>1, SubSeqEmpty
    <3> QED
      BY <3>1, <3>2
  <2>2. CASE Len(s) # 0
    <3>1. 1 \in 1 .. Len(s) /\ Len(s) \in 1 .. Len(s)
      BY <1>1, <2>2
    <3>2. SubSeq(s \o t, 1, Len(s)) = SubSeq(s, 1, Len(s))
      BY <3>1, SubSeqOfConcat1
    <3> QED
      BY <3>2, SubSeqFull
  <2> QED
    BY <2>1, <2>2
<1>3. SubSeq(s \o t, Len(s) + 1, Len(s \o t)) = t
  <2>1. CASE Len(t) = 0
    <3>1. t = <<>>
      BY <2>1, EmptySeq
    <3>2. SubSeq(s \o t, Len(s) + 1, Len(s)) = <<>>
      <4>1. Len(s) + 1 \in Int /\ Len(s) \in Int /\ Len(s) < Len(s) + 1
        BY <1>1
      <4> QED
        BY <4>1, SubSeqEmpty
    <3>3. Len(s \o t) = Len(s)
      BY <1>1, <2>1
    <3> QED
      BY <3>1, <3>2, <3>3
  <2>2. CASE Len(t) # 0
    <3>1. PICK m, n : m = Len(s) + 1 /\ n = Len(s) + Len(t)
      OBVIOUS
    <3>2. /\ m \in Len(s) + 1 .. Len(s) + Len(t) /\ n \in Len(s) + 1 .. Len(s) + Len(t)
          /\ m - Len(s) = 1 /\ n - Len(s) = Len(t)
      BY <1>1, <2>2, <3>1
    <3>3. SubSeq(s \o t, m, n) = SubSeq(t, m - Len(s), n - Len(s))
      BY <3>2, SubSeqOfConcat2
    <3>4. SubSeq(t, 1, Len(t)) = t
      BY SubSeqFull
    <3> QED
      BY <1>1, <3>1, <3>2, <3>3, <3>4
  <2> QED
    BY <2>1, <2>2
<1> QED
  BY <1>2, <1>3

\* A sequence cut in two.
LEMMA CutInTwo ==
    ASSUME NEW b \in Seq(Byte), NEW n \in 0 .. Len(b)
    PROVE  \E s, t \in Seq(Byte) :
              /\ Len(s) = n /\ b = s \o t
              /\ s = SubSeq(b, 1, n) /\ t = SubSeq(b, n + 1, Len(b))
<1>1. Len(b) \in Nat /\ \A i \in 1 .. Len(b) : b[i] \in Byte
  BY LenProperties
<1>2. SubSeq(b, 1, n) \in Seq(Byte) /\ Len(SubSeq(b, 1, n)) = n
  <2>1. \A i \in 1 .. n : b[i] \in Byte
    BY <1>1
  <2>2. /\ SubSeq(b, 1, n) \in Seq(Byte)
        /\ Len(SubSeq(b, 1, n)) = IF 1 <= n THEN n - 1 + 1 ELSE 0
    BY <1>1, <2>1, SubSeqProperties
  <2> QED
    BY <2>2
<1>3. SubSeq(b, n + 1, Len(b)) \in Seq(Byte)
  <2>1. PICK m \in Int : m = n + 1
    BY <1>1
  <2>2. \A i \in m .. Len(b) : b[i] \in Byte
    BY <1>1, <2>1
  <2>3. SubSeq(b, m, Len(b)) \in Seq(Byte)
    BY <1>1, <2>2, SubSeqProperties
  <2> QED
    BY <2>1, <2>3
<1>4. SubSeq(b, 1, n) \o SubSeq(b, n + 1, Len(b)) = b
  <2>1. 1 \in 1 .. Len(b) + 1 /\ n \in 1 - 1 .. Len(b) /\ Len(b) \in n .. Len(b)
    BY <1>1
  <2>2. SubSeq(b, 1, n) \o SubSeq(b, n + 1, Len(b)) = SubSeq(b, 1, Len(b))
    BY <2>1, ConcatAdjacentSubSeq
  <2> QED
    BY <2>2, SubSeqFull
<1> QED
  BY <1>2, <1>3, <1>4

\* As many bytes as asked for.
Exactly(n) == {s \in Seq(Byte) : Len(s) = n}

\* The front of the bytes is taken, and the rest left.
LEMMA TakenBack ==
    ASSUME NEW s \in Seq(Byte), NEW t \in Seq(Byte)
    PROVE  Taken(Len(s), s \o t) = Got(s, t)
<1>1. Len(s) \in Nat /\ Len(t) \in Nat /\ Len(s \o t) = Len(s) + Len(t)
  BY LenProperties, ConcatProperties
<1>2. ~ (Len(s) > Len(s \o t))
  BY <1>1
<1> QED
  BY <1>2, FrontAndBack DEF Taken

\* What is taken has the length asked for.
LEMMA TakenReads ==
    ASSUME NEW b \in Seq(Byte), NEW n \in Nat
    PROVE  /\ Taken(n, b) \in Reading(Exactly(n))
           /\ \A q \in Seq(Byte) : Carries(Taken(n, b), Taken(n, b \o q), q)
<1>1. Len(b) \in Nat
  BY LenProperties
<1>2. CASE n > Len(b)
  <2>1. Taken(n, b) = Refused
    BY <1>2 DEF Taken
  <2> QED
    BY <2>1, RefusedReads, RefusedIs DEF Carries
<1>3. CASE ~ (n > Len(b))
  <2>1. n \in 0 .. Len(b)
    BY <1>1, <1>3
  <2>2. PICK s, t \in Seq(Byte) : Len(s) = n /\ b = s \o t
    BY <2>1, CutInTwo
  <2>3. Taken(n, b) = Got(s, t)
    BY <2>2, TakenBack
  <2>4. ASSUME NEW q \in Seq(Byte) PROVE Taken(n, b \o q) = Got(s, t \o q)
    <3>1. b \o q = s \o (t \o q) /\ t \o q \in Seq(Byte)
      BY <2>2, ConcatAssociative, ConcatProperties
    <3> QED
      BY <2>2, <3>1, TakenBack
  <2>5. s \in Exactly(n)
    BY <2>2 DEF Exactly
  <2>6. Taken(n, b) \in Reading(Exactly(n))
    BY <2>3, <2>5, GotReads
  <2>7. Taken(n, b).is = s /\ Taken(n, b).rest = t
    BY <2>3, GotIs
  <2>8. \A q \in Seq(Byte) : Carries(Taken(n, b), Taken(n, b \o q), q)
    BY <2>4, <2>7 DEF Carries
  <2> QED
    BY <2>6, <2>8
<1> QED
  BY <1>2, <1>3

----------------------------------------------------------------------------
(***************************************************************************)
(* A byte                                                                  *)
(***************************************************************************)
\* A byte is read, whatever comes behind it.
LEMMA ByteReads ==
    ASSUME NEW b \in Seq(Byte)
    PROVE  /\ ReadByte(b) \in Reading(Byte)
           /\ \A q \in Seq(Byte) : Carries(ReadByte(b), ReadByte(b \o q), q)
<1>1. PICK r : r = Taken(1, b)
  OBVIOUS
<1>2. /\ r \in Reading(Exactly(1))
      /\ \A q \in Seq(Byte) : Carries(r, Taken(1, b \o q), q)
  BY <1>1, TakenReads
<1>3. CASE r = Refused /\ r.ok = FALSE
  <2>1. ReadByte(b) = Refused
    BY <1>1, <1>3 DEF ReadByte, Then
  <2> QED
    BY <2>1, RefusedReads, RefusedIs DEF Carries
<1>4. CASE r.ok = TRUE /\ r.is \in Exactly(1) /\ r.rest \in Seq(Byte)
  <2>1. ReadByte(b) = Got(r.is[1], r.rest)
    BY <1>1, <1>4 DEF ReadByte, Then
  <2>2. r.is[1] \in Byte
    BY <1>4 DEF Exactly
  <2>3. ASSUME NEW q \in Seq(Byte) PROVE Carries(ReadByte(b), ReadByte(b \o q), q)
    <3>1. Taken(1, b \o q) = Got(r.is, r.rest \o q)
      BY <1>2, <1>4 DEF Carries
    <3>2. PICK s : s = Taken(1, b \o q) /\ s.ok = TRUE /\ s.is = r.is /\ s.rest = r.rest \o q
      BY <3>1 DEF Got
    <3>3. ReadByte(b \o q) = Got(r.is[1], r.rest \o q)
      BY <3>2 DEF ReadByte, Then
    <3>4. ReadByte(b).is = r.is[1] /\ ReadByte(b).rest = r.rest
      BY <2>1 DEF Got
    <3> QED
      BY <3>3, <3>4 DEF Carries
  <2>4. ReadByte(b) \in Reading(Byte)
    BY <1>4, <2>1, <2>2, GotReads
  <2> QED
    BY <2>3, <2>4
<1> QED
  BY <1>2, <1>3, <1>4, ReadingIs

\* The byte in front is the one that is read.
LEMMA ByteBack ==
    ASSUME NEW c \in Byte, NEW t \in Seq(Byte)
    PROVE  ReadByte(<<c>> \o t) = Got(c, t)
<1>1. PICK s : s = <<c>>
  OBVIOUS
<1>2. s \in Seq(Byte) /\ Len(s) = 1 /\ s[1] = c
  BY <1>1
<1>3. Taken(1, s \o t) = Got(s, t)
  BY <1>2, TakenBack
<1>4. PICK r : r = Taken(1, s \o t) /\ r.ok = TRUE /\ r.is = s /\ r.rest = t
  BY <1>3, GotIs
<1>5. ReadByte(s \o t) = Got(s[1], t)
  BY <1>4 DEF ReadByte, Then
<1> QED
  BY <1>1, <1>2, <1>5

----------------------------------------------------------------------------
(***************************************************************************)
(* A number                                                                *)
(***************************************************************************)
\* A number read with room for so many digits, given how its rest is.
DigitsRead(room, q, b) ==
    Then(ReadByte(b), LAMBDA first, rest :
        IF first < Half
        THEN IF room = 1 /\ first > 1 THEN Refused ELSE Got(first, rest)
        ELSE IF room = 1 THEN Refused
        ELSE Then(q[rest], LAMBDA more, left :
                Got(first - Half + Half * more, left)))

\* Case by case.
LEMMA DigitsReadIs ==
    ASSUME NEW room, NEW q, NEW b, NEW c, NEW t
    PROVE  /\ ReadByte(b) = Refused => DigitsRead(room, q, b) = Refused
           /\ ReadByte(b) = Got(c, t) =>
                 /\ c < Half /\ room = 1 /\ c > 1 => DigitsRead(room, q, b) = Refused
                 /\ c < Half /\ ~ (room = 1 /\ c > 1) => DigitsRead(room, q, b) = Got(c, t)
                 /\ ~ (c < Half) /\ room = 1 => DigitsRead(room, q, b) = Refused
                 /\ ~ (c < Half) /\ room # 1 /\ q[t] = Refused => DigitsRead(room, q, b) = Refused
                 /\ ~ (c < Half) /\ room # 1 =>
                       \A v, u : q[t] = Got(v, u) =>
                          DigitsRead(room, q, b) = Got(c - Half + Half * v, u)
<1>1. ASSUME ReadByte(b) = Refused PROVE DigitsRead(room, q, b) = Refused
  BY <1>1, RefusedIs DEF DigitsRead, Then
<1>2. ASSUME ReadByte(b) = Got(c, t)
      PROVE  DigitsRead(room, q, b) =
                IF c < Half
                THEN IF room = 1 /\ c > 1 THEN Refused ELSE Got(c, t)
                ELSE IF room = 1 THEN Refused
                ELSE IF q[t].ok THEN Got(c - Half + Half * q[t].is, q[t].rest) ELSE q[t]
  <2>1. PICK r : r = ReadByte(b) /\ r.ok = TRUE /\ r.is = c /\ r.rest = t
    <3>1. PICK r : r = ReadByte(b)
      OBVIOUS
    <3>2. r.ok = TRUE /\ r.is = c /\ r.rest = t
      BY <1>2, <3>1 DEF Got
    <3> QED
      BY <3>1, <3>2, Zenon
  <2>2. DigitsRead(room, q, b) =
           IF c < Half
           THEN IF room = 1 /\ c > 1 THEN Refused ELSE Got(c, t)
           ELSE IF room = 1 THEN Refused
           ELSE Then(q[t], LAMBDA more, left : Got(c - Half + Half * more, left))
    BY <2>1, Zenon DEF DigitsRead, Then
  <2> QED
    BY <2>2, Zenon DEF Then
<1>3. q[t] = Refused => q[t].ok = FALSE
  BY RefusedIs
<1>4. ASSUME NEW v, NEW u, q[t] = Got(v, u)
      PROVE  q[t].ok = TRUE /\ q[t].is = v /\ q[t].rest = u
  BY <1>4 DEF Got
<1> QED
  BY <1>1, <1>2, <1>3, <1>4

\* What is read of one digit and of the rest is a number.
LEMMA DigitsReadType ==
    ASSUME NEW n \in Nat, NEW q \in [Seq(Byte) -> Reading(Nat)], NEW b \in Seq(Byte)
    PROVE  DigitsRead(n, q, b) \in Reading(Nat)
<1>1. ReadByte(b) \in Reading(Byte)
  BY ByteReads
<1>2. CASE ReadByte(b) = Refused
  BY <1>2, DigitsReadIs, RefusedReads
<1>3. ASSUME NEW c \in Byte, NEW t \in Seq(Byte), ReadByte(b) = Got(c, t)
      PROVE  DigitsRead(n, q, b) \in Reading(Nat)
  <2>1. c \in Nat /\ Half \in Nat
    BY Sizes DEF Byte
  <2>2. Got(c, t) \in Reading(Nat)
    BY <2>1, GotReads
  <2>3. CASE c < Half \/ n = 1 \/ q[t] = Refused
    BY <1>3, <2>2, <2>3, DigitsReadIs, RefusedReads
  <2>4. CASE ~ (c < Half) /\ n # 1 /\ q[t] # Refused
    <3>1. q[t] \in Reading(Nat)
      OBVIOUS
    <3>2. PICK v \in Nat, u \in Seq(Byte) : q[t] = Got(v, u)
      BY <2>4, <3>1 DEF Reading
    <3>3. DigitsRead(n, q, b) = Got(c - Half + Half * v, u)
      BY <1>3, <2>4, <3>2, DigitsReadIs
    <3>4. c - Half + Half * v \in Nat
      <4>1. Half * v \in Nat /\ c - Half \in Nat
        BY <2>1, <2>4
      <4> QED
        BY <4>1
    <3> QED
      BY <3>3, <3>4, GotReads
  <2> QED
    BY <2>3, <2>4
<1> QED
  BY <1>1, <1>2, <1>3 DEF Reading

\* ReadDigits is what its definition says.
LEMMA ReadDigitsIs ==
    \A room \in 1 .. Digits, b \in Seq(Byte) :
        ReadDigits[room][b] = DigitsRead(room, ReadDigits[room - 1], b)
<1> DEFINE A == [Seq(Byte) -> Reading(Nat)]
<1> DEFINE G == [p \in Nat \X A |-> [b \in Seq(Byte) |-> DigitsRead(p[1], p[2], b)]]
<1> DEFINE none == [b \in Seq(Byte) |-> Refused]
<1>1. ASSUME NEW n \in Nat, NEW q \in A, NEW b \in Seq(Byte)
      PROVE  DigitsRead(n, q, b) \in Reading(Nat)
  BY DigitsReadType
<1>2. G \in Stepping(A)
  <2>1. \A p \in Nat \X A : [b \in Seq(Byte) |-> DigitsRead(p[1], p[2], b)] \in A
    BY <1>1
  <2> QED
    BY <2>1 DEF Stepping
<1>3. \A n \in Nat, q \in A : G[<<n, q>>] = [b \in Seq(Byte) |-> DigitsRead(n, q, b)]
  OBVIOUS
<1>4. none \in A
  BY RefusedReads
<1> HIDE DEF G, none, A
<1>5. PICK f : Defined(none, G, A, f)
  BY <1>2, <1>4, Recursion
<1>6. \A n \in Nat : f[n] \in A /\ f[n + 1] = G[<<n, f[n]>>]
  BY <1>5 DEF Defined
<1> DEFINE g == [room \in 1 .. Digits |-> f[room + 1]]
<1>7. ASSUME NEW room \in 1 .. Digits, NEW b \in Seq(Byte)
      PROVE  g[room][b] = DigitsRead(room, g[room - 1], b)
  <2>1. room \in Nat
    BY Sizes
  <2>2. f[room + 1] = [c \in Seq(Byte) |-> DigitsRead(room, f[room], c)]
    <3>1. f[room] \in A /\ f[room + 1] = G[<<room, f[room]>>]
      BY <1>6, <2>1
    <3> QED
      BY <1>3, <2>1, <3>1
  <2>3. g[room][b] = DigitsRead(room, f[room], b)
    BY <2>2
  <2>4. CASE room = 1
    BY <2>3, <2>4 DEF DigitsRead, Then
  <2>5. CASE room # 1
    <3>1. room - 1 \in 1 .. Digits /\ room - 1 + 1 = room
      BY <2>5, Sizes
    <3>2. g[room - 1] = f[room]
      BY <3>1
    <3> QED
      BY <2>3, <3>2
  <2> QED
    BY <2>4, <2>5
<1>8. \A room \in 1 .. Digits :
         g[room] = [b \in Seq(Byte) |-> DigitsRead(room, g[room - 1], b)]
  <2> SUFFICES ASSUME NEW room \in 1 .. Digits
               PROVE  g[room] = [b \in Seq(Byte) |-> DigitsRead(room, g[room - 1], b)]
    OBVIOUS
  <2>1. room \in Nat /\ g[room] = f[room + 1]
    BY Sizes
  <2>2. g[room] = [c \in Seq(Byte) |-> DigitsRead(room, f[room], c)]
    <3>1. f[room] \in A /\ f[room + 1] = G[<<room, f[room]>>]
      BY <1>6, <2>1
    <3>2. f[room + 1] = [c \in Seq(Byte) |-> DigitsRead(room, f[room], c)]
      BY <1>3, <2>1, <3>1
    <3> QED
      BY <2>1, <3>2
  <2> QED
    BY <1>7, <2>2
<1>9. g = [room \in 1 .. Digits |-> [b \in Seq(Byte) |-> DigitsRead(room, g[room - 1], b)]]
  BY <1>8
<1> HIDE DEF g
<1>10. ReadDigits = [room \in 1 .. Digits |->
                       [b \in Seq(Byte) |-> DigitsRead(room, ReadDigits[room - 1], b)]]
  BY <1>9 DEF ReadDigits, DigitsRead
<1>11. ASSUME NEW room \in 1 .. Digits, NEW b \in Seq(Byte)
       PROVE  ReadDigits[room][b] = DigitsRead(room, ReadDigits[room - 1], b)
  <2>1. ReadDigits[room] = [c \in Seq(Byte) |-> DigitsRead(room, ReadDigits[room - 1], c)]
    BY <1>10
  <2> QED
    BY <2>1
<1> QED
  BY <1>11

\* What a refusal and what a reading carries.
LEMMA CarriesRefused ==
    ASSUME NEW s, NEW q PROVE Carries(Refused, s, q)
BY RefusedIs DEF Carries

\* What was got carries just what it leaves.
LEMMA CarriesGot ==
    ASSUME NEW x, NEW t, NEW s, NEW q
    PROVE  Carries(Got(x, t), s, q) <=> s = Got(x, t \o q)
BY DEF Carries, Got

\* One digit more, when the rest is read as it should.
LEMMA DigitReads ==
    ASSUME NEW room \in Nat \ {0}, NEW q,
           room # 1 => \A t \in Seq(Byte) :
              /\ q[t] \in Reading(0 .. Numbers[room - 1] - 1)
              /\ \A p \in Seq(Byte) : Carries(q[t], q[t \o p], p),
           NEW b \in Seq(Byte)
    PROVE  /\ DigitsRead(room, q, b) \in Reading(0 .. Numbers[room] - 1)
           /\ \A p \in Seq(Byte) :
                 Carries(DigitsRead(room, q, b), DigitsRead(room, q, b \o p), p)
<1>1. /\ ReadByte(b) \in Reading(Byte)
      /\ \A p \in Seq(Byte) : Carries(ReadByte(b), ReadByte(b \o p), p)
  BY ByteReads
<1>2. CASE DigitsRead(room, q, b) = Refused
  BY <1>2, RefusedReads, CarriesRefused
<1>3. CASE DigitsRead(room, q, b) # Refused
  <2>1. PICK c \in Byte, t \in Seq(Byte) : ReadByte(b) = Got(c, t)
    <3>1. ReadByte(b) # Refused
      BY <1>3, DigitsReadIs
    <3> QED
      BY <1>1, <3>1 DEF Reading
  <2>2. \A p \in Seq(Byte) : ReadByte(b \o p) = Got(c, t \o p)
    BY <1>1, <2>1, CarriesGot
  <2>3. c \in Nat /\ Half \in Nat /\ Half > 5 /\ c < 2 * Half
    BY Sizes DEF Byte
  <2>4. CASE c < Half
    <3>1. ~ (room = 1 /\ c > 1)
      BY <1>3, <2>1, <2>4, DigitsReadIs
    <3>2. DigitsRead(room, q, b) = Got(c, t)
      BY <2>1, <2>4, <3>1, DigitsReadIs
    <3>3. \A p \in Seq(Byte) : DigitsRead(room, q, b \o p) = Got(c, t \o p)
      BY <2>2, <2>4, <3>1, DigitsReadIs
    <3>4. c \in 0 .. Numbers[room] - 1
      <4>1. CASE room = 1
        BY <2>3, <3>1, <4>1, MoreDigits
      <4>2. CASE room # 1
        <5>1. PICK k \in Nat \ {0} : room = k + 1
          <6>1. room - 1 \in Nat \ {0} /\ room = (room - 1) + 1
            BY <4>2
          <6> QED
            BY <6>1
        <5>2. Numbers[room] = Half * Numbers[k] /\ Numbers[k] \in Nat
          BY <5>1, MoreDigits, NumbersIs
        <5>3. Numbers[k] > 0
          BY <5>1, NumbersPositive
        <5>4. PICK d \in Nat : Numbers[k] = d + 1
          <6>1. Numbers[k] - 1 \in Nat /\ Numbers[k] = (Numbers[k] - 1) + 1
            BY <5>2, <5>3
          <6> QED
            BY <6>1
        <5>5. Half * (d + 1) = Half * d + Half /\ Half * d \in Nat
          BY <2>3
        <5>6. Numbers[room] \in Nat /\ Numbers[room] >= Half
          BY <2>3, <5>2, <5>4, <5>5
        <5> QED
          BY <2>3, <2>4, <5>6
      <4> QED
        BY <4>1, <4>2
    <3>5. DigitsRead(room, q, b) \in Reading(0 .. Numbers[room] - 1)
      BY <3>2, <3>4, GotReads
    <3> QED
      BY <3>2, <3>3, <3>5, CarriesGot
  <2>5. CASE ~ (c < Half)
    <3>1. room # 1 /\ q[t] # Refused
      BY <1>3, <2>1, <2>5, DigitsReadIs
    <3>2. PICK k \in Nat \ {0} : room = k + 1 /\ room - 1 = k
      <4>1. room - 1 \in Nat \ {0} /\ room = (room - 1) + 1
        BY <3>1
      <4> QED
        BY <4>1
    <3>3. PICK v \in 0 .. Numbers[k] - 1, u \in Seq(Byte) : q[t] = Got(v, u)
      <4>1. q[t] \in Reading(0 .. Numbers[k] - 1)
        BY <3>1, <3>2
      <4> QED
        BY <3>1, <4>1 DEF Reading
    <3>4. PICK w : w = c - Half + Half * v
      OBVIOUS
    <3>5. DigitsRead(room, q, b) = Got(w, u)
      BY <2>1, <2>5, <3>1, <3>3, <3>4, DigitsReadIs
    <3>6. ASSUME NEW p \in Seq(Byte) PROVE DigitsRead(room, q, b \o p) = Got(w, u \o p)
      <4>1. q[t \o p] = Got(v, u \o p)
        BY <3>1, <3>3, CarriesGot
      <4>2. ReadByte(b \o p) = Got(c, t \o p)
        BY <2>2
      <4> QED
        BY <2>5, <3>1, <3>4, <4>1, <4>2, DigitsReadIs
    <3>7. w \in 0 .. Numbers[room] - 1
      <4>1. Numbers[k] \in Nat /\ Numbers[room] = Half * Numbers[k]
        BY <3>2, MoreDigits, NumbersIs
      <4>2. PICK m \in 0 .. Half - 1, n \in Nat : m = c - Half /\ n = Numbers[k]
        <5>1. c - Half \in 0 .. Half - 1
          BY <2>3, <2>5
        <5> QED
          BY <4>1, <5>1
      <4>3. v \in 0 .. n - 1 /\ Half > 0 /\ Half \in Nat
        BY <2>3, <4>2
      <4>4. m + Half * v \in 0 .. Half * n - 1
        BY <4>3, Composed
      <4> QED
        BY <3>4, <4>1, <4>2, <4>4
    <3>8. DigitsRead(room, q, b) \in Reading(0 .. Numbers[room] - 1)
      BY <3>5, <3>7, GotReads
    <3> QED
      BY <3>5, <3>6, <3>8, CarriesGot
  <2> QED
    BY <2>4, <2>5
<1> QED
  BY <1>2, <1>3

\* A number that is read fits the digits there is room for, and what comes
\* behind it is not looked at.
LEMMA DigitsReads ==
    \A room \in 1 .. Digits : \A b \in Seq(Byte) :
        /\ ReadDigits[room][b] \in Reading(0 .. Numbers[room] - 1)
        /\ \A p \in Seq(Byte) : Carries(ReadDigits[room][b], ReadDigits[room][b \o p], p)
<1> DEFINE P(q, room) == \A b \in Seq(Byte) :
              /\ q[b] \in Reading(0 .. Numbers[room] - 1)
              /\ \A p \in Seq(Byte) : Carries(q[b], q[b \o p], p)
<1> DEFINE S == {n \in Nat : n \in 1 .. Digits => P(ReadDigits[n], n)}
<1>1. 0 \in S
  OBVIOUS
<1>2. ASSUME NEW n \in Nat, n \in S PROVE n + 1 \in S
  <2>0. PICK room : room = n + 1
    OBVIOUS
  <2>1. SUFFICES ASSUME room \in 1 .. Digits PROVE P(ReadDigits[room], room)
    BY <2>0
  <2>2. room \in Nat \ {0} /\ room - 1 = n /\ (room # 1 => n \in 1 .. Digits)
    BY <2>0, <2>1, Sizes
  <2>3. room # 1 => P(ReadDigits[n], n)
    BY <1>2, <2>2
  <2>4. PICK q : q = ReadDigits[room - 1]
    OBVIOUS
  <2>5. room # 1 => \A t \in Seq(Byte) :
              /\ q[t] \in Reading(0 .. Numbers[room - 1] - 1)
              /\ \A p \in Seq(Byte) : Carries(q[t], q[t \o p], p)
    BY <2>2, <2>3, <2>4
  <2>6. \A b \in Seq(Byte) : ReadDigits[room][b] = DigitsRead(room, q, b)
    BY <2>1, <2>4, ReadDigitsIs
  <2>7. ASSUME NEW b \in Seq(Byte)
        PROVE  /\ ReadDigits[room][b] \in Reading(0 .. Numbers[room] - 1)
               /\ \A p \in Seq(Byte) : Carries(ReadDigits[room][b], ReadDigits[room][b \o p], p)
    <3>1. /\ DigitsRead(room, q, b) \in Reading(0 .. Numbers[room] - 1)
          /\ \A p \in Seq(Byte) :
                Carries(DigitsRead(room, q, b), DigitsRead(room, q, b \o p), p)
      BY <2>2, <2>5, DigitReads
    <3>2. \A p \in Seq(Byte) : b \o p \in Seq(Byte)
      BY ConcatProperties
    <3> QED
      BY <2>6, <3>1, <3>2
  <2> QED
    BY <2>7
<1> HIDE DEF S
<1>3. Nat \subseteq S
  BY <1>1, <1>2, NatSets
<1>4. \A room \in 1 .. Digits : room \in S
  BY <1>3, Sizes
<1> QED
  BY <1>4 DEF S

\* What is written of a number is read back, and the bytes behind it left.
LEMMA DigitsBack ==
    \A room \in 1 .. Digits : \A v \in Unsigned64, t \in Seq(Byte) :
        v < Numbers[room] => ReadDigits[room][Uvarint[v] \o t] = Got(v, t)
<1> DEFINE P(room) == \A v \in Unsigned64, t \in Seq(Byte) :
              v < Numbers[room] => ReadDigits[room][Uvarint[v] \o t] = Got(v, t)
<1> DEFINE S == {n \in Nat : n \in 1 .. Digits => P(n)}
<1>1. 0 \in S
  OBVIOUS
<1>2. ASSUME NEW n \in Nat, n \in S PROVE n + 1 \in S
  <2>0. PICK room : room = n + 1
    OBVIOUS
  <2>1. SUFFICES ASSUME room \in 1 .. Digits PROVE P(room)
    BY <2>0
  <2>2. room \in Nat \ {0} /\ room - 1 = n /\ (room # 1 => n \in 1 .. Digits)
    BY <2>0, <2>1, Sizes
  <2>3. room # 1 => P(n)
    BY <1>2, <2>2
  <2>4. PICK q : q = ReadDigits[n]
    OBVIOUS
  <2>5. \A b \in Seq(Byte) : ReadDigits[room][b] = DigitsRead(room, q, b)
    BY <2>1, <2>2, <2>4, ReadDigitsIs
  <2>6. ASSUME NEW v \in Unsigned64, NEW t \in Seq(Byte), v < Numbers[room]
        PROVE  DigitsRead(room, q, Uvarint[v] \o t) = Got(v, t)
    <3>1. /\ v \in Nat /\ Half \in Nat /\ Half > 5
          /\ Uvarint[v] = DigitsFrom(Uvarint, v)
      BY UvarintIs, Shorter, Sizes
    <3>2. CASE v < Half
      <4>1. Uvarint[v] = <<v>> /\ v \in Byte
        BY <3>1, <3>2, Shorter DEF DigitsFrom
      <4>2. ReadByte(Uvarint[v] \o t) = Got(v, t)
        BY <4>1, ByteBack, SMTT(30)
      <4>3. room = 1 => ~ (v > 1)
        BY <2>6, <3>1, MoreDigits
      <4> QED
        BY <3>2, <4>2, <4>3, DigitsReadIs, SMTT(30)
    <3>3. CASE ~ (v < Half)
      <4>1. PICK d, m, c : d = v \div Half /\ m = v % Half /\ c = m + Half
        OBVIOUS
      <4>2. d \in Unsigned64 /\ c \in Byte
        BY <4>1, Shorter
      <4>3. m \in 0 .. Half - 1 /\ v = Half * d + m /\ d \in Nat
        BY <3>1, <4>1, OneDigit
      <4>4. Uvarint[v] = <<c>> \o Uvarint[d]
        BY <3>1, <3>3, <4>1 DEF DigitsFrom
      <4>5. Uvarint[d] \in Seq(Byte) /\ <<c>> \in Seq(Byte)
        BY <4>2, UvarintIs
      <4>6. /\ Uvarint[v] \o t = <<c>> \o (Uvarint[d] \o t)
            /\ Uvarint[d] \o t \in Seq(Byte)
        <5>1. PICK u \in Seq(Byte), w \in Seq(Byte) : u = Uvarint[d] /\ w = <<c>>
          BY <4>5
        <5>2. (w \o u) \o t = w \o (u \o t) /\ u \o t \in Seq(Byte)
          BY ConcatAssociative, ConcatProperties
        <5> QED
          BY <4>4, <5>1, <5>2
      <4>7. ReadByte(Uvarint[v] \o t) = Got(c, Uvarint[d] \o t)
        BY <4>2, <4>6, ByteBack
      <4>8. room # 1
        BY <2>6, <3>1, <3>3, MoreDigits
      <4>9. d < Numbers[n]
        <5>1. n \in Nat \ {0} /\ room = n + 1
          BY <2>0, <2>2, <4>8
        <5>2. Numbers[room] = Half * Numbers[n] /\ Numbers[n] \in Nat
          BY <5>1, MoreDigits, NumbersIs
        <5>3. PICK k \in Nat : k = Numbers[n]
          BY <5>2
        <5>4. v < Half * k
          BY <2>6, <5>2, <5>3
        <5>5. v \div Half < k
          BY <3>1, <5>4, Within
        <5> QED
          BY <4>1, <5>3, <5>5
      <4>10. q[Uvarint[d] \o t] = Got(d, t)
        BY <2>3, <2>4, <4>2, <4>8, <4>9
      <4>11. ~ (c < Half) /\ c - Half + Half * d = v
        BY <3>1, <4>1, <4>3
      <4>12. DigitsRead(room, q, Uvarint[v] \o t) = Got(c - Half + Half * d, t)
        BY <4>7, <4>8, <4>10, <4>11, DigitsReadIs
      <4> QED
        BY <4>11, <4>12
    <3> QED
      BY <3>2, <3>3
  <2>7. \A v \in Unsigned64, t \in Seq(Byte) : Uvarint[v] \o t \in Seq(Byte)
    BY UvarintIs, ConcatProperties
  <2> QED
    BY <2>5, <2>6, <2>7
<1> HIDE DEF S
<1>3. Nat \subseteq S
  BY <1>1, <1>2, NatSets
<1>4. \A room \in 1 .. Digits : room \in S
  BY <1>3, Sizes
<1> QED
  BY <1>4 DEF S

\* So with a number.
LEMMA UvarintReads ==
    ASSUME NEW b \in Seq(Byte)
    PROVE  /\ ReadUvarint(b) \in Reading(Unsigned64)
           /\ \A p \in Seq(Byte) : Carries(ReadUvarint(b), ReadUvarint(b \o p), p)
<1>1. Digits \in 1 .. Digits /\ Word = Numbers[Digits]
  BY Sizes DEF Word
<1> QED
  BY <1>1, DigitsReads DEF ReadUvarint, Unsigned64

\* A number is read back.
LEMMA UvarintBack ==
    ASSUME NEW v \in Unsigned64, NEW t \in Seq(Byte)
    PROVE  ReadUvarint(Uvarint[v] \o t) = Got(v, t)
<1>1. Digits \in 1 .. Digits /\ v < Numbers[Digits]
  BY Sizes, WordIs DEF Word, Unsigned64
<1> QED
  BY <1>1, DigitsBack DEF ReadUvarint

----------------------------------------------------------------------------
(***************************************************************************)
(* What a record is made of                                                *)
(***************************************************************************)
\* The integers a word of either sign holds.
LEMMA SignedIs ==
    /\ \A v \in Signed64 : v \in Int
    /\ \A v \in Signed64 : v < 0 => -2 * v - 1 \in Unsigned64
    /\ \A v \in Signed64 : ~ (v < 0) => 2 * v \in Unsigned64
    /\ \A u \in Unsigned64 :
          /\ u \in Nat
          /\ (IF u % 2 = 1 THEN -(u \div 2) - 1 ELSE u \div 2) \in Signed64
<1>1. PICK w \in Nat : Word = 2 * w /\ Word \div 2 = w
  BY WordIs
<1>2. Signed64 = -w .. w - 1 /\ Unsigned64 = 0 .. 2 * w - 1
  BY <1>1 DEF Signed64, Unsigned64
<1> QED
  BY <1>2

\* The sign of a number, folded into it and back.
Unfolded(u) == IF u % 2 = 1 THEN -(u \div 2) - 1 ELSE u \div 2

\* Every number is folded into one without a sign.
LEMMA Folds ==
    ASSUME NEW v \in Signed64
    PROVE  \E u \in Unsigned64 : Varint(v) = Uvarint[u] /\ Unfolded(u) = v
<1>1. v \in Int
  BY SignedIs
<1>2. CASE v < 0
  <2>1. PICK u \in Unsigned64 : u = -2 * v - 1
    BY <1>2, SignedIs
  <2>2. u % 2 = 1 /\ u \div 2 = -v - 1
    BY <1>1, <1>2, <2>1
  <2>3. Unfolded(u) = v
    BY <1>1, <2>2 DEF Unfolded
  <2>4. Varint(v) = Uvarint[u]
    BY <1>2, <2>1 DEF Varint
  <2> QED
    BY <2>3, <2>4
<1>3. CASE ~ (v < 0)
  <2>1. PICK u \in Unsigned64 : u = 2 * v
    BY <1>3, SignedIs
  <2>2. u % 2 = 0 /\ u \div 2 = v
    BY <1>1, <1>3, <2>1
  <2>3. Unfolded(u) = v
    BY <2>2 DEF Unfolded
  <2>4. Varint(v) = Uvarint[u]
    BY <1>3, <2>1 DEF Varint
  <2> QED
    BY <2>3, <2>4
<1> QED
  BY <1>2, <1>3

\* A reader made of a number read.
LEMMA VarintIs ==
    ASSUME NEW b
    PROVE  /\ ReadUvarint(b) = Refused => ReadVarint(b) = Refused
           /\ \A u, t : ReadUvarint(b) = Got(u, t) => ReadVarint(b) = Got(Unfolded(u), t)
<1>1. PICK r : r = ReadUvarint(b)
  OBVIOUS
<1>2. r = Refused => ReadVarint(b) = Refused
  BY <1>1, RefusedIs DEF ReadVarint, Then
<1>3. ASSUME NEW u, NEW t, r = Got(u, t) PROVE ReadVarint(b) = Got(Unfolded(u), t)
  <2>1. r.ok = TRUE /\ r.is = u /\ r.rest = t
    BY <1>3 DEF Got
  <2> QED
    BY <1>1, <2>1 DEF ReadVarint, Then, Unfolded
<1> QED
  BY <1>1, <1>2, <1>3

\* A number that is read fits a word with a sign.
LEMMA VarintReads ==
    ASSUME NEW b \in Seq(Byte)
    PROVE  /\ ReadVarint(b) \in Reading(Signed64)
           /\ \A p \in Seq(Byte) : Carries(ReadVarint(b), ReadVarint(b \o p), p)
<1>1. /\ ReadUvarint(b) \in Reading(Unsigned64)
      /\ \A p \in Seq(Byte) : Carries(ReadUvarint(b), ReadUvarint(b \o p), p)
  BY UvarintReads
<1>2. CASE ReadUvarint(b) = Refused
  BY <1>2, VarintIs, RefusedReads, CarriesRefused
<1>3. ASSUME NEW u \in Unsigned64, NEW t \in Seq(Byte), ReadUvarint(b) = Got(u, t)
      PROVE  /\ ReadVarint(b) \in Reading(Signed64)
             /\ \A p \in Seq(Byte) : Carries(ReadVarint(b), ReadVarint(b \o p), p)
  <2>1. ReadVarint(b) = Got(Unfolded(u), t) /\ Unfolded(u) \in Signed64
    BY <1>3, VarintIs, SignedIs DEF Unfolded
  <2>2. \A p \in Seq(Byte) : ReadUvarint(b \o p) = Got(u, t \o p)
    BY <1>1, <1>3, CarriesGot
  <2>3. \A p \in Seq(Byte) : ReadVarint(b \o p) = Got(Unfolded(u), t \o p)
    BY <2>2, VarintIs
  <2> QED
    BY <2>1, <2>3, GotReads, CarriesGot
<1> QED
  BY <1>1, <1>2, <1>3 DEF Reading

\* A number with a sign is read back.
LEMMA VarintBack ==
    ASSUME NEW v \in Signed64, NEW t \in Seq(Byte)
    PROVE  /\ Varint(v) \in Seq(Byte) /\ ReadVarint(Varint(v) \o t) = Got(v, t)
<1>1. PICK u \in Unsigned64 : Varint(v) = Uvarint[u] /\ Unfolded(u) = v
  BY Folds
<1>2. ReadUvarint(Varint(v) \o t) = Got(u, t)
  BY <1>1, UvarintBack
<1> QED
  BY <1>1, <1>2, VarintIs, UvarintIs

\* A text.
LEMMA TextIs ==
    ASSUME NEW b
    PROVE  /\ ReadUvarint(b) = Refused => ReadText(b) = Refused
           /\ \A u, t : ReadUvarint(b) = Got(u, t) => ReadText(b) = Taken(u, t)
<1>1. PICK r : r = ReadUvarint(b)
  OBVIOUS
<1>2. r = Refused => ReadText(b) = Refused
  BY <1>1, RefusedIs DEF ReadText, Then
<1>3. ASSUME NEW u, NEW t, r = Got(u, t) PROVE ReadText(b) = Taken(u, t)
  <2>1. r.ok = TRUE /\ r.is = u /\ r.rest = t
    BY <1>3 DEF Got
  <2> QED
    BY <1>1, <2>1 DEF ReadText, Then
<1> QED
  BY <1>1, <1>2, <1>3

\* A text that is read is one that could be written.
LEMMA TextReads ==
    ASSUME NEW b \in Seq(Byte)
    PROVE  /\ ReadText(b) \in Reading(Texts)
           /\ \A p \in Seq(Byte) : Carries(ReadText(b), ReadText(b \o p), p)
<1>1. /\ ReadUvarint(b) \in Reading(Unsigned64)
      /\ \A p \in Seq(Byte) : Carries(ReadUvarint(b), ReadUvarint(b \o p), p)
  BY UvarintReads
<1>2. CASE ReadUvarint(b) = Refused
  BY <1>2, TextIs, RefusedReads, CarriesRefused
<1>3. ASSUME NEW n \in Unsigned64, NEW u \in Seq(Byte), ReadUvarint(b) = Got(n, u)
      PROVE  /\ ReadText(b) \in Reading(Texts)
             /\ \A p \in Seq(Byte) : Carries(ReadText(b), ReadText(b \o p), p)
  <2>1. n \in Nat
    BY SignedIs
  <2>2. ReadText(b) = Taken(n, u)
    BY <1>3, TextIs
  <2>3. ASSUME NEW p \in Seq(Byte) PROVE ReadText(b \o p) = Taken(n, u \o p)
    <3>1. ReadUvarint(b \o p) = Got(n, u \o p)
      BY <1>1, <1>3, CarriesGot
    <3> QED
      BY <3>1, TextIs
  <2>4. /\ Taken(n, u) \in Reading(Exactly(n))
        /\ \A p \in Seq(Byte) : Carries(Taken(n, u), Taken(n, u \o p), p)
    BY <2>1, TakenReads
  <2>5. Exactly(n) \subseteq Texts
    BY DEF Exactly, Texts
  <2>6. Taken(n, u) \in Reading(Texts)
    BY <2>4, <2>5 DEF Reading
  <2> QED
    BY <2>2, <2>3, <2>4, <2>6
<1> QED
  BY <1>1, <1>2, <1>3 DEF Reading

\* A text is read back.
LEMMA TextBack ==
    ASSUME NEW s \in Texts, NEW t \in Seq(Byte)
    PROVE  Text(s) \in Seq(Byte) /\ ReadText(Text(s) \o t) = Got(s, t)
<1>1. s \in Seq(Byte) /\ Len(s) \in Unsigned64
  BY DEF Texts
<1>2. PICK u \in Seq(Byte) : u = Uvarint[Len(s)]
  BY <1>1, UvarintIs
<1>3. /\ u \o s \in Seq(Byte) /\ s \o t \in Seq(Byte)
      /\ (u \o s) \o t = u \o (s \o t)
  BY <1>1, ConcatAssociative, ConcatProperties, SMTT(30)
<1>4. ReadUvarint(u \o (s \o t)) = Got(Len(s), s \o t)
  BY <1>1, <1>2, <1>3, UvarintBack
<1>5. ReadText(u \o (s \o t)) = Taken(Len(s), s \o t)
  BY <1>4, TextIs
<1>6. ReadText(u \o (s \o t)) = Got(s, t)
  BY <1>1, <1>5, TakenBack
<1> QED
  BY <1>2, <1>3, <1>6 DEF Text

\* A time.
Instants == {<<sec, nsec, 0>> : sec \in Signed64, nsec \in 0 .. Second - 1}

\* A time, case by case.
LEMMA TimeIs ==
    ASSUME NEW b
    PROVE  /\ ReadVarint(b) = Refused => ReadTime(b) = Refused
           /\ \A sec, t : ReadVarint(b) = Got(sec, t) =>
                 /\ ReadUvarint(t) = Refused => ReadTime(b) = Refused
                 /\ \A nsec, u : ReadUvarint(t) = Got(nsec, u) =>
                       ReadTime(b) =
                          IF nsec < Second THEN Got(<<sec, nsec, 0>>, u) ELSE Refused
<1>1. PICK r : r = ReadVarint(b)
  OBVIOUS
<1>2. r = Refused => ReadTime(b) = Refused
  BY <1>1, RefusedIs DEF ReadTime, Then
<1>3. ASSUME NEW sec, NEW t, r = Got(sec, t)
      PROVE  /\ ReadUvarint(t) = Refused => ReadTime(b) = Refused
             /\ \A nsec, u : ReadUvarint(t) = Got(nsec, u) =>
                   ReadTime(b) =
                      IF nsec < Second THEN Got(<<sec, nsec, 0>>, u) ELSE Refused
  <2>1. r.ok = TRUE /\ r.is = sec /\ r.rest = t
    BY <1>3 DEF Got
  <2>2. PICK s : s = ReadUvarint(t)
    OBVIOUS
  <2>3. s = Refused => ReadTime(b) = Refused
    BY <1>1, <2>1, <2>2, RefusedIs DEF ReadTime, Then, Only
  <2>4. ASSUME NEW nsec, NEW u, s = Got(nsec, u)
        PROVE  ReadTime(b) = IF nsec < Second THEN Got(<<sec, nsec, 0>>, u) ELSE Refused
    <3>1. s.ok = TRUE /\ s.is = nsec /\ s.rest = u
      BY <2>4 DEF Got
    <3>2. ASSUME nsec < Second PROVE ReadTime(b) = Got(<<sec, nsec, 0>>, u)
      BY <1>1, <2>1, <2>2, <3>1, <3>2 DEF ReadTime, Then, Only
    <3>3. ASSUME ~ (nsec < Second) PROVE ReadTime(b) = Refused
      BY <1>1, <2>1, <2>2, <3>1, <3>3, RefusedIs DEF ReadTime, Then, Only
    <3> QED
      BY <3>2, <3>3
  <2> QED
    BY <2>2, <2>3, <2>4
<1> QED
  BY <1>1, <1>2, <1>3

\* A time that is read has no more nanoseconds than a second.
LEMMA TimeReads ==
    ASSUME NEW b \in Seq(Byte)
    PROVE  /\ ReadTime(b) \in Reading(Instants)
           /\ \A p \in Seq(Byte) : Carries(ReadTime(b), ReadTime(b \o p), p)
<1>1. /\ ReadVarint(b) \in Reading(Signed64)
      /\ \A p \in Seq(Byte) : Carries(ReadVarint(b), ReadVarint(b \o p), p)
  BY VarintReads
<1>2. CASE ReadTime(b) = Refused
  BY <1>2, RefusedReads, CarriesRefused
<1>3. CASE ReadTime(b) # Refused
  <2>1. PICK sec \in Signed64, t \in Seq(Byte) : ReadVarint(b) = Got(sec, t)
    <3>1. ReadVarint(b) # Refused
      BY <1>3, TimeIs
    <3> QED
      BY <1>1, <3>1 DEF Reading
  <2>2. /\ ReadUvarint(t) \in Reading(Unsigned64)
        /\ \A p \in Seq(Byte) : Carries(ReadUvarint(t), ReadUvarint(t \o p), p)
    BY UvarintReads
  <2>3. PICK nsec \in Unsigned64, u \in Seq(Byte) : ReadUvarint(t) = Got(nsec, u)
    <3>1. ReadUvarint(t) # Refused
      BY <1>3, <2>1, TimeIs
    <3> QED
      BY <2>2, <3>1 DEF Reading
  <2>4. nsec < Second
    <3>1. PICK h : h = <<sec, nsec, 0>>
      OBVIOUS
    <3>2. ReadTime(b) = IF nsec < Second THEN Got(h, u) ELSE Refused
      BY <2>1, <2>3, <3>1, TimeIs
    <3> QED
      BY <1>3, <3>2
  <2>5. PICK h : h = <<sec, nsec, 0>>
    OBVIOUS
  <2>6. ReadTime(b) = Got(h, u)
    BY <2>1, <2>3, <2>4, <2>5, TimeIs
  <2>7. h \in Instants
    <3>1. nsec \in 0 .. Second - 1
      BY <2>4, SignedIs, Sizes
    <3> QED
      BY <2>5, <3>1 DEF Instants
  <2>8. ASSUME NEW p \in Seq(Byte) PROVE ReadTime(b \o p) = Got(h, u \o p)
    <3>1. ReadVarint(b \o p) = Got(sec, t \o p)
      BY <1>1, <2>1, CarriesGot
    <3>2. ReadUvarint(t \o p) = Got(nsec, u \o p)
      BY <2>2, <2>3, CarriesGot
    <3> QED
      BY <2>4, <2>5, <3>1, <3>2, TimeIs
  <2> QED
    BY <2>6, <2>7, <2>8, GotReads, CarriesGot
<1> QED
  BY <1>2, <1>3

\* A time is read back, in UTC.
LEMMA TimeBack ==
    ASSUME NEW sec \in Signed64, NEW nsec \in 0 .. Second - 1, NEW t \in Seq(Byte)
    PROVE  /\ Varint(sec) \o Uvarint[nsec] \in Seq(Byte)
           /\ ReadTime((Varint(sec) \o Uvarint[nsec]) \o t) = Got(<<sec, nsec, 0>>, t)
<1>1. nsec \in Unsigned64 /\ nsec < Second
  <2>1. Second \in 1 .. Word /\ Word \in Nat
    BY CodecAssumption, WordIs
  <2> QED
    BY <2>1 DEF Unsigned64
<1>2. PICK u \in Seq(Byte), w \in Seq(Byte) : u = Varint(sec) /\ w = Uvarint[nsec]
  BY <1>1, VarintBack, UvarintIs
<1>3. /\ u \o w \in Seq(Byte) /\ w \o t \in Seq(Byte)
      /\ (u \o w) \o t = u \o (w \o t)
  <2>1. u \o w \in Seq(Byte) /\ w \o t \in Seq(Byte)
    BY ConcatProperties
  <2>2. (u \o w) \o t = u \o (w \o t)
    BY ConcatAssociative
  <2> QED
    BY <2>1, <2>2
<1>4. ReadVarint(u \o (w \o t)) = Got(sec, w \o t)
  BY <1>2, <1>3, VarintBack
<1>5. ReadUvarint(w \o t) = Got(nsec, t)
  BY <1>1, <1>2, UvarintBack
<1>6. ReadTime(u \o (w \o t)) = Got(<<sec, nsec, 0>>, t)
  BY <1>1, <1>4, <1>5, TimeIs
<1> QED
  BY <1>2, <1>3, <1>6

\* A number as it is in the log.
RawTexts == {s \in Texts : ValidRaw(s)}

\* A number of the log, case by case.
LEMMA RawIs ==
    ASSUME NEW b
    PROVE  /\ ReadText(b) = Refused => ReadRaw(b) = Refused
           /\ \A s, t : ReadText(b) = Got(s, t) =>
                 ReadRaw(b) = IF ValidRaw(s) THEN Got(s, t) ELSE Refused
<1>1. PICK r : r = ReadText(b)
  OBVIOUS
<1>2. r = Refused => ReadRaw(b) = Refused
  BY <1>1, RefusedIs DEF ReadRaw, Only
<1>3. ASSUME NEW s, NEW t, r = Got(s, t)
      PROVE  ReadRaw(b) = IF ValidRaw(s) THEN Got(s, t) ELSE Refused
  <2>1. r.ok = TRUE /\ r.is = s
    BY <1>3 DEF Got
  <2>2. ReadRaw(b) = IF ValidRaw(s) THEN r ELSE Refused
    BY <1>1, <2>1 DEF ReadRaw, Only
  <2> QED
    BY <1>3, <2>2
<1> QED
  BY <1>1, <1>2, <1>3

\* What is read for a number is one.
LEMMA RawReads ==
    ASSUME NEW b \in Seq(Byte)
    PROVE  /\ ReadRaw(b) \in Reading(RawTexts)
           /\ \A p \in Seq(Byte) : Carries(ReadRaw(b), ReadRaw(b \o p), p)
<1>1. /\ ReadText(b) \in Reading(Texts)
      /\ \A p \in Seq(Byte) : Carries(ReadText(b), ReadText(b \o p), p)
  BY TextReads
<1>2. CASE ReadRaw(b) = Refused
  BY <1>2, RefusedReads, CarriesRefused
<1>3. CASE ReadRaw(b) # Refused
  <2>1. PICK s \in Texts, t \in Seq(Byte) : ReadText(b) = Got(s, t)
    <3>1. ReadText(b) # Refused
      BY <1>3, RawIs
    <3> QED
      BY <1>1, <3>1 DEF Reading
  <2>2. ValidRaw(s)
    BY <1>3, <2>1, RawIs
  <2>3. ReadRaw(b) = Got(s, t)
    BY <2>1, <2>2, RawIs
  <2>4. s \in RawTexts
    BY <2>2 DEF RawTexts
  <2>5. ASSUME NEW p \in Seq(Byte) PROVE ReadRaw(b \o p) = Got(s, t \o p)
    <3>1. ReadText(b \o p) = Got(s, t \o p)
      BY <1>1, <2>1, CarriesGot
    <3> QED
      BY <2>2, <3>1, RawIs
  <2> QED
    BY <2>3, <2>4, <2>5, GotReads, CarriesGot
<1> QED
  BY <1>2, <1>3

\* A number is read back.
LEMMA RawBack ==
    ASSUME NEW s \in RawTexts, NEW t \in Seq(Byte)
    PROVE  Text(s) \in Seq(Byte) /\ ReadRaw(Text(s) \o t) = Got(s, t)
<1>1. s \in Texts /\ ValidRaw(s)
  BY DEF RawTexts
<1>2. Text(s) \in Seq(Byte) /\ ReadText(Text(s) \o t) = Got(s, t)
  BY <1>1, TextBack
<1> QED
  BY <1>1, <1>2, RawIs

\* A number alone in its value.
Alone(X) == {<<v>> : v \in X}

\* A number that was got is got alone.
LEMMA AsSequenceGot ==
    ASSUME NEW x, NEW t
    PROVE  AsSequence(Got(x, t)) = Got(<<x>>, t)
<1>1. PICK r : r = Got(x, t)
  OBVIOUS
<1>2. r.ok = TRUE /\ r.is = x /\ r.rest = t
  BY <1>1 DEF Got
<1>3. AsSequence(r) = Got(<<x>>, t)
  BY <1>2 DEF AsSequence, Then
<1> QED
  BY <1>1, <1>3

\* It is refused, and carries, as it was.
LEMMA AsSequenceReads ==
    ASSUME NEW X, NEW r \in Reading(X), NEW s, NEW q, Carries(r, s, q)
    PROVE  /\ AsSequence(r) \in Reading(Alone(X))
           /\ Carries(AsSequence(r), AsSequence(s), q)
<1>1. CASE r = Refused
  <2>1. AsSequence(r) = Refused
    BY <1>1, RefusedIs DEF AsSequence, Then
  <2> QED
    BY <2>1, RefusedReads, CarriesRefused
<1>2. ASSUME NEW x \in X, NEW t \in Seq(Byte), r = Got(x, t)
      PROVE  /\ AsSequence(r) \in Reading(Alone(X))
             /\ Carries(AsSequence(r), AsSequence(s), q)
  <2>1. AsSequence(r) = Got(<<x>>, t)
    BY <1>2, AsSequenceGot
  <2>2. s = Got(x, t \o q)
    BY <1>2, CarriesGot
  <2>3. AsSequence(s) = Got(<<x>>, t \o q)
    BY <2>2, AsSequenceGot
  <2>4. <<x>> \in Alone(X)
    BY DEF Alone
  <2> QED
    BY <2>1, <2>3, <2>4, GotReads, CarriesGot
<1> QED
  BY <1>1, <1>2 DEF Reading

\* A bool.
ReadBool(b) == Only(Taken(1, b), LAMBDA h : h[1] <= 1)
Bools == {<<0>>, <<1>>}

\* A bool, case by case.
LEMMA BoolIs ==
    ASSUME NEW b
    PROVE  /\ Taken(1, b) = Refused => ReadBool(b) = Refused
           /\ \A h, t : Taken(1, b) = Got(h, t) =>
                 ReadBool(b) = IF h[1] <= 1 THEN Got(h, t) ELSE Refused
<1>1. PICK r : r = Taken(1, b)
  OBVIOUS
<1>2. r = Refused => ReadBool(b) = Refused
  BY <1>1, RefusedIs DEF ReadBool, Only
<1>3. ASSUME NEW h, NEW t, r = Got(h, t)
      PROVE  ReadBool(b) = IF h[1] <= 1 THEN Got(h, t) ELSE Refused
  <2>1. r.ok = TRUE /\ r.is = h
    BY <1>3 DEF Got
  <2>2. ReadBool(b) = IF h[1] <= 1 THEN r ELSE Refused
    BY <1>1, <2>1 DEF ReadBool, Only
  <2> QED
    BY <1>3, <2>2
<1> QED
  BY <1>1, <1>2, <1>3

\* What is read for a bool is one.
LEMMA BoolReads ==
    ASSUME NEW b \in Seq(Byte)
    PROVE  /\ ReadBool(b) \in Reading(Bools)
           /\ \A p \in Seq(Byte) : Carries(ReadBool(b), ReadBool(b \o p), p)
<1>1. /\ Taken(1, b) \in Reading(Exactly(1))
      /\ \A p \in Seq(Byte) : Carries(Taken(1, b), Taken(1, b \o p), p)
  BY TakenReads
<1>2. CASE ReadBool(b) = Refused
  BY <1>2, RefusedReads, CarriesRefused
<1>3. CASE ReadBool(b) # Refused
  <2>1. PICK h \in Exactly(1), t \in Seq(Byte) : Taken(1, b) = Got(h, t)
    <3>1. Taken(1, b) # Refused
      BY <1>3, BoolIs
    <3> QED
      BY <1>1, <3>1 DEF Reading
  <2>2. h[1] <= 1
    BY <1>3, <2>1, BoolIs
  <2>3. ReadBool(b) = Got(h, t)
    BY <2>1, <2>2, BoolIs
  <2>4. h \in Bools
    <3>1. h \in Seq(Byte) /\ Len(h) = 1 /\ h[1] \in Byte
      <4>1. h \in Seq(Byte) /\ Len(h) = 1
        BY DEF Exactly
      <4> QED
        BY <4>1
    <3>2. h = <<h[1]>>
      BY <3>1
    <3>3. h[1] = 0 \/ h[1] = 1
      BY <2>2, <3>1, Sizes DEF Byte
    <3> QED
      BY <3>2, <3>3 DEF Bools
  <2>5. ASSUME NEW p \in Seq(Byte) PROVE ReadBool(b \o p) = Got(h, t \o p)
    <3>1. Taken(1, b \o p) = Got(h, t \o p)
      BY <1>1, <2>1, CarriesGot
    <3> QED
      BY <2>2, <3>1, BoolIs
  <2> QED
    BY <2>3, <2>4, <2>5, GotReads, CarriesGot
<1> QED
  BY <1>2, <1>3

\* A bool is read back.
LEMMA BoolBack ==
    ASSUME NEW h \in Bools, NEW t \in Seq(Byte)
    PROVE  h \in Seq(Byte) /\ ReadBool(h \o t) = Got(h, t)
<1>1. h \in Seq(Byte) /\ Len(h) = 1 /\ h[1] <= 1
  <2>1. 0 \in Byte /\ 1 \in Byte
    BY Sizes DEF Byte
  <2>2. PICK v \in Byte : h = <<v>> /\ v <= 1
    BY <2>1 DEF Bools
  <2> QED
    BY <2>2
<1>2. Taken(1, h \o t) = Got(h, t)
  BY <1>1, TakenBack
<1> QED
  BY <1>1, <1>2, BoolIs

----------------------------------------------------------------------------
(***************************************************************************)
(* A value                                                                 *)
(***************************************************************************)
\* The tags, as they are written.
LEMMA TagsAre ==
    /\ DOMAIN Tag = {"nil", "int8", "int64", "uint8", "uint64", "float32", "float64",
                     "bool", "string", "bytes", "time", "raw"}
    /\ Tag["nil"] = 0 /\ Tag["int8"] = 1 /\ Tag["int64"] = 1
    /\ Tag["uint8"] = 2 /\ Tag["uint64"] = 2 /\ Tag["float32"] = 3
    /\ Tag["float64"] = 4 /\ Tag["bool"] = 5 /\ Tag["string"] = 6
    /\ Tag["bytes"] = 7 /\ Tag["time"] = 8 /\ Tag["raw"] = 9
BY DEF Tag

\* What may be read behind a tag.
HeldAs(tag) ==
    CASE tag = 0 -> {<<>>}
      [] tag = 1 -> Alone(Signed64)
      [] tag = 2 -> Alone(Unsigned64)
      [] tag = 3 -> Exactly(1)
      [] tag = 4 -> Exactly(2)
      [] tag = 5 -> Bools
      [] tag = 6 -> Texts
      [] tag = 7 -> Texts
      [] tag = 8 -> Instants
      [] tag = 9 -> RawTexts
      [] OTHER -> {}

\* What may be read, tag by tag.
LEMMA HeldAsIs ==
    /\ HeldAs(0) = {<<>>} /\ HeldAs(1) = Alone(Signed64) /\ HeldAs(2) = Alone(Unsigned64)
    /\ HeldAs(3) = Exactly(1) /\ HeldAs(4) = Exactly(2) /\ HeldAs(5) = Bools
    /\ HeldAs(6) = Texts /\ HeldAs(7) = Texts /\ HeldAs(8) = Instants
    /\ HeldAs(9) = RawTexts
    /\ \A c : c \notin 0 .. 9 => HeldAs(c) = {}
BY DEF HeldAs

\* How it is read.
LEMMA HoldsIs ==
    ASSUME NEW b
    PROVE  /\ Holds(0, b) = Got(<<>>, b)
           /\ Holds(1, b) = AsSequence(ReadVarint(b))
           /\ Holds(2, b) = AsSequence(ReadUvarint(b))
           /\ Holds(3, b) = Taken(1, b) /\ Holds(4, b) = Taken(2, b)
           /\ Holds(5, b) = ReadBool(b)
           /\ Holds(6, b) = ReadText(b) /\ Holds(7, b) = ReadText(b)
           /\ Holds(8, b) = ReadTime(b) /\ Holds(9, b) = ReadRaw(b)
           /\ \A c : c \notin 0 .. 9 => Holds(c, b) = Refused
<1>1. ASSUME NEW c, c # 5
      PROVE  Holds(c, b) =
                CASE c = 0 -> Got(<<>>, b)
                  [] c = 1 -> AsSequence(ReadVarint(b))
                  [] c = 2 -> AsSequence(ReadUvarint(b))
                  [] c = 3 -> Taken(1, b)
                  [] c = 4 -> Taken(2, b)
                  [] c \in {6, 7} -> ReadText(b)
                  [] c = 8 -> ReadTime(b)
                  [] c = 9 -> ReadRaw(b)
                  [] OTHER -> Refused
  BY <1>1, TagsAre DEF Holds
<1>2. Holds(5, b) = ReadBool(b)
  BY TagsAre DEF Holds, ReadBool, Only
<1>3. Holds(6, b) = ReadText(b) /\ Holds(7, b) = ReadText(b)
  BY <1>1
<1>4. \A c : c \notin 0 .. 9 => Holds(c, b) = Refused
  BY <1>1
<1> QED
  BY <1>1, <1>2, <1>3, <1>4

\* What is read behind a tag is what may be read there.
LEMMA HoldsReads ==
    ASSUME NEW c \in Byte, NEW b \in Seq(Byte)
    PROVE  /\ Holds(c, b) \in Reading(HeldAs(c))
           /\ \A p \in Seq(Byte) : Carries(Holds(c, b), Holds(c, b \o p), p)
<1>0. c \in Nat
  BY Sizes DEF Byte
<1>1. CASE c \notin 0 .. 9
  BY <1>1, HoldsIs, RefusedReads, CarriesRefused
<1>2. CASE c = 0
  <2>1. PICK X, h : X = {h} /\ h = <<>> /\ X = HeldAs(0)
    BY HeldAsIs
  <2>2. \A p \in Seq(Byte) : Holds(c, p) = Got(h, p)
    BY <1>2, <2>1, HoldsIs
  <2>3. Got(h, b) \in Reading(X)
    BY <2>1, GotReads
  <2>4. ASSUME NEW p \in Seq(Byte) PROVE Carries(Holds(c, b), Holds(c, b \o p), p)
    <3>1. b \o p \in Seq(Byte)
      BY ConcatProperties
    <3>2. Holds(c, b) = Got(h, b) /\ Holds(c, b \o p) = Got(h, b \o p)
      BY <2>2, <3>1
    <3> QED
      BY <3>2, CarriesGot
  <2>5. Holds(c, b) \in Reading(HeldAs(c))
    BY <1>2, <2>1, <2>2, <2>3
  <2> QED
    BY <2>4, <2>5
<1>3. CASE c = 1
  <2>1. /\ ReadVarint(b) \in Reading(Signed64)
        /\ \A p \in Seq(Byte) : Carries(ReadVarint(b), ReadVarint(b \o p), p)
    BY VarintReads
  <2>2. <<>> \in Seq(Byte)
    OBVIOUS
  <2>3. /\ AsSequence(ReadVarint(b)) \in Reading(Alone(Signed64))
        /\ \A p \in Seq(Byte) :
              Carries(AsSequence(ReadVarint(b)), AsSequence(ReadVarint(b \o p)), p)
    BY <2>1, <2>2, AsSequenceReads
  <2> QED
    BY <1>3, <2>3, HoldsIs, HeldAsIs
<1>4. CASE c = 2
  <2>1. /\ ReadUvarint(b) \in Reading(Unsigned64)
        /\ \A p \in Seq(Byte) : Carries(ReadUvarint(b), ReadUvarint(b \o p), p)
    BY UvarintReads
  <2>2. <<>> \in Seq(Byte)
    OBVIOUS
  <2>3. /\ AsSequence(ReadUvarint(b)) \in Reading(Alone(Unsigned64))
        /\ \A p \in Seq(Byte) :
              Carries(AsSequence(ReadUvarint(b)), AsSequence(ReadUvarint(b \o p)), p)
    BY <2>1, <2>2, AsSequenceReads
  <2> QED
    BY <1>4, <2>3, HoldsIs, HeldAsIs
<1>5. CASE c = 3
  BY <1>5, HoldsIs, HeldAsIs, TakenReads
<1>6. CASE c = 4
  BY <1>6, HoldsIs, HeldAsIs, TakenReads
<1>7. CASE c = 5
  BY <1>7, HoldsIs, HeldAsIs, BoolReads
<1>8. CASE c \in {6, 7}
  BY <1>8, HoldsIs, HeldAsIs, TextReads
<1>9. CASE c = 8
  BY <1>9, HoldsIs, HeldAsIs, TimeReads
<1>10. CASE c = 9
  BY <1>10, HoldsIs, HeldAsIs, RawReads
<1> QED
  BY <1>0, <1>1, <1>2, <1>3, <1>4, <1>5, <1>6, <1>7, <1>8, <1>9, <1>10

\* What is written behind the tag of a value.
Body(x) ==
    CASE x.type \in {"int8", "int64"} -> Varint(x.holds[1])
      [] x.type \in {"uint8", "uint64"} -> Uvarint[x.holds[1]]
      [] x.type \in {"string", "bytes", "raw"} -> Text(x.holds)
      [] x.type = "time" -> Varint(x.holds[1]) \o Uvarint[x.holds[2]]
      [] OTHER -> x.holds

\* What is written of a value is its tag and the rest.
LEMMA TaggedIs == ASSUME NEW x PROVE Tagged(x) = <<Tag[x.type]>> \o Body(x)
BY DEF Tagged, Body

\* The rest, type by type.
LEMMA BodyIs ==
    ASSUME NEW x
    PROVE  /\ x.type \in {"int8", "int64"} => Body(x) = Varint(x.holds[1])
           /\ x.type \in {"uint8", "uint64"} => Body(x) = Uvarint[x.holds[1]]
           /\ x.type \in {"string", "bytes", "raw"} => Body(x) = Text(x.holds)
           /\ x.type = "time" => Body(x) = Varint(x.holds[1]) \o Uvarint[x.holds[2]]
           /\ x.type \in {"nil", "float32", "float64", "bool"} => Body(x) = x.holds
BY DEF Body

\* What a value holds when it is read again: a time is in UTC.
KeptAs(x) == IF x.type = "time" THEN <<x.holds[1], x.holds[2], 0>> ELSE x.holds

\* Only of a time something is lost.
LEMMA KeptAsIs ==
    ASSUME NEW x
    PROVE  /\ x.type # "time" => KeptAs(x) = x.holds
           /\ x.type = "time" => KeptAs(x) = <<x.holds[1], x.holds[2], 0>>
BY DEF KeptAs

\* What a value that is stored holds, by its type.
LEMMA StorableIs ==
    ASSUME NEW x \in GoValues, Storable(x)
    PROVE  \/ x.type = "nil" /\ x.holds = <<>>
           \/ x.type \in {"int8", "int64"} /\ \E v \in Signed64 : x.holds = <<v>>
           \/ x.type \in {"uint8", "uint64"} /\ \E v \in Unsigned64 : x.holds = <<v>>
           \/ x.type = "float32" /\ x.holds \in Exactly(1)
           \/ x.type = "float64" /\ x.holds \in Exactly(2)
           \/ x.type = "bool" /\ x.holds \in Bools
           \/ x.type \in {"string", "bytes"} /\ x.holds \in Texts
           \/ x.type = "time" /\ \E sec \in Signed64, nsec \in 0 .. Second - 1, zone \in {0, 1} :
                 x.holds = <<sec, nsec, zone>>
           \/ x.type = "raw" /\ x.holds \in RawTexts
<1>1. x.type # "json" /\ (x.type = "raw" => ValidRaw(x.holds))
  BY TagsAre DEF Storable
<1>2. CASE x \in [type : {"nil"}, holds : {<<>>}]
  BY <1>2
<1>3. CASE x \in [type : {"int8", "int64"}, holds : {<<v>> : v \in Signed64}]
  BY <1>3
<1>4. CASE x \in [type : {"uint8", "uint64"}, holds : {<<v>> : v \in Unsigned64}]
  BY <1>4
<1>5. CASE x \in [type : {"float32"}, holds : {<<a>> : a \in Byte}]
  <2>1. PICK a \in Byte : x.holds = <<a>>
    BY <1>5
  <2>2. <<a>> \in Exactly(1)
    BY DEF Exactly
  <2> QED
    BY <1>5, <2>1, <2>2
<1>6. CASE x \in [type : {"float64"}, holds : {<<a, b>> : a, b \in Byte}]
  <2>1. PICK a \in Byte, b \in Byte : x.holds = <<a, b>>
    BY <1>6
  <2>2. <<a, b>> \in Exactly(2)
    BY DEF Exactly
  <2> QED
    BY <1>6, <2>1, <2>2
<1>7. CASE x \in [type : {"bool"}, holds : {<<0>>, <<1>>}]
  BY <1>7 DEF Bools
<1>8. CASE x \in [type : {"string", "bytes", "raw"}, holds : Texts]
  BY <1>1, <1>8 DEF RawTexts
<1>9. CASE x \in [type : {"time"}, holds : {<<sec, nsec, zone>> :
            sec \in Signed64, nsec \in 0 .. Second - 1, zone \in {0, 1}}]
  BY <1>9
<1>10. CASE x \in [type : {"json"}, holds : {<<>>}]
  BY <1>1, <1>10
<1> QED
  BY <1>2, <1>3, <1>4, <1>5, <1>6, <1>7, <1>8, <1>9, <1>10 DEF GoValues

\* What is written behind the tag is read behind it, and what follows left.
LEMMA BodyBack ==
    ASSUME NEW x \in GoValues, Storable(x), NEW t \in Seq(Byte)
    PROVE  /\ Tag[x.type] \in 0 .. 9
           /\ Body(x) \in Seq(Byte) /\ KeptAs(x) \in HeldAs(Tag[x.type])
           /\ Holds(Tag[x.type], Body(x) \o t) = Got(KeptAs(x), t)
<1>1. CASE x.type = "nil" /\ x.holds = <<>>
  <2>1. PICK h : h = <<>> /\ HeldAs(0) = {h}
    BY HeldAsIs
  <2>2. Body(x) = h /\ KeptAs(x) = h /\ Tag[x.type] = 0
    BY <1>1, <2>1, BodyIs, KeptAsIs, TagsAre
  <2>3. h \in Seq(Byte) /\ h \o t = t
    BY <2>1, ConcatEmptySeq
  <2>4. Holds(0, h \o t) = Got(h, t)
    BY <2>1, <2>3, HoldsIs
  <2> QED
    BY <2>1, <2>2, <2>3, <2>4
<1>2. CASE x.type \in {"int8", "int64"} /\ \E v \in Signed64 : x.holds = <<v>>
  <2>0. PICK v \in Signed64 : x.holds = <<v>>
    BY <1>2
  <2>1. PICK h : h = <<v>> /\ x.holds = h /\ h[1] = v
    <3>1. <<v>>[1] = v
      OBVIOUS
    <3>2. PICK h : h = <<v>>
      OBVIOUS
    <3> QED
      BY <2>0, <3>1, <3>2
  <2>2. Body(x) = Varint(v) /\ KeptAs(x) = h /\ Tag[x.type] = 1
    BY <1>2, <2>1, BodyIs, KeptAsIs, TagsAre
  <2>3. Varint(v) \in Seq(Byte) /\ ReadVarint(Varint(v) \o t) = Got(v, t)
    BY VarintBack
  <2>4. AsSequence(ReadVarint(Varint(v) \o t)) = Got(h, t)
    BY <2>1, <2>3, AsSequenceGot
  <2>5. h \in HeldAs(1)
    BY <2>1, HeldAsIs DEF Alone
  <2> QED
    BY <2>2, <2>3, <2>4, <2>5, HoldsIs
<1>3. CASE x.type \in {"uint8", "uint64"} /\ \E v \in Unsigned64 : x.holds = <<v>>
  <2>0. PICK v \in Unsigned64 : x.holds = <<v>>
    BY <1>3
  <2>1. PICK h : h = <<v>> /\ x.holds = h /\ h[1] = v
    <3>1. <<v>>[1] = v
      OBVIOUS
    <3>2. PICK h : h = <<v>>
      OBVIOUS
    <3> QED
      BY <2>0, <3>1, <3>2
  <2>2. PICK u : u = Uvarint[v]
    OBVIOUS
  <2>3. Body(x) = u /\ KeptAs(x) = h /\ Tag[x.type] = 2
    <3>1. Body(x) = Uvarint[x.holds[1]]
      BY <1>3, BodyIs
    <3> QED
      BY <1>3, <2>1, <2>2, <3>1, KeptAsIs, TagsAre
  <2>4. u \in Seq(Byte) /\ ReadUvarint(u \o t) = Got(v, t)
    BY <2>2, UvarintBack, UvarintIs
  <2>5. AsSequence(ReadUvarint(u \o t)) = Got(h, t)
    BY <2>1, <2>4, AsSequenceGot
  <2>6. h \in HeldAs(2)
    BY <2>1, HeldAsIs DEF Alone
  <2> QED
    BY <2>3, <2>4, <2>5, <2>6, HoldsIs
<1>4. CASE x.type = "float32" /\ x.holds \in Exactly(1)
  <2>1. PICK h \in Seq(Byte) : h = x.holds /\ Len(h) = 1
    BY <1>4 DEF Exactly
  <2>2. Body(x) = h /\ KeptAs(x) = h /\ Tag[x.type] = 3
    BY <1>4, <2>1, BodyIs, KeptAsIs, TagsAre
  <2>3. Taken(1, h \o t) = Got(h, t)
    BY <2>1, TakenBack
  <2> QED
    BY <1>4, <2>1, <2>2, <2>3, HoldsIs, HeldAsIs
<1>5. CASE x.type = "float64" /\ x.holds \in Exactly(2)
  <2>1. PICK h \in Seq(Byte) : h = x.holds /\ Len(h) = 2
    BY <1>5 DEF Exactly
  <2>2. Body(x) = h /\ KeptAs(x) = h /\ Tag[x.type] = 4
    BY <1>5, <2>1, BodyIs, KeptAsIs, TagsAre
  <2>3. Taken(2, h \o t) = Got(h, t)
    BY <2>1, TakenBack
  <2> QED
    BY <1>5, <2>1, <2>2, <2>3, HoldsIs, HeldAsIs
<1>6. CASE x.type = "bool" /\ x.holds \in Bools
  <2>1. PICK h \in Bools : h = x.holds
    BY <1>6
  <2>2. Body(x) = h /\ KeptAs(x) = h /\ Tag[x.type] = 5
    BY <1>6, <2>1, BodyIs, KeptAsIs, TagsAre
  <2>3. h \in Seq(Byte) /\ ReadBool(h \o t) = Got(h, t)
    BY BoolBack
  <2> QED
    BY <2>2, <2>3, HoldsIs, HeldAsIs
<1>7. CASE x.type \in {"string", "bytes"} /\ x.holds \in Texts
  <2>1. PICK h \in Texts : h = x.holds
    BY <1>7
  <2>2. Body(x) = Text(h) /\ KeptAs(x) = h /\ Tag[x.type] \in {6, 7}
    BY <1>7, <2>1, BodyIs, KeptAsIs, TagsAre
  <2>3. Text(h) \in Seq(Byte) /\ ReadText(Text(h) \o t) = Got(h, t)
    BY TextBack
  <2> QED
    BY <2>2, <2>3, HoldsIs, HeldAsIs
<1>8. CASE /\ x.type = "time"
           /\ \E sec \in Signed64, nsec \in 0 .. Second - 1, zone \in {0, 1} :
                 x.holds = <<sec, nsec, zone>>
  <2>1. PICK sec \in Signed64, nsec \in 0 .. Second - 1, zone \in {0, 1} :
           x.holds = <<sec, nsec, zone>>
    BY <1>8
  <2>2. x.holds[1] = sec /\ x.holds[2] = nsec
    BY <2>1
  <2>3. PICK u, h : u = Varint(sec) \o Uvarint[nsec] /\ h = <<sec, nsec, 0>>
    OBVIOUS
  <2>4. Body(x) = u /\ KeptAs(x) = h /\ Tag[x.type] = 8
    BY <1>8, <2>2, <2>3, BodyIs, KeptAsIs, TagsAre
  <2>5. u \in Seq(Byte) /\ ReadTime(u \o t) = Got(h, t)
    BY <2>3, TimeBack
  <2>6. h \in Instants
    BY <2>3 DEF Instants
  <2> QED
    BY <2>4, <2>5, <2>6, HoldsIs, HeldAsIs
<1>9. CASE x.type = "raw" /\ x.holds \in RawTexts
  <2>1. PICK h \in RawTexts : h = x.holds
    BY <1>9
  <2>2. Body(x) = Text(h) /\ KeptAs(x) = h /\ Tag[x.type] = 9
    BY <1>9, <2>1, BodyIs, KeptAsIs, TagsAre
  <2>3. Text(h) \in Seq(Byte) /\ ReadRaw(Text(h) \o t) = Got(h, t)
    BY RawBack
  <2> QED
    BY <2>2, <2>3, HoldsIs, HeldAsIs
<1> QED
  BY <1>1, <1>2, <1>3, <1>4, <1>5, <1>6, <1>7, <1>8, <1>9, StorableIs

\* The value a tag and what is behind it are read as.
LEMMA ValueIs ==
    ASSUME NEW b
    PROVE  /\ ReadByte(b) = Refused => ReadValue(b) = Refused
           /\ \A c, t : ReadByte(b) = Got(c, t) =>
                 /\ Holds(c, t) = Refused => ReadValue(b) = Refused
                 /\ \A h, u : Holds(c, t) = Got(h, u) =>
                       ReadValue(b) = Got(Value(TypeRead[c + 1], h), u)
<1>1. PICK r : r = ReadByte(b)
  OBVIOUS
<1>2. r = Refused => ReadValue(b) = Refused
  BY <1>1, RefusedIs DEF ReadValue, Then
<1>3. ASSUME NEW c, NEW t, r = Got(c, t)
      PROVE  /\ Holds(c, t) = Refused => ReadValue(b) = Refused
             /\ \A h, u : Holds(c, t) = Got(h, u) =>
                   ReadValue(b) = Got(Value(TypeRead[c + 1], h), u)
  <2>1. r.ok = TRUE /\ r.is = c /\ r.rest = t
    BY <1>3 DEF Got
  <2>2. PICK s : s = Holds(c, t)
    OBVIOUS
  <2>3. s = Refused => ReadValue(b) = Refused
    BY <1>1, <2>1, <2>2, RefusedIs DEF ReadValue, Then
  <2>4. ASSUME NEW h, NEW u, s = Got(h, u)
        PROVE  ReadValue(b) = Got(Value(TypeRead[c + 1], h), u)
    <3>1. s.ok = TRUE /\ s.is = h /\ s.rest = u
      BY <2>4 DEF Got
    <3> QED
      BY <1>1, <2>1, <2>2, <3>1 DEF ReadValue, Then
  <2> QED
    BY <2>2, <2>3, <2>4
<1> QED
  BY <1>1, <1>2, <1>3

\* The values that are read.
ReadValues == UNION {{Value(TypeRead[c + 1], h) : h \in HeldAs(c)} : c \in 0 .. 9}

\* A value that is read is one of those.
LEMMA ValueReads ==
    ASSUME NEW b \in Seq(Byte)
    PROVE  /\ ReadValue(b) \in Reading(ReadValues)
           /\ \A p \in Seq(Byte) : Carries(ReadValue(b), ReadValue(b \o p), p)
<1>1. /\ ReadByte(b) \in Reading(Byte)
      /\ \A p \in Seq(Byte) : Carries(ReadByte(b), ReadByte(b \o p), p)
  BY ByteReads
<1>2. CASE ReadValue(b) = Refused
  BY <1>2, RefusedReads, CarriesRefused
<1>3. CASE ReadValue(b) # Refused
  <2>1. PICK c \in Byte, t \in Seq(Byte) : ReadByte(b) = Got(c, t)
    <3>1. ReadByte(b) # Refused
      BY <1>3, ValueIs
    <3> QED
      BY <1>1, <3>1 DEF Reading
  <2>2. /\ Holds(c, t) \in Reading(HeldAs(c))
        /\ \A p \in Seq(Byte) : Carries(Holds(c, t), Holds(c, t \o p), p)
    BY HoldsReads
  <2>3. PICK h \in HeldAs(c), u \in Seq(Byte) : Holds(c, t) = Got(h, u)
    <3>1. Holds(c, t) # Refused
      BY <1>3, <2>1, ValueIs
    <3> QED
      BY <2>2, <3>1 DEF Reading
  <2>4. PICK x : x = Value(TypeRead[c + 1], h)
    OBVIOUS
  <2>5. ReadValue(b) = Got(x, u)
    BY <2>1, <2>3, <2>4, ValueIs
  <2>6. x \in ReadValues
    <3>1. c \in 0 .. 9
      BY <2>3, HeldAsIs
    <3> QED
      BY <2>4, <3>1 DEF ReadValues
  <2>7. ASSUME NEW p \in Seq(Byte) PROVE ReadValue(b \o p) = Got(x, u \o p)
    <3>1. ReadByte(b \o p) = Got(c, t \o p)
      BY <1>1, <2>1, CarriesGot
    <3>2. Holds(c, t \o p) = Got(h, u \o p)
      BY <2>2, <2>3, CarriesGot
    <3> QED
      BY <2>4, <3>1, <3>2, ValueIs
  <2> QED
    BY <2>5, <2>6, <2>7, GotReads, CarriesGot
<1> QED
  BY <1>2, <1>3

\* What a value that is stored is read back as.
ReadBack(x) == Value(TypeRead[Tag[x.type] + 1], KeptAs(x))

\* A value is read back.
LEMMA ValueBack ==
    ASSUME NEW x \in GoValues, Storable(x), NEW t \in Seq(Byte)
    PROVE  /\ Tagged(x) \in Seq(Byte) /\ Tagged(x) # <<>>
           /\ ReadValue(Tagged(x) \o t) = Got(ReadBack(x), t)
<1>1. PICK c, w : c = Tag[x.type] /\ w = Body(x)
  OBVIOUS
<1>2. /\ c \in 0 .. 9 /\ w \in Seq(Byte) /\ Holds(c, w \o t) = Got(KeptAs(x), t)
  BY <1>1, BodyBack
<1>3. c \in Byte
  BY <1>2, Sizes DEF Byte
<1>4. PICK s : s = <<c>> /\ s \in Seq(Byte) /\ Len(s) = 1
  <2>1. <<c>> \in Seq(Byte) /\ Len(<<c>>) = 1
    BY <1>3
  <2> QED
    BY <2>1
<1>5. /\ s \o w \in Seq(Byte) /\ w \o t \in Seq(Byte) /\ Len(s \o w) = 1 + Len(w)
  BY <1>2, <1>4, ConcatProperties
<1>6. (s \o w) \o t = s \o (w \o t)
  BY <1>2, <1>4, ConcatAssociative
<1>7. ReadByte(s \o (w \o t)) = Got(c, w \o t)
  BY <1>3, <1>4, <1>5, ByteBack
<1>8. ReadValue(s \o (w \o t)) = Got(ReadBack(x), t)
  BY <1>1, <1>2, <1>7, ValueIs DEF ReadBack
<1>9. Tagged(x) = s \o w
  BY <1>1, <1>4, TaggedIs
<1>10. s \o w # <<>>
  BY <1>2, <1>5, LenProperties
<1> QED
  BY <1>5, <1>6, <1>8, <1>9, <1>10

\* A value is its type and what it holds.
LEMMA ValueHas ==
    ASSUME NEW type, NEW h
    PROVE  Value(type, h).type = type /\ Value(type, h).holds = h
BY DEF Value

\* The type each tag is read as.
LEMMA TypesAre ==
    /\ TypeRead[0 + 1] = "nil" /\ TypeRead[1 + 1] = "int64" /\ TypeRead[2 + 1] = "uint64"
    /\ TypeRead[3 + 1] = "float32" /\ TypeRead[4 + 1] = "float64" /\ TypeRead[5 + 1] = "bool"
    /\ TypeRead[6 + 1] = "string" /\ TypeRead[7 + 1] = "bytes" /\ TypeRead[8 + 1] = "time"
    /\ TypeRead[9 + 1] = "raw"
BY DEF TypeRead

\* What is read could have been stored, and would be read as it is.
LEMMA ReadIsStorable ==
    ASSUME NEW x \in ReadValues
    PROVE  x \in GoValues /\ Storable(x) /\ ReadBack(x) = x
<1>1. PICK c \in 0 .. 9 : \E h \in HeldAs(c) : x = Value(TypeRead[c + 1], h)
  BY DEF ReadValues
<1>2. PICK h \in HeldAs(c) : x = Value(TypeRead[c + 1], h)
  BY <1>1
<1>3. x.type = TypeRead[c + 1] /\ x.holds = h /\ x = [type |-> x.type, holds |-> x.holds]
  BY <1>2 DEF Value
<1>4. Tag[x.type] = c /\ x.type \in DOMAIN Tag /\ (c = 8 <=> x.type = "time")
      /\ (c = 9 <=> x.type = "raw")
  <2>1. c = 0 \/ c = 1 \/ c = 2 \/ c = 3 \/ c = 4 \/ c = 5 \/ c = 6 \/ c = 7 \/ c = 8 \/ c = 9
    OBVIOUS
  <2> QED
    BY <1>3, <2>1, TagsAre, TypesAre
<1>5. Storable(x)
  <2>1. c = 9 => ValidRaw(h)
    BY HeldAsIs DEF RawTexts
  <2> QED
    BY <1>3, <1>4, <2>1 DEF Storable
<1>6. KeptAs(x) = h
  <2>1. CASE c = 8
    <3>1. PICK sec \in Signed64, nsec \in 0 .. Second - 1 : h = <<sec, nsec, 0>>
      BY <2>1, HeldAsIs DEF Instants
    <3>2. h[1] = sec /\ h[2] = nsec
      BY <3>1
    <3> QED
      BY <1>3, <1>4, <2>1, <3>1, <3>2, KeptAsIs
  <2>2. CASE c # 8
    BY <1>3, <1>4, <2>2, KeptAsIs
  <2> QED
    BY <2>1, <2>2
<1>7. ReadBack(x) = x
  BY <1>2, <1>4, <1>6 DEF ReadBack
<1>8. x \in GoValues
  <2>0. Len(h) = 1 /\ h \in Seq(Byte) => h[1] \in Byte /\ h = <<h[1]>>
    OBVIOUS
  <2>1. CASE c = 0
    BY <1>3, <2>1, HeldAsIs, TypesAre DEF GoValues
  <2>2. CASE c = 1
    <3>1. x.type = "int64" /\ h \in {<<v>> : v \in Signed64}
      BY <1>3, <2>2, HeldAsIs, TypesAre DEF Alone
    <3>2. x \in [type : {"int8", "int64"}, holds : {<<v>> : v \in Signed64}]
      BY <1>3, <3>1
    <3> QED
      BY <3>2 DEF GoValues
  <2>3. CASE c = 2
    <3>1. x.type = "uint64" /\ h \in {<<v>> : v \in Unsigned64}
      BY <1>3, <2>3, HeldAsIs, TypesAre DEF Alone
    <3>2. x \in [type : {"uint8", "uint64"}, holds : {<<v>> : v \in Unsigned64}]
      BY <1>3, <3>1
    <3> QED
      BY <3>2 DEF GoValues
  <2>4. CASE c = 3
    <3>1. x.type = "float32" /\ h \in Seq(Byte) /\ Len(h) = 1
      BY <1>3, <2>4, HeldAsIs, TypesAre DEF Exactly
    <3>2. PICK a \in Byte : h = <<a>>
      BY <2>0, <3>1
    <3>3. x \in [type : {"float32"}, holds : {<<a2>> : a2 \in Byte}]
      BY <1>3, <3>1, <3>2
    <3> QED
      BY <3>3 DEF GoValues
  <2>5. CASE c = 4
    <3>1. x.type = "float64" /\ h \in Seq(Byte) /\ Len(h) = 2
      BY <1>3, <2>5, HeldAsIs, TypesAre DEF Exactly
    <3>2. h[1] \in Byte /\ h[2] \in Byte /\ h = <<h[1], h[2]>>
      <4>1. PICK b1, b2 : b1 = h[1] /\ b2 = h[2] /\ b1 \in Byte /\ b2 \in Byte
        BY <3>1
      <4>2. PICK t : t = <<b1, b2>>
        OBVIOUS
      <4>3. t \in Seq(Byte) /\ Len(t) = 2 /\ t[1] = b1 /\ t[2] = b2
        BY <4>1, <4>2
      <4>4. \A i \in 1 .. Len(h) : h[i] = t[i]
        BY <3>1, <4>1, <4>3
      <4>5. h = t
        BY <3>1, <4>3, <4>4, SeqEqual
      <4> QED
        BY <4>1, <4>2, <4>5
    <3>3. PICK a1 \in Byte, a2 \in Byte : h = <<a1, a2>>
      BY <3>2
    <3>4. x \in [type : {"float64"}, holds : {<<b1, b2>> : b1, b2 \in Byte}]
      BY <1>3, <3>1, <3>3
    <3> QED
      BY <3>4 DEF GoValues
  <2>6. CASE c = 5
    <3>1. x.type = "bool" /\ h \in {<<0>>, <<1>>}
      BY <1>3, <2>6, HeldAsIs, TypesAre DEF Bools
    <3>2. x \in [type : {"bool"}, holds : {<<0>>, <<1>>}]
      BY <1>3, <3>1
    <3> QED
      BY <3>2 DEF GoValues
  <2>7. CASE c \in {6, 7, 9}
    <3>1. x.type \in {"string", "bytes", "raw"} /\ h \in Texts
      BY <1>3, <2>7, HeldAsIs, TypesAre DEF RawTexts
    <3>2. x \in [type : {"string", "bytes", "raw"}, holds : Texts]
      BY <1>3, <3>1
    <3> QED
      BY <3>2 DEF GoValues
  <2>8. CASE c = 8
    <3>1. PICK sec \in Signed64, nsec \in 0 .. Second - 1 : h = <<sec, nsec, 0>>
      BY <2>8, HeldAsIs DEF Instants
    <3>2. h \in {<<s, n, zone>> : s \in Signed64, n \in 0 .. Second - 1, zone \in {0, 1}}
      BY <3>1
    <3>3. x.type = "time"
      BY <1>3, <2>8, TypesAre
    <3>4. x \in [type : {"time"}, holds : {<<s, n, zone>> :
                   s \in Signed64, n \in 0 .. Second - 1, zone \in {0, 1}}]
      BY <1>3, <3>2, <3>3
    <3> QED
      BY <3>4 DEF GoValues
  <2> QED
    BY <2>1, <2>2, <2>3, <2>4, <2>5, <2>6, <2>7, <2>8
<1> QED
  BY <1>5, <1>7, <1>8

\* What the first two of three are.
LEMMA FirstTwo ==
    ASSUME NEW a \in Int, NEW b \in Int, NEW c \in Int, NEW s, s = <<a, b, c>>
    PROVE  SubSeq(s, 1, 2) = <<a, b>>
<1>1. s[1] = a /\ s[2] = b
  OBVIOUS
<1>2. \A i \in 1 .. 2 : s[i] \in Int
  BY <1>1
<1>3. PICK q, t : q = SubSeq(s, 1, 2) /\ t = <<a, b>>
  OBVIOUS
<1>4. q \in Seq(Int) /\ Len(q) = 2 /\ \A i \in 1 .. 2 : q[i] = s[i]
  <2>1. /\ q \in Seq(Int) /\ Len(q) = IF 1 <= 2 THEN 2 - 1 + 1 ELSE 0
        /\ \A i \in 1 .. 2 - 1 + 1 : q[i] = s[1 + i - 1]
    BY <1>2, <1>3, SubSeqProperties
  <2>2. \A i \in 1 .. 2 : 1 + i - 1 = i
    OBVIOUS
  <2> QED
    BY <2>1, <2>2
<1>5. t \in Seq(Int) /\ Len(t) = 2 /\ t[1] = a /\ t[2] = b
  BY <1>3
<1>6. \A i \in 1 .. Len(q) : q[i] = t[i]
  BY <1>1, <1>4, <1>5
<1>7. q = t
  BY <1>4, <1>5, <1>6, SeqEqual
<1> QED
  BY <1>3, <1>7

\* What is not to be rendered is told from every literal.
LEMMA Rendered ==
    ASSUME NEW how, how # "none", NEW p
    PROVE  <<how, p>> # Unrendered
BY DEF Unrendered

\* A value that is stored gets the same literal when it is read again.
LEMMA SameLiteral ==
    ASSUME NEW x \in GoValues, Storable(x)
    PROVE  Literal(x) # Unrendered /\ Literal(ReadBack(x)) = Literal(x)
<1>1. PICK y, h : y = ReadBack(x) /\ h = KeptAs(x)
  OBVIOUS
<1>2. y.type = TypeRead[Tag[x.type] + 1] /\ y.holds = h
  BY <1>1, ValueHas DEF ReadBack
<1>3. CASE x.type \in {"int8", "int64", "uint8", "uint64", "bool"}
  <2>1. y.type \in {"int64", "uint64", "bool"} /\ y.holds = x.holds
    BY <1>1, <1>2, <1>3, TagsAre, TypesAre, KeptAsIs
  <2>2. Literal(x) = <<"integer", x.holds>> /\ Literal(y) = <<"integer", x.holds>>
    BY <1>3, <2>1 DEF Literal
  <2> QED
    BY <1>1, <2>2 DEF Unrendered
<1>4. CASE x.type \in {"string", "bytes"}
  <2>1. y.type \in {"string", "bytes"} /\ y.holds = x.holds
    BY <1>1, <1>2, <1>4, TagsAre, TypesAre, KeptAsIs
  <2>2. Literal(x) = <<"quoted", x.holds>> /\ Literal(y) = <<"quoted", x.holds>>
    BY <1>4, <2>1 DEF Literal
  <2> QED
    BY <1>1, <2>2 DEF Unrendered
<1>5. CASE x.type = "time"
  <2>1. PICK sec \in Signed64, nsec \in 0 .. Second - 1, zone \in {0, 1} :
           x.holds = <<sec, nsec, zone>>
    BY <1>5, StorableIs
  <2>2. x.holds[1] = sec /\ x.holds[2] = nsec
    BY <2>1
  <2>3. y.type = "time" /\ y.holds = <<sec, nsec, 0>>
    BY <1>1, <1>2, <1>5, <2>2, TagsAre, TypesAre, KeptAsIs
  <2>4. sec \in Int /\ nsec \in Int /\ zone \in Int
    BY SignedIs, Sizes
  <2>5. SubSeq(x.holds, 1, 2) = <<sec, nsec>> /\ SubSeq(y.holds, 1, 2) = <<sec, nsec>>
    <3>1. PICK zero : zero = 0 /\ zero \in Int
      OBVIOUS
    <3>2. y.holds = <<sec, nsec, zero>>
      BY <2>3, <3>1
    <3> QED
      BY <2>1, <2>4, <3>1, <3>2, FirstTwo
  <2>6. PICK p : p = <<sec, nsec>>
    OBVIOUS
  <2>7. Literal(x) = <<"quoted time", p>> /\ Literal(y) = <<"quoted time", p>>
    BY <1>5, <2>3, <2>5, <2>6 DEF Literal
  <2>8. <<"quoted time", p>> # Unrendered
    BY Rendered
  <2> QED
    BY <1>1, <2>7, <2>8
<1>6. CASE x.type = "raw"
  <2>1. y.type = "raw" /\ y.holds = x.holds
    BY <1>1, <1>2, <1>6, TagsAre, TypesAre, KeptAsIs
  <2>2. ValidRaw(x.holds)
    BY <1>6 DEF Storable
  <2>3. Literal(x) = <<"unquoted", x.holds>> /\ Literal(y) = <<"unquoted", x.holds>>
    BY <1>6, <2>1, <2>2 DEF Literal
  <2> QED
    BY <1>1, <2>3 DEF Unrendered
<1>7. CASE x.type \in {"nil", "float32", "float64"}
  <2>1. y.type = x.type /\ y.holds = x.holds
    BY <1>1, <1>2, <1>7, TagsAre, TypesAre, KeptAsIs
  <2>2. Literal(x) = <<x.type, x.holds>> /\ Literal(y) = <<x.type, x.holds>>
    BY <1>7, <2>1 DEF Literal
  <2>3. x.type # "none"
    BY <1>7
  <2> QED
    BY <1>1, <2>2, <2>3 DEF Unrendered
<1> QED
  BY <1>3, <1>4, <1>5, <1>6, <1>7, StorableIs

\* Two values of one type are read as the same just when they are.
LEMMA SameWhenSame ==
    ASSUME NEW x \in GoValues, Storable(x), NEW y \in GoValues, Storable(y),
           x.type = y.type
    PROVE  (ReadBack(x) = ReadBack(y)) = (Instant(x) = Instant(y))
<1>1. ReadBack(x) = ReadBack(y) <=> KeptAs(x) = KeptAs(y)
  <2>1. ReadBack(x).holds = KeptAs(x) /\ ReadBack(y).holds = KeptAs(y)
    BY ValueHas DEF ReadBack
  <2> QED
    BY <2>1 DEF ReadBack
<1>2. CASE x.type # "time"
  <2>1. KeptAs(x) = x.holds /\ KeptAs(y) = y.holds
    BY <1>2, KeptAsIs
  <2>2. Instant(x) = x.holds /\ Instant(y) = y.holds
    BY <1>2 DEF Instant
  <2> QED
    BY <1>1, <2>1, <2>2
<1>3. CASE x.type = "time"
  <2>1. PICK sec \in Signed64, nsec \in 0 .. Second - 1, zone \in {0, 1} :
           x.holds = <<sec, nsec, zone>>
    BY <1>3, StorableIs
  <2>2. PICK sec2 \in Signed64, nsec2 \in 0 .. Second - 1, zone2 \in {0, 1} :
           y.holds = <<sec2, nsec2, zone2>>
    BY <1>3, StorableIs
  <2>3. sec \in Int /\ nsec \in Int /\ zone \in Int /\ sec2 \in Int /\ nsec2 \in Int /\ zone2 \in Int
    BY SignedIs, Sizes
  <2>4. Instant(x) = <<sec, nsec>> /\ Instant(y) = <<sec2, nsec2>>
    <3>1. SubSeq(x.holds, 1, 2) = <<sec, nsec>> /\ SubSeq(y.holds, 1, 2) = <<sec2, nsec2>>
      BY <2>1, <2>2, <2>3, FirstTwo
    <3> QED
      BY <1>3, <3>1 DEF Instant
  <2>5. x.holds[1] = sec /\ x.holds[2] = nsec /\ y.holds[1] = sec2 /\ y.holds[2] = nsec2
    BY <2>1, <2>2
  <2>6. KeptAs(x) = <<sec, nsec, 0>> /\ KeptAs(y) = <<sec2, nsec2, 0>>
    BY <1>3, <2>5, KeptAsIs
  <2>7. <<sec, nsec, 0>> = <<sec2, nsec2, 0>> <=> sec = sec2 /\ nsec = nsec2
    OBVIOUS
  <2>8. <<sec, nsec>> = <<sec2, nsec2>> <=> sec = sec2 /\ nsec = nsec2
    OBVIOUS
  <2> QED
    BY <1>1, <2>4, <2>6, <2>7, <2>8
<1> QED
  BY <1>2, <1>3

\* The value a stored one is read back as is one of those that are read.
LEMMA ReadBackIsRead ==
    ASSUME NEW x \in GoValues, Storable(x)
    PROVE  ReadBack(x) \in ReadValues
<1>1. <<>> \in Seq(Byte)
  OBVIOUS
<1>2. Tag[x.type] \in 0 .. 9 /\ KeptAs(x) \in HeldAs(Tag[x.type])
  BY <1>1, BodyBack
<1> QED
  BY <1>2 DEF ReadBack, ReadValues

----------------------------------------------------------------------------
(***************************************************************************)
(* A column                                                                *)
(***************************************************************************)
\* What is written of a column, and the column a name and its flags make.
Marked(c) == Text(c.name) \o <<Flags(c)>>
Column(name, flags) ==
    [name |-> name, key |-> flags % 2 = 1, readOnly |-> flags \div 2 = 1]

\* The flags of a column make the same column.
LEMMA FlagsBack ==
    ASSUME NEW c \in GoColumns
    PROVE  /\ Flags(c) \in KnownFlags /\ Flags(c) \in Byte
           /\ Column(c.name, Flags(c)) = c
<1>1. c.key \in BOOLEAN /\ c.readOnly \in BOOLEAN
      /\ c = [name |-> c.name, key |-> c.key, readOnly |-> c.readOnly]
  BY DEF GoColumns
<1>2. KnownFlags \subseteq Byte
  BY Sizes DEF KnownFlags, Byte
<1>3. PICK f : f = Flags(c)
  OBVIOUS
<1>4. /\ c.key /\ c.readOnly => f = 3
      /\ c.key /\ ~ c.readOnly => f = 1
      /\ ~ c.key /\ c.readOnly => f = 2
      /\ ~ c.key /\ ~ c.readOnly => f = 0
  BY <1>3 DEF Flags
<1>5. f \in KnownFlags
  BY <1>1, <1>4 DEF KnownFlags
<1>6. (f % 2 = 1) = c.key /\ (f \div 2 = 1) = c.readOnly
  BY <1>1, <1>4
<1>7. Column(c.name, f) = c
  BY <1>1, <1>6 DEF Column
<1> QED
  BY <1>2, <1>3, <1>5, <1>7

\* A column, case by case.
LEMMA ColumnIs ==
    ASSUME NEW b
    PROVE  /\ ReadText(b) = Refused => ReadColumn(b) = Refused
           /\ \A name, t : ReadText(b) = Got(name, t) =>
                 /\ ReadByte(t) = Refused => ReadColumn(b) = Refused
                 /\ \A f, u : ReadByte(t) = Got(f, u) =>
                       ReadColumn(b) =
                          IF f \in KnownFlags THEN Got(Column(name, f), u) ELSE Refused
<1>1. PICK r : r = ReadText(b)
  OBVIOUS
<1>2. r = Refused => ReadColumn(b) = Refused
  BY <1>1, RefusedIs DEF ReadColumn, Then
<1>3. ASSUME NEW name, NEW t, r = Got(name, t)
      PROVE  /\ ReadByte(t) = Refused => ReadColumn(b) = Refused
             /\ \A f, u : ReadByte(t) = Got(f, u) =>
                   ReadColumn(b) =
                      IF f \in KnownFlags THEN Got(Column(name, f), u) ELSE Refused
  <2>1. r.ok = TRUE /\ r.is = name /\ r.rest = t
    BY <1>3 DEF Got
  <2>2. PICK s : s = ReadByte(t)
    OBVIOUS
  <2>3. s = Refused => ReadColumn(b) = Refused
    BY <1>1, <2>1, <2>2, RefusedIs DEF ReadColumn, Then, Only
  <2>4. ASSUME NEW f, NEW u, s = Got(f, u)
        PROVE  ReadColumn(b) =
                  IF f \in KnownFlags THEN Got(Column(name, f), u) ELSE Refused
    <3>1. s.ok = TRUE /\ s.is = f /\ s.rest = u
      BY <2>4 DEF Got
    <3>2. ASSUME f \in KnownFlags PROVE ReadColumn(b) = Got(Column(name, f), u)
      BY <1>1, <2>1, <2>2, <3>1, <3>2 DEF ReadColumn, Then, Only, Column
    <3>3. ASSUME f \notin KnownFlags PROVE ReadColumn(b) = Refused
      BY <1>1, <2>1, <2>2, <3>1, <3>3, RefusedIs DEF ReadColumn, Then, Only
    <3> QED
      BY <3>2, <3>3
  <2> QED
    BY <2>2, <2>3, <2>4
<1> QED
  BY <1>1, <1>2, <1>3

\* A column that is read is one.
LEMMA ColumnReads ==
    ASSUME NEW b \in Seq(Byte)
    PROVE  /\ ReadColumn(b) \in Reading(GoColumns)
           /\ \A p \in Seq(Byte) : Carries(ReadColumn(b), ReadColumn(b \o p), p)
<1>1. /\ ReadText(b) \in Reading(Texts)
      /\ \A p \in Seq(Byte) : Carries(ReadText(b), ReadText(b \o p), p)
  BY TextReads
<1>2. CASE ReadColumn(b) = Refused
  BY <1>2, RefusedReads, CarriesRefused
<1>3. CASE ReadColumn(b) # Refused
  <2>1. PICK name \in Texts, t \in Seq(Byte) : ReadText(b) = Got(name, t)
    <3>1. ReadText(b) # Refused
      BY <1>3, ColumnIs
    <3> QED
      BY <1>1, <3>1 DEF Reading
  <2>2. /\ ReadByte(t) \in Reading(Byte)
        /\ \A p \in Seq(Byte) : Carries(ReadByte(t), ReadByte(t \o p), p)
    BY ByteReads
  <2>3. PICK f \in Byte, u \in Seq(Byte) : ReadByte(t) = Got(f, u)
    <3>1. ReadByte(t) # Refused
      BY <1>3, <2>1, ColumnIs
    <3> QED
      BY <2>2, <3>1 DEF Reading
  <2>4. PICK c : c = Column(name, f)
    OBVIOUS
  <2>5. ReadColumn(b) = IF f \in KnownFlags THEN Got(c, u) ELSE Refused
    BY <2>1, <2>3, <2>4, ColumnIs
  <2>6. f \in KnownFlags /\ ReadColumn(b) = Got(c, u)
    BY <1>3, <2>5
  <2>7. c \in GoColumns
    BY <2>4 DEF Column, GoColumns
  <2>8. ASSUME NEW p \in Seq(Byte) PROVE ReadColumn(b \o p) = Got(c, u \o p)
    <3>1. ReadText(b \o p) = Got(name, t \o p)
      BY <1>1, <2>1, CarriesGot
    <3>2. ReadByte(t \o p) = Got(f, u \o p)
      BY <2>2, <2>3, CarriesGot
    <3>3. ReadColumn(b \o p) = IF f \in KnownFlags THEN Got(c, u \o p) ELSE Refused
      BY <2>4, <3>1, <3>2, ColumnIs, SMTT(30)
    <3> QED
      BY <2>6, <3>3
  <2> QED
    BY <2>6, <2>7, <2>8, GotReads, CarriesGot
<1> QED
  BY <1>2, <1>3

\* A number takes a byte.
LEMMA UvarintTakes == ASSUME NEW v \in Unsigned64 PROVE Len(Uvarint[v]) >= 1
<1>1. CASE v < Half
  <2>1. Uvarint[v] = <<v>>
    BY <1>1, UvarintIs DEF DigitsFrom
  <2>2. Len(<<v>>) = 1
    OBVIOUS
  <2> QED
    BY <2>1, <2>2
<1>2. CASE ~ (v < Half)
  <2>1. PICK d, q : d = (v % Half) + Half /\ q = Uvarint[v \div Half]
    OBVIOUS
  <2>2. d \in Byte /\ q \in Seq(Byte)
    BY <2>1, Shorter, UvarintIs
  <2>3. Uvarint[v] = <<d>> \o q
    BY <1>2, <2>1, UvarintIs DEF DigitsFrom
  <2>4. <<d>> \in Seq(Byte) /\ Len(<<d>>) = 1
    BY <2>2
  <2>5. Len(<<d>> \o q) = 1 + Len(q) /\ Len(q) \in Nat
    BY <2>2, <2>4, ConcatProperties, LenProperties
  <2> QED
    BY <2>3, <2>5
<1> QED
  BY <1>1, <1>2

\* A column is read back, and takes two bytes or more.
LEMMA ColumnBack ==
    ASSUME NEW c \in GoColumns, NEW t \in Seq(Byte)
    PROVE  /\ Marked(c) \in Seq(Byte) /\ Len(Marked(c)) >= 2
           /\ ReadColumn(Marked(c) \o t) = Got(c, t)
<1>1. PICK f, s, w : f = Flags(c) /\ s = <<f>> /\ w = Text(c.name)
  OBVIOUS
<1>2. f \in Byte /\ f \in KnownFlags /\ Column(c.name, f) = c
  BY <1>1, FlagsBack
<1>3. s \in Seq(Byte) /\ Len(s) = 1
  <2>1. <<f>> \in Seq(Byte) /\ Len(<<f>>) = 1
    BY <1>2
  <2> QED
    BY <1>1, <2>1
<1>4. c.name \in Texts
  BY DEF GoColumns
<1>5. w \in Seq(Byte)
  BY <1>1, <1>4, TextBack
<1>6. s \o t \in Seq(Byte) /\ w \o s \in Seq(Byte) /\ Len(w \o s) = Len(w) + 1
  <2>1. s \o t \in Seq(Byte)
    BY <1>3, ConcatProperties
  <2>2. w \o s \in Seq(Byte) /\ Len(w \o s) = Len(w) + Len(s)
    BY <1>3, <1>5, ConcatProperties
  <2> QED
    BY <1>3, <2>1, <2>2
<1>7. (w \o s) \o t = w \o (s \o t)
  BY <1>3, <1>5, ConcatAssociative
<1>8. ReadText(w \o (s \o t)) = Got(c.name, s \o t)
  BY <1>1, <1>4, <1>6, TextBack
<1>9. ReadByte(s \o t) = Got(f, t)
  BY <1>1, <1>2, ByteBack
<1>10. ReadColumn(w \o (s \o t)) = Got(c, t)
  BY <1>2, <1>8, <1>9, ColumnIs
<1>11. Len(w) >= 1 /\ Len(w) \in Nat
  <2>1. PICK u : u = Uvarint[Len(c.name)]
    OBVIOUS
  <2>2. u \in Seq(Byte) /\ Len(u) >= 1 /\ c.name \in Seq(Byte)
    BY <1>4, <2>1, UvarintIs, UvarintTakes DEF Texts
  <2>3. Len(u \o c.name) = Len(u) + Len(c.name) /\ Len(u) \in Nat /\ Len(c.name) \in Nat
    BY <2>2, ConcatProperties, LenProperties
  <2>4. w = u \o c.name
    BY <1>1, <2>1 DEF Text
  <2> QED
    BY <2>2, <2>3, <2>4
<1>12. Marked(c) = w \o s
  BY <1>1 DEF Marked
<1>13. Len(w \o s) >= 2
  BY <1>6, <1>11
<1> QED
  BY <1>6, <1>7, <1>10, <1>12, <1>13

----------------------------------------------------------------------------
(***************************************************************************)
(* A value or a column                                                     *)
(***************************************************************************)
Kinds == {"row", "columns"}

\* What may be written, what is written of it, what that is read back as, and
\* what is read back as it is.
Writable(kind) == IF kind = "row" THEN {x \in GoValues : Storable(x)} ELSE GoColumns
Put(kind, x) == IF kind = "row" THEN Tagged(x) ELSE Marked(x)
Back(kind, x) == IF kind = "row" THEN ReadBack(x) ELSE x
Steady(kind) == {x \in Writable(kind) : Back(kind, x) = x}

\* An item that is read could be written, and would be read as it is.
LEMMA ItemReads ==
    ASSUME NEW kind \in Kinds, NEW b \in Seq(Byte)
    PROVE  /\ ReadItem(kind, b) \in Reading(Steady(kind))
           /\ \A p \in Seq(Byte) : Carries(ReadItem(kind, b), ReadItem(kind, b \o p), p)
<1>1. CASE kind = "row"
  <2>1. /\ ReadValue(b) \in Reading(ReadValues)
        /\ \A p \in Seq(Byte) : Carries(ReadValue(b), ReadValue(b \o p), p)
    BY ValueReads
  <2>2. ReadValues \subseteq Steady(kind)
    BY <1>1, ReadIsStorable DEF Steady, Writable, Back
  <2>3. ReadValue(b) \in Reading(Steady(kind))
    BY <2>1, <2>2 DEF Reading
  <2> QED
    BY <1>1, <2>1, <2>3 DEF ReadItem
<1>2. CASE kind # "row"
  <2>1. /\ ReadColumn(b) \in Reading(GoColumns)
        /\ \A p \in Seq(Byte) : Carries(ReadColumn(b), ReadColumn(b \o p), p)
    BY ColumnReads
  <2>2. Steady(kind) = GoColumns
    BY <1>2 DEF Steady, Writable, Back
  <2> QED
    BY <1>2, <2>1, <2>2 DEF ReadItem
<1> QED
  BY <1>1, <1>2

\* An item is read back, and takes as many bytes as are counted for it.
LEMMA ItemBack ==
    ASSUME NEW kind \in Kinds, NEW x \in Writable(kind), NEW t \in Seq(Byte)
    PROVE  /\ Put(kind, x) \in Seq(Byte) /\ Len(Put(kind, x)) >= Least[kind]
           /\ Back(kind, x) \in Steady(kind)
           /\ ReadItem(kind, Put(kind, x) \o t) = Got(Back(kind, x), t)
<1>1. CASE kind = "row"
  <2>1. x \in GoValues /\ Storable(x)
    BY <1>1 DEF Writable
  <2>2. PICK w : w = Tagged(x)
    OBVIOUS
  <2>3. w \in Seq(Byte) /\ w # <<>> /\ ReadValue(w \o t) = Got(ReadBack(x), t)
    BY <2>1, <2>2, ValueBack
  <2>4. Len(w) >= 1
    <3>1. Len(w) \in Nat /\ Len(w) # 0
      BY <2>3, LenProperties, EmptySeq
    <3> QED
      BY <3>1
  <2>5. ReadBack(x) \in Steady(kind)
    <3>1. ReadBack(x) \in ReadValues
      BY <2>1, ReadBackIsRead
    <3>2. PICK y : y = ReadBack(x)
      OBVIOUS
    <3>3. y \in GoValues /\ Storable(y) /\ ReadBack(y) = y
      BY <3>1, <3>2, ReadIsStorable
    <3>4. y \in Steady(kind)
      BY <1>1, <3>3 DEF Steady, Writable, Back
    <3> QED
      BY <3>2, <3>4
  <2>6. Put(kind, x) = w /\ Back(kind, x) = ReadBack(x) /\ Least[kind] = 1
    BY <1>1, <2>2 DEF Put, Back, Least
  <2>7. ReadItem(kind, w \o t) = ReadValue(w \o t)
    BY <1>1 DEF ReadItem
  <2> QED
    BY <2>3, <2>4, <2>5, <2>6, <2>7
<1>2. CASE kind # "row"
  <2>1. x \in GoColumns
    BY <1>2 DEF Writable
  <2>2. PICK w : w = Marked(x)
    OBVIOUS
  <2>3. w \in Seq(Byte) /\ Len(w) >= 2 /\ ReadColumn(w \o t) = Got(x, t)
    BY <2>1, <2>2, ColumnBack
  <2>4. x \in Steady(kind)
    BY <1>2, <2>1 DEF Steady, Writable, Back
  <2>5. Put(kind, x) = w /\ Back(kind, x) = x /\ Least[kind] = 2
    BY <1>2, <2>2 DEF Put, Back, Least, Kinds
  <2>6. ReadItem(kind, w \o t) = ReadColumn(w \o t)
    BY <1>2 DEF ReadItem
  <2> QED
    BY <2>3, <2>4, <2>5, <2>6
<1> QED
  BY <1>1, <1>2

----------------------------------------------------------------------------
(***************************************************************************)
(* One after the other                                                     *)
(***************************************************************************)
\* f has each sequence of seqs put behind those before it.
Chained(seqs, f) ==
    /\ f \in [0 .. Len(seqs) -> Seq(Byte)] /\ f[0] = <<>>
    /\ \A n \in 0 .. Len(seqs) - 1 : f[n + 1] = f[n] \o seqs[n + 1]

\* Concatenated is what its definition says.
LEMMA ConcatenatedIs ==
    ASSUME NEW seqs \in Seq(Seq(Byte))
    PROVE  \E f : Chained(seqs, f) /\ Concatenated(seqs) = f[Len(seqs)]
<1> DEFINE A == Seq(Byte)
<1> DEFINE G == [p \in Nat \X A |->
                   IF p[1] < Len(seqs) THEN p[2] \o seqs[p[1] + 1] ELSE p[2]]
<1>1. G \in Stepping(A)
  <2>1. ASSUME NEW p \in Nat \X A
        PROVE  (IF p[1] < Len(seqs) THEN p[2] \o seqs[p[1] + 1] ELSE p[2]) \in A
    <3>1. p[2] \in Seq(Byte) /\ p[1] \in Nat /\ Len(seqs) \in Nat
      BY LenProperties
    <3>2. CASE p[1] < Len(seqs)
      <4>1. seqs[p[1] + 1] \in Seq(Byte)
        BY <3>1, <3>2
      <4>2. p[2] \o seqs[p[1] + 1] \in Seq(Byte)
        BY <3>1, <4>1, ConcatProperties
      <4> QED
        BY <3>2, <4>2
    <3> QED
      BY <3>1, <3>2
  <2> QED
    BY <2>1 DEF Stepping
<1>2. \A n \in Nat, q \in A : n < Len(seqs) => G[<<n, q>>] = q \o seqs[n + 1]
  OBVIOUS
<1>3. <<>> \in A
  OBVIOUS
<1> HIDE DEF G
<1>4. PICK h : Defined(<<>>, G, A, h)
  <2> HIDE DEF A
  <2> QED
    BY <1>1, <1>3, Recursion
<1> DEFINE f == [n \in 0 .. Len(seqs) |-> h[n]]
<1>5. h \in [Nat -> Seq(Byte)] /\ h[0] = <<>> /\ \A n \in Nat : h[n + 1] = G[<<n, h[n]>>]
  BY <1>4 DEF Defined
<1>6. Len(seqs) \in Nat
  BY LenProperties
<1>7. f \in [0 .. Len(seqs) -> Seq(Byte)] /\ f[0] = <<>>
  BY <1>5, <1>6
<1>8. ASSUME NEW n \in 0 .. Len(seqs) - 1 PROVE f[n + 1] = f[n] \o seqs[n + 1]
  <2>1. n \in Nat /\ n < Len(seqs) /\ n \in 0 .. Len(seqs) /\ n + 1 \in 0 .. Len(seqs)
    BY <1>6
  <2>2. h[n] \in A /\ h[n + 1] = G[<<n, h[n]>>]
    BY <1>5, <2>1
  <2>3. h[n + 1] = h[n] \o seqs[n + 1]
    BY <1>2, <2>1, <2>2
  <2>4. f[n] = h[n] /\ f[n + 1] = h[n + 1]
    BY <2>1
  <2> QED
    BY <2>3, <2>4
<1> HIDE DEF f
<1>9. f = [n \in 0 .. Len(seqs) |-> IF n = 0 THEN <<>> ELSE f[n - 1] \o seqs[n]]
  <2>1. ASSUME NEW n \in 0 .. Len(seqs)
        PROVE  f[n] = IF n = 0 THEN <<>> ELSE f[n - 1] \o seqs[n]
    <3>1. CASE n = 0
      BY <1>7, <3>1
    <3>2. CASE n # 0
      <4>1. PICK m : m = n - 1 /\ m \in 0 .. Len(seqs) - 1 /\ m + 1 = n
        BY <1>6, <3>2
      <4>2. f[m + 1] = f[m] \o seqs[m + 1]
        BY <1>8, <4>1
      <4> QED
        BY <3>2, <4>1, <4>2
    <3> QED
      BY <3>1, <3>2
  <2> QED
    BY <1>7, <2>1
<1>10. Concatenated(seqs) = f[Len(seqs)]
  <2> DEFINE upTo[n \in 0 .. Len(seqs)] ==
               IF n = 0 THEN <<>> ELSE upTo[n - 1] \o seqs[n]
  <2>1. upTo = [n \in 0 .. Len(seqs) |-> IF n = 0 THEN <<>> ELSE upTo[n - 1] \o seqs[n]]
    BY <1>9
  <2>2. Concatenated(seqs) = upTo[Len(seqs)]
    BY DEF Concatenated
  <2> HIDE DEF upTo
  <2> DEFINE S == {n \in Nat : n <= Len(seqs) => upTo[n] = f[n]}
  <2>3. 0 \in S
    <3>1. 0 \in 0 .. Len(seqs)
      BY <1>6
    <3> QED
      BY <1>7, <2>1, <3>1
  <2>4. ASSUME NEW n \in Nat, n \in S PROVE n + 1 \in S
    <3>1. ASSUME n + 1 <= Len(seqs) PROVE upTo[n + 1] = f[n + 1]
      <4>1. PICK m : m = n + 1 /\ m \in 0 .. Len(seqs) /\ m # 0 /\ m - 1 = n
        BY <1>6, <3>1
      <4>2. upTo[m] = upTo[n] \o seqs[m]
        BY <2>1, <4>1
      <4>3. upTo[n] = f[n]
        BY <1>6, <2>4, <3>1
      <4>4. f[m] = f[n] \o seqs[m]
        BY <1>9, <4>1
      <4> QED
        BY <4>1, <4>2, <4>3, <4>4
    <3> QED
      BY <3>1
  <2> HIDE DEF S
  <2>5. Nat \subseteq S
    BY <2>3, <2>4, NatSets
  <2> QED
    BY <1>6, <2>2, <2>5 DEF S
<1>11. Chained(seqs, f)
  BY <1>7, <1>8 DEF Chained
<1> QED
  BY <1>10, <1>11

\* One item more.
MoreItems(kind, r) ==
    Then(r, LAMBDA items, rest :
        Then(ReadItem(kind, rest), LAMBDA item, left :
            Got(Append(items, item), left)))

\* After a refusal nothing is read.
LEMMA MoreItemsRefused == ASSUME NEW kind PROVE MoreItems(kind, Refused) = Refused
BY RefusedIs DEF MoreItems, Then

\* Otherwise one item is, or the record is refused.
LEMMA MoreItemsIs ==
    ASSUME NEW kind, NEW r, NEW items, NEW t, r = Got(items, t)
    PROVE  /\ ReadItem(kind, t) = Refused => MoreItems(kind, r) = Refused
           /\ \A x, u : ReadItem(kind, t) = Got(x, u) =>
                 MoreItems(kind, r) = Got(Append(items, x), u)
<1>1. r.ok = TRUE /\ r.is = items /\ r.rest = t
  BY DEF Got
<1>2. PICK s : s = ReadItem(kind, t)
  OBVIOUS
<1>3. s = Refused => MoreItems(kind, r) = Refused
  BY <1>1, <1>2, RefusedIs DEF MoreItems, Then
<1>4. ASSUME NEW x, NEW u, s = Got(x, u)
      PROVE  MoreItems(kind, r) = Got(Append(items, x), u)
  <2>1. s.ok = TRUE /\ s.is = x /\ s.rest = u
    BY <1>4 DEF Got
  <2> QED
    BY <1>1, <1>2, <2>1 DEF MoreItems, Then
<1> QED
  BY <1>2, <1>3, <1>4

\* So many items that are read.
ItemsOf(kind, n) == {s \in Seq(Steady(kind)) : Len(s) = n}

\* There is one item more, or a refusal.
LEMMA MoreItemsReads ==
    ASSUME NEW kind \in Kinds, NEW n \in Nat, NEW r \in Reading(ItemsOf(kind, n)),
           NEW s, NEW q \in Seq(Byte), Carries(r, s, q)
    PROVE  /\ MoreItems(kind, r) \in Reading(ItemsOf(kind, n + 1))
           /\ Carries(MoreItems(kind, r), MoreItems(kind, s), q)
<1>1. CASE MoreItems(kind, r) = Refused
  BY <1>1, RefusedReads, CarriesRefused
<1>2. CASE MoreItems(kind, r) # Refused
  <2>1. PICK items \in ItemsOf(kind, n), t \in Seq(Byte) : r = Got(items, t)
    <3>1. r # Refused
      BY <1>2, MoreItemsRefused
    <3> QED
      BY <3>1 DEF Reading
  <2>2. /\ ReadItem(kind, t) \in Reading(Steady(kind))
        /\ Carries(ReadItem(kind, t), ReadItem(kind, t \o q), q)
    BY ItemReads
  <2>3. PICK x \in Steady(kind), u \in Seq(Byte) : ReadItem(kind, t) = Got(x, u)
    <3>1. ReadItem(kind, t) # Refused
      BY <1>2, <2>1, MoreItemsIs
    <3> QED
      BY <2>2, <3>1 DEF Reading
  <2>4. PICK more : more = Append(items, x)
    OBVIOUS
  <2>5. MoreItems(kind, r) = Got(more, u)
    BY <2>1, <2>3, <2>4, MoreItemsIs
  <2>6. s = Got(items, t \o q) /\ ReadItem(kind, t \o q) = Got(x, u \o q)
    BY <2>1, <2>2, <2>3, CarriesGot
  <2>7. MoreItems(kind, s) = Got(more, u \o q)
    BY <2>4, <2>6, MoreItemsIs
  <2>8. more \in ItemsOf(kind, n + 1)
    <3>1. items \in Seq(Steady(kind)) /\ Len(items) = n
      BY DEF ItemsOf
    <3>2. more \in Seq(Steady(kind)) /\ Len(more) = n + 1
      BY <2>4, <3>1, AppendProperties
    <3> QED
      BY <3>2 DEF ItemsOf
  <2> QED
    BY <2>5, <2>7, <2>8, GotReads, CarriesGot
<1> QED
  BY <1>1, <1>2

\* A sequence of nothing.
LEMMA Nothing == ASSUME NEW X PROVE <<>> \in Seq(X) /\ Len(<<>>) = 0
OBVIOUS

\* No items are the items of a record without any.
LEMMA NoItems == ASSUME NEW kind PROVE <<>> \in ItemsOf(kind, 0)
BY Nothing DEF ItemsOf

\* ReadItems is what its definition says.
LEMMA ReadItemsIs ==
    ASSUME NEW kind \in Kinds, NEW b \in Seq(Byte)
    PROVE  /\ ReadItems(kind, 0, b) = Got(<<>>, b)
           /\ \A n \in Nat : ReadItems(kind, n + 1, b) = MoreItems(kind, ReadItems(kind, n, b))
<1> DEFINE A == UNION {Reading(ItemsOf(kind, n)) : n \in Nat}
<1> DEFINE G == [p \in Nat \X A |-> MoreItems(kind, p[2])]
<1>1. ASSUME NEW r \in A PROVE MoreItems(kind, r) \in A
  <2>1. PICK n \in Nat : r \in Reading(ItemsOf(kind, n))
    OBVIOUS
  <2>2. CASE r = Refused
    <3>1. MoreItems(kind, r) = r
      BY <2>2, MoreItemsRefused
    <3> QED
      BY <3>1
  <2>3. CASE r # Refused
    <3>1. PICK items \in ItemsOf(kind, n), t \in Seq(Byte) : r = Got(items, t)
      BY <2>1, <2>3 DEF Reading
    <3>2. PICK none \in Seq(Byte) : none = <<>>
      BY Nothing
    <3>3. Carries(r, Got(items, t \o none), none)
      BY <3>1, CarriesGot
    <3>4. MoreItems(kind, r) \in Reading(ItemsOf(kind, n + 1))
      BY <2>1, <3>2, <3>3, MoreItemsReads
    <3> QED
      BY <3>4
  <2> QED
    BY <2>2, <2>3
<1>2. G \in Stepping(A)
  <2>1. \A p \in Nat \X A : MoreItems(kind, p[2]) \in A
    BY <1>1
  <2> HIDE DEF A
  <2> QED
    BY <2>1 DEF Stepping
<1>3. \A n \in Nat, r \in A : G[<<n, r>>] = MoreItems(kind, r)
  OBVIOUS
<1>4. PICK first : first = Got(<<>>, b)
  OBVIOUS
<1>5. first \in A
  <2>1. PICK none \in ItemsOf(kind, 0) : none = <<>>
    BY NoItems
  <2>2. Got(none, b) \in Reading(ItemsOf(kind, 0))
    BY <2>1, GotReads
  <2> QED
    BY <1>4, <2>1, <2>2
<1> HIDE DEF A, G
<1>6. PICK f : Defined(first, G, A, f)
  BY <1>2, <1>5, Recursion
<1>7. f \in [Nat -> A] /\ f[0] = first /\ \A n \in Nat : f[n + 1] = MoreItems(kind, f[n])
  BY <1>3, <1>6 DEF Defined
<1>8. f = [k \in Nat |-> IF k = 0 THEN first ELSE MoreItems(kind, f[k - 1])]
  <2>1. ASSUME NEW k \in Nat
        PROVE  f[k] = IF k = 0 THEN first ELSE MoreItems(kind, f[k - 1])
    <3>1. CASE k = 0
      BY <1>7, <3>1
    <3>2. CASE k # 0
      <4>1. PICK m : m = k - 1 /\ m \in Nat /\ m + 1 = k
        BY <3>2
      <4>2. f[m + 1] = MoreItems(kind, f[m])
        BY <1>7, <4>1
      <4> QED
        BY <3>2, <4>1, <4>2
    <3> QED
      BY <3>1, <3>2
  <2> QED
    BY <1>7, <2>1
<1> DEFINE upTo[k \in Nat] ==
              IF k = 0 THEN Got(<<>>, b) ELSE MoreItems(kind, upTo[k - 1])
<1>9. upTo = [k \in Nat |-> IF k = 0 THEN Got(<<>>, b) ELSE MoreItems(kind, upTo[k - 1])]
  BY <1>4, <1>8
<1>10. \A n : ReadItems(kind, n, b) = upTo[n]
  BY DEF ReadItems, MoreItems
<1> HIDE DEF upTo
<1>11. upTo[0] = Got(<<>>, b)
  BY <1>9
<1>12. ASSUME NEW n \in Nat PROVE upTo[n + 1] = MoreItems(kind, upTo[n])
  <2>1. PICK m : m = n + 1 /\ m \in Nat /\ m # 0 /\ m - 1 = n
    OBVIOUS
  <2>2. upTo[m] = MoreItems(kind, upTo[m - 1])
    BY <1>9, <2>1
  <2> QED
    BY <2>1, <2>2
<1> QED
  BY <1>10, <1>11, <1>12

\* As many items are read as asked for, each of them as it would be read
\* again, and what comes behind them is not looked at.
LEMMA ItemsRead ==
    ASSUME NEW kind \in Kinds, NEW n \in Nat, NEW b \in Seq(Byte)
    PROVE  /\ ReadItems(kind, n, b) \in Reading(ItemsOf(kind, n))
           /\ \A p \in Seq(Byte) : Carries(ReadItems(kind, n, b), ReadItems(kind, n, b \o p), p)
<1> DEFINE S == {k \in Nat :
              /\ ReadItems(kind, k, b) \in Reading(ItemsOf(kind, k))
              /\ \A p \in Seq(Byte) :
                    Carries(ReadItems(kind, k, b), ReadItems(kind, k, b \o p), p)}
<1>0. \A p \in Seq(Byte) : b \o p \in Seq(Byte)
  BY ConcatProperties
<1>1. 0 \in S
  <2>1. PICK none \in ItemsOf(kind, 0) : none = <<>>
    BY NoItems
  <2>2. ReadItems(kind, 0, b) = Got(none, b)
    BY <2>1, ReadItemsIs
  <2>3. ReadItems(kind, 0, b) \in Reading(ItemsOf(kind, 0))
    BY <2>1, <2>2, GotReads
  <2>4. ASSUME NEW p \in Seq(Byte)
        PROVE  Carries(ReadItems(kind, 0, b), ReadItems(kind, 0, b \o p), p)
    <3>1. ReadItems(kind, 0, b \o p) = Got(none, b \o p)
      BY <1>0, <2>1, ReadItemsIs
    <3> QED
      BY <2>2, <3>1, CarriesGot
  <2> QED
    BY <2>3, <2>4
<1>2. ASSUME NEW k \in Nat, k \in S PROVE k + 1 \in S
  <2>1. PICK r : r = ReadItems(kind, k, b) /\ ReadItems(kind, k + 1, b) = MoreItems(kind, r)
    BY ReadItemsIs
  <2>2. r \in Reading(ItemsOf(kind, k))
    BY <1>2, <2>1
  <2>3. ASSUME NEW p \in Seq(Byte)
        PROVE  /\ MoreItems(kind, r) \in Reading(ItemsOf(kind, k + 1))
               /\ Carries(MoreItems(kind, r), ReadItems(kind, k + 1, b \o p), p)
    <3>1. PICK s : s = ReadItems(kind, k, b \o p)
      OBVIOUS
    <3>2. ReadItems(kind, k + 1, b \o p) = MoreItems(kind, s)
      BY <1>0, <3>1, ReadItemsIs
    <3>3. Carries(r, s, p)
      BY <1>2, <2>1, <3>1
    <3> QED
      BY <2>2, <3>2, <3>3, MoreItemsReads
  <2>4. <<>> \in Seq(Byte)
    OBVIOUS
  <2>5. MoreItems(kind, r) \in Reading(ItemsOf(kind, k + 1))
    BY <2>3, <2>4
  <2>6. k + 1 \in Nat
    OBVIOUS
  <2> QED
    BY <2>1, <2>3, <2>5, <2>6
<1> HIDE DEF S
<1>3. Nat \subseteq S
  BY <1>1, <1>2, NatSets
<1>4. n \in S
  BY <1>3
<1> QED
  BY <1>4 DEF S

\* Items as they are written, one after the other, and as they are read back.
PutAll(kind, items) == [i \in DOMAIN items |-> Put(kind, items[i])]
BackAll(kind, items, k) == [i \in 1 .. k |-> Back(kind, items[i])]

\* One item more is read back behind those before it.
LEMMA BackMore ==
    ASSUME NEW kind \in Kinds, NEW items \in Seq(Writable(kind)), NEW k \in 0 .. Len(items) - 1
    PROVE  /\ BackAll(kind, items, k) \in Seq(Steady(kind))
           /\ BackAll(kind, items, k + 1) =
                 Append(BackAll(kind, items, k), Back(kind, items[k + 1]))
<1>0. Len(items) \in Nat
  BY LenProperties
<1>1. \A i \in 1 .. k + 1 : items[i] \in Writable(kind)
  BY <1>0
<1>2. <<>> \in Seq(Byte)
  OBVIOUS
<1>3. \A i \in 1 .. k + 1 : Back(kind, items[i]) \in Steady(kind)
  BY <1>1, <1>2, ItemBack
<1>4. PICK s : s = BackAll(kind, items, k)
  OBVIOUS
<1>5. s \in Seq(Steady(kind)) /\ Len(s) = k /\ \A i \in 1 .. k : s[i] = Back(kind, items[i])
  <2>1. k \in Nat /\ s = [i \in 1 .. k |-> Back(kind, items[i])]
    BY <1>0, <1>4 DEF BackAll
  <2>2. \A i \in 1 .. k : Back(kind, items[i]) \in Steady(kind)
    BY <1>3, <2>1
  <2> QED
    BY <2>1, <2>2
<1>6. PICK t : t = BackAll(kind, items, k + 1)
  OBVIOUS
<1>7. t \in Seq(Steady(kind)) /\ Len(t) = k + 1
      /\ \A i \in 1 .. k + 1 : t[i] = Back(kind, items[i])
  <2>1. PICK l : l = k + 1 /\ l \in Nat
    BY <1>0
  <2>2. t = [i \in 1 .. l |-> Back(kind, items[i])]
    BY <1>6, <2>1 DEF BackAll
  <2> QED
    BY <1>3, <2>1, <2>2
<1>8. PICK x, u : x = Back(kind, items[k + 1]) /\ u = Append(s, x)
  OBVIOUS
<1>9. x \in Steady(kind)
  BY <1>0, <1>3, <1>8
<1>10. u \in Seq(Steady(kind)) /\ Len(u) = k + 1 /\ u[k + 1] = x
       /\ \A i \in 1 .. k : u[i] = s[i]
  BY <1>5, <1>8, <1>9, AppendProperties
<1>11. \A i \in 1 .. k + 1 : u[i] = t[i]
  <2>1. ASSUME NEW i \in 1 .. k + 1 PROVE u[i] = t[i]
    <3>1. CASE i = k + 1
      BY <1>7, <1>8, <1>10, <3>1
    <3>2. CASE i # k + 1
      <4>1. i \in 1 .. k
        BY <1>0, <3>2
      <4> QED
        BY <1>5, <1>7, <1>10, <4>1
    <3> QED
      BY <3>1, <3>2
  <2> QED
    BY <2>1
<1>12. u = t
  BY <1>7, <1>10, <1>11, SeqEqual
<1> QED
  BY <1>4, <1>5, <1>6, <1>8, <1>12

\* Items are read back, as many as there are, and what follows is left.
LEMMA ItemsBack ==
    ASSUME NEW kind \in Kinds, NEW items \in Seq(Writable(kind)), NEW t \in Seq(Byte)
    PROVE  LET w == Concatenated(PutAll(kind, items))
           IN  /\ w \in Seq(Byte) /\ Len(w) >= Least[kind] * Len(items)
               /\ BackAll(kind, items, Len(items)) \in Seq(Steady(kind))
               /\ ReadItems(kind, Len(items), w \o t) =
                     Got(BackAll(kind, items, Len(items)), t)
<1>0. Len(items) \in Nat /\ DOMAIN items = 1 .. Len(items)
  BY LenProperties
<1>1. \A i \in 1 .. Len(items) : items[i] \in Writable(kind)
  BY <1>0
<1>2. PICK seqs : seqs = PutAll(kind, items)
  OBVIOUS
<1>3. seqs \in Seq(Seq(Byte)) /\ Len(seqs) = Len(items)
      /\ \A i \in 1 .. Len(items) : seqs[i] = Put(kind, items[i])
  <2>1. \A i \in 1 .. Len(items) : Put(kind, items[i]) \in Seq(Byte)
    BY <1>1, ItemBack
  <2>2. seqs = [i \in 1 .. Len(items) |-> Put(kind, items[i])]
    BY <1>0, <1>2 DEF PutAll
  <2> QED
    BY <1>0, <2>1, <2>2
<1>4. PICK f : Chained(seqs, f) /\ Concatenated(seqs) = f[Len(items)]
  BY <1>3, ConcatenatedIs
<1>5. \A n \in 0 .. Len(items) : f[n] \in Seq(Byte)
  BY <1>3, <1>4 DEF Chained
<1>6. f[0] = <<>> /\ \A n \in 0 .. Len(items) - 1 : f[n + 1] = f[n] \o seqs[n + 1]
  BY <1>3, <1>4 DEF Chained
<1>7. Least[kind] \in Nat
  BY DEF Least, Kinds
<1> DEFINE P(k) == /\ Len(f[k]) >= Least[kind] * k
                   /\ BackAll(kind, items, k) \in Seq(Steady(kind))
                   /\ \A q \in Seq(Byte) :
                         ReadItems(kind, k, f[k] \o q) = Got(BackAll(kind, items, k), q)
<1> DEFINE S == {k \in Nat : k <= Len(items) => P(k)}
<1>8. 0 \in S
  <2>1. BackAll(kind, items, 0) = <<>>
    BY DEF BackAll
  <2>2. ASSUME NEW q \in Seq(Byte)
        PROVE  ReadItems(kind, 0, f[0] \o q) = Got(BackAll(kind, items, 0), q)
    <3>1. f[0] \o q = q
      BY <1>6, ConcatEmptySeq
    <3>2. ReadItems(kind, 0, q) = Got(<<>>, q)
      BY ReadItemsIs
    <3> QED
      BY <2>1, <3>1, <3>2
  <2>3. Len(f[0]) = 0 /\ Least[kind] * 0 = 0
    BY <1>6, <1>7
  <2>4. BackAll(kind, items, 0) \in Seq(Steady(kind))
    BY <2>1, Nothing
  <2> QED
    BY <2>2, <2>3, <2>4
<1>9. ASSUME NEW k \in Nat, k \in S PROVE k + 1 \in S
  <2>1. ASSUME k + 1 <= Len(items) PROVE P(k + 1)
    <3>1. k \in 0 .. Len(items) - 1 /\ k \in 0 .. Len(items) /\ k <= Len(items)
          /\ k + 1 \in 1 .. Len(items)
      BY <1>0, <2>1
    <3>2. P(k)
      BY <1>9, <3>1
    <3>3. PICK u, v, x : u = f[k] /\ v = seqs[k + 1] /\ x = items[k + 1]
      OBVIOUS
    <3>4. /\ u \in Seq(Byte) /\ f[k + 1] = u \o v /\ v = Put(kind, x)
          /\ x \in Writable(kind)
      BY <1>1, <1>3, <1>5, <1>6, <3>1, <3>3
    <3>5. v \in Seq(Byte) /\ Len(v) >= Least[kind]
      BY <3>4, ItemBack
    <3>6. Len(u \o v) = Len(u) + Len(v) /\ Len(u) \in Nat /\ Len(v) \in Nat
      BY <3>4, <3>5, ConcatProperties, LenProperties
    <3>7. Len(f[k + 1]) >= Least[kind] * (k + 1)
      <4>1. PICK l, m, n \in Nat : l = Len(u) /\ m = Len(v) /\ n = Least[kind]
        BY <1>7, <3>6
      <4>2. Len(f[k + 1]) = l + m
        BY <3>4, <3>6, <4>1
      <4>3. l >= n * k /\ m >= n
        BY <3>2, <3>3, <3>5, <4>1
      <4>4. n * (k + 1) = n * k + n /\ n * k \in Nat
        OBVIOUS
      <4>5. l + m >= n * k + n
        BY <4>3, <4>4
      <4> QED
        BY <4>1, <4>2, <4>4, <4>5
    <3>8. PICK s, y : s = BackAll(kind, items, k) /\ y = Back(kind, x)
      OBVIOUS
    <3>9. BackAll(kind, items, k + 1) = Append(s, y)
      BY <3>1, <3>3, <3>8, BackMore
    <3>10. y \in Steady(kind) /\ s \in Seq(Steady(kind))
      BY <3>2, <3>4, <3>5, <3>8, ItemBack
    <3>11. Append(s, y) \in Seq(Steady(kind))
      BY <3>10, AppendProperties
    <3>12. ASSUME NEW q \in Seq(Byte)
           PROVE  ReadItems(kind, k + 1, f[k + 1] \o q) = Got(Append(s, y), q)
      <4>1. v \o q \in Seq(Byte) /\ u \o (v \o q) \in Seq(Byte)
        BY <3>4, <3>5, ConcatProperties
      <4>2. (u \o v) \o q = u \o (v \o q)
        BY <3>4, <3>5, ConcatAssociative, SMTT(30)
      <4>3. PICK r : r = ReadItems(kind, k, u \o (v \o q))
        OBVIOUS
      <4>4. r = Got(s, v \o q)
        BY <3>2, <3>3, <3>8, <4>1, <4>3
      <4>5. ReadItem(kind, v \o q) = Got(y, q)
        BY <3>4, <3>8, ItemBack
      <4>6. MoreItems(kind, r) = Got(Append(s, y), q)
        BY <4>4, <4>5, MoreItemsIs
      <4>7. ReadItems(kind, k + 1, u \o (v \o q)) = MoreItems(kind, r)
        BY <4>1, <4>3, ReadItemsIs
      <4> QED
        BY <3>4, <4>2, <4>6, <4>7
    <3> QED
      BY <3>7, <3>9, <3>11, <3>12
  <2> QED
    BY <2>1
<1> HIDE DEF S, P
<1>10. Nat \subseteq S
  BY <1>8, <1>9, NatSets
<1>11. P(Len(items))
  BY <1>0, <1>10 DEF S
<1> QED
  BY <1>0, <1>2, <1>4, <1>5, <1>11 DEF P

----------------------------------------------------------------------------
(***************************************************************************)
(* A record                                                                *)
(***************************************************************************)
\* What is read of a record before it is looked for what is left.
Whole(kind, b) ==
    Then(ReadVersion(b), LAMBDA version, rest :
        Then(ReadUvarint(rest), LAMBDA n, left :
            IF n > Len(left) \div Least[kind] THEN Refused
            ELSE ReadItems(kind, n, left)))

\* The version, case by case.
LEMMA VersionIs ==
    ASSUME NEW b
    PROVE  /\ ReadByte(b) = Refused => ReadVersion(b) = Refused
           /\ \A c, t : ReadByte(b) = Got(c, t) =>
                 ReadVersion(b) = IF c <= CodecVersion THEN Got(c, t) ELSE Refused
<1>1. PICK r : r = ReadByte(b)
  OBVIOUS
<1>2. r = Refused => ReadVersion(b) = Refused
  BY <1>1, RefusedIs DEF ReadVersion, Only
<1>3. ASSUME NEW c, NEW t, r = Got(c, t)
      PROVE  ReadVersion(b) = IF c <= CodecVersion THEN Got(c, t) ELSE Refused
  <2>1. r.ok = TRUE /\ r.is = c
    BY <1>3 DEF Got
  <2>2. ReadVersion(b) = IF c <= CodecVersion THEN r ELSE Refused
    BY <1>1, <2>1 DEF ReadVersion, Only
  <2> QED
    BY <1>3, <2>2
<1> QED
  BY <1>1, <1>2, <1>3

\* It is read as a byte is.
LEMMA VersionReads ==
    ASSUME NEW b \in Seq(Byte)
    PROVE  /\ ReadVersion(b) \in Reading(Byte)
           /\ \A p \in Seq(Byte) : Carries(ReadVersion(b), ReadVersion(b \o p), p)
<1>1. /\ ReadByte(b) \in Reading(Byte)
      /\ \A p \in Seq(Byte) : Carries(ReadByte(b), ReadByte(b \o p), p)
  BY ByteReads
<1>2. CASE ReadVersion(b) = Refused
  BY <1>2, RefusedReads, CarriesRefused
<1>3. CASE ReadVersion(b) # Refused
  <2>1. PICK c \in Byte, t \in Seq(Byte) : ReadByte(b) = Got(c, t)
    <3>1. ReadByte(b) # Refused
      BY <1>3, VersionIs
    <3> QED
      BY <1>1, <3>1 DEF Reading
  <2>2. c <= CodecVersion /\ ReadVersion(b) = Got(c, t)
    <3>1. ReadVersion(b) = IF c <= CodecVersion THEN Got(c, t) ELSE Refused
      BY <2>1, VersionIs
    <3> QED
      BY <1>3, <3>1
  <2>3. ASSUME NEW p \in Seq(Byte) PROVE ReadVersion(b \o p) = Got(c, t \o p)
    <3>1. ReadByte(b \o p) = Got(c, t \o p)
      BY <1>1, <2>1, CarriesGot
    <3>2. ReadVersion(b \o p) =
             IF c <= CodecVersion THEN Got(c, t \o p) ELSE Refused
      BY <3>1, VersionIs
    <3> QED
      BY <2>2, <3>2
  <2> QED
    BY <2>2, <2>3, GotReads, CarriesGot
<1> QED
  BY <1>2, <1>3

\* The whole record, case by case.
LEMMA WholeIs ==
    ASSUME NEW kind, NEW b
    PROVE  /\ ReadVersion(b) = Refused => Whole(kind, b) = Refused
           /\ \A c, t : ReadVersion(b) = Got(c, t) =>
                 /\ ReadUvarint(t) = Refused => Whole(kind, b) = Refused
                 /\ \A n, u : ReadUvarint(t) = Got(n, u) =>
                       Whole(kind, b) =
                          IF n > Len(u) \div Least[kind] THEN Refused
                          ELSE ReadItems(kind, n, u)
<1>1. PICK r : r = ReadVersion(b)
  OBVIOUS
<1>2. r = Refused => Whole(kind, b) = Refused
  BY <1>1, RefusedIs DEF Whole, Then
<1>3. ASSUME NEW c, NEW t, r = Got(c, t)
      PROVE  /\ ReadUvarint(t) = Refused => Whole(kind, b) = Refused
             /\ \A n, u : ReadUvarint(t) = Got(n, u) =>
                   Whole(kind, b) =
                      IF n > Len(u) \div Least[kind] THEN Refused
                      ELSE ReadItems(kind, n, u)
  <2>1. r.ok = TRUE /\ r.is = c /\ r.rest = t
    BY <1>3 DEF Got
  <2>2. PICK s : s = ReadUvarint(t)
    OBVIOUS
  <2>3. s = Refused => Whole(kind, b) = Refused
    BY <1>1, <2>1, <2>2, RefusedIs DEF Whole, Then
  <2>4. ASSUME NEW n, NEW u, s = Got(n, u)
        PROVE  Whole(kind, b) =
                  IF n > Len(u) \div Least[kind] THEN Refused ELSE ReadItems(kind, n, u)
    <3>1. s.ok = TRUE /\ s.is = n /\ s.rest = u
      BY <2>4 DEF Got
    <3> QED
      BY <1>1, <2>1, <2>2, <3>1 DEF Whole, Then
  <2> QED
    BY <2>2, <2>3, <2>4
<1> QED
  BY <1>1, <1>2, <1>3

\* A record is read as that, when nothing is left.
LEMMA DecodedIs ==
    ASSUME NEW kind, NEW b
    PROVE  Decoded(kind, b) = Emptied(Whole(kind, b))
<1>1. PICK r : r = ReadVersion(b)
  OBVIOUS
<1>2. CASE ~ r.ok
  BY <1>1, <1>2 DEF Decoded, Whole, Then, Emptied
<1>3. CASE r.ok
  <2>1. PICK s : s = ReadUvarint(r.rest)
    OBVIOUS
  <2>2. CASE ~ s.ok
    BY <1>1, <1>3, <2>1, <2>2 DEF Decoded, Whole, Then, Emptied
  <2>3. CASE s.ok
    <3>1. CASE s.is > Len(s.rest) \div Least[kind]
      BY <1>1, <1>3, <2>1, <2>3, <3>1, RefusedIs DEF Decoded, Whole, Then, Emptied
    <3>2. CASE ~ (s.is > Len(s.rest) \div Least[kind])
      BY <1>1, <1>3, <2>1, <2>3, <3>2 DEF Decoded, Whole, Then
    <3> QED
      BY <3>1, <3>2
  <2> QED
    BY <2>2, <2>3
<1> QED
  BY <1>2, <1>3

\* A record is refused just when something is left of it.
LEMMA EmptiedIs ==
    ASSUME NEW x, NEW t
    PROVE  /\ Emptied(Got(x, <<>>)) = Got(x, <<>>)
           /\ t # <<>> => Emptied(Got(x, t)) = Refused
           /\ Emptied(Refused) = Refused
<1>1. PICK none : none = <<>>
  OBVIOUS
<1>2. Got(x, none).ok = TRUE /\ Got(x, none).rest = none
  BY DEF Got
<1>3. Got(x, t).ok = TRUE /\ Got(x, t).rest = t
  BY DEF Got
<1> QED
  BY <1>1, <1>2, <1>3, RefusedIs DEF Emptied

\* Items a record has the count of.
Countable(S) == {s \in Seq(S) : Len(s) \in Unsigned64}

\* An item is counted for a byte or for two.
LEMMA LeastIs == ASSUME NEW kind \in Kinds PROVE Least[kind] = 1 \/ Least[kind] = 2
BY DEF Least, Kinds

\* What a count is checked against grows with the record.
LEMMA StillFits ==
    ASSUME NEW least, least = 1 \/ least = 2,
           NEW n \in Nat, NEW l \in Nat, NEW m \in Nat, ~ (n > l \div least)
    PROVE  ~ (n > (l + m) \div least)
<1>1. CASE least = 1
  BY <1>1
<1>2. CASE least = 2
  BY <1>2
<1> QED
  BY <1>1, <1>2

\* Items that take the bytes counted for them fit.
LEMMA Fits ==
    ASSUME NEW least, least = 1 \/ least = 2,
           NEW n \in Nat, NEW l \in Nat, l >= least * n
    PROVE  ~ (n > l \div least)
<1>1. CASE least = 1
  BY <1>1
<1>2. CASE least = 2
  BY <1>2
<1> QED
  BY <1>1, <1>2

\* What is read of a record are items that could be written, and no byte
\* behind the last one is looked at.
LEMMA WholeReads ==
    ASSUME NEW kind \in Kinds, NEW b \in Seq(Byte)
    PROVE  /\ Whole(kind, b) \in Reading(Countable(Steady(kind)))
           /\ \A p \in Seq(Byte) : Carries(Whole(kind, b), Whole(kind, b \o p), p)
<1>1. /\ ReadVersion(b) \in Reading(Byte)
      /\ \A p \in Seq(Byte) : Carries(ReadVersion(b), ReadVersion(b \o p), p)
  BY VersionReads
<1>2. CASE Whole(kind, b) = Refused
  BY <1>2, RefusedReads, CarriesRefused
<1>3. CASE Whole(kind, b) # Refused
  <2>1. PICK c \in Byte, t \in Seq(Byte) : ReadVersion(b) = Got(c, t)
    <3>1. ReadVersion(b) # Refused
      BY <1>3, WholeIs
    <3> QED
      BY <1>1, <3>1 DEF Reading
  <2>2. /\ ReadUvarint(t) \in Reading(Unsigned64)
        /\ \A p \in Seq(Byte) : Carries(ReadUvarint(t), ReadUvarint(t \o p), p)
    BY UvarintReads
  <2>3. PICK n \in Unsigned64, u \in Seq(Byte) : ReadUvarint(t) = Got(n, u)
    <3>1. ReadUvarint(t) # Refused
      BY <1>3, <2>1, WholeIs
    <3> QED
      BY <2>2, <3>1 DEF Reading
  <2>4. n \in Nat
    BY SignedIs
  <2>5. ~ (n > Len(u) \div Least[kind]) /\ Whole(kind, b) = ReadItems(kind, n, u)
    <3>1. Whole(kind, b) =
             IF n > Len(u) \div Least[kind] THEN Refused ELSE ReadItems(kind, n, u)
      BY <2>1, <2>3, WholeIs
    <3> QED
      BY <1>3, <3>1
  <2>6. /\ ReadItems(kind, n, u) \in Reading(ItemsOf(kind, n))
        /\ \A p \in Seq(Byte) : Carries(ReadItems(kind, n, u), ReadItems(kind, n, u \o p), p)
    BY <2>4, ItemsRead
  <2>7. ItemsOf(kind, n) \subseteq Countable(Steady(kind))
    BY DEF ItemsOf, Countable
  <2>8. Whole(kind, b) \in Reading(Countable(Steady(kind)))
    BY <2>5, <2>6, <2>7 DEF Reading
  <2>9. ASSUME NEW p \in Seq(Byte) PROVE Whole(kind, b \o p) = ReadItems(kind, n, u \o p)
    <3>1. ReadVersion(b \o p) = Got(c, t \o p)
      BY <1>1, <2>1, CarriesGot
    <3>2. ReadUvarint(t \o p) = Got(n, u \o p)
      BY <2>2, <2>3, CarriesGot
    <3>3. Whole(kind, b \o p) =
             IF n > Len(u \o p) \div Least[kind] THEN Refused
             ELSE ReadItems(kind, n, u \o p)
      BY <3>1, <3>2, WholeIs
    <3>4. Len(u \o p) = Len(u) + Len(p) /\ Len(u) \in Nat /\ Len(p) \in Nat
      BY ConcatProperties, LenProperties
    <3>5. ~ (n > Len(u \o p) \div Least[kind])
      BY <2>4, <2>5, <3>4, LeastIs, StillFits
    <3> QED
      BY <3>3, <3>5
  <2> QED
    BY <2>5, <2>6, <2>8, <2>9
<1> QED
  BY <1>2, <1>3

\* The record of the items.
Written(kind, items) == Record(PutAll(kind, items))

\* It is what the code writes, of a row and of columns.
LEMMA WrittenIs ==
    ASSUME NEW items
    PROVE  /\ EncodeRow(items) = Written("row", items)
           /\ EncodeColumns(items) = Written("columns", items)
<1>1. PutAll("row", items) = [i \in DOMAIN items |-> Tagged(items[i])]
  BY DEF PutAll, Put
<1>2. PutAll("columns", items) =
         [i \in DOMAIN items |-> Text(items[i].name) \o <<Flags(items[i])>>]
  BY DEF PutAll, Put, Marked
<1> QED
  BY <1>1, <1>2 DEF EncodeRow, EncodeColumns, Written

\* A record is read back, whatever comes behind it.
LEMMA WholeBack ==
    ASSUME NEW kind \in Kinds, NEW items \in Countable(Writable(kind)), NEW t \in Seq(Byte)
    PROVE  /\ Written(kind, items) \in Seq(Byte)
           /\ \E w \in Seq(Byte) : Written(kind, items) = <<CodecVersion>> \o w
           /\ BackAll(kind, items, Len(items)) \in Seq(Steady(kind))
           /\ Whole(kind, Written(kind, items) \o t) =
                 Got(BackAll(kind, items, Len(items)), t)
<1>1. items \in Seq(Writable(kind)) /\ Len(items) \in Unsigned64 /\ Len(items) \in Nat
  BY LenProperties DEF Countable
<1>2. PICK n, s : n = Len(items) /\ s = BackAll(kind, items, Len(items))
  OBVIOUS
<1>3. PICK w : w = Concatenated(PutAll(kind, items))
  OBVIOUS
<1>4. /\ w \in Seq(Byte) /\ Len(w) >= Least[kind] * n /\ s \in Seq(Steady(kind))
      /\ ReadItems(kind, n, w \o t) = Got(s, t)
  BY <1>1, <1>2, <1>3, ItemsBack
<1>5. Len(PutAll(kind, items)) = n
  <2>1. DOMAIN items = 1 .. n
    BY <1>1, <1>2, LenProperties
  <2>2. PutAll(kind, items) = [i \in 1 .. n |-> Put(kind, items[i])]
    BY <2>1 DEF PutAll
  <2> QED
    BY <1>1, <1>2, <2>2
<1>6. PICK v, u : v = <<CodecVersion>> /\ u = Uvarint[n]
  OBVIOUS
<1>7. CodecVersion \in Byte /\ CodecVersion <= CodecVersion
  BY Sizes DEF CodecVersion, Byte
<1>8. v \in Seq(Byte) /\ u \in Seq(Byte)
  BY <1>1, <1>2, <1>6, <1>7, UvarintIs
<1>9. Written(kind, items) = (v \o u) \o w
  BY <1>3, <1>5, <1>6 DEF Written, Record
<1>10. u \o w \in Seq(Byte) /\ v \o u \in Seq(Byte) /\ w \o t \in Seq(Byte)
  <2>1. u \o w \in Seq(Byte)
    BY <1>4, <1>8, ConcatProperties
  <2>2. v \o u \in Seq(Byte)
    BY <1>8, ConcatProperties
  <2>3. w \o t \in Seq(Byte)
    BY <1>4, ConcatProperties
  <2> QED
    BY <2>1, <2>2, <2>3
<1>11. (v \o u) \o w = v \o (u \o w)
  BY <1>4, <1>8, ConcatAssociative, SMTT(30)
<1>12. (v \o u) \o w \in Seq(Byte)
  BY <1>4, <1>10, ConcatProperties
<1>13. ((v \o u) \o w) \o t = v \o (u \o (w \o t))
  <2>1. PICK x, y : x = v \o u /\ y = w \o t
    OBVIOUS
  <2>2. x \in Seq(Byte) /\ y \in Seq(Byte)
    BY <1>10, <2>1
  <2>3. (x \o w) \o t = x \o (w \o t)
    BY <1>4, <2>2, ConcatAssociative, SMTT(30)
  <2>4. (v \o u) \o y = v \o (u \o y)
    BY <1>8, <2>2, ConcatAssociative, SMTT(30)
  <2> QED
    BY <2>1, <2>3, <2>4
<1>14. u \o (w \o t) \in Seq(Byte)
  BY <1>8, <1>10, ConcatProperties
<1>15. ReadVersion(v \o (u \o (w \o t))) = Got(CodecVersion, u \o (w \o t))
  <2>1. ReadByte(v \o (u \o (w \o t))) = Got(CodecVersion, u \o (w \o t))
    BY <1>6, <1>7, <1>14, ByteBack
  <2>2. ReadVersion(v \o (u \o (w \o t))) =
           IF CodecVersion <= CodecVersion THEN Got(CodecVersion, u \o (w \o t)) ELSE Refused
    BY <2>1, VersionIs
  <2> QED
    BY <1>7, <2>2
<1>16. ReadUvarint(u \o (w \o t)) = Got(n, w \o t)
  BY <1>1, <1>2, <1>6, <1>10, UvarintBack
<1>17. ~ (n > Len(w \o t) \div Least[kind])
  <2>1. Len(w \o t) = Len(w) + Len(t) /\ Len(w) \in Nat /\ Len(t) \in Nat
    BY <1>4, ConcatProperties, LenProperties
  <2>2. Least[kind] = 1 \/ Least[kind] = 2
    BY LeastIs
  <2>3. ~ (n > Len(w) \div Least[kind])
    BY <1>1, <1>2, <1>4, <2>1, <2>2, Fits
  <2> QED
    BY <1>1, <1>2, <2>1, <2>2, <2>3, StillFits
<1>18. Whole(kind, v \o (u \o (w \o t))) = Got(s, t)
  <2>1. Whole(kind, v \o (u \o (w \o t))) =
           IF n > Len(w \o t) \div Least[kind] THEN Refused ELSE ReadItems(kind, n, w \o t)
    BY <1>15, <1>16, WholeIs
  <2> QED
    BY <1>4, <1>17, <2>1
<1>19. \E q \in Seq(Byte) : Written(kind, items) = <<CodecVersion>> \o q
  BY <1>6, <1>9, <1>10, <1>11
<1> QED
  BY <1>2, <1>4, <1>9, <1>12, <1>13, <1>18, <1>19

\* A record is read back as its items are, and nothing is left of it.
LEMMA DecodedBack ==
    ASSUME NEW kind \in Kinds, NEW items \in Countable(Writable(kind))
    PROVE  Decoded(kind, Written(kind, items)) =
              Got(BackAll(kind, items, Len(items)), <<>>)
<1>1. PICK w, s : w = Written(kind, items) /\ s = BackAll(kind, items, Len(items))
  OBVIOUS
<1>2. PICK none \in Seq(Byte) : none = <<>>
  BY Nothing
<1>3. w \in Seq(Byte) /\ Whole(kind, w \o none) = Got(s, none)
  BY <1>1, WholeBack
<1>4. w \o none = w
  BY <1>2, <1>3, ConcatEmptySeq
<1>5. Emptied(Whole(kind, w)) = Got(s, <<>>)
  BY <1>2, <1>3, <1>4, EmptiedIs
<1> QED
  BY <1>1, <1>5, DecodedIs

\* A record that goes on is refused.
LEMMA LongerRefused ==
    ASSUME NEW kind \in Kinds, NEW items \in Countable(Writable(kind)),
           NEW p \in Seq(Byte), p # <<>>
    PROVE  Decoded(kind, Written(kind, items) \o p) = Refused
<1>1. PICK w, s : w = Written(kind, items) /\ s = BackAll(kind, items, Len(items))
  OBVIOUS
<1>2. Whole(kind, w \o p) = Got(s, p)
  BY <1>1, WholeBack
<1>3. Emptied(Whole(kind, w \o p)) = Refused
  BY <1>2, EmptiedIs
<1> QED
  BY <1>1, <1>3, DecodedIs

\* Any bytes are refused, or are read as items that are read back as they are
\* from the record of them.
LEMMA ReadAgain ==
    ASSUME NEW kind \in Kinds, NEW b \in Seq(Byte)
    PROVE  \/ Decoded(kind, b) = Refused /\ Decoded(kind, b).ok = FALSE
           \/ \E items \in Countable(Steady(kind)) :
                 /\ Decoded(kind, b) = Got(items, <<>>)
                 /\ Whole(kind, b) = Got(items, <<>>)
<1>1. Decoded(kind, b) = Emptied(Whole(kind, b))
  BY DecodedIs
<1>2. Whole(kind, b) \in Reading(Countable(Steady(kind)))
  BY WholeReads
<1>3. CASE Whole(kind, b) = Refused
  BY <1>1, <1>3, EmptiedIs, RefusedIs
<1>4. CASE Whole(kind, b) # Refused
  <2>1. PICK items \in Countable(Steady(kind)), t \in Seq(Byte) : Whole(kind, b) = Got(items, t)
    BY <1>2, <1>4 DEF Reading
  <2>2. CASE t = <<>>
    <3>1. PICK none : none = <<>>
      OBVIOUS
    <3>2. Whole(kind, b) = Got(items, none) /\ Emptied(Got(items, none)) = Got(items, none)
      BY <2>1, <2>2, <3>1, EmptiedIs
    <3> QED
      BY <1>1, <3>1, <3>2
  <2>3. CASE t # <<>>
    BY <1>1, <2>1, <2>3, EmptiedIs, RefusedIs
  <2> QED
    BY <2>2, <2>3
<1> QED
  BY <1>3, <1>4

\* What is read back as it is can be written, and is.
LEMMA SteadyBack ==
    ASSUME NEW kind \in Kinds, NEW items \in Countable(Steady(kind))
    PROVE  /\ items \in Countable(Writable(kind))
           /\ Decoded(kind, Written(kind, items)) = Got(items, <<>>)
<1>1. /\ items \in Seq(Steady(kind)) /\ Len(items) \in Unsigned64 /\ Len(items) \in Nat
      /\ \A i \in 1 .. Len(items) : items[i] \in Steady(kind)
  BY LenProperties DEF Countable
<1>2. Steady(kind) \subseteq Writable(kind)
  BY DEF Steady
<1>3. items \in Seq(Writable(kind))
  BY <1>1, <1>2
<1>4. items \in Countable(Writable(kind))
  BY <1>1, <1>3 DEF Countable
<1>5. PICK s : s = BackAll(kind, items, Len(items))
  OBVIOUS
<1>6. s = [i \in 1 .. Len(items) |-> Back(kind, items[i])]
  BY <1>5 DEF BackAll
<1>7. \A i \in 1 .. Len(items) : Back(kind, items[i]) = items[i]
  BY <1>1 DEF Steady
<1>8. s \in Seq(Steady(kind)) /\ Len(s) = Len(items)
      /\ \A i \in 1 .. Len(items) : s[i] = items[i]
  BY <1>1, <1>6, <1>7
<1>9. s = items
  BY <1>1, <1>8, SeqEqual
<1>10. Decoded(kind, Written(kind, items)) = Got(s, <<>>)
  BY <1>4, <1>5, DecodedBack
<1> QED
  BY <1>4, <1>9, <1>10

\* A record that lacks its end is refused.
LEMMA ShorterRefused ==
    ASSUME NEW kind \in Kinds, NEW items \in Countable(Writable(kind)),
           NEW b \in Seq(Byte), NEW p \in Seq(Byte), p # <<>>,
           Written(kind, items) = b \o p
    PROVE  Decoded(kind, b) = Refused
<1>1. SUFFICES ASSUME Decoded(kind, b) # Refused PROVE FALSE
  OBVIOUS
<1>2. PICK none \in Seq(Byte) : none = <<>>
  BY Nothing
<1>3. PICK read : Whole(kind, b) = Got(read, none)
  BY <1>1, <1>2, ReadAgain
<1>4. Whole(kind, b \o p) = Got(read, none \o p)
  <2>1. Carries(Whole(kind, b), Whole(kind, b \o p), p)
    BY WholeReads
  <2> QED
    BY <1>3, <2>1, CarriesGot
<1>5. PICK w, s : w = Written(kind, items) /\ s = BackAll(kind, items, Len(items))
  OBVIOUS
<1>6. w \in Seq(Byte) /\ Whole(kind, w \o none) = Got(s, none)
  BY <1>5, WholeBack
<1>7. w \o none = w
  BY <1>2, <1>6, ConcatEmptySeq
<1>8. Got(read, none \o p) = Got(s, none)
  BY <1>4, <1>5, <1>6, <1>7
<1>9. none \o p = p
  BY <1>2, ConcatEmptySeq
<1>10. PICK r : r = Got(read, p)
  OBVIOUS
<1>11. r = Got(s, none)
  BY <1>8, <1>9, <1>10
<1>12. r.rest = p
  BY <1>10 DEF Got
<1>13. r.rest = none
  BY <1>11 DEF Got
<1> QED
  BY <1>2, <1>12, <1>13

\* A record with the mark of a newer build is refused.
LEMMA NewerRefused ==
    ASSUME NEW kind \in Kinds, NEW w \in Seq(Byte)
    PROVE  LET b == <<CodecVersion>> \o w
           IN  /\ [b EXCEPT ![1] = CodecVersion + 1] \in Seq(Byte)
               /\ Decoded(kind, [b EXCEPT ![1] = CodecVersion + 1]) = Refused
<1>1. PICK v, c : v = CodecVersion /\ c = CodecVersion + 1
  OBVIOUS
<1>2. v \in Byte /\ c \in Byte /\ ~ (c <= CodecVersion)
  BY <1>1, Sizes DEF CodecVersion, Byte
<1>3. PICK x, y : x = <<v>> /\ y = <<c>>
  OBVIOUS
<1>4. /\ x \in Seq(Byte) /\ Len(x) = 1 /\ x[1] = v
      /\ y \in Seq(Byte) /\ Len(y) = 1 /\ y[1] = c
  BY <1>2, <1>3
<1>5. PICK b, q : b = x \o w /\ q = y \o w
  OBVIOUS
<1>6. /\ b \in Seq(Byte) /\ Len(b) = 1 + Len(w) /\ Len(w) \in Nat
      /\ \A i \in 1 .. Len(b) : b[i] = IF i <= 1 THEN x[i] ELSE w[i - 1]
  <2>1. /\ x \o w \in Seq(Byte) /\ Len(x \o w) = Len(x) + Len(w) /\ Len(w) \in Nat
        /\ \A i \in 1 .. Len(x) + Len(w) :
              (x \o w)[i] = IF i <= Len(x) THEN x[i] ELSE w[i - Len(x)]
    BY <1>4, ConcatProperties, LenProperties
  <2> QED
    BY <1>4, <1>5, <2>1
<1>7. /\ q \in Seq(Byte) /\ Len(q) = 1 + Len(w)
      /\ \A i \in 1 .. Len(q) : q[i] = IF i <= 1 THEN y[i] ELSE w[i - 1]
  <2>1. /\ y \o w \in Seq(Byte) /\ Len(y \o w) = Len(y) + Len(w)
        /\ \A i \in 1 .. Len(y) + Len(w) :
              (y \o w)[i] = IF i <= Len(y) THEN y[i] ELSE w[i - Len(y)]
    BY <1>4, ConcatProperties
  <2> QED
    BY <1>4, <1>5, <2>1
<1>8. PICK e : e = [b EXCEPT ![1] = c]
  OBVIOUS
<1>9. /\ e \in Seq(Byte) /\ Len(e) = Len(b)
      /\ \A i \in 1 .. Len(b) : e[i] = IF i = 1 THEN c ELSE b[i]
  <2>1. 1 \in 1 .. Len(b)
    BY <1>6
  <2> QED
    BY <1>2, <1>6, <1>8, <2>1, ExceptSeq
<1>10. \A i \in 1 .. Len(e) : e[i] = q[i]
  <2>1. ASSUME NEW i \in 1 .. Len(e) PROVE e[i] = q[i]
    <3>1. CASE i = 1
      BY <1>4, <1>6, <1>7, <1>9, <3>1
    <3>2. CASE i # 1
      <4>1. ~ (i <= 1) /\ i \in 1 .. Len(b) /\ i \in 1 .. Len(q)
        BY <1>6, <1>7, <1>9, <3>2
      <4> QED
        BY <1>6, <1>7, <1>9, <3>2, <4>1
    <3> QED
      BY <3>1, <3>2
  <2> QED
    BY <2>1
<1>11. e = q
  BY <1>6, <1>7, <1>9, <1>10, SeqEqual
<1>12. ReadByte(q) = Got(c, w)
  BY <1>2, <1>3, <1>5, ByteBack
<1>13. ReadVersion(q) = Refused
  <2>1. ReadVersion(q) = IF c <= CodecVersion THEN Got(c, w) ELSE Refused
    BY <1>12, VersionIs
  <2> QED
    BY <1>2, <2>1
<1>14. Decoded(kind, q) = Refused
  <2>1. Whole(kind, q) = Refused
    BY <1>13, WholeIs
  <2> QED
    BY <2>1, DecodedIs, EmptiedIs
<1>15. <<CodecVersion>> \o w = b
  BY <1>1, <1>3, <1>5
<1> QED
  BY <1>1, <1>8, <1>9, <1>11, <1>14, <1>15

----------------------------------------------------------------------------
(***************************************************************************)
(* What becomes of a record                                                *)
(***************************************************************************)
\* What the fate of a record says of its bytes.
Became ==
    LET whole == Written(content.kind, content.items)
    IN  CASE fate = "written" -> record = whole
          [] fate = "cut" -> \E p \in Seq(Byte) : p # <<>> /\ whole = record \o p
          [] fate = "extended" -> \E p \in Seq(Byte) : p # <<>> /\ record = whole \o p
          [] fate = "newer" -> record = [whole EXCEPT ![1] = CodecVersion + 1]
          [] OTHER -> TRUE

CodecInv ==
    /\ fate \in {"none", "refused", "written", "cut", "extended", "altered", "newer"}
    /\ content.kind \in Kinds /\ record \in Seq(Byte)
    /\ fate \notin {"none", "refused"} =>
          content.items \in Countable(Writable(content.kind))
    /\ Became

\* The rows and the lists of columns that are stored have a count a record holds.
LEMMA StoredItems ==
    ASSUME NEW S, NEW s \in SeqsOf(S)
    PROVE  s \in Countable(S) /\ DOMAIN s = 1 .. Len(s)
<1>1. PICK n \in 0 .. MaxValues : s \in [1 .. n -> S]
  BY DEF SeqsOf
<1>2. n \in Nat /\ n < Word /\ Word \in Nat
  BY CodecAssumption, WordIs
<1>3. s \in Seq(S) /\ Len(s) = n /\ DOMAIN s = 1 .. n
  BY <1>1, <1>2
<1> QED
  BY <1>2, <1>3 DEF Countable, Unsigned64

\* It holds before anything is stored,
LEMMA CodecInit == Init => CodecInv
<1> SUFFICES ASSUME Init PROVE CodecInv
  OBVIOUS
<1>1. fate = "none" /\ record = <<>> /\ content.kind = "row"
  BY DEF Init
<1>2. record \in Seq(Byte)
  BY <1>1, Nothing
<1>3. Became
  BY <1>1 DEF Became
<1> QED
  BY <1>1, <1>2, <1>3 DEF CodecInv, Kinds

\* after a row is stored,
LEMMA CodecStoreRow ==
    ASSUME CodecInv, NEW row \in SeqsOf(Values), StoreRow(row)
    PROVE  CodecInv'
<1>1. /\ \A i \in DOMAIN row : Storable(row[i])
      /\ content' = [kind |-> "row", items |-> row]
      /\ record' = Written("row", row) /\ fate' = "written"
  BY WrittenIs DEF StoreRow
<1>2. content'.kind = "row" /\ content'.items = row
  BY <1>1
<1>3. row \in Countable(Writable("row"))
  <2>1. row \in Seq(Values) /\ Len(row) \in Unsigned64 /\ DOMAIN row = 1 .. Len(row)
    BY StoredItems DEF Countable
  <2>2. \A i \in 1 .. Len(row) : row[i] \in Writable("row")
    BY <1>1, <2>1, ValuesAssumption DEF Writable
  <2>3. row \in Seq(Writable("row"))
    BY <2>1, <2>2
  <2> QED
    BY <2>1, <2>3 DEF Countable
<1>4. record' \in Seq(Byte)
  BY <1>1, <1>3, Nothing, WholeBack DEF Kinds
<1>5. Became'
  BY <1>1, <1>2 DEF Became
<1> QED
  BY <1>1, <1>2, <1>3, <1>4, <1>5 DEF CodecInv, Kinds

\* after a list of columns is,
LEMMA CodecStoreColumns ==
    ASSUME CodecInv, NEW cols \in SeqsOf(Columns), StoreColumns(cols)
    PROVE  CodecInv'
<1>1. /\ content' = [kind |-> "columns", items |-> cols]
      /\ record' = Written("columns", cols) /\ fate' = "written"
  BY WrittenIs DEF StoreColumns
<1>2. content'.kind = "columns" /\ content'.items = cols
  BY <1>1
<1>3. cols \in Countable(Writable("columns"))
  <2>1. cols \in Seq(Columns) /\ Len(cols) \in Unsigned64
    BY StoredItems DEF Countable
  <2>2. \A i \in 1 .. Len(cols) : cols[i] \in Writable("columns")
    BY <2>1, ValuesAssumption DEF Writable
  <2>3. cols \in Seq(Writable("columns"))
    BY <2>1, <2>2
  <2> QED
    BY <2>1, <2>3 DEF Countable
<1>4. record' \in Seq(Byte)
  BY <1>1, <1>3, Nothing, WholeBack DEF Kinds
<1>5. Became'
  BY <1>1, <1>2 DEF Became
<1> QED
  BY <1>1, <1>2, <1>3, <1>4, <1>5 DEF CodecInv, Kinds

\* after a row is refused,
LEMMA CodecRefuseRow ==
    ASSUME CodecInv, NEW row \in SeqsOf(Values), RefuseRow(row)
    PROVE  CodecInv'
<1>1. /\ content' = [kind |-> "row", items |-> row]
      /\ fate' = "refused" /\ record' = record
  BY DEF RefuseRow
<1>2. content'.kind = "row" /\ record \in Seq(Byte)
  BY <1>1 DEF CodecInv
<1>3. Became'
  BY <1>1 DEF Became
<1> QED
  BY <1>1, <1>2, <1>3 DEF CodecInv, Kinds

\* A record that is written is the one of its items.
LEMMA AsWritten ==
    ASSUME CodecInv, fate = "written"
    PROVE  /\ content.kind \in Kinds
           /\ content.items \in Countable(Writable(content.kind))
           /\ record = Written(content.kind, content.items) /\ record \in Seq(Byte)
BY DEF CodecInv, Became

\* after a record is cut,
LEMMA CodecCut ==
    ASSUME CodecInv, NEW n \in 0 .. Len(record) - 1, Cut(n)
    PROVE  CodecInv'
<1>1. /\ fate = "written" /\ content' = content
      /\ record' = SubSeq(record, 1, n) /\ fate' = "cut"
  BY DEF Cut
<1>2. /\ content.kind \in Kinds /\ content.items \in Countable(Writable(content.kind))
      /\ record = Written(content.kind, content.items) /\ record \in Seq(Byte)
  BY <1>1, AsWritten
<1>3. n \in 0 .. Len(record) /\ n < Len(record) /\ Len(record) \in Nat
  BY <1>2, LenProperties
<1>4. PICK s \in Seq(Byte), t \in Seq(Byte) :
         Len(s) = n /\ record = s \o t /\ s = SubSeq(record, 1, n)
  BY <1>2, <1>3, CutInTwo
<1>5. t # <<>>
  <2>1. Len(s \o t) = Len(s) + Len(t)
    BY ConcatProperties
  <2>2. t = <<>> => Len(t) = 0
    OBVIOUS
  <2> QED
    BY <1>3, <1>4, <2>1, <2>2
<1>6. Became'
  <2>1. Written(content.kind, content.items) = record' \o t
    BY <1>1, <1>2, <1>4
  <2> QED
    BY <1>1, <1>5, <2>1 DEF Became
<1> QED
  BY <1>1, <1>2, <1>4, <1>6 DEF CodecInv

\* after it is extended,
LEMMA CodecExtend ==
    ASSUME CodecInv, NEW b \in Byte, Extend(b)
    PROVE  CodecInv'
<1>1. /\ fate = "written" /\ content' = content
      /\ record' = Append(record, b) /\ fate' = "extended"
  BY DEF Extend
<1>2. /\ content.kind \in Kinds /\ content.items \in Countable(Writable(content.kind))
      /\ record = Written(content.kind, content.items) /\ record \in Seq(Byte)
  BY <1>1, AsWritten
<1>3. PICK p : p = <<b>>
  OBVIOUS
<1>4. p \in Seq(Byte) /\ p # <<>>
  BY <1>3
<1>5. Append(record, b) = record \o p /\ Append(record, b) \in Seq(Byte)
  BY <1>2, <1>3, AppendIsConcat, AppendProperties
<1>6. Became'
  <2>1. record' = Written(content.kind, content.items) \o p
    BY <1>1, <1>2, <1>5
  <2> QED
    BY <1>1, <1>4, <2>1 DEF Became
<1> QED
  BY <1>1, <1>2, <1>5, <1>6 DEF CodecInv

\* after it is altered,
LEMMA CodecAlter ==
    ASSUME CodecInv, NEW i \in DOMAIN record, NEW b \in Byte, Alter(i, b)
    PROVE  CodecInv'
<1>1. /\ fate \in {"written", "altered"} /\ content' = content
      /\ record' = [record EXCEPT ![i] = b] /\ fate' = "altered"
  BY DEF Alter
<1>2. record \in Seq(Byte) /\ i \in 1 .. Len(record)
  BY LenProperties DEF CodecInv
<1>3. record' \in Seq(Byte)
  BY <1>1, <1>2, ExceptSeq
<1>4. content.kind \in Kinds /\ content.items \in Countable(Writable(content.kind))
  BY <1>1 DEF CodecInv
<1>5. Became'
  BY <1>1 DEF Became
<1> QED
  BY <1>1, <1>3, <1>4, <1>5 DEF CodecInv

\* and after a newer build wrote one:
LEMMA CodecNewerBuild ==
    ASSUME CodecInv, NewerBuild
    PROVE  CodecInv'
<1>1. /\ fate = "written" /\ content' = content
      /\ record' = [record EXCEPT ![1] = CodecVersion + 1] /\ fate' = "newer"
  BY DEF NewerBuild
<1>2. /\ content.kind \in Kinds /\ content.items \in Countable(Writable(content.kind))
      /\ record = Written(content.kind, content.items) /\ record \in Seq(Byte)
  BY <1>1, AsWritten
<1>3. PICK w \in Seq(Byte) : record = <<CodecVersion>> \o w
  BY <1>2, Nothing, WholeBack
<1>4. record' \in Seq(Byte)
  BY <1>1, <1>2, <1>3, NewerRefused
<1>5. Became'
  BY <1>1, <1>2 DEF Became
<1> QED
  BY <1>1, <1>2, <1>4, <1>5 DEF CodecInv

\* after every step.
LEMMA CodecNext == CodecInv /\ [Next]_vars => CodecInv'
<1> SUFFICES ASSUME CodecInv, [Next]_vars PROVE CodecInv'
  OBVIOUS
<1>1. ASSUME NEW row \in SeqsOf(Values), StoreRow(row) PROVE CodecInv'
  BY <1>1, CodecStoreRow
<1>2. ASSUME NEW row \in SeqsOf(Values), RefuseRow(row) PROVE CodecInv'
  BY <1>2, CodecRefuseRow
<1>3. ASSUME NEW cols \in SeqsOf(Columns), StoreColumns(cols) PROVE CodecInv'
  BY <1>3, CodecStoreColumns
<1>4. ASSUME NEW n \in 0 .. Len(record) - 1, Cut(n) PROVE CodecInv'
  BY <1>4, CodecCut
<1>5. ASSUME NEW b \in Byte, Extend(b) PROVE CodecInv'
  BY <1>5, CodecExtend
<1>6. ASSUME NEW i \in DOMAIN record, NEW b \in Byte, Alter(i, b) PROVE CodecInv'
  BY <1>6, CodecAlter
<1>7. CASE NewerBuild
  BY <1>7, CodecNewerBuild
<1>8. CASE UNCHANGED vars
  BY <1>8 DEF vars, CodecInv, Became
<1> QED
  BY <1>1, <1>2, <1>3, <1>4, <1>5, <1>6, <1>7, <1>8 DEF Next

\* Of every record that was stored it is known what it was and what became of
\* it: that is what the properties of the codec rest on.
THEOREM CodecInvariance == Spec => []CodecInv
BY CodecInit, CodecNext, PTL DEF Spec

\* Every value of a row that is stored comes back as one the same statement is
\* written for, and two values of one column come back the same just when they
\* were: whatever the values, the size of a byte and the size of a word
\* (EncodeRow, DecodeRow).
THEOREM CodecRendersTheSame == Spec => []RendersTheSame
<1>1. ASSUME CodecInv PROVE RendersTheSame
  <2> SUFFICES ASSUME fate = "written", content.kind = "row"
               PROVE  LET items == content.items
                          read == Read.is
                      IN  /\ Read.ok /\ Len(read) = Len(items)
                          /\ \A i \in DOMAIN items :
                                /\ Literal(items[i]) # Unrendered
                                /\ Literal(read[i]) = Literal(items[i])
                          /\ \A i, j \in DOMAIN items :
                                items[i].type = items[j].type =>
                                    (read[i] = read[j])
                                    = (Instant(items[i]) = Instant(items[j]))
    BY DEF RendersTheSame
  <2>1. PICK items : items = content.items
    OBVIOUS
  <2>2. /\ items \in Countable(Writable("row")) /\ "row" \in Kinds
        /\ record = Written("row", items)
    BY <1>1, <2>1, AsWritten
  <2>3. PICK s : s = BackAll("row", items, Len(items))
    OBVIOUS
  <2>4. Read = Got(s, <<>>)
    BY <2>2, <2>3, DecodedBack DEF Read
  <2>5. Read.ok = TRUE /\ Read.is = s
    <3>1. PICK r : r = Read /\ r = Got(s, <<>>)
      BY <2>4
    <3>2. r.ok = TRUE /\ r.is = s
      BY <3>1 DEF Got
    <3> QED
      BY <3>1, <3>2
  <2>6. items \in Seq(Writable("row")) /\ Len(items) \in Nat /\ DOMAIN items = 1 .. Len(items)
    BY <2>2, LenProperties DEF Countable
  <2>7. s = [i \in 1 .. Len(items) |-> Back("row", items[i])]
    BY <2>3 DEF BackAll
  <2>8. Len(s) = Len(items) /\ \A i \in 1 .. Len(items) : s[i] = ReadBack(items[i])
    BY <2>6, <2>7 DEF Back
  <2>9. \A i \in 1 .. Len(items) : items[i] \in GoValues /\ Storable(items[i])
    BY <2>6 DEF Writable
  <2>10. ASSUME NEW i \in 1 .. Len(items)
         PROVE  Literal(items[i]) # Unrendered /\ Literal(s[i]) = Literal(items[i])
    BY <2>8, <2>9, SameLiteral
  <2>11. ASSUME NEW i \in 1 .. Len(items), NEW j \in 1 .. Len(items),
                items[i].type = items[j].type
         PROVE  (s[i] = s[j]) = (Instant(items[i]) = Instant(items[j]))
    BY <2>8, <2>9, <2>11, SameWhenSame
  <2> QED
    BY <2>1, <2>5, <2>6, <2>8, <2>10, <2>11
<1> QED
  BY <1>1, CodecInvariance, PTL

\* A list of columns comes back as it was (EncodeColumns, DecodeColumns).
THEOREM CodecColumnsComeBack == Spec => []ColumnsComeBack
<1>1. ASSUME CodecInv PROVE ColumnsComeBack
  <2> SUFFICES ASSUME fate = "written", content.kind = "columns"
               PROVE  Read = Got(content.items, <<>>)
    BY DEF ColumnsComeBack
  <2>1. PICK items : items = content.items
    OBVIOUS
  <2>2. /\ items \in Countable(Writable("columns")) /\ "columns" \in Kinds
        /\ record = Written("columns", items)
    BY <1>1, <2>1, AsWritten
  <2>3. Steady("columns") = Writable("columns")
    BY DEF Steady, Writable, Back
  <2>4. items \in Countable(Steady("columns"))
    BY <2>2, <2>3
  <2>5. Decoded("columns", Written("columns", items)) = Got(items, <<>>)
    BY <2>2, <2>4, SteadyBack
  <2> QED
    BY <2>1, <2>2, <2>5 DEF Read
<1> QED
  BY <1>1, CodecInvariance, PTL

\* A record that was cut short anywhere, that goes on after its end or that a
\* newer build wrote is refused as a whole (DecodeRow, DecodeColumns).
THEOREM CodecNothingMadeUp == Spec => []NothingMadeUp
<1>1. ASSUME CodecInv PROVE NothingMadeUp
  <2> SUFFICES ASSUME fate \in {"cut", "extended", "newer"} PROVE ~ Read.ok
    BY DEF NothingMadeUp
  <2>1. PICK kind, items : kind = content.kind /\ items = content.items
    OBVIOUS
  <2>2. kind \in Kinds /\ items \in Countable(Writable(kind)) /\ record \in Seq(Byte)
    BY <1>1, <2>1 DEF CodecInv
  <2>3. CASE fate = "cut"
    <3>1. PICK p \in Seq(Byte) : p # <<>> /\ Written(kind, items) = record \o p
      BY <1>1, <2>1, <2>3 DEF CodecInv, Became
    <3>2. Decoded(kind, record) = Refused
      BY <2>2, <3>1, ShorterRefused
    <3> QED
      BY <2>1, <3>2, RefusedIs DEF Read
  <2>4. CASE fate = "extended"
    <3>1. PICK p \in Seq(Byte) : p # <<>> /\ record = Written(kind, items) \o p
      BY <1>1, <2>1, <2>4 DEF CodecInv, Became
    <3>2. Decoded(kind, record) = Refused
      BY <2>2, <3>1, LongerRefused
    <3> QED
      BY <2>1, <3>2, RefusedIs DEF Read
  <2>5. CASE fate = "newer"
    <3>1. record = [Written(kind, items) EXCEPT ![1] = CodecVersion + 1]
      BY <1>1, <2>1, <2>5 DEF CodecInv, Became
    <3>2. PICK w \in Seq(Byte) : Written(kind, items) = <<CodecVersion>> \o w
      BY <2>2, Nothing, WholeBack
    <3>3. Decoded(kind, record) = Refused
      BY <2>2, <3>1, <3>2, NewerRefused
    <3> QED
      BY <2>1, <3>3, RefusedIs DEF Read
  <2> QED
    BY <2>3, <2>4, <2>5
<1> QED
  BY <1>1, CodecInvariance, PTL

\* Whatever was done to a record, what is read out of it could have been put
\* into one, and would be read the same from there (decodeValue, DecodeRow).
THEOREM CodecOnlyWhatCouldBeWritten == Spec => []OnlyWhatCouldBeWritten
<1>1. ASSUME CodecInv PROVE OnlyWhatCouldBeWritten
  <2> SUFFICES ASSUME Read.ok
               PROVE  IF content.kind = "row"
                      THEN /\ \A i \in DOMAIN Read.is : Storable(Read.is[i])
                           /\ DecodeRow(EncodeRow(Read.is)) = Read
                      ELSE DecodeColumns(EncodeColumns(Read.is)) = Read
    BY DEF OnlyWhatCouldBeWritten
  <2>1. PICK kind : kind = content.kind
    OBVIOUS
  <2>2. kind \in Kinds /\ record \in Seq(Byte) /\ Read = Decoded(kind, record)
    BY <1>1, <2>1 DEF CodecInv, Read
  <2>3. PICK items \in Countable(Steady(kind)) : Read = Got(items, <<>>)
    BY <2>2, ReadAgain
  <2>4. Read.is = items
    <3>1. PICK r : r = Read /\ r = Got(items, <<>>)
      BY <2>3
    <3>2. r.is = items
      BY <3>1 DEF Got
    <3> QED
      BY <3>1, <3>2
  <2>5. Decoded(kind, Written(kind, items)) = Read
    BY <2>2, <2>3, SteadyBack
  <2>6. CASE kind = "row"
    <3>1. \A i \in DOMAIN items : Storable(items[i])
      <4>1. items \in Seq(Steady(kind)) /\ DOMAIN items = 1 .. Len(items)
        BY LenProperties DEF Countable
      <4>2. \A x \in Steady(kind) : Storable(x)
        BY <2>6 DEF Steady, Writable
      <4> QED
        BY <4>1, <4>2
    <3>2. DecodeRow(EncodeRow(items)) = Read
      BY <2>5, <2>6, WrittenIs DEF DecodeRow
    <3> QED
      BY <2>1, <2>4, <2>6, <3>1, <3>2
  <2>7. CASE kind # "row"
    <3>1. DecodeColumns(EncodeColumns(items)) = Read
      BY <2>2, <2>5, <2>7, WrittenIs DEF DecodeColumns, Kinds
    <3> QED
      BY <2>1, <2>4, <2>7, <3>1
  <2> QED
    BY <2>6, <2>7
<1> QED
  BY <1>1, CodecInvariance, PTL
=============================================================================
