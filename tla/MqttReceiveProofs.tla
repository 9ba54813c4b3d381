------------------------- MODULE MqttReceiveProofs -------------------------
(* Theorems about MqttReceive: whatever the broker writes, the client      *)
(* cuts the stream into the packets that are in it and handles each as     *)
(* what it is, and the handler of a filter is given what the filter        *)
(* covers.                                                                 *)
(*                                                                         *)
(* The arguments go by induction over numbers: the digits of a length, the *)
(* packets of the stream, the characters of a topic and its levels.  The   *)
(* induction itself is a lemma, NumbersFromZero, derived from the          *)
(* well-foundedness of the finite subsets of Nat.                          *)
EXTENDS MqttReceive, FiniteSetTheorems, SequenceTheorems, TLAPS

-----------------------------------------------------------------------------
(* Recursions over the natural numbers, and induction.                     *)

\* Every set of numbers has a least one.
LEMMA LeastNumber ==
  ASSUME NEW T \in SUBSET Nat, T # {}
  PROVE  \E x \in T : \A y \in T : x <= y
<1> DEFINE below == {0..n : n \in T}
<1>1. IsWellFoundedOn(StrictSubsetOrdering(Nat), FiniteSubsetsOf(Nat))
  BY FS_StrictSubsetOrderingWellFounded
<1>2. below \subseteq FiniteSubsetsOf(Nat)
  <2> SUFFICES ASSUME NEW n \in T PROVE 0..n \in FiniteSubsetsOf(Nat)
    OBVIOUS
  <2>1. IsFiniteSet(0..n)
    <3>1. 0 \in Int /\ n \in Int
      OBVIOUS
    <3> QED BY <3>1, FS_Interval
  <2>2. 0..n \subseteq Nat
    OBVIOUS
  <2> QED BY <2>1, <2>2 DEF FiniteSubsetsOf
<1>3. PICK m \in below : \A y \in below : ~(<<y, m>> \in StrictSubsetOrdering(Nat))
  <2>1. below # {}
    OBVIOUS
  <2> HIDE DEF below
  <2> QED BY <1>1, <1>2, <2>1, WFMin, Zenon
<1>4. PICK x \in T : m = 0..x
  OBVIOUS
<1>5. ASSUME NEW y \in T, y < x PROVE FALSE
  <2>1. <<0..y, m>> \in StrictSubsetOrdering(Nat)
    BY <1>4, <1>5 DEF StrictSubsetOrdering
  <2> QED BY <2>1, <1>3
<1> QED BY <1>5

\* Induction, for a set of numbers.
LEMMA NumbersFromZero ==
  ASSUME NEW T \in SUBSET Nat, 0 \in T, \A n \in T : n + 1 \in T
  PROVE  T = Nat
<1> SUFFICES ASSUME Nat \ T # {} PROVE FALSE
  OBVIOUS
<1>1. PICK x \in Nat \ T : \A y \in Nat \ T : x <= y
  BY LeastNumber
<1>2. x # 0 /\ x - 1 \in Nat /\ x - 1 \in T
  BY <1>1
<1> QED BY <1>1, <1>2

\* g obeys a recursion up to n: at the numbers of B it is what b says, elsewhere what
\* h makes of its value at the smaller number that d gives.
Obeys(g, n, B, b, d, h) ==
  \A m \in 0..n : g[m] = IF m \in B THEN b[m] ELSE h[m][g[d[m]]]

\* Two functions that obey the same recursion agree as far as both do.
LEMMA RecursionIsUnique ==
  ASSUME NEW B, NEW b, NEW d \in [Nat -> Nat], NEW h, \A n \in Nat \ B : d[n] < n,
         NEW n \in Nat, NEW k \in Nat, NEW g, NEW e, Obeys(g, n, B, b, d, h), Obeys(e, k, B, b, d, h)
  PROVE  \A m \in Nat : m <= n /\ m <= k => g[m] = e[m]
<1> SUFFICES ASSUME NEW m \in Nat, m <= n, m <= k PROVE g[m] = e[m]
  OBVIOUS
<1> DEFINE D == {i \in 0..m : g[i] # e[i]}
<1> SUFFICES ASSUME D # {} PROVE FALSE
  OBVIOUS
<1>1. PICK i \in D : \A j \in D : i <= j
  <2>1. D \in SUBSET Nat
    OBVIOUS
  <2> HIDE DEF D
  <2> QED BY <2>1, LeastNumber
<1>2. i \in 0..n /\ i \in 0..k /\ i \in Nat /\ g[i] # e[i]
  OBVIOUS
<1>3. i \notin B
  BY <1>2 DEF Obeys
<1>4. d[i] \in 0..m /\ d[i] < i
  BY <1>2, <1>3
<1>5. g[d[i]] = e[d[i]]
  BY <1>1, <1>4
<1>6. g[i] = h[i][g[d[i]]] /\ e[i] = h[i][e[d[i]]]
  BY <1>2, <1>3 DEF Obeys
<1> QED BY <1>2, <1>5, <1>6

\* What obeys a recursion up to n can be carried on to n + 1.
LEMMA RecursionExtends ==
  ASSUME NEW V, NEW B, NEW b \in [Nat -> V], NEW d \in [Nat -> Nat],
         NEW h \in [Nat -> [V -> V]], \A n \in Nat \ B : d[n] < n,
         NEW n \in Nat, NEW g \in [0..n -> V], Obeys(g, n, B, b, d, h)
  PROVE  \E e \in [0..(n + 1) -> V] : Obeys(e, n + 1, B, b, d, h)
<1> DEFINE e == [m \in 0..(n + 1) |->
                   IF m <= n THEN g[m] ELSE IF m \in B THEN b[m] ELSE h[m][g[d[m]]]]
<1>1. ASSUME NEW m \in 0..(n + 1), m \notin B
      PROVE  g[d[m]] \in V /\ h[m][g[d[m]]] \in V /\ e[d[m]] = g[d[m]]
  <2>1. m \in Nat /\ d[m] \in Nat /\ d[m] < m
    BY <1>1
  <2>2. d[m] \in 0..n /\ d[m] \in 0..(n + 1) /\ d[m] <= n
    BY <2>1
  <2>3. g[d[m]] \in V
    BY <2>2
  <2>4. e[d[m]] = g[d[m]]
    BY <2>2
  <2>5. h[m][g[d[m]]] \in V
    BY <2>1, <2>3
  <2> QED BY <2>3, <2>4, <2>5
<1>2. ASSUME NEW m \in 0..(n + 1)
      PROVE  e[m] = IF m <= n THEN g[m] ELSE IF m \in B THEN b[m] ELSE h[m][g[d[m]]]
  OBVIOUS
<1>3. \A m \in 0..n : g[m] = IF m \in B THEN b[m] ELSE h[m][g[d[m]]]
  BY DEF Obeys
<1>4. ASSUME NEW m \in 0..(n + 1) PROVE e[m] \in V
  <2>1. m \in Nat /\ (m <= n => m \in 0..n)
    OBVIOUS
  <2> HIDE DEF e
  <2> QED BY <1>1, <1>2, <2>1
<1>5. ASSUME NEW m \in 0..(n + 1) PROVE e[m] = IF m \in B THEN b[m] ELSE h[m][e[d[m]]]
  <2>1. m <= n => m \in 0..n
    OBVIOUS
  <2> HIDE DEF e
  <2> QED BY <1>1, <1>2, <1>3, <2>1
<1>6. e \in [0..(n + 1) -> V]
  BY <1>4
<1>7. Obeys(e, n + 1, B, b, d, h)
  <2> HIDE DEF e
  <2> QED BY <1>5 DEF Obeys
<1> HIDE DEF e
<1> QED BY <1>6, <1>7

\* A function on the numbers may be defined by its values at smaller ones.
Recursion(V, B, b, d, h) ==
  /\ b \in [Nat -> V] /\ d \in [Nat -> Nat] /\ h \in [Nat -> [V -> V]]
  /\ \A n \in Nat \ B : d[n] < n
Solves(f, V, B, b, d, h) ==
  /\ f \in [Nat -> V]
  /\ \A n \in Nat : f[n] = IF n \in B THEN b[n] ELSE h[n][f[d[n]]]

\* A recursion to smaller numbers has a solution.
LEMMA RecursionOnNumbers ==
  ASSUME NEW V, NEW B, NEW b, NEW d, NEW h, Recursion(V, B, b, d, h)
  PROVE  \E f : Solves(f, V, B, b, d, h)
<1> USE DEF Recursion
<1> DEFINE Partial(g, n) == g \in [0..n -> V] /\ Obeys(g, n, B, b, d, h)
           T == {n \in Nat : \E g : Partial(g, n)}
<1>1. 0 \in T
  <2> DEFINE g == [m \in 0..0 |-> b[m]]
  <2>1. 0 \in B
    OBVIOUS
  <2>2. g \in [0..0 -> V]
    OBVIOUS
  <2>3. Obeys(g, 0, B, b, d, h)
    BY <2>1 DEF Obeys
  <2> QED BY <2>2, <2>3
<1>2. ASSUME NEW n \in T PROVE n + 1 \in T
  <2>1. PICK g \in [0..n -> V] : Obeys(g, n, B, b, d, h)
    OBVIOUS
  <2>2. n \in Nat
    OBVIOUS
  <2> HIDE DEF T
  <2>3. \E e \in [0..(n + 1) -> V] : Obeys(e, n + 1, B, b, d, h)
    BY <2>1, <2>2, RecursionExtends
  <2> QED BY <2>2, <2>3 DEF T
<1>3. \A n \in Nat : \E g : Partial(g, n)
  <2>1. T \in SUBSET Nat
    OBVIOUS
  <2>2. T = Nat
    <3> HIDE DEF T
    <3>1. \A n \in T : n + 1 \in T
      BY <1>2
    <3> QED BY <1>1, <2>1, <3>1, NumbersFromZero
  <2> QED BY <2>2
<1> DEFINE part == [n \in Nat |-> CHOOSE g : Partial(g, n)]
           f == [n \in Nat |-> part[n][n]]
<1>4. ASSUME NEW n \in Nat PROVE Partial(part[n], n)
  <2>1. \E g : Partial(g, n)
    BY <1>3
  <2>2. part[n] = CHOOSE g : Partial(g, n)
    BY DEF part
  <2> HIDE DEF Partial, part
  <2> QED BY <2>1, <2>2
<1>5. ASSUME NEW n \in Nat PROVE f[n] = part[n][n] /\ f[n] \in V
  <2>1. f[n] = part[n][n]
    BY DEF f
  <2>2. part[n] \in [0..n -> V] /\ n \in 0..n
    <3>1. Partial(part[n], n)
      BY <1>4
    <3> HIDE DEF part
    <3> QED BY <3>1
  <2> HIDE DEF part, f
  <2> QED BY <2>1, <2>2
<1>6. ASSUME NEW n \in Nat
      PROVE  f[n] = IF n \in B THEN b[n] ELSE h[n][f[d[n]]]
  <2>1. ASSUME n \notin B PROVE part[n][d[n]] = f[d[n]]
    <3>1. d[n] \in Nat /\ d[n] <= n /\ d[n] <= d[n]
      BY <2>1
    <3>2. Partial(part[n], n) /\ Partial(part[d[n]], d[n])
      BY <1>4, <3>1
    <3>3. f[d[n]] = part[d[n]][d[n]]
      BY <1>5, <3>1
    <3> HIDE DEF part, f
    <3>4. Obeys(part[n], n, B, b, d, h) /\ Obeys(part[d[n]], d[n], B, b, d, h)
      BY <3>2
    <3> HIDE DEF Partial
    <3>5. \A g, e, k : k \in Nat /\ Obeys(g, n, B, b, d, h) /\ Obeys(e, k, B, b, d, h)
                         => \A m \in Nat : m <= n /\ m <= k => g[m] = e[m]
      BY RecursionIsUnique
    <3>6. part[n][d[n]] = part[d[n]][d[n]]
      BY <3>1, <3>4, <3>5
    <3> QED BY <3>3, <3>6
  <2>2. part[n][n] = IF n \in B THEN b[n] ELSE h[n][part[n][d[n]]]
    <3> HIDE DEF part, f
    <3>1. Partial(part[n], n) /\ n \in 0..n
      BY <1>4
    <3>2. Obeys(part[n], n, B, b, d, h)
      BY <3>1
    <3> QED BY <3>1, <3>2 DEF Obeys
  <2>3. f[n] = part[n][n]
    BY <1>5
  <2> HIDE DEF part, f
  <2> QED BY <2>1, <2>2, <2>3
<1>7. f \in [Nat -> V]
  <2>1. \A n \in Nat : f[n] \in V
    BY <1>5
  <2> QED BY <2>1
<1> HIDE DEF f
<1> QED BY <1>6, <1>7 DEF Solves

-----------------------------------------------------------------------------
(* The length bytes of a packet.                                           *)

\* A length is its lowest digit and Radix times a smaller number.
LEMMA QuotientIsSmaller ==
  ASSUME NEW n \in Nat, n >= Radix
  PROVE  /\ n \div Radix \in Nat /\ n \div Radix < n /\ n \div Radix > 0
         /\ n % Radix \in 0..(Radix - 1)
         /\ n = (n % Radix) + Radix * (n \div Radix)
<1>1. Radix \in Nat /\ Radix > 1
  BY ReceiveAssumption
<1> DEFINE q == n \div Radix
           r == n % Radix
<1>2. q \in Int /\ r \in 0..(Radix - 1) /\ n = Radix * q + r
  BY <1>1
<1> HIDE DEF q, r
<1>3. q > 0
  <2> SUFFICES ASSUME q <= 0 PROVE FALSE
    BY <1>2
  <2>1. Radix * q <= 0
    BY <1>1, <1>2
  <2> QED BY <1>1, <1>2, <2>1
<1>4. Radix * q >= q + q
  BY <1>1, <1>2, <1>3
<1>5. Radix * q \in Int
  BY <1>1, <1>2
<1>6. q < n
  BY <1>1, <1>2, <1>3, <1>4, <1>5
<1>7. q \in Nat /\ n = r + Radix * q
  BY <1>2, <1>3, <1>5
<1> QED BY <1>2, <1>3, <1>6, <1>7 DEF q, r

\* What MQTTPacket_encode writes is defined for every length.
LEMMA LengthBytesUnfold ==
  /\ LengthBytes \in [Nat -> Seq(Nat)]
  /\ \A n \in Nat :
       LengthBytes[n] = IF n < Radix THEN <<n>>
                        ELSE <<Radix + (n % Radix)>> \o LengthBytes[n \div Radix]
<1>1. Radix \in Nat /\ Radix > 1
  BY ReceiveAssumption
<1> DEFINE B == 0..(Radix - 1)
           b == [n \in Nat |-> <<n>>]
           d == [n \in Nat |-> IF n < Radix THEN 0 ELSE n \div Radix]
           h == [n \in Nat |-> [s \in Seq(Nat) |-> IF n < Radix THEN s ELSE <<Radix + (n % Radix)>> \o s]]
<1>2. b \in [Nat -> Seq(Nat)]
  OBVIOUS
<1>3. d \in [Nat -> Nat]
  BY QuotientIsSmaller, <1>1
<1>4. h \in [Nat -> [Seq(Nat) -> Seq(Nat)]]
  <2> SUFFICES ASSUME NEW n \in Nat, NEW s \in Seq(Nat), n >= Radix
               PROVE  <<Radix + (n % Radix)>> \o s \in Seq(Nat)
    BY <1>1
  <2>1. <<Radix + (n % Radix)>> \in Seq(Nat)
    BY <1>1, QuotientIsSmaller
  <2> QED BY <2>1, ConcatProperties
<1>5. \A n \in Nat \ B : d[n] < n
  BY <1>1, QuotientIsSmaller
<1>6. PICK f : Solves(f, Seq(Nat), B, b, d, h)
  <2>1. Recursion(Seq(Nat), B, b, d, h)
    <3> HIDE DEF B, b, d, h
    <3> QED BY <1>2, <1>3, <1>4, <1>5 DEF Recursion
  <2> HIDE DEF B, b, d, h
  <2> QED BY <2>1, RecursionOnNumbers
<1> HIDE DEF B, b, d, h
<1>7. ASSUME NEW n \in Nat
      PROVE  f[n] = IF n < Radix THEN <<n>> ELSE <<Radix + (n % Radix)>> \o f[n \div Radix]
  <2>1. n < Radix <=> n \in B
    BY <1>1 DEF B
  <2>2. CASE n < Radix
    <3>1. b[n] = <<n>>
      BY DEF b
    <3> QED BY <1>6, <2>1, <2>2, <3>1 DEF Solves
  <2>3. CASE ~(n < Radix)
    <3>1. n \div Radix \in Nat
      BY <1>1, <2>3, QuotientIsSmaller
    <3>2. f[n \div Radix] \in Seq(Nat)
      BY <1>6, <3>1 DEF Solves
    <3>3. d[n] = n \div Radix
      BY <2>3 DEF d
    <3>4. h[n][f[n \div Radix]] = <<Radix + (n % Radix)>> \o f[n \div Radix]
      BY <2>3, <3>2 DEF h
    <3> QED BY <1>6, <2>1, <2>3, <3>3, <3>4 DEF Solves
  <2> QED BY <2>2, <2>3
<1> DEFINE F(g) == [n \in Nat |-> IF n < Radix THEN <<n>>
                                  ELSE <<Radix + (n % Radix)>> \o g[n \div Radix]]
<1>8. f = F(f)
  BY <1>6, <1>7 DEF Solves
<1>9. LengthBytes = CHOOSE g : g = F(g)
  BY DEF LengthBytes
<1>10. LengthBytes = F(LengthBytes)
  <2> HIDE DEF F
  <2> QED BY <1>8, <1>9
<1>11. \A n \in Nat : LengthBytes[n] = IF n < Radix THEN <<n>>
                        ELSE <<Radix + (n % Radix)>> \o LengthBytes[n \div Radix]
  BY <1>10
<1> DEFINE D == {n \in Nat : LengthBytes[n] \notin Seq(Nat)}
<1>12. ASSUME D # {} PROVE FALSE
  <2>1. PICK n \in D : \A m \in D : n <= m
    <3>1. D \in SUBSET Nat
      OBVIOUS
    <3> HIDE DEF D
    <3> QED BY <1>12, <3>1, LeastNumber
  <2>2. n \in Nat /\ LengthBytes[n] \notin Seq(Nat) /\ \A m \in Nat : m < n => m \notin D
    BY <2>1
  <2>3. CASE n < Radix
    <3>1. LengthBytes[n] = <<n>>
      BY <1>11, <2>2, <2>3
    <3> HIDE DEF F, D
    <3> QED BY <2>2, <3>1
  <2>4. CASE ~(n < Radix)
    <3>1. n >= Radix
      BY <1>1, <2>2, <2>4
    <3>2. /\ n \div Radix \in Nat /\ n \div Radix < n
          /\ n % Radix \in 0..(Radix - 1)
      <4> HIDE DEF F, D
      <4> QED BY <2>2, <3>1, QuotientIsSmaller
    <3>3. LengthBytes[n \div Radix] \in Seq(Nat)
      BY <2>2, <3>2
    <3>4. <<Radix + (n % Radix)>> \in Seq(Nat)
      BY <1>1, <3>2
    <3>5. <<Radix + (n % Radix)>> \o LengthBytes[n \div Radix] \in Seq(Nat)
      BY <3>3, <3>4, ConcatProperties
    <3>6. LengthBytes[n] = <<Radix + (n % Radix)>> \o LengthBytes[n \div Radix]
      BY <1>11, <2>2, <2>4
    <3> QED BY <2>2, <3>5, <3>6
  <2> QED BY <2>3, <2>4
<1>13. LengthBytes \in [Nat -> Seq(Nat)]
  <2>1. \A n \in Nat : LengthBytes[n] \in Seq(Nat)
    BY <1>12
  <2>2. DOMAIN LengthBytes = Nat /\ LengthBytes = [n \in DOMAIN LengthBytes |-> LengthBytes[n]]
    BY <1>10
  <2> QED BY <2>1, <2>2
<1> QED BY <1>11, <1>13

-----------------------------------------------------------------------------
(* The layout of the stream.                                               *)

\* How the first n of a sequence of sequences lie in their concatenation t: the k-th
\* begins after the first start[k] elements.
Layout(t, s, n, start) ==
  /\ start \in [1..(n + 1) -> Nat]
  /\ start[1] = 0 /\ start[n + 1] = Len(t)
  /\ \A k \in 1..n :
       /\ start[k + 1] = start[k] + Len(s[k])
       /\ start[k + 1] <= Len(t)
       /\ \A j \in 1..Len(s[k]) : t[start[k] + j] = s[k][j]

\* One more sequence at the end leaves the others where they are.
LEMMA LayoutAppend ==
  ASSUME NEW B, NEW s \in Seq(Seq(B)), NEW n \in Nat, n < Len(s), NEW t \in Seq(B),
         NEW start, Layout(t, s, n, start)
  PROVE  \E e : Layout(t \o s[n + 1], s, n + 1, e)
<1> DEFINE x == s[n + 1]
           u == t \o x
           e == [k \in 1..(n + 2) |-> IF k <= n + 1 THEN start[k] ELSE Len(t) + Len(x)]
<1>1. x \in Seq(B) /\ Len(x) \in Nat
  BY ElementOfSeq, LenProperties
<1>2. /\ u \in Seq(B) /\ Len(u) = Len(t) + Len(x)
      /\ \A i \in 1..(Len(t) + Len(x)) : u[i] = IF i <= Len(t) THEN t[i] ELSE x[i - Len(t)]
  <2> HIDE DEF x
  <2> QED BY <1>1, ConcatProperties
<1>4. Len(t) \in Nat
  OBVIOUS
<1>5. /\ start \in [1..(n + 1) -> Nat] /\ start[1] = 0 /\ start[n + 1] = Len(t)
      /\ \A k \in 1..n :
           /\ start[k + 1] = start[k] + Len(s[k])
           /\ start[k + 1] <= Len(t)
           /\ \A j \in 1..Len(s[k]) : t[start[k] + j] = s[k][j]
  BY DEF Layout
<1> HIDE DEF x, u
<1>6. e \in [1..(n + 2) -> Nat]
  BY <1>1, <1>4, <1>5
<1>7. e[1] = 0 /\ e[n + 2] = Len(u) /\ \A k \in 1..(n + 1) : e[k] = start[k]
  BY <1>2, <1>5
<1> HIDE DEF e
<1>8. ASSUME NEW k \in 1..(n + 1)
      PROVE  /\ e[k + 1] = e[k] + Len(s[k])
             /\ e[k + 1] <= Len(u)
             /\ \A j \in 1..Len(s[k]) : u[e[k] + j] = s[k][j]
  <2>1. CASE k <= n
    <3>1. k \in 1..n /\ k + 1 \in 1..(n + 1)
      BY <2>1
    <3>2. Len(s[k]) \in Nat /\ start[k] \in Nat
      <4>1. s[k] \in Seq(B)
        BY <3>1, ElementOfSeq
      <4> QED BY <4>1, <1>5, <3>1
    <3>3. ASSUME NEW j \in 1..Len(s[k]) PROVE u[e[k] + j] = s[k][j]
      <4>1. start[k + 1] = start[k] + Len(s[k]) /\ start[k + 1] <= Len(t)
        BY <1>5, <3>1
      <4>2. start[k] + j \in 1..(Len(t) + Len(x)) /\ start[k] + j <= Len(t)
        BY <1>1, <1>4, <3>2, <4>1
      <4>3. u[start[k] + j] = t[start[k] + j] /\ t[start[k] + j] = s[k][j] /\ e[k] = start[k]
        BY <1>2, <1>5, <1>7, <3>1, <4>2
      <4> QED BY <4>3
    <3>4. e[k + 1] = e[k] + Len(s[k]) /\ e[k + 1] <= Len(t)
      BY <1>5, <1>7, <3>1
    <3>5. e[k + 1] <= Len(u)
      BY <1>1, <1>2, <1>4, <3>4, <1>6, <3>1
    <3> QED BY <3>3, <3>4, <3>5
  <2>2. CASE ~(k <= n)
    <3>1. k = n + 1
      BY <2>2
    <3>2. s[k] = x /\ e[k] = Len(t) /\ e[k + 1] = Len(u)
      BY <1>5, <1>7, <3>1 DEF x
    <3>3. ASSUME NEW j \in 1..Len(x) PROVE u[Len(t) + j] = x[j]
      <4>1. Len(t) + j \in 1..(Len(t) + Len(x)) /\ ~(Len(t) + j <= Len(t)) /\ (Len(t) + j) - Len(t) = j
        BY <1>1, <1>4
      <4> QED BY <1>2, <4>1
    <3> QED BY <1>1, <1>2, <1>4, <3>2, <3>3
  <2> QED BY <2>1, <2>2
<1>9. Layout(u, s, n + 1, e)
  <2>1. n + 2 = (n + 1) + 1
    OBVIOUS
  <2> QED BY <1>6, <1>7, <1>8, <2>1 DEF Layout
<1> QED BY <1>9 DEF u, x

\* FlattenSeq lays the sequences out one after the other.
LEMMA FlattenLayout ==
  ASSUME NEW B, NEW s \in Seq(Seq(B))
  PROVE  FlattenSeq(s) \in Seq(B) /\ \E start : Layout(FlattenSeq(s), s, Len(s), start)
<1> DEFINE N == Len(s)
           F(g) == [i \in 1..N |-> IF i = 1 THEN s[i] ELSE g[i - 1] \o s[i]]
<1>0. N \in Nat /\ \A i \in 1..N : s[i] \in Seq(B)
  BY ElementOfSeq
<1>1. CASE N = 0
  <2>1. FlattenSeq(s) = s /\ s = <<>>
    BY <1>1 DEF FlattenSeq
  <2>2. Layout(s, s, 0, [k \in 1..1 |-> 0])
    BY <1>1, <2>1 DEF Layout
  <2> QED BY <2>1, <2>2
<1>2. CASE N # 0
  <2> DEFINE Base == {0, 1}
             b == [i \in Nat |-> s[1]]
             d == [i \in Nat |-> IF i = 0 THEN 0 ELSE i - 1]
             h == [i \in Nat |-> [v \in Seq(B) |-> IF i \in 1..N THEN v \o s[i] ELSE v]]
  <2>1. Recursion(Seq(B), Base, b, d, h)
    <3>1. b \in [Nat -> Seq(B)]
      BY <1>0, <1>2
    <3>2. d \in [Nat -> Nat]
      OBVIOUS
    <3>3. h \in [Nat -> [Seq(B) -> Seq(B)]]
      <4> SUFFICES ASSUME NEW i \in 1..N, NEW v \in Seq(B) PROVE v \o s[i] \in Seq(B)
        OBVIOUS
      <4> HIDE DEF N
      <4> QED BY <1>0, ConcatProperties
    <3>4. \A i \in Nat \ Base : d[i] < i
      OBVIOUS
    <3> HIDE DEF Base, b, d, h
    <3> QED BY <3>1, <3>2, <3>3, <3>4 DEF Recursion
  <2>2. PICK f : Solves(f, Seq(B), Base, b, d, h)
    <3> HIDE DEF Base, b, d, h
    <3> QED BY <2>1, RecursionOnNumbers
  <2> DEFINE p == [i \in 1..N |-> f[i]]
  <2>3. ASSUME NEW i \in 1..N
        PROVE  /\ f[i] \in Seq(B)
               /\ f[i] = IF i = 1 THEN s[i] ELSE f[i - 1] \o s[i]
               /\ i # 1 => i - 1 \in 1..N
    <3>1. f[i] = (IF i \in Base THEN b[i] ELSE h[i][f[d[i]]]) /\ f[i] \in Seq(B)
      <4>1. i \in Nat
        OBVIOUS
      <4> HIDE DEF Base, b, d, h
      <4> QED BY <2>2, <4>1 DEF Solves
    <3>2. CASE i = 1
      BY <3>1, <3>2
    <3>3. CASE i # 1
      <4>1. i \notin Base /\ d[i] = i - 1 /\ i - 1 \in Nat /\ i - 1 \in 1..N
        BY <3>3, <1>0
      <4>2. f[i - 1] \in Seq(B)
        BY <2>2, <4>1 DEF Solves
      <4>3. h[i][f[i - 1]] = f[i - 1] \o s[i]
        <5>1. h[i] = [v \in Seq(B) |-> IF i \in 1..N THEN v \o s[i] ELSE v]
          OBVIOUS
        <5> HIDE DEF h
        <5> QED BY <4>2, <5>1
      <4> HIDE DEF h, d, b, Base
      <4> QED BY <3>1, <3>3, <4>1, <4>2, <4>3
    <3> QED BY <3>2, <3>3
  <2> HIDE DEF Base, b, d, h
  <2>4. p = F(p)
    BY <2>3
  <2>5. FlattenSeq(s) = (CHOOSE g : g = F(g))[N]
    BY <1>2 DEF FlattenSeq
  <2> DEFINE g == CHOOSE g : g = F(g)
  <2>6. g = F(g)
    <3> HIDE DEF F, p
    <3> QED BY <2>4
  <2> HIDE DEF g
  <2>7. \A i \in 1..N : g[i] = IF i = 1 THEN s[i] ELSE g[i - 1] \o s[i]
    BY <2>6
  <2> DEFINE T == {i \in Nat : i + 1 \in 1..N =>
                     g[i + 1] \in Seq(B) /\ \E start : Layout(g[i + 1], s, i + 1, start)}
  <2> HIDE DEF N
  <2>8. 0 \in T
    <3>1. 1 \in 1..N /\ g[1] = s[1] /\ s[1] \in Seq(B)
      BY <1>0, <1>2, <2>7
    <3> DEFINE start == [k \in 1..2 |-> IF k = 1 THEN 0 ELSE Len(s[1])]
    <3>2. Len(s[1]) \in Nat
      BY <3>1
    <3>3. Layout(g[1], s, 1, start)
      BY <3>1, <3>2 DEF Layout
    <3> QED BY <3>1, <3>3
  <2>9. ASSUME NEW i \in T PROVE i + 1 \in T
    <3> SUFFICES ASSUME i + 2 \in 1..N
                 PROVE  /\ g[i + 2] \in Seq(B)
                        /\ \E start : Layout(g[i + 2], s, i + 2, start)
      OBVIOUS
    <3>1. i \in Nat /\ i + 1 \in 1..N /\ i + 1 < Len(s) /\ i + 1 \in Nat /\ (i + 1) + 1 = i + 2
      BY <1>0 DEF N
    <3>2. PICK start : g[i + 1] \in Seq(B) /\ Layout(g[i + 1], s, i + 1, start)
      BY <3>1
    <3>3. g[i + 2] = g[i + 1] \o s[i + 2]
      <4>1. i + 2 # 1 /\ (i + 2) - 1 = i + 1
        BY <3>1
      <4> QED BY <2>7, <4>1
    <3> HIDE DEF T
    <3>4. \E e : Layout(g[i + 1] \o s[(i + 1) + 1], s, (i + 1) + 1, e)
      BY <3>1, <3>2, LayoutAppend
    <3>5. g[i + 1] \o s[i + 2] \in Seq(B)
      BY <1>0, <3>2, ConcatProperties
    <3> QED BY <3>1, <3>3, <3>4, <3>5
  <2>10. T = Nat
    <3>1. T \in SUBSET Nat
      OBVIOUS
    <3> HIDE DEF T
    <3> QED BY <2>8, <2>9, <3>1, NumbersFromZero
  <2>11. N - 1 \in Nat /\ (N - 1) + 1 = N /\ N \in 1..N
    BY <1>0, <1>2
  <2>12. g[N] \in Seq(B) /\ \E start : Layout(g[N], s, N, start)
    BY <2>10, <2>11
  <2>13. FlattenSeq(s) = g[N]
    BY <2>5 DEF g
  <2> QED BY <2>12, <2>13 DEF N
<1> QED BY <1>1, <1>2

-----------------------------------------------------------------------------
(* The inductive invariant of the framing: where in the stream the client is. *)

ByteTypes == [pkt : 1..Len(packets), part : {"header", "length", "body"}, digit : Nat]
Sent == [k \in DOMAIN packets |-> BytesOf(k, packets[k])]
Stream == FlattenSeq(Sent)
Start == CHOOSE start : Layout(Stream, Sent, Len(packets), start)
\* How many bytes of the stream the reads returned.
Pos == Len(Stream) - Len(unread)

\* What Init chooses: packets and a filter as the broker and iotx_mc_check_topic let in.
Given ==
  /\ packets \in Seq(Packet) /\ list_sub_handle \in Seq(STRING)
  /\ CheckTopic(list_sub_handle)
  /\ \A k \in DOMAIN packets :
       /\ Len(LengthBytes[packets[k].rem_len]) <= MaxLengthBytes
       /\ \A i \in DOMAIN packets[k].topic : ~IsWild(packets[k].topic[i])

\* The unread bytes are the end of the stream.
UnreadIsRest ==
  /\ unread \in Seq(ByteTypes) /\ Len(unread) <= Len(Stream)
  /\ \A i \in 1..Len(unread) : unread[i] = Stream[Pos + i]

\* The packets before the k-th were handled, in order and as what they are.
HandledUpTo(k) ==
  /\ \A i, j \in DOMAIN handled : i < j => handled[i].pkt < handled[j].pkt
  /\ \A i \in DOMAIN handled :
       /\ handled[i].pkt < k
       /\ Fits(handled[i].pkt) => handled[i].as = packets[handled[i].pkt].type
  /\ \A l \in 1..(k - 1) : Fits(l) => \E i \in DOMAIN handled : handled[i].pkt = l

\* The length bytes still to be read are those of a number m.
LengthSoFar(n) ==
  \E m \in Nat :
    /\ rem_len + m * multiplier = n
    /\ digits + Len(LengthBytes[m]) = Len(LengthBytes[n])
    /\ \A i \in 1..Len(LengthBytes[m]) : LengthBytes[n][digits + i] = LengthBytes[m][i]

Framed ==
  LET h == header.pkt
      n == packets[h].rem_len
  IN  /\ pc = "header" =>
           /\ header = NoByte /\ rem_len = 0 /\ digits = 0 /\ multiplier = 1
           /\ \E k \in 1..(Len(packets) + 1) : Pos = Start[k] /\ HandledUpTo(k)
      /\ pc \in {"length", "body", "drop", "dispatch"} =>
           h \in DOMAIN packets /\ header # NoByte /\ HandledUpTo(h)
      /\ pc = "length" => Pos = Start[h] + 1 + digits /\ LengthSoFar(n)
      /\ pc \in {"body", "drop", "dispatch"} => rem_len = n
      /\ pc = "body" => Pos = Start[h] + HeadLen
      /\ pc = "drop" => TooLong /\ Pos = Start[h] + HeadLen + NeedReadLen
      /\ pc = "dispatch" =>
           Pos = Start[h + 1] /\ (Fits(h) => packet_type = packets[h].type)

Typed ==
  /\ pc \in {"header", "length", "body", "drop", "dispatch", "torn", "lost"}
  /\ header = NoByte \/ header.pkt \in DOMAIN packets
  /\ rem_len \in Nat /\ multiplier \in Nat /\ digits \in 0..MaxLengthBytes
  /\ header # NoByte => rem_len <= packets[header.pkt].rem_len
  /\ packet_type \in Types \cup {"RESERVED", "OTHER"}
  /\ handled \in Seq([pkt : DOMAIN packets, as : Types])
  /\ delivered \subseteq [pkt : DOMAIN packets, to : {"handler", "default"}]

FramingInv == Given /\ UnreadIsRest /\ Typed /\ Framed

\* The bytes of a packet: header, length, body.
LEMMA BytesOfPacket ==
  ASSUME Given, NEW k \in DOMAIN packets
  PROVE  LET n == packets[k].rem_len
         IN  /\ n \in Nat /\ LengthBytes[n] \in Seq(Nat)
             /\ BytesOf(k, packets[k]) \in Seq(ByteTypes)
             /\ Len(BytesOf(k, packets[k])) = 1 + Len(LengthBytes[n]) + n
             /\ BytesOf(k, packets[k])[1] = Byte(k, "header", 0)
             /\ \A i \in 1..Len(LengthBytes[n]) :
                  BytesOf(k, packets[k])[1 + i] = Byte(k, "length", LengthBytes[n][i])
<1> DEFINE n == packets[k].rem_len
           B == ByteTypes
           a == <<Byte(k, "header", 0)>>
           b == [i \in DOMAIN LengthBytes[n] |-> Byte(k, "length", LengthBytes[n][i])]
           c == [i \in 1..n |-> Byte(k, "body", 0)]
<1>1. n \in Nat /\ k \in 1..Len(packets)
  <2>1. packets \in Seq(Packet)
    BY DEF Given
  <2>2. k \in 1..Len(packets) /\ packets[k] \in Packet
    BY <2>1
  <2> QED BY <2>2 DEF Packet
<1>2. LengthBytes[n] \in Seq(Nat)
  BY <1>1, LengthBytesUnfold
<1>3. ASSUME NEW i \in Nat
      PROVE  Byte(k, "header", i) \in B /\ Byte(k, "length", i) \in B /\ Byte(k, "body", i) \in B
  <2>1. \A part \in {"header", "length", "body"} : [pkt |-> k, part |-> part, digit |-> i] \in B
    BY <1>1 DEF ByteTypes
  <2> QED BY <2>1 DEF Byte
<1> DEFINE L == LengthBytes[n]
<1> HIDE DEF B, n
<1>4. a \in Seq(B) /\ Len(a) = 1 /\ a[1] = Byte(k, "header", 0)
  BY <1>3
<1>5. b \in Seq(B) /\ Len(b) = Len(L) /\ \A i \in 1..Len(L) : b[i] = Byte(k, "length", L[i])
  <2>1. L \in Seq(Nat)
    BY <1>2
  <2> HIDE DEF L
  <2>2. DOMAIN L = 1..Len(L) /\ Len(L) \in Nat /\ \A i \in 1..Len(L) : L[i] \in Nat
    BY <2>1
  <2>3. b = [i \in 1..Len(L) |-> Byte(k, "length", L[i])]
    BY <2>2 DEF L
  <2> HIDE DEF b
  <2>4. \A i \in 1..Len(L) : b[i] = Byte(k, "length", L[i]) /\ b[i] \in B
    BY <2>2, <2>3, <1>3
  <2>5. b \in [1..Len(L) -> B]
    BY <2>3, <2>4
  <2> QED BY <2>2, <2>4, <2>5
<1>6. c \in Seq(B) /\ Len(c) = n
  <2>1. c \in [1..n -> B]
    BY <1>3
  <2> QED BY <1>1, <2>1
<1> HIDE DEF a, b, c, L
<1>7. (a \o b) \in Seq(B) /\ Len(a \o b) = 1 + Len(L) /\ (a \o b)[1] = Byte(k, "header", 0)
      /\ \A i \in 1..Len(L) : (a \o b)[1 + i] = Byte(k, "length", L[i])
  <2>1. /\ a \o b \in Seq(B) /\ Len(a \o b) = Len(a) + Len(b)
        /\ \A i \in 1..(Len(a) + Len(b)) : (a \o b)[i] = IF i <= Len(a) THEN a[i] ELSE b[i - Len(a)]
    <3>1. a \in Seq(B) /\ b \in Seq(B)
      BY <1>4, <1>5
    <3> HIDE DEF B
    <3> QED BY <3>1, ConcatProperties
  <2>2. Len(L) \in Nat
    BY <1>2 DEF L
  <2>3. ASSUME NEW i \in 1..Len(L) PROVE (a \o b)[1 + i] = Byte(k, "length", L[i])
    <3>0. Len(a) = 1 /\ Len(b) = Len(L)
      BY <1>4, <1>5
    <3>1. 1 + i \in 1..(Len(a) + Len(b)) /\ ~(1 + i <= Len(a)) /\ (1 + i) - Len(a) = i
      BY <2>2, <3>0
    <3> QED BY <1>5, <2>1, <3>1
  <2>4. 1 \in 1..(Len(a) + Len(b)) /\ 1 <= Len(a)
    BY <1>4, <1>5, <2>2
  <2> QED BY <1>4, <1>5, <2>1, <2>3, <2>4
<1>8. /\ (a \o b) \o c \in Seq(B) /\ Len((a \o b) \o c) = Len(a \o b) + Len(c)
      /\ \A i \in 1..(Len(a \o b) + Len(c)) :
           ((a \o b) \o c)[i] = IF i <= Len(a \o b) THEN (a \o b)[i] ELSE c[i - Len(a \o b)]
  <2>1. (a \o b) \in Seq(B) /\ c \in Seq(B)
    BY <1>6, <1>7
  <2> QED BY <2>1, ConcatProperties, Zenon
<1>9. /\ Len((a \o b) \o c) = 1 + Len(L) + n
      /\ ((a \o b) \o c)[1] = Byte(k, "header", 0)
      /\ \A i \in 1..Len(L) : ((a \o b) \o c)[1 + i] = Byte(k, "length", L[i])
  <2>1. Len(L) \in Nat
    BY <1>2 DEF L
  <2>2. \A i \in 0..Len(L) : 1 + i \in 1..(Len(a \o b) + Len(c)) /\ 1 + i <= Len(a \o b)
    BY <1>1, <1>6, <1>7, <2>1
  <2> QED BY <1>1, <1>6, <1>7, <1>8, <2>1, <2>2
<1>10. BytesOf(k, packets[k]) = (a \o b) \o c
  BY DEF BytesOf, a, b, c, n
<1> QED BY <1>1, <1>2, <1>8, <1>9, <1>10 DEF n, L, B

\* Where in the stream each byte of each packet is.
LEMMA StreamLayout ==
  ASSUME Given
  PROVE  /\ Stream \in Seq(ByteTypes)
         /\ Start \in [1..(Len(packets) + 1) -> Nat]
         /\ Start[1] = 0 /\ Start[Len(packets) + 1] = Len(Stream)
         /\ \A k \in 1..Len(packets) :
              LET n == packets[k].rem_len
              IN  /\ Start[k + 1] = Start[k] + (1 + Len(LengthBytes[n]) + n)
                  /\ Start[k + 1] <= Len(Stream)
                  /\ Stream[Start[k] + 1] = Byte(k, "header", 0)
                  /\ \A i \in 1..Len(LengthBytes[n]) :
                       Stream[(Start[k] + 1) + i] = Byte(k, "length", LengthBytes[n][i])
<1>1. packets \in Seq(Packet) /\ DOMAIN packets = 1..Len(packets) /\ Len(packets) \in Nat
  BY DEF Given
<1>2. Sent \in Seq(Seq(ByteTypes)) /\ Len(Sent) = Len(packets)
      /\ \A k \in 1..Len(packets) : Sent[k] = BytesOf(k, packets[k])
  <2>1. Sent \in [1..Len(packets) -> Seq(ByteTypes)]
    BY <1>1, BytesOfPacket DEF Sent
  <2> QED BY <1>1, <2>1 DEF Sent
<1>3. Stream \in Seq(ByteTypes) /\ Layout(Stream, Sent, Len(packets), Start)
  <2>1. Stream \in Seq(ByteTypes) /\ \E start : Layout(Stream, Sent, Len(packets), start)
    BY <1>2, FlattenLayout DEF Stream
  <2> QED BY <2>1 DEF Start
<1>4. /\ Start \in [1..(Len(packets) + 1) -> Nat]
      /\ Start[1] = 0 /\ Start[Len(packets) + 1] = Len(Stream)
      /\ \A k \in 1..Len(packets) :
           /\ Start[k + 1] = Start[k] + Len(Sent[k])
           /\ Start[k + 1] <= Len(Stream)
           /\ \A j \in 1..Len(Sent[k]) : Stream[Start[k] + j] = Sent[k][j]
  BY <1>3 DEF Layout
<1>5. ASSUME NEW k \in 1..Len(packets)
      PROVE  LET n == packets[k].rem_len
              IN  /\ Start[k + 1] = Start[k] + (1 + Len(LengthBytes[n]) + n)
                  /\ Start[k + 1] <= Len(Stream)
                  /\ Stream[Start[k] + 1] = Byte(k, "header", 0)
                  /\ \A i \in 1..Len(LengthBytes[n]) :
                       Stream[(Start[k] + 1) + i] = Byte(k, "length", LengthBytes[n][i])
  <2> DEFINE n == packets[k].rem_len
             L == LengthBytes[n]
  <2>1. /\ n \in Nat /\ L \in Seq(Nat)
        /\ Len(Sent[k]) = 1 + Len(L) + n
        /\ Sent[k][1] = Byte(k, "header", 0)
        /\ \A i \in 1..Len(L) : Sent[k][1 + i] = Byte(k, "length", L[i])
    BY <1>1, <1>2, BytesOfPacket
  <2> HIDE DEF n
  <2>2. Len(L) \in Nat
    BY <2>1
  <2>3. Start[k] \in Nat
    BY <1>1, <1>4
  <2> HIDE DEF L
  <2>4. ASSUME NEW i \in 1..Len(L) PROVE Stream[(Start[k] + 1) + i] = Byte(k, "length", L[i])
    <3>1. 1 + i \in 1..Len(Sent[k]) /\ (Start[k] + 1) + i = Start[k] + (1 + i)
      <4>1. n \in Nat /\ Len(Sent[k]) = 1 + Len(L) + n
        BY <2>1
      <4> QED BY <4>1, <2>2, <2>3
    <3> QED BY <1>4, <2>1, <3>1
  <2>5. 1 \in 1..Len(Sent[k])
    BY <2>1, <2>2
  <2>6. /\ Start[k + 1] = Start[k] + (1 + Len(L) + n)
        /\ Start[k + 1] <= Len(Stream)
        /\ Stream[Start[k] + 1] = Byte(k, "header", 0)
    BY <1>4, <2>1, <2>5
  <2> QED BY <2>4, <2>6 DEF n, L
<1> QED BY <1>3, <1>4, <1>5

\* The read buffer: the length that is checked is that of the packet, and what is read of
\* a packet that does not fit adds up to it.
LEMMA BufferSize ==
  ASSUME rem_len \in Nat, Len(LengthBytes[rem_len]) <= MaxLengthBytes
  PROVE  /\ HeadLen \in Nat /\ HeadLen = 1 + Len(LengthBytes[rem_len])
         /\ TooLong <=> HeadLen + rem_len > ReadMax
         /\ TooLong => NeedReadLen \in Nat /\ RemainDataLen \in Nat
                       /\ NeedReadLen + RemainDataLen = rem_len
<1>1. LengthBytes[rem_len] \in Seq(Nat)
  BY LengthBytesUnfold
<1>2. Len(LengthBytes[rem_len]) \in Nat
  BY <1>1
<1> DEFINE l == Len(LengthBytes[rem_len])
<1> HIDE DEF l
<1>3. HeadLen = 1 + l
  BY DEF HeadLen, l
<1>4. /\ MaxLengthBytes \in Nat /\ ReadMax \in Nat /\ ReadMax > MaxLengthBytes
      /\ MQTT_DYNBUF_RECV_MARGIN \in Nat /\ MQTT_DYNBUF_RECV_MARGIN > MaxLengthBytes
  BY ReceiveAssumption
<1>5. l \in Nat /\ l <= MaxLengthBytes
  BY <1>2 DEF l
<1>6. HeadLen \in Nat /\ HeadLen <= 1 + MaxLengthBytes
  BY <1>3, <1>4, <1>5
<1> DEFINE margin == MQTT_DYNBUF_RECV_MARGIN + rem_len + HeadLen
<1>7. margin \in Nat /\ margin > rem_len + HeadLen
  BY <1>4, <1>6
<1>8. BufSizeRead = IF margin > ReadMax THEN ReadMax ELSE margin
  BY DEF BufSizeRead
<1> HIDE DEF margin
<1>9. TooLong => HeadLen + rem_len > ReadMax /\ BufSizeRead = ReadMax
  BY <1>4, <1>6, <1>7, <1>8 DEF TooLong
<1>10. HeadLen + rem_len > ReadMax => TooLong
  BY <1>4, <1>6, <1>7, <1>8 DEF TooLong
<1>11. TooLong => NeedReadLen \in Nat /\ RemainDataLen \in Nat
                  /\ NeedReadLen + RemainDataLen = rem_len
  BY <1>4, <1>6, <1>9 DEF NeedReadLen, RemainDataLen
<1> QED BY <1>3, <1>6, <1>9, <1>10, <1>11 DEF l

\* A read of n bytes moves on by n bytes.
LEMMA ReadAdvances ==
  ASSUME Given, UnreadIsRest, NEW n \in Nat, Read(n), packets' = packets
  PROVE  /\ UnreadIsRest' /\ Pos' = Pos + n /\ Pos' <= Len(Stream) /\ Pos \in Nat
         /\ n = 1 => unread # <<>> /\ Head(unread) = Stream[Pos + 1]
<1>1. Stream' = Stream /\ ByteTypes' = ByteTypes
  BY DEF Stream, Sent, BytesOf, ByteTypes
<1> DEFINE N == Len(Stream)
           u == unread
           v == unread'
           B == ByteTypes
<1>2. N \in Nat
  BY StreamLayout
<1>3. u \in Seq(B) /\ Len(u) <= N /\ \A i \in 1..Len(u) : u[i] = Stream[(N - Len(u)) + i]
  BY DEF UnreadIsRest, Pos
<1>4. Len(u) >= n /\ v = SubSeq(u, n + 1, Len(u))
  BY DEF Read
<1> HIDE DEF N, u, v, B
<1>5. Len(u) \in Nat
  BY <1>3
<1>6. v \in Seq(B) /\ Len(v) = Len(u) - n /\ \A i \in 1..(Len(u) - n) : v[i] = u[n + i]
  <2>1. n + 1 \in 1..(Len(u) + 1) /\ Len(u) \in n..Len(u)
    BY <1>4, <1>5
  <2>2. Len(v) = Len(u) - n
    BY <1>3, <1>4, <1>5, <2>1
  <2>3. \A i \in 1..(Len(u) - n) : v[i] = u[n + i]
    BY <1>3, <1>4, <1>5, <2>1
  <2>4. v \in Seq(B)
    BY <1>3, <1>4, <1>5, <2>1
  <2> QED BY <2>2, <2>3, <2>4
<1>7. \A i \in 1..Len(v) : v[i] = Stream[(N - Len(v)) + i]
  <2> TAKE i \in 1..Len(v)
  <2>1. n + i \in 1..Len(u) /\ (N - Len(v)) + i = (N - Len(u)) + (n + i)
    <3>1. Len(v) = Len(u) - n /\ Len(u) >= n
      BY <1>4, <1>6
    <3> QED BY <1>2, <1>5, <3>1
  <2>2. v[i] = u[n + i]
    BY <1>6
  <2> QED BY <1>3, <2>1, <2>2
<1>8. Len(v) <= N /\ N - Len(v) = (N - Len(u)) + n /\ N - Len(u) \in Nat
  <2>1. Len(v) = Len(u) - n /\ Len(u) >= n /\ Len(u) <= N
    BY <1>3, <1>4, <1>6
  <2> QED BY <1>2, <1>5, <2>1
<1>9. UnreadIsRest'
  BY <1>1, <1>6, <1>7, <1>8 DEF UnreadIsRest, Pos, N, v, B
<1>10. Pos' = Pos + n /\ Pos' <= Len(Stream) /\ Pos \in Nat
  BY <1>1, <1>2, <1>6, <1>5, <1>4, <1>8 DEF Pos, N, u, v
<1>11. ASSUME n = 1 PROVE unread # <<>> /\ Head(unread) = Stream[Pos + 1]
  <2>1. 1 \in 1..Len(u)
    BY <1>4, <1>5, <1>11
  <2>2. u[1] = Stream[(N - Len(u)) + 1] /\ u # <<>> /\ Head(u) = u[1]
    BY <1>3, <2>1
  <2> QED BY <2>2 DEF u, N, Pos
<1> QED BY <1>9, <1>10, <1>11

-----------------------------------------------------------------------------
(* Every step keeps it.                                                    *)

\* Before the first read the client is in step.
LEMMA InitFramed == Init => FramingInv
<1> SUFFICES ASSUME Init PROVE FramingInv
  OBVIOUS
<1>1. PICK c \in Connections :
        CheckTopic(c.filter) /\ list_sub_handle = c.filter /\ packets = c.packets
  BY DEF Init
<1>2. c \in Connection
  BY ReceiveAssumption
<1>3. packets \in Seq(Packet) /\ list_sub_handle \in Seq(STRING)
  BY <1>1, <1>2 DEF Connection
<1>4. \A k \in DOMAIN packets :
        /\ Len(LengthBytes[packets[k].rem_len]) <= MaxLengthBytes
        /\ \A i \in DOMAIN packets[k].topic : ~IsWild(packets[k].topic[i])
  BY <1>1, ReceiveAssumption
<1>5. Given
  BY <1>1, <1>3, <1>4 DEF Given
<1>6. unread = Stream
  BY DEF Init, Stream, Sent
<1>7. Stream \in Seq(ByteTypes) /\ Start[1] = 0
  BY <1>5, StreamLayout
<1>8. Len(Stream) \in Nat /\ Pos = 0
  BY <1>6, <1>7 DEF Pos
<1>9. UnreadIsRest
  <2>1. \A i \in 1..Len(unread) : unread[i] = Stream[0 + i]
    BY <1>6, <1>8
  <2> QED BY <1>6, <1>7, <1>8, <2>1 DEF UnreadIsRest
<1>10. Typed
  BY ReceiveAssumption DEF Init, Typed, NoByte
<1>11. Framed
  <2>1. HandledUpTo(1)
    BY DEF Init, HandledUpTo
  <2>2. 1 \in 1..(Len(packets) + 1)
    BY <1>3
  <2> QED BY <1>7, <1>8, <2>1, <2>2 DEF Init, Framed
<1> QED BY <1>5, <1>9, <1>10, <1>11 DEF FramingInv

\* The stream depends on the packets alone.
LEMMA SamePackets ==
  ASSUME Given, packets' = packets, list_sub_handle' = list_sub_handle
  PROVE  /\ Given' /\ Stream' = Stream /\ Start' = Start
         /\ \A k : Fits(k)' <=> Fits(k)
<1>1. Given'
  BY DEF Given
<1>2. Sent' = Sent
  BY DEF Sent, BytesOf
<1>3. Stream' = Stream
  BY <1>2 DEF Stream
<1>4. Start' = Start
  BY <1>2, <1>3 DEF Start
<1>5. \A k : Fits(k)' <=> Fits(k)
  BY DEF Fits, BytesOf
<1> QED BY <1>1, <1>3, <1>4, <1>5

\* What was handled depends on the packets and the history alone.
LEMMA SameHandled ==
  ASSUME packets' = packets, handled' = handled
  PROVE  \A k : HandledUpTo(k)' <=> HandledUpTo(k)
<1>1. \A k : Fits(k)' <=> Fits(k)
  BY DEF Fits, BytesOf
<1> QED BY <1>1 DEF HandledUpTo

\* A thread that gave up, or a connection that is lost, is followed no further.
LEMMA GivingUp ==
  ASSUME FramingInv, pc' \in {"torn", "lost"}, UnreadIsRest',
         UNCHANGED <<packets, list_sub_handle, header, decoding, packet_type, handled, delivered>>
  PROVE  FramingInv'
<1>1. Given'
  BY SamePackets DEF FramingInv
<1>2. Typed'
  BY DEF FramingInv, Typed, decoding
<1>3. Framed'
  BY DEF Framed
<1> QED BY <1>1, <1>2, <1>3 DEF FramingInv

\* A read that ends early gives the packet up.
LEMMA ShortReads ==
  ASSUME FramingInv, NEW n \in Nat, ReadShort(n),
         UNCHANGED <<packets, list_sub_handle, header, decoding, packet_type, handled, delivered>>
  PROVE  FramingInv'
<1>1. PICK k \in 0..(n - 1) : Read(k)
  BY DEF ReadShort
<1>2. UnreadIsRest'
  BY <1>1, ReadAdvances DEF FramingInv
<1>3. pc' \in {"torn", "lost"}
  BY DEF ReadShort
<1> QED BY <1>2, <1>3, GivingUp

\* A header byte read at the start of a packet is the packet's.
LEMMA ReadHeaderFramed ==
  ASSUME FramingInv, ReadHeader
  PROVE  FramingInv'
<1>1. /\ pc = "header" /\ Read(1) /\ header' = Head(unread)
      /\ rem_len' = 0 /\ multiplier' = 1 /\ digits' = 0 /\ pc' = "length"
      /\ packets' = packets /\ list_sub_handle' = list_sub_handle
      /\ packet_type' = packet_type /\ handled' = handled /\ delivered' = delivered
  BY DEF ReadHeader
<1>2. Given /\ UnreadIsRest /\ Typed
  BY DEF FramingInv
<1>3. PICK k \in 1..(Len(packets) + 1) : Pos = Start[k] /\ HandledUpTo(k)
  BY <1>1 DEF FramingInv, Framed
<1>4. Given' /\ Start' = Start /\ HandledUpTo(k)'
  BY <1>1, <1>2, <1>3, SamePackets, SameHandled
<1>5. UnreadIsRest' /\ Pos' = Pos + 1 /\ Pos' <= Len(Stream) /\ Pos \in Nat /\ Head(unread) = Stream[Pos + 1]
  BY <1>1, <1>2, ReadAdvances
<1>6. Len(packets) \in Nat /\ DOMAIN packets = 1..Len(packets)
  BY <1>2 DEF Given
<1>7. k \in 1..Len(packets)
  <2>1. Start[Len(packets) + 1] = Len(Stream) /\ Len(Stream) \in Nat
    BY <1>2, StreamLayout
  <2>2. k # Len(packets) + 1
    BY <1>3, <1>5, <2>1
  <2> QED BY <1>6, <2>2
<1>8. header' = Byte(k, "header", 0)
  <2>1. Stream[Start[k] + 1] = Byte(k, "header", 0)
    BY <1>2, <1>7, StreamLayout
  <2> QED BY <1>1, <1>3, <1>5, <2>1
<1> DEFINE n == packets[k].rem_len
<1>9. n \in Nat
  BY <1>2, <1>6, <1>7, BytesOfPacket
<1>10. header'.pkt = k /\ header' # NoByte
  BY <1>7, <1>8 DEF Byte, NoByte
<1>11. Typed'
  BY <1>1, <1>2, <1>6, <1>7, <1>9, <1>10, ReceiveAssumption DEF Typed
<1>12. LengthSoFar(n)'
  <2>1. LengthBytes[n] \in Seq(Nat)
    BY <1>9, LengthBytesUnfold
  <2>2. Len(LengthBytes[n]) \in Nat
    BY <2>1
  <2>3. /\ 0 + n * 1 = n
        /\ 0 + Len(LengthBytes[n]) = Len(LengthBytes[n])
        /\ \A i \in 1..Len(LengthBytes[n]) : LengthBytes[n][0 + i] = LengthBytes[n][i]
    BY <1>9, <2>2
  <2> HIDE DEF n
  <2>4. n' = n
    BY <1>1 DEF n
  <2> QED BY <1>1, <1>9, <2>3, <2>4 DEF LengthSoFar
<1>13. Pos' = Start'[k] + 1 + digits'
  <2>1. Pos \in Nat
    BY <1>5
  <2> QED BY <1>1, <1>3, <1>4, <1>5, <2>1
<1>14. Framed'
  <2>1. (header.pkt)' = k /\ (packets[k].rem_len)' = n
    BY <1>1, <1>10
  <2> QED BY <1>1, <1>4, <1>6, <1>7, <1>10, <1>12, <1>13, <2>1 DEF Framed
<1> QED BY <1>4, <1>5, <1>11, <1>14 DEF FramingInv

\* What the first of the length bytes of m does to a length r whose next digit is worth
\* w: it takes the lowest digit of m, and the bytes left are those of the rest of m.
TakesDigit(m, w, r, n) ==
  LET b == LengthBytes[m][1]
      t == r + (b % Radix) * w
  IN  /\ t \in Nat /\ w * Radix \in Nat
      /\ b >= Radix =>
           \E q \in Nat : /\ t + q * (w * Radix) = n
                          /\ Len(LengthBytes[m]) = 1 + Len(LengthBytes[q])
                          /\ Len(LengthBytes[q]) > 0
                          /\ \A i \in 1..Len(LengthBytes[q]) : LengthBytes[m][1 + i] = LengthBytes[q][i]
      /\ ~(b >= Radix) => t = n /\ Len(LengthBytes[m]) = 1

\* One digit more: the rest of the length bytes are those of the quotient.
LEMMA DigitTaken ==
  ASSUME NEW m \in Nat, NEW w \in Nat, NEW r \in Nat, NEW n \in Nat, r + m * w = n
  PROVE  /\ Len(LengthBytes[m]) \in Nat /\ Len(LengthBytes[m]) > 0
         /\ TakesDigit(m, w, r, n)
<1> USE DEF TakesDigit
<1>1. Radix \in Nat /\ Radix > 1
  BY ReceiveAssumption
<1>2. \A i \in Nat : LengthBytes[i] \in Seq(Nat) /\ Len(LengthBytes[i]) \in Nat /\ Len(LengthBytes[i]) > 0
  <2> TAKE i \in Nat
  <2>1. LengthBytes[i] \in Seq(Nat)
    BY LengthBytesUnfold
  <2>2. CASE i < Radix
    <3>1. LengthBytes[i] = <<i>>
      BY <2>2, LengthBytesUnfold
    <3> QED BY <2>1, <3>1
  <2>3. CASE ~(i < Radix)
    <3>1. LengthBytes[i] = <<Radix + (i % Radix)>> \o LengthBytes[i \div Radix]
      BY <2>3, LengthBytesUnfold
    <3>2. i \div Radix \in Nat /\ i % Radix \in 0..(Radix - 1)
      BY <1>1, <2>3, QuotientIsSmaller
    <3>3. LengthBytes[i \div Radix] \in Seq(Nat) /\ <<Radix + (i % Radix)>> \in Seq(Nat)
      BY <1>1, <3>2, LengthBytesUnfold
    <3>4. Len(LengthBytes[i]) = Len(<<Radix + (i % Radix)>>) + Len(LengthBytes[i \div Radix])
      BY <3>1, <3>3, ConcatProperties
    <3>5. Len(<<Radix + (i % Radix)>>) = 1 /\ Len(LengthBytes[i \div Radix]) \in Nat
      BY <3>3
    <3> QED BY <2>1, <3>4, <3>5
  <2> QED BY <2>2, <2>3
<1>3. w * Radix \in Nat
  BY <1>1
<1>4. CASE m < Radix
  <2>1. LengthBytes[m] = <<m>>
    BY <1>4, LengthBytesUnfold
  <2>2. LengthBytes[m][1] = m /\ Len(LengthBytes[m]) = 1
    BY <2>1
  <2>3. m % Radix = m
    BY <1>1, <1>4
  <2>4. ~(m >= Radix)
    BY <1>1, <1>4
  <2> QED BY <1>3, <2>2, <2>3, <2>4
<1>5. CASE ~(m < Radix)
  <2> DEFINE q == m \div Radix
             d == m % Radix
             B == LengthBytes[q]
  <2>1. /\ q \in Nat /\ d \in 0..(Radix - 1) /\ d \in Nat
        /\ m = d + Radix * q
    BY <1>1, <1>5, QuotientIsSmaller
  <2>2. LengthBytes[m] = <<Radix + d>> \o B
    BY <1>5, LengthBytesUnfold
  <2> HIDE DEF q, d
  <2>3. B \in Seq(Nat) /\ Len(B) \in Nat /\ Len(B) > 0
    BY <1>2, <2>1
  <2>4. <<Radix + d>> \in Seq(Nat) /\ Len(<<Radix + d>>) = 1 /\ <<Radix + d>>[1] = Radix + d
    BY <1>1, <2>1
  <2> HIDE DEF B
  <2> DEFINE a == <<Radix + d>>
  <2> HIDE DEF a
  <2>5. /\ a \in Seq(Nat) /\ Len(a) = 1 /\ a[1] = Radix + d
        /\ Len(a \o B) = Len(a) + Len(B)
        /\ \A i \in 1..(Len(a) + Len(B)) : (a \o B)[i] = IF i <= Len(a) THEN a[i] ELSE B[i - Len(a)]
    <3>1. a \in Seq(Nat) /\ Len(a) = 1 /\ a[1] = Radix + d
      BY <2>4 DEF a
    <3> QED BY <2>3, <3>1, ConcatProperties
  <2>6. (a \o B)[1] = Radix + d /\ Len(a \o B) = 1 + Len(B)
    <3>1. 1 \in 1..(Len(a) + Len(B)) /\ 1 <= Len(a)
      BY <2>3, <2>5
    <3> QED BY <2>5, <3>1
  <2>7. ASSUME NEW i \in 1..Len(B) PROVE (a \o B)[1 + i] = B[i]
    <3>1. 1 + i \in 1..(Len(a) + Len(B)) /\ ~(1 + i <= Len(a)) /\ (1 + i) - Len(a) = i
      BY <2>3, <2>5
    <3> QED BY <2>5, <3>1
  <2>8. (Radix + d) % Radix = d
    BY <1>1, <2>1
  <2>9. r + d * w \in Nat
    <3>1. d * w \in Nat
      BY <2>1
    <3> QED BY <3>1
  <2>10. (r + d * w) + q * (w * Radix) = n
    <3>1. m * w = (d + Radix * q) * w
      BY <2>1
    <3>2. (d + Radix * q) * w = d * w + q * (w * Radix)
      BY <1>1, <2>1, Z3
    <3>3. d * w \in Nat /\ q * (w * Radix) \in Nat
      BY <1>1, <2>1, <1>3
    <3> QED BY <3>1, <3>2, <3>3
  <2>11. LengthBytes[m] = a \o B
    BY <2>2 DEF a
  <2>12. Radix + d \in Nat /\ Radix + d >= Radix
    BY <1>1, <2>1
  <2>13. /\ Len(LengthBytes[m]) = 1 + Len(LengthBytes[q]) /\ Len(LengthBytes[q]) > 0
         /\ \A i \in 1..Len(LengthBytes[q]) : LengthBytes[m][1 + i] = LengthBytes[q][i]
    BY <2>3, <2>6, <2>7, <2>11 DEF B
  <2>14. LengthBytes[m][1] = Radix + d
    BY <2>6, <2>11
  <2> DEFINE b == LengthBytes[m][1]
  <2>15. b \in Nat /\ b >= Radix /\ b % Radix = d
    BY <2>8, <2>12, <2>14
  <2> HIDE DEF b
  <2>16. \E p \in Nat : /\ (r + (b % Radix) * w) + p * (w * Radix) = n
                        /\ Len(LengthBytes[m]) = 1 + Len(LengthBytes[p])
                        /\ Len(LengthBytes[p]) > 0
                        /\ \A i \in 1..Len(LengthBytes[p]) : LengthBytes[m][1 + i] = LengthBytes[p][i]
    BY <2>1, <2>10, <2>13, <2>15
  <2>17. r + (b % Radix) * w \in Nat
    BY <2>9, <2>15
  <2> QED BY <1>2, <1>3, <2>15, <2>16, <2>17 DEF b
<1> QED BY <1>4, <1>5

\* A length byte keeps the client in step; after the last of them the length is the packet's.
LEMMA ReadLengthByteFramed ==
  ASSUME FramingInv, ReadLengthByte
  PROVE  FramingInv'
<1> DEFINE k == header.pkt
           n == packets[k].rem_len
           L == LengthBytes[n]
           b == Head(unread).digit
<1>1. /\ pc = "length" /\ digits < MaxLengthBytes /\ Read(1)
      /\ rem_len' = rem_len + (b % Radix) * multiplier /\ multiplier' = multiplier * Radix
      /\ digits' = digits + 1 /\ pc' = IF b >= Radix THEN "length" ELSE "body"
      /\ packets' = packets /\ list_sub_handle' = list_sub_handle /\ header' = header
      /\ packet_type' = packet_type /\ handled' = handled /\ delivered' = delivered
  BY DEF ReadLengthByte
<1>2. Given /\ UnreadIsRest /\ Typed
  BY DEF FramingInv
<1>3. /\ k \in DOMAIN packets /\ header # NoByte /\ HandledUpTo(k)
      /\ Pos = Start[k] + 1 + digits /\ LengthSoFar(n)
  BY <1>1 DEF FramingInv, Framed
<1>4. rem_len \in Nat /\ multiplier \in Nat /\ digits \in Nat /\ digits <= MaxLengthBytes
      /\ MaxLengthBytes \in Nat
  BY <1>2, ReceiveAssumption DEF Typed
<1>5. k \in 1..Len(packets) /\ Len(packets) \in Nat
  BY <1>2, <1>3 DEF Given
<1>6. n \in Nat /\ L \in Seq(Nat)
  BY <1>2, <1>3, BytesOfPacket
<1>7. PICK m \in Nat : /\ rem_len + m * multiplier = n
                       /\ digits + Len(LengthBytes[m]) = Len(L)
                       /\ \A i \in 1..Len(LengthBytes[m]) : L[digits + i] = LengthBytes[m][i]
  BY <1>3 DEF LengthSoFar
<1> HIDE DEF n, k
<1>8. Len(LengthBytes[m]) \in Nat /\ Len(LengthBytes[m]) > 0 /\ Len(L) \in Nat
  <2>1. Len(L) \in Nat
    BY <1>6
  <2> HIDE DEF L
  <2> QED BY <1>4, <1>6, <1>7, <2>1, DigitTaken
<1>9. UnreadIsRest' /\ Pos' = Pos + 1 /\ Head(unread) = Stream[Pos + 1] /\ Pos \in Nat
  BY <1>1, <1>2, ReadAdvances
<1>10. Start[k] \in Nat
  BY <1>2, <1>5, StreamLayout
<1>11. b = LengthBytes[m][1]
  <2>1. digits + 1 \in 1..Len(L) /\ Pos + 1 = (Start[k] + 1) + (digits + 1)
    <3>1. digits + Len(LengthBytes[m]) = Len(L)
      BY <1>7
    <3>2. digits \in Nat /\ Pos = Start[k] + 1 + digits
      BY <1>3, <1>4
    <3> DEFINE d == digits
               s == Start[k]
               p == Pos
               e == Len(LengthBytes[m])
               l == Len(L)
    <3>3. /\ d \in Nat /\ s \in Nat /\ e \in Nat /\ l \in Nat
          /\ e > 0 /\ d + e = l /\ p = s + 1 + d
      BY <1>8, <1>10, <3>1, <3>2
    <3> HIDE DEF d, s, p, e, l
    <3>4. d + 1 \in 1..l /\ p + 1 = (s + 1) + (d + 1)
      BY <3>3
    <3> QED BY <3>4 DEF d, s, p, l
  <2>2. Stream[(Start[k] + 1) + (digits + 1)] = Byte(k, "length", L[digits + 1])
    BY <1>2, <1>5, <2>1, StreamLayout DEF n
  <2>3. 1 \in 1..Len(LengthBytes[m])
    BY <1>8
  <2>4. L[digits + 1] = LengthBytes[m][1]
    BY <1>7, <2>3
  <2>5. Head(unread) = Byte(k, "length", LengthBytes[m][1])
    BY <1>9, <2>1, <2>2, <2>4
  <2> QED BY <2>5 DEF Byte
<1> HIDE DEF b
<1> DEFINE t == rem_len + (b % Radix) * multiplier
<1>12. /\ t \in Nat /\ multiplier * Radix \in Nat
       /\ b >= Radix =>
            \E q \in Nat : /\ t + q * (multiplier * Radix) = n
                           /\ Len(LengthBytes[m]) = 1 + Len(LengthBytes[q])
                           /\ Len(LengthBytes[q]) > 0
                           /\ \A i \in 1..Len(LengthBytes[q]) : LengthBytes[m][1 + i] = LengthBytes[q][i]
       /\ ~(b >= Radix) => t = n /\ Len(LengthBytes[m]) = 1
  <2>1. rem_len + m * multiplier = n
    BY <1>7
  <2> DEFINE c == LengthBytes[m][1]
             u == rem_len + (c % Radix) * multiplier
  <2>2. TakesDigit(m, multiplier, rem_len, n)
    <3>1. multiplier \in Nat /\ rem_len \in Nat /\ n \in Nat
      BY <1>4, <1>6
    <3> QED BY <2>1, <3>1, DigitTaken
  <2>3. /\ u \in Nat /\ multiplier * Radix \in Nat
        /\ c >= Radix =>
             \E q \in Nat : /\ u + q * (multiplier * Radix) = n
                            /\ Len(LengthBytes[m]) = 1 + Len(LengthBytes[q])
                            /\ Len(LengthBytes[q]) > 0
                            /\ \A i \in 1..Len(LengthBytes[q]) : LengthBytes[m][1 + i] = LengthBytes[q][i]
        /\ ~(c >= Radix) => u = n /\ Len(LengthBytes[m]) = 1
    BY <2>2 DEF TakesDigit
  <2>4. c = b /\ u = t
    BY <1>11
  <2> HIDE DEF c, u, t
  <2> QED BY <2>3, <2>4
<1> HIDE DEF t
<1>13. rem_len' = t /\ digits' = digits + 1 /\ multiplier' = multiplier * Radix
  BY <1>1 DEF t
<1>14. k' = k /\ n' = n
  BY <1>1 DEF k, n
<1>15. Given' /\ Start' = Start /\ HandledUpTo(k)'
  BY <1>1, <1>2, <1>3, <1>14, SamePackets, SameHandled
<1>16. Pos' = Start[k] + 1 + (digits + 1)
  BY <1>3, <1>4, <1>9, <1>10
<1>17. CASE b >= Radix
  <2>1. pc' = "length"
    BY <1>1, <1>17
  <2>2. PICK q \in Nat : /\ t + q * (multiplier * Radix) = n
                         /\ Len(LengthBytes[m]) = 1 + Len(LengthBytes[q])
                         /\ Len(LengthBytes[q]) > 0
                         /\ \A i \in 1..Len(LengthBytes[q]) : LengthBytes[m][1 + i] = LengthBytes[q][i]
    BY <1>12, <1>17
  <2>3. LengthBytes[q] \in Seq(Nat) /\ Len(LengthBytes[q]) \in Nat
    BY LengthBytesUnfold
  <2>4. (digits + 1) + Len(LengthBytes[q]) = Len(L)
    <3>1. digits + Len(LengthBytes[m]) = Len(L) /\ Len(LengthBytes[m]) = 1 + Len(LengthBytes[q])
      BY <1>7, <2>2
    <3> DEFINE x == Len(LengthBytes[m])
               y == Len(LengthBytes[q])
               z == Len(L)
    <3>2. x \in Nat /\ y \in Nat /\ z \in Nat /\ digits + x = z /\ x = 1 + y
      BY <1>8, <2>3, <3>1
    <3> HIDE DEF x, y, z
    <3>3. (digits + 1) + y = z
      BY <1>4, <3>2
    <3> QED BY <3>3 DEF y, z
  <2>5. ASSUME NEW i \in 1..Len(LengthBytes[q])
        PROVE  L[(digits + 1) + i] = LengthBytes[q][i]
    <3>1. 1 + i \in 1..Len(LengthBytes[m]) /\ digits + (1 + i) = (digits + 1) + i
      BY <1>4, <1>8, <2>2, <2>3
    <3> QED BY <1>7, <2>2, <3>1
  <2>6. LengthSoFar(n)'
    BY <1>13, <1>14, <2>2, <2>4, <2>5 DEF LengthSoFar
  <2>7. t <= n
    <3>1. q * (multiplier * Radix) \in Nat
      BY <1>12
    <3> QED BY <1>6, <1>12, <2>2, <3>1
  <2>8. Typed'
    BY <1>1, <1>2, <1>4, <1>12, <1>13, <1>14, <2>1, <2>7 DEF Typed, n, k
  <2>9. Framed'
    BY <1>1, <1>3, <1>13, <1>14, <1>15, <1>16, <2>1, <2>6 DEF Framed, n, k
  <2> QED BY <1>9, <1>15, <2>8, <2>9 DEF FramingInv
<1>18. CASE ~(b >= Radix)
  <2>1. pc' = "body"
    BY <1>1, <1>18
  <2>2. t = n /\ Len(LengthBytes[m]) = 1
    BY <1>12, <1>18
  <2>3. digits + 1 = Len(L)
    BY <1>7, <2>2
  <2>4. HeadLen' = 1 + Len(L)
    BY <1>13, <2>2 DEF HeadLen
  <2>5. Pos' = Start[k] + HeadLen'
    BY <1>4, <1>10, <1>16, <2>3, <2>4
  <2>6. Typed'
    BY <1>1, <1>2, <1>4, <1>6, <1>12, <1>13, <1>14, <2>1, <2>2 DEF Typed, n, k
  <2>7. Framed'
    BY <1>1, <1>3, <1>13, <1>14, <1>15, <2>1, <2>2, <2>5 DEF Framed, n, k
  <2> QED BY <1>9, <1>15, <2>6, <2>7 DEF FramingInv
<1> QED BY <1>17, <1>18

\* What the buffer sizes are once the length is known.
LEMMA BodyFacts ==
  ASSUME FramingInv, pc \in {"body", "drop", "dispatch"}
  PROVE  LET k == header.pkt
         IN  /\ k \in 1..Len(packets) /\ DOMAIN packets = 1..Len(packets) /\ Len(packets) \in Nat
             /\ header # NoByte /\ HandledUpTo(k)
             /\ rem_len \in Nat /\ rem_len = packets[k].rem_len
             /\ HeadLen \in Nat
             /\ Start[k] \in Nat /\ Start[k + 1] = Start[k] + (HeadLen + rem_len)
             /\ Fits(k) <=> ~TooLong
             /\ TooLong => NeedReadLen \in Nat /\ RemainDataLen \in Nat
                           /\ NeedReadLen + RemainDataLen = rem_len
             /\ packets[k].type \in Types
<1> DEFINE k == header.pkt
<1>1. Given /\ Typed
  BY DEF FramingInv
<1>2. k \in DOMAIN packets /\ header # NoByte /\ HandledUpTo(k) /\ rem_len = packets[k].rem_len
  BY DEF FramingInv, Framed
<1>3. packets \in Seq(Packet)
  BY <1>1 DEF Given
<1>4. k \in 1..Len(packets) /\ DOMAIN packets = 1..Len(packets) /\ Len(packets) \in Nat
  BY <1>2, <1>3
<1>5. packets[k] \in Packet
  BY <1>3, <1>4, ElementOfSeq
<1>6. packets[k].type \in Types /\ rem_len \in Nat
  BY <1>2, <1>5 DEF Packet
<1>7. Len(LengthBytes[rem_len]) <= MaxLengthBytes
  BY <1>1, <1>2 DEF Given
<1>8. /\ HeadLen \in Nat /\ HeadLen = 1 + Len(LengthBytes[rem_len])
      /\ TooLong <=> HeadLen + rem_len > ReadMax
      /\ TooLong => NeedReadLen \in Nat /\ RemainDataLen \in Nat
                    /\ NeedReadLen + RemainDataLen = rem_len
  BY <1>6, <1>7, BufferSize
<1>9. Len(BytesOf(k, packets[k])) = HeadLen + rem_len
  BY <1>1, <1>2, <1>8, BytesOfPacket
<1>10. Fits(k) <=> ~TooLong
  <2>1. ReadMax \in Nat
    BY ReceiveAssumption
  <2>2. Fits(k) <=> HeadLen + rem_len <= ReadMax
    BY <1>9 DEF Fits
  <2>3. TooLong <=> HeadLen + rem_len > ReadMax
    BY <1>8
  <2>4. HeadLen + rem_len \in Nat
    BY <1>6, <1>8
  <2> QED BY <2>1, <2>2, <2>3, <2>4
<1>11. Start[k] \in Nat /\ Start[k + 1] = Start[k] + (HeadLen + rem_len)
  <2>1. /\ Start \in [1..(Len(packets) + 1) -> Nat] /\ k \in 1..(Len(packets) + 1)
        /\ Start[k + 1] = Start[k] + (1 + Len(LengthBytes[rem_len]) + rem_len)
    <3>1. /\ Start \in [1..(Len(packets) + 1) -> Nat]
          /\ \A l \in 1..Len(packets) :
               Start[l + 1] = Start[l] + (1 + Len(LengthBytes[packets[l].rem_len]) + packets[l].rem_len)
      BY <1>1, StreamLayout
    <3>2. Len(packets) \in Nat /\ k \in 1..Len(packets) /\ rem_len = packets[k].rem_len
      BY <1>1, <1>2, <1>4
    <3>3. k \in 1..(Len(packets) + 1)
      BY <3>2
    <3> QED BY <3>1, <3>2, <3>3
  <2>2. Start[k] \in Nat
    BY <2>1
  <2> QED BY <1>8, <2>1, <2>2
<1> QED BY <1>2, <1>4, <1>6, <1>8, <1>10, <1>11

\* A body that fits is read to its end.
LEMMA ReadBodyFramed ==
  ASSUME FramingInv, ReadBody
  PROVE  FramingInv'
<1> DEFINE k == header.pkt
<1>1. /\ pc = "body" /\ ~TooLong /\ Read(rem_len) /\ packet_type' = packets[k].type
      /\ pc' = "dispatch" /\ packets' = packets /\ list_sub_handle' = list_sub_handle
      /\ header' = header /\ rem_len' = rem_len /\ multiplier' = multiplier /\ digits' = digits
      /\ handled' = handled /\ delivered' = delivered
  BY DEF ReadBody, decoding
<1>2. Given /\ UnreadIsRest /\ Typed /\ Pos = Start[k] + HeadLen
  BY <1>1 DEF FramingInv, Framed
<1>3. /\ k \in 1..Len(packets) /\ DOMAIN packets = 1..Len(packets) /\ Len(packets) \in Nat
      /\ header # NoByte /\ HandledUpTo(k)
      /\ rem_len \in Nat /\ rem_len = packets[k].rem_len /\ HeadLen \in Nat
      /\ Start[k] \in Nat /\ Start[k + 1] = Start[k] + (HeadLen + rem_len)
      /\ packets[k].type \in Types
  BY <1>1, BodyFacts
<1>4. UnreadIsRest' /\ Pos' = Pos + rem_len
  BY <1>1, <1>2, <1>3, ReadAdvances
<1>5. Given' /\ Start' = Start /\ HandledUpTo(k)'
  BY <1>1, <1>2, <1>3, SamePackets, SameHandled
<1>6. Pos' = Start[k + 1]
  <2>1. Start[k] \in Nat /\ HeadLen \in Nat /\ rem_len \in Nat
    BY <1>3
  <2>2. Pos' = (Start[k] + HeadLen) + rem_len
    <3>1. Pos = Start[k] + HeadLen
      BY <1>2
    <3>2. Pos' = Pos + rem_len
      BY <1>4
    <3> QED BY <3>1, <3>2
  <2>3. (Start[k] + HeadLen) + rem_len = Start[k] + (HeadLen + rem_len)
    BY <2>1
  <2> QED BY <1>3, <2>2, <2>3
<1>7. Typed'
  BY <1>1, <1>2, <1>3 DEF Typed
<1>8. Framed'
  BY <1>1, <1>3, <1>5, <1>6 DEF Framed
<1> QED BY <1>4, <1>5, <1>7, <1>8 DEF FramingInv

\* A packet that does not fit fills the buffer.
LEMMA FillBufferFramed ==
  ASSUME FramingInv, FillBuffer
  PROVE  FramingInv'
<1> DEFINE k == header.pkt
<1>1. /\ pc = "body" /\ TooLong /\ Read(NeedReadLen)
      /\ pc' = "drop" /\ packets' = packets /\ list_sub_handle' = list_sub_handle
      /\ header' = header /\ rem_len' = rem_len /\ multiplier' = multiplier /\ digits' = digits
      /\ packet_type' = packet_type /\ handled' = handled /\ delivered' = delivered
  BY DEF FillBuffer, decoding
<1>2. Given /\ UnreadIsRest /\ Typed /\ Pos = Start[k] + HeadLen
  BY <1>1 DEF FramingInv, Framed
<1>3. /\ k \in 1..Len(packets) /\ DOMAIN packets = 1..Len(packets) /\ Len(packets) \in Nat
      /\ header # NoByte /\ HandledUpTo(k)
      /\ rem_len \in Nat /\ rem_len = packets[k].rem_len /\ HeadLen \in Nat /\ NeedReadLen \in Nat
      /\ Start[k] \in Nat
  BY <1>1, BodyFacts
<1>4. UnreadIsRest' /\ Pos' = Pos + NeedReadLen
  BY <1>1, <1>2, <1>3, ReadAdvances
<1>5. Given' /\ Start' = Start /\ HandledUpTo(k)'
  BY <1>1, <1>2, <1>3, SamePackets, SameHandled
<1>6. HeadLen' = HeadLen /\ NeedReadLen' = NeedReadLen /\ (TooLong' <=> TooLong)
  BY <1>1 DEF HeadLen, NeedReadLen, TooLong, BufSizeRead
<1>7. Pos' = Start[k] + HeadLen' + NeedReadLen'
  BY <1>2, <1>3, <1>4, <1>6
<1>8. Typed'
  BY <1>1, <1>2, <1>3 DEF Typed
<1>9. Framed'
  BY <1>1, <1>3, <1>5, <1>6, <1>7 DEF Framed
<1> QED BY <1>4, <1>5, <1>8, <1>9 DEF FramingInv

\* The rest of it is dropped, up to the next packet and no further.
LEMMA DropRestFramed ==
  ASSUME FramingInv, DropRest
  PROVE  FramingInv'
<1> DEFINE k == header.pkt
<1>1. /\ pc = "drop" /\ Read(RemainDataLen) /\ packet_type' \in Types \cup {"RESERVED", "OTHER"}
      /\ pc' = "dispatch" /\ packets' = packets /\ list_sub_handle' = list_sub_handle
      /\ header' = header /\ rem_len' = rem_len /\ multiplier' = multiplier /\ digits' = digits
      /\ handled' = handled /\ delivered' = delivered
  BY DEF DropRest, decoding
<1>2. Given /\ UnreadIsRest /\ Typed /\ TooLong /\ Pos = Start[k] + HeadLen + NeedReadLen
  BY <1>1 DEF FramingInv, Framed
<1>3. /\ k \in 1..Len(packets) /\ DOMAIN packets = 1..Len(packets) /\ Len(packets) \in Nat
      /\ header # NoByte /\ HandledUpTo(k) /\ ~Fits(k)
      /\ rem_len \in Nat /\ rem_len = packets[k].rem_len /\ HeadLen \in Nat
      /\ NeedReadLen \in Nat /\ RemainDataLen \in Nat /\ NeedReadLen + RemainDataLen = rem_len
      /\ Start[k] \in Nat /\ Start[k + 1] = Start[k] + (HeadLen + rem_len)
  BY <1>1, <1>2, BodyFacts
<1>4. UnreadIsRest' /\ Pos' = Pos + RemainDataLen
  BY <1>1, <1>2, <1>3, ReadAdvances
<1>5. Given' /\ Start' = Start /\ HandledUpTo(k)' /\ ~Fits(k)'
  BY <1>1, <1>2, <1>3, SamePackets, SameHandled
<1>6. Pos' = Start[k + 1]
  BY <1>2, <1>3, <1>4
<1>7. Typed'
  BY <1>1, <1>2, <1>3 DEF Typed
<1>8. Framed'
  BY <1>1, <1>3, <1>5, <1>6 DEF Framed
<1> QED BY <1>4, <1>5, <1>7, <1>8 DEF FramingInv

\* A cycle that ends after the k-th packet begins again at the next one.
LEMMA CycleEnds ==
  ASSUME FramingInv, pc = "dispatch", NextCycle, unread' = unread, packets' = packets,
         list_sub_handle' = list_sub_handle,
         handled' \in Seq([pkt : DOMAIN packets, as : Types]),
         delivered' \subseteq [pkt : DOMAIN packets, to : {"handler", "default"}],
         NEW k, k = header.pkt + 1, HandledUpTo(k)'
  PROVE  FramingInv'
<1>1. /\ pc' = "header" /\ header' = NoByte /\ rem_len' = 0 /\ multiplier' = 1 /\ digits' = 0
      /\ packet_type' = "RESERVED"
  BY DEF NextCycle
<1>2. Given /\ UnreadIsRest /\ Pos = Start[k]
  BY DEF FramingInv, Framed
<1>3. k \in 1..(Len(packets) + 1)
  BY BodyFacts
<1>4. Given' /\ Stream' = Stream /\ Start' = Start
  BY <1>2, SamePackets
<1>5. Pos' = Pos
  BY <1>4 DEF Pos
<1>6. UnreadIsRest'
  BY <1>2, <1>4, <1>5 DEF UnreadIsRest, ByteTypes
<1>7. Typed'
  BY <1>1, ReceiveAssumption DEF Typed
<1>8. Framed'
  BY <1>1, <1>2, <1>3, <1>4, <1>5 DEF Framed
<1> QED BY <1>4, <1>6, <1>7, <1>8 DEF FramingInv

\* A dispatched packet is the next one of the history.
LEMMA DispatchFramed ==
  ASSUME FramingInv, Dispatch
  PROVE  FramingInv'
<1> DEFINE k == header.pkt
           r == [pkt |-> k, as |-> packet_type]
           H == [pkt : DOMAIN packets, as : Types]
<1>1. /\ pc = "dispatch" /\ packet_type \in Types /\ handled' = Append(handled, r)
      /\ NextCycle /\ packets' = packets /\ list_sub_handle' = list_sub_handle /\ unread' = unread
  BY DEF Dispatch
<1>2. /\ k \in 1..Len(packets) /\ DOMAIN packets = 1..Len(packets) /\ Len(packets) \in Nat
      /\ HandledUpTo(k) /\ packets[k].type \in Types
  BY <1>1, BodyFacts
<1>3. Fits(k) => packet_type = packets[k].type
  BY <1>1 DEF FramingInv, Framed
<1>4. /\ handled \in Seq(H)
      /\ delivered \subseteq [pkt : DOMAIN packets, to : {"handler", "default"}]
  BY DEF FramingInv, Typed
<1>5. r \in H /\ r.pkt = k /\ r.as = packet_type
  BY <1>1, <1>2
<1>6. delivered' \subseteq [pkt : DOMAIN packets, to : {"handler", "default"}]
  <2>1. CASE packet_type = "PUBLISH"
    <3>1. \E to \in {"handler", "default"} : delivered' = delivered \cup {[pkt |-> k, to |-> to]}
      BY <2>1 DEF Dispatch, Deliver
    <3> QED BY <1>2, <1>4, <3>1
  <2>2. CASE packet_type # "PUBLISH"
    BY <1>4, <2>2 DEF Dispatch
  <2> QED BY <2>1, <2>2
<1> HIDE DEF r, H
<1>7. handled' \in Seq(H) /\ Len(handled') = Len(handled) + 1
      /\ (\A i \in 1..Len(handled) : handled'[i] = handled[i]) /\ handled'[Len(handled) + 1] = r
  BY <1>1, <1>4, <1>5
<1>8. PICK n : n = k + 1
  OBVIOUS
<1>9. HandledUpTo(n)'
  <2>1. /\ \A i, j \in DOMAIN handled : i < j => handled[i].pkt < handled[j].pkt
        /\ \A i \in DOMAIN handled :
             /\ handled[i].pkt < k
             /\ Fits(handled[i].pkt) => handled[i].as = packets[handled[i].pkt].type
        /\ \A l \in 1..(k - 1) : Fits(l) => \E i \in DOMAIN handled : handled[i].pkt = l
    BY <1>2 DEF HandledUpTo
  <2>2. DOMAIN handled = 1..Len(handled) /\ DOMAIN handled' = 1..(Len(handled) + 1) /\ Len(handled) \in Nat
    BY <1>4, <1>7
  <2>3. \A l : Fits(l)' <=> Fits(l)
    BY <1>1 DEF Fits, BytesOf
  <2>4. ASSUME NEW i \in 1..Len(handled) PROVE handled[i].pkt \in Nat
    <3>1. handled[i] \in H
      BY <1>4, <2>2
    <3> QED BY <1>2, <3>1 DEF H
  <2>5. ASSUME NEW i \in DOMAIN handled', NEW j \in DOMAIN handled', i < j
        PROVE  handled'[i].pkt < handled'[j].pkt
    <3>1. i \in 1..Len(handled) /\ (j \in 1..Len(handled) \/ j = Len(handled) + 1)
      BY <2>2, <2>5
    <3> QED BY <1>5, <1>7, <2>1, <2>2, <2>5, <3>1
  <2>6. ASSUME NEW i \in DOMAIN handled'
        PROVE  /\ handled'[i].pkt < n
               /\ \A l : l = handled'[i].pkt /\ Fits(l) => handled'[i].as = packets[l].type
    <3>1. i \in 1..Len(handled) \/ i = Len(handled) + 1
      BY <2>2
    <3>2. CASE i \in 1..Len(handled)
      <4>1. handled'[i] = handled[i] /\ handled[i].pkt < k /\ handled[i].pkt \in Nat
        BY <1>7, <2>1, <2>2, <2>4, <3>2
      <4>2. \A l : l = handled[i].pkt /\ Fits(l) => handled[i].as = packets[l].type
        BY <2>1, <2>2, <3>2
      <4>3. handled[i].pkt < n
        BY <1>2, <1>8, <4>1
      <4> QED BY <4>1, <4>2, <4>3
    <3>3. CASE i = Len(handled) + 1
      <4>1. handled'[i].pkt = k /\ handled'[i].as = packet_type
        BY <1>5, <1>7, <3>3
      <4>2. k < n
        BY <1>2, <1>8
      <4>3. \A l : l = k /\ Fits(l) => packet_type = packets[l].type
        BY <1>3
      <4> HIDE DEF k
      <4> QED BY <4>1, <4>2, <4>3
    <3> QED BY <3>1, <3>2, <3>3
  <2>7. ASSUME NEW l \in 1..(n - 1), Fits(l)
        PROVE  \E i \in DOMAIN handled' : handled'[i].pkt = l
    <3>1. l \in 1..(k - 1) \/ l = k
      BY <1>2, <1>8
    <3>2. CASE l = k
      BY <1>5, <1>7, <2>2, <3>2
    <3>3. CASE l \in 1..(k - 1)
      <4>1. PICK i \in DOMAIN handled : handled[i].pkt = l
        BY <2>1, <2>7, <3>3
      <4> QED BY <1>7, <2>2, <4>1
    <3> QED BY <3>1, <3>2, <3>3
  <2>8. \A i \in DOMAIN handled' : \A l : l = handled'[i].pkt /\ Fits(l)' => handled'[i].as = packets'[l].type
    BY <1>1, <2>3, <2>6
  <2>9. \A l \in 1..(n - 1) : Fits(l)' => \E i \in DOMAIN handled' : handled'[i].pkt = l
    BY <2>3, <2>7
  <2>10. HandledUpTo(n)' <=>
           /\ \A i, j \in DOMAIN handled' : i < j => handled'[i].pkt < handled'[j].pkt
           /\ \A i \in DOMAIN handled' :
                /\ handled'[i].pkt < n
                /\ \A l : l = handled'[i].pkt /\ Fits(l)' => handled'[i].as = packets'[l].type
           /\ \A l \in 1..(n - 1) : Fits(l)' => \E i \in DOMAIN handled' : handled'[i].pkt = l
    BY DEF HandledUpTo
  <2> QED BY <2>5, <2>6, <2>8, <2>9, <2>10
<1> QED BY <1>1, <1>6, <1>7, <1>8, <1>9, CycleEnds DEF H

\* A packet that is not dispatched did not fit.
LEMMA DispatchNothingFramed ==
  ASSUME FramingInv, DispatchNothing
  PROVE  FramingInv'
<1> DEFINE k == header.pkt
<1>1. /\ pc = "dispatch" /\ packet_type \notin Types /\ handled' = handled /\ delivered' = delivered
      /\ NextCycle /\ packets' = packets /\ list_sub_handle' = list_sub_handle /\ unread' = unread
  BY DEF DispatchNothing
<1>2. k \in 1..Len(packets) /\ Len(packets) \in Nat /\ HandledUpTo(k) /\ packets[k].type \in Types
  BY <1>1, BodyFacts
<1>3. ~Fits(k)
  BY <1>1, <1>2 DEF FramingInv, Framed
<1>4. /\ handled \in Seq([pkt : DOMAIN packets, as : Types])
      /\ delivered \subseteq [pkt : DOMAIN packets, to : {"handler", "default"}]
      /\ DOMAIN packets = 1..Len(packets)
  BY DEF FramingInv, Typed, Given
<1>5. PICK n : n = k + 1
  OBVIOUS
<1>6. HandledUpTo(n)
  <2>1. ASSUME NEW i \in DOMAIN handled PROVE handled[i].pkt \in Nat
    <3> DEFINE H == [pkt : 1..Len(packets), as : Types]
    <3>1. handled[i] \in H
      <4>1. handled \in Seq(H)
        BY <1>4
      <4> HIDE DEF H
      <4> QED BY <4>1
    <3> QED BY <1>2, <3>1
  <2>2. \A l \in 1..(n - 1) : l \in 1..(k - 1) \/ l = k
    BY <1>2, <1>5
  <2> QED BY <1>2, <1>3, <1>5, <2>1, <2>2 DEF HandledUpTo
<1>7. HandledUpTo(n)'
  BY <1>1, <1>6, SameHandled
<1> QED BY <1>1, <1>4, <1>5, <1>7, CycleEnds

\* Every step keeps the client in step.
LEMMA FramingStep == FramingInv /\ [Next]_vars => FramingInv'
<1> SUFFICES ASSUME FramingInv, [Next]_vars PROVE FramingInv'
  OBVIOUS
<1>1. CASE ReadHeader
  BY <1>1, ReadHeaderFramed
<1>2. CASE ReadLengthByte
  BY <1>2, ReadLengthByteFramed
<1>3. CASE ReadLengthFails
  <2>1. UNCHANGED <<packets, list_sub_handle, header, decoding, packet_type, handled, delivered>>
    BY <1>3 DEF ReadLengthFails
  <2>2. CASE digits < MaxLengthBytes
    BY <1>3, <2>1, <2>2, ShortReads DEF ReadLengthFails
  <2>3. CASE ~(digits < MaxLengthBytes)
    <3>1. pc' = "torn" /\ unread' = unread /\ packets' = packets /\ list_sub_handle' = list_sub_handle
      BY <1>3, <2>3 DEF ReadLengthFails
    <3>2. UnreadIsRest /\ Stream' = Stream
      BY <3>1, SamePackets DEF FramingInv
    <3>3. UnreadIsRest'
      BY <3>1, <3>2 DEF UnreadIsRest, Pos, ByteTypes
    <3> QED BY <2>1, <3>1, <3>3, GivingUp
  <2> QED BY <2>2, <2>3
<1>4. CASE ReadBody
  BY <1>4, ReadBodyFramed
<1>5. CASE ReadBodyShort
  <2>1. rem_len \in Nat
    BY <1>5, BodyFacts DEF ReadBodyShort
  <2> QED BY <1>5, <2>1, ShortReads DEF ReadBodyShort
<1>6. CASE FillBuffer
  BY <1>6, FillBufferFramed
<1>7. CASE FillBufferShort
  <2>1. NeedReadLen \in Nat
    BY <1>7, BodyFacts DEF FillBufferShort
  <2> QED BY <1>7, <2>1, ShortReads DEF FillBufferShort
<1>8. CASE DropRest
  BY <1>8, DropRestFramed
<1>9. CASE DropRestShort
  <2>1. TooLong
    BY <1>9 DEF FramingInv, Framed, DropRestShort
  <2>2. RemainDataLen \in Nat
    BY <1>9, <2>1, BodyFacts DEF DropRestShort
  <2> QED BY <1>9, <2>2, ShortReads DEF DropRestShort
<1>10. CASE ReadError
  <2>1. /\ pc' = "lost" /\ unread' = unread
        /\ UNCHANGED <<packets, list_sub_handle, header, decoding, packet_type, handled, delivered>>
    BY <1>10 DEF ReadError
  <2>2. UnreadIsRest /\ Stream' = Stream
    BY <2>1, SamePackets DEF FramingInv
  <2>3. UnreadIsRest'
    BY <2>1, <2>2 DEF UnreadIsRest, Pos, ByteTypes
  <2> QED BY <2>1, <2>3, GivingUp
<1>11. CASE Dispatch
  BY <1>11, DispatchFramed
<1>12. CASE DispatchNothing
  BY <1>12, DispatchNothingFramed
<1>13. CASE UNCHANGED vars
  <2>1. /\ packets' = packets /\ list_sub_handle' = list_sub_handle /\ unread' = unread /\ pc' = pc
        /\ header' = header /\ rem_len' = rem_len /\ multiplier' = multiplier /\ digits' = digits
        /\ packet_type' = packet_type /\ handled' = handled /\ delivered' = delivered
    BY <1>13 DEF vars, decoding
  <2>2. Given /\ UnreadIsRest /\ Typed /\ Framed
    BY DEF FramingInv
  <2>3. /\ Given' /\ Stream' = Stream /\ Start' = Start
        /\ (\A k : Fits(k)' <=> Fits(k)) /\ (\A k : HandledUpTo(k)' <=> HandledUpTo(k))
    BY <2>1, <2>2, SamePackets, SameHandled
  <2>4. UnreadIsRest' /\ Pos' = Pos
    BY <2>1, <2>2, <2>3 DEF UnreadIsRest, Pos, ByteTypes
  <2>5. Typed'
    BY <2>1, <2>2 DEF Typed
  <2>6. /\ HeadLen' = HeadLen /\ NeedReadLen' = NeedReadLen /\ (TooLong' <=> TooLong)
        /\ \A n : LengthSoFar(n)' <=> LengthSoFar(n)
    BY <2>1 DEF HeadLen, NeedReadLen, TooLong, BufSizeRead, LengthSoFar
  <2>7. Framed'
    BY <2>1, <2>2, <2>3, <2>4, <2>6 DEF Framed
  <2> QED BY <2>3, <2>4, <2>5, <2>7 DEF FramingInv
<1> QED BY <1>1, <1>2, <1>3, <1>4, <1>5, <1>6, <1>7, <1>8, <1>9, <1>10, <1>11, <1>12, <1>13 DEF Next

\* The inductive invariant of the framing.
LEMMA FramingInvariant == Spec => []FramingInv
<1> QED BY InitFramed, FramingStep, PTL DEF Spec

\* The invariant gives the type invariant.
LEMMA FramingImpliesType == FramingInv => TypeOK
<1> SUFFICES ASSUME FramingInv PROVE TypeOK
  OBVIOUS
<1>1. Given /\ UnreadIsRest /\ Typed
  BY DEF FramingInv
<1>2. \A i \in DOMAIN unread : unread[i].pkt \in DOMAIN packets
  <2> TAKE i \in DOMAIN unread
  <2>1. unread \in Seq(ByteTypes) /\ DOMAIN packets = 1..Len(packets)
    BY <1>1 DEF UnreadIsRest, Given
  <2>2. unread[i] \in ByteTypes
    BY <2>1
  <2> QED BY <2>1, <2>2 DEF ByteTypes
<1>3. \A i \in DOMAIN handled : handled[i].pkt \in DOMAIN packets /\ handled[i].as \in Types
  <2> TAKE i \in DOMAIN handled
  <2> DEFINE H == [pkt : DOMAIN packets, as : Types]
  <2>1. handled \in Seq(H)
    BY <1>1 DEF Typed
  <2>2. handled[i] \in H
    <3> HIDE DEF H
    <3> QED BY <2>1
  <2> QED BY <2>2
<1> QED BY <1>1, <1>2, <1>3 DEF TypeOK, Typed, Given

\* The state of the reading thread stays well-typed: no packet number, length or digit
\* count outside of what the broker wrote.
THEOREM TypeCorrect == Spec => []TypeOK
<1> QED BY FramingInvariant, FramingImpliesType, PTL

\* At a header the invariant says what was handled.
LEMMA FramingImpliesHandled == FramingInv => HandledAsSent
<1> SUFFICES ASSUME FramingInv, pc = "header"
             PROVE  (unread # <<>> => Head(unread).part = "header") /\ HandledUpTo(NextPacket)
  BY DEF HandledAsSent, HandledUpTo
<1>1. Given /\ UnreadIsRest
  BY DEF FramingInv
<1>2. PICK k \in 1..(Len(packets) + 1) : Pos = Start[k] /\ HandledUpTo(k)
  BY DEF FramingInv, Framed
<1>3. /\ Len(packets) \in Nat /\ Len(Stream) \in Nat /\ Len(unread) \in Nat
      /\ Start[Len(packets) + 1] = Len(Stream)
  BY <1>1, StreamLayout DEF Given, UnreadIsRest
<1>4. CASE k = Len(packets) + 1
  <2>1. Len(unread) = 0
    BY <1>2, <1>3, <1>4 DEF Pos
  <2>2. unread = <<>>
    BY <1>1, <2>1 DEF UnreadIsRest
  <2> QED BY <1>2, <1>4, <2>2 DEF NextPacket
<1>5. CASE k # Len(packets) + 1
  <2>1. k \in 1..Len(packets) /\ k \in DOMAIN packets
    BY <1>1, <1>3, <1>5 DEF Given
  <2>2. /\ packets[k].rem_len \in Nat /\ Len(LengthBytes[packets[k].rem_len]) \in Nat
        /\ Start[k + 1] = Start[k] + (1 + Len(LengthBytes[packets[k].rem_len]) + packets[k].rem_len)
        /\ Start[k + 1] <= Len(Stream) /\ Start[k] \in Nat
        /\ Stream[Start[k] + 1] = Byte(k, "header", 0)
    <3>1. packets[k].rem_len \in Nat /\ LengthBytes[packets[k].rem_len] \in Seq(Nat)
      BY <1>1, <2>1, BytesOfPacket
    <3>2. Len(LengthBytes[packets[k].rem_len]) \in Nat
      BY <3>1
    <3> QED BY <1>1, <1>3, <2>1, <3>1, <3>2, StreamLayout
  <2>3. Len(unread) > 0
    <3> DEFINE L == Len(Stream)
               u == Len(unread)
               s == Start[k]
               e == Start[k + 1]
               b == Len(LengthBytes[packets[k].rem_len])
               n == packets[k].rem_len
    <3>1. L \in Nat /\ u \in Nat /\ s \in Nat /\ b \in Nat /\ n \in Nat
      BY <1>3, <2>2
    <3>2. L - u = s /\ e = s + (1 + b + n) /\ e <= L
      BY <1>2, <2>2 DEF Pos
    <3> HIDE DEF L, u, s, e, b, n
    <3>3. u > 0
      BY <3>1, <3>2
    <3> QED BY <3>3 DEF u
  <2>4. unread # <<>> /\ 1 \in 1..Len(unread) /\ Head(unread) = unread[1]
    BY <1>1, <1>3, <2>3 DEF UnreadIsRest
  <2>5. Head(unread) = Byte(k, "header", 0)
    BY <1>1, <1>2, <2>2, <2>4 DEF UnreadIsRest
  <2>6. Head(unread).pkt = k /\ Head(unread).part = "header"
    BY <2>5 DEF Byte
  <2> QED BY <1>2, <2>4, <2>6 DEF NextPacket
<1> QED BY <1>4, <1>5

\* Whatever the broker writes and however many packets there are, of whatever length: up
\* to a read that fails, the client is in step with the stream, and every packet that fits
\* the buffer was handled once, in order, as what it is.
THEOREM PacketsHandledAsSent == Spec => []HandledAsSent
<1> QED BY FramingInvariant, FramingImpliesHandled, PTL

-----------------------------------------------------------------------------
(* The levels of a topic.                                                  *)

\* The cuts of a topic are finitely many numbers, its two ends among them.
LEMMA CutsAreNumbers ==
  ASSUME NEW s \in Seq(STRING)
  PROVE  /\ Len(s) \in Nat /\ DOMAIN s = 1..Len(s)
         /\ Slashes(s) \subseteq 1..Len(s) /\ IsFiniteSet(Slashes(s))
         /\ Cardinality(Slashes(s)) \in Nat
         /\ Cuts(s) \subseteq 0..(Len(s) + 1) /\ IsFiniteSet(Cuts(s))
         /\ 0 \in Cuts(s) /\ Len(s) + 1 \in Cuts(s)
         /\ \A i \in 1..Len(s) : i \in Cuts(s) <=> s[i] = "/"
         /\ Cardinality(Cuts(s)) = Cardinality(Slashes(s)) + 2
<1>1. Len(s) \in Nat /\ DOMAIN s = 1..Len(s)
  OBVIOUS
<1> DEFINE n == Len(s)
<1> HIDE DEF n
<1>2. n \in Nat /\ DOMAIN s = 1..n
  BY <1>1 DEF n
<1>3. Slashes(s) \subseteq 1..n
  BY <1>2 DEF Slashes
<1>4. IsFiniteSet(Slashes(s)) /\ Cardinality(Slashes(s)) \in Nat
  <2>1. IsFiniteSet(1..n)
    BY <1>2, FS_Interval
  <2>2. IsFiniteSet(Slashes(s))
    BY <1>3, <2>1, FS_Subset
  <2> QED BY <2>2, FS_CardinalityType
<1>5. Cuts(s) = (Slashes(s) \cup {0}) \cup {n + 1}
  BY DEF Cuts, n
<1>6. IsFiniteSet(Slashes(s) \cup {0}) /\ Cardinality(Slashes(s) \cup {0}) = Cardinality(Slashes(s)) + 1
  <2>1. 0 \notin Slashes(s)
    BY <1>2, <1>3
  <2> QED BY <1>4, <2>1, FS_AddElement
<1>7. IsFiniteSet(Cuts(s)) /\ Cardinality(Cuts(s)) = Cardinality(Slashes(s) \cup {0}) + 1
  <2>1. n + 1 \notin Slashes(s) \cup {0}
    BY <1>2, <1>3
  <2> DEFINE S == Slashes(s) \cup {0}
  <2>2. IsFiniteSet(S) /\ n + 1 \notin S
    BY <1>6, <2>1
  <2> HIDE DEF S
  <2>3. IsFiniteSet(S \cup {n + 1}) /\ Cardinality(S \cup {n + 1}) = Cardinality(S) + 1
    BY <2>2, FS_AddElement
  <2> QED BY <1>5, <2>3 DEF S
<1>8. \A i \in 1..n : i \in Cuts(s) <=> s[i] = "/"
  BY <1>2, <1>5 DEF Slashes
<1>9. Cuts(s) \subseteq 0..(n + 1) /\ 0 \in Cuts(s) /\ n + 1 \in Cuts(s)
  BY <1>2, <1>3, <1>5
<1>10. Cardinality(Cuts(s)) = Cardinality(Slashes(s)) + 2
  BY <1>4, <1>6, <1>7
<1> QED BY <1>2, <1>3, <1>4, <1>7, <1>8, <1>9, <1>10 DEF n

\* How many cuts lie before c.
Before(s, c) == Cardinality({d \in Cuts(s) : d < c})

\* The cuts before a place can be counted.
LEMMA BeforeIsNumber ==
  ASSUME NEW s \in Seq(STRING), NEW c \in Nat
  PROVE  Before(s, c) \in Nat /\ IsFiniteSet({d \in Cuts(s) : d < c})
<1> DEFINE D == {d \in Cuts(s) : d < c}
<1>1. IsFiniteSet(Cuts(s)) /\ D \subseteq Cuts(s)
  BY CutsAreNumbers
<1>2. IsFiniteSet(D)
  BY <1>1, FS_Subset
<1> QED BY <1>2, FS_CardinalityType DEF Before

\* Of two cuts the later one has more cuts before it.
LEMMA BeforeGrows ==
  ASSUME NEW s \in Seq(STRING), NEW c \in Cuts(s), NEW e \in Cuts(s), c < e
  PROVE  Before(s, c) < Before(s, e)
<1> DEFINE C == {d \in Cuts(s) : d < c}
           E == {d \in Cuts(s) : d < e}
<1>1. c \in Nat /\ e \in Nat /\ Cuts(s) \subseteq Nat
  BY CutsAreNumbers
<1>2. IsFiniteSet(E) /\ Before(s, e) \in Nat /\ Before(s, c) \in Nat
  BY <1>1, BeforeIsNumber
<1>3. C \subseteq E /\ C # E
  <2>1. c \in E /\ c \notin C
    BY <1>1
  <2>2. \A d \in C : d \in E
    BY <1>1
  <2> QED BY <2>1, <2>2
<1>4. Cardinality(C) <= Cardinality(E) /\ Cardinality(C) # Cardinality(E)
  <2> HIDE DEF C, E
  <2> QED BY <1>2, <1>3, FS_Subset
<1> QED BY <1>2, <1>4 DEF Before

\* The next cut after c has one more before it.
LEMMA BeforeNext ==
  ASSUME NEW s \in Seq(STRING), NEW c \in Cuts(s), NEW e \in Cuts(s), c < e,
         \A d \in Cuts(s) : ~(c < d /\ d < e)
  PROVE  Before(s, e) = Before(s, c) + 1
<1> DEFINE C == {d \in Cuts(s) : d < c}
           E == {d \in Cuts(s) : d < e}
<1>1. c \in Nat /\ e \in Nat /\ Cuts(s) \subseteq Nat
  BY CutsAreNumbers
<1>2. E = C \cup {c}
  BY <1>1
<1>3. IsFiniteSet(C) /\ c \notin C
  BY <1>1, BeforeIsNumber
<1>4. Cardinality(C \cup {c}) = Cardinality(C) + 1
  <2> HIDE DEF C
  <2> QED BY <1>3, FS_AddElement
<1> QED BY <1>2, <1>4 DEF Before

\* A cut with k before it is the (k + 1)-st.
LEMMA CutIsUnique ==
  ASSUME NEW s \in Seq(STRING), NEW c \in Cuts(s), NEW k, k - 1 = Before(s, c)
  PROVE  Cut(s, k) = c
<1>1. \A d \in Cuts(s) : Cardinality({e \in Cuts(s) : e < d}) = k - 1 <=> d = c
  <2> SUFFICES ASSUME NEW d \in Cuts(s), Before(s, d) = Before(s, c) PROVE d = c
    BY DEF Before
  <2>1. c \in Nat /\ d \in Nat
    BY CutsAreNumbers
  <2>2. Before(s, d) \in Nat /\ Before(s, c) \in Nat
    BY <2>1, BeforeIsNumber
  <2> QED BY <2>1, <2>2, BeforeGrows
<1> QED BY <1>1 DEF Cut

\* Every cut but the last is followed by a next one.
LEMMA NextCutExists ==
  ASSUME NEW s \in Seq(STRING), NEW c \in Cuts(s), c # Len(s) + 1
  PROVE  \E e \in Cuts(s) : c < e /\ \A d \in Cuts(s) : ~(c < d /\ d < e)
<1> DEFINE T == {d \in Cuts(s) : c < d}
<1>1. c \in 0..(Len(s) + 1) /\ Cuts(s) \subseteq Nat /\ Len(s) + 1 \in Cuts(s) /\ Len(s) \in Nat
  BY CutsAreNumbers
<1>2. T \in SUBSET Nat /\ T # {}
  BY <1>1
<1>3. PICK e \in T : \A d \in T : e <= d
  <2> HIDE DEF T
  <2> QED BY <1>2, LeastNumber
<1> QED BY <1>1, <1>3

Depth(s) == Cardinality(Slashes(s)) + 1

\* The cuts of a topic, one after the other from its start to its end.
LEMMA Cutting ==
  ASSUME NEW s \in Seq(STRING)
  PROVE  /\ Depth(s) \in Nat /\ Depth(s) >= 1
         /\ Cut(s, 1) = 0 /\ Cut(s, Depth(s) + 1) = Len(s) + 1
         /\ \A k \in 1..(Depth(s) + 1) : Cut(s, k) \in Cuts(s) /\ Before(s, Cut(s, k)) = k - 1
         /\ \A k \in 1..Depth(s) :
              /\ Cut(s, k) < Cut(s, k + 1)
              /\ \A d \in Cuts(s) : ~(Cut(s, k) < d /\ d < Cut(s, k + 1))
<1> DEFINE L == Depth(s)
<1>1. L \in Nat /\ L >= 1
  BY CutsAreNumbers DEF Depth
<1> HIDE DEF L
<1>2. Before(s, 0) = 0
  <2>1. {d \in Cuts(s) : d < 0} = {}
    BY CutsAreNumbers
  <2> QED BY <2>1, FS_EmptySet DEF Before
<1>3. Before(s, Len(s) + 1) = L
  <2> DEFINE D == {d \in Cuts(s) : d < Len(s) + 1}
  <2>1. Cuts(s) = D \cup {Len(s) + 1} /\ Len(s) + 1 \notin D
    BY CutsAreNumbers
  <2>2. IsFiniteSet(D) /\ Cardinality(D) \in Nat
    BY CutsAreNumbers, BeforeIsNumber DEF Before
  <2>3. Cardinality(D \cup {Len(s) + 1}) = Cardinality(D) + 1
    <3> HIDE DEF D
    <3> QED BY <2>1, <2>2, FS_AddElement
  <2>4. Cardinality(Cuts(s)) = L + 1
    BY CutsAreNumbers DEF L, Depth
  <2> DEFINE x == Cardinality(D)
  <2>5. x \in Nat /\ x + 1 = L + 1
    BY <2>1, <2>2, <2>3, <2>4
  <2>6. Before(s, Len(s) + 1) = x
    BY DEF Before
  <2> HIDE DEF x
  <2> QED BY <1>1, <2>5, <2>6
<1>4. Cut(s, 1) = 0
  BY <1>2, CutsAreNumbers, CutIsUnique
<1>5. Cut(s, L + 1) = Len(s) + 1
  BY <1>1, <1>3, CutsAreNumbers, CutIsUnique
<1> DEFINE Ok(k) == Cut(s, k) \in Cuts(s) /\ Before(s, Cut(s, k)) = k - 1
           T == {k \in Nat : k <= L => Ok(k + 1)}
<1>6. ASSUME NEW k \in 1..L, Ok(k)
      PROVE  /\ Ok(k + 1) /\ Cut(s, k) < Cut(s, k + 1)
             /\ \A d \in Cuts(s) : ~(Cut(s, k) < d /\ d < Cut(s, k + 1))
  <2> DEFINE c == Cut(s, k)
  <2>1. c \in Cuts(s) /\ Before(s, c) = k - 1
    BY <1>6
  <2> HIDE DEF c
  <2>2. c # Len(s) + 1
    BY <1>1, <1>3, <2>1
  <2>3. PICK e \in Cuts(s) : c < e /\ \A d \in Cuts(s) : ~(c < d /\ d < e)
    BY <2>1, <2>2, NextCutExists
  <2>4. Before(s, e) = (k - 1) + 1
    BY <2>1, <2>3, BeforeNext
  <2>5. Cut(s, k + 1) = e
    <3>1. (k + 1) - 1 = Before(s, e)
      BY <1>1, <2>4
    <3> QED BY <3>1, CutIsUnique
  <2>6. Before(s, e) = (k + 1) - 1
    BY <1>1, <2>4
  <2> QED BY <2>3, <2>5, <2>6 DEF c
<1>7. 0 \in T
  BY <1>2, <1>4, CutsAreNumbers
<1>8. ASSUME NEW k \in T PROVE k + 1 \in T
  <2> SUFFICES ASSUME k + 1 <= L PROVE Ok((k + 1) + 1)
    OBVIOUS
  <2>1. k + 1 \in 1..L /\ Ok(k + 1)
    BY <1>1
  <2> HIDE DEF Ok
  <2> QED BY <1>6, <2>1
<1>9. T = Nat
  <2>1. T \in SUBSET Nat
    OBVIOUS
  <2> HIDE DEF T
  <2> QED BY <1>7, <1>8, <2>1, NumbersFromZero
<1>10. \A k \in 1..(L + 1) : Ok(k)
  <2> TAKE k \in 1..(L + 1)
  <2>1. k - 1 \in Nat /\ k - 1 <= L /\ (k - 1) + 1 = k
    BY <1>1
  <2>2. k - 1 \in T
    BY <1>9, <2>1
  <2> HIDE DEF Ok
  <2> QED BY <2>1, <2>2
<1>11. ASSUME NEW k \in 1..L
       PROVE  /\ Cut(s, k) < Cut(s, k + 1)
              /\ \A d \in Cuts(s) : ~(Cut(s, k) < d /\ d < Cut(s, k + 1))
  <2>1. Ok(k)
    BY <1>1, <1>10
  <2> HIDE DEF Ok
  <2> QED BY <1>6, <2>1
<1> QED BY <1>1, <1>4, <1>5, <1>10, <1>11 DEF L

\* The k-th level begins where it ends, when no slash lies between and the end is a cut.
LEMMA NextCut ==
  ASSUME NEW s \in Seq(STRING), NEW k \in 1..Depth(s), NEW e \in Cuts(s), Cut(s, k) < e,
         \A d \in Cuts(s) : ~(Cut(s, k) < d /\ d < e)
  PROVE  Cut(s, k + 1) = e
<1>1. /\ Depth(s) \in Nat /\ Cut(s, k) \in Cuts(s) /\ Before(s, Cut(s, k)) = k - 1
  BY Cutting
<1>2. Before(s, e) = (k - 1) + 1
  BY <1>1, BeforeNext
<1>3. (k + 1) - 1 = Before(s, e)
  BY <1>1, <1>2
<1> QED BY <1>3, CutIsUnique

-----------------------------------------------------------------------------
(* The run of iotx_mc_is_topic_matched.                                    *)

\* What the k-th level of a topic holds.
LEMMA LevelsOf ==
  ASSUME NEW s \in Seq(STRING)
  PROVE  /\ DOMAIN Levels(s) = 1..Depth(s) /\ Len(Levels(s)) = Depth(s)
         /\ \A k \in 1..Depth(s) :
              /\ Levels(s)[k] \in Seq(STRING)
              /\ Cut(s, k) \in 0..Len(s) /\ Cut(s, k + 1) \in 1..(Len(s) + 1)
              /\ Cut(s, k) < Cut(s, k + 1)
              /\ Len(Levels(s)[k]) = Cut(s, k + 1) - Cut(s, k) - 1
              /\ \A i \in 1..(Cut(s, k + 1) - Cut(s, k) - 1) :
                   Levels(s)[k][i] = s[Cut(s, k) + i] /\ s[Cut(s, k) + i] # "/"
<1> DEFINE D == Depth(s)
           L(k) == SubSeq(s, Cut(s, k) + 1, Cut(s, k + 1) - 1)
<1>1. D \in Nat /\ Levels(s) = [k \in 1..D |-> L(k)]
  BY Cutting DEF Levels, Depth
<1>2. Len(s) \in Nat /\ Cuts(s) \subseteq 0..(Len(s) + 1)
      /\ \A i \in 1..Len(s) : s[i] \in STRING /\ (i \in Cuts(s) <=> s[i] = "/")
  BY CutsAreNumbers, ElementOfSeq
<1>3. /\ \A k \in 1..(D + 1) : Cut(s, k) \in Cuts(s)
      /\ \A k \in 1..D : /\ Cut(s, k) < Cut(s, k + 1)
                         /\ \A d \in Cuts(s) : ~(Cut(s, k) < d /\ d < Cut(s, k + 1))
  BY Cutting
<1> HIDE DEF D, L
<1>4. ASSUME NEW k \in 1..D
      PROVE  /\ L(k) \in Seq(STRING)
             /\ Cut(s, k) \in 0..Len(s) /\ Cut(s, k + 1) \in 1..(Len(s) + 1)
             /\ Cut(s, k) < Cut(s, k + 1)
             /\ Len(L(k)) = Cut(s, k + 1) - Cut(s, k) - 1
             /\ \A i \in 1..(Cut(s, k + 1) - Cut(s, k) - 1) :
                  L(k)[i] = s[Cut(s, k) + i] /\ s[Cut(s, k) + i] # "/"
  <2> DEFINE a == Cut(s, k)
             e == Cut(s, k + 1)
  <2>1. k \in 1..(D + 1) /\ k + 1 \in 1..(D + 1)
    BY <1>1
  <2>2. a \in 0..(Len(s) + 1) /\ e \in 0..(Len(s) + 1) /\ a < e
    BY <1>2, <1>3, <2>1
  <2>3. \A d \in Cuts(s) : ~(a < d /\ d < e)
    BY <1>3
  <2> HIDE DEF a, e
  <2>4. \A i \in (a + 1)..(e - 1) : i \in 1..Len(s) /\ s[i] \in STRING /\ s[i] # "/"
    BY <1>2, <2>2, <2>3
  <2>5. /\ SubSeq(s, a + 1, e - 1) \in Seq(STRING)
        /\ Len(SubSeq(s, a + 1, e - 1)) = IF a + 1 <= e - 1 THEN (e - 1) - (a + 1) + 1 ELSE 0
        /\ \A i \in 1..((e - 1) - (a + 1) + 1) : SubSeq(s, a + 1, e - 1)[i] = s[(a + 1) + i - 1]
    <3>1. a + 1 \in Int /\ e - 1 \in Int
      BY <1>2, <2>2
    <3>2. \A i \in (a + 1)..(e - 1) : s[i] \in STRING
      BY <2>4
    <3> QED BY <3>1, <3>2, SubSeqProperties
  <2>6. L(k) = SubSeq(s, a + 1, e - 1)
    BY DEF L, a, e
  <2>7. Len(L(k)) = e - a - 1
    BY <1>2, <2>2, <2>5, <2>6
  <2>8. ASSUME NEW i \in 1..(e - a - 1)
        PROVE  L(k)[i] = s[a + i] /\ s[a + i] # "/"
    <3>1. i \in 1..((e - 1) - (a + 1) + 1) /\ (a + 1) + i - 1 = a + i /\ a + i \in (a + 1)..(e - 1)
      BY <1>2, <2>2
    <3> QED BY <2>4, <2>5, <2>6, <3>1
  <2>9. a \in 0..Len(s) /\ e \in 1..(Len(s) + 1)
    BY <1>2, <2>2
  <2> QED BY <2>2, <2>5, <2>6, <2>7, <2>8, <2>9 DEF a, e
<1>5. DOMAIN Levels(s) = 1..D /\ Len(Levels(s)) = D
  <2>1. Levels(s) \in [1..D -> Seq(STRING)]
    BY <1>1, <1>4
  <2> QED BY <1>1, <2>1
<1>6. \A k \in 1..D : Levels(s)[k] = L(k)
  BY <1>1
<1> QED BY <1>4, <1>5, <1>6 DEF D

\* The end of a level is the next cut.
LEMMA LevelEndIsNextCut ==
  ASSUME NEW s \in Seq(STRING), NEW j \in 1..Len(s)
  PROVE  /\ LevelEnd(s, j) \in Cuts(s) /\ LevelEnd(s, j) \in (j + 1)..(Len(s) + 1)
         /\ \A d \in Cuts(s) : ~(j < d /\ d < LevelEnd(s, j))
<1> DEFINE ends == {k \in (j + 1)..Len(s) : s[k] = "/"}
<1>1. Len(s) \in Nat /\ Len(s) + 1 \in Cuts(s) /\ Cuts(s) \subseteq 0..(Len(s) + 1)
      /\ \A i \in 1..Len(s) : (i \in Cuts(s) <=> s[i] = "/")
  BY CutsAreNumbers
<1>2. \A d \in Cuts(s) : j < d => d = Len(s) + 1 \/ d \in ends
  BY <1>1
<1>3. LevelEnd(s, j) = IF ends = {} THEN Len(s) + 1 ELSE CHOOSE k \in ends : \A l \in ends : k <= l
  BY DEF LevelEnd
<1>4. CASE ends = {}
  BY <1>1, <1>2, <1>3, <1>4
<1>5. CASE ends # {}
  <2>1. \E k \in ends : \A l \in ends : k <= l
    <3>1. ends \in SUBSET Nat
      BY <1>1
    <3> HIDE DEF ends
    <3> QED BY <1>5, <3>1, LeastNumber
  <2>2. LevelEnd(s, j) \in ends /\ \A l \in ends : LevelEnd(s, j) <= l
    <3> HIDE DEF ends
    <3> QED BY <1>3, <1>5, <2>1
  <2> QED BY <1>1, <1>2, <2>2
<1> QED BY <1>4, <1>5

\* One run of the loop of iotx_mc_is_topic_matched: where curn is at each place of curf.
Runs(f, t, curn) ==
  /\ curn[1] = 1
  /\ \A p \in 1..Len(f) :
       curn[p + 1] = IF curn[p] \in DOMAIN t /\ Stands(f[p], t[curn[p]])
                     THEN Advance(f[p], t, curn[p]) ELSE 0

\* curn goes forward, and not beyond the end.
LEMMA AdvanceIsNumber ==
  ASSUME NEW t \in Seq(STRING), NEW ch, NEW j \in 1..Len(t)
  PROVE  Advance(ch, t, j) \in Nat /\ Advance(ch, t, j) > j
<1>1. Len(t) \in Nat
  OBVIOUS
<1>2. LevelEnd(t, j) \in (j + 1)..(Len(t) + 1)
  BY LevelEndIsNextCut
<1> QED BY <1>1, <1>2 DEF Advance

\* iotx_mc_is_topic_matched has a run, and its result is where the run ends.
LEMMA MatchingRuns ==
  ASSUME NEW f \in Seq(STRING), NEW t \in Seq(STRING)
  PROVE  \E curn : Runs(f, t, curn) /\ (IsTopicMatched(f, t) <=> curn[Len(f) + 1] = Len(t) + 1)
<1>1. Len(f) \in Nat /\ Len(t) \in Nat /\ DOMAIN t = 1..Len(t)
  OBVIOUS
<1> DEFINE N == Len(f)
           Step(ch, j) == IF j \in DOMAIN t /\ Stands(ch, t[j]) THEN Advance(ch, t, j) ELSE 0
           B == {0, 1}
           b == [n \in Nat |-> 1]
           d == [n \in Nat |-> IF n = 0 THEN 0 ELSE n - 1]
           h == [n \in Nat |-> [j \in Nat |-> Step(f[n - 1], j)]]
<1>2. b \in [Nat -> Nat] /\ d \in [Nat -> Nat] /\ \A n \in Nat \ B : d[n] < n
  OBVIOUS
<1>3. h \in [Nat -> [Nat -> Nat]]
  <2>1. \A n \in Nat, j \in Nat : Step(f[n - 1], j) \in Nat
    BY <1>1, AdvanceIsNumber
  <2> HIDE DEF Step
  <2> QED BY <2>1
<1> HIDE DEF Step
<1>4. PICK g : Solves(g, Nat, B, b, d, h)
  <2>1. Recursion(Nat, B, b, d, h)
    <3> HIDE DEF B, b, d, h
    <3> QED BY <1>2, <1>3 DEF Recursion
  <2> HIDE DEF B, b, d, h
  <2> QED BY <2>1, RecursionOnNumbers
<1>5. g \in [Nat -> Nat] /\ \A n \in Nat : g[n] = IF n \in B THEN b[n] ELSE h[n][g[d[n]]]
  <2> HIDE DEF B, b, d, h
  <2> QED BY <1>4 DEF Solves
<1>6. g[1] = 1
  <2>1. 1 \in Nat /\ 1 \in B /\ b[1] = 1
    OBVIOUS
  <2> HIDE DEF B, b, d, h
  <2> QED BY <1>5, <2>1
<1>7. ASSUME NEW p \in 1..N PROVE g[p + 1] = Step(f[p], g[p])
  <2>1. p + 1 \in Nat /\ p + 1 \notin B /\ d[p + 1] = p /\ p \in Nat
    BY <1>1
  <2>2. g[p] \in Nat
    BY <1>5, <2>1
  <2>3. h[p + 1] = [j \in Nat |-> Step(f[(p + 1) - 1], j)]
    BY <2>1 DEF h
  <2>4. (p + 1) - 1 = p
    BY <2>1
  <2> HIDE DEF B, b, d, h
  <2>5. h[p + 1][g[p]] = Step(f[p], g[p])
    BY <2>2, <2>3, <2>4
  <2>6. g[p + 1] = h[p + 1][g[d[p + 1]]]
    BY <1>5, <2>1
  <2> QED BY <2>1, <2>5, <2>6
<1> HIDE DEF B, b, d, h
<1> DEFINE F(x) == [curf \in 1..(N + 1) |-> IF curf = 1 THEN 1 ELSE Step(f[curf - 1], x[curf - 1])]
           curn == CHOOSE x : x = F(x)
           part == [curf \in 1..(N + 1) |-> g[curf]]
<1>8. part = F(part)
  <2> SUFFICES ASSUME NEW c \in 1..(N + 1)
               PROVE  g[c] = IF c = 1 THEN 1 ELSE Step(f[c - 1], part[c - 1])
    OBVIOUS
  <2>1. CASE c = 1
    BY <1>6, <2>1
  <2>2. CASE c # 1
    <3>1. c - 1 \in 1..N /\ c - 1 \in 1..(N + 1) /\ (c - 1) + 1 = c
      BY <1>1, <2>2
    <3> QED BY <1>7, <2>2, <3>1
  <2> QED BY <2>1, <2>2
<1>9. curn = F(curn)
  <2> HIDE DEF F, part
  <2> QED BY <1>8
<1> HIDE DEF part
<1>10. curn[1] = 1
  <2>1. 1 \in 1..(N + 1)
    BY <1>1
  <2> HIDE DEF curn
  <2> QED BY <1>9, <2>1
<1>11. ASSUME NEW p \in 1..N PROVE curn[p + 1] = Step(f[p], curn[p])
  <2>1. p + 1 \in 1..(N + 1) /\ p + 1 # 1 /\ (p + 1) - 1 = p
    BY <1>1
  <2> HIDE DEF curn
  <2> QED BY <1>9, <2>1
<1>12. IsTopicMatched(f, t) <=> curn[N + 1] = Len(t) + 1
  BY DEF IsTopicMatched, Step
<1> HIDE DEF curn, F
<1>13. Runs(f, t, curn)
  BY <1>10, <1>11 DEF Runs, Step
<1> QED BY <1>12, <1>13

\* A run that reaches the end of the topic was not left before.
LEMMA RunIsWhole ==
  ASSUME NEW f \in Seq(STRING), NEW t \in Seq(STRING), NEW curn, Runs(f, t, curn),
         curn[Len(f) + 1] = Len(t) + 1
  PROVE  \A p \in 1..Len(f) :
           /\ curn[p] \in 1..Len(t) /\ Stands(f[p], t[curn[p]])
           /\ curn[p + 1] = Advance(f[p], t, curn[p])
<1>1. Len(f) \in Nat /\ Len(t) \in Nat /\ DOMAIN t = 1..Len(t)
  OBVIOUS
<1> DEFINE N == Len(f)
<1> SUFFICES ASSUME NEW p \in 1..N, ~(curn[p] \in DOMAIN t /\ Stands(f[p], t[curn[p]]))
             PROVE  FALSE
  BY <1>1 DEF Runs
<1>2. curn[p + 1] = 0
  BY DEF Runs
<1> DEFINE T == {m \in Nat : p + 1 + m <= N + 1 => curn[p + 1 + m] = 0}
<1>3. 0 \in T
  BY <1>2
<1>4. ASSUME NEW m \in T PROVE m + 1 \in T
  <2> SUFFICES ASSUME p + 1 + (m + 1) <= N + 1 PROVE curn[p + 1 + (m + 1)] = 0
    OBVIOUS
  <2>1. p + 1 + m \in 1..N /\ (p + 1 + m) + 1 = p + 1 + (m + 1)
    BY <1>1
  <2>2. curn[p + 1 + m] = 0
    BY <1>1, <2>1
  <2>3. curn[p + 1 + m] \notin DOMAIN t
    BY <1>1, <2>2
  <2>4. curn[(p + 1 + m) + 1] = 0
    BY <2>1, <2>3 DEF Runs
  <2> QED BY <2>1, <2>4
<1>5. T = Nat
  <2>1. T \in SUBSET Nat
    OBVIOUS
  <2> HIDE DEF T
  <2> QED BY <1>3, <1>4, <2>1, NumbersFromZero
<1>6. N - p \in Nat /\ p + 1 + (N - p) = N + 1
  BY <1>1
<1>7. N - p \in T
  BY <1>5, <1>6
<1>8. curn[N + 1] = 0
  BY <1>6, <1>7
<1> QED BY <1>1, <1>8

-----------------------------------------------------------------------------
(* What is matched is covered.                                             *)

\* The filter holds a wildcard only as a whole level.
Clean(f) ==
  \A k \in 1..Depth(f) : \A p \in (Cut(f, k) + 1)..(Cut(f, k + 1) - 1) :
    IsWild(f[p]) => Cut(f, k + 1) = Cut(f, k) + 2

\* A level that holds no # leads from the start of the topic's level to its end, and
\* covers it.
LEMMA LevelIsRead ==
  ASSUME NEW f \in Seq(STRING), NEW t \in Seq(STRING), NEW curn, Runs(f, t, curn),
         curn[Len(f) + 1] = Len(t) + 1, Clean(f),
         NEW k \in 1..Depth(f), k \in 1..Depth(t), curn[Cut(f, k) + 1] = Cut(t, k) + 1,
         \A p \in (Cut(f, k) + 1)..(Cut(f, k + 1) - 1) : f[p] # "#"
  PROVE  /\ curn[Cut(f, k + 1)] = Cut(t, k + 1)
         /\ LevelCovers(Levels(f)[k], Levels(t)[k])
<1> DEFINE a == Cut(f, k)
           e == Cut(f, k + 1)
           b == Cut(t, k)
           N == Len(f)
           M == Len(t)
<1>1. N \in Nat /\ M \in Nat /\ a \in 0..N /\ e \in 1..(N + 1) /\ a < e
      /\ Len(Levels(f)[k]) = e - a - 1 /\ Levels(f)[k] \in Seq(STRING)
      /\ \A i \in 1..(e - a - 1) : Levels(f)[k][i] = f[a + i] /\ f[a + i] # "/"
  <2>1. N \in Nat /\ M \in Nat
    OBVIOUS
  <2>2. a \in 0..N /\ e \in 1..(N + 1) /\ a < e
    BY LevelsOf
  <2>3. Len(Levels(f)[k]) = e - a - 1 /\ Levels(f)[k] \in Seq(STRING)
    BY LevelsOf
  <2>4. \A i \in 1..(e - a - 1) : Levels(f)[k][i] = f[a + i] /\ f[a + i] # "/"
    BY LevelsOf
  <2> QED BY <2>1, <2>2, <2>3, <2>4
<1>2. b \in Cuts(t) /\ b \in 0..M
  BY LevelsOf, Cutting
<1>3. \A p \in 1..N : /\ curn[p] \in 1..M /\ Stands(f[p], t[curn[p]])
                      /\ curn[p + 1] = Advance(f[p], t, curn[p])
  BY RunIsWhole
<1>4. M + 1 \in Cuts(t) /\ Cuts(t) \subseteq 0..(M + 1) /\ \A i \in 1..M : i \in Cuts(t) <=> t[i] = "/"
  BY CutsAreNumbers
<1>5. e \in Cuts(f) /\ (e = N + 1 \/ f[e] = "/")
  <2>1. k + 1 \in 1..(Depth(f) + 1)
    BY Cutting
  <2>2. e \in Cuts(f)
    BY <2>1, Cutting
  <2>3. e \in 1..N => f[e] = "/"
    BY <2>2, CutsAreNumbers
  <2> QED BY <1>1, <2>2, <2>3
<1>6. curn[a + 1] = b + 1 /\ curn[N + 1] = M + 1
  OBVIOUS
<1>7. \A p \in (a + 1)..(e - 1) : f[p] # "#" /\ (IsWild(f[p]) => e = a + 2)
  BY DEF Clean
<1>8. \A d : d \in Cuts(t) /\ b < d /\ (\A c \in Cuts(t) : ~(b < c /\ c < d)) => Cut(t, k + 1) = d
  BY NextCut
<1>9. /\ Levels(t)[k] \in Seq(STRING)
      /\ Len(Levels(t)[k]) = Cut(t, k + 1) - b - 1
      /\ \A i \in 1..(Cut(t, k + 1) - b - 1) : Levels(t)[k][i] = t[b + i]
  BY LevelsOf
<1> HIDE DEF a, e, b, N, M
\* Where curn is when curf is at the end of the level, there is a cut.
<1>10. ASSUME curn[e] \in 1..(M + 1) PROVE curn[e] \in Cuts(t)
  <2>1. CASE e = N + 1
    BY <1>4, <1>6, <2>1
  <2>2. CASE e # N + 1
    <3>1. e \in 1..N /\ f[e] = "/"
      BY <1>1, <1>5, <2>2
    <3>2. curn[e] \in 1..M /\ Stands("/", t[curn[e]])
      BY <1>3, <3>1
    <3>3. t[curn[e]] = "/"
      BY <3>2 DEF Stands, IsWild
    <3> QED BY <1>4, <3>2, <3>3
  <2> QED BY <2>1, <2>2
<1>11. CASE \E p \in (a + 1)..(e - 1) : IsWild(f[p])
  <2>1. e = a + 2 /\ f[a + 1] = "+"
    <3>1. PICK p \in (a + 1)..(e - 1) : IsWild(f[p])
      BY <1>11
    <3>2. e = a + 2 /\ f[p] # "#"
      BY <1>7, <3>1
    <3>3. p = a + 1
      BY <1>1, <3>2
    <3> QED BY <3>1, <3>2, <3>3 DEF IsWild
  <2>2. a + 1 \in 1..N
    <3>1. a \in Nat /\ e \in Nat /\ N \in Nat /\ e <= N + 1
      BY <1>1
    <3> QED BY <2>1, <3>1
  <2>3. b + 1 \in 1..M /\ Stands("+", t[b + 1]) /\ curn[e] = LevelEnd(t, b + 1)
    <3>1. curn[a + 1] \in 1..M /\ Stands(f[a + 1], t[curn[a + 1]])
          /\ curn[(a + 1) + 1] = Advance(f[a + 1], t, curn[a + 1])
      BY <1>3, <2>2
    <3>2. (a + 1) + 1 = e
      <4>1. a \in Nat
        BY <1>1
      <4> QED BY <2>1, <4>1
    <3> QED BY <1>6, <2>1, <3>1, <3>2 DEF Advance
  <2>4. b + 1 \notin Cuts(t)
    BY <1>4, <2>3 DEF Stands
  <2>5. LevelEnd(t, b + 1) \in Cuts(t) /\ LevelEnd(t, b + 1) \in (b + 2)..(M + 1)
        /\ \A d \in Cuts(t) : ~(b + 1 < d /\ d < LevelEnd(t, b + 1))
    <3>1. (b + 1) + 1 = b + 2
      BY <1>1, <1>2
    <3> QED BY <2>3, <3>1, LevelEndIsNextCut DEF M
  <2>6. Cut(t, k + 1) = LevelEnd(t, b + 1)
    <3>1. \A d \in Cuts(t) : ~(b < d /\ d < LevelEnd(t, b + 1))
      BY <1>1, <1>2, <1>4, <2>4, <2>5
    <3>2. b < LevelEnd(t, b + 1)
      BY <1>1, <1>2, <2>5
    <3> QED BY <1>8, <2>5, <3>1, <3>2
  <2>7. Levels(f)[k] = <<"+">>
    <3>1. Len(Levels(f)[k]) = 1 /\ Levels(f)[k][1] = "+"
      BY <1>1, <2>1
    <3> QED BY <1>1, <3>1
  <2> QED BY <2>3, <2>6, <2>7 DEF LevelCovers, e
<1>12. CASE \A p \in (a + 1)..(e - 1) : ~IsWild(f[p])
  <2> DEFINE n == e - a - 1
  <2>1. n \in Nat /\ e = (a + 1) + n
    BY <1>1
  <2> DEFINE T == {i \in Nat : i <= n => curn[(a + 1) + i] = (b + 1) + i}
  <2>2. ASSUME NEW i \in 0..(n - 1), curn[(a + 1) + i] = (b + 1) + i
        PROVE  /\ curn[(a + 1) + (i + 1)] = (b + 1) + (i + 1)
               /\ (b + 1) + i \in 1..M /\ t[(b + 1) + i] = f[(a + 1) + i]
    <3>1. (a + 1) + i \in 1..N /\ (a + 1) + i \in (a + 1)..(e - 1)
      BY <1>1, <2>1
    <3>2. ~IsWild(f[(a + 1) + i])
      BY <1>12, <3>1
    <3>3. /\ curn[(a + 1) + i] \in 1..M /\ Stands(f[(a + 1) + i], t[curn[(a + 1) + i]])
          /\ curn[((a + 1) + i) + 1] = Advance(f[(a + 1) + i], t, curn[(a + 1) + i])
      BY <1>3, <3>1
    <3>4. curn[((a + 1) + i) + 1] = ((b + 1) + i) + 1
      BY <2>2, <3>2, <3>3 DEF Advance, IsWild
    <3>5. ((a + 1) + i) + 1 = (a + 1) + (i + 1) /\ ((b + 1) + i) + 1 = (b + 1) + (i + 1)
      BY <1>1, <1>2, <2>1
    <3> QED BY <2>2, <3>2, <3>3, <3>4, <3>5 DEF Stands
  <2>3. T = Nat
    <3>1. 0 \in T
      BY <1>1, <1>2, <1>6
    <3>2. ASSUME NEW i \in T PROVE i + 1 \in T
      <4> SUFFICES ASSUME i + 1 <= n PROVE curn[(a + 1) + (i + 1)] = (b + 1) + (i + 1)
        OBVIOUS
      <4>1. i \in 0..(n - 1) /\ curn[(a + 1) + i] = (b + 1) + i
        BY <2>1
      <4> QED BY <2>2, <4>1
    <3>3. T \in SUBSET Nat
      OBVIOUS
    <3> HIDE DEF T
    <3> QED BY <3>1, <3>2, <3>3, NumbersFromZero
  <2>4. \A i \in 0..n : curn[(a + 1) + i] = (b + 1) + i
    BY <2>1, <2>3
  <2>5. \A i \in 0..(n - 1) : (b + 1) + i \in 1..M /\ t[(b + 1) + i] = f[(a + 1) + i]
    <3> HIDE DEF T
    <3> TAKE i \in 0..(n - 1)
    <3>1. i \in 0..n
      BY <2>1
    <3> QED BY <2>2, <2>4, <3>1
  <2> HIDE DEF T
  <2>6. curn[e] = (b + 1) + n
    BY <2>1, <2>4
  <2>7. (b + 1) + n \in 1..(M + 1)
    <3>1. CASE n = 0
      BY <1>1, <1>2, <3>1
    <3>2. CASE n # 0
      <4>1. n - 1 \in 0..(n - 1)
        <5>1. n \in Nat
          BY <2>1
        <5> HIDE DEF n
        <5> QED BY <3>2, <5>1
      <4>2. (b + 1) + (n - 1) \in 1..M
        BY <2>5, <4>1
      <4> QED BY <1>1, <1>2, <2>1, <4>2
    <3> QED BY <3>1, <3>2
  <2>8. (b + 1) + n \in Cuts(t)
    BY <1>10, <2>6, <2>7
  <2>9. \A d \in Cuts(t) : ~(b < d /\ d < (b + 1) + n)
    <3> SUFFICES ASSUME NEW d \in Cuts(t), b < d, d < (b + 1) + n PROVE FALSE
      OBVIOUS
    <3> DEFINE i == d - (b + 1)
    <3>1. d \in Nat /\ i \in 0..(n - 1) /\ (b + 1) + i = d
      <4>1. d \in Nat /\ b \in Nat /\ n \in Nat
        BY <1>1, <1>2, <1>4, <2>1
      <4> HIDE DEF n
      <4> QED BY <4>1
    <3>2. d \in 1..M /\ t[d] = f[(a + 1) + i]
      BY <2>5, <3>1
    <3>3. t[d] = "/"
      BY <1>4, <3>2
    <3>4. i + 1 \in 1..(e - a - 1) /\ a + (i + 1) = (a + 1) + i
      <4>1. n = e - a - 1 /\ n \in Nat /\ a \in Nat
        BY <1>1, <2>1
      <4>2. i + 1 \in 1..n
        <5> HIDE DEF n, i
        <5> QED BY <3>1, <4>1
      <4>3. i \in Nat
        BY <3>1
      <4> HIDE DEF n, i
      <4> QED BY <4>1, <4>2, <4>3
    <3>5. f[a + (i + 1)] # "/"
      BY <1>1, <3>4
    <3> QED BY <3>2, <3>3, <3>4, <3>5
  <2>10. Cut(t, k + 1) = (b + 1) + n
    <3>1. b < (b + 1) + n
      BY <1>1, <1>2, <2>1
    <3> QED BY <1>8, <2>8, <2>9, <3>1
  <2>11. Levels(f)[k] = Levels(t)[k]
    <3>1. Len(Levels(f)[k]) = n
      BY <1>1
    <3>2. Cut(t, k + 1) - b - 1 = n
      BY <1>1, <1>2, <2>1, <2>10
    <3>3. Len(Levels(t)[k]) = n
      BY <1>9, <3>2
    <3>4. ASSUME NEW i \in 1..n PROVE Levels(f)[k][i] = Levels(t)[k][i]
      <4>1. i - 1 \in 0..(n - 1) /\ (a + 1) + (i - 1) = a + i /\ (b + 1) + (i - 1) = b + i
        BY <1>1, <1>2, <2>1
      <4>2. t[b + i] = f[a + i]
        BY <2>5, <4>1
      <4>3. Levels(f)[k][i] = f[a + i]
        BY <1>1
      <4>4. Levels(t)[k][i] = t[b + i]
        BY <1>9, <3>2
      <4> QED BY <4>2, <4>3, <4>4
    <3> HIDE DEF n
    <3> QED BY <1>1, <1>9, <3>1, <3>3, <3>4, SeqEqual
  <2> QED BY <2>6, <2>10, <2>11 DEF LevelCovers, e
<1> QED BY <1>11, <1>12

\* A filter shorter than CONFIG_MQTT_TOPIC_MAXLEN that iotx_mc_check_topic lets in has
\* its wildcards alone in their levels: a level it does not look at is one character long.
LEMMA CheckedIsClean ==
  ASSUME NEW f \in Seq(STRING), CheckTopic(f), Len(f) < CONFIG_MQTT_TOPIC_MAXLEN
  PROVE  Clean(f)
<1>1. Truncated(f) = f
  BY SubSeqFull DEF Truncated
<1>2. \A k \in Tokens(f) : CheckRule(Levels(f)[k])
  BY <1>1 DEF CheckTopic
<1> SUFFICES ASSUME NEW k \in 1..Depth(f), NEW p \in (Cut(f, k) + 1)..(Cut(f, k + 1) - 1), IsWild(f[p])
             PROVE  Cut(f, k + 1) = Cut(f, k) + 2
  BY DEF Clean
<1> DEFINE a == Cut(f, k)
           e == Cut(f, k + 1)
           l == Levels(f)[k]
<1>3. a \in Nat /\ e \in Nat
  BY LevelsOf, LenProperties
<1>4. Len(l) = e - a - 1 /\ l \in Seq(STRING)
  BY LevelsOf
<1>5. \A i \in 1..(e - a - 1) : l[i] = f[a + i]
  BY LevelsOf
<1>6. p \in (a + 1)..(e - 1)
  OBVIOUS
<1>7. DOMAIN Levels(f) = 1..Depth(f) /\ Len(Levels(f)) = Depth(f)
  BY LevelsOf
<1>8. k \in Tokens(f) \/ l = <<>> \/ Len(l) = 1
  BY <1>7 DEF Tokens
<1> HIDE DEF a, e, l
<1>9. p - a \in 1..(e - a - 1) /\ a + (p - a) = p
  BY <1>3, <1>6
<1>10. l[p - a] = f[p]
  BY <1>5, <1>9
<1>11. DOMAIN l = 1..(e - a - 1)
  BY <1>4, LenProperties
<1>12. l # <<>>
  BY <1>4, <1>9
<1>13. Len(l) = 1
  <2>1. CASE k \in Tokens(f)
    <3>1. CheckRule(l)
      BY <1>2, <2>1 DEF l
    <3> QED BY <1>9, <1>10, <1>11, <3>1 DEF CheckRule
  <2> QED BY <1>8, <1>12, <2>1
<1>14. e - a - 1 = 1
  BY <1>4, <1>13
<1>15. e = a + 2
  BY <1>3, <1>14
<1> QED BY <1>15 DEF a, e

\* The run is at the start of the topic's level k when it is at the start of the filter's.
InStep(f, t, curn, k) == k \in 1..Depth(t) /\ curn[Cut(f, k) + 1] = Cut(t, k) + 1

\* A # that is met takes the rest: it is the last character of the filter.
LEMMA HashIsLast ==
  ASSUME NEW f \in Seq(STRING), NEW t \in Seq(STRING), NEW curn, Runs(f, t, curn),
         curn[Len(f) + 1] = Len(t) + 1, NEW p \in 1..Len(f), f[p] = "#"
  PROVE  p = Len(f)
<1> SUFFICES ASSUME p # Len(f) PROVE FALSE
  OBVIOUS
<1>1. Len(f) \in Nat /\ Len(t) \in Nat
  OBVIOUS
<1>2. p + 1 \in 1..Len(f)
  BY <1>1
<1>3. curn[p + 1] = Len(t) + 1
  BY RunIsWhole DEF Advance
<1>4. curn[p + 1] \in 1..Len(t)
  BY <1>2, RunIsWhole
<1> QED BY <1>1, <1>3, <1>4

\* The levels before the last are read one by one.
LEMMA LevelsInStep ==
  ASSUME NEW f \in Seq(STRING), NEW t \in Seq(STRING), NEW curn, Runs(f, t, curn),
         curn[Len(f) + 1] = Len(t) + 1, Clean(f)
  PROVE  /\ \A k \in 1..Depth(f) : InStep(f, t, curn, k)
         /\ \A k \in 1..(Depth(f) - 1) :
              /\ LevelCovers(Levels(f)[k], Levels(t)[k])
              /\ Levels(f)[k] # <<"#">>
<1> DEFINE N == Len(f)
           M == Len(t)
           D == Depth(f)
           Read1(k) == LevelCovers(Levels(f)[k], Levels(t)[k]) /\ Levels(f)[k] # <<"#">>
<1>1. N \in Nat /\ M \in Nat /\ D \in Nat /\ D >= 1 /\ Depth(t) \in Nat /\ Depth(t) >= 1
      /\ Cut(f, 1) = 0 /\ Cut(t, 1) = 0
      /\ Cut(f, D + 1) = N + 1 /\ Cut(t, Depth(t) + 1) = M + 1
  BY Cutting
<1>2. InStep(f, t, curn, 1)
  BY <1>1 DEF InStep, Runs
<1>3. ASSUME NEW k \in 1..(D - 1), InStep(f, t, curn, k)
      PROVE  InStep(f, t, curn, k + 1) /\ Read1(k)
  <2> DEFINE a == Cut(f, k)
             e == Cut(f, k + 1)
  <2>1. k \in 1..D /\ k + 1 \in 1..D /\ k \in 1..Depth(t) /\ curn[a + 1] = Cut(t, k) + 1
    BY <1>1, <1>3 DEF InStep
  <2>2. a \in 0..N /\ e \in 0..N /\ a < e /\ e \in 1..(N + 1)
    BY <2>1, LevelsOf
  <2>3. e \in 1..N /\ f[e] = "/"
    <3>1. e \in Cuts(f)
      BY <1>1, <2>1, Cutting
    <3>2. e \in 1..N
      BY <1>1, <2>2
    <3> QED BY <3>1, <3>2, CutsAreNumbers
  <2>4. \A p \in (a + 1)..(e - 1) : f[p] # "#"
    <3> SUFFICES ASSUME NEW p \in (a + 1)..(e - 1), f[p] = "#" PROVE FALSE
      OBVIOUS
    <3>1. p \in 1..N /\ p # N
      <4> HIDE DEF a, e, N
      <4> QED BY <1>1, <2>2, <2>3
    <3> QED BY <3>1, HashIsLast
  <2>5. curn[e] = Cut(t, k + 1) /\ LevelCovers(Levels(f)[k], Levels(t)[k])
    BY <2>1, <2>4, LevelIsRead
  <2>6. /\ curn[e] \in 1..M /\ Stands(f[e], t[curn[e]])
        /\ curn[e + 1] = Advance(f[e], t, curn[e])
    BY <2>3, RunIsWhole
  <2>7. curn[e + 1] = Cut(t, k + 1) + 1
    BY <2>3, <2>5, <2>6 DEF Advance
  <2>8. k + 1 \in 1..Depth(t)
    <3>1. k # Depth(t)
      BY <1>1, <2>5, <2>6
    <3> QED BY <1>1, <2>1, <3>1
  <2>9. Levels(f)[k] # <<"#">>
    <3> SUFFICES ASSUME Levels(f)[k] = <<"#">> PROVE FALSE
      OBVIOUS
    <3>1. Len(Levels(f)[k]) = e - a - 1
      BY <2>1, LevelsOf
    <3>2. 1 \in 1..(e - a - 1) /\ a + 1 \in (a + 1)..(e - 1)
      <4> HIDE DEF a, e
      <4> QED BY <1>1, <2>2, <3>1
    <3>3. Levels(f)[k][1] = f[a + 1]
      BY <2>1, <3>2, LevelsOf
    <3> QED BY <2>4, <3>2, <3>3
  <2> QED BY <2>5, <2>7, <2>8, <2>9 DEF InStep
<1> HIDE DEF N, M, D, Read1
<1> DEFINE T == {i \in Nat : i + 1 <= D => InStep(f, t, curn, i + 1)}
<1>4. T = Nat
  <2>1. 0 \in T
    BY <1>2
  <2>2. ASSUME NEW i \in T PROVE i + 1 \in T
    <3> SUFFICES ASSUME (i + 1) + 1 <= D PROVE InStep(f, t, curn, (i + 1) + 1)
      OBVIOUS
    <3>1. i + 1 \in 1..(D - 1) /\ i + 1 <= D /\ i \in Nat
      BY <1>1
    <3>2. InStep(f, t, curn, i + 1)
      BY <3>1
    <3> QED BY <1>3, <3>1, <3>2
  <2>3. T \in SUBSET Nat
    OBVIOUS
  <2> HIDE DEF T
  <2> QED BY <2>1, <2>2, <2>3, NumbersFromZero
<1>5. \A k \in 1..D : InStep(f, t, curn, k)
  <2> TAKE k \in 1..D
  <2>1. k - 1 \in Nat /\ (k - 1) + 1 = k /\ k <= D
    BY <1>1
  <2>2. k - 1 \in T
    BY <1>4, <2>1
  <2> QED BY <2>1, <2>2
<1>6. \A k \in 1..(D - 1) : Read1(k)
  <2> TAKE k \in 1..(D - 1)
  <2>1. k \in 1..D
    BY <1>1
  <2> QED BY <1>3, <1>5, <2>1
<1> QED BY <1>5, <1>6 DEF D, Read1

\* What the filter of a handler matches it covers.
LEMMA MatchedIsCovered ==
  ASSUME NEW f \in Seq(STRING), NEW t \in Seq(STRING), Clean(f), IsTopicMatched(f, t)
  PROVE  Covers(f, t)
<1>1. PICK curn : Runs(f, t, curn) /\ curn[Len(f) + 1] = Len(t) + 1
  BY MatchingRuns
<1> DEFINE N == Len(f)
           M == Len(t)
           D == Depth(f)
<1>2. N \in Nat /\ M \in Nat /\ D \in Nat /\ D >= 1 /\ Depth(t) \in Nat /\ Depth(t) >= 1
      /\ Cut(f, D + 1) = N + 1 /\ Cut(t, Depth(t) + 1) = M + 1
  BY Cutting
<1>3. /\ D \in 1..Depth(t) /\ curn[Cut(f, D) + 1] = Cut(t, D) + 1
      /\ \A k \in 1..(D - 1) : LevelCovers(Levels(f)[k], Levels(t)[k]) /\ Levels(f)[k] # <<"#">>
  <2>1. D \in 1..D
    BY <1>2
  <2>2. InStep(f, t, curn, D)
    BY <1>1, <2>1, LevelsInStep
  <2> QED BY <1>1, <2>2, LevelsInStep DEF InStep
<1>4. Len(Levels(f)) = D /\ Len(Levels(t)) = Depth(t) /\ Last(Levels(f)) = Levels(f)[D]
  BY LevelsOf DEF Last
<1>5. CASE Levels(f)[D] = <<"#">>
  <2>1. D - 1 < D /\ Depth(t) >= D - 1
    BY <1>2, <1>3
  <2> QED BY <1>3, <1>4, <1>5, <2>1 DEF Covers
<1>6. CASE Levels(f)[D] # <<"#">>
  <2> DEFINE a == Cut(f, D)
  <2>1. D \in 1..D /\ a \in 0..N /\ Cut(f, D + 1) = N + 1
        /\ Len(Levels(f)[D]) = (N + 1) - a - 1 /\ Levels(f)[D] \in Seq(STRING)
        /\ \A i \in 1..((N + 1) - a - 1) : Levels(f)[D][i] = f[a + i]
    <3> DEFINE e == Cut(f, D + 1)
    <3>1. D \in 1..D /\ e = N + 1
      BY <1>2
    <3>2. a \in 0..N /\ Len(Levels(f)[D]) = e - a - 1 /\ Levels(f)[D] \in Seq(STRING)
      BY <3>1, LevelsOf
    <3>3. \A i \in 1..(e - a - 1) : Levels(f)[D][i] = f[a + i]
      BY <3>1, LevelsOf
    <3> HIDE DEF e, N, D, a
    <3> QED BY <3>1, <3>2, <3>3 DEF e
  <2>2. \A p \in (a + 1)..((N + 1) - 1) : f[p] # "#"
    <3> SUFFICES ASSUME NEW p \in (a + 1)..((N + 1) - 1), f[p] = "#" PROVE FALSE
      OBVIOUS
    <3>1. p \in 1..N
      BY <1>2, <2>1
    <3>2. p = N
      BY <1>1, <3>1, HashIsLast
    <3>3. N + 1 = a + 2
      <4>1. IsWild(f[p])
        BY DEF IsWild
      <4>2. p \in (Cut(f, D) + 1)..(Cut(f, D + 1) - 1)
        BY <2>1
      <4> HIDE DEF N, a, D
      <4> QED BY <2>1, <4>1, <4>2 DEF Clean, D, a
    <3>4. a + 1 = p /\ (N + 1) - a - 1 = 1
      <4> HIDE DEF N, a, D
      <4> QED BY <1>2, <2>1, <3>2, <3>3
    <3>5. Levels(f)[D][1] = "#" /\ Len(Levels(f)[D]) = 1
      <4>1. 1 \in 1..((N + 1) - a - 1)
        BY <3>4
      <4> QED BY <2>1, <3>4, <4>1
    <3> HIDE DEF N, a, D
    <3> QED BY <1>6, <2>1, <3>5
  <2>3. curn[N + 1] = Cut(t, D + 1) /\ LevelCovers(Levels(f)[D], Levels(t)[D])
    <3>1. \A p \in (Cut(f, D) + 1)..(Cut(f, D + 1) - 1) : f[p] # "#"
      BY <2>1, <2>2
    <3>2. curn[Cut(f, D + 1)] = Cut(t, D + 1) /\ LevelCovers(Levels(f)[D], Levels(t)[D])
      <4>1. D \in 1..Depth(f) /\ curn[Cut(f, D) + 1] = Cut(t, D) + 1
        BY <1>3, <2>1
      <4> HIDE DEF D, N, M, a
      <4> QED BY <1>1, <1>3, <3>1, <4>1, LevelIsRead
    <3> QED BY <2>1, <3>2
  <2>4. Depth(t) = D
    <3> SUFFICES ASSUME D + 1 \in 1..Depth(t) PROVE FALSE
      BY <1>2, <1>3
    <3>1. Cut(t, D + 1) \in 0..M
      BY LevelsOf
    <3> QED BY <1>1, <1>2, <2>3, <3>1
  <2>5. \A i \in 1..D : LevelCovers(Levels(f)[i], Levels(t)[i]) /\ Levels(f)[i] # <<"#">>
    <3> TAKE i \in 1..D
    <3>1. i = D \/ i \in 1..(D - 1)
      BY <1>2
    <3> QED BY <1>3, <1>6, <2>3, <3>1
  <2> HIDE DEF D
  <2> QED BY <1>2, <1>4, <1>6, <2>4, <2>5 DEF Covers
<1> QED BY <1>5, <1>6

\* A topic without wildcards is covered by itself.
LEMMA EqualIsCovered ==
  ASSUME NEW t \in Seq(STRING), \A i \in DOMAIN t : ~IsWild(t[i])
  PROVE  Covers(t, t)
<1>1. Depth(t) \in Nat /\ Depth(t) >= 1 /\ Len(Levels(t)) = Depth(t) /\ Last(Levels(t)) = Levels(t)[Depth(t)]
  BY Cutting, LevelsOf DEF Last
<1>2. ASSUME NEW k \in 1..Depth(t) PROVE Levels(t)[k] # <<"#">>
  <2> SUFFICES ASSUME Levels(t)[k] = <<"#">> PROVE FALSE
    OBVIOUS
  <2> DEFINE a == Cut(t, k)
             e == Cut(t, k + 1)
  <2>1. a \in 0..Len(t) /\ e \in 1..(Len(t) + 1) /\ Len(t) \in Nat /\ DOMAIN t = 1..Len(t)
    BY LevelsOf
  <2>2. Len(Levels(t)[k]) = e - a - 1
    BY LevelsOf
  <2>3. 1 \in 1..(e - a - 1) /\ a + 1 \in 1..Len(t)
    <3> HIDE DEF a, e
    <3> QED BY <2>1, <2>2
  <2>4. Levels(t)[k][1] = t[a + 1]
    BY <2>3, LevelsOf
  <2> QED BY <2>1, <2>3, <2>4 DEF IsWild
<1>3. Depth(t) \in 1..Depth(t)
  BY <1>1
<1> QED BY <1>1, <1>2, <1>3 DEF Covers, LevelCovers

-----------------------------------------------------------------------------
(* What is covered is matched.                                             *)

\* One step of a run, from a place inside the topic.
LEMMA RunStep ==
  ASSUME NEW f \in Seq(STRING), NEW t \in Seq(STRING), NEW curn, Runs(f, t, curn),
         NEW p \in 1..Len(f), NEW c \in 1..Len(t), curn[p] = c, Stands(f[p], t[c])
  PROVE  curn[p + 1] = Advance(f[p], t, c)
BY DEF Runs

\* A level that covers the topic's is read up to its end.
LEMMA CoveringIsRead ==
  ASSUME NEW f \in Seq(STRING), NEW t \in Seq(STRING), NEW curn, Runs(f, t, curn),
         \A i \in DOMAIN t : ~IsWild(t[i]),
         NEW k \in 1..Depth(f), k \in 1..Depth(t), curn[Cut(f, k) + 1] = Cut(t, k) + 1,
         LevelCovers(Levels(f)[k], Levels(t)[k]),
         Levels(f)[k] # <<>> => Levels(t)[k] # <<>>
  PROVE  curn[Cut(f, k + 1)] = Cut(t, k + 1)
<1> DEFINE a == Cut(f, k)
           e == Cut(f, k + 1)
           b == Cut(t, k)
           g == Cut(t, k + 1)
           N == Len(f)
           M == Len(t)
           x == Levels(f)[k]
           y == Levels(t)[k]
<1>1. a \in 0..N /\ e \in 1..(N + 1) /\ a < e /\ b \in 0..M /\ g \in 1..(M + 1) /\ b < g
      /\ x \in Seq(STRING) /\ y \in Seq(STRING)
      /\ Len(x) = e - a - 1 /\ Len(y) = g - b - 1
  BY LevelsOf
<1>2. N \in Nat /\ M \in Nat /\ DOMAIN t = 1..M
  OBVIOUS
<1>3. /\ \A i \in 1..(e - a - 1) : x[i] = f[a + i]
      /\ \A i \in 1..(g - b - 1) : y[i] = t[b + i] /\ t[b + i] # "/"
  BY LevelsOf
<1>4. curn[a + 1] = b + 1
  OBVIOUS
<1>5. x # <<>> => y # <<>>
  OBVIOUS
<1>6. x = <<"+">> \/ x = y
  BY DEF LevelCovers
<1>7. g \in Cuts(t) /\ \A d \in Cuts(t) : ~(b < d /\ d < g)
  <2>1. k + 1 \in 1..(Depth(t) + 1)
    BY Cutting
  <2> QED BY <2>1, Cutting
<1>8. \A j \in 1..M : LevelEnd(t, j) \in Cuts(t) /\ LevelEnd(t, j) > j
                      /\ \A d \in Cuts(t) : ~(j < d /\ d < LevelEnd(t, j))
  <2> TAKE j \in 1..M
  <2>1. LevelEnd(t, j) \in (j + 1)..(M + 1)
    BY LevelEndIsNextCut
  <2> QED BY <1>2, <2>1, LevelEndIsNextCut
<1>9. Cuts(t) \subseteq Nat
  BY CutsAreNumbers
<1>10. \A p \in 1..N, c \in 1..M : curn[p] = c /\ Stands(f[p], t[c]) => curn[p + 1] = Advance(f[p], t, c)
  BY RunStep
<1>11. \A i \in DOMAIN t : ~IsWild(t[i])
  OBVIOUS
<1> SUFFICES curn[e] = g
  OBVIOUS
<1> HIDE DEF a, e, b, g, N, M, x, y
<1>12. CASE x = <<"+">>
  <2>1. Len(x) = 1 /\ x[1] = "+" /\ y # <<>>
    BY <1>5, <1>12
  <2>2. e = a + 2 /\ a \in Nat /\ b \in Nat /\ g \in Nat /\ a + 1 \in 1..N
    <3>1. a \in Nat /\ e \in Nat /\ b \in Nat /\ g \in Nat /\ N \in Nat /\ e <= N + 1
      BY <1>1, <1>2
    <3>2. e - a - 1 = 1
      BY <1>1, <2>1
    <3> QED BY <3>1, <3>2
  <2>3. f[a + 1] = "+"
    <3>1. 1 \in 1..(e - a - 1)
      BY <2>2
    <3> QED BY <1>3, <2>1, <3>1
  <2>4. Len(y) # 0
    BY <1>1, <2>1, EmptySeq
  <2>5. 1 \in 1..(g - b - 1) /\ b + 1 \in 1..M /\ b + 1 < g
    BY <1>1, <1>2, <2>2, <2>4
  <2>6. t[b + 1] # "/"
    BY <1>3, <2>5
  <2>7. curn[(a + 1) + 1] = LevelEnd(t, b + 1)
    BY <1>4, <1>10, <2>2, <2>3, <2>5, <2>6 DEF Stands, IsWild, Advance
  <2>8. LevelEnd(t, b + 1) = g
    <3> DEFINE l == LevelEnd(t, b + 1)
    <3>1. l \in Cuts(t) /\ l > b + 1 /\ ~(b + 1 < g /\ g < l)
      BY <1>7, <1>8, <2>5
    <3>2. l \in Nat
      BY <1>9, <3>1
    <3> HIDE DEF l
    <3>3. ~(b < l /\ l < g)
      BY <1>7, <3>1
    <3>4. l = g
      BY <2>2, <2>5, <3>1, <3>2, <3>3
    <3> QED BY <3>4 DEF l
  <2>9. (a + 1) + 1 = e
    BY <2>2
  <2> QED BY <2>7, <2>8, <2>9
<1>13. CASE x = y
  <2> DEFINE n == e - a - 1
             T == {i \in Nat : i <= n => curn[(a + 1) + i] = (b + 1) + i}
  <2>1. n \in Nat /\ n = g - b - 1 /\ a \in Nat /\ b \in Nat
    BY <1>1, <1>2, <1>13
  <2>2. 0 \in T
    BY <1>4, <2>1
  <2>3. ASSUME NEW i \in T PROVE i + 1 \in T
    <3> SUFFICES ASSUME i + 1 <= n PROVE curn[(a + 1) + (i + 1)] = (b + 1) + (i + 1)
      OBVIOUS
    <3>1. i \in Nat /\ i <= n
      BY <2>1
    <3>2. curn[(a + 1) + i] = (b + 1) + i
      BY <3>1
    <3>3. i + 1 \in 1..n /\ a + (i + 1) = (a + 1) + i /\ b + (i + 1) = (b + 1) + i
          /\ ((a + 1) + i) + 1 = (a + 1) + (i + 1) /\ ((b + 1) + i) + 1 = (b + 1) + (i + 1)
      <4> HIDE DEF n, T
      <4> QED BY <2>1, <3>1
    <3>4. n <= N - a /\ n <= M - b
      BY <1>1, <1>2, <2>1
    <3>5. (a + 1) + i \in 1..N /\ (b + 1) + i \in 1..M
      <4> HIDE DEF n, T
      <4> QED BY <1>2, <2>1, <3>1, <3>3, <3>4
    <3>6. i + 1 \in 1..(e - a - 1) /\ i + 1 \in 1..(g - b - 1)
      BY <2>1, <3>3
    <3>7. f[(a + 1) + i] = t[(b + 1) + i]
      BY <1>3, <1>13, <3>3, <3>6
    <3>8. ~IsWild(t[(b + 1) + i])
      BY <1>2, <1>11, <3>5
    <3>9. Advance(f[(a + 1) + i], t, (b + 1) + i) = ((b + 1) + i) + 1
      BY <3>7, <3>8 DEF Advance, IsWild
    <3>10. Stands(f[(a + 1) + i], t[(b + 1) + i])
      BY <3>7 DEF Stands
    <3>11. curn[((a + 1) + i) + 1] = ((b + 1) + i) + 1
      <4> HIDE DEF n, T
      <4> QED BY <1>10, <3>2, <3>5, <3>9, <3>10
    <3> QED BY <3>3, <3>11
  <2>4. T = Nat
    <3>1. T \in SUBSET Nat
      OBVIOUS
    <3> HIDE DEF T
    <3> QED BY <2>2, <2>3, <3>1, NumbersFromZero
  <2>5. curn[(a + 1) + n] = (b + 1) + n
    BY <2>1, <2>4
  <2>6. (a + 1) + n = e
    BY <1>1, <1>2, <2>1
  <2>7. (b + 1) + n = g
    BY <1>1, <1>2, <2>1
  <2> QED BY <2>5, <2>6, <2>7
<1> QED BY <1>6, <1>12, <1>13

\* The first level of a topic that begins with a slash is empty.
LEMMA FirstLevelIsEmpty ==
  ASSUME NEW s \in Seq(STRING), s # <<>>, s[1] = "/"
  PROVE  Levels(s)[1] = <<>>
<1>1. 1 \in 1..Depth(s) /\ Cut(s, 1) = 0
  BY Cutting
<1>2. 1 \in Cuts(s) /\ Cuts(s) \subseteq Nat
  <2>1. 1 \in 1..Len(s)
    BY EmptySeq
  <2> QED BY <2>1, CutsAreNumbers
<1>3. Cut(s, 1 + 1) = 1
  <2>1. \A d \in Cuts(s) : ~(Cut(s, 1) < d /\ d < 1)
    BY <1>1, <1>2
  <2> QED BY <1>1, <1>2, <2>1, NextCut
<1>4. Len(Levels(s)[1]) = 0 /\ Levels(s)[1] \in Seq(STRING)
  <2>1. Len(Levels(s)[1]) = Cut(s, 1 + 1) - Cut(s, 1) - 1 /\ Levels(s)[1] \in Seq(STRING)
    BY <1>1, LevelsOf
  <2> QED BY <1>1, <1>3, <2>1
<1> QED BY <1>4, EmptySeq

\* What a filter covers its handler matches, when the topic has no empty level after the
\* first and is as deep as the filter.
LEMMA CoveredIsMatched ==
  ASSUME NEW f \in Seq(STRING), NEW t \in Seq(STRING), f # <<>>, f[1] = "/",
         \A i \in DOMAIN t : ~IsWild(t[i]), Covers(f, t),
         \A i \in 2..Len(Levels(t)) : Levels(t)[i] # <<>>,
         Len(Levels(t)) >= Len(Levels(f))
  PROVE  IsTopicMatched(f, t)
<1>1. PICK curn : Runs(f, t, curn) /\ (IsTopicMatched(f, t) <=> curn[Len(f) + 1] = Len(t) + 1)
  BY MatchingRuns
<1> DEFINE N == Len(f)
           M == Len(t)
           D == Depth(f)
           C == Depth(t)
           F == Levels(f)
           G == Levels(t)
<1>2. N \in Nat /\ M \in Nat /\ D \in Nat /\ D >= 1 /\ C \in Nat /\ C >= 1
      /\ Cut(f, 1) = 0 /\ Cut(t, 1) = 0
      /\ Cut(f, D + 1) = N + 1 /\ Cut(t, C + 1) = M + 1
  BY Cutting
<1>3. Len(F) = D /\ Len(G) = C /\ Last(F) = F[D] /\ C >= D
  BY LevelsOf DEF Last
<1>4. \A i \in 2..C : G[i] # <<>>
  BY <1>3
<1>5. \A k \in 1..C : F[k] # <<>> => G[k] # <<>>
  <2> TAKE k \in 1..C
  <2>1. k = 1 \/ k \in 2..C
    BY <1>2
  <2> QED BY <1>4, <2>1, FirstLevelIsEmpty
<1>6. /\ \A i \in 1..(D - 1) : LevelCovers(F[i], G[i])
      /\ F[D] # <<"#">> => C = D /\ LevelCovers(F[D], G[D])
  <2>1. CASE F[D] = <<"#">>
    BY <1>2, <1>3, <2>1 DEF Covers
  <2>2. CASE F[D] # <<"#">>
    <3>1. C = D /\ \A i \in 1..D : LevelCovers(F[i], G[i])
      BY <1>2, <1>3, <2>2 DEF Covers
    <3>2. D \in Nat
      BY <1>2
    <3>3. D >= 1
      BY <1>2
    <3>4. 1..(D - 1) \subseteq 1..D /\ D \in 1..D
      <4> HIDE DEF D
      <4> QED BY <3>2, <3>3
    <3> HIDE DEF D, F, G
    <3> QED BY <3>1, <3>4
  <2> QED BY <2>1, <2>2
<1>7. ASSUME NEW k \in 1..D, InStep(f, t, curn, k), LevelCovers(F[k], G[k])
      PROVE  curn[Cut(f, k + 1)] = Cut(t, k + 1)
  <2>1. k \in 1..C /\ curn[Cut(f, k) + 1] = Cut(t, k) + 1
    BY <1>7 DEF InStep
  <2>2. F[k] # <<>> => G[k] # <<>>
    BY <1>5, <2>1
  <2> QED BY <1>1, <1>7, <2>1, <2>2, CoveringIsRead
<1>8. ASSUME NEW k \in 1..(D - 1), InStep(f, t, curn, k) PROVE InStep(f, t, curn, k + 1)
  <2> DEFINE e == Cut(f, k + 1)
             g == Cut(t, k + 1)
  <2>1. k \in 1..D /\ k + 1 \in 1..D /\ k \in 1..C /\ k + 1 \in 1..C /\ LevelCovers(F[k], G[k])
    <3>1. LevelCovers(F[k], G[k])
      BY <1>6
    <3> HIDE DEF D, C, F, G
    <3> QED BY <1>2, <1>3, <3>1
  <2>2. curn[e] = g
    BY <1>7, <1>8, <2>1
  <2>3. e \in 1..N /\ f[e] = "/"
    <3>1. e \in Cuts(f) /\ e \in 0..N /\ e \in 1..(N + 1)
      BY <2>1, LevelsOf, Cutting
    <3>2. e \in 1..N
      BY <1>2, <3>1
    <3> QED BY <3>1, <3>2, CutsAreNumbers
  <2>4. g \in 1..M /\ t[g] = "/"
    <3>1. g \in Cuts(t) /\ g \in 0..M /\ g \in 1..(M + 1)
      BY <2>1, LevelsOf, Cutting
    <3>2. g \in 1..M
      BY <1>2, <3>1
    <3> QED BY <3>1, <3>2, CutsAreNumbers
  <2>5. curn[e + 1] = Advance("/", t, g)
    <3>1. Stands("/", t[g])
      BY <2>4 DEF Stands
    <3> QED BY <1>1, <2>2, <2>3, <2>4, <3>1, RunStep
  <2>6. curn[e + 1] = g + 1
    BY <2>5 DEF Advance
  <2> QED BY <2>1, <2>6 DEF InStep
<1>9. InStep(f, t, curn, 1)
  BY <1>1, <1>2 DEF InStep, Runs
<1>10. InStep(f, t, curn, D)
  <2> HIDE DEF D
  <2> DEFINE T == {i \in Nat : i + 1 <= D => InStep(f, t, curn, i + 1)}
  <2>1. 0 \in T
    BY <1>9
  <2>2. ASSUME NEW i \in T PROVE i + 1 \in T
    <3> SUFFICES ASSUME (i + 1) + 1 <= D PROVE InStep(f, t, curn, (i + 1) + 1)
      OBVIOUS
    <3>1. i + 1 \in 1..(D - 1) /\ i + 1 <= D
      BY <1>2
    <3>2. InStep(f, t, curn, i + 1)
      BY <3>1
    <3> QED BY <1>8, <3>1, <3>2
  <2>3. T = Nat
    <3>1. T \in SUBSET Nat
      OBVIOUS
    <3> HIDE DEF T
    <3> QED BY <2>1, <2>2, <3>1, NumbersFromZero
  <2>4. D - 1 \in Nat /\ (D - 1) + 1 = D
    BY <1>2
  <2>5. D - 1 \in T
    BY <2>3, <2>4
  <2> QED BY <2>4, <2>5
<1>11. D \in 1..D /\ D \in 1..C
  <2> HIDE DEF D, C
  <2> QED BY <1>2, <1>3
<1>12. curn[N + 1] = M + 1
  <2>1. CASE F[D] # <<"#">>
    <3>1. C = D /\ LevelCovers(F[D], G[D])
      BY <1>6, <2>1
    <3>2. curn[Cut(f, D + 1)] = Cut(t, D + 1)
      BY <1>7, <1>10, <1>11, <3>1
    <3> QED BY <1>2, <3>1, <3>2
  <2>2. CASE F[D] = <<"#">>
    <3> DEFINE a == Cut(f, D)
               e == Cut(f, D + 1)
               b == Cut(t, D)
               g == Cut(t, D + 1)
    <3>1. Len(F[D]) = 1 /\ F[D][1] = "#" /\ F[D] # <<>> /\ G[D] # <<>>
      <4>1. Len(<<"#">>) = 1 /\ <<"#">>[1] = "#" /\ <<"#">> # <<>>
        OBVIOUS
      <4> HIDE DEF F, G, D, C
      <4> QED BY <1>5, <1>11, <2>2, <4>1
    <3>2. /\ a \in 0..N /\ e = N + 1 /\ Len(F[D]) = e - a - 1
          /\ b \in 0..M /\ g \in 1..(M + 1) /\ Len(G[D]) = g - b - 1 /\ G[D] \in Seq(STRING)
      BY <1>2, <1>11, LevelsOf
    <3>3. /\ \A i \in 1..(e - a - 1) : F[D][i] = f[a + i]
          /\ \A i \in 1..(g - b - 1) : t[b + i] # "/"
      BY <1>11, LevelsOf
    <3>4. curn[a + 1] = b + 1
      BY <1>10 DEF InStep
    <3>5. Len(G[D]) # 0
      BY <3>1, <3>2, EmptySeq
    <3>6. a + 1 = N /\ b + 1 \in 1..M /\ f[a + 1] = "#" /\ t[b + 1] # "/"
      <4> HIDE DEF a, b, e, g, F, G, D, N, M
      <4>1. a + 1 = N /\ 1 \in 1..(e - a - 1)
        <5>1. N \in Nat /\ e = N + 1 /\ a \in 0..N /\ Len(F[D]) = e - a - 1
          BY <1>2, <3>2
        <5>2. e - a - 1 = 1
          BY <3>1, <5>1
        <5>3. a \in Nat
          BY <5>1
        <5> QED BY <5>1, <5>2, <5>3
      <4>2. b + 1 \in 1..M /\ 1 \in 1..(g - b - 1)
        BY <1>2, <3>2, <3>5
      <4> QED BY <3>1, <3>3, <4>1, <4>2
    <3>7. Stands("#", t[b + 1])
      BY <3>6 DEF Stands, IsWild
    <3>8. N \in 1..N
      BY <1>2, <3>2, <3>6
    <3>9. curn[N + 1] = Advance("#", t, b + 1)
      <4> HIDE DEF a, b
      <4> QED BY <1>1, <3>4, <3>6, <3>7, <3>8, RunStep
    <3> QED BY <3>9 DEF Advance
  <2> QED BY <2>1, <2>2
<1> QED BY <1>1, <1>12

-----------------------------------------------------------------------------
(* Deliveries.                                                             *)

\* Who was given a PUBLISH was given it by the comparison of its topic.
Matched(k) ==
  packets[k].topic = list_sub_handle \/ IsTopicMatched(list_sub_handle, packets[k].topic)
DeliverySorted ==
  /\ \A d \in delivered : d.to = "handler" <=> Matched(d.pkt)
  /\ \A i \in DOMAIN handled : handled[i].as = "PUBLISH" => \E d \in delivered : d.pkt = handled[i].pkt

\* Only Dispatch delivers, and it delivers by the comparison.
LEMMA DeliveryStep == FramingInv /\ DeliverySorted /\ [Next]_vars => DeliverySorted'
<1> SUFFICES ASSUME FramingInv, DeliverySorted, [Next]_vars PROVE DeliverySorted'
  OBVIOUS
<1>1. packets' = packets /\ list_sub_handle' = list_sub_handle
  BY DEF Next, vars, ReadHeader, ReadLengthByte, ReadLengthFails, ReadBody, ReadBodyShort,
         FillBuffer, FillBufferShort, DropRest, DropRestShort, ReadError, Dispatch, DispatchNothing
<1>2. \A k : Matched(k)' <=> Matched(k)
  BY <1>1 DEF Matched
<1>3. (delivered' = delivered /\ handled' = handled) \/ Dispatch
  BY DEF Next, vars, ReadHeader, ReadLengthByte, ReadLengthFails, ReadBody, ReadBodyShort,
         FillBuffer, FillBufferShort, DropRest, DropRestShort, ReadError, Dispatch, DispatchNothing
<1>4. CASE delivered' = delivered /\ handled' = handled
  BY <1>2, <1>4 DEF DeliverySorted
<1>5. CASE Dispatch
  <2> DEFINE d == [pkt |-> header.pkt, to |-> IF Matched(header.pkt) THEN "handler" ELSE "default"]
             h == [pkt |-> header.pkt, as |-> packet_type]
  <2>1. delivered' = IF packet_type = "PUBLISH" THEN delivered \cup {d} ELSE delivered
    BY <1>5 DEF Dispatch, Deliver, Matched
  <2>2. d.pkt = header.pkt /\ (d.to = "handler" <=> Matched(header.pkt))
    OBVIOUS
  <2>3. h.pkt = header.pkt /\ h.as = packet_type
    OBVIOUS
  <2> HIDE DEF d
  <2>4. \A e \in delivered' : e.to = "handler" <=> Matched(e.pkt)
    <3> HIDE DEF Matched
    <3> QED BY <2>1, <2>2 DEF DeliverySorted
  <2>5. \A i \in DOMAIN handled' :
          handled'[i].as = "PUBLISH" => \E e \in delivered' : e.pkt = handled'[i].pkt
    <3> DEFINE H == [pkt : DOMAIN packets, as : Types]
    <3>1. handled \in Seq(H)
      BY DEF FramingInv, Typed
    <3>2. handled' = Append(handled, h)
      BY <1>5 DEF Dispatch
    <3> HIDE DEF H, h
    <3>3. DOMAIN handled' = 1..(Len(handled) + 1) /\ DOMAIN handled = 1..Len(handled)
          /\ Len(handled) \in Nat
      BY <3>1, <3>2
    <3>4. handled'[Len(handled) + 1] = h /\ \A i \in 1..Len(handled) : handled'[i] = handled[i]
      BY <3>1, <3>2
    <3> SUFFICES ASSUME NEW i \in DOMAIN handled', handled'[i].as = "PUBLISH"
                 PROVE  \E e \in delivered' : e.pkt = handled'[i].pkt
      OBVIOUS
    <3>5. CASE i = Len(handled) + 1
      BY <2>1, <2>2, <2>3, <3>4, <3>5
    <3>6. CASE i # Len(handled) + 1
      <4>1. i \in DOMAIN handled /\ handled'[i] = handled[i]
        BY <3>3, <3>4, <3>6
      <4>2. \E e \in delivered : e.pkt = handled[i].pkt
        BY <4>1 DEF DeliverySorted
      <4> QED BY <2>1, <4>1, <4>2
    <3> QED BY <3>5, <3>6
  <2>6. \A e \in delivered' : e.to = "handler" <=> Matched(e.pkt)'
    BY <1>2, <2>4
  <2> QED BY <2>5, <2>6 DEF DeliverySorted
<1> QED BY <1>3, <1>4, <1>5

\* Every delivery was by the comparison.
LEMMA DeliveryInvariant == Spec => []DeliverySorted
<1>1. Init => DeliverySorted
  BY DEF Init, DeliverySorted
<1> QED BY <1>1, DeliveryStep, FramingInvariant, PTL DEF Spec

\* What the topic of a packet and the filter are.
LEMMA TopicsGiven ==
  ASSUME FramingInv, NEW k \in DOMAIN packets
  PROVE  /\ packets[k].topic \in Seq(STRING) /\ list_sub_handle \in Seq(STRING)
         /\ CheckTopic(list_sub_handle)
         /\ \A i \in DOMAIN packets[k].topic : ~IsWild(packets[k].topic[i])
<1>1. Given
  BY DEF FramingInv
<1>2. packets[k] \in Packet
  <2>1. packets \in Seq(Packet)
    BY <1>1 DEF Given
  <2> QED BY <2>1
<1> QED BY <1>1, <1>2 DEF Given, Packet

\* A matched message is a covered one.
LEMMA SortedIsCovered == FramingInv /\ DeliverySorted => DeliveredIsCovered
<1> SUFFICES ASSUME FramingInv, DeliverySorted, Len(list_sub_handle) < CONFIG_MQTT_TOPIC_MAXLEN,
                    NEW d \in delivered, d.to = "handler"
             PROVE  Covers(list_sub_handle, packets[d.pkt].topic)
  BY DEF DeliveredIsCovered
<1> DEFINE f == list_sub_handle
           t == packets[d.pkt].topic
<1>1. /\ t \in Seq(STRING) /\ f \in Seq(STRING) /\ CheckTopic(f)
      /\ \A i \in DOMAIN t : ~IsWild(t[i])
  <2>1. d.pkt \in DOMAIN packets
    BY DEF FramingInv, Typed
  <2> QED BY <2>1, TopicsGiven
<1>2. t = f \/ IsTopicMatched(f, t)
  BY DEF DeliverySorted, Matched
<1>3. Len(f) < CONFIG_MQTT_TOPIC_MAXLEN
  OBVIOUS
<1> HIDE DEF f, t
<1>4. CASE t = f
  BY <1>1, <1>4, EqualIsCovered DEF f, t
<1>5. CASE IsTopicMatched(f, t)
  <2>1. Clean(f)
    BY <1>1, <1>3, CheckedIsClean
  <2> QED BY <1>1, <1>5, <2>1, MatchedIsCovered DEF f, t
<1> QED BY <1>2, <1>4, <1>5

\* For every filter and every topic, of whatever length and depth: a handler is given only
\* messages its filter covers by the rules of MQTT.
THEOREM HandlersGetWhatTheyCover == Spec => []DeliveredIsCovered
<1> QED BY FramingInvariant, DeliveryInvariant, SortedIsCovered, PTL

\* A covered message is a matched one.
LEMMA SortedIsDelivered == FramingInv /\ DeliverySorted => CoveredIsDelivered
<1> SUFFICES ASSUME FramingInv, DeliverySorted, NEW k \in DOMAIN packets,
                    Covers(list_sub_handle, packets[k].topic),
                    \A i \in 2..Len(Levels(packets[k].topic)) : Levels(packets[k].topic)[i] # <<>>,
                    Len(Levels(packets[k].topic)) >= Len(Levels(list_sub_handle))
             PROVE  /\ [pkt |-> k, to |-> "default"] \notin delivered
                    /\ pc = "header" /\ packets[k].type = "PUBLISH" /\ Fits(k) /\ k < NextPacket
                       => [pkt |-> k, to |-> "handler"] \in delivered
  BY DEF CoveredIsDelivered
<1> DEFINE f == list_sub_handle
           t == packets[k].topic
<1>1. /\ t \in Seq(STRING) /\ f \in Seq(STRING) /\ CheckTopic(f)
      /\ \A i \in DOMAIN t : ~IsWild(t[i])
  BY TopicsGiven
<1>2. f # <<>> /\ f[1] = "/"
  BY <1>1 DEF CheckTopic
<1>3. Covers(f, t) /\ (\A i \in 2..Len(Levels(t)) : Levels(t)[i] # <<>>) /\ Len(Levels(t)) >= Len(Levels(f))
  OBVIOUS
<1> HIDE DEF f, t
<1>4. Matched(k)
  <2>1. IsTopicMatched(f, t)
    BY <1>1, <1>2, <1>3, CoveredIsMatched
  <2> QED BY <2>1 DEF Matched, f, t
<1> HIDE DEF Matched
<1>5. [pkt |-> k, to |-> "default"] \notin delivered
  <2> DEFINE d == [pkt |-> k, to |-> "default"]
  <2>1. d.pkt = k /\ d.to # "handler"
    OBVIOUS
  <2> HIDE DEF d
  <2>2. d \notin delivered
    BY <1>4, <2>1 DEF DeliverySorted
  <2> QED BY <2>2 DEF d
<1>6. ASSUME pc = "header", packets[k].type = "PUBLISH", Fits(k), k < NextPacket
      PROVE  [pkt |-> k, to |-> "handler"] \in delivered
  <2>1. HandledAsSent
    BY FramingImpliesHandled
  <2>2. k \in 1..(NextPacket - 1)
    <3>1. Given /\ UnreadIsRest
      BY DEF FramingInv
    <3>2. k \in Nat /\ k >= 1 /\ Len(packets) \in Nat
      BY <3>1 DEF Given
    <3>3. NextPacket \in Nat
      <4>1. CASE unread = <<>>
        BY <3>2, <4>1 DEF NextPacket
      <4>2. CASE unread # <<>>
        <5>1. Head(unread) \in ByteTypes
          BY <3>1, <4>2 DEF UnreadIsRest
        <5> QED BY <4>2, <5>1 DEF NextPacket, ByteTypes
      <4> QED BY <4>1, <4>2
    <3> QED BY <1>6, <3>2, <3>3
  <2>3. PICK i \in DOMAIN handled : handled[i].pkt = k /\ handled[i].as = "PUBLISH"
    <3>1. PICK i \in DOMAIN handled : handled[i].pkt = k
      BY <1>6, <2>1, <2>2 DEF HandledAsSent
    <3>2. handled[i].as = packets[k].type
      BY <1>6, <2>1, <3>1 DEF HandledAsSent
    <3> QED BY <1>6, <3>1, <3>2
  <2>4. PICK d \in delivered : d.pkt = k
    BY <2>3 DEF DeliverySorted
  <2>5. d.to = "handler"
    BY <1>4, <2>4 DEF DeliverySorted
  <2>6. d = [pkt |-> d.pkt, to |-> d.to]
    BY DEF FramingInv, Typed
  <2> QED BY <2>4, <2>5, <2>6
<1> QED BY <1>5, <1>6

\* For every filter and every topic: a message the filter covers, with a topic as deep as
\* the filter and no empty level, has reached the handler when the client turns to the next
\* packet, and never goes to the default handler.
THEOREM CoveredReachTheHandler == Spec => []CoveredIsDelivered
<1> QED BY FramingInvariant, DeliveryInvariant, SortedIsDelivered, PTL
=============================================================================
