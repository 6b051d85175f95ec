-------------------------- MODULE PacketCodecProofs --------------------------
(***************************************************************************)
(* What the codec computes for every input.  The recursive functions of    *)
(* PacketCodec call themselves once, for a smaller argument: that they are *)
(* what their equations say is LinearRecursion, whose proof is an          *)
(* induction over sets of numbers.                                         *)
(***************************************************************************)
EXTENDS PacketCodec, SequenceTheorems, WellFoundedInduction, TLAPS

-------------------------------------------------------------------------------
(* Induction. *)

LEMMA Least ==
  ASSUME NEW T \in SUBSET Nat, T # {}
  PROVE  \E x \in T : \A y \in T : x <= y
<1> DEFINE R == OpToRel(<, Nat)
<1>1. IsWellFoundedOn(R, Nat)
  BY NatLessThanWellFounded
<1>2. \A x, y \in Nat : <<y, x>> \in R <=> y < x
  BY DEF OpToRel
<1> HIDE DEF R
<1>3. PICK x \in T : \A y \in T : ~(<<y, x>> \in R)
  BY <1>1, WFMin
<1>4. \A y \in T : ~(y < x)
  BY <1>2, <1>3
<1>5. \A y \in T : x <= y
  BY <1>4
<1> QED
  BY <1>5

LEMMA Induct ==
  ASSUME NEW S \in SUBSET Nat, 0 \in S, \A n \in S : n + 1 \in S
  PROVE  S = Nat
<1> SUFFICES ASSUME S # Nat PROVE FALSE
  OBVIOUS
<1>1. PICK x \in Nat \ S : \A y \in Nat \ S : x <= y
  <2> DEFINE T == Nat \ S
  <2>1. T \in SUBSET Nat /\ T # {}
    OBVIOUS
  <2> HIDE DEF T
  <2>2. \E x \in T : \A y \in T : x <= y
    BY <2>1, Least
  <2> QED
    BY <2>2 DEF T
<1>2. x # 0 /\ x - 1 \in Nat /\ (x - 1) + 1 = x
  BY <1>1
<1>3. x - 1 \in S
  BY <1>1, <1>2
<1> QED
  BY <1>1, <1>2, <1>3

(* The equation of a function that calls itself once, for a smaller argument, has a solution. *)
Decreasing(D, V, B, base, next, step, size) ==
  /\ B \in SUBSET D /\ base \in [B -> V]
  /\ next \in [D \ B -> D] /\ step \in [D \ B -> [V -> V]]
  /\ size \in [D -> Nat] /\ \A x \in D \ B : size[next[x]] < size[x]
Solution(f, D, V, B, base, next, step) ==
  /\ f \in [D -> V]
  /\ \A x \in B : f[x] = base[x]
  /\ \A x \in D \ B : f[x] = step[x][f[next[x]]]

LEMMA LinearRecursion ==
  ASSUME NEW D, NEW V, NEW B, NEW base, NEW next, NEW step, NEW size,
         Decreasing(D, V, B, base, next, step, size)
  PROVE  \E f : Solution(f, D, V, B, base, next, step)
<1> USE DEF Decreasing
<1> DEFINE Up(n) == {x \in D : size[x] <= n}
           Value(g, x) == IF x \in B THEN base[x] ELSE step[x][g[next[x]]]
           Solves(g, n) == g \in [Up(n) -> V] /\ \A x \in Up(n) : g[x] = Value(g, x)
           Sols == {n \in Nat : \E g : Solves(g, n)}
<1>1. ASSUME NEW n \in Nat, NEW x \in Up(n), x \notin B
      PROVE  next[x] \in Up(n) /\ \A m \in Nat : n = m + 1 => next[x] \in Up(m)
  <2>1. x \in D \ B /\ next[x] \in D /\ size[x] \in Nat /\ size[next[x]] \in Nat
    BY <1>1
  <2>2. size[next[x]] < size[x] /\ size[x] <= n
    BY <1>1, <2>1
  <2> QED
    BY <2>1, <2>2
<1>2. ASSUME NEW n \in Nat, NEW g \in [Up(n) -> V], NEW x \in Up(n)
      PROVE  Value(g, x) \in V
  <2>1. CASE x \in B
    BY <2>1
  <2>2. CASE x \notin B
    <3>1. x \in D \ B /\ g[next[x]] \in V
      BY <1>1, <1>2, <2>2
    <3> QED
      BY <2>2, <3>1
  <2> QED
    BY <2>1, <2>2
<1>3. Sols = Nat
  <2>1. 0 \in Sols
    <3>1. Up(0) \subseteq B
      <4> SUFFICES ASSUME NEW x \in Up(0), x \notin B PROVE FALSE
        OBVIOUS
      <4>1. x \in D \ B /\ next[x] \in D /\ size[x] \in Nat /\ size[next[x]] \in Nat /\ size[x] <= 0
        OBVIOUS
      <4> QED
        BY <4>1
    <3> DEFINE g0 == [x \in Up(0) |-> base[x]]
    <3>2. g0 \in [Up(0) -> V] /\ \A x \in Up(0) : x \in B /\ g0[x] = base[x]
      BY <3>1
    <3> HIDE DEF g0, Up
    <3>3. Solves(g0, 0)
      BY <3>2
    <3> QED
      BY <3>3
  <2>2. ASSUME NEW n \in Sols PROVE n + 1 \in Sols
    <3>1. PICK g : Solves(g, n)
      OBVIOUS
    <3> DEFINE h == [x \in Up(n + 1) |-> IF x \in Up(n) THEN g[x] ELSE Value(g, x)]
    <3>2. \A x \in Up(n + 1) : x \notin B => next[x] \in Up(n)
      BY <1>1
    <3>3. \A x \in Up(n + 1) : h[x] = IF x \in Up(n) THEN g[x] ELSE Value(g, x)
      OBVIOUS
    <3>s. \A x \in Up(n) : x \in Up(n + 1)
      <4> SUFFICES ASSUME NEW x \in Up(n) PROVE x \in Up(n + 1)
        OBVIOUS
      <4>1. x \in D /\ size[x] \in Nat /\ size[x] <= n
        OBVIOUS
      <4> QED
        BY <4>1
    <3>4. \A x \in Up(n + 1) : h[x] \in V
      <4> SUFFICES ASSUME NEW x \in Up(n + 1) PROVE h[x] \in V
        OBVIOUS
      <4>1. CASE x \in Up(n)
        BY <3>1, <3>3, <4>1
      <4>2. CASE x \notin Up(n) /\ x \in B
        BY <3>3, <4>2
      <4>3. CASE x \notin Up(n) /\ x \notin B
        <5>1. g[next[x]] \in V /\ x \in D \ B
          BY <3>1, <3>2, <4>3
        <5> QED
          BY <3>3, <4>3, <5>1
      <4> QED
        BY <4>1, <4>2, <4>3
    <3>5. \A x \in Up(n + 1) : h[x] = Value(g, x)
      BY <3>1, <3>3
    <3>6. \A x \in Up(n + 1) : x \notin B => h[next[x]] = g[next[x]]
      BY <3>2, <3>3, <3>s
    <3>7. h \in [Up(n + 1) -> V]
      BY <3>4
    <3> HIDE DEF h, Up
    <3>8. Solves(h, n + 1)
      BY <3>5, <3>6, <3>7
    <3> QED
      BY <3>8
  <2> HIDE DEF Sols
  <2>3. Sols \in SUBSET Nat
    BY DEF Sols
  <2> QED
    BY <2>1, <2>2, <2>3, Induct
<1>4. ASSUME NEW n \in Nat, NEW m \in Nat, NEW g, NEW h, Solves(g, n), Solves(h, m)
      PROVE  \A x \in Up(n) \cap Up(m) : g[x] = h[x]
  <2> SUFFICES ASSUME NEW z \in Up(n) \cap Up(m), g[z] # h[z] PROVE FALSE
    OBVIOUS
  <2> DEFINE T == {size[x] : x \in {y \in Up(n) \cap Up(m) : g[y] # h[y]}}
  <2>1. T \in SUBSET Nat /\ T # {}
    OBVIOUS
  <2>2. PICK k \in T : \A l \in T : k <= l
    <3> HIDE DEF T
    <3> QED
      BY <2>1, Least
  <2>3. PICK x \in Up(n) \cap Up(m) : g[x] # h[x] /\ size[x] = k
    BY <2>2
  <2>4. x \notin B
    BY <1>4, <2>3
  <2>5. next[x] \in Up(n) \cap Up(m)
    BY <1>1, <2>4
  <2>6. g[next[x]] # h[next[x]]
    BY <1>4, <2>3, <2>4
  <2>7. size[next[x]] \in T
    BY <2>5, <2>6
  <2>8. size[next[x]] < size[x] /\ size[x] \in Nat /\ size[next[x]] \in Nat
    BY <2>3, <2>4
  <2>9. k <= size[next[x]]
    <3> HIDE DEF T
    <3> QED
      BY <2>2, <2>7
  <2> QED
    BY <2>3, <2>8, <2>9
<1> DEFINE G(n) == CHOOSE g : Solves(g, n)
           F == [x \in D |-> G(size[x])[x]]
<1>5. \A n \in Nat : Solves(G(n), n)
  <2> SUFFICES ASSUME NEW n \in Nat PROVE Solves(G(n), n)
    OBVIOUS
  <2>1. \E g : Solves(g, n)
    BY <1>3
  <2> HIDE DEF Solves
  <2> QED
    BY <2>1
<1>6. \A x \in D : size[x] \in Nat /\ x \in Up(size[x])
  <2> SUFFICES ASSUME NEW x \in D PROVE size[x] \in Nat /\ x \in Up(size[x])
    OBVIOUS
  <2>1. size[x] \in Nat
    BY Zenon
  <2> QED
    BY <2>1
<1>7. ASSUME NEW x \in D PROVE F[x] \in V /\ F[x] = Value(F, x)
  <2>1. Solves(G(size[x]), size[x])
    BY <1>5, <1>6
  <2>2. F[x] = G(size[x])[x]
    OBVIOUS
  <2>3. F[x] \in V /\ F[x] = Value(G(size[x]), x)
    <3> HIDE DEF G, F
    <3> QED
      BY <1>6, <2>1, <2>2
  <2>4. CASE x \in B
    BY <2>3, <2>4
  <2>5. CASE x \notin B
    <3>1. next[x] \in D /\ next[x] \in Up(size[x])
      BY <1>1, <1>6, <2>5
    <3>2. F[next[x]] = G(size[next[x]])[next[x]]
      BY <3>1
    <3>3. Solves(G(size[next[x]]), size[next[x]]) /\ next[x] \in Up(size[next[x]])
      BY <1>5, <1>6, <3>1
    <3> HIDE DEF G, F, Solves
    <3>4. G(size[next[x]])[next[x]] = G(size[x])[next[x]]
      BY <1>4, <1>6, <2>1, <3>1, <3>3
    <3> QED
      BY <2>3, <2>5, <3>2, <3>4
  <2> QED
    BY <2>4, <2>5
<1>8. F \in [D -> V]
  <2>1. \A x \in D : F[x] \in V
    BY <1>7
  <2>2. F = [x \in D |-> F[x]]
    OBVIOUS
  <2> HIDE DEF F
  <2> QED
    BY <2>1, <2>2
<1> HIDE DEF F
<1>9. Solution(F, D, V, B, base, next, step)
  BY <1>7, <1>8 DEF Solution
<1> QED
  BY <1>9

-------------------------------------------------------------------------------
(* Sequences of bytes. *)

LEMMA Digits ==
  ASSUME NEW n \in Nat
  PROVE  /\ n % 128 \in 0..127 /\ n \div 128 \in Nat /\ n = 128 * (n \div 128) + (n % 128)
         /\ n >= 128 => n \div 128 < n
OBVIOUS

LEMMA Joined ==
  ASSUME NEW s \in Seq(Byte), NEW t \in Seq(Byte)
  PROVE  s \o t \in Seq(Byte) /\ Len(s \o t) = Len(s) + Len(t)
BY ConcatProperties

LEMMA Associative ==
  ASSUME NEW r \in Seq(Byte), NEW s \in Seq(Byte), NEW t \in Seq(Byte)
  PROVE  (r \o s) \o t = r \o (s \o t)
BY ConcatAssociative

(* Parts of a packet, the last three of which are its body. *)
LEMMA LastThree ==
  ASSUME NEW a \in Seq(Byte), NEW r \in Seq(Byte), NEW s \in Seq(Byte), NEW t \in Seq(Byte)
  PROVE  a \o r \o s \o t = a \o (r \o s \o t)
<1>1. (a \o r) \o s = a \o (r \o s)
  BY ConcatAssociative
<1>2. (a \o (r \o s)) \o t = a \o ((r \o s) \o t)
  BY Joined, ConcatAssociative
<1> QED
  BY <1>1, <1>2, Zenon

LEMMA Prepend ==
  ASSUME NEW S, NEW s \in Seq(S), NEW a \in S
  PROVE  /\ <<a>> \o s \in Seq(S) /\ Len(<<a>> \o s) = Len(s) + 1 /\ (<<a>> \o s)[1] = a
         /\ \A i \in 1..Len(s) : (<<a>> \o s)[i + 1] = s[i]
OBVIOUS

(* MQTTPacket_encode writes a digit and goes on with the rest of the number. *)
LEMMA EncodeUnfolds ==
  ASSUME NEW n \in Nat
  PROVE  /\ MQTTPacket_encode[n] \in Seq(Byte)
         /\ n < 128 => MQTTPacket_encode[n] = <<n>>
         /\ n >= 128 => MQTTPacket_encode[n] = <<128 + (n % 128)>> \o MQTTPacket_encode[n \div 128]
<1> DEFINE B == 0..127
           base == [m \in B |-> <<m>>]
           next == [m \in Nat \ B |-> m \div 128]
           step == [m \in Nat \ B |-> [s \in Seq(Byte) |-> <<128 + (m % 128)>> \o s]]
           size == [m \in Nat |-> m]
<1>1. base \in [B -> Seq(Byte)]
  BY DEF Byte
<1>2. next \in [Nat \ B -> Nat] /\ \A m \in Nat \ B : size[next[m]] < size[m]
  BY Digits
<1>3. step \in [Nat \ B -> [Seq(Byte) -> Seq(Byte)]]
  <2> SUFFICES ASSUME NEW m \in Nat \ B, NEW s \in Seq(Byte)
               PROVE  <<128 + (m % 128)>> \o s \in Seq(Byte)
    OBVIOUS
  <2>1. 128 + (m % 128) \in Byte
    BY Digits DEF Byte
  <2> QED
    BY <2>1, Prepend
<1>4. B \in SUBSET Nat /\ size \in [Nat -> Nat]
  OBVIOUS
<1>5. PICK f : Solution(f, Nat, Seq(Byte), B, base, next, step)
  <2> HIDE DEF B, base, next, step, size
  <2>1. Decreasing(Nat, Seq(Byte), B, base, next, step, size)
    BY <1>1, <1>2, <1>3, <1>4 DEF Decreasing
  <2> QED
    BY <2>1, LinearRecursion, Zenon
<1>f. /\ f \in [Nat -> Seq(Byte)]
      /\ \A m \in B : f[m] = base[m]
      /\ \A m \in Nat \ B : f[m] = step[m][f[next[m]]]
  BY <1>5, Zenon DEF Solution
<1>6. \A m \in Nat : f[m] = IF m < 128 THEN <<m>> ELSE <<128 + (m % 128)>> \o f[m \div 128]
  <2> SUFFICES ASSUME NEW m \in Nat
               PROVE  f[m] = IF m < 128 THEN <<m>> ELSE <<128 + (m % 128)>> \o f[m \div 128]
    OBVIOUS
  <2>1. CASE m < 128
    <3>1. m \in B
      BY <2>1
    <3>2. base[m] = <<m>>
      BY <3>1, Zenon
    <3> QED
      BY <1>f, <2>1, <3>1, <3>2, Zenon
  <2>2. CASE ~(m < 128)
    <3>1. m \in Nat \ B /\ m \div 128 \in Nat
      BY <2>2, Digits
    <3>2. f[m \div 128] \in Seq(Byte)
      BY <1>f, <3>1, Zenon
    <3>3. next[m] = m \div 128
          /\ step[m][f[m \div 128]] = <<128 + (m % 128)>> \o f[m \div 128]
      BY <3>1, <3>2, Zenon
    <3> HIDE DEF B, base, step, next
    <3> QED
      BY <1>f, <2>2, <3>1, <3>3, Zenon
  <2> QED
    BY <2>1, <2>2
<1>7. f = [m \in Nat |-> IF m < 128 THEN <<m>> ELSE <<128 + (m % 128)>> \o f[m \div 128]]
  BY <1>6, <1>f
<1> DEFINE Rec(g) == g = [m \in Nat |-> IF m < 128 THEN <<m>>
                                     ELSE <<128 + (m % 128)>> \o g[m \div 128]]
<1>8. Rec(MQTTPacket_encode)
  BY <1>7 DEF MQTTPacket_encode
<1>9. \A m \in Nat : MQTTPacket_encode[m] = IF m < 128 THEN <<m>>
                                     ELSE <<128 + (m % 128)>> \o MQTTPacket_encode[m \div 128]
  BY <1>8
<1>10. \A m \in Nat : MQTTPacket_encode[m] \in Seq(Byte)
  <2> SUFFICES ASSUME NEW z \in Nat, MQTTPacket_encode[z] \notin Seq(Byte) PROVE FALSE
    OBVIOUS
  <2> DEFINE T == {m \in Nat : MQTTPacket_encode[m] \notin Seq(Byte)}
  <2>1. PICK m \in T : \A k \in T : m <= k
    <3>1. T \in SUBSET Nat /\ T # {}
      OBVIOUS
    <3> HIDE DEF T
    <3> QED
      BY <3>1, Least
  <2>2. m \in Nat /\ MQTTPacket_encode[m] \notin Seq(Byte)
    BY <2>1
  <2>3. ~(m < 128)
    <3> SUFFICES ASSUME m < 128 PROVE FALSE
      OBVIOUS
    <3>1. m \in Byte
      BY <2>2 DEF Byte
    <3>2. <<m>> \in Seq(Byte)
      BY <3>1
    <3>3. MQTTPacket_encode[m] = <<m>>
      BY <1>9, <2>2, Zenon
    <3> QED
      BY <2>2, <3>2, <3>3, Zenon
  <2>4. m \div 128 \in Nat /\ m \div 128 < m /\ 128 + (m % 128) \in Byte
    BY <2>2, <2>3, Digits DEF Byte
  <2>5. MQTTPacket_encode[m \div 128] \in Seq(Byte)
    BY <2>1, <2>4
  <2>6. <<128 + (m % 128)>> \o MQTTPacket_encode[m \div 128] \in Seq(Byte)
    BY <2>4, <2>5, Prepend
  <2>7. MQTTPacket_encode[m] = <<128 + (m % 128)>> \o MQTTPacket_encode[m \div 128]
    BY <1>9, <2>2, <2>3, Zenon
  <2> QED
    BY <2>2, <2>6, <2>7, Zenon
<1>11. n >= 128 => ~(n < 128)
  OBVIOUS
<1> QED
  BY <1>9, <1>10, <1>11, Zenon

(* Concat of segments ends with the last of them. *)
LEMMA ConcatUnfolds ==
  ASSUME NEW ss \in Seq(Seq(Byte))
  PROVE  /\ Concat[ss] \in Seq(Byte)
         /\ ss = <<>> => Concat[ss] = <<>>
         /\ ss # <<>> => Concat[ss] = Concat[Front(ss)] \o Last(ss)
<1> DEFINE D == Seq(Seq(Byte))
           B == {<<>>}
           base == [t \in B |-> <<>>]
           next == [t \in D \ B |-> Front(t)]
           step == [t \in D \ B |-> [s \in Seq(Byte) |-> s \o Last(t)]]
           size == [t \in D |-> Len(t)]
<1>0. \A t \in D \ B : /\ Front(t) \in D /\ Len(Front(t)) < Len(t) /\ Last(t) \in Seq(Byte)
  BY DEF Front, Last
<1>1. base \in [B -> Seq(Byte)]
  OBVIOUS
<1>2. next \in [D \ B -> D] /\ \A t \in D \ B : size[next[t]] < size[t]
  BY <1>0
<1>3. step \in [D \ B -> [Seq(Byte) -> Seq(Byte)]]
  BY <1>0
<1>4. B \in SUBSET D /\ size \in [D -> Nat]
  OBVIOUS
<1>5. PICK f : Solution(f, D, Seq(Byte), B, base, next, step)
  <2> HIDE DEF D, B, base, next, step, size
  <2>1. Decreasing(D, Seq(Byte), B, base, next, step, size)
    BY <1>1, <1>2, <1>3, <1>4 DEF Decreasing
  <2> QED
    BY <2>1, LinearRecursion, Zenon
<1>f. /\ f \in [D -> Seq(Byte)]
      /\ \A t \in B : f[t] = base[t]
      /\ \A t \in D \ B : f[t] = step[t][f[next[t]]]
  BY <1>5, Zenon DEF Solution
<1>6. \A t \in D : f[t] = IF t = <<>> THEN <<>> ELSE f[Front(t)] \o Last(t)
  <2> SUFFICES ASSUME NEW t \in D PROVE f[t] = IF t = <<>> THEN <<>> ELSE f[Front(t)] \o Last(t)
    OBVIOUS
  <2>1. CASE t = <<>>
    BY <1>f, <2>1
  <2>2. CASE t # <<>>
    <3>1. t \in D \ B
      BY <2>2
    <3>2. Front(t) \in D
      BY <1>0, <3>1, Zenon
    <3>3. f[Front(t)] \in Seq(Byte)
      BY <1>f, <3>2, Zenon
    <3>4. next[t] = Front(t) /\ step[t][f[Front(t)]] = f[Front(t)] \o Last(t)
      BY <3>1, <3>3, Zenon
    <3> HIDE DEF D, B, base, step, next
    <3> QED
      BY <1>f, <2>2, <3>1, <3>4, Zenon
  <2> QED
    BY <2>1, <2>2
<1>7. f = [t \in D |-> IF t = <<>> THEN <<>> ELSE f[Front(t)] \o Last(t)]
  <2>1. f = [t \in D |-> f[t]]
    <3>1. f \in [D -> Seq(Byte)]
      BY <1>f
    <3> HIDE DEF D
    <3> QED
      BY <3>1
  <2> HIDE DEF D
  <2> QED
    BY <1>6, <2>1, Zenon
<1> DEFINE Rec(g) == g = [t \in Seq(Seq(Byte)) |-> IF t = <<>> THEN <<>> ELSE g[Front(t)] \o Last(t)]
<1>8. Rec(Concat)
  BY <1>7 DEF Concat
<1>9. \A t \in D : Concat[t] = IF t = <<>> THEN <<>> ELSE Concat[Front(t)] \o Last(t)
  BY <1>8
<1> DEFINE L == {n \in Nat : \A t \in D : Len(t) = n => Concat[t] \in Seq(Byte)}
<1>10. 0 \in L
  BY <1>9
<1>11. ASSUME NEW n \in L PROVE n + 1 \in L
  <2> SUFFICES ASSUME NEW t \in D, Len(t) = n + 1 PROVE Concat[t] \in Seq(Byte)
    OBVIOUS
  <2>1. t \in D \ B /\ Front(t) \in D /\ Len(Front(t)) = n /\ Last(t) \in Seq(Byte)
    BY <1>0 DEF Front
  <2>2. Concat[Front(t)] \in Seq(Byte)
    BY <1>11, <2>1
  <2>3. Concat[t] = Concat[Front(t)] \o Last(t) /\ t # <<>>
    BY <1>9, <2>1
  <2> QED
    BY <2>1, <2>2, <2>3
<1>12. L = Nat
  <2>1. L \in SUBSET Nat
    OBVIOUS
  <2> HIDE DEF L
  <2> QED
    BY <1>10, <1>11, <2>1, Induct
<1>13. ss \in D /\ Len(ss) \in L
  BY <1>12
<1> QED
  BY <1>9, <1>13

-------------------------------------------------------------------------------
(* The remaining length. *)

(* Those a packet may have. *)
Lengths == {n \in Nat : n <= 268435455}

LEMMA Pair ==
  ASSUME NEW x \in Nat, NEW y \in Nat
  PROVE  <<x>> \o <<y>> = <<x, y>>
<1>1. \A s \in Seq(Nat) : Len(s) = 2 /\ s[1] = x /\ s[2] = y => s = <<x, y>>
  OBVIOUS
<1>2. /\ <<x>> \o <<y>> \in Seq(Nat) /\ Len(<<x>> \o <<y>>) = 2
      /\ (<<x>> \o <<y>>)[1] = x /\ (<<x>> \o <<y>>)[2] = y
  OBVIOUS
<1> QED
  BY <1>1, <1>2, Zenon

LEMMA Triple ==
  ASSUME NEW x \in Nat, NEW y \in Nat, NEW z \in Nat
  PROVE  <<x>> \o <<y, z>> = <<x, y, z>>
<1>1. \A s \in Seq(Nat) :
        Len(s) = 3 /\ s[1] = x /\ s[2] = y /\ s[3] = z => s = <<x, y, z>>
  OBVIOUS
<1>2. /\ <<x>> \o <<y, z>> \in Seq(Nat) /\ Len(<<x>> \o <<y, z>>) = 3
      /\ (<<x>> \o <<y, z>>)[1] = x /\ (<<x>> \o <<y, z>>)[2] = y
      /\ (<<x>> \o <<y, z>>)[3] = z
  OBVIOUS
<1> QED
  BY <1>1, <1>2, Zenon

LEMMA Quadruple ==
  ASSUME NEW x \in Nat, NEW y \in Nat, NEW z \in Nat, NEW w \in Nat
  PROVE  <<x>> \o <<y, z, w>> = <<x, y, z, w>>
<1>1. \A s \in Seq(Nat) :
        Len(s) = 4 /\ s[1] = x /\ s[2] = y /\ s[3] = z /\ s[4] = w => s = <<x, y, z, w>>
  OBVIOUS
<1>2. /\ <<x>> \o <<y, z, w>> \in Seq(Nat) /\ Len(<<x>> \o <<y, z, w>>) = 4
      /\ (<<x>> \o <<y, z, w>>)[1] = x /\ (<<x>> \o <<y, z, w>>)[2] = y
      /\ (<<x>> \o <<y, z, w>>)[3] = z /\ (<<x>> \o <<y, z, w>>)[4] = w
  OBVIOUS
<1> QED
  BY <1>1, <1>2, Zenon

(* Bytes of a remaining length: one that is followed by others, and the last one. *)
More == 128..255
Last7 == 0..127

Digits1(n) == \E a \in Last7 : n = a /\ MQTTPacket_encode[n] = <<a>>
Digits2(n) == \E a \in More, b \in Last7 :
  n = (a - 128) + 128 * b /\ b # 0 /\ MQTTPacket_encode[n] = <<a, b>>
Digits3(n) == \E a, b \in More, c \in Last7 :
  /\ n = (a - 128) + 128 * ((b - 128) + 128 * c) /\ c # 0
  /\ MQTTPacket_encode[n] = <<a, b, c>>
Digits4(n) == \E a, b, c \in More, d \in Last7 :
  /\ n = (a - 128) + 128 * ((b - 128) + 128 * ((c - 128) + 128 * d)) /\ d # 0
  /\ MQTTPacket_encode[n] = <<a, b, c, d>>

(* One step of MQTTPacket_encode: the last byte, or a byte a before those of the rest q. *)
EncodeEnds(n) == n \in Last7 /\ MQTTPacket_encode[n] = <<n>>
EncodeGoesOn(n, a, q) ==
  n = (a - 128) + 128 * q /\ q # 0 /\ MQTTPacket_encode[n] = <<a>> \o MQTTPacket_encode[q]

LEMMA EncodeDigit ==
  ASSUME NEW n \in Nat
  PROVE  EncodeEnds(n) \/ \E a \in More, q \in Nat : EncodeGoesOn(n, a, q)
<1>1. CASE n < 128
  <2>1. n \in Last7
    BY <1>1 DEF Last7
  <2> QED
    BY <1>1, <2>1, EncodeUnfolds, Zenon DEF EncodeEnds
<1>2. CASE n >= 128
  <2>1. n % 128 \in 0..127 /\ n \div 128 \in Nat /\ n = (n % 128) + 128 * (n \div 128)
    BY Digits
  <2>2. n \div 128 # 0
    BY <1>2, <2>1
  <2>3. MQTTPacket_encode[n] = <<128 + (n % 128)>> \o MQTTPacket_encode[n \div 128]
    BY <1>2, EncodeUnfolds, Zenon
  <2>4. PICK a \in More : a = 128 + (n % 128)
    BY <2>1 DEF More
  <2>5. n = (a - 128) + 128 * (n \div 128)
    BY <2>1, <2>4 DEF More
  <2>6. MQTTPacket_encode[n] = <<a>> \o MQTTPacket_encode[n \div 128]
    BY <2>3, <2>4, Zenon
  <2>7. EncodeGoesOn(n, a, n \div 128)
    BY <2>2, <2>5, <2>6, Zenon DEF EncodeGoesOn
  <2> QED
    BY <2>1, <2>7, Zenon
<1>3. n < 128 \/ n >= 128
  OBVIOUS
<1> QED
  BY <1>1, <1>2, <1>3, Zenon

(* The digits of a number that a packet may have for its remaining length. *)
LEMMA EncodeDigits ==
  ASSUME NEW n \in Lengths
  PROVE  Digits1(n) \/ Digits2(n) \/ Digits3(n) \/ Digits4(n)
<1> DEFINE e(m) == MQTTPacket_encode[m]
<1>0. (\A a \in More : a \in Nat) /\ (\A a \in Last7 : a \in Nat)
  BY DEF More, Last7
<1>1. n \in Nat
  BY SMT DEF Lengths
<1>2. CASE EncodeEnds(n)
  BY <1>2, Zenon DEF Digits1, EncodeEnds
<1>3. ASSUME NEW a \in More, NEW q \in Nat, EncodeGoesOn(n, a, q)
      PROVE  Digits2(n) \/ Digits3(n) \/ Digits4(n)
  <2>0. n = (a - 128) + 128 * q /\ q # 0 /\ e(n) = <<a>> \o e(q)
    BY <1>3, Zenon DEF EncodeGoesOn
  <2>1. CASE EncodeEnds(q)
    <3>1. q \in Last7 /\ e(q) = <<q>>
      BY <2>1, Zenon DEF EncodeEnds
    <3>2. <<a>> \o <<q>> = <<a, q>>
      BY <1>0, Pair
    <3>3. e(n) = <<a, q>>
      BY <2>0, <3>1, <3>2, Zenon
    <3> QED
      BY <2>0, <3>1, <3>3, Zenon DEF Digits2
  <2>2. ASSUME NEW b \in More, NEW r \in Nat, EncodeGoesOn(q, b, r)
        PROVE  Digits3(n) \/ Digits4(n)
    <3>0. q = (b - 128) + 128 * r /\ r # 0 /\ e(q) = <<b>> \o e(r)
      BY <2>2, Zenon DEF EncodeGoesOn
    <3>1. n = (a - 128) + 128 * ((b - 128) + 128 * r)
      BY <2>0, <3>0, Zenon
    <3>2. CASE EncodeEnds(r)
      <4>1. r \in Last7 /\ e(r) = <<r>>
        BY <3>2, Zenon DEF EncodeEnds
      <4>2. <<b>> \o <<r>> = <<b, r>> /\ <<a>> \o <<b, r>> = <<a, b, r>>
        BY <1>0, Pair, Triple
      <4>3. e(n) = <<a, b, r>>
        BY <2>0, <3>0, <4>1, <4>2, Zenon
      <4> QED
        BY <3>0, <3>1, <4>1, <4>3, Zenon DEF Digits3
    <3>3. ASSUME NEW c \in More, NEW t \in Nat, EncodeGoesOn(r, c, t)
          PROVE  Digits4(n)
      <4>0. r = (c - 128) + 128 * t /\ t # 0 /\ e(r) = <<c>> \o e(t)
        BY <3>3, Zenon DEF EncodeGoesOn
      <4>1. n = (a - 128) + 128 * ((b - 128) + 128 * ((c - 128) + 128 * t))
        BY <3>1, <4>0, Zenon
      <4>2. t < 128
        <5> HIDE DEF e
        <5> QED
          BY <4>1, SMT DEF Lengths, More
      <4>3. t \in Last7 /\ e(t) = <<t>>
        <5>1. t \in Last7
          BY <4>2 DEF Last7
        <5> QED
          BY <4>2, <5>1, EncodeUnfolds, Zenon
      <4>4. /\ <<c>> \o <<t>> = <<c, t>> /\ <<b>> \o <<c, t>> = <<b, c, t>>
            /\ <<a>> \o <<b, c, t>> = <<a, b, c, t>>
        <5>1. a \in Nat /\ b \in Nat /\ c \in Nat
          BY <1>0
        <5>2. <<c>> \o <<t>> = <<c, t>>
          BY <5>1, Pair
        <5>3. <<b>> \o <<c, t>> = <<b, c, t>>
          BY <5>1, Triple
        <5>4. <<a>> \o <<b, c, t>> = <<a, b, c, t>>
          BY <5>1, Quadruple
        <5> QED
          BY <5>2, <5>3, <5>4
      <4>5. e(n) = <<a, b, c, t>>
        <5>1. e(r) = <<c, t>>
          BY <4>0, <4>3, <4>4, Zenon
        <5>2. e(q) = <<b, c, t>>
          BY <3>0, <4>4, <5>1, Zenon
        <5> QED
          BY <2>0, <4>4, <5>2, Zenon
      <4>6. t # 0
        BY <4>0, Zenon
      <4> QED
        BY <4>1, <4>3, <4>5, <4>6 DEF Digits4
    <3> QED
      BY <3>2, <3>3, EncodeDigit, Zenon
  <2> QED
    BY <2>1, <2>2, EncodeDigit, Zenon
<1> QED
  BY <1>1, <1>2, <1>3, EncodeDigit, Zenon

(* The bytes MQTTPacket_encode writes: one to four, all but the last marked as followed by    *)
(* another one, and weighted as MQTTPacket_decodeBuf weighs them. *)
Shape(e, n) ==
  /\ e \in Seq(Byte) /\ Len(e) \in 1..4 /\ e[Len(e)] \in Last7
  /\ \A i \in 1..4 : i < Len(e) => e[i] \in More
  /\ n = (e[1] % 128) + (IF Len(e) < 2 THEN 0 ELSE (e[2] % 128) * 128)
           + (IF Len(e) < 3 THEN 0 ELSE (e[3] % 128) * (128 * 128))
           + (IF Len(e) < 4 THEN 0 ELSE (e[4] % 128) * (128 * 128 * 128))

LEMMA EncodeShape ==
  ASSUME NEW n \in Lengths
  PROVE  Shape(MQTTPacket_encode[n], n)
<1> DEFINE e == MQTTPacket_encode[n]
           k == Len(e)
<1>0. e \in Seq(Byte)
  <2>1. n \in Nat
    BY SMT DEF Lengths
  <2> QED
    BY <2>1, EncodeUnfolds, Zenon
<1>1. /\ k \in 1..4 /\ e[k] \in Last7
      /\ \A i \in 1..4 : i < k => e[i] \in More
      /\ n = (e[1] % 128) + (IF k < 2 THEN 0 ELSE (e[2] % 128) * 128)
               + (IF k < 3 THEN 0 ELSE (e[3] % 128) * (128 * 128))
               + (IF k < 4 THEN 0 ELSE (e[4] % 128) * (128 * 128 * 128))
  <2> HIDE DEF e
  <2>m. /\ \A a \in More : a % 128 = a - 128
        /\ \A a \in Last7 : a % 128 = a
    BY DEF More, Last7
  <2>1. CASE Digits1(n)
    <3>1. PICK a \in Last7 : n = a /\ e = <<a>>
      BY <2>1, Zenon DEF Digits1, e
    <3> QED
      BY <2>m, <3>1 DEF Last7
  <2>2. CASE Digits2(n)
    <3>1. PICK a \in More, b \in Last7 : n = (a - 128) + 128 * b /\ b # 0 /\ e = <<a, b>>
      BY <2>2, Zenon DEF Digits2, e
    <3> QED
      BY <2>m, <3>1 DEF More, Last7
  <2>3. CASE Digits3(n)
    <3>1. PICK a \in More, b \in More, c \in Last7 :
            n = (a - 128) + 128 * ((b - 128) + 128 * c) /\ c # 0 /\ e = <<a, b, c>>
      BY <2>3, Zenon DEF Digits3, e
    <3> QED
      BY <2>m, <3>1 DEF More, Last7
  <2>4. CASE Digits4(n)
    <3>1. PICK a \in More, b \in More, c \in More, d \in Last7 :
            /\ n = (a - 128) + 128 * ((b - 128) + 128 * ((c - 128) + 128 * d)) /\ d # 0
            /\ e = <<a, b, c, d>>
      BY <2>4, Zenon DEF Digits4, e
    <3> QED
      BY <2>m, <3>1 DEF More, Last7
  <2> QED
    BY <2>1, <2>2, <2>3, <2>4, EncodeDigits, Zenon
<1> QED
  BY <1>0, <1>1, Zenon DEF Shape

(* s stands in buf from the index at on. *)
Holds(buf, at, s) == \A i \in 1..Len(s) : buf[at + i - 1] = s[i]

(* What MQTTPacket_decodeBuf finds where MQTTPacket_encode has written. *)
LEMMA DecodeReads ==
  ASSUME NEW n \in Lengths, NEW buf, NEW at \in Nat, Holds(buf, at, MQTTPacket_encode[n])
  PROVE  MQTTPacket_decodeBuf(buf, at) = [len |-> Len(MQTTPacket_encode[n]), value |-> n]
<1> DEFINE e == MQTTPacket_encode[n]
           k == Len(e)
           ends == {i \in 1..4 : buf[at + i - 1] < 128}
           part(i) == IF i > k THEN 0 ELSE (buf[at + i - 1] % 128) * multiplier[i]
<1>1. /\ k \in 1..4 /\ e[k] \in Last7
      /\ \A i \in 1..4 : i < k => e[i] \in More
      /\ n = (e[1] % 128) + (IF k < 2 THEN 0 ELSE (e[2] % 128) * 128)
               + (IF k < 3 THEN 0 ELSE (e[3] % 128) * (128 * 128))
               + (IF k < 4 THEN 0 ELSE (e[4] % 128) * (128 * 128 * 128))
  BY EncodeShape, Zenon DEF Shape
<1> HIDE DEF e
<1>2. \A i \in 1..4 : i <= k => buf[at + i - 1] = e[i]
  <2>1. \A i \in 1..k : buf[at + i - 1] = e[i]
    BY Zenon DEF Holds, e
  <2> HIDE DEF k
  <2> QED
    BY <1>1, <2>1
<1>3. k \in ends /\ \A i \in ends : k <= i
  <2> HIDE DEF k
  <2>1. k \in 1..4 /\ buf[at + k - 1] = e[k] /\ e[k] < 128
    BY <1>1, <1>2 DEF Last7
  <2>2. \A i \in 1..4 : i < k => ~(buf[at + i - 1] < 128)
    BY <1>1, <1>2 DEF More
  <2> QED
    BY <2>1, <2>2
<1>4. Min(ends) = k /\ ends # {}
  <2> HIDE DEF k, ends
  <2>1. k \in Nat /\ \A i \in ends : i \in Nat
    BY <1>1 DEF ends
  <2>2. \A x \in ends : (\A y \in ends : x <= y) => x = k
    BY <1>3, <2>1
  <2> QED
    BY <1>3, <2>2 DEF Min
<1>5. part(1) + part(2) + part(3) + part(4) = n
  <2>0. multiplier[1] = 1 /\ multiplier[2] = 128 /\ multiplier[3] = 128 * 128
        /\ multiplier[4] = 128 * 128 * 128
    BY SMT DEF multiplier
  <2>1. /\ part(1) = (e[1] % 128) * 1
        /\ part(2) = IF k < 2 THEN 0 ELSE (e[2] % 128) * multiplier[2]
        /\ part(3) = IF k < 3 THEN 0 ELSE (e[3] % 128) * multiplier[3]
        /\ part(4) = IF k < 4 THEN 0 ELSE (e[4] % 128) * multiplier[4]
    <3> HIDE DEF k
    <3>1. \A i \in 1..4 : part(i) = IF i > k THEN 0 ELSE (e[i] % 128) * multiplier[i]
      BY <1>1, <1>2
    <3> HIDE DEF part
    <3> QED
      BY <1>1, <2>0, <3>1
  <2>2. \A i \in 1..4 : i <= k => e[i] % 128 \in Nat
    <3> HIDE DEF k
    <3>1. \A i \in 1..4 : i <= k => i < k \/ i = k
      BY <1>1
    <3>2. \A i \in 1..4 : i <= k => e[i] \in Nat
      BY <1>1, <3>1 DEF More, Last7
    <3> QED
      BY <3>2
  <2> HIDE DEF part, k
  <2> QED
    BY <1>1, <2>0, <2>1, <2>2
<1>6. MQTTPacket_decodeBuf(buf, at) =
        [len |-> k, value |-> part(1) + part(2) + part(3) + part(4)]
  <2> DEFINE used == IF ends = {} THEN 4 ELSE Min(ends)
             piece(i) == IF i > used THEN 0 ELSE (buf[at + i - 1] % 128) * multiplier[i]
  <2>1. MQTTPacket_decodeBuf(buf, at) =
          [len |-> IF ends = {} THEN 5 ELSE used,
           value |-> piece(1) + piece(2) + piece(3) + piece(4)]
    BY Zenon DEF MQTTPacket_decodeBuf
  <2> HIDE DEF ends, k
  <2>2. used = k /\ (IF ends = {} THEN 5 ELSE used) = k
    BY <1>4, Zenon
  <2>3. piece(1) = part(1) /\ piece(2) = part(2) /\ piece(3) = part(3) /\ piece(4) = part(4)
    <3> HIDE DEF used
    <3> QED
      BY <2>2, Zenon
  <2> HIDE DEF used, piece, part
  <2> QED
    BY <2>1, <2>2, <2>3, Zenon
<1> HIDE DEF k, part, ends
<1> QED
  BY <1>5, <1>6 DEF k, e

(* For every remaining length a packet may have, MQTTPacket_decodeBuf reads what
   MQTTPacket_encode has written, and MQTTPacket_len is the length of the packet or one more. *)
THEOREM LengthsAreExact == LengthsExact(Lengths)
<1> SUFFICES ASSUME NEW n \in Lengths
             PROVE  /\ MQTTPacket_decodeBuf(MQTTPacket_encode[n] \o <<0, 0, 0, 0>>, 1)
                          = [len |-> Len(MQTTPacket_encode[n]), value |-> n]
                    /\ MQTTPacket_len(n) - (1 + Len(MQTTPacket_encode[n]) + n) \in {0, 1}
  BY DEF LengthsExact
<1>1. n \in Nat /\ MQTTPacket_encode[n] \in Seq(Byte)
  <2>1. n \in Nat
    BY SMT DEF Lengths
  <2> QED
    BY <2>1, EncodeUnfolds, Zenon
<1>2. Holds(MQTTPacket_encode[n] \o <<0, 0, 0, 0>>, 1, MQTTPacket_encode[n])
  BY <1>1 DEF Holds
<1>3. MQTTPacket_len(n) - (1 + Len(MQTTPacket_encode[n]) + n) \in {0, 1}
  <2> DEFINE k == Len(MQTTPacket_encode[n])
  <2>1. \/ k = 1 /\ n < 128
        \/ k = 2 /\ n >= 128 /\ n < 128 * 128
        \/ k = 3 /\ n >= 128 * 128 /\ n < 128 * 128 * 128
        \/ k = 4 /\ n >= 128 * 128 * 128
    <3>1. CASE Digits1(n)
      BY <3>1 DEF Digits1, Last7
    <3>2. CASE Digits2(n)
      BY <3>2 DEF Digits2, Last7, More
    <3>3. CASE Digits3(n)
      BY <3>3, SMT DEF Digits3, Last7, More
    <3>4. CASE Digits4(n)
      BY <3>4, SMT DEF Digits4, Last7, More
    <3> QED
      BY <3>1, <3>2, <3>3, <3>4, EncodeDigits, Zenon
  <2> HIDE DEF k
  <2>2. MQTTPacket_len(n) - (1 + k + n) \in {0, 1}
    BY <1>1, <2>1, SMT DEF MQTTPacket_len
  <2> QED
    BY <2>2 DEF k
<1>4. MQTTPacket_decodeBuf(MQTTPacket_encode[n] \o <<0, 0, 0, 0>>, 1)
        = [len |-> Len(MQTTPacket_encode[n]), value |-> n]
  BY <1>2, DecodeReads
<1> QED
  BY <1>3, <1>4
-------------------------------------------------------------------------------
(* Fields. *)

LEMMA MsgTypes ==
  /\ \A t \in DOMAIN msgTypes : msgTypes[t] \in 1..15
  /\ \A t, u \in DOMAIN msgTypes : msgTypes[t] = msgTypes[u] => t = u
BY SMT DEF msgTypes

(* The bits of the first byte. *)
HeaderBits(h, type, dup, qos, retain) ==
  /\ TypeBits(h) = msgTypes[type] /\ DupBit(h) = dup
  /\ QosBits(h) = qos /\ RetainBit(h) = retain

LEMMA HeaderByte ==
  ASSUME NEW type \in DOMAIN msgTypes, NEW dup \in 0..1, NEW qos \in 0..3, NEW retain \in 0..1
  PROVE  \E h \in Byte : /\ MQTTHeader(type, dup, qos, retain) = <<h>>
                         /\ HeaderBits(h, type, dup, qos, retain)
<1>1. PICK m \in 1..15 : m = msgTypes[type]
  BY MsgTypes
<1> DEFINE h == 16 * m + 8 * dup + 2 * qos + retain
<1>2. h \in Byte
  BY DEF Byte
<1>3. h \div 16 = m /\ (h \div 8) % 2 = dup /\ (h \div 2) % 4 = qos /\ h % 2 = retain
  <2>1. h = 16 * m + (8 * dup + 2 * qos + retain) /\ 8 * dup + 2 * qos + retain \in 0..15
    OBVIOUS
  <2>2. h = 8 * (2 * m + dup) + (2 * qos + retain) /\ 2 * qos + retain \in 0..7
    OBVIOUS
  <2>3. h = 2 * (4 * (2 * m + dup) + qos) + retain
    OBVIOUS
  <2> HIDE DEF h
  <2> QED
    BY <2>1, <2>2, <2>3
<1>4. MQTTHeader(type, dup, qos, retain) = <<h>>
  BY <1>1 DEF MQTTHeader
<1>5. HeaderBits(h, type, dup, qos, retain)
  <2> HIDE DEF h
  <2> QED
    BY <1>1, <1>3 DEF HeaderBits, TypeBits, DupBit, QosBits, RetainBit
<1> QED
  BY <1>2, <1>4, <1>5

(* A first byte tells one type. *)
LEMMA HeaderType ==
  ASSUME NEW type \in DOMAIN msgTypes, NEW buf, TypeBits(buf[1]) = msgTypes[type]
  PROVE  \A t \in DOMAIN msgTypes : IsType(buf, t) <=> t = type
BY MsgTypes DEF IsType

(* Strings of bytes next to each other. *)
LEMMA HoldsParts ==
  ASSUME NEW s \in Seq(Byte), NEW t \in Seq(Byte), NEW buf, NEW at \in Nat,
         Holds(buf, at, s \o t)
  PROVE  Holds(buf, at, s) /\ Holds(buf, at + Len(s), t)
<1>1. \A i \in 1..Len(s) + Len(t) : buf[at + i - 1] = (s \o t)[i]
  BY DEF Holds
<1>2. ASSUME NEW i \in 1..Len(s) PROVE buf[at + i - 1] = s[i]
  <2>1. i \in 1..Len(s) + Len(t) /\ (s \o t)[i] = s[i]
    OBVIOUS
  <2> QED
    BY <1>1, <2>1
<1>3. ASSUME NEW i \in 1..Len(t) PROVE buf[at + Len(s) + i - 1] = t[i]
  <2>1. Len(s) + i \in 1..Len(s) + Len(t) /\ at + (Len(s) + i) - 1 = at + Len(s) + i - 1
    OBVIOUS
  <2>2. (s \o t)[Len(s) + i] = t[i]
    OBVIOUS
  <2> QED
    BY <1>1, <2>1, <2>2
<1> QED
  BY <1>2, <1>3 DEF Holds

LEMMA IntField ==
  ASSUME NEW n \in Word
  PROVE  /\ writeInt(n) \in Seq(Byte) /\ Len(writeInt(n)) = 2
         /\ 256 * writeInt(n)[1] + writeInt(n)[2] = n
<1>0. n \in Nat
  BY SMT DEF Word
<1>1. (n \div 256) % 256 = n \div 256 /\ n \div 256 \in Byte /\ n % 256 \in Byte
  BY SMT DEF Byte, Word
<1>2. 256 * (n \div 256) + (n % 256) = n
  BY <1>0
<1> QED
  BY <1>1, <1>2 DEF writeInt

LEMMA ReadsInt ==
  ASSUME NEW n \in Word, NEW buf \in Seq(Byte), NEW at \in Nat, at + 1 <= Len(buf),
         Holds(buf, at, writeInt(n))
  PROVE  readInt(buf, at) = n
<1>1. buf[at] = writeInt(n)[1] /\ buf[at + 1] = writeInt(n)[2]
  <2>1. \A i \in 1..2 : buf[at + i - 1] = writeInt(n)[i]
    BY IntField DEF Holds
  <2> QED
    BY <2>1
<1>2. readInt(buf, at) = 256 * buf[at] + buf[at + 1]
  BY DEF readInt, ByteAt
<1> QED
  BY <1>1, <1>2, IntField

(* Four words of two bytes each. *)
FourWords(w1, w2, w3, w4) ==
  /\ w1 \in Seq(Byte) /\ w2 \in Seq(Byte) /\ w3 \in Seq(Byte) /\ w4 \in Seq(Byte)
  /\ Len(w1) = 2 /\ Len(w2) = 2 /\ Len(w3) = 2 /\ Len(w4) = 2

LEMMA IdWords ==
  ASSUME NEW id \in Id
  PROVE  /\ FourWords(writeInt(id[1]), writeInt(id[2]), writeInt(id[3]), writeInt(id[4]))
         /\ id[1] \in Word /\ id[2] \in Word /\ id[3] \in Word /\ id[4] \in Word
<1>1. id[1] \in Word /\ id[2] \in Word /\ id[3] \in Word /\ id[4] \in Word
  BY DEF Id
<1> QED
  BY <1>1, IntField DEF FourWords

LEMMA WordsHeld ==
  ASSUME NEW w1, NEW w2, NEW w3, NEW w4, FourWords(w1, w2, w3, w4)
  PROVE  /\ w1 \o w2 \o w3 \o w4 \in Seq(Byte) /\ Len(w1 \o w2 \o w3 \o w4) = 8
         /\ \A buf : \A at \in Nat :
              Holds(buf, at, w1 \o w2 \o w3 \o w4) =>
                /\ Holds(buf, at, w1) /\ Holds(buf, at + 2, w2)
                /\ Holds(buf, at + 4, w3) /\ Holds(buf, at + 6, w4)
<1>0. /\ w1 \in Seq(Byte) /\ w2 \in Seq(Byte) /\ w3 \in Seq(Byte) /\ w4 \in Seq(Byte)
      /\ Len(w1) = 2 /\ Len(w2) = 2 /\ Len(w3) = 2 /\ Len(w4) = 2
  BY Zenon DEF FourWords
<1>1. w1 \o w2 \in Seq(Byte) /\ Len(w1 \o w2) = 4
  <2>1. w1 \o w2 \in Seq(Byte) /\ Len(w1 \o w2) = Len(w1) + Len(w2)
    BY <1>0, Joined, Zenon
  <2> QED
    BY <1>0, <2>1
<1>2. w1 \o w2 \o w3 \in Seq(Byte) /\ Len(w1 \o w2 \o w3) = 6
  BY <1>0, <1>1, Joined
<1>3. w1 \o w2 \o w3 \o w4 \in Seq(Byte) /\ Len(w1 \o w2 \o w3 \o w4) = 8
  BY <1>0, <1>2, Joined
<1>4. ASSUME NEW buf, NEW at \in Nat, Holds(buf, at, w1 \o w2 \o w3 \o w4)
      PROVE  /\ Holds(buf, at, w1) /\ Holds(buf, at + 2, w2)
             /\ Holds(buf, at + 4, w3) /\ Holds(buf, at + 6, w4)
  <2>1. Holds(buf, at, w1 \o w2 \o w3) /\ Holds(buf, at + Len(w1 \o w2 \o w3), w4)
    BY <1>0, <1>2, <1>4, HoldsParts, Zenon
  <2>2. Holds(buf, at, w1 \o w2) /\ Holds(buf, at + Len(w1 \o w2), w3)
    BY <1>0, <1>1, <2>1, HoldsParts, Zenon
  <2>3. Holds(buf, at, w1) /\ Holds(buf, at + Len(w1), w2)
    BY <1>0, <2>2, HoldsParts, Zenon
  <2> QED
    BY <1>0, <1>1, <1>2, <2>1, <2>2, <2>3
<1> QED
  BY <1>3, <1>4, Zenon

(* A packet identifier is eight bytes. *)
LEMMA IdField ==
  ASSUME NEW id \in Id
  PROVE  writeInt64(id) \in Seq(Byte) /\ Len(writeInt64(id)) = 8
BY IdWords, WordsHeld, Zenon DEF writeInt64

LEMMA ReadsId ==
  ASSUME NEW id \in Id, NEW buf \in Seq(Byte), NEW at \in Nat, at + 7 <= Len(buf),
         Holds(buf, at, writeInt64(id))
  PROVE  readInt64(buf, at) = id
<1>1. /\ Holds(buf, at, writeInt(id[1])) /\ Holds(buf, at + 2, writeInt(id[2]))
      /\ Holds(buf, at + 4, writeInt(id[3])) /\ Holds(buf, at + 6, writeInt(id[4]))
  BY IdWords, WordsHeld, Zenon DEF writeInt64
<1>2. /\ readInt(buf, at) = id[1] /\ readInt(buf, at + 2) = id[2]
      /\ readInt(buf, at + 4) = id[3] /\ readInt(buf, at + 6) = id[4]
  <2>1. id[1] \in Word /\ id[2] \in Word /\ id[3] \in Word /\ id[4] \in Word
    BY IdWords
  <2>2. readInt(buf, at) = id[1]
    BY <1>1, <2>1, ReadsInt
  <2>3. readInt(buf, at + 2) = id[2]
    BY <1>1, <2>1, ReadsInt
  <2>4. readInt(buf, at + 4) = id[3]
    BY <1>1, <2>1, ReadsInt
  <2>5. readInt(buf, at + 6) = id[4]
    BY <1>1, <2>1, ReadsInt
  <2> QED
    BY <2>2, <2>3, <2>4, <2>5
<1>3. \A i \in 1..4 : readInt(buf, at + 2 * (i - 1)) = id[i]
  BY <1>2
<1>4. id = [i \in 1..4 |-> id[i]]
  BY DEF Id
<1> QED
  BY <1>3, <1>4 DEF readInt64

(* A counted string. *)
LEMMA StringField ==
  ASSUME NEW s \in Seq(Byte), Len(s) \in Word
  PROVE  writeMQTTString(s) \in Seq(Byte) /\ Len(writeMQTTString(s)) = 2 + Len(s)
<1>1. writeInt(Len(s)) \in Seq(Byte) /\ Len(writeInt(Len(s))) = 2
  BY IntField
<1>2. writeInt(Len(s)) \o s \in Seq(Byte) /\ Len(writeInt(Len(s)) \o s) = 2 + Len(s)
  BY <1>1, Joined
<1> QED
  BY <1>2, Zenon DEF writeMQTTString

LEMMA HeldString ==
  ASSUME NEW s \in Seq(Byte), NEW buf \in Seq(Byte), NEW at \in Nat \ {0},
         at + Len(s) - 1 <= Len(buf), Holds(buf, at, s)
  PROVE  SubSeq(buf, at, at + Len(s) - 1) = s
<1> DEFINE sub == SubSeq(buf, at, at + Len(s) - 1)
<1>1. sub \in Seq(Byte) /\ Len(sub) = Len(s) /\ \A i \in 1..Len(s) : sub[i] = buf[at + i - 1]
  OBVIOUS
<1>2. \A i \in 1..Len(s) : sub[i] = s[i]
  BY <1>1 DEF Holds
<1> HIDE DEF sub
<1> QED
  BY <1>1, <1>2, SeqEqual

LEMMA ReadsString ==
  ASSUME NEW s \in Seq(Byte), Len(s) \in Word, NEW buf \in Seq(Byte), NEW at \in Nat \ {0},
         NEW end \in Nat, at + 2 + Len(s) <= end, at + 1 + Len(s) <= Len(buf),
         Holds(buf, at, writeMQTTString(s))
  PROVE  readMQTTLenString(buf, at, end) = [ok |-> TRUE, data |-> s, next |-> at + 2 + Len(s)]
<1>1. writeInt(Len(s)) \in Seq(Byte) /\ Len(writeInt(Len(s))) = 2
  BY IntField
<1>2. Holds(buf, at, writeInt(Len(s))) /\ Holds(buf, at + 2, s)
  <2>1. Holds(buf, at, writeInt(Len(s)) \o s)
    BY Zenon DEF writeMQTTString
  <2>2. Holds(buf, at, writeInt(Len(s))) /\ Holds(buf, at + Len(writeInt(Len(s))), s)
    BY <1>1, <2>1, HoldsParts, Zenon
  <2> QED
    BY <1>1, <2>2
<1>3. readInt(buf, at) = Len(s)
  BY <1>2, ReadsInt
<1>4. SubSeq(buf, at + 2, (at + 2 + Len(s)) - 1) = s
  <2>1. SubSeq(buf, at + 2, (at + 2) + Len(s) - 1) = s
    BY <1>2, HeldString
  <2> QED
    BY <2>1
<1> DEFINE next == at + 2 + readInt(buf, at)
<1>5. next = at + 2 + Len(s) /\ end - at > 1 /\ next <= end
  BY <1>3
<1>6. readMQTTLenString(buf, at, end) =
        IF end - at > 1 /\ next <= end
        THEN [ok |-> TRUE, data |-> SubSeq(buf, at + 2, next - 1), next |-> next]
        ELSE [ok |-> FALSE]
  BY Zenon DEF readMQTTLenString
<1> HIDE DEF next
<1>7. SubSeq(buf, at + 2, next - 1) = s
  BY <1>4, <1>5, Zenon
<1>8. readMQTTLenString(buf, at, end) = [ok |-> TRUE, data |-> s, next |-> next]
  BY <1>5, <1>6, <1>7, Zenon
<1> QED
  BY <1>5, <1>8, Zenon

-------------------------------------------------------------------------------
(* Packets. *)

(* b is a fixed header of the byte h and the remaining length n, and a body. *)
Frames(b, h, n, body) ==
  /\ h \in Byte /\ n \in Lengths /\ body \in Seq(Byte) /\ Len(body) = n
  /\ b = <<h>> \o MQTTPacket_encode[n] \o body

LEMMA FrameBytes ==
  ASSUME NEW b, NEW h, NEW n, NEW body, Frames(b, h, n, body)
  PROVE  /\ b \in Seq(Byte) /\ Len(b) = 1 + Len(MQTTPacket_encode[n]) + n
         /\ Len(MQTTPacket_encode[n]) \in 1..4 /\ n \in Nat
         /\ \A buf : Holds(buf, 1, b) =>
              /\ buf[1] = h /\ Holds(buf, 2, MQTTPacket_encode[n])
              /\ Holds(buf, 2 + Len(MQTTPacket_encode[n]), body)
<1> DEFINE e == MQTTPacket_encode[n]
<1>1. h \in Byte /\ n \in Lengths /\ body \in Seq(Byte) /\ Len(body) = n /\ b = <<h>> \o e \o body
  BY Zenon DEF Frames
<1>2. e \in Seq(Byte) /\ Len(e) \in 1..4 /\ n \in Nat
  BY <1>1, EncodeShape, SMT DEF Shape, Lengths
<1> HIDE DEF e
<1>3. <<h>> \in Seq(Byte) /\ Len(<<h>>) = 1 /\ <<h>>[1] = h
  BY <1>1
<1>4. <<h>> \o e \in Seq(Byte) /\ Len(<<h>> \o e) = 1 + Len(e)
  BY <1>2, <1>3, Joined
<1>5. b \in Seq(Byte) /\ Len(b) = 1 + Len(e) + n
  <2>1. b \in Seq(Byte) /\ Len(b) = Len(<<h>> \o e) + Len(body)
    BY <1>1, <1>4, Joined, Zenon
  <2> QED
    BY <1>1, <1>2, <1>4, <2>1
<1>6. ASSUME NEW buf, Holds(buf, 1, b)
      PROVE  buf[1] = h /\ Holds(buf, 2, e) /\ Holds(buf, 2 + Len(e), body)
  <2>0. 1 \in Nat
    OBVIOUS
  <2>1. Holds(buf, 1, <<h>> \o e) /\ Holds(buf, 1 + Len(<<h>> \o e), body)
    BY <1>1, <1>4, <1>6, <2>0, HoldsParts, Zenon
  <2>2. Holds(buf, 1, <<h>>) /\ Holds(buf, 1 + Len(<<h>>), e)
    BY <1>2, <1>3, <2>0, <2>1, HoldsParts, Zenon
  <2>3. buf[1] = h
    BY <1>3, <2>2 DEF Holds
  <2>4. 1 + Len(<<h>>) = 2 /\ 1 + Len(<<h>> \o e) = 2 + Len(e)
    BY <1>2, <1>3, <1>4
  <2> QED
    BY <2>1, <2>2, <2>3, <2>4, Zenon
<1> QED
  BY <1>2, <1>5, <1>6, Zenon DEF e

(* Where the reader of a packet that stands at the beginning of a buffer finds its parts. *)
LEMMA FrameRead ==
  ASSUME NEW b, NEW h, NEW n, NEW body, Frames(b, h, n, body), NEW buf, Holds(buf, 1, b)
  PROVE  /\ buf[1] = h /\ BodyStart(buf) = 2 + Len(MQTTPacket_encode[n])
         /\ BodyEnd(buf) = BodyStart(buf) + n /\ BodyEnd(buf) = Len(b) + 1
         /\ Holds(buf, BodyStart(buf), body)
<1> DEFINE e == MQTTPacket_encode[n]
<1>1. /\ n \in Lengths /\ Len(e) \in 1..4 /\ n \in Nat /\ Len(b) = 1 + Len(e) + n
      /\ buf[1] = h /\ Holds(buf, 2, e) /\ Holds(buf, 2 + Len(e), body)
  <2>1. n \in Lengths
    BY Zenon DEF Frames
  <2> QED
    BY <2>1, FrameBytes, Zenon
<1>2. MQTTPacket_decodeBuf(buf, 2) = [len |-> Len(e), value |-> n]
  <2>1. 2 \in Nat
    OBVIOUS
  <2> QED
    BY <1>1, <2>1, DecodeReads, Zenon
<1>3. MQTTPacket_decodeBuf(buf, 2).len = Len(e) /\ MQTTPacket_decodeBuf(buf, 2).value = n
  BY <1>2
<1>4. BodyStart(buf) = 2 + Len(e) /\ BodyEnd(buf) = BodyStart(buf) + n
  BY <1>3, Zenon DEF BodyStart, BodyEnd
<1> HIDE DEF e
<1>5. BodyEnd(buf) = Len(b) + 1
  BY <1>1, <1>4
<1> QED
  BY <1>1, <1>4, <1>5, Zenon DEF e

LEMMA AckFrames ==
  ASSUME NEW type \in DOMAIN msgTypes, NEW id \in Id, NEW buflen \in Nat, buflen >= 4
  PROVE  \E h \in Byte : /\ Frames(MQTTSerialize_ack(buflen, type, 0, id), h, 8, writeInt64(id))
                         /\ TypeBits(h) = msgTypes[type]
<1> DEFINE qos == IF type = "PUBREL" THEN 1 ELSE 0
<1>1. PICK h \in Byte : MQTTHeader(type, 0, qos, 0) = <<h>> /\ HeaderBits(h, type, 0, qos, 0)
  <2>1. qos \in 0..3 /\ 0 \in 0..1
    OBVIOUS
  <2> HIDE DEF qos
  <2> QED
    BY <2>1, HeaderByte
<1>2. 8 \in Lengths /\ ~(buflen < 4)
  BY SMT DEF Lengths
<1>3. MQTTSerialize_ack(buflen, type, 0, id) = <<h>> \o MQTTPacket_encode[8] \o writeInt64(id)
  BY <1>1, <1>2, Zenon DEF MQTTSerialize_ack
<1>4. Frames(MQTTSerialize_ack(buflen, type, 0, id), h, 8, writeInt64(id))
  BY <1>2, <1>3, IdField, Zenon DEF Frames
<1> QED
  BY <1>1, <1>4, Zenon DEF HeaderBits

(* What a PUBLISH is made of. *)
PublishFields(p) ==
  /\ p.dup \in 0..1 /\ p.qos \in 0..2 /\ p.retained \in 0..1 /\ p.id \in Id
  /\ p.topic \in Seq(Byte) /\ p.payload \in Seq(Byte)
PublishLength(p) == MQTTSerialize_publishLength(p.qos, p.topic, Len(p.payload))
PublishBody(p) ==
  writeMQTTString(p.topic) \o (IF p.qos > 0 THEN writeInt64(p.id) ELSE <<>>) \o p.payload

LEMMA IntBytes ==
  ASSUME NEW n \in Nat
  PROVE  writeInt(n) \in Seq(Byte) /\ Len(writeInt(n)) = 2
<1>1. (n \div 256) % 256 \in Byte /\ n % 256 \in Byte
  BY SMT DEF Byte
<1> QED
  BY <1>1 DEF writeInt

LEMMA PublishBodyBytes ==
  ASSUME NEW p, PublishFields(p)
  PROVE  /\ PublishBody(p) \in Seq(Byte) /\ Len(PublishBody(p)) = PublishLength(p)
         /\ writeMQTTString(p.topic) \in Seq(Byte)
         /\ Len(writeMQTTString(p.topic)) = 2 + Len(p.topic)
         /\ (IF p.qos > 0 THEN writeInt64(p.id) ELSE <<>>) \in Seq(Byte)
         /\ Len(IF p.qos > 0 THEN writeInt64(p.id) ELSE <<>>) = IdLength(p.qos)
         /\ IdLength(p.qos) \in Nat
<1> DEFINE id == IF p.qos > 0 THEN writeInt64(p.id) ELSE <<>>
           topic == writeMQTTString(p.topic)
<1>1. /\ p.qos \in 0..2 /\ p.id \in Id /\ p.topic \in Seq(Byte) /\ p.payload \in Seq(Byte)
      /\ Len(p.topic) \in Nat /\ Len(p.payload) \in Nat
  BY DEF PublishFields
<1>2. id \in Seq(Byte) /\ Len(id) = IdLength(p.qos)
  <2>1. CASE p.qos > 0
    BY <1>1, <2>1, IdField DEF IdLength
  <2>2. CASE ~(p.qos > 0)
    BY <2>2 DEF IdLength
  <2> QED
    BY <2>1, <2>2
<1>3. topic \in Seq(Byte) /\ Len(topic) = 2 + Len(p.topic)
  <2>1. writeInt(Len(p.topic)) \in Seq(Byte) /\ Len(writeInt(Len(p.topic))) = 2
    BY <1>1, IntBytes
  <2>2. /\ writeInt(Len(p.topic)) \o p.topic \in Seq(Byte)
        /\ Len(writeInt(Len(p.topic)) \o p.topic) = 2 + Len(p.topic)
    BY <1>1, <2>1, Joined
  <2> QED
    BY <2>2, Zenon DEF writeMQTTString
<1> HIDE DEF id, topic
<1>4. topic \o id \in Seq(Byte) /\ Len(topic \o id) = 2 + Len(p.topic) + IdLength(p.qos)
  BY <1>2, <1>3, Joined
<1>5. /\ topic \o id \o p.payload \in Seq(Byte)
      /\ Len(topic \o id \o p.payload) = Len(topic \o id) + Len(p.payload)
  BY <1>1, <1>4, Joined, Zenon
<1>6. IdLength(p.qos) \in Nat
  BY DEF IdLength
<1>7. Len(topic \o id \o p.payload) = PublishLength(p)
  <2>1. PublishLength(p) = 2 + Len(p.topic) + Len(p.payload) + IdLength(p.qos)
    BY Zenon DEF PublishLength, MQTTSerialize_publishLength
  <2>2. Len(topic \o id \o p.payload) = (2 + Len(p.topic) + IdLength(p.qos)) + Len(p.payload)
    BY <1>4, <1>5, Zenon
  <2>3. \A a, b, c \in Nat : (2 + a + c) + b = 2 + a + b + c
    OBVIOUS
  <2> QED
    BY <1>1, <1>6, <2>1, <2>2, <2>3, Zenon
<1>8. PublishBody(p) = topic \o id \o p.payload
  BY Zenon DEF PublishBody, topic, id
<1> QED
  BY <1>2, <1>3, <1>5, <1>6, <1>7, <1>8, Zenon DEF topic, id

LEMMA PublishFrames ==
  ASSUME NEW p, PublishFields(p), NEW buflen, Fits(PublishLength(p), buflen)
  PROVE  \E h \in Byte :
           /\ HeaderBits(h, "PUBLISH", p.dup, p.qos, p.retained)
           /\ MQTTSerialize_publish(buflen, p)
                = <<h>> \o MQTTPacket_encode[PublishLength(p)] \o PublishBody(p)
           /\ PublishLength(p) \in Lengths =>
                Frames(MQTTSerialize_publish(buflen, p), h, PublishLength(p), PublishBody(p))
<1>1. PICK h \in Byte : /\ MQTTHeader("PUBLISH", p.dup, p.qos, p.retained) = <<h>>
                        /\ HeaderBits(h, "PUBLISH", p.dup, p.qos, p.retained)
  <2>1. "PUBLISH" \in DOMAIN msgTypes
    BY DEF msgTypes
  <2>2. p.dup \in 0..1 /\ p.qos \in 0..3 /\ p.retained \in 0..1
    BY DEF PublishFields
  <2> QED
    BY <2>1, <2>2, HeaderByte
<1>2. MQTTSerialize_publish(buflen, p) =
        <<h>> \o MQTTPacket_encode[PublishLength(p)] \o writeMQTTString(p.topic)
          \o (IF p.qos > 0 THEN writeInt64(p.id) ELSE <<>>) \o p.payload
  BY <1>1, Zenon DEF MQTTSerialize_publish, PublishLength
<1>3. <<h>> \o MQTTPacket_encode[PublishLength(p)] \in Seq(Byte)
  <2>1. PublishLength(p) \in Nat
    BY PublishBodyBytes
  <2>2. MQTTPacket_encode[PublishLength(p)] \in Seq(Byte)
    BY <2>1, EncodeUnfolds, Zenon
  <2> QED
    BY <2>2, Joined
<1>4. p.payload \in Seq(Byte)
  BY DEF PublishFields
<1>5. MQTTSerialize_publish(buflen, p)
        = <<h>> \o MQTTPacket_encode[PublishLength(p)] \o PublishBody(p)
  <2> DEFINE id == IF p.qos > 0 THEN writeInt64(p.id) ELSE <<>>
             a == <<h>> \o MQTTPacket_encode[PublishLength(p)]
             topic == writeMQTTString(p.topic)
  <2>1. id \in Seq(Byte) /\ topic \in Seq(Byte) /\ a \in Seq(Byte)
    BY <1>3, PublishBodyBytes, Zenon
  <2>2. MQTTSerialize_publish(buflen, p) = a \o topic \o id \o p.payload
    BY <1>2, Zenon
  <2>3. PublishBody(p) = topic \o id \o p.payload
    BY Zenon DEF PublishBody
  <2> HIDE DEF id, a, topic
  <2>4. MQTTSerialize_publish(buflen, p) = a \o PublishBody(p)
    <3>1. a \o topic \o id \o p.payload = a \o (topic \o id \o p.payload)
      <4>1. \A t \in Seq(Byte) : a \o topic \o id \o t = a \o (topic \o id \o t)
        BY <2>1, LastThree, Zenon
      <4> QED
        BY <1>4, <4>1, Zenon
    <3> QED
      BY <2>2, <2>3, <3>1, Zenon
  <2> QED
    BY <2>4, Zenon DEF a
<1> QED
  BY <1>1, <1>5, PublishBodyBytes, Zenon DEF Frames

===============================================================================
