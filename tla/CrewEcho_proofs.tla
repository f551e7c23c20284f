--------------------------- MODULE CrewEcho_proofs ---------------------------
(***************************************************************************)
(* That no keystroke is lost on its way through the four processors, and   *)
(* that the screen shows what was typed, for every set of keys, every      *)
(* glyph table, every width of the words and every size of the screen:     *)
(* proofs about CrewEcho.                                                  *)
(***************************************************************************)
EXTENDS CrewEcho, Bce_proofs, SequenceTheorems

-----------------------------------------------------------------------------
(***************************************************************************)
(* Words.  The weights of the bits and the value of a set of bits are      *)
(* recursive functions; that they exist is proved first.                   *)
(***************************************************************************)

LEMMA Division ==
  ASSUME NEW p \in Nat \ {0}, NEW a \in Nat
  PROVE  a \div p \in Nat /\ a % p \in 0..(p - 1) /\ a = (a \div p) * p + (a % p)
  OBVIOUS

LEMMA Quotient ==
  ASSUME NEW p \in Nat \ {0}, NEW q \in Nat, NEW r \in 0..(p - 1), NEW a, a = q * p + r
  PROVE  a \div p = q /\ a % p = r
<1>1. (q * p + r) \div p = q /\ (q * p + r) % p = r
  OBVIOUS
<1>2. QED
  BY <1>1

(* Induction over the numbers up to N, for sets.                           *)
LEMMA Upwards ==
  ASSUME NEW N \in Nat, NEW S, 0 \in S, \A n \in 1..N : n - 1 \in S => n \in S
  PROVE  \A n \in 0..N : n \in S
<1> DEFINE Bad == {n \in 0..N : n \notin S}
<1>1. SUFFICES ASSUME Bad # {}
               PROVE  FALSE
  OBVIOUS
<1>2. Bad \in SUBSET Nat
  OBVIOUS
<1>3. PICK m \in Bad : \A k \in Bad : m <= k
  <2> HIDE DEF Bad
  <2>1. QED
    BY <1>1, <1>2, LeastMember
<1>4. m \in 1..N /\ m - 1 \in 0..N /\ ~(m <= m - 1)
  OBVIOUS
<1>5. m - 1 \in S
  BY <1>3, <1>4
<1>6. QED
  BY <1>4, <1>5

(* A function on 0..N that starts with c and takes each of its values from *)
(* the one before exists.                                                  *)
LEMMA Recursion ==
  ASSUME NEW N \in Nat, NEW c \in Nat, NEW G \in [Nat -> [Nat -> Nat]]
  PROVE  \E f \in [0..N -> Nat] : f = [n \in 0..N |-> IF n = 0 THEN c ELSE G[n][f[n - 1]]]
<1> DEFINE Solves(f, m) == \A n \in 0..m : f[n] = IF n = 0 THEN c ELSE G[n][f[n - 1]]
           S == {m \in Nat : \E f \in [0..m -> Nat] : Solves(f, m)}
<1>1. 0 \in S
  <2> DEFINE f == [n \in 0..0 |-> c]
  <2>1. f \in [0..0 -> Nat] /\ Solves(f, 0)
    OBVIOUS
  <2>2. QED
    BY <2>1
<1>2. ASSUME NEW m \in 1..N, m - 1 \in S
      PROVE  m \in S
  <2>1. m \in Nat /\ m - 1 \in Nat /\ m # 0
    OBVIOUS
  <2>2. PICK g \in [0..(m - 1) -> Nat] : Solves(g, m - 1)
    BY <1>2
  <2> DEFINE f == [n \in 0..m |-> IF n = m THEN G[m][g[m - 1]] ELSE g[n]]
  <2>3. g[m - 1] \in Nat /\ G[m][g[m - 1]] \in Nat
    <3>1. m - 1 \in 0..(m - 1)
      BY <2>1
    <3>2. QED
      BY <2>1, <2>2, <3>1
  <2>4. \A n \in 0..m : n = m \/ n \in 0..(m - 1)
    BY <2>1
  <2>5. f \in [0..m -> Nat]
    BY <2>2, <2>3, <2>4
  <2>6. ASSUME NEW n \in 0..m
        PROVE  f[n] = IF n = 0 THEN c ELSE G[n][f[n - 1]]
    <3>1. CASE n = m
      <4>1. f[n - 1] = g[n - 1] /\ f[n] = G[m][g[m - 1]]
        BY <2>1, <3>1
      <4>2. QED
        BY <2>1, <3>1, <4>1
    <3>2. CASE n \in 0..(m - 1)
      <4>1. n # m /\ (n # 0 => n - 1 \in 0..(m - 1) /\ n - 1 # m)
        <5> HIDE DEF f, S, Solves
        <5>1. m \in Nat /\ n \in Nat /\ n <= m - 1
          BY <2>1, <3>2
        <5>2. n # m
          BY <5>1
        <5>3. ASSUME n # 0
              PROVE  n - 1 \in 0..(m - 1) /\ n - 1 # m
          BY <5>1, <5>3
        <5>4. QED
          BY <5>2, <5>3
      <4>2. f[n] = g[n] /\ (n # 0 => f[n - 1] = g[n - 1])
        BY <2>1, <2>4, <3>2, <4>1
      <4>3. QED
        BY <2>2, <3>2, <4>2
    <3>3. QED
      BY <2>4, <3>1, <3>2
  <2>7. QED
    BY <2>1, <2>5, <2>6
<1>3. N \in S
  <2>1. N \in 0..N
    OBVIOUS
  <2> HIDE DEF S
  <2>2. QED
    BY <1>1, <1>2, <2>1, Upwards
<1>4. PICK f \in [0..N -> Nat] : Solves(f, N)
  BY <1>3
<1>5. f = [n \in 0..N |-> IF n = 0 THEN c ELSE G[n][f[n - 1]]]
  BY <1>4
<1>6. QED
  BY <1>5

(* The weight of a bit is twice that of the one before.                    *)
LEMMA Weights ==
  /\ Weight \in [0..Width -> Nat]
  /\ Weight[0] = 1
  /\ \A n \in 1..Width : Weight[n] = 2 * Weight[n - 1]
<1> DEFINE G == [n \in Nat |-> [v \in Nat |-> 2 * v]]
<1>1. Width \in Nat /\ 1 \in Nat /\ G \in [Nat -> [Nat -> Nat]]
  BY MscAssumption
<1>2. PICK f \in [0..Width -> Nat] : f = [n \in 0..Width |-> IF n = 0 THEN 1 ELSE G[n][f[n - 1]]]
  <2> HIDE DEF G
  <2>1. QED
    BY <1>1, Recursion, ZenonT(60)
<1>3. f = [n \in 0..Width |-> IF n = 0 THEN 1 ELSE 2 * f[n - 1]]
  <2>1. \A n \in 0..Width : n \in Nat /\ (n # 0 => n - 1 \in 0..Width)
    BY <1>1
  <2>2. ASSUME NEW n \in 0..Width
        PROVE  f[n] = IF n = 0 THEN 1 ELSE 2 * f[n - 1]
    <3>1. f[n] = IF n = 0 THEN 1 ELSE G[n][f[n - 1]]
      BY <1>2, Zenon
    <3>2. n # 0 => f[n - 1] \in Nat
      BY <1>2, <2>1
    <3>3. QED
      BY <2>1, <3>1, <3>2
  <2>3. QED
    BY <1>2, <2>2
<1>4. Weight = CHOOSE g : g = [n \in 0..Width |-> IF n = 0 THEN 1 ELSE 2 * g[n - 1]]
  BY DEF Weight
<1>5. Weight = [n \in 0..Width |-> IF n = 0 THEN 1 ELSE 2 * Weight[n - 1]]
  BY <1>3, <1>4, Zenon
<1>6. Weight[0] = 1 /\ \A n \in 1..Width : Weight[n] = 2 * Weight[n - 1]
  BY <1>1, <1>5
<1>7. \A n \in 0..Width : Weight[n] \in Nat
  <2> DEFINE S == {n \in Nat : Weight[n] \in Nat}
  <2>1. 0 \in S
    BY <1>6
  <2>2. \A n \in 1..Width : n - 1 \in S => n \in S
    BY <1>6
  <2>3. \A n \in 0..Width : n \in S
    <3> HIDE DEF S
    <3>1. QED
      BY <1>1, <2>1, <2>2, Upwards
  <2>4. QED
    BY <2>3
<1>8. Weight \in [0..Width -> Nat]
  <2>1. DOMAIN Weight = 0..Width /\ Weight = [n \in DOMAIN Weight |-> Weight[n]]
    BY <1>5
  <2>2. QED
    BY <1>7, <2>1
<1>9. QED
  BY <1>6, <1>8

(* The weight of a bit is an even multiple of that of a bit to its right.  *)
LEMMA WeightRatio ==
  ASSUME NEW b \in 0..Width, NEW n \in 0..Width, b < n
  PROVE  \E k \in Nat : Weight[n] = (2 * k) * Weight[b]
<1> DEFINE S == {i \in Nat : b + 1 + i <= Width =>
                   \E k \in Nat : Weight[b + 1 + i] = (2 * k) * Weight[b]}
<1>1. Width \in Nat /\ b \in Nat /\ n \in Nat /\ Weight[b] \in Nat
  BY MscAssumption, Weights
<1>2. 0 \in S
  <2>1. b + 1 <= Width => Weight[b + 1] = (2 * 1) * Weight[b]
    BY <1>1, Weights
  <2>2. QED
    BY <2>1
<1>3. ASSUME NEW i \in 1..Width, i - 1 \in S
      PROVE  i \in S
  <2>1. CASE b + 1 + i <= Width
    <3>1. b + 1 + (i - 1) = b + i /\ b + 1 + i \in 1..Width /\ (b + 1 + i) - 1 = b + i
      BY <1>1, <2>1
    <3>2. PICK k \in Nat : Weight[b + i] = (2 * k) * Weight[b]
      BY <1>1, <1>3, <2>1, <3>1
    <3>3. Weight[b + 1 + i] = 2 * Weight[b + i]
      BY <3>1, Weights
    <3>4. Weight[b + 1 + i] = (2 * (2 * k)) * Weight[b] /\ 2 * k \in Nat
      BY <1>1, <3>2, <3>3
    <3>5. \E j \in Nat : Weight[b + 1 + i] = (2 * j) * Weight[b]
      BY <3>4, Zenon
    <3>6. i \in Nat
      OBVIOUS
    <3>7. QED
      BY <3>5, <3>6, Zenon
  <2>2. QED
    BY <2>1
<1>4. n - b - 1 \in 0..Width
  BY <1>1
<1>5. n - b - 1 \in S
  <2> HIDE DEF S
  <2>1. QED
    BY <1>1, <1>2, <1>3, <1>4, Upwards
<1>6. b + 1 + (n - b - 1) = n
  BY <1>1
<1>7. QED
  BY <1>1, <1>5, <1>6

LEMMA WeightOrder ==
  /\ \A n \in 0..Width : Weight[n] \in Nat \ {0}
  /\ \A b, n \in 0..Width : b < n => 2 * Weight[b] <= Weight[n]
<1>1. Width \in Nat
  BY MscAssumption
<1>2. \A n \in 0..Width : Weight[n] \in Nat \ {0}
  <2> DEFINE S == {n \in Nat : Weight[n] \in Nat \ {0}}
  <2>1. 0 \in S
    BY Weights
  <2>2. \A n \in 1..Width : n - 1 \in S => n \in S
    BY Weights
  <2>3. \A n \in 0..Width : n \in S
    <3> HIDE DEF S
    <3>1. QED
      BY <1>1, <2>1, <2>2, Upwards
  <2>4. QED
    BY <2>3
<1>3. ASSUME NEW b \in 0..Width, NEW n \in 0..Width, b < n
      PROVE  2 * Weight[b] <= Weight[n]
  <2>1. PICK k \in Nat : Weight[n] = (2 * k) * Weight[b]
    BY <1>3, WeightRatio
  <2>2. Weight[b] \in Nat \ {0} /\ Weight[n] \in Nat \ {0}
    BY <1>2
  <2>3. k # 0
    BY <2>1, <2>2
  <2>4. QED
    BY <2>1, <2>2, <2>3
<1>4. QED
  BY <1>2, <1>3

(* The value of a set of bits is a word, and its bits are that set.        *)
LEMMA WordBits ==
  ASSUME NEW B \in SUBSET (0..(Width - 1))
  PROVE  WordOf(B) \in 0..(Full - 1) /\ Bits(WordOf(B)) = B
<1> DEFINE G == [n \in Nat |-> [v \in Nat |->
                   IF n \in 1..Width /\ n - 1 \in B THEN v + Weight[n - 1] ELSE v]]
           Low(l) == l = [n \in 0..Width |->
                            IF n = 0 THEN 0 ELSE l[n - 1] + (IF n - 1 \in B THEN Weight[n - 1] ELSE 0)]
           low == CHOOSE l : Low(l)
<1>1. Width \in Nat /\ \A n \in 0..Width : Weight[n] \in Nat \ {0}
  BY MscAssumption, WeightOrder
<1>2. \A n \in 1..Width : n \in Nat /\ n - 1 \in 0..Width
  BY <1>1
<1>3. G \in [Nat -> [Nat -> Nat]]
  BY <1>1, <1>2
<1>4. PICK f \in [0..Width -> Nat] : f = [n \in 0..Width |-> IF n = 0 THEN 0 ELSE G[n][f[n - 1]]]
  <2> HIDE DEF G, Low, low
  <2>1. Width \in Nat /\ 0 \in Nat
    BY <1>1
  <2>2. QED
    BY <1>3, <2>1, Recursion, ZenonT(60)
<1>5. Low(f)
  <2>1. ASSUME NEW n \in 0..Width
        PROVE  f[n] = IF n = 0 THEN 0 ELSE f[n - 1] + (IF n - 1 \in B THEN Weight[n - 1] ELSE 0)
    <3>1. f[n] = IF n = 0 THEN 0 ELSE G[n][f[n - 1]]
      BY <1>4, Zenon
    <3>2. n = 0 \/ n \in 1..Width
      BY <1>1
    <3>3. n # 0 => f[n - 1] \in Nat
      BY <1>2, <1>4, <3>2
    <3>4. QED
      BY <1>1, <1>2, <3>1, <3>2, <3>3
  <2>2. QED
    BY <1>4, <2>1
<1>6. Low(low)
  BY <1>5, Zenon
<1>7. WordOf(B) = low[Width]
  BY DEF WordOf
<1>8. low[0] = 0 /\ \A n \in 1..Width : low[n] = low[n - 1] + (IF n - 1 \in B THEN Weight[n - 1] ELSE 0)
  <2> HIDE DEF low
  <2>1. \A n \in 0..Width :
          low[n] = IF n = 0 THEN 0 ELSE low[n - 1] + (IF n - 1 \in B THEN Weight[n - 1] ELSE 0)
    BY <1>6
  <2>2. 0 \in 0..Width /\ \A n \in 1..Width : n \in 0..Width /\ n # 0
    BY <1>1
  <2>3. QED
    BY <2>1, <2>2, Zenon
<1> HIDE DEF low
<1> DEFINE Right(n) == /\ low[n] \in 0..(Weight[n] - 1)
                       /\ \A b \in 0..(n - 1) : (low[n] \div Weight[b]) % 2 = 1 <=> b \in B
           S == {n \in Nat : Right(n)}
<1>9. 0 \in S
  BY <1>8, Weights
<1>10. ASSUME NEW n \in 1..Width, n - 1 \in S
       PROVE  n \in S
  <2> DEFINE w == Weight[n - 1]
             e == IF n - 1 \in B THEN 1 ELSE 0
  <2>1. n \in Nat /\ n - 1 \in 0..Width /\ w \in Nat \ {0} /\ Weight[n] = 2 * w
    BY <1>1, <1>2, Weights
  <2>2. low[n - 1] \in 0..(w - 1) /\ low[n] = low[n - 1] + e * w
    BY <1>8, <1>10, <2>1
  <2>3. low[n] \in 0..(Weight[n] - 1)
    BY <2>1, <2>2
  <2>4. (low[n] \div w) % 2 = 1 <=> n - 1 \in B
    <3>1. e \in Nat /\ low[n] = e * w + low[n - 1]
      BY <2>1, <2>2
    <3>2. low[n] \div w = e
      <4> HIDE DEF e, w, S, Right, G, Low
      <4>1. w \in Nat \ {0} /\ low[n - 1] \in 0..(w - 1)
        BY <2>1, <2>2
      <4>2. QED
        BY <3>1, <4>1, Quotient
    <3>3. e % 2 = 1 <=> n - 1 \in B
      OBVIOUS
    <3>4. QED
      BY <3>2, <3>3
  <2>5. ASSUME NEW b \in 0..(n - 2)
        PROVE  (low[n] \div Weight[b]) % 2 = 1 <=> b \in B
    <3>1. b \in 0..Width /\ b \in 0..(n - 2) /\ b < n - 1 /\ Weight[b] \in Nat \ {0}
      BY <1>1, <2>1
    <3>2. PICK k \in Nat : w = (2 * k) * Weight[b]
      BY <2>1, <3>1, WeightRatio
    <3> DEFINE q == low[n - 1] \div Weight[b]
               r == low[n - 1] % Weight[b]
               j == e * k
    <3>3. q \in Nat /\ r \in 0..(Weight[b] - 1) /\ low[n - 1] = q * Weight[b] + r
      <4>1. low[n - 1] \in Nat
        BY <2>1, <2>2
      <4>2. QED
        BY <3>1, <4>1, Division
    <3>4. j \in Nat /\ e * w = (2 * j) * Weight[b]
      BY <3>1, <3>2
    <3> HIDE DEF q, r, j, e, w
    <3>5. low[n] = (q + 2 * j) * Weight[b] + r
      BY <2>2, <3>1, <3>3, <3>4, SMTT(30)
    <3>6. low[n] \div Weight[b] = q + 2 * j
      <4> HIDE DEF S, Right, G, Low
      <4> DEFINE p == Weight[b]
                 c == q + 2 * j
      <4>1. c \in Nat /\ p \in Nat \ {0} /\ r \in 0..(p - 1) /\ low[n] = c * p + r
        BY <3>1, <3>3, <3>4, <3>5
      <4> HIDE DEF p, c
      <4>2. low[n] \div p = c
        BY <4>1, Quotient
      <4>3. QED
        BY <4>2 DEF p, c
    <3>7. (q + 2 * j) % 2 = q % 2
      BY <3>3, <3>4
    <3>8. q % 2 = 1 <=> b \in B
      BY <1>10, <3>1 DEF q
    <3>9. QED
      BY <3>6, <3>7, <3>8
  <2>6. \A b \in 0..(n - 1) : b = n - 1 \/ b \in 0..(n - 2)
    BY <2>1
  <2>7. QED
    BY <2>1, <2>3, <2>4, <2>5, <2>6
<1>11. Width \in S
  <2> HIDE DEF S
  <2>1. Width \in 0..Width
    BY <1>1
  <2>2. QED
    BY <1>1, <1>9, <1>10, <2>1, Upwards
<1>12. QED
  BY <1>7, <1>11 DEF Full, Bits

(* Words with the same bits are the same.                                  *)
LEMMA SameBits ==
  ASSUME NEW v \in 0..(Full - 1), NEW u \in 0..(Full - 1), Bits(v) = Bits(u)
  PROVE  v = u
<1>1. Width \in Nat /\ \A n \in 0..Width : Weight[n] \in Nat \ {0}
  BY MscAssumption, WeightOrder
<1>2. Full \in Nat \ {0} /\ v \in Nat /\ u \in Nat
  BY <1>1 DEF Full
<1> DEFINE S == {n \in Nat : v % Weight[n] = u % Weight[n]}
<1>3. 0 \in S
  BY <1>2, Weights
<1>4. ASSUME NEW n \in 1..Width, n - 1 \in S
      PROVE  n \in S
  <2> DEFINE p == Weight[n - 1]
  <2>1. n \in Nat /\ n - 1 \in 0..(Width - 1) /\ p \in Nat \ {0} /\ Weight[n] = 2 * p
    BY <1>1, Weights
  <2>2. v % p = u % p
    BY <1>4
  <2>3. (v \div p) % 2 = (u \div p) % 2
    <3>1. (v \div p) % 2 = 1 <=> (u \div p) % 2 = 1
      BY <2>1 DEF Bits
    <3>2. v \div p \in Nat /\ u \div p \in Nat
      BY <1>2, <2>1
    <3>3. QED
      BY <3>1, <3>2
  <2> HIDE DEF p
  <2>4. ASSUME NEW a \in Nat
        PROVE  a % (2 * p) = ((a \div p) % 2) * p + (a % p)
    <3> DEFINE q == a \div p
               r == a % p
               h == q \div 2
               s == q % 2
    <3>1. q \in Nat /\ r \in 0..(p - 1) /\ a = q * p + r
      BY <2>1
    <3>2. h \in Nat /\ s \in 0..1 /\ q = 2 * h + s
      BY <3>1
    <3> HIDE DEF q, r, h, s
    <3>3. a = h * (2 * p) + (s * p + r)
      BY <2>1, <3>1, <3>2
    <3>4. s * p + r \in 0..(2 * p - 1) /\ 2 * p \in Nat \ {0}
      BY <2>1, <3>1, <3>2
    <3>5. a % (2 * p) = s * p + r
      <4> DEFINE d == 2 * p
                 t == s * p + r
      <4>1. d \in Nat \ {0} /\ t \in 0..(d - 1) /\ a = h * d + t
        BY <3>3, <3>4
      <4> HIDE DEF d, t
      <4>2. a % d = t
        BY <3>2, <4>1, Quotient
      <4>3. QED
        BY <4>2 DEF d, t
    <3>6. QED
      BY <3>5 DEF q, r, s
  <2>5. QED
    BY <1>2, <2>1, <2>2, <2>3, <2>4
<1>5. Width \in S
  <2> HIDE DEF S
  <2>1. Width \in 0..Width
    BY <1>1
  <2>2. QED
    BY <1>1, <1>3, <1>4, <2>1, Upwards
<1>6. v % Full = v /\ u % Full = u
  BY <1>2
<1>7. QED
  BY <1>5, <1>6 DEF Full

(* The exclusive or of two words is zero only if they are the same.        *)
LEMMA ExclusiveOr ==
  ASSUME NEW v \in 0..(Full - 1), NEW u \in 0..(Full - 1)
  PROVE  LET x == WordOf((Bits(v) \cup Bits(u)) \ (Bits(v) \cap Bits(u)))
         IN  x \in 0..(Full - 1) /\ (x = 0 <=> v = u)
<1> DEFINE D == (Bits(v) \cup Bits(u)) \ (Bits(v) \cap Bits(u))
<1>1. D \in SUBSET (0..(Width - 1)) /\ {} \in SUBSET (0..(Width - 1))
  BY DEF Bits
<1>2. Bits(0) = {}
  <2>1. \A b \in 0..(Width - 1) : Weight[b] \in Nat \ {0} /\ 0 \div Weight[b] = 0
    BY MscAssumption, WeightOrder
  <2>2. QED
    BY <2>1 DEF Bits
<1>3. 0 \in 0..(Full - 1)
  BY MscAssumption, WeightOrder DEF Full
<1>4. WordOf(D) \in 0..(Full - 1) /\ Bits(WordOf(D)) = D
  BY <1>1, WordBits
<1>5. WordOf(D) = 0 <=> D = {}
  BY <1>2, <1>3, <1>4, SameBits
<1>6. D = {} <=> Bits(v) = Bits(u)
  OBVIOUS
<1>7. Bits(v) = Bits(u) <=> v = u
  BY SameBits
<1>8. QED
  BY <1>4, <1>5, <1>6, <1>7

-----------------------------------------------------------------------------
(* Sizes, and the two fullwords BCE 4 and BCE 5 are started with.          *)
LEMMA Sizes ==
  /\ Width \in Nat /\ Width >= 7
  /\ Half \in Nat \ {0} /\ Full \in Nat \ {0} /\ Half <= Full
  /\ Space \in Nat /\ Space > \h1811
<1>1. Width \in Nat /\ 5 \in 0..(Width - 2)
  BY MscAssumption, CrewAssumption
<1>2. Half \in Nat \ {0} /\ Full \in Nat \ {0}
  BY <1>1, WeightOrder DEF Half, Full
<1>3. Half <= Full
  <2>1. Width \div 2 \in 0..Width /\ Width \in 0..Width /\ Width \div 2 < Width
    BY <1>1
  <2>2. 2 * Half <= Full
    BY <2>1, WeightOrder DEF Half, Full
  <2>3. QED
    BY <1>2, <2>2
<1>4. Space > \h1811
  BY SpaceAssumption, MscAssumption, CrewAssumption DEF TEXT
<1>5. QED
  BY <1>1, <1>2, <1>3, <1>4, SpaceAssumption

LEMMA FullwordParts ==
  ASSUME NEW v \in Nat
  PROVE  v \div Half \in Nat /\ v % Half \in Nat /\ (v \div Half) * Half + (v % Half) = v
<1>1. Half \in Nat \ {0}
  BY Sizes
<1>2. QED
  BY <1>1, Division

Mask(n) == WordOf({BceBit(n)})

LEMMA Masks ==
  /\ \A n \in {4, 5} : Mask(n) \in 0..(Full - 1) /\ Bits(Mask(n)) = {BceBit(n)}
  /\ WordOf({BUSY}) \in 0..(Full - 1) /\ Bits(WordOf({BUSY})) = {BUSY}
<1>1. \A n \in {4, 5} : {BceBit(n)} \in SUBSET (0..(Width - 1))
  BY Sizes DEF BceBit
<1>2. {BUSY} \in SUBSET (0..(Width - 1))
  BY Sizes DEF BUSY
<1>3. QED
  BY <1>1, <1>2, WordBits DEF Mask

(* A fullword of the storage.                                              *)
Fullword(m, a) == m[a] * Half + m[a + 1]

LEMMA Reads ==
  ASSUME NEW m, NEW a \in {\h150, \h152, \h160, \h162, \h164, \h166, \h170}
  PROVE  a % Space = a /\ EvenPart(a) = a /\ ReadF(m, a) = Fullword(m, a)
<1>1. a \in 0..(Space - 1)
  BY Sizes
<1>2. a % Space = a /\ EvenPart(a) = a
  BY <1>1, Sizes DEF EvenPart
<1>3. QED
  BY <1>2 DEF ReadF, Fullword

-----------------------------------------------------------------------------
(***************************************************************************)
(* What a slice of the MSC does at each instruction of its program, on a   *)
(* unit whose processors are without errors.                               *)
(***************************************************************************)
Element == [pc : Nat, base : Nat, busy : BOOLEAN, indicator : BOOLEAN, mto : Nat,
            iuar : {0, DeuIua}, status : {{}}, error : {FALSE}, rx : {NoRx}]

Unit == [pc : Nat, acc : 0..(Full - 1), x : {0}, busy : {TRUE}, errors : {{}},
         indicators : SUBSET Int, fail : {{}}, c6 : {0, C6PGM}, interrupt : {FALSE},
         bces : [BCEs -> Element]]

LEMMA UnitWith ==
  ASSUME NEW u \in Unit, NEW acc \in 0..(Full - 1), NEW pc \in Nat
  PROVE  [u EXCEPT !.acc = acc, !.pc = pc] \in Unit
<1>1. [u EXCEPT !.acc = acc] \in Unit
  BY DEF Unit
<1>2. ASSUME NEW v \in Unit
      PROVE  [v EXCEPT !.pc = pc] \in Unit
  BY DEF Unit
<1>3. [u EXCEPT !.acc = acc, !.pc = pc] = [[u EXCEPT !.acc = acc] EXCEPT !.pc = pc]
  OBVIOUS
<1>4. QED
  BY <1>1, <1>2, <1>3

Reloaded(u, acc, pc) == [u EXCEPT !.acc = acc, !.x = 0, !.pc = pc, !.errors = {}, !.busy = TRUE]
Resumed(u, acc, pc) == [u EXCEPT !.acc = acc, !.pc = pc]
Called(u) == [u EXCEPT !.pc = \h168, !.c6 = 0]
Started(u, n) == [u EXCEPT !.bces[n].busy = TRUE, !.pc = u.pc + 1]

LEMMA UnitReset ==
  ASSUME NEW u \in Unit, NEW acc \in 0..(Full - 1), NEW pc \in Nat
  PROVE  Reloaded(u, acc, pc) = Resumed(u, acc, pc)
<1>1. ASSUME NEW v \in Unit
      PROVE  [v EXCEPT !.x = 0] = v /\ [v EXCEPT !.errors = {}] = v /\ [v EXCEPT !.busy = TRUE] = v
  <2>1. v.x = 0 /\ v.errors = {} /\ v.busy = TRUE
    BY DEF Unit
  <2>2. [v EXCEPT !.x = v.x] = v /\ [v EXCEPT !.errors = v.errors] = v
        /\ [v EXCEPT !.busy = v.busy] = v
    BY DEF Unit
  <2>3. QED
    BY <2>1, <2>2
<1>2. [u EXCEPT !.acc = acc] \in Unit /\ [u EXCEPT !.acc = acc, !.pc = pc] \in Unit
  <2>1. [u EXCEPT !.acc = acc] \in Unit
    BY DEF Unit
  <2>2. QED
    BY <2>1, UnitWith
<1>3. Reloaded(u, acc, pc)
        = [[[[[u EXCEPT !.acc = acc] EXCEPT !.x = 0] EXCEPT !.pc = pc] EXCEPT !.errors = {}]
             EXCEPT !.busy = TRUE]
  BY DEF Reloaded
<1>4. Resumed(u, acc, pc) = [[u EXCEPT !.acc = acc] EXCEPT !.pc = pc]
  BY DEF Resumed
<1>5. QED
  BY <1>1, <1>2, <1>3, <1>4, ZenonT(60)

(* The unit u goes on at pc.                                               *)
At(u, pc) == [u EXCEPT !.pc = pc]

LEMMA Ahead ==
  ASSUME NEW u \in Unit, u.pc \in MscAddresses, NEW n \in 0..20
  PROVE  Forward(u, n) = At(u, u.pc + n)
<1>1. u.pc + n \in 0..(Space - 1)
  BY Sizes DEF MscAddresses
<1>2. (u.pc + n) % Space = u.pc + n
  BY <1>1, Sizes
<1>3. QED
  BY <1>2 DEF Forward, At, Unit

LEMMA MscWaits ==
  ASSUME NEW u \in Unit, NEW m, u.pc \in {\h141, \h149}
  PROVE  step_msc(u, MscCode[u.pc], m) = Only(At(u, u.pc + 1))
<1>1. MscCode[u.pc] = Plain("DLY") /\ u.pc \in MscAddresses
  BY DEF MscCode, MscAddresses
<1>2. Forward(u, 1) = At(u, u.pc + 1)
  BY <1>1, Ahead
<1>3. step_msc(u, Plain("DLY"), m) = Only(Forward(u, 1))
  BY DEF step_msc, Plain, LongFormats
<1>4. QED
  BY <1>1, <1>2, <1>3

(* The words of the save area, as they are stored.                         *)
LEMMA SavedWords ==
  ASSUME NEW stat \in Nat, NEW acc \in Nat, NEW x \in Nat, NEW pc \in Nat
  PROVE  LET s == Saved(C6PGM, stat, acc, x, pc)
         IN  /\ DOMAIN s = C6PGM..(C6PGM + 7) /\ \A a \in DOMAIN s : s[a] \in Nat
             /\ Fullword(s, C6PGM) = stat /\ Fullword(s, C6PGM + 2) = acc
             /\ Fullword(s, C6PGM + 4) = x /\ Fullword(s, C6PGM + 6) = pc
<1> DEFINE area == C6PGM..(C6PGM + 7)
           word(a) == <<stat, acc, x, pc>>[((a - C6PGM) % Space) \div 2 + 1]
           s == Saved(C6PGM, stat, acc, x, pc)
<1>1. \A i \in 0..7 : (C6PGM + i) % Space = C6PGM + i /\ i % Space = i
  BY Sizes DEF C6PGM
<1>2. {(C6PGM + i) % Space : i \in 0..7} = area
  <2>1. \A a \in area : a - C6PGM \in 0..7 /\ a = C6PGM + (a - C6PGM)
    BY DEF C6PGM
  <2>2. \A i \in 0..7 : C6PGM + i \in area
    BY DEF C6PGM
  <2>3. QED
    BY <1>1, <2>1, <2>2
<1>3. s = [a \in area |-> WriteF(a, word(a))[a]]
  BY <1>2 DEF Saved
<1>4. ASSUME NEW a \in {C6PGM, C6PGM + 2, C6PGM + 4, C6PGM + 6}
      PROVE  /\ a \in area /\ a + 1 \in area /\ word(a + 1) = word(a)
             /\ word(a) = CASE a = C6PGM -> stat [] a = C6PGM + 2 -> acc
                            [] a = C6PGM + 4 -> x [] a = C6PGM + 6 -> pc
             /\ EvenPart(a % Space) = a /\ EvenPart((a + 1) % Space) = a
  <2>1. a \in area /\ a + 1 \in area /\ a % Space = a /\ (a + 1) % Space = a + 1
    BY Sizes DEF C6PGM
  <2>2. EvenPart(a) = a /\ EvenPart(a + 1) = a
    BY DEF EvenPart, C6PGM
  <2>3. a - C6PGM \in {0, 2, 4, 6} /\ (a + 1) - C6PGM \in {1, 3, 5, 7}
    BY DEF C6PGM
  <2>4. (a - C6PGM) % Space = a - C6PGM /\ ((a + 1) - C6PGM) % Space = (a + 1) - C6PGM
    BY <1>1, <2>3
  <2>5. ((a + 1) - C6PGM) \div 2 = (a - C6PGM) \div 2
    BY DEF C6PGM
  <2>6. word(a + 1) = word(a)
    BY <2>4, <2>5
  <2>7. word(a) = <<stat, acc, x, pc>>[(a - C6PGM) \div 2 + 1]
    BY <2>4
  <2>8. word(a) = CASE a = C6PGM -> stat [] a = C6PGM + 2 -> acc
                    [] a = C6PGM + 4 -> x [] a = C6PGM + 6 -> pc
    BY <2>7 DEF C6PGM
  <2>9. QED
    BY <2>1, <2>2, <2>6, <2>8
<1>5. ASSUME NEW a \in {C6PGM, C6PGM + 2, C6PGM + 4, C6PGM + 6}
      PROVE  /\ s[a] = word(a) \div Half /\ s[a + 1] = word(a) % Half
             /\ word(a) \in Nat
  <2>1. a + 1 # a /\ a \in area /\ a + 1 \in area
    BY <1>4 DEF C6PGM
  <2>2. s[a] = WriteF(a, word(a))[a] /\ s[a + 1] = WriteF(a + 1, word(a))[a + 1]
    BY <1>3, <1>4, <2>1, ZenonT(60)
  <2>3. word(a) \in Nat
    BY <1>4
  <2> HIDE DEF word, s
  <2>4. QED
    BY <1>4, <2>1, <2>2, <2>3 DEF WriteF
<1>6. ASSUME NEW a \in {C6PGM, C6PGM + 2, C6PGM + 4, C6PGM + 6}
      PROVE  Fullword(s, a) = word(a) /\ s[a] \in Nat /\ s[a + 1] \in Nat
  <2> HIDE DEF word, s
  <2>1. QED
    BY <1>5, FullwordParts DEF Fullword
<1>7. \A a \in area : s[a] \in Nat
  <2>1. \A a \in area : \E e \in {C6PGM, C6PGM + 2, C6PGM + 4, C6PGM + 6} : a = e \/ a = e + 1
    BY DEF C6PGM
  <2> HIDE DEF word, s
  <2>2. QED
    BY <1>6, <2>1
<1>8. DOMAIN s = area
  BY <1>3
<1>9. /\ Fullword(s, C6PGM) = stat /\ Fullword(s, C6PGM + 2) = acc
      /\ Fullword(s, C6PGM + 4) = x /\ Fullword(s, C6PGM + 6) = pc
  <2> HIDE DEF s, word
  <2>1. QED
    BY <1>4, <1>6 DEF C6PGM
<1>10. QED
  BY <1>7, <1>8, <1>9

(* @SEC: on, or into the program at C6PGM.                                 *)
LEMMA MscCalls ==
  ASSUME NEW u \in Unit, NEW m, u.pc = \h140
  PROVE  LET s == step_msc(u, MscCode[u.pc], m)
         IN  /\ u.c6 = 0 => s = Only(At(u, \h141))
             /\ u.c6 = C6PGM =>
                  s = Does(Called(u), Saved(C6PGM, WordOf({BUSY}), u.acc, 0, \h141))
<1> DEFINE ins == [op |-> "SEC", delta |-> 0]
<1>1. MscCode[u.pc] = ins /\ u.pc \in MscAddresses
  BY DEF MscCode, MscAddresses
<1>2. step_msc(u, ins, m) = ExternalCall(u, ins)
  BY DEF step_msc, LongFormats
<1>3. Forward(u, 1) = At(u, \h141)
  BY <1>1, Ahead
<1>4. /\ (C6PGM + 8) % Space = \h168 /\ (\h140 + 1 + 0) % Space = \h141
      /\ EvenPart(C6PGM) = C6PGM
  BY Sizes DEF C6PGM, EvenPart
<1>5. StatusWord(u) = WordOf({BUSY}) /\ u.x = 0 /\ u.errors = {}
  BY ZenonT(60) DEF StatusWord, Unit
<1>6. ASSUME u.c6 = C6PGM
      PROVE  ExternalCall(u, ins) = Does([u EXCEPT !.pc = \h168, !.c6 = 0],
                           Saved(C6PGM, WordOf({BUSY}), u.acc, 0, \h141))
  <2>1. ExternalCall(u, ins) =
          Does([u EXCEPT !.pc = \h168, !.c6 = 0, !.errors = {}],
               Saved(C6PGM, WordOf({BUSY}), u.acc, 0, \h141))
    <3>1. /\ (u.pc + 1 + ins.delta) % Space = \h141 /\ (u.c6 + 8) % Space = \h168
          /\ u.c6 # 0 /\ EvenPart(u.c6) = C6PGM
      BY <1>4, <1>6 DEF C6PGM
    <3>2. QED
      BY <1>5, <3>1, ZenonT(60) DEF ExternalCall
  <2>2. [u EXCEPT !.pc = \h168, !.c6 = 0, !.errors = {}] = [u EXCEPT !.pc = \h168, !.c6 = 0]
    BY <1>5, ZenonT(60) DEF Unit
  <2>3. QED
    BY <2>1, <2>2
<1>7. u.c6 = 0 => ExternalCall(u, ins) = Only(At(u, \h141))
  BY <1>3 DEF ExternalCall
<1>8. QED
  BY <1>1, <1>2, <1>6, <1>7 DEF Called

(* @LH KEYBUF.                                                             *)
LEMMA MscLooks ==
  ASSUME NEW u \in Unit, NEW m, u.pc = \h142, 2 * m[KEYBUF] < Half, m[KEYBUF] \in Nat
  PROVE  step_msc(u, MscCode[u.pc], m) = Only(Resumed(u, m[KEYBUF], \h144))
<1> DEFINE ins == LongForm("LH", KEYBUF)
<1>1. MscCode[u.pc] = ins
  BY DEF MscCode, MscAddresses
<1>2. step_msc(u, ins, m) = Long(u, m, ins)
  BY DEF step_msc, LongFormats, LongForm
<1>3. OperandAddress(u, m, ins) = KEYBUF
  <2>1. KEYBUF \in 0..(Space - 1)
    BY Sizes DEF KEYBUF
  <2>2. (KEYBUF + 0) % Space = KEYBUF
    BY <2>1, Sizes DEF KEYBUF
  <2>3. QED
    BY <2>2 DEF OperandAddress, LongAddress, Index, LongForm
<1>4. Signed(m[KEYBUF], Half) % Full = m[KEYBUF]
  <2>1. Signed(m[KEYBUF], Half) = m[KEYBUF] /\ m[KEYBUF] \in 0..(Full - 1)
    BY Sizes DEF Signed
  <2>2. QED
    BY <2>1, Sizes
<1>5. LoadStore(u, m, ins) = Only([u EXCEPT !.acc = m[KEYBUF]])
  BY <1>3, <1>4 DEF LoadStore, LongForm
<1>6. Long(u, m, ins) = [LoadStore(u, m, ins) EXCEPT !.unit = Forward(@, 2)]
  BY DEF Long, LongForm
<1>7. m[KEYBUF] \in 0..(Full - 1)
  BY Sizes
<1>8. [u EXCEPT !.acc = m[KEYBUF]] \in Unit /\ [u EXCEPT !.acc = m[KEYBUF]].pc = \h142
  BY <1>7 DEF Unit
<1>9. Forward([u EXCEPT !.acc = m[KEYBUF]], 2) = At([u EXCEPT !.acc = m[KEYBUF]], \h144)
  <2> DEFINE v == [u EXCEPT !.acc = m[KEYBUF]]
  <2>1. v \in Unit /\ v.pc = \h142 /\ v.pc \in MscAddresses
    BY <1>8 DEF MscAddresses
  <2> HIDE DEF v
  <2>2. Forward(v, 2) = At(v, v.pc + 2)
    BY <2>1, Ahead
  <2>3. QED
    BY <2>1, <2>2 DEF v
<1>10. Long(u, m, ins) = Only(At([u EXCEPT !.acc = m[KEYBUF]], \h144))
  BY <1>5, <1>6, <1>9 DEF Only, Does
<1>11. At([u EXCEPT !.acc = m[KEYBUF]], \h144) = [u EXCEPT !.acc = m[KEYBUF], !.pc = \h144]
  BY DEF At, Unit
<1>12. QED
  BY <1>1, <1>2, <1>10, <1>11 DEF Resumed

(* @X with the empty marker.                                               *)
LEMMA MscCompares ==
  ASSUME NEW u \in Unit, NEW m, u.pc = \h144, Fullword(m, \h150) = NoKey
  PROVE  \E x \in 0..(Full - 1) :
           /\ x = 0 <=> u.acc = NoKey
           /\ step_msc(u, MscCode[u.pc], m) = Only(Resumed(u, x, \h145))
<1> DEFINE ins == Short("X", 12)
           x == WordOf((Bits(u.acc) \cup Bits(NoKey)) \ (Bits(u.acc) \cap Bits(NoKey)))
<1>1. MscCode[u.pc] = ins /\ u.pc \in MscAddresses
  BY DEF MscCode, MscAddresses
<1>2. ShortEa(u, ins) = \h150
  <2>1. (\h144 + 12 + 0) % Space = \h150
    BY Sizes
  <2>2. QED
    BY <2>1 DEF ShortEa, Short, Index
<1>3. ReadF(m, \h150) = NoKey
  BY Reads
<1>4. NoKey \in 0..(Full - 1) /\ u.acc \in 0..(Full - 1)
  BY CrewAssumption, Sizes DEF Unit
<1>5. x \in 0..(Full - 1) /\ (x = 0 <=> u.acc = NoKey)
  BY <1>4, ExclusiveOr
<1>6. Accumulate(u, ins, NoKey) = [u EXCEPT !.acc = x]
  BY DEF Accumulate, Short, Unit
<1> HIDE DEF x
<1>7. step_msc(u, ins, m) = Only(Forward(Accumulate(u, ins, NoKey), 1))
  BY <1>2, <1>3 DEF step_msc, LongFormats, Short
<1>8. [u EXCEPT !.acc = x] \in Unit /\ [u EXCEPT !.acc = x].pc = \h144
  BY <1>5 DEF Unit
<1>9. Forward([u EXCEPT !.acc = x], 1) = At([u EXCEPT !.acc = x], \h145)
  <2> DEFINE v == [u EXCEPT !.acc = x]
  <2>1. v \in Unit /\ v.pc = \h144 /\ v.pc \in MscAddresses
    BY <1>8 DEF MscAddresses
  <2> HIDE DEF v
  <2>2. Forward(v, 1) = At(v, v.pc + 1)
    BY <2>1, Ahead
  <2>3. QED
    BY <2>1, <2>2 DEF v
<1>10. At([u EXCEPT !.acc = x], \h145) = [u EXCEPT !.acc = x, !.pc = \h145]
  BY DEF At, Unit
<1>11. step_msc(u, MscCode[u.pc], m) = Only(Resumed(u, x, \h145))
  BY <1>1, <1>6, <1>7, <1>9, <1>10 DEF Resumed
<1>12. QED
  BY <1>5, <1>11

(* @BC: on to the restart of BCE 4 if the difference is zero.              *)
LEMMA MscDecides ==
  ASSUME NEW u \in Unit, NEW m, u.pc = \h145
  PROVE  step_msc(u, MscCode[u.pc], m) = Only(At(u, IF u.acc = 0 THEN \h146 ELSE \h149))
<1> DEFINE ins == [op |-> "BC", indexed |-> FALSE, cond |-> {"negative", "positive"}, disp |-> 3]
           sign == SignOf(Signed(u.acc, Full))
<1>1. MscCode[u.pc] = ins /\ u.pc \in MscAddresses
  BY DEF MscCode, MscAddresses
<1>2. sign \in ins.cond <=> u.acc # 0
  <2>1. u.acc \in 0..(Full - 1)
    BY DEF Unit
  <2>2. Signed(u.acc, Full) = 0 <=> u.acc = 0
    BY <2>1, Sizes DEF Signed
  <2>3. Signed(u.acc, Full) \in Int
    BY <2>1, Sizes DEF Signed
  <2>4. sign \in {"zero", "negative", "positive"} /\ (sign = "zero" <=> u.acc = 0)
    BY <2>2, <2>3 DEF SignOf
  <2>5. QED
    BY <2>4
<1> HIDE DEF sign
<1>3. Branch(u, ins) = Forward(u, 1 + (IF sign \in ins.cond THEN 3 ELSE 0))
  BY DEF Branch, sign
<1>4. step_msc(u, ins, m) = Only(Branch(u, ins))
  BY DEF step_msc, LongFormats
<1>5. Branch(u, ins) = Forward(u, IF u.acc = 0 THEN 1 ELSE 4)
  BY <1>2, <1>3
<1>6. Forward(u, 1) = At(u, \h146) /\ Forward(u, 4) = At(u, \h149)
  BY <1>1, Ahead
<1>7. QED
  BY <1>1, <1>4, <1>5, <1>6

(* @LF of the mask of BCE 4 or of BCE 5.                                   *)
LEMMA MscLoads ==
  ASSUME NEW u \in Unit, NEW m, u.pc \in {\h146, \h168},
         Fullword(m, \h152) = Mask(4), Fullword(m, \h170) = Mask(5)
  PROVE  step_msc(u, MscCode[u.pc], m) =
           Only(Resumed(u, Mask(IF u.pc = \h146 THEN 4 ELSE 5), u.pc + 2))
<1> DEFINE a == IF u.pc = \h146 THEN \h152 ELSE \h170
           ins == LongForm("LF", a)
           k == Mask(IF u.pc = \h146 THEN 4 ELSE 5)
           v == [u EXCEPT !.acc = k]
<1>1. MscCode[u.pc] = ins /\ u.pc \in MscAddresses /\ u.pc % 2 = 0
  BY DEF MscCode, MscAddresses
<1>2. a + 0 = a /\ a % Space = a /\ ReadF(m, a) = k
  BY Reads
<1>3. k \in 0..(Full - 1)
  BY Masks
<1>4. v \in Unit /\ v.pc = u.pc
  BY <1>3, ZenonT(60) DEF Unit
<1> HIDE DEF k, a
<1>5. step_msc(u, ins, m) = Long(u, m, ins)
  BY <1>1 DEF step_msc, LongFormats, LongForm
<1>6. OperandAddress(u, m, ins) = a
  BY <1>2 DEF OperandAddress, LongAddress, Index, LongForm
<1>7. LoadStore(u, m, ins) = Only(v)
  BY <1>2, <1>6 DEF LoadStore, LongForm
<1>8. Long(u, m, ins) = [LoadStore(u, m, ins) EXCEPT !.unit = Forward(@, 2)]
  BY DEF Long, LongForm
<1> HIDE DEF v
<1>9. Forward(v, 2) = At(v, u.pc + 2)
  BY <1>1, <1>4, Ahead
<1>10. Long(u, m, ins) = Only(At(v, u.pc + 2))
  BY <1>7, <1>8, <1>9 DEF Only, Does
<1>11. At(v, u.pc + 2) = [u EXCEPT !.acc = k, !.pc = u.pc + 2]
  BY DEF At, Unit, v
<1>12. QED
  BY <1>1, <1>5, <1>10, <1>11 DEF k, Resumed

(* @SIO of a BCE that waits.                                               *)
LEMMA MscStarts ==
  ASSUME NEW u \in Unit, NEW m, u.pc \in {\h148, \h16A}, NEW n \in {4, 5},
         u.acc = Mask(n), ~ u.bces[n].busy
  PROVE  step_msc(u, MscCode[u.pc], m) = Only(Started(u, n))
<1> DEFINE ins == Plain("SIO")
           started == [i \in BCEs |-> IF i = n THEN [u.bces[i] EXCEPT !.busy = TRUE] ELSE u.bces[i]]
           v == [u EXCEPT !.bces = started]
<1>1. MscCode[u.pc] = ins /\ u.pc \in MscAddresses
  BY DEF MscCode, MscAddresses
<1>2. Bits(u.acc) = {BceBit(n)} /\ n \in BCEs
  BY Masks, CrewAssumption
<1>3. \A i \in BCEs : BceBit(i) = BceBit(n) <=> i = n
  BY MscAssumption, Sizes DEF BceBit
<1>4. BceBit(n) \notin busy_wait_register(u) /\ MscBit # BceBit(n)
  <2>1. MscBit # BceBit(n)
    BY Sizes DEF BceBit, MscBit
  <2>2. QED
    BY <1>3, <2>1 DEF busy_wait_register
<1>5. started = [i \in BCEs |-> IF BceBit(i) \in Bits(u.acc) THEN [u.bces[i] EXCEPT !.busy = TRUE]
                                ELSE u.bces[i]]
  BY <1>2, <1>3
<1>6. StartIo(u) = v
  <2> HIDE DEF started
  <2>1. QED
    BY <1>2, <1>4, <1>5 DEF StartIo
<1>7. v = [u EXCEPT !.bces[n].busy = TRUE]
  <2>1. started = [u.bces EXCEPT ![n].busy = TRUE]
    BY <1>2, ZenonT(60) DEF Unit
  <2> HIDE DEF started
  <2>2. QED
    BY <2>1
<1>8. v \in Unit /\ v.pc = u.pc
  <2>1. started \in [BCEs -> Element]
    <3>1. \A i \in BCEs : u.bces[i] \in Element
      BY DEF Unit
    <3>2. ASSUME NEW e \in Element
          PROVE  [e EXCEPT !.busy = TRUE] \in Element
      BY ZenonT(60) DEF Element
    <3>3. QED
      BY <3>1, <3>2
  <2> HIDE DEF started
  <2>2. QED
    BY <2>1, ZenonT(60) DEF Unit
<1>9. step_msc(u, ins, m) = Only(Forward(StartIo(u), 1))
  BY DEF step_msc, LongFormats, Plain, RegisterOp
<1> HIDE DEF v
<1>10. Forward(v, 1) = At(v, u.pc + 1)
  BY <1>1, <1>8, Ahead
<1>11. At(v, u.pc + 1) = [u EXCEPT !.bces[n].busy = TRUE, !.pc = u.pc + 1]
  BY <1>7 DEF At, Unit
<1>12. QED
  BY <1>1, <1>6, <1>9, <1>10, <1>11 DEF Started

(* @BU.                                                                    *)
LEMMA MscLoops ==
  ASSUME NEW u \in Unit, NEW m, u.pc = \h14A
  PROVE  step_msc(u, MscCode[u.pc], m) = Only(At(u, \h140))
<1> DEFINE ins == LongForm("BU", \h140)
<1>1. MscCode[u.pc] = ins
  BY DEF MscCode, MscAddresses
<1>2. (\h140 + 0) % Space = \h140 /\ (Signed(\h140, Space) % Full) % Space = \h140
  <2>1. \h140 \in 0..(Space - 1) /\ Space \in Nat \ {0} /\ Space <= Full /\ 2 * \h140 < Space
    BY Sizes, MscAssumption
  <2>2. Signed(\h140, Space) = \h140
    BY <2>1 DEF Signed
  <2>3. \h140 % Full = \h140 /\ \h140 % Space = \h140
    BY <2>1, Sizes
  <2>4. QED
    BY <2>2, <2>3
<1>3. LongEv(u, m, ins) % Space = \h140
  BY <1>2 DEF LongEv, LongAddress, Index, LongForm
<1>4. step_msc(u, ins, m) = Long(u, m, ins)
  BY DEF step_msc, LongFormats, LongForm
<1>5. Long(u, m, ins) = Only([u EXCEPT !.pc = \h140])
  BY <1>3 DEF Long, LongForm
<1>6. QED
  BY <1>1, <1>4, <1>5 DEF At

(* @REC: back to the main loop.                                            *)
LEMMA MscReturns ==
  ASSUME NEW u \in Unit, NEW m, u.pc = \h16B,
         Fullword(m, C6PGM) = WordOf({BUSY}), Fullword(m, C6PGM + 2) \in 0..(Full - 1),
         Fullword(m, C6PGM + 4) = 0, Fullword(m, C6PGM + 6) = \h141
  PROVE  step_msc(u, MscCode[u.pc], m) =
           Only(Resumed(u, Fullword(m, C6PGM + 2), \h141))
<1> DEFINE ins == Short("REC", -11)
<1>1. MscCode[u.pc] = ins
  BY DEF MscCode, MscAddresses
<1>2. step_msc(u, ins, m) = Only(Reload(u, m, ins))
  BY DEF step_msc, LongFormats, Short
<1>3. EvenPart(ShortEa(u, ins)) = C6PGM
  <2>1. (\h16B + (-11) + 0) % Space = C6PGM
    BY Sizes DEF C6PGM
  <2>2. ShortEa(u, ins) = C6PGM
    BY <2>1 DEF ShortEa, Short, Index
  <2>3. QED
    BY <2>2 DEF EvenPart, C6PGM
<1>4. /\ ReadF(m, C6PGM) = WordOf({BUSY}) /\ ReadF(m, C6PGM + 2) = Fullword(m, C6PGM + 2)
      /\ ReadF(m, C6PGM + 4) = 0 /\ ReadF(m, C6PGM + 6) = \h141
  <2>1. \A a \in {C6PGM, C6PGM + 2, C6PGM + 4, C6PGM + 6} : ReadF(m, a) = Fullword(m, a)
    BY Reads DEF C6PGM
  <2>2. QED
    BY <2>1
<1>5. 0 % Space = 0 /\ \h141 % Space = \h141
  BY Sizes
<1>6. Bits(WordOf({BUSY})) = {BUSY}
  BY Masks
<1>7. (({BUSY} \cap 0..17) \ {BUSY}) = {}
  OBVIOUS
<1>8. Reload(u, m, ins) = [u EXCEPT !.acc = Fullword(m, C6PGM + 2), !.x = 0, !.pc = \h141,
                                    !.errors = {}, !.busy = TRUE]
  <2> DEFINE stat == Bits(ReadF(m, C6PGM))
             busy == BUSY \in stat \/ u.busy
  <2>1. Reload(u, m, ins) = [u EXCEPT !.acc = ReadF(m, C6PGM + 2),
                                      !.x = ReadF(m, C6PGM + 4) % Space,
                                      !.pc = ReadF(m, C6PGM + 6) % Space,
                                      !.errors = (stat \cap 0..17) \ {BUSY},
                                      !.busy = busy]
    BY <1>3 DEF Reload
  <2>2. (stat \cap 0..17) \ {BUSY} = {} /\ busy = TRUE
    BY <1>4, <1>6, <1>7
  <2> HIDE DEF stat, busy
  <2>3. QED
    BY <1>4, <1>5, <2>1, <2>2, ZenonT(60)
<1>9. Reload(u, m, ins) = [u EXCEPT !.acc = Fullword(m, C6PGM + 2), !.pc = \h141]
  <2>1. Reload(u, m, ins) = Reloaded(u, Fullword(m, C6PGM + 2), \h141)
    BY <1>8 DEF Reloaded
  <2>2. Fullword(m, C6PGM + 2) \in 0..(Full - 1) /\ \h141 \in Nat
    OBVIOUS
  <2>3. Reload(u, m, ins) = Resumed(u, Fullword(m, C6PGM + 2), \h141)
    BY <2>1, <2>2, UnitReset
  <2>4. QED
    BY <2>3 DEF Resumed
<1>10. QED
  BY <1>1, <1>2, <1>9 DEF Resumed

-----------------------------------------------------------------------------
(***************************************************************************)
(* What a slice of BCE 4 and of BCE 5 does at each instruction of their    *)
(* programs.                                                               *)
(***************************************************************************)
WithBase(e, v) == [e EXCEPT !.base = v]
WithMto(e, v) == [e EXCEPT !.mto = v]
WithBusy(e, v) == [e EXCEPT !.busy = v]
WithIndicator(e, v) == [e EXCEPT !.indicator = v]

(* Setting one register of a BCE leaves the others alone.                  *)
LEMMA ElementWith ==
  ASSUME NEW e \in Element, NEW v
  PROVE  /\ e.pc \in Nat /\ e.base \in Nat /\ e.busy \in BOOLEAN
         /\ v \in Nat => /\ At(e, v) \in Element /\ WithBase(e, v) \in Element
                        /\ WithMto(e, v) \in Element
         /\ v \in BOOLEAN => WithBusy(e, v) \in Element /\ WithIndicator(e, v) \in Element
         /\ At(e, v).pc = v /\ At(e, v).base = e.base /\ At(e, v).busy = e.busy
         /\ WithBase(e, v).pc = e.pc /\ WithBase(e, v).base = v /\ WithBase(e, v).busy = e.busy
         /\ WithMto(e, v).pc = e.pc /\ WithMto(e, v).base = e.base /\ WithMto(e, v).busy = e.busy
         /\ WithBusy(e, v).pc = e.pc /\ WithBusy(e, v).base = e.base /\ WithBusy(e, v).busy = v
         /\ WithIndicator(e, v).pc = e.pc /\ WithIndicator(e, v).base = e.base
         /\ WithIndicator(e, v).busy = e.busy
<1>1. e.pc \in Nat /\ e.base \in Nat /\ e.busy \in BOOLEAN
  BY DEF Element
<1>2. At(e, v).pc = v /\ At(e, v).base = e.base /\ At(e, v).busy = e.busy
  BY DEF Element, At
<1>3. WithBase(e, v).pc = e.pc /\ WithBase(e, v).base = v /\ WithBase(e, v).busy = e.busy
  BY DEF Element, WithBase
<1>4. WithMto(e, v).pc = e.pc /\ WithMto(e, v).base = e.base /\ WithMto(e, v).busy = e.busy
  BY DEF Element, WithMto
<1>5. WithBusy(e, v).pc = e.pc /\ WithBusy(e, v).base = e.base /\ WithBusy(e, v).busy = v
  BY DEF Element, WithBusy
<1>6. WithIndicator(e, v).pc = e.pc /\ WithIndicator(e, v).base = e.base
      /\ WithIndicator(e, v).busy = e.busy
  BY DEF Element, WithIndicator
<1>7. v \in Nat => At(e, v) \in Element /\ WithBase(e, v) \in Element /\ WithMto(e, v) \in Element
  BY DEF Element, At, WithBase, WithMto
<1>8. v \in BOOLEAN => WithBusy(e, v) \in Element /\ WithIndicator(e, v) \in Element
  BY DEF Element, WithBusy, WithIndicator
<1>9. QED
  BY <1>1, <1>2, <1>3, <1>4, <1>5, <1>6, <1>7, <1>8

LEMMA Onward ==
  ASSUME NEW b \in Element, b.pc <= \h400, NEW n \in 0..20
  PROVE  /\ Advance(b, n) = At(b, b.pc + n) /\ Advance(b, n) \in Element
         /\ Advance(b, n).pc = b.pc + n /\ Advance(b, n).base = b.base
         /\ Advance(b, n).busy = b.busy
<1> DEFINE v == b.pc + n
<1>1. v \in 0..(Space - 1)
  BY Sizes DEF Element
<1>2. v % Space = v
  BY <1>1, Sizes
<1>3. v \in Nat
  BY <1>1
<1>4. Advance(b, n) = At(b, v)
  BY <1>2 DEF Advance, At
<1> HIDE DEF v
<1>5. At(b, v) \in Element
  BY <1>3, ElementWith, ZenonT(60)
<1>6. At(b, v).pc = v /\ At(b, v).base = b.base /\ At(b, v).busy = b.busy
  BY DEF At, Element
<1>7. QED
  BY <1>4, <1>5, <1>6 DEF v

(* A BCE that runs leaves the bus, the storage and the display unit alone. *)
Runs(r, base, pc, busy) ==
  /\ r.bce \in Element /\ r.bce.pc = pc /\ r.bce.base = base /\ r.bce.busy = busy
  /\ r.sent = <<>> /\ r.stored = Nothing /\ r.bit \in {"keep", "set"}

LEMMA RunsResult ==
  ASSUME NEW e \in Element, NEW bit \in {"keep", "set"}, NEW queue
  PROVE  Runs(Result(e, queue, <<>>, Nothing, bit), e.base, e.pc, e.busy)
  BY DEF Runs, Result

LEMMA BceIdle ==
  ASSUME NEW u \in Unit, NEW n \in BCEs, NEW code, NEW m, NEW d, ~ u.bces[n].busy
  PROVE  Runs(BusSlice(u, m, n, code, d), u.bces[n].base, u.bces[n].pc, FALSE)
<1>1. u.bces[n] \in Element
  BY DEF Unit
<1>2. BusSlice(u, m, n, code, d) = Change(u.bces[n], <<>>)
  BY DEF BusSlice
<1>3. u.bces[n].busy = FALSE
  BY <1>1, ElementWith
<1>4. QED
  BY <1>1, <1>2, <1>3, RunsResult DEF Change

(* What BCE n does with an instruction that has nothing to do with the bus.*)
SliceRuns(u, m, n, code, d) ==
  LET b == u.bces[n]
      ins == code[b.pc]
      r == BusSlice(u, m, n, code, d)
  IN  /\ ins.op = "LBR" /\ b.pc % 2 = 0 /\ ins.value \in Nat => Runs(r, ins.value, b.pc + 2, TRUE)
      /\ ins.op = "LTO" /\ ins.value \in Nat => Runs(r, b.base, b.pc + 1, TRUE)
      /\ ins.op = "DLY" => Runs(r, b.base, b.pc + 1, TRUE)
      /\ ins.op = "IB" /\ ins.set = TRUE => Runs(r, b.base, b.pc + 1, TRUE)
      /\ ins.op = "WAT" => Runs(r, b.base, b.pc + 1, FALSE)
      /\ ins.op = "BU" /\ b.pc % 2 = 0 /\ ins.value \in Nat => Runs(r, b.base, ins.value, TRUE)

LEMMA BceRuns ==
  ASSUME NEW u \in Unit, NEW n \in BCEs, NEW code, NEW m, NEW d,
         u.bces[n].busy, u.bces[n].pc <= \h400
  PROVE  SliceRuns(u, m, n, code, d)
<1> DEFINE b == u.bces[n]
           ins == code[b.pc]
<1> DEFINE r == BusSlice(u, m, n, code, d)
           idle == [command |-> <<>>, data |-> <<>>]
<1>1. b \in Element /\ b.rx = NoRx /\ b.busy = TRUE
  BY ZenonT(60) DEF Unit, Element
<1>2. ~ Receiving(b)
  BY <1>1 DEF Receiving, NoRx
<1>3. ins.op \notin {"MIN", "MOUT"} /\ ~ Unaligned(b, ins) =>
        r = Execute(b, ins, <<>>, TRUE, TRUE, m, idle)
  <2>1. ins.op \notin {"MIN", "MOUT"} => r = Slice(b, ins, <<>>, TRUE, TRUE, m, idle)
    BY <1>1 DEF BusSlice
  <2> HIDE DEF r, idle
  <2>2. QED
    BY <1>2, <2>1, ZenonT(60) DEF Slice
<1>13. b.pc <= \h400
  OBVIOUS
<1> HIDE DEF r, idle, ins, b
<1>4. /\ Advance(b, 1) = At(b, b.pc + 1) /\ Advance(b, 1) \in Element
      /\ Advance(b, 2) = At(b, b.pc + 2) /\ Advance(b, 2) \in Element
  BY <1>1, <1>13, Onward
<1> DEFINE c1 == Advance(b, 1)
           c2 == Advance(b, 2)
<1>5. /\ c1 \in Element /\ c1.pc = b.pc + 1 /\ c1.base = b.base /\ c1.busy = TRUE
      /\ c2 \in Element /\ c2.pc = b.pc + 2 /\ c2.busy = TRUE
  BY <1>1, <1>4, <1>13, Onward
<1>6. ASSUME ins.op = "LBR", b.pc % 2 = 0, ins.value \in Nat
      PROVE  Runs(r, ins.value, b.pc + 2, TRUE)
  <2> DEFINE e == WithBase(c2, ins.value)
  <2>1. r = Change(e, <<>>)
    BY <1>3, <1>6 DEF Execute, Unaligned, WithBase
  <2> HIDE DEF c2
  <2>2. e \in Element /\ e.base = ins.value /\ e.pc = b.pc + 2 /\ e.busy = TRUE
    BY <1>5, <1>6, ElementWith, ZenonT(60)
  <2> HIDE DEF e
  <2>3. QED
    BY <2>1, <2>2, RunsResult, ZenonT(60) DEF Change
<1>7. ASSUME ins.op = "LTO", ins.value \in Nat
      PROVE  Runs(r, b.base, b.pc + 1, TRUE)
  <2> DEFINE e == WithMto(c1, ins.value)
  <2>1. r = Change(e, <<>>)
    BY <1>3, <1>7 DEF Execute, Unaligned, LongFormat, WithMto
  <2> HIDE DEF c1
  <2>2. e \in Element /\ e.base = b.base /\ e.pc = b.pc + 1 /\ e.busy = TRUE
    BY <1>5, <1>7, ElementWith, ZenonT(60)
  <2> HIDE DEF e
  <2>3. QED
    BY <2>1, <2>2, RunsResult, ZenonT(60) DEF Change
<1>8. ASSUME ins.op = "DLY"
      PROVE  Runs(r, b.base, b.pc + 1, TRUE)
  <2>1. r = Change(c1, <<>>)
    BY <1>3, <1>8 DEF Execute, Unaligned, LongFormat
  <2> HIDE DEF c1
  <2>2. QED
    BY <1>5, <2>1, RunsResult, ZenonT(60) DEF Change
<1>9. ASSUME ins.op = "IB", ins.set = TRUE
      PROVE  Runs(r, b.base, b.pc + 1, TRUE)
  <2> DEFINE e == WithIndicator(c1, TRUE)
  <2>1. r = SetIndicator(b, ins, <<>>)
    BY <1>3, <1>9 DEF Execute, Unaligned, LongFormat
  <2>2. r = Result(e, <<>>, <<>>, Nothing, "set")
    BY <1>9, <2>1, ZenonT(60) DEF SetIndicator, WithIndicator
  <2> HIDE DEF c1
  <2>3. e \in Element /\ e.base = b.base /\ e.pc = b.pc + 1 /\ e.busy = TRUE
    BY <1>5, ElementWith, ZenonT(60)
  <2> HIDE DEF e
  <2>4. QED
    BY <2>2, <2>3, RunsResult, ZenonT(60)
<1>10. ASSUME ins.op = "WAT"
       PROVE  Runs(r, b.base, b.pc + 1, FALSE)
  <2> DEFINE e == WithBusy(c1, FALSE)
  <2>1. r = Change(e, <<>>)
    BY <1>3, <1>10 DEF Execute, Unaligned, LongFormat, Wait, WithBusy
  <2> HIDE DEF c1
  <2>2. e \in Element
    BY <1>5, ElementWith, ZenonT(60)
  <2>3. \A v : WithBusy(c1, v).base = c1.base /\ WithBusy(c1, v).pc = c1.pc
    BY <1>5, ElementWith
  <2>4. e.base = b.base /\ e.pc = b.pc + 1 /\ e.busy = FALSE
    BY <1>5, <2>3, ElementWith, ZenonT(60)
  <2> HIDE DEF e
  <2>5. QED
    BY <2>1, <2>2, <2>3, <2>4, RunsResult, ZenonT(60) DEF Change
<1>11. ASSUME ins.op = "BU", b.pc % 2 = 0, ins.value \in Nat
       PROVE  Runs(r, b.base, ins.value, TRUE)
  <2> DEFINE e == At(b, ins.value)
  <2>1. r = Change(e, <<>>)
    BY <1>3, <1>11 DEF Execute, Unaligned, At
  <2>2. e \in Element /\ e.base = b.base /\ e.pc = ins.value /\ e.busy = TRUE
    BY <1>1, <1>11, ElementWith, ZenonT(60)
  <2> HIDE DEF e
  <2>3. QED
    BY <2>1, <2>2, RunsResult, ZenonT(60) DEF Change
<1>12. QED
  BY <1>6, <1>7, <1>8, <1>9, <1>10, <1>11, ZenonT(60) DEF SliceRuns, r, ins, b

(* What the instructions of BCE 4 that move no words lead to.             *)
PollerGoes(r, b) ==
  /\ ~ b.busy => Runs(r, b.base, b.pc, FALSE)
  /\ b.busy /\ b.pc = \h200 => Runs(r, KEYBUF, \h202, TRUE)
  /\ b.busy /\ b.pc = \h202 => Runs(r, b.base, \h203, TRUE)
  /\ b.busy /\ b.pc = \h203 => Runs(r, b.base, \h204, TRUE)
  /\ b.busy /\ b.pc = \h208 => Runs(r, b.base, \h209, TRUE)
  /\ b.busy /\ b.pc = \h209 => Runs(r, b.base, \h20A, FALSE)
  /\ b.busy /\ b.pc = \h20A => Runs(r, b.base, \h204, TRUE)

LEMMA PollerRuns ==
  ASSUME NEW u \in Unit, NEW m, NEW d, NEW b, b = u.bces[4]
  PROVE  PollerGoes(BusSlice(u, m, 4, KeyboardCode, d), b)
<1> DEFINE r == BusSlice(u, m, 4, KeyboardCode, d)
<1>1. 4 \in BCEs
  BY CrewAssumption
<1>2. ~ b.busy => Runs(r, b.base, b.pc, FALSE)
  BY <1>1, BceIdle
<1>3. ASSUME b.busy, b.pc = \h200
      PROVE  Runs(r, KEYBUF, \h202, TRUE)
  <2> DEFINE ins == [op |-> "LBR", value |-> KEYBUF]
  <2>1. KeyboardCode[b.pc] = ins /\ b.pc % 2 = 0 /\ b.pc + 2 = \h202
    BY <1>3 DEF KeyboardCode
  <2>2. ins.op = "LBR" /\ ins.value = KEYBUF /\ KEYBUF \in Nat
    BY DEF KEYBUF
  <2> HIDE DEF ins
  <2>3. SliceRuns(u, m, 4, KeyboardCode, d)
    BY <1>1, <1>3, BceRuns
  <2>4. Runs(r, ins.value, b.pc + 2, TRUE)
    BY <2>1, <2>2, <2>3, ZenonT(60) DEF SliceRuns
  <2>5. QED
    BY <2>1, <2>2, <2>4
<1>4. ASSUME b.busy, b.pc = \h202
      PROVE  Runs(r, b.base, \h203, TRUE)
  <2> DEFINE ins == [op |-> "LTO", value |-> 100]
  <2>1. KeyboardCode[b.pc] = ins /\ b.pc + 1 = \h203
    BY <1>4 DEF KeyboardCode
  <2>2. ins.op = "LTO" /\ ins.value \in Nat
    OBVIOUS
  <2> HIDE DEF ins
  <2>3. SliceRuns(u, m, 4, KeyboardCode, d)
    BY <1>1, <1>4, BceRuns
  <2>4. Runs(r, b.base, b.pc + 1, TRUE)
    BY <2>1, <2>2, <2>3, ZenonT(60) DEF SliceRuns
  <2>5. QED
    BY <2>1, <2>2, <2>4, ZenonT(60)
<1>5. ASSUME b.busy, b.pc = \h203
      PROVE  Runs(r, b.base, \h204, TRUE)
  <2> DEFINE ins == Plain("DLY")
  <2>1. KeyboardCode[b.pc] = ins /\ b.pc + 1 = \h204
    BY <1>5 DEF KeyboardCode
  <2>2. ins.op = "DLY"
    BY DEF Plain
  <2> HIDE DEF ins
  <2>3. SliceRuns(u, m, 4, KeyboardCode, d)
    BY <1>1, <1>5, BceRuns
  <2>4. Runs(r, b.base, b.pc + 1, TRUE)
    BY <2>1, <2>2, <2>3, ZenonT(60) DEF SliceRuns
  <2>5. QED
    BY <2>1, <2>2, <2>4, ZenonT(60)
<1>6. ASSUME b.busy, b.pc = \h208
      PROVE  Runs(r, b.base, \h209, TRUE)
  <2> DEFINE ins == [op |-> "IB", set |-> TRUE]
  <2>1. KeyboardCode[b.pc] = ins /\ b.pc + 1 = \h209
    BY <1>6 DEF KeyboardCode
  <2>2. ins.op = "IB" /\ ins.set = TRUE
    OBVIOUS
  <2> HIDE DEF ins
  <2>3. SliceRuns(u, m, 4, KeyboardCode, d)
    BY <1>1, <1>6, BceRuns
  <2>4. Runs(r, b.base, b.pc + 1, TRUE)
    BY <2>1, <2>2, <2>3, ZenonT(60) DEF SliceRuns
  <2>5. QED
    BY <2>1, <2>2, <2>4
<1>7. ASSUME b.busy, b.pc = \h209
      PROVE  Runs(r, b.base, \h20A, FALSE)
  <2> DEFINE ins == Plain("WAT")
  <2>1. KeyboardCode[b.pc] = ins /\ b.pc + 1 = \h20A
    BY <1>7 DEF KeyboardCode
  <2>2. ins.op = "WAT"
    BY DEF Plain
  <2> HIDE DEF ins
  <2>3. SliceRuns(u, m, 4, KeyboardCode, d)
    BY <1>1, <1>7, BceRuns
  <2>4. Runs(r, b.base, b.pc + 1, FALSE)
    BY <2>1, <2>2, <2>3, ZenonT(60) DEF SliceRuns
  <2>5. QED
    BY <2>1, <2>2, <2>4, ZenonT(60)
<1>8. ASSUME b.busy, b.pc = \h20A
      PROVE  Runs(r, b.base, \h204, TRUE)
  <2> DEFINE ins == [op |-> "BU", value |-> \h204]
  <2>1. KeyboardCode[b.pc] = ins /\ b.pc % 2 = 0
    BY <1>8 DEF KeyboardCode
  <2>2. ins.op = "BU" /\ ins.value = \h204 /\ \h204 \in Nat
    OBVIOUS
  <2> HIDE DEF ins
  <2>3. SliceRuns(u, m, 4, KeyboardCode, d)
    BY <1>1, <1>8, BceRuns
  <2>4. Runs(r, b.base, ins.value, TRUE)
    BY <2>1, <2>2, <2>3, ZenonT(60) DEF SliceRuns
  <2>5. QED
    BY <2>1, <2>2, <2>4, ZenonT(60)
<1>9. QED
  BY <1>2, <1>3, <1>4, <1>5, <1>6, <1>7, <1>8, ZenonT(60) DEF PollerGoes

(* BCE 5 runs except for its #MOUT.                                        *)
(* What the instructions of BCE 5 that move no words lead to.             *)
WriterGoes(r, b) ==
  /\ ~ b.busy => Runs(r, b.base, b.pc, FALSE)
  /\ b.busy /\ b.pc = \h1A0 => Runs(r, TEXT, \h1A2, TRUE)
  /\ b.busy /\ b.pc = \h1A6 => Runs(r, b.base, \h1A7, FALSE)
  /\ b.busy /\ b.pc = \h1A7 => Runs(r, b.base, \h1A8, TRUE)
  /\ b.busy /\ b.pc = \h1A8 => Runs(r, b.base, \h1A2, TRUE)

LEMMA WriterRuns ==
  ASSUME NEW u \in Unit, NEW m, NEW d, NEW v, NEW b, b = u.bces[5]
  PROVE  WriterGoes(BusSlice(u, m, 5, DisplayCode(v), d), b)
<1> DEFINE r == BusSlice(u, m, 5, DisplayCode(v), d)
<1>1. 5 \in BCEs
  BY CrewAssumption
<1>2. ~ b.busy => Runs(r, b.base, b.pc, FALSE)
  BY <1>1, BceIdle
<1>3. ASSUME b.busy, b.pc = \h1A0
      PROVE  Runs(r, TEXT, \h1A2, TRUE)
  <2> DEFINE ins == [op |-> "LBR", value |-> TEXT]
  <2>1. DisplayCode(v)[b.pc] = ins /\ b.pc % 2 = 0 /\ b.pc + 2 = \h1A2
    BY <1>3 DEF DisplayCode
  <2>2. ins.op = "LBR" /\ ins.value = TEXT /\ TEXT \in Nat
    BY DEF TEXT
  <2> HIDE DEF ins
  <2>3. SliceRuns(u, m, 5, DisplayCode(v), d)
    BY <1>1, <1>3, BceRuns
  <2>4. Runs(r, ins.value, b.pc + 2, TRUE)
    BY <2>1, <2>2, <2>3, ZenonT(60) DEF SliceRuns
  <2>5. QED
    BY <2>1, <2>2, <2>4
<1>4. ASSUME b.busy, b.pc = \h1A6
      PROVE  Runs(r, b.base, \h1A7, FALSE)
  <2> DEFINE ins == Plain("WAT")
  <2>1. DisplayCode(v)[b.pc] = ins /\ b.pc + 1 = \h1A7
    BY <1>4 DEF DisplayCode
  <2>2. ins.op = "WAT"
    BY DEF Plain
  <2> HIDE DEF ins
  <2>3. SliceRuns(u, m, 5, DisplayCode(v), d)
    BY <1>1, <1>4, BceRuns
  <2>4. Runs(r, b.base, b.pc + 1, FALSE)
    BY <2>1, <2>2, <2>3 DEF SliceRuns
  <2>5. QED
    BY <2>1, <2>2, <2>4
<1>5. ASSUME b.busy, b.pc = \h1A7
      PROVE  Runs(r, b.base, \h1A8, TRUE)
  <2> DEFINE ins == Plain("DLY")
  <2>1. DisplayCode(v)[b.pc] = ins /\ b.pc + 1 = \h1A8
    BY <1>5 DEF DisplayCode
  <2>2. ins.op = "DLY"
    BY DEF Plain
  <2> HIDE DEF ins
  <2>3. SliceRuns(u, m, 5, DisplayCode(v), d)
    BY <1>1, <1>5, BceRuns
  <2>4. Runs(r, b.base, b.pc + 1, TRUE)
    BY <2>1, <2>2, <2>3 DEF SliceRuns
  <2>5. QED
    BY <2>1, <2>2, <2>4
<1>6. ASSUME b.busy, b.pc = \h1A8
      PROVE  Runs(r, b.base, \h1A2, TRUE)
  <2> DEFINE ins == [op |-> "BU", value |-> \h1A2]
  <2>1. DisplayCode(v)[b.pc] = ins /\ b.pc % 2 = 0
    BY <1>6 DEF DisplayCode
  <2>2. ins.op = "BU" /\ ins.value = \h1A2 /\ \h1A2 \in Nat
    OBVIOUS
  <2> HIDE DEF ins
  <2>3. SliceRuns(u, m, 5, DisplayCode(v), d)
    BY <1>1, <1>6, BceRuns
  <2>4. Runs(r, b.base, ins.value, TRUE)
    BY <2>1, <2>2, <2>3 DEF SliceRuns
  <2>5. QED
    BY <2>1, <2>2, <2>4, ZenonT(60)
<1>7. QED
  BY <1>2, <1>3, <1>4, <1>5, <1>6, ZenonT(60) DEF WriterGoes

(* The receive engine with the one word of a poll's answer.                *)
LEMMA PumpsOne ==
  ASSUME NEW b \in Element, b.iuar = DeuIua, b.pc <= \h400, NEW k
  PROVE  receive_data(b, <<DataWord(DeuIua, k)>>, TRUE, TRUE, KEYBUF, 1, 4)
           = Result(At(b, b.pc + 4), <<>>, <<>>, [a \in {KEYBUF} |-> k], "keep")
<1> DEFINE c == [b EXCEPT !.rx = [remaining |-> 1, addr |-> KEYBUF, ilen |-> 4,
                                  timer |-> b.mto, got_any |-> FALSE]]
           w == DataWord(DeuIua, k)
           q == <<w>>
           fits  == {i \in 1..Len(q) : Fits(c, q[i])}
           run   == RunLength(q, 0, fits)
           n     == SmallerOf(c.rx.remaining, run)
           stored == [a \in {(c.rx.addr + i) % Space : i \in 0..(n - 1)} |->
                        q[0 + 1 + ((a - c.rx.addr) % Space)].val]
           used == 0 + n
           done == Result([Advance(c, c.rx.ilen) EXCEPT !.rx = NoRx], SubSeq(q, used + 1, Len(q)),
                          <<>>, stored, "keep")
<1>1. /\ c.rx.remaining = 1 /\ c.rx.addr = KEYBUF /\ c.rx.ilen = 4 /\ c.rx.timer = b.mto
      /\ c.iuar = DeuIua /\ c.pc = b.pc
  BY DEF Element
<1>2. w.cmd_sync = FALSE /\ w.iua = DeuIua /\ w.good = TRUE /\ w.val = k
  BY DEF DataWord
<1>3. Fits(c, w)
  <2> HIDE DEF c, w
  <2>1. QED
    BY <1>1, <1>2 DEF Fits
<1>4. Len(q) = 1 /\ q[1] = w /\ fits = {1}
  <2> HIDE DEF c, w
  <2>1. QED
    BY <1>3
<1>5. run = 1
  <2> HIDE DEF fits, q
  <2>1. /\ RunLength(q, 0, fits) \in 0..(Len(q) - 0)
        /\ 0 + RunLength(q, 0, fits) + 1 \notin fits
    BY <1>4, RunEnds
  <2>2. QED
    BY <1>4, <2>1
<1>6. (KEYBUF + 0) % Space = KEYBUF /\ (KEYBUF - KEYBUF) % Space = 0
  BY Sizes DEF KEYBUF
<1>7. n = 1 /\ used = 1
  <2> HIDE DEF run, c
  <2>1. QED
    BY <1>1, <1>5 DEF SmallerOf
<1>8. receive_pump(c, q, TRUE, TRUE)
        = Result(At(b, b.pc + 4), <<>>, <<>>, [a \in {KEYBUF} |-> k], "keep")
  <2>1. c.rx.remaining - n = 0
    BY <1>1, <1>7
  <2>2. receive_pump(c, q, TRUE, TRUE) = done
    <3> HIDE DEF c, w
    <3>1. QED
      BY <2>1 DEF receive_pump
  <2>3. stored = [a \in {KEYBUF} |-> k]
    <3>1. {(c.rx.addr + i) % Space : i \in 0..(n - 1)} = {KEYBUF}
      <4>1. n - 1 = 0 /\ 0..0 = {0}
        BY <1>7
      <4> HIDE DEF c, n
      <4>2. QED
        BY <1>1, <1>6, <4>1
    <3>2. q[0 + 1 + ((KEYBUF - c.rx.addr) % Space)].val = k
      <4> HIDE DEF w, c
      <4>1. QED
        BY <1>1, <1>2, <1>4, <1>6
    <3> HIDE DEF q, c, n
    <3>3. QED
      BY <3>1, <3>2
  <2>4. SubSeq(q, used + 1, Len(q)) = <<>>
    <3>1. SubSeq(q, 2, 1) = <<>>
      OBVIOUS
    <3> HIDE DEF q, used
    <3>2. QED
      BY <1>4, <1>7, <3>1
  <2>5. [Advance(c, c.rx.ilen) EXCEPT !.rx = NoRx] = At(b, b.pc + 4)
    <3>1. (b.pc + 4) % Space = b.pc + 4
      <4>1. b.pc + 4 \in 0..(Space - 1)
        BY Sizes DEF Element
      <4>2. QED
        BY <4>1, Sizes
    <3>2. b.rx = NoRx
      BY DEF Element
    <3>3. [c EXCEPT !.rx = NoRx] = b
      BY <3>2, ZenonT(60) DEF Element
    <3>4. [Advance(c, 4) EXCEPT !.rx = NoRx] = [[c EXCEPT !.rx = NoRx] EXCEPT !.pc = b.pc + 4]
      BY <1>1, <3>1, ZenonT(60) DEF Advance, Element
    <3>5. QED
      BY <1>1, <3>3, <3>4, ZenonT(60) DEF At
  <2> HIDE DEF stored, used, q, c
  <2>6. QED
    BY <2>2, <2>3, <2>4, <2>5, ZenonT(60)
<1>9. receive_data(b, q, TRUE, TRUE, KEYBUF, 1, 4) = receive_pump(c, q, TRUE, TRUE)
  BY DEF receive_data
<1>10. QED
  BY <1>8, <1>9, ZenonT(60)

-----------------------------------------------------------------------------
(* A display unit after the words of a poll and of a write.                *)
LEMMA WordsObserved ==
  ASSUME NEW d, NEW w
  PROVE  AfterWords(d, <<>>) = d /\ AfterWords(d, <<w>>) = observe(d, w).deu
<1> DEFINE Unrolls(f, words) == f = [i \in 0..Len(words) |->
                                     IF i = 0 THEN d ELSE observe(f[i - 1], words[i]).deu]
           after(words) == CHOOSE f : Unrolls(f, words)
<1>1. \A words : AfterWords(d, words) = after(words)[Len(words)]
  BY DEF AfterWords
<1>2. AfterWords(d, <<>>) = d
  <2> DEFINE f == [i \in 0..0 |-> d]
  <2>1. Len(<<>>) = 0 /\ Unrolls(f, <<>>)
    OBVIOUS
  <2>2. Unrolls(after(<<>>), <<>>)
    BY <2>1, Zenon
  <2>3. after(<<>>)[0] = d
    <3> DEFINE g == after(<<>>)
    <3>1. g = [i \in 0..0 |-> IF i = 0 THEN d ELSE observe(g[i - 1], <<>>[i]).deu]
      BY <2>1, <2>2, Zenon
    <3> HIDE DEF g
    <3>2. g[0] = d
      BY <3>1
    <3>3. QED
      BY <3>2 DEF g
  <2>4. QED
    BY <1>1, <2>1, <2>3, Zenon
<1>3. AfterWords(d, <<w>>) = observe(d, w).deu
  <2> DEFINE q == <<w>>
             f == [i \in 0..1 |-> IF i = 0 THEN d ELSE observe(d, w).deu]
  <2>1. Len(q) = 1 /\ q[1] = w
    OBVIOUS
  <2>2. Unrolls(f, q)
    <3>1. f = [i \in 0..1 |-> IF i = 0 THEN d ELSE observe(f[i - 1], q[i]).deu]
      <4>1. f[0] = d /\ f[1] = observe(d, w).deu
        OBVIOUS
      <4> HIDE DEF q
      <4>2. \A i \in 0..1 : f[i] = IF i = 0 THEN d ELSE observe(f[i - 1], q[i]).deu
        <5> HIDE DEF f
        <5>1. QED
          BY <2>1, <4>1
      <4>3. QED
        BY <4>2
    <3> HIDE DEF q, f
    <3>2. QED
      BY <2>1, <3>1
  <2>3. Unrolls(after(q), q)
    <3> HIDE DEF q, f
    <3>1. QED
      BY <2>2, Zenon
  <2>4. after(q)[1] = observe(d, w).deu
    <3> DEFINE g == after(q)
    <3> HIDE DEF q
    <3>1. g = [i \in 0..1 |-> IF i = 0 THEN d ELSE observe(g[i - 1], q[i]).deu]
      BY <2>1, <2>3, Zenon
    <3> HIDE DEF g
    <3>2. g[0] = d /\ g[1] = observe(g[0], q[1]).deu
      BY <3>1
    <3>3. QED
      BY <2>1, <3>2 DEF g
  <2> HIDE DEF q
  <2>5. AfterWords(d, q) = observe(d, w).deu
    BY <1>1, <2>1, <2>4, Zenon
  <2>6. QED
    BY <2>5 DEF q
<1>4. QED
  BY <1>2, <1>3

LEMMA TwoObserved ==
  ASSUME NEW d, NEW w, NEW x, NEW y, y = <<w, x>>, NEW e, e = observe(d, w).deu
  PROVE  AfterWords(d, y) = observe(e, x).deu
<1> DEFINE Unrolls(f, words) == f = [i \in 0..Len(words) |->
                                     IF i = 0 THEN d ELSE observe(f[i - 1], words[i]).deu]
           after(words) == CHOOSE f : Unrolls(f, words)
<1>1. \A words : AfterWords(d, words) = after(words)[Len(words)]
  BY DEF AfterWords
<1>2. AfterWords(d, y) = observe(observe(d, w).deu, x).deu
  <2> DEFINE q == y
             d1 == observe(d, w).deu
             f == [i \in 0..2 |-> IF i = 0 THEN d ELSE IF i = 1 THEN d1 ELSE observe(d1, x).deu]
  <2>1. Len(q) = 2 /\ q[1] = w /\ q[2] = x
    OBVIOUS
  <2>2. Unrolls(f, q)
    <3>1. f = [i \in 0..2 |-> IF i = 0 THEN d ELSE observe(f[i - 1], q[i]).deu]
      <4>1. f[0] = d /\ f[1] = d1 /\ f[2] = observe(d1, x).deu
        OBVIOUS
      <4> HIDE DEF q
      <4>2. \A i \in 0..2 : f[i] = IF i = 0 THEN d ELSE observe(f[i - 1], q[i]).deu
        <5> HIDE DEF f
        <5>1. QED
          BY <2>1, <4>1
      <4>3. QED
        BY <4>2
    <3> HIDE DEF q, f
    <3>2. QED
      BY <2>1, <3>1
  <2>3. Unrolls(after(q), q)
    <3> HIDE DEF q, f
    <3>1. QED
      BY <2>2, ZenonT(60)
  <2>4. after(q)[2] = observe(d1, x).deu
    <3> DEFINE g == after(q)
    <3> HIDE DEF q
    <3>1. g = [i \in 0..2 |-> IF i = 0 THEN d ELSE observe(g[i - 1], q[i]).deu]
      BY <2>1, <2>3, Zenon
    <3> HIDE DEF g
    <3>2. g[0] = d /\ g[1] = observe(g[0], q[1]).deu /\ g[2] = observe(g[1], q[2]).deu
      BY <3>1
    <3>3. QED
      BY <2>1, <3>2, ZenonT(60) DEF g
  <2> HIDE DEF q, d1
  <2>5. AfterWords(d, q) = observe(d1, x).deu
    BY <1>1, <2>1, <2>4, Zenon
  <2>6. QED
    BY <2>5 DEF q, d1
<1>3. QED
  BY <1>2

Display == [iua : {DeuIua}, keys : Seq(Key), screen : [0..(Cells - 1) -> 0..(Half - 1) \cup {Blank}],
            cursor : 0..(Cells - 1), pending_write : {0}]

Answer(d) == IF d.keys = <<>> THEN NoKey ELSE Head(d.keys)
Answered(d) == [d EXCEPT !.keys = IF d.keys = <<>> THEN <<>> ELSE Tail(d.keys)]

LEMMA KeyPolled ==
  ASSUME NEW d \in Display
  PROVE  /\ observe(d, PollCommand).answer = <<DataWord(DeuIua, Answer(d))>>
         /\ observe(d, PollCommand).deu = Answered(d)
<1> DEFINE n == Len(d.keys)
           m == SmallerOf(1, n)
<1>1. d.iua = DeuIua /\ d.keys \in Seq(Key) /\ n \in Nat
  BY DEF Display
<1>2. observe(d, PollCommand) = PollKeys(d, 1)
  BY <1>1 DEF observe, PollCommand, CommandWord
<1>3. PollKeys(d, 1).answer = <<DataWord(DeuIua, Answer(d))>>
  <2>1. PollKeys(d, 1).answer = [i \in 1..1 |-> DataWord(d.iua, IF i <= n THEN d.keys[i] ELSE NoKey)]
    BY DEF PollKeys, Answers
  <2>2. (IF 1 <= n THEN d.keys[1] ELSE NoKey) = Answer(d)
    BY <1>1 DEF Answer
  <2> DEFINE w == DataWord(DeuIua, Answer(d))
             q == PollKeys(d, 1).answer
  <2>3. q = [i \in 1..1 |-> w]
    <3> HIDE DEF n
    <3>1. \A i \in 1..1 : i = 1
      OBVIOUS
    <3>2. \A i \in 1..1 : DataWord(d.iua, IF i <= n THEN d.keys[i] ELSE NoKey) = w
      BY <1>1, <2>2, <3>1
    <3> HIDE DEF w
    <3>3. QED
      BY <2>1, <3>2
  <2> HIDE DEF w, q
  <2>4. [i \in 1..1 |-> w] = <<w>>
    OBVIOUS
  <2>5. QED
    BY <2>3, <2>4 DEF w, q
<1>4. PollKeys(d, 1).deu = Answered(d)
  <2>1. PollKeys(d, 1).deu = [d EXCEPT !.keys = SubSeq(d.keys, m + 1, n)]
    BY DEF PollKeys, Answers
  <2>2. CASE d.keys = <<>>
    <3>1. m = 0 /\ SubSeq(d.keys, 1, 0) = <<>>
      BY <2>2 DEF SmallerOf
    <3>2. SubSeq(d.keys, m + 1, n) = <<>>
      BY <2>2, <3>1
    <3>3. QED
      BY <2>1, <2>2, <3>2 DEF Answered
  <2>3. CASE d.keys # <<>>
    <3>1. n >= 1
      BY <1>1, <2>3
    <3>2. m = 1
      BY <1>1, <3>1 DEF SmallerOf
    <3>3. SubSeq(d.keys, 2, n) = Tail(d.keys)
      BY <1>1, <2>3
    <3>4. SubSeq(d.keys, m + 1, n) = Tail(d.keys)
      <4> HIDE DEF m, n
      <4>1. m + 1 = 2
        BY <3>2
      <4>2. QED
        BY <3>3, <4>1
    <3> HIDE DEF m, n
    <3>5. QED
      BY <2>1, <2>3, <3>4 DEF Answered
  <2>4. QED
    BY <2>2, <2>3
<1>5. QED
  BY <1>2, <1>3, <1>4

LEMMA ElementAt ==
  ASSUME NEW e \in Element, NEW v \in Nat
  PROVE  At(e, v) \in Element
  BY DEF At, Element

Polls(r, d) ==
  /\ r.bce \in Element /\ r.bce.pc = \h208 /\ r.bce.base = KEYBUF /\ r.bce.busy = TRUE
  /\ r.sent = <<PollCommand>> /\ r.stored = [a \in {KEYBUF} |-> Answer(d)]
  /\ r.bit = "keep"

(* #MIN of BCE 4.                                                          *)
LEMMA PollerPolls ==
  ASSUME NEW u \in Unit, NEW m, NEW d \in Display, NEW b, b = u.bces[4],
         b.busy, b.pc = \h204, b.base = KEYBUF
  PROVE  Polls(BusSlice(u, m, 4, KeyboardCode, d), d)
<1> DEFINE ins == [op |-> "MIN", word |-> PollCommand, disp |-> 0, count |-> 1, ilen |-> 4]
           c == [b EXCEPT !.iuar = DeuIua]
           reply == [command |-> observe(d, PollCommand).answer, data |-> <<>>]
           q == <<DataWord(DeuIua, Answer(d))>>
           r == BusSlice(u, m, 4, KeyboardCode, d)
<1>1. b \in Element /\ b.rx = NoRx /\ b.busy = TRUE
  BY CrewAssumption, ZenonT(60) DEF Unit, Element
<1>2. KeyboardCode[b.pc] = ins
  BY DEF KeyboardCode
<1>3. ~ Receiving(b) /\ ~ Unaligned(b, ins)
  BY <1>1 DEF Receiving, NoRx, Unaligned
<1>4. r = Slice(b, ins, <<>>, TRUE, TRUE, m, reply)
  BY <1>1, <1>2 DEF BusSlice
<1>5. Slice(b, ins, <<>>, TRUE, TRUE, m, reply) = Message(b, ins, <<>>, TRUE, TRUE, m, reply)
  <2> HIDE DEF reply
  <2>1. QED
    BY <1>3 DEF Slice, Execute
<1>6. reply.command = q
  BY KeyPolled
<1>7. <<>> \o q = q
  OBVIOUS
<1>8. EvenPart((b.base + 0) % Space) = KEYBUF
  <2>1. (KEYBUF + 0) % Space = KEYBUF
    BY Sizes DEF KEYBUF
  <2>2. QED
    BY <2>1 DEF EvenPart, KEYBUF
<1>9. c \in Element /\ c.iuar = DeuIua /\ c.pc = \h204 /\ c.base = KEYBUF /\ c.busy = TRUE
  BY <1>1, ZenonT(60) DEF Element
<1>10. Message(b, ins, <<>>, TRUE, TRUE, m, reply)
         = [receive_data(c, q, TRUE, TRUE, KEYBUF, 1, 4) EXCEPT !.sent = <<PollCommand>> \o @]
  <2>1. PollCommand.iua = DeuIua
    BY DEF PollCommand, CommandWord
  <2> HIDE DEF q, reply
  <2>2. QED
    BY <1>6, <1>7, <1>8, <2>1, ZenonT(60) DEF Message
<1>11. receive_data(c, q, TRUE, TRUE, KEYBUF, 1, 4)
         = Result(At(c, \h208), <<>>, <<>>, [a \in {KEYBUF} |-> Answer(d)], "keep")
  <2> HIDE DEF c
  <2>1. c.pc <= \h400 /\ c.pc + 4 = \h208
    BY <1>9
  <2>2. receive_data(c, q, TRUE, TRUE, KEYBUF, 1, 4)
          = Result(At(c, c.pc + 4), <<>>, <<>>, [a \in {KEYBUF} |-> Answer(d)], "keep")
    BY <1>9, <2>1, PumpsOne, ZenonT(60)
  <2>3. QED
    BY <2>1, <2>2, ZenonT(60)
<1>12. <<PollCommand>> \o <<>> = <<PollCommand>>
  OBVIOUS
<1>13. r = Result(At(c, \h208), <<>>, <<PollCommand>>, [a \in {KEYBUF} |-> Answer(d)], "keep")
  <2> DEFINE stored == [a \in {KEYBUF} |-> Answer(d)]
             e == At(c, \h208)
             got == Result(e, <<>>, <<>>, stored, "keep")
             words == <<PollCommand>> \o got.sent
             empty == <<>>
  <2>1. r = [got EXCEPT !.sent = words]
    <3> HIDE DEF r, c, q, reply, stored
    <3>1. QED
      BY <1>4, <1>5, <1>10, <1>11, ZenonT(60) DEF stored
  <2>2. words = <<PollCommand>>
    <3> HIDE DEF stored, e
    <3>1. got.sent = <<>>
      BY DEF Result
    <3> HIDE DEF got
    <3>2. QED
      BY <1>12, <3>1
  <2>3. [got EXCEPT !.sent = words] = Result(e, <<>>, words, stored, "keep")
    <3> HIDE DEF stored, e, words
    <3>1. QED
      BY DEF Result
  <2> HIDE DEF r, got, words
  <2>4. QED
    BY <2>1, <2>2, <2>3
<1>14. At(c, \h208) \in Element /\ At(c, \h208).pc = \h208 /\ At(c, \h208).base = KEYBUF
       /\ At(c, \h208).busy = TRUE
  <2> HIDE DEF c
  <2>1. At(c, \h208) \in Element
    BY <1>9, ElementAt
  <2>2. QED
    BY <1>9, <2>1, ZenonT(60) DEF At, Element
<1> HIDE DEF r, c
<1>15. QED
  BY <1>13, <1>14 DEF Result, Polls, r

(* The display unit after the words of #MOUT: if the number of the command *)
(* is that of a cell, it shows the character there.                        *)
Written(d, v, ch) ==
  IF v \in 0..(CellSpace - 1)
  THEN [d EXCEPT !.screen = [d.screen EXCEPT ![v % Cells] = ch], !.cursor = ((v % Cells) + 1) % Cells]
  ELSE d

LEMMA CellWritten ==
  ASSUME NEW d \in Display, NEW v \in Int, NEW ch
  PROVE  AfterWords(d, <<WriteCommand(v), DataWord(DeuIua, ch)>>) = Written(d, v, ch)
<1> DEFINE w == WriteCommand(v)
           x == DataWord(DeuIua, ch)
           d1 == observe(d, w).deu
<1>1. /\ w.iua = DeuIua /\ w.cmd_sync = TRUE /\ w.val.count = 1 /\ w.val.cell = v % CellSpace
      /\ w.val.op = IF v \div CellSpace = 0 THEN "write" ELSE "unknown"
  BY DEF WriteCommand, CommandWord
<1>2. x.iua = DeuIua /\ x.cmd_sync = FALSE /\ x.val = ch
  BY DEF DataWord
<1>3. d.iua = DeuIua /\ d.pending_write = 0 /\ d.cursor \in 0..(Cells - 1)
  BY DEF Display
<1>4. AfterWords(d, <<w, x>>) = observe(d1, x).deu
  <2> DEFINE y == <<w, x>>
  <2>1. y = <<w, x>>
    OBVIOUS
  <2>2. d1 = observe(d, w).deu
    OBVIOUS
  <2> HIDE DEF w, x, y, d1
  <2>3. AfterWords(d, y) = observe(d1, x).deu
    BY <2>1, <2>2, TwoObserved
  <2>4. QED
    BY <2>3 DEF y
<1>5. CASE v \in 0..(CellSpace - 1)
  <2>1. v \div CellSpace = 0 /\ v % CellSpace = v
    BY <1>5, CrewAssumption
  <2>2. d1 = [d EXCEPT !.cursor = v % Cells, !.pending_write = 1]
    <3> HIDE DEF w
    <3>1. QED
      BY <1>1, <1>3, <2>1 DEF observe, DisplayWrite, Ignored, Answers
  <2>3. d1.iua = DeuIua /\ d1.pending_write = 1 /\ d1.cursor = v % Cells /\ d1.screen = d.screen
    BY <1>3, <2>2 DEF Display
  <2>4. observe(d1, x).deu
          = [d1 EXCEPT !.screen = [d1.screen EXCEPT ![d1.cursor] = x.val],
                       !.cursor = (d1.cursor + 1) % Cells,
                       !.pending_write = d1.pending_write - 1]
    <3> HIDE DEF d1, x
    <3>1. QED
      BY <1>2, <2>3 DEF observe, Paint, Ignored, Answers
  <2>5. observe(d1, x).deu
          = [d1 EXCEPT !.screen = [d.screen EXCEPT ![v % Cells] = ch],
                       !.cursor = ((v % Cells) + 1) % Cells, !.pending_write = 0]
    <3> HIDE DEF d1, x
    <3>1. d1.pending_write - 1 = 0
      BY <2>3
    <3>2. QED
      BY <1>2, <2>3, <2>4, <3>1
  <2>6. observe(d1, x).deu
          = [d EXCEPT !.screen = [d.screen EXCEPT ![v % Cells] = ch],
                      !.cursor = ((v % Cells) + 1) % Cells, !.pending_write = 0]
    <3> HIDE DEF x, w
    <3>1. QED
      BY <2>2, <2>5
  <2>7. observe(d1, x).deu
          = [d EXCEPT !.screen = [d.screen EXCEPT ![v % Cells] = ch],
                      !.cursor = ((v % Cells) + 1) % Cells]
    <3> HIDE DEF d1, x
    <3>1. QED
      BY <1>3, <2>6 DEF Display
  <2>8. QED
    BY <1>4, <1>5, <2>7 DEF Written
<1>6. CASE v \notin 0..(CellSpace - 1)
  <2>1. v \div CellSpace # 0
    BY <1>6, CrewAssumption
  <2>2. d1 = d
    <3> HIDE DEF w
    <3>1. QED
      BY <1>1, <1>3, <2>1 DEF observe, Ignored, Answers
  <2>3. observe(d1, x).deu = d
    <3> HIDE DEF d1, x
    <3>1. QED
      BY <1>2, <1>3, <2>2 DEF observe, Ignored, Answers
  <2>4. QED
    BY <1>4, <1>6, <2>3 DEF Written
<1>7. QED
  BY <1>5, <1>6

Writes(r, m, v) ==
  /\ r.bce \in Element /\ r.bce.pc = \h1A6 /\ r.bce.base = TEXT /\ r.bce.busy = TRUE
  /\ r.sent = <<WriteCommand(v), DataWord(DeuIua, m[TEXT])>> /\ r.stored = Nothing
  /\ r.bit = "keep"

(* #MOUT of BCE 5.                                                         *)
LEMMA WriterWrites ==
  ASSUME NEW u \in Unit, NEW m, NEW v \in Int, NEW d \in Display, NEW b, b = u.bces[5],
         b.busy, b.pc = \h1A2, b.base = TEXT
  PROVE  Writes(BusSlice(u, m, 5, DisplayCode(v), d), m, v)
<1> DEFINE word == WriteCommand(v)
           ins == [op |-> "MOUT", word |-> word, disp |-> 0, count |-> 1, ilen |-> 4]
           c == [b EXCEPT !.iuar = DeuIua]
           reply == [command |-> observe(d, word).answer, data |-> <<>>]
           x == DataWord(DeuIua, m[TEXT])
           words == [i \in 1..1 |-> DataWord(c.iuar, m[(TEXT + i - 1) % Space])]
           r == BusSlice(u, m, 5, DisplayCode(v), d)
<1>1. b \in Element /\ b.rx = NoRx /\ b.busy = TRUE
  BY CrewAssumption, ZenonT(60) DEF Unit, Element
<1>2. DisplayCode(v)[b.pc] = ins
  <2> HIDE DEF word
  <2>1. DisplayCode(v)[b.pc] = [op |-> "MOUT", word |-> WriteCommand(v), disp |-> 0, count |-> 1, ilen |-> 4]
    BY DEF DisplayCode
  <2>2. QED
    BY <2>1 DEF word
<1>3. ~ Receiving(b) /\ ~ Unaligned(b, ins)
  <2> HIDE DEF word
  <2>1. QED
    BY <1>1 DEF Receiving, NoRx, Unaligned
<1>4. r = Slice(b, ins, <<>>, TRUE, TRUE, m, reply)
  <2> HIDE DEF word
  <2>1. QED
    BY <1>1, <1>2 DEF BusSlice
<1>5. Slice(b, ins, <<>>, TRUE, TRUE, m, reply) = Message(b, ins, <<>>, TRUE, TRUE, m, reply)
  <2> HIDE DEF reply, word
  <2>1. QED
    BY <1>3 DEF Slice, Execute
<1>6. reply.command = <<>>
  <2>1. word.iua = DeuIua /\ word.cmd_sync = TRUE /\ word.val.op \in {"write", "unknown"}
    BY DEF WriteCommand, CommandWord
  <2>2. d.iua = DeuIua
    BY DEF Display
  <2> HIDE DEF word
  <2>3. observe(d, word).answer = <<>>
    BY <2>1, <2>2 DEF observe, DisplayWrite, Ignored, Answers
  <2>4. QED
    BY <2>3
<1>7. <<>> \o <<>> = <<>>
  OBVIOUS
<1>8. EvenPart((b.base + 0) % Space) = TEXT /\ (TEXT + 1 - 1) % Space = TEXT
  <2>1. (TEXT + 0) % Space = TEXT /\ (TEXT + 1 - 1) % Space = TEXT
    BY Sizes DEF TEXT
  <2>2. QED
    BY <2>1 DEF EvenPart, TEXT
<1>9. c \in Element /\ c.iuar = DeuIua /\ c.pc = \h1A2 /\ c.base = TEXT /\ c.busy = TRUE
  BY <1>1, ZenonT(60) DEF Element
<1>10. Message(b, ins, <<>>, TRUE, TRUE, m, reply)
         = [transmit_data(c, <<>>, TRUE, m, reply, TEXT, 1, 4) EXCEPT !.sent = <<word>> \o @]
  <2>1. word.iua = DeuIua
    BY DEF WriteCommand, CommandWord
  <2> HIDE DEF reply, word
  <2>2. QED
    BY <1>6, <1>7, <1>8, <2>1, ZenonT(60) DEF Message
<1>11. transmit_data(c, <<>>, TRUE, m, reply, TEXT, 1, 4)
         = Result(At(c, \h1A6), <<>>, words, Nothing, "keep")
  <2>1. Advance(c, 4) = At(c, \h1A6)
    <3> HIDE DEF c
    <3>1. c.pc <= \h400 /\ c.pc + 4 = \h1A6
      BY <1>9
    <3>2. QED
      BY <1>9, <3>1, Onward
  <2>2. reply.data = <<>>
    OBVIOUS
  <2> HIDE DEF c, reply
  <2>3. QED
    BY <1>7, <2>1, <2>2 DEF transmit_data
<1>12. words = <<x>>
  <2>1. \A i \in 1..1 : DataWord(c.iuar, m[(TEXT + i - 1) % Space]) = x
    <3> HIDE DEF c
    <3>1. \A i \in 1..1 : i = 1
      OBVIOUS
    <3>2. QED
      BY <1>8, <1>9, <3>1
  <2> HIDE DEF x, c
  <2>2. words = [i \in 1..1 |-> x]
    BY <2>1
  <2>3. [i \in 1..1 |-> x] = <<x>>
    OBVIOUS
  <2>4. QED
    BY <2>2, <2>3
<1>13. <<word>> \o <<x>> = <<word, x>>
  <2> DEFINE s == <<word>> \o <<x>>
  <2> HIDE DEF word, x
  <2>1. s = <<word, x>>
    <3>1. Len(s) = 2 /\ s \in Seq({word, x}) /\ s[1] = word /\ s[2] = x
      OBVIOUS
    <3> HIDE DEF s
    <3>2. QED
      BY <3>1
  <2>2. QED
    BY <2>1
<1>14. r = Result(At(c, \h1A6), <<>>, <<word, x>>, Nothing, "keep")
  <2> DEFINE e == At(c, \h1A6)
             got == Result(e, <<>>, words, Nothing, "keep")
             all == <<word>> \o got.sent
             both == <<word, x>>
  <2>1. r = [got EXCEPT !.sent = all]
    <3> HIDE DEF r, c, reply, words, word
    <3>1. QED
      BY <1>4, <1>5, <1>10, <1>11, ZenonT(60)
  <2>2. all = both
    <3> HIDE DEF e, words, word, x
    <3>1. got.sent = words
      BY DEF Result
    <3> HIDE DEF got
    <3>2. QED
      BY <1>12, <1>13, <3>1
  <2>3. [got EXCEPT !.sent = all] = Result(e, <<>>, all, Nothing, "keep")
    <3> HIDE DEF e, words, all
    <3>1. QED
      BY DEF Result
  <2> HIDE DEF r, got, all, both
  <2>4. r = Result(e, <<>>, both, Nothing, "keep")
    BY <2>1, <2>2, <2>3
  <2>5. QED
    BY <2>4 DEF both
<1>15. At(c, \h1A6) \in Element /\ At(c, \h1A6).pc = \h1A6 /\ At(c, \h1A6).base = TEXT
       /\ At(c, \h1A6).busy = TRUE
  <2> HIDE DEF c
  <2>1. At(c, \h1A6) \in Element
    BY <1>9, ElementAt
  <2>2. QED
    BY <1>9, <2>1, ZenonT(60) DEF At, Element
<1> HIDE DEF r, c, word, x
<1>16. QED
  BY <1>14, <1>15 DEF Result, Writes, r, word, x

-----------------------------------------------------------------------------
(***************************************************************************)
(* A step of the GPC, processor by processor.                              *)
(***************************************************************************)
SaveArea(m) ==
  /\ Fullword(m, C6PGM) = WordOf({BUSY}) /\ Fullword(m, C6PGM + 2) \in 0..(Full - 1)
  /\ Fullword(m, C6PGM + 4) = 0 /\ Fullword(m, C6PGM + 6) = \h141

Store(m) ==
  /\ m \in [Data -> Nat]
  /\ m[KEYBUF] \in Key \cup {NoKey} /\ m[TEXT] \in 0..(Half - 1)
  /\ Fullword(m, \h150) = NoKey /\ Fullword(m, \h152) = Mask(4) /\ Fullword(m, \h170) = Mask(5)

(* The instructions that start BCE 4 and BCE 5, and their masks.           *)
MscReady(u, m) ==
  /\ u \in Unit /\ u.pc \in MscAddresses /\ Store(m)
  /\ u.pc = \h148 => u.acc = Mask(4) /\ ~ u.bces[4].busy
  /\ u.pc = \h16A => u.acc = Mask(5) /\ ~ u.bces[5].busy
  /\ u.pc = \h16B => SaveArea(m)

Starts(n) == IF n = 4 THEN \h148 ELSE \h16A

(* What a slice of the MSC changes.                                        *)
MscMoves(u, m, s) ==
  /\ s.unit \in Unit
  /\ s.unit.c6 = IF u.pc = \h140 THEN 0 ELSE u.c6
  /\ \A n \in {4, 5} : /\ s.unit.bces[n].pc = u.bces[n].pc /\ s.unit.bces[n].base = u.bces[n].base
                       /\ s.unit.bces[n].busy = (u.bces[n].busy \/ u.pc = Starts(n))
  /\ s.stored = IF u.pc = \h140 /\ u.c6 # 0
                THEN Saved(C6PGM, WordOf({BUSY}), u.acc, 0, \h141) ELSE Nothing
  /\ u.pc = \h140 => s.unit.pc = IF u.c6 = 0 THEN \h141 ELSE \h168
  /\ u.pc = \h141 => s.unit.pc = \h142
  /\ u.pc = \h142 => s.unit.pc = \h144 /\ s.unit.acc = m[KEYBUF]
  /\ u.pc = \h144 => s.unit.pc = \h145 /\ (s.unit.acc = 0 <=> u.acc = NoKey)
  /\ u.pc = \h145 => s.unit.pc = IF u.acc = 0 THEN \h146 ELSE \h149
  /\ u.pc = \h146 => s.unit.pc = \h148 /\ s.unit.acc = Mask(4)
  /\ u.pc = \h148 => s.unit.pc = \h149
  /\ u.pc = \h149 => s.unit.pc = \h14A
  /\ u.pc = \h14A => s.unit.pc = \h140
  /\ u.pc = \h168 => s.unit.pc = \h16A /\ s.unit.acc = Mask(5)
  /\ u.pc = \h16A => s.unit.pc = \h16B
  /\ u.pc = \h16B => s.unit.pc = \h141

LEMMA UnitAt ==
  ASSUME NEW u \in Unit, NEW pc \in Nat
  PROVE  /\ At(u, pc) \in Unit /\ At(u, pc).pc = pc /\ At(u, pc).acc = u.acc
         /\ At(u, pc).c6 = u.c6 /\ At(u, pc).bces = u.bces
  BY DEF At, Unit

(* What the loads do: the accumulator and the program counter are new.    *)
ResumedAt(u, v, acc, pc) ==
  v \in Unit /\ v.pc = pc /\ v.acc = acc /\ v.c6 = u.c6 /\ v.bces = u.bces

LEMMA UnitResumed ==
  ASSUME NEW u \in Unit, NEW acc, acc \in 0..(Full - 1), NEW pc, pc \in Nat,
         NEW v, v = Resumed(u, acc, pc)
  PROVE  ResumedAt(u, v, acc, pc)
<1>1. v \in Unit
  BY UnitWith DEF Resumed
<1>2. QED
  BY <1>1 DEF Resumed, ResumedAt, Unit

(* The instructions that only move the program counter or the accumulator. *)
LEMMA MscResumes ==
  ASSUME NEW u \in Unit, NEW s, NEW v, s = Only(v), v \in Unit, v.c6 = u.c6, v.bces = u.bces
  PROVE  /\ s.unit \in Unit /\ s.unit.c6 = u.c6 /\ s.stored = Nothing
         /\ s.unit.pc = v.pc /\ s.unit.acc = v.acc
         /\ \A n \in {4, 5} : /\ s.unit.bces[n].pc = u.bces[n].pc
                              /\ s.unit.bces[n].base = u.bces[n].base
                              /\ s.unit.bces[n].busy = u.bces[n].busy
<1>1. s.unit = v /\ s.stored = Nothing
  BY DEF Only, Does
<1>2. QED
  BY <1>1

LEMMA BceBusy ==
  ASSUME NEW u \in Unit, NEW n \in {4, 5}
  PROVE  u.bces[n].busy \in BOOLEAN /\ u.bces[n] \in Element
  BY CrewAssumption DEF Unit, Element

LEMMA MscStep ==
  ASSUME NEW u, NEW m, MscReady(u, m)
  PROVE  MscMoves(u, m, step_msc(u, MscCode[u.pc], m))
<1> DEFINE s == step_msc(u, MscCode[u.pc], m)
<1>1. u \in Unit /\ u.pc \in MscAddresses /\ u.acc \in 0..(Full - 1) /\ u.c6 \in {0, C6PGM}
  BY DEF MscReady, Unit
<1>2. \A n \in {4, 5} : u.bces[n].busy \in BOOLEAN
  BY <1>1, BceBusy
<1>3. /\ m[KEYBUF] \in 0..(Full - 1) /\ m[KEYBUF] \in Nat /\ 2 * m[KEYBUF] < Half
      /\ Fullword(m, \h150) = NoKey /\ Fullword(m, \h152) = Mask(4) /\ Fullword(m, \h170) = Mask(5)
      /\ C6PGM # 0
  <2>1. m[KEYBUF] \in Key \cup {NoKey}
    BY DEF MscReady, Store
  <2>2. m[KEYBUF] \in Nat /\ 2 * m[KEYBUF] < Half
    BY <2>1, CrewAssumption
  <2>3. m[KEYBUF] \in 0..(Full - 1)
    BY <2>2, Sizes
  <2>4. QED
    BY <2>2, <2>3 DEF MscReady, Store, C6PGM
<1>4. Mask(4) \in 0..(Full - 1) /\ Mask(5) \in 0..(Full - 1)
  BY Masks
<1>5. Starts(4) = \h148 /\ Starts(5) = \h16A
  BY DEF Starts
<1>6. CASE u.pc = \h140
  <2>1. CASE u.c6 = 0
    <3>1. s = Only(At(u, \h141))
      BY <1>1, <1>6, <2>1, MscCalls
    <3> DEFINE v == At(u, \h141)
    <3>2. v \in Unit /\ v.pc = \h141 /\ v.c6 = u.c6 /\ v.bces = u.bces
      BY <1>1, UnitAt
    <3> HIDE DEF v, s
    <3>3. /\ s.unit \in Unit /\ s.unit.c6 = u.c6 /\ s.stored = Nothing /\ s.unit.pc = v.pc
          /\ \A n \in {4, 5} : /\ s.unit.bces[n].pc = u.bces[n].pc
                               /\ s.unit.bces[n].base = u.bces[n].base
                               /\ s.unit.bces[n].busy = u.bces[n].busy
      BY <1>1, <3>1, <3>2, MscResumes DEF v
    <3>4. QED
      BY <1>2, <1>5, <1>6, <2>1, <3>2, <3>3 DEF MscMoves, s
  <2>2. CASE u.c6 = C6PGM
    <3> DEFINE v == Called(u)
               stored == Saved(C6PGM, WordOf({BUSY}), u.acc, 0, \h141)
    <3>1. s = Does(v, stored)
      BY <1>1, <1>6, <2>2, MscCalls
    <3>2. v \in Unit /\ v.pc = \h168 /\ v.c6 = 0 /\ v.bces = u.bces
      <4> DEFINE w == At(u, \h168)
      <4>1. /\ w \in Unit /\ w.pc = \h168 /\ w.bces = u.bces
        BY <1>1, UnitAt
      <4>2. v = [w EXCEPT !.c6 = 0]
        BY DEF Called, At
      <4> HIDE DEF v, w
      <4>3. QED
        BY <4>1, <4>2, ZenonT(60) DEF Unit
    <3> HIDE DEF v, stored, s
    <3>3. s.unit = v /\ s.stored = stored
      BY <3>1 DEF Does
    <3>4. QED
      BY <1>2, <1>3, <1>5, <1>6, <2>2, <3>2, <3>3 DEF MscMoves, s, stored
  <2>3. QED
    BY <1>1, <2>1, <2>2, SMTT(30)
<1>7. CASE u.pc \in {\h141, \h149}
  <2>1. s = Only(At(u, u.pc + 1)) /\ u.pc + 1 \in Nat
    BY <1>1, <1>7, MscWaits
  <2> DEFINE v == At(u, u.pc + 1)
  <2>2. v \in Unit /\ v.pc = u.pc + 1 /\ v.c6 = u.c6 /\ v.bces = u.bces
    BY <1>1, <2>1, UnitAt
  <2> HIDE DEF v, s
  <2>3. /\ s.unit \in Unit /\ s.unit.c6 = u.c6 /\ s.stored = Nothing /\ s.unit.pc = v.pc
        /\ \A n \in {4, 5} : /\ s.unit.bces[n].pc = u.bces[n].pc
                             /\ s.unit.bces[n].base = u.bces[n].base
                             /\ s.unit.bces[n].busy = u.bces[n].busy
    BY <1>1, <2>1, <2>2, MscResumes, SMTT(30) DEF v
  <2>4. CASE u.pc = \h141
    BY <1>2, <1>5, <2>2, <2>3, <2>4, SMTT(30) DEF MscMoves, s
  <2>5. CASE u.pc = \h149
    BY <1>2, <1>5, <2>2, <2>3, <2>5, SMTT(30) DEF MscMoves, s
  <2>6. QED
    BY <1>7, <2>4, <2>5
<1>8. CASE u.pc = \h142
  <2> DEFINE v == Resumed(u, m[KEYBUF], \h144)
  <2>1. s = Only(v)
    BY <1>1, <1>3, <1>8, MscLooks
  <2>2. v \in Unit /\ v.pc = \h144 /\ v.acc = m[KEYBUF] /\ v.c6 = u.c6 /\ v.bces = u.bces
    <3> DEFINE k == m[KEYBUF]
               pc == \h144
    <3>1. v = Resumed(u, k, pc) /\ k \in 0..(Full - 1) /\ pc \in Nat
      BY <1>3
    <3> HIDE DEF v, k, pc
    <3>2. ResumedAt(u, v, k, pc)
      BY <1>1, <3>1, UnitResumed
    <3>3. QED
      BY <3>2 DEF ResumedAt, k, pc
  <2> HIDE DEF v, s
  <2>3. /\ s.unit \in Unit /\ s.unit.c6 = u.c6 /\ s.stored = Nothing /\ s.unit.pc = v.pc
        /\ s.unit.acc = v.acc
        /\ \A n \in {4, 5} : /\ s.unit.bces[n].pc = u.bces[n].pc
                             /\ s.unit.bces[n].base = u.bces[n].base
                             /\ s.unit.bces[n].busy = u.bces[n].busy
    BY <1>1, <2>1, <2>2, MscResumes
  <2>4. QED
    BY <1>2, <1>5, <1>8, <2>2, <2>3 DEF MscMoves, s
<1>9. CASE u.pc = \h144
  <2>1. PICK x \in 0..(Full - 1) : /\ x = 0 <=> u.acc = NoKey
                                   /\ s = Only(Resumed(u, x, \h145))
    BY <1>1, <1>3, <1>9, MscCompares
  <2> DEFINE v == Resumed(u, x, \h145)
  <2>2. s = Only(v)
    BY <2>1
  <2>3. v \in Unit /\ v.pc = \h145 /\ v.acc = x /\ v.c6 = u.c6 /\ v.bces = u.bces
    <3> DEFINE k == x
               pc == \h145
    <3>1. v = Resumed(u, k, pc) /\ k \in 0..(Full - 1) /\ pc \in Nat
      OBVIOUS
    <3> HIDE DEF v, k, pc
    <3>2. ResumedAt(u, v, k, pc)
      BY <1>1, <3>1, UnitResumed
    <3>3. QED
      BY <3>2 DEF ResumedAt, k, pc
  <2> HIDE DEF v, s
  <2>4. /\ s.unit \in Unit /\ s.unit.c6 = u.c6 /\ s.stored = Nothing /\ s.unit.pc = v.pc
        /\ s.unit.acc = v.acc
        /\ \A n \in {4, 5} : /\ s.unit.bces[n].pc = u.bces[n].pc
                             /\ s.unit.bces[n].base = u.bces[n].base
                             /\ s.unit.bces[n].busy = u.bces[n].busy
    BY <1>1, <2>2, <2>3, MscResumes, SMTT(30)
  <2>5. QED
    BY <1>2, <1>5, <1>9, <2>1, <2>3, <2>4 DEF MscMoves, s
<1>10. CASE u.pc = \h145
  <2> DEFINE pc == IF u.acc = 0 THEN \h146 ELSE \h149
             v == At(u, pc)
  <2>1. s = Only(v) /\ pc \in Nat
    BY <1>1, <1>10, MscDecides
  <2>2. v \in Unit /\ v.pc = pc /\ v.c6 = u.c6 /\ v.bces = u.bces
    <3> HIDE DEF pc
    <3>1. QED
      BY <1>1, <2>1, UnitAt
  <2> HIDE DEF v, s
  <2>3. /\ s.unit \in Unit /\ s.unit.c6 = u.c6 /\ s.stored = Nothing /\ s.unit.pc = v.pc
        /\ \A n \in {4, 5} : /\ s.unit.bces[n].pc = u.bces[n].pc
                             /\ s.unit.bces[n].base = u.bces[n].base
                             /\ s.unit.bces[n].busy = u.bces[n].busy
    BY <1>1, <2>1, <2>2, MscResumes
  <2>4. QED
    BY <1>2, <1>5, <1>10, <2>2, <2>3 DEF MscMoves, s
<1>11. CASE u.pc \in {\h146, \h168}
  <2> DEFINE k == Mask(IF u.pc = \h146 THEN 4 ELSE 5)
             v == Resumed(u, k, u.pc + 2)
  <2>1. s = Only(v)
    BY <1>1, <1>3, <1>11, MscLoads
  <2>2. k \in 0..(Full - 1) /\ u.pc + 2 \in Nat /\ k = IF u.pc = \h146 THEN Mask(4) ELSE Mask(5)
    BY <1>4, <1>11
  <2>3. v \in Unit /\ v.pc = u.pc + 2 /\ v.acc = k /\ v.c6 = u.c6 /\ v.bces = u.bces
    <3> DEFINE pc == u.pc + 2
    <3>1. v = Resumed(u, k, pc) /\ k \in 0..(Full - 1) /\ pc \in Nat
      BY <2>2
    <3> HIDE DEF v, k, pc
    <3>2. ResumedAt(u, v, k, pc)
      BY <1>1, <3>1, UnitResumed
    <3>3. QED
      BY <3>2 DEF ResumedAt, pc
  <2> HIDE DEF v, s, k
  <2>4. /\ s.unit \in Unit /\ s.unit.c6 = u.c6 /\ s.stored = Nothing /\ s.unit.pc = v.pc
        /\ s.unit.acc = v.acc
        /\ \A n \in {4, 5} : /\ s.unit.bces[n].pc = u.bces[n].pc
                             /\ s.unit.bces[n].base = u.bces[n].base
                             /\ s.unit.bces[n].busy = u.bces[n].busy
    BY <1>1, <2>1, <2>3, MscResumes, SMTT(30)
  <2>5. CASE u.pc = \h146
    BY <1>2, <1>5, <2>2, <2>3, <2>4, <2>5, SMTT(30) DEF MscMoves, s
  <2>6. CASE u.pc = \h168
    BY <1>2, <1>5, <2>2, <2>3, <2>4, <2>6 DEF MscMoves, s
  <2>7. QED
    BY <1>11, <2>5, <2>6
<1>12. CASE u.pc \in {\h148, \h16A}
  <2> DEFINE n == IF u.pc = \h148 THEN 4 ELSE 5
  <2>1. n \in {4, 5} /\ n \in BCEs /\ u.acc = Mask(n) /\ ~ u.bces[n].busy /\ u.pc = Starts(n)
    BY <1>5, <1>12, CrewAssumption DEF MscReady
  <2> HIDE DEF n
  <2> DEFINE v == Started(u, n)
  <2>2. s = Only(v)
    BY <1>1, <1>12, <2>1, MscStarts
  <2>3. v \in Unit /\ v.pc = u.pc + 1 /\ v.c6 = u.c6
    <3> DEFINE e == WithBusy(u.bces[n], TRUE)
               t == [u.bces EXCEPT ![n] = e]
    <3>1. e \in Element
      BY <1>1, <2>1, BceBusy, ElementWith
    <3>2. t \in [BCEs -> Element]
      <4> HIDE DEF e
      <4>1. QED
        BY <1>1, <3>1 DEF Unit
    <3>3. v = [u EXCEPT !.bces = t, !.pc = u.pc + 1]
      BY DEF WithBusy, Started
    <3> HIDE DEF v, t
    <3>4. u.pc + 1 \in Nat
      BY <1>12
    <3>5. QED
      BY <1>1, <3>2, <3>3, <3>4 DEF Unit
  <2>4. \A i \in {4, 5} : /\ v.bces[i].pc = u.bces[i].pc /\ v.bces[i].base = u.bces[i].base
                          /\ v.bces[i].busy = (u.bces[i].busy \/ i = n)
    <3>1. v.bces = [u.bces EXCEPT ![n].busy = TRUE] /\ {4, 5} \subseteq BCEs
      BY <1>1, CrewAssumption DEF Unit, Started
    <3>2. ASSUME NEW i \in {4, 5}, i # n
          PROVE  v.bces[i] = u.bces[i]
      <4> HIDE DEF v
      <4>1. QED
        BY <1>1, <3>1, <3>2 DEF Unit
    <3>3. v.bces[n] = WithBusy(u.bces[n], TRUE)
      <4> HIDE DEF v
      <4>1. QED
        BY <1>1, <2>1, <3>1, ZenonT(60) DEF Unit, WithBusy
    <3>4. /\ WithBusy(u.bces[n], TRUE).pc = u.bces[n].pc
          /\ WithBusy(u.bces[n], TRUE).base = u.bces[n].base
          /\ WithBusy(u.bces[n], TRUE).busy = TRUE
      BY <1>1, <2>1, BceBusy, ElementWith, ZenonT(60)
    <3> HIDE DEF v
    <3>5. QED
      BY <1>2, <3>2, <3>3, <3>4, ZenonT(60)
  <2>5. \A i \in {4, 5} : i = n <=> u.pc = Starts(i)
    BY <1>5, <1>12, <2>1
  <2> HIDE DEF v, s
  <2>6. s.unit = v /\ s.stored = Nothing
    BY <2>2 DEF Only, Does
  <2>7. QED
    BY <1>5, <1>12, <2>3, <2>4, <2>5, <2>6 DEF MscMoves, s
<1>13. CASE u.pc = \h14A
  <2> DEFINE v == At(u, \h140)
  <2>1. s = Only(v)
    BY <1>1, <1>13, MscLoops
  <2>2. v \in Unit /\ v.pc = \h140 /\ v.c6 = u.c6 /\ v.bces = u.bces
    BY <1>1, UnitAt
  <2> HIDE DEF v, s
  <2>3. /\ s.unit \in Unit /\ s.unit.c6 = u.c6 /\ s.stored = Nothing /\ s.unit.pc = v.pc
        /\ \A n \in {4, 5} : /\ s.unit.bces[n].pc = u.bces[n].pc
                             /\ s.unit.bces[n].base = u.bces[n].base
                             /\ s.unit.bces[n].busy = u.bces[n].busy
    BY <1>1, <2>1, <2>2, MscResumes
  <2>4. QED
    BY <1>2, <1>5, <1>13, <2>2, <2>3 DEF MscMoves, s
<1>14. CASE u.pc = \h16B
  <2> DEFINE k == Fullword(m, C6PGM + 2)
             v == Resumed(u, k, \h141)
  <2>1. /\ Fullword(m, C6PGM) = WordOf({BUSY}) /\ k \in 0..(Full - 1)
        /\ Fullword(m, C6PGM + 4) = 0 /\ Fullword(m, C6PGM + 6) = \h141
    BY <1>14 DEF MscReady, SaveArea
  <2>2. s = Only(v)
    BY <1>1, <1>14, <2>1, MscReturns
  <2>3. v \in Unit /\ v.pc = \h141 /\ v.c6 = u.c6 /\ v.bces = u.bces
    <3> DEFINE pc == \h141
    <3>1. v = Resumed(u, k, pc) /\ k \in 0..(Full - 1) /\ pc \in Nat
      BY <2>1
    <3> HIDE DEF v, k, pc
    <3>2. ResumedAt(u, v, k, pc)
      BY <1>1, <3>1, UnitResumed
    <3>3. QED
      BY <3>2 DEF ResumedAt, pc
  <2> HIDE DEF v, s
  <2>4. /\ s.unit \in Unit /\ s.unit.c6 = u.c6 /\ s.stored = Nothing /\ s.unit.pc = v.pc
        /\ \A n \in {4, 5} : /\ s.unit.bces[n].pc = u.bces[n].pc
                             /\ s.unit.bces[n].base = u.bces[n].base
                             /\ s.unit.bces[n].busy = u.bces[n].busy
    BY <1>1, <2>2, <2>3, MscResumes
  <2>5. QED
    BY <1>2, <1>5, <1>14, <2>3, <2>4 DEF MscMoves, s
<1>15. QED
  BY <1>1, <1>6, <1>7, <1>8, <1>9, <1>10, <1>11, <1>12, <1>13, <1>14 DEF MscAddresses

-----------------------------------------------------------------------------
(* Storage after the words a processor stored.                             *)
LEMMA StoreWith ==
  ASSUME NEW m, Store(m), NEW n, n \in [Data -> Nat],
         n[KEYBUF] \in Key \cup {NoKey}, n[TEXT] \in 0..(Half - 1),
         \A a \in \h150..\h153 \cup \h170..\h171 : n[a] = m[a]
  PROVE  /\ Store(n)
         /\ (\A a \in C6PGM..(C6PGM + 7) : n[a] = m[a]) /\ SaveArea(m) => SaveArea(n)
<1>1. /\ Fullword(n, \h150) = Fullword(m, \h150) /\ Fullword(n, \h152) = Fullword(m, \h152)
      /\ Fullword(n, \h170) = Fullword(m, \h170)
  BY DEF Fullword
<1>2. Store(n)
  BY <1>1 DEF Store
<1>3. ASSUME \A a \in C6PGM..(C6PGM + 7) : n[a] = m[a], SaveArea(m)
      PROVE  SaveArea(n)
  <2>1. /\ n[C6PGM] = m[C6PGM] /\ n[C6PGM + 1] = m[C6PGM + 1]
        /\ n[C6PGM + 2] = m[C6PGM + 2] /\ n[C6PGM + 2 + 1] = m[C6PGM + 2 + 1]
        /\ n[C6PGM + 4] = m[C6PGM + 4] /\ n[C6PGM + 4 + 1] = m[C6PGM + 4 + 1]
        /\ n[C6PGM + 6] = m[C6PGM + 6] /\ n[C6PGM + 6 + 1] = m[C6PGM + 6 + 1]
    BY <1>3 DEF C6PGM
  <2>2. /\ Fullword(n, C6PGM) = Fullword(m, C6PGM)
        /\ Fullword(n, C6PGM + 2) = Fullword(m, C6PGM + 2)
        /\ Fullword(n, C6PGM + 4) = Fullword(m, C6PGM + 4)
        /\ Fullword(n, C6PGM + 6) = Fullword(m, C6PGM + 6)
    BY <2>1 DEF Fullword
  <2>3. QED
    BY <1>3, <2>2 DEF SaveArea
<1>4. QED
  BY <1>2, <1>3

(* Where KEYBUF, TEXT and the words of the programs are.                   *)
LEMMA Places ==
  /\ KEYBUF \in Data /\ TEXT \in Data /\ KEYBUF # TEXT
  /\ \h150..\h153 \subseteq Data /\ \h170..\h171 \subseteq Data /\ C6PGM..(C6PGM + 7) \subseteq Data
  /\ \A a \in \h150..\h153 \cup \h170..\h171 \cup C6PGM..(C6PGM + 7) : a # KEYBUF /\ a # TEXT
  /\ \A a \in \h150..\h153 \cup \h170..\h171 : a \notin C6PGM..(C6PGM + 7)
  BY DEF Data, KEYBUF, TEXT, C6PGM

(* What a step of a processor leaves of the storage.                       *)
Leaves(m, n, key, text) ==
  /\ Store(n) /\ n[KEYBUF] = key /\ n[TEXT] = text
  /\ SaveArea(m) => SaveArea(n)

LEMMA NothingStored ==
  ASSUME NEW m, Store(m), NEW n, n = AfterStores(m, Nothing)
  PROVE  n = m /\ Leaves(m, n, m[KEYBUF], m[TEXT])
<1>1. m \in [Data -> Nat] /\ DOMAIN m = Data
  BY DEF Store
<1>2. DOMAIN Nothing = {}
  BY DEF Nothing
<1>3. n = [a \in Data |-> m[a]]
  BY <1>1, <1>2 DEF AfterStores
<1>4. n = m
  BY <1>1, <1>3
<1>5. QED
  BY <1>4 DEF Leaves

LEMMA KeyStored ==
  ASSUME NEW m, Store(m), NEW k \in Key \cup {NoKey}, NEW n,
         n = AfterStores(m, [a \in {KEYBUF} |-> k])
  PROVE  Leaves(m, n, k, m[TEXT])
<1>1. m \in [Data -> Nat] /\ DOMAIN m = Data /\ k \in Nat /\ m[TEXT] \in 0..(Half - 1)
  BY CrewAssumption DEF Store
<1>2. n = [a \in Data |-> IF a \in {KEYBUF} THEN k ELSE m[a]]
  BY <1>1 DEF AfterStores
<1>3. n \in [Data -> Nat] /\ n[KEYBUF] = k /\ n[TEXT] = m[TEXT]
  BY <1>1, <1>2, Places
<1>4. /\ \A a \in \h150..\h153 \cup \h170..\h171 : n[a] = m[a]
      /\ \A a \in C6PGM..(C6PGM + 7) : n[a] = m[a]
  BY <1>2, Places
<1>5. QED
  BY <1>1, <1>3, <1>4, StoreWith DEF Leaves

SavedAs(s, stat, acc, x, pc) ==
  /\ DOMAIN s = C6PGM..(C6PGM + 7) /\ \A a \in DOMAIN s : s[a] \in Nat
  /\ Fullword(s, C6PGM) = stat /\ Fullword(s, C6PGM + 2) = acc
  /\ Fullword(s, C6PGM + 4) = x /\ Fullword(s, C6PGM + 6) = pc

LEMMA SavedParts ==
  ASSUME NEW stat, stat \in Nat, NEW acc, acc \in Nat, NEW x, x \in Nat, NEW pc, pc \in Nat,
         NEW s, s = Saved(C6PGM, stat, acc, x, pc)
  PROVE  SavedAs(s, stat, acc, x, pc)
<1>1. \A a, b, c, d \in Nat : SavedAs(Saved(C6PGM, a, b, c, d), a, b, c, d)
  BY SavedWords DEF SavedAs
<1>2. QED
  BY <1>1, Zenon

LEMMA StatusStored ==
  ASSUME NEW m, Store(m), NEW acc, acc \in 0..(Full - 1), NEW n,
         n = AfterStores(m, Saved(C6PGM, WordOf({BUSY}), acc, 0, \h141))
  PROVE  Leaves(m, n, m[KEYBUF], m[TEXT]) /\ SaveArea(n)
<1> DEFINE stat == WordOf({BUSY})
           zero == 0
           back == \h141
           t == Saved(C6PGM, stat, acc, zero, back)
<1>1. stat \in Nat /\ acc \in Nat /\ zero \in Nat /\ back \in Nat
  BY Masks, Sizes
<1> HIDE DEF stat, zero, back
<1>2. SavedAs(t, stat, acc, zero, back)
  BY <1>1, SavedParts
<1>3. n = AfterStores(m, t)
  BY DEF stat, zero, back
<1> HIDE DEF t
<1>4. m \in [Data -> Nat] /\ DOMAIN m = Data /\ m[KEYBUF] \in Key \cup {NoKey}
      /\ m[TEXT] \in 0..(Half - 1)
  BY DEF Store
<1>5. n = [a \in Data |-> IF a \in C6PGM..(C6PGM + 7) THEN t[a] ELSE m[a]]
  BY <1>2, <1>3, <1>4, ZenonT(60) DEF AfterStores, SavedAs
<1>6. n \in [Data -> Nat] /\ n[KEYBUF] = m[KEYBUF] /\ n[TEXT] = m[TEXT]
  <2>1. KEYBUF \notin C6PGM..(C6PGM + 7) /\ TEXT \notin C6PGM..(C6PGM + 7)
    BY DEF KEYBUF, TEXT, C6PGM
  <2>2. n[KEYBUF] = m[KEYBUF] /\ n[TEXT] = m[TEXT]
    BY <1>5, <2>1, Places
  <2>3. \A a \in C6PGM..(C6PGM + 7) : t[a] \in Nat
    BY <1>2 DEF SavedAs
  <2>4. n \in [Data -> Nat]
    BY <1>4, <1>5, <2>3
  <2>5. QED
    BY <2>2, <2>4
<1>7. \A a \in \h150..\h153 \cup \h170..\h171 : n[a] = m[a]
  <2>1. TAKE a \in \h150..\h153 \cup \h170..\h171
  <2>2. a \in Data /\ a \notin C6PGM..(C6PGM + 7)
    BY Places
  <2>3. QED
    BY <1>5, <2>2
<1>8. Store(n)
  BY <1>4, <1>6, <1>7, StoreWith
<1>9. \A a \in C6PGM..(C6PGM + 7) : n[a] = t[a]
  <2>1. TAKE a \in C6PGM..(C6PGM + 7)
  <2>2. a \in Data
    BY DEF Data
  <2>3. QED
    BY <1>5, <2>2
<1>10. /\ n[C6PGM] = t[C6PGM] /\ n[C6PGM + 1] = t[C6PGM + 1]
       /\ n[C6PGM + 2] = t[C6PGM + 2] /\ n[C6PGM + 2 + 1] = t[C6PGM + 2 + 1]
       /\ n[C6PGM + 4] = t[C6PGM + 4] /\ n[C6PGM + 4 + 1] = t[C6PGM + 4 + 1]
       /\ n[C6PGM + 6] = t[C6PGM + 6] /\ n[C6PGM + 6 + 1] = t[C6PGM + 6 + 1]
  BY <1>9 DEF C6PGM
<1>11. SaveArea(n)
  <2>1. /\ Fullword(n, C6PGM) = Fullword(t, C6PGM)
        /\ Fullword(n, C6PGM + 2) = Fullword(t, C6PGM + 2)
        /\ Fullword(n, C6PGM + 4) = Fullword(t, C6PGM + 4)
        /\ Fullword(n, C6PGM + 6) = Fullword(t, C6PGM + 6)
    BY <1>10 DEF Fullword
  <2>2. QED
    BY <1>2, <2>1 DEF SaveArea, SavedAs, stat, zero, back
<1>12. QED
  BY <1>6, <1>8, <1>11 DEF Leaves

(* The CPU's stores: the glyph in TEXT, the empty marker in KEYBUF.        *)
LEMMA CpuStores ==
  ASSUME Store(mem), cpu.at = 5 => cpu.r6 \in 0..(Half - 1),
         NEW key, key = IF cpu.at = 7 THEN NoKey ELSE mem[KEYBUF],
         NEW text, text = IF cpu.at = 5 THEN cpu.r6 ELSE mem[TEXT]
  PROVE  Leaves(mem, MemAfterCpu, key, text)
<1> DEFINE n == MemAfterCpu
<1>1. mem \in [Data -> Nat] /\ mem[KEYBUF] \in Key \cup {NoKey} /\ mem[TEXT] \in 0..(Half - 1)
  BY DEF Store
<1>2. CASE cpu.at = 5
  <2>1. n = [mem EXCEPT ![TEXT] = cpu.r6]
    BY <1>2 DEF MemAfterCpu
  <2>2. cpu.r6 \in Nat /\ cpu.r6 \in 0..(Half - 1)
    BY <1>2, Sizes
  <2> HIDE DEF n
  <2>3. n \in [Data -> Nat] /\ n[KEYBUF] = mem[KEYBUF] /\ n[TEXT] = cpu.r6
    BY <1>1, <2>1, <2>2, Places
  <2>4. /\ \A a \in \h150..\h153 \cup \h170..\h171 : n[a] = mem[a]
        /\ \A a \in C6PGM..(C6PGM + 7) : n[a] = mem[a]
    BY <1>1, <2>1, Places
  <2>5. QED
    BY <1>1, <1>2, <2>2, <2>3, <2>4, StoreWith DEF Leaves, n
<1>3. CASE cpu.at = 7
  <2>1. n = [mem EXCEPT ![KEYBUF] = NoKey]
    BY <1>3 DEF MemAfterCpu
  <2>2. NoKey \in Nat
    BY CrewAssumption
  <2> HIDE DEF n
  <2>3. n \in [Data -> Nat] /\ n[KEYBUF] = NoKey /\ n[TEXT] = mem[TEXT]
    BY <1>1, <2>1, <2>2, Places
  <2>4. /\ \A a \in \h150..\h153 \cup \h170..\h171 : n[a] = mem[a]
        /\ \A a \in C6PGM..(C6PGM + 7) : n[a] = mem[a]
    BY <1>1, <2>1, Places
  <2>5. QED
    BY <1>1, <1>3, <2>3, <2>4, StoreWith DEF Leaves, n
<1>4. CASE cpu.at \notin {5, 7}
  <2>1. n = mem
    BY <1>4 DEF MemAfterCpu
  <2>2. QED
    BY <1>4, <2>1 DEF Leaves, n
<1>5. QED
  BY <1>2, <1>3, <1>4

-----------------------------------------------------------------------------
(* The display units take the words.                                       *)
LEMMA Displays ==
  ASSUME NEW d \in Display
  PROVE  /\ d.keys \in Seq(Key) /\ Answer(d) \in Key \cup {NoKey} /\ Answered(d) \in Display
         /\ Answered(d).keys = IF d.keys = <<>> THEN <<>> ELSE Tail(d.keys)
         /\ Answered(d).screen = d.screen
         /\ d.screen \in [0..(Cells - 1) -> 0..(Half - 1) \cup {Blank}]
         /\ AfterWords(d, <<>>) = d /\ AfterWords(d, <<PollCommand>>) = Answered(d)
<1>1. d.keys \in Seq(Key)
  BY DEF Display
<1>2. Answer(d) \in Key \cup {NoKey}
  BY <1>1 DEF Answer
<1> DEFINE q == IF d.keys = <<>> THEN <<>> ELSE Tail(d.keys)
<1>3. q \in Seq(Key)
  BY <1>1
<1>4. Answered(d) = [d EXCEPT !.keys = q]
  BY DEF Answered
<1> HIDE DEF q
<1>5. Answered(d) \in Display /\ Answered(d).keys = q /\ Answered(d).screen = d.screen
  BY <1>3, <1>4 DEF Display
<1>6. d.screen \in [0..(Cells - 1) -> 0..(Half - 1) \cup {Blank}]
  BY DEF Display
<1>7. AfterWords(d, <<>>) = d /\ AfterWords(d, <<PollCommand>>) = Answered(d)
  BY WordsObserved, KeyPolled
<1>8. QED
  BY <1>1, <1>2, <1>5, <1>6, <1>7 DEF q

LEMMA WrittenDisplay ==
  ASSUME NEW d \in Display, NEW v \in Int, NEW ch \in 0..(Half - 1)
  PROVE  /\ Written(d, v, ch) \in Display /\ Written(d, v, ch).keys = d.keys
         /\ Written(d, v, ch).screen = IF v \in 0..(CellSpace - 1)
                                       THEN [d.screen EXCEPT ![v % Cells] = ch] ELSE d.screen
<1>1. d.screen \in [0..(Cells - 1) -> 0..(Half - 1) \cup {Blank}]
  BY DEF Display
<1>2. CASE v \in 0..(CellSpace - 1)
  <2> DEFINE t == [d.screen EXCEPT ![v % Cells] = ch]
             k == ((v % Cells) + 1) % Cells
  <2>1. v % Cells \in 0..(Cells - 1) /\ k \in 0..(Cells - 1)
    <3>1. Cells \in Nat \ {0}
      BY DeuAssumption
    <3>2. v % Cells \in 0..(Cells - 1)
      BY <3>1
    <3>3. QED
      BY <3>1, <3>2
  <2>2. t \in [0..(Cells - 1) -> 0..(Half - 1) \cup {Blank}]
    BY <1>1, <2>1
  <2>3. Written(d, v, ch) = [d EXCEPT !.screen = t, !.cursor = k]
    BY <1>2 DEF Written
  <2> HIDE DEF t, k
  <2>4. /\ Written(d, v, ch) \in Display /\ Written(d, v, ch).keys = d.keys
        /\ Written(d, v, ch).screen = t
    BY <2>1, <2>2, <2>3 DEF Display
  <2>5. QED
    BY <1>2, <2>4 DEF t
<1>3. CASE v \notin 0..(CellSpace - 1)
  BY <1>3 DEF Written
<1>4. QED
  BY <1>2, <1>3

(* A slice of BCE 4, with storage and keyboard after it.                   *)
PollerAt == {\h200, \h202, \h203, \h204, \h208, \h209, \h20A}

PollerSteps(e, r) ==
  /\ ~ e.busy => r.bce.pc = e.pc /\ r.bce.busy = FALSE
  /\ e.busy /\ e.pc = \h200 => r.bce.pc = \h202 /\ r.bce.busy = TRUE
  /\ e.busy /\ e.pc = \h202 => r.bce.pc = \h203 /\ r.bce.busy = TRUE
  /\ e.busy /\ e.pc = \h203 => r.bce.pc = \h204 /\ r.bce.busy = TRUE
  /\ e.busy /\ e.pc = \h204 => r.bce.pc = \h208 /\ r.bce.busy = TRUE
  /\ e.busy /\ e.pc = \h208 => r.bce.pc = \h209 /\ r.bce.busy = TRUE
  /\ e.busy /\ e.pc = \h209 => r.bce.pc = \h20A /\ r.bce.busy = FALSE
  /\ e.busy /\ e.pc = \h20A => r.bce.pc = \h204 /\ r.bce.busy = TRUE

PollerMoves(e, m, d, r, n, f) ==
  /\ r.bce \in Element /\ r.bit \in {"keep", "set"}
  /\ r.bce.pc = \h200 \/ r.bce.base = KEYBUF
  /\ PollerSteps(e, r)
  /\ e.busy /\ e.pc = \h204 => Leaves(m, n, Answer(d), m[TEXT]) /\ f = Answered(d)
  /\ ~ (e.busy /\ e.pc = \h204) => Leaves(m, n, m[KEYBUF], m[TEXT]) /\ f = d

LEMMA RunsLeave ==
  ASSUME NEW m, Store(m), NEW d \in Display, NEW r, NEW base, NEW pc, NEW busy,
         Runs(r, base, pc, busy)
  PROVE  /\ Leaves(m, AfterStores(m, r.stored), m[KEYBUF], m[TEXT])
         /\ AfterStores(m, r.stored) = m /\ AfterWords(d, r.sent) = d
<1>1. r.stored = Nothing /\ r.sent = <<>>
  BY DEF Runs
<1>2. QED
  BY <1>1, NothingStored, Displays

LEMMA PollerStep ==
  ASSUME NEW u \in Unit, NEW e, e = u.bces[4], e.pc \in PollerAt,
         e.pc = \h200 \/ e.base = KEYBUF, NEW m, Store(m), NEW d \in Display,
         NEW r, r = BusSlice(u, m, 4, KeyboardCode, d)
  PROVE  PollerMoves(e, m, d, r, AfterStores(m, r.stored), AfterWords(d, r.sent))
<1>0. PollerGoes(r, e)
  BY PollerRuns
<1>1. e \in Element /\ e.busy \in BOOLEAN
  BY BceBusy
<1>2. ASSUME NEW base, NEW pc, NEW busy, Runs(r, base, pc, busy)
      PROVE  /\ Leaves(m, AfterStores(m, r.stored), m[KEYBUF], m[TEXT])
             /\ AfterWords(d, r.sent) = d
  BY <1>2, RunsLeave
<1>3. CASE ~ e.busy
  <2>1. Runs(r, e.base, e.pc, FALSE)
    BY <1>0, <1>3 DEF PollerGoes
  <2>2. QED
    BY <1>2, <1>3, <2>1 DEF PollerMoves, PollerSteps, Runs
<1>4. CASE e.busy /\ e.pc = \h200
  <2>1. Runs(r, KEYBUF, \h202, TRUE)
    BY <1>0, <1>4 DEF PollerGoes
  <2>2. QED
    BY <1>2, <1>4, <2>1 DEF PollerMoves, PollerSteps, Runs
<1>5. CASE e.busy /\ e.pc = \h202
  <2>1. Runs(r, e.base, \h203, TRUE)
    BY <1>0, <1>5 DEF PollerGoes
  <2>2. QED
    BY <1>2, <1>5, <2>1 DEF PollerMoves, PollerSteps, Runs
<1>6. CASE e.busy /\ e.pc = \h203
  <2>1. Runs(r, e.base, \h204, TRUE)
    BY <1>0, <1>6 DEF PollerGoes
  <2>2. QED
    BY <1>2, <1>6, <2>1 DEF PollerMoves, PollerSteps, Runs
<1>7. CASE e.busy /\ e.pc = \h208
  <2>1. Runs(r, e.base, \h209, TRUE)
    BY <1>0, <1>7 DEF PollerGoes
  <2>2. QED
    BY <1>2, <1>7, <2>1 DEF PollerMoves, PollerSteps, Runs
<1>8. CASE e.busy /\ e.pc = \h209
  <2>1. Runs(r, e.base, \h20A, FALSE)
    BY <1>0, <1>8 DEF PollerGoes
  <2>2. QED
    BY <1>2, <1>8, <2>1 DEF PollerMoves, PollerSteps, Runs
<1>9. CASE e.busy /\ e.pc = \h20A
  <2>1. Runs(r, e.base, \h204, TRUE)
    BY <1>0, <1>9 DEF PollerGoes
  <2>2. QED
    BY <1>2, <1>9, <2>1 DEF PollerMoves, PollerSteps, Runs
<1>10. CASE e.busy /\ e.pc = \h204
  <2>1. e.base = KEYBUF
    BY <1>10
  <2>2. /\ r.bce \in Element /\ r.bce.pc = \h208 /\ r.bce.base = KEYBUF /\ r.bce.busy = TRUE
        /\ r.sent = <<PollCommand>> /\ r.stored = [a \in {KEYBUF} |-> Answer(d)]
        /\ r.bit = "keep"
    <3>1. Polls(r, d)
      BY <1>10, <2>1, PollerPolls
    <3>2. QED
      BY <3>1 DEF Polls
  <2>3. AfterWords(d, r.sent) = Answered(d) /\ Answer(d) \in Key \cup {NoKey}
    BY <2>2, Displays, ZenonT(60)
  <2>4. Leaves(m, AfterStores(m, r.stored), Answer(d), m[TEXT])
    BY <2>2, <2>3, KeyStored, ZenonT(60)
  <2>5. QED
    BY <1>10, <2>2, <2>3, <2>4 DEF PollerMoves, PollerSteps
<1>11. QED
  BY <1>1, <1>3, <1>4, <1>5, <1>6, <1>7, <1>8, <1>9, <1>10 DEF PollerAt

(* A slice of BCE 5, which stores nothing, with the screen after it.       *)
WriterAt == {\h1A0, \h1A2, \h1A6, \h1A7, \h1A8}

WriterSteps(e, r) ==
  /\ ~ e.busy => r.bce.pc = e.pc /\ r.bce.busy = FALSE
  /\ e.busy /\ e.pc = \h1A0 => r.bce.pc = \h1A2 /\ r.bce.busy = TRUE
  /\ e.busy /\ e.pc = \h1A2 => r.bce.pc = \h1A6 /\ r.bce.busy = TRUE
  /\ e.busy /\ e.pc = \h1A6 => r.bce.pc = \h1A7 /\ r.bce.busy = FALSE
  /\ e.busy /\ e.pc = \h1A7 => r.bce.pc = \h1A8 /\ r.bce.busy = TRUE
  /\ e.busy /\ e.pc = \h1A8 => r.bce.pc = \h1A2 /\ r.bce.busy = TRUE

WriterMoves(e, m, v, d, r, n, f) ==
  /\ r.bce \in Element /\ r.bit \in {"keep", "set"} /\ n = m
  /\ r.bce.pc = \h1A0 \/ r.bce.base = TEXT
  /\ WriterSteps(e, r)
  /\ e.busy /\ e.pc = \h1A2 => f = Written(d, v, m[TEXT])
  /\ ~ (e.busy /\ e.pc = \h1A2) => f = d

LEMMA WriterStep ==
  ASSUME NEW u \in Unit, NEW e, e = u.bces[5], e.pc \in WriterAt,
         e.pc = \h1A0 \/ e.base = TEXT, NEW m, Store(m), NEW d \in Display, NEW v, v \in Int,
         NEW r, r = BusSlice(u, m, 5, DisplayCode(v), d)
  PROVE  WriterMoves(e, m, v, d, r, AfterStores(m, r.stored), AfterWords(d, r.sent))
<1>0. WriterGoes(r, e)
  BY WriterRuns
<1>1. e \in Element /\ e.busy \in BOOLEAN
  BY BceBusy
<1>2. ASSUME NEW base, NEW pc, NEW busy, Runs(r, base, pc, busy)
      PROVE  AfterStores(m, r.stored) = m /\ AfterWords(d, r.sent) = d
  BY <1>2, RunsLeave
<1>3. CASE ~ e.busy
  <2>1. Runs(r, e.base, e.pc, FALSE)
    BY <1>0, <1>3 DEF WriterGoes
  <2>2. QED
    BY <1>2, <1>3, <2>1 DEF WriterMoves, WriterSteps, Runs
<1>4. CASE e.busy /\ e.pc = \h1A0
  <2>1. Runs(r, TEXT, \h1A2, TRUE)
    BY <1>0, <1>4 DEF WriterGoes
  <2>2. QED
    BY <1>2, <1>4, <2>1 DEF WriterMoves, WriterSteps, Runs
<1>5. CASE e.busy /\ e.pc = \h1A6
  <2>1. Runs(r, e.base, \h1A7, FALSE)
    BY <1>0, <1>5 DEF WriterGoes
  <2>2. QED
    BY <1>2, <1>5, <2>1 DEF WriterMoves, WriterSteps, Runs
<1>6. CASE e.busy /\ e.pc = \h1A7
  <2>1. Runs(r, e.base, \h1A8, TRUE)
    BY <1>0, <1>6 DEF WriterGoes
  <2>2. QED
    BY <1>2, <1>6, <2>1 DEF WriterMoves, WriterSteps, Runs
<1>7. CASE e.busy /\ e.pc = \h1A8
  <2>1. Runs(r, e.base, \h1A2, TRUE)
    BY <1>0, <1>7 DEF WriterGoes
  <2>2. QED
    BY <1>2, <1>7, <2>1 DEF WriterMoves, WriterSteps, Runs
<1>8. CASE e.busy /\ e.pc = \h1A2
  <2>1. e.base = TEXT
    BY <1>8
  <2>2. /\ r.bce \in Element /\ r.bce.pc = \h1A6 /\ r.bce.base = TEXT /\ r.bce.busy = TRUE
        /\ r.sent = <<WriteCommand(v), DataWord(DeuIua, m[TEXT])>> /\ r.stored = Nothing
        /\ r.bit = "keep"
    <3>1. Writes(r, m, v)
      BY <1>8, <2>1, WriterWrites
    <3>2. QED
      BY <3>1 DEF Writes
  <2>3. AfterStores(m, r.stored) = m
    BY <2>2, NothingStored
  <2>4. AfterWords(d, r.sent) = Written(d, v, m[TEXT])
    BY <2>2, CellWritten
  <2>5. QED
    BY <1>8, <2>2, <2>3, <2>4 DEF WriterMoves, WriterSteps
<1>9. QED
  BY <1>1, <1>3, <1>4, <1>5, <1>6, <1>7, <1>8 DEF WriterAt

-----------------------------------------------------------------------------
(* The unit after a slice of its BCE n.                                    *)
LEMMA SliceDone ==
  ASSUME NEW u \in Unit, NEW n \in {4, 5}, NEW r, r.bce \in Element, r.bit \in {"keep", "set"},
         NEW v, v = AfterSlice(u, n, r)
  PROVE  /\ v \in Unit /\ v.pc = u.pc /\ v.acc = u.acc /\ v.c6 = u.c6
         /\ v.bces[n] = r.bce /\ \A i \in {4, 5} : i # n => v.bces[i] = u.bces[i]
<1> DEFINE t == [u.bces EXCEPT ![n] = r.bce]
           bits == IF r.bit = "set" THEN u.indicators \cup {BceBit(n)} ELSE u.indicators
<1>1. {4, 5} \subseteq BCEs /\ u.bces \in [BCEs -> Element] /\ u.indicators \in SUBSET Int
  BY CrewAssumption DEF Unit
<1>2. t \in [BCEs -> Element] /\ t[n] = r.bce /\ \A i \in {4, 5} : i # n => t[i] = u.bces[i]
  BY <1>1
<1>3. bits \in SUBSET Int
  BY <1>1, Sizes DEF BceBit
<1>4. v = [u EXCEPT !.bces = t, !.indicators = bits]
  <2>1. CASE r.bit = "set"
    BY <2>1 DEF AfterSlice
  <2>2. CASE r.bit = "keep"
    BY <2>2 DEF AfterSlice
  <2>3. QED
    BY <2>1, <2>2
<1> HIDE DEF t, bits
<1>5. v \in Unit /\ v.pc = u.pc /\ v.acc = u.acc /\ v.c6 = u.c6 /\ v.bces = t
  BY <1>2, <1>3, <1>4, ZenonT(60) DEF Unit
<1>6. QED
  BY <1>2, <1>5

(* The registers the invariants are about.                                 *)
Pc == unit.pc
Acc == unit.acc
C6 == unit.c6
P4 == unit.bces[4].pc
On4 == unit.bces[4].busy
P5 == unit.bces[5].pc
On5 == unit.bces[5].busy
KB == mem[KEYBUF]
TX == mem[TEXT]

UnitShape ==
  /\ unit \in Unit
  /\ P4 = \h200 \/ unit.bces[4].base = KEYBUF
  /\ P5 = \h1A0 \/ unit.bces[5].base = TEXT

(* What a step can rely on.                                                *)
Ready ==
  /\ UnitShape /\ Store(mem) /\ kbd \in Display /\ crt \in Display
  /\ Pc \in MscAddresses /\ P4 \in PollerAt /\ P5 \in WriterAt
  /\ Pc = \h148 => Acc = Mask(4) /\ ~ On4
  /\ Pc = \h16A => Acc = Mask(5) /\ ~ On5
  /\ Pc = \h16B => SaveArea(mem)
  /\ dispcmd \in Int /\ cpu.r7 \in Int
  /\ cpu.at = 5 => cpu.r6 \in 0..(Half - 1)

(* What it does, processor by processor.                                   *)
KeyAfterCpu == IF cpu.at = 7 THEN NoKey ELSE KB
TextAfterCpu == IF cpu.at = 5 THEN cpu.r6 ELSE TX

CpuMoves ==
  /\ cpu' = CpuStep /\ dispcmd' = DispcmdAfterCpu /\ heard' = HeardAfterCpu
  /\ UNCHANGED <<typed, early, hurried>>

MscMoved ==
  /\ C6' = IF Pc = \h140 THEN 0 ELSE C6AfterCpu
  /\ Pc = \h140 => Pc' = IF C6AfterCpu = 0 THEN \h141 ELSE \h168
  /\ Pc = \h141 => Pc' = \h142
  /\ Pc = \h142 => Pc' = \h144 /\ Acc' = KeyAfterCpu
  /\ Pc = \h144 => Pc' = \h145 /\ (Acc' = 0 <=> Acc = NoKey)
  /\ Pc = \h145 => Pc' = IF Acc = 0 THEN \h146 ELSE \h149
  /\ Pc = \h146 => Pc' = \h148 /\ Acc' = Mask(4)
  /\ Pc = \h148 => Pc' = \h149
  /\ Pc = \h149 => Pc' = \h14A
  /\ Pc = \h14A => Pc' = \h140
  /\ Pc = \h168 => Pc' = \h16A /\ Acc' = Mask(5)
  /\ Pc = \h16A => Pc' = \h16B
  /\ Pc = \h16B => Pc' = \h141

Starts4 == On4 \/ Pc = \h148
Starts5 == On5 \/ Pc = \h16A

PollerMoved ==
  /\ ~ Starts4 => P4' = P4 /\ ~ On4'
  /\ Starts4 /\ P4 = \h200 => P4' = \h202 /\ On4'
  /\ Starts4 /\ P4 = \h202 => P4' = \h203 /\ On4'
  /\ Starts4 /\ P4 = \h203 => P4' = \h204 /\ On4'
  /\ Starts4 /\ P4 = \h204 => P4' = \h208 /\ On4'
  /\ Starts4 /\ P4 = \h208 => P4' = \h209 /\ On4'
  /\ Starts4 /\ P4 = \h209 => P4' = \h20A /\ ~ On4'
  /\ Starts4 /\ P4 = \h20A => P4' = \h204 /\ On4'

KeysMoved ==
  /\ Starts4 /\ P4 = \h204 => KB' = Answer(kbd) /\ kbd' = Answered(kbd)
  /\ ~ (Starts4 /\ P4 = \h204) => KB' = KeyAfterCpu /\ kbd' = kbd

WriterMoved ==
  /\ ~ Starts5 => P5' = P5 /\ ~ On5'
  /\ Starts5 /\ P5 = \h1A0 => P5' = \h1A2 /\ On5'
  /\ Starts5 /\ P5 = \h1A2 => P5' = \h1A6 /\ On5'
  /\ Starts5 /\ P5 = \h1A6 => P5' = \h1A7 /\ ~ On5'
  /\ Starts5 /\ P5 = \h1A7 => P5' = \h1A8 /\ On5'
  /\ Starts5 /\ P5 = \h1A8 => P5' = \h1A2 /\ On5'

ScreenMoved ==
  /\ TX' = TextAfterCpu
  /\ Starts5 /\ P5 = \h1A2 => crt' = Written(crt, dispcmd', TX')
  /\ ~ (Starts5 /\ P5 = \h1A2) => crt' = crt

ShapesKept ==
  /\ UnitShape' /\ Store(mem')
  /\ SaveArea(mem) \/ (Pc = \h140 /\ C6AfterCpu # 0) => SaveArea(mem')

LEMMA StepMoves ==
  ASSUME Ready, Step
  PROVE  CpuMoves /\ MscMoved /\ PollerMoved /\ KeysMoved /\ WriterMoved /\ ScreenMoved /\ ShapesKept
<1> DEFINE Ends(m3, u2, a, b) ==
             /\ cpu' = CpuStep
             /\ unit' = AfterSlice(u2, 5, b)
             /\ mem' = AfterStores(m3, b.stored)
             /\ dispcmd' = DispcmdAfterCpu
             /\ kbd' = AfterWords(kbd, a.sent)
             /\ crt' = AfterWords(crt, b.sent)
             /\ heard' = HeardAfterCpu
             /\ UNCHANGED <<typed, early, hurried>>
           Bce5Ends(m3, u2, a) ==
             \E b \in {BusSlice(u2, m3, 5, DisplayCode(DispcmdAfterCpu), crt)} : Ends(m3, u2, a, b)
           Bce4Ends(s, m2, a) ==
             \E m3 \in {AfterStores(m2, a.stored)}, u2 \in {AfterSlice(s.unit, 4, a)} :
                Bce5Ends(m3, u2, a)
           MscEnds(m1, s) ==
             \E m2 \in {AfterStores(m1, s.stored)} :
             \E a \in {BusSlice(s.unit, m2, 4, KeyboardCode, kbd)} : Bce4Ends(s, m2, a)
<1>1. PICK m1 \in {MemAfterCpu}, u1 \in {[unit EXCEPT !.c6 = C6AfterCpu]} :
      \E s \in {IF u1.busy THEN step_msc(u1, MscCode[u1.pc], m1) ELSE Only(u1)} : MscEnds(m1, s)
  BY Zenon DEF Step
<1>2. PICK s \in {IF u1.busy THEN step_msc(u1, MscCode[u1.pc], m1) ELSE Only(u1)} : MscEnds(m1, s)
  BY <1>1, Zenon
<1>3. PICK m2 \in {AfterStores(m1, s.stored)} :
      \E a \in {BusSlice(s.unit, m2, 4, KeyboardCode, kbd)} : Bce4Ends(s, m2, a)
  BY <1>2, Zenon
<1>4. PICK a \in {BusSlice(s.unit, m2, 4, KeyboardCode, kbd)} : Bce4Ends(s, m2, a)
  BY <1>3, Zenon
<1>5. PICK m3 \in {AfterStores(m2, a.stored)}, u2 \in {AfterSlice(s.unit, 4, a)} :
      Bce5Ends(m3, u2, a)
  BY <1>4, Zenon
<1>6. PICK b \in {BusSlice(u2, m3, 5, DisplayCode(DispcmdAfterCpu), crt)} : Ends(m3, u2, a, b)
  BY <1>5, Zenon
<1>7. /\ unit \in Unit /\ Store(mem) /\ kbd \in Display /\ crt \in Display
      /\ dispcmd \in Int /\ cpu.r7 \in Int
      /\ cpu.at = 5 => cpu.r6 \in 0..(Half - 1)
  BY DEF Ready, UnitShape
(* the CPU *)
<1>8. /\ u1 \in Unit /\ u1.pc = Pc /\ u1.acc = Acc /\ u1.c6 = C6AfterCpu
      /\ u1.bces = unit.bces /\ u1.busy = TRUE
  <2> DEFINE k == C6AfterCpu
  <2>1. k \in {0, C6PGM}
    BY <1>7 DEF C6AfterCpu, Unit
  <2>2. u1 = [unit EXCEPT !.c6 = k]
    BY <1>1
  <2> HIDE DEF k
  <2>3. /\ u1 \in Unit /\ u1.pc = unit.pc /\ u1.acc = unit.acc /\ u1.c6 = k
        /\ u1.bces = unit.bces /\ u1.busy = TRUE
    BY <1>7, <2>1, <2>2 DEF Unit
  <2>4. QED
    BY <2>3 DEF Pc, Acc, k
<1>9. Leaves(mem, m1, KeyAfterCpu, TextAfterCpu)
  <2>1. /\ KeyAfterCpu = IF cpu.at = 7 THEN NoKey ELSE mem[KEYBUF]
        /\ TextAfterCpu = IF cpu.at = 5 THEN cpu.r6 ELSE mem[TEXT]
    BY DEF KeyAfterCpu, TextAfterCpu, KB, TX
  <2>2. Leaves(mem, MemAfterCpu, KeyAfterCpu, TextAfterCpu)
    BY <1>7, <2>1, CpuStores
  <2>3. QED
    BY <1>1, <2>2
(* the MSC *)
<1>10. s = step_msc(u1, MscCode[u1.pc], m1)
  BY <1>2, <1>8, SMTT(30)
<1>11. MscReady(u1, m1)
  BY <1>8, <1>9, SMTT(30) DEF MscReady, Ready, Leaves, On4, On5
<1>12. MscMoves(u1, m1, s)
  BY <1>10, <1>11, MscStep
<1>13. /\ Leaves(m1, m2, KeyAfterCpu, TextAfterCpu)
       /\ Pc = \h140 /\ C6AfterCpu # 0 => SaveArea(m2)
  <2>1. Store(m1) /\ m1[KEYBUF] = KeyAfterCpu /\ m1[TEXT] = TextAfterCpu
    BY <1>9 DEF Leaves
  <2>2. CASE Pc = \h140 /\ C6AfterCpu # 0
    <3>1. s.stored = Saved(C6PGM, WordOf({BUSY}), Acc, 0, \h141)
      BY <1>8, <1>12, <2>2 DEF MscMoves
    <3>2. Acc \in 0..(Full - 1)
      BY <1>7 DEF Unit, Acc
    <3>3. m2 = AfterStores(m1, Saved(C6PGM, WordOf({BUSY}), Acc, 0, \h141))
      BY <1>3, <3>1
    <3>4. Leaves(m1, m2, m1[KEYBUF], m1[TEXT]) /\ SaveArea(m2)
      BY <2>1, <3>2, <3>3, StatusStored
    <3>5. QED
      BY <2>1, <3>4
  <2>3. CASE ~ (Pc = \h140 /\ C6AfterCpu # 0)
    <3>1. s.stored = Nothing
      BY <1>8, <1>12, <2>3 DEF MscMoves
    <3>2. m2 = AfterStores(m1, Nothing)
      BY <1>3, <3>1
    <3>3. Leaves(m1, m2, m1[KEYBUF], m1[TEXT])
      BY <2>1, <3>2, NothingStored
    <3>4. QED
      BY <2>1, <2>3, <3>3
  <2>4. QED
    BY <2>2, <2>3
<1>14. /\ s.unit \in Unit /\ s.unit.bces[4].pc = P4 /\ s.unit.bces[4].base = unit.bces[4].base
       /\ s.unit.bces[4].busy = Starts4
       /\ s.unit.bces[5].pc = P5 /\ s.unit.bces[5].base = unit.bces[5].base
       /\ s.unit.bces[5].busy = Starts5
  <2>1. \A n \in {4, 5} : /\ s.unit.bces[n].pc = unit.bces[n].pc
                          /\ s.unit.bces[n].base = unit.bces[n].base
                          /\ s.unit.bces[n].busy = (unit.bces[n].busy \/ Pc = Starts(n))
    BY <1>8, <1>12 DEF MscMoves
  <2>2. s.unit \in Unit
    BY <1>12, SMTT(30) DEF MscMoves
  <2>3. QED
    BY <2>1, <2>2 DEF P4, P5, On4, On5, Starts4, Starts5, Starts
(* BCE 4 *)
<1> DEFINE e == s.unit.bces[4]
           f == s.unit.bces[5]
<1>15. PollerMoves(e, m2, kbd, a, m3, kbd')
  <2>1. e.pc \in PollerAt /\ (e.pc = \h200 \/ e.base = KEYBUF)
    BY <1>14 DEF Ready, UnitShape
  <2>2. Store(m2) /\ a = BusSlice(s.unit, m2, 4, KeyboardCode, kbd) /\ e = s.unit.bces[4]
    BY <1>4, <1>13 DEF Leaves
  <2> HIDE DEF e
  <2>3. PollerMoves(e, m2, kbd, a, AfterStores(m2, a.stored), AfterWords(kbd, a.sent))
    <3> DEFINE v == s.unit
    <3>1. v \in Unit /\ a = BusSlice(v, m2, 4, KeyboardCode, kbd) /\ e = v.bces[4]
      BY <1>14, <2>2, SMTT(30)
    <3> HIDE DEF v
    <3>2. QED
      BY <1>7, <2>1, <2>2, <3>1, PollerStep
  <2>4. QED
    BY <1>5, <1>6, <2>3, ZenonT(60)
<1>16. /\ u2 \in Unit /\ u2.pc = s.unit.pc /\ u2.acc = s.unit.acc /\ u2.c6 = s.unit.c6
       /\ u2.bces[4] = a.bce /\ u2.bces[5] = f
  <2>1. a.bce \in Element /\ a.bit \in {"keep", "set"}
    BY <1>15 DEF PollerMoves
  <2>2. QED
    BY <1>5, <1>14, <2>1, SliceDone, SMTT(30)
(* BCE 5 *)
<1>17. /\ m3[KEYBUF] = IF Starts4 /\ P4 = \h204 THEN Answer(kbd) ELSE KeyAfterCpu
       /\ kbd' = IF Starts4 /\ P4 = \h204 THEN Answered(kbd) ELSE kbd
       /\ Store(m3) /\ m3[TEXT] = TextAfterCpu /\ (SaveArea(m2) => SaveArea(m3))
  BY <1>13, <1>14, <1>15 DEF PollerMoves, Leaves
<1>18. WriterMoves(f, m3, DispcmdAfterCpu, crt, b, mem', crt')
  <2>1. f.pc \in WriterAt /\ (f.pc = \h1A0 \/ f.base = TEXT)
    BY <1>14 DEF Ready, UnitShape
  <2>2. DispcmdAfterCpu \in Int
    BY <1>7 DEF DispcmdAfterCpu
  <2>3. WriterMoves(f, m3, DispcmdAfterCpu, crt, b, AfterStores(m3, b.stored), AfterWords(crt, b.sent))
    <3> DEFINE v == DispcmdAfterCpu
    <3>1. v \in Int /\ b = BusSlice(u2, m3, 5, DisplayCode(v), crt) /\ f = u2.bces[5]
      BY <1>6, <1>16, <2>2
    <3> HIDE DEF v, f
    <3>2. WriterMoves(f, m3, v, crt, b, AfterStores(m3, b.stored), AfterWords(crt, b.sent))
      BY <1>7, <1>16, <1>17, <2>1, <3>1, WriterStep, SMTT(30)
    <3>3. QED
      BY <3>2 DEF v
  <2>4. QED
    BY <1>6, <2>3
<1>19. /\ unit' \in Unit /\ unit'.pc = s.unit.pc /\ unit'.acc = s.unit.acc /\ unit'.c6 = s.unit.c6
       /\ unit'.bces[5] = b.bce /\ unit'.bces[4] = a.bce
  <2>1. b.bce \in Element /\ b.bit \in {"keep", "set"}
    BY <1>18, SMTT(30) DEF WriterMoves
  <2>2. unit' = AfterSlice(u2, 5, b) /\ u2 \in Unit /\ 5 \in {4, 5}
    BY <1>6, <1>16
  <2>3. QED
    BY <1>16, <2>1, <2>2, SliceDone, SMTT(30)
<1>20. mem' = m3
  BY <1>18 DEF WriterMoves
<1>21. CpuMoves
  BY <1>6 DEF CpuMoves
<1>22. MscMoved
  <2>1. m1[KEYBUF] = KeyAfterCpu
    BY <1>9 DEF Leaves
  <2>2. Pc' = s.unit.pc /\ Acc' = s.unit.acc /\ C6' = s.unit.c6
    BY <1>19 DEF Pc, Acc, C6
  <2>3. QED
    BY <1>8, <1>12, <2>1, <2>2 DEF MscMoves, MscMoved
<1>23. PollerMoved
  <2>1. P4' = a.bce.pc /\ On4' = a.bce.busy
    BY <1>19 DEF P4, On4
  <2>2. e.busy = Starts4 /\ e.pc = P4
    BY <1>14, SMTT(30)
  <2> HIDE DEF e
  <2>3. PollerSteps(e, a)
    BY <1>15, SMTT(30) DEF PollerMoves
  <2>4. QED
    BY <2>1, <2>2, <2>3 DEF PollerMoved, PollerSteps
<1>24. KeysMoved
  BY <1>17, <1>20, SMTT(30) DEF KeysMoved, KB
<1>25. WriterMoved
  <2>1. P5' = b.bce.pc /\ On5' = b.bce.busy
    BY <1>19 DEF P5, On5
  <2>2. f.busy = Starts5 /\ f.pc = P5
    BY <1>14, SMTT(30)
  <2> HIDE DEF f
  <2>3. WriterSteps(f, b)
    BY <1>18 DEF WriterMoves
  <2>4. QED
    BY <2>1, <2>2, <2>3 DEF WriterMoved, WriterSteps
<1>26. ScreenMoved
  <2>1. TX' = m3[TEXT] /\ dispcmd' = DispcmdAfterCpu
    BY <1>20, <1>21 DEF TX, CpuMoves
  <2>2. QED
    BY <1>14, <1>17, <1>18, <2>1 DEF WriterMoves, ScreenMoved
<1>27. ShapesKept
  <2>1. P4' = a.bce.pc /\ P5' = b.bce.pc
    BY <1>19, SMTT(30) DEF P4, P5
  <2>2. UnitShape'
    BY <1>15, <1>18, <1>19, <2>1, ZenonT(60) DEF UnitShape, PollerMoves, WriterMoves
  <2>3. SaveArea(mem) \/ (Pc = \h140 /\ C6AfterCpu # 0) => SaveArea(m2)
    BY <1>9, <1>13 DEF Leaves
  <2>4. QED
    BY <1>17, <1>20, <2>2, <2>3, SMTT(30) DEF ShapesKept
<1>28. QED
  BY <1>21, <1>22, <1>23, <1>24, <1>25, <1>26, <1>27

-----------------------------------------------------------------------------
(***************************************************************************)
(* The inductive invariant.                                                *)
(***************************************************************************)
StoreShape == Store(mem) /\ (Pc \in {\h168, \h16A, \h16B} => SaveArea(mem))

ScreenShape == kbd \in Display /\ crt \in Display

(* Where the processors are relative to each other.  The first poll runs   *)
(* in step with the CPU and the MSC; each later one, and each write, is    *)
(* over while the MSC is still on its way around the loop.                 *)
Starting ==
  /\ On4 /\ C6 = 0
  /\ \/ Pc = \h140 /\ P4 = \h200 /\ cpu.at = 0
     \/ Pc = \h141 /\ P4 = \h202 /\ cpu.at = 1
     \/ Pc = \h142 /\ P4 = \h203 /\ cpu.at = 2
     \/ Pc = \h144 /\ P4 = \h204 /\ cpu.at = 3
     \/ Pc = \h145 /\ P4 = \h208 /\ cpu.at = 1
     \/ Pc = \h146 /\ P4 = \h209 /\ cpu.at = 2

Polling ==
  \/ ~ On4 /\ P4 = \h20A
  \/ On4 /\ Pc = \h149 /\ P4 = \h204
  \/ On4 /\ Pc = \h14A /\ P4 = \h208
  \/ On4 /\ Pc = \h140 /\ P4 = \h209

Showing ==
  \/ ~ On5 /\ P5 = \h1A0
  \/ ~ On5 /\ P5 = \h1A7
  \/ On5 /\ Pc = \h16B /\ (P5 = \h1A2 \/ P5 = \h1A8)
  \/ On5 /\ Pc = \h141 /\ (P5 = \h1A2 \/ P5 = \h1A6)
  \/ On5 /\ Pc = \h142 /\ P5 = \h1A6

InLockstep ==
  /\ Pc \in MscAddresses
  /\ Starting \/ Polling
  /\ Showing
  /\ Starting => ~ On5
  /\ Pc = \h148 => Acc = Mask(4)
  /\ Pc = \h16A => Acc = Mask(5)

(* The CPU has a key in hand from reading it to the external call; the     *)
(* write command is behind the keys until it has been moved on, and TEXT   *)
(* until the glyph is stored.                                              *)
InHand == cpu.at \in 2..13 /\ cpu.r5 # NoKey

(* The glyph of the last key heard is on its way to the screen.            *)
Pending == \/ C6 # 0
           \/ Pc = \h168
           \/ Pc = \h16A
           \/ On5 /\ (P5 = \h1A2 \/ P5 = \h1A8)

CpuKnows ==
  /\ cpu \in [at : 0..15, r5 : Key \cup {0, NoKey}, r6 : 0..(Half - 1), r7 : Int]
  /\ typed \in Seq(Key) /\ heard \in Seq(Key)
  /\ cpu.r7 \in -1..Len(heard) /\ dispcmd \in Int
  /\ cpu.at \in 2..3 => cpu.r5 \in Key \cup {NoKey}
  /\ cpu.at \in 4..13 => cpu.r5 \in Key
  /\ InHand => Len(heard) > 0 /\ cpu.r5 = heard[Len(heard)]
  /\ InHand /\ cpu.at <= 10 => dispcmd = Len(heard) - 2
  /\ ~ (InHand /\ cpu.at <= 10) => dispcmd = Len(heard) - 1
  /\ cpu.at = 9 => cpu.r7 = dispcmd
  /\ cpu.at = 10 => cpu.r7 = dispcmd + 1
  /\ cpu.at = 5 => cpu.r6 = Glyph[cpu.r5]
  /\ Len(heard) > 0 /\ ~ (InHand /\ cpu.at <= 5) => TX = Glyph[heard[Len(heard)]]
  /\ Pending => Len(heard) > 0

(* No key is counted twice.                                                *)
Waiting == IF KB = NoKey \/ Taken THEN 0 ELSE 1

Counted ==
  /\ Len(heard) + Waiting + Len(kbd.keys) <= Len(typed) /\ Len(typed) <= MaxKeys
  /\ early \in BOOLEAN /\ hurried \in BOOLEAN

(* BCE 4 polls only when KEYBUF is empty and the CPU has no key of it in   *)
(* hand: that is what the MSC has found out since it looked at KEYBUF.     *)
(* The exception is the second poll, if the first one, which nothing       *)
(* synchronises with the MSC, brought a key.                               *)
Quiet == KB = NoKey /\ ~ Taken

Exception ==
  /\ early /\ C6 = 0 /\ cpu.r5 # NoKey
  /\ \/ Pc = \h149 /\ cpu.at = 4
     \/ Pc = \h14A /\ cpu.at = 5
     \/ Pc = \h140 /\ cpu.at = 6
     \/ Pc = \h141 /\ cpu.at = 7

First == Starting /\ (Pc = \h140 \/ Pc = \h141 \/ Pc = \h142 \/ Pc = \h144)

Sampled ==
  /\ First => /\ KB = NoKey /\ heard = <<>> /\ (cpu.at \in 2..3 => cpu.r5 = NoKey)
              /\ ~ early => kbd.keys = <<>>
  /\ First /\ Pc = \h144 => Acc = NoKey
  /\ Starting /\ Pc = \h145 => Acc = 0
  /\ Starting /\ Pc = \h146 => cpu.r5 = KB
  /\ Starting /\ ~ early => Quiet
  /\ ~ Starting /\ Pc = \h144 /\ Acc = NoKey => Quiet
  /\ ~ Starting /\ Pc = \h145 /\ Acc = 0 => Quiet
  /\ ~ Starting /\ Pc = \h146 => Quiet
  /\ Pc = \h148 => Quiet \/ (early /\ cpu.at = 3 /\ Taken /\ C6 = 0)
  /\ ~ Starting /\ P4 = \h204 => Quiet \/ (Exception /\ cpu.at = 4)
  /\ Taken => cpu.r5 = KB \/ Exception

(* The crew waits for each echo, and there is room on the screen.          *)
Calm == ~ hurried /\ Len(typed) <= Cells /\ Len(typed) <= CellSpace

Kept == ~ early \/ Calm => KeysKept

(* Of what the crew typed, all is on the screen when the last glyph is     *)
(* through, and all but the last key until then.                           *)
Done == Len(heard) = Len(typed) /\ ~ InHand /\ ~ Pending
Screen(m) ==
  \A c \in 0..(Cells - 1) : crt.screen[c] = IF c < m THEN Glyph[typed[c + 1]] ELSE Blank

Echo ==
  Calm =>
    /\ Done => Screen(Len(typed))
    /\ ~ Done => Screen(Len(typed) - 1)
    /\ Len(heard) >= Len(typed) - 1
    /\ Pending \/ InHand => Len(heard) = Len(typed)
    /\ Pending => ~ InHand
    /\ C6 # 0 => Pc # \h168 /\ Pc # \h16A /\ ~ (On5 /\ (P5 = \h1A2 \/ P5 = \h1A8))

IInv ==
  /\ UnitShape /\ StoreShape /\ ScreenShape /\ InLockstep /\ CpuKnows /\ Counted
  /\ Sampled /\ Kept /\ Echo

(* A step, without the records.                                            *)
CpuRuns ==
  /\ cpu' \in [at : 0..15, r5 : Key \cup {0, NoKey}, r6 : 0..(Half - 1), r7 : Int]
  /\ cpu.at = 1 => cpu'.at = 2 /\ cpu'.r5 = KB
  /\ cpu.at = 3 /\ cpu.r5 = NoKey => cpu'.at = 1
  /\ cpu.at = 3 /\ cpu.r5 # NoKey => cpu'.at = 4
  /\ cpu.at = 15 => cpu'.at = 1
  /\ cpu.at # 1 /\ cpu.at # 3 /\ cpu.at # 15 => cpu'.at = cpu.at + 1
  /\ cpu.at # 1 => cpu'.r5 = cpu.r5
  /\ cpu.at = 4 => cpu'.r6 = Glyph[cpu.r5]
  /\ cpu.at = 8 => cpu'.r7 = dispcmd
  /\ cpu.at = 9 => cpu'.r7 = cpu.r7 + 1
  /\ cpu.at # 8 /\ cpu.at # 9 => cpu'.r7 = cpu.r7
  /\ dispcmd' = IF cpu.at = 10 THEN cpu.r7 ELSE dispcmd
  /\ cpu.at = 1 /\ KB # NoKey => heard' = Append(heard, KB)
  /\ ~ (cpu.at = 1 /\ KB # NoKey) => heard' = heard
  /\ typed' = typed /\ early' = early /\ hurried' = hurried

Calls == IF cpu.at = 13 THEN C6PGM ELSE C6

Moves == /\ CpuRuns /\ MscMoved /\ PollerMoved /\ KeysMoved /\ WriterMoved /\ ScreenMoved
         /\ ShapesKept /\ C6AfterCpu = Calls /\ C6PGM # 0

LEMMA StepRuns ==
  ASSUME IInv, Step
  PROVE  Moves
<1>1. Ready
  <2>1. P4 \in PollerAt /\ (Pc = \h148 => ~ On4)
    BY DEF IInv, InLockstep, Starting, Polling, PollerAt
  <2>2. P5 \in WriterAt /\ (Pc = \h16A => ~ On5)
    BY DEF IInv, InLockstep, Showing, WriterAt
  <2>3. UnitShape /\ Store(mem) /\ kbd \in Display /\ crt \in Display /\ (Pc = \h16B => SaveArea(mem))
    BY DEF IInv, StoreShape, ScreenShape
  <2>4. cpu.r6 \in 0..(Half - 1) /\ cpu.r7 \in Int /\ dispcmd \in Int
    BY DEF IInv, CpuKnows
  <2>5. Pc \in MscAddresses /\ (Pc = \h148 => Acc = Mask(4)) /\ (Pc = \h16A => Acc = Mask(5))
    BY DEF IInv, InLockstep
  <2>6. QED
    BY <2>1, <2>2, <2>3, <2>4, <2>5 DEF Ready
<1>2. CpuMoves /\ MscMoved /\ PollerMoved /\ KeysMoved /\ WriterMoved /\ ScreenMoved /\ ShapesKept
  BY <1>1, StepMoves
<1>3. CpuRuns
  <2>1. /\ cpu \in [at : 0..15, r5 : Key \cup {0, NoKey}, r6 : 0..(Half - 1), r7 : Int]
        /\ dispcmd \in Int /\ KB \in Key \cup {NoKey}
        /\ cpu.at = 4 => Glyph[cpu.r5] \in 0..(Half - 1)
    <3>1. cpu.at = 4 => cpu.r5 \in Key
      BY DEF IInv, CpuKnows
    <3>2. Glyph \in [Key -> 0..(Half - 1) \ {Blank}]
      BY CrewAssumption
    <3>3. KB \in Key \cup {NoKey}
      BY DEF IInv, StoreShape, Store, KB
    <3>4. QED
      BY <3>1, <3>2, <3>3 DEF IInv, CpuKnows
  <2>2. cpu' = CpuStep
    BY <1>2 DEF CpuMoves
  <2>3. /\ dispcmd' = IF cpu.at = 10 THEN cpu.r7 ELSE dispcmd
        /\ cpu.at = 1 /\ KB # NoKey => heard' = Append(heard, KB)
        /\ ~ (cpu.at = 1 /\ KB # NoKey) => heard' = heard
        /\ typed' = typed /\ early' = early /\ hurried' = hurried
    BY <1>2 DEF CpuMoves, DispcmdAfterCpu, HeardAfterCpu, KB
  <2>4. CASE cpu.at = 1
    <3>1. cpu' = [cpu EXCEPT !.at = 2, !.r5 = KB]
      BY <2>2, <2>4 DEF CpuStep, KB
    <3>2. /\ cpu' \in [at : 0..15, r5 : Key \cup {0, NoKey}, r6 : 0..(Half - 1), r7 : Int]
          /\ cpu'.at = 2 /\ cpu'.r5 = KB /\ cpu'.r6 = cpu.r6 /\ cpu'.r7 = cpu.r7
      <4> DEFINE c == [cpu EXCEPT !.at = 2]
                 k == KB
      <4>1. k \in Key \cup {0, NoKey}
        BY <2>1
      <4>2. /\ c \in [at : 0..15, r5 : Key \cup {0, NoKey}, r6 : 0..(Half - 1), r7 : Int]
            /\ c.at = 2 /\ c.r5 = cpu.r5 /\ c.r6 = cpu.r6 /\ c.r7 = cpu.r7
        BY <2>1
      <4>3. cpu' = [c EXCEPT !.r5 = k]
        BY <3>1
      <4> HIDE DEF c, k
      <4>4. /\ cpu' \in [at : 0..15, r5 : Key \cup {0, NoKey}, r6 : 0..(Half - 1), r7 : Int]
            /\ cpu'.at = 2 /\ cpu'.r6 = cpu.r6 /\ cpu'.r7 = cpu.r7 /\ cpu'.r5 = k
        BY <4>1, <4>2, <4>3
      <4>5. QED
        BY <4>4 DEF k
    <3>3. dispcmd' = dispcmd
      BY <2>3, <2>4
    <3>4. CASE KB = NoKey
      BY <2>3, <2>4, <3>2, <3>3, <3>4 DEF CpuRuns
    <3>5. CASE KB # NoKey
      BY <2>3, <2>4, <3>2, <3>3, <3>5 DEF CpuRuns
    <3>6. QED
      BY <3>4, <3>5
  <2>5. CASE cpu.at = 3
    <3> DEFINE k == IF cpu.r5 = NoKey THEN 1 ELSE 4
    <3>1. cpu' = [cpu EXCEPT !.at = k]
      BY <2>2, <2>5 DEF CpuStep, Branch3
    <3>2. k \in 0..15 /\ (cpu.r5 = NoKey => k = 1) /\ (cpu.r5 # NoKey => k = 4)
      OBVIOUS
    <3> HIDE DEF k
    <3>3. QED
      BY <2>1, <2>3, <2>5, <3>1, <3>2 DEF CpuRuns
  <2>6. CASE cpu.at = 4
    <3> DEFINE k == Glyph[cpu.r5]
    <3>1. cpu' = [cpu EXCEPT !.at = 5, !.r6 = k]
      BY <2>2, <2>6 DEF CpuStep
    <3>2. k \in 0..(Half - 1) /\ k = Glyph[cpu.r5]
      BY <2>1, <2>6
    <3> HIDE DEF k
    <3>3. /\ cpu' \in [at : 0..15, r5 : Key \cup {0, NoKey}, r6 : 0..(Half - 1), r7 : Int]
          /\ cpu'.at = 5 /\ cpu'.r5 = cpu.r5 /\ cpu'.r6 = k /\ cpu'.r7 = cpu.r7
      <4> DEFINE c == [cpu EXCEPT !.at = 5]
      <4>1. /\ c \in [at : 0..15, r5 : Key \cup {0, NoKey}, r6 : 0..(Half - 1), r7 : Int]
            /\ c.at = 5 /\ c.r5 = cpu.r5 /\ c.r6 = cpu.r6 /\ c.r7 = cpu.r7
        BY <2>1
      <4>2. cpu' = [c EXCEPT !.r6 = k]
        BY <3>1
      <4> HIDE DEF c
      <4>3. QED
        BY <3>2, <4>1, <4>2
    <3>4. QED
      BY <2>3, <2>6, <3>2, <3>3 DEF CpuRuns
  <2>7. CASE cpu.at = 8
    <3>1. cpu' = [cpu EXCEPT !.at = 9, !.r7 = dispcmd]
      BY <2>2, <2>7 DEF CpuStep
    <3>2. /\ cpu' \in [at : 0..15, r5 : Key \cup {0, NoKey}, r6 : 0..(Half - 1), r7 : Int]
          /\ cpu'.at = 9 /\ cpu'.r5 = cpu.r5 /\ cpu'.r6 = cpu.r6 /\ cpu'.r7 = dispcmd
      <4> DEFINE c == [cpu EXCEPT !.at = 9]
                 k == dispcmd
      <4>1. k \in Int
        BY <2>1
      <4>2. /\ c \in [at : 0..15, r5 : Key \cup {0, NoKey}, r6 : 0..(Half - 1), r7 : Int]
            /\ c.at = 9 /\ c.r5 = cpu.r5 /\ c.r6 = cpu.r6 /\ c.r7 = cpu.r7
        BY <2>1
      <4>3. cpu' = [c EXCEPT !.r7 = k]
        BY <3>1
      <4> HIDE DEF c, k
      <4>4. /\ cpu' \in [at : 0..15, r5 : Key \cup {0, NoKey}, r6 : 0..(Half - 1), r7 : Int]
            /\ cpu'.at = 9 /\ cpu'.r5 = cpu.r5 /\ cpu'.r6 = cpu.r6 /\ cpu'.r7 = k
        BY <4>1, <4>2, <4>3
      <4>5. QED
        BY <4>4 DEF k
    <3>3. QED
      BY <2>1, <2>3, <2>7, <3>2 DEF CpuRuns
  <2>8. CASE cpu.at = 9
    <3>1. cpu' = [cpu EXCEPT !.at = 10, !.r7 = cpu.r7 + 1]
      BY <2>1, <2>2, <2>8 DEF CpuStep
    <3>2. /\ cpu' \in [at : 0..15, r5 : Key \cup {0, NoKey}, r6 : 0..(Half - 1), r7 : Int]
          /\ cpu'.at = 10 /\ cpu'.r5 = cpu.r5 /\ cpu'.r6 = cpu.r6 /\ cpu'.r7 = cpu.r7 + 1
      <4> DEFINE c == [cpu EXCEPT !.at = 10]
                 k == cpu.r7 + 1
      <4>1. k \in Int
        BY <2>1
      <4>2. /\ c \in [at : 0..15, r5 : Key \cup {0, NoKey}, r6 : 0..(Half - 1), r7 : Int]
            /\ c.at = 10 /\ c.r5 = cpu.r5 /\ c.r6 = cpu.r6 /\ c.r7 = cpu.r7
        BY <2>1
      <4>3. cpu' = [c EXCEPT !.r7 = k]
        BY <3>1
      <4> HIDE DEF c, k
      <4>4. /\ cpu' \in [at : 0..15, r5 : Key \cup {0, NoKey}, r6 : 0..(Half - 1), r7 : Int]
            /\ cpu'.at = 10 /\ cpu'.r5 = cpu.r5 /\ cpu'.r6 = cpu.r6 /\ cpu'.r7 = k
        BY <4>1, <4>2, <4>3
      <4>5. QED
        BY <4>4 DEF k
    <3>3. QED
      BY <2>1, <2>3, <2>8, <3>2 DEF CpuRuns
  <2>9. CASE cpu.at = 15
    <3>1. cpu' = [cpu EXCEPT !.at = 1]
      BY <2>2, <2>9 DEF CpuStep
    <3>2. /\ cpu' \in [at : 0..15, r5 : Key \cup {0, NoKey}, r6 : 0..(Half - 1), r7 : Int]
          /\ cpu'.at = 1 /\ cpu'.r5 = cpu.r5 /\ cpu'.r6 = cpu.r6 /\ cpu'.r7 = cpu.r7
      BY <2>1, <3>1
    <3>3. QED
      BY <2>1, <2>3, <2>9, <3>2 DEF CpuRuns
  <2>10. CASE cpu.at \notin {1, 3, 4, 8, 9, 15}
    <3>1. cpu' = [cpu EXCEPT !.at = cpu.at + 1]
      BY <2>1, <2>2, <2>10 DEF CpuStep
    <3>2. cpu.at + 1 \in 0..15
      BY <2>1, <2>10
    <3>3. QED
      BY <2>1, <2>3, <2>10, <3>1, <3>2 DEF CpuRuns
  <2>11. QED
    BY <2>4, <2>5, <2>6, <2>7, <2>8, <2>9, <2>10
<1>4. C6AfterCpu = Calls /\ C6PGM # 0
  BY DEF C6AfterCpu, Calls, C6, C6PGM
<1>5. QED
  BY <1>2, <1>3, <1>4 DEF Moves

(* Storage, registers and screens.                                         *)
LEMMA ShapesStep ==
  ASSUME IInv, Moves
  PROVE  (UnitShape /\ StoreShape /\ ScreenShape)'
<1>1. UnitShape' /\ Store(mem')
  BY DEF Moves, ShapesKept
<1>2. StoreShape'
  <2>1. Pc \in MscAddresses
    BY DEF IInv, InLockstep
  <2>2. ASSUME Pc' \in {\h168, \h16A, \h16B}
        PROVE  SaveArea(mem) \/ (Pc = \h140 /\ C6AfterCpu # 0)
    <3>1. Pc = \h168 \/ Pc = \h16A \/ (Pc = \h140 /\ C6AfterCpu # 0)
      BY <2>1, <2>2 DEF MscAddresses, Moves, MscMoved
    <3>2. Pc = \h168 \/ Pc = \h16A => SaveArea(mem)
      BY DEF IInv, StoreShape
    <3>3. QED
      BY <3>1, <3>2
  <2>3. Pc' \in {\h168, \h16A, \h16B} => SaveArea(mem')
    BY <2>2 DEF Moves, ShapesKept
  <2>4. QED
    BY <1>1, <2>3 DEF StoreShape
<1>3. kbd' \in Display
  BY Displays DEF IInv, ScreenShape, Moves, KeysMoved
<1>4. crt' \in Display
  <2>1. TX' \in 0..(Half - 1)
    BY <1>1 DEF Store, TX
  <2>2. dispcmd' \in Int
    BY DEF IInv, CpuKnows, Moves, CpuRuns
  <2>3. crt \in Display
    BY DEF IInv, ScreenShape
  <2>4. Written(crt, dispcmd', TX') \in Display
    BY <2>1, <2>2, <2>3, WrittenDisplay
  <2>5. QED
    BY <2>3, <2>4 DEF Moves, ScreenMoved
<1>5. QED
  BY <1>1, <1>2, <1>3, <1>4 DEF ScreenShape

-----------------------------------------------------------------------------
(* The processors stay in step.                                            *)
LEMMA Facts ==
  ASSUME IInv
  PROVE  /\ cpu.at \in 0..15 /\ NoKey \notin Key /\ NoKey \in Nat /\ Key \subseteq Nat
         /\ KB \in Key \cup {NoKey} /\ (cpu.at \in 4..13 => cpu.r5 \in Key)
         /\ (cpu.at \in 4..13 => cpu.r5 # NoKey)
         /\ kbd.keys \in Seq(Key) /\ typed \in Seq(Key) /\ heard \in Seq(Key)
<1>1. NoKey \notin Key /\ NoKey \in Nat /\ Key \subseteq Nat
  BY CrewAssumption
<1>2. KB \in Key \cup {NoKey}
  BY DEF IInv, StoreShape, Store, KB
<1>3. cpu.at \in 0..15 /\ (cpu.at \in 4..13 => cpu.r5 \in Key)
  BY DEF IInv, CpuKnows
<1>4. kbd.keys \in Seq(Key)
  BY Displays DEF IInv, ScreenShape
<1>5. typed \in Seq(Key) /\ heard \in Seq(Key)
  BY DEF IInv, CpuKnows
<1>6. QED
  BY <1>1, <1>2, <1>3, <1>4, <1>5

LEMMA StartingStep ==
  ASSUME IInv, Moves, Starting
  PROVE  /\ Pc = \h140 => Starting' /\ Pc' = \h141 /\ cpu'.at = 1
         /\ Pc = \h141 => Starting' /\ Pc' = \h142 /\ cpu'.at = 2
         /\ Pc = \h142 => Starting' /\ Pc' = \h144 /\ cpu'.at = 3
         /\ Pc = \h144 => Starting' /\ Pc' = \h145 /\ cpu'.at = 1
         /\ Pc = \h145 => Starting' /\ Pc' = \h146 /\ cpu'.at = 2
         /\ Pc = \h146 => ~ Starting' /\ Polling' /\ Pc' = \h148 /\ P4' = \h20A /\ cpu'.at = 3
         /\ C6' = 0 /\ On4 /\ C6 = 0
<1>1. On4 /\ C6 = 0 /\ cpu.at \in 0..3 /\ Starts4
  BY DEF Starting, Starts4
<1>2. C6' = 0
  <2>1. Calls = 0
    BY <1>1 DEF Calls
  <2>2. QED
    BY <2>1 DEF Moves, MscMoved
<1>3. CpuRuns /\ MscMoved /\ PollerMoved /\ C6AfterCpu = 0
  <2>1. Calls = 0
    BY <1>1 DEF Calls
  <2>2. QED
    BY <2>1 DEF Moves
<1>4. CASE Pc = \h140
  <2>1. P4 = \h200 /\ cpu.at = 0
    BY <1>4 DEF Starting
  <2>2. Pc' = \h141 /\ P4' = \h202 /\ On4' /\ cpu'.at = 1
    BY <1>1, <1>3, <1>4, <2>1 DEF MscMoved, PollerMoved, CpuRuns
  <2>3. QED
    BY <1>1, <1>2, <1>4, <2>2 DEF Starting
<1>5. CASE Pc = \h141
  <2>1. P4 = \h202 /\ cpu.at = 1
    BY <1>5 DEF Starting
  <2>2. Pc' = \h142 /\ P4' = \h203 /\ On4' /\ cpu'.at = 2
    BY <1>1, <1>3, <1>5, <2>1 DEF MscMoved, PollerMoved, CpuRuns
  <2>3. QED
    BY <1>1, <1>2, <1>5, <2>2 DEF Starting
<1>6. CASE Pc = \h142
  <2>1. P4 = \h203 /\ cpu.at = 2
    BY <1>6 DEF Starting
  <2>2. Pc' = \h144 /\ P4' = \h204 /\ On4' /\ cpu'.at = 3
    BY <1>1, <1>3, <1>6, <2>1 DEF MscMoved, PollerMoved, CpuRuns
  <2>3. QED
    BY <1>1, <1>2, <1>6, <2>2 DEF Starting
<1>7. CASE Pc = \h144
  <2>1. P4 = \h204 /\ cpu.at = 3
    BY <1>7 DEF Starting
  <2>2. cpu.r5 = NoKey
    BY <1>7, <2>1 DEF IInv, Sampled, First
  <2>3. Pc' = \h145 /\ P4' = \h208 /\ On4' /\ cpu'.at = 1
    BY <1>1, <1>3, <1>7, <2>1, <2>2 DEF MscMoved, PollerMoved, CpuRuns
  <2>4. QED
    BY <1>1, <1>2, <1>7, <2>3 DEF Starting
<1>8. CASE Pc = \h145
  <2>1. P4 = \h208 /\ cpu.at = 1
    BY <1>8 DEF Starting
  <2>2. Acc = 0
    BY <1>8 DEF IInv, Sampled
  <2>3. Pc' = \h146 /\ P4' = \h209 /\ On4' /\ cpu'.at = 2
    BY <1>1, <1>3, <1>8, <2>1, <2>2 DEF MscMoved, PollerMoved, CpuRuns
  <2>4. QED
    BY <1>1, <1>2, <1>8, <2>3 DEF Starting
<1>9. CASE Pc = \h146
  <2>1. P4 = \h209 /\ cpu.at = 2
    BY <1>9 DEF Starting
  <2>2. Pc' = \h148 /\ P4' = \h20A /\ ~ On4' /\ cpu'.at = 3
    BY <1>1, <1>3, <1>9, <2>1 DEF MscMoved, PollerMoved, CpuRuns
  <2>3. QED
    BY <1>1, <1>2, <1>9, <2>2 DEF Starting, Polling
<1>10. QED
  BY <1>1, <1>2, <1>4, <1>5, <1>6, <1>7, <1>8, <1>9 DEF Starting

LEMMA PollingStep ==
  ASSUME IInv, Moves, Polling
  PROVE  Polling' /\ ~ Starting /\ ~ Starting'
<1>1. CpuRuns /\ MscMoved /\ PollerMoved
  BY DEF Moves
<1>2. ~ Starting
  BY DEF Polling, Starting
<1>3. CASE ~ On4 /\ P4 = \h20A /\ Pc # \h148
  <2>1. P4' = \h20A /\ ~ On4'
    BY <1>1, <1>3 DEF PollerMoved, Starts4
  <2>2. QED
    BY <1>2, <2>1 DEF Polling, Starting
<1>4. CASE ~ On4 /\ P4 = \h20A /\ Pc = \h148
  <2>1. P4' = \h204 /\ On4' /\ Pc' = \h149
    BY <1>1, <1>4 DEF PollerMoved, MscMoved, Starts4
  <2>2. QED
    BY <1>2, <2>1 DEF Polling, Starting
<1>5. CASE On4 /\ Pc = \h149 /\ P4 = \h204
  <2>1. P4' = \h208 /\ On4' /\ Pc' = \h14A
    BY <1>1, <1>5 DEF PollerMoved, MscMoved, Starts4
  <2>2. QED
    BY <1>2, <2>1 DEF Polling, Starting
<1>6. CASE On4 /\ Pc = \h14A /\ P4 = \h208
  <2>1. P4' = \h209 /\ On4' /\ Pc' = \h140
    BY <1>1, <1>6 DEF PollerMoved, MscMoved, Starts4
  <2>2. QED
    BY <1>2, <2>1 DEF Polling, Starting
<1>7. CASE On4 /\ Pc = \h140 /\ P4 = \h209
  <2>1. P4' = \h20A /\ ~ On4'
    BY <1>1, <1>7 DEF PollerMoved, Starts4
  <2>2. QED
    BY <1>2, <2>1 DEF Polling, Starting
<1>8. QED
  BY <1>3, <1>4, <1>5, <1>6, <1>7 DEF Polling

(* The MSC's way around its loop.                                          *)
LEMMA MscWay ==
  ASSUME IInv, Moves
  PROVE  /\ Pc' \in MscAddresses
         /\ Pc' = \h148 => Pc = \h146 /\ Acc' = Mask(4)
         /\ Pc' = \h16A => Pc = \h168 /\ Acc' = Mask(5)
         /\ Pc' = \h168 => Pc = \h140 /\ Calls # 0
         /\ Pc' = \h16B => Pc = \h16A
         /\ Pc' = \h142 => Pc = \h141
         /\ Pc' = \h144 => Pc = \h142 /\ Acc' = KeyAfterCpu
         /\ Pc' = \h145 => Pc = \h144 /\ (Acc' = 0 <=> Acc = NoKey)
         /\ Pc' = \h146 => Pc = \h145 /\ Acc = 0
         /\ Pc' = \h141 => Pc = \h16B \/ (Pc = \h140 /\ Calls = 0)
         /\ Pc' = \h14A => Pc = \h149
         /\ Pc' = \h140 => Pc = \h14A
<1>1. MscMoved /\ Pc \in MscAddresses /\ C6AfterCpu = Calls
  BY DEF Moves, IInv, InLockstep
<1>2. QED
  BY <1>1 DEF MscMoved, MscAddresses

LEMMA ShowingStep ==
  ASSUME IInv, Moves
  PROVE  Showing'
<1>1. WriterMoved /\ MscMoved /\ Showing
  BY DEF Moves, IInv, InLockstep
<1>2. CASE ~ On5 /\ Pc # \h16A
  <2>1. ~ On5' /\ P5' = P5
    BY <1>1, <1>2 DEF WriterMoved, Starts5
  <2>2. QED
    BY <1>1, <1>2, <2>1 DEF Showing
<1>3. CASE ~ On5 /\ Pc = \h16A
  <2>1. Starts5 /\ Pc' = \h16B
    BY <1>1, <1>3 DEF Starts5, MscMoved
  <2>2. On5' /\ (P5' = \h1A2 \/ P5' = \h1A8)
    BY <1>1, <1>3, <2>1 DEF Showing, WriterMoved
  <2>3. QED
    BY <2>1, <2>2 DEF Showing
<1>4. CASE On5 /\ Pc = \h16B
  <2>1. Starts5 /\ Pc' = \h141
    BY <1>1, <1>4 DEF Starts5, MscMoved
  <2>2. On5' /\ (P5' = \h1A6 \/ P5' = \h1A2)
    BY <1>1, <1>4, <2>1 DEF Showing, WriterMoved
  <2>3. QED
    BY <2>1, <2>2 DEF Showing
<1>5. CASE On5 /\ Pc = \h141
  <2>1. Starts5 /\ Pc' = \h142
    BY <1>1, <1>5 DEF Starts5, MscMoved
  <2>2. (On5' /\ P5' = \h1A6) \/ (~ On5' /\ P5' = \h1A7)
    BY <1>1, <1>5, <2>1 DEF Showing, WriterMoved
  <2>3. QED
    BY <2>1, <2>2 DEF Showing
<1>6. CASE On5 /\ Pc = \h142
  <2>1. Starts5
    BY <1>6 DEF Starts5
  <2>2. ~ On5' /\ P5' = \h1A7
    BY <1>1, <1>6, <2>1 DEF Showing, WriterMoved
  <2>3. QED
    BY <2>2 DEF Showing
<1>7. QED
  BY <1>1, <1>2, <1>3, <1>4, <1>5, <1>6 DEF Showing

LEMMA LockstepStep ==
  ASSUME IInv, Moves
  PROVE  InLockstep'
<1>1. Starting \/ Polling
  BY DEF IInv, InLockstep
<1>2. (Starting \/ Polling)'
  <2>1. Starting => (Pc = \h140 \/ Pc = \h141 \/ Pc = \h142 \/ Pc = \h144 \/ Pc = \h145 \/ Pc = \h146)
    BY DEF Starting
  <2>2. CASE Starting
    BY <2>1, <2>2, StartingStep
  <2>3. CASE Polling
    BY <2>3, PollingStep
  <2>4. QED
    BY <1>1, <2>2, <2>3
<1>3. Starting' => ~ On5'
  <2>1. ASSUME Starting'
        PROVE  ~ On5'
    <3>1. Starting
      BY <1>1, <2>1, PollingStep
    <3>2. ~ On5 /\ Pc # \h16A
      BY <3>1 DEF IInv, InLockstep, Starting
    <3>3. QED
      BY <3>2 DEF Moves, WriterMoved, Starts5
  <2>2. QED
    BY <2>1
<1>4. QED
  BY <1>2, <1>3, MscWay, ShowingStep DEF InLockstep

-----------------------------------------------------------------------------
(* What the CPU knows.                                                     *)
LEMMA CpuWay ==
  ASSUME IInv, Moves
  PROVE  /\ cpu'.at = 2 => cpu.at = 1
         /\ cpu'.at = 3 => cpu.at = 2
         /\ cpu'.at = 4 => cpu.at = 3 /\ cpu.r5 # NoKey
         /\ cpu'.at = 5 => cpu.at = 4
         /\ cpu'.at = 9 => cpu.at = 8
         /\ cpu'.at = 10 => cpu.at = 9
         /\ cpu'.at \in 5..13 => cpu.at \in 4..12
         /\ cpu'.at \in 0..15
<1>1. CpuRuns /\ cpu.at \in 0..15 /\ cpu'.at \in 0..15
  BY Facts DEF Moves, CpuRuns
<1>2. CASE cpu.at = 1
  BY <1>1, <1>2 DEF CpuRuns
<1>3. CASE cpu.at = 3
  BY <1>1, <1>3 DEF CpuRuns
<1>4. CASE cpu.at = 15
  BY <1>1, <1>4 DEF CpuRuns
<1>5. CASE cpu.at \notin {1, 3, 15}
  <2>1. cpu'.at = cpu.at + 1
    BY <1>1, <1>5 DEF CpuRuns
  <2>2. QED
    BY <1>1, <1>5, <2>1
<1>6. QED
  BY <1>2, <1>3, <1>4, <1>5

LEMMA InHandStep ==
  ASSUME IInv, Moves
  PROVE  /\ InHand' => InHand \/ (cpu.at = 1 /\ KB # NoKey)
         /\ cpu.at = 1 /\ KB # NoKey => InHand' /\ ~ InHand /\ cpu'.at = 2 /\ cpu'.r5 = KB
         /\ InHand /\ cpu.at # 13 => InHand'
         /\ cpu.at = 13 => InHand /\ ~ InHand' /\ cpu'.at = 14
         /\ InHand /\ InHand' => cpu'.r5 = cpu.r5 /\ cpu'.at = cpu.at + 1
<1>1. CpuRuns /\ cpu.at \in 0..15 /\ (cpu.at \in 4..13 => cpu.r5 # NoKey)
  BY Facts DEF Moves
<1>2. CASE cpu.at = 1
  BY <1>1, <1>2 DEF CpuRuns, InHand
<1>3. CASE cpu.at = 3
  BY <1>1, <1>3 DEF CpuRuns, InHand
<1>4. CASE cpu.at = 15
  BY <1>1, <1>4 DEF CpuRuns, InHand
<1>5. CASE cpu.at \notin {1, 3, 15}
  <2>1. cpu'.at = cpu.at + 1 /\ cpu'.r5 = cpu.r5
    BY <1>1, <1>5 DEF CpuRuns
  <2>2. QED
    BY <1>1, <1>5, <2>1 DEF InHand
<1>6. QED
  BY <1>2, <1>3, <1>4, <1>5

LEMMA PendingStep ==
  ASSUME IInv, Moves
  PROVE  /\ Pending' => Pending \/ cpu.at = 13
         /\ Pending => Pending' \/ (On5 /\ P5 = \h1A2)
<1>1. MscMoved /\ WriterMoved /\ C6AfterCpu = Calls /\ C6PGM # 0
  BY DEF Moves
<1>2. Pc \in MscAddresses /\ Showing
  BY DEF IInv, InLockstep
<1>3. C6' # 0 => C6 # 0 \/ cpu.at = 13
  BY <1>1 DEF MscMoved, Calls
<1>4. (Pc' = \h168 => C6 # 0 \/ cpu.at = 13) /\ (Pc' = \h16A => Pc = \h168)
  BY <1>1, MscWay DEF Calls
<1>5. On5' /\ (P5' = \h1A2 \/ P5' = \h1A8) => Pc = \h16A \/ (On5 /\ P5 = \h1A8)
  BY <1>1, <1>2 DEF WriterMoved, Showing, Starts5
<1>6. Pending' => Pending \/ cpu.at = 13
  BY <1>3, <1>4, <1>5 DEF Pending
<1>7. C6 # 0 => C6' # 0 \/ Pc' = \h168
  BY <1>1 DEF MscMoved, Calls
<1>8. Pc = \h168 => Pc' = \h16A
  BY <1>1 DEF MscMoved
<1>9. Pc = \h16A => On5' /\ (P5' = \h1A2 \/ P5' = \h1A8)
  BY <1>1, <1>2 DEF WriterMoved, Showing, Starts5
<1>10. On5 /\ P5 = \h1A8 => On5' /\ P5' = \h1A2
  BY <1>1 DEF WriterMoved, Starts5
<1>11. Pending => Pending' \/ (On5 /\ P5 = \h1A2)
  BY <1>7, <1>8, <1>9, <1>10 DEF Pending
<1>12. QED
  BY <1>6, <1>11

LEMMA HeardGrows ==
  ASSUME NEW s \in Seq(Key), NEW k \in Key
  PROVE  /\ Append(s, k) \in Seq(Key) /\ Len(Append(s, k)) = Len(s) + 1
         /\ Append(s, k)[Len(s) + 1] = k /\ Len(s) \in Nat
         /\ \A i \in 1..Len(s) : Append(s, k)[i] = s[i]
  OBVIOUS

LEMMA CpuKnowsStep ==
  ASSUME IInv, Moves
  PROVE  CpuKnows'
<1>1. /\ CpuRuns /\ cpu.at \in 0..15 /\ KB \in Key \cup {NoKey} /\ NoKey \notin Key
      /\ typed \in Seq(Key) /\ heard \in Seq(Key) /\ Len(heard) \in Nat
      /\ cpu.at \in 4..13 => cpu.r5 \in Key /\ cpu.r5 # NoKey
  BY Facts DEF Moves
<1>2. CpuKnows /\ dispcmd \in Int /\ cpu.r7 \in Int /\ cpu.r7 \in -1..Len(heard)
  BY DEF IInv, CpuKnows
<1>3. TX' = TextAfterCpu
  BY DEF Moves, ScreenMoved
<1>4. CASE cpu.at = 1 /\ KB # NoKey
  <2>1. heard' = Append(heard, KB) /\ KB \in Key
    BY <1>1, <1>4 DEF CpuRuns
  <2>2. /\ heard' \in Seq(Key) /\ Len(heard') = Len(heard) + 1 /\ heard'[Len(heard')] = KB
    BY <1>1, <2>1, HeardGrows
  <2>3. /\ cpu'.at = 2 /\ cpu'.r5 = KB /\ cpu'.r7 = cpu.r7 /\ dispcmd' = dispcmd /\ typed' = typed
        /\ cpu' \in [at : 0..15, r5 : Key \cup {0, NoKey}, r6 : 0..(Half - 1), r7 : Int]
    BY <1>1, <1>4 DEF CpuRuns
  <2>4. dispcmd = Len(heard) - 1
    BY <1>2, <1>4 DEF CpuKnows, InHand
  <2>5. InHand'
    BY <1>4, InHandStep
  <2>6. cpu'.at \in 2..3 /\ cpu'.at <= 10 /\ ~ (cpu'.at \in 4..13) /\ cpu'.at <= 5
        /\ cpu'.at # 9 /\ cpu'.at # 10 /\ cpu'.at # 5
    BY <2>3
  <2>7. /\ Len(heard') > 0 /\ dispcmd' = Len(heard') - 2 /\ cpu'.r7 \in -1..Len(heard')
        /\ cpu'.r5 \in Key \cup {NoKey} /\ cpu'.r5 = heard'[Len(heard')] /\ dispcmd' \in Int
        /\ typed' \in Seq(Key)
    BY <1>1, <1>2, <2>1, <2>2, <2>3, <2>4, SMTT(30)
  <2>8. QED
    BY <2>2, <2>3, <2>5, <2>6, <2>7 DEF CpuKnows
<1>5. CASE ~ (cpu.at = 1 /\ KB # NoKey)
  <2>1. heard' = heard /\ typed' = typed
    BY <1>1, <1>5 DEF CpuRuns
  <2>2. cpu' \in [at : 0..15, r5 : Key \cup {0, NoKey}, r6 : 0..(Half - 1), r7 : Int]
    BY <1>1 DEF CpuRuns
  <2>3. InHand' => InHand /\ cpu'.r5 = cpu.r5 /\ cpu'.at = cpu.at + 1
    BY <1>5, InHandStep
  <2>4. InHand' => Len(heard') > 0 /\ cpu'.r5 = heard'[Len(heard')]
    BY <1>2, <2>1, <2>3 DEF CpuKnows
  <2>5. Pending' => Len(heard') > 0
    BY <1>2, <2>1, PendingStep, InHandStep DEF CpuKnows
  <2>6. cpu'.at \in 2..3 => cpu'.r5 \in Key \cup {NoKey}
    <3>1. CASE cpu.at = 1
      BY <1>1, <3>1 DEF CpuRuns
    <3>2. CASE cpu.at # 1
      <4>1. cpu'.r5 = cpu.r5 /\ (cpu.at \in 2..3 => cpu.r5 \in Key \cup {NoKey})
        BY <1>1, <1>2, <3>2 DEF CpuRuns, CpuKnows
      <4>2. cpu'.at \in 2..3 => cpu.at \in 2..3
        BY <3>2, CpuWay
      <4>3. QED
        BY <4>1, <4>2
    <3>3. QED
      BY <3>1, <3>2
  <2>7. cpu'.at \in 4..13 => cpu'.r5 \in Key
    <3>1. CASE cpu'.at = 4
      <4>1. cpu.at = 3 /\ cpu.r5 # NoKey
        BY <3>1, CpuWay
      <4>2. cpu.r5 \in Key /\ cpu'.r5 = cpu.r5
        BY <1>1, <1>2, <4>1 DEF CpuKnows, CpuRuns
      <4>3. QED
        BY <4>2
    <3>2. CASE cpu'.at \in 5..13
      <4>1. cpu.at \in 4..12
        BY <3>2, CpuWay
      <4>2. cpu.r5 \in Key /\ cpu'.r5 = cpu.r5
        BY <1>1, <4>1, SMTT(30) DEF CpuRuns
      <4>3. QED
        BY <4>2
    <3>3. QED
      BY <3>1, <3>2, CpuWay
  <2>8. InHand /\ cpu.at <= 9 => InHand' /\ cpu'.at <= 10
    BY <1>1, InHandStep, SMTT(30)
  <2>9. InHand' /\ cpu'.at <= 10 => InHand /\ cpu.at <= 9
    BY <1>1, <2>3, SMTT(30)
  <2>10. (InHand' /\ cpu'.at <= 10 => dispcmd' = Len(heard') - 2)
         /\ (~ (InHand' /\ cpu'.at <= 10) => dispcmd' = Len(heard') - 1)
    <3>1. CASE cpu.at = 10
      <4>1. dispcmd' = cpu.r7 /\ InHand /\ cpu.r7 = dispcmd + 1 /\ dispcmd = Len(heard) - 2
        BY <1>1, <1>2, <3>1 DEF CpuRuns, CpuKnows, InHand
      <4>2. ~ (InHand' /\ cpu'.at <= 10)
        BY <2>9, <3>1
      <4>3. QED
        BY <1>1, <1>2, <2>1, <4>1, <4>2
    <3>2. CASE cpu.at # 10
      <4>1. dispcmd' = dispcmd
        BY <1>1, <3>2 DEF CpuRuns
      <4>2. InHand' /\ cpu'.at <= 10 <=> InHand /\ cpu.at <= 10
        BY <1>1, <2>8, <2>9, <3>2, SMTT(30)
      <4>3. QED
        BY <1>1, <1>2, <2>1, <4>1, <4>2 DEF CpuKnows
    <3>3. QED
      BY <3>1, <3>2
  <2>11. /\ cpu'.r7 \in -1..Len(heard') /\ dispcmd' \in Int
         /\ cpu'.at = 9 => cpu'.r7 = dispcmd'
         /\ cpu'.at = 10 => cpu'.r7 = dispcmd' + 1
    <3>1. CASE cpu.at = 8
      <4>1. dispcmd = Len(heard) - 2 /\ Len(heard) > 0
        BY <1>1, <1>2, <3>1 DEF CpuKnows, InHand
      <4>2. cpu'.r7 = dispcmd /\ dispcmd' = dispcmd /\ cpu'.at = 9
        BY <1>1, <3>1 DEF CpuRuns
      <4>3. QED
        BY <1>1, <1>2, <2>1, <4>1, <4>2
    <3>2. CASE cpu.at = 9
      <4>1. dispcmd = Len(heard) - 2 /\ Len(heard) > 0 /\ cpu.r7 = dispcmd
        BY <1>1, <1>2, <3>2 DEF CpuKnows, InHand
      <4>2. cpu'.r7 = cpu.r7 + 1 /\ dispcmd' = dispcmd /\ cpu'.at = 10
        BY <1>1, <3>2 DEF CpuRuns
      <4>3. QED
        BY <1>1, <1>2, <2>1, <4>1, <4>2
    <3>3. CASE cpu.at \notin {8, 9}
      <4>1. cpu'.r7 = cpu.r7 /\ cpu'.at # 9 /\ cpu'.at # 10 /\ dispcmd' \in Int
        <5>1. cpu'.at # 9 /\ cpu'.at # 10
          BY <3>3, CpuWay
        <5>2. cpu'.r7 = cpu.r7 /\ dispcmd' \in Int
          BY <1>1, <1>2, <3>3 DEF CpuRuns
        <5>3. QED
          BY <5>1, <5>2
      <4>2. QED
        BY <1>2, <2>1, <4>1
    <3>4. QED
      BY <3>1, <3>2, <3>3
  <2>12. cpu'.at = 5 => cpu'.r6 = Glyph[cpu'.r5]
    <3>1. cpu'.at = 5 => cpu.at = 4
      BY CpuWay
    <3>2. cpu.at = 4 => cpu'.r6 = Glyph[cpu.r5] /\ cpu'.r5 = cpu.r5
      BY <1>1 DEF CpuRuns
    <3>3. QED
      BY <3>1, <3>2
  <2>13. Len(heard') > 0 /\ ~ (InHand' /\ cpu'.at <= 5) => TX' = Glyph[heard'[Len(heard')]]
    <3>1. CASE cpu.at = 5
      <4>1. InHand /\ cpu.r5 = heard[Len(heard)] /\ cpu.r6 = Glyph[cpu.r5]
        BY <1>1, <1>2, <3>1 DEF CpuKnows, InHand
      <4>2. TX' = cpu.r6
        BY <1>3, <3>1 DEF TextAfterCpu
      <4>3. QED
        BY <2>1, <4>1, <4>2
    <3>2. CASE cpu.at # 5
      <4>1. TX' = TX
        BY <1>3, <3>2 DEF TextAfterCpu
      <4>2. InHand /\ cpu.at <= 5 => InHand' /\ cpu'.at <= 5
        BY <1>1, <3>2, InHandStep, SMTT(30)
      <4>3. QED
        BY <1>2, <2>1, <4>1, <4>2 DEF CpuKnows
    <3>3. QED
      BY <3>1, <3>2
  <2>14. typed' \in Seq(Key) /\ heard' \in Seq(Key)
    BY <1>1, <2>1
  <2>15. QED
    BY <2>2, <2>4, <2>5, <2>6, <2>7, <2>10, <2>11, <2>12, <2>13, <2>14 DEF CpuKnows
<1>6. QED
  BY <1>4, <1>5

-----------------------------------------------------------------------------
(* When BCE 4 polls, and what becomes of KEYBUF.                           *)
PollsNow == Starts4 /\ P4 = \h204

LEMMA TakenStep ==
  ASSUME IInv, Moves
  PROVE  /\ Taken' => \/ Taken /\ cpu.at \in 2..6 /\ cpu'.r5 = cpu.r5
                      \/ cpu.at = 1 /\ KB # NoKey /\ cpu'.r5 = KB
         /\ Taken /\ cpu.at # 7 => Taken'
         /\ cpu.at = 1 /\ KB # NoKey => Taken' /\ ~ Taken
         /\ cpu.at = 7 => Taken /\ ~ Taken'
         /\ Taken => InHand
<1>1. CpuRuns /\ cpu.at \in 0..15 /\ (cpu.at \in 4..13 => cpu.r5 # NoKey)
  BY Facts DEF Moves
<1>2. CASE cpu.at = 1
  BY <1>1, <1>2 DEF CpuRuns, Taken, InHand
<1>3. CASE cpu.at = 3
  BY <1>1, <1>3 DEF CpuRuns, Taken, InHand
<1>4. CASE cpu.at = 15
  BY <1>1, <1>4 DEF CpuRuns, Taken, InHand
<1>5. CASE cpu.at \notin {1, 3, 15}
  <2>1. cpu'.at = cpu.at + 1 /\ cpu'.r5 = cpu.r5
    BY <1>1, <1>5 DEF CpuRuns
  <2>2. QED
    BY <1>1, <1>5, <2>1 DEF Taken, InHand
<1>6. QED
  BY <1>2, <1>3, <1>4, <1>5

LEMMA PollStep ==
  ASSUME IInv, Moves
  PROVE  /\ PollsNow => /\ Quiet \/ (Exception /\ cpu.at = 4)
                        /\ KB' = Answer(kbd) /\ kbd' = Answered(kbd)
                        /\ cpu.at = 1 => KB = NoKey
         /\ ~ PollsNow => KB' = KeyAfterCpu /\ kbd' = kbd
         /\ Quiet => ~ Taken'
         /\ Quiet /\ ~ PollsNow => Quiet'
         /\ PollsNow => Pc = \h144 \/ Pc = \h149
<1>1. KeysMoved
  BY DEF Moves
<1>2. PollsNow => KB' = Answer(kbd) /\ kbd' = Answered(kbd)
  BY <1>1 DEF KeysMoved, PollsNow
<1>3. ~ PollsNow => KB' = KeyAfterCpu /\ kbd' = kbd
  BY <1>1 DEF KeysMoved, PollsNow
<1>4. Quiet => ~ Taken'
  BY TakenStep DEF Quiet
<1>5. Quiet /\ ~ PollsNow => Quiet'
  BY <1>3, <1>4 DEF Quiet, KeyAfterCpu
<1>6. PollsNow => Quiet \/ (Exception /\ cpu.at = 4)
  <2>1. CASE Starting
    <3>1. PollsNow => Pc = \h144 /\ cpu.at = 3 /\ First
      BY <2>1 DEF PollsNow, Starting, First
    <3>2. PollsNow => KB = NoKey /\ cpu.r5 = NoKey
      BY <3>1 DEF IInv, Sampled
    <3>3. QED
      BY <3>2 DEF Quiet, Taken
  <2>2. CASE ~ Starting
    BY <2>2 DEF PollsNow, IInv, Sampled
  <2>3. QED
    BY <2>1, <2>2
<1>7. PollsNow /\ cpu.at = 1 => KB = NoKey
  BY <1>6 DEF Quiet
<1>8. PollsNow => Pc = \h144 \/ Pc = \h149
  BY DEF PollsNow, IInv, InLockstep, Starting, Polling, Starts4
<1>9. QED
  BY <1>2, <1>3, <1>4, <1>5, <1>6, <1>7, <1>8

LEMMA SampledStep ==
  ASSUME IInv, Moves
  PROVE  Sampled'
<1>1. /\ Sampled /\ early' = early /\ CpuRuns /\ cpu.at \in 0..15
      /\ C6AfterCpu = Calls /\ MscMoved
      /\ Starting \/ Polling
  BY Facts DEF Moves, CpuRuns, IInv, InLockstep
<1>2. Starting' => Starting
  BY <1>1, PollingStep
(* the first round *)
<1>3. ASSUME First'
      PROVE  First /\ (Pc = \h140 \/ Pc = \h141 \/ Pc = \h142) /\ ~ PollsNow
  <2>1. Starting /\ (Pc' = \h140 \/ Pc' = \h141 \/ Pc' = \h142 \/ Pc' = \h144)
    BY <1>2, <1>3 DEF First
  <2>2. Pc = \h140 \/ Pc = \h141 \/ Pc = \h142
    <3>1. Pc = \h144 => Pc' = \h145
      BY <2>1, StartingStep
    <3>2. Pc = \h145 => Pc' = \h146
      BY <2>1, StartingStep
    <3>3. Pc = \h146 => Pc' = \h148
      BY <2>1, StartingStep
    <3>4. QED
      BY <2>1, <3>1, <3>2, <3>3 DEF Starting
  <2>3. QED
    BY <2>1, <2>2, PollStep DEF First
<1>4. ASSUME First'
      PROVE  /\ KB' = NoKey /\ heard' = <<>> /\ (cpu'.at \in 2..3 => cpu'.r5 = NoKey)
             /\ ~ early' => kbd'.keys = <<>>
             /\ Pc' = \h144 => Acc' = NoKey
  <2>1. First /\ ~ PollsNow /\ (Pc = \h140 \/ Pc = \h141 \/ Pc = \h142) /\ Starting
    BY <1>3, <1>4 DEF First
  <2>2. KB = NoKey /\ heard = <<>> /\ (cpu.at \in 2..3 => cpu.r5 = NoKey)
        /\ (~ early => kbd.keys = <<>>)
    BY <1>1, <2>1 DEF Sampled
  <2>3. KB' = KeyAfterCpu /\ kbd' = kbd /\ KeyAfterCpu = NoKey
    BY <2>1, <2>2, PollStep DEF KeyAfterCpu
  <2>4. heard' = heard
    BY <1>1, <2>2 DEF CpuRuns
  <2>5. cpu'.at \in 2..3 => cpu'.r5 = NoKey
    <3>1. cpu.at = 1 => cpu'.r5 = KB
      BY <1>1 DEF CpuRuns
    <3>2. cpu.at = 2 => cpu'.r5 = cpu.r5
      BY <1>1 DEF CpuRuns
    <3>3. cpu'.at \in 2..3 => cpu.at = 1 \/ cpu.at = 2
      BY CpuWay
    <3>4. QED
      BY <2>2, <3>1, <3>2, <3>3
  <2>6. Pc' = \h144 => Acc' = NoKey
    BY <2>3, MscWay
  <2>7. QED
    BY <1>1, <2>2, <2>3, <2>4, <2>5, <2>6
<1>5. Starting' /\ Pc' = \h145 => Acc' = 0
  <2>1. Pc' = \h145 => Pc = \h144 /\ (Acc' = 0 <=> Acc = NoKey)
    BY MscWay
  <2>2. Starting /\ Pc = \h144 => First
    BY DEF First
  <2>3. QED
    BY <1>1, <1>2, <2>1, <2>2 DEF Sampled
<1>6. Starting' /\ Pc' = \h146 => cpu'.r5 = KB'
  <2>1. ASSUME Starting', Pc' = \h146
        PROVE  cpu'.r5 = KB'
    <3>1. Pc = \h145 /\ Starting
      BY <1>2, <2>1, MscWay
    <3>2. cpu.at = 1 /\ ~ PollsNow
      BY <3>1, PollStep DEF Starting
    <3>3. KB' = KB /\ cpu'.r5 = KB
      BY <1>1, <3>2, PollStep DEF KeyAfterCpu, CpuRuns
    <3>4. QED
      BY <3>3
  <2>2. QED
    BY <2>1
<1>7. Starting' /\ ~ early' => Quiet'
  <2>1. ASSUME Starting', ~ early'
        PROVE  Quiet'
    <3>1. Starting /\ Quiet
      BY <1>1, <1>2, <2>1 DEF Sampled
    <3>2. CASE PollsNow
      <4>1. First
        BY <3>1, <3>2, PollStep DEF First, Starting
      <4>2. kbd.keys = <<>>
        BY <1>1, <2>1, <4>1 DEF Sampled
      <4>3. KB' = NoKey
        BY <3>2, <4>2, PollStep DEF Answer
      <4>4. QED
        BY <3>1, <4>3, PollStep DEF Quiet
    <3>3. CASE ~ PollsNow
      BY <3>1, <3>3, PollStep
    <3>4. QED
      BY <3>2, <3>3
  <2>2. QED
    BY <2>1
(* the later rounds *)
<1>8. ~ Starting' /\ Pc' = \h144 /\ Acc' = NoKey => Quiet'
  <2>1. ASSUME Pc' = \h144, Acc' = NoKey
        PROVE  Quiet'
    <3>1. Pc = \h142 /\ KeyAfterCpu = NoKey
      BY <2>1, MscWay
    <3>2. ~ PollsNow
      BY <3>1, PollStep
    <3>3. KB' = NoKey
      BY <3>1, <3>2, PollStep
    <3>4. ~ Taken'
      <4>1. CASE cpu.at = 7
        BY <4>1, TakenStep
      <4>2. CASE cpu.at # 7
        <5>1. KB = NoKey
          BY <3>1, <4>2 DEF KeyAfterCpu
        <5>2. ~ Exception
          BY <3>1 DEF Exception
        <5>3. ~ Taken
          BY <1>1, <5>1, <5>2 DEF Sampled, Taken
        <5>4. QED
          BY <5>1, <5>3, TakenStep
      <4>3. QED
        BY <4>1, <4>2
    <3>5. QED
      BY <3>3, <3>4 DEF Quiet
  <2>2. QED
    BY <2>1
<1>9. ~ Starting' /\ Pc' = \h145 /\ Acc' = 0 => Quiet'
  <2>1. ASSUME ~ Starting', Pc' = \h145, Acc' = 0
        PROVE  Quiet'
    <3>1. Pc = \h144 /\ Acc = NoKey
      BY <2>1, MscWay
    <3>2. ~ Starting
      BY <2>1, <3>1, StartingStep
    <3>3. Polling /\ Quiet
      BY <1>1, <3>1, <3>2 DEF Sampled
    <3>4. ~ PollsNow
      BY <3>1, <3>3 DEF Polling, PollsNow
    <3>5. QED
      BY <3>3, <3>4, PollStep
  <2>2. QED
    BY <2>1
<1>10. ~ Starting' /\ Pc' = \h146 => Quiet'
  <2>1. ASSUME ~ Starting', Pc' = \h146
        PROVE  Quiet'
    <3>1. Pc = \h145 /\ Acc = 0
      BY <2>1, MscWay
    <3>2. ~ Starting
      BY <2>1, <3>1, StartingStep
    <3>3. Quiet
      BY <1>1, <3>1, <3>2 DEF Sampled
    <3>4. ~ PollsNow
      BY <3>1, PollStep
    <3>5. QED
      BY <3>3, <3>4, PollStep
  <2>2. QED
    BY <2>1
<1>11. Pc' = \h148 => Quiet' \/ (early' /\ cpu'.at = 3 /\ Taken' /\ C6' = 0)
  <2>1. ASSUME Pc' = \h148, ~ Quiet'
        PROVE  early' /\ cpu'.at = 3 /\ Taken' /\ C6' = 0
    <3>1. Pc = \h146
      BY <2>1, MscWay
    <3>2. ~ PollsNow
      BY <3>1, PollStep
    <3>3. Starting /\ ~ Quiet
      BY <1>1, <2>1, <3>1, <3>2, PollStep DEF Sampled
    <3>4. early /\ cpu.r5 = KB /\ cpu.at = 2
      BY <1>1, <3>1, <3>3 DEF Sampled, Starting
    <3>5. Taken
      BY <3>3, <3>4 DEF Quiet, Taken
    <3>6. QED
      BY <1>1, <3>1, <3>3, <3>4, <3>5, StartingStep, TakenStep
  <2>2. QED
    BY <2>1
<1>12. ~ Starting' /\ P4' = \h204 => Quiet' \/ (Exception' /\ cpu'.at = 4)
  <2>1. ASSUME ~ Starting', P4' = \h204, ~ Quiet'
        PROVE  Exception' /\ cpu'.at = 4
    <3>1. ~ Starting /\ P4 = \h20A /\ Pc = \h148
      <4>1. ~ Starting
        <5>1. ASSUME Starting
              PROVE  FALSE
          <6>1. Pc = \h146 /\ P4' = \h20A
            BY <2>1, <5>1, StartingStep DEF Starting
          <6>2. QED
            BY <2>1, <6>1
        <5>2. QED
          BY <5>1
      <4>2. Polling /\ PollerMoved
        BY <1>1, <4>1 DEF Moves
      <4>3. QED
        BY <2>1, <4>1, <4>2 DEF Polling, PollerMoved, Starts4
    <3>2. ~ PollsNow
      BY <3>1, PollStep
    <3>3. early /\ cpu.at = 3 /\ Taken /\ C6 = 0
      BY <1>1, <2>1, <3>1, <3>2, PollStep DEF Sampled
    <3>4. cpu.r5 # NoKey /\ cpu'.at = 4 /\ cpu'.r5 = cpu.r5
      BY <1>1, <3>3 DEF Taken, CpuRuns
    <3>5. C6' = 0 /\ Pc' = \h149
      BY <1>1, <3>1, <3>3 DEF MscMoved, Calls
    <3>6. QED
      BY <1>1, <3>3, <3>4, <3>5 DEF Exception
  <2>2. QED
    BY <2>1
<1>13. Taken' => cpu'.r5 = KB' \/ Exception'
  <2>1. ASSUME Taken'
        PROVE  cpu'.r5 = KB' \/ Exception'
    <3>1. CASE cpu.at = 1 /\ KB # NoKey /\ cpu'.r5 = KB
      <4>1. ~ PollsNow /\ KeyAfterCpu = KB
        BY <3>1, PollStep DEF KeyAfterCpu
      <4>2. QED
        BY <3>1, <4>1, PollStep
    <3>2. CASE Taken /\ cpu.at \in 2..6 /\ cpu'.r5 = cpu.r5
      <4>1. CASE Exception
        <5>1. Calls = 0 /\ early' /\ cpu'.r5 # NoKey
          BY <1>1, <3>2, <4>1 DEF Exception, Calls
        <5>2. C6' = 0
          BY <1>1, <5>1 DEF MscMoved
        <5>3. CASE Pc = \h149 /\ cpu.at = 4
          <6>1. Pc' = \h14A /\ cpu'.at = 5
            BY <1>1, <5>3 DEF MscMoved, CpuRuns
          <6>2. QED
            BY <5>1, <5>2, <6>1 DEF Exception
        <5>4. CASE Pc = \h14A /\ cpu.at = 5
          <6>1. Pc' = \h140 /\ cpu'.at = 6
            BY <1>1, <5>4 DEF MscMoved, CpuRuns
          <6>2. QED
            BY <5>1, <5>2, <6>1 DEF Exception
        <5>5. CASE Pc = \h140 /\ cpu.at = 6
          <6>1. Pc' = \h141 /\ cpu'.at = 7
            BY <1>1, <5>1, <5>5 DEF MscMoved, CpuRuns
          <6>2. QED
            BY <5>1, <5>2, <6>1 DEF Exception
        <5>6. QED
          BY <3>2, <4>1, <5>3, <5>4, <5>5 DEF Exception
      <4>2. CASE ~ Exception
        <5>1. ~ PollsNow /\ cpu.r5 = KB
          BY <1>1, <3>2, <4>2, PollStep DEF Sampled, Quiet
        <5>2. KB' = KB
          BY <3>2, <5>1, PollStep DEF KeyAfterCpu
        <5>3. QED
          BY <3>2, <5>1, <5>2
      <4>3. QED
        BY <4>1, <4>2
    <3>3. QED
      BY <2>1, <3>1, <3>2, TakenStep
  <2>2. QED
    BY <2>1
<1>14. QED
  BY <1>4, <1>5, <1>6, <1>7, <1>8, <1>9, <1>10, <1>11, <1>12, <1>13 DEF Sampled

-----------------------------------------------------------------------------
(* The keys keep their number and their order.                             *)
LEMMA QueueFacts ==
  ASSUME NEW h \in Seq(Key), NEW q \in Seq(Key), NEW k \in Key
  PROVE  /\ Append(h, k) \in Seq(Key) /\ Len(Append(h, k)) = Len(h) + 1
         /\ q # <<>> => /\ Head(q) \in Key /\ Tail(q) \in Seq(Key) /\ Len(Tail(q)) = Len(q) - 1
                        /\ (h \o <<Head(q)>>) \o Tail(q) = (h \o <<>>) \o q
         /\ Len(h) \in Nat /\ (Len(h) = 0 <=> h = <<>>)
         /\ (h \o <<>>) \o q = h \o q /\ Len(h \o q) = Len(h) + Len(q)
         /\ h \o <<>> = h
<1>1. Append(h, k) \in Seq(Key)
  BY AppendProperties
<1>2. h \o <<>> = h
  BY ConcatEmptySeq
<1>3. ASSUME q # <<>>
      PROVE  /\ Head(q) \in Key /\ Tail(q) \in Seq(Key) /\ Len(Tail(q)) = Len(q) - 1
             /\ (h \o <<Head(q)>>) \o Tail(q) = (h \o <<>>) \o q
  <2>1. Head(q) \in Key /\ Tail(q) \in Seq(Key) /\ Len(Tail(q)) = Len(q) - 1
    BY <1>3, HeadTailProperties
  <2>2. <<Head(q)>> \in Seq(Key)
    BY <2>1
  <2>3. <<Head(q)>> \o Tail(q) = q
    <3>1. <<Head(q)>> \o Tail(q) \in Seq(Key) /\ Len(<<Head(q)>> \o Tail(q)) = Len(q)
      BY <2>1, <2>2, ConcatProperties
    <3>2. \A i \in 1..Len(q) : (<<Head(q)>> \o Tail(q))[i] = q[i]
      BY <1>3, <2>1
    <3>3. QED
      BY <3>1, <3>2, SeqEqual
  <2>4. (h \o <<Head(q)>>) \o Tail(q) = h \o (<<Head(q)>> \o Tail(q))
    BY <2>1, <2>2, ConcatAssociative
  <2>5. QED
    BY <1>2, <2>1, <2>3, <2>4
<1>4. Len(h) \in Nat /\ (Len(h) = 0 <=> h = <<>>)
  BY EmptySeq, LenProperties
<1>5. Len(h \o q) = Len(h) + Len(q)
  BY ConcatProperties
<1>6. Len(Append(h, k)) = Len(h) + 1
  BY AppendProperties
<1>7. QED
  BY <1>1, <1>2, <1>3, <1>4, <1>5, <1>6

LEMMA QueuePressed ==
  ASSUME NEW h \in Seq(Key), NEW u \in Seq(Key), NEW q \in Seq(Key), NEW k \in Key
  PROVE  Append((h \o u) \o q, k) = (h \o u) \o Append(q, k)
<1>1. h \o u \in Seq(Key) /\ <<k>> \in Seq(Key) /\ (h \o u) \o q \in Seq(Key)
  BY ConcatProperties
<1>2. Append((h \o u) \o q, k) = ((h \o u) \o q) \o <<k>>
  BY <1>1, AppendIsConcat
<1>3. ((h \o u) \o q) \o <<k>> = (h \o u) \o (q \o <<k>>)
  BY <1>1, ConcatAssociative, SMTT(30)
<1>4. q \o <<k>> = Append(q, k)
  BY AppendIsConcat
<1>5. QED
  BY <1>2, <1>3, <1>4

LEMMA SumsGrow ==
  ASSUME NEW a, NEW b, NEW c, NEW x, NEW y, NEW z, a \in Nat, b \in Nat, c \in Nat,
         x \in Nat, y \in Nat, z \in Nat
  PROVE  /\ a = x /\ b <= y /\ c = z => a + b + c <= x + y + z
         /\ \A n \in Nat : a + b + c <= x + y + z /\ x + y + z <= n => a + b + c <= n
  OBVIOUS

LEMMA SumsShift ==
  ASSUME NEW a, NEW b, NEW c, NEW y, NEW z, a \in Nat, b \in Nat, c \in Nat,
         y \in Nat, z \in Nat, b <= 1, c = z - 1
  PROVE  a + b + c <= a + y + z
  OBVIOUS

LEMMA CountedStep ==
  ASSUME IInv, Moves
  PROVE  Counted'
<1>1. /\ Counted /\ typed' = typed /\ early' = early /\ hurried' = hurried
      /\ cpu.at = 1 /\ KB # NoKey => heard' = Append(heard, KB)
      /\ ~ (cpu.at = 1 /\ KB # NoKey) => heard' = heard
  BY DEF IInv, Moves, CpuRuns
<1>2. heard \in Seq(Key) /\ kbd.keys \in Seq(Key) /\ KB \in Key \cup {NoKey} /\ typed \in Seq(Key)
      /\ kbd \in Display
  BY Facts DEF IInv, ScreenShape
<1>3. Len(heard) \in Nat /\ Len(kbd.keys) \in Nat /\ Len(typed) \in Nat /\ MaxKeys \in Nat
  BY <1>2, LenProperties, CrewAssumption
<1> DEFINE w == Waiting
           w2 == Waiting'
<1>4. w \in Nat /\ w2 \in Nat /\ w <= 1 /\ w2 <= 1 /\ w = Waiting /\ w2 = Waiting'
  BY DEF Waiting
<1>5. Len(heard') + w2 + Len(kbd'.keys) <= Len(heard) + w + Len(kbd.keys)
  <2>1. CASE cpu.at = 1 /\ KB # NoKey
    <3>1. ~ PollsNow /\ kbd' = kbd
      BY <2>1, PollStep
    <3>2. Taken' /\ ~ Taken
      BY <2>1, TakenStep
    <3>3. w2 = 0 /\ w = 1
      BY <2>1, <3>2 DEF Waiting
    <3>4. Len(heard') = Len(heard) + 1
      BY <1>1, <1>2, <2>1, HeardGrows
    <3> HIDE DEF w, w2
    <3>5. QED
      BY <1>3, <3>1, <3>3, <3>4
  <2>2. CASE PollsNow
    <3>1. heard' = heard
      BY <1>1, <2>2, PollStep
    <3>2. kbd' = Answered(kbd) /\ KB' = Answer(kbd)
      BY <2>2, PollStep
    <3>3. kbd'.keys = IF kbd.keys = <<>> THEN <<>> ELSE Tail(kbd.keys)
      BY <1>2, <3>2, Displays
    <3>4. CASE kbd.keys = <<>>
      <4>1. KB' = NoKey /\ kbd'.keys = kbd.keys
        BY <3>2, <3>3, <3>4 DEF Answer
      <4>2. w2 = 0
        BY <4>1 DEF Waiting
      <4> HIDE DEF w, w2
      <4>3. QED
        BY <1>3, <1>4, <3>1, <4>1, <4>2
    <3>5. CASE kbd.keys # <<>>
      <4>1. Len(kbd'.keys) = Len(kbd.keys) - 1 /\ Len(kbd'.keys) \in Nat
        BY <1>2, <3>3, <3>5, HeadTailProperties, LenProperties
      <4>2. Len(heard') = Len(heard)
        BY <3>1
      <4> HIDE DEF w, w2
      <4>3. QED
        BY <1>3, <1>4, <4>1, <4>2, SumsShift
    <3>6. QED
      BY <3>4, <3>5
  <2>3. CASE ~ PollsNow /\ ~ (cpu.at = 1 /\ KB # NoKey)
    <3>1. heard' = heard /\ kbd' = kbd /\ KB' = KeyAfterCpu
      BY <1>1, <2>3, PollStep
    <3>2. w2 <= w
      <4>1. CASE Taken
        <5>1. w2 = 0
          BY <3>1, <4>1, TakenStep DEF Waiting, KeyAfterCpu
        <5>2. QED
          BY <1>4, <5>1
      <4>2. CASE ~ Taken
        <5>1. KB' = NoKey \/ KB' = KB
          BY <3>1 DEF KeyAfterCpu
        <5>2. w2 = 1 => w = 1
          BY <4>2, <5>1 DEF Waiting
        <5>3. QED
          BY <1>4, <5>2
      <4>3. QED
        BY <4>1, <4>2
    <3>3. Len(heard') = Len(heard) /\ Len(kbd'.keys) = Len(kbd.keys)
      BY <3>1
    <3> HIDE DEF w, w2
    <3>4. QED
      BY <1>3, <1>4, <3>2, <3>3, SumsGrow, ZenonT(60)
  <2>4. QED
    BY <2>1, <2>2, <2>3
<1>6. Len(heard) + w + Len(kbd.keys) <= Len(typed) /\ Len(typed) <= MaxKeys
  BY <1>1, <1>4 DEF Counted
<1>7. Len(heard') \in Nat /\ Len(kbd'.keys) \in Nat
  <2>1. heard' \in Seq(Key)
    BY CpuKnowsStep DEF CpuKnows
  <2>2. kbd' \in Display
    BY ShapesStep DEF ScreenShape
  <2>3. QED
    BY <2>1, <2>2, Displays, LenProperties
<1>8. Len(heard') + Waiting' + Len(kbd'.keys) <= Len(typed')
  <2>1. Len(typed') = Len(typed)
    BY <1>1
  <2> HIDE DEF w, w2
  <2>2. Len(heard') + w2 + Len(kbd'.keys) <= Len(typed')
    BY <1>3, <1>4, <1>5, <1>6, <1>7, <2>1, SumsGrow, ZenonT(60)
  <2>3. QED
    BY <1>4, <2>2
<1>9. QED
  BY <1>1, <1>6, <1>8 DEF Counted

LEMMA KeptStep ==
  ASSUME IInv, Moves
  PROVE  Kept'
<1>1. /\ typed' = typed /\ early' = early /\ hurried' = hurried
      /\ cpu.at = 1 /\ KB # NoKey => heard' = Append(heard, KB)
      /\ ~ (cpu.at = 1 /\ KB # NoKey) => heard' = heard
  BY DEF Moves, CpuRuns
<1>2. /\ heard \in Seq(Key) /\ kbd.keys \in Seq(Key) /\ KB \in Key \cup {NoKey} /\ NoKey \notin Key
      /\ kbd \in Display
  BY Facts DEF IInv, ScreenShape
<1>3. SUFFICES ASSUME ~ early \/ Calm, KeysKept
               PROVE  KeysKept'
  <2>1. Calm' <=> Calm
    BY <1>1 DEF Calm
  <2>2. Kept
    BY DEF IInv
  <2>3. QED
    BY <1>1, <2>1, <2>2 DEF Kept
<1>4. typed = (heard \o Unheard) \o kbd.keys
  BY <1>3 DEF KeysKept
<1>5. SUFFICES (heard' \o Unheard') \o kbd'.keys = (heard \o Unheard) \o kbd.keys
  BY <1>1, <1>4 DEF KeysKept
<1>6. CASE cpu.at = 1 /\ KB # NoKey
  <2>1. heard' = Append(heard, KB) /\ kbd' = kbd /\ Taken' /\ ~ Taken
    BY <1>1, <1>6, PollStep, TakenStep
  <2>2. Unheard = <<KB>> /\ Unheard' = <<>>
    BY <1>6, <2>1 DEF Unheard, KB
  <2>3. KB \in Key
    BY <1>2, <1>6
  <2>4. (Append(heard, KB) \o <<>>) \o kbd.keys = (heard \o <<KB>>) \o kbd.keys
    <3>1. Append(heard, KB) = heard \o <<KB>> /\ Append(heard, KB) \in Seq(Key)
      BY <1>2, <2>3, AppendIsConcat, AppendProperties
    <3>2. Append(heard, KB) \o <<>> = Append(heard, KB)
      BY <3>1, ConcatEmptySeq
    <3>3. QED
      BY <3>1, <3>2
  <2>5. QED
    BY <2>1, <2>2, <2>4
<1>7. CASE PollsNow
  <2>1. heard' = heard /\ kbd' = Answered(kbd) /\ KB' = Answer(kbd)
    BY <1>1, <1>7, PollStep
  <2>2. kbd'.keys = IF kbd.keys = <<>> THEN <<>> ELSE Tail(kbd.keys)
    BY <1>2, <2>1, Displays
  <2>3. Unheard = <<>>
    <3>1. Quiet \/ Taken
      BY <1>7, PollStep DEF Exception, Taken
    <3>2. QED
      BY <3>1 DEF Quiet, Unheard, KB
  <2>4. CASE kbd.keys = <<>>
    <3>1. KB' = NoKey
      BY <2>1, <2>4 DEF Answer
    <3>2. Unheard' = <<>>
      BY <3>1 DEF Unheard, KB
    <3>3. QED
      BY <2>1, <2>2, <2>3, <2>4, <3>2
  <2>5. CASE kbd.keys # <<>>
    <3>1. Head(kbd.keys) \in Key
          /\ (heard \o <<Head(kbd.keys)>>) \o Tail(kbd.keys) = (heard \o <<>>) \o kbd.keys
      <4>1. \E k \in Key : TRUE
        BY <1>2, <2>5, HeadTailProperties
      <4>2. QED
        BY <1>2, <2>5, <4>1, QueueFacts, ZenonT(60)
    <3>2. Quiet
      <4>1. ASSUME Exception, cpu.at = 4
            PROVE  FALSE
        <5>1. Calm /\ InHand
          BY <1>3, <4>1 DEF Exception, InHand
        <5>2. Len(heard) = Len(typed)
          BY <5>1 DEF IInv, Echo
        <5>3. Len(typed) = Len(heard) + Len(kbd.keys)
          BY <1>2, <1>4, <2>3, ConcatProperties, ConcatEmptySeq
        <5>4. Len(heard) \in Nat /\ Len(kbd.keys) \in Nat \ {0}
          BY <1>2, <2>5, EmptySeq, LenProperties
        <5>5. QED
          BY <5>2, <5>3, <5>4
      <4>2. QED
        BY <1>7, <4>1, PollStep
    <3>3. ~ Taken' /\ KB' = Head(kbd.keys) /\ KB' # NoKey
      BY <1>2, <2>1, <2>5, <3>1, <3>2, PollStep DEF Answer
    <3>4. Unheard' = <<Head(kbd.keys)>>
      BY <3>3 DEF Unheard, KB
    <3>5. QED
      BY <2>1, <2>2, <2>3, <2>5, <3>1, <3>4
  <2>6. QED
    BY <2>4, <2>5
<1>8. CASE ~ PollsNow /\ ~ (cpu.at = 1 /\ KB # NoKey)
  <2>1. heard' = heard /\ kbd' = kbd /\ KB' = KeyAfterCpu
    BY <1>1, <1>8, PollStep
  <2>2. Unheard' = Unheard
    <3>1. CASE cpu.at = 7
      <4>1. KB' = NoKey /\ Taken
        BY <2>1, <3>1, TakenStep DEF KeyAfterCpu
      <4>2. Unheard' = <<>> /\ Unheard = <<>>
        BY <4>1 DEF Unheard, KB
      <4>3. QED
        BY <4>2
    <3>2. CASE cpu.at # 7
      <4>1. KB' = KB
        BY <2>1, <3>2 DEF KeyAfterCpu
      <4>2. Taken' <=> Taken
        BY <1>8, <3>2, TakenStep
      <4>3. QED
        BY <4>1, <4>2 DEF Unheard, KB
    <3>3. QED
      BY <3>1, <3>2
  <2>3. QED
    BY <2>1, <2>2
<1>9. QED
  BY <1>6, <1>7, <1>8

-----------------------------------------------------------------------------
(* The screen shows what was typed.                                        *)
LEMMA ThreeParts ==
  ASSUME NEW a, NEW b, NEW c, NEW d, a \in Nat, b \in Nat, c \in Nat, d \in Nat, a = b + c + d
  PROVE  b <= a /\ (c = 1 => b + 1 <= a) /\ (b = a => c = 0 /\ d = 0)
  OBVIOUS

LEMMA CalmKeys ==
  ASSUME IInv, Calm
  PROVE  /\ Len(heard) \in Nat /\ Len(typed) \in Nat /\ Len(heard) <= Len(typed)
         /\ KB # NoKey /\ ~ Taken => Len(heard) + 1 <= Len(typed)
         /\ Len(heard) = Len(typed) => typed = heard /\ (KB = NoKey \/ Taken)
<1>1. /\ heard \in Seq(Key) /\ kbd.keys \in Seq(Key) /\ KB \in Key \cup {NoKey} /\ NoKey \notin Key
      /\ typed \in Seq(Key)
  BY Facts
<1>2. typed = (heard \o Unheard) \o kbd.keys
  BY DEF IInv, Kept, KeysKept
<1>3. Unheard \in Seq(Key) /\ Len(Unheard) \in Nat
      /\ (KB # NoKey /\ ~ Taken => Len(Unheard) = 1)
  <2>1. CASE KB = NoKey \/ Taken
    <3>1. Unheard = <<>>
      BY <2>1 DEF Unheard, KB
    <3>2. QED
      BY <2>1, <3>1
  <2>2. CASE ~ (KB = NoKey \/ Taken)
    <3>1. Unheard = <<KB>> /\ KB \in Key
      BY <1>1, <2>2 DEF Unheard, KB
    <3>2. QED
      BY <3>1
  <2>3. QED
    BY <2>1, <2>2
<1>4. heard \o Unheard \in Seq(Key) /\ Len(heard \o Unheard) = Len(heard) + Len(Unheard)
  BY <1>1, <1>3, ConcatProperties
<1>5. Len(typed) = Len(heard) + Len(Unheard) + Len(kbd.keys)
  BY <1>1, <1>2, <1>4, ConcatProperties
<1>6. Len(heard) \in Nat /\ Len(typed) \in Nat /\ Len(kbd.keys) \in Nat
  BY <1>1, LenProperties
<1>7. Len(heard) <= Len(typed)
  BY <1>3, <1>5, <1>6, ThreeParts
<1>8. KB # NoKey /\ ~ Taken => Len(heard) + 1 <= Len(typed)
  BY <1>3, <1>5, <1>6, ThreeParts
<1>9. ASSUME Len(heard) = Len(typed)
      PROVE  typed = heard /\ (KB = NoKey \/ Taken)
  <2>1. Len(Unheard) = 0 /\ Len(kbd.keys) = 0
    BY <1>3, <1>5, <1>6, <1>9, ThreeParts
  <2>2. Unheard = <<>> /\ kbd.keys = <<>>
    BY <1>1, <1>3, <2>1, EmptySeq
  <2>3. typed = heard
    BY <1>1, <1>2, <2>2, ConcatEmptySeq
  <2>4. QED
    BY <1>3, <2>1, <2>3
<1>10. QED
  BY <1>6, <1>7, <1>8, <1>9

(* A glyph reaches the screen in the step after BCE 5 has its command, and *)
(* no call is overtaken by the next.                                       *)
Behind ==
  C6 # 0 => Pc # \h168 /\ Pc # \h16A /\ ~ (On5 /\ (P5 = \h1A2 \/ P5 = \h1A8))

LEMMA CallsWait ==
  ASSUME IInv, Moves
  PROVE  /\ ~ Pending \/ (Behind /\ cpu.at # 13) => Behind'
         /\ ~ (On5 /\ P5 = \h1A2) => crt' = crt
         /\ On5 /\ P5 = \h1A2 => crt' = Written(crt, dispcmd', TX')
         /\ On5 /\ P5 = \h1A2 /\ Behind /\ cpu.at # 13 => ~ Pending'
<1>1. MscMoved /\ WriterMoved /\ C6AfterCpu = Calls /\ ScreenMoved
  BY DEF Moves
<1>2. Pc \in MscAddresses /\ Showing
  BY DEF IInv, InLockstep
<1>3. On5' /\ (P5' = \h1A2 \/ P5' = \h1A8) => Pc = \h16A \/ (On5 /\ P5 = \h1A8)
  BY <1>1, <1>2 DEF WriterMoved, Showing, Starts5
<1>4. (Pc' = \h168 => C6' = 0) /\ (Pc' = \h16A => Pc = \h168)
  BY <1>1, MscWay DEF MscMoved
<1>5. ~ Pending => Behind'
  BY <1>3, <1>4 DEF Pending, Behind
<1>6. cpu.at # 13 /\ C6' # 0 => C6 # 0
  BY <1>1 DEF MscMoved, Calls
<1>7. Behind /\ cpu.at # 13 => Behind'
  BY <1>3, <1>4, <1>6 DEF Behind
<1>8. Starts5 /\ P5 = \h1A2 <=> On5 /\ P5 = \h1A2
  BY <1>2 DEF Starts5, Showing
<1>9. /\ ~ (On5 /\ P5 = \h1A2) => crt' = crt
      /\ On5 /\ P5 = \h1A2 => crt' = Written(crt, dispcmd', TX')
  BY <1>1, <1>8 DEF ScreenMoved
<1>10. ASSUME On5, P5 = \h1A2, Behind, cpu.at # 13
       PROVE  ~ Pending'
  <2>1. C6' = 0
    BY <1>6, <1>10 DEF Behind
  <2>2. Pc = \h16B \/ Pc = \h141
    BY <1>2, <1>10 DEF Showing
  <2>3. Pc' # \h168 /\ Pc' # \h16A
    BY <1>1, <2>2 DEF MscMoved
  <2>4. ~ (On5' /\ (P5' = \h1A2 \/ P5' = \h1A8))
    BY <1>3, <1>10, <2>2
  <2>5. QED
    BY <2>1, <2>3, <2>4 DEF Pending
<1>11. QED
  BY <1>5, <1>7, <1>9, <1>10

LEMMA GlyphShown ==
  ASSUME IInv, Moves, Calm, On5, P5 = \h1A2
  PROVE  Screen(Len(typed))' /\ KB = NoKey /\ ~ InHand /\ heard' = heard /\ cpu.at # 13
<1> DEFINE n == Len(typed)
           g == Glyph[typed[n]]
<1>1. Pending /\ Echo
  BY DEF Pending, IInv
<1>2. Len(heard) = n /\ ~ InHand /\ Screen(n - 1)
  BY <1>1 DEF Echo, Done
<1>3. typed = heard /\ (KB = NoKey \/ Taken) /\ n \in Nat
  BY <1>2, CalmKeys
<1>4. KB = NoKey /\ cpu.at \notin 4..13
  <2>1. cpu.at \in 4..13 => cpu.r5 # NoKey
    BY Facts
  <2>2. QED
    BY <1>2, <1>3, <2>1, TakenStep DEF InHand
<1>5. n > 0 /\ dispcmd = n - 1 /\ TX = g
  BY <1>1, <1>2, <1>3 DEF IInv, CpuKnows
<1>6. dispcmd' = n - 1 /\ TX' = g /\ heard' = heard /\ typed' = typed
  BY <1>4, <1>5 DEF Moves, CpuRuns, ScreenMoved, TextAfterCpu
<1>7. crt' = Written(crt, n - 1, g)
  BY <1>6, CallsWait
<1>8. g \in 0..(Half - 1)
  <2>1. TX \in 0..(Half - 1)
    BY DEF IInv, StoreShape, Store, TX
  <2>2. QED
    BY <1>5, <2>1
<1>9. Cells \in Nat \ {0} /\ CellSpace \in Nat \ {0} /\ n <= Cells /\ n <= CellSpace
  BY DeuAssumption, CrewAssumption DEF Calm
<1>10. crt \in Display /\ crt.screen \in [0..(Cells - 1) -> 0..(Half - 1) \cup {Blank}]
  BY Displays DEF IInv, ScreenShape
<1> HIDE DEF n, g
<1>11. n - 1 \in 0..(CellSpace - 1) /\ n - 1 \in 0..(Cells - 1) /\ (n - 1) % Cells = n - 1
  BY <1>3, <1>5, <1>9
<1>12. crt'.screen = [crt.screen EXCEPT ![n - 1] = g]
  <2>1. n - 1 \in Int
    BY <1>3
  <2>2. Written(crt, n - 1, g).screen = [crt.screen EXCEPT ![(n - 1) % Cells] = g]
    BY <1>8, <1>10, <1>11, <2>1, WrittenDisplay
  <2>3. QED
    BY <1>7, <1>11, <2>2
<1>13. ASSUME NEW c \in 0..(Cells - 1)
       PROVE  crt'.screen[c] = IF c < n THEN Glyph[typed[c + 1]] ELSE Blank
  <2>1. crt.screen[c] = IF c < n - 1 THEN Glyph[typed[c + 1]] ELSE Blank
    BY <1>2 DEF Screen
  <2>2. CASE c = n - 1
    <3>1. crt'.screen[c] = g
      BY <1>10, <1>11, <1>12, <2>2
    <3>2. c < n /\ c + 1 = n
      BY <1>3, <2>2
    <3>3. QED
      BY <3>1, <3>2 DEF g
  <2>3. CASE c # n - 1
    <3>1. crt'.screen[c] = crt.screen[c]
      BY <1>10, <1>11, <1>12, <2>3
    <3>2. c < n <=> c < n - 1
      BY <1>3, <2>3
    <3>3. QED
      BY <2>1, <3>1, <3>2
  <2>4. QED
    BY <2>2, <2>3
<1>14. Screen(Len(typed))'
  BY <1>6, <1>13 DEF Screen, n
<1>15. QED
  BY <1>2, <1>4, <1>6, <1>14

LEMMA EchoStep ==
  ASSUME IInv, Moves
  PROVE  Echo'
<1>1. /\ typed' = typed /\ hurried' = hurried /\ cpu.at \in 0..15
      /\ cpu.at = 1 /\ KB # NoKey => heard' = Append(heard, KB)
      /\ ~ (cpu.at = 1 /\ KB # NoKey) => heard' = heard
  BY Facts DEF Moves, CpuRuns
<1>2. SUFFICES ASSUME Calm
               PROVE  /\ Done' => Screen(Len(typed))'
                      /\ ~ Done' => Screen(Len(typed) - 1)'
                      /\ Len(heard') >= Len(typed) - 1
                      /\ Pending' \/ InHand' => Len(heard') = Len(typed)
                      /\ Pending' => ~ InHand'
                      /\ Behind'
  <2>1. Calm' <=> Calm
    BY <1>1 DEF Calm
  <2>2. QED
    BY <1>1, <2>1 DEF Echo, Behind
<1>3. /\ Done => Screen(Len(typed))
      /\ ~ Done => Screen(Len(typed) - 1)
      /\ Len(heard) >= Len(typed) - 1
      /\ Pending \/ InHand => Len(heard) = Len(typed)
      /\ Pending => ~ InHand
      /\ Behind
  BY <1>2 DEF IInv, Echo, Behind
<1>4. /\ Len(heard) \in Nat /\ Len(typed) \in Nat /\ Len(heard) <= Len(typed)
      /\ KB # NoKey /\ ~ Taken => Len(heard) + 1 <= Len(typed)
      /\ Len(heard) = Len(typed) => typed = heard /\ (KB = NoKey \/ Taken)
  BY <1>2, CalmKeys
<1>5. ASSUME crt' = crt
      PROVE  /\ Screen(Len(typed))' <=> Screen(Len(typed))
             /\ Screen(Len(typed) - 1)' <=> Screen(Len(typed) - 1)
  BY <1>1, <1>5 DEF Screen
<1>6. ~ Pending => crt' = crt
  BY CallsWait DEF Pending
<1>7. CASE cpu.at = 1 /\ KB # NoKey
  <2>1. ~ Taken /\ InHand' /\ ~ InHand
    BY <1>7, TakenStep, InHandStep
  <2>2. Len(heard) = Len(typed) - 1
    BY <1>3, <1>4, <1>7, <2>1
  <2>3. ~ Pending /\ ~ Done
    BY <1>3, <1>4, <2>2 DEF Done
  <2>4. ~ Pending'
    BY <1>7, <2>3, PendingStep
  <2>5. Len(heard') = Len(typed)
    <3>1. heard \in Seq(Key) /\ KB \in Key
      BY <1>7, Facts
    <3>2. Len(Append(heard, KB)) = Len(heard) + 1
      BY <3>1, HeardGrows
    <3>3. QED
      BY <1>1, <1>4, <1>7, <2>2, <3>2
  <2>6. crt' = crt /\ Behind'
    BY <1>6, <2>3, CallsWait
  <2>7. Screen(Len(typed) - 1)'
    BY <1>3, <1>5, <2>3, <2>6
  <2>8. ~ Done'
    BY <2>1 DEF Done
  <2>9. QED
    BY <1>4, <2>1, <2>4, <2>5, <2>6, <2>7, <2>8
<1>8. CASE cpu.at = 13
  <2>1. InHand /\ ~ InHand' /\ heard' = heard
    BY <1>1, <1>8, InHandStep
  <2>2. ~ Pending /\ Len(heard) = Len(typed) /\ ~ Done
    BY <1>3, <2>1 DEF Done
  <2>3. Pending'
    <3>1. Calls # 0 /\ MscMoved /\ C6AfterCpu = Calls
      BY <1>8 DEF Moves, Calls
    <3>2. C6' # 0 \/ Pc' = \h168
      BY <3>1 DEF MscMoved
    <3>3. QED
      BY <3>2 DEF Pending
  <2>4. crt' = crt /\ Behind'
    BY <1>6, <2>2, CallsWait
  <2>5. Screen(Len(typed) - 1)' /\ ~ Done'
    BY <1>3, <1>5, <2>2, <2>3, <2>4 DEF Done
  <2>6. QED
    BY <1>3, <2>1, <2>2, <2>4, <2>5
<1>9. CASE Pending /\ On5 /\ P5 = \h1A2
  <2>1. Screen(Len(typed))' /\ KB = NoKey /\ ~ InHand /\ heard' = heard /\ cpu.at # 13
    BY <1>2, <1>9, GlyphShown
  <2>2. ~ Pending' /\ Behind'
    BY <1>3, <1>9, <2>1, CallsWait
  <2>3. ~ InHand'
    BY <2>1, InHandStep
  <2>4. Len(heard') = Len(typed) /\ Done'
    BY <1>1, <1>3, <1>9, <2>1, <2>2, <2>3 DEF Done
  <2>5. QED
    BY <1>4, <2>1, <2>2, <2>3, <2>4
<1>10. CASE Pending /\ ~ (On5 /\ P5 = \h1A2)
  <2>1. ~ InHand /\ Len(heard) = Len(typed) /\ ~ Done
    BY <1>3, <1>10 DEF Done
  <2>2. KB = NoKey /\ cpu.at # 13
    BY <1>4, <2>1, TakenStep, InHandStep
  <2>3. heard' = heard /\ ~ InHand' /\ Pending' /\ crt' = crt /\ Behind'
    BY <1>1, <1>3, <1>10, <2>1, <2>2, InHandStep, PendingStep, CallsWait
  <2>4. ~ Done' /\ Screen(Len(typed) - 1)'
    BY <1>3, <1>5, <2>1, <2>3 DEF Done
  <2>5. QED
    BY <1>3, <2>1, <2>3, <2>4
<1>11. CASE ~ Pending /\ cpu.at # 13 /\ ~ (cpu.at = 1 /\ KB # NoKey)
  <2>1. ~ Pending' /\ heard' = heard /\ crt' = crt /\ Behind'
    BY <1>1, <1>6, <1>11, PendingStep, CallsWait
  <2>2. InHand' <=> InHand
    BY <1>11, InHandStep
  <2>3. Done' <=> Done
    BY <1>1, <1>11, <2>1, <2>2 DEF Done
  <2>4. QED
    BY <1>3, <1>5, <2>1, <2>2, <2>3
<1>12. QED
  BY <1>7, <1>8, <1>9, <1>10, <1>11

-----------------------------------------------------------------------------
(* A key is pressed: only the queue of the keyboard and the histories grow.*)
Same ==
  /\ UNCHANGED <<cpu, unit, mem, dispcmd, crt, heard>>
  /\ (Pc' = Pc) /\ (Acc' = Acc) /\ (C6' = C6) /\ (P4' = P4) /\ (On4' = On4) /\ (P5' = P5)
  /\ (On5' = On5) /\ (KB' = KB) /\ (TX' = TX)
  /\ (InHand' <=> InHand) /\ (Taken' <=> Taken) /\ (Pending' <=> Pending) /\ (Quiet' <=> Quiet)
  /\ (Starting' <=> Starting) /\ (Polling' <=> Polling) /\ (Showing' <=> Showing)
  /\ (First' <=> First) /\ (Waiting' = Waiting) /\ (Unheard' = Unheard)
  /\ (UnitShape' <=> UnitShape) /\ (StoreShape' <=> StoreShape) /\ (InLockstep' <=> InLockstep)

LEMMA MachineSame ==
  ASSUME UNCHANGED <<cpu, unit, mem, dispcmd, crt, heard>>
  PROVE  Same
<1>1. cpu' = cpu /\ unit' = unit /\ mem' = mem /\ dispcmd' = dispcmd /\ crt' = crt /\ heard' = heard
  OBVIOUS
<1>2. /\ Pc' = Pc /\ Acc' = Acc /\ C6' = C6 /\ P4' = P4 /\ On4' = On4 /\ P5' = P5
      /\ On5' = On5 /\ KB' = KB /\ TX' = TX
  BY <1>1 DEF Pc, Acc, C6, P4, On4, P5, On5, KB, TX
<1>3. (InHand' <=> InHand) /\ (Taken' <=> Taken)
  BY <1>1 DEF InHand, Taken
<1>4. Pending' <=> Pending
  BY <1>2 DEF Pending
<1>5. Quiet' <=> Quiet
  BY <1>2, <1>3 DEF Quiet
<1>6. Waiting' = Waiting
  BY <1>2, <1>3 DEF Waiting
<1>7. Unheard' = Unheard
  BY <1>1, <1>3 DEF Unheard
<1>8. (Starting' <=> Starting)
  BY <1>1, <1>2 DEF Starting
<1>9. Polling' <=> Polling
  BY <1>2 DEF Polling
<1>10. Showing' <=> Showing
  BY <1>2 DEF Showing
<1>11. First' <=> First
  BY <1>2, <1>8 DEF First
<1>12. UnitShape' <=> UnitShape
  BY <1>1, <1>2 DEF UnitShape
<1>13. StoreShape' <=> StoreShape
  BY <1>1, <1>2 DEF StoreShape
<1>14. InLockstep' <=> InLockstep
  BY <1>2, <1>8, <1>9, <1>10 DEF InLockstep
<1>15. QED
  BY <1>1, <1>2, <1>3, <1>4, <1>5, <1>6, <1>7, <1>8, <1>9, <1>10, <1>11, <1>12, <1>13, <1>14 DEF Same

(* When the crew waits for each echo, it presses a key when all is done.   *)
LEMMA WaitsForEcho ==
  ASSUME IInv, Calm, Shown
  PROVE  Done
<1> DEFINE n == Len(typed)
<1>1. typed \in Seq(Key) /\ Len(heard) \in Nat /\ n \in Nat /\ Len(heard) <= n
  BY Facts, CalmKeys
<1>2. CASE n = 0
  <2>1. Len(heard) = 0
    BY <1>1, <1>2
  <2>2. ~ InHand /\ ~ Pending
    BY <2>1 DEF IInv, CpuKnows
  <2>3. QED
    BY <1>2, <2>1, <2>2 DEF Done
<1>3. CASE n # 0
  <2>1. SUFFICES ASSUME ~ Done
                 PROVE  FALSE
    OBVIOUS
  <2>2. Screen(n - 1)
    BY <2>1 DEF IInv, Echo
  <2>3. n <= Cells /\ Cells \in Nat
    BY DeuAssumption DEF Calm
  <2>4. typed[n] \in Key /\ n \in 1..n
    BY <1>1, <1>3
  <2>5. crt.screen[n - 1] = Glyph[typed[n]]
    BY <2>4 DEF Shown
  <2>6. Glyph[typed[n]] # Blank
    BY <2>4, CrewAssumption
  <2> HIDE DEF n
  <2>7. n - 1 \in 0..(Cells - 1) /\ ~ (n - 1 < n - 1)
    BY <1>1, <1>3, <2>3
  <2>8. crt.screen[n - 1] = Blank
    BY <2>2, <2>7 DEF Screen
  <2>9. QED
    BY <2>5, <2>6, <2>8
<1>4. QED
  BY <1>2, <1>3

LEMMA PressStep ==
  ASSUME IInv, NEW k \in Key, Press(k)
  PROVE  IInv'
<1>1. Same
  BY MachineSame DEF Press
<1>2. /\ kbd' = press(kbd, k) /\ typed' = Append(typed, k) /\ Len(typed) < MaxKeys
      /\ early' = (early \/ ~ Polled) /\ hurried' = (hurried \/ ~ Shown)
  BY DEF Press
<1>3. /\ heard \in Seq(Key) /\ kbd.keys \in Seq(Key) /\ typed \in Seq(Key)
      /\ kbd \in Display /\ crt \in Display /\ KB \in Key \cup {NoKey}
  BY Facts DEF IInv, ScreenShape
<1>4. Append(kbd.keys, k) \in Seq(Key) /\ Len(Append(kbd.keys, k)) = Len(kbd.keys) + 1
  BY <1>3, HeardGrows
<1>5. kbd' \in Display /\ kbd'.keys = Append(kbd.keys, k)
  <2> DEFINE q == Append(kbd.keys, k)
  <2>1. kbd' = [kbd EXCEPT !.keys = q]
    BY <1>2 DEF press
  <2>2. q \in Seq(Key)
    BY <1>4
  <2> HIDE DEF q
  <2>3. kbd' \in Display /\ kbd'.keys = q
    BY <1>3, <2>1, <2>2 DEF Display
  <2>4. QED
    BY <2>3 DEF q
<1>6. /\ typed' \in Seq(Key) /\ Len(typed') = Len(typed) + 1
      /\ \A i \in 1..Len(typed) : typed'[i] = typed[i]
  BY <1>2, <1>3, HeardGrows
<1>7. Len(heard) \in Nat /\ Len(kbd.keys) \in Nat /\ Len(typed) \in Nat /\ MaxKeys \in Nat
  BY <1>3, LenProperties, CrewAssumption
<1>8. heard' = heard /\ crt' = crt /\ cpu' = cpu /\ dispcmd' = dispcmd
  BY <1>1 DEF Same
<1>9. UnitShape' /\ StoreShape' /\ InLockstep'
  BY <1>1 DEF Same, IInv
<1>10. ScreenShape'
  BY <1>3, <1>5, <1>8 DEF ScreenShape
<1>11. CpuKnows'
  <2>1. InHand' <=> InHand
    BY <1>1 DEF Same
  <2>2. TX' = TX
    BY <1>1 DEF Same
  <2>3. Pending' <=> Pending
    BY <1>1 DEF Same
  <2>4. CpuKnows
    BY DEF IInv
  <2>5. QED
    BY <1>6, <1>8, <2>1, <2>2, <2>3, <2>4, ZenonT(60) DEF CpuKnows
<1>12. Counted'
  <2>1. Waiting' = Waiting /\ Waiting \in Nat
    BY <1>1 DEF Same, Waiting
  <2>2. Len(heard) + Waiting + Len(kbd.keys) <= Len(typed)
    BY DEF IInv, Counted
  <2>3. Len(kbd'.keys) = Len(kbd.keys) + 1
    BY <1>4, <1>5
  <2>4. Len(heard') + Waiting' + Len(kbd'.keys) <= Len(typed')
    <3> DEFINE w == Waiting
               a == Len(heard)
               b == Len(kbd.keys)
               c == Len(typed)
    <3>1. a + w + b <= c /\ a \in Nat /\ b \in Nat /\ c \in Nat /\ w \in Nat
      BY <1>7, <2>1, <2>2
    <3>2. /\ Len(heard') = a /\ Waiting' = w /\ Len(kbd'.keys) = b + 1 /\ Len(typed') = c + 1
      BY <1>6, <1>8, <2>1, <2>3
    <3> HIDE DEF a, b, c, w
    <3>3. a + w + (b + 1) <= c + 1
      BY <3>1
    <3>4. QED
      BY <3>2, <3>3
  <2>5. Len(typed') <= MaxKeys
    BY <1>2, <1>6, <1>7
  <2>6. early' \in BOOLEAN /\ hurried' \in BOOLEAN
    BY <1>2
  <2>7. QED
    BY <2>4, <2>5, <2>6 DEF Counted
<1>13. Sampled'
  <2>1. Sampled
    BY DEF IInv
  <2>2. (early => early') /\ (~ early' => Polled)
    BY <1>2
  <2>3. First => ~ Polled
    BY DEF First, Starting, Polled, P4
  <2>4. Exception => Exception'
    <3>1. Pc' = Pc
      BY <1>1 DEF Same
    <3>2. C6' = C6
      BY <1>1 DEF Same
    <3>3. QED
      BY <1>8, <2>2, <3>1, <3>2 DEF Exception
  <2>5. /\ (First' <=> First) /\ (Starting' <=> Starting) /\ (Quiet' <=> Quiet)
        /\ (Taken' <=> Taken)
    BY <1>1 DEF Same
  <2>6. KB' = KB /\ Pc' = Pc /\ Acc' = Acc /\ P4' = P4 /\ C6' = C6
    BY <1>1 DEF Same
  <2>7. QED
    BY <1>8, <2>1, <2>2, <2>3, <2>4, <2>5, <2>6 DEF Sampled
<1>14. Calm' => Calm /\ Shown
  <2>1. ASSUME NEW a, NEW m, a \in Nat, m \in Nat, a + 1 <= m
        PROVE  a <= m
    BY <2>1
  <2>2. Cells \in Nat /\ CellSpace \in Nat
    BY DeuAssumption, CrewAssumption
  <2>3. Len(typed') <= Cells => Len(typed) <= Cells
    BY <1>6, <1>7, <2>1, <2>2
  <2>4. Len(typed') <= CellSpace => Len(typed) <= CellSpace
    BY <1>6, <1>7, <2>1, <2>2
  <2>5. ~ hurried' => ~ hurried /\ Shown
    BY <1>2
  <2>6. QED
    BY <2>3, <2>4, <2>5 DEF Calm
<1>15. Kept'
  <2>1. (~ early' => ~ early) /\ Kept
    BY <1>2 DEF IInv
  <2>2. Unheard \in Seq(Key) /\ Unheard' = Unheard
    <3>1. Unheard' = Unheard
      BY <1>1 DEF Same
    <3>2. KB = NoKey \/ Taken => Unheard = <<>>
      BY DEF Unheard, KB
    <3>3. ~ (KB = NoKey \/ Taken) => Unheard = <<KB>> /\ KB \in Key
      BY <1>3 DEF Unheard, KB
    <3>4. Unheard \in Seq(Key)
      <4>1. CASE KB = NoKey \/ Taken
        BY <3>2, <4>1, EmptySeq
      <4>2. CASE ~ (KB = NoKey \/ Taken)
        <5>1. Unheard = <<KB>> /\ KB \in Key
          BY <3>3, <4>2
        <5>2. QED
          BY <5>1
      <4>3. QED
        BY <4>1, <4>2
    <3>5. QED
      BY <3>1, <3>4
  <2>3. KeysKept => KeysKept'
    <3>1. ASSUME typed = (heard \o Unheard) \o kbd.keys
          PROVE  typed' = (heard' \o Unheard') \o kbd'.keys
      <4>1. Append((heard \o Unheard) \o kbd.keys, k) = (heard \o Unheard) \o Append(kbd.keys, k)
        BY <1>3, <2>2, QueuePressed, ZenonT(60)
      <4>2. typed' = Append((heard \o Unheard) \o kbd.keys, k)
        BY <1>2, <3>1
      <4>3. heard' = heard /\ Unheard' = Unheard /\ kbd'.keys = Append(kbd.keys, k)
        BY <1>5, <1>8, <2>2
      <4>4. QED
        BY <4>1, <4>2, <4>3, Zenon
    <3>2. QED
      BY <3>1 DEF KeysKept
  <2>4. QED
    BY <1>14, <2>1, <2>3 DEF Kept
<1>16. Echo'
  <2>1. SUFFICES ASSUME Calm'
                 PROVE  Echo'
    BY DEF Echo
  <2>2. Calm /\ Done
    BY <1>14, <2>1, WaitsForEcho
  <2>3. Screen(Len(typed)) /\ Len(heard) = Len(typed) /\ ~ InHand /\ ~ Pending
    BY <2>2 DEF IInv, Echo, Done
  <2>4. ~ InHand' /\ ~ Pending' /\ C6' = 0
    BY <1>1, <2>3 DEF Same, Pending
  <2>5. ~ Done' /\ Len(heard') >= Len(typed') - 1
    BY <1>6, <1>7, <1>8, <2>3 DEF Done
  <2>6. Screen(Len(typed) - 1)'
    <3>1. Len(typed') - 1 = Len(typed)
      BY <1>6, <1>7
    <3>2. ASSUME NEW c \in 0..(Cells - 1)
          PROVE  crt'.screen[c] = IF c < Len(typed) THEN Glyph[typed'[c + 1]] ELSE Blank
      <4>1. crt.screen[c] = IF c < Len(typed) THEN Glyph[typed[c + 1]] ELSE Blank
        BY <2>3 DEF Screen
      <4>2. c < Len(typed) => typed'[c + 1] = typed[c + 1]
        <5>1. ASSUME c < Len(typed)
              PROVE  c + 1 \in 1..Len(typed)
          BY <1>7, <5>1, DeuAssumption
        <5>2. QED
          BY <1>6, <5>1
      <4>3. QED
        BY <1>8, <4>1, <4>2
    <3>3. QED
      BY <3>1, <3>2 DEF Screen
  <2>7. QED
    BY <2>4, <2>5, <2>6 DEF Echo
<1>17. QED
  BY <1>9, <1>10, <1>11, <1>12, <1>13, <1>15, <1>16 DEF IInv

-----------------------------------------------------------------------------
(* The invariant holds at the start.                                       *)
LEMMA InitialWords ==
  ASSUME NEW a \in {\h150, \h152, \h170}
  PROVE  Fullword(InitialStore, a) = InitialWord(a)
<1> DEFINE w == InitialWord(a)
<1>1. w \in Nat
  BY Masks, Sizes, CrewAssumption DEF InitialWord, Mask
<1>2. /\ a \in Data /\ a + 1 \in Data /\ a # KEYBUF /\ a # TEXT /\ a + 1 # KEYBUF /\ a + 1 # TEXT
      /\ EvenPart(a) = a /\ EvenPart(a + 1) = a
  BY DEF Data, KEYBUF, TEXT, EvenPart
<1>3. a % Space = a /\ (a + 1) % Space = a + 1
  BY Sizes
<1>4. InitialStore[a] = WriteF(a, w)[a] /\ InitialStore[a + 1] = WriteF(a + 1, w)[a + 1]
  BY <1>2 DEF InitialStore
<1>5. WriteF(a, w) = [i \in {a, a + 1} |-> IF i = a THEN w \div Half ELSE w % Half]
  BY <1>2, <1>3 DEF WriteF
<1>6. WriteF(a + 1, w) = [i \in {a, a + 1} |-> IF i = a THEN w \div Half ELSE w % Half]
  BY <1>2, <1>3 DEF WriteF
<1>7. a + 1 # a
  OBVIOUS
<1> HIDE DEF w
<1>8. InitialStore[a] = w \div Half /\ InitialStore[a + 1] = w % Half
  BY <1>4, <1>5, <1>6, <1>7
<1>9. Fullword(InitialStore, a) = w
  BY <1>1, <1>8, FullwordParts DEF Fullword
<1>10. QED
  BY <1>9 DEF w

LEMMA StoreInitial ==
  Store(InitialStore)
<1>1. KEYBUF \in Data /\ TEXT \in Data /\ TEXT # KEYBUF
  BY DEF Data, KEYBUF, TEXT
<1>2. InitialStore[KEYBUF] = NoKey /\ InitialStore[TEXT] = 0
  BY <1>1 DEF InitialStore
<1>3. NoKey \in Nat /\ 0 \in 0..(Half - 1)
  BY CrewAssumption, Sizes
<1>4. /\ Fullword(InitialStore, \h150) = NoKey
      /\ Fullword(InitialStore, \h152) = Mask(4)
      /\ Fullword(InitialStore, \h170) = Mask(5)
  <2>1. InitialWord(\h150) = NoKey /\ InitialWord(\h152) = Mask(4) /\ InitialWord(\h170) = Mask(5)
    BY DEF InitialWord, Mask
  <2>2. QED
    BY <2>1, InitialWords
<1>5. ASSUME NEW a \in Data
      PROVE  InitialStore[a] \in Nat
  <2>1. CASE a \in {KEYBUF, TEXT}
    BY <1>2, <1>3, <2>1
  <2>2. CASE a \notin {KEYBUF, TEXT}
    <3> DEFINE w == InitialWord(EvenPart(a))
               h == EvenPart(a)
    <3>1. a \in \h150..\h171
      BY <2>2 DEF Data, C6PGM
    <3>2. w \in Nat
      BY <1>3, Masks, Sizes DEF InitialWord, Mask
    <3>3. a % Space = a /\ (a = h \/ a = h + 1)
      BY <3>1, Sizes DEF EvenPart
    <3>4. InitialStore[a] = WriteF(a, w)[a]
      BY <2>2 DEF InitialStore
    <3>5. WriteF(a, w) = [i \in {h, h + 1} |-> IF i = h THEN w \div Half ELSE w % Half]
      BY <3>3 DEF WriteF
    <3> HIDE DEF w, h
    <3>6. InitialStore[a] = w \div Half \/ InitialStore[a] = w % Half
      BY <3>3, <3>4, <3>5
    <3>7. QED
      BY <3>2, <3>6, FullwordParts
  <2>3. QED
    BY <2>1, <2>2
<1>6. InitialStore \in [Data -> Nat]
  <2>1. InitialStore = [a \in Data |-> InitialStore[a]]
    BY DEF InitialStore
  <2>2. QED
    BY <1>5, <2>1
<1>7. QED
  BY <1>2, <1>3, <1>4, <1>6 DEF Store

(* The unit after a reset, but for the MSC's busy bit, and with it.        *)
ResetShape ==
  [pc : Nat, acc : 0..(Full - 1), x : {0}, busy : BOOLEAN, errors : {{}},
   indicators : SUBSET Int, fail : {{}}, c6 : {0, C6PGM}, interrupt : {FALSE},
   bces : [BCEs -> Element]]

LEMMA ResetShapes ==
  ASSUME NEW r, r \in [BCEs -> Element], NEW u,
         u = [pc |-> 0, acc |-> 0, x |-> 0, busy |-> FALSE, errors |-> {}, indicators |-> {},
              fail |-> {}, c6 |-> 0, interrupt |-> FALSE, bces |-> r]
  PROVE  u \in ResetShape /\ u.acc = 0 /\ u.c6 = 0 /\ u.bces = r
<1>1. 0 \in 0..(Full - 1)
  BY Sizes
<1>2. QED
  BY <1>1 DEF ResetShape

LEMMA MscBusy ==
  ASSUME NEW u \in ResetShape, NEW v, v = [u EXCEPT !.busy = TRUE]
  PROVE  v \in Unit /\ v.acc = u.acc /\ v.c6 = u.c6 /\ v.bces = u.bces
  BY DEF ResetShape, Unit

LEMMA UnitPlaced ==
  ASSUME NEW u \in Unit, NEW pc, pc \in Nat, NEW v, v = [u EXCEPT !.pc = pc]
  PROVE  v \in Unit /\ v.pc = pc /\ v.acc = u.acc /\ v.c6 = u.c6 /\ v.bces = u.bces
  BY DEF Unit

(* Setting the program counter of a BCE, or its busy bit.                  *)
BcePlaced(u, n, pc) == [u EXCEPT !.bces[n].pc = pc]
BceSet(u, v, n, e) ==
  /\ v \in Unit /\ v.pc = u.pc /\ v.acc = u.acc /\ v.c6 = u.c6
  /\ v.bces[n] = e /\ \A i \in BCEs \ {n} : v.bces[i] = u.bces[i]

LEMMA BceSets ==
  ASSUME NEW u \in Unit, NEW n \in BCEs, NEW e \in Element, NEW v,
         v = [u EXCEPT !.bces = [u.bces EXCEPT ![n] = e]]
  PROVE  BceSet(u, v, n, e)
<1> DEFINE t == [u.bces EXCEPT ![n] = e]
<1>1. u.bces \in [BCEs -> Element]
  BY DEF Unit
<1>2. t \in [BCEs -> Element] /\ \A i \in BCEs : t[i] = IF i = n THEN e ELSE u.bces[i]
  BY <1>1
<1>3. v = [u EXCEPT !.bces = t]
  OBVIOUS
<1> HIDE DEF t
<1>4. v \in Unit /\ v.pc = u.pc /\ v.acc = u.acc /\ v.c6 = u.c6 /\ v.bces = t
  BY <1>2, <1>3 DEF Unit
<1>5. QED
  BY <1>2, <1>4 DEF BceSet

LEMMA BcePlaces ==
  ASSUME NEW u \in Unit, NEW n \in BCEs, NEW pc, pc \in Nat, NEW v, v = BcePlaced(u, n, pc)
  PROVE  BceSet(u, v, n, At(u.bces[n], pc))
<1>1. u.bces[n] \in Element
  BY DEF Unit
<1>2. At(u.bces[n], pc) \in Element
  BY <1>1, ElementWith
<1>3. v = [u EXCEPT !.bces = [u.bces EXCEPT ![n] = At(u.bces[n], pc)]]
  BY DEF At, BcePlaced
<1>4. QED
  BY <1>2, <1>3, BceSets

LEMMA BceStarts ==
  ASSUME NEW u \in Unit, NEW n \in BCEs, NEW v, v = [u EXCEPT !.bces[n].busy = TRUE]
  PROVE  BceSet(u, v, n, WithBusy(u.bces[n], TRUE))
<1>1. u.bces[n] \in Element
  BY DEF Unit
<1>2. WithBusy(u.bces[n], TRUE) \in Element
  BY <1>1 DEF WithBusy, Element
<1>3. v = [u EXCEPT !.bces = [u.bces EXCEPT ![n] = WithBusy(u.bces[n], TRUE)]]
  BY DEF WithBusy
<1>4. QED
  BY <1>2, <1>3, BceSets

LEMMA UnitInitial ==
  ASSUME Init
  PROVE  /\ unit \in Unit /\ Pc = \h140 /\ Acc = 0 /\ C6 = 0
         /\ P4 = \h200 /\ On4 /\ P5 = \h1A0 /\ ~ On5
<1> DEFINE e == ResetBce(0)
           r == [n \in BCEs |-> e]
           pm == \h140
           p4 == \h200
           p5 == \h1A0
           u0 == [ResetUnit(0) EXCEPT !.busy = TRUE]
           u1 == [u0 EXCEPT !.pc = pm]
           u2 == [u1 EXCEPT !.bces[4].busy = TRUE]
           u3 == BcePlaced(u2, 4, p4)
           u4 == BcePlaced(u3, 5, p5)
           f == WithBusy(e, TRUE)
<1>1. 4 \in BCEs /\ 5 \in BCEs /\ 5 \in BCEs \ {4} /\ 4 \in BCEs \ {5} /\ 0 \in 0..(Full - 1)
  BY CrewAssumption, Sizes
<1>2. e \in Element /\ e.pc = 0 /\ e.busy = FALSE
  BY DEF ResetBce, Element
<1>3. unit = u4
  BY DEF Init, BcePlaced
<1>4. pm \in Nat /\ p4 \in Nat /\ p5 \in Nat
      /\ pm = \h140 /\ p4 = \h200 /\ p5 = \h1A0
  OBVIOUS
<1>5. r[4] = e /\ r[5] = e /\ r \in [BCEs -> Element]
  BY <1>1, <1>2
<1> HIDE DEF r
<1>6. ResetUnit(0) \in ResetShape /\ ResetUnit(0).acc = 0 /\ ResetUnit(0).c6 = 0
      /\ ResetUnit(0).bces = r
  <2>1. ResetUnit(0) = [pc |-> 0, acc |-> 0, x |-> 0, busy |-> FALSE, errors |-> {},
                        indicators |-> {}, fail |-> {}, c6 |-> 0, interrupt |-> FALSE, bces |-> r]
    BY DEF ResetUnit, r
  <2>2. QED
    BY <1>5, <2>1, ResetShapes
<1> HIDE DEF e, pm, p4, p5, f
<1>7. u0 \in Unit /\ u0.acc = 0 /\ u0.c6 = 0 /\ u0.bces = r
  BY <1>6, MscBusy
<1> HIDE DEF u0
<1>8. u1 \in Unit /\ u1.pc = pm /\ u1.acc = 0 /\ u1.c6 = 0 /\ u1.bces = r
  BY <1>4, <1>7, UnitPlaced
<1> HIDE DEF u1
<1>9. BceSet(u1, u2, 4, WithBusy(u1.bces[4], TRUE))
  BY <1>1, <1>8, BceStarts
<1> HIDE DEF u2
<1>10. u2 \in Unit /\ u2.pc = pm /\ u2.acc = 0 /\ u2.c6 = 0 /\ u2.bces[4] = f /\ u2.bces[5] = e
  <2>1. u1.bces[4] = e /\ u1.bces[5] = e
    BY <1>5, <1>8
  <2>2. WithBusy(u1.bces[4], TRUE) = f
    BY <2>1 DEF f
  <2>3. u2 \in Unit /\ u2.pc = u1.pc /\ u2.acc = u1.acc /\ u2.c6 = u1.c6
    BY <1>9 DEF BceSet
  <2>4. u2.bces[4] = WithBusy(u1.bces[4], TRUE)
    BY <1>1, <1>9 DEF BceSet
  <2>5. u2.bces[5] = u1.bces[5]
    BY <1>1, <1>9 DEF BceSet
  <2>6. QED
    BY <1>8, <2>1, <2>2, <2>3, <2>4, <2>5
<1>11. BceSet(u2, u3, 4, At(u2.bces[4], p4))
  BY <1>1, <1>4, <1>10, BcePlaces
<1> HIDE DEF u3
<1>12. u3 \in Unit /\ u3.pc = pm /\ u3.acc = 0 /\ u3.c6 = 0
       /\ u3.bces[4] = At(f, p4) /\ u3.bces[5] = e
  BY <1>1, <1>10, <1>11 DEF BceSet
<1>13. BceSet(u3, u4, 5, At(u3.bces[5], p5))
  BY <1>1, <1>4, <1>12, BcePlaces
<1> HIDE DEF u4
<1>14. u4 \in Unit /\ u4.pc = pm /\ u4.acc = 0 /\ u4.c6 = 0
       /\ u4.bces[4] = At(f, p4) /\ u4.bces[5] = At(e, p5)
  BY <1>1, <1>12, <1>13 DEF BceSet
<1>15. f \in Element /\ f.busy = TRUE
  BY <1>2 DEF f, WithBusy, Element
<1>16. At(f, p4).pc = p4 /\ At(f, p4).busy = TRUE
  BY <1>15 DEF At, Element
<1>17. At(e, p5).pc = p5 /\ At(e, p5).busy = FALSE
  BY <1>2 DEF At, Element
<1>18. /\ Pc = pm /\ Acc = 0 /\ C6 = 0 /\ P4 = p4 /\ On4 = TRUE /\ P5 = p5 /\ On5 = FALSE
       /\ unit \in Unit
  BY <1>3, <1>14, <1>16, <1>17 DEF Pc, Acc, C6, P4, On4, P5, On5
<1>19. QED
  BY <1>4, <1>18

LEMMA InitHolds ==
  ASSUME Init
  PROVE  IInv
<1>1. /\ unit \in Unit /\ Pc = \h140 /\ Acc = 0 /\ C6 = 0
      /\ P4 = \h200 /\ On4 /\ P5 = \h1A0 /\ ~ On5
  BY UnitInitial
<1>2. /\ cpu = [at |-> 0, r5 |-> 0, r6 |-> 0, r7 |-> 0] /\ mem = InitialStore /\ dispcmd = -1
      /\ kbd = new(DeuIua) /\ crt = new(DeuIua)
      /\ typed = <<>> /\ heard = <<>> /\ early = FALSE /\ hurried = FALSE
  BY DEF Init
<1>3. Half \in Nat \ {0} /\ Cells \in Nat \ {0} /\ CellSpace \in Nat \ {0} /\ MaxKeys \in Nat
  BY Sizes, DeuAssumption, CrewAssumption
<1>4. Store(mem) /\ KB = NoKey /\ TX = 0
  <2>1. InitialStore[KEYBUF] = NoKey /\ InitialStore[TEXT] = 0
    BY DEF InitialStore, Data, KEYBUF, TEXT
  <2>2. QED
    BY <1>2, <2>1, StoreInitial DEF KB, TX
<1>5. new(DeuIua) \in Display /\ new(DeuIua).keys = <<>>
      /\ new(DeuIua).screen = [c \in 0..(Cells - 1) |-> Blank]
  <2>1. 0 \in 0..(Cells - 1) /\ <<>> \in Seq(Key)
    BY <1>3, EmptySeq
  <2>2. [c \in 0..(Cells - 1) |-> Blank] \in [0..(Cells - 1) -> 0..(Half - 1) \cup {Blank}]
    OBVIOUS
  <2>3. QED
    BY <2>1, <2>2 DEF new, Display
<1>6. UnitShape /\ StoreShape /\ ScreenShape
  BY <1>1, <1>2, <1>4, <1>5 DEF UnitShape, StoreShape, ScreenShape
<1>7. Starting /\ Showing /\ First
  BY <1>1, <1>2 DEF Starting, Showing, First
<1>8. InLockstep
  BY <1>1, <1>7 DEF InLockstep, MscAddresses
<1>9. ~ InHand /\ ~ Taken /\ ~ Pending
  BY <1>1, <1>2 DEF InHand, Taken, Pending
<1>10. Len(heard) = 0 /\ Len(typed) = 0 /\ Len(kbd.keys) = 0
  BY <1>2, <1>5
<1>11. CpuKnows
  <2>1. cpu \in [at : 0..15, r5 : Key \cup {0, NoKey}, r6 : 0..(Half - 1), r7 : Int]
        /\ cpu.at = 0 /\ cpu.r7 = 0
    BY <1>2, <1>3
  <2>2. typed \in Seq(Key) /\ heard \in Seq(Key)
    BY <1>2, EmptySeq
  <2>3. QED
    BY <1>2, <1>9, <1>10, <2>1, <2>2 DEF CpuKnows
<1>12. Counted
  <2>1. Waiting = 0
    BY <1>4 DEF Waiting
  <2>2. Len(heard) + Waiting + Len(kbd.keys) <= Len(typed) /\ Len(typed) <= MaxKeys
    BY <1>3, <1>10, <2>1
  <2>3. early \in BOOLEAN /\ hurried \in BOOLEAN
    BY <1>2
  <2>4. QED
    BY <2>2, <2>3 DEF Counted
<1>13. Sampled
  BY <1>1, <1>2, <1>4, <1>5, <1>7, <1>9 DEF Sampled, Quiet
<1>14. Kept
  <2>1. Unheard = <<>> /\ kbd.keys = <<>>
    BY <1>2, <1>4, <1>5 DEF Unheard, KB
  <2>2. <<>> = (<<>> \o <<>>) \o <<>>
    <3>1. <<>> \in Seq(Key)
      BY EmptySeq
    <3>2. QED
      BY <3>1, ConcatEmptySeq
  <2>3. QED
    BY <1>2, <2>1, <2>2 DEF Kept, KeysKept
<1>15. Echo
  <2>1. Screen(Len(typed))
    <3>1. \A c \in 0..(Cells - 1) : ~ (c < Len(typed))
      BY <1>10
    <3>2. QED
      BY <1>2, <1>5, <3>1 DEF Screen
  <2>2. Done /\ Len(heard) >= Len(typed) - 1
    BY <1>9, <1>10 DEF Done
  <2>3. QED
    BY <1>1, <1>9, <2>1, <2>2 DEF Echo
<1>16. QED
  BY <1>6, <1>8, <1>11, <1>12, <1>13, <1>14, <1>15 DEF IInv

-----------------------------------------------------------------------------
(* What the invariant says of the states.                                  *)
LEMMA Stutters ==
  ASSUME IInv, UNCHANGED vars
  PROVE  IInv'
<1>1. Same /\ kbd' = kbd /\ typed' = typed /\ early' = early /\ hurried' = hurried
  BY MachineSame DEF vars
<1>2. /\ cpu' = cpu /\ dispcmd' = dispcmd /\ crt' = crt /\ heard' = heard
      /\ TX' = TX /\ KB' = KB /\ Pc' = Pc /\ Acc' = Acc /\ C6' = C6 /\ P4' = P4
      /\ P5' = P5 /\ On5' = On5 /\ Waiting' = Waiting /\ Unheard' = Unheard
  BY <1>1 DEF Same
<1>3. /\ (InHand' <=> InHand) /\ (Taken' <=> Taken) /\ (Pending' <=> Pending)
      /\ (Quiet' <=> Quiet) /\ (Starting' <=> Starting) /\ (First' <=> First)
  BY <1>1 DEF Same
<1>4. UnitShape' /\ StoreShape' /\ InLockstep'
  BY <1>1 DEF Same, IInv
<1>5. ScreenShape' /\ Counted' /\ CpuKnows'
  BY <1>1, <1>2, <1>3 DEF IInv, ScreenShape, Counted, CpuKnows
<1>6. Exception' <=> Exception
  BY <1>1, <1>2 DEF Exception
<1>7. Sampled'
  BY <1>1, <1>2, <1>3, <1>6 DEF IInv, Sampled
<1>8. (Calm' <=> Calm) /\ (Done' <=> Done)
  BY <1>1, <1>2, <1>3 DEF Calm, Done
<1>9. Kept'
  BY <1>1, <1>2, <1>8 DEF IInv, Kept, KeysKept
<1>10. Echo'
  BY <1>1, <1>2, <1>3, <1>8 DEF IInv, Echo, Screen
<1>11. QED
  BY <1>4, <1>5, <1>7, <1>9, <1>10 DEF IInv

LEMMA Steps ==
  ASSUME IInv, [Next]_vars
  PROVE  IInv'
<1>1. CASE Step
  <2>1. Moves
    BY <1>1, StepRuns
  <2>2. (UnitShape /\ StoreShape /\ ScreenShape)' /\ InLockstep'
    BY <2>1, ShapesStep, LockstepStep
  <2>3. CpuKnows' /\ Counted' /\ Sampled'
    BY <2>1, CpuKnowsStep, CountedStep, SampledStep
  <2>4. Kept' /\ Echo'
    BY <2>1, KeptStep, EchoStep
  <2>5. QED
    BY <2>2, <2>3, <2>4 DEF IInv
<1>2. ASSUME NEW k \in Key, Press(k)
      PROVE  IInv'
  BY <1>2, PressStep
<1>3. CASE UNCHANGED vars
  BY <1>3, Stutters
<1>4. QED
  BY <1>1, <1>2, <1>3 DEF Next

LEMMA Typed ==
  ASSUME IInv
  PROVE  TypeOK
<1>1. /\ unit \in Unit /\ Store(mem) /\ kbd \in Display /\ crt \in Display
      /\ cpu \in [at : 0..15, r5 : Key \cup {0, NoKey}, r6 : 0..(Half - 1), r7 : Int]
      /\ cpu.r7 \in -1..Len(heard)
  BY DEF IInv, UnitShape, StoreShape, ScreenShape, CpuKnows
<1>2. Len(heard) \in Nat /\ Len(kbd.keys) \in Nat /\ Len(typed) \in Nat /\ MaxKeys \in Nat
  BY Facts, LenProperties, CrewAssumption
<1>3. Len(heard) <= Len(typed) /\ Len(typed) <= MaxKeys
  <2> DEFINE w == Waiting
             a == Len(heard)
             b == Len(kbd.keys)
             c == Len(typed)
  <2>1. a + w + b <= c /\ c <= MaxKeys /\ w \in Nat
    BY DEF IInv, Counted, Waiting
  <2>2. a \in Nat /\ b \in Nat /\ c \in Nat
    BY <1>2
  <2> HIDE DEF a, b, c, w
  <2>3. a <= c /\ c <= MaxKeys
    BY <2>1, <2>2
  <2>4. QED
    BY <2>3 DEF a, c
<1>4. cpu.r7 \in -1..MaxKeys
  BY <1>1, <1>2, <1>3
<1>5. cpu \in [at : 0..15, r5 : Key \cup {0, NoKey}, r6 : 0..(Half - 1), r7 : -1..MaxKeys]
  BY <1>1, <1>4
<1>6. mem[KEYBUF] \in Key \cup {NoKey} /\ mem[TEXT] \in 0..(Half - 1)
  BY <1>1 DEF Store
<1>7. unit.c6 \in {0, C6PGM} /\ unit.acc \in 0..(Full - 1) /\ unit.x \in 0..(Space - 1)
  <2>1. 0 \in 0..(Space - 1)
    BY Sizes
  <2>2. QED
    BY <1>1, <2>1 DEF Unit
<1>8. unit.pc \in DOMAIN MscCode
  BY DEF IInv, InLockstep, Pc, MscCode
<1>9. unit.bces[4].pc \in DOMAIN KeyboardCode
  <2>1. P4 \in {\h200, \h202, \h203, \h204, \h208, \h209, \h20A}
    BY DEF IInv, InLockstep, Starting, Polling
  <2>2. QED
    BY <2>1 DEF P4, KeyboardCode
<1>10. unit.bces[5].pc \in DOMAIN DisplayCode(dispcmd)
  <2>1. P5 \in {\h1A0, \h1A2, \h1A6, \h1A7, \h1A8}
    BY DEF IInv, InLockstep, Showing
  <2>2. QED
    BY <2>1 DEF P5, DisplayCode
<1>11. \A d \in {kbd, crt} : d.cursor \in 0..(Cells - 1) /\ d.pending_write \in {0, 1}
  BY <1>1 DEF Display
<1>12. QED
  BY <1>3, <1>5, <1>6, <1>7, <1>8, <1>9, <1>10, <1>11 DEF TypeOK

(* The result of the whole: the invariant holds in every state.            *)
LEMMA Invariance == Spec => []IInv
<1>1. Init => IInv
  BY InitHolds
<1>2. IInv /\ [Next]_vars => IInv'
  BY Steps
<1>3. QED
  BY <1>1, <1>2, PTL DEF Spec

(* Types: the registers and the storage cells keep to their widths, and    *)
(* no processor leaves its program.                                        *)
THEOREM TypeCorrect == Spec => []TypeOK
<1>1. IInv => TypeOK
  BY Typed
<1>2. QED
  BY <1>1, Invariance, PTL

(* Every key pressed is kept, in the order of the presses, however fast    *)
(* the crew types, unless it does before the first poll is over: BCE 4     *)
(* polls only when the CPU has taken the key before from KEYBUF.           *)
THEOREM KeysOrdered == Spec => []KeysInOrder
<1>1. IInv => KeysInOrder
  BY DEF IInv, Kept, KeysInOrder
<1>2. QED
  BY <1>1, Invariance, PTL

(* The MSC never starts a BCE that is still busy, and no BCE runs into an  *)
(* error.                                                                  *)
THEOREM ErrorFree == Spec => []NoErrors
<1>1. IInv => NoErrors
  <2>1. ASSUME IInv
        PROVE  NoErrors
    <3>1. unit \in Unit
      BY <2>1 DEF IInv, UnitShape
    <3>2. \A n \in BCEs : unit.bces[n] \in Element
      BY <3>1 DEF Unit
    <3>3. unit.errors = {}
      BY <3>1 DEF Unit
    <3>4. \A n \in BCEs : unit.bces[n].error = FALSE
      BY <3>2 DEF Element
    <3>5. QED
      BY <3>3, <3>4 DEF NoErrors
  <2>2. QED
    BY <2>1
<1>2. QED
  BY <1>1, Invariance, PTL

(* When the crew waits for each echo, the screen shows the glyphs of the   *)
(* keys, in the cells of their order and nowhere else, as long as there    *)
(* are cells for them.                                                     *)
THEOREM EchoCorrect == Spec => []EchoRight
<1>1. IInv => EchoRight
  <2>1. ASSUME IInv, Calm, NEW c \in 0..(Cells - 1), crt.screen[c] # Blank
        PROVE  c < Len(typed) /\ crt.screen[c] = Glyph[typed[c + 1]]
    <3>1. Len(typed) \in Nat /\ c \in Int
      BY <2>1, CalmKeys, DeuAssumption
    <3>2. CASE Done
      <4>1. Screen(Len(typed))
        BY <2>1, <3>2 DEF IInv, Echo
      <4>2. crt.screen[c] = IF c < Len(typed) THEN Glyph[typed[c + 1]] ELSE Blank
        BY <4>1 DEF Screen
      <4>3. QED
        BY <2>1, <4>2
    <3>3. CASE ~ Done
      <4>1. Screen(Len(typed) - 1)
        BY <2>1, <3>3 DEF IInv, Echo
      <4>2. crt.screen[c] = IF c < Len(typed) - 1 THEN Glyph[typed[c + 1]] ELSE Blank
        BY <4>1 DEF Screen
      <4>3. QED
        BY <2>1, <3>1, <4>2
    <3>4. QED
      BY <3>2, <3>3
  <2>2. QED
    BY <2>1 DEF EchoRight, Calm
<1>2. QED
  BY <1>1, Invariance, PTL

=============================================================================
