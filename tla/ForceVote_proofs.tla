--------------------------- MODULE ForceVote_proofs ---------------------------
(***************************************************************************)
(* Proofs about the force-voted actuator, for every set of commands and    *)
(* every tolerance.                                                        *)
(***************************************************************************)
EXTENDS ForceVote, TLAPS

(* The tally of a set of ports is a number, is positive exactly when the   *)
(* set has a port, and grows with the set.                                 *)
LEMMA TallyType ==
  ASSUME NEW S
  PROVE  /\ Tally(S) \in 0..4
         /\ (\E p \in Port : p \in S) <=> Tally(S) > 0
  BY DEF Tally, One, Port

(* Two sets of ports inside a third overlap when they are together larger  *)
(* than it: the counting step of every majority argument.                  *)
LEMMA TallyOverlap ==
  ASSUME NEW A, NEW S, NEW T, S \subseteq A, T \subseteq A,
         Tally(S) + Tally(T) > Tally(A)
  PROVE  \E p \in Port : p \in S /\ p \in T
  BY DEF Tally, One, Port

(* A larger set of ports has a larger tally; two ports tally at least two, *)
(* and a tally of four leaves no port out.                                 *)
LEMMA TallyMonotone ==
  ASSUME NEW S, NEW T, S \subseteq T
  PROVE  Tally(S) <= Tally(T)
  BY DEF Tally, One

LEMMA TwoPorts ==
  ASSUME NEW S, NEW p \in Port, NEW q \in Port, p # q, p \in S, q \in S
  PROVE  Tally(S) >= 2
  BY DEF Tally, One, Port

LEMMA AllFour ==
  ASSUME NEW S, NEW T, S \subseteq T, T \subseteq Port, Tally(S) = 4
  PROVE  S = T
<1>1. 0 \in S /\ 1 \in S /\ 2 \in S /\ 3 \in S
  BY DEF Tally, One
<1>2. Port \subseteq S
  BY <1>1 DEF Port
<1>3. QED
  BY <1>2

(* Commanded ports hold integers. *)
LEMMA ActiveType ==
  ASSUME TypeOK, NEW b
  PROVE  /\ Active(b) \subseteq Port
         /\ \A p \in Active(b) : ports[p] \in Cmd /\ ports[p] \in Int
  BY ActuatorAssumption DEF TypeOK, Active

(* Halving, as the index len/2 of output() rounds it.                      *)
LEMMA Halves ==
  \A n \in 0..4, k \in 0..4 : /\ k <= n \div 2 <=> 2 * k <= n
                              /\ n \div 2 < k <=> n < 2 * k
  OBVIOUS

(* The fact about four numbers, each present (a = 1) or absent (a = 0),    *)
(* behind the existence of a median: some present one has at most half of  *)
(* the present ones below it and more than half at or below it.            *)
LEMMA FourNumbers ==
  ASSUME NEW a0 \in 0..1, NEW a1 \in 0..1, NEW a2 \in 0..1, NEW a3 \in 0..1,
         NEW x0 \in Int, NEW x1 \in Int, NEW x2 \in Int, NEW x3 \in Int,
         a0 + a1 + a2 + a3 > 0
  PROVE  LET n     == a0 + a1 + a2 + a3
             lt(v) == (IF x0 < v THEN a0 ELSE 0) + (IF x1 < v THEN a1 ELSE 0)
                        + (IF x2 < v THEN a2 ELSE 0) + (IF x3 < v THEN a3 ELSE 0)
             le(v) == (IF x0 <= v THEN a0 ELSE 0) + (IF x1 <= v THEN a1 ELSE 0)
                        + (IF x2 <= v THEN a2 ELSE 0) + (IF x3 <= v THEN a3 ELSE 0)
             mid(v) == 2 * lt(v) <= n /\ n < 2 * le(v)
         IN  \/ a0 = 1 /\ mid(x0)
             \/ a1 = 1 /\ mid(x1)
             \/ a2 = 1 /\ mid(x2)
             \/ a3 = 1 /\ mid(x3)
  BY SMTT(60)

(* A nonempty set of commanded ports has a median command, so the CHOOSE   *)
(* of Median denotes one: the element at index len/2 of the sorted vector  *)
(* that output() builds.                                                   *)
LEMMA MedianExists ==
  ASSUME NEW A, A \subseteq Port, A # {}, \A p \in A : ports[p] \in Int
  PROVE  /\ Median(A) \in {ports[p] : p \in A}
         /\ IsMedian(A, Median(A))
<1>1. \E q \in A : IsMedian(A, ports[q])
  <2> DEFINE a(p) == One(p \in A)
             x(p) == IF p \in A THEN ports[p] ELSE 0
             n     == a(0) + a(1) + a(2) + a(3)
             lt(v) == (IF x(0) < v THEN a(0) ELSE 0) + (IF x(1) < v THEN a(1) ELSE 0)
                        + (IF x(2) < v THEN a(2) ELSE 0) + (IF x(3) < v THEN a(3) ELSE 0)
             le(v) == (IF x(0) <= v THEN a(0) ELSE 0) + (IF x(1) <= v THEN a(1) ELSE 0)
                        + (IF x(2) <= v THEN a(2) ELSE 0) + (IF x(3) <= v THEN a(3) ELSE 0)
             mid(v) == 2 * lt(v) <= n /\ n < 2 * le(v)
  <2>1. \A p : a(p) \in 0..1 /\ x(p) \in Int /\ (a(p) = 1 <=> p \in A)
    BY DEF One
  <2>2. n > 0
    <3>1. PICK p \in 0..3 : a(p) = 1
      BY <2>1 DEF Port
    <3>2. p = 0 \/ p = 1 \/ p = 2 \/ p = 3
      OBVIOUS
    <3> HIDE DEF a
    <3>3. QED
      BY <2>1, <3>1, <3>2
  <2>3. \E q \in A : mid(x(q))
    <3> HIDE DEF a, x
    <3>1. \/ a(0) = 1 /\ mid(x(0))
          \/ a(1) = 1 /\ mid(x(1))
          \/ a(2) = 1 /\ mid(x(2))
          \/ a(3) = 1 /\ mid(x(3))
      BY <2>1, <2>2, FourNumbers
    <3>2. QED
      BY <3>1, <2>1
  <2>4. ASSUME NEW q \in A
        PROVE  /\ Tally(A) = n
               /\ Tally({p \in A : ports[p] < x(q)}) = lt(x(q))
               /\ Tally({p \in A : ports[p] <= x(q)}) = le(x(q))
    BY DEF Tally, One
  <2>5. \A q \in A : x(q) = ports[q]
    OBVIOUS
  <2>6. QED
    <3> PICK q \in A : mid(x(q))
      BY <2>3
    <3>1. /\ 2 * Tally({p \in A : ports[p] < x(q)}) <= Tally(A)
          /\ Tally(A) < 2 * Tally({p \in A : ports[p] <= x(q)})
      BY <2>4
    <3>2. IsMedian(A, x(q))
      BY <3>1, TallyType, Halves DEF IsMedian
    <3>3. QED
      BY <3>2, <2>5
<1>2. QED
  BY <1>1 DEF Median

(* What a median is good for: a set H with a strict majority of A has a    *)
(* command at or below the median of A and one at or above it.             *)
LEMMA MajorityBrackets ==
  ASSUME NEW A, A \subseteq Port, A # {}, \A p \in A : ports[p] \in Int,
         NEW H, H \subseteq A, 2 * Tally(H) > Tally(A)
  PROVE  \E p, q \in H : ports[p] <= Median(A) /\ Median(A) <= ports[q]
<1> DEFINE v  == Median(A)
           lo == {p \in A : ports[p] < v}
           le == {p \in A : ports[p] <= v}
           hi == {p \in A : ports[p] >= v}
<1>1. v \in Int /\ IsMedian(A, v)
  BY MedianExists
<1>2. /\ 2 * Tally(lo) <= Tally(A)
      /\ Tally(A) < 2 * Tally(le)
  BY <1>1, TallyType, Halves DEF IsMedian
<1>3. Tally(lo) + Tally(hi) = Tally(A)
  BY <1>1 DEF Tally, One, Port
<1>4. \E p \in H : ports[p] <= v
  <2>1. Tally(H) + Tally(le) > Tally(A)
    BY <1>2, TallyType
  <2>2. QED
    BY <2>1, TallyOverlap, le \subseteq A
<1>5. \E q \in H : ports[q] >= v
  <2>1. Tally(H) + Tally(hi) > Tally(A)
    BY <1>2, <1>3, TallyType
  <2>2. QED
    BY <2>1, TallyOverlap, hi \subseteq A
<1>6. QED
  BY <1>1, <1>4, <1>5

-----------------------------------------------------------------------------
(* One round of output().                                                  *)

(* The port that holds the median survives the round: bypassing never      *)
(* empties a nonempty set of active ports.                                 *)
LEMMA PassLeavesSurvivor ==
  ASSUME TypeOK, NEW b, Active(b) # {}
  PROVE  Active(Pass(b)) # {}
<1>1. PICK p \in Active(b) : ports[p] = Median(Active(b))
  BY ActiveType, MedianExists
<1>2. p \notin Outliers(b)
  BY <1>1, ActiveType, ActuatorAssumption DEF Outliers, Deviates
<1>3. QED
  BY <1>1, <1>2 DEF Active, Pass

(* Four ports settle in one round: whoever survived a round is within the  *)
(* tolerance of the vote of the survivors.  Hence the three rounds of      *)
(* Settled are the whole loop, and the loop never bypasses anybody after   *)
(* its first round.                                                        *)
LEMMA OneRoundSettles ==
  ASSUME TypeOK, NEW b
  PROVE  Outliers(Pass(b)) = {}
<1> DEFINE A == Active(b)
           B == Active(Pass(b))
           v == Median(A)
           w == Median(B)
<1> SUFFICES ASSUME NEW p \in B, Deviates(p, w)
             PROVE  FALSE
  BY DEF Outliers
<1>1. /\ B \subseteq A /\ A \subseteq Port
      /\ \A q \in A : ports[q] \in Int
      /\ \A q : q \in B <=> q \in A /\ ~ Deviates(q, v)
  BY ActiveType DEF Active, Pass, Outliers
<1>2. /\ v \in Int /\ IsMedian(A, v)
      /\ \E q \in A : v = ports[q]
      /\ w \in Int /\ IsMedian(B, w)
      /\ \E q \in B : w = ports[q]
  BY <1>1, MedianExists
<1>3. Tolerance \in Nat
  BY ActuatorAssumption
<1>4. PICK m \in B : v = ports[m]      \* the round keeps the median port
  BY <1>1, <1>2, <1>3 DEF Deviates
<1>5. /\ Tally(A) < 2 * Tally({q \in A : ports[q] <= v})
      /\ 2 * Tally({q \in B : ports[q] < w}) <= Tally(B)
      /\ Tally(B) < 2 * Tally({q \in B : ports[q] <= w})
  BY <1>2, TallyType, Halves DEF IsMedian
(* A port too far below w: then v < w, and B has the ports p and m at or   *)
(* below v, so all four ports are in B; then B is A, whose median is v.    *)
<1>6. CASE w - ports[p] > Tolerance
  <2>1. ports[p] < v /\ v < w
    BY <1>1, <1>2, <1>3, <1>6 DEF Deviates
  <2>2. Tally({q \in B : ports[q] <= v}) <= Tally({q \in B : ports[q] < w})
    BY <1>1, <1>2, <2>1, TallyMonotone
  <2>3. Tally({q \in B : ports[q] <= v}) >= 2
    BY <1>1, <1>2, <1>4, <2>1, TwoPorts
  <2>4. Tally(B) = 4
    BY <1>5, <2>2, <2>3, TallyType
  <2>5. A = B
    BY <1>1, <2>4, AllFour
  <2>6. QED
    BY <1>5, <2>2, <2>5, TallyType
(* A port too far above w: then w < v, more than half of B is below v, and *)
(* p and m are not, which takes five ports.                                *)
<1>7. CASE ports[p] - w > Tolerance
  <2>1. ports[p] > v /\ w < v
    BY <1>1, <1>2, <1>3, <1>7 DEF Deviates
  <2>2. Tally({q \in B : ports[q] <= w}) <= Tally({q \in B : ports[q] < v})
    BY <1>1, <1>2, <2>1, TallyMonotone
  <2>3. Tally({q \in B : ports[q] >= v}) >= 2
    BY <1>1, <1>2, <1>4, <2>1, TwoPorts
  <2>4. Tally({q \in B : ports[q] < v}) + Tally({q \in B : ports[q] >= v}) = Tally(B)
    BY <1>1, <1>2 DEF Tally, One, Port
  <2>5. QED
    BY <1>5, <2>2, <2>3, <2>4, TallyType
<1>8. QED
  BY <1>6, <1>7 DEF Deviates

(* Hence one round is the whole loop of output().                          *)
LEMMA SettledIsOneRound ==
  ASSUME TypeOK, NEW b
  PROVE  /\ Settled(b) = Pass(b)
         /\ Outliers(Settled(b)) = {}
<1>1. Outliers(Pass(b)) = {}
  BY OneRoundSettles
<1>2. Pass(Pass(b)) = Pass(b)
  BY <1>1 DEF Pass
<1>3. QED
  BY <1>1, <1>2 DEF Settled

-----------------------------------------------------------------------------
(* The state machine.                                                      *)

(* Type correctness, for every tolerance and every set of commands.        *)
THEOREM TypeCorrect == Spec => []TypeOK
<1>1. Init => TypeOK
  BY DEF Init, TypeOK
<1>2. TypeOK /\ [Next]_vars => TypeOK'
  <2> SUFFICES ASSUME TypeOK, [Next]_vars
               PROVE  TypeOK'
    OBVIOUS
  <2>1. CASE Output
    <3>1. ports' = ports /\ bypassed' = Pass(bypassed)
      BY <2>1, SettledIsOneRound DEF Output
    <3>2. bypassed' \subseteq Port
      BY <3>1, ActiveType DEF TypeOK, Pass, Outliers
    <3>3. vote' \in Cmd \cup {None}
      <4>1. CASE Active(bypassed') = {}
        BY <2>1, <4>1 DEF Output
      <4>2. CASE Active(bypassed') # {}
        <5>1. Median(Active(bypassed')) \in {ports[p] : p \in Active(bypassed')}
          BY <4>2, ActiveType, MedianExists
        <5>2. QED
          BY <2>1, <4>2, <5>1, ActiveType DEF Output
      <4>3. QED
        BY <4>1, <4>2
    <3>4. QED
      BY <3>1, <3>2, <3>3 DEF TypeOK
  <2>2. ASSUME NEW bus \in Bus, NEW w \in Words, Observe(bus, w)
        PROVE  TypeOK'
    BY <2>2, ActuatorAssumption DEF Observe, TypeOK, Word
  <2>3. CASE UNCHANGED vars
    BY <2>3 DEF vars, TypeOK
  <2>4. QED
    BY <2>1, <2>2, <2>3 DEF Next
<1>3. QED
  BY <1>1, <1>2, PTL DEF Spec

(* SurvivorLeft is not inductive alone: a first command on a port that was *)
(* bypassed before would break it.  It takes that only commanded ports are *)
(* ever bypassed.                                                          *)
SurvivorInv ==
  /\ \A p \in bypassed : ports[p] # None
  /\ SurvivorLeft

LEMMA SurvivorInvStep == TypeOK /\ SurvivorInv /\ [Next]_vars => SurvivorInv'
<1> SUFFICES ASSUME TypeOK, SurvivorInv, [Next]_vars
             PROVE  SurvivorInv'
  OBVIOUS
<1>1. CASE Output
  <2>1. ports' = ports /\ bypassed' = Pass(bypassed)
    BY <1>1, SettledIsOneRound DEF Output
  <2>2. (\E p \in Port : ports[p] # None) => Active(bypassed') # {}
    BY <2>1, PassLeavesSurvivor DEF SurvivorInv, SurvivorLeft
  <2>3. \A p \in bypassed' : ports[p] # None
    BY <2>1 DEF Pass, Outliers, Active, SurvivorInv
  <2>4. QED
    BY <2>1, <2>2, <2>3 DEF SurvivorInv, SurvivorLeft, Active
<1>2. ASSUME NEW bus \in Bus, NEW w \in Words, Observe(bus, w)
      PROVE  SurvivorInv'
  <2>1. CASE ports' = ports
    BY <1>2, <2>1 DEF Observe, SurvivorInv, SurvivorLeft, Active
  <2>2. CASE bus \in Port /\ ports' = [ports EXCEPT ![bus] = w.data]
    <3>1. w.data # None
      BY ActuatorAssumption DEF Word
    <3>2. /\ bypassed' = bypassed
          /\ \A p \in Port : ports[p] # None => ports'[p] # None
          /\ ports'[bus] # None
      BY <1>2, <2>2, <3>1 DEF Observe, TypeOK
    <3>3. \A p \in bypassed' : ports'[p] # None
      BY <3>2 DEF SurvivorInv, TypeOK
    <3>4. \E p \in Port \ bypassed : ports'[p] # None
      <4>1. CASE bus \in bypassed
        <5>1. PICK p \in Active(bypassed) : TRUE
          BY <2>2, <4>1 DEF SurvivorInv, SurvivorLeft
        <5>2. QED
          BY <3>2, <5>1 DEF Active
      <4>2. CASE bus \notin bypassed
        BY <2>2, <3>2, <4>2
      <4>3. QED
        BY <4>1, <4>2
    <3>5. QED
      BY <3>2, <3>3, <3>4 DEF SurvivorInv, SurvivorLeft, Active
  <2>3. QED
    BY <1>2, <2>1, <2>2 DEF Observe
<1>3. CASE UNCHANGED vars
  BY <1>3 DEF vars, SurvivorInv, SurvivorLeft, Active
<1>4. QED
  BY <1>1, <1>2, <1>3 DEF Next

(* The vote never bypasses everybody: from the first command on, output()  *)
(* always has a port to return the position of.                            *)
THEOREM SurvivorAlwaysLeft == Spec => []SurvivorLeft
<1>1. Init => SurvivorInv
  BY DEF Init, SurvivorInv, SurvivorLeft
<1>2. SurvivorInv => SurvivorLeft
  BY DEF SurvivorInv
<1>3. QED
  BY <1>1, <1>2, SurvivorInvStep, TypeCorrect, PTL DEF Spec

(* Reading the output settles the vote (action property of output()).      *)
THEOREM OutputSettles == Spec => VoteSettles
<1>1. TypeOK /\ [Next]_vars =>
        [Output => /\ Outliers(bypassed)' = {}
                   /\ Pass(bypassed) = bypassed'
                   /\ \A p \in Active(bypassed') : ~ Deviates(p, vote')]_vars
  <2> SUFFICES ASSUME TypeOK, Output
               PROVE  /\ Outliers(bypassed)' = {}
                      /\ Pass(bypassed) = bypassed'
                      /\ \A p \in Active(bypassed') : ~ Deviates(p, vote')
    OBVIOUS
  <2>1. /\ ports' = ports
        /\ bypassed' = Pass(bypassed)
        /\ Outliers(bypassed') = {}
    BY SettledIsOneRound DEF Output
  <2>2. Outliers(bypassed)' = Outliers(bypassed')
    BY <2>1 DEF Outliers, Active, Deviates, Median, IsMedian
  <2>3. \A p \in Active(bypassed') : ~ Deviates(p, vote')
    BY <2>1 DEF Output, Outliers
  <2>4. QED
    BY <2>1, <2>2, <2>3
<1>2. QED
  BY <1>1, TypeCorrect, PTL DEF Spec, VoteSettles

(* The outlier loses: the ports of a healthy majority are never bypassed,  *)
(* and the position stays between the lowest and the highest of them, for  *)
(* every tolerance and whatever the other ports command.                   *)
THEOREM MajorityWins == Spec => OutlierLoses
<1>1. TypeOK /\ [Next]_vars =>
        [Output => \A H \in SUBSET Active(bypassed) :
           HealthyMajority(H) =>
             /\ H \cap bypassed' = {}
             /\ \E p, q \in H : ports[p] <= vote' /\ vote' <= ports[q]]_vars
  <2> SUFFICES ASSUME TypeOK, Output,
                      NEW H \in SUBSET Active(bypassed), HealthyMajority(H)
               PROVE  /\ H \cap bypassed' = {}
                      /\ \E p, q \in H : ports[p] <= vote' /\ vote' <= ports[q]
    OBVIOUS
  <2> DEFINE A == Active(bypassed)
             B == Active(bypassed')
  <2>1. /\ ports' = ports
        /\ bypassed' = Pass(bypassed)
    BY SettledIsOneRound DEF Output
  <2>2. /\ A \subseteq Port /\ \A p \in A : ports[p] \in Int
        /\ B \subseteq A
        /\ 2 * Tally(H) > Tally(A)
        /\ \A p, q \in H : ports[p] - ports[q] <= Tolerance
    BY <2>1, ActiveType DEF HealthyMajority, Active, Pass
  <2>3. A # {} /\ H # {}
    BY <2>2, TallyType
  (* The median lies between two healthy commands, so no healthy command   *)
  (* is farther from it than those two are from each other.                *)
  <2>4. PICK p \in H, q \in H : ports[p] <= Median(A) /\ Median(A) <= ports[q]
    BY <2>2, <2>3, MajorityBrackets
  <2>5. Median(A) \in Int
    BY <2>2, <2>3, MedianExists
  <2>6. \A h \in H : ~ Deviates(h, Median(A))
    <3> TAKE h \in H
    <3>1. ports[h] \in Int /\ ports[p] \in Int /\ ports[q] \in Int
      BY <2>2
    <3>2. ports[h] - ports[p] <= Tolerance /\ ports[q] - ports[h] <= Tolerance
      BY <2>2
    <3>3. QED
      BY <2>4, <2>5, <3>1, <3>2, ActuatorAssumption DEF Deviates
  <2>7. H \subseteq B
    BY <2>1, <2>6 DEF Active, Pass, Outliers
  (* After the round the healthy ports are a majority of fewer ports.      *)
  <2>8. 2 * Tally(H) > Tally(B)
    BY <2>2, TallyMonotone, TallyType
  <2>9. \E r, s \in H : ports[r] <= Median(B) /\ Median(B) <= ports[s]
    BY <2>2, <2>3, <2>7, <2>8, MajorityBrackets
  <2>10. vote' = Median(B)
    BY <2>3, <2>7 DEF Output
  <2>11. QED
    BY <2>7, <2>9, <2>10 DEF Active
<1>2. QED
  BY <1>1, TypeCorrect, PTL DEF Spec, OutlierLoses
=============================================================================
