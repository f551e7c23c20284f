-------------------------- MODULE SyncBarrier_proofs --------------------------
(***************************************************************************)
(* What the sync barrier guarantees, for every number of GPCs, any order   *)
(* of their steps and any stagger: proofs about SyncBarrier.               *)
(***************************************************************************)
EXTENDS SyncBarrier, WellFoundedInduction, TLAPS

(* A set of naturals that is not empty has a least member.                 *)
LEMMA LeastMember ==
  ASSUME NEW T \in SUBSET Nat, T # {}
  PROVE  \E x \in T : \A y \in T : x <= y
<1>1. PICK x \in T : \A y \in T : <<y, x>> \notin OpToRel(<, Nat)
  BY NatLessThanWellFounded, WFMin, Zenon
<1>2. \A y \in T : ~(y < x)
  BY <1>1 DEF OpToRel
<1>3. \A y \in T : x <= y
  BY <1>2
<1>4. QED
  BY <1>3

(* The signed compare of the barrier lets a word with line 0 pass only if  *)
(* it has all the lines: of two negative numbers the one with the first    *)
(* missing line is less.  (The words without line 0 all pass.)             *)
LEMMA LineZeroDecides ==
  ASSUME NEW lines \in SUBSET GPC, 0 \in lines, ~PollAgain(lines)
  PROVE  lines = GPC
<1>1. SUFFICES ASSUME GPC \ lines # {}
               PROVE  FALSE
  OBVIOUS
<1>2. PICK i \in GPC \ lines : \A y \in GPC \ lines : i <= y
  <2>1. GPC \ lines \in SUBSET Nat
    BY BarrierAssumption DEF GPC
  <2>2. QED
    BY <1>1, <2>1, LeastMember
<1>3. \A j \in 0..(i - 1) : j \in lines <=> j \in GPC
  BY <1>2, BarrierAssumption DEF GPC
<1>4. Below(lines, GPC)
  BY <1>2, <1>3 DEF Below
<1>5. QED
  BY <1>4 DEF PollAgain, Less, AllUp, GPC

-----------------------------------------------------------------------------
(***************************************************************************)
(* The inductive invariant.  LineZeroGates speaks of the GPCs that are     *)
(* through; to preserve it, the inputs have to be the outputs, wired, and  *)
(* what is read has to be an input of some earlier tick.  Outputs are only *)
(* ever raised, so neither is lost.                                        *)
(***************************************************************************)
Gates ==
  /\ TypeOK
  /\ discrete_in = Wired(discrete_out)
  /\ LineZeroGates

(* Every step of a program stays in it; a GPC goes through from the        *)
(* compare alone, on what its register holds.                              *)
LEMMA StepOfProgram ==
  ASSUME TypeOK, NEW g \in GPC, NEW leaves
  PROVE  /\ Step(g, leaves) \in {"delay", "raise", "read", "compare", "through"}
         /\ Step(g, leaves) = "through" =>
              \/ at[g] = "through"
              \/ at[g] = "compare" /\ ~PollAgain(r1[g])
  BY DEF TypeOK, Step

LEMMA GatesInductive == Spec => []Gates
<1>1. Init => Gates
  BY DEF Init, Gates, TypeOK, Wired, LineZeroGates
<1>2. ASSUME Gates, NEW S \in SUBSET GPC, NEW leaving, Tick(S, leaving)
      PROVE  Gates'
  <2> USE <1>2 DEF Gates
  <2>1. TypeOK'
    <3>1. at' \in [GPC -> {"delay", "raise", "read", "compare", "through"}]
      BY StepOfProgram DEF Tick, TypeOK
    <3>2. discrete_out' \subseteq GPC
      BY DEF Tick, TypeOK
    <3>3. discrete_in' \in [GPC -> SUBSET GPC]
      BY <3>2 DEF Tick, Wired
    <3>4. r1' \in [GPC -> SUBSET GPC]
      BY DEF Tick, TypeOK
    <3>5. QED
      BY <3>1, <3>2, <3>3, <3>4 DEF TypeOK
  <2>2. discrete_in' = Wired(discrete_out')
    BY DEF Tick
  <2>3. ASSUME NEW g \in GPC
        PROVE  r1[g] \subseteq discrete_out' /\ r1'[g] \subseteq discrete_out'
    BY <2>3 DEF Tick, TypeOK, Wired, LineZeroGates
  <2>4. ASSUME NEW g \in GPC, at'[g] = "through", 0 \in r1'[g]
        PROVE  discrete_out' = GPC
    <3>1. at[g] # "read" /\ r1'[g] = r1[g]
      BY <2>4 DEF Tick, TypeOK, Step
    <3>2. CASE at[g] = "through"
      BY <2>1, <2>4, <3>1, <3>2 DEF LineZeroGates, TypeOK, Tick
    <3>3. CASE at[g] = "compare" /\ ~PollAgain(r1[g])
      <4>1. r1[g] = GPC
        BY <2>4, <3>1, <3>3, LineZeroDecides DEF TypeOK
      <4>2. QED
        BY <2>1, <2>3, <4>1 DEF TypeOK
    <3>4. QED
      BY <2>4, <3>2, <3>3, StepOfProgram DEF Tick
  <2>5. QED
    BY <2>1, <2>2, <2>3, <2>4 DEF LineZeroGates
<1>3. Gates /\ [Next]_vars => Gates'
  <2>1. Gates /\ UNCHANGED vars => Gates'
    BY DEF vars, Gates, TypeOK, LineZeroGates
  <2>2. QED
    BY <1>2, <2>1 DEF Next, SomeTick
<1>4. QED
  BY <1>1, <1>3, PTL DEF Spec

(* Type correctness of the barrier (sync_discretes_barrier).               *)
THEOREM TypeCorrect == Spec => []TypeOK
<1>1. Gates => TypeOK
  BY DEF Gates
<1>2. QED
  BY <1>1, GatesInductive, PTL

(* A read that contains line 0 lets nobody through before the last line is *)
(* up, and no line is ever read that is not up (wire_discretes, and the    *)
(* poll loop C 1,ALLUP with BC 2,WAITL).                                   *)
THEOREM BarrierGates == Spec => []LineZeroGates
<1>1. Gates => LineZeroGates
  BY DEF Gates
<1>2. QED
  BY <1>1, GatesInductive, PTL
=============================================================================
