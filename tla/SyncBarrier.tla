------------------------------ MODULE SyncBarrier ------------------------------
(***************************************************************************)
(* The sync discretes of the redundant set (gpc.rs, wire_discretes) and    *)
(* the barrier the GPCs build from them in software: each raises its       *)
(* discrete output with a PCO, then polls the cross-wired inputs with a    *)
(* PCI and a signed compare until all lines are up.                        *)
(*                                                                         *)
(* Line i is bit i of the fullword, the way the four lines of the code are *)
(* its top four bits: line 0 is the sign, and the bits past the lines are  *)
(* off, in the inputs and in ALLUP.                                        *)
(***************************************************************************)
EXTENDS Integers

CONSTANT N   \* the GPCs and their lines are 0..N-1

GPC == 0..(N - 1)

ASSUME BarrierAssumption == N \in Nat \ {0}

VARIABLES
  at,            \* where each GPC's program is
  discrete_out,  \* the GPCs whose output line is up
  discrete_in,   \* discrete_in[g]: the input lines g sees up
  r1             \* r1[g]: the lines in register 1 of GPC g

vars == <<at, discrete_out, discrete_in, r1>>

-----------------------------------------------------------------------------
(* Fullwords as the lines of their bits that are on.  The first bit that   *)
(* differs decides a comparison, and cc_compare's is signed: bit 0 is the  *)
(* sign, and it decides the other way round.                               *)
Below(a, b) == \E i \in b \ a : \A j \in 0..(i - 1) : j \in a <=> j \in b
Less(a, b) == IF 0 \in a <=> 0 \in b THEN Below(a, b) ELSE 0 \in a

AllUp == GPC

(* Mutants: BC 1 for BC 2, and BC 6 for BC 2.                              *)
PollAgainGreater(lines) == Less(AllUp, lines)
PollAgainEqual(lines) == ~Less(AllUp, lines)

(* C 1,ALLUP followed by BC 2,WAITL: poll again while the input is less.   *)
PollAgain(lines) == Less(lines, AllUp)

Init ==
  /\ at = [g \in GPC |-> "delay"]
  /\ discrete_out = {}
  /\ discrete_in = [g \in GPC |-> {}]
  /\ r1 = [g \in GPC |-> {}]

(* One step of GPC g's program.  Its staggered arrival takes as long as it *)
(* takes: leaves says whether the loop ends with this step.                *)
Step(g, leaves) ==
  CASE at[g] = "delay"   -> IF leaves THEN "raise" ELSE "delay"
    [] at[g] = "raise"   -> "read"
    [] at[g] = "read"    -> "compare"
    [] at[g] = "compare" -> IF PollAgain(r1[g]) THEN "read" ELSE "through"
    [] at[g] = "through" -> "through"

(* Mutant: the shift is off by one.                                        *)
WiredShifted(out) == [g \in GPC |-> {i + 1 : i \in out}]

(* wire_discretes: every GPC sees every output, its own included.          *)
Wired(out) == [g \in GPC |-> out]

(* A tick of the host: the GPCs in S take a step each, in any order (they  *)
(* meet only in the discretes), then the discretes are wired again.  Those *)
(* of S in leaving finish their stagger loop.                              *)
Tick(S, leaving) ==
  /\ at' = [g \in GPC |-> IF g \in S THEN Step(g, g \in leaving) ELSE at[g]]
  /\ discrete_out' = discrete_out \cup {g \in S : at[g] = "raise"}
  /\ r1' = [g \in GPC |-> IF g \in S /\ at[g] = "read" THEN discrete_in[g] ELSE r1[g]]
  /\ discrete_in' = Wired(discrete_out')

SomeTick(S) == \E leaving \in SUBSET {g \in S : at[g] = "delay"} : Tick(S, leaving)

Next == \E S \in SUBSET GPC : SomeTick(S)

Spec == Init /\ [][Next]_vars

(* Every GPC is stepped again and again, and no stagger loop is endless.   *)
Moves(g) == Next /\ at'[g] # at[g]
FairSpec == Spec /\ \A g \in GPC : WF_vars(Moves(g))

-----------------------------------------------------------------------------
(* Type invariant of the set.                                              *)
TypeOK ==
  /\ at \in [GPC -> {"delay", "raise", "read", "compare", "through"}]
  /\ discrete_out \subseteq GPC
  /\ discrete_in \in [GPC -> SUBSET GPC]
  /\ r1 \in [GPC -> SUBSET GPC]

(* What the discretes guarantee: a GPC goes through on what it read, no    *)
(* line is read that is not up, and a read that contains line 0 lets       *)
(* nobody through before the last line is up.                              *)
LineZeroGates ==
  \A g \in GPC :
    /\ r1[g] \subseteq discrete_out
    /\ at[g] = "through" /\ 0 \in r1[g] => discrete_out = GPC

(* Nobody is left behind: when every GPC keeps running, all get through.   *)
AllGetThrough == <>(\A g \in GPC : at[g] = "through")

=============================================================================
