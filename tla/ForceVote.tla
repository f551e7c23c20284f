------------------------------ MODULE ForceVote ------------------------------
(***************************************************************************)
(* The force-voted actuator of gpc.rs: four command ports, one per         *)
(* flight-critical bus, tapped off the serial buses by `observe' and voted *)
(* by `output', which bypasses (for good) every port whose command is      *)
(* farther than Tolerance from the median of the active ports.             *)
(*                                                                         *)
(* A word on the bus is abstracted to the four things `observe' looks at.  *)
(* A set stands for the array of bypass flags.                             *)
(***************************************************************************)
EXTENDS Integers

CONSTANTS
  Bus,        \* the serial buses an actuator may hear (ports are buses 0..3)
  Iua,        \* interface-unit addresses
  MyIua,      \* the address this actuator obeys
  Cmd,        \* 16-bit command values
  Words,      \* the words that appear on the buses
  Tolerance,  \* allowed deviation from the vote, inclusive
  None        \* no command received yet / no output

\* The validity pattern of a good word is the bits 101; any other is garbled.
Word == [cmd_sync : BOOLEAN, iua : Iua, sev : {"101", "garbled"}, data : Cmd]

ASSUME ActuatorAssumption ==
  /\ 0..3 \subseteq Bus
  /\ Words \subseteq Word
  /\ MyIua \in Iua
  /\ Cmd \subseteq Int
  /\ Tolerance \in Nat
  /\ None \notin Int

VARIABLES
  ports,     \* last command heard on each port
  bypassed,  \* the ports latched out
  vote       \* what the last call of output() returned

vars == <<ports, bypassed, vote>>

Port == 0..3

-----------------------------------------------------------------------------
(* The number of ports in S, for S a set of ports.                         *)
One(b) == IF b THEN 1 ELSE 0
Tally(S) == One(0 \in S) + One(1 \in S) + One(2 \in S) + One(3 \in S)

(* The ports that still have a say when b is the set of bypassed ports.    *)
Active(b) == {p \in Port \ b : ports[p] # None}

(* The entry at index Tally(A) \div 2 (counting from 0) of the commands of *)
(* the ports in A in ascending order.  With an even number of ports it is  *)
(* the upper one of the two middle commands.                               *)
IsMedian(A, v) ==
  /\ Tally({p \in A : ports[p] < v}) <= Tally(A) \div 2
  /\ Tally(A) \div 2 < Tally({p \in A : ports[p] <= v})

(* Mutant: the last entry of the sorted commands, not the middle one.      *)
Highest(A) == CHOOSE v \in {ports[p] : p \in A} : \A p \in A : ports[p] <= v

Median(A) == CHOOSE v \in {ports[p] : p \in A} : IsMedian(A, v)

Deviates(p, v) == ports[p] - v > Tolerance \/ v - ports[p] > Tolerance

(* Mutant: deviation is measured from the vote of all commanded ports,     *)
(* those already bypassed included.                                        *)
OutliersOfAll(b) == {p \in Active(b) : Deviates(p, Median(Active({})))}

(* One round of the loop in output(): bypass what deviates from the vote   *)
(* of the ports that are active now.                                       *)
Outliers(b) ==
  LET active == Active(b)
      v      == Median(active)
  IN  {p \in active : Deviates(p, v)}

(* Mutant: the flag of the next port is set.                               *)
PassNextPort(b) == b \cup {p + 1 : p \in Outliers(b)}

Pass(b) == b \cup Outliers(b)

(* output() repeats the round until it bypasses nothing.  Every round that *)
(* bypasses something leaves fewer active ports, and never none, so three  *)
(* rounds are always enough for four ports.                                *)
Settled(b) == Pass(Pass(Pass(b)))

-----------------------------------------------------------------------------
Init ==
  /\ ports = [p \in Port |-> None]
  /\ bypassed = {}
  /\ vote = None

(* The bus tap: a data word for this actuator with a good validity pattern *)
(* becomes the port's command; everything else is ignored.                 *)
Observe(bus, w) ==
  /\ ports' = IF /\ bus \in Port
                 /\ ~w.cmd_sync
                 /\ w.iua = MyIua
                 /\ w.sev = "101"
              THEN [ports EXCEPT ![bus] = w.data]
              ELSE ports
  /\ UNCHANGED <<bypassed, vote>>

(* The surface position is read: vote, bypass the outliers, vote again.    *)
Output ==
  /\ UNCHANGED ports
  /\ bypassed' = Settled(bypassed)
  /\ vote' = IF Active(bypassed') = {} THEN None ELSE Median(Active(bypassed'))

Next == Output \/ \E bus \in Bus, w \in Words : Observe(bus, w)

Spec == Init /\ [][Next]_vars

-----------------------------------------------------------------------------
(* Type invariant of the actuator: commands, flags and vote have the types *)
(* of the struct's fields.                                                 *)
TypeOK ==
  /\ ports \in [Port -> Cmd \cup {None}]
  /\ bypassed \subseteq Port
  /\ vote \in Cmd \cup {None}

(* The vote can never bypass everybody: once any port has been commanded,  *)
(* some commanded port is still active, so output() keeps returning a      *)
(* surface position and its loop ends with one.                            *)
SurvivorLeft ==
  (\E p \in Port : ports[p] # None) => Active(bypassed) # {}

(* A set H of healthy ports with a strict majority of the active ones and  *)
(* commands that agree within the tolerance.                               *)
HealthyMajority(H) ==
  /\ 2 * Tally(H) > Tally(Active(bypassed))
  /\ \A p, q \in H : ports[p] - ports[q] <= Tolerance

(* The outlier loses: whatever the other ports command, reading the output *)
(* bypasses no port of a healthy majority, and the position it returns     *)
(* lies between the lowest and the highest command of that majority.       *)
OutlierLoses ==
  [][Output => \A H \in SUBSET Active(bypassed) :
       HealthyMajority(H) =>
          /\ H \cap bypassed' = {}
          /\ \E p, q \in H : ports[p] <= vote' /\ vote' <= ports[q]]_vars

(* output() returns only a settled vote: nobody still active is out of     *)
(* tolerance of the value returned, so reading the output again, with no   *)
(* new command, returns the same value and bypasses nobody.                *)
VoteSettles ==
  [][Output => /\ Outliers(bypassed)' = {}
               /\ Pass(bypassed) = bypassed'
               /\ \A p \in Active(bypassed') : ~ Deviates(p, vote')]_vars

=============================================================================
