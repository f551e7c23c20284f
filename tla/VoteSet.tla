-------------------------------- MODULE VoteSet --------------------------------
(***************************************************************************)
(* The redundant set of gpc.rs running the voting program of demo.rs: GPC  *)
(* i publishes its value in its own mailbox, its MSC then starts the BCEs, *)
(* BCE i transmits the mailbox on bus i and BCE j listens on bus j for the *)
(* value of GPC j; the CPU polls until every mailbox is filled or its      *)
(* budget is spent, and flags every GPC whose mailbox differs from its own *)
(* value.                                                                  *)
(*                                                                         *)
(* A step of the module is step_one: one CPU step, one MSC step and one    *)
(* slice of every busy BCE of one GPC.  Instructions that touch only       *)
(* registers are part of the step of the load or store they prepare.       *)
(***************************************************************************)
EXTENDS Bce, FiniteSets

CONSTANTS
  N,         \* the GPCs 0..N-1 command the buses 0..N-1
  Machines,  \* every GPC there may be
  Setups,    \* the sets that are put together and what is wrong with them
  Patience   \* #LTOI operand: slices a listener waits for a word

Pass == 0..(N - 1)
Bus  == Pass

(* A set has backups besides the N GPCs that command a bus: they only      *)
(* listen (the Backup Flight System).  Each GPC computes a value from its  *)
(* sensors; some CPUs trap at their first instruction; some buses spoil    *)
(* the validity pattern of data words; the CPUs poll budget times before   *)
(* they vote with what they have; and no GPC runs more than skew slices    *)
(* ahead of the slowest, unless skew is 0 and it may be any number.        *)
Setup ==
  [backups : SUBSET (Machines \ Pass), value : [Machines -> Nat \ {0}],
   trapping : SUBSET Machines, garbled : SUBSET Bus, budget : Nat, skew : Nat]

ASSUME VoteAssumption ==
  /\ N \in Nat \ {0}
  /\ Space >= 8                          \* the BCE programs are in 0..6
  /\ Pass \subseteq Machines /\ Machines \subseteq 0..(Space - 1)
  /\ \A s \in Setups : s \in Setup       \* a mailbox that holds 0 is empty
  /\ Patience \in Nat

VARIABLES
  setup,       \* which set this is; never changes
  cpu,         \* where each CPU is in the voting program
  msc,         \* where each MSC is in its sequencer program
  bce,         \* bce[g][b]
  indicators,  \* the MSC indicator register, as a set of buses
  mail,        \* mail[g][s]: halfword 0x1000 + s of GPC g's main storage
  rx,          \* rx[g][b]: words awaiting g's receiver on bus b
  dead,        \* the GPCs that trapped
  lead         \* slices each GPC is ahead of the slowest live one

vars == <<setup, cpu, msc, bce, indicators, mail, rx, dead, lead>>

GPC == Pass \cup setup.backups

-----------------------------------------------------------------------------
(* The programs in main storage (tx_program, listener_program).            *)
Transmits(g, b) == g = b

TransmitterCode(b) ==
  [a \in {0, 2, 4, 5, 6} |->
     CASE a = 0 -> [op |-> "LBR", value |-> 0]
       [] a = 2 -> [op |-> "CMD", word |-> ListenWord(ListenIua, 0), direct |-> FALSE]
       [] a = 4 -> [op |-> "TDS", disp |-> b, count |-> 1]
       [] a = 5 -> [op |-> "IB", set |-> TRUE]
       [] a = 6 -> [op |-> "WAT"]]

ListenerCode(b) ==
  [a \in {0, 2, 3, 4, 5, 6} |->
     CASE a = 0 -> [op |-> "LBR", value |-> 0]
       [] a = 2 -> [op |-> "LTO", value |-> Patience]
       [] a = 3 -> [op |-> "WIX", table |-> [index \in {0} |-> 4]]
       [] a = 4 -> [op |-> "RDS", disp |-> b, count |-> 1]
       [] a = 5 -> [op |-> "IB", set |-> TRUE]
       [] a = 6 -> [op |-> "WAT"]]

Code(g, b) == IF Transmits(g, b) THEN TransmitterCode(b) ELSE ListenerCode(b)

-----------------------------------------------------------------------------
Init ==
  /\ setup \in Setups
  /\ cpu = [g \in GPC |-> [at |-> "publish", k |-> 0, budget |-> setup.budget, mask |-> {}]]
  /\ msc = [g \in GPC |-> "poll"]
  /\ bce = [g \in GPC |-> [b \in Bus |-> ResetBce(0)]]
  /\ indicators = [g \in GPC |-> {}]
  /\ mail = [g \in GPC |-> [s \in GPC |-> 0]]
  /\ rx = [g \in GPC |-> [b \in Bus |-> <<>>]]
  /\ dead = {}
  /\ lead = [g \in GPC |-> 0]

(* POLL: charge the budget, then look at the mailboxes from the first on.  *)
(* Mutant: the budget is not charged.                                      *)
PollForever(c) == [c EXCEPT !.at = "look", !.k = 0]

Poll(c) ==
  IF c.budget = 0 THEN [c EXCEPT !.at = "vote", !.k = 0, !.budget = -1]
                  ELSE [c EXCEPT !.at = "look", !.k = 0, !.budget = @ - 1]

LastBoxEarly(k) == k + 2 >= N     \* mutants: one mailbox too few, one too many
LastBoxLate(k) == k = N
LastBox(k) == k + 1 = N

(* VOTE: compare the mailbox of GPC s with the CPU's own value.            *)
Agrees(g, s) == mail[g][s] = setup.value[g]

(* The CPU.  POLL counts the budget down and looks at the mailboxes in     *)
(* order, from the first again as soon as it meets an empty one; VOTE      *)
(* compares them one by one with the CPU's own value.                      *)
CpuStep(g, c) ==
  CASE c.at = "publish" -> [c EXCEPT !.at = "count"]
    [] c.at = "count"   -> Poll(c)
    [] c.at = "look"    -> IF mail[g][c.k] = 0 THEN [c EXCEPT !.at = "count"]
                           ELSE IF LastBox(c.k) THEN [c EXCEPT !.at = "vote", !.k = 0]
                           ELSE [c EXCEPT !.k = @ + 1]
    [] c.at = "vote"    -> [c EXCEPT !.mask = IF Agrees(g, c.k) THEN @ ELSE @ \cup {c.k},
                                     !.at = IF LastBox(c.k) THEN "done" ELSE "vote",
                                     !.k = IF LastBox(c.k) THEN 0 ELSE @ + 1]
    [] c.at = "done"    -> c

(* Mutant: the mailbox next to the own one is filled.                      *)
MailAfterCpuNext(g) ==
  IF cpu[g].at = "publish" THEN [mail[g] EXCEPT ![(g + 1) % N] = setup.value[g]] ELSE mail[g]

(* Main storage of g after the CPU's step: STH of its own value.           *)
MailAfterCpu(g) ==
  IF cpu[g].at = "publish" THEN [mail[g] EXCEPT ![g] = setup.value[g]] ELSE mail[g]

(* The MSC: poll the own mailbox, start the BCEs (@SIO), wait.             *)
MscStep(g, m, mailbox) ==
  CASE m = "poll"  -> IF mailbox[g] = 0 THEN "poll" ELSE "start"
    [] m = "start" -> "stop"
    [] m = "stop"  -> "wait"
    [] m = "wait"  -> "wait"

Sio(g, b) == IF msc[g] = "start" THEN [bce[g][b] EXCEPT !.busy = TRUE] ELSE bce[g][b]

NoReply == [command |-> <<>>, data |-> <<>>]

(* The slice of g's BCE b, after the CPU and the MSC.                      *)
BceSlice(g, b, mailbox) ==
  LET s == Sio(g, b)
  IN  IF s.busy
      THEN Slice(s, Code(g, b)[s.pc], rx[g][b], Transmits(g, b), TRUE, mailbox, NoReply)
      ELSE Change(s, rx[g][b])

(* The words other receivers hear: a garbled bus spoils the validity       *)
(* pattern of the data words and leaves commands alone.                    *)
Garble(b, w) == IF b \in setup.garbled /\ ~ w.cmd_sync THEN [w EXCEPT !.good = FALSE] ELSE w
Transmitted(b, words) == [i \in 1..Len(words) |-> Garble(b, words[i])]

(* Clocks drift: each live GPC takes its slices at a pace of its own.      *)
SlowestAfter(g) ==
  LET now == [lead EXCEPT ![g] = @ + 1]
      s   == CHOOSE h \in GPC \ dead : \A o \in GPC \ dead : now[h] <= now[o]
  IN  now[s]

MayRun(g) == setup.skew > 0 => lead[g] < setup.skew

Drift(g) ==
  lead' = IF setup.skew = 0 THEN lead
          ELSE [h \in GPC |-> IF h \in dead THEN 0
                              ELSE lead[h] + (IF h = g THEN 1 ELSE 0) - SlowestAfter(g)]

(* step_one on a GPC whose CPU does not trap.                              *)
StepOne(g) ==
  LET mailbox == MailAfterCpu(g)
  IN  /\ g \notin dead /\ g \notin setup.trapping
      /\ MayRun(g)
      /\ cpu' = [cpu EXCEPT ![g] = CpuStep(g, @)]
      /\ msc' = [msc EXCEPT ![g] = MscStep(g, @, mailbox)]
      /\ \E r \in {[b \in Bus |-> BceSlice(g, b, mailbox)]} :
           /\ bce' = [bce EXCEPT ![g] = [b \in Bus |-> r[b].bce]]
           /\ indicators' = [indicators EXCEPT ![g] =
                               (@ \cup {b \in Bus : r[b].bit = "set"})
                                  \ {b \in Bus : r[b].bit = "reset"}]
           /\ mail' = [mail EXCEPT ![g] =
                         [s \in GPC |-> IF s \in Bus /\ s \in DOMAIN r[s].stored
                                        THEN r[s].stored[s] ELSE mailbox[s]]]
           /\ rx' = [h \in GPC |-> [b \in Bus |->
                       IF h = g THEN r[b].queue ELSE rx[h][b] \o Transmitted(b, r[b].sent)]]
      /\ UNCHANGED <<setup, dead>>
      /\ Drift(g)

(* step_one on a GPC whose CPU traps: it falls silent, its IOP with it.    *)
Trap(g) ==
  /\ g \in setup.trapping \ dead
  /\ dead' = dead \cup {g}
  /\ UNCHANGED <<setup, cpu, msc, bce, indicators, mail, rx, lead>>

Next == \E g \in GPC : StepOne(g) \/ Trap(g)

Spec == Init /\ [][Next]_vars

-----------------------------------------------------------------------------
(* Type invariant of the set.                                              *)
TypeOK ==
  /\ cpu \in [GPC -> [at : {"publish", "count", "look", "vote", "done"}, k : Pass,
                      budget : -1..setup.budget, mask : SUBSET Pass]]
  /\ msc \in [GPC -> {"poll", "start", "stop", "wait"}]
  /\ \A g \in GPC, b \in Bus : bce[g][b].pc \in DOMAIN Code(g, b) \cup {7}
  /\ indicators \in [GPC -> SUBSET Bus]
  /\ mail \in [GPC -> [GPC -> {0} \cup {setup.value[g] : g \in GPC}]]
  /\ dead \subseteq setup.trapping
  /\ lead \in [GPC -> Nat]

Done(g) == cpu[g].at = "done"
Exhausted(g) == cpu[g].budget = -1

\* GPC g cannot hear j: j is silent, or its words reach g garbled.
Unheard(g, j) == j \in setup.trapping \/ (j \in setup.garbled /\ j # g)

(* Every value ends up in its own mailbox: a filled mailbox holds what its *)
(* owner published, and nothing arrives from a GPC that cannot be heard.   *)
MailboxesTrue ==
  \A g \in GPC, s \in GPC :
    mail[g][s] # 0 => /\ mail[g][s] = setup.value[s]
                      /\ mail[s][s] = setup.value[s]
                      /\ ~ Unheard(g, s)

(* The verdict is right.  Whatever the skew, a GPC that disagrees or that  *)
(* cannot be heard is flagged by every GPC that reaches a verdict; and a   *)
(* GPC is flagged without that reason only by a CPU whose budget ran out.  *)
VerdictRight ==
  \A g \in GPC :
    Done(g) =>
      LET deserved == {j \in Pass : setup.value[j] # setup.value[g] \/ Unheard(g, j)}
      IN  /\ deserved \subseteq cpu[g].mask
          /\ Exhausted(g) \/ cpu[g].mask = deserved

(* When the clocks stay close enough for the budget and for the listeners' *)
(* patience, nobody runs out of either: the buses absorb the skew.         *)
SkewAbsorbed ==
  setup.skew > 0 => \A g \in GPC :
    /\ \A b \in Bus : bce[g][b].status = {}
    /\ ~ Exhausted(g)

(* A listener knows why it heard nothing: only on a garbled bus does a     *)
(* receive fail for the validity pattern, every other failure is silence,  *)
(* and either way the MSC sees the indicator and the mailbox stays empty.  *)
GarbledBusSeen ==
  \A g \in GPC, b \in Bus :
    /\ bce[g][b].status \subseteq {"INITIAL_TIMEOUT"} \cup (IF b \in setup.garbled THEN {"SEV"} ELSE {})
    /\ bce[g][b].error => b \in indicators[g] /\ mail[g][b] = 0

(* The steps a CPU has left, at most, before it has a verdict.             *)
StepsLeft(c) ==
  CASE c.at = "done"    -> 0
    [] c.at = "vote"    -> N - c.k
    [] c.at = "count"   -> (c.budget + 2) * (N + 2)
    [] c.at = "look"    -> (c.budget + 2) * (N + 2) + N - c.k
    [] c.at = "publish" -> (c.budget + 2) * (N + 2) + 1

(* A silent GPC does not stall the set: whatever the other machines do or  *)
(* fail to do, every step of a live CPU brings it nearer to its verdict.   *)
VerdictInTime ==
  [][\A g \in GPC : StepOne(g) /\ ~ Done(g) =>
        StepsLeft(cpu'[g]) \in 0..(StepsLeft(cpu[g]) - 1)]_vars

=============================================================================
