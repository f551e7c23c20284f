------------------------------ MODULE Interrupts ------------------------------
(***************************************************************************)
(* The interrupt system of the CPU (cpu.rs): PSW swaps through the         *)
(* preferred storage area, program exceptions, supervisor calls, the       *)
(* instruction monitor, and the system levels that pend while masked and   *)
(* are taken at the end of an instruction; under the two hosts that drive  *)
(* it, Cpu::run and the GPC of gpc.rs.                                     *)
(*                                                                         *)
(* The preferred storage area has one old-PSW slot per class.  The         *)
(* observation `nest' is the stack of contexts the slots should amount to. *)
(***************************************************************************)
EXTENDS Integers, Sequences, FiniteSets

CONSTANTS
  Hosts,     \* who may drive the CPU: "run" is Cpu::run, "gpc" is Gpc::step
  NewPsw,    \* the new PSW of each class
  ZeroPsw,   \* an all-zero doubleword: no handler installed
  Raisable,  \* the system levels something raises
  Program,   \* Program[w]: the instructions context w may execute
  Rank       \* a rank that grows from an interrupted context to its handler

(* Contexts: the handlers of the seven system levels in mask-bit order,    *)
(* those of the other classes, and the program they interrupt.             *)
Level    == 0..6
ProgramX == 7
Svc      == 8
Monitor  == 9
Class    == 0..9
Main     == 10
Context  == 0..10

IopInt   == 4       \* external 2, raised by the MSC's @INT

Psw == [who : Context, mask : SUBSET (Level \cup {Monitor}), wait : BOOLEAN, ovf : BOOLEAN]

(* An instruction, by what it does to the interrupt system.                *)
Instr == [op : {"plain", "overflow", "fault", "illegal", "svc", "lps", "clear"}]
           \cup [op : {"ssm"}, mask : SUBSET (Level \cup {Monitor}), wait : BOOLEAN]

(* The classes somebody has installed a handler for.                       *)
Handled == {c \in Class : NewPsw[c] # ZeroPsw}

Masks(w) == {NewPsw[c].mask : c \in Handled \cap {w}}
              \cup {i.mask : i \in {x \in Program[w] : x.op = "ssm"}}

(* The discipline a nest of handlers needs, because each class has a       *)
(* single slot: whatever may interrupt a context has a handler of higher   *)
(* rank, so that no class interrupts its own handler, however indirectly.  *)
ASSUME HandlerDiscipline ==
  /\ Hosts \subseteq {"run", "gpc"} /\ Raisable \subseteq Level
  /\ NewPsw \in [Class -> Psw \cup {ZeroPsw}] /\ ZeroPsw \notin Psw
  /\ Program \in [Context -> SUBSET Instr]
  /\ Rank \in [Context -> Nat]
  /\ \A c \in Handled :
       /\ NewPsw[c].who = c
       /\ NewPsw[c].ovf => Rank[c] < Rank[ProgramX]
  /\ \A w \in Context :
       /\ \A mask \in Masks(w), c \in Level \cup {Monitor} : c \in mask => Rank[w] < Rank[c]
       /\ \A i \in Program[w] :
            /\ i.op \in {"overflow", "fault", "illegal"} => Rank[w] < Rank[ProgramX]
            /\ i.op = "svc" => Rank[w] < Rank[Svc]
            /\ i.op \in {"lps", "clear"} => w # Main

VARIABLES
  host,     \* who drives the CPU; never changes
  psw,      \* the current PSW
  old,      \* old[c]: the old PSW stored for class c
  pending,  \* the system levels that are pending
  trap,     \* the host has stopped: no handler was installed
  nest      \* the interrupted contexts, innermost last (observation)

vars == <<host, psw, old, pending, trap, nest>>

-----------------------------------------------------------------------------
machine == [psw |-> psw, old |-> old, pending |-> pending, trap |-> trap, nest |-> nest]

Becomes(m) ==
  /\ psw' = m.psw /\ old' = m.old /\ pending' = m.pending
  /\ trap' = m.trap /\ nest' = m.nest
  /\ host' = host

(* Mutants: the old PSW is stored in the slot of the program exceptions;   *)
(* the system mask of the interrupted context stays in effect.             *)
psw_swap_slot(m, c) ==
  IF m.trap THEN m
  ELSE IF NewPsw[c] = ZeroPsw THEN [m EXCEPT !.trap = TRUE]
  ELSE [m EXCEPT !.old[ProgramX] = m.psw,
                 !.psw = NewPsw[c],
                 !.nest = Append(@, [class |-> c, psw |-> m.psw])]
psw_swap_masks(m, c) ==
  IF m.trap THEN m
  ELSE IF NewPsw[c] = ZeroPsw THEN [m EXCEPT !.trap = TRUE]
  ELSE [m EXCEPT !.old[c] = m.psw,
                 !.psw = [NewPsw[c] EXCEPT !.mask = m.psw.mask],
                 !.nest = Append(@, [class |-> c, psw |-> m.psw])]

(* PSW swap for class c; without a handler the host traps instead.         *)
psw_swap(m, c) ==
  IF m.trap THEN m
  ELSE IF NewPsw[c] = ZeroPsw THEN [m EXCEPT !.trap = TRUE]
  ELSE [m EXCEPT !.old[c] = m.psw,
                 !.psw = NewPsw[c],
                 !.nest = Append(@, [class |-> c, psw |-> m.psw])]

(* Level l at the end of an instruction: taken if pending and unmasked by  *)
(* the PSW of now, which an earlier level may just have loaded.            *)
TakeCleared(m, l) ==              \* mutant: clears the level although it is masked
  LET c == [m EXCEPT !.pending = @ \ {l}]
  IN  IF ~ m.trap /\ l \in m.pending /\ l \in m.psw.mask THEN psw_swap(c, l)
      ELSE IF m.trap THEN m ELSE c

Take(m, l) ==
  IF ~ m.trap /\ l \in m.pending /\ l \in m.psw.mask
  THEN psw_swap([m EXCEPT !.pending = @ \ {l}], l)
  ELSE m

(* From here on, operators yield sets of machines; these are singletons.   *)
TakeIn(M, l) == {Take(m, l) : m \in M}

deliver_system_interrupts(M) ==
  TakeIn(TakeIn(TakeIn(TakeIn(TakeIn(TakeIn(TakeIn(M, 0), 1), 2), 3), 4), 5), 6)

(* ENDOP: the overflow exception, whichever instruction loaded the         *)
(* indicator, then the system levels.                                      *)
Endop(M) ==
  deliver_system_interrupts({IF m.psw.ovf THEN psw_swap(m, ProgramX) ELSE m : m \in M})

(* What an instruction does.  LPS returns from the handler that executes   *)
(* it; a handler may also clear the overflow indicator in its old PSW.     *)
Exec(m, i) ==
  CASE i.op = "plain"    -> m
    [] i.op = "overflow" -> [m EXCEPT !.psw.ovf = TRUE]
    [] i.op = "fault"    -> psw_swap(m, ProgramX)
    [] i.op = "svc"      -> psw_swap(m, Svc)
    [] i.op = "ssm"      -> [m EXCEPT !.psw.mask = i.mask, !.psw.wait = i.wait]
    [] i.op = "clear"    -> [m EXCEPT !.old[m.psw.who].ovf = FALSE,
                                      !.nest[Len(m.nest)].psw.ovf = FALSE]
    [] i.op = "lps"      -> [m EXCEPT !.psw = m.old[m.psw.who],
                                      !.nest = SubSeq(@, 1, Len(@) - 1)]

(* One instruction of the current program, whichever it is.  The monitor   *)
(* stops an unprotected one before it is fetched, and an illegal one ends  *)
(* without the ENDOP checks.                                               *)
Monitored(m) == IF Monitor \in m.psw.mask THEN {psw_swap(m, Monitor)} ELSE {}

Step(m) ==
  Monitored(m) \cup
  UNION {IF i.op = "illegal" THEN {psw_swap(m, ProgramX)} ELSE Endop({Exec(m, i)}) :
           i \in Program[m.psw.who]}

-----------------------------------------------------------------------------
Init ==
  /\ host \in Hosts
  /\ psw = [who |-> Main, mask |-> {}, wait |-> FALSE, ovf |-> FALSE]
  /\ old = [c \in Class |-> ZeroPsw]
  /\ pending = {}
  /\ trap = FALSE
  /\ nest = <<>>

(* One turn of the loop of Cpu::run: the wait state is left if an unmasked *)
(* level is pending, and if not the loop ends here.                        *)
WokenNever == {machine}           \* mutant: pending levels are not looked at
Woken == IF psw.wait THEN deliver_system_interrupts({machine}) ELSE {machine}

RunLoop ==
  /\ host = "run" /\ ~ trap
  /\ \E w \in Woken :
       \E m \in IF w.psw.wait \/ w.trap THEN {w} ELSE Step(w) : Becomes(m)

(* Gpc::step: an instruction, skipped in the wait state, then an IOP slice *)
(* in which the MSC may execute @INT.                                      *)
IopSlice(m) ==
  IF m.trap \/ IopInt \notin Raisable THEN {m}
  ELSE {m, [m EXCEPT !.pending = @ \cup {IopInt}]}

GpcStep ==
  /\ host = "gpc" /\ ~ trap
  /\ \E c \in IF psw.wait THEN {machine} ELSE Step(machine) :
       \E m \in IopSlice(c) : Becomes(m)

(* Something outside the CPU makes a level pending.                        *)
Raise(l) ==
  /\ ~ trap
  /\ pending' = pending \cup {l}
  /\ UNCHANGED <<host, psw, old, trap, nest>>

Next == RunLoop \/ GpcStep \/ \E l \in Raisable : Raise(l)

Spec == Init /\ [][Next]_vars

(* The host keeps driving the machine.                                     *)
FairSpec == Spec /\ WF_vars(RunLoop) /\ WF_vars(GpcStep)

-----------------------------------------------------------------------------
(* Type invariant of the interrupt system; there are never more contexts   *)
(* interrupted at once than handlers installed.                            *)
TypeOK ==
  /\ psw \in Psw
  /\ old \in [Class -> Psw \cup {ZeroPsw}]
  /\ pending \subseteq Level
  /\ trap \in BOOLEAN
  /\ nest \in Seq([class : Class, psw : Psw])
  /\ Len(nest) <= Cardinality(Handled)

(* The slots amount to a stack: every interrupted context, however deep,   *)
(* is still in the slot its handler will return through, and the innermost *)
(* handler is the one that runs.                                           *)
SavedContextsIntact ==
  /\ \A k \in 1..Len(nest) : old[nest[k].class] = nest[k].psw
  /\ psw.who = (IF nest = <<>> THEN Main ELSE nest[Len(nest)].class)

(* A pending level is not lost: it stops pending only when its handler is  *)
(* entered, with the interrupted context saved in its slot, or when the    *)
(* machine stops for want of a handler.  The saved context is still to be  *)
(* returned to, or (out of the wait state, where the handler's first       *)
(* instruction is part of the step) is running again.                      *)
PendsUntilTaken ==
  [][\A l \in pending \ pending' :
       trap' \/ old'[l] \in {psw'} \cup {nest'[k].psw : k \in 1..Len(nest')}]_vars

WaitsInVain(l) == psw.wait /\ l \in pending /\ l \in psw.mask /\ ~ trap

(* The wait state is interruptible when not masked: a machine does not     *)
(* stay in the wait state with an unmasked level pending.                  *)
WaitIsInterruptible == \A l \in Level : WaitsInVain(l) ~> ~ WaitsInVain(l)

(* Cpu::run keeps that promise.                                            *)
RunWakesUp == \A l \in Level : (host = "run" /\ WaitsInVain(l)) ~> ~ WaitsInVain(l)

=============================================================================
