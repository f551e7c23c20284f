-------------------------------- MODULE Cpu ---------------------------------
(***************************************************************************)
(* The CPU as a state machine: Cpu::step, one action for each family of     *)
(* instructions, under the loop of Cpu::run, while the outside raises       *)
(* system interrupts and answers the I/O instruction.                       *)
(***************************************************************************)
EXTENDS Control, FloatUnit

CONSTANTS
  Starts,     \* start states: image, cpu, budget of steps, interrupts to come
  InputWords  \* the fullwords an attached device may answer

\* The start states are machines.
ASSUME StartsAssumption ==
  \A s \in Starts : IsMachine(s.cpu) /\ s.budget \in Nat /\ s.due \in [Levels -> Nat]

VARIABLES
  image,  \* the name of the program that was loaded
  cpu,    \* the machine
  left,   \* steps that run may still take
  halt,   \* why run has returned, "No" before it has
  due     \* how often each interrupt level will still be raised

vars == <<image, cpu, left, halt, due>>

Halts == {"No", "SelfLoop", "Wait", "StepLimit", "Trap"}

Init ==
  \E s \in Starts :
    image = s.image /\ cpu = s.cpu /\ left = s.budget /\ due = s.due /\ halt = "No"

at == expand_branch(cpu, cpu.psw.ic)
second == IF Outside(at, 2) THEN 0 ELSE At(cpu, at + 1)

\* Bit 34 of the PSW stops the CPU at an instruction that is not protected.
Monitored == Bit(cpu.psw.sys_mask, 5) = 1 /\ at \notin cpu.prot
Running == halt = "No" /\ left > 0 /\ ~cpu.psw.wait

\* The instruction at the IC, as a set: none while the CPU cannot fetch.
Fetched == IF Running /\ ~Monitored THEN {decode(At(cpu, at), second)} ELSE {}

Advanced(d) == [cpu EXCEPT !.psw.ic = Wrap(@ + d.len)]

\* The forms of branches that use the displacement without an address.
Relative == {"BVCF", "BCF", "BCB", "BCTB"}
BranchAddress == {"BAL", "BIX", "BC", "BCT", "BVC", "SCAL"}
Addressed(d) == d.operand.mode \in {"Srs", "RsExt", "RsIdx"} /\ d.instr \notin Relative

\* Halfwords an instruction reads at its operand address before anything else.
Reads(d) ==
  CASE ~Addressed(d) \/ d.instr \in {"LM", "ST", "STM", "STE", "STED", "STDM"} -> 0
    [] Addressed(d) /\ d.instr \in {"LPS", "LED"} \cup LongOps -> 4
    [] Addressed(d) /\ d.instr \in Full \ {"LM", "LPS", "ST", "STM", "STE", "STDM"} -> 2
    [] OTHER -> 1

\* What keeps an instruction from its body: a code, or nothing.
Refusals(d) ==
  CASE d.instr \in Privileged /\ cpu.psw.problem_state -> {PRIVILEGED}
    [] d.instr = "ISPB" /\ ~cpu.psw.problem_state /\ Bit(d.r1, 2) = 1 -> {ILLEGAL}
    [] OTHER -> {}

\* The machine with its operand address, when the body of the instruction runs.
Operands(d) ==
  IF d.instr \in NotImplemented \cup {"-"} \/ Refusals(d) # {} \/ (d.len = 2 /\ Outside(at, 2))
  THEN {}
  ELSE {IF Addressed(d) THEN resolve(Advanced(d), d, d.instr \in BranchAddress)
        ELSE Ea(Advanced(d), 0, 0)}
Readable(d) == { e \in Operands(d) : e.m.trap = "None" /\ ~Outside(e.addr, Reads(d)) }

\* ENDOP: the overflow interrupt, then the system interrupts.
endop(m) ==
  LET overflow == m.trap = "None" /\ m.psw.overflow /\ m.psw.fixed_overflow_mask
      after == IF overflow THEN program_interrupt(m, FIXED_OVERFLOW) ELSE m
  IN  IF after.trap = "None" THEN deliver_system_interrupts(after) ELSE after

\* Back in run: an IC that did not move is a halt.
Returns(m) ==
  /\ cpu' = m
  /\ left' = left - 1
  /\ halt' = CASE m.trap # "None" -> "Trap"
               [] m.trap = "None" /\ m.psw.ic = cpu.psw.ic -> "SelfLoop"
               [] OTHER -> "No"
  /\ UNCHANGED <<image, due>>
Ends(m) == Returns(endop(m))

(* The ways out of a step that skip ENDOP. *)
Monitor == Running /\ Monitored /\ Returns(psw_swap(cpu, MONITOR_OLD, MONITOR_NEW))

IllegalInstruction(d) ==
  /\ d.instr = "-"
  /\ LET m == program_interrupt(cpu, ILLEGAL)
     IN  Returns(IF m.trap = "Uninitialized" THEN Trapped(m, "Illegal") ELSE m)

Unimplemented(d) ==
  /\ d.instr \in NotImplemented
  /\ Returns(Trapped(Advanced(d), "Unimplemented"))

\* Storage that is not there: the second halfword, a pointer or an operand.
AddressTrap(d) ==
  \/ /\ d.instr # "-" /\ d.len = 2 /\ Outside(at, 2)
     /\ Returns(Trapped(cpu, "Address"))
  \/ \E e \in Operands(d) \ Readable(d) : Returns(Trapped(e.m, "Address"))

RefusedInstruction(d) == \E code \in Refusals(d) : Ends(program_interrupt(Advanced(d), code))

(* The bodies of the instructions. *)
AddOrSubtract(d, e) == d.instr \in AddSubtract /\ Ends(add_subtract(e.m, d, e))
CompareFixed(d, e) == d.instr \in Compare /\ Ends(compare_fixed(e.m, d, e))
CompareLimits(d, e) == d.instr = "CBL" /\ Ends(compare_limits(e.m, d))
MultiplyFixed(d, e) == d.instr \in Multiply /\ Ends(multiply_fixed(e.m, d, e))
DivideFixed(d, e) == d.instr \in {"D", "DR"} /\ Ends(divide_frac(e.m, d, e))
MoveData(d, e) == d.instr \in Move /\ Ends(move(e.m, d, e))
StoreRegisters(d, e) == d.instr \in StoreData /\ Ends(store_data(e.m, d, e))
ModifyHalfword(d, e) == d.instr \in ModifyStorage /\ Ends(modify_storage(e.m, d, e))
Combine(d, e) == d.instr \in Logical /\ Ends(logical(e.m, d, e))
TestBits(d, e) == d.instr \in Test /\ Ends(test(e.m, d, e))
Search(d, e) == d.instr = "SUM" /\ Ends(search_under_mask(e.m, d))
Normalize(d, e) == d.instr = "NCT" /\ Ends(normalize_and_count(e.m, d))
Shift(d, e) == d.operand.mode = "Count" /\ Ends(shift(e.m, d))
BranchAndLink(d, e) == d.instr \in Link /\ Ends(branch_and_link(e.m, d, e))
BranchOnCondition(d, e) == d.instr \in Conditional /\ Ends(branch_condition(e.m, d, e))
BranchOnCount(d, e) == d.instr \in Counted /\ Ends(branch_count(e.m, d, e))
BranchOnIndicators(d, e) == d.instr \in Indicated /\ Ends(branch_indicators(e.m, d, e))
AddFloat(d, e) == d.instr \in FloatAdd /\ Ends(float_add(e.m, d, e))
CompareFloat(d, e) == d.instr \in FloatCompare /\ Ends(float_compare(e.m, d, e))
MultiplyFloat(d, e) == d.instr \in FloatMultiply /\ Ends(float_multiply(e.m, d, e))
DivideFloat(d, e) == d.instr \in FloatDivide /\ Ends(float_divide(e.m, d, e))
LoadFloat(d, e) == d.instr \in FloatLoad /\ Ends(float_load(e.m, d, e))
ConvertFloat(d, e) == d.instr \in Convert /\ Ends(convert(e.m, d))
Midvalue(d, e) == d.instr = "MVS" /\ Ends(midvalue(e.m, d, e))
SwitchStatus(d, e) == d.instr \in Status /\ Ends(status(e.m, d, e))
MoveHalfwords(d, e) == d.instr = "MVH" /\ Ends(move_halfwords(e.m, d))
CallStacked(d, e) == d.instr = "SCAL" /\ Ends(call(e.m, d, e))
ReturnStacked(d, e) == d.instr = "SRET" /\ Ends(return(e.m, d))
ExtendAddress(d, e) == d.instr \in Extended /\ Ends(extended(e.m, d, e))
ControlIo(d, e) ==
  /\ d.instr = "PC"
  /\ \E reply \in Replies, w \in InputWords : Ends(pc(e.m, d, reply, w))

Execute(d, e) ==
  \/ AddOrSubtract(d, e) \/ CompareFixed(d, e) \/ CompareLimits(d, e) \/ MultiplyFixed(d, e)
  \/ DivideFixed(d, e) \/ MoveData(d, e) \/ StoreRegisters(d, e) \/ ModifyHalfword(d, e)
  \/ Combine(d, e) \/ TestBits(d, e) \/ Search(d, e) \/ Normalize(d, e) \/ Shift(d, e)
  \/ BranchAndLink(d, e) \/ BranchOnCondition(d, e) \/ BranchOnCount(d, e)
  \/ BranchOnIndicators(d, e) \/ AddFloat(d, e) \/ CompareFloat(d, e) \/ MultiplyFloat(d, e)
  \/ DivideFloat(d, e) \/ LoadFloat(d, e) \/ ConvertFloat(d, e) \/ Midvalue(d, e)
  \/ SwitchStatus(d, e) \/ MoveHalfwords(d, e) \/ CallStacked(d, e) \/ ReturnStacked(d, e)
  \/ ExtendAddress(d, e) \/ ControlIo(d, e)

\* A waiting CPU takes the interrupts it may take, and returns if it still waits.
Waiting ==
  /\ halt = "No" /\ left > 0 /\ cpu.psw.wait
  /\ LET m == deliver_system_interrupts(cpu)
     IN  /\ cpu' = m
         /\ halt' = CASE m.trap # "None" -> "Trap" [] m.psw.wait -> "Wait" [] OTHER -> "No"
  /\ UNCHANGED <<image, left, due>>

OutOfSteps == halt = "No" /\ left = 0 /\ halt' = "StepLimit" /\ UNCHANGED <<image, cpu, left, due>>

\* The outside sets a level pending between two steps.
Raise(i) ==
  /\ halt = "No" /\ due[i] > 0
  /\ cpu' = [cpu EXCEPT !.pending = @ \cup {i}]
  /\ due' = [due EXCEPT ![i] = @ - 1]
  /\ UNCHANGED <<image, left, halt>>

Next ==
  \/ Monitor \/ Waiting \/ OutOfSteps
  \/ \E i \in Levels : Raise(i)
  \/ \E d \in Fetched :
       \/ IllegalInstruction(d) \/ Unimplemented(d) \/ AddressTrap(d) \/ RefusedInstruction(d)
       \/ \E e \in Readable(d) : Execute(d, e)

Spec == Init /\ [][Next]_vars
-----------------------------------------------------------------------------
TypeOK ==
  /\ IsMachine(cpu)
  /\ left \in Nat /\ halt \in Halts /\ due \in [Levels -> Nat]

(* A machine in the PSW of a handler; its interruption code may be that of a *)
(* further interrupt, for which there is no handler.                        *)
NewSlots == {PROGRAM_NEW, SVC_NEW, MONITOR_NEW} \cup { SYSTEM_NEW[i] : i \in Levels }
Uncoded(p) == [p EXCEPT !.int_code = 0]
HandlerPsw(m, new) ==
  LET w == Hs(m, new, 4)
  IN  Uncoded(set_word1(set_word0(DefaultPsw, SubSeq(w, 1, 2)), SubSeq(w, 3, 4)))
Handles(m, new) == Uncoded(m.psw) = HandlerPsw(m, new)
InHandler(m) == \E new \in NewSlots : Handles(m, new)
Swapped == InHandler(cpu')

(* The interrupts taken from machine m to machine n, and where their old     *)
(* PSWs go: levels that no longer wait, and a program interrupt whose        *)
(* handler is in control or was when one of these levels was taken.          *)
LevelsTaken(m, n) == { i \in Levels : i \in m.pending /\ i \notin n.pending }
ProgramTaken(m, n) ==
  \/ Handles(n, PROGRAM_NEW)
  \/ \E i \in LevelsTaken(m, n), p \in {HandlerPsw(n, PROGRAM_NEW)} :
       Hs(n, SYSTEM_OLD[i], 4) = word0(p) \o word1(p)
OldPsws(m, n) ==
  { a \in Span(PROGRAM_OLD, 4) : ProgramTaken(m, n) }
  \cup UNION { Span(SYSTEM_OLD[i], 4) : i \in LevelsTaken(m, n) }

\* Where the step itself puts an old PSW: a supervisor call or the monitor.
CalledPsw ==
  { a \in Span(SVC_OLD, 4) : \E d \in Fetched : d.instr = "SVC" }
  \cup { a \in Span(MONITOR_OLD, 4) : Running /\ Monitored }
StoredPsws == { a \in CalledPsw \cup OldPsws(cpu, cpu') : Swapped }

\* The two halfwords of an address pointer that the operand address moves on.
PointerMoves(d) ==
  d.operand.mode = "RsIdx" /\ d.operand.x = 0 /\ d.operand.ia /\ d.operand.i
MovedPointer(d) == IF PointerMoves(d) THEN Span(PointerAt(Advanced(d), d), 2) ELSE {}

\* Storage protection: a protected halfword keeps its value in every step,
\* but for the old PSW of an interrupt that the step takes, in the place of
\* that interrupt, and for the two halfwords of the address pointer that the
\* operand address of the instruction moves on.
ProtectedKept ==
  [][ \A a \in cpu.prot :
        At(cpu', a) # At(cpu, a) =>
          a \in StoredPsws \/ \E d \in Fetched : a \in MovedPointer(d) ]_vars

\* The same as docs/ISA_STATUS.md:194 and src/mem.rs:41 put it, with no pointer
\* excepted: every store of an instruction checks the protection.
EveryStoreChecked ==
  [][ \A a \in cpu.prot : At(cpu', a) # At(cpu, a) => a \in StoredPsws ]_vars

\* A program in problem state keeps the protection of storage, and changes its
\* masks, its register set, the wait and the problem state by no other way than
\* the new PSW of an interrupt.
ControlFields == {"sys_mask", "reg_set", "machine_check_mask", "wait", "problem_state"}
PrivilegeHeld ==
  [][ cpu.psw.problem_state =>
        /\ cpu'.prot = cpu.prot
        /\ Swapped \/ \A f \in ControlFields : cpu'.psw[f] = cpu.psw[f] ]_vars

(* Exact values of normalized numbers. *)
Normalized(u) == u.frac[1] # 0
FloatOperands(d) == << fpr(cpu, d.r1, precision(d.instr)), fpr(cpu, d.operand.r2, precision(d.instr)) >>
Smaller(a, b) == a.ch < b.ch \/ (a.ch = b.ch /\ Below(a.frac, b.frac))
LessThan(a, b) ==
  IF a.neg # b.neg THEN a.neg ELSE IF a.neg THEN Smaller(b, a) ELSE Smaller(a, b)

\* Comparison orders normalized numbers by their values, unless their
\* difference is too large for the characteristic.
FloatOrdered ==
  [][ \A d \in Fetched :
        d.instr \in {"CER", "CEDR"} /\ ~Swapped =>
          \A x \in {FloatOperands(d)} :
            /\ Normalized(x[1]) /\ Normalized(x[2])
            /\ add(x[1], x[2], TRUE, precision(d.instr)).event # "Overflow"
            => cpu'.psw.cc = CASE x[1] = x[2] -> ZERO
                               [] LessThan(x[1], x[2]) -> NEG
                               [] OTHER -> POS ]_vars

\* q * b <= a < (q + ulp) * b, where the fraction of q has p digits.
Truncates(a, b, q, p) ==
  LET carry == Flag(~Below(a.frac, b.frac))
      ch == a.ch - b.ch + 64 + carry
      whole == ShiftRight(a.frac \o Zeros(DIGITS), carry)
      back == Product(q.frac, b.frac, 16)
      more == Sum(back, ShiftRight(b.frac \o Zeros(DIGITS), p), 0, 16)
  IN  ch \in 0 .. 127 =>
        /\ q.ch = ch /\ q.neg = (a.neg # b.neg)
        /\ ~Below(whole, back)
        /\ more.carry \/ Below(whole, more.digits)

\* Division of normalized numbers truncates the exact quotient: times the
\* divisor it does not exceed the dividend, with one more in its last digit it
\* would.
QuotientExact ==
  [][ \A d \in Fetched :
        d.instr \in {"DER", "DEDR"} /\ ~Swapped =>
          \A x \in {FloatOperands(d)}, q \in {fpr(cpu', d.r1, precision(d.instr))} :
            Normalized(x[1]) /\ Normalized(x[2]) =>
              Truncates(x[1], x[2], q, precision(d.instr)) ]_vars

\* Conversion to floating point by normalization: what is not zero stays so.
ConvertedKept ==
  [][ \A d \in Fetched :
        d.instr = "CVFL" /\ ~Swapped =>
          is_zero(fpr_short(cpu', d.r1)) = IsZero(R(cpu, d.operand.r2)) ]_vars
=============================================================================
