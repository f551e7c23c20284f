------------------------------- MODULE MCCpu --------------------------------
EXTENDS Programs

(***************************************************************************)
(* One instruction at a time: every op code, with every R1 where it extends  *)
(* the op code, in every form, on machines that differ in state and in what  *)
(* protection and interrupts may do to the instruction.                      *)
(***************************************************************************)
Extending == {13, 17, 18, 20, 22, 23, 25}
Firsts ==
  { First(op, r1, low) :
      op \in Extending, r1 \in 0 .. 7, low \in {4, 226, 234, 243, 245, 251, 253} }
  \cup { First(op, r1, low) :
      op \in 0 .. 31, r1 \in {2, 5}, low \in {4, 9, 18, 226, 234, 240, 243, 245, 248, 251, 253} }
Handlers ==
  [a \in { new + k : new \in NewSlots, k \in 0 .. 3 } |-> IF a % 4 = 0 THEN 600 + a ELSE IF a % 4 = 2 THEN 8 ELSE 0]
Data == [a \in 1024 .. 1056 |-> CASE a % 4 = 0 -> 1030 [] a % 4 = 2 -> HW - 1 [] OTHER -> (a * 5201) % HW]
User ==
  [Blank EXCEPT
     !.mem = Handlers @@ Data,
     !.gpr = [s \in 0 .. 1 |-> [n \in 0 .. 7 |-> <<IF n = 2 THEN 4 ELSE 1024 + 2 * n, (3 * n) % 8>>]],
     !.fpr = [n \in 0 .. 7 |-> <<16656 + 256 * n, 17 * n>>]]
Supervisor == [User EXCEPT !.psw.cc = ZERO, !.psw.fixed_overflow_mask = TRUE]
Problem == [User EXCEPT !.psw.cc = NEG, !.psw.problem_state = TRUE, !.prot = 1020 .. 1070]
OneStep(m, hw1, hw2) ==
  Start("Instruction", [m EXCEPT !.mem = (512 :> hw1 @@ 513 :> hw2) @@ @], 1, NoInterrupts)
EveryInstruction ==
  { OneStep(m, hw1, 1026) : m \in {Supervisor, Problem}, hw1 \in Firsts }
\* The last ones move a pointer on that leads into protected storage.
EveryAddress ==
  { OneStep(m, First(op, 5, low), 8 + 2048 * k) :
      m \in {Supervisor, Problem}, op \in {3, 6, 22, 24, 28}, low \in {245, 253}, k \in {0, 1, 2, 3, 12, 13, 14, 15} }
  \cup { OneStep(Problem, First(op, 5, low), 6 + 2048 * 3) : op \in 0 .. 31, low \in {245, 253} }

(* Steps that end outside the instructions. *)
Ic(m, ic) == [m EXCEPT !.psw.ic = ic]
Last2 == [User EXCEPT !.psw.bsr = 15, !.psw.dsr = 15, !.psw.ic = 65535,
                      !.mem = (SIZE - 1 :> First(3, 1, 240)) @@ @]
Beyond == [User EXCEPT !.psw.dsr = 15, !.mem = (512 :> First(3, 1, 243) @@ 513 :> 65535) @@ @]
Exceptional ==
  { Start("Exception", m, 2, NoInterrupts) :
      m \in { Last2, Beyond, [Beyond EXCEPT !.mem = (512 :> First(0, 1, 255) @@ 513 :> 6144) @@ @],
              [User EXCEPT !.psw.sys_mask = 32], Blank, [Blank EXCEPT !.mem = (512 :> First(31, 1, 240))],
              [User EXCEPT !.psw.wait = TRUE, !.psw.sys_mask = 16] } }
Waits ==
  { Start("Wait", [User EXCEPT !.psw.wait = TRUE, !.psw.sys_mask = mask, !.pending = p], 2,
          [NoInterrupts EXCEPT ![4] = 1]) : mask \in {0, 8, 216}, p \in {{}, {4}, {2, 4}} }

(* Interrupts in a row where every PSW is protected: SVC, LPS, STM and AR, under *)
(* the monitor or not, with levels that wait; handlers that let them in or that   *)
(* overflow, and a level for which there is none.                                 *)
Overflowing == 6144
LettingIn == 256 * 72 + 8
Opened == [ a \in { new + k : new \in {PROGRAM_NEW, SVC_NEW, SYSTEM_NEW[2]}, k \in 1 .. 2 } |->
              IF a % 4 = 1 THEN Overflowing ELSE LettingIn ]
Removed == [ a \in SYSTEM_NEW[4] .. SYSTEM_NEW[4] + 3 |-> 0 ]
Shielded(changed, pending, mask) ==
  [Problem EXCEPT !.mem = changed @@ @, !.prot = @ \cup (72 .. 159), !.psw.sys_mask = mask, !.pending = pending]
InARow ==
  { OneStep(Shielded(changed, pending, mask), hw1, 1026) :
      changed \in {Opened, Removed, Removed @@ Opened}, pending \in SUBSET {2, 4}, mask \in {72, 104},
      hw1 \in {First(25, 1, 251), First(25, 5, 251), First(25, 0, 251), First(0, 5, 226)} }

(* Pairs of floating-point numbers. *)
Floats ==
  { <<0, 0, 0, 0>>, <<16656, 0, 0, 0>>, <<32767, 65535, 65535, 65535>>, <<65535, 65535, 65535, 65535>>,
    <<16, 0, 0, 1>>, <<49424, 0, 0, 1>>, <<16639, 65535, 65535, 65535>>, <<16675, 17767, 35243, 52719>>,
    <<16897, 0, 0, 0>> }
FloatOps == {10, 11, 12, 13} \X {226} \cup {2, 3, 6, 9} \X {234} \cup {9} \X {234, 226}
FloatPairs ==
  { OneStep([User EXCEPT !.psw.exp_underflow_mask = mask, !.psw.significance_mask = mask,
                         !.fpr = [n \in 0 .. 7 |-> CASE n = 0 -> SubSeq(x, 1, 2) [] n = 1 -> SubSeq(x, 3, 4)
                                                      [] n = 2 -> SubSeq(y, 1, 2) [] OTHER -> SubSeq(y, 3, 4)]],
            First(o[1], 0, o[2]), 0) :
      x \in Floats, y \in Floats, o \in FloatOps, mask \in BOOLEAN }

(* Pairs of fixed-point numbers. *)
Fixed == { <<0, 0>>, <<0, 1>>, <<65535, 65535>>, <<32767, 65535>>, <<32768, 0>>, <<16384, 3>>, <<4660, 22136>> }

MCStarts ==
  EveryInstruction \cup EveryAddress \cup Exceptional \cup Waits \cup InARow \cup FloatPairs
  \cup { CallsStart(h, n, p) : h \in BOOLEAN, n \in 1 .. 2, p \in {{}, {SAVE + 23}} }
  \cup { MoveStart(name, p) : name \in DOMAIN Destination, p \in SUBSET (0 .. COUNT - 1) }
  \cup {LocksStart}
  \cup { ProductsStart(a, b) : a \in Fixed, b \in Fixed }
  \cup { StatementStart(mn) : mn \in Mnemonics }
\* CVFL from register 4 to floating-point register 2.
ConvertStarts ==
  { OneStep([User EXCEPT !.gpr[0][4] = <<h, k>>], First(7, 2, 236), 0) :
      h \in {0, 1, HW - 1}, k \in {0, 1, 255, 256, HW - 1} \cup 2 .. 40 }
MCInputWords == { <<4660, 22136>> }
=============================================================================
