------------------------------ MODULE Programs ------------------------------
(***************************************************************************)
(* Programs for the CPU, assembled by the assembler of asm.rs, and what     *)
(* their runs must show.  Instructions its table lacks are written as data, *)
(* as the tests of the repository do.                                       *)
(***************************************************************************)
EXTENDS Cpu, Assembler, Functions, TLC

(* The source language. *)
Zero == Num(0)
Labelled(label, st) == [st EXCEPT !.label = label]
Rr(mn, r1, r2) == Stmt("", mn, FALSE, FALSE, r1, NoAddress, r2, Zero)
Ri(mn, r1, v) == Stmt("", mn, FALSE, FALSE, r1, NoAddress, 0, Num(v))
To(mn, r1, l) == Stmt("", mn, FALSE, FALSE, r1, NoAddress, 0, Ref(l))
Rs(mn, r1, l) == Stmt("", mn, FALSE, FALSE, r1, Direct(Ref(l)), 0, Zero)
Org(a) == Stmt("", "ORG", FALSE, FALSE, 0, NoAddress, 0, Num(a))
Dc(v) == Stmt("", "DC", FALSE, FALSE, 0, NoAddress, 0, Num(v))
Address(l) == Stmt("", "DC", FALSE, FALSE, 0, NoAddress, 0, Ref(l))

\* SCAL, TS, LPS, ISPB and SVC with a direct address, and register forms.
Long(op, r1, l) == << Dc(2048 * op + 256 * r1 + 251), Address(l) >>
Scal(r1, l) == Long(26, r1, l)
Ts(l) == Long(23, 0, l)
Lps(slot) == << Dc(2048 * 25 + 256 * 5 + 251), Dc(slot) >>
Sret(mask, r2) == Dc(2048 * 18 + 256 * mask + 232 + r2)
Mvh(r1, r2) == Dc(2048 * 13 + 256 * r1 + 232 + r2)

Ispb(mode, x, b2) == << Dc(2048 * 29 + 256 * mode + 252 + b2), Dc(8192 * x) >>

\* A PSW that begins at a label, in a data sector, with a mask and a register set.
NewPsw(slot, label, dsr, mask, set) ==
  << Org(slot), Address(label), Dc(dsr), Dc(256 * mask + 8 * set), Dc(0) >>
Halt == << Labelled("HALT", Rs("BC", 7, "HALT")) >>

(* Start states. *)
Start(name, machine, budget, raised) ==
  [image |-> name, cpu |-> machine, budget |-> budget, due |-> raised]
NoInterrupts == [i \in Levels |-> 0]
Blank ==
  [ mem |-> [a \in {} |-> 0], prot |-> {}, psw |-> [DefaultPsw EXCEPT !.ic = 512],
    gpr |-> [s \in 0 .. 1 |-> [n \in 0 .. 7 |-> ZeroWord]],
    dse |-> [s \in 0 .. 1 |-> [n \in 0 .. 7 |-> 0]],
    fpr |-> [n \in 0 .. 7 |-> ZeroWord], pending |-> {}, trap |-> "None" ]
Symbols(text) == LET Of(stmts) == Labels(stmts, Places(stmts)) IN Of(Statements(text))

(***************************************************************************)
(* A recursive procedure.  Register 1 holds the save area, register 2 how    *)
(* often the procedure calls itself, and it spoils what it must not keep.    *)
(* Timer interrupts come at any time, a protected frame makes a call fail.   *)
(***************************************************************************)
Calls ==
  NewPsw(SYSTEM_NEW[1], "TIMER", 0, 0, 1) \o NewPsw(PROGRAM_NEW, "FAULT", 0, 0, 1)
  \o << Org(512) >> \o Scal(1, "SUB") \o Scal(1, "SUB") \o Halt
  \o << Labelled("SUB", Ri("AHI", 2, -1)), To("BCF", 4, "DONE") >> \o Scal(1, "SUB")
  \o << Labelled("DONE", Ri("LFXI", 2, 9)), Ri("LFXI", 5, 3), Sret(7, 1) >>
  \o << Labelled("TIMER", Ri("AHI", 0, 1)) >> \o Lps(SYSTEM_OLD[1])
  \o << Labelled("FAULT", Ri("AHI", 0, 1)) >> \o Lps(PROGRAM_OLD)

SAVE == 768
CallsLabels == Symbols(Calls)
CallsStart(high, depth, prot) ==
  Start("Calls",
        [Blank EXCEPT !.mem = assemble(Calls), !.prot = prot,
                      !.psw.sys_mask = 128, !.psw.dsr = 2,
                      !.gpr[0][1] = <<SAVE + (IF high THEN SECTOR ELSE 0), 0>>,
                      !.gpr[0][2] = <<depth, 0>>],
        60, [NoInterrupts EXCEPT ![1] = 2])

\* Where the frames are, and who runs: the handlers use the other registers.
Frames ==
  LET p == cpu.gpr[0][1]
      sector == IF p[1] >= SECTOR THEN 2 * SECTOR ELSE 0
      n == IF p[2] = 0 THEN 0 ELSE ((p[1] % SECTOR) - SAVE) \div FRAME + 1
      Frame(k) == Hs(cpu, sector + SAVE + FRAME * (k - 1), FRAME)
      Word2(hs, k) == SubSeq(hs, k, k + 1)
  IN  [k \in 1 .. n |-> [word |-> Word2(Frame(k), 1),
                         regs |-> [r \in 0 .. 7 |-> Word2(Frame(k), 2 * r + 3)]]]
Suspended ==
  IF cpu.psw.reg_set = 0 THEN word0(cpu.psw)
  ELSE Hs(cpu, IF cpu.psw.ic < CallsLabels["FAULT"] THEN SYSTEM_OLD[1] ELSE PROGRAM_OLD, 2)
Nested ==
  INSTANCE CallStack WITH
    Pointer <- 1, Length <- 2,
    stack <- IF image = "Calls" THEN Frames ELSE <<>>,
    running <- IF image = "Calls" THEN [word |-> Suspended, regs |-> cpu.gpr[0]] ELSE <<>>

\* Calls nest: a return brings back the address and the registers of the call
\* it ends, and neither interrupts nor failed calls disturb an open frame.
CallsNest == Nested!Spec

(***************************************************************************)
(* A block move into partly protected storage.  The handler takes the        *)
(* protection from one halfword after the other, from the highest address,   *)
(* and returns to the move each time.                                        *)
(***************************************************************************)
BLOCK == 1024
COUNT == 4
Values == [c \in 0 .. COUNT - 1 |-> 11 + c]
MoveBlock(dsr) ==
  NewPsw(PROGRAM_NEW, "FAULT", dsr, 0, 1)
  \o << Org(512), Mvh(1, 2) >> \o Halt
  \o << Labelled("FAULT", Ispb(0, 3, 1)[1]), Ispb(0, 3, 1)[2] >>
  \o << Ri("AHI", 3, -1) >> \o Lps(PROGRAM_OLD)

\* The destination: above the block, overlapping it, or in another sector.
Destination == [MoveAbove |-> BLOCK + 64, MoveOver |-> BLOCK + 1, MoveAway |-> 3 * SECTOR + BLOCK]
MoveStart(name, prot) ==
  LET sector == Destination[name] \div SECTOR
      to == <<(Destination[name] % SECTOR) + (IF sector > 0 THEN SECTOR ELSE 0), COUNT>>
      block == [a \in BLOCK .. BLOCK + COUNT - 1 |-> Values[a - BLOCK]]
  IN  Start(name,
            [Blank EXCEPT !.mem = assemble(MoveBlock(sector)) @@ block,
                          !.prot = { Destination[name] + c : c \in prot },
                          !.psw.dsr = sector,
                          !.gpr[0] = [@ EXCEPT ![1] = to, ![2] = <<BLOCK, 0>>],
                          !.gpr[1] = [@ EXCEPT ![1] = <<to[1], 0>>, ![3] = <<COUNT - 1, 0>>]],
            40, NoInterrupts)

\* However often a move is interrupted, the halfwords from the count that
\* register 1 holds on have arrived, the others wait where they were, and the
\* program goes on only when none is left.
MoveResumes ==
  image \in DOMAIN Destination =>
    LET waiting == cpu.gpr[0][1][2]
    IN  /\ \A c \in waiting .. COUNT - 1 : At(cpu, Destination[image] + c) = Values[c]
        /\ \A c \in 0 .. waiting - 1 : At(cpu, BLOCK + c) = Values[c]
        /\ halt = "SelfLoop" => waiting = 0

(***************************************************************************)
(* A lock taken with TS by a program and by two levels of interrupts that   *)
(* find it anywhere in its section; an interrupt that finds the lock set     *)
(* goes away.                                                                *)
(***************************************************************************)
Try(name, r) ==
  << Labelled(name, Ts("LOCK")[1]), Ts("LOCK")[2], Labelled(name \o "TEST", Rs("BC", 3, name \o "OUT")),
     Labelled(name \o "IN", Rs("LH", r, "DATA")), Ri("AHI", r, 1), Rs("STH", r, "DATA"),
     Labelled(name \o "FREE", Dc(2048 * 20 + 256 + 243)), Address("LOCK") >>
Locks ==
  NewPsw(SYSTEM_NEW[1], "FIRST", 0, 64, 1) \o NewPsw(SYSTEM_NEW[2], "SECOND", 0, 0, 1)
  \o << Org(512) >> \o Try("MAIN", 5) \o << Labelled("MAINOUT", Rs("BC", 7, "MAINOUT")) >>
  \o Try("FIRST", 5) \o << Labelled("FIRSTOUT", Lps(SYSTEM_OLD[1])[1]), Lps(SYSTEM_OLD[1])[2] >>
  \o Try("SECOND", 6) \o << Labelled("SECONDOUT", Lps(SYSTEM_OLD[2])[1]), Lps(SYSTEM_OLD[2])[2] >>
  \o << Labelled("LOCK", Dc(0)), Labelled("DATA", Dc(0)) >>

LocksStart ==
  Start("Locks", [Blank EXCEPT !.mem = assemble(Locks), !.psw.sys_mask = 192],
        40, [NoInterrupts EXCEPT ![1] = 2, ![2] = 1])

\* The contexts in progress: the PSW, and the old PSWs that wait behind it.
Within(labels, name, w) == w[1] \in labels[name] .. labels[name \o "OUT"] + 1
Contexts(labels, now, behind, first) ==
  LET nested == Within(labels, "SECOND", now)
  IN  {<<0, now>>} \cup (IF nested THEN {<<2, behind>>} ELSE {})
      \cup (IF Within(labels, "FIRST", IF nested THEN behind ELSE now) THEN {<<1, first>>} ELSE {})

\* A context owns the lock from a test that found it free to the store of zero.
Owns(labels, w) ==
  \E name \in {"MAIN", "FIRST", "SECOND"} :
    \/ w[1] \in labels[name \o "IN"] .. labels[name \o "FREE"]
    \/ w[1] = labels[name \o "TEST"] /\ Field(w[2], 14, 2) = ZERO
Owners(labels) ==
  { c \in Contexts(labels, word0(cpu.psw), Hs(cpu, SYSTEM_OLD[2], 2), Hs(cpu, SYSTEM_OLD[1], 2)) :
      Owns(labels, c[2]) }

\* The lock is set exactly while one context owns it, and never two do.
Excludes(labels) ==
  Cardinality(Owners(labels)) = IF At(cpu, labels["LOCK"]) = 0 THEN 0 ELSE 1
LocksLabels == Symbols(Locks)
LockExclusive == image = "Locks" => Excludes(LocksLabels)

(***************************************************************************)
(* A product divided by its second factor.                                  *)
(***************************************************************************)
Products == << Org(512), Rr("LR", 6, 2), Rr("MR", 2, 4), Rr("DR", 2, 4) >> \o Halt
ProductsStart(a, b) ==
  Start("Products",
        [Blank EXCEPT !.mem = assemble(Products), !.gpr[0] = [@ EXCEPT ![2] = a, ![4] = b]],
        10, NoInterrupts)

\* Multiplication into a register pair loses nothing that division of the pair
\* needs: the first factor comes back, or the overflow indicator is on.
DivisionUndoes ==
  image = "Products" /\ halt = "SelfLoop" =>
    cpu.psw.overflow \/ cpu.gpr[0][2] = cpu.gpr[0][6]

(***************************************************************************)
(* What is written is what is executed: the decoder finds the instruction   *)
(* of an assembled statement in its halfwords, with its registers and its    *)
(* immediate, and the CPU forms the address the programmer wrote.  Base 3 is *)
(* a register in a short form only, so a long form with base 3 is left out.  *)
(***************************************************************************)
Addresses ==
  { Direct(Num(v)) : v \in {0, 1030, 65535} }
  \cup { Based(Num(v), NoIndex, b2) : v \in {-1, 0, 7, 55, 56, 110, 111, 112}, b2 \in 0 .. 3 }
  \cup { Based(Num(v), x, b2) : v \in {0, 2047, 2048}, x \in {1, 7}, b2 \in 0 .. 2 }
HasAddress(kind) == kind.form \in {"Mem", "Si"}
Samples(mn, kind) ==
  LET Of(a, r1, r2, v) == [Stmt("", mn, FALSE, FALSE, r1, a, r2, Num(v)) EXCEPT !.kind = kind]
  IN  IF HasAddress(kind)
      THEN { Of(a, r1, 0, 3) : r1 \in {0, 5}, a \in Addresses }
      ELSE { Of(NoAddress, r1, r2, v) : r1 \in {0, 5}, r2 \in {0, 7},
               v \in {-3, -2, 13, 55, 56, 63, 64, 400, 458, 513, 568, 569, 65535, 65536} }
StatementStart(mn) ==
  Start(mn, [Blank EXCEPT !.gpr[0] = [n \in 0 .. 7 |-> <<1024 + 16 * n, 0>>]], 0, NoInterrupts)

\* The address as it is written: D2(B2) or D2(X2,B2).
Written(mn, a) ==
  LET base == IF a.direct THEN 0 ELSE Upper(cpu, a.b2)
      index == IF a.x = NoIndex THEN 0
               ELSE Upper(cpu, a.x) * 2 ^ (IF mn \in halfword_index_alignment THEN 0 ELSE width(mn))
  IN  Wrap(a.d.n + base + index)
Executed(mn, st, d, m) ==
  LET form == st.kind.form
  IN  /\ d.instr = mn /\ d.len = size_of(st)
      /\ form \in {"Rr", "Ri"} \/ (form = "Mem" /\ st.kind.sub = Reg) => d.r1 = st.r1
      /\ form = "Rr" => d.operand = Register(st.r2)
      /\ form \in {"Ri", "Si"} => d.imm = Wrap(st.imm.n)
      /\ form = "Shift" => d.operand = Count(st.imm.n)
      /\ form = "Lfxi" => d.imm - 2 = st.imm.n
      /\ form = "RelBranch" => Target(m, d, <<>>) = st.imm.n
      /\ HasAddress(st.kind) => resolve(m, d, mn \in BranchAddress).ea = Written(mn, st.addr)

Mnemonics == DOMAIN table
AssembledRight ==
  image \in Mnemonics =>
    \A st \in Samples(image, table[image]) :
      /\ accepts(st, st.addr.d.n, st.imm.n, cpu.psw.ic)
      /\ HasAddress(st.kind) /\ ~st.addr.direct /\ st.addr.b2 = 3 => size_of(st) = 1
      => \E w \in {encode(st, st.addr.d.n, st.imm.n, cpu.psw.ic)} :
           \E d \in {decode(w[1], w[Len(w)])} :
             Executed(image, st, d, [cpu EXCEPT !.psw.ic = @ + d.len])
=============================================================================
