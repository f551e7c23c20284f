------------------------------ MODULE Machine -------------------------------
(***************************************************************************)
(* The state of the CPU and main storage and what the instructions share:   *)
(* registers, storage and its protection, interrupts, operand addresses.    *)
(* A machine is a record                                                    *)
(*   mem     halfwords by address, zero where it is not defined             *)
(*   prot    the protected addresses                                        *)
(*   psw     the fields of the program status word                          *)
(*   gpr dse eight registers and sector extensions in each of two sets      *)
(*   fpr     eight floating-point registers                                 *)
(*   pending the system interrupt levels that wait                          *)
(*   trap    why the emulator gives up, "None" while it does not            *)
(***************************************************************************)
EXTENDS PswWord, Decode

\* DEFAULT_SIZE_HALFWORDS: sectors of 2^15 halfwords.
SECTOR == 32768
SIZE == 16 * SECTOR
Storage == 0 .. SIZE - 1

Traps == {"None", "Address", "Illegal", "Unimplemented", "Uninitialized"}
Levels == 1 .. 7

Machines ==
  [ prot : SUBSET Storage, psw : Psw, gpr : [0 .. 1 -> [0 .. 7 -> Word]],
    dse : [0 .. 1 -> [0 .. 7 -> 0 .. 15]], fpr : [0 .. 7 -> Word],
    pending : SUBSET Levels, trap : Traps ]
\* With any part of storage.
IsMachine(m) ==
  /\ "mem" \in DOMAIN m /\ [f \in DOMAIN m \ {"mem"} |-> m[f]] \in Machines
  /\ DOMAIN m.mem \subseteq Storage /\ \A a \in DOMAIN m.mem : m.mem[a] \in Half

Trapped(m, why) == [m EXCEPT !.trap = why]

(* Registers of the set in use. *)
R(m, n) == m.gpr[m.psw.reg_set][n]
Upper(m, n) == R(m, n)[1]
Lower(m, n) == R(m, n)[2]
SetR(m, n, w) == [m EXCEPT !.gpr[m.psw.reg_set][n] = w]
SetUpper(m, n, h) == SetR(m, n, <<h, Lower(m, n)>>)
SetLower(m, n, h) == SetR(m, n, <<Upper(m, n), h>>)
Second(n) == (n + 1) % 8
Pair(m, n) == R(m, n) \o R(m, Second(n))
SetPair(m, n, hs) == SetR(SetR(m, n, SubSeq(hs, 1, 2)), Second(n), SubSeq(hs, 3, 4))
Dse(m, n) == m.dse[m.psw.reg_set][n]
SetDse(m, n, v) == [m EXCEPT !.dse[m.psw.reg_set][n] = v]

(* Storage. *)
At(m, a) == IF a \in DOMAIN m.mem THEN m.mem[a] ELSE 0
Hs(m, a, n) == [k \in 1 .. n |-> At(m, a + k - 1)]
Outside(a, n) == a + n > SIZE
Span(a, n) == a .. a + n - 1

\* The halfwords hs, of which the first belongs at a, stored at the addresses
\* here.  Those before the end of storage are there when the end is noticed.
StoreAt(m, here, a, hs) ==
  [m EXCEPT !.mem = [x \in DOMAIN @ \cup (here \cap Storage) |->
                       IF x \in here THEN hs[x - a + 1] ELSE @[x]],
            !.trap = IF here \subseteq Storage THEN @ ELSE "Address"]
Write(m, a, hs) == StoreAt(m, Span(a, Len(hs)), a, hs)

\* All registers loaded from a on, up to the end of storage.
LoadAll(m, a) ==
  [m EXCEPT !.gpr[m.psw.reg_set] =
              [n \in 0 .. 7 |-> IF Outside(a + 2 * n, 2) THEN @[n] ELSE Hs(m, a + 2 * n, 2)],
            !.trap = IF Outside(a, 16) THEN "Address" ELSE @]

\* Mutant: the first halfword decides for all.
RefusedFirst(m, here) == \E a \in here \cap m.prot : \A x \in here : a <= x
Refused(m, here) == m.prot \cap here # {}

(***************************************************************************)
(* Interrupts.  A new PSW of zeros means that nobody has installed a        *)
(* handler: the emulator stops.  The old PSW is stored whatever the         *)
(* protection of its place.                                                 *)
(***************************************************************************)
PROGRAM_OLD == 72
PROGRAM_NEW == 76
SVC_OLD == 88
SVC_NEW == 92
MONITOR_OLD == 112
MONITOR_NEW == 116
SYSTEM_OLD == <<96, 104, 120, 128, 136, 144, 152>>
SYSTEM_NEW == <<100, 108, 124, 132, 140, 148, 156>>
SYSTEM_MASK == <<7, 6, 4, 3, 2, 1, 0>>

ILLEGAL == 0
PRIVILEGED == 1
FIXED_OVERFLOW == 4
SIGNIFICANCE == 5
STORE_PROTECT == 7
FP_UNDERFLOW == 9
CONVERT_OVERFLOW == 10
FP_OVERFLOW == 11
FP_DIVIDE == 12

psw_swap(m, old, new) ==
  LET w == Hs(m, new, 4)
      swapped == [m EXCEPT !.psw = set_word1(set_word0(@, SubSeq(w, 1, 2)), SubSeq(w, 3, 4))]
  IN  IF IsZero(w) THEN Trapped(m, "Uninitialized")
      ELSE Write(swapped, old, word0(m.psw) \o word1(m.psw))

program_interrupt(m, code) ==
  psw_swap([m EXCEPT !.psw.int_code = code], PROGRAM_OLD, PROGRAM_NEW)

\* Levels from the first to the last: the PSW one loads masks those after it.
Cleared(m, i) == [m EXCEPT !.pending = @ \ {i}, !.psw.int_code = 0]
TakeLevel(m, i) ==
  IF m.trap = "None" /\ i \in m.pending /\ Bit(m.psw.sys_mask, SYSTEM_MASK[i]) = 1
  THEN psw_swap(Cleared(m, i), SYSTEM_OLD[i], SYSTEM_NEW[i])
  ELSE m
deliver_system_interrupts(m) ==
  TakeLevel(TakeLevel(TakeLevel(TakeLevel(
    TakeLevel(TakeLevel(TakeLevel(m, 1), 2), 3), 4), 5), 6), 7)

\* A store of a halfword or a fullword, followed by the new condition code.
Store(m, a, hs, cc) ==
  IF Refused(m, Span(a, Len(hs))) THEN program_interrupt(m, STORE_PROTECT)
  ELSE Write([m EXCEPT !.psw.cc = cc], a, hs)

\* Fullwords in turn: those before the first protected one stay stored.
RefusedRun(m, a, hs) == \E k \in 0 .. Len(hs) \div 2 - 1 : Refused(m, Span(a + 2 * k, 2))
StoreRun(m, a, hs) ==
  LET free == { k \in 0 .. Len(hs) \div 2 - 1 : \A j \in 0 .. k : ~Refused(m, Span(a + 2 * j, 2)) }
      stored == StoreAt(m, UNION { Span(a + 2 * k, 2) : k \in free }, a, hs)
  IN  IF RefusedRun(m, a, hs) THEN program_interrupt(stored, STORE_PROTECT) ELSE stored

(* Condition codes. *)
cc_value(hs) == CASE IsZero(hs) -> ZERO [] Negative(hs) -> NEG [] OTHER -> POS
cc_compare(a, b) == CASE a = b -> ZERO [] Less(a, b) -> NEG [] OTHER -> POS
cc_logical(hs) == IF IsZero(hs) THEN ZERO ELSE NEG
cc_test(hs, mask) ==
  CASE IsZero(And(hs, mask)) -> ZERO [] And(hs, mask) = mask -> POS [] OTHER -> NEG
cc_mask_test(m, m1) ==
  \/ Bit(m1, 2) = 1 /\ m.psw.cc = ZERO
  \/ Bit(m1, 1) = 1 /\ m.psw.cc = NEG
  \/ Bit(m1, 0) = 1 /\ m.psw.cc = POS

(***************************************************************************)
(* Addresses: 16 bits are expanded to 19 with a sector of the PSW, of the   *)
(* base register, or with sector 0.                                         *)
(***************************************************************************)
NoBase == 8
expand_data(m, ea, base) ==
  CASE ea >= SECTOR -> SECTOR * m.psw.dsr + (ea % SECTOR)
    [] ea < SECTOR /\ base # NoBase -> SECTOR * Dse(m, base) + ea
    [] OTHER -> ea
expand_branch(m, ea) == IF ea >= SECTOR THEN SECTOR * m.psw.bsr + (ea % SECTOR) ELSE ea

\* The sector of a register that holds an address with its sector bit.
\* Mutant: the sector bit is not looked at.
SectorOfRegister(m, n) == Dse(m, n)
SectorOf(m, n) == IF Upper(m, n) >= SECTOR THEN m.psw.dsr ELSE Dse(m, n)
\* Mutant: the address grows past a halfword.
AdvanceOn(w) == <<w[1] + w[2], w[2]>>
Advance(w) == <<Wrap(w[1] + w[2]), w[2]>>

aligned_index(m, x, instr) ==
  IF instr \in halfword_index_alignment THEN Upper(m, x) ELSE Wrap(Upper(m, x) * 2 ^ width(instr))

Ea(m, ea, addr) == [m |-> m, ea |-> ea, addr |-> addr]

\* The base and the displacement of an operand, and where they lead: in the
\* indirect forms that is the address pointer.
Base(o) == IF o.mode # "Srs" /\ o.b2 = 3 THEN NoBase ELSE o.b2
Displaced(m, d) ==
  LET o == d.operand
  IN  Wrap((IF o.mode = "Srs" THEN o.d * 2 ^ width(d.instr) ELSE o.d)
             + (IF Base(o) = NoBase THEN 0 ELSE Upper(m, Base(o))))
PointerAt(m, d) == expand_data(m, Displaced(m, d), Base(d.operand))

\* An address pointer of a fullword, with its own bank fields (X, IA and I).
FullPointer(m, d, at, branch) ==
  LET w == Hs(m, at, 2)
      On(i) == Bit(w[2], i) = 1
      banked == [m EXCEPT !.psw.dsr = IF On(10) /\ On(8) THEN Field(w[2], 0, 4) ELSE @,
                          !.psw.bsr = IF On(10) /\ On(9) THEN Field(w[2], 4, 4) ELSE @]
      sector == CASE branch -> banked.psw.bsr
                  [] ~branch /\ On(10) -> banked.psw.dsr
                  [] OTHER -> Field(w[2], 0, 4)
      off == (w[1] + (IF On(11) THEN 0 ELSE aligned_index(m, d.operand.x, d.instr))) % SECTOR
  IN  Ea(banked, off + (IF branch THEN SECTOR ELSE 0), SECTOR * sector + off)

\* A pointer with a modifier, added to it afterwards: written unprotected.
ModifiedPointer(m, at, branch) ==
  LET w == Hs(m, at, 2)
  IN  Ea(Write(m, at, Advance(w)), w[1],
         IF branch THEN expand_branch(m, w[1]) ELSE expand_data(m, w[1], NoBase))

resolve(m, d, branch) ==
  LET o == d.operand
      base == Base(o)
      pea == Displaced(m, d)
      Expand(ea, b) == IF branch THEN expand_branch(m, ea) ELSE expand_data(m, ea, b)
      Plain(s, ea) == Ea(s, ea, Expand(ea, base))
      Relative(ea) == Ea(m, ea, expand_branch(m, ea))
      Indirect(ea) == Ea(m, ea, Expand(ea, NoBase))
      at == PointerAt(m, d)
      index == IF o.x = 0 THEN 0 ELSE aligned_index(m, o.x, d.instr)
  IN  IF o.mode # "RsIdx" THEN Plain(m, pea)
      ELSE CASE o.x = 0 /\ ~o.ia -> Relative(Wrap(m.psw.ic + (IF o.i THEN -pea ELSE pea)))
             [] o.ia /\ ~o.i -> Indirect(Wrap(At(m, at) + index))
             [] o.x # 0 /\ ~o.ia -> Plain(IF o.i THEN SetR(m, o.x, Advance(R(m, o.x))) ELSE m,
                                          Wrap(pea + index))
             [] o.ia /\ o.i /\ Outside(at, 2) -> Ea(Trapped(m, "Address"), 0, 0)
             [] o.x = 0 /\ o.ia /\ o.i /\ ~Outside(at, 2) -> ModifiedPointer(m, at, branch)
             [] OTHER -> FullPointer(m, d, at, branch)
=============================================================================
