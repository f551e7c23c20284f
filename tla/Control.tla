------------------------------ MODULE Control -------------------------------
(***************************************************************************)
(* Branches, status switching, the calling sequence, block moves and the    *)
(* sector extensions.                                                       *)
(***************************************************************************)
EXTENDS Instructions

\* Where a branch goes: a register, the displacement from the IC, an address.
Target(m, d, e) ==
  CASE InRegister(d) -> Upper(m, d.operand.r2)
    [] d.operand.mode = "Srs" /\ d.instr \in {"BCB", "BCTB"} -> Wrap(m.psw.ic - d.operand.d)
    [] d.operand.mode = "Srs" /\ d.instr \notin {"BCB", "BCTB"} -> Wrap(m.psw.ic + d.operand.d)
    [] OTHER -> e.ea

\* BALR with register 0 only links.
Link == {"BAL", "BALR"}
branch_and_link(m, d, e) ==
  LET linked == SetR(m, d.r1, word0(m.psw))
      stay == InRegister(d) /\ d.operand.r2 = 0
  IN  JumpIf(linked, ~stay, Target(m, d, e))

Conditional == {"BC", "BCR", "BCF", "BCB", "BCRE"}
branch_condition(m, d, e) ==
  LET w == R(m, d.operand.r2)
      banked == [m EXCEPT !.psw.bsr = Field(w[2], 4, 4), !.psw.dsr = Field(w[2], 0, 4)]
  IN  IF d.instr = "BCRE" /\ cc_mask_test(m, d.r1) THEN Jump(banked, w[1])
      ELSE JumpIf(m, cc_mask_test(m, d.r1), Target(m, d, e))

\* BIX tests the count before it is reduced, BCT after it was.
Counted == {"BIX", "BCT", "BCTR", "BCTB"}
branch_count(m, d, e) ==
  LET w == R(m, d.r1)
      count == Wrap(w[1] - 1)
  IN  IF d.instr = "BIX"
      THEN JumpIf(SetR(m, d.r1, <<Wrap(w[1] + 1), Wrap(w[2] - 1)>>), Signed(w[2]) > 0, e.ea)
      ELSE JumpIf(SetUpper(m, d.r1, count), count # 0, Target(m, d, e))

\* Branches on the indicators clear the overflow indicator.
Indicated == {"BVC", "BVCR", "BVCF"}
branch_indicators(m, d, e) ==
  LET hits == (Bit(d.r1, 1) = 1 /\ m.psw.carry) \/ (Bit(d.r1, 0) = 1 /\ m.psw.overflow)
  IN  JumpIf([m EXCEPT !.psw.overflow = FALSE], hits # (Bit(d.r1, 2) = 1), Target(m, d, e))

(* Status switching. *)
\* Mutant: SSM is for everybody.
PrivilegedButSsm == {"LPS", "ISPB", "PC"}
Privileged == {"LPS", "SSM", "ISPB", "PC"}
Status == {"LPS", "SPM", "SSM", "SVC", "ISPB"}
status(m, d, e) ==
  LET w == Hs(m, e.addr, 4)
      both == Bit(d.r1, 0) = 1
      place == IF both THEN {e.addr - (e.addr % 2), e.addr - (e.addr % 2) + 1} ELSE {e.addr}
      call == [m EXCEPT !.psw.ea_high = e.addr \div SECTOR, !.psw.int_code = e.ea]
  IN  CASE d.instr = "LPS" ->
             [m EXCEPT !.psw = set_word1(set_word0(@, SubSeq(w, 1, 2)), SubSeq(w, 3, 4))]
        [] d.instr = "SPM" -> [m EXCEPT !.psw = set_indicators(@, Lower(m, d.operand.r2))]
        [] d.instr = "SSM" -> [m EXCEPT !.psw = set_word1(@, <<w[1], m.psw.int_code>>)]
        [] d.instr = "SVC" -> psw_swap(call, SVC_OLD, SVC_NEW)
        [] OTHER -> [m EXCEPT !.prot = IF Bit(d.r1, 1) = 1 THEN @ \cup place ELSE @ \ place]

\* PC: one operation of the I/O interface, and what the interface answers.
Replies == {"Input", "OutputAccepted", "Timeout"}
pc(m, d, reply, w) ==
  CASE reply = "Input" -> SetCC(SetR(m, d.r1, w), ZERO)
    [] reply = "OutputAccepted" -> SetCC(m, ZERO)
    [] OTHER -> SetCC(m, POS)

\* Mutant: the program goes on behind the interrupted instruction.
AgainNever(m, d) == m
Again(m, d) == Jump(m, Wrap(m.psw.ic - d.len))

(***************************************************************************)
(* MVH: halfwords moved from the highest to the lowest, so that a source    *)
(* that overlaps its destination from above is read after it was written:   *)
(* what arrives is from the last `from - to` halfwords of the source, again *)
(* and again.  At a protected halfword R1 keeps the count that remains, and *)
(* the IC goes back to the MVH.                                             *)
(***************************************************************************)
move_halfwords(m, d) ==
  LET r2 == d.operand.r2
      count == Signed(Lower(m, d.r1))
      to == SECTOR * SectorOf(m, d.r1) + (Upper(m, d.r1) % SECTOR)
      from == SECTOR * (IF Upper(m, r2) >= SECTOR THEN Lower(m, r2) % 16 ELSE 0)
                + (Upper(m, r2) % SECTOR)
      blocked == { c \in 0 .. count - 1 : Refused(m, {to + c}) }
      stop == IF blocked = {} THEN 0 ELSE Max(blocked) + 1
      free == { c \in 0 .. count - 1 : \A b \in blocked : b < c }
      Source(c) == IF from > to THEN count - 1 - ((count - 1 - c) % (from - to)) ELSE c
      block == [k \in 1 .. count |-> At(m, from + Source(k - 1))]
      moved == SetLower(StoreAt(m, { to + c : c \in free }, to, block), d.r1, stop)
  IN  CASE count <= 0 -> m
        [] count > 0 /\ (Outside(to, count) \/ Outside(from, count)) -> Trapped(m, "Address")
        [] count > 0 /\ blocked # {} ->
             program_interrupt(Again(moved, d), STORE_PROTECT)
        [] OTHER -> moved

(***************************************************************************)
(* The calling sequence.  R1 of SCAL holds the address of the last frame    *)
(* and the distance to the next: the frame is the first word of the PSW and *)
(* the eight registers, R1 among them as it was.                            *)
(***************************************************************************)
FRAME == 18
call(m, d, e) ==
  LET ssd == R(m, d.r1)
      off == (ssd[1] + ssd[2]) % SECTOR
      frame == SECTOR * SectorOf(m, d.r1) + off
      hs == word0(m.psw) \o Registers(m)
      saved == StoreRun(m, frame, hs)
      bit0 == ssd[1] - (ssd[1] % SECTOR)
  IN  IF RefusedRun(m, frame, hs) \/ saved.trap # "None" THEN saved
      ELSE Jump(SetR(saved, d.r1, <<bit0 + off, FRAME>>), e.ea)

return(m, d) ==
  LET frame == SECTOR * SectorOf(m, d.operand.r2) + (Upper(m, d.operand.r2) % SECTOR)
      word == Hs(m, frame, 2)
  IN  CASE ~cc_mask_test(m, d.r1) -> m
        [] cc_mask_test(m, d.r1) /\ Outside(frame, 2) -> Trapped(m, "Address")
        [] OTHER -> LoadAll([m EXCEPT !.psw = set_word0(@, word)], frame + 2)

(* Extended addresses: a register with its sector extension. *)
Extended == {"LXAR", "LXA", "STXAR", "STXA", "LDM"}
extended(m, d, e) ==
  LET w == fetch_full(m, d, e)
      constant == <<SECTOR + (Upper(m, d.r1) % SECTOR), 16 * Field(w[2], 4, 8) + Dse(m, d.r1)>>
      set == m.psw.reg_set
      Nibble(n) == Field(w[n \div 2 + 1], IF n % 2 = 0 THEN 8 ELSE 0, 4)
  IN  CASE d.instr \in {"LXAR", "LXA"} ->
             SetDse(SetR(m, d.r1, Developed(w[1] % SECTOR)), d.r1, w[2] % 16)
        [] d.instr = "STXAR" -> SetR(m, d.operand.r2, constant)
        [] d.instr = "STXA" -> Store(m, e.addr, constant, m.psw.cc)
        [] OTHER -> [m EXCEPT !.dse[set] = [n \in 0 .. 7 |-> IF n < 4 THEN Nibble(n) ELSE @[n]]]
=============================================================================
