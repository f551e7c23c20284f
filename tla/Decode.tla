------------------------------- MODULE Decode -------------------------------
(***************************************************************************)
(* decode.rs: from one or two halfwords to an instruction.  Bits 8-15 of    *)
(* the first halfword choose the form and with it the plane of op codes.    *)
(* "-" is an encoding without an instruction.                               *)
(***************************************************************************)
EXTENDS Word

\* One mnemonic for each of the 32 op codes.
srs_slot ==
  << "A", "S", "C", "L", "N", "O", "ST", "STE", "M", "D", "AE", "SE", "ME", "DE", "X", "LE",
     "AH", "SH", "CH", "LH", "-", "MH", "-", "STH", "-", "-", "-", "-", "IAL", "LA", "-", "-" >>
rr_slot ==
  << "AR", "SR", "CR", "LR", "NR", "OR", "-", "CVFX", "MR", "DR", "AER", "SER", "MER", "DER",
     "XR", "LER", "-", "-", "-", "-", "-", "-", "-", "-", "BCR", "BVCR", "BCTR", "ICR", "BALR",
     "-", "-", "-" >>
rr2_slot ==
  << "XUL", "CBL", "DEDR", "CEDR", "LFXR", "LFLR", "MEDR", "CVFL", "LXAR", "CER", "AEDR",
     "SEDR", "-", "MVH", "-", "LECR", "-", "-", "SRET", "SUM", "STXAR", "-", "-", "-", "BCRE",
     "SPM", "-", "PC", "NCT", "LCR", "-", "-" >>
rs_slot ==
  SubSeq(srs_slot, 1, 24) \o << "BC", "BVC", "BCT", "BIX", "BAL", "LA", "-", "-" >>
rs2_slot ==
  << "AST", "SST", "DED", "CED", "NST", "OST", "MED", "STED", "LXA", "CE", "AED", "SED", "MVS",
     "LDM", "XST", "LED", "IHL", "SSM", "STDM", "MIH", "STXA", "-", "-", "TS", "DIAG", "STM",
     "SCAL", "-", "IAL", "ISPB", "-", "-" >>

\* The groups in which R1 extends the op code.
implied_imm == << "TD", "ZH", "SHW", "TH", "-", "-", "-", "-" >>
explicit_ri == << "AHI", "ZRB", "OHI", "TRB", "XHI", "CHI", "NHI", "MHI" >>
explicit_si == << "MSTH", "ZB", "SB", "TB", "XIST", "CIST", "NIST", "TSB" >>
group_25 == << "STM", "SVC", "-", "-", "LM", "LPS", "-", "-" >>
shifts == << "SLL", "SRA", "SRL", "SRR", "SLDL", "SRDA", "SRDL", "SRDR" >>

\* Instructions whose encoding is known and which exec does not implement.
NotImplemented == {"ICR", "DIAG"}

\* Halfwords to the left an index or a short displacement is shifted by.
Full == {"A", "AST", "C", "D", "L", "M", "ST", "S", "SST", "N", "NST", "X", "XST", "O", "OST",
         "LM", "STM", "AE", "SE", "CE", "ME", "DE", "LE", "STE", "MVS", "LPS", "LXA", "STXA",
         "LDM", "STDM"}
Double == {"AED", "SED", "CED", "MED", "DED", "LED", "STED"}
width(instr) ==
  CASE instr \in Full -> 1 [] instr \in Double -> 2 [] OTHER -> 0
halfword_index_alignment == {"LM", "STM", "LPS", "ISPB"}

Decoded(instr, r1, operand, imm, len) ==
  [instr |-> instr, r1 |-> r1, operand |-> operand, imm |-> imm, len |-> len]

None == [mode |-> "None"]
Register(n) == [mode |-> "R", r2 |-> n]
Srs(disp, b2) == [mode |-> "Srs", d |-> disp, b2 |-> b2]
Count(n) == [mode |-> "Count", n |-> n]

\* Bits 8-12 say RS: the operand is in the second halfword, as the AM bit says.
RsOperand(hw1, hw2) ==
  IF Bit(hw1, 2) = 0
  THEN [mode |-> "RsExt", d |-> hw2, b2 |-> Field(hw1, 0, 2)]
  ELSE [mode |-> "RsIdx", d |-> Field(hw2, 0, 11), b2 |-> Field(hw1, 0, 2),
        x |-> Field(hw2, 13, 3), ia |-> Bit(hw2, 12) = 1, i |-> Bit(hw2, 11) = 1]

\* Short forms: the branches and the immediate groups first.
ShortForm(op, r1, disp, b2, hw2) ==
  CASE op = 25 -> Decoded(<<"-", "BVCF", "-", "-">>[b2 + 1], r1, Srs(disp, 0), 0, 1)
    [] op = 27 -> Decoded(<<"BCF", "-", "BCB", "BCTB">>[b2 + 1], r1, Srs(disp, 0), 0, 1)
    [] op = 20 -> Decoded(implied_imm[r1 + 1], 0, Srs(disp, b2), 0, 1)
    [] op = 22 -> Decoded(explicit_si[r1 + 1], 0, Srs(disp, b2), hw2, 2)
    [] OTHER -> Decoded(srs_slot[op + 1], r1, Srs(disp, b2), 0, 1)

\* LFXI and LFLI take all of the register region of their op codes.
RegisterForm(op, r1, low, hw2) ==
  LET r2 == low % 8
      first == low % 16 < 8
  IN  CASE op \in {17, 23} -> Decoded(IF op = 23 THEN "LFXI" ELSE "LFLI", r1, None, low % 16, 1)
        [] op = 22 /\ first -> Decoded(explicit_ri[r1 + 1], r2, None, hw2, 2)
        [] op \notin {17, 22, 23} /\ first -> Decoded(rr_slot[op + 1], r1, Register(r2), 0, 1)
        [] op \notin {17, 23} /\ ~first ->
             Decoded(IF op = 25 /\ r1 # 0 THEN "-" ELSE rr2_slot[op + 1], r1, Register(r2), 0, 1)

\* An R1 that extends the op code is not passed on as a register.
StorageForm(op, r1, second, operand) ==
  LET grouped == op \in {13, 17, 18, 23, 25}
  IN  CASE ~second /\ op = 20 -> Decoded(implied_imm[r1 + 1], 0, operand, 0, 2)
        [] ~second /\ op # 20 -> Decoded(rs_slot[op + 1], r1, operand, 0, 2)
        [] second /\ op = 25 -> Decoded(group_25[r1 + 1], 0, operand, 0, 2)
        [] second /\ op # 25 /\ grouped ->
             Decoded(IF r1 = 0 THEN rs2_slot[op + 1] ELSE "-", 0, operand, 0, 2)
        [] OTHER -> Decoded(rs2_slot[op + 1], r1, operand, 0, 2)

decode(hw1, hw2) ==
  LET op == Field(hw1, 11, 5)
      r1 == Field(hw1, 8, 3)
      low == Field(hw1, 0, 8)
      disp == Field(hw1, 2, 6)
      b2 == Field(hw1, 0, 2)
  IN  CASE op >= 30 -> Decoded(shifts[4 * (op - 30) + b2 + 1], r1, Count(disp), 0, 1)
        [] op < 30 /\ low < 224 -> ShortForm(op, r1, disp, b2, hw2)
        [] op < 30 /\ low \in 224 .. 239 -> RegisterForm(op, r1, low, hw2)
        [] OTHER -> StorageForm(op, r1, Bit(hw1, 3) = 1, RsOperand(hw1, hw2))
=============================================================================
