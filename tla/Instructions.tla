---------------------------- MODULE Instructions ----------------------------
(***************************************************************************)
(* What each instruction does to the machine (Cpu::exec and its helpers).   *)
(* m is the machine after the operand address was formed, d the decoded     *)
(* instruction, e its operand address.                                      *)
(***************************************************************************)
EXTENDS Machine

SetCC(m, cc) == [m EXCEPT !.psw.cc = cc]
Jump(m, ic) == [m EXCEPT !.psw.ic = ic]
JumpIf(m, taken, ic) == IF taken THEN Jump(m, ic) ELSE m
SetCarry(m, on) == [m EXCEPT !.psw.carry = on]
SetOverflow(m, on) == [m EXCEPT !.psw.overflow = @ \/ on]

\* The second operand: a register, a fullword, or a halfword with zeros after.
InRegister(d) == d.operand.mode = "R"
fetch_full(m, d, e) == IF InRegister(d) THEN R(m, d.operand.r2) ELSE Hs(m, e.addr, 2)
Developed(h) == <<h, 0>>

(* Fixed point. *)
AddSubtract == {"A", "AR", "AH", "AHI", "AST", "S", "SR", "SH", "SST"}
add_subtract(m, d, e) ==
  LET own == R(m, d.r1)
      op == CASE d.instr = "AHI" -> Developed(d.imm)
              [] d.instr \in {"AH", "SH"} -> Developed(At(m, e.addr))
              [] OTHER -> fetch_full(m, d, e)
      r == CASE d.instr \in {"S", "SR", "SH"} -> Subtracted(own, op)
             [] d.instr = "SST" -> Subtracted(op, own)
             [] OTHER -> Added(own, op)
      flagged == SetOverflow(SetCarry(m, r.carry), r.overflow)
  IN  IF d.instr \in {"AST", "SST"} THEN Store(flagged, e.addr, r.v, cc_value(r.v))
      ELSE SetCC(SetR(flagged, d.r1, r.v), cc_value(r.v))

Compare == {"C", "CR", "CH", "CHI", "CIST"}
compare_fixed(m, d, e) ==
  SetCC(m, CASE d.instr = "CIST" -> cc_compare(<<d.imm>>, Hs(m, e.addr, 1))
             [] d.instr = "CHI" -> cc_compare(R(m, d.r1), Developed(d.imm))
             [] d.instr = "CH" -> cc_compare(R(m, d.r1), Developed(At(m, e.addr)))
             [] OTHER -> cc_compare(R(m, d.r1), fetch_full(m, d, e)))

\* CBL: a halfword against a pair of limits; both addresses advance.
compare_limits(m, d) ==
  LET r2 == d.operand.r2
      v == Hs(m, expand_data(m, Upper(m, d.r1), NoBase), 1)
      limits == expand_data(m, Upper(m, r2), NoBase)
      cc == CASE Less(v, Hs(m, limits + 1, 1)) -> NEG
              [] Less(Hs(m, limits, 1), v) /\ ~Less(v, Hs(m, limits + 1, 1)) -> POS
              [] OTHER -> ZERO
  IN  IF Outside(limits, 2) THEN Trapped(m, "Address")
      ELSE SetR(SetR(SetCC(m, cc), d.r1, Advance(R(m, d.r1))), r2, Advance(R(m, r2)))

Multiply == {"M", "MR", "MH", "MHI", "MIH"}
multiply_fixed(m, d, e) ==
  LET own == IF d.instr \in {"M", "MR"} THEN R(m, d.r1) ELSE <<Upper(m, d.r1)>>
      other == CASE d.instr \in {"M", "MR"} -> fetch_full(m, d, e)
                 [] d.instr = "MHI" -> <<d.imm>>
                 [] OTHER -> Hs(m, e.addr, 1)
      p == SignedProduct(own, other)
      integer == p[1] # (IF p[2] >= HW \div 2 THEN HW - 1 ELSE 0)
      fraction == SetOverflow(m, Minimum(own) /\ Minimum(other))
  IN  CASE d.instr = "MIH" -> SetR(SetOverflow(m, integer), d.r1, Developed(p[2]))
        [] d.instr \in {"M", "MR"} /\ d.r1 % 2 = 0 -> SetPair(fraction, d.r1, Doubled(p))
        [] OTHER -> SetR(fraction, d.r1, SubSeq(Doubled(p), 1, 2))

\* The dividend is a register pair; an overflow leaves the registers alone.
divide_frac(m, d, e) ==
  LET divisor == fetch_full(m, d, e)
      dividend == IF d.r1 % 2 = 1 THEN R(m, d.r1) \o ZeroWord ELSE Pair(m, d.r1)
      twice == Sum(<<0>> \o Hex(Magnitude(divisor)), <<0>> \o Hex(Magnitude(divisor)), 0, 16).digits
      q == FromHex(Quotient(Hex(Magnitude(dividend)), twice, 16))
      low == SubSeq(q, 3, 4)
      minus == Negative(divisor) # Negative(dividend)
      fits == IsZero(SubSeq(q, 1, 2)) /\ (Negative(low) => minus /\ Minimum(low))
  IN  IF IsZero(divisor) \/ ~fits THEN SetOverflow(m, TRUE)
      ELSE SetR(m, d.r1, IF minus THEN Negate(low) ELSE low)

(* Data movement. *)
Move == {"XUL", "IAL", "IHL", "L", "LR", "LH", "LA", "LCR", "LFXI", "LM"}
move(m, d, e) ==
  LET op == CASE d.instr \in {"LH", "IHL"} -> Developed(At(m, e.addr))
              [] d.instr = "LA" -> Developed(e.ea)
              [] d.instr = "LFXI" -> Developed(Wrap(d.imm - 2))
              [] d.instr = "LCR" -> Negate(R(m, d.operand.r2))
              [] OTHER -> fetch_full(m, d, e)
      complement == SetCarry(SetOverflow(m, Minimum(op)), IsZero(op))
  IN  CASE d.instr = "XUL" -> SetLower(SetUpper(m, d.r1, Lower(m, d.operand.r2)),
                                       d.operand.r2, Upper(m, d.r1))
        [] d.instr = "IAL" -> SetLower(m, d.r1, e.ea)
        [] d.instr = "IHL" -> SetLower(m, d.r1, op[1])
        [] d.instr = "LM" -> LoadAll(m, e.addr)
        [] d.instr = "LCR" -> SetCC(SetR(complement, d.r1, op), cc_value(op))
        [] d.instr \in {"LA", "LFXI"} -> SetR(m, d.r1, op)
        [] OTHER -> SetCC(SetR(m, d.r1, op), cc_value(op))

Registers(m) == [k \in 1 .. 16 |-> R(m, (k - 1) \div 2)[2 - (k % 2)]]

StoreData == {"ST", "STH", "STM", "STE", "STED", "STDM"}
store_data(m, d, e) ==
  LET Nibble(a, b) == 256 * Dse(m, a) + Dse(m, b)
      hs == CASE d.instr = "ST" -> R(m, d.r1)
              [] d.instr = "STH" -> <<Upper(m, d.r1)>>
              [] d.instr = "STE" -> m.fpr[d.r1]
              [] d.instr = "STM" -> Registers(m)
              [] d.instr = "STED" -> m.fpr[d.r1] \o m.fpr[Second(d.r1)]
              [] OTHER -> <<Nibble(0, 1), Nibble(2, 3)>>
  IN  IF d.instr \in {"STM", "STED"} THEN StoreRun(m, e.addr, hs)
      ELSE Store(m, e.addr, hs, m.psw.cc)

\* Halfwords changed in storage; TS and TSB set the condition code first.
ModifyStorage == {"MSTH", "TD", "NIST", "XIST", "SB", "ZB", "ZH", "SHW", "TS", "TSB"}
modify_storage(m, d, e) ==
  LET v == Hs(m, e.addr, 1)
      imm == <<d.imm>>
      ones == <<HW - 1>>
      r == CASE d.instr = "MSTH" -> <<Wrap(v[1] + d.imm)>>
             [] d.instr = "TD" -> <<Wrap(v[1] - 1)>>
             [] d.instr = "NIST" -> And(v, imm)
             [] d.instr = "XIST" -> Xor(v, imm)
             [] d.instr \in {"SB", "TSB"} -> Or(v, imm)
             [] d.instr = "ZB" -> AndNot(v, imm)
             [] d.instr = "ZH" -> <<0>>
             [] OTHER -> ones
      tested == SetCC(m, cc_test(v, IF d.instr = "TS" THEN ones ELSE imm))
  IN  CASE d.instr \in {"TS", "TSB"} -> Store(tested, e.addr, r, tested.psw.cc)
        [] d.instr \in {"MSTH", "TD"} -> Store(m, e.addr, r, cc_value(r))
        [] d.instr \in {"ZH", "SHW"} -> Store(m, e.addr, r, m.psw.cc)
        [] OTHER -> Store(m, e.addr, r, cc_logical(r))

(* Logical. *)
Logical == {"N", "NR", "NHI", "NST", "O", "OR", "OHI", "OST", "X", "XR", "XHI", "XST", "ZRB"}
logical(m, d, e) ==
  LET own == R(m, d.r1)
      op == IF d.instr \in {"NHI", "OHI", "XHI", "ZRB"} THEN Developed(d.imm) ELSE fetch_full(m, d, e)
      r == CASE d.instr \in {"N", "NR", "NHI", "NST"} -> And(own, op)
             [] d.instr \in {"O", "OR", "OHI", "OST"} -> Or(own, op)
             [] d.instr = "ZRB" -> AndNot(own, op)
             [] OTHER -> Xor(own, op)
  IN  IF d.instr \in {"NST", "OST", "XST"} THEN Store(m, e.addr, r, cc_logical(r))
      ELSE SetCC(SetR(m, d.r1, r), cc_logical(r))

Test == {"TB", "TH", "TRB"}
test(m, d, e) ==
  SetCC(m, CASE d.instr = "TB" -> cc_test(Hs(m, e.addr, 1), <<d.imm>>)
             [] d.instr = "TH" -> cc_test(Hs(m, e.addr, 1), <<HW - 1>>)
             [] OTHER -> cc_test(R(m, d.r1), Developed(d.imm)))

\* SUM: the first of `count` elements that differs from FV under the mask.
search_under_mask(m, d) ==
  LET count == Signed(Upper(m, d.operand.r2))
      key == R(m, Second(d.r1))
      Ptr(k) == Wrap(Upper(m, d.r1) + ((k * Lower(m, d.r1)) % HW))
      Y(k) == <<At(m, expand_data(m, Ptr(k), NoBase))>>
      hits == { k \in 0 .. count - 1 : And(Y(k), <<key[1]>>) # And(<<key[2]>>, <<key[1]>>) }
  IN  IF hits # {} THEN SetCC(SetUpper(m, d.r1, Ptr(Min(hits))), NEG)
      ELSE SetCC(SetUpper(m, d.r1, Ptr(IF count > 0 THEN count ELSE 0)), ZERO)

(* Shifts. *)
\* NCT: the operand moved left until its first two bits differ.
normalize_and_count(m, d) ==
  LET v == R(m, d.operand.r2)
      differ == { i \in 0 .. 30 : (i \in Ones(v)) # (31 \in Ones(v)) }
      n == IF differ = {} THEN 31 ELSE 30 - Max(differ)
  IN  IF IsZero(v) THEN SetCarry(SetR(m, d.r1, ZeroWord), FALSE)
      ELSE SetCarry(SetR(SetR(m, d.operand.r2, Moved(v, n)), d.r1, Developed(n)), TRUE)

\* A count field of 56 to 63 takes the count from a register.
shift(m, d) ==
  LET c == d.operand.n
      n == IF c <= 55 THEN c ELSE Field(Upper(m, c - 56), 0, 6)
      double == d.instr \in {"SLDL", "SRDA", "SRDL", "SRDR"}
      v == IF double THEN Pair(m, d.r1) ELSE R(m, d.r1)
      top == 16 * Len(v)
      r == CASE d.instr \in {"SLL", "SLDL"} -> Moved(v, n)
             [] d.instr \in {"SRL", "SRDL"} -> Moved(v, -n)
             [] d.instr \in {"SRA", "SRDA"} -> MovedSigned(v, n)
             [] OTHER -> Rotated(v, n)
      done == IF double THEN SetPair(m, d.r1, r) ELSE SetR(m, d.r1, r)
  IN  CASE n = 0 -> m
        [] n > 0 /\ d.instr \in {"SLL", "SLDL"} -> SetCarry(done, (top - n) \in Ones(v))
        [] OTHER -> done
=============================================================================
