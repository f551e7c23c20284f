----------------------------- MODULE FloatUnit ------------------------------
(***************************************************************************)
(* The floating-point instructions: operands from and results to the eight  *)
(* registers, condition codes and exceptions.  A long number takes a        *)
(* register and the next one.                                               *)
(***************************************************************************)
EXTENDS Instructions, HexFloat

fpr_short(m, n) == unpack(m.fpr[n])
fpr_long(m, n) == unpack(m.fpr[n] \o m.fpr[Second(n)])
fpr(m, n, p) == IF p = SHORT THEN fpr_short(m, n) ELSE fpr_long(m, n)

fp_operand(m, d, e, p) ==
  IF InRegister(d) THEN fpr(m, d.operand.r2, p)
  ELSE unpack(Hs(m, e.addr, IF p = SHORT THEN 2 ELSE 4))

fp_cc_value(u) == CASE is_zero(u) -> ZERO [] u.neg -> NEG [] OTHER -> POS
fp_cc_compare(ord) == CASE ord = 0 -> ZERO [] ord < 0 -> NEG [] OTHER -> POS

SetF(m, n, w) == [m EXCEPT !.fpr[n] = w]
SetFpr(m, n, u, p) ==
  LET hs == pack(u, p)
      first == SetF(m, n, SubSeq(hs, 1, 2))
  IN  IF p = SHORT THEN first ELSE SetF(first, Second(n), SubSeq(hs, 3, 4))

\* The end of an operation: the result and its exception.
fp_finish(m, n, r, p, sets_cc) ==
  LET Given(u) == SetCC(SetFpr(m, n, u, p), IF sets_cc THEN fp_cc_value(u) ELSE m.psw.cc)
      zeroed == Given(TRUE_ZERO)
  IN  CASE r.event = "None" -> Given(r.u)
        [] r.event = "Overflow" -> program_interrupt(m, FP_OVERFLOW)
        [] r.event = "DivideException" -> program_interrupt(m, FP_DIVIDE)
        [] r.event = "Underflow" /\ m.psw.exp_underflow_mask -> program_interrupt(m, FP_UNDERFLOW)
        [] r.event = "Significance" /\ m.psw.significance_mask ->
             program_interrupt(zeroed, SIGNIFICANCE)
        [] OTHER -> zeroed

LongOps == {"AEDR", "AED", "SEDR", "SED", "CEDR", "CED", "MEDR", "MED", "DEDR", "DED"}
precision(instr) == IF instr \in LongOps THEN LONG ELSE SHORT

FloatAdd == {"AER", "AE", "SER", "SE", "AEDR", "AED", "SEDR", "SED"}
float_add(m, d, e) ==
  LET p == precision(d.instr)
      negate == d.instr \in {"SER", "SE", "SEDR", "SED"}
  IN  fp_finish(m, d.r1, add(fpr(m, d.r1, p), fp_operand(m, d, e, p), negate, p), p, TRUE)

FloatCompare == {"CER", "CE", "CEDR", "CED"}
float_compare(m, d, e) ==
  LET p == precision(d.instr)
  IN  SetCC(m, fp_cc_compare(compare(fpr(m, d.r1, p), fp_operand(m, d, e, p), p)))

\* A short product goes to a register pair when the first register is even.
FloatMultiply == {"MER", "ME", "MEDR", "MED"}
float_multiply(m, d, e) ==
  LET p == precision(d.instr)
      into == IF d.r1 % 2 = 0 THEN LONG ELSE p
  IN  fp_finish(m, d.r1, multiply(fpr(m, d.r1, p), fp_operand(m, d, e, p), into), into, FALSE)

FloatDivide == {"DER", "DE", "DEDR", "DED"}
float_divide(m, d, e) ==
  LET p == precision(d.instr)
  IN  fp_finish(m, d.r1, divide(fpr(m, d.r1, p), fp_operand(m, d, e, p), p), p, FALSE)

FloatLoad == {"LER", "LE", "LED", "LECR", "LFLI", "LFLR"}
float_load(m, d, e) ==
  LET source == IF InRegister(d) THEN m.fpr[d.operand.r2] ELSE Hs(m, e.addr, 2)
      inverted == IF IsZero(unpack(source).frac) THEN ZeroWord
                  ELSE <<(source[1] + HW \div 2) % HW, source[2]>>
      Filled(w, u) == SetCC(SetF(m, d.r1, w), fp_cc_value(u))
      long == Hs(m, e.addr, 4)
  IN  CASE d.instr = "LECR" -> Filled(inverted, unpack(inverted))
        [] d.instr = "LED" ->
             SetF(Filled(SubSeq(long, 1, 2), unpack(long)), Second(d.r1), SubSeq(long, 3, 4))
        [] d.instr = "LFLI" ->
             SetF(m, d.r1, IF d.imm = 0 THEN ZeroWord ELSE <<16640 + 16 * d.imm, 0>>)
        [] d.instr = "LFLR" -> SetF(m, d.r1, R(m, d.operand.r2))
        [] OTHER -> Filled(source, unpack(source))

\* Fixed point with the binary point between bits 15 and 16, and LFXR.
Convert == {"CVFX", "CVFL", "LFXR"}
convert(m, d) ==
  LET u == fpr_short(m, d.operand.r2)
      digits == ShiftRight(u.frac, 74 - u.ch)
      low == FromHex(SubSeq(digits, 7, DIGITS))
      fits == u.ch < 74 /\ IsZero(SubSeq(digits, 1, 6)) /\ (Negative(low) => u.neg /\ Minimum(low))
      fixed == IF u.neg THEN Negate(low) ELSE low
      v == R(m, d.operand.r2)
      n == normalize_value(Number(Negative(v), 68, Hex(Magnitude(v)) \o Zeros(6)), SHORT).u
  IN  CASE d.instr = "LFXR" -> SetR(m, d.r1, m.fpr[d.operand.r2])
        [] d.instr = "CVFX" /\ is_zero(u) -> SetCC(SetR(m, d.r1, ZeroWord), ZERO)
        [] d.instr = "CVFX" /\ ~is_zero(u) /\ ~fits -> program_interrupt(m, CONVERT_OVERFLOW)
        [] d.instr = "CVFX" /\ ~is_zero(u) /\ fits ->
             SetCC(SetR(m, d.r1, fixed), cc_value(<<fixed[1]>>))
        [] d.instr = "CVFL" /\ IsZero(v) -> SetCC(SetF(m, d.r1, ZeroWord), ZERO)
        [] OTHER -> SetCC(SetFpr(m, d.r1, n, SHORT), fp_cc_value(n))

\* MVS: a register limited by the next one above and by storage below.
Chosen(m, n, cc, r) ==
  CASE r.event = "Underflow" /\ m.psw.exp_underflow_mask -> program_interrupt(SetCC(m, cc), FP_UNDERFLOW)
    [] r.event = "Underflow" /\ ~m.psw.exp_underflow_mask -> SetF(SetCC(m, cc), n, ZeroWord)
    [] OTHER -> SetFpr(SetCC(m, cc), n, r.u, SHORT)
Limited(m, n, v, upper, lower) ==
  CASE compare(v, upper, SHORT) > 0 -> Chosen(m, n, POS, normalize_value(upper, SHORT))
    [] compare(v, upper, SHORT) <= 0 /\ compare(v, lower, SHORT) < 0 ->
         Chosen(m, n, NEG, normalize_value(lower, SHORT))
    [] OTHER -> Chosen(m, n, ZERO, normalize_value(v, SHORT))
midvalue(m, d, e) ==
  Limited(m, d.r1, fpr_short(m, d.r1), fpr_short(m, Second(d.r1)), unpack(Hs(m, e.addr, 2)))
=============================================================================
