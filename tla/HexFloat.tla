------------------------------ MODULE HexFloat ------------------------------
(***************************************************************************)
(* float.rs: hexadecimal floating point.  An unpacked number has a sign, a  *)
(* characteristic (excess 64) and a fraction of 14 hexadecimal digits, of   *)
(* which a short number uses 6.  Operations return the number and the       *)
(* exception event.                                                         *)
(***************************************************************************)
EXTENDS Word

DIGITS == 14
SHORT == 6
LONG == 14

TRUE_ZERO == [neg |-> FALSE, ch |-> 0, frac |-> Zeros(DIGITS)]
is_zero(u) == IsZero(u.frac)

Number(neg, ch, frac) == [neg |-> neg, ch |-> ch, frac |-> frac]
Result(u, event) == [u |-> u, event |-> event]

\* The first p digits of a fraction, the others zero.
Kept(frac, p) == [k \in DOMAIN frac |-> IF k <= p THEN frac[k] ELSE 0]

\* Fullwords to numbers: a zero fraction is a true zero.
unpack(hs) ==
  LET frac == [k \in 1 .. DIGITS |-> IF k + 2 <= 4 * Len(hs) THEN Hex(hs)[k + 2] ELSE 0]
  IN  IF IsZero(frac) THEN TRUE_ZERO
      ELSE Number(Negative(hs), Field(hs[1], 8, 7), frac)

\* Numbers to fullwords: two for a long number, one for a short one.
pack(u, p) ==
  LET n == IF p = SHORT THEN 2 ELSE 4
      head == 8 * Flag(u.neg) + (u.ch % 128) \div 16
  IN  IF IsZero(Kept(u.frac, p)) THEN Zeros(n)
      ELSE FromHex(<<head, u.ch % 16>> \o SubSeq(u.frac, 1, p))

\* The checks that end an operation: truncation, then the characteristic.
Checked(neg, ch, frac, p, whenZero) ==
  LET u == Number(neg, ch, Kept(frac, p))
  IN  CASE is_zero(u) -> Result(TRUE_ZERO, whenZero)
        [] ch > 127 -> Result(TRUE_ZERO, "Overflow")
        [] ch < 0 -> Result(u, "Underflow")
        [] OTHER -> Result(u, "None")

(***************************************************************************)
(* normalize, on a fraction held in a 64-bit integer: two digits above the  *)
(* fourteen, which neither the mask nor the shift loop looks at.            *)
(***************************************************************************)
normalize(neg, ch, wide, p) ==
  LET frac == SubSeq(wide, 3, DIGITS + 2)
      n == LeadingZeros(frac)
  IN  IF IsZero(Kept(frac, p)) THEN Result(TRUE_ZERO, "None")
      ELSE Result(Number(neg, ch - n, ShiftLeft(frac, n)),
                  IF ch - n < 0 THEN "Underflow" ELSE "None")

normalize_value(u, p) == normalize(u.neg, u.ch, <<0, 0>> \o u.frac, p)

(***************************************************************************)
(* Addition with one guard digit, or subtraction: the fraction with the     *)
(* smaller characteristic is shifted right, the digits beyond the guard     *)
(* are lost, a carry shifts the sum right, leading zeros shift it left.     *)
(***************************************************************************)
Postnormalized(neg, ch, sum, p) ==
  LET n == LeadingZeros(sum)
  IN  Checked(neg, ch - n, SubSeq(ShiftLeft(sum, n), 1, DIGITS), p, "Significance")

\* The magnitude of the sum has one digit before the point, one after the last.
Summed(neg, ch, mag, p) ==
  LET carry == mag[1] # 0
  IN  CASE carry /\ ch = 127 -> Result(TRUE_ZERO, "Overflow")
        [] IsZero(mag) -> Result(TRUE_ZERO, "Significance")
        [] carry /\ ch # 127 -> Postnormalized(neg, ch + 1, SubSeq(mag, 1, DIGITS + 1), p)
        [] OTHER -> Postnormalized(neg, ch, Tail(mag), p)

\* Mutant: the larger characteristic always gives the sign.
CombinedUnderHigher(hi, lo, x, y, p) ==
  CASE hi.neg = lo.neg -> Summed(hi.neg, hi.ch, Sum(x, y, 0, 16).digits, p)
    [] hi.neg # lo.neg /\ Below(x, y) -> Summed(hi.neg, hi.ch, Difference(y, x, 16).digits, p)
    [] OTHER -> Summed(hi.neg, hi.ch, Difference(x, y, 16).digits, p)
Combined(hi, lo, x, y, p) ==
  CASE hi.neg = lo.neg -> Summed(hi.neg, hi.ch, Sum(x, y, 0, 16).digits, p)
    [] hi.neg # lo.neg /\ Below(x, y) -> Summed(lo.neg, hi.ch, Difference(y, x, 16).digits, p)
    [] OTHER -> Summed(hi.neg, hi.ch, Difference(x, y, 16).digits, p)

Aligned(hi, lo, p) ==
  Combined(hi, lo, <<0>> \o hi.frac \o <<0>>,
           ShiftRight(<<0>> \o lo.frac \o <<0>>, hi.ch - lo.ch), p)

add(a, second, negate, p) ==
  LET b == IF negate /\ ~is_zero(second) THEN [second EXCEPT !.neg = ~@] ELSE second
  IN  IF a.ch >= b.ch THEN Aligned(a, b, p) ELSE Aligned(b, a, p)

\* -1, 0 or 1: the sign of the difference, whatever event came with it.
SignOf(u) == CASE is_zero(u) -> 0 [] u.neg -> -1 [] OTHER -> 1
compare(a, b, p) == SignOf(add(a, b, TRUE, p).u)

multiply(a, b, p) ==
  LET prod == Product(a.frac, b.frac, 16)
      n == LeadingZeros(prod)
  IN  IF is_zero(a) \/ is_zero(b) THEN Result(TRUE_ZERO, "None")
      ELSE Checked(a.neg # b.neg, a.ch + b.ch - 64 - n,
                   SubSeq(ShiftLeft(prod, n), 1, DIGITS), p, "None")

\* Mutant: a quotient of one or more is not shifted.
CarriesNever(q) == FALSE
Carries(q) == ~IsZero(SubSeq(q, 1, DIGITS))

(***************************************************************************)
(* Division: the quotient with 14 digits after the point, shifted right by  *)
(* at most one digit and then cut to 64 bits.  That one digit is enough for *)
(* a normalized divisor only.                                               *)
(***************************************************************************)
divide(a, b, p) ==
  LET q == Quotient(a.frac \o Zeros(DIGITS), b.frac, 16)
      carry == Carries(q)
      cut == SubSeq(IF carry THEN ShiftRight(q, 1) ELSE q, DIGITS - 1, 2 * DIGITS)
      r == normalize(a.neg # b.neg, a.ch - b.ch + 64 + Flag(carry), cut, p)
  IN  CASE is_zero(b) -> Result(TRUE_ZERO, "DivideException")
        [] ~is_zero(b) /\ is_zero(a) -> Result(TRUE_ZERO, "None")
        [] OTHER -> IF r.event = "Underflow" THEN r
                    ELSE Checked(r.u.neg, r.u.ch, r.u.frac, p, "None")
=============================================================================
