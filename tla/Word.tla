-------------------------------- MODULE Word --------------------------------
(***************************************************************************)
(* Halfwords (u16) as numbers and fullwords (u32) as pairs of halfwords:    *)
(* the code addresses the halves of a register all the time.  Strings of    *)
(* halfwords stand for the longer operands (register pairs, doublewords).   *)
(***************************************************************************)
EXTENDS Digits

HW == 65536
Half == 0 .. HW - 1
Word == Half \X Half
ZeroWord == <<0, 0>>

Wrap(n) == n % HW
Signed(h) == IF h < HW \div 2 THEN h ELSE h - HW

\* n bits of halfword h, the lowest of them bit i (bit 0 is the lowest).
Field(h, i, n) == (h \div 2 ^ i) % 2 ^ n
Bit(h, i) == Field(h, i, 1)
Flag(b) == IF b THEN 1 ELSE 0

\* The bits that are on in a string of halfwords, and the string back.
Ones(hs) == { i \in 0 .. 16 * Len(hs) - 1 : Bit(hs[Len(hs) - i \div 16], i % 16) = 1 }
Halves(S, n) ==
  [k \in 1 .. n |-> SumSet({ 2 ^ i : i \in { j \in 0 .. 15 : 16 * (n - k) + j \in S } })]

And(a, b) == Halves(Ones(a) \cap Ones(b), Len(a))
Or(a, b) == Halves(Ones(a) \cup Ones(b), Len(a))
Xor(a, b) == Halves((Ones(a) \cup Ones(b)) \ (Ones(a) \cap Ones(b)), Len(a))
AndNot(a, b) == Halves(Ones(a) \ Ones(b), Len(a))

\* Bits moved to the left (n > 0) or to the right (n < 0), and around.
Moved(hs, n) == Halves({ i + n : i \in Ones(hs) } \cap (0 .. 16 * Len(hs) - 1), Len(hs))
Rotated(hs, n) == Halves({ (i - n) % (16 * Len(hs)) : i \in Ones(hs) }, Len(hs))

Negative(hs) == hs[1] >= HW \div 2
Negate(hs) == Difference(Zeros(Len(hs)), hs, HW).digits
Magnitude(hs) == IF Negative(hs) THEN Negate(hs) ELSE hs

\* An arithmetic shift to the right: the sign moves in.
MovedSigned(hs, n) ==
  LET top == 16 * Len(hs)
      Sign == IF Negative(hs) THEN { i \in 0 .. top - 1 : i >= top - n } ELSE {}
  IN  Halves(Ones(Moved(hs, -n)) \cup Sign, Len(hs))

\* Comparison of twos-complement numbers.
Less(a, b) == IF Negative(a) # Negative(b) THEN Negative(a) ELSE Below(a, b)

(***************************************************************************)
(* add_flags and sub_flags: the result with the carry and the signed        *)
(* overflow of the addition.                                                *)
(***************************************************************************)
Added(a, b) ==
  LET s == Sum(a, b, 0, HW)
  IN  [v |-> s.digits, carry |-> s.carry,
       overflow |-> Negative(a) = Negative(b) /\ Negative(s.digits) # Negative(a)]

Subtracted(a, b) ==
  LET s == Difference(a, b, HW)
  IN  [v |-> s.digits, carry |-> s.carry,
       overflow |-> Negative(a) # Negative(b) /\ Negative(s.digits) # Negative(a)]

\* A string of halfwords as hexadecimal digits, and back.
Hex(hs) ==
  [k \in 1 .. 4 * Len(hs) |-> Field(hs[(k + 3) \div 4], 4 * ((4 - (k % 4)) % 4), 4)]
FromHex(ds) ==
  [k \in 1 .. Len(ds) \div 4 |->
     4096 * ds[4 * k - 3] + 256 * ds[4 * k - 2] + 16 * ds[4 * k - 1] + ds[4 * k]]

\* Sign and magnitude: the product of twos-complement numbers, twice as long.
Minimum(hs) == Negative(hs) /\ Magnitude(hs) = hs
SignedProduct(a, b) ==
  LET p == FromHex(Product(Hex(Magnitude(a)), Hex(Magnitude(b)), 16))
  IN  IF Negative(a) # Negative(b) THEN Negate(p) ELSE p
\* Mutant: the product keeps its second sign bit.
DoubledNot(hs) == hs
Doubled(hs) == Sum(hs, hs, 0, HW).digits
=============================================================================
