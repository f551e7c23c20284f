------------------------------- MODULE Digits -------------------------------
(***************************************************************************)
(* Numbers written as sequences of digits, most significant first, in a    *)
(* base B.  The emulator computes with u16, u32, u64 and u128 integers,     *)
(* most of them wider than TLC's; a halfword is one digit in base 2^16 and  *)
(* a fraction digit one in base 16.                                         *)
(***************************************************************************)
EXTENDS Integers, Sequences, FiniteSetsExt

Zeros(n) == [k \in 1 .. n |-> 0]
IsZero(a) == \A k \in DOMAIN a : a[k] = 0

\* a < b as unsigned numbers of the same length.
Below(a, b) ==
  \E k \in DOMAIN a : a[k] < b[k] /\ \A j \in 1 .. k - 1 : a[j] = b[j]

ShiftRight(a, n) == [k \in DOMAIN a |-> IF k > n THEN a[k - n] ELSE 0]
ShiftLeft(a, n) == [k \in DOMAIN a |-> IF k + n <= Len(a) THEN a[k + n] ELSE 0]

\* How many leading digits of a non-zero number are zero.
LeadingZeros(a) ==
  CHOOSE n \in 0 .. Len(a) - 1 : a[n + 1] # 0 /\ \A k \in 1 .. n : a[k] = 0

(***************************************************************************)
(* a + b + c in base B: the sum truncated to the length of the operands     *)
(* and the carry out of its first digit.  from[k] is the sum of the digits  *)
(* from k on, its carry first.                                              *)
(***************************************************************************)
Sum(a, b, c, B) ==
  LET from[k \in 1 .. Len(a) + 1] ==
        IF k > Len(a) THEN <<c>>
        ELSE LET rest == from[k + 1]
                 s == a[k] + b[k] + Head(rest)
             IN  <<s \div B, s % B>> \o Tail(rest)
      total == from[1]
  IN  [digits |-> Tail(total), carry |-> Head(total) = 1]

Complement(a, B) == [k \in DOMAIN a |-> B - 1 - a[k]]

\* a - b as a + complement of b + 1; the carry says that nothing was borrowed.
Difference(a, b, B) == Sum(a, Complement(b, B), 1, B)

\* The product, as long as both operands together, in the same way.
Product(a, b, B) ==
  LET n == Len(a) + Len(b)
      Column(k) == MapThenSumSet(LAMBDA i : a[i] * b[k - i], { i \in DOMAIN a : (k - i) \in DOMAIN b })
      from[k \in 1 .. n + 1] ==
        IF k > n THEN <<0>>
        ELSE LET rest == from[k + 1]
                 s == Column(k) + Head(rest)
             IN  <<s \div B, s % B>> \o Tail(rest)
  IN  Tail(from[1])

(***************************************************************************)
(* The quotient of a by b # 0, as long as a: long division with the         *)
(* multiples of b.  The remainder is one digit longer than b.               *)
(***************************************************************************)
Quotient(a, b, B) ==
  LET wide == <<0>> \o b
      upTo[q \in 0 .. B - 1] ==
        IF q = 0 THEN <<Zeros(Len(wide))>>
        ELSE LET smaller == upTo[q - 1] IN Append(smaller, Sum(smaller[q], wide, 0, B).digits)
      times == upTo[B - 1]
      Digit(x) == CHOOSE q \in 0 .. B - 1 :
                    ~Below(x, times[q + 1]) /\ (q = B - 1 \/ Below(x, times[q + 2]))
      after[k \in 0 .. Len(a)] ==
        IF k = 0 THEN [digits |-> <<>>, rest |-> Zeros(Len(wide))]
        ELSE LET before == after[k - 1]
                 x == Append(Tail(before.rest), a[k])
                 q == Digit(x)
             IN  [digits |-> Append(before.digits, q),
                  rest |-> Difference(x, times[q + 1], B).digits]
  IN  after[Len(a)].digits
=============================================================================
