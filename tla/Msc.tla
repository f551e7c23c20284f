--------------------------------- MODULE Msc ---------------------------------
(***************************************************************************)
(* The Master Sequence Controller of the IOP (iop.rs): what each of its    *)
(* instructions does to its own registers, to the BCEs it controls and to  *)
(* main storage, in one time slice.                                        *)
(*                                                                         *)
(* Like Bce, the module has no variables.  A unit u holds the MSC and what *)
(* it shares with the other processors: the BCEs, the indicator and fail   *)
(* discrete registers, the external-call register C6 and the interrupt     *)
(* request.  Words have Width bits and the registers are as wide as in the *)
(* code: the accumulator a fullword, X and PC an address.  Bit b of a word *)
(* is the one of weight 2^b.                                               *)
(***************************************************************************)
EXTENDS Bce

CONSTANTS
  Width,   \* bits of a fullword (32 in the code)
  BCEs     \* the BCEs there are, numbered from 0

Weight[b \in 0..Width] == IF b = 0 THEN 1 ELSE 2 * Weight[b - 1]

Full == Weight[Width]
Half == Weight[Width \div 2]

ASSUME MscAssumption ==
  /\ Width \in Nat /\ Width % 2 = 0
  /\ Space % 2 = 0 /\ Space <= Full
  /\ BCEs \subseteq 0..(Width - 2)

Bits(v) == {b \in 0..(Width - 1) : (v \div Weight[b]) % 2 = 1}

(* The word whose bits are B, a bit at a time from the right.              *)
WordOf(B) ==
  LET low[n \in 0..Width] ==
        IF n = 0 THEN 0 ELSE low[n - 1] + (IF n - 1 \in B THEN Weight[n - 1] ELSE 0)
  IN  low[Width]

Signed(v, modulus) == IF 2 * v >= modulus THEN v - modulus ELSE v

(* Main storage is made of halfwords; a fullword sits on an even address.  *)
ReadF(mem, a) == LET h == EvenPart(a % Space) IN mem[h] * Half + mem[h + 1]
WriteF(a, v) ==
  LET h == EvenPart(a % Space)
  IN  [i \in {h, h + 1} |-> IF i = h THEN v \div Half ELSE v % Half]

(* Bit positions: BCE n has the bit n places below the MSC's, which is the *)
(* sign, in the busy/wait register and in the masks of @SIO and repeats;   *)
(* the status bits are those of the word @LMS loads.                       *)
MscBit == Width - 1
BceBit(n) == Width - 2 - n

BUSY == 0
PROGRAM_EXCEPTION == 1
ILLEGAL == 2
BOUNDARY == 3
LBB_ERR == 4
LBP_ERR == 5
SIO_ERR == 6

ResetUnit(iua) ==
  [pc |-> 0, acc |-> 0, x |-> 0, busy |-> FALSE, errors |-> {}, indicators |-> {},
   fail |-> {}, c6 |-> 0, interrupt |-> FALSE, bces |-> [n \in BCEs |-> ResetBce(iua)]]

busy_wait_register(u) ==
  {BceBit(n) : n \in {i \in BCEs : u.bces[i].busy}} \cup (IF u.busy THEN {MscBit} ELSE {})

err(u, bit) == [u EXCEPT !.errors = @ \cup {bit, PROGRAM_EXCEPTION}]

Forward(u, n) == [u EXCEPT !.pc = (@ + n) % Space]

(* What an instruction changes: the unit, and the halfwords stored.        *)
Does(u, stored) == [unit |-> u, stored |-> stored]
Only(u) == Does(u, Nothing)

-----------------------------------------------------------------------------
(* Operands.  A short format names a displacement from the program         *)
(* counter, a long one an address that is the value itself or points to    *)
(* it; both can be indexed.                                                *)
Index(u, ins) == IF ins.indexed THEN u.x ELSE 0

ShortEa(u, ins) == (u.pc + ins.disp + Index(u, ins)) % Space

LongAddress(u, ins) == (ins.addr + Index(u, ins)) % Space

LongEv(u, mem, ins) ==
  IF ins.direct THEN ReadF(mem, LongAddress(u, ins))
                ELSE Signed(LongAddress(u, ins), Space) % Full

(* The BCE an instruction names, in the instruction or in the accumulator, *)
(* counted from 1.                                                         *)
Named(u, ins) == (IF ins.bce = 0 THEN u.acc % 32 ELSE ins.bce) - 1

-----------------------------------------------------------------------------
(* Short formats.                                                          *)
SignOf(v) == IF v = 0 THEN "zero" ELSE IF v < 0 THEN "negative" ELSE "positive"

Branch(u, ins) ==          \* @BC tests the accumulator, @BXC the index register
  LET v == IF ins.indexed THEN Signed(u.x, Space) ELSE Signed(u.acc, Full)
  IN  Forward(u, 1 + (IF SignOf(v) \in ins.cond THEN ins.disp ELSE 0))

Accumulate(u, ins, v) ==   \* @L @A @N @X
  [u EXCEPT !.acc = CASE ins.op = "L" -> v
                      [] ins.op = "A" -> (@ + v) % Full
                      [] ins.op = "N" -> WordOf(Bits(@) \cap Bits(v))
                      [] ins.op = "X" -> WordOf((Bits(@) \cup Bits(v)) \ (Bits(@) \cap Bits(v)))]

(* @TSZ: count a fullword up, and skip an instruction when it gets to zero.*)
CountUp(u, mem, ins) ==
  LET v == (ReadF(mem, ShortEa(u, ins)) + 1) % Full
  IN  Does(Forward(u, IF v = 0 THEN 2 ELSE 1), WriteF(ShortEa(u, ins), v))

(* The words of a save area: status, accumulator, index, program counter.  *)
Saved(area, stat, acc, x, pc) ==
  LET word(a) == <<stat, acc, x, pc>>[((a - area) % Space) \div 2 + 1]
  IN  [a \in {(area + i) % Space : i \in 0..7} |-> WriteF(a, word(a))[a]]

(* @REC: reload the MSC from a save area.                                  *)
Reload(u, mem, ins) ==
  LET area == EvenPart(ShortEa(u, ins))
      stat == Bits(ReadF(mem, area))
  IN  [u EXCEPT !.acc = ReadF(mem, area + 2),
                !.x = ReadF(mem, area + 4) % Space,
                !.pc = ReadF(mem, area + 6) % Space,
                !.errors = (stat \cap 0..17) \ {BUSY},
                !.busy = BUSY \in stat \/ @]

(* Repeats: the condition over the BCEs in the mask is evaluated once.     *)
Met(u, ins) ==
  LET mask == Bits(u.acc)
  IN  CASE ins.op = "RAI" -> mask \subseteq u.indicators
        [] ins.op = "RAW" -> mask \cap busy_wait_register(u) = {}
        [] ins.op = "RNI" -> mask \cap u.indicators # {}
        [] ins.op = "RNW" -> ~ mask \subseteq busy_wait_register(u)
        [] ins.op = "repeat?" -> FALSE

Repeat(u, ins) ==
  Forward(IF ins.op = "repeat?" THEN err(u, ILLEGAL) ELSE u, IF Met(u, ins) THEN 2 ELSE 1)

-----------------------------------------------------------------------------
(* Register operations.                                                    *)
Register(u, reg) ==        \* what @LAR loads
  CASE reg = "STAT1"      -> IF PROGRAM_EXCEPTION \in u.errors THEN {MscBit} ELSE {}
    [] reg = "indicators" -> u.indicators
    [] reg = "fail"       -> u.fail
    [] reg = "busy_wait"  -> busy_wait_register(u)

FailBits(u) == Bits(u.acc) \cap (Width - 5)..(Width - 1)

StatusWord(u) == WordOf({BUSY} \cup u.errors)

(* @SIO: start the BCEs in the mask; those that are busy are an error.     *)
StartIo(u) ==
  LET mask == Bits(u.acc)
      v    == [u EXCEPT !.bces = [n \in BCEs |->
                 IF BceBit(n) \in mask THEN [@[n] EXCEPT !.busy = TRUE] ELSE @[n]]]
  IN  IF mask \cap busy_wait_register(u) # {} \/ MscBit \in mask THEN err(v, SIO_ERR) ELSE v

(* Mutant: the address stays in C6.                                        *)
ExternalCallAgain(u, ins) ==
  IF u.c6 = 0 THEN Only(Forward(u, 1))
  ELSE Does([u EXCEPT !.pc = (u.c6 + 8) % Space, !.errors = {}],
            Saved(EvenPart(u.c6), StatusWord(u), u.acc, u.x, (u.pc + 1 + ins.delta) % Space))

(* @SEC: if the CPU has left an address in C6, save the MSC there and      *)
(* branch behind the save area.                                            *)
ExternalCall(u, ins) ==
  IF u.c6 = 0 THEN Only(Forward(u, 1))
  ELSE Does([u EXCEPT !.pc = (u.c6 + 8) % Space, !.c6 = 0, !.errors = {}],
            Saved(EvenPart(u.c6), StatusWord(u), u.acc, u.x, (u.pc + 1 + ins.delta) % Space))

ResetIndicator(u, ins) ==  \* @RBI
  [u EXCEPT !.indicators = @ \ {BceBit(Named(u, ins))}]

RegisterOp(u, ins) ==
  CASE ins.op = "LAR" -> [u EXCEPT !.acc = WordOf(Register(u, ins.reg))]
    [] ins.op = "SFD" -> [u EXCEPT !.fail = @ \cup FailBits(u)]
    [] ins.op = "RFD" -> [u EXCEPT !.fail = @ \ FailBits(u)]
    [] ins.op = "LMS" -> [u EXCEPT !.acc = StatusWord(u)]
    [] ins.op = "SIO" -> StartIo(u)
    [] ins.op = "XAX" -> [u EXCEPT !.x = u.acc % Space, !.acc = Signed(u.x, Space) % Full]
    [] ins.op = "RBI" -> ResetIndicator(u, ins)

(* Register immediates.  @NIX normalizes the accumulator and counts the    *)
(* shifts in the index register; @TXI also skips when X is not positive.   *)
Normalize(u, imm) ==
  LET top == CHOOSE b \in Bits(u.acc) : \A c \in Bits(u.acc) : c <= b
      n   == Width - 1 - top
  IN  IF u.acc = 0 THEN [u EXCEPT !.x = 0]
      ELSE [u EXCEPT !.acc = WordOf({b + n : b \in Bits(@)}), !.x = (@ + n * imm) % Space]

Immediate(u, op, imm) ==
  CASE op = "NIX" -> Normalize(u, imm)
    [] op = "TAX" -> [u EXCEPT !.x = (u.acc + imm) % Space]
    [] op = "TXI" -> [u EXCEPT !.x = (@ + imm) % Space]
    [] op = "LXI" -> [u EXCEPT !.x = imm % Space]
    [] op = "TXA" -> [u EXCEPT !.acc = (Signed(u.x, Space) + imm) % Full]
    [] op = "TI"  -> [u EXCEPT !.acc = (@ + imm) % Full]
    [] op = "SAI" -> [u EXCEPT !.acc = (imm - @) % Full]
    [] op = "LI"  -> [u EXCEPT !.acc = imm % Full]

-----------------------------------------------------------------------------
(* Long formats.                                                           *)

(* @LBB, @LBP: load the base or the program counter of a waiting BCE.      *)
LoadBce(u, ins, ev) ==
  LET n == Named(u, ins)
  IN  IF n \in BCEs /\ ~ u.bces[n].busy
      THEN IF ins.op = "LBB" THEN [u EXCEPT !.bces[n].base = ev]
                             ELSE [u EXCEPT !.bces[n].pc = ev]
      ELSE err(u, IF ins.op = "LBB" THEN LBB_ERR ELSE LBP_ERR)

(* @LF, @LH, @STF, @STH: the address itself may be taken from storage.     *)
OperandAddress(u, mem, ins) ==
  IF ins.direct THEN ReadF(mem, LongAddress(u, ins)) % Space ELSE LongAddress(u, ins)

LoadStore(u, mem, ins) ==
  LET a == OperandAddress(u, mem, ins)
  IN  CASE ins.op = "LF"  -> Only([u EXCEPT !.acc = ReadF(mem, a)])
        [] ins.op = "LH"  -> Only([u EXCEPT !.acc = Signed(mem[a], Half) % Full])
        [] ins.op = "STF" -> Does(u, WriteF(a, u.acc))
        [] ins.op = "STH" -> Does(u, [h \in {a} |-> u.acc % Half])

(* @CI, @C: two, three or four halfwords on, as ACC is less, equal or more.*)
Compare(u, ev) ==
  LET acc == Signed(u.acc, Full)
      v   == Signed(ev, Full)
  IN  Forward(u, IF acc < v THEN 2 ELSE IF acc = v THEN 3 ELSE 4)

LongFormats == {"BU", "CALL", "LBB", "LBP", "LF", "LH", "STF", "STH", "C", "TM"}

Long(u, mem, ins) ==
  LET ev == LongEv(u, mem, ins)
      at == ev % Space
  IN  CASE ins.op = "BU"   -> Only([u EXCEPT !.pc = at])
        [] ins.op = "CALL" -> Does([u EXCEPT !.pc = (at + 2) % Space],
                                   WriteF(at, (u.pc + ins.delta) % Space))
        [] ins.op \in {"LBB", "LBP"} -> Only(Forward(LoadBce(u, ins, at), 2))
        [] ins.op = "C"    -> Only(Compare(u, ev))
        [] ins.op = "TM"   -> Only(Forward(u, IF Bits(u.acc) \cap Bits(ev) # {} THEN 3 ELSE 2))
        [] OTHER           -> LET r == LoadStore(u, mem, ins)
                              IN  [r EXCEPT !.unit = Forward(@, 2)]

-----------------------------------------------------------------------------
Stopped(u) == [u EXCEPT !.busy = FALSE]

(* One time slice of a busy MSC whose program counter addresses ins.       *)
step_msc(u, ins, mem) ==
  CASE ins.op \in LongFormats ->
         IF u.pc % 2 = 1 THEN Only(Stopped(err(u, BOUNDARY))) ELSE Long(u, mem, ins)
    [] ins.op \in {"WAT", "STP"} -> Only(Forward(Stopped(u), 1))
    [] ins.op = "BC"  -> Only(Branch(u, ins))
    [] ins.op = "INT" -> Only(Forward([u EXCEPT !.interrupt = TRUE], 1))
    [] ins.op \in {"L", "A", "N", "X"} ->
         Only(Forward(Accumulate(u, ins, ReadF(mem, ShortEa(u, ins))), 1))
    [] ins.op = "ST"  -> Does(Forward(u, 1), WriteF(ShortEa(u, ins), u.acc))
    [] ins.op = "TSZ" -> CountUp(u, mem, ins)
    [] ins.op = "REC" -> Only(Reload(u, mem, ins))
    [] ins.op = "DLY" -> Only(Forward(u, 1))
    [] ins.op \in {"RAI", "RAW", "RNI", "RNW", "repeat?"} -> Only(Repeat(u, ins))
    [] ins.op = "SEC" -> ExternalCall(u, ins)
    [] ins.op \in {"LAR", "SFD", "RFD", "LMS", "SIO", "XAX", "RBI"} ->
         Only(Forward(RegisterOp(u, ins), 1))
    [] ins.op \in {"NIX", "TAX", "LXI", "TXA", "TI", "SAI", "LI"} ->
         Only(Forward(Immediate(u, ins.op, ins.imm), 1))
    [] ins.op = "TXI" -> Only(Forward(Immediate(u, "TXI", ins.imm),
                                      IF Signed(u.x, Space) + ins.imm <= 0 THEN 2 ELSE 1))
    [] ins.op = "ILLEGAL" -> Only(Stopped(err(u, ILLEGAL)))

=============================================================================
