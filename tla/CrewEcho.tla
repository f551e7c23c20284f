------------------------------- MODULE CrewEcho -------------------------------
(***************************************************************************)
(* The keyboard echo of tests/crew_interface.rs: one GPC, all of whose     *)
(* processors work on it, and the display units on two of its buses.       *)
(*   - BCE 4 polls the keyboard into KEYBUF, once for every start;         *)
(*   - the CPU looks at KEYBUF; it puts the glyph of a key in TEXT, marks  *)
(*     KEYBUF empty, moves the cell in the write command of BCE 5 on, and  *)
(*     leaves the address of the echo program in the MSC's C6;             *)
(*   - the MSC samples C6 (and then starts BCE 5) and restarts BCE 4 when  *)
(*     KEYBUF is empty;                                                    *)
(*   - BCE 5 sends the write command and TEXT to the screen.               *)
(*                                                                         *)
(* The processors run in lockstep, an instruction each in every step of    *)
(* the GPC; only the crew's keystrokes come at any time.                   *)
(***************************************************************************)
EXTENDS Msc, Deu

CONSTANTS
  Key,        \* the keys the crew presses
  Glyph,      \* Glyph[k]: what the glyph table holds for key k
  CellSpace,  \* cells the command word can name (2^12 in the code)
  MaxKeys     \* bound on the keys pressed

KEYBUF  == \h1800
TEXT    == \h1810
C6PGM   == \h160
DeuIua  == "deu"

(* Keys and glyphs are bytes in halfwords; no key has a blank for a glyph. *)
ASSUME CrewAssumption ==
  /\ TEXT < Space
  /\ NoKey \in Nat /\ Key \subseteq Nat /\ NoKey \notin Key
  /\ \A k \in Key \cup {NoKey} : 2 * k < Half
  /\ Glyph \in [Key -> 0..(Half - 1) \ {Blank}]
  /\ CellSpace \in Nat \ {0} /\ MaxKeys \in Nat
  /\ {4, 5} \subseteq BCEs

VARIABLES
  cpu,      \* where the CPU is in its loop, and its registers 5, 6 and 7
  unit,     \* the IOP: MSC and BCEs
  mem,      \* the halfwords of main storage that are written or read as data
  dispcmd,  \* operation and cell in the write command of BCE 5, as one number
  kbd,      \* the display unit on bus 4
  crt,      \* the display unit on bus 5
  typed,    \* the keys pressed so far (history)
  heard,    \* the keys the CPU found in KEYBUF (history)
  early,    \* a key was pressed before the first poll was over (history)
  hurried   \* a key was pressed before the ones before it were shown (history)

vars == <<cpu, unit, mem, dispcmd, kbd, crt, typed, heard, early, hurried>>

-----------------------------------------------------------------------------
(* The programs.                                                           *)
Short(op, disp) == [op |-> op, indexed |-> FALSE, disp |-> disp]
LongForm(op, addr) == [op |-> op, indexed |-> FALSE, direct |-> FALSE, addr |-> addr]
Plain(op) == [op |-> op]

MscAddresses == {\h140, \h141, \h142, \h144, \h145, \h146, \h148, \h149, \h14A,
                 \h168, \h16A, \h16B}

(* Mutant: the restart is skipped for negative differences only.           *)
MscCodeRestless ==
  [a \in MscAddresses |->
    CASE a = \h140 -> [op |-> "SEC", delta |-> 0]
      [] a \in {\h141, \h149} -> Plain("DLY")
      [] a = \h142 -> LongForm("LH", KEYBUF)
      [] a = \h144 -> Short("X", 12)
      [] a = \h145 -> [op |-> "BC", indexed |-> FALSE, cond |-> {"negative"}, disp |-> 3]
      [] a = \h146 -> LongForm("LF", \h152)
      [] a \in {\h148, \h16A} -> Plain("SIO")
      [] a = \h14A -> LongForm("BU", \h140)
      [] a = \h168 -> LongForm("LF", \h170)
      [] a = \h16B -> Short("REC", -11)]

(* The main loop at 140 and the echo program at 168 (behind its save area).*)
MscCode ==
  [a \in MscAddresses |->
    CASE a = \h140 -> [op |-> "SEC", delta |-> 0]
      [] a \in {\h141, \h149} -> Plain("DLY")
      [] a = \h142 -> LongForm("LH", KEYBUF)
      [] a = \h144 -> Short("X", 12)
      [] a = \h145 -> [op |-> "BC", indexed |-> FALSE, cond |-> {"negative", "positive"}, disp |-> 3]
      [] a = \h146 -> LongForm("LF", \h152)
      [] a \in {\h148, \h16A} -> Plain("SIO")
      [] a = \h14A -> LongForm("BU", \h140)
      [] a = \h168 -> LongForm("LF", \h170)
      [] a = \h16B -> Short("REC", -11)]

PollCommand == CommandWord(DeuIua, [op |-> "poll", count |-> 1])

(* Mutant: the poller does not wait to be restarted.                       *)
KeyboardCodeFree ==
  [a \in {\h200, \h202, \h203, \h204, \h208, \h209, \h20A} |->
    CASE a = \h200 -> [op |-> "LBR", value |-> KEYBUF]
      [] a = \h202 -> [op |-> "LTO", value |-> 100]
      [] a = \h203 -> Plain("DLY")
      [] a = \h204 -> [op |-> "MIN", word |-> PollCommand, disp |-> 0, count |-> 1, ilen |-> 4]
      [] a = \h208 -> [op |-> "IB", set |-> TRUE]
      [] a = \h209 -> Plain("DLY")
      [] a = \h20A -> [op |-> "BU", value |-> \h204]]

KeyboardCode ==
  [a \in {\h200, \h202, \h203, \h204, \h208, \h209, \h20A} |->
    CASE a = \h200 -> [op |-> "LBR", value |-> KEYBUF]
      [] a = \h202 -> [op |-> "LTO", value |-> 100]
      [] a = \h203 -> Plain("DLY")
      [] a = \h204 -> [op |-> "MIN", word |-> PollCommand, disp |-> 0, count |-> 1, ilen |-> 4]
      [] a = \h208 -> [op |-> "IB", set |-> TRUE]
      [] a = \h209 -> Plain("WAT")
      [] a = \h20A -> [op |-> "BU", value |-> \h204]]

(* The command of #MOUT is a fullword of the program, which the CPU moves  *)
(* on by one cell for each key; from the last cell it carries into the     *)
(* operation, which the display unit then does not know.                   *)
WriteCommand(v) ==
  CommandWord(DeuIua, [op |-> IF v \div CellSpace = 0 THEN "write" ELSE "unknown",
                       cell |-> v % CellSpace, count |-> 1])

DisplayCode(v) ==
  [a \in {\h1A0, \h1A2, \h1A6, \h1A7, \h1A8} |->
    CASE a = \h1A0 -> [op |-> "LBR", value |-> TEXT]
      [] a = \h1A2 -> [op |-> "MOUT", word |-> WriteCommand(v), disp |-> 0, count |-> 1, ilen |-> 4]
      [] a = \h1A6 -> Plain("WAT")
      [] a = \h1A7 -> Plain("DLY")
      [] a = \h1A8 -> [op |-> "BU", value |-> \h1A2]]

-----------------------------------------------------------------------------
(* The words of the programs that are read as data: the empty marker as a  *)
(* fullword, the masks of BCE 4 and BCE 5, and the save area.              *)
InitialWord(h) ==
  CASE h = \h150 -> NoKey
    [] h = \h152 -> WordOf({BceBit(4)})
    [] h = \h170 -> WordOf({BceBit(5)})
    [] OTHER     -> 0

Data == {KEYBUF, TEXT} \cup \h150..\h153 \cup C6PGM..(C6PGM + 7) \cup \h170..\h171

InitialStore ==
  [a \in Data |-> CASE a = KEYBUF -> NoKey
                    [] a = TEXT   -> 0
                    [] OTHER      -> WriteF(a, InitialWord(EvenPart(a)))[a]]

Init ==
  /\ cpu = [at |-> 0, r5 |-> 0, r6 |-> 0, r7 |-> 0]
  /\ unit = [ResetUnit(0) EXCEPT !.busy = TRUE, !.pc = \h140,
                                 !.bces[4].busy = TRUE, !.bces[4].pc = \h200,
                                 !.bces[5].pc = \h1A0]
  /\ mem = InitialStore
  /\ dispcmd = -1          \* the first key moves it on to cell 0
  /\ kbd = new(DeuIua) /\ crt = new(DeuIua)
  /\ typed = <<>> /\ heard = <<>> /\ early = FALSE /\ hurried = FALSE

(* The CPU's loop, instruction by instruction.                             *)
Branch3 == IF cpu.r5 = NoKey THEN 1 ELSE 4

CpuStep ==
  CASE cpu.at = 1  -> [cpu EXCEPT !.at = 2, !.r5 = mem[KEYBUF]]       \* LH
    [] cpu.at = 3  -> [cpu EXCEPT !.at = Branch3]                     \* CHI, BC
    [] cpu.at = 4  -> [cpu EXCEPT !.at = 5, !.r6 = Glyph[cpu.r5]]     \* LH
    [] cpu.at = 8  -> [cpu EXCEPT !.at = 9, !.r7 = dispcmd]           \* L
    [] cpu.at = 9  -> [cpu EXCEPT !.at = 10, !.r7 = @ + 1]            \* A
    [] cpu.at = 15 -> [cpu EXCEPT !.at = 1]                           \* B
    [] OTHER       -> [cpu EXCEPT !.at = @ + 1]

MemAfterCpu ==
  CASE cpu.at = 5 -> [mem EXCEPT ![TEXT] = cpu.r6]                    \* STH
    [] cpu.at = 7 -> [mem EXCEPT ![KEYBUF] = NoKey]                   \* LH, STH
    [] OTHER      -> mem

DispcmdAfterCpu == IF cpu.at = 10 THEN cpu.r7 ELSE dispcmd            \* ST

(* PC 1,2: load local store, the external-call register of the MSC.        *)
C6AfterCpu == IF cpu.at = 13 THEN C6PGM ELSE unit.c6

HeardAfterCpu ==
  IF cpu.at = 1 /\ mem[KEYBUF] # NoKey THEN Append(heard, mem[KEYBUF]) ELSE heard

-----------------------------------------------------------------------------
AfterStores(m, stored) == [a \in DOMAIN m |-> IF a \in DOMAIN stored THEN stored[a] ELSE m[a]]

(* The slice of BCE n with the program code, on a bus with display unit d. *)
BusSlice(u, m, n, code, d) ==
  LET b     == u.bces[n]
      reply == [command |-> observe(d, code[b.pc].word).answer, data |-> <<>>]
      idle  == [command |-> <<>>, data |-> <<>>]
  IN  IF b.busy
      THEN Slice(b, code[b.pc], <<>>, TRUE, TRUE, m,
                 IF code[b.pc].op \in {"MIN", "MOUT"} THEN reply ELSE idle)
      ELSE Change(b, <<>>)

(* The unit after a slice of its BCE n.                                    *)
AfterSlice(u, n, r) ==
  [u EXCEPT !.bces[n] = r.bce,
            !.indicators = CASE r.bit = "set"   -> @ \cup {BceBit(n)}
                             [] r.bit = "reset" -> @ \ {BceBit(n)}
                             [] r.bit = "keep"  -> @]

(* A step of the GPC: the CPU, the MSC, then BCE 4 and BCE 5.              *)
Step ==
  \E m1 \in {MemAfterCpu}, u1 \in {[unit EXCEPT !.c6 = C6AfterCpu]} :
  \E s \in {IF u1.busy THEN step_msc(u1, MscCode[u1.pc], m1) ELSE Only(u1)} :
  \E m2 \in {AfterStores(m1, s.stored)} :
  \E a \in {BusSlice(s.unit, m2, 4, KeyboardCode, kbd)} :
  \E m3 \in {AfterStores(m2, a.stored)}, u2 \in {AfterSlice(s.unit, 4, a)} :
  \E b \in {BusSlice(u2, m3, 5, DisplayCode(DispcmdAfterCpu), crt)} :
    /\ cpu' = CpuStep
    /\ unit' = AfterSlice(u2, 5, b)
    /\ mem' = AfterStores(m3, b.stored)
    /\ dispcmd' = DispcmdAfterCpu
    /\ kbd' = AfterWords(kbd, a.sent)
    /\ crt' = AfterWords(crt, b.sent)
    /\ heard' = HeardAfterCpu
    /\ UNCHANGED <<typed, early, hurried>>

(* The keyboard program is past its #MIN for the first time.               *)
Polled == unit.bces[4].pc > \h204

Shown == \A i \in 1..Len(typed) : crt.screen[i - 1] = Glyph[typed[i]]

Press(k) ==
  /\ Len(typed) < MaxKeys
  /\ kbd' = press(kbd, k)
  /\ typed' = Append(typed, k)
  /\ early' = (early \/ ~ Polled)
  /\ hurried' = (hurried \/ ~ Shown)
  /\ UNCHANGED <<cpu, unit, mem, dispcmd, crt, heard>>

Next == Step \/ \E k \in Key : Press(k)

Spec == Init /\ [][Next]_vars
FairSpec == Spec /\ WF_vars(Step)

-----------------------------------------------------------------------------
(* Types: KEYBUF and TEXT hold halfwords, the CPU is in its loop, the      *)
(* processors at an instruction of theirs, and the cursor of a display     *)
(* unit on its screen (deu.rs).                                            *)
TypeOK ==
  /\ cpu \in [at : 0..15, r5 : Key \cup {0, NoKey}, r6 : 0..(Half - 1), r7 : -1..MaxKeys]
  /\ mem[KEYBUF] \in Key \cup {NoKey} /\ mem[TEXT] \in 0..(Half - 1)
  /\ unit.c6 \in {0, C6PGM} /\ unit.acc \in 0..(Full - 1) /\ unit.x \in 0..(Space - 1)
  /\ unit.pc \in DOMAIN MscCode
  /\ unit.bces[4].pc \in DOMAIN KeyboardCode /\ unit.bces[5].pc \in DOMAIN DisplayCode(dispcmd)
  /\ \A d \in {kbd, crt} : d.cursor \in 0..(Cells - 1) /\ d.pending_write \in {0, 1}
  /\ Len(typed) <= MaxKeys

(* Between reading a key and marking KEYBUF empty the CPU has taken it.    *)
Taken == cpu.at \in 2..7 /\ cpu.r5 # NoKey
Unheard == IF mem[KEYBUF] = NoKey \/ Taken THEN <<>> ELSE <<mem[KEYBUF]>>

(* Every key pressed is in one place, and in the order of the presses:     *)
(* taken by the CPU, waiting for it in KEYBUF, or queued in the unit.      *)
(* docs/DEU_STATUS.md:50-52 and the comment at crew_interface.rs:179-182   *)
(* say so: the MSC restarts the poller only when the CPU has consumed the  *)
(* key, which ends the race between the two.                               *)
KeysKept == typed = heard \o Unheard \o kbd.keys

(* No key is lost, doubled or overtaken on its way through KEYBUF, however *)
(* fast the crew types, once the first poll is over (the MSC's first look  *)
(* at KEYBUF is not synchronised with it).                                 *)
KeysInOrder == early \/ KeysKept

(* The MSC never starts a BCE that is still busy (@SIO would record an     *)
(* error), and no BCE runs into an error: every poll and every write is    *)
(* over before the next is due.                                            *)
NoErrors == unit.errors = {} /\ \A n \in BCEs : ~ unit.bces[n].error

(* As long as the crew waits for each echo, the screen shows the glyphs of *)
(* the keys, in the cells of their order and nowhere else: TEXT and the    *)
(* write command stay what the CPU made them until BCE 5 has sent them.    *)
(* So it is until the screen or the cells of the command are used up.      *)
EchoRight ==
  ~ hurried /\ Len(typed) <= Cells /\ Len(typed) <= CellSpace =>
     \A c \in 0..(Cells - 1) :
        crt.screen[c] # Blank => c < Len(typed) /\ crt.screen[c] = Glyph[typed[c + 1]]

(* Every key eventually fills its cell, though a key typed too soon after  *)
(* another may fill the other's too: no external call (C6) is overwritten  *)
(* before the MSC has sampled it. Excepted is a crew that typed before the *)
(* first poll was over and did not wait for an echo: the second poll may   *)
(* then lose a key (KeysKept).                                             *)
EchoComplete ==
  <>[]((early /\ hurried) \/ \A i \in 1..Len(typed) : crt.screen[i - 1] # Blank)

=============================================================================
