----------------------------- MODULE Cpu_proofs -----------------------------
(***************************************************************************)
(* Proofs about the CPU: what a step may do to protected storage and to    *)
(* the control fields of the PSW, for every program, every machine and     *)
(* every device; and what a return brings back, for every frame.           *)
(***************************************************************************)
EXTENDS Cpu, SequenceTheorems, TLAPS

Parts == {"mem", "prot", "psw", "gpr", "dse", "fpr", "pending", "trap"}
PswParts ==
  {"ic", "cc", "carry", "overflow", "fixed_overflow_mask", "exp_underflow_mask",
   "significance_mask", "bsr", "dsr", "sys_mask", "ea_high", "reg_set",
   "machine_check_mask", "wait", "problem_state", "int_code"}

(* The inductive invariant: a machine stays a record with these fields.    *)
(* What they hold does not matter to protection, and so the arithmetic of  *)
(* the instructions does not either.                                       *)
Shape(m) == DOMAIN m = Parts /\ DOMAIN m.psw = PswParts

(* From m to n the protection, the waiting levels and the control fields   *)
(* of the PSW stay as they are, and so do the protected halfwords but K.    *)
Framed(K, m, n) ==
  /\ Shape(n) /\ n.prot = m.prot /\ n.pending = m.pending
  /\ \A f \in ControlFields : n.psw[f] = m.psw[f]
  /\ \A a \in m.prot : a \notin K => At(n, a) = At(m, a)

(* Interrupts from m to n: a new PSW was loaded and the old ones stored, in *)
(* the places K and in those of the interrupts taken, or there was none to  *)
(* load, and only the interruption code is new.                             *)
Swaps(K, m, n) ==
  /\ Shape(n) /\ n.prot = m.prot /\ n.pending \subseteq m.pending
  /\ \/ InHandler(n) /\ \A a : a \notin K \cup OldPsws(m, n) => At(n, a) = At(m, a)
     \/ n.mem = m.mem /\ Uncoded(n.psw) = Uncoded(m.psw)

(* Interrupts after which a program interrupt that was in its handler       *)
(* before can still be told to have been taken.                             *)
Interrupted(m, n) ==
  /\ Swaps({}, m, n)
  /\ Handles(m, PROGRAM_NEW) => ProgramTaken(m, n)

-----------------------------------------------------------------------------
(***************************************************************************)
(* Loading a PSW.                                                          *)
(***************************************************************************)

(* A new PSW replaces all of the old one.                                  *)
LEMMA Loaded ==
  ASSUME NEW p, NEW q, DOMAIN p = PswParts, DOMAIN q = PswParts, NEW w, NEW u
  PROVE  /\ set_word1(set_word0(p, w), u) = set_word1(set_word0(q, w), u)
         /\ DOMAIN set_word1(set_word0(p, w), u) = PswParts
<1> DEFINE a == set_indicators(p, w[2])
           b == set_indicators(q, w[2])
           c == set_word0(p, w)
           d == set_word0(q, w)
           e == set_word1(c, u)
           f == set_word1(d, u)
<1>1. /\ DOMAIN a = PswParts /\ DOMAIN b = PswParts
      /\ a.cc = b.cc /\ a.carry = b.carry /\ a.overflow = b.overflow
      /\ a.fixed_overflow_mask = b.fixed_overflow_mask
      /\ a.exp_underflow_mask = b.exp_underflow_mask
      /\ a.significance_mask = b.significance_mask
  BY DEF PswParts, set_indicators
<1>2. /\ c = [a EXCEPT !.ic = w[1], !.bsr = Field(w[2], 4, 4), !.dsr = Field(w[2], 0, 4)]
      /\ d = [b EXCEPT !.ic = w[1], !.bsr = Field(w[2], 4, 4), !.dsr = Field(w[2], 0, 4)]
  BY DEF set_word0
<1> HIDE DEF a, b, c, d
<1>3. /\ DOMAIN c = PswParts /\ DOMAIN d = PswParts
      /\ \A x \in {"cc", "carry", "overflow", "fixed_overflow_mask", "exp_underflow_mask",
                   "significance_mask", "ic", "bsr", "dsr"} : c[x] = d[x]
  BY <1>1, <1>2 DEF PswParts
<1>4. /\ DOMAIN e = PswParts /\ DOMAIN f = PswParts
      /\ \A x \in PswParts : e[x] = f[x]
  BY <1>3 DEF PswParts, set_word1
<1>5. e = [x \in PswParts |-> e[x]] /\ f = [x \in PswParts |-> f[x]]
  BY <1>4, ZenonT(60) DEF set_word1
<1> HIDE DEF e, f
<1>6. e = f
  BY <1>4, <1>5
<1>7. QED
  BY <1>4, <1>6 DEF c, d, e, f

(* The fields that are no control fields may be loaded by any program.     *)
LEMMA Arithmetic ==
  ASSUME NEW p, DOMAIN p = PswParts, NEW h, NEW w
  PROVE  /\ DOMAIN set_indicators(p, h) = PswParts /\ DOMAIN set_word0(p, w) = PswParts
         /\ \A f \in ControlFields : /\ set_indicators(p, h)[f] = p[f]
                                     /\ set_word0(p, w)[f] = p[f]
  BY DEF PswParts, ControlFields, set_indicators, set_word0
-----------------------------------------------------------------------------
(***************************************************************************)
(* Storage and interrupts.                                                 *)
(***************************************************************************)

(* Sizes; no proof needs more of them.                                     *)
LEMMA Sectors ==
  SECTOR \in Nat /\ SECTOR >= FRAME /\ HW = 2 * SECTOR /\ SIZE = 16 * SECTOR
  BY DEF SECTOR, HW, SIZE, FRAME

LEMMA Stored ==
  ASSUME NEW m, Shape(m), NEW here, NEW a, NEW hs
  PROVE  LET s == StoreAt(m, here, a, hs)
         IN  /\ Shape(s) /\ s.prot = m.prot /\ s.psw = m.psw /\ s.pending = m.pending
             /\ \A x : x \notin here => At(s, x) = At(m, x)
  BY DEF Shape, Parts, StoreAt, At

(* Every old PSW has its place right before the new one.                   *)
IsSlot(old, new) == new \in NewSlots /\ new = old + 4 /\ old \in Nat /\ old + 4 <= 160

LEMMA SystemSlots ==
  ASSUME NEW i \in Levels
  PROVE  IsSlot(SYSTEM_OLD[i], SYSTEM_NEW[i])
<1>1. i \in {1, 2, 3, 4, 5, 6, 7}
  BY DEF Levels
<1>2. /\ SYSTEM_NEW[i] = SYSTEM_OLD[i] + 4
      /\ SYSTEM_OLD[i] \in Nat /\ SYSTEM_OLD[i] + 4 <= 160
  BY <1>1 DEF SYSTEM_OLD, SYSTEM_NEW
<1>3. QED
  BY <1>2 DEF IsSlot, NewSlots

LEMMA OtherSlots ==
  /\ IsSlot(PROGRAM_OLD, PROGRAM_NEW) /\ IsSlot(SVC_OLD, SVC_NEW)
  /\ IsSlot(MONITOR_OLD, MONITOR_NEW)
  BY DEF IsSlot, NewSlots, PROGRAM_OLD, PROGRAM_NEW, SVC_OLD, SVC_NEW,
         MONITOR_OLD, MONITOR_NEW

(* The places of the old PSWs of the levels and of program interrupts are   *)
(* apart from each other and from the new PSW of program interrupts.        *)
LEMMA Apart ==
  ASSUME NEW k \in 1 .. 4
  PROVE  /\ PROGRAM_NEW + k - 1 \notin Span(PROGRAM_OLD, 4)
         /\ \A i \in Levels : /\ PROGRAM_NEW + k - 1 \notin Span(SYSTEM_OLD[i], 4)
                              /\ SYSTEM_OLD[i] + k - 1 \notin Span(PROGRAM_OLD, 4)
         /\ \A i, j \in Levels :
              i # j => SYSTEM_OLD[i] + k - 1 \notin Span(SYSTEM_OLD[j], 4)
<1>1. ASSUME NEW i \in Levels
      PROVE  SYSTEM_OLD[i] = CASE i = 1 -> 96 [] i = 2 -> 104 [] i = 3 -> 120 [] i = 4 -> 128
                               [] i = 5 -> 136 [] i = 6 -> 144 [] i = 7 -> 152
  BY DEF Levels, SYSTEM_OLD
<1>2. \A i \in Levels : i \in {1, 2, 3, 4, 5, 6, 7}
  BY DEF Levels
<1>3. \A i \in Levels : SYSTEM_OLD[i] \in Nat /\ SYSTEM_OLD[i] >= 96
  BY <1>1, <1>2
<1>4. ASSUME NEW i \in Levels, NEW j \in Levels, i # j
      PROVE  SYSTEM_OLD[i] >= SYSTEM_OLD[j] + 8 \/ SYSTEM_OLD[j] >= SYSTEM_OLD[i] + 8
  BY <1>1, <1>2, <1>4
<1>5. \A i, j \in Levels : i # j => SYSTEM_OLD[i] + k - 1 \notin Span(SYSTEM_OLD[j], 4)
  BY <1>3, <1>4 DEF Span
<1>6. QED
  BY <1>3, <1>5 DEF Span, PROGRAM_OLD, PROGRAM_NEW

LEMMA FourHalfwords ==
  ASSUME NEW p, DOMAIN p = PswParts
  PROVE  Len(word0(p) \o word1(p)) = 4 /\ DOMAIN (word0(p) \o word1(p)) = 1 .. 4
<1>1. PICK a, b, c, d : word0(p) = <<a, b>> /\ word1(p) = <<c, d>>
  BY DEF word0, word1
<1>2. <<a, b>> \in Seq({a, b, c, d}) /\ <<c, d>> \in Seq({a, b, c, d})
  OBVIOUS
<1>3. QED
  BY <1>1, <1>2

LEMMA UncodedKeeps ==
  ASSUME NEW p, DOMAIN p = PswParts
  PROVE  DOMAIN Uncoded(p) = PswParts /\ Uncoded(Uncoded(p)) = Uncoded(p)
         /\ \A f \in ControlFields : Uncoded(p)[f] = p[f]
  BY DEF Uncoded, PswParts, ControlFields

(* What a swap does: without a new PSW nothing, else it stores the old one  *)
(* in its place and goes to the handler.                                    *)
Unloaded(m, n) ==
  /\ Shape(n) /\ n.mem = m.mem /\ n.prot = m.prot /\ n.pending = m.pending /\ n.psw = m.psw
Loads(m, old, new, n) ==
  /\ Shape(n) /\ n.prot = m.prot /\ n.pending = m.pending /\ Handles(n, new)
  /\ \A a : a \notin Span(old, 4) => At(n, a) = At(m, a)
  /\ Hs(n, old, 4) = word0(m.psw) \o word1(m.psw)

LEMMA SwapLoads ==
  ASSUME NEW m, Shape(m), NEW old, NEW new, IsSlot(old, new)
  PROVE  LET n == psw_swap(m, old, new) IN Unloaded(m, n) \/ Loads(m, old, new, n)
<1> DEFINE w == Hs(m, new, 4)
           p == set_word1(set_word0(m.psw, SubSeq(w, 1, 2)), SubSeq(w, 3, 4))
           s == [m EXCEPT !.psw = p]
           hs == word0(m.psw) \o word1(m.psw)
           n == Write(s, old, hs)
           here == Span(old, 4)
<1>1. CASE IsZero(w)
  <2>1. Unloaded(m, Trapped(m, "Uninitialized"))
    BY DEF Unloaded, Shape, Parts, Trapped
  <2>2. QED
    BY <1>1, <2>1 DEF psw_swap
<1>2. CASE ~ IsZero(w)
  <2>1. /\ Shape(s) /\ s.psw = p /\ s.mem = m.mem /\ s.prot = m.prot
        /\ s.pending = m.pending
    <3>1. DOMAIN p = PswParts
      BY Loaded DEF Shape
    <3>2. QED
      BY <3>1 DEF Shape, Parts
  <2>2. Len(hs) = 4 /\ DOMAIN hs = 1 .. 4
    BY FourHalfwords DEF Shape
  <2>3. n = StoreAt(s, here, old, hs)
    BY <2>2 DEF Write, Span
  <2>4. \A x : At(s, x) = At(m, x)
    BY <2>1 DEF At
  <2>5. here \subseteq Storage /\ here \cap Storage = here
    <3>1. SIZE \in Nat /\ SIZE >= 160
      BY Sectors DEF FRAME
    <3>2. QED
      BY <3>1 DEF IsSlot, Span, Storage
  <2> HIDE DEF n, s, p, hs, here
  <2>6. /\ Shape(n) /\ n.prot = m.prot /\ n.psw = p /\ n.pending = m.pending
        /\ \A x : x \notin here => At(n, x) = At(m, x)
    BY <2>1, <2>3, <2>4, Stored
  <2>7. \A x \in here : At(n, x) = hs[x - old + 1]
    <3>1. n.mem = [x \in DOMAIN s.mem \cup here |->
                     IF x \in here THEN hs[x - old + 1] ELSE s.mem[x]]
      BY <2>1, <2>3, <2>5 DEF StoreAt, Shape, Parts
    <3>2. QED
      BY <3>1 DEF At
  <2>8. Hs(n, old, 4) = hs
    <3>1. ASSUME NEW k \in 1 .. 4
          PROVE  At(n, old + k - 1) = hs[k]
      <4>1. old + k - 1 \in here /\ (old + k - 1) - old + 1 = k
        BY DEF here, Span, IsSlot
      <4>2. QED
        BY <2>7, <4>1
    <3>2. hs = [k \in 1 .. 4 |-> hs[k]]
      BY <2>2 DEF hs
    <3>3. QED
      BY <3>1, <3>2 DEF Hs
  <2>9. Hs(n, new, 4) = w
    <3>1. ASSUME NEW k \in 1 .. 4
          PROVE  At(n, new + k - 1) = At(m, new + k - 1)
      BY <2>6 DEF IsSlot, here, Span
    <3>2. QED
      BY <3>1 DEF Hs
  <2>10. p = set_word1(set_word0(DefaultPsw, SubSeq(w, 1, 2)), SubSeq(w, 3, 4))
    <3>1. DOMAIN DefaultPsw = PswParts
      BY DEF DefaultPsw, PswParts
    <3>2. QED
      BY <3>1, Loaded DEF Shape, p
  <2>11. Handles(n, new)
    BY <2>6, <2>9, <2>10 DEF Handles, HandlerPsw
  <2>12. Loads(m, old, new, n)
    BY <2>6, <2>8, <2>11 DEF Loads, hs, here
  <2>13. psw_swap(m, old, new) = n
    BY <1>2 DEF psw_swap, n, s, p, hs
  <2>14. QED
    BY <2>12, <2>13
<1>3. QED
  BY <1>1, <1>2

(* The handler of a slot depends on its storage alone.                     *)
LEMMA HandlerSame ==
  ASSUME NEW m, NEW n, NEW new, \A k \in 1 .. 4 : At(n, new + k - 1) = At(m, new + k - 1)
  PROVE  Hs(n, new, 4) = Hs(m, new, 4) /\ HandlerPsw(n, new) = HandlerPsw(m, new)
<1>1. Hs(n, new, 4) = Hs(m, new, 4)
  BY DEF Hs
<1>2. QED
  BY <1>1 DEF HandlerPsw

LEMMA UnloadedInterrupts ==
  ASSUME NEW m, NEW n, Shape(n), n.mem = m.mem, n.prot = m.prot, n.pending \subseteq m.pending,
         Uncoded(n.psw) = Uncoded(m.psw)
  PROVE  Interrupted(m, n)
<1>1. HandlerPsw(n, PROGRAM_NEW) = HandlerPsw(m, PROGRAM_NEW)
  BY HandlerSame DEF At
<1>2. QED
  BY <1>1 DEF Interrupted, Swaps, Handles, ProgramTaken

LEMMA InterruptedSame ==
  ASSUME NEW m, Shape(m)
  PROVE  Interrupted(m, m)
  BY UnloadedInterrupts

(* A swap that is none of a program interrupt nor of a level.              *)
LEMMA SwapSwaps ==
  ASSUME NEW m, Shape(m), NEW old, NEW new, IsSlot(old, new)
  PROVE  Swaps(Span(old, 4), m, psw_swap(m, old, new))
<1> DEFINE n == psw_swap(m, old, new)
<1>1. Unloaded(m, n) \/ Loads(m, old, new, n)
  BY SwapLoads
<1> HIDE DEF n
<1>2. ASSUME Unloaded(m, n)
      PROVE  Swaps(Span(old, 4), m, n)
  BY <1>2 DEF Unloaded, Swaps
<1>3. ASSUME Loads(m, old, new, n)
      PROVE  Swaps(Span(old, 4), m, n)
  BY <1>3 DEF Loads, Swaps, InHandler, IsSlot
<1>4. QED
  BY <1>1, <1>2, <1>3 DEF n

LEMMA ProgramInterrupts ==
  ASSUME NEW m, Shape(m), NEW code
  PROVE  Interrupted(m, program_interrupt(m, code))
<1> DEFINE c == [m EXCEPT !.psw.int_code = code]
           n == psw_swap(c, PROGRAM_OLD, PROGRAM_NEW)
<1>1. /\ Shape(c) /\ c.mem = m.mem /\ c.prot = m.prot /\ c.pending = m.pending
      /\ Uncoded(c.psw) = Uncoded(m.psw)
  BY DEF Shape, Parts, PswParts, Uncoded
<1> HIDE DEF c
<1>2. Unloaded(c, n) \/ Loads(c, PROGRAM_OLD, PROGRAM_NEW, n)
  BY <1>1, OtherSlots, SwapLoads
<1> HIDE DEF n
<1>3. ASSUME Unloaded(c, n)
      PROVE  Interrupted(m, n)
  BY <1>1, <1>3, UnloadedInterrupts DEF Unloaded
<1>4. ASSUME Loads(c, PROGRAM_OLD, PROGRAM_NEW, n)
      PROVE  Interrupted(m, n)
  <2>1. /\ Shape(n) /\ n.prot = m.prot /\ n.pending = m.pending
        /\ Handles(n, PROGRAM_NEW)
        /\ \A a : a \notin Span(PROGRAM_OLD, 4) => At(n, a) = At(m, a)
    BY <1>1, <1>4 DEF Loads, At
  <2>2. ProgramTaken(m, n) /\ Span(PROGRAM_OLD, 4) \subseteq OldPsws(m, n)
    BY <2>1 DEF ProgramTaken, OldPsws
  <2>3. InHandler(n)
    BY <2>1, OtherSlots DEF InHandler, IsSlot
  <2>4. Swaps({}, m, n)
    BY <2>1, <2>2, <2>3 DEF Swaps
  <2>5. QED
    BY <2>2, <2>4 DEF Interrupted
<1>5. QED
  BY <1>2, <1>3, <1>4 DEF c, n, program_interrupt

LEMMA LevelInterrupts ==
  ASSUME NEW m, Shape(m), NEW i \in Levels
  PROVE  Interrupted(m, TakeLevel(m, i))
<1> DEFINE c == Cleared(m, i)
           n == psw_swap(c, SYSTEM_OLD[i], SYSTEM_NEW[i])
<1>1. CASE ~ (i \in m.pending /\ TakeLevel(m, i) = n)
  <2>1. TakeLevel(m, i) = m
    BY <1>1 DEF TakeLevel
  <2>2. QED
    BY <2>1, InterruptedSame
<1>2. CASE i \in m.pending /\ TakeLevel(m, i) = n
  <2>1. /\ Shape(c) /\ c.mem = m.mem /\ c.prot = m.prot /\ c.pending = m.pending \ {i}
        /\ c.psw = Uncoded(m.psw)
    BY DEF Cleared, Shape, Parts, PswParts, Uncoded
  <2> HIDE DEF c
  <2>2. Unloaded(c, n) \/ Loads(c, SYSTEM_OLD[i], SYSTEM_NEW[i], n)
    BY <2>1, SystemSlots, SwapLoads
  <2> HIDE DEF n
  <2>3. CASE Unloaded(c, n)
    <3>1. Uncoded(n.psw) = Uncoded(m.psw)
      BY <2>1, <2>3, UncodedKeeps DEF Unloaded, Shape
    <3>2. QED
      BY <1>2, <2>1, <2>3, <3>1, UnloadedInterrupts DEF Unloaded
  <2>4. CASE Loads(c, SYSTEM_OLD[i], SYSTEM_NEW[i], n)
    <3>1. /\ Shape(n) /\ n.prot = m.prot /\ n.pending = m.pending \ {i}
          /\ Handles(n, SYSTEM_NEW[i])
          /\ \A a : a \notin Span(SYSTEM_OLD[i], 4) => At(n, a) = At(m, a)
          /\ Hs(n, SYSTEM_OLD[i], 4) = word0(Uncoded(m.psw)) \o word1(Uncoded(m.psw))
      BY <2>1, <2>4 DEF Loads, At
    <3>2. i \in LevelsTaken(m, n)
      BY <1>2, <3>1 DEF LevelsTaken
    <3>3. Span(SYSTEM_OLD[i], 4) \subseteq OldPsws(m, n)
      BY <3>2 DEF OldPsws
    <3>4. InHandler(n)
      BY <3>1, SystemSlots DEF InHandler, IsSlot
    <3>5. HandlerPsw(n, PROGRAM_NEW) = HandlerPsw(m, PROGRAM_NEW)
      <4>1. Hs(n, PROGRAM_NEW, 4) = Hs(m, PROGRAM_NEW, 4)
        BY <3>1, Apart DEF Hs
      <4>2. QED
        BY <4>1 DEF HandlerPsw
    <3>6. Handles(m, PROGRAM_NEW) => ProgramTaken(m, n)
      BY <3>1, <3>2, <3>5 DEF Handles, ProgramTaken
    <3>7. QED
      BY <1>2, <3>1, <3>3, <3>4, <3>6 DEF Interrupted, Swaps
  <2>5. QED
    BY <2>2, <2>3, <2>4
<1>3. QED
  BY <1>1, <1>2

(* A program interrupt that was taken leaves its mark: later interrupts of  *)
(* the step change neither its new PSW nor the old PSW that shows it.       *)
LEMMA MarkLasts ==
  ASSUME NEW m, NEW n, NEW o, n.pending \subseteq m.pending, Interrupted(n, o)
  PROVE  /\ LevelsTaken(m, n) \subseteq LevelsTaken(m, o)
         /\ LevelsTaken(n, o) \subseteq LevelsTaken(m, o)
         /\ ProgramTaken(m, n) => ProgramTaken(m, o)
         /\ ProgramTaken(n, o) => ProgramTaken(m, o)
<1>1. /\ LevelsTaken(m, n) \subseteq LevelsTaken(m, o)
      /\ LevelsTaken(n, o) \subseteq LevelsTaken(m, o)
  BY DEF Interrupted, Swaps, LevelsTaken
<1>2. ProgramTaken(n, o) => ProgramTaken(m, o)
  BY <1>1 DEF ProgramTaken
<1>3. ASSUME Handles(n, PROGRAM_NEW)
      PROVE  ProgramTaken(m, o)
  BY <1>2, <1>3 DEF Interrupted
<1>4. ASSUME NEW i \in LevelsTaken(m, n), NEW p, p = HandlerPsw(n, PROGRAM_NEW),
             Hs(n, SYSTEM_OLD[i], 4) = word0(p) \o word1(p)
      PROVE  ProgramTaken(m, o)
  <2>1. i \in Levels /\ i \notin n.pending
    BY DEF LevelsTaken
  <2>2. ASSUME NEW k \in 1 .. 4
        PROVE  /\ PROGRAM_NEW + k - 1 \notin OldPsws(n, o)
               /\ SYSTEM_OLD[i] + k - 1 \notin OldPsws(n, o)
    <3>1. \A j \in LevelsTaken(n, o) : j \in Levels /\ j # i
      BY <2>1 DEF LevelsTaken
    <3>2. QED
      BY <2>1, <3>1, Apart DEF OldPsws
  <2>3. \A a : a \notin OldPsws(n, o) => At(o, a) = At(n, a)
    BY DEF Interrupted, Swaps, At
  <2>4. Hs(o, PROGRAM_NEW, 4) = Hs(n, PROGRAM_NEW, 4)
    BY <2>2, <2>3 DEF Hs
  <2>5. Hs(o, SYSTEM_OLD[i], 4) = Hs(n, SYSTEM_OLD[i], 4)
    BY <2>2, <2>3 DEF Hs
  <2>6. HandlerPsw(o, PROGRAM_NEW) = HandlerPsw(n, PROGRAM_NEW)
    BY <2>4 DEF HandlerPsw
  <2>7. QED
    BY <1>1, <1>4, <2>5, <2>6 DEF ProgramTaken
<1>5. QED
  BY <1>1, <1>2, <1>3, <1>4 DEF ProgramTaken

LEMMA SwapsTransitive ==
  ASSUME NEW K, NEW m, NEW n, NEW o, Swaps(K, m, n), Interrupted(n, o)
  PROVE  Swaps(K, m, o)
<1>1. /\ Shape(o) /\ o.prot = m.prot /\ o.pending \subseteq m.pending
      /\ n.pending \subseteq m.pending
  BY DEF Interrupted, Swaps
<1>2. OldPsws(m, n) \subseteq OldPsws(m, o) /\ OldPsws(n, o) \subseteq OldPsws(m, o)
  BY <1>1, MarkLasts DEF OldPsws
<1>3. CASE o.mem = n.mem /\ Uncoded(o.psw) = Uncoded(n.psw)
  <2>1. \A a, k : At(o, a) = At(n, a) /\ Hs(o, a, k) = Hs(n, a, k)
    BY <1>3 DEF At, Hs
  <2>2. InHandler(n) => InHandler(o)
    BY <1>3, <2>1 DEF InHandler, Handles, HandlerPsw
  <2>3. QED
    BY <1>1, <1>2, <1>3, <2>1, <2>2 DEF Swaps
<1>4. CASE InHandler(o) /\ \A a : a \notin OldPsws(n, o) => At(o, a) = At(n, a)
  <2>1. ASSUME NEW a, a \notin K \cup OldPsws(m, o)
        PROVE  At(o, a) = At(m, a)
    <3>1. At(o, a) = At(n, a)
      BY <1>2, <1>4, <2>1
    <3>2. At(n, a) = At(m, a)
      BY <1>2, <2>1 DEF Swaps, At
    <3>3. QED
      BY <3>1, <3>2
  <2>2. QED
    BY <1>1, <1>4, <2>1 DEF Swaps
<1>5. QED
  BY <1>3, <1>4 DEF Interrupted, Swaps

LEMMA InterruptedTransitive ==
  ASSUME NEW m, NEW n, NEW o, Interrupted(m, n), Interrupted(n, o)
  PROVE  Interrupted(m, o)
<1>1. Swaps({}, m, n) /\ n.pending \subseteq m.pending
  BY DEF Interrupted, Swaps
<1>2. Swaps({}, m, o)
  BY <1>1, SwapsTransitive
<1>3. Handles(m, PROGRAM_NEW) => ProgramTaken(m, o)
  BY <1>1, MarkLasts DEF Interrupted
<1>4. QED
  BY <1>2, <1>3 DEF Interrupted

LEMMA DeliverInterrupts ==
  ASSUME NEW m, Shape(m)
  PROVE  Interrupted(m, deliver_system_interrupts(m))
<1>1. ASSUME NEW n, Interrupted(m, n), NEW i \in Levels
      PROVE  Interrupted(m, TakeLevel(n, i))
  <2>1. Interrupted(n, TakeLevel(n, i))
    BY <1>1, LevelInterrupts DEF Interrupted, Swaps
  <2>2. QED
    BY <1>1, <2>1, InterruptedTransitive
<1>2. /\ 1 \in Levels /\ 2 \in Levels /\ 3 \in Levels /\ 4 \in Levels
      /\ 5 \in Levels /\ 6 \in Levels /\ 7 \in Levels
  BY DEF Levels
<1> DEFINE m1 == TakeLevel(m, 1)
           m2 == TakeLevel(m1, 2)
           m3 == TakeLevel(m2, 3)
           m4 == TakeLevel(m3, 4)
           m5 == TakeLevel(m4, 5)
           m6 == TakeLevel(m5, 6)
<1>3. Interrupted(m, m1)
  BY <1>2, LevelInterrupts
<1> HIDE DEF m1
<1>4. Interrupted(m, m2)
  BY <1>1, <1>2, <1>3
<1> HIDE DEF m2
<1>5. Interrupted(m, m3)
  BY <1>1, <1>2, <1>4
<1> HIDE DEF m3
<1>6. Interrupted(m, m4)
  BY <1>1, <1>2, <1>5
<1> HIDE DEF m4
<1>7. Interrupted(m, m5)
  BY <1>1, <1>2, <1>6
<1> HIDE DEF m5
<1>8. Interrupted(m, m6)
  BY <1>1, <1>2, <1>7
<1> HIDE DEF m6
<1>9. Interrupted(m, TakeLevel(m6, 7))
  BY <1>1, <1>2, <1>8
<1>10. QED
  BY <1>9 DEF m1, m2, m3, m4, m5, m6, deliver_system_interrupts
-----------------------------------------------------------------------------
(***************************************************************************)
(* What instructions do to a machine.                                      *)
(***************************************************************************)

(* A body of an instruction keeps protected storage, protection and        *)
(* control fields, up to an interrupt that it ends in.                     *)
Keeps(m, n) == Framed({}, m, n)
Obeys(m, n) == \E c : Keeps(m, c) /\ Interrupted(c, n)

LEMMA KeepsShape ==
  ASSUME NEW m, NEW n, Keeps(m, n)
  PROVE  Shape(n)
  BY DEF Keeps, Framed

LEMMA KeepsSame ==
  ASSUME NEW m, Shape(m)
  PROVE  Keeps(m, m)
  BY DEF Keeps, Framed

LEMMA KeepsTransitive ==
  ASSUME NEW m, NEW n, NEW o, Keeps(m, n), Keeps(n, o)
  PROVE  Keeps(m, o)
  BY DEF Keeps, Framed

LEMMA KeepsObeys ==
  ASSUME NEW m, NEW n, Keeps(m, n)
  PROVE  Obeys(m, n)
  BY KeepsShape, InterruptedSame DEF Obeys

LEMMA ObeysTransitive ==
  ASSUME NEW m, NEW n, NEW o, Keeps(m, n), Obeys(n, o)
  PROVE  Obeys(m, o)
  BY KeepsTransitive DEF Obeys

LEMMA InterruptObeys ==
  ASSUME NEW m, NEW n, Keeps(m, n), NEW code
  PROVE  Obeys(m, program_interrupt(n, code))
  BY KeepsShape, ProgramInterrupts DEF Obeys

(* A machine with the same storage, protection and control fields.         *)
LEMMA KeepsParts ==
  ASSUME NEW m, NEW n, Shape(n), n.mem = m.mem, n.prot = m.prot, n.pending = m.pending,
         \A f \in ControlFields : n.psw[f] = m.psw[f]
  PROVE  Keeps(m, n)
  BY DEF Keeps, Framed, At

(* Registers.                                                              *)
LEMMA SetRKeeps ==
  ASSUME NEW m, Shape(m), NEW k, NEW w
  PROVE  Keeps(m, SetR(m, k, w))
<1>1. LET s == SetR(m, k, w)
      IN  Shape(s) /\ s.mem = m.mem /\ s.prot = m.prot /\ s.pending = m.pending /\ s.psw = m.psw
  BY DEF Shape, Parts, SetR
<1>2. QED
  BY <1>1, KeepsParts

LEMMA HalvesKeep ==
  ASSUME NEW m, Shape(m), NEW k, NEW h
  PROVE  Keeps(m, SetUpper(m, k, h)) /\ Keeps(m, SetLower(m, k, h))
  BY SetRKeeps DEF SetUpper, SetLower

LEMMA SetPairKeeps ==
  ASSUME NEW m, Shape(m), NEW k, NEW hs
  PROVE  Keeps(m, SetPair(m, k, hs))
  BY SetRKeeps, KeepsShape, KeepsTransitive DEF SetPair

(* Fields of the PSW that are no control fields.                           *)
LEMMA SetCCKeeps ==
  ASSUME NEW m, Shape(m), NEW cc
  PROVE  Keeps(m, SetCC(m, cc))
<1>1. LET s == SetCC(m, cc)
      IN  /\ Shape(s) /\ s.mem = m.mem /\ s.prot = m.prot /\ s.pending = m.pending
          /\ \A f \in ControlFields : s.psw[f] = m.psw[f]
  BY DEF Shape, Parts, PswParts, ControlFields, SetCC
<1>2. QED
  BY <1>1, KeepsParts

LEMMA CarryKeeps ==
  ASSUME NEW m, Shape(m), NEW on
  PROVE  Keeps(m, SetCarry(m, on))
<1>1. LET s == SetCarry(m, on)
      IN  /\ Shape(s) /\ s.mem = m.mem /\ s.prot = m.prot /\ s.pending = m.pending
          /\ \A f \in ControlFields : s.psw[f] = m.psw[f]
  BY DEF Shape, Parts, PswParts, ControlFields, SetCarry
<1>2. QED
  BY <1>1, KeepsParts

LEMMA OverflowKeeps ==
  ASSUME NEW m, Shape(m), NEW on
  PROVE  Keeps(m, SetOverflow(m, on))
<1>1. LET s == SetOverflow(m, on)
      IN  /\ Shape(s) /\ s.mem = m.mem /\ s.prot = m.prot /\ s.pending = m.pending
          /\ \A f \in ControlFields : s.psw[f] = m.psw[f]
  BY DEF Shape, Parts, PswParts, ControlFields, SetOverflow
<1>2. QED
  BY <1>1, KeepsParts

LEMMA JumpKeeps ==
  ASSUME NEW m, Shape(m), NEW ic, NEW taken
  PROVE  Keeps(m, Jump(m, ic)) /\ Keeps(m, JumpIf(m, taken, ic))
<1>1. LET s == Jump(m, ic)
      IN  /\ Shape(s) /\ s.mem = m.mem /\ s.prot = m.prot /\ s.pending = m.pending
          /\ \A f \in ControlFields : s.psw[f] = m.psw[f]
  BY DEF Shape, Parts, PswParts, ControlFields, Jump
<1>2. QED
  BY <1>1, KeepsParts, KeepsSame DEF JumpIf

LEMMA LoadAllKeeps ==
  ASSUME NEW m, Shape(m), NEW a
  PROVE  Keeps(m, LoadAll(m, a))
<1>1. LET s == LoadAll(m, a)
      IN  /\ Shape(s) /\ s.mem = m.mem /\ s.prot = m.prot /\ s.pending = m.pending
          /\ s.psw = m.psw
  BY DEF Shape, Parts, LoadAll
<1>2. QED
  BY <1>1, KeepsParts

LEMMA TrappedKeeps ==
  ASSUME NEW m, Shape(m), NEW why
  PROVE  Keeps(m, Trapped(m, why))
<1>1. LET s == Trapped(m, why)
      IN  Shape(s) /\ s.mem = m.mem /\ s.prot = m.prot /\ s.pending = m.pending /\ s.psw = m.psw
  BY DEF Shape, Parts, Trapped
<1>2. QED
  BY <1>1, KeepsParts

(* Stores.                                                                 *)
LEMMA StoreAtKeeps ==
  ASSUME NEW m, Shape(m), NEW here, m.prot \cap here = {}, NEW a, NEW hs
  PROVE  Keeps(m, StoreAt(m, here, a, hs))
<1> DEFINE s == StoreAt(m, here, a, hs)
<1>1. /\ Shape(s) /\ s.prot = m.prot /\ s.psw = m.psw /\ s.pending = m.pending
      /\ \A x : x \notin here => At(s, x) = At(m, x)
  BY Stored
<1> HIDE DEF s
<1>2. Keeps(m, s)
  BY <1>1 DEF Keeps, Framed
<1>3. QED
  BY <1>2 DEF s

LEMMA StoreObeys ==
  ASSUME NEW m, Shape(m), NEW a, NEW hs, NEW cc
  PROVE  Obeys(m, Store(m, a, hs, cc))
<1> DEFINE c == SetCC(m, cc)
           s == Write(c, a, hs)
           here == Span(a, Len(hs))
<1>1. CASE Refused(m, here)
  BY <1>1, KeepsSame, InterruptObeys DEF Store
<1>2. CASE ~ Refused(m, here)
  <2>1. Keeps(m, c) /\ Shape(c) /\ c.prot = m.prot
    BY SetCCKeeps DEF Keeps, Framed
  <2> HIDE DEF c
  <2>2. Keeps(c, s)
    BY <1>2, <2>1, StoreAtKeeps DEF Write, Refused
  <2>3. Obeys(m, s)
    BY <2>1, <2>2, KeepsTransitive, KeepsObeys
  <2>4. QED
    BY <1>2, <2>3 DEF c, Store, SetCC
<1>3. QED
  BY <1>1, <1>2

LEMMA StoreRunObeys ==
  ASSUME NEW m, Shape(m), NEW a, NEW hs
  PROVE  /\ Obeys(m, StoreRun(m, a, hs))
         /\ ~ RefusedRun(m, a, hs) => Keeps(m, StoreRun(m, a, hs))
<1> DEFINE free == {k \in 0 .. Len(hs) \div 2 - 1 :
                      \A j \in 0 .. k : ~ Refused(m, Span(a + 2 * j, 2))}
           here == UNION {Span(a + 2 * k, 2) : k \in free}
           s == StoreAt(m, here, a, hs)
<1>1. ASSUME NEW k \in free
      PROVE  m.prot \cap Span(a + 2 * k, 2) = {}
  <2>1. k \in 0 .. k
    OBVIOUS
  <2>2. QED
    BY <2>1 DEF Refused
<1>2. m.prot \cap here = {}
  BY <1>1
<1>3. Keeps(m, s)
  BY <1>2, StoreAtKeeps
<1>4. StoreRun(m, a, hs) = IF RefusedRun(m, a, hs) THEN program_interrupt(s, STORE_PROTECT) ELSE s
  BY DEF StoreRun
<1> HIDE DEF s
<1>5. QED
  BY <1>3, <1>4, KeepsObeys, InterruptObeys

-----------------------------------------------------------------------------
(***************************************************************************)
(* The instructions (Instructions, Control, FloatUnit), one family at a    *)
(* time.                                                                   *)
(***************************************************************************)

LEMMA AddSubtractObeys ==
  ASSUME NEW m, Shape(m), NEW d, NEW e
  PROVE  Obeys(m, add_subtract(m, d, e))
<1>1. ASSUME NEW r, NEW cc
      PROVE  LET f == SetOverflow(SetCarry(m, r.carry), r.overflow)
             IN  /\ Obeys(m, Store(f, e.addr, r.v, cc))
                 /\ Obeys(m, SetCC(SetR(f, d.r1, r.v), cc))
  <2> DEFINE c == SetCarry(m, r.carry)
             f == SetOverflow(c, r.overflow)
             g == SetR(f, d.r1, r.v)
  <2>1. Keeps(m, c)
    BY CarryKeeps
  <2> HIDE DEF c
  <2>2. Keeps(m, f)
    BY <2>1, KeepsShape, OverflowKeeps, KeepsTransitive
  <2> HIDE DEF f
  <2>3. Keeps(m, g)
    BY <2>2, KeepsShape, SetRKeeps, KeepsTransitive
  <2>4. Obeys(m, Store(f, e.addr, r.v, cc))
    BY <2>2, KeepsShape, StoreObeys, ObeysTransitive
  <2> HIDE DEF g
  <2>5. Obeys(m, SetCC(g, cc))
    BY <2>3, KeepsShape, SetCCKeeps, KeepsTransitive, KeepsObeys
  <2>6. QED
    BY <2>4, <2>5 DEF c, f, g
<1>2. PICK r, cc :
        LET f == SetOverflow(SetCarry(m, r.carry), r.overflow)
        IN  add_subtract(m, d, e) \in {Store(f, e.addr, r.v, cc), SetCC(SetR(f, d.r1, r.v), cc)}
  BY DEF add_subtract
<1>3. QED
  BY <1>1, <1>2

LEMMA CompareFixedObeys ==
  ASSUME NEW m, Shape(m), NEW d, NEW e
  PROVE  Obeys(m, compare_fixed(m, d, e))
  BY SetCCKeeps, KeepsObeys DEF compare_fixed

LEMMA CompareLimitsObeys ==
  ASSUME NEW m, Shape(m), NEW d
  PROVE  Obeys(m, compare_limits(m, d))
<1>1. ASSUME NEW cc, NEW v, NEW w
      PROVE  Keeps(m, SetR(SetR(SetCC(m, cc), d.r1, v), d.operand.r2, w))
  BY SetCCKeeps, SetRKeeps, KeepsShape, KeepsTransitive
<1>2. \/ compare_limits(m, d) = Trapped(m, "Address")
      \/ \E cc, v, w : compare_limits(m, d) = SetR(SetR(SetCC(m, cc), d.r1, v), d.operand.r2, w)
  BY DEF compare_limits
<1>3. QED
  BY <1>1, <1>2, TrappedKeeps, KeepsObeys

LEMMA MultiplyFixedObeys ==
  ASSUME NEW m, Shape(m), NEW d, NEW e
  PROVE  Obeys(m, multiply_fixed(m, d, e))
<1>1. ASSUME NEW on, NEW hs
      PROVE  /\ Keeps(m, SetR(SetOverflow(m, on), d.r1, hs))
             /\ Keeps(m, SetPair(SetOverflow(m, on), d.r1, hs))
  BY OverflowKeeps, SetRKeeps, SetPairKeeps, KeepsShape, KeepsTransitive
<1>2. \E on, hs : multiply_fixed(m, d, e) \in {SetR(SetOverflow(m, on), d.r1, hs),
                                                SetPair(SetOverflow(m, on), d.r1, hs)}
  BY DEF multiply_fixed
<1>3. QED
  BY <1>1, <1>2, KeepsObeys

LEMMA DivideFixedObeys ==
  ASSUME NEW m, Shape(m), NEW d, NEW e
  PROVE  Obeys(m, divide_frac(m, d, e))
<1>1. \E w : divide_frac(m, d, e) \in {SetOverflow(m, TRUE), SetR(m, d.r1, w)}
  BY DEF divide_frac
<1>2. QED
  BY <1>1, OverflowKeeps, SetRKeeps, KeepsObeys

LEMMA MoveObeys ==
  ASSUME NEW m, Shape(m), NEW d, NEW e
  PROVE  Obeys(m, move(m, d, e))
<1>1. ASSUME NEW n, Keeps(m, n), NEW w, NEW cc
      PROVE  Keeps(m, SetR(n, d.r1, w)) /\ Keeps(m, SetCC(SetR(n, d.r1, w), cc))
  BY <1>1, SetRKeeps, SetCCKeeps, KeepsShape, KeepsTransitive
<1>2. ASSUME NEW on, NEW carry
      PROVE  Keeps(m, SetCarry(SetOverflow(m, on), carry))
  BY OverflowKeeps, CarryKeeps, KeepsShape, KeepsTransitive
<1>3. \A a : Keeps(m, LoadAll(m, a))
  BY LoadAllKeeps
<1>4. ASSUME NEW k, NEW h, NEW l, NEW g
      PROVE  Keeps(m, SetLower(SetUpper(m, k, h), l, g)) /\ Keeps(m, SetLower(m, k, h))
  BY HalvesKeep, KeepsShape, KeepsTransitive
<1>5. \/ \E k, h, l, g : move(m, d, e) \in {SetLower(SetUpper(m, k, h), l, g), SetLower(m, k, h)}
      \/ \E a : move(m, d, e) = LoadAll(m, a)
      \/ \E w, cc : move(m, d, e) \in {SetR(m, d.r1, w), SetCC(SetR(m, d.r1, w), cc)}
      \/ \E on, carry, w, cc :
           move(m, d, e) = SetCC(SetR(SetCarry(SetOverflow(m, on), carry), d.r1, w), cc)
  BY DEF move
<1>6. QED
  BY <1>1, <1>2, <1>3, <1>4, <1>5, KeepsSame, KeepsObeys

LEMMA StoreDataObeys ==
  ASSUME NEW m, Shape(m), NEW d, NEW e
  PROVE  Obeys(m, store_data(m, d, e))
<1>1. \E hs : store_data(m, d, e) \in {StoreRun(m, e.addr, hs), Store(m, e.addr, hs, m.psw.cc)}
  BY DEF store_data
<1>2. QED
  BY <1>1, StoreRunObeys, StoreObeys

LEMMA ModifyStorageObeys ==
  ASSUME NEW m, Shape(m), NEW d, NEW e
  PROVE  Obeys(m, modify_storage(m, d, e))
<1>1. ASSUME NEW cc, NEW r, NEW c2
      PROVE  Obeys(m, Store(SetCC(m, cc), e.addr, r, c2))
  BY SetCCKeeps, KeepsShape, StoreObeys, ObeysTransitive
<1>2. \E cc, r, c2 : modify_storage(m, d, e) \in {Store(SetCC(m, cc), e.addr, r, c2),
                                                   Store(m, e.addr, r, c2)}
  BY DEF modify_storage
<1>3. QED
  BY <1>1, <1>2, StoreObeys

LEMMA LogicalObeys ==
  ASSUME NEW m, Shape(m), NEW d, NEW e
  PROVE  Obeys(m, logical(m, d, e))
<1>1. ASSUME NEW r, NEW cc
      PROVE  Keeps(m, SetCC(SetR(m, d.r1, r), cc))
  BY SetRKeeps, SetCCKeeps, KeepsShape, KeepsTransitive
<1>2. \E r, cc : logical(m, d, e) \in {Store(m, e.addr, r, cc), SetCC(SetR(m, d.r1, r), cc)}
  BY DEF logical
<1>3. QED
  BY <1>1, <1>2, StoreObeys, KeepsObeys

LEMMA TestObeys ==
  ASSUME NEW m, Shape(m), NEW d, NEW e
  PROVE  Obeys(m, test(m, d, e))
  BY SetCCKeeps, KeepsObeys DEF test

LEMMA SearchObeys ==
  ASSUME NEW m, Shape(m), NEW d
  PROVE  Obeys(m, search_under_mask(m, d))
<1>1. ASSUME NEW h, NEW cc
      PROVE  Keeps(m, SetCC(SetUpper(m, d.r1, h), cc))
  BY HalvesKeep, SetCCKeeps, KeepsShape, KeepsTransitive
<1>2. \E h, cc : search_under_mask(m, d) = SetCC(SetUpper(m, d.r1, h), cc)
  BY DEF search_under_mask
<1>3. QED
  BY <1>1, <1>2, KeepsObeys

LEMMA NormalizeObeys ==
  ASSUME NEW m, Shape(m), NEW d
  PROVE  Obeys(m, normalize_and_count(m, d))
<1>1. ASSUME NEW n, Keeps(m, n), NEW on
      PROVE  Keeps(m, SetCarry(n, on))
  BY <1>1, CarryKeeps, KeepsShape, KeepsTransitive
<1>2. ASSUME NEW k, NEW v, NEW w
      PROVE  Keeps(m, SetR(SetR(m, k, v), d.r1, w)) /\ Keeps(m, SetR(m, d.r1, w))
  BY SetRKeeps, KeepsShape, KeepsTransitive
<1>3. \/ \E w : normalize_and_count(m, d) = SetCarry(SetR(m, d.r1, w), FALSE)
      \/ \E k, v, w :
           normalize_and_count(m, d) = SetCarry(SetR(SetR(m, k, v), d.r1, w), TRUE)
  BY DEF normalize_and_count
<1>4. QED
  BY <1>1, <1>2, <1>3, KeepsObeys

LEMMA ShiftObeys ==
  ASSUME NEW m, Shape(m), NEW d
  PROVE  Obeys(m, shift(m, d))
<1>1. ASSUME NEW n, Keeps(m, n), NEW on
      PROVE  Keeps(m, SetCarry(n, on))
  BY <1>1, CarryKeeps, KeepsShape, KeepsTransitive
<1>2. \/ shift(m, d) = m
      \/ \E r : \E n \in {SetPair(m, d.r1, r), SetR(m, d.r1, r)} :
           shift(m, d) = n \/ \E on : shift(m, d) = SetCarry(n, on)
  BY DEF shift
<1>3. QED
  BY <1>1, <1>2, SetRKeeps, SetPairKeeps, KeepsSame, KeepsObeys

(* Branches.                                                               *)
LEMMA BranchAndLinkObeys ==
  ASSUME NEW m, Shape(m), NEW d, NEW e
  PROVE  Obeys(m, branch_and_link(m, d, e))
<1>1. ASSUME NEW w, NEW taken, NEW ic
      PROVE  Keeps(m, JumpIf(SetR(m, d.r1, w), taken, ic))
  BY SetRKeeps, JumpKeeps, KeepsShape, KeepsTransitive
<1>2. \E w, taken, ic : branch_and_link(m, d, e) = JumpIf(SetR(m, d.r1, w), taken, ic)
  BY DEF branch_and_link
<1>3. QED
  BY <1>1, <1>2, KeepsObeys

LEMMA BranchOnConditionObeys ==
  ASSUME NEW m, Shape(m), NEW d, NEW e
  PROVE  Obeys(m, branch_condition(m, d, e))
<1>1. ASSUME NEW bsr, NEW dsr, NEW ic
      PROVE  Keeps(m, Jump([m EXCEPT !.psw.bsr = bsr, !.psw.dsr = dsr], ic))
  <2> DEFINE s == [m EXCEPT !.psw.bsr = bsr, !.psw.dsr = dsr]
  <2>1. /\ Shape(s) /\ s.mem = m.mem /\ s.prot = m.prot /\ s.pending = m.pending
        /\ \A f \in ControlFields : s.psw[f] = m.psw[f]
    BY DEF Shape, Parts, PswParts, ControlFields
  <2> HIDE DEF s
  <2>2. Keeps(m, Jump(s, ic))
    BY <2>1, KeepsParts, JumpKeeps, KeepsTransitive
  <2>3. QED
    BY <2>2 DEF s
<1>2. \/ \E bsr, dsr, ic :
           branch_condition(m, d, e) = Jump([m EXCEPT !.psw.bsr = bsr, !.psw.dsr = dsr], ic)
      \/ \E taken, ic : branch_condition(m, d, e) = JumpIf(m, taken, ic)
  BY DEF branch_condition
<1>3. QED
  BY <1>1, <1>2, JumpKeeps, KeepsObeys

LEMMA BranchOnCountObeys ==
  ASSUME NEW m, Shape(m), NEW d, NEW e
  PROVE  Obeys(m, branch_count(m, d, e))
<1>1. ASSUME NEW n, Keeps(m, n), NEW taken, NEW ic
      PROVE  Keeps(m, JumpIf(n, taken, ic))
  BY <1>1, JumpKeeps, KeepsShape, KeepsTransitive
<1>2. \E w, taken, ic : branch_count(m, d, e) \in {JumpIf(SetR(m, d.r1, w), taken, ic),
                                                    JumpIf(SetUpper(m, d.r1, w), taken, ic)}
  BY DEF branch_count
<1>3. QED
  BY <1>1, <1>2, SetRKeeps, HalvesKeep, KeepsObeys

LEMMA BranchOnIndicatorsObeys ==
  ASSUME NEW m, Shape(m), NEW d, NEW e
  PROVE  Obeys(m, branch_indicators(m, d, e))
<1> DEFINE s == [m EXCEPT !.psw.overflow = FALSE]
<1>1. /\ Shape(s) /\ s.mem = m.mem /\ s.prot = m.prot /\ s.pending = m.pending
      /\ \A f \in ControlFields : s.psw[f] = m.psw[f]
  BY DEF Shape, Parts, PswParts, ControlFields
<1>2. \E taken, ic : branch_indicators(m, d, e) = JumpIf(s, taken, ic)
  BY DEF branch_indicators
<1> HIDE DEF s
<1>3. \A taken, ic : Keeps(m, JumpIf(s, taken, ic))
  BY <1>1, KeepsParts, JumpKeeps, KeepsTransitive
<1>4. QED
  BY <1>2, <1>3, KeepsObeys

(* Block moves, the calling sequence, extensions, input and output.        *)
LEMMA MoveHalfwordsObeys ==
  ASSUME NEW m, Shape(m), NEW d
  PROVE  Obeys(m, move_halfwords(m, d))
<1>1. ASSUME NEW here, m.prot \cap here = {}, NEW a, NEW hs, NEW k, NEW ic
      PROVE  LET s == SetLower(StoreAt(m, here, a, hs), d.r1, k)
             IN  Keeps(m, s) /\ Keeps(m, Jump(s, ic))
  BY <1>1, StoreAtKeeps, HalvesKeep, JumpKeeps, KeepsShape, KeepsTransitive
<1> DEFINE to == SECTOR * SectorOf(m, d.r1) + (Upper(m, d.r1) % SECTOR)
           count == Signed(Lower(m, d.r1))
           blocked == {c \in 0 .. count - 1 : Refused(m, {to + c})}
           free == {c \in 0 .. count - 1 : \A b \in blocked : b < c}
           here == {to + c : c \in free}
           from == SECTOR * (IF Upper(m, d.operand.r2) >= SECTOR
                             THEN Lower(m, d.operand.r2) % 16 ELSE 0)
                     + (Upper(m, d.operand.r2) % SECTOR)
           Source(c) == IF from > to THEN count - 1 - ((count - 1 - c) % (from - to)) ELSE c
           block == [k \in 1 .. count |-> At(m, from + Source(k - 1))]
           stop == IF blocked = {} THEN 0 ELSE Max(blocked) + 1
           moved == SetLower(StoreAt(m, here, to, block), d.r1, stop)
<1>2. ASSUME NEW c \in free
      PROVE  m.prot \cap {to + c} = {}
  BY DEF Refused
<1>3. m.prot \cap here = {}
  BY <1>2
<1>4. \/ move_halfwords(m, d) \in {m, Trapped(m, "Address")}
      \/ move_halfwords(m, d) \in {moved, program_interrupt(Again(moved, d), STORE_PROTECT)}
  BY DEF move_halfwords
<1> HIDE DEF here, block, stop
<1>5. Keeps(m, moved) /\ Keeps(m, Again(moved, d))
  BY <1>1, <1>3 DEF Again
<1> HIDE DEF moved
<1>6. QED
  BY <1>4, <1>5, KeepsSame, TrappedKeeps, KeepsObeys, InterruptObeys

LEMMA CallObeys ==
  ASSUME NEW m, Shape(m), NEW d, NEW e
  PROVE  Obeys(m, call(m, d, e))
<1> DEFINE off == (R(m, d.r1)[1] + R(m, d.r1)[2]) % SECTOR
           frame == SECTOR * SectorOf(m, d.r1) + off
           hs == word0(m.psw) \o Registers(m)
           saved == StoreRun(m, frame, hs)
<1>1. CASE RefusedRun(m, frame, hs) \/ saved.trap # "None"
  BY <1>1, StoreRunObeys DEF call
<1>2. CASE ~ (RefusedRun(m, frame, hs) \/ saved.trap # "None")
  <2>1. \E w, ic : call(m, d, e) = Jump(SetR(saved, d.r1, w), ic)
    BY <1>2 DEF call
  <2>2. Keeps(m, saved)
    BY <1>2, StoreRunObeys
  <2> HIDE DEF saved
  <2>3. \A w, ic : Keeps(m, Jump(SetR(saved, d.r1, w), ic))
    BY <2>2, SetRKeeps, JumpKeeps, KeepsShape, KeepsTransitive
  <2>4. QED
    BY <2>1, <2>3, KeepsObeys
<1>3. QED
  BY <1>1, <1>2

LEMMA ReturnObeys ==
  ASSUME NEW m, Shape(m), NEW d
  PROVE  Obeys(m, return(m, d))
<1>1. ASSUME NEW word, NEW a
      PROVE  Keeps(m, LoadAll([m EXCEPT !.psw = set_word0(@, word)], a))
  <2> DEFINE s == [m EXCEPT !.psw = set_word0(@, word)]
  <2>1. /\ DOMAIN s = Parts /\ s.psw = set_word0(m.psw, word)
        /\ s.mem = m.mem /\ s.prot = m.prot /\ s.pending = m.pending
    BY DEF Shape, Parts
  <2> HIDE DEF s
  <2>2. Keeps(m, s)
    BY <2>1, Arithmetic, KeepsParts DEF Shape
  <2>3. Keeps(m, LoadAll(s, a))
    BY <2>2, KeepsShape, LoadAllKeeps, KeepsTransitive
  <2>4. QED
    BY <2>3 DEF s
<1>2. \/ return(m, d) \in {m, Trapped(m, "Address")}
      \/ \E word, a : return(m, d) = LoadAll([m EXCEPT !.psw = set_word0(@, word)], a)
  BY DEF return
<1>3. QED
  BY <1>1, <1>2, KeepsSame, TrappedKeeps, KeepsObeys

LEMMA ExtendedObeys ==
  ASSUME NEW m, Shape(m), NEW d, NEW e
  PROVE  Obeys(m, extended(m, d, e))
<1>1. ASSUME NEW n, Shape(n), NEW k, NEW v
      PROVE  Keeps(n, SetDse(n, k, v))
  <2>1. LET x == SetDse(n, k, v)
        IN  Shape(x) /\ x.mem = n.mem /\ x.prot = n.prot /\ x.pending = n.pending /\ x.psw = n.psw
    BY <1>1 DEF Shape, Parts, SetDse
  <2>2. QED
    BY <2>1, KeepsParts
<1>2. ASSUME NEW w, NEW v
      PROVE  Keeps(m, SetDse(SetR(m, d.r1, w), d.r1, v))
  BY <1>1, SetRKeeps, KeepsShape, KeepsTransitive
<1>3. ASSUME NEW v
      PROVE  Keeps(m, [m EXCEPT !.dse[m.psw.reg_set] = v])
  <2>1. LET x == [m EXCEPT !.dse[m.psw.reg_set] = v]
        IN  Shape(x) /\ x.mem = m.mem /\ x.prot = m.prot /\ x.pending = m.pending /\ x.psw = m.psw
    BY DEF Shape, Parts
  <2>2. QED
    BY <2>1, KeepsParts
<1>4. \/ \E w, v : extended(m, d, e) = SetDse(SetR(m, d.r1, w), d.r1, v)
      \/ \E k, w : extended(m, d, e) = SetR(m, k, w)
      \/ \E w : extended(m, d, e) = Store(m, e.addr, w, m.psw.cc)
      \/ \E v : extended(m, d, e) = [m EXCEPT !.dse[m.psw.reg_set] = v]
  BY DEF extended
<1>5. QED
  BY <1>2, <1>3, <1>4, SetRKeeps, KeepsObeys, StoreObeys

LEMMA ControlIoObeys ==
  ASSUME NEW m, Shape(m), NEW d, NEW reply, NEW w
  PROVE  Obeys(m, pc(m, d, reply, w))
<1>1. ASSUME NEW cc
      PROVE  Keeps(m, SetCC(SetR(m, d.r1, w), cc)) /\ Keeps(m, SetCC(m, cc))
  BY SetRKeeps, SetCCKeeps, KeepsShape, KeepsTransitive
<1>2. \E cc : pc(m, d, reply, w) \in {SetCC(SetR(m, d.r1, w), cc), SetCC(m, cc)}
  BY DEF pc
<1>3. QED
  BY <1>1, <1>2, KeepsObeys

(* Floating point.                                                         *)
LEMMA SetFKeeps ==
  ASSUME NEW m, Shape(m), NEW k, NEW w
  PROVE  Keeps(m, SetF(m, k, w))
<1>1. LET s == SetF(m, k, w)
      IN  Shape(s) /\ s.mem = m.mem /\ s.prot = m.prot /\ s.pending = m.pending /\ s.psw = m.psw
  BY DEF Shape, Parts, SetF
<1>2. QED
  BY <1>1, KeepsParts

LEMMA SetFprKeeps ==
  ASSUME NEW m, Shape(m), NEW k, NEW u, NEW p
  PROVE  Keeps(m, SetFpr(m, k, u, p))
<1>1. \A v, w : Keeps(m, SetF(SetF(m, k, v), Second(k), w))
  BY SetFKeeps, KeepsShape, KeepsTransitive
<1>2. \E v, w : SetFpr(m, k, u, p) \in {SetF(m, k, v), SetF(SetF(m, k, v), Second(k), w)}
  BY DEF SetFpr
<1>3. QED
  BY <1>1, <1>2, SetFKeeps

LEMMA FinishObeys ==
  ASSUME NEW m, Shape(m), NEW k, NEW r, NEW p, NEW sets_cc
  PROVE  Obeys(m, fp_finish(m, k, r, p, sets_cc))
<1>1. \A u, cc : Keeps(m, SetCC(SetFpr(m, k, u, p), cc))
  BY SetFprKeeps, SetCCKeeps, KeepsShape, KeepsTransitive
<1>2. \/ \E u, cc : fp_finish(m, k, r, p, sets_cc) = SetCC(SetFpr(m, k, u, p), cc)
      \/ \E code : fp_finish(m, k, r, p, sets_cc) = program_interrupt(m, code)
      \/ \E u, cc, code : fp_finish(m, k, r, p, sets_cc)
                            = program_interrupt(SetCC(SetFpr(m, k, u, p), cc), code)
  BY DEF fp_finish
<1>3. QED
  BY <1>1, <1>2, KeepsSame, KeepsObeys, InterruptObeys

LEMMA FloatObeys ==
  ASSUME NEW m, Shape(m), NEW d, NEW e
  PROVE  /\ Obeys(m, float_add(m, d, e)) /\ Obeys(m, float_compare(m, d, e))
         /\ Obeys(m, float_multiply(m, d, e)) /\ Obeys(m, float_divide(m, d, e))
<1>1. \E r, p : float_add(m, d, e) = fp_finish(m, d.r1, r, p, TRUE)
  BY DEF float_add
<1>2. \E cc : float_compare(m, d, e) = SetCC(m, cc)
  BY DEF float_compare
<1>3. \E r, p : float_multiply(m, d, e) = fp_finish(m, d.r1, r, p, FALSE)
  BY DEF float_multiply
<1>4. \E r, p : float_divide(m, d, e) = fp_finish(m, d.r1, r, p, FALSE)
  BY DEF float_divide
<1>5. QED
  BY <1>1, <1>2, <1>3, <1>4, FinishObeys, SetCCKeeps, KeepsObeys

LEMMA FloatLoadObeys ==
  ASSUME NEW m, Shape(m), NEW d, NEW e
  PROVE  Obeys(m, float_load(m, d, e))
<1>1. ASSUME NEW v, NEW cc, NEW w
      PROVE  /\ Keeps(m, SetCC(SetF(m, d.r1, v), cc))
             /\ Keeps(m, SetF(SetCC(SetF(m, d.r1, v), cc), Second(d.r1), w))
  BY SetFKeeps, SetCCKeeps, KeepsShape, KeepsTransitive
<1>2. \/ \E v : float_load(m, d, e) = SetF(m, d.r1, v)
      \/ \E v, cc : float_load(m, d, e) = SetCC(SetF(m, d.r1, v), cc)
      \/ \E v, cc, w :
           float_load(m, d, e) = SetF(SetCC(SetF(m, d.r1, v), cc), Second(d.r1), w)
  BY DEF float_load
<1>3. QED
  BY <1>1, <1>2, SetFKeeps, KeepsObeys

LEMMA ConvertObeys ==
  ASSUME NEW m, Shape(m), NEW d
  PROVE  Obeys(m, convert(m, d))
<1>1. ASSUME NEW n, Keeps(m, n), NEW cc
      PROVE  Keeps(m, SetCC(n, cc))
  BY <1>1, SetCCKeeps, KeepsShape, KeepsTransitive
<1>2. \/ \E w : convert(m, d) = SetR(m, d.r1, w)
      \/ \E w, cc : convert(m, d) \in {SetCC(SetR(m, d.r1, w), cc), SetCC(SetF(m, d.r1, w), cc)}
      \/ \E u, cc : convert(m, d) = SetCC(SetFpr(m, d.r1, u, SHORT), cc)
      \/ convert(m, d) = program_interrupt(m, CONVERT_OVERFLOW)
  BY ZenonT(60) DEF convert
<1>3. QED
  BY <1>1, <1>2, SetRKeeps, SetFKeeps, SetFprKeeps, KeepsSame, KeepsObeys, InterruptObeys

LEMMA MidvalueObeys ==
  ASSUME NEW m, Shape(m), NEW d, NEW e
  PROVE  Obeys(m, midvalue(m, d, e))
<1>1. ASSUME NEW k, NEW cc, NEW r
      PROVE  Obeys(m, Chosen(m, k, cc, r))
  <2> DEFINE c == SetCC(m, cc)
  <2>1. Keeps(m, c)
    BY SetCCKeeps
  <2>2. \/ Chosen(m, k, cc, r) = program_interrupt(c, FP_UNDERFLOW)
        \/ Chosen(m, k, cc, r) = SetF(c, k, ZeroWord)
        \/ Chosen(m, k, cc, r) = SetFpr(c, k, r.u, SHORT)
    BY DEF Chosen
  <2> HIDE DEF c
  <2>3. QED
    BY <2>1, <2>2, KeepsShape, SetFKeeps, SetFprKeeps, KeepsTransitive, KeepsObeys,
       InterruptObeys
<1>2. \E k, cc, r : midvalue(m, d, e) = Chosen(m, k, cc, r)
  BY DEF midvalue, Limited
<1>3. QED
  BY <1>1, <1>2

(* Status switching: a privileged instruction may set protection and the   *)
(* control fields, but it stores nothing.                                  *)
Commands(m, n) ==
  \E c : /\ Shape(c) /\ c.pending = m.pending /\ \A a : At(c, a) = At(m, a)
        /\ Interrupted(c, n)

(* A supervisor call stores the old PSW in its place first.                *)
Calls(m, n) == \E c : Keeps(m, c) /\ Swaps(Span(SVC_OLD, 4), c, n)

LEMMA StatusObeys ==
  ASSUME NEW m, Shape(m), NEW d, NEW e, d.instr \in Status
  PROVE  \/ Obeys(m, status(m, d, e))
         \/ d.instr \in Privileged /\ Commands(m, status(m, d, e))
         \/ d.instr = "SVC" /\ Calls(m, status(m, d, e))
<1> DEFINE n == status(m, d, e)
<1>1. ASSUME NEW s, Shape(s), s.mem = m.mem, s.pending = m.pending
      PROVE  Commands(m, s)
  <2>1. Interrupted(s, s) /\ \A a : At(s, a) = At(m, a)
    BY <1>1, InterruptedSame DEF At
  <2>2. QED
    BY <1>1, <2>1 DEF Commands
<1>2. ASSUME NEW p, DOMAIN p = PswParts
      PROVE  LET s == [m EXCEPT !.psw = p]
             IN  Shape(s) /\ s.mem = m.mem /\ s.prot = m.prot /\ s.pending = m.pending /\ s.psw = p
  BY <1>2 DEF Shape, Parts
<1>3. CASE d.instr = "LPS"
  <2>1. PICK w, u : n = [m EXCEPT !.psw = set_word1(set_word0(m.psw, w), u)]
    BY <1>3 DEF status
  <2>2. DOMAIN set_word1(set_word0(m.psw, w), u) = PswParts
    BY Loaded DEF Shape
  <2>3. QED
    BY <1>1, <1>2, <1>3, <2>1, <2>2 DEF Privileged
<1>4. CASE d.instr = "SPM"
  <2>1. PICK h : n = [m EXCEPT !.psw = set_indicators(m.psw, h)]
    BY <1>4 DEF status
  <2>2. /\ DOMAIN set_indicators(m.psw, h) = PswParts
        /\ \A f \in ControlFields : set_indicators(m.psw, h)[f] = m.psw[f]
    BY Arithmetic DEF Shape
  <2> DEFINE p == set_indicators(m.psw, h)
             s == [m EXCEPT !.psw = p]
  <2>3. Shape(s) /\ s.mem = m.mem /\ s.prot = m.prot /\ s.pending = m.pending /\ s.psw = p
    BY <1>2, <2>2
  <2> HIDE DEF s
  <2>4. Keeps(m, s)
    BY <2>2, <2>3, KeepsParts
  <2>5. QED
    BY <2>1, <2>4, KeepsObeys DEF s
<1>5. CASE d.instr = "SSM"
  <2>1. PICK w : n = [m EXCEPT !.psw = set_word1(m.psw, w)]
    BY <1>5 DEF status
  <2>2. DOMAIN set_word1(m.psw, w) = PswParts
    BY DEF Shape, set_word1
  <2>3. QED
    BY <1>1, <1>2, <1>5, <2>1, <2>2 DEF Privileged
<1>6. CASE d.instr = "SVC"
  <2>1. PICK high, code :
          n = psw_swap([m EXCEPT !.psw.ea_high = high, !.psw.int_code = code], SVC_OLD, SVC_NEW)
    BY <1>6 DEF status
  <2> DEFINE c == [m EXCEPT !.psw.ea_high = high, !.psw.int_code = code]
  <2>2. /\ Shape(c) /\ c.mem = m.mem /\ c.prot = m.prot /\ c.pending = m.pending
        /\ \A f \in ControlFields : c.psw[f] = m.psw[f]
    BY DEF Shape, Parts, PswParts, ControlFields
  <2> HIDE DEF c
  <2>3. Swaps(Span(SVC_OLD, 4), c, psw_swap(c, SVC_OLD, SVC_NEW))
    BY <2>2, OtherSlots, SwapSwaps
  <2>4. QED
    BY <1>6, <2>1, <2>2, <2>3, KeepsParts DEF c, Calls
<1>7. CASE d.instr = "ISPB"
  <2>1. PICK prot : n = [m EXCEPT !.prot = prot]
    BY <1>7 DEF status
  <2> DEFINE s == [m EXCEPT !.prot = prot]
  <2>2. Shape(s) /\ s.mem = m.mem /\ s.pending = m.pending
    BY DEF Shape, Parts
  <2>3. QED
    BY <1>1, <1>7, <2>1, <2>2 DEF Privileged
<1>8. QED
  BY <1>3, <1>4, <1>5, <1>6, <1>7 DEF Status

(* The operand address: nothing changes but the registers and the sectors  *)
(* that address modification sets, and the pointer that moves on.          *)
LEMMA ResolveFrames ==
  ASSUME NEW m, Shape(m), NEW d, NEW branch
  PROVE  LET n == resolve(m, d, branch).m
         IN  /\ Framed(Span(PointerAt(m, d), 2), m, n)
             /\ ~ PointerMoves(d) => Keeps(m, n)
<1> DEFINE n == resolve(m, d, branch).m
<1>1. Keeps(m, m) /\ \A k, w : Keeps(m, SetR(m, k, w))
  BY KeepsSame, SetRKeeps
<1>2. Keeps(m, Trapped(m, "Address"))
  BY TrappedKeeps
<1>3. ASSUME NEW where
      PROVE  Keeps(m, FullPointer(m, d, where, branch).m)
  <2>1. PICK dsr, bsr :
          FullPointer(m, d, where, branch).m = [m EXCEPT !.psw.dsr = dsr, !.psw.bsr = bsr]
    BY DEF FullPointer, Ea
  <2> DEFINE s == [m EXCEPT !.psw.dsr = dsr, !.psw.bsr = bsr]
  <2>2. /\ Shape(s) /\ s.mem = m.mem /\ s.prot = m.prot /\ s.pending = m.pending
        /\ \A f \in ControlFields : s.psw[f] = m.psw[f]
    BY DEF Shape, Parts, PswParts, ControlFields
  <2> HIDE DEF s
  <2>3. Keeps(m, s)
    BY <2>2, KeepsParts
  <2>4. QED
    BY <2>1, <2>3 DEF s
<1>4. ASSUME NEW where
      PROVE  Framed(Span(where, 2), m, ModifiedPointer(m, where, branch).m)
  <2> DEFINE hs == Advance(Hs(m, where, 2))
             s == StoreAt(m, Span(where, 2), where, hs)
  <2>1. Len(hs) = 2
    BY DEF Advance
  <2>2. ModifiedPointer(m, where, branch).m = s
    BY <2>1 DEF ModifiedPointer, Write, Ea
  <2> HIDE DEF hs
  <2>3. /\ Shape(s) /\ s.prot = m.prot /\ s.psw = m.psw /\ s.pending = m.pending
        /\ \A x : x \notin Span(where, 2) => At(s, x) = At(m, x)
    BY Stored
  <2> HIDE DEF s
  <2>4. QED
    BY <2>2, <2>3 DEF Framed
<1>5. \/ n = m \/ n = Trapped(m, "Address") \/ \E k, w : n = SetR(m, k, w)
      \/ \E where : n = FullPointer(m, d, where, branch).m
      \/ PointerMoves(d) /\ n = ModifiedPointer(m, PointerAt(m, d), branch).m
  BY DEF resolve, Ea, PointerMoves
<1>6. QED
  BY <1>1, <1>2, <1>3, <1>4, <1>5 DEF Keeps, Framed
-----------------------------------------------------------------------------
(***************************************************************************)
(* Steps of the CPU.                                                       *)
(***************************************************************************)

LEMMA InterruptedTwice ==
  ASSUME NEW m, NEW n, NEW o, Interrupted(n, o)
  PROVE  /\ Obeys(m, n) => Obeys(m, o)
         /\ Commands(m, n) => Commands(m, o)
         /\ Calls(m, n) => Calls(m, o)
  BY InterruptedTransitive, SwapsTransitive DEF Obeys, Commands, Calls

(* ENDOP only interrupts.                                                  *)
LEMMA EndopInterrupts ==
  ASSUME NEW m, Shape(m)
  PROVE  Interrupted(m, endop(m))
<1> DEFINE taken == program_interrupt(m, FIXED_OVERFLOW)
<1>1. Interrupted(m, m)
  BY InterruptedSame
<1>2. Interrupted(m, taken)
  BY ProgramInterrupts
<1> HIDE DEF taken
<1>3. PICK after : after \in {m, taken} /\ endop(m) \in {after, deliver_system_interrupts(after)}
  BY DEF endop, taken
<1>4. Interrupted(m, after)
  BY <1>1, <1>2, <1>3
<1>5. Interrupted(m, deliver_system_interrupts(after))
  <2>1. Shape(after)
    BY <1>4 DEF Interrupted, Swaps
  <2>2. QED
    BY <1>4, <2>1, DeliverInterrupts, InterruptedTransitive
<1>6. QED
  BY <1>3, <1>4, <1>5

LEMMA EndsObeys ==
  ASSUME NEW m, NEW n, Ends(n)
  PROVE  /\ Obeys(m, n) => Obeys(m, cpu')
         /\ Commands(m, n) => Commands(m, cpu')
         /\ Calls(m, n) => Calls(m, cpu')
<1>1. cpu' = endop(n)
  BY DEF Ends, Returns
<1>2. SUFFICES ASSUME Shape(n)
               PROVE  /\ Obeys(m, n) => Obeys(m, cpu')
                      /\ Commands(m, n) => Commands(m, cpu')
                      /\ Calls(m, n) => Calls(m, cpu')
  BY DEF Obeys, Commands, Calls, Interrupted, Swaps
<1>3. QED
  BY <1>1, <1>2, EndopInterrupts, InterruptedTwice

(* Every instruction obeys, from the machine with its operand address on,  *)
(* but for the privileged ones that command, and for supervisor calls.     *)
LEMMA ExecuteObeys ==
  ASSUME NEW d, NEW e, Shape(e.m), Execute(d, e)
  PROVE  \/ Obeys(e.m, cpu')
         \/ d.instr \in Privileged /\ Commands(e.m, cpu')
         \/ d.instr = "SVC" /\ Calls(e.m, cpu')
<1>1. ASSUME NEW n, Obeys(e.m, n), Ends(n)
      PROVE  Obeys(e.m, cpu')
  BY <1>1, EndsObeys
<1>2. CASE AddOrSubtract(d, e)
  BY <1>1, <1>2, AddSubtractObeys DEF AddOrSubtract
<1>3. CASE CompareFixed(d, e)
  BY <1>1, <1>3, CompareFixedObeys DEF CompareFixed
<1>4. CASE CompareLimits(d, e)
  BY <1>1, <1>4, CompareLimitsObeys DEF CompareLimits
<1>5. CASE MultiplyFixed(d, e)
  BY <1>1, <1>5, MultiplyFixedObeys DEF MultiplyFixed
<1>6. CASE DivideFixed(d, e)
  BY <1>1, <1>6, DivideFixedObeys DEF DivideFixed
<1>7. CASE MoveData(d, e)
  BY <1>1, <1>7, MoveObeys DEF MoveData
<1>8. CASE StoreRegisters(d, e)
  BY <1>1, <1>8, StoreDataObeys DEF StoreRegisters
<1>9. CASE ModifyHalfword(d, e)
  BY <1>1, <1>9, ModifyStorageObeys DEF ModifyHalfword
<1>10. CASE Combine(d, e)
  BY <1>1, <1>10, LogicalObeys DEF Combine
<1>11. CASE TestBits(d, e)
  BY <1>1, <1>11, TestObeys DEF TestBits
<1>12. CASE Search(d, e)
  BY <1>1, <1>12, SearchObeys DEF Search
<1>13. CASE Normalize(d, e)
  BY <1>1, <1>13, NormalizeObeys DEF Normalize
<1>14. CASE Shift(d, e)
  BY <1>1, <1>14, ShiftObeys DEF Shift
<1>15. CASE BranchAndLink(d, e)
  BY <1>1, <1>15, BranchAndLinkObeys DEF BranchAndLink
<1>16. CASE BranchOnCondition(d, e)
  BY <1>1, <1>16, BranchOnConditionObeys DEF BranchOnCondition
<1>17. CASE BranchOnCount(d, e)
  BY <1>1, <1>17, BranchOnCountObeys DEF BranchOnCount
<1>18. CASE BranchOnIndicators(d, e)
  BY <1>1, <1>18, BranchOnIndicatorsObeys DEF BranchOnIndicators
<1>19. CASE AddFloat(d, e) \/ CompareFloat(d, e) \/ MultiplyFloat(d, e) \/ DivideFloat(d, e)
  BY <1>1, <1>19, FloatObeys DEF AddFloat, CompareFloat, MultiplyFloat, DivideFloat
<1>20. CASE LoadFloat(d, e)
  BY <1>1, <1>20, FloatLoadObeys DEF LoadFloat
<1>21. CASE ConvertFloat(d, e)
  BY <1>1, <1>21, ConvertObeys DEF ConvertFloat
<1>22. CASE Midvalue(d, e)
  BY <1>1, <1>22, MidvalueObeys DEF Midvalue
<1>23. CASE SwitchStatus(d, e)
  BY <1>23, StatusObeys, EndsObeys DEF SwitchStatus
<1>24. CASE MoveHalfwords(d, e)
  BY <1>1, <1>24, MoveHalfwordsObeys DEF MoveHalfwords
<1>25. CASE CallStacked(d, e)
  BY <1>1, <1>25, CallObeys DEF CallStacked
<1>26. CASE ReturnStacked(d, e)
  BY <1>1, <1>26, ReturnObeys DEF ReturnStacked
<1>27. CASE ExtendAddress(d, e)
  BY <1>1, <1>27, ExtendedObeys DEF ExtendAddress
<1>28. CASE ControlIo(d, e)
  BY <1>1, <1>28, ControlIoObeys DEF ControlIo
<1>29. QED
  BY <1>2, <1>3, <1>4, <1>5, <1>6, <1>7, <1>8, <1>9, <1>10, <1>11, <1>12, <1>13, <1>14,
     <1>15, <1>16, <1>17, <1>18, <1>19, <1>20, <1>21, <1>22, <1>23, <1>24, <1>25, <1>26,
     <1>27, <1>28, Execute(d, e) DEF Execute

LEMMA InitShape ==
  Init => Shape(cpu)
<1> SUFFICES ASSUME Init PROVE Shape(cpu)
  OBVIOUS
<1> DEFINE r == [f \in DOMAIN cpu \ {"mem"} |-> cpu[f]]
<1>1. "mem" \in DOMAIN cpu /\ r \in Machines
  BY StartsAssumption DEF Init, IsMachine
<1>2. DOMAIN r = Parts \ {"mem"} /\ DOMAIN r.psw = PswParts
  BY <1>1 DEF Machines, Psw, Parts, PswParts
<1>3. DOMAIN cpu = Parts
  BY <1>1, <1>2 DEF Parts
<1>4. r.psw = cpu.psw
  BY <1>3 DEF Parts
<1>5. QED
  BY <1>2, <1>3, <1>4 DEF Shape

(* What a step may do to protected storage, and what it may do in problem  *)
(* state.                                                                  *)
Protects ==
  \A a \in cpu.prot :
    At(cpu', a) # At(cpu, a) =>
      a \in StoredPsws \/ \E d \in Fetched : a \in MovedPointer(d)
Confines(m, n) ==
  /\ n.prot = m.prot
  /\ InHandler(n) \/ \A f \in ControlFields : n.psw[f] = m.psw[f]
StepHolds == Shape(cpu') /\ Protects /\ (cpu.psw.problem_state => Confines(cpu, cpu'))

(* From m to n storage A changes only where interrupts put their old PSWs.  *)
Spares(K, A, m, n) ==
  \A a \in A : At(n, a) # At(m, a) => InHandler(n) /\ a \in K \cup OldPsws(m, n)

LEMMA SwapsHolds ==
  ASSUME NEW m, Shape(m), NEW n, NEW K, Swaps(K, m, n), NEW A
  PROVE  Shape(n) /\ Confines(m, n) /\ Spares(K, A, m, n)
<1>1. CASE InHandler(n) /\ \A a : a \notin K \cup OldPsws(m, n) => At(n, a) = At(m, a)
  BY <1>1 DEF Swaps, Confines, Spares
<1>2. CASE n.mem = m.mem /\ Uncoded(n.psw) = Uncoded(m.psw)
  <2>1. \A f \in ControlFields : n.psw[f] = m.psw[f]
    BY <1>2, UncodedKeeps DEF Swaps, Shape
  <2>2. QED
    BY <1>2, <2>1 DEF Swaps, Confines, Spares, At
<1>3. QED
  BY <1>1, <1>2 DEF Swaps

(* What was kept before the interrupts does not show in them.              *)
LEMMA SparesFrom ==
  ASSUME NEW m, NEW c, NEW n, c.pending = m.pending, NEW K, NEW A,
         \A a \in A : At(c, a) = At(m, a), Spares(K, A, c, n)
  PROVE  Spares(K, A, m, n)
<1>1. OldPsws(c, n) = OldPsws(m, n)
  BY DEF OldPsws, LevelsTaken, ProgramTaken
<1>2. QED
  BY <1>1 DEF Spares

LEMMA ObeysHolds ==
  ASSUME NEW m, NEW n, NEW K, NEW c, Keeps(m, c), Swaps(K, c, n)
  PROVE  Shape(n) /\ Confines(m, n) /\ Spares(K, m.prot, m, n)
<1>1. Shape(n) /\ Confines(c, n) /\ Spares(K, m.prot, c, n)
  BY KeepsShape, SwapsHolds
<1>2. Spares(K, m.prot, m, n)
  BY <1>1, SparesFrom DEF Keeps, Framed
<1>3. QED
  BY <1>1, <1>2 DEF Keeps, Framed, Confines

LEMMA CommandsHolds ==
  ASSUME NEW m, NEW n, Commands(m, n)
  PROVE  Shape(n) /\ Spares({}, m.prot, m, n)
<1>1. PICK c : /\ Shape(c) /\ c.pending = m.pending /\ \A a : At(c, a) = At(m, a)
               /\ Interrupted(c, n)
  BY DEF Commands
<1>2. Shape(n) /\ Spares({}, m.prot, c, n)
  BY <1>1, SwapsHolds DEF Interrupted
<1>3. QED
  BY <1>1, <1>2, SparesFrom

LEMMA CpuObeys ==
  ASSUME Shape(cpu), Obeys(cpu, cpu')
  PROVE  StepHolds
<1>1. Shape(cpu') /\ Confines(cpu, cpu') /\ Spares({}, cpu.prot, cpu, cpu')
  BY ObeysHolds DEF Obeys, Interrupted
<1>2. Protects
  BY <1>1 DEF Protects, Spares, StoredPsws, Swapped
<1>3. QED
  BY <1>1, <1>2 DEF StepHolds

(* The operand machine of an instruction.                                  *)
LEMMA AdvancedKeeps ==
  ASSUME Shape(cpu), NEW d
  PROVE  Keeps(cpu, Advanced(d))
<1>1. LET s == Advanced(d)
      IN  /\ Shape(s) /\ s.mem = cpu.mem /\ s.prot = cpu.prot /\ s.pending = cpu.pending
          /\ \A f \in ControlFields : s.psw[f] = cpu.psw[f]
  BY DEF Shape, Parts, PswParts, ControlFields, Advanced
<1>2. QED
  BY <1>1, KeepsParts

LEMMA OperandsFrame ==
  ASSUME Shape(cpu), NEW d, NEW e \in Operands(d)
  PROVE  /\ Framed(MovedPointer(d), cpu, e.m)
         /\ d.instr \in Privileged => ~ cpu.psw.problem_state
<1> DEFINE s == Advanced(d)
<1>1. Keeps(cpu, s) /\ Shape(s)
  BY AdvancedKeeps, KeepsShape
<1>2. e.m = s \/ \E branch : e.m = resolve(s, d, branch).m
  BY DEF Operands, Ea
<1>3. d.instr \in Privileged => ~ cpu.psw.problem_state
  BY DEF Operands, Refusals
<1> HIDE DEF s
<1>4. Framed(Span(PointerAt(s, d), 2), s, e.m) /\ (~ PointerMoves(d) => Keeps(s, e.m))
  BY <1>1, <1>2, ResolveFrames, KeepsSame DEF Keeps, Framed
<1>5. Framed(MovedPointer(d), s, e.m)
  BY <1>4 DEF MovedPointer, Keeps, s
<1>6. QED
  BY <1>1, <1>3, <1>5 DEF Keeps, Framed

LEMMA InstructionHolds ==
  ASSUME Shape(cpu), NEW d \in Fetched, NEW e \in Operands(d),
         \/ Obeys(e.m, cpu')
         \/ d.instr \in Privileged /\ Commands(e.m, cpu')
         \/ d.instr = "SVC" /\ Calls(e.m, cpu')
  PROVE  StepHolds
<1> DEFINE called == {a \in Span(SVC_OLD, 4) : d.instr = "SVC"}
<1>1. /\ Framed(MovedPointer(d), cpu, e.m)
      /\ d.instr \in Privileged => ~ cpu.psw.problem_state
  BY OperandsFrame
<1>2. PICK K \in SUBSET called :
        /\ Shape(cpu') /\ Spares(K, e.m.prot, e.m, cpu')
        /\ Confines(e.m, cpu') \/ d.instr \in Privileged
  <2>1. CASE Obeys(e.m, cpu')
    <3>1. Shape(cpu') /\ Confines(e.m, cpu') /\ Spares({}, e.m.prot, e.m, cpu')
      BY <2>1, ObeysHolds DEF Obeys, Interrupted
    <3>2. QED
      BY <3>1
  <2>2. CASE d.instr \in Privileged /\ Commands(e.m, cpu')
    <3>1. Shape(cpu') /\ Spares({}, e.m.prot, e.m, cpu')
      BY <2>2, CommandsHolds
    <3>2. QED
      BY <2>2, <3>1
  <2>3. CASE d.instr = "SVC" /\ Calls(e.m, cpu')
    <3>1. /\ Shape(cpu') /\ Confines(e.m, cpu')
          /\ Spares(Span(SVC_OLD, 4), e.m.prot, e.m, cpu')
      BY <2>3, ObeysHolds DEF Calls
    <3>2. Span(SVC_OLD, 4) \in SUBSET called
      BY <2>3
    <3>3. QED
      BY <3>1, <3>2
  <2>4. QED
    BY <2>1, <2>2, <2>3
<1>3. called \subseteq CalledPsw
  BY DEF CalledPsw
<1>4. OldPsws(e.m, cpu') = OldPsws(cpu, cpu')
  BY <1>1 DEF Framed, OldPsws, LevelsTaken, ProgramTaken
<1> HIDE DEF called
<1>5. Protects
  <2>1. ASSUME NEW a \in cpu.prot, At(cpu', a) # At(cpu, a), a \notin MovedPointer(d)
        PROVE  a \in StoredPsws
    <3>1. a \in e.m.prot /\ At(cpu', a) # At(e.m, a)
      BY <1>1, <2>1 DEF Framed
    <3>2. InHandler(cpu') /\ a \in K \cup OldPsws(cpu, cpu')
      BY <1>2, <1>4, <3>1 DEF Spares
    <3>3. QED
      BY <1>3, <3>2 DEF StoredPsws, Swapped
  <2>2. QED
    BY <2>1 DEF Protects
<1>6. cpu.psw.problem_state => Confines(cpu, cpu')
  BY <1>1, <1>2 DEF Confines, Framed
<1>7. QED
  BY <1>2, <1>5, <1>6 DEF StepHolds

(* The ways out of a step that skip the body of an instruction.            *)
LEMMA MonitorHolds ==
  ASSUME Shape(cpu), Monitor
  PROVE  StepHolds
<1>1. Swaps(Span(MONITOR_OLD, 4), cpu, cpu')
  BY OtherSlots, SwapSwaps DEF Monitor, Returns
<1>2. /\ Shape(cpu') /\ Confines(cpu, cpu')
      /\ Spares(Span(MONITOR_OLD, 4), cpu.prot, cpu, cpu')
  BY <1>1, SwapsHolds
<1>3. Span(MONITOR_OLD, 4) \subseteq CalledPsw
  BY DEF Monitor, CalledPsw
<1>4. Protects
  BY <1>2, <1>3 DEF Protects, Spares, StoredPsws, Swapped
<1>5. QED
  BY <1>2, <1>4 DEF StepHolds

LEMMA IllegalHolds ==
  ASSUME Shape(cpu), NEW d, IllegalInstruction(d)
  PROVE  StepHolds
<1> DEFINE m == program_interrupt(cpu, ILLEGAL)
<1>1. Obeys(cpu, m)
  BY KeepsSame, InterruptObeys
<1>2. cpu' = m \/ cpu' = Trapped(m, "Illegal")
  BY DEF IllegalInstruction, Returns
<1> HIDE DEF m
<1>3. Interrupted(m, Trapped(m, "Illegal"))
  <2>1. Shape(m)
    BY <1>1 DEF Obeys, Interrupted, Swaps
  <2>2. LET s == Trapped(m, "Illegal")
        IN  Shape(s) /\ s.mem = m.mem /\ s.prot = m.prot /\ s.pending = m.pending /\ s.psw = m.psw
    BY <2>1 DEF Shape, Parts, Trapped
  <2>3. QED
    BY <2>2, UnloadedInterrupts
<1>4. QED
  BY <1>1, <1>2, <1>3, InterruptedTwice, CpuObeys

LEMMA UnimplementedHolds ==
  ASSUME Shape(cpu), NEW d, Unimplemented(d)
  PROVE  StepHolds
<1>1. Keeps(cpu, cpu')
  BY AdvancedKeeps, KeepsShape, TrappedKeeps, KeepsTransitive DEF Unimplemented, Returns
<1>2. QED
  BY <1>1, KeepsObeys, CpuObeys

LEMMA AddressTrapHolds ==
  ASSUME Shape(cpu), NEW d \in Fetched, AddressTrap(d)
  PROVE  StepHolds
<1>1. CASE cpu' = Trapped(cpu, "Address")
  BY <1>1, TrappedKeeps, KeepsObeys, CpuObeys
<1>2. ASSUME NEW e \in Operands(d), cpu' = Trapped(e.m, "Address")
      PROVE  StepHolds
  <2>1. Shape(e.m)
    BY OperandsFrame DEF Framed
  <2>2. Obeys(e.m, cpu')
    BY <1>2, <2>1, TrappedKeeps, KeepsObeys
  <2>3. QED
    BY <2>2, InstructionHolds
<1>3. QED
  BY <1>1, <1>2 DEF AddressTrap, Returns

LEMMA RefusedHolds ==
  ASSUME Shape(cpu), NEW d, RefusedInstruction(d)
  PROVE  StepHolds
<1>1. PICK code : Ends(program_interrupt(Advanced(d), code))
  BY DEF RefusedInstruction
<1>2. Obeys(cpu, program_interrupt(Advanced(d), code))
  BY AdvancedKeeps, InterruptObeys
<1>3. QED
  BY <1>1, <1>2, EndsObeys, CpuObeys

LEMMA ExecuteHolds ==
  ASSUME Shape(cpu), NEW d \in Fetched, NEW e \in Readable(d), Execute(d, e)
  PROVE  StepHolds
<1>1. e \in Operands(d)
  BY DEF Readable
<1>2. Shape(e.m)
  BY <1>1, OperandsFrame DEF Framed
<1>3. QED
  BY <1>1, <1>2, ExecuteObeys, InstructionHolds

LEMMA WaitingHolds ==
  ASSUME Shape(cpu), Waiting
  PROVE  StepHolds
<1>1. Interrupted(cpu, cpu')
  BY DeliverInterrupts DEF Waiting
<1>2. QED
  BY <1>1, KeepsSame, CpuObeys DEF Obeys

(* Every step, from a machine of that shape.                               *)
LEMMA StepLemma ==
  Shape(cpu) /\ [Next]_vars => StepHolds
<1> SUFFICES ASSUME Shape(cpu), [Next]_vars
             PROVE  StepHolds
  OBVIOUS
<1>1. CASE cpu' = cpu
  BY <1>1, KeepsSame, KeepsObeys, CpuObeys
<1>2. CASE Monitor
  BY <1>2, MonitorHolds
<1>3. CASE Waiting
  BY <1>3, WaitingHolds
<1>4. CASE OutOfSteps
  BY <1>1, <1>4 DEF OutOfSteps
<1>5. ASSUME NEW i \in Levels, Raise(i)
      PROVE  StepHolds
  <2>1. LET s == cpu'
        IN  Shape(s) /\ s.mem = cpu.mem /\ s.prot = cpu.prot /\ s.psw = cpu.psw
    BY <1>5 DEF Raise, Shape, Parts
  <2>2. QED
    BY <2>1 DEF StepHolds, Protects, Confines, At
<1>6. ASSUME NEW d \in Fetched,
             \/ IllegalInstruction(d) \/ Unimplemented(d) \/ AddressTrap(d)
             \/ RefusedInstruction(d) \/ \E e \in Readable(d) : Execute(d, e)
      PROVE  StepHolds
  BY <1>6, IllegalHolds, UnimplementedHolds, AddressTrapHolds, RefusedHolds, ExecuteHolds
<1>7. QED
  BY <1>1, <1>2, <1>3, <1>4, <1>5, <1>6 DEF Next, vars

(* A machine keeps its parts, whatever the program does.                   *)
THEOREM MachineShape == Spec => []Shape(cpu)
<1>1. Shape(cpu) /\ [Next]_vars => Shape(cpu')
  BY StepLemma DEF StepHolds
<1>2. Shape(cpu') <=> Shape(cpu)'
  BY DEF Shape
<1>3. QED
  BY <1>1, <1>2, InitShape, PTL DEF Spec

(* Storage protection: in every step of every program a protected halfword *)
(* keeps its value, but for the old PSW of an interrupt that the step       *)
(* takes, in the place of that interrupt, and for the two halfwords of the  *)
(* address pointer that the operand address moves on.                       *)
THEOREM StorageProtected == Spec => ProtectedKept
<1>1. Shape(cpu) /\ [Next]_vars =>
        [ \A a \in cpu.prot :
            At(cpu', a) # At(cpu, a) =>
              a \in StoredPsws \/ \E d \in Fetched : a \in MovedPointer(d) ]_vars
  BY StepLemma DEF StepHolds, Protects
<1>2. QED
  BY <1>1, MachineShape, PTL DEF Spec, ProtectedKept

(* Privilege: a program in problem state changes neither the protection of *)
(* storage nor, but by an interrupt, the control fields of its PSW.        *)
THEOREM PrivilegesHeld == Spec => PrivilegeHeld
<1>1. Shape(cpu) /\ [Next]_vars =>
        [ cpu.psw.problem_state =>
            /\ cpu'.prot = cpu.prot
            /\ Swapped \/ \A f \in ControlFields : cpu'.psw[f] = cpu.psw[f] ]_vars
  BY StepLemma DEF StepHolds, Confines, Swapped
<1>2. QED
  BY <1>1, MachineShape, PTL DEF Spec, PrivilegeHeld

-----------------------------------------------------------------------------
(***************************************************************************)
(* The calling sequence: SCAL stores a frame of eighteen halfwords, from   *)
(* which SRET loads the word of the PSW and the eight registers.           *)
(***************************************************************************)

(* Where a pointer register points, and where a call would put a frame.    *)
FrameAt(m, r) == SECTOR * SectorOf(m, r) + (Upper(m, r) % SECTOR)
NextFrame(m, r) ==
  SECTOR * SectorOf(m, r) + ((Upper(m, r) + Lower(m, r)) % SECTOR)

(* The fields of the first word of the PSW.                                *)
WordFields ==
  {"ic", "cc", "carry", "overflow", "fixed_overflow_mask", "exp_underflow_mask",
   "significance_mask", "bsr", "dsr"}

(* The parts of a machine.                                                 *)
LEMMA MachineParts ==
  ASSUME NEW m, IsMachine(m)
  PROVE  /\ Shape(m) /\ m.psw \in Psw
         /\ m.gpr \in [0 .. 1 -> [0 .. 7 -> Word]]
         /\ m.dse \in [0 .. 1 -> [0 .. 7 -> 0 .. 15]]
<1> DEFINE g == [f \in DOMAIN m \ {"mem"} |-> m[f]]
<1>1. g \in Machines /\ "mem" \in DOMAIN m
  BY DEF IsMachine
<1>2. DOMAIN g = DOMAIN m \ {"mem"}
  OBVIOUS
<1>3. DOMAIN g = {"prot", "psw", "gpr", "dse", "fpr", "pending", "trap"}
  <2> HIDE DEF g
  <2>1. QED
    BY <1>1 DEF Machines
<1>4. DOMAIN m = Parts
  BY <1>1, <1>2, <1>3 DEF Parts
<1>5. m.psw = g.psw /\ m.gpr = g.gpr /\ m.dse = g.dse
  BY <1>2, <1>3
<1>6. /\ g.psw \in Psw /\ g.gpr \in [0 .. 1 -> [0 .. 7 -> Word]]
      /\ g.dse \in [0 .. 1 -> [0 .. 7 -> 0 .. 15]]
  <2> HIDE DEF g
  <2>1. QED
    BY <1>1 DEF Machines
<1>7. DOMAIN m.psw = PswParts
  <2>1. m.psw \in Psw
    BY <1>5, <1>6
  <2>2. QED
    BY <2>1 DEF Psw, PswParts
<1>8. QED
  BY <1>4, <1>5, <1>6, <1>7 DEF Shape

(* A sector is half of what an address of sixteen bits can reach.          *)
(* The offset in a sector, under the bit that chooses the sector.          *)
LEMMA Offsets ==
  ASSUME NEW S \in Nat \ {0}, NEW x \in Nat, x < 2 * S, NEW o \in 0 .. S - 1
  PROVE  /\ x - (x % S) = IF x >= S THEN S ELSE 0
         /\ ((x - (x % S)) + o) % S = o
         /\ (x - (x % S)) + o >= S <=> x >= S
<1>1. \A v \in 0 .. S - 1 : v % S = v /\ (S + v) % S = v
  OBVIOUS
<1>2. CASE x < S
  <2>1. x % S = x
    BY <1>1, <1>2
  <2>2. x - (x % S) = 0 /\ 0 + o = o
    BY <2>1
  <2>3. QED
    BY <1>1, <1>2, <2>2
<1>3. CASE x >= S
  <2>1. x - S \in 0 .. S - 1 /\ S + (x - S) = x
    BY <1>3
  <2>2. x % S = x - S
    BY <1>1, <2>1
  <2>3. x - (x % S) = S
    BY <2>2
  <2>4. QED
    BY <1>1, <1>3, <2>3
<1>4. QED
  BY <1>2, <1>3

(* The powers of two that the fields of the PSW are scaled with.           *)
LEMMA Powers ==
  /\ 2 ^ 0 = 1 /\ 2 ^ 1 = 2 /\ 2 ^ 2 = 4 /\ 2 ^ 4 = 16 /\ 2 ^ 8 = 256 /\ 2 ^ 9 = 512
  /\ 2 ^ 11 = 2048 /\ 2 ^ 12 = 4096 /\ 2 ^ 13 = 8192 /\ 2 ^ 14 = 16384
  OBVIOUS

(* The fields packed into the word of a PSW come out of it.                *)
LEMMA Unpacked ==
  ASSUME NEW p \in Psw, NEW h, h = word0(p)[2]
  PROVE  /\ h \in Half
         /\ Field(h, 14, 2) = p.cc /\ Bit(h, 13) = Flag(p.carry)
         /\ Bit(h, 12) = Flag(p.overflow) /\ Bit(h, 11) = Flag(p.fixed_overflow_mask)
         /\ Bit(h, 9) = Flag(p.exp_underflow_mask) /\ Bit(h, 8) = Flag(p.significance_mask)
         /\ Field(h, 4, 4) = p.bsr /\ Field(h, 0, 4) = p.dsr
<1> DEFINE c == p.cc
           a == Flag(p.carry)
           o == Flag(p.overflow)
           x == Flag(p.fixed_overflow_mask)
           u == Flag(p.exp_underflow_mask)
           s == Flag(p.significance_mask)
           b == p.bsr
           t == p.dsr
<1>1. c \in 0 .. 3 /\ b \in 0 .. 15 /\ t \in 0 .. 15
  BY DEF Psw
<1>2. a \in 0 .. 1 /\ o \in 0 .. 1 /\ x \in 0 .. 1 /\ u \in 0 .. 1 /\ s \in 0 .. 1
  BY DEF Flag
<1>3. h = 16384 * c + 8192 * a + 4096 * o + 2048 * x + 512 * u + 256 * s + 16 * b + t
  BY Powers DEF word0
<1> HIDE DEF c, a, o, x, u, s, b, t
<1>4. (h \div 16384) % 4 = c
  BY <1>1, <1>2, <1>3
<1>5. (h \div 8192) % 2 = a
  BY <1>1, <1>2, <1>3
<1>6. (h \div 4096) % 2 = o
  BY <1>1, <1>2, <1>3
<1>7. (h \div 2048) % 2 = x
  BY <1>1, <1>2, <1>3
<1>8. (h \div 512) % 2 = u
  BY <1>1, <1>2, <1>3
<1>9. (h \div 256) % 2 = s
  BY <1>1, <1>2, <1>3
<1>10. (h \div 16) % 16 = b
  BY <1>1, <1>2, <1>3
<1>11. (h \div 1) % 16 = t
  BY <1>1, <1>2, <1>3
<1>12. h \in Half
  <2>1. h \in Nat /\ h < 4 * 16384
    BY <1>1, <1>2, <1>3
  <2>2. HW \in Nat /\ 4 * 16384 = HW
    BY DEF HW
  <2>3. h \in Nat /\ h < HW
    BY <2>1, <2>2
  <2>4. h \in 0 .. HW - 1
    BY <2>2, <2>3
  <2>5. QED
    BY <2>4 DEF Half
<1>13. /\ Field(h, 14, 2) = c /\ Bit(h, 13) = a /\ Bit(h, 12) = o /\ Bit(h, 11) = x
       /\ Bit(h, 9) = u /\ Bit(h, 8) = s /\ Field(h, 4, 4) = b /\ Field(h, 0, 4) = t
  BY <1>4, <1>5, <1>6, <1>7, <1>8, <1>9, <1>10, <1>11, Powers DEF Field, Bit
<1>14. QED
  BY <1>12, <1>13 DEF c, a, o, x, u, s, b, t

(* The first word of a PSW, loaded into any other, brings its fields.      *)
LEMMA WordLoaded ==
  ASSUME NEW p \in Psw, NEW q, DOMAIN q = PswParts
  PROVE  \A f \in WordFields : set_word0(q, word0(p))[f] = p[f]
<1> DEFINE w == word0(p)
           h == w[2]
           a == set_indicators(q, h)
           s == set_word0(q, w)
<1>1. /\ p.cc \in 0 .. 3 /\ p.bsr \in 0 .. 15 /\ p.dsr \in 0 .. 15
      /\ p.carry \in BOOLEAN /\ p.overflow \in BOOLEAN /\ p.fixed_overflow_mask \in BOOLEAN
      /\ p.exp_underflow_mask \in BOOLEAN /\ p.significance_mask \in BOOLEAN
  BY DEF Psw
<1>2. \A v \in BOOLEAN : Flag(v) \in 0 .. 1 /\ (Flag(v) = 1) = v
  BY DEF Flag
<1>3. h = word0(p)[2]
  OBVIOUS
<1>4. w[1] = p.ic
  BY DEF word0
<1>6. /\ Field(h, 14, 2) = p.cc /\ Bit(h, 13) = Flag(p.carry) /\ Bit(h, 12) = Flag(p.overflow)
      /\ Bit(h, 11) = Flag(p.fixed_overflow_mask) /\ Bit(h, 9) = Flag(p.exp_underflow_mask)
      /\ Bit(h, 8) = Flag(p.significance_mask) /\ Field(h, 4, 4) = p.bsr
      /\ Field(h, 0, 4) = p.dsr
  <2> HIDE DEF h, a, s
  <2>1. QED
    BY <1>3, Unpacked
<1> HIDE DEF w
<1>7. /\ DOMAIN a = PswParts
      /\ a.cc = Field(h, 14, 2) /\ a.carry = (Bit(h, 13) = 1) /\ a.overflow = (Bit(h, 12) = 1)
      /\ a.fixed_overflow_mask = (Bit(h, 11) = 1) /\ a.exp_underflow_mask = (Bit(h, 9) = 1)
      /\ a.significance_mask = (Bit(h, 8) = 1)
  BY DEF PswParts, set_indicators
<1>8. s = [a EXCEPT !.ic = w[1], !.bsr = Field(h, 4, 4), !.dsr = Field(h, 0, 4)]
  BY DEF set_word0
<1> HIDE DEF a
<1>9. /\ s.ic = w[1] /\ s.bsr = Field(h, 4, 4) /\ s.dsr = Field(h, 0, 4)
      /\ s.cc = a.cc /\ s.carry = a.carry /\ s.overflow = a.overflow
      /\ s.fixed_overflow_mask = a.fixed_overflow_mask
      /\ s.exp_underflow_mask = a.exp_underflow_mask
      /\ s.significance_mask = a.significance_mask
  BY <1>7, <1>8 DEF PswParts
<1> HIDE DEF s
<1>10. /\ s.carry = p.carry /\ s.overflow = p.overflow
       /\ s.fixed_overflow_mask = p.fixed_overflow_mask
       /\ s.exp_underflow_mask = p.exp_underflow_mask
       /\ s.significance_mask = p.significance_mask
  BY <1>1, <1>2, <1>6, <1>7, <1>9
<1>11. \A f \in WordFields : s[f] = p[f]
  BY <1>4, <1>6, <1>7, <1>9, <1>10 DEF WordFields
<1>12. QED
  BY <1>11 DEF s, w

(* A word and eight registers, stored from an address on where nothing is  *)
(* protected and storage does not end, are there afterwards, and the       *)
(* machine is otherwise as it was.                                         *)
LEMMA RunStored ==
  ASSUME NEW m, Shape(m), NEW a \in Nat, a + FRAME <= SIZE, NEW hs, Len(hs) = FRAME,
         m.prot \cap Span(a, FRAME) = {}
  PROVE  LET s == StoreRun(m, a, hs)
         IN  /\ ~ RefusedRun(m, a, hs)
             /\ Shape(s) /\ s.psw = m.psw /\ s.gpr = m.gpr /\ s.dse = m.dse
             /\ s.trap = m.trap
             /\ \A i \in 0 .. FRAME - 1 : At(s, a + i) = hs[i + 1]
<1> DEFINE s == StoreRun(m, a, hs)
           Free(k) == \A j \in 0 .. k : ~ Refused(m, Span(a + 2 * j, 2))
           free == {k \in 0 .. Len(hs) \div 2 - 1 : Free(k)}
           here == UNION {Span(a + 2 * k, 2) : k \in free}
<1>1. Len(hs) \div 2 - 1 = 8
  BY DEF FRAME
<1>2. \A k \in 0 .. 8 : Span(a + 2 * k, 2) \subseteq Span(a, FRAME)
  BY DEF Span, FRAME
<1>3. \A k \in 0 .. 8 : ~ Refused(m, Span(a + 2 * k, 2))
  BY <1>2 DEF Refused
<1>4. ~ RefusedRun(m, a, hs)
  BY <1>1, <1>3 DEF RefusedRun
<1>5. free = 0 .. 8
  <2>1. \A k \in 0 .. 8 : Free(k)
    BY <1>3
  <2>2. QED
    BY <1>1, <2>1
<1>6. here = Span(a, FRAME)
  <2>1. here = UNION {Span(a + 2 * k, 2) : k \in 0 .. 8}
    BY <1>5
  <2>2. here \subseteq Span(a, FRAME)
    BY <1>2, <2>1
  <2>3. ASSUME NEW x \in Span(a, FRAME)
        PROVE  x \in here
    <3>1. PICK k \in 0 .. 8 : x = a + 2 * k \/ x = a + 2 * k + 1
      <4>1. (x - a) \div 2 \in 0 .. 8
            /\ (x = a + 2 * ((x - a) \div 2) \/ x = a + 2 * ((x - a) \div 2) + 1)
        BY DEF Span, FRAME
      <4>2. QED
        BY <4>1
    <3>2. x \in Span(a + 2 * k, 2)
      BY <3>1 DEF Span
    <3>3. QED
      BY <2>1, <3>2
  <2>4. QED
    BY <2>2, <2>3
<1>7. s = StoreAt(m, here, a, hs)
  BY <1>4 DEF StoreRun
<1>8. s = StoreAt(m, Span(a, FRAME), a, hs)
  BY <1>6, <1>7
<1> HIDE DEF s
<1>9. Span(a, FRAME) \subseteq Storage
  <2>1. SIZE \in Nat /\ FRAME \in Nat
    BY Sectors DEF FRAME
  <2>2. a .. a + FRAME - 1 \subseteq 0 .. SIZE - 1
    BY <2>1
  <2>3. QED
    BY <2>2 DEF Span, Storage
<1>10. /\ Shape(s) /\ s.psw = m.psw /\ s.gpr = m.gpr /\ s.dse = m.dse /\ s.trap = m.trap
       /\ s.mem = [x \in DOMAIN m.mem \cup Span(a, FRAME) |->
                     IF x \in Span(a, FRAME) THEN hs[x - a + 1] ELSE m.mem[x]]
  <2>1. Span(a, FRAME) \cap Storage = Span(a, FRAME)
    BY <1>9
  <2>2. QED
    BY <1>8, <1>9, <2>1 DEF StoreAt, Shape, Parts
<1>11. ASSUME NEW i \in 0 .. FRAME - 1
       PROVE  At(s, a + i) = hs[i + 1]
  <2>1. a + i \in Span(a, FRAME) /\ a + i - a + 1 = i + 1
    BY DEF Span, FRAME
  <2>2. QED
    BY <1>10, <2>1 DEF At
<1>12. QED
  BY <1>4, <1>10, <1>11 DEF s

(* Two halfwords and sixteen more.                                         *)
LEMMA Joined ==
  ASSUME NEW S, NEW v \in S, NEW u \in S, NEW g \in [1 .. 16 -> S]
  PROVE  /\ Len(<<v, u>> \o g) = 18
         /\ (<<v, u>> \o g)[1] = v /\ (<<v, u>> \o g)[2] = u
         /\ \A j \in 1 .. 16 : (<<v, u>> \o g)[j + 2] = g[j]
<1> DEFINE w == <<v, u>>
<1>1. w \in Seq(S) /\ Len(w) = 2 /\ w[1] = v /\ w[2] = u
  OBVIOUS
<1>2. g \in Seq(S) /\ Len(g) = 16
  <2>1. DOMAIN g = 1 .. 16 /\ \A j \in 1 .. 16 : g[j] \in S
    OBVIOUS
  <2>2. g \in Seq(S)
    <3>1. [j \in 1 .. 16 |-> g[j]] \in Seq(S)
      BY <2>1
    <3>2. g = [j \in 1 .. 16 |-> g[j]]
      OBVIOUS
    <3>3. QED
      BY <3>1, <3>2
  <2>3. DOMAIN g = 1 .. Len(g) /\ Len(g) \in Nat
    BY <2>2, LenProperties
  <2>4. Len(g) = 16
    BY <2>1, <2>3
  <2>5. QED
    BY <2>2, <2>4
<1> DEFINE c == w \o g
<1> HIDE DEF w
<1>3. /\ Len(c) = Len(w) + Len(g)
      /\ \A i \in 1 .. Len(w) + Len(g) : c[i] = IF i <= Len(w) THEN w[i] ELSE g[i - Len(w)]
  BY <1>1, <1>2, ConcatProperties
<1> HIDE DEF c
<1>4. Len(c) = 18 /\ \A i \in 1 .. 18 : c[i] = IF i <= 2 THEN w[i] ELSE g[i - 2]
  <2>1. Len(w) + Len(g) = 18
    BY <1>1, <1>2
  <2>2. QED
    BY <1>1, <1>3, <2>1
<1>5. c[1] = v /\ c[2] = u
  BY <1>1, <1>4
<1>6. ASSUME NEW j \in 1 .. 16
      PROVE  c[j + 2] = g[j]
  <2>1. j + 2 \in 1 .. 18 /\ ~ (j + 2 <= 2) /\ j + 2 - 2 = j
    OBVIOUS
  <2>2. QED
    BY <1>4, <2>1
<1>7. QED
  BY <1>4, <1>5, <1>6 DEF c, w

(* What a call keeps: eighteen halfwords, the word and the registers.      *)
Frame(m) == word0(m.psw) \o Registers(m)

LEMMA FrameContents ==
  ASSUME NEW m, m.psw \in Psw, m.gpr \in [0 .. 1 -> [0 .. 7 -> Word]]
  PROVE  /\ Len(Frame(m)) = FRAME
         /\ Frame(m)[1] = word0(m.psw)[1] /\ Frame(m)[2] = word0(m.psw)[2]
         /\ \A n \in 0 .. 7 :
              Frame(m)[2 * n + 3] = R(m, n)[1] /\ Frame(m)[2 * n + 4] = R(m, n)[2]
<1> DEFINE w == word0(m.psw)
           g == Registers(m)
<1>1. w[1] \in Half /\ w[2] \in Half /\ w = <<w[1], w[2]>>
  <2>1. w[2] \in Half
    BY Unpacked
  <2>2. w[1] = m.psw.ic /\ m.psw.ic \in Half
    BY DEF word0, Psw
  <2>3. w = <<w[1], w[2]>>
    BY DEF word0
  <2>4. QED
    BY <2>1, <2>2, <2>3
<1>2. ASSUME NEW n \in 0 .. 7
      PROVE  R(m, n)[1] \in Half /\ R(m, n)[2] \in Half
  <2>1. m.psw.reg_set \in 0 .. 1
    BY DEF Psw
  <2>2. R(m, n) \in Half \X Half
    BY <2>1 DEF R, Word
  <2>3. QED
    BY <2>2
<1>3. g = [j \in 1 .. 16 |-> R(m, (j - 1) \div 2)[2 - (j % 2)]]
  BY DEF Registers
<1>4. ASSUME NEW j \in 1 .. 16
      PROVE  g[j] \in Half
  <2>1. (j - 1) \div 2 \in 0 .. 7 /\ (2 - (j % 2) = 1 \/ 2 - (j % 2) = 2)
    OBVIOUS
  <2>2. g[j] = R(m, (j - 1) \div 2)[2 - (j % 2)]
    BY <1>3
  <2>3. QED
    BY <1>2, <2>1, <2>2
<1>5. ASSUME NEW n \in 0 .. 7
      PROVE  g[2 * n + 1] = R(m, n)[1] /\ g[2 * n + 2] = R(m, n)[2]
  <2>1. /\ 2 * n + 1 \in 1 .. 16 /\ 2 * n + 2 \in 1 .. 16
        /\ (2 * n + 1 - 1) \div 2 = n /\ (2 * n + 2 - 1) \div 2 = n
        /\ 2 - ((2 * n + 1) % 2) = 1 /\ 2 - ((2 * n + 2) % 2) = 2
    OBVIOUS
  <2>2. /\ g[2 * n + 1] = R(m, (2 * n + 1 - 1) \div 2)[2 - ((2 * n + 1) % 2)]
        /\ g[2 * n + 2] = R(m, (2 * n + 2 - 1) \div 2)[2 - ((2 * n + 2) % 2)]
    BY <1>3, <2>1
  <2>3. QED
    BY <2>1, <2>2
<1> HIDE DEF w, g
<1>6. g \in [1 .. 16 -> Half]
  BY <1>3, <1>4
<1>7. /\ Len(w \o g) = 18 /\ (w \o g)[1] = w[1] /\ (w \o g)[2] = w[2]
      /\ \A j \in 1 .. 16 : (w \o g)[j + 2] = g[j]
  <2> DEFINE v == w[1]
             u == w[2]
  <2>1. v \in Half /\ u \in Half /\ w = <<v, u>>
    BY <1>1
  <2> HIDE DEF v, u
  <2>2. /\ Len(<<v, u>> \o g) = 18
        /\ (<<v, u>> \o g)[1] = v /\ (<<v, u>> \o g)[2] = u
        /\ \A j \in 1 .. 16 : (<<v, u>> \o g)[j + 2] = g[j]
    BY <1>6, <2>1, Joined
  <2>3. /\ Len(w \o g) = 18 /\ (w \o g)[1] = v /\ (w \o g)[2] = u
        /\ \A j \in 1 .. 16 : (w \o g)[j + 2] = g[j]
    BY <2>1, <2>2
  <2>4. QED
    BY <2>3 DEF v, u
<1>8. ASSUME NEW n \in 0 .. 7
      PROVE  (w \o g)[2 * n + 3] = R(m, n)[1] /\ (w \o g)[2 * n + 4] = R(m, n)[2]
  <2>1. /\ 2 * n + 1 \in 1 .. 16 /\ 2 * n + 2 \in 1 .. 16
        /\ (2 * n + 1) + 2 = 2 * n + 3 /\ (2 * n + 2) + 2 = 2 * n + 4
    OBVIOUS
  <2>2. (w \o g)[(2 * n + 1) + 2] = g[2 * n + 1] /\ (w \o g)[(2 * n + 2) + 2] = g[2 * n + 2]
    BY <1>7, <2>1
  <2>3. QED
    BY <1>5, <2>1, <2>2
<1>9. QED
  BY <1>7, <1>8 DEF Frame, FRAME, w, g

(* A call that is let through: the frame is stored, the pointer register   *)
(* moves on to it, and the program goes on at the procedure.               *)
Callable(m, r) ==
  /\ m.trap = "None"
  /\ ~ Outside(NextFrame(m, r), FRAME)
  /\ ~ Refused(m, Span(NextFrame(m, r), FRAME))

(* The frame of a call from m, as it is in machine n.                      *)
FrameStored(m, r, n) ==
  LET a == NextFrame(m, r)
  IN  /\ a \in Nat /\ FrameAt(n, r) = a
      /\ At(n, a) = word0(m.psw)[1] /\ At(n, a + 1) = word0(m.psw)[2]
      /\ \A j \in 0 .. 7 :
           At(n, a + 2 * j + 2) = R(m, j)[1] /\ At(n, a + 2 * j + 3) = R(m, j)[2]

LEMMA CallStores ==
  ASSUME NEW m, IsMachine(m), NEW d, d.r1 \in 0 .. 7, Callable(m, d.r1), NEW e,
         NEW n, n = call(m, d, e)
  PROVE  /\ FrameStored(m, d.r1, n)
         /\ n.trap = "None" /\ n.psw = [m.psw EXCEPT !.ic = e.ea]
<1> DEFINE a == NextFrame(m, d.r1)
           ssd == R(m, d.r1)
           off == (ssd[1] + ssd[2]) % SECTOR
           bit0 == ssd[1] - (ssd[1] % SECTOR)
           hs == Frame(m)
           saved == StoreRun(m, a, hs)
           u == SetR(saved, d.r1, <<bit0 + off, FRAME>>)
<1>1. /\ Shape(m) /\ m.psw \in Psw
      /\ m.gpr \in [0 .. 1 -> [0 .. 7 -> Word]]
      /\ m.dse \in [0 .. 1 -> [0 .. 7 -> 0 .. 15]]
  BY MachineParts
<1>2. /\ m.psw.reg_set \in 0 .. 1 /\ m.psw.dsr \in 0 .. 15
  BY <1>1 DEF Psw
<1>3. ssd[1] \in Nat /\ ssd[1] < 2 * SECTOR /\ ssd[2] \in Nat
  <2>1. ssd \in Half \X Half
    BY <1>1, <1>2 DEF R, Word
  <2> HIDE DEF ssd
  <2>2. ssd[1] \in Half /\ ssd[2] \in Half
    BY <2>1
  <2>3. QED
    BY <2>2, Sectors DEF Half
<1>4. SectorOf(m, d.r1) \in 0 .. 15
  <2>1. m.dse[m.psw.reg_set][d.r1] \in 0 .. 15
    BY <1>1, <1>2
  <2>2. QED
    BY <1>2, <2>1 DEF SectorOf, Dse
<1>5. SECTOR \in Nat \ {0} /\ off \in 0 .. SECTOR - 1
  <2>1. SECTOR \in Nat \ {0}
    BY Sectors DEF FRAME
  <2> HIDE DEF ssd
  <2>2. ssd[1] + ssd[2] \in Nat
    BY <1>3
  <2>3. \A x \in Nat : x % SECTOR \in 0 .. SECTOR - 1
    BY <2>1
  <2>4. QED
    BY <2>1, <2>2, <2>3
<1>6. a = SECTOR * SectorOf(m, d.r1) + off
  BY DEF NextFrame, Upper, Lower
<1> HIDE DEF a
<1>7. a \in Nat
  <2> HIDE DEF off
  <2>1. QED
    BY <1>4, <1>5, <1>6
<1>8. a + FRAME <= SIZE /\ m.prot \cap Span(a, FRAME) = {} /\ m.trap = "None"
  <2>1. a + FRAME \in Int /\ SIZE \in Int
    BY <1>7, Sectors DEF FRAME
  <2>2. QED
    BY <2>1 DEF Callable, Outside, Refused, a
<1>9. /\ Len(hs) = FRAME
      /\ hs[1] = word0(m.psw)[1] /\ hs[2] = word0(m.psw)[2]
      /\ \A j \in 0 .. 7 : hs[2 * j + 3] = R(m, j)[1] /\ hs[2 * j + 4] = R(m, j)[2]
  BY <1>1, FrameContents
<1>10. /\ ~ RefusedRun(m, a, hs)
       /\ Shape(saved) /\ saved.psw = m.psw /\ saved.gpr = m.gpr /\ saved.dse = m.dse
       /\ saved.trap = m.trap
       /\ \A i \in 0 .. FRAME - 1 : At(saved, a + i) = hs[i + 1]
  <2>1. Shape(m) /\ Len(hs) = FRAME
    BY <1>1, <1>9
  <2> HIDE DEF hs
  <2>2. QED
    BY <1>7, <1>8, <2>1, RunStored
<1>11. n = Jump(u, e.ea)
  BY <1>6, <1>8, <1>10 DEF call, Frame
<1> HIDE DEF saved, hs
<1>12. /\ n.psw = [m.psw EXCEPT !.ic = e.ea] /\ n.mem = saved.mem /\ n.dse = m.dse
       /\ n.trap = "None"
       /\ n.gpr = [m.gpr EXCEPT ![m.psw.reg_set][d.r1] = <<bit0 + off, FRAME>>]
  <2>1. u = [saved EXCEPT !.gpr[saved.psw.reg_set][d.r1] = <<bit0 + off, FRAME>>]
    BY DEF SetR
  <2> DEFINE g == [saved.gpr EXCEPT ![saved.psw.reg_set][d.r1] = <<bit0 + off, FRAME>>]
  <2>2. u = [saved EXCEPT !.gpr = g]
    BY <2>1
  <2> HIDE DEF u, g
  <2>3. /\ DOMAIN u = Parts /\ u.psw = saved.psw /\ u.mem = saved.mem /\ u.dse = saved.dse
        /\ u.trap = saved.trap /\ u.gpr = g
    BY <1>10, <2>2 DEF Shape, Parts
  <2>4. /\ n.psw = [u.psw EXCEPT !.ic = e.ea] /\ n.mem = u.mem /\ n.dse = u.dse
        /\ n.trap = u.trap /\ n.gpr = u.gpr
    BY <1>11, <2>3 DEF Jump, Parts
  <2>5. g = [m.gpr EXCEPT ![m.psw.reg_set][d.r1] = <<bit0 + off, FRAME>>]
    BY <1>10 DEF g
  <2>6. QED
    BY <1>8, <1>10, <2>3, <2>4, <2>5
<1>13. n.psw.reg_set = m.psw.reg_set /\ n.psw.dsr = m.psw.dsr
  BY <1>1, <1>12 DEF Shape, PswParts
<1>14. Upper(n, d.r1) = bit0 + off /\ Dse(n, d.r1) = Dse(m, d.r1)
  <2> DEFINE v == <<bit0 + off, FRAME>>
  <2>1. v[1] = bit0 + off
    OBVIOUS
  <2>2. n.gpr = [m.gpr EXCEPT ![m.psw.reg_set][d.r1] = v]
    BY <1>12
  <2> HIDE DEF v
  <2>3. n.gpr[m.psw.reg_set][d.r1] = v
    BY <1>1, <1>2, <2>2
  <2>4. R(n, d.r1) = v
    BY <1>13, <2>3 DEF R
  <2>5. Upper(n, d.r1) = bit0 + off
    BY <2>1, <2>4 DEF Upper
  <2>6. Dse(n, d.r1) = Dse(m, d.r1)
    BY <1>12, <1>13 DEF Dse
  <2>7. QED
    BY <2>5, <2>6
<1>15. /\ (bit0 + off) % SECTOR = off
       /\ bit0 + off >= SECTOR <=> ssd[1] >= SECTOR
  <2> HIDE DEF ssd, off
  <2>1. QED
    BY <1>3, <1>5, Offsets
<1>16. FrameAt(n, d.r1) = a
  <2>1. SectorOf(n, d.r1) = SectorOf(m, d.r1)
    BY <1>13, <1>14, <1>15 DEF SectorOf, Upper
  <2> HIDE DEF off, bit0
  <2>2. QED
    BY <1>6, <1>14, <1>15, <2>1 DEF FrameAt
<1>17. \A i \in 0 .. 17 : At(n, a + i) = hs[i + 1]
  BY <1>10, <1>12 DEF At, FRAME
<1>18. At(n, a) = word0(m.psw)[1] /\ At(n, a + 1) = word0(m.psw)[2]
  <2>1. a + 0 = a /\ 0 + 1 = 1 /\ 1 + 1 = 2 /\ 0 \in 0 .. 17 /\ 1 \in 0 .. 17
    BY <1>7
  <2>2. At(n, a + 0) = hs[0 + 1] /\ At(n, a + 1) = hs[1 + 1]
    BY <1>17, <2>1
  <2>3. QED
    BY <1>9, <2>1, <2>2
<1>19. ASSUME NEW j \in 0 .. 7
       PROVE  At(n, a + 2 * j + 2) = R(m, j)[1] /\ At(n, a + 2 * j + 3) = R(m, j)[2]
  <2>1. /\ 2 * j + 2 \in 0 .. 17 /\ 2 * j + 3 \in 0 .. 17
        /\ 2 * j + 2 + 1 = 2 * j + 3 /\ 2 * j + 3 + 1 = 2 * j + 4
        /\ a + (2 * j + 2) = a + 2 * j + 2 /\ a + (2 * j + 3) = a + 2 * j + 3
    BY <1>7
  <2>2. /\ At(n, a + (2 * j + 2)) = hs[2 * j + 2 + 1]
        /\ At(n, a + (2 * j + 3)) = hs[2 * j + 3 + 1]
    BY <1>17, <2>1
  <2>3. QED
    BY <1>9, <2>1, <2>2
<1>20. QED
  BY <1>7, <1>12, <1>16, <1>18, <1>19 DEF FrameStored, a

(* SCAL and SRET are inverse: whatever the program of the procedure did,   *)
(* if the eighteen halfwords of the frame are as the call left them, the   *)
(* register of the return points to the frame, and the same register set   *)
(* is in use, then a return whose condition holds brings back all eight    *)
(* registers of the caller and the word of its PSW: the address of the     *)
(* next instruction, condition code, indicators, masks and sectors.        *)
THEOREM CallReturns ==
  ASSUME NEW m, IsMachine(m), NEW d, d.r1 \in 0 .. 7, Callable(m, d.r1), NEW e,
         NEW n, n = call(m, d, e),
         NEW k, IsMachine(k), NEW f, f.operand.r2 \in 0 .. 7, cc_mask_test(k, f.r1),
         k.psw.reg_set = m.psw.reg_set,
         FrameAt(k, f.operand.r2) = FrameAt(n, d.r1),
         \A a \in Span(FrameAt(n, d.r1), FRAME) : At(k, a) = At(n, a)
  PROVE  /\ return(k, f).gpr[m.psw.reg_set] = m.gpr[m.psw.reg_set]
         /\ \A p \in WordFields : return(k, f).psw[p] = m.psw[p]
         /\ return(k, f).psw.reg_set = m.psw.reg_set
         /\ return(k, f).mem = k.mem
<1> DEFINE a == FrameAt(n, d.r1)
           word == Hs(k, a, 2)
           regs == [j \in 0 .. 7 |-> Hs(k, a + 2 + 2 * j, 2)]
           b == return(k, f)
<1>1. /\ a = NextFrame(m, d.r1) /\ a \in Nat
      /\ At(n, a) = word0(m.psw)[1] /\ At(n, a + 1) = word0(m.psw)[2]
      /\ \A j \in 0 .. 7 :
           At(n, a + 2 * j + 2) = R(m, j)[1] /\ At(n, a + 2 * j + 3) = R(m, j)[2]
  <2>1. FrameStored(m, d.r1, n)
    BY CallStores, Zenon
  <2>2. QED
    BY <2>1 DEF FrameStored
<1>2. /\ Shape(m) /\ m.psw \in Psw /\ m.gpr \in [0 .. 1 -> [0 .. 7 -> Word]]
      /\ Shape(k) /\ k.psw \in Psw /\ k.gpr \in [0 .. 1 -> [0 .. 7 -> Word]]
  BY MachineParts
<1>3. m.psw.reg_set \in 0 .. 1
  BY <1>2 DEF Psw
<1>4. ~ Outside(a, FRAME)
  BY <1>1 DEF Callable
<1>5. b = [k EXCEPT !.psw = set_word0(@, word), !.gpr[k.psw.reg_set] = regs]
  <2> DEFINE q == [k EXCEPT !.psw = set_word0(@, word)]
  <2> HIDE DEF a, word
  <2>1. /\ ~ Outside(a, 2) /\ ~ Outside(a + 2, 16)
        /\ \A j \in 0 .. 7 : ~ Outside(a + 2 + 2 * j, 2)
    BY <1>1, <1>4, Sectors DEF Outside, FRAME
  <2>2. b = LoadAll(q, a + 2)
    BY <2>1 DEF return, FrameAt, a, word
  <2>3. q.psw.reg_set = k.psw.reg_set /\ \A x, l : Hs(q, x, l) = Hs(k, x, l)
    BY <1>2 DEF set_word0, set_indicators, Shape, Parts, PswParts, Hs, At
  <2> HIDE DEF b
  <2>4. [j \in 0 .. 7 |-> IF Outside(a + 2 + 2 * j, 2) THEN q.gpr[q.psw.reg_set][j]
                          ELSE Hs(q, a + 2 + 2 * j, 2)] = regs
    BY <2>1, <2>3
  <2> HIDE DEF regs
  <2>5. b = [q EXCEPT !.gpr[k.psw.reg_set] = regs, !.trap = q.trap]
    BY <2>1, <2>2, <2>3, <2>4 DEF LoadAll
  <2>6. "gpr" \in DOMAIN q /\ "trap" \in DOMAIN q
    BY <1>2 DEF q, Shape, Parts
  <2> HIDE DEF q
  <2>7. b = [q EXCEPT !.gpr[k.psw.reg_set] = regs]
    BY <2>5, <2>6
  <2>8. QED
    BY <2>7 DEF q
<1> HIDE DEF a
<1>6. \A i \in 0 .. 17 : At(k, a + i) = At(n, a + i)
  BY <1>1 DEF Span, FRAME, a
<1>7. word = word0(m.psw)
  <2>1. word = [i \in 1 .. 2 |-> At(k, a + i - 1)]
    BY DEF Hs
  <2>2. a + 1 - 1 = a + 0 /\ a + 0 = a /\ a + 2 - 1 = a + 1
    BY <1>1
  <2>3. word = <<At(k, a), At(k, a + 1)>>
    BY <2>1, <2>2
  <2>4. At(k, a) = At(n, a) /\ At(k, a + 1) = At(n, a + 1)
    <3>1. At(k, a + 0) = At(n, a + 0) /\ At(k, a + 1) = At(n, a + 1)
      BY <1>6
    <3>2. QED
      BY <2>2, <3>1
  <2>5. word0(m.psw) = <<word0(m.psw)[1], word0(m.psw)[2]>>
    BY DEF word0
  <2>6. QED
    BY <1>1, <2>3, <2>4, <2>5
<1>8. regs = m.gpr[m.psw.reg_set]
  <2>1. ASSUME NEW j \in 0 .. 7
        PROVE  Hs(k, a + 2 + 2 * j, 2) = R(m, j)
    <3>1. R(m, j) = <<R(m, j)[1], R(m, j)[2]>>
      BY <1>2, <1>3 DEF R, Word
    <3>2. Hs(k, a + 2 + 2 * j, 2) = [i \in 1 .. 2 |-> At(k, a + 2 + 2 * j + i - 1)]
      BY DEF Hs
    <3>3. /\ a + 2 + 2 * j + 1 - 1 = a + 2 * j + 2 /\ a + 2 + 2 * j + 2 - 1 = a + 2 * j + 3
          /\ a + (2 * j + 2) = a + 2 * j + 2 /\ a + (2 * j + 3) = a + 2 * j + 3
          /\ 2 * j + 2 \in 0 .. 17 /\ 2 * j + 3 \in 0 .. 17
      BY <1>1
    <3>4. Hs(k, a + 2 + 2 * j, 2) = <<At(k, a + 2 * j + 2), At(k, a + 2 * j + 3)>>
      BY <3>2, <3>3
    <3>5. /\ At(k, a + 2 * j + 2) = At(n, a + 2 * j + 2)
          /\ At(k, a + 2 * j + 3) = At(n, a + 2 * j + 3)
      <4>1. /\ At(k, a + (2 * j + 2)) = At(n, a + (2 * j + 2))
            /\ At(k, a + (2 * j + 3)) = At(n, a + (2 * j + 3))
        BY <1>6, <3>3
      <4>2. QED
        BY <3>3, <4>1
    <3>6. QED
      BY <1>1, <3>1, <3>4, <3>5
  <2>2. regs = [j \in 0 .. 7 |-> R(m, j)]
    BY <2>1
  <2>3. m.gpr[m.psw.reg_set] = [j \in 0 .. 7 |-> m.gpr[m.psw.reg_set][j]]
    BY <1>2, <1>3
  <2>4. QED
    BY <2>2, <2>3 DEF R
<1> DEFINE q == set_word0(k.psw, word)
           g == [k.gpr EXCEPT ![k.psw.reg_set] = regs]
<1>9. b = [k EXCEPT !.psw = q, !.gpr = g]
  BY <1>5
<1> HIDE DEF b, q, g
<1>10. b.psw = q /\ b.gpr = g /\ b.mem = k.mem
  BY <1>2, <1>9 DEF Shape, Parts
<1>11. g[m.psw.reg_set] = regs
  BY <1>2, <1>3 DEF g
<1>12. \A p \in WordFields : q[p] = m.psw[p]
  BY <1>2, <1>7, WordLoaded DEF q, Shape
<1>13. q.reg_set = k.psw.reg_set
  BY <1>2 DEF q, set_word0, set_indicators, Shape, PswParts
<1>14. QED
  BY <1>8, <1>10, <1>11, <1>12, <1>13 DEF b
=============================================================================
