--------------------------- MODULE BceChannel_proofs ---------------------------
(***************************************************************************)
(* Proofs about BceChannel: what holds of one channel of the IOP for every *)
(* program, every bus and every size of the storage.                       *)
(***************************************************************************)
EXTENDS BceChannel, Bce_proofs

Transfers == [start : Nat, count : Nat, done : Nat]

(* What a receive in progress knows of itself: ReceiveHeld, and that the   *)
(* buffer is no longer than the storage and begins inside it, so that its  *)
(* addresses wrap at most once and are all different.                      *)
Held(b, t) ==
  Receiving(b) =>
    /\ b.busy
    /\ b.rx.timer <= b.mto
    /\ b.rx.remaining + t.done = t.count
    /\ b.rx.addr = t.start + t.done
    /\ b.rx.got_any <=> t.done > 0
    /\ t.start \in Addr /\ t.count \in 1..Space

Caused(b) == b.error <=> b.status # {}

(* The inductive invariant.  The three invariants need one another: an     *)
(* error at an instruction abandons the receive it started, and only a     *)
(* busy BCE is safe from the MSC's loads.                                  *)
Channel ==
  /\ Registers(bce) /\ Caused(bce)
  /\ transfer \in Transfers /\ Held(bce, transfer)
  /\ queue \in Seq(Heard)
  /\ indicator \in BOOLEAN /\ xmtr \in BOOLEAN /\ rcvr \in BOOLEAN /\ halted \in BOOLEAN

-----------------------------------------------------------------------------
(***************************************************************************)
(* One slice of a receive: the books it keeps (the invariant) and what it  *)
(* may do to the channel (the action properties).                          *)
(***************************************************************************)
Moved(t, r) == [t EXCEPT !.done = @ + Cardinality(DOMAIN r.stored)]

(* A BCE that stops says so, at an instruction found at pc.                *)
SaysSo(b, r) ==
  r.bce.busy \/
    \/ r.bce.pc = (b.pc + 1) % Space /\ r.bce.status = b.status
    \/ r.bce.error /\ r.bce.pc = b.pc /\ r.bce.indicator /\ r.bit = "set"

KeepsBooks(b, t, r) ==
  /\ Registers(r.bce) /\ Caused(r.bce)
  /\ t \in Transfers /\ Held(r.bce, t)
  /\ r.queue \in Seq(Heard) /\ r.bit \in {"set", "reset", "keep"}
  /\ SaysSo(b, r)

OwnsChannel(b, t, r) ==
  /\ r.bce.pc \in {b.pc, (b.pc + b.rx.ilen) % Space}
  /\ r.bce.pc # b.pc => Moved(t, r).done = t.count
  /\ r.sent = <<>>
  /\ DOMAIN r.stored \subseteq Block(t.start, t.count)

LEMMA ReceiveSlice ==
  ASSUME NEW b, Registers(b), Caused(b), Receiving(b), NEW t \in Transfers, Held(b, t),
         NEW x, NEW r, Pumps(b, Heard, x, r)
  PROVE  KeepsBooks(b, Moved(t, r), r) /\ OwnsChannel(b, t, r)
<1>1. PICK n \in 0..b.rx.remaining :
        /\ Stores(b, Heard, r, n)
        /\ \/ Completes(b, r, n) \/ Rejects(b, Heard, x, r, n)
           \/ GivesUp(b, r, n) \/ GoesOn(b, r, n)
  BY DEF Pumps
<1>2. /\ b.rx.remaining \in Nat /\ b.rx.addr \in Nat /\ b.rx.ilen \in Nat /\ b.mto \in Nat
      /\ t.start \in 0..(Space - 1) /\ t.done \in Nat /\ t.count \in 1..Space
      /\ b.rx.remaining + t.done = t.count /\ b.rx.addr = t.start + t.done
      /\ b.busy /\ (b.rx.got_any <=> t.done > 0)
      /\ Space \in Nat
  BY SpaceAssumption DEF Held, Registers, Receipts, Transfers, Addr
<1>3. Moved(t, r) = [t EXCEPT !.done = t.done + n]
  <2>1. n \in 0..Space /\ b.rx.addr + n <= 2 * Space
    BY <1>2
  <2>2. Cardinality(DOMAIN r.stored) = n
    BY <1>1, <1>2, <2>1, BlockSize DEF Stores
  <2>3. QED
    BY <2>2 DEF Moved
<1>4. Moved(t, r) \in Transfers
  BY <1>2, <1>3 DEF Transfers
<1>5. DOMAIN r.stored \subseteq Block(t.start, t.count)
  <2>1. ASSUME NEW i \in 0..(n - 1)
        PROVE  (b.rx.addr + i) % Space \in Block(t.start, t.count)
    <3>1. t.done + i \in 0..(t.count - 1) /\ b.rx.addr + i = t.start + (t.done + i)
      BY <1>2
    <3>2. QED
      BY <3>1 DEF Block
  <2>2. QED
    BY <1>1, <2>1 DEF Stores, Block
<1>6. r.queue \in Seq(Heard) /\ r.sent = <<>>
  BY <1>1 DEF Stores
<1>7. CASE Completes(b, r, n)
  <2> DEFINE c == Advance(b, b.rx.ilen)
  <2>1. Registers(c) /\ c.pc = (b.pc + b.rx.ilen) % Space
    BY <1>2, Advanced
  <2>2. c.error = b.error /\ c.status = b.status /\ c.busy = b.busy
    BY <1>2, Advanced
  <2>3. r.bce = [c EXCEPT !.rx = NoRx] /\ r.bit = "keep" /\ n = b.rx.remaining
    BY <1>7 DEF Completes
  <2> HIDE DEF c
  <2>4. /\ Registers(r.bce) /\ ~Receiving(r.bce)
        /\ r.bce.error = c.error /\ r.bce.status = c.status /\ r.bce.busy = c.busy
        /\ r.bce.pc = c.pc
    <3>1. NoRx \in Receipts
      BY DEF NoRx, Receipts
    <3>2. NoRx.remaining = 0
      BY DEF NoRx
    <3>3. QED
      BY <2>1, <2>3, <3>1, <3>2, ReceiptRegisters DEF Receiving
  <2>5. Moved(t, r).done = t.count
    BY <1>2, <1>3, <2>3 DEF Transfers
  <2>6. QED
    BY <1>2, <1>4, <1>5, <1>6, <2>1, <2>2, <2>3, <2>4, <2>5
    DEF KeepsBooks, OwnsChannel, SaysSo, Caused, Held
<1>8. ASSUME NEW bits \in SUBSET Flags, bits # {}, r.bce = bce_error(b, bits), r.bit = "set"
      PROVE  KeepsBooks(b, Moved(t, r), r) /\ OwnsChannel(b, t, r)
  BY <1>4, <1>5, <1>6, <1>8, ErrorRegisters DEF KeepsBooks, OwnsChannel, SaysSo, Caused, Held
<1>9. CASE Rejects(b, Heard, x, r, n)
  BY <1>8, <1>9, RejectionRecorded DEF Rejects
<1>10. CASE GivesUp(b, r, n)
  BY <1>8, <1>10 DEF GivesUp, Flags
<1>11. CASE GoesOn(b, r, n)
  <2>1. PICK kept \in Receipts :
          /\ kept.remaining = b.rx.remaining - n /\ kept.addr = b.rx.addr + n
          /\ kept.ilen = b.rx.ilen /\ kept.timer <= b.mto
          /\ kept.got_any <=> (b.rx.got_any \/ n > 0)
          /\ r.bce = [b EXCEPT !.rx = kept]
    BY <1>11 DEF GoesOn
  <2>2. /\ Registers(r.bce) /\ r.bce.pc = b.pc /\ r.bce.busy = b.busy /\ r.bce.mto = b.mto
        /\ r.bce.error = b.error /\ r.bce.status = b.status /\ r.bce.rx = kept
    BY <2>1, ReceiptRegisters
  <2>3. Held(r.bce, Moved(t, r))
    BY <1>2, <1>3, <2>1, <2>2 DEF Held, Transfers, Addr
  <2>4. r.bit = "keep"
    BY <1>11 DEF GoesOn
  <2>5. QED
    BY <1>2, <1>4, <1>5, <1>6, <2>2, <2>3, <2>4 DEF KeepsBooks, OwnsChannel, SaysSo, Caused
<1>12. QED
  BY <1>1, <1>7, <1>9, <1>10, <1>11

-----------------------------------------------------------------------------
(***************************************************************************)
(* One slice that fetches an instruction.  A BCE ready to fetch is busy    *)
(* and has no receive in progress.                                         *)
(***************************************************************************)
Ready(b) == Registers(b) /\ Caused(b) /\ b.busy /\ ~Receiving(b)

(* An instruction that fails.                                              *)
LEMMA FailSlice ==
  ASSUME NEW b, Ready(b), NEW q \in Seq(Heard),
         NEW bits \in SUBSET Flags, bits # {}, NEW r, r.bce = bce_error(b, bits),
         r.queue = q, r.bit = "set"
  PROVE  KeepsBooks(b, NoTransfer, r)
  BY ErrorRegisters DEF Ready, KeepsBooks, SaysSo, Caused, Held, Transfers, NoTransfer

(* An instruction that leaves the BCE busy and its status as it was.       *)
LEMMA BusySlice ==
  ASSUME NEW b, Ready(b), NEW c, Registers(c), c.rx = b.rx, c.busy = b.busy,
         c.error = b.error, c.status = b.status,
         NEW r, r.bce = c, r.queue \in Seq(Heard), r.bit \in {"set", "reset", "keep"}
  PROVE  KeepsBooks(b, NoTransfer, r)
  BY DEF Ready, KeepsBooks, SaysSo, Caused, Held, Transfers, NoTransfer, Receiving

LEMMA WaitSlice ==
  ASSUME NEW b, Ready(b), NEW q \in Seq(Heard)
  PROVE  KeepsBooks(b, NoTransfer, Wait(b, q))
<1> DEFINE a == Advance(b, 1)
           c == [a EXCEPT !.busy = FALSE]
<1>1. /\ Registers(a) /\ a.pc = (b.pc + 1) % Space
      /\ a.status = b.status /\ a.error = b.error /\ a.rx = b.rx
  BY Advanced DEF Ready
<1>2. Wait(b, q) = Change(c, q)
  BY DEF Wait
<1> HIDE DEF a
<1>3. /\ Registers(c) /\ c.pc = (b.pc + 1) % Space
      /\ c.status = b.status /\ c.error = b.error /\ c.rx = b.rx
  BY <1>1 DEF Registers
<1> HIDE DEF c
<1>4. QED
  BY <1>2, <1>3 DEF Ready, Change, Result, KeepsBooks, SaysSo, Caused, Held, Transfers,
                    NoTransfer, Receiving

LEMMA ListenSlice ==
  ASSUME NEW b, Ready(b), NEW ins \in Instructions, ins.op = "WIX", NEW q \in Seq(Heard),
         NEW x, NEW rc
  PROVE  KeepsBooks(b, NoTransfer, ListenFor(b, ins, q, x, rc))
<1>1. CASE x
  BY <1>1, WaitSlice DEF ListenFor
<1>2. CASE ~x /\ (~rc \/ q = <<>>)
  <2>1. ListenFor(b, ins, q, x, rc) = Change(b, q)
    BY <1>2 DEF ListenFor
  <2>2. QED
    BY <2>1, BusySlice DEF Ready, Change, Result
<1>3. CASE ~x /\ rc /\ q # <<>>
  <2> DEFINE w == Head(q)
             c == [b EXCEPT !.iuar = w.target, !.pc = ins.table[w.val]]
  <2>1. w \in Heard /\ Tail(q) \in Seq(Heard)
    BY <1>3, HeadTailProperties
  <2>2. ListenFor(b, ins, q, x, rc) = IF Listens(w) THEN Change(c, Tail(q))
                                                    ELSE Change(b, Tail(q))
    BY <1>3 DEF ListenFor
  <2> HIDE DEF w
  <2>3. CASE Listens(w)
    <3>1. ins.table[w.val] \in Addr
      BY <2>1, <2>3, OperandsAssumption
    <3>2. /\ Registers(c) /\ c.rx = b.rx /\ c.busy = b.busy
          /\ c.error = b.error /\ c.status = b.status
      BY <3>1 DEF Ready, Registers
    <3> HIDE DEF c
    <3>3. QED
      BY <2>1, <2>2, <2>3, <3>2, BusySlice DEF Change, Result
  <2>4. CASE ~Listens(w)
    BY <2>1, <2>2, <2>4, BusySlice DEF Ready, Change, Result
  <2>5. QED
    BY <2>3, <2>4
<1>4. QED
  BY <1>1, <1>2, <1>3

LEMMA StatusSlice ==
  ASSUME NEW b, Ready(b), NEW ins \in Instructions, ins.op = "SS", NEW q \in Seq(Heard)
  PROVE  KeepsBooks(b, NoTransfer, StoreStatus(b, ins, q))
<1> DEFINE a == Advance(b, 1)
           c == [a EXCEPT !.status = IF ins.clear THEN {} ELSE @,
                          !.error  = IF ins.clear THEN FALSE ELSE @]
           r == StoreStatus(b, ins, q)
<1>1. Registers(a) /\ a.status = b.status /\ a.error = b.error /\ a.rx = b.rx /\ a.busy = b.busy
  BY Advanced DEF Ready
<1>2. r.bce = c /\ r.queue = q /\ r.bit = "keep"
  BY DEF StoreStatus, Result
<1> HIDE DEF a, r
<1>3. Registers(c) /\ Caused(c) /\ c.rx = b.rx /\ c.busy = b.busy
  BY <1>1 DEF Registers, Caused, Ready
<1> HIDE DEF c
<1>4. KeepsBooks(b, NoTransfer, r)
  BY <1>2, <1>3 DEF Ready, KeepsBooks, SaysSo, Held, Transfers, NoTransfer, Receiving
<1>5. QED
  BY <1>4 DEF r

LEMMA IndicatorSlice ==
  ASSUME NEW b, Ready(b), NEW ins \in Instructions, ins.op = "IB", NEW q \in Seq(Heard)
  PROVE  KeepsBooks(b, NoTransfer, SetIndicator(b, ins, q))
<1> DEFINE a == Advance(b, 1)
           c == [a EXCEPT !.indicator = ins.set]
           r == SetIndicator(b, ins, q)
<1>1. Registers(a) /\ a.status = b.status /\ a.error = b.error /\ a.rx = b.rx /\ a.busy = b.busy
  BY Advanced DEF Ready
<1>2. r.bce = c /\ r.queue = q /\ r.bit \in {"set", "reset", "keep"}
  BY DEF SetIndicator, Result
<1>3. ins.set \in BOOLEAN
  BY OperandsAssumption
<1> HIDE DEF a, r
<1>4. /\ Registers(c) /\ c.rx = b.rx /\ c.busy = b.busy
      /\ c.status = b.status /\ c.error = b.error
  BY <1>1, <1>3 DEF Registers
<1> HIDE DEF c
<1>5. KeepsBooks(b, NoTransfer, r)
  BY <1>2, <1>4, BusySlice
<1>6. QED
  BY <1>5 DEF r

LEMMA CommandSlice ==
  ASSUME NEW b, Ready(b), NEW ins \in Instructions, ins.op = "CMD", NEW q \in Seq(Heard),
         NEW x, NEW reply, reply.command \in Seq(Heard)
  PROVE  KeepsBooks(b, NoTransfer, SendCommand(b, ins, q, x, reply))
<1> DEFINE a == Advance(b, 2)
           c == [a EXCEPT !.iuar = IF ~ ins.direct \/ x THEN ins.word.iua ELSE @]
           r == SendCommand(b, ins, q, x, reply)
<1>1. Registers(a) /\ a.status = b.status /\ a.error = b.error /\ a.rx = b.rx /\ a.busy = b.busy
  BY Advanced DEF Ready
<1>2. r.bce = c /\ r.queue \in {q, q \o reply.command} /\ r.bit = "keep"
  BY DEF SendCommand, Change, Result
<1>3. q \o reply.command \in Seq(Heard)
  BY ConcatProperties
<1> HIDE DEF a, r
<1>4. /\ Registers(c) /\ c.rx = b.rx /\ c.busy = b.busy
      /\ c.status = b.status /\ c.error = b.error
  BY <1>1 DEF Registers
<1> HIDE DEF c
<1>5. KeepsBooks(b, NoTransfer, r)
  BY <1>2, <1>3, <1>4, BusySlice
<1>6. QED
  BY <1>5 DEF r

LEMMA TransmitSlice ==
  ASSUME NEW b, Ready(b), NEW q \in Seq(Heard), NEW x, NEW mem, NEW reply,
         reply.data = <<>>, NEW start, NEW count, NEW ilen \in {1, 2, 4}
  PROVE  LET r == transmit_data(b, q, x, mem, reply, start, count, ilen)
         IN  KeepsBooks(b, NoTransfer, r)
<1> DEFINE words == [i \in 1..count |-> DataWord(b.iuar, mem[(start + i - 1) % Space])]
           r == transmit_data(b, q, x, mem, reply, start, count, ilen)
           a == Advance(b, ilen)
<1>1. CASE ~x
  <2>1. r = Fail(b, q, <<>>, Nothing, {"XMT_DISABLED"})
    BY <1>1 DEF transmit_data
  <2>2. {"XMT_DISABLED"} \in SUBSET Flags /\ {"XMT_DISABLED"} # {}
    BY DEF Flags
  <2> HIDE DEF r
  <2>3. r.bce = bce_error(b, {"XMT_DISABLED"}) /\ r.queue = q /\ r.bit = "set"
    BY <2>1 DEF Fail, Result
  <2>4. KeepsBooks(b, NoTransfer, r)
    BY <2>2, <2>3, FailSlice
  <2>5. QED
    BY <2>4 DEF r
<1>2. CASE x
  <2>1. r = Result(a, q \o reply.data, words, Nothing, "keep")
    BY <1>2 DEF transmit_data
  <2>2. /\ Registers(a) /\ a.status = b.status /\ a.error = b.error /\ a.rx = b.rx
        /\ a.busy = b.busy
    <3>1. ilen \in Nat
      OBVIOUS
    <3>2. QED
      BY <3>1, Advanced DEF Ready
  <2>3. q \o reply.data \in Seq(Heard)
    BY ConcatEmptySeq
  <2> HIDE DEF r, a, words
  <2>4. r.bce = a /\ r.queue \in Seq(Heard) /\ r.bit = "keep"
    BY <2>1, <2>3 DEF Result
  <2>5. KeepsBooks(b, NoTransfer, r)
    BY <2>2, <2>4, BusySlice
  <2>6. QED
    BY <2>5 DEF r
<1>3. QED
  BY <1>1, <1>2

(* A receive that starts: no word stored yet, all its patience left.       *)
LEMMA StartSlice ==
  ASSUME NEW b, Ready(b), NEW q \in Seq(Heard), NEW x \in BOOLEAN, NEW rc \in BOOLEAN,
         NEW start \in Addr, NEW count \in 1..Space, NEW ilen \in {1, 2, 4}
  PROVE  LET r == receive_data(b, q, x, rc, start, count, ilen)
             t == [start |-> start, count |-> count, done |-> 0]
         IN  KeepsBooks(b, Moved(t, r), r) /\ IsResult(r)
<1> DEFINE rx == [remaining |-> count, addr |-> start, ilen |-> ilen, timer |-> b.mto,
                  got_any |-> FALSE]
           c == [b EXCEPT !.rx = rx]
           t == [start |-> start, count |-> count, done |-> 0]
           r == receive_data(b, q, x, rc, start, count, ilen)
<1>1. rx \in Receipts
  BY SpaceAssumption DEF Ready, Registers, Receipts, Addr
<1>2. /\ Registers(c) /\ c.rx = rx /\ c.busy = b.busy /\ c.mto = b.mto
      /\ c.pc = b.pc /\ c.status = b.status /\ c.error = b.error
  BY ZenonT(30), <1>1, ReceiptRegisters DEF Ready
<1>3. r = receive_pump(c, q, x, rc)
  BY DEF receive_data
<1> HIDE DEF c, r
<1>4. t \in Transfers /\ Held(c, t) /\ Receiving(c) /\ InReceipt(c) /\ Caused(c)
  BY <1>2, SpaceAssumption DEF Ready, Registers, Transfers, Held, Receiving, InReceipt, Caused, Addr
<1> HIDE DEF t, rx
<1>5. Pumps(c, Heard, x, r)
  BY <1>2, <1>3, <1>4, PumpResult
<1>6. KeepsBooks(c, Moved(t, r), r)
  BY <1>2, <1>4, <1>5, ReceiveSlice
<1>7. KeepsBooks(b, Moved(t, r), r)
  BY <1>2, <1>6 DEF KeepsBooks, SaysSo
<1>8. IsResult(r)
  BY <1>5 DEF Pumps, Stores
<1>9. QED
  BY <1>7, <1>8 DEF r, t

(* #MOUT and #MIN: the command goes out first, and the data phase runs     *)
(* under the interface unit address it names.                              *)
LEMMA MessageSlice ==
  ASSUME NEW b, Ready(b), NEW ins \in Instructions, ins.op \in {"MOUT", "MIN"},
         NEW q \in Seq(Heard), NEW x \in BOOLEAN, NEW rc \in BOOLEAN, NEW mem, NEW reply,
         reply.command \in Seq(Heard), reply.data = <<>>
  PROVE  LET r == Message(b, ins, q, x, rc, mem, reply)
             t == [start |-> EvenPart((b.base + ins.disp) % Space), count |-> ins.count,
                   done |-> 0]
         IN  KeepsBooks(b, IF ins.op = "MIN" /\ x THEN Moved(t, r) ELSE NoTransfer, r)
<1> DEFINE c     == [b EXCEPT !.iuar = ins.word.iua]
           heard == q \o reply.command
           start == EvenPart((b.base + ins.disp) % Space)
           out   == transmit_data(c, heard, x, mem, reply, start, ins.count, ins.ilen)
           in    == receive_data(c, heard, x, rc, start, ins.count, ins.ilen)
           data  == IF ins.op = "MOUT" THEN out ELSE in
           t     == [start |-> start, count |-> ins.count, done |-> 0]
           r     == Message(b, ins, q, x, rc, mem, reply)
<1>1. r = IF ~ x THEN Fail(b, q, <<>>, Nothing, {"XMT_DISABLED"})
                 ELSE [data EXCEPT !.sent = <<ins.word>> \o @]
  BY DEF Message
<1>2. ins.count \in 1..Space /\ ins.ilen \in {1, 2, 4} /\ ins.disp \in Nat
  BY OperandsAssumption
<1>3. start \in Addr
  <2>1. b.base \in Int
    BY SpaceAssumption DEF Ready, Registers, Addr
  <2>2. (b.base + ins.disp) % Space \in 0..(Space - 1)
    BY <1>2, <2>1, SpaceAssumption
  <2>3. \A a \in 0..(Space - 1) : EvenPart(a) \in 0..(Space - 1)
    BY SpaceAssumption DEF EvenPart
  <2>4. QED
    BY <2>2, <2>3 DEF Addr
<1>4. heard \in Seq(Heard)
  BY ConcatProperties
<1>5. /\ Registers(c) /\ c.rx = b.rx /\ c.busy = b.busy /\ c.pc = b.pc
      /\ c.status = b.status /\ c.error = b.error
  BY DEF Ready, Registers
<1> HIDE DEF c, heard, start, r
<1>6. Ready(c)
  BY <1>5 DEF Ready, Caused, Receiving
<1>7. CASE ~x
  <2>1. {"XMT_DISABLED"} \in SUBSET Flags /\ {"XMT_DISABLED"} # {}
    BY DEF Flags
  <2>2. r.bce = bce_error(b, {"XMT_DISABLED"}) /\ r.queue = q /\ r.bit = "set"
    BY <1>1, <1>7 DEF Fail, Result
  <2>3. KeepsBooks(b, NoTransfer, r)
    BY <2>1, <2>2, FailSlice
  <2>4. QED
    BY <1>7, <2>3 DEF r
<1>8. ASSUME x, IsResult(data), NEW u, KeepsBooks(c, u, data)
      PROVE  KeepsBooks(b, u, r) /\ r.stored = data.stored
  <2>1. r = [data EXCEPT !.sent = <<ins.word>> \o @]
    BY <1>1, <1>8
  <2> HIDE DEF data
  <2>2. /\ r.bce = data.bce /\ r.queue = data.queue /\ r.bit = data.bit
        /\ r.stored = data.stored
    BY <1>8, <2>1 DEF IsResult, Result
  <2>3. QED
    BY <1>5, <1>8, <2>2 DEF KeepsBooks, SaysSo
<1>9. CASE x /\ ins.op = "MOUT"
  <2>1. data = out
    BY <1>9
  <2>2. IsResult(out)
    BY <1>9 DEF transmit_data, IsResult, Result
  <2>3. KeepsBooks(c, NoTransfer, out)
    BY <1>2, <1>4, <1>6, TransmitSlice
  <2> HIDE DEF data, out
  <2>4. KeepsBooks(b, NoTransfer, r)
    BY <1>8, <1>9, <2>1, <2>2, <2>3
  <2>5. QED
    BY <1>9, <2>4 DEF r
<1>10. CASE x /\ ins.op = "MIN"
  <2>1. data = in
    BY <1>10
  <2>2. KeepsBooks(c, Moved(t, in), in) /\ IsResult(in)
    BY <1>2, <1>3, <1>4, <1>6, StartSlice
  <2> HIDE DEF data, in
  <2>3. KeepsBooks(b, Moved(t, data), r) /\ r.stored = data.stored
    BY <1>8, <1>10, <2>1, <2>2
  <2>4. KeepsBooks(b, Moved(t, r), r)
    BY <2>3 DEF Moved
  <2>5. QED
    BY <1>10, <2>4 DEF r, start
<1>11. QED
  BY <1>7, <1>9, <1>10

(* Any instruction, as the dispatch takes it.                              *)
LEMMA FetchedSlice ==
  ASSUME NEW b, Ready(b), NEW ins \in Instructions, NEW q \in Seq(Heard),
         xmtr \in BOOLEAN, rcvr \in BOOLEAN,
         NEW reply, reply.command \in Seq(Heard), reply.data = <<>>
  PROVE  LET r == Slice(b, ins, q, xmtr, rcvr, Storage, reply)
         IN  KeepsBooks(b, IF StartsReceive(b, ins) THEN Moved(Started(b, ins), r)
                                                    ELSE NoTransfer, r)
<1> DEFINE r == Slice(b, ins, q, xmtr, rcvr, Storage, reply)
           at(disp) == (b.base + disp) % Space
           Goal == KeepsBooks(b, IF StartsReceive(b, ins) THEN Moved(Started(b, ins), r)
                                                          ELSE NoTransfer, r)
<1> SUFFICES Goal
  OBVIOUS
<1>1. ~Receiving(b) /\ b.base \in Addr /\ Registers(b)
  BY DEF Ready, Registers
<1>2. CASE Unaligned(b, ins)
  <2>1. r = Fail(b, q, <<>>, Nothing, {"BOUNDARY"})
    BY <1>1, <1>2 DEF Slice
  <2>2. {"BOUNDARY"} \in SUBSET Flags /\ {"BOUNDARY"} # {}
    BY DEF Flags
  <2> HIDE DEF r
  <2>3. r.bce = bce_error(b, {"BOUNDARY"}) /\ r.queue = q /\ r.bit = "set"
    BY <2>1 DEF Fail, Result
  <2>4. KeepsBooks(b, NoTransfer, r)
    BY <2>2, <2>3, FailSlice
  <2>5. QED
    BY <1>2, <2>4 DEF StartsReceive
<1>3. CASE ~Unaligned(b, ins)
  <2>1. r = Execute(b, ins, q, xmtr, rcvr, Storage, reply)
    BY <1>1, <1>3 DEF Slice
  <2> HIDE DEF r
  <2>2. \A disp \in Nat : at(disp) \in Addr
    <3>1. b.base \in Int
      BY <1>1, SpaceAssumption DEF Addr
    <3>2. QED
      BY <3>1, SpaceAssumption DEF Addr
  <2>3. ASSUME ~StartsReceive(b, ins), KeepsBooks(b, NoTransfer, r)
        PROVE  Goal
    BY <2>3
  <2>4. CASE ins.op = "WAT"
    BY <2>1, <2>3, <2>4, WaitSlice DEF Execute, StartsReceive
  <2>5. CASE ins.op = "WIX"
    BY <2>1, <2>3, <2>5, ListenSlice DEF Execute, StartsReceive
  <2>6. CASE ins.op = "SS"
    BY <2>1, <2>3, <2>6, StatusSlice DEF Execute, StartsReceive
  <2>7. CASE ins.op = "TDS"
    BY <2>1, <2>3, <2>7, TransmitSlice DEF Execute, StartsReceive
  <2>8. CASE ins.op = "RDS"
    <3> DEFINE in == receive_data(b, q, xmtr, rcvr, at(ins.disp), ins.count, 1)
               t == [start |-> at(ins.disp), count |-> ins.count, done |-> 0]
    <3>1. at(ins.disp) \in Addr /\ ins.count \in 1..Space
      BY <2>2, <2>8, OperandsAssumption
    <3> HIDE DEF at
    <3>2. KeepsBooks(b, Moved(t, in), in)
      BY <3>1, StartSlice
    <3>3. r = in /\ Started(b, ins) = t /\ StartsReceive(b, ins)
      BY <1>1, <1>3, <2>1, <2>8 DEF Execute, Started, StartsReceive, at
    <3>4. QED
      BY <3>2, <3>3
  <2>9. CASE ins.op = "LTO"
    <3> DEFINE a == Advance(b, 1)
               c == [a EXCEPT !.mto = ins.value]
    <3>1. /\ Registers(a) /\ a.rx = b.rx /\ a.busy = b.busy
          /\ a.error = b.error /\ a.status = b.status
      BY <1>1, Advanced
    <3>2. ins.value \in Nat
      BY <2>9, OperandsAssumption
    <3>3. r = Change(c, q)
      BY <2>1, <2>9 DEF Execute
    <3> HIDE DEF a
    <3>4. /\ Registers(c) /\ c.rx = b.rx /\ c.busy = b.busy
          /\ c.error = b.error /\ c.status = b.status
      BY <3>1, <3>2 DEF Registers
    <3> HIDE DEF c
    <3>5. KeepsBooks(b, NoTransfer, r)
      BY <3>3, <3>4, BusySlice DEF Change, Result
    <3>6. QED
      BY <2>3, <2>9, <3>5 DEF StartsReceive
  <2>10. CASE ins.op = "DLY"
    <3> DEFINE a == Advance(b, 1)
    <3>1. /\ Registers(a) /\ a.rx = b.rx /\ a.busy = b.busy
          /\ a.error = b.error /\ a.status = b.status
      BY <1>1, Advanced
    <3>2. r = Change(a, q)
      BY <2>1, <2>10 DEF Execute
    <3> HIDE DEF a
    <3>3. KeepsBooks(b, NoTransfer, r)
      BY <3>1, <3>2, BusySlice DEF Change, Result
    <3>4. QED
      BY <2>3, <2>10, <3>3 DEF StartsReceive
  <2>11. CASE ins.op = "IB"
    BY <2>1, <2>3, <2>11, IndicatorSlice DEF Execute, StartsReceive
  <2>12. CASE ins.op = "BU"
    <3> DEFINE c == [b EXCEPT !.pc = ins.value]
    <3>1. ins.value \in Addr
      BY <2>12, OperandsAssumption
    <3>2. /\ Registers(c) /\ c.rx = b.rx /\ c.busy = b.busy
          /\ c.error = b.error /\ c.status = b.status
      BY <1>1, <3>1 DEF Registers
    <3>3. r = Change(c, q)
      BY <2>1, <2>12 DEF Execute
    <3> HIDE DEF c
    <3>4. KeepsBooks(b, NoTransfer, r)
      BY <3>2, <3>3, BusySlice DEF Change, Result
    <3>5. QED
      BY <2>3, <2>12, <3>4 DEF StartsReceive
  <2>13. CASE ins.op = "LBR"
    <3> DEFINE a == Advance(b, 2)
               c == [a EXCEPT !.base = ins.value]
    <3>1. /\ Registers(a) /\ a.rx = b.rx /\ a.busy = b.busy
          /\ a.error = b.error /\ a.status = b.status
      BY <1>1, Advanced
    <3>2. ins.value \in Addr
      BY <2>13, OperandsAssumption
    <3>3. r = Change(c, q)
      BY <2>1, <2>13 DEF Execute
    <3> HIDE DEF a
    <3>4. /\ Registers(c) /\ c.rx = b.rx /\ c.busy = b.busy
          /\ c.error = b.error /\ c.status = b.status
      BY <3>1, <3>2 DEF Registers
    <3> HIDE DEF c
    <3>5. KeepsBooks(b, NoTransfer, r)
      BY <3>3, <3>4, BusySlice DEF Change, Result
    <3>6. QED
      BY <2>3, <2>13, <3>5 DEF StartsReceive
  <2>14. CASE ins.op = "CMD"
    BY <2>1, <2>3, <2>14, CommandSlice DEF Execute, StartsReceive
  <2>15. CASE ins.op = "TDL"
    BY <2>1, <2>3, <2>15, TransmitSlice DEF Execute, StartsReceive
  <2>16. CASE ins.op = "RDL"
    <3> DEFINE in == receive_data(b, q, xmtr, rcvr, at(0), ins.count, 2)
               t == [start |-> b.base, count |-> ins.count, done |-> 0]
    <3>1. at(0) = b.base /\ ins.count \in 1..Space
      <4>1. b.base + 0 = b.base /\ b.base \in 0..(Space - 1)
        BY <1>1, SpaceAssumption DEF Addr
      <4>2. b.base % Space = b.base
        <5>1. \A a \in 0..(Space - 1) : a % Space = a
          BY SpaceAssumption
        <5>2. QED
          BY <4>1, <5>1
      <4>3. QED
        BY <2>16, <4>1, <4>2, OperandsAssumption
    <3> HIDE DEF at
    <3>2. KeepsBooks(b, Moved(t, in), in)
      BY <1>1, <3>1, StartSlice
    <3>3. r = in /\ Started(b, ins) = t /\ StartsReceive(b, ins)
      BY <1>1, <1>3, <2>1, <2>16 DEF Execute, Started, StartsReceive, at
    <3>4. QED
      BY <3>2, <3>3
  <2>17. CASE ins.op \in {"MOUT", "MIN"}
    <3> DEFINE t == [start |-> EvenPart((b.base + ins.disp) % Space), count |-> ins.count,
                     done |-> 0]
    <3>1. KeepsBooks(b, IF ins.op = "MIN" /\ xmtr THEN Moved(t, r) ELSE NoTransfer, r)
      BY <2>1, <2>17, MessageSlice DEF Execute
    <3>2. StartsReceive(b, ins) <=> (ins.op = "MIN" /\ xmtr)
      BY <1>1, <1>3, <2>17 DEF StartsReceive
    <3>3. ins.op = "MIN" => Started(b, ins) = t
      BY DEF Started
    <3>4. QED
      BY <3>1, <3>2, <3>3
  <2>18. CASE ins.op = "ILLEGAL"
    <3>1. r = Fail(b, q, <<>>, Nothing, {"ILLEGAL"})
      BY <2>1, <2>18 DEF Execute
    <3>2. {"ILLEGAL"} \in SUBSET Flags /\ {"ILLEGAL"} # {}
      BY DEF Flags
    <3>3. r.bce = bce_error(b, {"ILLEGAL"}) /\ r.queue = q /\ r.bit = "set"
      BY <3>1 DEF Fail, Result
    <3>4. KeepsBooks(b, NoTransfer, r)
      BY <3>2, <3>3, FailSlice
    <3>5. QED
      BY <2>3, <2>18, <3>4 DEF StartsReceive
  <2>19. Goal
    BY <2>4, <2>5, <2>6, <2>7, <2>8, <2>9, <2>10, <2>11, <2>12, <2>13, <2>14, <2>15, <2>16,
       <2>17, <2>18, OperandsAssumption
  <2>20. QED
    BY <2>19
<1>4. QED
  BY <1>2, <1>3

-----------------------------------------------------------------------------
(***************************************************************************)
(* The steps of the channel.                                               *)
(***************************************************************************)
Owned ==
  /\ bce'.pc \in {bce.pc, (bce.pc + bce.rx.ilen) % Space}
  /\ bce'.pc # bce.pc => transfer'.done = transfer.count
  /\ sent' = <<>>
  /\ stored' \subseteq {(transfer.start + i) % Space : i \in 0..(transfer.count - 1)}

Seen ==
  \/ bce'.pc = (bce.pc + 1) % Space /\ bce'.status = bce.status
  \/ bce'.error /\ bce'.pc = bce.pc /\ bce'.indicator /\ indicator'

(* The MSC cannot touch a busy BCE; of one that waits it may load the      *)
(* program counter or the base, or start it.                               *)
LEMMA Touched ==
  ASSUME Registers(bce), Caused(bce), NEW m \in MscOps
  PROVE  LET b == MscTouch(bce, m)
         IN  /\ Registers(b) /\ Caused(b)
             /\ b.rx = bce.rx
             /\ bce.busy => b = bce
<1> DEFINE b == MscTouch(bce, m)
<1>1. 0 \in Addr
  BY SpaceAssumption DEF Addr
<1>2. CASE m = "SIO"
  BY <1>2 DEF MscTouch, Registers, Caused
<1>3. CASE m = "LBP"
  BY <1>1, <1>3 DEF MscTouch, Registers, Caused
<1>4. CASE m = "LBB"
  BY <1>1, <1>4 DEF MscTouch, Registers, Caused
<1>5. CASE m \in {"RBI", "other"}
  BY <1>5 DEF MscTouch
<1>6. QED
  BY <1>2, <1>3, <1>4, <1>5 DEF MscOps

LEMMA IndicatorType ==
  ASSUME indicator \in BOOLEAN, NEW m, NEW bit \in {"set", "reset", "keep"}
  PROVE  IndicatorAfter(m, bit) \in BOOLEAN /\ IndicatorAfter(m, "set")
  BY DEF IndicatorAfter

LEMMA IdleSteps ==
  ASSUME Channel, NEW m \in MscOps, IdleSlice(m)
  PROVE  Channel' /\ ~Receiving(bce) /\ ~bce.busy
<1> DEFINE b == MscTouch(bce, m)
<1>1. /\ Registers(b) /\ Caused(b) /\ b.rx = bce.rx /\ ~b.busy
      /\ bce.busy => b = bce
  BY Touched DEF Channel, IdleSlice
<1>2. /\ bce' = b /\ queue' = queue /\ transfer' = NoTransfer
      /\ indicator' = IndicatorAfter(m, "keep")
      /\ UNCHANGED <<xmtr, rcvr, halted>>
  BY DEF IdleSlice, Becomes, Change, Result
<1> HIDE DEF b
<1>3. ~bce.busy /\ ~Receiving(bce) /\ ~Receiving(b)
  BY <1>1 DEF Channel, Held, Receiving
<1>4. indicator' \in BOOLEAN
  BY <1>2, IndicatorType DEF Channel
<1>5. Registers(bce') /\ Caused(bce') /\ ~Receiving(bce')
  BY <1>1, <1>2, <1>3
<1>6. QED
  BY <1>2, <1>3, <1>4, <1>5 DEF Channel, Held, Transfers, NoTransfer

(* From what a slice returns to the next state of the channel.             *)
LEMMA BecomesChannel ==
  ASSUME Channel, NEW b, NEW m, NEW r, NEW moved \in Transfers, Becomes(m, r, moved),
         NEW t, t = IF moved = NoTransfer THEN NoTransfer ELSE Moved(moved, r),
         KeepsBooks(b, t, r)
  PROVE  /\ Channel' /\ transfer' = t /\ bce' = r.bce
         /\ r.bit = "set" => indicator'
<1>1. /\ bce' = r.bce /\ queue' = r.queue /\ indicator' = IndicatorAfter(m, r.bit)
      /\ transfer' = t /\ UNCHANGED <<xmtr, rcvr, halted>>
  BY DEF Becomes, Moved
<1>2. indicator' \in BOOLEAN /\ (r.bit = "set" => indicator')
  BY <1>1, IndicatorType DEF Channel, KeepsBooks
<1>3. QED
  BY <1>1, <1>2 DEF Channel, KeepsBooks

LEMMA ResumeSteps ==
  ASSUME Channel, NEW m \in MscOps, ResumeSlice(m)
  PROVE  Channel' /\ Receiving(bce) /\ Owned /\ (~bce'.busy => Seen)
<1>1. Receiving(bce) /\ bce.busy /\ MscTouch(bce, m) = bce
  BY Touched DEF Channel, ResumeSlice, Held, Receiving
<1>2. PICK ins \in Instructions :
        Becomes(m, Slice(bce, ins, queue, xmtr, rcvr, Storage, NoReply), transfer)
  BY <1>1 DEF ResumeSlice
<1> DEFINE r == receive_pump(bce, queue, xmtr, rcvr)
<1>3. Becomes(m, r, transfer)
  BY <1>1, <1>2 DEF Slice
<1>4. InReceipt(bce)
  <2>1. /\ bce.rx.timer <= bce.mto /\ bce.rx.remaining + transfer.done = transfer.count
        /\ bce.rx.addr = transfer.start + transfer.done
        /\ transfer.start \in 0..(Space - 1) /\ transfer.count \in 1..Space
    BY <1>1 DEF Channel, Held, Addr
  <2>2. bce.rx.remaining \in Nat /\ transfer.done \in Nat /\ Space \in Nat
    BY SpaceAssumption DEF Channel, Registers, Receipts, Transfers
  <2>3. QED
    BY <1>1, <2>1, <2>2 DEF InReceipt
<1>5. Pumps(bce, Heard, xmtr, r)
  BY <1>4, PumpResult DEF Channel
<1> HIDE DEF r
<1>6. KeepsBooks(bce, Moved(transfer, r), r) /\ OwnsChannel(bce, transfer, r)
  BY <1>1, <1>5, ReceiveSlice DEF Channel
<1>7. transfer # NoTransfer /\ transfer \in Transfers
  BY <1>1, SpaceAssumption DEF Channel, Held, NoTransfer
<1>8. Channel' /\ transfer' = Moved(transfer, r) /\ bce' = r.bce /\ (r.bit = "set" => indicator')
  BY <1>3, <1>6, <1>7, BecomesChannel
<1>9. sent' = r.sent /\ stored' = DOMAIN r.stored
  BY <1>3 DEF Becomes
<1>10. Owned
  BY <1>6, <1>8, <1>9 DEF OwnsChannel, Owned, Block
<1>11. ~bce'.busy => Seen
  BY <1>6, <1>8 DEF KeepsBooks, SaysSo, Seen
<1>12. QED
  BY <1>1, <1>8, <1>10, <1>11

LEMMA FetchSteps ==
  ASSUME Channel, NEW m \in MscOps, NEW ins \in Instructions, NEW answer \in Seq(Heard),
         FetchSlice(m, ins, answer)
  PROVE  Channel' /\ ~Receiving(bce) /\ (bce.busy /\ ~bce'.busy => Seen)
<1> DEFINE b == MscTouch(bce, m)
           reply == [NoReply EXCEPT !.command = answer]
           r == Slice(b, ins, queue, xmtr, rcvr, Storage, reply)
           moved == IF StartsReceive(b, ins) THEN Started(b, ins) ELSE NoTransfer
           t == IF StartsReceive(b, ins) THEN Moved(Started(b, ins), r) ELSE NoTransfer
<1>1. /\ Registers(b) /\ Caused(b) /\ b.rx = bce.rx /\ b.busy /\ ~Receiving(b)
      /\ bce.busy => b = bce
  BY Touched DEF Channel, FetchSlice
<1>2. Becomes(m, r, moved)
  BY DEF FetchSlice
<1>3. reply.command = answer /\ reply.data = <<>>
  BY DEF NoReply
<1> HIDE DEF b, reply
<1>4. Ready(b)
  BY <1>1 DEF Ready
<1>5. KeepsBooks(b, t, r)
  BY <1>3, <1>4, FetchedSlice DEF Channel
<1> HIDE DEF r
<1>6. moved \in Transfers /\ (StartsReceive(b, ins) => moved # NoTransfer)
  <2>1. CASE StartsReceive(b, ins)
    <3>1. ins.op \in {"RDS", "RDL", "MIN"}
      BY <2>1 DEF StartsReceive
    <3>2. /\ ins.count \in 1..Space
          /\ ins.op \in {"RDS", "MIN"} => ins.disp \in Nat
      BY <3>1, OperandsAssumption
    <3>3. Started(b, ins).start \in Nat
      <4>1. b.base \in Nat
        BY <1>1, SpaceAssumption DEF Registers, Addr
      <4>2. ins.op \in {"RDS", "MIN"} => (b.base + ins.disp) % Space \in 0..(Space - 1)
        BY <3>2, <4>1, SpaceAssumption
      <4>3. \A a \in 0..(Space - 1) : EvenPart(a) \in Nat
        BY SpaceAssumption DEF EvenPart
      <4>4. QED
        BY <3>1, <4>1, <4>2, <4>3, SpaceAssumption DEF Started
    <3>4. Started(b, ins).count = ins.count /\ Started(b, ins).done = 0
          /\ Started(b, ins) = [start |-> Started(b, ins).start, count |-> ins.count, done |-> 0]
      <4> DEFINE start == CASE ins.op = "RDS" -> (b.base + ins.disp) % Space
                            [] ins.op = "RDL" -> b.base
                            [] ins.op = "MIN" -> EvenPart((b.base + ins.disp) % Space)
      <4>1. Started(b, ins) = [start |-> start, count |-> ins.count, done |-> 0]
        BY DEF Started
      <4> HIDE DEF start
      <4>2. QED
        BY <4>1
    <3>5. QED
      BY <2>1, <3>2, <3>3, <3>4, SpaceAssumption DEF Transfers, NoTransfer
  <2>2. CASE ~StartsReceive(b, ins)
    BY <2>2 DEF Transfers, NoTransfer
  <2>3. QED
    BY <2>1, <2>2
<1>7. t = IF moved = NoTransfer THEN NoTransfer ELSE Moved(moved, r)
  BY <1>6
<1> HIDE DEF moved, t
<1>8. Channel' /\ bce' = r.bce /\ (r.bit = "set" => indicator')
  BY <1>2, <1>5, <1>6, <1>7, BecomesChannel
<1>9. bce.busy /\ ~bce'.busy => Seen
  BY <1>1, <1>5, <1>8 DEF KeepsBooks, SaysSo, Seen
<1>10. QED
  BY <1>1, <1>8, <1>9 DEF Receiving

LEMMA SlotSteps ==
  ASSUME Channel, Slot
  PROVE  Channel' /\ (Receiving(bce) => Owned) /\ (bce.busy /\ ~bce'.busy => Seen)
<1>1. PICK m \in MscOps :
        \/ IdleSlice(m)
        \/ ResumeSlice(m)
        \/ \E ins \in Instructions :
             \E answer \in IF ins.op \in {"CMD", "MOUT", "MIN"} THEN Answers ELSE {<<>>} :
                FetchSlice(m, ins, answer)
  BY DEF Slot
<1>2. CASE IdleSlice(m)
  BY <1>2, IdleSteps
<1>3. CASE ResumeSlice(m)
  BY <1>3, ResumeSteps
<1>4. ASSUME NEW ins \in Instructions,
             NEW answer \in IF ins.op \in {"CMD", "MOUT", "MIN"} THEN Answers ELSE {<<>>},
             FetchSlice(m, ins, answer)
      PROVE  Channel' /\ (Receiving(bce) => Owned) /\ (bce.busy /\ ~bce'.busy => Seen)
  <2>1. answer \in Seq(Heard)
    BY AnswersAssumption, EmptySeq
  <2>2. QED
    BY <1>4, <2>1, FetchSteps
<1>5. QED
  BY <1>1, <1>2, <1>3, <1>4

(* Everything that happens between two slices leaves the BCE alone, but    *)
(* for a master reset, which puts it in its first state.                   *)
LEMMA OtherSteps ==
  ASSUME Channel, (\E w \in Arrivals : Arrive(w)) \/ (\E x, r \in BOOLEAN : EnableMia(x, r))
                  \/ Halt
  PROVE  Channel' /\ (Receiving(bce) => Owned) /\ bce' = bce
<1>1. bce' = bce /\ Quiet
  BY DEF Arrive, EnableMia, Halt
<1>2. transfer' \in Transfers /\ Held(bce', transfer') /\ (Receiving(bce) => transfer' = transfer)
  BY <1>1 DEF Channel, Held, Quiet, Transfers, NoTransfer
<1>3. Receiving(bce) => Owned
  BY <1>1 DEF Owned, Quiet
<1>4. queue' \in Seq(Heard)
  <2>1. ASSUME NEW w \in Arrivals
        PROVE  Append(queue, w) \in Seq(Heard)
    <3>1. w \in Heard
      BY DEF Heard
    <3>2. QED
      BY <3>1, AppendProperties DEF Channel
  <2>2. QED
    BY <2>1 DEF Arrive, EnableMia, Halt, Channel
<1>5. /\ indicator' \in BOOLEAN /\ xmtr' \in BOOLEAN /\ rcvr' \in BOOLEAN
      /\ halted' \in BOOLEAN
  BY DEF Arrive, EnableMia, Halt, Channel
<1>6. QED
  BY <1>1, <1>2, <1>3, <1>4, <1>5 DEF Channel

LEMMA ResetRegisters ==
  LET b == ResetBce(PowerUpIua)
  IN  Registers(b) /\ Caused(b) /\ ~Receiving(b) /\ ~b.busy
<1>1. NoRx \in Receipts /\ NoRx.remaining = 0
  BY DEF NoRx, Receipts
<1>2. 0 \in Addr
  BY SpaceAssumption DEF Addr
<1>3. QED
  BY <1>1, <1>2 DEF ResetBce, Registers, Caused, Receiving

LEMMA ResetSteps ==
  ASSUME Channel, MasterReset
  PROVE  Channel'
<1>1. bce' = ResetBce(PowerUpIua)
  BY DEF MasterReset
<1>2. Registers(bce') /\ Caused(bce') /\ ~Receiving(bce')
  BY <1>1, ResetRegisters
<1>3. transfer' = NoTransfer
  BY <1>2 DEF MasterReset, Quiet
<1>4. QED
  BY <1>2, <1>3 DEF MasterReset, Channel, Held, Transfers, NoTransfer

LEMMA ChannelSteps ==
  ASSUME Channel, [Next]_vars
  PROVE  /\ Channel'
         /\ ~MasterReset => /\ Receiving(bce) => Owned \/ UNCHANGED vars
                            /\ bce.busy /\ ~bce'.busy => Seen
<1>1. CASE Slot
  BY <1>1, SlotSteps
<1>2. CASE (\E w \in Arrivals : Arrive(w)) \/ (\E x, r \in BOOLEAN : EnableMia(x, r)) \/ Halt
  BY <1>2, OtherSteps
<1>3. CASE MasterReset
  BY <1>3, ResetSteps
<1>4. CASE UNCHANGED vars
  BY <1>4 DEF vars, state, Channel, Held, Receiving
<1>5. QED
  BY <1>1, <1>2, <1>3, <1>4 DEF Next

LEMMA ChannelAlways == Spec => []Channel
<1>1. Init => Channel
  <2> SUFFICES ASSUME Init PROVE Channel
    OBVIOUS
  <2>1. Registers(bce) /\ Caused(bce) /\ ~Receiving(bce)
    BY ResetRegisters DEF Init
  <2>2. queue \in Seq(Heard)
    BY EmptySeq DEF Init
  <2>3. QED
    BY <2>1, <2>2 DEF Init, Channel, Held, Transfers, NoTransfer
<1>2. Channel /\ [Next]_vars => Channel'
  BY ChannelSteps
<1>3. QED
  BY <1>1, <1>2, PTL DEF Spec

-----------------------------------------------------------------------------
(* The registers of a channel keep their types (BceState, RxState).        *)
THEOREM TypeCorrect == Spec => []TypeOK
<1>1. Channel => TypeOK
  BY DEF Channel, TypeOK, Registers, Receipts, Addr
<1>2. QED
  BY <1>1, ChannelAlways, PTL

(* A receive in progress belongs to a busy BCE and knows how far it got    *)
(* (receive_data, receive_pump, and the @LBP and @LBB of the MSC).         *)
THEOREM BooksKept == Spec => []ReceiveHeld
<1>1. Channel => ReceiveHeld
  BY DEF Channel, Held, ReceiveHeld
<1>2. QED
  BY <1>1, ChannelAlways, PTL

(* The exception state and the status register always agree (bce_error     *)
(* and #SSC).                                                              *)
THEOREM CauseLeft == Spec => []ErrorHasCause
<1>1. Channel => ErrorHasCause
  BY DEF Channel, Caused, ErrorHasCause
<1>2. QED
  BY <1>1, ChannelAlways, PTL

(* Until a receive is over nothing moves the program counter, nothing is   *)
(* transmitted, and storage outside its buffer stays as it is              *)
(* (receive_pump; a #MIN resumes without sending its command again).       *)
THEOREM ChannelOwned == Spec => ReceiveOwnsChannel
<1> DEFINE Owns == Receiving(bce) /\ ~ MasterReset => Owned
<1>1. Channel /\ [Next]_vars => [Owns]_vars
  BY ChannelSteps
<1>2. QED
  BY <1>1, ChannelAlways, PTL DEF Spec, ReceiveOwnsChannel, Owned

(* A BCE that stops is behind a wait instruction or in error with both     *)
(* indicators up (#WAT, #WIX, and bce_error in all its places).            *)
THEOREM StopSeen == Spec => StopIsVisible
<1> DEFINE Tells == bce.busy /\ ~ bce'.busy /\ ~ MasterReset => Seen
<1>1. Channel /\ [Next]_vars => [Tells]_vars
  BY ChannelSteps
<1>2. QED
  BY <1>1, ChannelAlways, PTL DEF Spec, StopIsVisible, Seen
=============================================================================
