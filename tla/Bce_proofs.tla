------------------------------ MODULE Bce_proofs ------------------------------
(***************************************************************************)
(* What one slice of a Bus Control Element can do, for every program,      *)
(* every receive queue and every size of the storage: lemmas about the     *)
(* operators of Bce that the proofs about the channel and about the        *)
(* redundant set cite.                                                     *)
(***************************************************************************)
EXTENDS Bce, FiniteSets, SequenceTheorems, FiniteSetTheorems, WellFoundedInduction, TLAPS

(* A set of naturals that is not empty has a least member.                 *)
LEMMA LeastMember ==
  ASSUME NEW T \in SUBSET Nat, T # {}
  PROVE  \E x \in T : \A y \in T : x <= y
<1>1. PICK x \in T : \A y \in T : <<y, x>> \notin OpToRel(<, Nat)
  BY NatLessThanWellFounded, WFMin, Zenon
<1>2. \A y \in T : ~(y < x)
  BY <1>1 DEF OpToRel
<1>3. \A y \in T : x <= y
  BY <1>2
<1>4. QED
  BY <1>3

(* Addresses that run past the end of a storage of size d at most once.    *)
LEMMA Wraps ==
  ASSUME NEW d \in Nat \ {0}, NEW a \in 0..(2 * d - 1)
  PROVE  a % d = IF a < d THEN a ELSE a - d
<1>1. CASE a < d
  BY <1>1
<1>2. CASE a >= d
  <2>1. a \in d..(d + d - 1)
    BY <1>2
  <2>2. QED
    BY <1>2, <2>1
<1>3. QED
  BY <1>1, <1>2

(* How far a wrapped address is from where a block begins.                 *)
LEMMA Distance ==
  ASSUME NEW d \in Nat \ {0}, NEW a \in Nat, NEW i \in 0..(d - 1), a + i < 2 * d
  PROVE  (((a + i) % d) - a) % d = i
<1>1. CASE a + i < d
  BY <1>1, Wraps
<1>2. CASE a + i >= d
  <2>1. ((a + i) % d) - a = i - d
    BY <1>2, Wraps
  <2>2. i - d \in (-d)..(-1)
    OBVIOUS
  <2>3. \A n \in (-d)..(-1) : n % d = n + d
    OBVIOUS
  <2>4. QED
    BY <2>1, <2>2, <2>3
<1>3. QED
  BY <1>1, <1>2

-----------------------------------------------------------------------------
Receipts == [remaining : Nat, addr : Nat, ilen : {0, 1, 2, 4}, timer : Nat, got_any : BOOLEAN]

(* The registers of a BCE hold what they can hold.                         *)
Registers(b) ==
  b \in [pc : Addr, base : Addr, busy : BOOLEAN, indicator : BOOLEAN, mto : Nat,
         iuar : {b.iuar}, status : SUBSET Flags, error : BOOLEAN, rx : Receipts]

-----------------------------------------------------------------------------
(* Of m positions, those in S that follow n without a gap end somewhere:   *)
(* RunLength is a number, and the position after the run is not in S.      *)
LEMMA FirstGap ==
  ASSUME NEW m \in Nat, NEW n \in 0..m, NEW S \in SUBSET (1..m)
  PROVE  \E k \in 0..(m - n) : n + k + 1 \notin S /\ \A i \in 1..k : n + i \in S
<1> DEFINE T == {k \in 0..(m - n) : n + k + 1 \notin S}
<1>1. T \in SUBSET Nat
  OBVIOUS
<1>2. m - n \in T
  <2>1. n + (m - n) + 1 = m + 1
    OBVIOUS
  <2>2. m + 1 \notin S
    OBVIOUS
  <2>3. QED
    BY <2>1, <2>2
<1>3. PICK k \in T : \A l \in T : k <= l
  <2> HIDE DEF T
  <2>1. QED
    BY <1>1, <1>2, LeastMember
<1>4. ASSUME NEW i \in 1..k
      PROVE  n + i \in S
  <2>1. i - 1 \in 0..(m - n) /\ n + (i - 1) + 1 = n + i /\ ~(k <= i - 1)
    BY <1>3
  <2>2. i - 1 \notin T
    BY <1>3, <2>1
  <2>3. QED
    BY <2>1, <2>2
<1>5. QED
  BY <1>3, <1>4

LEMMA RunEnds ==
  ASSUME NEW s, Len(s) \in Nat, NEW n \in 0..Len(s), NEW S \in SUBSET (1..Len(s))
  PROVE  /\ RunLength(s, n, S) \in 0..(Len(s) - n)
         /\ n + RunLength(s, n, S) + 1 \notin S
         /\ \A i \in 1..RunLength(s, n, S) : n + i \in S
<1> DEFINE m == Len(s)
<1>1. m \in Nat /\ n \in 0..m /\ S \in SUBSET (1..m)
  OBVIOUS
<1>2. RunLength(s, n, S) =
        CHOOSE k \in 0..(m - n) : n + k + 1 \notin S /\ \A i \in 1..k : n + i \in S
  BY DEF RunLength
<1> HIDE DEF m
<1>3. \E k \in 0..(m - n) : n + k + 1 \notin S /\ \A i \in 1..k : n + i \in S
  BY ZenonT(30), <1>1, FirstGap
<1>4. /\ RunLength(s, n, S) \in 0..(m - n)
      /\ n + RunLength(s, n, S) + 1 \notin S
      /\ \A i \in 1..RunLength(s, n, S) : n + i \in S
  BY <1>2, <1>3
<1>5. QED
  BY <1>4 DEF m

(* A block of n halfwords that is no longer than the storage covers n      *)
(* addresses, even when it wraps.                                          *)
Block(start, n) == {(start + i) % Space : i \in 0..(n - 1)}

LEMMA BlockSize ==
  ASSUME NEW start \in Nat, NEW n \in 0..Space, start + n <= 2 * Space
  PROVE  IsFiniteSet(Block(start, n)) /\ Cardinality(Block(start, n)) = n
<1> DEFINE f == [i \in 0..(n - 1) |-> (start + i) % Space]
<1>1. \A i \in 0..(n - 1) : start + i \in 0..(2 * Space - 1)
  BY SpaceAssumption
<1>2. ASSUME NEW i \in 0..(n - 1), NEW j \in 0..(n - 1), f[i] = f[j]
      PROVE  i = j
  BY <1>1, <1>2, Wraps, SpaceAssumption
<1>3. f \in Bijection(0..(n - 1), Block(start, n))
  BY <1>2 DEF Block, Bijection, Injection, Surjection, IsInjective
<1>4. IsFiniteSet(0..(n - 1)) /\ Cardinality(0..(n - 1)) = n
  <2>1. 0 \in Int /\ n - 1 \in Int
    BY SpaceAssumption
  <2>2. IsFiniteSet(0..(n - 1))
        /\ Cardinality(0..(n - 1)) = IF 0 > n - 1 THEN 0 ELSE (n - 1) - 0 + 1
    BY <2>1, FS_Interval, Zenon
  <2>3. QED
    BY <2>2, SpaceAssumption
<1>5. QED
  BY <1>3, <1>4, FS_Bijection DEF ExistsBijection

(* What is left of a queue after its first k words.                        *)
LEMMA RestOfQueue ==
  ASSUME NEW W, NEW q \in Seq(W), NEW k \in 0..Len(q)
  PROVE  SubSeq(q, k + 1, Len(q)) \in Seq(W)
<1>1. Len(q) \in Nat /\ \A i \in 1..Len(q) : q[i] \in W
  BY LenProperties, ElementOfSeq
<1>2. k + 1 \in Int /\ Len(q) \in Int /\ \A i \in (k + 1)..Len(q) : q[i] \in W
  BY <1>1
<1>3. QED
  BY <1>2, SubSeqProperties

-----------------------------------------------------------------------------
(***************************************************************************)
(* Receiving.  A slice of a receive in progress stores the next n words    *)
(* that fit, all from the queue, at the next n addresses; then the receive *)
(* is complete, or in error because of a word that does not fit or because *)
(* of silence, or it goes on where it stopped.                             *)
(***************************************************************************)
IsResult(r) == r = Result(r.bce, r.queue, r.sent, r.stored, r.bit)

Stores(b, W, r, n) ==
  /\ IsResult(r)
  /\ DOMAIN r.stored = Block(b.rx.addr, n)
  /\ \A a \in DOMAIN r.stored : \E w \in W : Fits(b, w) /\ r.stored[a] = w.val
  /\ r.queue \in Seq(W) /\ r.sent = <<>>

Completes(b, r, n) ==
  /\ n = b.rx.remaining
  /\ r.bce = [Advance(b, b.rx.ilen) EXCEPT !.rx = NoRx] /\ r.bit = "keep"

(* With the transmitter disabled commands ahead of the data are skipped.   *)
Rejects(b, W, xmtr, r, n) ==
  /\ n < b.rx.remaining
  /\ \E w \in W : /\ ~Fits(b, w)
                  /\ xmtr \/ b.rx.got_any \/ n > 0 \/ ~w.cmd_sync
                  /\ r.bce = bce_error(b, Rejection(b, w)) /\ r.bit = "set"

GivesUp(b, r, n) ==
  /\ n < b.rx.remaining
  /\ r.bce = bce_error(b, {IF b.rx.got_any \/ n > 0 THEN "TIMEOUT" ELSE "INITIAL_TIMEOUT"})
  /\ r.bit = "set"

GoesOn(b, r, n) ==
  /\ n < b.rx.remaining
  /\ \E kept \in Receipts :
       /\ kept.remaining = b.rx.remaining - n /\ kept.addr = b.rx.addr + n
       /\ kept.ilen = b.rx.ilen /\ kept.timer <= b.mto
       /\ kept.got_any <=> (b.rx.got_any \/ n > 0)
       /\ r.bce = [b EXCEPT !.rx = kept]
  /\ r.bit = "keep"

Pumps(b, W, xmtr, r) ==
  \E n \in 0..b.rx.remaining :
    /\ Stores(b, W, r, n)
    /\ \/ Completes(b, r, n) \/ Rejects(b, W, xmtr, r, n)
       \/ GivesUp(b, r, n) \/ GoesOn(b, r, n)

(* A BCE whose receive lies inside the storage and inside its patience.    *)
InReceipt(b) ==
  /\ Receiving(b) /\ b.rx.timer <= b.mto
  /\ b.rx.remaining <= Space /\ b.rx.addr + b.rx.remaining < 2 * Space

LEMMA PumpResult ==
  ASSUME NEW b, Registers(b), InReceipt(b), NEW W, NEW queue \in Seq(W),
         NEW xmtr \in BOOLEAN, NEW rcvr \in BOOLEAN
  PROVE  Pumps(b, W, xmtr, receive_pump(b, queue, xmtr, rcvr))
<1> DEFINE heard   == IF rcvr THEN queue ELSE <<>>
           isCmd   == {i \in 1..Len(heard) : heard[i].cmd_sync}
           fits    == {i \in 1..Len(heard) : Fits(b, heard[i])}
           skipped == IF ~ xmtr /\ ~ b.rx.got_any THEN RunLength(heard, 0, isCmd) ELSE 0
           run     == RunLength(heard, skipped, fits)
           n       == SmallerOf(b.rx.remaining, run)
           used    == skipped + n
           left    == b.rx.remaining - n
           stored  == [a \in {(b.rx.addr + i) % Space : i \in 0..(n - 1)} |->
                         heard[skipped + 1 + ((a - b.rx.addr) % Space)].val]
           rest(k) == IF rcvr THEN SubSeq(queue, k + 1, Len(queue)) ELSE queue
           timer   == IF n > 0 THEN b.mto ELSE b.rx.timer
           got     == b.rx.got_any \/ n > 0
           r       == receive_pump(b, queue, xmtr, rcvr)
<1>1. r = IF left = 0
          THEN Result([Advance(b, b.rx.ilen) EXCEPT !.rx = NoRx], rest(used), <<>>, stored, "keep")
          ELSE IF used < Len(heard)
          THEN Fail(b, rest(used + 1), <<>>, stored, Rejection(b, heard[used + 1]))
          ELSE IF timer = 0
          THEN Fail(b, rest(used), <<>>, stored, {IF got THEN "TIMEOUT" ELSE "INITIAL_TIMEOUT"})
          ELSE Result([b EXCEPT !.rx = [remaining |-> left, addr |-> b.rx.addr + n,
                                        ilen |-> b.rx.ilen, timer |-> Tick(timer),
                                        got_any |-> got]],
                      rest(used), <<>>, stored, "keep")
  BY DEF receive_pump
<1>2. heard \in Seq(W) /\ (rcvr => heard = queue) /\ (~rcvr => heard = <<>>)
  BY EmptySeq
<1>3. Len(heard) \in Nat
  BY <1>2, LenProperties
<1>4. \A i \in 1..Len(heard) : heard[i] \in W
  BY <1>2, ElementOfSeq
<1>5. isCmd \in SUBSET (1..Len(heard)) /\ fits \in SUBSET (1..Len(heard))
  OBVIOUS
<1>6. b.rx.remaining \in Nat \ {0} /\ b.rx.addr \in Nat /\ b.rx.timer \in Nat /\ b.mto \in Nat
  BY DEF InReceipt, Receiving, Registers, Receipts
<1>7. /\ skipped \in 0..Len(heard)
      /\ xmtr \/ b.rx.got_any \/ skipped + 1 \notin isCmd
  <2>1. CASE ~ xmtr /\ ~ b.rx.got_any
    <3>1. 0 \in 0..Len(heard)
      BY <1>3
    <3>2. skipped = RunLength(heard, 0, isCmd)
      BY <2>1
    <3> HIDE DEF skipped, isCmd, heard
    <3>3. QED
      BY <1>3, <1>5, <3>1, <3>2, RunEnds
  <2>2. CASE ~(~ xmtr /\ ~ b.rx.got_any)
    BY <1>3, <2>2
  <2>3. QED
    BY <2>1, <2>2
<1>8. /\ run \in 0..(Len(heard) - skipped)
      /\ skipped + run + 1 \notin fits
      /\ \A i \in 1..run : skipped + i \in fits
  <2> HIDE DEF skipped, fits, heard
  <2>1. QED
    BY <1>3, <1>5, <1>7, RunEnds
<1>9. /\ n \in 0..b.rx.remaining /\ n <= run
      /\ n < b.rx.remaining => n = run
  <2> HIDE DEF run
  <2>1. QED
    BY <1>3, <1>6, <1>7, <1>8 DEF SmallerOf
<1>10. used \in 0..Len(heard)
  <2> HIDE DEF run, n, skipped, heard
  <2>1. QED
    BY <1>3, <1>6, <1>7, <1>8, <1>9
<1>11. DOMAIN stored = Block(b.rx.addr, n)
  BY DEF Block
<1>12. ASSUME NEW a \in DOMAIN stored
       PROVE  \E w \in W : Fits(b, w) /\ stored[a] = w.val
  <2>1. PICK i \in 0..(n - 1) : a = (b.rx.addr + i) % Space
    BY <1>12
  <2> DEFINE p == skipped + 1 + ((a - b.rx.addr) % Space)
  <2>2. stored[a] = heard[p].val
    BY <1>12
  <2> HIDE DEF n, run, skipped, heard, stored
  <2>3. (a - b.rx.addr) % Space = i
    <3>1. i \in 0..(Space - 1) /\ b.rx.addr + i < 2 * Space
      BY <1>6, <1>9, SpaceAssumption DEF InReceipt
    <3>2. QED
      BY <1>6, <2>1, <3>1, Distance, SpaceAssumption
  <2>4. p = skipped + (i + 1) /\ i + 1 \in 1..run
    <3>1. n \in Int /\ run \in Int /\ skipped \in Int /\ n <= run
      BY <1>6, <1>7, <1>8, <1>9
    <3>2. p = skipped + 1 + i
      BY <2>3
    <3>3. QED
      BY <3>1, <3>2
  <2>5. p \in fits
    BY <1>8, <2>4
  <2>6. QED
    BY <1>4, <2>2, <2>5
<1>13. ASSUME NEW k \in 0..Len(heard)
       PROVE  rest(k) \in Seq(W)
  BY <1>2, <1>13, RestOfQueue
<1>14. /\ left = b.rx.remaining - n /\ used = skipped + n
       /\ timer = IF n > 0 THEN b.mto ELSE b.rx.timer
       /\ got <=> (b.rx.got_any \/ n > 0)
       /\ \A p \in 1..Len(heard) : p \notin fits => ~Fits(b, heard[p])
       /\ \A p \in 1..Len(heard) : p \notin isCmd => ~heard[p].cmd_sync
  OBVIOUS
<1> HIDE DEF heard, isCmd, fits, skipped, run, n, used, left, stored, rest, timer, got, r
<1>15. ASSUME NEW c, NEW k \in 0..Len(heard), NEW bit,
              r = Result(c, rest(k), <<>>, stored, bit)
       PROVE  Stores(b, W, r, n) /\ r.bce = c /\ r.bit = bit
  BY <1>11, <1>12, <1>13, <1>15 DEF Stores, Result, IsResult
<1>16. CASE left = 0
  <2>1. r = Result([Advance(b, b.rx.ilen) EXCEPT !.rx = NoRx], rest(used), <<>>, stored, "keep")
    BY <1>1, <1>16
  <2>2. n = b.rx.remaining
    BY <1>6, <1>9, <1>14, <1>16
  <2>3. QED
    BY <1>9, <1>10, <1>15, <2>1, <2>2 DEF Pumps, Completes, r
<1>17. ASSUME left # 0
       PROVE  n < b.rx.remaining /\ n = run
  BY <1>6, <1>9, <1>14, <1>17
<1>18. CASE left # 0 /\ used < Len(heard)
  <2>1. used + 1 \in 1..Len(heard) /\ used + 1 \in 0..Len(heard)
    BY <1>3, <1>10, <1>18
  <2>2. r = Result(bce_error(b, Rejection(b, heard[used + 1])), rest(used + 1), <<>>, stored, "set")
    BY <1>1, <1>18 DEF Fail
  <2>3. heard[used + 1] \in W /\ ~Fits(b, heard[used + 1])
    <3>1. used + 1 = skipped + run + 1
      BY <1>14, <1>17, <1>18
    <3>2. QED
      BY <1>4, <1>8, <1>14, <2>1, <3>1
  <2>4. xmtr \/ b.rx.got_any \/ n > 0 \/ ~heard[used + 1].cmd_sync
    <3>1. ASSUME n = 0
          PROVE  used + 1 = skipped + 1
      BY <1>7, <1>14, <3>1
    <3>2. QED
      BY <1>6, <1>7, <1>9, <1>14, <2>1, <3>1
  <2>5. Rejects(b, W, xmtr, r, n) /\ Stores(b, W, r, n)
    BY <1>15, <1>17, <1>18, <2>1, <2>2, <2>3, <2>4 DEF Rejects
  <2>6. QED
    BY <1>9, <2>5 DEF Pumps, r
<1>19. CASE left # 0 /\ ~(used < Len(heard)) /\ timer = 0
  <2>1. r = Result(bce_error(b, {IF got THEN "TIMEOUT" ELSE "INITIAL_TIMEOUT"}),
                   rest(used), <<>>, stored, "set")
    BY <1>1, <1>19 DEF Fail
  <2>2. QED
    BY <1>9, <1>10, <1>14, <1>15, <1>17, <1>19, <2>1 DEF Pumps, GivesUp, r
<1>20. CASE left # 0 /\ ~(used < Len(heard)) /\ timer # 0
  <2> DEFINE kept == [remaining |-> left, addr |-> b.rx.addr + n, ilen |-> b.rx.ilen,
                      timer |-> Tick(timer), got_any |-> b.rx.got_any \/ n > 0]
  <2>1. Tick(timer) \in 0..b.mto
    BY <1>6, <1>14, <1>20 DEF Tick, InReceipt
  <2>2. r = Result([b EXCEPT !.rx = kept], rest(used), <<>>, stored, "keep")
    BY <1>1, <1>20 DEF got
  <2>3. b.rx.ilen \in {0, 1, 2, 4}
    BY DEF Registers, Receipts
  <2>4. /\ kept.remaining = b.rx.remaining - n /\ kept.addr = b.rx.addr + n
        /\ kept.ilen = b.rx.ilen /\ kept.timer <= b.mto
        /\ kept.got_any <=> (b.rx.got_any \/ n > 0)
    <3>1. kept.got_any <=> (b.rx.got_any \/ n > 0)
      OBVIOUS
    <3>2. kept.timer <= b.mto
      BY <1>6, <2>1
    <3>3. kept.remaining = b.rx.remaining - n /\ kept.addr = b.rx.addr + n
          /\ kept.ilen = b.rx.ilen
      BY <1>14
    <3>4. QED
      BY <3>1, <3>2, <3>3, Zenon
  <2>5. kept \in Receipts
    <3>1. left \in Nat /\ b.rx.addr + n \in Nat /\ Tick(timer) \in Nat
      BY SMTT(20), <1>6, <1>9, <1>14, <2>1
    <3>2. QED
      BY <1>14, <2>3, <3>1 DEF Receipts
  <2> HIDE DEF kept
  <2>6. Stores(b, W, r, n) /\ r.bit = "keep" /\ r.bce = [b EXCEPT !.rx = kept]
    BY <1>10, <1>15, <2>2
  <2>7. GoesOn(b, r, n)
    BY <1>17, <1>20, <2>4, <2>5, <2>6 DEF GoesOn
  <2>8. QED
    BY <1>9, <2>6, <2>7 DEF Pumps, r
<1>21. QED
  BY <1>16, <1>18, <1>19, <1>20

-----------------------------------------------------------------------------
(* Registers stay registers.                                               *)
LEMMA Advanced ==
  ASSUME NEW b, Registers(b), NEW n \in Nat
  PROVE  LET c == Advance(b, n)
         IN  /\ Registers(c) /\ c.pc = (b.pc + n) % Space
             /\ c.base = b.base /\ c.busy = b.busy /\ c.indicator = b.indicator
             /\ c.mto = b.mto /\ c.iuar = b.iuar /\ c.status = b.status /\ c.error = b.error
             /\ c.rx = b.rx
<1>1. b.pc \in Int /\ (b.pc + n) % Space \in Addr
  BY SpaceAssumption DEF Registers, Addr
<1>2. QED
  BY <1>1 DEF Registers, Advance

LEMMA RejectionRecorded ==
  ASSUME NEW b, NEW w
  PROVE  Rejection(b, w) \in SUBSET Flags /\ Rejection(b, w) # {}
  BY DEF Rejection, Flags

LEMMA ReceiptRegisters ==
  ASSUME NEW b, Registers(b), NEW rx \in Receipts
  PROVE  LET c == [b EXCEPT !.rx = rx]
         IN  /\ Registers(c) /\ c.rx = rx
             /\ c.pc = b.pc /\ c.base = b.base /\ c.busy = b.busy /\ c.indicator = b.indicator
             /\ c.mto = b.mto /\ c.iuar = b.iuar /\ c.status = b.status /\ c.error = b.error
  BY DEF Registers

LEMMA ErrorRegisters ==
  ASSUME NEW b, Registers(b), NEW bits \in SUBSET Flags
  PROVE  LET e == bce_error(b, bits)
         IN  /\ Registers(e) /\ ~Receiving(e)
             /\ e.error /\ ~e.busy /\ e.indicator
             /\ e.pc = b.pc /\ e.status = b.status \cup bits
             /\ e.base = b.base /\ e.mto = b.mto /\ e.iuar = b.iuar
<1> DEFINE c == [b EXCEPT !.rx = NoRx]
           e == bce_error(b, bits)
<1>1. NoRx \in Receipts
  BY DEF NoRx, Receipts
<1>2. /\ Registers(c) /\ c.rx = NoRx /\ c.pc = b.pc /\ c.status = b.status
      /\ c.base = b.base /\ c.mto = b.mto /\ c.iuar = b.iuar
  BY <1>1, ReceiptRegisters
<1>3. e = [c EXCEPT !.status = b.status \cup bits, !.error = TRUE, !.indicator = TRUE,
                    !.busy = FALSE]
  BY DEF bce_error, Registers
<1> HIDE DEF c, e
<1>4. /\ Registers(e) /\ e.rx = NoRx
      /\ e.error /\ ~e.busy /\ e.indicator
      /\ e.pc = b.pc /\ e.status = b.status \cup bits
      /\ e.base = b.base /\ e.mto = b.mto /\ e.iuar = b.iuar
  BY <1>2, <1>3 DEF Registers
<1>5. ~Receiving(e)
  BY <1>4 DEF Receiving, NoRx
<1>6. QED
  BY <1>4, <1>5 DEF e
=============================================================================
