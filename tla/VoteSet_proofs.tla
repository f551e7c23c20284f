---------------------------- MODULE VoteSet_proofs ----------------------------
(***************************************************************************)
(* Proofs about VoteSet: the redundant set runs the voting program, for    *)
(* every number of GPCs and backups, every fault, every patience and every *)
(* budget, at arbitrary relative speeds.                                   *)
(***************************************************************************)
EXTENDS VoteSet, Bce_proofs

(* The words GPC b ever puts on its bus, as the others hear them.          *)
Utterances(b) ==
  {ListenWord(ListenIua, 0), Garble(b, DataWord(ListenIua, setup.value[b]))}

(* ... once it has published its value.                                    *)
Spoken(b) == IF mail[b][b] = 0 THEN {} ELSE Utterances(b)

Causes(b) == {"INITIAL_TIMEOUT"} \cup (IF b \in setup.garbled THEN {"SEV"} ELSE {})

(* A listener that is still to store the word it listens for.              *)
Waiting == {0, 2, 3, 4}

(* Where the two BCE programs are, and what the registers hold there.      *)
Transmitting(x) ==
  /\ x.pc \in {0, 2, 4, 5, 6, 7} /\ x.base = 0
  /\ x.pc = 7 => ~x.busy
  /\ x.pc = 4 => x.iuar = ListenIua
  /\ ~Receiving(x) /\ x.status = {} /\ ~x.error

Listening(causes, b, x) ==
  /\ x.pc \in {0, 2, 3, 4, 5, 6, 7} /\ x.base = 0
  /\ x.pc = 7 => ~x.busy
  /\ x.pc = 4 => x.iuar = ListenIua
  /\ Receiving(x) => /\ x.pc = 4 /\ x.rx.remaining = 1 /\ x.rx.addr = b /\ x.rx.ilen = 1
                     /\ ~x.rx.got_any /\ x.rx.timer <= x.mto
  /\ x.status \subseteq causes
  /\ x.error => x.pc = 4 /\ ~x.busy

(* Bus control.  Only a GPC that has published starts its BCEs, and only   *)
(* once; a listener whose mailbox is filled is past its receive.           *)
Controls(g) ==
  /\ msc[g] \in {"poll", "start"} => \A b \in Bus : bce[g][b] = ResetBce(0)
  /\ msc[g] # "poll" => mail[g][g] # 0
  /\ \A b \in Bus :
       /\ Registers(bce[g][b])
       /\ IF Transmits(g, b) THEN Transmitting(bce[g][b]) ELSE Listening(Causes(b), b, bce[g][b])
       /\ rx[g][b] \in Seq(Spoken(b))
       /\ bce[g][b].error => b \in indicators[g]
       /\ ~Transmits(g, b) /\ bce[g][b].pc \in Waiting => mail[g][b] = 0

(* The voting program.  What a CPU has flagged so far is what it had to    *)
(* flag, and nothing else if it saw every mailbox filled.                  *)
Deserved(g) == {j \in Pass : setup.value[j] # setup.value[g] \/ Unheard(g, j)}

Judged(c) == {j \in Pass : c.at = "done" \/ j < c.k}

Votes(g) ==
  LET c == cpu[g]
  IN  /\ c.at # "publish" => mail[g][g] # 0
      /\ c.at \in {"publish", "count", "look"} => c.budget >= 0 /\ c.mask = {}
      /\ c.at = "look" => \A j \in Pass : j < c.k => mail[g][j] # 0
      /\ c.at \in {"vote", "done"} =>
           /\ Deserved(g) \cap Judged(c) \subseteq c.mask
           /\ c.budget = -1 \/ (c.mask \subseteq Deserved(g) /\ \A j \in Pass : mail[g][j] # 0)

(* The inductive invariant.                                                *)
Set ==
  /\ setup \in Setup
  /\ TypeOK /\ DOMAIN bce = GPC
  /\ \A g \in GPC : Controls(g) /\ Votes(g)
  /\ MailboxesTrue

-----------------------------------------------------------------------------
(***************************************************************************)
(* The set, its programs and its words.                                    *)
(***************************************************************************)
LEMMA SetupFacts ==
  ASSUME setup \in Setup
  PROVE  /\ Bus = Pass /\ Pass \subseteq GPC /\ GPC \subseteq 0..(Space - 1)
         /\ Space \in Nat /\ Space >= 8 /\ N \in Nat \ {0} /\ Patience \in Nat
         /\ \A g \in GPC : g \in Nat /\ setup.value[g] \in Nat \ {0}
         /\ setup.budget \in Nat /\ setup.skew \in Nat
<1>1. GPC \subseteq Machines
  BY VoteAssumption DEF Setup, GPC
<1>2. \A g \in Machines : setup.value[g] \in Nat \ {0}
  BY DEF Setup
<1>3. setup.budget \in Nat /\ setup.skew \in Nat
  BY DEF Setup
<1>4. Bus = Pass /\ Pass \subseteq GPC
  BY DEF Bus, GPC
<1>5. Space \in Nat /\ GPC \subseteq 0..(Space - 1)
  BY <1>1, VoteAssumption, SpaceAssumption
<1>6. QED
  BY <1>1, <1>2, <1>3, <1>4, <1>5, VoteAssumption

LEMMA SmallAddress ==
  /\ Space \in Nat /\ \A n \in 0..7 : n % Space = n
  /\ \A n \in 0..(Space - 1) : n % Space = n
BY VoteAssumption, SpaceAssumption

LEMMA UtteranceFacts ==
  ASSUME NEW b, NEW w \in Utterances(b)
  PROVE  /\ Listens(w) => w.target = ListenIua /\ w.val = 0
         /\ ~w.cmd_sync => /\ w.iua = ListenIua /\ w.val = setup.value[b]
                           /\ w.good <=> b \notin setup.garbled
<1>1. ListenWord(ListenIua, 0).cmd_sync /\ ListenWord(ListenIua, 0).target = ListenIua
      /\ ListenWord(ListenIua, 0).val = 0
  BY DEF ListenWord
<1> DEFINE d == DataWord(ListenIua, setup.value[b])
           e == Garble(b, d)
<1>2. /\ d = [cmd_sync |-> FALSE, iua |-> ListenIua, good |-> TRUE, val |-> setup.value[b],
              target |-> ListenIua]
  BY DEF DataWord
<1>3. e = IF b \in setup.garbled THEN [d EXCEPT !.good = FALSE] ELSE d
  BY <1>2 DEF Garble
<1>4. ~e.cmd_sync /\ e.iua = ListenIua /\ e.val = setup.value[b]
      /\ (e.good <=> b \notin setup.garbled)
  <2> HIDE DEF d, e
  <2>1. CASE b \in setup.garbled
    BY <1>2, <1>3, <2>1
  <2>2. CASE b \notin setup.garbled
    BY <1>2, <1>3, <2>2
  <2>3. QED
    BY <2>1, <2>2
<1>5. QED
  BY <1>1, <1>4 DEF Utterances, Listens

(* The instructions of the two programs.                                   *)
LEMMA TransmitterProgram ==
  ASSUME NEW b
  PROVE  LET P == TransmitterCode(b)
         IN  /\ P[0].op = "LBR" /\ P[0].value = 0
             /\ P[2].op = "CMD" /\ P[2].word = ListenWord(ListenIua, 0) /\ ~P[2].direct
             /\ P[4].op = "TDS" /\ P[4].disp = b /\ P[4].count = 1
             /\ P[5].op = "IB" /\ P[5].set
             /\ P[6].op = "WAT"
             /\ DOMAIN P = {0, 2, 4, 5, 6}
BY DEF TransmitterCode

LEMMA ListenerProgram ==
  ASSUME NEW b
  PROVE  LET P == ListenerCode(b)
         IN  /\ P[0].op = "LBR" /\ P[0].value = 0
             /\ P[2].op = "LTO" /\ P[2].value = Patience
             /\ P[3].op = "WIX" /\ P[3].table[0] = 4
             /\ P[4].op = "RDS" /\ P[4].disp = b /\ P[4].count = 1
             /\ P[5].op = "IB" /\ P[5].set
             /\ P[6].op = "WAT"
             /\ DOMAIN P = {0, 2, 3, 4, 5, 6}
BY DEF ListenerCode

-----------------------------------------------------------------------------
(***************************************************************************)
(* One slice of a listener's BCE on bus b, and of the transmitter's.       *)
(***************************************************************************)
Hears(b, W, x, r) ==
  /\ Registers(r.bce) /\ Listening(Causes(b), b, r.bce)
  /\ r.queue \in Seq(W) /\ r.sent = <<>> /\ r.bit \in {"keep", "set"}
  /\ r.bce.error => r.bit = "set" \/ x.error
  /\ r.bce.pc \in Waiting => x.pc \in Waiting /\ DOMAIN r.stored = {}
  /\ DOMAIN r.stored \subseteq {b}
  /\ b \in DOMAIN r.stored =>
       r.stored[b] = setup.value[b] /\ W # {} /\ b \notin setup.garbled

(* The words a transmitter puts on its bus.                                *)
Words(v) == {ListenWord(ListenIua, 0), DataWord(ListenIua, v)}

Sends(W, v, r) ==
  /\ Registers(r.bce) /\ Transmitting(r.bce)
  /\ r.queue \in Seq(W) /\ r.bit \in {"keep", "set"} /\ DOMAIN r.stored = {}
  /\ r.sent \in Seq(Words(v))

(* An instruction that stores nothing and moves on to the next one.        *)
LEMMA ListenerMoves ==
  ASSUME NEW b, NEW W, NEW x, Registers(x), Listening(Causes(b), b, x), ~Receiving(x), ~x.error,
         NEW c, Registers(c), Listening(Causes(b), b, c), ~c.error,
         c.pc \in Waiting => x.pc \in Waiting,
         NEW q \in Seq(W), NEW bit \in {"keep", "set"}
  PROVE  Hears(b, W, x, Result(c, q, <<>>, Nothing, bit))
BY DEF Hears, Result, Nothing

(* The receive of the one word.                                            *)
LEMMA ListenerPumps ==
  ASSUME setup \in Setup, NEW b \in Bus, NEW W \in SUBSET Utterances(b),
         NEW x, Registers(x), Listening(Causes(b), b, x), Receiving(x), x.busy,
         NEW r, Pumps(x, W, FALSE, r)
  PROVE  Hears(b, W, x, r)
<1>1. PICK n \in 0..x.rx.remaining :
        /\ Stores(x, W, r, n)
        /\ \/ Completes(x, r, n) \/ Rejects(x, W, FALSE, r, n)
           \/ GivesUp(x, r, n) \/ GoesOn(x, r, n)
  BY DEF Pumps
<1>2. /\ x.pc = 4 /\ x.base = 0 /\ x.rx.remaining = 1 /\ x.rx.addr = b /\ x.rx.ilen = 1
      /\ ~x.rx.got_any /\ x.rx.timer <= x.mto /\ x.status \subseteq Causes(b)
      /\ ~x.error /\ x.iuar = ListenIua
      /\ n \in {0, 1} /\ x.mto \in Nat
  BY DEF Listening, Registers
<1>3. b \in 0..(Space - 1) /\ b % Space = b /\ Space \in Nat /\ Space >= 8
  BY SetupFacts, SmallAddress
<1>4. n = 0 => DOMAIN r.stored = {}
  BY <1>1 DEF Stores, Block
<1>5. n = 1 => DOMAIN r.stored = {b}
  <2> SUFFICES ASSUME n = 1 PROVE DOMAIN r.stored = {b}
    OBVIOUS
  <2>1. DOMAIN r.stored = {(b + i) % Space : i \in {0}}
    <3>1. 0..(n - 1) = {0}
      OBVIOUS
    <3>2. QED
      BY <1>1, <1>2, <3>1 DEF Stores, Block
  <2>2. b + 0 = b
    BY <1>3
  <2>3. QED
    BY <1>3, <2>1, <2>2
<1>6. DOMAIN r.stored \subseteq {b}
  BY <1>2, <1>4, <1>5
<1>7. b \in DOMAIN r.stored => r.stored[b] = setup.value[b] /\ W # {} /\ b \notin setup.garbled
  <2> SUFFICES ASSUME b \in DOMAIN r.stored
               PROVE  r.stored[b] = setup.value[b] /\ W # {} /\ b \notin setup.garbled
    OBVIOUS
  <2>1. PICK w \in W : Fits(x, w) /\ r.stored[b] = w.val
    BY <1>1 DEF Stores
  <2>2. ~w.cmd_sync /\ w.good
    BY <2>1 DEF Fits
  <2>3. QED
    BY <2>1, <2>2, UtteranceFacts
<1>8. r.queue \in Seq(W) /\ r.sent = <<>>
  BY <1>1 DEF Stores
<1>9. ASSUME NEW bits \in SUBSET Causes(b), r.bce = bce_error(x, bits), r.bit = "set", n = 0
      PROVE  Hears(b, W, x, r)
  <2>1. bits \in SUBSET Flags
    BY DEF Causes, Flags
  <2>2. /\ Registers(r.bce) /\ ~Receiving(r.bce) /\ r.bce.error /\ ~r.bce.busy
        /\ r.bce.pc = x.pc /\ r.bce.status = x.status \cup bits
        /\ r.bce.base = x.base /\ r.bce.mto = x.mto /\ r.bce.iuar = x.iuar
    BY <1>9, <2>1, ErrorRegisters
  <2>3. Listening(Causes(b), b, r.bce)
    BY <1>2, <2>2 DEF Listening
  <2>4. QED
    BY <1>2, <1>4, <1>8, <1>9, <2>2, <2>3 DEF Hears, Waiting
<1>10. CASE Completes(x, r, n)
  <2> DEFINE c == Advance(x, 1)
  <2>1. /\ Registers(c) /\ c.pc = (x.pc + 1) % Space
        /\ c.base = x.base /\ c.status = x.status /\ c.error = x.error /\ c.busy = x.busy
        /\ c.iuar = x.iuar
    <3>1. 1 \in Nat
      OBVIOUS
    <3>2. QED
      BY <3>1, Advanced
  <2>2. c.pc = 5
    BY <1>2, <2>1, SmallAddress
  <2>3. r.bce = [c EXCEPT !.rx = NoRx] /\ r.bit = "keep" /\ n = 1
    BY <1>2, <1>10 DEF Completes
  <2> HIDE DEF c
  <2>4. NoRx \in Receipts /\ NoRx.remaining = 0
    BY DEF NoRx, Receipts
  <2>5. /\ Registers(r.bce) /\ ~Receiving(r.bce)
        /\ r.bce.pc = 5 /\ r.bce.base = 0 /\ r.bce.status = x.status /\ r.bce.error = x.error
    BY <1>2, <2>1, <2>2, <2>3, <2>4, ReceiptRegisters DEF Receiving
  <2>6. QED
    BY <1>2, <1>6, <1>7, <1>8, <2>3, <2>5 DEF Hears, Listening, Waiting
<1>11. CASE Rejects(x, W, FALSE, r, n)
  <2>1. n = 0
    BY <1>2, <1>11 DEF Rejects
  <2>2. PICK w \in W : /\ ~Fits(x, w) /\ ~w.cmd_sync
                       /\ r.bce = bce_error(x, Rejection(x, w)) /\ r.bit = "set"
    BY <1>2, <1>11, <2>1 DEF Rejects
  <2>3. w.iua = ListenIua /\ b \in setup.garbled
    BY <1>2, <2>2, UtteranceFacts DEF Fits
  <2>4. Rejection(x, w) = {"SEV"}
    BY <1>2, <2>2, <2>3 DEF Rejection
  <2>5. QED
    BY <1>9, <2>1, <2>2, <2>3, <2>4 DEF Causes
<1>12. CASE GivesUp(x, r, n)
  <2>1. n = 0
    BY <1>2, <1>12 DEF GivesUp
  <2>2. r.bce = bce_error(x, {"INITIAL_TIMEOUT"}) /\ r.bit = "set"
    BY <1>2, <1>12, <2>1 DEF GivesUp
  <2>3. QED
    BY <1>9, <2>1, <2>2 DEF Causes
<1>13. CASE GoesOn(x, r, n)
  <2>1. n = 0 /\ r.bit = "keep"
    BY <1>2, <1>13 DEF GoesOn
  <2>2. PICK kept \in Receipts :
          /\ kept.remaining = x.rx.remaining - n /\ kept.addr = x.rx.addr + n
          /\ kept.ilen = x.rx.ilen /\ kept.timer <= x.mto
          /\ kept.got_any <=> (x.rx.got_any \/ n > 0)
          /\ r.bce = [x EXCEPT !.rx = kept]
    BY <1>13 DEF GoesOn
  <2>3. kept.remaining = 1 /\ kept.addr = b /\ ~kept.got_any
    BY <1>2, <1>3, <2>1, <2>2
  <2>4. /\ Registers(r.bce) /\ r.bce.rx = kept /\ r.bce.pc = x.pc /\ r.bce.base = x.base
        /\ r.bce.mto = x.mto /\ r.bce.iuar = x.iuar
        /\ r.bce.status = x.status /\ r.bce.error = x.error
    BY <2>2, ReceiptRegisters
  <2>5. Listening(Causes(b), b, r.bce)
    BY <1>2, <2>2, <2>3, <2>4 DEF Listening
  <2>6. QED
    BY <1>2, <1>4, <1>8, <2>1, <2>4, <2>5 DEF Hears, Waiting
<1>14. QED
  BY <1>1, <1>10, <1>11, <1>12, <1>13

LEMMA ListenerSlice ==
  ASSUME setup \in Setup, NEW b \in Bus, NEW W \in SUBSET Utterances(b),
         NEW x, Registers(x), Listening(Causes(b), b, x), x.busy, NEW q \in Seq(W), NEW mem
  PROVE  Hears(b, W, x, Slice(x, ListenerCode(b)[x.pc], q, FALSE, TRUE, mem, NoReply))
<1> DEFINE ins == ListenerCode(b)[x.pc]
           r == Slice(x, ins, q, FALSE, TRUE, mem, NoReply)
<1>0. /\ x.pc = 0 => ins.op = "LBR" /\ ins.value = 0
      /\ x.pc = 2 => ins.op = "LTO" /\ ins.value = Patience
      /\ x.pc = 3 => ins.op = "WIX" /\ ins.table[0] = 4
      /\ x.pc = 4 => ins.op = "RDS" /\ ins.disp = b /\ ins.count = 1
      /\ x.pc = 5 => ins.op = "IB" /\ ins.set
      /\ x.pc = 6 => ins.op = "WAT"
  BY ListenerProgram
<1> HIDE DEF ins
<1>1. CASE Receiving(x)
  <2>1. r = receive_pump(x, q, FALSE, TRUE)
    BY <1>1 DEF Slice
  <2>2. InReceipt(x)
    BY <1>1, SetupFacts DEF Listening, InReceipt
  <2>3. Pumps(x, W, FALSE, r)
    BY <2>1, <2>2, PumpResult
  <2> HIDE DEF r
  <2>4. Hears(b, W, x, r)
    BY <1>1, <2>3, ListenerPumps
  <2>5. QED
    BY <2>4 DEF r, ins
<1>2. ASSUME ~Receiving(x)
      PROVE  Hears(b, W, x, r)
  <2>1. /\ x.pc \in {0, 2, 3, 4, 5, 6} /\ x.base = 0 /\ ~x.error
        /\ x.status \subseteq Causes(b)
    BY DEF Listening
  <2>2. ~Unaligned(x, ins)
    <3>1. 0 % 2 = 0
      OBVIOUS
    <3>2. QED
      BY <1>0, <2>1, <3>1 DEF Unaligned, LongFormat
  <2>3. r = Execute(x, ins, q, FALSE, TRUE, mem, NoReply)
    BY <1>2, <2>2 DEF Slice
  <2>4. ASSUME NEW c, Registers(c), c.rx = x.rx, c.error = x.error, c.status = x.status,
               c.base = 0, c.pc \in {2, 3, 4, 5, 6, 7}, c.pc = 7 => ~c.busy,
               c.pc = 4 => c.iuar = ListenIua, c.pc \in Waiting => x.pc \in Waiting,
               NEW p \in Seq(W), NEW bit \in {"keep", "set"},
               r = Result(c, p, <<>>, Nothing, bit)
        PROVE  Hears(b, W, x, r)
    <3>1. ~Receiving(c) /\ ~c.error
      BY <1>2, <2>1, <2>4 DEF Receiving
    <3>2. Listening(Causes(b), b, c)
      BY <2>1, <2>4, <3>1 DEF Listening
    <3>3. QED
      BY <1>2, <2>1, <2>4, <3>1, <3>2, ListenerMoves
  <2>5. ASSUME NEW n \in {1, 2}
        PROVE  LET a == Advance(x, n)
               IN  /\ Registers(a) /\ a.pc = (x.pc + n) % Space /\ a.base = 0
                   /\ a.iuar = x.iuar /\ a.status = x.status /\ a.error = x.error
                   /\ a.rx = x.rx
    <3>1. n \in Nat
      OBVIOUS
    <3>2. QED
      BY <2>1, <3>1, Advanced
  <2>6. CASE x.pc = 0
    <3> DEFINE a == Advance(x, 2)
               c == [a EXCEPT !.base = 0]
    <3>1. ins.op = "LBR" /\ ins.value = 0
      BY <1>0, <2>6
    <3>2. r = Result(c, q, <<>>, Nothing, "keep")
      BY <2>3, <3>1 DEF Execute, Change
    <3>3. /\ Registers(a) /\ a.pc = 2 /\ a.base = 0
          /\ a.iuar = x.iuar /\ a.status = x.status /\ a.error = x.error /\ a.rx = x.rx
      BY <2>5, <2>6, SmallAddress
    <3> HIDE DEF a, r
    <3>4. /\ Registers(c) /\ c.pc = 2 /\ c.base = 0
          /\ c.status = x.status /\ c.error = x.error /\ c.rx = x.rx
      BY <3>3 DEF Registers
    <3> HIDE DEF c
    <3>5. QED
      BY <2>4, <2>6, <3>2, <3>4 DEF Waiting
  <2>7. CASE x.pc = 2
    <3> DEFINE a == Advance(x, 1)
               c == [a EXCEPT !.mto = Patience]
    <3>1. ins.op = "LTO" /\ ins.value = Patience
      BY <1>0, <2>7
    <3>2. r = Result(c, q, <<>>, Nothing, "keep")
      BY <2>3, <3>1 DEF Execute, Change
    <3>3. /\ Registers(a) /\ a.pc = 3 /\ a.base = 0
          /\ a.iuar = x.iuar /\ a.status = x.status /\ a.error = x.error /\ a.rx = x.rx
      BY <2>5, <2>7, SmallAddress
    <3> HIDE DEF a, r
    <3>4. /\ Registers(c) /\ c.pc = 3 /\ c.base = 0
          /\ c.status = x.status /\ c.error = x.error /\ c.rx = x.rx
      BY <3>3, VoteAssumption DEF Registers
    <3> HIDE DEF c
    <3>5. QED
      BY <2>4, <2>7, <3>2, <3>4 DEF Waiting
  <2>8. CASE x.pc = 3
    <3>1. ins.op = "WIX" /\ ins.table[0] = 4
      BY <1>0, <2>8
    <3>2. r = ListenFor(x, ins, q, FALSE, TRUE)
      BY <2>3, <3>1 DEF Execute
    <3>3. ASSUME NEW p \in Seq(W), r = Change(x, p)
          PROVE  Hears(b, W, x, r)
      <4> HIDE DEF r
      <4>1. r = Result(x, p, <<>>, Nothing, "keep")
        BY <3>3 DEF Change
      <4>2. QED
        BY <2>1, <2>4, <2>8, <4>1
    <3>4. CASE q = <<>>
      BY <3>2, <3>3, <3>4 DEF ListenFor
    <3>5. CASE q # <<>>
      <4> DEFINE w == Head(q)
                 c == [x EXCEPT !.iuar = w.target, !.pc = ins.table[w.val]]
      <4>1. w \in W /\ Tail(q) \in Seq(W)
        BY <3>5, HeadTailProperties
      <4>2. r = IF Listens(w) THEN Change(c, Tail(q)) ELSE Change(x, Tail(q))
        BY <3>2, <3>5 DEF ListenFor
      <4> HIDE DEF r, w
      <4>3. CASE Listens(w)
        <5>1. w.target = ListenIua /\ w.val = 0
          BY <4>1, <4>3, UtteranceFacts
        <5>2. ins.table[w.val] = 4
          BY <3>1, <5>1
        <5>3. 4 \in Addr
          BY VoteAssumption, SpaceAssumption DEF Addr
        <5>4. /\ Registers(c) /\ c.pc = 4 /\ c.base = 0 /\ c.iuar = ListenIua
              /\ c.status = x.status /\ c.error = x.error /\ c.rx = x.rx
          BY <2>1, <5>1, <5>2, <5>3 DEF Registers
        <5> HIDE DEF c
        <5>5. r = Result(c, Tail(q), <<>>, Nothing, "keep")
          BY <4>2, <4>3 DEF Change
        <5>6. /\ c.pc \in {2, 3, 4, 5, 6, 7} /\ (c.pc = 7 => ~c.busy)
              /\ c.pc \in Waiting => x.pc \in Waiting
          BY <2>8, <5>4 DEF Waiting
        <5>7. QED
          BY <2>4, <4>1, <5>4, <5>5, <5>6
      <4>4. CASE ~Listens(w)
        BY <3>3, <4>1, <4>2, <4>4
      <4>5. QED
        BY <4>3, <4>4
    <3>6. QED
      BY <3>4, <3>5
  <2>9. CASE x.pc = 4
    <3> DEFINE start == [remaining |-> 1, addr |-> b, ilen |-> 1, timer |-> x.mto,
                         got_any |-> FALSE]
               c == [x EXCEPT !.rx = start]
    <3>1. ins.op = "RDS" /\ ins.disp = b /\ ins.count = 1
      BY <1>0, <2>9
    <3>2. (x.base + ins.disp) % Space = b /\ b \in Nat
      BY <2>1, <3>1, SetupFacts, SmallAddress
    <3>3. r = receive_pump(c, q, FALSE, TRUE)
      <4>1. r = receive_data(x, q, FALSE, TRUE, (x.base + ins.disp) % Space, 1, 1)
        BY <2>3, <3>1 DEF Execute
      <4>2. QED
        BY <3>2, <4>1 DEF receive_data
    <3>4. start \in Receipts
      BY <3>2 DEF Receipts, Registers
    <3>5. /\ start.remaining = 1 /\ start.addr = b /\ start.ilen = 1 /\ start.timer = x.mto
          /\ ~start.got_any
      OBVIOUS
    <3> HIDE DEF start, r
    <3>6. /\ Registers(c) /\ c.rx = start /\ c.pc = x.pc /\ c.base = x.base
          /\ c.mto = x.mto /\ c.iuar = x.iuar /\ c.status = x.status /\ c.error = x.error
      BY <3>4, ReceiptRegisters
    <3>7. c.busy
      BY DEF Registers
    <3> HIDE DEF c
    <3>8. /\ x.mto \in Nat /\ x.iuar = ListenIua
      BY <2>9 DEF Registers, Listening
    <3>9. Receiving(c) /\ Listening(Causes(b), b, c) /\ InReceipt(c)
      BY SMTT(20), <2>1, <2>9, <3>5, <3>6, <3>8, SetupFacts DEF Receiving, Listening, InReceipt
    <3>10. Pumps(c, W, FALSE, r)
      BY <3>3, <3>6, <3>9, PumpResult
    <3>11. Hears(b, W, c, r)
      BY <3>6, <3>7, <3>9, <3>10, ListenerPumps
    <3>12. QED
      BY <3>6, <3>11 DEF Hears
  <2>10. CASE x.pc = 5
    <3> DEFINE a == Advance(x, 1)
               c == [a EXCEPT !.indicator = TRUE]
    <3>1. ins.op = "IB" /\ ins.set
      BY <1>0, <2>10
    <3>2. r = Result(c, q, <<>>, Nothing, "set")
      BY <2>3, <3>1 DEF Execute, SetIndicator
    <3>3. /\ Registers(a) /\ a.pc = 6 /\ a.base = 0
          /\ a.iuar = x.iuar /\ a.status = x.status /\ a.error = x.error /\ a.rx = x.rx
      BY <2>5, <2>10, SmallAddress
    <3> HIDE DEF a, r
    <3>4. /\ Registers(c) /\ c.pc = 6 /\ c.base = 0
          /\ c.status = x.status /\ c.error = x.error /\ c.rx = x.rx
      BY <3>3 DEF Registers
    <3> HIDE DEF c
    <3>5. QED
      BY <2>4, <3>2, <3>4 DEF Waiting
  <2>11. CASE x.pc = 6
    <3> DEFINE a == Advance(x, 1)
               c == [a EXCEPT !.busy = FALSE]
    <3>1. ins.op = "WAT"
      BY <1>0, <2>11
    <3>2. r = Result(c, q, <<>>, Nothing, "keep")
      BY <2>3, <3>1 DEF Execute, Wait, Change
    <3>3. /\ Registers(a) /\ a.pc = 7 /\ a.base = 0
          /\ a.iuar = x.iuar /\ a.status = x.status /\ a.error = x.error /\ a.rx = x.rx
      BY <2>5, <2>11, SmallAddress
    <3> HIDE DEF a, r
    <3>4. /\ Registers(c) /\ c.pc = 7 /\ c.base = 0 /\ ~c.busy
          /\ c.status = x.status /\ c.error = x.error /\ c.rx = x.rx
      BY <3>3 DEF Registers
    <3> HIDE DEF c
    <3>5. QED
      BY <2>4, <3>2, <3>4 DEF Waiting
  <2>12. QED
    BY <2>1, <2>6, <2>7, <2>8, <2>9, <2>10, <2>11
<1>3. QED
  BY <1>1, <1>2 DEF ins

LEMMA OneWord ==
  ASSUME NEW S, NEW w \in S
  PROVE  <<w>> \in Seq(S) /\ <<>> \in Seq(S) /\ \A s \in Seq(S) : s \o <<>> \in Seq(S)
<1>1. <<w>> \in Seq(S)
  OBVIOUS
<1>2. <<>> \in Seq(S)
  BY EmptySeq
<1>3. QED
  BY <1>1, <1>2, ConcatProperties

LEMMA TransmitterMoves ==
  ASSUME NEW W, NEW v, NEW x, Registers(x), Transmitting(x),
         NEW c, Registers(c), c.rx = x.rx, c.error = x.error, c.status = x.status, c.base = 0,
         c.pc \in {2, 4, 5, 6, 7}, c.pc = 7 => ~c.busy, c.pc = 4 => c.iuar = ListenIua,
         NEW p \in Seq(W), NEW sent \in Seq(Words(v)), NEW bit \in {"keep", "set"}
  PROVE  Sends(W, v, Result(c, p, sent, Nothing, bit))
<1>1. Transmitting(c)
  BY DEF Transmitting, Receiving
<1> DEFINE r == Result(c, p, sent, Nothing, bit)
<1>2. r.bce = c /\ r.queue = p /\ r.sent = sent /\ r.stored = Nothing /\ r.bit = bit
  BY DEF Result
<1>3. DOMAIN Nothing = {}
  BY DEF Nothing
<1> HIDE DEF r
<1>4. Sends(W, v, r)
  BY <1>1, <1>2, <1>3 DEF Sends
<1>5. QED
  BY <1>4 DEF r

LEMMA SilentMove ==
  ASSUME NEW W, NEW v, NEW x, Registers(x), Transmitting(x),
         NEW c, Registers(c), c.rx = x.rx, c.error = x.error, c.status = x.status, c.base = 0,
         c.pc \in {2, 6, 7}, c.pc = 7 => ~c.busy,
         NEW p \in Seq(W), NEW bit \in {"keep", "set"}
  PROVE  Sends(W, v, Result(c, p, <<>>, Nothing, bit))
<1>1. PICK none \in Seq(Words(v)) : none = <<>>
  BY EmptySeq
<1>2. Sends(W, v, Result(c, p, none, Nothing, bit))
  BY TransmitterMoves
<1>3. QED
  BY <1>1, <1>2

LEMMA TransmitterSlice ==
  ASSUME setup \in Setup, NEW b \in Bus, NEW W, NEW x, Registers(x), Transmitting(x), x.busy,
         NEW q \in Seq(W), NEW mem
  PROVE  Sends(W, mem[b], Slice(x, TransmitterCode(b)[x.pc], q, TRUE, TRUE, mem, NoReply))
<1> DEFINE ins == TransmitterCode(b)[x.pc]
           r == Slice(x, ins, q, TRUE, TRUE, mem, NoReply)
           v == mem[b]
<1>1. /\ x.pc = 0 => ins.op = "LBR" /\ ins.value = 0
      /\ x.pc = 2 => ins.op = "CMD" /\ ins.word = ListenWord(ListenIua, 0) /\ ~ins.direct
      /\ x.pc = 4 => ins.op = "TDS" /\ ins.disp = b /\ ins.count = 1
      /\ x.pc = 5 => ins.op = "IB" /\ ins.set
      /\ x.pc = 6 => ins.op = "WAT"
  BY TransmitterProgram
<1> HIDE DEF ins, v
<1>2. x.pc \in {0, 2, 4, 5, 6} /\ x.base = 0 /\ ~Receiving(x)
  BY DEF Transmitting
<1>3. ~Unaligned(x, ins)
  <2>1. 0 % 2 = 0 /\ 2 % 2 = 0
    OBVIOUS
  <2>2. QED
    BY <1>1, <1>2, <2>1 DEF Unaligned, LongFormat
<1>4. r = Execute(x, ins, q, TRUE, TRUE, mem, NoReply)
  BY <1>2, <1>3 DEF Slice
<1>5. ASSUME NEW n \in {1, 2}
      PROVE  LET a == Advance(x, n)
             IN  /\ Registers(a) /\ a.pc = (x.pc + n) % Space /\ a.base = 0
                 /\ a.iuar = x.iuar /\ a.status = x.status /\ a.error = x.error
                 /\ a.rx = x.rx
  <2>1. n \in Nat
    OBVIOUS
  <2>2. QED
    BY <1>2, <2>1, Advanced
<1>6. /\ q \o <<>> \in Seq(W)
      /\ <<ListenWord(ListenIua, 0)>> \in Seq(Words(v))
      /\ \A f \in [1..1 -> Words(v)] : f \in Seq(Words(v))
  <2>1. ListenWord(ListenIua, 0) \in Words(v)
    BY DEF Words
  <2>2. q \o <<>> \in Seq(W)
    BY EmptySeq, ConcatProperties
  <2>3. ASSUME NEW f \in [1..1 -> Words(v)]
        PROVE  f \in Seq(Words(v))
    BY SeqDef
  <2>4. QED
    BY <2>1, <2>2, <2>3, OneWord
<1>7. CASE x.pc = 0
  <2> DEFINE a == Advance(x, 2)
             c == [a EXCEPT !.base = 0]
  <2>1. r = Result(c, q, <<>>, Nothing, "keep")
    BY <1>1, <1>4, <1>7 DEF Execute, Change
  <2>2. /\ Registers(a) /\ a.pc = 2 /\ a.base = 0
        /\ a.iuar = x.iuar /\ a.status = x.status /\ a.error = x.error /\ a.rx = x.rx
    BY <1>5, <1>7, SmallAddress
  <2> HIDE DEF a, r
  <2>3. /\ Registers(c) /\ c.pc = 2 /\ c.base = 0
        /\ c.status = x.status /\ c.error = x.error /\ c.rx = x.rx
    BY <2>2 DEF Registers
  <2> HIDE DEF c
  <2>4. Sends(W, v, r)
    BY <2>1, <2>3, SilentMove
  <2>5. QED
    BY <2>4 DEF r, v, ins
<1>8. CASE x.pc = 2
  <2> DEFINE a == Advance(x, 2)
             w == ListenWord(ListenIua, 0)
             c == [a EXCEPT !.iuar = w.iua]
  <2>1. r = Result(c, q \o <<>>, <<w>>, Nothing, "keep")
    <3>1. r = SendCommand(x, ins, q, TRUE, NoReply)
      BY <1>1, <1>4, <1>8 DEF Execute
    <3>2. NoReply.command = <<>>
      BY DEF NoReply
    <3> HIDE DEF w
    <3>3. ins.word = w /\ ~ins.direct
      BY <1>1, <1>8 DEF w
    <3>4. QED
      BY <3>1, <3>2, <3>3 DEF SendCommand
  <2>2. /\ Registers(a) /\ a.pc = 4 /\ a.base = 0
        /\ a.iuar = x.iuar /\ a.status = x.status /\ a.error = x.error /\ a.rx = x.rx
    BY <1>5, <1>8, SmallAddress
  <2>3. w.iua = ListenIua
    BY DEF ListenWord
  <2> HIDE DEF a, r, w
  <2>4. /\ Registers(c) /\ c.pc = 4 /\ c.base = 0 /\ c.iuar = ListenIua
        /\ c.status = x.status /\ c.error = x.error /\ c.rx = x.rx
    BY <2>2, <2>3 DEF Registers
  <2> HIDE DEF c
  <2>5. <<w>> \in Seq(Words(v))
    BY <1>6 DEF w
  <2>6. Sends(W, v, r)
    BY <1>6, <2>1, <2>4, <2>5, TransmitterMoves
  <2>7. QED
    BY <2>6 DEF r, v, ins
<1>9. CASE x.pc = 4
  <2> DEFINE a == Advance(x, 1)
             words == [i \in 1..1 |-> DataWord(x.iuar, mem[(b + i - 1) % Space])]
  <2>1. b \in 0..(Space - 1) /\ b % Space = b /\ Space \in Nat
    BY SetupFacts, SmallAddress
  <2>2. (x.base + ins.disp) % Space = b
    BY <1>1, <1>2, <1>9, <2>1
  <2>3. r = transmit_data(x, q, TRUE, mem, NoReply, (x.base + ins.disp) % Space, 1, 1)
    BY <1>1, <1>4, <1>9 DEF Execute
  <2>4. r = Result(a, q \o <<>>, words, Nothing, "keep")
    <3>1. NoReply.data = <<>>
      BY DEF NoReply
    <3>2. r = transmit_data(x, q, TRUE, mem, NoReply, b, 1, 1)
      BY <2>2, <2>3
    <3> HIDE DEF r
    <3>3. QED
      BY <3>1, <3>2 DEF transmit_data
  <2>5. words \in [1..1 -> Words(v)]
    <3>1. x.iuar = ListenIua
      BY <1>9 DEF Transmitting
    <3>2. ASSUME NEW i \in 1..1
          PROVE  DataWord(x.iuar, mem[(b + i - 1) % Space]) \in Words(v)
      <4>1. b + i - 1 = b
        BY <2>1
      <4>2. QED
        BY <2>1, <3>1, <4>1 DEF Words, v
    <3>3. QED
      BY <3>2
  <2>6. /\ Registers(a) /\ a.pc = 5 /\ a.base = 0
        /\ a.iuar = x.iuar /\ a.status = x.status /\ a.error = x.error /\ a.rx = x.rx
    BY <1>5, <1>9, SmallAddress
  <2> HIDE DEF a, r, words
  <2>7. Sends(W, v, r)
    BY <1>6, <2>4, <2>5, <2>6, TransmitterMoves
  <2>8. QED
    BY <2>7 DEF r, v, ins
<1>10. CASE x.pc = 5
  <2> DEFINE a == Advance(x, 1)
             c == [a EXCEPT !.indicator = TRUE]
  <2>1. r = Result(c, q, <<>>, Nothing, "set")
    BY <1>1, <1>4, <1>10 DEF Execute, SetIndicator
  <2>2. /\ Registers(a) /\ a.pc = 6 /\ a.base = 0
        /\ a.iuar = x.iuar /\ a.status = x.status /\ a.error = x.error /\ a.rx = x.rx
    BY <1>5, <1>10, SmallAddress
  <2> HIDE DEF a, r
  <2>3. /\ Registers(c) /\ c.pc = 6 /\ c.base = 0
        /\ c.status = x.status /\ c.error = x.error /\ c.rx = x.rx
    BY <2>2 DEF Registers
  <2> HIDE DEF c
  <2>4. Sends(W, v, r)
    <3>1. c.pc \in {2, 6, 7} /\ (c.pc = 7 => ~c.busy)
      BY <2>3
    <3>2. QED
      BY <2>1, <2>3, <3>1, SilentMove
  <2>5. QED
    BY <2>4 DEF r, v, ins
<1>11. CASE x.pc = 6
  <2> DEFINE a == Advance(x, 1)
             c == [a EXCEPT !.busy = FALSE]
  <2>1. r = Result(c, q, <<>>, Nothing, "keep")
    BY <1>1, <1>4, <1>11 DEF Execute, Wait, Change
  <2>2. /\ Registers(a) /\ a.pc = 7 /\ a.base = 0
        /\ a.iuar = x.iuar /\ a.status = x.status /\ a.error = x.error /\ a.rx = x.rx
    BY <1>5, <1>11, SmallAddress
  <2> HIDE DEF a, r
  <2>3. /\ Registers(c) /\ c.pc = 7 /\ c.base = 0 /\ ~c.busy
        /\ c.status = x.status /\ c.error = x.error /\ c.rx = x.rx
    BY <2>2 DEF Registers
  <2> HIDE DEF c
  <2>4. Sends(W, v, r)
    BY <2>1, <2>3, SilentMove
  <2>5. QED
    BY <2>4 DEF r, v, ins
<1>12. QED
  BY <1>2, <1>7, <1>8, <1>9, <1>10, <1>11

-----------------------------------------------------------------------------
(***************************************************************************)
(* One step of GPC g: what it does with its buses and its mailboxes.       *)
(***************************************************************************)
Outcome(g, b) == BceSlice(g, b, MailAfterCpu(g))

LEMMA SioFacts ==
  ASSUME Set, NEW g \in GPC, NEW b \in Bus
  PROVE  LET s == Sio(g, b)
         IN  /\ Registers(s)
             /\ IF Transmits(g, b) THEN Transmitting(s) ELSE Listening(Causes(b), b, s)
             /\ s.pc = bce[g][b].pc /\ (s.error <=> bce[g][b].error)
             /\ msc[g] = "poll" => s = ResetBce(0) /\ ~s.busy
<1> DEFINE x == bce[g][b]
           s == [x EXCEPT !.busy = TRUE]
<1>1. /\ Registers(x)
      /\ IF Transmits(g, b) THEN Transmitting(x) ELSE Listening(Causes(b), b, x)
      /\ msc[g] \in {"poll", "start"} => x = ResetBce(0)
  BY DEF Set, Controls
<1>2. ~ResetBce(0).busy /\ ResetBce(0).pc = 0
  BY DEF ResetBce
<1>3. CASE msc[g] # "start"
  BY <1>1, <1>2, <1>3 DEF Sio
<1>4. CASE msc[g] = "start"
  <2>1. Sio(g, b) = s
    BY <1>4 DEF Sio
  <2> HIDE DEF x
  <2>2. x.pc = 0
    BY <1>1, <1>2, <1>4
  <2>3. /\ Registers(s) /\ s.pc = 0 /\ s.base = x.base /\ s.rx = x.rx /\ s.status = x.status
        /\ s.error = x.error /\ s.mto = x.mto /\ s.iuar = x.iuar
    BY <1>1, <2>2 DEF Registers
  <2>4. x.error = FALSE /\ x.rx = NoRx
    BY <1>1, <1>4 DEF ResetBce
  <2> HIDE DEF s
  <2>5. ~Receiving(s) /\ ~Receiving(x)
    BY <2>3, <2>4 DEF Receiving, NoRx
  <2>6. IF Transmits(g, b) THEN Transmitting(s) ELSE Listening(Causes(b), b, s)
    BY <1>1, <2>3, <2>4, <2>5 DEF Transmitting, Listening
  <2>7. QED
    BY <1>4, <2>1, <2>2, <2>3, <2>6 DEF x
<1>5. QED
  BY <1>3, <1>4

LEMMA OwnMailbox ==
  ASSUME Set, NEW g \in GPC
  PROVE  /\ \A s \in GPC : MailAfterCpu(g)[s] = IF s = g /\ cpu[g].at = "publish"
                                                THEN setup.value[g] ELSE mail[g][s]
         /\ msc[g] # "poll" => MailAfterCpu(g)[g] = setup.value[g]
<1>1. mail[g] \in [GPC -> {0} \cup {setup.value[h] : h \in GPC}]
  BY DEF Set, TypeOK
<1>2. \A s \in GPC : MailAfterCpu(g)[s] = IF s = g /\ cpu[g].at = "publish"
                                          THEN setup.value[g] ELSE mail[g][s]
  BY <1>1 DEF MailAfterCpu
<1>3. msc[g] # "poll" => mail[g][g] = setup.value[g]
  BY DEF Set, Controls, MailboxesTrue
<1>4. QED
  BY <1>2, <1>3

LEMMA OutcomeFacts ==
  ASSUME Set, NEW g \in GPC, NEW b \in Bus
  PROVE  LET r == Outcome(g, b)
         IN  /\ IF Transmits(g, b) THEN Sends(Spoken(b), setup.value[b], r)
                ELSE Hears(b, Spoken(b), bce[g][b], r)
             /\ msc[g] = "poll" => r.bce = ResetBce(0) /\ r.sent = <<>>
<1> DEFINE s == Sio(g, b)
           r == Outcome(g, b)
           x == bce[g][b]
           W == Spoken(b)
           mailbox == MailAfterCpu(g)
<1>1. /\ Registers(s)
      /\ IF Transmits(g, b) THEN Transmitting(s) ELSE Listening(Causes(b), b, s)
      /\ s.pc = x.pc /\ (s.error <=> x.error)
      /\ msc[g] = "poll" => s = ResetBce(0) /\ ~s.busy
  BY SioFacts
<1>2. r = IF s.busy
          THEN Slice(s, Code(g, b)[s.pc], rx[g][b], Transmits(g, b), TRUE, mailbox, NoReply)
          ELSE Change(s, rx[g][b])
  BY DEF Outcome, BceSlice
<1>3. rx[g][b] \in Seq(W) /\ W \subseteq Utterances(b)
  BY DEF Set, Controls, Spoken
<1>4. setup \in Setup
  BY DEF Set
<1>5. msc[g] # "poll" => mailbox[g] = setup.value[g]
  BY OwnMailbox
<1> HIDE DEF s, r, W, mailbox, x
<1>6. ASSUME NEW bus, Hears(b, W, s, bus)
      PROVE  Hears(b, W, x, bus)
  BY <1>1, <1>6 DEF Hears
<1>7. CASE ~s.busy
  <2>1. r = Result(s, rx[g][b], <<>>, Nothing, "keep")
    BY <1>2, <1>7 DEF Change
  <2>2. /\ r.bce = s /\ r.queue = rx[g][b] /\ r.sent = <<>> /\ DOMAIN r.stored = {}
        /\ r.bit = "keep"
    BY <2>1 DEF Result, Nothing
  <2>3. CASE Transmits(g, b)
    BY <1>1, <1>3, <2>2, <2>3, EmptySeq DEF Sends, r, W
  <2>4. CASE ~Transmits(g, b)
    BY <1>1, <1>3, <2>2, <2>4 DEF Hears, r, W, x
  <2>5. QED
    BY <1>1, <2>2, <2>3, <2>4 DEF r
<1>8. CASE s.busy
  <2>1. msc[g] # "poll"
    BY <1>1, <1>8
  <2>2. CASE Transmits(g, b)
    <3>1. g = b /\ mailbox[b] = setup.value[b]
      BY <1>5, <2>1, <2>2 DEF Transmits
    <3>2. r = Slice(s, TransmitterCode(b)[s.pc], rx[g][b], TRUE, TRUE, mailbox, NoReply)
      BY <1>2, <1>8, <2>2 DEF Code
    <3>3. Sends(W, mailbox[b], r)
      BY <1>1, <1>3, <1>4, <1>8, <2>2, <3>2, TransmitterSlice
    <3>4. QED
      BY <2>1, <2>2, <3>1, <3>3 DEF r, W
  <2>3. CASE ~Transmits(g, b)
    <3>1. r = Slice(s, ListenerCode(b)[s.pc], rx[g][b], FALSE, TRUE, mailbox, NoReply)
      <4>1. Code(g, b) = ListenerCode(b) /\ Transmits(g, b) = FALSE
        BY <2>3 DEF Code, Transmits
      <4>2. QED
        BY <1>2, <1>8, <4>1
    <3>2. Hears(b, W, s, r)
      BY <1>1, <1>3, <1>4, <1>8, <2>3, <3>1, ListenerSlice
    <3>3. QED
      BY <1>6, <2>1, <2>3, <3>2 DEF r, W, x
  <2>4. QED
    BY <2>2, <2>3
<1>9. QED
  BY <1>7, <1>8

LEMMA StepFacts ==
  ASSUME Set, NEW g \in GPC, StepOne(g)
  PROVE  /\ setup' = setup /\ dead' = dead /\ GPC' = GPC
         /\ g \notin dead /\ g \notin setup.trapping
         /\ \A h \in GPC \ {g} :
              /\ cpu'[h] = cpu[h] /\ msc'[h] = msc[h] /\ bce'[h] = bce[h]
              /\ indicators'[h] = indicators[h] /\ mail'[h] = mail[h]
         /\ DOMAIN bce' = GPC
         /\ cpu' = [cpu EXCEPT ![g] = CpuStep(g, cpu[g])] /\ cpu'[g] = CpuStep(g, cpu[g])
         /\ msc' = [msc EXCEPT ![g] = MscStep(g, msc[g], MailAfterCpu(g))]
         /\ msc'[g] = MscStep(g, msc[g], MailAfterCpu(g))
         /\ \A b \in Bus : bce'[g][b] = Outcome(g, b).bce
         /\ indicators' = [indicators EXCEPT ![g] =
                             (indicators[g] \cup {b \in Bus : Outcome(g, b).bit = "set"})
                                \ {b \in Bus : Outcome(g, b).bit = "reset"}]
         /\ indicators'[g] = (indicators[g] \cup {b \in Bus : Outcome(g, b).bit = "set"})
                                \ {b \in Bus : Outcome(g, b).bit = "reset"}
         /\ mail' = [mail EXCEPT ![g] = mail'[g]]
         /\ mail'[g] = [s \in GPC |-> IF s \in Bus /\ s \in DOMAIN Outcome(g, s).stored
                                      THEN Outcome(g, s).stored[s] ELSE MailAfterCpu(g)[s]]
         /\ \A h \in GPC, b \in Bus :
              rx'[h][b] = IF h = g THEN Outcome(g, b).queue
                          ELSE rx[h][b] \o Transmitted(b, Outcome(g, b).sent)
<1> DEFINE r == [b \in Bus |-> Outcome(g, b)]
           mailbox == MailAfterCpu(g)
           lamps == (indicators[g] \cup {b \in Bus : r[b].bit = "set"})
                       \ {b \in Bus : r[b].bit = "reset"}
           boxes == [s \in GPC |-> IF s \in Bus /\ s \in DOMAIN r[s].stored
                                   THEN r[s].stored[s] ELSE mailbox[s]]
           heard == [h \in GPC |-> [b \in Bus |->
                       IF h = g THEN r[b].queue ELSE rx[h][b] \o Transmitted(b, r[b].sent)]]
           slices == [b \in Bus |-> r[b].bce]
<1>1. /\ g \notin dead /\ g \notin setup.trapping
      /\ setup' = setup /\ dead' = dead
      /\ cpu' = [cpu EXCEPT ![g] = CpuStep(g, cpu[g])]
      /\ msc' = [msc EXCEPT ![g] = MscStep(g, msc[g], mailbox)]
  BY DEF StepOne
<1>2. /\ bce' = [bce EXCEPT ![g] = slices]
      /\ indicators' = [indicators EXCEPT ![g] = lamps]
      /\ mail' = [mail EXCEPT ![g] = boxes]
      /\ rx' = heard
  <2>1. r = [b \in Bus |-> BceSlice(g, b, mailbox)]
    BY DEF Outcome
  <2>2. PICK q \in {[b \in Bus |-> BceSlice(g, b, mailbox)]} :
           /\ bce' = [bce EXCEPT ![g] = [b \in Bus |-> q[b].bce]]
           /\ indicators' = [indicators EXCEPT ![g] =
                               (@ \cup {b \in Bus : q[b].bit = "set"})
                                  \ {b \in Bus : q[b].bit = "reset"}]
           /\ mail' = [mail EXCEPT ![g] =
                         [s \in GPC |-> IF s \in Bus /\ s \in DOMAIN q[s].stored
                                        THEN q[s].stored[s] ELSE mailbox[s]]]
           /\ rx' = [h \in GPC |-> [b \in Bus |->
                       IF h = g THEN q[b].queue ELSE rx[h][b] \o Transmitted(b, q[b].sent)]]
    BY DEF StepOne
  <2>3. q = r
    BY <2>1, Zenon
  <2> HIDE DEF r, mailbox
  <2>4. /\ slices = [b \in Bus |-> q[b].bce]
        /\ lamps = (indicators[g] \cup {b \in Bus : q[b].bit = "set"})
                      \ {b \in Bus : q[b].bit = "reset"}
        /\ boxes = [s \in GPC |-> IF s \in Bus /\ s \in DOMAIN q[s].stored
                                  THEN q[s].stored[s] ELSE mailbox[s]]
        /\ heard = [h \in GPC |-> [b \in Bus |->
                      IF h = g THEN q[b].queue ELSE rx[h][b] \o Transmitted(b, q[b].sent)]]
    BY <2>3, Zenon
  <2> HIDE DEF slices, lamps, boxes, heard
  <2>5. QED
    BY <2>2, <2>4, Zenon
<1>3. GPC' = GPC
  BY <1>1 DEF GPC
<1>4. DOMAIN cpu = GPC /\ DOMAIN msc = GPC /\ DOMAIN bce = GPC /\ DOMAIN indicators = GPC
      /\ DOMAIN mail = GPC
  BY DEF Set, TypeOK
<1>5. /\ \A b \in Bus : r[b] = Outcome(g, b) /\ slices[b] = Outcome(g, b).bce
      /\ lamps = (indicators[g] \cup {b \in Bus : Outcome(g, b).bit = "set"})
                    \ {b \in Bus : Outcome(g, b).bit = "reset"}
      /\ boxes = [s \in GPC |-> IF s \in Bus /\ s \in DOMAIN Outcome(g, s).stored
                                THEN Outcome(g, s).stored[s] ELSE MailAfterCpu(g)[s]]
      /\ \A h \in GPC, b \in Bus :
           heard[h][b] = IF h = g THEN Outcome(g, b).queue
                         ELSE rx[h][b] \o Transmitted(b, Outcome(g, b).sent)
  OBVIOUS
<1> HIDE DEF r, mailbox, lamps, boxes, heard, slices
<1>6. /\ cpu'[g] = CpuStep(g, cpu[g]) /\ msc'[g] = MscStep(g, msc[g], mailbox)
      /\ bce'[g] = slices /\ indicators'[g] = lamps /\ mail'[g] = boxes /\ DOMAIN bce' = GPC
      /\ \A h \in GPC \ {g} :
           /\ cpu'[h] = cpu[h] /\ msc'[h] = msc[h] /\ bce'[h] = bce[h]
           /\ indicators'[h] = indicators[h] /\ mail'[h] = mail[h]
  BY <1>1, <1>2, <1>4
<1>7. /\ \A b \in Bus : bce'[g][b] = Outcome(g, b).bce
      /\ mail' = [mail EXCEPT ![g] = mail'[g]]
  BY <1>2, <1>5, <1>6
<1>8. msc' = [msc EXCEPT ![g] = MscStep(g, msc[g], MailAfterCpu(g))]
      /\ msc'[g] = MscStep(g, msc[g], MailAfterCpu(g))
  BY <1>1, <1>6 DEF mailbox
<1>9. \A h \in GPC, b \in Bus :
        rx'[h][b] = IF h = g THEN Outcome(g, b).queue
                    ELSE rx[h][b] \o Transmitted(b, Outcome(g, b).sent)
  BY <1>2, <1>5
<1>10. /\ indicators' = [indicators EXCEPT ![g] =
                           (indicators[g] \cup {b \in Bus : Outcome(g, b).bit = "set"})
                              \ {b \in Bus : Outcome(g, b).bit = "reset"}]
       /\ indicators'[g] = (indicators[g] \cup {b \in Bus : Outcome(g, b).bit = "set"})
                              \ {b \in Bus : Outcome(g, b).bit = "reset"}
  BY <1>2, <1>5, <1>6, Zenon
<1>11. mail'[g] = [s \in GPC |-> IF s \in Bus /\ s \in DOMAIN Outcome(g, s).stored
                                 THEN Outcome(g, s).stored[s] ELSE MailAfterCpu(g)[s]]
  BY <1>5, <1>6, Zenon
<1>12. QED
  BY <1>1, <1>3, <1>6, <1>7, <1>8, <1>9, <1>10, <1>11, Zenon

(* What a mailbox of g holds after the step: a value stays, and one that   *)
(* appears is its owner's, who has published it and is not unheard.        *)
LEMMA MailboxStep ==
  ASSUME Set, NEW g \in GPC, StepOne(g), NEW s \in GPC
  PROVE  /\ mail[g][s] # 0 => mail'[g][s] = mail[g][s]
         /\ mail'[g][s] \in {0, setup.value[s]}
         /\ mail'[g][s] # 0 => ~Unheard(g, s) /\ (s = g \/ mail[s][s] # 0)
         /\ s = g => mail'[g][s] = MailAfterCpu(g)[s]
         /\ s \in Bus /\ s # g /\ bce'[g][s].pc \in Waiting => mail'[g][s] = 0
<1> DEFINE r == Outcome(g, s)
           got == s \in Bus /\ s \in DOMAIN r.stored
           box == MailAfterCpu(g)[s]
<1>1. mail'[g][s] = IF got THEN r.stored[s] ELSE box
  <2>1. mail'[g] = [t \in GPC |-> IF t \in Bus /\ t \in DOMAIN Outcome(g, t).stored
                                  THEN Outcome(g, t).stored[t] ELSE MailAfterCpu(g)[t]]
    BY StepFacts, Zenon
  <2>2. QED
    BY <2>1
<1>2. box = IF s = g /\ cpu[g].at = "publish" THEN setup.value[g] ELSE mail[g][s]
  BY OwnMailbox
<1>3. s \in Bus => /\ IF s = g THEN Sends(Spoken(s), setup.value[s], r)
                              ELSE Hears(s, Spoken(s), bce[g][s], r)
                   /\ bce'[g][s] = r.bce
  BY OutcomeFacts, StepFacts DEF Transmits
<1>4. /\ mail[g][s] # 0 => /\ mail[g][s] = setup.value[s] /\ mail[s][s] = setup.value[s]
                           /\ ~Unheard(g, s)
      /\ mail[s][s] # 0 => ~Unheard(s, s)
  BY DEF Set, MailboxesTrue
<1>5. setup.value[s] # 0 /\ setup.value[g] # 0
  BY SetupFacts DEF Set
<1>6. g \notin setup.trapping
  BY StepFacts
<1> HIDE DEF r, box
<1>7. CASE got
  <2>1. s # g /\ Hears(s, Spoken(s), bce[g][s], r)
    BY <1>3, <1>7 DEF Sends
  <2>2. /\ r.stored[s] = setup.value[s] /\ Spoken(s) # {} /\ s \notin setup.garbled
        /\ r.bce.pc \notin Waiting
    BY <1>7, <2>1 DEF Hears
  <2>3. mail[s][s] # 0
    BY <2>2 DEF Spoken
  <2>4. ~Unheard(g, s)
    BY <1>4, <2>2, <2>3 DEF Unheard
  <2>5. QED
    BY <1>1, <1>3, <1>4, <1>5, <1>7, <2>1, <2>2, <2>3, <2>4
<1>8. CASE ~got
  <2>1. mail'[g][s] = box
    BY <1>1, <1>8
  <2>2. CASE s = g /\ cpu[g].at = "publish"
    BY <1>2, <1>4, <1>5, <1>6, <2>1, <2>2 DEF Unheard, box
  <2>3. CASE ~(s = g /\ cpu[g].at = "publish")
    <3>1. mail'[g][s] = mail[g][s]
      BY <1>2, <2>1, <2>3
    <3>2. ASSUME s \in Bus, s # g, bce'[g][s].pc \in Waiting
          PROVE  mail[g][s] = 0
      <4>1. bce[g][s].pc \in Waiting
        BY <1>3, <3>2 DEF Hears
      <4>2. QED
        BY <3>2, <4>1 DEF Set, Controls, Transmits
    <3>3. QED
      BY <1>4, <1>5, <2>1, <3>1, <3>2 DEF box
  <2>4. QED
    BY <2>2, <2>3
<1>9. QED
  BY <1>7, <1>8

(* No step empties or changes a mailbox that is filled.                    *)
LEMMA Persist ==
  ASSUME Set, NEW g \in GPC, StepOne(g), NEW h \in GPC, NEW s \in GPC
  PROVE  /\ mail[h][s] # 0 => mail'[h][s] = mail[h][s]
         /\ mail'[h][s] \in {0, setup.value[s]}
<1>1. CASE h = g
  BY <1>1, MailboxStep
<1>2. CASE h # g
  <2>1. mail'[h] = mail[h]
    BY <1>2, StepFacts
  <2>2. mail[h][s] \in {0, setup.value[s]}
    BY DEF Set, MailboxesTrue
  <2>3. QED
    BY <2>1, <2>2
<1>3. QED
  BY <1>1, <1>2

LEMMA MailboxesStayTrue ==
  ASSUME Set, NEW g \in GPC, StepOne(g)
  PROVE  MailboxesTrue'
<1>1. setup' = setup /\ GPC' = GPC
  BY StepFacts
<1>2. SUFFICES ASSUME NEW h \in GPC, NEW s \in GPC, mail'[h][s] # 0
               PROVE  /\ mail'[h][s] = setup.value[s] /\ mail'[s][s] = setup.value[s]
                      /\ ~Unheard(h, s)
  BY <1>1 DEF MailboxesTrue, Unheard
<1>3. mail'[h][s] = setup.value[s]
  BY <1>2, Persist
<1>4. ~Unheard(h, s) /\ mail'[s][s] # 0
  <2>1. CASE h = g
    <3>1. ~Unheard(g, s) /\ (s = g \/ mail[s][s] # 0)
      BY <1>2, <2>1, MailboxStep
    <3>2. mail[s][s] # 0 => mail'[s][s] # 0
      BY Persist
    <3>3. QED
      BY <1>2, <2>1, <3>1, <3>2
  <2>2. CASE h # g
    <3>1. mail[h][s] # 0
      BY <1>2, <2>2, StepFacts
    <3>2. ~Unheard(h, s) /\ mail[s][s] = setup.value[s] /\ setup.value[s] # 0
      BY <3>1, SetupFacts DEF Set, MailboxesTrue
    <3>3. QED
      BY <3>2, Persist
  <2>3. QED
    BY <2>1, <2>2
<1>5. mail'[s][s] = setup.value[s]
  BY <1>4, Persist
<1>6. QED
  BY <1>3, <1>4, <1>5

(* What bus b may have carried grows as its commander speaks; its words,   *)
(* and what may be wrong with it, stay the same.                           *)
LEMMA SpokenGrows ==
  ASSUME Set, NEW g \in GPC, StepOne(g), NEW b \in Bus
  PROVE  /\ Causes(b)' = Causes(b)
         /\ Spoken(b)' = IF mail'[b][b] = 0 THEN {} ELSE Utterances(b)
         /\ Seq(Spoken(b)) \subseteq Seq(Spoken(b)')
<1>1. setup' = setup
  BY StepFacts
<1>2. Utterances(b)' = Utterances(b)
  BY <1>1 DEF Utterances, Garble
<1>3. Causes(b)' = Causes(b)
  BY <1>1 DEF Causes
<1>4. Spoken(b)' = IF mail'[b][b] = 0 THEN {} ELSE Utterances(b)
  BY <1>2 DEF Spoken
<1>5. b \in GPC
  BY SetupFacts DEF Set
<1>6. mail[b][b] # 0 => mail'[b][b] # 0
  BY <1>5, Persist
<1>7. Spoken(b) \subseteq Spoken(b)'
  BY <1>4, <1>6 DEF Spoken
<1>8. QED
  BY <1>3, <1>4, <1>7, SeqMonotonic

(* The words on a bus reach the other receivers as utterances.             *)
LEMMA Broadcast ==
  ASSUME Set, NEW g \in GPC, StepOne(g), NEW b \in Bus
  PROVE  Transmitted(b, Outcome(g, b).sent) \in Seq(Spoken(b)')
<1> DEFINE words == Outcome(g, b).sent
           v == setup.value[b]
           f == [i \in 1..Len(words) |-> Garble(b, words[i])]
<1>1. f = Transmitted(b, words)
  BY DEF Transmitted
<1>2. CASE words = <<>>
  <2>1. Len(words) = 0
    BY <1>2
  <2> HIDE DEF words
  <2>2. f \in [1..0 -> Spoken(b)']
    BY <2>1
  <2>3. f \in Seq(Spoken(b)')
    BY <2>2, SeqDef
  <2>4. QED
    BY <1>1, <2>3 DEF words
<1>3. CASE words # <<>>
  <2>1. g = b /\ words \in Seq(Words(v)) /\ msc[g] # "poll"
    BY <1>3, OutcomeFacts DEF Sends, Hears, Transmits
  <2>2. mail[b][b] # 0
    BY <2>1 DEF Set, Controls
  <2>3. mail'[b][b] # 0
    BY <2>1, <2>2, Persist
  <2>4. Spoken(b)' = Utterances(b)
    BY <2>3, SpokenGrows
  <2>5. ASSUME NEW w \in Words(v)
        PROVE  Garble(b, w) \in Utterances(b)
    <3>1. ListenWord(ListenIua, 0).cmd_sync
      BY DEF ListenWord
    <3>2. Garble(b, ListenWord(ListenIua, 0)) = ListenWord(ListenIua, 0)
      BY <3>1 DEF Garble
    <3>3. QED
      BY <3>2 DEF Words, Utterances
  <2> HIDE DEF words, v
  <2>6. Len(words) \in Nat /\ \A i \in 1..Len(words) : words[i] \in Words(v)
    BY <2>1, LenProperties, ElementOfSeq
  <2>7. f \in [1..Len(words) -> Utterances(b)]
    BY <2>5, <2>6
  <2> HIDE DEF f
  <2>8. f \in Seq(Utterances(b))
    BY <2>6, <2>7, SeqDef
  <2>9. QED
    BY <1>1, <2>4, <2>8 DEF words
<1>4. QED
  BY <1>2, <1>3

LEMMA QueuesKept ==
  ASSUME Set, NEW g \in GPC, StepOne(g), NEW h \in GPC, NEW b \in Bus
  PROVE  rx'[h][b] \in Seq(Spoken(b)')
<1>1. rx[h][b] \in Seq(Spoken(b))
  BY DEF Set, Controls
<1>2. Seq(Spoken(b)) \subseteq Seq(Spoken(b)')
  BY SpokenGrows
<1>3. CASE h = g
  <2>1. rx'[h][b] = Outcome(g, b).queue
    BY <1>3, StepFacts
  <2>2. Outcome(g, b).queue \in Seq(Spoken(b))
    BY OutcomeFacts DEF Sends, Hears
  <2>3. QED
    BY <1>2, <2>1, <2>2
<1>4. CASE h # g
  <2>1. rx'[h][b] = rx[h][b] \o Transmitted(b, Outcome(g, b).sent)
    <3>1. \A k \in GPC, c \in Bus :
            rx'[k][c] = IF k = g THEN Outcome(g, c).queue
                        ELSE rx[k][c] \o Transmitted(c, Outcome(g, c).sent)
      BY StepFacts, Zenon
    <3>2. QED
      BY <1>4, <3>1, Zenon
  <2>2. Transmitted(b, Outcome(g, b).sent) \in Seq(Spoken(b)')
    BY Broadcast
  <2>3. rx[h][b] \in Seq(Spoken(b)')
    BY <1>1, <1>2
  <2> DEFINE W == Spoken(b)'
             t == Transmitted(b, Outcome(g, b).sent)
             q == rx[h][b]
  <2>4. t \in Seq(W) /\ q \in Seq(W)
    BY <2>2, <2>3
  <2> HIDE DEF W, t, q
  <2>5. q \o t \in Seq(W)
    BY <2>4, ConcatProperties
  <2>6. QED
    BY <2>1, <2>5 DEF W, t, q
<1>5. QED
  BY <1>3, <1>4

LEMMA ControlsKept ==
  ASSUME Set, NEW g \in GPC, StepOne(g), NEW h \in GPC
  PROVE  Controls(h)'
<1>1. \A b \in Bus : rx'[h][b] \in Seq(Spoken(b)') /\ Causes(b)' = Causes(b)
  BY QueuesKept, SpokenGrows
<1>2. SUFFICES
        /\ msc'[h] \in {"poll", "start"} => \A b \in Bus : bce'[h][b] = ResetBce(0)
        /\ msc'[h] # "poll" => mail'[h][h] # 0
        /\ \A b \in Bus :
             /\ Registers(bce'[h][b])
             /\ IF Transmits(h, b) THEN Transmitting(bce'[h][b])
                ELSE Listening(Causes(b), b, bce'[h][b])
             /\ bce'[h][b].error => b \in indicators'[h]
             /\ ~Transmits(h, b) /\ bce'[h][b].pc \in Waiting => mail'[h][b] = 0
  BY <1>1 DEF Controls
<1>3. Controls(h)
  BY DEF Set
<1>4. CASE h # g
  <2>1. /\ msc'[h] = msc[h] /\ bce'[h] = bce[h]
        /\ indicators'[h] = indicators[h] /\ mail'[h] = mail[h]
    BY ZenonT(30), <1>4, StepFacts
  <2>2. QED
    BY <1>3, <2>1 DEF Controls
<1>5. CASE h = g
  <2>1. /\ msc'[g] = MscStep(g, msc[g], MailAfterCpu(g))
        /\ mail'[g][g] = MailAfterCpu(g)[g]
        /\ mail[g][g] # 0 => mail'[g][g] # 0
    <3>1. msc'[g] = MscStep(g, msc[g], MailAfterCpu(g))
      BY StepFacts
    <3>2. QED
      BY <3>1, MailboxStep, Persist
  <2>2. msc[g] \in {"poll", "start", "stop", "wait"}
    BY DEF Set, TypeOK
  <2>3. /\ msc'[g] \in {"poll", "start"} => msc[g] = "poll"
        /\ msc'[g] # "poll" => mail'[g][g] # 0
    BY <1>3, <1>5, <2>1, <2>2 DEF MscStep, Controls
  <2>4. ASSUME msc[g] = "poll", NEW b \in Bus
        PROVE  bce'[g][b] = ResetBce(0)
    <3>1. Outcome(g, b).bce = ResetBce(0)
      BY <2>4, OutcomeFacts
    <3>2. bce'[g][b] = Outcome(g, b).bce
      BY StepFacts
    <3>3. QED
      BY <3>1, <3>2
  <2>5. ASSUME NEW b \in Bus
        PROVE  /\ Registers(bce'[g][b])
               /\ IF Transmits(g, b) THEN Transmitting(bce'[g][b])
                  ELSE Listening(Causes(b), b, bce'[g][b])
               /\ bce'[g][b].error => b \in indicators'[g]
               /\ ~Transmits(g, b) /\ bce'[g][b].pc \in Waiting => mail'[g][b] = 0
    <3> DEFINE r == Outcome(g, b)
    <3>1. bce'[g][b] = r.bce
      BY StepFacts
    <3>2. IF Transmits(g, b) THEN Sends(Spoken(b), setup.value[b], r)
          ELSE Hears(b, Spoken(b), bce[g][b], r)
      BY OutcomeFacts
    <3>3. b \in indicators'[g] <=> ((b \in indicators[g] \/ r.bit = "set") /\ r.bit # "reset")
      <4>1. indicators'[g] = (indicators[g] \cup {c \in Bus : Outcome(g, c).bit = "set"})
                                \ {c \in Bus : Outcome(g, c).bit = "reset"}
        BY StepFacts, Zenon
      <4>2. QED
        BY <4>1
    <3>4. bce[g][b].error => b \in indicators[g]
      BY DEF Set, Controls
    <3>5. b \in GPC
      BY SetupFacts DEF Set
    <3> HIDE DEF r
    <3>6. CASE Transmits(g, b)
      BY <3>1, <3>2, <3>6 DEF Sends, Transmitting
    <3>7. CASE ~Transmits(g, b)
      <4>1. bce'[g][b].pc \in Waiting => mail'[g][b] = 0
        BY <3>5, <3>7, MailboxStep DEF Transmits
      <4>2. QED
        BY <3>1, <3>2, <3>3, <3>4, <3>7, <4>1 DEF Hears
    <3>8. QED
      BY <3>6, <3>7
  <2>6. QED
    BY <1>5, <2>3, <2>4, <2>5
<1>6. QED
  BY <1>4, <1>5

-----------------------------------------------------------------------------
(***************************************************************************)
(* One step of the voting program.                                         *)
(***************************************************************************)
Cpus == [at : {"publish", "count", "look", "vote", "done"}, k : Pass,
         budget : -1..setup.budget, mask : SUBSET Pass]

(* The step, register by register.                                         *)
LEMMA CpuCases ==
  ASSUME setup \in Setup, NEW g \in GPC, NEW c \in Cpus,
         c.at \in {"publish", "count", "look"} => c.budget >= 0
  PROVE  LET d == CpuStep(g, c)
         IN  /\ d \in Cpus
             /\ c.at = "publish" => d.at = "count" /\ d.budget = c.budget /\ d.mask = c.mask
             /\ c.at = "count" =>
                  /\ d.k = 0 /\ d.budget = c.budget - 1 /\ d.mask = c.mask
                  /\ IF c.budget = 0 THEN d.at = "vote" ELSE d.at = "look"
             /\ c.at = "look" =>
                  /\ d.budget = c.budget /\ d.mask = c.mask
                  /\ IF mail[g][c.k] = 0 THEN d.at = "count"
                     ELSE IF c.k + 1 = N THEN d.at = "vote" /\ d.k = 0
                     ELSE d.at = "look" /\ d.k = c.k + 1
             /\ c.at = "vote" =>
                  /\ d.budget = c.budget
                  /\ d.mask = IF mail[g][c.k] = setup.value[g] THEN c.mask ELSE c.mask \cup {c.k}
                  /\ IF c.k + 1 = N THEN d.at = "done" /\ d.k = 0
                     ELSE d.at = "vote" /\ d.k = c.k + 1
             /\ c.at = "done" => d = c
<1>1. N \in Nat \ {0} /\ setup.budget \in Nat
  BY SetupFacts
<1>2. c.k \in 0..(N - 1) /\ c.budget \in -1..setup.budget /\ c.mask \in SUBSET (0..(N - 1))
  BY DEF Cpus, Pass
<1>3. c.k + 1 # N => c.k + 1 \in 0..(N - 1)
  BY <1>1, <1>2
<1>4. CASE c.at = "publish"
  BY <1>4 DEF CpuStep, Cpus
<1>5. CASE c.at = "count"
  <2>1. CpuStep(g, c) = Poll(c)
    BY <1>5 DEF CpuStep
  <2>2. CASE c.budget = 0
    <3>1. CpuStep(g, c) = [c EXCEPT !.at = "vote", !.k = 0, !.budget = c.budget - 1]
      BY <2>1, <2>2 DEF Poll
    <3>2. 0 \in Pass /\ c.budget - 1 \in -1..setup.budget
      BY <1>1, <2>2 DEF Pass
    <3>3. QED
      BY <1>5, <2>2, <3>1, <3>2 DEF Cpus
  <2>3. CASE c.budget # 0
    <3>1. CpuStep(g, c) = [c EXCEPT !.at = "look", !.k = 0, !.budget = c.budget - 1]
      BY <2>1, <2>3 DEF Poll
    <3>2. 0 \in Pass /\ c.budget - 1 \in -1..setup.budget
      BY <1>1, <1>2, <1>5, <2>3 DEF Pass
    <3>3. QED
      BY <1>5, <2>3, <3>1, <3>2 DEF Cpus
  <2>4. QED
    BY <2>2, <2>3
<1>6. CASE c.at = "look"
  <2>1. CASE mail[g][c.k] = 0
    <3>1. CpuStep(g, c) = [c EXCEPT !.at = "count"]
      BY <1>6, <2>1 DEF CpuStep
    <3>2. QED
      BY <1>6, <2>1, <3>1 DEF Cpus
  <2>2. CASE mail[g][c.k] # 0 /\ c.k + 1 = N
    <3>1. CpuStep(g, c) = [c EXCEPT !.at = "vote", !.k = 0]
      BY <1>6, <2>2 DEF CpuStep, LastBox
    <3>2. 0 \in Pass
      BY <1>1 DEF Pass
    <3>3. QED
      BY <1>6, <2>2, <3>1, <3>2 DEF Cpus
  <2>3. CASE mail[g][c.k] # 0 /\ c.k + 1 # N
    <3>1. CpuStep(g, c) = [c EXCEPT !.k = c.k + 1]
      BY <1>6, <2>3 DEF CpuStep, LastBox
    <3>2. c.k + 1 \in Pass
      BY <1>3, <2>3 DEF Pass
    <3>3. QED
      BY <1>6, <2>3, <3>1, <3>2 DEF Cpus
  <2>4. QED
    BY <2>1, <2>2, <2>3
<1>7. CASE c.at = "vote"
  <2> DEFINE flags == IF mail[g][c.k] = setup.value[g] THEN c.mask ELSE c.mask \cup {c.k}
  <2>1. flags \in SUBSET Pass /\ 0 \in Pass
    BY <1>1, <1>2 DEF Pass
  <2>2. CpuStep(g, c) = [c EXCEPT !.mask = flags, !.at = IF c.k + 1 = N THEN "done" ELSE "vote",
                                  !.k = IF c.k + 1 = N THEN 0 ELSE c.k + 1]
    BY <1>7 DEF CpuStep, LastBox, Agrees
  <2>3. flags = IF mail[g][c.k] = setup.value[g] THEN c.mask ELSE c.mask \cup {c.k}
    OBVIOUS
  <2> HIDE DEF flags
  <2>4. CASE c.k + 1 = N
    <3>1. CpuStep(g, c) = [c EXCEPT !.mask = flags, !.at = "done", !.k = 0]
      BY <2>2, <2>4
    <3>2. QED
      BY <1>7, <2>1, <2>3, <2>4, <3>1 DEF Cpus
  <2>5. CASE c.k + 1 # N
    <3>1. CpuStep(g, c) = [c EXCEPT !.mask = flags, !.at = "vote", !.k = c.k + 1]
      BY <2>2, <2>5
    <3>2. c.k + 1 \in Pass
      BY <1>3, <2>5 DEF Pass
    <3>3. QED
      BY <1>7, <2>1, <2>3, <2>5, <3>1, <3>2 DEF Cpus
  <2>6. QED
    BY <2>4, <2>5
<1>8. CASE c.at = "done"
  BY <1>8 DEF CpuStep
<1>9. QED
  BY <1>4, <1>5, <1>6, <1>7, <1>8 DEF Cpus

LEMMA VotesKept ==
  ASSUME Set, NEW g \in GPC, StepOne(g), NEW h \in GPC
  PROVE  Votes(h)'
<1>1. setup' = setup
  BY StepFacts
<1>2. Deserved(h)' = Deserved(h)
  BY <1>1 DEF Deserved, Unheard
<1>3. SUFFICES
        LET c == cpu'[h]
        IN  /\ c.at # "publish" => mail'[h][h] # 0
            /\ c.at \in {"publish", "count", "look"} => c.budget >= 0 /\ c.mask = {}
            /\ c.at = "look" => \A j \in Pass : j < c.k => mail'[h][j] # 0
            /\ c.at \in {"vote", "done"} =>
                 /\ Deserved(h) \cap Judged(c) \subseteq c.mask
                 /\ c.budget = -1 \/ (c.mask \subseteq Deserved(h)
                                      /\ \A j \in Pass : mail'[h][j] # 0)
  BY <1>2 DEF Votes
<1>4. Votes(h) /\ cpu[h] \in Cpus
  BY DEF Set, TypeOK, Cpus
<1>5. CASE h # g
  <2>1. cpu'[h] = cpu[h] /\ mail'[h] = mail[h]
    BY <1>5, StepFacts
  <2>2. QED
    BY <1>4, <2>1 DEF Votes
<1>6. CASE h = g
  <2> DEFINE c == cpu[g]
             d == CpuStep(g, c)
             filled(j) == mail[g][j] # 0
             filledNext(j) == mail'[g][j] # 0
  <2>1. cpu'[g] = d
    BY StepFacts
  <2>2. /\ c.at # "publish" => filled(g)
        /\ c.at \in {"publish", "count", "look"} => c.budget >= 0 /\ c.mask = {}
        /\ c.at = "look" => \A j \in Pass : j < c.k => filled(j)
        /\ c.at \in {"vote", "done"} =>
             /\ Deserved(g) \cap Judged(c) \subseteq c.mask
             /\ c.budget = -1 \/ (c.mask \subseteq Deserved(g) /\ \A j \in Pass : filled(j))
    BY <1>4, <1>6 DEF Votes
  <2>3. c \in Cpus
    BY <1>4, <1>6
  <2>4. /\ \A j \in Pass : filled(j) => filledNext(j)
        /\ filled(g) => filledNext(g)
    <3>1. Pass \subseteq GPC
      BY SetupFacts DEF Set
    <3>2. QED
      BY <3>1, Persist
  <2>5. c.at = "publish" => filledNext(g)
    <3> SUFFICES ASSUME c.at = "publish" PROVE filledNext(g)
      OBVIOUS
    <3>1. MailAfterCpu(g)[g] = setup.value[g] /\ setup.value[g] # 0
      BY OwnMailbox, SetupFacts DEF Set
    <3>2. QED
      BY <3>1, MailboxStep
  <2>6. filledNext(g)
    BY <2>2, <2>4, <2>5
  <2>7. \A j \in Pass : /\ filled(j) => mail[g][j] = setup.value[j] /\ ~Unheard(g, j)
                        /\ setup.value[g] # 0
    BY SetupFacts DEF Set, MailboxesTrue
  <2>8. c.k \in 0..(N - 1) /\ N \in Nat \ {0} /\ Pass = 0..(N - 1)
    BY <2>3, VoteAssumption DEF Cpus, Pass
  <2>9. setup \in Setup
    BY DEF Set
  <2> HIDE DEF c, d, filledNext
  <2>10. d \in Cpus
    BY <2>2, <2>3, <2>9, CpuCases DEF d
  <2>11. SUFFICES
           /\ d.at \in {"publish", "count", "look"} => d.budget >= 0 /\ d.mask = {}
           /\ d.at = "look" => \A j \in Pass : j < d.k => filledNext(j)
           /\ d.at \in {"vote", "done"} =>
                /\ Deserved(g) \cap Judged(d) \subseteq d.mask
                /\ d.budget = -1 \/ (d.mask \subseteq Deserved(g) /\ \A j \in Pass : filledNext(j))
    BY <1>6, <2>1, <2>6 DEF filledNext
  <2>12. CASE c.at = "publish"
    <3>1. d.at = "count" /\ d.budget = c.budget /\ d.mask = c.mask
      BY <2>2, <2>3, <2>9, <2>12, CpuCases DEF d
    <3>2. QED
      BY <2>2, <2>12, <3>1
  <2>13. CASE c.at = "count"
    <3>1. /\ d.k = 0 /\ d.budget = c.budget - 1 /\ d.mask = c.mask
          /\ IF c.budget = 0 THEN d.at = "vote" ELSE d.at = "look"
      BY <2>2, <2>3, <2>9, <2>13, CpuCases DEF d
    <3>2. c.budget \in Int /\ c.budget >= 0 /\ c.mask = {}
      BY <2>2, <2>3, <2>13 DEF Cpus
    <3>3. d.at = "vote" => Judged(d) = {}
      BY <2>8, <3>1 DEF Judged
    <3>4. QED
      BY <2>8, <3>1, <3>2, <3>3
  <2>14. CASE c.at = "look"
    <3>1. /\ d.budget = c.budget /\ d.mask = c.mask
          /\ IF mail[g][c.k] = 0 THEN d.at = "count"
             ELSE IF c.k + 1 = N THEN d.at = "vote" /\ d.k = 0
             ELSE d.at = "look" /\ d.k = c.k + 1
      BY <2>2, <2>3, <2>9, <2>14, CpuCases DEF d
    <3>2. filled(c.k) => \A j \in Pass : j < c.k + 1 => filledNext(j)
      BY <2>2, <2>4, <2>8, <2>14
    <3>3. d.at = "vote" => Judged(d) = {} /\ \A j \in Pass : filledNext(j)
      BY <2>8, <3>1, <3>2 DEF Judged
    <3>4. QED
      BY <2>2, <2>8, <2>14, <3>1, <3>2, <3>3
  <2>15. CASE c.at = "vote"
    <3>1. /\ d.budget = c.budget
          /\ d.mask = IF mail[g][c.k] = setup.value[g] THEN c.mask ELSE c.mask \cup {c.k}
          /\ IF c.k + 1 = N THEN d.at = "done" /\ d.k = 0
             ELSE d.at = "vote" /\ d.k = c.k + 1
      BY <2>2, <2>3, <2>9, <2>15, CpuCases DEF d
    <3>2. Judged(d) \subseteq Judged(c) \cup {c.k}
      BY <2>8, <2>15, <3>1 DEF Judged
    <3>3. c.k \in Deserved(g) => mail[g][c.k] # setup.value[g]
      BY <2>7, <2>8 DEF Deserved
    <3>4. filled(c.k) /\ mail[g][c.k] # setup.value[g] => c.k \in Deserved(g)
      BY <2>7, <2>8 DEF Deserved
    <3>5. Deserved(g) \cap Judged(d) \subseteq d.mask
      BY <2>2, <2>15, <3>1, <3>2, <3>3
    <3>6. d.budget = -1 \/ (d.mask \subseteq Deserved(g) /\ \A j \in Pass : filledNext(j))
      BY <2>2, <2>4, <2>8, <2>15, <3>1, <3>4
    <3>7. QED
      BY <3>1, <3>5, <3>6
  <2>16. CASE c.at = "done"
    <3>1. d = c
      BY <2>2, <2>3, <2>9, <2>16, CpuCases DEF d
    <3>2. QED
      BY <2>2, <2>4, <2>16, <3>1
  <2>17. QED
    BY <2>3, <2>12, <2>13, <2>14, <2>15, <2>16 DEF Cpus
<1>7. QED
  BY <1>5, <1>6

-----------------------------------------------------------------------------
(***************************************************************************)
(* The inductive invariant.                                                *)
(***************************************************************************)

(* The slowest live GPC after a step: no live GPC is behind it.            *)
LEMMA Slowest ==
  ASSUME lead \in [GPC -> Nat], NEW g \in GPC \ dead
  PROVE  /\ SlowestAfter(g) \in Nat
         /\ \A h \in GPC \ dead : SlowestAfter(g) <= lead[h] + (IF h = g THEN 1 ELSE 0)
<1> DEFINE now == [lead EXCEPT ![g] = lead[g] + 1]
           slowest(s) == s \in GPC \ dead /\ \A o \in GPC \ dead : now[s] <= now[o]
           T == {now[h] : h \in GPC \ dead}
<1>1. \A h \in GPC : now[h] = lead[h] + (IF h = g THEN 1 ELSE 0) /\ now[h] \in Nat
  OBVIOUS
<1> HIDE DEF now
<1>2. \E s \in GPC \ dead : \A o \in GPC \ dead : now[s] <= now[o]
  <2>1. T \in SUBSET Nat /\ T # {}
    BY <1>1
  <2>2. PICK x \in T : \A y \in T : x <= y
    BY <2>1, LeastMember
  <2>3. QED
    BY <2>2
<1> DEFINE s == CHOOSE h \in GPC \ dead : \A o \in GPC \ dead : now[h] <= now[o]
<1>3. s \in GPC \ dead /\ \A o \in GPC \ dead : now[s] <= now[o]
  BY <1>2
<1>4. SlowestAfter(g) = now[s]
  BY DEF SlowestAfter, now
<1> HIDE DEF s
<1>5. QED
  BY <1>1, <1>3, <1>4

LEMMA TypesKept ==
  ASSUME Set, NEW g \in GPC, StepOne(g)
  PROVE  TypeOK'
<1>1. setup' = setup /\ dead' = dead /\ GPC' = GPC /\ g \notin dead /\ setup \in Setup
  <2>1. setup' = setup /\ dead' = dead /\ GPC' = GPC /\ g \notin dead
    BY StepFacts, Zenon
  <2>2. QED
    BY <2>1 DEF Set
<1>2. cpu' \in [GPC -> Cpus]
  <2>1. cpu' = [cpu EXCEPT ![g] = CpuStep(g, cpu[g])]
    BY StepFacts, Zenon
  <2>2. cpu \in [GPC -> Cpus]
    BY DEF Set, TypeOK, Cpus
  <2>3. cpu[g].at \in {"publish", "count", "look"} => cpu[g].budget >= 0
    BY DEF Set, Votes
  <2>4. CpuStep(g, cpu[g]) \in Cpus
    BY <1>1, <2>2, <2>3, CpuCases
  <2>5. QED
    BY <2>1, <2>2, <2>4
<1>3. msc' \in [GPC -> {"poll", "start", "stop", "wait"}]
  <2>1. msc' = [msc EXCEPT ![g] = MscStep(g, msc[g], MailAfterCpu(g))]
    BY StepFacts, Zenon
  <2>2. msc \in [GPC -> {"poll", "start", "stop", "wait"}]
    BY DEF Set, TypeOK
  <2>3. MscStep(g, msc[g], MailAfterCpu(g)) \in {"poll", "start", "stop", "wait"}
    BY <2>2 DEF MscStep
  <2>4. QED
    BY <2>1, <2>2, <2>3
<1>4. ASSUME NEW h \in GPC, NEW b \in Bus
      PROVE  bce'[h][b].pc \in DOMAIN Code(h, b) \cup {7}
  <2>1. Controls(h)'
    BY ControlsKept
  <2>2. IF Transmits(h, b) THEN Transmitting(bce'[h][b])
        ELSE Listening(Causes(b)', b, bce'[h][b])
    BY <2>1 DEF Controls
  <2>3. CASE Transmits(h, b)
    <3>1. DOMAIN Code(h, b) = {0, 2, 4, 5, 6}
      BY <2>3, TransmitterProgram DEF Code
    <3>2. QED
      BY <2>2, <2>3, <3>1 DEF Transmitting
  <2>4. CASE ~Transmits(h, b)
    <3>1. DOMAIN Code(h, b) = {0, 2, 3, 4, 5, 6}
      BY <2>4, ListenerProgram DEF Code
    <3>2. QED
      BY <2>2, <2>4, <3>1 DEF Listening
  <2>5. QED
    BY <2>3, <2>4
<1>5. indicators' \in [GPC -> SUBSET Bus]
  <2> DEFINE lamps == (indicators[g] \cup {b \in Bus : Outcome(g, b).bit = "set"})
                         \ {b \in Bus : Outcome(g, b).bit = "reset"}
  <2>1. indicators' = [indicators EXCEPT ![g] = lamps]
    BY StepFacts, Zenon
  <2>2. indicators \in [GPC -> SUBSET Bus]
    BY DEF Set, TypeOK
  <2>3. lamps \in SUBSET Bus
    BY <2>2
  <2> HIDE DEF lamps
  <2>4. QED
    BY <2>1, <2>2, <2>3
<1>6. mail' \in [GPC -> [GPC -> {0} \cup {setup.value[h] : h \in GPC}]]
  <2> DEFINE values == {0} \cup {setup.value[h] : h \in GPC}
  <2>1. mail' = [mail EXCEPT ![g] = mail'[g]]
    BY StepFacts, Zenon
  <2>2. mail \in [GPC -> [GPC -> values]]
    BY DEF Set, TypeOK
  <2>3. \A s \in GPC : mail'[g][s] \in values
    BY Persist
  <2> HIDE DEF values
  <2>4. mail'[g] = [s \in GPC |-> IF s \in Bus /\ s \in DOMAIN Outcome(g, s).stored
                                  THEN Outcome(g, s).stored[s] ELSE MailAfterCpu(g)[s]]
    BY StepFacts, Zenon
  <2>5. mail'[g] = [s \in GPC |-> mail'[g][s]]
    BY <2>4
  <2>6. mail'[g] \in [GPC -> values]
    BY <2>3, <2>5
  <2>7. QED
    BY <2>1, <2>2, <2>6 DEF values
<1>7. lead' \in [GPC -> Nat]
  <2>1. lead \in [GPC -> Nat]
    BY DEF Set, TypeOK
  <2>2. lead' = IF setup.skew = 0 THEN lead
                ELSE [h \in GPC |-> IF h \in dead THEN 0
                                    ELSE lead[h] + (IF h = g THEN 1 ELSE 0) - SlowestAfter(g)]
    BY DEF StepOne, Drift
  <2>3. /\ SlowestAfter(g) \in Nat
        /\ \A h \in GPC \ dead : SlowestAfter(g) <= lead[h] + (IF h = g THEN 1 ELSE 0)
    BY <1>1, <2>1, Slowest
  <2>4. QED
    BY <2>1, <2>2, <2>3
<1>8. dead' \subseteq setup.trapping
  BY <1>1 DEF Set, TypeOK
<1>9. QED
  BY <1>1, <1>2, <1>3, <1>4, <1>5, <1>6, <1>7, <1>8 DEF TypeOK, Cpus

(* A set that has just been reset.                                         *)
LEMMA Reset ==
  ASSUME Init
  PROVE  Set
<1>1. setup \in Setup
  BY VoteAssumption DEF Init
<1>2. N \in Nat \ {0} /\ Space \in Nat \ {0} /\ Bus \subseteq GPC /\ 0 \in Pass
  BY <1>1, SetupFacts, SpaceAssumption, VoteAssumption DEF Pass
<1> DEFINE x == ResetBce(0)
<1>3. /\ x.pc = 0 /\ x.base = 0 /\ ~x.busy /\ ~x.indicator /\ x.mto = 0 /\ x.iuar = 0
      /\ x.status = {} /\ ~x.error /\ x.rx = NoRx
  BY DEF ResetBce
<1>4. NoRx \in Receipts /\ ~(NoRx.remaining > 0)
  BY DEF NoRx, Receipts
<1>5. 0 \in Addr
  BY <1>2 DEF Addr
<1>6. Registers(x)
  <2>1. x \in [pc : Addr, base : Addr, busy : BOOLEAN, indicator : BOOLEAN, mto : Nat,
               iuar : {0}, status : SUBSET Flags, error : BOOLEAN, rx : Receipts]
    BY <1>4, <1>5 DEF ResetBce
  <2> HIDE DEF x
  <2>2. QED
    BY <1>3, <2>1 DEF Registers
<1> HIDE DEF x
<1>7. Transmitting(x) /\ \A causes, b : Listening(causes, b, x)
  BY <1>3, <1>4 DEF Transmitting, Listening, Receiving
<1>8. /\ DOMAIN bce = GPC /\ \A g \in GPC, b \in Bus : bce[g][b] = x
      /\ \A g \in GPC, b \in Bus : rx[g][b] = <<>>
  BY DEF Init, x
<1>9. /\ \A g \in GPC : cpu[g] = [at |-> "publish", k |-> 0, budget |-> setup.budget, mask |-> {}]
      /\ \A g \in GPC : msc[g] = "poll"
      /\ \A g \in GPC, s \in GPC : mail[g][s] = 0
  BY DEF Init
<1>10. TypeOK
  <2>1. cpu \in [GPC -> [at : {"publish", "count", "look", "vote", "done"}, k : Pass,
                         budget : -1..setup.budget, mask : SUBSET Pass]]
    <3>1. setup.budget \in -1..setup.budget
      BY <1>1, SetupFacts
    <3>2. QED
      BY <1>2, <3>1 DEF Init
  <2>2. \A g \in GPC, b \in Bus : bce[g][b].pc \in DOMAIN Code(g, b)
    BY <1>3, <1>8, TransmitterProgram, ListenerProgram DEF Code
  <2>3. /\ msc \in [GPC -> {"poll", "start", "stop", "wait"}]
        /\ indicators \in [GPC -> SUBSET Bus] /\ dead = {} /\ lead \in [GPC -> Nat]
    BY DEF Init
  <2>4. mail \in [GPC -> [GPC -> {0} \cup {setup.value[g] : g \in GPC}]]
    BY DEF Init
  <2>5. QED
    BY <2>1, <2>2, <2>3, <2>4 DEF TypeOK
<1>11. ASSUME NEW g \in GPC
       PROVE  Controls(g) /\ Votes(g)
  <2>1. \A b \in Bus : rx[g][b] \in Seq(Spoken(b))
    <3>1. \A W : <<>> \in Seq(W)
      OBVIOUS
    <3>2. QED
      BY <1>8, <3>1
  <2>2. Controls(g)
    BY <1>2, <1>3, <1>6, <1>7, <1>8, <1>9, <2>1 DEF Controls, x
  <2>3. setup.budget >= 0
    BY <1>1, SetupFacts
  <2>4. Votes(g)
    BY <1>9, <2>3 DEF Votes
  <2>5. QED
    BY <2>2, <2>4
<1>12. MailboxesTrue
  BY <1>9 DEF MailboxesTrue
<1>13. QED
  BY <1>1, <1>8, <1>10, <1>11, <1>12 DEF Set

(* Nothing in it depends on how many GPCs have trapped so far.             *)
LEMMA Frame ==
  ASSUME Set, dead' \subseteq setup.trapping,
         UNCHANGED <<setup, cpu, msc, bce, indicators, mail, rx, lead>>
  PROVE  Set'
<1>1. /\ setup' = setup /\ cpu' = cpu /\ msc' = msc /\ bce' = bce /\ indicators' = indicators
      /\ mail' = mail /\ rx' = rx /\ lead' = lead /\ GPC' = GPC
  BY DEF GPC
<1>2. TypeOK'
  BY <1>1 DEF Set, TypeOK, Code
<1>3. /\ \A b : Utterances(b)' = Utterances(b) /\ Causes(b)' = Causes(b)
      /\ \A g : Deserved(g)' = Deserved(g)
  BY <1>1 DEF Utterances, Garble, Causes, Deserved, Unheard
<1>4. \A b : Spoken(b)' = Spoken(b)
  BY <1>1, <1>3 DEF Spoken
<1>5. ASSUME NEW g \in GPC
      PROVE  Controls(g)' /\ Votes(g)'
  <2>1. Controls(g) /\ Votes(g)
    BY DEF Set
  <2>2. Controls(g)'
    BY <1>1, <1>3, <1>4, <2>1 DEF Controls
  <2>3. Votes(g)'
    BY <1>1, <1>3, <2>1 DEF Votes
  <2>4. QED
    BY <2>2, <2>3
<1>6. MailboxesTrue'
  BY <1>1 DEF Set, MailboxesTrue, Unheard
<1>7. QED
  BY <1>1, <1>2, <1>5, <1>6 DEF Set

(* The invariant is inductive.                                             *)
LEMMA SetInductive == Spec => []Set
<1>1. Init => Set
  BY Reset
<1>2. Set /\ [Next]_vars => Set'
  <2> SUFFICES ASSUME Set, [Next]_vars
               PROVE  Set'
    OBVIOUS
  <2>1. ASSUME NEW g \in GPC, StepOne(g)
        PROVE  Set'
    <3>1. setup' = setup /\ GPC' = GPC /\ DOMAIN bce' = GPC
      BY <2>1, StepFacts, Zenon
    <3>2. TypeOK' /\ MailboxesTrue'
      BY <2>1, TypesKept, MailboxesStayTrue
    <3>3. \A h \in GPC : Controls(h)' /\ Votes(h)'
      BY <2>1, ControlsKept, VotesKept
    <3>4. QED
      BY <3>1, <3>2, <3>3 DEF Set
  <2>2. ASSUME NEW g \in GPC, Trap(g)
        PROVE  Set'
    BY <2>2, Frame DEF Trap, Set, TypeOK
  <2>3. CASE UNCHANGED vars
    BY <2>3, Frame DEF vars, Set, TypeOK
  <2>4. QED
    BY <2>1, <2>2, <2>3 DEF Next
<1>3. QED
  BY <1>1, <1>2, PTL DEF Spec

-----------------------------------------------------------------------------
(***************************************************************************)
(* The properties.                                                         *)
(***************************************************************************)

(* Type correctness of the set (gpc.rs step_one running the programs of    *)
(* demo.rs): in particular no BCE ever leaves its program, and no CPU its  *)
(* table of mailboxes.                                                     *)
THEOREM TypeCorrect == Spec => []TypeOK
<1>1. Set => TypeOK
  BY DEF Set
<1>2. QED
  BY <1>1, SetInductive, PTL

(* Every value ends up in its own mailbox, at every GPC and at any speed   *)
(* of the others: the command and listen programs of demo.rs, the buses    *)
(* of gpc.rs and the receive engine of iop.rs deliver it or nothing.       *)
THEOREM MailTrue == Spec => []MailboxesTrue
<1>1. Set => MailboxesTrue
  BY DEF Set
<1>2. QED
  BY <1>1, SetInductive, PTL

(* Every GPC that disagrees or cannot be heard is flagged by every GPC     *)
(* that reaches a verdict, and no other is, unless the budget of the POLL  *)
(* loop ran out (the VOTE loop of demo.rs).                                *)
THEOREM VerdictSound == Spec => []VerdictRight
<1>1. Set => VerdictRight
  <2> SUFFICES ASSUME Set, NEW g \in GPC, Done(g)
               PROVE  /\ Deserved(g) \subseteq cpu[g].mask
                      /\ Exhausted(g) \/ cpu[g].mask = Deserved(g)
    BY DEF VerdictRight, Deserved
  <2>1. Votes(g)
    BY DEF Set
  <2>2. Judged(cpu[g]) = Pass /\ Deserved(g) \subseteq Pass
    BY DEF Judged, Done, Deserved
  <2>3. QED
    BY <2>1, <2>2 DEF Votes, Done, Exhausted
<1>2. QED
  BY <1>1, SetInductive, PTL

(* A listener that failed shows it to the MSC, leaves the mailbox empty,   *)
(* and records only silence or, on a garbled bus, the validity pattern     *)
(* (bce_error and receive_pump of iop.rs).                                 *)
THEOREM GarblingSeen == Spec => []GarbledBusSeen
<1>1. Set => GarbledBusSeen
  <2> SUFFICES ASSUME Set, NEW g \in GPC, NEW b \in Bus
               PROVE  /\ bce[g][b].status \subseteq Causes(b)
                      /\ bce[g][b].error => b \in indicators[g] /\ mail[g][b] = 0
    BY DEF GarbledBusSeen, Causes
  <2>1. Controls(g)
    BY DEF Set
  <2>2. CASE Transmits(g, b)
    BY <2>1, <2>2 DEF Controls, Transmitting
  <2>3. CASE ~Transmits(g, b)
    BY <2>1, <2>3 DEF Controls, Listening, Waiting
  <2>4. QED
    BY <2>2, <2>3
<1>2. QED
  BY <1>1, SetInductive, PTL

(* The steps left: a poll of the mailboxes takes at most N + 2 of them.    *)
LEMMA StepCounts ==
  ASSUME setup \in Setup, NEW c \in Cpus,
         c.at \in {"publish", "count", "look"} => c.budget >= 0
  PROVE  /\ StepsLeft(c) \in Nat
         /\ c.at = "done" => StepsLeft(c) = 0
         /\ c.at = "vote" => StepsLeft(c) = N - c.k
         /\ LET polls == (c.budget + 2) * (N + 2)
            IN  /\ polls \in Int
                /\ c.at = "count" => StepsLeft(c) = polls
                /\ c.at = "look" => StepsLeft(c) = polls + N - c.k
                /\ c.at = "publish" => StepsLeft(c) = polls + 1
                /\ c.budget >= 0 => polls >= N + 2
                /\ \A budget \in Int : budget = c.budget - 1 =>
                     (budget + 2) * (N + 2) + N + 2 = polls
<1>1. c.k \in 0..(N - 1) /\ c.budget \in Int /\ N \in Nat \ {0}
  BY SetupFacts DEF Cpus, Pass
<1> DEFINE m == N + 2
           polls == (c.budget + 2) * m
<1>2. ASSUME NEW i \in Int, NEW j \in Int
      PROVE  i * j \in Int /\ (i + 1) * j = i * j + j /\ (i >= 0 /\ j >= 0 => i * j >= 0)
  OBVIOUS
<1>3. polls \in Int /\ (c.budget >= 0 => polls >= m)
  <2>1. polls = (c.budget + 1) * m + m
    BY <1>1, <1>2
  <2>2. (c.budget + 1) * m \in Int /\ (c.budget >= 0 => (c.budget + 1) * m >= 0)
    BY <1>1, <1>2
  <2> HIDE DEF polls
  <2>3. QED
    BY <1>1, <2>1, <2>2
<1>4. ASSUME NEW budget \in Int, budget = c.budget - 1
      PROVE  (budget + 2) * m + m = polls
  <2>1. (budget + 2) + 1 = c.budget + 2
    BY <1>1, <1>4
  <2>2. ((budget + 2) + 1) * m = (budget + 2) * m + m
    BY <1>1, <1>2, <1>4
  <2>3. QED
    BY <2>1, <2>2
<1>5. /\ c.at = "done" => StepsLeft(c) = 0
      /\ c.at = "vote" => StepsLeft(c) = N - c.k
      /\ c.at = "count" => StepsLeft(c) = polls
      /\ c.at = "look" => StepsLeft(c) = polls + N - c.k
      /\ c.at = "publish" => StepsLeft(c) = polls + 1
  BY DEF StepsLeft
<1>6. c.at \in {"publish", "count", "look", "vote", "done"}
  BY DEF Cpus
<1> HIDE DEF polls
<1>7. StepsLeft(c) \in Nat
  BY <1>1, <1>3, <1>5, <1>6
<1>8. QED
  BY <1>1, <1>3, <1>4, <1>5, <1>7 DEF polls

(* A silent GPC stalls nobody: every step of a live CPU that has no        *)
(* verdict yet is one of a bounded number, whatever the other machines do  *)
(* (the budget of the POLL loop of demo.rs).                               *)
THEOREM VerdictBounded == Spec => VerdictInTime
<1>1. ASSUME Set, NEW g \in GPC, StepOne(g), ~Done(g)
      PROVE  StepsLeft(cpu'[g]) \in 0..(StepsLeft(cpu[g]) - 1)
  <2> DEFINE c == cpu[g]
             d == CpuStep(g, c)
             before == (c.budget + 2) * (N + 2)
             after == (d.budget + 2) * (N + 2)
  <2>1. cpu'[g] = d
    BY <1>1, StepFacts, Zenon
  <2>2. /\ c \in Cpus /\ setup \in Setup
        /\ c.at \in {"publish", "count", "look"} => c.budget >= 0
    BY <1>1 DEF Set, TypeOK, Votes, Cpus
  <2>3. d \in Cpus
    BY <2>2, CpuCases
  <2>4. d.at \in {"publish", "count", "look"} => d.budget >= 0
    <3>1. Votes(g)'
      BY <1>1, VotesKept
    <3>2. QED
      BY <2>1, <3>1 DEF Votes
  <2>5. c.k \in 0..(N - 1) /\ c.budget \in Int /\ N \in Nat \ {0} /\ d.k \in 0..(N - 1)
        /\ d.budget \in Int /\ c.at # "done"
    BY SMTT(20), <1>1, <2>2, <2>3, SetupFacts DEF Cpus, Pass, Done
  <2>6. /\ StepsLeft(c) \in Nat
        /\ c.at = "vote" => StepsLeft(c) = N - c.k
        /\ before \in Int
        /\ c.at = "count" => StepsLeft(c) = before
        /\ c.at = "look" => StepsLeft(c) = before + N - c.k
        /\ c.at = "publish" => StepsLeft(c) = before + 1
        /\ c.budget >= 0 => before >= N + 2
        /\ d.budget = c.budget - 1 => after + N + 2 = before
    BY <2>2, <2>5, StepCounts
  <2>7. /\ StepsLeft(d) \in Nat /\ after \in Int
        /\ d.at = "done" => StepsLeft(d) = 0
        /\ d.at = "vote" => StepsLeft(d) = N - d.k
        /\ d.at = "count" => StepsLeft(d) = after
        /\ d.at = "look" => StepsLeft(d) = after + N - d.k
    BY <2>2, <2>3, <2>4, StepCounts
  <2>8. d.budget = c.budget => after = before
    OBVIOUS
  <2>9. /\ c.at = "publish" => d.at = "count" /\ d.budget = c.budget
        /\ c.at = "count" => /\ d.k = 0 /\ d.budget = c.budget - 1
                             /\ IF c.budget = 0 THEN d.at = "vote" ELSE d.at = "look"
        /\ c.at = "look" => /\ d.budget = c.budget
                            /\ IF mail[g][c.k] = 0 THEN d.at = "count"
                               ELSE IF c.k + 1 = N THEN d.at = "vote" /\ d.k = 0
                               ELSE d.at = "look" /\ d.k = c.k + 1
        /\ c.at = "vote" => IF c.k + 1 = N THEN d.at = "done" /\ d.k = 0
                            ELSE d.at = "vote" /\ d.k = c.k + 1
    BY <2>2, CpuCases
  <2>10. c.at \in {"publish", "count", "look", "vote"}
    BY <2>2, <2>5 DEF Cpus
  <2> HIDE DEF c, d, before, after
  <2>11. StepsLeft(d) \in Nat /\ StepsLeft(d) < StepsLeft(c)
    <3>1. CASE c.at = "publish"
      BY <2>6, <2>7, <2>8, <2>9, <3>1
    <3>2. CASE c.at = "count"
      BY <2>2, <2>5, <2>6, <2>7, <2>9, <3>2
    <3>3. CASE c.at = "look"
      BY <2>2, <2>5, <2>6, <2>7, <2>8, <2>9, <3>3
    <3>4. CASE c.at = "vote"
      BY <2>5, <2>6, <2>7, <2>9, <3>4
    <3>5. QED
      BY <2>10, <3>1, <3>2, <3>3, <3>4
  <2>12. QED
    BY <2>1, <2>6, <2>11 DEF c
<1>2. Set => [\A g \in GPC : StepOne(g) /\ ~Done(g) =>
                 StepsLeft(cpu'[g]) \in 0..(StepsLeft(cpu[g]) - 1)]_vars
  BY <1>1
<1>3. QED
  BY <1>2, SetInductive, PTL DEF VerdictInTime
=============================================================================
