------------------------------ MODULE BceChannel ------------------------------
(***************************************************************************)
(* One channel of the IOP: a Bus Control Element, the receive queue of its *)
(* bus, its MIA enables and its bit in the MSC's indicator register, run   *)
(* against everything that touches them: the instructions of the MSC, the  *)
(* commands of the CPU, and whatever words arrive on the bus.              *)
(*                                                                         *)
(* A program in main storage can be rewritten between two slices, so any   *)
(* instruction may be found at the program counter.                        *)
(***************************************************************************)
EXTENDS Bce, FiniteSets

CONSTANTS
  Instructions,  \* the instructions the BCE may find in main storage
  Arrivals,      \* the words other transmitters put on the bus
  Answers,       \* what a subsystem may answer to a command
  PowerUpIua,    \* the interface unit address register after a reset
  QueueBound,    \* bound on the words waiting in the receive queue
  StatusBound    \* bound on the status bits recorded together

(* Every word a receive queue may hold.                                    *)
Heard == Arrivals \cup UNION {{a[k] : k \in DOMAIN a} : a \in Answers}

(* The operands an instruction decodes to, or finds in main storage: every *)
(* transfer is of at least one halfword and of no more than the storage    *)
(* has, and a branch goes to a halfword.                                   *)
ASSUME OperandsAssumption ==
  \A ins \in Instructions :
    /\ ins.op \in {"WAT", "WIX", "SS", "LTO", "DLY", "IB", "BU", "LBR", "CMD", "TDS", "RDS",
                   "TDL", "RDL", "MOUT", "MIN", "ILLEGAL"}
    /\ ins.op \in {"TDS", "RDS", "TDL", "RDL", "MOUT", "MIN"} => ins.count \in 1..Space
    /\ ins.op \in {"TDS", "RDS", "MOUT", "MIN"} => ins.disp \in Nat
    /\ ins.op \in {"MOUT", "MIN"} => ins.ilen \in {2, 4}
    /\ ins.op = "LTO" => ins.value \in Nat
    /\ ins.op \in {"BU", "LBR"} => ins.value \in Addr
    /\ ins.op = "SS" => ins.clear \in BOOLEAN
    /\ ins.op = "IB" => ins.set \in BOOLEAN
    /\ ins.op = "WIX" => \A w \in Heard : Listens(w) => ins.table[w.val] \in Addr

ASSUME AnswersAssumption == \A a \in Answers : a \in Seq(Heard)

VARIABLES
  bce,        \* the registers of the BCE
  queue,      \* rx[gpc][bus]: words this GPC's receiver has not read
  xmtr,       \* MIA transmitter enable bit of this channel
  rcvr,       \* MIA receiver enable bit
  halted,     \* PROCESSOR HALT in effect
  indicator,  \* this BCE's bit of the MSC indicator register
  (* Observations, read by no action. *)
  sent,       \* the words the latest step put on the bus
  stored,     \* the addresses the latest step stored into
  transfer    \* the receive in the latest step: where, how many halfwords, how many done

NoTransfer == [start |-> 0, count |-> 0, done |-> 0]

state == <<bce, queue, xmtr, rcvr, halted, indicator>>
vars == <<state, sent, stored, transfer>>

-----------------------------------------------------------------------------
Init ==
  /\ bce = ResetBce(PowerUpIua)
  /\ queue = <<>>
  /\ xmtr = FALSE /\ rcvr = FALSE
  /\ halted = TRUE
  /\ indicator = FALSE
  /\ sent = <<>>
  /\ stored = {}
  /\ transfer = NoTransfer

-----------------------------------------------------------------------------
(* What one MSC instruction can do to the BCE: @SIO makes it busy whatever *)
(* its state; @LBP and @LBB load a BCE in the wait state and leave a busy  *)
(* one alone.                                                              *)
MscOps == {"SIO", "LBP", "LBB", "RBI", "other"}

MscTouch(b, m) ==
  CASE m = "SIO" -> [b EXCEPT !.busy = TRUE]
    [] m = "LBP" -> IF b.busy THEN b ELSE [b EXCEPT !.pc = 0]
    [] m = "LBB" -> IF b.busy THEN b ELSE [b EXCEPT !.base = 0]
    [] m \in {"RBI", "other"} -> b

(* @RBI resets the bit in the indicator register.                          *)
IndicatorAfter(m, bit) ==
  CASE bit = "set"   -> TRUE
    [] bit = "reset" -> FALSE
    [] bit = "keep"  -> indicator /\ m # "RBI"

(* The halfwords in main storage matter only by their address here.        *)
Storage == [a \in 0..(Space - 1) |-> a]

NoReply == [command |-> <<>>, data |-> <<>>]

(* The receive that ins starts in this slice, if it starts one.            *)
StartsReceive(b, ins) ==
  /\ ~ Receiving(b) /\ ~ Unaligned(b, ins)
  /\ ins.op \in {"RDS", "RDL"} \/ (ins.op = "MIN" /\ xmtr)

Started(b, ins) ==
  [start |-> CASE ins.op = "RDS" -> (b.base + ins.disp) % Space
               [] ins.op = "RDL" -> b.base
               [] ins.op = "MIN" -> EvenPart((b.base + ins.disp) % Space),
   count |-> ins.count, done |-> 0]

(* The slice result r of the BCE, after the MSC instruction m, becomes the *)
(* state of the channel; moved is the receive r belongs to, if any.        *)
Becomes(m, r, moved) ==
  /\ ~ halted
  /\ bce' = r.bce
  /\ queue' = r.queue
  /\ indicator' = IndicatorAfter(m, r.bit)
  /\ sent' = r.sent
  /\ stored' = DOMAIN r.stored
  /\ transfer' = IF moved = NoTransfer THEN NoTransfer
                 ELSE [moved EXCEPT !.done = @ + Cardinality(DOMAIN r.stored)]
  /\ UNCHANGED <<xmtr, rcvr, halted>>

(* One IOP time slice as this channel sees it: one instruction m of the    *)
(* MSC, then, if that leaves the BCE busy, one slice of the BCE.           *)
IdleSlice(m) ==
  LET b == MscTouch(bce, m)
  IN  ~ b.busy /\ Becomes(m, Change(b, queue), NoTransfer)

(* A receive in progress goes on whatever instruction is found now.        *)
ResumeSlice(m) ==
  LET b == MscTouch(bce, m)
  IN  /\ b.busy /\ Receiving(b)
      /\ \E ins \in Instructions :
           Becomes(m, Slice(b, ins, queue, xmtr, rcvr, Storage, NoReply), transfer)

(* The bounds of the state space: on the words waiting and on the causes   *)
(* recorded, with room left for the one a receive may end with.            *)
WithinBounds(r) ==
  /\ Len(r.queue) <= QueueBound
  /\ Cardinality(r.bce.status) + (IF Receiving(r.bce) THEN 1 ELSE 0) <= StatusBound

(* The subsystems on the bus answer a command with the words `answer'.     *)
FetchSlice(m, ins, answer) ==
  LET b == MscTouch(bce, m)
      r == Slice(b, ins, queue, xmtr, rcvr, Storage, [NoReply EXCEPT !.command = answer])
  IN  /\ b.busy /\ ~ Receiving(b)
      /\ WithinBounds(r)
      /\ Becomes(m, r,
                 IF StartsReceive(b, ins) THEN Started(b, ins) ELSE NoTransfer)

Quiet ==
  /\ sent' = <<>> /\ stored' = {}
  /\ transfer' = IF Receiving(bce') THEN transfer ELSE NoTransfer

(* Another transmitter on the bus: the word waits in the receive queue     *)
(* whether or not anybody is listening.                                    *)
Arrive(w) ==
  /\ Len(queue) < QueueBound
  /\ queue' = Append(queue, w)
  /\ UNCHANGED <<bce, xmtr, rcvr, halted, indicator>> /\ Quiet

(* The PCO commands of the CPU that reach a channel.                       *)
EnableMia(x, r) ==
  /\ <<x, r>> # <<xmtr, rcvr>>
  /\ xmtr' = x /\ rcvr' = r
  /\ UNCHANGED <<bce, queue, halted, indicator>> /\ Quiet

Halt ==
  /\ halted' = ~ halted
  /\ UNCHANGED <<bce, queue, xmtr, rcvr, indicator>> /\ Quiet

(* MASTER RESET puts the IOP in its initial state; the words on the way to *)
(* its receivers are not part of the IOP.                                  *)
MasterReset ==
  /\ bce' = ResetBce(PowerUpIua)
  /\ xmtr' = FALSE /\ rcvr' = FALSE
  /\ halted' = TRUE
  /\ indicator' = FALSE
  /\ UNCHANGED queue /\ Quiet

Slot ==
  \E m \in MscOps :
    \/ IdleSlice(m)
    \/ ResumeSlice(m)
    \/ \E ins \in Instructions :
         \E answer \in IF ins.op \in {"CMD", "MOUT", "MIN"} THEN Answers ELSE {<<>>} :
            FetchSlice(m, ins, answer)

Next ==
  \/ Slot
  \/ \E w \in Arrivals : Arrive(w)
  \/ \E x, r \in BOOLEAN : EnableMia(x, r)
  \/ Halt
  \/ MasterReset

Spec == Init /\ [][Next]_vars

(* The host keeps calling step(), so an IOP that is not halted keeps       *)
(* getting time slices; those of a receive in progress are ResumeSlice.    *)
Resume == \E m \in MscOps : ResumeSlice(m)
FairSpec == Spec /\ WF_vars(Resume)

-----------------------------------------------------------------------------
(* Type invariant of a channel's registers.                                *)
TypeOK ==
  /\ bce.pc \in 0..(Space - 1)
  /\ bce.mto \in Nat
  /\ bce.status \subseteq Flags
  /\ bce.rx \in [remaining : Nat, addr : Nat, ilen : {0, 1, 2, 4}, timer : Nat,
                 got_any : BOOLEAN]
  /\ bce.busy \in BOOLEAN /\ bce.error \in BOOLEAN /\ bce.indicator \in BOOLEAN
  /\ indicator \in BOOLEAN
  /\ xmtr \in BOOLEAN /\ rcvr \in BOOLEAN /\ halted \in BOOLEAN

(* A receive in progress belongs to a busy BCE, so nobody can load its     *)
(* program counter or base and every time slice carries it on; it is past  *)
(* neither its buffer nor its patience, and it knows how far it got, which *)
(* is what tells an initial timeout from one in mid-stream.                *)
ReceiveHeld ==
  Receiving(bce) =>
    /\ bce.busy
    /\ bce.rx.timer <= bce.mto
    /\ bce.rx.remaining + transfer.done = transfer.count
    /\ bce.rx.addr = transfer.start + transfer.done
    /\ bce.rx.got_any <=> transfer.done > 0

(* The status register and the program-exception state tell the same       *)
(* story: an error always leaves its cause, and #SSC takes both away.      *)
ErrorHasCause == bce.error <=> bce.status # {}

(* A receive owns the instruction that started it: until it is over (or    *)
(* the IOP is reset) nothing moves the program counter, nothing is         *)
(* transmitted (a #MIN's command is not sent again on resume), and what is *)
(* stored stays inside the buffer the instruction named.                   *)
ReceiveOwnsChannel ==
  [][Receiving(bce) /\ ~ MasterReset =>
       /\ bce'.pc \in {bce.pc, (bce.pc + bce.rx.ilen) % Space}
       /\ bce'.pc # bce.pc => transfer'.done = transfer.count
       /\ sent' = <<>>
       /\ stored' \subseteq {(transfer.start + i) % Space : i \in 0..(transfer.count - 1)}
    ]_vars

(* A BCE that stops says so: a busy bit that falls leaves the BCE either   *)
(* behind a wait instruction, or in error at the instruction that failed,  *)
(* with the indicator up on both sides for the MSC to find.                *)
StopIsVisible ==
  [][bce.busy /\ ~ bce'.busy /\ ~ MasterReset =>
       \/ bce'.pc = (bce.pc + 1) % Space /\ bce'.status = bce.status
       \/ bce'.error /\ bce'.pc = bce.pc /\ bce'.indicator /\ indicator']_vars

(* A receive ends: complete, in error, or because the IOP is stopped.      *)
ReceiveEnds == Receiving(bce) ~> (~ Receiving(bce) \/ halted)

=============================================================================
