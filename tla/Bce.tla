--------------------------------- MODULE Bce ---------------------------------
(***************************************************************************)
(* One Bus Control Element of the IOP (iop.rs): its registers, what each   *)
(* of its instructions does in one time slice, and the receive engine.     *)
(*                                                                         *)
(* The module has no variables.  Slice(...) maps a BCE, the instruction    *)
(* its program counter addresses, the receive queue of its bus and the MIA *)
(* enables to everything the slice changes; BceChannel runs it against an  *)
(* arbitrary program and bus, VoteSet inside a set of GPCs.                *)
(*                                                                         *)
(* An instruction is a record [op |-> ..., ...] whose operands are already *)
(* resolved (immediate or through memory).  A halfword on the bus is a     *)
(* record of the parts a receiver looks at.                                *)
(***************************************************************************)
EXTENDS Integers, Sequences

CONSTANTS
  Space,      \* size of the halfword address space (2^18 in the code)
  ListenIua   \* the common IOP address 01000 of a listen command

ASSUME SpaceAssumption == Space \in Nat \ {0}

Addr == 0..(Space - 1)

(* What a receiver sees of a word: the sync type, the interface unit       *)
(* address in its top five bits, whether its validity (SEV) bits are 101,  *)
(* its 16 data bits, and, in a listen command, the unit it is meant for.   *)
DataWord(iua, val) ==
  [cmd_sync |-> FALSE, iua |-> iua, good |-> TRUE, val |-> val, target |-> iua]
CommandWord(iua, val) ==
  [cmd_sync |-> TRUE, iua |-> iua, good |-> TRUE, val |-> val, target |-> iua]
ListenWord(target, index) ==
  [cmd_sync |-> TRUE, iua |-> ListenIua, good |-> TRUE, val |-> index, target |-> target]

(* What the status register may record.                                    *)
Flags == {"ILLEGAL", "BOUNDARY", "TIMEOUT", "INITIAL_TIMEOUT", "XMT_DISABLED",
          "SYNC_ERROR", "SEV", "SIG_MISMATCH"}

NoRx == [remaining |-> 0, addr |-> 0, ilen |-> 0, timer |-> 0, got_any |-> FALSE]

Receiving(b) == b.rx.remaining > 0

(* A slice without input costs one unit of the receiver's patience.        *)
TickNever(timer) == timer         \* mutant: the timer is not counted down
Tick(timer) == timer - 1

(* The registers after power-up and after MASTER RESET.                    *)
ResetBce(iua) ==
  [pc |-> 0, base |-> 0, busy |-> FALSE, indicator |-> FALSE, mto |-> 0,
   iuar |-> iua, status |-> {}, error |-> FALSE, rx |-> NoRx]

-----------------------------------------------------------------------------
(* What one slice changes: the BCE, its receive queue, the words put on    *)
(* the bus, the halfwords stored, and its bit in the MSC's indicator       *)
(* register.                                                               *)
Result(b, queue, sent, stored, bit) ==
  [bce |-> b, queue |-> queue, sent |-> sent, stored |-> stored, bit |-> bit]

Nothing == [a \in {} |-> 0]       \* no halfword stored

Change(b, queue) == Result(b, queue, <<>>, Nothing, "keep")

AdvanceUnmasked(b, n) == [b EXCEPT !.pc = @ + n]   \* mutant: no address wrap
Advance(b, n) == [b EXCEPT !.pc = (@ + n) % Space]

(* Error termination: the receive is abandoned, the status bits are        *)
(* recorded and the BCE waits, its program counter still at the            *)
(* instruction that failed.                                                *)
(* Mutant: the receive is left in progress.                                *)
bce_error_receiving(b, bits) ==
  [b EXCEPT !.status = @ \cup bits, !.error = TRUE, !.indicator = TRUE, !.busy = FALSE]

bce_error(b, bits) ==
  [b EXCEPT !.rx = NoRx, !.status = @ \cup bits, !.error = TRUE,
            !.indicator = TRUE, !.busy = FALSE]

(* Mutant: the MSC's register is not told.                                 *)
FailUnseen(b, queue, sent, stored, bits) ==
  Result(bce_error(b, bits), queue, sent, stored, "keep")

Fail(b, queue, sent, stored, bits) ==
  Result(bce_error(b, bits), queue, sent, stored, "set")

-----------------------------------------------------------------------------
(* Receiving.                                                              *)

(* The number of words after the first n of s that are at one of the      *)
(* positions S, up to the first one that is not.                           *)
RunLength(s, n, S) ==
  CHOOSE k \in 0..(Len(s) - n) : n + k + 1 \notin S /\ \A i \in 1..k : n + i \in S

SmallerOf(m, n) == IF m <= n THEN m ELSE n

Fits(b, w) == ~ w.cmd_sync /\ w.iua = b.iuar /\ w.good

(* The status bits a word that does not fit raises, in the order in which  *)
(* the receiver checks it.                                                 *)
(* Mutant: the comparison with the interface unit address is inverted.     *)
RejectionInverted(b, w) ==
  IF w.cmd_sync THEN {"SYNC_ERROR"}
  ELSE IF w.iua = b.iuar THEN {"SIG_MISMATCH"}
  ELSE {"SEV"}

Rejection(b, w) ==
  IF w.cmd_sync THEN {"SYNC_ERROR"}
  ELSE IF w.iua # b.iuar THEN {"SIG_MISMATCH"}
  ELSE {"SEV"}

(* One slice of a receive in progress.  It drains the queue: with the      *)
(* transmitter disabled it skips the commands ahead of the first data      *)
(* word; then it stores words until the transfer is complete, a word does  *)
(* not fit, or no word is there, which costs a tick of the timer.          *)
receive_pump(b, queue, xmtr, rcvr) ==
  LET heard   == IF rcvr THEN queue ELSE <<>>
      isCmd   == {i \in 1..Len(heard) : heard[i].cmd_sync}
      fits    == {i \in 1..Len(heard) : Fits(b, heard[i])}
      skipped == IF ~ xmtr /\ ~ b.rx.got_any THEN RunLength(heard, 0, isCmd) ELSE 0
      n       == SmallerOf(b.rx.remaining, RunLength(heard, skipped, fits))
      used    == skipped + n
      left    == b.rx.remaining - n
      stored  == [a \in {(b.rx.addr + i) % Space : i \in 0..(n - 1)} |->
                    heard[skipped + 1 + ((a - b.rx.addr) % Space)].val]
      rest(k) == IF rcvr THEN SubSeq(queue, k + 1, Len(queue)) ELSE queue
      timer   == IF n > 0 THEN b.mto ELSE b.rx.timer
      got     == b.rx.got_any \/ n > 0
  IN  IF left = 0
      THEN Result([Advance(b, b.rx.ilen) EXCEPT !.rx = NoRx], rest(used), <<>>, stored, "keep")
      ELSE IF used < Len(heard)
      THEN Fail(b, rest(used + 1), <<>>, stored, Rejection(b, heard[used + 1]))
      ELSE IF timer = 0
      THEN Fail(b, rest(used), <<>>, stored,
                {IF got THEN "TIMEOUT" ELSE "INITIAL_TIMEOUT"})
      ELSE Result([b EXCEPT !.rx = [remaining |-> left, addr |-> b.rx.addr + n,
                                    ilen |-> b.rx.ilen, timer |-> Tick(timer),
                                    got_any |-> got]],
                  rest(used), <<>>, stored, "keep")

(* Mutant: the first word gets no patience.                                *)
receive_data_hasty(b, queue, xmtr, rcvr, start, count, ilen) ==
  receive_pump([b EXCEPT !.rx = [remaining |-> count, addr |-> start, ilen |-> ilen,
                                 timer |-> 0, got_any |-> FALSE]],
               queue, xmtr, rcvr)

(* Begin a receive of count halfwords at start; the first slice pumps.     *)
receive_data(b, queue, xmtr, rcvr, start, count, ilen) ==
  receive_pump([b EXCEPT !.rx = [remaining |-> count, addr |-> start, ilen |-> ilen,
                                 timer |-> b.mto, got_any |-> FALSE]],
               queue, xmtr, rcvr)

(* Transmit count halfwords of main storage, all in one slice.  What the   *)
(* subsystems on the bus answer, reply.command to a command and reply.data *)
(* to data words, is in the receive queue before the slice goes on.        *)
transmit_data(b, queue, xmtr, mem, reply, start, count, ilen) ==
  LET words == [i \in 1..count |-> DataWord(b.iuar, mem[(start + i - 1) % Space])]
  IN  IF ~ xmtr
      THEN Fail(b, queue, <<>>, Nothing, {"XMT_DISABLED"})
      ELSE Result(Advance(b, ilen), queue \o reply.data, words, Nothing, "keep")

-----------------------------------------------------------------------------
(* Instructions.                                                           *)

(* #WAT, #STP: enter the wait state behind the instruction.                *)
Wait(b, queue) == Change([Advance(b, 1) EXCEPT !.busy = FALSE], queue)

Listens(w) == w.cmd_sync /\ w.iua = ListenIua

(* #WIX: #WAT with the transmitter enabled; in listen mode, consume one    *)
(* word of the queue and branch through the table if it is a listen        *)
(* command, else stay at the instruction.                                  *)
ListenFor(b, ins, queue, xmtr, rcvr) ==
  IF xmtr THEN Wait(b, queue)
  ELSE IF ~ rcvr \/ queue = <<>> THEN Change(b, queue)
  ELSE LET w == Head(queue)
       IN  IF Listens(w)
           THEN Change([b EXCEPT !.iuar = w.target, !.pc = ins.table[w.val]], Tail(queue))
           ELSE Change(b, Tail(queue))

(* Mutant: #SSC clears the status and leaves the exception state.          *)
StoreStatusOnly(b, ins, queue) ==
  Result([Advance(b, 1) EXCEPT !.status = IF ins.clear THEN {} ELSE @],
         queue, <<>>, [a \in {ins.addr} |-> b.status], "keep")

(* #SSC / #SST: store the status; #SSC then clears it and the exception.   *)
StoreStatus(b, ins, queue) ==
  Result([Advance(b, 1) EXCEPT
            !.status = IF ins.clear THEN {} ELSE @,
            !.error  = IF ins.clear THEN FALSE ELSE @],
         queue, <<>>, [a \in {ins.addr} |-> b.status], "keep")

(* #RIB / #SIB: the indicator, here and in the MSC's register.             *)
SetIndicator(b, ins, queue) ==
  Result([Advance(b, 1) EXCEPT !.indicator = ins.set], queue, <<>>, Nothing,
         IF ins.set THEN "set" ELSE "reset")

(* #CMDI / #CMD: transmit a command word.  A disabled transmitter is no    *)
(* error; the direct form then leaves the interface unit address alone.    *)
SendCommand(b, ins, queue, xmtr, reply) ==
  LET c == [Advance(b, 2) EXCEPT !.iuar = IF ~ ins.direct \/ xmtr THEN ins.word.iua ELSE @]
  IN  IF xmtr
      THEN Result(c, queue \o reply.command, <<ins.word>>, Nothing, "keep")
      ELSE Change(c, queue)

(* #MOUT / #MIN: command and data stream in one instruction.  The buffer   *)
(* starts on a fullword boundary, whatever base and displacement say.      *)
EvenPart(a) == a - (a % 2)

Message(b, ins, queue, xmtr, rcvr, mem, reply) ==
  LET c     == [b EXCEPT !.iuar = ins.word.iua]
      heard == queue \o reply.command
      start == EvenPart((b.base + ins.disp) % Space)
      data  == IF ins.op = "MOUT"
               THEN transmit_data(c, heard, xmtr, mem, reply, start, ins.count, ins.ilen)
               ELSE receive_data(c, heard, xmtr, rcvr, start, ins.count, ins.ilen)
  IN  IF ~ xmtr
      THEN Fail(b, queue, <<>>, Nothing, {"XMT_DISABLED"})
      ELSE [data EXCEPT !.sent = <<ins.word>> \o @]

-----------------------------------------------------------------------------
(* A long-format instruction must sit on a fullword boundary.              *)
LongFormat == {"BU", "LBR", "CMD", "TDL", "RDL", "MOUT", "MIN"}

Unaligned(b, ins) == ins.op \in LongFormat /\ b.pc % 2 = 1

(* The dispatch on the instruction fetched.                                *)
Execute(b, ins, queue, xmtr, rcvr, mem, reply) ==
  LET at(disp) == (b.base + disp) % Space
  IN  CASE ins.op = "WAT" -> Wait(b, queue)
        [] ins.op = "WIX" -> ListenFor(b, ins, queue, xmtr, rcvr)
        [] ins.op = "SS"  -> StoreStatus(b, ins, queue)
        [] ins.op = "TDS" -> transmit_data(b, queue, xmtr, mem, reply, at(ins.disp), ins.count, 1)
        [] ins.op = "RDS" -> receive_data(b, queue, xmtr, rcvr, at(ins.disp), ins.count, 1)
        [] ins.op = "LTO" -> Change([Advance(b, 1) EXCEPT !.mto = ins.value], queue)
        [] ins.op = "DLY" -> Change(Advance(b, 1), queue)
        [] ins.op = "IB"  -> SetIndicator(b, ins, queue)
        [] ins.op = "BU"  -> Change([b EXCEPT !.pc = ins.value], queue)
        [] ins.op = "LBR" -> Change([Advance(b, 2) EXCEPT !.base = ins.value], queue)
        [] ins.op = "CMD" -> SendCommand(b, ins, queue, xmtr, reply)
        [] ins.op = "TDL" -> transmit_data(b, queue, xmtr, mem, reply, at(0), ins.count, 2)
        [] ins.op = "RDL" -> receive_data(b, queue, xmtr, rcvr, at(0), ins.count, 2)
        [] ins.op \in {"MOUT", "MIN"} -> Message(b, ins, queue, xmtr, rcvr, mem, reply)
        [] ins.op = "ILLEGAL" -> Fail(b, queue, <<>>, Nothing, {"ILLEGAL"})

(* Mutant: a receive in progress is not resumed, the instruction is        *)
(* fetched again.                                                          *)
SliceRefetch(b, ins, queue, xmtr, rcvr, mem, reply) ==
  IF Unaligned(b, ins) THEN Fail(b, queue, <<>>, Nothing, {"BOUNDARY"})
  ELSE Execute(b, ins, queue, xmtr, rcvr, mem, reply)

(* One time slice of a busy BCE whose program counter addresses ins.  A    *)
(* receive in progress is resumed without looking at the instruction.      *)
Slice(b, ins, queue, xmtr, rcvr, mem, reply) ==
  IF Receiving(b) THEN receive_pump(b, queue, xmtr, rcvr)
  ELSE IF Unaligned(b, ins) THEN Fail(b, queue, <<>>, Nothing, {"BOUNDARY"})
  ELSE Execute(b, ins, queue, xmtr, rcvr, mem, reply)

=============================================================================
