# A formal model of Lazarus AP

Lazarus AP emulates the IBM AP-101S, the computer of the Space Shuttle: one
General Purpose Computer (GPC) is a CPU and an I/O processor (IOP); several GPCs
on shared serial buses form a redundant set that votes out a faulty member.
This directory holds TLA+ modules translated from the Rust source, TLC runs that
check them on small instances, and proofs that TLAPS checks for every instance.

The modules are written from the code. Where a comment or a test says something
else, the code is what is modelled, and the disagreement is a run that is
expected to end in a violation (section *Disagreements*).

## 1. Inventory

How the parts meet: a host calls `RedundantSet::step` (or `step_one`), which calls
`Gpc::step` for each GPC: one CPU instruction, then one IOP slice. A slice is one
instruction of the MSC and one slice of each busy BCE. The CPU reaches its IOP
with the PC instruction (PCO, PCI); the MSC starts the BCEs and interrupts the
CPU; BCEs transmit on the buses through the `BusFabric` callback, which fills the
receive queues of the other GPCs, is tapped by actuators and answered by
subsystems. CPU, MSC and BCEs share main storage. Everything runs in one thread:
"interleaving" here means the order in which the host steps the GPCs, and a
receive that stretches over many slices while the other processors go on.

| Component | State | Operations | What is hard | What makes it correct |
|---|---|---|---|---|
| Force-voted actuator (`gpc.rs`) | last command of four ports, bypass flags | `observe`, `output` | ports keep stale commands; each bypass changes the vote; bypass is for good | a healthy majority is never bypassed and brackets the output; somebody is always left; the vote is settled |
| Redundant set, bus fabric (`gpc.rs`) | one receive queue per GPC and bus, dead GPCs, bus fault, discretes | `step_one`, `transmit`, `receive`, `wire_discretes` | relative speeds, words queued before anybody listens, a GPC that stops halfway, a bus that spoils data words only, discretes a step old | mailboxes hold what their owner sent; nobody waits for ever; only the faulty are flagged |
| Voting program (`demo.rs`) | program counters, mailboxes, poll budget, fault mask | CPU, MSC, transmitter and listener programs | verdict on a partly filled set of mailboxes | every faulty GPC is flagged, a healthy one only when the budget ran out |
| IOP: Bus Control Elements (`iop.rs`) | registers of 24 BCEs, receive in progress, MIA enables | the BCE instructions, `receive_pump`, `bce_error` | a receive spans slices, its timer races the words, others touch the BCE meanwhile | the receive is resumed exactly where it was, ends, and every failure is recorded and visible |
| IOP: Master Sequence Controller (`iop.rs`) | accumulator, index, PC, indicators, error bits, C6 | the MSC instructions, external call | starts of busy BCEs, calls that overtake calls | an external call is neither lost nor nested into its own save area |
| IOP: PCI/PCO (`iop.rs`) | enables, halt, local store, discretes | `pc()` | MASTER RESET in mid-transfer | the IOP stops and restarts in defined states |
| CPU: interrupt system (`cpu.rs`, `psw.rs`) | PSW, one old-PSW slot per class, pending levels | `psw_swap`, `deliver_system_interrupts`, LPS, SSM, SVC, monitor | nesting with one slot per class; mask changes between levels of one delivery; the wait state | interrupted contexts are still in their slots, no level is lost, a wait ends |
| CPU: instructions (`cpu.rs`) | two register sets, sector extensions, floating-point registers, PSW, storage | `step`, `run`, `exec`, `resolve`, `shift`, ... | stores that fail halfway (STM, MVH), addresses expanded from 16 to 19 bits in five ways, carries, interrupts between any two instructions | protected storage keeps its values, problem state its limits; calls nest; a resumed move is complete; a lock excludes; products divide back |
| PSW packing (`psw.rs`) | - | `word0`, `word1`, `set_word0`, `set_word1` | field widths | an interrupted context comes back as it was |
| Floating point (`float.rs`) | - | add, compare, multiply, divide, normalize | guard digit, carry digits, characteristic at its ends | comparison orders the values, division truncates the exact quotient |
| Main storage (`mem.rs`) | halfwords, protection bits | read, write, protect | bounds | no write to a protected halfword |
| Crew interface programs (`tests/crew_interface.rs`) | KEYBUF, TEXT, the write command, C6 | CPU, MSC, poller and display programs | single buffers shared by four processors in lockstep | keys are kept in order; each is shown, in its cell |
| DEU and sensors, mass memory (`deu.rs`, `subsystems.rs`) | key queue, screen and cursor; block store, address | `observe` and answer | a display write split by another command; a reply that nobody takes | text lands where the write pointed; keys arrive once, in order |
| HAL/S support (`halucp.rs`) | 256 output channels, input position, one-shot trap flag | `check_trap`, output, control, input, ON ERROR, `run_hal` | columns at the margin, positions that wait for a field, a statement spread over traps, handlers along a chain of frames | every character is on a line; every item of READ comes to what it means |
| Decoder (`decode.rs`) | - | `decode` | slots of op codes shared by forms | with the assembler: what is written is what runs |
| Assembler (`asm.rs`) | labels, location | two passes | a form chosen in one pass and encoded in the other | what is written is what runs |
| Loader, timing, trace, WebAssembly, binaries, tools, ROMs | - | - | - | tables, text processing and presentation; covered by golden tests, not by a state space |

`PROJECT.json` lists each of them with its status and, under `hazards`, each
behaviour that is hard to test, at its line, with the properties that cover it.

## 2. Modules

```
ForceVote <- MCForceVote             ForceVote   <- ForceVote_proofs
SyncBarrier                          SyncBarrier <- SyncBarrier_proofs
Interrupts <- MCInterrupts           Interrupts  <- Interrupts_proofs
Bce <- BceChannel <- MCBceChannel    BceChannel  <- BceChannel_proofs
Bce <- VoteSet <- MCVoteSet          VoteSet     <- VoteSet_proofs
Bce <- Msc, Deu <- CrewEcho <- MCCrewEcho
Bce_proofs <- BceChannel_proofs, VoteSet_proofs, CrewEcho_proofs
CrewEcho <- CrewEcho_proofs

Word <- PswWord, Digits <- HexFloat
PswWord, HexFloat, Decode <- Machine <- Instructions <- Control, FloatUnit <- Cpu
Cpu <- Cpu_proofs
Decode <- Assembler;  Cpu, Assembler <- Programs <- MCCpu;  CallStack <= Programs
Instructions <- HalUcp <- MCHalUcp
```
(`<-`: is extended by; `<=`: is the abstraction of.)

**ForceVote** (`ForceVotedActuator`). `Observe` is the bus tap; a bus word is the
four things `observe` looks at. `Output` is `output()`: the loop "vote, bypass
what deviates, vote again". `Median` is the element at index `len/2` of the
sorted commands, defined by what is below and at it, so that it can be reasoned
about. `Settled` runs the loop's round three times; that the code's loop needs no
more is proved.

**Bce** has no variables. `Slice` maps a BCE, the instruction at its program
counter, its receive queue and its enables to all that a slice changes: registers,
queue, words sent, halfwords stored, indicator bit. It is the whole of
`step_bce`, with `receive_pump` (draining as many words as are there in one
slice), `bce_error`, and the alignment check. Operands are already resolved;
16-bit payloads are values, validity bits are a flag `good`. `#DLY` only advances,
as in the code. Main storage is assumed writable and large enough, so the
storage-protect and address errors of a BCE's stores are left out. How many words
of a receive are there together (`RunLength`) is the first gap in a set of
positions, so that it can be reasoned about without recursion.

**BceChannel** puts one BCE in its surroundings: any MSC instruction first
(`MscTouch`), then a slice on *any* instruction (programs can be rewritten),
arriving words, PCO enables, halt and MASTER RESET. `sent`, `stored` and
`transfer` observe the latest step and are read by no action. What an instruction
may carry is assumed and named (`OperandsAssumption`: the forms that decoding and
the transfer counts of the code can give, no transfer longer than the storage), and
so is what comes back when a command goes out (`AnswersAssumption`: any words).

**VoteSet** composes full GPCs: CPU, MSC and BCEs of every member run the
programs of `demo.rs` through `Bce!Slice`, and `StepOne` is `step_one`, in the
code's order: CPU, MSC, BCEs, each on what the one before left. Instructions that
touch only registers are merged with the load or store they prepare; that makes
the model's CPU poll faster in slices than the real one, so the budgets that
suffice here are on the safe side. Which set is assembled (backups, values,
trapping CPUs, garbled buses, budget, clock skew) is the constant-for-life
variable `setup`; `VoteAssumption` says what a set may be: any number of GPCs, of
which any may be backups, any nonzero values, any budget and patience, and storage
for the BCE programs and the mailboxes.

**SyncBarrier** is `wire_discretes` with the barrier program of
`tests/redundant_set.rs`. `Tick(S)` is one host step in which the GPCs of `S`
move. `Below` is the signed compare of the poll loop on the lines themselves: line 0
is the sign bit, and between words of equal sign the first line in which they differ
decides; no words are made of lines, so it holds for any number of them. The
stagger loop is a nondeterministic delay.

**Interrupts** is the interrupt system, driven by `Cpu::run` or `Gpc::step`
(variable `host`). A context is named by who runs; a PSW is its context, masks,
wait and overflow bits; instructions are what they do to these. Levels are taken
in order in one `deliver_system_interrupts`, each against the mask the previous
swap loaded. `nest` is an observation: the stack the slots ought to amount to.
`Handled` is the set of classes whose new PSW is set up; a swap into any other class
stops the CPU. `HandlerDiscipline` assumes what one slot per class requires of the software:
handlers unmask only what has a higher rank.

**Msc** is Bce's counterpart for the Master Sequence Controller: `step_msc` maps
the unit (MSC registers, error bits, indicators, C6, its BCEs), a decoded
instruction and main storage to the unit after a slice and the halfwords stored.
All of `step_msc` is there, with addresses below `Space` and two's-complement words of
`Width` bits; `Bits` and `WordOf` go between a word and the set of its bits. Only the
programs of CrewEcho run it so far, and VoteSet has the demo's eight-instruction
sequencer as a program counter of its own.

**Deu** is the display unit: `observe` with polls and display writes, on words
whose command fields are taken apart.

**CrewEcho** is the test `cpu_tasked_keyboard_echo`: the CPU loop, the MSC's main
loop and echo program, the polling and the display program, with the addresses of
the test, run by `step_msc` and `Bce!Slice` on the same storage. `Step` is one
step of the GPC: an instruction of the CPU, then of the MSC, then a slice of BCE 4
and of BCE 5. `Press` may come between any two steps, where the test presses a key
every 300. Which slice reads what is decided by the code's lockstep, so a race is
a race by counted slices. `CrewAssumption` is what the program takes for granted: the
buffers are inside storage, keys and the empty marker are different bytes, which fit
a halfword without a sign, and no key has the blank for a glyph. `EchoRight` is about as many
keys as the screen and the cell field of the command have cells: after that the
cursor wraps over what it wrote.

**The CPU** is built in layers. `Word` has words as sequences of halfwords and
their arithmetic at full width; `Digits` the same for sequences of hexadecimal
digits. `PswWord` packs and unpacks the PSW, `HexFloat` is `float.rs` on fractions
of 14 digits with its guard digit, `Decode` is `decode` with its slot tables.
`Machine` is the state of a `Cpu` with storage, protection, PSW swaps, condition
codes and operand addresses (`resolve` in all its modes, including the pointer it
writes back). Storage is a function on the addresses that were ever written, zero
elsewhere, of 2^19 halfwords as in the code; a store across the end of storage leaves
what came before the end, as the code's halfword-by-halfword writes do. `Instructions`, `Control` and
`FloatUnit` say what each instruction does to a machine; `Cpu` is the state
machine: `step` with one action for each family of instructions and for each way
out of it (monitor, illegal, unimplemented, address trap, refusal), ENDOP, and
`run` with its wait state, self-loop and budget. `Raise` is the outside setting a
level pending between any two steps. An action whose instruction fails halfway is
still one step: `trap` and the PSW tell how it ended. Loops of the code are written in closed
form: STM, SCAL and MVH say which halfwords are stored before the first refused one, and MVH,
which moves from the highest halfword down, from which halfword of an overlapped source each
arrives. `StartsAssumption`, which TLC evaluates, is that the start states are machines.

**Assembler** is `asm.rs` from parsed statements on: `size_of` in the first pass,
`encode` in the second. **Programs** writes the test programs in that language, so
decoder, assembler and CPU are checked together, and states what their runs must
show.

**CallStack** is the promise behind SCAL and SRET in three actions: `Enter` pushes
the registers with the address of the next instruction, `Leave` brings back the
latest, `Work` leaves what is kept alone. `Programs!Nested` is
`INSTANCE CallStack WITH` a refinement mapping that reads the frames out of
storage and the running context out of the PSW, or out of the old PSW while a
handler runs on the other register set; the run checks `Nested!Spec` as a
property of a recursive procedure under timer interrupts and protected frames.

**HalUcp** is the host of HAL/S programs on the same `Machine`. A program is open:
any calls of a set, in any order, each a store of a code and a buffer and a jump to
a stub, with an ordinary instruction between two of them (assumed of the library:
`skip_trap` is then used up where the code expects it). The stub itself returns to
the program. A line is a sequence of pieces with field, column and length, so text
is there as place and amount, which is what wrapping and paging are about; an
input field is a number, an empty field or a semicolon. `suppress_adv` is left out:
nothing in `src/` sets it. `log` observes what was asked for and what items came
to; no action reads it. `Meaning` is the reference: the statements of the log
executed on the input and the frames, without traps, flags or storage.

## 3. Runs

| Run | Instance | Properties |
|---|---|---|
| `force_vote` | 5 buses, commands 0, 1, 2, 4, tolerance 1, one word of each rejected kind | `TypeOK`, `SurvivorLeft`, `OutlierLoses`, `VoteSettles` |
| `bce_channel` | 4 halfwords, 19 instructions, 3 kinds of arriving words, 2 answers, at most 2 words queued, 1 status bit | `TypeOK`, `ReceiveHeld`, `ErrorHasCause`, `ReceiveOwnsChannel`, `StopIsVisible`, `ReceiveEnds` |
| `vote_set` | 3 GPCs, one fault of each kind, any speeds; and 3 GPCs with a backup and skew 2 | `TypeOK`, `MailboxesTrue`, `VerdictRight`, `GarbledBusSeen`, `SkewAbsorbed`, `VerdictInTime` |
| `barrier` | 4 GPCs | `TypeOK`, `LineZeroGates`, `AllGetThrough` |
| `interrupts` | both hosts, levels 0 and 4, program exceptions, SVC, no monitor handler | `TypeOK`, `SavedContextsIntact`, `PendsUntilTaken`, `RunWakesUp` |
| `crew_echo` | 2 different keys, 3 presses, 3 cells | `TypeOK`, `KeysInOrder`, `NoErrors`, `EchoRight`, `EchoComplete` |
| `cpu` | every op code with every form on two machines (supervisor, problem state with protected storage); every addressing mode, also with a pointer into protected storage; interrupts in a row with all PSW slots protected; 81 pairs of floating-point numbers for 11 operations; programs for calls, moves, locks, products; every mnemonic of the assembler | `TypeOK`, `ProtectedKept`, `PrivilegeHeld`, `CallsNest`, `MoveResumes`, `LockExclusive`, `DivisionUndoes`, `AssembledRight`, `FloatOrdered`, `QuotientExact` |
| `hal` | 2 channels, pages of 3 lines, 4 of 19 writing calls or 6 of a row program, 3 to 5 reading calls of each type on 7 stacks of frames | `PrintedWhole`, `ReadsMean` |
| `interrupts_wait` | GPC host | `WaitIsInterruptible`, violated |
| `cpu_convert` | CVFL on 125 register values | `ConvertedKept`, violated |
| `cpu_pointer` | the addressing modes of `cpu`, protected and not | `EveryStoreChecked`, violated |
| `crew_start` | 2 presses | `KeysKept`, violated |

What they show, in words:

- *Actuator.* No history of commands and readings bypasses all ports; a strict
  majority of active ports that agree within the tolerance is untouched and the
  position lies between their commands; what `output` returns is final until a
  new command arrives.
- *Channel.* A receive keeps its books over slices (`ReceiveHeld`), moves the
  program counter once and only when complete, never repeats the command of a
  `#MIN`, stores only in its buffer (`ReceiveOwnsChannel`), and ends
  (`ReceiveEnds`). A BCE that stops is behind a wait instruction or in error with
  both indicators up (`StopIsVisible`), and exception and status agree through
  errors, `#SSC` and restarts (`ErrorHasCause`).
- *Set.* Mailbox `s` holds 0 or what GPC `s` published, never anything from a GPC
  that cannot be heard. A GPC that is wrong or unheard is flagged by everybody who
  votes; another one only by a CPU whose budget ran out. Every step of a live CPU
  lowers a bound on the steps it has left, so no silent GPC stalls it
  (`VerdictInTime`). With skew at most 2, patience 1 and budget 3, no budget and
  no patience runs out (`SkewAbsorbed`); patience 0 or budget 2 would not do.
- *Barrier.* If a GPC's read contains line 0 the barrier holds for it.
- *Interrupts.* As long as handlers follow the discipline, each interrupted
  context is intact in its slot; a pending level leaves only by being taken.
- *Keyboard echo.* From the second poll on every key is in exactly one of the
  display unit's queue, KEYBUF and the CPU, however fast the crew types
  (`KeysInOrder`); no start meets a busy BCE (`NoErrors`); every key gets its cell
  (`EchoComplete`). If the crew waits for each echo the glyphs are right
  (`EchoRight`). Without that condition they are not: a key can be taken from
  KEYBUF early enough for the CPU to store its glyph in TEXT in the very step in
  which BCE 5 sends TEXT for the key before.

- *CPU.* In every step of every instruction a protected halfword keeps its value
  (`ProtectedKept`). Two exceptions are made, each for single halfwords: the old PSW
  of an interrupt that the step takes, in the slot of that interrupt
  (`StoredPsws`), and the two halfwords of the pointer of automatic storage
  modification (`MovedPointer`); the operand of the same instruction is not excepted.
  Which interrupts a step took is read off the machines before and after it:
  levels that no longer wait (`LevelsTaken`), and a program interrupt if its handler is in
  control or was when one of these levels was taken, which the old PSW of that level
  shows (`ProgramTaken`). A program in problem state changes neither protection nor the
  control fields of its PSW, except through the new PSW of an interrupt
  (`PrivilegeHeld`). Calls implement the stack (`CallsNest`). However often MVH is
  stopped by a protected halfword, what it has counted off has arrived, the rest
  waits, and it goes on to the end (`MoveResumes`), also into its own block and
  into another sector. TS with the conditional branch and ZH is a lock at every
  interleaving of two levels of interrupts (`LockExclusive`). MR then DR gives the
  first factor back or leaves the overflow indicator on (`DivisionUndoes`).
- *Floating point.* On normalized operands comparison orders the values unless the
  difference overflows (`FloatOrdered`), and a quotient is the exact one truncated,
  shown by multiplying back at full length (`QuotientExact`).
- *Assembler and decoder.* Every statement that the assembler takes, at the edges of
  its ranges, is decoded as the instruction written, with its registers, length and
  immediate, and `resolve` forms the address written (`AssembledRight`). A long form
  with base 3 is excepted: the instruction set has no such base, and `asm.rs` does
  not say so.
- *HAL/S.* Every character of every field is on exactly one line, inside its width,
  to the right of what came before it in that line; numbers are not broken; nothing
  is left in a buffer when the host ends the program (`PrintedWhole`). Every item of
  a READ takes the field that the statement means, whatever type, semicolons and
  empty fields come before, and the end of the input leads to the innermost handler
  for it, with the registers of its frame, or ends the program (`ReadsMean`).

**Bounds.** Commands 0, 1, 2, 4 at tolerance 1 have pairs that agree, pairs that
differ by exactly the tolerance, chains (0-1-2) and outliers. Four halfwords of
address space make the program counter wrap; two queued words are a buffer, a
partial buffer with a word that does not fit, or a reply and a leftover. One
status bit (`StatusBound`, with room kept for the error of a receive in progress)
suffices to tell empty from not empty. Garbled and foreign words: `bce_channel`
has the foreign ones and commands, `vote_set` the garbled ones and `#LBR`. Three
GPCs give a majority; the backup adds a listener that commands nothing. In the
demo the budget is 200 polls and the patience 500 slices; only their relation to
the skew matters. Mailbox 0 means "empty", so values are nonzero, as in the program.
Three keys on three cells make the cursor wrap and give a key that overtakes or is overtaken two
neighbours; words of 20 bits hold an address and the halfword 255, and masks of
the two BCEs. In `cpu` single instructions start from chosen machines whose
registers and storage make every branch of an instruction reachable (coverage
shows every action and disjunct), and programs have a budget of 40 or 60 steps,
more than their longest run; two nested calls and four halfwords to move have a
first, a middle and a last; timer 1 comes twice, so that it interrupts a handler's
return as well. The floating-point numbers are zero, one, the largest, the
smallest, all digits set, and neighbours of these. In `hal` pages of 3 lines turn
within one program (the code's 66 is the value of the constant), and 255
characters at the last column need three lines, which is the longest a field can be.

**Fairness.** `bce_channel`: weak fairness of a slice of a receive in progress:
the host steps the IOP in a loop and a busy BCE has a slice in each step; it is
conditional on the IOP not being halted. `interrupts`: weak fairness of the
host's loop. `crew_echo`: weak fairness of `Step`, as the host steps the set in a
loop; none of the crew. `barrier`: each GPC moves on, and the stagger loop, which counts a
register down, ends. `vote_set` needs none: progress is stated as a measure.
`CHECK_DEADLOCK FALSE` is set for `interrupts`, where a swap without a handler
stops the host, and for `cpu`, `cpu_convert`, `cpu_pointer` and `hal`, where a program ends (self-loop, wait,
trap, budget, end of program). In all other runs deadlock is checked. `cpu` and `hal`
state no liveness: `run` is bounded by its budget of steps.

## 4. Proofs

Every theorem is checked by TLAPS for all values of the constants that satisfy the
named assumption of its module. A module of proofs begins with the inductive
invariant or with the lemmas about operators, and ends with the theorems, each of
which names a property of a run.

**ForceVote_proofs** (`ActuatorAssumption`: any set of commands, any words, any
tolerance).

- `TypeCorrect`: `[]TypeOK`.
- `SurvivorAlwaysLeft`: `[]SurvivorLeft`. `SurvivorLeft` is not inductive, for a
  first command could come in on a port already bypassed; `SurvivorInv` adds that
  bypassed ports have been commanded. The step rests on `PassLeavesSurvivor`: the
  port that holds the median does not deviate from it.
- `OutputSettles`: rests on `OneRoundSettles`: with four ports, whoever survives
  one round is within the tolerance of the vote of the survivors. So the loop of
  `output()` changes nothing after its first round, which is also why three
  rounds in `Settled` are the whole loop.
- `MajorityWins`: rests on `MajorityBrackets` (a strict majority has a command on
  either side of the median), used before and after the round.

`Tally` counts ports without `Cardinality`, which keeps the arithmetic in reach
of the SMT solver; `MCForceVote` lets TLC check that it is the cardinality.

**SyncBarrier_proofs** (`BarrierAssumption`: at least one GPC).

- `TypeCorrect`, and `BarrierGates`: `[]LineZeroGates`. `LineZeroGates` speaks of what
  a GPC has read, and a read can only be trusted if the inputs are the outputs of
  the GPCs: `Gates` adds `discrete_in = Wired(discrete_out)`. Outputs are raised
  and never lowered, so what was read stays up. `LineZeroDecides` is the compare: if line 0
  was read and any line is missing, the first missing one (`LeastMember`)
  makes the word less than all lines up, and the GPC polls again.

**Interrupts_proofs** (`HandlerDiscipline`: any programs and handlers, with ranks).

- `TypeCorrect`, and `ContextsIntact`: `[]SavedContextsIntact`. That a slot is intact says
  nothing of whether the next swap spares it. `Nests` adds the reason: the classes on
  the nest have strictly increasing rank (`Ascending`), each context on it is disciplined,
  and so a class that may interrupt the running one is not on the nest and
  its slot is free. `TypeCorrect` needs the same invariant, because the bound on the
  depth of the nest is that its classes are distinct.
- `NoLevelLost`: `PendsUntilTaken`, with `Upholds` as what one swap, and then the
  whole of `deliver_system_interrupts`, keeps for every level taken before.

**Bce_proofs** has no theorem of its own: it says what an operator of `Bce` returns.
`PumpResult` is the one the others rest on: `receive_pump` stores the longest
run of words that fit, at consecutive addresses, and then is complete, or in error
over a word that does not fit or over silence, or goes on where it stopped, with
the rest of the queue. It begins with least members and addresses that wrap.

**BceChannel_proofs** (`SpaceAssumption`, `OperandsAssumption`,
`AnswersAssumption`: any program, answers and arrivals, any size of the storage).

- The invariant `Channel` has `BooksKept`, `CauseLeft` and the types in
  one conjunction, because each needs the others: an error at an instruction
  abandons the receive it started, only a busy BCE is safe from the MSC's loads, and
  the books are about a BCE whose registers are numbers. `Held` adds to `ReceiveHeld` that
  the buffer begins inside the storage and is not longer than it, so that
  its addresses wrap at most once and are as many as the words stored.
- `ChannelOwned` and `StopSeen`, the action properties, are part of what is shown of each
  slice (`OwnsChannel`, `SaysSo`) from the same invariant, one lemma per kind of
  instruction; `FetchedSlice` puts the dispatch together.

**VoteSet_proofs** (`SpaceAssumption`, `VoteAssumption`: any number of GPCs and backups,
any values, faults, budget, patience and skew).

- The invariant `Set` has, for each GPC, `Controls`, where its MSC and BCEs are: BCEs are started
  once and after the value was published, the two BCE programs are at an
  instruction of theirs with the registers that instruction left (`Transmitting`, `Listening`),
  what a receive queue holds was said by the commander of that bus (`Spoken`), a
  listener in error has raised its indicator, and one that has not stored yet has
  an empty mailbox; and `Votes`, what a CPU has flagged so far is at least what
  it had to and, if its budget lasted, nothing else.
- `MailTrue`, `VerdictSound`, `GarblingSeen` and `TypeCorrect` follow from it. None of them is
  inductive alone: that a mailbox is true rests on the words still in a queue, these on
  what the transmitter's registers hold, these on when it was started. It also gives
  that no BCE of the demo ever leaves its program, and that it waits at its end.
- `VerdictBounded`: `VerdictInTime`, from the types of a CPU: the polls left weigh more than a
  pass over the mailboxes.

**Cpu_proofs** (`StartsAssumption`: any start machines, any number of steps and of
interrupts, any answers of the device; so any program in storage, the ones that modify
themselves among them).

- The invariant is only `Shape`: a machine keeps its fields and its PSW keeps its fields.
  What they hold does not matter, since a store is refused by the addresses it would
  reach, whatever they were computed from; so nothing is needed about the arithmetic, and
  `TypeOK` is not used.
- `Keeps(m, n)` says that an instruction's body kept the protected halfwords, the protection
  and the control fields; `Swaps(K, m, n)` that a new PSW was loaded and old ones were stored only in `K` and in the
  slots of the levels and program interrupts taken (`OldPsws(m, n)`), or nothing but the
  interruption code changed (no handler); `Interrupted` is that with no `K`; `Obeys` is `Keeps`
  followed by `Interrupted`, `Calls` is what SVC and the monitor do, whose slot is the `K`.
- Keeping is transitive, and so is being interrupted (`InterruptedTransitive`: a second
  interrupt whose handler is missing leaves the first one's PSW, with another code, which is
  why `InHandler` does not look at the code). For that, which interrupts were taken must be
  seen from the first and the last machine alone. A level taken stays cleared. A program
  interrupt is seen by its handler's PSW until a level is taken on top of it, and then by the
  old PSW of that level, which `MarkLasts` shows to outlast the step: no later level has its
  slot there, and none stores into the new PSW of program interrupts (`Apart`). So
  `Interrupted` also says that a machine in that handler is left with such a mark.
  `DeliverInterrupts` applies it to the seven levels of one delivery.
- There is one lemma for each helper that changes a machine and one for each family of
  instructions (`StoreRunObeys`, `MoveHalfwordsObeys`, `CallObeys`, ...). `StatusObeys` is where LPS, SSM and
  ISPB do not obey: they are privileged, and store nothing (`Commands`).
- `ResolveFrames`: forming the operand address changes storage only where it moves a pointer
  on, and there only the two halfwords of the pointer. `OperandsFrame`: a privileged
  instruction has an operand machine only in supervisor state.
- `StorageProtected` (`ProtectedKept`) and `PrivilegesHeld` (`PrivilegeHeld`) follow from `StepLemma`, which
  has a case for each way through `step` and `run`.
- `CallReturns` is about the operators `call` and `return` and not about `Spec`: it is what
  makes `Leave` of `CallStack` give back what `Enter` kept, for any machine, register and place
  of the frame, where `CallsNest` sees one program. Its hypotheses are those of a call that is
  let through (`Callable`: no protected halfword in the frame, storage does not end in it) and
  of a return that finds the frame: nobody wrote its eighteen halfwords, a register of the
  same set points to it, the condition of SRET holds. The steps: `FrameContents` (what is in
  a frame, halfword by halfword), `RunStored` (it is stored whole), `CallStores` (R1 keeps its
  sector bit and points to the frame, by `Offsets`), `Unpacked` and `WordLoaded` (the word of
  the PSW loses none of its fields).

**CrewEcho_proofs** (`CrewAssumption`, `MscAssumption`, `SpaceAssumption`,
`DeuAssumption`: any set of keys, any glyph table, any width of the words, any size of
the screen, any number of keystrokes at any time).

- First the words: `Weight` and `WordOf` are recursive functions, so that they exist and
  what they compute is proved by `Recursion` and `Upwards` (induction as a least
  counterexample, since the library's induction cannot be instantiated). `WordBits` (the
  bits of the value of a set are the set) and `SameBits` give what the programs need: a
  mask read as halfwords starts exactly its BCE (`Mask`), and `@X` leaves zero exactly
  for the empty marker.
- Then one lemma for each processor, `MscStep`, `PollerStep`, `WriterStep`, and
  `StepMoves`, which puts them together: what a step of the GPC does to the program
  counters, KEYBUF, TEXT, the accumulator and the two displays, without the records of
  the unit. All that follows uses only that.
- The invariant `IInv`. `KeysInOrder` and `EchoRight` speak of buffers that four
  processors share without any lock, so what keeps them is where the others are:
  - `InLockstep`: in each state the MSC's counter fixes how far a busy BCE 4 and a busy
    BCE 5 are. The first poll is in phase with the CPU (`Starting`); each later poll,
    and each write, starts at an `@SIO` and is over before the MSC comes round again.
    `NoErrors` follows, since no `@SIO` meets a busy BCE.
  - `Sampled`: what the MSC's look at KEYBUF still means two, three and four
    instructions later. Between the look and the restart nobody fills KEYBUF, so it is
    still empty and not in the CPU's hand (`Quiet`) when BCE 4 polls. `Exception` is the
    one way this fails: a key typed before the first poll was over, which is also the
    only state in which the second poll may overwrite a key (the finding `crew_start`).
    There is one such window, and it is why `KeysInOrder` has its disjunct `early`.
  - `CpuKnows`: how far the CPU has processed the key in hand, against TEXT, the write
    command and the keys heard; `Counted`: no key is counted twice, which bounds the
    registers and keeps the order of `KeysKept`.
  - `Echo`: while the crew waits for each echo (`Calm`) the glyph of the last key is in
    one place on its way (in hand, in C6, in the echo program, in BCE 5), and the screen
    is complete up to it. A calm crew may have typed its first key before the first
    poll: `Kept` says that it is not lost.
- `TypeCorrect`, `KeysOrdered`, `ErrorFree` and `EchoCorrect` are read off `IInv`, which
  was checked by TLC on the instance of `crew_echo` before each part was proved.

**Only model-checked**, and why:

- Liveness (`ReceiveEnds`, `AllGetThrough`, `RunWakesUp`, `EchoComplete`): beyond the
  installed provers. `VerdictBounded` is the one of them that could be stated as a measure.
- `SkewAbsorbed`: true of certain numbers (patience, budget, skew) and false of others;
  the run gives the numbers, and a theorem would be a sum over the two programs' slices.
- The CPU: `TypeOK` of `Cpu`, whose proof is the range of every arithmetic operation, computed by
  folds over halfwords and digits. What `Programs` states (`CallsNest`,
  `MoveResumes`, `LockExclusive`, `DivisionUndoes`, `AssembledRight`), `FloatOrdered` and
  `QuotientExact` are about concrete programs, or computed by folds
  and recursive operators over digits, where a proof would be by induction over data; of
  `CallsNest` the step that matters is `CallReturns`.
- HalUcp: lines and items are the result of a recursive reading of the log.

## 5. Disagreements

- `interrupts_wait` (`gpc.rs:50`): `Gpc::step` skips `Cpu::step` in the wait state,
  and with it the only place where pending levels are taken. `cpu.rs:642` calls
  the wait state interruptible, and `Cpu::run` takes levels there.
- `cpu_convert` (`float.rs:128`): CVFL makes zero of a register value below 256, for
  `normalize` looks for bits under the precision mask before it shifts; the comments
  at `float.rs:124` and `cpu.rs:1251` describe the shift first. The value is
  representable.
- `cpu_pointer` (`cpu.rs:340`): the write-back of automatic storage modification goes to
  storage without a look at the protection bits, where `docs/ISA_STATUS.md:194` says that every
  CPU store checks them and `mem.rs:41` that a store to a protected location does not
  occur. `EveryStoreChecked` is `ProtectedKept` without the exception for the pointer.
- `crew_start` (`tests/crew_interface.rs:188`): the MSC first looks at KEYBUF before
  the first poll is over and restarts the poller whatever that poll brings, so the
  second poll overwrites a key the CPU has not consumed; a second early key is
  lost. `docs/DEU_STATUS.md:50-52` says the poller is restarted only after the CPU
  consumed the keystroke. Later the loops stay in step and it is.

Others, seen while modelling and not given a run:

- The barrier of `tests/redundant_set.rs:116` compares signed, so it is passed by anyone
  who reads the lines while line 0 is down, whatever the other lines (take "0 in what was
  read" out of `LineZeroGates` and TLC shows it). The test, which speaks of polling "until
  all four lines are up", staggers arrivals so that GPC 0 is first, and there it holds.
- `output()` bypasses on the first deviating sample where `gpc.rs:78-80` says
  "persistently deviates".
- The field comment `iop.rs:128-129` says an empty queue times out at once, while
  `receive_pump` waits for the timer; the header `iop.rs:20-23` predates that engine.
- `@RBI` (`iop.rs:931`) resets the MSC's copy of an indicator and not the BCE's, which
  the comment at `iop.rs:125` says it does; nothing reads the BCE's copy.
- `run` takes an unchanged instruction counter for a self-loop (`cpu.rs:655`), also
  when an interrupt or MVH left it where it was.
- TS and TSB set the condition code, and AST and SST the indicators, before a store
  that is then refused (`cpu.rs:1360-1375`).
- `run_hal` flushes begun lines at the end of the program and of the input, not at any
  other end (`halucp.rs:747-753`), and takes any uninitialized interrupt for a
  supervisor call.

## 6. Not modelled, and the plan

Left out for good: loading, timing tables, tracing, the web and command-line front
ends, tools and ROMs (tables, text and presentation); the parsing of assembler text
and of input text; the wording of numbers and condition of printed characters.
`Interrupts` keeps its own abstract CPU, in which interrupts of every class nest
freely; `Cpu` has the concrete one.

Next, in order:

1. Proofs: an interrupted MVH that is resumed leaves what the uninterrupted one would have
   (`MoveResumes` for every block; with overlapping operands an induction over the halfwords).
2. A run of `Msc` on arbitrary programs: `@SIO` on a busy BCE, `@REC` and nested
   external calls, `@INT`, PCO/PCI. An abstract BCE life cycle (idle, running,
   receiving, failed), and BceChannel shown to implement it.
3. `Exchange`: what one voting round promises (publish, hear, decide), with
   VoteSet shown to implement it.
4. `MassMemory` and sensors: subsystems with late replies and several
   transmitters on a bus, the crew station and its eavesdropper.
5. The 32-bit BCE status word and `#LTO` scaling as pure operators.
