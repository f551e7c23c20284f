------------------------------- MODULE HalUcp -------------------------------
(***************************************************************************)
(* halucp.rs: the host of HAL/S programs.  Its loop looks at the address of *)
(* the next instruction; at a trap address it writes a field, moves the     *)
(* print position or delivers an input field, and then lets the CPU step.   *)
(* A supervisor call without a handler goes to the host as well.            *)
(*                                                                          *)
(* The program is open: it makes any calls of a given set, in any order,    *)
(* each by storing a code and a buffer and jumping to a stub of one         *)
(* instruction, with ordinary instructions between two calls.               *)
(*                                                                          *)
(* Text is abstracted to its place: a line is a sequence of pieces with     *)
(* their field, first column and length; a form feed is a line of its own.  *)
(* An input field is a number, Null when empty, or Term for the semicolon.  *)
(***************************************************************************)
EXTENDS Instructions, SequencesExt

CONSTANTS
  IOINIT, INTRAP, IOCODE, IOBUF,  \* addresses of the runtime library
  PROGRAM, ENDCODE,               \* of an ordinary instruction, of the code of an SVC
  Channels,                       \* the channels that programs use, of 0 .. 255
  LINES_PER_PAGE,                 \* 66 in the code
  Programs                        \* machine, frames, calls, number of calls, input
OUTRAP == IOINIT + 17
CNTRAP == IOINIT + 64
Traps3 == {OUTRAP, CNTRAP, INTRAP}

VARIABLES
  cpu,      \* the machine
  ucp,      \* the host
  halt,     \* how run_hal has ended, "No" before it has
  program,  \* the program
  left,     \* the calls it may still make
  log       \* what it has asked for and what it got
vars == <<cpu, ucp, halt, program, left, log>>

LINE_WIDTH == 132
SEP_BLANKS == 5
SVC_END == 21
Null == -1
Term == -2
FormFeed == << [field |-> -1, col |-> 1, len |-> 0] >>
Nothing == <<>>

Chan ==
  [ column |-> 1, line_buf |-> <<>>, first_field |-> FALSE, suppress_sep |-> FALSE,
    has_written |-> FALSE, deferred |-> Nothing, line_number |-> 1, ever_emitted |-> FALSE ]

Fresh(input) ==
  [ channel |-> 6, chans |-> [c \in Channels |-> Chan], output |-> <<>>,
    input |-> input, skip_trap |-> FALSE, read_terminated |-> FALSE ]

(***************************************************************************)
(* Output.  u is the host with the channel c in hand.                       *)
(***************************************************************************)
newline(u, c) ==
  LET wraps == u.chans[c].line_number = LINES_PER_PAGE
  IN  [u EXCEPT !.output = @ \o << u.chans[c].line_buf >> \o (IF wraps THEN << FormFeed >> ELSE <<>>),
                !.chans[c].line_buf = <<>>, !.chans[c].column = 1,
                !.chans[c].line_number = IF wraps THEN 1 ELSE @ + 1]
newlines(u, c, n) ==
  LET after[k \in 0 .. n] == IF k = 0 THEN u ELSE newline(after[k - 1], c) IN after[n]

\* A piece of the field being written, at the column, which moves behind it.
Piece(u, c, skip, f, n) ==
  [u EXCEPT !.chans[c].line_buf =
              Append(@, [field |-> f.id, col |-> u.chans[c].column + skip, len |-> n]),
            !.chans[c].column = @ + skip + n]

Arrived(u, c, to) == [u EXCEPT !.chans[c].ever_emitted = TRUE, !.chans[c].column = to]
flush_positioning(u, c) ==
  LET d == u.chans[c].deferred
  IN  IF d = Nothing THEN u
      ELSE Arrived(newlines([u EXCEPT !.chans[c].deferred = Nothing], c, d[1]), c, d[2])

\* Characters go on in the next line; 255 of them need three lines at most.
Wrapped(u, c, f) ==
  LET Put(v, rest) ==
        LET take == Min({LINE_WIDTH - v.chans[c].column + 1, rest})
        IN  [u |-> Piece(v, c, 0, f, take), rest |-> rest - take]
      after[k \in 0 .. 3] ==
        IF k = 0 THEN [u |-> u, rest |-> f.len]
        ELSE LET s == after[k - 1]
             IN  IF s.rest = 0 THEN s
                 ELSE Put(IF s.u.chans[c].column > LINE_WIDTH THEN newline(s.u, c) ELSE s.u, s.rest)
  IN  after[3].u

\* A number moves to the next line as a whole, without its separator.
\* Mutant: the separator is not counted.
NumericTight(u, c, sep, f) ==
  IF u.chans[c].column + f.len - 1 > LINE_WIDTH THEN Piece(newline(u, c), c, 0, f, f.len)
  ELSE Piece(u, c, sep, f, f.len)
Numeric(u, c, sep, f) ==
  IF u.chans[c].column + sep + f.len - 1 > LINE_WIDTH THEN Piece(newline(u, c), c, 0, f, f.len)
  ELSE Piece(u, c, sep, f, f.len)
Characters(u, c, sep, f) ==
  CASE sep = 0 -> Wrapped(u, c, f)
    [] sep > 0 /\ u.chans[c].column + sep > LINE_WIDTH + 1 -> Wrapped(newline(u, c), c, f)
    [] OTHER -> Wrapped([u EXCEPT !.chans[c].column = @ + sep], c, f)

Emitted(u, c, f, sep) ==
  [(IF f.char THEN Characters(u, c, sep, f) ELSE Numeric(u, c, sep, f))
   EXCEPT !.chans[c].first_field = FALSE, !.chans[c].suppress_sep = FALSE]
Separator(chan) == IF chan.first_field \/ chan.suppress_sep THEN 0 ELSE SEP_BLANKS
emit_field(u, c, f) == Emitted(flush_positioning(u, c), c, f, Separator(u.chans[c]))

\* The widths of the formats; an unknown code prints a remark about it.
FieldOf(id, iocode, value) ==
  [ id |-> id, char |-> iocode = 13,
    len |-> CASE iocode = 12 -> 23 [] iocode = 11 -> 14 [] iocode = 13 -> value % 256 [] OTHER -> 11 ]
handle_output(u, iocode, value, id) == emit_field(u, u.channel, FieldOf(id, iocode, value))

\* At the end the lines that were begun are finished.
flush(u) ==
  FoldLeft(LAMBDA v, c : IF v.chans[c].line_buf = <<>> THEN v ELSE newline(v, c),
           u, SetToSortSeq(Channels, <))

(***************************************************************************)
(* Positioning.  Between WRITE and its first field it is only noted down.   *)
(***************************************************************************)
Opened(u, c) ==
  LET w == flush_positioning(u, c)
      down == IF w.chans[c].has_written THEN <<1, 1>> ELSE <<0, w.chans[c].column>>
  IN  [w EXCEPT !.channel = c, !.chans[c].has_written = TRUE, !.chans[c].deferred = down,
                !.chans[c].first_field = TRUE, !.chans[c].suppress_sep = FALSE]
Down(u, c, n) ==
  IF u.chans[c].deferred = Nothing THEN newlines(u, c, n) ELSE [u EXCEPT !.chans[c].deferred[1] = n]
Across(u, c, to) ==
  LET w == [u EXCEPT !.chans[c].suppress_sep = TRUE]
  IN  IF u.chans[c].deferred = Nothing THEN [w EXCEPT !.chans[c].column = to]
      ELSE [w EXCEPT !.chans[c].deferred[2] = to]
At1(u, c) == IF u.chans[c].deferred = Nothing THEN u.chans[c].column ELSE u.chans[c].deferred[2]
ToLine(u, c, n) ==
  n - u.chans[c].line_number + (IF n < u.chans[c].line_number THEN LINES_PER_PAGE ELSE 0)

handle_control(u, iocode, param) ==
  LET c == u.channel
  IN  CASE iocode \in {0, 1} -> [u EXCEPT !.channel = param % 256, !.read_terminated = FALSE]
        [] iocode \in {2, 3} -> Opened(u, param % 256)
        [] iocode = 4 -> Down(u, c, ToLine(u, c, param))
        [] iocode = 5 -> Across(u, c, Max({param, 1}))
        [] iocode = 6 -> Across(u, c, Max({At1(u, c) + Signed(param), 1}))
        [] iocode = 7 /\ param > 0 -> Down(u, c, param * LINES_PER_PAGE)
        [] iocode = 8 /\ (u.chans[c].deferred = Nothing \/ u.chans[c].ever_emitted) -> Down(u, c, param)
        [] OTHER -> u

(***************************************************************************)
(* ON ERROR: the first frame of the chain, of at most eight, with a slot    *)
(* for the error gets the control; without one the SCAL frame is looked at. *)
(* The result is the machine at its handler, or nothing.                    *)
(***************************************************************************)
match_error_handler(fixv, group, num) ==
  \/ fixv = 63
  \/ /\ fixv # 0 /\ fixv < 4096
     /\ Field(fixv, 0, 6) \in {63, group} /\ Field(fixv, 6, 6) \in {63, num}
Rd(m, a) == At(m, a % HW)
Slots(m, sa, group, num) ==
  { s \in 0 .. 15 : match_error_handler(Rd(m, sa + 18 + 2 * s), group, num) }

\* R0 of the frame and of its callers: the address of a frame and its length.
Chain(m) ==
  LET r0[k \in 0 .. 7] ==
        IF k = 0 THEN R(m, 0)
        ELSE LET below == r0[k - 1]
             IN  IF below = Nothing \/ Rd(m, below[1] + 2) \in {0, below[1]} THEN Nothing
                 ELSE << Rd(m, below[1] + 2), Rd(m, below[1] + 3) >>
  IN  r0

\* Mutant: the frame of the failing routine stays.
InFrameBelow(m, r0, slot) ==
  Jump(SetR(SetR(m, 1, Developed(Rd(m, r0[1] + 5))), 3, Developed(Rd(m, r0[1] + 9))),
       Rd(m, r0[1] + 19 + 2 * slot))
InFrame(m, r0, slot) ==
  Jump(SetR(SetR(SetR(m, 0, r0), 1, Developed(Rd(m, r0[1] + 5))), 3, Developed(Rd(m, r0[1] + 9))),
       Rd(m, r0[1] + 19 + 2 * slot))
Unwound(m, sa, group, num) ==
  LET end == Rd(m, sa + 2) + Rd(m, sa + 3)
      regs == [n \in 0 .. 7 |-> << Rd(m, sa + 2 + 2 * n), Rd(m, sa + 3 + 2 * n) >>]
      back == [m EXCEPT !.gpr[m.psw.reg_set] = regs, !.psw = set_word0(@, << Rd(m, sa), Rd(m, sa + 1) >>)]
  IN  IF match_error_handler(Rd(m, end - 2), group, num) THEN {Jump(back, Rd(m, end - 1))} ELSE {}
try_on_error_dispatch(m, group, num) ==
  LET Found(chain) ==
        LET hits == { k \in 0 .. 7 : chain[k] # Nothing /\ Slots(m, chain[k][1], group, num) # {} }
            Nearest(k) == {InFrame(m, chain[k], Min(Slots(m, chain[k][1], group, num)))}
        IN  IF hits = {} THEN Unwound(m, chain[0][1], group, num) ELSE Nearest(Min(hits))
  IN  IF group = 4 /\ num = 27 THEN {} ELSE Found(Chain(m))

(***************************************************************************)
(* Input.  Each field delivered lets the next trap address pass unseen.     *)
(***************************************************************************)
Skips(u) == [u EXCEPT !.skip_trap = TRUE]
Converted(m, iocode, n) ==
  CASE iocode = 9 -> Write(m, IOBUF, <<0, n>>)
    [] iocode = 10 -> Write(m, IOBUF, <<n>>)
    [] iocode = 11 -> Write(m, IOBUF, <<16640 + 16 * n, 0>>)
    [] iocode = 12 -> Write(m, IOBUF, <<16640 + 16 * n, 0, 0, 0>>)
    [] iocode = 13 -> Write(m, IOBUF, << At(m, IOBUF) - (At(m, IOBUF) % 256) + 1,
                                         256 * (48 + n) + (At(m, IOBUF + 1) % 256) >>)
    [] OTHER -> m

(***************************************************************************)
(* run_hal: one iteration checks the address and steps the CPU.  A stub     *)
(* returns to the program.                                                  *)
(***************************************************************************)
code == At(cpu, IOCODE)
value == At(cpu, IOBUF)
at == expand_branch(cpu, cpu.psw.ic)
TrapAt(address) == halt = "No" /\ ~ucp.skip_trap /\ at = address
Returned(m) == Jump(m, PROGRAM)

\* What the program has asked for (fields, items, whether it moved the print
\* position by itself) and what its items came to: the address it goes on at,
\* and there the value it reads or the frame it is in.
NoLog == [written |-> <<>>, moved |-> FALSE, items |-> <<>>, outcomes |-> <<>>]
Received(m, iocode) ==
  CASE iocode = 9 -> At(m, IOBUF + 1)
    [] iocode = 10 -> At(m, IOBUF)
    [] iocode \in {11, 12} -> Field(At(m, IOBUF), 4, 4)
    [] OTHER -> (At(m, IOBUF + 1) \div 256) - 48
Outcome(m) == << m.psw.ic, IF m.psw.ic = PROGRAM THEN Received(m, code) ELSE Upper(m, 0) >>
Noted(m) == log' = [log EXCEPT !.outcomes = Append(@, Outcome(m))]

Host(u, m) == ucp' = u /\ cpu' = m /\ UNCHANGED <<program, left>>

WriteField ==
  /\ TrapAt(OUTRAP)
  /\ Host(handle_output(ucp, code, value, Len(log.written)), Returned(cpu))
  /\ UNCHANGED <<halt, log>>
MovePosition ==
  /\ TrapAt(CNTRAP)
  /\ Host(handle_control(ucp, code, value), Returned(cpu))
  /\ UNCHANGED <<halt, log>>

ReadTerminated ==
  /\ TrapAt(INTRAP) /\ ucp.read_terminated
  /\ Host(Skips(ucp), Returned(cpu)) /\ Noted(Returned(cpu)) /\ UNCHANGED halt
ReadField ==
  /\ TrapAt(INTRAP) /\ ~ucp.read_terminated /\ ucp.input # <<>>
  /\ LET field == Head(ucp.input)
         m == Returned(IF field \in {Null, Term} THEN cpu ELSE Converted(cpu, code, field))
     IN  Host([Skips(ucp) EXCEPT !.input = Tail(@), !.read_terminated = (field = Term)], m) /\ Noted(m)
  /\ UNCHANGED halt
EndOfInput ==
  /\ TrapAt(INTRAP) /\ ~ucp.read_terminated /\ ucp.input = <<>>
  /\ LET handlers == try_on_error_dispatch(cpu, 10, 5)
     IN  \/ \E m \in handlers : Host(Skips(ucp), m) /\ Noted(m) /\ UNCHANGED halt
         \/ /\ handlers = {}
            /\ Host(flush(ucp), [cpu EXCEPT !.psw.wait = TRUE])
            /\ halt' = "Wait" /\ UNCHANGED log

(* The program, at an ordinary address: a trap suppressed there is none. *)
Computes == halt = "No" /\ at \notin Traps3 /\ left > 0
Seen == [ucp EXCEPT !.skip_trap = FALSE]

Moves(c) == c.stub = CNTRAP /\ (c.code \in {4, 5, 6} \/ (c.code = 8 /\ c.buf[1] = 0))
Call(c) ==
  /\ Computes /\ left' = left - 1
  /\ cpu' = Jump(Write(Write(cpu, IOCODE, <<c.code>>), IOBUF, c.buf), c.stub)
  /\ ucp' = Seen
  /\ log' = [log EXCEPT
               !.written = IF c.stub = OUTRAP THEN Append(@, FieldOf(0, c.code, c.buf[1])) ELSE @,
               !.moved = @ \/ Moves(c),
               !.items = IF c.stub = INTRAP \/ (c.stub = CNTRAP /\ c.code < 2)
                         THEN Append(@, IF c.stub = INTRAP THEN "Item" ELSE "Read") ELSE @]
  /\ UNCHANGED <<halt, program>>

\* The code of a supervisor call is in storage at its address; the swap of
\* the PSW fails without a handler, and the host takes it from there.
SupervisorCall(n) ==
  /\ Computes /\ left' = left - 1
  /\ LET asked == [Write(cpu, ENDCODE, <<n>>) EXCEPT !.psw.ea_high = ENDCODE \div SECTOR,
                                                    !.psw.int_code = ENDCODE]
         m == psw_swap(asked, SVC_OLD, SVC_NEW)
         svc == At(m, SECTOR * m.psw.ea_high + (m.psw.int_code % SECTOR))
     IN  /\ m.trap = "Uninitialized"
         /\ cpu' = Trapped(m, "None")
         /\ halt' = IF svc = SVC_END THEN "Done" ELSE "No"
         /\ ucp' = IF svc = SVC_END THEN flush(Seen) ELSE Seen
  /\ UNCHANGED <<program, log>>

\* Any other end of the run: another trap, a wait, the budget of steps.
Stops ==
  /\ halt = "No" /\ at \notin Traps3 /\ halt' = "Stopped"
  /\ UNCHANGED <<cpu, ucp, program, left, log>>

Init ==
  \E p \in Programs :
    /\ program = [calls |-> p.calls, frames |-> p.frames, input |-> p.input]
    /\ cpu = p.cpu /\ left = p.left /\ ucp = Fresh(p.input) /\ halt = "No" /\ log = NoLog
Next ==
  \/ WriteField \/ MovePosition \/ ReadTerminated \/ ReadField \/ EndOfInput
  \/ \E c \in program.calls : Call(c)
  \/ \E n \in {3, SVC_END} : SupervisorCall(n)
  \/ Stops
Spec == Init /\ [][Next]_vars
-----------------------------------------------------------------------------
(* Where the characters of the fields are. *)
Committed == Range(ucp.output)
Begun == IF halt = "No" THEN { ucp.chans[c].line_buf : c \in Channels } ELSE {}
PiecesOf(f, lines) == { p \in UNION { Range(l) : l \in lines } : p.field = f }
Whole(f, pieces) ==
  /\ MapThenSumSet(LAMBDA p : p.len, pieces) = log.written[f].len
  /\ ~log.written[f].char => Cardinality(pieces) = 1
InColumns(l) ==
  /\ \A k \in DOMAIN l : l[k].col > 0 /\ l[k].col + l[k].len - 1 <= LINE_WIDTH
  /\ ~log.moved => \A k \in 1 .. Len(l) - 1 : l[k].col + l[k].len <= l[k + 1].col

\* Between two calls every character of every field that was written is on a
\* line, inside its width and to the right of what was written before it,
\* unless the program moved the position by itself; a number is never broken;
\* and when the host has ended the program no line is left in a buffer.
Quiet == halt # "No" \/ at \notin Traps3
PrintedWhole ==
  Quiet /\ halt # "Stopped" =>
    /\ \A f \in DOMAIN log.written : Whole(f, PiecesOf(f, Committed \cup Begun))
    /\ \A l \in Committed \cup Begun : InColumns(l)

(***************************************************************************)
(* What READ means: an item takes the next field of the input; an empty     *)
(* field leaves it as it is, and a semicolon this and all later items of    *)
(* the statement; at the end of the input the innermost open block that     *)
(* handles the end of file continues, and without one the program ends.     *)
(***************************************************************************)
\* End of file is error 5 of group 10: the tags that name it or all errors.
EndOfFile == { 64 * num + group : num \in {5, 63}, group \in {10, 63} } \cup {63}
Handling(f) == { s \in f.slots : s[2] \in EndOfFile }
First(slots) == CHOOSE s \in slots : \A s2 \in slots : s[1] <= s2[1]
Blocks(frames) == { k \in DOMAIN frames : Handling(frames[k]) # {} }
Kept == <<PROGRAM, 7>>

AtHandler(s, k, handler) ==
  [s EXCEPT !.frames = SubSeq(@, k, Len(@)), !.outcomes = Append(@, <<handler, s.frames[k].at>>)]
AtEnd(s) ==
  CASE Blocks(s.frames) # {} ->
         LET k == Min(Blocks(s.frames)) IN AtHandler(s, k, First(Handling(s.frames[k]))[3])
    [] Blocks(s.frames) = {} /\ Len(s.frames) > 1 /\ s.frames[2].last[1] \in EndOfFile ->
         AtHandler(s, 2, s.frames[2].last[2])
    [] OTHER -> [s EXCEPT !.ended = TRUE]
Item(s) ==
  LET Is(v) == [s EXCEPT !.outcomes = Append(@, v)]
  IN  CASE s.closed -> Is(Kept)
        [] ~s.closed /\ s.input = <<>> -> AtEnd(s)
        [] OTHER -> [Is(IF Head(s.input) \in {Null, Term} THEN Kept ELSE <<PROGRAM, Head(s.input)>>)
                     EXCEPT !.input = Tail(@), !.closed = (Head(s.input) = Term)]
Meaning ==
  FoldLeft(LAMBDA s, item : IF item = "Read" THEN [s EXCEPT !.closed = FALSE] ELSE Item(s),
           [ input |-> program.input, frames |-> program.frames, closed |-> FALSE,
             outcomes |-> <<>>, ended |-> FALSE ],
           log.items)

\* Every item of every READ comes to what the statement means: no field is
\* lost, none is read twice or by the wrong item, and the end of the input
\* leads to the right handler with the frame of its block.
ReadsMean ==
  Quiet => \A s \in {Meaning} : log.outcomes = s.outcomes /\ (s.ended <=> halt = "Wait")
=============================================================================
