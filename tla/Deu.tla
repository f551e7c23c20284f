--------------------------------- MODULE Deu ---------------------------------
(***************************************************************************)
(* The Display Electronics Unit (deu.rs): a keyboard queue that is polled  *)
(* and a screen that is written at a running cursor, both by words on one  *)
(* serial bus.  A unit d is a record; observe(d, w) is what it does with a *)
(* word: the unit after it and the words it answers.                       *)
(*                                                                         *)
(* The payload of a command is a record [op, arg] with the argument taken  *)
(* apart the way the operation does: a count, or a cell and a count.       *)
(***************************************************************************)
EXTENDS Bce

CONSTANTS
  Cells,   \* character cells of the screen
  Blank,   \* what a cell shows at first
  NoKey    \* the empty marker of a poll (0xFF in the code)

ASSUME DeuAssumption == Cells \in Nat \ {0}

new(iua) ==
  [iua |-> iua, keys |-> <<>>, screen |-> [c \in 0..(Cells - 1) |-> Blank],
   cursor |-> 0, pending_write |-> 0]

press(d, k) == [d EXCEPT !.keys = Append(@, k)]

Answers(d, words) == [deu |-> d, answer |-> words]
Ignored(d) == Answers(d, <<>>)

(* A poll takes as many keystrokes off the queue as it asks for; what is   *)
(* missing is answered with the empty marker.                              *)
(* Mutant: answering one keystroke empties the queue.                      *)
PollKeysFlushed(d, count) ==
  Answers([d EXCEPT !.keys = <<>>],
          [i \in 1..count |-> DataWord(d.iua, IF i <= Len(d.keys) THEN d.keys[i] ELSE NoKey)])

PollKeys(d, count) ==
  LET n == Len(d.keys)
      m == SmallerOf(count, n)
  IN  Answers([d EXCEPT !.keys = SubSeq(@, m + 1, n)],
              [i \in 1..count |-> DataWord(d.iua, IF i <= n THEN d.keys[i] ELSE NoKey)])

(* A display write sets the cursor; the data words that follow it, as many *)
(* as it announced, go to the cells from there on.                         *)
DisplayWrite(d, cell, count) ==
  Ignored([d EXCEPT !.cursor = cell % Cells, !.pending_write = count])

(* Mutant: the cursor runs off the screen.                                 *)
PaintOff(d, ch) ==
  Ignored([d EXCEPT !.screen[d.cursor] = ch, !.cursor = @ + 1, !.pending_write = @ - 1])

Paint(d, ch) ==
  Ignored([d EXCEPT !.screen[d.cursor] = ch, !.cursor = (@ + 1) % Cells, !.pending_write = @ - 1])

observe(d, w) ==
  CASE w.iua # d.iua                        -> Ignored(d)
    [] w.iua = d.iua /\ w.cmd_sync          ->
         CASE w.val.op = "poll"  -> PollKeys(d, w.val.count)
           [] w.val.op = "write" -> DisplayWrite(d, w.val.cell, w.val.count)
           [] OTHER              -> Ignored(d)
    [] w.iua = d.iua /\ ~ w.cmd_sync        ->
         IF d.pending_write > 0 THEN Paint(d, w.val) ELSE Ignored(d)

(* The unit after the words a transmitter put on its bus.                  *)
AfterWords(d, words) ==
  LET after[i \in 0..Len(words)] ==
        IF i = 0 THEN d ELSE observe(after[i - 1], words[i]).deu
  IN  after[Len(words)]

=============================================================================
