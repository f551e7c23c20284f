----------------------------- MODULE CallStack ------------------------------
(***************************************************************************)
(* What the calling sequence promises.  A procedure runs with a word of the *)
(* PSW (instruction counter first) and eight registers.  A call keeps them  *)
(* as they were, with the address of the next instruction, on top of the    *)
(* calls still open; a return brings the latest back; nothing else touches  *)
(* what is kept.                                                            *)
(***************************************************************************)
EXTENDS Integers, Sequences, SequencesExt

CONSTANTS Pointer, Length  \* the register a call may change, the length of a call

VARIABLES stack, running   \* running: [word, regs]

After(word) == [word EXCEPT ![1] = (@ + Length) % 65536]

Enter ==
  /\ stack' = Append(stack, [running EXCEPT !.word = After(@)])
  /\ running'.regs = [running.regs EXCEPT ![Pointer] = running'.regs[Pointer]]

Leave ==
  /\ stack # <<>>
  /\ running' = Last(stack)
  /\ stack' = Front(stack)

Work == stack' = stack

Next == Work \/ Enter \/ Leave

Spec == stack = <<>> /\ [][Next]_<<stack, running>>
=============================================================================
