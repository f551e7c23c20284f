----------------------------- MODULE MCForceVote -----------------------------
(* The actuator on a small instance: five buses (the fifth drives no port), *)
(* a foreign address, garbled words, and commands inside and outside the    *)
(* tolerance of one another.                                                *)
EXTENDS ForceVote, FiniteSets

MCBus == 0..4
MCIua == {9, 10}
MCCmd == {0, 1, 2, 4}

Good(c) == [cmd_sync |-> FALSE, iua |-> 9, sev |-> "101", data |-> c]

(* Every good command, and one word of each kind the interface must reject. *)
MCWords ==
  {Good(c) : c \in MCCmd}
    \cup {[Good(4) EXCEPT !.cmd_sync = TRUE],
          [Good(4) EXCEPT !.iua = 10],
          [Good(4) EXCEPT !.sev = "garbled"]}

(* The tally used in place of Cardinality (so that it can be proved about)  *)
(* counts ports.                                                            *)
ASSUME TallyCounts == \A S \in SUBSET Port : Tally(S) = Cardinality(S)

-----------------------------------------------------------------------------
=============================================================================
