------------------------------ MODULE MCVoteSet ------------------------------
(* Sets of three GPCs with one fault among them, at arbitrary speeds, and a *)
(* set with a backup whose clocks stay within two slices of one another.    *)
EXTENDS VoteSet

MCMachines == 0..3

Healthy == [g \in MCMachines |-> 42]
OneSick == [Healthy EXCEPT ![1] = 13]

Sound == [backups |-> {}, value |-> Healthy, trapping |-> {}, garbled |-> {},
          budget |-> 1, skew |-> 0]

MCFaults ==
  {[Sound EXCEPT !.value = OneSick],
   [Sound EXCEPT !.garbled = {1}],
   [Sound EXCEPT !.trapping = {1}, !.budget = 2]}

MCSkewed == {[Sound EXCEPT !.value = OneSick, !.backups = {3}, !.budget = 3, !.skew = 2]}

MCSetups == MCFaults \cup MCSkewed
=============================================================================
