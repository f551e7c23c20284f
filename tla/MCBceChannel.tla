----------------------------- MODULE MCBceChannel -----------------------------
(* A channel with a program store of four halfwords, two interface units    *)
(* and instructions of every kind.                                          *)
EXTENDS BceChannel

Command == CommandWord("unit", 0)

MCInstructions ==
  {[op |-> "RDS", disp |-> 1, count |-> 2],
   [op |-> "RDL", count |-> 1],
   [op |-> "MIN", word |-> Command, disp |-> 1, count |-> 2, ilen |-> 4],
   [op |-> "WIX", table |-> <<0, 1>>],
   [op |-> "LTO", value |-> 0], [op |-> "LTO", value |-> 1],
   [op |-> "WAT"], [op |-> "DLY"], [op |-> "BU", value |-> 2],
   [op |-> "IB", set |-> TRUE], [op |-> "IB", set |-> FALSE],
   [op |-> "SS", clear |-> TRUE, addr |-> 0], [op |-> "SS", clear |-> FALSE, addr |-> 0],
   [op |-> "CMD", word |-> Command, direct |-> TRUE],
   [op |-> "CMD", word |-> Command, direct |-> FALSE],
   [op |-> "TDS", disp |-> 0, count |-> 2], [op |-> "TDL", count |-> 1],
   [op |-> "MOUT", word |-> Command, disp |-> 0, count |-> 1, ilen |-> 2],
   [op |-> "ILLEGAL"]}

(* Words a listener takes, rejects and skips (garbled words are in VoteSet). *)
MCArrivals == {DataWord("unit", 1), DataWord("other", 0), ListenWord("unit", 1)}

MCAnswers == {<<>>, <<DataWord("unit", 1)>>}
=============================================================================
