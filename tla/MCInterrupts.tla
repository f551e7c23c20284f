----------------------------- MODULE MCInterrupts -----------------------------
(* Two system levels that nest, a handler of program exceptions and a       *)
(* supervisor; the monitor and the other levels have no handler.            *)
EXTENDS Interrupts

On(c, mask) == [who |-> c, mask |-> mask, wait |-> FALSE, ovf |-> FALSE]
Op(name) == [op |-> name]
Ssm(mask, wait) == [op |-> "ssm", mask |-> mask, wait |-> wait]

(* The supervisor may be interrupted by both levels, level 4 by level 0.    *)
MCNewPsw ==
  [c \in Class |->
     CASE c = 0        -> On(c, {})
       [] c = 4        -> On(c, {0})
       [] c = ProgramX -> On(c, {0})
       [] c = Svc      -> On(c, {0, 4})
       [] OTHER        -> ZeroPsw]

MCRank ==
  [w \in Context |->
     CASE w = Main -> 0 [] w = Svc -> 1 [] w = 4 -> 2 [] w = ProgramX -> 3
       [] w = 0 -> 4 [] OTHER -> 5]

MCProgram ==
  [w \in Context |->
     CASE w = Main     -> {Op("plain"), Op("overflow"), Op("svc"), Op("illegal"),
                           Ssm({0, 4}, FALSE), Ssm({0, 4}, TRUE), Ssm({0, Monitor}, TRUE)}
       [] w = Svc      -> {Op("lps"), Op("fault"), Op("overflow")}
       [] w = ProgramX -> {Op("lps"), Op("clear")}
       [] w = 4        -> {Op("plain"), Op("overflow"), Op("lps")}
       [] OTHER        -> {Op("lps")}]
=============================================================================
