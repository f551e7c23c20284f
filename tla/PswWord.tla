------------------------------ MODULE PswWord -------------------------------
(***************************************************************************)
(* The program status word of psw.rs: a record of its fields, and the two   *)
(* fullwords that interrupts, BAL, SCAL and LPS store and load.  The        *)
(* reserved bit 21 is lost by a load and zero in a store.                   *)
(***************************************************************************)
EXTENDS Word

Psw ==
  [ ic : Half, cc : 0 .. 3, carry : BOOLEAN, overflow : BOOLEAN,
    fixed_overflow_mask : BOOLEAN, exp_underflow_mask : BOOLEAN,
    significance_mask : BOOLEAN, bsr : 0 .. 15, dsr : 0 .. 15,
    sys_mask : 0 .. 255, ea_high : 0 .. 15, reg_set : 0 .. 1,
    machine_check_mask : BOOLEAN, wait : BOOLEAN, problem_state : BOOLEAN,
    int_code : Half ]

DefaultPsw ==
  [ ic |-> 0, cc |-> 0, carry |-> FALSE, overflow |-> FALSE,
    fixed_overflow_mask |-> FALSE, exp_underflow_mask |-> FALSE,
    significance_mask |-> FALSE, bsr |-> 0, dsr |-> 0, sys_mask |-> 0,
    ea_high |-> 0, reg_set |-> 0, machine_check_mask |-> FALSE, wait |-> FALSE,
    problem_state |-> FALSE, int_code |-> 0 ]

\* Condition codes: 2 is used by no fixed-point or logical instruction.
ZERO == 0
POS == 1
NEG == 3

word0(p) ==
  << p.ic,
     2^14 * p.cc + 2^13 * Flag(p.carry) + 2^12 * Flag(p.overflow)
       + 2^11 * Flag(p.fixed_overflow_mask) + 2^9 * Flag(p.exp_underflow_mask)
       + 2^8 * Flag(p.significance_mask) + 16 * p.bsr + p.dsr >>

word1(p) ==
  << 2^8 * p.sys_mask + 16 * p.ea_high + 8 * p.reg_set + 4 * Flag(p.machine_check_mask)
       + 2 * Flag(p.wait) + Flag(p.problem_state),
     p.int_code >>

\* The arithmetic half of the status, which SPM loads by itself.
set_indicators(p, h) ==
  [p EXCEPT !.cc = Field(h, 14, 2), !.carry = Bit(h, 13) = 1, !.overflow = Bit(h, 12) = 1,
            !.fixed_overflow_mask = Bit(h, 11) = 1, !.exp_underflow_mask = Bit(h, 9) = 1,
            !.significance_mask = Bit(h, 8) = 1]

\* Mutant: the condition code and the masks are not restored.
set_word0_address(p, w) == [p EXCEPT !.ic = w[1], !.bsr = Field(w[2], 4, 4), !.dsr = Field(w[2], 0, 4)]
set_word0(p, w) ==
  [set_indicators(p, w[2]) EXCEPT !.ic = w[1], !.bsr = Field(w[2], 4, 4), !.dsr = Field(w[2], 0, 4)]

set_word1(p, w) ==
  [p EXCEPT !.sys_mask = Field(w[1], 8, 8), !.ea_high = Field(w[1], 4, 4),
            !.reg_set = Bit(w[1], 3), !.machine_check_mask = Bit(w[1], 2) = 1,
            !.wait = Bit(w[1], 1) = 1, !.problem_state = Bit(w[1], 0) = 1, !.int_code = w[2]]
=============================================================================
