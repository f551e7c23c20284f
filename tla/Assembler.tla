----------------------------- MODULE Assembler ------------------------------
(***************************************************************************)
(* asm.rs: the two-pass assembler of the test programs, from parsed          *)
(* statements on.  The first pass gives every statement its address, which   *)
(* needs its size, and the second one encodes it with the labels known.      *)
(***************************************************************************)
EXTENDS Decode

\* An operand is a number or a label; an address has a base, or is direct.
Num(n) == [label |-> "", n |-> n]
Ref(l) == [label |-> l, n |-> 0]
NoIndex == 8
Based(d, x, b2) == [d |-> d, x |-> x, b2 |-> b2, direct |-> FALSE]
Direct(d) == [d |-> d, x |-> NoIndex, b2 |-> 3, direct |-> TRUE]
NoAddress == Direct(Num(0))

(***************************************************************************)
(* The table: for every mnemonic its form and op code.  sub is the plane of  *)
(* a register form, the fixed R1 of a storage form (Reg when it has a        *)
(* register) or the extension of the op code; a storage form may have a      *)
(* short form, in which the displacement counts halfwords or fullwords.      *)
(***************************************************************************)
Reg == 8
Kind(form, op5, sub) ==
  [form |-> form, op5 |-> op5, sub |-> sub, srs |-> FALSE, second |-> FALSE, scale |-> 1]
Mem(op5, sub, srs, second, scale) ==
  [form |-> "Mem", op5 |-> op5, sub |-> sub, srs |-> srs, second |-> second, scale |-> scale]

ShortFull ==
  { <<"A", 0>>, <<"S", 1>>, <<"C", 2>>, <<"D", 9>>, <<"M", 8>>, <<"L", 3>>, <<"ST", 6>>,
    <<"N", 4>>, <<"O", 5>>, <<"X", 14>> }
ShortHalf == { <<"AH", 16>>, <<"SH", 17>>, <<"CH", 18>>, <<"MH", 21>>, <<"LH", 19>>, <<"LA", 29>>, <<"STH", 23>> }
SecondStorage ==
  { <<"AST", 0>>, <<"SST", 1>>, <<"MIH", 19>>, <<"IHL", 16>>, <<"NST", 4>>, <<"OST", 5>>, <<"XST", 14>> }
LongBranches == { <<"BAL", 28>>, <<"BC", 24>>, <<"BCT", 26>>, <<"BVC", 25>>, <<"BIX", 27>> }
FirstPlane ==
  { <<"AR", 0>>, <<"SR", 1>>, <<"CR", 2>>, <<"LR", 3>>, <<"NR", 4>>, <<"OR", 5>>, <<"XR", 14>>,
    <<"MR", 8>>, <<"DR", 9>>, <<"BALR", 28>>, <<"BCR", 24>>, <<"BCTR", 26>>, <<"BVCR", 25>> }
SecondPlane ==
  { <<"XUL", 0>>, <<"CBL", 1>>, <<"LCR", 29>>, <<"PC", 27>>, <<"NCT", 28>>, <<"SUM", 19>>, <<"BCRE", 24>> }
Entries ==
  { <<p[1], Mem(p[2], Reg, TRUE, FALSE, 2)>> : p \in ShortFull }
  \cup { <<p[1], Mem(p[2], Reg, TRUE, FALSE, 1)>> : p \in ShortHalf }
  \cup { <<p[1], Mem(p[2], Reg, FALSE, TRUE, 1)>> : p \in SecondStorage }
  \cup { <<p[1], Mem(p[2], Reg, FALSE, FALSE, 1)>> : p \in LongBranches }
  \cup { <<"IAL", Mem(28, Reg, TRUE, TRUE, 1)>>, <<"LM", Mem(25, 4, FALSE, TRUE, 2)>>,
         <<"STM", Mem(25, 0, FALSE, TRUE, 2)>>, <<"LFXI", Kind("Lfxi", 23, 0)>> }
  \cup { <<implied_imm[k], Mem(20, k - 1, TRUE, FALSE, 1)>> : k \in 1 .. 4 }
  \cup { <<p[1], Kind("Rr", p[2], 28)>> : p \in FirstPlane }
  \cup { <<p[1], Kind("Rr", p[2], 29)>> : p \in SecondPlane }
  \cup { <<"BCF", Kind("RelBranch", 27, 0)>>, <<"BCB", Kind("RelBranch", 27, 2)>>,
         <<"BCTB", Kind("RelBranch", 27, 3)>>, <<"BVCF", Kind("RelBranch", 25, 1)>> }
  \cup { <<explicit_ri[k], Kind("Ri", 22, k - 1)>> : k \in 1 .. 8 }
  \cup { <<explicit_si[k], Kind("Si", 22, k - 1)>> : k \in 1 .. 7 }
  \cup { <<shifts[k], Kind("Shift", 30 + (k - 1) \div 4, (k - 1) % 4)>> : k \in 1 .. 8 }
table == [mn \in { p[1] : p \in Entries } |-> (CHOOSE p \in Entries : p[1] = mn)[2]]

\* A statement: the operands its kind has no use for are ignored.
Stmt(label, mn, ia, i, r1, addr, r2, imm) ==
  [ label |-> label, mn |-> mn, kind |-> Kind("Data", 0, 0), ia |-> ia, i |-> i,
    r1 |-> r1, addr |-> addr, r2 |-> r2, imm |-> imm ]

\* The kind of its mnemonic: ORG and DC are not in the table.
Parsed(st, optable) ==
  CASE st.mn = "ORG" -> [st EXCEPT !.kind.form = "Org"]
    [] st.mn = "DC" -> st
    [] OTHER -> [st EXCEPT !.kind = optable[st.mn]]

\* Mutant: a displacement between two units counts as the lower one.
FitsShortRounded(st, n) ==
  /\ st.kind.srs /\ ~st.ia /\ ~st.i
  /\ ~st.addr.direct /\ st.addr.d.label = "" /\ st.addr.x = NoIndex
  /\ n >= 0 /\ n \div st.kind.scale <= 55
\* One halfword when the form allows it and a number fits; a label never does.
FitsShort(st, n) ==
  /\ st.kind.srs /\ ~st.ia /\ ~st.i
  /\ ~st.addr.direct /\ st.addr.d.label = "" /\ st.addr.x = NoIndex
  /\ n >= 0 /\ n % st.kind.scale = 0 /\ n \div st.kind.scale <= 55
size_of(st) ==
  CASE st.kind.form = "Org" -> 0
    [] st.kind.form \in {"Si", "Ri"} -> 2
    [] st.kind.form = "Mem" -> IF FitsShort(st, st.addr.d.n) THEN 1 ELSE 2
    [] OTHER -> 1

eval(e, labels) == IF e.label = "" THEN e.n ELSE labels[e.label]

\* The distance of a relative branch, which the sub-op makes one forward or back.
Distance(st, v, addr) == IF st.kind.sub \in {0, 1} THEN v - (addr + 1) ELSE addr + 1 - v

\* An address without index or suffix goes into a halfword of its own, and so
\* does a direct one whatever its suffix.
indexed(st) == ~st.addr.direct /\ (st.addr.x # NoIndex \/ st.ia \/ st.i)

\* The statements that check_range and the forms of their operands let pass,
\* with the values of their displacement and of their other operand.
AnyHalf == -(HW \div 2) .. HW - 1
accepts(st, d, v, addr) ==
  CASE st.kind.form = "Rr" -> TRUE
    [] st.kind.form = "Lfxi" -> v \in -2 .. 13
    [] st.kind.form = "Shift" -> v \in 0 .. 63
    [] st.kind.form = "RelBranch" -> Distance(st, v, addr) \in 0 .. 55
    [] st.kind.form = "Si" ->
         ~st.addr.direct /\ st.addr.x = NoIndex /\ d \in 0 .. 55 /\ v \in AnyHalf
    [] st.kind.form = "Mem" ->
         size_of(st) = 2 => d \in (IF indexed(st) THEN 0 .. 2047 ELSE AnyHalf)
    [] OTHER -> v \in AnyHalf

(***************************************************************************)
(* The halfwords of a statement at an address.                              *)
(***************************************************************************)
First(op5, r1, low) == 2048 * op5 + 256 * r1 + low
LongForm(st, d, base) ==
  IF indexed(st)
  THEN << base + 4,
          8192 * (st.addr.x % NoIndex) + 4096 * Flag(st.ia) + 2048 * Flag(st.i) + d >>
  ELSE << base, Wrap(d) >>
encode(st, d, v, addr) ==
  LET k == st.kind
      r1 == IF k.sub = Reg THEN st.r1 ELSE k.sub
  IN  CASE k.form = "Data" -> <<Wrap(v)>>
        [] k.form = "Org" -> <<>>
        [] k.form = "Rr" -> <<First(k.op5, st.r1, 8 * k.sub + st.r2)>>
        [] k.form = "Lfxi" -> <<First(k.op5, st.r1, 224 + v + 2)>>
        [] k.form = "Shift" -> <<First(k.op5, st.r1, 4 * v + k.sub)>>
        [] k.form = "RelBranch" -> <<First(k.op5, st.r1, 4 * Distance(st, v, addr) + k.sub)>>
        [] k.form = "Si" -> <<First(22, k.sub, 4 * d + st.addr.b2), Wrap(v)>>
        [] k.form = "Ri" -> <<First(22, k.sub, 224 + st.r1), Wrap(v)>>
        [] k.form = "Mem" /\ size_of(st) = 1 ->
             <<First(k.op5, r1, 4 * (d \div k.scale) + st.addr.b2)>>
        [] OTHER -> LongForm(st, d, First(k.op5, r1, (IF k.second THEN 248 ELSE 240) + st.addr.b2))

(***************************************************************************)
(* Both passes.  ORG moves the location; the result is a function from      *)
(* addresses to halfwords.                                                  *)
(***************************************************************************)
Places(stmts) ==
  LET place[k \in 1 .. Len(stmts)] ==
        CASE stmts[k].kind.form = "Org" -> stmts[k].imm.n
          [] stmts[k].kind.form # "Org" /\ k = 1 -> 0
          [] OTHER -> Wrap(place[k - 1] + size_of(stmts[k - 1]))
  IN  place

Labels(stmts, place) ==
  [l \in { stmts[k].label : k \in DOMAIN stmts } \ {""} |->
     place[CHOOSE k \in DOMAIN stmts : stmts[k].label = l]]

SecondPass(stmts, place, labels) ==
  LET Words(st, addr) == encode(st, eval(st.addr.d, labels), eval(st.imm, labels), addr)
      words == [k \in DOMAIN stmts |-> Words(stmts[k], place[k])]
      chunks == UNION { { <<place[k] + j - 1, words[k][j]>> : j \in DOMAIN words[k] } : k \in DOMAIN stmts }
  IN  [a \in { c[1] : c \in chunks } |-> (CHOOSE c \in chunks : c[1] = a)[2]]

Placed(stmts, place) == SecondPass(stmts, place, Labels(stmts, place))
FirstPass(stmts) == Placed(stmts, Places(stmts))
Statements(text) == LET Kinds(optable) == [k \in DOMAIN text |-> Parsed(text[k], optable)] IN Kinds(table)
assemble(text) == FirstPass(Statements(text))
=============================================================================
