-------------------------- MODULE Interrupts_proofs ---------------------------
(***************************************************************************)
(* Proofs about the interrupt system, for every set of handlers that       *)
(* follows HandlerDiscipline, whatever programs run and whatever is raised.*)
(***************************************************************************)
EXTENDS Interrupts, SequenceTheorems, FiniteSetTheorems, TLAPS

(* The state as the record that the operators of the module pass around.   *)
Saved   == [class : Class, psw : Psw]
Machine == [psw : Psw, old : [Class -> Psw \cup {ZeroPsw}], pending : SUBSET Level,
            trap : BOOLEAN, nest : Seq(Saved)]

(* A context may only be interrupted by a class of higher rank.            *)
Disciplined(p) ==
  /\ \A c \in Level \cup {Monitor} : c \in p.mask => Rank[p.who] < Rank[c]
  /\ p.ovf => Rank[p.who] < Rank[ProgramX]

(* The contexts of the nest, each interrupted by the one above it.         *)
Running(q) == IF q = <<>> THEN Main ELSE q[Len(q)].class

Ascending(q) ==
  /\ \A k \in 1..Len(q) : /\ q[k].class \in Handled
                          /\ Disciplined(q[k].psw)
                          /\ q[k].psw.who = IF k = 1 THEN Main ELSE q[k - 1].class
  /\ \A j, k \in 1..Len(q) : j < k => Rank[q[j].class] < Rank[q[k].class]

(* The inductive invariant, of a machine.  The slots are a stack because   *)
(* the classes in it have increasing rank: none is there twice.            *)
Nests(m) ==
  /\ m \in Machine
  /\ Disciplined(m.psw)
  /\ m.psw.who = Running(m.nest)
  /\ Ascending(m.nest)
  /\ \A k \in 1..Len(m.nest) : m.old[m.nest[k].class] = m.nest[k].psw

-----------------------------------------------------------------------------
(* What the constants say.                                                 *)
LEMMA Contexts ==
  /\ Class \subseteq Context /\ Level \cup {Monitor} \subseteq Class
  /\ ProgramX \in Class /\ Svc \in Class /\ Monitor \in Class /\ IopInt \in Level
  /\ Main \in Context /\ Main \notin Class
  /\ \A w \in Context : Rank[w] \in Nat
  BY HandlerDiscipline DEF Class, Context, Level, Monitor, ProgramX, Svc, Main, IopInt

(* The new PSW of a handled class runs its handler, disciplined.           *)
LEMMA NewPswDisciplined ==
  ASSUME NEW c \in Handled
  PROVE  /\ NewPsw[c] \in Psw /\ NewPsw[c].who = c
         /\ Disciplined(NewPsw[c])
<1>1. c \in Class /\ NewPsw[c] \in Psw /\ NewPsw[c].who = c
  BY HandlerDiscipline DEF Handled
<1>2. NewPsw[c].mask \in Masks(c)
  BY <1>1 DEF Masks
<1>3. QED
  BY <1>1, <1>2, Contexts, HandlerDiscipline DEF Disciplined

(* One more interrupted context on a nest, and one less.                   *)
LEMMA AscendingAppend ==
  ASSUME NEW q \in Seq(Saved), Ascending(q), NEW s \in Saved,
         s.class \in Handled, Disciplined(s.psw), s.psw.who = Running(q),
         q # <<>> => Rank[Running(q)] < Rank[s.class]
  PROVE  /\ Ascending(Append(q, s))
         /\ \A k \in 1..Len(q) : q[k].class # s.class
<1> DEFINE n == Append(q, s)
           l == Len(q)
<1>1. /\ l \in Nat /\ Len(n) = l + 1 /\ n[l + 1] = s
      /\ \A k \in 1..l : n[k] = q[k] /\ q[k] \in Saved /\ Rank[q[k].class] \in Nat
  <2>1. /\ l \in Nat /\ Len(n) = l + 1 /\ n[l + 1] = s
        /\ \A k \in 1..l : n[k] = q[k]
    BY AppendProperties, LenProperties
  <2>2. \A k \in 1..l : q[k] \in Saved
    BY ElementOfSeq
  <2>3. \A x \in Saved : Rank[x.class] \in Nat
    BY Contexts DEF Saved
  <2>4. QED
    BY <2>1, <2>2, <2>3
<1> HIDE DEF n
<1>2. q = <<>> <=> l = 0
  BY EmptySeq
<1>3. \A k \in 1..l : Rank[q[k].class] < Rank[s.class]
  <2> TAKE k \in 1..l
  <2>1. q # <<>> /\ l \in 1..l
    BY <1>1, <1>2
  <2>2. Rank[q[l].class] < Rank[s.class]
    BY <2>1 DEF Running
  <2>3. k = l \/ Rank[q[k].class] < Rank[q[l].class]
    BY <1>1, <2>1 DEF Ascending
  <2>4. Rank[s.class] \in Nat
    BY Contexts DEF Saved
  <2>5. QED
    BY <1>1, <2>1, <2>2, <2>3, <2>4
<1>4. ASSUME NEW k \in 1..(l + 1)
      PROVE  /\ n[k].class \in Handled
             /\ Disciplined(n[k].psw)
             /\ n[k].psw.who = IF k = 1 THEN Main ELSE n[k - 1].class
  <2>1. CASE k \in 1..l
    <3>1. k # 1 => k - 1 \in 1..l
      BY <1>1, <2>1
    <3>2. n[k] = q[k] /\ (k # 1 => n[k - 1] = q[k - 1])
      BY <1>1, <2>1, <3>1
    <3>3. QED
      BY <2>1, <3>2 DEF Ascending
  <2>2. CASE k = l + 1
    <3>1. k # 1 => k - 1 = l /\ l \in 1..l /\ n[k - 1] = q[l]
      BY <1>1, <2>2
    <3>2. n[k] = s /\ (k = 1 <=> q = <<>>)
      BY <1>1, <1>2, <2>2
    <3>3. QED
      BY <3>1, <3>2 DEF Running
  <2>3. QED
    BY <1>1, <2>1, <2>2
<1>5. ASSUME NEW j \in 1..(l + 1), NEW k \in 1..(l + 1), j < k
      PROVE  Rank[n[j].class] < Rank[n[k].class]
  <2>1. j \in 1..l /\ n[j] = q[j]
    BY <1>1, <1>5
  <2>2. CASE k \in 1..l
    BY <1>1, <1>5, <2>1, <2>2 DEF Ascending
  <2>3. CASE k = l + 1
    BY <1>1, <1>3, <2>1, <2>3
  <2>4. QED
    BY <1>1, <2>2, <2>3
<1>6. Ascending(n)
  BY <1>1, <1>4, <1>5 DEF Ascending
<1>7. \A k \in 1..l : q[k].class # s.class
  BY <1>1, <1>3
<1>8. QED
  BY <1>6, <1>7 DEF n

(* A swap into a class of higher rank keeps the nest.                      *)
LEMMA SwapNests ==
  ASSUME NEW m, Nests(m), NEW c \in Class, Rank[m.psw.who] < Rank[c]
  PROVE  Nests(psw_swap(m, c))
<1> DEFINE n == psw_swap(m, c)
           s == [class |-> c, psw |-> m.psw]
<1>1. CASE m.trap
  BY <1>1 DEF psw_swap
<1>2. CASE ~ m.trap /\ NewPsw[c] = ZeroPsw
  BY <1>2 DEF psw_swap, Nests, Machine
<1>3. CASE ~ m.trap /\ NewPsw[c] # ZeroPsw
  <2>1. /\ c \in Handled /\ NewPsw[c] \in Psw /\ NewPsw[c].who = c /\ Disciplined(NewPsw[c])
        /\ m.psw \in Psw /\ m.nest \in Seq(Saved) /\ s \in Saved
        /\ s.class = c /\ s.psw = m.psw
    BY <1>3, NewPswDisciplined DEF Handled, Nests, Machine, Saved
  <2>2. /\ n.psw = NewPsw[c] /\ n.old = [m.old EXCEPT ![c] = m.psw]
        /\ n.nest = Append(m.nest, s) /\ n.trap = m.trap /\ n.pending = m.pending
        /\ n \in Machine
    <3>1. n = [m EXCEPT !.old = [m.old EXCEPT ![c] = m.psw], !.psw = NewPsw[c],
                        !.nest = Append(m.nest, s)]
      BY <1>3 DEF psw_swap
    <3>2. /\ Append(m.nest, s) \in Seq(Saved)
          /\ [m.old EXCEPT ![c] = m.psw] \in [Class -> Psw \cup {ZeroPsw}]
          /\ m \in Machine
      BY <2>1, AppendProperties DEF Nests, Machine
    <3> HIDE DEF n, s
    <3>3. QED
      BY <2>1, <3>1, <3>2 DEF Machine
  <2> HIDE DEF n, s
  <2>3. /\ Len(n.nest) = Len(m.nest) + 1 /\ Len(m.nest) \in Nat /\ n.nest # <<>>
        /\ \A k \in 1..Len(m.nest) : n.nest[k] = m.nest[k] /\ m.nest[k] \in Saved
        /\ n.nest[Len(m.nest) + 1] = s
    BY <2>1, <2>2, AppendProperties, ElementOfSeq, LenProperties
  <2>4. n.psw.who = Running(n.nest)
    BY <2>1, <2>2, <2>3 DEF Running
  <2>5. Ascending(n.nest) /\ \A k \in 1..Len(m.nest) : m.nest[k].class # c
    BY <2>1, <2>2, AscendingAppend DEF Nests
  <2>6. ASSUME NEW k \in 1..Len(n.nest)
        PROVE  n.old[n.nest[k].class] = n.nest[k].psw
    <3>1. CASE k \in 1..Len(m.nest)
      <4>1. m.nest[k].class \in Class /\ m.nest[k].class # c /\ m.old \in [Class -> Psw \cup {ZeroPsw}]
        BY <2>3, <2>5, <3>1 DEF Saved, Nests, Machine
      <4>2. n.old[m.nest[k].class] = m.old[m.nest[k].class]
        BY <2>2, <4>1
      <4>3. QED
        BY <2>3, <3>1, <4>2 DEF Nests
    <3>2. CASE k = Len(m.nest) + 1
      BY <2>1, <2>2, <2>3, <3>2 DEF Nests, Machine
    <3>3. QED
      BY <2>3, <3>1, <3>2
  <2>7. Nests(n)
    BY <2>1, <2>2, <2>4, <2>5, <2>6 DEF Nests
  <2>8. QED
    BY <2>7 DEF n
<1>4. QED
  BY <1>1, <1>2, <1>3 DEF Nests, Machine

-----------------------------------------------------------------------------
(* Taking system levels.                                                   *)

(* A level that pends and is not masked outranks the context it interrupts.*)
LEMMA TakeNests ==
  ASSUME NEW m, Nests(m), NEW l \in Level
  PROVE  Nests(Take(m, l))
<1>1. CASE ~ m.trap /\ l \in m.pending /\ l \in m.psw.mask
  <2> DEFINE c == [m EXCEPT !.pending = @ \ {l}]
  <2>1. /\ c.psw = m.psw /\ c.old = m.old /\ c.nest = m.nest /\ c \in Machine
    BY DEF Nests, Machine
  <2>2. Nests(c)
    BY <2>1 DEF Nests
  <2>3. Rank[c.psw.who] < Rank[l]
    BY <1>1, <2>1, <2>2 DEF Nests, Disciplined
  <2>4. l \in Class
    BY Contexts
  <2>5. Nests(psw_swap(c, l))
    BY <2>2, <2>3, <2>4, SwapNests
  <2>6. QED
    BY <1>1, <2>5 DEF Take
<1>2. QED
  BY <1>1 DEF Take

LEMMA DeliverNests ==
  ASSUME NEW M, \A m \in M : Nests(m)
  PROVE  \A m \in deliver_system_interrupts(M) : Nests(m)
<1>1. ASSUME NEW S, NEW l \in Level, \A m \in S : Nests(m)
      PROVE  \A m \in TakeIn(S, l) : Nests(m)
  BY <1>1, TakeNests DEF TakeIn
<1>2. 0 \in Level /\ 1 \in Level /\ 2 \in Level /\ 3 \in Level /\ 4 \in Level
        /\ 5 \in Level /\ 6 \in Level
  BY DEF Level
<1> DEFINE M0 == TakeIn(M, 0)
           M1 == TakeIn(M0, 1)
           M2 == TakeIn(M1, 2)
           M3 == TakeIn(M2, 3)
           M4 == TakeIn(M3, 4)
           M5 == TakeIn(M4, 5)
<1>3. \A m \in M0 : Nests(m)
  BY <1>1, <1>2
<1>4. \A m \in M1 : Nests(m)
  BY <1>1, <1>2, <1>3
<1>5. \A m \in M2 : Nests(m)
  BY <1>1, <1>2, <1>4
<1>6. \A m \in M3 : Nests(m)
  BY <1>1, <1>2, <1>5
<1>7. \A m \in M4 : Nests(m)
  BY <1>1, <1>2, <1>6
<1>8. \A m \in M5 : Nests(m)
  BY <1>1, <1>2, <1>7
<1>9. \A m \in TakeIn(M5, 6) : Nests(m)
  BY <1>1, <1>2, <1>8
<1>10. QED
  BY <1>9 DEF deliver_system_interrupts

LEMMA EndopNests ==
  ASSUME NEW m, Nests(m)
  PROVE  \A n \in Endop({m}) : Nests(n)
<1> DEFINE c == IF m.psw.ovf THEN psw_swap(m, ProgramX) ELSE m
<1>1. Nests(c)
  BY SwapNests, Contexts DEF Nests, Disciplined
<1>2. Endop({m}) = deliver_system_interrupts({c})
  BY DEF Endop
<1>3. QED
  BY <1>1, <1>2, DeliverNests

-----------------------------------------------------------------------------
(* Instructions.                                                           *)

(* A handler's context is on the nest, and its slot holds the context it   *)
(* interrupted.                                                            *)
LEMMA HandlerOnTop ==
  ASSUME NEW m, Nests(m), m.psw.who # Main
  PROVE  /\ Len(m.nest) \in 1..Len(m.nest)
         /\ m.psw.who = m.nest[Len(m.nest)].class
         /\ m.old[m.psw.who] = m.nest[Len(m.nest)].psw
         /\ \A k \in 1..Len(m.nest) : m.nest[k] \in Saved
<1>1. m.nest \in Seq(Saved)
  BY DEF Nests, Machine
<1>2. m.nest # <<>> /\ m.psw.who = m.nest[Len(m.nest)].class
  BY DEF Nests, Running
<1>3. Len(m.nest) \in 1..Len(m.nest) /\ \A k \in 1..Len(m.nest) : m.nest[k] \in Saved
  BY <1>1, <1>2, EmptySeq, ElementOfSeq
<1>4. QED
  BY <1>2, <1>3 DEF Nests

(* LPS in a handler: the context below comes back.                         *)
LEMMA ReturnNests ==
  ASSUME NEW m, Nests(m), m.psw.who # Main
  PROVE  Nests([m EXCEPT !.psw = m.old[m.psw.who], !.nest = SubSeq(@, 1, Len(@) - 1)])
<1> DEFINE l == Len(m.nest)
           q == SubSeq(m.nest, 1, l - 1)
           top == m.nest[l]
           n == [m EXCEPT !.psw = m.old[m.psw.who], !.nest = SubSeq(@, 1, Len(@) - 1)]
<1>1. /\ l \in 1..l /\ l \in Nat /\ m.old[m.psw.who] = top.psw
      /\ \A k \in 1..l : m.nest[k] \in Saved
  BY HandlerOnTop, LenProperties DEF Nests, Machine
<1>2. /\ q \in Seq(Saved) /\ Len(q) = l - 1
      /\ \A k \in 1..(l - 1) : q[k] = m.nest[k]
  BY <1>1, SubSeqProperties
<1>3. n.psw = top.psw /\ n.nest = q /\ n.old = m.old /\ n \in Machine
  <2>1. top.psw \in Psw
    BY <1>1 DEF Saved
  <2>2. QED
    BY <1>1, <1>2, <2>1 DEF Nests, Machine
<1> HIDE DEF n, q, l, top
<1>4. /\ Disciplined(top.psw)
      /\ top.psw.who = IF l = 1 THEN Main ELSE m.nest[l - 1].class
  BY <1>1 DEF Nests, Ascending, l, top
<1>5. top.psw.who = Running(q)
  <2>1. q = <<>> <=> l = 1
    BY <1>1, <1>2, EmptySeq
  <2>2. l # 1 => q[l - 1] = m.nest[l - 1]
    BY <1>1, <1>2
  <2>3. QED
    BY <1>2, <1>4, <2>1, <2>2 DEF Running
<1>6. Ascending(q)
  <2>1. \A k \in 1..Len(q) : k \in 1..l /\ q[k] = m.nest[k] /\ (k # 1 => q[k - 1] = m.nest[k - 1])
    BY <1>1, <1>2
  <2>2. QED
    BY <2>1 DEF Nests, Ascending, l
<1>7. \A k \in 1..Len(q) : n.old[q[k].class] = q[k].psw
  <2>1. \A k \in 1..Len(q) : k \in 1..l
    BY <1>1, <1>2
  <2>2. QED
    BY <1>2, <1>3, <2>1 DEF Nests, l
<1>8. Nests(n)
  BY <1>3, <1>4, <1>5, <1>6, <1>7 DEF Nests
<1>9. QED
  BY <1>8 DEF n

(* A handler clears the overflow indicator of the context it returns to:   *)
(* in its slot and on the nest.                                            *)
LEMMA ClearNests ==
  ASSUME NEW m, Nests(m), m.psw.who # Main
  PROVE  Nests([m EXCEPT !.old[m.psw.who].ovf = FALSE, !.nest[Len(m.nest)].psw.ovf = FALSE])
<1> DEFINE w == m.psw.who
           l == Len(m.nest)
           s == m.nest[l]
           p == [s.psw EXCEPT !.ovf = FALSE]
           t == [s EXCEPT !.psw = p]
           q == [m.nest EXCEPT ![l] = t]
           o == [m.old EXCEPT ![w] = p]
           n == [m EXCEPT !.old[m.psw.who].ovf = FALSE, !.nest[Len(m.nest)].psw.ovf = FALSE]
<1>1. /\ l \in 1..l /\ l \in Nat /\ w = s.class /\ m.old[w] = s.psw /\ s \in Saved
      /\ m.nest \in Seq(Saved) /\ m.old \in [Class -> Psw \cup {ZeroPsw}] /\ m \in Machine
      /\ \A k \in 1..l : m.nest[k] \in Saved
  BY HandlerOnTop, LenProperties DEF Nests, Machine
<1>2. /\ p \in Psw /\ p.who = s.psw.who /\ p.mask = s.psw.mask /\ p.ovf = FALSE
      /\ t \in Saved /\ t.class = w /\ t.psw = p /\ w \in Class
  BY <1>1 DEF Saved, Psw
<1>3. n = [m EXCEPT !.old = o, !.nest = q]
  BY <1>1
<1> HIDE DEF t, p, n
<1>4. /\ q \in Seq(Saved) /\ Len(q) = l
      /\ \A k \in 1..l : q[k] = IF k = l THEN t ELSE m.nest[k]
  BY <1>1, <1>2, ExceptSeq
<1>5. /\ o \in [Class -> Psw \cup {ZeroPsw}] /\ o[w] = p
      /\ \A c \in Class : c # w => o[c] = m.old[c]
  BY <1>1, <1>2
<1> HIDE DEF q, o, s
<1>6. n \in Machine /\ n.old = o /\ n.nest = q /\ n.psw = m.psw
  BY <1>1, <1>3, <1>4, <1>5 DEF Machine
<1>7. \A k \in 1..l : /\ q[k] \in Saved /\ q[k].class = m.nest[k].class
                      /\ q[k].psw.who = m.nest[k].psw.who
                      /\ Disciplined(m.nest[k].psw) => Disciplined(q[k].psw)
  BY <1>1, <1>2, <1>4 DEF Disciplined, s
<1> HIDE DEF l
<1>8. Ascending(q)
  <2>1. \A k \in 1..l : k # 1 => k - 1 \in 1..l
    BY <1>1
  <2>2. ASSUME NEW k \in 1..l
        PROVE  /\ q[k].class \in Handled
               /\ Disciplined(q[k].psw)
               /\ q[k].psw.who = IF k = 1 THEN Main ELSE q[k - 1].class
    BY <1>7, <2>1 DEF Nests, Ascending, l
  <2>3. \A j, k \in 1..l : j < k => Rank[q[j].class] < Rank[q[k].class]
    BY <1>7 DEF Nests, Ascending, l
  <2>4. QED
    BY <1>4, <2>2, <2>3 DEF Ascending
<1>9. m.psw.who = Running(q)
  <2>1. q # <<>>
    BY <1>1, <1>4, EmptySeq
  <2>2. q[l].class = s.class
    BY <1>1, <1>7 DEF s
  <2>3. QED
    BY <1>1, <1>4, <2>1, <2>2 DEF Running
<1>10. ASSUME NEW k \in 1..l
       PROVE  o[q[k].class] = q[k].psw
  <2>1. CASE k = l
    BY <1>1, <1>2, <1>4, <1>5, <2>1
  <2>2. CASE k # l
    <3>1. Rank[m.nest[k].class] < Rank[m.nest[l].class] /\ Rank[w] \in Nat
      BY <1>1, <1>2, <2>2, Contexts DEF Nests, Ascending, l
    <3>2. m.nest[k].class # w /\ m.nest[k].class \in Class
      BY <1>1, <3>1 DEF Saved, s
    <3>3. m.old[m.nest[k].class] = m.nest[k].psw
      BY DEF Nests, l
    <3>4. QED
      BY <1>4, <1>5, <2>2, <3>2, <3>3
  <2>3. QED
    BY <2>1, <2>2
<1>11. Nests(n)
  BY <1>4, <1>6, <1>8, <1>9, <1>10 DEF Nests
<1>12. QED
  BY <1>11 DEF n

LEMMA ExecNests ==
  ASSUME NEW m, Nests(m), NEW i \in Program[m.psw.who], i.op # "illegal"
  PROVE  Nests(Exec(m, i))
<1> DEFINE w == m.psw.who
<1>1. m \in Machine /\ m.psw \in Psw /\ w \in Context
  BY DEF Nests, Machine, Psw
<1>2. i \in Instr
  BY <1>1, HandlerDiscipline
<1>3. i.op \in {"plain", "overflow", "fault", "illegal", "svc", "ssm", "lps", "clear"}
  BY <1>2 DEF Instr
<1>4. CASE i.op = "plain"
  BY <1>4 DEF Exec
<1>5. CASE i.op = "overflow"
  <2> DEFINE n == [m EXCEPT !.psw.ovf = TRUE]
  <2>1. Rank[w] < Rank[ProgramX]
    BY <1>1, <1>5, HandlerDiscipline
  <2>2. /\ n \in Machine /\ n.nest = m.nest /\ n.old = m.old
        /\ n.psw.who = w /\ n.psw.mask = m.psw.mask
    BY <1>1 DEF Machine, Psw
  <2>3. Nests(n)
    BY <2>1, <2>2 DEF Nests, Disciplined
  <2>4. QED
    BY <1>5, <2>3 DEF Exec
<1>6. CASE i.op = "fault"
  BY <1>1, <1>6, SwapNests, Contexts, HandlerDiscipline DEF Exec
<1>7. CASE i.op = "svc"
  BY <1>1, <1>7, SwapNests, Contexts, HandlerDiscipline DEF Exec
<1>8. CASE i.op = "ssm"
  <2> DEFINE n == [m EXCEPT !.psw.mask = i.mask, !.psw.wait = i.wait]
  <2>1. i.mask \in SUBSET (Level \cup {Monitor}) /\ i.wait \in BOOLEAN
    BY <1>2, <1>8 DEF Instr
  <2>2. /\ n \in Machine /\ n.nest = m.nest /\ n.old = m.old
        /\ n.psw.who = w /\ n.psw.mask = i.mask /\ n.psw.ovf = m.psw.ovf
    BY <1>1, <2>1 DEF Machine, Psw
  <2>3. i.mask \in Masks(w)
    BY <1>8 DEF Masks
  <2>4. Disciplined(n.psw)
    BY <1>1, <2>2, <2>3, HandlerDiscipline DEF Nests, Disciplined
  <2>5. Nests(n)
    BY <2>2, <2>4 DEF Nests
  <2>6. QED
    BY <1>8, <2>5 DEF Exec
<1>9. CASE i.op = "lps"
  <2>1. w # Main
    BY <1>1, <1>9, HandlerDiscipline
  <2>2. QED
    BY <1>9, <2>1, ReturnNests DEF Exec
<1>10. CASE i.op = "clear"
  <2>1. w # Main
    BY <1>1, <1>10, HandlerDiscipline
  <2>2. QED
    BY <1>10, <2>1, ClearNests DEF Exec
<1>11. QED
  BY <1>3, <1>4, <1>5, <1>6, <1>7, <1>8, <1>9, <1>10

LEMMA StepNests ==
  ASSUME NEW m, Nests(m)
  PROVE  \A n \in Step(m) : Nests(n)
<1> DEFINE w == m.psw.who
<1>1. w \in Context
  BY DEF Nests, Machine, Psw
<1>2. \A n \in Monitored(m) : Nests(n)
  BY SwapNests, Contexts DEF Monitored, Nests, Disciplined
<1>3. ASSUME NEW i \in Program[w], i.op = "illegal"
      PROVE  Nests(psw_swap(m, ProgramX))
  BY <1>1, <1>3, SwapNests, Contexts, HandlerDiscipline
<1>4. ASSUME NEW i \in Program[w], i.op # "illegal"
      PROVE  \A n \in Endop({Exec(m, i)}) : Nests(n)
  BY <1>4, ExecNests, EndopNests
<1>5. QED
  BY <1>2, <1>3, <1>4 DEF Step

-----------------------------------------------------------------------------
(* The state machine.                                                      *)

LEMMA MachineFields ==
  /\ machine.psw = psw /\ machine.old = old /\ machine.pending = pending
  /\ machine.trap = trap /\ machine.nest = nest
  BY DEF machine

LEMMA BecomesMachine ==
  ASSUME NEW m \in Machine, Becomes(m)
  PROVE  machine' = m
  BY DEF Becomes, machine, Machine

(* What the turns of the hosts lead to, from a machine that nests.         *)
LEMMA HostSteps ==
  ASSUME Nests(machine), RunLoop \/ GpcStep
  PROVE  \E m : Nests(m) /\ Becomes(m)
<1>1. CASE RunLoop
  <2>1. \A w \in Woken : Nests(w)
    BY DeliverNests DEF Woken
  <2>2. QED
    BY <1>1, <2>1, StepNests DEF RunLoop
<1>2. CASE GpcStep
  <2>1. PICK c : Nests(c) /\ \E m \in IopSlice(c) : Becomes(m)
    BY <1>2, StepNests DEF GpcStep
  <2>2. ASSUME NEW m \in IopSlice(c)
        PROVE  Nests(m)
    <3> DEFINE r == [c EXCEPT !.pending = @ \cup {IopInt}]
    <3>1. /\ r \in Machine /\ r.psw = c.psw /\ r.old = c.old /\ r.nest = c.nest
      BY <2>1, Contexts DEF Nests, Machine
    <3>2. Nests(r)
      BY <2>1, <3>1 DEF Nests
    <3>3. QED
      BY <2>1, <3>2 DEF IopSlice
  <2>3. QED
    BY <2>1, <2>2
<1>3. QED
  BY <1>1, <1>2

LEMMA NestsInductive ==
  /\ Init => Nests(machine)
  /\ Nests(machine) /\ [Next]_vars => Nests(machine)'
<1>1. ASSUME Init
      PROVE  Nests(machine)
  <2>1. machine = [psw |-> psw, old |-> old, pending |-> {}, trap |-> FALSE, nest |-> <<>>]
    BY <1>1 DEF Init, machine
  <2>2. psw \in Psw /\ psw.who = Main /\ psw.mask = {} /\ psw.ovf = FALSE
    BY <1>1, Contexts DEF Init, Psw
  <2>3. old \in [Class -> Psw \cup {ZeroPsw}] /\ <<>> \in Seq(Saved) /\ Len(<<>>) = 0
    BY <1>1, EmptySeq DEF Init
  <2>4. Ascending(<<>>) /\ Running(<<>>) = Main
    BY <2>3 DEF Ascending, Running
  <2>5. machine \in Machine /\ Disciplined(psw)
    BY <2>1, <2>2, <2>3 DEF Machine, Disciplined
  <2>6. QED
    BY <2>1, <2>2, <2>3, <2>4, <2>5, MachineFields DEF Nests
<1>2. ASSUME Nests(machine), [Next]_vars
      PROVE  Nests(machine)'
  <2>1. CASE RunLoop \/ GpcStep
    <3>1. PICK m : Nests(m) /\ Becomes(m)
      BY <1>2, <2>1, HostSteps
    <3>2. machine' = m
      BY <3>1, BecomesMachine DEF Nests
    <3>3. Nests(machine')
      BY <3>1, <3>2
    <3>4. QED
      BY <3>3 DEF Nests, machine
  <2>2. ASSUME NEW l \in Raisable, Raise(l)
        PROVE  Nests(machine)'
    <3>1. l \in Level
      BY HandlerDiscipline
    <3>2. machine' = [machine EXCEPT !.pending = @ \cup {l}]
      BY <2>2 DEF Raise, machine
    <3>3. /\ machine' \in Machine /\ machine'.psw = machine.psw
          /\ machine'.old = machine.old /\ machine'.nest = machine.nest
      BY <1>2, <3>1, <3>2 DEF Nests, Machine
    <3>4. Nests(machine')
      BY <1>2, <3>3 DEF Nests
    <3>5. QED
      BY <3>4 DEF Nests, machine
  <2>3. CASE UNCHANGED vars
    BY <1>2, <2>3 DEF vars, machine, Nests
  <2>4. QED
    BY <1>2, <2>1, <2>2, <2>3 DEF Next
<1>3. QED
  BY <1>1, <1>2

(* Never more contexts than handlers: their classes are distinct.          *)
LEMMA DepthBounded ==
  ASSUME NEW q \in Seq(Saved), Ascending(q)
  PROVE  Len(q) <= Cardinality(Handled)
<1> DEFINE f == [k \in 1..Len(q) |-> q[k].class]
<1>1. Len(q) \in Nat /\ \A k \in 1..Len(q) : Rank[q[k].class] \in Nat
  <2>1. \A k \in 1..Len(q) : q[k] \in Saved
    BY ElementOfSeq
  <2>2. \A x \in Saved : Rank[x.class] \in Nat
    BY Contexts DEF Saved
  <2>3. QED
    BY <2>1, <2>2, LenProperties
<1>2. f \in [1..Len(q) -> Handled]
  BY DEF Ascending
<1>3. \A j, k \in 1..Len(q) : f[j] = f[k] => j = k
  BY <1>1 DEF Ascending
<1>4. f \in Injection(1..Len(q), Handled)
  BY <1>2, <1>3 DEF Injection, IsInjective
<1>5. IsFiniteSet(Handled)
  <2>1. IsFiniteSet(0..9)
    <3>1. 0 \in Int /\ 9 \in Int
      OBVIOUS
    <3>2. QED
      BY <3>1, FS_Interval, Zenon
  <2>2. QED
    BY <2>1, FS_Subset DEF Handled, Class
<1>6. Cardinality(1..Len(q)) <= Cardinality(Handled)
  BY <1>4, <1>5, FS_Injection
<1>7. Cardinality(1..Len(q)) = Len(q)
  <2>1. /\ 1 \in Int /\ Len(q) \in Int
        /\ (IF 1 > Len(q) THEN 0 ELSE Len(q) - 1 + 1) = Len(q)
    BY <1>1
  <2>2. Cardinality(1..Len(q)) = IF 1 > Len(q) THEN 0 ELSE Len(q) - 1 + 1
    BY <2>1, FS_Interval, Zenon
  <2>3. QED
    BY <2>1, <2>2
<1>8. QED
  BY <1>6, <1>7

(* Type correctness, with the depth of the nest.                           *)
THEOREM TypeCorrect == Spec => []TypeOK
<1>1. Nests(machine) => TypeOK
  BY MachineFields, DepthBounded DEF Nests, Machine, Saved, TypeOK
<1>2. QED
  BY <1>1, NestsInductive, PTL DEF Spec

(* Every interrupted context is intact in its slot, however deep the nest  *)
(* (cpu.rs, psw_swap and LPS), for all handlers that follow the discipline.*)
THEOREM ContextsIntact == Spec => []SavedContextsIntact
<1>1. Nests(machine) => SavedContextsIntact
  BY MachineFields DEF Nests, Running, SavedContextsIntact
<1>2. QED
  BY <1>1, NestsInductive, PTL DEF Spec

-----------------------------------------------------------------------------
(* No pending level is lost.                                               *)

(* The context that level l interrupted is on the nest, or runs again.     *)
Held(m, l)  == \E k \in 1..Len(m.nest) : m.nest[k].class = l
Kept(m, l)  == m.old[l] = m.psw \/ Held(m, l)

(* So the property has it: what slot l holds is to be returned to, or runs.*)
Back(m, l) == m.old[l] \in {m.psw} \cup {m.nest[k].psw : k \in 1..Len(m.nest)}

LEMMA KeptIsBack ==
  ASSUME NEW m, Nests(m), NEW l, Kept(m, l)
  PROVE  Back(m, l)
  BY DEF Nests, Kept, Held, Back

(* From m to n a level stops pending only by being taken.                  *)
Takes(m, n) == \A l \in m.pending \ n.pending : n.trap \/ Held(n, l)

LEMMA SwapTakes ==
  ASSUME NEW m, Nests(m), NEW c \in Class
  PROVE  LET n == psw_swap(m, c)
         IN  /\ n.pending = m.pending
             /\ n.trap \/ Held(n, c)
             /\ m.trap => n.trap
             /\ \A l : Held(m, l) => Held(n, l)
             /\ \A l \in Class : Back(m, l) => Back(n, l)
<1> DEFINE n == psw_swap(m, c)
           s == [class |-> c, psw |-> m.psw]
<1>1. m \in Machine /\ m.nest \in Seq(Saved) /\ s \in Saved
  BY DEF Nests, Machine, Saved
<1>2. CASE m.trap
  BY <1>2 DEF psw_swap
<1>3. CASE ~ m.trap /\ NewPsw[c] = ZeroPsw
  BY <1>1, <1>3 DEF psw_swap, Held, Back, Machine
<1>4. CASE ~ m.trap /\ NewPsw[c] # ZeroPsw
  <2>1. /\ n.nest = Append(m.nest, s) /\ n.trap = m.trap /\ n.pending = m.pending
        /\ n.old = [m.old EXCEPT ![c] = m.psw] /\ m.old \in [Class -> Psw \cup {ZeroPsw}]
    BY <1>1, <1>4 DEF psw_swap, Machine
  <2> HIDE DEF n
  <2>2. /\ Len(m.nest) \in Nat /\ Len(n.nest) = Len(m.nest) + 1
        /\ n.nest[Len(m.nest) + 1] = s
        /\ \A k \in 1..Len(m.nest) : n.nest[k] = m.nest[k] /\ k \in 1..Len(n.nest)
    BY <1>1, <2>1, AppendProperties, LenProperties
  <2>3. Len(m.nest) + 1 \in 1..Len(n.nest) /\ s.class = c
    BY <2>2
  <2>4. Held(n, c) /\ \A l : Held(m, l) => Held(n, l)
    BY <2>2, <2>3 DEF Held
  <2>5. ASSUME NEW l \in Class, Back(m, l)
        PROVE  Back(n, l)
    <3>1. \E k \in 1..Len(n.nest) : n.nest[k].psw = m.psw
      BY <2>2, <2>3
    <3>2. CASE l = c \/ m.old[l] = m.psw
      BY <2>1, <3>1, <3>2 DEF Back
    <3>3. CASE l # c /\ m.old[l] # m.psw
      <4>1. PICK k \in 1..Len(m.nest) : m.nest[k].psw = m.old[l]
        BY <2>5, <3>3 DEF Back
      <4>2. n.old[l] = m.old[l] /\ n.nest[k].psw = m.old[l] /\ k \in 1..Len(n.nest)
        BY <2>1, <2>2, <3>3, <4>1
      <4>3. QED
        BY <4>2 DEF Back
    <3>4. QED
      BY <3>2, <3>3
  <2>6. QED
    BY <1>4, <2>1, <2>4, <2>5 DEF n
<1>5. QED
  BY <1>2, <1>3, <1>4

(* Whatever was held or trapped stays so while levels are taken.           *)
Upholds(m, n) ==
  /\ Nests(n) /\ n.pending \subseteq m.pending
  /\ Takes(m, n)
  /\ m.trap => n.trap
  /\ \A l : Held(m, l) => Held(n, l)
  /\ \A l \in Class : Back(m, l) => Back(n, l)

LEMMA UpholdsTransitive ==
  ASSUME NEW a, NEW b, NEW c, Upholds(a, b), Upholds(b, c)
  PROVE  Upholds(a, c)
  BY DEF Upholds, Takes

LEMMA TakeUpholds ==
  ASSUME NEW m, Nests(m), NEW l \in Level
  PROVE  Upholds(m, Take(m, l))
<1>1. Nests(Take(m, l))
  BY TakeNests
<1>2. CASE ~ m.trap /\ l \in m.pending /\ l \in m.psw.mask
  <2> DEFINE c == [m EXCEPT !.pending = @ \ {l}]
             n == psw_swap(c, l)
  <2>1. /\ c.psw = m.psw /\ c.old = m.old /\ c.nest = m.nest /\ c \in Machine
        /\ c.pending = m.pending \ {l} /\ c.trap = m.trap
    BY DEF Nests, Machine
  <2>2. Nests(c)
    BY <2>1 DEF Nests
  <2>3. /\ n.pending = m.pending \ {l} /\ (n.trap \/ Held(n, l))
        /\ \A k : Held(c, k) => Held(n, k)
        /\ \A k \in Class : Back(c, k) => Back(n, k)
    BY <2>1, <2>2, SwapTakes, Contexts
  <2>4. \A k : (Held(m, k) => Held(c, k)) /\ (Back(m, k) => Back(c, k))
    BY <2>1 DEF Held, Back
  <2>5. n = Take(m, l)
    BY <1>2 DEF Take
  <2> HIDE DEF n, c
  <2>6. Upholds(m, n)
    BY <1>1, <1>2, <2>3, <2>4, <2>5 DEF Upholds, Takes
  <2>7. QED
    BY <2>5, <2>6
<1>3. CASE Take(m, l) = m
  BY <1>3 DEF Upholds, Takes
<1>4. QED
  BY <1>2, <1>3 DEF Take

LEMMA DeliverUpholds ==
  ASSUME NEW m, Nests(m)
  PROVE  \A n \in deliver_system_interrupts({m}) : Upholds(m, n)
<1> DEFINE After(S) == \A n \in S : Upholds(m, n)
<1>1. ASSUME NEW S, NEW l \in Level, After(S)
      PROVE  After(TakeIn(S, l))
  <2> SUFFICES ASSUME NEW x \in S
               PROVE  Upholds(m, Take(x, l))
    BY DEF TakeIn
  <2>1. Upholds(m, x) /\ Nests(x)
    BY <1>1 DEF Upholds
  <2>2. QED
    BY <2>1, TakeUpholds, UpholdsTransitive
<1>2. 0 \in Level /\ 1 \in Level /\ 2 \in Level /\ 3 \in Level /\ 4 \in Level
        /\ 5 \in Level /\ 6 \in Level
  BY DEF Level
<1>3. After({m})
  BY DEF Upholds, Takes
<1> DEFINE M0 == TakeIn({m}, 0)
           M1 == TakeIn(M0, 1)
           M2 == TakeIn(M1, 2)
           M3 == TakeIn(M2, 3)
           M4 == TakeIn(M3, 4)
           M5 == TakeIn(M4, 5)
<1> HIDE DEF After
<1>4. After(M0)
  BY <1>1, <1>2, <1>3
<1>5. After(M1)
  BY <1>1, <1>2, <1>4
<1>6. After(M2)
  BY <1>1, <1>2, <1>5
<1>7. After(M3)
  BY <1>1, <1>2, <1>6
<1>8. After(M4)
  BY <1>1, <1>2, <1>7
<1>9. After(M5)
  BY <1>1, <1>2, <1>8
<1>10. After(TakeIn(M5, 6))
  BY <1>1, <1>2, <1>9
<1>11. QED
  BY <1>10 DEF deliver_system_interrupts, After

(* An instruction, up to the checks at its end, leaves what pends alone,   *)
(* and what was held is held or (by LPS) runs again.                       *)
LEMMA ExecKeeps ==
  ASSUME NEW m, Nests(m), NEW i \in Program[m.psw.who], i.op # "illegal"
  PROVE  /\ Exec(m, i).pending = m.pending
         /\ m.trap => Exec(m, i).trap
         /\ \A l \in Class : Held(m, l) => Kept(Exec(m, i), l)
<1> DEFINE w == m.psw.who
           e == Exec(m, i)
<1>1. m \in Machine /\ m.psw \in Psw /\ w \in Context
  BY DEF Nests, Machine, Psw
<1>2. i \in Instr
  BY <1>1, HandlerDiscipline
<1>3. i.op \in {"plain", "overflow", "fault", "illegal", "svc", "ssm", "lps", "clear"}
  BY <1>2 DEF Instr
<1>4. CASE i.op \in {"plain", "overflow", "ssm"}
  <2>1. e.pending = m.pending /\ e.trap = m.trap /\ e.nest = m.nest
    BY <1>1, <1>4 DEF Exec, Machine
  <2>2. QED
    BY <2>1 DEF Held, Kept
<1>5. CASE i.op = "fault"
  BY <1>5, SwapTakes, Contexts DEF Exec, Kept
<1>6. CASE i.op = "svc"
  BY <1>6, SwapTakes, Contexts DEF Exec, Kept
<1>7. CASE i.op = "lps"
  <2>1. w # Main
    BY <1>1, <1>7, HandlerDiscipline
  <2> DEFINE q == SubSeq(m.nest, 1, Len(m.nest) - 1)
  <2>2. /\ e.pending = m.pending /\ e.trap = m.trap /\ e.old = m.old
        /\ e.nest = q /\ e.psw = m.old[w]
    BY <1>1, <1>7 DEF Exec, Machine
  <2>3. /\ Len(m.nest) \in Nat /\ w = m.nest[Len(m.nest)].class
        /\ \A k \in 1..Len(m.nest) : m.nest[k] \in Saved
    BY <2>1, HandlerOnTop, LenProperties DEF Nests, Machine
  <2>4. Len(q) = Len(m.nest) - 1 /\ \A k \in 1..(Len(m.nest) - 1) : q[k] = m.nest[k]
    BY <2>1, <2>3, HandlerOnTop, SubSeqProperties
  <2> HIDE DEF e, q
  <2>5. ASSUME NEW l \in Class, NEW k \in 1..Len(m.nest), m.nest[k].class = l
        PROVE  Kept(e, l)
    <3>1. CASE k = Len(m.nest)
      BY <2>2, <2>3, <2>5, <3>1 DEF Kept
    <3>2. CASE k # Len(m.nest)
      <4>1. k \in 1..Len(q) /\ q[k] = m.nest[k]
        BY <2>3, <2>4, <3>2
      <4>2. QED
        BY <2>2, <2>5, <4>1 DEF Kept, Held
    <3>3. QED
      BY <3>1, <3>2
  <2>6. QED
    BY <2>2, <2>5 DEF Held, e
<1>8. CASE i.op = "clear"
  <2>1. w # Main
    BY <1>1, <1>8, HandlerDiscipline
  <2> DEFINE x == Len(m.nest)
             s == m.nest[x]
             t == [s EXCEPT !.psw = [s.psw EXCEPT !.ovf = FALSE]]
  <2>2. /\ e.pending = m.pending /\ e.trap = m.trap
        /\ e.nest = [m.nest EXCEPT ![x] = t]
    BY <1>1, <1>8 DEF Exec, Machine
  <2>3. /\ x \in 1..x /\ m.nest \in Seq(Saved) /\ s \in Saved
        /\ \A k \in 1..x : m.nest[k] \in Saved
    BY <2>1, HandlerOnTop DEF Nests, Machine
  <2>4. t \in Saved /\ t.class = s.class
    BY <2>3 DEF Saved, Psw
  <2> HIDE DEF e, t
  <2>5. Len(e.nest) = x /\ \A k \in 1..x : e.nest[k].class = m.nest[k].class
    BY <2>2, <2>3, <2>4, ExceptSeq
  <2>6. QED
    BY <2>2, <2>5 DEF Held, Kept, e
<1>9. QED
  BY <1>3, <1>4, <1>5, <1>6, <1>7, <1>8

(* A step after w, which a led to by taking levels.                        *)
LEMMA StepDelivers ==
  ASSUME NEW a, NEW w, Upholds(a, w), NEW n \in Step(w)
  PROVE  \A l \in a.pending \ n.pending : l \in Class => n.trap \/ Back(n, l)
<1>1. Nests(w) /\ Nests(n)
  BY StepNests DEF Upholds
<1>2. ASSUME NEW l \in a.pending \ n.pending, l \notin w.pending
      PROVE  w.trap \/ Held(w, l)
  BY <1>2 DEF Upholds, Takes
<1>3. ASSUME NEW c \in Class, n = psw_swap(w, c)
      PROVE  \A l \in a.pending \ n.pending : n.trap \/ Held(n, l)
  BY <1>1, <1>2, <1>3, SwapTakes
<1>4. ASSUME NEW i \in Program[w.psw.who], i.op # "illegal", n \in Endop({Exec(w, i)}),
             NEW l \in a.pending \ n.pending, l \in Class
      PROVE  n.trap \/ Back(n, l)
  <2> DEFINE e == Exec(w, i)
             c == IF e.psw.ovf THEN psw_swap(e, ProgramX) ELSE e
  <2>1. Nests(e) /\ e.pending = w.pending /\ (w.trap => e.trap)
        /\ (Held(w, l) => Back(e, l))
    BY <1>1, <1>4, ExecNests, ExecKeeps, KeptIsBack
  <2> HIDE DEF e
  <2>2. Nests(c) /\ c.pending = e.pending /\ (e.trap => c.trap) /\ (Back(e, l) => Back(c, l))
    BY <1>4, <2>1, SwapNests, SwapTakes, Contexts DEF Nests, Disciplined
  <2>3. n \in deliver_system_interrupts({c})
    BY <1>4 DEF Endop, e
  <2> HIDE DEF c
  <2>4. Upholds(c, n)
    BY <2>2, <2>3, DeliverUpholds
  <2>5. CASE l \in w.pending
    <3>1. n.trap \/ Held(n, l)
      BY <2>1, <2>2, <2>4, <2>5 DEF Upholds, Takes
    <3>2. QED
      BY <1>1, <3>1, KeptIsBack DEF Kept
  <2>6. CASE l \notin w.pending
    <3>1. w.trap \/ Held(w, l)
      BY <1>2, <2>6
    <3>2. QED
      BY <1>4, <2>1, <2>2, <2>4, <3>1 DEF Upholds
  <2>7. QED
    BY <2>5, <2>6
<1>5. CASE n \in Monitored(w)
  BY <1>1, <1>3, <1>5, KeptIsBack, Contexts DEF Monitored, Kept
<1>6. ASSUME NEW i \in Program[w.psw.who], i.op = "illegal", n = psw_swap(w, ProgramX)
      PROVE  \A l \in a.pending \ n.pending : n.trap \/ Back(n, l)
  BY <1>1, <1>3, <1>6, KeptIsBack, Contexts DEF Kept
<1>7. QED
  BY <1>4, <1>5, <1>6 DEF Step

(* A pending level is never lost, under either host (action property of    *)
(* Cpu::step, deliver_system_interrupts and the loops that call them).     *)
THEOREM NoLevelLost == Spec => PendsUntilTaken
<1> DEFINE Good == \A l \in pending \ pending' :
                     trap' \/ old'[l] \in {psw'} \cup {nest'[k].psw : k \in 1..Len(nest')}
<1>1. ASSUME NEW m, Becomes(m),
             \A l \in pending \ m.pending : m.trap \/ Back(m, l)
      PROVE  Good
  BY <1>1 DEF Becomes, Back
<1>2. ASSUME Nests(machine)
      PROVE  /\ Upholds(machine, machine)
             /\ machine.pending = pending /\ pending \subseteq Class
  BY <1>2, MachineFields, Contexts DEF Upholds, Takes, Nests, Machine
<1>3. ASSUME Nests(machine), RunLoop
      PROVE  Good
  <2>0. PICK w \in Woken :
              \E m \in IF w.psw.wait \/ w.trap THEN {w} ELSE Step(w) : Becomes(m)
    BY <1>3 DEF RunLoop
  <2>1. PICK m \in IF w.psw.wait \/ w.trap THEN {w} ELSE Step(w) : Becomes(m)
    BY <2>0
  <2>2. Upholds(machine, w)
    BY <1>2, <1>3, DeliverUpholds DEF Woken
  <2>3. \A l \in pending \ m.pending : m.trap \/ Back(m, l)
    <3>1. CASE m \in Step(w)
      BY <1>2, <1>3, <2>2, <3>1, StepDelivers
    <3>2. CASE m = w
      BY <1>2, <1>3, <2>2, <3>2, KeptIsBack DEF Upholds, Takes, Kept
    <3>3. QED
      BY <3>1, <3>2
  <2>4. QED
    BY <1>1, <2>1, <2>3
<1>4. ASSUME Nests(machine), GpcStep
      PROVE  Good
  <2>0. PICK c \in IF psw.wait THEN {machine} ELSE Step(machine) :
              \E m \in IopSlice(c) : Becomes(m)
    BY <1>4 DEF GpcStep
  <2>1. PICK m \in IopSlice(c) : Becomes(m)
    BY <2>0
  <2>2. \A l \in pending \ c.pending : c.trap \/ Back(c, l)
    BY <1>2, <1>4, StepDelivers
  <2>3. Nests(c)
    BY <1>4, StepNests
  <2>4. /\ c.pending \subseteq m.pending /\ m.trap = c.trap
        /\ m.old = c.old /\ m.psw = c.psw /\ m.nest = c.nest
    BY <2>3 DEF IopSlice, Nests, Machine
  <2>5. \A l \in pending \ m.pending : m.trap \/ Back(m, l)
    BY <2>2, <2>4 DEF Back
  <2>6. QED
    BY <1>1, <2>1, <2>5
<1>5. Nests(machine) /\ [Next]_vars => [Good]_vars
  <2>1. \A l \in Raisable : Raise(l) => Good
    BY DEF Raise
  <2>2. QED
    BY <1>3, <1>4, <2>1 DEF Next
<1>6. QED
  BY <1>5, NestsInductive, PTL DEF Spec, PendsUntilTaken
=============================================================================
