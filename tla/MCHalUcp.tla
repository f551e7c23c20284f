------------------------------ MODULE MCHalUcp ------------------------------
(***************************************************************************)
(* Programs that write and programs that read, on a stack of frames.        *)
(***************************************************************************)
EXTENDS HalUcp

To(stub, c, buf) == [stub |-> stub, code |-> c, buf |-> buf]

(* Calls that write: WRITE to two channels, positions, fields. *)
Positions ==
  { To(CNTRAP, p[1], <<p[2]>>) : p \in {<<4, 2>>, <<5, 125>>, <<6, 9>>, <<6, HW - 3>>, <<7, 1>>, <<8, 0>>, <<8, 2>>} }
Numbers == { To(OUTRAP, c, <<0>>) : c \in {8, 9, 12} }
Strings == { To(OUTRAP, 13, <<n>>) : n \in {0, 103, 255} }
Writes == { To(CNTRAP, 2 + (c % 2), <<c>>) : c \in Channels }

Rows ==
  { To(CNTRAP, 3, <<6>>), To(CNTRAP, 8, <<1>>), To(CNTRAP, 4, <<3>>), To(OUTRAP, 11, <<0>>), To(OUTRAP, 13, <<115>>) }

(* Calls that read an item that was 7. *)
Sevens ==
  { To(INTRAP, p[1], p[2]) :
      p \in { <<9, <<0, 7>> >>, <<10, <<7>> >>, <<11, <<16752, 0>> >>, <<12, <<16752, 0, 0, 0>> >>,
              <<13, <<2561, 14112>> >> } }
Reads == {To(CNTRAP, 0, <<5>>)}

(* Frames: where each one is, its handlers and the one at its end. *)
At3 == <<2048, 1920, 1792>>
SIZE1 == 64
Frame(k, slots, last) == [at |-> At3[k], slots |-> slots, last |-> last]
Quiet3 == { <<0, 324, 701>>, <<1, 61770, 702>>, <<2, 0, 703>> }
Stack(s1, s2, s3, last2) ==
  << Frame(1, Quiet3 \cup s1, <<0, 0>>), Frame(2, Quiet3 \cup s2, last2), Frame(3, s3, <<0, 0>>) >>
Stacks ==
  { <<>>, Stack({}, {}, {}, <<0, 0>>), Stack({<<4, 330, 801>>, <<7, 63, 802>>}, {<<0, 63, 803>>}, {}, <<0, 0>>),
    Stack({}, {<<5, 4042, 804>>}, {<<15, 383, 805>>}, <<330, 806>>), Stack({}, {}, {<<15, 383, 805>>}, <<330, 806>>),
    Stack({}, {}, {}, <<4095, 806>>), Stack({}, {}, {<<3, 63, 807>>}, <<0, 0>>) }
Stored(frames) ==
  LET Words(k) ==
        { <<0, 700>>, <<1, 0>>, <<5, 5000 + k>>, <<9, 6000 + k>> }
        \cup (IF k = Len(frames) THEN {} ELSE { <<2, frames[k + 1].at>>, <<3, SIZE1>> })
        \cup UNION { { <<18 + 2 * s[1], s[2]>>, <<19 + 2 * s[1], s[3]>> } : s \in frames[k].slots }
        \cup { <<SIZE1 - 2, frames[k].last[1]>>, <<SIZE1 - 1, frames[k].last[2]>> }
      cells == UNION { { <<frames[k].at + w[1], w[2]>> : w \in Words(k) } : k \in DOMAIN frames }
  IN  [a \in { c[1] : c \in cells } |-> (CHOOSE c \in cells : c[1] = a /\ (c[2] # 0 \/ \A e \in cells : e[1] = a => e[2] = 0))[2]]

Machine0(frames) ==
  [ mem |-> Stored(frames), prot |-> {}, psw |-> [DefaultPsw EXCEPT !.ic = PROGRAM],
    gpr |-> [s \in 0 .. 1 |-> [n \in 0 .. 7 |->
              IF n = 0 /\ frames # <<>> THEN <<frames[1].at, SIZE1>> ELSE ZeroWord]],
    dse |-> [s \in 0 .. 1 |-> [n \in 0 .. 7 |-> 0]],
    fpr |-> [n \in 0 .. 7 |-> ZeroWord], pending |-> {}, trap |-> "None" ]
Program(frames, calls, n, input) ==
  [cpu |-> Machine0(frames), frames |-> frames, calls |-> calls, left |-> n, input |-> input]

MCPrograms ==
  {Program(<<>>, Writes \cup Positions \cup Numbers \cup Strings, 4, <<>>)}
  \cup {Program(<<>>, Rows, 6, <<>>)}
  \cup { Program(<<>>, Reads \cup {item}, 5, input) : item \in Sevens, input \in {<<1, Null, 2>>, <<9, Term, 3>>} }
  \cup { Program(frames, Reads \cup Sevens, 3, input) : frames \in Stacks, input \in {<<>>, <<Null>>, <<1>>} }
=============================================================================
