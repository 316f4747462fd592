----------------------------- MODULE LatDelivery -----------------------------
(***************************************************************************)
(* What a LAT session promises its window: what is typed reaches the host   *)
(* once, in order and with nothing missing, and what the host says reaches  *)
(* the screen once and in order.  Only what the host said before the first  *)
(* message that arrived may be missing from the screen, or, if the session  *)
(* may give a gap up, what was said in the gap.                             *)
(***************************************************************************)
EXTENDS Integers, Sequences

CONSTANT MayGiveUp   \* whether a gap in what the host says is ever given up

VARIABLES
    typed,   \* how many bytes have been typed; they are numbered from 1
    taken,   \* those the host has taken, in the order it took them
    said,    \* how many pieces of text the host has said
    shown    \* those that have been shown, in the order they were

Run(from, to) == [i \in 1 .. to - from + 1 |-> from + i - 1]
Latest(s) == IF s = <<>> THEN 0 ELSE s[Len(s)]

Init == typed = 0 /\ taken = <<>> /\ said = 0 /\ shown = <<>>

Type ==
    /\ typed' = typed + 1
    /\ UNCHANGED <<taken, said, shown>>

Take ==
    /\ \E n \in Latest(taken) + 1 .. typed : taken' = taken \o Run(Latest(taken) + 1, n)
    /\ UNCHANGED <<typed, said, shown>>

Say ==
    /\ said' = said + 1
    /\ UNCHANGED <<typed, taken, shown>>

Show ==
    /\ \E from \in Latest(shown) + 1 .. said :
          /\ MayGiveUp \/ shown = <<>> \/ from = Latest(shown) + 1
          /\ \E n \in from .. said : shown' = shown \o Run(from, n)
    /\ UNCHANGED <<typed, taken, said>>

Next == Type \/ Take \/ Say \/ Show

Spec == Init /\ [][Next]_<<typed, taken, said, shown>>
=============================================================================
