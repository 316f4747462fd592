--------------------------- MODULE LatCircuitProofs ---------------------------
(***************************************************************************)
(* What TLAPS proves of a circuit, for every window, every allowance and    *)
(* every way frames are lost, repeated and delayed, as long as no number    *)
(* comes round again while it is in use (Prompt).  Every byte typed is with *)
(* the host, in a message kept for it, or waiting; what the host says is    *)
(* read once and in order, nothing of it is missing unless a gap may be     *)
(* given up, and the end of the session is read last; and so the circuit    *)
(* keeps the promise of LatDelivery.  Both ends' credit is reckoned on the  *)
(* safe side.                                                               *)
(***************************************************************************)
EXTENDS LatCircuit, Inductions, FiniteSetTheorems

-----------------------------------------------------------------------------
(* Numbers, which wrap.                                                     *)

\* Two halves are no more than all the numbers.
LEMMA HalfType == Half \in Nat \ {0, 1} /\ Half + Half <= NumberSpan /\ NumberSpan \in Nat
BY NumbersAssumption DEF Half

\* How far back a number is, is a number, and it is only its own.
LEMMA DistanceType ==
    ASSUME NEW a \in Numbers, NEW b \in Numbers
    PROVE  /\ Distance(a, b) \in 0 .. NumberSpan - 1
           /\ Distance(a, b) = 0 <=> a = b
BY NumbersAssumption DEF Distance, Numbers

LEMMA DistanceOwn ==
    ASSUME NEW a \in Numbers, NEW b \in Numbers, NEW c \in Numbers, Distance(a, b) = Distance(a, c)
    PROVE  b = c
BY NumbersAssumption DEF Distance, Numbers

\* One number more, and all the others are one further back.
LEMMA DistanceOfNext ==
    ASSUME NEW a \in Numbers, NEW b \in Numbers
    PROVE  /\ NextNumber(a) \in Numbers
           /\ Distance(a, b) + 1 < NumberSpan => Distance(NextNumber(a), b) = Distance(a, b) + 1
BY NumbersAssumption DEF Distance, Numbers, NextNumber

\* The number after one is a step less far back.
LEMMA DistanceToNext ==
    ASSUME NEW a \in Numbers, NEW b \in Numbers
    PROVE  Distance(a, NextNumber(b)) =
             IF a = b THEN NumberSpan - 1 ELSE Distance(a, b) - 1
BY NumbersAssumption DEF Distance, Numbers, NextNumber

\* Of two numbers the one less far back is ahead of the other by the difference.
LEMMA DistanceBetween ==
    ASSUME NEW a \in Numbers, NEW b \in Numbers, NEW c \in Numbers
    PROVE  Distance(c, b) = IF Distance(a, c) <= Distance(a, b)
                            THEN Distance(a, b) - Distance(a, c)
                            ELSE NumberSpan - (Distance(a, c) - Distance(a, b))
BY NumbersAssumption DEF Distance, Numbers

\* Where both are less than half the numbers back, the newer is the one that
\* is less far back.
LEMMA NewerIsLater ==
    ASSUME NEW a \in Numbers, NEW b \in Numbers, NEW c \in Numbers,
           Distance(a, b) < Half, Distance(a, c) < Half
    PROVE  Newer(c, b) <=> Distance(a, c) < Distance(a, b)
<1>1. Distance(a, b) \in Nat /\ Distance(a, c) \in Nat
  BY DistanceType
<1>2. Distance(c, b) = IF Distance(a, c) <= Distance(a, b)
                       THEN Distance(a, b) - Distance(a, c)
                       ELSE NumberSpan - (Distance(a, c) - Distance(a, b))
  BY DistanceBetween
<1>3. c = b <=> Distance(c, b) = 0
  BY DistanceType
<1>4. Newer(c, b) <=> c # b /\ Distance(c, b) < Half
  BY DEF Newer, Half
<1> QED
  BY <1>1, <1>2, <1>3, <1>4, HalfType

-----------------------------------------------------------------------------
(* Types.                                                                   *)

Names == {Unnamed, "host"}
Parts == [to : Int, slots : Nat, credit : Nat, data : Seq(Nat)]
KeptMessages == [sequence : Numbers, to : Int, slots : Nat, credit : Nat, data : Seq(Nat)]

RunsToHost ==
    [kind : {"run"}, theirs : Names, ours : {Ours}, sequence : Numbers, acknowledged : Numbers,
     to : Int, slots : Nat, credit : Nat, data : Seq(Nat)]
FramesToHost ==
    RunsToHost \cup [kind : {"start"}, ours : {Ours}]
               \cup [kind : {"stop"}, theirs : Names, ours : {Ours}]

RunsToUs ==
    [kind : {"run"}, theirs : {Ours}, ours : {"host"}, sequence : Numbers, acknowledged : Numbers,
     slots : Nat, credit : Nat, data : Seq(Nat), ended : BOOLEAN, from : {1}]
FramesToUs == RunsToUs \cup {Agreement, StopMessage}

Reasons == {"over", "session ended", "circuit closed", "stopped accepting", "stopped answering"}

Sessions ==
    [state : States, theirs : Names, sequence : Numbers, heard : Numbers, heardAny : BOOLEAN,
     remoteSlot : Int, credit : 0 .. MaxCredit, circuit : BOOLEAN, typed : Seq(Nat), allowance : Int,
     ended : Reasons, sinceGrant : Int, kept : Seq(KeptMessages), early : SUBSET RunsToUs,
     progress : BOOLEAN, stalled : Int, outgoing : Seq(FramesToHost), data : Seq(Nat)]

-----------------------------------------------------------------------------
(* What is to be sent: said of the record of the session, of the number the *)
(* host has acknowledged, of how many bytes it has, and of how many have    *)
(* been typed.                                                              *)

\* The messages kept have the last numbers that were used.
Numbered(s) ==
    \A i \in 1 .. Len(s.kept) : Distance(s.sequence, s.kept[i].sequence) = Len(s.kept) - i

\* The messages that the host has not taken carry the bytes after those it
\* has, each what comes after the one before, up to what waits to be sent.
Laid(s, acked, got, typed) ==
    LET left == Distance(s.sequence, acked)
    IN  /\ left <= Len(s.kept)
        /\ \E ends \in [0 .. left -> 0 .. typed] :
              /\ ends[0] = got
              /\ \A j \in 1 .. left :
                    /\ ends[j - 1] <= ends[j]
                    /\ s.kept[Len(s.kept) - left + j].data = Upto(ends[j - 1], ends[j])
              /\ s.typed = Upto(ends[left], typed)

\* A message with slots that has been put out is kept.
IsKept(s, f) ==
    \E j \in 1 .. Len(s.kept) :
       /\ s.kept[j].sequence = f.sequence /\ s.kept[j].data = f.data
       /\ s.kept[j].slots = f.slots /\ s.kept[j].credit = f.credit

OutIsKept(s) ==
    \A i \in 1 .. Len(s.outgoing) :
       s.outgoing[i].kind = "run" /\ s.outgoing[i].slots # 0 => IsKept(s, s.outgoing[i])

Sender(s, acked, got, typed) == Numbered(s) /\ Laid(s, acked, got, typed) /\ OutIsKept(s)

\* How many messages more are kept in t than in s.
Sent(s, t) == Len(t.kept) - Len(s.kept)

\* t is what some of a handler makes of s: what was kept still is, everything
\* sent since has taken a number, and, while the numbers last, the typing that
\* was in order is.
Keeps(s, t) ==
    /\ t \in Sessions
    /\ Sent(s, t) >= 0
    /\ \A i \in 1 .. Len(s.kept) : t.kept[i] = s.kept[i]
    /\ \A x \in Numbers :
          Distance(s.sequence, x) + Sent(s, t) < NumberSpan =>
             Distance(t.sequence, x) = Distance(s.sequence, x) + Sent(s, t)
    /\ Len(t.kept) < Half =>
          \A acked \in Numbers, got, typed \in Nat :
             Sender(s, acked, got, typed) => Sender(t, acked, got, typed)

\* What a session has, as the steps below need it.
LEMMA SessionHas ==
    ASSUME NEW s \in Sessions
    PROVE  /\ s.kept \in Seq(KeptMessages) /\ Len(s.kept) \in Nat
           /\ s.typed \in Seq(Nat) /\ Len(s.typed) \in Nat
           /\ s.outgoing \in Seq(FramesToHost) /\ Len(s.outgoing) \in Nat
           /\ s.sequence \in Numbers /\ s.heard \in Numbers
           /\ \A x \in Numbers : Distance(s.sequence, x) \in Nat
<1>1. s.kept \in Seq(KeptMessages) /\ s.typed \in Seq(Nat) /\ s.outgoing \in Seq(FramesToHost)
  BY DEF Sessions
<1>2. s.sequence \in Numbers /\ s.heard \in Numbers
  BY DEF Sessions
<1>3. \A x \in Numbers : Distance(s.sequence, x) \in Nat
  BY <1>2, DistanceType
<1> QED
  BY <1>1, <1>2, <1>3, LenProperties

LEMMA KeepsOn ==
    ASSUME NEW r \in Sessions, NEW s, NEW t, Keeps(r, s), Keeps(s, t)
    PROVE  Keeps(r, t)
<1>1. /\ s \in Sessions /\ t \in Sessions
      /\ Len(r.kept) \in Nat /\ Len(s.kept) \in Nat /\ Len(t.kept) \in Nat
  BY SessionHas DEF Keeps
<1>2. /\ Sent(r, s) >= 0 /\ Sent(s, t) >= 0 /\ Sent(r, t) = Sent(r, s) + Sent(s, t)
      /\ Sent(r, s) \in Int /\ Sent(s, t) \in Int
  <2>1. Sent(r, s) >= 0 /\ Sent(s, t) >= 0
    BY DEF Keeps
  <2>2. Sent(r, s) \in Int /\ Sent(s, t) \in Int
    BY <1>1 DEF Sent
  <2>3. Sent(r, t) = Sent(r, s) + Sent(s, t)
    <3>1. \A a, b, c \in Nat : c - a = (b - a) + (c - b)
      OBVIOUS
    <3> QED
      BY <1>1, <3>1 DEF Sent
  <2> QED
    BY <2>1, <2>2, <2>3
<1>3. \A i \in 1 .. Len(r.kept) : t.kept[i] = r.kept[i]
  BY <1>1, <1>2 DEF Keeps, Sent
<1>4. ASSUME NEW x \in Numbers, Distance(r.sequence, x) + Sent(r, t) < NumberSpan
      PROVE  Distance(t.sequence, x) = Distance(r.sequence, x) + Sent(r, t)
  <2>1. Distance(r.sequence, x) \in Nat
    BY SessionHas
  <2>2. Distance(s.sequence, x) = Distance(r.sequence, x) + Sent(r, s)
    BY <1>2, <1>4, <2>1, HalfType DEF Keeps
  <2> QED
    BY <1>2, <1>4, <2>1, <2>2, HalfType DEF Keeps
<1>5. ASSUME Len(t.kept) < Half, NEW acked \in Numbers, NEW got \in Nat, NEW typed \in Nat,
             Sender(r, acked, got, typed)
      PROVE  Sender(t, acked, got, typed)
  <2>1. Len(s.kept) < Half
    BY <1>1, <1>2, <1>5, HalfType DEF Sent
  <2> QED
    BY <1>5, <2>1 DEF Keeps
<1> QED
  BY <1>1, <1>2, <1>3, <1>4, <1>5 DEF Keeps

\* A handler's part that leaves the window, the typing and what goes out alone.
LEMMA AloneKeeps ==
    ASSUME NEW s \in Sessions, NEW t \in Sessions, t.kept = s.kept, t.sequence = s.sequence,
           t.typed = s.typed, t.outgoing = s.outgoing
    PROVE  Keeps(s, t)
<1>1. Len(s.kept) \in Nat /\ \A x \in Numbers : Distance(s.sequence, x) \in Nat
  BY SessionHas
<1>2. ASSUME NEW acked \in Numbers, NEW got \in Nat, NEW typed \in Nat,
             Sender(s, acked, got, typed)
      PROVE  Sender(t, acked, got, typed)
  <2>1. Numbered(t)
    BY <1>2 DEF Sender, Numbered
  <2>2. Laid(t, acked, got, typed)
    BY <1>2, Zenon DEF Sender, Laid
  <2>3. OutIsKept(t)
    BY <1>2 DEF Sender, OutIsKept, IsKept
  <2> QED
    BY <2>1, <2>2, <2>3 DEF Sender
<1> QED
  BY <1>1, <1>2 DEF Keeps, Sent

-----------------------------------------------------------------------------
(* Sending a message.                                                       *)

\* What comes after one number and up to another, cut in two.
LEMMA UptoCut ==
    ASSUME NEW a \in Nat, NEW b \in Nat, a <= b, NEW n \in 0 .. b - a
    PROVE  /\ Upto(a, b) \in Seq(Nat) /\ Len(Upto(a, b)) = b - a
           /\ SubSeq(Upto(a, b), 1, n) = Upto(a, a + n)
           /\ SubSeq(Upto(a, b), n + 1, Len(Upto(a, b))) = Upto(a + n, b)
<1>1. /\ Upto(a, b) \in Seq(Nat) /\ Len(Upto(a, b)) = b - a
      /\ \A i \in 1 .. b - a : Upto(a, b)[i] = a + i
  BY DEF Upto
<1>2. /\ Upto(a, a + n) \in Seq(Nat) /\ Len(Upto(a, a + n)) = n
      /\ \A i \in 1 .. n : Upto(a, a + n)[i] = a + i
  BY DEF Upto
<1>3. /\ Upto(a + n, b) \in Seq(Nat) /\ Len(Upto(a + n, b)) = b - a - n
      /\ \A i \in 1 .. b - a - n : Upto(a + n, b)[i] = a + n + i
  BY DEF Upto
<1> DEFINE whole == Upto(a, b)
           fore == SubSeq(whole, 1, n)
           rest == SubSeq(whole, n + 1, Len(whole))
<1> HIDE DEF whole
<1>4. /\ fore \in Seq(Nat) /\ Len(fore) = n /\ \A i \in 1 .. n : fore[i] = whole[i]
  BY <1>1, SubSeqProperties DEF whole
<1>5. /\ rest \in Seq(Nat) /\ Len(rest) = b - a - n
      /\ \A i \in 1 .. b - a - n : rest[i] = whole[n + i]
  BY <1>1, SubSeqProperties DEF whole
<1> HIDE DEF fore, rest
<1>6. ASSUME NEW i \in 1 .. n PROVE fore[i] = Upto(a, a + n)[i]
  <2>1. i \in 1 .. b - a
    OBVIOUS
  <2> QED
    BY <1>1, <1>2, <1>4, <2>1 DEF whole
<1>7. \A i \in 1 .. b - a - n : rest[i] = Upto(a + n, b)[i]
  BY <1>1, <1>3, <1>5 DEF whole
<1>8. fore = Upto(a, a + n)
  BY <1>2, <1>4, <1>6, SeqEqual
<1>9. rest = Upto(a + n, b)
  BY <1>3, <1>5, <1>7, SeqEqual
<1> QED
  BY <1>1, <1>8, <1>9 DEF whole, fore, rest

\* t has the same as s of what is read.
SameReading(s, t) ==
    /\ t.heard = s.heard /\ t.heardAny = s.heardAny /\ t.early = s.early /\ t.data = s.data
    /\ t.ended = s.ended /\ t.state = s.state /\ t.theirs = s.theirs

\* What is put out besides says what is heard.
SaysHeard(s, t) ==
    \A i \in 1 .. Len(t.outgoing) :
       \/ i <= Len(s.outgoing) /\ t.outgoing[i] = s.outgoing[i]
       \/ t.outgoing[i].kind = "run" /\ t.outgoing[i].acknowledged = s.heard

\* t is s after some sending.
Sends(s, t) == Keeps(s, t) /\ SameReading(s, t) /\ SaysHeard(s, t)

LEMMA SendsOn ==
    ASSUME NEW r \in Sessions, NEW s, NEW t, Sends(r, s), Sends(s, t)
    PROVE  Sends(r, t)
<1>1. Keeps(r, t)
  BY KeepsOn DEF Sends
<1>2. SameReading(r, t)
  BY DEF Sends, SameReading
<1>3. SaysHeard(r, t)
  BY DEF Sends, SaysHeard, SameReading
<1> QED
  BY <1>1, <1>2, <1>3 DEF Sends

\* r is s but for what is counted, and m is cut from what s has to send.
CutFrom(s, r, m) ==
    /\ r.kept = s.kept /\ r.sequence = s.sequence /\ r.outgoing = s.outgoing
    /\ SameReading(s, r)
    /\ \E n \in 0 .. Len(s.typed) :
          /\ m.data = SubSeq(s.typed, 1, n)
          /\ r.typed = SubSeq(s.typed, n + 1, Len(s.typed))
          /\ m.slots = 0 => n = 0

\* The fields slot_frame changes.
LEMMA SlotFrameFields ==
    ASSUME NEW r \in Sessions, NEW m \in Parts
    PROVE  LET t == SlotFrame(r, m)
               number == IF m.slots = 0 THEN r.sequence ELSE NextNumber(r.sequence)
               k == [sequence |-> number, to |-> m.to, slots |-> m.slots,
                     credit |-> m.credit, data |-> m.data]
           IN  /\ t \in Sessions /\ k \in KeptMessages
               /\ t.sequence = number
               /\ t.kept = IF m.slots = 0 THEN r.kept ELSE Append(r.kept, k)
               /\ t.outgoing = Append(r.outgoing, RunFrame(r, k))
               /\ RunFrame(r, k) \in RunsToHost
               /\ t.typed = r.typed /\ SameReading(r, t)
<1> DEFINE number == IF m.slots = 0 THEN r.sequence ELSE NextNumber(r.sequence)
           k == [sequence |-> number, to |-> m.to, slots |-> m.slots,
                 credit |-> m.credit, data |-> m.data]
           kept == IF m.slots = 0 THEN r.kept ELSE Append(r.kept, k)
           left == r.allowance - Spending(m)
           out  == Append(r.outgoing, RunFrame(r, k))
<1>1. number \in Numbers
  BY SessionHas, DistanceOfNext
<1>2. k \in KeptMessages
  BY <1>1 DEF KeptMessages, Parts
<1>3. RunFrame(r, k) \in RunsToHost
  BY <1>2 DEF RunFrame, RunsToHost, KeptMessages, Sessions
<1>4. left \in Int
  BY DEF Spending, Parts, Sessions
<1>5. kept \in Seq(KeptMessages) /\ out \in Seq(FramesToHost)
  BY <1>2, <1>3, SessionHas DEF FramesToHost
<1>6. SlotFrame(r, m) = [r EXCEPT !.sequence = number, !.kept = kept,
                                  !.allowance = left, !.outgoing = out]
  BY DEF SlotFrame
<1> HIDE DEF number, kept, left, out
<1>7. /\ SlotFrame(r, m) \in Sessions
      /\ SlotFrame(r, m).sequence = number
      /\ SlotFrame(r, m).kept = kept
      /\ SlotFrame(r, m).outgoing = out
      /\ SlotFrame(r, m).typed = r.typed
      /\ SameReading(r, SlotFrame(r, m))
  BY <1>1, <1>4, <1>5, <1>6, ZenonT(60) DEF Sessions, SameReading
<1> QED
  BY <1>2, <1>3, <1>7 DEF number, kept, out

\* A message put out is kept, under the next number, with the bytes that were
\* next to be sent.
LEMMA SlotFrameSends ==
    ASSUME NEW s \in Sessions, NEW r \in Sessions, NEW m \in Parts, CutFrom(s, r, m)
    PROVE  Sends(s, SlotFrame(r, m))
<1> DEFINE t == SlotFrame(r, m)
           number == IF m.slots = 0 THEN r.sequence ELSE NextNumber(r.sequence)
           k == [sequence |-> number, to |-> m.to, slots |-> m.slots,
                 credit |-> m.credit, data |-> m.data]
           f == RunFrame(r, k)
<1>0. /\ s.kept \in Seq(KeptMessages) /\ Len(s.kept) \in Nat
      /\ s.typed \in Seq(Nat) /\ Len(s.typed) \in Nat
      /\ s.outgoing \in Seq(FramesToHost) /\ Len(s.outgoing) \in Nat
      /\ s.sequence \in Numbers /\ \A x \in Numbers : Distance(s.sequence, x) \in Nat
  BY SessionHas
<1>1. /\ t \in Sessions /\ k \in KeptMessages
      /\ t.sequence = number
      /\ t.kept = IF m.slots = 0 THEN s.kept ELSE Append(s.kept, k)
      /\ t.outgoing = Append(s.outgoing, f)
      /\ t.typed = r.typed
  BY SlotFrameFields, SMTT(30), ZenonT(60) DEF CutFrom
<1>2. /\ number = IF m.slots = 0 THEN s.sequence ELSE NextNumber(s.sequence)
      /\ k.sequence = number /\ k.data = m.data
      /\ f.kind = "run" /\ f.acknowledged = s.heard
      /\ f.sequence = number /\ f.slots = m.slots /\ f.data = m.data
      /\ k.slots = m.slots /\ k.credit = m.credit /\ f.credit = m.credit
  BY DEF CutFrom, SameReading, RunFrame
<1>3. SameReading(s, t)
  <2>1. SameReading(s, r) /\ SameReading(r, t)
    BY SlotFrameFields DEF CutFrom
  <2> QED
    BY <2>1 DEF SameReading
<1> HIDE DEF t, number, k, f
<1>4. SaysHeard(s, t)
  BY <1>1, <1>2, SessionHas DEF SaysHeard
<1>5. PICK n \in 0 .. Len(s.typed) :
         /\ m.data = SubSeq(s.typed, 1, n)
         /\ t.typed = SubSeq(s.typed, n + 1, Len(s.typed))
         /\ m.slots = 0 => n = 0
  BY <1>1 DEF CutFrom
<1>6. CASE m.slots = 0
  <2>1. t.kept = s.kept /\ t.sequence = s.sequence
    BY <1>1, <1>2, <1>6
  <2>2. t.typed = s.typed
    BY <1>5, <1>6, SessionHas
  <2>3. ASSUME NEW acked \in Numbers, NEW got \in Nat, NEW typed \in Nat,
               Sender(s, acked, got, typed)
        PROVE  Sender(t, acked, got, typed)
    <3>1. Numbered(t)
      BY <2>1, <2>3 DEF Sender, Numbered
    <3>2. Laid(t, acked, got, typed)
      BY <2>1, <2>2, <2>3, Zenon DEF Sender, Laid
    <3>3. OutIsKept(t)
      <4>1. Len(t.outgoing) = Len(s.outgoing) + 1 /\ t.outgoing[Len(s.outgoing) + 1] = f
            /\ \A i \in 1 .. Len(s.outgoing) : t.outgoing[i] = s.outgoing[i]
        BY <1>0, <1>1
      <4> SUFFICES ASSUME NEW i \in 1 .. Len(t.outgoing),
                          t.outgoing[i].kind = "run", t.outgoing[i].slots # 0
                   PROVE  IsKept(t, t.outgoing[i])
        BY DEF OutIsKept
      <4>2. i \in 1 .. Len(s.outgoing)
        BY <1>0, <1>2, <1>6, <4>1
      <4>3. IsKept(s, t.outgoing[i])
        BY <2>3, <4>1, <4>2 DEF Sender, OutIsKept
      <4> QED
        BY <2>1, <4>3 DEF IsKept
    <3> QED
      BY <3>1, <3>2, <3>3 DEF Sender
  <2>4. Keeps(s, t)
    <3>1. Sent(s, t) = 0
      BY <1>0, <2>1 DEF Sent
    <3> QED
      BY <1>0, <1>1, <2>1, <2>3, <3>1 DEF Keeps
  <2> QED
    BY <1>3, <1>4, <2>4 DEF Sends, t
<1>7. CASE m.slots # 0
  <2>1. /\ t.kept = Append(s.kept, k) /\ Len(t.kept) = Len(s.kept) + 1
        /\ \A i \in 1 .. Len(s.kept) : t.kept[i] = s.kept[i]
        /\ t.kept[Len(s.kept) + 1] = k
        /\ t.sequence = NextNumber(s.sequence) /\ k.sequence = t.sequence /\ k.data = m.data
    BY <1>1, <1>2, <1>7, SessionHas, SMTT(60)
  <2>2. Sent(s, t) = 1
    BY <2>1, SessionHas DEF Sent
  <2>3. \A x \in Numbers :
           Distance(s.sequence, x) + 1 < NumberSpan =>
              Distance(t.sequence, x) = Distance(s.sequence, x) + 1
    BY <2>1, SessionHas, DistanceOfNext
  <2>4. ASSUME Len(t.kept) < Half, NEW acked \in Numbers, NEW got \in Nat, NEW typed \in Nat,
               Sender(s, acked, got, typed)
        PROVE  Sender(t, acked, got, typed)
    <3> DEFINE left == Distance(s.sequence, acked)
    <3>1. Len(s.kept) + 1 < NumberSpan /\ Len(s.kept) \in Nat /\ left \in Nat /\ left <= Len(s.kept)
      BY <2>1, <2>4, HalfType, SessionHas DEF Sender, Laid
    <3>2. Numbered(t)
      <4> SUFFICES ASSUME NEW i \in 1 .. Len(t.kept)
                   PROVE  Distance(t.sequence, t.kept[i].sequence) = Len(t.kept) - i
        BY DEF Numbered
      <4>1. CASE i = Len(s.kept) + 1
        <5>1. Distance(t.sequence, t.sequence) = 0
          BY <1>1, DistanceType, SessionHas
        <5> QED
          BY <4>1, <5>1, <2>1, <3>1
      <4>2. CASE i \in 1 .. Len(s.kept)
        <5>0. s.kept[i] \in KeptMessages
          BY <1>0, <4>2, ElementOfSeq
        <5>1. s.kept[i].sequence \in Numbers
          BY <5>0 DEF KeptMessages
        <5>2. Distance(s.sequence, s.kept[i].sequence) = Len(s.kept) - i
          BY <2>4, <4>2 DEF Sender, Numbered
        <5>3. Distance(t.sequence, s.kept[i].sequence) = Len(s.kept) - i + 1
          BY <2>3, <3>1, <4>2, <5>1, <5>2, HalfType
        <5> QED
          BY <2>1, <3>1, <4>2, <5>3
      <4> QED
        BY <2>1, <3>1, <4>1, <4>2
    <3>3. Distance(t.sequence, acked) = left + 1
      BY <2>3, <3>1, HalfType
    <3>4. Laid(t, acked, got, typed)
      <4>1. PICK ends \in [0 .. left -> 0 .. typed] :
               /\ ends[0] = got
               /\ \A j \in 1 .. left :
                     /\ ends[j - 1] <= ends[j]
                     /\ s.kept[Len(s.kept) - left + j].data = Upto(ends[j - 1], ends[j])
               /\ s.typed = Upto(ends[left], typed)
        BY <2>4 DEF Sender, Laid
      <4> DEFINE e == ends[left]
                 more == [j \in 0 .. left + 1 |-> IF j <= left THEN ends[j] ELSE e + n]
      <4>2. e \in Nat /\ e <= typed
        BY <3>1
      <4>3. Len(s.typed) = typed - e
        <5>1. Upto(e, typed) = s.typed /\ 0 \in 0 .. typed - e
          BY <4>1, <4>2
        <5> QED
          BY <4>2, <5>1, UptoCut
      <4>4. m.data = Upto(e, e + n) /\ t.typed = Upto(e + n, typed)
        <5>1. Upto(e, typed) = s.typed /\ n \in 0 .. typed - e
          BY <4>1, <4>3
        <5>2. /\ SubSeq(Upto(e, typed), 1, n) = Upto(e, e + n)
              /\ SubSeq(Upto(e, typed), n + 1, Len(Upto(e, typed))) = Upto(e + n, typed)
          BY <4>2, <5>1, UptoCut
        <5> QED
          BY <1>5, <5>1, <5>2
      <4>5. more \in [0 .. left + 1 -> 0 .. typed]
        BY <3>1, <4>2, <4>3
      <4>6. /\ more[0] = got /\ more[left + 1] = e + n /\ more[left] = e
            /\ \A j \in 0 .. left : more[j] = ends[j]
        BY <3>1, <4>1
      <4> HIDE DEF e, more, left
      <4>7. ASSUME NEW j \in 1 .. left + 1
            PROVE  /\ more[j - 1] <= more[j]
                   /\ t.kept[Len(t.kept) - (left + 1) + j].data = Upto(more[j - 1], more[j])
        <5>1. CASE j = left + 1
          <6>1. t.kept[Len(t.kept) - (left + 1) + j] = k
            BY <2>1, <3>1, <5>1
          <6> QED
            BY <2>1, <3>1, <4>2, <4>4, <4>6, <5>1, <6>1
        <5>2. CASE j \in 1 .. left
          <6>1. j - 1 \in 0 .. left /\ j \in 0 .. left
            BY <3>1, <5>2
          <6>2. Len(t.kept) - (left + 1) + j = Len(s.kept) - left + j
            BY <2>1, <3>1, <5>2
          <6>3. Len(s.kept) - left + j \in 1 .. Len(s.kept)
            BY <3>1, <5>2
          <6> QED
            BY <2>1, <4>1, <4>6, <5>2, <6>1, <6>2, <6>3
        <5> QED
          BY <3>1, <5>1, <5>2
      <4>8. left + 1 <= Len(t.kept)
        BY <2>1, <3>1
      <4> QED
        BY <3>3, <4>4, <4>5, <4>6, <4>7, <4>8 DEF Laid
    <3>5. OutIsKept(t)
      <4> SUFFICES ASSUME NEW i \in 1 .. Len(t.outgoing),
                          t.outgoing[i].kind = "run", t.outgoing[i].slots # 0
                   PROVE  IsKept(t, t.outgoing[i])
        BY DEF OutIsKept
      <4>1. CASE i = Len(s.outgoing) + 1
        <5>1. t.outgoing[i] = f
          BY <1>1, <4>1, SessionHas
        <5>2. Len(t.kept) \in 1 .. Len(t.kept) /\ t.kept[Len(t.kept)] = k
          BY <1>0, <2>1, <3>1
        <5> QED
          BY <1>2, <5>1, <5>2 DEF IsKept
      <4>2. CASE i \in 1 .. Len(s.outgoing)
        <5>1. t.outgoing[i] = s.outgoing[i]
          BY <1>1, <4>2, SessionHas
        <5>2. IsKept(s, s.outgoing[i])
          BY <2>4, <4>2, <5>1 DEF Sender, OutIsKept
        <5> QED
          BY <2>1, <3>1, <5>1, <5>2 DEF IsKept
      <4>3. i = Len(s.outgoing) + 1 \/ i \in 1 .. Len(s.outgoing)
        BY <1>1, SessionHas
      <4> QED
        BY <4>1, <4>2, <4>3
    <3> QED
      BY <3>2, <3>4, <3>5 DEF Sender
  <2>5. Keeps(s, t)
    BY <1>1, <2>1, <2>2, <2>3, <2>4 DEF Keeps
  <2> QED
    BY <1>3, <1>4, <2>5 DEF Sends, t
<1> QED
  BY <1>6, <1>7 DEF t

\* A message without typing takes nothing from what waits.
LEMMA NothingCut ==
    ASSUME NEW s \in Sessions, NEW r \in Sessions, NEW m \in Parts, m.data = <<>>,
           r.kept = s.kept, r.sequence = s.sequence, r.outgoing = s.outgoing,
           r.typed = s.typed, SameReading(s, r)
    PROVE  Sends(s, SlotFrame(r, m))
<1>1. 0 \in 0 .. Len(s.typed) /\ s.typed \in Seq(Nat)
  BY SessionHas
<1>2. /\ SubSeq(s.typed, 1, 0) = <<>>
      /\ SubSeq(s.typed, 0 + 1, Len(s.typed)) = s.typed
  BY <1>1
<1>3. CutFrom(s, r, m)
  BY <1>1, <1>2 DEF CutFrom
<1> QED
  BY <1>3, SlotFrameSends

\* Doing nothing is some of sending.
LEMMA StillSends ==
    ASSUME NEW s \in Sessions, NEW t \in Sessions, t.kept = s.kept, t.sequence = s.sequence,
           t.typed = s.typed, t.outgoing = s.outgoing, SameReading(s, t)
    PROVE  Sends(s, t)
<1>1. Keeps(s, t)
  BY AloneKeeps
<1>2. SaysHeard(s, t)
  BY SessionHas DEF SaysHeard
<1> QED
  BY <1>1, <1>2 DEF Sends

LEMMA AcknowledgeSends ==
    ASSUME NEW s \in Sessions
    PROVE  Sends(s, Acknowledge(s))
<1>1. NoSlots \in Parts /\ NoSlots.data = <<>>
  BY DEF NoSlots, Parts
<1>2. SameReading(s, s)
  BY DEF SameReading
<1> QED
  BY <1>1, <1>2, NothingCut DEF Acknowledge

LEMMA SpendSends ==
    ASSUME NEW s \in Sessions, NEW slots \in Nat
    PROVE  Sends(s, Spend(s, slots))
<1> DEFINE due == s.sinceGrant + 1 >= Regrant
           left == IF due \/ slots > s.credit THEN 0 ELSE s.credit - slots
           since == IF due THEN 0 ELSE s.sinceGrant + 1
           now == IF RunsLow(left) THEN MaxCredit ELSE left
           counted == [s EXCEPT !.sinceGrant = since, !.credit = now]
           m == GrantSlot(s, MaxCredit - left)
<1>1. s.credit \in 0 .. MaxCredit /\ s.sinceGrant \in Int /\ s.remoteSlot \in Int
  BY DEF Sessions
<1>2. left \in 0 .. MaxCredit /\ since \in Int /\ now \in 0 .. MaxCredit
  BY <1>1, NumbersAssumption
<1>3. Spend(s, slots) = IF RunsLow(left) THEN SlotFrame(counted, m) ELSE counted
  BY DEF Spend
<1>4. m \in Parts /\ m.data = <<>>
  BY <1>1, <1>2, NumbersAssumption DEF GrantSlot, Parts
<1> HIDE DEF left, since, now, m
<1>5. /\ counted \in Sessions
      /\ counted.kept = s.kept /\ counted.sequence = s.sequence /\ counted.outgoing = s.outgoing
      /\ counted.typed = s.typed /\ SameReading(s, counted)
  BY <1>2 DEF Sessions, SameReading
<1> HIDE DEF counted
<1>6. Sends(s, counted) /\ Sends(s, SlotFrame(counted, m))
  BY <1>4, <1>5, StillSends, NothingCut
<1> QED
  BY <1>3, <1>6

\* Bytes take at least a slot.
LEMMA SomeSlots ==
    ASSUME NEW bytes \in Nat \ {0}, NEW size \in Nat \ {0}
    PROVE  (bytes + size - 1) \div size \in Nat \ {0}
OBVIOUS

LEMMA SomeRoom ==
    ASSUME NEW most \in Nat \ {0}, NEW size \in Nat \ {0}
    PROVE  most * size \in Nat \ {0}
OBVIOUS

\* A message of typing carries what was typed first.
LEMMA DataFrameSends ==
    ASSUME NEW s \in Sessions, HasRoom(s), NEW most \in Nat \ {0}
    PROVE  Sends(s, DataFrame(s, most))
<1> DEFINE bytes == Smaller(Len(s.typed), most * MaxSlot)
           slots == (bytes + MaxSlot - 1) \div MaxSlot
           after == SubSeq(s.typed, bytes + 1, Len(s.typed))
           chunk == SubSeq(s.typed, 1, bytes)
           rest  == [s EXCEPT !.typed = after, !.credit = MaxCredit]
           m     == DataSlots(s, slots, chunk)
<1>1. s.typed \in Seq(Nat) /\ Len(s.typed) \in Nat \ {0}
  BY SessionHas DEF HasRoom, Holding
<1>2. bytes \in 1 .. Len(s.typed)
  <2>1. most * MaxSlot \in Nat \ {0}
    BY SomeRoom, LimitsAssumption
  <2> QED
    BY <1>1, <2>1 DEF Smaller
<1>3. slots \in Nat \ {0}
  <2> HIDE DEF bytes
  <2>1. bytes \in Nat \ {0} /\ MaxSlot \in Nat \ {0}
    BY <1>1, <1>2, LimitsAssumption
  <2> QED
    BY <2>1, SomeSlots
<1> HIDE DEF bytes, slots
<1>4. after \in Seq(Nat) /\ chunk \in Seq(Nat)
  BY <1>1, <1>2
<1>5. m \in Parts /\ m.data = chunk /\ m.slots = slots
  <2> HIDE DEF chunk
  <2>1. MaxCredit - s.credit \in Nat /\ s.remoteSlot \in Int
    BY NumbersAssumption DEF Sessions
  <2> QED
    BY <1>3, <1>4, <2>1 DEF DataSlots, Parts
<1>6. /\ rest \in Sessions
      /\ rest.kept = s.kept /\ rest.sequence = s.sequence /\ rest.outgoing = s.outgoing
      /\ rest.typed = after /\ SameReading(s, rest)
  <2> HIDE DEF after
  <2>1. after \in Seq(Nat) /\ MaxCredit \in 0 .. MaxCredit
    BY <1>4, NumbersAssumption
  <2>2. rest \in Sessions
    BY <2>1 DEF Sessions
  <2>3. /\ rest.kept = s.kept /\ rest.sequence = s.sequence /\ rest.outgoing = s.outgoing
        /\ SameReading(s, rest)
    BY DEF Sessions, SameReading
  <2>4. rest.typed = after
    BY DEF Sessions
  <2> QED
    BY <2>2, <2>3, <2>4
<1>7. DataFrame(s, most) = SlotFrame(rest, m)
  BY DEF DataFrame, bytes, slots
<1>8. CutFrom(s, rest, m)
  <2>1. bytes \in 0 .. Len(s.typed)
    BY <1>2
  <2> HIDE DEF rest, m
  <2> QED
    BY <1>3, <1>5, <1>6, <2>1 DEF CutFrom
<1> HIDE DEF rest, m
<1> QED
  BY <1>5, <1>6, <1>7, <1>8, SlotFrameSends

LEMMA SendOnceSends ==
    ASSUME NEW s \in Sessions
    PROVE  Sends(s, SendOnce(s))
<1>1. CASE HasRoom(s) /\ s.allowance > 0
  <2>1. Smaller(s.allowance, SlotsPerMessage) \in Nat \ {0}
    BY <1>1, LimitsAssumption DEF Sessions, Smaller
  <2> QED
    BY <1>1, <2>1, DataFrameSends DEF SendOnce
<1>2. CASE ~(HasRoom(s) /\ s.allowance > 0)
  BY <1>2, StillSends DEF SendOnce, SameReading
<1> QED
  BY <1>1, <1>2

LEMMA SendTypedSends ==
    ASSUME NEW s \in Sessions
    PROVE  Sends(s, SendTyped(s))
<1>0. \A r, t : Sends(r, t) => t \in Sessions
  BY DEF Sends, Keeps
<1>1. ASSUME NEW r \in Sessions PROVE Send2(r) \in Sessions /\ Sends(r, Send2(r))
  <2>1. Sends(r, SendOnce(r)) /\ SendOnce(r) \in Sessions
    BY <1>0, SendOnceSends
  <2>2. Sends(SendOnce(r), SendOnce(SendOnce(r)))
    BY <2>1, SendOnceSends
  <2>3. Sends(r, SendOnce(SendOnce(r)))
    BY <2>1, <2>2, SendsOn
  <2> QED
    BY <1>0, <2>3 DEF Send2
<1>2. ASSUME NEW r \in Sessions PROVE Send4(r) \in Sessions /\ Sends(r, Send4(r))
  <2>1. Send2(r) \in Sessions /\ Sends(r, Send2(r)) /\ Sends(Send2(r), Send2(Send2(r)))
    BY <1>1
  <2> QED
    BY <1>1, <2>1, SendsOn DEF Send4
<1>3. ASSUME NEW r \in Sessions PROVE Send8(r) \in Sessions /\ Sends(r, Send8(r))
  <2>1. Send4(r) \in Sessions /\ Sends(r, Send4(r)) /\ Sends(Send4(r), Send4(Send4(r)))
    BY <1>2
  <2> QED
    BY <1>2, <2>1, SendsOn DEF Send8
<1>4. Send8(s) \in Sessions /\ Sends(s, Send8(s)) /\ Sends(Send8(s), Send8(Send8(s)))
  BY <1>3
<1> QED
  BY <1>4, SendsOn DEF SendTyped

LEMMA ReleaseTypingSends ==
    ASSUME NEW s \in Sessions
    PROVE  Sends(s, ReleaseTyping(s))
<1> DEFINE sent == SendTyped(s)
<1>1. sent \in Sessions /\ Sends(s, sent)
  BY SendTypedSends DEF Sends, Keeps
<1> HIDE DEF sent
<1>2. CASE HasRoom(sent)
  <2>1. Sends(sent, DataFrame(sent, 1))
    BY <1>1, <1>2, DataFrameSends
  <2> QED
    BY <1>1, <1>2, <2>1, SendsOn DEF ReleaseTyping, sent
<1>3. CASE ~HasRoom(sent)
  BY <1>1, <1>3 DEF ReleaseTyping, sent
<1> QED
  BY <1>2, <1>3


-----------------------------------------------------------------------------
(* Reading leaves what is kept alone, but for what it sends on the way.     *)

LEMMA KeepsIs ==
    ASSUME NEW s, NEW t
    PROVE  /\ Keeps(s, t) => t \in Sessions
           /\ Sends(s, t) => Keeps(s, t)
BY DEF Keeps, Sends

LEMMA HearKeeps ==
    ASSUME NEW s \in Sessions, NEW m \in RunsToUs
    PROVE  Keeps(s, Hear(s, m))
<1>1. /\ Hear(s, m) \in Sessions
      /\ Hear(s, m).kept = s.kept /\ Hear(s, m).sequence = s.sequence
      /\ Hear(s, m).typed = s.typed /\ Hear(s, m).outgoing = s.outgoing
  BY DEF Hear, Sessions, RunsToUs
<1> QED
  BY <1>1, AloneKeeps

LEMMA ReadSlotsKeeps ==
    ASSUME NEW s \in Sessions, NEW m \in RunsToUs
    PROVE  Keeps(s, ReadSlots(s, m))
<1> DEFINE slot == IF m.from = 0 THEN s.remoteSlot ELSE m.from
           allowed == s.allowance + m.credit
           shown == s.data \o m.data
           t == [s EXCEPT !.remoteSlot = slot, !.allowance = allowed, !.data = shown]
<1>1. slot \in Int /\ allowed \in Int
  BY DEF Sessions, RunsToUs
<1>2. shown \in Seq(Nat)
  <2>1. s.data \in Seq(Nat) /\ m.data \in Seq(Nat)
    BY DEF Sessions, RunsToUs
  <2> QED
    BY <2>1, ConcatProperties
<1>3. ReadSlots(s, m) = t
  BY DEF ReadSlots
<1> HIDE DEF slot, allowed, shown
<1>4. t \in Sessions
  BY <1>1, <1>2 DEF Sessions
<1>5. t.kept = s.kept /\ t.sequence = s.sequence /\ t.typed = s.typed /\ t.outgoing = s.outgoing
  BY DEF Sessions
<1> HIDE DEF t
<1>6. Keeps(s, t)
  BY <1>4, <1>5, AloneKeeps
<1> QED
  BY <1>3, <1>6

LEMMA MissedType ==
    ASSUME NEW s \in Sessions, NEW m \in RunsToUs
    PROVE  Missed(s, m) \in Nat
<1>1. /\ Distance(m.sequence, s.heard) \in Nat
      /\ Distance(m.sequence, s.heard) = 0 <=> m.sequence = s.heard
  BY DistanceType DEF Sessions, RunsToUs
<1> QED
  BY <1>1 DEF Missed, Fresh, Newer

LEMMA TakeAgainKeeps ==
    ASSUME NEW s \in Sessions, NEW m \in RunsToUs
    PROVE  Keeps(s, TakeAgain(s, m))
<1> DEFINE spent == Spend(s, m.slots)
<1>1. Keeps(s, spent) /\ spent \in Sessions
  BY SpendSends, KeepsIs DEF RunsToUs
<1> HIDE DEF spent
<1>2. Keeps(spent, Acknowledge(spent))
  BY <1>1, AcknowledgeSends, KeepsIs
<1> QED
  BY <1>1, <1>2, KeepsOn DEF TakeAgain, spent

LEMMA TakeFreshKeeps ==
    ASSUME NEW s \in Sessions, NEW m \in RunsToUs, NEW owed \in Nat
    PROVE  Keeps(s, TakeFresh(s, m, owed))
<1> DEFINE hears == Hear(s, m)
           says == Acknowledge(hears)
           reads == ReadSlots(says, m)
           read == Spend(reads, owed + Missed(s, m))
           over == [read EXCEPT !.ended = "session ended", !.state = "Closed"]
           open == [read EXCEPT !.state = IF @ = "Asked" THEN "Open" ELSE @]
<1>1. Keeps(s, hears) /\ hears \in Sessions
  BY HearKeeps, KeepsIs
<1> HIDE DEF hears
<1>2. Keeps(hears, says) /\ says \in Sessions
  BY <1>1, AcknowledgeSends, KeepsIs
<1> HIDE DEF says
<1>3. Keeps(says, reads) /\ reads \in Sessions
  BY <1>2, ReadSlotsKeeps, KeepsIs
<1> HIDE DEF reads
<1>4. owed + Missed(s, m) \in Nat
  BY MissedType
<1>5. Keeps(reads, read) /\ read \in Sessions
  BY <1>3, <1>4, SpendSends, KeepsIs
<1>6. TakeFresh(s, m, owed) = IF m.ended THEN over
                              ELSE IF m.data = <<>> THEN read ELSE SendTyped(open)
  BY DEF TakeFresh, hears, says, reads
<1> HIDE DEF read
<1>7. Keeps(s, read)
  BY <1>1, <1>2, <1>3, <1>5, KeepsOn
<1>8. Keeps(read, over)
  <2>1. /\ over \in Sessions /\ over.kept = read.kept /\ over.sequence = read.sequence
        /\ over.typed = read.typed /\ over.outgoing = read.outgoing
    BY <1>5 DEF Sessions, Reasons, States
  <2> QED
    BY <1>5, <2>1, AloneKeeps
<1>9. Keeps(read, open) /\ open \in Sessions
  <2>1. /\ open \in Sessions /\ open.kept = read.kept /\ open.sequence = read.sequence
        /\ open.typed = read.typed /\ open.outgoing = read.outgoing
    BY <1>5 DEF Sessions, States
  <2> QED
    BY <1>5, <2>1, AloneKeeps
<1> HIDE DEF over, open
<1>10. Keeps(open, SendTyped(open))
  BY <1>9, SendTypedSends, KeepsIs
<1>11. Keeps(read, SendTyped(open))
  BY <1>5, <1>9, <1>10, KeepsOn
<1> QED
  BY <1>6, <1>7, <1>8, <1>11, KeepsOn

LEMMA TakeKeeps ==
    ASSUME NEW s \in Sessions, NEW m \in RunsToUs, NEW counted
    PROVE  Keeps(s, Take(s, m, counted))
<1>1. 0 \in Nat /\ m.slots \in Nat
  BY DEF RunsToUs
<1> QED
  BY <1>1, HearKeeps, TakeAgainKeeps, TakeFreshKeeps DEF Take

LEMMA TakeOneOfKeeps ==
    ASSUME NEW s \in Sessions, NEW waiting \in SUBSET s.early
    PROVE  Keeps(s, TakeOneOf(s, waiting))
<1>1. s.early \in SUBSET RunsToUs
  BY DEF Sessions
<1>2. CASE waiting = {}
  <2> DEFINE left == Unread(s)
             t == [s EXCEPT !.early = left]
  <2>1. left \in SUBSET RunsToUs
    BY <1>1 DEF Unread
  <2> HIDE DEF left
  <2>2. t \in Sessions
    BY <2>1 DEF Sessions
  <2>3. t.kept = s.kept /\ t.sequence = s.sequence /\ t.typed = s.typed /\ t.outgoing = s.outgoing
    BY DEF Sessions
  <2>4. Keeps(s, t)
    BY <2>2, <2>3, AloneKeeps
  <2> QED
    BY <1>2, <2>4 DEF TakeOneOf, left
<1>3. CASE waiting # {}
  <2> DEFINE m == CHOOSE w \in waiting : TRUE
             left == Unread(s) \ {m}
             t == [s EXCEPT !.early = left]
  <2>1. m \in RunsToUs
    BY <1>1, <1>3
  <2>2. left \in SUBSET RunsToUs
    BY <1>1 DEF Unread
  <2>3. TakeOneOf(s, waiting) = Take(t, m, TRUE)
    BY <1>3 DEF TakeOneOf
  <2> HIDE DEF left, m
  <2>4. t \in Sessions
    BY <2>2 DEF Sessions
  <2>5. t.kept = s.kept /\ t.sequence = s.sequence /\ t.typed = s.typed /\ t.outgoing = s.outgoing
    BY DEF Sessions
  <2> HIDE DEF t
  <2>6. Keeps(s, t)
    BY <2>4, <2>5, AloneKeeps
  <2>7. Keeps(t, Take(t, m, TRUE))
    BY <2>1, <2>4, TakeKeeps
  <2> QED
    BY <2>3, <2>6, <2>7, KeepsOn
<1> QED
  BY <1>2, <1>3

LEMMA Follow8Keeps ==
    ASSUME NEW s \in Sessions
    PROVE  Keeps(s, Follow8(s))
<1>1. ASSUME NEW r \in Sessions PROVE Follow(r) \in Sessions /\ Keeps(r, Follow(r))
  <2>1. NextInLine(r) \in SUBSET r.early
    BY DEF NextInLine, Unread
  <2>2. Keeps(r, TakeOneOf(r, NextInLine(r)))
    BY <2>1, TakeOneOfKeeps
  <2>3. Keeps(r, r)
    BY AloneKeeps
  <2>4. Keeps(r, Follow(r))
    BY <2>2, <2>3 DEF Follow
  <2> QED
    BY <2>4, KeepsIs
<1>2. ASSUME NEW r \in Sessions PROVE Follow2(r) \in Sessions /\ Keeps(r, Follow2(r))
  <2>1. Follow(r) \in Sessions /\ Keeps(r, Follow(r)) /\ Keeps(Follow(r), Follow(Follow(r)))
    BY <1>1
  <2>2. Keeps(r, Follow2(r))
    BY <2>1, KeepsOn DEF Follow2
  <2> QED
    BY <2>2, KeepsIs
<1>3. ASSUME NEW r \in Sessions PROVE Follow4(r) \in Sessions /\ Keeps(r, Follow4(r))
  <2>1. Follow2(r) \in Sessions /\ Keeps(r, Follow2(r)) /\ Keeps(Follow2(r), Follow2(Follow2(r)))
    BY <1>2
  <2>2. Keeps(r, Follow4(r))
    BY <2>1, KeepsOn DEF Follow4
  <2> QED
    BY <2>2, KeepsIs
<1>4. Follow4(s) \in Sessions /\ Keeps(s, Follow4(s)) /\ Keeps(Follow4(s), Follow4(Follow4(s)))
  BY <1>3
<1> QED
  BY <1>4, KeepsOn DEF Follow8

LEMMA DrainKeeps ==
    ASSUME NEW s \in Sessions
    PROVE  Keeps(s, Drain(s)) /\ Keeps(s, GiveUp(s))
<1>1. NextInLine(s) \in SUBSET s.early /\ Nearest(s) \in SUBSET s.early
  BY DEF NextInLine, Nearest, Unread
<1> DEFINE next == TakeOneOf(s, NextInLine(s))
           near == TakeOneOf(s, Nearest(s))
<1>2. /\ Keeps(s, next) /\ next \in Sessions
      /\ Keeps(s, near) /\ near \in Sessions
  BY <1>1, TakeOneOfKeeps, KeepsIs
<1> HIDE DEF next, near
<1>3. Keeps(next, Follow8(next)) /\ Keeps(near, Follow8(near))
  BY <1>2, Follow8Keeps
<1>4. Keeps(s, Follow8(next)) /\ Keeps(s, Follow8(near))
  BY <1>2, <1>3, KeepsOn
<1> QED
  BY <1>4 DEF Drain, GiveUp, next, near

LEMMA RunAfterGapKeeps ==
    ASSUME NEW s \in Sessions, NEW m \in RunsToUs
    PROVE  Keeps(s, RunAfterGap(s, m))
<1> DEFINE early == {w \in s.early : w.sequence # m.sequence} \cup {m}
           t == [s EXCEPT !.early = early]
           held == Hold(s, m)
<1>1. early \in SUBSET RunsToUs
  BY DEF Sessions
<1>2. held = Spend(t, m.slots)
  BY DEF Hold
<1> HIDE DEF early
<1>3. t \in Sessions
  BY <1>1 DEF Sessions
<1>4. t.kept = s.kept /\ t.sequence = s.sequence /\ t.typed = s.typed /\ t.outgoing = s.outgoing
  BY DEF Sessions
<1> HIDE DEF t, held
<1>5. Keeps(s, t)
  BY <1>3, <1>4, AloneKeeps
<1>6. Keeps(t, held) /\ held \in Sessions
  BY <1>2, <1>3, SpendSends, KeepsIs DEF RunsToUs
<1>7. Keeps(s, held)
  BY <1>5, <1>6, KeepsOn
<1>8. Keeps(held, GiveUp(held)) /\ Keeps(held, Acknowledge(held))
  BY <1>6, DrainKeeps, AcknowledgeSends, KeepsIs
<1>9. Keeps(s, GiveUp(held)) /\ Keeps(s, Acknowledge(held))
  BY <1>7, <1>8, KeepsOn
<1> QED
  BY <1>7, <1>9 DEF RunAfterGap, held

-----------------------------------------------------------------------------
(* The rest of the operations.                                              *)

\* What is put out besides is no message, or one that is kept.
LEMMA PutOutKeeps ==
    ASSUME NEW s \in Sessions, NEW t \in Sessions, t.kept = s.kept, t.sequence = s.sequence,
           t.typed = s.typed,
           \A i \in 1 .. Len(t.outgoing) :
              \/ i \in 1 .. Len(s.outgoing) /\ t.outgoing[i] = s.outgoing[i]
              \/ t.outgoing[i].kind # "run"
              \/ IsKept(s, t.outgoing[i])
    PROVE  Keeps(s, t)
<1>1. Len(s.kept) \in Nat /\ \A x \in Numbers : Distance(s.sequence, x) \in Nat
  BY SessionHas
<1>2. ASSUME NEW acked \in Numbers, NEW got \in Nat, NEW typed \in Nat,
             Sender(s, acked, got, typed)
      PROVE  Sender(t, acked, got, typed)
  <2>1. Numbered(t)
    BY <1>2 DEF Sender, Numbered
  <2>2. Laid(t, acked, got, typed)
    BY <1>2, Zenon DEF Sender, Laid
  <2>3. OutIsKept(t)
    <3> SUFFICES ASSUME NEW i \in 1 .. Len(t.outgoing),
                        t.outgoing[i].kind = "run", t.outgoing[i].slots # 0
                 PROVE  IsKept(t, t.outgoing[i])
      BY DEF OutIsKept
    <3>1. \/ i \in 1 .. Len(s.outgoing) /\ t.outgoing[i] = s.outgoing[i]
          \/ IsKept(s, t.outgoing[i])
      OBVIOUS
    <3>2. IsKept(s, t.outgoing[i])
      BY <1>2, <3>1 DEF Sender, OutIsKept
    <3> QED
      BY <3>2 DEF IsKept
  <2> QED
    BY <2>1, <2>2, <2>3 DEF Sender
<1> QED
  BY <1>1, <1>2 DEF Keeps, Sent

LEMMA AgreedKeeps ==
    ASSUME NEW s \in Sessions
    PROVE  Keeps(s, Agreed(s, Agreement))
<1> DEFINE known == [s EXCEPT !.theirs = Agreement.ours]
           asked == SlotFrame(known, AskSlot)
           open == [asked EXCEPT !.credit = MaxCredit, !.circuit = TRUE, !.state = "Asked"]
<1>1. /\ known \in Sessions /\ known.kept = s.kept /\ known.sequence = s.sequence
      /\ known.typed = s.typed /\ known.outgoing = s.outgoing
  BY DEF Sessions, Agreement, Names
<1> HIDE DEF known
<1>2. Keeps(s, known)
  BY <1>1, AloneKeeps
<1>3. AskSlot \in Parts /\ AskSlot.data = <<>>
  BY NumbersAssumption DEF AskSlot, Parts
<1>4. Keeps(known, asked) /\ asked \in Sessions
  <2>1. SameReading(known, known)
    BY DEF SameReading
  <2>2. Sends(known, asked)
    BY <1>1, <1>3, <2>1, NothingCut
  <2> QED
    BY <2>2, KeepsIs
<1> HIDE DEF asked
<1>5. /\ open \in Sessions /\ open.kept = asked.kept /\ open.sequence = asked.sequence
      /\ open.typed = asked.typed /\ open.outgoing = asked.outgoing
  <2>1. asked \in Sessions /\ MaxCredit \in 0 .. MaxCredit /\ "Asked" \in States
    BY <1>4, NumbersAssumption DEF States
  <2>2. open \in Sessions
    BY <2>1 DEF Sessions
  <2> QED
    BY <2>1, <2>2 DEF Sessions
<1> HIDE DEF open
<1>6. Keeps(asked, open)
  BY <1>4, <1>5, AloneKeeps
<1>7. Keeps(s, asked)
  BY <1>2, <1>4, KeepsOn
<1>8. Keeps(s, open)
  BY <1>6, <1>7, KeepsOn
<1>9. Keeps(s, s)
  BY AloneKeeps
<1>10. Agreed(s, Agreement) \in {s, open}
  BY DEF Agreed, open, asked, known
<1> QED
  BY <1>8, <1>9, <1>10

LEMMA StoppedKeeps ==
    ASSUME NEW s \in Sessions, NEW m
    PROVE  Keeps(s, Stopped(s, m))
<1>1. /\ Stopped(s, m) \in Sessions
      /\ Stopped(s, m).kept = s.kept /\ Stopped(s, m).sequence = s.sequence
      /\ Stopped(s, m).typed = s.typed /\ Stopped(s, m).outgoing = s.outgoing
  BY DEF Stopped, Sessions, States, Reasons
<1> QED
  BY <1>1, AloneKeeps

LEMMA PeerGoneKeeps ==
    ASSUME NEW s \in Sessions
    PROVE  Keeps(s, PeerGone(s))
<1>1. /\ PeerGone(s) \in Sessions
      /\ PeerGone(s).kept = s.kept /\ PeerGone(s).sequence = s.sequence
      /\ PeerGone(s).typed = s.typed /\ PeerGone(s).outgoing = s.outgoing
  BY DEF PeerGone, Sessions, States, Reasons
<1> QED
  BY <1>1, AloneKeeps

LEMMA KeepaliveKeeps ==
    ASSUME NEW s \in Sessions
    PROVE  Keeps(s, Keepalive(s))
<1>1. Keeps(s, s) /\ Keeps(s, Acknowledge(s))
  BY AloneKeeps, AcknowledgeSends, KeepsIs
<1> QED
  BY <1>1 DEF Keepalive

LEMMA CallKeeps ==
    ASSUME NEW s \in Sessions
    PROVE  Keeps(s, Call(s))
<1> DEFINE out == Append(s.outgoing, StartFrame)
           t == [s EXCEPT !.outgoing = out, !.state = "Calling"]
<1>1. StartFrame \in FramesToHost /\ StartFrame.kind # "run"
  BY DEF StartFrame, FramesToHost
<1>2. /\ s.outgoing \in Seq(FramesToHost) /\ Len(s.outgoing) \in Nat
  BY SessionHas
<1>3. /\ out \in Seq(FramesToHost) /\ Len(out) = Len(s.outgoing) + 1
      /\ out[Len(s.outgoing) + 1].kind # "run"
      /\ \A i \in 1 .. Len(s.outgoing) : out[i] = s.outgoing[i]
  BY <1>1, <1>2
<1> HIDE DEF out
<1>4. /\ t \in Sessions /\ t.kept = s.kept /\ t.sequence = s.sequence /\ t.typed = s.typed
      /\ t.outgoing = out
  BY <1>3 DEF Sessions, States
<1> HIDE DEF t
<1>5. \A i \in 1 .. Len(t.outgoing) :
         \/ i \in 1 .. Len(s.outgoing) /\ t.outgoing[i] = s.outgoing[i]
         \/ t.outgoing[i].kind # "run"
  BY <1>2, <1>3, <1>4
<1>6. Keeps(s, t)
  BY <1>4, <1>5, PutOutKeeps
<1> QED
  BY <1>6 DEF Call, out, t

LEMMA CloseKeeps ==
    ASSUME NEW s \in Sessions
    PROVE  Keeps(s, Close(s))
<1> DEFINE out == IF s.circuit THEN Append(s.outgoing, StopFrame(s)) ELSE s.outgoing
           t == [s EXCEPT !.outgoing = out, !.circuit = FALSE, !.state = "Closed"]
<1>1. StopFrame(s) \in FramesToHost /\ StopFrame(s).kind # "run"
  BY DEF StopFrame, FramesToHost, Sessions
<1>2. /\ s.outgoing \in Seq(FramesToHost) /\ Len(s.outgoing) \in Nat
  BY SessionHas
<1>3. /\ out \in Seq(FramesToHost)
      /\ \A i \in 1 .. Len(out) :
            \/ i \in 1 .. Len(s.outgoing) /\ out[i] = s.outgoing[i]
            \/ out[i].kind # "run"
  BY <1>1, <1>2
<1>0. Close(s) = t
  BY DEF Close
<1> HIDE DEF out
<1>4. /\ t \in Sessions /\ t.kept = s.kept /\ t.sequence = s.sequence /\ t.typed = s.typed
      /\ t.outgoing = out
  BY <1>3 DEF Sessions, States
<1> HIDE DEF t
<1>5. \A i \in 1 .. Len(t.outgoing) :
         \/ i \in 1 .. Len(s.outgoing) /\ t.outgoing[i] = s.outgoing[i]
         \/ t.outgoing[i].kind # "run"
  BY <1>3, <1>4
<1>6. Keeps(s, t)
  BY <1>4, <1>5, PutOutKeeps
<1> QED
  BY <1>0, <1>6

\* What goes again is what is kept.
LEMMA RetransmitKeeps ==
    ASSUME NEW s \in Sessions
    PROVE  Keeps(s, Retransmit(s))
<1> DEFINE again == [i \in 1 .. Len(s.kept) |-> RunFrame(s, s.kept[i])]
           out == s.outgoing \o again
           tries == s.stalled + 1
           t == [s EXCEPT !.stalled = tries, !.outgoing = out]
           over == [s EXCEPT !.stalled = tries, !.state = "Closed", !.ended = "stopped accepting"]
<1>0. /\ s.outgoing \in Seq(FramesToHost) /\ Len(s.outgoing) \in Nat
      /\ s.kept \in Seq(KeptMessages) /\ Len(s.kept) \in Nat
      /\ tries \in Int
  BY SessionHas DEF Sessions
<1>1. ASSUME NEW i \in 1 .. Len(s.kept)
      PROVE  /\ RunFrame(s, s.kept[i]) \in FramesToHost
             /\ RunFrame(s, s.kept[i]).sequence = s.kept[i].sequence
             /\ RunFrame(s, s.kept[i]).data = s.kept[i].data
             /\ RunFrame(s, s.kept[i]).slots = s.kept[i].slots
             /\ RunFrame(s, s.kept[i]).credit = s.kept[i].credit
  <2>1. s.kept[i] \in KeptMessages
    BY <1>0, ElementOfSeq
  <2> QED
    BY <2>1 DEF RunFrame, FramesToHost, RunsToHost, KeptMessages, Sessions
<1>2. /\ again \in Seq(FramesToHost) /\ Len(again) = Len(s.kept)
      /\ \A i \in 1 .. Len(s.kept) : again[i] = RunFrame(s, s.kept[i])
  BY <1>0, <1>1
<1>3. Retransmit(s) \in {s, over, t}
  BY DEF Retransmit
<1> HIDE DEF again, tries
<1>4. /\ out \in Seq(FramesToHost) /\ Len(out) = Len(s.outgoing) + Len(again)
      /\ \A i \in 1 .. Len(s.outgoing) + Len(again) :
            out[i] = IF i <= Len(s.outgoing) THEN s.outgoing[i] ELSE again[i - Len(s.outgoing)]
  BY <1>0, <1>2, ConcatProperties, ZenonT(60)
<1> HIDE DEF out
<1>5. /\ t \in Sessions /\ t.kept = s.kept /\ t.sequence = s.sequence /\ t.typed = s.typed
      /\ t.outgoing = out
  BY <1>0, <1>4 DEF Sessions
<1>6. /\ over \in Sessions /\ over.kept = s.kept /\ over.sequence = s.sequence
      /\ over.typed = s.typed /\ over.outgoing = s.outgoing
  BY <1>0 DEF Sessions, States, Reasons
<1> HIDE DEF t, over
<1>7. ASSUME NEW i \in 1 .. Len(t.outgoing)
      PROVE  \/ i \in 1 .. Len(s.outgoing) /\ t.outgoing[i] = s.outgoing[i]
             \/ t.outgoing[i].kind # "run"
             \/ IsKept(s, t.outgoing[i])
  <2>0. i \in 1 .. Len(s.outgoing) + Len(s.kept)
    <3>1. Len(t.outgoing) = Len(s.outgoing) + Len(s.kept)
      BY <1>2, <1>4, <1>5
    <3> QED
      BY <3>1
  <2>1. CASE i <= Len(s.outgoing)
    <3>1. i \in 1 .. Len(s.outgoing)
      BY <1>0, <2>0, <2>1
    <3>2. t.outgoing[i] = s.outgoing[i]
      BY <1>2, <1>4, <1>5, <2>0, <2>1
    <3> QED
      BY <3>1, <3>2
  <2>2. CASE ~(i <= Len(s.outgoing))
    <3>0. \A p, q \in Nat : \A n \in 1 .. p + q : ~(n <= p) => n - p \in 1 .. q
      OBVIOUS
    <3>1. i - Len(s.outgoing) \in 1 .. Len(s.kept)
      BY <1>0, <2>0, <2>2, <3>0, Zenon
    <3>2. t.outgoing[i] = again[i - Len(s.outgoing)]
      BY <1>2, <1>4, <1>5, <2>0, <2>2
    <3>3. t.outgoing[i] = RunFrame(s, s.kept[i - Len(s.outgoing)])
      BY <1>2, <3>1, <3>2
    <3> QED
      BY <1>1, <3>1, <3>3 DEF IsKept
  <2> QED
    BY <2>1, <2>2
<1>8. Keeps(s, t) /\ Keeps(s, over) /\ Keeps(s, s)
  BY <1>5, <1>6, <1>7, PutOutKeeps, AloneKeeps
<1> QED
  BY <1>3, <1>8

\* A byte more is typed.
LEMMA UptoMore ==
    ASSUME NEW a \in Nat, NEW b \in Nat, a <= b
    PROVE  Upto(a, b) \o <<b + 1>> = Upto(a, b + 1)
<1>1. /\ Upto(a, b) \in Seq(Nat) /\ Len(Upto(a, b)) = b - a
      /\ \A i \in 1 .. b - a : Upto(a, b)[i] = a + i
  BY DEF Upto
<1>2. /\ Upto(a, b + 1) \in Seq(Nat) /\ Len(Upto(a, b + 1)) = b - a + 1
      /\ \A i \in 1 .. b - a + 1 : Upto(a, b + 1)[i] = a + i
  BY DEF Upto
<1>3. <<b + 1>> \in Seq(Nat) /\ Len(<<b + 1>>) = 1 /\ <<b + 1>>[1] = b + 1
  OBVIOUS
<1> DEFINE one == <<b + 1>>
           some == Upto(a, b)
           sum == some \o one
<1>0. /\ one \in Seq(Nat) /\ Len(one) = 1 /\ one[1] = b + 1
      /\ some \in Seq(Nat) /\ Len(some) = b - a /\ \A i \in 1 .. b - a : some[i] = a + i
  BY <1>1, <1>3
<1> HIDE DEF one, some
<1>4. /\ sum \in Seq(Nat) /\ Len(sum) = b - a + 1
      /\ \A i \in 1 .. b - a : sum[i] = a + i
      /\ sum[b - a + 1] = b + 1
  <2>1. /\ sum \in Seq(Nat) /\ Len(sum) = Len(some) + Len(one)
        /\ \A i \in 1 .. Len(some) + Len(one) :
              sum[i] = IF i <= Len(some) THEN some[i] ELSE one[i - Len(some)]
    BY <1>0, ConcatProperties
  <2>2. Len(sum) = b - a + 1 /\ b - a \in Nat
    BY <1>0, <2>1
  <2>3. \A i \in 1 .. b - a : sum[i] = a + i
    BY <1>0, <2>1
  <2>4. sum[b - a + 1] = one[1]
    <3>1. b - a + 1 \in 1 .. Len(some) + Len(one) /\ ~(b - a + 1 <= Len(some))
          /\ b - a + 1 - Len(some) = 1
      BY <1>0, <2>2
    <3> QED
      BY <2>1, <3>1
  <2> QED
    BY <1>0, <2>1, <2>2, <2>3, <2>4
<1> HIDE DEF sum
<1>5. ASSUME NEW i \in 1 .. b - a + 1 PROVE sum[i] = Upto(a, b + 1)[i]
  <2>1. i \in 1 .. b - a \/ i = b - a + 1
    OBVIOUS
  <2> QED
    BY <1>2, <1>4, <2>1, SMTT(60)
<1>6. sum = Upto(a, b + 1)
  BY <1>2, <1>4, <1>5, SeqEqual
<1> QED
  BY <1>6 DEF sum, one, some

LEMMA WriteKeeps ==
    ASSUME NEW s \in Sessions, NEW typed \in Nat, IsOpen(s)
    PROVE  \E r \in Sessions :
              /\ Keeps(r, Write(s, <<typed + 1>>))
              /\ r.kept = s.kept /\ r.sequence = s.sequence /\ r.outgoing = s.outgoing
              /\ \A acked \in Numbers, got \in Nat :
                    Sender(s, acked, got, typed) => Sender(r, acked, got, typed + 1)
<1> DEFINE more == s.typed \o <<typed + 1>>
           r == [s EXCEPT !.typed = more]
<1>1. more \in Seq(Nat)
  BY SessionHas
<1>2. Write(s, <<typed + 1>>) = SendTyped(r)
  BY DEF Write, IsOpen
<1> HIDE DEF more
<1>3. /\ r \in Sessions /\ r.kept = s.kept /\ r.sequence = s.sequence /\ r.outgoing = s.outgoing
      /\ r.typed = more
  BY <1>1 DEF Sessions
<1> HIDE DEF r
<1>4. Keeps(r, SendTyped(r))
  BY <1>3, SendTypedSends, KeepsIs
<1>5. ASSUME NEW acked \in Numbers, NEW got \in Nat, Sender(s, acked, got, typed)
      PROVE  Sender(r, acked, got, typed + 1)
  <2> DEFINE left == Distance(s.sequence, acked)
  <2>1. PICK ends \in [0 .. left -> 0 .. typed] :
           /\ ends[0] = got
           /\ \A j \in 1 .. left :
                 /\ ends[j - 1] <= ends[j]
                 /\ s.kept[Len(s.kept) - left + j].data = Upto(ends[j - 1], ends[j])
           /\ s.typed = Upto(ends[left], typed)
    BY <1>5 DEF Sender, Laid
  <2>2. left \in Nat /\ left <= Len(s.kept) /\ left = Distance(r.sequence, acked)
    BY <1>3, <1>5, SessionHas DEF Sender, Laid
  <2> HIDE DEF left
  <2>3. r.typed = Upto(ends[left], typed + 1)
    <3>1. ends[left] \in Nat /\ ends[left] <= typed
      BY <2>2
    <3> QED
      BY <1>3, <2>1, <3>1, UptoMore DEF more
  <2>4. ends \in [0 .. left -> 0 .. typed + 1]
    BY <2>2
  <2>5. Laid(r, acked, got, typed + 1)
    BY <1>3, <2>1, <2>2, <2>3, <2>4 DEF Laid
  <2>6. Numbered(r) /\ OutIsKept(r)
    <3>1. \A f : IsKept(s, f) => IsKept(r, f)
      BY <1>3 DEF IsKept
    <3> QED
      BY <1>3, <1>5, <3>1 DEF Sender, Numbered, OutIsKept
  <2> QED
    BY <2>5, <2>6 DEF Sender
<1> QED
  BY <1>2, <1>3, <1>4, <1>5

-----------------------------------------------------------------------------
(* What is acknowledged is let go of.                                       *)

\* r is s without some of what number acknowledges: while the host's own
\* acknowledgements are no newer than what it has, all it has not taken is
\* still kept, in the same order.
LetsGo(s, r, number) ==
    /\ r.sequence = s.sequence /\ r.outgoing = s.outgoing
    /\ \A acked \in Numbers, got, typed \in Nat :
          /\ Sender(s, acked, got, typed)
          /\ s.outgoing = <<>>
          /\ Len(s.kept) < Half
          /\ Distance(s.sequence, acked) <= Distance(s.sequence, number)
          /\ Distance(s.sequence, number) < Half
          =>
          /\ Sender(r, acked, got, typed)
          /\ \A f : /\ IsKept(s, f)
                    /\ Distance(s.sequence, f.sequence) < Distance(s.sequence, acked)
                    => IsKept(r, f)

LEMMA NoneLetGo ==
    ASSUME NEW s, NEW number
    PROVE  LetsGo(s, s, number)
BY DEF LetsGo

\* A suffix of what is kept, that begins no later than what the host has not
\* taken, will do.
LEMMA CutLetsGo ==
    ASSUME NEW s \in Sessions, NEW r \in Sessions, NEW n \in 1 .. Len(s.kept),
           r.kept = SubSeq(s.kept, n + 1, Len(s.kept)), r.sequence = s.sequence,
           r.typed = s.typed, r.outgoing = s.outgoing, s.outgoing = <<>>,
           NEW acked \in Numbers, NEW got \in Nat, NEW typed \in Nat,
           Sender(s, acked, got, typed), n <= Len(s.kept) - Distance(s.sequence, acked)
    PROVE  /\ Sender(r, acked, got, typed)
           /\ \A f : /\ IsKept(s, f)
                     /\ Distance(s.sequence, f.sequence) < Distance(s.sequence, acked)
                     => IsKept(r, f)
<1> DEFINE left == Distance(s.sequence, acked)
           last == Len(s.kept)
<1>0. left \in Nat /\ last \in Nat /\ s.kept \in Seq(KeptMessages) /\ n \in Nat
  BY SessionHas
<1>1. /\ Len(r.kept) = last - n
      /\ \A i \in 1 .. last - n : r.kept[i] = s.kept[n + i]
  <2>1. n + 1 \in 1 .. last + 1
    BY <1>0
  <2> QED
    BY <1>0, <2>1, SubSeqProperties
<1>2. left = Distance(r.sequence, acked)
  OBVIOUS
<1>3. n <= last - left
  OBVIOUS
<1>4. /\ \A i \in 1 .. last : Distance(s.sequence, s.kept[i].sequence) = last - i
      /\ left <= last
  BY DEF Sender, Numbered, Laid
<1>5. PICK ends \in [0 .. left -> 0 .. typed] :
         /\ ends[0] = got
         /\ \A j \in 1 .. left :
               /\ ends[j - 1] <= ends[j]
               /\ s.kept[last - left + j].data = Upto(ends[j - 1], ends[j])
         /\ s.typed = Upto(ends[left], typed)
  BY DEF Sender, Laid
<1> HIDE DEF left, last
<1>6. Numbered(r)
  <2> SUFFICES ASSUME NEW i \in 1 .. Len(r.kept)
               PROVE  Distance(r.sequence, r.kept[i].sequence) = Len(r.kept) - i
    BY DEF Numbered
  <2>1. i \in 1 .. last - n /\ n + i \in 1 .. last
    BY <1>0, <1>1 DEF last
  <2>2. r.kept[i] = s.kept[n + i]
    BY <1>1, <2>1
  <2>3. Distance(r.sequence, r.kept[i].sequence) = last - (n + i)
    BY <1>4, <2>1, <2>2
  <2>4. last - (n + i) = (last - n) - i
    BY <1>0, <2>1
  <2> QED
    BY <1>1, <2>3, <2>4
<1>7. Laid(r, acked, got, typed)
  <2>1. left <= Len(r.kept)
    BY <1>0, <1>1, <1>3
  <2>2. ASSUME NEW j \in 1 .. left
        PROVE  r.kept[Len(r.kept) - left + j].data = Upto(ends[j - 1], ends[j])
    <3>1. last - n - left + j \in 1 .. last - n /\ n + (last - n - left + j) = last - left + j
      BY <1>0, <1>3
    <3> QED
      BY <1>1, <1>5, <3>1
  <2> QED
    BY <1>2, <1>5, <2>1, <2>2 DEF Laid
<1>8. OutIsKept(r)
  BY DEF OutIsKept
<1>9. ASSUME NEW f, IsKept(s, f), Distance(s.sequence, f.sequence) < left
      PROVE  IsKept(r, f)
  <2>1. PICK j \in 1 .. last : /\ s.kept[j].sequence = f.sequence /\ s.kept[j].data = f.data
                               /\ s.kept[j].slots = f.slots /\ s.kept[j].credit = f.credit
    BY <1>9 DEF IsKept, last
  <2>2. last - j < left
    BY <1>4, <1>9, <2>1
  <2>3. j - n \in 1 .. last - n /\ n + (j - n) = j
    BY <1>0, <1>3, <2>2
  <2>4. r.kept[j - n] = s.kept[j]
    BY <1>1, <2>3
  <2> QED
    BY <1>1, <2>1, <2>3, <2>4 DEF IsKept
<1> QED
  BY <1>6, <1>7, <1>8, <1>9 DEF Sender, left

LEMMA ForgetKeeps ==
    ASSUME NEW s \in Sessions, NEW number \in Numbers
    PROVE  \E r \in Sessions : Keeps(r, Forget(s, number)) /\ LetsGo(s, r, number)
<1> DEFINE done == Acknowledged(s, number)
           n    == CHOOSE i \in done : \A j \in done : j <= i
           left == SubSeq(s.kept, n + 1, Len(s.kept))
           r    == [s EXCEPT !.kept = left, !.progress = TRUE, !.stalled = 0]
<1>0. s.kept \in Seq(KeptMessages) /\ Len(s.kept) \in Nat
  BY SessionHas
<1>1. CASE done = {}
  <2>1. Forget(s, number) = s
    BY <1>1 DEF Forget
  <2> QED
    BY <2>1, AloneKeeps, NoneLetGo
<1>2. CASE done # {}
  <2>1. n \in done
    <3>1. done \in SUBSET (0 .. Len(s.kept))
      BY <1>0 DEF Acknowledged
    <3>2. \E i \in done : \A j \in done : j <= i
      BY <1>0, <1>2, <3>1, LastPlace
    <3> HIDE DEF done
    <3> QED
      BY <3>2, Zenon
  <2>2. Forget(s, number) = SendTyped(r)
    BY <1>2 DEF Forget
  <2> HIDE DEF n
  <2>3. n \in 1 .. Len(s.kept) /\ \A i \in 1 .. n : ~Newer(s.kept[i].sequence, number)
    BY <2>1 DEF Acknowledged
  <2>4. left \in Seq(KeptMessages)
    BY <1>0, <2>3, SubSeqProperties
  <2> HIDE DEF left, done
  <2>5. /\ r \in Sessions /\ r.kept = left /\ r.sequence = s.sequence /\ r.typed = s.typed
        /\ r.outgoing = s.outgoing
    <3> DEFINE none == 0
    <3>1. none \in Int
      OBVIOUS
    <3>2. r = [s EXCEPT !.kept = left, !.progress = TRUE, !.stalled = none]
      OBVIOUS
    <3> HIDE DEF none, r
    <3>3. [s EXCEPT !.kept = left, !.progress = TRUE, !.stalled = none] \in Sessions
      BY <2>4, <3>1 DEF Sessions
    <3> QED
      BY <3>2, <3>3 DEF Sessions
  <2> HIDE DEF r
  <2>6. Keeps(r, SendTyped(r))
    BY <2>5, SendTypedSends, KeepsIs
  <2>7. ASSUME NEW acked \in Numbers, NEW got \in Nat, NEW typed \in Nat,
               Sender(s, acked, got, typed), s.outgoing = <<>>, Len(s.kept) < Half,
               Distance(s.sequence, acked) <= Distance(s.sequence, number),
               Distance(s.sequence, number) < Half
        PROVE  /\ Sender(r, acked, got, typed)
               /\ \A f : /\ IsKept(s, f)
                         /\ Distance(s.sequence, f.sequence) < Distance(s.sequence, acked)
                         => IsKept(r, f)
    <3>1. s.kept[n] \in KeptMessages
      BY <1>0, <2>3, ElementOfSeq
    <3>2. s.kept[n].sequence \in Numbers /\ s.sequence \in Numbers
      BY <3>1, SessionHas DEF KeptMessages
    <3>3. Distance(s.sequence, s.kept[n].sequence) = Len(s.kept) - n
      BY <2>3, <2>7 DEF Sender, Numbered
    <3>4. Len(s.kept) - n < Half
      BY <1>0, <2>3, <2>7, HalfType
    <3>5. ~(Len(s.kept) - n < Distance(s.sequence, number))
      <4>1. n \in 1 .. n
        BY <2>3
      <4>2. ~Newer(s.kept[n].sequence, number)
        BY <2>3, <4>1
      <4> QED
        BY <2>7, <3>2, <3>3, <3>4, <4>2, NewerIsLater
    <3>6. Distance(s.sequence, acked) \in Nat /\ Distance(s.sequence, number) \in Nat
      BY SessionHas
    <3>7. n <= Len(s.kept) - Distance(s.sequence, acked)
      BY <1>0, <2>3, <2>7, <3>5, <3>6
    <3> QED
      BY <2>3, <2>5, <2>7, <3>7, CutLetsGo DEF left
  <2> QED
    BY <2>2, <2>5, <2>6, <2>7 DEF LetsGo
<1> QED
  BY <1>1, <1>2

LEMMA RunKeeps ==
    ASSUME NEW s \in Sessions, NEW m \in RunsToUs
    PROVE  \E r \in Sessions : Keeps(r, Run(s, m)) /\ LetsGo(s, r, m.acknowledged)
<1> DEFINE known == Forget(s, m.acknowledged)
<1>1. m.acknowledged \in Numbers
  BY DEF RunsToUs
<1>2. PICK r \in Sessions : Keeps(r, known) /\ LetsGo(s, r, m.acknowledged)
  BY <1>1, ForgetKeeps
<1>3. Run(s, m) \in {s, RunAfterGap(known, m), Drain(Take(known, m, FALSE))}
  BY DEF Run
<1> HIDE DEF known
<1>4. known \in Sessions
  BY <1>2, KeepsIs
<1>5. Keeps(r, RunAfterGap(known, m))
  BY <1>2, <1>4, RunAfterGapKeeps, KeepsOn
<1>6. Keeps(r, Drain(Take(known, m, FALSE)))
  <2> DEFINE taken == Take(known, m, FALSE)
  <2>1. Keeps(known, taken) /\ taken \in Sessions
    BY <1>4, TakeKeeps, KeepsIs
  <2> HIDE DEF taken
  <2>2. Keeps(r, taken) /\ Keeps(taken, Drain(taken))
    BY <1>2, <2>1, KeepsOn, DrainKeeps
  <2> QED
    BY <2>2, KeepsOn DEF taken
<1>7. CASE Run(s, m) = s
  BY <1>7, AloneKeeps, NoneLetGo
<1> QED
  BY <1>2, <1>3, <1>5, <1>6, <1>7

LEMMA ReceiveKeeps ==
    ASSUME NEW s \in Sessions, NEW f \in FramesToUs
    PROVE  \E r \in Sessions :
              /\ Keeps(r, Receive(s, f))
              /\ \/ r = s
                 \/ f.kind = "run" /\ f \in RunsToUs /\ LetsGo(s, r, f.acknowledged)
<1>1. CASE f \in RunsToUs
  <2>1. Receive(s, f) = Run(s, f) /\ f.kind = "run"
    BY <1>1 DEF Receive, RunsToUs
  <2> QED
    BY <1>1, <2>1, RunKeeps
<1>2. CASE f = Agreement
  <2>1. Receive(s, f) = Agreed(s, Agreement)
    BY <1>2 DEF Receive, Agreement
  <2> QED
    BY <2>1, AgreedKeeps
<1>3. CASE f = StopMessage
  <2>1. Receive(s, f) = Stopped(s, f)
    BY <1>3 DEF Receive, StopMessage
  <2> QED
    BY <2>1, StoppedKeeps
<1> QED
  BY <1>1, <1>2, <1>3 DEF FramesToUs

-----------------------------------------------------------------------------
(* The wires.                                                               *)

LEMMA RangeHas ==
    ASSUME NEW S, NEW wire \in Seq(S)
    PROVE  /\ Range(wire) \subseteq S
           /\ \A i \in 1 .. Len(wire) : wire[i] \in Range(wire)
           /\ \A f \in Range(wire) : \E i \in 1 .. Len(wire) : f = wire[i]
BY DEF Range

LEMMA TailHas ==
    ASSUME NEW S, NEW wire \in Seq(S), wire # <<>>
    PROVE  /\ Tail(wire) \in Seq(S) /\ Range(Tail(wire)) \subseteq Range(wire)
           /\ Head(wire) \in S /\ Head(wire) \in Range(wire)
<1>1. /\ Tail(wire) \in Seq(S) /\ Len(wire) \in Nat \ {0} /\ Len(Tail(wire)) = Len(wire) - 1
      /\ \A i \in 1 .. Len(wire) - 1 : Tail(wire)[i] = wire[i + 1]
  BY HeadTailProperties
<1>2. Head(wire) = wire[1] /\ 1 \in 1 .. Len(wire)
  BY <1>1
<1>3. Head(wire) \in S /\ Head(wire) \in Range(wire)
  BY <1>2, RangeHas
<1>4. ASSUME NEW f \in Range(Tail(wire)) PROVE f \in Range(wire)
  <2> DEFINE rest == Tail(wire)
  <2>0. rest \in Seq(S) /\ Len(rest) = Len(wire) - 1 /\ f \in Range(rest)
    BY <1>1, <1>4
  <2> HIDE DEF rest
  <2>a. \E i \in 1 .. Len(rest) : f = rest[i]
    BY <2>0, RangeHas
  <2>1. PICK i \in 1 .. Len(wire) - 1 : f = Tail(wire)[i]
    BY <2>0, <2>a DEF rest
  <2>2. i + 1 \in 1 .. Len(wire) /\ f = wire[i + 1]
    BY <1>1, <2>1
  <2> QED
    BY <2>2, RangeHas
<1> QED
  BY <1>1, <1>3, <1>4

LEMMA ConcatHas ==
    ASSUME NEW S, NEW wire \in Seq(S), NEW frames \in Seq(S)
    PROVE  /\ wire \o frames \in Seq(S)
           /\ Range(wire \o frames) \subseteq Range(wire) \cup Range(frames)
<1> DEFINE sum == wire \o frames
<1>1. /\ sum \in Seq(S) /\ Len(sum) = Len(wire) + Len(frames)
      /\ Len(wire) \in Nat /\ Len(frames) \in Nat
      /\ \A i \in 1 .. Len(wire) + Len(frames) :
            sum[i] = IF i <= Len(wire) THEN wire[i] ELSE frames[i - Len(wire)]
  BY ConcatProperties, LenProperties
<1> HIDE DEF sum
<1>2. ASSUME NEW f \in Range(sum) PROVE f \in Range(wire) \cup Range(frames)
  <2>1. PICK i \in 1 .. Len(wire) + Len(frames) : f = sum[i]
    BY <1>1, RangeHas
  <2>2. CASE i <= Len(wire)
    <3>1. i \in 1 .. Len(wire) /\ f = wire[i]
      BY <1>1, <2>1, <2>2
    <3> QED
      BY <3>1, RangeHas
  <2>3. CASE ~(i <= Len(wire))
    <3>1. i - Len(wire) \in 1 .. Len(frames)
      BY <1>1, <2>3
    <3>2. f = frames[i - Len(wire)]
      BY <1>1, <2>1, <2>3
    <3> QED
      BY <3>1, <3>2, RangeHas
  <2> QED
    BY <2>2, <2>3
<1> QED
  BY <1>1, <1>2 DEF sum

LEMMA PutHas ==
    ASSUME NEW S, NEW wire \in Seq(S), NEW frames \in Seq(S)
    PROVE  /\ Put(wire, frames) \in Seq(S)
           /\ Range(Put(wire, frames)) \subseteq Range(wire) \cup Range(frames)
<1> DEFINE sum == wire \o frames
           most == Smaller(Len(sum), WireRoom)
           some == SubSeq(sum, 1, most)
<1>1. sum \in Seq(S) /\ Len(sum) \in Nat /\ Range(sum) \subseteq Range(wire) \cup Range(frames)
  BY ConcatHas, LenProperties
<1> HIDE DEF sum
<1>2. most \in 0 .. Len(sum)
  BY <1>1, HostAssumption DEF Smaller
<1> HIDE DEF most
<1>3. some \in Seq(S) /\ Len(some) = most /\ \A i \in 1 .. most : some[i] = sum[i]
  BY <1>1, <1>2, SubSeqProperties
<1> HIDE DEF some
<1>4. ASSUME NEW f \in Range(some) PROVE f \in Range(sum)
  <2>1. PICK i \in 1 .. most : f = some[i]
    BY <1>3, RangeHas
  <2>2. i \in 1 .. Len(sum) /\ f = sum[i]
    BY <1>1, <1>2, <1>3, <2>1
  <2> QED
    BY <1>1, <2>2, RangeHas
<1>5. Put(wire, frames) = some
  BY DEF Put, some, most, sum
<1> QED
  BY <1>1, <1>3, <1>4, <1>5

LEMMA PutOneHas ==
    ASSUME NEW S, NEW wire \in Seq(S), NEW f \in S
    PROVE  /\ Put(wire, <<f>>) \in Seq(S)
           /\ Range(Put(wire, <<f>>)) \subseteq Range(wire) \cup {f}
<1>1. <<f>> \in Seq(S) /\ Range(<<f>>) = {f}
  BY DEF Range
<1> QED
  BY <1>1, PutHas

LEMMA SwapHas ==
    ASSUME NEW S, NEW wire \in Seq(S), Len(wire) > 1
    PROVE  /\ <<wire[2], wire[1]>> \o SubSeq(wire, 3, Len(wire)) \in Seq(S)
           /\ Range(<<wire[2], wire[1]>> \o SubSeq(wire, 3, Len(wire))) \subseteq Range(wire)
<1> DEFINE fore == <<wire[2], wire[1]>>
           rest == SubSeq(wire, 3, Len(wire))
<1>1. Len(wire) \in Nat /\ 1 \in 1 .. Len(wire) /\ 2 \in 1 .. Len(wire)
  BY LenProperties
<1>2. fore \in Seq(S) /\ Range(fore) \subseteq Range(wire)
  <2>1. wire[1] \in S /\ wire[2] \in S /\ wire[1] \in Range(wire) /\ wire[2] \in Range(wire)
    BY <1>1, RangeHas, ElementOfSeq
  <2>2. fore \in Seq(S) /\ DOMAIN fore = {1, 2} /\ fore[1] = wire[2] /\ fore[2] = wire[1]
    BY <2>1
  <2> QED
    BY <2>1, <2>2 DEF Range
<1>3. /\ rest \in Seq(S) /\ Len(rest) = Len(wire) - 2
      /\ \A i \in 1 .. Len(wire) - 2 : rest[i] = wire[i + 2]
  <2>1. \A i \in 3 .. Len(wire) : wire[i] \in S
    BY <1>1, ElementOfSeq
  <2>2. 3 \in Int /\ Len(wire) \in Int
    BY <1>1
  <2>3. /\ rest \in Seq(S)
        /\ Len(rest) = IF 3 <= Len(wire) THEN Len(wire) - 3 + 1 ELSE 0
        /\ \A i \in 1 .. Len(wire) - 3 + 1 : rest[i] = wire[3 + i - 1]
    <3> HIDE DEF fore
    <3> QED
      BY <2>1, <2>2, SubSeqProperties
  <2> HIDE DEF rest
  <2>4. Len(rest) = Len(wire) - 2
    <3>1. CASE 3 <= Len(wire)
      BY <1>1, <2>3, <3>1
    <3>2. CASE ~(3 <= Len(wire))
      <4>1. Len(rest) = 0
        BY <2>3, <3>2
      <4>2. Len(wire) \in Nat /\ Len(wire) > 1
        BY <1>1
      <4>3. Len(wire) = 2
        <5>1. \A n \in Nat : n > 1 /\ ~(3 <= n) => n = 2
          OBVIOUS
        <5> QED
          BY <3>2, <4>2, <5>1, Zenon
      <4> QED
        BY <4>1, <4>3
    <3> QED
      BY <3>1, <3>2
  <2>5. \A i \in 1 .. Len(wire) - 2 : i \in 1 .. Len(wire) - 3 + 1 /\ 3 + i - 1 = i + 2
    BY <1>1
  <2>6. \A i \in 1 .. Len(wire) - 2 : rest[i] = wire[i + 2]
    BY <2>3, <2>5, Zenon
  <2> QED
    BY <2>3, <2>4, <2>6
<1> HIDE DEF fore, rest
<1>4. ASSUME NEW f \in Range(rest) PROVE f \in Range(wire)
  <2>1. PICK i \in 1 .. Len(wire) - 2 : f = rest[i]
    BY <1>3, RangeHas
  <2>2. i + 2 \in 1 .. Len(wire) /\ f = wire[i + 2]
    BY <1>1, <1>3, <2>1
  <2> QED
    BY <2>2, RangeHas
<1>5. fore \o rest \in Seq(S) /\ Range(fore \o rest) \subseteq Range(fore) \cup Range(rest)
  BY <1>2, <1>3, ConcatHas
<1> QED
  BY <1>2, <1>4, <1>5 DEF fore, rest

-----------------------------------------------------------------------------
(* The invariant.                                                           *)

Messages == [sequence : Numbers, slots : Nat, credit : Nat, data : Seq(Nat), ended : BOOLEAN]

Hosts ==
    [state : {"idle", "up", "over", "gone"}, sequence : Numbers, acked : Numbers,
     owes : BOOLEAN, credit : Nat, granted : Int, typed : Seq(Nat),
     unacked : Seq(Messages), said : Nat]

TypeOK ==
    /\ session \in Sessions /\ session.outgoing = <<>> /\ session.data = <<>>
    /\ host \in Hosts
    /\ toHost \in Seq(FramesToHost) /\ toUs \in Seq(FramesToUs)
    /\ keys \in Nat /\ screen \in Seq(Nat) /\ first \in Numbers /\ losses \in Nat

\* What is on its way to the host and still new to it is kept, and what is on
\* its way here acknowledges no more than the host has.
Typing ==
    host.state # "gone" =>
       /\ Sender(session, host.acked, Len(host.typed), keys)
       /\ host.typed = Upto(0, Len(host.typed))
       /\ \A f \in Range(toHost) :
             /\ f.kind = "run" /\ f.slots # 0
             /\ Distance(session.sequence, f.sequence) < Distance(session.sequence, host.acked)
             => IsKept(session, f)
       /\ \A f \in Range(toUs) :
             f.kind = "run" =>
                Distance(session.sequence, host.acked) <= Distance(session.sequence, f.acknowledged)

\* Prompt, said of what is on the wires.
LEMMA PromptSays ==
    ASSUME TypeOK, Prompt, host.state # "gone"
    PROVE  /\ Len(session.kept) < Half
           /\ \A f \in Range(toHost) : f.kind = "run" =>
                 /\ Distance(session.sequence, f.sequence) < Half
                 /\ Distance(host.sequence, f.acknowledged) < Half
           /\ \A f \in Range(toUs) : f.kind = "run" =>
                 /\ Distance(host.sequence, f.sequence) < Half
                 /\ Distance(session.sequence, f.acknowledged) < Half
BY DEF Prompt, Range

\* A run frame's numbers.
LEMMA FrameHas ==
    /\ \A f \in FramesToHost : f.kind = "run" => f \in RunsToHost
    /\ \A f \in FramesToUs : f.kind = "run" => f \in RunsToUs
    /\ \A f \in RunsToHost : f.sequence \in Numbers /\ f.acknowledged \in Numbers
    /\ \A f \in RunsToUs : f.sequence \in Numbers /\ f.acknowledged \in Numbers
<1>1. \A f \in FramesToHost : f.kind = "run" => f \in RunsToHost
  BY DEF FramesToHost
<1>2. \A f \in FramesToUs : f.kind = "run" => f \in RunsToUs
  BY DEF FramesToUs, Agreement, StopMessage
<1>3. \A f \in RunsToHost : f.sequence \in Numbers /\ f.acknowledged \in Numbers
  BY DEF RunsToHost
<1>4. \A f \in RunsToUs : f.sequence \in Numbers /\ f.acknowledged \in Numbers
  BY DEF RunsToUs
<1> QED
  BY <1>1, <1>2, <1>3, <1>4

LEMMA InitTyping == Init => TypeOK /\ Typing
<1> SUFFICES ASSUME Init PROVE TypeOK /\ Typing
  OBVIOUS
<1>0. 0 \in Numbers /\ 0 \in Int /\ 1 \in Int /\ 0 \in 0 .. MaxCredit
  BY NumbersAssumption DEF Numbers
<1>1. NewSession \in Sessions
  BY <1>0 DEF NewSession, Sessions, States, Names, Reasons
<1>2. Host0 \in Hosts
  BY <1>0 DEF Host0, Hosts
<1>3. TypeOK
  BY <1>0, <1>1, <1>2 DEF Init, TypeOK, NewSession
<1>4. Numbered(NewSession) /\ OutIsKept(NewSession)
  BY DEF Numbered, OutIsKept, NewSession
<1>5. Upto(0, 0) = <<>>
  <2>1. Upto(0, 0) \in Seq(Nat) /\ Len(Upto(0, 0)) = 0
    BY UptoCut
  <2> QED
    BY <2>1, EmptySeq
<1>6. Laid(NewSession, 0, 0, 0)
  <2>1. Distance(NewSession.sequence, 0) = 0 /\ Len(NewSession.kept) = 0
    BY DEF Distance, NewSession
  <2> DEFINE ends == [j \in 0 .. 0 |-> 0]
             left == Distance(NewSession.sequence, 0)
  <2>2. ends \in [0 .. 0 -> 0 .. 0] /\ ends[0] = 0
    OBVIOUS
  <2>3. NewSession.typed = Upto(ends[0], 0)
    BY <1>5, <2>2 DEF NewSession
  <2> HIDE DEF ends
  <2>4. left = 0 /\ left <= Len(NewSession.kept) /\ 1 .. left = {}
    BY <2>1
  <2>5. \E e \in [0 .. left -> 0 .. 0] :
           /\ e[0] = 0
           /\ \A j \in 1 .. left :
                 /\ e[j - 1] <= e[j]
                 /\ NewSession.kept[Len(NewSession.kept) - left + j].data = Upto(e[j - 1], e[j])
           /\ NewSession.typed = Upto(e[left], 0)
    BY <2>2, <2>3, <2>4
  <2> QED
    BY <2>4, <2>5, Zenon DEF Laid
<1>7. Typing
  <2>1. session = NewSession /\ host.acked = 0 /\ host.typed = <<>> /\ Len(host.typed) = 0 /\ keys = 0
    BY DEF Init, Host0
  <2>2. Range(toHost) = {} /\ Range(toUs) = {}
    BY DEF Init, Range
  <2> QED
    BY <1>4, <1>5, <1>6, <2>1, <2>2 DEF Typing, Sender
<1> QED
  BY <1>3, <1>7

-----------------------------------------------------------------------------
(* This end's steps.                                                        *)

\* What a flush leaves and puts out.
LEMMA DoHas ==
    ASSUME TypeOK, NEW after \in Sessions, Do(after)
    PROVE  /\ session' \in Sessions /\ session'.outgoing = <<>> /\ session'.data = <<>>
           /\ session'.kept = after.kept /\ session'.sequence = after.sequence
           /\ session'.typed = after.typed
           /\ session'.heard = after.heard /\ session'.heardAny = after.heardAny
           /\ session'.early = after.early /\ session'.state = after.state
           /\ session'.ended = after.ended
           /\ toHost' \in Seq(FramesToHost)
           /\ Range(toHost') \subseteq Range(toHost) \cup Range(after.outgoing)
           /\ screen' = screen \o after.data /\ screen' \in Seq(Nat)
<1>1. session' = [after EXCEPT !.outgoing = <<>>, !.data = <<>>]
  BY DEF Do, Flushed
<1>2. <<>> \in Seq(FramesToHost) /\ <<>> \in Seq(Nat)
  OBVIOUS
<1>3. session' \in Sessions
  BY <1>1, <1>2 DEF Sessions
<1>4. /\ session'.outgoing = <<>> /\ session'.data = <<>>
      /\ session'.kept = after.kept /\ session'.sequence = after.sequence
      /\ session'.typed = after.typed
      /\ session'.heard = after.heard /\ session'.heardAny = after.heardAny
      /\ session'.early = after.early /\ session'.state = after.state
      /\ session'.ended = after.ended
  BY <1>1 DEF Sessions
<1>5. /\ toHost' \in Seq(FramesToHost)
      /\ Range(toHost') \subseteq Range(toHost) \cup Range(after.outgoing)
  BY PutHas, SessionHas DEF Do, TypeOK
<1>6. screen' = screen \o after.data
  BY DEF Do
<1>7. screen' \in Seq(Nat)
  <2>1. screen \in Seq(Nat) /\ after.data \in Seq(Nat)
    BY DEF TypeOK, Sessions
  <2> QED
    BY <1>6, <2>1, ConcatProperties
<1> QED
  BY <1>3, <1>4, <1>5, <1>6, <1>7

\* A step of this end's that lets go of no more than it may keeps the typing in
\* order: r is what the step begins with once it has let go and been typed to.
LEMMA DoTyping ==
    ASSUME TypeOK, Typing, Prompt, Prompt', UNCHANGED host, Range(toUs') \subseteq Range(toUs),
           keys' \in Nat,
           NEW after, Do(after), NEW r \in Sessions, Keeps(r, after),
           r.sequence = session.sequence,
           host.state # "gone" =>
              /\ Sender(r, host.acked, Len(host.typed), keys')
              /\ \A f : /\ IsKept(session, f)
                        /\ Distance(session.sequence, f.sequence)
                              < Distance(session.sequence, host.acked)
                        => IsKept(r, f)
    PROVE  Typing'
<1> SUFFICES ASSUME host.state # "gone"
             PROVE  /\ Sender(session', host.acked, Len(host.typed), keys')
                    /\ \A f \in Range(toHost') :
                          /\ f.kind = "run" /\ f.slots # 0
                          /\ Distance(session'.sequence, f.sequence)
                                < Distance(session'.sequence, host.acked)
                          => IsKept(session', f)
                    /\ \A f \in Range(toUs') :
                          f.kind = "run" =>
                             Distance(session'.sequence, host.acked)
                                <= Distance(session'.sequence, f.acknowledged)
  BY DEF Typing
<1> DEFINE n == Sent(r, after)
<1>1. /\ after \in Sessions /\ session' \in Sessions /\ session'.outgoing = <<>>
      /\ session'.kept = after.kept /\ session'.sequence = after.sequence
      /\ session'.typed = after.typed
      /\ Range(toHost') \subseteq Range(toHost) \cup Range(after.outgoing)
  <2>1. after \in Sessions
    BY KeepsIs
  <2> QED
    BY <2>1, DoHas
<1>2. /\ host.acked \in Numbers /\ Len(host.typed) \in Nat /\ session.sequence \in Numbers
      /\ session \in Sessions /\ host \in Hosts
  <2>1. session \in Sessions /\ host \in Hosts
    BY DEF TypeOK
  <2>2. host.acked \in Numbers /\ host.typed \in Seq(Nat)
    BY <2>1 DEF Hosts
  <2> QED
    BY <2>1, <2>2, SessionHas, LenProperties
<1>3. /\ Len(session.kept) < Half /\ Len(after.kept) < Half
      /\ Len(session.kept) \in Nat /\ Len(after.kept) \in Nat
  <2>1. Len(session'.kept) < Half
    BY DEF Prompt
  <2>2. Len(session.kept) < Half
    BY DEF Prompt
  <2> QED
    BY <1>1, <1>2, <2>1, <2>2, SessionHas
<1>4. Sender(after, host.acked, Len(host.typed), keys')
  BY <1>2, <1>3 DEF Keeps
<1>5. Sender(session', host.acked, Len(host.typed), keys')
  <2>1. Numbered(session')
    BY <1>1, <1>4 DEF Sender, Numbered
  <2>2. Laid(session', host.acked, Len(host.typed), keys')
    BY <1>1, <1>4, Zenon DEF Sender, Laid
  <2>3. OutIsKept(session')
    BY <1>1 DEF OutIsKept
  <2> QED
    BY <2>1, <2>2, <2>3 DEF Sender
<1>6. n \in Nat /\ n < Half
  <2>1. Sent(r, after) >= 0 /\ Len(r.kept) \in Nat
    BY SessionHas DEF Keeps
  <2>2. \A a, b, h \in Nat : a < h /\ a - b >= 0 => a - b \in Nat /\ a - b < h
    OBVIOUS
  <2>3. Half \in Nat
    BY HalfType
  <2> QED
    BY <1>3, <2>1, <2>2, <2>3 DEF Sent
<1>7. \A x \in Numbers : Distance(session.sequence, x) + n < NumberSpan =>
                            Distance(session'.sequence, x) = Distance(session.sequence, x) + n
  BY <1>1 DEF Keeps
<1> HIDE DEF n
<1>8. \A x \in Numbers : Distance(session.sequence, x) \in Nat
  BY <1>2, SessionHas
<1>9. \A x \in Numbers : Distance(session.sequence, x) < Half =>
                            Distance(session'.sequence, x) = Distance(session.sequence, x) + n
  BY <1>6, <1>7, <1>8, HalfType
<1>10. Distance(session.sequence, host.acked) < Half
  <2>1. Distance(session.sequence, host.acked) <= Len(session.kept)
    BY DEF Typing, Sender, Laid
  <2> QED
    BY <1>2, <1>3, <1>8, <2>1, HalfType
<1>11. ASSUME NEW f \in Range(toHost'), f.kind = "run", f.slots # 0,
              Distance(session'.sequence, f.sequence) < Distance(session'.sequence, host.acked)
       PROVE  IsKept(session', f)
  <2>1. CASE f \in Range(toHost)
    <3>1. f.sequence \in Numbers /\ Distance(session.sequence, f.sequence) < Half
      <4>1. toHost \in Seq(FramesToHost)
        BY DEF TypeOK
      <4>2. f \in FramesToHost
        BY <2>1, <4>1, RangeHas
      <4> QED
        BY <1>11, <2>1, <4>2, FrameHas, PromptSays
    <3>2. Distance(session.sequence, f.sequence) < Distance(session.sequence, host.acked)
      BY <1>2, <1>6, <1>8, <1>9, <1>10, <1>11, <3>1
    <3>3. IsKept(session, f)
      BY <1>11, <2>1, <3>2 DEF Typing
    <3>4. IsKept(r, f)
      BY <3>2, <3>3
    <3>5. PICK j \in 1 .. Len(r.kept) :
                 /\ r.kept[j].sequence = f.sequence /\ r.kept[j].data = f.data
                 /\ r.kept[j].slots = f.slots /\ r.kept[j].credit = f.credit
      BY <3>4 DEF IsKept
    <3>6. j \in 1 .. Len(after.kept) /\ after.kept[j] = r.kept[j]
      <4>1. Sent(r, after) >= 0 /\ after.kept[j] = r.kept[j]
        BY <3>5 DEF Keeps
      <4>2. Len(r.kept) \in Nat
        BY SessionHas
      <4> QED
        BY <1>3, <3>5, <4>1, <4>2 DEF Sent
    <3> QED
      BY <1>1, <3>5, <3>6 DEF IsKept
  <2>2. CASE f \in Range(after.outgoing)
    <3>1. after.outgoing \in Seq(FramesToHost)
      BY <1>1, SessionHas
    <3>2. PICK i \in 1 .. Len(after.outgoing) : f = after.outgoing[i]
      BY <2>2, <3>1, RangeHas
    <3>3. IsKept(after, f)
      BY <1>4, <1>11, <3>2 DEF Sender, OutIsKept
    <3> QED
      BY <1>1, <3>3 DEF IsKept
  <2> QED
    BY <1>1, <2>1, <2>2
<1>12. ASSUME NEW f \in Range(toUs'), f.kind = "run"
       PROVE  Distance(session'.sequence, host.acked) <= Distance(session'.sequence, f.acknowledged)
  <2>1. f \in Range(toUs) /\ toUs \in Seq(FramesToUs)
    BY DEF TypeOK
  <2>2. f.acknowledged \in Numbers /\ Distance(session.sequence, f.acknowledged) < Half
    <3>1. f \in FramesToUs
      BY <2>1, RangeHas
    <3> QED
      BY <1>12, <2>1, <3>1, FrameHas, PromptSays
  <2>3. Distance(session.sequence, host.acked) <= Distance(session.sequence, f.acknowledged)
    BY <1>12, <2>1 DEF Typing
  <2> QED
    BY <1>2, <1>6, <1>8, <1>9, <1>10, <2>2, <2>3
<1> QED
  BY <1>5, <1>11, <1>12

\* A step of this end's has the right types.
LEMMA DoType ==
    ASSUME TypeOK, NEW after \in Sessions, Do(after), UNCHANGED <<host, losses>>,
           toUs' \in Seq(FramesToUs), keys' \in Nat, first' \in Numbers
    PROVE  TypeOK'
<1>1. /\ session' \in Sessions /\ session'.outgoing = <<>> /\ session'.data = <<>>
      /\ toHost' \in Seq(FramesToHost) /\ screen' \in Seq(Nat)
  BY DoHas
<1>2. host' \in Hosts /\ losses' \in Nat
  BY DEF TypeOK
<1> QED
  BY <1>1, <1>2 DEF TypeOK

\* A step that only keeps: nothing new comes in.
LEMMA KeepsStep ==
    ASSUME TypeOK, NEW after, Keeps(session, after), Do(after),
           UNCHANGED <<host, toUs, keys, first, losses>>
    PROVE  TypeOK' /\ (Typing /\ Prompt /\ Prompt' => Typing')
<1>1. after \in Sessions /\ session \in Sessions
  BY KeepsIs DEF TypeOK
<1>2. toUs' \in Seq(FramesToUs) /\ keys' \in Nat /\ first' \in Numbers
  BY DEF TypeOK
<1>3. TypeOK'
  BY <1>1, <1>2, DoType
<1>4. ASSUME Typing, Prompt, Prompt' PROVE Typing'
  <2>1. host.state # "gone" => Sender(session, host.acked, Len(host.typed), keys')
    BY <1>4 DEF Typing
  <2>2. Range(toUs') \subseteq Range(toUs)
    OBVIOUS
  <2> QED
    BY <1>1, <1>2, <1>4, <2>1, <2>2, DoTyping
<1> QED
  BY <1>3, <1>4

\* A step that leaves this end alone: what it adds to the wire to this end
\* acknowledges what the host has.
LEMMA QuietTyping ==
    ASSUME TypeOK, Typing, UNCHANGED <<session, keys>>,
           host'.state # "gone" => host.state # "gone",
           host'.acked = host.acked, host'.typed = host.typed,
           Range(toHost') \subseteq Range(toHost),
           \A f \in Range(toUs') :
              f \in Range(toUs) \/ (f.kind = "run" => f.acknowledged = host.acked)
    PROVE  Typing'
<1>0. Distance(session.sequence, host.acked) \in Nat
  <2>1. session.sequence \in Numbers /\ host.acked \in Numbers
    BY DEF TypeOK, Sessions, Hosts
  <2> QED
    BY <2>1, DistanceType
<1> SUFFICES ASSUME host.state # "gone"
             PROVE  /\ Sender(session, host.acked, Len(host.typed), keys)
                    /\ host.typed = Upto(0, Len(host.typed))
                    /\ \A f \in Range(toHost') :
                          /\ f.kind = "run" /\ f.slots # 0
                          /\ Distance(session.sequence, f.sequence)
                                < Distance(session.sequence, host.acked)
                          => IsKept(session, f)
                    /\ \A f \in Range(toUs') :
                          f.kind = "run" =>
                             Distance(session.sequence, host.acked)
                                <= Distance(session.sequence, f.acknowledged)
  BY DEF Typing
<1>1. /\ Sender(session, host.acked, Len(host.typed), keys)
      /\ host.typed = Upto(0, Len(host.typed))
      /\ \A f \in Range(toHost) :
            /\ f.kind = "run" /\ f.slots # 0
            /\ Distance(session.sequence, f.sequence) < Distance(session.sequence, host.acked)
            => IsKept(session, f)
      /\ \A f \in Range(toUs) :
            f.kind = "run" =>
               Distance(session.sequence, host.acked) <= Distance(session.sequence, f.acknowledged)
  BY DEF Typing
<1>2. ASSUME NEW f \in Range(toUs'), f.kind = "run"
      PROVE  Distance(session.sequence, host.acked) <= Distance(session.sequence, f.acknowledged)
  <2>1. CASE f \in Range(toUs)
    BY <1>1, <1>2, <2>1
  <2>2. CASE f.acknowledged = host.acked
    BY <1>0, <2>2
  <2> QED
    BY <1>2, <2>1, <2>2
<1> QED
  BY <1>1, <1>2

LEMMA HearFrameStep ==
    ASSUME TypeOK, HearFrame
    PROVE  TypeOK' /\ (Typing /\ Prompt /\ Prompt' => Typing')
<1> DEFINE f == Head(toUs)
<1>1. /\ toUs \in Seq(FramesToUs) /\ session \in Sessions /\ session.outgoing = <<>>
      /\ keys \in Nat /\ first \in Numbers
  BY DEF TypeOK
<1>2. /\ toUs' \in Seq(FramesToUs) /\ Range(toUs') \subseteq Range(toUs)
      /\ f \in FramesToUs /\ f \in Range(toUs)
  BY <1>1, TailHas DEF HearFrame
<1>3. UNCHANGED <<host, losses, keys>>
  BY DEF HearFrame
<1>4. first' = first \/ first' = session'.heard
  BY DEF HearFrame
<1>5. CASE session.state = "Closed"
  <2>1. UNCHANGED <<session, toHost, screen>> /\ first' = first
    BY <1>5 DEF HearFrame
  <2>2. TypeOK'
    BY <1>2, <1>3, <2>1 DEF TypeOK
  <2>3. Typing => Typing'
    BY <1>2, <1>3, <2>1, QuietTyping
  <2> QED
    BY <2>2, <2>3
<1>6. CASE session.state # "Closed"
  <2> DEFINE after == Receive(session, f)
  <2>1. Do(after)
    BY <1>6 DEF HearFrame
  <2>2. PICK r \in Sessions :
           /\ Keeps(r, after)
           /\ \/ r = session
              \/ f.kind = "run" /\ f \in RunsToUs /\ LetsGo(session, r, f.acknowledged)
    BY <1>1, <1>2, ReceiveKeeps
  <2> HIDE DEF after, f
  <2>3. after \in Sessions
    BY <2>2, KeepsIs
  <2>4. first' \in Numbers
    <3>1. session'.heard \in Numbers
      BY <2>1, <2>3, DoHas, SessionHas
    <3> QED
      BY <1>1, <1>4, <3>1
  <2>5. TypeOK'
    BY <1>1, <1>2, <1>3, <2>1, <2>3, <2>4, DoType
  <2>6. ASSUME Typing, Prompt, Prompt' PROVE Typing'
    <3>1. r.sequence = session.sequence
      BY <2>2 DEF LetsGo
    <3>2. ASSUME host.state # "gone"
          PROVE  /\ Sender(r, host.acked, Len(host.typed), keys')
                 /\ \A g : /\ IsKept(session, g)
                           /\ Distance(session.sequence, g.sequence)
                                 < Distance(session.sequence, host.acked)
                           => IsKept(r, g)
      <4>1. Sender(session, host.acked, Len(host.typed), keys)
        BY <2>6, <3>2 DEF Typing
      <4>2. CASE r = session
        BY <1>3, <4>1, <4>2
      <4>3. CASE f.kind = "run" /\ f \in RunsToUs /\ LetsGo(session, r, f.acknowledged)
        <5>1. /\ Len(session.kept) < Half
              /\ Distance(session.sequence, f.acknowledged) < Half
          BY <1>2, <2>6, <3>2, <4>3, PromptSays
        <5>2. Distance(session.sequence, host.acked) <= Distance(session.sequence, f.acknowledged)
          BY <1>2, <2>6, <3>2, <4>3 DEF Typing
        <5>3. host.acked \in Numbers /\ Len(host.typed) \in Nat
          <6>1. host.acked \in Numbers /\ host.typed \in Seq(Nat)
            BY DEF TypeOK, Hosts
          <6> QED
            BY <6>1, LenProperties
        <5>4. /\ Sender(r, host.acked, Len(host.typed), keys)
              /\ \A g : /\ IsKept(session, g)
                        /\ Distance(session.sequence, g.sequence)
                              < Distance(session.sequence, host.acked)
                        => IsKept(r, g)
          BY <1>1, <4>1, <4>3, <5>1, <5>2, <5>3 DEF LetsGo
        <5> QED
          BY <1>3, <5>4
      <4> QED
        BY <2>2, <4>2, <4>3
    <3> QED
      BY <1>1, <1>2, <1>3, <2>1, <2>2, <2>6, <3>1, <3>2, DoTyping
  <2> QED
    BY <2>5, <2>6
<1> QED
  BY <1>5, <1>6

LEMMA TypeKeyStep ==
    ASSUME TypeOK, TypeKey
    PROVE  TypeOK' /\ (Typing /\ Prompt /\ Prompt' => Typing')
<1> DEFINE after == Write(session, <<keys + 1>>)
<1>1. /\ toUs \in Seq(FramesToUs) /\ session \in Sessions
      /\ keys \in Nat /\ first \in Numbers /\ host \in Hosts
  BY DEF TypeOK
<1>2. /\ Do(after) /\ IsOpen(session) /\ keys' = keys + 1 /\ UNCHANGED <<host, toUs, first, losses>>
  BY DEF TypeKey
<1>3. PICK r \in Sessions :
         /\ Keeps(r, after)
         /\ r.kept = session.kept /\ r.sequence = session.sequence
         /\ r.outgoing = session.outgoing
         /\ \A acked \in Numbers, got \in Nat :
               Sender(session, acked, got, keys) => Sender(r, acked, got, keys + 1)
  BY <1>1, <1>2, WriteKeeps
<1> HIDE DEF after
<1>4. after \in Sessions
  BY <1>3, KeepsIs
<1>5. TypeOK'
  <2>1. toUs' \in Seq(FramesToUs) /\ keys' \in Nat /\ first' \in Numbers
    BY <1>1, <1>2
  <2> QED
    BY <1>2, <1>4, <2>1, DoType
<1>6. ASSUME Typing, Prompt, Prompt' PROVE Typing'
  <2>1. host.acked \in Numbers /\ Len(host.typed) \in Nat
    <3>1. host.acked \in Numbers /\ host.typed \in Seq(Nat)
      BY DEF TypeOK, Hosts
    <3> QED
      BY <3>1, LenProperties
  <2>2. host.state # "gone" => Sender(r, host.acked, Len(host.typed), keys')
    BY <1>2, <1>3, <1>6, <2>1 DEF Typing
  <2>3. \A g : IsKept(session, g) => IsKept(r, g)
    BY <1>3 DEF IsKept
  <2>4. keys' \in Nat /\ Range(toUs') \subseteq Range(toUs) /\ host' = host
    BY <1>1, <1>2
  <2> QED
    BY <1>2, <1>3, <1>6, <2>2, <2>3, <2>4, DoTyping
<1> QED
  BY <1>5, <1>6

LEMMA HereStep ==
    ASSUME TypeOK, Here
    PROVE  TypeOK' /\ (Typing /\ Prompt /\ Prompt' => Typing')
<1>0. session \in Sessions
  BY DEF TypeOK
<1>1. CASE CallNode
  BY <1>0, <1>1, CallKeeps, KeepsStep DEF CallNode
<1>2. CASE HoldExpires
  <2>1. Keeps(session, ReleaseTyping(session))
    BY <1>0, ReleaseTypingSends, KeepsIs
  <2> QED
    BY <1>2, <2>1, KeepsStep DEF HoldExpires
<1>3. CASE RetransmitDue
  BY <1>0, <1>3, RetransmitKeeps, KeepsStep DEF RetransmitDue
<1>4. CASE KeepaliveDue
  BY <1>0, <1>4, KeepaliveKeeps, KeepsStep DEF KeepaliveDue
<1>5. CASE Dead
  BY <1>0, <1>5, PeerGoneKeeps, KeepsStep DEF Dead
<1>6. CASE Drop
  BY <1>0, <1>6, CloseKeeps, KeepsStep DEF Drop
<1> QED
  BY <1>1, <1>2, <1>3, <1>4, <1>5, <1>6, HearFrameStep, TypeKeyStep DEF Here

-----------------------------------------------------------------------------
(* The host's steps.                                                        *)

\* What the host lets go of is a start of what it keeps, all acknowledged.
LEMMA HostForgetsHas ==
    ASSUME host \in Hosts, NEW number
    PROVE  /\ HostForgets(number) \in Seq(Messages)
           /\ \E n \in 0 .. Len(host.unacked) :
                 /\ HostForgets(number) = SubSeq(host.unacked, n + 1, Len(host.unacked))
                 /\ \A i \in 1 .. n : ~Newer(host.unacked[i].sequence, number)
<1> DEFINE last == Len(host.unacked)
           known == {n \in 0 .. last : \A i \in 1 .. n : ~Newer(host.unacked[i].sequence, number)}
           n == Max(known)
<1>1. host.unacked \in Seq(Messages) /\ last \in Nat
  <2>1. host.unacked \in Seq(Messages)
    BY DEF Hosts
  <2> QED
    BY <2>1, LenProperties
<1> HIDE DEF last
<1>2. 0 \in known /\ known \in SUBSET (0 .. last)
  BY <1>1
<1>3. n \in known
  <2>1. \E i \in known : \A j \in known : j <= i
    <3> HIDE DEF known
    <3> QED
      BY <1>1, <1>2, LastPlace
  <2>2. \A i, j \in known : j <= i <=> i >= j
    BY <1>1
  <2>3. \E i \in known : \A j \in known : i >= j
    BY <2>1, <2>2
  <2> HIDE DEF known
  <2> QED
    BY <2>3, Zenon DEF Max
<1>4. HostForgets(number) = SubSeq(host.unacked, n + 1, last)
  BY DEF HostForgets, last
<1> HIDE DEF n
<1>5. n \in 0 .. last /\ \A i \in 1 .. n : ~Newer(host.unacked[i].sequence, number)
  BY <1>3
<1>6. \A i \in n + 1 .. last : host.unacked[i] \in Messages
  BY <1>1, <1>5, ElementOfSeq DEF last
<1>7. SubSeq(host.unacked, n + 1, last) \in Seq(Messages)
  <2>1. n + 1 \in Int /\ last \in Int
    BY <1>1, <1>5
  <2> QED
    BY <1>6, <2>1, SubSeqProperties
<1> QED
  BY <1>4, <1>5, <1>7 DEF last

\* What the host says is typed, and acknowledges what it has.
LEMMA FrameOf ==
    ASSUME TypeOK, NEW m \in Messages
    PROVE  /\ Frame(host, m) \in FramesToUs /\ Frame(host, m) \in RunsToUs
           /\ Frame(host, m).acknowledged = host.acked
<1>1. host.acked \in Numbers
  BY DEF TypeOK, Hosts
<1> QED
  BY <1>1 DEF Frame, FramesToUs, RunsToUs, Messages

\* Two sides of a step of the host's that the typing does not see.
LEMMA HostQuiet ==
    ASSUME TypeOK, host' \in Hosts, UNCHANGED <<session, keys, screen, first>>,
           losses' \in Nat, toHost' \in Seq(FramesToHost), toUs' \in Seq(FramesToUs),
           Range(toHost') \subseteq Range(toHost),
           host'.state # "gone" =>
              /\ host.state # "gone"
              /\ host'.acked = host.acked /\ host'.typed = host.typed
              /\ \A f \in Range(toUs') :
                    f \in Range(toUs) \/ (f.kind = "run" => f.acknowledged = host.acked)
    PROVE  TypeOK' /\ (Typing => Typing')
<1>1. TypeOK'
  BY DEF TypeOK
<1>2. CASE host'.state = "gone"
  BY <1>1, <1>2 DEF Typing
<1>3. CASE host'.state # "gone"
  BY <1>1, <1>3, QuietTyping
<1> QED
  BY <1>2, <1>3

LEMMA SayHas ==
    ASSUME TypeOK, NEW m \in Messages, Say(m)
    PROVE  /\ host' \in Hosts /\ host'.acked = host.acked /\ host'.typed = host.typed
           /\ host.state = "up"
           /\ \E n \in Messages :
                 /\ n = [m EXCEPT !.sequence = NextNumber(host.sequence)]
                 /\ toUs' = Put(toUs, <<Frame(host, n)>>)
                 /\ host'.sequence = n.sequence
                 /\ host'.unacked = Append(host.unacked, n)
                 /\ host'.said = host.said + Len(n.data)
                 /\ host'.state = IF n.ended THEN "over" ELSE "up"
                 /\ n.slots = m.slots /\ n.data = m.data /\ n.ended = m.ended
           /\ Len(host.unacked) < HostWindow
<1> DEFINE n == [m EXCEPT !.sequence = NextNumber(host.sequence)]
           all == Append(host.unacked, n)
           credit == host.credit - m.slots
           granted == host.granted + m.credit
           said == host.said + Len(m.data)
           state == IF m.ended THEN "over" ELSE host.state
<1>1. host \in Hosts
  BY DEF TypeOK
<1>2. NextNumber(host.sequence) \in Numbers
  BY <1>1, DistanceOfNext DEF Hosts
<1>3. /\ n \in Messages /\ n.sequence = NextNumber(host.sequence)
      /\ n.slots = m.slots /\ n.data = m.data /\ n.ended = m.ended
  BY <1>2 DEF Messages
<1>4. /\ host' = [host EXCEPT !.sequence = n.sequence, !.unacked = all, !.credit = credit,
                              !.granted = granted, !.said = said, !.owes = FALSE,
                              !.state = state]
      /\ toUs' = Put(toUs, <<Frame(host, n)>>)
      /\ host.state = "up" /\ Len(host.unacked) < HostWindow
  BY DEF Say
<1> HIDE DEF n
<1>5. all \in Seq(Messages)
  BY <1>1, <1>3 DEF Hosts
<1>6. credit \in Nat /\ granted \in Int
  BY <1>1 DEF Hosts, Messages, Say
<1>7. said \in Nat
  <2>1. m.data \in Seq(Nat) /\ host.said \in Nat
    BY <1>1 DEF Messages, Hosts
  <2>2. Len(m.data) \in Nat
    BY <2>1, LenProperties
  <2> QED
    BY <2>1, <2>2
<1>8. state \in {"up", "over"}
  BY <1>4
<1>9. state = IF n.ended THEN "over" ELSE "up"
  BY <1>3, <1>4
<1>12. said = host.said + Len(n.data)
  BY <1>3
<1> HIDE DEF all, credit, granted, said, state
<1>10. host' \in Hosts
  BY <1>1, <1>2, <1>3, <1>4, <1>5, <1>6, <1>7, <1>8 DEF Hosts
<1>11. /\ host'.acked = host.acked /\ host'.typed = host.typed
       /\ host'.sequence = n.sequence /\ host'.unacked = all /\ host'.said = said
       /\ host'.state = state
  BY <1>1, <1>4 DEF Hosts
<1> QED
  BY <1>3, <1>4, <1>9, <1>10, <1>11, <1>12 DEF all, n

LEMMA SayStep ==
    ASSUME TypeOK, NEW m \in Messages, Say(m)
    PROVE  TypeOK' /\ (Typing => Typing')
<1>1. /\ host' \in Hosts /\ host'.acked = host.acked /\ host'.typed = host.typed
      /\ host.state = "up"
  BY SayHas
<1>2. PICK n \in Messages : toUs' = Put(toUs, <<Frame(host, n)>>)
  BY SayHas
<1>3. Frame(host, n) \in FramesToUs /\ Frame(host, n).acknowledged = host.acked
  BY FrameOf
<1>4. toUs \in Seq(FramesToUs) /\ toHost \in Seq(FramesToHost) /\ losses \in Nat
  BY DEF TypeOK
<1>5. /\ toUs' \in Seq(FramesToUs)
      /\ Range(toUs') \subseteq Range(toUs) \cup {Frame(host, n)}
  BY <1>2, <1>3, <1>4, PutOneHas
<1>6. UNCHANGED <<session, toHost, keys, screen, first, losses>>
  BY DEF Say
<1> QED
  BY <1>1, <1>3, <1>4, <1>5, <1>6, HostQuiet

\* What the host may say.
LEMMA SaidMessages ==
    ASSUME TypeOK, NEW g \in Grants
    PROVE  /\ [Blank EXCEPT !.slots = 1, !.credit = g, !.data = <<host.said + 1>>] \in Messages
           /\ [Blank EXCEPT !.slots = 1, !.credit = g] \in Messages
<1>1. g \in Nat /\ 0 \in Numbers /\ host.said \in Nat
  BY HostAssumption, NumbersAssumption DEF Numbers, TypeOK, Hosts
<1>2. <<host.said + 1>> \in Seq(Nat) /\ <<>> \in Seq(Nat)
  BY <1>1
<1> QED
  BY <1>1, <1>2 DEF Blank, Messages

LEMMA QuietMessages ==
    /\ [Blank EXCEPT !.slots = 1, !.ended = TRUE] \in Messages
    /\ Blank \in Messages
<1>1. 0 \in Numbers /\ <<>> \in Seq(Nat)
  BY NumbersAssumption DEF Numbers
<1> QED
  BY <1>1 DEF Blank, Messages

LEMMA HostSaysStep ==
    ASSUME TypeOK, HostSpeaks \/ HostGrants \/ HostEnds \/ HostAcks
    PROVE  \E m \in Messages : Say(m)
BY SaidMessages, QuietMessages DEF HostSpeaks, HostGrants, HostEnds, HostAcks

LEMMA HostRepeatsStep ==
    ASSUME TypeOK, HostRepeats
    PROVE  TypeOK' /\ (Typing => Typing')
<1> DEFINE all == [i \in 1 .. Len(host.unacked) |-> Frame(host, host.unacked[i])]
<1>1. host \in Hosts /\ host.unacked \in Seq(Messages) /\ toUs \in Seq(FramesToUs)
      /\ toHost \in Seq(FramesToHost) /\ losses \in Nat
  BY DEF TypeOK, Hosts
<1>2. ASSUME NEW i \in 1 .. Len(host.unacked)
      PROVE  /\ Frame(host, host.unacked[i]) \in FramesToUs
             /\ Frame(host, host.unacked[i]).acknowledged = host.acked
  BY <1>1, ElementOfSeq, FrameOf
<1>3. all \in Seq(FramesToUs)
  BY <1>1, <1>2
<1>4. \A f \in Range(all) : f.acknowledged = host.acked
  BY <1>2 DEF Range
<1>5. /\ toUs' = Put(toUs, all) /\ host.state \in {"up", "over"}
      /\ host' = [host EXCEPT !.owes = FALSE]
      /\ UNCHANGED <<session, toHost, keys, screen, first, losses>>
  BY DEF HostRepeats
<1> HIDE DEF all
<1>6. toUs' \in Seq(FramesToUs) /\ Range(toUs') \subseteq Range(toUs) \cup Range(all)
  BY <1>1, <1>3, <1>5, PutHas
<1>7. /\ host' \in Hosts /\ host'.acked = host.acked /\ host'.typed = host.typed
      /\ host'.state = host.state
  BY <1>1, <1>5 DEF Hosts
<1> QED
  BY <1>1, <1>4, <1>5, <1>6, <1>7, HostQuiet

LEMMA DepartedHas ==
    ASSUME TypeOK
    PROVE  Departed \in Hosts /\ Departed.state = "gone" /\ Departed.said = host.said
           /\ Departed.typed = host.typed
<1>1. host \in Hosts /\ host.typed \in Seq(Nat) /\ host.said \in Nat /\ 0 \in Numbers
  BY NumbersAssumption DEF TypeOK, Hosts, Numbers
<1>2. <<>> \in Seq(Messages) /\ <<>> \in Seq(Nat) /\ 0 \in Int /\ 0 \in Nat
  OBVIOUS
<1>3. Host0 \in Hosts
  BY <1>1, <1>2 DEF Host0, Hosts
<1>4. Departed = [Host0 EXCEPT !.state = "gone", !.typed = host.typed, !.said = host.said]
  BY DEF Departed
<1> QED
  BY <1>1, <1>3, <1>4 DEF Hosts

LEMMA HostLeavesStep ==
    ASSUME TypeOK, HostStops \/ HostDies
    PROVE  TypeOK' /\ (Typing => Typing')
<1>1. host' \in Hosts /\ host'.state = "gone"
  BY DepartedHas DEF HostStops, HostDies
<1>2. toUs \in Seq(FramesToUs) /\ toHost \in Seq(FramesToHost) /\ losses \in Nat
  BY DEF TypeOK
<1>3. StopMessage \in FramesToUs
  BY DEF FramesToUs
<1>4. toUs' \in Seq(FramesToUs)
  BY <1>2, <1>3, PutOneHas DEF HostStops, HostDies
<1>5. UNCHANGED <<session, toHost, keys, screen, first, losses>>
  BY DEF HostStops, HostDies
<1> QED
  BY <1>1, <1>2, <1>4, <1>5, HostQuiet

LEMMA WireStep ==
    ASSUME TypeOK, Wire
    PROVE  TypeOK' /\ (Typing => Typing')
<1>1. toUs \in Seq(FramesToUs) /\ toHost \in Seq(FramesToHost) /\ losses \in Nat /\ host \in Hosts
  BY DEF TypeOK
<1>2. CASE LoseToHost
  <2>1. toHost' \in Seq(FramesToHost) /\ Range(toHost') \subseteq Range(toHost)
    BY <1>1, <1>2, TailHas DEF LoseToHost
  <2> QED
    BY <1>1, <1>2, <2>1, HostQuiet DEF LoseToHost
<1>3. CASE LoseToUs
  <2>1. toUs' \in Seq(FramesToUs) /\ Range(toUs') \subseteq Range(toUs)
    BY <1>1, <1>3, TailHas DEF LoseToUs
  <2> QED
    BY <1>1, <1>3, <2>1, HostQuiet DEF LoseToUs
<1>4. CASE SwapToUs
  <2> DEFINE swapped == <<toUs[2], toUs[1]>> \o SubSeq(toUs, 3, Len(toUs))
  <2>0. Len(toUs) > 1 /\ toUs' = swapped
    BY <1>4 DEF SwapToUs
  <2>a. swapped \in Seq(FramesToUs) /\ Range(swapped) \subseteq Range(toUs)
    BY <1>1, <2>0, SwapHas
  <2> HIDE DEF swapped
  <2>1. toUs' \in Seq(FramesToUs) /\ Range(toUs') \subseteq Range(toUs)
    BY <2>0, <2>a
  <2>2. /\ host' = host /\ toHost' = toHost /\ losses' \in Nat
        /\ UNCHANGED <<session, keys, screen, first>>
    BY <1>1, <1>4 DEF SwapToUs
  <2> QED
    BY <1>1, <2>1, <2>2, HostQuiet
<1> QED
  BY <1>2, <1>3, <1>4 DEF Wire

\* What the host makes of a message.
LEMMA HostTakesHas ==
    ASSUME TypeOK, NEW f \in RunsToHost
    PROVE  /\ HostTakes(f) \in Hosts
           /\ HostTakes(f).state = host.state /\ HostTakes(f).sequence = host.sequence
           /\ HostTakes(f).unacked = HostForgets(f.acknowledged)
           /\ HostTakes(f).said = host.said
           /\ \/ /\ HostTakes(f).acked = host.acked /\ HostTakes(f).typed = host.typed
                 /\ HostTakes(f).credit = host.credit /\ HostTakes(f).granted = host.granted
              \/ /\ f.slots # 0 /\ f.sequence = NextNumber(host.acked)
                 /\ HostTakes(f).acked = f.sequence
                 /\ HostTakes(f).typed = host.typed \o f.data
                 /\ HostTakes(f).credit = Smaller(host.credit + f.credit, MaxCredit)
                 /\ HostTakes(f).granted = host.granted - Spending(f)
<1> DEFINE left == HostForgets(f.acknowledged)
           known == [host EXCEPT !.unacked = left]
           owes == f.slots > 0 \/ known.owes
           credit == Smaller(known.credit + f.credit, MaxCredit)
           granted == known.granted - Spending(f)
           typed == known.typed \o f.data
           next == [known EXCEPT !.acked = f.sequence, !.owes = TRUE, !.credit = credit,
                                 !.granted = granted, !.typed = typed]
           old == [known EXCEPT !.owes = owes]
<1>1. host \in Hosts /\ left \in Seq(Messages)
  BY HostForgetsHas DEF TypeOK
<1>2. HostTakes(f) = IF f.slots = 0 \/ f.sequence # NextNumber(host.acked) THEN old ELSE next
  BY DEF HostTakes
<1> HIDE DEF left
<1>3. /\ known \in Hosts /\ known.state = host.state /\ known.sequence = host.sequence
      /\ known.unacked = left /\ known.said = host.said /\ known.acked = host.acked
      /\ known.typed = host.typed /\ known.credit = host.credit /\ known.granted = host.granted
  BY <1>1 DEF Hosts
<1> HIDE DEF known
<1>4. owes \in BOOLEAN
  OBVIOUS
<1>5. credit \in Nat /\ granted \in Int
  <2>1. known.credit + f.credit \in Nat /\ MaxCredit \in Nat
    BY <1>3, NumbersAssumption DEF Hosts, RunsToHost
  <2>2. credit \in Nat
    BY <2>1 DEF Smaller
  <2>3. granted \in Int
    BY <1>3 DEF Spending, Hosts, RunsToHost
  <2> QED
    BY <2>2, <2>3
<1>6. typed \in Seq(Nat) /\ typed = host.typed \o f.data
  <2>1. known.typed \in Seq(Nat) /\ f.data \in Seq(Nat)
    BY <1>3 DEF Hosts, RunsToHost
  <2> QED
    BY <1>3, <2>1, ConcatProperties
<1>7. f.sequence \in Numbers
  BY FrameHas
<1> HIDE DEF owes, credit, granted, typed
<1>8. /\ old \in Hosts /\ old.state = known.state /\ old.sequence = known.sequence
      /\ old.unacked = known.unacked /\ old.said = known.said /\ old.acked = known.acked
      /\ old.typed = known.typed /\ old.credit = known.credit /\ old.granted = known.granted
  BY <1>3, <1>4 DEF Hosts
<1>9. /\ next \in Hosts /\ next.state = known.state /\ next.sequence = known.sequence
      /\ next.unacked = known.unacked /\ next.said = known.said /\ next.acked = f.sequence
      /\ next.typed = typed /\ next.credit = credit /\ next.granted = granted
  BY <1>3, <1>5, <1>6, <1>7 DEF Hosts
<1> HIDE DEF old, next
<1>10. CASE HostTakes(f) = old
  BY <1>3, <1>8, <1>10 DEF left
<1>11. CASE HostTakes(f) = next /\ f.slots # 0 /\ f.sequence = NextNumber(host.acked)
  <2>1. credit = Smaller(host.credit + f.credit, MaxCredit) /\ granted = host.granted - Spending(f)
    BY <1>3 DEF credit, granted
  <2> QED
    BY <1>3, <1>6, <1>9, <1>11, <2>1 DEF left
<1> QED
  BY <1>2, <1>10, <1>11

\* One run of numbers after another.
LEMMA UptoJoin ==
    ASSUME NEW a \in Nat, NEW b \in Nat, a <= b
    PROVE  Upto(0, a) \o Upto(a, b) = Upto(0, b) /\ Len(Upto(0, b)) = b
<1> DEFINE fore == Upto(0, a)
           rest == Upto(a, b)
           all == Upto(0, b)
           sum == fore \o rest
<1>1. /\ fore \in Seq(Nat) /\ Len(fore) = a /\ \A i \in 1 .. a : fore[i] = i
      /\ rest \in Seq(Nat) /\ Len(rest) = b - a /\ \A i \in 1 .. b - a : rest[i] = a + i
      /\ all \in Seq(Nat) /\ Len(all) = b /\ \A i \in 1 .. b : all[i] = i
  <2>1. fore \in Seq(Nat) /\ Len(fore) = a /\ \A i \in 1 .. a : fore[i] = i
    BY DEF Upto
  <2>2. rest \in Seq(Nat) /\ Len(rest) = b - a /\ \A i \in 1 .. b - a : rest[i] = a + i
    BY DEF Upto
  <2>3. all \in Seq(Nat) /\ Len(all) = b /\ \A i \in 1 .. b : all[i] = i
    BY DEF Upto
  <2> QED
    BY <2>1, <2>2, <2>3
<1> HIDE DEF fore, rest, all
<1>2. /\ sum \in Seq(Nat) /\ Len(sum) = Len(fore) + Len(rest)
      /\ \A i \in 1 .. Len(fore) + Len(rest) :
            sum[i] = IF i <= Len(fore) THEN fore[i] ELSE rest[i - Len(fore)]
  <2>1. fore \in Seq(Nat) /\ rest \in Seq(Nat)
    BY <1>1
  <2> QED
    BY <2>1, ConcatProperties
<1> HIDE DEF sum
<1>3. Len(sum) = b
  BY <1>1, <1>2
<1>4. ASSUME NEW i \in 1 .. b PROVE sum[i] = all[i]
  <2>1. CASE i <= a
    BY <1>1, <1>2, <2>1
  <2>2. CASE ~(i <= a)
    <3>1. i - a \in 1 .. b - a /\ a + (i - a) = i
      BY <2>2
    <3>2. sum[i] = rest[i - a]
      BY <1>1, <1>2, <2>2
    <3> QED
      BY <1>1, <3>1, <3>2
  <2> QED
    BY <2>1, <2>2
<1>5. sum = all
  BY <1>1, <1>2, <1>3, <1>4, SeqEqual
<1> QED
  BY <1>1, <1>5 DEF sum, fore, rest, all

\* The first of what the host has not taken goes over to it.
LEMMA TakenSender ==
    ASSUME NEW s \in Sessions, NEW acked \in Numbers, NEW got \in Nat, NEW typed \in Nat,
           Sender(s, acked, got, typed), Len(s.kept) < Half,
           NEW f \in RunsToHost, f.sequence = NextNumber(acked),
           Distance(s.sequence, f.sequence) < Half,
           Distance(s.sequence, f.sequence) < Distance(s.sequence, acked) => IsKept(s, f)
    PROVE  /\ Distance(s.sequence, f.sequence) <= Distance(s.sequence, acked)
           /\ \E now \in Nat :
                 /\ got <= now /\ f.data = Upto(got, now)
                 /\ Sender(s, f.sequence, now, typed)
<1> DEFINE left == Distance(s.sequence, acked)
           last == Len(s.kept)
<1>0. /\ left \in Nat /\ last \in Nat /\ s.sequence \in Numbers /\ f.sequence \in Numbers
      /\ s.kept \in Seq(KeptMessages) /\ Distance(s.sequence, f.sequence) \in Nat
  BY SessionHas, FrameHas
<1>1. left \in 1 .. last /\ Distance(s.sequence, f.sequence) = left - 1
  <2>1. left <= last
    BY DEF Sender, Laid
  <2>2. Distance(s.sequence, f.sequence) =
           IF s.sequence = acked THEN NumberSpan - 1 ELSE left - 1
    BY <1>0, DistanceToNext
  <2>3. s.sequence # acked
    BY <2>2, HalfType
  <2>4. left # 0
    BY <1>0, <2>3, DistanceType
  <2> QED
    BY <1>0, <2>1, <2>2, <2>3, <2>4
<1>2. PICK j \in 1 .. last : s.kept[j].sequence = f.sequence /\ s.kept[j].data = f.data
  BY <1>0, <1>1 DEF IsKept
<1>3. last - j = left - 1
  BY <1>1, <1>2 DEF Sender, Numbered
<1>4. PICK ends \in [0 .. left -> 0 .. typed] :
         /\ ends[0] = got
         /\ \A i \in 1 .. left :
               /\ ends[i - 1] <= ends[i]
               /\ s.kept[last - left + i].data = Upto(ends[i - 1], ends[i])
         /\ s.typed = Upto(ends[left], typed)
  BY DEF Sender, Laid
<1> DEFINE now == ends[1]
           rest == [i \in 0 .. left - 1 |-> ends[i + 1]]
<1>5. now \in Nat /\ got <= now /\ f.data = Upto(got, now)
  <2>1. 1 \in 1 .. left /\ 1 - 1 = 0 /\ last - left + 1 = j
    BY <1>0, <1>1, <1>3
  <2>2. ends[0] <= ends[1] /\ s.kept[j].data = Upto(ends[0], ends[1])
    BY <1>4, <2>1
  <2>3. ends[1] \in Nat
    BY <2>1
  <2> QED
    BY <1>2, <1>4, <2>2, <2>3
<1>6. /\ rest \in [0 .. left - 1 -> 0 .. typed]
      /\ rest[0] = now /\ rest[left - 1] = ends[left]
      /\ \A i \in 0 .. left - 1 : rest[i] = ends[i + 1]
  <2>1. \A i \in 0 .. left - 1 : i + 1 \in 0 .. left /\ ends[i + 1] \in 0 .. typed
    BY <1>0, <1>1
  <2>2. rest \in [0 .. left - 1 -> 0 .. typed]
    BY <2>1
  <2>3. \A i \in 0 .. left - 1 : rest[i] = ends[i + 1]
    OBVIOUS
  <2>4. 0 \in 0 .. left - 1 /\ left - 1 \in 0 .. left - 1 /\ 0 + 1 = 1 /\ (left - 1) + 1 = left
    BY <1>0, <1>1
  <2> HIDE DEF rest
  <2>5. rest[0] = ends[0 + 1] /\ rest[left - 1] = ends[(left - 1) + 1]
    BY <2>3, <2>4
  <2> QED
    BY <2>2, <2>3, <2>4, <2>5
<1> HIDE DEF left, last, rest
<1>7. ASSUME NEW i \in 1 .. left - 1
      PROVE  /\ rest[i - 1] <= rest[i]
             /\ s.kept[last - (left - 1) + i].data = Upto(rest[i - 1], rest[i])
  <2>1. i + 1 \in 1 .. left /\ (i + 1) - 1 = i /\ last - left + (i + 1) = last - (left - 1) + i
    <3>1. \A p, q \in Nat : \A k \in 1 .. p - 1 :
             k + 1 \in 1 .. p /\ (k + 1) - 1 = k /\ q - p + (k + 1) = q - (p - 1) + k
      OBVIOUS
    <3> QED
      BY <1>0, <3>1, Zenon
  <2>2. rest[i] = ends[i + 1] /\ rest[i - 1] = ends[i]
    BY <1>0, <1>1, <1>6
  <2>3. /\ ends[(i + 1) - 1] <= ends[i + 1]
        /\ s.kept[last - left + (i + 1)].data = Upto(ends[(i + 1) - 1], ends[i + 1])
    BY <1>4, <2>1
  <2> QED
    BY <2>1, <2>2, <2>3
<1>8. Laid(s, f.sequence, now, typed)
  <2>1. left - 1 <= last
    BY <1>0, <1>1
  <2>2. s.typed = Upto(rest[left - 1], typed)
    BY <1>4, <1>6
  <2>3. Distance(s.sequence, f.sequence) = left - 1
    BY <1>1
  <2> QED
    BY <1>6, <1>7, <2>1, <2>2, <2>3 DEF Laid, last
<1>9. Sender(s, f.sequence, now, typed)
  BY <1>8 DEF Sender
<1> QED
  BY <1>0, <1>1, <1>5, <1>9 DEF left

LEMMA HostHearsStep ==
    ASSUME TypeOK, HostHears
    PROVE  TypeOK' /\ (Typing /\ Prompt => Typing')
<1> DEFINE f == Head(toHost)
<1>1. /\ toUs \in Seq(FramesToUs) /\ toHost \in Seq(FramesToHost) /\ losses \in Nat
      /\ host \in Hosts /\ session \in Sessions
  BY DEF TypeOK
<1>2. /\ toHost' = Tail(toHost) /\ toHost # <<>>
      /\ UNCHANGED <<session, keys, screen, first, losses>>
  BY DEF HostHears
<1>3. /\ toHost' \in Seq(FramesToHost) /\ Range(toHost') \subseteq Range(toHost)
      /\ f \in FramesToHost /\ f \in Range(toHost)
  BY <1>1, <1>2, TailHas
<1>4. CASE /\ f.kind = "start"
           /\ host' = [host EXCEPT !.state = "up"]
           /\ toUs' = Put(toUs, <<Agreement>>)
           /\ host.state \in {"idle", "up"}
  <2>1. /\ host' \in Hosts /\ host'.acked = host.acked /\ host'.typed = host.typed
    BY <1>1, <1>4 DEF Hosts
  <2>2. Agreement \in FramesToUs /\ Agreement.kind # "run"
    BY DEF FramesToUs, Agreement
  <2>3. toUs' \in Seq(FramesToUs) /\ Range(toUs') \subseteq Range(toUs) \cup {Agreement}
    BY <1>1, <1>4, <2>2, PutOneHas
  <2> QED
    BY <1>1, <1>2, <1>3, <1>4, <2>1, <2>2, <2>3, HostQuiet
<1>5. CASE f.kind = "stop" /\ host' = Departed /\ UNCHANGED toUs
  BY <1>1, <1>2, <1>3, <1>5, DepartedHas, HostQuiet
<1>6. CASE UNCHANGED <<host, toUs>>
  BY <1>1, <1>2, <1>3, <1>6, HostQuiet
<1>7. CASE /\ f.kind = "run" /\ host.state \in {"up", "over"}
           /\ host' = HostTakes(f) /\ UNCHANGED toUs
  <2>1. f \in RunsToHost
    BY <1>3, <1>7, FrameHas
  <2> HIDE DEF f
  <2>2. /\ host' \in Hosts /\ host'.state = host.state
        /\ \/ host'.acked = host.acked /\ host'.typed = host.typed
           \/ /\ f.slots # 0 /\ f.sequence = NextNumber(host.acked)
              /\ host'.acked = f.sequence /\ host'.typed = host.typed \o f.data
    BY <1>7, <2>1, HostTakesHas
  <2>3. CASE host'.acked = host.acked /\ host'.typed = host.typed
    BY <1>1, <1>2, <1>3, <1>7, <2>2, <2>3, HostQuiet
  <2>4. CASE /\ f.slots # 0 /\ f.sequence = NextNumber(host.acked)
             /\ host'.acked = f.sequence /\ host'.typed = host.typed \o f.data
    <3>1. TypeOK'
      BY <1>1, <1>2, <1>3, <1>7, <2>2 DEF TypeOK
    <3>2. ASSUME Typing, Prompt PROVE Typing'
      <4>0. /\ host.acked \in Numbers /\ Len(host.typed) \in Nat /\ keys \in Nat
            /\ session.sequence \in Numbers /\ f.sequence \in Numbers
        <5>1. host.acked \in Numbers /\ host.typed \in Seq(Nat)
          BY <1>1 DEF Hosts
        <5> QED
          BY <1>1, <2>1, <5>1, LenProperties, SessionHas, FrameHas DEF TypeOK
      <4>1. /\ Len(session.kept) < Half /\ Distance(session.sequence, f.sequence) < Half
        BY <1>3, <1>7, <3>2, PromptSays
      <4>2. /\ Sender(session, host.acked, Len(host.typed), keys)
            /\ host.typed = Upto(0, Len(host.typed))
            /\ \A g \in Range(toHost) :
                  /\ g.kind = "run" /\ g.slots # 0
                  /\ Distance(session.sequence, g.sequence) < Distance(session.sequence, host.acked)
                  => IsKept(session, g)
            /\ \A g \in Range(toUs) :
                  g.kind = "run" =>
                     Distance(session.sequence, host.acked)
                        <= Distance(session.sequence, g.acknowledged)
        BY <1>7, <3>2 DEF Typing
      <4>3. Distance(session.sequence, f.sequence) < Distance(session.sequence, host.acked)
               => IsKept(session, f)
        BY <1>3, <1>7, <2>4, <4>2
      <4>4. /\ Distance(session.sequence, f.sequence) <= Distance(session.sequence, host.acked)
            /\ \E now \in Nat :
                  /\ Len(host.typed) <= now /\ f.data = Upto(Len(host.typed), now)
                  /\ Sender(session, f.sequence, now, keys)
        BY <1>1, <2>1, <2>4, <4>0, <4>1, <4>2, <4>3, TakenSender
      <4>5. PICK now \in Nat :
               /\ Len(host.typed) <= now /\ f.data = Upto(Len(host.typed), now)
               /\ Sender(session, f.sequence, now, keys)
        BY <4>4
      <4>6. host'.typed = Upto(0, now) /\ Len(host'.typed) = now
        BY <2>4, <4>0, <4>2, <4>5, UptoJoin
      <4>7. Distance(session.sequence, f.sequence) \in Nat
            /\ Distance(session.sequence, host.acked) \in Nat
            /\ \A x \in Numbers : Distance(session.sequence, x) \in Nat
        BY <1>1, <4>0, SessionHas
      <4>8. ASSUME NEW g \in Range(toHost'), g.kind = "run", g.slots # 0,
                   Distance(session.sequence, g.sequence) < Distance(session.sequence, f.sequence)
            PROVE  IsKept(session, g)
        <5>1. g \in FramesToHost /\ g \in Range(toHost)
          BY <1>3, RangeHas
        <5>2. g.sequence \in Numbers
          BY <4>8, <5>1, FrameHas
        <5>3. Distance(session.sequence, g.sequence) < Distance(session.sequence, host.acked)
          BY <4>4, <4>7, <4>8, <5>2
        <5> QED
          BY <4>2, <4>8, <5>1, <5>3
      <4>9. ASSUME NEW g \in Range(toUs), g.kind = "run"
            PROVE  Distance(session.sequence, f.sequence) <= Distance(session.sequence, g.acknowledged)
        <5>1. g.acknowledged \in Numbers
          BY <1>1, <4>9, RangeHas, FrameHas
        <5>2. Distance(session.sequence, host.acked) <= Distance(session.sequence, g.acknowledged)
          BY <4>2, <4>9
        <5> QED
          BY <4>4, <4>7, <5>1, <5>2
      <4> QED
        BY <1>2, <1>7, <2>4, <4>5, <4>6, <4>8, <4>9 DEF Typing
    <3> QED
      BY <3>1, <3>2
  <2> QED
    BY <2>2, <2>3, <2>4
<1> QED
  BY <1>4, <1>5, <1>6, <1>7 DEF HostHears

-----------------------------------------------------------------------------
(* The theorems.                                                            *)

LEMMA NextStep ==
    ASSUME TypeOK, [Next]_vars
    PROVE  TypeOK' /\ (Typing /\ Prompt /\ Prompt' => Typing')
<1>1. CASE Here
  BY <1>1, HereStep
<1>2. CASE HostHears
  BY <1>2, HostHearsStep
<1>3. CASE HostSpeaks \/ HostGrants \/ HostEnds \/ HostAcks
  BY <1>3, HostSaysStep, SayStep
<1>4. CASE HostRepeats
  BY <1>4, HostRepeatsStep
<1>5. CASE HostStops \/ HostDies
  BY <1>5, HostLeavesStep
<1>6. CASE Wire
  BY <1>6, WireStep
<1>7. CASE UNCHANGED vars
  <2>1. TypeOK'
    BY <1>7 DEF TypeOK, vars
  <2>2. Typing => Typing'
    BY <1>7, QuietTyping DEF vars
  <2> QED
    BY <2>1, <2>2
<1> QED
  BY <1>1, <1>2, <1>3, <1>4, <1>5, <1>6, <1>7 DEF Next, Theirs

\* What the invariant says of the messages kept.
LEMMA TypingShows ==
    ASSUME TypeOK, Typing, Prompt
    PROVE  NothingTypedIsLost
<1> SUFFICES ASSUME Connected
             PROVE  LET last == Len(session.kept)
                    IN  \E ends \in [0 .. last -> 0 .. keys] :
                           /\ host.typed = Upto(0, ends[0])
                           /\ \A i \in 1 .. last :
                                 IF Newer(session.kept[i].sequence, host.acked)
                                 THEN /\ ends[i - 1] <= ends[i]
                                      /\ session.kept[i].data = Upto(ends[i - 1], ends[i])
                                 ELSE ends[i] = ends[i - 1]
                           /\ session.typed = Upto(ends[last], keys)
  BY DEF NothingTypedIsLost
<1> DEFINE last == Len(session.kept)
           left == Distance(session.sequence, host.acked)
           got  == Len(host.typed)
<1>1. /\ session \in Sessions /\ session.kept \in Seq(KeptMessages) /\ last \in Nat
      /\ session.sequence \in Numbers /\ host.acked \in Numbers /\ left \in Nat
      /\ host.state # "gone" /\ keys \in Nat
  <2>1. session \in Sessions /\ host \in Hosts /\ keys \in Nat /\ host.state # "gone"
    BY DEF TypeOK, Connected
  <2>2. host.acked \in Numbers
    BY <2>1 DEF Hosts
  <2> QED
    BY <2>1, <2>2, SessionHas
<1>2. /\ \A i \in 1 .. last : Distance(session.sequence, session.kept[i].sequence) = last - i
      /\ left <= last /\ host.typed = Upto(0, got)
  BY <1>1 DEF Typing, Sender, Numbered, Laid
<1>3. PICK bounds \in [0 .. left -> 0 .. keys] :
         /\ bounds[0] = got
         /\ \A j \in 1 .. left :
               /\ bounds[j - 1] <= bounds[j]
               /\ session.kept[last - left + j].data = Upto(bounds[j - 1], bounds[j])
         /\ session.typed = Upto(bounds[left], keys)
  BY <1>1 DEF Typing, Sender, Laid
<1>4. last < Half /\ Half \in Nat
  BY <1>1, PromptSays, HalfType
<1> HIDE DEF last, left, got
<1> DEFINE taken == last - left
           ends == [i \in 0 .. last |-> IF i <= taken THEN got ELSE bounds[i - taken]]
<1>5. taken \in 0 .. last /\ taken + left = last
  BY <1>1, <1>2
<1> HIDE DEF taken
<1>6. got \in 0 .. keys
  BY <1>1, <1>3
<1>7. ASSUME NEW i \in 0 .. last
      PROVE  (IF i <= taken THEN got ELSE bounds[i - taken]) \in 0 .. keys
  <2>1. CASE i <= taken
    BY <1>6, <2>1
  <2>2. CASE ~(i <= taken)
    <3>1. i - taken \in 0 .. left
      BY <1>1, <1>5, <2>2
    <3> QED
      BY <1>3, <2>2, <3>1
  <2> QED
    BY <2>1, <2>2
<1>8. /\ ends \in [0 .. last -> 0 .. keys]
      /\ \A i \in 0 .. last : ends[i] = IF i <= taken THEN got ELSE bounds[i - taken]
  BY <1>7
<1> HIDE DEF ends
<1>9. host.typed = Upto(0, ends[0])
  <2>1. 0 \in 0 .. last /\ 0 <= taken
    BY <1>1, <1>5
  <2> QED
    BY <1>2, <1>8, <2>1
<1>10. session.typed = Upto(ends[last], keys)
  <2>1. last \in 0 .. last
    BY <1>1
  <2>2. CASE left = 0
    <3>1. last <= taken
      BY <1>1, <1>5, <2>2
    <3> QED
      BY <1>3, <1>8, <2>1, <2>2, <3>1
  <2>3. CASE left # 0
    <3>1. ~(last <= taken) /\ last - taken = left
      BY <1>1, <1>5, <2>3
    <3> QED
      BY <1>3, <1>8, <2>1, <3>1
  <2> QED
    BY <2>2, <2>3
<1>11. ASSUME NEW i \in 1 .. last
       PROVE  IF Newer(session.kept[i].sequence, host.acked)
              THEN ends[i - 1] <= ends[i] /\ session.kept[i].data = Upto(ends[i - 1], ends[i])
              ELSE ends[i] = ends[i - 1]
  <2>1. session.kept[i].sequence \in Numbers
    <3>1. session.kept[i] \in KeptMessages
      BY <1>1, ElementOfSeq DEF last
    <3> QED
      BY <3>1 DEF KeptMessages
  <2>2. i \in 0 .. last /\ i - 1 \in 0 .. last /\ i \in Nat
    BY <1>1
  <2>3. Newer(session.kept[i].sequence, host.acked) <=> i > taken
    <3>1. Distance(session.sequence, session.kept[i].sequence) = last - i
      BY <1>2
    <3>2. last - i < Half /\ left < Half
      BY <1>1, <1>2, <1>4
    <3>3. Newer(session.kept[i].sequence, host.acked) <=> last - i < left
      BY <1>1, <2>1, <3>1, <3>2, NewerIsLater DEF left
    <3>4. last - i < left <=> i > taken
      BY <1>1, <1>5
    <3> QED
      BY <3>3, <3>4
  <2>4. CASE i > taken
    <3>1. /\ i - taken \in 1 .. left /\ ~(i <= taken) /\ taken + (i - taken) = i
          /\ (i - taken) - 1 = (i - 1) - taken
      BY <1>1, <1>5, <2>2, <2>4
    <3>2. /\ bounds[(i - taken) - 1] <= bounds[i - taken]
          /\ session.kept[taken + (i - taken)].data = Upto(bounds[(i - taken) - 1], bounds[i - taken])
      BY <1>3, <3>1 DEF taken
    <3>3. ends[i] = bounds[i - taken]
      BY <1>8, <2>2, <3>1
    <3>4. ends[i - 1] = bounds[(i - taken) - 1]
      <4>1. CASE i - 1 <= taken
        <5>1. (i - taken) - 1 = 0
          BY <1>5, <2>2, <2>4, <4>1
        <5> QED
          BY <1>3, <1>8, <2>2, <4>1, <5>1
      <4>2. CASE ~(i - 1 <= taken)
        BY <1>8, <2>2, <3>1, <4>2
      <4> QED
        BY <4>1, <4>2
    <3>5. ends[i - 1] <= ends[i] /\ session.kept[i].data = Upto(ends[i - 1], ends[i])
      BY <3>1, <3>2, <3>3, <3>4
    <3> QED
      BY <2>3, <2>4, <3>5
  <2>5. CASE ~(i > taken)
    <3>1. i <= taken /\ i - 1 <= taken
      BY <1>5, <2>2, <2>5
    <3>2. ends[i] = ends[i - 1]
      BY <1>8, <2>2, <3>1
    <3> QED
      BY <2>3, <2>5, <3>2
  <2> QED
    BY <2>4, <2>5
<1> QED
  BY <1>8, <1>9, <1>10, <1>11 DEF last

\* The records have the fields and the kinds of values the code gives them.
THEOREM CircuitTypes == Spec => []TypeOK
<1>1. Init => TypeOK
  BY InitTyping
<1>2. TypeOK /\ [Next]_vars => TypeOK'
  BY NextStep
<1> QED
  BY <1>1, <1>2, PTL DEF Spec

\* Every byte typed is with the host, in a message kept for it, or waiting to
\* be sent, once and in that order, however frames are lost, repeated and
\* delayed, while no number comes round again in use: send_typed and
\* retransmit never let a byte go, and forget lets go only of what the host has.
THEOREM TypedIsKept == Spec /\ []Prompt => []NothingTypedIsLost
<1>1. Init => TypeOK /\ Typing
  BY InitTyping
<1>2. TypeOK /\ Typing /\ Prompt /\ Prompt' /\ [Next]_vars => TypeOK' /\ Typing'
  BY NextStep
<1>3. TypeOK /\ Typing /\ Prompt => NothingTypedIsLost
  BY TypingShows
<1> QED
  BY <1>1, <1>2, <1>3, PTL DEF Spec

-----------------------------------------------------------------------------
(* What the host has said, and how far it has been read.  The host here is  *)
(* the far end as it is or, once it has gone, as it was when it went.       *)

\* How many messages ago a number was the host's.
Back(h, x) == Distance(h.sequence, x)

\* How many of the messages the host keeps have been heard.
Place(h, s) == Len(h.unacked) - Back(h, s.heard)

\* The messages the host keeps have the last numbers it used; each carries
\* what comes after the one before, up to all that it has said; one without
\* slots says nothing; and the one that ends the session is its last.
Saying(h, ends) ==
    LET last == Len(h.unacked)
    IN  /\ last <= HostWindow
        /\ ends \in [0 .. last -> 0 .. h.said]
        /\ ends[last] = h.said
        /\ \A i, j \in 0 .. last : i <= j => ends[i] <= ends[j]
        /\ \A i \in 1 .. last :
              LET m == h.unacked[i]
              IN  /\ Back(h, m.sequence) = last - i
                  /\ m.data = Upto(ends[i - 1], ends[i])
                  /\ m.slots = 0 => m.data = <<>> /\ ~m.ended
                  /\ m.ended => i = last /\ h.state = "over"

\* A frame of the host's says what the message it keeps says, if it keeps it.
Matches(h, m) ==
    LET i == Len(h.unacked) - Back(h, m.sequence)
    IN  i > 0 => /\ m.data = h.unacked[i].data
                 /\ m.slots = h.unacked[i].slots
                 /\ m.ended = h.unacked[i].ended
                 /\ m.credit = h.unacked[i].credit

\* What is heard is no older than what the host keeps; what waits is the
\* host's, no two of the same number; what is put out says no more is heard
\* than is; and nothing waits before anything is heard, when the host keeps all
\* it has sent.
Reader(h, s) ==
    /\ Back(h, s.heard) <= Len(h.unacked)
    /\ \A w \in s.early : Back(h, w.sequence) < Len(h.unacked) /\ Matches(h, w)
    /\ \A v, w \in s.early : v.sequence = w.sequence => v = w
    /\ \A i \in 1 .. Len(s.outgoing) :
          s.outgoing[i].kind = "run" => Back(h, s.heard) <= Back(h, s.outgoing[i].acknowledged)
    /\ ~s.heardAny => s.heard = 0 /\ s.early = {} /\ Back(h, 0) = Len(h.unacked)

\* What waits is newer than what is heard.
Tidy(h, s) == \A w \in s.early : Back(h, w.sequence) < Back(h, s.heard)

Heeds(h, ends, s) == h \in Hosts /\ s \in Sessions /\ Saying(h, ends) /\ Reader(h, s)

\* Between s and t what the host said after one of its messages was read, up
\* to the one now heard, and nothing else.
ReadsFrom(h, ends, s, t, at) ==
    /\ t \in Sessions /\ Reader(h, t)
    /\ at \in Place(h, s) .. Place(h, t)
    /\ Place(h, s) = Place(h, t) \/ at < Place(h, t)
    /\ t.data = s.data \o Upto(ends[at], ends[Place(h, t)])
    /\ s.heardAny => t.heardAny
    /\ t.ended = "session ended" =>
          s.ended = "session ended" \/ (Place(h, t) = Len(h.unacked) /\ h.state = "over")

ReadsOn(h, ends, s, t) == ReadsFrom(h, ends, s, t, Place(h, s))

LEMMA HeedsHas ==
    ASSUME NEW h, NEW ends, NEW s, Heeds(h, ends, s)
    PROVE  /\ Len(h.unacked) \in Nat /\ Len(h.unacked) < Half /\ Len(h.unacked) <= HostWindow
           /\ h.sequence \in Numbers /\ s.heard \in Numbers /\ h.said \in Nat
           /\ \A x \in Numbers : Back(h, x) \in Nat /\ Back(h, x) < NumberSpan
           /\ Place(h, s) \in 0 .. Len(h.unacked)
           /\ Back(h, s.heard) \in 0 .. Len(h.unacked)
           /\ \A i \in 0 .. Len(h.unacked) : ends[i] \in Nat /\ ends[i] <= h.said
           /\ \A i, j \in 0 .. Len(h.unacked) : i <= j => ends[i] <= ends[j]
<1>1. h.unacked \in Seq(Messages) /\ h.sequence \in Numbers /\ s.heard \in Numbers /\ h.said \in Nat
  BY DEF Heeds, Hosts, Sessions
<1>2. Len(h.unacked) \in Nat
  BY <1>1, LenProperties
<1>3. Len(h.unacked) <= HostWindow /\ HostWindow \in Nat /\ HostWindow < Half /\ Half \in Nat
  BY HostAssumption, HalfType DEF Heeds, Saying
<1>4. \A x \in Numbers : Back(h, x) \in Nat /\ Back(h, x) < NumberSpan
  <2> SUFFICES ASSUME NEW x \in Numbers PROVE Back(h, x) \in Nat /\ Back(h, x) < NumberSpan
    OBVIOUS
  <2>1. Back(h, x) \in 0 .. NumberSpan - 1 /\ NumberSpan \in Nat
    BY <1>1, DistanceType, NumbersAssumption DEF Back
  <2> QED
    BY <2>1
<1>5. Back(h, s.heard) \in 0 .. Len(h.unacked)
  BY <1>1, <1>2, <1>4 DEF Heeds, Reader
<1>6. Place(h, s) \in 0 .. Len(h.unacked)
  BY <1>2, <1>5 DEF Place
<1>7. /\ \A i \in 0 .. Len(h.unacked) : ends[i] \in Nat /\ ends[i] <= h.said
      /\ \A i, j \in 0 .. Len(h.unacked) : i <= j => ends[i] <= ends[j]
  BY <1>1 DEF Heeds, Saying
<1> QED
  BY <1>1, <1>2, <1>3, <1>4, <1>5, <1>6, <1>7

LEMMA ReadsHas ==
    ASSUME NEW h, NEW ends, NEW s, NEW t, NEW at, Heeds(h, ends, s), ReadsFrom(h, ends, s, t, at)
    PROVE  Heeds(h, ends, t)
BY DEF Heeds, ReadsFrom

\* Two runs of numbers, one after the other.
LEMMA UptoSum ==
    ASSUME NEW a \in Nat, NEW b \in Nat, NEW c \in Nat, a <= b, b <= c
    PROVE  Upto(a, b) \o Upto(b, c) = Upto(a, c)
<1> DEFINE fore == Upto(a, b)
           rest == Upto(b, c)
           all == Upto(a, c)
           sum == fore \o rest
<1>1. fore \in Seq(Nat) /\ Len(fore) = b - a /\ \A i \in 1 .. b - a : fore[i] = a + i
  BY DEF Upto
<1>2. rest \in Seq(Nat) /\ Len(rest) = c - b /\ \A i \in 1 .. c - b : rest[i] = b + i
  BY DEF Upto
<1>3. all \in Seq(Nat) /\ Len(all) = c - a /\ \A i \in 1 .. c - a : all[i] = a + i
  BY DEF Upto
<1> HIDE DEF fore, rest, all
<1>4. /\ sum \in Seq(Nat) /\ Len(sum) = Len(fore) + Len(rest)
      /\ \A i \in 1 .. Len(fore) + Len(rest) :
            sum[i] = IF i <= Len(fore) THEN fore[i] ELSE rest[i - Len(fore)]
  <2>1. fore \in Seq(Nat) /\ rest \in Seq(Nat)
    BY <1>1, <1>2
  <2> QED
    BY <2>1, ConcatProperties
<1> HIDE DEF sum
<1>5. Len(sum) = c - a /\ Len(fore) + Len(rest) = c - a
  BY <1>1, <1>2, <1>4
<1>6. ASSUME NEW i \in 1 .. c - a PROVE sum[i] = all[i]
  <2>1. CASE i <= b - a
    <3>1. i \in 1 .. b - a /\ i <= Len(fore)
      BY <1>1, <2>1
    <3>2. sum[i] = fore[i]
      BY <1>4, <1>5, <3>1
    <3>3. all[i] = a + i
      BY <1>3
    <3> QED
      BY <1>1, <3>1, <3>2, <3>3
  <2>2. CASE ~(i <= b - a)
    <3>1. i - (b - a) \in 1 .. c - b /\ b + (i - (b - a)) = a + i
      BY <2>2
    <3>2. sum[i] = rest[i - (b - a)]
      BY <1>1, <1>4, <1>5, <2>2
    <3> QED
      BY <1>2, <1>3, <3>1, <3>2
  <2> QED
    BY <2>1, <2>2
<1>7. sum = all
  BY <1>3, <1>4, <1>5, <1>6, SeqEqual
<1> QED
  BY <1>7 DEF sum, fore, rest, all

\* Nothing is nothing.
LEMMA UptoNone ==
    ASSUME NEW a \in Nat
    PROVE  Upto(a, a) = <<>>
<1>1. Upto(a, a) \in Seq(Nat) /\ Len(Upto(a, a)) = 0
  BY UptoCut
<1> QED
  BY <1>1, EmptySeq

LEMMA UptoType ==
    ASSUME NEW a \in Nat, NEW b \in Nat, a <= b
    PROVE  Upto(a, b) \in Seq(Nat) /\ Len(Upto(a, b)) = b - a
<1>1. 0 \in 0 .. b - a
  OBVIOUS
<1> QED
  BY <1>1, UptoCut

\* Reading goes on where it was.
LEMMA ReadsThenOn ==
    ASSUME NEW h, NEW ends, NEW s, NEW t, NEW u, NEW at, Heeds(h, ends, s),
           ReadsFrom(h, ends, s, t, at), ReadsOn(h, ends, t, u)
    PROVE  ReadsFrom(h, ends, s, u, at)
<1>1. Heeds(h, ends, t) /\ Heeds(h, ends, u)
  <2>1. Heeds(h, ends, t)
    BY ReadsHas
  <2> QED
    BY <2>1, ReadsHas DEF ReadsOn
<1> DEFINE last == Len(h.unacked)
           p == Place(h, s)
           q == Place(h, t)
           v == Place(h, u)
<1>2. last \in Nat /\ p \in 0 .. last /\ q \in 0 .. last /\ v \in 0 .. last
  BY <1>1, HeedsHas
<1>3. at \in p .. q /\ (p = q \/ at < q) /\ q \in q .. v
  BY DEF ReadsFrom, ReadsOn
<1>8. /\ u \in Sessions /\ Reader(h, u)
      /\ t.data = s.data \o Upto(ends[at], ends[q])
      /\ u.data = t.data \o Upto(ends[q], ends[v])
      /\ s.heardAny => u.heardAny
  BY DEF ReadsFrom, ReadsOn
<1>9. /\ t.ended = "session ended" => s.ended = "session ended" \/ (q = last /\ h.state = "over")
      /\ u.ended = "session ended" => t.ended = "session ended" \/ (v = last /\ h.state = "over")
  BY DEF ReadsFrom, ReadsOn
<1>4. /\ \A i \in 0 .. last : ends[i] \in Nat
      /\ \A i, j \in 0 .. last : i <= j => ends[i] <= ends[j]
      /\ s.data \in Seq(Nat)
  <2>1. s \in Sessions
    BY DEF Heeds
  <2> QED
    BY <2>1, HeedsHas DEF Sessions
<1> HIDE DEF last, p, q, v
<1>5. at \in p .. v /\ at \in 0 .. last /\ (p = v \/ at < v) /\ at <= q /\ q <= v /\ v <= last
  <2>1. \A a, b, c, d \in Nat : \A x \in a .. b :
           /\ a <= d /\ b <= d /\ c <= d /\ b \in b .. c
           => x \in a .. c /\ x \in 0 .. d /\ x <= b /\ b <= c
    OBVIOUS
  <2>2. p \in Nat /\ q \in Nat /\ v \in Nat /\ p <= last /\ q <= last /\ v <= last
    BY <1>2
  <2>3. at \in p .. v /\ at \in 0 .. last /\ at <= q /\ q <= v
    BY <1>2, <1>3, <2>1, <2>2
  <2>4. p = v \/ at < v
    BY <1>3, <2>2, <2>3
  <2> QED
    BY <2>2, <2>3, <2>4
<1>6. u.data = s.data \o Upto(ends[at], ends[v])
  <2> DEFINE a == ends[at]
             b == ends[q]
             c == ends[v]
  <2>1. a \in Nat /\ b \in Nat /\ c \in Nat /\ a <= b /\ b <= c
    BY <1>2, <1>4, <1>5
  <2>2. t.data = s.data \o Upto(a, b) /\ u.data = t.data \o Upto(b, c)
    BY <1>8
  <2> HIDE DEF a, b, c
  <2>3. Upto(a, b) \o Upto(b, c) = Upto(a, c)
    BY <2>1, UptoSum
  <2>4. Upto(a, b) \in Seq(Nat) /\ Upto(b, c) \in Seq(Nat)
    BY <2>1, UptoType
  <2>5. (s.data \o Upto(a, b)) \o Upto(b, c) = s.data \o (Upto(a, b) \o Upto(b, c))
    <3> DEFINE x == s.data
               y == Upto(a, b)
               z == Upto(b, c)
    <3>1. x \in Seq(Nat) /\ y \in Seq(Nat) /\ z \in Seq(Nat)
      BY <1>4, <2>4
    <3> HIDE DEF x, y, z
    <3>2. (x \o y) \o z = x \o (y \o z)
      BY <3>1, ConcatAssociative, SMTT(60)
    <3> QED
      BY <3>2 DEF x, y, z
  <2> QED
    BY <2>2, <2>3, <2>5 DEF a, b, c
<1>7. u.ended = "session ended" => s.ended = "session ended" \/ (v = last /\ h.state = "over")
  <2>1. q = last => v = last
    BY <1>2, <1>5
  <2> QED
    BY <1>9, <2>1
<1> QED
  BY <1>5, <1>6, <1>7, <1>8 DEF ReadsFrom, p, v, last

-----------------------------------------------------------------------------
(* Reading, operation by operation.                                         *)

\* What t has put out that s had not says that x is heard.
OutSays(s, t, x) ==
    \A i \in 1 .. Len(t.outgoing) :
       \/ i <= Len(s.outgoing) /\ t.outgoing[i] = s.outgoing[i]
       \/ t.outgoing[i].kind # "run"
       \/ t.outgoing[i].acknowledged = x

\* While nothing older than it was heard, it says no more is heard than is.
LEMMA OutSaysNoMore ==
    ASSUME NEW h, NEW ends, NEW s, Heeds(h, ends, s), NEW t \in Sessions, NEW x \in Numbers,
           t.heard = x, OutSays(s, t, x), Back(h, x) <= Back(h, s.heard),
           NEW i \in 1 .. Len(t.outgoing), t.outgoing[i].kind = "run"
    PROVE  Back(h, x) <= Back(h, t.outgoing[i].acknowledged)
<1>1. /\ Len(s.outgoing) \in Nat /\ Len(t.outgoing) \in Nat /\ s.outgoing \in Seq(FramesToHost)
      /\ s.heard \in Numbers
  <2>1. s \in Sessions
    BY DEF Heeds
  <2> QED
    BY <2>1, SessionHas
<1>2. Back(h, x) \in Nat /\ Back(h, s.heard) \in Nat
  BY <1>1, HeedsHas
<1>3. CASE i <= Len(s.outgoing) /\ t.outgoing[i] = s.outgoing[i]
  <2>1. i \in 1 .. Len(s.outgoing)
    BY <1>1, <1>3
  <2>2. s.outgoing[i] \in FramesToHost
    BY <1>1, <2>1, ElementOfSeq
  <2>3. t.outgoing[i].acknowledged \in Numbers
    BY <1>3, <2>2, FrameHas
  <2>4. Back(h, s.heard) <= Back(h, t.outgoing[i].acknowledged)
    BY <1>3, <2>1 DEF Heeds, Reader
  <2>5. Back(h, t.outgoing[i].acknowledged) \in Nat
    BY <2>3, HeedsHas
  <2> HIDE DEF Back
  <2> QED
    BY <1>2, <2>4, <2>5
<1>4. CASE t.outgoing[i].acknowledged = x
  BY <1>2, <1>4
<1> QED
  BY <1>3, <1>4 DEF OutSays

\* And what it has put out after that neither.
LEMMA OutSaysOn ==
    ASSUME NEW s, NEW t, NEW o, NEW u, NEW x, OutSays(s, t, x), o.outgoing = t.outgoing,
           o.heard = x, SaysHeard(o, u)
    PROVE  OutSays(s, u, x)
<1> SUFFICES ASSUME NEW i \in 1 .. Len(u.outgoing),
                    ~(u.outgoing[i].kind # "run" \/ u.outgoing[i].acknowledged = x)
             PROVE  i <= Len(s.outgoing) /\ u.outgoing[i] = s.outgoing[i]
  BY DEF OutSays
<1>1. i <= Len(t.outgoing) /\ u.outgoing[i] = t.outgoing[i]
  BY DEF SaysHeard
<1>2. i \in 1 .. Len(t.outgoing)
  BY <1>1
<1> QED
  BY <1>1, <1>2 DEF OutSays

\* t has heard no more than s, and waits for no more.
HearsNoMore(s, t) ==
    /\ t.heard = s.heard /\ t.heardAny = s.heardAny /\ t.early \subseteq s.early
    /\ t.data = s.data /\ (t.ended = s.ended \/ t.ended # "session ended")
    /\ OutSays(s, t, s.heard)

\* t has heard m besides, and waits for no more.
HearsOne(s, t, m) ==
    /\ t.heard = m.sequence /\ t.heardAny /\ t.early \subseteq s.early
    /\ t.data = s.data \o m.data
    /\ t.ended = "session ended" => s.ended = "session ended" \/ m.ended
    /\ OutSays(s, t, m.sequence)

\* Where nothing more is heard, nothing more is read.
LEMMA SameReads ==
    ASSUME NEW h, NEW ends, NEW s, Heeds(h, ends, s), NEW t \in Sessions, HearsNoMore(s, t)
    PROVE  ReadsOn(h, ends, s, t)
<1> DEFINE last == Len(h.unacked)
           p == Place(h, s)
<1>1. /\ s \in Sessions /\ Reader(h, s) /\ Place(h, t) = p
      /\ s.heard \in Numbers /\ OutSays(s, t, s.heard) /\ t.heard = s.heard
  BY HeedsHas DEF Heeds, Place, HearsNoMore
<1>2. /\ last \in Nat /\ p \in 0 .. last /\ Back(h, s.heard) \in 0 .. last
      /\ \A i \in 0 .. last : ends[i] \in Nat
  BY HeedsHas
<1>3. Back(h, s.heard) <= Back(h, s.heard) /\ p \in p .. p
  BY <1>2
<1>4. \A i \in 1 .. Len(t.outgoing) :
         t.outgoing[i].kind = "run" => Back(h, t.heard) <= Back(h, t.outgoing[i].acknowledged)
  BY <1>1, <1>3, OutSaysNoMore
<1>5. Reader(h, t)
  BY <1>1, <1>4 DEF Reader, HearsNoMore
<1> HIDE DEF p, last
<1>6. t.data = s.data \o Upto(ends[p], ends[p])
  <2>1. Upto(ends[p], ends[p]) = <<>>
    BY <1>2, UptoNone
  <2>2. s.data \in Seq(Nat)
    BY <1>1 DEF Sessions
  <2>3. s.data \o <<>> = s.data
    BY <2>2, ConcatEmptySeq
  <2> QED
    BY <2>1, <2>3 DEF HearsNoMore
<1>7. ReadsFrom(h, ends, s, t, p)
  BY <1>1, <1>3, <1>5, <1>6 DEF ReadsFrom, p, HearsNoMore
<1> QED
  BY <1>7 DEF ReadsOn, p

LEMMA SendsReads ==
    ASSUME NEW h, NEW ends, NEW s, Heeds(h, ends, s), NEW t, Sends(s, t)
    PROVE  /\ ReadsOn(h, ends, s, t) /\ Heeds(h, ends, t)
           /\ t.heard = s.heard /\ t.heardAny = s.heardAny /\ t.early = s.early
           /\ t.state = s.state
<1>1. t \in Sessions
  BY KeepsIs
<1>2. /\ t.heard = s.heard /\ t.heardAny = s.heardAny /\ t.early = s.early /\ t.data = s.data
      /\ t.ended = s.ended /\ t.state = s.state
  BY DEF Sends, SameReading
<1>3. HearsNoMore(s, t)
  BY <1>2 DEF Sends, SaysHeard, OutSays, HearsNoMore
<1>4. ReadsOn(h, ends, s, t)
  BY <1>1, <1>2, <1>3, SameReads
<1>5. Heeds(h, ends, t)
  BY <1>4, ReadsHas DEF ReadsOn
<1> QED
  BY <1>2, <1>4, <1>5

\* A message the host keeps and that is newer than what is heard.
NewFrom(h, s, m) ==
    m \in RunsToUs /\ Matches(h, m) /\ Back(h, m.sequence) < Back(h, s.heard)

\* Where one is heard, what it says is read.
LEMMA NewReads ==
    ASSUME NEW h, NEW ends, NEW s, Heeds(h, ends, s), NEW m, NewFrom(h, s, m), NEW t \in Sessions,
           HearsOne(s, t, m)
    PROVE  ReadsFrom(h, ends, s, t, Len(h.unacked) - Back(h, m.sequence) - 1)
<1> DEFINE last == Len(h.unacked)
           a == Back(h, m.sequence)
           b == Back(h, s.heard)
           i == last - a
<1>1. /\ s \in Sessions /\ Reader(h, s) /\ m \in RunsToUs /\ m.sequence \in Numbers
      /\ Matches(h, m) /\ Saying(h, ends)
  BY FrameHas DEF Heeds, NewFrom
<1>2. last \in Nat /\ a \in Nat /\ b \in 0 .. last /\ a < b
  BY <1>1, HeedsHas DEF NewFrom
<1>3. Place(h, s) = last - b /\ Place(h, t) = i /\ t.heard = m.sequence
  BY DEF Place, HearsOne
<1>4. i \in 1 .. last /\ i - 1 \in last - b .. i /\ i - 1 < i /\ a <= b /\ a <= last /\ i > 0
  <2>1. \A l, x, y \in Nat :
           x < y /\ y <= l => /\ l - x \in 1 .. l /\ l - x - 1 \in l - y .. l - x
                             /\ l - x - 1 < l - x /\ x <= y /\ x <= l /\ l - x > 0
    OBVIOUS
  <2> HIDE DEF last, a, b
  <2>2. b \in Nat /\ b <= last
    BY <1>2
  <2> QED
    BY <1>2, <2>1, <2>2
<1>5. m.data = h.unacked[i].data /\ m.ended = h.unacked[i].ended
  BY <1>1, <1>4 DEF Matches
<1>6. /\ h.unacked[i].data = Upto(ends[i - 1], ends[i])
      /\ h.unacked[i].ended => i = last /\ h.state = "over"
  BY <1>1, <1>4 DEF Saying
<1>7. \A j \in 1 .. Len(t.outgoing) :
         t.outgoing[j].kind = "run" => Back(h, t.heard) <= Back(h, t.outgoing[j].acknowledged)
  BY <1>1, <1>3, <1>4, OutSaysNoMore DEF HearsOne
<1>8. Reader(h, t)
  BY <1>1, <1>3, <1>4, <1>7 DEF Reader, HearsOne
<1>9. t.data = s.data \o Upto(ends[i - 1], ends[i])
  BY <1>5, <1>6 DEF HearsOne
<1>10. t.ended = "session ended" =>
          s.ended = "session ended" \/ (i = last /\ h.state = "over")
  BY <1>5, <1>6 DEF HearsOne
<1> HIDE DEF last, a, b, i
<1>11. ReadsFrom(h, ends, s, t, i - 1)
  BY <1>3, <1>4, <1>8, <1>9, <1>10 DEF ReadsFrom, last, HearsOne
<1> QED
  BY <1>11 DEF i, last, a

\* What is fresh is newer than what is heard.
LEMMA FreshIsNew ==
    ASSUME NEW h, NEW ends, NEW s, Heeds(h, ends, s), NEW m \in RunsToUs, Matches(h, m),
           Back(h, m.sequence) < Half, ~s.heardAny => Back(h, m.sequence) < Len(h.unacked)
    PROVE  Fresh(s, m) <=> NewFrom(h, s, m)
<1>1. /\ m.sequence \in Numbers /\ s.heard \in Numbers /\ h.sequence \in Numbers
      /\ Back(h, s.heard) < Half
  <2>1. /\ m.sequence \in Numbers /\ s.heard \in Numbers /\ h.sequence \in Numbers
        /\ Back(h, s.heard) \in 0 .. Len(h.unacked) /\ Len(h.unacked) \in Nat
        /\ Len(h.unacked) < Half
    BY HeedsHas, FrameHas
  <2> QED
    BY <2>1, HalfType
<1>2. Newer(m.sequence, s.heard) <=> Back(h, m.sequence) < Back(h, s.heard)
  BY <1>1, NewerIsLater DEF Back
<1>3. CASE s.heardAny
  BY <1>2, <1>3 DEF Fresh, NewFrom
<1>4. CASE ~s.heardAny
  <2>1. Back(h, s.heard) = Len(h.unacked)
    BY <1>4 DEF Heeds, Reader
  <2> QED
    BY <1>4, <2>1 DEF Fresh, NewFrom
<1> QED
  BY <1>3, <1>4

\* A message with slots that is fresh is heard and read.
LEMMA TakeFreshHears ==
    ASSUME NEW s \in Sessions, NEW m \in RunsToUs, NEW owed \in Nat, Fresh(s, m)
    PROVE  HearsOne(s, TakeFresh(s, m, owed), m) /\ TakeFresh(s, m, owed).early = s.early
<1> DEFINE hears == Hear(s, m)
           says == Acknowledge(hears)
           reads == ReadSlots(says, m)
           read == Spend(reads, owed + Missed(s, m))
           over == [read EXCEPT !.ended = "session ended", !.state = "Closed"]
           open == [read EXCEPT !.state = IF @ = "Asked" THEN "Open" ELSE @]
           sent == SendTyped(open)
<1>1. /\ hears \in Sessions /\ hears.heard = m.sequence /\ hears.heardAny = TRUE
      /\ hears.early = s.early /\ hears.data = s.data /\ hears.ended = s.ended
      /\ hears.outgoing = s.outgoing
  <2>1. hears \in Sessions
    BY HearKeeps, KeepsIs
  <2>2. hears = [s EXCEPT !.heard = m.sequence, !.heardAny = TRUE]
    BY DEF Hear
  <2> QED
    BY <2>1, <2>2 DEF Sessions
<1> HIDE DEF hears
<1>2. Sends(hears, says) /\ says \in Sessions
  BY <1>1, AcknowledgeSends, KeepsIs
<1> HIDE DEF says
<1>3. /\ reads \in Sessions /\ reads.heard = says.heard /\ reads.heardAny = says.heardAny
      /\ reads.early = says.early /\ reads.data = says.data \o m.data
      /\ reads.ended = says.ended /\ reads.outgoing = says.outgoing
  <2>1. reads \in Sessions
    BY <1>2, ReadSlotsKeeps, KeepsIs
  <2>2. reads = [says EXCEPT !.remoteSlot = IF m.from = 0 THEN @ ELSE m.from,
                             !.allowance = @ + m.credit, !.data = @ \o m.data]
    BY DEF ReadSlots
  <2> QED
    BY <1>2, <2>1, <2>2 DEF Sessions
<1> HIDE DEF reads
<1>4. owed + Missed(s, m) \in Nat
  BY MissedType
<1>5. Sends(reads, read) /\ read \in Sessions
  BY <1>3, <1>4, SpendSends, KeepsIs
<1>6. TakeFresh(s, m, owed) = IF m.ended THEN over ELSE IF m.data = <<>> THEN read ELSE sent
  BY DEF TakeFresh, hears, says, reads
<1> HIDE DEF read
<1>7. HearsOne(s, read, m) /\ read.early = s.early
  <2>1. /\ SameReading(hears, says) /\ SameReading(reads, read)
        /\ SaysHeard(hears, says) /\ SaysHeard(reads, read)
    BY <1>2, <1>5 DEF Sends
  <2>2. /\ read.heard = m.sequence /\ read.heardAny = TRUE /\ read.early = s.early
        /\ read.data = s.data \o m.data /\ read.ended = s.ended
    BY <1>1, <1>3, <2>1 DEF SameReading
  <2>3. OutSays(s, read, m.sequence)
    BY <1>1, <1>3, <2>1 DEF SaysHeard, OutSays, SameReading
  <2> QED
    BY <2>2, <2>3 DEF HearsOne
<1>8. /\ over.heard = read.heard /\ over.heardAny = read.heardAny /\ over.early = read.early
      /\ over.data = read.data /\ over.outgoing = read.outgoing
  BY <1>5 DEF Sessions
<1>9. /\ open.heard = read.heard /\ open.heardAny = read.heardAny /\ open.early = read.early
      /\ open.data = read.data /\ open.outgoing = read.outgoing /\ open.ended = read.ended
      /\ open \in Sessions
  BY <1>5 DEF Sessions, States
<1> HIDE DEF over, open
<1>10. Sends(open, sent)
  BY <1>9, SendTypedSends
<1> HIDE DEF sent
<1>11. CASE m.ended
  <2>1. OutSays(s, over, m.sequence)
    BY <1>7, <1>8 DEF HearsOne, OutSays
  <2>2. HearsOne(s, over, m) /\ over.early = s.early
    BY <1>7, <1>8, <1>11, <2>1 DEF HearsOne
  <2> QED
    BY <1>6, <1>11, <2>2
<1>12. HearsOne(s, sent, m) /\ sent.early = s.early
  <2>1. SameReading(open, sent) /\ SaysHeard(open, sent)
    BY <1>10 DEF Sends
  <2>2. OutSays(s, sent, m.sequence)
    <3>1. OutSays(s, read, m.sequence) /\ open.heard = m.sequence /\ open.outgoing = read.outgoing
      BY <1>7, <1>9 DEF HearsOne
    <3> QED
      BY <2>1, <3>1, OutSaysOn
  <2> QED
    BY <1>7, <1>9, <2>1, <2>2 DEF HearsOne, SameReading
<1> QED
  BY <1>6, <1>7, <1>11, <1>12

\* A message of the host's that may be taken.
MayTake(h, s, m) ==
    /\ m \in RunsToUs /\ Matches(h, m) /\ Back(h, m.sequence) < Half
    /\ ~s.heardAny => Back(h, m.sequence) < Len(h.unacked)

\* Where in what the host said it is.
Before(h, m) == Len(h.unacked) - Back(h, m.sequence) - 1

LEMMA TakeReads ==
    ASSUME NEW h, NEW ends, NEW s, Heeds(h, ends, s), NEW m, MayTake(h, s, m), NEW counted
    PROVE  /\ Take(s, m, counted).early = s.early
           /\ IF NewFrom(h, s, m)
              THEN /\ ReadsFrom(h, ends, s, Take(s, m, counted), Before(h, m))
                   /\ Take(s, m, counted).heard = m.sequence
              ELSE /\ ReadsOn(h, ends, s, Take(s, m, counted))
                   /\ Take(s, m, counted).heard = s.heard
<1> DEFINE t == Take(s, m, counted)
<1>1. s \in Sessions /\ m \in RunsToUs /\ t \in Sessions
  BY TakeKeeps, KeepsIs DEF Heeds, MayTake
<1>2. Fresh(s, m) <=> NewFrom(h, s, m)
  BY FreshIsNew DEF MayTake
<1>3. CASE Fresh(s, m)
  <2>1. HearsOne(s, t, m) /\ t.early = s.early
    <3>1. CASE m.slots = 0
      <4>1. t = [s EXCEPT !.heard = m.sequence, !.heardAny = TRUE]
        BY <1>3, <3>1 DEF Take, Hear
      <4>2. /\ t.heard = m.sequence /\ t.heardAny = TRUE /\ t.early = s.early /\ t.data = s.data
            /\ t.ended = s.ended /\ t.outgoing = s.outgoing
        BY <1>1, <4>1 DEF Sessions
      <4>3. m.data = <<>>
        <5> DEFINE i == Len(h.unacked) - Back(h, m.sequence)
        <5>1. i \in 1 .. Len(h.unacked) /\ i > 0
          <6>1. /\ Back(h, m.sequence) < Back(h, s.heard) /\ Back(h, s.heard) \in 0 .. Len(h.unacked)
                /\ Len(h.unacked) \in Nat /\ Back(h, m.sequence) \in Nat
            BY <1>1, <1>2, <1>3, HeedsHas, FrameHas DEF NewFrom
          <6> QED
            BY <6>1
        <5> HIDE DEF i
        <5>2. m.data = h.unacked[i].data /\ m.slots = h.unacked[i].slots
          BY <5>1 DEF MayTake, Matches, i
        <5> QED
          BY <3>1, <5>1, <5>2 DEF Heeds, Saying
      <4>4. s.data \o <<>> = s.data
        <5>1. s.data \in Seq(Nat)
          BY <1>1 DEF Sessions
        <5> QED
          BY <5>1, ConcatEmptySeq
      <4>5. OutSays(s, t, m.sequence)
        <5>1. Len(s.outgoing) \in Nat
          BY <1>1, SessionHas
        <5> QED
          BY <4>2, <5>1 DEF OutSays
      <4> HIDE DEF t
      <4> QED
        BY <4>2, <4>3, <4>4, <4>5 DEF HearsOne
    <3>2. CASE m.slots # 0
      <4> DEFINE owed == IF counted THEN 0 ELSE m.slots
      <4>1. owed \in Nat /\ t = TakeFresh(s, m, owed)
        BY <1>1, <1>3, <3>2 DEF Take, RunsToUs
      <4> HIDE DEF owed, t
      <4> QED
        BY <1>1, <1>3, <4>1, TakeFreshHears
    <3> QED
      BY <3>1, <3>2
  <2> HIDE DEF t
  <2>2. ReadsFrom(h, ends, s, t, Before(h, m))
    BY <1>1, <1>2, <1>3, <2>1, NewReads DEF Before
  <2> QED
    BY <1>2, <1>3, <2>1, <2>2 DEF t, HearsOne
<1>4. CASE ~Fresh(s, m)
  <2>1. t = s \/ t = TakeAgain(s, m)
    BY <1>4 DEF Take, Hear
  <2> HIDE DEF t
  <2>2. HearsNoMore(s, s)
    <3>1. Len(s.outgoing) \in Nat
      BY <1>1, SessionHas
    <3> QED
      BY <3>1 DEF HearsNoMore, OutSays
  <2>3. CASE t = s
    BY <1>1, <1>2, <1>4, <2>2, <2>3, SameReads DEF t
  <2>4. CASE t = TakeAgain(s, m)
    <3> DEFINE spent == Spend(s, m.slots)
    <3>1. Sends(s, spent) /\ spent \in Sessions
      BY <1>1, SpendSends, KeepsIs DEF RunsToUs
    <3>2. t = Acknowledge(spent)
      BY <2>4 DEF TakeAgain
    <3> HIDE DEF spent
    <3>3. Sends(s, t)
      BY <1>1, <3>1, <3>2, AcknowledgeSends, SendsOn
    <3> QED
      BY <1>2, <1>4, <3>3, SendsReads DEF t
  <2> QED
    BY <2>1, <2>3, <2>4
<1> QED
  BY <1>3, <1>4

\* The number after one is what is one message newer.
LEMMA NextIs ==
    ASSUME NEW h \in Hosts, NEW x \in Numbers, NEW y \in Numbers,
           Back(h, x) < Back(h, y)
    PROVE  /\ x = NextNumber(y) <=> Back(h, x) = Back(h, y) - 1
           /\ Back(h, x) <= Back(h, y) - 1
<1>1. h.sequence \in Numbers
  BY DEF Hosts
<1>2. Back(h, x) \in Nat /\ Back(h, y) \in Nat /\ NumberSpan \in Nat
  BY <1>1, DistanceType, NumbersAssumption DEF Back
<1>3. h.sequence # y
  <2>1. Back(h, y) # 0
    BY <1>2
  <2> QED
    BY <1>1, <2>1, DistanceType DEF Back
<1>4. NextNumber(y) \in Numbers
  BY DistanceOfNext
<1>5. Back(h, NextNumber(y)) = Back(h, y) - 1
  BY <1>1, <1>3, DistanceToNext DEF Back
<1>6. x = NextNumber(y) => Back(h, x) = Back(h, y) - 1
  BY <1>5
<1>7. Back(h, x) = Back(h, y) - 1 => x = NextNumber(y)
  <2>1. Back(h, x) = Back(h, y) - 1 => Back(h, x) = Back(h, NextNumber(y))
    BY <1>5
  <2> QED
    BY <1>1, <1>4, <2>1, DistanceOwn DEF Back
<1>8. Back(h, x) <= Back(h, y) - 1
  BY <1>2
<1> QED
  BY <1>6, <1>7, <1>8

\* What waits, and which of it is unread.
LEMMA WaitingHas ==
    ASSUME NEW h, NEW ends, NEW s, Heeds(h, ends, s), NEW w \in s.early
    PROVE  /\ w \in RunsToUs /\ w.sequence \in Numbers /\ Matches(h, w)
           /\ Back(h, w.sequence) \in Nat /\ Back(h, w.sequence) < Len(h.unacked)
           /\ Back(h, w.sequence) < Half
           /\ w \in Unread(s) <=> Back(h, w.sequence) < Back(h, s.heard)
<1>1. w \in RunsToUs /\ w.sequence \in Numbers
  <2>1. w \in RunsToUs
    BY DEF Heeds, Sessions
  <2> QED
    BY <2>1, FrameHas
<1>2. Matches(h, w) /\ Back(h, w.sequence) < Len(h.unacked)
  BY DEF Heeds, Reader
<1>3. /\ Back(h, w.sequence) \in Nat /\ Back(h, s.heard) \in 0 .. Len(h.unacked)
      /\ Len(h.unacked) \in Nat /\ Len(h.unacked) < Half
      /\ h.sequence \in Numbers /\ s.heard \in Numbers
  BY <1>1, HeedsHas
<1>4. Back(h, w.sequence) < Half /\ Back(h, s.heard) < Half
  BY <1>2, <1>3, HalfType
<1>5. Newer(w.sequence, s.heard) <=> Back(h, w.sequence) < Back(h, s.heard)
  BY <1>1, <1>3, <1>4, NewerIsLater DEF Back
<1> QED
  BY <1>1, <1>2, <1>3, <1>4, <1>5 DEF Unread

\* Reading is a matter of what is heard and what was read.
LEMMA ReadsSame ==
    ASSUME NEW h, NEW ends, NEW s, NEW r, NEW t, NEW at, ReadsFrom(h, ends, r, t, at),
           r.heard = s.heard, r.heardAny = s.heardAny, r.data = s.data, r.ended = s.ended
    PROVE  ReadsFrom(h, ends, s, t, at)
<1>1. Place(h, r) = Place(h, s)
  BY DEF Place
<1> QED
  BY <1>1 DEF ReadsFrom

\* Fewer wait.
LEMMA FewerWait ==
    ASSUME NEW h, NEW ends, NEW s, Heeds(h, ends, s), NEW left \in SUBSET s.early
    PROVE  LET r == [s EXCEPT !.early = left]
           IN  /\ r \in Sessions /\ HearsNoMore(s, r) /\ r.early = left
               /\ r.heard = s.heard /\ r.heardAny = s.heardAny /\ r.data = s.data
               /\ r.ended = s.ended /\ r.state = s.state
<1> DEFINE r == [s EXCEPT !.early = left]
<1>1. s \in Sessions
  BY DEF Heeds
<1>2. left \in SUBSET RunsToUs
  BY <1>1 DEF Sessions
<1>3. /\ r.early = left /\ r.heard = s.heard /\ r.heardAny = s.heardAny /\ r.data = s.data
      /\ r.ended = s.ended /\ r.state = s.state /\ r.outgoing = s.outgoing
  BY <1>1 DEF Sessions
<1>4. r \in Sessions
  BY <1>1, <1>2 DEF Sessions
<1> HIDE DEF r
<1>5. OutSays(s, r, s.heard)
  <2>1. Len(s.outgoing) \in Nat
    BY <1>1, SessionHas
  <2> QED
    BY <1>3, <2>1 DEF OutSays
<1>6. HearsNoMore(s, r)
  BY <1>3, <1>5 DEF HearsNoMore
<1> QED
  BY <1>3, <1>4, <1>6 DEF r

\* Of what waits unread these are the oldest.
Oldest(h, s, waiting) ==
    /\ waiting \subseteq Unread(s)
    /\ \A w \in waiting, o \in Unread(s) : Back(h, o.sequence) <= Back(h, w.sequence)

\* Where the oldest is taken, it is read, and what waits still is newer.
LEMMA TakeOldestReads ==
    ASSUME NEW h, NEW ends, NEW s, Heeds(h, ends, s), NEW waiting, Oldest(h, s, waiting)
    PROVE  LET t == TakeOneOf(s, waiting)
           IN  /\ Tidy(h, t)
               /\ IF waiting = {} THEN ReadsOn(h, ends, s, t)
                  ELSE \E m \in waiting : ReadsFrom(h, ends, s, t, Before(h, m))
<1> DEFINE t == TakeOneOf(s, waiting)
           left == Unread(s)
           m == CHOOSE w \in waiting : TRUE
           others == left \ {m}
<1>0. left \in SUBSET s.early /\ others \in SUBSET s.early
  BY DEF Unread
<1>1. CASE waiting = {}
  <2> DEFINE r == [s EXCEPT !.early = left]
  <2>1. t = r
    BY <1>1 DEF TakeOneOf
  <2>2. r \in Sessions /\ HearsNoMore(s, r) /\ r.early = left /\ r.heard = s.heard
    BY <1>0, FewerWait
  <2> HIDE DEF r, t
  <2>3. ReadsOn(h, ends, s, r)
    BY <2>2, SameReads
  <2>4. Tidy(h, r)
    <3> SUFFICES ASSUME NEW w \in left PROVE Back(h, w.sequence) < Back(h, s.heard)
      BY <2>2 DEF Tidy
    <3> HIDE DEF left
    <3>1. w \in s.early
      BY <1>0
    <3> QED
      BY <3>1, WaitingHas DEF left
  <2> QED
    BY <1>1, <2>1, <2>3, <2>4 DEF t
<1>2. CASE waiting # {}
  <2> DEFINE r == [s EXCEPT !.early = others]
  <2>1. t = Take(r, m, TRUE)
    BY <1>2 DEF TakeOneOf
  <2>2. m \in waiting /\ m \in Unread(s) /\ m \in s.early
    BY <1>0, <1>2 DEF Oldest
  <2> HIDE DEF m
  <2>3. /\ r \in Sessions /\ HearsNoMore(s, r) /\ r.early = others /\ r.heard = s.heard
        /\ r.heardAny = s.heardAny /\ r.data = s.data /\ r.ended = s.ended
    BY <1>0, FewerWait
  <2> HIDE DEF r, t, others
  <2>4. Heeds(h, ends, r)
    BY <2>3, SameReads, ReadsHas DEF ReadsOn
  <2>5. /\ m \in RunsToUs /\ Matches(h, m) /\ Back(h, m.sequence) < Len(h.unacked)
        /\ Back(h, m.sequence) < Half /\ Back(h, m.sequence) < Back(h, s.heard)
    BY <2>2, WaitingHas
  <2>6. MayTake(h, r, m) /\ NewFrom(h, r, m)
    BY <2>3, <2>5 DEF MayTake, NewFrom
  <2>7. /\ t.early = others /\ t.heard = m.sequence
        /\ ReadsFrom(h, ends, r, t, Before(h, m))
    BY <2>1, <2>3, <2>4, <2>6, TakeReads
  <2>8. ReadsFrom(h, ends, s, t, Before(h, m))
    BY <2>3, <2>7, ReadsSame
  <2>9. Tidy(h, t)
    <3> SUFFICES ASSUME NEW w \in others PROVE Back(h, w.sequence) < Back(h, m.sequence)
      BY <2>7 DEF Tidy
    <3>1. w \in s.early /\ w \in Unread(s) /\ w # m
      BY <1>0 DEF others
    <3>2. Back(h, w.sequence) <= Back(h, m.sequence)
      BY <2>2, <3>1 DEF Oldest
    <3>3. w.sequence # m.sequence
      BY <2>2, <3>1 DEF Heeds, Reader
    <3>4. /\ w.sequence \in Numbers /\ m.sequence \in Numbers /\ h.sequence \in Numbers
          /\ Back(h, w.sequence) \in Nat /\ Back(h, m.sequence) \in Nat
      BY <2>2, <3>1, WaitingHas, HeedsHas
    <3>5. Back(h, w.sequence) # Back(h, m.sequence)
      BY <3>3, <3>4, DistanceOwn DEF Back
    <3> QED
      BY <3>2, <3>4, <3>5
  <2> QED
    BY <1>2, <2>2, <2>8, <2>9 DEF t
<1> QED
  BY <1>1, <1>2

LEMMA StaysReads ==
    ASSUME NEW h, NEW ends, NEW s, Heeds(h, ends, s)
    PROVE  ReadsOn(h, ends, s, s)
<1>1. s \in Sessions
  BY DEF Heeds
<1>2. Len(s.outgoing) \in Nat
  BY <1>1, SessionHas
<1>3. HearsNoMore(s, s)
  BY <1>2 DEF HearsNoMore, OutSays
<1> QED
  BY <1>1, <1>3, SameReads

\* What is next in line is the oldest, and comes after what is heard.
LEMMA NextOldest ==
    ASSUME NEW h, NEW ends, NEW s, Heeds(h, ends, s)
    PROVE  /\ Oldest(h, s, NextInLine(s))
           /\ \A w \in NextInLine(s) : Back(h, w.sequence) = Back(h, s.heard) - 1
<1> DEFINE waiting == NextInLine(s)
           b == Back(h, s.heard)
<1>1. h \in Hosts /\ s.heard \in Numbers /\ b \in Nat
  <2>1. h \in Hosts /\ s.heard \in Numbers /\ b \in 0 .. Len(h.unacked) /\ Len(h.unacked) \in Nat
    BY HeedsHas DEF Heeds
  <2> QED
    BY <2>1
<1>2. ASSUME NEW w \in Unread(s)
      PROVE  /\ Back(h, w.sequence) \in Nat /\ Back(h, w.sequence) <= b - 1
             /\ w \in waiting <=> Back(h, w.sequence) = b - 1
  <2>1. w \in s.early
    BY DEF Unread
  <2>2. w.sequence \in Numbers /\ Back(h, w.sequence) \in Nat /\ Back(h, w.sequence) < b
    BY <2>1, WaitingHas
  <2>3. /\ w.sequence = NextNumber(s.heard) <=> Back(h, w.sequence) = b - 1
        /\ Back(h, w.sequence) <= b - 1
    BY <1>1, <2>2, NextIs
  <2> QED
    BY <2>2, <2>3 DEF NextInLine
<1>3. waiting \subseteq Unread(s)
  BY DEF NextInLine
<1> QED
  BY <1>2, <1>3 DEF Oldest

\* It is read on from there.
LEMMA NextReads ==
    ASSUME NEW h, NEW ends, NEW s, Heeds(h, ends, s)
    PROVE  LET t == TakeOneOf(s, NextInLine(s))
           IN  ReadsOn(h, ends, s, t) /\ Tidy(h, t)
<1> DEFINE waiting == NextInLine(s)
           t == TakeOneOf(s, waiting)
           b == Back(h, s.heard)
<1>1. Oldest(h, s, waiting) /\ \A w \in waiting : Back(h, w.sequence) = b - 1
  BY NextOldest
<1>2. b \in Nat /\ Len(h.unacked) \in Nat
  <2>1. b \in 0 .. Len(h.unacked) /\ Len(h.unacked) \in Nat
    BY HeedsHas
  <2> QED
    BY <2>1
<1>4. /\ Tidy(h, t)
      /\ IF waiting = {} THEN ReadsOn(h, ends, s, t)
         ELSE \E m \in waiting : ReadsFrom(h, ends, s, t, Before(h, m))
  BY <1>1, TakeOldestReads
<1>5. ASSUME NEW m \in waiting PROVE Before(h, m) = Place(h, s)
  BY <1>1, <1>2 DEF Before, Place
<1> HIDE DEF waiting, t, b
<1>6. ReadsOn(h, ends, s, t)
  BY <1>4, <1>5 DEF ReadsOn
<1> QED
  BY <1>4, <1>6 DEF t, waiting

\* What waits next in line when the gap is given up.
Waits(h, s) == \E w \in Unread(s) : Back(h, w.sequence) = Back(h, s.heard) - 1

\* What is nearest is the oldest, and comes after what is heard if any does.
LEMMA NearestOldest ==
    ASSUME NEW h, NEW ends, NEW s, Heeds(h, ends, s)
    PROVE  /\ Oldest(h, s, Nearest(s))
           /\ Waits(h, s) => \A w \in Nearest(s) : Back(h, w.sequence) = Back(h, s.heard) - 1
<1> DEFINE waiting == Nearest(s)
           b == Back(h, s.heard)
<1>1. /\ h \in Hosts /\ s.heard \in Numbers /\ b \in Nat /\ Len(h.unacked) \in Nat
      /\ h.sequence \in Numbers
  <2>1. /\ h \in Hosts /\ s.heard \in Numbers /\ b \in 0 .. Len(h.unacked)
        /\ Len(h.unacked) \in Nat /\ h.sequence \in Numbers
    BY HeedsHas DEF Heeds
  <2> QED
    BY <2>1
<1>2. ASSUME NEW w \in Unread(s)
      PROVE  /\ Back(h, w.sequence) \in Nat /\ Back(h, w.sequence) <= b - 1
             /\ Distance(w.sequence, s.heard) = b - Back(h, w.sequence)
  <2>1. w \in s.early
    BY DEF Unread
  <2>2. w.sequence \in Numbers /\ Back(h, w.sequence) \in Nat /\ Back(h, w.sequence) < b
    BY <2>1, WaitingHas
  <2>3. Distance(w.sequence, s.heard) = b - Back(h, w.sequence)
    <3>1. Distance(w.sequence, s.heard) =
             IF Distance(h.sequence, w.sequence) <= Distance(h.sequence, s.heard)
             THEN Distance(h.sequence, s.heard) - Distance(h.sequence, w.sequence)
             ELSE NumberSpan - (Distance(h.sequence, w.sequence) - Distance(h.sequence, s.heard))
      BY <1>1, <2>2, DistanceBetween
    <3>2. b = Distance(h.sequence, s.heard) /\ Back(h, w.sequence) = Distance(h.sequence, w.sequence)
      BY DEF Back
    <3> QED
      BY <1>1, <2>2, <3>1, <3>2
  <2> QED
    BY <1>1, <2>2, <2>3
<1>3. Oldest(h, s, waiting)
  <2>1. waiting \subseteq Unread(s)
    BY DEF Nearest
  <2>2. ASSUME NEW w \in waiting, NEW o \in Unread(s)
        PROVE  Back(h, o.sequence) <= Back(h, w.sequence)
    <3>1. Distance(w.sequence, s.heard) <= Distance(o.sequence, s.heard)
      BY DEF Nearest
    <3>2. w \in Unread(s)
      BY <2>1
    <3> HIDE DEF b
    <3> QED
      BY <1>1, <1>2, <3>1, <3>2
  <2> QED
    BY <2>1, <2>2 DEF Oldest
<1>5. ASSUME NEW m \in waiting, NEW w \in Unread(s), Back(h, w.sequence) = b - 1
      PROVE  Back(h, m.sequence) = b - 1
  <2>1. m \in Unread(s)
    BY DEF Nearest
  <2>2. Back(h, w.sequence) <= Back(h, m.sequence)
    BY <1>3 DEF Oldest
  <2> HIDE DEF b
  <2> QED
    BY <1>1, <1>2, <1>5, <2>1, <2>2
<1> QED
  BY <1>3, <1>5 DEF Waits

\* It is read on from there.
LEMMA NearestReads ==
    ASSUME NEW h, NEW ends, NEW s, Heeds(h, ends, s)
    PROVE  LET t == TakeOneOf(s, Nearest(s))
           IN  /\ Tidy(h, t)
               /\ \E at : ReadsFrom(h, ends, s, t, at) /\ (Waits(h, s) => at = Place(h, s))
<1> DEFINE waiting == Nearest(s)
           t == TakeOneOf(s, waiting)
           b == Back(h, s.heard)
<1>1. /\ Oldest(h, s, waiting)
      /\ Waits(h, s) => \A w \in waiting : Back(h, w.sequence) = b - 1
  BY NearestOldest
<1>2. b \in Nat /\ Len(h.unacked) \in Nat
  <2>1. b \in 0 .. Len(h.unacked) /\ Len(h.unacked) \in Nat
    BY HeedsHas
  <2> QED
    BY <2>1
<1>4. /\ Tidy(h, t)
      /\ IF waiting = {} THEN ReadsOn(h, ends, s, t)
         ELSE \E m \in waiting : ReadsFrom(h, ends, s, t, Before(h, m))
  BY <1>1, TakeOldestReads
<1>5. ASSUME NEW m \in waiting, Waits(h, s) PROVE Before(h, m) = Place(h, s)
  <2>1. Back(h, m.sequence) = b - 1
    BY <1>1, <1>5
  <2> QED
    BY <1>2, <2>1 DEF Before, Place
<1> HIDE DEF waiting, t, b
<1>6. CASE waiting = {}
  BY <1>4, <1>6 DEF ReadsOn, t, waiting
<1>7. CASE waiting # {}
  <2>1. PICK m \in waiting : ReadsFrom(h, ends, s, t, Before(h, m))
    BY <1>4, <1>7
  <2> QED
    BY <1>4, <1>5, <2>1 DEF t, waiting
<1> QED
  BY <1>6, <1>7

Calm(h, ends, s) == Heeds(h, ends, s) /\ Tidy(h, s)

\* t is s with what was in line read.
Follows(h, ends, s, t) == ReadsOn(h, ends, s, t) /\ Calm(h, ends, t)

LEMMA FollowsOn ==
    ASSUME NEW h, NEW ends, NEW s, NEW t, NEW u, Heeds(h, ends, s),
           Follows(h, ends, s, t), Follows(h, ends, t, u)
    PROVE  Follows(h, ends, s, u)
<1>1. ReadsOn(h, ends, s, u)
  BY ReadsThenOn DEF Follows, ReadsOn
<1> QED
  BY <1>1 DEF Follows

LEMMA Follow8Reads ==
    ASSUME NEW h, NEW ends, NEW s, Calm(h, ends, s)
    PROVE  Follows(h, ends, s, Follow8(s))
<1>1. ASSUME NEW r, Calm(h, ends, r) PROVE Follows(h, ends, r, Follow(r))
  <2>1. Heeds(h, ends, r)
    BY <1>1 DEF Calm
  <2>2. CASE r.state = "Closed"
    <3>1. ReadsOn(h, ends, r, r)
      BY <2>1, StaysReads
    <3> QED
      BY <1>1, <2>2, <3>1 DEF Follow, Follows
  <2>3. CASE r.state # "Closed"
    <3> DEFINE t == TakeOneOf(r, NextInLine(r))
    <3>1. ReadsOn(h, ends, r, t) /\ Tidy(h, t)
      BY <2>1, NextReads
    <3>2. Follow(r) = t
      BY <2>3 DEF Follow
    <3> HIDE DEF t
    <3>3. Heeds(h, ends, t)
      BY <2>1, <3>1, ReadsHas DEF ReadsOn
    <3> QED
      BY <3>1, <3>2, <3>3 DEF Follows, Calm
  <2> QED
    BY <2>2, <2>3
<1>2. ASSUME NEW r, Calm(h, ends, r) PROVE Follows(h, ends, r, Follow2(r))
  <2>1. Heeds(h, ends, r) /\ Follows(h, ends, r, Follow(r))
    BY <1>1, <1>2 DEF Calm
  <2>2. Follows(h, ends, Follow(r), Follow(Follow(r)))
    BY <1>1, <2>1 DEF Follows
  <2> QED
    BY <2>1, <2>2, FollowsOn DEF Follow2
<1>3. ASSUME NEW r, Calm(h, ends, r) PROVE Follows(h, ends, r, Follow4(r))
  <2>1. Heeds(h, ends, r) /\ Follows(h, ends, r, Follow2(r))
    BY <1>2, <1>3 DEF Calm
  <2>2. Follows(h, ends, Follow2(r), Follow2(Follow2(r)))
    BY <1>2, <2>1 DEF Follows
  <2> QED
    BY <2>1, <2>2, FollowsOn DEF Follow4
<1>4. Heeds(h, ends, s) /\ Follows(h, ends, s, Follow4(s))
  BY <1>3 DEF Calm
<1>5. Follows(h, ends, Follow4(s), Follow4(Follow4(s)))
  BY <1>3, <1>4 DEF Follows
<1> QED
  BY <1>4, <1>5, FollowsOn DEF Follow8

\* What waits in line is read after what was taken.
LEMMA DrainReads ==
    ASSUME NEW h, NEW ends, NEW s, Heeds(h, ends, s)
    PROVE  Follows(h, ends, s, Drain(s))
<1> DEFINE t == TakeOneOf(s, NextInLine(s))
<1>1. ReadsOn(h, ends, s, t) /\ Tidy(h, t)
  BY NextReads
<1>2. Drain(s) = Follow8(t)
  BY DEF Drain
<1> HIDE DEF t
<1>3. Heeds(h, ends, t)
  BY <1>1, ReadsHas DEF ReadsOn
<1>4. Follows(h, ends, s, t) /\ Follows(h, ends, t, Follow8(t))
  BY <1>1, <1>3, Follow8Reads DEF Follows, Calm
<1> QED
  BY <1>2, <1>4, FollowsOn

\* As much is heard, and was read.
ReadAlike(r, s) ==
    r.heard = s.heard /\ r.heardAny = s.heardAny /\ r.data = s.data /\ r.ended = s.ended

LEMMA GiveUpReads ==
    ASSUME NEW h, NEW ends, NEW s, Heeds(h, ends, s)
    PROVE  \E at : /\ ReadsFrom(h, ends, s, GiveUp(s), at) /\ Tidy(h, GiveUp(s))
                   /\ Waits(h, s) => at = Place(h, s)
<1> DEFINE t == TakeOneOf(s, Nearest(s))
<1>1. /\ Tidy(h, t)
      /\ \E at : ReadsFrom(h, ends, s, t, at) /\ (Waits(h, s) => at = Place(h, s))
  BY NearestReads
<1>2. GiveUp(s) = Follow8(t)
  BY DEF GiveUp
<1> HIDE DEF t
<1>3. PICK at : ReadsFrom(h, ends, s, t, at) /\ (Waits(h, s) => at = Place(h, s))
  BY <1>1
<1>4. Heeds(h, ends, t)
  BY <1>3, ReadsHas
<1>5. Follows(h, ends, t, Follow8(t))
  BY <1>1, <1>4, Follow8Reads DEF Calm
<1>6. ReadsFrom(h, ends, s, Follow8(t), at)
  BY <1>3, <1>5, ReadsThenOn DEF Follows
<1> QED
  BY <1>2, <1>3, <1>5, <1>6 DEF Follows, Calm

\* t sends besides and keeps fewer messages, but reads nothing.
LEMMA ForgetReads ==
    ASSUME NEW h, NEW ends, NEW s, Heeds(h, ends, s), NEW number \in Numbers
    PROVE  LET t == Forget(s, number)
           IN  /\ ReadsOn(h, ends, s, t) /\ Heeds(h, ends, t)
               /\ t.heard = s.heard /\ t.heardAny = s.heardAny /\ t.early = s.early
               /\ t.data = s.data /\ t.ended = s.ended
<1> DEFINE done == Acknowledged(s, number)
           n    == CHOOSE i \in done : \A j \in done : j <= i
           left == SubSeq(s.kept, n + 1, Len(s.kept))
           r    == [s EXCEPT !.kept = left, !.progress = TRUE, !.stalled = 0]
<1>0. s \in Sessions /\ s.kept \in Seq(KeptMessages) /\ Len(s.kept) \in Nat /\ Len(s.outgoing) \in Nat
  BY SessionHas DEF Heeds
<1>1. CASE done = {}
  <2>1. Forget(s, number) = s
    BY <1>1 DEF Forget
  <2> QED
    BY <2>1, StaysReads
<1>2. CASE done # {}
  <2>1. n \in done
    <3>1. done \in SUBSET (0 .. Len(s.kept))
      BY <1>0 DEF Acknowledged
    <3>2. \E i \in done : \A j \in done : j <= i
      BY <1>0, <1>2, <3>1, LastPlace
    <3> HIDE DEF done
    <3> QED
      BY <3>2, Zenon
  <2>2. Forget(s, number) = SendTyped(r)
    BY <1>2 DEF Forget
  <2> HIDE DEF n
  <2>3. n \in 1 .. Len(s.kept)
    BY <2>1 DEF Acknowledged
  <2>4. left \in Seq(KeptMessages)
    BY <1>0, <2>3, SubSeqProperties
  <2> HIDE DEF left, done
  <2>5. r \in Sessions
    <3> DEFINE none == 0
    <3>1. none \in Int
      OBVIOUS
    <3>2. r = [s EXCEPT !.kept = left, !.progress = TRUE, !.stalled = none]
      OBVIOUS
    <3> HIDE DEF none, r
    <3>3. [s EXCEPT !.kept = left, !.progress = TRUE, !.stalled = none] \in Sessions
      BY <1>0, <2>4, <3>1 DEF Sessions
    <3> QED
      BY <3>2, <3>3
  <2>6. /\ r.heard = s.heard /\ r.heardAny = s.heardAny /\ r.early = s.early /\ r.data = s.data
        /\ r.ended = s.ended /\ r.outgoing = s.outgoing
    BY <1>0 DEF Sessions
  <2> HIDE DEF r
  <2>7. HearsNoMore(s, r)
    BY <1>0, <2>6 DEF HearsNoMore, OutSays
  <2>8. ReadsOn(h, ends, s, r) /\ Heeds(h, ends, r)
    BY <2>5, <2>7, SameReads, ReadsHas DEF ReadsOn
  <2> DEFINE t == SendTyped(r)
  <2>9. Sends(r, t)
    BY <2>5, SendTypedSends
  <2> HIDE DEF t
  <2>10. /\ ReadsOn(h, ends, r, t) /\ Heeds(h, ends, t)
         /\ t.heard = r.heard /\ t.heardAny = r.heardAny /\ t.early = r.early
    BY <2>8, <2>9, SendsReads
  <2>11. ReadsOn(h, ends, s, t)
    BY <2>8, <2>10, ReadsThenOn DEF ReadsOn
  <2>12. t.data = r.data /\ t.ended = r.ended
    BY <2>9 DEF Sends, SameReading
  <2> QED
    BY <2>2, <2>6, <2>10, <2>11, <2>12 DEF t
<1> QED
  BY <1>1, <1>2

\* A message that waits is kept for its turn.
LEMMA HoldReads ==
    ASSUME NEW h, NEW ends, NEW s, Calm(h, ends, s), NEW m, NewFrom(h, s, m), s.heardAny
    PROVE  LET t == Hold(s, m)
           IN  Follows(h, ends, s, t) /\ ReadAlike(t, s)
<1> DEFINE early == {w \in s.early : w.sequence # m.sequence} \cup {m}
           t == [s EXCEPT !.early = early]
           p == Place(h, s)
<1>1. s \in Sessions /\ Heeds(h, ends, s) /\ Reader(h, s) /\ m \in RunsToUs
  BY DEF Calm, Heeds, NewFrom
<1>2. early \in SUBSET RunsToUs
  BY <1>1 DEF Sessions
<1>3. Back(h, m.sequence) < Len(h.unacked)
  <2>1. /\ Back(h, m.sequence) < Back(h, s.heard) /\ m.sequence \in Numbers
        /\ Back(h, s.heard) \in 0 .. Len(h.unacked) /\ Len(h.unacked) \in Nat
        /\ Back(h, m.sequence) \in Nat
    BY <1>1, HeedsHas, FrameHas DEF NewFrom
  <2> QED
    BY <2>1
<1>4. \A w \in early : /\ Back(h, w.sequence) < Len(h.unacked) /\ Matches(h, w)
                       /\ Back(h, w.sequence) < Back(h, s.heard)
  <2>1. \A w \in s.early : /\ Back(h, w.sequence) < Len(h.unacked) /\ Matches(h, w)
                           /\ Back(h, w.sequence) < Back(h, s.heard)
    BY <1>1 DEF Calm, Tidy, Reader
  <2>2. Matches(h, m) /\ Back(h, m.sequence) < Back(h, s.heard)
    BY DEF NewFrom
  <2> QED
    BY <1>3, <2>1, <2>2
<1>5. \A v, w \in early : v.sequence = w.sequence => v = w
  <2>1. \A v, w \in s.early : v.sequence = w.sequence => v = w
    BY <1>1 DEF Reader
  <2> QED
    BY <2>1
<1> HIDE DEF early
<1>6. /\ t \in Sessions /\ t.early = early /\ t.heard = s.heard /\ t.heardAny = s.heardAny
      /\ t.data = s.data /\ t.ended = s.ended /\ t.outgoing = s.outgoing
  BY <1>1, <1>2 DEF Sessions
<1>7. Hold(s, m) = Spend(t, m.slots)
  BY DEF Hold, early
<1> HIDE DEF t
<1>8. Reader(h, t)
  <2>1. \A i \in 1 .. Len(t.outgoing) :
           t.outgoing[i].kind = "run" => Back(h, t.heard) <= Back(h, t.outgoing[i].acknowledged)
    BY <1>1, <1>6 DEF Reader
  <2>2. \A w \in t.early : Back(h, w.sequence) < Len(h.unacked) /\ Matches(h, w)
    BY <1>4, <1>6
  <2>3. Back(h, t.heard) <= Len(h.unacked)
    BY <1>1, <1>6 DEF Reader
  <2> QED
    BY <1>5, <1>6, <2>1, <2>2, <2>3 DEF Reader
<1>9. Tidy(h, t)
  BY <1>4, <1>6 DEF Tidy
<1>10. ReadsOn(h, ends, s, t)
  <2>1. ReadsOn(h, ends, s, s)
    BY <1>1, StaysReads
  <2>2. Place(h, t) = p
    BY <1>6 DEF Place
  <2> HIDE DEF p
  <2> QED
    BY <1>6, <1>8, <2>1, <2>2 DEF ReadsOn, ReadsFrom, p
<1>11. Calm(h, ends, t)
  BY <1>1, <1>9, <1>10, ReadsHas DEF Calm, ReadsOn
<1> DEFINE u == Spend(t, m.slots)
<1>12. Sends(t, u)
  BY <1>1, <1>6, SpendSends DEF RunsToUs
<1> HIDE DEF u
<1>13. ReadsOn(h, ends, t, u) /\ Heeds(h, ends, u) /\ u.early = t.early /\ u.heard = t.heard
  BY <1>11, <1>12, SendsReads DEF Calm
<1>16. u.heardAny = t.heardAny /\ u.data = t.data /\ u.ended = t.ended
  BY <1>12 DEF Sends, SameReading
<1>14. Tidy(h, u)
  BY <1>9, <1>13 DEF Tidy
<1>15. Follows(h, ends, s, u)
  <2>1. Follows(h, ends, s, t) /\ Follows(h, ends, t, u)
    BY <1>10, <1>11, <1>13, <1>14 DEF Follows, Calm
  <2> QED
    BY <1>1, <2>1, FollowsOn
<1> QED
  BY <1>6, <1>7, <1>13, <1>15, <1>16 DEF u, ReadAlike

\* Of as many as the gap is given up for, one is next in line, unless the host
\* may leave more than that unacknowledged.
LEMMA ManyWait ==
    ASSUME NEW h, NEW ends, NEW s, Calm(h, ends, s), HostWindow <= GapPatience,
           Cardinality(s.early) >= GapPatience
    PROVE  Waits(h, s)
<1> DEFINE b == Back(h, s.heard)
           f == [w \in s.early |-> Back(h, w.sequence)]
<1>1. /\ b \in Nat /\ b <= GapPatience /\ GapPatience \in Nat /\ GapPatience >= 1
      /\ h.sequence \in Numbers
  <2>1. /\ b \in 0 .. Len(h.unacked) /\ Len(h.unacked) \in Nat /\ Len(h.unacked) <= HostWindow
        /\ h.sequence \in Numbers /\ Heeds(h, ends, s)
    BY HeedsHas DEF Calm
  <2>2. HostWindow \in Nat /\ GapPatience \in 1 .. 8
    BY HostAssumption, HalfType, LimitsAssumption
  <2> QED
    BY <2>1, <2>2
<1>2. ASSUME NEW w \in s.early
      PROVE  /\ w.sequence \in Numbers /\ Back(h, w.sequence) \in Nat
             /\ Back(h, w.sequence) < b /\ w \in Unread(s)
  BY WaitingHas DEF Calm, Tidy
<1>3. ASSUME ~Waits(h, s) PROVE FALSE
  <2>1. ASSUME NEW w \in s.early PROVE f[w] \in 0 .. b - 2
    <3>1. Back(h, w.sequence) # b - 1
      BY <1>2, <1>3 DEF Waits
    <3> HIDE DEF b
    <3> QED
      BY <1>1, <1>2, <3>1
  <2>2. ASSUME NEW v \in s.early, NEW w \in s.early, f[v] = f[w] PROVE v = w
    <3>1. Distance(h.sequence, v.sequence) = Distance(h.sequence, w.sequence)
      BY <2>2 DEF Back
    <3>2. v.sequence = w.sequence
      BY <1>1, <1>2, <3>1, DistanceOwn
    <3> QED
      BY <3>2 DEF Calm, Heeds, Reader
  <2>3. f \in Injection(s.early, 0 .. b - 2)
    <3>1. f \in [s.early -> 0 .. b - 2]
      BY <2>1
    <3>2. IsInjective(f)
      BY <2>2 DEF IsInjective
    <3> QED
      BY <3>1, <3>2 DEF Injection
  <2>4. IsFiniteSet(0 .. b - 2) /\ Cardinality(0 .. b - 2) < GapPatience
    <3>1. 0 \in Int /\ b - 2 \in Int
      BY <1>1
    <3>2. /\ IsFiniteSet(0 .. b - 2)
          /\ Cardinality(0 .. b - 2) = IF 0 > b - 2 THEN 0 ELSE b - 2 - 0 + 1
      BY <3>1, FS_Interval
    <3> HIDE DEF b
    <3> QED
      BY <1>1, <3>2
  <2>5. IsFiniteSet(s.early) /\ Cardinality(s.early) <= Cardinality(0 .. b - 2)
    BY <2>3, <2>4, FS_Injection
  <2>6. Cardinality(s.early) \in Nat /\ Cardinality(0 .. b - 2) \in Nat
    BY <2>4, <2>5, FS_CardinalityType
  <2> QED
    BY <1>1, <2>4, <2>5, <2>6
<1> QED
  BY <1>3

\* Somewhere in what the host said, and unless a gap may be given up, or
\* nothing was heard before, from where it was.
Reads(h, ends, s, t) ==
    /\ Tidy(h, t)
    /\ \E at : /\ ReadsFrom(h, ends, s, t, at)
               /\ s.heardAny /\ HostWindow <= GapPatience => at = Place(h, s)

LEMMA FollowsReads ==
    ASSUME NEW h, NEW ends, NEW s, NEW t, Follows(h, ends, s, t)
    PROVE  Reads(h, ends, s, t)
BY DEF Follows, Calm, Reads, ReadsOn

LEMMA SameThenReads ==
    ASSUME NEW h, NEW ends, NEW s, NEW r, NEW t, Reads(h, ends, r, t),
           r.heard = s.heard, r.heardAny = s.heardAny, r.data = s.data, r.ended = s.ended
    PROVE  Reads(h, ends, s, t)
<1>1. PICK at : /\ ReadsFrom(h, ends, r, t, at)
                /\ r.heardAny /\ HostWindow <= GapPatience => at = Place(h, r)
  BY DEF Reads
<1>2. ReadsFrom(h, ends, s, t, at) /\ Place(h, r) = Place(h, s)
  BY <1>1, ReadsSame DEF Place
<1> QED
  BY <1>1, <1>2 DEF Reads

LEMMA RunAfterGapReads ==
    ASSUME NEW h, NEW ends, NEW s, Calm(h, ends, s), NEW m, NewFrom(h, s, m), s.heardAny
    PROVE  Reads(h, ends, s, RunAfterGap(s, m))
<1> DEFINE held == Hold(s, m)
<1>1. Follows(h, ends, s, held) /\ ReadAlike(held, s) /\ Heeds(h, ends, s)
  <2>1. Heeds(h, ends, s)
    BY DEF Calm
  <2>2. Follows(h, ends, s, held) /\ ReadAlike(held, s)
    BY HoldReads
  <2> QED
    BY <2>1, <2>2
<1>2. RunAfterGap(s, m) = IF Cardinality(held.early) >= GapPatience THEN GiveUp(held)
                          ELSE IF m.slots = 0 THEN held ELSE Acknowledge(held)
  BY DEF RunAfterGap
<1> HIDE DEF held
<1>3. /\ Calm(h, ends, held) /\ Heeds(h, ends, held) /\ held \in Sessions
      /\ Place(h, held) = Place(h, s)
  BY <1>1 DEF Follows, Calm, Heeds, Place, ReadAlike
<1>4. CASE Cardinality(held.early) >= GapPatience
  <2> DEFINE u == GiveUp(held)
  <2>1. PICK at : /\ ReadsFrom(h, ends, held, u, at) /\ Tidy(h, u)
                  /\ Waits(h, held) => at = Place(h, held)
    BY <1>3, GiveUpReads
  <2>2. RunAfterGap(s, m) = u
    BY <1>2, <1>4
  <2> HIDE DEF u
  <2>3. HostWindow <= GapPatience => Waits(h, held)
    BY <1>3, <1>4, ManyWait
  <2>4. ReadsFrom(h, ends, s, u, at)
    BY <1>1, <2>1, ReadsSame DEF ReadAlike
  <2> QED
    BY <1>3, <2>1, <2>2, <2>3, <2>4 DEF Reads
<1>5. CASE ~(Cardinality(held.early) >= GapPatience) /\ m.slots = 0
  <2>1. RunAfterGap(s, m) = held
    BY <1>2, <1>5
  <2> QED
    BY <1>1, <2>1, FollowsReads
<1>6. CASE ~(Cardinality(held.early) >= GapPatience) /\ m.slots # 0
  <2> DEFINE u == Acknowledge(held)
  <2>1. Sends(held, u) /\ RunAfterGap(s, m) = u
    BY <1>2, <1>3, <1>6, AcknowledgeSends
  <2> HIDE DEF u
  <2>2. ReadsOn(h, ends, held, u) /\ Heeds(h, ends, u) /\ u.heard = held.heard /\ u.early = held.early
    BY <1>3, <2>1, SendsReads
  <2>3. Tidy(h, u)
    BY <1>3, <2>2 DEF Calm, Tidy
  <2>4. Follows(h, ends, held, u)
    BY <2>2, <2>3 DEF Follows, Calm
  <2> QED
    BY <1>1, <2>1, <2>4, FollowsOn, FollowsReads
<1> QED
  BY <1>4, <1>5, <1>6

\* What a message of the host's does to what is read.
LEMMA RunReads ==
    ASSUME NEW h, NEW ends, NEW s, Calm(h, ends, s), NEW m, MayTake(h, s, m)
    PROVE  Reads(h, ends, s, Run(s, m))
<1> DEFINE known == Forget(s, m.acknowledged)
           taken == Take(known, m, FALSE)
           stays == ~IsOpen(s) \/ m.ours # s.theirs \/ m.theirs # Ours
<1>1. m \in RunsToUs /\ m.acknowledged \in Numbers /\ m.sequence \in Numbers /\ Heeds(h, ends, s)
  BY FrameHas DEF MayTake, Calm
<1>2. Run(s, m) = IF stays THEN s ELSE IF AfterGap(known, m) THEN RunAfterGap(known, m)
                  ELSE Drain(taken)
  BY DEF Run
<1> HIDE DEF stays
<1>4. /\ ReadsOn(h, ends, s, known) /\ Heeds(h, ends, known)
      /\ known.heard = s.heard /\ known.heardAny = s.heardAny /\ known.early = s.early
      /\ known.data = s.data /\ known.ended = s.ended
  BY <1>1, ForgetReads
<1> HIDE DEF known
<1>5. Calm(h, ends, known) /\ MayTake(h, known, m) /\ Place(h, known) = Place(h, s)
  BY <1>4 DEF Calm, Tidy, MayTake, Place
<1>6. /\ known.heard \in Numbers /\ h \in Hosts /\ h.sequence \in Numbers
      /\ Back(h, known.heard) \in Nat /\ Back(h, m.sequence) \in Nat /\ Back(h, known.heard) < Half
      /\ Len(h.unacked) \in Nat /\ Back(h, m.sequence) < Half
  <2>1. /\ known.heard \in Numbers /\ h.sequence \in Numbers
        /\ Back(h, known.heard) \in 0 .. Len(h.unacked) /\ Back(h, m.sequence) \in Nat
        /\ Len(h.unacked) \in Nat /\ Len(h.unacked) < Half
    BY <1>1, <1>4, HeedsHas
  <2>2. h \in Hosts /\ Back(h, m.sequence) < Half
    BY <1>4 DEF Heeds, MayTake
  <2> QED
    BY <2>1, <2>2, HalfType
<1>7. CASE stays
  <2>1. ReadsOn(h, ends, s, s)
    BY <1>1, StaysReads
  <2> QED
    BY <1>2, <1>7, <2>1, FollowsReads DEF Follows
<1>8. CASE ~stays /\ AfterGap(known, m)
  <2>1. known.heardAny /\ Newer(m.sequence, known.heard)
    BY <1>8 DEF AfterGap
  <2>2. Back(h, m.sequence) < Back(h, known.heard)
    BY <1>1, <1>6, <2>1, NewerIsLater DEF Back
  <2>3. NewFrom(h, known, m)
    BY <1>1, <1>5, <2>2 DEF NewFrom, MayTake
  <2>4. Reads(h, ends, known, RunAfterGap(known, m))
    BY <1>5, <2>1, <2>3, RunAfterGapReads
  <2> QED
    BY <1>2, <1>4, <1>8, <2>4, SameThenReads
<1>9. CASE ~stays /\ ~AfterGap(known, m)
  <2> DEFINE u == Drain(taken)
  <2>1. IF NewFrom(h, known, m) THEN ReadsFrom(h, ends, known, taken, Before(h, m))
                                ELSE ReadsOn(h, ends, known, taken)
    BY <1>4, <1>5, TakeReads
  <2> HIDE DEF taken
  <2>2. Heeds(h, ends, taken)
    BY <1>4, <2>1, ReadsHas DEF ReadsOn
  <2>3. Follows(h, ends, taken, u)
    BY <2>2, DrainReads
  <2> HIDE DEF u
  <2>4. IF NewFrom(h, known, m) THEN ReadsFrom(h, ends, known, u, Before(h, m))
                                ELSE ReadsOn(h, ends, known, u)
    BY <1>4, <2>1, <2>3, ReadsThenOn DEF ReadsOn, Follows
  <2>5. ASSUME known.heardAny, NewFrom(h, known, m) PROVE Before(h, m) = Place(h, known)
    <3>1. Back(h, m.sequence) < Back(h, known.heard)
      BY <2>5 DEF NewFrom
    <3>2. Newer(m.sequence, known.heard)
      BY <1>1, <1>6, <3>1, NewerIsLater DEF Back
    <3>3. m.sequence = NextNumber(known.heard)
      BY <1>9, <2>5, <3>2 DEF AfterGap
    <3>4. Back(h, m.sequence) = Back(h, known.heard) - 1
      BY <1>1, <1>6, <3>1, <3>3, NextIs
    <3> QED
      BY <1>6, <3>4 DEF Before, Place
  <2>6. Reads(h, ends, known, u)
    <3>1. Tidy(h, u)
      BY <2>3 DEF Follows, Calm
    <3>2. CASE NewFrom(h, known, m)
      BY <2>4, <2>5, <3>1, <3>2 DEF Reads
    <3>3. CASE ~NewFrom(h, known, m)
      BY <2>4, <3>1, <3>3 DEF Reads, ReadsOn
    <3> QED
      BY <3>2, <3>3
  <2> QED
    BY <1>2, <1>4, <1>9, <2>6, SameThenReads DEF u, taken
<1> QED
  BY <1>7, <1>8, <1>9

-----------------------------------------------------------------------------
(* The operations that read nothing.                                        *)

LEMMA QuietlyReads ==
    ASSUME NEW h, NEW ends, NEW s, Calm(h, ends, s), NEW t \in Sessions, HearsNoMore(s, t)
    PROVE  Reads(h, ends, s, t)
<1>1. Heeds(h, ends, s)
  BY DEF Calm
<1>2. ReadsOn(h, ends, s, t)
  BY <1>1, SameReads
<1>3. Tidy(h, t)
  BY DEF Calm, Tidy, HearsNoMore
<1> QED
  BY <1>2, <1>3 DEF Reads, ReadsOn

LEMMA OutSaysSame ==
    ASSUME NEW s \in Sessions, NEW t, NEW x, t.outgoing = s.outgoing
    PROVE  OutSays(s, t, x)
<1>1. Len(s.outgoing) \in Nat
  BY SessionHas
<1> QED
  BY <1>1 DEF OutSays

LEMMA AloneHears ==
    ASSUME NEW s \in Sessions
    PROVE  HearsNoMore(s, s)
<1>1. Len(s.outgoing) \in Nat
  BY SessionHas
<1> QED
  BY <1>1 DEF HearsNoMore, OutSays

LEMMA SendsHears ==
    ASSUME NEW s, NEW r, NEW t, Sends(r, t), ReadAlike(r, s), r.early = s.early,
           r.outgoing = s.outgoing
    PROVE  HearsNoMore(s, t)
<1>1. SameReading(r, t) /\ SaysHeard(r, t)
  BY DEF Sends
<1>2. OutSays(s, t, s.heard)
  BY <1>1 DEF SaysHeard, OutSays, ReadAlike
<1> QED
  BY <1>1, <1>2 DEF HearsNoMore, SameReading, ReadAlike

LEMMA SendsOnlyHears ==
    ASSUME NEW s, NEW t, Sends(s, t)
    PROVE  HearsNoMore(s, t)
<1>1. ReadAlike(s, s)
  BY DEF ReadAlike
<1> QED
  BY <1>1, SendsHears

LEMMA CallHears ==
    ASSUME NEW s \in Sessions
    PROVE  HearsNoMore(s, Call(s))
<1> DEFINE out == Append(s.outgoing, StartFrame)
           t == [s EXCEPT !.outgoing = out, !.state = "Calling"]
<1>1. StartFrame.kind # "run"
  BY DEF StartFrame
<1>2. s.outgoing \in Seq(FramesToHost) /\ Len(s.outgoing) \in Nat
  BY SessionHas
<1>3. /\ Len(out) = Len(s.outgoing) + 1
      /\ out[Len(s.outgoing) + 1].kind # "run"
      /\ \A i \in 1 .. Len(s.outgoing) : out[i] = s.outgoing[i]
  BY <1>1, <1>2
<1> HIDE DEF out
<1>4. /\ t.heard = s.heard /\ t.heardAny = s.heardAny /\ t.early = s.early /\ t.data = s.data
      /\ t.ended = s.ended /\ t.outgoing = out
  BY DEF Sessions
<1>5. Call(s) = t
  BY DEF Call, out
<1> HIDE DEF t
<1>6. OutSays(s, t, s.heard)
  <2> SUFFICES ASSUME NEW i \in 1 .. Len(out)
               PROVE  \/ i <= Len(s.outgoing) /\ out[i] = s.outgoing[i]
                      \/ out[i].kind # "run"
    BY <1>4 DEF OutSays
  <2>1. i \in 1 .. Len(s.outgoing) \/ i = Len(s.outgoing) + 1
    BY <1>2, <1>3
  <2> QED
    BY <1>2, <1>3, <2>1
<1> QED
  BY <1>4, <1>5, <1>6 DEF HearsNoMore

LEMMA CloseHears ==
    ASSUME NEW s \in Sessions
    PROVE  HearsNoMore(s, Close(s))
<1> DEFINE out == IF s.circuit THEN Append(s.outgoing, StopFrame(s)) ELSE s.outgoing
           t == [s EXCEPT !.outgoing = out, !.circuit = FALSE, !.state = "Closed"]
<1>1. StopFrame(s).kind # "run"
  BY DEF StopFrame
<1>2. s.outgoing \in Seq(FramesToHost) /\ Len(s.outgoing) \in Nat
  BY SessionHas
<1>3. \A i \in 1 .. Len(out) :
         \/ i <= Len(s.outgoing) /\ out[i] = s.outgoing[i]
         \/ out[i].kind # "run"
  BY <1>1, <1>2
<1>4. Close(s) = t
  BY DEF Close
<1> HIDE DEF out
<1>5. /\ t.heard = s.heard /\ t.heardAny = s.heardAny /\ t.early = s.early /\ t.data = s.data
      /\ t.ended = s.ended /\ t.outgoing = out
  BY DEF Sessions
<1> HIDE DEF t
<1>6. OutSays(s, t, s.heard)
  BY <1>3, <1>5 DEF OutSays
<1> QED
  BY <1>4, <1>5, <1>6 DEF HearsNoMore

LEMMA KeepaliveHears ==
    ASSUME NEW s \in Sessions
    PROVE  HearsNoMore(s, Keepalive(s))
<1>1. HearsNoMore(s, s) /\ HearsNoMore(s, Acknowledge(s))
  BY AloneHears, AcknowledgeSends, SendsOnlyHears
<1> QED
  BY <1>1 DEF Keepalive

LEMMA StoppedHears ==
    ASSUME NEW s \in Sessions, NEW m
    PROVE  HearsNoMore(s, Stopped(s, m)) /\ HearsNoMore(s, PeerGone(s))
<1>2. ASSUME NEW why \in {"circuit closed", "stopped answering"}
      PROVE  HearsNoMore(s, [s EXCEPT !.ended = why, !.state = "Closed", !.circuit = FALSE])
  <2> DEFINE t == [s EXCEPT !.ended = why, !.state = "Closed", !.circuit = FALSE]
  <2>1. /\ t.heard = s.heard /\ t.heardAny = s.heardAny /\ t.early = s.early /\ t.data = s.data
        /\ t.ended = why /\ t.outgoing = s.outgoing
    BY DEF Sessions
  <2> HIDE DEF t
  <2>2. OutSays(s, t, s.heard)
    BY <2>1, OutSaysSame
  <2>3. HearsNoMore(s, t)
    BY <2>1, <2>2 DEF HearsNoMore
  <2> QED
    BY <2>3 DEF t
<1>3. Stopped(s, m) \in {s, [s EXCEPT !.ended = "circuit closed", !.state = "Closed", !.circuit = FALSE]}
  <2>1. [s EXCEPT !.state = "Closed", !.circuit = FALSE, !.ended = "circuit closed"]
        = [s EXCEPT !.ended = "circuit closed", !.state = "Closed", !.circuit = FALSE]
    BY DEF Sessions
  <2> QED
    BY <2>1 DEF Stopped
<1>4. PeerGone(s) \in {s, [s EXCEPT !.ended = "stopped answering", !.state = "Closed", !.circuit = FALSE]}
  BY DEF PeerGone
<1> QED
  BY <1>2, <1>3, <1>4, AloneHears

LEMMA WriteHears ==
    ASSUME NEW s \in Sessions, NEW k \in Nat, IsOpen(s)
    PROVE  HearsNoMore(s, Write(s, <<k>>))
<1> DEFINE more == s.typed \o <<k>>
           r == [s EXCEPT !.typed = more]
<1>1. more \in Seq(Nat)
  BY SessionHas
<1>2. Write(s, <<k>>) = SendTyped(r)
  BY DEF Write, IsOpen
<1> HIDE DEF more
<1>3. /\ r \in Sessions /\ r.early = s.early /\ r.outgoing = s.outgoing
      /\ r.heard = s.heard /\ r.heardAny = s.heardAny /\ r.data = s.data /\ r.ended = s.ended
  BY <1>1 DEF Sessions
<1> HIDE DEF r
<1>4. Sends(r, SendTyped(r)) /\ ReadAlike(r, s)
  BY <1>3, SendTypedSends DEF ReadAlike
<1> QED
  BY <1>2, <1>3, <1>4, SendsHears

LEMMA RetransmitHears ==
    ASSUME NEW s \in Sessions
    PROVE  HearsNoMore(s, Retransmit(s))
<1> DEFINE again == [i \in 1 .. Len(s.kept) |-> RunFrame(s, s.kept[i])]
           out == s.outgoing \o again
           tries == s.stalled + 1
           t == [s EXCEPT !.stalled = tries, !.outgoing = out]
           over == [s EXCEPT !.stalled = tries, !.state = "Closed", !.ended = "stopped accepting"]
<1>1. /\ s.outgoing \in Seq(FramesToHost) /\ Len(s.outgoing) \in Nat
      /\ s.kept \in Seq(KeptMessages) /\ Len(s.kept) \in Nat
  BY SessionHas
<1>2. \A i \in 1 .. Len(s.kept) : RunFrame(s, s.kept[i]) \in FramesToHost
  <2> SUFFICES ASSUME NEW i \in 1 .. Len(s.kept) PROVE RunFrame(s, s.kept[i]) \in FramesToHost
    OBVIOUS
  <2>1. s.kept[i] \in KeptMessages
    BY <1>1, ElementOfSeq
  <2> QED
    BY <2>1 DEF RunFrame, FramesToHost, RunsToHost, KeptMessages, Sessions
<1>3. again \in Seq(FramesToHost) /\ Len(again) = Len(s.kept)
  BY <1>1, <1>2
<1>0. \A i \in 1 .. Len(s.kept) : again[i].acknowledged = s.heard
  BY DEF RunFrame
<1>4. Retransmit(s) \in {s, over, t}
  BY DEF Retransmit
<1> HIDE DEF again, tries
<1>5. /\ out \in Seq(FramesToHost) /\ Len(out) = Len(s.outgoing) + Len(again)
      /\ \A i \in 1 .. Len(s.outgoing) + Len(again) :
            out[i] = IF i <= Len(s.outgoing) THEN s.outgoing[i] ELSE again[i - Len(s.outgoing)]
  BY <1>1, <1>3, ConcatProperties
<1> HIDE DEF out
<1>6. /\ t.heard = s.heard /\ t.heardAny = s.heardAny /\ t.early = s.early /\ t.data = s.data
      /\ t.ended = s.ended /\ t.outgoing = out
  BY DEF Sessions
<1>7. /\ over.heard = s.heard /\ over.heardAny = s.heardAny /\ over.early = s.early
      /\ over.data = s.data /\ over.ended = "stopped accepting" /\ over.outgoing = s.outgoing
  BY DEF Sessions
<1> HIDE DEF t, over
<1>8. OutSays(s, t, s.heard)
  <2> SUFFICES ASSUME NEW i \in 1 .. Len(out), ~(i <= Len(s.outgoing))
               PROVE  out[i].acknowledged = s.heard
    BY <1>1, <1>3, <1>5, <1>6 DEF OutSays
  <2>1. \A p, q \in Nat : \A n \in 1 .. p + q : ~(n <= p) => n - p \in 1 .. q
    OBVIOUS
  <2>2. i \in 1 .. Len(s.outgoing) + Len(s.kept)
    BY <1>3, <1>5
  <2>3. i - Len(s.outgoing) \in 1 .. Len(s.kept)
    BY <1>1, <2>1, <2>2, Zenon
  <2>4. out[i] = again[i - Len(s.outgoing)]
    BY <1>3, <1>5, <2>2
  <2> QED
    BY <1>0, <2>3, <2>4
<1>9. HearsNoMore(s, t)
  BY <1>6, <1>8 DEF HearsNoMore
<1>10. HearsNoMore(s, over)
  <2>1. OutSays(s, over, s.heard)
    BY <1>7, OutSaysSame
  <2> QED
    BY <1>7, <2>1 DEF HearsNoMore
<1> QED
  BY <1>4, <1>9, <1>10, AloneHears

LEMMA AgreedHears ==
    ASSUME NEW s \in Sessions
    PROVE  HearsNoMore(s, Agreed(s, Agreement))
<1> DEFINE known == [s EXCEPT !.theirs = Agreement.ours]
           asked == SlotFrame(known, AskSlot)
           open == [asked EXCEPT !.credit = MaxCredit, !.circuit = TRUE, !.state = "Asked"]
<1>1. /\ known \in Sessions /\ known.early = s.early /\ known.outgoing = s.outgoing
      /\ known.heard = s.heard /\ known.heardAny = s.heardAny /\ known.data = s.data
      /\ known.ended = s.ended
  BY DEF Sessions, Agreement, Names
<1> HIDE DEF known
<1>2. AskSlot \in Parts /\ AskSlot.data = <<>>
  BY NumbersAssumption DEF AskSlot, Parts
<1>3. Sends(known, asked) /\ asked \in Sessions
  <2>1. SameReading(known, known)
    BY DEF SameReading
  <2>2. Sends(known, asked)
    BY <1>1, <1>2, <2>1, NothingCut
  <2> QED
    BY <2>2, KeepsIs
<1> HIDE DEF asked
<1>4. HearsNoMore(s, asked)
  <2>1. ReadAlike(known, s)
    BY <1>1 DEF ReadAlike
  <2> QED
    BY <1>1, <1>3, <2>1, SendsHears
<1>5. /\ open.early = asked.early /\ open.outgoing = asked.outgoing
      /\ open.heard = asked.heard /\ open.heardAny = asked.heardAny /\ open.data = asked.data
      /\ open.ended = asked.ended
  BY <1>3 DEF Sessions
<1>6. Agreed(s, Agreement) \in {s, open}
  BY DEF Agreed, open, asked, known
<1> HIDE DEF open
<1>7. HearsNoMore(s, open)
  BY <1>4, <1>5 DEF HearsNoMore, OutSays
<1> QED
  BY <1>6, <1>7, AloneHears

\* What a frame of the host's does to what is read.
LEMMA ReceiveReads ==
    ASSUME NEW h, NEW ends, NEW s, Calm(h, ends, s), NEW f \in FramesToUs,
           f.kind = "run" => MayTake(h, s, f)
    PROVE  Reads(h, ends, s, Receive(s, f))
<1>0. s \in Sessions
  BY DEF Calm, Heeds
<1>1. CASE f \in RunsToUs
  <2>1. Receive(s, f) = Run(s, f) /\ f.kind = "run"
    BY <1>1 DEF Receive, RunsToUs
  <2> QED
    BY <2>1, RunReads
<1>2. CASE f = Agreement
  <2>1. Receive(s, f) = Agreed(s, Agreement)
    BY <1>2 DEF Receive, Agreement
  <2>2. Agreed(s, Agreement) \in Sessions /\ HearsNoMore(s, Agreed(s, Agreement))
    BY <1>0, AgreedKeeps, AgreedHears, KeepsIs
  <2> QED
    BY <2>1, <2>2, QuietlyReads
<1>3. CASE f = StopMessage
  <2>1. Receive(s, f) = Stopped(s, f)
    BY <1>3 DEF Receive, StopMessage
  <2>2. Stopped(s, f) \in Sessions /\ HearsNoMore(s, Stopped(s, f))
    BY <1>0, StoppedKeeps, StoppedHears, KeepsIs
  <2> QED
    BY <2>1, <2>2, QuietlyReads
<1> QED
  BY <1>1, <1>2, <1>3 DEF FramesToUs

-----------------------------------------------------------------------------
(* The invariant.                                                           *)

Latest(s) == IF s = <<>> THEN 0 ELSE s[Len(s)]

\* What is on its way here is the host's, and what is not heard yet is kept
\* until something is heard.
WiredFrame(h, f) ==
    /\ Matches(h, f)
    /\ ~session.heardAny => Back(h, f.sequence) < Len(h.unacked)
    /\ host.state = "gone" => Back(h, f.sequence) < Half

Wired(h) == \A f \in Range(toUs) : f.kind = "run" => WiredFrame(h, f)

\* What is on its way to the host says no more is heard than is.
Heeded(h) ==
    host.state # "gone" =>
       \A f \in Range(toHost) :
          f.kind = "run" => Back(h, session.heard) <= Back(h, f.acknowledged)

\* The screen goes as far as what is heard; once it has begun with the first
\* message and no gap may be given up, nothing is missing from it; and the
\* session has not ended before the host has been heard out.
ShownTo(p, h, ends) ==
    /\ Latest(screen) <= ends[p]
    /\ HostWindow <= GapPatience /\ screen # <<>> => Latest(screen) = ends[p]
    /\ HostWindow <= GapPatience /\ first = 1 => screen = Upto(0, ends[p])
    /\ ~session.heardAny => screen = <<>> /\ first = 0 /\ ends[0] = 0
    /\ session.ended = "session ended" => p = Len(h.unacked) /\ h.state = "over"

Shown(h, ends) == ShownTo(Place(h, session), h, ends)

HearsFrom(h, ends) ==
    /\ host.state # "gone" => h = host
    /\ h.said = host.said
    /\ Calm(h, ends, session)
    /\ Wired(h) /\ Heeded(h) /\ Shown(h, ends)

Hearing == \E h \in Hosts : \E ends \in [0 .. Len(h.unacked) -> 0 .. h.said] : HearsFrom(h, ends)

LEMMA HearingIs ==
    ASSUME NEW h, NEW ends, HearsFrom(h, ends)
    PROVE  Hearing
<1>1. h \in Hosts /\ ends \in [0 .. Len(h.unacked) -> 0 .. h.said]
  BY DEF HearsFrom, Calm, Heeds, Saying
<1> QED
  BY <1>1 DEF Hearing

LEMMA LatestType ==
    ASSUME NEW s \in Seq(Nat)
    PROVE  Latest(s) \in Nat
<1>1. CASE s = <<>>
  BY <1>1 DEF Latest
<1>2. CASE s # <<>>
  <2>1. Len(s) \in 1 .. Len(s)
    <3>1. Len(s) \in Nat /\ Len(s) # 0
      BY <1>2, LenProperties, EmptySeq
    <3> QED
      BY <3>1
  <2> QED
    BY <1>2, <2>1, ElementOfSeq DEF Latest
<1> QED
  BY <1>1, <1>2

LEMMA LatestOf ==
    ASSUME NEW s \in Seq(Nat), NEW a \in Nat, NEW b \in Nat, a < b
    PROVE  Latest(s \o Upto(a, b)) = b /\ s \o Upto(a, b) # <<>>
<1> DEFINE more == Upto(a, b)
           sum == s \o more
<1>1. more \in Seq(Nat) /\ Len(more) = b - a /\ more[b - a] = a + (b - a)
  BY DEF Upto
<1> HIDE DEF more
<1>2. /\ sum \in Seq(Nat) /\ Len(sum) = Len(s) + Len(more) /\ Len(s) \in Nat
      /\ \A i \in 1 .. Len(s) + Len(more) :
            sum[i] = IF i <= Len(s) THEN s[i] ELSE more[i - Len(s)]
  BY <1>1, ConcatProperties, LenProperties
<1> HIDE DEF sum
<1>3. Len(sum) # 0 /\ sum[Len(sum)] = b
  <2>1. Len(sum) \in 1 .. Len(s) + Len(more) /\ ~(Len(sum) <= Len(s)) /\ Len(sum) - Len(s) = b - a
    BY <1>1, <1>2
  <2>2. sum[Len(sum)] = more[b - a]
    BY <1>2, <2>1
  <2> QED
    BY <1>1, <2>1, <2>2
<1>4. sum # <<>>
  BY <1>2, <1>3, EmptySeq
<1> QED
  BY <1>3, <1>4 DEF Latest, sum, more

\* Reading takes the screen further.
LEMMA ScreenGoesOn ==
    ASSUME TypeOK, NEW h, NEW ends, Heeds(h, ends, session), Shown(h, ends),
           NEW t, NEW at, ReadsFrom(h, ends, session, t, at),
           session.heardAny /\ HostWindow <= GapPatience => at = Place(h, session),
           screen' = screen \o t.data,
           session'.heard = t.heard, session'.heardAny = t.heardAny, session'.ended = t.ended,
           first' = IF ~session.heardAny /\ t.heardAny THEN t.heard ELSE first
    PROVE  Shown(h, ends)'
<1> DEFINE last == Len(h.unacked)
           p == Place(h, session)
           q == Place(h, t)
           a == ends[at]
           b == ends[q]
<1>1. Heeds(h, ends, t) /\ session.data = <<>> /\ screen \in Seq(Nat)
  BY ReadsHas DEF TypeOK
<1>2. last \in Nat /\ p \in 0 .. last /\ q \in 0 .. last
  BY <1>1, HeedsHas
<1>3. at \in p .. q /\ (p = q \/ at < q) /\ t.data = session.data \o Upto(a, b)
  BY DEF ReadsFrom
<1>4. at \in 0 .. last /\ p <= at /\ at <= q
  BY <1>2, <1>3
<1>5. /\ ends[p] \in Nat /\ a \in Nat /\ b \in Nat /\ ends[p] <= a /\ a <= b /\ ends[0] \in Nat
  <2>1. /\ \A i \in 0 .. last : ends[i] \in Nat
        /\ \A i, j \in 0 .. last : i <= j => ends[i] <= ends[j]
    BY HeedsHas
  <2>2. 0 \in 0 .. last
    BY <1>2
  <2> QED
    BY <1>2, <1>4, <2>1, <2>2
<1>6. screen' = screen \o Upto(a, b)
  <2>1. Upto(a, b) \in Seq(Nat)
    BY <1>5, UptoType
  <2>2. <<>> \o Upto(a, b) = Upto(a, b)
    BY <2>1, ConcatEmptySeq
  <2> QED
    BY <1>1, <1>3, <2>2
<1>7. Place(h, session') = q
  BY DEF Place
<1>8. /\ Latest(screen) <= ends[p]
      /\ HostWindow <= GapPatience /\ screen # <<>> => Latest(screen) = ends[p]
      /\ HostWindow <= GapPatience /\ first = 1 => screen = Upto(0, ends[p])
  BY DEF Shown, ShownTo
<1>9. ~session.heardAny => screen = <<>> /\ first = 0 /\ ends[0] = 0
  BY DEF Shown, ShownTo
<1>10. t.ended = "session ended" => q = last /\ h.state = "over"
  <2>1. session.ended = "session ended" => p = last /\ h.state = "over"
    BY DEF Shown, ShownTo
  <2>2. t.ended = "session ended" => session.ended = "session ended" \/ (q = last /\ h.state = "over")
    BY DEF ReadsFrom
  <2>3. p = last => q = last
    BY <1>2, <1>4
  <2> QED
    BY <2>1, <2>2, <2>3
<1>11. ~t.heardAny => ~session.heardAny /\ first' = first
  BY DEF ReadsFrom
<1>12. ~t.heardAny => p = 0 /\ q = 0 /\ at = 0
  <2>1. ASSUME ~t.heardAny PROVE p = 0 /\ q = 0
    <3>1. /\ ~session.heardAny /\ session.heard = 0 /\ Back(h, 0) = last
          /\ t.heard = 0
      BY <1>1, <1>11, <2>1 DEF Heeds, Reader
    <3> QED
      BY <1>2, <3>1 DEF Place
  <2> QED
    BY <1>3, <1>4, <2>1
<1>18. ~session.heardAny /\ t.heardAny /\ t.heard = 1 => p = 0 /\ q = 1
  <2> SUFFICES ASSUME ~session.heardAny, t.heard = 1 PROVE p = 0 /\ q = 1
    OBVIOUS
  <2>1. /\ session.heard = 0 /\ Back(h, 0) = last /\ Back(h, 1) <= last
        /\ h.sequence \in Numbers
    BY <1>1, HeedsHas DEF Heeds, Reader
  <2>2. 0 \in Numbers /\ 1 \in Numbers /\ NextNumber(0) = 1
    BY NumbersAssumption DEF Numbers, NextNumber
  <2>3. Back(h, 1) = IF h.sequence = 0 THEN NumberSpan - 1 ELSE last - 1
    BY <2>1, <2>2, DistanceToNext DEF Back
  <2>4. h.sequence # 0
    <3>1. h.sequence = 0 => Back(h, 0) = 0
      BY <2>1, <2>2, DistanceType DEF Back
    <3> QED
      BY <1>2, <2>1, <2>3, <3>1, NumbersAssumption
  <2>5. Back(h, 1) = last - 1
    BY <2>3, <2>4
  <2> QED
    BY <1>2, <2>1, <2>5 DEF Place
<1> HIDE DEF last, p, q, a, b
<1>13. a = b => screen' = screen
  <2>1. Upto(a, a) = <<>>
    BY <1>5, UptoNone
  <2>2. screen \o <<>> = screen
    BY <1>1, ConcatEmptySeq
  <2> QED
    BY <1>6, <2>1, <2>2
<1>14. a < b => Latest(screen') = b
  BY <1>1, <1>5, <1>6, LatestOf
<1>15. Latest(screen') <= b
  <2>1. Latest(screen) \in Nat
    BY <1>1, LatestType
  <2>2. CASE a = b
    <3>1. Latest(screen') = Latest(screen)
      BY <1>13, <2>2
    <3> QED
      BY <1>5, <1>8, <2>1, <2>2, <3>1
  <2>3. CASE a < b
    BY <1>5, <1>14, <2>3
  <2> QED
    BY <1>5, <2>2, <2>3
<1>16. HostWindow <= GapPatience /\ screen' # <<>> => Latest(screen') = b
  <2> SUFFICES ASSUME HostWindow <= GapPatience, screen' # <<>>, a = b PROVE Latest(screen') = b
    BY <1>5, <1>14
  <2>1. screen' = screen
    BY <1>13
  <2>2. session.heardAny
    BY <1>9, <2>1
  <2>3. ends[p] = a
    BY <2>2 DEF a, p
  <2> QED
    BY <1>8, <2>1, <2>3
<1>17. HostWindow <= GapPatience /\ first' = 1 => screen' = Upto(0, b)
  <2> SUFFICES ASSUME HostWindow <= GapPatience, first' = 1 PROVE screen' = Upto(0, b)
    OBVIOUS
  <2>1. CASE session.heardAny
    <3>1. first = 1 /\ ends[p] = a
      BY <2>1 DEF a, p
    <3>2. screen = Upto(0, a)
      BY <1>8, <3>1
    <3>3. Upto(0, a) \o Upto(a, b) = Upto(0, b)
      <4>1. 0 \in Nat /\ 0 <= a
        BY <1>5
      <4> QED
        BY <1>5, <4>1, UptoSum
    <3> QED
      BY <1>6, <3>2, <3>3
  <2>2. CASE ~session.heardAny /\ t.heardAny
    <3>1. screen = <<>> /\ ends[0] = 0 /\ t.heard = 1
      BY <1>9, <2>2
    <3>2. at = 0
      BY <1>2, <1>3, <1>18, <2>2, <3>1
    <3>3. a = 0
      BY <3>1, <3>2 DEF a
    <3>4. <<>> \o Upto(0, b) = Upto(0, b)
      <4>1. 0 \in Nat /\ 0 <= b
        BY <1>5
      <4>2. Upto(0, b) \in Seq(Nat)
        BY <1>5, <4>1, UptoType
      <4> QED
        BY <4>2, ConcatEmptySeq
    <3> QED
      BY <1>6, <3>1, <3>3, <3>4
  <2>3. CASE ~t.heardAny
    <3>1. first' = 0
      BY <1>9, <1>11, <2>3
    <3> QED
      BY <3>1
  <2> QED
    BY <2>1, <2>2, <2>3
<1>19. ~t.heardAny => screen' = <<>> /\ first' = 0 /\ ends[0] = 0
  <2> SUFFICES ASSUME ~t.heardAny PROVE screen' = <<>> /\ first' = 0 /\ ends[0] = 0
    OBVIOUS
  <2>1. a = b
    BY <1>12 DEF a, b
  <2> QED
    BY <1>9, <1>11, <1>13, <2>1
<1>20. ShownTo(q, h, ends)'
  BY <1>10, <1>15, <1>16, <1>17, <1>19 DEF ShownTo, b, last
<1> QED
  BY <1>7, <1>20 DEF Shown

-----------------------------------------------------------------------------
(* This end's steps.                                                        *)

LEMMA DoHears ==
    ASSUME TypeOK, NEW h, NEW ends, HearsFrom(h, ends), NEW after,
           Reads(h, ends, session, after), Do(after), host' = host,
           Range(toUs') \subseteq Range(toUs),
           first' = IF ~session.heardAny /\ after.heardAny THEN after.heard ELSE first
    PROVE  HearsFrom(h, ends)'
<1>1. PICK at : /\ ReadsFrom(h, ends, session, after, at) /\ Tidy(h, after)
                /\ session.heardAny /\ HostWindow <= GapPatience => at = Place(h, session)
  BY DEF Reads
<1>2. Heeds(h, ends, session) /\ Heeds(h, ends, after) /\ after \in Sessions /\ session \in Sessions
  <2>1. Heeds(h, ends, session)
    BY DEF HearsFrom, Calm
  <2>2. Heeds(h, ends, after)
    BY <1>1, <2>1, ReadsHas
  <2> QED
    BY <2>1, <2>2 DEF Heeds
<1>3. /\ session' \in Sessions /\ session'.outgoing = <<>>
      /\ session'.heard = after.heard /\ session'.heardAny = after.heardAny
      /\ session'.early = after.early /\ session'.ended = after.ended
      /\ toHost' \in Seq(FramesToHost)
      /\ Range(toHost') \subseteq Range(toHost) \cup Range(after.outgoing)
      /\ screen' = screen \o after.data
  BY <1>2, DoHas
<1>4. Reader(h, session')
  <2>1. Reader(h, after)
    BY <1>2 DEF Heeds
  <2>2. \A i \in 1 .. Len(session'.outgoing) : FALSE
    BY <1>3
  <2>3. /\ Back(h, session'.heard) <= Len(h.unacked)
        /\ \A w \in session'.early : Back(h, w.sequence) < Len(h.unacked) /\ Matches(h, w)
        /\ \A v, w \in session'.early : v.sequence = w.sequence => v = w
    BY <1>3, <2>1 DEF Reader
  <2>4. ~session'.heardAny =>
           session'.heard = 0 /\ session'.early = {} /\ Back(h, 0) = Len(h.unacked)
    BY <1>3, <2>1 DEF Reader
  <2> QED
    BY <2>2, <2>3, <2>4 DEF Reader
<1>5. Calm(h, ends, session)'
  <2>1. Tidy(h, session')
    BY <1>1, <1>3 DEF Tidy
  <2>2. Heeds(h, ends, session')
    BY <1>2, <1>3, <1>4 DEF Heeds
  <2> QED
    BY <2>1, <2>2 DEF Calm
<1>6. session.heardAny => session'.heardAny
  BY <1>1, <1>3 DEF ReadsFrom
<1>7. Wired(h)'
  <2> SUFFICES ASSUME NEW f \in Range(toUs'), f.kind = "run"
               PROVE  /\ Matches(h, f)
                      /\ ~session'.heardAny => Back(h, f.sequence) < Len(h.unacked)
                      /\ host.state = "gone" => Back(h, f.sequence) < Half
    BY DEF Wired, WiredFrame
  <2>1. WiredFrame(h, f)
    BY DEF HearsFrom, Wired
  <2> QED
    BY <1>6, <2>1 DEF WiredFrame
<1>8. Heeded(h)'
  <2> SUFFICES ASSUME host.state # "gone", NEW f \in Range(toHost'), f.kind = "run"
               PROVE  Back(h, after.heard) <= Back(h, f.acknowledged)
    BY <1>3 DEF Heeded
  <2>1. CASE f \in Range(toHost)
    <3>1. f \in FramesToHost
      BY <1>3, RangeHas
    <3>2. /\ Back(h, after.heard) \in 0 .. Len(h.unacked) /\ Len(h.unacked) \in Nat
          /\ Back(h, session.heard) \in 0 .. Len(h.unacked)
          /\ Back(h, f.acknowledged) \in Nat
      BY <1>2, <3>1, HeedsHas, FrameHas
    <3>3. Back(h, session.heard) <= Back(h, f.acknowledged)
      BY <2>1 DEF HearsFrom, Heeded
    <3>4. Place(h, session) <= Place(h, after)
      <4>1. at \in Place(h, session) .. Place(h, after)
        BY <1>1 DEF ReadsFrom
      <4>2. Place(h, session) \in Int /\ Place(h, after) \in Int
        BY <3>2 DEF Place
      <4> HIDE DEF Place
      <4> QED
        BY <4>1, <4>2
    <3> QED
      BY <3>2, <3>3, <3>4 DEF Place
  <2>2. CASE f \in Range(after.outgoing)
    <3>1. PICK i \in 1 .. Len(after.outgoing) : f = after.outgoing[i]
      BY <1>2, <2>2, RangeHas, SessionHas
    <3> QED
      BY <1>2, <3>1 DEF Heeds, Reader
  <2> QED
    BY <1>3, <2>1, <2>2
<1>9. Shown(h, ends)'
  <2>1. Shown(h, ends)
    BY DEF HearsFrom
  <2> QED
    BY <1>1, <1>2, <1>3, <2>1, ScreenGoesOn
<1>10. (host'.state # "gone" => h = host') /\ h.said = host'.said
  BY DEF HearsFrom
<1> QED
  BY <1>5, <1>7, <1>8, <1>9, <1>10 DEF HearsFrom

\* A step that reads nothing.
LEMMA DoHearsNoMore ==
    ASSUME TypeOK, Hearing, NEW after \in Sessions, HearsNoMore(session, after), Do(after),
           UNCHANGED <<host, toUs, first>>
    PROVE  Hearing'
<1>1. PICK h, ends : HearsFrom(h, ends)
  BY DEF Hearing
<1>2. Calm(h, ends, session)
  BY <1>1 DEF HearsFrom
<1>3. Reads(h, ends, session, after)
  BY <1>2, QuietlyReads
<1>4. first' = IF ~session.heardAny /\ after.heardAny THEN after.heard ELSE first
  <2>1. after.heardAny = session.heardAny
    BY DEF HearsNoMore
  <2> QED
    BY <2>1
<1>5. HearsFrom(h, ends)'
  BY <1>1, <1>3, <1>4, DoHears
<1>6. h \in Hosts /\ ends \in [0 .. Len(h.unacked) -> 0 .. h.said]
  BY <1>2 DEF Calm, Heeds, Saying
<1> QED
  BY <1>5, <1>6 DEF Hearing

\* What is on its way here may be taken.
LEMMA ComesMayTake ==
    ASSUME TypeOK, Prompt, NEW h, NEW ends, HearsFrom(h, ends), NEW f \in Range(toUs), f.kind = "run"
    PROVE  MayTake(h, session, f)
<1>1. f \in RunsToUs
  <2>1. f \in FramesToUs
    BY RangeHas DEF TypeOK
  <2> QED
    BY <2>1, FrameHas
<1>2. WiredFrame(h, f) /\ (host.state # "gone" => h = host)
  BY DEF HearsFrom, Wired
<1>3. Back(h, f.sequence) < Half
  <2>1. CASE host.state = "gone"
    BY <1>2, <2>1 DEF WiredFrame
  <2>2. CASE host.state # "gone"
    BY <1>2, <2>2, PromptSays DEF Back
  <2> QED
    BY <2>1, <2>2
<1> QED
  BY <1>1, <1>2, <1>3 DEF MayTake, WiredFrame

\* A frame that arrives is read, if it is not heard already.
LEMMA HearFrameReads ==
    ASSUME TypeOK, Prompt, HearFrame, session.state # "Closed", NEW h, NEW ends, HearsFrom(h, ends)
    PROVE  LET after == Receive(session, Head(toUs))
           IN  /\ Reads(h, ends, session, after) /\ Do(after) /\ after \in Sessions
               /\ Range(toUs') \subseteq Range(toUs)
               /\ first' = IF ~session.heardAny /\ after.heardAny THEN after.heard ELSE first
<1> DEFINE f == Head(toUs)
           after == Receive(session, f)
<1>1. f \in FramesToUs /\ f \in Range(toUs) /\ Range(toUs') \subseteq Range(toUs)
  <2>1. toUs \in Seq(FramesToUs) /\ toUs # <<>> /\ toUs' = Tail(toUs)
    BY DEF TypeOK, HearFrame
  <2> QED
    BY <2>1, TailHas
<1>2. /\ Do(after)
      /\ first' = IF ~session.heardAny /\ session'.heardAny THEN session'.heard ELSE first
  BY DEF HearFrame
<1> HIDE DEF f
<1>3. f.kind = "run" => MayTake(h, session, f)
  BY <1>1, ComesMayTake
<1>4. Reads(h, ends, session, after)
  BY <1>1, <1>3, ReceiveReads DEF HearsFrom
<1> HIDE DEF after
<1>5. after \in Sessions
  BY <1>4 DEF Reads, ReadsFrom
<1>6. session'.heard = after.heard /\ session'.heardAny = after.heardAny
  BY <1>2, <1>5, DoHas
<1> QED
  BY <1>1, <1>2, <1>4, <1>5, <1>6 DEF f, after

LEMMA HearFrameHears ==
    ASSUME TypeOK, Prompt, Hearing, HearFrame
    PROVE  Hearing'
<1>1. PICK h, ends : HearsFrom(h, ends)
  BY DEF Hearing
<1>2. h \in Hosts /\ ends \in [0 .. Len(h.unacked) -> 0 .. h.said]
  BY <1>1 DEF HearsFrom, Calm, Heeds, Saying
<1>3. host' = host
  BY DEF HearFrame
<1>4. CASE session.state # "Closed"
  <2>1. HearsFrom(h, ends)'
    BY <1>1, <1>3, <1>4, HearFrameReads, DoHears
  <2> QED
    BY <1>2, <2>1 DEF Hearing
<1>5. CASE session.state = "Closed"
  <2>1. /\ session' = session /\ toHost' = toHost /\ screen' = screen /\ first' = first
    BY <1>5 DEF HearFrame
  <2>2. Range(toUs') \subseteq Range(toUs)
    <3>1. toUs \in Seq(FramesToUs) /\ toUs # <<>> /\ toUs' = Tail(toUs)
      BY DEF TypeOK, HearFrame
    <3> QED
      BY <3>1, TailHas
  <2>3. Calm(h, ends, session)' /\ Heeded(h)' /\ Shown(h, ends)'
    <3>1. Calm(h, ends, session)'
      BY <1>1, <2>1 DEF HearsFrom
    <3>2. Heeded(h)'
      BY <1>1, <1>3, <2>1 DEF HearsFrom, Heeded
    <3>3. Shown(h, ends)'
      BY <1>1, <2>1 DEF HearsFrom, Shown, ShownTo
    <3> QED
      BY <3>1, <3>2, <3>3
  <2>4. Wired(h)'
    BY <1>1, <1>3, <2>1, <2>2 DEF HearsFrom, Wired, WiredFrame
  <2>5. HearsFrom(h, ends)'
    BY <1>1, <1>3, <2>3, <2>4 DEF HearsFrom
  <2> QED
    BY <1>2, <2>5 DEF Hearing
<1> QED
  BY <1>4, <1>5

LEMMA HereHears ==
    ASSUME TypeOK, Prompt, Hearing, Here
    PROVE  Hearing'
<1>0. session \in Sessions /\ keys \in Nat
  BY DEF TypeOK
<1>1. CASE CallNode
  <2>1. Call(session) \in Sessions /\ HearsNoMore(session, Call(session))
    BY <1>0, CallKeeps, CallHears, KeepsIs
  <2> QED
    BY <1>1, <2>1, DoHearsNoMore DEF CallNode
<1>2. CASE HoldExpires
  <2>1. ReleaseTyping(session) \in Sessions /\ HearsNoMore(session, ReleaseTyping(session))
    BY <1>0, ReleaseTypingSends, SendsOnlyHears, KeepsIs
  <2> QED
    BY <1>2, <2>1, DoHearsNoMore DEF HoldExpires
<1>3. CASE RetransmitDue
  <2>1. Retransmit(session) \in Sessions /\ HearsNoMore(session, Retransmit(session))
    BY <1>0, RetransmitKeeps, RetransmitHears, KeepsIs
  <2> QED
    BY <1>3, <2>1, DoHearsNoMore DEF RetransmitDue
<1>4. CASE KeepaliveDue
  <2>1. Keepalive(session) \in Sessions /\ HearsNoMore(session, Keepalive(session))
    BY <1>0, KeepaliveKeeps, KeepaliveHears, KeepsIs
  <2> QED
    BY <1>4, <2>1, DoHearsNoMore DEF KeepaliveDue
<1>5. CASE Dead
  <2>1. PeerGone(session) \in Sessions /\ HearsNoMore(session, PeerGone(session))
    BY <1>0, PeerGoneKeeps, StoppedHears, KeepsIs
  <2> QED
    BY <1>5, <2>1, DoHearsNoMore DEF Dead
<1>6. CASE Drop
  <2>1. Close(session) \in Sessions /\ HearsNoMore(session, Close(session))
    BY <1>0, CloseKeeps, CloseHears, KeepsIs
  <2> QED
    BY <1>6, <2>1, DoHearsNoMore DEF Drop
<1>7. CASE TypeKey
  <2>1. IsOpen(session) /\ keys + 1 \in Nat
    BY <1>0, <1>7 DEF TypeKey
  <2>2. Write(session, <<keys + 1>>) \in Sessions
    <3>1. \E r \in Sessions : Keeps(r, Write(session, <<keys + 1>>))
      BY <1>0, <2>1, WriteKeeps
    <3> QED
      BY <3>1, KeepsIs
  <2>3. HearsNoMore(session, Write(session, <<keys + 1>>))
    BY <1>0, <2>1, WriteHears
  <2> QED
    BY <1>7, <2>2, <2>3, DoHearsNoMore DEF TypeKey
<1> QED
  BY <1>1, <1>2, <1>3, <1>4, <1>5, <1>6, <1>7, HearFrameHears DEF Here

-----------------------------------------------------------------------------
(* The host's steps.                                                        *)

\* The host lets go of what it knows is heard, or of nothing.
LEMMA CutHas ==
    ASSUME NEW h, NEW ends, NEW s, Calm(h, ends, s), NEW g \in Hosts, NEW n \in 0 .. Place(h, s),
           g.sequence = h.sequence, g.said = h.said,
           g.unacked = SubSeq(h.unacked, n + 1, Len(h.unacked)),
           h.state = "over" => g.state = "over", ~s.heardAny => n = 0
    PROVE  \E e : /\ Calm(g, e, s)
                  /\ Place(g, s) = Place(h, s) - n /\ Len(g.unacked) = Len(h.unacked) - n
                  /\ \A j \in 0 .. Len(h.unacked) - n : e[j] = ends[j + n]
                  /\ \A f : f.sequence \in Numbers /\ Matches(h, f) => Matches(g, f)
<1> DEFINE last == Len(h.unacked)
           rest == last - n
           e == [j \in 0 .. rest |-> ends[j + n]]
<1>1. /\ Heeds(h, ends, s) /\ Tidy(h, s) /\ h \in Hosts /\ s \in Sessions
      /\ Saying(h, ends) /\ Reader(h, s) /\ h.unacked \in Seq(Messages)
  <2>1. Heeds(h, ends, s) /\ Tidy(h, s)
    BY DEF Calm
  <2> QED
    BY <2>1 DEF Heeds, Hosts
<1>2. /\ last \in Nat /\ Place(h, s) \in 0 .. last /\ n \in 0 .. last /\ rest \in Nat
      /\ \A x \in Numbers : Back(h, x) \in Nat /\ Back(h, s.heard) \in 0 .. last
      /\ s.heard \in Numbers
  <2>1. last \in Nat /\ Place(h, s) \in 0 .. last /\ Back(h, s.heard) \in 0 .. last
    BY <1>1, HeedsHas
  <2>2. n \in 0 .. last /\ rest \in Nat
    <3> HIDE DEF Place, last
    <3> QED
      BY <2>1
  <2>3. s.heard \in Numbers /\ \A x \in Numbers : Back(h, x) \in Nat
    BY <1>1, HeedsHas
  <2> QED
    BY <2>1, <2>2, <2>3
<1>3. \A x : Back(g, x) = Back(h, x)
  BY DEF Back
<1>4. Len(g.unacked) = rest /\ \A i \in 1 .. rest : g.unacked[i] = h.unacked[i + n]
  <2>1. \A i \in n + 1 .. last : h.unacked[i] \in Messages
    BY <1>1, <1>2, ElementOfSeq
  <2> HIDE DEF last
  <2>2. /\ Len(g.unacked) = IF n + 1 <= last THEN last - (n + 1) + 1 ELSE 0
        /\ \A i \in 1 .. last - (n + 1) + 1 : g.unacked[i] = h.unacked[(n + 1) + i - 1]
    <3>1. n + 1 \in Int /\ last \in Int
      BY <1>2
    <3> QED
      BY <2>1, <3>1, SubSeqProperties DEF last
  <2>3. Len(g.unacked) = rest
    <3>1. CASE n + 1 <= last
      BY <1>2, <2>2, <3>1
    <3>2. CASE ~(n + 1 <= last)
      BY <1>2, <2>2, <3>2
    <3> QED
      BY <3>1, <3>2
  <2>4. \A i \in 1 .. rest : i \in 1 .. last - (n + 1) + 1 /\ (n + 1) + i - 1 = i + n
    BY <1>2
  <2> QED
    BY <2>2, <2>3, <2>4
<1>5. Place(g, s) = Place(h, s) - n
  <2>1. Place(g, s) = rest - Back(h, s.heard)
    BY <1>3, <1>4 DEF Place
  <2> QED
    BY <1>2, <2>1 DEF Place
<1>6. ASSUME NEW f, f.sequence \in Numbers, Matches(h, f) PROVE Matches(g, f)
  <2> DEFINE i == last - Back(h, f.sequence)
  <2>1. i \in Int /\ i <= last
    BY <1>2, <1>6
  <2>2. Len(g.unacked) - Back(g, f.sequence) = i - n
    <3>1. Back(h, f.sequence) \in Nat
      BY <1>2, <1>6
    <3> HIDE DEF Back
    <3> QED
      BY <1>2, <1>3, <1>4, <3>1
  <2>3. i > 0 => /\ f.data = h.unacked[i].data
                 /\ f.slots = h.unacked[i].slots
                 /\ f.ended = h.unacked[i].ended
                 /\ f.credit = h.unacked[i].credit
    BY <1>6 DEF Matches
  <2> HIDE DEF i
  <2>4. i - n > 0 => i > 0 /\ i - n \in 1 .. rest /\ (i - n) + n = i
    BY <1>2, <2>1
  <2>5. i - n > 0 => g.unacked[i - n] = h.unacked[i]
    BY <1>4, <2>4
  <2> QED
    BY <2>2, <2>3, <2>4, <2>5 DEF Matches
<1>7. /\ e \in [0 .. rest -> 0 .. g.said]
      /\ \A j \in 0 .. rest : e[j] = ends[j + n]
  <2>1. \A j \in 0 .. rest : j + n \in 0 .. last /\ ends[j + n] \in 0 .. g.said
    <3>1. ends \in [0 .. last -> 0 .. g.said]
      BY <1>1 DEF Saying
    <3>2. \A j \in 0 .. rest : j + n \in 0 .. last
      <4> HIDE DEF last
      <4> QED
        BY <1>2
    <3> QED
      BY <3>1, <3>2
  <2> QED
    BY <2>1
<1> HIDE DEF e, last
<1>8. Saying(g, e)
  <2>1. rest <= HostWindow
    <3>1. last <= HostWindow /\ HostWindow \in Nat
      BY <1>1, HostAssumption, HalfType DEF Saying, last
    <3> QED
      BY <1>2, <3>1
  <2>2. e[rest] = g.said
    <3>1. rest \in 0 .. rest /\ rest + n = last
      BY <1>2
    <3>2. ends[last] = g.said
      BY <1>1 DEF Saying, last
    <3> QED
      BY <1>7, <3>1, <3>2
  <2>3. ASSUME NEW i \in 0 .. rest, NEW j \in 0 .. rest, i <= j PROVE e[i] <= e[j]
    <3>1. i + n \in 0 .. last /\ j + n \in 0 .. last /\ i + n <= j + n
      BY <1>2, <2>3
    <3>2. ends[i + n] <= ends[j + n]
      BY <1>1, <3>1 DEF Saying, last
    <3> QED
      BY <1>7, <3>2
  <2>4. ASSUME NEW i \in 1 .. rest
        PROVE  /\ Back(g, g.unacked[i].sequence) = rest - i
               /\ g.unacked[i].data = Upto(e[i - 1], e[i])
               /\ g.unacked[i].slots = 0 => g.unacked[i].data = <<>> /\ ~g.unacked[i].ended
               /\ g.unacked[i].ended => i = rest /\ g.state = "over"
    <3>1. /\ i + n \in 1 .. last /\ (i + n) - 1 = (i - 1) + n /\ last - (i + n) = rest - i
          /\ i \in 0 .. rest /\ i - 1 \in 0 .. rest /\ (i + n = last => i = rest)
      <4>1. \A p, q \in Nat : \A k \in 1 .. p - q :
               /\ k + q \in 1 .. p /\ (k + q) - 1 = (k - 1) + q /\ p - (k + q) = p - q - k
               /\ k \in 0 .. p - q /\ k - 1 \in 0 .. p - q /\ (k + q = p => k = p - q)
        OBVIOUS
      <4>2. last \in Nat /\ n \in Nat
        BY <1>2
      <4> QED
        BY <4>1, <4>2, Zenon
    <3>2. g.unacked[i] = h.unacked[i + n] /\ e[i] = ends[i + n] /\ e[i - 1] = ends[(i + n) - 1]
      BY <1>4, <1>7, <3>1
    <3>3. LET m == h.unacked[i + n]
          IN  /\ Back(h, m.sequence) = last - (i + n)
              /\ m.data = Upto(ends[(i + n) - 1], ends[i + n])
              /\ m.slots = 0 => m.data = <<>> /\ ~m.ended
              /\ m.ended => i + n = last /\ h.state = "over"
      BY <1>1, <3>1 DEF Saying, last
    <3> QED
      BY <1>3, <3>1, <3>2, <3>3
  <2> HIDE DEF rest
  <2> QED
    BY <1>4, <1>7, <2>1, <2>2, <2>3, <2>4 DEF Saying
<1>9. Tidy(g, s)
  BY <1>1, <1>3 DEF Tidy
<1>10. Back(g, s.heard) <= rest
  <2> HIDE DEF Back
  <2> QED
    BY <1>2, <1>3 DEF Place, last
<1>11. Reader(g, s)
  <2>1. ASSUME NEW w \in s.early PROVE Back(g, w.sequence) < rest /\ Matches(g, w)
    <3>1. w \in RunsToUs /\ w.sequence \in Numbers
      <4>1. w \in RunsToUs
        BY <1>1 DEF Sessions
      <4> QED
        BY <4>1, FrameHas
    <3>2. Back(g, w.sequence) < Back(g, s.heard)
      BY <1>9 DEF Tidy
    <3>3. Back(g, w.sequence) \in Nat /\ Back(g, s.heard) \in Nat
      BY <1>2, <1>3, <3>1
    <3>4. Back(g, w.sequence) < rest
      <4> HIDE DEF Back
      <4> QED
        BY <1>2, <1>10, <3>2, <3>3
    <3>5. Matches(h, w)
      BY <1>1 DEF Reader
    <3> QED
      BY <1>6, <3>1, <3>4, <3>5
  <2>2. ~s.heardAny => s.heard = 0 /\ s.early = {} /\ Back(g, 0) = rest
    <3> SUFFICES ASSUME ~s.heardAny PROVE s.heard = 0 /\ s.early = {} /\ Back(g, 0) = rest
      OBVIOUS
    <3>1. s.heard = 0 /\ s.early = {} /\ Back(h, 0) = last
      BY <1>1 DEF Reader, last
    <3> QED
      BY <1>2, <1>3, <3>1
  <2>3. /\ \A v, w \in s.early : v.sequence = w.sequence => v = w
        /\ \A i \in 1 .. Len(s.outgoing) :
              s.outgoing[i].kind = "run" => Back(g, s.heard) <= Back(g, s.outgoing[i].acknowledged)
    BY <1>1, <1>3 DEF Reader
  <2> HIDE DEF rest
  <2> QED
    BY <1>4, <1>10, <2>1, <2>2, <2>3 DEF Reader
<1>12. Calm(g, e, s)
  BY <1>1, <1>8, <1>9, <1>11 DEF Calm, Heeds
<1> QED
  BY <1>4, <1>5, <1>6, <1>7, <1>12 DEF rest, last

\* A step of the host's, or of the wires', after which what it keeps is a
\* suffix of what it kept, and nothing comes but what came or what is kept.
LEMMA HostMoves ==
    ASSUME TypeOK, NEW h, NEW ends, HearsFrom(h, ends), host.state # "gone",
           NEW g \in Hosts, host' = g, g.state # "gone", NEW n \in 0 .. Place(h, session),
           g.sequence = h.sequence, g.said = h.said,
           g.unacked = SubSeq(h.unacked, n + 1, Len(h.unacked)),
           h.state = "over" => g.state = "over", ~session.heardAny => n = 0,
           UNCHANGED <<session, screen, first>>,
           Range(toHost') \subseteq Range(toHost),
           \A f \in Range(toUs') : f.kind = "run" =>
              /\ f.sequence \in Numbers
              /\ f \in Range(toUs) \/ (Matches(h, f) /\ Back(h, f.sequence) < Len(h.unacked))
    PROVE  Hearing'
<1>1. Calm(h, ends, session) /\ Wired(h) /\ Heeded(h) /\ Shown(h, ends) /\ h.said = host.said
  BY DEF HearsFrom
<1>2. PICK e : /\ Calm(g, e, session)
               /\ Place(g, session) = Place(h, session) - n
               /\ Len(g.unacked) = Len(h.unacked) - n
               /\ \A j \in 0 .. Len(h.unacked) - n : e[j] = ends[j + n]
               /\ \A f : f.sequence \in Numbers /\ Matches(h, f) => Matches(g, f)
  BY <1>1, CutHas
<1>3. \A x : Back(g, x) = Back(h, x)
  BY DEF Back
<1>4. Calm(g, e, session)'
  BY <1>2
<1>5. /\ Len(h.unacked) \in Nat /\ Place(h, session) \in 0 .. Len(h.unacked)
  <2>1. Heeds(h, ends, session)
    BY <1>1 DEF Calm
  <2> QED
    BY <2>1, HeedsHas
<1>6. Wired(g)'
  <2> SUFFICES ASSUME NEW f \in Range(toUs'), f.kind = "run"
               PROVE  /\ Matches(g, f)
                      /\ ~session.heardAny => Back(g, f.sequence) < Len(g.unacked)
                      /\ g.state = "gone" => Back(g, f.sequence) < Half
    BY DEF Wired, WiredFrame
  <2>1. Matches(h, f) /\ (~session.heardAny => Back(h, f.sequence) < Len(h.unacked))
    BY <1>1 DEF Wired, WiredFrame
  <2>2. ~session.heardAny => Len(g.unacked) = Len(h.unacked)
    <3> HIDE DEF Place
    <3> QED
      BY <1>2, <1>5
  <2> QED
    BY <1>2, <1>3, <2>1, <2>2
<1>7. Heeded(g)'
  <2> SUFFICES ASSUME NEW f \in Range(toHost'), f.kind = "run"
               PROVE  Back(g, session.heard) <= Back(g, f.acknowledged)
    BY DEF Heeded
  <2>1. Back(h, session.heard) <= Back(h, f.acknowledged)
    BY <1>1 DEF Heeded
  <2> QED
    BY <1>3, <2>1
<1>8. Shown(g, e)'
  <2> DEFINE p == Place(h, session)
  <2>1. p - n \in 0 .. Len(h.unacked) - n /\ (p - n) + n = p
    <3> HIDE DEF p
    <3> QED
      BY <1>5 DEF p
  <2>2. e[Place(g, session)] = ends[p]
    BY <1>2, <2>1
  <2>3. n = 0 => e[0] = ends[0]
    <3> SUFFICES ASSUME n = 0 PROVE e[0] = ends[0]
      OBVIOUS
    <3>1. 0 \in 0 .. Len(h.unacked) - n /\ 0 + n = 0
      BY <1>5
    <3> QED
      BY <1>2, <3>1
  <2>4. p = Len(h.unacked) => Place(g, session) = Len(g.unacked)
    BY <1>2
  <2>5. ShownTo(p, h, ends)
    BY <1>1 DEF Shown
  <2> HIDE DEF p
  <2>6. ShownTo(Place(g, session), g, e)
    BY <2>2, <2>3, <2>4, <2>5 DEF ShownTo
  <2>7. ShownTo(Place(g, session), g, e)' 
    BY <2>6 DEF ShownTo, Place, Back
  <2> QED
    BY <2>7 DEF Shown
<1>9. HearsFrom(g, e)'
  BY <1>4, <1>6, <1>7, <1>8 DEF HearsFrom
<1>10. g \in Hosts /\ e \in [0 .. Len(g.unacked) -> 0 .. g.said]
  BY <1>2 DEF Calm, Heeds, Saying
<1> QED
  BY <1>9, <1>10 DEF Hearing

\* A step after which the host is what it was, or has gone.
LEMMA HostStays ==
    ASSUME TypeOK, NEW h, NEW ends, HearsFrom(h, ends),
           host'.state # "gone" => host.state # "gone" /\ host' = host,
           host'.said = host.said,
           UNCHANGED <<session, screen, first>>,
           Range(toHost') \subseteq Range(toHost),
           \A f \in Range(toUs') : f.kind = "run" =>
              /\ f \in Range(toUs)
              /\ host'.state = "gone" => Back(h, f.sequence) < Half
    PROVE  Hearing'
<1>1. Calm(h, ends, session) /\ Wired(h) /\ Heeded(h) /\ Shown(h, ends) /\ h.said = host.said
      /\ (host.state # "gone" => h = host)
  BY DEF HearsFrom
<1>2. Calm(h, ends, session)'
  BY <1>1
<1>3. Wired(h)'
  BY <1>1 DEF Wired, WiredFrame
<1>4. Heeded(h)'
  BY <1>1 DEF Heeded
<1>5. Shown(h, ends)'
  BY <1>1 DEF Shown, ShownTo
<1>6. HearsFrom(h, ends)'
  BY <1>1, <1>2, <1>3, <1>4, <1>5 DEF HearsFrom
<1>7. h \in Hosts /\ ends \in [0 .. Len(h.unacked) -> 0 .. h.said]
  BY <1>1 DEF Calm, Heeds, Saying
<1> QED
  BY <1>6, <1>7 DEF Hearing

\* What has come is near enough to be told apart, whether or not the host is
\* still there.
LEMMA ComesNear ==
    ASSUME TypeOK, Prompt, NEW h, NEW ends, HearsFrom(h, ends), NEW f \in Range(toUs), f.kind = "run"
    PROVE  Back(h, f.sequence) < Half /\ f.sequence \in Numbers
<1>1. MayTake(h, session, f)
  BY ComesMayTake
<1> QED
  BY <1>1, FrameHas DEF MayTake

LEMMA WireHears ==
    ASSUME TypeOK, Prompt, Hearing, Wire
    PROVE  Hearing'
<1>1. PICK h, ends : HearsFrom(h, ends)
  BY DEF Hearing
<1>2. toUs \in Seq(FramesToUs) /\ toHost \in Seq(FramesToHost)
  BY DEF TypeOK
<1>3. UNCHANGED <<session, host, screen, first>>
  BY DEF Wire, LoseToHost, LoseToUs, SwapToUs
<1>4. Range(toHost') \subseteq Range(toHost) /\ Range(toUs') \subseteq Range(toUs)
  <2>1. CASE LoseToHost
    BY <1>2, <2>1, TailHas DEF LoseToHost
  <2>2. CASE LoseToUs
    BY <1>2, <2>2, TailHas DEF LoseToUs
  <2>3. CASE SwapToUs
    <3>1. Len(toUs) > 1 /\ toHost' = toHost
      BY <2>3 DEF SwapToUs
    <3>2. Range(<<toUs[2], toUs[1]>> \o SubSeq(toUs, 3, Len(toUs))) \subseteq Range(toUs)
      BY <1>2, <3>1, SwapHas
    <3> QED
      BY <2>3, <3>1, <3>2 DEF SwapToUs
  <2> QED
    BY <2>1, <2>2, <2>3 DEF Wire
<1>5. ASSUME NEW f \in Range(toUs'), f.kind = "run"
      PROVE  f \in Range(toUs) /\ Back(h, f.sequence) < Half
  BY <1>1, <1>4, <1>5, ComesNear
<1> QED
  BY <1>1, <1>3, <1>4, <1>5, HostStays

LEMMA HostLeavesHears ==
    ASSUME TypeOK, Prompt, Hearing, UNCHANGED <<session, screen, first>>,
           host' = Departed, Range(toHost') \subseteq Range(toHost),
           \A f \in Range(toUs') : f.kind = "run" => f \in Range(toUs)
    PROVE  Hearing'
<1>1. PICK h, ends : HearsFrom(h, ends)
  BY DEF Hearing
<1>2. host'.state = "gone" /\ host'.said = host.said
  BY DepartedHas
<1>3. ASSUME NEW f \in Range(toUs'), f.kind = "run"
      PROVE  f \in Range(toUs) /\ Back(h, f.sequence) < Half
  BY <1>1, <1>3, ComesNear
<1> QED
  BY <1>1, <1>2, <1>3, HostStays

LEMMA HostRepeatsHears ==
    ASSUME TypeOK, Hearing, HostRepeats
    PROVE  Hearing'
<1> DEFINE all == [i \in 1 .. Len(host.unacked) |-> Frame(host, host.unacked[i])]
           none == 0
<1>1. PICK h, ends : HearsFrom(h, ends)
  BY DEF Hearing
<1>2. /\ toUs' = Put(toUs, all) /\ host.state \in {"up", "over"}
      /\ host' = [host EXCEPT !.owes = FALSE]
      /\ UNCHANGED <<session, toHost, screen, first>>
  BY DEF HostRepeats
<1>3. /\ host \in Hosts /\ toUs \in Seq(FramesToUs) /\ host.unacked \in Seq(Messages)
      /\ Len(host.unacked) \in Nat
  <2>1. host \in Hosts /\ toUs \in Seq(FramesToUs) /\ host.unacked \in Seq(Messages)
    BY DEF TypeOK, Hosts
  <2> QED
    BY <2>1, LenProperties
<1>4. h = host /\ Calm(h, ends, session)
  BY <1>1, <1>2 DEF HearsFrom
<1>5. PICK g : g = host'
  OBVIOUS
<1>6. /\ g \in Hosts /\ g.sequence = h.sequence /\ g.said = h.said /\ g.unacked = h.unacked
      /\ g.state = h.state
  BY <1>2, <1>3, <1>4, <1>5 DEF Hosts
<1>7. ASSUME NEW i \in 1 .. Len(host.unacked)
      PROVE  /\ Frame(host, host.unacked[i]) \in FramesToUs
             /\ Frame(host, host.unacked[i]).sequence \in Numbers
             /\ Matches(h, Frame(host, host.unacked[i]))
             /\ Back(h, Frame(host, host.unacked[i]).sequence) < Len(h.unacked)
  <2>1. host.unacked[i] \in Messages
    BY <1>3, ElementOfSeq
  <2>2. Frame(host, host.unacked[i]) \in FramesToUs
    BY <2>1, FrameOf
  <2>3. /\ Frame(host, host.unacked[i]).sequence = host.unacked[i].sequence
        /\ Frame(host, host.unacked[i]).data = host.unacked[i].data
        /\ Frame(host, host.unacked[i]).slots = host.unacked[i].slots
        /\ Frame(host, host.unacked[i]).ended = host.unacked[i].ended
        /\ Frame(host, host.unacked[i]).credit = host.unacked[i].credit
    BY DEF Frame
  <2>4. Back(h, host.unacked[i].sequence) = Len(h.unacked) - i
    <3>1. Saying(h, ends)
      BY <1>4 DEF Calm, Heeds
    <3> QED
      BY <1>4, <3>1 DEF Saying
  <2>5. Len(h.unacked) - (Len(h.unacked) - i) = i /\ Len(h.unacked) - i < Len(h.unacked)
    BY <1>3, <1>4
  <2>6. Matches(h, Frame(host, host.unacked[i]))
    BY <1>4, <2>3, <2>4, <2>5 DEF Matches
  <2> QED
    BY <2>1, <2>2, <2>3, <2>4, <2>5, <2>6 DEF Messages
<1>8. all \in Seq(FramesToUs)
  BY <1>3, <1>7
<1>9. ASSUME NEW f \in Range(toUs'), f.kind = "run"
      PROVE  /\ f.sequence \in Numbers
             /\ f \in Range(toUs) \/ (Matches(h, f) /\ Back(h, f.sequence) < Len(h.unacked))
  <2>1. f \in Range(toUs) \cup Range(all)
    <3> HIDE DEF all
    <3> QED
      BY <1>2, <1>3, <1>8, PutHas
  <2>2. CASE f \in Range(toUs)
    <3>1. f \in FramesToUs
      BY <1>3, <2>2, RangeHas
    <3> QED
      BY <1>9, <2>2, <3>1, FrameHas
  <2>3. CASE f \in Range(all)
    <3>1. PICK i \in 1 .. Len(host.unacked) : f = Frame(host, host.unacked[i])
      BY <1>3, <2>3 DEF Range
    <3> QED
      BY <1>7, <3>1
  <2> QED
    BY <2>1, <2>2, <2>3
<1> HIDE DEF none, all
<1>10. /\ none \in 0 .. Place(h, session)
       /\ SubSeq(h.unacked, none + 1, Len(h.unacked)) = h.unacked
  <2>1. Heeds(h, ends, session)
    BY <1>4 DEF Calm
  <2>2. Place(h, session) \in 0 .. Len(h.unacked) /\ Len(h.unacked) \in Nat
    BY <2>1, HeedsHas
  <2>3. \A q \in 0 .. Len(h.unacked) : 0 \in 0 .. q
    BY <2>2
  <2> QED
    BY <1>3, <1>4, <2>2, <2>3, SubSeqFull DEF none
<1>11. (h.state = "over" => g.state = "over") /\ g.state # "gone" /\ (~session.heardAny => none = 0)
       /\ g.unacked = SubSeq(h.unacked, none + 1, Len(h.unacked)) /\ host' = g
       /\ host.state # "gone"
  BY <1>2, <1>4, <1>5, <1>6, <1>10 DEF none
<1>12. UNCHANGED <<session, screen, first>> /\ Range(toHost') \subseteq Range(toHost)
  BY <1>2
<1> QED
  BY <1>1, <1>6, <1>9, <1>10, <1>11, <1>12, HostMoves

\* What a message of this end's acknowledges has been heard here.
LEMMA HostCut ==
    ASSUME TypeOK, Prompt, NEW ends, HearsFrom(host, ends), host.state # "gone",
           NEW f \in Range(toHost), f.kind = "run"
    PROVE  \E n \in 0 .. Place(host, session) :
              /\ HostForgets(f.acknowledged) = SubSeq(host.unacked, n + 1, Len(host.unacked))
              /\ ~session.heardAny => n = 0
<1> DEFINE h == host
           last == Len(h.unacked)
           heard == Back(h, session.heard)
<1>1. /\ Heeds(h, ends, session) /\ Saying(h, ends) /\ Reader(h, session) /\ Heeded(h)
      /\ h \in Hosts /\ h.unacked \in Seq(Messages)
  <2>1. Heeds(h, ends, session) /\ Heeded(h)
    BY DEF HearsFrom, Calm
  <2> QED
    BY <2>1 DEF Heeds, Hosts
<1>2. /\ last \in Nat /\ heard \in 0 .. last /\ last < Half /\ Half \in Nat
      /\ h.sequence \in Numbers /\ \A x \in Numbers : Back(h, x) \in Nat
      /\ Place(h, session) = last - heard
  BY <1>1, HeedsHas, HalfType DEF Place
<1>3. /\ f.acknowledged \in Numbers /\ heard <= Back(h, f.acknowledged)
      /\ Back(h, f.acknowledged) < Half
  <2>1. f \in FramesToHost
    BY RangeHas DEF TypeOK
  <2>2. heard <= Back(h, f.acknowledged)
    BY <1>1 DEF Heeded
  <2>3. Distance(host.sequence, f.acknowledged) < Half
    BY PromptSays
  <2> QED
    BY <2>1, <2>2, <2>3, FrameHas DEF Back
<1>4. PICK n \in 0 .. last :
         /\ HostForgets(f.acknowledged) = SubSeq(host.unacked, n + 1, Len(host.unacked))
         /\ \A i \in 1 .. n : ~Newer(host.unacked[i].sequence, f.acknowledged)
  BY <1>1, HostForgetsHas
<1> HIDE DEF last, heard
<1>5. n \in Nat /\ n <= last
  BY <1>2, <1>4
<1>6. n > 0 => n <= last - heard
  <2> SUFFICES ASSUME n > 0 PROVE n <= last - heard
    OBVIOUS
  <2>1. n \in 1 .. n /\ n \in 1 .. last
    BY <1>2, <1>5
  <2> DEFINE x == h.unacked[n].sequence
             k == f.acknowledged
  <2>2. x \in Numbers /\ Back(h, x) = last - n
    <3>1. h.unacked[n] \in Messages
      BY <1>1, <2>1, ElementOfSeq DEF last
    <3> QED
      BY <1>1, <2>1, <3>1 DEF Messages, Saying, last
  <2>3. ~Newer(x, k)
    BY <1>4, <2>1
  <2> HIDE DEF x, k
  <2>4. k \in Numbers /\ Back(h, k) \in Nat /\ Back(h, k) < Half /\ heard <= Back(h, k)
    BY <1>2, <1>3 DEF k
  <2>5. Back(h, x) < Half
    BY <1>2, <1>5, <2>2
  <2>6. ~(Back(h, x) < Back(h, k))
    BY <1>2, <2>2, <2>3, <2>4, <2>5, NewerIsLater DEF Back
  <2> QED
    BY <1>2, <1>5, <2>2, <2>4, <2>6
<1>7. n \in 0 .. Place(h, session)
  BY <1>2, <1>5, <1>6
<1>8. ~session.heardAny => n = 0
  <2> SUFFICES ASSUME ~session.heardAny PROVE n = 0
    OBVIOUS
  <2>1. heard = last
    BY <1>1 DEF Reader, heard, last
  <2> QED
    BY <1>2, <1>7, <2>1
<1> QED
  BY <1>4, <1>7, <1>8

LEMMA HostHearsHears ==
    ASSUME TypeOK, Prompt, Hearing, HostHears
    PROVE  Hearing'
<1> DEFINE f == Head(toHost)
           none == 0
<1>1. PICK h, ends : HearsFrom(h, ends)
  BY DEF Hearing
<1>2. /\ toHost' = Tail(toHost) /\ toHost # <<>>
      /\ UNCHANGED <<session, keys, screen, first, losses>>
  BY DEF HostHears
<1>3. /\ toUs \in Seq(FramesToUs) /\ toHost \in Seq(FramesToHost) /\ host \in Hosts
      /\ host.unacked \in Seq(Messages) /\ Len(host.unacked) \in Nat
  <2>1. /\ toUs \in Seq(FramesToUs) /\ toHost \in Seq(FramesToHost) /\ host \in Hosts
    BY DEF TypeOK
  <2>2. host.unacked \in Seq(Messages)
    BY <2>1 DEF Hosts
  <2> QED
    BY <2>1, <2>2, LenProperties
<1>4. /\ f \in FramesToHost /\ f \in Range(toHost) /\ Range(toHost') \subseteq Range(toHost)
  BY <1>2, <1>3, TailHas
<1>5. /\ Calm(h, ends, session) /\ Heeds(h, ends, session) /\ Tidy(h, session)
      /\ Saying(h, ends) /\ Reader(h, session) /\ Heeded(h)
      /\ (host.state # "gone" => h = host)
  <2>1. Calm(h, ends, session) /\ Heeded(h) /\ (host.state # "gone" => h = host)
    BY <1>1 DEF HearsFrom
  <2>2. Heeds(h, ends, session) /\ Tidy(h, session)
    BY <2>1 DEF Calm
  <2> QED
    BY <2>1, <2>2 DEF Heeds
<1>6. /\ Place(h, session) \in 0 .. Len(h.unacked) /\ Len(h.unacked) \in Nat
      /\ Back(h, session.heard) \in 0 .. Len(h.unacked)
      /\ Len(h.unacked) < Half /\ Half \in Nat
      /\ h.sequence \in Numbers /\ session.heard \in Numbers
      /\ \A x \in Numbers : Back(h, x) \in Nat
  BY <1>5, HeedsHas, HalfType
<1>7. PICK g : g = host'
  OBVIOUS
<1>8. \A w \in Range(toUs) : w.kind = "run" => w.sequence \in Numbers
  BY <1>3, RangeHas, FrameHas
<1>9. CASE f.kind = "stop" /\ host' = Departed /\ UNCHANGED toUs
  BY <1>2, <1>4, <1>9, HostLeavesHears
<1>10. CASE UNCHANGED <<host, toUs>>
  <2>1. ASSUME NEW w \in Range(toUs'), w.kind = "run"
        PROVE  w \in Range(toUs) /\ Back(h, w.sequence) < Half
    BY <1>1, <1>10, <2>1, ComesNear
  <2> QED
    BY <1>1, <1>2, <1>4, <1>10, <2>1, HostStays
<1>11. CASE /\ host' = [host EXCEPT !.state = "up"]
            /\ toUs' = Put(toUs, <<Agreement>>)
            /\ host.state \in {"idle", "up"}
  <2>1. h = host /\ host.state # "gone" /\ h.state # "over"
    BY <1>5, <1>11
  <2>2. /\ g \in Hosts /\ g.sequence = h.sequence /\ g.said = h.said /\ g.unacked = h.unacked
        /\ g.state = "up"
    BY <1>3, <1>7, <1>11, <2>1 DEF Hosts
  <2>3. ASSUME NEW w \in Range(toUs'), w.kind = "run"
        PROVE  w \in Range(toUs)
    <3>1. Agreement \in FramesToUs /\ Agreement.kind # "run"
      BY DEF FramesToUs, Agreement
    <3>2. Range(toUs') \subseteq Range(toUs) \cup {Agreement}
      BY <1>3, <1>11, <3>1, PutOneHas
    <3> QED
      BY <2>3, <3>1, <3>2
  <2> HIDE DEF none, f
  <2>4. none \in 0 .. Place(h, session) /\ g.unacked = SubSeq(h.unacked, none + 1, Len(h.unacked))
    <3>1. \A q \in 0 .. Len(h.unacked) : 0 \in 0 .. q
      BY <1>6
    <3>2. SubSeq(h.unacked, 1, Len(h.unacked)) = h.unacked
      BY <1>3, <2>1, SubSeqFull
    <3> QED
      BY <1>6, <2>2, <3>1, <3>2 DEF none
  <2>5. (~session.heardAny => none = 0) /\ host' = g /\ g.state # "gone"
    BY <1>7, <2>2 DEF none
  <2> QED
    BY <1>1, <1>2, <1>4, <1>8, <2>1, <2>2, <2>3, <2>4, <2>5, HostMoves
<1>12. CASE /\ f.kind = "run" /\ host.state \in {"up", "over"}
            /\ host' = HostTakes(f) /\ UNCHANGED toUs
  <2>1. h = host /\ host.state # "gone"
    BY <1>5, <1>12
  <2>2. f \in RunsToHost
    BY <1>4, <1>12, FrameHas
  <2>3. PICK n \in 0 .. Place(h, session) :
           /\ HostForgets(f.acknowledged) = SubSeq(host.unacked, n + 1, Len(host.unacked))
           /\ ~session.heardAny => n = 0
    BY <1>1, <1>4, <1>12, <2>1, HostCut
  <2> HIDE DEF f, none
  <2>4. /\ g \in Hosts /\ g.state = h.state /\ g.sequence = h.sequence /\ g.said = h.said
        /\ g.unacked = HostForgets(f.acknowledged)
    BY <1>7, <1>12, <2>1, <2>2, HostTakesHas
  <2>5. /\ g.unacked = SubSeq(h.unacked, n + 1, Len(h.unacked)) /\ host' = g /\ g.state # "gone"
        /\ toUs' = toUs
    BY <1>7, <1>12, <2>1, <2>3, <2>4
  <2> QED
    BY <1>1, <1>2, <1>4, <1>8, <2>1, <2>3, <2>4, <2>5, HostMoves
<1> QED
  BY <1>9, <1>10, <1>11, <1>12 DEF HostHears

\* A number the host uses next puts all the others one further back.
LEMMA OneBack ==
    ASSUME NEW h \in Hosts, NEW g, g.sequence = NextNumber(h.sequence), NEW x \in Numbers,
           Back(h, x) < Half
    PROVE  Back(g, x) = Back(h, x) + 1
<1>1. h.sequence \in Numbers
  BY DEF Hosts
<1>2. Back(h, x) \in 0 .. NumberSpan - 1
  BY <1>1, DistanceType DEF Back
<1>3. Back(h, x) + 1 < NumberSpan
  <2> HIDE DEF Back
  <2> QED
    BY <1>2, HalfType
<1> QED
  BY <1>1, <1>3, DistanceOfNext DEF Back

\* g is h with m said besides.
SaysMore(h, g, m) ==
    /\ h.state = "up" /\ Len(h.unacked) < HostWindow
    /\ g.sequence = m.sequence /\ m.sequence = NextNumber(h.sequence)
    /\ g.unacked = Append(h.unacked, m)
    /\ g.said \in Nat /\ h.said <= g.said /\ m.data = Upto(h.said, g.said)
    /\ m.slots = 0 => m.data = <<>> /\ ~m.ended
    /\ g.state = IF m.ended THEN "over" ELSE "up"

\* What the host says comes after all that it has said.
LEMMA MoreHas ==
    ASSUME NEW h, NEW ends, NEW s, Calm(h, ends, s), s.outgoing = <<>>,
           NEW g \in Hosts, NEW m \in Messages, SaysMore(h, g, m)
    PROVE  \E e : /\ Calm(g, e, s)
                  /\ Place(g, s) = Place(h, s) /\ Len(g.unacked) = Len(h.unacked) + 1
                  /\ \A j \in 0 .. Len(h.unacked) : e[j] = ends[j]
                  /\ \A f : f.sequence \in Numbers /\ Back(h, f.sequence) < Half /\ Matches(h, f)
                               => Matches(g, f)
                  /\ \A f : /\ f.sequence = m.sequence /\ f.data = m.data
                            /\ f.slots = m.slots /\ f.ended = m.ended /\ f.credit = m.credit
                            => Matches(g, f) /\ Back(g, f.sequence) = 0
<1> DEFINE last == Len(h.unacked)
           more == last + 1
           e == [j \in 0 .. more |-> IF j <= last THEN ends[j] ELSE g.said]
<1>1. /\ Heeds(h, ends, s) /\ Tidy(h, s) /\ h \in Hosts /\ s \in Sessions
      /\ Saying(h, ends) /\ Reader(h, s) /\ h.unacked \in Seq(Messages)
  <2>1. Heeds(h, ends, s) /\ Tidy(h, s)
    BY DEF Calm
  <2> QED
    BY <2>1 DEF Heeds, Hosts
<1>2. /\ last \in Nat /\ Place(h, s) \in 0 .. last /\ more \in Nat
      /\ \A x \in Numbers : Back(h, x) \in Nat
      /\ Back(h, s.heard) \in 0 .. last /\ s.heard \in Numbers
      /\ last < Half /\ Half \in Nat /\ h.said \in Nat
  <2>1. /\ last \in Nat /\ Place(h, s) \in 0 .. last /\ Back(h, s.heard) \in 0 .. last
        /\ last < Half /\ Half \in Nat /\ h.said \in Nat
    BY <1>1, HeedsHas, HalfType
  <2>2. more \in Nat
    BY <2>1
  <2>3. s.heard \in Numbers /\ \A x \in Numbers : Back(h, x) \in Nat
    BY <1>1, HeedsHas
  <2> QED
    BY <2>1, <2>2, <2>3
<1>3. /\ last < HostWindow /\ g.sequence = m.sequence /\ m.sequence = NextNumber(h.sequence)
      /\ g.unacked = Append(h.unacked, m) /\ g.said \in Nat /\ h.said <= g.said
      /\ m.data = Upto(h.said, g.said) /\ (m.slots = 0 => m.data = <<>> /\ ~m.ended)
      /\ (m.ended => g.state = "over") /\ h.state = "up"
      /\ m.sequence \in Numbers
  BY DEF SaysMore, Messages
<1>4. ASSUME NEW x \in Numbers, Back(h, x) < Half PROVE Back(g, x) = Back(h, x) + 1
  BY <1>1, <1>3, <1>4, OneBack
<1>5. Back(g, m.sequence) = 0
  BY <1>3, DistanceType DEF Back
<1>6. Len(g.unacked) = more /\ g.unacked[more] = m /\ \A i \in 1 .. last : g.unacked[i] = h.unacked[i]
  <2>1. g.unacked = Append(h.unacked, m)
    BY <1>3
  <2> QED
    BY <1>1, <2>1, AppendProperties
<1>7. Back(h, s.heard) < Half /\ Back(g, s.heard) = Back(h, s.heard) + 1
  <2>1. Back(h, s.heard) < Half
    <3> HIDE DEF Back, last
    <3> QED
      BY <1>2
  <2> QED
    BY <1>2, <1>4, <2>1
<1>8. Place(g, s) = Place(h, s)
  <2>1. \A p, q \in Nat : p + 1 - (q + 1) = p - q
    OBVIOUS
  <2>2. Back(h, s.heard) \in Nat
    BY <1>2
  <2> HIDE DEF Back
  <2> QED
    BY <1>2, <1>6, <1>7, <2>1, <2>2, SMTT(60) DEF Place
<1>9. ASSUME NEW f, f.sequence \in Numbers, Back(h, f.sequence) < Half, Matches(h, f)
      PROVE  Matches(g, f)
  <2> DEFINE i == last - Back(h, f.sequence)
  <2>0. Back(h, f.sequence) \in Nat /\ Back(g, f.sequence) = Back(h, f.sequence) + 1
    BY <1>2, <1>4, <1>9
  <2>1. i \in Int /\ i <= last /\ more - Back(g, f.sequence) = i
    <3> HIDE DEF Back
    <3> QED
      BY <1>2, <2>0, SMTT(60)
  <2>2. i > 0 => /\ f.data = h.unacked[i].data
                 /\ f.slots = h.unacked[i].slots
                 /\ f.ended = h.unacked[i].ended
                 /\ f.credit = h.unacked[i].credit
    BY <1>9 DEF Matches
  <2>3. i > 0 => i \in 1 .. last
    <3> HIDE DEF i
    <3> QED
      BY <1>2, <2>1
  <2> HIDE DEF i, more
  <2> QED
    BY <1>6, <2>1, <2>2, <2>3 DEF Matches
<1>10. ASSUME NEW f, f.sequence = m.sequence, f.data = m.data, f.slots = m.slots, f.ended = m.ended,
              f.credit = m.credit
       PROVE  Matches(g, f) /\ Back(g, f.sequence) = 0
  <2>1. Len(g.unacked) - Back(g, f.sequence) = more
    BY <1>2, <1>5, <1>6, <1>10
  <2> QED
    BY <1>5, <1>6, <1>10, <2>1 DEF Matches
<1>11. /\ e \in [0 .. more -> 0 .. g.said]
       /\ \A j \in 0 .. last : j \in 0 .. more /\ e[j] = ends[j] /\ ends[j] \in 0 .. h.said
       /\ e[more] = g.said
  <2>1. ends \in [0 .. last -> 0 .. h.said]
    BY <1>1 DEF Saying
  <2>2. \A j \in 0 .. last : ends[j] \in 0 .. h.said /\ ends[j] \in 0 .. g.said /\ j \in 0 .. more
    <3>1. \A k \in 0 .. h.said : k \in 0 .. g.said
      BY <1>2, <1>3
    <3>2. \A j \in 0 .. last : j \in 0 .. more
      BY <1>2
    <3> QED
      BY <2>1, <3>1, <3>2
  <2>3. \A j \in 0 .. more : j <= last => j \in 0 .. last
    BY <1>2
  <2>4. g.said \in 0 .. g.said /\ more \in 0 .. more /\ ~(more <= last)
    BY <1>2, <1>3
  <2>5. \A j \in 0 .. more : (IF j <= last THEN ends[j] ELSE g.said) \in 0 .. g.said
    BY <2>2, <2>3, <2>4
  <2>6. \A j \in 0 .. last : j <= last
    BY <1>2
  <2> HIDE DEF more, last
  <2>7. e \in [0 .. more -> 0 .. g.said]
    BY <2>5
  <2> QED
    BY <2>2, <2>4, <2>6, <2>7
<1> HIDE DEF e
<1>12. Saying(g, e)
  <2>1. more <= HostWindow
    <3>1. HostWindow \in Nat
      BY HostAssumption, HalfType
    <3> QED
      BY <1>2, <1>3, <3>1
  <2>2. ASSUME NEW i \in 0 .. more, NEW j \in 0 .. more, i <= j PROVE e[i] <= e[j]
    <3>1. CASE j \in 0 .. last
      <4>1. i \in 0 .. last
        BY <1>2, <2>2, <3>1
      <4>2. ends[i] <= ends[j]
        BY <1>1, <2>2, <3>1, <4>1 DEF Saying
      <4> QED
        BY <1>11, <3>1, <4>1, <4>2
    <3>2. CASE j = more
      <4>1. e[i] \in 0 .. g.said
        BY <1>11
      <4> QED
        BY <1>3, <1>11, <3>2, <4>1
    <3>3. j \in 0 .. last \/ j = more
      BY <1>2
    <3> QED
      BY <3>1, <3>2, <3>3
  <2>3. ASSUME NEW i \in 1 .. more
        PROVE  /\ Back(g, g.unacked[i].sequence) = more - i
               /\ g.unacked[i].data = Upto(e[i - 1], e[i])
               /\ g.unacked[i].slots = 0 => g.unacked[i].data = <<>> /\ ~g.unacked[i].ended
               /\ g.unacked[i].ended => i = more /\ g.state = "over"
    <3>1. CASE i = more
      <4>1. i - 1 = last /\ more - i = 0 /\ last \in 0 .. last
        BY <1>2, <3>1
      <4>2. ends[last] = h.said
        BY <1>1 DEF Saying
      <4>3. e[i - 1] = h.said /\ e[i] = g.said
        BY <1>11, <3>1, <4>1, <4>2
      <4>4. g.unacked[i] = m
        BY <1>6, <3>1
      <4> HIDE DEF more, last
      <4> QED
        BY <1>3, <1>5, <3>1, <4>1, <4>3, <4>4
    <3>2. CASE i \in 1 .. last
      <4>1. i \in 0 .. last /\ i - 1 \in 0 .. last /\ last - i \in Nat /\ last - i < Half
            /\ (last - i) + 1 = more - i
        BY <1>2, <3>2
      <4>2. /\ Back(h, h.unacked[i].sequence) = last - i
            /\ h.unacked[i].data = Upto(ends[i - 1], ends[i])
            /\ h.unacked[i].slots = 0 => h.unacked[i].data = <<>> /\ ~h.unacked[i].ended
            /\ ~h.unacked[i].ended
        BY <1>1, <1>3, <3>2 DEF Saying
      <4>3. h.unacked[i].sequence \in Numbers
        <5>1. h.unacked[i] \in Messages
          BY <1>1, <3>2, ElementOfSeq
        <5> QED
          BY <5>1 DEF Messages
      <4>4. Back(g, h.unacked[i].sequence) = (last - i) + 1
        BY <1>4, <4>1, <4>2, <4>3
      <4>5. g.unacked[i] = h.unacked[i] /\ e[i] = ends[i] /\ e[i - 1] = ends[i - 1]
        BY <1>6, <1>11, <3>2, <4>1
      <4> HIDE DEF more, last
      <4> QED
        BY <4>1, <4>2, <4>4, <4>5
    <3>3. i = more \/ i \in 1 .. last
      BY <1>2
    <3> QED
      BY <3>1, <3>2, <3>3
  <2> HIDE DEF more, last
  <2> QED
    BY <1>6, <1>11, <2>1, <2>2, <2>3 DEF Saying
<1>13. ASSUME NEW w \in s.early
       PROVE  /\ w.sequence \in Numbers /\ Back(h, w.sequence) \in Nat
              /\ Back(h, w.sequence) < Back(h, s.heard) /\ Back(h, w.sequence) < Half
              /\ Back(g, w.sequence) = Back(h, w.sequence) + 1
              /\ Matches(g, w)
  <2>1. w \in RunsToUs /\ w.sequence \in Numbers
    <3>1. w \in RunsToUs
      BY <1>1 DEF Sessions
    <3> QED
      BY <3>1, FrameHas
  <2>2. Back(h, w.sequence) \in Nat /\ Back(h, w.sequence) < Back(h, s.heard)
    BY <1>1, <1>2, <2>1 DEF Tidy
  <2>3. Back(h, w.sequence) < Half
    <3> HIDE DEF Back
    <3> QED
      BY <1>2, <1>7, <2>2
  <2>4. Matches(h, w)
    BY <1>1 DEF Reader
  <2> QED
    BY <1>4, <1>9, <2>1, <2>2, <2>3, <2>4
<1>14. Tidy(g, s)
  <2> SUFFICES ASSUME NEW w \in s.early PROVE Back(g, w.sequence) < Back(g, s.heard)
    BY DEF Tidy
  <2>1. /\ Back(g, w.sequence) = Back(h, w.sequence) + 1 /\ Back(h, w.sequence) < Back(h, s.heard)
        /\ Back(h, w.sequence) \in Nat /\ Back(h, s.heard) \in Nat
    BY <1>2, <1>13
  <2> HIDE DEF Back
  <2> QED
    BY <1>7, <2>1
<1>15. Reader(g, s)
  <2>1. Back(g, s.heard) <= more
    <3> HIDE DEF Back
    <3> QED
      BY <1>2, <1>7
  <2>2. ASSUME NEW w \in s.early PROVE Back(g, w.sequence) < more /\ Matches(g, w)
    <3>1. Back(g, w.sequence) < Back(g, s.heard) /\ Matches(g, w)
      BY <1>13, <1>14 DEF Tidy
    <3>2. Back(g, w.sequence) \in Nat /\ Back(g, s.heard) \in Nat
      <4>1. Back(h, w.sequence) \in Nat /\ Back(h, s.heard) \in Nat
        BY <1>2, <1>13
      <4>2. Back(g, w.sequence) = Back(h, w.sequence) + 1
        BY <1>13
      <4> HIDE DEF Back
      <4> QED
        BY <1>7, <4>1, <4>2
    <3> HIDE DEF Back
    <3> QED
      BY <1>2, <2>1, <3>1, <3>2
  <2>3. ~s.heardAny => s.heard = 0 /\ s.early = {} /\ Back(g, 0) = more
    <3> SUFFICES ASSUME ~s.heardAny PROVE s.heard = 0 /\ s.early = {} /\ Back(g, 0) = more
      OBVIOUS
    <3>1. s.heard = 0 /\ s.early = {} /\ Back(h, 0) = last
      BY <1>1 DEF Reader
    <3> QED
      BY <1>7, <3>1
  <2>4. \A v, w \in s.early : v.sequence = w.sequence => v = w
    BY <1>1 DEF Reader
  <2>5. \A i \in 1 .. Len(s.outgoing) : FALSE
    OBVIOUS
  <2> HIDE DEF more, last
  <2> QED
    BY <1>6, <2>1, <2>2, <2>3, <2>4, <2>5 DEF Reader
<1>16. Calm(g, e, s)
  BY <1>1, <1>12, <1>14, <1>15 DEF Calm, Heeds
<1> QED
  BY <1>6, <1>8, <1>9, <1>10, <1>11, <1>16

\* What the host may say: its next piece of text or nothing, and nothing at
\* all without a slot.
MaySay(m) ==
    /\ m.data = <<>> \/ m.data = <<host.said + 1>>
    /\ m.slots = 0 => m.data = <<>> /\ ~m.ended

LEMMA HostMaySay ==
    ASSUME TypeOK, HostSpeaks \/ HostGrants \/ HostEnds \/ HostAcks
    PROVE  \E m \in Messages : Say(m) /\ MaySay(m)
<1>1. CASE HostSpeaks
  <2>1. PICK g \in Grants :
           Say([Blank EXCEPT !.slots = 1, !.credit = g, !.data = <<host.said + 1>>])
    BY <1>1 DEF HostSpeaks
  <2> DEFINE m == [Blank EXCEPT !.slots = 1, !.credit = g, !.data = <<host.said + 1>>]
  <2>2. m \in Messages /\ Say(m)
    BY <2>1, SaidMessages
  <2>3. m.slots = 1 /\ m.data = <<host.said + 1>>
    BY DEF Blank
  <2> HIDE DEF m
  <2> QED
    BY <2>2, <2>3 DEF MaySay
<1>2. CASE HostGrants
  <2>1. PICK g \in Grants : Say([Blank EXCEPT !.slots = 1, !.credit = g])
    BY <1>2 DEF HostGrants
  <2> DEFINE m == [Blank EXCEPT !.slots = 1, !.credit = g]
  <2>2. m \in Messages /\ Say(m)
    BY <2>1, SaidMessages
  <2>3. m.slots = 1 /\ m.data = <<>>
    BY DEF Blank
  <2> HIDE DEF m
  <2> QED
    BY <2>2, <2>3 DEF MaySay
<1>3. CASE HostEnds
  <2> DEFINE m == [Blank EXCEPT !.slots = 1, !.ended = TRUE]
  <2>2. m \in Messages /\ Say(m)
    BY <1>3, QuietMessages DEF HostEnds
  <2>3. m.slots = 1 /\ m.data = <<>>
    BY DEF Blank
  <2> HIDE DEF m
  <2> QED
    BY <2>2, <2>3 DEF MaySay
<1>4. CASE HostAcks
  <2>2. Blank \in Messages /\ Say(Blank)
    BY <1>4, QuietMessages DEF HostAcks
  <2>3. Blank.slots = 0 /\ Blank.data = <<>> /\ ~Blank.ended
    BY DEF Blank
  <2> QED
    BY <2>2, <2>3 DEF MaySay
<1> QED
  BY <1>1, <1>2, <1>3, <1>4

\* It is a piece of text more, or none.
LEMMA SaidIs ==
    ASSUME NEW said \in Nat, NEW data, data = <<>> \/ data = <<said + 1>>
    PROVE  /\ Len(data) \in {0, 1} /\ data = Upto(said, said + Len(data))
           /\ said + Len(data) \in Nat /\ said <= said + Len(data)
<1>1. CASE data = <<>>
  <2>1. Len(data) = 0 /\ said + Len(data) = said
    BY <1>1
  <2>2. Upto(said, said) = <<>>
    BY UptoNone
  <2> QED
    BY <1>1, <2>1, <2>2
<1>2. CASE data = <<said + 1>>
  <2>1. Len(data) = 1
    BY <1>2
  <2>2. Upto(said, said) \o <<said + 1>> = Upto(said, said + 1)
    BY UptoMore
  <2>3. Upto(said, said) = <<>>
    BY UptoNone
  <2>4. <<>> \o <<said + 1>> = <<said + 1>>
    OBVIOUS
  <2> QED
    BY <1>2, <2>1, <2>2, <2>3, <2>4
<1> QED
  BY <1>1, <1>2

LEMMA HostSaysHears ==
    ASSUME TypeOK, Prompt, Hearing, HostSpeaks \/ HostGrants \/ HostEnds \/ HostAcks
    PROVE  Hearing'
<1>1. PICK h, ends : HearsFrom(h, ends)
  BY DEF Hearing
<1>2. PICK m \in Messages : Say(m) /\ MaySay(m)
  BY HostMaySay
<1>3. PICK n \in Messages :
         /\ n = [m EXCEPT !.sequence = NextNumber(host.sequence)]
         /\ toUs' = Put(toUs, <<Frame(host, n)>>)
         /\ host'.sequence = n.sequence
         /\ host'.unacked = Append(host.unacked, n)
         /\ host'.said = host.said + Len(n.data)
         /\ host'.state = IF n.ended THEN "over" ELSE "up"
         /\ n.slots = m.slots /\ n.data = m.data /\ n.ended = m.ended
  BY <1>2, SayHas
<1>4. /\ host' \in Hosts /\ host.state = "up" /\ Len(host.unacked) < HostWindow
      /\ UNCHANGED <<session, toHost, screen, first>>
  BY <1>2, SayHas DEF Say
<1>5. /\ toUs \in Seq(FramesToUs) /\ toHost \in Seq(FramesToHost) /\ host \in Hosts
      /\ session \in Sessions /\ session.outgoing = <<>>
  BY DEF TypeOK
<1>6. /\ h = host /\ Calm(h, ends, session) /\ Heeds(h, ends, session)
      /\ Wired(h) /\ Heeded(h) /\ Shown(h, ends) /\ h.said \in Nat
  <2>1. /\ h = host /\ Calm(h, ends, session) /\ Wired(h) /\ Heeded(h) /\ Shown(h, ends)
    BY <1>1, <1>4 DEF HearsFrom
  <2>2. Heeds(h, ends, session)
    BY <2>1 DEF Calm
  <2> QED
    BY <2>1, <2>2, HeedsHas
<1>7. PICK g : g = host'
  OBVIOUS
<1>8. g \in Hosts /\ SaysMore(h, g, n) /\ g.state # "gone"
  <2>1. n.sequence = NextNumber(host.sequence)
    BY <1>2, <1>3 DEF Messages
  <2>2. n.data = <<>> \/ n.data = <<h.said + 1>>
    BY <1>2, <1>3, <1>6 DEF MaySay
  <2>3. g.said = h.said + Len(n.data)
    BY <1>3, <1>6, <1>7
  <2>4. g.said \in Nat /\ h.said <= g.said /\ n.data = Upto(h.said, g.said)
    BY <1>6, <2>2, <2>3, SaidIs
  <2>5. n.slots = 0 => n.data = <<>> /\ ~n.ended
    BY <1>2, <1>3 DEF MaySay
  <2>6. /\ g.sequence = n.sequence /\ g.unacked = Append(h.unacked, n)
        /\ g.state = IF n.ended THEN "over" ELSE "up"
    BY <1>3, <1>6, <1>7
  <2>7. SaysMore(h, g, n)
    BY <1>4, <1>6, <2>1, <2>4, <2>5, <2>6 DEF SaysMore
  <2> QED
    BY <1>4, <1>7, <2>6, <2>7
<1>9. PICK e : /\ Calm(g, e, session)
               /\ Place(g, session) = Place(h, session) /\ Len(g.unacked) = Len(h.unacked) + 1
               /\ \A j \in 0 .. Len(h.unacked) : e[j] = ends[j]
               /\ \A f : f.sequence \in Numbers /\ Back(h, f.sequence) < Half /\ Matches(h, f)
                            => Matches(g, f)
               /\ \A f : /\ f.sequence = n.sequence /\ f.data = n.data
                         /\ f.slots = n.slots /\ f.ended = n.ended /\ f.credit = n.credit
                         => Matches(g, f) /\ Back(g, f.sequence) = 0
  BY <1>5, <1>6, <1>8, MoreHas
<1>10. /\ Len(h.unacked) \in Nat /\ Place(h, session) \in 0 .. Len(h.unacked)
       /\ session.heard \in Numbers /\ Len(h.unacked) < Half
       /\ Back(h, session.heard) \in 0 .. Len(h.unacked) /\ Half \in Nat
       /\ \A x \in Numbers : Back(h, x) \in Nat
  BY <1>6, HeedsHas, HalfType
<1>11. ASSUME NEW x \in Numbers, Back(h, x) < Half PROVE Back(g, x) = Back(h, x) + 1
  <2>1. h \in Hosts /\ g.sequence = NextNumber(h.sequence)
    BY <1>5, <1>6, <1>8 DEF SaysMore
  <2> QED
    BY <1>11, <2>1, OneBack
<1>12. Frame(host, n) \in FramesToUs /\ Range(toUs') \subseteq Range(toUs) \cup {Frame(host, n)}
  <2>1. Frame(host, n) \in FramesToUs
    BY FrameOf
  <2> QED
    BY <1>3, <1>5, <2>1, PutOneHas
<1>13. Wired(g)'
  <2> SUFFICES ASSUME NEW f \in Range(toUs'), f.kind = "run"
               PROVE  /\ Matches(g, f)
                      /\ ~session.heardAny => Back(g, f.sequence) < Len(g.unacked)
    BY <1>4, <1>7, <1>8 DEF Wired, WiredFrame
  <2>1. CASE f \in Range(toUs)
    <3>1. f.sequence \in Numbers /\ Back(h, f.sequence) < Half
      BY <1>1, <2>1, ComesNear
    <3>2. Matches(h, f) /\ (~session.heardAny => Back(h, f.sequence) < Len(h.unacked))
      BY <1>6, <2>1 DEF Wired, WiredFrame
    <3>3. Matches(g, f)
      BY <1>9, <3>1, <3>2
    <3>4. Back(g, f.sequence) = Back(h, f.sequence) + 1 /\ Back(h, f.sequence) \in Nat
      BY <1>10, <1>11, <3>1
    <3>5. ~session.heardAny => Back(g, f.sequence) < Len(g.unacked)
      <4> SUFFICES ASSUME ~session.heardAny PROVE Back(g, f.sequence) < Len(g.unacked)
        OBVIOUS
      <4> HIDE DEF Back
      <4> QED
        BY <1>9, <1>10, <3>2, <3>4
    <3> QED
      BY <3>3, <3>5
  <2>2. CASE f = Frame(host, n)
    <3>1. f.sequence = n.sequence /\ f.data = n.data /\ f.slots = n.slots /\ f.ended = n.ended
          /\ f.credit = n.credit
      BY <2>2 DEF Frame
    <3>2. Matches(g, f) /\ Back(g, f.sequence) = 0
      BY <1>9, <3>1
    <3>3. 0 < Len(g.unacked)
      BY <1>9, <1>10
    <3> QED
      BY <3>2, <3>3
  <2> QED
    BY <1>12, <2>1, <2>2
<1>14. Heeded(g)'
  <2> SUFFICES ASSUME NEW f \in Range(toHost), f.kind = "run"
               PROVE  Back(g, session.heard) <= Back(g, f.acknowledged)
    BY <1>4 DEF Heeded
  <2>1. f.acknowledged \in Numbers
    BY <1>5, RangeHas, FrameHas
  <2>2. Back(h, f.acknowledged) < Half
    BY <1>4, <1>6, PromptSays DEF Back
  <2>3. Back(h, session.heard) <= Back(h, f.acknowledged)
    BY <1>4, <1>6 DEF Heeded
  <2>4. Back(h, session.heard) < Half
    <3> HIDE DEF Back
    <3> QED
      BY <1>10
  <2>5. /\ Back(g, session.heard) = Back(h, session.heard) + 1
        /\ Back(g, f.acknowledged) = Back(h, f.acknowledged) + 1
    BY <1>10, <1>11, <2>1, <2>2, <2>4
  <2>6. Back(h, session.heard) \in Nat /\ Back(h, f.acknowledged) \in Nat
    BY <1>10, <2>1
  <2> HIDE DEF Back
  <2> QED
    BY <2>3, <2>5, <2>6
<1>15. Shown(g, e)'
  <2>0. PICK p : p = Place(h, session)
    OBVIOUS
  <2>1. p \in 0 .. Len(h.unacked) /\ 0 \in 0 .. Len(h.unacked)
    BY <1>10, <2>0
  <2>2. e[p] = ends[p] /\ e[0] = ends[0]
    BY <1>9, <2>1
  <2>3. ShownTo(p, h, ends) /\ h.state = "up"
    BY <1>4, <1>6, <2>0 DEF Shown
  <2>4. ShownTo(p, g, e)
    BY <2>2, <2>3 DEF ShownTo
  <2>5. ShownTo(p, g, e)'
    BY <1>4, <2>4 DEF ShownTo
  <2>6. Place(g, session') = p
    BY <1>4, <1>9, <2>0
  <2> QED
    BY <2>5, <2>6 DEF Shown
<1>16. Calm(g, e, session)'
  BY <1>4, <1>9
<1>17. HearsFrom(g, e)'
  BY <1>7, <1>8, <1>13, <1>14, <1>15, <1>16 DEF HearsFrom
<1>18. g \in Hosts /\ e \in [0 .. Len(g.unacked) -> 0 .. g.said]
  BY <1>9 DEF Calm, Heeds, Saying
<1> QED
  BY <1>17, <1>18 DEF Hearing

-----------------------------------------------------------------------------
(* The invariant holds.                                                     *)

LEMMA InitHearing == Init => Hearing
<1> SUFFICES ASSUME Init PROVE Hearing
  OBVIOUS
<1>1. TypeOK
  BY InitTyping
<1>2. PICK h : h = Host0
  OBVIOUS
<1> DEFINE none == [j \in 0 .. 0 |-> 0]
<1>3. PICK ends : ends = none
  OBVIOUS
<1>4. /\ host = h /\ session = NewSession /\ toHost = <<>> /\ toUs = <<>>
      /\ screen = <<>> /\ first = 0
  BY <1>2 DEF Init
<1>5. /\ h \in Hosts /\ session \in Sessions /\ session.outgoing = <<>>
  BY <1>1, <1>4 DEF TypeOK
<1>6. /\ h.state = "idle" /\ h.sequence = 0 /\ h.unacked = <<>> /\ h.said = 0
      /\ Len(h.unacked) = 0
  BY <1>2 DEF Host0
<1>7. session.heard = 0 /\ session.heardAny = FALSE /\ session.early = {} /\ session.ended = "over"
  BY <1>4 DEF NewSession
<1>8. /\ ends \in [0 .. 0 -> 0 .. 0] /\ ends[0] = 0 /\ 1 .. 0 = {}
  BY <1>3
<1>9. \A i, j \in 0 .. 0 : i = 0 /\ j = 0
  OBVIOUS
<1>10. Back(h, 0) = 0
  BY <1>6 DEF Back, Distance
<1>11. Saying(h, ends)
  <2>1. 0 <= HostWindow
    BY HostAssumption, HalfType
  <2>2. \A i, j \in 0 .. 0 : i <= j => ends[i] <= ends[j]
    BY <1>8, <1>9
  <2> QED
    BY <1>6, <1>8, <2>1, <2>2 DEF Saying
<1>12. Reader(h, session)
  <2>1. \A i \in 1 .. Len(session.outgoing) : FALSE
    BY <1>5
  <2> QED
    BY <1>6, <1>7, <1>10, <2>1 DEF Reader
<1>13. Calm(h, ends, session)
  BY <1>5, <1>7, <1>11, <1>12 DEF Calm, Heeds, Tidy
<1>14. Range(toHost) = {} /\ Range(toUs) = {}
  BY <1>4 DEF Range
<1>15. Wired(h) /\ Heeded(h)
  BY <1>14 DEF Wired, Heeded
<1>16. Place(h, session) = 0
  BY <1>6, <1>7, <1>10 DEF Place
<1>17. Shown(h, ends)
  <2>1. Latest(screen) = 0 /\ Upto(0, 0) = <<>>
    BY <1>4, UptoNone DEF Latest
  <2>2. ShownTo(0, h, ends)
    BY <1>4, <1>7, <1>8, <2>1 DEF ShownTo
  <2> QED
    BY <1>16, <2>2 DEF Shown
<1>18. HearsFrom(h, ends)
  BY <1>4, <1>13, <1>15, <1>17 DEF HearsFrom
<1> QED
  BY <1>18, HearingIs

LEMMA NextHears ==
    ASSUME TypeOK, Prompt, Hearing, [Next]_vars
    PROVE  Hearing'
<1>1. CASE Here
  BY <1>1, HereHears
<1>2. CASE HostHears
  BY <1>2, HostHearsHears
<1>3. CASE HostSpeaks \/ HostGrants \/ HostEnds \/ HostAcks
  BY <1>3, HostSaysHears
<1>4. CASE HostRepeats
  BY <1>4, HostRepeatsHears
<1>5. CASE HostStops \/ HostDies
  <2>1. UNCHANGED <<session, screen, first, toHost>> /\ host' = Departed
    BY <1>5 DEF HostStops, HostDies
  <2>2. \A f \in Range(toUs') : f.kind = "run" => f \in Range(toUs)
    <3>1. CASE HostStops
      <4>1. toUs \in Seq(FramesToUs) /\ StopMessage \in FramesToUs
        BY DEF TypeOK, FramesToUs
      <4>2. Range(toUs') \subseteq Range(toUs) \cup {StopMessage}
        BY <3>1, <4>1, PutOneHas DEF HostStops
      <4>3. StopMessage.kind # "run"
        BY DEF StopMessage
      <4> QED
        BY <4>2, <4>3
    <3>2. CASE HostDies
      BY <3>2 DEF HostDies
    <3> QED
      BY <1>5, <3>1, <3>2
  <2>3. Range(toHost') \subseteq Range(toHost)
    BY <2>1
  <2> QED
    BY <2>1, <2>2, <2>3, HostLeavesHears
<1>6. CASE Wire
  BY <1>6, WireHears
<1>7. CASE UNCHANGED vars
  <2>1. PICK h, ends : HearsFrom(h, ends)
    BY DEF Hearing
  <2>2. /\ UNCHANGED <<session, screen, first>> /\ host' = host
        /\ toHost' = toHost /\ toUs' = toUs
    BY <1>7 DEF vars
  <2>3. ASSUME NEW f \in Range(toUs'), f.kind = "run"
        PROVE  f \in Range(toUs) /\ Back(h, f.sequence) < Half
    BY <2>1, <2>2, <2>3, ComesNear
  <2>4. Range(toHost') \subseteq Range(toHost) /\ host'.said = host.said
        /\ (host'.state # "gone" => host.state # "gone" /\ host' = host)
    BY <2>2
  <2> QED
    BY <2>1, <2>2, <2>3, <2>4, HostStays
<1> QED
  BY <1>1, <1>2, <1>3, <1>4, <1>5, <1>6, <1>7 DEF Next, Theirs

LEMMA UptoAll ==
    ASSUME NEW n \in Nat
    PROVE  Len(Upto(0, n)) = n
<1>1. 0 <= n /\ n - 0 = n
  OBVIOUS
<1> QED
  BY <1>1, UptoType

\* The session has not ended before all the host said was read.
LEMMA HearingShows ==
    ASSUME TypeOK, Hearing, HostWindow <= GapPatience
    PROVE  EndComesLast
<1> SUFFICES ASSUME session.ended = "session ended", first = 1, host.state = "over"
             PROVE  Len(screen) = host.said
  BY DEF EndComesLast
<1>1. PICK h, ends : HearsFrom(h, ends)
  BY DEF Hearing
<1>2. h = host /\ Calm(h, ends, session) /\ Shown(h, ends)
  BY <1>1 DEF HearsFrom
<1>3. h.said \in Nat /\ ends[Len(h.unacked)] = h.said
  <2>1. Heeds(h, ends, session)
    BY <1>2 DEF Calm
  <2>2. h.said \in Nat
    BY <2>1, HeedsHas
  <2> QED
    BY <2>1, <2>2 DEF Heeds, Saying
<1>4. screen = Upto(0, ends[Len(h.unacked)])
  BY <1>2 DEF Shown, ShownTo
<1>5. Len(Upto(0, h.said)) = h.said
  BY <1>3, UptoAll
<1> QED
  BY <1>2, <1>3, <1>4, <1>5

\* Nothing typed is lost, and when the host has ended the session, all that it
\* said before has been read: receive neither reads past a gap while the host
\* can send what is missing again, nor takes the end before what waits.
THEOREM AllOfItIsKept ==
    ASSUME HostWindow <= GapPatience
    PROVE  Spec /\ []Prompt => []NothingIsLost
<1>1. Init => TypeOK /\ Typing /\ Hearing
  BY InitTyping, InitHearing
<1>2. TypeOK /\ Typing /\ Hearing /\ Prompt /\ Prompt' /\ [Next]_vars
         => TypeOK' /\ Typing' /\ Hearing'
  BY NextStep, NextHears
<1>3. TypeOK /\ Typing /\ Hearing /\ Prompt => NothingIsLost
  BY TypingShows, HearingShows DEF NothingIsLost
<1> QED
  BY <1>1, <1>2, <1>3, PTL DEF Spec

-----------------------------------------------------------------------------
(* The circuit keeps the promise of LatDelivery, step by step.              *)

\* What the promise is about.
Promised == <<keys, host.typed, host.said, screen>>

\* The promise's runs are this module's, and its latest is this one's.
LEMMA RunIsUpto ==
    ASSUME NEW a \in Nat, NEW b \in Nat
    PROVE  Delivery!Run(a + 1, b) = Upto(a, b)
<1>1. b - (a + 1) + 1 = b - a /\ \A i \in 1 .. b - a : (a + 1) + i - 1 = a + i
  OBVIOUS
<1> QED
  BY <1>1 DEF Delivery!Run, Upto

LEMMA LatestIs ==
    ASSUME NEW s
    PROVE  Delivery!Latest(s) = Latest(s)
BY DEF Delivery!Latest, Latest

LEMMA LatestOfAll ==
    ASSUME NEW n \in Nat
    PROVE  Latest(Upto(0, n)) = n
<1>1. CASE n = 0
  <2>1. Upto(0, n) = <<>>
    BY <1>1, UptoNone
  <2> QED
    BY <1>1, <2>1 DEF Latest
<1>2. CASE n # 0
  <2>1. 0 < n /\ <<>> \in Seq(Nat) /\ 0 <= n
    BY <1>2
  <2>2. <<>> \o Upto(0, n) = Upto(0, n)
    <3>1. Upto(0, n) \in Seq(Nat)
      BY <2>1, UptoType
    <3> HIDE DEF Upto
    <3> QED
      BY <3>1, ConcatEmptySeq
  <2> QED
    BY <2>1, <2>2, LatestOf, ZenonT(60)
<1> QED
  BY <1>1, <1>2

\* A step that shows nothing and that the host takes nothing in.
LEMMA DoShowsNothing ==
    ASSUME TypeOK, NEW after \in Sessions, HearsNoMore(session, after), Do(after),
           UNCHANGED host
    PROVE  screen' = screen /\ host'.typed = host.typed /\ host'.said = host.said
<1>1. after.data = <<>> /\ screen \in Seq(Nat) /\ screen' = screen \o after.data
  BY DEF TypeOK, HearsNoMore, Do
<1>2. screen \o <<>> = screen
  BY <1>1, ConcatEmptySeq
<1> QED
  BY <1>1, <1>2

LEMMA QuietHere ==
    ASSUME TypeOK, CallNode \/ HoldExpires \/ RetransmitDue \/ KeepaliveDue \/ Dead \/ Drop
    PROVE  UNCHANGED Promised
<1>0. session \in Sessions
  BY DEF TypeOK
<1>1. \E after \in Sessions : HearsNoMore(session, after) /\ Do(after)
  <2>1. CASE CallNode
    <3>1. Call(session) \in Sessions /\ HearsNoMore(session, Call(session))
      BY <1>0, CallKeeps, CallHears, KeepsIs
    <3> QED
      BY <2>1, <3>1 DEF CallNode
  <2>2. CASE HoldExpires
    <3>1. ReleaseTyping(session) \in Sessions /\ HearsNoMore(session, ReleaseTyping(session))
      BY <1>0, ReleaseTypingSends, SendsOnlyHears, KeepsIs
    <3> QED
      BY <2>2, <3>1 DEF HoldExpires
  <2>3. CASE RetransmitDue
    <3>1. Retransmit(session) \in Sessions /\ HearsNoMore(session, Retransmit(session))
      BY <1>0, RetransmitKeeps, RetransmitHears, KeepsIs
    <3> QED
      BY <2>3, <3>1 DEF RetransmitDue
  <2>4. CASE KeepaliveDue
    <3>1. Keepalive(session) \in Sessions /\ HearsNoMore(session, Keepalive(session))
      BY <1>0, KeepaliveKeeps, KeepaliveHears, KeepsIs
    <3> QED
      BY <2>4, <3>1 DEF KeepaliveDue
  <2>5. CASE Dead
    <3>1. PeerGone(session) \in Sessions /\ HearsNoMore(session, PeerGone(session))
      BY <1>0, PeerGoneKeeps, StoppedHears, KeepsIs
    <3> QED
      BY <2>5, <3>1 DEF Dead
  <2>6. CASE Drop
    <3>1. Close(session) \in Sessions /\ HearsNoMore(session, Close(session))
      BY <1>0, CloseKeeps, CloseHears, KeepsIs
    <3> QED
      BY <2>6, <3>1 DEF Drop
  <2> QED
    BY <2>1, <2>2, <2>3, <2>4, <2>5, <2>6
<1>2. UNCHANGED <<host, keys>>
  BY DEF CallNode, HoldExpires, RetransmitDue, KeepaliveDue, Dead, Drop
<1> QED
  BY <1>1, <1>2, DoShowsNothing DEF Promised

\* A byte typed.
LEMMA TypeKeyTypes ==
    ASSUME TypeOK, TypeKey
    PROVE  Delivery!Type
<1>1. session \in Sessions /\ keys \in Nat /\ IsOpen(session) /\ keys + 1 \in Nat
  BY DEF TypeOK, TypeKey
<1>2. Write(session, <<keys + 1>>) \in Sessions
  <2>1. \E r \in Sessions : Keeps(r, Write(session, <<keys + 1>>))
    BY <1>1, WriteKeeps
  <2> QED
    BY <2>1, KeepsIs
<1>3. HearsNoMore(session, Write(session, <<keys + 1>>))
  BY <1>1, WriteHears
<1>4. Do(Write(session, <<keys + 1>>)) /\ keys' = keys + 1 /\ UNCHANGED host
  BY DEF TypeKey
<1>5. screen' = screen /\ host'.typed = host.typed /\ host'.said = host.said
  BY <1>2, <1>3, <1>4, DoShowsNothing
<1> QED
  BY <1>4, <1>5 DEF Delivery!Type

\* Text read is shown, after what was shown before.
LEMMA HearFrameShows ==
    ASSUME TypeOK, Prompt, Hearing, HearFrame
    PROVE  Delivery!Show \/ UNCHANGED Promised
<1>1. PICK h, ends : HearsFrom(h, ends)
  BY DEF Hearing
<1>2. UNCHANGED <<host, keys>>
  BY DEF HearFrame
<1>3. CASE session.state = "Closed"
  BY <1>2, <1>3 DEF HearFrame, Promised
<1>4. CASE session.state # "Closed"
  <2> DEFINE t == Receive(session, Head(toUs))
  <2>1. Reads(h, ends, session, t) /\ Do(t)
    BY <1>1, <1>4, HearFrameReads
  <2>2. Heeds(h, ends, session) /\ Shown(h, ends) /\ h.said = host.said
    BY <1>1 DEF HearsFrom, Calm
  <2> HIDE DEF t
  <2>3. PICK at : /\ ReadsFrom(h, ends, session, t, at)
                  /\ session.heardAny /\ HostWindow <= GapPatience => at = Place(h, session)
    BY <2>1 DEF Reads
  <2>4. PICK p, q, last : p = Place(h, session) /\ q = Place(h, t) /\ last = Len(h.unacked)
    OBVIOUS
  <2>5. p \in 0 .. last /\ q \in 0 .. last /\ last \in Nat /\ at \in p .. q
    <3>1. Heeds(h, ends, t)
      BY <2>2, <2>3, ReadsHas
    <3>2. p \in 0 .. last /\ last \in Nat
      BY <2>2, <2>4, HeedsHas
    <3>3. q \in 0 .. last
      BY <2>4, <3>1, HeedsHas
    <3> QED
      BY <2>3, <2>4, <3>2, <3>3 DEF ReadsFrom
  <2>6. at \in 0 .. last /\ p <= at /\ at <= q
    BY <2>5
  <2>7. PICK a, b : a = ends[at] /\ b = ends[q]
    OBVIOUS
  <2>8. /\ a \in Nat /\ b \in Nat /\ ends[p] \in Nat
        /\ ends[p] <= a /\ a <= b /\ b <= host.said /\ host.said \in Nat
    <3>1. /\ \A i \in 0 .. last : ends[i] \in Nat /\ ends[i] <= host.said
          /\ \A i, j \in 0 .. last : i <= j => ends[i] <= ends[j]
          /\ host.said \in Nat
      BY <2>2, <2>4, HeedsHas
    <3> QED
      BY <2>5, <2>6, <2>7, <3>1
  <2>9. screen' = screen \o Upto(a, b) /\ screen \in Seq(Nat) /\ Latest(screen) \in Nat
    <3>1. session.data = <<>> /\ screen \in Seq(Nat)
      BY DEF TypeOK
    <3>2. t.data = <<>> \o Upto(a, b)
      BY <2>3, <2>4, <2>7, <3>1 DEF ReadsFrom
    <3>3. <<>> \o Upto(a, b) = Upto(a, b)
      <4>1. Upto(a, b) \in Seq(Nat)
        BY <2>8, UptoType
      <4> HIDE DEF Upto
      <4> QED
        BY <4>1, ConcatEmptySeq
    <3>4. screen' = screen \o t.data
      BY <2>1 DEF Do
    <3> QED
      BY <3>1, <3>2, <3>3, <3>4, LatestType
  <2>10. Latest(screen) <= ends[p] /\ (HostWindow <= GapPatience /\ screen # <<>> => Latest(screen) = a)
    <3>1. ShownTo(p, h, ends)
      BY <2>2, <2>4 DEF Shown
    <3>2. /\ Latest(screen) <= ends[p]
          /\ HostWindow <= GapPatience /\ screen # <<>> => Latest(screen) = ends[p]
          /\ screen # <<>> => session.heardAny
      BY <3>1 DEF ShownTo
    <3>3. HostWindow <= GapPatience /\ screen # <<>> => at = p
      BY <2>3, <2>4, <3>2
    <3> QED
      BY <2>7, <3>2, <3>3
  <2>11. CASE a = b
    <3>1. Upto(a, b) = <<>>
      BY <2>8, <2>11, UptoNone
    <3>2. screen' = screen
      BY <2>9, <3>1, ConcatEmptySeq
    <3> QED
      BY <1>2, <3>2 DEF Promised
  <2>12. CASE a # b
    <3>1. /\ a + 1 \in Latest(screen) + 1 .. host.said /\ b \in a + 1 .. host.said
      BY <2>8, <2>9, <2>10, <2>12
    <3>2. HostWindow > GapPatience \/ screen = <<>> \/ a + 1 = Latest(screen) + 1
      <4>1. HostWindow \in Nat /\ GapPatience \in Nat
        BY HostAssumption, HalfType, NumbersAssumption, LimitsAssumption
      <4>2. HostWindow > GapPatience \/ HostWindow <= GapPatience
        BY <4>1
      <4> QED
        BY <2>10, <4>2
    <3>3. screen' = screen \o Delivery!Run(a + 1, b)
      BY <2>8, <2>9, RunIsUpto
    <3>4. Delivery!Latest(screen) = Latest(screen)
      BY LatestIs
    <3>5. /\ keys' = keys /\ host'.typed = host.typed /\ host'.said = host.said
      BY <1>2
    <3>6. Delivery!Show
      BY <3>1, <3>2, <3>3, <3>4, <3>5 DEF Delivery!Show
    <3> QED
      BY <3>6
  <2> QED
    BY <2>11, <2>12
<1> QED
  BY <1>3, <1>4

\* The host takes typing after what it took before, if it takes any.
LEMMA HostHearsTakes ==
    ASSUME TypeOK, Typing, Typing', TypeOK', HostHears
    PROVE  Delivery!Take \/ UNCHANGED Promised
<1> DEFINE f == Head(toHost)
<1>1. /\ UNCHANGED <<session, keys, screen, first, losses>> /\ toHost' = Tail(toHost) /\ toHost # <<>>
  BY DEF HostHears
<1>2. host \in Hosts /\ toHost \in Seq(FramesToHost) /\ keys \in Nat
  BY DEF TypeOK
<1>3. f \in FramesToHost /\ f \in Range(toHost)
  BY <1>1, <1>2, TailHas
<1>4. CASE host'.typed = host.typed /\ host'.said = host.said
  BY <1>1, <1>4 DEF Promised
<1>5. CASE /\ f.kind = "run" /\ host.state \in {"up", "over"} /\ host' = HostTakes(f)
  <2>1. f \in RunsToHost /\ f.data \in Seq(Nat)
    <3>1. f \in RunsToHost
      BY <1>3, <1>5, FrameHas
    <3> QED
      BY <3>1 DEF RunsToHost
  <2> HIDE DEF f
  <2>2. /\ host'.state = host.state /\ host'.said = host.said
        /\ host'.typed = host.typed \/ host'.typed = host.typed \o f.data
    BY <1>5, <2>1, HostTakesHas
  <2>3. PICK got, now : got = Len(host.typed) /\ now = Len(host'.typed)
    OBVIOUS
  <2>4. host.state # "gone" /\ host'.state # "gone"
    BY <1>5, <2>2
  <2>5. host.typed \in Seq(Nat) /\ host'.typed \in Seq(Nat) /\ got \in Nat /\ now \in Nat
    <3>1. host.typed \in Seq(Nat) /\ host'.typed \in Seq(Nat)
      <4>1. host' \in Hosts
        BY DEF TypeOK
      <4> QED
        BY <1>2, <4>1 DEF Hosts
    <3> QED
      BY <2>3, <3>1, LenProperties
  <2>6. host.typed = Upto(0, got) /\ host'.typed = Upto(0, now)
    <3>1. host.typed = Upto(0, got)
      BY <2>3, <2>4 DEF Typing
    <3>2. host'.typed = Upto(0, now)
      BY <2>3, <2>4 DEF Typing
    <3> QED
      BY <3>1, <3>2
  <2>7. now <= keys
    <3>1. Laid(session', host'.acked, now, keys')
      BY <2>3, <2>4 DEF Typing, Sender
    <3>2. PICK left, ends : /\ left = Distance(session'.sequence, host'.acked)
                            /\ ends \in [0 .. left -> 0 .. keys'] /\ ends[0] = now
      BY <3>1 DEF Laid
    <3>3. 0 \in 0 .. left
      <4>1. left \in Nat
        <5>1. session' \in Sessions /\ host' \in Hosts
          BY DEF TypeOK
        <5>2. session'.sequence \in Numbers /\ host'.acked \in Numbers
          BY <5>1 DEF Sessions, Hosts
        <5>3. left \in 0 .. NumberSpan - 1
          BY <3>2, <5>2, DistanceType
        <5> QED
          BY <5>3
      <4> QED
        BY <4>1
    <3>4. now \in 0 .. keys
      BY <1>1, <3>2, <3>3
    <3> QED
      BY <1>2, <3>4
  <2>8. got <= now
    <3>1. CASE host'.typed = host.typed
      BY <2>3, <2>5, <3>1
    <3>2. CASE host'.typed = host.typed \o f.data
      <4>1. /\ Len(host.typed \o f.data) = Len(host.typed) + Len(f.data)
            /\ Len(f.data) \in Nat
        BY <2>1, <2>5, ConcatProperties, LenProperties
      <4>2. now = got + Len(f.data)
        BY <2>3, <3>2, <4>1
      <4> QED
        BY <2>5, <4>1, <4>2
    <3> QED
      BY <2>2, <3>1, <3>2
  <2>9. CASE got = now
    BY <1>1, <2>2, <2>6, <2>9 DEF Promised
  <2>10. CASE got # now
    <3>1. Delivery!Latest(host.typed) = got
      BY <2>5, <2>6, LatestIs, LatestOfAll
    <3>2. now \in got + 1 .. keys
      BY <1>2, <2>5, <2>7, <2>8, <2>10
    <3>3. Upto(0, got) \o Upto(got, now) = Upto(0, now)
      <4>1. 0 <= got /\ 0 \in Nat
        BY <2>5
      <4> QED
        BY <2>5, <2>8, <4>1, UptoSum
    <3>4. host'.typed = host.typed \o Delivery!Run(got + 1, now)
      BY <2>5, <2>6, <3>3, RunIsUpto
    <3>5. keys' = keys /\ screen' = screen /\ host'.said = host.said
      BY <1>1, <2>2
    <3>6. Delivery!Take
      BY <3>1, <3>2, <3>4, <3>5 DEF Delivery!Take
    <3> QED
      BY <3>6
  <2> QED
    BY <2>9, <2>10
<1>6. CASE /\ f.kind = "start" /\ host' = [host EXCEPT !.state = "up"]
  <2>1. host'.typed = host.typed /\ host'.said = host.said
    BY <1>2, <1>6 DEF Hosts
  <2> QED
    BY <1>4, <2>1
<1>7. CASE host' = Departed
  <2>1. host'.typed = host.typed /\ host'.said = host.said
    BY <1>7, DepartedHas
  <2> QED
    BY <1>4, <2>1
<1>8. CASE UNCHANGED host
  BY <1>4, <1>8
<1> QED
  BY <1>5, <1>6, <1>7, <1>8 DEF HostHears

\* What the host says is the next piece of text, or nothing.
LEMMA HostSaysNext ==
    ASSUME TypeOK, HostSpeaks \/ HostGrants \/ HostEnds \/ HostAcks
    PROVE  Delivery!Say \/ UNCHANGED Promised
<1>1. PICK m \in Messages : Say(m) /\ MaySay(m)
  BY HostMaySay
<1>2. /\ host'.typed = host.typed /\ host'.said = host.said + Len(m.data)
      /\ UNCHANGED <<keys, screen>>
  <2>1. host'.typed = host.typed /\ UNCHANGED <<keys, screen>>
    BY <1>1, SayHas DEF Say
  <2>2. host'.said = host.said + Len(m.data)
    BY <1>1, SayHas
  <2> QED
    BY <2>1, <2>2
<1>3. host.said \in Nat
  BY DEF TypeOK, Hosts
<1>4. Len(m.data) \in {0, 1}
  <2>1. m.data = <<>> \/ m.data = <<host.said + 1>>
    BY <1>1 DEF MaySay
  <2> QED
    BY <1>3, <2>1, SaidIs
<1>5. CASE Len(m.data) = 0
  <2>1. host'.said = host.said
    BY <1>2, <1>3, <1>5
  <2> QED
    BY <1>2, <2>1 DEF Promised
<1>6. CASE Len(m.data) = 1
  BY <1>2, <1>6 DEF Delivery!Say
<1> QED
  BY <1>4, <1>5, <1>6

LEMMA StepKeepsPromise ==
    ASSUME TypeOK, Typing, Hearing, Prompt, TypeOK', Typing', [Next]_vars
    PROVE  [Delivery!Next]_Promised
<1>1. CASE CallNode \/ HoldExpires \/ RetransmitDue \/ KeepaliveDue \/ Dead \/ Drop
  BY <1>1, QuietHere
<1>2. CASE TypeKey
  BY <1>2, TypeKeyTypes DEF Delivery!Next
<1>3. CASE HearFrame
  BY <1>3, HearFrameShows DEF Delivery!Next
<1>4. CASE HostHears
  BY <1>4, HostHearsTakes DEF Delivery!Next
<1>5. CASE HostSpeaks \/ HostGrants \/ HostEnds \/ HostAcks
  BY <1>5, HostSaysNext DEF Delivery!Next
<1>6. CASE HostRepeats
  <2>1. host \in Hosts
    BY DEF TypeOK
  <2>2. host'.typed = host.typed /\ host'.said = host.said /\ UNCHANGED <<keys, screen>>
    BY <1>6, <2>1 DEF HostRepeats, Hosts
  <2> QED
    BY <2>2 DEF Promised
<1>7. CASE HostStops \/ HostDies
  <2>1. host' = Departed /\ UNCHANGED <<keys, screen>>
    BY <1>7 DEF HostStops, HostDies
  <2>2. host'.typed = host.typed /\ host'.said = host.said
    BY <2>1, DepartedHas
  <2> QED
    BY <2>1, <2>2 DEF Promised
<1>8. CASE Wire
  BY <1>8 DEF Wire, LoseToHost, LoseToUs, SwapToUs, Promised
<1>9. CASE UNCHANGED vars
  BY <1>9 DEF vars, Promised
<1> QED
  BY <1>1, <1>2, <1>3, <1>4, <1>5, <1>6, <1>7, <1>8, <1>9 DEF Next, Here, Theirs

\* The circuit implements LatDelivery: what is typed reaches the host once, in
\* order and whole; what the host says is shown once and in order, and unless
\* the host may send more than GAP_PATIENCE messages unacknowledged, nothing of
\* it is missing after the first that arrived.
THEOREM KeepsThePromise == Spec /\ []Prompt => DeliversInOrder
<1>1. Init => TypeOK /\ Typing /\ Hearing
  BY InitTyping, InitHearing
<1>2. TypeOK /\ Typing /\ Hearing /\ Prompt /\ Prompt' /\ [Next]_vars
         => TypeOK' /\ Typing' /\ Hearing'
  BY NextStep, NextHears
<1>3. TypeOK /\ Typing /\ Hearing /\ Prompt /\ TypeOK' /\ Typing' /\ [Next]_vars
         => [Delivery!Next]_Promised
  BY StepKeepsPromise
<1>4. Init => Delivery!Init
  BY DEF Init, Host0, Delivery!Init
<1> QED
  BY <1>1, <1>2, <1>3, <1>4, PTL DEF Spec, DeliversInOrder, Delivery!Spec, Promised

-----------------------------------------------------------------------------
(* Sums.                                                                    *)

\* A sum is that of one number less, and the last.
LEMMA SumSteps ==
    ASSUME NEW n \in Nat, NEW f, \A i \in 1 .. n : f[i] \in Int
    PROVE  /\ Sum(f, 0) = 0
           /\ \A k \in 0 .. n : Sum(f, k) \in Int
           /\ \A k \in 1 .. n : Sum(f, k) = Sum(f, k - 1) + f[k]
<1> DEFINE Is(u, k) == u = [i \in 0 .. k |-> IF i = 0 THEN 0 ELSE u[i - 1] + f[i]]
           The(k) == CHOOSE u : Is(u, k)
<1>1. ASSUME NEW k \in 0 .. n PROVE \E u \in [0 .. k -> Int] : Is(u, k)
  <2> DEFINE Step == [i \in 1 .. k |-> [w \in Int |-> w + f[i]]]
  <2>1. k \in Nat /\ 0 \in Int /\ Step \in [1 .. k -> [Int -> Int]]
    OBVIOUS
  <2> HIDE DEF Step
  <2>2. PICK u \in [0 .. k -> Int] : u[0] = 0 /\ \A i \in 1 .. k : u[i] = Step[i][u[i - 1]]
    <3> DEFINE X == Int
               base == 0
    <3>1. base \in X /\ Step \in [1 .. k -> [X -> X]] /\ k \in Nat
      BY <2>1
    <3> HIDE DEF X, base
    <3>2. \E u \in [0 .. k -> X] : u[0] = base /\ \A i \in 1 .. k : u[i] = Step[i][u[i - 1]]
      BY <3>1, Runs
    <3> QED
      BY <3>2 DEF X, base
  <2>3. \A i \in 0 .. k : i = 0 \/ (i \in 1 .. k /\ i - 1 \in 0 .. k)
    OBVIOUS
  <2>4. \A i \in 1 .. k : u[i - 1] \in Int => Step[i][u[i - 1]] = u[i - 1] + f[i]
    BY DEF Step
  <2>5. \A i \in 0 .. k : u[i] = IF i = 0 THEN 0 ELSE u[i - 1] + f[i]
    BY <2>2, <2>3, <2>4
  <2>6. u = [i \in 0 .. k |-> u[i]]
    BY <2>2
  <2> QED
    BY <2>2, <2>5, <2>6
<1>2. ASSUME NEW k \in 0 .. n PROVE Is(The(k), k) /\ Sum(f, k) = The(k)[k]
  <2>1. Is(The(k), k)
    <3> HIDE DEF Is
    <3> QED
      BY <1>1
  <2> QED
    BY <2>1, Zenon DEF Sum
<1>3. ASSUME NEW k \in 0 .. n
      PROVE  The(k)[0] = 0 /\ \A i \in 1 .. k : The(k)[i] = The(k)[i - 1] + f[i]
  <2> DEFINE u == The(k)
  <2>1. u = [i \in 0 .. k |-> IF i = 0 THEN 0 ELSE u[i - 1] + f[i]]
    BY <1>2
  <2>2. 0 \in 0 .. k /\ \A i \in 1 .. k : i \in 0 .. k /\ i # 0
    OBVIOUS
  <2> HIDE DEF u
  <2>3. u[0] = 0 /\ \A i \in 1 .. k : u[i] = u[i - 1] + f[i]
    BY <2>1, <2>2
  <2> QED
    BY <2>3 DEF u
<1> HIDE DEF Is, The
<1> DEFINE T == {j \in Nat : \A k \in 0 .. n : j <= k => The(k)[j] \in Int /\ The(k)[j] = The(j)[j]}
<1>4. 0 \in T
  BY <1>3
<1>5. ASSUME NEW j \in Nat, j \in T PROVE j + 1 \in T
  <2> SUFFICES ASSUME NEW k \in 0 .. n, j + 1 <= k
               PROVE  The(k)[j + 1] \in Int /\ The(k)[j + 1] = The(j + 1)[j + 1]
    OBVIOUS
  <2>1. j \in 0 .. n /\ j + 1 \in 0 .. n /\ j + 1 \in 1 .. k /\ j + 1 \in 1 .. j + 1 /\ (j + 1) - 1 = j
    OBVIOUS
  <2>2. The(k)[j + 1] = The(k)[j] + f[j + 1] /\ The(j + 1)[j + 1] = The(j + 1)[j] + f[j + 1]
    BY <1>3, <2>1
  <2>3. The(k)[j] \in Int /\ The(k)[j] = The(j)[j] /\ The(j + 1)[j] = The(j)[j]
    BY <1>5, <2>1
  <2> QED
    BY <2>1, <2>2, <2>3
<1> HIDE DEF T
<1>6. Nat \subseteq T
  BY <1>4, <1>5, NumbersUpTo
<1>7. ASSUME NEW k \in 1 .. n PROVE Sum(f, k) = Sum(f, k - 1) + f[k]
  <2>1. k \in 0 .. n /\ k - 1 \in 0 .. n /\ k - 1 \in Nat /\ k \in 1 .. k
    OBVIOUS
  <2>2. The(k)[k] = The(k)[k - 1] + f[k]
    BY <1>3, <2>1
  <2>3. The(k)[k - 1] = The(k - 1)[k - 1]
    BY <1>6, <2>1 DEF T
  <2> QED
    BY <1>2, <2>1, <2>2, <2>3
<1>8. \A k \in 0 .. n : Sum(f, k) \in Int
  BY <1>2, <1>6 DEF T
<1> QED
  BY <1>2, <1>3, <1>7, <1>8

\* Up to n none is more in f than in g but one, and that by no more than d.
NoMore(n, f, g, p, d) ==
    \A i \in 1 .. n : f[i] <= g[i] \/ (i = p /\ f[i] <= g[i] + d)

\* Then the sum is not either.
LEMMA SumNoMore ==
    ASSUME NEW n \in Nat, NEW f, NEW g, \A i \in 1 .. n : f[i] \in Int /\ g[i] \in Int,
           NEW p, NEW d \in Nat, NoMore(n, f, g, p, d)
    PROVE  Sum(f, n) <= Sum(g, n) + d
<1> DEFINE T == {k \in Nat : k <= n => /\ Sum(f, k) <= Sum(g, k) + d
                                       /\ (\A i \in 1 .. k : i # p) => Sum(f, k) <= Sum(g, k)}
<1>1. 0 \in T
  BY SumSteps
<1>2. ASSUME NEW k \in Nat, k \in T PROVE k + 1 \in T
  <2> SUFFICES ASSUME k + 1 <= n
               PROVE  /\ Sum(f, k + 1) <= Sum(g, k + 1) + d
                      /\ (\A i \in 1 .. k + 1 : i # p) => Sum(f, k + 1) <= Sum(g, k + 1)
    OBVIOUS
  <2>1. k + 1 \in 1 .. n /\ k \in 0 .. n /\ (k + 1) - 1 = k
    OBVIOUS
  <2>2. Sum(f, k + 1) = Sum(f, k) + f[k + 1] /\ Sum(g, k + 1) = Sum(g, k) + g[k + 1]
    BY <2>1, SumSteps
  <2>3. Sum(f, k) \in Int /\ Sum(g, k) \in Int /\ f[k + 1] \in Int /\ g[k + 1] \in Int
    BY <2>1, SumSteps
  <2>4. /\ Sum(f, k) <= Sum(g, k) + d
        /\ (\A i \in 1 .. k : i # p) => Sum(f, k) <= Sum(g, k)
    BY <1>2, <2>1
  <2>5. CASE f[k + 1] <= g[k + 1]
    <3>1. (\A i \in 1 .. k + 1 : i # p) => \A i \in 1 .. k : i # p
      OBVIOUS
    <3> QED
      BY <2>2, <2>3, <2>4, <2>5, <3>1
  <2>6. CASE k + 1 = p /\ f[k + 1] <= g[k + 1] + d
    <3>1. \A i \in 1 .. k : i # p
      BY <2>6
    <3>2. ~ \A i \in 1 .. k + 1 : i # p
      BY <2>6
    <3> QED
      BY <2>2, <2>3, <2>4, <2>6, <3>1, <3>2
  <2> QED
    BY <2>1, <2>5, <2>6 DEF NoMore
<1> HIDE DEF T
<1>3. Nat \subseteq T
  BY <1>1, <1>2, NumbersUpTo
<1> QED
  BY <1>3 DEF T

LEMMA SumSame ==
    ASSUME NEW n \in Nat, NEW f, NEW g, \A i \in 1 .. n : f[i] \in Int /\ g[i] = f[i]
    PROVE  Sum(g, n) = Sum(f, n)
<1>1. Sum(f, n) <= Sum(g, n) + 0 /\ Sum(g, n) <= Sum(f, n) + 0
  <2>1. \A i \in 1 .. n : g[i] \in Int /\ f[i] <= g[i] /\ g[i] <= f[i]
    OBVIOUS
  <2>2. NoMore(n, f, g, 0, 0) /\ NoMore(n, g, f, 0, 0)
    BY <2>1 DEF NoMore
  <2>3. Sum(f, n) <= Sum(g, n) + 0
    BY <2>1, <2>2, SumNoMore
  <2>4. Sum(g, n) <= Sum(f, n) + 0
    BY <2>1, <2>2, SumNoMore
  <2> QED
    BY <2>3, <2>4
<1>2. n \in 0 .. n /\ \A i \in 1 .. n : g[i] \in Int
  OBVIOUS
<1>3. Sum(f, n) \in Int /\ Sum(g, n) \in Int
  BY <1>2, SumSteps
<1> QED
  BY <1>1, <1>3

\* After c of f come those of g, which sum up to the rest.
GoesOn(f, c, g, n) ==
    (\A i \in 1 .. c + n : f[i] \in Int) /\ \A i \in 1 .. n : g[i] = f[c + i]

LEMMA SumAfter ==
    ASSUME NEW c \in Nat, NEW n \in Nat, NEW f, NEW g, GoesOn(f, c, g, n)
    PROVE  Sum(g, n) = Sum(f, c + n) - Sum(f, c)
<1> DEFINE T == {k \in Nat : k <= n => Sum(g, k) = Sum(f, c + k) - Sum(f, c)}
<1>0. \A i \in 1 .. n : g[i] \in Int /\ c + i \in 1 .. c + n
  BY DEF GoesOn
<1>1. 0 \in T
  <2>1. c \in 0 .. c + n /\ c + 0 = c
    OBVIOUS
  <2>2. Sum(g, 0) = 0
    BY <1>0, SumSteps
  <2>3. Sum(f, c) \in Int
    <3>1. \A i \in 1 .. c : f[i] \in Int
      BY DEF GoesOn
    <3> QED
      BY <3>1, SumSteps
  <2> QED
    BY <2>1, <2>2, <2>3
<1>2. ASSUME NEW k \in Nat, k \in T PROVE k + 1 \in T
  <2> SUFFICES ASSUME k + 1 <= n PROVE Sum(g, k + 1) = Sum(f, c + (k + 1)) - Sum(f, c)
    OBVIOUS
  <2>1. /\ k + 1 \in 1 .. n /\ (k + 1) - 1 = k /\ k \in 0 .. n /\ c + n \in Nat
        /\ c + (k + 1) \in 1 .. c + n /\ (c + (k + 1)) - 1 = c + k /\ c + k \in 0 .. c + n /\ c \in 0 .. c + n
    OBVIOUS
  <2>2. Sum(g, k + 1) = Sum(g, k) + g[k + 1] /\ Sum(g, k) \in Int
    BY <1>0, <2>1, SumSteps
  <2>3. Sum(f, c + (k + 1)) = Sum(f, c + k) + f[c + (k + 1)] /\ Sum(f, c + k) \in Int /\ Sum(f, c) \in Int
    <3> DEFINE all == c + n
               at == c + (k + 1)
    <3>1. all \in Nat /\ at \in 1 .. all /\ at - 1 = c + k /\ c + k \in 0 .. all /\ c \in 0 .. all
      BY <2>1
    <3>2. \A i \in 1 .. all : f[i] \in Int
      BY DEF GoesOn
    <3> HIDE DEF all, at
    <3>3. Sum(f, at) = Sum(f, at - 1) + f[at] /\ Sum(f, c + k) \in Int /\ Sum(f, c) \in Int
      BY <3>1, <3>2, SumSteps
    <3> QED
      BY <3>1, <3>3 DEF at
  <2>4. g[k + 1] = f[c + (k + 1)] /\ g[k + 1] \in Int
    BY <1>0, <2>1 DEF GoesOn
  <2>5. Sum(g, k) = Sum(f, c + k) - Sum(f, c)
    BY <1>2, <2>1
  <2> QED
    BY <2>2, <2>3, <2>4, <2>5
<1> HIDE DEF T
<1>3. Nat \subseteq T
  BY <1>1, <1>2, NumbersUpTo
<1> QED
  BY <1>3 DEF T

\* The sum of natural numbers only grows.
LEMMA SumGrows ==
    ASSUME NEW n \in Nat, NEW f, \A i \in 1 .. n : f[i] \in Nat, NEW a \in 0 .. n, NEW b \in a .. n
    PROVE  /\ Sum(f, a) \in Nat /\ Sum(f, b) \in Nat /\ Sum(f, a) <= Sum(f, b)
           /\ a < b => Sum(f, a) + f[b] <= Sum(f, b)
<1> DEFINE T == {k \in Nat : k <= n => Sum(f, k) \in Nat /\ (a <= k => Sum(f, a) <= Sum(f, k))}
<1>0. \A i \in 1 .. n : f[i] \in Int
  OBVIOUS
<1>1. 0 \in T
  BY <1>0, SumSteps
<1>2. ASSUME NEW k \in Nat, k \in T PROVE k + 1 \in T
  <2> SUFFICES ASSUME k + 1 <= n
               PROVE  Sum(f, k + 1) \in Nat /\ (a <= k + 1 => Sum(f, a) <= Sum(f, k + 1))
    OBVIOUS
  <2>1. k + 1 \in 1 .. n /\ (k + 1) - 1 = k
    OBVIOUS
  <2>2. Sum(f, k + 1) = Sum(f, k) + f[k + 1] /\ Sum(f, a) \in Int
    BY <1>0, <2>1, SumSteps
  <2>3. Sum(f, k) \in Nat /\ (a <= k => Sum(f, a) <= Sum(f, k)) /\ f[k + 1] \in Nat
    BY <1>2, <2>1
  <2>4. a <= k \/ a = k + 1 \/ ~(a <= k + 1)
    OBVIOUS
  <2> QED
    BY <2>2, <2>3, <2>4
<1> HIDE DEF T
<1>3. Nat \subseteq T
  BY <1>1, <1>2, NumbersUpTo
<1>4. /\ Sum(f, a) \in Nat /\ Sum(f, b) \in Nat /\ Sum(f, a) <= Sum(f, b)
  BY <1>3 DEF T
<1>5. ASSUME a < b PROVE Sum(f, a) + f[b] <= Sum(f, b)
  <2>1. b - 1 \in Nat /\ b - 1 <= n /\ a <= b - 1 /\ b \in 1 .. n
    BY <1>5
  <2>2. Sum(f, a) <= Sum(f, b - 1) /\ Sum(f, b - 1) \in Nat
    BY <1>3, <2>1 DEF T
  <2>3. Sum(f, b) = Sum(f, b - 1) + f[b] /\ f[b] \in Nat
    BY <1>0, <2>1, SumSteps
  <2> QED
    BY <1>4, <2>2, <2>3
<1> QED
  BY <1>4, <1>5

\* Where all are nought, so is the sum.
LEMMA SumNone ==
    ASSUME NEW n \in Nat, NEW f, \A i \in 1 .. n : f[i] = 0
    PROVE  Sum(f, n) = 0
<1> DEFINE T == {k \in Nat : k <= n => Sum(f, k) = 0}
<1>0. \A i \in 1 .. n : f[i] \in Int
  OBVIOUS
<1>1. 0 \in T
  BY <1>0, SumSteps
<1>2. ASSUME NEW k \in Nat, k \in T PROVE k + 1 \in T
  <2> SUFFICES ASSUME k + 1 <= n PROVE Sum(f, k + 1) = 0
    OBVIOUS
  <2>1. k + 1 \in 1 .. n /\ (k + 1) - 1 = k
    OBVIOUS
  <2>2. Sum(f, k + 1) = Sum(f, k) + f[k + 1]
    BY <1>0, <2>1, SumSteps
  <2>3. Sum(f, k) = 0 /\ f[k + 1] = 0
    BY <1>2, <2>1
  <2> QED
    BY <2>2, <2>3
<1> HIDE DEF T
<1>3. Nat \subseteq T
  BY <1>1, <1>2, NumbersUpTo
<1> QED
  BY <1>3 DEF T

\* Where the first c are left out, the sum is that of the rest.
LEMMA SumFrom ==
    ASSUME NEW c \in Nat, NEW n \in Nat, c <= n, NEW f, \A i \in 1 .. n : f[i] \in Int,
           NEW g, \A i \in 1 .. n : g[i] = IF i <= c THEN 0 ELSE f[i]
    PROVE  Sum(g, n) = Sum(f, n) - Sum(f, c)
<1> DEFINE m == n - c
           rest == [i \in 1 .. m |-> f[c + i]]
<1>1. /\ m \in Nat /\ c + m = n /\ \A i \in 1 .. m : c + i \in 1 .. n /\ ~(c + i <= c)
      /\ c \in 0 .. n /\ n \in 0 .. n /\ \A i \in 1 .. c : i \in 1 .. n /\ i <= c
  OBVIOUS
<1>2. /\ \A i \in 1 .. n : g[i] \in Int
      /\ \A i \in 1 .. m : rest[i] = f[c + i] /\ rest[i] = g[c + i]
      /\ \A i \in 1 .. c : g[i] = 0
  <2>1. \A i \in 1 .. n : g[i] \in Int
    OBVIOUS
  <2>2. \A i \in 1 .. m : rest[i] = f[c + i]
    OBVIOUS
  <2>3. \A i \in 1 .. m : g[c + i] = f[c + i]
    BY <1>1
  <2>4. \A i \in 1 .. c : g[i] = 0
    BY <1>1
  <2> QED
    BY <2>1, <2>2, <2>3, <2>4
<1> HIDE DEF m, rest
<1>3. Sum(rest, m) = Sum(f, n) - Sum(f, c)
  <2>1. GoesOn(f, c, rest, m)
    BY <1>1, <1>2 DEF GoesOn
  <2> QED
    BY <1>1, <2>1, SumAfter
<1>4. Sum(rest, m) = Sum(g, n) - Sum(g, c)
  <2>1. GoesOn(g, c, rest, m)
    BY <1>1, <1>2 DEF GoesOn
  <2> QED
    BY <1>1, <2>1, SumAfter
<1>5. Sum(g, c) = 0
  BY <1>2, SumNone
<1>6. Sum(g, n) \in Int
  BY <1>1, <1>2, SumSteps
<1> QED
  BY <1>3, <1>4, <1>5, <1>6

-----------------------------------------------------------------------------
(* What this end may send, and what it believes of the host's credit.       *)

\* What messages spend, and the credit they carry, each in its place.
Spends(q) == [i \in 1 .. Len(q) |-> Spending(q[i])]
Credits(q) == [i \in 1 .. Len(q) |-> q[i].credit]

\* What has been granted and is still on what is kept, or not spent.
SpentOn(s) == Sum(Spends(s.kept), Len(s.kept))
Pay(s) == s.allowance + SpentOn(s)

\* The host, which has taken p of the credit on what is kept, is not believed
\* to have more than y and what it has not taken.
CreditOn(s) == Sum(Credits(s.kept), Len(s.kept))
Owes(s, p, y) == p <= CreditOn(s) /\ s.credit - CreditOn(s) + p <= y

\* Between s and t n of the host's slots, at least, were counted.
Counted(s, t, n) == \A p \in Int, y \in Nat : Owes(s, p, y + n) => Owes(t, p, y)

\* What is sent is reckoned as it goes.
Even(s, t) == Pay(t) = Pay(s) /\ Counted(s, t, 0)

\* What messages are worth is a number, and so are the sums.
LEMMA KeptSums ==
    ASSUME NEW q \in Seq(KeptMessages)
    PROVE  /\ \A i \in 1 .. Len(q) : Spends(q)[i] \in Nat /\ Credits(q)[i] \in Nat
           /\ \A i \in 1 .. Len(q) : Spends(q)[i] \in Int /\ Credits(q)[i] \in Int
           /\ \A k \in 0 .. Len(q) : Sum(Spends(q), k) \in Nat /\ Sum(Credits(q), k) \in Nat
<1>1. Len(q) \in Nat
  BY LenProperties
<1>2. ASSUME NEW i \in 1 .. Len(q) PROVE Spends(q)[i] \in Nat /\ Credits(q)[i] \in Nat
  <2>1. q[i] \in KeptMessages
    BY ElementOfSeq
  <2>2. q[i].credit \in Nat /\ Spending(q[i]) \in Nat
    BY <2>1 DEF KeptMessages, Spending
  <2> QED
    BY <2>2 DEF Spends, Credits
<1>3. \A i \in 1 .. Len(q) : Spends(q)[i] \in Int /\ Credits(q)[i] \in Int
  BY <1>2
<1>4. ASSUME NEW k \in 0 .. Len(q)
      PROVE  Sum(Spends(q), k) \in Nat /\ Sum(Credits(q), k) \in Nat
  <2>1. k \in k .. Len(q)
    BY <1>1
  <2>2. Sum(Spends(q), k) \in Nat
    BY <1>1, <1>2, <2>1, SumGrows
  <2>3. Sum(Credits(q), k) \in Nat
    BY <1>1, <1>2, <2>1, SumGrows
  <2> QED
    BY <2>2, <2>3
<1> QED
  BY <1>2, <1>3, <1>4

\* Where two begin alike, so do the sums.
LEMMA KeptAlike ==
    ASSUME NEW q \in Seq(KeptMessages), NEW r \in Seq(KeptMessages), NEW n \in 0 .. Len(q),
           n <= Len(r), \A i \in 1 .. n : r[i] = q[i]
    PROVE  Sum(Spends(r), n) = Sum(Spends(q), n) /\ Sum(Credits(r), n) = Sum(Credits(q), n)
<1>1. Len(q) \in Nat /\ Len(r) \in Nat /\ n \in Nat
  BY LenProperties
<1>2. ASSUME NEW i \in 1 .. n
      PROVE  /\ Spends(q)[i] \in Int /\ Credits(q)[i] \in Int
             /\ Spends(r)[i] = Spends(q)[i] /\ Credits(r)[i] = Credits(q)[i]
  <2>1. i \in 1 .. Len(q) /\ i \in 1 .. Len(r)
    BY <1>1
  <2> QED
    BY <2>1, KeptSums DEF Spends, Credits
<1>3. Sum(Spends(r), n) = Sum(Spends(q), n)
  BY <1>1, <1>2, SumSame
<1>4. Sum(Credits(r), n) = Sum(Credits(q), n)
  BY <1>1, <1>2, SumSame
<1> QED
  BY <1>3, <1>4

LEMMA KeptMore ==
    ASSUME NEW q \in Seq(KeptMessages), NEW k \in KeptMessages
    PROVE  LET r == Append(q, k)
           IN  /\ Sum(Spends(r), Len(r)) = Sum(Spends(q), Len(q)) + Spending(k)
               /\ Sum(Credits(r), Len(r)) = Sum(Credits(q), Len(q)) + k.credit
<1> DEFINE r == Append(q, k)
           n == Len(q)
<1>1. /\ r \in Seq(KeptMessages) /\ n \in Nat /\ Len(r) = n + 1 /\ r[n + 1] = k
      /\ \A i \in 1 .. n : r[i] = q[i]
  BY AppendProperties
<1> HIDE DEF r, n
<1>2. n \in 0 .. n /\ n <= Len(r) /\ n + 1 \in 1 .. n + 1 /\ (n + 1) - 1 = n /\ n + 1 \in Nat
  BY <1>1
<1>3. Sum(Spends(r), n) = Sum(Spends(q), n) /\ Sum(Credits(r), n) = Sum(Credits(q), n)
  BY <1>1, <1>2, KeptAlike DEF n
<1>4. \A i \in 1 .. n + 1 : Spends(r)[i] \in Int /\ Credits(r)[i] \in Int
  BY <1>1, KeptSums
<1>5. Sum(Spends(r), n + 1) = Sum(Spends(r), n) + Spends(r)[n + 1]
  BY <1>2, <1>4, SumSteps
<1>6. Sum(Credits(r), n + 1) = Sum(Credits(r), n) + Credits(r)[n + 1]
  BY <1>2, <1>4, SumSteps
<1>7. Spends(r)[n + 1] = Spending(k) /\ Credits(r)[n + 1] = k.credit
  BY <1>1, <1>2 DEF Spends, Credits
<1> QED
  BY <1>1, <1>3, <1>5, <1>6, <1>7 DEF r, n

LEMMA CreditHas ==
    ASSUME NEW s \in Sessions
    PROVE  /\ s.credit \in 0 .. MaxCredit /\ s.allowance \in Int /\ MaxCredit \in Nat
           /\ SpentOn(s) \in Nat /\ CreditOn(s) \in Nat /\ Pay(s) \in Int
<1>1. s.kept \in Seq(KeptMessages) /\ Len(s.kept) \in Nat
  BY SessionHas
<1>2. s.credit \in 0 .. MaxCredit /\ s.allowance \in Int /\ MaxCredit \in Nat
  BY NumbersAssumption DEF Sessions
<1>3. SpentOn(s) \in Nat /\ CreditOn(s) \in Nat
  BY <1>1, KeptSums DEF SpentOn, CreditOn
<1> QED
  BY <1>2, <1>3 DEF Pay

-----------------------------------------------------------------------------
(* Sending.                                                                 *)

LEMMA CountedOn ==
    ASSUME NEW r, NEW s, NEW t, NEW a \in Nat, NEW b \in Nat, Counted(r, s, a), Counted(s, t, b)
    PROVE  Counted(r, t, a + b)
<1> SUFFICES ASSUME NEW p \in Int, NEW y \in Nat, Owes(r, p, y + (a + b)) PROVE Owes(t, p, y)
  BY DEF Counted
<1>1. (y + b) + a = y + (a + b) /\ y + b \in Nat
  OBVIOUS
<1>2. Owes(s, p, y + b)
  BY <1>1 DEF Counted
<1> QED
  BY <1>2 DEF Counted

LEMMA EvenOn ==
    ASSUME NEW r, NEW s, NEW t, Even(r, s), Even(s, t)
    PROVE  Even(r, t)
<1>1. Counted(r, t, 0 + 0)
  BY CountedOn DEF Even
<1> QED
  BY <1>1 DEF Even

\* What has the same credit, the same allowance and the same kept is even.
LEMMA StillEven ==
    ASSUME NEW s \in Sessions, NEW t, t.kept = s.kept, t.credit = s.credit,
           t.allowance = s.allowance
    PROVE  Even(s, t)
<1>1. Pay(t) = Pay(s) /\ CreditOn(t) = CreditOn(s)
  BY DEF Pay, SpentOn, CreditOn
<1> QED
  BY <1>1 DEF Even, Counted, Owes

\* The credit on a message is added to what is on those kept.
LEMMA SlotFramePays ==
    ASSUME NEW r \in Sessions, NEW m \in Parts
    PROVE  LET t == SlotFrame(r, m)
           IN  /\ t \in Sessions /\ Pay(t) = Pay(r) /\ t.credit = r.credit
               /\ CreditOn(t) = CreditOn(r) + IF m.slots = 0 THEN 0 ELSE m.credit
<1> DEFINE t == SlotFrame(r, m)
           k == [sequence |-> IF m.slots = 0 THEN r.sequence ELSE NextNumber(r.sequence),
                 to |-> m.to, slots |-> m.slots, credit |-> m.credit, data |-> m.data]
<1>1. /\ t \in Sessions /\ k \in KeptMessages
      /\ t.kept = IF m.slots = 0 THEN r.kept ELSE Append(r.kept, k)
  BY SlotFrameFields
<1>2. t.credit = r.credit /\ t.allowance = r.allowance - Spending(m)
  BY DEF SlotFrame, Sessions
<1>3. /\ Spending(m) \in Int /\ m.credit \in Nat /\ (m.slots = 0 => Spending(m) = 0)
      /\ Spending(k) = Spending(m) /\ k.credit = m.credit
  BY DEF Spending, Parts
<1>4. r.kept \in Seq(KeptMessages) /\ SpentOn(r) \in Nat /\ CreditOn(r) \in Nat /\ r.allowance \in Int
  BY SessionHas, CreditHas
<1> HIDE DEF t, k
<1>5. CASE m.slots = 0
  <2>1. SpentOn(t) = SpentOn(r) /\ CreditOn(t) = CreditOn(r)
    BY <1>1, <1>5 DEF SpentOn, CreditOn
  <2> QED
    BY <1>1, <1>2, <1>3, <1>4, <1>5, <2>1 DEF Pay, t
<1>6. CASE m.slots # 0
  <2>1. SpentOn(t) = SpentOn(r) + Spending(k) /\ CreditOn(t) = CreditOn(r) + k.credit
    BY <1>1, <1>4, <1>6, KeptMore DEF SpentOn, CreditOn
  <2> QED
    BY <1>1, <1>2, <1>3, <1>4, <1>6, <2>1 DEF Pay, t
<1> QED
  BY <1>5, <1>6

LEMMA AcknowledgeEven ==
    ASSUME NEW s \in Sessions
    PROVE  Even(s, Acknowledge(s)) /\ Acknowledge(s) \in Sessions
<1>1. NoSlots \in Parts /\ NoSlots.slots = 0
  BY DEF NoSlots, Parts
<1> DEFINE t == SlotFrame(s, NoSlots)
<1>2. /\ t \in Sessions /\ Pay(t) = Pay(s) /\ t.credit = s.credit /\ CreditOn(t) = CreditOn(s) + 0
  BY <1>1, SlotFramePays
<1> HIDE DEF t
<1>3. Even(s, t)
  BY <1>2, CreditHas DEF Even, Counted, Owes
<1> QED
  BY <1>2, <1>3 DEF Acknowledge, t

\* What the host spends is counted, or granted again.
LEMMA SpendCounts ==
    ASSUME NEW s \in Sessions, NEW slots \in Nat
    PROVE  /\ Spend(s, slots) \in Sessions /\ Pay(Spend(s, slots)) = Pay(s)
           /\ Counted(s, Spend(s, slots), slots)
<1> DEFINE due == s.sinceGrant + 1 >= Regrant
           left == IF due \/ slots > s.credit THEN 0 ELSE s.credit - slots
           since == IF due THEN 0 ELSE s.sinceGrant + 1
           now == IF RunsLow(left) THEN MaxCredit ELSE left
           counted == [s EXCEPT !.sinceGrant = since, !.credit = now]
           m == GrantSlot(s, MaxCredit - left)
           t == Spend(s, slots)
<1>1. s.credit \in 0 .. MaxCredit /\ s.sinceGrant \in Int /\ s.remoteSlot \in Int /\ MaxCredit \in Nat
  BY NumbersAssumption DEF Sessions
<1>2. /\ left \in 0 .. MaxCredit /\ since \in Int /\ now \in 0 .. MaxCredit
      /\ left = 0 \/ left <= s.credit - slots
  BY <1>1
<1>3. t = IF RunsLow(left) THEN SlotFrame(counted, m) ELSE counted
  BY DEF Spend
<1>4. m \in Parts /\ m.slots = 1 /\ m.credit = MaxCredit - left
  BY <1>1, <1>2 DEF GrantSlot, Parts
<1>5. t \in Sessions
  BY SpendSends, KeepsIs
<1> HIDE DEF left, since, m, t
<1>6. /\ counted \in Sessions /\ counted.kept = s.kept /\ counted.allowance = s.allowance
      /\ counted.credit = now
  <2> HIDE DEF now
  <2> QED
    BY <1>2 DEF Sessions
<1> HIDE DEF counted
<1>7. CreditOn(counted) = CreditOn(s) /\ Pay(counted) = Pay(s) /\ CreditOn(s) \in Nat
  BY <1>6, CreditHas DEF CreditOn, Pay, SpentOn
<1>8. Pay(t) = Pay(s) /\ CreditOn(t) \in Nat /\ CreditOn(s) <= CreditOn(t)
      /\ t.credit - CreditOn(t) = left - CreditOn(s)
  <2>1. CASE RunsLow(left)
    <3>1. /\ Pay(t) = Pay(counted) /\ t.credit = MaxCredit
          /\ CreditOn(t) = CreditOn(counted) + (MaxCredit - left)
      BY <1>3, <1>4, <1>6, <2>1, SlotFramePays
    <3> QED
      BY <1>1, <1>2, <1>7, <3>1
  <2>2. CASE ~RunsLow(left)
    BY <1>2, <1>3, <1>6, <1>7, <2>2
  <2> QED
    BY <2>1, <2>2
<1>9. ASSUME NEW p \in Int, NEW y \in Nat, Owes(s, p, y + slots) PROVE Owes(t, p, y)
  <2>1. p <= CreditOn(s) /\ s.credit - CreditOn(s) + p <= y + slots
    BY <1>9 DEF Owes
  <2>2. p <= CreditOn(t)
    BY <1>7, <1>8, <2>1
  <2>3. left - CreditOn(s) + p <= y
    BY <1>1, <1>2, <1>7, <2>1
  <2> QED
    BY <1>8, <2>2, <2>3 DEF Owes
<1> QED
  BY <1>5, <1>8, <1>9 DEF Counted, t

\* Typing takes with it the credit it is said to have.
LEMMA DataFrameEven ==
    ASSUME NEW s \in Sessions, HasRoom(s), NEW most \in Nat \ {0}
    PROVE  Even(s, DataFrame(s, most)) /\ DataFrame(s, most) \in Sessions
<1> DEFINE bytes == Smaller(Len(s.typed), most * MaxSlot)
           slots == (bytes + MaxSlot - 1) \div MaxSlot
           after == SubSeq(s.typed, bytes + 1, Len(s.typed))
           chunk == SubSeq(s.typed, 1, bytes)
           rest  == [s EXCEPT !.typed = after, !.credit = MaxCredit]
           m     == DataSlots(s, slots, chunk)
           t     == DataFrame(s, most)
<1>1. s.typed \in Seq(Nat) /\ Len(s.typed) \in Nat \ {0} /\ s.credit \in 0 .. MaxCredit /\ MaxCredit \in Nat
  BY SessionHas, CreditHas DEF HasRoom, Holding
<1>2. bytes \in 1 .. Len(s.typed)
  <2>1. most * MaxSlot \in Nat \ {0}
    BY SomeRoom, LimitsAssumption
  <2> QED
    BY <1>1, <2>1 DEF Smaller
<1>3. slots \in Nat \ {0}
  <2> HIDE DEF bytes
  <2>1. bytes \in Nat \ {0} /\ MaxSlot \in Nat \ {0}
    BY <1>1, <1>2, LimitsAssumption
  <2> QED
    BY <2>1, SomeSlots
<1>4. t = SlotFrame(rest, m)
  BY DEF DataFrame
<1> HIDE DEF bytes, slots, t
<1>5. after \in Seq(Nat) /\ chunk \in Seq(Nat)
  BY <1>1, <1>2
<1>6. m \in Parts /\ m.slots # 0 /\ m.credit = MaxCredit - s.credit
  <2> HIDE DEF chunk
  <2>1. MaxCredit - s.credit \in Nat /\ s.remoteSlot \in Int
    BY <1>1 DEF Sessions
  <2> QED
    BY <1>3, <1>5, <2>1 DEF DataSlots, Parts
<1>7. /\ rest \in Sessions /\ rest.kept = s.kept /\ rest.allowance = s.allowance
      /\ rest.credit = MaxCredit
  <2> HIDE DEF after
  <2>1. after \in Seq(Nat) /\ MaxCredit \in 0 .. MaxCredit
    BY <1>1, <1>5
  <2> QED
    BY <2>1 DEF Sessions
<1> HIDE DEF rest, m
<1>8. /\ t \in Sessions /\ Pay(t) = Pay(rest) /\ t.credit = MaxCredit
      /\ CreditOn(t) = CreditOn(rest) + (MaxCredit - s.credit)
  BY <1>4, <1>6, <1>7, SlotFramePays
<1>9. Pay(rest) = Pay(s) /\ CreditOn(rest) = CreditOn(s) /\ CreditOn(s) \in Nat
  BY <1>7, CreditHas DEF Pay, SpentOn, CreditOn
<1>10. ASSUME NEW p \in Int, NEW y \in Nat, Owes(s, p, y + 0) PROVE Owes(t, p, y)
  <2>1. p <= CreditOn(s) /\ s.credit - CreditOn(s) + p <= y
    BY <1>10 DEF Owes
  <2> QED
    BY <1>1, <1>8, <1>9, <2>1 DEF Owes
<1>11. Even(s, t)
  BY <1>8, <1>9, <1>10 DEF Even, Counted
<1> QED
  BY <1>8, <1>11 DEF t

LEMMA SendOnceEven ==
    ASSUME NEW s \in Sessions
    PROVE  Even(s, SendOnce(s)) /\ SendOnce(s) \in Sessions
<1>1. CASE HasRoom(s) /\ s.allowance > 0
  <2>1. Smaller(s.allowance, SlotsPerMessage) \in Nat \ {0}
    BY <1>1, LimitsAssumption DEF Sessions, Smaller
  <2> QED
    BY <1>1, <2>1, DataFrameEven DEF SendOnce
<1>2. CASE ~(HasRoom(s) /\ s.allowance > 0)
  BY <1>2, StillEven DEF SendOnce
<1> QED
  BY <1>1, <1>2

LEMMA SendTypedEven ==
    ASSUME NEW s \in Sessions
    PROVE  Even(s, SendTyped(s)) /\ SendTyped(s) \in Sessions
<1>1. ASSUME NEW r \in Sessions PROVE Send2(r) \in Sessions /\ Even(r, Send2(r))
  <2>1. Even(r, SendOnce(r)) /\ SendOnce(r) \in Sessions
    BY SendOnceEven
  <2>2. Even(SendOnce(r), SendOnce(SendOnce(r))) /\ SendOnce(SendOnce(r)) \in Sessions
    BY <2>1, SendOnceEven
  <2> QED
    BY <2>1, <2>2, EvenOn DEF Send2
<1>2. ASSUME NEW r \in Sessions PROVE Send4(r) \in Sessions /\ Even(r, Send4(r))
  <2>1. Send2(r) \in Sessions /\ Even(r, Send2(r)) /\ Even(Send2(r), Send2(Send2(r)))
    BY <1>1
  <2> QED
    BY <1>1, <2>1, EvenOn DEF Send4
<1>3. ASSUME NEW r \in Sessions PROVE Send8(r) \in Sessions /\ Even(r, Send8(r))
  <2>1. Send4(r) \in Sessions /\ Even(r, Send4(r)) /\ Even(Send4(r), Send4(Send4(r)))
    BY <1>2
  <2> QED
    BY <1>2, <2>1, EvenOn DEF Send8
<1>4. Send8(s) \in Sessions /\ Even(s, Send8(s)) /\ Even(Send8(s), Send8(Send8(s)))
      /\ Send8(Send8(s)) \in Sessions
  BY <1>3
<1> QED
  BY <1>4, EvenOn DEF SendTyped

LEMMA ReleaseTypingEven ==
    ASSUME NEW s \in Sessions
    PROVE  Even(s, ReleaseTyping(s))
<1> DEFINE sent == SendTyped(s)
<1>1. sent \in Sessions /\ Even(s, sent)
  BY SendTypedEven
<1> HIDE DEF sent
<1>2. CASE HasRoom(sent)
  <2>1. Even(sent, DataFrame(sent, 1))
    BY <1>1, <1>2, DataFrameEven
  <2> QED
    BY <1>1, <1>2, <2>1, EvenOn DEF ReleaseTyping, sent
<1>3. CASE ~HasRoom(sent)
  BY <1>1, <1>3 DEF ReleaseTyping, sent
<1> QED
  BY <1>2, <1>3

\* Asking for a session grants the host all there is.
LEMMA AgreedEven ==
    ASSUME NEW s \in Sessions
    PROVE  Even(s, Agreed(s, Agreement))
<1> DEFINE r == [s EXCEPT !.theirs = "host"]
           asked == SlotFrame(r, AskSlot)
           t == [asked EXCEPT !.credit = MaxCredit, !.circuit = TRUE, !.state = "Asked"]
<1>1. Agreed(s, Agreement) = s \/ Agreed(s, Agreement) = t
  BY DEF Agreed, Agreement
<1>2. /\ r \in Sessions /\ r.kept = s.kept /\ r.allowance = s.allowance
  BY DEF Sessions, Names
<1> HIDE DEF r
<1>3. AskSlot \in Parts /\ AskSlot.slots = 1 /\ AskSlot.credit = MaxCredit
  BY NumbersAssumption DEF AskSlot, Parts
<1>4. /\ asked \in Sessions /\ Pay(asked) = Pay(r) /\ CreditOn(asked) = CreditOn(r) + MaxCredit
  BY <1>2, <1>3, SlotFramePays
<1> HIDE DEF asked
<1>5. t.kept = asked.kept /\ t.allowance = asked.allowance /\ t.credit = MaxCredit
  BY <1>4 DEF Sessions
<1> HIDE DEF t
<1>6. /\ Pay(t) = Pay(s) /\ CreditOn(t) = CreditOn(s) + MaxCredit
      /\ CreditOn(s) \in Nat /\ MaxCredit \in Nat
  BY <1>2, <1>4, <1>5, CreditHas DEF Pay, SpentOn, CreditOn
<1>7. ASSUME NEW p \in Int, NEW y \in Nat, Owes(s, p, y + 0) PROVE Owes(t, p, y)
  BY <1>5, <1>6, <1>7 DEF Owes
<1>8. Even(s, t)
  BY <1>6, <1>7 DEF Even, Counted
<1>9. Even(s, s)
  BY StillEven
<1> QED
  BY <1>1, <1>8, <1>9

\* What else the transport asks changes neither.
LEMMA AskedEven ==
    ASSUME NEW s \in Sessions
    PROVE  /\ Even(s, Call(s)) /\ Even(s, Retransmit(s)) /\ Even(s, Keepalive(s))
           /\ Even(s, PeerGone(s)) /\ Even(s, Close(s)) /\ Even(s, Stopped(s, StopMessage))
<1>0. Even(s, s)
  BY StillEven
<1>1. Even(s, Call(s))
  <2>1. LET t == Call(s)
        IN  t.kept = s.kept /\ t.credit = s.credit /\ t.allowance = s.allowance
    BY DEF Call, Sessions
  <2> QED
    BY <2>1, StillEven
<1>2. Even(s, Retransmit(s))
  <2> DEFINE t == Retransmit(s)
  <2>1. t.kept = s.kept /\ t.credit = s.credit /\ t.allowance = s.allowance
    BY DEF Retransmit, Sessions
  <2> HIDE DEF t
  <2>2. Even(s, t)
    BY <2>1, StillEven
  <2> QED
    BY <2>2 DEF t
<1>3. Even(s, Keepalive(s))
  BY <1>0, AcknowledgeEven DEF Keepalive
<1>4. Even(s, PeerGone(s))
  <2>1. LET t == PeerGone(s)
        IN  t.kept = s.kept /\ t.credit = s.credit /\ t.allowance = s.allowance
    BY DEF PeerGone, Sessions
  <2> QED
    BY <2>1, StillEven
<1>5. Even(s, Close(s))
  <2>1. LET t == Close(s)
        IN  t.kept = s.kept /\ t.credit = s.credit /\ t.allowance = s.allowance
    BY DEF Close, Sessions
  <2> QED
    BY <2>1, StillEven
<1>6. Even(s, Stopped(s, StopMessage))
  <2>1. LET t == Stopped(s, StopMessage)
        IN  t.kept = s.kept /\ t.credit = s.credit /\ t.allowance = s.allowance
    BY DEF Stopped, Sessions
  <2> QED
    BY <2>1, StillEven
<1> QED
  BY <1>1, <1>2, <1>3, <1>4, <1>5, <1>6

LEMMA WriteEven ==
    ASSUME NEW s \in Sessions, NEW bytes \in Seq(Nat)
    PROVE  Even(s, Write(s, bytes))
<1> DEFINE typed == s.typed \o bytes
           r == [s EXCEPT !.typed = typed]
<1>1. typed \in Seq(Nat)
  BY SessionHas, ConcatProperties
<1>2. Write(s, bytes) = s \/ Write(s, bytes) = SendTyped(r)
  BY DEF Write
<1> HIDE DEF typed
<1>3. /\ r \in Sessions /\ r.kept = s.kept /\ r.credit = s.credit /\ r.allowance = s.allowance
  BY <1>1 DEF Sessions
<1> HIDE DEF r
<1>4. Even(s, r) /\ Even(r, SendTyped(r)) /\ Even(s, s)
  BY <1>3, StillEven, SendTypedEven
<1> QED
  BY <1>2, <1>4, EvenOn

-----------------------------------------------------------------------------
(* Reading one message.                                                     *)

\* A message read pays what it grants, and as much is counted as is owed.
LEMMA TakeFreshCounts ==
    ASSUME NEW s \in Sessions, NEW m \in RunsToUs, NEW owed \in Nat
    PROVE  LET t == TakeFresh(s, m, owed)
           IN  Pay(t) = Pay(s) + m.credit /\ Counted(s, t, owed)
<1> DEFINE hears == Hear(s, m)
           says == Acknowledge(hears)
           reads == ReadSlots(says, m)
           missed == Missed(s, m)
           read == Spend(reads, owed + missed)
           over == [read EXCEPT !.ended = "session ended", !.state = "Closed"]
           open == [read EXCEPT !.state = IF @ = "Asked" THEN "Open" ELSE @]
           t == TakeFresh(s, m, owed)
<1>0. missed \in Nat
  BY MissedType
<1>6. t = IF m.ended THEN over ELSE IF m.data = <<>> THEN read ELSE SendTyped(open)
  BY DEF TakeFresh
<1>1. /\ hears \in Sessions /\ hears.kept = s.kept /\ hears.credit = s.credit
      /\ hears.allowance = s.allowance
  BY DEF Hear, Sessions, RunsToUs
<1> HIDE DEF hears, t, missed
<1>2. says \in Sessions /\ Even(s, says)
  <2>1. Even(s, hears)
    BY <1>1, StillEven
  <2> QED
    BY <1>1, <2>1, AcknowledgeEven, EvenOn
<1> HIDE DEF says
<1>3. /\ reads \in Sessions /\ reads.kept = says.kept /\ reads.credit = says.credit
      /\ reads.allowance = says.allowance + m.credit
  <2>1. reads \in Sessions
    BY <1>2, ReadSlotsKeeps, KeepsIs
  <2>2. /\ reads.kept = says.kept /\ reads.credit = says.credit
        /\ reads.allowance = says.allowance + m.credit
    BY <1>2 DEF ReadSlots, Sessions
  <2> QED
    BY <2>1, <2>2
<1> HIDE DEF reads
<1>4. m.credit \in Nat /\ owed + missed \in Nat
  BY <1>0 DEF RunsToUs
<1>5. read \in Sessions /\ Pay(read) = Pay(s) + m.credit /\ Counted(s, read, owed)
  <2>1. /\ read \in Sessions /\ Pay(read) = Pay(reads) /\ Counted(reads, read, owed + missed)
    BY <1>3, <1>4, SpendCounts
  <2>2. Pay(reads) = Pay(says) + m.credit /\ Counted(says, reads, 0)
    <3>1. SpentOn(reads) = SpentOn(says) /\ CreditOn(reads) = CreditOn(says)
      BY <1>3 DEF SpentOn, CreditOn
    <3>2. SpentOn(says) \in Nat /\ says.allowance \in Int
      BY <1>2, CreditHas
    <3> QED
      BY <1>3, <1>4, <3>1, <3>2 DEF Pay, Counted, Owes
  <2>3. Pay(says) = Pay(s) /\ Counted(s, says, 0)
    BY <1>2 DEF Even
  <2> HIDE DEF read
  <2>4. Counted(s, read, owed)
    <3> SUFFICES ASSUME NEW p \in Int, NEW y \in Nat, Owes(s, p, y + owed) PROVE Owes(read, p, y)
      BY DEF Counted
    <3>1. y + owed + 0 = y + owed /\ y + owed \in Nat /\ y + (owed + missed) \in Nat
      BY <1>0
    <3>2. Owes(reads, p, y + owed)
      BY <2>2, <2>3, <3>1 DEF Counted
    <3>3. Owes(reads, p, y + (owed + missed))
      <4>1. reads.credit - CreditOn(reads) + p \in Int
        BY <1>3, CreditHas
      <4> QED
        BY <1>0, <3>2, <4>1 DEF Owes
    <3> QED
      BY <2>1, <3>3 DEF Counted
  <2> QED
    BY <2>1, <2>2, <2>3, <2>4
<1> HIDE DEF read
<1>7. Even(read, over)
  <2>1. over.kept = read.kept /\ over.credit = read.credit /\ over.allowance = read.allowance
    BY <1>5 DEF Sessions
  <2> QED
    BY <1>5, <2>1, StillEven
<1>8. Even(read, open) /\ open \in Sessions
  <2>1. /\ open \in Sessions /\ open.kept = read.kept /\ open.credit = read.credit
        /\ open.allowance = read.allowance
    BY <1>5 DEF Sessions, States
  <2> QED
    BY <1>5, <2>1, StillEven
<1> HIDE DEF over, open
<1>9. Even(read, t)
  <2>1. Even(read, read) /\ Even(open, SendTyped(open))
    BY <1>5, <1>8, StillEven, SendTypedEven
  <2> QED
    BY <1>6, <1>7, <1>8, <2>1, EvenOn
<1>10. Counted(s, t, owed + 0)
  BY <1>5, <1>9, CountedOn DEF Even
<1> QED
  BY <1>5, <1>9, <1>10 DEF t, Even

\* A message heard already is spent again, and pays nothing.
LEMMA TakeCounts ==
    ASSUME NEW s \in Sessions, NEW m \in RunsToUs, NEW counted \in BOOLEAN
    PROVE  LET t == Take(s, m, counted)
           IN  /\ Pay(t) <= Pay(s) + IF Fresh(s, m) THEN m.credit ELSE 0
               /\ Counted(s, t, IF Fresh(s, m) /\ ~counted THEN m.slots ELSE 0)
<1> DEFINE t == Take(s, m, counted)
<1>0. m.slots \in Nat /\ m.credit \in Nat /\ Pay(s) \in Int
  BY CreditHas DEF RunsToUs
<1>1. CASE m.slots = 0
  <2>1. t = Hear(s, m)
    BY <1>1 DEF Take
  <2>2. t.kept = s.kept /\ t.credit = s.credit /\ t.allowance = s.allowance
    BY <2>1 DEF Hear, Sessions
  <2> HIDE DEF t
  <2>3. Pay(t) = Pay(s) /\ Counted(s, t, 0)
    BY <2>2, StillEven DEF Even
  <2> QED
    BY <1>0, <1>1, <2>3 DEF t
<1>2. CASE m.slots # 0 /\ ~Fresh(s, m)
  <2> DEFINE spent == Spend(s, m.slots)
  <2>1. t = Acknowledge(spent)
    BY <1>2 DEF Take, TakeAgain
  <2>2. spent \in Sessions /\ Pay(spent) = Pay(s) /\ Counted(s, spent, m.slots)
    BY <1>0, SpendCounts
  <2> HIDE DEF spent, t
  <2>3. Pay(t) = Pay(spent) /\ Counted(spent, t, 0)
    BY <2>1, <2>2, AcknowledgeEven DEF Even
  <2>4. Counted(s, spent, 0)
    <3> SUFFICES ASSUME NEW p \in Int, NEW y \in Nat, Owes(s, p, y + 0) PROVE Owes(spent, p, y)
      BY DEF Counted
    <3>1. s.credit - CreditOn(s) + p \in Int
      BY CreditHas
    <3>2. Owes(s, p, y + m.slots)
      BY <1>0, <3>1 DEF Owes
    <3> QED
      BY <2>2, <3>2 DEF Counted
  <2>5. Counted(s, t, 0 + 0)
    BY <2>3, <2>4, CountedOn
  <2> QED
    BY <1>0, <1>2, <2>2, <2>3, <2>5 DEF t
<1>3. CASE m.slots # 0 /\ Fresh(s, m)
  <2> DEFINE owed == IF counted THEN 0 ELSE m.slots
  <2>1. owed \in Nat /\ t = TakeFresh(s, m, owed)
    BY <1>0, <1>3 DEF Take
  <2> HIDE DEF t, owed
  <2>2. Pay(t) = Pay(s) + m.credit /\ Counted(s, t, owed)
    BY <2>1, TakeFreshCounts
  <2> QED
    BY <1>0, <1>3, <2>2 DEF t, owed
<1> QED
  BY <1>1, <1>2, <1>3

-----------------------------------------------------------------------------
(* What is coming from the host.                                            *)

\* What it has granted on messages that are not heard yet.
Coming(h, s) ==
    Sum(Credits(h.unacked), Len(h.unacked)) - Sum(Credits(h.unacked), Place(h, s))

\* A message of its is neither heard nor waits behind a gap.
Unheeded(h, s, i) == i > Place(h, s) /\ \A w \in s.early : w.sequence # h.unacked[i].sequence

\* The slots of those, which this end has not counted yet.
UnheededSlots(h, s) ==
    [i \in 1 .. Len(h.unacked) |-> IF Unheeded(h, s, i) THEN h.unacked[i].slots ELSE 0]
Uncounted(h, s) == Sum(UnheededSlots(h, s), Len(h.unacked))

\* Between s and t no more was granted to this end than the host did, and all
\* that came was counted.
Pays(h, s, t) == Pay(t) + Coming(h, t) <= Pay(s) + Coming(h, s)
Counts(h, s, t) ==
    \A p \in Int, y \in Nat : Owes(s, p, y + Uncounted(h, s)) => Owes(t, p, y + Uncounted(h, t))

LEMMA HostSums ==
    ASSUME NEW h \in Hosts
    PROVE  /\ Len(h.unacked) \in Nat
           /\ \A i \in 1 .. Len(h.unacked) :
                 /\ h.unacked[i] \in Messages /\ h.unacked[i].slots \in Nat
                 /\ Credits(h.unacked)[i] \in Nat /\ Credits(h.unacked)[i] = h.unacked[i].credit
           /\ \A s : /\ \A i \in 1 .. Len(h.unacked) :
                           UnheededSlots(h, s)[i] \in Nat /\ UnheededSlots(h, s)[i] \in Int
                     /\ Uncounted(h, s) \in Nat
                     /\ Place(h, s) \in 0 .. Len(h.unacked) => Coming(h, s) \in Nat
<1>1. h.unacked \in Seq(Messages) /\ Len(h.unacked) \in Nat
  <2>1. h.unacked \in Seq(Messages)
    BY DEF Hosts
  <2> QED
    BY <2>1, LenProperties
<1>2. ASSUME NEW i \in 1 .. Len(h.unacked)
      PROVE  /\ h.unacked[i] \in Messages /\ h.unacked[i].slots \in Nat
             /\ Credits(h.unacked)[i] \in Nat /\ Credits(h.unacked)[i] = h.unacked[i].credit
  <2>1. h.unacked[i] \in Messages
    BY <1>1, ElementOfSeq
  <2>2. h.unacked[i].credit \in Nat /\ h.unacked[i].slots \in Nat
    BY <2>1 DEF Messages
  <2> QED
    BY <2>1, <2>2 DEF Credits
<1>3. ASSUME NEW s
      PROVE  /\ \A i \in 1 .. Len(h.unacked) :
                   UnheededSlots(h, s)[i] \in Nat /\ UnheededSlots(h, s)[i] \in Int
             /\ Uncounted(h, s) \in Nat
             /\ Place(h, s) \in 0 .. Len(h.unacked) => Coming(h, s) \in Nat
  <2>1. \A i \in 1 .. Len(h.unacked) :
           UnheededSlots(h, s)[i] \in Nat /\ UnheededSlots(h, s)[i] \in Int
    <3> SUFFICES ASSUME NEW i \in 1 .. Len(h.unacked) PROVE UnheededSlots(h, s)[i] \in Nat
      OBVIOUS
    <3> QED
      BY <1>2 DEF UnheededSlots
  <2>2. Len(h.unacked) \in 0 .. Len(h.unacked) /\ Len(h.unacked) \in Len(h.unacked) .. Len(h.unacked)
    BY <1>1
  <2>3. Uncounted(h, s) \in Nat
    BY <1>1, <2>1, <2>2, SumGrows DEF Uncounted
  <2>4. ASSUME Place(h, s) \in 0 .. Len(h.unacked) PROVE Coming(h, s) \in Nat
    <3> DEFINE p == Place(h, s)
               n == Len(h.unacked)
               f == Credits(h.unacked)
    <3>1. p \in 0 .. n /\ n \in p .. n /\ n \in Nat
      BY <1>1, <2>4
    <3>2. \A i \in 1 .. n : f[i] \in Nat
      BY <1>2
    <3> HIDE DEF p, n, f
    <3>3. Sum(f, p) \in Nat /\ Sum(f, n) \in Nat /\ Sum(f, p) <= Sum(f, n)
      BY <3>1, <3>2, SumGrows
    <3> QED
      BY <3>3 DEF Coming, p, n, f
  <2> QED
    BY <2>1, <2>3, <2>4
<1> QED
  BY <1>1, <1>2, <1>3

LEMMA ReckonHas ==
    ASSUME NEW h, NEW ends, NEW s, Heeds(h, ends, s)
    PROVE  /\ s \in Sessions /\ h \in Hosts /\ Pay(s) \in Int /\ CreditOn(s) \in Nat
           /\ s.credit \in 0 .. MaxCredit /\ Coming(h, s) \in Nat /\ Uncounted(h, s) \in Nat
<1>1. s \in Sessions /\ h \in Hosts
  BY DEF Heeds
<1>2. Place(h, s) \in 0 .. Len(h.unacked)
  BY HeedsHas
<1>3. Coming(h, s) \in Nat /\ Uncounted(h, s) \in Nat
  BY <1>1, <1>2, HostSums
<1> QED
  BY <1>1, <1>3, CreditHas

LEMMA PaysOn ==
    ASSUME NEW h, NEW ends, NEW r, NEW s, NEW t, Heeds(h, ends, r), Heeds(h, ends, s), Heeds(h, ends, t),
           Pays(h, r, s), Pays(h, s, t)
    PROVE  Pays(h, r, t)
<1>1. /\ Pay(r) + Coming(h, r) \in Int /\ Pay(s) + Coming(h, s) \in Int
      /\ Pay(t) + Coming(h, t) \in Int
  BY ReckonHas
<1> QED
  BY <1>1 DEF Pays

LEMMA CountsOn ==
    ASSUME NEW h, NEW r, NEW s, NEW t, Counts(h, r, s), Counts(h, s, t)
    PROVE  Counts(h, r, t)
BY DEF Counts

\* With as much heard, and as much waiting, what is even is reckoned.
LEMMA EvenReckons ==
    ASSUME NEW h, NEW ends, NEW s, Heeds(h, ends, s), NEW t, Even(s, t),
           t.heard = s.heard, t.early = s.early
    PROVE  Pays(h, s, t) /\ Counts(h, s, t)
<1>1. Place(h, t) = Place(h, s)
  BY DEF Place
<1>2. Coming(h, t) = Coming(h, s) /\ UnheededSlots(h, t) = UnheededSlots(h, s)
  BY <1>1 DEF Coming, UnheededSlots, Unheeded
<1>3. Uncounted(h, t) = Uncounted(h, s)
  BY <1>2 DEF Uncounted
<1>4. Pay(s) + Coming(h, s) \in Int /\ Uncounted(h, s) \in Nat
  BY ReckonHas
<1>5. Pays(h, s, t)
  BY <1>2, <1>4 DEF Pays, Even
<1>6. Counts(h, s, t)
  <2> SUFFICES ASSUME NEW p \in Int, NEW y \in Nat, Owes(s, p, y + Uncounted(h, s))
               PROVE  Owes(t, p, y + Uncounted(h, s))
    BY <1>3 DEF Counts
  <2>1. y + Uncounted(h, s) \in Nat /\ (y + Uncounted(h, s)) + 0 = y + Uncounted(h, s)
    BY <1>4
  <2> QED
    BY <2>1 DEF Even, Counted
<1> QED
  BY <1>5, <1>6

\* t heeds one message more than s at the most, with no more than d slots.
HeedsBut(h, s, t, p, d) ==
    \A i \in 1 .. Len(h.unacked) :
       Unheeded(h, s, i) => Unheeded(h, t, i) \/ (i = p /\ h.unacked[i].slots <= d)

\* Those slots were counted.
LEMMA HeededCounts ==
    ASSUME NEW h \in Hosts, NEW s, NEW t, NEW p, NEW d \in Nat, Counted(s, t, d),
           s \in Sessions, HeedsBut(h, s, t, p, d)
    PROVE  Counts(h, s, t)
<1> DEFINE n == Len(h.unacked)
           f == UnheededSlots(h, s)
           g == UnheededSlots(h, t)
<1>1. n \in Nat /\ \A i \in 1 .. n : f[i] \in Int /\ g[i] \in Int
  BY HostSums
<1>2. ASSUME NEW i \in 1 .. n PROVE f[i] <= g[i] \/ (i = p /\ f[i] <= g[i] + d)
  <2>1. h.unacked[i].slots \in Nat
    BY HostSums
  <2>2. /\ f[i] = IF Unheeded(h, s, i) THEN h.unacked[i].slots ELSE 0
        /\ g[i] = IF Unheeded(h, t, i) THEN h.unacked[i].slots ELSE 0
    BY DEF UnheededSlots
  <2> HIDE DEF f, g
  <2> QED
    BY <2>1, <2>2 DEF HeedsBut
<1> HIDE DEF n, f, g
<1>3. Sum(f, n) <= Sum(g, n) + d
  <2>1. NoMore(n, f, g, p, d)
    BY <1>2 DEF NoMore
  <2> QED
    BY <1>1, <2>1, SumNoMore
<1>4. Uncounted(h, s) = Sum(f, n) /\ Uncounted(h, t) = Sum(g, n)
  BY DEF Uncounted, f, g, n
<1>5. Uncounted(h, s) \in Nat /\ Uncounted(h, t) \in Nat
  BY HostSums
<1> SUFFICES ASSUME NEW q \in Int, NEW y \in Nat, Owes(s, q, y + Uncounted(h, s))
             PROVE  Owes(t, q, y + Uncounted(h, t))
  BY DEF Counts
<1>6. Owes(s, q, (y + Uncounted(h, t)) + d)
  <2>1. s.credit - CreditOn(s) + q \in Int
    BY CreditHas
  <2> QED
    BY <1>3, <1>4, <1>5, <2>1 DEF Owes
<1> QED
  BY <1>5, <1>6 DEF Counted

-----------------------------------------------------------------------------
(* Reading on.                                                              *)

\* Where a new message is among those the host keeps.
LEMMA NewIsAt ==
    ASSUME NEW h, NEW ends, NEW s, Heeds(h, ends, s), NEW m, NewFrom(h, s, m)
    PROVE  LET i == Len(h.unacked) - Back(h, m.sequence)
           IN  /\ i \in 1 .. Len(h.unacked) /\ i > Place(h, s)
               /\ h.unacked[i].slots = m.slots /\ h.unacked[i].credit = m.credit
               /\ h.unacked[i].sequence = m.sequence
               /\ \A j \in 1 .. Len(h.unacked) : h.unacked[j].sequence = m.sequence => j = i
               /\ Back(h, m.sequence) = Back(h, s.heard) - 1 => i = Place(h, s) + 1
<1> DEFINE n == Len(h.unacked)
           b == Back(h, m.sequence)
           c == Back(h, s.heard)
           i == n - b
<1>1. /\ n \in Nat /\ c \in 0 .. n /\ b \in Nat /\ b < c
      /\ m.sequence \in Numbers /\ h.sequence \in Numbers /\ h \in Hosts
      /\ Matches(h, m) /\ Saying(h, ends)
  <2>1. m \in RunsToUs /\ Matches(h, m) /\ b < c /\ h \in Hosts /\ Saying(h, ends)
    BY DEF NewFrom, Heeds
  <2>2. m.sequence \in Numbers
    BY <2>1, FrameHas
  <2> QED
    BY <2>1, <2>2, HeedsHas
<1>2. Place(h, s) = n - c
  BY DEF Place
<1>3. \A j \in 1 .. n : Back(h, h.unacked[j].sequence) = n - j /\ h.unacked[j].sequence \in Numbers
  <2> SUFFICES ASSUME NEW j \in 1 .. n
               PROVE  Back(h, h.unacked[j].sequence) = n - j /\ h.unacked[j].sequence \in Numbers
    OBVIOUS
  <2>1. h.unacked[j] \in Messages
    BY <1>1, HostSums
  <2> QED
    BY <1>1, <2>1 DEF Saying, Messages
<1>4. i \in 1 .. n /\ i > 0
  <2> HIDE DEF b, c, n
  <2> QED
    BY <1>1
<1>5. h.unacked[i].slots = m.slots /\ h.unacked[i].credit = m.credit
  BY <1>1, <1>4 DEF Matches
<1> HIDE DEF n, b, c
<1>6. Back(h, h.unacked[i].sequence) = b
  BY <1>1, <1>3, <1>4
<1>7. h.unacked[i].sequence = m.sequence
  BY <1>1, <1>3, <1>4, <1>6, DistanceOwn DEF Back, b
<1>8. ASSUME NEW j \in 1 .. n, h.unacked[j].sequence = m.sequence PROVE j = i
  <2>1. n - j = b
    BY <1>3, <1>8 DEF b
  <2> QED
    BY <1>1, <2>1
<1>9. i > Place(h, s) /\ (b = c - 1 => i = Place(h, s) + 1)
  BY <1>1, <1>2
<1> QED
  BY <1>4, <1>5, <1>7, <1>8, <1>9 DEF n, b, c

\* What was granted on a message, and on those before it, comes with it.
LEMMA HeardPays ==
    ASSUME NEW h, NEW ends, NEW s, Heeds(h, ends, s), NEW m, NewFrom(h, s, m),
           NEW t \in Sessions, t.heard = m.sequence, Pay(t) <= Pay(s) + m.credit
    PROVE  Pays(h, s, t)
<1> DEFINE n == Len(h.unacked)
           f == Credits(h.unacked)
           i == n - Back(h, m.sequence)
           p == Place(h, s)
<1>1. /\ i \in 1 .. n /\ i > p /\ f[i] = m.credit /\ Place(h, t) = i
  <2>1. i \in 1 .. n /\ i > p /\ h.unacked[i].credit = m.credit
    BY NewIsAt
  <2>2. f[i] = h.unacked[i].credit
    BY <2>1, HostSums DEF Heeds
  <2>3. Place(h, t) = i
    BY DEF Place
  <2> QED
    BY <2>1, <2>2, <2>3
<1>2. n \in Nat /\ p \in 0 .. n /\ \A j \in 1 .. n : f[j] \in Nat
  BY HeedsHas, HostSums DEF Heeds
<1>3. Pay(s) \in Int /\ Pay(t) \in Int
  BY CreditHas DEF Heeds
<1>4. Coming(h, s) = Sum(f, n) - Sum(f, p) /\ Coming(h, t) = Sum(f, n) - Sum(f, i)
  BY <1>1 DEF Coming
<1> HIDE DEF n, f, i, p
<1>5. p < i /\ i \in p .. n /\ n \in i .. n /\ i \in 0 .. n /\ n \in Nat
  BY <1>1, <1>2
<1>6. /\ Sum(f, p) \in Nat /\ Sum(f, i) \in Nat /\ Sum(f, p) + f[i] <= Sum(f, i)
  BY <1>2, <1>5, SumGrows
<1>7. Sum(f, n) \in Nat
  BY <1>2, <1>5, SumGrows
<1>8. f[i] \in Nat
  BY <1>1, <1>2
<1> QED
  BY <1>1, <1>3, <1>4, <1>6, <1>7, <1>8 DEF Pays

\* When it is the next, it is counted, or waited and was counted then.
LEMMA HeardCounts ==
    ASSUME NEW h, NEW ends, NEW s, Heeds(h, ends, s), NEW m, NewFrom(h, s, m),
           Back(h, m.sequence) = Back(h, s.heard) - 1,
           NEW t, t.heard = m.sequence, t.early \subseteq s.early, NEW d \in Nat, Counted(s, t, d),
           m.slots <= d \/ \E w \in s.early : w.sequence = m.sequence
    PROVE  Counts(h, s, t)
<1> DEFINE n == Len(h.unacked)
           i == n - Back(h, m.sequence)
           p == Place(h, s)
<1>1. /\ i \in 1 .. n /\ i = p + 1 /\ h.unacked[i].slots = m.slots
      /\ h.unacked[i].sequence = m.sequence /\ Place(h, t) = i
  <2>1. Place(h, t) = i
    BY DEF Place
  <2> QED
    BY <2>1, NewIsAt
<1>2. n \in Nat /\ p \in 0 .. n /\ h \in Hosts /\ s \in Sessions
  BY HeedsHas DEF Heeds
<1>3. ASSUME NEW j \in 1 .. n, Unheeded(h, s, j)
      PROVE  Unheeded(h, t, j) \/ (j = i /\ h.unacked[j].slots <= d)
  <2>1. j > p /\ \A w \in s.early : w.sequence # h.unacked[j].sequence
    BY <1>3 DEF Unheeded
  <2>2. CASE j = i
    <3>1. \A w \in s.early : w.sequence # m.sequence
      BY <1>1, <2>1, <2>2
    <3> QED
      BY <1>1, <2>2, <3>1
  <2>3. CASE j # i
    <3>1. j > i
      BY <1>1, <1>2, <2>1, <2>3
    <3> QED
      BY <1>1, <2>1, <3>1 DEF Unheeded
  <2> QED
    BY <2>2, <2>3
<1> HIDE DEF i
<1>4. HeedsBut(h, s, t, i, d)
  BY <1>3 DEF HeedsBut
<1> QED
  BY <1>2, <1>4, HeededCounts

\* What is taken when it comes.
LEMMA TakeReckons ==
    ASSUME NEW h, NEW ends, NEW s, Heeds(h, ends, s), NEW m, MayTake(h, s, m)
    PROVE  LET t == Take(s, m, FALSE)
           IN  /\ Pays(h, s, t)
               /\ (NewFrom(h, s, m) => Back(h, m.sequence) = Back(h, s.heard) - 1)
                     => Counts(h, s, t)
<1> DEFINE t == Take(s, m, FALSE)
           fresh == Fresh(s, m)
           d == IF fresh THEN m.slots ELSE 0
<1>0. t.early = s.early /\ t.heard = IF NewFrom(h, s, m) THEN m.sequence ELSE s.heard
  <2> DEFINE counted == FALSE
             u == Take(s, m, counted)
  <2> HIDE DEF counted
  <2>1. u.early = s.early
    BY TakeReads
  <2>2. IF NewFrom(h, s, m) THEN u.heard = m.sequence ELSE u.heard = s.heard
    BY TakeReads
  <2> QED
    BY <2>1, <2>2 DEF counted
<1>1. /\ s \in Sessions /\ m \in RunsToUs /\ m.slots \in Nat /\ m.credit \in Nat /\ d \in Nat
      /\ t.early = s.early
  BY <1>0 DEF Heeds, MayTake, RunsToUs
<1>2. Pay(t) <= Pay(s) + (IF fresh THEN m.credit ELSE 0) /\ Counted(s, t, d)
  BY <1>1, TakeCounts
<1>3. t \in Sessions
  BY <1>1, TakeKeeps, KeepsIs
<1>4. fresh <=> NewFrom(h, s, m)
  BY <1>1, FreshIsNew DEF MayTake
<1>5. t.heard = IF NewFrom(h, s, m) THEN m.sequence ELSE s.heard
  BY <1>0
<1> HIDE DEF t, fresh
<1>6. CASE NewFrom(h, s, m)
  <2>1. Pays(h, s, t)
    BY <1>2, <1>3, <1>4, <1>5, <1>6, HeardPays
  <2>2. ASSUME Back(h, m.sequence) = Back(h, s.heard) - 1
        PROVE  Counts(h, s, t)
    <3>1. m.slots <= d
      BY <1>1, <1>4, <1>6
    <3>2. t.heard = m.sequence /\ t.early \subseteq s.early
      BY <1>1, <1>5, <1>6 DEF t
    <3> HIDE DEF d
    <3> QED
      BY <1>1, <1>2, <1>6, <2>2, <3>1, <3>2, HeardCounts
  <2> QED
    BY <1>6, <2>1, <2>2 DEF t
<1>7. CASE ~NewFrom(h, s, m)
  <2>1. Pay(t) <= Pay(s) /\ d = 0
    BY <1>1, <1>2, <1>4, <1>7, CreditHas
  <2>2. Place(h, t) = Place(h, s) /\ t.early = s.early
    BY <1>1, <1>5, <1>7 DEF Place, t
  <2>3. Coming(h, t) = Coming(h, s) /\ UnheededSlots(h, t) = UnheededSlots(h, s)
    BY <2>2 DEF Coming, UnheededSlots, Unheeded
  <2>4. Coming(h, s) \in Nat /\ Pay(t) \in Int /\ Pay(s) \in Int
    BY <1>1, <1>3, ReckonHas, CreditHas
  <2>5. Pays(h, s, t)
    BY <2>1, <2>3, <2>4 DEF Pays
  <2>6. HeedsBut(h, s, t, 0, 0)
    BY <2>2 DEF HeedsBut, Unheeded
  <2>7. Counts(h, s, t)
    BY <1>1, <1>2, <2>1, <2>6, HeededCounts DEF Heeds
  <2> QED
    BY <2>5, <2>7 DEF t
<1> QED
  BY <1>6, <1>7

\* What waited is taken when nothing older waits; it was counted when it came.
LEMMA TakeOldestReckons ==
    ASSUME NEW h, NEW ends, NEW s, Heeds(h, ends, s), NEW waiting, Oldest(h, s, waiting)
    PROVE  LET t == TakeOneOf(s, waiting)
           IN  /\ Pays(h, s, t)
               /\ (\A m \in waiting : Back(h, m.sequence) = Back(h, s.heard) - 1)
                     => Counts(h, s, t)
<1> DEFINE t == TakeOneOf(s, waiting)
           left == Unread(s)
           m == CHOOSE w \in waiting : TRUE
           others == left \ {m}
<1>0. left \in SUBSET s.early /\ others \in SUBSET s.early /\ s \in Sessions /\ h \in Hosts
  BY DEF Unread, Heeds
<1>1. CASE waiting = {}
  <2> DEFINE r == [s EXCEPT !.early = left]
  <2>1. t = r
    BY <1>1 DEF TakeOneOf
  <2>2. /\ r.early = left /\ r.heard = s.heard /\ r.kept = s.kept /\ r.credit = s.credit
        /\ r.allowance = s.allowance
    BY <1>0 DEF Sessions
  <2> HIDE DEF r, t, left
  <2>3. Pay(r) = Pay(s) /\ Counted(s, r, 0)
    BY <1>0, <2>2, StillEven DEF Even
  <2>4. Place(h, r) = Place(h, s)
    BY <2>2 DEF Place
  <2>5. Pay(r) + Coming(h, r) = Pay(s) + Coming(h, s) /\ Pay(s) + Coming(h, s) \in Int
    BY <2>3, <2>4, ReckonHas DEF Coming
  <2>6. HeedsBut(h, s, r, 0, 0)
    BY <1>0, <2>2, <2>4 DEF HeedsBut, Unheeded
  <2>7. Counts(h, s, r)
    BY <1>0, <2>3, <2>6, HeededCounts
  <2> QED
    BY <2>1, <2>5, <2>7 DEF Pays, t
<1>2. CASE waiting # {}
  <2> DEFINE r == [s EXCEPT !.early = others]
  <2>1. t = Take(r, m, TRUE)
    BY <1>2 DEF TakeOneOf
  <2>2. m \in waiting /\ m \in Unread(s) /\ m \in s.early
    BY <1>0, <1>2 DEF Oldest
  <2> HIDE DEF m
  <2>3. /\ r \in Sessions /\ HearsNoMore(s, r) /\ r.early = others /\ r.heard = s.heard
        /\ r.heardAny = s.heardAny
    BY <1>0, FewerWait
  <2>4. Even(s, r)
    <3>1. r.kept = s.kept /\ r.credit = s.credit /\ r.allowance = s.allowance
      BY <1>0 DEF Sessions
    <3> HIDE DEF r
    <3> QED
      BY <1>0, <3>1, StillEven
  <2> HIDE DEF r, t, others
  <2>5. Heeds(h, ends, r)
    BY <2>3, SameReads, ReadsHas DEF ReadsOn
  <2>6. /\ m \in RunsToUs /\ Matches(h, m) /\ Back(h, m.sequence) < Len(h.unacked)
        /\ Back(h, m.sequence) < Half /\ Back(h, m.sequence) < Back(h, s.heard)
    BY <2>2, WaitingHas
  <2>7. MayTake(h, r, m) /\ NewFrom(h, r, m) /\ NewFrom(h, s, m)
    BY <2>3, <2>6 DEF MayTake, NewFrom
  <2>8. t.early = others /\ t.heard = m.sequence /\ t \in Sessions
    <3>1. t.early = r.early /\ t.heard = m.sequence
      BY <2>1, <2>5, <2>7, TakeReads
    <3> QED
      BY <2>1, <2>3, <2>6, <3>1, TakeKeeps, KeepsIs
  <2>9. Pay(t) <= Pay(s) + m.credit /\ Counted(s, t, 0)
    <3>1. /\ Pay(t) <= Pay(r) + (IF Fresh(r, m) THEN m.credit ELSE 0)
          /\ Counted(r, t, IF Fresh(r, m) /\ ~TRUE THEN m.slots ELSE 0)
      BY <2>1, <2>3, <2>6, TakeCounts
    <3>2. Fresh(r, m)
      BY <2>5, <2>7, FreshIsNew DEF MayTake
    <3>3. Pay(r) = Pay(s) /\ Counted(s, r, 0) /\ 0 + 0 = 0
      BY <2>4 DEF Even
    <3>4. Counted(s, t, 0 + 0)
      BY <3>1, <3>2, <3>3, CountedOn
    <3> QED
      BY <3>1, <3>2, <3>3, <3>4
  <2>10. Pays(h, s, t)
    BY <2>7, <2>8, <2>9, HeardPays
  <2>11. ASSUME Back(h, m.sequence) = Back(h, s.heard) - 1 PROVE Counts(h, s, t)
    <3>1. t.early \subseteq s.early /\ \E w \in s.early : w.sequence = m.sequence
      BY <1>0, <2>2, <2>8
    <3> QED
      BY <2>7, <2>8, <2>9, <2>11, <3>1, HeardCounts
  <2> QED
    BY <2>2, <2>10, <2>11 DEF t
<1> QED
  BY <1>1, <1>2

\* What is next in line is the next.
LEMMA NextReckons ==
    ASSUME NEW h, NEW ends, NEW s, Heeds(h, ends, s)
    PROVE  LET t == TakeOneOf(s, NextInLine(s))
           IN  Pays(h, s, t) /\ Counts(h, s, t)
<1> DEFINE waiting == NextInLine(s)
<1>1. /\ Oldest(h, s, waiting)
      /\ \A m \in waiting : Back(h, m.sequence) = Back(h, s.heard) - 1
  BY NextOldest
<1> HIDE DEF waiting
<1> QED
  BY <1>1, TakeOldestReckons DEF waiting

\* So is what is nearest if that waits.
LEMMA NearestReckons ==
    ASSUME NEW h, NEW ends, NEW s, Heeds(h, ends, s)
    PROVE  LET t == TakeOneOf(s, Nearest(s))
           IN  Pays(h, s, t) /\ (Waits(h, s) => Counts(h, s, t))
<1> DEFINE waiting == Nearest(s)
<1>1. /\ Oldest(h, s, waiting)
      /\ Waits(h, s) => \A m \in waiting : Back(h, m.sequence) = Back(h, s.heard) - 1
  BY NearestOldest
<1> HIDE DEF waiting
<1> QED
  BY <1>1, TakeOldestReckons DEF waiting

\* Both are reckoned between s and t.
Reckons(h, s, t) == Pays(h, s, t) /\ Counts(h, s, t)

LEMMA ReckonsOn ==
    ASSUME NEW h, NEW ends, NEW r, NEW s, NEW t, Heeds(h, ends, r), Heeds(h, ends, s),
           Heeds(h, ends, t), Reckons(h, r, s), Reckons(h, s, t)
    PROVE  Reckons(h, r, t)
BY PaysOn, CountsOn DEF Reckons

LEMMA StaysReckons ==
    ASSUME NEW h, NEW ends, NEW s, Heeds(h, ends, s)
    PROVE  Reckons(h, s, s)
<1>1. Even(s, s)
  BY StillEven DEF Heeds
<1> QED
  BY <1>1, EvenReckons DEF Reckons

LEMMA Follow8Reckons ==
    ASSUME NEW h, NEW ends, NEW s, Calm(h, ends, s)
    PROVE  Reckons(h, s, Follow8(s)) /\ Calm(h, ends, Follow8(s))
<1>1. ASSUME NEW r, Calm(h, ends, r) PROVE Reckons(h, r, Follow(r)) /\ Calm(h, ends, Follow(r))
  <2>1. Heeds(h, ends, r)
    BY <1>1 DEF Calm
  <2>2. CASE r.state = "Closed"
    BY <1>1, <2>1, <2>2, StaysReckons DEF Follow
  <2>3. CASE r.state # "Closed"
    <3> DEFINE t == TakeOneOf(r, NextInLine(r))
    <3>1. ReadsOn(h, ends, r, t) /\ Tidy(h, t)
      BY <2>1, NextReads
    <3>2. Pays(h, r, t) /\ Counts(h, r, t)
      BY <2>1, NextReckons
    <3>3. Follow(r) = t
      BY <2>3 DEF Follow
    <3> HIDE DEF t
    <3>4. Heeds(h, ends, t)
      BY <2>1, <3>1, ReadsHas DEF ReadsOn
    <3> QED
      BY <3>1, <3>2, <3>3, <3>4 DEF Reckons, Calm
  <2> QED
    BY <2>2, <2>3
<1>2. ASSUME NEW r, Calm(h, ends, r) PROVE Reckons(h, r, Follow2(r)) /\ Calm(h, ends, Follow2(r))
  <2>1. Reckons(h, r, Follow(r)) /\ Calm(h, ends, Follow(r))
    BY <1>1, <1>2
  <2>2. Reckons(h, Follow(r), Follow(Follow(r))) /\ Calm(h, ends, Follow(Follow(r)))
    BY <1>1, <2>1
  <2> QED
    BY <1>2, <2>1, <2>2, ReckonsOn DEF Follow2, Calm
<1>3. ASSUME NEW r, Calm(h, ends, r) PROVE Reckons(h, r, Follow4(r)) /\ Calm(h, ends, Follow4(r))
  <2>1. Reckons(h, r, Follow2(r)) /\ Calm(h, ends, Follow2(r))
    BY <1>2, <1>3
  <2>2. Reckons(h, Follow2(r), Follow2(Follow2(r))) /\ Calm(h, ends, Follow2(Follow2(r)))
    BY <1>2, <2>1
  <2> QED
    BY <1>3, <2>1, <2>2, ReckonsOn DEF Follow4, Calm
<1>4. Reckons(h, s, Follow4(s)) /\ Calm(h, ends, Follow4(s))
  BY <1>3
<1>5. Reckons(h, Follow4(s), Follow4(Follow4(s))) /\ Calm(h, ends, Follow4(Follow4(s)))
  BY <1>3, <1>4
<1> QED
  BY <1>4, <1>5, ReckonsOn DEF Follow8, Calm

LEMMA DrainReckons ==
    ASSUME NEW h, NEW ends, NEW s, Heeds(h, ends, s)
    PROVE  Reckons(h, s, Drain(s)) /\ Calm(h, ends, Drain(s))
<1> DEFINE t == TakeOneOf(s, NextInLine(s))
<1>1. ReadsOn(h, ends, s, t) /\ Tidy(h, t) /\ Pays(h, s, t) /\ Counts(h, s, t)
  BY NextReads, NextReckons
<1>2. Drain(s) = Follow8(t)
  BY DEF Drain
<1> HIDE DEF t
<1>3. Calm(h, ends, t)
  BY <1>1, ReadsHas DEF ReadsOn, Calm
<1>4. Reckons(h, t, Follow8(t)) /\ Calm(h, ends, Follow8(t)) /\ Reckons(h, s, t)
  BY <1>1, <1>3, Follow8Reckons DEF Reckons
<1> QED
  BY <1>2, <1>3, <1>4, ReckonsOn DEF Calm

\* A gap that is given up is counted when there is none.
LEMMA GiveUpReckons ==
    ASSUME NEW h, NEW ends, NEW s, Heeds(h, ends, s)
    PROVE  Pays(h, s, GiveUp(s)) /\ (Waits(h, s) => Counts(h, s, GiveUp(s)))
<1> DEFINE t == TakeOneOf(s, Nearest(s))
<1>1. Pays(h, s, t) /\ (Waits(h, s) => Counts(h, s, t))
  BY NearestReckons
<1>2. Tidy(h, t) /\ \E at : ReadsFrom(h, ends, s, t, at)
  BY NearestReads
<1>3. GiveUp(s) = Follow8(t)
  BY DEF GiveUp
<1> HIDE DEF t
<1>4. Calm(h, ends, t)
  BY <1>2, ReadsHas DEF Calm
<1>5. Reckons(h, t, Follow8(t)) /\ Calm(h, ends, Follow8(t))
  BY <1>4, Follow8Reckons
<1>6. Pays(h, s, Follow8(t))
  BY <1>1, <1>4, <1>5, PaysOn DEF Reckons, Calm
<1>7. Waits(h, s) => Counts(h, s, Follow8(t))
  BY <1>1, <1>5, CountsOn DEF Reckons
<1> QED
  BY <1>3, <1>6, <1>7

\* What waits is counted as it comes.
LEMMA HoldReckons ==
    ASSUME NEW h, NEW ends, NEW s, Calm(h, ends, s), NEW m, NewFrom(h, s, m), s.heardAny
    PROVE  Reckons(h, s, Hold(s, m))
<1> DEFINE early == {w \in s.early : w.sequence # m.sequence} \cup {m}
           r == [s EXCEPT !.early = early]
           t == Spend(r, m.slots)
           i == Len(h.unacked) - Back(h, m.sequence)
<1>1. /\ s \in Sessions /\ Heeds(h, ends, s) /\ m \in RunsToUs /\ h \in Hosts
      /\ m.slots \in Nat
  BY DEF Calm, Heeds, NewFrom, RunsToUs
<1>2. early \in SUBSET RunsToUs
  BY <1>1 DEF Sessions
<1> HIDE DEF early
<1>3. /\ r \in Sessions /\ r.early = early /\ r.heard = s.heard /\ r.kept = s.kept
      /\ r.credit = s.credit /\ r.allowance = s.allowance
  BY <1>1, <1>2 DEF Sessions
<1>4. Hold(s, m) = t
  BY DEF Hold, early
<1> HIDE DEF r
<1>5. Pay(r) = Pay(s) /\ Counted(s, r, 0)
  BY <1>1, <1>3, StillEven DEF Even
<1>6. Sends(r, t) /\ t \in Sessions /\ Pay(t) = Pay(r) /\ Counted(r, t, m.slots)
  BY <1>1, <1>3, SpendSends, SpendCounts
<1> HIDE DEF t
<1>7. t.heard = s.heard /\ t.early = early
  BY <1>3, <1>6 DEF Sends, SameReading
<1>8. Place(h, t) = Place(h, s)
  BY <1>7 DEF Place
<1>9. Pays(h, s, t)
  <2>1. Pay(t) + Coming(h, t) = Pay(s) + Coming(h, s) /\ Pay(s) + Coming(h, s) \in Int
    BY <1>1, <1>5, <1>6, <1>8, ReckonHas DEF Coming
  <2> QED
    BY <2>1 DEF Pays
<1>10. Counted(s, t, m.slots)
  <2>1. Counted(s, t, 0 + m.slots) /\ 0 + m.slots = m.slots
    BY <1>1, <1>5, <1>6, CountedOn
  <2> QED
    BY <2>1
<1>11. /\ h.unacked[i].slots = m.slots
       /\ \A j \in 1 .. Len(h.unacked) : h.unacked[j].sequence = m.sequence => j = i
  BY <1>1, NewIsAt
<1> HIDE DEF i
<1>12. HeedsBut(h, s, t, i, m.slots)
  <2> SUFFICES ASSUME NEW j \in 1 .. Len(h.unacked), Unheeded(h, s, j), ~Unheeded(h, t, j)
               PROVE  j = i /\ h.unacked[j].slots <= m.slots
    BY DEF HeedsBut
  <2>1. PICK w \in early : w.sequence = h.unacked[j].sequence
    BY <1>7, <1>8 DEF Unheeded
  <2>2. w \notin s.early
    BY <2>1 DEF Unheeded
  <2>3. w = m
    BY <2>1, <2>2 DEF early
  <2>4. j = i
    BY <1>11, <2>1, <2>3
  <2> QED
    BY <1>1, <1>11, <2>4
<1>13. Counts(h, s, t)
  BY <1>1, <1>10, <1>12, HeededCounts
<1> QED
  BY <1>4, <1>9, <1>13 DEF Reckons

\* What comes after a gap is reckoned, and when the gap is given up too unless
\* the host may leave more than that unacknowledged.
LEMMA RunAfterGapReckons ==
    ASSUME NEW h, NEW ends, NEW s, Calm(h, ends, s), NEW m, NewFrom(h, s, m), s.heardAny
    PROVE  LET t == RunAfterGap(s, m)
           IN  Pays(h, s, t) /\ (HostWindow <= GapPatience => Counts(h, s, t))
<1> DEFINE held == Hold(s, m)
           t == RunAfterGap(s, m)
<1>1. Calm(h, ends, held) /\ Reckons(h, s, held)
  BY HoldReads, HoldReckons DEF Follows
<1>2. t = IF Cardinality(held.early) >= GapPatience THEN GiveUp(held)
          ELSE IF m.slots = 0 THEN held ELSE Acknowledge(held)
  BY DEF RunAfterGap
<1> HIDE DEF held, t
<1>3. Heeds(h, ends, s) /\ Heeds(h, ends, held) /\ held \in Sessions
  BY <1>1 DEF Calm, Heeds
<1>4. CASE Cardinality(held.early) >= GapPatience
  <2>1. t = GiveUp(held)
    BY <1>2, <1>4
  <2>2. Pays(h, held, t) /\ (Waits(h, held) => Counts(h, held, t))
    BY <1>3, <2>1, GiveUpReckons
  <2>3. Heeds(h, ends, t)
    BY <1>3, <2>1, GiveUpReads, ReadsHas
  <2>4. Pays(h, s, t)
    BY <1>1, <1>3, <2>2, <2>3, PaysOn DEF Reckons
  <2>5. ASSUME HostWindow <= GapPatience PROVE Counts(h, s, t)
    <3>1. Waits(h, held)
      BY <1>1, <1>4, <2>5, ManyWait
    <3> QED
      BY <1>1, <2>2, <3>1, CountsOn DEF Reckons
  <2> QED
    BY <2>4, <2>5 DEF t
<1>5. CASE ~(Cardinality(held.early) >= GapPatience) /\ m.slots = 0
  BY <1>1, <1>2, <1>5 DEF Reckons, t
<1>6. CASE ~(Cardinality(held.early) >= GapPatience) /\ m.slots # 0
  <2>1. t = Acknowledge(held) /\ Sends(held, t) /\ Even(held, t)
    BY <1>2, <1>3, <1>6, AcknowledgeSends, AcknowledgeEven
  <2>2. Heeds(h, ends, t) /\ t.heard = held.heard /\ t.early = held.early
    BY <1>3, <2>1, SendsReads
  <2>3. Reckons(h, held, t)
    BY <1>3, <2>1, <2>2, EvenReckons DEF Reckons
  <2>4. Reckons(h, s, t)
    BY <1>1, <1>3, <2>2, <2>3, ReckonsOn
  <2> QED
    BY <2>4 DEF Reckons, t
<1> QED
  BY <1>4, <1>5, <1>6

-----------------------------------------------------------------------------
(* What the far end acknowledges.                                           *)

\* r is s without the first n of the messages it kept.
CutAt(s, r, n) ==
    /\ r \in Sessions /\ n \in 0 .. Len(s.kept) /\ Len(r.kept) = Len(s.kept) - n
    /\ \A i \in 1 .. Len(r.kept) : r.kept[i] = s.kept[n + i]
    /\ r.sequence = s.sequence /\ r.credit = s.credit /\ r.allowance = s.allowance
    /\ r.heard = s.heard /\ r.heardAny = s.heardAny /\ r.early = s.early
    /\ r.outgoing = s.outgoing

\* The last of those is no newer than what is acknowledged.
LetGo(s, n, number) == n > 0 => ~Newer(s.kept[n].sequence, number)

LEMMA NoneCut ==
    ASSUME NEW s \in Sessions, NEW number
    PROVE  CutAt(s, s, 0) /\ LetGo(s, 0, number)
<1>1. Len(s.kept) \in Nat
  BY SessionHas
<1> QED
  BY <1>1 DEF CutAt, LetGo

LEMMA CutHeeds ==
    ASSUME NEW h, NEW ends, NEW s, Heeds(h, ends, s), NEW r, NEW n, CutAt(s, r, n)
    PROVE  Heeds(h, ends, r) /\ Place(h, r) = Place(h, s)
<1>1. /\ r \in Sessions /\ r.heard = s.heard /\ r.heardAny = s.heardAny /\ r.early = s.early
      /\ r.outgoing = s.outgoing
  BY DEF CutAt
<1>2. Reader(h, s)
  BY DEF Heeds
<1>3. Reader(h, r)
  BY <1>1, <1>2 DEF Reader
<1> QED
  BY <1>1, <1>3 DEF Heeds, Place

\* What is let go of is; then typing is sent.
LEMMA ForgetCuts ==
    ASSUME NEW s \in Sessions, NEW number \in Numbers
    PROVE  \E n, r : /\ CutAt(s, r, n) /\ LetGo(s, n, number)
                     /\ Sends(r, Forget(s, number)) /\ Even(r, Forget(s, number))
<1> DEFINE done == Acknowledged(s, number)
           n    == CHOOSE i \in done : \A j \in done : j <= i
           left == SubSeq(s.kept, n + 1, Len(s.kept))
           r    == [s EXCEPT !.kept = left, !.progress = TRUE, !.stalled = 0]
<1>0. s.kept \in Seq(KeptMessages) /\ Len(s.kept) \in Nat
  BY SessionHas
<1>1. CASE done = {}
  <2>1. Forget(s, number) = s
    BY <1>1 DEF Forget
  <2>2. Sends(s, s)
    BY AloneKeeps, <1>0 DEF Sends, SameReading, SaysHeard
  <2>3. Even(s, s)
    BY StillEven
  <2> QED
    BY <2>1, <2>2, <2>3, NoneCut
<1>2. CASE done # {}
  <2>1. n \in done
    <3>1. done \in SUBSET (0 .. Len(s.kept))
      BY <1>0 DEF Acknowledged
    <3>2. \E i \in done : \A j \in done : j <= i
      BY <1>0, <1>2, <3>1, LastPlace
    <3> HIDE DEF done
    <3> QED
      BY <3>2, Zenon
  <2>2. Forget(s, number) = SendTyped(r)
    BY <1>2 DEF Forget
  <2> HIDE DEF n
  <2>3. n \in 1 .. Len(s.kept) /\ ~Newer(s.kept[n].sequence, number)
    <3>1. n \in 1 .. Len(s.kept) /\ \A i \in 1 .. n : ~Newer(s.kept[i].sequence, number)
      BY <2>1 DEF Acknowledged
    <3>2. n \in 1 .. n
      BY <3>1
    <3> QED
      BY <3>1, <3>2
  <2>4. /\ left \in Seq(KeptMessages) /\ Len(left) = Len(s.kept) - n
        /\ \A i \in 1 .. Len(left) : left[i] = s.kept[n + i]
    <3>1. n + 1 \in 1 .. Len(s.kept) + 1
      BY <1>0, <2>3
    <3> QED
      BY <1>0, <2>3, <3>1, SubSeqProperties
  <2> HIDE DEF left, done
  <2>5. /\ r \in Sessions /\ r.kept = left /\ r.sequence = s.sequence /\ r.credit = s.credit
        /\ r.allowance = s.allowance /\ r.heard = s.heard /\ r.heardAny = s.heardAny
        /\ r.early = s.early /\ r.outgoing = s.outgoing
    <3> DEFINE none == 0
    <3>1. none \in Int
      OBVIOUS
    <3>2. r = [s EXCEPT !.kept = left, !.progress = TRUE, !.stalled = none]
      OBVIOUS
    <3> HIDE DEF none, r
    <3>3. [s EXCEPT !.kept = left, !.progress = TRUE, !.stalled = none] \in Sessions
      BY <2>4, <3>1 DEF Sessions
    <3> QED
      BY <3>2, <3>3 DEF Sessions
  <2> HIDE DEF r
  <2>6. CutAt(s, r, n) /\ LetGo(s, n, number)
    BY <1>0, <2>3, <2>4, <2>5 DEF CutAt, LetGo
  <2>7. Sends(r, SendTyped(r)) /\ Even(r, SendTyped(r))
    BY <2>5, SendTypedSends, SendTypedEven
  <2> QED
    BY <2>2, <2>6, <2>7
<1> QED
  BY <1>1, <1>2

\* What a message of the host's does to what is reckoned, after what it lets
\* go of.
LEMMA RunReckons ==
    ASSUME NEW h, NEW ends, NEW s, Calm(h, ends, s), NEW m, MayTake(h, s, m)
    PROVE  LET t == Run(s, m)
           IN  \E n, r : /\ CutAt(s, r, n) /\ LetGo(s, n, m.acknowledged) /\ Keeps(r, t)
                         /\ Pays(h, r, t)
                         /\ (HostWindow <= GapPatience /\ (s.heardAny \/ Place(h, t) <= 1))
                               => Counts(h, r, t)
<1> DEFINE known == Forget(s, m.acknowledged)
           taken == Take(known, m, FALSE)
           stays == ~IsOpen(s) \/ m.ours # s.theirs \/ m.theirs # Ours
           t == Run(s, m)
<1>1. /\ m \in RunsToUs /\ m.acknowledged \in Numbers /\ m.sequence \in Numbers
      /\ Heeds(h, ends, s) /\ s \in Sessions
  BY FrameHas DEF MayTake, Calm, Heeds
<1>2. t = IF stays THEN s ELSE IF AfterGap(known, m) THEN RunAfterGap(known, m) ELSE Drain(taken)
  BY DEF Run
<1> HIDE DEF stays, t
<1>3. PICK n, r : /\ CutAt(s, r, n) /\ LetGo(s, n, m.acknowledged)
                  /\ Sends(r, known) /\ Even(r, known)
  BY <1>1, ForgetCuts
<1> HIDE DEF known
<1>4. /\ Heeds(h, ends, r) /\ Place(h, r) = Place(h, s) /\ r \in Sessions
      /\ r.heardAny = s.heardAny /\ r.heard = s.heard /\ r.early = s.early
  BY <1>1, <1>3, CutHeeds DEF CutAt
<1>5. /\ Heeds(h, ends, known) /\ known.heard = r.heard /\ known.heardAny = r.heardAny
      /\ known.early = r.early /\ Keeps(r, known)
  BY <1>3, <1>4, SendsReads DEF Sends
<1>6. Reckons(h, r, known)
  BY <1>3, <1>4, <1>5, EvenReckons DEF Reckons
<1>7. /\ Calm(h, ends, known) /\ MayTake(h, known, m) /\ Place(h, known) = Place(h, s)
      /\ known \in Sessions
  BY <1>4, <1>5 DEF Calm, Tidy, MayTake, Place, Heeds
<1>8. /\ known.heard \in Numbers /\ h \in Hosts /\ h.sequence \in Numbers
      /\ Back(h, known.heard) \in Nat /\ Back(h, m.sequence) \in Nat /\ Back(h, known.heard) < Half
      /\ Len(h.unacked) \in Nat /\ Back(h, m.sequence) < Half /\ Place(h, known) \in Nat
  <2>1. /\ known.heard \in Numbers /\ h.sequence \in Numbers
        /\ Back(h, known.heard) \in 0 .. Len(h.unacked) /\ Back(h, m.sequence) \in Nat
        /\ Len(h.unacked) \in Nat /\ Len(h.unacked) < Half /\ Place(h, known) \in 0 .. Len(h.unacked)
    BY <1>1, <1>5, HeedsHas
  <2>2. h \in Hosts /\ Back(h, m.sequence) < Half
    BY <1>5, <1>7 DEF Heeds, MayTake
  <2> QED
    BY <2>1, <2>2, HalfType
<1>9. CASE stays
  <2>1. t = s /\ Reckons(h, s, s) /\ Keeps(s, s)
    BY <1>1, <1>2, <1>9, StaysReckons, AloneKeeps
  <2>2. CutAt(s, s, 0) /\ LetGo(s, 0, m.acknowledged)
    BY <1>1, NoneCut
  <2> QED
    BY <2>1, <2>2 DEF Reckons, t
<1>10. CASE ~stays /\ AfterGap(known, m)
  <2>1. known.heardAny /\ Newer(m.sequence, known.heard) /\ t = RunAfterGap(known, m)
    BY <1>2, <1>10 DEF AfterGap
  <2>2. Back(h, m.sequence) < Back(h, known.heard)
    BY <1>1, <1>8, <2>1, NewerIsLater DEF Back
  <2>3. NewFrom(h, known, m)
    BY <1>1, <1>7, <2>2 DEF NewFrom, MayTake
  <2>4. Pays(h, known, t) /\ (HostWindow <= GapPatience => Counts(h, known, t))
    BY <1>7, <2>1, <2>3, RunAfterGapReckons
  <2>5. Heeds(h, ends, t)
    <3>1. Reads(h, ends, known, t)
      BY <1>7, <2>1, <2>3, RunAfterGapReads
    <3> QED
      BY <1>5, <3>1, ReadsHas DEF Reads
  <2>6. Keeps(r, t)
    BY <1>1, <1>4, <1>5, <1>7, <2>1, RunAfterGapKeeps, KeepsOn
  <2>7. Pays(h, r, t) /\ (HostWindow <= GapPatience => Counts(h, r, t))
    BY <1>4, <1>5, <1>6, <2>4, <2>5, PaysOn, CountsOn DEF Reckons
  <2> QED
    BY <1>3, <2>6, <2>7 DEF t
<1>11. CASE ~stays /\ ~AfterGap(known, m)
  <2>1. t = Drain(taken)
    BY <1>2, <1>11
  <2>2. IF NewFrom(h, known, m)
        THEN ReadsFrom(h, ends, known, taken, Before(h, m)) /\ taken.heard = m.sequence
        ELSE ReadsOn(h, ends, known, taken)
    BY <1>5, <1>7, TakeReads
  <2>3. /\ Pays(h, known, taken)
        /\ (NewFrom(h, known, m) => Back(h, m.sequence) = Back(h, known.heard) - 1)
              => Counts(h, known, taken)
    BY <1>5, <1>7, TakeReckons
  <2>4. Keeps(known, taken)
    BY <1>1, <1>7, TakeKeeps
  <2> HIDE DEF taken
  <2>5. Heeds(h, ends, taken) /\ taken \in Sessions
    BY <1>5, <2>2, ReadsHas DEF ReadsOn, Heeds
  <2>6. Follows(h, ends, taken, t) /\ Reckons(h, taken, t) /\ Heeds(h, ends, t)
    BY <2>1, <2>5, DrainReads, DrainReckons DEF Calm
  <2>7. Pays(h, r, t)
    <3>1. Pays(h, r, taken)
      BY <1>4, <1>5, <1>6, <2>3, <2>5, PaysOn DEF Reckons
    <3> QED
      BY <1>4, <2>5, <2>6, <3>1, PaysOn DEF Reckons
  <2>8. Keeps(r, t)
    <3>1. Keeps(r, taken) /\ Keeps(taken, t)
      BY <1>4, <1>5, <2>1, <2>4, <2>5, KeepsOn, DrainKeeps
    <3> QED
      BY <1>4, <3>1, KeepsOn
  <2>9. ASSUME NewFrom(h, known, m), s.heardAny \/ Place(h, t) <= 1
        PROVE  Back(h, m.sequence) = Back(h, known.heard) - 1
    <3>1. Back(h, m.sequence) < Back(h, known.heard)
      BY <2>9 DEF NewFrom
    <3>2. CASE known.heardAny
      <4>1. Newer(m.sequence, known.heard)
        BY <1>1, <1>8, <3>1, NewerIsLater DEF Back
      <4>2. m.sequence = NextNumber(known.heard)
        BY <1>11, <3>2, <4>1 DEF AfterGap
      <4> QED
        BY <1>1, <1>8, <3>1, <4>2, NextIs
    <3>3. CASE ~known.heardAny
      <4>1. Place(h, t) <= 1
        BY <1>4, <1>5, <2>9, <3>3
      <4>2. Place(h, taken) <= Place(h, t) /\ Place(h, t) \in Nat
        <5>1. Place(h, taken) \in Place(h, taken) .. Place(h, t)
          BY <2>6 DEF Follows, ReadsOn, ReadsFrom
        <5>2. Place(h, t) \in 0 .. Len(h.unacked)
          BY <2>6, HeedsHas
        <5> QED
          BY <1>8, <5>1, <5>2
      <4>3. Place(h, taken) = Len(h.unacked) - Back(h, m.sequence)
        BY <2>2, <2>9 DEF Place
      <4>4. Place(h, known) = Len(h.unacked) - Back(h, known.heard)
        BY DEF Place
      <4> QED
        BY <1>8, <3>1, <4>1, <4>2, <4>3, <4>4
    <3> QED
      BY <3>2, <3>3
  <2>10. ASSUME s.heardAny \/ Place(h, t) <= 1 PROVE Counts(h, r, t)
    <3>1. Counts(h, known, taken)
      BY <2>3, <2>9, <2>10
    <3>2. Counts(h, r, known) /\ Counts(h, taken, t)
      BY <1>6, <2>6 DEF Reckons
    <3>3. Counts(h, r, taken)
      BY <3>1, <3>2, CountsOn
    <3> QED
      BY <3>2, <3>3, CountsOn
  <2> QED
    BY <1>3, <2>7, <2>8, <2>10 DEF t
<1> QED
  BY <1>9, <1>10, <1>11

-----------------------------------------------------------------------------
(* Both ends' reckoning.                                                    *)

\* How many of the messages kept the host has taken, what was spent on those
\* and the credit they carried.
Gone(h, s) == Len(s.kept) - Distance(s.sequence, h.acked)
Paid(h, s) == Sum(Spends(s.kept), Gone(h, s))
Had(h, s) == Sum(Credits(s.kept), Gone(h, s))

\* This end may send no more than the host has granted, and does not believe
\* the host has more credit than it has.
PaidUp(h, s) == Pay(s) - Paid(h, s) + Coming(h, s) <= h.granted
AllCounted(h, s) == Owes(s, Had(h, s), h.credit + Uncounted(h, s))

\* The host has taken some of what is kept, and nothing else is missing.
Within(h, s) == Distance(s.sequence, h.acked) <= Len(s.kept)

LEMMA GoneHas ==
    ASSUME NEW h, NEW ends, NEW s, Heeds(h, ends, s), Within(h, s)
    PROVE  /\ Gone(h, s) \in 0 .. Len(s.kept) /\ Len(s.kept) \in Nat
           /\ Paid(h, s) \in Nat /\ Had(h, s) \in Nat /\ Had(h, s) <= CreditOn(s)
           /\ h.acked \in Numbers /\ h.credit \in Nat /\ h.granted \in Int
<1>1. /\ s \in Sessions /\ h \in Hosts /\ h.acked \in Numbers /\ h.credit \in Nat /\ h.granted \in Int
  BY DEF Heeds, Hosts
<1>2. /\ s.kept \in Seq(KeptMessages) /\ Len(s.kept) \in Nat /\ Distance(s.sequence, h.acked) \in Nat
  BY <1>1, SessionHas
<1>3. Gone(h, s) \in 0 .. Len(s.kept)
  <2> HIDE DEF Distance
  <2> QED
    BY <1>2 DEF Gone, Within
<1> DEFINE n == Len(s.kept)
           f == Credits(s.kept)
           g == Gone(h, s)
<1>4. Paid(h, s) \in Nat /\ Sum(f, g) \in Nat /\ \A i \in 1 .. n : f[i] \in Nat
  BY <1>2, <1>3, KeptSums DEF Paid
<1>5. g \in 0 .. n /\ n \in g .. n /\ n \in Nat
  <2> HIDE DEF g, n
  <2> QED
    BY <1>2, <1>3 DEF g, n
<1> HIDE DEF n, f, g
<1>6. Sum(f, g) <= Sum(f, n)
  BY <1>4, <1>5, SumGrows
<1> QED
  BY <1>1, <1>2, <1>3, <1>4, <1>6 DEF Had, CreditOn, n, f, g

\* What has the same kept, the same number, the same credit and as much heard
\* is reckoned alike.
LEMMA AlikeReckoned ==
    ASSUME NEW h, NEW s, NEW t, t.kept = s.kept, t.sequence = s.sequence, t.credit = s.credit,
           t.allowance = s.allowance, t.heard = s.heard, t.early = s.early
    PROVE  /\ Within(h, s) => Within(h, t)
           /\ PaidUp(h, s) => PaidUp(h, t)
           /\ AllCounted(h, s) => AllCounted(h, t)
<1>1. Gone(h, t) = Gone(h, s) /\ (Within(h, s) => Within(h, t)) /\ Place(h, t) = Place(h, s)
  BY DEF Gone, Within, Place
<1>2. Paid(h, t) = Paid(h, s) /\ Had(h, t) = Had(h, s) /\ Pay(t) = Pay(s) /\ CreditOn(t) = CreditOn(s)
  BY <1>1 DEF Paid, Had, Pay, SpentOn, CreditOn
<1>3. Coming(h, t) = Coming(h, s) /\ UnheededSlots(h, t) = UnheededSlots(h, s)
  BY <1>1 DEF Coming, UnheededSlots, Unheeded
<1>4. Uncounted(h, t) = Uncounted(h, s)
  BY <1>3 DEF Uncounted
<1> QED
  BY <1>1, <1>2, <1>3, <1>4 DEF PaidUp, AllCounted, Owes

\* Letting go of what the host has taken changes nothing.
LEMMA CutReckoned ==
    ASSUME NEW h, NEW ends, NEW s, Heeds(h, ends, s), Within(h, s),
           NEW r, NEW n, CutAt(s, r, n), n <= Gone(h, s)
    PROVE  /\ Within(h, r)
           /\ PaidUp(h, s) => PaidUp(h, r)
           /\ AllCounted(h, s) => AllCounted(h, r)
<1>1. /\ s \in Sessions /\ s.kept \in Seq(KeptMessages) /\ Len(s.kept) \in Nat
      /\ Distance(s.sequence, h.acked) \in Nat
  BY SessionHas DEF Heeds, Hosts
<1>2. /\ r \in Sessions /\ n \in 0 .. Len(s.kept) /\ Len(r.kept) = Len(s.kept) - n
      /\ \A i \in 1 .. Len(r.kept) : r.kept[i] = s.kept[n + i]
      /\ r.sequence = s.sequence /\ r.credit = s.credit /\ r.allowance = s.allowance
      /\ r.heard = s.heard /\ r.early = s.early
  BY DEF CutAt
<1>3. /\ Gone(h, s) \in 0 .. Len(s.kept) /\ Paid(h, s) \in Nat /\ Had(h, s) \in Nat
  BY GoneHas
<1>4. Gone(h, r) = Gone(h, s) - n /\ n \in Nat /\ Gone(h, r) \in 0 .. Len(r.kept) /\ Len(r.kept) \in Nat
  <2> DEFINE d == Distance(s.sequence, h.acked)
  <2>1. Gone(h, r) = (Len(s.kept) - n) - d /\ Gone(h, s) = Len(s.kept) - d
    BY <1>2 DEF Gone
  <2> HIDE DEF d
  <2> QED
    BY <1>1, <1>2, <1>3, <2>1 DEF d
<1>5. Within(h, r)
  <2> DEFINE d == Distance(s.sequence, h.acked)
  <2>1. Gone(h, r) = Len(r.kept) - d
    BY <1>2 DEF Gone
  <2>2. d <= Len(r.kept)
    <3> HIDE DEF d
    <3> QED
      BY <1>1, <1>4, <2>1 DEF d
  <2> QED
    BY <1>2, <2>2 DEF Within
<1>6. ASSUME NEW k \in 0 .. Len(r.kept)
      PROVE  /\ Sum(Spends(r.kept), k) = Sum(Spends(s.kept), n + k) - Sum(Spends(s.kept), n)
             /\ Sum(Credits(r.kept), k) = Sum(Credits(s.kept), n + k) - Sum(Credits(s.kept), n)
  <2>1. k \in Nat /\ n + k \in 0 .. Len(s.kept)
    BY <1>1, <1>2, <1>4
  <2>2. \A i \in 1 .. n + k : Spends(s.kept)[i] \in Int /\ Credits(s.kept)[i] \in Int
    <3>1. \A i \in 1 .. n + k : i \in 1 .. Len(s.kept)
      BY <1>1, <1>4, <2>1
    <3> QED
      BY <1>1, <3>1, KeptSums
  <2>3. \A i \in 1 .. k : /\ Spends(r.kept)[i] = Spends(s.kept)[n + i]
                          /\ Credits(r.kept)[i] = Credits(s.kept)[n + i]
    <3> SUFFICES ASSUME NEW i \in 1 .. k
                 PROVE  /\ Spends(r.kept)[i] = Spends(s.kept)[n + i]
                        /\ Credits(r.kept)[i] = Credits(s.kept)[n + i]
      OBVIOUS
    <3>1. i \in 1 .. Len(r.kept) /\ n + i \in 1 .. Len(s.kept)
      BY <1>1, <1>2, <1>4, <2>1
    <3> QED
      BY <1>2, <3>1 DEF Spends, Credits
  <2> DEFINE fs == Spends(s.kept)
             gs == Spends(r.kept)
             fc == Credits(s.kept)
             gc == Credits(r.kept)
  <2>4. /\ \A i \in 1 .. n + k : fs[i] \in Int /\ fc[i] \in Int
        /\ \A i \in 1 .. k : gs[i] = fs[n + i] /\ gc[i] = fc[n + i]
    BY <2>2, <2>3
  <2> HIDE DEF fs, gs, fc, gc
  <2>5. GoesOn(fs, n, gs, k) /\ GoesOn(fc, n, gc, k)
    BY <2>4 DEF GoesOn
  <2>6. /\ Sum(gs, k) = Sum(fs, n + k) - Sum(fs, n)
        /\ Sum(gc, k) = Sum(fc, n + k) - Sum(fc, n)
    BY <1>4, <2>1, <2>5, SumAfter
  <2> QED
    BY <2>6 DEF fs, gs, fc, gc
<1> DEFINE a == Sum(Spends(s.kept), n)
           b == Sum(Credits(s.kept), n)
<1>7. a \in Nat /\ b \in Nat
  BY <1>1, <1>2, KeptSums
<1>8. SpentOn(r) = SpentOn(s) - a /\ CreditOn(r) = CreditOn(s) - b
  <2>1. Len(r.kept) \in 0 .. Len(r.kept) /\ n + Len(r.kept) = Len(s.kept)
    BY <1>1, <1>2, <1>4
  <2> QED
    BY <1>6, <2>1 DEF SpentOn, CreditOn
<1>9. Paid(h, r) = Paid(h, s) - a /\ Had(h, r) = Had(h, s) - b
  <2>1. n + Gone(h, r) = Gone(h, s)
    <3> HIDE DEF Gone
    <3> QED
      BY <1>1, <1>3, <1>4
  <2> QED
    BY <1>4, <1>6, <2>1 DEF Paid, Had
<1>10. /\ Coming(h, r) = Coming(h, s) /\ Uncounted(h, r) = Uncounted(h, s)
       /\ Coming(h, s) \in Nat /\ Uncounted(h, s) \in Nat
  <2>1. Place(h, r) = Place(h, s)
    BY <1>2 DEF Place
  <2>2. Coming(h, r) = Coming(h, s) /\ UnheededSlots(h, r) = UnheededSlots(h, s)
    BY <1>2, <2>1 DEF Coming, UnheededSlots, Unheeded
  <2> QED
    BY <2>2, ReckonHas DEF Uncounted
<1> HIDE DEF a, b
<1>11. /\ s.credit \in Int /\ s.allowance \in Int /\ SpentOn(s) \in Nat /\ CreditOn(s) \in Nat
  BY <1>1, CreditHas
<1>12. PaidUp(h, s) => PaidUp(h, r)
  BY <1>2, <1>3, <1>7, <1>8, <1>9, <1>10, <1>11 DEF PaidUp, Pay
<1>13. AllCounted(h, s) => AllCounted(h, r)
  <2> SUFFICES ASSUME AllCounted(h, s) PROVE AllCounted(h, r)
    OBVIOUS
  <2> DEFINE y == h.credit + Uncounted(h, s)
  <2>1. Had(h, s) <= CreditOn(s) /\ s.credit - CreditOn(s) + Had(h, s) <= y
    BY DEF AllCounted, Owes
  <2>2. y \in Int
    BY <1>10, GoneHas
  <2>3. h.credit + Uncounted(h, r) = y /\ r.credit = s.credit
    BY <1>2, <1>10
  <2> HIDE DEF y
  <2>4. s.credit \in Int /\ CreditOn(s) \in Int /\ Had(h, s) \in Int /\ b \in Int
    BY <1>3, <1>7, <1>11
  <2>5. /\ Had(h, s) - b <= CreditOn(s) - b
        /\ s.credit - (CreditOn(s) - b) + (Had(h, s) - b) <= y
    BY <2>1, <2>2, <2>4, CutAlike
  <2> QED
    BY <1>8, <1>9, <2>3, <2>5 DEF AllCounted, Owes
<1> QED
  BY <1>5, <1>12, <1>13

\* What was kept still is, and everything sent since has taken a number.
Longer(s, t) ==
    /\ Sent(s, t) >= 0
    /\ \A i \in 1 .. Len(s.kept) : t.kept[i] = s.kept[i]
    /\ \A x \in Numbers :
          Distance(s.sequence, x) + Sent(s, t) < NumberSpan =>
             Distance(t.sequence, x) = Distance(s.sequence, x) + Sent(s, t)

LEMMA KeepsLonger ==
    ASSUME NEW r, NEW t, Keeps(r, t), NEW s, s.kept = r.kept, s.sequence = r.sequence
    PROVE  Longer(s, t)
BY DEF Keeps, Longer, Sent

\* What some of a handler does, that reckons right, leaves both right.
LEMMA KeepsReckoned ==
    ASSUME NEW h, NEW ends, NEW r, Heeds(h, ends, r), Within(h, r),
           NEW t, Heeds(h, ends, t), Longer(r, t), Len(t.kept) < Half
    PROVE  /\ Within(h, t)
           /\ PaidUp(h, r) /\ Pays(h, r, t) => PaidUp(h, t)
           /\ AllCounted(h, r) /\ Counts(h, r, t) => AllCounted(h, t)
<1> DEFINE d == Distance(r.sequence, h.acked)
           n == Sent(r, t)
<1>1. /\ r \in Sessions /\ t \in Sessions /\ h.acked \in Numbers /\ h.credit \in Nat /\ h.granted \in Int
      /\ r.kept \in Seq(KeptMessages) /\ t.kept \in Seq(KeptMessages)
      /\ Len(r.kept) \in Nat /\ Len(t.kept) \in Nat /\ d \in Nat
  BY SessionHas, GoneHas DEF Heeds
<1>2. /\ n = Len(t.kept) - Len(r.kept) /\ n >= 0
      /\ d + n < NumberSpan => Distance(t.sequence, h.acked) = d + n
      /\ \A i \in 1 .. Len(r.kept) : t.kept[i] = r.kept[i]
  BY <1>1 DEF Longer, Sent
<1>3. d <= Len(r.kept)
  BY DEF Within
<1> HIDE DEF d, n
<1>4. Distance(t.sequence, h.acked) = d + n /\ d + n <= Len(t.kept) /\ Len(r.kept) <= Len(t.kept)
  <2>1. d + n <= Len(t.kept) /\ d + n \in Nat /\ Len(r.kept) <= Len(t.kept)
    <3>1. \A x, y, z \in Nat : z - y >= 0 /\ x <= y
             => x + (z - y) <= z /\ x + (z - y) \in Nat /\ y <= z
      OBVIOUS
    <3> QED
      BY <1>1, <1>2, <1>3, <3>1
  <2>2. d + n < NumberSpan
    <3>1. \A x, y, z, w \in Nat : x <= y /\ y < z /\ z + z <= w => x < w
      OBVIOUS
    <3> QED
      BY <1>1, <2>1, <3>1, HalfType
  <2> QED
    BY <1>2, <2>1, <2>2
<1>5. Within(h, t) /\ Gone(h, t) = Gone(h, r) /\ Gone(h, r) \in 0 .. Len(r.kept)
      /\ Len(r.kept) <= Len(t.kept)
  <2>1. Within(h, t)
    BY <1>4 DEF Within
  <2>2. Gone(h, r) = Len(r.kept) - d /\ Gone(h, t) = Len(t.kept) - (d + n)
    BY <1>4 DEF Gone, d
  <2>3. Gone(h, r) \in 0 .. Len(r.kept)
    BY GoneHas
  <2>4. \A x, y, z \in Nat : z - (x + (z - y)) = y - x
    OBVIOUS
  <2> QED
    BY <1>1, <1>2, <1>4, <2>1, <2>2, <2>3, <2>4
<1>6. Paid(h, t) = Paid(h, r) /\ Had(h, t) = Had(h, r)
  <2> DEFINE g == Gone(h, r)
  <2>1. g \in 0 .. Len(r.kept) /\ g <= Len(t.kept) /\ \A i \in 1 .. g : t.kept[i] = r.kept[i]
    <3>1. g \in 0 .. Len(r.kept)
      BY <1>5
    <3> HIDE DEF g
    <3> QED
      BY <1>1, <1>2, <1>5, <3>1
  <2> HIDE DEF g
  <2>2. Sum(Spends(t.kept), g) = Sum(Spends(r.kept), g) /\ Sum(Credits(t.kept), g) = Sum(Credits(r.kept), g)
    BY <1>1, <2>1, KeptAlike
  <2> QED
    BY <1>5, <2>2 DEF Paid, Had, g
<1>7. /\ Paid(h, r) \in Nat /\ Had(h, r) \in Nat /\ Pay(r) \in Int /\ Pay(t) \in Int
      /\ Coming(h, r) \in Nat /\ Coming(h, t) \in Nat
  BY GoneHas, ReckonHas
<1>8. PaidUp(h, r) /\ Pays(h, r, t) => PaidUp(h, t)
  BY <1>1, <1>6, <1>7 DEF PaidUp, Pays
<1>9. AllCounted(h, r) /\ Counts(h, r, t) => AllCounted(h, t)
  <2>1. Had(h, r) \in Int
    BY <1>7
  <2> QED
    BY <1>1, <1>6, <2>1 DEF AllCounted, Counts
<1> QED
  BY <1>5, <1>8, <1>9

-----------------------------------------------------------------------------
(* This end's steps.                                                        *)

\* A gap is never given up on while the host keeps no more than may wait.
Patience == HostWindow <= GapPatience

\* The invariant: both are reckoned right, the host's credit once the first
\* message heard was its first.
Reckoned ==
    host.state # "gone" =>
       /\ PaidUp(host, session)
       /\ Patience /\ first \in {0, 1} => AllCounted(host, session)

\* The state of both ends.
Settled == TypeOK /\ Typing /\ Hearing /\ Reckoned

LEMMA SettledHas ==
    ASSUME Settled, host.state # "gone"
    PROVE  \E ends : /\ HearsFrom(host, ends) /\ Calm(host, ends, session) /\ Heeds(host, ends, session)
                     /\ Within(host, session) /\ Numbered(session)
<1>1. PICK h, ends : HearsFrom(h, ends)
  BY DEF Settled, Hearing
<1>2. h = host
  BY <1>1 DEF HearsFrom
<1>3. Within(host, session) /\ Numbered(session)
  BY DEF Settled, Typing, Sender, Laid, Within
<1> QED
  BY <1>1, <1>2, <1>3 DEF HearsFrom, Calm

\* A step of this end's: r is what it begins with once it has let go.
LEMMA DoReckoned ==
    ASSUME TypeOK, Prompt', host.state # "gone", UNCHANGED host,
           NEW h, h = host, NEW ends, NEW r, Heeds(h, ends, r), Within(h, r),
           NEW after, Heeds(h, ends, after), Longer(r, after), Do(after),
           PaidUp(h, r), Pays(h, r, after)
    PROVE  /\ PaidUp(h, session')
           /\ AllCounted(h, r) /\ Counts(h, r, after) => AllCounted(h, session')
<1>1. after \in Sessions
  BY DEF Heeds
<1> DEFINE t == session'
<1>2. /\ t.kept = after.kept /\ t.sequence = after.sequence /\ t.heard = after.heard
      /\ t.early = after.early
  BY <1>1, DoHas
<1>3. t.credit = after.credit /\ t.allowance = after.allowance
  BY <1>1 DEF Do, Flushed, Sessions
<1>4. Len(after.kept) < Half
  <2>1. host'.state # "gone"
    OBVIOUS
  <2>2. Len(t.kept) < Half
    BY <2>1 DEF Prompt
  <2> QED
    BY <1>2, <2>2
<1>5. /\ PaidUp(h, after)
      /\ AllCounted(h, r) /\ Counts(h, r, after) => AllCounted(h, after)
  BY <1>4, KeepsReckoned
<1> HIDE DEF t
<1>6. /\ PaidUp(h, after) => PaidUp(h, t)
      /\ AllCounted(h, after) => AllCounted(h, t)
  BY <1>2, <1>3, AlikeReckoned
<1> QED
  BY <1>5, <1>6 DEF t

\* With fewer waiting no more is counted.
LEMMA FewerReckon ==
    ASSUME NEW h, NEW ends, NEW s, Heeds(h, ends, s), NEW t, Even(s, t),
           t.heard = s.heard, t.early \subseteq s.early
    PROVE  Pays(h, s, t) /\ Counts(h, s, t)
<1>1. Place(h, t) = Place(h, s)
  BY DEF Place
<1>2. Coming(h, t) = Coming(h, s) /\ Pay(t) = Pay(s) /\ Counted(s, t, 0)
  BY <1>1 DEF Coming, Even
<1>3. Pay(s) + Coming(h, s) \in Int
  BY ReckonHas
<1>4. HeedsBut(h, s, t, 0, 0)
  BY <1>1 DEF HeedsBut, Unheeded
<1>5. 0 \in Nat /\ h \in Hosts /\ s \in Sessions
  BY DEF Heeds
<1> QED
  BY <1>2, <1>3, <1>4, <1>5, HeededCounts DEF Pays

\* One that lets go of nothing and hears nothing.
LEMMA EvenStep ==
    ASSUME Settled, Prompt, Prompt', UNCHANGED <<host, first>>,
           NEW r, NEW after, Keeps(r, after), r.kept = session.kept, r.sequence = session.sequence,
           HearsNoMore(session, after), Even(session, after), Do(after)
    PROVE  Reckoned'
<1> SUFFICES ASSUME host.state # "gone"
             PROVE  /\ PaidUp(host, session')
                    /\ Patience /\ first \in {0, 1} => AllCounted(host, session')
  BY DEF Reckoned, Patience
<1>1. PICK ends : Calm(host, ends, session) /\ Heeds(host, ends, session) /\ Within(host, session)
  BY SettledHas
<1>2. after \in Sessions
  BY KeepsIs
<1>3. Heeds(host, ends, after)
  <2>1. Reads(host, ends, session, after)
    BY <1>1, <1>2, QuietlyReads
  <2> QED
    BY <1>1, <2>1, ReadsHas DEF Reads
<1>4. after.heard = session.heard /\ after.early \subseteq session.early
  BY DEF HearsNoMore
<1>5. Pays(host, session, after) /\ Counts(host, session, after)
  BY <1>1, <1>4, FewerReckon
<1>6. Longer(session, after)
  BY KeepsLonger
<1>7. PaidUp(host, session) /\ (Patience /\ first \in {0, 1} => AllCounted(host, session))
  BY DEF Settled, Reckoned
<1> DEFINE h == host
<1>8. /\ PaidUp(h, session')
      /\ AllCounted(h, session) /\ Counts(h, session, after) => AllCounted(h, session')
  <2>1. h = host /\ TypeOK
    BY DEF Settled
  <2>2. /\ Heeds(h, ends, session) /\ Within(h, session) /\ Heeds(h, ends, after)
        /\ PaidUp(h, session) /\ Pays(h, session, after)
    BY <1>1, <1>3, <1>5, <1>7
  <2> HIDE DEF h
  <2> QED
    BY <1>6, <2>1, <2>2, DoReckoned
<1> QED
  BY <1>5, <1>7, <1>8

\* What is let go of has been taken by the host.
LEMMA GoneLetGo ==
    ASSUME NEW h, NEW ends, NEW s, Heeds(h, ends, s), Within(h, s), Numbered(s),
           NEW number \in Numbers, Distance(s.sequence, h.acked) <= Distance(s.sequence, number),
           Distance(s.sequence, number) < Half, Len(s.kept) < Half,
           NEW n \in 0 .. Len(s.kept), LetGo(s, n, number)
    PROVE  n <= Gone(h, s)
<1>1. /\ s \in Sessions /\ s.sequence \in Numbers /\ s.kept \in Seq(KeptMessages)
      /\ Len(s.kept) \in Nat /\ h.acked \in Numbers
      /\ Distance(s.sequence, h.acked) \in Nat /\ Distance(s.sequence, number) \in Nat
      /\ Gone(h, s) \in 0 .. Len(s.kept)
  BY SessionHas, GoneHas DEF Heeds
<1>2. CASE n = 0
  BY <1>1, <1>2
<1>3. CASE n # 0
  <2> DEFINE x == s.kept[n].sequence
             a == Distance(s.sequence, h.acked)
             b == Distance(s.sequence, number)
             c == Distance(s.sequence, x)
  <2>1. n \in 1 .. Len(s.kept) /\ n > 0
    BY <1>1, <1>3
  <2>2. x \in Numbers
    <3>1. s.kept[n] \in KeptMessages
      BY <1>1, <2>1, ElementOfSeq
    <3> QED
      BY <3>1 DEF KeptMessages
  <2>3. c = Len(s.kept) - n
    BY <2>1 DEF Numbered
  <2>4. ~Newer(x, number)
    BY <2>1 DEF LetGo
  <2> HIDE DEF x
  <2>5. c < Half
    <3> HIDE DEF c
    <3> QED
      BY <1>1, <2>1, <2>3, HalfType
  <2>6. ~(c < b)
    BY <1>1, <2>2, <2>4, <2>5, NewerIsLater
  <2>7. Gone(h, s) = Len(s.kept) - a
    BY DEF Gone
  <2>8. a <= b /\ a \in Nat /\ b \in Nat
    BY <1>1
  <2> HIDE DEF a, b, c
  <2> QED
    BY <1>1, <2>1, <2>3, <2>6, <2>7, <2>8
<1> QED
  BY <1>2, <1>3

\* Of the messages the host keeps none is heard before its first, and then one
\* at the most.
LEMMA FirstPlace ==
    ASSUME NEW h, NEW ends, NEW s, Heeds(h, ends, s), NEW t, Heeds(h, ends, t),
           ~s.heardAny, t.heard \in {0, 1}
    PROVE  Place(h, t) <= 1
<1>1. /\ Len(h.unacked) \in Nat /\ Len(h.unacked) < Half /\ h.sequence \in Numbers
      /\ Back(h, t.heard) \in 0 .. Len(h.unacked)
  BY HeedsHas
<1>2. Back(h, 0) = Len(h.unacked)
  BY DEF Heeds, Reader
<1>3. CASE t.heard = 0
  <2>1. Place(h, t) = 0
    BY <1>1, <1>2, <1>3 DEF Place
  <2> QED
    BY <2>1
<1>4. CASE t.heard = 1
  <2>1. 0 \in Numbers /\ NextNumber(0) = 1 /\ NumberSpan \in Nat /\ NumberSpan > 3
    BY NumbersAssumption DEF Numbers, NextNumber
  <2>2. Back(h, 1) = IF h.sequence = 0 THEN NumberSpan - 1 ELSE Back(h, 0) - 1
    BY <1>1, <2>1, DistanceToNext DEF Back
  <2>3. Back(h, 1) \in 0 .. Len(h.unacked) /\ Place(h, t) = Len(h.unacked) - Back(h, 1)
    BY <1>1, <1>4 DEF Place
  <2> HIDE DEF Back
  <2> QED
    BY <1>1, <1>2, <2>1, <2>2, <2>3, HalfType
<1> QED
  BY <1>3, <1>4

\* A message of the host's is reckoned as it is read.
LEMMA RunStep ==
    ASSUME Settled, Prompt, Prompt', UNCHANGED host, host.state # "gone",
           NEW ends, HearsFrom(host, ends),
           NEW f \in Range(toUs), f.kind = "run", NEW after, after = Run(session, f), Do(after),
           Reads(host, ends, session, after)
    PROVE  /\ PaidUp(host, session')
           /\ /\ Patience /\ AllCounted(host, session)
              /\ session.heardAny \/ Place(host, after) <= 1
              => AllCounted(host, session')
<1> DEFINE h == host
<1>1. /\ TypeOK /\ Typing /\ Calm(h, ends, session) /\ Heeds(h, ends, session)
      /\ Within(h, session) /\ Numbered(session) /\ session \in Sessions
      /\ PaidUp(h, session)
  <2>1. TypeOK /\ Typing /\ PaidUp(h, session) /\ Within(h, session) /\ Numbered(session)
    BY SettledHas DEF Settled, Reckoned
  <2>2. Calm(h, ends, session)
    BY DEF HearsFrom
  <2> QED
    BY <2>1, <2>2 DEF Calm, Heeds
<1>2. MayTake(h, session, f)
  BY <1>1, ComesMayTake
<1>3. /\ f.acknowledged \in Numbers /\ Len(session.kept) < Half
      /\ Distance(session.sequence, h.acked) <= Distance(session.sequence, f.acknowledged)
      /\ Distance(session.sequence, f.acknowledged) < Half
  <2>1. f \in RunsToUs
    BY <1>2 DEF MayTake
  <2>2. Distance(session.sequence, h.acked) <= Distance(session.sequence, f.acknowledged)
    BY <1>1 DEF Typing
  <2> QED
    BY <1>1, <2>1, <2>2, FrameHas, PromptSays
<1> HIDE DEF h
<1>4. PICK n, r : /\ CutAt(session, r, n) /\ LetGo(session, n, f.acknowledged) /\ Keeps(r, after)
                  /\ Pays(h, r, after)
                  /\ (HostWindow <= GapPatience /\ (session.heardAny \/ Place(h, after) <= 1))
                        => Counts(h, r, after)
  BY <1>1, <1>2, RunReckons
<1>5. n <= Gone(h, session)
  <2>1. n \in 0 .. Len(session.kept)
    BY <1>4 DEF CutAt
  <2> QED
    BY <1>1, <1>3, <1>4, <2>1, GoneLetGo
<1>6. /\ Within(h, r) /\ PaidUp(h, r) /\ (AllCounted(h, session) => AllCounted(h, r))
      /\ Heeds(h, ends, r)
  BY <1>1, <1>4, <1>5, CutReckoned, CutHeeds
<1>7. Longer(r, after)
  BY <1>4, KeepsLonger
<1>8. h = host /\ Heeds(h, ends, after)
  BY <1>1, ReadsHas DEF Reads, h
<1>9. /\ PaidUp(h, session')
      /\ AllCounted(h, r) /\ Counts(h, r, after) => AllCounted(h, session')
  BY <1>1, <1>4, <1>6, <1>7, <1>8, DoReckoned
<1> QED
  BY <1>4, <1>6, <1>9 DEF h, Patience

LEMMA HearFrameReckoned ==
    ASSUME Settled, Prompt, Prompt', HearFrame
    PROVE  Reckoned'
<1> DEFINE f == Head(toUs)
           after == Receive(session, f)
<1>1. /\ TypeOK /\ UNCHANGED host /\ session \in Sessions
  BY DEF Settled, TypeOK, HearFrame
<1>2. f \in FramesToUs /\ f \in Range(toUs)
  <2>1. toUs \in Seq(FramesToUs) /\ toUs # <<>>
    BY <1>1 DEF TypeOK, HearFrame
  <2> QED
    BY <2>1, TailHas
<1>3. CASE session.state = "Closed"
  <2>1. session' = session /\ first' = first
    BY <1>3 DEF HearFrame
  <2> QED
    BY <1>1, <2>1 DEF Settled, Reckoned, Patience
<1>4. CASE session.state # "Closed"
  <2> SUFFICES ASSUME host.state # "gone" PROVE Reckoned'
    BY <1>1 DEF Reckoned
  <2>1. PICK ends : /\ HearsFrom(host, ends) /\ Calm(host, ends, session)
                    /\ Heeds(host, ends, session)
    BY SettledHas
  <2>2. /\ Reads(host, ends, session, after) /\ Do(after) /\ after \in Sessions
        /\ first' = IF ~session.heardAny /\ after.heardAny THEN after.heard ELSE first
    BY <1>1, <1>4, <2>1, HearFrameReads
  <2>3. CASE f \in RunsToUs
    <3>1. f.kind = "run" /\ after = Run(session, f)
      BY <2>3 DEF RunsToUs, Receive
    <3> HIDE DEF f, after
    <3>2. /\ PaidUp(host, session')
          /\ /\ Patience /\ AllCounted(host, session)
             /\ session.heardAny \/ Place(host, after) <= 1
             => AllCounted(host, session')
      BY <1>1, <1>2, <2>1, <2>2, <3>1, RunStep
    <3>3. ASSUME Patience, first' \in {0, 1}
          PROVE  /\ AllCounted(host, session)
                 /\ session.heardAny \/ Place(host, after) <= 1
      <4>1. ~session.heardAny => first = 0
        BY <2>1 DEF HearsFrom, Shown, ShownTo
      <4>2. first \in {0, 1}
        BY <2>2, <3>3, <4>1
      <4>3. AllCounted(host, session)
        BY <3>3, <4>2 DEF Settled, Reckoned
      <4>4. Heeds(host, ends, after)
        BY <2>1, <2>2, ReadsHas DEF Reads
      <4>5. ASSUME ~session.heardAny PROVE Place(host, after) <= 1
        <5>1. after.heard \in {0, 1}
          <6>1. CASE after.heardAny
            BY <2>2, <3>3, <4>5, <6>1
          <6>2. CASE ~after.heardAny
            BY <4>4, <6>2 DEF Heeds, Reader
          <6> QED
            BY <6>1, <6>2
        <5> QED
          BY <2>1, <4>4, <4>5, <5>1, FirstPlace
      <4> QED
        BY <4>3, <4>5
    <3> QED
      BY <1>1, <3>2, <3>3 DEF Reckoned, Patience
  <2>4. CASE f = Agreement \/ f = StopMessage
    <3> HIDE DEF f
    <3>1. after = Agreed(session, Agreement) \/ after = Stopped(session, StopMessage)
      <4>1. CASE f = Agreement
        <5>1. Receive(session, f) = Agreed(session, Agreement)
          BY <4>1 DEF Receive, Agreement
        <5> QED
          BY <5>1
      <4>2. CASE f = StopMessage
        <5>1. Receive(session, f) = Stopped(session, f)
          BY <4>2 DEF Receive, StopMessage
        <5> QED
          BY <4>2, <5>1
      <4> QED
        BY <2>4, <4>1, <4>2
    <3> HIDE DEF after
    <3>2. Keeps(session, after) /\ HearsNoMore(session, after) /\ Even(session, after)
      <4>1. CASE after = Agreed(session, Agreement)
        BY <1>1, <4>1, AgreedKeeps, AgreedHears, AgreedEven
      <4>2. CASE after = Stopped(session, StopMessage)
        BY <1>1, <4>2, StoppedKeeps, StoppedHears, AskedEven
      <4> QED
        BY <3>1, <4>1, <4>2
    <3>3. first' = first
      BY <2>2, <3>2 DEF HearsNoMore
    <3> QED
      BY <1>1, <2>2, <3>2, <3>3, EvenStep
  <2> QED
    BY <1>2, <2>3, <2>4 DEF FramesToUs
<1> QED
  BY <1>3, <1>4

LEMMA HereReckoned ==
    ASSUME Settled, Prompt, Prompt', Here
    PROVE  Reckoned'
<1>0. session \in Sessions /\ keys \in Nat
  BY DEF Settled, TypeOK
<1>1. ASSUME NEW after, Keeps(session, after), HearsNoMore(session, after), Even(session, after),
             Do(after), UNCHANGED <<host, first>>
      PROVE  Reckoned'
  BY <1>1, EvenStep
<1>2. CASE CallNode
  BY <1>0, <1>1, <1>2, CallKeeps, CallHears, AskedEven DEF CallNode
<1>3. CASE HoldExpires
  <2>1. Keeps(session, ReleaseTyping(session)) /\ HearsNoMore(session, ReleaseTyping(session))
    BY <1>0, ReleaseTypingSends, SendsOnlyHears, KeepsIs
  <2> QED
    BY <1>0, <1>1, <1>3, <2>1, ReleaseTypingEven DEF HoldExpires
<1>4. CASE RetransmitDue
  BY <1>0, <1>1, <1>4, RetransmitKeeps, RetransmitHears, AskedEven DEF RetransmitDue
<1>5. CASE KeepaliveDue
  BY <1>0, <1>1, <1>5, KeepaliveKeeps, KeepaliveHears, AskedEven DEF KeepaliveDue
<1>6. CASE Dead
  BY <1>0, <1>1, <1>6, PeerGoneKeeps, StoppedHears, AskedEven DEF Dead
<1>7. CASE Drop
  BY <1>0, <1>1, <1>7, CloseKeeps, CloseHears, AskedEven DEF Drop
<1>8. CASE TypeKey
  <2> DEFINE after == Write(session, <<keys + 1>>)
  <2>1. IsOpen(session) /\ keys + 1 \in Nat /\ Do(after) /\ UNCHANGED <<host, first>>
    BY <1>0, <1>8 DEF TypeKey
  <2>2. PICK r \in Sessions :
           Keeps(r, after) /\ r.kept = session.kept /\ r.sequence = session.sequence
    BY <1>0, <2>1, WriteKeeps
  <2>3. <<keys + 1>> \in Seq(Nat)
    BY <2>1
  <2>4. HearsNoMore(session, after) /\ Even(session, after)
    BY <1>0, <2>1, <2>3, WriteHears, WriteEven
  <2> HIDE DEF after
  <2> QED
    BY <2>1, <2>2, <2>4, EvenStep
<1> QED
  BY <1>2, <1>3, <1>4, <1>5, <1>6, <1>7, <1>8, HearFrameReckoned DEF Here

-----------------------------------------------------------------------------
(* The host's steps.                                                        *)

\* What the host lets go of has been heard, and was counted then.
LEMMA CutComing ==
    ASSUME NEW h, NEW ends, NEW s, Heeds(h, ends, s), NEW g \in Hosts, NEW n \in 0 .. Place(h, s),
           g.sequence = h.sequence, g.unacked = SubSeq(h.unacked, n + 1, Len(h.unacked))
    PROVE  Coming(g, s) = Coming(h, s) /\ Uncounted(g, s) = Uncounted(h, s)
<1> DEFINE last == Len(h.unacked)
           rest == last - n
           p == Place(h, s)
           fc == Credits(h.unacked)
           gc == Credits(g.unacked)
           fu == UnheededSlots(h, s)
           gu == UnheededSlots(g, s)
<1>1. h \in Hosts /\ last \in Nat /\ p \in 0 .. last /\ h.unacked \in Seq(Messages)
  BY HeedsHas DEF Heeds, Hosts
<1>2. n \in Nat /\ n <= p /\ p <= last /\ rest \in Nat /\ n + rest = last /\ p - n \in Nat
      /\ n + (p - n) = p
  <2> HIDE DEF p, last
  <2> QED
    BY <1>1 DEF p
<1> HIDE DEF p, last
<1>3. Len(g.unacked) = rest /\ \A i \in 1 .. rest : g.unacked[i] = h.unacked[n + i]
  <2>1. n + 1 \in 1 .. last + 1
    BY <1>1, <1>2
  <2> QED
    BY <1>1, <1>2, <2>1, SubSeqProperties DEF last
<1>4. Place(g, s) = p - n
  <2>1. Place(g, s) = rest - Back(h, s.heard) /\ p = last - Back(h, s.heard)
    BY <1>3 DEF Place, Back, p, last
  <2>2. Back(h, s.heard) \in Nat
    <3>1. Back(h, s.heard) \in 0 .. Len(h.unacked) /\ Len(h.unacked) \in Nat
      BY HeedsHas
    <3> HIDE DEF Back
    <3> QED
      BY <3>1
  <2> HIDE DEF Back
  <2> QED
    BY <1>1, <1>2, <2>1, <2>2
<1>5. \A i \in 1 .. last : fc[i] \in Int /\ fu[i] \in Int
  BY <1>1, HostSums DEF last
<1>6. \A i \in 1 .. rest : n + i \in 1 .. last /\ gc[i] = fc[n + i]
  <2> SUFFICES ASSUME NEW i \in 1 .. rest PROVE n + i \in 1 .. last /\ gc[i] = fc[n + i]
    OBVIOUS
  <2>1. n + i \in 1 .. last
    BY <1>1, <1>2
  <2> QED
    BY <1>3, <2>1 DEF Credits, last
<1>7. \A i \in 1 .. rest : gu[i] = fu[n + i]
  <2> SUFFICES ASSUME NEW i \in 1 .. rest PROVE gu[i] = fu[n + i]
    OBVIOUS
  <2>1. n + i \in 1 .. last /\ g.unacked[i] = h.unacked[n + i]
    BY <1>3, <1>6
  <2>2. (i > Place(g, s)) <=> (n + i > Place(h, s))
    BY <1>1, <1>2, <1>4 DEF p
  <2>3. Unheeded(g, s, i) <=> Unheeded(h, s, n + i)
    BY <2>1, <2>2 DEF Unheeded
  <2>4. i \in 1 .. Len(g.unacked)
    BY <1>3
  <2> QED
    BY <2>1, <2>3, <2>4 DEF UnheededSlots, last
<1>8. \A i \in 1 .. n : fu[i] = 0
  <2> SUFFICES ASSUME NEW i \in 1 .. n PROVE fu[i] = 0
    OBVIOUS
  <2>1. i \in 1 .. last /\ ~(i > Place(h, s))
    BY <1>1, <1>2 DEF p
  <2> QED
    BY <2>1 DEF UnheededSlots, Unheeded, last
<1> HIDE DEF rest, fc, gc, fu, gu
<1>9. Sum(gc, rest) = Sum(fc, last) - Sum(fc, n) /\ Sum(gu, rest) = Sum(fu, last) - Sum(fu, n)
  <2>1. \A i \in 1 .. n + rest : fc[i] \in Int /\ fu[i] \in Int
    BY <1>2, <1>5
  <2>2. /\ n \in Nat /\ rest \in Nat /\ n + rest = last
        /\ \A i \in 1 .. rest : gc[i] = fc[n + i] /\ gu[i] = fu[n + i]
    BY <1>2, <1>6, <1>7
  <2>3. GoesOn(fc, n, gc, rest) /\ GoesOn(fu, n, gu, rest)
    BY <2>1, <2>2 DEF GoesOn
  <2> QED
    BY <2>2, <2>3, SumAfter
<1>10. Sum(gc, p - n) = Sum(fc, p) - Sum(fc, n)
  <2>1. \A i \in 1 .. n + (p - n) : fc[i] \in Int
    <3>1. \A i \in 1 .. p : i \in 1 .. last
      BY <1>1, <1>2
    <3> QED
      BY <1>2, <1>5, <3>1
  <2>2. \A i \in 1 .. p - n : gc[i] = fc[n + i]
    <3>1. \A i \in 1 .. p - n : i \in 1 .. rest
      BY <1>1, <1>2
    <3> QED
      BY <1>6, <3>1
  <2>3. GoesOn(fc, n, gc, p - n)
    BY <2>1, <2>2 DEF GoesOn
  <2>4. n \in Nat /\ p - n \in Nat /\ n + (p - n) = p
    BY <1>2
  <2> QED
    BY <2>3, <2>4, SumAfter
<1>11. Sum(fu, n) = 0
  BY <1>2, <1>8, SumNone
<1>12. Sum(fc, last) \in Int /\ Sum(fc, n) \in Int /\ Sum(fc, p) \in Int /\ Sum(fu, last) \in Int
  <2>1. n \in 0 .. last /\ p \in 0 .. last /\ last \in 0 .. last
    BY <1>1, <1>2
  <2> QED
    BY <1>1, <1>5, <2>1, SumSteps
<1>13. Coming(g, s) = Sum(gc, rest) - Sum(gc, p - n) /\ Coming(h, s) = Sum(fc, last) - Sum(fc, p)
  BY <1>3, <1>4 DEF Coming, gc, fc, last, p
<1>14. Uncounted(g, s) = Sum(gu, rest) /\ Uncounted(h, s) = Sum(fu, last)
  BY <1>3 DEF Uncounted, gu, fu, last
<1> QED
  BY <1>9, <1>10, <1>11, <1>12, <1>13, <1>14

\* Nothing changes where the host has taken no more, nor granted any.
LEMMA CutStays ==
    ASSUME NEW h, NEW ends, NEW s, Heeds(h, ends, s), NEW g \in Hosts, NEW n \in 0 .. Place(h, s),
           g.sequence = h.sequence, g.unacked = SubSeq(h.unacked, n + 1, Len(h.unacked)),
           g.acked = h.acked, g.credit = h.credit, g.granted = h.granted
    PROVE  /\ PaidUp(h, s) => PaidUp(g, s)
           /\ AllCounted(h, s) => AllCounted(g, s)
<1>1. Coming(g, s) = Coming(h, s) /\ Uncounted(g, s) = Uncounted(h, s)
  BY CutComing
<1>2. Paid(g, s) = Paid(h, s) /\ Had(g, s) = Had(h, s)
  BY DEF Paid, Had, Gone
<1> QED
  BY <1>1, <1>2 DEF PaidUp, AllCounted

\* What the host takes it has the credit of, and its grant is spent.
LEMMA TakenReckoned ==
    ASSUME NEW h, NEW ends, NEW s, Heeds(h, ends, s), NEW g \in Hosts, NEW n \in 0 .. Place(h, s),
           g.sequence = h.sequence, g.unacked = SubSeq(h.unacked, n + 1, Len(h.unacked)),
           Within(h, s), Numbered(s), Len(s.kept) < Half,
           NEW f \in RunsToHost, f.sequence = NextNumber(h.acked),
           Distance(s.sequence, f.sequence) < Half,
           Distance(s.sequence, f.sequence) < Distance(s.sequence, h.acked) => IsKept(s, f),
           g.acked = f.sequence, g.credit = Smaller(h.credit + f.credit, MaxCredit),
           g.granted = h.granted - Spending(f)
    PROVE  /\ PaidUp(h, s) => PaidUp(g, s)
           /\ AllCounted(h, s) => AllCounted(g, s)
<1> DEFINE left == Distance(s.sequence, h.acked)
           last == Len(s.kept)
           fs == Spends(s.kept)
           fc == Credits(s.kept)
<1>0. /\ left \in Nat /\ last \in Nat /\ s.sequence \in Numbers /\ f.sequence \in Numbers
      /\ s.kept \in Seq(KeptMessages) /\ Distance(s.sequence, f.sequence) \in Nat
      /\ h.acked \in Numbers /\ h.credit \in Nat /\ h.granted \in Int /\ s \in Sessions
  BY SessionHas, FrameHas, GoneHas DEF Heeds
<1>1. left \in 1 .. last /\ Distance(s.sequence, f.sequence) = left - 1
  <2>1. left <= last
    BY DEF Within
  <2>2. Distance(s.sequence, f.sequence) =
           IF s.sequence = h.acked THEN NumberSpan - 1 ELSE left - 1
    BY <1>0, DistanceToNext
  <2>3. s.sequence # h.acked
    BY <2>2, HalfType
  <2>4. left # 0
    BY <1>0, <2>3, DistanceType
  <2> QED
    BY <1>0, <2>1, <2>2, <2>3, <2>4
<1>2. PICK j \in 1 .. last : /\ s.kept[j].sequence = f.sequence /\ s.kept[j].data = f.data
                             /\ s.kept[j].slots = f.slots /\ s.kept[j].credit = f.credit
  BY <1>0, <1>1 DEF IsKept
<1>3. last - j = left - 1
  BY <1>1, <1>2 DEF Numbered
<1>4. Gone(h, s) = last - left /\ Gone(g, s) = last - (left - 1)
  BY <1>1 DEF Gone
<1> HIDE DEF left, last
<1>5. Gone(h, s) = j - 1 /\ Gone(g, s) = j /\ j - 1 \in 0 .. last /\ j \in 0 .. last
  BY <1>0, <1>1, <1>2, <1>3, <1>4
<1>6. \A i \in 1 .. last : fs[i] \in Int /\ fc[i] \in Int
  BY <1>0, KeptSums DEF last
<1>7. fs[j] = Spending(f) /\ fc[j] = f.credit
  BY <1>2 DEF Spends, Credits, Spending, last
<1> HIDE DEF fs, fc
<1>8. Sum(fs, j) = Sum(fs, j - 1) + fs[j] /\ Sum(fc, j) = Sum(fc, j - 1) + fc[j]
  BY <1>0, <1>2, <1>6, SumSteps
<1>9. Paid(g, s) = Paid(h, s) + Spending(f) /\ Had(g, s) = Had(h, s) + f.credit
  BY <1>5, <1>7, <1>8 DEF Paid, Had, fs, fc
<1>10. /\ Paid(h, s) \in Nat /\ Had(h, s) \in Nat /\ Had(g, s) <= CreditOn(s) /\ Spending(f) \in Int
       /\ f.credit \in Nat
  <2>1. Paid(h, s) \in Nat /\ Had(h, s) \in Nat
    BY GoneHas
  <2>2. Spending(f) \in Int /\ f.credit \in Nat
    BY DEF RunsToHost, Spending
  <2>3. Sum(fc, j) <= Sum(fc, last)
    <3>1. \A i \in 1 .. last : fc[i] \in Nat
      BY <1>0, KeptSums DEF fc, last
    <3>2. last \in j .. last /\ j \in 0 .. last
      BY <1>0, <1>2
    <3> QED
      BY <1>0, <3>1, <3>2, SumGrows
  <2>4. Had(g, s) <= CreditOn(s)
    BY <1>5, <2>3 DEF Had, CreditOn, fc, last
  <2> QED
    BY <2>1, <2>2, <2>4
<1>11. /\ Coming(g, s) = Coming(h, s) /\ Uncounted(g, s) = Uncounted(h, s)
       /\ Coming(h, s) \in Nat /\ Uncounted(h, s) \in Nat /\ Pay(s) \in Int
       /\ s.credit \in 0 .. MaxCredit /\ MaxCredit \in Nat /\ CreditOn(s) \in Nat
  BY <1>0, CutComing, ReckonHas, CreditHas
<1>12. PaidUp(h, s) => PaidUp(g, s)
  BY <1>0, <1>9, <1>10, <1>11 DEF PaidUp
<1>13. AllCounted(h, s) => AllCounted(g, s)
  <2> SUFFICES ASSUME s.credit - CreditOn(s) + Had(h, s) <= h.credit + Uncounted(h, s)
               PROVE  s.credit - CreditOn(s) + Had(g, s) <= g.credit + Uncounted(g, s)
    BY <1>10 DEF AllCounted, Owes
  <2>1. CASE h.credit + f.credit <= MaxCredit
    <3>1. g.credit = h.credit + f.credit
      BY <2>1, <1>0, <1>10 DEF Smaller
    <3>2. Had(g, s) = Had(h, s) + f.credit /\ Uncounted(g, s) = Uncounted(h, s)
      BY <1>9, <1>11
    <3>3. s.credit \in Int /\ CreditOn(s) \in Int /\ Uncounted(h, s) \in Int
      BY <1>11
    <3>4. Had(h, s) \in Int /\ f.credit \in Int
      BY <1>10
    <3>5. h.credit \in Int
      BY <1>0
    <3>6. s.credit - CreditOn(s) + (Had(h, s) + f.credit) <= (h.credit + f.credit) + Uncounted(h, s)
      BY <3>3, <3>4, <3>5, RaisedAlike
    <3> QED
      BY <3>1, <3>2, <3>6
  <2>2. CASE ~(h.credit + f.credit <= MaxCredit)
    <3>1. g.credit = MaxCredit
      BY <2>2, <1>0, <1>10 DEF Smaller
    <3>2. s.credit <= MaxCredit /\ s.credit \in Int
      BY <1>11
    <3>3. Had(g, s) \in Int /\ Had(g, s) <= CreditOn(s)
      BY <1>9, <1>10
    <3>4. CreditOn(s) \in Int /\ MaxCredit \in Int /\ Uncounted(g, s) \in Nat
      BY <1>11
    <3>5. s.credit - CreditOn(s) + Had(g, s) <= MaxCredit + Uncounted(g, s)
      BY <3>2, <3>3, <3>4, RoomLeft
    <3> QED
      BY <3>1, <3>5
  <2> QED
    BY <2>1, <2>2
<1> QED
  BY <1>12, <1>13

\* What the host says is coming, and spends its credit.
LEMMA SayReckoned ==
    ASSUME NEW h, NEW ends, NEW s, Heeds(h, ends, s), Within(h, s), NEW g \in Hosts, NEW m \in Messages,
           g.sequence = m.sequence, m.sequence = NextNumber(h.sequence),
           g.unacked = Append(h.unacked, m), g.acked = h.acked,
           g.credit = h.credit - m.slots, g.granted = h.granted + m.credit
    PROVE  /\ PaidUp(h, s) => PaidUp(g, s)
           /\ AllCounted(h, s) => AllCounted(g, s)
<1> DEFINE last == Len(h.unacked)
           p == Place(h, s)
           fc == Credits(h.unacked)
           gc == Credits(g.unacked)
           fu == UnheededSlots(h, s)
           gu == UnheededSlots(g, s)
<1>1. /\ h \in Hosts /\ s \in Sessions /\ last \in Nat /\ p \in 0 .. last /\ h.unacked \in Seq(Messages)
      /\ s.heard \in Numbers /\ h.sequence \in Numbers /\ last < Half /\ Half \in Nat
      /\ m.slots \in Nat /\ m.credit \in Nat /\ h.credit \in Nat /\ h.granted \in Int
      /\ Back(h, s.heard) \in 0 .. last
  BY HeedsHas, HalfType DEF Heeds, Hosts, Messages
<1> HIDE DEF p, last
<1>2. Place(g, s) = p /\ Len(g.unacked) = last + 1
  <2>1. Back(g, s.heard) = Back(h, s.heard) + 1
    <3>1. Back(h, s.heard) < Half
      <4> HIDE DEF Back
      <4> QED
        BY <1>1
    <3> QED
      BY <1>1, <3>1, OneBack
  <2>2. Len(g.unacked) = last + 1
    BY <1>1 DEF last
  <2>3. Place(g, s) = (last + 1) - (Back(h, s.heard) + 1) /\ p = last - Back(h, s.heard)
    BY <2>1, <2>2 DEF Place, p, last
  <2> HIDE DEF Back
  <2> QED
    BY <1>1, <2>2, <2>3
<1>3. /\ \A i \in 1 .. last : g.unacked[i] = h.unacked[i]
      /\ g.unacked[last + 1] = m
  BY <1>1 DEF last
<1>4. /\ \A i \in 1 .. last : fc[i] \in Int /\ fu[i] \in Int
      /\ \A i \in 1 .. last + 1 : gc[i] \in Int /\ gu[i] \in Int
  <2>1. \A i \in 1 .. last : fc[i] \in Int /\ fu[i] \in Int
    <3>1. \A i \in 1 .. last : UnheededSlots(h, s)[i] \in Int
      BY <1>1, HostSums DEF last
    <3>2. \A i \in 1 .. last : Credits(h.unacked)[i] \in Nat
      BY <1>1, HostSums DEF last
    <3> QED
      BY <3>1, <3>2
  <2>2. \A i \in 1 .. Len(g.unacked) : gc[i] \in Int /\ gu[i] \in Int
    <3>1. \A i \in 1 .. Len(g.unacked) : UnheededSlots(g, s)[i] \in Int
      BY HostSums
    <3>2. \A i \in 1 .. Len(g.unacked) : Credits(g.unacked)[i] \in Nat
      BY HostSums
    <3> QED
      BY <3>1, <3>2
  <2> QED
    BY <1>2, <2>1, <2>2
<1>5. /\ \A i \in 1 .. last : gc[i] = fc[i]
      /\ gc[last + 1] = m.credit
  <2>1. \A i \in 1 .. last : i \in 1 .. last + 1
    BY <1>1
  <2>2. last + 1 \in 1 .. last + 1
    BY <1>1
  <2> QED
    BY <1>2, <1>3, <2>1, <2>2 DEF Credits, last
<1>6. /\ \A i \in 1 .. last : gu[i] = fu[i]
      /\ gu[last + 1] = m.slots
  <2>1. ASSUME NEW i \in 1 .. last PROVE gu[i] = fu[i]
    <3>1. i \in 1 .. last + 1
      BY <1>1
    <3>2. Unheeded(g, s, i) <=> Unheeded(h, s, i)
      BY <1>2, <1>3 DEF Unheeded, p
    <3> QED
      BY <1>2, <1>3, <3>1, <3>2 DEF UnheededSlots, last
  <2>2. Unheeded(g, s, last + 1)
    <3>1. last + 1 > Place(g, s)
      BY <1>1, <1>2
    <3>2. ASSUME NEW w \in s.early PROVE w.sequence # m.sequence
      <4>1. Back(h, w.sequence) < last
        BY DEF Heeds, Reader, last
      <4>2. Back(h, m.sequence) = NumberSpan - 1
        BY <1>1, DistanceToNext DEF Back
      <4> QED
        BY <1>1, <4>1, <4>2, HalfType
    <3> QED
      BY <1>3, <3>1, <3>2 DEF Unheeded
  <2>3. last + 1 \in 1 .. Len(g.unacked)
    BY <1>1, <1>2
  <2> QED
    BY <1>3, <2>1, <2>2, <2>3 DEF UnheededSlots
<1> HIDE DEF fc, gc, fu, gu
<1>7. Sum(gc, last + 1) = Sum(fc, last) + m.credit /\ Sum(gu, last + 1) = Sum(fu, last) + m.slots
  <2> DEFINE more == last + 1
  <2>1. more \in Nat /\ more \in 1 .. more /\ more - 1 = last
    BY <1>1
  <2>2. Sum(gc, last) = Sum(fc, last) /\ Sum(gu, last) = Sum(fu, last)
    BY <1>1, <1>4, <1>5, <1>6, SumSame
  <2>3. gc[more] = m.credit /\ gu[more] = m.slots /\ \A i \in 1 .. more : gc[i] \in Int /\ gu[i] \in Int
    BY <1>4, <1>5, <1>6
  <2> HIDE DEF more
  <2>4. Sum(gc, more) = Sum(gc, more - 1) + gc[more] /\ Sum(gu, more) = Sum(gu, more - 1) + gu[more]
    BY <2>1, <2>3, SumSteps
  <2> QED
    BY <2>1, <2>2, <2>3, <2>4 DEF more
<1>8. Sum(gc, p) = Sum(fc, p)
  <2>1. p \in Nat /\ \A i \in 1 .. p : i \in 1 .. last
    BY <1>1
  <2>2. \A i \in 1 .. p : fc[i] \in Int /\ gc[i] = fc[i]
    BY <1>4, <1>5, <2>1
  <2> QED
    BY <2>1, <2>2, SumSame
<1>9. Sum(fc, last) \in Int /\ Sum(fc, p) \in Int /\ Sum(fu, last) \in Int
  <2>1. last \in 0 .. last
    BY <1>1
  <2> QED
    BY <1>1, <1>4, <2>1, SumSteps
<1>10. Coming(g, s) = Coming(h, s) + m.credit /\ Uncounted(g, s) = Uncounted(h, s) + m.slots
  <2>1. Coming(g, s) = Sum(gc, last + 1) - Sum(gc, p) /\ Coming(h, s) = Sum(fc, last) - Sum(fc, p)
    BY <1>2 DEF Coming, gc, fc, last, p
  <2>2. Uncounted(g, s) = Sum(gu, last + 1) /\ Uncounted(h, s) = Sum(fu, last)
    BY <1>2 DEF Uncounted, gu, fu, last
  <2> QED
    BY <1>1, <1>7, <1>8, <1>9, <2>1, <2>2
<1>11. Paid(g, s) = Paid(h, s) /\ Had(g, s) = Had(h, s)
  BY DEF Paid, Had, Gone
<1>12. Coming(h, s) \in Nat /\ Uncounted(h, s) \in Nat /\ Pay(s) \in Int
  BY ReckonHas
<1>13. h.credit + Uncounted(h, s) = g.credit + Uncounted(g, s)
  BY <1>1, <1>10, <1>12
<1>14. AllCounted(h, s) => AllCounted(g, s)
  BY <1>11, <1>13 DEF AllCounted
<1>15. PaidUp(h, s) => PaidUp(g, s)
  <2> SUFFICES ASSUME Pay(s) - Paid(h, s) + Coming(h, s) <= h.granted
               PROVE  Pay(s) - Paid(h, s) + (Coming(h, s) + m.credit) <= h.granted + m.credit
    BY <1>10, <1>11 DEF PaidUp
  <2>1. Pay(s) \in Int /\ Paid(h, s) \in Int /\ Coming(h, s) \in Int
    BY <1>12, GoneHas
  <2>2. h.granted \in Int /\ m.credit \in Int
    BY <1>1
  <2> QED
    BY <2>1, <2>2, GrantedAlike
<1> QED
  BY <1>14, <1>15

\* What the host makes of it.
LEMMA HostChanges ==
    ASSUME Settled, UNCHANGED <<session, first>>, host.state # "gone",
           NEW h, h = host, NEW g, g = host',
           PaidUp(h, session) => PaidUp(g, session), AllCounted(h, session) => AllCounted(g, session)
    PROVE  Reckoned'
<1>1. PaidUp(h, session) /\ (Patience /\ first \in {0, 1} => AllCounted(h, session))
  BY DEF Settled, Reckoned
<1>2. PaidUp(g, session) /\ (Patience /\ first \in {0, 1} => AllCounted(g, session))
  BY <1>1
<1>3. session' = session /\ first' = first /\ host' = g
  OBVIOUS
<1> QED
  BY <1>2, <1>3 DEF Reckoned, Patience

\* Nothing changes while the host only forgets what has been heard.
LEMMA HostStands ==
    ASSUME Settled, UNCHANGED <<session, first>>, host.state # "gone",
           NEW g \in Hosts, g = host', g.sequence = host.sequence, g.acked = host.acked,
           g.credit = host.credit, g.granted = host.granted, g.unacked = host.unacked
    PROVE  Reckoned'
<1>1. PICK h, ends : h = host /\ Heeds(h, ends, session)
  BY SettledHas
<1>2. 0 \in 0 .. Place(h, session) /\ h.unacked \in Seq(Messages)
  BY <1>1, HeedsHas DEF Heeds, Hosts
<1>3. SubSeq(h.unacked, 0 + 1, Len(h.unacked)) = h.unacked
  BY <1>2, SubSeqFull
<1>4. PaidUp(h, session) => PaidUp(g, session)
  BY <1>1, <1>2, <1>3, CutStays
<1>5. AllCounted(h, session) => AllCounted(g, session)
  BY <1>1, <1>2, <1>3, CutStays
<1> QED
  BY <1>1, <1>4, <1>5, HostChanges

\* What the host hears.
LEMMA HostHearsReckoned ==
    ASSUME Settled, Prompt, HostHears
    PROVE  Reckoned'
<1> DEFINE f == Head(toHost)
<1>1. UNCHANGED <<session, first>> /\ toHost # <<>>
  BY DEF HostHears
<1>2. host \in Hosts /\ toHost \in Seq(FramesToHost) /\ TypeOK
  BY DEF Settled, TypeOK
<1>3. f \in FramesToHost /\ f \in Range(toHost)
  BY <1>1, <1>2, TailHas
<1>4. CASE f.kind = "stop" /\ host' = Departed
  <2>1. host'.state = "gone"
    BY <1>2, <1>4, DepartedHas
  <2> QED
    BY <2>1 DEF Reckoned
<1>5. CASE UNCHANGED host
  <2>1. UNCHANGED <<session, first, host>>
    BY <1>1, <1>5
  <2> QED
    BY <2>1 DEF Settled, Reckoned, Patience
<1>6. CASE host' = [host EXCEPT !.state = "up"] /\ host.state \in {"idle", "up"}
  <2>1. PICK g : g = host'
    OBVIOUS
  <2>2. /\ g \in Hosts /\ g.sequence = host.sequence /\ g.acked = host.acked
        /\ g.credit = host.credit /\ g.granted = host.granted /\ g.unacked = host.unacked
        /\ host.state # "gone"
    BY <1>2, <1>6, <2>1 DEF Hosts
  <2> QED
    BY <1>1, <2>1, <2>2, HostStands
<1>7. CASE f.kind = "run" /\ host.state \in {"up", "over"} /\ host' = HostTakes(f)
  <2>1. host.state # "gone" /\ f \in RunsToHost
    BY <1>3, <1>7, FrameHas
  <2>2. PICK h, ends : /\ h = host /\ HearsFrom(h, ends) /\ Heeds(h, ends, session)
                       /\ Within(h, session) /\ Numbered(session)
    BY <2>1, SettledHas
  <2>3. PICK n \in 0 .. Place(h, session) :
           HostForgets(f.acknowledged) = SubSeq(h.unacked, n + 1, Len(h.unacked))
    BY <1>2, <1>3, <1>7, <2>1, <2>2, HostCut
  <2>4. /\ Distance(session.sequence, f.sequence) < Half /\ Len(session.kept) < Half
        /\ f.slots # 0 /\ Distance(session.sequence, f.sequence) < Distance(session.sequence, h.acked)
              => IsKept(session, f)
    BY <1>2, <1>3, <1>7, <2>1, <2>2, PromptSays DEF Settled, Typing
  <2>5. PICK g : g = host' /\ g = HostTakes(f)
    BY <1>7
  <2> HIDE DEF f
  <2>6. g \in Hosts /\ g.sequence = h.sequence
        /\ g.unacked = SubSeq(h.unacked, n + 1, Len(h.unacked))
    BY <1>2, <2>1, <2>2, <2>3, <2>5, HostTakesHas
  <2>7. CASE g.acked = h.acked /\ g.credit = h.credit /\ g.granted = h.granted
    <3>1. /\ PaidUp(h, session) => PaidUp(g, session)
          /\ AllCounted(h, session) => AllCounted(g, session)
      BY <2>2, <2>6, <2>7, CutStays
    <3> QED
      BY <1>1, <2>1, <2>2, <2>5, <3>1, HostChanges
  <2>8. CASE /\ f.slots # 0 /\ f.sequence = NextNumber(h.acked) /\ g.acked = f.sequence
             /\ g.credit = Smaller(h.credit + f.credit, MaxCredit)
             /\ g.granted = h.granted - Spending(f)
    <3>1. /\ PaidUp(h, session) => PaidUp(g, session)
          /\ AllCounted(h, session) => AllCounted(g, session)
      BY <2>1, <2>2, <2>4, <2>6, <2>8, TakenReckoned
    <3> QED
      BY <1>1, <2>1, <2>2, <2>5, <3>1, HostChanges
  <2> QED
    BY <1>2, <2>1, <2>2, <2>5, <2>7, <2>8, HostTakesHas
<1> QED
  BY <1>4, <1>5, <1>6, <1>7 DEF HostHears

\* What the host says.
LEMMA HostSaysReckoned ==
    ASSUME Settled, HostSpeaks \/ HostGrants \/ HostEnds \/ HostAcks
    PROVE  Reckoned'
<1>1. TypeOK /\ host \in Hosts
  BY DEF Settled, TypeOK
<1>2. PICK m \in Messages : Say(m)
  BY <1>1, HostMaySay
<1>3. host' \in Hosts /\ host.state = "up" /\ UNCHANGED <<session, first>>
  BY <1>1, <1>2, SayHas DEF Say
<1>4. PICK n : n = [m EXCEPT !.sequence = NextNumber(host.sequence)]
  OBVIOUS
<1>5. host' = [host EXCEPT !.sequence = n.sequence, !.unacked = Append(@, n),
                           !.credit = @ - m.slots, !.granted = @ + m.credit,
                           !.said = @ + Len(m.data), !.owes = FALSE,
                           !.state = IF m.ended THEN "over" ELSE @]
  BY <1>2, <1>4 DEF Say
<1>6. n \in Messages /\ n.sequence = NextNumber(host.sequence) /\ n.slots = m.slots /\ n.credit = m.credit
  <2>1. host.sequence \in Numbers
    BY <1>1 DEF Hosts
  <2>2. NextNumber(host.sequence) \in Numbers
    BY <2>1, DistanceOfNext
  <2> QED
    BY <1>4, <2>2 DEF Messages
<1>7. PICK h, ends : /\ h = host /\ Heeds(h, ends, session) /\ Within(h, session)
  BY <1>3, SettledHas
<1>8. PICK g \in Hosts : g = host'
  BY <1>3
<1>9. /\ g.sequence = n.sequence /\ g.unacked = Append(h.unacked, n) /\ g.acked = h.acked
      /\ g.credit = h.credit - n.slots /\ g.granted = h.granted + n.credit
  BY <1>1, <1>5, <1>6, <1>7, <1>8 DEF Hosts
<1>10. /\ PaidUp(h, session) => PaidUp(g, session)
       /\ AllCounted(h, session) => AllCounted(g, session)
  BY <1>6, <1>7, <1>8, <1>9, SayReckoned
<1> QED
  BY <1>3, <1>7, <1>8, <1>10, HostChanges

\* Every step keeps both reckonings.
LEMMA NextReckoned ==
    ASSUME Settled, Prompt, Prompt', [Next]_vars
    PROVE  Reckoned'
<1>1. TypeOK /\ host \in Hosts
  BY DEF Settled, TypeOK
<1>2. CASE Here
  BY <1>2, HereReckoned
<1>3. CASE HostHears
  BY <1>3, HostHearsReckoned
<1>4. CASE HostSpeaks \/ HostGrants \/ HostEnds \/ HostAcks
  BY <1>4, HostSaysReckoned
<1>5. CASE HostRepeats
  <2>1. host' = [host EXCEPT !.owes = FALSE] /\ host.state \in {"up", "over"}
        /\ UNCHANGED <<session, first>>
    BY <1>5 DEF HostRepeats
  <2>2. PICK g : g = host'
    OBVIOUS
  <2>3. /\ g \in Hosts /\ g.sequence = host.sequence /\ g.acked = host.acked
        /\ g.credit = host.credit /\ g.granted = host.granted /\ g.unacked = host.unacked
        /\ host.state # "gone"
    BY <1>1, <2>1, <2>2 DEF Hosts
  <2> QED
    BY <2>1, <2>2, <2>3, HostStands
<1>6. CASE HostStops \/ HostDies
  <2>1. host'.state = "gone"
    BY <1>1, <1>6, DepartedHas DEF HostStops, HostDies
  <2> QED
    BY <2>1 DEF Reckoned
<1>7. CASE UNCHANGED <<session, host, first>>
  BY <1>7 DEF Settled, Reckoned, Patience
<1> QED
  BY <1>2, <1>3, <1>4, <1>5, <1>6, <1>7
     DEF Next, Theirs, Wire, LoseToHost, LoseToUs, SwapToUs, vars

-----------------------------------------------------------------------------
(* What that says of the circuit.                                           *)

LEMMA InitReckoned == Init => Reckoned
<1> SUFFICES ASSUME Init PROVE PaidUp(Host0, NewSession) /\ AllCounted(Host0, NewSession)
  BY DEF Reckoned, Init
<1> DEFINE s == NewSession
           h == Host0
<1>1. /\ s.kept = <<>> /\ s.credit = 0 /\ s.allowance = 0 /\ Len(s.kept) = 0
      /\ s.sequence = 0 /\ s.heard = 0
  BY DEF NewSession
<1>2. /\ h.unacked = <<>> /\ h.credit = 0 /\ h.granted = 0 /\ Len(h.unacked) = 0
      /\ h.sequence = 0 /\ h.acked = 0
  BY DEF Host0
<1> HIDE DEF s, h
<1>3. Gone(h, s) = 0 /\ Place(h, s) = 0
  <2>1. Distance(0, 0) = 0
    BY DEF Distance
  <2> QED
    BY <1>1, <1>2, <2>1 DEF Gone, Place, Back
<1>4. \A f : Sum(f, 0) = 0
  <2>1. ASSUME NEW f PROVE Sum(f, 0) = 0
    BY SumNone
  <2> QED
    BY <2>1
<1>5. SpentOn(s) = 0 /\ CreditOn(s) = 0 /\ Paid(h, s) = 0 /\ Had(h, s) = 0
  BY <1>1, <1>3, <1>4 DEF SpentOn, CreditOn, Paid, Had
<1>6. Coming(h, s) = 0 /\ Uncounted(h, s) = 0
  BY <1>2, <1>3, <1>4 DEF Coming, Uncounted
<1>7. PaidUp(h, s) /\ AllCounted(h, s)
  BY <1>1, <1>2, <1>5, <1>6 DEF PaidUp, AllCounted, Owes, Pay
<1> QED
  BY <1>7 DEF s, h

\* What the host has not taken is what comes after what it has.
LEMMA NotTakenIs ==
    ASSUME NEW s \in Sessions, NEW h \in Hosts, Within(h, s), Numbered(s), Len(s.kept) < Half,
           NEW f, \A i \in 1 .. Len(s.kept) : f[i] \in Int,
           NEW g, \A i \in 1 .. Len(s.kept) :
                     g[i] = IF Newer(s.kept[i].sequence, h.acked) THEN f[i] ELSE 0
    PROVE  Sum(g, Len(s.kept)) = Sum(f, Len(s.kept)) - Sum(f, Gone(h, s))
<1> DEFINE last == Len(s.kept)
           left == Distance(s.sequence, h.acked)
           c == Gone(h, s)
<1>1. /\ s.kept \in Seq(KeptMessages) /\ last \in Nat /\ s.sequence \in Numbers /\ h.acked \in Numbers
      /\ left \in Nat /\ Half \in Nat
  BY SessionHas, HalfType DEF Hosts
<1>2. left <= last /\ c = last - left
  BY DEF Within, Gone
<1>3. ASSUME NEW i \in 1 .. last
      PROVE  /\ s.kept[i].sequence \in Numbers
             /\ Distance(s.sequence, s.kept[i].sequence) = last - i
  <2>1. s.kept[i] \in KeptMessages
    BY <1>1, ElementOfSeq
  <2>2. Distance(s.sequence, s.kept[i].sequence) = last - i
    BY DEF Numbered
  <2> QED
    BY <2>1, <2>2 DEF KeptMessages
<1> HIDE DEF last, left, c
<1>4. c \in Nat /\ c <= last
  BY <1>1, <1>2
<1>5. ASSUME NEW i \in 1 .. last
      PROVE  Newer(s.kept[i].sequence, h.acked) <=> ~(i <= c)
  <2> DEFINE d == Distance(s.sequence, s.kept[i].sequence)
  <2>1. d = last - i /\ d < Half /\ left < Half
    BY <1>1, <1>2, <1>3 DEF last
  <2>2. Newer(s.kept[i].sequence, h.acked) <=> d < left
    BY <1>1, <1>3, <2>1, NewerIsLater DEF left
  <2> HIDE DEF d
  <2> QED
    BY <1>1, <1>2, <2>1, <2>2
<1>6. \A i \in 1 .. last : g[i] = IF i <= c THEN 0 ELSE f[i]
  BY <1>5 DEF last
<1>7. \A i \in 1 .. last : f[i] \in Int
  BY DEF last
<1>8. Sum(g, last) = Sum(f, last) - Sum(f, c)
  BY <1>1, <1>4, <1>6, <1>7, SumFrom
<1> QED
  BY <1>8 DEF last, c

\* What this end has not counted comes after what it has heard.
LEMMA NotCountedIs ==
    ASSUME NEW h, NEW ends, NEW s, Heeds(h, ends, s),
           NEW g, \A i \in 1 .. Len(h.unacked) :
                     g[i] = IF /\ ~s.heardAny \/ Newer(h.unacked[i].sequence, s.heard)
                               /\ \A w \in s.early : w.sequence # h.unacked[i].sequence
                            THEN h.unacked[i].slots ELSE 0
    PROVE  Sum(g, Len(h.unacked)) = Uncounted(h, s)
<1> DEFINE last == Len(h.unacked)
           f == UnheededSlots(h, s)
           b == Back(h, s.heard)
<1>1. /\ h \in Hosts /\ s \in Sessions /\ last \in Nat /\ h.sequence \in Numbers /\ s.heard \in Numbers
      /\ b \in 0 .. last /\ last < Half /\ Half \in Nat /\ h.unacked \in Seq(Messages)
  BY HeedsHas, HalfType DEF Heeds, Hosts
<1>2. ASSUME NEW i \in 1 .. last
      PROVE  h.unacked[i].sequence \in Numbers /\ Back(h, h.unacked[i].sequence) = last - i
  <2>1. h.unacked[i] \in Messages
    BY <1>1, ElementOfSeq
  <2> QED
    BY <2>1 DEF Heeds, Saying, Messages
<1>3. Place(h, s) = last - b /\ (~s.heardAny => b = last)
  BY DEF Place, Heeds, Reader
<1> HIDE DEF last, b
<1>4. ASSUME NEW i \in 1 .. last
      PROVE  ~s.heardAny \/ Newer(h.unacked[i].sequence, s.heard) <=> i > Place(h, s)
  <2> DEFINE d == Back(h, h.unacked[i].sequence)
  <2>1. d = last - i /\ d < Half /\ b < Half
    BY <1>1, <1>2
  <2>2. Newer(h.unacked[i].sequence, s.heard) <=> d < b
    BY <1>1, <1>2, <2>1, NewerIsLater DEF Back, b
  <2> HIDE DEF d
  <2> QED
    BY <1>1, <1>3, <2>1, <2>2
<1>5. \A i \in 1 .. last : f[i] \in Int
  BY <1>1, HostSums DEF last
<1>6. \A i \in 1 .. last : g[i] = f[i]
  <2> SUFFICES ASSUME NEW i \in 1 .. last PROVE g[i] = f[i]
    OBVIOUS
  <2>1. (~s.heardAny \/ Newer(h.unacked[i].sequence, s.heard)) <=> i > Place(h, s)
    BY <1>4
  <2> QED
    BY <2>1 DEF UnheededSlots, Unheeded, last
<1> HIDE DEF f
<1>7. Sum(g, last) = Sum(f, last)
  BY <1>1, <1>5, <1>6, SumSame
<1> QED
  BY <1>7 DEF Uncounted, f, last

\* While the circuit is up the invariant says what is to be shown.
LEMMA ReckonedShows ==
    ASSUME Settled, Prompt, Connected
    PROVE  AllowanceReckoned /\ (Patience => CreditReckoned)
<1>1. host.state # "gone" /\ TypeOK
  BY DEF Connected, Settled
<1>2. PICK h, ends : /\ h = host /\ Heeds(h, ends, session) /\ Within(h, session)
                     /\ Numbered(session)
  BY <1>1, SettledHas
<1>3. /\ PaidUp(h, session) /\ (Patience /\ first \in {0, 1} => AllCounted(h, session))
      /\ Len(session.kept) < Half
  BY <1>1, <1>2, PromptSays DEF Settled, Reckoned
<1>4. PICK s : s = session
  OBVIOUS
<1> DEFINE last == Len(s.kept)
           spends == [i \in 1 .. Len(s.kept) |->
                        IF Newer(s.kept[i].sequence, h.acked) THEN Spending(s.kept[i]) ELSE 0]
           credits == [i \in 1 .. Len(s.kept) |->
                        IF Newer(s.kept[i].sequence, h.acked) THEN s.kept[i].credit ELSE 0]
           slots == [i \in 1 .. Len(h.unacked) |->
                       LET m == h.unacked[i]
                       IN  IF /\ ~s.heardAny \/ Newer(m.sequence, s.heard)
                              /\ \A w \in s.early : w.sequence # m.sequence
                           THEN m.slots ELSE 0]
<1>5. /\ s \in Sessions /\ h \in Hosts /\ Within(h, s) /\ Numbered(s) /\ Len(s.kept) < Half
      /\ Heeds(h, ends, s) /\ s.kept \in Seq(KeptMessages)
  BY <1>2, <1>3, <1>4, SessionHas DEF Heeds
<1>6. \A i \in 1 .. last : Spends(s.kept)[i] \in Int /\ Credits(s.kept)[i] \in Int
  BY <1>5, KeptSums
<1>7. Sum(spends, last) = SpentOn(s) - Paid(h, s)
  <2>1. \A i \in 1 .. last :
           spends[i] = IF Newer(s.kept[i].sequence, h.acked) THEN Spends(s.kept)[i] ELSE 0
    BY DEF Spends
  <2> HIDE DEF spends
  <2>2. Sum(spends, last) = Sum(Spends(s.kept), last) - Sum(Spends(s.kept), Gone(h, s))
    BY <1>5, <1>6, <2>1, NotTakenIs
  <2> QED
    BY <2>2 DEF SpentOn, Paid
<1>8. Sum(credits, last) = CreditOn(s) - Had(h, s)
  <2>1. \A i \in 1 .. last :
           credits[i] = IF Newer(s.kept[i].sequence, h.acked) THEN Credits(s.kept)[i] ELSE 0
    BY DEF Credits
  <2> HIDE DEF credits
  <2>2. Sum(credits, last) = Sum(Credits(s.kept), last) - Sum(Credits(s.kept), Gone(h, s))
    BY <1>5, <1>6, <2>1, NotTakenIs
  <2> QED
    BY <2>2 DEF CreditOn, Had
<1>9. Sum(slots, Len(h.unacked)) = Uncounted(h, s)
  <2>1. \A i \in 1 .. Len(h.unacked) :
           slots[i] = IF /\ ~s.heardAny \/ Newer(h.unacked[i].sequence, s.heard)
                         /\ \A w \in s.early : w.sequence # h.unacked[i].sequence
                      THEN h.unacked[i].slots ELSE 0
    OBVIOUS
  <2> HIDE DEF slots
  <2> QED
    BY <1>5, <2>1, NotCountedIs
<1>10. /\ NotTaken(Spending) = Sum(spends, last) /\ NotTaken(LAMBDA k : k.credit) = Sum(credits, last)
       /\ NotCounted = Sum(slots, Len(h.unacked))
  BY <1>2, <1>4 DEF NotTaken, NotCounted
<1> HIDE DEF spends, credits, slots, last
<1>11. /\ SpentOn(s) \in Nat /\ Paid(h, s) \in Nat /\ CreditOn(s) \in Nat /\ Had(h, s) \in Nat
       /\ s.allowance \in Int /\ s.credit \in Int /\ h.granted \in Int /\ h.credit \in Nat
       /\ Coming(h, s) \in Nat /\ Uncounted(h, s) \in Nat
  BY <1>5, CreditHas, GoneHas, ReckonHas
<1>12. AllowanceReckoned
  <2>1. s.allowance + (SpentOn(s) - Paid(h, s)) <= h.granted
    BY <1>3, <1>4, <1>11 DEF PaidUp, Pay
  <2> QED
    BY <1>2, <1>4, <1>7, <1>10, <2>1 DEF AllowanceReckoned
<1>13. Patience => CreditReckoned
  <2> SUFFICES ASSUME Patience, first \in {0, 1}
               PROVE  session.credit <= host.credit + NotTaken(LAMBDA k : k.credit) + NotCounted
    BY DEF CreditReckoned
  <2>1. s.credit <= h.credit + (CreditOn(s) - Had(h, s)) + Uncounted(h, s)
    BY <1>3, <1>4, <1>11 DEF AllCounted, Owes
  <2> QED
    BY <1>2, <1>4, <1>8, <1>9, <1>10, <2>1
<1> QED
  BY <1>12, <1>13

LEMMA StaysSettled ==
    (Init => Settled) /\ (Settled /\ Prompt /\ Prompt' /\ [Next]_vars => Settled')
BY InitTyping, InitHearing, InitReckoned, NextStep, NextHears, NextReckoned DEF Settled

\* This end never sends what the host has not granted it, however the frames
\* that carry the grants and the messages that spend them are lost, repeated
\* or read late, and also where it has read past a gap.
THEOREM GrantsAreKept == Spec /\ []Prompt => []AllowanceReckoned
<1>1. Settled /\ Prompt => AllowanceReckoned
  BY ReckonedShows DEF AllowanceReckoned
<1> QED
  BY <1>1, StaysSettled, PTL DEF Spec

\* Nor does it believe the host has more credit than it has, or has coming,
\* while the host keeps no more than may wait behind a gap: the extra grant on
\* the first message, the cap, the slots counted as they are read and what is
\* sent again all leave it on the safe side.
THEOREM CreditIsReckoned ==
    ASSUME HostWindow <= GapPatience
    PROVE  Spec /\ []Prompt => []CreditsReckoned
<1>1. Settled /\ Prompt => CreditsReckoned
  BY ReckonedShows DEF CreditsReckoned, CreditReckoned, AllowanceReckoned, Patience
<1> QED
  BY <1>1, StaysSettled, PTL DEF Spec
=============================================================================
