--------------------------- MODULE LatSessionProofs ---------------------------
(***************************************************************************)
(* What holds of a LAT session for every value of the constants and every   *)
(* message that may arrive.  The invariant Sound is about the record of a   *)
(* session, so each operation of LatProtocol has a lemma: it leaves a sound *)
(* record sound.  A handler is a composition of operations, and its lemma   *)
(* the composition of theirs; the actions of LatSession follow.             *)
(***************************************************************************)
EXTENDS LatSession, TLAPS, WellFoundedInduction, FiniteSetTheorems

Sound(s) ==
    /\ s \in Sessions
    /\ InOrder(s)
    /\ TypingFirst(s)
    /\ Granted(s)
    /\ Owed(s)

-----------------------------------------------------------------------------
(* Numbers and credits. *)

\* The number after a number is a number: the sequence wraps.
LEMMA NumbersWrap ==
    ASSUME NEW a \in Numbers
    PROVE  NextNumber(a) \in Numbers
BY NumbersAssumption DEF NextNumber, Numbers

\* The distance between two numbers is a number.
LEMMA DistanceType ==
    ASSUME NEW a \in Numbers, NEW b \in Numbers
    PROVE  Distance(a, b) \in Numbers
BY NumbersAssumption DEF Distance, Numbers

\* A full allowance is above the low mark.
LEMMA LowCreditType == LowCredit \in Nat /\ LowCredit < MaxCredit
BY NumbersAssumption DEF LowCredit

-----------------------------------------------------------------------------
(* Sending a message. *)

\* slot_frame changes the number, the messages kept, the allowance and what
\* goes out, and nothing else.
LEMMA SlotFrameFields ==
    ASSUME NEW s \in Sessions, NEW m \in Parts
    PROVE  LET t == SlotFrame(s, m)
               n == IF m.slots = 0 THEN s.sequence ELSE NextNumber(s.sequence)
               k == [sequence |-> n, to |-> m.to, slots |-> m.slots,
                     credit |-> m.credit, data |-> m.data]
           IN  /\ t \in Sessions
               /\ k \in KeptMessages
               /\ t.sequence = n
               /\ t.kept = IF m.slots = 0 THEN s.kept ELSE Append(s.kept, k)
               /\ t.state = s.state /\ t.credit = s.credit /\ t.circuit = s.circuit
               /\ t.theirs = s.theirs /\ t.ended = s.ended /\ t.typed = s.typed
<1> DEFINE number == IF m.slots = 0 THEN s.sequence ELSE NextNumber(s.sequence)
           k == [sequence |-> number, to |-> m.to, slots |-> m.slots,
                 credit |-> m.credit, data |-> m.data]
           kept == IF m.slots = 0 THEN s.kept ELSE Append(s.kept, k)
           left == s.allowance - Spending(m)
           out  == Append(s.outgoing, RunFrame(s, k))
<1>1. number \in Numbers
  BY NumbersWrap DEF Sessions
<1>2. k \in KeptMessages
  BY <1>1 DEF KeptMessages, Parts
<1>3. RunFrame(s, k) \in Frames
  BY <1>2, NamesAssumption DEF RunFrame, Frames, KeptMessages, Sessions
<1>4. Spending(m) \in Nat
  BY DEF Spending, Parts
<1>5. /\ kept \in Seq(KeptMessages)
      /\ left \in Int
      /\ out \in Seq(Frames)
  BY <1>2, <1>3, <1>4 DEF Sessions
<1>6. SlotFrame(s, m) = [s EXCEPT !.sequence = number, !.kept = kept,
                                  !.allowance = left, !.outgoing = out]
  BY DEF SlotFrame
<1> HIDE DEF number, kept, left, out
<1>7. /\ SlotFrame(s, m) \in Sessions
      /\ SlotFrame(s, m).sequence = number
      /\ SlotFrame(s, m).kept = kept
      /\ SlotFrame(s, m).state = s.state /\ SlotFrame(s, m).credit = s.credit
      /\ SlotFrame(s, m).circuit = s.circuit /\ SlotFrame(s, m).theirs = s.theirs
      /\ SlotFrame(s, m).ended = s.ended /\ SlotFrame(s, m).typed = s.typed
  BY <1>1, <1>5, <1>6, ZenonT(60) DEF Sessions
<1> QED
  BY <1>2, <1>7 DEF number, kept

\* A message put out leaves the session sound, unless it carries typing that
\* the window has no room for.
LEMMA SlotFrameSound ==
    ASSUME NEW s, Sound(s), NEW m \in Parts,
           m.data # <<>> => Len(s.kept) < Window
    PROVE  Sound(SlotFrame(s, m))
<1> DEFINE t == SlotFrame(s, m)
           n == IF m.slots = 0 THEN s.sequence ELSE NextNumber(s.sequence)
           k == [sequence |-> n, to |-> m.to, slots |-> m.slots,
                 credit |-> m.credit, data |-> m.data]
<1>1. s \in Sessions
  BY DEF Sound
<1>2. /\ t \in Sessions
      /\ k \in KeptMessages
      /\ t.sequence = n
      /\ t.kept = IF m.slots = 0 THEN s.kept ELSE Append(s.kept, k)
      /\ t.state = s.state /\ t.credit = s.credit /\ t.circuit = s.circuit
      /\ t.theirs = s.theirs /\ t.ended = s.ended
  BY <1>1, SlotFrameFields
<1>3. s.kept \in Seq(KeptMessages)
  BY <1>1 DEF Sessions
<1> HIDE DEF t
<1>4. InOrder(t) /\ TypingFirst(t)
  <2>1. CASE m.slots = 0
    BY <1>2, <2>1 DEF Sound, InOrder, TypingFirst
  <2>2. CASE m.slots # 0
    <3>1. /\ t.kept = Append(s.kept, k) /\ Len(t.kept) = Len(s.kept) + 1
          /\ \A i \in 1 .. Len(s.kept) : t.kept[i] = s.kept[i]
          /\ t.kept[Len(t.kept)] = k
          /\ t.sequence = NextNumber(s.sequence)
          /\ k.sequence = NextNumber(s.sequence) /\ k.data = m.data
      BY <1>2, <1>3, <2>2
    <3> HIDE DEF k
    <3>2. Len(s.kept) \in Nat /\ (s.kept # <<>> <=> Len(s.kept) > 0)
      BY <1>3
    <3>3. \A i \in 1 .. Len(t.kept) - 1 :
             t.kept[i + 1].sequence = NextNumber(t.kept[i].sequence)
      <4> SUFFICES ASSUME NEW i \in 1 .. Len(t.kept) - 1
                   PROVE  t.kept[i + 1].sequence = NextNumber(t.kept[i].sequence)
        OBVIOUS
      <4>1. CASE i < Len(s.kept)
        BY <3>1, <3>2, <4>1 DEF Sound, InOrder
      <4>2. CASE i = Len(s.kept)
        BY <3>1, <3>2, <4>2 DEF Sound, InOrder
      <4> QED
        BY <3>1, <3>2, <4>1, <4>2
    <3>4. TypingFirst(t)
      BY <3>1, <3>2, LimitsAssumption DEF Sound, TypingFirst
    <3> QED
      BY <3>1, <3>3, <3>4 DEF InOrder
  <2> QED
    BY <2>1, <2>2
<1>5. Granted(t) /\ Owed(t)
  BY <1>2 DEF Sound, Granted, Owed, IsOpen
<1> QED
  BY <1>2, <1>4, <1>5 DEF Sound, t

\* A bare acknowledgement leaves the session sound.
LEMMA AcknowledgeSound ==
    ASSUME NEW s, Sound(s)
    PROVE  Sound(Acknowledge(s))
<1>1. NoSlots \in Parts /\ NoSlots.data = <<>>
  BY NumbersAssumption DEF NoSlots, Parts
<1> QED
  BY <1>1, SlotFrameSound DEF Acknowledge

\* Counting the far end's slots leaves the session sound and its credit above
\* the low mark.
LEMMA SpendSound ==
    ASSUME NEW s, Sound(s), NEW n \in Nat
    PROVE  Sound(Spend(s, n))
<1> DEFINE due == s.sinceGrant + 1 >= Regrant
           left == IF due \/ n > s.credit THEN 0 ELSE s.credit - n
           since == IF due THEN 0 ELSE s.sinceGrant + 1
           now == IF left <= LowCredit THEN MaxCredit ELSE left
           counted == [s EXCEPT !.sinceGrant = since, !.credit = now]
<1>1. s \in Sessions
  BY DEF Sound
<1>2. /\ left \in 0 .. MaxCredit
      /\ since \in 0 .. (Regrant - 1)
      /\ now \in 0 .. MaxCredit
      /\ now > LowCredit
  <2>1. s.credit \in 0 .. MaxCredit /\ s.sinceGrant \in 0 .. (Regrant - 1)
    BY <1>1 DEF Sessions
  <2> QED
    BY <2>1, NumbersAssumption, LowCreditType
<1>3. Spend(s, n) = IF left <= LowCredit
                    THEN SlotFrame(counted, GrantSlot(s, MaxCredit - left))
                    ELSE counted
  BY DEF Spend, RunsLow
<1>4. counted \in Sessions /\ counted.credit = now /\ counted.kept = s.kept
      /\ counted.sequence = s.sequence /\ counted.state = s.state
      /\ counted.circuit = s.circuit /\ counted.theirs = s.theirs
      /\ counted.ended = s.ended /\ counted.remoteSlot = s.remoteSlot
  <2> HIDE DEF since, now
  <2> QED BY <1>1, <1>2 DEF Sessions
<1> HIDE DEF counted, now
<1>5. Sound(counted)
  BY <1>2, <1>4 DEF Sound, InOrder, TypingFirst, Granted, Owed, IsOpen
<1>6. GrantSlot(s, MaxCredit - left) \in Parts
      /\ GrantSlot(s, MaxCredit - left).data = <<>>
  <2>1. MaxCredit - left \in 0 .. MaxCredit
    BY <1>2, NumbersAssumption
  <2>2. s.remoteSlot \in Nat
    BY <1>1 DEF Sessions
  <2> QED BY <2>1, <2>2 DEF GrantSlot, Parts
<1>7. Sound(SlotFrame(counted, GrantSlot(s, MaxCredit - left)))
  BY <1>5, <1>6, SlotFrameSound
<1> QED
  BY <1>3, <1>5, <1>7

-----------------------------------------------------------------------------
(* Sending what is typed. *)

\* A whole number of slots.
LEMMA DivisionType ==
    ASSUME NEW a \in Nat, NEW b \in Nat \ {0}
    PROVE  (a + b - 1) \div b \in Nat
OBVIOUS

\* Slots times bytes in a slot are a number of bytes.
LEMMA ProductType ==
    ASSUME NEW a \in Nat, NEW b \in Nat
    PROVE  a * b \in Nat
OBVIOUS

\* A message of typing goes only where the window has room for it.
LEMMA DataFrameSound ==
    ASSUME NEW s, Sound(s), NEW most \in Nat, HasRoom(s)
    PROVE  Sound(DataFrame(s, most))
<1> DEFINE bytes == Smaller(Len(s.typed), most * MaxSlot)
           slots == (bytes + MaxSlot - 1) \div MaxSlot
           after == SubSeq(s.typed, bytes + 1, Len(s.typed))
           rest  == [s EXCEPT !.typed = after, !.credit = MaxCredit]
           chunk == SubSeq(s.typed, 1, bytes)
           m     == DataSlots(s, slots, chunk)
<1>1. s \in Sessions /\ s.typed \in Seq(Bytes)
  BY DEF Sound, Sessions
<1>2. bytes \in 0 .. Len(s.typed)
  BY <1>1, ProductType, LimitsAssumption DEF Smaller
<1>3. slots \in Nat
  <2> HIDE DEF bytes
  <2> QED BY <1>1, <1>2, DivisionType, LimitsAssumption
<1> HIDE DEF bytes, slots
<1>4. after \in Seq(Bytes) /\ chunk \in Seq(Bytes)
  BY <1>1, <1>2
<1> HIDE DEF after, chunk
<1>5. m \in Parts
  BY <1>1, <1>3, <1>4, NumbersAssumption DEF DataSlots, Parts, Sessions
<1>6. rest \in Sessions /\ rest.credit = MaxCredit /\ rest.kept = s.kept
      /\ rest.sequence = s.sequence /\ rest.state = s.state
      /\ rest.circuit = s.circuit /\ rest.theirs = s.theirs /\ rest.ended = s.ended
  <2>1. MaxCredit \in 0 .. MaxCredit
    BY NumbersAssumption
  <2> QED
    BY <1>1, <1>4, <2>1 DEF Sessions
<1>7. DataFrame(s, most) = SlotFrame(rest, m)
  BY DEF DataFrame, bytes, slots, after, chunk
<1> HIDE DEF rest, m
<1>8. Sound(rest)
  BY <1>6, LowCreditType DEF Sound, InOrder, TypingFirst, Granted, Owed, IsOpen
<1>9. Len(rest.kept) < Window
  BY <1>6 DEF HasRoom
<1> QED
  BY <1>5, <1>7, <1>8, <1>9, SlotFrameSound

\* One turn of send_typed leaves the session sound.
LEMMA SendOnceSound ==
    ASSUME NEW s, Sound(s)
    PROVE  Sound(SendOnce(s))
<1>1. CASE HasRoom(s) /\ s.allowance > 0
  <2>1. Smaller(s.allowance, SlotsPerMessage) \in Nat
    BY <1>1, LimitsAssumption DEF Sound, Sessions, Smaller
  <2> QED
    BY <1>1, <2>1, DataFrameSound DEF SendOnce
<1>2. CASE ~(HasRoom(s) /\ s.allowance > 0)
  BY <1>2 DEF SendOnce
<1> QED
  BY <1>1, <1>2

\* send_typed, whatever the allowance and the window let through.
LEMMA SendTypedSound ==
    ASSUME NEW s, Sound(s)
    PROVE  Sound(SendTyped(s))
<1>1. ASSUME NEW r, Sound(r) PROVE Sound(Send2(r))
  BY <1>1, SendOnceSound DEF Send2
<1>2. ASSUME NEW r, Sound(r) PROVE Sound(Send4(r))
  BY <1>2, <1>1 DEF Send4
<1>3. ASSUME NEW r, Sound(r) PROVE Sound(Send8(r))
  BY <1>3, <1>2 DEF Send8
<1> QED
  BY <1>3 DEF SendTyped

\* The slot a forced send lets go keeps to the window too.
LEMMA ReleaseTypingSound ==
    ASSUME NEW s, Sound(s)
    PROVE  Sound(ReleaseTyping(s))
<1>1. Sound(SendTyped(s))
  BY SendTypedSound
<1> QED
  BY <1>1, DataFrameSound DEF ReleaseTyping

-----------------------------------------------------------------------------
(* Reading a message. *)

\* Of the frames, the run messages that may arrive.
Runs == Inbound \cap RunMessages

\* A number heard is a number, whatever the far end put in the message.
LEMMA HearSound ==
    ASSUME NEW s, Sound(s), NEW m \in Runs
    PROVE  Sound(Hear(s, m))
<1> DEFINE t == [s EXCEPT !.heard = m.sequence, !.heardAny = TRUE]
<1>1. m.sequence \in Numbers
  BY DEF Runs, RunMessages
<1>2. s \in Sessions
  BY DEF Sound
<1>3. t \in Sessions /\ t.credit = s.credit /\ t.kept = s.kept
      /\ t.sequence = s.sequence /\ t.state = s.state
      /\ t.circuit = s.circuit /\ t.theirs = s.theirs /\ t.ended = s.ended
  BY <1>1, <1>2 DEF Sessions
<1> HIDE DEF t
<1>4. Sound(t)
  BY <1>3 DEF Sound, InOrder, TypingFirst, Granted, Owed, IsOpen
<1> QED
  BY <1>4 DEF Hear, t

\* What the slots of a message carry is added to what is granted and shown.
LEMMA ReadSlotsSound ==
    ASSUME NEW s, Sound(s), NEW m \in Runs
    PROVE  Sound(ReadSlots(s, m))
<1> DEFINE slot == IF m.from = 0 THEN s.remoteSlot ELSE m.from
           held == s.allowance + m.credit
           read == s.data \o m.data
           t == [s EXCEPT !.remoteSlot = slot, !.allowance = held, !.data = read]
<1>1. s \in Sessions
  BY DEF Sound
<1>2. m.from \in Nat /\ m.credit \in Nat /\ m.data \in Seq(Bytes)
  BY DEF Runs, RunMessages
<1>3. slot \in Nat \ {0} /\ held \in Int /\ read \in Seq(Bytes)
  BY <1>1, <1>2 DEF Sessions
<1>4. ReadSlots(s, m) = t
  BY DEF ReadSlots
<1> HIDE DEF slot, held, read
<1>5. t \in Sessions /\ t.credit = s.credit /\ t.kept = s.kept
      /\ t.sequence = s.sequence /\ t.state = s.state
      /\ t.circuit = s.circuit /\ t.theirs = s.theirs /\ t.ended = s.ended
  BY <1>1, <1>3 DEF Sessions
<1> HIDE DEF t
<1> QED
  BY <1>4, <1>5 DEF Sound, InOrder, TypingFirst, Granted, Owed, IsOpen

\* The messages between the last heard and this one are a natural number.
LEMMA MissedType ==
    ASSUME NEW s \in Sessions, NEW m \in Runs
    PROVE  Missed(s, m) \in Nat
<1>1. s.heard \in Numbers /\ m.sequence \in Numbers
  BY DEF Sessions, Runs, RunMessages
<1>2. CASE s.heardAny /\ Fresh(s, m)
  BY <1>1, <1>2, NumbersAssumption DEF Missed, Fresh, Newer, Distance, Numbers
<1>3. CASE ~(s.heardAny /\ Fresh(s, m))
  BY <1>3 DEF Missed
<1> QED
  BY <1>2, <1>3

\* A message that is next, and the typing it may let go, or the end it brings.
LEMMA TakeFreshSound ==
    ASSUME NEW s, Sound(s), NEW m \in Runs, NEW owed \in Nat
    PROVE  Sound(TakeFresh(s, m, owed))
<1> DEFINE heard == Acknowledge(Hear(s, m))
           read == Spend(ReadSlots(heard, m), owed + Missed(s, m))
           over == [read EXCEPT !.ended = "session ended", !.state = "Closed"]
           next == IF read.state = "Asked" THEN "Open" ELSE read.state
           open == [read EXCEPT !.state = next]
<1>1. owed + Missed(s, m) \in Nat
  BY MissedType DEF Sound
<1>2. Sound(read)
  BY <1>1, HearSound, AcknowledgeSound, ReadSlotsSound, SpendSound
<1>3. TakeFresh(s, m, owed) = IF m.ended THEN over
                              ELSE IF m.data = <<>> THEN read ELSE SendTyped(open)
  BY DEF TakeFresh
<1> HIDE DEF read
<1>4. read \in Sessions
  BY <1>2 DEF Sound
<1>5. Sound(over)
  <2>1. over \in Sessions /\ over.credit = read.credit /\ over.kept = read.kept
        /\ over.sequence = read.sequence /\ over.state = "Closed"
        /\ over.circuit = read.circuit /\ over.theirs = read.theirs
        /\ over.ended = "session ended"
    BY <1>4 DEF Sessions, States, Endings
  <2> HIDE DEF over
  <2> QED
    BY <1>2, <2>1 DEF Sound, InOrder, TypingFirst, Granted, Owed, IsOpen
<1>6. Sound(open)
  <2>1. next \in States /\ (next \in {"Asked", "Open"} <=> read.state \in {"Asked", "Open"})
    BY <1>4 DEF Sessions, States
  <2> HIDE DEF next
  <2>2. open \in Sessions /\ open.credit = read.credit /\ open.kept = read.kept
        /\ open.sequence = read.sequence /\ open.state = next
        /\ open.circuit = read.circuit /\ open.theirs = read.theirs
        /\ open.ended = read.ended
    BY <1>4, <2>1 DEF Sessions
  <2> HIDE DEF open
  <2> QED
    BY <1>2, <2>1, <2>2 DEF Sound, InOrder, TypingFirst, Granted, Owed, IsOpen
<1> HIDE DEF over, open
<1> QED
  BY <1>2, <1>3, <1>5, <1>6, SendTypedSound

\* Reading a message leaves the session sound, be it new, repeated or bare.
LEMMA TakeSound ==
    ASSUME NEW s, Sound(s), NEW m \in Runs, NEW counted \in BOOLEAN
    PROVE  Sound(Take(s, m, counted))
<1>1. m.slots \in Nat
  BY DEF Runs, RunMessages
<1>2. Sound(Hear(s, m))
  BY HearSound
<1>3. Sound(TakeAgain(s, m))
  BY <1>1, SpendSound, AcknowledgeSound DEF TakeAgain
<1>4. Sound(TakeFresh(s, m, IF counted THEN 0 ELSE m.slots))
  BY <1>1, TakeFreshSound
<1> QED
  BY <1>2, <1>3, <1>4 DEF Take

-----------------------------------------------------------------------------
(* Messages waiting behind a gap. *)

\* Of the fields that are not in an invariant, any may change.
LEMMA EarlySound ==
    ASSUME NEW s, Sound(s), NEW waiting \in SUBSET Runs
    PROVE  Sound([s EXCEPT !.early = waiting])
<1> DEFINE t == [s EXCEPT !.early = waiting]
<1>1. t \in Sessions /\ t.credit = s.credit /\ t.kept = s.kept
      /\ t.sequence = s.sequence /\ t.state = s.state
      /\ t.circuit = s.circuit /\ t.theirs = s.theirs /\ t.ended = s.ended
  BY DEF Sound, Sessions, Runs
<1> HIDE DEF t
<1>2. Sound(t)
  BY <1>1 DEF Sound, InOrder, TypingFirst, Granted, Owed, IsOpen
<1> QED
  BY <1>2 DEF t

\* One turn of drain leaves the session sound.
LEMMA TakeOneOfSound ==
    ASSUME NEW s, Sound(s), NEW waiting \in SUBSET s.early
    PROVE  Sound(TakeOneOf(s, waiting))
<1>1. s.early \subseteq Runs
  BY DEF Sound, Sessions, Runs
<1>2. Unread(s) \in SUBSET Runs
  BY <1>1 DEF Unread
<1>3. CASE waiting = {}
  BY <1>2, <1>3, EarlySound DEF TakeOneOf
<1>4. CASE waiting # {}
  <2> DEFINE m == CHOOSE w \in waiting : TRUE
             t == [s EXCEPT !.early = Unread(s) \ {m}]
  <2>1. m \in Runs
    BY <1>1, <1>4
  <2> HIDE DEF m
  <2>2. Sound(t)
    BY <1>2, EarlySound
  <2> HIDE DEF t
  <2>3. Sound(Take(t, m, TRUE))
    BY <2>1, <2>2, TakeSound
  <2> QED
    BY <1>4, <2>3 DEF TakeOneOf, t, m
<1> QED
  BY <1>3, <1>4

\* So does each turn after the first.
LEMMA FollowSound ==
    ASSUME NEW s, Sound(s)
    PROVE  Sound(Follow(s)) /\ Sound(Follow8(s))
<1>1. ASSUME NEW r, Sound(r) PROVE Sound(Follow(r))
  <2>1. NextInLine(r) \in SUBSET r.early
    BY DEF NextInLine, Unread
  <2> QED
    BY <1>1, <2>1, TakeOneOfSound DEF Follow
<1>2. ASSUME NEW r, Sound(r) PROVE Sound(Follow2(r))
  BY <1>2, <1>1 DEF Follow2
<1>3. ASSUME NEW r, Sound(r) PROVE Sound(Follow4(r))
  BY <1>3, <1>2 DEF Follow4
<1> QED
  BY <1>1, <1>3 DEF Follow8

\* Reading what waited, with the gap made good or given up.
LEMMA DrainSound ==
    ASSUME NEW s, Sound(s)
    PROVE  Sound(Drain(s)) /\ Sound(GiveUp(s))
<1>1. NextInLine(s) \in SUBSET s.early /\ Nearest(s) \in SUBSET s.early
  BY DEF NextInLine, Nearest, Unread
<1>2. Sound(TakeOneOf(s, NextInLine(s))) /\ Sound(TakeOneOf(s, Nearest(s)))
  BY <1>1, TakeOneOfSound
<1> QED
  BY <1>2, FollowSound DEF Drain, GiveUp

-----------------------------------------------------------------------------
(* What is acknowledged, and what a run message does. *)

\* A set of places of a sequence that is not empty has a last.
LEMMA LastPlace ==
    ASSUME NEW len \in Nat, NEW places \in SUBSET (1 .. len), places # {}
    PROVE  \E i \in places : \A j \in places : j <= i
<1> DEFINE ends == {len - i : i \in places}
<1>1. ends \subseteq Nat
  OBVIOUS
<1>2. ends # {}
  OBVIOUS
<1>3. \E e \in ends : \A f \in ends : <<f, e>> \notin OpToRel(<, Nat)
  <2> HIDE DEF ends
  <2> QED
    BY <1>1, <1>2, WFMin, NatLessThanWellFounded
<1>4. PICK e \in ends : \A f \in ends : ~(f < e)
  BY <1>1, <1>3, Zenon DEF OpToRel
<1>5. PICK i \in places : e = len - i
  OBVIOUS
<1>6. ASSUME NEW j \in places PROVE j <= i
  <2>1. len - j \in ends
    OBVIOUS
  <2>2. ~(len - j < len - i)
    BY <1>4, <1>5, <2>1
  <2> QED
    BY <2>2
<1> QED
  BY <1>6

\* Forgetting a first part of what is kept leaves the rest as it was.
LEMMA ShorterSound ==
    ASSUME NEW s, Sound(s), NEW n \in 1 .. Len(s.kept)
    PROVE  Sound([s EXCEPT !.kept = SubSeq(s.kept, n + 1, Len(s.kept)),
                           !.progress = TRUE, !.stalled = 0])
<1> DEFINE rest == SubSeq(s.kept, n + 1, Len(s.kept))
           t == [s EXCEPT !.kept = rest, !.progress = TRUE, !.stalled = 0]
<1>1. s \in Sessions /\ s.kept \in Seq(KeptMessages)
  BY DEF Sound, Sessions
<1>2. rest \in Seq(KeptMessages) /\ Len(rest) = Len(s.kept) - n
      /\ \A i \in 1 .. Len(rest) : rest[i] = s.kept[i + n]
  BY <1>1
<1> HIDE DEF rest
<1>3. t \in Sessions /\ t.credit = s.credit /\ t.kept = rest
      /\ t.sequence = s.sequence /\ t.state = s.state
      /\ t.circuit = s.circuit /\ t.theirs = s.theirs /\ t.ended = s.ended
  BY <1>1, <1>2 DEF Sessions
<1> HIDE DEF t
<1>4. InOrder(t)
  <2>1. \A i \in 1 .. Len(rest) - 1 : rest[i + 1].sequence = NextNumber(rest[i].sequence)
    <3> SUFFICES ASSUME NEW i \in 1 .. Len(rest) - 1
                 PROVE  rest[i + 1].sequence = NextNumber(rest[i].sequence)
      OBVIOUS
    <3>1. rest[i] = s.kept[i + n] /\ rest[i + 1] = s.kept[i + n + 1]
      BY <1>1, <1>2
    <3>2. i + n \in 1 .. Len(s.kept) - 1
      BY <1>1, <1>2
    <3> QED
      BY <3>1, <3>2 DEF Sound, InOrder
  <2>2. ASSUME rest # <<>> PROVE rest[Len(rest)].sequence = s.sequence
    <3>1. Len(rest) \in 1 .. Len(rest)
      BY <1>1, <1>2, <2>2
    <3>2. rest[Len(rest)] = s.kept[Len(s.kept)] /\ s.kept # <<>>
      BY <1>1, <1>2, <3>1
    <3> QED
      BY <3>2 DEF Sound, InOrder
  <2> QED
    BY <1>3, <2>1, <2>2 DEF InOrder
<1>5. TypingFirst(t)
  BY <1>1, <1>2, <1>3, LimitsAssumption DEF Sound, TypingFirst
<1>6. Sound(t)
  BY <1>3, <1>4, <1>5 DEF Sound, Granted, Owed, IsOpen
<1> QED
  BY <1>6 DEF t, rest

\* An acknowledgement, of whatever number, leaves the session sound.
LEMMA ForgetSound ==
    ASSUME NEW s, Sound(s), NEW number
    PROVE  Sound(Forget(s, number))
<1> DEFINE done == Acknowledged(s, number)
           n == CHOOSE i \in done : \A j \in done : j <= i
<1>1. CASE done = {}
  BY <1>1 DEF Forget
<1>2. CASE done # {}
  <2>1. Len(s.kept) \in Nat /\ done \in SUBSET (1 .. Len(s.kept))
    BY DEF Sound, Sessions, Acknowledged
  <2> HIDE DEF done
  <2>2. \E i \in done : \A j \in done : j <= i
    BY <1>2, <2>1, LastPlace
  <2>3. n \in 1 .. Len(s.kept)
    BY <2>1, <2>2
  <2> HIDE DEF n
  <2>4. Sound(SendTyped([s EXCEPT !.kept = SubSeq(s.kept, n + 1, Len(s.kept)),
                                  !.progress = TRUE, !.stalled = 0]))
    BY <2>3, ShorterSound, SendTypedSound
  <2> QED
    BY <1>2, <2>4 DEF Forget, done, n
<1> QED
  BY <1>1, <1>2

\* A message after a gap leaves the session sound, held or given up.
LEMMA RunAfterGapSound ==
    ASSUME NEW s, Sound(s), NEW m \in Runs
    PROVE  Sound(RunAfterGap(s, m))
<1> DEFINE waiting == {w \in s.early : w.sequence # m.sequence} \cup {m}
<1>1. waiting \in SUBSET Runs
  BY DEF Sound, Sessions, Runs
<1>2. m.slots \in Nat
  BY DEF Runs, RunMessages
<1>3. Hold(s, m) = Spend([s EXCEPT !.early = waiting], m.slots)
  BY DEF Hold
<1> HIDE DEF waiting
<1>4. Sound(Hold(s, m))
  BY <1>1, <1>2, <1>3, EarlySound, SpendSound
<1> QED
  BY <1>4, DrainSound, AcknowledgeSound DEF RunAfterGap

\* Any run message at all leaves the session sound.
LEMMA RunSound ==
    ASSUME NEW s, Sound(s), NEW m \in Runs
    PROVE  Sound(Run(s, m))
<1> DEFINE known == Forget(s, m.acknowledged)
<1>1. Sound(known)
  BY ForgetSound
<1> HIDE DEF known
<1>2. Sound(RunAfterGap(known, m)) /\ Sound(Drain(Take(known, m, FALSE)))
  BY <1>1, RunAfterGapSound, TakeSound, DrainSound
<1> QED
  BY <1>2 DEF Run, known

-----------------------------------------------------------------------------
(* The other frames, and what the transport asks for. *)

\* An answer to the call opens a circuit that is named and can be taken down.
LEMMA AgreedSound ==
    ASSUME NEW s, Sound(s), NEW m \in StartMessages
    PROVE  Sound(Agreed(s, m))
<1> DEFINE named == [s EXCEPT !.theirs = m.ours]
           asked == SlotFrame(named, AskSlot)
           open == [asked EXCEPT !.credit = MaxCredit, !.circuit = TRUE, !.state = "Asked"]
<1> SUFFICES ASSUME s.state = "Calling"
             PROVE  Sound(open)
  BY DEF Agreed
<1>1. m.ours \in Identifiers /\ m.ours # Unnamed
  BY DEF StartMessages
<1>2. named \in Sessions /\ named.credit = s.credit /\ named.kept = s.kept
      /\ named.sequence = s.sequence /\ named.state = "Calling"
      /\ named.circuit = s.circuit /\ named.theirs = m.ours /\ named.ended = s.ended
  BY <1>1 DEF Sound, Sessions
<1> HIDE DEF named
<1>3. Sound(named)
  BY <1>1, <1>2 DEF Sound, InOrder, TypingFirst, Granted, Owed, IsOpen
<1>4. AskSlot \in Parts /\ AskSlot.data = <<>>
  BY NumbersAssumption DEF AskSlot, Parts
<1>5. Sound(asked) /\ asked.theirs = m.ours
  BY <1>2, <1>3, <1>4, SlotFrameSound, SlotFrameFields
<1> HIDE DEF asked
<1>6. MaxCredit \in 0 .. MaxCredit /\ "Asked" \in States
  BY NumbersAssumption DEF States
<1>7. open \in Sessions /\ open.credit = MaxCredit /\ open.kept = asked.kept
      /\ open.sequence = asked.sequence /\ open.state = "Asked"
      /\ open.circuit = TRUE /\ open.theirs = m.ours
  BY <1>5, <1>6 DEF Sound, Sessions
<1> HIDE DEF open
<1> QED
  BY <1>1, <1>5, <1>7, LowCreditType
     DEF Sound, InOrder, TypingFirst, Granted, Owed, IsOpen

\* Only the state, the ending, the circuit, the counts and the frames out
\* change, and the circuit is either down or left standing by an ending that
\* takes it down later.
LEMMA EndedSound ==
    ASSUME NEW s, Sound(s), NEW t \in Sessions,
           t.kept = s.kept, t.sequence = s.sequence, t.theirs = s.theirs,
           ~IsOpen(t),
           t.circuit => s.circuit /\ t.ended \in {"session ended", "stopped accepting"}
    PROVE  Sound(t)
BY DEF Sound, InOrder, TypingFirst, Granted, Owed

\* A stop leaves no circuit to take down.
LEMMA StoppedSound ==
    ASSUME NEW s, Sound(s), NEW m
    PROVE  Sound(Stopped(s, m))
<1> DEFINE t == [s EXCEPT !.state = "Closed", !.circuit = FALSE, !.ended = "circuit closed"]
<1>1. t \in Sessions /\ t.kept = s.kept /\ t.sequence = s.sequence
      /\ t.theirs = s.theirs /\ t.state = "Closed" /\ t.circuit = FALSE
  BY DEF Sound, Sessions, States, Endings
<1> HIDE DEF t
<1>2. Sound(t)
  BY <1>1, EndedSound DEF IsOpen
<1> QED
  BY <1>2 DEF Stopped, t

\* Any message at all leaves the session sound.
LEMMA ReceiveSound ==
    ASSUME NEW s, Sound(s), NEW m \in Inbound
    PROVE  Sound(Receive(s, m))
<1>1. CASE m.kind = "start"
  <2>1. m \in StartMessages
    BY <1>1, InboundAssumption DEF StartMessages, RunMessages, StopMessages
  <2> QED
    BY <1>1, <2>1, AgreedSound DEF Receive
<1>2. CASE m.kind = "run"
  <2>1. m \in Runs
    BY <1>2, InboundAssumption DEF Runs, StartMessages, RunMessages, StopMessages
  <2> QED
    BY <1>2, <2>1, RunSound DEF Receive
<1>3. CASE m.kind = "stop"
  BY <1>3, StoppedSound DEF Receive
<1>4. CASE m.kind \notin {"start", "run", "stop"}
  BY <1>4 DEF Receive
<1> QED
  BY <1>1, <1>2, <1>3, <1>4

\* Nothing that says what a session is is in what it has put out.
LEMMA FlushedSound ==
    ASSUME NEW s, Sound(s)
    PROVE  /\ Sound(Flushed(s))
           /\ Flushed(s).state = s.state /\ Flushed(s).circuit = s.circuit
           /\ Flushed(s).ended = s.ended
<1> DEFINE t == Flushed(s)
           noFrames == <<>>
           noBytes == <<>>
<1>1. noFrames \in Seq(Frames) /\ noBytes \in Seq(Bytes)
  OBVIOUS
<1>2. t = [s EXCEPT !.outgoing = noFrames, !.data = noBytes]
  BY DEF Flushed
<1> HIDE DEF t, noFrames, noBytes
<1>3. t \in Sessions /\ t.credit = s.credit /\ t.kept = s.kept
      /\ t.sequence = s.sequence /\ t.state = s.state
      /\ t.circuit = s.circuit /\ t.theirs = s.theirs /\ t.ended = s.ended
  BY <1>1, <1>2 DEF Sound, Sessions
<1>4. Sound(t)
  BY <1>3 DEF Sound, InOrder, TypingFirst, Granted, Owed, IsOpen
<1> QED
  BY <1>3, <1>4 DEF t

\* A call leaves the session sound.
LEMMA CallSound ==
    ASSUME NEW s, Sound(s), s.state \in {"New", "Calling"}
    PROVE  Sound(Call(s))
<1> DEFINE t == Call(s)
           out == Append(s.outgoing, StartFrame)
<1>1. out \in Seq(Frames)
  BY NamesAssumption DEF Sound, Sessions, Frames, StartFrame
<1>2. t = [s EXCEPT !.outgoing = out, !.state = "Calling"]
  BY DEF Call
<1> HIDE DEF out, t
<1>3. t \in Sessions /\ t.kept = s.kept /\ t.sequence = s.sequence
      /\ t.state = "Calling" /\ t.circuit = s.circuit /\ t.theirs = s.theirs
      /\ t.ended = s.ended
  BY <1>1, <1>2 DEF Sound, Sessions, States
<1>4. t.circuit => t.ended \in {"session ended", "stopped accepting"}
  BY <1>3 DEF Sound, Owed, IsOpen
<1>5. Sound(t)
  BY <1>3, <1>4, EndedSound DEF IsOpen
<1> QED
  BY <1>5 DEF t

\* Typing, of any length, leaves the session sound.
LEMMA WriteSound ==
    ASSUME NEW s, Sound(s), NEW bytes \in Seq(Bytes)
    PROVE  Sound(Write(s, bytes))
<1> DEFINE typed == s.typed \o bytes
           t == [s EXCEPT !.typed = typed]
<1>1. typed \in Seq(Bytes)
  BY DEF Sound, Sessions
<1>2. Write(s, bytes) = IF s.state = "Closed" THEN s ELSE SendTyped(t)
  BY DEF Write
<1> HIDE DEF typed
<1>3. t \in Sessions /\ t.credit = s.credit /\ t.kept = s.kept
      /\ t.sequence = s.sequence /\ t.state = s.state
      /\ t.circuit = s.circuit /\ t.theirs = s.theirs /\ t.ended = s.ended
  BY <1>1 DEF Sound, Sessions
<1> HIDE DEF t
<1>4. Sound(t)
  BY <1>3 DEF Sound, InOrder, TypingFirst, Granted, Owed, IsOpen
<1> QED
  BY <1>2, <1>4, SendTypedSound

\* Sending again, or giving up on it, leaves the session sound.
LEMMA RetransmitSound ==
    ASSUME NEW s, Sound(s)
    PROVE  Sound(Retransmit(s))
<1> DEFINE count == s.stalled + 1
           again == [i \in 1 .. Len(s.kept) |-> RunFrame(s, s.kept[i])]
           out == s.outgoing \o again
           over == [s EXCEPT !.stalled = count, !.state = "Closed",
                             !.ended = "stopped accepting"]
           sent == [s EXCEPT !.stalled = count, !.outgoing = out]
<1>1. s \in Sessions /\ s.kept \in Seq(KeptMessages) /\ count \in Nat
  BY DEF Sound, Sessions
<1>2. \A i \in 1 .. Len(s.kept) : RunFrame(s, s.kept[i]) \in Frames
  <2> SUFFICES ASSUME NEW i \in 1 .. Len(s.kept)
               PROVE  RunFrame(s, s.kept[i]) \in Frames
    OBVIOUS
  <2>1. s.kept[i] \in KeptMessages
    BY <1>1
  <2> QED
    BY <1>1, <2>1, NamesAssumption DEF RunFrame, Frames, KeptMessages, Sessions
<1>3. again \in Seq(Frames)
  BY <1>1, <1>2
<1> HIDE DEF again
<1>4. out \in Seq(Frames)
  BY <1>1, <1>3 DEF Sessions
<1>5. Retransmit(s) = IF ~Awaiting(s) THEN s
                      ELSE IF count > RetransmitLimit THEN over ELSE sent
  BY DEF Retransmit, again
<1> HIDE DEF count, out
<1>6. Sound(over)
  <2>1. over \in Sessions /\ over.kept = s.kept /\ over.sequence = s.sequence
        /\ over.theirs = s.theirs /\ over.state = "Closed"
        /\ over.circuit = s.circuit /\ over.ended = "stopped accepting"
    BY <1>1 DEF Sessions, States, Endings
  <2> HIDE DEF over
  <2> QED
    BY <2>1, EndedSound DEF IsOpen
<1>7. Sound(sent)
  <2>1. sent \in Sessions /\ sent.credit = s.credit /\ sent.kept = s.kept
        /\ sent.sequence = s.sequence /\ sent.state = s.state
        /\ sent.circuit = s.circuit /\ sent.theirs = s.theirs /\ sent.ended = s.ended
    BY <1>1, <1>4 DEF Sessions
  <2> HIDE DEF sent
  <2> QED
    BY <2>1 DEF Sound, InOrder, TypingFirst, Granted, Owed, IsOpen
<1> HIDE DEF over, sent
<1> QED
  BY <1>5, <1>6, <1>7

\* A far end that has gone leaves no circuit to take down.
LEMMA PeerGoneSound ==
    ASSUME NEW s, Sound(s)
    PROVE  Sound(PeerGone(s))
<1> DEFINE t == [s EXCEPT !.ended = "stopped answering", !.state = "Closed",
                          !.circuit = FALSE]
<1>1. t \in Sessions /\ t.kept = s.kept /\ t.sequence = s.sequence
      /\ t.theirs = s.theirs /\ t.state = "Closed" /\ t.circuit = FALSE
  BY DEF Sound, Sessions, States, Endings
<1> HIDE DEF t
<1>2. Sound(t)
  BY <1>1, EndedSound DEF IsOpen
<1> QED
  BY <1>2 DEF PeerGone, t

\* Closing takes down whatever circuit there is.
LEMMA CloseSound ==
    ASSUME NEW s, Sound(s)
    PROVE  Sound(Close(s))
<1> DEFINE t == Close(s)
           out == IF s.circuit THEN Append(s.outgoing, StopFrame(s)) ELSE s.outgoing
<1>1. out \in Seq(Frames)
  BY NamesAssumption DEF Sound, Sessions, Frames, StopFrame
<1>2. t = [s EXCEPT !.outgoing = out, !.circuit = FALSE, !.state = "Closed"]
  BY DEF Close
<1> HIDE DEF out, t
<1>3. t \in Sessions /\ t.kept = s.kept /\ t.sequence = s.sequence
      /\ t.state = "Closed" /\ t.circuit = FALSE /\ t.theirs = s.theirs
  BY <1>1, <1>2 DEF Sound, Sessions, States
<1>4. Sound(t)
  BY <1>3, EndedSound DEF IsOpen
<1> QED
  BY <1>4 DEF t

-----------------------------------------------------------------------------
(* The specification. *)

\* The inductive invariant: the session's record is sound.
IInv == Sound(session) /\ forced \in Nat

\* A session that has done nothing is sound.
LEMMA InitSound == Init => IInv
<1>1. NewSession \in Sessions
  BY NumbersAssumption, NamesAssumption
     DEF NewSession, Sessions, States, Numbers, Endings
<1>2. NewSession.kept = <<>> /\ NewSession.circuit = FALSE /\ NewSession.state = "New"
  BY DEF NewSession
<1>3. Sound(NewSession)
  <2>1. Len(NewSession.kept) = 0
    BY <1>2
  <2>2. InOrder(NewSession)
    BY <1>2, <2>1 DEF InOrder
  <2>3. TypingFirst(NewSession)
    BY <1>2, <2>1 DEF TypingFirst
  <2>4. Granted(NewSession) /\ Owed(NewSession)
    BY <1>2 DEF Granted, Owed, IsOpen
  <2> QED
    BY <1>1, <2>2, <2>3, <2>4 DEF Sound
<1> QED
  BY <1>3 DEF Init, IInv

\* Every action leaves the session sound.
LEMMA NextSound == IInv /\ [Next]_vars => IInv'
<1> SUFFICES ASSUME IInv, [Next]_vars
             PROVE  IInv'
  OBVIOUS
<1> DEFINE idle == Flushed(session)
<1>1. Sound(idle) /\ idle.state = session.state
  BY FlushedSound DEF IInv
<1> HIDE DEF idle
<1>2. CASE CallNode
  BY <1>1, <1>2, CallSound DEF CallNode, Do, IInv, idle
<1>3. ASSUME NEW m \in Inbound, HearFrame(m) PROVE IInv'
  BY <1>1, <1>3, ReceiveSound DEF HearFrame, Do, IInv, idle
<1>4. ASSUME NEW bytes \in Typing, TypeKeys(bytes) PROVE IInv'
  BY <1>1, <1>4, WriteSound, TypingAssumption DEF TypeKeys, Do, IInv, idle
<1>5. CASE HoldExpires
  BY <1>1, <1>5, ReleaseTypingSound DEF HoldExpires, Do, IInv, idle
<1>6. CASE RetransmitDue
  BY <1>1, <1>6, RetransmitSound DEF RetransmitDue, Do, IInv, idle
<1>7. CASE Dead
  BY <1>1, <1>7, PeerGoneSound DEF Dead, Do, IInv, idle
<1>8. CASE KeepaliveDue
  BY <1>1, <1>8, AcknowledgeSound DEF KeepaliveDue, Do, IInv, Keepalive, idle
<1>9. CASE Drop
  BY <1>1, <1>9, CloseSound DEF Drop, Do, IInv, idle
<1>10. CASE UNCHANGED vars
  BY <1>10 DEF vars, IInv
<1> QED
  BY <1>2, <1>3, <1>4, <1>5, <1>6, <1>7, <1>8, <1>9, <1>10 DEF Next

\* Every state of every behaviour is sound.
LEMMA SoundAlways == Spec => []IInv
BY InitSound, NextSound, PTL DEF Spec

\* Whatever frames arrive and whatever is typed, the numbers a session sends
\* stay in their byte and the credits in their nibble.
THEOREM TypeCorrect == Spec => []TypeOK
<1>1. IInv => TypeOK
  BY DEF IInv, Sound, TypeOK
<1> QED
  BY <1>1, SoundAlways, PTL

\* What is unacknowledged is always kept, whole and in order.
THEOREM NothingKeptIsSkipped == Spec => []KeptInOrder
<1>1. IInv => KeptInOrder
  BY DEF IInv, Sound, KeptInOrder
<1> QED
  BY <1>1, SoundAlways, PTL

\* Typing keeps to the window, whatever grants of credit do beyond it.
THEOREM TypingKeepsToWindow == Spec => []TypingInsideWindow
<1>1. IInv => TypingInsideWindow
  BY DEF IInv, Sound, TypingInsideWindow
<1> QED
  BY <1>1, SoundAlways, PTL

\* No arrival leaves an open circuit's far end, as reckoned here, with no more
\* than the low mark to spend.
THEOREM CreditIsRestored == Spec => []CreditAboveLowMark
<1>1. IInv => CreditAboveLowMark
  BY DEF IInv, Sound, CreditAboveLowMark
<1> QED
  BY <1>1, SoundAlways, PTL

\* The circuit is there to be taken down for as long as it is owed.
THEOREM CircuitIsOwed == Spec => []CircuitOwed
<1>1. IInv => CircuitOwed
  BY DEF IInv, Sound, CircuitOwed
<1> QED
  BY <1>1, SoundAlways, PTL

-----------------------------------------------------------------------------
(***************************************************************************)
(* Beyond the soundness of the record: what waits behind a gap waits as it  *)
(* should, the far end's allowance is kept to, the number heard never goes  *)
(* back and an end is final.                                                *)
(*                                                                          *)
(* Above, each operation has a lemma that it leaves a sound record; here    *)
(* each has one that says what it leaves alone.  An operation that sends    *)
(* leaves alone everything to do with reading (Sends); one that reads a     *)
(* message may move the number heard to the message's own (Reads); and the  *)
(* turns of drain come to an end because each reads one of the at most      *)
(* GapPatience messages that wait.                                          *)
(***************************************************************************)

\* t is what sending makes of s: nothing heard, held or ended, and an
\* allowance not overdrawn further than it was.
Sends(s, t) ==
    /\ t.heard = s.heard /\ t.heardAny = s.heardAny /\ t.early = s.early
    /\ t.state = s.state /\ t.ended = s.ended
    /\ t.allowance >= Smaller(s.allowance, 0)

\* What is sent and sent again is sent.
LEMMA SendsOn ==
    ASSUME NEW r \in Sessions, NEW s \in Sessions, NEW t \in Sessions,
           Sends(r, s), Sends(s, t)
    PROVE  Sends(r, t)
<1>1. r.allowance \in Int /\ s.allowance \in Int /\ t.allowance \in Int
  BY DEF Sessions
<1> QED
  BY <1>1 DEF Sends, Smaller

-----------------------------------------------------------------------------
(* What the operations that send leave alone. *)

\* slot_frame spends as many slots as the message has, if it carries data.
LEMMA SlotFrameSpends ==
    ASSUME NEW s \in Sessions, NEW m \in Parts
    PROVE  LET t == SlotFrame(s, m)
           IN  /\ t.heard = s.heard /\ t.heardAny = s.heardAny /\ t.early = s.early
               /\ t.state = s.state /\ t.ended = s.ended
               /\ t.allowance = s.allowance - Spending(m)
               /\ t.data = s.data
BY DEF SlotFrame, Sessions

\* A message with no data in it spends nothing.
LEMMA SlotFrameSends ==
    ASSUME NEW s \in Sessions, NEW m \in Parts, m.data = <<>>
    PROVE  Sends(s, SlotFrame(s, m))
<1>1. SlotFrame(s, m).allowance = s.allowance
  BY SlotFrameSpends DEF Spending, Sessions
<1> QED
  BY <1>1, SlotFrameSpends DEF Sends, Smaller, Sessions

\* An acknowledgement spends nothing.
LEMMA AcknowledgeSends ==
    ASSUME NEW s \in Sessions
    PROVE  Sends(s, Acknowledge(s))
<1>1. NoSlots \in Parts /\ NoSlots.data = <<>>
  BY NumbersAssumption DEF NoSlots, Parts
<1> QED
  BY <1>1, SlotFrameSends DEF Acknowledge

\* A reckoning of the far end's credit spends none of this end's allowance.
LEMMA SpendSends ==
    ASSUME NEW s \in Sessions, NEW n \in Nat
    PROVE  Sends(s, Spend(s, n))
<1> DEFINE due == s.sinceGrant + 1 >= Regrant
           left == IF due \/ n > s.credit THEN 0 ELSE s.credit - n
           since == IF due THEN 0 ELSE s.sinceGrant + 1
           now == IF left <= LowCredit THEN MaxCredit ELSE left
           counted == [s EXCEPT !.sinceGrant = since, !.credit = now]
           grant == GrantSlot(s, MaxCredit - left)
<1>1. /\ left \in 0 .. MaxCredit /\ since \in 0 .. (Regrant - 1) /\ now \in 0 .. MaxCredit
  BY NumbersAssumption, LowCreditType, SMTT(60) DEF Sessions
<1>2. Spend(s, n) = IF left <= LowCredit THEN SlotFrame(counted, grant) ELSE counted
  BY DEF Spend, RunsLow
<1>3. grant \in Parts /\ grant.data = <<>>
  <2>1. MaxCredit - left \in 0 .. MaxCredit
    BY <1>1, NumbersAssumption
  <2>2. s.remoteSlot \in Nat
    BY DEF Sessions
  <2> QED BY <2>1, <2>2 DEF GrantSlot, Parts
<1> HIDE DEF since, now, grant
<1>4. counted \in Sessions /\ Sends(s, counted)
  <2>1. /\ counted \in Sessions /\ counted.allowance = s.allowance
        /\ counted.heard = s.heard /\ counted.heardAny = s.heardAny
        /\ counted.early = s.early /\ counted.state = s.state /\ counted.ended = s.ended
    BY <1>1 DEF Sessions
  <2>2. s.allowance \in Int
    BY DEF Sessions
  <2> HIDE DEF counted
  <2> QED
    BY <2>1, <2>2 DEF Sends, Smaller
<1> HIDE DEF counted
<1>5. Sends(counted, SlotFrame(counted, grant)) /\ SlotFrame(counted, grant) \in Sessions
  BY <1>3, <1>4, SlotFrameSends, SlotFrameFields
<1>6. Sends(s, SlotFrame(counted, grant))
  BY <1>4, <1>5, SendsOn
<1> QED
  BY <1>2, <1>4, <1>6

\* A number of bytes that fits in q slots of b bytes takes no more than q.
LEMMA DivisionBound ==
    ASSUME NEW a \in Nat, NEW b \in Nat \ {0}, NEW q \in Nat, a <= q * b
    PROVE  (a + b - 1) \div b <= q
<1> DEFINE d == (a + b - 1) \div b
<1>1. d \in Nat /\ d * b <= a + b - 1
  OBVIOUS
<1>2. SUFFICES ASSUME d >= q + 1 PROVE FALSE
  BY <1>1
<1> HIDE DEF d
<1>3. d * b >= (q + 1) * b
  BY <1>1, <1>2
<1>4. (q + 1) * b = q * b + b
  OBVIOUS
<1> QED
  BY <1>1, <1>3, <1>4

\* A message of typing spends no more slots than it may have.
LEMMA DataFrameSpends ==
    ASSUME NEW s, Sound(s), NEW most \in Nat
    PROVE  LET t == DataFrame(s, most)
           IN  /\ t.heard = s.heard /\ t.heardAny = s.heardAny /\ t.early = s.early
               /\ t.state = s.state /\ t.ended = s.ended
               /\ t.allowance >= s.allowance - most
<1> DEFINE bytes == Smaller(Len(s.typed), most * MaxSlot)
           slots == (bytes + MaxSlot - 1) \div MaxSlot
           after == SubSeq(s.typed, bytes + 1, Len(s.typed))
           rest  == [s EXCEPT !.typed = after, !.credit = MaxCredit]
           chunk == SubSeq(s.typed, 1, bytes)
           m     == DataSlots(s, slots, chunk)
<1>1. s \in Sessions /\ s.typed \in Seq(Bytes)
  BY DEF Sound, Sessions
<1>2. most * MaxSlot \in Nat
  BY ProductType, LimitsAssumption
<1>3. bytes \in 0 .. Len(s.typed) /\ bytes <= most * MaxSlot
  BY <1>1, <1>2 DEF Smaller
<1>4. slots \in Nat /\ slots <= most
  <2> HIDE DEF bytes
  <2>1. bytes \in Nat /\ MaxSlot \in Nat \ {0}
    BY <1>1, <1>3, LimitsAssumption
  <2> QED BY <1>3, <2>1, DivisionType, DivisionBound
<1> HIDE DEF bytes, slots
<1>5. after \in Seq(Bytes) /\ chunk \in Seq(Bytes)
  BY <1>1, <1>3
<1> HIDE DEF after, chunk
<1>6. m \in Parts /\ m.slots = slots
  BY <1>1, <1>4, <1>5, NumbersAssumption DEF DataSlots, Parts, Sessions
<1>7. rest \in Sessions /\ rest.heard = s.heard /\ rest.heardAny = s.heardAny
      /\ rest.early = s.early /\ rest.state = s.state /\ rest.ended = s.ended
      /\ rest.allowance = s.allowance
  <2>1. MaxCredit \in 0 .. MaxCredit
    BY NumbersAssumption
  <2> QED
    BY <1>1, <1>5, <2>1 DEF Sessions
<1>8. DataFrame(s, most) = SlotFrame(rest, m)
  BY DEF DataFrame, bytes, slots, after, chunk
<1> HIDE DEF rest, m
<1>9. Spending(m) \in 0 .. most
  BY <1>4, <1>6 DEF Spending
<1>10. s.allowance \in Int
  BY <1>1 DEF Sessions
<1> QED
  BY <1>6, <1>7, <1>8, <1>9, <1>10, SlotFrameSpends

\* A turn of send_typed spends no more than the allowance.
LEMMA SendOnceSends ==
    ASSUME NEW s, Sound(s)
    PROVE  Sends(s, SendOnce(s))
<1>1. s \in Sessions /\ s.allowance \in Int
  BY DEF Sound, Sessions
<1>2. CASE HasRoom(s) /\ s.allowance > 0
  <2> DEFINE most == Smaller(s.allowance, SlotsPerMessage)
  <2>1. most \in Nat /\ most <= s.allowance
    BY <1>1, <1>2, LimitsAssumption DEF Smaller
  <2>2. SendOnce(s) = DataFrame(s, most)
    BY <1>2 DEF SendOnce
  <2> HIDE DEF most
  <2>3. DataFrame(s, most) \in Sessions
    BY <1>2, <2>1, DataFrameSound DEF Sound
  <2>4. DataFrame(s, most).allowance \in Int
    BY <2>3 DEF Sessions
  <2>5. DataFrame(s, most).allowance >= s.allowance - most
    BY <2>1, DataFrameSpends
  <2>6. DataFrame(s, most).allowance >= Smaller(s.allowance, 0)
    BY <1>1, <1>2, <2>1, <2>4, <2>5 DEF Smaller
  <2> QED
    BY <2>1, <2>2, <2>6, DataFrameSpends DEF Sends
<1>3. CASE ~(HasRoom(s) /\ s.allowance > 0)
  <2>1. SendOnce(s) = s
    BY <1>3 DEF SendOnce
  <2> QED
    BY <1>1, <2>1 DEF Sends, Smaller
<1> QED
  BY <1>2, <1>3

\* send_typed spends no more than the allowance.
LEMMA SendTypedSends ==
    ASSUME NEW s, Sound(s)
    PROVE  Sends(s, SendTyped(s))
<1>1. ASSUME NEW r, Sound(r) PROVE Sound(Send2(r)) /\ Sends(r, Send2(r))
  <2>1. /\ Sound(SendOnce(r)) /\ Sound(SendOnce(SendOnce(r)))
        /\ Sends(r, SendOnce(r)) /\ Sends(SendOnce(r), SendOnce(SendOnce(r)))
    BY <1>1, SendOnceSound, SendOnceSends
  <2> QED
    BY <1>1, <2>1, SendsOn DEF Send2, Sound
<1>2. ASSUME NEW r, Sound(r) PROVE Sound(Send4(r)) /\ Sends(r, Send4(r))
  <2>1. /\ Sound(Send2(r)) /\ Sound(Send2(Send2(r)))
        /\ Sends(r, Send2(r)) /\ Sends(Send2(r), Send2(Send2(r)))
    BY <1>1, <1>2
  <2> QED
    BY <1>2, <2>1, SendsOn DEF Send4, Sound
<1>3. ASSUME NEW r, Sound(r) PROVE Sound(Send8(r)) /\ Sends(r, Send8(r))
  <2>1. /\ Sound(Send4(r)) /\ Sound(Send4(Send4(r)))
        /\ Sends(r, Send4(r)) /\ Sends(Send4(r), Send4(Send4(r)))
    BY <1>2, <1>3
  <2> QED
    BY <1>3, <2>1, SendsOn DEF Send8, Sound
<1>4. /\ Sound(Send8(s)) /\ Sound(Send8(Send8(s)))
      /\ Sends(s, Send8(s)) /\ Sends(Send8(s), Send8(Send8(s)))
  BY <1>3
<1> QED
  BY <1>4, SendsOn DEF SendTyped, Sound

\* The slot of typing that goes without an allowance overdraws it by one.
LEMMA ReleaseTypingSends ==
    ASSUME NEW s, Sound(s)
    PROVE  LET t == ReleaseTyping(s)
           IN  /\ t.heard = s.heard /\ t.heardAny = s.heardAny /\ t.early = s.early
               /\ t.state = s.state /\ t.ended = s.ended
               /\ t.allowance >= Smaller(s.allowance, 0)
                                 - (IF HasRoom(SendTyped(s)) THEN 1 ELSE 0)
<1> DEFINE sent == SendTyped(s)
           last == DataFrame(sent, 1)
<1>1. Sound(sent) /\ Sends(s, sent)
  BY SendTypedSound, SendTypedSends
<1>2. s.allowance \in Int /\ sent.allowance \in Int
  BY <1>1 DEF Sound, Sessions
<1>3. ReleaseTyping(s) = IF HasRoom(sent) THEN last ELSE sent
  BY DEF ReleaseTyping
<1> HIDE DEF sent
<1>4. CASE HasRoom(sent)
  <2>1. /\ last.heard = sent.heard /\ last.heardAny = sent.heardAny
        /\ last.early = sent.early /\ last.state = sent.state /\ last.ended = sent.ended
        /\ last.allowance >= sent.allowance - 1
    BY <1>1, DataFrameSpends
  <2>2. last.allowance \in Int
    BY <1>1, <1>4, DataFrameSound DEF Sound, Sessions
  <2> HIDE DEF last
  <2> QED
    BY <1>1, <1>2, <1>3, <1>4, <2>1, <2>2 DEF Sends, Smaller, sent
<1>5. CASE ~HasRoom(sent)
  BY <1>1, <1>2, <1>3, <1>5 DEF Sends, Smaller, sent
<1> QED
  BY <1>4, <1>5

\* Typing and acknowledgements that arrive spend no more than the allowance.
LEMMA ForgetSends ==
    ASSUME NEW s, Sound(s), NEW number
    PROVE  Sends(s, Forget(s, number))
<1> DEFINE done == Acknowledged(s, number)
           n == CHOOSE i \in done : \A j \in done : j <= i
           rest == SubSeq(s.kept, n + 1, Len(s.kept))
           t == [s EXCEPT !.kept = rest, !.progress = TRUE, !.stalled = 0]
<1>1. s \in Sessions /\ s.allowance \in Int
  BY DEF Sound, Sessions
<1>2. CASE done = {}
  <2>1. Forget(s, number) = s
    BY <1>2 DEF Forget
  <2> QED
    BY <1>1, <2>1 DEF Sends, Smaller
<1>3. CASE done # {}
  <2>1. Len(s.kept) \in Nat /\ done \in SUBSET (1 .. Len(s.kept))
    BY DEF Sound, Sessions, Acknowledged
  <2>2. Forget(s, number) = SendTyped(t)
    BY <1>3 DEF Forget
  <2> HIDE DEF done
  <2>3. \E i \in done : \A j \in done : j <= i
    BY <1>3, <2>1, LastPlace
  <2>4. n \in 1 .. Len(s.kept)
    BY <2>1, <2>3
  <2> HIDE DEF n
  <2>5. Sound(t)
    BY <2>4, ShorterSound
  <2>6. /\ t.heard = s.heard /\ t.heardAny = s.heardAny /\ t.early = s.early
        /\ t.state = s.state /\ t.ended = s.ended /\ t.allowance = s.allowance
    BY <1>1 DEF Sessions
  <2> HIDE DEF t
  <2>7. Sends(s, t)
    BY <1>1, <2>6 DEF Sends, Smaller
  <2>8. Sends(t, SendTyped(t)) /\ SendTyped(t) \in Sessions /\ t \in Sessions
    BY <2>5, SendTypedSends, SendTypedSound DEF Sound
  <2> QED
    BY <1>1, <2>2, <2>7, <2>8, SendsOn
<1> QED
  BY <1>2, <1>3

-----------------------------------------------------------------------------
(* What reading a message leaves alone. *)

\* t is what reading m makes of s: its number heard if it is a new one, what
\* waits left waiting, and the session open or ended.
Reads(s, m, t) ==
    /\ t.heard = (IF Fresh(s, m) THEN m.sequence ELSE s.heard)
    /\ t.heardAny = TRUE
    /\ t.early = s.early
    /\ t.state \in {s.state, "Closed"} \/ (s.state = "Asked" /\ t.state = "Open")
    /\ t.allowance >= Smaller(s.allowance, 0)

\* Hearing a number changes nothing else.
LEMMA HearReads ==
    ASSUME NEW s, Sound(s), NEW m \in Runs
    PROVE  Reads(s, m, Hear(s, m)) /\ Hear(s, m).state = s.state
<1>1. s \in Sessions /\ s.allowance \in Int /\ s.heardAny \in BOOLEAN
  BY DEF Sound, Sessions
<1>2. CASE Fresh(s, m)
  <2> DEFINE t == [s EXCEPT !.heard = m.sequence, !.heardAny = TRUE]
  <2>1. Hear(s, m) = t
    BY <1>2 DEF Hear
  <2>2. /\ t.heard = m.sequence /\ t.heardAny = TRUE /\ t.early = s.early
        /\ t.state = s.state /\ t.allowance = s.allowance
    BY <1>1 DEF Sessions
  <2> HIDE DEF t
  <2> QED
    BY <1>1, <1>2, <2>1, <2>2 DEF Reads, Smaller
<1>3. CASE ~Fresh(s, m)
  <2>1. Hear(s, m) = s /\ s.heardAny = TRUE
    BY <1>1, <1>3 DEF Hear, Fresh
  <2> QED
    BY <1>1, <1>3, <2>1 DEF Reads, Smaller
<1> QED
  BY <1>2, <1>3

\* What is sent after a message was read changes nothing of that.
LEMMA ReadsOn ==
    ASSUME NEW r \in Sessions, NEW s \in Sessions, NEW t \in Sessions, NEW m,
           Reads(r, m, s), Sends(s, t)
    PROVE  Reads(r, m, t)
<1>1. r.allowance \in Int /\ s.allowance \in Int /\ t.allowance \in Int
  BY DEF Sessions
<1> QED
  BY <1>1 DEF Reads, Sends, Smaller

\* The slots of a message add to the allowance and to the screen.
LEMMA ReadSlotsSends ==
    ASSUME NEW s, Sound(s), NEW m \in Runs
    PROVE  Sends(s, ReadSlots(s, m))
<1> DEFINE slot == IF m.from = 0 THEN s.remoteSlot ELSE m.from
           held == s.allowance + m.credit
           read == s.data \o m.data
           t == [s EXCEPT !.remoteSlot = slot, !.allowance = held, !.data = read]
<1>1. s \in Sessions /\ s.allowance \in Int /\ m.credit \in Nat
  BY DEF Sound, Sessions, Runs, RunMessages
<1>2. ReadSlots(s, m) = t
  BY DEF ReadSlots
<1>3. /\ t.heard = s.heard /\ t.heardAny = s.heardAny /\ t.early = s.early
      /\ t.state = s.state /\ t.ended = s.ended /\ t.allowance = s.allowance + m.credit
  BY <1>1 DEF Sessions
<1> HIDE DEF t
<1> QED
  BY <1>1, <1>2, <1>3 DEF Sends, Smaller

\* A new message is heard, whatever it ends or lets go.
LEMMA TakeFreshReads ==
    ASSUME NEW s, Sound(s), NEW m \in Runs, NEW owed \in Nat
    PROVE  Reads(s, m, TakeFresh(s, m, owed))
<1> DEFINE heard == Hear(s, m)
           said == Acknowledge(heard)
           slots == ReadSlots(said, m)
           read == Spend(slots, owed + Missed(s, m))
           over == [read EXCEPT !.ended = "session ended", !.state = "Closed"]
           next == IF read.state = "Asked" THEN "Open" ELSE read.state
           open == [read EXCEPT !.state = next]
<1>1. owed + Missed(s, m) \in Nat
  BY MissedType DEF Sound
<1>2. Sound(heard) /\ Sound(said) /\ Sound(slots) /\ Sound(read)
  BY <1>1, HearSound, AcknowledgeSound, ReadSlotsSound, SpendSound
<1>3. Reads(s, m, heard) /\ heard.state = s.state
  BY HearReads
<1>4. TakeFresh(s, m, owed) = IF m.ended THEN over
                              ELSE IF m.data = <<>> THEN read ELSE SendTyped(open)
  BY DEF TakeFresh
<1> HIDE DEF heard
<1>5. Sends(heard, said)
  BY <1>2, AcknowledgeSends DEF Sound
<1> HIDE DEF said
<1>6. Sends(said, slots)
  BY <1>2, ReadSlotsSends
<1> HIDE DEF slots
<1>7. Sends(slots, read)
  BY <1>1, <1>2, SpendSends DEF Sound
<1> HIDE DEF read
<1>8. /\ s \in Sessions /\ heard \in Sessions /\ said \in Sessions /\ slots \in Sessions
      /\ read \in Sessions
  BY <1>2 DEF Sound
<1>9. Reads(s, m, read) /\ read.state = s.state
  BY <1>3, <1>5, <1>6, <1>7, <1>8, ReadsOn DEF Sends
<1>10. Reads(s, m, over)
  <2>1. /\ over.heard = read.heard /\ over.heardAny = read.heardAny
        /\ over.early = read.early /\ over.state = "Closed"
        /\ over.allowance = read.allowance
    BY <1>8 DEF Sessions
  <2> HIDE DEF over
  <2> QED
    BY <1>9, <2>1 DEF Reads
<1>11. Reads(s, m, SendTyped(open))
  <2>1. /\ open.heard = read.heard /\ open.heardAny = read.heardAny
        /\ open.early = read.early /\ open.allowance = read.allowance
        /\ open.state = next
    BY <1>8 DEF Sessions
  <2>2. Sound(open)
    <3>1. next \in States /\ (next \in {"Asked", "Open"} <=> read.state \in {"Asked", "Open"})
      BY <1>8 DEF Sessions, States
    <3> HIDE DEF next
    <3>2. open \in Sessions /\ open.credit = read.credit /\ open.kept = read.kept
          /\ open.sequence = read.sequence /\ open.state = next
          /\ open.circuit = read.circuit /\ open.theirs = read.theirs
          /\ open.ended = read.ended
      BY <1>8, <3>1 DEF Sessions
    <3> HIDE DEF open
    <3> QED
      BY <1>2, <3>1, <3>2, ZenonT(60) DEF Sound, InOrder, TypingFirst, Granted, Owed, IsOpen
  <2> HIDE DEF open
  <2>3. Reads(s, m, open)
    BY <1>9, <2>1 DEF Reads
  <2>4. Sends(open, SendTyped(open)) /\ open \in Sessions /\ SendTyped(open) \in Sessions
    BY <2>2, SendTypedSends, SendTypedSound DEF Sound
  <2> QED
    BY <1>8, <2>3, <2>4, ReadsOn
<1> HIDE DEF over, open
<1> QED
  BY <1>4, <1>9, <1>10, <1>11

\* Reading a message, new, repeated or bare, hears its number if it is new.
LEMMA TakeReads ==
    ASSUME NEW s, Sound(s), NEW m \in Runs, NEW counted \in BOOLEAN
    PROVE  Reads(s, m, Take(s, m, counted))
<1>1. m.slots \in Nat
  BY DEF Runs, RunMessages
<1>2. Reads(s, m, Hear(s, m))
  BY HearReads
<1>3. Reads(s, m, TakeFresh(s, m, IF counted THEN 0 ELSE m.slots))
  BY <1>1, TakeFreshReads
<1>4. ASSUME ~Fresh(s, m)
      PROVE  Reads(s, m, TakeAgain(s, m))
  <2> DEFINE spent == Spend(s, m.slots)
             said == Acknowledge(spent)
  <2>1. Sound(spent) /\ Sound(said)
    BY <1>1, SpendSound, AcknowledgeSound
  <2>2. TakeAgain(s, m) = said
    BY DEF TakeAgain
  <2>3. Sends(s, spent)
    BY <1>1, SpendSends DEF Sound
  <2> HIDE DEF spent
  <2>4. Sends(spent, said)
    BY <2>1, AcknowledgeSends DEF Sound
  <2> HIDE DEF said
  <2>5. s \in Sessions /\ spent \in Sessions /\ said \in Sessions
    BY <2>1 DEF Sound
  <2>6. Sends(s, said)
    BY <2>3, <2>4, <2>5, SendsOn
  <2>7. Hear(s, m) = s
    BY <1>4 DEF Hear
  <2> QED
    BY <1>2, <2>2, <2>5, <2>6, <2>7, ReadsOn
<1> QED
  BY <1>2, <1>3, <1>4 DEF Take

-----------------------------------------------------------------------------
(* Numbers ahead of the number heard. *)

\* Of two numbers ahead of a third the farther is ahead of the nearer.
LEMMA FartherIsNewer ==
    ASSUME NEW h \in Numbers, NEW a \in Numbers, NEW b \in Numbers,
           Newer(a, h), Newer(b, h), Distance(a, h) <= Distance(b, h), a # b
    PROVE  Newer(b, a)
BY NumbersAssumption DEF Newer, Distance, Numbers

\* The next number is ahead, and nothing ahead is nearer.
LEMMA NextIsNearest ==
    ASSUME NEW h \in Numbers
    PROVE  /\ NextNumber(h) \in Numbers
           /\ Newer(NextNumber(h), h)
           /\ \A a \in Numbers : Newer(a, h) => Distance(NextNumber(h), h) <= Distance(a, h)
BY NumbersAssumption DEF Newer, Distance, Numbers, NextNumber

-----------------------------------------------------------------------------
(* The turns of drain. *)

\* What waits is ahead of the number heard.
Ahead(s) == \A m \in s.early : s.heardAny /\ Newer(m.sequence, s.heard)

\* What waits waits once.
Once(s) == \A m, o \in s.early : m.sequence = o.sequence => m = o

\* t is s after some turns: what was heard is something that waited.
Turns(s, t) ==
    /\ t.early \subseteq s.early
    /\ t.heard = s.heard \/ \E o \in s.early : t.heard = o.sequence
    /\ s.heardAny => t.heardAny
    /\ s.state = "Closed" => t.state = "Closed"
    /\ IsOpen(s) => IsOpen(t) \/ t.state = "Closed"
    /\ IsOpen(t) => IsOpen(s)
    /\ t.allowance >= Smaller(s.allowance, 0)

\* Turns follow one another.
LEMMA TurnsOn ==
    ASSUME NEW r \in Sessions, NEW s \in Sessions, NEW t \in Sessions,
           Turns(r, s), Turns(s, t)
    PROVE  Turns(r, t)
<1>1. r.allowance \in Int /\ s.allowance \in Int /\ t.allowance \in Int
  BY DEF Sessions
<1>2. t.allowance >= Smaller(r.allowance, 0)
  BY <1>1 DEF Turns, Smaller
<1>3. t.heard = r.heard \/ \E o \in r.early : t.heard = o.sequence
  BY DEF Turns
<1> QED
  BY <1>2, <1>3 DEF Turns

\* A record whose waiting messages are as they should be between two turns.
Turning(s) == Sound(s) /\ Ahead(s) /\ Once(s) /\ IsFiniteSet(s.early)

\* The messages that wait are run messages with numbers.
LEMMA EarlyType ==
    ASSUME NEW s, Sound(s)
    PROVE  /\ s.heard \in Numbers
           /\ s.early \subseteq Runs
           /\ \A m \in s.early : m.sequence \in Numbers
BY DEF Sound, Sessions, Runs, RunMessages

\* Everything that waits ahead is unread, and the next in line is the nearest.
LEMMA NextInLineIsNearest ==
    ASSUME NEW s, Sound(s), Ahead(s)
    PROVE  /\ Unread(s) = s.early
           /\ NextInLine(s) \subseteq Nearest(s) /\ Nearest(s) \subseteq s.early
           /\ s.early = {} => NextInLine(s) = {} /\ Nearest(s) = {}
BY EarlyType, NextIsNearest DEF Ahead, Unread, NextInLine, Nearest

\* A turn that finds nothing to take changes nothing; one that takes one of
\* the nearest leaves the others ahead of it.
LEMMA TakeOneOfTurns ==
    ASSUME NEW s, Turning(s), NEW waiting \in SUBSET Nearest(s)
    PROVE  LET t == TakeOneOf(s, waiting)
           IN  /\ Turning(t) /\ Turns(s, t)
               /\ waiting = {} => /\ t.early = s.early /\ t.heard = s.heard
                                  /\ t.heardAny = s.heardAny /\ t.state = s.state
               /\ waiting # {} => \E m \in s.early : t.early = s.early \ {m}
<1> DEFINE t == TakeOneOf(s, waiting)
<1>1. Sound(s) /\ s \in Sessions /\ s.allowance \in Int
  BY DEF Turning, Sound, Sessions
<1>2. Unread(s) = s.early /\ waiting \subseteq s.early
  BY <1>1, NextInLineIsNearest DEF Turning
<1>3. Sound(t)
  BY <1>1, <1>2, TakeOneOfSound
<1>4. CASE waiting = {}
  <2>1. t = [s EXCEPT !.early = Unread(s)]
    BY <1>4 DEF TakeOneOf
  <2>2. /\ t.early = s.early /\ t.heard = s.heard /\ t.heardAny = s.heardAny
        /\ t.state = s.state /\ t.allowance = s.allowance
    BY <1>1, <1>2, <2>1 DEF Sessions
  <2> HIDE DEF t
  <2>3. Turning(t)
    BY <1>3, <2>2 DEF Turning, Ahead, Once
  <2>4. Turns(s, t)
    BY <1>1, <2>2 DEF Turns, Smaller, IsOpen
  <2> QED
    BY <1>4, <2>2, <2>3, <2>4 DEF t
<1>5. CASE waiting # {}
  <2> DEFINE m == CHOOSE w \in waiting : TRUE
             rest == s.early \ {m}
             r == [s EXCEPT !.early = rest]
  <2>1. m \in waiting
    BY <1>5
  <2>2. t = Take(r, m, TRUE)
    BY <1>2, <1>5 DEF TakeOneOf
  <2> HIDE DEF m, t
  <2>3. m \in s.early /\ m \in Nearest(s) /\ m \in Runs
    BY <1>1, <1>2, <2>1, EarlyType
  <2>4. rest \in SUBSET Runs
    BY <1>1, EarlyType
  <2>5. Sound(r)
    BY <1>1, <2>4, EarlySound
  <2>6. /\ r.early = rest /\ r.heard = s.heard /\ r.heardAny = s.heardAny
        /\ r.state = s.state /\ r.allowance = s.allowance
    BY <1>1 DEF Sessions
  <2> HIDE DEF r
  <2>7. Reads(r, m, t)
    BY <2>2, <2>3, <2>5, TakeReads
  <2>8. s.heardAny /\ Newer(m.sequence, s.heard)
    BY <2>3 DEF Turning, Ahead
  <2>9. t.heard = m.sequence /\ t.heardAny = TRUE /\ t.early = rest
    BY <2>6, <2>7, <2>8 DEF Reads, Fresh
  <2>10. Ahead(t)
    <3> SUFFICES ASSUME NEW o \in rest
                 PROVE  Newer(o.sequence, m.sequence)
      BY <2>9 DEF Ahead
    <3>1. o \in s.early /\ o.sequence # m.sequence
      BY <2>3 DEF Turning, Once
    <3>2. Newer(o.sequence, s.heard) /\ Distance(m.sequence, s.heard) <= Distance(o.sequence, s.heard)
      BY <1>2, <2>3, <3>1 DEF Turning, Ahead, Nearest
    <3>3. /\ m.sequence \in Numbers /\ o.sequence \in Numbers /\ s.heard \in Numbers
      BY <1>1, <2>3, <3>1, EarlyType
    <3> QED
      BY <2>8, <3>1, <3>2, <3>3, FartherIsNewer
  <2>11. Turning(t)
    <3>1. Once(t)
      BY <2>9 DEF Turning, Once
    <3>2. IsFiniteSet(t.early)
      BY <2>9, FS_RemoveElement DEF Turning
    <3> QED
      BY <1>3, <2>10, <3>1, <3>2 DEF Turning, t
  <2>12. Turns(s, t)
    <3>1. t.allowance >= Smaller(s.allowance, 0)
      BY <2>6, <2>7 DEF Reads
    <3>2. /\ s.state = "Closed" => t.state = "Closed"
          /\ IsOpen(s) => IsOpen(t) \/ t.state = "Closed"
          /\ IsOpen(t) => IsOpen(s)
      BY <2>6, <2>7 DEF Reads, IsOpen
    <3>3. t.early \subseteq s.early
      BY <2>9
    <3> QED
      BY <2>3, <2>9, <3>1, <3>2, <3>3 DEF Turns
  <2> QED
    BY <1>5, <2>3, <2>9, <2>11, <2>12 DEF t
<1> QED
  BY <1>4, <1>5

\* There are at most n more messages to read, in turns that follow.
AtMost(s, n) == s.state = "Closed" \/ NextInLine(s) = {} \/ Cardinality(s.early) <= n

\* A turn reads one of them, or there is none to read.
LEMMA FollowTurns ==
    ASSUME NEW s, Turning(s), NEW n \in Nat, AtMost(s, n + 1)
    PROVE  Turning(Follow(s)) /\ Turns(s, Follow(s)) /\ AtMost(Follow(s), n)
<1> DEFINE line == NextInLine(s)
           t == TakeOneOf(s, line)
<1>1. Sound(s) /\ s \in Sessions /\ s.allowance \in Int
  BY DEF Turning, Sound, Sessions
<1>2. CASE s.state = "Closed"
  <2>1. Follow(s) = s
    BY <1>2 DEF Follow
  <2> QED
    BY <1>1, <1>2, <2>1 DEF AtMost, Turns, Smaller
<1>3. CASE s.state # "Closed"
  <2>1. line \in SUBSET Nearest(s)
    BY <1>1, NextInLineIsNearest DEF Turning
  <2>2. Follow(s) = t
    BY <1>3 DEF Follow
  <2> HIDE DEF line
  <2>3. /\ Turning(t) /\ Turns(s, t)
        /\ line = {} => t.early = s.early /\ t.heard = s.heard
        /\ line # {} => \E m \in s.early : t.early = s.early \ {m}
    BY <2>1, TakeOneOfTurns
  <2> HIDE DEF t
  <2>4. CASE line = {}
    BY <2>2, <2>3, <2>4 DEF AtMost, NextInLine, Unread, line
  <2>5. CASE line # {}
    <3>1. Cardinality(s.early) <= n + 1
      BY <1>3, <2>5 DEF AtMost, line
    <3>2. PICK m \in s.early : t.early = s.early \ {m}
      BY <2>3, <2>5
    <3>3. Cardinality(t.early) = Cardinality(s.early) - 1 /\ Cardinality(s.early) \in Nat
      BY <3>2, FS_RemoveElement, FS_CardinalityType DEF Turning
    <3>4. Cardinality(t.early) <= n
      BY <3>1, <3>3
    <3> QED
      BY <2>2, <2>3, <3>4 DEF AtMost
  <2> QED
    BY <2>4, <2>5
<1> QED
  BY <1>2, <1>3

\* Eight turns read eight of them.
LEMMA Follow8Turns ==
    ASSUME NEW s, Turning(s), AtMost(s, 8)
    PROVE  Turning(Follow8(s)) /\ Turns(s, Follow8(s)) /\ AtMost(Follow8(s), 0)
<1>1. ASSUME NEW r, Turning(r) PROVE r \in Sessions
  BY <1>1 DEF Turning, Sound
<1>2. ASSUME NEW r, Turning(r), NEW n \in Nat, AtMost(r, n + 2)
      PROVE  Turning(Follow2(r)) /\ Turns(r, Follow2(r)) /\ AtMost(Follow2(r), n)
  <2>1. n + 1 \in Nat /\ n + 2 = (n + 1) + 1
    OBVIOUS
  <2>2. Turning(Follow(r)) /\ Turns(r, Follow(r)) /\ AtMost(Follow(r), n + 1)
    BY <1>2, <2>1, FollowTurns
  <2>3. /\ Turning(Follow(Follow(r))) /\ Turns(Follow(r), Follow(Follow(r)))
        /\ AtMost(Follow(Follow(r)), n)
    BY <2>2, FollowTurns
  <2> QED
    BY <1>1, <1>2, <2>2, <2>3, TurnsOn DEF Follow2
<1>3. ASSUME NEW r, Turning(r), NEW n \in Nat, AtMost(r, n + 4)
      PROVE  Turning(Follow4(r)) /\ Turns(r, Follow4(r)) /\ AtMost(Follow4(r), n)
  <2>1. n + 2 \in Nat /\ n + 4 = (n + 2) + 2
    OBVIOUS
  <2>2. Turning(Follow2(r)) /\ Turns(r, Follow2(r)) /\ AtMost(Follow2(r), n + 2)
    BY <1>2, <1>3, <2>1
  <2>3. /\ Turning(Follow2(Follow2(r))) /\ Turns(Follow2(r), Follow2(Follow2(r)))
        /\ AtMost(Follow2(Follow2(r)), n)
    BY <1>2, <2>2
  <2> QED
    BY <1>1, <1>3, <2>2, <2>3, TurnsOn DEF Follow4
<1>4. Turning(Follow4(s)) /\ Turns(s, Follow4(s)) /\ AtMost(Follow4(s), 4)
  <2>1. 8 = 4 + 4 /\ 4 \in Nat
    OBVIOUS
  <2>2. AtMost(s, 4 + 4)
    BY <2>1
  <2> QED
    BY <1>3, <2>1, <2>2
<1>5. /\ Turning(Follow4(Follow4(s))) /\ Turns(Follow4(s), Follow4(Follow4(s)))
      /\ AtMost(Follow4(Follow4(s)), 0)
  <2>1. 4 = 0 + 4 /\ 0 \in Nat
    OBVIOUS
  <2>2. AtMost(Follow4(s), 0 + 4)
    BY <1>4, <2>1
  <2> QED
    BY <1>3, <1>4, <2>1, <2>2
<1> QED
  BY <1>1, <1>4, <1>5, TurnsOn DEF Follow8

\* When something waits, something is nearest.
LEMMA NearestIsThere ==
    ASSUME NEW s, Turning(s), s.early # {}
    PROVE  Nearest(s) # {}
<1> DEFINE far == {Distance(m.sequence, s.heard) : m \in s.early}
<1>1. Unread(s) = s.early
  BY NextInLineIsNearest DEF Turning
<1>2. \A m \in s.early : Distance(m.sequence, s.heard) \in Nat
  BY EarlyType, DistanceType DEF Turning, Numbers
<1>3. far \subseteq Nat /\ far # {}
  BY <1>2
<1>4. \E d \in far : \A e \in far : <<e, d>> \notin OpToRel(<, Nat)
  <2> HIDE DEF far
  <2> QED
    BY <1>3, WFMin, NatLessThanWellFounded
<1>5. PICK d \in far : \A e \in far : ~(e < d)
  BY <1>3, <1>4, Zenon DEF OpToRel
<1>6. PICK m \in s.early : d = Distance(m.sequence, s.heard)
  OBVIOUS
<1>7. ASSUME NEW o \in s.early
      PROVE  Distance(m.sequence, s.heard) <= Distance(o.sequence, s.heard)
  BY <1>2, <1>5, <1>6, <1>7
<1> QED
  BY <1>1, <1>6, <1>7 DEF Nearest

\* What waits behind a gap in an open session: short of the patience, ahead of
\* what is heard, and not next.
Gapped(s) ==
    IsOpen(s) => /\ \A m \in s.early : AfterGap(s, m)
                 /\ Cardinality(s.early) < GapPatience

\* After the last turn nothing that waits is next.
LEMMA SettledGapped ==
    ASSUME NEW s, Turning(s), AtMost(s, 0), Cardinality(s.early) < GapPatience
    PROVE  Gapped(s)
<1> SUFFICES ASSUME IsOpen(s), NEW m \in s.early
             PROVE  AfterGap(s, m)
  BY DEF Gapped
<1>1. CASE Cardinality(s.early) <= 0
  <2>1. Cardinality(s.early) \in Nat
    BY FS_CardinalityType DEF Turning
  <2>2. s.early = {}
    BY <1>1, <2>1, FS_EmptySet DEF Turning
  <2> QED
    BY <2>2
<1>2. CASE NextInLine(s) = {}
  <2>1. Unread(s) = s.early
    BY NextInLineIsNearest DEF Turning
  <2> QED
    BY <1>2, <2>1 DEF NextInLine, Turning, Ahead, AfterGap
<1> QED
  BY <1>1, <1>2 DEF AtMost, IsOpen

\* Fewer wait after some turns.
LEMMA FewerWait ==
    ASSUME NEW s, Turning(s), NEW t, Turns(s, t)
    PROVE  /\ Cardinality(t.early) <= Cardinality(s.early)
           /\ Cardinality(s.early) \in Nat /\ Cardinality(t.early) \in Nat
BY FS_Subset, FS_CardinalityType DEF Turning, Turns

\* drain reads on until nothing that waits is next.
LEMMA DrainTurns ==
    ASSUME NEW s, Turning(s), Cardinality(s.early) < GapPatience
    PROVE  Turning(Drain(s)) /\ Turns(s, Drain(s)) /\ Gapped(Drain(s))
<1> DEFINE first == TakeOneOf(s, NextInLine(s))
<1>1. NextInLine(s) \in SUBSET Nearest(s)
  BY NextInLineIsNearest DEF Turning
<1>2. Turning(first) /\ Turns(s, first)
  BY <1>1, TakeOneOfTurns
<1>3. Drain(s) = Follow8(first)
  BY DEF Drain
<1> HIDE DEF first
<1>4. Cardinality(first.early) <= 8
  BY <1>2, FewerWait, LimitsAssumption
<1>5. /\ Turning(Follow8(first)) /\ Turns(first, Follow8(first))
      /\ AtMost(Follow8(first), 0)
  BY <1>2, <1>4, Follow8Turns DEF AtMost
<1>6. Turns(s, Follow8(first))
  BY <1>2, <1>5, TurnsOn DEF Turning, Sound
<1>7. Cardinality(Follow8(first).early) < GapPatience
  BY <1>6, FewerWait, LimitsAssumption
<1> QED
  BY <1>3, <1>5, <1>6, <1>7, SettledGapped

\* Giving a gap up reads the nearest and then whatever that makes next.
LEMMA GiveUpTurns ==
    ASSUME NEW s, Turning(s), s.early # {}, Cardinality(s.early) <= GapPatience
    PROVE  Turning(GiveUp(s)) /\ Turns(s, GiveUp(s)) /\ Gapped(GiveUp(s))
<1> DEFINE first == TakeOneOf(s, Nearest(s))
<1>1. Nearest(s) # {} /\ Nearest(s) \in SUBSET Nearest(s)
  BY NearestIsThere
<1>2. /\ Turning(first) /\ Turns(s, first)
      /\ \E m \in s.early : first.early = s.early \ {m}
  BY <1>1, TakeOneOfTurns
<1>3. GiveUp(s) = Follow8(first)
  BY DEF GiveUp
<1> HIDE DEF first
<1>4. Cardinality(first.early) < GapPatience
  <2>1. PICK m \in s.early : first.early = s.early \ {m}
    BY <1>2
  <2>2. Cardinality(first.early) = Cardinality(s.early) - 1 /\ Cardinality(s.early) \in Nat
    BY <2>1, FS_RemoveElement, FS_CardinalityType DEF Turning
  <2> QED
    BY <2>2, LimitsAssumption
<1>5. Cardinality(first.early) <= 8
  BY <1>2, <1>4, FewerWait, LimitsAssumption
<1>6. /\ Turning(Follow8(first)) /\ Turns(first, Follow8(first))
      /\ AtMost(Follow8(first), 0)
  BY <1>2, <1>5, Follow8Turns DEF AtMost
<1>7. Turns(s, Follow8(first))
  BY <1>2, <1>6, TurnsOn DEF Turning, Sound
<1>8. Cardinality(Follow8(first).early) < GapPatience
  BY <1>2, <1>4, <1>6, FewerWait, LimitsAssumption
<1> QED
  BY <1>3, <1>6, <1>7, <1>8, SettledGapped

-----------------------------------------------------------------------------
(* What each handler keeps to. *)

\* What waits behind a gap waits as it should, and nothing does before a call
\* is answered.
Waits(s) ==
    /\ Once(s) /\ IsFiniteSet(s.early) /\ Gapped(s)
    /\ s.state \in {"New", "Calling"} => s.early = {}

\* The number heard moves forward only.
Forward(s, t) == t.heard # s.heard => ~s.heardAny \/ Newer(t.heard, s.heard)

\* A handler leaves what waits waiting as it should, what was heard heard, and
\* the allowance no further overdrawn.
Keeps(s, t) ==
    /\ Waits(t) /\ Forward(s, t)
    /\ t.allowance >= Smaller(s.allowance, 0)

\* Sending keeps to all of it.
LEMMA SendsKeeps ==
    ASSUME NEW s, Waits(s), NEW t, Sends(s, t)
    PROVE  Keeps(s, t)
BY DEF Sends, Keeps, Waits, Once, Gapped, AfterGap, IsOpen, Forward

\* A message after a gap waits, or the gap is given up.
LEMMA RunAfterGapKeeps ==
    ASSUME NEW s, Sound(s), Waits(s), IsOpen(s), NEW m \in Runs, AfterGap(s, m)
    PROVE  Keeps(s, RunAfterGap(s, m))
<1> DEFINE others == {w \in s.early : w.sequence # m.sequence}
           waiting == others \cup {m}
           r == [s EXCEPT !.early = waiting]
           held == Spend(r, m.slots)
<1>1. s \in Sessions /\ s.allowance \in Int /\ s.early \subseteq Runs /\ m.slots \in Nat
  BY EarlyType DEF Sound, Sessions, Runs, RunMessages
<1>2. Hold(s, m) = held
  BY DEF Hold
<1>3. /\ \A w \in waiting : AfterGap(s, w)
      /\ \A w, o \in waiting : w.sequence = o.sequence => w = o
  BY DEF Waits, Gapped, Once
<1>4. /\ IsFiniteSet(waiting) /\ Cardinality(waiting) \in Nat
      /\ Cardinality(waiting) <= GapPatience
  <2>1. IsFiniteSet(others) /\ Cardinality(others) <= Cardinality(s.early)
    BY FS_Subset DEF Waits
  <2>2. Cardinality(others) \in Nat /\ Cardinality(s.early) \in Nat
    BY <2>1, FS_CardinalityType DEF Waits
  <2> HIDE DEF others
  <2>3. /\ IsFiniteSet(others \cup {m})
        /\ Cardinality(others \cup {m}) \in {Cardinality(others), Cardinality(others) + 1}
    BY <2>1, FS_AddElement
  <2> QED
    BY <2>1, <2>2, <2>3, LimitsAssumption DEF Waits, Gapped
<1>5. waiting \in SUBSET Runs
  BY <1>1
<1>6. m \in waiting
  OBVIOUS
<1> HIDE DEF waiting
<1>7. Sound(r)
  BY <1>5, EarlySound
<1>8. /\ r.early = waiting /\ r.heard = s.heard /\ r.heardAny = s.heardAny
      /\ r.state = s.state /\ r.allowance = s.allowance
  BY <1>1 DEF Sessions
<1> HIDE DEF r
<1>9. Sound(held) /\ Sends(r, held)
  BY <1>1, <1>7, SpendSound, SpendSends DEF Sound
<1> HIDE DEF held
<1>10. /\ held.early = waiting /\ held.heard = s.heard /\ held.heardAny = s.heardAny
       /\ held.state = s.state /\ held.allowance >= Smaller(s.allowance, 0)
       /\ held.allowance \in Int
  BY <1>8, <1>9 DEF Sends, Sound, Sessions
<1>11. Turning(held)
  BY <1>3, <1>4, <1>9, <1>10 DEF Turning, Ahead, Once, AfterGap
<1>12. CASE Cardinality(held.early) >= GapPatience
  <2> DEFINE t == GiveUp(held)
  <2>1. RunAfterGap(s, m) = t
    BY <1>2, <1>12 DEF RunAfterGap
  <2>2. Turning(t) /\ Turns(held, t) /\ Gapped(t)
    BY <1>4, <1>6, <1>10, <1>11, GiveUpTurns
  <2> HIDE DEF t
  <2>3. Forward(s, t)
    BY <1>3, <1>10, <2>2 DEF Turns, Forward, AfterGap
  <2>4. t.allowance \in Int
    BY <2>2 DEF Turning, Sound, Sessions
  <2>5. t.allowance >= Smaller(s.allowance, 0)
    BY <1>1, <1>10, <2>2, <2>4 DEF Turns, Smaller
  <2>6. Waits(t)
    BY <1>10, <2>2 DEF Waits, Turning, Turns, IsOpen
  <2> QED
    BY <2>1, <2>3, <2>5, <2>6 DEF Keeps
<1>13. CASE ~(Cardinality(held.early) >= GapPatience)
  <2>1. Waits(held)
    BY <1>3, <1>4, <1>10, <1>13, LimitsAssumption DEF Waits, Once, Gapped, IsOpen, AfterGap
  <2>2. Keeps(s, held)
    BY <1>10, <2>1 DEF Keeps, Forward
  <2> DEFINE t == Acknowledge(held)
  <2>3. Sends(held, t) /\ t \in Sessions
    BY <1>9, AcknowledgeSends, AcknowledgeSound DEF Sound
  <2>4. t.allowance \in Int
    BY <2>3 DEF Sessions
  <2>5. RunAfterGap(s, m) = IF m.slots = 0 THEN held ELSE t
    BY <1>2, <1>13 DEF RunAfterGap
  <2> HIDE DEF t
  <2>6. t.allowance >= Smaller(s.allowance, 0)
    BY <1>1, <1>10, <2>3, <2>4 DEF Sends, Smaller
  <2>7. Waits(t) /\ Forward(s, t)
    BY <1>10, <2>1, <2>3, SendsKeeps DEF Keeps, Sends, Forward
  <2> QED
    BY <2>2, <2>5, <2>6, <2>7 DEF Keeps
<1> QED
  BY <1>12, <1>13

\* A message that is next or was heard is read, and then what waited for it.
LEMMA RunInOrderKeeps ==
    ASSUME NEW s, Sound(s), Waits(s), IsOpen(s), NEW m \in Runs, ~AfterGap(s, m)
    PROVE  Keeps(s, Drain(Take(s, m, FALSE)))
<1> DEFINE r == Take(s, m, FALSE)
           t == Drain(r)
<1>1. s.allowance \in Int /\ m.sequence \in Numbers /\ s.heard \in Numbers
  BY DEF Sound, Sessions, Runs, RunMessages
<1>2. Sound(r) /\ Reads(s, m, r)
  BY TakeSound, TakeReads
<1> HIDE DEF r
<1>3. r.early = s.early /\ r.allowance >= Smaller(s.allowance, 0) /\ r.allowance \in Int
  BY <1>2 DEF Reads, Sound, Sessions
<1>4. Ahead(r)
  <2> SUFFICES ASSUME NEW o \in s.early
               PROVE  Newer(o.sequence, r.heard)
    BY <1>2 DEF Ahead, Reads
  <2>1. s.heardAny /\ Newer(o.sequence, s.heard) /\ o.sequence # NextNumber(s.heard)
    BY DEF Waits, Gapped, AfterGap
  <2>2. o.sequence \in Numbers
    BY EarlyType
  <2>3. CASE Fresh(s, m)
    <3>1. r.heard = m.sequence /\ m.sequence = NextNumber(s.heard)
      BY <1>2, <2>1, <2>3 DEF Reads, Fresh, AfterGap
    <3> QED
      BY <1>1, <2>1, <2>2, <3>1, NextIsNearest, FartherIsNewer
  <2>4. CASE ~Fresh(s, m)
    BY <1>2, <2>1, <2>4 DEF Reads
  <2> QED
    BY <2>3, <2>4
<1>5. Turning(r) /\ Cardinality(r.early) < GapPatience
  BY <1>2, <1>3, <1>4 DEF Turning, Waits, Once, Gapped
<1>6. Turning(t) /\ Turns(r, t) /\ Gapped(t)
  BY <1>5, DrainTurns
<1> HIDE DEF t
<1>7. Forward(s, t)
  <2>1. \A o \in s.early : Newer(o.sequence, s.heard)
    BY DEF Waits, Gapped, AfterGap
  <2>2. r.heard = s.heard \/ ~s.heardAny \/ Newer(r.heard, s.heard)
    BY <1>2 DEF Reads, Fresh
  <2> QED
    BY <1>3, <1>6, <2>1, <2>2 DEF Turns, Forward
<1>8. t.allowance \in Int
  BY <1>6 DEF Turning, Sound, Sessions
<1>9. t.allowance >= Smaller(s.allowance, 0)
  BY <1>1, <1>3, <1>6, <1>8 DEF Turns, Smaller
<1>10. Waits(t)
  <2>1. t.state \notin {"New", "Calling"}
    BY <1>2, <1>6 DEF Reads, Turns, IsOpen
  <2> QED
    BY <1>6, <2>1 DEF Waits, Turning
<1> QED
  BY <1>7, <1>9, <1>10 DEF Keeps, t, r

\* Any run message at all keeps to it.
LEMMA RunKeeps ==
    ASSUME NEW s, Sound(s), Waits(s), NEW m \in Runs
    PROVE  Keeps(s, Run(s, m))
<1> DEFINE known == Forget(s, m.acknowledged)
<1>1. s.allowance \in Int
  BY DEF Sound, Sessions
<1>2. CASE ~IsOpen(s) \/ m.ours # s.theirs \/ m.theirs # Ours
  <2>1. Run(s, m) = s
    BY <1>2 DEF Run
  <2> QED
    BY <1>1, <2>1 DEF Keeps, Forward, Smaller
<1>3. CASE ~(~IsOpen(s) \/ m.ours # s.theirs \/ m.theirs # Ours)
  <2> DEFINE t == IF AfterGap(known, m) THEN RunAfterGap(known, m)
                  ELSE Drain(Take(known, m, FALSE))
  <2>1. Run(s, m) = t
    BY <1>3 DEF Run
  <2>2. Sound(known) /\ Sends(s, known)
    BY ForgetSound, ForgetSends
  <2>3. Sound(t)
    BY <2>2, RunAfterGapSound, TakeSound, DrainSound
  <2> HIDE DEF known
  <2>4. Waits(known) /\ IsOpen(known)
    BY <1>3, <2>2, SendsKeeps DEF Keeps, Sends, IsOpen
  <2>5. Keeps(known, t)
    BY <2>2, <2>4, RunAfterGapKeeps, RunInOrderKeeps
  <2> HIDE DEF t
  <2>6. known.allowance \in Int /\ t.allowance \in Int
    BY <2>2, <2>3 DEF Sound, Sessions
  <2>7. t.allowance >= Smaller(s.allowance, 0)
    BY <1>1, <2>2, <2>5, <2>6 DEF Keeps, Sends, Smaller
  <2> QED
    BY <2>1, <2>2, <2>5, <2>7 DEF Keeps, Sends, Forward
<1> QED
  BY <1>2, <1>3

\* A handler that hears nothing, and may end the session or open it before
\* anything waits.
LEMMA DeafKeeps ==
    ASSUME NEW s, Sound(s), Waits(s), NEW t,
           t.heard = s.heard, t.heardAny = s.heardAny, t.early = s.early,
           t.allowance = s.allowance,
           \/ t.state \in {s.state, "Closed"}
           \/ s.early = {} /\ t.state \in {"Calling", "Asked"}
    PROVE  Keeps(s, t)
<1>1. s.allowance \in Int
  BY DEF Sound, Sessions
<1>2. s.early = {} => Cardinality(s.early) = 0
  BY FS_EmptySet
<1>3. Gapped(t)
  BY <1>2, LimitsAssumption DEF Waits, Gapped, AfterGap, IsOpen
<1> QED
  BY <1>1, <1>3 DEF Waits, Once, Keeps, Forward, Smaller

\* Any frame at all keeps to it.
LEMMA ReceiveKeeps ==
    ASSUME NEW s, Sound(s), Waits(s), NEW m \in Inbound
    PROVE  Keeps(s, Receive(s, m))
<1>1. s \in Sessions
  BY DEF Sound
<1>2. Keeps(s, s)
  BY DeafKeeps
<1>3. CASE m.kind = "start"
  <2> DEFINE named == [s EXCEPT !.theirs = m.ours]
             asked == SlotFrame(named, AskSlot)
             open == [asked EXCEPT !.credit = MaxCredit, !.circuit = TRUE, !.state = "Asked"]
  <2>1. m.ours \in Identifiers
    BY <1>3, InboundAssumption DEF StartMessages, RunMessages, StopMessages
  <2>2. ASSUME s.state = "Calling"
        PROVE  Keeps(s, open)
    <3>1. /\ named \in Sessions /\ named.heard = s.heard /\ named.heardAny = s.heardAny
          /\ named.early = s.early /\ named.allowance = s.allowance
      BY <1>1, <2>1 DEF Sessions
    <3>2. AskSlot \in Parts /\ Spending(AskSlot) = 0
      BY NumbersAssumption DEF AskSlot, Parts, Spending
    <3> HIDE DEF named
    <3>3. /\ asked \in Sessions /\ asked.heard = s.heard /\ asked.heardAny = s.heardAny
          /\ asked.early = s.early /\ asked.allowance = s.allowance
      <4>1. /\ asked.heard = named.heard /\ asked.heardAny = named.heardAny
            /\ asked.early = named.early
            /\ asked.allowance = named.allowance - Spending(AskSlot)
        BY <3>1, <3>2, SlotFrameSpends
      <4>2. asked \in Sessions /\ named.allowance \in Int
        BY <3>1, <3>2, SlotFrameFields DEF Sessions
      <4> HIDE DEF asked
      <4> QED
        BY <3>1, <3>2, <4>1, <4>2
    <3> HIDE DEF asked
    <3>4. /\ open.heard = s.heard /\ open.heardAny = s.heardAny
          /\ open.early = s.early /\ open.allowance = s.allowance /\ open.state = "Asked"
      BY <3>3 DEF Sessions
    <3> HIDE DEF open
    <3> QED
      BY <2>2, <3>4, DeafKeeps DEF Waits
  <2> QED
    BY <1>2, <1>3, <2>2 DEF Receive, Agreed
<1>4. CASE m.kind = "run"
  <2>1. m \in Runs
    BY <1>4, InboundAssumption DEF Runs, StartMessages, RunMessages, StopMessages
  <2> QED
    BY <1>4, <2>1, RunKeeps DEF Receive
<1>5. CASE m.kind = "stop"
  <2> DEFINE t == [s EXCEPT !.state = "Closed", !.circuit = FALSE, !.ended = "circuit closed"]
  <2>1. /\ t.heard = s.heard /\ t.heardAny = s.heardAny /\ t.early = s.early
        /\ t.allowance = s.allowance /\ t.state = "Closed"
    BY <1>1 DEF Sessions
  <2> HIDE DEF t
  <2>2. Keeps(s, t)
    BY <2>1, DeafKeeps
  <2> QED
    BY <1>2, <1>5, <2>2 DEF Receive, Stopped, t
<1>6. CASE m.kind \notin {"start", "run", "stop"}
  BY <1>2, <1>6 DEF Receive
<1> QED
  BY <1>3, <1>4, <1>5, <1>6

\* What is put out has nothing to do with what was read.
LEMMA FlushedKeeps ==
    ASSUME NEW s, Sound(s), Waits(s)
    PROVE  LET t == Flushed(s)
           IN  /\ t.heard = s.heard /\ t.heardAny = s.heardAny /\ t.early = s.early
               /\ t.allowance = s.allowance /\ t.state = s.state /\ t.ended = s.ended
               /\ t.outgoing = <<>> /\ t.data = <<>>
               /\ t.circuit = s.circuit /\ t.theirs = s.theirs
               /\ Waits(t)
<1> DEFINE t == Flushed(s)
<1>1. /\ t.heard = s.heard /\ t.heardAny = s.heardAny /\ t.early = s.early
      /\ t.allowance = s.allowance /\ t.state = s.state /\ t.ended = s.ended
      /\ t.outgoing = <<>> /\ t.data = <<>> /\ t.circuit = s.circuit /\ t.theirs = s.theirs
  BY DEF Flushed, Sound, Sessions
<1> HIDE DEF t
<1> QED
  BY <1>1, DeafKeeps DEF Keeps, t

-----------------------------------------------------------------------------
(* The specification. *)

\* The invariant: beside the record's soundness, what waits behind a gap waits
\* as it should, and only a forced send has overdrawn the allowance.
Reading ==
    /\ IInv
    /\ Waits(session)
    /\ session.allowance >= -forced

\* Nothing waits in a session that has done nothing.
LEMMA InitReading == Init => Reading
<1>1. /\ NewSession.early = {} /\ NewSession.allowance = 0 /\ NewSession.state = "New"
  BY DEF NewSession
<1>2. IsFiniteSet(NewSession.early)
  BY <1>1, FS_EmptySet
<1>3. Waits(NewSession)
  BY <1>1, <1>2 DEF Waits, Once, Gapped, IsOpen
<1> QED
  BY <1>1, <1>3, InitSound DEF Init, Reading

\* What a step makes of the record of the session.
Moves ==
    /\ Waits(session') /\ Forward(session, session')
    /\ session'.allowance >= -forced'

\* Every action keeps to the invariant and hears nothing that is behind.
LEMMA NextReading == Reading /\ [Next]_vars => Moves
<1> SUFFICES ASSUME Reading, [Next]_vars
             PROVE  Moves
  OBVIOUS
<1> DEFINE idle == Flushed(session)
<1>1. /\ Sound(session) /\ Waits(session) /\ forced \in Nat /\ session.allowance >= -forced
      /\ session.allowance \in Int
  BY DEF Reading, IInv, Sound, Sessions
<1>2. /\ Sound(idle) /\ Waits(idle) /\ idle.allowance = session.allowance
      /\ idle.heard = session.heard /\ idle.heardAny = session.heardAny
      /\ idle.state = session.state /\ idle.early = session.early
      /\ idle \in Sessions
  BY <1>1, FlushedSound, FlushedKeeps DEF Sound
<1> HIDE DEF idle
<1>3. IInv'
  BY NextSound DEF Reading
<1>4. session'.allowance \in Int
  BY <1>3 DEF IInv, Sound, Sessions
<1>5. ASSUME Keeps(idle, session'), UNCHANGED forced
      PROVE  Moves
  BY <1>1, <1>2, <1>4, <1>5 DEF Keeps, Forward, Moves, Smaller
<1>6. CASE CallNode
  <2>1. session' = Call(idle)
    BY <1>6 DEF CallNode, Do, idle
  <2>2. /\ session'.heard = idle.heard /\ session'.heardAny = idle.heardAny
        /\ session'.early = idle.early /\ session'.allowance = idle.allowance
        /\ session'.state = "Calling"
    BY <1>2, <2>1 DEF Call, Sessions
  <2>3. idle.early = {}
    BY <1>2, <1>6 DEF CallNode, Waits
  <2> QED
    BY <1>2, <1>5, <1>6, <2>2, <2>3, DeafKeeps DEF CallNode
<1>7. ASSUME NEW m \in Inbound, HearFrame(m) PROVE Moves
  BY <1>2, <1>5, <1>7, ReceiveKeeps DEF HearFrame, Do, idle
<1>8. ASSUME NEW bytes \in Typing, TypeKeys(bytes) PROVE Moves
  <2> DEFINE typed == idle.typed \o bytes
             t == [idle EXCEPT !.typed = typed]
  <2>1. session' = IF idle.state = "Closed" THEN idle ELSE SendTyped(t)
    BY <1>8 DEF TypeKeys, Do, Write, idle
  <2>2. typed \in Seq(Bytes)
    BY <1>2, TypingAssumption DEF Sessions
  <2> HIDE DEF typed
  <2>3. /\ t \in Sessions /\ t.credit = idle.credit /\ t.kept = idle.kept
        /\ t.sequence = idle.sequence /\ t.state = idle.state
        /\ t.circuit = idle.circuit /\ t.theirs = idle.theirs /\ t.ended = idle.ended
        /\ t.heard = idle.heard /\ t.heardAny = idle.heardAny
        /\ t.early = idle.early /\ t.allowance = idle.allowance
    BY <1>2, <2>2 DEF Sessions
  <2> HIDE DEF t
  <2>4. Sound(t)
    BY <1>2, <2>3 DEF Sound, InOrder, TypingFirst, Granted, Owed, IsOpen
  <2>5. Sends(idle, SendTyped(t))
    <3>1. Sends(t, SendTyped(t))
      BY <2>4, SendTypedSends
    <3> QED
      BY <2>3, <3>1 DEF Sends
  <2>6. Sends(idle, session')
    BY <1>1, <1>2, <2>1, <2>5 DEF Sends, Smaller
  <2> QED
    BY <1>2, <1>5, <1>8, <2>6, SendsKeeps DEF TypeKeys
<1>9. CASE HoldExpires
  <2> DEFINE over == IF HasRoom(SendTyped(idle)) THEN 1 ELSE 0
  <2>1. session' = ReleaseTyping(idle) /\ forced' = forced + over
    BY <1>1, <1>9 DEF HoldExpires, Do, idle
  <2>2. /\ session'.heard = idle.heard /\ session'.heardAny = idle.heardAny
        /\ session'.early = idle.early /\ session'.state = idle.state
        /\ session'.allowance >= Smaller(idle.allowance, 0) - over
    BY <1>2, <2>1, ReleaseTypingSends
  <2>3. over \in Nat
    OBVIOUS
  <2> HIDE DEF over
  <2>4. session'.allowance >= -forced'
    BY <1>1, <1>2, <1>4, <2>1, <2>2, <2>3 DEF Smaller
  <2>5. Waits(session')
    BY <1>2, <2>2 DEF Waits, Once, Gapped, AfterGap, IsOpen
  <2> QED
    BY <1>2, <2>2, <2>4, <2>5 DEF Moves, Forward
<1>10. CASE RetransmitDue
  <2>1. session' = Retransmit(idle)
    BY <1>10 DEF RetransmitDue, Do, idle
  <2>2. /\ session'.heard = idle.heard /\ session'.heardAny = idle.heardAny
        /\ session'.early = idle.early /\ session'.allowance = idle.allowance
        /\ session'.state \in {idle.state, "Closed"}
    BY <1>2, <2>1 DEF Retransmit, Sessions
  <2> QED
    BY <1>2, <1>5, <1>10, <2>2, DeafKeeps DEF RetransmitDue
<1>11. CASE Dead
  <2>1. session' = PeerGone(idle)
    BY <1>11 DEF Dead, Do, idle
  <2>2. /\ session'.heard = idle.heard /\ session'.heardAny = idle.heardAny
        /\ session'.early = idle.early /\ session'.allowance = idle.allowance
        /\ session'.state \in {idle.state, "Closed"}
    BY <1>2, <2>1 DEF PeerGone, Sessions
  <2> QED
    BY <1>2, <1>5, <1>11, <2>2, DeafKeeps DEF Dead
<1>12. CASE KeepaliveDue
  <2>1. Sends(idle, session')
    BY <1>1, <1>2, <1>12, AcknowledgeSends DEF KeepaliveDue, Do, Keepalive, idle, Sends, Smaller
  <2> QED
    BY <1>2, <1>5, <1>12, <2>1, SendsKeeps DEF KeepaliveDue
<1>13. CASE Drop
  <2>1. session' = Close(idle)
    BY <1>13 DEF Drop, Do, idle
  <2>2. /\ session'.heard = idle.heard /\ session'.heardAny = idle.heardAny
        /\ session'.early = idle.early /\ session'.allowance = idle.allowance
        /\ session'.state = "Closed"
    BY <1>2, <2>1 DEF Close, Sessions
  <2> QED
    BY <1>2, <1>5, <1>13, <2>2, DeafKeeps DEF Drop
<1>14. CASE UNCHANGED vars
  BY <1>1, <1>14 DEF vars, Moves, Forward
<1> QED
  BY <1>6, <1>7, <1>8, <1>9, <1>10, <1>11, <1>12, <1>13, <1>14 DEF Next

\* The invariant is inductive.
LEMMA NextKeepsReading == Reading /\ [Next]_vars => Reading'
BY NextSound, NextReading DEF Reading, Moves

\* It holds of every state of every behaviour.
LEMMA ReadingAlways == Spec => []Reading
BY InitReading, NextKeepsReading, PTL DEF Spec

\* Whatever arrives, a gap is waited out and never read across before its time,
\* and nothing typed goes past the far end's allowance but what a hold that
\* expired let go (read_slots, run_received, drain, send_typed).
THEOREM GapsAndAllowance == Spec => []SessionSound
<1>1. Reading => SessionSound
  <2> SUFFICES ASSUME Reading PROVE SessionSound
    OBVIOUS
  <2>1. TypeOK
    BY DEF Reading, IInv, Sound, TypeOK
  <2>2. EarlyWaits
    BY DEF Reading, Waits, Once, Gapped, EarlyWaits
  <2>3. AllowanceKept
    BY DEF Reading, AllowanceKept
  <2> QED
    BY <2>1, <2>2, <2>3 DEF SessionSound
<1> QED
  BY <1>1, ReadingAlways, PTL

\* An ended session does nothing but take its circuit down.
LEMMA ClosedDoesNothing ==
    Reading /\ [Next]_vars =>
        (vars' # vars /\ session.state = "Closed" =>
            /\ session'.state = "Closed"
            /\ session'.data = <<>>
            /\ session'.ended = session.ended
            /\ session'.outgoing \in {<<>>, <<StopFrame(session)>>}
            /\ session'.outgoing # <<>> => session.circuit /\ ~session'.circuit)
<1> SUFFICES ASSUME Reading, [Next]_vars, vars' # vars, session.state = "Closed"
             PROVE  /\ session'.state = "Closed"
                    /\ session'.data = <<>>
                    /\ session'.ended = session.ended
                    /\ session'.outgoing \in {<<>>, <<StopFrame(session)>>}
                    /\ session'.outgoing # <<>> => session.circuit /\ ~session'.circuit
  OBVIOUS
<1> DEFINE idle == Flushed(session)
<1>1. ~IsOpen(session) /\ ~Holding(session) /\ ~Awaiting(session)
  BY DEF IsOpen, Holding, Awaiting
<1>2. Drop /\ session.circuit
  BY <1>1 DEF Next, vars, CallNode, HearFrame, TypeKeys, HoldExpires, RetransmitDue, Dead,
              KeepaliveDue, Drop
<1>3. /\ idle \in Sessions /\ idle.state = "Closed" /\ idle.ended = session.ended
      /\ idle.outgoing = <<>> /\ idle.data = <<>> /\ idle.circuit
      /\ idle.theirs = session.theirs
  BY <1>2, FlushedSound, FlushedKeeps DEF Reading, IInv, Sound
<1>4. session' = Close(idle)
  BY <1>2 DEF Drop, Do, idle
<1> HIDE DEF idle
<1>5. /\ session'.state = "Closed" /\ session'.data = <<>>
      /\ session'.ended = session.ended /\ session'.circuit = FALSE
      /\ session'.outgoing = Append(<<>>, StopFrame(idle))
  BY <1>3, <1>4 DEF Close, Sessions
<1>6. StopFrame(idle) = StopFrame(session)
  BY <1>3 DEF StopFrame
<1>7. Append(<<>>, StopFrame(idle)) = <<StopFrame(session)>>
  BY <1>6
<1> QED
  BY <1>2, <1>5, <1>7

\* The number heard never goes back, so that nothing read is asked for again;
\* and an end is final, whatever the transport still calls (hear, read_slots,
\* closed, close).
THEOREM HeardAndEndedForGood == Spec => NeverUndone
<1> DEFINE Hears == session'.heard # session.heard =>
                      ~session.heardAny \/ Newer(session'.heard, session.heard)
           Ends == session.state = "Closed" =>
                     /\ session'.state = "Closed"
                     /\ session'.data = <<>>
                     /\ session'.ended = session.ended
                     /\ session'.outgoing \in {<<>>, <<StopFrame(session)>>}
                     /\ session'.outgoing # <<>> => session.circuit /\ ~session'.circuit
<1>1. Reading /\ [Next]_vars => [Hears]_vars
  BY NextReading DEF Moves, Forward
<1>2. Reading /\ [Next]_vars => [Ends]_vars
  BY ClosedDoesNothing
<1>3. Spec => [][Hears]_vars
  BY <1>1, ReadingAlways, PTL DEF Spec
<1>4. Spec => [][Ends]_vars
  BY <1>2, ReadingAlways, PTL DEF Spec
<1> QED
  BY <1>3, <1>4 DEF NeverUndone, HeardNeverRewinds, ClosedIsFinal

=============================================================================
