----------------------------- MODULE LatProtocol -----------------------------
(***************************************************************************)
(* The operations of one LAT session (crates/vt-lat/src/session.rs), as     *)
(* functions from the record of a session to the record it leaves behind.   *)
(* A handler of the source calls its helpers one after the other on `self`; *)
(* the operators below compose the same way, so that one action of a module *)
(* that extends this one is one whole handler.                              *)
(*                                                                          *)
(* What is abstracted:                                                      *)
(*  - a run message's slots are summed up: how many there are, the credit   *)
(*    and the data of those addressed to this end, whether one of them ends *)
(*    the session, and the last non-zero slot of the far end they name;     *)
(*  - `outgoing` and `data` hold what the latest operation produced: the    *)
(*    transport takes both away before it lets the next operation in;       *)
(*  - the statistics, which the source never acts on, are left out, and the *)
(*    progress counter is the flag "it moved since the transport looked".   *)
(*                                                                          *)
(* A definition marked "Mutant" is the next one with a mistake in it; no    *)
(* other definition uses it.                                                *)
(***************************************************************************)
EXTENDS Integers, Sequences, FiniteSets

CONSTANTS
    NumberSpan,       \* the numbers a one-byte sequence can take (256)
    MaxCredit,        \* MAX_CREDIT: what the low nibble holds (15)
    Regrant,          \* REGRANT: messages between two full reckonings (32)
    Window,           \* WINDOW: unacknowledged messages typing may fill (16)
    GapPatience,      \* GAP_PATIENCE: messages that may wait behind a gap (8)
    SlotsPerMessage,  \* SLOTS_PER_MESSAGE (5)
    MaxSlot,          \* MAX_SLOT: bytes of data in one slot (254)
    RetransmitLimit,  \* RETRANSMIT_LIMIT (30)
    Ours,             \* this end's circuit identifier
    Unnamed           \* nought: the identifier of an end that has not named itself

ASSUME NumbersAssumption ==
    /\ NumberSpan \in Nat /\ NumberSpan > 3
    /\ MaxCredit \in Nat \ {0}
    /\ Regrant \in Nat \ {0}

\* The loops of send_typed and drain are unrolled below, sixteen and eight
\* turns deep, which is as far as the source's own limits let them run.
ASSUME LimitsAssumption ==
    /\ Window \in 1..16
    /\ GapPatience \in 1..8
    /\ SlotsPerMessage \in Nat \ {0}
    /\ MaxSlot \in Nat \ {0}
    /\ RetransmitLimit \in Nat

ASSUME IdentifiersAssumption == Ours # Unnamed

Numbers == 0 .. (NumberSpan - 1)
States == {"New", "Calling", "Asked", "Open", "Closed"}
LowCredit == MaxCredit \div 2

-----------------------------------------------------------------------------
(* Sequence numbers, which wrap. *)

\* Mutant: the number does not wrap.
NextNumberUnwrapped(a) == a + 1

NextNumber(a) == IF a = NumberSpan - 1 THEN 0 ELSE a + 1
Distance(a, b) == IF a >= b THEN a - b ELSE a - b + NumberSpan
Newer(a, b) == a # b /\ Distance(a, b) < NumberSpan \div 2

-----------------------------------------------------------------------------
NewSession ==
    [state |-> "New", theirs |-> Unnamed, sequence |-> 0, heard |-> 0,
     heardAny |-> FALSE, remoteSlot |-> 1, credit |-> 0, circuit |-> FALSE,
     typed |-> <<>>, allowance |-> 0, ended |-> "over", sinceGrant |-> 0,
     kept |-> <<>>, early |-> {}, progress |-> FALSE, stalled |-> 0,
     outgoing |-> <<>>, data |-> <<>>]

IsOpen(s) == s.state \in {"Asked", "Open"}
Holding(s) == s.typed # <<>> /\ s.state = "Open"
Awaiting(s) == s.kept # <<>> /\ IsOpen(s)

\* The transport has taken what the previous operation put out.
Flushed(s) == [s EXCEPT !.outgoing = <<>>, !.data = <<>>]

-----------------------------------------------------------------------------
(* What this end sends. *)

StartFrame == [kind |-> "start", ours |-> Ours]
StopFrame(s) == [kind |-> "stop", theirs |-> s.theirs, ours |-> Ours]

RunFrame(s, k) ==
    [kind |-> "run", theirs |-> s.theirs, ours |-> Ours, sequence |-> k.sequence,
     acknowledged |-> s.heard, to |-> k.to, slots |-> k.slots,
     credit |-> k.credit, data |-> k.data]

\* The slots a message is made of, less its number.
NoSlots == [to |-> 0, slots |-> 0, credit |-> 0, data |-> <<>>]
AskSlot == [to |-> 0, slots |-> 1, credit |-> MaxCredit, data |-> <<>>]
\* Mutant: the slot carries no credit.
GrantSlotEmpty(s, grant) == [to |-> s.remoteSlot, slots |-> 1, credit |-> 0, data |-> <<>>]

GrantSlot(s, grant) == [to |-> s.remoteSlot, slots |-> 1, credit |-> grant, data |-> <<>>]
DataSlots(s, n, bytes) ==
    [to |-> s.remoteSlot, slots |-> n, credit |-> MaxCredit - s.credit, data |-> bytes]

\* Only session data with something in it spends the allowance.
Spending(m) == IF m.data = <<>> THEN 0 ELSE m.slots

\* A message with slots takes a new number and is kept until it is
\* acknowledged; one with none carries the number of the last.
SlotFrame(s, m) ==
    LET number == IF m.slots = 0 THEN s.sequence ELSE NextNumber(s.sequence)
        k == [sequence |-> number, to |-> m.to, slots |-> m.slots,
              credit |-> m.credit, data |-> m.data]
    IN  [s EXCEPT !.sequence = number,
                  !.kept = IF m.slots = 0 THEN @ ELSE Append(@, k),
                  !.allowance = @ - Spending(m),
                  !.outgoing = Append(@, RunFrame(s, k))]

\* Mutant: a message with no slots takes a number too.
AcknowledgeNumbered(s) == SlotFrame([s EXCEPT !.sequence = NextNumber(@)], NoSlots)

Acknowledge(s) == SlotFrame(s, NoSlots)

\* Mutant: a reckoning at the low mark itself is let pass.
RunsLowLate(left) == left < LowCredit

RunsLow(left) == left <= LowCredit

\* Counts what the far end has spent, and grants more before it runs out.
Spend(s, slots) ==
    LET due == s.sinceGrant + 1 >= Regrant
        left == IF due \/ slots > s.credit THEN 0 ELSE s.credit - slots
        counted == [s EXCEPT !.sinceGrant = IF due THEN 0 ELSE s.sinceGrant + 1,
                             !.credit = IF RunsLow(left) THEN MaxCredit ELSE left]
    IN  IF RunsLow(left)
        THEN SlotFrame(counted, GrantSlot(s, MaxCredit - left))
        ELSE counted

-----------------------------------------------------------------------------
(* Sending what is typed: as many slots as the allowance covers in each      *)
(* message, up to SlotsPerMessage, until the window is full.                 *)

Smaller(a, b) == IF a <= b THEN a ELSE b

\* Mutant: the window is not looked at.
HasRoomAlways(s) == Holding(s)

HasRoom(s) == Holding(s) /\ Len(s.kept) < Window

DataFrame(s, most) ==
    LET bytes == Smaller(Len(s.typed), most * MaxSlot)
        slots == (bytes + MaxSlot - 1) \div MaxSlot
        rest  == [s EXCEPT !.typed = SubSeq(s.typed, bytes + 1, Len(s.typed)),
                            !.credit = MaxCredit]
    IN  SlotFrame(rest, DataSlots(s, slots, SubSeq(s.typed, 1, bytes)))

\* Mutant: a full message goes whatever the allowance.
SendOnceFull(s) == IF HasRoom(s) /\ s.allowance > 0 THEN DataFrame(s, SlotsPerMessage) ELSE s

SendOnce(s) ==
    IF HasRoom(s) /\ s.allowance > 0
    THEN DataFrame(s, Smaller(s.allowance, SlotsPerMessage))
    ELSE s

Send2(s) == SendOnce(SendOnce(s))
Send4(s) == Send2(Send2(s))
Send8(s) == Send4(Send4(s))
SendTyped(s) == Send8(Send8(s))

\* A forced send lets go of one slot once the allowance covers nothing.
ReleaseTyping(s) ==
    LET sent == SendTyped(s)
    IN  IF HasRoom(sent) THEN DataFrame(sent, 1) ELSE sent

-----------------------------------------------------------------------------
(* Reading a run message that is next in order, or read in spite of a gap.   *)

\* Mutant: a message heard already is read again.
FreshAlways(s, m) == TRUE

Fresh(s, m) == ~s.heardAny \/ Newer(m.sequence, s.heard)

Missed(s, m) ==
    IF s.heardAny /\ Fresh(s, m) THEN Distance(m.sequence, s.heard) - 1 ELSE 0

\* Mutant: a number is heard however old it is.
HearAny(s, m) == [s EXCEPT !.heard = m.sequence, !.heardAny = TRUE]

Hear(s, m) ==
    IF Fresh(s, m) THEN [s EXCEPT !.heard = m.sequence, !.heardAny = TRUE] ELSE s

ReadSlots(s, m) ==
    [s EXCEPT !.remoteSlot = IF m.from = 0 THEN @ ELSE m.from,
              !.allowance = @ + m.credit,
              !.data = @ \o m.data]

\* Mutant: the credit of a message heard already is read again.
TakeAgainReading(s, m) == Acknowledge(Spend([s EXCEPT !.allowance = @ + m.credit], m.slots))

\* A message heard already: its credit was spent again, its slots are not read.
TakeAgain(s, m) == Acknowledge(Spend(s, m.slots))

TakeFresh(s, m, owed) ==
    LET read == Spend(ReadSlots(Acknowledge(Hear(s, m)), m), owed + Missed(s, m))
    IN  IF m.ended
        THEN [read EXCEPT !.ended = "session ended", !.state = "Closed"]
        ELSE IF m.data = <<>>
        THEN read
        ELSE SendTyped([read EXCEPT !.state = IF @ = "Asked" THEN "Open" ELSE @])

\* `counted` is a message that waited behind a gap: its slots were counted
\* against the far end's credit when it came.
Take(s, m, counted) ==
    IF m.slots = 0 THEN Hear(s, m)
    ELSE IF ~Fresh(s, m) THEN TakeAgain(s, m)
    ELSE TakeFresh(s, m, IF counted THEN 0 ELSE m.slots)

-----------------------------------------------------------------------------
(* Messages waiting behind a gap. *)

Unread(s) == {m \in s.early : Newer(m.sequence, s.heard)}
NextInLine(s) == {m \in Unread(s) : m.sequence = NextNumber(s.heard)}
Nearest(s) == {m \in Unread(s) :
                 \A o \in Unread(s) : Distance(m.sequence, s.heard) <= Distance(o.sequence, s.heard)}

TakeOneOf(s, waiting) ==
    IF waiting = {} THEN [s EXCEPT !.early = Unread(s)]
    ELSE LET m == CHOOSE w \in waiting : TRUE
         IN  Take([s EXCEPT !.early = Unread(s) \ {m}], m, TRUE)

Follow(s) == IF s.state = "Closed" THEN s ELSE TakeOneOf(s, NextInLine(s))
Follow2(s) == Follow(Follow(s))
Follow4(s) == Follow2(Follow2(s))
Follow8(s) == Follow4(Follow4(s))

\* Mutant: what waited is left waiting when the gap is made good.
DrainNothing(s) == s

\* The first turn comes even after a message that closed the session.
Drain(s) == Follow8(TakeOneOf(s, NextInLine(s)))
GiveUp(s) == Follow8(TakeOneOf(s, Nearest(s)))

-----------------------------------------------------------------------------
(* What the far end has acknowledged need not be kept. *)

\* Mutant: an acknowledgement of anything is one of everything.
AcknowledgedAll(s, number) == 1 .. Len(s.kept)

\* Mutant: an acknowledgement is taken for one of the next message.
AcknowledgedNext(s, number) ==
    {n \in 1 .. Len(s.kept) : \A i \in 1 .. n : ~Newer(s.kept[i].sequence, NextNumber(number))}

Acknowledged(s, number) ==
    {n \in 1 .. Len(s.kept) : \A i \in 1 .. n : ~Newer(s.kept[i].sequence, number)}

Forget(s, number) ==
    LET done == Acknowledged(s, number)
        n    == CHOOSE i \in done : \A j \in done : j <= i
    IN  IF done = {} THEN s
        ELSE SendTyped([s EXCEPT !.kept = SubSeq(@, n + 1, Len(@)),
                                 !.progress = TRUE, !.stalled = 0])

\* Mutant: what comes after a gap is read as it comes.
AfterGapNever(s, m) == FALSE

AfterGap(s, m) ==
    s.heardAny /\ Newer(m.sequence, s.heard) /\ m.sequence # NextNumber(s.heard)

\* Mutant: what waits is not counted when it comes.
HoldUncounted(s, m) ==
    [s EXCEPT !.early = {w \in @ : w.sequence # m.sequence} \cup {m}]

Hold(s, m) ==
    Spend([s EXCEPT !.early = {w \in @ : w.sequence # m.sequence} \cup {m}], m.slots)

\* A message after a gap waits, and says where this end has got to; when
\* GapPatience of them wait, the gap is given up.
RunAfterGap(s, m) ==
    LET held == Hold(s, m)
    IN  IF Cardinality(held.early) >= GapPatience THEN GiveUp(held)
        ELSE IF m.slots = 0 THEN held ELSE Acknowledge(held)

Run(s, m) ==
    LET known == Forget(s, m.acknowledged)
    IN  IF ~IsOpen(s) \/ m.ours # s.theirs \/ m.theirs # Ours THEN s
        ELSE IF AfterGap(known, m) THEN RunAfterGap(known, m)
        ELSE Drain(Take(known, m, FALSE))

Agreed(s, m) ==
    LET asked == SlotFrame([s EXCEPT !.theirs = m.ours], AskSlot)
    IN  IF m.calling \/ s.state # "Calling" \/ m.theirs # Ours THEN s
        ELSE [asked EXCEPT !.credit = MaxCredit, !.circuit = TRUE, !.state = "Asked"]

Stopped(s, m) ==
    IF m.theirs # Ours \/ m.ours \notin {Unnamed, s.theirs} THEN s
    ELSE [s EXCEPT !.state = "Closed", !.circuit = FALSE, !.ended = "circuit closed"]

Receive(s, m) ==
    CASE m.kind = "start" -> Agreed(s, m)
      [] m.kind = "run"   -> Run(s, m)
      [] m.kind = "stop"  -> Stopped(s, m)
      [] OTHER            -> s

-----------------------------------------------------------------------------
(* What the transport asks of the session. *)

Call(s) == [s EXCEPT !.outgoing = Append(@, StartFrame), !.state = "Calling"]

Write(s, bytes) ==
    IF s.state = "Closed" THEN s ELSE SendTyped([s EXCEPT !.typed = @ \o bytes])

\* Everything unacknowledged goes again, naming what is heard by now.
Retransmit(s) ==
    IF ~Awaiting(s) THEN s
    ELSE IF s.stalled + 1 > RetransmitLimit
    THEN [s EXCEPT !.stalled = @ + 1, !.state = "Closed", !.ended = "stopped accepting"]
    ELSE [s EXCEPT !.stalled = @ + 1,
                   !.outgoing = @ \o [i \in 1 .. Len(s.kept) |-> RunFrame(s, s.kept[i])]]

\* Mutant: the circuit is left standing.
PeerGoneStanding(s) ==
    IF ~IsOpen(s) THEN s ELSE [s EXCEPT !.ended = "stopped answering", !.state = "Closed"]

PeerGone(s) ==
    IF ~IsOpen(s) THEN s
    ELSE [s EXCEPT !.ended = "stopped answering", !.state = "Closed", !.circuit = FALSE]

Keepalive(s) == IF IsOpen(s) THEN Acknowledge(s) ELSE s

\* Mutant: the circuit is taken down again and again.
CloseAgain(s) ==
    [s EXCEPT !.outgoing = IF s.circuit THEN Append(@, StopFrame(s)) ELSE @, !.state = "Closed"]

Close(s) ==
    [s EXCEPT !.outgoing = IF s.circuit THEN Append(@, StopFrame(s)) ELSE @,
              !.circuit = FALSE, !.state = "Closed"]
=============================================================================
