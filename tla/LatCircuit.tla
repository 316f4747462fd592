------------------------------ MODULE LatCircuit ------------------------------
(***************************************************************************)
(* A LAT session and the host at the other end of its circuit, over two     *)
(* wires that lose frames.  The session is LatProtocol's; the host is       *)
(* outside the source and modelled from what the source says of OpenVMS:    *)
(* the strict host of crates/vt-lat/tests/soak.rs, which takes messages     *)
(* only in order and stops when its credit is spent, and which sends its    *)
(* own messages again until they are acknowledged (docs/lat-protocol.md).   *)
(***************************************************************************)
EXTENDS LatProtocol, SequencesExt

CONSTANTS
    HostWindow,  \* messages the host leaves unacknowledged
    Grants,      \* the credit the host may put on a slot
    WireRoom,    \* bound: frames in flight one way
    MaxKeys,     \* bound: bytes typed
    MaxTexts,    \* bound: pieces of text the host says
    MaxLosses,   \* bound: frames the wires lose
    Endings,     \* which of "drop", "end", "stop" and "die" may happen
    Patient      \* whether a second is longer than any frame is in flight

VARIABLES
    session,  \* this end
    host,     \* the far end
    toHost,   \* frames on their way to the host
    toUs,     \* frames on their way here
    keys,     \* history: bytes typed, which are numbered from 1
    screen,   \* history: what the window was given to show
    first,    \* history: the first number heard, or 0
    losses    \* history: frames lost

vars == <<session, host, toHost, toUs, keys, screen, first, losses>>

\* Half the numbers: of two that are less apart it can be told which is newer.
Half == NumberSpan \div 2

ASSUME HostAssumption == HostWindow \in 1 .. Half - 1 /\ Grants \subseteq Nat /\ WireRoom \in Nat

-----------------------------------------------------------------------------
(* Wires: what does not fit is lost, and what is in flight may be.           *)

Put(wire, frames) ==
    LET sum == wire \o frames IN SubSeq(sum, 1, Smaller(Len(sum), WireRoom))

Quiet == toHost = <<>> /\ toUs = <<>>
SecondPassed == Patient => Quiet

\* Ten seconds with nothing sent: what waits for an acknowledgement or for an
\* allowance goes sooner than that.
LongSilent == Patient => ~Awaiting(session) /\ ~Holding(session)

LoseToHost ==
    /\ toHost # <<>> /\ losses < MaxLosses
    /\ toHost' = Tail(toHost)
    /\ losses' = losses + 1
    /\ UNCHANGED <<session, host, toUs, keys, screen, first>>

LoseToUs ==
    /\ toUs # <<>> /\ losses < MaxLosses
    /\ toUs' = Tail(toUs)
    /\ losses' = losses + 1
    /\ UNCHANGED <<session, host, toHost, keys, screen, first>>

\* Two frames change places, as they may on the way through a bridge.
SwapToUs ==
    /\ Len(toUs) > 1 /\ losses < MaxLosses
    /\ toUs' = <<toUs[2], toUs[1]>> \o SubSeq(toUs, 3, Len(toUs))
    /\ losses' = losses + 1
    /\ UNCHANGED <<session, host, toHost, keys, screen, first>>

-----------------------------------------------------------------------------
(* The session, each operation followed by the flush under the same lock.    *)

Do(after) ==
    /\ session' = Flushed(after)
    /\ toHost' = Put(toHost, after.outgoing)
    /\ screen' = screen \o after.data

CallNode ==
    /\ session.state \in {"New", "Calling"}
    /\ SecondPassed
    /\ Do(Call(session))
    /\ UNCHANGED <<host, toUs, keys, first, losses>>

HearFrame ==
    /\ toUs # <<>>
    /\ toUs' = Tail(toUs)
    /\ IF session.state = "Closed" THEN UNCHANGED <<session, toHost, screen>>
       ELSE Do(Receive(session, Head(toUs)))
    /\ first' = IF ~session.heardAny /\ session'.heardAny THEN session'.heard ELSE first
    /\ UNCHANGED <<host, keys, losses>>

TypeKey ==
    /\ IsOpen(session)
    /\ keys < MaxKeys
    /\ keys' = keys + 1
    /\ Do(Write(session, <<keys + 1>>))
    /\ UNCHANGED <<host, toUs, first, losses>>

HoldExpires ==
    /\ Holding(session)
    /\ SecondPassed
    /\ Do(ReleaseTyping(session))
    /\ UNCHANGED <<host, toUs, keys, first, losses>>

RetransmitDue ==
    /\ Awaiting(session)
    /\ SecondPassed
    /\ Do(Retransmit(session))
    /\ UNCHANGED <<host, toUs, keys, first, losses>>

KeepaliveDue ==
    /\ IsOpen(session)
    /\ SecondPassed /\ LongSilent
    /\ Do(Keepalive(session))
    /\ UNCHANGED <<host, toUs, keys, first, losses>>

\* A minute with nothing heard.  The clock is LatTransport's: here it may run
\* out at any time that nothing is in flight, of a host that has gone or not.
Dead ==
    /\ IsOpen(session)
    /\ SecondPassed
    /\ Do(PeerGone(session))
    /\ UNCHANGED <<host, toUs, keys, first, losses>>

Drop ==
    /\ "drop" \in Endings
    /\ session.state \in {"Asked", "Open"} \/ session.circuit
    /\ Do(Close(session))
    /\ UNCHANGED <<host, toUs, keys, first, losses>>

-----------------------------------------------------------------------------
(* The host.  Its state is idle until it is called, up, over once it has     *)
(* ended the session, and gone once the circuit is down or it has crashed.   *)

Host0 ==
    [state |-> "idle", sequence |-> 0, acked |-> 0, owes |-> FALSE, credit |-> 0,
     granted |-> 0, typed |-> <<>>, unacked |-> <<>>, said |-> 0]

Agreement == [kind |-> "start", calling |-> FALSE, theirs |-> Ours, ours |-> "host"]
StopMessage == [kind |-> "stop", theirs |-> Ours, ours |-> "host"]
Blank == [sequence |-> 0, slots |-> 0, credit |-> 0, data |-> <<>>, ended |-> FALSE]

Frame(h, m) ==
    [kind |-> "run", theirs |-> Ours, ours |-> "host", sequence |-> m.sequence,
     acknowledged |-> h.acked, slots |-> m.slots, credit |-> m.credit,
     data |-> m.data, ended |-> m.ended, from |-> 1]

\* Every message of the host's takes a number and is kept until it is
\* acknowledged, its acknowledgements included.
Say(m) ==
    LET n == [m EXCEPT !.sequence = NextNumber(host.sequence)]
    IN  /\ host.state = "up"
        /\ Len(host.unacked) < HostWindow
        /\ host.credit >= m.slots
        /\ toUs' = Put(toUs, <<Frame(host, n)>>)
        /\ host' = [host EXCEPT !.sequence = n.sequence, !.unacked = Append(@, n),
                                !.credit = @ - m.slots, !.granted = @ + m.credit,
                                !.said = @ + Len(m.data), !.owes = FALSE,
                                !.state = IF m.ended THEN "over" ELSE @]
        /\ UNCHANGED <<session, toHost, keys, screen, first, losses>>

HostSpeaks ==
    /\ host.said < MaxTexts
    /\ \E g \in Grants :
          Say([Blank EXCEPT !.slots = 1, !.credit = g, !.data = <<host.said + 1>>])

\* An empty slot, sent when veetee has used up what it was granted.
HostGrants ==
    /\ host.granted <= 0
    /\ \E g \in Grants \ {0} : Say([Blank EXCEPT !.slots = 1, !.credit = g])

HostEnds == "end" \in Endings /\ Say([Blank EXCEPT !.slots = 1, !.ended = TRUE])

HostAcks == host.owes /\ Say(Blank)

HostRepeats ==
    /\ host.state \in {"up", "over"}
    /\ host.unacked # <<>>
    /\ SecondPassed
    /\ toUs' = Put(toUs, [i \in 1 .. Len(host.unacked) |-> Frame(host, host.unacked[i])])
    /\ host' = [host EXCEPT !.owes = FALSE]
    /\ UNCHANGED <<session, toHost, keys, screen, first, losses>>

\* A host that has gone remembers nothing of the circuit.
Departed == [Host0 EXCEPT !.state = "gone", !.typed = host.typed, !.said = host.said]

HostStops ==
    /\ "stop" \in Endings
    /\ host.state \in {"up", "over"}
    /\ host' = Departed
    /\ toUs' = Put(toUs, <<StopMessage>>)
    /\ UNCHANGED <<session, toHost, keys, screen, first, losses>>

HostDies ==
    /\ "die" \in Endings
    /\ host.state \in {"up", "over"}
    /\ host' = Departed
    /\ UNCHANGED <<session, toHost, toUs, keys, screen, first, losses>>

HostForgets(number) ==
    LET known == {n \in 0 .. Len(host.unacked) :
                    \A i \in 1 .. n : ~Newer(host.unacked[i].sequence, number)}
    IN  SubSeq(host.unacked, Max(known) + 1, Len(host.unacked))

\* A message with slots is taken only if it is next in order.
HostTakes(f) ==
    LET known == [host EXCEPT !.unacked = HostForgets(f.acknowledged)]
    IN  IF f.slots = 0 \/ f.sequence # NextNumber(host.acked)
        THEN [known EXCEPT !.owes = f.slots > 0 \/ @]
        ELSE [known EXCEPT !.acked = f.sequence, !.owes = TRUE,
                           !.credit = Smaller(@ + f.credit, MaxCredit),
                           !.granted = @ - Spending(f),
                           !.typed = @ \o f.data]

HostHears ==
    /\ toHost # <<>>
    /\ toHost' = Tail(toHost)
    /\ LET f == Head(toHost) IN
       \/ /\ f.kind = "start" /\ host.state \in {"idle", "up"} /\ host.acked = 0
          /\ host' = [host EXCEPT !.state = "up"]
          /\ toUs' = Put(toUs, <<Agreement>>)
       \/ /\ f.kind = "run" /\ host.state \in {"up", "over"}
          /\ host' = HostTakes(f)
          /\ UNCHANGED toUs
       \/ /\ f.kind = "stop"
          /\ host' = Departed
          /\ UNCHANGED toUs
       \/ /\ \/ f.kind = "start" /\ ~(host.state \in {"idle", "up"} /\ host.acked = 0)
             \/ f.kind = "run" /\ host.state \notin {"up", "over"}
          /\ UNCHANGED <<host, toUs>>
    /\ UNCHANGED <<session, keys, screen, first, losses>>

-----------------------------------------------------------------------------
Init ==
    /\ session = NewSession
    /\ host = Host0
    /\ toHost = <<>> /\ toUs = <<>>
    /\ keys = 0 /\ screen = <<>> /\ first = 0 /\ losses = 0

Here == CallNode \/ HearFrame \/ TypeKey \/ HoldExpires \/ RetransmitDue
         \/ KeepaliveDue \/ Dead \/ Drop
Theirs == HostHears \/ HostSpeaks \/ HostGrants \/ HostEnds \/ HostAcks
          \/ HostRepeats \/ HostStops \/ HostDies
Wire == LoseToHost \/ LoseToUs \/ SwapToUs

Next == Here \/ Theirs \/ Wire

Spec == Init /\ [][Next]_vars

\* What each end does without being asked: frames that are in flight arrive,
\* the host acknowledges and repeats itself, and timers, which run on while
\* frames fly, expire.  The session's part is written out with the condition
\* that enables each action, as WF_vars and SF_vars are for such an action.
Acts(after) == after.outgoing # <<>> \/ after.data # <<>> \/ after # session

CallDue == session.state \in {"New", "Calling"} /\ SecondPassed
HoldDue == Holding(session) /\ SecondPassed /\ Acts(ReleaseTyping(session))
RepeatDue == Awaiting(session) /\ SecondPassed /\ Acts(Retransmit(session))
SilenceDue == IsOpen(session) /\ SecondPassed /\ LongSilent
\* That it does run out of a host that has gone is LatTransport's EndIsNoticed.
GoneDue == IsOpen(session) /\ SecondPassed /\ host.state = "gone" /\ Acts(PeerGone(session))

Fairness ==
    /\ WF_vars(HostHears) /\ WF_vars(HostAcks) /\ SF_vars(HostRepeats)
    /\ []<>(toUs = <<>>) \/ []<><<HearFrame>>_vars
    /\ <>[]~CallDue \/ []<><<CallNode>>_vars
    /\ <>[]~HoldDue \/ []<><<HoldExpires>>_vars
    /\ <>[]~RepeatDue \/ []<><<RetransmitDue>>_vars
    /\ <>[]~SilenceDue \/ []<><<KeepaliveDue>>_vars
    /\ <>[]~GoneDue \/ []<><<Dead>>_vars

FairSpec == Spec /\ Fairness

-----------------------------------------------------------------------------
(* What the two ends know of each other. *)

Connected == IsOpen(session) /\ host.state \in {"up", "over"}

\* The sum of the first values of a function of numbers from 1.
Sum(f, last) ==
    LET upto[n \in 0 .. last] == IF n = 0 THEN 0 ELSE upto[n - 1] + f[n]
    IN  upto[last]

\* What is on messages the host has not taken yet.
NotTaken(Of(_)) ==
    Sum([i \in 1 .. Len(session.kept) |->
           IF Newer(session.kept[i].sequence, host.acked) THEN Of(session.kept[i]) ELSE 0],
        Len(session.kept))

\* The slots of the host's messages that this end has not counted yet.
NotCounted ==
    Sum([i \in 1 .. Len(host.unacked) |->
           LET m == host.unacked[i]
           IN  IF /\ ~session.heardAny \/ Newer(m.sequence, session.heard)
                  /\ \A w \in session.early : w.sequence # m.sequence
               THEN m.slots ELSE 0],
        Len(host.unacked))

\* What is numbered from 1, after one number and up to another.
Upto(a, b) == [i \in 1 .. b - a |-> a + i]

\* Every byte typed is with the host, in a message kept for it, or waiting to
\* be sent, once and in that order: no acknowledgement lets go of a message
\* the host has not taken, and nothing sent again is taken twice.
NothingTypedIsLost ==
    Connected =>
        LET last == Len(session.kept)
        IN  \E ends \in [0 .. last -> 0 .. keys] :
               /\ host.typed = Upto(0, ends[0])
               /\ \A i \in 1 .. last :
                     IF Newer(session.kept[i].sequence, host.acked)
                     THEN ends[i - 1] <= ends[i] /\ session.kept[i].data = Upto(ends[i - 1], ends[i])
                     ELSE ends[i] = ends[i - 1]
               /\ session.typed = Upto(ends[last], keys)

\* This end never believes the host has more credit than it has, has coming,
\* or has spent on messages still to be counted, so that the host is granted
\* more before it runs dry (once the first message heard was its first).
CreditReckoned ==
    (Connected /\ first \in {0, 1}) =>
        session.credit <= host.credit + NotTaken(LAMBDA k : k.credit) + NotCounted

\* Nor that it may send more than the host has granted and not had spent.
AllowanceReckoned ==
    Connected => session.allowance + NotTaken(Spending) <= host.granted

\* Both ends' credit is reckoned on the safe side.
CreditsReckoned == CreditReckoned /\ AllowanceReckoned

\* No more messages are kept than there are numbers to tell apart, and no
\* frame is on its way for so long that the numbers it has come round again.
\* The timers see to it: a message is sent again every second, thirty times at
\* the most, and 128 messages take a LAN's round trip each to be acknowledged.
Prompt ==
    host.state # "gone" =>
       /\ Len(session.kept) < Half
       /\ \A i \in DOMAIN toHost : toHost[i].kind = "run" =>
             /\ Distance(session.sequence, toHost[i].sequence) < Half
             /\ Distance(host.sequence, toHost[i].acknowledged) < Half
       /\ \A i \in DOMAIN toUs : toUs[i].kind = "run" =>
             /\ Distance(host.sequence, toUs[i].sequence) < Half
             /\ Distance(session.sequence, toUs[i].acknowledged) < Half

-----------------------------------------------------------------------------
(* The promise, and what must come about. *)

Delivery == INSTANCE LatDelivery WITH MayGiveUp <- HostWindow > GapPatience, typed <- keys,
                                taken <- host.typed, said <- host.said, shown <- screen

\* The circuit keeps the promise of LatDelivery.
DeliversInOrder == Delivery!Spec

\* What is typed once the host has prompted reaches it, or the session ends.
TypingArrives ==
    \A k \in 1 .. MaxKeys :
       (keys = k /\ session.state = "Open")
           ~> (Len(host.typed) >= k \/ session.state = "Closed")

\* What the host says is shown, or the session ends, unless the first message
\* to arrive was not the host's first.
TextArrives ==
    \A n \in 1 .. MaxTexts :
       host.said = n ~> (Contains(screen, n) \/ first > 1 \/ session.state = "Closed")

\* A host that has spent its credit is granted more.
CreditComes ==
    (Connected /\ host.credit = 0) ~> (host.credit > 0 \/ ~Connected)

\* A host that has something to say can say it, and is heard.
HostIsHeard == TextArrives /\ CreditComes

\* When the host ends the session, all it said before has been shown: the end
\* is not read ahead of text still on its way or waiting behind a gap.
EndComesLast ==
    (session.ended = "session ended" /\ first = 1 /\ host.state = "over") =>
        Len(screen) = host.said

\* Nothing typed is lost, nor anything the host said before it ended.
NothingIsLost == NothingTypedIsLost /\ EndComesLast

-----------------------------------------------------------------------------
(* What the source and its documents say and the code does not do.           *)

\* Typing waits only for a prompt, the allowance or the window.
NoIdleCredit ==
    Holding(session) => session.allowance <= 0 \/ Len(session.kept) >= Window

\* With nothing on its way and nothing left to acknowledge, the host has
\* credit left to say more with.
HostMaySpeak ==
    (Connected /\ Quiet /\ session.kept = <<>> /\ host.unacked = <<>>) => host.credit > 0
=============================================================================
