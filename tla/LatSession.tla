------------------------------ MODULE LatSession ------------------------------
(***************************************************************************)
(* One LAT session against any far end at all: every handler of            *)
(* crates/vt-lat/src/session.rs, called as the transport calls it, with any *)
(* message of Inbound arriving at any time.  A host, a stale circuit, a     *)
(* duplicated frame and a hostile number are all members of Inbound.        *)
(***************************************************************************)
EXTENDS LatProtocol

CONSTANTS
    Identifiers,  \* the names the ends of circuits go by
    Bytes,        \* what is typed and what is shown
    Inbound,      \* the messages that may arrive
    Typing,       \* the chunks of typing the window may hand over
    MaxTyped,     \* bound: bytes waiting in `typed`
    MaxKept,      \* bound: unacknowledged messages when a frame arrives
    MaxAllowance, \* bound: credit held when a frame arrives
    MaxForced     \* bound: slots sent without an allowance

ASSUME NamesAssumption == {Ours, Unnamed} \subseteq Identifiers

StartMessages ==
    [kind : {"start"}, calling : BOOLEAN, theirs : Identifiers,
     ours : Identifiers \ {Unnamed}]
RunMessages ==
    [kind : {"run"}, theirs : Identifiers, ours : Identifiers, sequence : Numbers,
     acknowledged : Numbers, slots : Nat, credit : Nat, data : Seq(Bytes),
     ended : BOOLEAN, from : Nat]
StopMessages == [kind : {"stop"}, theirs : Identifiers, ours : Identifiers]

ASSUME InboundAssumption ==
    Inbound \subseteq StartMessages \cup RunMessages \cup StopMessages

ASSUME TypingAssumption == Typing \subseteq Seq(Bytes)

VARIABLES
    session,   \* the Session
    forced     \* history: the slots sent without an allowance

vars == <<session, forced>>

-----------------------------------------------------------------------------
Init == session = NewSession /\ forced = 0

Do(after) == session' = after

\* connect() calls, and calls again while nothing has answered.
CallNode ==
    /\ session.state \in {"New", "Calling"}
    /\ Do(Call(Flushed(session)))
    /\ UNCHANGED forced

\* connect() and read_timeout() read frames until the session has ended.
HearFrame(m) ==
    /\ session.state \notin {"New", "Closed"}
    /\ Len(session.kept) <= MaxKept
    /\ session.allowance <= MaxAllowance
    /\ Do(Receive(Flushed(session), m))
    /\ UNCHANGED forced

TypeKeys(bytes) ==
    /\ IsOpen(session)
    /\ Len(session.typed) + Len(bytes) <= MaxTyped
    /\ Do(Write(Flushed(session), bytes))
    /\ UNCHANGED forced

HoldExpires ==
    /\ Holding(session)
    /\ forced < MaxForced
    /\ Do(ReleaseTyping(Flushed(session)))
    /\ forced' = IF HasRoom(SendTyped(Flushed(session))) THEN forced + 1 ELSE forced

RetransmitDue ==
    /\ Awaiting(session)
    /\ Do(Retransmit(Flushed(session)))
    /\ UNCHANGED forced

Dead ==
    /\ IsOpen(session)
    /\ Do(PeerGone(Flushed(session)))
    /\ UNCHANGED forced

KeepaliveDue ==
    /\ IsOpen(session)
    /\ Do(Keepalive(Flushed(session)))
    /\ UNCHANGED forced

\* Drop for Lat: the window lets the session go.
Drop ==
    /\ IsOpen(session) \/ session.circuit
    /\ Do(Close(Flushed(session)))
    /\ UNCHANGED forced

Next ==
    \/ CallNode
    \/ \E m \in Inbound : HearFrame(m)
    \/ \E bytes \in Typing : TypeKeys(bytes)
    \/ HoldExpires
    \/ RetransmitDue
    \/ Dead
    \/ KeepaliveDue
    \/ Drop

Spec == Init /\ [][Next]_vars

-----------------------------------------------------------------------------
(* Types. *)

Parts == [to : Nat, slots : Nat, credit : 0 .. MaxCredit, data : Seq(Bytes)]
KeptMessages ==
    [sequence : Numbers, to : Nat, slots : Nat, credit : 0 .. MaxCredit, data : Seq(Bytes)]

Frames ==
    [kind : {"start"}, ours : Identifiers]
    \cup [kind : {"stop"}, theirs : Identifiers, ours : Identifiers]
    \cup [kind : {"run"}, theirs : Identifiers, ours : Identifiers, sequence : Numbers,
          acknowledged : Numbers, to : Nat, slots : Nat, credit : 0 .. MaxCredit,
          data : Seq(Bytes)]

Endings == {"over", "session ended", "circuit closed", "stopped accepting", "stopped answering"}

Sessions ==
    [state : States, theirs : Identifiers, sequence : Numbers, heard : Numbers,
     heardAny : BOOLEAN, remoteSlot : Nat \ {0}, credit : 0 .. MaxCredit,
     circuit : BOOLEAN, typed : Seq(Bytes), allowance : Int, ended : Endings,
     sinceGrant : 0 .. (Regrant - 1), kept : Seq(KeptMessages),
     early : SUBSET (Inbound \cap RunMessages), progress : BOOLEAN, stalled : Nat,
     outgoing : Seq(Frames), data : Seq(Bytes)]

\* Whatever the far end says, what is sent stays inside a sequence byte and a
\* credit nibble, and what is typed is addressed to a slot of the far end's.
TypeOK == session \in Sessions /\ forced \in Nat

-----------------------------------------------------------------------------
(* Safety.  What is said of a session is said of its record, so that it can   *)
(* be said of the record between two steps of a handler as well.             *)

InOrder(s) ==
    /\ \A i \in 1 .. Len(s.kept) - 1 :
          s.kept[i + 1].sequence = NextNumber(s.kept[i].sequence)
    /\ s.kept # <<>> => s.kept[Len(s.kept)].sequence = s.sequence

\* Everything unacknowledged that took a number is still there to be sent
\* again, in order and with no number missing, up to the number of the last
\* message sent: the far end takes messages in order only, so one that had a
\* number and was not kept would stop the circuit for good.
KeptInOrder == InOrder(session)

TypingFirst(s) ==
    \A i \in 1 .. Len(s.kept) : s.kept[i].data # <<>> => i <= Window

\* What is typed never makes the window longer than Window: only grants of
\* credit, which must not wait, lie beyond it.
TypingInsideWindow == TypingFirst(session)

Granted(s) == IsOpen(s) => s.credit > LowCredit

\* The far end of an open circuit is always reckoned to have more than the
\* low mark left to spend, whatever it sent: no path that counts its slots
\* leaves out the grant.
CreditAboveLowMark == Granted(session)

Owed(s) ==
    /\ IsOpen(s) => s.circuit
    /\ s.circuit =>
          /\ s.theirs # Unnamed
          /\ ~IsOpen(s) => s.ended \in {"session ended", "stopped accepting"}

\* There is a circuit to take down exactly while the far end may still be
\* holding one: while the session is open, and after it has ended in a way
\* that left the circuit standing.
CircuitOwed == Owed(session)

\* What waits behind a gap is still ahead of what has been read, is not next
\* (or it would have been read), waits once, and is short of the patience.
EarlyWaits ==
    /\ IsOpen(session) =>
          /\ \A m \in session.early : AfterGap(session, m)
          /\ Cardinality(session.early) < GapPatience
    /\ \A m, o \in session.early : m.sequence = o.sequence => m = o

\* Nothing typed is sent past the far end's allowance but the one slot that
\* each expiry of the hold lets go.
AllowanceKept == session.allowance >= -forced

\* The record keeps its shape, what is ahead of a gap waits as it should, and
\* the far end's allowance is kept to.
SessionSound == TypeOK /\ EarlyWaits /\ AllowanceKept

\* The number heard, which every message acknowledges, only moves forward:
\* taking it back would have the far end repeat what was read, and the text
\* would be painted twice.
HeardNeverRewinds ==
    [][session'.heard # session.heard =>
         ~session.heardAny \/ Newer(session'.heard, session.heard)]_vars

\* An ended session stays ended, reads nothing more, and sends at most the
\* one message that takes the circuit down.
ClosedIsFinal ==
    [][session.state = "Closed" =>
         /\ session'.state = "Closed"
         /\ session'.data = <<>>
         /\ session'.ended = session.ended
         /\ session'.outgoing \in {<<>>, <<StopFrame(session)>>}
         /\ session'.outgoing # <<>> => session.circuit /\ ~session'.circuit]_vars

\* No handler takes back what was heard or undoes an end.
NeverUndone == HeardNeverRewinds /\ ClosedIsFinal
=============================================================================
