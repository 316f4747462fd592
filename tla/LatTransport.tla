----------------------------- MODULE LatTransport -----------------------------
(***************************************************************************)
(* The clocks of a LAT session (crates/vt-transport/src/lat.rs): the thread  *)
(* that connects and then reads, the one that writes, the record they share  *)
(* under a lock, and the host, the other circuits and the time that passes.  *)
(*                                                                         *)
(* An Instant of the source is the number of seconds since it was taken,     *)
(* which is not counted on past the limit it is compared with.  A step is    *)
(* what a thread does under one taking of the lock.  A wait for a frame      *)
(* lasts a tenth of a second (POLL), so a thread that reads has been round   *)
(* its loop, and has read what was waiting, before a second has passed.      *)
(***************************************************************************)
EXTENDS LatProtocol

CONSTANTS
    RetransmitAfter,  \* RETRANSMIT (1 s)
    HoldAfter,        \* HOLD (3 s)
    KeepaliveAfter,   \* KEEPALIVE (10 s)
    DeadAfter,        \* DEAD (60 s)
    AgreeWait,        \* AGREE_WAIT (15 s)
    CallAgain,        \* CALL_AGAIN (3 s)
    HostKeepalive,    \* the longest a host says nothing (20 s)
    SocketRoom,       \* bound: frames the kernel keeps for the socket
    MaxLost,          \* bound: frames of the host's the wire loses
    MaxSaid,          \* bound: messages with text the host sends
    MaxWritten        \* bound: keys typed

Limits == {RetransmitAfter, HoldAfter, KeepaliveAfter, DeadAfter, AgreeWait, CallAgain, HostKeepalive}
ASSUME ClocksAssumption == Limits \subseteq Nat \ {0} /\ SocketRoom \in Nat \ {0}

VARIABLES
    shared,   \* Shared: the session, and since when what
    reader,   \* the thread that reads: where it is, and whether it has been round since the second
    calling,  \* connect's: the seconds since it began and since it last called
    socket,   \* the frames the kernel keeps for the socket
    node,     \* the host
    written,  \* history: keys typed
    record    \* history: frames of the host's lost, seconds of reading since it went,
              \* and seconds this end has been kept from the connection

transportVars == <<shared, reader, calling, socket, node, written, record>>

Unset == -1
Elapsed(since, limit) == IF since = Unset THEN since ELSE Smaller(since + 1, limit)

-----------------------------------------------------------------------------
(* Which messages are nothing to a session: Event::Ignored.                  *)

Ignored(s, m) ==
    CASE m.kind = "start" -> m.calling \/ s.state # "Calling" \/ m.theirs # Ours
      [] m.kind = "run"   -> ~IsOpen(s) \/ m.ours # s.theirs \/ m.theirs # Ours
      [] m.kind = "stop"  -> m.theirs # Ours \/ m.ours \notin {Unnamed, s.theirs}
      [] OTHER            -> TRUE

-----------------------------------------------------------------------------
(* What a thread does to the shared record under the lock. *)

\* Mutant: what this end sends counts as something heard.
FlushHeard(sh) ==
    IF sh.session.outgoing = <<>> THEN [sh EXCEPT !.session = Flushed(@)]
    ELSE [sh EXCEPT !.session = Flushed(@), !.sent = 0, !.heard = 0]

Flush(sh) ==
    IF sh.session.outgoing = <<>> THEN [sh EXCEPT !.session = Flushed(@)]
    ELSE [sh EXCEPT !.session = Flushed(@), !.sent = 0]

Hears(sh, m) ==
    Flush([sh EXCEPT !.session = Receive(@, m),
                     !.heard = IF Ignored(sh.session, m) THEN @ ELSE 0])

\* An Option<Instant> that is given the present if it has none.
Since(instant) == IF instant = Unset THEN 0 ELSE instant

HoldPart(sh) ==
    IF ~Holding(sh.session) THEN [sh EXCEPT !.held = Unset]
    ELSE IF Since(sh.held) < HoldAfter THEN [sh EXCEPT !.held = Since(@)]
    ELSE Flush([sh EXCEPT !.session = ReleaseTyping(@), !.held = Unset])

RetransmitPart(sh) ==
    LET since == IF sh.session.progress THEN 0 ELSE Since(sh.stalled)
        looked == [sh EXCEPT !.session.progress = FALSE, !.stalled = since]
    IN  IF ~Awaiting(sh.session) THEN [sh EXCEPT !.stalled = Unset]
        ELSE IF since < RetransmitAfter THEN looked
        ELSE Flush([looked EXCEPT !.session = Retransmit(@), !.stalled = 0])

DeadOrKeepalivePart(sh) ==
    IF sh.heard >= DeadAfter /\ sh.session.state # "Closed"
    THEN [sh EXCEPT !.session = PeerGone(@)]
    ELSE IF sh.sent < KeepaliveAfter THEN sh
    ELSE Flush([sh EXCEPT !.session = Keepalive(@)])

\* The whole of Lat::keepalive.
KeepalivePart(sh) == DeadOrKeepalivePart(RetransmitPart(HoldPart(sh)))

-----------------------------------------------------------------------------
(* What may be read.  A packet socket hears every LAT frame on the wire; those *)
(* of other circuits are read between any two of the host's, in any number.   *)

HostStart == [kind |-> "start", calling |-> FALSE, theirs |-> Ours, ours |-> "host"]
HostRun(number, text) ==
    [kind |-> "run", theirs |-> Ours, ours |-> "host", sequence |-> number,
     acknowledged |-> node.acked, slots |-> Len(text), credit |-> Len(text), data |-> text,
     ended |-> FALSE, from |-> 1]
HostStop == [kind |-> "stop", theirs |-> Ours, ours |-> "host"]

\* This end's own frames, come back off the wire, those of another session of
\* this machine's with the host, and another terminal's call.
OtherFrames ==
    { [HostRun(0, <<>>) EXCEPT !.theirs = "host", !.ours = Ours],
      [HostRun(0, <<>>) EXCEPT !.theirs = "other"],
      [HostStop EXCEPT !.theirs = "other"],
      [HostStart EXCEPT !.calling = TRUE, !.theirs = Unnamed, !.ours = "other"] }

\* What a read gives, and what the kernel keeps for the next.
Readable == {<<m, socket>> : m \in OtherFrames}
            \cup IF socket = <<>> THEN {} ELSE {<<Head(socket), Tail(socket)>>}

-----------------------------------------------------------------------------
(* The thread that connects and reads. *)

Goes(place) == reader' = [at |-> place, round |-> reader.round]
Rounds(place) == reader' = [at |-> place, round |-> TRUE]
Elsewhere == UNCHANGED <<calling, node, written, record>>

\* One turn of connect's loop.
ConnectTurn ==
    LET again == calling.called >= CallAgain
        asked == IF again THEN Flush([shared EXCEPT !.session = Call(@)]) ELSE shared
    IN  /\ reader.at = "connect" /\ calling.began < AgreeWait
        /\ \/ socket = <<>> /\ shared' = asked /\ UNCHANGED socket
           \/ \E r \in Readable : shared' = Hears(asked, r[1]) /\ socket' = r[2]
        /\ Rounds(CASE IsOpen(shared'.session)            -> "read"
                    [] shared'.session.state = "Closed" -> "refused"
                    [] OTHER                            -> "connect")
        /\ calling' = IF reader'.at # "connect" THEN [began |-> 0, called |-> 0]
                      ELSE [calling EXCEPT !.called = IF again THEN 0 ELSE @]
        /\ UNCHANGED <<node, written, record>>

ConnectTimesOut ==
    /\ reader.at = "connect" /\ calling.began >= AgreeWait
    /\ Goes("refused")
    /\ UNCHANGED <<shared, socket>> /\ Elsewhere

\* A turn of read_timeout's loop: text goes to the caller at once, and anything
\* else, or nothing, leaves the clocks to be looked at.  A read is not begun of
\* a session that has closed, but one that finds it silent for good goes on.
ReadTurn ==
    /\ reader.at = "read"
    /\ shared.session.state # "Closed" \/ shared.session.ended = "stopped answering"
    /\ \/ socket = <<>> /\ Goes("keep") /\ UNCHANGED <<shared, socket>>
       \/ \E r \in Readable :
             /\ shared' = Hears(shared, r[1])
             /\ socket' = r[2]
             /\ IF Receive(shared.session, r[1]).data = <<>> THEN Goes("keep") ELSE Rounds("read")
    /\ Elsewhere

ClocksLookedAt ==
    /\ reader.at = "keep"
    /\ shared' = KeepalivePart(shared)
    /\ Rounds("read")
    /\ UNCHANGED socket /\ Elsewhere

\* A read finds the session closed, or the window lets it go: Lat is dropped.
LatDropped ==
    /\ reader.at = "held" \/ reader.at = "read"
    /\ shared' = Flush([shared EXCEPT !.session = Close(@)])
    /\ Goes("over")
    /\ UNCHANGED socket /\ Elsewhere

\* Hold Screen and Set-Up keep the thread from the connection, between reads.
SessionHeld ==
    /\ reader.at = "read" /\ reader.round
    /\ Goes("held")
    /\ UNCHANGED <<shared, socket>> /\ Elsewhere

SessionResumed ==
    /\ reader.at = "held"
    /\ reader' = [at |-> "read", round |-> FALSE]
    /\ UNCHANGED <<shared, socket>> /\ Elsewhere

\* LatWriter, on whichever thread types.
KeyWritten ==
    /\ reader.at \in {"read", "keep", "held"} /\ shared.session.state # "Closed"
    /\ written < MaxWritten
    /\ shared' = Flush([shared EXCEPT !.session = Write(@, <<"t">>)])
    /\ written' = written + 1
    /\ UNCHANGED <<reader, calling, socket, node, record>>

-----------------------------------------------------------------------------
(* The wire.  A frame of the host's is lost for want of room only while the   *)
(* session is held, and that counts as being held for long: otherwise the     *)
(* socket is read before it is full.                                          *)

Comes(m) ==
    \/ /\ Len(socket) < SocketRoom
       /\ socket' = Append(socket, m)
       /\ UNCHANGED record
    \/ /\ record.lost < MaxLost
       /\ record' = [record EXCEPT !.lost = @ + 1]
       /\ UNCHANGED socket
    \/ /\ Len(socket) = SocketRoom /\ reader.at = "held"
       /\ record' = [record EXCEPT !.away = HostKeepalive]
       /\ UNCHANGED socket

-----------------------------------------------------------------------------
(* The host, which says something at least every HostKeepalive once it has    *)
(* agreed a circuit, until it goes, telling this end or not.                  *)

\* Nothing is asked of the host once this end has gone.
InUse == reader.at \in {"connect", "read", "keep", "held"}

NodeAgrees ==
    /\ InUse /\ node.state \in {"idle", "up"} /\ shared.session.state = "Calling"
    /\ Comes(HostStart)
    /\ node' = [node EXCEPT !.state = "up", !.silent = 0]
    /\ UNCHANGED <<shared, reader, calling, written>>

\* It has by now whatever was sent to it, or has not noticed anything new.
NodeAcknowledges ==
    /\ InUse /\ node.state = "up"
    /\ node' = [node EXCEPT !.acked = shared.session.sequence]
    /\ UNCHANGED <<shared, reader, calling, socket, written, record>>

\* A keepalive names the last message again; LatCircuit's host numbers those too.
NodeSays(text) ==
    LET number == IF text = <<>> THEN node.sequence ELSE NextNumber(node.sequence) IN
    /\ InUse /\ node.state = "up" /\ node.said + Len(text) <= MaxSaid
    /\ Comes(HostRun(number, text))
    /\ node' = [node EXCEPT !.sequence = number, !.said = @ + Len(text), !.silent = 0]
    /\ UNCHANGED <<shared, reader, calling, written>>

NodeStops ==
    /\ InUse /\ node.state = "up"
    /\ Comes(HostStop)
    /\ node' = [node EXCEPT !.state = "gone"]
    /\ UNCHANGED <<shared, reader, calling, written>>

NodeCrashes ==
    /\ InUse /\ node.state = "up"
    /\ node' = [node EXCEPT !.state = "gone"]
    /\ UNCHANGED <<shared, reader, calling, socket, written, record>>

-----------------------------------------------------------------------------
(* A second passes. *)

SecondPasses ==
    /\ reader.at \in {"connect", "read", "held"}
    /\ reader.at # "held" => reader.round /\ socket = <<>>
    /\ node.state = "up" => node.silent < HostKeepalive
    /\ shared' = [shared EXCEPT !.sent = Elapsed(@, KeepaliveAfter), !.heard = Elapsed(@, DeadAfter),
                                !.held = Elapsed(@, HoldAfter),
                                !.stalled = Elapsed(@, RetransmitAfter)]
    /\ reader' = [reader EXCEPT !.round = FALSE]
    /\ calling' = IF reader.at # "connect" THEN calling
                  ELSE [began |-> calling.began + 1, called |-> Elapsed(calling.called, CallAgain)]
    /\ node' = IF node.state = "up" THEN [node EXCEPT !.silent = @ + 1] ELSE node
    /\ record' = [record EXCEPT
                    !.gone = IF node.state = "gone" /\ reader.at # "held"
                             THEN Smaller(@ + 1, DeadAfter + 1) ELSE @,
                    !.away = IF reader.at = "held" THEN Smaller(@ + 1, HostKeepalive)
                             ELSE IF @ < HostKeepalive THEN 0 ELSE @]
    /\ UNCHANGED <<socket, written>>

StartsAt(place) ==
    /\ shared = [session |-> Flushed(Call(NewSession)), sent |-> 0, heard |-> 0,
                 held |-> Unset, stalled |-> Unset]
    /\ reader = [at |-> place, round |-> FALSE]
    /\ calling = [began |-> 0, called |-> 0]
    /\ socket = <<>>
    /\ node = [state |-> "idle", silent |-> 0, sequence |-> 0, acked |-> 0, said |-> 0]
    /\ written = 0
    /\ record = [lost |-> 0, gone |-> 0, away |-> 0]

TransportInit == StartsAt("connect")

TransportNext ==
    \/ ConnectTurn \/ ConnectTimesOut
    \/ ReadTurn \/ ClocksLookedAt \/ LatDropped \/ SessionHeld \/ SessionResumed
    \/ KeyWritten
    \/ NodeAgrees \/ NodeAcknowledges \/ NodeStops \/ NodeCrashes
    \/ \E text \in {<<>>, <<"t">>} : NodeSays(text)
    \/ SecondPasses

TransportSpec == TransportInit /\ [][TransportNext]_transportVars

-----------------------------------------------------------------------------
(* What the clocks are for. *)

\* Every clock is within its limit, and what the session puts out is taken.
ClocksOK ==
    /\ shared.sent \in 0 .. KeepaliveAfter /\ shared.heard \in 0 .. DeadAfter
    /\ shared.held \in {Unset} \cup 0 .. HoldAfter
    /\ shared.stalled \in {Unset} \cup 0 .. RetransmitAfter
    /\ shared.session.state \in States /\ shared.session = Flushed(shared.session)
    /\ reader.at \in {"connect", "read", "keep", "held", "refused", "over", "asleep"}

\* A host that has gone, whether or not it said so, is noticed within DEAD of
\* reading: none of this end's repeats and keepalives, nor what is said on
\* other circuits, keeps the session looking alive.
EndIsNoticed == IsOpen(shared.session) => record.gone <= DeadAfter

\* A host that is merely quiet is not mistaken for one that has gone, though a
\* keepalive of its own is lost, unless this end was kept from the connection
\* for as long as the host may be silent.
NeverMistaken ==
    shared.session.ended = "stopped answering" =>
        node.state = "gone" \/ record.away >= HostKeepalive

\* A thread that goes on reading never leaves the host for longer than
\* KEEPALIVE without a frame of this end's, although text that keeps coming
\* keeps it from looking at its clocks.
KeptAlive ==
    (reader.at = "read" /\ reader.round /\ IsOpen(shared.session)) => shared.sent < KeepaliveAfter

\* Silence means to either end what it should.
SilenceIsJudged == ClocksOK /\ EndIsNoticed /\ NeverMistaken /\ KeptAlive
=============================================================================
