------------------------------ MODULE WindowLine ------------------------------
(***************************************************************************)
(* The line of one window's session (crates/veetee/src/session.rs): three   *)
(* threads put bytes on it.  The UI thread types and starts transfers, the  *)
(* I/O thread reads the host, answers it and feeds the transfer, and the    *)
(* pacer lets out what is under the transmit rate limit a byte at a time.   *)
(* XOFF stops the line and XON starts it.                                   *)
(*                                                                          *)
(* A step is what a thread does under one lock.  Only the lock on `queued`  *)
(* is held across a write, which may block, so its holder is modelled: a    *)
(* thread at "writing" has it.  What is read of the terminal or sent to it  *)
(* is abstracted: a key sends one byte or more, and a chunk read from the   *)
(* host carries XON and XOFF, a request for a report, a packet or nothing.  *)
(* Smooth scrolling, modem control (no_dsr) and set_line are left out.      *)
(*                                                                          *)
(* A definition marked "Mutant" is the next one with a mistake in it; no    *)
(* other definition uses it.                                                *)
(***************************************************************************)
EXTENDS Integers, Sequences, SequencesExt

CONSTANTS
    Settings,    \* Set-Up as the session may start with it
    Changing,    \* the settings the user may change: "limited", "flow", "online"
    KeyLengths,  \* how many bytes a key may send
    Chunks,      \* what may be read from the host at once
    May,         \* which of "hold", "setup", "close" and "transfer" happen
    MaxKeys,     \* bound: keys pressed
    MaxReplies,  \* bound: reports the host asks for
    MaxPackets   \* bound: packets sent

SetUps == [limited : BOOLEAN, flow : BOOLEAN, online : BOOLEAN]

ASSUME SettingsAssumption ==
    /\ Settings \subseteq SetUps
    /\ Changing \subseteq {"limited", "flow", "online"}
    /\ KeyLengths \subseteq Nat \ {0}

Readings == [flow : Seq({"xon", "xoff"}), asks : BOOLEAN, packet : BOOLEAN]

ASSUME ChunksAssumption == Chunks \subseteq Readings

Threads == {"ui", "io", "pacer"}
Kinds == {"keys", "replies", "opening", "packets"}
Bytes == [by : Kinds, number : Nat, part : Nat, of : Nat]

VARIABLES
    setup,     \* the features of the terminal that sending looks at
    inSetUp,   \* the Set-Up screen is up
    wasHeld,   \* SetupView.was_held
    held,      \* Shared.held
    closed,    \* Shared.closed
    stopped,   \* Shared.stopped
    queued,    \* Shared.queued
    paced,     \* Shared.paced
    transfer,  \* Shared.transfer: whether it runs, lingers or is done with
    at,        \* where each thread has got to
    hand,      \* the bytes each thread has in hand
    slow,      \* the interval each thread found, as whether there is one
    chunk,     \* what the I/O thread has read and not dealt with yet
    sent,      \* history: how much of each kind has been sent
    late,      \* history: writes made since the host said XOFF
    line       \* history: what has gone to the host

setUpVars == <<setup, inSetUp, wasHeld>>
lineVars == <<stopped, queued, late, line>>
vars == <<setup, inSetUp, wasHeld, held, closed, stopped, queued, paced, transfer,
          at, hand, slow, chunk, sent, late, line>>

-----------------------------------------------------------------------------
Message(kind, number, length) ==
    [i \in 1 .. length |-> [by |-> kind, number |-> number, part |-> i, of |-> length]]

Packets == sent.opening + sent.packets

\* What a thread may have to send of a transfer: nothing, or one packet.
Offers(kind) ==
    {<<>>} \cup IF Packets < MaxPackets THEN {Message(kind, sent[kind] + 1, 1)} ELSE {}

\* Mutant: the lock on what is queued is not taken.
LineFreeAlways == TRUE

LineFree == \A t \in Threads : at[t] # "writing"

\* A thread is done with what it had in hand.
Goes(t, place) == at' = [at EXCEPT ![t] = place]
Emptied(t) == hand' = [hand EXCEPT ![t] = <<>>]

\* set_held and close notify the I/O thread.
GoesAndWakes(place) ==
    at' = [at EXCEPT !.ui = place, !.io = IF @ = "waiting" THEN "home" ELSE @]

Nothing == [flow |-> <<>>, asks |-> FALSE, packet |-> FALSE]

Init ==
    /\ setup \in Settings
    /\ inSetUp = FALSE /\ wasHeld = FALSE /\ held = FALSE /\ closed = FALSE
    /\ stopped = FALSE /\ queued = <<>> /\ paced = <<>> /\ transfer = "none"
    /\ at = [t \in Threads |-> "home"]
    /\ hand = [t \in Threads |-> <<>>]
    /\ slow = [t \in {"ui", "io"} |-> FALSE]
    /\ chunk = Nothing
    /\ sent = [k \in Kinds |-> 0]
    /\ late = 0 /\ line = <<>>

-----------------------------------------------------------------------------
(* Sending: send_paced, then transmit.                                       *)

\* Mutant: a reply goes at once whatever waits at the pacer.
GoesAtOnceReplying(t) == t = "io" \/ (~slow[t] /\ paced = <<>>)

GoesAtOnce(t) == ~slow[t] /\ paced = <<>>

SendPaced(t) ==
    /\ at[t] = "sending"
    /\ IF GoesAtOnce(t)
       THEN /\ Goes(t, "direct")
            /\ UNCHANGED <<paced, hand>>
       ELSE /\ paced' = paced \o hand[t]
            /\ Emptied(t)
            /\ Goes(t, "home")
    /\ UNCHANGED <<setUpVars, lineVars, held, closed, transfer, slow, chunk, sent>>

\* Mutant: only what finds something waiting waits.
WaitsBehind == stopped /\ queued # <<>>

Waits == stopped

\* Mutant: what waits for XON waits before what waited already.
JoinQueueFirst(t) == hand[t] \o queued

JoinQueue(t) == queued \o hand[t]

Transmit(t) ==
    /\ at[t] = "direct"
    /\ LineFree
    /\ IF Waits
       THEN /\ queued' = JoinQueue(t)
            /\ Emptied(t)
            /\ Goes(t, "home")
       ELSE /\ Goes(t, "writing")
            /\ UNCHANGED <<queued, hand>>
    /\ UNCHANGED <<setUpVars, held, closed, stopped, paced, transfer, slow, chunk, sent, late, line>>

Write(t) ==
    /\ at[t] = "writing"
    /\ line' = line \o hand[t]
    /\ late' = IF stopped THEN late + 1 ELSE 0
    /\ Emptied(t)
    /\ Goes(t, "home")
    /\ UNCHANGED <<setUpVars, held, closed, stopped, queued, paced, transfer, slow, chunk, sent>>

\* pacer: a byte at a time until the session is closed.
Pop ==
    /\ at.pacer = "home"
    /\ ~closed
    /\ paced # <<>>
    /\ hand' = [hand EXCEPT !.pacer = <<Head(paced)>>]
    /\ paced' = Tail(paced)
    /\ Goes("pacer", "direct")
    /\ UNCHANGED <<setUpVars, lineVars, held, closed, transfer, slow, chunk, sent>>

PacerStops ==
    /\ at.pacer = "home"
    /\ closed
    /\ Goes("pacer", "gone")
    /\ UNCHANGED <<setUpVars, lineVars, held, closed, paced, transfer, hand, slow, chunk, sent>>

-----------------------------------------------------------------------------
(* The UI thread.                                                            *)

KeysDropped == transfer = "running"

\* send_as: a key pressed during a transfer is dropped.
PressKey(length) ==
    /\ at.ui = "home" /\ ~inSetUp
    /\ sent.keys < MaxKeys
    /\ ~KeysDropped
    /\ hand' = [hand EXCEPT !.ui = Message("keys", sent.keys + 1, length)]
    /\ Goes("ui", "checked")
    /\ UNCHANGED <<setUpVars, lineVars, held, closed, paced, transfer, slow, chunk, sent>>

\* In Local what is typed goes to the screen.
FindPace ==
    /\ at.ui = "checked"
    /\ IF setup.online
       THEN /\ slow' = [slow EXCEPT !.ui = setup.limited]
            /\ sent' = [sent EXCEPT !.keys = @ + 1]
            /\ Goes("ui", "sending")
            /\ UNCHANGED hand
       ELSE /\ Emptied("ui")
            /\ Goes("ui", "home")
            /\ UNCHANGED <<slow, sent>>
    /\ UNCHANGED <<setUpVars, lineVars, held, closed, paced, transfer, chunk>>

HoldScreen ==
    /\ "hold" \in May
    /\ at.ui = "home" /\ ~inSetUp
    /\ held' = ~held
    /\ GoesAndWakes("home")
    /\ UNCHANGED <<setUpVars, lineVars, closed, paced, transfer, hand, slow, chunk, sent>>

OpenSetUp ==
    /\ "setup" \in May
    /\ at.ui = "home" /\ ~inSetUp
    /\ inSetUp' = TRUE
    /\ wasHeld' = held
    /\ held' = TRUE
    /\ GoesAndWakes("home")
    /\ UNCHANGED <<setup, lineVars, closed, paced, transfer, hand, slow, chunk, sent>>

\* The features chosen are put on the terminal, and then the host let go.
ApplySetUp(s) ==
    /\ at.ui = "home" /\ inSetUp
    /\ \A f \in DOMAIN s \ Changing : s[f] = setup[f]
    /\ setup' = s
    /\ Goes("ui", "leaving")
    /\ UNCHANGED <<inSetUp, wasHeld, lineVars, held, closed, paced, transfer, hand, slow,
                   chunk, sent>>

LeaveSetUp ==
    /\ at.ui = "leaving"
    /\ held' = (wasHeld \/ ~setup.online)
    /\ inSetUp' = FALSE
    /\ GoesAndWakes("home")
    /\ UNCHANGED <<setup, wasHeld, lineVars, closed, paced, transfer, hand, slow, chunk, sent>>

\* close: the flag first, and then the I/O thread is let go.
Close ==
    /\ "close" \in May
    /\ at.ui = "home" /\ ~closed
    /\ closed' = TRUE
    /\ Goes("ui", "closing")
    /\ UNCHANGED <<setUpVars, lineVars, held, paced, transfer, hand, slow, chunk, sent>>

\* Mutant: closing leaves the host held.
HeldWhenClosedStill == held

HeldWhenClosed == FALSE

CloseLetsGo ==
    /\ at.ui = "closing"
    /\ held' = HeldWhenClosed
    /\ IF held' THEN Goes("ui", "home") ELSE GoesAndWakes("home")
    /\ UNCHANGED <<setUpVars, lineVars, closed, paced, transfer, hand, slow, chunk, sent>>

\* start_transfer: the slot is let go of before the first packet is sent.
StartTransfer ==
    /\ "transfer" \in May
    /\ at.ui = "home" /\ ~inSetUp
    /\ transfer # "running"
    /\ \E offer \in Offers("opening") :
          /\ hand' = [hand EXCEPT !.ui = offer]
          /\ sent' = [sent EXCEPT !.opening = @ + Len(offer)]
          /\ Goes("ui", IF offer = <<>> THEN "home" ELSE "direct")
    /\ transfer' = "running"
    /\ UNCHANGED <<setUpVars, lineVars, held, closed, paced, slow, chunk>>

\* cancel_transfer: tidily, with the transfer left to end, or at once.
CancelTransfer ==
    /\ at.ui = "home" /\ ~inSetUp
    /\ transfer = "running"
    /\ \E offer \in Offers("opening") :
          /\ hand' = [hand EXCEPT !.ui = offer]
          /\ sent' = [sent EXCEPT !.opening = @ + Len(offer)]
          /\ Goes("ui", IF offer = <<>> THEN "home" ELSE "direct")
    /\ transfer' \in {"running", "none"}
    /\ UNCHANGED <<setUpVars, lineVars, held, closed, paced, slow, chunk>>

-----------------------------------------------------------------------------
(* The I/O thread.                                                           *)

WaitWhileHeld ==
    /\ at.io = "home"
    /\ Goes("io", IF closed THEN "gone" ELSE IF held THEN "waiting" ELSE "reading")
    /\ UNCHANGED <<setUpVars, lineVars, held, closed, paced, transfer, hand, slow, chunk, sent>>

\* Something is read, or nothing in the time allowed; whether XON and XOFF are
\* acted on is asked of Set-Up once for the chunk.
Read(c) ==
    /\ at.io = "reading"
    /\ c.asks => sent.replies < MaxReplies
    /\ chunk' = c
    /\ Goes("io", IF c.flow # <<>> /\ setup.flow THEN "obeying" ELSE "routing")
    /\ UNCHANGED <<setUpVars, lineVars, held, closed, paced, transfer, hand, slow, sent>>

HostGoes ==
    /\ "close" \in May
    /\ at.io = "reading"
    /\ closed' = TRUE
    /\ Goes("io", "gone")
    /\ UNCHANGED <<setUpVars, lineVars, held, paced, transfer, hand, slow, chunk, sent>>

\* The flow controls of the chunk have been acted on as far as this one.
Obeyed ==
    /\ at.io = "obeying" /\ chunk.flow # <<>>
    /\ chunk' = [chunk EXCEPT !.flow = Tail(@)]
    /\ Goes("io", IF Len(chunk.flow) = 1 THEN "routing" ELSE "obeying")
    /\ UNCHANGED <<setUpVars, held, closed, paced, transfer, hand, slow, sent>>

\* XOFF is taken without a lock: a write that has begun goes on.
Xoff ==
    /\ Obeyed
    /\ Head(chunk.flow) = "xoff"
    /\ stopped' = TRUE
    /\ UNCHANGED <<queued, late, line>>

\* Mutant: what was queued waits for the next XOFF and XON.
LeftQueuedAll == queued

LeftQueued == <<>>

Xon ==
    /\ Obeyed
    /\ Head(chunk.flow) = "xon"
    /\ LineFree
    /\ stopped' = FALSE
    /\ late' = 0
    /\ queued' = LeftQueued
    /\ line' = IF queued' = <<>> THEN line \o queued ELSE line

Claimed == transfer = "running" \/ (transfer = "lingering" /\ chunk.packet)

\* A chunk the transfer claims is fed to it; so is nothing at all, as its time
\* passes.  It may send, and it may end; a receiver lingers.
FeedTransfer ==
    /\ at.io = "routing" /\ Claimed
    /\ \E offer \in Offers("packets") :
          /\ hand' = [hand EXCEPT !.io = offer]
          /\ sent' = [sent EXCEPT !.packets = @ + Len(offer)]
          /\ Goes("io", IF offer = <<>> THEN "home" ELSE "direct")
    /\ transfer' \in (IF transfer = "running" THEN {"running", "lingering", "none"}
                      ELSE {"lingering"})
    /\ chunk' = Nothing
    /\ UNCHANGED <<setUpVars, lineVars, held, closed, paced, slow>>

LingerEnds ==
    /\ transfer = "lingering"
    /\ transfer' = "none"
    /\ UNCHANGED <<setUpVars, lineVars, held, closed, paced, at, hand, slow, chunk, sent>>

\* The terminal reads the chunk and answers what it asks.
RouteToTerminal ==
    /\ at.io = "routing" /\ ~Claimed
    /\ Goes("io", "advancing")
    /\ UNCHANGED <<setUpVars, lineVars, held, closed, paced, transfer, hand, slow, chunk, sent>>

Advance ==
    /\ at.io = "advancing"
    /\ IF chunk.asks
       THEN /\ hand' = [hand EXCEPT !.io = Message("replies", sent.replies + 1, 2)]
            /\ slow' = [slow EXCEPT !.io = setup.limited]
            /\ sent' = [sent EXCEPT !.replies = @ + 1]
            /\ Goes("io", "sending")
       ELSE /\ Goes("io", "home")
            /\ UNCHANGED <<hand, slow, sent>>
    /\ chunk' = Nothing
    /\ UNCHANGED <<setUpVars, lineVars, held, closed, paced, transfer>>

-----------------------------------------------------------------------------
Sends(t) == SendPaced(t) \/ Transmit(t) \/ Write(t)

Ui ==
    \/ Sends("ui") \/ FindPace \/ LeaveSetUp \/ CloseLetsGo
    \/ \E length \in KeyLengths : PressKey(length)
    \/ HoldScreen \/ OpenSetUp \/ (\E s \in SetUps : ApplySetUp(s)) \/ Close
    \/ StartTransfer \/ CancelTransfer

Io ==
    \/ Sends("io") \/ WaitWhileHeld \/ (\E c \in Chunks : Read(c)) \/ HostGoes
    \/ Xoff \/ Xon \/ FeedTransfer \/ LingerEnds \/ RouteToTerminal \/ Advance

Pacer == Transmit("pacer") \/ Write("pacer") \/ Pop \/ PacerStops

Next == Ui \/ Io \/ Pacer

Spec == Init /\ [][Next]_vars

\* Every thread goes on with what it has begun; a lock is not withheld for
\* ever; and a host that has said XOFF says XON in the end, which is read if
\* the user is not holding the screen.
Letting(c) == c.flow # <<>> /\ Last(c.flow) = "xon"

Fairness ==
    /\ \A t \in Threads : SF_vars(Transmit(t)) /\ WF_vars(Write(t))
    /\ \A t \in {"ui", "io"} : WF_vars(SendPaced(t))
    /\ WF_vars(FindPace) /\ WF_vars(LeaveSetUp) /\ WF_vars(CloseLetsGo)
    /\ WF_vars(Pop) /\ WF_vars(PacerStops)
    /\ WF_vars(WaitWhileHeld) /\ WF_vars(\E c \in Chunks : Read(c))
    /\ SF_vars(\E c \in Chunks : Letting(c) /\ Read(c))
    /\ WF_vars(Xoff) /\ SF_vars(Xon)
    /\ WF_vars(FeedTransfer \/ RouteToTerminal) /\ WF_vars(Advance)

FairSpec == Spec /\ Fairness

-----------------------------------------------------------------------------
(* Types.                                                                    *)

Places == {"home", "checked", "sending", "direct", "writing", "leaving", "closing",
           "waiting", "reading", "obeying", "routing", "advancing", "gone"}

\* The lock on what is queued has one holder.
TypeOK ==
    /\ setup \in SetUps /\ inSetUp \in BOOLEAN /\ wasHeld \in BOOLEAN
    /\ held \in BOOLEAN /\ closed \in BOOLEAN /\ stopped \in BOOLEAN
    /\ queued \in Seq(Bytes) /\ paced \in Seq(Bytes) /\ line \in Seq(Bytes)
    /\ transfer \in {"none", "running", "lingering"}
    /\ at \in [Threads -> Places]
    /\ \A t, u \in Threads : at[t] = "writing" /\ at[u] = "writing" => t = u
    /\ hand \in [Threads -> Seq(Bytes)]
    /\ slow \in [{"ui", "io"} -> BOOLEAN]
    /\ chunk \in Readings
    /\ sent \in [Kinds -> Nat]
    /\ late \in Nat

-----------------------------------------------------------------------------
(* Safety.                                                                   *)

Thread(kind) == IF kind \in {"keys", "opening"} THEN "ui" ELSE "io"

Of(kind, bytes) == SelectSeq(bytes, LAMBDA b : b.by = kind)

\* What a thread has sent and not given to the pacer, the queue or the line.
InHand(t) == IF at[t] = "checked" THEN <<>> ELSE hand[t]

\* Byte b goes before byte c: of a message before, or a part before of the same.
Precedes(b, c) ==
    \/ b.number < c.number
    \/ b.number = c.number /\ b.of = c.of /\ b.part < c.part

\* The bytes of a kind are those of its first `count` messages, in order, each
\* once and none of them missing.
Unbroken(kind, bytes, count) ==
    LET mine == {i \in 1 .. Len(bytes) : bytes[i].by = kind}
    IN  /\ \A i, j \in mine : i < j => Precedes(bytes[i], bytes[j])
        /\ \A i \in mine : bytes[i].number \in 1 .. count /\ bytes[i].part \in 1 .. bytes[i].of
        /\ \A n \in 1 .. count : \E i \in mine :
              /\ bytes[i].number = n
              /\ \A p \in 1 .. bytes[i].of : \E j \in mine : bytes[j] = [bytes[i] EXCEPT !.part = p]

\* All that has been sent is on the line, queued for XON, with the pacer or in
\* the hand of its thread: once, whole, and in that order, so that it will
\* reach the line in the order it was sent in.
SentInOrder ==
    \A kind \in Kinds :
       Unbroken(kind, line \o queued \o hand.pacer \o paced \o InHand(Thread(kind)), sent[kind])

\* Nothing waits for XON while the line is not stopped: anything sent then
\* would go straight past it.
NothingWaitsUnstopped == queued # <<>> => stopped

Typed(b) == b.by \in {"keys", "replies"}

\* What a key or a report sends is not broken into by another key or report:
\* when another byte of either goes out, the next of this one has gone before.
SequencesWhole ==
    LET out == line \o queued
    IN  \A i, j \in 1 .. Len(out) :
           i < j /\ Typed(out[i]) /\ Typed(out[j]) /\ out[i].part < out[i].of =>
              \E m \in i + 1 .. j : out[m] = [out[i] EXCEPT !.part = @ + 1]

\* What each thread sends goes out in order and whole.
LineWhole == TypeOK /\ SentInOrder /\ SequencesWhole

\* Once the host has said XOFF it gets the end of one write at most, the one
\* that had the line then, whoever else was on the way to it.
OneWriteAfterXoff == stopped => late <= 1

-----------------------------------------------------------------------------
(* Liveness.                                                                 *)

Arrived(kind, n) == \E i \in 1 .. Len(line) : line[i].by = kind /\ line[i].number = n
                                              /\ line[i].part = line[i].of

\* What is typed is sent in the end, whatever the host stopped and the pacer
\* held back, while the session is open, if the user is done with Hold Screen.
KeysGoOut ==
    <>[]~held =>
       \A n \in 1 .. MaxKeys : sent.keys >= n ~> (Arrived("keys", n) \/ closed)

\* A session that is closed lets go of its threads, wherever they were.
ThreadsEnd == closed ~> (at.io = "gone" /\ at.pacer = "gone")

-----------------------------------------------------------------------------
(* What the source and its documents say and the code does not do.           *)

\* Nothing overtakes what is still going out paced.
NothingOvertakes ==
    \A i, j \in 1 .. Len(line) :
       i < j /\ line[i].by = line[j].by => line[i].number <= line[j].number

\* No key goes on the line while a transfer runs.
KeysKeptOut ==
    [][transfer = "running" => Of("keys", line') = Of("keys", line)]_vars
=============================================================================
