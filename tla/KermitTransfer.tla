---------------------------- MODULE KermitTransfer ----------------------------
(***************************************************************************)
(* A Kermit transfer between two ends (crates/vt-kermit/src/transfer.rs),   *)
(* each a Sender with its Source or a Receiver with its Folder (files.rs),  *)
(* over a line that loses and damages packets and a clock that may run out  *)
(* early.  Either user may cancel at any time, and any call on the files    *)
(* may fail.                                                                *)
(*                                                                          *)
(* What is abstracted: a byte is "x", "cr" or "lf", which is all that the   *)
(* conversion of lines tells apart; encoding is what it costs, a prefix     *)
(* more for a control character; a packet whose check is not one the reader *)
(* uses is a damaged one; a time limit is always agreed, so that an end     *)
(* that is running is always waiting for its deadline.                      *)
(*                                                                          *)
(* A definition marked "Mutant" is the next one with a mistake in it.       *)
(***************************************************************************)
EXTENDS Integers, Sequences, FiniteSets

CONSTANTS
    Sides,       \* the two ends of the line
    Castings,    \* who may be told what: functions from Sides to Roles
    Agreements,  \* what the two ends' parameters may settle on
    Files,       \* the files a sender is given: their bytes and their mode
    Setting,     \* the transfer's mode, where nothing else is said
    Span,        \* sequence numbers before they begin again (64)
    Retries,     \* how often a packet goes again (10)
    ShortRoom,   \* what a short packet carries
    LongRoom,    \* what a long packet carries
    FirstSize,   \* FIRST_SIZE: where long packets start (250)
    LeastSize,   \* LEAST_SIZE: the least they are halved to (80)
    MaxTrouble,  \* bound: packets lost or damaged, and clocks that run out early
    MaxCancels,  \* bound: how often the users cancel
    WireRoom     \* bound: packets on the line when a clock runs out

Roles == {"send", "receive"}
Modes == {"text", "binary"}

ASSUME SidesAssumption == \E a, b \in Sides : a # b /\ Sides = {a, b}
ASSUME CastingsAssumption == Castings \subseteq [Sides -> Roles]
ASSUME AgreementsAssumption ==
    Agreements \subseteq [check : {"one", "three"}, attributes : BOOLEAN, long : BOOLEAN]
ASSUME FilesAssumption ==
    /\ Files \in Seq([bytes : Seq({"x", "cr", "lf"}), mode : Modes])
    /\ Setting \in Modes
ASSUME NumbersAssumption ==
    /\ Span \in Nat /\ Span > 3
    /\ Retries \in Nat
    /\ ShortRoom \in Nat /\ LongRoom \in Nat /\ FirstSize \in Nat
    /\ LeastSize \in Nat /\ 2 <= LeastSize /\ LeastSize <= FirstSize

VARIABLES
    agreement,  \* what the parameters of both ends settle on
    end,        \* the Sender or Receiver at each side
    wire,       \* what each side has sent and the other has not read
    folder,     \* the files a receiver has on its disk
    trouble,    \* how many bounded faults there have been
    cancels,    \* how often the users have cancelled
    due,        \* those whose deadline comes before any the other end sets now
    failure,    \* history: a call on files that failed
    repeated    \* history: the least data in a packet that had to go again

vars == <<agreement, end, wire, folder, trouble, cancels, due, failure, repeated>>

Other(side) == CHOOSE other \in Sides : other # side
Least(a, b) == IF a <= b THEN a ELSE b
Most(a, b) == IF a >= b THEN a ELSE b

NextSeq(n) == (n + 1) % Span
PreviousSeq(n) == (n + Span - 1) % Span

-----------------------------------------------------------------------------
(* Lines, which end in CR LF on the line and in LF here. *)

ToLineByte(state, byte) ==
    [out |-> state.out \o (IF byte = "lf" /\ ~state.afterCr THEN <<"cr", "lf">> ELSE <<byte>>),
     afterCr |-> byte = "cr"]
ToLine(afterCr, bytes) ==
    LET after[n \in 0 .. Len(bytes)] ==
            IF n = 0 THEN [out |-> <<>>, afterCr |-> afterCr]
            ELSE ToLineByte(after[n - 1], bytes[n])
    IN  after[Len(bytes)]

\* Mutant: what was held at the end of the last packet is forgotten.
FromLineByteForgetting(state, byte) ==
    [out |-> IF byte = "cr" THEN state.out ELSE Append(state.out, byte),
     held |-> byte = "cr"]

FromLineByte(state, byte) ==
    [out |-> state.out \o (IF state.held /\ byte # "lf" THEN <<"cr">> ELSE <<>>)
                       \o (IF byte = "cr" THEN <<>> ELSE <<byte>>),
     held |-> byte = "cr"]
FromLine(held, bytes) ==
    LET after[n \in 0 .. Len(bytes)] ==
            IF n = 0 THEN [out |-> <<>>, held |-> held]
            ELSE FromLineByte(after[n - 1], bytes[n])
    IN  after[Len(bytes)]

\* Control characters take a prefix.
Cost(bytes) == Len(bytes) + Cardinality({i \in DOMAIN bytes : bytes[i] # "x"})

\* As many bytes as fit in a packet with that much room.
Fitting(bytes, room) ==
    CHOOSE n \in 0 .. Len(bytes) :
        /\ Cost(SubSeq(bytes, 1, n)) <= room
        /\ n = Len(bytes) \/ Cost(SubSeq(bytes, 1, n + 1)) > room

-----------------------------------------------------------------------------
(* What both directions share: the Link. *)

\* No ceiling yet: more than any size there will be.
Unlimited == LongRoom + 2 * LeastSize

\* The fields of both; the last two lines of them are a receiver's and a sender's.
Idle(role) ==
    [role |-> role, status |-> "Running", state |-> "SendInit", seq |-> 0,
     check |-> "one", last |-> <<>>, retries |-> 0, out |-> <<>>, cancelling |-> FALSE,
     files |-> 0, mode |-> Setting,
     held |-> FALSE, open |-> FALSE, lingering |-> TRUE,
     at |-> 0, read |-> 0, pending |-> <<>>, afterCr |-> FALSE, eof |-> FALSE,
     discarding |-> FALSE, size |-> FirstSize, ceiling |-> Unlimited, inFlight |-> 0]

Packet(e, seq, kind, flag, data) ==
    [seq |-> seq, kind |-> kind, flag |-> flag, data |-> data, check |-> e.check]

\* A packet that moves the transfer on is kept and starts the count over.
Sends(e, seq, kind, flag, data) ==
    [e EXCEPT !.last = <<Packet(e, seq, kind, flag, data)>>,
              !.retries = 0,
              !.out = <<Packet(e, seq, kind, flag, data)>>]

\* Neither a nak nor an error is kept.
Says(e, kind) == [e EXCEPT !.out = <<Packet(e, e.seq, kind, "none", <<>>)>>]
Repeats(e) == [e EXCEPT !.out = e.last]

Stops(e, status) == [e EXCEPT !.state = "Finished", !.status = status]

\* Fails, telling the far end; `why` is told apart only where a doc does.
Fails(e, why) == Stops(Says(e, "Error"), why)

Running(e) == e.status = "Running"

-----------------------------------------------------------------------------
(* The Receiver and its Folder: operators return both, as [e, folder]. *)

NewReceiver == Idle("receive")

With(e, f) == [e |-> e, folder |-> f]

\* Folder: a file is created under a free name, removed unless it is complete.
Created(f) == Append(f, [bytes |-> <<>>, saved |-> FALSE])
Written(f, bytes) == [f EXCEPT ![Len(f)].bytes = @ \o bytes]
Saved(f) == [f EXCEPT ![Len(f)].saved = TRUE]
Removed(f) == SubSeq(f, 1, Len(f) - 1)

\* Mutant: a file left open by a transfer that stops is left where it is.
TidiedNot(e, f) == With([e EXCEPT !.open = FALSE], f)

\* Whatever is open is incomplete when the transfer stops.
Tidied(e, f) == With([e EXCEPT !.open = FALSE], IF e.open THEN Removed(f) ELSE f)

ReceiverFails(r, f, why) == Tidied(Fails(r, why), f)

\* A receiver's seq is the number it expects.
Acks(r, flag) == [Sends(r, r.seq, "Ack", flag, <<>>) EXCEPT !.seq = NextSeq(r.seq)]

\* The first answer still goes with the check the send-init came with.
HearSendInit(r, f) ==
    With([Acks(r, "none") EXCEPT !.state = "File", !.check = agreement.check], f)

HearFile(r, f, fault) ==
    IF fault \in {"name", "create"}
    THEN ReceiverFails(r, f, "Failed")
    ELSE With([Acks(r, "none") EXCEPT !.open = TRUE, !.held = FALSE, !.mode = Setting,
                                  !.state = "Data"],
              Created(f))

HearBreak(r, f) ==
    With(Stops(Acks(r, "none"), IF r.cancelling THEN "Cancelled" ELSE "Done"), f)

HearAttributes(r, f, p) == With([Acks(r, "Y") EXCEPT !.mode = p.flag], f)

\* While cancelling, data is thrown away and Z asks the sender to stop.
HearData(r, f, p, fault) ==
    LET text == FromLine(r.held, p.data)
        kept == IF r.mode = "text" THEN text.out ELSE p.data
        read == IF r.mode = "text" THEN [r EXCEPT !.held = text.held] ELSE r
    IN  IF r.cancelling
        THEN With(Acks(r, "Z"), f)
        ELSE IF fault = "write"
             THEN ReceiverFails(read, f, "Failed")
             ELSE With(Acks(read, "none"), Written(f, kept))

\* Mutant: the D of an end of file is not looked at.
DiscardedNever(r, p) == r.cancelling

\* The end of the file is not to be kept if either end is cancelling.
Discarded(r, p) == r.cancelling \/ p.flag = "D"

\* A file whose last step fails stays on the disk without being saved.
HearEndOfFile(r, f, p, fault) ==
    LET ending == [r EXCEPT !.cancelling = Discarded(r, p)]
        keep == ~ending.cancelling
        tail == IF keep /\ r.mode = "text" /\ r.held THEN <<"cr">> ELSE <<>>
        closed == [ending EXCEPT !.open = FALSE, !.held = FALSE]
        whole == Written(f, tail)
        next == [Acks(closed, "none") EXCEPT !.state = "File",
                                         !.files = IF keep THEN @ + 1 ELSE @]
    IN  IF tail # <<>> /\ fault = "write"
        THEN ReceiverFails([ending EXCEPT !.held = FALSE], f, "Failed")
        ELSE IF fault = "finish"
             THEN ReceiverFails(closed, IF keep THEN whole ELSE f, "Failed")
             ELSE With(next, IF keep THEN Saved(whole) ELSE Removed(f))

\* A packet in its turn.
ReceiverTakes(r, f, p, fault) ==
    CASE r.state = "SendInit" /\ p.kind = "SendInit"    -> HearSendInit(r, f)
      [] r.state = "File" /\ p.kind = "File"            -> HearFile(r, f, fault)
      [] r.state = "File" /\ p.kind = "Break"           -> HearBreak(r, f)
      [] r.state = "Data" /\ p.kind = "Attributes"      -> HearAttributes(r, f, p)
      [] r.state = "Data" /\ p.kind = "Data"            -> HearData(r, f, p, fault)
      [] r.state = "Data" /\ p.kind = "EndOfFile"       -> HearEndOfFile(r, f, p, fault)
      [] r.state = "SendInit" /\ p.kind = "Nak"         -> ReceiverFails(r, f, "BothReceiving")
      [] OTHER                                          -> ReceiverFails(r, f, "Failed")

\* Until a file has begun, the send-init may come again with its own check.
ReceiverChecks(r) ==
    IF r.state = "File" /\ r.seq = 1 THEN {r.check, "one"} ELSE {r.check}

\* Mutant: a packet that was answered is acted on again.
RepeatedNever(r, p) == FALSE

\* The answer to the last packet went missing.
Repeated(r, p) == r.state # "SendInit" /\ p.seq = PreviousSeq(r.seq)

\* feed of a receiver: what one packet does.
ReceiverHears(r, f, p, fault) ==
    CASE r.status = "Done" ->
            With(IF /\ r.lingering /\ p.check = r.check
                    /\ p.kind = "Break" /\ p.seq = PreviousSeq(r.seq)
                 THEN Repeats(r) ELSE r, f)
      [] ~Running(r) /\ r.status # "Done" -> With(r, f)
      [] Running(r) /\ p.check \notin ReceiverChecks(r) -> With(Says(r, "Nak"), f)
      [] Running(r) /\ p.check \in ReceiverChecks(r) ->
            IF p.kind = "Error" THEN Tidied(Stops(r, "Failed"), f)
            ELSE IF Repeated(r, p) THEN With(Repeats(r), f)
            ELSE IF p.seq # r.seq THEN With(r, f)
            ELSE ReceiverTakes(r, f, p, fault)

ReceiverTick(r, f) ==
    LET tried == [r EXCEPT !.retries = @ + 1]
    IN  IF tried.retries > Retries
        THEN ReceiverFails(tried, f, "Failed")
        ELSE With(Says(tried, "Nak"), f)

ReceiverCancel(r, f) ==
    IF r.state = "Data" /\ ~r.cancelling
    THEN With([r EXCEPT !.cancelling = TRUE], f)
    ELSE Tidied(Stops(Says(r, "Error"), "Cancelled"), f)

-----------------------------------------------------------------------------
(* The Sender and its Source.  A sender's seq is that of the packet it waits  *)
(* to have acknowledged; `at` is the file going and `read` how much of it has *)
(* been read.                                                                 *)

NewSender == Sends(Idle("send"), 0, "SendInit", "none", <<>>)

Moves(s, state, flag, data) ==
    [Sends(s, s.seq, state, flag, data) EXCEPT !.state = state]

\* What is read of the file and converted, until a packet can be filled.
Filled(s, room) ==
    LET bytes == Files[s.at].bytes
        n == IF s.eof \/ Len(s.pending) >= room THEN 0
             ELSE Least(room, Len(bytes) - s.read)
        chunk == SubSeq(bytes, s.read + 1, s.read + n)
        line == ToLine(s.afterCr, chunk)
        more == s.pending \o (IF s.mode = "text" THEN line.out ELSE chunk)
    IN  [s EXCEPT !.read = @ + n,
                  !.pending = more,
                  !.afterCr = IF s.mode = "text" THEN line.afterCr ELSE @,
                  !.eof = @ \/ Len(more) < room]

Grown(s) == Least(Least(2 * s.size, LongRoom), s.ceiling)

SendData(s, fault) ==
    LET room == IF agreement.long THEN Least(Least(LongRoom, s.size), s.ceiling) ELSE ShortRoom
        full == Filled([s EXCEPT !.size = IF agreement.long THEN Grown(s) ELSE @], room)
        used == Fitting(full.pending, room)
        data == SubSeq(full.pending, 1, used)
    IN  IF fault = "read" /\ ~s.eof /\ Len(s.pending) < room THEN Fails(s, "Failed")
        ELSE IF full.pending = <<>> THEN Moves(full, "EndOfFile", "none", <<>>)
        ELSE IF used = 0 THEN Fails(full, "Failed")
        ELSE Moves([full EXCEPT !.pending = SubSeq(@, used + 1, Len(@)),
                                !.inFlight = Cost(data)],
                   "Data", "none", data)

NextFile(s, fault) ==
    IF fault = "open" THEN Fails(s, "Failed")
    ELSE IF s.at = Len(Files) THEN Moves(s, "Break", "none", <<>>)
    ELSE Moves([s EXCEPT !.at = @ + 1,
                         !.mode = IF agreement.attributes THEN Files[s.at + 1].mode ELSE Setting],
               "File", "none", <<>>)

Discards(s) == Moves([s EXCEPT !.discarding = TRUE], "EndOfFile", "D", <<>>)

Counted(s) == IF s.discarding THEN s ELSE [s EXCEPT !.files = @ + 1]

FileTaken(s, fault) ==
    LET fresh == [s EXCEPT !.pending = <<>>, !.read = 0, !.afterCr = FALSE,
                           !.eof = FALSE, !.discarding = FALSE]
    IN  IF agreement.attributes
        THEN Moves(fresh, "Attributes", s.mode, <<>>)
        ELSE SendData(fresh, fault)

\* acknowledged: what was waiting for an answer has one.
Acknowledged(s0, flag, fault) ==
    LET s == [s0 EXCEPT !.seq = NextSeq(@)]
        stopping == [s EXCEPT !.cancelling = @ \/ flag = "Z"]
    IN  CASE s.state = "SendInit" -> NextFile([s EXCEPT !.check = agreement.check], fault)
          [] s.state = "File" -> FileTaken(s, fault)
          [] s.state = "Attributes" -> IF flag = "N" THEN Discards(s) ELSE SendData(s, fault)
          [] s.state = "Data" ->
                IF flag = "X" \/ stopping.cancelling THEN Discards(stopping)
                ELSE SendData(s, fault)
          [] s.state = "EndOfFile" ->
                IF s.cancelling THEN Moves(Counted(s), "Break", "none", <<>>)
                ELSE NextFile(Counted(s), fault)
          [] s.state = "Break" -> Stops(s, IF s.cancelling THEN "Cancelled" ELSE "Done")

Halved(s) ==
    LET cut == IF s.state = "Data" /\ s.inFlight > LeastSize
               THEN [s EXCEPT !.ceiling = Least(@, Most(s.inFlight \div 2, LeastSize))]
               ELSE s
    IN  [cut EXCEPT !.size = Least(Most(s.size \div 2, LeastSize), cut.ceiling)]

\* Mutant: the packet goes again for ever.
AgainForEver(s) == Repeats([Halved(s) EXCEPT !.retries = Least(@ + 1, Retries)])

\* again: without an answer the packet goes again; without one to a Break, for
\* long enough, the receiver is taken to have finished.
Again(s) ==
    LET tried == [Halved(s) EXCEPT !.retries = @ + 1]
    IN  IF tried.retries <= Retries THEN Repeats(tried)
        ELSE IF s.state = "Break" THEN Stops(tried, "Done")
        ELSE Fails(tried, "Failed")

\* A nak for the packet after this one means this one arrived, except where
\* the answer has parameters in it.
NakAcknowledges(s, p) ==
    p.kind = "Nak" /\ p.seq = NextSeq(s.seq) /\ s.state # "SendInit"

\* Mutant: an answer to an earlier packet is taken for the answer to this one.
AnswersAny(s, p) == p.kind = "Ack"

Answers(s, p) == p.kind = "Ack" /\ p.seq = s.seq

SenderTakes(s, p, fault) ==
    CASE p.kind = "Error" -> Stops(s, "Failed")
      [] Answers(s, p) -> Acknowledged(s, p.flag, fault)
      [] p.kind = "SendInit" /\ s.state = "SendInit" -> Fails(s, "BothSending")
      [] NakAcknowledges(s, p) -> Acknowledged(s, "none", fault)
      [] p.kind = "Nak" /\ ~NakAcknowledges(s, p) /\ p.seq \in {s.seq, NextSeq(s.seq)} -> Again(s)
      [] OTHER -> s

\* feed of a sender: a damaged answer is no answer.
SenderHears(s, p, fault) ==
    IF Running(s) /\ p.check = s.check THEN SenderTakes(s, p, fault) ELSE s

SenderCancel(s) ==
    IF s.state \in {"Data", "EndOfFile"} /\ ~s.cancelling
    THEN [s EXCEPT !.cancelling = TRUE]
    ELSE Stops(Says(s, "Error"), "Cancelled")

-----------------------------------------------------------------------------
(* The two ends on their line. *)

\* start_transfer has the transfer in its slot before it writes what begins
\* it: until then a sender's first packet is in its caller's hand.
Init ==
    /\ agreement \in Agreements
    /\ \E casting \in Castings :
          end = [side \in Sides |->
                    IF casting[side] = "send" THEN NewSender ELSE NewReceiver]
    /\ wire = [side \in Sides |-> <<>>]
    /\ folder = [side \in Sides |-> <<>>]
    /\ trouble = 0
    /\ cancels = 0
    /\ due = {}
    /\ failure = FALSE
    /\ repeated = 2 * LongRoom

Beginning(side) ==
    end[side].role = "send" /\ end[side].out # <<>> /\ end[side].out[1].kind = "SendInit"

\* What an operation says goes on the line at once.
Put(side, w, e) ==
    /\ wire' = [w EXCEPT ![side] = @ \o e.out]
    /\ end' = [end EXCEPT ![side] = [e EXCEPT !.out = IF Beginning(side) THEN end[side].out ELSE <<>>]]

PutWith(side, w, ef) ==
    /\ Put(side, w, ef.e)
    /\ folder' = [folder EXCEPT ![side] = ef.folder]

\* What an operation begins with: nothing said yet.
Quiet(side) == [end[side] EXCEPT !.out = <<>>]

WriteFirst(side) ==
    /\ Beginning(side)
    /\ wire' = [wire EXCEPT ![side] = @ \o end[side].out]
    /\ end' = [end EXCEPT ![side].out = <<>>]
    /\ UNCHANGED <<agreement, folder, trouble, cancels, due, failure, repeated>>

\* The least there has been in a data packet that had to go again and was
\* longer than the least they are halved to.
Repeating(before, after) ==
    IF after.role = "send" /\ before.state = "Data" /\ after.last = before.last
       /\ after.retries > before.retries /\ before.inFlight > LeastSize
    THEN Least(repeated, before.inFlight)
    ELSE repeated

Heard(side) == Head(wire[Other(side)])
Unheard(side) == [wire EXCEPT ![Other(side)] = Tail(@)]

CanHear(side) ==
    /\ wire[Other(side)] # <<>>
    /\ Beginning(side) => end[side].seq < Span - 2

\* What a packet does, by what may go wrong with the files: a fault that
\* changes nothing did not happen.
Faults == {"name", "create", "write", "finish", "open", "read"}
Calls == Faults \cup {"none"}
Outcomes(does) ==
    { [to |-> does["none"], failed |-> FALSE] }
    \cup { [to |-> does[fault], failed |-> TRUE] : fault \in { f \in Faults : does[f] # does["none"] } }

\* Sending a packet sets the deadline; asking for one or giving up does not.
Rearmed(side, e) ==
    IF e.out # <<>> /\ e.out[1].kind \notin {"Nak", "Error"} THEN due \ {side} ELSE due

\* feed, of a packet, as a call on the files may fail.  Bound: what begins a
\* transfer is written before the numbers have gone round.
Hear(side) ==
    /\ CanHear(side)
    /\ \E e \in {Quiet(side)}, p \in {Heard(side)} :
          IF e.role = "send"
          THEN \E heard \in Outcomes([fault \in Calls |-> SenderHears(e, p, fault)]) :
                  /\ Put(side, Unheard(side), heard.to)
                  /\ due' = Rearmed(side, heard.to)
                  /\ repeated' = Repeating(e, heard.to)
                  /\ failure' = (failure \/ heard.failed)
                  /\ UNCHANGED folder
          ELSE \E heard \in Outcomes([fault \in Calls |-> ReceiverHears(e, folder[side], p, fault)]) :
                  /\ PutWith(side, Unheard(side), heard.to)
                  /\ due' = Rearmed(side, heard.to.e)
                  /\ failure' = (failure \/ heard.failed)
                  /\ UNCHANGED repeated
    /\ UNCHANGED <<agreement, trouble, cancels>>

\* Nothing is on its way.
Silent == \A side \in Sides : wire[side] = <<>> /\ ~Beginning(side)

OtherFirst(side) == Other(side) \in due /\ Running(end[Other(side)])

\* tick, after the deadline: early if something is still on its way.  Both
\* ends wait for equally long, so that on a silent line the deadline that was
\* set first comes first.
Expire(side) ==
    /\ Running(end[side])
    /\ Len(wire[side]) < WireRoom
    /\ \/ Silent /\ ~OtherFirst(side) /\ UNCHANGED trouble
       \/ trouble < MaxTrouble /\ trouble' = trouble + 1
    /\ IF end[side].role = "send"
       THEN \E after \in {Again(Quiet(side))} :
              /\ Put(side, wire, after)
              /\ repeated' = Repeating(Quiet(side), after)
              /\ UNCHANGED folder
       ELSE \E after \in {ReceiverTick(Quiet(side), folder[side])} :
              /\ PutWith(side, wire, after)
              /\ UNCHANGED repeated
    /\ due' = {Other(side)}
    /\ UNCHANGED <<agreement, cancels, failure>>

Cancel(side) ==
    /\ Running(end[side])
    /\ cancels < MaxCancels
    /\ cancels' = cancels + 1
    /\ IF end[side].role = "send"
       THEN Put(side, wire, SenderCancel(Quiet(side))) /\ UNCHANGED folder
       ELSE PutWith(side, wire, ReceiverCancel(Quiet(side), folder[side]))
    /\ UNCHANGED <<agreement, trouble, due, failure, repeated>>

\* A finished receiver keeps the line for LINGER, to answer a last repeat.
LingerOver(side) ==
    /\ end[side].role = "receive" /\ end[side].status = "Done" /\ end[side].lingering
    /\ end' = [end EXCEPT ![side].lingering = FALSE]
    /\ UNCHANGED <<agreement, wire, folder, trouble, cancels, due, failure, repeated>>

Lose(side) ==
    /\ wire[side] # <<>>
    /\ trouble < MaxTrouble
    /\ wire' = [wire EXCEPT ![side] = Tail(@)]
    /\ trouble' = trouble + 1
    /\ UNCHANGED <<agreement, end, folder, cancels, due, failure, repeated>>

\* A damaged packet passes no check.
Damage(side) ==
    /\ wire[side] # <<>>
    /\ trouble < MaxTrouble
    /\ Head(wire[side]).check # "damaged"
    /\ wire' = [wire EXCEPT ![side] = <<[Head(@) EXCEPT !.check = "damaged"]>> \o Tail(@)]
    /\ trouble' = trouble + 1
    /\ UNCHANGED <<agreement, end, folder, cancels, due, failure, repeated>>

\* Both transfers are over and the line is clear.
Over ==
    /\ Silent /\ \A side \in Sides : ~Running(end[side])
    /\ UNCHANGED vars

Next ==
    \/ \E side \in Sides :
          \/ WriteFirst(side)
          \/ Hear(side)
          \/ Expire(side)
          \/ Cancel(side)
          \/ LingerOver(side)
          \/ Lose(side)
          \/ Damage(side)
    \/ Over

Spec == Init /\ [][Next]_vars

\* When each of the three is possible, written out: what ENABLED says of it.
CanExpire(side) ==
    /\ Running(end[side]) /\ Len(wire[side]) < WireRoom
    /\ trouble < MaxTrouble \/ (Silent /\ ~OtherFirst(side))

\* The I/O thread reads what arrives and looks at the clock each time round,
\* and start_transfer goes on to write: weak fairness of the three.
Fairness ==
    \A side \in Sides :
        /\ []<>~Beginning(side) \/ []<><<WriteFirst(side)>>_vars
        /\ []<>~CanHear(side) \/ []<><<Hear(side)>>_vars
        /\ []<>~CanExpire(side) \/ []<><<Expire(side)>>_vars

FairSpec == Spec /\ Fairness

-----------------------------------------------------------------------------
(* What a transfer is for. *)

Sender == CHOOSE side \in Sides : end[side].role = "send"
Receiver == CHOOSE side \in Sides : end[side].role = "receive"
Paired == {end[side].role : side \in Sides} = Roles

\* A text file as it is kept here: CR LF is how lines end on the line.
Local(bytes) ==
    LET first[n \in 0 .. Len(bytes)] ==
            IF n = 0 THEN <<>>
            ELSE IF bytes[n] = "cr" /\ n < Len(bytes) /\ bytes[n + 1] = "lf" THEN first[n - 1]
            ELSE Append(first[n - 1], bytes[n])
    IN  first[Len(bytes)]

ModeOf(i) == IF agreement.attributes THEN Files[i].mode ELSE Setting
Expected(i) == IF ModeOf(i) = "text" THEN Local(Files[i].bytes) ELSE Files[i].bytes

\* The places in a folder of the files saved there.
SavedFiles(side) == {i \in DOMAIN folder[side] : folder[side][i].saved}
Kept(side) == Cardinality(SavedFiles(side))

\* Every file saved is the sender's, in its order, with none left out and
\* nothing missing, doubled or cut, however its lines fell across packets.
FilesWhole ==
    \A side \in Sides :
        \A i \in SavedFiles(side) :
            /\ Paired
            /\ i <= Len(Files) /\ 1 .. i \subseteq SavedFiles(side)
            /\ folder[side][i].bytes = Expected(i)

\* When a receiver has stopped, for whatever reason, all that it has left in
\* the folder is whole files, unless the disk itself failed it.
NothingLeftBehind ==
    \A side \in Sides :
        ~Running(end[side]) /\ ~failure =>
            \A i \in 1 .. Len(folder[side]) : folder[side][i].saved

\* What the folder holds when it is over is whole files, of this transfer.
FolderSound == FilesWhole /\ NothingLeftBehind

Outcome(side) ==
    IF end[side].status \in {"BothSending", "BothReceiving"} THEN "Failed" ELSE end[side].status

\* Whatever is lost, damaged, late, cancelled or failing, the two ends do what
\* FileTransfer promises: each file is kept once, none is claimed that was not
\* kept, and Done means all of them, as long as nobody cancels.
Promise ==
    INSTANCE FileTransfer WITH
        Count <- Len(Files),
        kept <- IF Paired THEN Kept(Receiver) ELSE 0,
        claimed <- IF Paired THEN end[Sender].files ELSE 0,
        withdrawn <- Paired /\ cancels > 0,
        outcome <- IF Paired
                   THEN [e \in {"sender", "receiver"} |->
                            IF e = "sender" THEN Outcome(Sender) ELSE Outcome(Receiver)]
                   ELSE [e \in {"sender", "receiver"} |-> "Running"]

KeepsPromise == Promise!Spec

\* No data packet carries more than half of any that had to go again.
NeverGrowsBack ==
    [][\A side \in Sides :
          end[side].role = "send" /\ agreement.long /\ end'[side].state = "Data"
            /\ end'[side].last # end[side].last =>
                end'[side].inFlight <= Most(repeated \div 2, LeastSize)]_vars

\* Whatever is lost and whoever cancels, both ends stop in the end.
TransferEnds == <>(\A side \in Sides : ~Running(end[side]))

\* Fewer troubles than there are tries left do not stop a transfer nobody
\* cancels: every file is saved, and both ends say so.
GoesThrough ==
    Paired /\ MaxTrouble <= Retries =>
        <>(\/ failure
           \/ cancels > 0
           \/ /\ \A side \in Sides : end[side].status = "Done"
              /\ end[Sender].files = Len(Files)
              /\ end[Receiver].files = Len(Files)
              /\ Kept(Receiver) = Len(Files))

\* Both ends stop in the end, with everything sent if there was no great trouble,
\* and trouble makes packets shorter for good.
EndsWell == TransferEnds /\ GoesThrough /\ NeverGrowsBack

\* What the source says of Done: every file went, and the far end knows it.
DoneMeansSent ==
    Paired /\ end[Sender].status = "Done" => Kept(Receiver) = Len(Files)
=============================================================================
