--------------------------- MODULE TelnetOptions ---------------------------
(***************************************************************************)
(* A Telnet connection (crates/vt-transport/src/telnet.rs): the options    *)
(* the two ends agree, the decoder of what arrives, the encoding of what   *)
(* is typed, the window size, and the line settings asked of a terminal    *)
(* server (RFC 2217).                                                      *)
(*                                                                         *)
(* Two threads write to the socket, each after letting go of the lock on   *)
(* the options under which it made up what to write: the I/O thread        *)
(* (`reading`), with its answers and the window size, and whichever thread *)
(* has the session's writer (`writing`).  The server is external: it       *)
(* answers requests, makes some of its own when it has none outstanding    *)
(* for that option, and may be of the old kind that answers every request, *)
(* even an answer.                                                         *)
(*                                                                         *)
(* What passes is a sequence of pairs: a verb and its option, a character, *)
(* or a subnegotiation and what it says.  An IAC in the data and the one   *)
(* that doubles it are one character here.                                 *)
(***************************************************************************)
EXTENDS Integers, Sequences, SequencesExt

CONSTANT
  Courses   \* what a behaviour has: whether `binary` is offered and a `port`
            \* asked for, the options the server `accepts` and those it `asks`
            \* about of its own accord, whether it is `naive`, and as bounds how
            \* many `requests` it makes, characters it `says`, writes of `keys`
            \* are made, page `sizes` there are and line `settings`

\* LINEMODE stands for what neither end of this program knows.
Names == {"BINARY", "ECHO", "SGA", "TTYPE", "NAWS", "COM_PORT", "LINEMODE"}

ASSUME TelnetAssumption ==
  \A c \in Courses :
    /\ c.asks \subseteq Names
    /\ c.binary \in BOOLEAN /\ c.port \in BOOLEAN /\ c.naive \in BOOLEAN
    /\ {c.requests, c.says, c.keys, c.sizes, c.settings} \subseteq Nat

VARIABLES
  course,       \* what this behaviour has
  options,      \* the Options both halves share
  afterCr,      \* the decoder has just passed on a carriage return
  shown,        \* the text handed to the terminal
  reading,      \* what the I/O thread has to write
  writing,      \* what the holder of the writer has to write
  typed,        \* the writes made, each a sequence of characters
  toServer, toClient,   \* what is on its way
  server,       \* the server
  said          \* the text the server sent

vars == <<course, options, afterCr, shown, reading, writing, typed, toServer, toClient,
          server, said>>

Off == [x \in Names |-> FALSE]

LocalSupported(o, x) ==
  IF x = "COM_PORT" THEN o.port > 0 ELSE x \in {"BINARY", "SGA", "TTYPE", "NAWS"}

RemoteSupported(x) == x \in {"BINARY", "ECHO", "SGA"}

Only(x, condition) == IF condition THEN <<x>> ELSE <<>>

(***************************************************************************)
(* Negotiation.  Answering takes the options and the replies so far to     *)
(* those after it.                                                         *)
(***************************************************************************)

WindowSize(o) == <<"SIZE", o.size>>
PortSettings(o) == <<"LINE", o.port>>

Reply(s, more) == [s EXCEPT !.replies = @ \o more]

\* A request is answered when it changes the option, unless it is itself an
\* answer; being asked for what is not supported always is.
OnDo(s, x) ==
  LET o == [s.o EXCEPT !.usPending[x] = FALSE, !.us[x] = TRUE]
  IN  CASE ~LocalSupported(s.o, x) -> Reply(s, <<<<"WONT", x>>>>)
        [] LocalSupported(s.o, x) /\ s.o.us[x] -> [s EXCEPT !.o = o]
        [] OTHER -> Reply([s EXCEPT !.o = o],
                          Only(<<"WILL", x>>, ~s.o.usPending[x])
                          \o Only(WindowSize(o), x = "NAWS")
                          \o Only(PortSettings(o), x = "COM_PORT"))

\* A plausible bug: a request to stop is not answered.
OnDontSilent(s, x) == [s EXCEPT !.o.usPending[x] = FALSE, !.o.us[x] = FALSE]

OnDont(s, x) ==
  Reply([s EXCEPT !.o.usPending[x] = FALSE, !.o.us[x] = FALSE],
        Only(<<"WONT", x>>, s.o.us[x] /\ ~s.o.usPending[x]))

\* A plausible bug: what is offered is asked for again, on or not.
OnWillAlways(s, x) ==
  Reply([s EXCEPT !.o.themPending[x] = FALSE, !.o.them[x] = RemoteSupported(x)],
        <<<<IF RemoteSupported(x) THEN "DO" ELSE "DONT", x>>>>)

OnWill(s, x) ==
  IF ~RemoteSupported(x) THEN Reply(s, <<<<"DONT", x>>>>)
  ELSE Reply([s EXCEPT !.o.themPending[x] = FALSE, !.o.them[x] = TRUE],
             Only(<<"DO", x>>, ~s.o.them[x] /\ ~s.o.themPending[x]))

OnWont(s, x) ==
  Reply([s EXCEPT !.o.themPending[x] = FALSE, !.o.them[x] = FALSE],
        Only(<<"DONT", x>>, s.o.them[x] /\ ~s.o.themPending[x]))

Negotiate(verb, x, s) ==
  CASE verb = "DO" -> OnDo(s, x)
    [] verb = "DONT" -> OnDont(s, x)
    [] verb = "WILL" -> OnWill(s, x)
    [] verb = "WONT" -> OnWont(s, x)

\* The name of the terminal, for a server that asks and has agreed to be told.
Subnegotiation(s) == Reply(s, Only(<<"NAME", 0>>, s.o.us["TTYPE"]))

\* Outside binary mode a null after a carriage return is dropped.
OnCharacter(s, c) ==
  IF s.afterCr /\ c = "nul" /\ ~s.o.them["BINARY"] THEN [s EXCEPT !.afterCr = FALSE]
  ELSE [s EXCEPT !.afterCr = c = "cr", !.out = Append(@, c)]

\* One thing that arrives.  A command, wherever it comes, ends the wait for
\* a null.
DecodeOne(s, item) ==
  CASE item[1] = "CHAR" -> OnCharacter(s, item[2])
    [] item[1] = "SEND" -> [Subnegotiation(s) EXCEPT !.afterCr = FALSE]
    [] OTHER -> [Negotiate(item[1], item[2], s) EXCEPT !.afterCr = FALSE]

\* What one read takes in, which may end between any two things.
Decode(chunk, cr) ==
  LET after[n \in 0 .. Len(chunk)] ==
        IF n = 0 THEN [o |-> options, afterCr |-> cr, out |-> <<>>, replies |-> <<>>]
        ELSE DecodeOne(after[n - 1], chunk[n])
  IN  after[Len(chunk)]

\* A plausible bug: only a carriage return inside a write is taken for a bare one.
EncodeInside(data, binary) ==
  LET out[n \in 0 .. Len(data)] ==
        IF n = 0 THEN <<>>
        ELSE out[n - 1] \o <<<<"CHAR", data[n]>>>>
                        \o Only(<<"CHAR", "nul">>, data[n] = "cr" /\ ~binary
                                  /\ n < Len(data) /\ data[n + 1] # "lf")
  IN  out[Len(data)]

\* Outside binary mode a carriage return goes with a null, unless the same
\* write has a line feed after it.
Encode(data, binary) ==
  LET out[n \in 0 .. Len(data)] ==
        IF n = 0 THEN <<>>
        ELSE out[n - 1] \o <<<<"CHAR", data[n]>>>>
                        \o Only(<<"CHAR", "nul">>, data[n] = "cr" /\ ~binary
                                  /\ ~(n < Len(data) /\ data[n + 1] = "lf"))
  IN  out[Len(data)]

(***************************************************************************)
(* This end.                                                               *)
(***************************************************************************)

\* What is offered and asked for on connecting.
Offered(c) ==
  Only("BINARY", c.binary) \o <<"SGA", "TTYPE", "NAWS">> \o Only("COM_PORT", c.port)
Requested(c) == Only("BINARY", c.binary) \o <<"SGA">>

Hello(c) ==
  [i \in DOMAIN Offered(c) |-> <<"WILL", Offered(c)[i]>>]
  \o [i \in DOMAIN Requested(c) |-> <<"DO", Requested(c)[i]>>]

Connected(c) ==
  [us |-> Off, them |-> Off,
   usPending |-> [x \in Names |-> Contains(Offered(c), x)],
   themPending |-> [x \in Names |-> Contains(Requested(c), x)],
   size |-> 1, port |-> IF c.port THEN 1 ELSE 0]

\* A read, and what it leaves to be written.
Read ==
  /\ reading = <<>> /\ toClient # <<>>
  /\ \E n \in DOMAIN toClient :
       LET s == Decode(SubSeq(toClient, 1, n), afterCr)
       IN  /\ options' = s.o /\ afterCr' = s.afterCr /\ shown' = shown \o s.out
           /\ reading' = s.replies
           /\ toClient' = SubSeq(toClient, n + 1, Len(toClient))
  /\ UNCHANGED <<course, writing, typed, toServer, server, said>>

SizeTold(o) == Only(WindowSize(o), o.us["NAWS"])

\* The same thread tells the server of a new page size.
Resize ==
  /\ reading = <<>> /\ options.size < course.sizes
  /\ LET o == [options EXCEPT !.size = @ + 1]
     IN  options' = o /\ reading' = SizeTold(o)
  /\ UNCHANGED <<course, afterCr, shown, writing, typed, toServer, toClient, server, said>>

WriteReplies ==
  /\ reading # <<>> /\ reading' = <<>>
  /\ toServer' = toServer \o reading
  /\ UNCHANGED <<course, options, afterCr, shown, writing, typed, toClient, server, said>>

\* A write, a break or new settings of the line, under the session's lock.
Write ==
  /\ writing = <<>> /\ Len(typed) < course.keys
  /\ \E data \in {<<"x">>, <<"cr">>, <<"cr", "lf">>, <<"lf">>} :
       /\ writing' = Encode(data, options.us["BINARY"])
       /\ typed' = Append(typed, data)
  /\ UNCHANGED <<course, options, afterCr, shown, reading, toServer, toClient, server, said>>

SendBreak ==
  /\ writing = <<>> /\ course.port /\ Len(typed) < course.keys
  /\ writing' = <<<<"BREAK", IF options.us["COM_PORT"] THEN 2 ELSE 1>>>>
  /\ typed' = Append(typed, <<>>)
  /\ UNCHANGED <<course, options, afterCr, shown, reading, toServer, toClient, server, said>>

SetLine ==
  /\ writing = <<>> /\ options.port \in 1 .. course.settings - 1
  /\ LET o == [options EXCEPT !.port = @ + 1]
     IN  options' = o /\ writing' = Only(PortSettings(o), o.us["COM_PORT"])
  /\ UNCHANGED <<course, afterCr, shown, reading, typed, toServer, toClient, server, said>>

WriteOut ==
  /\ writing # <<>> /\ writing' = <<>>
  /\ toServer' = toServer \o writing
  /\ UNCHANGED <<course, options, afterCr, shown, reading, typed, toClient, server, said>>

(***************************************************************************)
(* The server.                                                             *)
(***************************************************************************)

Serving ==
  [us |-> Off, them |-> Off, usAsked |-> Off, themAsked |-> Off, requests |-> 0,
   size |-> 0, line |-> 0, heard |-> <<>>, afterCr |-> FALSE, unasked |-> FALSE]

\* What the server hears of an option at this end ("them") or at its own.
Sides == [WILL |-> "them", WONT |-> "them", DO |-> "us", DONT |-> "us"]
AskedOf(side) == IF side = "them" THEN "themAsked" ELSE "usAsked"
Verb(side, on) ==
  IF side = "them" THEN IF on THEN "DO" ELSE "DONT" ELSE IF on THEN "WILL" ELSE "WONT"

\* It answers what changes an option and is not itself an answer, and refuses
\* what it does not accept; a naive server answers everything.
HearsRequest(verb, x) ==
  LET side == Sides[verb]
      asked == server[AskedOf(side)][x]
      wanted == verb \in {"WILL", "DO"}
      on == wanted /\ (asked \/ x \in course.accepts)
      answers == course.naive \/ (~asked /\ (server[side][x] # on \/ wanted # on))
  IN  /\ server' = [server EXCEPT ![side][x] = on, ![AskedOf(side)][x] = FALSE]
      /\ toClient' = toClient \o Only(<<Verb(side, on), x>>, answers)

\* Outside binary mode a null after a carriage return belongs to it, and a
\* line feed makes it a new line.
HearsCharacter(c) ==
  LET before == server.heard
      joins == before # <<>> /\ server.afterCr /\ ~server.them["BINARY"]
  IN  server' = [server EXCEPT
        !.afterCr = c = "cr",
        !.heard = CASE joins /\ c = "nul" -> before
                    [] joins /\ c = "lf" -> Append(Front(before), "newline")
                    [] OTHER -> Append(before, c)]

Hears ==
  /\ toServer # <<>> /\ toServer' = Tail(toServer)
  /\ LET kind == Head(toServer)[1]
         value == Head(toServer)[2]
     IN  CASE kind \in DOMAIN Sides -> HearsRequest(kind, value)
           [] kind = "CHAR" -> HearsCharacter(value) /\ UNCHANGED toClient
           [] kind = "SIZE" ->
                /\ server' = [server EXCEPT !.size = value, !.unasked = @ \/ ~server.them["NAWS"]]
                /\ UNCHANGED toClient
           [] kind = "LINE" -> server' = [server EXCEPT !.line = value] /\ UNCHANGED toClient
           [] kind \in {"NAME", "BREAK"} -> UNCHANGED <<server, toClient>>
  /\ UNCHANGED <<course, options, afterCr, shown, reading, writing, typed, said>>

\* It asks for a change of an option, about which it has asked for nothing
\* else.  What it will do no longer it stops doing at once.
Asks ==
  /\ server.requests < course.requests
  /\ \E side \in {"us", "them"}, x \in course.asks :
       /\ ~server[AskedOf(side)][x]
       /\ server' = [server EXCEPT !.requests = @ + 1, ![AskedOf(side)][x] = TRUE,
                                   ![side][x] = side = "them" /\ @]
       /\ toClient' = Append(toClient, <<Verb(side, ~server[side][x]), x>>)
  /\ UNCHANGED <<course, options, afterCr, shown, reading, writing, typed, toServer, said>>

\* It asks for the terminal's name, or says something: outside binary mode a
\* carriage return with a null.
Says ==
  /\ \/ /\ Len(said) < course.says
        /\ \E c \in {"x", "cr"} :
             /\ said' = Append(said, c)
             /\ toClient' = toClient \o <<<<"CHAR", c>>>>
                               \o Only(<<"CHAR", "nul">>, c = "cr" /\ ~server.us["BINARY"])
        /\ server' = server
     \/ /\ server.them["TTYPE"] /\ server.requests < course.requests
        /\ server' = [server EXCEPT !.requests = @ + 1]
        /\ toClient' = Append(toClient, <<"SEND", "TTYPE">>) /\ said' = said
  /\ UNCHANGED <<course, options, afterCr, shown, reading, writing, typed, toServer>>

Init ==
  /\ course \in Courses
  /\ options = Connected(course) /\ toServer = Hello(course)
  /\ afterCr = FALSE /\ shown = <<>> /\ reading = <<>> /\ writing = <<>> /\ typed = <<>>
  /\ toClient = <<>> /\ server = Serving /\ said = <<>>

Next ==
  \/ Read \/ Resize \/ WriteReplies \/ Write \/ SendBreak \/ SetLine \/ WriteOut
  \/ Hears \/ Asks \/ Says

Spec == Init /\ [][Next]_vars

\* What has arrived is read, what is to be written is written, and the server
\* hears what is sent to it.
FairSpec ==
  Spec /\ WF_vars(Read) /\ WF_vars(WriteReplies) /\ WF_vars(WriteOut) /\ WF_vars(Hears)

(***************************************************************************)
(* What must be so.                                                        *)
(***************************************************************************)

Quiet == reading = <<>> /\ writing = <<>> /\ toServer = <<>> /\ toClient = <<>>

\* Once all that was sent has been read, the two ends believe the same of
\* every option, no request is unanswered, and the server has the size of the
\* page if it is told of it: whichever end asked first, and if both did
\* (negotiate, hello, resize).
Agreed ==
  Quiet =>
    /\ options.us = server.them /\ options.them = server.us
    /\ \A x \in Names : /\ ~options.usPending[x] /\ ~options.themPending[x]
                        /\ ~server.usAsked[x] /\ ~server.themAsked[x]
    /\ options.us["NAWS"] => server.size = options.size

\* The size of the page is never sent to a server that has not agreed to hear
\* of it, or no longer does (resize, negotiate).
NothingUnagreed == ~server.unasked

\* The ends agree, and nothing is sent that was not agreed.
BothAgree == Agreed /\ NothingUnagreed

BinaryInPlay == course.binary \/ "BINARY" \in course.asks

\* Without binary mode, the server hears what was typed: a carriage return
\* alone as one, also when a line feed is the next thing typed, and the two in
\* one write as a new line (encode).
KeysAsTyped ==
  Quiet /\ ~BinaryInPlay =>
    server.heard = FlattenSeq([i \in DOMAIN typed |->
                                 IF typed[i] = <<"cr", "lf">> THEN <<"newline">> ELSE typed[i]])

\* What the server says is shown, however the reads cut it up; nulls are left
\* over only about a change to binary mode (decode).
ShownAsSaid ==
  toClient = <<>> => /\ SelectSeq(shown, LAMBDA c : c # "nul") = said
                     /\ ~BinaryInPlay => shown = said

\* Text goes through unchanged in both directions.
TextUnchanged == KeysAsTyped /\ ShownAsSaid

\* Negotiation comes to an end, with a server that answers every request too.
Settles == <>[]Quiet

\* What the source says of the settings of the line: they go to the server
\* when set, or when it agrees to have them; so it ends with the last ones.
LineAsSet == Quiet /\ options.us["COM_PORT"] => server.line = options.port
=============================================================================
