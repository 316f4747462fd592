---------------------------- MODULE KermitPackets ----------------------------
(***************************************************************************)
(* What goes on the line in a Kermit transfer, character by character: how *)
(* two ends agree on parameters, how bytes, names and attributes are put   *)
(* in packets, and how packets are found again among echoes, noise and     *)
(* damage (crates/vt-kermit/src: lib.rs, init.rs, data.rs, attributes.rs,  *)
(* names.rs, files.rs and the Link of transfer.rs).                        *)
(*                                                                         *)
(* A character is its number.  One exchange sends one file's packets from  *)
(* one Link to another; which packet comes next, and that a packet is      *)
(* heard before the next is sent, is KermitTransfer's.                     *)
(*                                                                         *)
(* A definition marked "Mutant" is the next one with a mistake in it.      *)
(***************************************************************************)
EXTENDS Integers, FiniteSetsExt, SequencesExt

CONSTANTS
  MaxCount,  \* the most that one character of length counts (94)
  Exchanges, \* settings of the sender's and the receiver's, the name and the bytes of a
             \* file, whether only what is not as usual is told, and what may go wrong
  Noises,    \* what else may be on the line before a packet
  Spoils     \* what a damaged character may become

ASSUME CountAssumption == MaxCount \in 10 .. 94

VARIABLE exchange
\* The Links of both ends, the packet being sent and its characters on the line,
\* what has been sent and what was made of it, and the one thing that goes wrong.

None == -1
Asleep == [awake |-> FALSE]
Smaller(a, b) == IF a <= b THEN a ELSE b
Only(S) == CHOOSE one \in S : TRUE
Larger(a, b) == IF a >= b THEN a ELSE b

-----------------------------------------------------------------------------
\* Characters.

MAX_LONG == 9024
MARK == 1

ToChar(n) == (n + 32) % 256
UnChar(c) == (c + 224) % 256
Bits(n, width) == {i \in 0 .. width - 1 : (n \div 2 ^ i) % 2 = 1}
Number(bits) == MapThenSumSet(LAMBDA i : 2 ^ i, bits)
ExclusiveOr(a, b) == (a \ b) \cup (b \ a)
\* c with its seventh bit the other way round.
Ctl(c) == IF (c \div 64) % 2 = 1 THEN c - 64 ELSE c + 64

CheckChars == [one |-> 1, two |-> 2, three |-> 3]
CheckByte == [one |-> 49, two |-> 50, three |-> 51]

Total(covered) == FoldLeft(LAMBDA sum, c : sum + c, 0, covered)

\* Half a character at a time: the sixteen bits move down by four, and the four
\* that leave come back at 0, 7 and 12.
Crc16(covered) ==
  LET half(crc, four) ==
        LET q == ExclusiveOr(crc \cap (0 .. 3), four)
        IN  ExclusiveOr({i - 4 : i \in {j \in crc : j >= 4}}, q \cup {i + 7 : i \in q} \cup {i + 12 : i \in q})
      crc[n \in 0 .. Len(covered)] ==
        IF n = 0 THEN {} ELSE half(half(crc[n - 1], Bits(covered[n] % 16, 4)), Bits(covered[n] \div 16, 4))
  IN  crc[Len(covered)]

CheckOf(check, covered) ==
  LET sum == Total(covered)
      crc == Crc16(covered)
      six(from) == ToChar(Number({i - from : i \in crc \cap (from .. from + 5)}))
  IN  CASE check = "one"   -> <<ToChar((sum + ((sum % 256) \div 64)) % 64)>>
        [] check = "two"   -> <<ToChar((sum \div 64) % 64), ToChar(sum % 64)>>
        [] check = "three" -> <<six(12), six(6), six(0)>>

-----------------------------------------------------------------------------
\* Packets.

KindByte == [SendInit |-> 83, File |-> 70, Attributes |-> 65, Data |-> 68, EndOfFile |-> 90,
             Break |-> 66, Ack |-> 89, Nak |-> 78, Error |-> 69]
KindOf(c) ==
  IF \E kind \in DOMAIN KindByte : KindByte[kind] = c
  THEN CHOOSE kind \in DOMAIN KindByte : KindByte[kind] = c
  ELSE "Other"

\* The mark, the length, what it counts, the check, and the end of the line. A
\* packet too long for one character of length has two, checked by themselves.
BuildPacket(seq, kind, data, check, eol) ==
  LET count == 2 + Len(data) + CheckChars[check]
      n == Len(data) + CheckChars[check]
      head == <<ToChar(0), ToChar(seq), KindByte[kind], ToChar(n \div 95), ToChar(n % 95)>>
      covered == IF count > MaxCount THEN head \o CheckOf("one", head) \o data
                 ELSE <<ToChar(count), ToChar(seq), KindByte[kind]>> \o data
  IN  <<MARK>> \o covered \o CheckOf(check, covered) \o <<eol>>

Incomplete == [is |-> "incomplete"]
TooLong == [is |-> "too long"]
BadCheck == [is |-> "bad check"]

\* A packet that is all there, its data beginning after `from` characters.
Whole(bytes, total, from, check) ==
  LET end == total - CheckChars[check]
  IN  IF SubSeq(bytes, end + 1, total) # CheckOf(check, SubSeq(bytes, 2, end)) THEN BadCheck
      ELSE [is |-> "packet", used |-> total, seq |-> UnChar(bytes[3]), kind |-> KindOf(bytes[4]),
            data |-> SubSeq(bytes, from + 1, end)]

ReadLong(bytes, check) ==
  IF Len(bytes) < 7 THEN Incomplete
  ELSE IF CheckOf("one", SubSeq(bytes, 2, 6)) # <<bytes[7]>> THEN BadCheck
  ELSE LET n == UnChar(bytes[5]) * 95 + UnChar(bytes[6])
       IN  IF n > MAX_LONG + 1 THEN TooLong
           ELSE IF n < CheckChars[check] THEN BadCheck
           ELSE IF Len(bytes) < 7 + n THEN Incomplete
           ELSE Whole(bytes, 7 + n, 7, check)

\* What begins at a mark, read with a check. One more than the most a packet may
\* count is read, C-Kermit having been seen to send it.
ReadPacket(bytes, check) ==
  IF Len(bytes) < 4 THEN Incomplete
  ELSE LET count == UnChar(bytes[2])
       IN  IF count = 0 THEN ReadLong(bytes, check)
           ELSE IF count > MaxCount + 1 THEN TooLong
           ELSE IF Len(bytes) < count + 2 THEN Incomplete
           ELSE IF count < 2 + CheckChars[check] THEN BadCheck
           ELSE Whole(bytes, count + 2, 4, check)

-----------------------------------------------------------------------------
\* Parameters.

Default ==
  [maxLength |-> 80, timeout |-> 5, padding |-> 0, padWith |-> 0, endOfLine |-> 13,
   quoteControl |-> 35, quoteEighth |-> None, repeat |-> None, check |-> "one", capabilities |-> <<>>]

CAPABLE == 8
LONG_PACKETS == 2
DEFAULT_LONG == 500

\* What veetee asks for.
Ours ==
  [Default EXCEPT
     !.maxLength = MaxCount, !.timeout = 10, !.quoteEighth = 38, !.repeat = 126, !.check = "three",
     !.capabilities = <<ToChar(CAPABLE + LONG_PACKETS), ToChar(1),
                        ToChar(MAX_LONG \div 95), ToChar(MAX_LONG % 95)>>]

HasBit(c, bit) == (UnChar(c) \div bit) % 2 = 1
Offered(capabilities, bit) == capabilities # <<>> /\ HasBit(capabilities[1], bit)

\* The longest long packet an end takes, or None: after the capabilities, of which
\* the last is even, come the window and then the length.
LongOf(p) ==
  LET caps == p.capabilities
      even == {i \in DOMAIN caps : ~HasBit(caps[i], 1)}
      last == Min(even)
      length == IF last + 3 <= Len(caps) THEN UnChar(caps[last + 2]) * 95 + UnChar(caps[last + 3]) ELSE 0
  IN  IF ~Offered(caps, LONG_PACKETS) \/ even = {} THEN None
      ELSE Smaller(IF length > 0 THEN length ELSE DEFAULT_LONG, MAX_LONG)

REFUSED == 78
AGREED == 89
\* None is refused, and so is what a space says.
PrefixByte(prefix) == IF prefix = None THEN REFUSED ELSE prefix
Prefix(c) == IF c \in {REFUSED, 32} THEN None ELSE c

\* The data field of a send-init or its answer, and what one says.
BuildParams(p) ==
  <<ToChar(p.maxLength), ToChar(p.timeout), ToChar(p.padding), Ctl(p.padWith), ToChar(p.endOfLine),
    p.quoteControl, PrefixByte(p.quoteEighth), CheckByte[p.check], PrefixByte(p.repeat)>> \o p.capabilities

CheckNamed(c) == IF \E check \in DOMAIN CheckByte : CheckByte[check] = c
                 THEN CHOOSE check \in DOMAIN CheckByte : CheckByte[check] = c
                 ELSE "one"

ReadParams(data) ==
  LET has(i) == i <= Len(data)
  IN  [maxLength    |-> IF has(1) THEN UnChar(data[1]) ELSE Default.maxLength,
       timeout      |-> IF has(2) THEN UnChar(data[2]) ELSE Default.timeout,
       padding      |-> IF has(3) THEN UnChar(data[3]) ELSE Default.padding,
       padWith      |-> IF has(4) THEN Ctl(data[4]) ELSE Default.padWith,
       endOfLine    |-> IF has(5) THEN UnChar(data[5]) ELSE Default.endOfLine,
       quoteControl |-> IF has(6) THEN data[6] ELSE Default.quoteControl,
       quoteEighth  |-> IF has(7) THEN Prefix(data[7]) ELSE None,
       check        |-> IF has(8) THEN CheckNamed(data[8]) ELSE "one",
       repeat       |-> IF has(9) THEN Prefix(data[9]) ELSE None,
       capabilities |-> SubSeq(data, 10, Len(data))]

\* Both ends have to want a prefix; Y is the other's.
Settle(mine, theirs) ==
  IF mine = None \/ theirs = None THEN None ELSE IF theirs = AGREED THEN mine ELSE theirs

Agreed(mine, theirs) ==
  [theirs EXCEPT
     !.maxLength = Smaller(@, MaxCount),
     !.quoteEighth = Settle(mine.quoteEighth, @), !.repeat = Settle(mine.repeat, @),
     !.check = IF mine.check = @ THEN @ ELSE "one"]

-----------------------------------------------------------------------------
\* Data.

WORTH_REPEATING == 3
CONTROL_RANGE == 63 .. 95

Control(seven) == seven < 32 \/ seven = 127
NeedsQuoting(seven, p) == Control(seven) \/ seven \in {p.quoteControl, p.quoteEighth, p.repeat}

\* The character a byte is sent as, announced where its eighth bit is.
Seven(byte, p) == IF p.quoteEighth # None THEN byte % 128 ELSE byte

\* One byte, without the repeat prefix.
PutByte(byte, p) ==
  LET seven == Seven(byte, p)
  IN  (IF seven # byte THEN <<p.quoteEighth>> ELSE <<>>)
      \o (IF ~NeedsQuoting(seven, p) THEN <<seven>>
          ELSE <<p.quoteControl, IF Control(seven) THEN Ctl(seven) ELSE seven>>)
ByteCost(byte, p) == Len(PutByte(byte, p))

\* How often the byte at a place is there in a row, no more than a count holds.
RunAt(data, at) ==
  LET end == Smaller(Len(data) + 1, at + MaxCount)
  IN  Min({i \in at + 1 .. end - 1 : data[i] # data[at]} \cup {end}) - at

\* As much of the data as fits in the room, and how much that is.
Encode(data, p, room) ==
  LET step(e) ==
        LET byte == data[e.used + 1]
            left == room - Len(e.out)
            run == RunAt(data, e.used + 1)
            cost == ByteCost(byte, p)
        IN  IF p.repeat # None /\ run >= WORTH_REPEATING /\ 2 + cost <= left
            THEN [e EXCEPT !.out = @ \o <<p.repeat, ToChar(run)>> \o PutByte(byte, p), !.used = @ + run]
            ELSE IF cost > left THEN [e EXCEPT !.full = TRUE]
            ELSE [e EXCEPT !.out = @ \o PutByte(byte, p), !.used = @ + 1]
  IN  FoldLeft(LAMBDA e, i : IF e.full \/ e.used = Len(data) THEN e ELSE step(e),
               [out |-> <<>>, used |-> 0, full |-> FALSE], data)

\* The byte announced at a place and the place after it; None if it is not all there.
TakeOne(data, at, p) ==
  LET eighth == p.quoteEighth # None /\ at <= Len(data) /\ data[at] = p.quoteEighth
      first == IF eighth THEN at + 1 ELSE at
      quoted == first <= Len(data) /\ data[first] = p.quoteControl
      last == IF quoted THEN first + 1 ELSE first
      plain == IF last > Len(data) THEN None
               ELSE IF quoted /\ data[last] \in CONTROL_RANGE THEN Ctl(data[last])
               ELSE data[last]
  IN  [next |-> last + 1, byte |-> IF plain # None /\ eighth /\ plain < 128 THEN plain + 128 ELSE plain]

Decode(data, p) ==
  LET step(d) ==
        LET counted == data[d.at] = p.repeat
            run == IF ~counted THEN 1 ELSE IF d.at < Len(data) THEN UnChar(data[d.at + 1]) ELSE 0
            one == TakeOne(data, IF counted THEN d.at + 2 ELSE d.at, p)
        IN  IF one.byte = None THEN [d EXCEPT !.at = Len(data) + 1]
            ELSE [at |-> one.next, out |-> d.out \o [i \in 1 .. run |-> one.byte]]
  IN  FoldLeft(LAMBDA d, i : IF d.at > Len(data) THEN d ELSE step(d), [at |-> 1, out |-> <<>>], data).out

-----------------------------------------------------------------------------
\* Attributes: <<tag, length, value>>, one after another.

Digits(n) ==
  LET places == {i \in 1 .. 6 : 10 ^ (i - 1) <= Larger(n, 1)}
  IN  [i \in 1 .. Max(places) |-> 48 + ((n \div 10 ^ (Max(places) - i)) % 10)]
\* Spaces around a number are not part of it.
NumberIn(value) ==
  LET kept == {i \in DOMAIN value : value[i] # 32}
      trimmed == IF kept = {} THEN <<>> ELSE SubSeq(value, Min(kept), Max(kept))
  IN  IF trimmed = <<>> \/ \E i \in DOMAIN trimmed : trimmed[i] \notin 48 .. 57 THEN None
      ELSE FoldLeft(LAMBDA n, c : n * 10 + c - 48, 0, trimmed)

TYPE == 34
SIZE == 49
KILOBYTES == 33
AttributeOf(tag, value) == <<tag, ToChar(Len(value))>> \o value

BuildAttributes(a) ==
  (CASE a.type = "text" -> AttributeOf(TYPE, <<65, 77, 74>>)
     [] a.type = "binary" -> AttributeOf(TYPE, <<66, 56>>)
     [] OTHER -> <<>>)
  \o IF a.size = None THEN <<>>
     ELSE AttributeOf(SIZE, Digits(a.size)) \o AttributeOf(KILOBYTES, Digits((a.size + 1023) \div 1024))

\* What is cut short, or follows an @, is not read.
ReadAttributes(data) ==
  LET end == Len(data) + 1
      said(a, tag, value) ==
        CASE tag = TYPE -> [a EXCEPT !.type = IF value # <<>> /\ value[1] = 65 THEN "text"
                                              ELSE IF value # <<>> /\ value[1] = 66 THEN "binary" ELSE "unsaid"]
          [] tag = SIZE -> [a EXCEPT !.size = NumberIn(value)]
          [] tag = KILOBYTES /\ a.size = None /\ NumberIn(value) # None -> [a EXCEPT !.size = NumberIn(value) * 1024]
          [] OTHER -> a
      step(a) ==
        LET tag == data[a.at]
            next == a.at + 2 + UnChar(data[a.at + 1])
        IN  IF next > end \/ tag = 64 THEN [a EXCEPT !.at = end]
            ELSE [said(a, tag, SubSeq(data, a.at + 2, next - 1)) EXCEPT !.at = next]
      all == FoldLeft(LAMBDA a, i : IF a.at + 1 > Len(data) THEN a ELSE step(a),
                      [at |-> 1, type |-> "unsaid", size |-> None], data)
  IN  [type |-> all.type, size |-> all.size]

-----------------------------------------------------------------------------
\* Names.

SEPARATORS == {47, 92, 93, 62, 58}           \* / \ ] > :
UNUSABLE == {60, 62, 58, 34, 124, 63, 42, 127} \cup (0 .. 31)
DOT == 46
AfterLast(s, found) == LET at == {i \in DOMAIN s : s[i] \in found} IN IF at = {} THEN 0 ELSE Max(at)
Uppered(s) == [i \in DOMAIN s |-> IF s[i] \in 97 .. 122 THEN s[i] - 32 ELSE s[i]]
Lowered(s) == [i \in DOMAIN s |-> IF s[i] \in 65 .. 90 THEN s[i] + 32 ELSE s[i]]

\* CON PRN AUX NUL, COM1 to COM9 and LPT1 to LPT9
Reserved == {<<67, 79, 78>>, <<80, 82, 78>>, <<65, 85, 88>>, <<78, 85, 76>>}
            \cup {device \o <<n>> : device \in {<<67, 79, 77>>, <<76, 80, 84>>}, n \in 49 .. 57}

\* LOGIN.COM;3 without its ;3
WithoutVersion(name) ==
  LET at == AfterLast(name, {59})
  IN  IF at > 0 /\ \A i \in at + 1 .. Len(name) : name[i] \in 48 .. 57 THEN SubSeq(name, 1, at - 1) ELSE name

\* Without spaces, nor at its end dots.
Trimmed(name) ==
  LET kept == {i \in DOMAIN name : name[i] # 32}
      ends == {i \in kept : name[i] # DOT}
  IN  IF ends = {} THEN <<>> ELSE SubSeq(name, Min(kept), Max(ends))

Stem(name) == SubSeq(name, 1, Min({i \in DOMAIN name : name[i] = DOT} \cup {Len(name) + 1}) - 1)

\* The name a file is received under, or <<>> for none.
LocalName(sent, names) ==
  LET last == SubSeq(sent, AfterLast(sent, SEPARATORS) + 1, Len(sent))
      base == IF names = "converted" THEN Lowered(WithoutVersion(last)) ELSE last
      name == Trimmed([i \in DOMAIN base |-> IF base[i] \in UNUSABLE THEN 95 ELSE base[i]])
  IN  IF name # <<>> /\ Uppered(Stem(name)) \in Reserved THEN <<95>> \o name ELSE name

\* Its nth copy: login.n.com, or readme.n
Numbered(name, n) ==
  LET dot == AfterLast(name, {DOT})
  IN  IF dot > 1 THEN SubSeq(name, 1, dot) \o Digits(n) \o SubSeq(name, dot, Len(name))
      ELSE name \o <<DOT>> \o Digits(n)

\* The first copy whose name is free, or <<>> after a thousand.
FreeName(taken, name) ==
  LET copy(n) == IF n = 0 THEN name ELSE Numbered(name, n)
      free == {n \in 0 .. Smaller(999, Cardinality(taken)) : copy(n) \notin taken}
  IN  IF free = {} THEN <<>> ELSE copy(Min(free))

-----------------------------------------------------------------------------
\* Text or not, as a file's beginning looks.

\* UTF-8 so far: how many more bytes the character needs and what the next may
\* be, or -1 of them where it is none.
Needs(n, next) == [n |-> n, next |-> next]
Utf8Next(so, byte) ==
  CASE so.n > 0 /\ byte \in so.next -> Needs(so.n - 1, 128 .. 191)
    [] so.n = 0 /\ byte < 128 -> so
    [] so.n = 0 /\ byte \in 194 .. 223 -> Needs(1, 128 .. 191)
    [] so.n = 0 /\ byte \in 224 .. 239 ->
         Needs(2, IF byte = 224 THEN 160 .. 191 ELSE IF byte = 237 THEN 128 .. 159 ELSE 128 .. 191)
    [] so.n = 0 /\ byte \in 240 .. 244 ->
         Needs(3, IF byte = 240 THEN 144 .. 191 ELSE IF byte = 244 THEN 128 .. 143 ELSE 128 .. 191)
    [] OTHER -> Needs(-1, {})

\* Not a NUL, and no more than one in a hundred of what text does not have.
LooksLikeText(sample) ==
  LET utf8 == FoldLeft(Utf8Next, Needs(0, {}), sample).n >= 0
      odd(b) == \/ b \in (0 .. 31) \ {8, 9, 10, 12, 13, 27} \/ b = 127
                \/ b \in 128 .. 159 /\ ~utf8
  IN  /\ \A i \in DOMAIN sample : sample[i] # 0
      /\ Cardinality({i \in DOMAIN sample : odd(sample[i])}) * 100 <= Len(sample)

-----------------------------------------------------------------------------
\* The Link: what both ends of a transfer keep of the line.

NewLink(p) ==
  [ours |-> p, agreed |-> FALSE, sending |-> Default, reading |-> Default,
   attributes |-> FALSE, long |-> None, buffer |-> <<>>]

\* Each end prefixes control characters with the one it named.
Agree(link, theirs) ==
  LET reading == Agreed(link.ours, theirs)
  IN  [link EXCEPT
         !.agreed = TRUE, !.reading = reading,
         !.sending = [reading EXCEPT !.quoteControl = link.ours.quoteControl],
         !.attributes = Offered(link.ours.capabilities, CAPABLE) /\ Offered(theirs.capabilities, CAPABLE),
         !.long = IF LongOf(link.ours) = None THEN None ELSE LongOf(theirs)]

CheckIn(link) == IF link.agreed THEN link.sending.check ELSE "one"

Room(link) ==
  Larger(0, IF link.long # None THEN link.long - 7 - CheckChars[CheckIn(link)]
            ELSE link.sending.maxLength - 2 - CheckChars[CheckIn(link)])

Built(link, seq, kind, data, check) ==
  [i \in 1 .. link.sending.padding |-> link.sending.padWith]
  \o BuildPacket(seq, kind, data, check, link.sending.endOfLine)

\* Mutant: what is damaged is dropped with all that came with it.
TakeNoMore(buffer, checks) ==
  LET start == Min({i \in DOMAIN buffer : buffer[i] = MARK} \cup {Len(buffer) + 1})
      bytes == SubSeq(buffer, start, Len(buffer))
      reads == [i \in DOMAIN checks |-> ReadPacket(bytes, checks[i])]
      good == {i \in DOMAIN reads : reads[i].is = "packet"}
  IN  IF bytes = <<>> THEN [arrival |-> Incomplete, left |-> <<>>]
      ELSE IF good # {} THEN [arrival |-> reads[Min(good)],
                              left |-> SubSeq(bytes, reads[Min(good)].used + 1, Len(bytes))]
      ELSE IF \A i \in DOMAIN reads : reads[i] = Incomplete THEN [arrival |-> Incomplete, left |-> bytes]
      ELSE [arrival |-> BadCheck, left |-> <<>>]

\* The next packet, read with the first check it passes; what is damaged loses
\* its mark, so that the next has its chance.
Take(buffer, checks) ==
  LET start == Min({i \in DOMAIN buffer : buffer[i] = MARK} \cup {Len(buffer) + 1})
      bytes == SubSeq(buffer, start, Len(buffer))
      reads == [i \in DOMAIN checks |-> ReadPacket(bytes, checks[i])]
      good == {i \in DOMAIN reads : reads[i].is = "packet"}
  IN  IF bytes = <<>> THEN [arrival |-> Incomplete, left |-> <<>>]
      ELSE IF good # {} THEN [arrival |-> reads[Min(good)],
                              left |-> SubSeq(bytes, reads[Min(good)].used + 1, Len(bytes))]
      ELSE IF \A i \in DOMAIN reads : reads[i] = Incomplete THEN [arrival |-> Incomplete, left |-> bytes]
      ELSE [arrival |-> BadCheck, left |-> Tail(bytes)]

-----------------------------------------------------------------------------
\* An exchange.

\* An older end leaves out the last fields where they are as usual.
Told(p, least) ==
  LET all == BuildParams(p)
      first(n) == SubSeq(all, 1, n)
  IN  IF least THEN first(Min({n \in 0 .. Len(all) : ReadParams(first(n)) = p})) ELSE all

Means(kind, what) == [kind |-> kind, what |-> what]

\* The next packet of the sender's: its data, and what it means.
NextData(x) ==
  LET p == x.sender.sending
      room == Room(x.sender)
      said == [type |-> IF LooksLikeText(x.bytes) THEN "text" ELSE "binary", size |-> Len(x.bytes)]
      left == SubSeq(x.bytes, x.at + 1, Len(x.bytes))
      encoded == Encode(left, p, room)
      packet(kind, data, what) == [kind |-> kind, data |-> data, what |-> what]
  IN  CASE x.stage = "init" ->
             packet("SendInit", Told(x.sender.ours, x.least), x.sender.ours)
        [] x.stage = "name" -> packet("File", Encode(x.name, p, room).out, x.name)
        [] x.stage = "attributes" -> packet("Attributes", BuildAttributes(said), said)
        [] x.stage = "data" -> packet("Data", encoded.out, SubSeq(left, 1, encoded.used))
        [] x.stage = "end" -> packet("EndOfFile", <<>>, <<>>)

StageAfter(x, used) ==
  CASE x.stage = "init" -> "name"
    [] x.stage = "name" -> IF x.sender.attributes THEN "attributes" ELSE "data"
    [] x.stage \in {"attributes", "data"} -> IF x.at + used = Len(x.bytes) THEN "end" ELSE "data"
    [] x.stage = "end" -> "over"

Starts(e) ==
  [awake |-> TRUE, name |-> e.name, bytes |-> e.bytes, least |-> e.least, faults |-> e.faults,
   sender |-> NewLink(e.sender), receiver |-> NewLink(e.receiver),
   stage |-> "init", at |-> 0, last |-> <<>>, line |-> <<>>, sent |-> <<>>, heard |-> <<>>, trouble |-> "none"]

AllHeard(x) == x.line = <<>> /\ Len(x.heard) = Len(x.sent)

\* A file with nothing in it has no data at all.
SendNext ==
  LET x == exchange
      sends(packet) ==
        LET used == IF x.stage = "data" THEN Len(packet.what) ELSE 0
            chars == Built(x.sender, Len(x.sent) % 64, packet.kind, packet.data, CheckIn(x.sender))
        IN  [x EXCEPT !.stage = StageAfter(x, used), !.at = @ + used, !.last = chars, !.line = chars,
                      !.sent = Append(@, Means(packet.kind, packet.what))]
  IN  /\ exchange # Asleep /\ AllHeard(x) /\ x.stage # "over"
      /\ x.stage = "name" => x.sender.agreed
      /\ IF x.stage = "data" /\ x.at = Len(x.bytes)
           THEN exchange' = [x EXCEPT !.stage = "end"]
           ELSE \E packet \in {NextData(x)} : exchange' = sends(packet)

\* The answer to a send-init, with the check of one character like it.
Answer ==
  LET x == exchange
      data == Told(x.receiver.ours, x.least)
  IN  /\ exchange # Asleep /\ AllHeard(x) /\ x.stage = "name" /\ ~x.sender.agreed
      /\ \E said \in {Take(Built(x.receiver, 0, "Ack", data, "one"), <<"one">>).arrival} :
           exchange' = [x EXCEPT !.sender = Agree(@, ReadParams(said.data))]

\* A packet in its turn.
Reads(x, packet) ==
  LET decoded == Decode(packet.data, x.receiver.reading)
      init == ReadParams(packet.data)
      what == CASE packet.kind = "SendInit" -> init
                [] packet.kind = "Attributes" -> ReadAttributes(packet.data)
                [] OTHER -> decoded
      after == [x EXCEPT !.heard = Append(@, Means(packet.kind, what))]
  IN  IF packet.seq # Len(x.heard) % 64 THEN x
      ELSE IF packet.kind = "SendInit" THEN [after EXCEPT !.receiver = Agree(@, init)] ELSE after

\* Until a file has begun, a send-init may come again.
Checks(x) ==
  IF Len(x.heard) = 1 /\ CheckIn(x.receiver) # "one" THEN <<CheckIn(x.receiver), "one">>
  ELSE <<CheckIn(x.receiver)>>

\* The first n characters arrive, and every packet there is read (feed).
Arrive(n) ==
  LET x == exchange
      arrived == [x EXCEPT !.receiver.buffer = @ \o SubSeq(x.line, 1, n), !.line = SubSeq(@, n + 1, Len(@))]
      marks == SelectSeq(arrived.receiver.buffer, LAMBDA c : c = MARK)
      after(y, t) ==
        LET rest == [y EXCEPT !.receiver.buffer = t.left]
        IN  IF t.arrival.is = "packet" THEN Reads(rest, t.arrival) ELSE rest
      step(y) == Only({after(y, t) : t \in {Take(y.receiver.buffer, Checks(y))}})
  IN  /\ exchange # Asleep /\ n \in 1 .. Len(x.line)
      /\ n < Len(x.line) => x.trouble = "none" /\ "cut" \in x.faults
      /\ exchange' = FoldLeft(LAMBDA y, i : step(y),
                              [arrived EXCEPT !.trouble = IF n < Len(x.line) THEN "cut" ELSE @],
                              marks \o <<MARK>>)

\* A stray piece comes before the packet.
Stray(noise) ==
  /\ exchange # Asleep /\ exchange.line # <<>> /\ exchange.trouble = "none" /\ "stray" \in exchange.faults
  /\ exchange' = [exchange EXCEPT !.line = noise \o @, !.trouble = "noise"]

\* A character of a packet is damaged, where none is read by a check of one
\* character: that would let some pass.  Where the data is long, only its ends.
Spoil(i, c) ==
  /\ exchange # Asleep /\ i \in DOMAIN exchange.line /\ exchange.line[i] # c
  /\ i <= 8 \/ i > Len(exchange.line) - 5
  /\ exchange.trouble = "none" /\ "spoilt" \in exchange.faults /\ \A k \in DOMAIN Checks(exchange) : Checks(exchange)[k] # "one"
  /\ exchange' = [exchange EXCEPT !.line[i] = c, !.trouble = "spoilt"]

\* The packet has not come: what is waiting will not be finished, and it goes again
\* (tick).
GoesAgain ==
  /\ exchange # Asleep /\ exchange.line = <<>> /\ ~AllHeard(exchange) /\ exchange.trouble = "spoilt"
  /\ exchange' = [exchange EXCEPT !.line = exchange.last, !.receiver.buffer = <<>>, !.trouble = "over"]

ExchangeInit == \E e \in Exchanges : exchange = Starts(e)
ExchangeNext ==
  \/ SendNext
  \/ Answer
  \/ \E n \in 1 .. 400 : Arrive(n)
  \/ \E noise \in Noises : Stray(noise)
  \/ \E i \in 1 .. 400, c \in Spoils : Spoil(i, c)
  \/ GoesAgain

-----------------------------------------------------------------------------
\* What both ends reckon on is the same: the check, whether there are long packets
\* and attributes, and how what one sends is read by the other.
AgreeAlike(x) ==
  LET s == x.sender
      r == x.receiver
  IN  s.agreed =>
        /\ CheckIn(s) = CheckIn(r) /\ s.attributes = r.attributes /\ (s.long = None) = (r.long = None)
        /\ \A field \in {"quoteControl", "quoteEighth", "repeat"} : s.sending[field] = r.reading[field]

\* What was sent is what is read, whatever was on the line with it: the
\* settings and the file's name, bytes and attributes, whole and in order.
ReadAsSent(x) ==
  /\ Len(x.heard) <= Len(x.sent)
  /\ \A i \in DOMAIN x.heard :
       x.heard[i] = x.sent[i]
  /\ x.line # <<>> \/ x.trouble = "spoilt" \/ AllHeard(x)

\* A packet is no longer than its reader takes, and where the eighth bit can be
\* announced all of it is printable.
GoesOnLine(x) ==
  LET r == x.receiver
      p == x.sender.sending
      chars == Len(x.last) - p.padding - 1
  IN  Len(x.sent) > 1 =>
        /\ IF x.sender.long # None THEN chars <= LongOf(r.ours) ELSE chars <= r.ours.maxLength + 2
        /\ p.quoteEighth # None =>
             \A i \in p.padding + 2 .. Len(x.last) - 1 : x.last[i] \in 32 .. 126

\* A name from the other end is that of a plain file in the folder, as are its
\* copies', each another's.
NameIsSafe(sent) ==
  \A names \in {"converted", "as sent"} :
    \A name \in {LocalName(sent, names)} \ {<<>>} : \A copy \in {FreeName({name}, name)} :
      /\ copy # name
      /\ \A n \in {name, copy} :
           /\ \A i \in DOMAIN n : n[i] \notin SEPARATORS \cup UNUSABLE
           /\ n[Len(n)] \notin {DOT, 32}
           /\ Uppered(Stem(n)) \notin Reserved

\* Whatever both ends' settings, the file and the line, with one thing going wrong.
PacketsSound ==
  exchange # Asleep =>
    /\ AgreeAlike(exchange)
    /\ ReadAsSent(exchange)
    /\ GoesOnLine(exchange)
    /\ NameIsSafe(exchange.name)
============================================================================
