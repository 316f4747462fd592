-------------------------- MODULE TelnetOptionsProofs --------------------------
(***************************************************************************)
(* The two ends of a Telnet connection agree on every option, whichever    *)
(* asked first and however the requests cross.  Of each option at either   *)
(* end there are only so many ways it can stand: what each end believes,   *)
(* what it waits for, and the words about it that are on their way.        *)
(***************************************************************************)
EXTENDS TelnetOptions, Inductions

Verbs == {"DO", "DONT", "WILL", "WONT"}
Chars == {"x", "cr", "lf", "nul"}
Orders == Verbs \X Names
Texts == Seq({"CHAR"} \X Chars)
Written == ({"CHAR"} \X Chars) \cup ({"LINE", "BREAK"} \X Nat)
Sent == Orders \cup Written \cup ({"SIZE", "NAME"} \X Nat)
Told == Orders \cup ({"CHAR"} \X Chars) \cup {<<"SEND", "TTYPE">>}

OptionTypes ==
  [us : [Names -> BOOLEAN], them : [Names -> BOOLEAN], usPending : [Names -> BOOLEAN],
   themPending : [Names -> BOOLEAN], size : Nat, port : Nat]
ServerTypes ==
  [us : [Names -> BOOLEAN], them : [Names -> BOOLEAN], usAsked : [Names -> BOOLEAN],
   themAsked : [Names -> BOOLEAN], requests : Nat, size : Nat, line : Nat,
   heard : Seq(Chars \cup {"newline"}), afterCr : BOOLEAN, unasked : BOOLEAN]
Decoded == [o : OptionTypes, afterCr : BOOLEAN, out : Seq(Chars), replies : Seq(Sent)]

TypeOK ==
  /\ course \in Courses /\ options \in OptionTypes /\ server \in ServerTypes
  /\ afterCr \in BOOLEAN /\ shown \in Seq(Chars) /\ reading \in Seq(Sent)
  /\ writing \in Seq(Written) /\ toServer \in Seq(Sent) /\ toClient \in Seq(Told)

-----------------------------------------------------------------------------
(* The words on their way about an option: yes or no, in order. *)

Yes == <<"yes">>
No == <<"no">>
NoYes == <<"no", "yes">>
YesNo == <<"yes", "no">>
YesYes == <<"yes", "yes">>
YesYesNo == <<"yes", "yes", "no">>

WordOf(item, yes, no, x) ==
  IF item[1] = yes /\ item[2] = x THEN Yes
  ELSE IF item[1] = no /\ item[2] = x THEN No ELSE <<>>

Words(s, yes, no, x) ==
  LET upto[n \in 0 .. Len(s)] ==
        IF n = 0 THEN <<>> ELSE upto[n - 1] \o WordOf(s[n], yes, no, x)
  IN  upto[Len(s)]

\* What is said in a sequence of an option: that it is on, and that it should be.
Wills(s, x) == Words(s, "WILL", "WONT", x)
Does(s, x) == Words(s, "DO", "DONT", x)

Join(c, d) == c \o d

\* How an option at one end may stand: what this program believes of it, u,
\* and whether it waits for an answer, p; the same of the server, t and a;
\* the words on their way to the server, c, and from it, d.  A server that
\* asks for a stop stops its own option at once, and believes the other still
\* on until it is told: `side` is whose option it is to
\* the server, as in Sides.
Standing(side, u, p, t, a, c, d) ==
  \/ c = <<>> /\ d = <<>> /\ (u <=> t) /\ ~p /\ ~a
  \/ c = <<>> /\ d = No /\ ~u /\ ~t /\ ~a
  \/ c = <<>> /\ d = No /\ u /\ ~p /\ (t <=> side = "them") /\ a
  \/ c = <<>> /\ d = NoYes /\ ~u /\ ~t /\ a
  \/ c = <<>> /\ d = Yes /\ ~u /\ ~p /\ ~t /\ a
  \/ c = <<>> /\ d = Yes /\ (u <=> ~p) /\ t /\ ~a
  \/ c = <<>> /\ d = YesNo /\ (u <=> ~p) /\ (t <=> side = "them") /\ a
  \/ c = <<>> /\ d = YesYes /\ ~u /\ p /\ t /\ ~a
  \/ c = <<>> /\ d = YesYesNo /\ ~u /\ p /\ (t <=> side = "them") /\ a
  \/ c = No /\ d = <<>> /\ ~u /\ ~p /\ (t => side = "them") /\ a
  \/ c = Yes /\ d = <<>> /\ (u <=> ~p) /\ ~t /\ (a <=> u)
  \/ c = Yes /\ d = Yes /\ ~u /\ p /\ ~t /\ a

\* What is on its way to the server about the size of the page: no size before
\* the server is told that the option is on, or after it is told that it is not.
NawsWord(i) == WordOf(i, "WILL", "WONT", "NAWS")
NawsWords(C) == Wills(C, "NAWS")

Orderly(C) ==
  \A i, j \in 1 .. Len(C) :
     C[i][1] = "SIZE" =>
        /\ NawsWord(C[j]) = Yes => j < i
        /\ NawsWord(C[j]) = No => i < j

HasSize(C) == \E i \in 1 .. Len(C) : C[i][1] = "SIZE"

\* The last size told is that of the page.
LastSize(C, v, size) ==
  \/ \E i \in 1 .. Len(C) :
        C[i] = <<"SIZE", size>> /\ \A j \in 1 .. Len(C) : C[j][1] = "SIZE" => j <= i
  \/ ~HasSize(C) /\ v.size = size

SizesInOrder(o, C, v) ==
  /\ Orderly(C)
  /\ HasSize(C) => IF NawsWords(C) = Yes THEN v.themAsked["NAWS"] ELSE v.them["NAWS"]
  /\ o.us["NAWS"] => LastSize(C, v, o.size)

Ours(o, C, D, v, x) ==
  /\ o.us[x] \/ o.usPending[x] => LocalSupported(o, x)
  /\ Standing("them", o.us[x], o.usPending[x], v.them[x], v.themAsked[x],
              Wills(C, x), Does(D, x))
Its(o, C, D, v, x) ==
  /\ o.them[x] \/ o.themPending[x] => RemoteSupported(x)
  /\ Standing("us", o.them[x], o.themPending[x], v.us[x], v.usAsked[x],
              Does(C, x), Wills(D, x))

\* The options `o` and the server `v`, with C on its way to it and D from it.
InTouch(o, C, D, v) ==
  /\ \A x \in Names : Ours(o, C, D, v, x) /\ Its(o, C, D, v, x)
  /\ SizesInOrder(o, C, v)

IInv ==
  /\ TypeOK /\ NothingUnagreed
  /\ InTouch(options, toServer \o reading, toClient, server)

-----------------------------------------------------------------------------
(* Words. *)

Items == Sent \cup Told
Answers == {"yes", "no"}

\* Sequences as long, with the same in each place.
LEMMA SamePlaces ==
  ASSUME NEW A, NEW u \in Seq(A), NEW v \in Seq(A), Len(u) = Len(v),
         \A k \in 1 .. Len(v) : u[k] = v[k]
  PROVE  u = v
OBVIOUS

LEMMA WordTypes ==
  ASSUME NEW item, NEW yes, NEW no, NEW x
  PROVE  /\ WordOf(item, yes, no, x) \in Seq(Answers)
         /\ WordOf(item, yes, no, x) \in {<<>>, Yes, No}
<1>1. WordOf(item, yes, no, x) \in {<<>>, Yes, No}
  BY DEF WordOf
<1>2. <<>> \in Seq(Answers) /\ Yes \in Seq(Answers) /\ No \in Seq(Answers)
  BY DEF Answers, Yes, No
<1> QED
  BY <1>1, <1>2

LEMMA Regrouped ==
  \A u, v, w \in Seq(Answers) : (u \o v) \o w = u \o (v \o w) /\ u \o v \in Seq(Answers)
BY ConcatAssociative, ConcatProperties, SMTT(30)

\* The words of nothing, and of one thing more.
LEMMA WordSteps ==
  ASSUME NEW yes, NEW no, NEW x
  PROVE  /\ Words(<<>>, yes, no, x) = <<>>
         /\ \A s \in Seq(Items), i \in Items :
               Words(Append(s, i), yes, no, x) = Words(s, yes, no, x) \o WordOf(i, yes, no, x)
         /\ \A s \in Seq(Items) : Words(s, yes, no, x) \in Seq(Answers)
<1> DEFINE X == Seq(Answers)
           base == <<>>
           W(i) == WordOf(i, yes, no, x)
           Is(f, s) == f = [n \in 0 .. Len(s) |-> IF n = 0 THEN base ELSE f[n - 1] \o W(s[n])]
<1>1. base \in X
  OBVIOUS
<1>2. \A w \in X, i \in Items : w \o W(i) \in X
  BY WordTypes, ConcatProperties
<1>3. ASSUME NEW s \in Seq(Items)
      PROVE  \E f : Is(f, s) /\ f \in [0 .. Len(s) -> X]
  <2> DEFINE Step == [n \in 1 .. Len(s) |-> [w \in X |-> w \o W(s[n])]]
  <2>0. Len(s) \in Nat
    OBVIOUS
  <2>1. Len(s) \in Nat /\ \A n \in 1 .. Len(s) : s[n] \in Items
    OBVIOUS
  <2> HIDE DEF X, base, W
  <2>2. Step \in [1 .. Len(s) -> [X -> X]]
    BY <1>2, <2>1
  <2>3. PICK f \in [0 .. Len(s) -> X] :
                f[0] = base /\ \A n \in 1 .. Len(s) : f[n] = Step[n][f[n - 1]]
    <3> DEFINE len == Len(s)
    <3>1. base \in X /\ len \in Nat /\ Step \in [1 .. len -> [X -> X]]
      BY <1>1, <2>0, <2>2
    <3> HIDE DEF Step, len
    <3>2. \E f \in [0 .. len -> X] : f[0] = base /\ \A n \in 1 .. len : f[n] = Step[n][f[n - 1]]
      BY <3>1, Runs
    <3> QED
      BY <3>2 DEF len
  <2>4. ASSUME NEW n \in 1 .. Len(s) PROVE f[n] = f[n - 1] \o W(s[n])
    <3>1. n - 1 \in 0 .. Len(s) /\ f[n - 1] \in X
      BY <2>1, <2>3
    <3> QED
      BY <2>3, <3>1
  <2>5. Is(f, s)
    <3>1. f = [n \in 0 .. Len(s) |-> f[n]]
      BY <2>3
    <3>2. \A n \in 0 .. Len(s) : n = 0 \/ n \in 1 .. Len(s)
      BY <2>1
    <3>3. \A n \in 0 .. Len(s) : f[n] = IF n = 0 THEN base ELSE f[n - 1] \o W(s[n])
      BY <2>3, <2>4, <3>2
    <3> QED
      BY <3>1, <3>3
  <2> QED
    BY <2>3, <2>5
<1> DEFINE The(s) == CHOOSE f : Is(f, s)
<1>4. ASSUME NEW s \in Seq(Items)
      PROVE  Words(s, yes, no, x) = The(s)[Len(s)] /\ Is(The(s), s)
  <2>1. Is(The(s), s)
    <3> HIDE DEF Is
    <3> QED
      BY <1>3
  <2> QED
    BY <2>1, Zenon DEF Words
<1>5. ASSUME NEW s \in Seq(Items), NEW f, Is(f, s)
      PROVE  f[0] = base /\ \A n \in 1 .. Len(s) : f[n] = f[n - 1] \o W(s[n])
  BY <1>5
<1> HIDE DEF Is, The, W
<1>6. Words(<<>>, yes, no, x) = <<>>
  BY <1>4, <1>5, EmptySeq
<1>7. ASSUME NEW s \in Seq(Items), NEW i \in Items
      PROVE  Words(Append(s, i), yes, no, x) = Words(s, yes, no, x) \o W(i)
  <2> DEFINE t == Append(s, i)
             f == The(s)
             g == The(t)
  <2>1. t \in Seq(Items) /\ Len(t) = Len(s) + 1 /\ Len(s) \in Nat /\ t[Len(s) + 1] = i
        /\ \A n \in 1 .. Len(s) : t[n] = s[n]
    OBVIOUS
  <2>2. /\ f[0] = <<>> /\ \A n \in 1 .. Len(s) : f[n] = f[n - 1] \o W(s[n])
        /\ g[0] = <<>> /\ \A n \in 1 .. Len(t) : g[n] = g[n - 1] \o W(t[n])
    BY <1>4, <1>5, <2>1
  <2> HIDE DEF f, g, t
  <2> DEFINE T == {n \in Nat : n <= Len(s) => f[n] = g[n]}
  <2>3. 0 \in T
    BY <2>2
  <2>4. ASSUME NEW n \in Nat, n \in T PROVE n + 1 \in T
    <3> SUFFICES ASSUME n + 1 <= Len(s) PROVE f[n + 1] = g[n + 1]
      OBVIOUS
    <3>1. n + 1 \in 1 .. Len(s) /\ n + 1 \in 1 .. Len(t) /\ (n + 1) - 1 = n /\ f[n] = g[n]
      BY <2>1, <2>4
    <3> QED
      BY <2>1, <2>2, <3>1
  <2> HIDE DEF T
  <2>5. Nat \subseteq T
    BY <2>3, <2>4, NumbersUpTo
  <2>6. f[Len(s)] = g[Len(s)]
    BY <2>1, <2>5 DEF T
  <2>7. g[Len(t)] = g[Len(s)] \o W(i)
    <3>1. Len(t) \in 1 .. Len(t) /\ Len(t) - 1 = Len(s)
      BY <2>1
    <3> QED
      BY <2>1, <2>2, <3>1
  <2> QED
    BY <1>4, <2>1, <2>6, <2>7 DEF f, g, t
<1> DEFINE T == {s \in Seq(Items) : Words(s, yes, no, x) \in X}
<1>8. <<>> \in T /\ \A s \in Seq(Items), i \in Items : s \in T => Append(s, i) \in T
  <2>1. \A s \in Seq(Items), i \in Items : Append(s, i) \in Seq(Items)
    OBVIOUS
  <2> HIDE DEF X
  <2> QED
    BY <1>1, <1>2, <1>6, <1>7, <2>1, EmptySeq
<1>9. Seq(Items) \subseteq T
  <2> HIDE DEF T
  <2> QED
    BY <1>8, SequencesUpTo
<1> QED
  BY <1>6, <1>7, <1>9 DEF W

\* The words of two sequences one after the other.
LEMMA WordsJoin ==
  ASSUME NEW s \in Seq(Items), NEW t \in Seq(Items), NEW yes, NEW no, NEW x
  PROVE  Words(s \o t, yes, no, x) = Words(s, yes, no, x) \o Words(t, yes, no, x)
<1> DEFINE W(u) == Words(u, yes, no, x)
           T == {u \in Seq(Items) : W(s \o u) = W(s) \o W(u)}
<1>1. /\ W(<<>>) = <<>>
      /\ \A u \in Seq(Items), i \in Items : W(Append(u, i)) = W(u) \o WordOf(i, yes, no, x)
      /\ \A u \in Seq(Items) : W(u) \in Seq(Answers)
  BY WordSteps
<1>2. \A i : WordOf(i, yes, no, x) \in Seq(Answers)
  BY WordTypes
<1> HIDE DEF W
<1>3. <<>> \in T
  BY <1>1, ConcatEmptySeq, EmptySeq
<1>4. ASSUME NEW u \in Seq(Items), NEW i \in Items, u \in T PROVE Append(u, i) \in T
  <2> DEFINE w == WordOf(i, yes, no, x)
  <2>0. w \in Seq(Answers)
    BY <1>2
  <2>1. s \o u \in Seq(Items) /\ Append(u, i) \in Seq(Items) /\ s \o Append(u, i) = Append(s \o u, i)
    OBVIOUS
  <2>2. W(s \o Append(u, i)) = (W(s) \o W(u)) \o w
    BY <1>1, <1>4, <2>1
  <2>3. (W(s) \o W(u)) \o w = W(s) \o (W(u) \o w)
    <3>1. W(s) \in Seq(Answers) /\ W(u) \in Seq(Answers)
      BY <1>1
    <3> DEFINE a == W(s)
               b == W(u)
    <3> HIDE DEF a, b, w
    <3>2. (a \o b) \o w = a \o (b \o w)
      <4>1. a \in Seq(Answers) /\ b \in Seq(Answers) /\ w \in Seq(Answers)
        BY <2>0, <3>1 DEF a, b
      <4> QED
        BY <4>1, Regrouped, ZenonT(60)
    <3> QED
      BY <3>2 DEF a, b
  <2> QED
    BY <1>1, <2>1, <2>2, <2>3
<1> HIDE DEF T
<1>5. Seq(Items) \subseteq T
  BY <1>3, <1>4, SequencesUpTo
<1> QED
  BY <1>5 DEF T, W

\* The words of one thing, and of what has a first.
LEMMA WordsFirst ==
  ASSUME NEW t \in Seq(Items), t # <<>>, NEW yes, NEW no, NEW x
  PROVE  Words(t, yes, no, x) = WordOf(Head(t), yes, no, x) \o Words(Tail(t), yes, no, x)
<1> DEFINE i == Head(t)
           s == Tail(t)
           one == <<i>>
<1>0. i \in Items /\ s \in Seq(Items) /\ t = <<i>> \o s
  <2>1. i \in Items /\ s \in Seq(Items) /\ Len(s) = Len(t) - 1 /\ Len(t) \in Nat \ {0}
        /\ i = t[1] /\ \A k \in 1 .. Len(s) : s[k] = t[k + 1]
    OBVIOUS
  <2> HIDE DEF i, s
  <2>2. /\ <<i>> \o s \in Seq(Items) /\ Len(<<i>> \o s) = Len(t) /\ (<<i>> \o s)[1] = i
        /\ \A k \in 1 .. Len(s) : (<<i>> \o s)[k + 1] = s[k]
    BY <2>1
  <2>3. \A k \in 1 .. Len(t) : k = 1 \/ (k - 1 \in 1 .. Len(s) /\ (k - 1) + 1 = k)
    BY <2>1
  <2>4. \A k \in 1 .. Len(t) : (<<i>> \o s)[k] = t[k]
    BY <2>1, <2>2, <2>3
  <2> QED
    BY <2>1, <2>2, <2>4, SamePlaces
<1> HIDE DEF i, s
<1>1. one \in Seq(Items) /\ one = Append(<<>>, i) /\ <<>> \in Seq(Items)
  <2>1. i \in Items
    BY <1>0
  <2> QED
    BY <2>1
<1>2. Words(Append(<<>>, i), yes, no, x) = Words(<<>>, yes, no, x) \o WordOf(i, yes, no, x)
  <2> DEFINE none == <<>>
  <2>1. none \in Seq(Items) /\ i \in Items
    BY <1>0
  <2> HIDE DEF none
  <2>2. Words(Append(none, i), yes, no, x) = Words(none, yes, no, x) \o WordOf(i, yes, no, x)
    BY <2>1, WordSteps
  <2> QED
    BY <2>2 DEF none
<1>3. Words(one, yes, no, x) = <<>> \o WordOf(i, yes, no, x)
  BY <1>1, <1>2, WordSteps
<1>4. <<>> \o WordOf(i, yes, no, x) = WordOf(i, yes, no, x)
  BY WordTypes, ConcatEmptySeq
<1>5. t = one \o s
  BY <1>0
<1> HIDE DEF one
<1>6. one \in Seq(Items)
  BY <1>1
<1>7. Words(one \o s, yes, no, x) = Words(one, yes, no, x) \o Words(s, yes, no, x)
  BY <1>0, <1>6, WordsJoin
<1> QED
  BY <1>3, <1>4, <1>5, <1>7 DEF i, s

\* What is in the words is in the sequence, and the other way round.
LEMMA WordsAmong ==
  ASSUME NEW s \in Seq(Items), NEW yes, NEW no, NEW x
  PROVE  /\ \A j \in 1 .. Len(s) : \A b : WordOf(s[j], yes, no, x) = <<b>> =>
               \E k \in 1 .. Len(Words(s, yes, no, x)) : Words(s, yes, no, x)[k] = b
         /\ (\A j \in 1 .. Len(s) : WordOf(s[j], yes, no, x) = <<>>) => Words(s, yes, no, x) = <<>>
<1> DEFINE W(u) == Words(u, yes, no, x)
           V(i) == WordOf(i, yes, no, x)
           T == {u \in Seq(Items) :
                   /\ \A j \in 1 .. Len(u) : \A b : V(u[j]) = <<b>> =>
                         \E k \in 1 .. Len(W(u)) : W(u)[k] = b
                   /\ (\A j \in 1 .. Len(u) : V(u[j]) = <<>>) => W(u) = <<>>}
<1>1. /\ W(<<>>) = <<>>
      /\ \A u \in Seq(Items), i \in Items : W(Append(u, i)) = W(u) \o V(i)
      /\ \A u \in Seq(Items) : W(u) \in Seq(Answers)
  BY WordSteps
<1>2. \A i : V(i) \in Seq(Answers)
  BY WordTypes
<1> HIDE DEF W, V
<1>3. <<>> \in T
  BY <1>1
<1>4. ASSUME NEW u \in Seq(Items), NEW i \in Items, u \in T PROVE Append(u, i) \in T
  <2> DEFINE t == Append(u, i)
  <2>1. /\ t \in Seq(Items) /\ Len(t) = Len(u) + 1 /\ t[Len(t)] = i
        /\ \A j \in 1 .. Len(u) : t[j] = u[j] /\ j \in 1 .. Len(t)
        /\ \A j \in 1 .. Len(t) : j = Len(t) \/ j \in 1 .. Len(u)
        /\ Len(t) \in 1 .. Len(t)
    OBVIOUS
  <2>2. W(t) = W(u) \o V(i) /\ W(u) \in Seq(Answers) /\ V(i) \in Seq(Answers)
    BY <1>1, <1>2
  <2> HIDE DEF t
  <2>3. /\ Len(W(t)) = Len(W(u)) + Len(V(i)) /\ Len(W(u)) \in Nat /\ Len(V(i)) \in Nat
        /\ \A k \in 1 .. Len(W(u)) : W(t)[k] = W(u)[k] /\ k \in 1 .. Len(W(t))
        /\ \A k \in 1 .. Len(V(i)) : W(t)[Len(W(u)) + k] = V(i)[k] /\ Len(W(u)) + k \in 1 .. Len(W(t))
    BY <2>2
  <2>4. ASSUME NEW j \in 1 .. Len(t), NEW b, V(t[j]) = <<b>>
        PROVE  \E k \in 1 .. Len(W(t)) : W(t)[k] = b
    <3>1. CASE j \in 1 .. Len(u)
      <4>1. PICK k \in 1 .. Len(W(u)) : W(u)[k] = b
        BY <1>4, <2>1, <2>4, <3>1
      <4> QED
        BY <2>3, <4>1
    <3>2. CASE j = Len(t)
      <4>1. V(i) = <<b>> /\ 1 \in 1 .. Len(V(i)) /\ V(i)[1] = b
        BY <2>1, <2>4, <3>2
      <4> QED
        BY <2>3, <4>1
    <3> QED
      BY <2>1, <3>1, <3>2
  <2>5. ASSUME \A j \in 1 .. Len(t) : V(t[j]) = <<>> PROVE W(t) = <<>>
    <3>1. V(i) = <<>> /\ W(u) = <<>>
      BY <1>4, <2>1, <2>5
    <3> QED
      BY <2>2, <3>1, ConcatEmptySeq, EmptySeq
  <2> QED
    BY <2>1, <2>4, <2>5 DEF t
<1> HIDE DEF T
<1>5. Seq(Items) \subseteq T
  BY <1>3, <1>4, SequencesUpTo
<1> QED
  BY <1>5 DEF T, W, V

-----------------------------------------------------------------------------
(* How an option stands, and what each thing that happens to it makes of that. *)

LEMMA WordsApart ==
  /\ <<>> # Yes /\ <<>> # No /\ <<>> # NoYes /\ <<>> # YesNo /\ <<>> # YesYes /\ <<>> # YesYesNo
  /\ Yes # No /\ Yes # NoYes /\ Yes # YesNo /\ Yes # YesYes /\ Yes # YesYesNo
  /\ No # NoYes /\ No # YesNo /\ No # YesYes /\ No # YesYesNo
  /\ NoYes # YesNo /\ NoYes # YesYes /\ NoYes # YesYesNo
  /\ YesNo # YesYes /\ YesNo # YesYesNo /\ YesYes # YesYesNo
BY DEF Yes, No, NoYes, YesNo, YesYes, YesYesNo

LEMMA WordsIn ==
  /\ <<>> \in Seq(Answers) /\ Yes \in Seq(Answers) /\ No \in Seq(Answers)
  /\ NoYes \in Seq(Answers) /\ YesNo \in Seq(Answers) /\ YesYes \in Seq(Answers)
  /\ YesYesNo \in Seq(Answers)
BY DEF Answers, Yes, No, NoYes, YesNo, YesYes, YesYesNo

\* The words with a first, and what one of them is with another after it.
LEMMA FirstWord ==
  ASSUME NEW w \in Seq(Answers)
  PROVE  /\ Yes \o w # <<>> /\ Yes \o w # No /\ Yes \o w # NoYes
         /\ Yes \o w = Yes => w = <<>>
         /\ Yes \o w = YesNo => w = No
         /\ Yes \o w = YesYes => w = Yes
         /\ Yes \o w = YesYesNo => w = YesNo
         /\ No \o w # <<>> /\ No \o w # Yes /\ No \o w # YesNo /\ No \o w # YesYes
         /\ No \o w # YesYesNo
         /\ No \o w = No => w = <<>>
         /\ No \o w = NoYes => w = Yes
<1>1. \A b \in Answers : Head(<<b>> \o w) = b /\ Tail(<<b>> \o w) = w /\ <<b>> \o w # <<>>
  OBVIOUS
<1>2. "yes" \in Answers /\ "no" \in Answers /\ "yes" # "no"
  BY DEF Answers
<1>3. /\ Head(Yes \o w) = "yes" /\ Tail(Yes \o w) = w /\ Yes \o w # <<>>
      /\ Head(No \o w) = "no" /\ Tail(No \o w) = w /\ No \o w # <<>>
  BY <1>1, <1>2 DEF Yes, No
<1>4. /\ Head(Yes) = "yes" /\ Tail(Yes) = <<>> /\ Head(No) = "no" /\ Tail(No) = <<>>
  BY DEF Yes, No
<1>5. /\ Head(NoYes) = "no" /\ Tail(NoYes) = Yes
      /\ Head(YesNo) = "yes" /\ Tail(YesNo) = No
      /\ Head(YesYes) = "yes" /\ Tail(YesYes) = Yes
      /\ Head(YesYesNo) = "yes" /\ Tail(YesYesNo) = YesNo
  BY DEF Yes, No, NoYes, YesNo, YesYes, YesYesNo
<1> DEFINE y == Yes \o w
           n == No \o w
<1> HIDE DEF y, n
<1>6. /\ Head(y) = "yes" /\ Tail(y) = w /\ y # <<>> /\ Head(n) = "no" /\ Tail(n) = w /\ n # <<>>
  BY <1>3 DEF y, n
<1>7. /\ y # <<>> /\ y # No /\ y # NoYes /\ (y = Yes => w = <<>>) /\ (y = YesNo => w = No)
      /\ (y = YesYes => w = Yes) /\ (y = YesYesNo => w = YesNo)
  BY <1>2, <1>4, <1>5, <1>6, Zenon
<1>8. /\ n # <<>> /\ n # Yes /\ n # YesNo /\ n # YesYes /\ n # YesYesNo
      /\ (n = No => w = <<>>) /\ (n = NoYes => w = Yes)
  BY <1>2, <1>4, <1>5, <1>6, Zenon
<1> QED
  BY <1>7, <1>8 DEF y, n

\* Two and three put together.
LEMMA Pairs ==
  ASSUME NEW S, NEW a \in S, NEW b \in S
  PROVE  <<a>> \o <<b>> = <<a, b>>
<1> DEFINE u == <<a>> \o <<b>>
           v == <<a, b>>
<1>1. u \in Seq(S) /\ Len(u) = 2 /\ u[1] = a /\ u[2] = b
  OBVIOUS
<1>2. v \in Seq(S) /\ Len(v) = 2 /\ v[1] = a /\ v[2] = b
  OBVIOUS
<1> HIDE DEF u, v
<1>3. u = v
  BY <1>1, <1>2
<1> QED
  BY <1>3 DEF u, v

LEMMA ThirdAfterTwo ==
  ASSUME NEW S, NEW q \in Seq(S), NEW c \in S, Len(q) = 2
  PROVE  /\ q \o <<c>> \in Seq(S) /\ Len(q \o <<c>>) = 3
         /\ (q \o <<c>>)[1] = q[1] /\ (q \o <<c>>)[2] = q[2] /\ (q \o <<c>>)[3] = c
<1>1. <<c>> \in Seq(S) /\ Len(<<c>>) = 1 /\ <<c>>[1] = c
  OBVIOUS
<1> DEFINE t == <<c>>
<1> HIDE DEF t
<1>2. t \in Seq(S) /\ Len(t) = 1 /\ t[1] = c
  BY <1>1 DEF t
<1>3. /\ q \o t \in Seq(S) /\ Len(q \o t) = Len(q) + Len(t)
      /\ \A i \in 1 .. Len(q) + Len(t) : (q \o t)[i] = IF i <= Len(q) THEN q[i] ELSE t[i - Len(q)]
  BY <1>2, ConcatProperties
<1>4. /\ q \o t \in Seq(S) /\ Len(q \o t) = 3
      /\ (q \o t)[1] = q[1] /\ (q \o t)[2] = q[2] /\ (q \o t)[3] = t[3 - 2]
  BY <1>2, <1>3
<1> QED
  BY <1>2, <1>4 DEF t

LEMMA Triples ==
  ASSUME NEW S, NEW a \in S, NEW b \in S, NEW c \in S
  PROVE  <<a, b>> \o <<c>> = <<a, b, c>>
<1> DEFINE p == <<a, b>>
           u == p \o <<c>>
           v == <<a, b, c>>
<1>1. p \in Seq(S) /\ Len(p) = 2 /\ p[1] = a /\ p[2] = b
  OBVIOUS
<1>2. v \in Seq(S) /\ Len(v) = 3 /\ v[1] = a /\ v[2] = b /\ v[3] = c
  OBVIOUS
<1> HIDE DEF p
<1>3. u \in Seq(S) /\ Len(u) = 3 /\ u[1] = a /\ u[2] = b /\ u[3] = c
  BY <1>1, ThirdAfterTwo
<1> HIDE DEF u, v
<1>4. u = v
  BY <1>2, <1>3
<1> QED
  BY <1>4 DEF p, u, v

LEMMA LastWord ==
  /\ <<>> \o Yes = Yes /\ <<>> \o No = No
  /\ No \o Yes = NoYes /\ Yes \o No = YesNo /\ Yes \o Yes = YesYes /\ YesYes \o No = YesYesNo
  /\ \A w \in Seq(Answers) : w \o <<>> = w /\ <<>> \o w = w
<1>1. "yes" \in Answers /\ "no" \in Answers
  BY DEF Answers
<1>2. No \o Yes = NoYes
  BY <1>1, Pairs DEF Yes, No, NoYes
<1>3. Yes \o No = YesNo
  BY <1>1, Pairs DEF Yes, No, YesNo
<1>4. Yes \o Yes = YesYes
  BY <1>1, Pairs DEF Yes, YesYes
<1>5. YesYes \o No = YesYesNo
  BY <1>1, Triples DEF No, YesYes, YesYesNo
<1>6. \A w \in Seq(Answers) : w \o <<>> = w /\ <<>> \o w = w
  BY ConcatEmptySeq
<1> QED
  BY <1>2, <1>3, <1>4, <1>5, <1>6, WordsIn

\* This program is asked for what it has no part in.
LEMMA Refusing ==
  ASSUME NEW side, NEW u \in BOOLEAN, NEW p \in BOOLEAN, NEW t \in BOOLEAN,
         NEW a \in BOOLEAN, NEW c \in Seq(Answers), NEW d \in Seq(Answers), ~u, ~p,
         Standing(side, u, p, t, a, c, Join(Yes, d))
  PROVE  Standing(side, u, p, t, a, Join(c, No), d)
BY FirstWord, LastWord, WordsApart DEF Standing, Join

-----------------------------------------------------------------------------
(* Sizes. *)

Then(C, i) == Append(C, i)

\* What is told of one thing by another put after it.
LEMMA Longer ==
  ASSUME NEW C \in Seq(Sent), NEW i \in Sent
  PROVE  /\ Append(C, i) \in Seq(Sent) /\ Len(Append(C, i)) = Len(C) + 1 /\ Len(C) \in Nat
         /\ Append(C, i)[Len(C) + 1] = i
         /\ \A k \in 1 .. Len(C) : Append(C, i)[k] = C[k] /\ C[k] \in Sent
         /\ \A k \in 1 .. Len(C) + 1 : k = Len(C) + 1 \/ k \in 1 .. Len(C)
OBVIOUS

\* Told is a name for what is sent too, as far as words go.
LEMMA WordsOn ==
  ASSUME NEW C \in Seq(Sent), NEW i \in Sent, NEW yes, NEW no, NEW x
  PROVE  /\ Words(Append(C, i), yes, no, x) = Words(C, yes, no, x) \o WordOf(i, yes, no, x)
         /\ Words(C, yes, no, x) \in Seq(Answers)
<1>1. C \in Seq(Items) /\ i \in Items
  BY DEF Items
<1> QED
  BY <1>1, WordSteps

LEMMA NawsOn ==
  \A C \in Seq(Sent), i \in Sent :
     /\ NawsWords(Append(C, i)) = NawsWords(C) \o NawsWord(i)
     /\ NawsWords(C) \in Seq(Answers)
BY WordsOn DEF NawsWords, NawsWord, Wills

LEMMA NawsStays ==
  ASSUME NEW C \in Seq(Sent), NEW i \in Sent, NawsWord(i) = <<>>
  PROVE  NawsWords(Append(C, i)) = NawsWords(C)
<1>1. NawsWords(Append(C, i)) = NawsWords(C) \o NawsWord(i) /\ NawsWords(C) \in Seq(Answers)
  BY NawsOn
<1> DEFINE w == NawsWords(C)
<1>2. w \o <<>> = w
  <2>1. w \in Seq(Answers)
    BY <1>1
  <2> HIDE DEF w
  <2> QED
    BY <2>1, ConcatEmptySeq
<1> QED
  BY <1>1, <1>2

\* Something that is neither a size nor a word about sizes.
LEMMA NoSizeAppended ==
  ASSUME NEW C \in Seq(Sent), NEW i \in Sent, i[1] # "SIZE", NawsWord(i) = <<>>,
         NEW o \in OptionTypes, NEW v \in ServerTypes, SizesInOrder(o, C, v)
  PROVE  SizesInOrder(o, Then(C, i), v)
<1> DEFINE E == Append(C, i)
<1>1. /\ E \in Seq(Sent) /\ Len(E) = Len(C) + 1 /\ Len(C) \in Nat /\ E[Len(C) + 1] = i
      /\ \A k \in 1 .. Len(C) : E[k] = C[k]
      /\ \A k \in 1 .. Len(C) + 1 : k = Len(C) + 1 \/ k \in 1 .. Len(C)
  BY Longer
<1>2. NawsWords(E) = NawsWords(C)
  BY NawsStays
<1> HIDE DEF E
<1>3. <<>> # Yes /\ <<>> # No
  BY WordsApart
<1>4. Orderly(E)
  BY <1>1, <1>3 DEF Orderly, SizesInOrder
<1>5. HasSize(E) <=> HasSize(C)
  BY <1>1 DEF HasSize
<1>6. LastSize(C, v, o.size) => LastSize(E, v, o.size)
  <2>1. CASE \E k \in 1 .. Len(C) :
               C[k] = <<"SIZE", o.size>> /\ \A j \in 1 .. Len(C) : C[j][1] = "SIZE" => j <= k
    <3>1. PICK k \in 1 .. Len(C) :
                 C[k] = <<"SIZE", o.size>> /\ \A j \in 1 .. Len(C) : C[j][1] = "SIZE" => j <= k
      BY <2>1
    <3>2. k \in 1 .. Len(E) /\ E[k] = <<"SIZE", o.size>>
      BY <1>1, <3>1
    <3>3. \A j \in 1 .. Len(E) : E[j][1] = "SIZE" => j <= k
      BY <1>1, <3>1
    <3> QED
      BY <3>2, <3>3 DEF LastSize
  <2> QED
    BY <1>5, <2>1 DEF LastSize
<1> QED
  BY <1>2, <1>4, <1>5, <1>6 DEF SizesInOrder, E, Then

\* The size, once the server is told that the option is on, or knows.
LEMMA SizeAppended ==
  ASSUME NEW C \in Seq(Sent), NEW o \in OptionTypes, NEW v \in ServerTypes, Orderly(C),
         \/ NawsWords(C) = <<>> /\ v.them["NAWS"]
         \/ NawsWords(C) = Yes /\ v.themAsked["NAWS"]
  PROVE  SizesInOrder(o, Then(C, WindowSize(o)), v)
<1> DEFINE i == WindowSize(o)
           E == Append(C, i)
<1>1. i \in Sent /\ i[1] = "SIZE" /\ i = <<"SIZE", o.size>>
  BY DEF WindowSize, Sent, OptionTypes
<1>2. NawsWord(i) = <<>>
  BY <1>1 DEF NawsWord, WordOf
<1> HIDE DEF i
<1>3. /\ E \in Seq(Sent) /\ Len(E) = Len(C) + 1 /\ Len(C) \in Nat /\ E[Len(C) + 1] = i
      /\ \A k \in 1 .. Len(C) : E[k] = C[k]
      /\ \A k \in 1 .. Len(C) + 1 : k = Len(C) + 1 \/ k \in 1 .. Len(C)
  BY <1>1, Longer
<1>4. NawsWords(E) = NawsWords(C)
  BY <1>1, <1>2, NawsStays
<1> HIDE DEF E
<1>5. <<>> # Yes /\ <<>> # No
  BY WordsApart
<1>6. \A k \in 1 .. Len(C) : NawsWord(C[k]) # No
  <2> SUFFICES ASSUME NEW k \in 1 .. Len(C), NawsWord(C[k]) = No PROVE FALSE
    OBVIOUS
  <2>1. C \in Seq(Items)
    BY DEF Items
  <2>2. PICK n \in 1 .. Len(NawsWords(C)) : NawsWords(C)[n] = "no"
    BY <2>1, WordsAmong DEF NawsWord, NawsWords, No, Wills
  <2>3. NawsWords(C) = Yes
    BY <2>2
  <2>4. Len(Yes) = 1 /\ Yes[1] = "yes"
    BY DEF Yes
  <2>5. n = 1
    BY <2>2, <2>3, <2>4
  <2> QED
    BY <2>2, <2>3, <2>4, <2>5
<1>7. Orderly(E)
  BY <1>2, <1>3, <1>5, <1>6 DEF Orderly
<1>8. LastSize(E, v, o.size)
  BY <1>1, <1>3 DEF LastSize
<1> QED
  BY <1>4, <1>5, <1>7, <1>8 DEF SizesInOrder, E, i, Then

\* The word that the option is on, with no size before it.
LEMMA OnAppended ==
  ASSUME NEW C \in Seq(Sent), NEW i \in Sent, i[1] = "WILL", i[2] = "NAWS",
         ~HasSize(C), NawsWords(C) = <<>>
  PROVE  /\ Orderly(Then(C, i)) /\ ~HasSize(Then(C, i))
         /\ NawsWords(Then(C, i)) = Yes
         /\ Then(C, i) \in Seq(Sent)
<1> DEFINE E == Append(C, i)
<1>1. i \in Sent /\ i[1] = "WILL" /\ NawsWord(i) = Yes
  BY DEF NawsWord, WordOf
<1>2. /\ E \in Seq(Sent) /\ Len(E) = Len(C) + 1 /\ Len(C) \in Nat /\ E[Len(C) + 1] = i
      /\ \A k \in 1 .. Len(C) : E[k] = C[k]
      /\ \A k \in 1 .. Len(C) + 1 : k = Len(C) + 1 \/ k \in 1 .. Len(C)
  BY <1>1, Longer
<1>3. NawsWords(E) = Yes
  <2>1. NawsWords(E) = NawsWords(C) \o NawsWord(i)
    BY <1>1, NawsOn
  <2>2. NawsWords(C) \o NawsWord(i) = <<>> \o Yes
    BY <1>1
  <2> QED
    BY <2>1, <2>2, LastWord
<1> HIDE DEF E
<1>4. ~HasSize(E)
  BY <1>1, <1>2 DEF HasSize
<1>5. Orderly(E)
  BY <1>4 DEF Orderly, HasSize
<1> QED
  BY <1>2, <1>3, <1>4, <1>5 DEF E, Then

\* The word that it is off, once it was on.
LEMMA OffAppended ==
  ASSUME NEW C \in Seq(Sent), NEW i \in Sent, i[1] = "WONT", i[2] = "NAWS",
         NEW o \in OptionTypes, NEW v \in ServerTypes, ~o.us["NAWS"],
         Orderly(C), NawsWords(C) = <<>>, HasSize(C) => v.them["NAWS"]
  PROVE  SizesInOrder(o, Then(C, i), v)
<1> DEFINE E == Append(C, i)
<1>1. i \in Sent /\ i[1] = "WONT" /\ NawsWord(i) = No
  BY DEF NawsWord, WordOf
<1>2. /\ E \in Seq(Sent) /\ Len(E) = Len(C) + 1 /\ Len(C) \in Nat /\ E[Len(C) + 1] = i
      /\ \A k \in 1 .. Len(C) : E[k] = C[k]
      /\ \A k \in 1 .. Len(C) + 1 : k = Len(C) + 1 \/ k \in 1 .. Len(C)
  BY <1>1, Longer
<1>3. NawsWords(E) = No
  <2>1. NawsWords(E) = NawsWords(C) \o NawsWord(i)
    BY <1>1, NawsOn
  <2>2. NawsWords(C) \o NawsWord(i) = <<>> \o No
    BY <1>1
  <2> QED
    BY <2>1, <2>2, LastWord
<1> HIDE DEF E
<1>4. HasSize(E) <=> HasSize(C)
  BY <1>1, <1>2 DEF HasSize
<1>5. NawsWord(i) # Yes /\ No # Yes
  BY <1>1, WordsApart
<1>6. Orderly(E)
  <2> SUFFICES ASSUME NEW k \in 1 .. Len(E), NEW j \in 1 .. Len(E), E[k][1] = "SIZE"
               PROVE  /\ NawsWord(E[j]) = Yes => j < k
                      /\ NawsWord(E[j]) = No => k < j
    BY DEF Orderly
  <2>1. k \in 1 .. Len(C)
    BY <1>1, <1>2
  <2>2. CASE j = Len(C) + 1
    BY <1>2, <1>5, <2>1, <2>2
  <2>3. CASE j \in 1 .. Len(C)
    BY <1>2, <2>1, <2>3 DEF Orderly
  <2> QED
    BY <1>2, <2>2, <2>3
<1> QED
  BY <1>3, <1>4, <1>5, <1>6 DEF SizesInOrder, E, Then

-----------------------------------------------------------------------------
(* What is read and what is answered. *)

Added(C, i, b) == IF b THEN Then(C, i) ELSE C

\* Which words the orders are, and that nothing else is one.
LEMMA OrderWords ==
  ASSUME NEW i, NEW yes, NEW no, NEW y, yes # no
  PROVE  /\ i[1] = yes /\ i[2] = y => WordOf(i, yes, no, y) = Yes
         /\ i[1] = no /\ i[2] = y => WordOf(i, yes, no, y) = No
         /\ i[2] # y => WordOf(i, yes, no, y) = <<>>
         /\ i[1] # yes /\ i[1] # no => WordOf(i, yes, no, y) = <<>>
BY DEF WordOf

LEMMA OrdersSent ==
  ASSUME NEW verb \in Verbs, NEW x \in Names
  PROVE  <<verb, x>> \in Sent /\ <<verb, x>> \in Told /\ <<verb, x>>[1] = verb /\ <<verb, x>>[2] = x
BY DEF Sent, Told, Orders

LEMMA OthersSent ==
  ASSUME NEW o \in OptionTypes
  PROVE  /\ WindowSize(o) \in Sent /\ WindowSize(o)[1] \notin Verbs /\ WindowSize(o)[1] = "SIZE"
         /\ PortSettings(o) \in Sent /\ PortSettings(o)[1] \notin Verbs
         /\ PortSettings(o)[1] # "SIZE"
         /\ <<"NAME", 0>> \in Sent /\ <<"NAME", 0>>[1] \notin Verbs /\ <<"NAME", 0>>[1] # "SIZE"
BY DEF Sent, Written, WindowSize, PortSettings, OptionTypes, Verbs

LEMMA AddedTypes ==
  ASSUME NEW C \in Seq(Sent), NEW i \in Sent, NEW b \in BOOLEAN
  PROVE  Added(C, i, b) \in Seq(Sent)
BY DEF Added, Then

\* One answer, and three.
LEMMA AnswerAdded ==
  ASSUME NEW C \in Seq(Sent), NEW i \in Sent, NEW b \in BOOLEAN
  PROVE  C \o Only(i, b) = Added(C, i, b) /\ Only(i, b) \in Seq(Sent)
BY DEF Added, Only, Then

LEMMA SentRegrouped ==
  ASSUME NEW u \in Seq(Sent), NEW w \in Seq(Sent), NEW z \in Seq(Sent)
  PROVE  Join(Join(u, w), z) = Join(u, Join(w, z)) /\ Join(u, w) \in Seq(Sent)
BY ConcatAssociative, ConcatProperties, SMTT(30) DEF Join

LEMMA Strung ==
  ASSUME NEW Q \in Seq(Sent), NEW R \in Seq(Sent),
         NEW I \in Seq(Sent), NEW J \in Seq(Sent), NEW K \in Seq(Sent)
  PROVE  /\ Join(Q, Join(R, Join(Join(I, J), K))) = Join(Join(Join(Join(Q, R), I), J), K)
         /\ Join(Q, Join(R, I)) = Join(Join(Q, R), I)
         /\ Join(Q, R) \in Seq(Sent) /\ Join(Join(I, J), K) \in Seq(Sent)
<1>1. Join(I, J) \in Seq(Sent) /\ Join(Join(I, J), K) \in Seq(Sent) /\ Join(Q, R) \in Seq(Sent)
  BY SentRegrouped
<1>2. Join(Q, Join(R, Join(Join(I, J), K))) = Join(Join(Q, R), Join(Join(I, J), K))
  BY <1>1, SentRegrouped
<1>3. @ = Join(Join(Join(Q, R), Join(I, J)), K)
  BY <1>1, SentRegrouped
<1>4. Join(Join(Q, R), Join(I, J)) = Join(Join(Join(Q, R), I), J)
  BY <1>1, SentRegrouped
<1> QED
  BY <1>1, <1>2, <1>3, <1>4, SentRegrouped

\* The words on their way from the server, with one at the front.
LEMMA WordsRead ==
  ASSUME NEW B \in Seq(Items), B # <<>>, NEW yes, NEW no, NEW x
  PROVE  /\ Words(B, yes, no, x) = WordOf(Head(B), yes, no, x) \o Words(Tail(B), yes, no, x)
         /\ WordOf(Head(B), yes, no, x) = <<>> =>
               Words(B, yes, no, x) = Words(Tail(B), yes, no, x)
         /\ Words(Tail(B), yes, no, x) \in Seq(Answers)
<1>1. Tail(B) \in Seq(Items)
  OBVIOUS
<1>2. \A w \in Seq(Answers) : <<>> \o w = w
  BY LastWord
<1>3. Words(B, yes, no, x) = WordOf(Head(B), yes, no, x) \o Words(Tail(B), yes, no, x)
  BY <1>1, WordsFirst
<1>4. Words(Tail(B), yes, no, x) \in Seq(Answers)
  BY <1>1, WordSteps
<1> QED
  BY <1>2, <1>3, <1>4

\* What happens to one option leaves every other as it was.
LEMMA OursCarried ==
  ASSUME NEW o, NEW p, NEW C, NEW E, NEW D, NEW G, NEW v, NEW w, NEW x \in Names,
         Ours(o, C, D, v, x), p.us[x] = o.us[x], p.usPending[x] = o.usPending[x],
         w.them[x] = v.them[x], w.themAsked[x] = v.themAsked[x],
         LocalSupported(o, x) => LocalSupported(p, x),
         Wills(E, x) = Wills(C, x),
         Does(G, x) = Does(D, x)
  PROVE  Ours(p, E, G, w, x)
BY Zenon DEF Ours

LEMMA ItsCarried ==
  ASSUME NEW o, NEW p, NEW C, NEW E, NEW D, NEW G, NEW v, NEW w, NEW x \in Names,
         Its(o, C, D, v, x), p.them[x] = o.them[x], p.themPending[x] = o.themPending[x],
         w.us[x] = v.us[x], w.usAsked[x] = v.usAsked[x],
         Does(E, x) = Does(C, x),
         Wills(G, x) = Wills(D, x)
  PROVE  Its(p, E, G, w, x)
BY Zenon DEF Its

LEMMA SizesCarried ==
  ASSUME NEW o, NEW p, NEW C, NEW v, NEW w, SizesInOrder(o, C, v),
         p.us["NAWS"] => o.us["NAWS"], p.size = o.size, w.size = v.size,
         w.them["NAWS"] = v.them["NAWS"], w.themAsked["NAWS"] = v.themAsked["NAWS"]
  PROVE  SizesInOrder(p, C, w)
BY Zenon DEF SizesInOrder, LastSize

\* What the places of an option are.
LEMMA OptionPlaces ==
  ASSUME NEW o \in OptionTypes, NEW v \in ServerTypes, NEW x \in Names
  PROVE  /\ o.us[x] \in BOOLEAN /\ o.usPending[x] \in BOOLEAN
         /\ o.them[x] \in BOOLEAN /\ o.themPending[x] \in BOOLEAN
         /\ v.us[x] \in BOOLEAN /\ v.usAsked[x] \in BOOLEAN
         /\ v.them[x] \in BOOLEAN /\ v.themAsked[x] \in BOOLEAN
         /\ o.size \in Nat /\ o.port \in Nat /\ v.size \in Nat
BY DEF OptionTypes, ServerTypes

\* Of the options, only one at this end has changed, or one at the other.
OursOnly(o, p, x) ==
  /\ p \in OptionTypes
  /\ \A y \in Names \ {x} : p.us[y] = o.us[y] /\ p.usPending[y] = o.usPending[y]
  /\ p.them = o.them /\ p.themPending = o.themPending /\ p.size = o.size /\ p.port = o.port
ItsOnly(o, p, x) ==
  /\ p \in OptionTypes
  /\ \A y \in Names \ {x} : p.them[y] = o.them[y] /\ p.themPending[y] = o.themPending[y]
  /\ p.us = o.us /\ p.usPending = o.usPending /\ p.size = o.size /\ p.port = o.port

\* An option at this end, or at the other, has changed, and no other.
LEMMA OursAlone ==
  ASSUME NEW o, NEW p, NEW C, NEW E, NEW B, NEW D, NEW v, NEW w, NEW x \in Names,
         InTouch(o, C, B, v), Ours(p, E, D, w, x), SizesInOrder(p, E, w),
         p.port = o.port, p.them = o.them, p.themPending = o.themPending,
         w.us = v.us, w.usAsked = v.usAsked,
         \A y \in Names : /\ Does(E, y) = Does(C, y)
                          /\ Wills(D, y) = Wills(B, y),
         \A y \in Names \ {x} :
            /\ p.us[y] = o.us[y] /\ p.usPending[y] = o.usPending[y]
            /\ w.them[y] = v.them[y] /\ w.themAsked[y] = v.themAsked[y]
            /\ Wills(E, y) = Wills(C, y)
            /\ Does(D, y) = Does(B, y)
  PROVE  InTouch(p, E, D, w)
<1>1. \A y \in Names : Its(p, E, D, w, y)
  BY ItsCarried DEF InTouch
<1>2. \A y \in Names : LocalSupported(o, y) => LocalSupported(p, y)
  BY DEF LocalSupported
<1>3. \A y \in Names \ {x} : Ours(p, E, D, w, y)
  BY <1>2, OursCarried DEF InTouch
<1> QED
  BY <1>1, <1>3 DEF InTouch

LEMMA ItsAlone ==
  ASSUME NEW o, NEW p, NEW C, NEW E, NEW B, NEW D, NEW v, NEW w, NEW x \in Names,
         InTouch(o, C, B, v), Its(p, E, D, w, x), SizesInOrder(p, E, w),
         p.port = o.port, p.us = o.us, p.usPending = o.usPending,
         w.them = v.them, w.themAsked = v.themAsked,
         \A y \in Names : /\ Wills(E, y) = Wills(C, y)
                          /\ Does(D, y) = Does(B, y),
         \A y \in Names \ {x} :
            /\ p.them[y] = o.them[y] /\ p.themPending[y] = o.themPending[y]
            /\ w.us[y] = v.us[y] /\ w.usAsked[y] = v.usAsked[y]
            /\ Does(E, y) = Does(C, y)
            /\ Wills(D, y) = Wills(B, y)
  PROVE  InTouch(p, E, D, w)
<1>1. \A y \in Names : LocalSupported(o, y) => LocalSupported(p, y)
  BY DEF LocalSupported
<1>2. \A y \in Names : Ours(p, E, D, w, y)
  BY <1>1, OursCarried DEF InTouch
<1>3. \A y \in Names \ {x} : Its(p, E, D, w, y)
  BY ItsCarried DEF InTouch
<1> QED
  BY <1>2, <1>3 DEF InTouch

\* The words of a sequence with what is no word after it.
LEMMA ItemsOn ==
  ASSUME NEW C \in Seq(Items), NEW i \in Items, NEW yes, NEW no, NEW x
  PROVE  /\ Words(Then(C, i), yes, no, x) = Words(C, yes, no, x) \o WordOf(i, yes, no, x)
         /\ Words(C, yes, no, x) \in Seq(Answers)
<1>1. Words(Append(C, i), yes, no, x) = Words(C, yes, no, x) \o WordOf(i, yes, no, x)
  BY WordSteps
<1> QED
  BY <1>1, WordSteps DEF Then

LEMMA NoWord ==
  ASSUME NEW C \in Seq(Items), NEW i \in Items, NEW yes, NEW no, NEW x,
         WordOf(i, yes, no, x) = <<>>
  PROVE  Words(Then(C, i), yes, no, x) = Words(C, yes, no, x)
<1>1. \A w \in Seq(Answers) : w \o <<>> = w
  BY LastWord
<1> QED
  BY <1>1, ItemsOn

\* What is taken in from the server is no longer on its way.
LEMMA WordRead ==
  ASSUME NEW B \in Seq(Items), B # <<>>, NEW yes, NEW no, NEW x, yes # no, Head(B)[2] = x
  PROVE  /\ Head(B)[1] = yes => Words(B, yes, no, x) = Join(Yes, Words(Tail(B), yes, no, x))
         /\ Head(B)[1] = no => Words(B, yes, no, x) = Join(No, Words(Tail(B), yes, no, x))
         /\ \A y : y # x => Words(Tail(B), yes, no, y) = Words(B, yes, no, y)
         /\ Head(B)[1] # yes /\ Head(B)[1] # no =>
               \A y : Words(Tail(B), yes, no, y) = Words(B, yes, no, y)
         /\ \A y : Words(Tail(B), yes, no, y) \in Seq(Answers)
<1> DEFINE i == Head(B)
<1>1. i[2] = x
  OBVIOUS
<1> HIDE DEF i
<1>2. \A y :
        /\ Words(B, yes, no, y) = WordOf(i, yes, no, y) \o Words(Tail(B), yes, no, y)
        /\ WordOf(i, yes, no, y) = <<>> => Words(B, yes, no, y) = Words(Tail(B), yes, no, y)
        /\ Words(Tail(B), yes, no, y) \in Seq(Answers)
  BY WordsRead DEF i
<1>3. /\ i[1] = yes => WordOf(i, yes, no, x) = Yes
      /\ i[1] = no => WordOf(i, yes, no, x) = No
      /\ \A y : y # x => WordOf(i, yes, no, y) = <<>>
      /\ i[1] # yes /\ i[1] # no => \A y : WordOf(i, yes, no, y) = <<>>
  BY <1>1, OrderWords
<1> QED
  BY <1>2, <1>3 DEF i, Join

LEMMA OrdersRead ==
  ASSUME NEW B \in Seq(Items), B # <<>>, NEW x, Head(B)[2] = x
  PROVE  /\ Head(B)[1] = "DO" => Does(B, x) = Join(Yes, Does(Tail(B), x))
         /\ Head(B)[1] = "DONT" => Does(B, x) = Join(No, Does(Tail(B), x))
         /\ Head(B)[1] = "WILL" => Wills(B, x) = Join(Yes, Wills(Tail(B), x))
         /\ Head(B)[1] = "WONT" => Wills(B, x) = Join(No, Wills(Tail(B), x))
         /\ \A y : y # x => Does(Tail(B), y) = Does(B, y) /\ Wills(Tail(B), y) = Wills(B, y)
         /\ Head(B)[1] \notin {"DO", "DONT"} => \A y : Does(Tail(B), y) = Does(B, y)
         /\ Head(B)[1] \notin {"WILL", "WONT"} => \A y : Wills(Tail(B), y) = Wills(B, y)
         /\ \A y : Does(Tail(B), y) \in Seq(Answers) /\ Wills(Tail(B), y) \in Seq(Answers)
<1> DEFINE do == "DO"
           dont == "DONT"
           will == "WILL"
           wont == "WONT"
<1>1. do # dont /\ will # wont
  OBVIOUS
<1> HIDE DEF do, dont, will, wont
<1>2. /\ Head(B)[1] = do => Words(B, do, dont, x) = Join(Yes, Words(Tail(B), do, dont, x))
      /\ Head(B)[1] = dont => Words(B, do, dont, x) = Join(No, Words(Tail(B), do, dont, x))
      /\ \A y : y # x => Words(Tail(B), do, dont, y) = Words(B, do, dont, y)
      /\ Head(B)[1] # do /\ Head(B)[1] # dont => \A y : Words(Tail(B), do, dont, y) = Words(B, do, dont, y)
      /\ \A y : Words(Tail(B), do, dont, y) \in Seq(Answers)
  BY <1>1, WordRead
<1>3. /\ Head(B)[1] = will => Words(B, will, wont, x) = Join(Yes, Words(Tail(B), will, wont, x))
      /\ Head(B)[1] = wont => Words(B, will, wont, x) = Join(No, Words(Tail(B), will, wont, x))
      /\ \A y : y # x => Words(Tail(B), will, wont, y) = Words(B, will, wont, y)
      /\ Head(B)[1] # will /\ Head(B)[1] # wont => \A y : Words(Tail(B), will, wont, y) = Words(B, will, wont, y)
      /\ \A y : Words(Tail(B), will, wont, y) \in Seq(Answers)
  BY <1>1, WordRead
<1> QED
  BY <1>2, <1>3 DEF Does, Wills, do, dont, will, wont

LEMMA OrderRead ==
  ASSUME NEW B \in Seq(Told), B # <<>>, NEW x, Head(B)[2] = x
  PROVE  /\ Head(B)[1] = "DO" => Does(B, x) = Join(Yes, Does(Tail(B), x))
         /\ Head(B)[1] = "DONT" => Does(B, x) = Join(No, Does(Tail(B), x))
         /\ Head(B)[1] = "WILL" => Wills(B, x) = Join(Yes, Wills(Tail(B), x))
         /\ Head(B)[1] = "WONT" => Wills(B, x) = Join(No, Wills(Tail(B), x))
         /\ \A y : y # x => Does(Tail(B), y) = Does(B, y) /\ Wills(Tail(B), y) = Wills(B, y)
         /\ Head(B)[1] \notin {"DO", "DONT"} => \A y : Does(Tail(B), y) = Does(B, y)
         /\ Head(B)[1] \notin {"WILL", "WONT"} => \A y : Wills(Tail(B), y) = Wills(B, y)
         /\ \A y : Does(Tail(B), y) \in Seq(Answers) /\ Wills(Tail(B), y) \in Seq(Answers)
<1> B \in Seq(Items)
  BY DEF Items
<1> QED
  BY OrdersRead

\* What the server hears is no longer on its way to it.
LEMMA SentRead ==
  ASSUME NEW B \in Seq(Sent), B # <<>>, NEW x, Head(B)[2] = x
  PROVE  /\ Head(B)[1] = "DO" => Does(B, x) = Join(Yes, Does(Tail(B), x))
         /\ Head(B)[1] = "DONT" => Does(B, x) = Join(No, Does(Tail(B), x))
         /\ Head(B)[1] = "WILL" => Wills(B, x) = Join(Yes, Wills(Tail(B), x))
         /\ Head(B)[1] = "WONT" => Wills(B, x) = Join(No, Wills(Tail(B), x))
         /\ \A y : y # x => Does(Tail(B), y) = Does(B, y) /\ Wills(Tail(B), y) = Wills(B, y)
         /\ Head(B)[1] \notin {"DO", "DONT"} => \A y : Does(Tail(B), y) = Does(B, y)
         /\ Head(B)[1] \notin {"WILL", "WONT"} => \A y : Wills(Tail(B), y) = Wills(B, y)
         /\ \A y : Does(Tail(B), y) \in Seq(Answers) /\ Wills(Tail(B), y) \in Seq(Answers)
<1> B \in Seq(Items)
  BY DEF Items
<1> QED
  BY OrdersRead

\* What is added is on its way to the server.
LEMMA WordAdded ==
  ASSUME NEW C \in Seq(Items), NEW i \in Items, NEW yes, NEW no, NEW x, yes # no, i[2] = x
  PROVE  /\ i[1] = yes => Words(Then(C, i), yes, no, x) = Join(Words(C, yes, no, x), Yes)
         /\ i[1] = no => Words(Then(C, i), yes, no, x) = Join(Words(C, yes, no, x), No)
         /\ \A y : y # x => Words(Then(C, i), yes, no, y) = Words(C, yes, no, y)
         /\ i[1] # yes /\ i[1] # no =>
               \A y : Words(Then(C, i), yes, no, y) = Words(C, yes, no, y)
         /\ \A y : Words(C, yes, no, y) \in Seq(Answers)
<1>2. \A y :
        /\ Words(Then(C, i), yes, no, y) = Words(C, yes, no, y) \o WordOf(i, yes, no, y)
        /\ WordOf(i, yes, no, y) = <<>> => Words(Then(C, i), yes, no, y) = Words(C, yes, no, y)
        /\ Words(C, yes, no, y) \in Seq(Answers)
  BY ItemsOn, NoWord
<1>3. /\ i[1] = yes => WordOf(i, yes, no, x) = Yes
      /\ i[1] = no => WordOf(i, yes, no, x) = No
      /\ \A y : y # x => WordOf(i, yes, no, y) = <<>>
      /\ i[1] # yes /\ i[1] # no => \A y : WordOf(i, yes, no, y) = <<>>
  BY OrderWords
<1> QED
  BY <1>2, <1>3 DEF Join

LEMMA OrdersAdded ==
  ASSUME NEW C \in Seq(Items), NEW i \in Items, NEW x, i[2] = x
  PROVE  /\ i[1] = "DO" => Does(Then(C, i), x) = Join(Does(C, x), Yes)
         /\ i[1] = "DONT" => Does(Then(C, i), x) = Join(Does(C, x), No)
         /\ i[1] = "WILL" => Wills(Then(C, i), x) = Join(Wills(C, x), Yes)
         /\ i[1] = "WONT" => Wills(Then(C, i), x) = Join(Wills(C, x), No)
         /\ \A y : y # x => Does(Then(C, i), y) = Does(C, y) /\ Wills(Then(C, i), y) = Wills(C, y)
         /\ i[1] \notin {"DO", "DONT"} => \A y : Does(Then(C, i), y) = Does(C, y)
         /\ i[1] \notin {"WILL", "WONT"} => \A y : Wills(Then(C, i), y) = Wills(C, y)
         /\ \A y : Does(C, y) \in Seq(Answers) /\ Wills(C, y) \in Seq(Answers)
<1> DEFINE do == "DO"
           dont == "DONT"
           will == "WILL"
           wont == "WONT"
<1>1. do # dont /\ will # wont
  OBVIOUS
<1> HIDE DEF do, dont, will, wont
<1>2. /\ i[1] = do => Words(Then(C, i), do, dont, x) = Join(Words(C, do, dont, x), Yes)
      /\ i[1] = dont => Words(Then(C, i), do, dont, x) = Join(Words(C, do, dont, x), No)
      /\ \A y : y # x => Words(Then(C, i), do, dont, y) = Words(C, do, dont, y)
      /\ i[1] # do /\ i[1] # dont => \A y : Words(Then(C, i), do, dont, y) = Words(C, do, dont, y)
      /\ \A y : Words(C, do, dont, y) \in Seq(Answers)
  BY <1>1, WordAdded
<1>3. /\ i[1] = will => Words(Then(C, i), will, wont, x) = Join(Words(C, will, wont, x), Yes)
      /\ i[1] = wont => Words(Then(C, i), will, wont, x) = Join(Words(C, will, wont, x), No)
      /\ \A y : y # x => Words(Then(C, i), will, wont, y) = Words(C, will, wont, y)
      /\ i[1] # will /\ i[1] # wont => \A y : Words(Then(C, i), will, wont, y) = Words(C, will, wont, y)
      /\ \A y : Words(C, will, wont, y) \in Seq(Answers)
  BY <1>1, WordAdded
<1> QED
  BY <1>2, <1>3 DEF Does, Wills, do, dont, will, wont

LEMMA OrderAdded ==
  ASSUME NEW C \in Seq(Sent), NEW i \in Sent, NEW x, i[2] = x
  PROVE  /\ Then(C, i) \in Seq(Sent)
         /\ i[1] = "DO" => Does(Then(C, i), x) = Join(Does(C, x), Yes)
         /\ i[1] = "DONT" => Does(Then(C, i), x) = Join(Does(C, x), No)
         /\ i[1] = "WILL" => Wills(Then(C, i), x) = Join(Wills(C, x), Yes)
         /\ i[1] = "WONT" => Wills(Then(C, i), x) = Join(Wills(C, x), No)
         /\ \A y : y # x => Does(Then(C, i), y) = Does(C, y) /\ Wills(Then(C, i), y) = Wills(C, y)
         /\ i[1] \notin {"DO", "DONT"} => \A y : Does(Then(C, i), y) = Does(C, y)
         /\ i[1] \notin {"WILL", "WONT"} => \A y : Wills(Then(C, i), y) = Wills(C, y)
         /\ \A y : Does(C, y) \in Seq(Answers) /\ Wills(C, y) \in Seq(Answers)
<1>1. C \in Seq(Items) /\ i \in Items
  BY DEF Items
<1>2. Then(C, i) \in Seq(Sent)
  BY DEF Then
<1> QED
  BY <1>1, <1>2, OrdersAdded

\* What the server adds is on its way to this end.
LEMMA ToldAdded ==
  ASSUME NEW C \in Seq(Told), NEW i \in Told, NEW x, i[2] = x
  PROVE  /\ Then(C, i) \in Seq(Told)
         /\ i[1] = "DO" => Does(Then(C, i), x) = Join(Does(C, x), Yes)
         /\ i[1] = "DONT" => Does(Then(C, i), x) = Join(Does(C, x), No)
         /\ i[1] = "WILL" => Wills(Then(C, i), x) = Join(Wills(C, x), Yes)
         /\ i[1] = "WONT" => Wills(Then(C, i), x) = Join(Wills(C, x), No)
         /\ \A y : y # x => Does(Then(C, i), y) = Does(C, y) /\ Wills(Then(C, i), y) = Wills(C, y)
         /\ i[1] \notin {"DO", "DONT"} => \A y : Does(Then(C, i), y) = Does(C, y)
         /\ i[1] \notin {"WILL", "WONT"} => \A y : Wills(Then(C, i), y) = Wills(C, y)
         /\ \A y : Does(C, y) \in Seq(Answers) /\ Wills(C, y) \in Seq(Answers)
<1>1. C \in Seq(Items) /\ i \in Items
  BY DEF Items
<1>2. Then(C, i) \in Seq(Told)
  BY DEF Then
<1> QED
  BY <1>1, <1>2, OrdersAdded

\* A request for what is not supported is refused.
LEMMA Unsupported ==
  ASSUME NEW o \in OptionTypes, NEW C \in Seq(Sent), NEW B \in Seq(Told), NEW v \in ServerTypes,
         NEW x \in Names, InTouch(o, C, B, v), B # <<>>, Head(B)[1] = "DO", Head(B)[2] = x,
         ~LocalSupported(o, x), NEW i \in Sent, i[1] = "WONT", i[2] = x
  PROVE  InTouch(o, Then(C, i), Tail(B), v)
<1> DEFINE E == Then(C, i)
           D == Tail(B)
           c == Wills(C, x)
           d == Does(D, x)
<1> HIDE DEF E, D
<1>3. /\ Wills(E, x) = Join(c, No) /\ c \in Seq(Answers)
      /\ \A y \in Names : Does(E, y) = Does(C, y)
      /\ \A y \in Names \ {x} : Wills(E, y) = Wills(C, y)
  <2>1. i[1] = "WONT" /\ i[2] = x /\ i[1] \notin {"DO", "DONT"}
    OBVIOUS
  <2>2. Wills(E, x) = Join(Wills(C, x), No)
    BY <2>1, OrderAdded DEF E
  <2>3. \A y \in Names : Does(E, y) = Does(C, y)
    BY <2>1, OrderAdded DEF E
  <2>4. \A y \in Names \ {x} : Wills(E, y) = Wills(C, y)
    BY <2>1, OrderAdded DEF E
  <2>5. c \in Seq(Answers)
    BY <2>1, OrderAdded DEF E
  <2> QED
    BY <2>2, <2>3, <2>4, <2>5
<1>4. /\ Does(B, x) = Join(Yes, d) /\ d \in Seq(Answers)
      /\ \A y \in Names : Wills(D, y) = Wills(B, y)
      /\ \A y \in Names \ {x} : Does(D, y) = Does(B, y)
  BY OrderRead, SMTT(30), ZenonT(60) DEF D
<1>5. Ours(o, C, B, v, x) /\ SizesInOrder(o, C, v)
  BY DEF InTouch
<1>6. Ours(o, E, D, v, x)
  <2> HIDE DEF c, d
  <2>1. Standing("them", o.us[x], o.usPending[x], v.them[x], v.themAsked[x], c, Join(Yes, d))
        /\ ~o.us[x] /\ ~o.usPending[x]
    BY <1>4, <1>5 DEF Ours, c
  <2>2. Standing("them", o.us[x], o.usPending[x], v.them[x], v.themAsked[x], Join(c, No), d)
    BY <1>3, <1>4, <2>1, Refusing, OptionPlaces
  <2> QED
    BY <1>3, <2>1, <2>2 DEF Ours, d
<1>7. SizesInOrder(o, E, v)
  <2>1. x # "NAWS"
    BY DEF LocalSupported
  <2>2. NawsWord(i) = <<>>
    BY <2>1, OrderWords DEF NawsWord
  <2> QED
    BY <1>5, <2>2, NoSizeAppended DEF E
<1> HIDE DEF c, d
<1> QED
  BY <1>3, <1>4, <1>6, <1>7, OursAlone DEF E, D

\* What is no order changes no words.
LEMMA PlainAdded ==
  ASSUME NEW C \in Seq(Sent), NEW i \in Sent, i[1] \notin Verbs, NEW b \in BOOLEAN
  PROVE  /\ Added(C, i, b) \in Seq(Sent)
         /\ \A y : Wills(Added(C, i, b), y) = Wills(C, y) /\ Does(Added(C, i, b), y) = Does(C, y)
<1>1. i[1] \notin {"DO", "DONT"} /\ i[1] \notin {"WILL", "WONT"}
  BY DEF Verbs
<1>2. /\ Then(C, i) \in Seq(Sent)
      /\ \A y : Wills(Then(C, i), y) = Wills(C, y) /\ Does(Then(C, i), y) = Does(C, y)
  BY <1>1, OrderAdded
<1> QED
  BY <1>2 DEF Added

\* An answer about an option at this end, and about one at the other.
LEMMA OursAnswered ==
  ASSUME NEW C \in Seq(Sent), NEW i \in Sent, NEW x, i[1] \in {"WILL", "WONT"}, i[2] = x,
         NEW b \in BOOLEAN
  PROVE  /\ Added(C, i, b) \in Seq(Sent)
         /\ \A y : Does(Added(C, i, b), y) = Does(C, y)
         /\ \A y : y # x => Wills(Added(C, i, b), y) = Wills(C, y)
         /\ b /\ i[1] = "WILL" => Wills(Added(C, i, b), x) = Join(Wills(C, x), Yes)
         /\ b /\ i[1] = "WONT" => Wills(Added(C, i, b), x) = Join(Wills(C, x), No)
         /\ ~b => Added(C, i, b) = C
         /\ Wills(C, x) \in Seq(Answers)
<1>1. i[1] \notin {"DO", "DONT"}
  OBVIOUS
<1>2. Then(C, i) \in Seq(Sent)
  BY OrderAdded
<1>3. \A y : Does(Then(C, i), y) = Does(C, y)
  BY <1>1, OrderAdded
<1>4. \A y : y # x => Wills(Then(C, i), y) = Wills(C, y)
  BY OrderAdded
<1>5. /\ i[1] = "WILL" => Wills(Then(C, i), x) = Join(Wills(C, x), Yes)
      /\ i[1] = "WONT" => Wills(Then(C, i), x) = Join(Wills(C, x), No)
      /\ Wills(C, x) \in Seq(Answers)
  BY OrderAdded
<1> QED
  BY <1>2, <1>3, <1>4, <1>5 DEF Added

LEMMA ItsAnswered ==
  ASSUME NEW C \in Seq(Sent), NEW i \in Sent, NEW x, i[1] \in {"DO", "DONT"}, i[2] = x,
         NEW b \in BOOLEAN
  PROVE  /\ Added(C, i, b) \in Seq(Sent)
         /\ \A y : Wills(Added(C, i, b), y) = Wills(C, y)
         /\ \A y : y # x => Does(Added(C, i, b), y) = Does(C, y)
         /\ b /\ i[1] = "DO" => Does(Added(C, i, b), x) = Join(Does(C, x), Yes)
         /\ b /\ i[1] = "DONT" => Does(Added(C, i, b), x) = Join(Does(C, x), No)
         /\ ~b => Added(C, i, b) = C
         /\ Does(C, x) \in Seq(Answers)
<1>1. i[1] \notin {"WILL", "WONT"}
  OBVIOUS
<1>2. Then(C, i) \in Seq(Sent)
  BY OrderAdded
<1>3. \A y : Wills(Then(C, i), y) = Wills(C, y)
  BY <1>1, OrderAdded
<1>4. \A y : y # x => Does(Then(C, i), y) = Does(C, y)
  BY OrderAdded
<1>5. /\ i[1] = "DO" => Does(Then(C, i), x) = Join(Does(C, x), Yes)
      /\ i[1] = "DONT" => Does(Then(C, i), x) = Join(Does(C, x), No)
      /\ Does(C, x) \in Seq(Answers)
  BY OrderAdded
<1> QED
  BY <1>2, <1>3, <1>4, <1>5 DEF Added

\* An answer that is not about the size changes nothing of it.
LEMMA NoSizeAdded ==
  ASSUME NEW C \in Seq(Sent), NEW i \in Sent, i[1] # "SIZE",
         i[1] \notin {"WILL", "WONT"} \/ i[2] # "NAWS", NEW b \in BOOLEAN,
         NEW o \in OptionTypes, NEW v \in ServerTypes, SizesInOrder(o, C, v)
  PROVE  SizesInOrder(o, Added(C, i, b), v)
<1>1. NawsWord(i) = <<>>
  BY OrderWords DEF NawsWord
<1>2. SizesInOrder(o, Then(C, i), v)
  BY <1>1, NoSizeAppended
<1> QED
  BY <1>2 DEF Added

\* A request for what is on already.
LEMMA OnAlready ==
  ASSUME NEW o \in OptionTypes, NEW C \in Seq(Sent), NEW B \in Seq(Told), NEW v \in ServerTypes,
         NEW x \in Names, InTouch(o, C, B, v), B # <<>>, Head(B)[1] = "DO", Head(B)[2] = x,
         LocalSupported(o, x), o.us[x],
         NEW p, OursOnly(o, p, x), p.us[x], ~p.usPending[x]
  PROVE  InTouch(p, C, Tail(B), v)
<1> DEFINE D == Tail(B)
           c == Wills(C, x)
           d == Does(D, x)
<1>0. /\ o.us[x] \in BOOLEAN /\ o.usPending[x] \in BOOLEAN /\ v.them[x] \in BOOLEAN
      /\ v.themAsked[x] \in BOOLEAN /\ p.us[x] \in BOOLEAN /\ p.usPending[x] \in BOOLEAN
  BY OptionPlaces DEF OursOnly
<1>1. /\ p \in OptionTypes
      /\ \A y \in Names \ {x} : p.us[y] = o.us[y] /\ p.usPending[y] = o.usPending[y]
      /\ p.them = o.them /\ p.themPending = o.themPending /\ p.size = o.size /\ p.port = o.port
  BY DEF OursOnly
<1> HIDE DEF D
<1>2. c \in Seq(Answers)
  <2>1. C \in Seq(Items)
    BY DEF Items
  <2> QED
    BY <2>1, WordSteps DEF Wills
<1>3. /\ Does(B, x) = Join(Yes, d) /\ d \in Seq(Answers)
      /\ \A y \in Names : Wills(D, y) = Wills(B, y)
      /\ \A y \in Names \ {x} : Does(D, y) = Does(B, y)
  BY OrderRead, SMTT(30), ZenonT(60) DEF D
<1>4. Ours(o, C, B, v, x) /\ SizesInOrder(o, C, v)
  BY DEF InTouch
<1> HIDE DEF c, d
<1>5. Ours(p, C, D, v, x)
  <2>1. Standing("them", o.us[x], o.usPending[x], v.them[x], v.themAsked[x], c, Join(Yes, d))
    BY <1>3, <1>4 DEF Ours, c
  <2>2. Standing("them", p.us[x], p.usPending[x], v.them[x], v.themAsked[x], c, d)
    BY <1>0, <1>1, <1>2, <1>3, <2>1, FirstWord, LastWord, WordsApart DEF Standing, Join
  <2>3. LocalSupported(p, x)
    BY <1>1 DEF LocalSupported
  <2> QED
    BY <2>2, <2>3 DEF Ours, c, d
<1>6. p.us["NAWS"] => o.us["NAWS"]
  BY <1>1 DEF Names
<1>7. SizesInOrder(p, C, v)
  BY <1>1, <1>4, <1>6, SizesCarried
<1> QED
  BY <1>1, <1>3, <1>5, <1>7, OursAlone DEF D

LEMMA WontAnswered ==
  ASSUME NEW C \in Seq(Sent), NEW i \in Sent, NEW x, i[1] = "WONT", i[2] = x, NEW b \in BOOLEAN
  PROVE  /\ Added(C, i, b) \in Seq(Sent)
         /\ \A y : Does(Added(C, i, b), y) = Does(C, y)
         /\ \A y : y # x => Wills(Added(C, i, b), y) = Wills(C, y)
         /\ b => Wills(Added(C, i, b), x) = Join(Wills(C, x), No)
         /\ ~b => Added(C, i, b) = C
         /\ Wills(C, x) \in Seq(Answers)
BY OursAnswered

LEMMA DoAnswered ==
  ASSUME NEW C \in Seq(Sent), NEW i \in Sent, NEW x, i[1] = "DO", i[2] = x, NEW b \in BOOLEAN
  PROVE  /\ Added(C, i, b) \in Seq(Sent)
         /\ \A y : Wills(Added(C, i, b), y) = Wills(C, y)
         /\ \A y : y # x => Does(Added(C, i, b), y) = Does(C, y)
         /\ b => Does(Added(C, i, b), x) = Join(Does(C, x), Yes)
         /\ ~b => Added(C, i, b) = C
         /\ Does(C, x) \in Seq(Answers)
BY ItsAnswered

\* A request for what is not on yet: an answer, if this is none itself, and
\* what comes with the option.
LEMMA TurnedOn ==
  ASSUME NEW o \in OptionTypes, NEW C \in Seq(Sent), NEW B \in Seq(Told), NEW v \in ServerTypes,
         NEW x \in Names, InTouch(o, C, B, v), B # <<>>, Head(B)[1] = "DO", Head(B)[2] = x,
         LocalSupported(o, x), ~o.us[x],
         NEW p, OursOnly(o, p, x), p.us[x], ~p.usPending[x],
         NEW i \in Sent, i[1] = "WILL", i[2] = x, NEW a \in BOOLEAN, a => ~o.usPending[x],
         ~a => o.usPending[x],
         NEW j \in Sent, j = WindowSize(p), NEW b \in BOOLEAN, b => x = "NAWS",
         x = "NAWS" => b,
         NEW k, k = PortSettings(p), NEW e \in BOOLEAN, e => x = "COM_PORT",
         x = "COM_PORT" => e
  PROVE  InTouch(p, Added(Added(Added(C, i, a), j, b), k, e), Tail(B), v)
<1> DEFINE D == Tail(B)
           c == Wills(C, x)
           d == Does(D, x)
           E == Added(C, i, a)
           F == Added(E, j, b)
           G == Added(F, k, e)
<1>0. /\ o.us[x] \in BOOLEAN /\ o.usPending[x] \in BOOLEAN /\ v.them[x] \in BOOLEAN
      /\ v.themAsked[x] \in BOOLEAN /\ p.us[x] \in BOOLEAN /\ p.usPending[x] \in BOOLEAN
  BY OptionPlaces DEF OursOnly
<1>1. /\ p \in OptionTypes
      /\ \A y \in Names \ {x} : p.us[y] = o.us[y] /\ p.usPending[y] = o.usPending[y]
      /\ p.them = o.them /\ p.themPending = o.themPending /\ p.size = o.size /\ p.port = o.port
  BY DEF OursOnly
<1>2. /\ j \in Sent /\ j[1] \notin Verbs
      /\ k \in Sent /\ k[1] \notin Verbs /\ k[1] # "SIZE"
  <2>1. WindowSize(p) \in Sent /\ WindowSize(p)[1] \notin Verbs
    BY <1>1, OthersSent
  <2>2. /\ PortSettings(p) \in Sent /\ PortSettings(p)[1] \notin Verbs
        /\ PortSettings(p)[1] # "SIZE"
    BY <1>1, OthersSent
  <2> QED
    BY <2>1, <2>2
<1> HIDE DEF D, E, F, G
<1>3. /\ E \in Seq(Sent)
      /\ \A y : Does(E, y) = Does(C, y)
      /\ \A y : y # x => Wills(E, y) = Wills(C, y)
      /\ Wills(E, x) = IF a THEN Join(c, Yes) ELSE c
      /\ c \in Seq(Answers)
  <2> DEFINE told == Then(C, i)
  <2>1. i[1] = "WILL" /\ i[2] = x /\ i[1] \notin {"DO", "DONT"}
    OBVIOUS
  <2>2. told \in Seq(Sent) /\ c \in Seq(Answers)
    BY <2>1, OrderAdded
  <2>3. \A y : Does(told, y) = Does(C, y)
    BY <2>1, OrderAdded
  <2>4. \A y : y # x => Wills(told, y) = Wills(C, y)
    BY <2>1, OrderAdded
  <2>5. Wills(told, x) = Join(c, Yes)
    BY <2>1, OrderAdded
  <2>6. E = IF a THEN told ELSE C
    BY DEF E, Added
  <2> HIDE DEF told, c
  <2>7. CASE a
    BY <2>2, <2>3, <2>4, <2>5, <2>6, <2>7
  <2>8. CASE ~a
    BY <2>2, <2>6, <2>8 DEF c
  <2> QED
    BY <2>7, <2>8
<1>4. F \in Seq(Sent) /\ \A y : Wills(F, y) = Wills(E, y) /\ Does(F, y) = Does(E, y)
  <2>1. E \in Seq(Sent) /\ j \in Sent /\ j[1] \notin Verbs
    BY <1>2, <1>3
  <2> HIDE DEF E
  <2> QED
    BY <2>1, PlainAdded, ZenonT(60) DEF F
<1>5. G \in Seq(Sent) /\ \A y : Wills(G, y) = Wills(F, y) /\ Does(G, y) = Does(F, y)
  <2>1. F \in Seq(Sent) /\ k \in Sent /\ k[1] \notin Verbs
    BY <1>2, <1>4
  <2> QED
    BY <2>1, PlainAdded, ZenonT(60) DEF G
<1>6. /\ Does(B, x) = Join(Yes, d) /\ d \in Seq(Answers)
      /\ \A y \in Names : Wills(D, y) = Wills(B, y)
      /\ \A y \in Names \ {x} : Does(D, y) = Does(B, y)
  BY OrderRead, SMTT(30), ZenonT(60) DEF D
<1>7. Ours(o, C, B, v, x) /\ SizesInOrder(o, C, v)
  BY DEF InTouch
<1> HIDE DEF c, d
<1>8. Standing("them", o.us[x], o.usPending[x], v.them[x], v.themAsked[x], c, Join(Yes, d))
  BY <1>6, <1>7 DEF Ours, c
<1>9. Ours(p, G, D, v, x)
  <2>1. /\ ~a => Standing("them", p.us[x], p.usPending[x], v.them[x], v.themAsked[x], c, d)
        /\ a => Standing("them", p.us[x], p.usPending[x], v.them[x], v.themAsked[x],
                         Join(c, Yes), d)
    BY <1>0, <1>1, <1>3, <1>6, <1>8, FirstWord, LastWord, WordsApart DEF Standing, Join
  <2>2. Wills(G, x) = IF a THEN Join(c, Yes) ELSE c
    BY <1>3, <1>4, <1>5 DEF c
  <2>3. Standing("them", p.us[x], p.usPending[x], v.them[x], v.themAsked[x], Wills(G, x), d)
    BY <2>1, <2>2
  <2>4. LocalSupported(p, x)
    BY <1>1 DEF LocalSupported
  <2> QED
    BY <2>3, <2>4 DEF Ours, d
<1>10. SizesInOrder(p, G, v)
  <2>1. CASE x = "NAWS"
    <3>1. /\ o.usPending[x] => (c = <<>> /\ v.them[x]) \/ (c = Yes /\ v.themAsked[x])
          /\ ~o.usPending[x] => c = <<>> /\ ~v.them[x] /\ v.themAsked[x]
      BY <1>0, <1>3, <1>6, <1>8, FirstWord, LastWord, WordsApart DEF Standing, Join
    <3>2. /\ Orderly(E)
          /\ \/ NawsWords(E) = <<>> /\ v.them["NAWS"]
             \/ NawsWords(E) = Yes /\ v.themAsked["NAWS"]
      <4>1. CASE a
        <5>1. NawsWords(C) = <<>> /\ ~HasSize(C)
          BY <1>7, <2>1, <3>1, <4>1, WordsApart DEF NawsWords, SizesInOrder, c
        <5>2. E = Then(C, i)
          BY <4>1 DEF E, Added
        <5> QED
          BY <2>1, <3>1, <4>1, <5>1, <5>2, OnAppended
      <4>2. CASE ~a
        <5>1. E = C
          BY <4>2 DEF E, Added
        <5> QED
          BY <5>1, <1>3, <1>7, <2>1, <3>1, <4>2 DEF NawsWords, SizesInOrder, c
      <4> QED
        BY <4>1, <4>2
    <3>3. SizesInOrder(p, Then(E, j), v)
      BY <1>1, <1>3, <3>2, SizeAppended
    <3>4. G = Then(E, j)
      BY <2>1 DEF F, G, Added
    <3> QED
      BY <3>3, <3>4
  <2>2. CASE x # "NAWS"
    <3>1. SizesInOrder(p, C, v)
      BY <1>1, <1>7, <2>2, SizesCarried DEF Names
    <3>2. SizesInOrder(p, E, v)
      BY <1>1, <2>2, <3>1, NoSizeAdded DEF E
    <3>3. F = E
      BY <2>2 DEF F, Added
    <3>4. k[1] \notin {"WILL", "WONT"}
      BY <1>2 DEF Verbs
    <3> QED
      BY <1>1, <1>2, <1>3, <3>2, <3>3, <3>4, NoSizeAdded DEF G
  <2> QED
    BY <2>1, <2>2
<1>11. \A y \in Names \ {x} : Wills(G, y) = Wills(C, y)
  BY <1>3, <1>4, <1>5
<1>12. \A y \in Names : Does(G, y) = Does(C, y)
  BY <1>3, <1>4, <1>5
<1>13. InTouch(p, G, D, v)
  BY <1>1, <1>6, <1>9, <1>10, <1>11, <1>12, OursAlone
<1> QED
  BY <1>13 DEF D, E, F, G

\* A request to stop.
LEMMA TurnedOff ==
  ASSUME NEW o \in OptionTypes, NEW C \in Seq(Sent), NEW B \in Seq(Told), NEW v \in ServerTypes,
         NEW x \in Names, InTouch(o, C, B, v), B # <<>>, Head(B)[1] = "DONT", Head(B)[2] = x,
         NEW p, OursOnly(o, p, x), ~p.us[x], ~p.usPending[x],
         NEW i \in Sent, i[1] = "WONT", i[2] = x,
         NEW a \in BOOLEAN, a <=> o.us[x] /\ ~o.usPending[x]
  PROVE  InTouch(p, Added(C, i, a), Tail(B), v)
<1> DEFINE D == Tail(B)
           c == Wills(C, x)
           d == Does(D, x)
           E == Added(C, i, a)
<1>0. /\ o.us[x] \in BOOLEAN /\ o.usPending[x] \in BOOLEAN /\ v.them[x] \in BOOLEAN
      /\ v.themAsked[x] \in BOOLEAN /\ p.us[x] \in BOOLEAN /\ p.usPending[x] \in BOOLEAN
  BY OptionPlaces DEF OursOnly
<1>1. /\ p \in OptionTypes
      /\ \A y \in Names \ {x} : p.us[y] = o.us[y] /\ p.usPending[y] = o.usPending[y]
      /\ p.them = o.them /\ p.themPending = o.themPending /\ p.size = o.size /\ p.port = o.port
  BY DEF OursOnly
<1> HIDE DEF D, E
<1>2. /\ E \in Seq(Sent)
      /\ \A y : Does(E, y) = Does(C, y)
      /\ \A y : y # x => Wills(E, y) = Wills(C, y)
      /\ a => Wills(E, x) = Join(c, No)
      /\ ~a => E = C
      /\ c \in Seq(Answers)
  BY WontAnswered, SMTT(60) DEF E
<1>3. /\ Does(B, x) = Join(No, d) /\ d \in Seq(Answers)
      /\ \A y \in Names : Wills(D, y) = Wills(B, y)
      /\ \A y \in Names \ {x} : Does(D, y) = Does(B, y)
  BY OrderRead, SMTT(30), ZenonT(60) DEF D
<1>4. Ours(o, C, B, v, x) /\ SizesInOrder(o, C, v)
  BY DEF InTouch
<1> HIDE DEF c, d
<1>5. Standing("them", o.us[x], o.usPending[x], v.them[x], v.themAsked[x], c, Join(No, d))
  BY <1>3, <1>4 DEF Ours, c
<1>6. Ours(p, E, D, v, x)
  <2>1. /\ ~a => Standing("them", p.us[x], p.usPending[x], v.them[x], v.themAsked[x], c, d)
        /\ a => Standing("them", p.us[x], p.usPending[x], v.them[x], v.themAsked[x],
                         Join(c, No), d)
    BY <1>0, <1>1, <1>2, <1>3, <1>5, FirstWord, LastWord, WordsApart DEF Standing, Join
  <2>2. Wills(E, x) = IF a THEN Join(c, No) ELSE c
    BY <1>2 DEF c
  <2>3. Standing("them", p.us[x], p.usPending[x], v.them[x], v.themAsked[x], Wills(E, x), d)
    BY <2>1, <2>2
  <2> QED
    BY <1>1, <2>3 DEF Ours, d
<1>7. SizesInOrder(p, E, v)
  <2>1. p.us["NAWS"] => o.us["NAWS"]
    BY <1>1 DEF Names
  <2>2. SizesInOrder(p, C, v)
    BY <1>1, <1>4, <2>1, SizesCarried
  <2>3. CASE ~a
    BY <1>2, <2>2, <2>3
  <2>4. CASE x # "NAWS"
    BY <1>1, <2>2, <2>4, NoSizeAdded DEF E
  <2>5. CASE a /\ x = "NAWS"
    <3>1. c = <<>>
      BY <1>0, <1>2, <1>3, <1>5, <2>5, FirstWord, LastWord, WordsApart DEF Standing, Join
    <3>2. NawsWords(C) = <<>> /\ Orderly(C) /\ (HasSize(C) => v.them["NAWS"])
      BY <1>4, <2>5, <3>1, WordsApart DEF NawsWords, SizesInOrder, c
    <3>3. SizesInOrder(p, Then(C, i), v)
      BY <1>1, <2>5, <3>2, OffAppended
    <3> QED
      BY <2>5, <3>3 DEF E, Added
  <2> QED
    BY <2>3, <2>4, <2>5
<1>8. InTouch(p, E, D, v)
  BY <1>1, <1>2, <1>3, <1>6, <1>7, OursAlone
<1> QED
  BY <1>8 DEF D, E

\* An answer about an option of the server's is no size.
LEMMA ItsSizes ==
  ASSUME NEW o \in OptionTypes, NEW C \in Seq(Sent), NEW v \in ServerTypes, SizesInOrder(o, C, v),
         NEW x \in Names, NEW p, ItsOnly(o, p, x),
         NEW i \in Sent, i[1] \in {"DO", "DONT"}, NEW a \in BOOLEAN
  PROVE  SizesInOrder(p, Added(C, i, a), v)
<1>1. p \in OptionTypes /\ p.us = o.us /\ p.size = o.size
  BY DEF ItsOnly
<1>2. SizesInOrder(p, C, v)
  BY <1>1, SizesCarried
<1> QED
  BY <1>1, <1>2, NoSizeAdded

\* The server offers what is not wanted of it.
LEMMA Unwanted ==
  ASSUME NEW o \in OptionTypes, NEW C \in Seq(Sent), NEW B \in Seq(Told), NEW v \in ServerTypes,
         NEW x \in Names, InTouch(o, C, B, v), B # <<>>, Head(B)[1] = "WILL", Head(B)[2] = x,
         ~RemoteSupported(x), NEW i \in Sent, i[1] = "DONT", i[2] = x
  PROVE  InTouch(o, Then(C, i), Tail(B), v)
<1> DEFINE E == Then(C, i)
           D == Tail(B)
           c == Does(C, x)
           d == Wills(D, x)
<1> HIDE DEF E, D
<1>1. /\ Does(E, x) = Join(c, No) /\ c \in Seq(Answers)
      /\ \A y \in Names : Wills(E, y) = Wills(C, y)
      /\ \A y \in Names \ {x} : Does(E, y) = Does(C, y)
  <2>1. i[1] = "DONT" /\ i[2] = x /\ i[1] \notin {"WILL", "WONT"}
    OBVIOUS
  <2>2. Does(E, x) = Join(Does(C, x), No)
    BY <2>1, OrderAdded DEF E
  <2>3. \A y \in Names : Wills(E, y) = Wills(C, y)
    BY <2>1, OrderAdded DEF E
  <2>4. \A y \in Names \ {x} : Does(E, y) = Does(C, y)
    BY <2>1, OrderAdded DEF E
  <2>5. c \in Seq(Answers)
    BY <2>1, OrderAdded DEF E
  <2> QED
    BY <2>2, <2>3, <2>4, <2>5
<1>2. /\ Wills(B, x) = Join(Yes, d) /\ d \in Seq(Answers)
      /\ \A y \in Names : Does(D, y) = Does(B, y)
      /\ \A y \in Names \ {x} : Wills(D, y) = Wills(B, y)
  BY OrderRead, SMTT(30), ZenonT(60) DEF D
<1>3. Its(o, C, B, v, x) /\ SizesInOrder(o, C, v)
  BY DEF InTouch
<1> HIDE DEF c, d
<1>4. Its(o, E, D, v, x)
  <2>1. Standing("us", o.them[x], o.themPending[x], v.us[x], v.usAsked[x], c, Join(Yes, d))
        /\ ~o.them[x] /\ ~o.themPending[x]
    BY <1>2, <1>3 DEF Its, c
  <2>2. Standing("us", o.them[x], o.themPending[x], v.us[x], v.usAsked[x], Join(c, No), d)
    BY <1>1, <1>2, <2>1, Refusing, OptionPlaces
  <2> QED
    BY <1>1, <2>1, <2>2 DEF Its, d
<1>5. SizesInOrder(o, E, v)
  <2>1. NawsWord(i) = <<>>
    BY OrderWords DEF NawsWord
  <2> QED
    BY <1>3, <2>1, NoSizeAppended DEF E
<1> QED
  BY <1>1, <1>2, <1>4, <1>5, ItsAlone DEF E, D

\* The server offers what is wanted, or agrees to it.
LEMMA TakenUp ==
  ASSUME NEW o \in OptionTypes, NEW C \in Seq(Sent), NEW B \in Seq(Told), NEW v \in ServerTypes,
         NEW x \in Names, InTouch(o, C, B, v), B # <<>>, Head(B)[1] = "WILL", Head(B)[2] = x,
         RemoteSupported(x), NEW p, ItsOnly(o, p, x), p.them[x], ~p.themPending[x],
         NEW i \in Sent, i[1] = "DO", i[2] = x,
         NEW a \in BOOLEAN, a <=> ~o.them[x] /\ ~o.themPending[x]
  PROVE  InTouch(p, Added(C, i, a), Tail(B), v)
<1> DEFINE D == Tail(B)
           c == Does(C, x)
           d == Wills(D, x)
           E == Added(C, i, a)
<1>0. /\ o.them[x] \in BOOLEAN /\ o.themPending[x] \in BOOLEAN /\ v.us[x] \in BOOLEAN
      /\ v.usAsked[x] \in BOOLEAN /\ p.them[x] \in BOOLEAN /\ p.themPending[x] \in BOOLEAN
  BY OptionPlaces DEF ItsOnly
<1>1. /\ p \in OptionTypes
      /\ \A y \in Names \ {x} : p.them[y] = o.them[y] /\ p.themPending[y] = o.themPending[y]
      /\ p.us = o.us /\ p.usPending = o.usPending /\ p.size = o.size /\ p.port = o.port
  BY DEF ItsOnly
<1> HIDE DEF D, E
<1>2. /\ E \in Seq(Sent)
      /\ \A y : Wills(E, y) = Wills(C, y)
      /\ \A y : y # x => Does(E, y) = Does(C, y)
      /\ a => Does(E, x) = Join(c, Yes)
      /\ ~a => E = C
      /\ c \in Seq(Answers)
  BY DoAnswered, SMTT(60) DEF E
<1>3. /\ Wills(B, x) = Join(Yes, d) /\ d \in Seq(Answers)
      /\ \A y \in Names : Does(D, y) = Does(B, y)
      /\ \A y \in Names \ {x} : Wills(D, y) = Wills(B, y)
  BY OrderRead, SMTT(30), ZenonT(60) DEF D
<1>4. Its(o, C, B, v, x) /\ SizesInOrder(o, C, v)
  BY DEF InTouch
<1> HIDE DEF c, d
<1>5. Standing("us", o.them[x], o.themPending[x], v.us[x], v.usAsked[x], c, Join(Yes, d))
  BY <1>3, <1>4 DEF Its, c
<1>6. Its(p, E, D, v, x)
  <2>1. /\ ~a => Standing("us", p.them[x], p.themPending[x], v.us[x], v.usAsked[x], c, d)
        /\ a => Standing("us", p.them[x], p.themPending[x], v.us[x], v.usAsked[x],
                         Join(c, Yes), d)
    BY <1>0, <1>1, <1>2, <1>3, <1>5, FirstWord, LastWord, WordsApart DEF Standing, Join
  <2>2. Does(E, x) = IF a THEN Join(c, Yes) ELSE c
    BY <1>2 DEF c
  <2>3. Standing("us", p.them[x], p.themPending[x], v.us[x], v.usAsked[x], Does(E, x), d)
    BY <2>1, <2>2
  <2> QED
    BY <1>1, <2>3 DEF Its, d
<1>7. SizesInOrder(p, E, v)
  BY <1>4, ItsSizes DEF E
<1>8. InTouch(p, E, D, v)
  BY <1>1, <1>2, <1>3, <1>6, <1>7, ItsAlone
<1> QED
  BY <1>8 DEF D, E

\* The server has stopped, or will not start.
LEMMA Withdrawn ==
  ASSUME NEW o \in OptionTypes, NEW C \in Seq(Sent), NEW B \in Seq(Told), NEW v \in ServerTypes,
         NEW x \in Names, InTouch(o, C, B, v), B # <<>>, Head(B)[1] = "WONT", Head(B)[2] = x,
         NEW p, ItsOnly(o, p, x), ~p.them[x], ~p.themPending[x],
         NEW i \in Sent, i[1] = "DONT", i[2] = x,
         NEW a \in BOOLEAN, a <=> o.them[x] /\ ~o.themPending[x]
  PROVE  InTouch(p, Added(C, i, a), Tail(B), v)
<1> DEFINE D == Tail(B)
           c == Does(C, x)
           d == Wills(D, x)
           E == Added(C, i, a)
<1>0. /\ o.them[x] \in BOOLEAN /\ o.themPending[x] \in BOOLEAN /\ v.us[x] \in BOOLEAN
      /\ v.usAsked[x] \in BOOLEAN /\ p.them[x] \in BOOLEAN /\ p.themPending[x] \in BOOLEAN
  BY OptionPlaces DEF ItsOnly
<1>1. /\ p \in OptionTypes
      /\ \A y \in Names \ {x} : p.them[y] = o.them[y] /\ p.themPending[y] = o.themPending[y]
      /\ p.us = o.us /\ p.usPending = o.usPending /\ p.size = o.size /\ p.port = o.port
  BY DEF ItsOnly
<1> HIDE DEF D, E
<1>2. /\ E \in Seq(Sent)
      /\ \A y : Wills(E, y) = Wills(C, y)
      /\ \A y : y # x => Does(E, y) = Does(C, y)
      /\ a => Does(E, x) = Join(c, No)
      /\ ~a => E = C
      /\ c \in Seq(Answers)
  BY ItsAnswered DEF E
<1>3. /\ Wills(B, x) = Join(No, d) /\ d \in Seq(Answers)
      /\ \A y \in Names : Does(D, y) = Does(B, y)
      /\ \A y \in Names \ {x} : Wills(D, y) = Wills(B, y)
  BY OrderRead, SMTT(30), ZenonT(60) DEF D
<1>4. Its(o, C, B, v, x) /\ SizesInOrder(o, C, v)
  BY DEF InTouch
<1> HIDE DEF c, d
<1>5. Standing("us", o.them[x], o.themPending[x], v.us[x], v.usAsked[x], c, Join(No, d))
  BY <1>3, <1>4 DEF Its, c
<1>6. Its(p, E, D, v, x)
  <2>1. /\ ~a => Standing("us", p.them[x], p.themPending[x], v.us[x], v.usAsked[x], c, d)
        /\ a => Standing("us", p.them[x], p.themPending[x], v.us[x], v.usAsked[x],
                         Join(c, No), d)
    BY <1>0, <1>1, <1>2, <1>3, <1>5, FirstWord, LastWord, WordsApart DEF Standing, Join
  <2>2. Does(E, x) = IF a THEN Join(c, No) ELSE c
    BY <1>2 DEF c
  <2>3. Standing("us", p.them[x], p.themPending[x], v.us[x], v.usAsked[x], Does(E, x), d)
    BY <2>1, <2>2
  <2> QED
    BY <1>1, <2>3 DEF Its, d
<1>7. SizesInOrder(p, E, v)
  BY <1>4, ItsSizes DEF E
<1>8. InTouch(p, E, D, v)
  BY <1>1, <1>2, <1>3, <1>6, <1>7, ItsAlone
<1> QED
  BY <1>8 DEF D, E

\* Something passes that is no order, and the options stay as they are.
LEMMA PassedOn ==
  ASSUME NEW o \in OptionTypes, NEW C \in Seq(Sent), NEW E \in Seq(Sent), NEW B, NEW D,
         NEW v \in ServerTypes, InTouch(o, C, B, v), SizesInOrder(o, E, v),
         \A y \in Names : /\ Wills(E, y) = Wills(C, y) /\ Does(E, y) = Does(C, y)
                          /\ Wills(D, y) = Wills(B, y) /\ Does(D, y) = Does(B, y)
  PROVE  InTouch(o, E, D, v)
<1>1. \A y \in Names : Ours(o, E, D, v, y)
  BY OursCarried DEF InTouch
<1>2. \A y \in Names : Its(o, E, D, v, y)
  BY ItsCarried DEF InTouch
<1> QED
  BY <1>1, <1>2 DEF InTouch

LEMMA PlainRead ==
  ASSUME NEW o \in OptionTypes, NEW C \in Seq(Sent), NEW B \in Seq(Told), NEW v \in ServerTypes,
         InTouch(o, C, B, v), B # <<>>, Head(B)[1] \notin Verbs,
         NEW i \in Sent, i[1] \notin Verbs, i[1] # "SIZE", NEW a \in BOOLEAN
  PROVE  InTouch(o, Added(C, i, a), Tail(B), v) /\ InTouch(o, C, Tail(B), v)
<1> DEFINE D == Tail(B)
           E == Added(C, i, a)
<1>1. i[1] \notin {"DO", "DONT"} /\ i[1] \notin {"WILL", "WONT"}
      /\ Head(B)[1] \notin {"DO", "DONT"} /\ Head(B)[1] \notin {"WILL", "WONT"}
  BY DEF Verbs
<1> HIDE DEF D, E
<1>2. E \in Seq(Sent) /\ \A y \in Names : Wills(E, y) = Wills(C, y) /\ Does(E, y) = Does(C, y)
  BY PlainAdded DEF E
<1>3. \A y \in Names : Wills(D, y) = Wills(B, y) /\ Does(D, y) = Does(B, y)
  BY <1>1, OrderRead DEF D
<1>4. SizesInOrder(o, C, v)
  BY DEF InTouch
<1>5. SizesInOrder(o, E, v)
  BY <1>1, <1>4, NoSizeAdded DEF E
<1>6. InTouch(o, E, D, v) /\ InTouch(o, C, D, v)
  BY <1>2, <1>3, <1>4, <1>5, PassedOn
<1> QED
  BY <1>6 DEF D, E

-----------------------------------------------------------------------------
(* Reading. *)

\* What the reading of some of what was on its way leads to.
Follows(s, Q, B, v) == s \in Decoded /\ InTouch(s.o, Q \o s.replies, B, v)

LEMMA DecodedPlaces ==
  ASSUME NEW s \in Decoded
  PROVE  s.o \in OptionTypes /\ s.replies \in Seq(Sent) /\ s.afterCr \in BOOLEAN /\ s.out \in Seq(Chars)
BY DEF Decoded

\* An answer, and the options as they are now.
LEMMA RepliedOnly ==
  ASSUME NEW s \in Decoded, NEW more \in Seq(Sent)
  PROVE  /\ Reply(s, more) \in Decoded /\ Reply(s, more).o = s.o
         /\ Reply(s, more).replies = s.replies \o more
<1> DEFINE w == s.replies \o more
<1>1. w \in Seq(Sent)
  BY DecodedPlaces, ConcatProperties
<1>2. Reply(s, more) = [s EXCEPT !.replies = w]
  BY DEF Reply
<1> HIDE DEF w
<1>3. [s EXCEPT !.replies = w] \in Decoded /\ [s EXCEPT !.replies = w].o = s.o
      /\ [s EXCEPT !.replies = w].replies = w
  BY <1>1 DEF Decoded
<1> QED
  BY <1>2, <1>3 DEF w

LEMMA InPlace ==
  ASSUME NEW s \in Decoded, NEW x \in Names, NEW on \in BOOLEAN
  PROVE  /\ [s EXCEPT !.o.usPending[x] = FALSE, !.o.us[x] = on]
              = [s EXCEPT !.o = [s.o EXCEPT !.usPending[x] = FALSE, !.us[x] = on]]
         /\ [s EXCEPT !.o.themPending[x] = FALSE, !.o.them[x] = on]
              = [s EXCEPT !.o = [s.o EXCEPT !.themPending[x] = FALSE, !.them[x] = on]]
BY DEF Decoded, OptionTypes

LEMMA OneReply ==
  ASSUME NEW Q \in Seq(Sent), NEW R \in Seq(Sent), NEW i \in Sent, NEW a \in BOOLEAN
  PROVE  /\ Q \o R \in Seq(Sent) /\ Only(i, a) \in Seq(Sent)
         /\ Q \o (R \o Only(i, a)) = Added(Q \o R, i, a)
<1> DEFINE I == Only(i, a)
           P == Q \o R
<1>1. I \in Seq(Sent)
  BY AnswerAdded
<1>2. P \in Seq(Sent)
  BY ConcatProperties
<1>3. P \o I = Added(P, i, a)
  <2> HIDE DEF P
  <2> QED
    BY <1>2, AnswerAdded
<1> HIDE DEF I
<1>4. Q \o (R \o I) = P \o I
  BY <1>1, SentRegrouped DEF Join
<1> QED
  BY <1>1, <1>2, <1>3, <1>4 DEF I

\* One request or answer that arrives.
LEMMA DoRead ==
  ASSUME NEW s, NEW Q \in Seq(Sent), NEW B \in Seq(Told), B # <<>>, NEW v \in ServerTypes,
         Follows(s, Q, B, v), NEW x \in Names, Head(B)[1] = "DO", Head(B)[2] = x
  PROVE  Follows(OnDo(s, x), Q, Tail(B), v)
<1> DEFINE o == s.o
           R == s.replies
           C == Q \o R
           p == [o EXCEPT !.usPending[x] = FALSE, !.us[x] = TRUE]
<1>1. s \in Decoded /\ o \in OptionTypes /\ R \in Seq(Sent) /\ InTouch(o, C, B, v)
  BY DecodedPlaces DEF Follows
<1>2. OursOnly(o, p, x) /\ p.us[x] /\ ~p.usPending[x] /\ p \in OptionTypes
  <2>1. o \in OptionTypes
    BY <1>1
  <2> HIDE DEF o
  <2> QED
    BY <2>1 DEF OptionTypes, OursOnly
<1>3. C \in Seq(Sent)
  <2> HIDE DEF R
  <2> QED
    BY <1>1, ConcatProperties
<1>4. CASE ~LocalSupported(o, x)
  <2> DEFINE i == <<"WONT", x>>
             more == <<i>>
  <2>1. i \in Sent /\ i[1] = "WONT" /\ i[2] = x
    BY OrdersSent DEF Verbs
  <2>2. OnDo(s, x) = Reply(s, more)
    BY <1>4 DEF OnDo
  <2> HIDE DEF i
  <2>3. more \in Seq(Sent) /\ Then(C, i) = C \o more
    <3> HIDE DEF C
    <3> QED
      BY <1>3, <2>1 DEF Then
  <2> HIDE DEF more
  <2>4. Reply(s, more) \in Decoded /\ Reply(s, more).o = o /\ Reply(s, more).replies = R \o more
    BY <1>1, <2>3, RepliedOnly
  <2>5. InTouch(o, Then(C, i), Tail(B), v)
    <3> HIDE DEF o, C
    <3> QED
      BY <1>1, <1>3, <1>4, <2>1, Unsupported, SMTT(60)
  <2>6. Q \o (R \o more) = C \o more
    <3> HIDE DEF R
    <3> QED
      BY <1>1, <2>3, ConcatAssociative, SMTT(60)
  <2> QED
    BY <2>2, <2>3, <2>4, <2>5, <2>6 DEF Follows
<1>5. CASE LocalSupported(o, x) /\ o.us[x]
  <2> DEFINE t == [s EXCEPT !.o = p]
  <2>1. OnDo(s, x) = t
    BY <1>5 DEF OnDo
  <2>2. t \in Decoded /\ t.o = p /\ t.replies = R
    <3> HIDE DEF p
    <3> QED
      BY <1>1, <1>2 DEF Decoded
  <2>3. InTouch(p, C, Tail(B), v)
    <3> HIDE DEF o, C, p
    <3> QED
      BY <1>1, <1>2, <1>3, <1>5, OnAlready
  <2> HIDE DEF t
  <2> QED
    BY <2>1, <2>2, <2>3 DEF Follows
<1>6. CASE LocalSupported(o, x) /\ ~o.us[x]
  <2> DEFINE t == [s EXCEPT !.o = p]
             i == <<"WILL", x>>
             j == WindowSize(p)
             k == PortSettings(p)
             a == ~o.usPending[x]
             b == x = "NAWS"
             e == x = "COM_PORT"
             more == Only(i, a) \o Only(j, b) \o Only(k, e)
             E == Added(Added(Added(C, i, a), j, b), k, e)
  <2>1. OnDo(s, x) = Reply(t, more)
    BY <1>6 DEF OnDo
  <2>2. i \in Sent /\ i[1] = "WILL" /\ i[2] = x
    BY OrdersSent DEF Verbs
  <2>3. j \in Sent /\ k \in Sent
    <3> HIDE DEF p
    <3> QED
      BY <1>2, OthersSent
  <2>4. a \in BOOLEAN /\ b \in BOOLEAN /\ e \in BOOLEAN
    OBVIOUS
  <2>5. /\ a => ~o.usPending[x]
        /\ ~a => o.usPending[x]
        /\ b => x = "NAWS"
        /\ x = "NAWS" => b
        /\ e => x = "COM_PORT"
        /\ x = "COM_PORT" => e
        /\ j = WindowSize(p) /\ k = PortSettings(p) /\ t = [s EXCEPT !.o = p]
    OBVIOUS
  <2> HIDE DEF i, j, k, a, b, e, p, t
  <2>6. more \in Seq(Sent)
    <3>1. Only(i, a) \in Seq(Sent) /\ Only(j, b) \in Seq(Sent) /\ Only(k, e) \in Seq(Sent)
      BY <2>2, <2>3, <2>4, AnswerAdded
    <3> QED
      BY <3>1, ConcatProperties
  <2>7. Q \o (R \o more) = E
    <3> DEFINE I == Only(i, a)
               J == Only(j, b)
               K == Only(k, e)
               F == Added(C, i, a)
               G == Added(F, j, b)
    <3>1. I \in Seq(Sent) /\ J \in Seq(Sent) /\ K \in Seq(Sent) /\ R \in Seq(Sent)
      BY <1>1, <2>2, <2>3, <2>4, AnswerAdded
    <3>2. C \o I = F /\ F \in Seq(Sent)
      <4> HIDE DEF C
      <4> QED
        BY <1>3, <2>2, <2>4, AnswerAdded, AddedTypes
    <3>3. F \o J = G /\ G \in Seq(Sent)
      <4> HIDE DEF F
      <4> QED
        BY <2>3, <2>4, <3>2, AnswerAdded, AddedTypes
    <3>4. G \o K = E
      <4>1. E = Added(G, k, e)
        OBVIOUS
      <4> HIDE DEF G, E
      <4> QED
        BY <2>3, <2>4, <3>3, <4>1, AnswerAdded
    <3> HIDE DEF R, I, J, K, F, G, E
    <3>5. Q \o (R \o (I \o J \o K)) = ((C \o I) \o J) \o K
      <4>1. Join(Q, Join(R, Join(Join(I, J), K))) = Join(Join(Join(Join(Q, R), I), J), K)
        BY <3>1, Strung
      <4> QED
        BY <4>1, Zenon DEF C, Join
    <3>6. more = I \o J \o K
      BY DEF I, J, K
    <3> HIDE DEF more
    <3> QED
      BY <3>2, <3>3, <3>4, <3>5, <3>6
  <2>8. InTouch(p, E, Tail(B), v)
    <3> HIDE DEF o, C
    <3> QED
      BY <1>1, <1>2, <1>3, <1>6, <2>2, <2>3, <2>4, <2>5, TurnedOn
  <2> HIDE DEF more, E
  <2>9. /\ Reply(t, more) \in Decoded /\ Reply(t, more).o = p
        /\ Reply(t, more).replies = R \o more
    <3>1. t \in Decoded /\ t.o = p /\ t.replies = R
      BY <1>1, <1>2 DEF Decoded, t
    <3> QED
      BY <2>6, <3>1, RepliedOnly
  <2> QED
    BY <2>1, <2>7, <2>8, <2>9 DEF Follows
<1> QED
  BY <1>4, <1>5, <1>6

LEMMA DontRead ==
  ASSUME NEW s, NEW Q \in Seq(Sent), NEW B \in Seq(Told), B # <<>>, NEW v \in ServerTypes,
         Follows(s, Q, B, v), NEW x \in Names, Head(B)[1] = "DONT", Head(B)[2] = x
  PROVE  Follows(OnDont(s, x), Q, Tail(B), v)
<1> DEFINE o == s.o
           R == s.replies
           C == Q \o R
           p == [o EXCEPT !.usPending[x] = FALSE, !.us[x] = FALSE]
           t == [s EXCEPT !.o = p]
           i == <<"WONT", x>>
           a == o.us[x] /\ ~o.usPending[x]
           more == Only(i, a)
<1>1. s \in Decoded /\ o \in OptionTypes /\ R \in Seq(Sent) /\ InTouch(o, C, B, v)
  BY DecodedPlaces DEF Follows
<1>2. OursOnly(o, p, x) /\ ~p.us[x] /\ ~p.usPending[x] /\ p \in OptionTypes
  <2>1. o \in OptionTypes
    BY <1>1
  <2> HIDE DEF o
  <2> QED
    BY <2>1 DEF OptionTypes, OursOnly
<1>3. OnDont(s, x) = Reply(t, more)
  BY <1>1, InPlace DEF OnDont
<1>4. i \in Sent /\ i[1] = "WONT" /\ i[2] = x /\ a \in BOOLEAN
  BY OrdersSent DEF Verbs
<1>5. a <=> o.us[x] /\ ~o.usPending[x]
  OBVIOUS
<1>6. t \in Decoded /\ t.o = p /\ t.replies = R
  <2> HIDE DEF p
  <2> QED
    BY <1>1, <1>2 DEF Decoded
<1> HIDE DEF p, i, a, t
<1>7. C \in Seq(Sent) /\ more \in Seq(Sent) /\ Q \o (R \o more) = Added(C, i, a)
  <2> HIDE DEF R
  <2> QED
    BY <1>1, <1>4, OneReply
<1>8. InTouch(p, Added(C, i, a), Tail(B), v)
  <2> HIDE DEF o, C
  <2> QED
    BY <1>1, <1>2, <1>4, <1>5, <1>7, TurnedOff
<1> HIDE DEF more
<1>9. Reply(t, more) \in Decoded /\ Reply(t, more).o = p /\ Reply(t, more).replies = R \o more
  BY <1>6, <1>7, RepliedOnly
<1> QED
  BY <1>3, <1>7, <1>8, <1>9 DEF Follows

LEMMA WontRead ==
  ASSUME NEW s, NEW Q \in Seq(Sent), NEW B \in Seq(Told), B # <<>>, NEW v \in ServerTypes,
         Follows(s, Q, B, v), NEW x \in Names, Head(B)[1] = "WONT", Head(B)[2] = x
  PROVE  Follows(OnWont(s, x), Q, Tail(B), v)
<1> DEFINE o == s.o
           R == s.replies
           C == Q \o R
           p == [o EXCEPT !.themPending[x] = FALSE, !.them[x] = FALSE]
           t == [s EXCEPT !.o = p]
           i == <<"DONT", x>>
           a == o.them[x] /\ ~o.themPending[x]
           more == Only(i, a)
<1>1. s \in Decoded /\ o \in OptionTypes /\ R \in Seq(Sent) /\ InTouch(o, C, B, v)
  BY DecodedPlaces DEF Follows
<1>2. ItsOnly(o, p, x) /\ ~p.them[x] /\ ~p.themPending[x] /\ p \in OptionTypes
  <2>1. o \in OptionTypes
    BY <1>1
  <2> HIDE DEF o
  <2> QED
    BY <2>1 DEF OptionTypes, ItsOnly
<1>3. OnWont(s, x) = Reply(t, more)
  BY <1>1, InPlace DEF OnWont
<1>4. i \in Sent /\ i[1] = "DONT" /\ i[2] = x /\ a \in BOOLEAN
  BY OrdersSent DEF Verbs
<1>5. a <=> o.them[x] /\ ~o.themPending[x]
  OBVIOUS
<1>6. t \in Decoded /\ t.o = p /\ t.replies = R
  <2> HIDE DEF p
  <2> QED
    BY <1>1, <1>2 DEF Decoded
<1> HIDE DEF p, i, a, t
<1>7. C \in Seq(Sent) /\ more \in Seq(Sent) /\ Q \o (R \o more) = Added(C, i, a)
  <2> HIDE DEF R
  <2> QED
    BY <1>1, <1>4, OneReply
<1>8. InTouch(p, Added(C, i, a), Tail(B), v)
  <2> HIDE DEF o, C
  <2> QED
    BY <1>1, <1>2, <1>4, <1>5, <1>7, Withdrawn
<1> HIDE DEF more
<1>9. Reply(t, more) \in Decoded /\ Reply(t, more).o = p /\ Reply(t, more).replies = R \o more
  BY <1>6, <1>7, RepliedOnly
<1> QED
  BY <1>3, <1>7, <1>8, <1>9 DEF Follows

LEMMA WillRead ==
  ASSUME NEW s, NEW Q \in Seq(Sent), NEW B \in Seq(Told), B # <<>>, NEW v \in ServerTypes,
         Follows(s, Q, B, v), NEW x \in Names, Head(B)[1] = "WILL", Head(B)[2] = x,
         RemoteSupported(x)
  PROVE  Follows(OnWill(s, x), Q, Tail(B), v)
<1> DEFINE o == s.o
           R == s.replies
           C == Q \o R
           p == [o EXCEPT !.themPending[x] = FALSE, !.them[x] = TRUE]
           t == [s EXCEPT !.o = p]
           i == <<"DO", x>>
           a == ~o.them[x] /\ ~o.themPending[x]
           more == Only(i, a)
<1>1. s \in Decoded /\ o \in OptionTypes /\ R \in Seq(Sent) /\ InTouch(o, C, B, v)
  BY DecodedPlaces DEF Follows
<1>2. ItsOnly(o, p, x) /\ p.them[x] /\ ~p.themPending[x] /\ p \in OptionTypes
  <2>1. o \in OptionTypes
    BY <1>1
  <2> HIDE DEF o
  <2> QED
    BY <2>1 DEF OptionTypes, ItsOnly
<1>3. OnWill(s, x) = Reply(t, more)
  BY <1>1, InPlace DEF OnWill
<1>4. i \in Sent /\ i[1] = "DO" /\ i[2] = x /\ a \in BOOLEAN
  BY OrdersSent DEF Verbs
<1>5. a <=> ~o.them[x] /\ ~o.themPending[x]
  OBVIOUS
<1>6. t \in Decoded /\ t.o = p /\ t.replies = R
  <2> HIDE DEF p
  <2> QED
    BY <1>1, <1>2 DEF Decoded
<1> HIDE DEF p, i, a, t
<1>7. C \in Seq(Sent) /\ more \in Seq(Sent) /\ Q \o (R \o more) = Added(C, i, a)
  <2> HIDE DEF R
  <2> QED
    BY <1>1, <1>4, OneReply
<1>8. InTouch(p, Added(C, i, a), Tail(B), v)
  <2> HIDE DEF o, C
  <2> QED
    BY <1>1, <1>2, <1>4, <1>5, <1>7, TakenUp
<1> HIDE DEF more
<1>9. Reply(t, more) \in Decoded /\ Reply(t, more).o = p /\ Reply(t, more).replies = R \o more
  BY <1>6, <1>7, RepliedOnly
<1> QED
  BY <1>3, <1>7, <1>8, <1>9 DEF Follows

LEMMA WillRefused ==
  ASSUME NEW s, NEW Q \in Seq(Sent), NEW B \in Seq(Told), B # <<>>, NEW v \in ServerTypes,
         Follows(s, Q, B, v), NEW x \in Names, Head(B)[1] = "WILL", Head(B)[2] = x,
         ~RemoteSupported(x)
  PROVE  Follows(OnWill(s, x), Q, Tail(B), v)
<1> DEFINE o == s.o
           R == s.replies
           C == Q \o R
           i == <<"DONT", x>>
           more == <<i>>
<1>1. s \in Decoded /\ o \in OptionTypes /\ R \in Seq(Sent) /\ InTouch(o, C, B, v)
  BY DecodedPlaces DEF Follows
<1>2. C \in Seq(Sent)
  <2> HIDE DEF R
  <2> QED
    BY <1>1, ConcatProperties
<1>3. i \in Sent /\ i[1] = "DONT" /\ i[2] = x
  BY OrdersSent DEF Verbs
<1>4. OnWill(s, x) = Reply(s, more)
  BY DEF OnWill
<1> HIDE DEF i
<1>5. more \in Seq(Sent) /\ Then(C, i) = C \o more
  <2> HIDE DEF C
  <2> QED
    BY <1>2, <1>3 DEF Then
<1> HIDE DEF more
<1>6. Reply(s, more) \in Decoded /\ Reply(s, more).o = o /\ Reply(s, more).replies = R \o more
  BY <1>1, <1>5, RepliedOnly
<1>7. InTouch(o, Then(C, i), Tail(B), v)
  <2> HIDE DEF o, C
  <2> QED
    BY <1>1, <1>2, <1>3, Unwanted, SMTT(60)
<1>8. Q \o (R \o more) = C \o more
  <2> HIDE DEF R
  <2> QED
    BY <1>1, <1>5, ConcatAssociative, SMTT(60)
<1> QED
  BY <1>4, <1>5, <1>6, <1>7, <1>8 DEF Follows

\* What is no order.
LEMMA OthersRead ==
  ASSUME NEW s, NEW Q \in Seq(Sent), NEW B \in Seq(Told), B # <<>>, NEW v \in ServerTypes,
         Follows(s, Q, B, v)
  PROVE  /\ Head(B)[1] = "CHAR" /\ Head(B)[2] \in Chars =>
              Follows(OnCharacter(s, Head(B)[2]), Q, Tail(B), v)
         /\ Head(B)[1] = "SEND" => Follows(Subnegotiation(s), Q, Tail(B), v)
<1> DEFINE o == s.o
           R == s.replies
           C == Q \o R
           i == <<"NAME", 0>>
           a == o.us["TTYPE"]
           more == Only(i, a)
           c == Head(B)[2]
<1>1. s \in Decoded /\ o \in OptionTypes /\ R \in Seq(Sent) /\ InTouch(o, C, B, v)
  BY DecodedPlaces DEF Follows
<1>2. i \in Sent /\ i[1] = "NAME" /\ i[1] \notin Verbs /\ i[1] # "SIZE"
  BY DEF Sent, Verbs
<1>3. a \in BOOLEAN
  BY <1>1 DEF OptionTypes, Names
<1> HIDE DEF i, a
<1>4. C \in Seq(Sent) /\ more \in Seq(Sent) /\ Q \o (R \o more) = Added(C, i, a)
  <2> HIDE DEF R
  <2> QED
    BY <1>1, <1>2, <1>3, OneReply
<1>5. ASSUME Head(B)[1] \notin Verbs
      PROVE  InTouch(o, Added(C, i, a), Tail(B), v) /\ InTouch(o, C, Tail(B), v)
  <2> HIDE DEF o, C
  <2> QED
    BY <1>1, <1>2, <1>3, <1>4, <1>5, PlainRead
<1>6. ASSUME Head(B)[1] = "CHAR", c \in Chars
      PROVE  Follows(OnCharacter(s, c), Q, Tail(B), v)
  <2>1. Head(B)[1] \notin Verbs
    BY <1>6 DEF Verbs
  <2> DEFINE n == OnCharacter(s, c)
  <2>2. n \in Decoded /\ n.o = o /\ n.replies = R
    <3> HIDE DEF c
    <3>1. Append(s.out, c) \in Seq(Chars)
      BY <1>1, <1>6, DecodedPlaces
    <3> QED
      BY <1>1, <3>1 DEF OnCharacter, Decoded
  <2> HIDE DEF n
  <2>3. Follows(n, Q, Tail(B), v)
    BY <1>5, <2>1, <2>2 DEF Follows
  <2> QED
    BY <2>3 DEF n
<1>7. ASSUME Head(B)[1] = "SEND"
      PROVE  Follows(Subnegotiation(s), Q, Tail(B), v)
  <2>1. Head(B)[1] \notin Verbs
    BY <1>7 DEF Verbs
  <2>2. Subnegotiation(s) = Reply(s, more)
    BY DEF Subnegotiation, i, a
  <2> HIDE DEF more
  <2>3. Reply(s, more) \in Decoded /\ Reply(s, more).o = o /\ Reply(s, more).replies = R \o more
    BY <1>1, <1>4, RepliedOnly
  <2> QED
    BY <1>4, <1>5, <2>1, <2>2, <2>3 DEF Follows
<1> QED
  BY <1>6, <1>7

\* The wait for a null is nothing to the options.
LEMMA WaitEnded ==
  ASSUME NEW s, NEW Q, NEW B, NEW v, Follows(s, Q, B, v)
  PROVE  Follows([s EXCEPT !.afterCr = FALSE], Q, B, v)
<1>1. s \in Decoded /\ InTouch(s.o, Q \o s.replies, B, v)
  BY DEF Follows
<1> DEFINE t == [s EXCEPT !.afterCr = FALSE]
<1>2. t \in Decoded /\ t.o = s.o /\ t.replies = s.replies
  BY <1>1 DEF Decoded
<1> HIDE DEF t
<1>3. Follows(t, Q, B, v)
  BY <1>1, <1>2 DEF Follows
<1> QED
  BY <1>3 DEF t

\* One thing that arrives.
LEMMA ReadOne ==
  ASSUME NEW s, NEW Q \in Seq(Sent), NEW B \in Seq(Told), B # <<>>, NEW v \in ServerTypes,
         Follows(s, Q, B, v)
  PROVE  Follows(DecodeOne(s, Head(B)), Q, Tail(B), v)
<1> DEFINE h == Head(B)
           x == h[2]
<1>1. h \in Told
  OBVIOUS
<1>2. \/ h[1] \in Verbs /\ x \in Names
      \/ h[1] = "CHAR" /\ x \in Chars
      \/ h[1] = "SEND"
  BY <1>1 DEF Told, Orders
<1> HIDE DEF h
<1>3. CASE h[1] = "DO" /\ x \in Names
  <2>1. Follows(OnDo(s, x), Q, Tail(B), v)
    BY <1>3, DoRead DEF h
  <2>2. DecodeOne(s, h) = [OnDo(s, x) EXCEPT !.afterCr = FALSE]
    BY <1>3 DEF DecodeOne, Negotiate
  <2> QED
    BY <2>1, <2>2, WaitEnded DEF h
<1>4. CASE h[1] = "DONT" /\ x \in Names
  <2>1. Follows(OnDont(s, x), Q, Tail(B), v)
    BY <1>4, DontRead DEF h
  <2>2. DecodeOne(s, h) = [OnDont(s, x) EXCEPT !.afterCr = FALSE]
    BY <1>4 DEF DecodeOne, Negotiate
  <2> QED
    BY <2>1, <2>2, WaitEnded DEF h
<1>5. CASE h[1] = "WILL" /\ x \in Names
  <2>1. Follows(OnWill(s, x), Q, Tail(B), v)
    BY <1>5, WillRead, WillRefused DEF h
  <2>2. DecodeOne(s, h) = [OnWill(s, x) EXCEPT !.afterCr = FALSE]
    BY <1>5 DEF DecodeOne, Negotiate
  <2> QED
    BY <2>1, <2>2, WaitEnded DEF h
<1>6. CASE h[1] = "WONT" /\ x \in Names
  <2>1. Follows(OnWont(s, x), Q, Tail(B), v)
    BY <1>6, WontRead DEF h
  <2>2. DecodeOne(s, h) = [OnWont(s, x) EXCEPT !.afterCr = FALSE]
    BY <1>6 DEF DecodeOne, Negotiate
  <2> QED
    BY <2>1, <2>2, WaitEnded DEF h
<1>7. CASE h[1] = "CHAR" /\ x \in Chars
  <2>1. Follows(OnCharacter(s, x), Q, Tail(B), v)
    BY <1>7, OthersRead DEF h
  <2>2. DecodeOne(s, h) = OnCharacter(s, x)
    BY <1>7 DEF DecodeOne
  <2> QED
    BY <2>1, <2>2 DEF h
<1>8. CASE h[1] = "SEND"
  <2>1. Follows(Subnegotiation(s), Q, Tail(B), v)
    BY <1>8, OthersRead DEF h
  <2>2. DecodeOne(s, h) = [Subnegotiation(s) EXCEPT !.afterCr = FALSE]
    BY <1>8 DEF DecodeOne
  <2> QED
    BY <2>1, <2>2, WaitEnded DEF h
<1> QED
  BY <1>2, <1>3, <1>4, <1>5, <1>6, <1>7, <1>8 DEF Verbs

\* What is left of a sequence begins with its next.
LEMMA Rest ==
  ASSUME NEW S, NEW B \in Seq(S), NEW n \in 1 .. Len(B)
  PROVE  LET D == SubSeq(B, n, Len(B)) IN
           /\ D \in Seq(S) /\ D # <<>> /\ Head(D) = B[n]
           /\ Tail(D) = SubSeq(B, n + 1, Len(B))
<1> DEFINE D == SubSeq(B, n, Len(B))
           G == SubSeq(B, n + 1, Len(B))
<1>1. /\ D \in Seq(S) /\ Len(D) = (Len(B) - n) + 1 /\ Len(B) \in Nat
      /\ \A k \in 1 .. (Len(B) - n) + 1 : D[k] = B[(n + k) - 1]
  OBVIOUS
<1>2. /\ G \in Seq(S) /\ Len(G) = Len(B) - n
      /\ \A k \in 1 .. Len(B) - n : G[k] = B[n + k]
  OBVIOUS
<1> HIDE DEF D, G
<1>3. D # <<>> /\ Head(D) = D[1] /\ D[1] = B[n]
  BY <1>1
<1>4. /\ Tail(D) \in Seq(S) /\ Len(Tail(D)) = Len(B) - n
      /\ \A k \in 1 .. Len(B) - n : Tail(D)[k] = D[k + 1]
  BY <1>1, <1>3
<1>5. \A k \in 1 .. Len(B) - n : D[k + 1] = B[n + k]
  BY <1>1
<1> DEFINE t == Tail(D)
<1> HIDE DEF t
<1>6. t \in Seq(S) /\ Len(t) = Len(G) /\ \A k \in 1 .. Len(G) : t[k] = G[k]
  BY <1>2, <1>4, <1>5 DEF t
<1>7. t = G
  BY <1>2, <1>6, SamePlaces
<1> QED
  BY <1>1, <1>3, <1>7 DEF D, G, t

\* Everything that one read takes in.
LEMMA FollowsOn ==
  ASSUME NEW Q \in Seq(Sent), NEW B \in Seq(Told), NEW v \in ServerTypes, NEW f,
         NEW len \in 0 .. Len(B), Follows(f[0], Q, B, v),
         \A n \in 1 .. len : Follows(f[n - 1], Q, SubSeq(B, n, Len(B)), v)
                                => f[n] = DecodeOne(f[n - 1], B[n])
  PROVE  \A n \in 0 .. len : Follows(f[n], Q, SubSeq(B, n + 1, Len(B)), v)
<1> DEFINE T == {n \in Nat : n <= len => Follows(f[n], Q, SubSeq(B, n + 1, Len(B)), v)}
<1>1. 0 \in T
  <2>1. SubSeq(B, 0 + 1, Len(B)) = B
    OBVIOUS
  <2> QED
    BY <2>1
<1>2. ASSUME NEW n \in Nat, n \in T PROVE n + 1 \in T
  <2> SUFFICES ASSUME n + 1 <= len
               PROVE  Follows(f[n + 1], Q, SubSeq(B, (n + 1) + 1, Len(B)), v)
    OBVIOUS
  <2> DEFINE D == SubSeq(B, n + 1, Len(B))
  <2>1. n + 1 \in 1 .. len /\ (n + 1) - 1 = n /\ n + 1 \in 1 .. Len(B)
    OBVIOUS
  <2>2. Follows(f[n], Q, D, v)
    BY <1>2
  <2>3. f[n + 1] = DecodeOne(f[n], B[n + 1])
    BY <2>1, <2>2
  <2>4. /\ D \in Seq(Told) /\ D # <<>> /\ Head(D) = B[n + 1]
        /\ Tail(D) = SubSeq(B, (n + 1) + 1, Len(B))
    BY <2>1, Rest
  <2> HIDE DEF D
  <2>5. Follows(DecodeOne(f[n], Head(D)), Q, Tail(D), v)
    BY <2>2, <2>4, ReadOne
  <2> QED
    BY <2>3, <2>4, <2>5
<1> HIDE DEF T
<1>3. Nat \subseteq T
  BY <1>1, <1>2, NumbersUpTo
<1> QED
  BY <1>3 DEF T

HasRun(X, base, len, Step) ==
  \E f \in [0 .. len -> X] : f[0] = base /\ \A n \in 1 .. len : f[n] = Step[n][f[n - 1]]

LEMMA RunThereIs ==
  ASSUME NEW X, NEW base \in X, NEW len \in Nat, NEW Step \in [1 .. len -> [X -> X]]
  PROVE  HasRun(X, base, len, Step)
BY Runs DEF HasRun

\* A whole read.
LEMMA DecodeFollows ==
  ASSUME NEW Q \in Seq(Sent), NEW B \in Seq(Told), NEW v \in ServerTypes, NEW cr \in BOOLEAN,
         options \in OptionTypes, InTouch(options, Q, B, v), NEW n \in 1 .. Len(B)
  PROVE  Follows(Decode(SubSeq(B, 1, n), cr), Q, SubSeq(B, n + 1, Len(B)), v)
<1> DEFINE chunk == SubSeq(B, 1, n)
           base == [o |-> options, afterCr |-> cr, out |-> <<>>, replies |-> <<>>]
           One(w, k) == DecodeOne(w, chunk[k])
           Is(f) == f = [k \in 0 .. Len(chunk) |-> IF k = 0 THEN base ELSE One(f[k - 1], k)]
           Rests(k) == SubSeq(B, k, Len(B))
<1>1. /\ Len(chunk) = n /\ n \in Nat /\ Len(B) \in Nat /\ n <= Len(B)
      /\ \A k \in 1 .. n : chunk[k] = B[k] /\ k \in 1 .. Len(B)
  OBVIOUS
<1>2. Follows(base, Q, B, v)
  <2>1. <<>> \in Seq(Chars) /\ <<>> \in Seq(Sent)
    BY EmptySeq
  <2>2. base \in Decoded /\ base.o = options /\ base.replies = <<>>
    BY <2>1 DEF Decoded
  <2>3. Q \o <<>> = Q
    BY ConcatEmptySeq
  <2> HIDE DEF base
  <2> QED
    BY <2>2, <2>3 DEF Follows
<1> HIDE DEF chunk, base
<1>3. ASSUME NEW f, NEW k \in 1 .. n, Follows(f[k - 1], Q, Rests(k), v)
      PROVE  One(f[k - 1], k) \in Decoded /\ f[k - 1] \in Decoded
  <2>1. Rests(k) \in Seq(Told) /\ Rests(k) # <<>> /\ Head(Rests(k)) = chunk[k]
    BY <1>1, Rest
  <2> HIDE DEF Rests
  <2>2. Follows(One(f[k - 1], k), Q, Tail(Rests(k)), v)
    BY <1>3, <2>1, ReadOne
  <2> HIDE DEF One
  <2> QED
    BY <1>3, <2>2 DEF Follows
<1> HIDE DEF One
<1>4. ASSUME NEW f, f[0] = base,
             \A k \in 1 .. n : Follows(f[k - 1], Q, Rests(k), v) => f[k] = One(f[k - 1], k)
      PROVE  \A k \in 0 .. n : Follows(f[k], Q, SubSeq(B, k + 1, Len(B)), v)
  <2>1. Follows(f[0], Q, B, v) /\ n \in 0 .. Len(B)
    BY <1>1, <1>2, <1>4
  <2>2. \A k \in 1 .. n : Follows(f[k - 1], Q, SubSeq(B, k, Len(B)), v)
                             => f[k] = DecodeOne(f[k - 1], B[k])
    BY <1>1, <1>4 DEF One
  <2> QED
    BY <2>1, <2>2, FollowsOn
<1>5. \E f : Is(f)
  <2> DEFINE Step == [k \in 1 .. n |-> [w \in Decoded |->
                        IF One(w, k) \in Decoded THEN One(w, k) ELSE w]]
  <2>1. Step \in [1 .. n -> [Decoded -> Decoded]]
    OBVIOUS
  <2>2. base \in Decoded
    BY <1>2 DEF Follows
  <2>3. PICK f \in [0 .. n -> Decoded] :
                f[0] = base /\ \A k \in 1 .. n : f[k] = Step[k][f[k - 1]]
    <3> DEFINE X == Decoded
               len == n
    <3>1. base \in X /\ len \in Nat /\ Step \in [1 .. len -> [X -> X]]
      BY <1>1, <2>1, <2>2
    <3> HIDE DEF Step, X, len
    <3>2. HasRun(X, base, len, Step)
      BY <3>1, RunThereIs
    <3> QED
      BY <3>2 DEF HasRun, X, len
  <2>4. \A k \in 1 .. n : Follows(f[k - 1], Q, Rests(k), v) => f[k] = One(f[k - 1], k)
    <3> SUFFICES ASSUME NEW k \in 1 .. n, Follows(f[k - 1], Q, Rests(k), v)
                 PROVE  f[k] = One(f[k - 1], k)
      OBVIOUS
    <3>1. One(f[k - 1], k) \in Decoded /\ f[k - 1] \in Decoded
      BY <1>3
    <3>2. f[k] = Step[k][f[k - 1]]
      BY <2>3
    <3> HIDE DEF Rests
    <3> QED
      BY <3>1, <3>2
  <2>5. \A k \in 0 .. n : Follows(f[k], Q, SubSeq(B, k + 1, Len(B)), v)
    BY <1>4, <2>3, <2>4
  <2>6. ASSUME NEW k \in 1 .. n PROVE f[k] = One(f[k - 1], k)
    <3>1. k - 1 \in 0 .. n /\ (k - 1) + 1 = k
      BY <1>1
    <3>2. Follows(f[k - 1], Q, Rests(k), v)
      BY <2>5, <3>1
    <3> QED
      BY <2>4, <3>2
  <2>7. \A k \in 0 .. n : k = 0 \/ k \in 1 .. n
    BY <1>1
  <2>8. \A k \in 0 .. n : f[k] = IF k = 0 THEN base ELSE One(f[k - 1], k)
    BY <2>3, <2>6, <2>7
  <2>9. f = [k \in 0 .. n |-> f[k]]
    BY <2>3
  <2> HIDE DEF Step
  <2>10. f = [k \in 0 .. n |-> IF k = 0 THEN base ELSE One(f[k - 1], k)]
    BY <2>8, <2>9
  <2> QED
    BY <1>1, <2>10
<1> DEFINE g == CHOOSE f : Is(f)
<1>6. Is(g)
  <2> HIDE DEF Is
  <2> QED
    BY <1>5
<1>7. Decode(chunk, cr) = g[n]
  BY <1>1, Zenon DEF Decode, base, One
<1> HIDE DEF g
<1>8. g[0] = base /\ \A k \in 1 .. n : g[k] = One(g[k - 1], k)
  BY <1>1, <1>6
<1>9. Follows(g[n], Q, SubSeq(B, n + 1, Len(B)), v)
  BY <1>1, <1>4, <1>8
<1> QED
  BY <1>7, <1>9 DEF chunk

-----------------------------------------------------------------------------
(* Writing. *)

\* What is typed is sent as characters.
LEMMA EncodeTypes ==
  ASSUME NEW data \in Seq(Chars), NEW binary
  PROVE  Encode(data, binary) \in Texts
<1> DEFINE len == Len(data)
           Piece(n) == <<<<"CHAR", data[n]>>>>
           Null(n) == Only(<<"CHAR", "nul">>, data[n] = "cr" /\ ~binary
                             /\ ~(n < Len(data) /\ data[n + 1] = "lf"))
           One(w, n) == w \o Piece(n) \o Null(n)
           Is(f) == f = [n \in 0 .. Len(data) |-> IF n = 0 THEN <<>> ELSE One(f[n - 1], n)]
           base == <<>>
           X == Texts
<1>1. len \in Nat /\ base \in X
  BY DEF Texts
<1>2. ASSUME NEW n \in 1 .. len, NEW w \in X PROVE One(w, n) \in X
  <2>1. Piece(n) \in Texts
    <3>1. data[n] \in Chars
      OBVIOUS
    <3> QED
      BY <3>1 DEF Texts
  <2>2. Null(n) \in Texts
    <3>1. <<>> \in Texts /\ <<<<"CHAR", "nul">>>> \in Texts
      BY DEF Texts, Chars
    <3>2. Null(n) = <<>> \/ Null(n) = <<<<"CHAR", "nul">>>>
      BY DEF Only
    <3> QED
      BY <3>1, <3>2, Zenon
  <2> HIDE DEF Piece, Null
  <2> QED
    BY <1>2, <2>1, <2>2, ConcatProperties DEF Texts
<1> DEFINE Step == [n \in 1 .. len |-> [w \in X |-> One(w, n)]]
<1> HIDE DEF One, base, X, len
<1>3. Step \in [1 .. len -> [X -> X]]
  BY <1>2
<1>4. \E f \in [0 .. len -> X] : Is(f)
  <2>1. HasRun(X, base, len, Step)
    <3> HIDE DEF Step
    <3> QED
      BY <1>1, <1>3, RunThereIs
  <2>2. PICK f \in [0 .. len -> X] :
                f[0] = base /\ \A n \in 1 .. len : f[n] = Step[n][f[n - 1]]
    <3> HIDE DEF Step
    <3> QED
      BY <2>1 DEF HasRun
  <2>3. ASSUME NEW n \in 1 .. len PROVE f[n] = One(f[n - 1], n)
    <3>1. n - 1 \in 0 .. len /\ f[n - 1] \in X
      BY <1>1, <2>2
    <3> QED
      BY <2>2, <3>1
  <2>4. \A n \in 0 .. len : n = 0 \/ n \in 1 .. len
    BY <1>1
  <2> HIDE DEF Step
  <2>5. \A n \in 0 .. len : f[n] = IF n = 0 THEN base ELSE One(f[n - 1], n)
    BY <2>2, <2>3, <2>4
  <2>6. f = [n \in 0 .. len |-> f[n]]
    BY <2>2
  <2>7. f = [n \in 0 .. len |-> IF n = 0 THEN base ELSE One(f[n - 1], n)]
    BY <2>5, <2>6
  <2> QED
    BY <2>7 DEF len, base
<1> DEFINE g == CHOOSE f : Is(f)
<1>5. Is(g)
  <2> HIDE DEF Is
  <2> QED
    BY <1>4
<1>6. Encode(data, binary) = g[len]
  BY Zenon DEF Encode, One, len
<1> HIDE DEF g
<1>7. g[0] = base /\ \A n \in 1 .. len : g[n] = One(g[n - 1], n)
  BY <1>1, <1>5 DEF len, base
<1> DEFINE T == {n \in Nat : n <= len => g[n] \in X}
<1>8. 0 \in T
  BY <1>1, <1>7
<1>9. ASSUME NEW n \in Nat, n \in T PROVE n + 1 \in T
  <2> SUFFICES ASSUME n + 1 <= len PROVE g[n + 1] \in X
    OBVIOUS
  <2>1. n + 1 \in 1 .. len /\ (n + 1) - 1 = n /\ g[n] \in X
    BY <1>1, <1>9
  <2>2. One(g[n], n + 1) \in X
    BY <1>2, <2>1
  <2>3. g[n + 1] = One(g[n], n + 1)
    BY <1>7, <2>1
  <2> QED
    BY <2>2, <2>3
<1> HIDE DEF T
<1>10. Nat \subseteq T
  BY <1>8, <1>9, NumbersUpTo
<1>11. g[len] \in X
  BY <1>1, <1>10 DEF T
<1> QED
  BY <1>6, <1>11 DEF X

\* A new size.
LEMMA NewSize ==
  ASSUME NEW o \in OptionTypes, NEW C \in Seq(Sent), NEW B, NEW v \in ServerTypes,
         InTouch(o, C, B, v), NEW p, p = [o EXCEPT !.size = @ + 1],
         NEW i, i = WindowSize(p)
  PROVE  p \in OptionTypes /\ i \in Sent /\ InTouch(p, Added(C, i, p.us["NAWS"]), B, v)
<1> DEFINE a == p.us["NAWS"]
           E == Added(C, i, a)
<1>1. /\ p \in OptionTypes /\ p.us = o.us /\ p.usPending = o.usPending
      /\ p.them = o.them /\ p.themPending = o.themPending /\ p.port = o.port
  <2> DEFINE size == o.size + 1
  <2>1. size \in Nat
    BY DEF OptionTypes
  <2>2. p = [o EXCEPT !.size = size]
    OBVIOUS
  <2> HIDE DEF size
  <2> QED
    BY <2>1, <2>2 DEF OptionTypes
<1>2. i \in Sent /\ i[1] \notin Verbs
  <2>1. WindowSize(p) \in Sent /\ WindowSize(p)[1] \notin Verbs
    BY <1>1, OthersSent
  <2> QED
    BY <2>1
<1>3. E \in Seq(Sent) /\ \A y : Wills(E, y) = Wills(C, y) /\ Does(E, y) = Does(C, y)
  <2>1. a \in BOOLEAN
    BY <1>1 DEF OptionTypes, Names
  <2> HIDE DEF a
  <2> QED
    BY <1>2, <2>1, PlainAdded
<1>4. SizesInOrder(o, C, v) /\ Ours(o, C, B, v, "NAWS")
  BY DEF InTouch, Names
<1>5. SizesInOrder(p, E, v)
  <2>1. CASE a
    <3>1. (Wills(C, "NAWS") = <<>> /\ v.them["NAWS"]) \/ (Wills(C, "NAWS") = Yes /\ v.themAsked["NAWS"])
      BY <1>1, <1>4, <2>1 DEF Ours, Standing
    <3>2. SizesInOrder(p, Then(C, i), v)
      BY <1>1, <1>4, <3>1, SizeAppended DEF NawsWords, SizesInOrder
    <3> QED
      BY <2>1, <3>2 DEF Added
  <2>2. CASE ~a
    <3>1. SizesInOrder(p, C, v)
      BY <1>1, <1>4, <2>2 DEF SizesInOrder
    <3> QED
      BY <2>2, <3>1 DEF Added
  <2> QED
    BY <2>1, <2>2
<1> HIDE DEF E
<1>6. \A y \in Names : Ours(p, E, B, v, y)
  <2>1. \A y \in Names : LocalSupported(o, y) => LocalSupported(p, y)
    BY <1>1 DEF LocalSupported
  <2> QED
    BY <1>1, <1>3, <2>1, OursCarried DEF InTouch
<1>7. \A y \in Names : Its(p, E, B, v, y)
  BY <1>1, <1>3, ItsCarried DEF InTouch
<1> QED
  BY <1>1, <1>2, <1>5, <1>6, <1>7 DEF InTouch, E

LEMMA JoinPlaces ==
  ASSUME NEW u \in Seq(Sent), NEW w \in Seq(Sent)
  PROVE  /\ Join(u, w) \in Seq(Sent) /\ Len(Join(u, w)) = Len(u) + Len(w)
         /\ \A k \in 1 .. Len(u) : Join(u, w)[k] = u[k]
         /\ \A k \in 1 .. Len(w) : Join(u, w)[Len(u) + k] = w[k]
BY DEF Join

\* What is written is between what is on its way and the answers still to be
\* written, and it is neither an order nor a size.
LEMMA Places ==
  ASSUME NEW A \in Seq(Sent), NEW M \in Seq(Sent), NEW R \in Seq(Sent),
         NEW C, C = A \o R, NEW E, E = (A \o M) \o R
  PROVE  /\ C \in Seq(Sent) /\ E \in Seq(Sent) /\ Len(C) = Len(A) + Len(R)
         /\ Len(E) = Len(A) + Len(M) + Len(R) /\ Len(A) \in Nat /\ Len(M) \in Nat /\ Len(R) \in Nat
         /\ \A k \in 1 .. Len(A) : E[k] = C[k]
         /\ \A k \in 1 .. Len(M) : E[Len(A) + k] = M[k]
         /\ \A k \in 1 .. Len(R) : E[Len(A) + Len(M) + k] = C[Len(A) + k]
<1> DEFINE B == A \o M
<1>1. /\ B \in Seq(Sent) /\ Len(B) = Len(A) + Len(M) /\ Len(A) \in Nat /\ Len(M) \in Nat
      /\ \A k \in 1 .. Len(A) : B[k] = A[k]
      /\ \A k \in 1 .. Len(M) : B[Len(A) + k] = M[k]
  OBVIOUS
<1>2. /\ C \in Seq(Sent) /\ Len(C) = Len(A) + Len(R) /\ Len(R) \in Nat
      /\ \A k \in 1 .. Len(A) : C[k] = A[k]
      /\ \A k \in 1 .. Len(R) : C[Len(A) + k] = R[k]
  OBVIOUS
<1> HIDE DEF B
<1>3. /\ E \in Seq(Sent) /\ Len(E) = Len(B) + Len(R)
      /\ \A k \in 1 .. Len(B) : E[k] = B[k]
      /\ \A k \in 1 .. Len(R) : E[Len(B) + k] = R[k]
  <2>1. E = Join(B, R)
    BY DEF B, Join
  <2> DEFINE F == Join(B, R)
  <2>2. /\ F \in Seq(Sent) /\ Len(F) = Len(B) + Len(R)
        /\ \A k \in 1 .. Len(B) : F[k] = B[k]
        /\ \A k \in 1 .. Len(R) : F[Len(B) + k] = R[k]
    BY <1>1, JoinPlaces
  <2> HIDE DEF F
  <2>3. E = F
    BY <2>1 DEF F
  <2> QED
    BY <2>2, <2>3
<1>4. \A k \in 1 .. Len(A) : E[k] = C[k]
  BY <1>1, <1>2, <1>3
<1>5. \A k \in 1 .. Len(M) : E[Len(A) + k] = M[k]
  BY <1>1, <1>3
<1>6. \A k \in 1 .. Len(R) : E[Len(A) + Len(M) + k] = C[Len(A) + k]
  BY <1>1, <1>2, <1>3
<1> QED
  BY <1>1, <1>2, <1>3, <1>4, <1>5, <1>6

LEMMA SizesAround ==
  ASSUME NEW A \in Seq(Sent), NEW M \in Seq(Sent), NEW R \in Seq(Sent),
         \A k \in 1 .. Len(M) : M[k][1] \notin Verbs /\ M[k][1] # "SIZE",
         NEW C, C = A \o R, NEW E, E = (A \o M) \o R, NawsWords(E) = NawsWords(C),
         NEW o, NEW v, SizesInOrder(o, C, v)
  PROVE  SizesInOrder(o, E, v)
<1> DEFINE From(k) == IF k <= Len(A) THEN k ELSE k - Len(M)
           To(k) == IF k <= Len(A) THEN k ELSE k + Len(M)
           Kept(k) == k <= Len(A) \/ k > Len(A) + Len(M)
<1>0. /\ C \in Seq(Sent) /\ E \in Seq(Sent) /\ Len(C) = Len(A) + Len(R)
      /\ Len(E) = Len(A) + Len(M) + Len(R) /\ Len(A) \in Nat /\ Len(M) \in Nat /\ Len(R) \in Nat
      /\ \A k \in 1 .. Len(A) : E[k] = C[k]
      /\ \A k \in 1 .. Len(M) : E[Len(A) + k] = M[k]
      /\ \A k \in 1 .. Len(R) : E[Len(A) + Len(M) + k] = C[Len(A) + k]
  BY Places
<1>1. ASSUME NEW k \in 1 .. Len(E), Kept(k)
      PROVE  From(k) \in 1 .. Len(C) /\ E[k] = C[From(k)]
  <2>1. CASE k <= Len(A)
    BY <1>0, <2>1
  <2>2. CASE k > Len(A) + Len(M)
    <3>1. k - (Len(A) + Len(M)) \in 1 .. Len(R)
      BY <1>0, <2>2
    <3>2. E[Len(A) + Len(M) + (k - (Len(A) + Len(M)))] = C[Len(A) + (k - (Len(A) + Len(M)))]
      BY <1>0, <3>1
    <3> QED
      BY <1>0, <2>2, <3>1, <3>2
  <2> QED
    BY <1>1, <2>1, <2>2
<1>2. ASSUME NEW k \in 1 .. Len(E), ~Kept(k)
      PROVE  E[k][1] # "SIZE" /\ NawsWord(E[k]) = <<>>
  <2>1. k - Len(A) \in 1 .. Len(M)
    BY <1>0, <1>2
  <2>2. E[Len(A) + (k - Len(A))] = M[k - Len(A)]
    BY <1>0, <2>1
  <2>3. E[k] = M[k - Len(A)]
    BY <1>0, <2>2
  <2>4. E[k][1] \notin Verbs /\ E[k][1] # "SIZE"
    BY <2>1, <2>3
  <2> QED
    BY <2>4 DEF NawsWord, WordOf, Verbs
<1>3. ASSUME NEW k \in 1 .. Len(C)
      PROVE  To(k) \in 1 .. Len(E) /\ Kept(To(k)) /\ From(To(k)) = k
  BY <1>0
<1>4. \A j, k \in 1 .. Len(E) : Kept(j) /\ Kept(k) => (j < k <=> From(j) < From(k))
  BY <1>0
<1> HIDE DEF From, To, Kept
<1>5. <<>> # Yes /\ <<>> # No
  BY WordsApart
<1>6. Orderly(E)
  <2> SUFFICES ASSUME NEW k \in 1 .. Len(E), NEW j \in 1 .. Len(E), E[k][1] = "SIZE"
               PROVE  /\ NawsWord(E[j]) = Yes => j < k
                      /\ NawsWord(E[j]) = No => k < j
    BY DEF Orderly
  <2>1. Kept(k)
    BY <1>2
  <2>2. CASE ~Kept(j)
    BY <1>2, <1>5, <2>2
  <2>3. CASE Kept(j)
    <3>1. /\ From(k) \in 1 .. Len(C) /\ C[From(k)] = E[k]
          /\ From(j) \in 1 .. Len(C) /\ C[From(j)] = E[j]
      BY <1>1, <2>1, <2>3
    <3>2. /\ NawsWord(E[j]) = Yes => From(j) < From(k)
          /\ NawsWord(E[j]) = No => From(k) < From(j)
      BY <3>1 DEF SizesInOrder, Orderly
    <3> QED
      BY <1>4, <2>1, <2>3, <3>2
  <2> QED
    BY <2>2, <2>3
<1>7. HasSize(E) <=> HasSize(C)
  <2>1. ASSUME HasSize(E) PROVE HasSize(C)
    <3>1. PICK k \in 1 .. Len(E) : E[k][1] = "SIZE"
      BY <2>1 DEF HasSize
    <3> QED
      BY <1>1, <1>2, <3>1 DEF HasSize
  <2>2. ASSUME HasSize(C) PROVE HasSize(E)
    <3>1. PICK k \in 1 .. Len(C) : C[k][1] = "SIZE"
      BY <2>2 DEF HasSize
    <3> DEFINE m == To(k)
    <3>2. m \in 1 .. Len(E) /\ E[m] = C[k]
      BY <1>1, <1>3
    <3> HIDE DEF m
    <3> QED
      BY <3>1, <3>2 DEF HasSize
  <2> QED
    BY <2>1, <2>2
<1>8. ASSUME LastSize(C, v, o.size) PROVE LastSize(E, v, o.size)
  <2>1. CASE \E k \in 1 .. Len(C) :
               C[k] = <<"SIZE", o.size>> /\ \A j \in 1 .. Len(C) : C[j][1] = "SIZE" => j <= k
    <3>1. PICK k \in 1 .. Len(C) :
                 C[k] = <<"SIZE", o.size>> /\ \A j \in 1 .. Len(C) : C[j][1] = "SIZE" => j <= k
      BY <2>1
    <3> DEFINE m == To(k)
    <3>2. m \in 1 .. Len(E) /\ Kept(m) /\ From(m) = k /\ E[m] = <<"SIZE", o.size>>
      BY <1>1, <1>3, <3>1
    <3> HIDE DEF m
    <3>3. ASSUME NEW j \in 1 .. Len(E), E[j][1] = "SIZE" PROVE j <= m
      <4>1. Kept(j)
        BY <1>2, <3>3
      <4>2. From(j) \in 1 .. Len(C) /\ C[From(j)] = E[j]
        BY <1>1, <4>1
      <4>3. From(j) <= From(m)
        BY <3>1, <3>2, <3>3, <4>2
      <4>4. ~(From(m) < From(j))
        BY <1>0, <3>2, <4>2, <4>3
      <4>5. ~(m < j)
        BY <1>4, <3>2, <4>1, <4>4
      <4> QED
        BY <1>0, <3>2, <4>5
    <3> QED
      BY <3>2, <3>3 DEF LastSize
  <2> QED
    BY <1>7, <1>8, <2>1 DEF LastSize
<1> QED
  BY <1>6, <1>7, <1>8 DEF SizesInOrder

LEMMA Inserted ==
  ASSUME NEW A \in Seq(Sent), NEW M \in Seq(Sent), NEW R \in Seq(Sent),
         \A k \in 1 .. Len(M) : M[k][1] \notin Verbs /\ M[k][1] # "SIZE",
         NEW o \in OptionTypes, NEW B, NEW v \in ServerTypes, InTouch(o, A \o R, B, v)
  PROVE  InTouch(o, (A \o M) \o R, B, v)
<1> DEFINE C == A \o R
           E == (A \o M) \o R
<1>1. C \in Seq(Sent) /\ E \in Seq(Sent)
  BY Places
<1>2. ASSUME NEW yes \in Verbs, NEW no \in Verbs, NEW x
      PROVE  Words(E, yes, no, x) = Words(C, yes, no, x)
  <2> DEFINE W(s) == Words(s, yes, no, x)
  <2>1. A \in Seq(Items) /\ M \in Seq(Items) /\ R \in Seq(Items) /\ A \o M \in Seq(Items)
    BY DEF Items
  <2>2. W(M) = <<>>
    <3>1. \A k \in 1 .. Len(M) : WordOf(M[k], yes, no, x) = <<>>
      BY DEF WordOf
    <3> QED
      BY <2>1, <3>1, WordsAmong
  <2>3. W(A) \in Seq(Answers)
    BY <2>1, WordSteps
  <2>4. W(A \o M) = W(A) \o W(M)
    BY <2>1, WordsJoin
  <2>5. W(A \o M) = W(A)
    BY <2>2, <2>3, <2>4, ConcatEmptySeq
  <2>6. W(A \o R) = W(A) \o W(R)
    BY <2>1, WordsJoin
  <2> DEFINE AM == A \o M
  <2>7. AM \in Seq(Items) /\ R \in Seq(Items)
    BY <2>1
  <2> HIDE DEF AM
  <2>8. W(AM \o R) = W(AM) \o W(R)
    BY <2>7, WordsJoin
  <2> HIDE DEF W
  <2> QED
    BY <2>5, <2>6, <2>8 DEF AM, W
<1>3. \A y : Wills(E, y) = Wills(C, y) /\ Does(E, y) = Does(C, y)
  BY <1>2 DEF Wills, Does, Verbs
<1>4. SizesInOrder(o, E, v)
  <2>1. NawsWords(E) = NawsWords(C) /\ SizesInOrder(o, C, v)
    BY <1>3 DEF NawsWords, InTouch
  <2> QED
    BY <2>1, SizesAround
<1> HIDE DEF C, E
<1>5. InTouch(o, E, B, v)
  BY <1>1, <1>3, <1>4, PassedOn DEF C
<1> QED
  BY <1>5 DEF E

-----------------------------------------------------------------------------
(* What the server hears. *)

\* The first of what is on its way, and of what waits to be written after it.
LEMMA HeadFirst ==
  ASSUME NEW u \in Seq(Sent), NEW w \in Seq(Sent), u # <<>>
  PROVE  /\ Join(u, w) \in Seq(Sent) /\ Join(u, w) # <<>> /\ Head(Join(u, w)) = Head(u)
         /\ Tail(Join(u, w)) = Join(Tail(u), w) /\ Tail(u) \in Seq(Sent) /\ Head(u) \in Sent
<1> DEFINE J == Join(u, w)
           K == Join(Tail(u), w)
<1>1. /\ Tail(u) \in Seq(Sent) /\ Len(Tail(u)) = Len(u) - 1 /\ Len(u) \in Nat /\ Len(u) > 0
      /\ \A k \in 1 .. Len(Tail(u)) : Tail(u)[k] = u[k + 1]
      /\ Len(w) \in Nat /\ Head(u) = u[1] /\ u[1] \in Sent
  OBVIOUS
<1>2. /\ J \in Seq(Sent) /\ Len(J) = Len(u) + Len(w)
      /\ \A k \in 1 .. Len(u) : J[k] = u[k]
      /\ \A k \in 1 .. Len(w) : J[Len(u) + k] = w[k]
  BY JoinPlaces
<1>3. /\ K \in Seq(Sent) /\ Len(K) = Len(Tail(u)) + Len(w)
      /\ \A k \in 1 .. Len(Tail(u)) : K[k] = Tail(u)[k]
      /\ \A k \in 1 .. Len(w) : K[Len(Tail(u)) + k] = w[k]
  BY <1>1, JoinPlaces
<1> HIDE DEF J, K
<1>4. J # <<>> /\ Head(J) = J[1]
  BY <1>1, <1>2
<1>5. /\ Tail(J) \in Seq(Sent) /\ Len(Tail(J)) = Len(J) - 1
      /\ \A k \in 1 .. Len(J) - 1 : Tail(J)[k] = J[k + 1]
  BY <1>2, <1>4
<1>6. Len(Tail(J)) = Len(K)
  BY <1>1, <1>2, <1>3, <1>5
<1>7. ASSUME NEW k \in 1 .. Len(K) PROVE Tail(J)[k] = K[k]
  <2>1. Tail(J)[k] = J[k + 1]
    BY <1>1, <1>2, <1>3, <1>5
  <2>2. CASE k \in 1 .. Len(Tail(u))
    BY <1>1, <1>2, <1>3, <2>1, <2>2
  <2>3. CASE k > Len(Tail(u))
    <3>1. k - Len(Tail(u)) \in 1 .. Len(w)
      BY <1>1, <1>3, <2>3
    <3>2. K[Len(Tail(u)) + (k - Len(Tail(u)))] = w[k - Len(Tail(u))]
      BY <1>3, <3>1
    <3>3. J[Len(u) + (k - Len(Tail(u)))] = w[k - Len(Tail(u))]
      BY <1>2, <3>1
    <3>4. Len(Tail(u)) + (k - Len(Tail(u))) = k /\ Len(u) + (k - Len(Tail(u))) = k + 1
      BY <1>1
    <3> QED
      BY <2>1, <3>2, <3>3, <3>4
  <2>4. k \in 1 .. Len(Tail(u)) \/ k > Len(Tail(u))
    BY <1>1, <1>3
  <2> QED
    BY <2>2, <2>3, <2>4
<1>8. Tail(J) = K
  BY <1>3, <1>5, <1>6, <1>7, SamePlaces
<1> QED
  BY <1>1, <1>2, <1>4, <1>8 DEF J, K

\* Anything but a size, heard.
LEMMA NoSizeHeard ==
  ASSUME NEW C \in Seq(Sent), C # <<>>, Head(C)[1] # "SIZE", NEW o, NEW v, NEW w,
         SizesInOrder(o, C, v), w.size = v.size
  PROVE  /\ Orderly(Tail(C)) /\ (HasSize(Tail(C)) => HasSize(C))
         /\ o.us["NAWS"] => LastSize(Tail(C), w, o.size)
         /\ HasSize(C) => NawsWord(Head(C)) # No
<1> DEFINE D == Tail(C)
<1>1. /\ D \in Seq(Sent) /\ Len(D) = Len(C) - 1 /\ Len(C) \in Nat /\ Len(C) > 0
      /\ \A k \in 1 .. Len(D) : D[k] = C[k + 1] /\ k + 1 \in 1 .. Len(C)
      /\ \A k \in 1 .. Len(C) : k = 1 \/ (k - 1 \in 1 .. Len(D) /\ (k - 1) + 1 = k)
      /\ C[1] = Head(C) /\ 1 \in 1 .. Len(C)
  OBVIOUS
<1> HIDE DEF D
<1>2. Orderly(D)
  <2> SUFFICES ASSUME NEW k \in 1 .. Len(D), NEW j \in 1 .. Len(D), D[k][1] = "SIZE"
               PROVE  /\ NawsWord(D[j]) = Yes => j < k
                      /\ NawsWord(D[j]) = No => k < j
    BY DEF Orderly
  <2>1. D[k] = C[k + 1] /\ k + 1 \in 1 .. Len(C) /\ D[j] = C[j + 1] /\ j + 1 \in 1 .. Len(C)
    BY <1>1
  <2>2. /\ NawsWord(D[j]) = Yes => j + 1 < k + 1
        /\ NawsWord(D[j]) = No => k + 1 < j + 1
    BY <2>1 DEF SizesInOrder, Orderly
  <2> QED
    BY <2>2
<1>3. HasSize(D) <=> HasSize(C)
  <2>1. ASSUME HasSize(C) PROVE HasSize(D)
    <3>1. PICK k \in 1 .. Len(C) : C[k][1] = "SIZE"
      BY <2>1 DEF HasSize
    <3>2. k - 1 \in 1 .. Len(D) /\ (k - 1) + 1 = k
      BY <1>1, <3>1
    <3>3. D[k - 1] = C[k]
      BY <1>1, <3>2
    <3> QED
      BY <3>1, <3>2, <3>3 DEF HasSize
  <2>2. ASSUME HasSize(D) PROVE HasSize(C)
    BY <1>1, <2>2 DEF HasSize
  <2> QED
    BY <2>1, <2>2
<1>4. LastSize(C, v, o.size) => LastSize(D, w, o.size)
  <2>1. CASE \E k \in 1 .. Len(C) :
               C[k] = <<"SIZE", o.size>> /\ \A j \in 1 .. Len(C) : C[j][1] = "SIZE" => j <= k
    <3>1. PICK k \in 1 .. Len(C) :
                 C[k] = <<"SIZE", o.size>> /\ \A j \in 1 .. Len(C) : C[j][1] = "SIZE" => j <= k
      BY <2>1
    <3>2. k # 1
      BY <1>1, <3>1
    <3>3. k - 1 \in 1 .. Len(D) /\ (k - 1) + 1 = k
      BY <1>1, <3>2
    <3>4. D[k - 1] = <<"SIZE", o.size>>
      BY <1>1, <3>1, <3>3
    <3>5. ASSUME NEW j \in 1 .. Len(D), D[j][1] = "SIZE" PROVE j <= k - 1
      <4>1. C[j + 1][1] = "SIZE" /\ j + 1 \in 1 .. Len(C)
        BY <1>1, <3>5
      <4>2. j + 1 <= k
        BY <3>1, <4>1
      <4> QED
        BY <4>2
    <3> QED
      BY <3>3, <3>4, <3>5 DEF LastSize
  <2> QED
    BY <1>3, <2>1 DEF LastSize
<1>5. ASSUME HasSize(C) PROVE NawsWord(Head(C)) # No
  <2>1. PICK k \in 1 .. Len(C) : C[k][1] = "SIZE"
    BY <1>5 DEF HasSize
  <2>2. NawsWord(C[1]) = No => k < 1
    BY <1>1, <2>1 DEF SizesInOrder, Orderly
  <2> QED
    BY <1>1, <2>1, <2>2
<1> QED
  BY <1>2, <1>3, <1>4, <1>5 DEF D, SizesInOrder

\* A size, heard: the server believes the option on.
LEMMA SizeHeard ==
  ASSUME NEW C \in Seq(Sent), C # <<>>, Head(C)[1] = "SIZE", NEW o, NEW v, NEW w,
         SizesInOrder(o, C, v), w.size = Head(C)[2],
         w.them = v.them, w.themAsked = v.themAsked
  PROVE  v.them["NAWS"] /\ SizesInOrder(o, Tail(C), w)
<1> DEFINE D == Tail(C)
<1>1. /\ D \in Seq(Sent) /\ Len(D) = Len(C) - 1 /\ Len(C) \in Nat /\ Len(C) > 0
      /\ \A k \in 1 .. Len(D) : D[k] = C[k + 1] /\ k + 1 \in 1 .. Len(C)
      /\ \A k \in 1 .. Len(C) : k = 1 \/ (k - 1 \in 1 .. Len(D) /\ (k - 1) + 1 = k)
      /\ C[1] = Head(C) /\ 1 \in 1 .. Len(C)
  OBVIOUS
<1> HIDE DEF D
<1>2. Orderly(D)
  <2> SUFFICES ASSUME NEW k \in 1 .. Len(D), NEW j \in 1 .. Len(D), D[k][1] = "SIZE"
               PROVE  /\ NawsWord(D[j]) = Yes => j < k
                      /\ NawsWord(D[j]) = No => k < j
    BY DEF Orderly
  <2>1. D[k] = C[k + 1] /\ k + 1 \in 1 .. Len(C) /\ D[j] = C[j + 1] /\ j + 1 \in 1 .. Len(C)
    BY <1>1
  <2>2. /\ NawsWord(D[j]) = Yes => j + 1 < k + 1
        /\ NawsWord(D[j]) = No => k + 1 < j + 1
    BY <2>1 DEF SizesInOrder, Orderly
  <2> QED
    BY <2>2
<1>3. HasSize(C)
  BY <1>1 DEF HasSize
<1>4. NawsWords(C) # Yes
  <2> SUFFICES ASSUME NawsWords(C) = Yes PROVE FALSE
    OBVIOUS
  <2>1. C \in Seq(Items)
    BY DEF Items
  <2>2. PICK j \in 1 .. Len(C) : NawsWord(C[j]) # <<>>
    BY <2>1, WordsAmong, WordsApart DEF NawsWord, NawsWords, Wills
  <2>3. NawsWord(C[j]) # Yes
    <3>1. NawsWord(C[j]) = Yes => j < 1
      BY <1>1 DEF SizesInOrder, Orderly
    <3> QED
      BY <3>1
  <2>4. NawsWord(C[j]) = No
    BY <2>2, <2>3, WordTypes DEF NawsWord
  <2>5. PICK n \in 1 .. Len(NawsWords(C)) : NawsWords(C)[n] = "no"
    BY <2>1, <2>4, WordsAmong DEF NawsWord, NawsWords, No, Wills
  <2>6. Len(Yes) = 1 /\ Yes[1] = "yes"
    BY DEF Yes
  <2>7. n = 1
    BY <2>5, <2>6
  <2> QED
    BY <2>5, <2>6, <2>7
<1>5. v.them["NAWS"]
  BY <1>3, <1>4 DEF SizesInOrder
<1>6. NawsWords(D) = NawsWords(C)
  <2>1. Head(C)[2] = Head(C)[2] /\ Head(C)[1] \notin {"WILL", "WONT"}
    OBVIOUS
  <2> QED
    BY <2>1, SentRead DEF NawsWords, D
<1>7. LastSize(C, v, o.size) => LastSize(D, w, o.size)
  <2> SUFFICES ASSUME NEW k \in 1 .. Len(C), C[k] = <<"SIZE", o.size>>,
                      \A j \in 1 .. Len(C) : C[j][1] = "SIZE" => j <= k
               PROVE  LastSize(D, w, o.size)
    BY <1>3 DEF LastSize
  <2>1. CASE k = 1
    <3>1. w.size = o.size
      BY <1>1, <2>1
    <3>2. ~HasSize(D)
      <4> SUFFICES ASSUME NEW j \in 1 .. Len(D), D[j][1] = "SIZE" PROVE FALSE
        BY DEF HasSize
      <4>1. C[j + 1][1] = "SIZE" /\ j + 1 \in 1 .. Len(C)
        BY <1>1
      <4>2. j + 1 <= 1
        BY <2>1, <4>1
      <4> QED
        BY <4>2
    <3> QED
      BY <3>1, <3>2 DEF LastSize
  <2>2. CASE k # 1
    <3>3. k - 1 \in 1 .. Len(D) /\ (k - 1) + 1 = k
      BY <1>1, <2>2
    <3>4. D[k - 1] = <<"SIZE", o.size>>
      BY <1>1, <3>3
    <3>5. ASSUME NEW j \in 1 .. Len(D), D[j][1] = "SIZE" PROVE j <= k - 1
      <4>1. C[j + 1][1] = "SIZE" /\ j + 1 \in 1 .. Len(C)
        BY <1>1, <3>5
      <4>2. j + 1 <= k
        BY <4>1
      <4> QED
        BY <4>2
    <3> QED
      BY <3>3, <3>4, <3>5 DEF LastSize
  <2> QED
    BY <2>1, <2>2
<1> QED
  BY <1>2, <1>4, <1>5, <1>6, <1>7 DEF SizesInOrder, D

\* What the server does with a word about an option, and whether i, its answer,
\* is added to what is on its way from it: no to what it does not accept, and
\* something to what changes the option and is no answer itself.
Wants(verb) == verb \in {"WILL", "DO"}
Heeds(on, verb, t, a, B, i, D) ==
  /\ on => Wants(verb)
  /\ Wants(verb) /\ a => on
  /\ \/ D = Then(B, i)
     \/ D = B /\ (a \/ ((t <=> on) /\ (Wants(verb) <=> on)))

\* It hears of an option at this end.
LEMMA HeardOurs ==
  ASSUME NEW o \in OptionTypes, NEW C \in Seq(Sent), NEW B \in Seq(Told), NEW v \in ServerTypes,
         NEW x \in Names, InTouch(o, C, B, v), C # <<>>,
         Head(C)[1] \in {"WILL", "WONT"}, Head(C)[2] = x,
         NEW w \in ServerTypes, w.us = v.us, w.usAsked = v.usAsked, w.size = v.size,
         \A y \in Names \ {x} : w.them[y] = v.them[y] /\ w.themAsked[y] = v.themAsked[y],
         ~w.themAsked[x],
         NEW i \in Told, i[1] = IF w.them[x] THEN "DO" ELSE "DONT", i[2] = x,
         NEW D, Heeds(w.them[x], Head(C)[1], v.them[x], v.themAsked[x], B, i, D)
  PROVE  InTouch(o, Tail(C), D, w)
<1> DEFINE E == Tail(C)
           answers == D = Then(B, i)
           c == Wills(E, x)
           d == Does(B, x)
<1>1. /\ Head(C)[1] = "WILL" => Wills(C, x) = Join(Yes, c)
      /\ Head(C)[1] = "WONT" => Wills(C, x) = Join(No, c)
      /\ c \in Seq(Answers)
      /\ \A y \in Names : Does(E, y) = Does(C, y)
      /\ \A y \in Names \ {x} : Wills(E, y) = Wills(C, y)
  BY SentRead
<1>2. /\ ~answers => D = B
      /\ answers => D = Then(B, i)
  BY DEF Heeds
<1>3. /\ i[1] = "DO" => Does(Then(B, i), x) = Join(d, Yes)
      /\ i[1] = "DONT" => Does(Then(B, i), x) = Join(d, No)
      /\ \A y \in Names \ {x} : Does(Then(B, i), y) = Does(B, y)
      /\ \A y \in Names : Wills(Then(B, i), y) = Wills(B, y)
      /\ d \in Seq(Answers)
  <2>1. i[1] \notin {"WILL", "WONT"}
    OBVIOUS
  <2>2. /\ i[1] = "DO" => Does(Then(B, i), x) = Join(d, Yes)
        /\ i[1] = "DONT" => Does(Then(B, i), x) = Join(d, No)
    BY ToldAdded
  <2>3. \A y : y # x => Does(Then(B, i), y) = Does(B, y)
    BY ToldAdded
  <2>4. \A y : Wills(Then(B, i), y) = Wills(B, y)
    BY <2>1, ToldAdded
  <2>5. d \in Seq(Answers)
    BY ToldAdded
  <2> HIDE DEF d
  <2> QED
    BY <2>2, <2>3, <2>4, <2>5
<1> HIDE DEF E, answers
<1>4. /\ \A y \in Names \ {x} : Does(D, y) = Does(B, y)
      /\ \A y \in Names : Wills(D, y) = Wills(B, y)
  BY <1>2, <1>3
<1>5. Ours(o, C, B, v, x) /\ SizesInOrder(o, C, v)
  BY DEF InTouch
<1> DEFINE u == o.us[x]
           p == o.usPending[x]
           t == v.them[x]
           a == v.themAsked[x]
           on == w.them[x]
           asked == w.themAsked[x]
<1>6. /\ u \in BOOLEAN /\ p \in BOOLEAN /\ t \in BOOLEAN /\ a \in BOOLEAN /\ on \in BOOLEAN
      /\ ~asked /\ asked \in BOOLEAN
  BY OptionPlaces
<1>7. Standing("them", u, p, t, a, Wills(C, x), d)
  BY <1>5 DEF Ours
<1>8. Standing("them", u, p, on, asked, c, Does(D, x))
  <2> HIDE DEF c, d, u, p, t, a, on, asked
  <2>1. CASE Head(C)[1] = "WILL"
    <3>1. Standing("them", u, p, t, a, Join(Yes, c), d)
      BY <1>1, <1>7, <2>1
    <3>2. (a => on) /\ (~a /\ (~(t <=> on) \/ ~on) => answers)
      BY <2>1 DEF Heeds, Wants, answers, t, a, on
    <3>3. CASE ~answers
      <4>1. Does(D, x) = d
        BY <1>2, <3>3 DEF d
      <4>2. Standing("them", u, p, on, asked, c, d)
        BY <1>1, <1>3, <1>6, <3>1, <3>2, <3>3, FirstWord, LastWord, WordsApart DEF Standing, Join
      <4> QED
        BY <4>1, <4>2
    <3>4. CASE answers /\ on
      <4>1. Does(D, x) = Join(d, Yes)
        BY <1>2, <1>3, <3>4 DEF on
      <4>2. Standing("them", u, p, on, asked, c, Join(d, Yes))
        BY <1>1, <1>3, <1>6, <3>1, <3>2, <3>4, FirstWord, LastWord, WordsApart DEF Standing, Join
      <4> QED
        BY <4>1, <4>2
    <3>5. CASE answers /\ ~on
      <4>1. Does(D, x) = Join(d, No)
        BY <1>2, <1>3, <3>5 DEF on
      <4>2. Standing("them", u, p, on, asked, c, Join(d, No))
        BY <1>1, <1>3, <1>6, <3>1, <3>2, <3>5, FirstWord, LastWord, WordsApart DEF Standing, Join
      <4> QED
        BY <4>1, <4>2
    <3> QED
      BY <1>6, <3>3, <3>4, <3>5
  <2>2. CASE Head(C)[1] = "WONT"
    <3>1. Standing("them", u, p, t, a, Join(No, c), d)
      BY <1>1, <1>7, <2>2
    <3>2. ~on /\ (~a /\ t => answers)
      BY <2>2 DEF Heeds, Wants, answers, t, a, on
    <3>3. CASE ~answers
      <4>1. Does(D, x) = d
        BY <1>2, <3>3 DEF d
      <4>2. Standing("them", u, p, on, asked, c, d)
        BY <1>1, <1>3, <1>6, <3>1, <3>2, <3>3, FirstWord, LastWord, WordsApart DEF Standing, Join
      <4> QED
        BY <4>1, <4>2
    <3>4. CASE answers
      <4>1. Does(D, x) = Join(d, No)
        BY <1>2, <1>3, <3>2, <3>4 DEF on
      <4>2. Standing("them", u, p, on, asked, c, Join(d, No))
        BY <1>1, <1>3, <1>6, <3>1, <3>2, <3>4, FirstWord, LastWord, WordsApart DEF Standing, Join
      <4> QED
        BY <4>1, <4>2
    <3> QED
      BY <3>3, <3>4
  <2> QED
    BY <2>1, <2>2
<1>9. Ours(o, E, D, w, x)
  BY <1>5, <1>8 DEF Ours
<1>10. SizesInOrder(o, E, w)
  <2>1. /\ Orderly(E) /\ (HasSize(E) => HasSize(C))
        /\ o.us["NAWS"] => LastSize(E, w, o.size)
        /\ HasSize(C) => NawsWord(Head(C)) # No
    <3>1. Head(C)[1] # "SIZE"
      OBVIOUS
    <3> QED
      BY <1>5, <3>1, NoSizeHeard DEF E
  <2>2. ASSUME HasSize(E)
        PROVE  IF NawsWords(E) = Yes THEN w.themAsked["NAWS"] ELSE w.them["NAWS"]
    <3>1. HasSize(C)
      BY <2>1, <2>2
    <3>2. IF NawsWords(C) = Yes THEN v.themAsked["NAWS"] ELSE v.them["NAWS"]
      BY <1>5, <3>1 DEF SizesInOrder
    <3>3. CASE x # "NAWS"
      BY <1>1, <3>2, <3>3 DEF NawsWords, Names
    <3>4. CASE x = "NAWS"
      <4>1. Head(C)[1] = "WILL"
        <5>1. Head(C)[1] = "WONT" => NawsWord(Head(C)) = No
          BY <3>4 DEF NawsWord, WordOf
        <5> QED
          BY <2>1, <3>1, <5>1
      <4>2. Standing("them", u, p, t, a, Join(Yes, c), d)
        BY <1>1, <1>7, <4>1
      <4> HIDE DEF c, d, u, p, t, a
      <4>3. c = <<>>
        BY <1>1, <4>2, FirstWord, WordsApart DEF Standing, Join
      <4>4. NawsWords(E) # Yes /\ NawsWords(C) = Yes
        <5>1. NawsWords(C) = Join(Yes, c)
          BY <1>1, <3>4, <4>1 DEF NawsWords
        <5>2. NawsWords(E) = c
          BY <3>4 DEF NawsWords, c
        <5>3. Join(Yes, <<>>) = Yes
          BY LastWord, WordsIn DEF Join
        <5> QED
          BY <4>3, <5>1, <5>2, <5>3, WordsApart
      <4>5. v.themAsked["NAWS"]
        BY <3>2, <4>4
      <4>6. w.them["NAWS"]
        BY <3>4, <4>1, <4>5 DEF Heeds, Wants
      <4> QED
        BY <4>4, <4>6
    <3> QED
      BY <3>3, <3>4
  <2> QED
    BY <2>1, <2>2 DEF SizesInOrder
<1> HIDE DEF c, d, u, p, t, a, on, asked
<1> QED
  BY <1>1, <1>4, <1>9, <1>10, OursAlone DEF E

\* It hears of an option at its own end.
LEMMA HeardIts ==
  ASSUME NEW o \in OptionTypes, NEW C \in Seq(Sent), NEW B \in Seq(Told), NEW v \in ServerTypes,
         NEW x \in Names, InTouch(o, C, B, v), C # <<>>,
         Head(C)[1] \in {"DO", "DONT"}, Head(C)[2] = x,
         NEW w \in ServerTypes, w.them = v.them, w.themAsked = v.themAsked, w.size = v.size,
         \A y \in Names \ {x} : w.us[y] = v.us[y] /\ w.usAsked[y] = v.usAsked[y],
         ~w.usAsked[x],
         NEW i \in Told, i[1] = IF w.us[x] THEN "WILL" ELSE "WONT", i[2] = x,
         NEW D, Heeds(w.us[x], Head(C)[1], v.us[x], v.usAsked[x], B, i, D)
  PROVE  InTouch(o, Tail(C), D, w)
<1> DEFINE E == Tail(C)
           answers == D = Then(B, i)
           c == Does(E, x)
           d == Wills(B, x)
<1>1. /\ Head(C)[1] = "DO" => Does(C, x) = Join(Yes, c)
      /\ Head(C)[1] = "DONT" => Does(C, x) = Join(No, c)
      /\ c \in Seq(Answers)
      /\ \A y \in Names : Wills(E, y) = Wills(C, y)
      /\ \A y \in Names \ {x} : Does(E, y) = Does(C, y)
  BY SentRead
<1>2. /\ ~answers => D = B
      /\ answers => D = Then(B, i)
  BY DEF Heeds
<1>3. /\ i[1] = "WILL" => Wills(Then(B, i), x) = Join(d, Yes)
      /\ i[1] = "WONT" => Wills(Then(B, i), x) = Join(d, No)
      /\ \A y \in Names \ {x} : Wills(Then(B, i), y) = Wills(B, y)
      /\ \A y \in Names : Does(Then(B, i), y) = Does(B, y)
      /\ d \in Seq(Answers)
  <2>1. i[1] \notin {"DO", "DONT"}
    OBVIOUS
  <2>2. /\ i[1] = "WILL" => Wills(Then(B, i), x) = Join(d, Yes)
        /\ i[1] = "WONT" => Wills(Then(B, i), x) = Join(d, No)
    BY ToldAdded
  <2>3. \A y : y # x => Wills(Then(B, i), y) = Wills(B, y)
    BY ToldAdded
  <2>4. \A y : Does(Then(B, i), y) = Does(B, y)
    BY <2>1, ToldAdded
  <2>5. d \in Seq(Answers)
    BY ToldAdded
  <2> HIDE DEF d
  <2> QED
    BY <2>2, <2>3, <2>4, <2>5
<1> HIDE DEF E, answers
<1>4. /\ \A y \in Names \ {x} : Wills(D, y) = Wills(B, y)
      /\ \A y \in Names : Does(D, y) = Does(B, y)
  BY <1>2, <1>3
<1>5. Its(o, C, B, v, x) /\ SizesInOrder(o, C, v)
  BY DEF InTouch
<1> DEFINE u == o.them[x]
           p == o.themPending[x]
           t == v.us[x]
           a == v.usAsked[x]
           on == w.us[x]
           asked == w.usAsked[x]
<1>6. /\ u \in BOOLEAN /\ p \in BOOLEAN /\ t \in BOOLEAN /\ a \in BOOLEAN /\ on \in BOOLEAN
      /\ ~asked /\ asked \in BOOLEAN
  BY OptionPlaces
<1>7. Standing("us", u, p, t, a, Does(C, x), d)
  BY <1>5 DEF Its
<1>8. Standing("us", u, p, on, asked, c, Wills(D, x))
  <2> HIDE DEF c, d, u, p, t, a, on, asked
  <2>1. CASE Head(C)[1] = "DO"
    <3>1. Standing("us", u, p, t, a, Join(Yes, c), d)
      BY <1>1, <1>7, <2>1
    <3>2. (a => on) /\ (~a /\ (~(t <=> on) \/ ~on) => answers)
      BY <2>1 DEF Heeds, Wants, answers, t, a, on
    <3>3. CASE ~answers
      <4>1. Wills(D, x) = d
        BY <1>2, <3>3 DEF d
      <4>2. Standing("us", u, p, on, asked, c, d)
        BY <1>1, <1>3, <1>6, <3>1, <3>2, <3>3, FirstWord, LastWord, WordsApart DEF Standing, Join
      <4> QED
        BY <4>1, <4>2
    <3>4. CASE answers /\ on
      <4>1. Wills(D, x) = Join(d, Yes)
        BY <1>2, <1>3, <3>4 DEF on
      <4>2. Standing("us", u, p, on, asked, c, Join(d, Yes))
        BY <1>1, <1>3, <1>6, <3>1, <3>2, <3>4, FirstWord, LastWord, WordsApart DEF Standing, Join
      <4> QED
        BY <4>1, <4>2
    <3>5. CASE answers /\ ~on
      <4>1. Wills(D, x) = Join(d, No)
        BY <1>2, <1>3, <3>5 DEF on
      <4>2. Standing("us", u, p, on, asked, c, Join(d, No))
        BY <1>1, <1>3, <1>6, <3>1, <3>2, <3>5, FirstWord, LastWord, WordsApart DEF Standing, Join
      <4> QED
        BY <4>1, <4>2
    <3> QED
      BY <1>6, <3>3, <3>4, <3>5
  <2>2. CASE Head(C)[1] = "DONT"
    <3>1. Standing("us", u, p, t, a, Join(No, c), d)
      BY <1>1, <1>7, <2>2
    <3>2. ~on /\ (~a /\ t => answers)
      BY <2>2 DEF Heeds, Wants, answers, t, a, on
    <3>3. CASE ~answers
      <4>1. Wills(D, x) = d
        BY <1>2, <3>3 DEF d
      <4>2. Standing("us", u, p, on, asked, c, d)
        BY <1>1, <1>3, <1>6, <3>1, <3>2, <3>3, FirstWord, LastWord, WordsApart DEF Standing, Join
      <4> QED
        BY <4>1, <4>2
    <3>4. CASE answers
      <4>1. Wills(D, x) = Join(d, No)
        BY <1>2, <1>3, <3>2, <3>4 DEF on
      <4>2. Standing("us", u, p, on, asked, c, Join(d, No))
        BY <1>1, <1>3, <1>6, <3>1, <3>2, <3>4, FirstWord, LastWord, WordsApart DEF Standing, Join
      <4> QED
        BY <4>1, <4>2
    <3> QED
      BY <3>3, <3>4
  <2> QED
    BY <2>1, <2>2
<1>9. Its(o, E, D, w, x)
  BY <1>5, <1>8 DEF Its
<1>10. SizesInOrder(o, E, w)
  <2>1. /\ Orderly(E) /\ (HasSize(E) => HasSize(C))
        /\ o.us["NAWS"] => LastSize(E, w, o.size)
    <3>1. Head(C)[1] # "SIZE"
      OBVIOUS
    <3> QED
      BY <1>5, <3>1, NoSizeHeard DEF E
  <2>2. NawsWords(E) = NawsWords(C)
    BY <1>1 DEF NawsWords, Names
  <2> QED
    BY <1>5, <2>1, <2>2 DEF SizesInOrder
<1> HIDE DEF c, d, u, p, t, a, on, asked
<1> QED
  BY <1>1, <1>4, <1>9, <1>10, ItsAlone DEF E

\* It hears anything else.
LEMMA HeardPlain ==
  ASSUME NEW o \in OptionTypes, NEW C \in Seq(Sent), NEW B, NEW v \in ServerTypes,
         InTouch(o, C, B, v), C # <<>>, Head(C)[1] \notin Verbs,
         NEW w, w.us = v.us, w.usAsked = v.usAsked, w.them = v.them, w.themAsked = v.themAsked,
         w.size = IF Head(C)[1] = "SIZE" THEN Head(C)[2] ELSE v.size
  PROVE  InTouch(o, Tail(C), B, w) /\ (Head(C)[1] = "SIZE" => v.them["NAWS"])
<1> DEFINE E == Tail(C)
           x == Head(C)[2]
<1>1. \A y : Does(E, y) = Does(C, y) /\ Wills(E, y) = Wills(C, y)
  <2>1. Head(C)[2] = x /\ Head(C)[1] \notin {"WILL", "WONT"} /\ Head(C)[1] \notin {"DO", "DONT"}
    BY DEF Verbs
  <2> HIDE DEF x
  <2> QED
    BY <2>1, SentRead
<1> HIDE DEF E
<1>2. SizesInOrder(o, C, v)
  BY DEF InTouch
<1>3. CASE Head(C)[1] # "SIZE"
  <2>1. /\ Orderly(E) /\ (HasSize(E) => HasSize(C))
        /\ o.us["NAWS"] => LastSize(E, w, o.size)
    BY <1>2, <1>3, NoSizeHeard DEF E
  <2>2. NawsWords(E) = NawsWords(C)
    BY <1>1 DEF NawsWords
  <2>3. SizesInOrder(o, E, w)
    BY <1>2, <2>1, <2>2 DEF SizesInOrder
  <2> QED
    BY <1>1, <1>3, <2>3, OursCarried, ItsCarried DEF InTouch, E
<1>4. CASE Head(C)[1] = "SIZE"
  <2>1. v.them["NAWS"] /\ SizesInOrder(o, E, w)
    BY <1>2, <1>4, SizeHeard DEF E
  <2> QED
    BY <1>1, <2>1, OursCarried, ItsCarried DEF InTouch, E
<1> QED
  BY <1>3, <1>4

LEMMA ToldAnswered ==
  ASSUME NEW B \in Seq(Told), NEW i \in Told, NEW b \in BOOLEAN
  PROVE  B \o Only(i, b) = Added(B, i, b) /\ Added(B, i, b) \in Seq(Told)
BY DEF Added, Only, Then

\* What the server does with a word about an option at this end, and at its own.
LEMMA RequestOurs ==
  ASSUME NEW verb \in {"WILL", "WONT"}, NEW x \in Names, HearsRequest(verb, x),
         server \in ServerTypes, toClient \in Seq(Told), course \in Courses
  PROVE  \E on \in BOOLEAN, i \in Told :
            /\ server' = [server EXCEPT !.them[x] = on, !.themAsked[x] = FALSE]
            /\ toClient' \in Seq(Told)
            /\ i[1] = (IF on THEN "DO" ELSE "DONT") /\ i[2] = x
            /\ Heeds(on, verb, server.them[x], server.themAsked[x], toClient, i, toClient')
<1> DEFINE asked == server.themAsked[x]
           wanted == verb \in {"WILL", "DO"}
           on == wanted /\ (asked \/ x \in course.accepts)
           answers == course.naive \/ (~asked /\ (server.them[x] # on \/ wanted # on))
           side == Sides[verb]
           i == <<Verb(side, on), x>>
<1>1. side = "them" /\ AskedOf(side) = "themAsked" /\ server[AskedOf(side)][x] = asked
      /\ server[side][x] = server.them[x]
  BY DEF Sides, AskedOf
<1>2. /\ server.them[x] \in BOOLEAN /\ asked \in BOOLEAN /\ course.naive \in BOOLEAN
      /\ on \in BOOLEAN /\ answers \in BOOLEAN /\ wanted \in BOOLEAN
  BY TelnetAssumption DEF ServerTypes
<1>4. /\ server' = [server EXCEPT !["them"][x] = on, !["themAsked"][x] = FALSE]
      /\ toClient' = toClient \o Only(i, answers)
  <2>1. /\ server' = [server EXCEPT ![side][x] = on, ![AskedOf(side)][x] = FALSE]
        /\ toClient' = toClient \o Only(i, answers)
    BY <1>1 DEF HearsRequest
  <2> QED
    BY <1>1, <2>1
<1>5. i \in Told /\ i[1] = (IF on THEN "DO" ELSE "DONT") /\ i[2] = x
  BY <1>1, OrdersSent DEF Verbs, Verb
<1>6. toClient' = Added(toClient, i, answers) /\ toClient' \in Seq(Told)
  <2>1. answers \in BOOLEAN /\ toClient' = toClient \o Only(i, answers) /\ i \in Told
    BY <1>2, <1>4, <1>5
  <2> HIDE DEF answers, i
  <2> QED
    BY <2>1, ToldAnswered
<1>7. Heeds(on, verb, server.them[x], asked, toClient, i, toClient')
  <2> HIDE DEF i
  <2> QED
    BY <1>2, <1>6 DEF Heeds, Wants, Added
<1> QED
  BY <1>2, <1>4, <1>5, <1>6, <1>7

LEMMA RequestIts ==
  ASSUME NEW verb \in {"DO", "DONT"}, NEW x \in Names, HearsRequest(verb, x),
         server \in ServerTypes, toClient \in Seq(Told), course \in Courses
  PROVE  \E on \in BOOLEAN, i \in Told :
            /\ server' = [server EXCEPT !.us[x] = on, !.usAsked[x] = FALSE]
            /\ toClient' \in Seq(Told)
            /\ i[1] = (IF on THEN "WILL" ELSE "WONT") /\ i[2] = x
            /\ Heeds(on, verb, server.us[x], server.usAsked[x], toClient, i, toClient')
<1> DEFINE asked == server.usAsked[x]
           wanted == verb \in {"WILL", "DO"}
           on == wanted /\ (asked \/ x \in course.accepts)
           answers == course.naive \/ (~asked /\ (server.us[x] # on \/ wanted # on))
           side == Sides[verb]
           i == <<Verb(side, on), x>>
<1>1. side = "us" /\ AskedOf(side) = "usAsked" /\ server[AskedOf(side)][x] = asked
      /\ server[side][x] = server.us[x]
  BY DEF Sides, AskedOf
<1>2. /\ server.us[x] \in BOOLEAN /\ asked \in BOOLEAN /\ course.naive \in BOOLEAN
      /\ on \in BOOLEAN /\ answers \in BOOLEAN /\ wanted \in BOOLEAN
  BY TelnetAssumption DEF ServerTypes
<1>4. /\ server' = [server EXCEPT !["us"][x] = on, !["usAsked"][x] = FALSE]
      /\ toClient' = toClient \o Only(i, answers)
  <2>1. /\ server' = [server EXCEPT ![side][x] = on, ![AskedOf(side)][x] = FALSE]
        /\ toClient' = toClient \o Only(i, answers)
    BY <1>1 DEF HearsRequest
  <2> QED
    BY <1>1, <2>1
<1>5. i \in Told /\ i[1] = (IF on THEN "WILL" ELSE "WONT") /\ i[2] = x
  BY <1>1, OrdersSent DEF Verbs, Verb
<1>6. toClient' = Added(toClient, i, answers) /\ toClient' \in Seq(Told)
  <2>1. answers \in BOOLEAN /\ toClient' = toClient \o Only(i, answers) /\ i \in Told
    BY <1>2, <1>4, <1>5
  <2> HIDE DEF answers, i
  <2> QED
    BY <2>1, ToldAnswered
<1>7. Heeds(on, verb, server.us[x], asked, toClient, i, toClient')
  <2> HIDE DEF i
  <2> QED
    BY <1>2, <1>6 DEF Heeds, Wants, Added
<1> QED
  BY <1>2, <1>4, <1>5, <1>6, <1>7

\* The server hears the first of what is on its way to it.
LEMMA HearsOn ==
  ASSUME IInv, Hears
  PROVE  IInv'
<1> DEFINE Q == toServer
           C == Join(Q, reading)
           B == toClient
           kind == Head(Q)[1]
           value == Head(Q)[2]
<1>1. /\ options \in OptionTypes /\ server \in ServerTypes /\ Q \in Seq(Sent) /\ reading \in Seq(Sent)
      /\ B \in Seq(Told) /\ Q # <<>> /\ InTouch(options, C, B, server) /\ ~server.unasked
  BY DEF IInv, TypeOK, Hears, Join, NothingUnagreed
<1>2. /\ C \in Seq(Sent) /\ C # <<>> /\ Head(C) = Head(Q) /\ Tail(C) = Join(toServer', reading')
      /\ toServer' \in Seq(Sent) /\ Head(Q) \in Sent
  BY <1>1, HeadFirst DEF Hears
<1> HIDE DEF C
<1> SUFFICES /\ server' \in ServerTypes /\ ~server'.unasked /\ toClient' \in Seq(Told)
             /\ InTouch(options, Tail(C), toClient', server')
  BY <1>2 DEF Hears, IInv, TypeOK, NothingUnagreed, Join
<1>3. DOMAIN Sides = Verbs
  BY DEF Sides, Verbs
<1>4. CASE kind \in {"WILL", "WONT"}
  <2>1. value \in Names /\ Head(Q) \in Orders
    BY <1>2, <1>4 DEF Sent, Written, Orders
  <2>2. HearsRequest(kind, value)
    BY <1>3, <1>4 DEF Hears, Verbs
  <2>3. PICK on \in BOOLEAN, i \in Told :
            /\ server' = [server EXCEPT !.them[value] = on, !.themAsked[value] = FALSE]
            /\ toClient' \in Seq(Told)
            /\ i[1] = (IF on THEN "DO" ELSE "DONT") /\ i[2] = value
            /\ Heeds(on, kind, server.them[value], server.themAsked[value], B, i, toClient')
    <3> HIDE DEF kind, value
    <3>1. course \in Courses
      BY DEF IInv, TypeOK
    <3> QED
      BY <1>1, <1>4, <2>1, <2>2, <3>1, RequestOurs
  <2>4. /\ server' \in ServerTypes /\ server'.us = server.us /\ server'.usAsked = server.usAsked
        /\ server'.size = server.size /\ server'.unasked = server.unasked
        /\ server'.them[value] = on /\ ~server'.themAsked[value]
        /\ \A y \in Names \ {value} : /\ server'.them[y] = server.them[y]
                                      /\ server'.themAsked[y] = server.themAsked[y]
    <3> HIDE DEF value
    <3> QED
      BY <1>1, <2>1, <2>3 DEF ServerTypes
  <2>5. InTouch(options, Tail(C), toClient', server')
    <3>1. Head(C)[1] \in {"WILL", "WONT"} /\ Head(C)[2] = value
      BY <1>2, <1>4
    <3>2. Heeds(server'.them[value], Head(C)[1], server.them[value], server.themAsked[value], B, i, toClient')
      BY <1>2, <2>3, <2>4
    <3>3. i[1] = (IF server'.them[value] THEN "DO" ELSE "DONT") /\ i[2] = value
      BY <2>3, <2>4
    <3> DEFINE w == server'
               x == value
               D == toClient'
    <3>4. w \in ServerTypes /\ w.us = server.us /\ w.usAsked = server.usAsked
        /\ w.size = server.size /\ ~w.themAsked[x]
        /\ \A y \in Names \ {x} : w.them[y] = server.them[y] /\ w.themAsked[y] = server.themAsked[y]
      BY <2>4
    <3> HIDE DEF w, x, B, D
    <3> QED
      BY <1>1, <1>2, <2>1, <2>3, <3>1, <3>2, <3>3, <3>4, HeardOurs DEF w, x, D
  <2> QED
    BY <1>1, <2>3, <2>4, <2>5
<1>5. CASE kind \in {"DO", "DONT"}
  <2>1. value \in Names /\ Head(Q) \in Orders
    BY <1>2, <1>5 DEF Sent, Written, Orders
  <2>2. HearsRequest(kind, value)
    BY <1>3, <1>5 DEF Hears, Verbs
  <2>3. PICK on \in BOOLEAN, i \in Told :
            /\ server' = [server EXCEPT !.us[value] = on, !.usAsked[value] = FALSE]
            /\ toClient' \in Seq(Told)
            /\ i[1] = (IF on THEN "WILL" ELSE "WONT") /\ i[2] = value
            /\ Heeds(on, kind, server.us[value], server.usAsked[value], B, i, toClient')
    <3> HIDE DEF kind, value
    <3>1. course \in Courses
      BY DEF IInv, TypeOK
    <3> QED
      BY <1>1, <1>5, <2>1, <2>2, <3>1, RequestIts
  <2>4. /\ server' \in ServerTypes /\ server'.them = server.them /\ server'.themAsked = server.themAsked
        /\ server'.size = server.size /\ server'.unasked = server.unasked
        /\ server'.us[value] = on /\ ~server'.usAsked[value]
        /\ \A y \in Names \ {value} : /\ server'.us[y] = server.us[y]
                                      /\ server'.usAsked[y] = server.usAsked[y]
    <3> HIDE DEF value
    <3> QED
      BY <1>1, <2>1, <2>3 DEF ServerTypes
  <2>5. InTouch(options, Tail(C), toClient', server')
    <3>1. Head(C)[1] \in {"DO", "DONT"} /\ Head(C)[2] = value
      BY <1>2, <1>5
    <3>2. Heeds(server'.us[value], Head(C)[1], server.us[value], server.usAsked[value], B, i, toClient')
      BY <1>2, <2>3, <2>4
    <3>3. i[1] = (IF server'.us[value] THEN "WILL" ELSE "WONT") /\ i[2] = value
      BY <2>3, <2>4
    <3> DEFINE w == server'
               x == value
               D == toClient'
    <3>4. w \in ServerTypes /\ w.them = server.them /\ w.themAsked = server.themAsked
        /\ w.size = server.size /\ ~w.usAsked[x]
        /\ \A y \in Names \ {x} : w.us[y] = server.us[y] /\ w.usAsked[y] = server.usAsked[y]
      BY <2>4
    <3> HIDE DEF w, x, B, D
    <3> QED
      BY <1>1, <1>2, <2>1, <2>3, <3>1, <3>2, <3>3, <3>4, HeardIts DEF w, x, D
  <2> QED
    BY <1>1, <2>3, <2>4, <2>5
<1>6. CASE kind \notin Verbs
  <2>1. kind \in {"CHAR", "LINE", "BREAK", "SIZE", "NAME"}
        /\ (kind = "CHAR" => value \in Chars) /\ (kind \in {"SIZE", "LINE"} => value \in Nat)
    BY <1>2, <1>6 DEF Sent, Written, Orders
  <2>2. /\ toClient' = toClient
        /\ kind = "CHAR" => HearsCharacter(value)
        /\ kind = "SIZE" => server' = [server EXCEPT !.size = value, !.unasked = @ \/ ~server.them["NAWS"]]
        /\ kind = "LINE" => server' = [server EXCEPT !.line = value]
        /\ kind \in {"NAME", "BREAK"} => server' = server
    BY <1>3, <1>6, <2>1 DEF Hears
  <2>3. /\ server' \in ServerTypes /\ server'.us = server.us /\ server'.usAsked = server.usAsked
        /\ server'.them = server.them /\ server'.themAsked = server.themAsked
        /\ server'.size = (IF kind = "SIZE" THEN value ELSE server.size)
        /\ server'.unasked = (IF kind = "SIZE" THEN server.unasked \/ ~server.them["NAWS"] ELSE server.unasked)
    <3> HIDE DEF kind, value
    <3>1. CASE kind = "CHAR"
      <4> DEFINE h == server'.heard
                 cr == server'.afterCr
      <4>1. \E g, b : server' = [server EXCEPT !.afterCr = b, !.heard = g]
                       /\ b \in BOOLEAN /\ g \in Seq(Chars \cup {"newline"})
        <5> DEFINE before == server.heard
                   joins == before # <<>> /\ server.afterCr /\ ~server.them["BINARY"]
                   g == CASE joins /\ value = "nul" -> before
                          [] joins /\ value = "lf" -> Append(Front(before), "newline")
                          [] OTHER -> Append(before, value)
                   b == value = "cr"
                   H == Chars \cup {"newline"}
        <5>1. before \in Seq(H) /\ value \in H /\ "newline" \in H
          BY <1>1, <2>1, <3>1 DEF ServerTypes
        <5> HIDE DEF before, H
        <5>2. before # <<>> => Front(before) \in Seq(H)
          BY <5>1 DEF Front
        <5>3. g \in Seq(H)
          BY <5>1, <5>2
        <5>4. server' = [server EXCEPT !.afterCr = b, !.heard = g]
          BY <2>2, <3>1 DEF HearsCharacter, before
        <5> QED
          BY <5>3, <5>4 DEF H
      <4> QED
        BY <1>1, <3>1, <4>1 DEF ServerTypes
    <3>2. CASE kind = "SIZE"
      BY <1>1, <2>1, <2>2, <3>2 DEF ServerTypes
    <3>3. CASE kind = "LINE"
      BY <1>1, <2>1, <2>2, <3>3 DEF ServerTypes
    <3>4. CASE kind \in {"NAME", "BREAK"}
      BY <1>1, <2>2, <3>4
    <3> QED
      BY <2>1, <3>1, <3>2, <3>3, <3>4
  <2>4. InTouch(options, Tail(C), B, server') /\ (kind = "SIZE" => server.them["NAWS"])
    <3> DEFINE w == server'
    <3>1. /\ w.us = server.us /\ w.usAsked = server.usAsked
          /\ w.them = server.them /\ w.themAsked = server.themAsked
          /\ w.size = IF Head(C)[1] = "SIZE" THEN Head(C)[2] ELSE server.size
      BY <1>2, <2>3
    <3>2. Head(C)[1] \notin Verbs /\ (kind = "SIZE" => Head(C)[1] = "SIZE")
      BY <1>2, <1>6
    <3> HIDE DEF w, B, kind
    <3> QED
      BY <1>1, <1>2, <3>1, <3>2, HeardPlain DEF w
  <2> QED
    BY <1>1, <2>2, <2>3, <2>4
<1> QED
  BY <1>4, <1>5, <1>6 DEF Verbs

-----------------------------------------------------------------------------
(* What the server asks and says of its own accord. *)

\* It asks for a change of an option at this end.
LEMMA AskedOurs ==
  ASSUME NEW o \in OptionTypes, NEW C \in Seq(Sent), NEW B \in Seq(Told), NEW v \in ServerTypes,
         NEW x \in Names, InTouch(o, C, B, v), ~v.themAsked[x],
         NEW w \in ServerTypes, w.us = v.us, w.usAsked = v.usAsked, w.size = v.size,
         w.them = v.them, w.themAsked[x],
         \A y \in Names \ {x} : w.themAsked[y] = v.themAsked[y],
         NEW i \in Told, i[1] = IF v.them[x] THEN "DONT" ELSE "DO", i[2] = x
  PROVE  InTouch(o, C, Then(B, i), w)
<1> DEFINE D == Then(B, i)
           c == Wills(C, x)
           d == Does(B, x)
           u == o.us[x]
           p == o.usPending[x]
           t == v.them[x]
           a == v.themAsked[x]
           asked == w.themAsked[x]
<1>1. /\ i[1] = "DO" => Does(D, x) = Join(d, Yes)
      /\ i[1] = "DONT" => Does(D, x) = Join(d, No)
  BY ToldAdded
<1>2. /\ \A y : y # x => Does(D, y) = Does(B, y)
      /\ d \in Seq(Answers)
  BY ToldAdded
<1>3. \A y : Wills(D, y) = Wills(B, y)
  <2>1. i[1] \notin {"WILL", "WONT"}
    OBVIOUS
  <2> QED
    BY <2>1, ToldAdded
<1>4. c \in Seq(Answers)
  <2>1. C \in Seq(Items)
    BY DEF Items
  <2> QED
    BY <2>1, WordSteps DEF Wills
<1> HIDE DEF D
<1>5. Ours(o, C, B, v, x) /\ SizesInOrder(o, C, v)
  BY DEF InTouch
<1>6. /\ u \in BOOLEAN /\ p \in BOOLEAN /\ t \in BOOLEAN /\ ~a /\ a \in BOOLEAN
      /\ asked \in BOOLEAN /\ asked
  BY OptionPlaces
<1>7. Standing("them", u, p, t, a, c, d)
  BY <1>5 DEF Ours
<1>8. Standing("them", u, p, t, asked, c, Does(D, x))
  <2>0. (t => i[1] = "DONT") /\ (~t => i[1] = "DO")
    OBVIOUS
  <2> HIDE DEF c, d, u, p, t, a, asked
  <2>1. CASE t
    <3>1. Standing("them", u, p, t, asked, c, Join(d, No))
      BY <1>2, <1>4, <1>6, <1>7, <2>1, FirstWord, LastWord, WordsApart DEF Standing, Join
    <3> QED
      BY <1>1, <2>0, <2>1, <3>1
  <2>2. CASE ~t
    <3>1. Standing("them", u, p, t, asked, c, Join(d, Yes))
      BY <1>2, <1>4, <1>6, <1>7, <2>2, FirstWord, LastWord, WordsApart DEF Standing, Join
    <3> QED
      BY <1>1, <2>0, <2>2, <3>1
  <2> QED
    BY <2>1, <2>2
<1>9. Ours(o, C, D, w, x)
  BY <1>5, <1>8 DEF Ours
<1>10. SizesInOrder(o, C, w)
  <2>1. v.themAsked["NAWS"] => w.themAsked["NAWS"]
    BY DEF Names
  <2> QED
    BY <1>5, <2>1 DEF SizesInOrder, LastSize
<1> HIDE DEF c, d, u, p, t, a, asked
<1> QED
  BY <1>2, <1>3, <1>9, <1>10, OursAlone DEF D

\* It asks for one at its own end; what it will do no longer it does no more.
LEMMA AskedIts ==
  ASSUME NEW o \in OptionTypes, NEW C \in Seq(Sent), NEW B \in Seq(Told), NEW v \in ServerTypes,
         NEW x \in Names, InTouch(o, C, B, v), ~v.usAsked[x],
         NEW w \in ServerTypes, w.them = v.them, w.themAsked = v.themAsked, w.size = v.size,
         w.usAsked[x], ~w.us[x],
         \A y \in Names \ {x} : w.us[y] = v.us[y] /\ w.usAsked[y] = v.usAsked[y],
         NEW i \in Told, i[1] = IF v.us[x] THEN "WONT" ELSE "WILL", i[2] = x
  PROVE  InTouch(o, C, Then(B, i), w)
<1> DEFINE D == Then(B, i)
           c == Does(C, x)
           d == Wills(B, x)
           u == o.them[x]
           p == o.themPending[x]
           t == v.us[x]
           a == v.usAsked[x]
           on == w.us[x]
           asked == w.usAsked[x]
<1>1. /\ i[1] = "WILL" => Wills(D, x) = Join(d, Yes)
      /\ i[1] = "WONT" => Wills(D, x) = Join(d, No)
  BY ToldAdded
<1>2. /\ \A y : y # x => Wills(D, y) = Wills(B, y)
      /\ d \in Seq(Answers)
  BY ToldAdded
<1>3. \A y : Does(D, y) = Does(B, y)
  <2>1. i[1] \notin {"DO", "DONT"}
    OBVIOUS
  <2> QED
    BY <2>1, ToldAdded
<1>4. c \in Seq(Answers)
  <2>1. C \in Seq(Items)
    BY DEF Items
  <2> QED
    BY <2>1, WordSteps DEF Does
<1> HIDE DEF D
<1>5. Its(o, C, B, v, x) /\ SizesInOrder(o, C, v)
  BY DEF InTouch
<1>6. /\ u \in BOOLEAN /\ p \in BOOLEAN /\ t \in BOOLEAN /\ ~a /\ a \in BOOLEAN
      /\ asked \in BOOLEAN /\ asked /\ ~on /\ on \in BOOLEAN
  BY OptionPlaces
<1>7. Standing("us", u, p, t, a, c, d)
  BY <1>5 DEF Its
<1>8. Standing("us", u, p, on, asked, c, Wills(D, x))
  <2>0. (t => i[1] = "WONT") /\ (~t => i[1] = "WILL")
    OBVIOUS
  <2> HIDE DEF c, d, u, p, t, a, on, asked
  <2>1. CASE t
    <3>1. Standing("us", u, p, on, asked, c, Join(d, No))
      BY <1>2, <1>4, <1>6, <1>7, <2>1, FirstWord, LastWord, WordsApart DEF Standing, Join
    <3> QED
      BY <1>1, <2>0, <2>1, <3>1
  <2>2. CASE ~t
    <3>1. Standing("us", u, p, on, asked, c, Join(d, Yes))
      BY <1>2, <1>4, <1>6, <1>7, <2>2, FirstWord, LastWord, WordsApart DEF Standing, Join
    <3> QED
      BY <1>1, <2>0, <2>2, <3>1
  <2> QED
    BY <2>1, <2>2
<1>9. Its(o, C, D, w, x)
  BY <1>5, <1>8 DEF Its
<1>10. SizesInOrder(o, C, w)
  BY <1>5 DEF SizesInOrder, LastSize
<1> HIDE DEF c, d, u, p, t, a, on, asked
<1> QED
  BY <1>2, <1>3, <1>9, <1>10, ItsAlone DEF D

\* It says what is no word about an option.
LEMMA ToldPlain ==
  ASSUME NEW o, NEW C, NEW v, NEW w, NEW B \in Seq(Told), NEW i \in Told, i[1] \notin Verbs,
         InTouch(o, C, B, v), w.us = v.us, w.usAsked = v.usAsked, w.them = v.them,
         w.themAsked = v.themAsked, w.size = v.size
  PROVE  Then(B, i) \in Seq(Told) /\ InTouch(o, C, Then(B, i), w)
<1> DEFINE D == Then(B, i)
           x == i[2]
<1>1. D \in Seq(Told)
  BY DEF Then
<1>2. \A y : Does(D, y) = Does(B, y) /\ Wills(D, y) = Wills(B, y)
  <2>1. i[2] = x /\ i[1] \notin {"WILL", "WONT"} /\ i[1] \notin {"DO", "DONT"}
    BY DEF Verbs
  <2> HIDE DEF x
  <2> QED
    BY <2>1, ToldAdded
<1> HIDE DEF D
<1>3. SizesInOrder(o, C, w)
  BY SizesCarried DEF InTouch
<1> QED
  BY <1>1, <1>2, <1>3, OursCarried, ItsCarried DEF InTouch, D

\* The server asks for a change.
LEMMA AsksOn ==
  ASSUME IInv, Asks
  PROVE  IInv'
<1> DEFINE B == toClient
           C == Join(toServer, reading)
           w == server'
<1>1. /\ options \in OptionTypes /\ server \in ServerTypes /\ C \in Seq(Sent)
      /\ B \in Seq(Told) /\ InTouch(options, C, B, server) /\ ~server.unasked
  BY SentRegrouped DEF IInv, TypeOK, Join, NothingUnagreed
<1>2. PICK side \in {"us", "them"}, x \in course.asks :
        /\ ~server[AskedOf(side)][x]
        /\ w = [server EXCEPT !.requests = @ + 1, ![AskedOf(side)][x] = TRUE,
                              ![side][x] = side = "them" /\ @]
        /\ toClient' = Append(toClient, <<Verb(side, ~server[side][x]), x>>)
  BY DEF Asks
<1>3. x \in Names
  BY TelnetAssumption DEF IInv, TypeOK
<1> DEFINE i == <<Verb(side, ~server[side][x]), x>>
<1>4. toClient' = Then(B, i)
  BY <1>2 DEF Then
<1> SUFFICES /\ w \in ServerTypes /\ ~w.unasked /\ i \in Told
             /\ InTouch(options, C, Then(B, i), w)
  <2>1. toClient' \in Seq(Told)
    BY <1>1, <1>4 DEF Then
  <2> HIDE DEF i
  <2> QED
    BY <1>1, <1>4, <2>1 DEF Asks, IInv, TypeOK, NothingUnagreed, Join
<1>5. CASE side = "them"
  <2>1. /\ ~server.themAsked[x]
        /\ w = [server EXCEPT !.requests = @ + 1, !.themAsked[x] = TRUE, !.them[x] = server.them[x]]
    <3>1. (TRUE /\ server.them[x]) = server.them[x]
      BY <1>1, <1>3 DEF ServerTypes
    <3>2. w = [server EXCEPT !.requests = @ + 1, !.themAsked[x] = TRUE,
                             !.them[x] = (TRUE /\ server.them[x])]
      BY <1>2, <1>5 DEF AskedOf
    <3> QED
      BY <1>2, <1>5, <3>1, <3>2 DEF AskedOf
  <2>2. /\ w \in ServerTypes /\ w.us = server.us /\ w.usAsked = server.usAsked
        /\ w.size = server.size /\ w.unasked = server.unasked /\ w.them = server.them
        /\ w.themAsked[x] /\ \A y \in Names \ {x} : w.themAsked[y] = server.themAsked[y]
    <3>1. w \in ServerTypes
      <4> DEFINE r == server.requests + 1
      <4>1. r \in Nat
        BY <1>1 DEF ServerTypes
      <4>2. w = [server EXCEPT !.requests = r, !.themAsked[x] = TRUE, !.them[x] = server.them[x]]
        BY <2>1
      <4>3. server.them[x] \in BOOLEAN
        BY <1>1, <1>3 DEF ServerTypes
      <4> HIDE DEF r
      <4> QED
        BY <1>1, <1>3, <4>1, <4>2, <4>3 DEF ServerTypes
    <3>2. /\ w.us = server.us /\ w.usAsked = server.usAsked
          /\ w.size = server.size /\ w.unasked = server.unasked
      BY <1>1, <2>1 DEF ServerTypes
    <3>3. w.them = server.them
      BY <1>1, <1>3, <2>1 DEF ServerTypes
    <3>4. w.themAsked[x] /\ \A y \in Names \ {x} : w.themAsked[y] = server.themAsked[y]
      BY <1>1, <1>3, <2>1 DEF ServerTypes
    <3> QED
      BY <3>1, <3>2, <3>3, <3>4
  <2>3. i \in Told /\ i[1] = (IF server.them[x] THEN "DONT" ELSE "DO") /\ i[2] = x
    BY <1>3, <1>5, OrdersSent DEF Verb, Verbs
  <2> HIDE DEF i, w, C, B
  <2>4. InTouch(options, C, Then(B, i), w)
    BY <1>1, <1>3, <2>1, <2>2, <2>3, AskedOurs, ZenonT(60)
  <2> QED
    BY <1>1, <2>2, <2>3, <2>4
<1>6. CASE side = "us"
  <2>1. /\ ~server.usAsked[x]
        /\ w = [server EXCEPT !.requests = @ + 1, !.usAsked[x] = TRUE, !.us[x] = FALSE]
    BY <1>2, <1>6 DEF AskedOf
  <2>2. /\ w \in ServerTypes /\ w.them = server.them /\ w.themAsked = server.themAsked
        /\ w.size = server.size /\ w.unasked = server.unasked /\ ~w.us[x] /\ w.usAsked[x]
        /\ \A y \in Names \ {x} : w.us[y] = server.us[y] /\ w.usAsked[y] = server.usAsked[y]
    <3>1. w \in ServerTypes
      <4> DEFINE r == server.requests + 1
      <4>1. r \in Nat
        BY <1>1 DEF ServerTypes
      <4>2. w = [server EXCEPT !.requests = r, !.usAsked[x] = TRUE, !.us[x] = FALSE]
        BY <2>1
      <4>3. server.them[x] \in BOOLEAN
        BY <1>1, <1>3 DEF ServerTypes
      <4> HIDE DEF r
      <4> QED
        BY <1>1, <1>3, <4>1, <4>2, <4>3 DEF ServerTypes
    <3>2. /\ w.them = server.them /\ w.themAsked = server.themAsked
          /\ w.size = server.size /\ w.unasked = server.unasked
      BY <1>1, <2>1 DEF ServerTypes
    <3>3. ~w.us[x] /\ w.usAsked[x]
      BY <1>1, <1>3, <2>1 DEF ServerTypes
    <3>4. \A y \in Names \ {x} : w.us[y] = server.us[y] /\ w.usAsked[y] = server.usAsked[y]
      BY <1>1, <1>3, <2>1 DEF ServerTypes
    <3> QED
      BY <3>1, <3>2, <3>3, <3>4
  <2>3. i \in Told /\ i[1] = (IF server.us[x] THEN "WONT" ELSE "WILL") /\ i[2] = x
    BY <1>3, <1>6, OrdersSent DEF Verb, Verbs
  <2> HIDE DEF i, w, C, B
  <2>4. InTouch(options, C, Then(B, i), w)
    BY <1>1, <1>3, <2>1, <2>2, <2>3, AskedIts, ZenonT(60)
  <2> QED
    BY <1>1, <2>2, <2>3, <2>4
<1> QED
  BY <1>2, <1>5, <1>6

\* It says something, or asks for the name.
LEMMA SaysOn ==
  ASSUME IInv, Says
  PROVE  IInv'
<1> DEFINE B == toClient
           C == Join(toServer, reading)
           w == server'
<1>1. /\ options \in OptionTypes /\ server \in ServerTypes /\ C \in Seq(Sent)
      /\ B \in Seq(Told) /\ InTouch(options, C, B, server) /\ ~server.unasked
  BY SentRegrouped DEF IInv, TypeOK, Join, NothingUnagreed
<1> SUFFICES /\ w \in ServerTypes /\ ~w.unasked /\ toClient' \in Seq(Told)
             /\ InTouch(options, C, toClient', w)
  BY DEF Says, IInv, TypeOK, NothingUnagreed, Join
<1>2. ASSUME NEW c \in {"x", "cr"}, w = server,
             toClient' = toClient \o <<<<"CHAR", c>>>>
                               \o Only(<<"CHAR", "nul">>, c = "cr" /\ ~server.us["BINARY"])
      PROVE  toClient' \in Seq(Told) /\ InTouch(options, C, toClient', w)
  <2> DEFINE i == <<"CHAR", c>>
             n == <<"CHAR", "nul">>
             b == c = "cr" /\ ~server.us["BINARY"]
             D == Then(B, i)
  <2>1. i \in Told /\ i[1] \notin Verbs /\ n \in Told /\ n[1] \notin Verbs
    BY DEF Told, Chars, Verbs
  <2>2. toClient' = D \/ toClient' = Then(D, n)
    <3>1. B \o <<i>> = Append(B, i) /\ Append(B, i) \in Seq(Told)
      BY <1>1, <2>1
    <3>2. D \in Seq(Told) /\ toClient' = D \o Only(n, b)
      BY <1>2, <3>1 DEF Then
    <3>3. b \in BOOLEAN
      OBVIOUS
    <3> HIDE DEF D, n, b
    <3>4. toClient' = Added(D, n, b)
      BY <2>1, <3>2, <3>3, ToldAnswered
    <3> QED
      BY <3>4 DEF Added
  <2> HIDE DEF i, n, C, D, B
  <2>3. D \in Seq(Told) /\ InTouch(options, C, D, server)
    BY <1>1, <2>1, ToldPlain DEF D
  <2>4. Then(D, n) \in Seq(Told) /\ InTouch(options, C, Then(D, n), server)
    BY <2>1, <2>3, ToldPlain
  <2> QED
    BY <1>2, <2>2, <2>3, <2>4
<1>3. ASSUME w = [server EXCEPT !.requests = @ + 1], toClient' = Append(toClient, <<"SEND", "TTYPE">>)
      PROVE  /\ w \in ServerTypes /\ ~w.unasked
             /\ toClient' \in Seq(Told) /\ InTouch(options, C, toClient', w)
  <2> DEFINE i == <<"SEND", "TTYPE">>
  <2>1. i \in Told /\ i[1] \notin Verbs /\ toClient' = Then(B, i)
    BY <1>3 DEF Told, Verbs, Then
  <2>2. /\ w \in ServerTypes /\ w.us = server.us /\ w.usAsked = server.usAsked
        /\ w.them = server.them /\ w.themAsked = server.themAsked
        /\ w.size = server.size /\ w.unasked = server.unasked
    <3>1. w \in ServerTypes
      <4> DEFINE r == server.requests + 1
      <4>1. r \in Nat /\ w = [server EXCEPT !.requests = r]
        BY <1>1, <1>3 DEF ServerTypes
      <4> HIDE DEF r
      <4> QED
        BY <1>1, <4>1 DEF ServerTypes
    <3> QED
      BY <1>1, <1>3, <3>1 DEF ServerTypes
  <2> HIDE DEF i, C, w, B
  <2>3. Then(B, i) \in Seq(Told) /\ InTouch(options, C, Then(B, i), w)
    BY <1>1, <2>1, <2>2, ToldPlain
  <2> QED
    BY <1>1, <2>1, <2>2, <2>3
<1>4. \/ w = server /\ \E c \in {"x", "cr"} :
               toClient' = toClient \o <<<<"CHAR", c>>>>
                               \o Only(<<"CHAR", "nul">>, c = "cr" /\ ~server.us["BINARY"])
      \/ w = [server EXCEPT !.requests = @ + 1] /\ toClient' = Append(toClient, <<"SEND", "TTYPE">>)
  BY DEF Says
<1> QED
  BY <1>1, <1>2, <1>3, <1>4

-----------------------------------------------------------------------------
(* What this end does. *)

LEMMA Alone ==
  ASSUME NEW Q \in Seq(Sent)
  PROVE  Q \o <<>> = Q /\ <<>> \in Seq(Sent)
OBVIOUS

\* A read.
LEMMA ReadOn ==
  ASSUME IInv, Read
  PROVE  IInv'
<1> DEFINE B == toClient
<1>1. /\ options \in OptionTypes /\ server \in ServerTypes /\ toServer \in Seq(Sent)
      /\ B \in Seq(Told) /\ afterCr \in BOOLEAN /\ shown \in Seq(Chars)
      /\ InTouch(options, toServer, B, server)
  <2>1. reading = <<>>
    BY DEF Read
  <2>2. toServer \o reading = toServer
    BY <2>1, Alone DEF IInv, TypeOK
  <2> QED
    BY <2>2 DEF IInv, TypeOK
<1>2. PICK n \in 1 .. Len(B) :
        LET s == Decode(SubSeq(B, 1, n), afterCr)
        IN  /\ options' = s.o /\ afterCr' = s.afterCr /\ shown' = shown \o s.out
            /\ reading' = s.replies
            /\ toClient' = SubSeq(B, n + 1, Len(B))
  <2>1. DOMAIN toClient = 1 .. Len(toClient)
    BY <1>1
  <2> QED
    BY <2>1, Zenon DEF Read
<1> DEFINE s == Decode(SubSeq(B, 1, n), afterCr)
           D == SubSeq(B, n + 1, Len(B))
<1>3. Follows(s, toServer, D, server)
  <2> HIDE DEF B
  <2> QED
    BY <1>1, DecodeFollows
<1>4. /\ options' = s.o /\ afterCr' = s.afterCr /\ shown' = shown \o s.out
      /\ reading' = s.replies /\ toClient' = D
  BY <1>2, Zenon
<1>5. D \in Seq(Told)
  BY <1>1
<1> HIDE DEF s, D
<1>6. s.o \in OptionTypes /\ s.replies \in Seq(Sent) /\ s.afterCr \in BOOLEAN /\ s.out \in Seq(Chars)
      /\ InTouch(s.o, toServer \o s.replies, D, server)
  BY <1>3, DecodedPlaces DEF Follows
<1>7. shown' \in Seq(Chars)
  BY <1>1, <1>4, <1>6
<1>8. InTouch(options', toServer' \o reading', toClient', server')
  <2>1. toServer' = toServer /\ server' = server
    BY DEF Read
  <2> QED
    BY <1>4, <1>6, <2>1
<1> QED
  BY <1>4, <1>5, <1>6, <1>7, <1>8 DEF Read, IInv, TypeOK, NothingUnagreed

\* A new size of the page.
LEMMA ResizeOn ==
  ASSUME IInv, Resize
  PROVE  IInv'
<1> DEFINE p == [options EXCEPT !.size = @ + 1]
           i == WindowSize(p)
           a == p.us["NAWS"]
<1>1. /\ options \in OptionTypes /\ server \in ServerTypes /\ toServer \in Seq(Sent)
      /\ InTouch(options, toServer, toClient, server)
  <2>1. reading = <<>>
    BY DEF Resize
  <2>2. toServer \o reading = toServer
    BY <2>1, Alone DEF IInv, TypeOK
  <2> QED
    BY <2>2 DEF IInv, TypeOK
<1>2. options' = p /\ reading' = Only(i, a) /\ toServer' = toServer
  BY DEF Resize, SizeTold
<1>3. a \in BOOLEAN /\ i \in Sent
  <2>1. p \in OptionTypes
    BY <1>1 DEF OptionTypes
  <2> QED
    BY <2>1, OthersSent DEF OptionTypes, Names
<1>4. p \in OptionTypes /\ InTouch(p, Added(toServer, i, a), toClient, server)
  <2> DEFINE q == p
             j == i
  <2>1. q = [options EXCEPT !.size = @ + 1] /\ j = WindowSize(q)
    BY <1>3
  <2> HIDE DEF q, j
  <2>2. q \in OptionTypes /\ InTouch(q, Added(toServer, j, q.us["NAWS"]), toClient, server)
    BY <1>1, <2>1, NewSize
  <2> QED
    BY <2>2 DEF q, j
<1> HIDE DEF p, i, a
<1>5. toServer \o Only(i, a) = Added(toServer, i, a) /\ Only(i, a) \in Seq(Sent)
  BY <1>1, <1>3, AnswerAdded
<1>6. InTouch(options', toServer' \o reading', toClient', server')
  <2>1. toClient' = toClient /\ server' = server
    BY DEF Resize
  <2> QED
    BY <1>2, <1>4, <1>5, <2>1
<1> QED
  BY <1>2, <1>4, <1>5, <1>6 DEF Resize, IInv, TypeOK, NothingUnagreed

\* The answers are written.
LEMMA WriteRepliesOn ==
  ASSUME IInv, WriteReplies
  PROVE  IInv'
<1>1. toServer \o reading \in Seq(Sent) /\ (toServer \o reading) \o <<>> = toServer \o reading
  BY Alone, ConcatProperties DEF IInv, TypeOK
<1>2. toServer' = toServer \o reading /\ reading' = <<>>
  BY DEF WriteReplies
<1>3. InTouch(options', toServer' \o reading', toClient', server')
  <2>1. toServer' \o reading' = toServer \o reading
    BY <1>1, <1>2
  <2> QED
    BY <2>1 DEF WriteReplies, IInv
<1>4. <<>> \in Seq(Sent)
  OBVIOUS
<1> QED
  BY <1>1, <1>2, <1>3, <1>4 DEF WriteReplies, IInv, TypeOK, NothingUnagreed

\* What the holder of the writer has to write, it writes whole.
LEMMA WriteOutOn ==
  ASSUME IInv, WriteOut
  PROVE  IInv'
<1>1. /\ toServer \in Seq(Sent) /\ writing \in Seq(Sent) /\ reading \in Seq(Sent)
      /\ options \in OptionTypes /\ server \in ServerTypes
      /\ InTouch(options, toServer \o reading, toClient, server)
  BY DEF IInv, TypeOK, Sent
<1>2. \A k \in 1 .. Len(writing) : writing[k][1] \notin Verbs /\ writing[k][1] # "SIZE"
  BY DEF IInv, TypeOK, Written, Verbs
<1>3. toServer' = toServer \o writing /\ writing' = <<>>
  BY DEF WriteOut
<1>4. toServer \o writing \in Seq(Sent)
  BY <1>1
<1>5. InTouch(options, (toServer \o writing) \o reading, toClient, server)
  BY <1>1, <1>2, Inserted
<1>6. InTouch(options', toServer' \o reading', toClient', server')
  BY <1>3, <1>5 DEF WriteOut
<1>7. <<>> \in Seq(Written)
  OBVIOUS
<1> QED
  BY <1>3, <1>4, <1>6, <1>7 DEF WriteOut, IInv, TypeOK, NothingUnagreed

\* Something is typed.
LEMMA WriteOn ==
  ASSUME IInv, Write
  PROVE  IInv'
<1>1. PICK data \in {<<"x">>, <<"cr">>, <<"cr", "lf">>, <<"lf">>} :
             writing' = Encode(data, options.us["BINARY"])
  BY DEF Write
<1>2. data \in Seq(Chars)
  <2>1. <<"x">> \in Seq(Chars) /\ <<"cr">> \in Seq(Chars) /\ <<"cr", "lf">> \in Seq(Chars)
        /\ <<"lf">> \in Seq(Chars)
    BY DEF Chars
  <2> QED
    BY <2>1
<1>3. writing' \in Texts
  BY <1>1, <1>2, EncodeTypes
<1>4. writing' \in Seq(Written)
  BY <1>3 DEF Texts, Written
<1>5. InTouch(options', toServer' \o reading', toClient', server')
  BY DEF Write, IInv
<1> QED
  BY <1>4, <1>5 DEF Write, IInv, TypeOK, NothingUnagreed

LEMMA SendBreakOn ==
  ASSUME IInv, SendBreak
  PROVE  IInv'
<1>1. writing' \in Seq(Written)
  <2> DEFINE n == IF options.us["COM_PORT"] THEN 2 ELSE 1
             i == <<"BREAK", n>>
  <2>1. writing' = <<i>> /\ i \in Written
    BY DEF SendBreak, Written
  <2> HIDE DEF i
  <2> QED
    BY <2>1
<1>2. InTouch(options', toServer' \o reading', toClient', server')
  BY DEF SendBreak, IInv
<1> QED
  BY <1>1, <1>2 DEF SendBreak, IInv, TypeOK, NothingUnagreed

\* New settings of the line.
LEMMA SetLineOn ==
  ASSUME IInv, SetLine
  PROVE  IInv'
<1> DEFINE p == [options EXCEPT !.port = @ + 1]
           C == toServer \o reading
<1>1. options \in OptionTypes /\ InTouch(options, C, toClient, server)
  BY DEF IInv, TypeOK
<1>2. /\ p \in OptionTypes /\ p.us = options.us /\ p.usPending = options.usPending
      /\ p.them = options.them /\ p.themPending = options.themPending /\ p.size = options.size
      /\ p.port = options.port + 1 /\ options.port \in Nat
  BY <1>1 DEF OptionTypes
<1>3. options' = p /\ writing' = Only(PortSettings(p), p.us["COM_PORT"])
  BY DEF SetLine
<1> HIDE DEF p, C
<1>4. writing' \in Seq(Written)
  <2> DEFINE i == PortSettings(p)
  <2>1. i \in Written
    BY <1>2 DEF PortSettings, Written
  <2> HIDE DEF i
  <2>2. <<i>> \in Seq(Written) /\ <<>> \in Seq(Written)
    BY <2>1
  <2>3. writing' = <<i>> \/ writing' = <<>>
    BY <1>3 DEF Only, i
  <2> QED
    BY <2>2, <2>3
<1>5. \A y : LocalSupported(options, y) => LocalSupported(p, y)
  BY <1>2 DEF LocalSupported
<1>6. SizesInOrder(p, C, server)
  BY <1>1, <1>2, SizesCarried DEF InTouch
<1>7. InTouch(p, C, toClient, server)
  BY <1>1, <1>2, <1>5, <1>6, OursCarried, ItsCarried DEF InTouch
<1>8. InTouch(options', toServer' \o reading', toClient', server')
  BY <1>3, <1>7 DEF SetLine, C
<1> QED
  BY <1>2, <1>3, <1>4, <1>8 DEF SetLine, IInv, TypeOK, NothingUnagreed

LEMMA StepsOn ==
  ASSUME IInv, [Next]_vars
  PROVE  IInv'
<1>1. CASE UNCHANGED vars
  BY <1>1 DEF vars, IInv, TypeOK, NothingUnagreed
<1> QED
  BY <1>1, ReadOn, ResizeOn, WriteRepliesOn, WriteOn, SendBreakOn, SetLineOn, WriteOutOn,
     HearsOn, AsksOn, SaysOn DEF Next

-----------------------------------------------------------------------------
(* The beginning. *)

\* What is offered, or asked for, as it is sent.
Announced(verb, q) == [i \in DOMAIN q |-> <<verb, q[i]>>]

\* The options a sequence of names lists, each once.
Lists(verb, no, q, listed) ==
  /\ q \in Seq(Names) /\ Announced(verb, q) \in Seq(Orders)
  /\ \A x : Contains(q, x) <=> x \in listed
  /\ \A x : /\ x \in listed => Words(Announced(verb, q), verb, no, x) = Yes
            /\ x \notin listed => Words(Announced(verb, q), verb, no, x) = <<>>

LEMMA NoneListed ==
  ASSUME NEW verb, NEW no
  PROVE  Lists(verb, no, <<>>, {})
<1>1. <<>> \in Seq(Names) /\ <<>> \in Seq(Orders) /\ \A x : ~Contains(<<>>, x)
  BY DEF Contains
<1>2. Announced(verb, <<>>) = <<>>
  <2> DEFINE a == Announced(verb, <<>>)
  <2>1. a \in Seq(Orders) /\ Len(a) = 0
    BY DEF Announced
  <2> QED
    BY <2>1
<1> QED
  BY <1>1, <1>2, WordSteps DEF Lists

LEMMA OneListed ==
  ASSUME NEW verb \in Verbs, NEW no, no # verb, NEW q, NEW listed, Lists(verb, no, q, listed),
         NEW n \in Names, n \notin listed
  PROVE  Lists(verb, no, Then(q, n), listed \cup {n})
<1> DEFINE r == Then(q, n)
           a == Announced(verb, q)
           i == <<verb, n>>
           e == Announced(verb, r)
<1>1. q \in Seq(Names) /\ a \in Seq(Orders)
  BY DEF Lists
<1>2. /\ r \in Seq(Names) /\ Len(r) = Len(q) + 1 /\ Len(q) \in Nat /\ r[Len(q) + 1] = n
      /\ \A k \in 1 .. Len(q) : r[k] = q[k]
      /\ \A k \in 1 .. Len(q) + 1 : k = Len(q) + 1 \/ k \in 1 .. Len(q)
  BY <1>1 DEF Then
<1> HIDE DEF r
<1>3. /\ Len(a) = Len(q) /\ \A k \in 1 .. Len(q) : a[k] = <<verb, q[k]>>
  BY <1>1 DEF Announced
<1>4. i \in Orders /\ i[1] = verb /\ i[2] = n
  BY DEF Orders
<1>5. e = Then(a, i)
  <2> DEFINE t == Append(a, i)
  <2>1. /\ t \in Seq(Orders) /\ Len(t) = Len(q) + 1 /\ t[Len(q) + 1] = i
        /\ \A k \in 1 .. Len(q) : t[k] = a[k]
    BY <1>1, <1>2, <1>3, <1>4
  <2>2. DOMAIN r = 1 .. Len(q) + 1
    BY <1>2
  <2>3. e = [k \in 1 .. Len(q) + 1 |-> <<verb, r[k]>>]
    BY <2>2 DEF Announced
  <2> HIDE DEF t, e, a
  <2>4. \A k \in 1 .. Len(q) + 1 : t[k] = <<verb, r[k]>>
    BY <1>2, <1>3, <2>1
  <2>5. t = [k \in 1 .. Len(q) + 1 |-> t[k]]
    BY <2>1
  <2>6. t = e
    BY <2>3, <2>4, <2>5
  <2> QED
    BY <2>6 DEF Then, t
<1>6. e \in Seq(Orders)
  BY <1>1, <1>4, <1>5 DEF Then
<1>7. a \in Seq(Items) /\ i \in Items
  BY <1>1, <1>4 DEF Items, Sent
<1> HIDE DEF a, i, e
<1>8. \A x : /\ Words(e, verb, no, x) = Words(a, verb, no, x) \o WordOf(i, verb, no, x)
             /\ Words(a, verb, no, x) \in Seq(Answers)
  BY <1>5, <1>7, ItemsOn
<1>9. \A x : /\ x = n => WordOf(i, verb, no, x) = Yes
             /\ x # n => WordOf(i, verb, no, x) = <<>>
  BY <1>4, OrderWords
<1>10. \A x : /\ x \in listed => Words(a, verb, no, x) = Yes
              /\ x \notin listed => Words(a, verb, no, x) = <<>>
  BY DEF Lists, a
<1>11. \A x : /\ x \in listed \cup {n} => Words(e, verb, no, x) = Yes
              /\ x \notin listed \cup {n} => Words(e, verb, no, x) = <<>>
  <2> SUFFICES ASSUME NEW x
               PROVE  /\ x \in listed \cup {n} => Words(e, verb, no, x) = Yes
                      /\ x \notin listed \cup {n} => Words(e, verb, no, x) = <<>>
    OBVIOUS
  <2> DEFINE had == Words(a, verb, no, x)
             new == WordOf(i, verb, no, x)
  <2>1. Words(e, verb, no, x) = had \o new
    BY <1>8
  <2>2. /\ x \in listed => had = Yes
        /\ x \notin listed => had = <<>>
    BY <1>10
  <2>3. /\ x = n => new = Yes
        /\ x # n => new = <<>>
    BY <1>9
  <2>4. x = n => x \notin listed
    BY <1>1
  <2>5. Yes \o <<>> = Yes /\ <<>> \o Yes = Yes /\ <<>> \o <<>> = <<>>
    BY LastWord, WordsIn
  <2> HIDE DEF had, new
  <2> QED
    BY <2>1, <2>2, <2>3, <2>4, <2>5
<1>12. \A x : Contains(r, x) <=> x \in listed \cup {n}
  <2>1. \A x : (\E k \in 1 .. Len(q) : q[k] = x) <=> x \in listed
    BY DEF Lists, Contains
  <2> QED
    BY <1>2, <2>1 DEF Contains
<1> QED
  BY <1>2, <1>6, <1>11, <1>12 DEF Lists, e, r

\* One more, if it is.
LEMMA PerhapsListed ==
  ASSUME NEW verb \in Verbs, NEW no, no # verb, NEW q, NEW listed, Lists(verb, no, q, listed),
         NEW n \in Names, n \notin listed, NEW b
  PROVE  Lists(verb, no, q \o Only(n, b), listed \cup (IF b THEN {n} ELSE {}))
<1>1. q \in Seq(Names)
  BY DEF Lists
<1>2. CASE b
  <2>1. q \o Only(n, b) = Then(q, n)
    BY <1>1, <1>2 DEF Only, Then
  <2>2. Lists(verb, no, Then(q, n), listed \cup {n})
    BY OneListed
  <2>3. (IF b THEN {n} ELSE {}) = {n}
    BY <1>2
  <2> QED
    BY <2>1, <2>2, <2>3
<1>3. CASE ~b
  <2>1. q \o Only(n, b) = q
    BY <1>1, <1>3 DEF Only
  <2>2. listed \cup (IF b THEN {n} ELSE {}) = listed
    BY <1>3
  <2> QED
    BY <2>1, <2>2
<1> QED
  BY <1>2, <1>3

LEMMA ThreeMore ==
  ASSUME NEW S, NEW q \in Seq(S), NEW a \in S, NEW b \in S, NEW c \in S
  PROVE  q \o <<a, b, c>> = Then(Then(Then(q, a), b), c) /\ q \o <<a>> = Then(q, a)
<1> DEFINE t == <<a, b, c>>
           u == q \o t
           q1 == Append(q, a)
           q2 == Append(q1, b)
           q3 == Append(q2, c)
<1>1. t \in Seq(S) /\ Len(t) = 3 /\ t[1] = a /\ t[2] = b /\ t[3] = c /\ Len(q) \in Nat
  OBVIOUS
<1>2. q1 \in Seq(S) /\ Len(q1) = Len(q) + 1 /\ q1[Len(q) + 1] = a /\ \A k \in 1 .. Len(q) : q1[k] = q[k]
  OBVIOUS
<1> HIDE DEF q1, t
<1>3. q2 \in Seq(S) /\ Len(q2) = Len(q) + 2 /\ q2[Len(q) + 2] = b /\ \A k \in 1 .. Len(q) + 1 : q2[k] = q1[k]
  BY <1>1, <1>2
<1> HIDE DEF q2
<1>4. q3 \in Seq(S) /\ Len(q3) = Len(q) + 3 /\ q3[Len(q) + 3] = c /\ \A k \in 1 .. Len(q) + 2 : q3[k] = q2[k]
  BY <1>1, <1>3
<1>5. u \in Seq(S) /\ Len(u) = Len(q) + 3 /\ (\A k \in 1 .. Len(q) : u[k] = q[k])
      /\ u[Len(q) + 1] = t[1] /\ u[Len(q) + 2] = t[2] /\ u[Len(q) + 3] = t[3]
  <2>1. u \in Seq(S) /\ Len(u) = Len(q) + Len(t) /\ (\A k \in 1 .. Len(q) : u[k] = q[k])
        /\ \A k \in 1 .. Len(t) : u[Len(q) + k] = t[k]
    <3>1. /\ u \in Seq(S) /\ Len(u) = Len(q) + Len(t)
          /\ \A k \in 1 .. Len(q) + Len(t) : u[k] = IF k <= Len(q) THEN q[k] ELSE t[k - Len(q)]
      BY <1>1, ConcatProperties
    <3> HIDE DEF u
    <3> QED
      BY <1>1, <3>1
  <2>2. 1 \in 1 .. Len(t) /\ 2 \in 1 .. Len(t) /\ 3 \in 1 .. Len(t)
    BY <1>1
  <2> HIDE DEF u
  <2> QED
    BY <1>1, <2>1, <2>2
<1> HIDE DEF q3, u
<1>6. \A k \in 1 .. Len(q) + 3 : k \in 1 .. Len(q) \/ k = Len(q) + 1 \/ k = Len(q) + 2 \/ k = Len(q) + 3
  BY <1>1
<1>7. \A k \in 1 .. Len(q3) : u[k] = q3[k]
  BY <1>1, <1>2, <1>3, <1>4, <1>5, <1>6
<1>8. u = q3
  BY <1>4, <1>5, <1>7, SamePlaces
<1>9. q \o <<a>> = Append(q, a)
  OBVIOUS
<1> QED
  BY <1>8, <1>9 DEF u, q3, q2, q1, t, Then

Offers(c) ==
  ({} \cup (IF c.binary THEN {"BINARY"} ELSE {})) \cup {"SGA"} \cup {"TTYPE"} \cup {"NAWS"}
    \cup (IF c.port THEN {"COM_PORT"} ELSE {})
AsksFor(c) == ({} \cup (IF c.binary THEN {"BINARY"} ELSE {})) \cup {"SGA"}

LEMMA FirstListed ==
  ASSUME NEW c, NEW verb \in Verbs, NEW no, no # verb
  PROVE  Lists(verb, no, Only("BINARY", c.binary), {} \cup (IF c.binary THEN {"BINARY"} ELSE {}))
<1> DEFINE n == "BINARY"
           none == <<>>
           nil == {}
           b == c.binary
<1>1. n \in Names /\ n \notin nil
  BY DEF Names
<1>2. Lists(verb, no, none, nil)
  BY NoneListed
<1>3. none \o Only(n, b) = Only(n, b)
  BY DEF Only
<1> HIDE DEF n, none, nil, b
<1>4. Lists(verb, no, none \o Only(n, b), nil \cup (IF b THEN {n} ELSE {}))
  BY <1>1, <1>2, PerhapsListed
<1> QED
  BY <1>3, <1>4 DEF n, nil, b

LEMMA OffersListed ==
  ASSUME NEW c
  PROVE  /\ Lists("WILL", "WONT", Offered(c), Offers(c))
         /\ Lists("DO", "DONT", Requested(c), AsksFor(c))
<1> DEFINE sga == "SGA"
           ttype == "TTYPE"
           naws == "NAWS"
           com == "COM_PORT"
           will == "WILL"
           wont == "WONT"
           do == "DO"
           dont == "DONT"
           q == Only("BINARY", c.binary)
           P == {} \cup (IF c.binary THEN {"BINARY"} ELSE {})
           b == c.port
<1>1. /\ sga \in Names /\ ttype \in Names /\ naws \in Names /\ com \in Names
      /\ will \in Verbs /\ do \in Verbs /\ will # wont /\ do # dont
  BY DEF Names, Verbs
<1>2. sga \notin P /\ ttype \notin P \cup {sga} /\ naws \notin P \cup {sga} \cup {ttype}
      /\ com \notin P \cup {sga} \cup {ttype} \cup {naws}
  OBVIOUS
<1>3. Lists(will, wont, q, P) /\ Lists(do, dont, q, P)
  BY <1>1, FirstListed
<1>4. Offered(c) = (q \o <<sga, ttype, naws>>) \o Only(com, b) /\ Requested(c) = q \o <<sga>>
  BY DEF Offered, Requested
<1>5. Offers(c) = P \cup {sga} \cup {ttype} \cup {naws} \cup (IF b THEN {com} ELSE {})
      /\ AsksFor(c) = P \cup {sga}
  BY DEF Offers, AsksFor
<1> HIDE DEF sga, ttype, naws, com, will, wont, do, dont, q, P, b
<1>6. q \in Seq(Names)
  BY <1>3 DEF Lists
<1>7. q \o <<sga, ttype, naws>> = Then(Then(Then(q, sga), ttype), naws) /\ q \o <<sga>> = Then(q, sga)
  BY <1>1, <1>6, ThreeMore
<1>8. /\ Lists(will, wont, Then(q, sga), P \cup {sga}) /\ Lists(do, dont, Then(q, sga), P \cup {sga})
  BY <1>1, <1>2, <1>3, OneListed
<1>9. Lists(will, wont, Then(Then(q, sga), ttype), P \cup {sga} \cup {ttype})
  BY <1>1, <1>2, <1>8, OneListed
<1>10. Lists(will, wont, Then(Then(Then(q, sga), ttype), naws), P \cup {sga} \cup {ttype} \cup {naws})
  BY <1>1, <1>2, <1>9, OneListed
<1> DEFINE r == Then(Then(Then(q, sga), ttype), naws)
           R == P \cup {sga} \cup {ttype} \cup {naws}
<1>11. Lists(will, wont, r, R) /\ com \notin R
  BY <1>2, <1>10
<1> HIDE DEF r, R
<1>12. Lists(will, wont, r \o Only(com, b), R \cup (IF b THEN {com} ELSE {}))
  BY <1>1, <1>11, PerhapsListed
<1>13. Lists(will, wont, Offered(c), Offers(c))
  BY <1>4, <1>5, <1>7, <1>12 DEF r, R
<1>14. Lists(do, dont, Requested(c), AsksFor(c))
  BY <1>4, <1>5, <1>7, <1>8
<1> QED
  BY <1>13, <1>14 DEF will, wont, do, dont

LEMMA InitOn ==
  ASSUME Init
  PROVE  IInv
<1> DEFINE c == course
           will == Announced("WILL", Offered(c))
           do == Announced("DO", Requested(c))
           C == Hello(c)
           o == Connected(c)
           v == Serving
<1>1. /\ Lists("WILL", "WONT", Offered(c), Offers(c))
      /\ Lists("DO", "DONT", Requested(c), AsksFor(c))
  BY OffersListed
<1>2. c.binary \in BOOLEAN /\ c.port \in BOOLEAN
  BY TelnetAssumption DEF Init
<1>3. /\ options = o /\ toServer = C /\ toClient = <<>> /\ server = v /\ reading = <<>>
      /\ writing = <<>> /\ shown = <<>> /\ afterCr = FALSE /\ course \in Courses
  BY DEF Init
<1>4. o \in OptionTypes /\ v \in ServerTypes
  <2>1. \A x \in Names : Contains(Offered(c), x) \in BOOLEAN /\ Contains(Requested(c), x) \in BOOLEAN
    BY DEF Contains
  <2>2. o \in OptionTypes
    BY <1>2, <2>1 DEF Connected, OptionTypes, Off
  <2>3. v \in ServerTypes
    BY DEF Serving, ServerTypes, Off
  <2> QED
    BY <2>2, <2>3
<1>5. will \in Seq(Orders) /\ do \in Seq(Orders) /\ C = Join(will, do)
  BY <1>1 DEF Lists, Hello, Announced, Join
<1>6. C \in Seq(Sent) /\ \A k \in 1 .. Len(C) : C[k][1] # "SIZE"
  <2>1. \A i \in Orders : i[1] # "SIZE"
    BY DEF Orders, Verbs
  <2>2. C \in Seq(Orders)
    <3> HIDE DEF will, do, C
    <3> QED
      BY <1>5 DEF Join
  <2> HIDE DEF C
  <2> QED
    BY <2>1, <2>2 DEF Sent
<1>7. ASSUME NEW x \in Names
      PROVE  /\ x \in Offers(c) => Wills(C, x) = Yes
             /\ x \notin Offers(c) => Wills(C, x) = <<>>
             /\ x \in AsksFor(c) => Does(C, x) = Yes
             /\ x \notin AsksFor(c) => Does(C, x) = <<>>
  <2>1. will \in Seq(Items) /\ do \in Seq(Items)
    BY <1>5 DEF Items, Sent
  <2>2. /\ \A k \in 1 .. Len(will) : will[k][1] = "WILL"
        /\ \A k \in 1 .. Len(do) : do[k][1] = "DO"
    <3>1. Offered(c) \in Seq(Names) /\ Requested(c) \in Seq(Names)
      BY <1>1 DEF Lists
    <3> QED
      BY <3>1 DEF Announced
  <2> HIDE DEF will, do, C
  <2>3. Words(do, "WILL", "WONT", x) = <<>>
    <3>1. \A k \in 1 .. Len(do) : WordOf(do[k], "WILL", "WONT", x) = <<>>
      BY <2>2 DEF WordOf
    <3> QED
      BY <2>1, <3>1, WordsAmong
  <2>4. Words(will, "DO", "DONT", x) = <<>>
    <3>1. \A k \in 1 .. Len(will) : WordOf(will[k], "DO", "DONT", x) = <<>>
      BY <2>2 DEF WordOf
    <3> QED
      BY <2>1, <3>1, WordsAmong
  <2>5. /\ Wills(C, x) = Words(will, "WILL", "WONT", x) \o <<>>
        /\ Does(C, x) = <<>> \o Words(do, "DO", "DONT", x)
    <3>1. \A yes, no : Words(will \o do, yes, no, x) = Words(will, yes, no, x) \o Words(do, yes, no, x)
      BY <2>1, WordsJoin
    <3>2. C = will \o do
      BY <1>5 DEF Join
    <3> QED
      BY <2>3, <2>4, <3>1, <3>2 DEF Wills, Does
  <2>6. /\ Words(will, "WILL", "WONT", x) \in Seq(Answers)
        /\ Words(do, "DO", "DONT", x) \in Seq(Answers)
    BY <2>1, WordSteps
  <2>7. Wills(C, x) = Words(will, "WILL", "WONT", x) /\ Does(C, x) = Words(do, "DO", "DONT", x)
    BY <2>5, <2>6, LastWord
  <2>8. /\ x \in Offers(c) => Words(will, "WILL", "WONT", x) = Yes
        /\ x \notin Offers(c) => Words(will, "WILL", "WONT", x) = <<>>
    BY <1>1 DEF Lists, will
  <2>9. /\ x \in AsksFor(c) => Words(do, "DO", "DONT", x) = Yes
        /\ x \notin AsksFor(c) => Words(do, "DO", "DONT", x) = <<>>
    BY <1>1 DEF Lists, do
  <2> QED
    BY <2>7, <2>8, <2>9
<1>8. \A x : Wills(<<>>, x) = <<>> /\ Does(<<>>, x) = <<>>
  BY WordSteps DEF Wills, Does
<1>9. ASSUME NEW x \in Names
      PROVE  /\ ~o.us[x] /\ ~o.them[x] /\ ~v.us[x] /\ ~v.them[x] /\ ~v.usAsked[x] /\ ~v.themAsked[x]
             /\ o.usPending[x] <=> x \in Offers(c)
             /\ o.themPending[x] <=> x \in AsksFor(c)
  <2>1. Contains(Offered(c), x) <=> x \in Offers(c)
    BY <1>1 DEF Lists
  <2>2. Contains(Requested(c), x) <=> x \in AsksFor(c)
    BY <1>1 DEF Lists
  <2> QED
    BY <2>1, <2>2 DEF Connected, Serving, Off
<1>10. /\ \A x \in Offers(c) : LocalSupported(o, x)
       /\ \A x \in AsksFor(c) : RemoteSupported(x)
  BY DEF Offers, AsksFor, LocalSupported, RemoteSupported, Connected
<1> HIDE DEF C, o, v
<1>11. ASSUME NEW x \in Names
       PROVE  Ours(o, C, <<>>, v, x) /\ Its(o, C, <<>>, v, x)
  <2>1. Standing("them", o.us[x], o.usPending[x], v.them[x], v.themAsked[x], Wills(C, x), Does(<<>>, x))
    <3>1. CASE x \in Offers(c)
      BY <1>7, <1>8, <1>9, <3>1 DEF Standing
    <3>2. CASE x \notin Offers(c)
      BY <1>7, <1>8, <1>9, <3>2 DEF Standing
    <3> QED
      BY <3>1, <3>2
  <2>2. Standing("us", o.them[x], o.themPending[x], v.us[x], v.usAsked[x], Does(C, x), Wills(<<>>, x))
    <3>1. CASE x \in AsksFor(c)
      BY <1>7, <1>8, <1>9, <3>1 DEF Standing
    <3>2. CASE x \notin AsksFor(c)
      BY <1>7, <1>8, <1>9, <3>2 DEF Standing
    <3> QED
      BY <3>1, <3>2
  <2> QED
    BY <1>9, <1>10, <2>1, <2>2 DEF Ours, Its
<1>12. SizesInOrder(o, C, v)
  <2>1. ~o.us["NAWS"]
    BY <1>9 DEF Names
  <2> QED
    BY <1>6, <2>1 DEF SizesInOrder, Orderly, HasSize
<1>13. InTouch(options, toServer \o reading, toClient, server)
  <2>1. C \o <<>> = C
    BY <1>6, Alone
  <2> QED
    BY <1>3, <1>11, <1>12, <2>1 DEF InTouch
<1>14. TypeOK
  <2>1. <<>> \in Seq(Sent) /\ <<>> \in Seq(Chars) /\ <<>> \in Seq(Written) /\ <<>> \in Seq(Told)
    OBVIOUS
  <2> QED
    BY <1>3, <1>4, <1>6, <2>1 DEF TypeOK
<1>15. NothingUnagreed
  BY <1>3 DEF NothingUnagreed, v, Serving
<1> QED
  BY <1>13, <1>14, <1>15 DEF IInv

-----------------------------------------------------------------------------
(* The theorems. *)

\* What the two ends believe when nothing is on its way follows.
LEMMA AgreesThen ==
  ASSUME IInv
  PROVE  BothAgree
<1> SUFFICES ASSUME Quiet
             PROVE  /\ options.us = server.them /\ options.them = server.us
                    /\ \A x \in Names : /\ ~options.usPending[x] /\ ~options.themPending[x]
                                        /\ ~server.usAsked[x] /\ ~server.themAsked[x]
                    /\ options.us["NAWS"] => server.size = options.size
  BY DEF BothAgree, Agreed, IInv
<1>1. /\ options \in OptionTypes /\ server \in ServerTypes /\ toClient = <<>>
      /\ InTouch(options, <<>>, <<>>, server)
  <2>1. <<>> \o <<>> = <<>>
    BY Alone, EmptySeq
  <2> QED
    BY <2>1 DEF Quiet, IInv, TypeOK
<1>2. \A x : Wills(<<>>, x) = <<>> /\ Does(<<>>, x) = <<>>
  BY WordSteps DEF Wills, Does
<1>3. ASSUME NEW x \in Names
      PROVE  /\ (options.us[x] <=> server.them[x]) /\ (options.them[x] <=> server.us[x])
             /\ ~options.usPending[x] /\ ~options.themPending[x]
             /\ ~server.usAsked[x] /\ ~server.themAsked[x]
  <2>1. /\ Standing("them", options.us[x], options.usPending[x], server.them[x], server.themAsked[x], <<>>, <<>>)
        /\ Standing("us", options.them[x], options.themPending[x], server.us[x], server.usAsked[x], <<>>, <<>>)
    BY <1>1, <1>2 DEF InTouch, Ours, Its
  <2> QED
    BY <2>1, WordsApart DEF Standing
<1>4. options.us = server.them /\ options.them = server.us
  BY <1>1, <1>3 DEF OptionTypes, ServerTypes
<1>5. options.us["NAWS"] => server.size = options.size
  <2>1. options.us["NAWS"] => LastSize(<<>>, server, options.size)
    BY <1>1 DEF InTouch, SizesInOrder
  <2>2. \A k \in 1 .. Len(<<>>) : FALSE
    OBVIOUS
  <2> QED
    BY <2>1, <2>2 DEF LastSize
<1> QED
  BY <1>3, <1>4, <1>5

\* What is in the model's variables, whatever the course.
THEOREM TelnetTypes == Spec => []TypeOK
<1>1. Init => IInv
  BY InitOn
<1>2. IInv /\ [Next]_vars => IInv'
  BY StepsOn
<1>3. IInv => TypeOK
  BY DEF IInv
<1> QED
  BY <1>1, <1>2, <1>3, PTL DEF Spec

\* Whatever the options the server accepts and asks about, and however the
\* requests of the two ends cross: with nothing on its way both believe the
\* same of every option, none waits for an answer, and a server that is told
\* of the size of the page has the last; and no size reaches a server that has
\* not agreed to hear of it (hello, negotiate, resize).
THEOREM EndsAgree == Spec => []BothAgree
<1>1. Init => IInv
  BY InitOn
<1>2. IInv /\ [Next]_vars => IInv'
  BY StepsOn
<1>3. IInv => BothAgree
  BY AgreesThen
<1> QED
  BY <1>1, <1>2, <1>3, PTL DEF Spec
=============================================================================
