---------------------------- MODULE WindowLogProofs ----------------------------
(***************************************************************************)
(* What holds of a session's text logs however much is shown and however    *)
(* many logs there are.  The invariant says where each piece of text is:    *)
(* what is in hand comes before what is captured, both come after what the  *)
(* log in progress has, and no piece is in two places.                      *)
(***************************************************************************)
EXTENDS WindowLog, TLAPS, SequenceTheorems

Rising(s) == \A i, j \in 1 .. Len(s) : i < j => s[i] < s[j]

Before(s, t) == \A a \in Range(s), b \in Range(t) : a < b

Apart(s, t) == Range(s) \cap Range(t) = {}

UpTo(s, n) == \A a \in Range(s) : a <= n

\* Only a log that was started has text, and it was started before now.
Begun ==
    /\ \A g \in Logs \ used : file[g] = <<>>
    /\ logger # 0 => logger \in used
    /\ \A g \in Logs : begun[g] <= shown

\* Text is where it is in the order it was shown.
InOrder ==
    /\ \A g \in Logs : Rising(file[g]) /\ UpTo(file[g], shown)
    /\ Rising(hand) /\ UpTo(hand, shown)
    /\ Rising(captured) /\ UpTo(captured, shown)
    /\ Before(hand, captured)
    /\ logger # 0 => Before(file[logger], hand) /\ Before(file[logger], captured)

\* Text is in one place.
InOnePlace ==
    /\ \A g \in Logs : Apart(file[g], hand) /\ Apart(file[g], captured)
    /\ \A g, o \in Logs : g # o => Apart(file[g], file[o])

IInv == TypeOK /\ Begun /\ InOrder /\ InOnePlace /\ CurrentLogWhole

-----------------------------------------------------------------------------
(* Sequences of text. *)

\* What is written after something is in it, and no more.
LEMMA RangeOfBoth ==
    ASSUME NEW s \in Seq(Nat), NEW t \in Seq(Nat)
    PROVE  Range(s \o t) = Range(s) \cup Range(t)
BY RangeConcatenation

LEMMA RangeOfOne ==
    ASSUME NEW n \in Nat
    PROVE  <<n>> \in Seq(Nat) /\ Rising(<<n>>) /\ Range(<<n>>) = {n}
<1>1. <<n>> \in Seq(Nat) /\ Len(<<n>>) = 1 /\ <<n>>[1] = n
  OBVIOUS
<1>2. DOMAIN <<n>> = {1}
  BY <1>1
<1>3. Range(<<n>>) = {n}
  BY <1>1, <1>2, Zenon DEF Range
<1> QED BY <1>1, <1>3 DEF Rising

LEMMA RangeOfAppend ==
    ASSUME NEW s \in Seq(Nat), NEW n \in Nat
    PROVE  Range(Append(s, n)) = Range(s) \cup {n}
<1>1. <<n>> \in Seq(Nat) /\ Range(<<n>>) = {n}
  BY RangeOfOne
<1>2. Append(s, n) = s \o <<n>>
  BY AppendIsConcat, Zenon
<1> QED BY <1>1, <1>2, RangeOfBoth

LEMMA RangeOfEmpty == Range(<<>>) = {}
BY DEF Range

LEMMA EmptyRises == <<>> \in Seq(Nat) /\ Rising(<<>>)
<1>1. <<>> \in Seq(Nat) /\ Len(<<>>) = 0
  OBVIOUS
<1> QED BY <1>1 DEF Rising

\* Where each piece of text is, as a set of numbers.
LEMMA RangeOfText ==
    ASSUME NEW s \in Seq(Nat)
    PROVE  Range(s) \subseteq Nat
BY DEF Range

\* What rises goes on rising when what comes after it is added.
LEMMA RisingBoth ==
    ASSUME NEW s \in Seq(Nat), NEW t \in Seq(Nat), Rising(s), Rising(t), Before(s, t)
    PROVE  Rising(s \o t)
<1>1. /\ Len(s \o t) = Len(s) + Len(t)
      /\ \A i \in 1 .. Len(s) + Len(t) :
            (s \o t)[i] = IF i <= Len(s) THEN s[i] ELSE t[i - Len(s)]
  BY ConcatProperties
<1>2. \A i \in 1 .. Len(s), j \in 1 .. Len(t) : s[i] < t[j]
  BY DEF Before, Range
<1> SUFFICES ASSUME NEW i \in 1 .. Len(s) + Len(t), NEW j \in 1 .. Len(s) + Len(t), i < j
             PROVE  (s \o t)[i] < (s \o t)[j]
  BY <1>1 DEF Rising
<1>3. CASE j <= Len(s)
  BY <1>1, <1>3 DEF Rising
<1>4. CASE i > Len(s)
  <2>1. /\ i - Len(s) \in 1 .. Len(t) /\ j - Len(s) \in 1 .. Len(t)
        /\ i - Len(s) < j - Len(s)
    BY <1>4
  <2>2. t[i - Len(s)] < t[j - Len(s)]
    BY <2>1 DEF Rising
  <2> QED BY <1>1, <1>4, <2>2
<1>5. CASE i <= Len(s) /\ j > Len(s)
  BY <1>1, <1>2, <1>5
<1> QED BY <1>3, <1>4, <1>5

\* What has been shown by now has been shown by any later time.
LEMMA UpToLater ==
    ASSUME NEW s \in Seq(Nat), NEW n \in Nat, NEW m \in Nat, UpTo(s, n), n <= m
    PROVE  UpTo(s, m)
<1>1. \A a \in Range(s) : a \in Nat /\ a <= n
  BY RangeOfText DEF UpTo
<1> QED BY <1>1 DEF UpTo

LEMMA BeforeIsApart ==
    ASSUME NEW s \in Seq(Nat), NEW t \in Seq(Nat), Before(s, t)
    PROVE  Apart(s, t)
<1>1. Range(s) \subseteq Nat
  BY RangeOfText
<1> QED BY <1>1 DEF Before, Apart

LEMMA RisingAppend ==
    ASSUME NEW s \in Seq(Nat), NEW n \in Nat, Rising(s), UpTo(s, n)
    PROVE  Rising(Append(s, n + 1))
<1>1. /\ <<n + 1>> \in Seq(Nat) /\ Rising(<<n + 1>>) /\ Range(<<n + 1>>) = {n + 1}
  BY RangeOfOne
<1>2. Before(s, <<n + 1>>)
  BY <1>1, RangeOfText DEF Before, UpTo
<1>3. n + 1 \in Nat
  OBVIOUS
<1>4. Append(s, n + 1) = s \o <<n + 1>>
  BY <1>3, AppendIsConcat, Zenon
<1> QED BY <1>1, <1>2, <1>4, RisingBoth

LEMMA AppendAfter ==
    ASSUME NEW s \in Seq(Nat), NEW t \in Seq(Nat), NEW n \in Nat
    PROVE  s \o Append(t, n) = Append(s \o t, n)
<1>1. <<n>> \in Seq(Nat) /\ s \o t \in Seq(Nat)
  BY RangeOfOne
<1>2. Append(t, n) = t \o <<n>> /\ Append(s \o t, n) = (s \o t) \o <<n>>
  BY <1>1, AppendIsConcat, Zenon
<1>3. (s \o t) \o <<n>> = s \o (t \o <<n>>)
  BY <1>1, ConcatAssociative
<1> QED BY <1>2, <1>3

\* What is whole stays so when the next piece shown is added.
Whole(text, b, n) ==
    LET old == Len(text) - (n - b)
    IN  /\ old >= 0
        /\ \A i \in 1 .. Len(text) :
              IF i <= old THEN text[i] <= b ELSE text[i] = b + (i - old)

LEMMA WholeAppend ==
    ASSUME NEW text \in Seq(Nat), NEW b \in Nat, NEW n \in Nat, b <= n, Whole(text, b, n)
    PROVE  Whole(Append(text, n + 1), b, n + 1)
<1>1. /\ Len(Append(text, n + 1)) = Len(text) + 1
      /\ \A i \in 1 .. Len(text) : Append(text, n + 1)[i] = text[i]
      /\ Append(text, n + 1)[Len(text) + 1] = n + 1
  BY AppendProperties
<1> QED BY <1>1 DEF Whole

\* What was in hand when a log starts is all that can come to it unasked.
LEMMA WholeAtStart ==
    ASSUME NEW text \in Seq(Nat), NEW n \in Nat, UpTo(text, n)
    PROVE  Whole(text, n, n)
BY DEF Whole, UpTo, Range

-----------------------------------------------------------------------------
(* The actions. *)

\* Parts of the invariant about what is captured, when a piece is shown.
LEMMA CapturedMore ==
    ASSUME IInv, NEW c, c = CapturedWith(shown + 1)
    PROVE  /\ c \in Seq(Nat) /\ Rising(c) /\ UpTo(c, shown + 1)
           /\ Range(c) \subseteq Range(captured) \cup {shown + 1}
           /\ capturing => c = Append(captured, shown + 1)
           /\ ~capturing => c = <<>>
<1>1. /\ shown \in Nat /\ shown + 1 \in Nat /\ captured \in Seq(Nat)
      /\ Rising(captured) /\ UpTo(captured, shown)
  BY DEF IInv, TypeOK, InOrder
<1>2. CASE capturing
  <2>1. c = Append(captured, shown + 1)
    BY <1>2 DEF CapturedWith
  <2>2. c \in Seq(Nat)
    BY <1>1, <2>1, AppendProperties
  <2>5. Range(c) = Range(captured) \cup {shown + 1}
    BY <1>1, <2>1, RangeOfAppend
  <2>3. Rising(c)
    BY <1>1, <2>1, RisingAppend
  <2>4. UpTo(c, shown + 1)
    <3>1. \A a \in Range(captured) : a \in Nat /\ a <= shown
      BY <1>1, RangeOfText DEF UpTo
    <3> QED BY <1>1, <2>5, <3>1 DEF UpTo
  <2> QED BY <1>2, <2>1, <2>2, <2>5, <2>3, <2>4
<1>3. CASE ~capturing
  <2>1. c = <<>>
    BY <1>3 DEF CapturedWith
  <2>2. c \in Seq(Nat) /\ Rising(c)
    BY <2>1, EmptyRises
  <2>3. Range(c) = {}
    BY <2>1, RangeOfEmpty
  <2> QED BY <1>3, <2>1, <2>2, <2>3 DEF UpTo
<1> QED BY <1>2, <1>3

LEMMA ComingType ==
    ASSUME TypeOK, logger # 0
    PROVE  /\ logger \in Logs /\ file[logger] \in Seq(Nat)
           /\ hand \in Seq(Nat) /\ captured \in Seq(Nat)
           /\ file[logger] \o hand \in Seq(Nat) /\ Coming \in Seq(Nat)
           /\ begun[logger] \in Nat /\ shown \in Nat
<1>1. /\ logger \in Logs /\ file[logger] \in Seq(Nat)
      /\ hand \in Seq(Nat) /\ captured \in Seq(Nat)
      /\ begun[logger] \in Nat /\ shown \in Nat
  BY DEF TypeOK
<1> QED BY <1>1, ConcatProperties DEF Coming

\* CurrentLogWhole, by its parts.
LEMMA WholeIs == CurrentLogWhole <=> (logger # 0 => Whole(Coming, begun[logger], shown))
BY DEF CurrentLogWhole, Whole

\* The I/O thread takes what there is, with what has just been shown.
LEMMA AdvanceKeeps ==
    ASSUME IInv, Advance
    PROVE  IInv'
<1>1. /\ hand = <<>> /\ captured' = <<>>
      /\ UNCHANGED <<capturing, logger, file, used, begun, ended, broken>>
  BY DEF Advance, LeftCaptured
<1>2. /\ shown \in Nat /\ captured \in Seq(Nat) /\ <<>> \in Seq(Nat)
      /\ \A g \in Logs : file[g] \in Seq(Nat) /\ begun[g] \in Nat
      /\ logger # 0 => logger \in Logs /\ capturing
  BY DEF IInv, TypeOK
<1>3. \/ shown' = shown + 1 /\ hand' = CapturedWith(shown + 1)
      \/ shown' = shown /\ hand' = captured
  BY DEF Advance
<1>4. /\ shown' \in Nat /\ shown' >= shown
      /\ hand' \in Seq(Nat) /\ Rising(hand') /\ UpTo(hand', shown')
      /\ Range(hand') \subseteq Range(captured) \cup ({shown'} \ {shown})
  <2>1. CASE shown' = shown + 1 /\ hand' = CapturedWith(shown + 1)
    BY <1>2, <2>1, CapturedMore
  <2>2. CASE shown' = shown /\ hand' = captured
    BY <1>2, <2>2 DEF IInv, InOrder
  <2> QED BY <1>3, <2>1, <2>2
<1>5. TypeOK'
  BY <1>1, <1>2, <1>4 DEF IInv, TypeOK
<1>6. Begun'
  BY <1>1, <1>2, <1>4 DEF IInv, Begun
<1>7. InOrder'
  <2>1. ASSUME NEW g \in Logs PROVE Rising(file[g]) /\ UpTo(file[g], shown')
    <3>1. Rising(file[g]) /\ UpTo(file[g], shown)
      BY DEF IInv, InOrder
    <3> QED BY <1>2, <1>4, <3>1, UpToLater
  <2>2. Before(hand', captured')
    BY <1>1, RangeOfEmpty DEF Before
  <2>3. ASSUME logger # 0 PROVE Before(file[logger], hand') /\ Before(file[logger], captured')
    <3>1. Before(file[logger], captured) /\ UpTo(file[logger], shown)
      BY <1>2, <2>3 DEF IInv, InOrder
    <3>2. Range(file[logger]) \subseteq Nat
      BY <1>2, <2>3, RangeOfText
    <3>3. \A a \in Range(file[logger]) : a < shown' \/ shown' = shown
      BY <1>2, <1>4, <3>1, <3>2 DEF UpTo
    <3> QED BY <1>1, <1>4, <3>1, <3>3, RangeOfEmpty DEF Before
  <2>4. Rising(captured') /\ UpTo(captured', shown')
    BY <1>1, RangeOfEmpty DEF Rising, UpTo
  <2> QED BY <1>1, <1>4, <2>1, <2>2, <2>3, <2>4 DEF InOrder
<1>8. InOnePlace'
  <2>1. ASSUME NEW g \in Logs PROVE Apart(file[g], hand') /\ Apart(file[g], captured')
    <3>1. Apart(file[g], captured) /\ UpTo(file[g], shown) /\ Range(file[g]) \subseteq Nat
      BY <1>2, RangeOfText DEF IInv, InOnePlace, InOrder
    <3>2. \A a \in Range(file[g]) : a # shown' \/ shown' = shown
      BY <1>2, <1>4, <3>1 DEF UpTo
    <3> QED BY <1>1, <1>4, <3>1, <3>2, RangeOfEmpty DEF Apart
  <2> QED BY <1>1, <2>1 DEF IInv, InOnePlace
<1>9. CurrentLogWhole'
  <2> SUFFICES ASSUME logger # 0 PROVE Whole(Coming', begun[logger], shown')
    BY <1>1, WholeIs DEF CurrentLogWhole, Whole
  <2>1. /\ Whole(Coming, begun[logger], shown) /\ begun[logger] <= shown
        /\ logger \in Logs /\ file[logger] \in Seq(Nat) /\ capturing /\ Coming \in Seq(Nat)
    BY <1>2, WholeIs, ComingType DEF IInv, Begun
  <2>2. Coming = file[logger] \o captured
    BY <1>1, <2>1, ConcatEmptySeq DEF Coming
  <2>3. Coming' = file[logger] \o hand'
    <3>1. file[logger] \o hand' \in Seq(Nat)
      BY <1>4, <2>1
    <3> QED BY <1>1, <3>1, ConcatEmptySeq DEF Coming
  <2>4. CASE shown' = shown + 1 /\ hand' = CapturedWith(shown + 1)
    <3>1. hand' = Append(captured, shown + 1)
      BY <2>1, <2>4 DEF CapturedWith
    <3>2. Coming' = Append(Coming, shown + 1)
      <4>1. shown + 1 \in Nat
        BY <1>2
      <4>2. file[logger] \o Append(captured, shown + 1)
               = Append(file[logger] \o captured, shown + 1)
        BY <1>2, <2>1, <4>1, AppendAfter
      <4> QED BY <2>2, <2>3, <3>1, <4>2
    <3> QED BY <1>2, <2>1, <2>4, <3>2, WholeAppend
  <2>5. CASE shown' = shown /\ hand' = captured
    BY <2>1, <2>2, <2>3, <2>5
  <2> QED BY <1>3, <2>4, <2>5
<1> QED BY <1>5, <1>6, <1>7, <1>8, <1>9 DEF IInv

\* What is typed in Local is captured, after anything in hand.
LEMMA TypeLocallyKeeps ==
    ASSUME IInv, TypeLocally
    PROVE  IInv'
<1>1. /\ shown' = shown + 1 /\ captured' = CapturedWith(shown + 1)
      /\ UNCHANGED <<capturing, hand, logger, file, used, begun, ended, broken>>
  BY DEF TypeLocally
<1>2. /\ shown \in Nat /\ captured \in Seq(Nat) /\ hand \in Seq(Nat)
      /\ \A g \in Logs : file[g] \in Seq(Nat) /\ begun[g] \in Nat
      /\ logger # 0 => logger \in Logs /\ capturing
  BY DEF IInv, TypeOK
<1>3. /\ shown' \in Nat /\ shown' >= shown
      /\ captured' \in Seq(Nat) /\ Rising(captured') /\ UpTo(captured', shown')
      /\ Range(captured') \subseteq Range(captured) \cup {shown + 1}
      /\ captured' # <<>> => capturing
  BY <1>1, <1>2, CapturedMore
<1>4. ASSUME NEW s \in Seq(Nat), UpTo(s, shown)
      PROVE  /\ UpTo(s, shown')
             /\ Before(s, captured) => Before(s, captured')
             /\ Apart(s, captured) => Apart(s, captured')
  <2>1. \A a \in Range(s) : a \in Nat /\ a <= shown
    BY <1>4, RangeOfText DEF UpTo
  <2>2. \A a \in Range(s) : a < shown + 1
    BY <1>2, <2>1
  <2>3. UpTo(s, shown')
    BY <1>2, <1>3, <1>4, UpToLater
  <2>4. Before(s, captured) => Before(s, captured')
    BY <1>3, <2>2 DEF Before
  <2>5. ~(shown + 1 \in Range(s))
    BY <1>2, <2>2
  <2>6. Apart(s, captured) => Apart(s, captured')
    BY <1>3, <2>5 DEF Apart
  <2> QED BY <2>3, <2>4, <2>6
<1>5. TypeOK'
  BY <1>1, <1>3 DEF IInv, TypeOK
<1>6. Begun'
  BY <1>1, <1>2 DEF IInv, Begun
<1>7. InOrder'
  BY <1>1, <1>2, <1>3, <1>4 DEF IInv, InOrder
<1>8. InOnePlace'
  BY <1>1, <1>2, <1>4 DEF IInv, InOnePlace, InOrder
<1>9. CurrentLogWhole'
  <2> SUFFICES ASSUME logger # 0 PROVE Whole(Coming', begun[logger], shown')
    BY <1>1, WholeIs DEF CurrentLogWhole, Whole
  <2>1. /\ Whole(Coming, begun[logger], shown) /\ begun[logger] <= shown
        /\ file[logger] \o hand \in Seq(Nat) /\ capturing /\ Coming \in Seq(Nat)
        /\ begun[logger] \in Nat
    BY <1>2, WholeIs, ComingType DEF IInv, Begun
  <2>2. captured' = Append(captured, shown + 1)
    BY <1>1, <2>1 DEF CapturedWith
  <2>3. (file[logger] \o hand) \o Append(captured, shown + 1)
           = Append((file[logger] \o hand) \o captured, shown + 1)
    <3>1. shown + 1 \in Nat
      BY <1>2
    <3> QED BY <1>2, <2>1, <3>1, AppendAfter
  <2>4. Coming' = Append(Coming, shown + 1)
    BY <1>1, <2>2, <2>3 DEF Coming
  <2> QED BY <1>1, <1>2, <2>1, <2>4, WholeAppend
<1> QED BY <1>5, <1>6, <1>7, <1>8, <1>9 DEF IInv

\* What is in hand goes to the log in progress, which it comes after all of.
LEMMA LogTextKeeps ==
    ASSUME IInv, LogText
    PROVE  IInv'
<1>1. /\ hand' = <<>>
      /\ file' = IF logger = 0 THEN file ELSE [file EXCEPT ![logger] = @ \o hand]
      /\ UNCHANGED <<shown, capturing, captured, logger, used, begun, ended, broken>>
  BY DEF LogText
<1>2. /\ shown \in Nat /\ captured \in Seq(Nat) /\ hand \in Seq(Nat)
      /\ file \in [Logs -> Seq(Nat)]
      /\ \A g \in Logs : file[g] \in Seq(Nat) /\ begun[g] \in Nat
      /\ logger # 0 => logger \in Logs /\ capturing
  BY DEF IInv, TypeOK
<1>3. /\ <<>> \in Seq(Nat) /\ Rising(<<>>) /\ UpTo(<<>>, shown) /\ Before(<<>>, captured)
      /\ \A g \in Logs : Apart(file'[g], <<>>) /\ Before(file'[g], <<>>)
  BY EmptyRises, RangeOfEmpty DEF UpTo, Before, Apart
<1>4. CASE logger = 0
  <2>1. file' = file
    BY <1>1, <1>4
  <2>2. TypeOK' /\ Begun' /\ InOrder' /\ InOnePlace'
    BY <1>1, <1>3, <1>4, <2>1 DEF IInv, TypeOK, Begun, InOrder, InOnePlace
  <2> QED BY <1>1, <1>4, <2>2 DEF IInv, CurrentLogWhole
<1>5. CASE logger # 0
  <2> DEFINE written == file[logger] \o hand
  <2>1. /\ logger \in Logs /\ capturing /\ written \in Seq(Nat)
        /\ Range(written) = Range(file[logger]) \cup Range(hand)
    BY <1>2, <1>5, RangeOfBoth
  <2>2. /\ file' = [file EXCEPT ![logger] = written] /\ file'[logger] = written
        /\ \A g \in Logs \ {logger} : file'[g] = file[g]
    BY <1>1, <1>2, <1>5, <2>1
  <2>3. Rising(written)
    BY <1>2, <1>5, <2>1, RisingBoth DEF IInv, InOrder
  <2>4. UpTo(written, shown) /\ Before(written, captured)
    BY <1>5, <2>1 DEF IInv, InOrder, UpTo, Before
  <2>5. TypeOK'
    BY <1>1, <1>3, <2>1, <2>2 DEF IInv, TypeOK
  <2>6. Begun'
    BY <1>1, <1>5, <2>2 DEF IInv, Begun
  <2>7. InOrder'
    BY <1>1, <1>3, <1>5, <2>1, <2>2, <2>3, <2>4 DEF IInv, InOrder
  <2>8. InOnePlace'
    <3>1. Apart(written, captured)
      BY <1>2, <2>1, <2>4, BeforeIsApart DEF IInv
    <3>2. \A g \in Logs \ {logger} : Apart(file[g], written) /\ Apart(written, file[g])
      BY <2>1 DEF IInv, InOnePlace, Apart
    <3> QED BY <1>1, <1>3, <2>1, <2>2, <3>1, <3>2 DEF IInv, InOnePlace
  <2>9. CurrentLogWhole'
    <3>1. written \o <<>> = written
      BY <2>1, ConcatEmptySeq
    <3>2. Coming' = Coming
      BY <1>1, <2>2, <3>1 DEF Coming
    <3> QED BY <1>1, <3>2 DEF IInv, CurrentLogWhole
  <2> QED BY <2>5, <2>6, <2>7, <2>8, <2>9 DEF IInv
<1> QED BY <1>4, <1>5

\* A log that cannot be written to is dropped.
LEMMA LogFailsKeeps ==
    ASSUME IInv, LogFails
    PROVE  IInv'
<1>1. /\ hand' = <<>> /\ logger' = 0 /\ logger # 0 /\ broken' = broken \cup {logger}
      /\ UNCHANGED <<shown, capturing, captured, file, used, begun, ended>>
  BY DEF LogFails
<1>2. <<>> \in Seq(Nat) /\ Rising(<<>>) /\ UpTo(<<>>, shown) /\ Before(<<>>, captured)
  BY EmptyRises, RangeOfEmpty DEF UpTo, Before
<1>3. \A g \in Logs : Apart(file[g], <<>>)
  BY RangeOfEmpty DEF Apart
<1>4. TypeOK'
  BY <1>1, <1>2 DEF IInv, TypeOK, Begun
<1>5. Begun' /\ InOrder' /\ InOnePlace'
  BY <1>1, <1>2, <1>3 DEF IInv, Begun, InOrder, InOnePlace
<1> QED BY <1>1, <1>4, <1>5 DEF IInv, CurrentLogWhole

\* A log starts with nothing; what is in hand will come to it.
LEMMA StartLogKeeps ==
    ASSUME IInv, NEW new \in Logs, StartLog(new)
    PROVE  IInv'
<1>1. /\ new \notin used /\ used' = used \cup {new} /\ logger' = new /\ capturing' = TRUE
      /\ captured' = <<>> /\ begun' = [begun EXCEPT ![new] = shown]
      /\ UNCHANGED <<shown, hand, file, ended, broken>>
  BY DEF StartLog
<1>2. /\ shown \in Nat /\ hand \in Seq(Nat) /\ begun \in [Logs -> Nat] /\ new # 0
      /\ file[new] = <<>> /\ UpTo(hand, shown)
  <2>1. new # 0
    BY BoundsAssumption DEF Logs
  <2>2. file[new] = <<>>
    BY <1>1 DEF IInv, Begun
  <2> QED BY <2>1, <2>2 DEF IInv, TypeOK, InOrder
<1>3. /\ <<>> \in Seq(Nat) /\ Rising(<<>>) /\ UpTo(<<>>, shown)
      /\ Before(hand, <<>>) /\ Before(<<>>, hand) /\ Before(<<>>, <<>>)
      /\ \A g \in Logs : Apart(file[g], <<>>)
  BY EmptyRises, RangeOfEmpty DEF UpTo, Before, Apart
<1>4. TypeOK'
  BY <1>1, <1>2, <1>3 DEF IInv, TypeOK
<1>5. Begun'
  <2>1. \A g \in Logs : begun'[g] = shown \/ begun'[g] = begun[g]
    BY <1>1, <1>2
  <2>2. \A g \in Logs : begun'[g] <= shown
    BY <1>2, <2>1 DEF IInv, Begun
  <2> QED BY <1>1, <2>2 DEF IInv, Begun
<1>6. InOrder'
  BY <1>1, <1>2, <1>3 DEF IInv, InOrder
<1>7. InOnePlace'
  BY <1>1, <1>3 DEF IInv, InOnePlace
<1>8. CurrentLogWhole'
  <2>1. <<>> \o hand = hand /\ hand \o <<>> = hand
    BY <1>2, ConcatEmptySeq
  <2>2. Coming' = hand /\ begun'[new] = shown
    BY <1>1, <1>2, <2>1 DEF Coming
  <2>3. Whole(hand, shown, shown)
    BY <1>2, WholeAtStart
  <2> QED BY <1>1, <2>2, <2>3 DEF CurrentLogWhole, Whole
<1> QED BY <1>4, <1>5, <1>6, <1>7, <1>8 DEF IInv

\* A log that is stopped has what was captured written to it.
LEMMA StopLogKeeps ==
    ASSUME IInv, StopLog
    PROVE  IInv'
<1>1. /\ logger' = 0 /\ capturing' = FALSE /\ captured' = <<>>
      /\ IF logger = 0 THEN UNCHANGED <<file, ended>>
         ELSE /\ file' = [file EXCEPT ![logger] = @ \o captured]
              /\ ended' = [ended EXCEPT ![logger] = shown]
      /\ UNCHANGED <<shown, hand, used, begun, broken>>
  BY DEF StopLog
<1>2. /\ shown \in Nat /\ captured \in Seq(Nat) /\ hand \in Seq(Nat)
      /\ file \in [Logs -> Seq(Nat)] /\ \A g \in Logs : file[g] \in Seq(Nat)
      /\ logger # 0 => logger \in Logs
  BY DEF IInv, TypeOK
<1>3. /\ <<>> \in Seq(Nat) /\ Rising(<<>>) /\ UpTo(<<>>, shown) /\ Before(hand, <<>>)
      /\ \A g \in Logs : Apart(file'[g], <<>>)
  BY EmptyRises, RangeOfEmpty DEF UpTo, Before, Apart
<1>4. CASE logger = 0
  <2>1. TypeOK' /\ Begun' /\ InOrder' /\ InOnePlace'
    BY <1>1, <1>3, <1>4 DEF IInv, TypeOK, Begun, InOrder, InOnePlace
  <2> QED BY <1>1, <2>1 DEF IInv, CurrentLogWhole
<1>5. CASE logger # 0
  <2> DEFINE written == file[logger] \o captured
  <2>1. /\ logger \in Logs /\ written \in Seq(Nat)
        /\ Range(written) = Range(file[logger]) \cup Range(captured)
    BY <1>2, <1>5, RangeOfBoth
  <2>2. /\ file' = [file EXCEPT ![logger] = written] /\ file'[logger] = written
        /\ \A g \in Logs \ {logger} : file'[g] = file[g]
    BY <1>1, <1>2, <1>5, <2>1
  <2>3. Rising(written)
    BY <1>2, <1>5, <2>1, RisingBoth DEF IInv, InOrder
  <2>4. UpTo(written, shown)
    BY <2>1 DEF IInv, InOrder, UpTo
  <2>5. TypeOK'
    BY <1>1, <1>2, <1>3, <1>5, <2>1, <2>2 DEF IInv, TypeOK
  <2>6. Begun'
    BY <1>1, <1>5, <2>2 DEF IInv, Begun
  <2>7. InOrder'
    BY <1>1, <1>3, <2>2, <2>3, <2>4 DEF IInv, InOrder
  <2>8. InOnePlace'
    <3>1. Apart(written, hand)
      <4>1. Range(hand) \cap Range(captured) = {}
        BY <1>2, BeforeIsApart DEF IInv, InOrder, Apart
      <4> QED BY <2>1, <4>1 DEF IInv, InOnePlace, Apart
    <3>2. \A g \in Logs \ {logger} : Apart(file[g], written) /\ Apart(written, file[g])
      BY <2>1 DEF IInv, InOnePlace, Apart
    <3> QED BY <1>1, <1>3, <2>1, <2>2, <3>1, <3>2 DEF IInv, InOnePlace
  <2> QED BY <1>1, <2>5, <2>6, <2>7, <2>8 DEF IInv, CurrentLogWhole
<1> QED BY <1>4, <1>5

-----------------------------------------------------------------------------
(* The theorems. *)

LEMMA InitHolds == Init => IInv
<1> SUFFICES ASSUME Init PROVE IInv
  OBVIOUS
<1>1. /\ shown = 0 /\ capturing = FALSE /\ captured = <<>> /\ hand = <<>> /\ logger = 0
      /\ file = [g \in Logs |-> <<>>] /\ begun = [g \in Logs |-> 0]
      /\ ended = [g \in Logs |-> 0] /\ used = {} /\ broken = {}
  BY DEF Init
<1>2. /\ <<>> \in Seq(Nat) /\ Rising(<<>>) /\ UpTo(<<>>, 0)
      /\ Before(<<>>, <<>>) /\ Apart(<<>>, <<>>)
  BY EmptyRises, RangeOfEmpty DEF UpTo, Before, Apart
<1>3. TypeOK
  BY <1>1, <1>2 DEF TypeOK
<1>4. Begun /\ InOrder /\ InOnePlace
  BY <1>1, <1>2 DEF Begun, InOrder, InOnePlace
<1> QED BY <1>1, <1>3, <1>4 DEF IInv, CurrentLogWhole

LEMMA NextKeeps == IInv /\ [Next]_vars => IInv'
<1> SUFFICES ASSUME IInv, [Next]_vars PROVE IInv'
  OBVIOUS
<1>1. CASE Advance
  BY <1>1, AdvanceKeeps
<1>2. CASE TypeLocally
  BY <1>2, TypeLocallyKeeps
<1>3. CASE LogText
  BY <1>3, LogTextKeeps
<1>4. CASE LogFails
  BY <1>4, LogFailsKeeps
<1>5. CASE \E g \in Logs : StartLog(g)
  BY <1>5, StartLogKeeps
<1>6. CASE StopLog
  BY <1>6, StopLogKeeps
<1>7. CASE UNCHANGED vars
  BY <1>7 DEF vars, IInv, TypeOK, Begun, InOrder, InOnePlace, CurrentLogWhole, Coming
<1> QED BY <1>1, <1>2, <1>3, <1>4, <1>5, <1>6, <1>7 DEF Next

THEOREM Invariance == Spec => []IInv
BY InitHolds, NextKeeps, PTL DEF Spec

\* A log in progress always has the terminal capturing for it, and what is
\* captured with no log to want it is not kept.
THEOREM CapturesForALog == Spec => []TypeOK
BY Invariance, PTL DEF IInv

\* Whatever is started, replaced, stopped or broken between the showing of
\* text and its writing, the log in progress has all that was shown since it
\* began or has it coming, once and in order.
THEOREM NothingShownIsMissed == Spec => []CurrentLogWhole
BY Invariance, PTL DEF IInv

\* No text is in two logs, and each has its own in order.
THEOREM LogsShareNothing == Spec => []LogsDisjoint
<1>1. IInv => LogsDisjoint
  BY DEF IInv, InOrder, InOnePlace, Rising, Apart, LogsDisjoint
<1> QED BY Invariance, <1>1, PTL

\* Both at once, as the run checks them: nothing shown while a log is in
\* progress is missing from it or belongs to another.
THEOREM LogsAreWhole == Spec => []LogsWhole
BY NothingShownIsMissed, LogsShareNothing, PTL DEF LogsWhole
=============================================================================
