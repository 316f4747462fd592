-------------------------- MODULE KermitTransferProofs --------------------------
(***************************************************************************)
(* What TLAPS proves of a Kermit transfer.  The conversions of lines do the *)
(* same to any text, however it is cut into packets; and whatever is lost,  *)
(* damaged, late, cancelled or failing, the two ends are never more than    *)
(* one packet apart, which settles what is left in the folder and what the  *)
(* two users are told.                                                      *)
(***************************************************************************)
EXTENDS KermitTransfer, Inductions, FiniteSetTheorems

-----------------------------------------------------------------------------
(* The conversions of lines.                                                *)

Bytes == {"x", "cr", "lf"}
Texts == Seq(Bytes)

\* Texts of no bytes, and of some and one more.
LEMMA TextTypes ==
    /\ <<>> \in Texts /\ Len(<<>>) = 0
    /\ \A s \in Texts, b \in Bytes :
          /\ Append(s, b) \in Texts /\ Len(Append(s, b)) = Len(s) + 1
          /\ Append(s, b)[Len(s) + 1] = b
          /\ \A i \in 1 .. Len(s) : Append(s, b)[i] = s[i] /\ s[i] \in Bytes
BY DEF Texts

LEMMA Regrouped == \A s, t, u \in Texts : (s \o t) \o u = s \o (t \o u)
BY ConcatAssociative DEF Texts

LEMMA Joins ==
    /\ \A s \in Texts : s \o <<>> = s /\ <<>> \o s = s /\ Len(s) \in Nat
    /\ \A s, t \in Texts : s \o t \in Texts /\ Len(s \o t) = Len(s) + Len(t)
    /\ \A s, t, u \in Texts : (s \o t) \o u = s \o (t \o u)
    /\ \A s, t \in Texts, b \in Bytes : s \o Append(t, b) = Append(s \o t, b)
<1>1. \A s \in Texts : s \o <<>> = s /\ <<>> \o s = s /\ Len(s) \in Nat
  BY ConcatEmptySeq, LenProperties DEF Texts
<1>2. \A s, t \in Texts : s \o t \in Texts /\ Len(s \o t) = Len(s) + Len(t)
  BY ConcatProperties DEF Texts
<1>3. \A s, t, u \in Texts : (s \o t) \o u = s \o (t \o u)
  BY Regrouped
<1>4. \A s, t \in Texts, b \in Bytes : s \o Append(t, b) = Append(s \o t, b)
  <2> SUFFICES ASSUME NEW s \in Texts, NEW t \in Texts, NEW b \in Bytes
               PROVE  s \o Append(t, b) = Append(s \o t, b)
    OBVIOUS
  <2> QED
    BY DEF Texts
<1> QED
  BY <1>1, <1>2, <1>3, <1>4

LEMMA Pieces ==
    /\ <<>> \in Texts /\ <<"cr">> \in Texts /\ <<"cr", "lf">> \in Texts
    /\ \A b \in Bytes : <<b>> \in Texts /\ Len(<<b>>) = 1
    /\ Len(<<"cr", "lf">>) = 2
BY DEF Texts, Bytes

\* Converting for the line: what comes of no bytes, and of one more.
LEMMA ToLineSteps ==
    ASSUME NEW cr \in BOOLEAN
    PROVE  /\ ToLine(cr, <<>>) = [out |-> <<>>, afterCr |-> cr]
           /\ \A s \in Texts, b \in Bytes :
                 ToLine(cr, Append(s, b)) = ToLineByte(ToLine(cr, s), b)
           /\ \A s \in Texts : ToLine(cr, s) \in [out : Texts, afterCr : BOOLEAN]
<1> DEFINE X == [out : Texts, afterCr : BOOLEAN]
           base == [out |-> <<>>, afterCr |-> cr]
           Is(f, s) == f = [n \in 0 .. Len(s) |->
                              IF n = 0 THEN base ELSE ToLineByte(f[n - 1], s[n])]
<1>1. base \in X
  BY TextTypes
<1>2. \A x \in X, b \in Bytes : ToLineByte(x, b) \in X
  <2> SUFFICES ASSUME NEW x \in X, NEW b \in Bytes PROVE ToLineByte(x, b) \in X
    OBVIOUS
  <2>1. <<b>> \in Texts /\ <<"cr", "lf">> \in Texts /\ x.out \in Texts
    BY DEF Texts, Bytes
  <2>2. \A t \in Texts : x.out \o t \in Texts
    BY <2>1 DEF Texts
  <2> QED
    BY <2>1, <2>2 DEF ToLineByte
<1>3. ASSUME NEW s \in Texts
      PROVE  \E f : Is(f, s) /\ f \in [0 .. Len(s) -> X]
  <2> DEFINE Step == [n \in 1 .. Len(s) |-> [x \in X |-> ToLineByte(x, s[n])]]
  <2>0. Len(s) \in Nat
    BY DEF Texts
  <2>1. Len(s) \in Nat /\ \A n \in 1 .. Len(s) : s[n] \in Bytes
    BY DEF Texts
  <2>2. Step \in [1 .. Len(s) -> [X -> X]]
    BY <1>2, <2>1
  <2> HIDE DEF X, base
  <2>3. PICK f \in [0 .. Len(s) -> X] :
                f[0] = base /\ \A n \in 1 .. Len(s) : f[n] = Step[n][f[n - 1]]
    <3> HIDE DEF Step
    <3> QED
      BY <1>1, <2>0, <2>2, Runs
  <2>4. ASSUME NEW n \in 1 .. Len(s) PROVE f[n] = ToLineByte(f[n - 1], s[n])
    <3>1. n - 1 \in 0 .. Len(s) /\ f[n - 1] \in X
      BY <2>1, <2>3
    <3> QED
      BY <2>3, <3>1
  <2>5. Is(f, s)
    <3>1. f = [n \in 0 .. Len(s) |-> f[n]]
      BY <2>3
    <3>2. \A n \in 0 .. Len(s) : n = 0 \/ n \in 1 .. Len(s)
      BY <2>1
    <3>3. \A n \in 0 .. Len(s) : f[n] = IF n = 0 THEN base ELSE ToLineByte(f[n - 1], s[n])
      BY <2>3, <2>4, <3>2
    <3> QED
      BY <3>1, <3>3
  <2> QED
    BY <2>3, <2>5
<1> DEFINE The(s) == CHOOSE f : Is(f, s)
<1>4. ASSUME NEW s \in Texts
      PROVE  ToLine(cr, s) = The(s)[Len(s)] /\ Is(The(s), s)
  <2>1. Is(The(s), s)
    <3> HIDE DEF Is
    <3> QED
      BY <1>3
  <2> QED
    BY <2>1, Zenon DEF ToLine
<1>5. ASSUME NEW s \in Texts, NEW f, Is(f, s)
      PROVE  f[0] = base /\ \A n \in 1 .. Len(s) : f[n] = ToLineByte(f[n - 1], s[n])
  BY <1>5 DEF Texts
<1> HIDE DEF Is, The
<1>6. ToLine(cr, <<>>) = base
  BY <1>4, <1>5, TextTypes
<1>7. ASSUME NEW s \in Texts, NEW b \in Bytes
      PROVE  ToLine(cr, Append(s, b)) = ToLineByte(ToLine(cr, s), b)
  <2> DEFINE t == Append(s, b)
             f == The(s)
             g == The(t)
  <2>1. t \in Texts /\ Len(t) = Len(s) + 1 /\ Len(s) \in Nat /\ t[Len(s) + 1] = b
        /\ \A n \in 1 .. Len(s) : t[n] = s[n]
    BY TextTypes DEF Texts
  <2>2. /\ f[0] = base /\ \A n \in 1 .. Len(s) : f[n] = ToLineByte(f[n - 1], s[n])
        /\ g[0] = base /\ \A n \in 1 .. Len(t) : g[n] = ToLineByte(g[n - 1], t[n])
    BY <1>4, <1>5, <2>1
  <2> HIDE DEF f, g, t
  <2> DEFINE T == {n \in Nat : n <= Len(s) => f[n] = g[n]}
  <2>3. 0 \in T
    BY <2>2
  <2>4. ASSUME NEW n \in Nat, n \in T PROVE n + 1 \in T
    <3> SUFFICES ASSUME n + 1 <= Len(s) PROVE f[n + 1] = g[n + 1]
      OBVIOUS
    <3>1. n + 1 \in 1 .. Len(s) /\ n + 1 \in 1 .. Len(t) /\ (n + 1) - 1 = n /\ f[n] = g[n]
      BY <2>1, <2>4
    <3> QED
      BY <2>1, <2>2, <3>1
  <2> HIDE DEF T
  <2>5. Nat \subseteq T
    BY <2>3, <2>4, NumbersUpTo
  <2>6. f[Len(s)] = g[Len(s)]
    BY <2>1, <2>5 DEF T
  <2>7. g[Len(t)] = ToLineByte(g[Len(s)], b)
    <3>1. Len(t) \in 1 .. Len(t) /\ Len(t) - 1 = Len(s)
      BY <2>1
    <3> QED
      BY <2>1, <2>2, <3>1
  <2> QED
    BY <1>4, <2>1, <2>6, <2>7 DEF f, g, t
<1> DEFINE T == {s \in Texts : ToLine(cr, s) \in X}
<1>8. <<>> \in T /\ \A s \in Texts, b \in Bytes : s \in T => Append(s, b) \in T
  <2> HIDE DEF X, base
  <2> QED
    BY <1>1, <1>2, <1>6, <1>7, TextTypes
<1>9. Texts \subseteq T
  <2> HIDE DEF T
  <2> QED
    BY <1>8, SequencesUpTo DEF Texts
<1> QED
  BY <1>6, <1>7, <1>9

\* Converting from the line: what comes of no bytes, and of one more.
LEMMA FromLineSteps ==
    ASSUME NEW held \in BOOLEAN
    PROVE  /\ FromLine(held, <<>>) = [out |-> <<>>, held |-> held]
           /\ \A s \in Texts, b \in Bytes :
                 FromLine(held, Append(s, b)) = FromLineByte(FromLine(held, s), b)
           /\ \A s \in Texts : FromLine(held, s) \in [out : Texts, held : BOOLEAN]
<1> DEFINE X == [out : Texts, held : BOOLEAN]
           base == [out |-> <<>>, held |-> held]
           Is(f, s) == f = [n \in 0 .. Len(s) |->
                              IF n = 0 THEN base ELSE FromLineByte(f[n - 1], s[n])]
<1>1. base \in X
  BY TextTypes
<1>2. \A x \in X, b \in Bytes : FromLineByte(x, b) \in X
  <2> SUFFICES ASSUME NEW x \in X, NEW b \in Bytes PROVE FromLineByte(x, b) \in X
    OBVIOUS
  <2>1. <<>> \in Texts /\ <<b>> \in Texts /\ <<"cr">> \in Texts /\ x.out \in Texts
    BY DEF Texts, Bytes
  <2>2. \A t, u \in Texts : (x.out \o t) \o u \in Texts
    BY <2>1 DEF Texts
  <2> QED
    BY <2>1, <2>2 DEF FromLineByte
<1>3. ASSUME NEW s \in Texts
      PROVE  \E f : Is(f, s) /\ f \in [0 .. Len(s) -> X]
  <2> DEFINE Step == [n \in 1 .. Len(s) |-> [x \in X |-> FromLineByte(x, s[n])]]
  <2>0. Len(s) \in Nat
    BY DEF Texts
  <2>1. Len(s) \in Nat /\ \A n \in 1 .. Len(s) : s[n] \in Bytes
    BY DEF Texts
  <2>2. Step \in [1 .. Len(s) -> [X -> X]]
    BY <1>2, <2>1
  <2> HIDE DEF X, base
  <2>3. PICK f \in [0 .. Len(s) -> X] :
                f[0] = base /\ \A n \in 1 .. Len(s) : f[n] = Step[n][f[n - 1]]
    <3> HIDE DEF Step
    <3> QED
      BY <1>1, <2>0, <2>2, Runs
  <2>4. ASSUME NEW n \in 1 .. Len(s) PROVE f[n] = FromLineByte(f[n - 1], s[n])
    <3>1. n - 1 \in 0 .. Len(s) /\ f[n - 1] \in X
      BY <2>1, <2>3
    <3> QED
      BY <2>3, <3>1
  <2>5. Is(f, s)
    <3>1. f = [n \in 0 .. Len(s) |-> f[n]]
      BY <2>3
    <3>2. \A n \in 0 .. Len(s) : n = 0 \/ n \in 1 .. Len(s)
      BY <2>1
    <3>3. \A n \in 0 .. Len(s) : f[n] = IF n = 0 THEN base ELSE FromLineByte(f[n - 1], s[n])
      BY <2>3, <2>4, <3>2
    <3> QED
      BY <3>1, <3>3
  <2> QED
    BY <2>3, <2>5
<1> DEFINE The(s) == CHOOSE f : Is(f, s)
<1>4. ASSUME NEW s \in Texts
      PROVE  FromLine(held, s) = The(s)[Len(s)] /\ Is(The(s), s)
  <2>1. Is(The(s), s)
    <3> HIDE DEF Is
    <3> QED
      BY <1>3
  <2> QED
    BY <2>1, Zenon DEF FromLine
<1>5. ASSUME NEW s \in Texts, NEW f, Is(f, s)
      PROVE  f[0] = base /\ \A n \in 1 .. Len(s) : f[n] = FromLineByte(f[n - 1], s[n])
  BY <1>5 DEF Texts
<1> HIDE DEF Is, The
<1>6. FromLine(held, <<>>) = base
  BY <1>4, <1>5, TextTypes
<1>7. ASSUME NEW s \in Texts, NEW b \in Bytes
      PROVE  FromLine(held, Append(s, b)) = FromLineByte(FromLine(held, s), b)
  <2> DEFINE t == Append(s, b)
             f == The(s)
             g == The(t)
  <2>1. t \in Texts /\ Len(t) = Len(s) + 1 /\ Len(s) \in Nat /\ t[Len(s) + 1] = b
        /\ \A n \in 1 .. Len(s) : t[n] = s[n]
    BY TextTypes DEF Texts
  <2>2. /\ f[0] = base /\ \A n \in 1 .. Len(s) : f[n] = FromLineByte(f[n - 1], s[n])
        /\ g[0] = base /\ \A n \in 1 .. Len(t) : g[n] = FromLineByte(g[n - 1], t[n])
    BY <1>4, <1>5, <2>1
  <2> HIDE DEF f, g, t
  <2> DEFINE T == {n \in Nat : n <= Len(s) => f[n] = g[n]}
  <2>3. 0 \in T
    BY <2>2
  <2>4. ASSUME NEW n \in Nat, n \in T PROVE n + 1 \in T
    <3> SUFFICES ASSUME n + 1 <= Len(s) PROVE f[n + 1] = g[n + 1]
      OBVIOUS
    <3>1. n + 1 \in 1 .. Len(s) /\ n + 1 \in 1 .. Len(t) /\ (n + 1) - 1 = n /\ f[n] = g[n]
      BY <2>1, <2>4
    <3> QED
      BY <2>1, <2>2, <3>1
  <2> HIDE DEF T
  <2>5. Nat \subseteq T
    BY <2>3, <2>4, NumbersUpTo
  <2>6. f[Len(s)] = g[Len(s)]
    BY <2>1, <2>5 DEF T
  <2>7. g[Len(t)] = FromLineByte(g[Len(s)], b)
    <3>1. Len(t) \in 1 .. Len(t) /\ Len(t) - 1 = Len(s)
      BY <2>1
    <3> QED
      BY <2>1, <2>2, <3>1
  <2> QED
    BY <1>4, <2>1, <2>6, <2>7 DEF f, g, t
<1> DEFINE T == {s \in Texts : FromLine(held, s) \in X}
<1>8. <<>> \in T /\ \A s \in Texts, b \in Bytes : s \in T => Append(s, b) \in T
  <2> HIDE DEF X, base
  <2> QED
    BY <1>1, <1>2, <1>6, <1>7, TextTypes
<1>9. Texts \subseteq T
  <2> HIDE DEF T
  <2> QED
    BY <1>8, SequencesUpTo DEF Texts
<1> QED
  BY <1>6, <1>7, <1>9

\* A byte sent after a text goes after what that text became.
LEMMA ByteToTheLine ==
    ASSUME NEW before \in Texts, NEW more \in [out : Texts, afterCr : BOOLEAN], NEW b \in Bytes
    PROVE  ToLineByte([out |-> before \o more.out, afterCr |-> more.afterCr], b)
           = [out |-> before \o ToLineByte(more, b).out, afterCr |-> ToLineByte(more, b).afterCr]
<1> DEFINE y == more.out
           piece == IF b = "lf" /\ ~more.afterCr THEN <<"cr", "lf">> ELSE <<b>>
<1>1. y \in Texts /\ piece \in Texts
  BY Pieces
<1>2. ToLineByte(more, b) = [out |-> y \o piece, afterCr |-> b = "cr"]
  BY DEF ToLineByte
<1>3. ToLineByte([out |-> before \o more.out, afterCr |-> more.afterCr], b)
      = [out |-> (before \o y) \o piece, afterCr |-> b = "cr"]
  BY DEF ToLineByte
<1> HIDE DEF y, piece
<1>4. (before \o y) \o piece = before \o (y \o piece)
  BY <1>1, Regrouped
<1> QED
  BY <1>2, <1>3, <1>4

\* Text converted in two pieces, the second as the first left it.
LEMMA ToLineJoins ==
    ASSUME NEW cr \in BOOLEAN, NEW s \in Texts, NEW t \in Texts
    PROVE  LET first == ToLine(cr, s)
               second == ToLine(first.afterCr, t)
           IN  /\ s \o t \in Texts
               /\ ToLine(cr, s \o t) = [out |-> first.out \o second.out, afterCr |-> second.afterCr]
<1> DEFINE first == ToLine(cr, s)
           Both(u) == [out |-> first.out \o ToLine(first.afterCr, u).out,
                       afterCr |-> ToLine(first.afterCr, u).afterCr]
           T == {u \in Texts : ToLine(cr, s \o u) = Both(u)}
<1>1. first \in [out : Texts, afterCr : BOOLEAN]
  BY ToLineSteps
<1>2. <<>> \in T
  <2>1. s \o <<>> = s /\ first.out \o <<>> = first.out /\ <<>> \in Texts
    BY <1>1, Joins, TextTypes
  <2>2. ToLine(first.afterCr, <<>>) = [out |-> <<>>, afterCr |-> first.afterCr]
    BY <1>1, ToLineSteps
  <2>3. first = [out |-> first.out, afterCr |-> first.afterCr]
    BY <1>1
  <2> HIDE DEF first
  <2>4. ToLine(cr, s \o <<>>) = first
    BY <2>1 DEF first
  <2>5. Both(<<>>) = [out |-> first.out, afterCr |-> first.afterCr]
    <3>1. first.out \o <<>> = first.out
      BY <2>1
    <3>2. /\ ToLine(first.afterCr, <<>>).out = <<>>
          /\ ToLine(first.afterCr, <<>>).afterCr = first.afterCr
      BY <2>2
    <3> QED
      BY <3>1, <3>2
  <2> HIDE DEF Both
  <2> QED
    BY <2>1, <2>3, <2>4, <2>5
<1>3. ASSUME NEW u \in Texts, NEW b \in Bytes, u \in T PROVE Append(u, b) \in T
  <2> DEFINE more == ToLine(first.afterCr, u)
  <2>1. s \o Append(u, b) = Append(s \o u, b) /\ s \o u \in Texts /\ Append(u, b) \in Texts
    BY Joins, TextTypes
  <2>2. first.out \in Texts /\ more \in [out : Texts, afterCr : BOOLEAN]
    BY <1>1, ToLineSteps
  <2>3. ToLine(cr, s \o Append(u, b)) = ToLineByte(ToLine(cr, s \o u), b)
    BY <2>1, ToLineSteps
  <2>4. ToLine(first.afterCr, Append(u, b)) = ToLineByte(more, b)
    BY <1>1, ToLineSteps
  <2>5. ToLine(cr, s \o u) = [out |-> first.out \o more.out, afterCr |-> more.afterCr]
    BY <1>3
  <2> HIDE DEF first, more
  <2>6. ToLineByte([out |-> first.out \o more.out, afterCr |-> more.afterCr], b)
        = [out |-> first.out \o ToLineByte(more, b).out, afterCr |-> ToLineByte(more, b).afterCr]
    BY <2>2, ByteToTheLine
  <2> QED
    BY <2>1, <2>3, <2>4, <2>5, <2>6
<1>4. Texts \subseteq T
  <2> HIDE DEF T
  <2> QED
    BY <1>2, <1>3, SequencesUpTo DEF Texts
<1> QED
  BY <1>4, Joins

\* A byte read after a text comes after what that text became.
LEMMA ByteOfTheRest ==
    ASSUME NEW before \in Texts, NEW more \in [out : Texts, held : BOOLEAN], NEW b \in Bytes
    PROVE  FromLineByte([out |-> before \o more.out, held |-> more.held], b)
           = [out |-> before \o FromLineByte(more, b).out, held |-> FromLineByte(more, b).held]
<1> DEFINE y == more.out
           kept == IF more.held /\ b # "lf" THEN <<"cr">> ELSE <<>>
           piece == IF b = "cr" THEN <<>> ELSE <<b>>
<1>1. y \in Texts /\ kept \in Texts /\ piece \in Texts
  BY Pieces
<1>2. FromLineByte(more, b) = [out |-> (y \o kept) \o piece, held |-> b = "cr"]
  BY DEF FromLineByte
<1>3. FromLineByte([out |-> before \o more.out, held |-> more.held], b)
      = [out |-> ((before \o y) \o kept) \o piece, held |-> b = "cr"]
  BY DEF FromLineByte
<1> HIDE DEF y, kept, piece
<1>4. (before \o y) \o kept = before \o (y \o kept) /\ y \o kept \in Texts
  BY <1>1, Regrouped, Joins
<1> DEFINE z == y \o kept
<1>5. z \in Texts
  BY <1>4
<1> HIDE DEF z
<1>6. (before \o z) \o piece = before \o (z \o piece)
  BY <1>1, <1>5, Regrouped, SMTT(30), ZenonT(60)
<1> QED
  BY <1>2, <1>3, <1>4, <1>6 DEF z

\* Wherever a text is cut into packets, FromLine (text.rs) with what it held of
\* the first piece makes of both what it makes of the whole.
THEOREM FromLineJoins ==
    ASSUME NEW held \in BOOLEAN, NEW s \in Texts, NEW t \in Texts
    PROVE  LET first == FromLine(held, s)
               second == FromLine(first.held, t)
           IN  /\ s \o t \in Texts
               /\ FromLine(held, s \o t) = [out |-> first.out \o second.out, held |-> second.held]
<1> DEFINE first == FromLine(held, s)
           Both(u) == [out |-> first.out \o FromLine(first.held, u).out,
                       held |-> FromLine(first.held, u).held]
           T == {u \in Texts : FromLine(held, s \o u) = Both(u)}
<1>1. first \in [out : Texts, held : BOOLEAN]
  BY FromLineSteps
<1>2. <<>> \in T
  <2>1. s \o <<>> = s /\ first.out \o <<>> = first.out /\ <<>> \in Texts
    BY <1>1, Joins, TextTypes
  <2>2. FromLine(first.held, <<>>) = [out |-> <<>>, held |-> first.held]
    BY <1>1, FromLineSteps
  <2>3. first = [out |-> first.out, held |-> first.held]
    BY <1>1
  <2> HIDE DEF first
  <2>4. FromLine(held, s \o <<>>) = first
    BY <2>1 DEF first
  <2>5. Both(<<>>) = [out |-> first.out, held |-> first.held]
    <3>1. first.out \o <<>> = first.out
      BY <2>1
    <3>2. /\ FromLine(first.held, <<>>).out = <<>>
          /\ FromLine(first.held, <<>>).held = first.held
      BY <2>2
    <3> QED
      BY <3>1, <3>2
  <2> HIDE DEF Both
  <2> QED
    BY <2>1, <2>3, <2>4, <2>5
<1>3. ASSUME NEW u \in Texts, NEW b \in Bytes, u \in T PROVE Append(u, b) \in T
  <2> DEFINE more == FromLine(first.held, u)
  <2>1. s \o Append(u, b) = Append(s \o u, b) /\ s \o u \in Texts /\ Append(u, b) \in Texts
    BY Joins, TextTypes
  <2>2. first.out \in Texts /\ more \in [out : Texts, held : BOOLEAN]
    BY <1>1, FromLineSteps
  <2>3. FromLine(held, s \o Append(u, b)) = FromLineByte(FromLine(held, s \o u), b)
    BY <2>1, FromLineSteps
  <2>4. FromLine(first.held, Append(u, b)) = FromLineByte(more, b)
    BY <1>1, FromLineSteps
  <2>5. FromLine(held, s \o u) = [out |-> first.out \o more.out, held |-> more.held]
    BY <1>3
  <2> HIDE DEF first, more
  <2>6. FromLineByte([out |-> first.out \o more.out, held |-> more.held], b)
        = [out |-> first.out \o FromLineByte(more, b).out, held |-> FromLineByte(more, b).held]
    BY <2>2, ByteOfTheRest
  <2> QED
    BY <2>1, <2>3, <2>4, <2>5, <2>6
<1>4. Texts \subseteq T
  <2> HIDE DEF T
  <2> QED
    BY <1>2, <1>3, SequencesUpTo DEF Texts
<1> QED
  BY <1>4, Joins

\* Nothing gets shorter on its way to the line.
LEMMA ToLineGrows ==
    ASSUME NEW cr \in BOOLEAN, NEW s \in Texts
    PROVE  Len(ToLine(cr, s).out) >= Len(s)
<1> DEFINE T == {u \in Texts : Len(ToLine(cr, u).out) >= Len(u)}
<1>1. <<>> \in T
  BY ToLineSteps, TextTypes
<1>2. ASSUME NEW u \in Texts, NEW b \in Bytes, u \in T PROVE Append(u, b) \in T
  <2> DEFINE more == ToLine(cr, u)
             piece == IF b = "lf" /\ ~more.afterCr THEN <<"cr", "lf">> ELSE <<b>>
  <2>1. more \in [out : Texts, afterCr : BOOLEAN] /\ piece \in Texts /\ Len(piece) >= 1
    BY ToLineSteps, Pieces
  <2>2. ToLine(cr, Append(u, b)).out = more.out \o piece
    <3>1. ToLine(cr, Append(u, b)) = ToLineByte(more, b)
      BY ToLineSteps
    <3> HIDE DEF more
    <3>2. ToLineByte(more, b) = [out |-> more.out \o piece, afterCr |-> b = "cr"]
      BY DEF ToLineByte
    <3> HIDE DEF piece
    <3> QED
      BY <3>1, <3>2
  <2> HIDE DEF more, piece
  <2>3. Len(more.out \o piece) = Len(more.out) + Len(piece) /\ Len(more.out) \in Nat
    BY <2>1 DEF Texts
  <2>4. Len(more.out) >= Len(u)
    BY <1>2 DEF more
  <2>5. Append(u, b) \in Texts /\ Len(Append(u, b)) = Len(u) + 1 /\ Len(u) \in Nat
    BY TextTypes DEF Texts
  <2>6. Len(piece) \in Nat
    BY <2>1 DEF Texts
  <2> QED
    BY <2>1, <2>2, <2>3, <2>4, <2>5, <2>6
<1>3. Texts \subseteq T
  <2> HIDE DEF T
  <2> QED
    BY <1>1, <1>2, SequencesUpTo DEF Texts
<1> QED
  BY <1>3

-----------------------------------------------------------------------------
(* There and back.                                                          *)

\* The texts that a sequence of steps makes, from the empty one.
LEMMA RunsOfTexts ==
    ASSUME NEW len \in Nat, NEW Step \in [1 .. len -> [Texts -> Texts]]
    PROVE  \E f \in [0 .. len -> Texts] :
              f[0] = <<>> /\ \A n \in 1 .. len : f[n] = Step[n][f[n - 1]]
<1> DEFINE base == <<>>
           X == Texts
<1>1. base \in X /\ Step \in [1 .. len -> [X -> X]]
  BY TextTypes
<1> HIDE DEF base, X
<1>2. \E f \in [0 .. len -> X] : f[0] = base /\ \A n \in 1 .. len : f[n] = Step[n][f[n - 1]]
  BY <1>1, Runs
<1> QED
  BY <1>2 DEF base, X

\* What Local makes of the first bytes of a text.
LEMMA LocalSteps ==
    ASSUME NEW s \in Texts
    PROVE  \E first \in [0 .. Len(s) -> Texts] :
              /\ Local(s) = first[Len(s)]
              /\ first[0] = <<>>
              /\ \A n \in 1 .. Len(s) :
                    first[n] = IF s[n] = "cr" /\ n < Len(s) /\ s[n + 1] = "lf"
                               THEN first[n - 1] ELSE Append(first[n - 1], s[n])
<1> DEFINE Is(f) == f = [n \in 0 .. Len(s) |->
                           IF n = 0 THEN <<>>
                           ELSE IF s[n] = "cr" /\ n < Len(s) /\ s[n + 1] = "lf" THEN f[n - 1]
                           ELSE Append(f[n - 1], s[n])]
           Step == [n \in 1 .. Len(s) |->
                      [x \in Texts |->
                         IF s[n] = "cr" /\ n < Len(s) /\ s[n + 1] = "lf"
                         THEN x ELSE Append(x, s[n])]]
<1>0. Len(s) \in Nat
  BY DEF Texts
<1>1. Len(s) \in Nat /\ \A n \in 1 .. Len(s) : s[n] \in Bytes
  BY DEF Texts
<1>2. Step \in [1 .. Len(s) -> [Texts -> Texts]]
  <2>1. ASSUME NEW n \in 1 .. Len(s), NEW x \in Texts
        PROVE  (IF s[n] = "cr" /\ n < Len(s) /\ s[n + 1] = "lf" THEN x ELSE Append(x, s[n])) \in Texts
    <3>1. s[n] \in Bytes
      BY <1>1
    <3>2. Append(x, s[n]) \in Texts
      BY <3>1, TextTypes
    <3> QED
      BY <3>2
  <2> QED
    BY <2>1, Zenon
<1>3. \E f \in [0 .. Len(s) -> Texts] :
         f[0] = <<>> /\ \A n \in 1 .. Len(s) : f[n] = Step[n][f[n - 1]]
  <2> HIDE DEF Step
  <2> QED
    BY <1>0, <1>2, RunsOfTexts
<1>4. PICK f \in [0 .. Len(s) -> Texts] :
              f[0] = <<>> /\ \A n \in 1 .. Len(s) : f[n] = Step[n][f[n - 1]]
  BY <1>3
<1>5. ASSUME NEW n \in 1 .. Len(s)
      PROVE  f[n] = IF s[n] = "cr" /\ n < Len(s) /\ s[n + 1] = "lf"
                    THEN f[n - 1] ELSE Append(f[n - 1], s[n])
  <2>1. n - 1 \in 0 .. Len(s) /\ f[n - 1] \in Texts
    BY <1>1
  <2> QED
    BY <1>4, <2>1
<1>6. Is(f)
  <2>1. f = [n \in 0 .. Len(s) |-> f[n]]
    OBVIOUS
  <2>2. \A n \in 0 .. Len(s) : n = 0 \/ n \in 1 .. Len(s)
    BY <1>1
  <2>3. \A n \in 0 .. Len(s) :
           f[n] = IF n = 0 THEN <<>>
                  ELSE IF s[n] = "cr" /\ n < Len(s) /\ s[n + 1] = "lf" THEN f[n - 1]
                  ELSE Append(f[n - 1], s[n])
    BY <1>4, <1>5, <2>2
  <2> QED
    BY <2>1, <2>3
<1> DEFINE The == CHOOSE g : Is(g)
<1>7. Is(The)
  <2> HIDE DEF Is
  <2> QED
    BY <1>6
<1>8. Local(s) = The[Len(s)]
  BY Zenon DEF Local
<1>9. /\ The[0] = <<>>
      /\ \A n \in 1 .. Len(s) :
            The[n] = IF s[n] = "cr" /\ n < Len(s) /\ s[n + 1] = "lf"
                     THEN The[n - 1] ELSE Append(The[n - 1], s[n])
  <2>1. ASSUME NEW g, Is(g)
        PROVE  /\ g[0] = <<>>
               /\ \A n \in 1 .. Len(s) :
                     g[n] = IF s[n] = "cr" /\ n < Len(s) /\ s[n + 1] = "lf"
                            THEN g[n - 1] ELSE Append(g[n - 1], s[n])
    <3>1. \A n \in 0 .. Len(s) :
             g[n] = IF n = 0 THEN <<>>
                    ELSE IF s[n] = "cr" /\ n < Len(s) /\ s[n + 1] = "lf" THEN g[n - 1]
                    ELSE Append(g[n - 1], s[n])
      BY <2>1, Zenon
    <3>2. 0 \in 0 .. Len(s) /\ \A n \in 1 .. Len(s) : n \in 0 .. Len(s) /\ n # 0
      BY <1>1
    <3> HIDE DEF Is
    <3> QED
      BY <3>1, <3>2
  <2> HIDE DEF The, Is
  <2> QED
    BY <1>7, <2>1
<1> DEFINE T == {n \in Nat : n <= Len(s) => The[n] = f[n]}
<1>10. 0 \in T
  BY <1>4, <1>9
<1>11. ASSUME NEW n \in Nat, n \in T PROVE n + 1 \in T
  <2> SUFFICES ASSUME n + 1 <= Len(s) PROVE The[n + 1] = f[n + 1]
    OBVIOUS
  <2>1. n + 1 \in 1 .. Len(s) /\ (n + 1) - 1 = n /\ The[n] = f[n]
    BY <1>1, <1>11
  <2> HIDE DEF The
  <2> QED
    BY <1>5, <1>9, <2>1
<1>12. Nat \subseteq T
  <2> HIDE DEF T
  <2> QED
    BY <1>10, <1>11, NumbersUpTo
<1>13. Local(s) = f[Len(s)]
  <2> HIDE DEF The
  <2> QED
    BY <1>1, <1>8, <1>12
<1> QED
  BY <1>4, <1>5, <1>13

\* One byte as it is read.
LEMMA FromLineOne ==
    ASSUME NEW held \in BOOLEAN, NEW b \in Bytes
    PROVE  FromLine(held, <<b>>) =
              [out |-> (IF held /\ b # "lf" THEN <<"cr">> ELSE <<>>)
                       \o (IF b = "cr" THEN <<>> ELSE <<b>>),
               held |-> b = "cr"]
<1>1. <<b>> = Append(<<>>, b) /\ <<>> \in Texts
  BY TextTypes
<1>2. FromLine(held, <<b>>) = FromLineByte([out |-> <<>>, held |-> held], b)
  <2>1. FromLine(held, Append(<<>>, b)) = FromLineByte(FromLine(held, <<>>), b)
    BY <1>1, FromLineSteps, Zenon
  <2>2. FromLine(held, <<>>) = [out |-> <<>>, held |-> held]
    BY FromLineSteps, Zenon
  <2> QED
    BY <1>1, <2>1, <2>2
<1> DEFINE kept == IF held /\ b # "lf" THEN <<"cr">> ELSE <<>>
<1>3. <<>> \o kept = kept
  BY Pieces, Joins
<1>4. FromLineByte([out |-> <<>>, held |-> held], b) =
         [out |-> (<<>> \o kept) \o (IF b = "cr" THEN <<>> ELSE <<b>>), held |-> b = "cr"]
  BY DEF FromLineByte
<1> QED
  BY <1>2, <1>3, <1>4

\* What becomes of a byte that is converted, and converted back, after a carriage
\* return or after none.
LEMMA PieceRead ==
    ASSUME NEW held \in BOOLEAN, NEW b \in Bytes
    PROVE  FromLine(held, IF b = "lf" /\ ~held THEN <<"cr", "lf">> ELSE <<b>>) =
              [out |-> IF b = "cr" THEN IF held THEN <<"cr">> ELSE <<>>
                       ELSE IF held /\ b # "lf" THEN <<"cr">> \o <<b>> ELSE <<b>>,
               held |-> b = "cr"]
<1>1. CASE b = "lf" /\ ~held
  <2>1. <<"cr", "lf">> = <<"cr">> \o <<"lf">> /\ "cr" \in Bytes /\ "lf" \in Bytes
    BY DEF Bytes
  <2>2. FromLine(FALSE, <<"cr">>) = [out |-> <<>>, held |-> TRUE]
    BY <2>1, FromLineOne, Joins, Pieces
  <2>3. FromLine(TRUE, <<"lf">>) = [out |-> <<"lf">>, held |-> FALSE]
    BY <2>1, FromLineOne, Joins, Pieces
  <2>4. FALSE \in BOOLEAN /\ <<"cr">> \in Texts /\ <<"lf">> \in Texts
    BY <2>1, Pieces
  <2>5. FromLine(FALSE, <<"cr">> \o <<"lf">>)
          = [out |-> FromLine(FALSE, <<"cr">>).out
                     \o FromLine(FromLine(FALSE, <<"cr">>).held, <<"lf">>).out,
             held |-> FromLine(FromLine(FALSE, <<"cr">>).held, <<"lf">>).held]
    BY <2>4, FromLineJoins, Zenon
  <2>6. /\ FromLine(FALSE, <<"cr">>).out = <<>>
        /\ FromLine(FALSE, <<"cr">>).held = TRUE
    <3> DEFINE r == FromLine(FALSE, <<"cr">>)
    <3> HIDE DEF r
    <3>1. r = [out |-> <<>>, held |-> TRUE]
      BY <2>2, Zenon DEF r
    <3>2. r.out = <<>> /\ r.held = TRUE
      BY <3>1
    <3> QED
      BY <3>2, Zenon DEF r
  <2>7. FromLine(FALSE, <<"cr">> \o <<"lf">>)
          = [out |-> <<>> \o FromLine(TRUE, <<"lf">>).out,
             held |-> FromLine(TRUE, <<"lf">>).held]
    BY <2>5, <2>6, Zenon
  <2>8. FromLine(TRUE, <<"lf">>).out = <<"lf">> /\ FromLine(TRUE, <<"lf">>).held = FALSE
    <3> DEFINE r == FromLine(TRUE, <<"lf">>)
    <3> HIDE DEF r
    <3>1. r = [out |-> <<"lf">>, held |-> FALSE]
      BY <2>3, Zenon DEF r
    <3>2. r.out = <<"lf">> /\ r.held = FALSE
      BY <3>1
    <3> QED
      BY <3>2, Zenon DEF r
  <2>9. <<>> \o <<"lf">> = <<"lf">>
    BY <2>4, Joins
  <2>10. FromLine(FALSE, <<"cr", "lf">>) = [out |-> <<"lf">>, held |-> FALSE]
    BY <2>1, <2>7, <2>8, <2>9, Zenon
  <2>11. held = FALSE
    BY <1>1
  <2> QED
    BY <1>1, <2>10, <2>11
<1>2. CASE ~(b = "lf" /\ ~held)
  <2>1. <<>> \o <<b>> = <<b>> /\ <<"cr">> \o <<>> = <<"cr">> /\ <<>> \o <<>> = <<>>
    BY Joins, Pieces
  <2>2. FromLine(held, <<b>>) =
           [out |-> (IF held /\ b # "lf" THEN <<"cr">> ELSE <<>>)
                    \o (IF b = "cr" THEN <<>> ELSE <<b>>),
            held |-> b = "cr"]
    BY FromLineOne
  <2>3. CASE b = "cr"
    BY <2>1, <2>2, <2>3
  <2>4. CASE b # "cr"
    BY <1>2, <2>1, <2>2, <2>4
  <2> QED
    BY <2>3, <2>4
<1> QED
  BY <1>1, <1>2

\* Any text that goes out through ToLine and comes in through FromLine (text.rs)
\* has the lines of this end: what the reader still holds of it is a carriage
\* return at its end.
THEOREM ThereAndBack ==
    ASSUME NEW s \in Texts
    PROVE  LET back == FromLine(FALSE, ToLine(FALSE, s).out)
           IN  Local(s) = back.out \o (IF back.held THEN <<"cr">> ELSE <<>>)
<1>1. PICK first \in [0 .. Len(s) -> Texts] :
              /\ Local(s) = first[Len(s)]
              /\ first[0] = <<>>
              /\ \A n \in 1 .. Len(s) :
                    first[n] = IF s[n] = "cr" /\ n < Len(s) /\ s[n + 1] = "lf"
                               THEN first[n - 1] ELSE Append(first[n - 1], s[n])
  BY LocalSteps
<1> DEFINE L(n) == ToLine(FALSE, SubSeq(s, 1, n))
           B(n) == FromLine(FALSE, L(n).out)
           Cr(n) == n > 0 /\ s[n] = "cr"
           LfNext(n) == n < Len(s) /\ s[n + 1] = "lf"
           T == {n \in Nat : n <= Len(s) =>
                    /\ L(n).afterCr <=> Cr(n)
                    /\ B(n).held <=> Cr(n)
                    /\ first[n] = IF Cr(n) /\ ~LfNext(n)
                                  THEN B(n).out \o <<"cr">> ELSE B(n).out}
<1>2. 0 \in T
  <2>1. SubSeq(s, 1, 0) = <<>>
    OBVIOUS
  <2>2. L(0) = [out |-> <<>>, afterCr |-> FALSE]
    BY <2>1, ToLineSteps, Zenon
  <2>3. B(0) = [out |-> <<>>, held |-> FALSE]
    <3>1. L(0).out = <<>>
      BY <2>2
    <3> QED
      BY <3>1, FromLineSteps, Zenon
  <2>4. ~L(0).afterCr /\ ~B(0).held /\ B(0).out = <<>> /\ ~Cr(0)
    <3>1. ~Cr(0)
      OBVIOUS
    <3> HIDE DEF L, B, Cr
    <3> QED
      BY <2>2, <2>3, <3>1
  <2> HIDE DEF L, B, Cr, LfNext
  <2> QED
    BY <1>1, <2>4
<1>3. ASSUME NEW n \in Nat, n \in T PROVE n + 1 \in T
  <2> SUFFICES ASSUME n + 1 <= Len(s)
               PROVE  /\ L(n + 1).afterCr <=> Cr(n + 1)
                      /\ B(n + 1).held <=> Cr(n + 1)
                      /\ first[n + 1] = IF Cr(n + 1) /\ ~LfNext(n + 1)
                                        THEN B(n + 1).out \o <<"cr">> ELSE B(n + 1).out
    <3> HIDE DEF L, B, Cr, LfNext
    <3> QED
      OBVIOUS
  <2> DEFINE b == s[n + 1]
             was == B(n).out
             held == B(n).held
             piece == IF b = "lf" /\ ~held THEN <<"cr", "lf">> ELSE <<b>>
  <2>1. n <= Len(s) /\ Len(s) \in Nat /\ n \in 0 .. Len(s) /\ b \in Bytes
    BY DEF Texts
  <2>2. /\ L(n).afterCr <=> Cr(n)
        /\ held <=> Cr(n)
        /\ first[n] = IF held /\ ~LfNext(n) THEN was \o <<"cr">> ELSE was
    <3> HIDE DEF L, B, Cr, LfNext
    <3> QED
      BY <1>3, <2>1
  <2>3. /\ SubSeq(s, 1, n) \in Texts /\ SubSeq(s, 1, n + 1) = Append(SubSeq(s, 1, n), b)
    BY <2>1 DEF Texts
  <2>4. L(n) \in [out : Texts, afterCr : BOOLEAN] /\ FALSE \in BOOLEAN
    BY <2>3, ToLineSteps, Zenon
  <2>5. L(n + 1) = ToLineByte(L(n), b)
    <3> DEFINE part == SubSeq(s, 1, n)
    <3>1. part \in Texts /\ L(n + 1) = ToLine(FALSE, Append(part, b)) /\ L(n) = ToLine(FALSE, part)
      BY <2>3
    <3> HIDE DEF L, part, b
    <3>2. ToLine(FALSE, Append(part, b)) = ToLineByte(ToLine(FALSE, part), b)
      BY <2>1, <2>4, <3>1, ToLineSteps, Zenon
    <3> QED
      BY <3>1, <3>2
  <2>6. B(n) \in [out : Texts, held : BOOLEAN]
    <3>1. L(n).out \in Texts
      BY <2>4
    <3> QED
      BY <2>4, <3>1, FromLineSteps, Zenon
  <2>7. was \in Texts /\ held \in BOOLEAN /\ L(n).out \in Texts
    BY <2>4, <2>6
  <2>8. L(n + 1).out = L(n).out \o piece /\ (L(n + 1).afterCr <=> b = "cr")
    <3> HIDE DEF L, B, b, Cr
    <3>1. L(n + 1) = [out |-> L(n).out \o (IF b = "lf" /\ ~L(n).afterCr THEN <<"cr", "lf">>
                                           ELSE <<b>>),
                      afterCr |-> b = "cr"]
      BY <2>5 DEF ToLineByte
    <3>2. L(n).afterCr <=> held
      BY <2>2
    <3> DEFINE out == L(n).out \o (IF b = "lf" /\ ~L(n).afterCr THEN <<"cr", "lf">>
                                   ELSE <<b>>)
               next == L(n + 1)
    <3>3. out = L(n).out \o piece
      BY <3>2
    <3>4. next = [out |-> out, afterCr |-> b = "cr"]
      BY <3>1
    <3> HIDE DEF out, next, piece
    <3>5. next.out = out /\ (next.afterCr <=> b = "cr")
      BY <3>4
    <3> QED
      BY <3>3, <3>5 DEF next
  <2>9. piece \in Texts
    BY <2>1, Pieces
  <2>10. B(n + 1) = [out |-> was \o FromLine(held, piece).out,
                     held |-> FromLine(held, piece).held]
    <3>1. FromLine(FALSE, L(n).out \o piece)
            = [out |-> FromLine(FALSE, L(n).out).out
                       \o FromLine(FromLine(FALSE, L(n).out).held, piece).out,
               held |-> FromLine(FromLine(FALSE, L(n).out).held, piece).held]
      <4> HIDE DEF piece
      <4> QED
        BY <2>4, <2>7, <2>9, FromLineJoins, Zenon
    <3>2. B(n + 1) = FromLine(FALSE, L(n).out \o piece)
      <4> HIDE DEF piece, L
      <4> QED
        BY <2>8
    <3> QED
      BY <3>1, <3>2, Zenon
  <2> HIDE DEF L, B, Cr, LfNext, b
  <2> DEFINE out == IF b = "cr" THEN IF held THEN <<"cr">> ELSE <<>>
                    ELSE IF held /\ b # "lf" THEN <<"cr">> \o <<b>> ELSE <<b>>
  <2>11. FromLine(held, piece) = [out |-> out, held |-> b = "cr"]
    BY <2>1, <2>7, PieceRead, Zenon
  <2>12. B(n + 1).out = was \o out /\ (B(n + 1).held <=> b = "cr")
    <3> HIDE DEF out, piece
    <3>1. FromLine(held, piece).out = out /\ (FromLine(held, piece).held <=> b = "cr")
      BY <2>11
    <3> QED
      BY <2>10, <3>1
  <2>13. first[n + 1] = IF b = "cr" /\ LfNext(n + 1) THEN first[n] ELSE first[n] \o <<b>>
    <3>1. n + 1 \in 1 .. Len(s) /\ (n + 1) - 1 = n /\ first[n] \in Texts
      BY <2>1
    <3>2. Append(first[n], b) = first[n] \o <<b>>
      BY <2>1, <3>1 DEF Texts
    <3> QED
      BY <1>1, <3>1, <3>2 DEF b, LfNext
  <2>14. (LfNext(n) <=> b = "lf") /\ (Cr(n + 1) <=> b = "cr")
    BY <2>1 DEF b, LfNext, Cr
  <2>15. /\ was \o <<>> = was
         /\ (was \o <<"cr">>) \o <<b>> = was \o (<<"cr">> \o <<b>>)
    BY <2>1, <2>7, Joins, Pieces, ZenonT(60)
  <2> HIDE DEF was, held
  <2>16. CASE b = "cr"
    <3>1. B(n + 1).out = IF held THEN was \o <<"cr">> ELSE was
      BY <2>12, <2>15, <2>16
    <3>2. first[n] = B(n + 1).out
      BY <2>2, <2>14, <2>16, <3>1
    <3> QED
      BY <2>8, <2>12, <2>13, <2>14, <2>16, <3>2
  <2>17. CASE b # "cr"
    <3>1. B(n + 1).out = IF held /\ b # "lf" THEN was \o (<<"cr">> \o <<b>>) ELSE was \o <<b>>
      BY <2>12, <2>17
    <3>2. first[n + 1] = B(n + 1).out
      BY <2>2, <2>13, <2>14, <2>15, <2>17, <3>1
    <3> QED
      BY <2>8, <2>12, <2>14, <2>17, <3>2
  <2> QED
    BY <2>16, <2>17
<1> HIDE DEF T
<1>4. Nat \subseteq T
  BY <1>2, <1>3, NumbersUpTo
<1>5. Len(s) \in Nat /\ SubSeq(s, 1, Len(s)) = s
  BY SubSeqFull, LenProperties DEF Texts
<1>6. B(Len(s)) = FromLine(FALSE, ToLine(FALSE, s).out)
  BY <1>5
<1>7. first[Len(s)] = IF B(Len(s)).held THEN B(Len(s)).out \o <<"cr">> ELSE B(Len(s)).out
  <2>1. Len(s) \in T
    BY <1>4, <1>5
  <2>2. ~LfNext(Len(s))
    BY <1>5
  <2> HIDE DEF B, L, Cr, LfNext
  <2> QED
    BY <1>5, <2>1, <2>2 DEF T
<1>8. B(Len(s)).out \o <<>> = B(Len(s)).out
  <2>1. B(Len(s)).out \in Texts
    BY <1>5, ToLineSteps, FromLineSteps
  <2> QED
    BY <2>1, Joins
<1> HIDE DEF B
<1> QED
  BY <1>1, <1>6, <1>7, <1>8

-----------------------------------------------------------------------------
(* The transfer.                                                            *)

SenderKinds == {"SendInit", "File", "Attributes", "Data", "EndOfFile", "Break"}
Kinds == SenderKinds \cup {"Ack", "Nak", "Error"}
Flags == Modes \cup {"none", "Y", "Z", "D"}
Numbers == 0 .. Span - 1

Packets ==
    [seq : Numbers, kind : Kinds, flag : Flags, data : Texts,
     check : {"one", "three", "damaged"}]
AtMostOne == {<<>>} \cup {<<p>> : p \in Packets}

EndTypes ==
    [role : Roles,
     status : {"Running", "Done", "Cancelled", "Failed", "BothSending", "BothReceiving"},
     state : SenderKinds \cup {"Finished"}, seq : Numbers, check : {"one", "three"},
     last : AtMostOne, retries : Nat, out : AtMostOne, cancelling : BOOLEAN, files : Nat,
     mode : Modes, held : BOOLEAN, open : BOOLEAN, lingering : BOOLEAN, at : Nat, read : Nat,
     pending : Texts, afterCr : BOOLEAN, eof : BOOLEAN, discarding : BOOLEAN,
     size : Nat, ceiling : Nat \ {0}, inFlight : Nat]

Folders == Seq([bytes : Texts, saved : BOOLEAN])

-----------------------------------------------------------------------------
(* A sender S and a receiver R, what S has sent, W, and R has said, V, that  *)
(* are not read yet, and the receiver's folder, F; what was agreed, a, how    *)
(* often the users have cancelled, c, and whether a call on files failed, x.  *)

\* A packet carries something, whatever its length.
Roomy == ShortRoom > 0 /\ LongRoom > 0

\* The packet an end keeps; whether the one a sender waits for is taken.
Held(S) == S.last[1]
Level(S, R) == R.seq = Held(S).seq
Ahead(S, R) == R.seq = NextSeq(Held(S).seq)

\* The kinds of packet while a file is going, and after its name.
InFile == {"File", "Attributes", "Data", "EndOfFile"}
Going == {"Attributes", "Data", "EndOfFile"}

ModeUnder(a, i) == IF a.attributes THEN Files[i].mode ELSE Setting
Wanted(a, i) == IF ModeUnder(a, i) = "text" THEN Local(Files[i].bytes) ELSE Files[i].bytes

Sending(a, S) ==
    /\ S \in EndTypes /\ S.role = "send"
    /\ S.last = <<Held(S)>> /\ Held(S) \in Packets /\ Held(S).kind \in SenderKinds
    /\ Running(S) => S.state = Held(S).kind /\ S.seq = Held(S).seq
    /\ ~Running(S) => S.state = "Finished"
    /\ Held(S).kind = "SendInit" => Held(S).seq = 0 /\ S.at = 0 /\ S.files = 0
    /\ Held(S).kind \in InFile => S.at \in 1 .. Len(Files) /\ S.mode = ModeUnder(a, S.at)
    /\ Held(S).kind = "Attributes" => Held(S).flag = S.mode
    /\ Held(S).kind \notin {"Attributes", "EndOfFile"} => Held(S).flag = "none"
    /\ Held(S).kind # "Data" => Held(S).data = <<>>
    /\ Held(S).kind = "EndOfFile" => Held(S).flag \in {"none", "D"}
    /\ S.at <= Len(Files) /\ S.files <= S.at
    /\ Running(S) /\ Held(S).kind \in InFile => S.files < S.at
    /\ LongRoom > 0 => S.size > 0

Receiving(a, x, R, F) ==
    /\ R \in EndTypes /\ R.role = "receive"
    /\ \/ R.last = <<>>
       \/ /\ R.last = <<Held(R)>> /\ Held(R) \in Packets
          /\ Held(R).kind = "Ack" /\ Held(R).seq = PreviousSeq(R.seq)
          /\ Held(R).flag \in {"none", "Y", "Z"}
    /\ Running(R) => R.state \in {"SendInit", "File", "Data"}
    /\ ~Running(R) => R.state = "Finished"
    /\ R.open <=> Running(R) /\ R.state = "Data"
    /\ F \in Folders
    /\ \A i \in 1 .. Len(F) - 1 : F[i].saved
    /\ R.open => F # <<>> /\ ~F[Len(F)].saved
    /\ ~R.open /\ (Running(R) \/ ~x) => \A i \in 1 .. Len(F) : F[i].saved
    /\ \A i \in 1 .. Len(F) : F[i].saved => i <= Len(Files) /\ (Roomy => F[i].bytes = Wanted(a, i))

\* What the receiver waits for before and after it takes a packet.
Before(kind) ==
    IF kind = "SendInit" THEN "SendInit" ELSE IF kind \in Going THEN "Data" ELSE "File"
After(kind) == IF kind \in {"SendInit", "EndOfFile"} THEN "File" ELSE "Data"

Stance(S, R, F) ==
    /\ Level(S, R) \/ Ahead(S, R)
    /\ Running(R) /\ Level(S, R) => R.state = Before(Held(S).kind)
    /\ Running(R) /\ Ahead(S, R) => R.state = After(Held(S).kind) /\ Held(S).kind # "Break"
    /\ Running(R) /\ ~R.cancelling =>
          Len(F) = IF Level(S, R) /\ Held(S).kind = "File" THEN S.at - 1 ELSE S.at

\* The packet as it was sent, or as it was spoilt.
Like(p, q) == p = [q EXCEPT !.check = p.check]
Stray(p) == p.kind = "Error" \/ (p.kind = "SendInit" /\ p.seq = 0)
Older(S, p) == Held(S).kind # "SendInit" /\ p.seq = PreviousSeq(Held(S).seq)

OnWire(S, R, W) ==
    /\ W \in Seq(Packets)
    /\ \A i \in 1 .. Len(W) :
          Stray(W[i]) \/ Like(W[i], Held(S)) \/ (Older(S, W[i]) /\ Level(S, R))
    /\ \A i, j \in 1 .. Len(W) :
          i < j /\ ~Stray(W[j]) /\ Older(S, W[j]) => Stray(W[i]) \/ Older(S, W[i])

\* What is no answer to the packet held, and what is one.
OldWord(S, p) ==
    \/ p.kind = "Ack" /\ p.seq = PreviousSeq(Held(S).seq)
    \/ p.kind = "Nak" /\ p.seq = Held(S).seq
NewWord(S, p) ==
    \/ p.kind = "Ack" /\ p.seq = Held(S).seq
    \/ p.kind = "Nak" /\ p.seq = NextSeq(Held(S).seq)

OnReturn(S, R, V) ==
    /\ V \in Seq(Packets)
    /\ \A i \in 1 .. Len(V) :
          \/ V[i].kind = "Error" \/ OldWord(S, V[i])
          \/ NewWord(S, V[i]) /\ Ahead(S, R)
    /\ \A i, j \in 1 .. Len(V) : i < j /\ NewWord(S, V[i]) => ~OldWord(S, V[j])
    /\ \A i \in 1 .. Len(V) : V[i].flag \in {"none", "Y", "Z"}

\* A text as it goes on the line, and as it is kept of the line, from its start.
AsSent(s) == ToLine(FALSE, s)
AsRead(s) == FromLine(FALSE, s)

\* What is read of the file going, as it goes on the line, and how a receiver
\* that has had those bytes of it stands.
Taken(S) == SubSeq(Files[S.at].bytes, 1, S.read)
Converted(S) == IF S.mode = "text" THEN AsSent(Taken(S)).out ELSE Taken(S)
Got(S, R, F, had) ==
    /\ F[Len(F)].bytes = IF S.mode = "text" THEN AsRead(had).out ELSE had
    /\ R.held <=> S.mode = "text" /\ AsRead(had).held

Reading(S, R) ==
    Held(S).kind \in Going /\ (Running(S) \/ Level(S, R)) =>
        /\ S.read <= Len(Files[S.at].bytes)
        /\ S.mode = "text" => (S.afterCr <=> AsSent(Taken(S)).afterCr)
        /\ S.eof => S.read = Len(Files[S.at].bytes)
        /\ Roomy /\ Held(S).kind = "EndOfFile" /\ Held(S).flag = "none" =>
              S.pending = <<>> /\ S.read = Len(Files[S.at].bytes)

Contents(a, S, R, F) ==
    R.open /\ ~R.cancelling =>
        /\ Held(S).kind = "File" =>
              /\ F[Len(F)].bytes = <<>> /\ ~R.held
              /\ ~a.attributes => R.mode = S.mode
        /\ Held(S).kind \in Going /\ (Held(S).kind = "Attributes" => Ahead(S, R)) =>
              R.mode = S.mode
        /\ Held(S).kind \in Going /\ Held(S).flag # "D" /\ (Running(S) \/ Level(S, R)) =>
              \E had \in Texts :
                  /\ had \o (IF Level(S, R) THEN Held(S).data ELSE <<>>) \o S.pending
                        = Converted(S)
                  /\ Got(S, R, F, had)

\* The files that are saved, where all but the last are.
SavedOf(F) == IF F # <<>> /\ ~F[Len(F)].saved THEN Len(F) - 1 ELSE Len(F)

\* While nobody has cancelled nothing is thrown away, and all is counted.
Counts(c, S, R, V, F) ==
    c = 0 =>
        /\ ~S.cancelling /\ ~S.discarding /\ ~R.cancelling /\ Held(S).flag # "D"
        /\ R.last # <<>> => Held(R).flag # "Z"
        /\ \A i \in 1 .. Len(V) : V[i].flag # "Z"
        /\ S.files <= SavedOf(F)
        /\ Held(S).kind = "Break" => SavedOf(F) = Len(Files)
        /\ Running(S) =>
              /\ Held(S).kind \in InFile => S.files = S.at - 1
              /\ Held(S).kind = "Break" => S.files = Len(Files)
              /\ SavedOf(F) = S.files + IF Ahead(S, R) /\ Held(S).kind = "EndOfFile" THEN 1 ELSE 0

Matched(a, c, x, S, R, W, V, F) ==
    /\ Sending(a, S) /\ Receiving(a, x, R, F) /\ Stance(S, R, F)
    /\ OnWire(S, R, W) /\ OnReturn(S, R, V)
    /\ Reading(S, R) /\ Contents(a, S, R, F) /\ Counts(c, S, R, V, F)

\* Two ends that have been told the same: neither gets anywhere.
FirstPacket == [seq |-> 0, kind |-> "SendInit", flag |-> "none", data |-> <<>>, check |-> "one"]
Alone(e, w, f) ==
    /\ e \in EndTypes /\ w \in Seq(Packets)
    /\ f = <<>> /\ ~e.open /\ e.status # "Done"
    /\ e.state = IF Running(e) THEN "SendInit" ELSE "Finished"
    /\ e.last = IF e.role = "send" THEN <<FirstPacket>> ELSE <<>>
    /\ \A i \in 1 .. Len(w) : w[i].kind \in {"Error", IF e.role = "send" THEN "SendInit" ELSE "Nak"}

\* A sender's first packet, in its caller's hand.
InHand(e) ==
    \/ e.out = <<>>
    \/ e.role = "send" /\ e.out \in {<<p>> : p \in Packets} /\ e.out[1].kind = "SendInit" /\ e.out[1].seq = 0

IInv ==
    /\ agreement \in Agreements /\ cancels \in Nat /\ failure \in BOOLEAN /\ repeated \in Nat
    /\ end \in [Sides -> EndTypes] /\ wire \in [Sides -> Seq(Packets)]
    /\ folder \in [Sides -> Folders]
    /\ \A side \in Sides : InHand(end[side])
    /\ \A s, r \in Sides :
          end[s].role = "send" /\ end[r].role = "receive" =>
              /\ Matched(agreement, cancels, failure, end[s], end[r], wire[s], wire[r], folder[r])
              /\ folder[s] = <<>>
    /\ \A side \in Sides :
          end[side].role = "send" =>
              Least(LongRoom, end[side].ceiling) <= Most(repeated \div 2, LeastSize)
    /\ \A a, b \in Sides :
          a # b /\ end[a].role = end[b].role => Alone(end[a], wire[a], folder[a])

-----------------------------------------------------------------------------
(* Numbers, records and what a packet is.                                   *)

LEMMA Seqs ==
    ASSUME NEW n \in Numbers
    PROVE  /\ NextSeq(n) = IF n + 1 = Span THEN 0 ELSE n + 1
           /\ PreviousSeq(n) = IF n = 0 THEN Span - 1 ELSE n - 1
BY NumbersAssumption DEF Numbers, NextSeq, PreviousSeq

\* The numbers before and after one, and it, are three.
LEMMA Neighbours ==
    ASSUME NEW n \in Numbers
    PROVE  /\ NextSeq(n) \in Numbers /\ PreviousSeq(n) \in Numbers
           /\ NextSeq(n) # n /\ PreviousSeq(n) # n /\ NextSeq(n) # PreviousSeq(n)
           /\ PreviousSeq(NextSeq(n)) = n /\ NextSeq(PreviousSeq(n)) = n
           /\ PreviousSeq(n) # NextSeq(NextSeq(n))
<1>1. NextSeq(n) \in Numbers /\ PreviousSeq(n) \in Numbers
  BY Seqs, NumbersAssumption DEF Numbers
<1> QED
  BY <1>1, Seqs, NumbersAssumption DEF Numbers

LEMMA ZeroNumber == 0 \in Numbers /\ 1 \in Numbers
BY NumbersAssumption DEF Numbers

LEMMA NextNotPrevious ==
    ASSUME NEW n \in Numbers, NEW m \in Numbers
    PROVE  NextSeq(n) = NextSeq(m) => n = m
BY Neighbours

\* What each field of an end may be.
LEMMA EndFields ==
    ASSUME NEW e \in EndTypes
    PROVE  /\ e.role \in Roles /\ e.seq \in Numbers /\ e.check \in {"one", "three"}
           /\ e.last \in AtMostOne /\ e.retries \in Nat /\ e.out \in AtMostOne
           /\ e.cancelling \in BOOLEAN /\ e.files \in Nat /\ e.mode \in Modes
           /\ e.held \in BOOLEAN /\ e.open \in BOOLEAN /\ e.at \in Nat /\ e.read \in Nat
           /\ e.pending \in Texts /\ e.afterCr \in BOOLEAN /\ e.eof \in BOOLEAN
           /\ e.discarding \in BOOLEAN /\ e.size \in Nat /\ e.ceiling \in Nat \ {0}
           /\ e.inFlight \in Nat
BY DEF EndTypes

LEMMA PacketFields ==
    ASSUME NEW p \in Packets
    PROVE  /\ p.seq \in Numbers /\ p.kind \in Kinds /\ p.flag \in Flags /\ p.data \in Texts
           /\ <<p>> \in AtMostOne /\ <<p>>[1] = p /\ <<p>> # <<>>
<1>1. p.seq \in Numbers /\ p.kind \in Kinds /\ p.flag \in Flags /\ p.data \in Texts
  BY DEF Packets
<1>2. <<p>> \in AtMostOne
  BY DEF AtMostOne
<1> QED
  BY <1>1, <1>2

LEMMA FileFields ==
    ASSUME NEW i \in 1 .. Len(Files)
    PROVE  Files[i].bytes \in Texts /\ Files[i].mode \in Modes
<1> DEFINE A == [bytes : Texts, mode : Modes]
<1>1. Files \in Seq(A)
  BY FilesAssumption DEF Texts, Bytes
<1> HIDE DEF A
<1>2. Files[i] \in A
  BY <1>1
<1> QED
  BY <1>2 DEF A

LEMMA NumberOfFiles == Len(Files) \in Nat
BY FilesAssumption

LEMMA ModeUnderType ==
    ASSUME NEW a \in Agreements, NEW i \in 1 .. Len(Files)
    PROVE  ModeUnder(a, i) \in Modes
BY FileFields, FilesAssumption DEF ModeUnder

\* A packet is kept and said.
LEMMA SendsDoes ==
    ASSUME NEW e \in EndTypes, NEW seq \in Numbers, NEW kind \in Kinds, NEW flag \in Flags,
           NEW data \in Texts
    PROVE  LET T == Sends(e, seq, kind, flag, data)
               p == Packet(e, seq, kind, flag, data)
           IN  /\ T \in EndTypes /\ T.last = <<p>> /\ T.out = <<p>> /\ p \in Packets
               /\ T = [e EXCEPT !.last = <<p>>, !.retries = 0, !.out = <<p>>]
               /\ p.seq = seq /\ p.kind = kind /\ p.flag = flag /\ p.data = data
<1> DEFINE T == Sends(e, seq, kind, flag, data)
           p == Packet(e, seq, kind, flag, data)
<1>1. p \in Packets /\ p.seq = seq /\ p.kind = kind /\ p.flag = flag /\ p.data = data
  BY EndFields DEF Packet, Packets
<1>2. T = [e EXCEPT !.last = <<p>>, !.retries = 0, !.out = <<p>>]
  BY DEF Sends
<1>3. <<p>> \in AtMostOne
  BY <1>1 DEF AtMostOne
<1> HIDE DEF p
<1>4. T \in EndTypes
  <2> HIDE DEF T
  <2> QED
    BY <1>2, <1>3 DEF EndTypes
<1>5. T.last = <<p>> /\ T.out = <<p>>
  <2> HIDE DEF T
  <2> QED
    BY <1>2 DEF EndTypes
<1> QED
  BY <1>1, <1>2, <1>4, <1>5 DEF p

\* What stops an end.
LEMMA FailsDoes ==
    ASSUME NEW e \in EndTypes, NEW why \in {"Cancelled", "Failed", "BothSending", "BothReceiving"}
    PROVE  LET T == Fails(e, why)
               p == Packet(e, e.seq, "Error", "none", <<>>)
           IN  /\ T \in EndTypes /\ p \in Packets /\ p.kind = "Error" /\ p.flag = "none" /\ T.out = <<p>>
               /\ T = [e EXCEPT !.out = <<p>>, !.state = "Finished", !.status = why]
<1>1. <<>> \in Texts /\ e.seq \in Numbers /\ e.check \in {"one", "three"}
  BY TextTypes, EndFields
<1> DEFINE p == Packet(e, e.seq, "Error", "none", <<>>)
<1>2. p \in Packets /\ p.kind = "Error" /\ p.flag = "none"
  BY <1>1 DEF Packet, Packets, Kinds, Flags
<1>3. <<p>> \in AtMostOne
  BY <1>2 DEF AtMostOne
<1>4. Fails(e, why) = [e EXCEPT !.out = <<p>>, !.state = "Finished", !.status = why]
  BY DEF Fails, Stops, Says, EndTypes
<1> HIDE DEF p
<1>5. [e EXCEPT !.out = <<p>>, !.state = "Finished", !.status = why] \in EndTypes
  BY <1>3 DEF EndTypes
<1>6. Fails(e, why).out = <<p>>
  BY <1>4 DEF EndTypes
<1> QED
  BY <1>2, <1>4, <1>5, <1>6 DEF p

LEMMA FailsSays ==
    ASSUME NEW e \in EndTypes, NEW why \in {"Cancelled", "Failed", "BothSending", "BothReceiving"}
    PROVE  /\ Fails(e, why) \in EndTypes
           /\ Fails(e, why).out = <<Packet(e, e.seq, "Error", "none", <<>>)>>
           /\ Fails(e, why) = [e EXCEPT !.out = <<Packet(e, e.seq, "Error", "none", <<>>)>>,
                                       !.state = "Finished", !.status = why]
BY FailsDoes

LEMMA NakDoes ==
    ASSUME NEW e \in EndTypes
    PROVE  LET T == Says(e, "Nak")
               p == Packet(e, e.seq, "Nak", "none", <<>>)
           IN  /\ T \in EndTypes /\ p \in Packets /\ p.kind = "Nak" /\ p.flag = "none" /\ p.seq = e.seq
               /\ T.out = <<p>> /\ T = [e EXCEPT !.out = <<p>>]
<1>1. <<>> \in Texts /\ e.seq \in Numbers /\ e.check \in {"one", "three"}
  BY TextTypes, EndFields
<1> DEFINE p == Packet(e, e.seq, "Nak", "none", <<>>)
<1>2. p \in Packets /\ p.kind = "Nak" /\ p.flag = "none" /\ p.seq = e.seq
  BY <1>1 DEF Packet, Packets, Kinds, Flags
<1>3. <<p>> \in AtMostOne
  BY <1>2 DEF AtMostOne
<1>4. Says(e, "Nak") = [e EXCEPT !.out = <<p>>]
  BY DEF Says, EndTypes
<1> HIDE DEF p
<1>5. Says(e, "Nak") \in EndTypes /\ Says(e, "Nak").out = <<p>>
  BY <1>3, <1>4 DEF EndTypes
<1> QED
  BY <1>2, <1>4, <1>5 DEF p

-----------------------------------------------------------------------------
(* What is on its way: a packet more, one less, one spoilt; the receiver has *)
(* taken the packet held, or the sender goes on to the next.                  *)

LEMMA OneMore ==
    ASSUME NEW w \in Seq(Packets), NEW p \in Packets
    PROVE  /\ w \o <<>> = w /\ w \o <<p>> = Append(w, p) /\ Append(w, p) \in Seq(Packets)
           /\ Len(Append(w, p)) = Len(w) + 1 /\ Append(w, p)[Len(w) + 1] = p
           /\ \A i \in 1 .. Len(w) : Append(w, p)[i] = w[i] /\ w[i] \in Packets
OBVIOUS

LEMMA OneLess ==
    ASSUME NEW w \in Seq(Packets), w # <<>>
    PROVE  /\ Tail(w) \in Seq(Packets) /\ Len(Tail(w)) = Len(w) - 1 /\ Len(w) \in Nat \ {0}
           /\ Head(w) = w[1] /\ w[1] \in Packets
           /\ \A i \in 1 .. Len(Tail(w)) : Tail(w)[i] = w[i + 1] /\ i + 1 \in 1 .. Len(w)
OBVIOUS

Spoilt(p) == [p EXCEPT !.check = "damaged"]

LEMMA OneSpoilt ==
    ASSUME NEW w \in Seq(Packets), w # <<>>
    PROVE  LET v == <<Spoilt(Head(w))>> \o Tail(w)
           IN  /\ v \in Seq(Packets) /\ Len(v) = Len(w) /\ v[1] = Spoilt(w[1])
               /\ \A i \in 2 .. Len(w) : v[i] = w[i]
               /\ \A i \in 1 .. Len(w) :
                     v[i].seq = w[i].seq /\ v[i].kind = w[i].kind /\ v[i].flag = w[i].flag
                     /\ v[i].data = w[i].data /\ w[i] \in Packets /\ v[i] \in Packets
<1> DEFINE v == <<Spoilt(Head(w))>> \o Tail(w)
<1>1. Spoilt(Head(w)) \in Packets /\ Head(w) = w[1] /\ w[1] \in Packets
  BY OneLess DEF Packets, Spoilt
<1>2. v \in Seq(Packets) /\ Len(v) = Len(w) /\ v[1] = Spoilt(w[1])
  BY <1>1, OneLess
<1>3. \A i \in 2 .. Len(w) : v[i] = w[i]
  BY <1>1, OneLess
<1>4. \A i \in 1 .. Len(w) : i = 1 \/ i \in 2 .. Len(w)
  BY OneLess
<1>5. \A p \in Packets : Spoilt(p).seq = p.seq /\ Spoilt(p).kind = p.kind
                         /\ Spoilt(p).flag = p.flag /\ Spoilt(p).data = p.data
  BY DEF Packets, Spoilt
<1>6. \A i \in 1 .. Len(w) : w[i] \in Packets /\ v[i] \in Packets
  BY <1>2
<1> HIDE DEF v
<1>7. \A i \in 1 .. Len(w) : v[i].seq = w[i].seq /\ v[i].kind = w[i].kind
                             /\ v[i].flag = w[i].flag /\ v[i].data = w[i].data
  BY <1>2, <1>3, <1>4, <1>5, <1>6
<1> QED
  BY <1>2, <1>3, <1>6, <1>7 DEF v

\* What a packet is like is its number, its kind, its flag and its data.
LEMMA LikeFields ==
    ASSUME NEW p \in Packets, NEW q \in Packets
    PROVE  Like(p, q) <=> p.seq = q.seq /\ p.kind = q.kind /\ p.flag = q.flag /\ p.data = q.data
BY DEF Like, Packets

\* All that OnWire and OnReturn ask of the two ends.
LEMMA SameWires ==
    ASSUME NEW S, NEW T, NEW R, NEW Q, NEW w, T.last = S.last, Q.seq = R.seq
    PROVE  /\ OnWire(S, R, w) => OnWire(T, Q, w)
           /\ OnReturn(S, R, w) => OnReturn(T, Q, w)
<1>1. Held(T) = Held(S)
  BY DEF Held
<1> QED
  BY <1>1 DEF OnWire, OnReturn, Older, Level, Ahead, OldWord, NewWord

LEMMA WireLess ==
    ASSUME NEW S, NEW R, NEW W, OnWire(S, R, W), W # <<>>
    PROVE  OnWire(S, R, Tail(W))
<1>1. W \in Seq(Packets)
  BY DEF OnWire
<1> QED
  BY <1>1, OneLess DEF OnWire

LEMMA WireMore ==
    ASSUME NEW S, NEW R, NEW W, OnWire(S, R, W), NEW p \in Packets,
           p = Held(S) \/ Stray(p)
    PROVE  OnWire(S, R, Append(W, p))
<1>1. W \in Seq(Packets)
  BY DEF OnWire
<1> DEFINE U == Append(W, p)
<1>2. /\ U \in Seq(Packets) /\ Len(U) = Len(W) + 1 /\ U[Len(W) + 1] = p /\ Len(W) \in Nat
      /\ \A i \in 1 .. Len(W) : U[i] = W[i]
  BY <1>1, OneMore
<1>3. Like(p, p) /\ p.seq \in Numbers
  BY LikeFields, PacketFields
<1>4. ~Stray(p) => ~Older(S, p)
  BY <1>3, Neighbours DEF Older
<1> HIDE DEF U
<1>5. \A i \in 1 .. Len(U) : i = Len(U) \/ i \in 1 .. Len(W)
  BY <1>2
<1>6. \A i \in 1 .. Len(U) :
         Stray(U[i]) \/ Like(U[i], Held(S)) \/ (Older(S, U[i]) /\ Level(S, R))
  BY <1>2, <1>3, <1>5 DEF OnWire
<1>7. \A i, j \in 1 .. Len(U) :
         i < j /\ ~Stray(U[j]) /\ Older(S, U[j]) => Stray(U[i]) \/ Older(S, U[i])
  <2> SUFFICES ASSUME NEW i \in 1 .. Len(U), NEW j \in 1 .. Len(U), i < j,
                      ~Stray(U[j]), Older(S, U[j])
               PROVE  Stray(U[i]) \/ Older(S, U[i])
    OBVIOUS
  <2>1. j \in 1 .. Len(W) /\ i \in 1 .. Len(W)
    BY <1>2, <1>4, <1>5
  <2> QED
    BY <1>2, <2>1 DEF OnWire
<1> QED
  BY <1>2, <1>6, <1>7 DEF OnWire, U

LEMMA WireSpoilt ==
    ASSUME NEW S, NEW R, NEW W, OnWire(S, R, W), W # <<>>, Held(S) \in Packets
    PROVE  OnWire(S, R, <<Spoilt(Head(W))>> \o Tail(W))
<1>1. W \in Seq(Packets)
  BY DEF OnWire
<1> DEFINE U == <<Spoilt(Head(W))>> \o Tail(W)
<1>2. /\ U \in Seq(Packets) /\ Len(U) = Len(W)
      /\ \A i \in 1 .. Len(W) :
             U[i].seq = W[i].seq /\ U[i].kind = W[i].kind /\ U[i].flag = W[i].flag
             /\ U[i].data = W[i].data /\ W[i] \in Packets /\ U[i] \in Packets
  BY <1>1, OneSpoilt
<1> HIDE DEF U
<1>3. \A i \in 1 .. Len(W) :
         /\ Stray(U[i]) <=> Stray(W[i])
         /\ Like(U[i], Held(S)) <=> Like(W[i], Held(S))
         /\ Older(S, U[i]) <=> Older(S, W[i])
  BY <1>2, LikeFields DEF Stray, Older
<1> QED
  BY <1>2, <1>3 DEF OnWire, U

LEMMA WireTaken ==
    ASSUME NEW S, NEW R, NEW Q, NEW W, OnWire(S, R, W), W # <<>>,
           Held(S).kind = "SendInit" \/ (~Stray(W[1]) /\ ~Older(S, W[1]))
    PROVE  OnWire(S, Q, Tail(W))
<1>1. W \in Seq(Packets)
  BY DEF OnWire
<1>2. OnWire(S, R, Tail(W))
  BY WireLess
<1>3. \A i \in 1 .. Len(Tail(W)) : ~Stray(Tail(W)[i]) => ~Older(S, Tail(W)[i])
  <2> SUFFICES ASSUME NEW i \in 1 .. Len(Tail(W)), ~Stray(Tail(W)[i]), Older(S, Tail(W)[i])
               PROVE  FALSE
    OBVIOUS
  <2>1. Tail(W)[i] = W[i + 1] /\ i + 1 \in 1 .. Len(W) /\ 1 \in 1 .. Len(W) /\ 1 < i + 1
    BY <1>1, OneLess
  <2>2. Held(S).kind # "SendInit"
    BY DEF Older
  <2> QED
    BY <2>1, <2>2 DEF OnWire
<1> QED
  BY <1>2, <1>3 DEF OnWire

LEMMA WireMoves ==
    ASSUME NEW S, NEW T, NEW R, NEW W, OnWire(S, R, W), Ahead(S, R), Level(T, R),
           Held(S) \in Packets, Held(T).seq = NextSeq(Held(S).seq), Held(T).kind # "SendInit"
    PROVE  OnWire(T, R, W)
<1>1. Held(S).seq \in Numbers /\ ~Level(S, R) /\ PreviousSeq(Held(T).seq) = Held(S).seq
  BY PacketFields, Neighbours DEF Ahead, Level
<1>2. \A i \in 1 .. Len(W) : W[i] \in Packets
  BY DEF OnWire
<1>3. \A i \in 1 .. Len(W) : Stray(W[i]) \/ Older(T, W[i])
  BY <1>1, <1>2, LikeFields DEF OnWire, Older
<1> QED
  BY <1>3 DEF OnWire

\* A word is no answer or an answer, never both.
LEMMA OldOrNew ==
    ASSUME NEW S, Held(S) \in Packets, NEW p
    PROVE  ~(OldWord(S, p) /\ NewWord(S, p))
BY PacketFields, Neighbours DEF OldWord, NewWord

LEMMA ReturnLess ==
    ASSUME NEW S, NEW R, NEW V, OnReturn(S, R, V), V # <<>>
    PROVE  OnReturn(S, R, Tail(V))
<1>1. V \in Seq(Packets)
  BY DEF OnReturn
<1> QED
  BY <1>1, OneLess DEF OnReturn

LEMMA ReturnMore ==
    ASSUME NEW S, NEW R, NEW V, OnReturn(S, R, V), Held(S) \in Packets, NEW p \in Packets,
           p.flag \in {"none", "Y", "Z"},
           \/ p.kind = "Error"
           \/ OldWord(S, p) /\ Level(S, R)
           \/ NewWord(S, p) /\ Ahead(S, R)
    PROVE  OnReturn(S, R, Append(V, p))
<1>1. V \in Seq(Packets)
  BY DEF OnReturn
<1> DEFINE U == Append(V, p)
<1>2. /\ U \in Seq(Packets) /\ Len(U) = Len(V) + 1 /\ U[Len(V) + 1] = p /\ Len(V) \in Nat
      /\ \A i \in 1 .. Len(V) : U[i] = V[i]
  BY <1>1, OneMore
<1>3. ~(Level(S, R) /\ Ahead(S, R))
  BY PacketFields, Neighbours DEF Level, Ahead
<1> HIDE DEF U
<1>5. \A i \in 1 .. Len(U) : i = Len(U) \/ i \in 1 .. Len(V)
  BY <1>2
<1>6. \A i \in 1 .. Len(U) :
         \/ U[i].kind = "Error" \/ OldWord(S, U[i])
         \/ NewWord(S, U[i]) /\ Ahead(S, R)
  BY <1>2, <1>5 DEF OnReturn
<1>7. \A i, j \in 1 .. Len(U) : i < j /\ NewWord(S, U[i]) => ~OldWord(S, U[j])
  <2> SUFFICES ASSUME NEW i \in 1 .. Len(U), NEW j \in 1 .. Len(U), i < j,
                      NewWord(S, U[i]), OldWord(S, U[j])
               PROVE  FALSE
    OBVIOUS
  <2>1. i \in 1 .. Len(V)
    BY <1>2, <1>5
  <2>2. CASE j \in 1 .. Len(V)
    BY <1>2, <2>1, <2>2 DEF OnReturn
  <2>3. CASE j = Len(U)
    <3>1. U[j] = p /\ p.kind # "Error"
      BY <1>2, <2>3 DEF OldWord
    <3>2. Level(S, R)
      BY <3>1, OldOrNew
    <3>3. V[i].kind # "Error" /\ NewWord(S, V[i])
      BY <1>2, <2>1 DEF NewWord
    <3> QED
      BY <1>3, <2>1, <3>2, <3>3, OldOrNew DEF OnReturn
  <2> QED
    BY <1>5, <2>2, <2>3
<1>8. \A i \in 1 .. Len(U) : U[i].flag \in {"none", "Y", "Z"}
  BY <1>2, <1>5 DEF OnReturn
<1> QED
  BY <1>2, <1>6, <1>7, <1>8 DEF OnReturn, U

LEMMA ReturnSpoilt ==
    ASSUME NEW S, NEW R, NEW V, OnReturn(S, R, V), V # <<>>
    PROVE  OnReturn(S, R, <<Spoilt(Head(V))>> \o Tail(V))
<1>1. V \in Seq(Packets)
  BY DEF OnReturn
<1> DEFINE U == <<Spoilt(Head(V))>> \o Tail(V)
<1>2. /\ U \in Seq(Packets) /\ Len(U) = Len(V)
      /\ \A i \in 1 .. Len(V) :
             U[i].seq = V[i].seq /\ U[i].kind = V[i].kind /\ U[i].flag = V[i].flag
  BY <1>1, OneSpoilt
<1> HIDE DEF U
<1>3. \A i \in 1 .. Len(V) :
         (OldWord(S, U[i]) <=> OldWord(S, V[i])) /\ (NewWord(S, U[i]) <=> NewWord(S, V[i]))
  BY <1>2 DEF OldWord, NewWord
<1> QED
  BY <1>2, <1>3 DEF OnReturn, U

\* The receiver takes the packet held: what it has said before is no answer to it.
LEMMA ReturnTaken ==
    ASSUME NEW S, NEW R, NEW Q, NEW V, OnReturn(S, R, V), Held(S) \in Packets,
           Level(S, R)
    PROVE  OnReturn(S, Q, V)
<1>1. ~Ahead(S, R)
  BY PacketFields, Neighbours DEF Level, Ahead
<1> QED
  BY <1>1 DEF OnReturn

LEMMA ReturnMoves ==
    ASSUME NEW S, NEW T, NEW R, NEW V, OnReturn(S, R, V), V # <<>>, NewWord(S, V[1]),
           Held(S) \in Packets, Held(T) \in Packets, Held(T).seq = NextSeq(Held(S).seq)
    PROVE  OnReturn(T, R, Tail(V))
<1>1. V \in Seq(Packets) /\ OnReturn(S, R, Tail(V))
  BY ReturnLess DEF OnReturn
<1>2. \A i \in 1 .. Len(Tail(V)) : ~OldWord(S, Tail(V)[i])
  <2> SUFFICES ASSUME NEW i \in 1 .. Len(Tail(V)) PROVE ~OldWord(S, Tail(V)[i])
    OBVIOUS
  <2>1. Tail(V)[i] = V[i + 1] /\ i + 1 \in 1 .. Len(V) /\ 1 \in 1 .. Len(V) /\ 1 < i + 1
    BY <1>1, OneLess
  <2> QED
    BY <2>1 DEF OnReturn
<1>3. PreviousSeq(Held(T).seq) = Held(S).seq
  BY PacketFields, Neighbours
<1>4. \A i \in 1 .. Len(Tail(V)) : Tail(V)[i].kind = "Error" \/ OldWord(T, Tail(V)[i])
  BY <1>1, <1>2, <1>3 DEF OnReturn, OldWord, NewWord
<1>5. \A i \in 1 .. Len(Tail(V)) : ~NewWord(T, Tail(V)[i])
  BY <1>4, OldOrNew DEF NewWord
<1> QED
  BY <1>1, <1>4, <1>5 DEF OnReturn

-----------------------------------------------------------------------------
(* The folder: the files saved are all but the last, or all.                *)

FileTypes == [bytes : Texts, saved : BOOLEAN]

\* A file more, more bytes in the last, the last saved, or the last gone.
LEMMA FolderCreated ==
    ASSUME NEW F \in Folders
    PROVE  /\ Created(F) \in Folders /\ Len(Created(F)) = Len(F) + 1 /\ Created(F) # <<>>
           /\ Created(F)[Len(F) + 1] = [bytes |-> <<>>, saved |-> FALSE]
           /\ \A i \in 1 .. Len(F) : Created(F)[i] = F[i]
<1>1. [bytes |-> <<>>, saved |-> FALSE] \in FileTypes
  BY TextTypes DEF FileTypes
<1>2. F \in Seq(FileTypes)
  BY DEF Folders, FileTypes
<1> HIDE DEF FileTypes
<1>3. Created(F) \in Seq(FileTypes)
  BY <1>1, <1>2 DEF Created
<1> QED
  BY <1>2, <1>3 DEF Created, Folders, FileTypes

LEMMA FolderWritten ==
    ASSUME NEW F \in Folders, F # <<>>, NEW bytes \in Texts
    PROVE  /\ Written(F, bytes) \in Folders /\ Len(Written(F, bytes)) = Len(F)
           /\ Written(F, bytes) # <<>>
           /\ Written(F, bytes)[Len(F)].bytes = F[Len(F)].bytes \o bytes
           /\ Written(F, bytes)[Len(F)].saved = F[Len(F)].saved
           /\ F[Len(F)].bytes \in Texts
           /\ \A i \in 1 .. Len(F) - 1 : Written(F, bytes)[i] = F[i]
<1>1. F \in Seq(FileTypes) /\ Len(F) \in Nat \ {0} /\ F[Len(F)] \in FileTypes
  <2>1. F \in Seq(FileTypes)
    BY DEF Folders, FileTypes
  <2> HIDE DEF FileTypes
  <2> QED
    BY <2>1
<1> DEFINE f == [F[Len(F)] EXCEPT !.bytes = @ \o bytes]
<1>2. F[Len(F)].bytes \o bytes \in Texts
  BY <1>1, Joins DEF FileTypes
<1>3. /\ f \in FileTypes /\ f.bytes = F[Len(F)].bytes \o bytes /\ f.saved = F[Len(F)].saved
  BY <1>1, <1>2 DEF FileTypes
<1>4. Written(F, bytes) = [F EXCEPT ![Len(F)] = f]
  BY DEF Written
<1>5. F[Len(F)].bytes \in Texts
  BY <1>1 DEF FileTypes
<1> HIDE DEF f, FileTypes
<1>6. Written(F, bytes) \in Seq(FileTypes) /\ Len(Written(F, bytes)) = Len(F)
  BY <1>1, <1>3, <1>4
<1>7. Written(F, bytes)[Len(F)] = f /\ \A i \in 1 .. Len(F) - 1 : Written(F, bytes)[i] = F[i]
  BY <1>1, <1>4
<1>8. Written(F, bytes) \in Folders
  BY <1>6 DEF Folders, FileTypes
<1>9. Written(F, bytes) # <<>>
  BY <1>1, <1>6
<1> QED
  BY <1>3, <1>5, <1>6, <1>7, <1>8, <1>9

LEMMA FolderSaved ==
    ASSUME NEW F \in Folders, F # <<>>
    PROVE  /\ Saved(F) \in Folders /\ Len(Saved(F)) = Len(F) /\ Saved(F) # <<>>
           /\ Saved(F)[Len(F)].bytes = F[Len(F)].bytes
           /\ Saved(F)[Len(F)].saved
           /\ \A i \in 1 .. Len(F) - 1 : Saved(F)[i] = F[i]
<1>1. F \in Seq(FileTypes) /\ Len(F) \in Nat \ {0} /\ F[Len(F)] \in FileTypes
  <2>1. F \in Seq(FileTypes)
    BY DEF Folders, FileTypes
  <2> HIDE DEF FileTypes
  <2> QED
    BY <2>1
<1> DEFINE f == [F[Len(F)] EXCEPT !.saved = TRUE]
<1>2. /\ f \in FileTypes /\ f.bytes = F[Len(F)].bytes /\ f.saved
  BY <1>1 DEF FileTypes
<1>3. Saved(F) = [F EXCEPT ![Len(F)] = f]
  BY DEF Saved
<1> HIDE DEF f, FileTypes
<1>4. Saved(F) \in Seq(FileTypes) /\ Len(Saved(F)) = Len(F)
  BY <1>1, <1>2, <1>3
<1>5. Saved(F)[Len(F)] = f /\ \A i \in 1 .. Len(F) - 1 : Saved(F)[i] = F[i]
  BY <1>1, <1>3
<1>6. Saved(F) \in Folders
  BY <1>4 DEF Folders, FileTypes
<1>7. Saved(F) # <<>>
  BY <1>1, <1>4
<1> QED
  BY <1>2, <1>4, <1>5, <1>6, <1>7

LEMMA FolderRemoved ==
    ASSUME NEW F \in Folders, F # <<>>
    PROVE  /\ Removed(F) \in Folders /\ Len(Removed(F)) = Len(F) - 1
           /\ \A i \in 1 .. Len(F) - 1 : Removed(F)[i] = F[i]
<1>1. F \in Seq(FileTypes) /\ Len(F) \in Nat \ {0}
  BY DEF Folders, FileTypes
<1> HIDE DEF FileTypes
<1>2. Removed(F) \in Seq(FileTypes) /\ Len(Removed(F)) = Len(F) - 1
  BY <1>1 DEF Removed
<1> QED
  BY <1>1, <1>2 DEF Removed, Folders, FileTypes

-----------------------------------------------------------------------------
(* An end that waits, or stops, where it is.                                *)

\* A sender goes on waiting or stops; its task is as it was.
SenderWaits(S, T) ==
    /\ T \in EndTypes
    /\ T.role = S.role /\ T.last = S.last /\ T.files = S.files /\ T.mode = S.mode
    /\ T.at = S.at /\ T.read = S.read /\ T.pending = S.pending /\ T.afterCr = S.afterCr
    /\ T.eof = S.eof /\ T.discarding = S.discarding
    /\ Running(T) => Running(S) /\ T.state = S.state /\ T.seq = S.seq
    /\ ~Running(T) => T.state = "Finished"
    /\ LongRoom > 0 /\ S.size > 0 => T.size > 0

LEMMA WaitingSender ==
    ASSUME NEW a, NEW c \in Nat, NEW d \in Nat, NEW x, NEW S, NEW T, NEW R, NEW W, NEW V, NEW F,
           Matched(a, c, x, S, R, W, V, F), SenderWaits(S, T),
           d > 0 \/ (d = c /\ (T.cancelling => S.cancelling))
    PROVE  Matched(a, d, x, T, R, W, V, F)
<1>1. Held(T) = Held(S) /\ T.last = S.last
  BY DEF SenderWaits, Held
<1>2. Sending(a, T)
  BY <1>1 DEF SenderWaits, Sending, Matched
<1>3. (Level(T, R) <=> Level(S, R)) /\ (Ahead(T, R) <=> Ahead(S, R))
  BY <1>1 DEF Level, Ahead
<1>4. Stance(T, R, F)
  BY <1>1, <1>3 DEF SenderWaits, Stance, Matched
<1>5. OnWire(T, R, W) /\ OnReturn(T, R, V)
  BY <1>1, SameWires DEF Matched
<1>6. Taken(T) = Taken(S) /\ Converted(T) = Converted(S)
  BY DEF SenderWaits, Taken, Converted
<1>7. Reading(T, R)
  BY <1>1, <1>3, <1>6 DEF SenderWaits, Reading, Matched
<1>8. \A had : Got(T, R, F, had) <=> Got(S, R, F, had)
  BY DEF SenderWaits, Got
<1>9. Contents(a, T, R, F)
  BY <1>1, <1>3, <1>6, <1>8 DEF SenderWaits, Contents, Matched
<1>10. Counts(d, T, R, V, F)
  BY <1>1, <1>3 DEF SenderWaits, Counts, Matched
<1> QED
  BY <1>2, <1>4, <1>5, <1>7, <1>9, <1>10 DEF Matched

\* A sender stops over the next packet: the last one was taken.
SenderGivesUp(c, S, T, F) ==
    /\ T \in EndTypes
    /\ T.role = S.role /\ T.last = S.last /\ T.mode = S.mode /\ T.at = S.at
    /\ ~Running(T) /\ T.state = "Finished" /\ T.files <= T.at
    /\ Held(S).kind = "SendInit" => T.files = 0
    /\ LongRoom > 0 => T.size > 0
    /\ c = 0 => ~T.cancelling /\ ~T.discarding /\ T.files <= SavedOf(F)

LEMMA GivingUp ==
    ASSUME NEW a, NEW c \in Nat, NEW x, NEW S, NEW T, NEW R, NEW W, NEW V, NEW F,
           Matched(a, c, x, S, R, W, V, F), Ahead(S, R), SenderGivesUp(c, S, T, F)
    PROVE  Matched(a, c, x, T, R, W, V, F)
<1>1. Held(T) = Held(S) /\ T.last = S.last
  BY DEF SenderGivesUp, Held
<1>2. Sending(a, T)
  BY <1>1 DEF SenderGivesUp, Sending, Matched
<1>3. Ahead(T, R) /\ ~Level(T, R) /\ ~Level(S, R)
  BY <1>1, PacketFields, Neighbours DEF Level, Ahead, Matched, Sending
<1>4. Stance(T, R, F)
  BY <1>1, <1>3 DEF SenderGivesUp, Stance, Matched
<1>5. OnWire(T, R, W) /\ OnReturn(T, R, V)
  BY <1>1, SameWires DEF Matched
<1>6. Reading(T, R)
  BY <1>1, <1>3 DEF SenderGivesUp, Reading
<1>7. Contents(a, T, R, F)
  BY <1>1, <1>3 DEF SenderGivesUp, Contents, Matched
<1>8. Counts(c, T, R, V, F)
  BY <1>1 DEF SenderGivesUp, Counts, Matched
<1> QED
  BY <1>2, <1>4, <1>5, <1>6, <1>7, <1>8 DEF Matched

\* A receiver goes on waiting, with its folder as it was.
ReceiverWaits(R, Q) ==
    /\ Q \in EndTypes
    /\ Q.role = R.role /\ Q.last = R.last /\ Q.seq = R.seq /\ Q.mode = R.mode
    /\ Q.status = R.status /\ Q.state = R.state /\ Q.open = R.open /\ Q.held = R.held

LEMMA WaitingReceiver ==
    ASSUME NEW a, NEW c \in Nat, NEW d \in Nat, NEW x, NEW S, NEW R, NEW Q, NEW W, NEW V, NEW F,
           Matched(a, c, x, S, R, W, V, F), ReceiverWaits(R, Q),
           (d > 0 /\ (R.cancelling => Q.cancelling)) \/ (d = c /\ Q.cancelling = R.cancelling)
    PROVE  Matched(a, d, x, S, Q, W, V, F)
<1>1. Held(Q) = Held(R) /\ Q.last = R.last /\ Q.seq = R.seq /\ (Running(Q) <=> Running(R))
  BY DEF ReceiverWaits, Held, Running
<1>2. Receiving(a, x, Q, F)
  BY <1>1 DEF ReceiverWaits, Receiving, Matched
<1>3. (Level(S, Q) <=> Level(S, R)) /\ (Ahead(S, Q) <=> Ahead(S, R))
  BY <1>1 DEF Level, Ahead
<1>4. Q.cancelling \in BOOLEAN /\ R.cancelling \in BOOLEAN /\ (R.cancelling => Q.cancelling)
  BY EndFields DEF ReceiverWaits, Matched, Receiving
<1>5. Stance(S, Q, F)
  BY <1>1, <1>3, <1>4 DEF ReceiverWaits, Stance, Matched
<1>6. OnWire(S, Q, W) /\ OnReturn(S, Q, V)
  BY <1>1, SameWires DEF Matched
<1>7. Reading(S, Q)
  BY <1>3 DEF Reading, Matched
<1>8. \A had : Got(S, Q, F, had) <=> Got(S, R, F, had)
  BY DEF ReceiverWaits, Got
<1>9. Contents(a, S, Q, F)
  BY <1>1, <1>3, <1>4, <1>8 DEF ReceiverWaits, Contents, Matched
<1>10. Counts(d, S, Q, V, F)
  BY <1>1, <1>3, <1>4 DEF ReceiverWaits, Counts, Matched
<1> QED
  BY <1>2, <1>5, <1>6, <1>7, <1>9, <1>10 DEF Matched

\* A receiver stops: what is open is gone, or is left by a disk that fails.
ReceiverStops(x, y, R, Q, F, E) ==
    /\ Q \in EndTypes
    /\ Q.role = R.role /\ Q.last = R.last /\ Q.seq = R.seq
    /\ ~Running(Q) /\ Q.state = "Finished" /\ ~Q.open
    /\ \/ ~R.open /\ E = F /\ (x => y)
       \/ R.open /\ E = Removed(F)
       \/ /\ R.open /\ y /\ E \in Folders /\ Len(E) = Len(F) /\ E # <<>> /\ ~E[Len(E)].saved
          /\ \A i \in 1 .. Len(F) - 1 : E[i] = F[i]

LEMMA StoppedFolder ==
    ASSUME NEW a, NEW x \in BOOLEAN, NEW y \in BOOLEAN, NEW R, NEW Q, NEW F, NEW E,
           Receiving(a, x, R, F), ReceiverStops(x, y, R, Q, F, E)
    PROVE  Receiving(a, y, Q, E) /\ SavedOf(E) = SavedOf(F)
<1>1. Held(Q) = Held(R)
  BY DEF ReceiverStops, Held
<1>2. F \in Folders /\ Len(F) \in Nat
  BY DEF Receiving, Folders
<1>3. SUFFICES /\ E \in Folders
               /\ \A i \in 1 .. Len(E) - 1 : E[i].saved
               /\ ~y => \A i \in 1 .. Len(E) : E[i].saved
               /\ \A i \in 1 .. Len(E) :
                     E[i].saved => i <= Len(Files) /\ (Roomy => E[i].bytes = Wanted(a, i))
               /\ SavedOf(E) = SavedOf(F)
  BY <1>1 DEF ReceiverStops, Receiving
<1>4. CASE ~R.open /\ E = F /\ (x => y)
  <2>1. ~y => \A i \in 1 .. Len(E) : E[i].saved
    BY <1>4 DEF Receiving
  <2> QED
    BY <1>4, <2>1 DEF Receiving
<1>5. CASE R.open /\ E = Removed(F)
  <2>1. F # <<>> /\ ~F[Len(F)].saved
    BY <1>5 DEF Receiving
  <2>2. E \in Folders /\ Len(E) = Len(F) - 1 /\ \A i \in 1 .. Len(F) - 1 : E[i] = F[i]
    BY <1>2, <1>5, <2>1, FolderRemoved
  <2>3. Len(E) \in Nat
    BY <2>2 DEF Folders
  <2>4. \A i \in 1 .. Len(E) : E[i].saved /\ E[i] = F[i] /\ i \in 1 .. Len(F)
    BY <1>2, <2>2, <2>3 DEF Receiving
  <2>5. SavedOf(E) = Len(E)
    <3>1. E # <<>> => Len(E) \in 1 .. Len(E)
      BY <2>2, <2>3 DEF Folders
    <3> QED
      BY <2>4, <3>1 DEF SavedOf
  <2>6. SavedOf(F) = Len(F) - 1
    BY <2>1 DEF SavedOf
  <2> QED
    BY <2>2, <2>3, <2>4, <2>5, <2>6 DEF Receiving
<1>6. CASE /\ R.open /\ y /\ E \in Folders /\ Len(E) = Len(F) /\ E # <<>> /\ ~E[Len(E)].saved
           /\ \A i \in 1 .. Len(F) - 1 : E[i] = F[i]
  <2>1. F # <<>> /\ ~F[Len(F)].saved
    BY <1>6 DEF Receiving
  <2>2. \A i \in 1 .. Len(E) : i = Len(F) \/ i \in 1 .. Len(F) - 1
    BY <1>2, <1>6
  <2>3. \A i \in 1 .. Len(E) : E[i].saved => E[i] = F[i] /\ F[i].saved /\ i \in 1 .. Len(F)
    BY <1>2, <1>6, <2>2
  <2>4. \A i \in 1 .. Len(E) - 1 : E[i].saved
    BY <1>2, <1>6 DEF Receiving
  <2>5. SavedOf(E) = SavedOf(F)
    BY <1>6, <2>1 DEF SavedOf
  <2> QED
    BY <1>6, <2>3, <2>4, <2>5 DEF Receiving
<1> QED
  BY <1>4, <1>5, <1>6 DEF ReceiverStops

LEMMA StoppingReceiver ==
    ASSUME NEW a, NEW c \in Nat, NEW d \in Nat, NEW x \in BOOLEAN, NEW y \in BOOLEAN,
           NEW S, NEW R, NEW Q, NEW W, NEW V, NEW F, NEW E,
           Matched(a, c, x, S, R, W, V, F), ReceiverStops(x, y, R, Q, F, E),
           d > 0 \/ (d = c /\ (Q.cancelling => R.cancelling))
    PROVE  Matched(a, d, y, S, Q, W, V, E)
<1>1. Held(Q) = Held(R) /\ Q.last = R.last /\ Q.seq = R.seq /\ ~Running(Q) /\ ~Q.open
  BY DEF ReceiverStops, Held
<1>2. Receiving(a, y, Q, E) /\ SavedOf(E) = SavedOf(F)
  BY StoppedFolder DEF Matched
<1>3. (Level(S, Q) <=> Level(S, R)) /\ (Ahead(S, Q) <=> Ahead(S, R))
  BY <1>1 DEF Level, Ahead
<1>4. Stance(S, Q, E)
  BY <1>1, <1>3 DEF Stance, Matched
<1>5. OnWire(S, Q, W) /\ OnReturn(S, Q, V)
  BY <1>1, SameWires DEF Matched
<1>6. Reading(S, Q)
  BY <1>3 DEF Reading, Matched
<1>7. Contents(a, S, Q, E)
  BY <1>1 DEF Contents
<1>8. Counts(d, S, Q, V, E)
  BY <1>1, <1>2, <1>3 DEF Counts, Matched
<1> QED
  BY <1>2, <1>4, <1>5, <1>6, <1>7, <1>8 DEF Matched

-----------------------------------------------------------------------------
(* The sender reads its file.                                               *)

LEMMA AsSentDoes ==
    /\ AsSent(<<>>).out = <<>> /\ ~AsSent(<<>>).afterCr
    /\ \A s \in Texts : AsSent(s).out \in Texts /\ AsSent(s).afterCr \in BOOLEAN
    /\ \A s, t \in Texts, cr \in BOOLEAN : (cr <=> AsSent(s).afterCr) =>
          /\ AsSent(s \o t).out = AsSent(s).out \o ToLine(cr, t).out
          /\ AsSent(s \o t).afterCr = ToLine(cr, t).afterCr
          /\ ToLine(cr, t).out \in Texts /\ ToLine(cr, t).afterCr \in BOOLEAN
          /\ Len(ToLine(cr, t).out) >= Len(t)
<1>1. AsSent(<<>>) = [out |-> <<>>, afterCr |-> FALSE]
  BY ToLineSteps, Zenon DEF AsSent
<1>2. AsSent(<<>>).out = <<>> /\ ~AsSent(<<>>).afterCr
  BY <1>1
<1>3. ASSUME NEW s \in Texts PROVE AsSent(s) \in [out : Texts, afterCr : BOOLEAN]
  <2>1. FALSE \in BOOLEAN
    OBVIOUS
  <2> QED
    BY <2>1, ToLineSteps, Zenon DEF AsSent
<1>4. ASSUME NEW s \in Texts PROVE AsSent(s).out \in Texts /\ AsSent(s).afterCr \in BOOLEAN
  BY <1>3
<1>5. ASSUME NEW s \in Texts, NEW t \in Texts, NEW cr \in BOOLEAN, cr <=> AsSent(s).afterCr
      PROVE  /\ AsSent(s \o t).out = AsSent(s).out \o ToLine(cr, t).out
             /\ AsSent(s \o t).afterCr = ToLine(cr, t).afterCr
             /\ ToLine(cr, t).out \in Texts /\ ToLine(cr, t).afterCr \in BOOLEAN
             /\ Len(ToLine(cr, t).out) >= Len(t)
  <2>1. cr = AsSent(s).afterCr
    BY <1>4, <1>5
  <2>2. AsSent(s \o t) = [out |-> AsSent(s).out \o ToLine(AsSent(s).afterCr, t).out,
                          afterCr |-> ToLine(AsSent(s).afterCr, t).afterCr]
    <3>1. FALSE \in BOOLEAN
      OBVIOUS
    <3> QED
      BY <3>1, ToLineJoins, Zenon DEF AsSent
  <2>3. AsSent(s \o t) = [out |-> AsSent(s).out \o ToLine(cr, t).out,
                          afterCr |-> ToLine(cr, t).afterCr]
    BY <2>1, <2>2, Zenon
  <2>4. ToLine(cr, t) \in [out : Texts, afterCr : BOOLEAN]
    BY ToLineSteps
  <2>5. Len(ToLine(cr, t).out) >= Len(t)
    BY ToLineGrows
  <2> QED
    BY <2>3, <2>4, <2>5
<1> QED
  BY <1>2, <1>4, <1>5

\* A text sent with what follows it.
LEMMA MoreSent ==
    ASSUME NEW s \in Texts, NEW t \in Texts, NEW cr \in BOOLEAN, cr <=> AsSent(s).afterCr
    PROVE  /\ AsSent(s \o t).out = AsSent(s).out \o ToLine(cr, t).out
           /\ AsSent(s \o t).afterCr = ToLine(cr, t).afterCr
BY AsSentDoes

LEMMA AsReadDoes ==
    /\ AsRead(<<>>).out = <<>> /\ ~AsRead(<<>>).held
    /\ \A s \in Texts : AsRead(s).out \in Texts /\ AsRead(s).held \in BOOLEAN
    /\ \A s, t \in Texts, held \in BOOLEAN : (held <=> AsRead(s).held) =>
          /\ AsRead(s \o t).out = AsRead(s).out \o FromLine(held, t).out
          /\ AsRead(s \o t).held = FromLine(held, t).held
          /\ FromLine(held, t).out \in Texts /\ FromLine(held, t).held \in BOOLEAN
<1>1. AsRead(<<>>) = [out |-> <<>>, held |-> FALSE]
  BY FromLineSteps, Zenon DEF AsRead
<1>2. AsRead(<<>>).out = <<>> /\ ~AsRead(<<>>).held
  BY <1>1
<1>3. ASSUME NEW s \in Texts PROVE AsRead(s) \in [out : Texts, held : BOOLEAN]
  <2>1. FALSE \in BOOLEAN
    OBVIOUS
  <2> QED
    BY <2>1, FromLineSteps, Zenon DEF AsRead
<1>4. ASSUME NEW s \in Texts PROVE AsRead(s).out \in Texts /\ AsRead(s).held \in BOOLEAN
  BY <1>3
<1>5. ASSUME NEW s \in Texts, NEW t \in Texts, NEW held \in BOOLEAN, held <=> AsRead(s).held
      PROVE  /\ AsRead(s \o t).out = AsRead(s).out \o FromLine(held, t).out
             /\ AsRead(s \o t).held = FromLine(held, t).held
             /\ FromLine(held, t).out \in Texts /\ FromLine(held, t).held \in BOOLEAN
  <2>1. held = AsRead(s).held
    BY <1>4, <1>5
  <2>2. AsRead(s \o t) = [out |-> AsRead(s).out \o FromLine(AsRead(s).held, t).out,
                          held |-> FromLine(AsRead(s).held, t).held]
    <3>1. FALSE \in BOOLEAN
      OBVIOUS
    <3> QED
      BY <3>1, FromLineJoins, Zenon DEF AsRead
  <2>3. AsRead(s \o t) = [out |-> AsRead(s).out \o FromLine(held, t).out,
                          held |-> FromLine(held, t).held]
    BY <2>1, <2>2, Zenon
  <2>4. FromLine(held, t) \in [out : Texts, held : BOOLEAN]
    BY FromLineSteps
  <2> QED
    BY <2>3, <2>4
<1> QED
  BY <1>2, <1>4, <1>5

\* A text read with what follows it.
LEMMA MoreRead ==
    ASSUME NEW s \in Texts, NEW t \in Texts, NEW held \in BOOLEAN, held <=> AsRead(s).held
    PROVE  /\ AsRead(s \o t).out = AsRead(s).out \o FromLine(held, t).out
           /\ AsRead(s \o t).held = FromLine(held, t).held
BY AsReadDoes

\* The lines of this end, of what was sent and read.
LEMMA LocalIs ==
    ASSUME NEW s \in Texts
    PROVE  LET back == AsRead(AsSent(s).out)
           IN  Local(s) = back.out \o (IF back.held THEN <<"cr">> ELSE <<>>)
BY ThereAndBack, Zenon DEF AsRead, AsSent

\* What two pieces one after the other are of.
LEMMA TwoPieces ==
    ASSUME NEW s \in Texts, NEW n \in 0 .. Len(s), NEW m \in n .. Len(s)
    PROVE  /\ SubSeq(s, 1, n) \in Texts /\ SubSeq(s, n + 1, m) \in Texts
           /\ Len(SubSeq(s, n + 1, m)) = m - n
           /\ SubSeq(s, 1, m) = SubSeq(s, 1, n) \o SubSeq(s, n + 1, m)
<1>1. Len(s) \in Nat
  BY DEF Texts
<1>2. SubSeq(s, 1, n) \in Texts /\ SubSeq(s, n + 1, m) \in Texts /\ SubSeq(s, 1, m) \in Texts
  BY <1>1 DEF Texts
<1>3. /\ Len(SubSeq(s, 1, n)) = n /\ Len(SubSeq(s, n + 1, m)) = m - n
      /\ Len(SubSeq(s, 1, m)) = m
  BY <1>1 DEF Texts
<1> DEFINE left == SubSeq(s, 1, n)
           right == SubSeq(s, n + 1, m)
           both == left \o right
<1>4. both \in Texts /\ Len(both) = m
  BY <1>1, <1>2, <1>3, Joins
<1>5. \A i \in 1 .. m : both[i] = SubSeq(s, 1, m)[i]
  <2> SUFFICES ASSUME NEW i \in 1 .. m PROVE both[i] = SubSeq(s, 1, m)[i]
    OBVIOUS
  <2>1. SubSeq(s, 1, m)[i] = s[i]
    BY <1>1 DEF Texts
  <2>2. CASE i <= n
    <3>1. left[i] = s[i]
      BY <1>1, <2>2 DEF Texts
    <3> HIDE DEF left, right
    <3>2. (left \o right)[i] = left[i]
      BY <1>1, <1>2, <1>3, <2>2 DEF Texts, left, right
    <3> QED
      BY <2>1, <3>1, <3>2
  <2>3. CASE i > n
    <3>1. right[i - n] = s[i]
      BY <1>1, <2>3 DEF Texts
    <3>2. (left \o right)[i] = right[i - n]
      BY <1>1, <1>2, <1>3, <2>3, ConcatProperties DEF Texts
    <3> QED
      BY <2>1, <3>1, <3>2
  <2> QED
    BY <1>1, <2>2, <2>3
<1> HIDE DEF both, left, right
<1>6. both = SubSeq(s, 1, m)
  <2> DEFINE whole == SubSeq(s, 1, m)
  <2>1. whole \in Seq(Bytes) /\ both \in Seq(Bytes) /\ Len(whole) = Len(both)
    BY <1>2, <1>3, <1>4 DEF Texts
  <2>2. \A i \in 1 .. Len(both) : both[i] = whole[i]
    BY <1>4, <1>5
  <2> HIDE DEF whole
  <2>3. both = whole
    BY <2>1, <2>2, SeqEqual
  <2> QED
    BY <2>3 DEF whole
<1> QED
  BY <1>2, <1>3, <1>6 DEF both, left, right

LEMMA CostType ==
    ASSUME NEW s \in Texts
    PROVE  Cost(s) \in Nat /\ Cost(<<>>) = 0
<1>1. ASSUME NEW t \in Texts
      PROVE  Cost(t) \in Nat
  <2> DEFINE odd == {i \in DOMAIN t : t[i] # "x"}
  <2>1. Len(t) \in Nat /\ DOMAIN t = 1 .. Len(t)
    BY DEF Texts
  <2>2. IsFiniteSet(1 .. Len(t))
    BY <2>1, FS_Interval
  <2>3. odd \subseteq 1 .. Len(t)
    BY <2>1
  <2> HIDE DEF odd
  <2>4. Cardinality(odd) \in Nat
    BY <2>2, <2>3, FS_Subset, FS_CardinalityType
  <2> QED
    BY <2>1, <2>4 DEF Cost, odd
<1>2. {i \in DOMAIN <<>> : <<>>[i] # "x"} = {}
  OBVIOUS
<1>3. Cost(<<>>) = 0
  BY <1>2, FS_EmptySet DEF Cost
<1> QED
  BY <1>1, <1>3

\* There is a number of bytes that fits, and no more do.
LEMMA FittingDoes ==
    ASSUME NEW s \in Texts, NEW room \in Nat
    PROVE  /\ Fitting(s, room) \in 0 .. Len(s)
           /\ Cost(SubSeq(s, 1, Fitting(s, room))) <= room
<1> DEFINE Fits(n) == Cost(SubSeq(s, 1, n)) <= room
<1>1. Len(s) \in Nat
  BY DEF Texts
<1>2. \E n \in 0 .. Len(s) : Fits(n) /\ (n = Len(s) \/ Cost(SubSeq(s, 1, n + 1)) > room)
  <2> SUFFICES ASSUME \A n \in 0 .. Len(s) : ~(Fits(n) /\ (n = Len(s) \/ Cost(SubSeq(s, 1, n + 1)) > room))
               PROVE  FALSE
    OBVIOUS
  <2> DEFINE T == {n \in Nat : n <= Len(s) => Fits(n)}
  <2>1. 0 \in T
    <3>1. SubSeq(s, 1, 0) = <<>>
      BY <1>1 DEF Texts
    <3>2. Cost(SubSeq(s, 1, 0)) = Cost(<<>>)
      BY <3>1, Zenon
    <3>3. Cost(<<>>) = 0
      BY CostType
    <3>4. Fits(0)
      BY <3>2, <3>3
    <3> QED
      BY <3>4
  <2>2. ASSUME NEW n \in Nat, n \in T PROVE n + 1 \in T
    <3> SUFFICES ASSUME n + 1 <= Len(s) PROVE Fits(n + 1)
      OBVIOUS
    <3>1. n \in 0 .. Len(s) /\ Fits(n)
      BY <1>1, <2>2
    <3>2. ~(Cost(SubSeq(s, 1, n + 1)) > room)
      BY <3>1
    <3>3. SubSeq(s, 1, n + 1) \in Texts
      BY <1>1 DEF Texts
    <3> QED
      BY <3>2, <3>3, CostType
  <2>3. Nat \subseteq T
    <3> HIDE DEF T
    <3> QED
      BY <2>1, <2>2, NumbersUpTo
  <2>4. Fits(Len(s)) /\ Len(s) \in 0 .. Len(s)
    BY <1>1, <2>3
  <2> QED
    BY <2>4
<1> QED
  BY <1>2 DEF Fitting

\* Another reading of the file, and what of it waits to be sent.
FilledFields(s, room, full) ==
    /\ full \in EndTypes
    /\ full.role = s.role /\ full.status = s.status /\ full.state = s.state /\ full.seq = s.seq
    /\ full.check = s.check /\ full.last = s.last /\ full.out = s.out
    /\ full.cancelling = s.cancelling /\ full.files = s.files /\ full.mode = s.mode
    /\ full.at = s.at /\ full.discarding = s.discarding /\ full.size = s.size
    /\ full.ceiling = s.ceiling /\ full.inFlight = s.inFlight /\ full.retries = s.retries

\* What is known of what was read while a file is going.
ReadRight(s) ==
    /\ s.at \in 1 .. Len(Files)
    /\ s.read <= Len(Files[s.at].bytes)
    /\ s.mode = "text" => (s.afterCr <=> AsSent(Taken(s)).afterCr)
    /\ s.eof => s.read = Len(Files[s.at].bytes)

LEMMA FilledDoes ==
    ASSUME NEW s \in EndTypes, NEW room \in Nat, ReadRight(s)
    PROVE  LET full == Filled(s, room)
           IN  /\ FilledFields(s, room, full) /\ ReadRight(full)
               /\ room > 0 /\ full.pending = <<>> => full.read = Len(Files[s.at].bytes)
               /\ \E added \in Texts :
                     /\ full.pending = s.pending \o added
                     /\ Converted(full) = Converted(s) \o added
<1> DEFINE bytes == Files[s.at].bytes
           n == IF s.eof \/ Len(s.pending) >= room THEN 0
                ELSE Least(room, Len(bytes) - s.read)
           chunk == SubSeq(bytes, s.read + 1, s.read + n)
           line == ToLine(s.afterCr, chunk)
           added == IF s.mode = "text" THEN line.out ELSE chunk
           more == s.pending \o added
           full == Filled(s, room)
<1>1. /\ s.at \in 1 .. Len(Files) /\ bytes \in Texts /\ Len(bytes) \in Nat
      /\ s.read \in 0 .. Len(bytes) /\ s.pending \in Texts /\ Len(s.pending) \in Nat
      /\ s.afterCr \in BOOLEAN /\ s.eof \in BOOLEAN /\ s.mode \in Modes
      /\ s.at \in Nat /\ s.read \in Nat
  BY FileFields, EndFields DEF ReadRight, Texts
<1>2. n \in 0 .. Len(bytes) - s.read /\ s.read + n \in s.read .. Len(bytes) /\ s.read + n \in Nat
      /\ n <= room /\ n \in Nat
  BY <1>1 DEF Least
<1> HIDE DEF n
<1>3. /\ chunk \in Texts /\ Len(chunk) = n
      /\ SubSeq(bytes, 1, s.read) \in Texts
      /\ SubSeq(bytes, 1, s.read + n) = SubSeq(bytes, 1, s.read) \o chunk
  <2> HIDE DEF bytes
  <2>1. /\ SubSeq(bytes, 1, s.read) \in Texts /\ chunk \in Texts
        /\ Len(chunk) = (s.read + n) - s.read
        /\ SubSeq(bytes, 1, s.read + n) = SubSeq(bytes, 1, s.read) \o chunk
    BY <1>1, <1>2, TwoPieces
  <2>2. (s.read + n) - s.read = n
    BY <1>1, <1>2
  <2> HIDE DEF chunk
  <2> QED
    BY <2>1, <2>2
<1>4. Taken(s) = SubSeq(bytes, 1, s.read)
  BY DEF Taken
<1> HIDE DEF bytes, chunk
<1>5. /\ line.out \in Texts /\ line.afterCr \in BOOLEAN
      /\ s.mode = "text" =>
            /\ AsSent(Taken(s) \o chunk).out = AsSent(Taken(s)).out \o line.out
            /\ AsSent(Taken(s) \o chunk).afterCr <=> line.afterCr
      /\ Len(line.out) >= n
  <2>1. line.out \in Texts /\ line.afterCr \in BOOLEAN /\ Len(line.out) >= n
    <3>1. line \in [out : Texts, afterCr : BOOLEAN]
      BY <1>1, <1>3, ToLineSteps
    <3>2. Len(line.out) >= Len(chunk)
      BY <1>1, <1>3, ToLineGrows
    <3> QED
      BY <1>3, <3>1, <3>2
  <2>2. ASSUME s.mode = "text"
        PROVE  /\ AsSent(Taken(s) \o chunk).out = AsSent(Taken(s)).out \o line.out
               /\ AsSent(Taken(s) \o chunk).afterCr <=> line.afterCr
    <3>1. s.afterCr <=> AsSent(Taken(s)).afterCr
      BY <2>2 DEF ReadRight
    <3>2. Taken(s) \in Texts
      BY <1>3, <1>4
    <3>3. s.afterCr \in BOOLEAN /\ chunk \in Texts
      BY <1>1, <1>3
    <3>4. /\ AsSent(Taken(s) \o chunk).out = AsSent(Taken(s)).out \o ToLine(s.afterCr, chunk).out
          /\ AsSent(Taken(s) \o chunk).afterCr = ToLine(s.afterCr, chunk).afterCr
      <4> DEFINE was == Taken(s)
                 cr == s.afterCr
      <4>1. was \in Texts /\ cr \in BOOLEAN /\ chunk \in Texts /\ (cr <=> AsSent(was).afterCr)
        BY <3>1, <3>2, <3>3
      <4> HIDE DEF was, cr, chunk
      <4>2. /\ AsSent(was \o chunk).out = AsSent(was).out \o ToLine(cr, chunk).out
            /\ AsSent(was \o chunk).afterCr = ToLine(cr, chunk).afterCr
        BY <4>1, MoreSent
      <4> QED
        BY <4>2 DEF was, cr
    <3> QED
      BY <3>4
  <2> QED
    BY <2>1, <2>2
<1> HIDE DEF line
<1>6. added \in Texts /\ Len(added) >= n /\ Len(added) \in Nat
  <2>1. added = line.out \/ added = chunk
    OBVIOUS
  <2> HIDE DEF added
  <2> QED
    BY <1>2, <1>3, <1>5, <2>1, Joins
<1> HIDE DEF added
<1>7. more \in Texts /\ Len(more) = Len(s.pending) + Len(added)
  BY <1>1, <1>6, Joins
<1> DEFINE eof == s.eof \/ Len(more) < room
<1>8. full = [s EXCEPT !.read = @ + n, !.pending = more,
                       !.afterCr = IF s.mode = "text" THEN line.afterCr ELSE @,
                       !.eof = eof]
  BY DEF Filled, n, bytes, chunk, line, added
<1>9. eof \in BOOLEAN /\ (eof => s.read + n = Len(bytes))
  <2>1. CASE s.eof
    BY <1>1, <1>2, <2>1 DEF ReadRight, bytes, n
  <2>2. CASE ~s.eof /\ Len(more) < room
    <3>1. Len(s.pending) < room /\ n < room
      BY <1>1, <1>2, <1>6, <1>7, <2>2
    <3>2. n = Least(room, Len(bytes) - s.read)
      BY <1>1, <2>2, <3>1 DEF n
    <3> QED
      BY <1>1, <3>1, <3>2 DEF Least
  <2>3. eof \in BOOLEAN
    BY <1>1
  <2> QED
    BY <2>1, <2>2, <2>3
<1> HIDE DEF more, eof, full
<1>10. /\ full.read = s.read + n /\ full.pending = more /\ full.at = s.at /\ full.mode = s.mode
       /\ full.afterCr = (IF s.mode = "text" THEN line.afterCr ELSE s.afterCr)
       /\ full.eof = eof
  BY <1>8 DEF EndTypes
<1>11. FilledFields(s, room, full)
  <2>1. (IF s.mode = "text" THEN line.afterCr ELSE s.afterCr) \in BOOLEAN
    BY <1>1, <1>5
  <2>2. full \in EndTypes
    BY <1>2, <1>7, <1>8, <1>9, <2>1, ZenonT(60) DEF EndTypes
  <2> QED
    BY <1>8, <2>2 DEF EndTypes, FilledFields
<1>12. Taken(full) = Taken(s) \o chunk
  BY <1>3, <1>4, <1>10 DEF Taken, bytes
<1>13. ReadRight(full)
  <2>1. full.mode = "text" => (full.afterCr <=> AsSent(Taken(full)).afterCr)
    BY <1>5, <1>10, <1>12
  <2>2. full.eof => full.read = Len(Files[full.at].bytes)
    BY <1>9, <1>10 DEF bytes
  <2>3. full.read <= Len(Files[full.at].bytes)
    BY <1>1, <1>2, <1>10 DEF bytes
  <2> QED
    BY <1>1, <1>10, <2>1, <2>2, <2>3 DEF ReadRight
<1>14. room > 0 /\ full.pending = <<>> => full.read = Len(Files[s.at].bytes)
  BY <1>7, <1>9, <1>10 DEF eof, bytes
<1>15. Converted(full) = Converted(s) \o added
  BY <1>5, <1>10, <1>12 DEF Converted, added
<1>16. full.pending = s.pending \o added
  BY <1>10 DEF more
<1> QED
  BY <1>6, <1>11, <1>13, <1>14, <1>15, <1>16 DEF full

\* A sender goes on to a packet of its file, or stops over it.
DataSent(s, T) ==
    /\ T \in EndTypes /\ T.role = s.role /\ T.status = s.status /\ T.seq = s.seq
    /\ T.mode = s.mode /\ T.at = s.at /\ T.files = s.files /\ T.cancelling = s.cancelling
    /\ T.discarding = s.discarding /\ T.ceiling = s.ceiling /\ T.retries = 0
    /\ LongRoom > 0 => T.size > 0
    /\ T.last = <<Held(T)>> /\ T.out = <<Held(T)>> /\ Held(T) \in Packets /\ T.state = Held(T).kind
    /\ Held(T).kind \in {"Data", "EndOfFile"} /\ Held(T).seq = s.seq /\ Held(T).flag = "none"
    /\ Held(T).kind = "EndOfFile" => Held(T).data = <<>>
    /\ ReadRight(T)
    /\ Roomy /\ Held(T).kind = "EndOfFile" =>
          T.pending = <<>> /\ T.read = Len(Files[T.at].bytes)
    /\ \E added \in Texts :
          /\ Held(T).data \o T.pending = s.pending \o added
          /\ Converted(T) = Converted(s) \o added
    /\ agreement.long /\ T.state = "Data" => T.inFlight <= Least(LongRoom, T.ceiling)

SendingFailed(s, T) ==
    /\ T \in EndTypes /\ T.role = s.role /\ T.last = s.last /\ T.mode = s.mode /\ T.at = s.at
    /\ T.files = s.files /\ T.cancelling = s.cancelling /\ T.discarding = s.discarding
    /\ T.status \in {"Failed", "BothSending"} /\ T.state = "Finished" /\ T.ceiling = s.ceiling
    /\ T.retries = s.retries
    /\ LongRoom > 0 /\ s.size > 0 => T.size > 0
    /\ T.out = <<T.out[1]>> /\ T.out[1] \in Packets /\ T.out[1].kind = "Error"

LEMMA SendingFails ==
    ASSUME NEW s \in EndTypes, NEW why \in {"Failed", "BothSending"}
    PROVE  SendingFailed(s, Fails(s, why))
<1> DEFINE p == Packet(s, s.seq, "Error", "none", <<>>)
           T == Fails(s, why)
<1>1. /\ T \in EndTypes /\ p \in Packets /\ p.kind = "Error" /\ T.out = <<p>>
      /\ T = [s EXCEPT !.out = <<p>>, !.state = "Finished", !.status = why]
  BY FailsDoes
<1> HIDE DEF p, T
<1>2. /\ T.role = s.role /\ T.last = s.last /\ T.mode = s.mode /\ T.at = s.at
      /\ T.files = s.files /\ T.cancelling = s.cancelling /\ T.discarding = s.discarding
      /\ T.status = why /\ T.state = "Finished" /\ T.ceiling = s.ceiling /\ T.size = s.size
      /\ T.retries = s.retries
  BY <1>1 DEF EndTypes
<1>3. T.out[1] = p
  BY <1>1
<1> QED
  BY <1>1, <1>2, <1>3 DEF SendingFailed, T

\* What a packet that moves a sender on leaves of it.
Moved(s, T, kind, flag, data) ==
    /\ T \in EndTypes /\ T.last = <<Held(T)>> /\ T.out = <<Held(T)>> /\ Held(T) \in Packets
    /\ Held(T).seq = s.seq /\ Held(T).kind = kind /\ Held(T).flag = flag /\ Held(T).data = data
    /\ T.state = kind /\ T.role = s.role /\ T.status = s.status /\ T.seq = s.seq
    /\ T.mode = s.mode /\ T.at = s.at /\ T.files = s.files /\ T.cancelling = s.cancelling
    /\ T.discarding = s.discarding /\ T.ceiling = s.ceiling /\ T.size = s.size
    /\ T.read = s.read /\ T.pending = s.pending /\ T.afterCr = s.afterCr /\ T.eof = s.eof
    /\ T.inFlight = s.inFlight /\ T.retries = 0

LEMMA MovesDoes ==
    ASSUME NEW s \in EndTypes, NEW kind \in SenderKinds, NEW flag \in Flags, NEW data \in Texts
    PROVE  Moved(s, Moves(s, kind, flag, data), kind, flag, data)
<1> DEFINE p == Packet(s, s.seq, kind, flag, data)
           T == Moves(s, kind, flag, data)
<1>1. s.seq \in Numbers /\ kind \in Kinds /\ s.check \in {"one", "three"}
  BY EndFields DEF Kinds
<1>2. p \in Packets /\ p.seq = s.seq /\ p.kind = kind /\ p.flag = flag /\ p.data = data
  BY <1>1 DEF Packet, Packets
<1>3. T = [s EXCEPT !.last = <<p>>, !.retries = 0, !.out = <<p>>, !.state = kind]
  BY DEF Moves, Sends, EndTypes
<1> HIDE DEF p, T
<1>4. <<p>> \in AtMostOne
  BY <1>2 DEF AtMostOne
<1>5. T \in EndTypes /\ T.last = <<p>> /\ T.out = <<p>>
  BY <1>3, <1>4 DEF EndTypes
<1>6. Held(T) = p
  BY <1>5 DEF Held
<1> QED
  BY <1>2, <1>3, <1>5, <1>6 DEF EndTypes, Moved, T

LEMMA SendDataDoes ==
    ASSUME NEW s \in EndTypes, NEW fault, ReadRight(s), LongRoom > 0 => s.size > 0
    PROVE  SendingFailed(s, SendData(s, fault)) \/ DataSent(s, SendData(s, fault))
<1> DEFINE room == IF agreement.long THEN Least(Least(LongRoom, s.size), s.ceiling) ELSE ShortRoom
           t == [s EXCEPT !.size = IF agreement.long THEN Grown(s) ELSE @]
           full == Filled(t, room)
           used == Fitting(full.pending, room)
           data == SubSeq(full.pending, 1, used)
           rest == SubSeq(full.pending, used + 1, Len(full.pending))
           u == [full EXCEPT !.pending = rest, !.inFlight = Cost(data)]
<1>1. /\ s.size \in Nat /\ s.ceiling \in Nat \ {0} /\ s.at \in Nat /\ s.read \in Nat
      /\ s.pending \in Texts
  BY EndFields
<1>2. /\ room \in Nat /\ (Roomy => room > 0)
      /\ agreement.long => room <= Least(LongRoom, s.ceiling)
      /\ Grown(s) \in Nat /\ (LongRoom > 0 => Grown(s) > 0)
  BY <1>1, NumbersAssumption DEF Least, Grown, Roomy
<1>3. /\ t \in EndTypes /\ (LongRoom > 0 => t.size > 0)
      /\ t.role = s.role /\ t.status = s.status /\ t.seq = s.seq /\ t.last = s.last
      /\ t.mode = s.mode /\ t.at = s.at /\ t.files = s.files /\ t.cancelling = s.cancelling
      /\ t.discarding = s.discarding /\ t.ceiling = s.ceiling /\ t.read = s.read
      /\ t.pending = s.pending /\ t.afterCr = s.afterCr /\ t.eof = s.eof
      /\ t.retries = s.retries
  <2>1. (IF agreement.long THEN Grown(s) ELSE s.size) \in Nat
    BY <1>1, <1>2
  <2>2. LongRoom > 0 => (IF agreement.long THEN Grown(s) ELSE s.size) > 0
    BY <1>2
  <2> HIDE DEF room
  <2> QED
    BY <2>1, <2>2 DEF EndTypes
<1> HIDE DEF room, t
<1>4. Taken(t) = Taken(s) /\ Converted(t) = Converted(s)
  BY <1>3 DEF Taken, Converted
<1>5. ReadRight(t)
  BY <1>3, <1>4 DEF ReadRight
<1>6. /\ FilledFields(t, room, full) /\ ReadRight(full)
      /\ room > 0 /\ full.pending = <<>> => full.read = Len(Files[t.at].bytes)
      /\ \E added \in Texts :
            /\ full.pending = t.pending \o added
            /\ Converted(full) = Converted(t) \o added
  BY <1>2, <1>3, <1>5, FilledDoes
<1>7. SendData(s, fault) =
        IF fault = "read" /\ ~s.eof /\ Len(s.pending) < room THEN Fails(s, "Failed")
        ELSE IF full.pending = <<>> THEN Moves(full, "EndOfFile", "none", <<>>)
        ELSE IF used = 0 THEN Fails(full, "Failed")
        ELSE Moves(u, "Data", "none", data)
  BY DEF SendData, room, t
<1> HIDE DEF full
<1>8. full \in EndTypes /\ full.pending \in Texts
  BY <1>6, EndFields DEF FilledFields
<1>9. CASE fault = "read" /\ ~s.eof /\ Len(s.pending) < room
  BY <1>7, <1>9, SendingFails
<1>10. CASE /\ ~(fault = "read" /\ ~s.eof /\ Len(s.pending) < room)
            /\ full.pending = <<>>
  <2> DEFINE T == Moves(full, "EndOfFile", "none", <<>>)
  <2>1. Moved(full, T, "EndOfFile", "none", <<>>)
    BY <1>8, MovesDoes, TextTypes DEF SenderKinds, Flags
  <2>2. SendData(s, fault) = T
    BY <1>7, <1>10
  <2> HIDE DEF T
  <2>3. /\ T.role = full.role /\ T.status = full.status /\ T.seq = full.seq /\ T.mode = full.mode
        /\ T.at = full.at /\ T.files = full.files /\ T.cancelling = full.cancelling
        /\ T.discarding = full.discarding /\ T.ceiling = full.ceiling /\ T.size = full.size
        /\ T.state = "EndOfFile" /\ T.read = full.read /\ T.pending = full.pending
        /\ T.afterCr = full.afterCr /\ T.eof = full.eof /\ Held(T).data = <<>>
    BY <2>1 DEF Moved
  <2>4. Taken(T) = Taken(full) /\ Converted(T) = Converted(full)
    BY <2>3 DEF Taken, Converted
  <2>5. ReadRight(T)
    BY <1>6, <2>3, <2>4 DEF ReadRight
  <2>6. \E added \in Texts : /\ Held(T).data \o T.pending = s.pending \o added
                             /\ Converted(T) = Converted(s) \o added
    <3>1. <<>> \o full.pending = full.pending
      BY <1>8, Joins
    <3> QED
      <4>1. PICK added \in Texts : full.pending = t.pending \o added
                                   /\ Converted(full) = Converted(t) \o added
        BY <1>6
      <4> QED
        BY <1>3, <1>4, <2>3, <2>4, <3>1, <4>1
  <2>7. DataSent(s, T)
    BY <1>2, <1>3, <1>6, <1>10, <2>1, <2>3, <2>5, <2>6, ZenonT(60) DEF DataSent, FilledFields, Moved
  <2> QED
    BY <2>2, <2>7
<1>11. CASE /\ ~(fault = "read" /\ ~s.eof /\ Len(s.pending) < room)
            /\ full.pending # <<>> /\ used = 0
  <2>1. SendingFailed(full, Fails(full, "Failed"))
    BY <1>8, SendingFails
  <2>2. SendData(s, fault) = Fails(full, "Failed")
    BY <1>7, <1>11
  <2> QED
    BY <1>3, <1>6, <2>1, <2>2 DEF SendingFailed, FilledFields
<1>12. CASE /\ ~(fault = "read" /\ ~s.eof /\ Len(s.pending) < room)
            /\ full.pending # <<>> /\ used # 0
  <2>1. Len(full.pending) \in Nat /\ used \in 0 .. Len(full.pending) /\ Cost(data) <= room
    BY <1>2, <1>8, FittingDoes, Joins
  <2> HIDE DEF used
  <2>2. /\ data \in Texts /\ rest \in Texts /\ data \o rest = full.pending
    <3>1. /\ data \in Texts /\ rest \in Texts
          /\ SubSeq(full.pending, 1, Len(full.pending)) = data \o rest
      <4> DEFINE l == Len(full.pending)
      <4>1. l \in used .. l /\ l \in Nat
        BY <2>1
      <4>2. SubSeq(full.pending, 1, l) = SubSeq(full.pending, 1, used) \o SubSeq(full.pending, used + 1, l)
            /\ SubSeq(full.pending, 1, used) \in Texts /\ SubSeq(full.pending, used + 1, l) \in Texts
        BY <1>8, <2>1, <4>1, TwoPieces
      <4> QED
        BY <4>2
    <3>2. SubSeq(full.pending, 1, Len(full.pending)) = full.pending
      BY <1>8, <2>1 DEF Texts
    <3> QED
      BY <3>1, <3>2
  <2>3. Cost(data) \in Nat
    BY <2>2, CostType
  <2> HIDE DEF data, rest
  <2>4. /\ u \in EndTypes /\ u.role = full.role /\ u.status = full.status /\ u.seq = full.seq
        /\ u.mode = full.mode /\ u.at = full.at /\ u.files = full.files
        /\ u.cancelling = full.cancelling /\ u.discarding = full.discarding
        /\ u.ceiling = full.ceiling /\ u.size = full.size /\ u.read = full.read
        /\ u.pending = rest /\ u.afterCr = full.afterCr /\ u.eof = full.eof
        /\ u.inFlight = Cost(data)
    BY <1>8, <2>2, <2>3 DEF EndTypes
  <2> HIDE DEF u
  <2> DEFINE T == Moves(u, "Data", "none", data)
  <2>5. Moved(u, T, "Data", "none", data)
    BY <2>2, <2>4, MovesDoes DEF SenderKinds, Flags
  <2>6. SendData(s, fault) = T
    BY <1>7, <1>12 DEF u
  <2> HIDE DEF T
  <2>7. /\ T.role = full.role /\ T.status = full.status /\ T.seq = full.seq /\ T.mode = full.mode
        /\ T.at = full.at /\ T.files = full.files /\ T.cancelling = full.cancelling
        /\ T.discarding = full.discarding /\ T.ceiling = full.ceiling /\ T.size = full.size
        /\ T.state = "Data" /\ T.read = full.read /\ T.pending = rest
        /\ T.afterCr = full.afterCr /\ T.eof = full.eof /\ T.inFlight = Cost(data)
        /\ Held(T).data = data
    BY <2>4, <2>5 DEF Moved
  <2>8. Taken(T) = Taken(full) /\ Converted(T) = Converted(full)
    BY <2>7 DEF Taken, Converted
  <2>9. ReadRight(T)
    BY <1>6, <2>7, <2>8 DEF ReadRight
  <2>10. \E added \in Texts : /\ Held(T).data \o T.pending = s.pending \o added
                              /\ Converted(T) = Converted(s) \o added
    <3>1. PICK added \in Texts : full.pending = t.pending \o added
                                 /\ Converted(full) = Converted(t) \o added
      BY <1>6
    <3> QED
      BY <1>3, <1>4, <2>2, <2>7, <2>8, <3>1
  <2>11. T.inFlight \in Nat /\ (agreement.long => T.inFlight <= Least(LongRoom, T.ceiling))
    <3>1. T.ceiling = s.ceiling
      BY <1>3, <1>6, <2>7 DEF FilledFields
    <3>2. Least(LongRoom, s.ceiling) \in Nat
      BY <1>1, NumbersAssumption DEF Least
    <3> QED
      <4> HIDE DEF room, data
      <4>1. room \in Nat /\ Cost(data) <= room /\ T.inFlight = Cost(data)
        BY <1>2, <2>1, <2>7 DEF data
      <4>2. agreement.long => room <= Least(LongRoom, s.ceiling)
        BY <1>2
      <4> QED
        BY <2>3, <3>1, <3>2, <4>1, <4>2
  <2>12. /\ T \in EndTypes /\ T.role = s.role /\ T.status = s.status /\ T.seq = s.seq
         /\ T.mode = s.mode /\ T.at = s.at /\ T.files = s.files /\ T.cancelling = s.cancelling
         /\ T.discarding = s.discarding /\ T.ceiling = s.ceiling
         /\ LongRoom > 0 => T.size > 0
    BY <1>3, <1>6, <2>5, <2>7 DEF FilledFields, Moved
  <2>13. /\ T.retries = 0 /\ T.last = <<Held(T)>> /\ T.out = <<Held(T)>> /\ Held(T) \in Packets
         /\ T.state = Held(T).kind /\ Held(T).kind = "Data" /\ Held(T).seq = s.seq
         /\ Held(T).flag = "none"
    BY <2>4, <2>5, <2>7, <2>12 DEF Moved
  <2>14. DataSent(s, T)
    BY <2>9, <2>10, <2>11, <2>12, <2>13 DEF DataSent
  <2> QED
    BY <2>6, <2>14
<1> QED
  BY <1>9, <1>10, <1>11, <1>12

-----------------------------------------------------------------------------
(* The sender is answered.                                                  *)

\* It goes on to the next file, or says that there are no more.
NameSent(s, T) ==
    /\ T \in EndTypes /\ T.role = s.role /\ T.status = s.status /\ T.seq = s.seq
    /\ T.files = s.files /\ T.cancelling = s.cancelling /\ T.discarding = s.discarding
    /\ T.ceiling = s.ceiling /\ T.size = s.size /\ T.retries = 0
    /\ T.last = <<Held(T)>> /\ T.out = <<Held(T)>> /\ Held(T) \in Packets /\ T.state = Held(T).kind
    /\ Held(T).kind \in {"File", "Break"} /\ Held(T).seq = s.seq
    /\ Held(T).flag = "none" /\ Held(T).data = <<>>
    /\ Held(T).kind = "File" =>
          s.at < Len(Files) /\ T.at = s.at + 1 /\ T.mode = ModeUnder(agreement, T.at)
    /\ Held(T).kind = "Break" => T.at = s.at /\ (s.cancelling \/ s.at = Len(Files))

LEMMA BreakDoes ==
    ASSUME NEW s \in EndTypes, s.cancelling \/ s.at = Len(Files)
    PROVE  NameSent(s, Moves(s, "Break", "none", <<>>))
<1> DEFINE T == Moves(s, "Break", "none", <<>>)
<1>1. Moved(s, T, "Break", "none", <<>>)
  BY MovesDoes, TextTypes DEF SenderKinds, Flags
<1> HIDE DEF T
<1>2. NameSent(s, T)
  BY <1>1 DEF Moved, NameSent
<1> QED
  BY <1>2 DEF T

LEMMA NextFileDoes ==
    ASSUME NEW s \in EndTypes, NEW fault, agreement \in Agreements, s.at <= Len(Files)
    PROVE  SendingFailed(s, NextFile(s, fault)) \/ NameSent(s, NextFile(s, fault))
<1> DEFINE mode == ModeUnder(agreement, s.at + 1)
           u == [s EXCEPT !.at = @ + 1, !.mode = mode]
           T == Moves(u, "File", "none", <<>>)
<1>1. s.at \in Nat /\ Len(Files) \in Nat
  BY EndFields, NumberOfFiles
<1>2. CASE fault = "open"
  BY <1>2, SendingFails DEF NextFile
<1>3. CASE fault # "open" /\ s.at = Len(Files)
  BY <1>3, BreakDoes DEF NextFile
<1>4. CASE fault # "open" /\ s.at # Len(Files)
  <2>1. s.at + 1 \in 1 .. Len(Files)
    BY <1>1, <1>4
  <2>2. mode \in Modes
    BY <2>1, ModeUnderType
  <2>3. NextFile(s, fault) = T
    BY <1>4 DEF NextFile, ModeUnder
  <2> HIDE DEF mode
  <2>4. /\ u \in EndTypes /\ u.role = s.role /\ u.status = s.status /\ u.seq = s.seq
        /\ u.files = s.files /\ u.cancelling = s.cancelling /\ u.discarding = s.discarding
        /\ u.ceiling = s.ceiling /\ u.size = s.size /\ u.at = s.at + 1 /\ u.mode = mode
    <3>1. s.at + 1 \in Nat
      BY <1>1
    <3>2. u = [s EXCEPT !.at = s.at + 1, !.mode = mode]
      OBVIOUS
    <3> HIDE DEF u
    <3> QED
      BY <2>2, <3>1, <3>2 DEF EndTypes
  <2> HIDE DEF u
  <2>5. Moved(u, T, "File", "none", <<>>)
    BY <2>4, MovesDoes, TextTypes DEF SenderKinds, Flags
  <2> HIDE DEF T
  <2>6. NameSent(s, T)
    BY <1>1, <2>1, <2>4, <2>5 DEF Moved, NameSent, mode
  <2> QED
    BY <2>3, <2>6
<1> QED
  BY <1>2, <1>3, <1>4

\* What the next packet has to be for the two ends still to match.
LEMMA Moving ==
    ASSUME NEW a, NEW c \in Nat, NEW x, NEW S, NEW T, NEW R, NEW W, NEW V, NEW F,
           Matched(a, c, x, S, R, W, V, F), Running(S), Ahead(S, R), V # <<>>, NewWord(S, V[1]),
           Sending(a, T), Running(T), T.out = <<Held(T)>>,
           Held(S).kind # "Break", Held(T).kind # "SendInit",
           Held(T).seq = NextSeq(Held(S).seq),
           After(Held(S).kind) = Before(Held(T).kind),
           T.at = IF Held(T).kind = "File" THEN S.at + 1 ELSE S.at,
           Reading(T, R), Contents(a, T, R, F), Counts(c, T, R, V, F)
    PROVE  Matched(a, c, x, T, R, W \o T.out, Tail(V), F)
<1>1. Held(S) \in Packets /\ Held(T) \in Packets
  BY DEF Matched, Sending
<1>2. Level(T, R) /\ ~Ahead(T, R)
  BY <1>1, PacketFields, Neighbours DEF Level, Ahead
<1>3. ~Level(S, R)
  BY <1>1, PacketFields, Neighbours DEF Level, Ahead
<1>4. S.at \in Nat
  BY EndFields DEF Matched, Sending
<1>5. Stance(T, R, F)
  BY <1>2, <1>3, <1>4 DEF Stance, Matched
<1>6. OnWire(T, R, W)
  BY <1>1, <1>2, WireMoves DEF Matched
<1>7. OnWire(T, R, W \o T.out)
  <2>1. W \in Seq(Packets)
    BY DEF Matched, OnWire
  <2>2. W \o T.out = Append(W, Held(T))
    BY <1>1, <2>1, OneMore
  <2> QED
    BY <1>1, <1>6, <2>2, WireMore
<1>8. OnReturn(T, R, Tail(V))
  BY <1>1, ReturnMoves DEF Matched
<1>9. Counts(c, T, R, Tail(V), F)
  <2>1. V \in Seq(Packets)
    BY DEF Matched, OnReturn
  <2>2. \A i \in 1 .. Len(Tail(V)) : Tail(V)[i] = V[i + 1] /\ i + 1 \in 1 .. Len(V)
    BY <2>1, OneLess
  <2> QED
    BY <2>2 DEF Counts
<1> QED
  BY <1>5, <1>7, <1>8, <1>9 DEF Matched

\* The name of the next file, or that there is none, after a file or at the start.
LEMMA NameGoes ==
    ASSUME NEW c \in Nat, NEW x, NEW S, NEW T, NEW R, NEW W, NEW V, NEW F, NEW s,
           Matched(agreement, c, x, S, R, W, V, F), Running(S), Ahead(S, R),
           V # <<>>, NewWord(S, V[1]),
           Held(S).kind \in {"SendInit", "EndOfFile"},
           NameSent(s, T), s.role = S.role, s.status = S.status, s.at = S.at,
           s.seq = NextSeq(Held(S).seq), s.files \in Nat, s.files <= S.at,
           LongRoom > 0 => s.size > 0,
           c = 0 => /\ ~s.cancelling /\ ~s.discarding
                    /\ s.files = S.files + IF Held(S).kind = "EndOfFile" THEN 1 ELSE 0
    PROVE  Matched(agreement, c, x, T, R, W \o T.out, Tail(V), F)
<1>1. /\ S \in EndTypes /\ S.at \in Nat /\ S.files \in Nat /\ Len(Files) \in Nat
      /\ S.role = "send" /\ S.at <= Len(Files)
      /\ Held(S).kind = "SendInit" => S.at = 0 /\ S.files = 0
  BY EndFields, NumberOfFiles DEF Matched, Sending
<1>2. /\ Held(S) \in Packets /\ Held(T) \in Packets /\ T.at \in Nat /\ T \in EndTypes
      /\ T.files \in Nat
  BY EndFields DEF Matched, Sending, NameSent
<1>3. Level(T, R) /\ ~Ahead(T, R)
  <2>1. Held(T).seq = NextSeq(Held(S).seq) /\ Held(T).seq \in Numbers
    BY <1>2, PacketFields DEF NameSent
  <2> QED
    BY <2>1, Neighbours DEF Level, Ahead
<1>4. Running(T) /\ Held(T).kind \in {"File", "Break"} /\ T.out = <<Held(T)>>
      /\ Held(T).seq = NextSeq(Held(S).seq)
  BY DEF NameSent, Running
<1>5. T.at = IF Held(T).kind = "File" THEN S.at + 1 ELSE S.at
  BY DEF NameSent
<1>6. Sending(agreement, T)
  <2>1. /\ T.role = "send" /\ T.last = <<Held(T)>> /\ Held(T).kind \in SenderKinds
        /\ T.state = Held(T).kind /\ T.seq = Held(T).seq
        /\ Held(T).flag = "none" /\ Held(T).data = <<>>
    BY <1>1 DEF NameSent, SenderKinds
  <2>2. T.at <= Len(Files) /\ T.files <= T.at
    BY <1>1, <1>2, <1>4, <1>5 DEF NameSent
  <2>3. Held(T).kind = "File" =>
            /\ T.at \in 1 .. Len(Files) /\ T.mode = ModeUnder(agreement, T.at)
            /\ T.files < T.at
    BY <1>1, <1>2, <1>5 DEF NameSent
  <2>4. LongRoom > 0 => T.size > 0
    BY DEF NameSent
  <2> QED
    BY <1>2, <1>4, <2>1, <2>2, <2>3, <2>4 DEF Sending, InFile
<1>7. Reading(T, R)
  BY <1>4 DEF Reading, Going
<1>8. Contents(agreement, T, R, F)
  <2>1. R.open => Running(R) /\ R.state = "Data"
    BY DEF Matched, Receiving
  <2>2. ~R.open
    BY <2>1, <1>3, PacketFields, Neighbours DEF Matched, Stance, After
  <2> QED
    BY <2>2 DEF Contents
<1>9. Counts(c, T, R, V, F)
  <2> SUFFICES ASSUME c = 0
               PROVE  /\ ~T.cancelling /\ ~T.discarding /\ ~R.cancelling /\ Held(T).flag # "D"
                      /\ R.last # <<>> => Held(R).flag # "Z"
                      /\ \A i \in 1 .. Len(V) : V[i].flag # "Z"
                      /\ T.files <= SavedOf(F)
                      /\ Held(T).kind = "Break" => SavedOf(F) = Len(Files)
                      /\ Held(T).kind \in InFile => T.files = T.at - 1
                      /\ Held(T).kind = "Break" => T.files = Len(Files)
                      /\ SavedOf(F) = T.files
    BY <1>2, <1>3 DEF Counts
  <2>1. /\ ~R.cancelling /\ (R.last # <<>> => Held(R).flag # "Z")
        /\ \A i \in 1 .. Len(V) : V[i].flag # "Z"
        /\ SavedOf(F) = S.files + IF Held(S).kind = "EndOfFile" THEN 1 ELSE 0
        /\ Held(S).kind = "EndOfFile" => S.files = S.at - 1
    BY DEF Matched, Counts, InFile
  <2>2. ~T.cancelling /\ ~T.discarding /\ Held(T).flag # "D" /\ ~s.cancelling
    BY DEF NameSent
  <2>3. T.files = S.files + IF Held(S).kind = "EndOfFile" THEN 1 ELSE 0
    BY DEF NameSent
  <2>4. T.files = S.at
    BY <1>1, <2>1, <2>3
  <2>5. Held(T).kind = "Break" => S.at = Len(Files)
    BY <2>2 DEF NameSent
  <2>6. Held(T).kind \in InFile => T.at = S.at + 1
    BY <1>4, <1>5 DEF InFile
  <2> QED
    BY <1>1, <2>1, <2>2, <2>3, <2>4, <2>5, <2>6
<1> QED
  <2>1. After(Held(S).kind) = Before(Held(T).kind) /\ Held(S).kind # "Break"
    BY <1>4 DEF After, Before, Going
  <2> QED
    BY <1>4, <1>5, <1>6, <1>7, <1>8, <1>9, <2>1, Moving

\* The next packet of a file.
PieceSent(S, T) ==
    /\ T \in EndTypes /\ T.role = S.role /\ T.status = S.status /\ T.seq = NextSeq(Held(S).seq)
    /\ T.mode = S.mode /\ T.at = S.at /\ T.files = S.files
    /\ LongRoom > 0 => T.size > 0
    /\ T.last = <<Held(T)>> /\ T.out = <<Held(T)>> /\ Held(T) \in Packets /\ T.state = Held(T).kind
    /\ Held(T).kind \in Going /\ Held(T).seq = T.seq
    /\ Held(T).kind = "Attributes" => Held(T).flag = T.mode
    /\ Held(T).kind = "Data" => Held(T).flag = "none"
    /\ Held(T).kind = "EndOfFile" => Held(T).flag \in {"none", "D"}
    /\ Held(T).kind # "Data" => Held(T).data = <<>>
    /\ ReadRight(T)
    /\ Roomy /\ Held(T).kind = "EndOfFile" /\ Held(T).flag = "none" =>
          T.pending = <<>> /\ T.read = Len(Files[T.at].bytes)

LEMMA PieceGoes ==
    ASSUME NEW c \in Nat, NEW x, NEW S, NEW T, NEW R, NEW W, NEW V, NEW F,
           Matched(agreement, c, x, S, R, W, V, F), Running(S), Ahead(S, R),
           V # <<>>, NewWord(S, V[1]),
           Held(S).kind \in {"File", "Attributes", "Data"}, PieceSent(S, T),
           c = 0 => ~T.cancelling /\ ~T.discarding /\ Held(T).flag # "D",
           R.open /\ ~R.cancelling =>
               /\ Held(T).kind # "Attributes" => R.mode = S.mode
               /\ Held(T).flag # "D" =>
                     \E had \in Texts : /\ had \o Held(T).data \o T.pending = Converted(T)
                                        /\ Got(S, R, F, had)
    PROVE  Matched(agreement, c, x, T, R, W \o T.out, Tail(V), F)
<1>1. /\ S \in EndTypes /\ S.at \in Nat /\ S.files \in Nat /\ Len(Files) \in Nat
      /\ S.role = "send" /\ S.at \in 1 .. Len(Files) /\ S.files < S.at
      /\ S.mode = ModeUnder(agreement, S.at)
  BY EndFields, NumberOfFiles DEF Matched, Sending, InFile
<1>2. /\ Held(S) \in Packets /\ Held(T) \in Packets /\ T \in EndTypes /\ T.files \in Nat
      /\ Held(T).seq = NextSeq(Held(S).seq) /\ Held(T).seq \in Numbers
  BY EndFields, PacketFields DEF Matched, Sending, PieceSent
<1>3. Level(T, R) /\ ~Ahead(T, R)
  BY <1>2, Neighbours DEF Level, Ahead
<1>4. Running(T) /\ Held(T).kind \in Going /\ T.out = <<Held(T)>>
  BY DEF PieceSent, Running
<1>5. Sending(agreement, T)
  <2>1. /\ T.role = "send" /\ T.last = <<Held(T)>> /\ Held(T).kind \in SenderKinds
        /\ T.state = Held(T).kind /\ T.seq = Held(T).seq
        /\ Held(T).kind # "SendInit"
    BY <1>1 DEF PieceSent, SenderKinds, Going
  <2>2. /\ T.at \in 1 .. Len(Files) /\ T.mode = ModeUnder(agreement, T.at)
        /\ T.files < T.at /\ T.at <= Len(Files) /\ T.files <= T.at
    BY <1>1, <1>2 DEF PieceSent
  <2>3. /\ Held(T).kind = "Attributes" => Held(T).flag = T.mode
        /\ Held(T).kind \notin {"Attributes", "EndOfFile"} => Held(T).flag = "none"
        /\ Held(T).kind # "Data" => Held(T).data = <<>>
        /\ Held(T).kind = "EndOfFile" => Held(T).flag \in {"none", "D"}
        /\ LongRoom > 0 => T.size > 0
    BY DEF PieceSent, Going
  <2> QED
    BY <1>2, <1>4, <2>1, <2>2, <2>3 DEF Sending
<1>6. Reading(T, R)
  BY DEF Reading, PieceSent, ReadRight
<1>7. Contents(agreement, T, R, F)
  <2>1. \A had : Got(T, R, F, had) <=> Got(S, R, F, had)
    BY DEF Got, PieceSent
  <2>2. Held(T).kind # "File" /\ T.mode = S.mode
    BY <1>4 DEF Going, PieceSent
  <2> SUFFICES ASSUME R.open, ~R.cancelling
               PROVE  /\ Held(T).kind # "Attributes" => R.mode = T.mode
                      /\ Held(T).flag # "D" =>
                            \E had \in Texts :
                                /\ had \o Held(T).data \o T.pending = Converted(T)
                                /\ Got(T, R, F, had)
    BY <1>3, <2>2 DEF Contents
  <2> QED
    BY <2>1, <2>2
<1>8. Counts(c, T, R, V, F)
  <2> SUFFICES ASSUME c = 0
               PROVE  /\ ~T.cancelling /\ ~T.discarding /\ ~R.cancelling /\ Held(T).flag # "D"
                      /\ R.last # <<>> => Held(R).flag # "Z"
                      /\ \A i \in 1 .. Len(V) : V[i].flag # "Z"
                      /\ T.files <= SavedOf(F) /\ T.files = T.at - 1
                      /\ SavedOf(F) = T.files
    BY <1>2, <1>3, <1>4 DEF Counts, Going
  <2>1. /\ ~R.cancelling /\ (R.last # <<>> => Held(R).flag # "Z")
        /\ \A i \in 1 .. Len(V) : V[i].flag # "Z"
        /\ S.files <= SavedOf(F) /\ SavedOf(F) = S.files + 0 /\ S.files = S.at - 1
    BY DEF Matched, Counts, InFile
  <2> QED
    BY <1>1, <2>1 DEF PieceSent
<1> QED
  <2>1. /\ After(Held(S).kind) = Before(Held(T).kind) /\ Held(S).kind # "Break"
        /\ Held(T).kind # "SendInit"
    BY <1>4 DEF After, Before, Going
  <2>2. T.at = IF Held(T).kind = "File" THEN S.at + 1 ELSE S.at
    BY <1>4 DEF Going, PieceSent
  <2> QED
    BY <1>2, <1>4, <1>5, <1>6, <1>7, <1>8, <2>1, <2>2, Moving

\* Where the receiver has got with the file, when the sender reads on.
Reached(s, S, R, F) ==
    /\ R.mode = S.mode
    /\ \E had \in Texts : had \o s.pending = Converted(s) /\ Got(S, R, F, had)

LEMMA DataGoes ==
    ASSUME NEW c \in Nat, NEW x, NEW S, NEW T, NEW R, NEW W, NEW V, NEW F, NEW s \in EndTypes,
           Matched(agreement, c, x, S, R, W, V, F), Running(S), Ahead(S, R),
           V # <<>>, NewWord(S, V[1]),
           Held(S).kind \in {"File", "Attributes", "Data"}, DataSent(s, T),
           s.role = S.role, s.status = S.status, s.seq = NextSeq(Held(S).seq), s.at = S.at,
           s.mode = S.mode, s.files = S.files,
           c = 0 => ~s.cancelling /\ ~s.discarding,
           R.open /\ ~R.cancelling => Reached(s, S, R, F)
    PROVE  Matched(agreement, c, x, T, R, W \o T.out, Tail(V), F)
<1>1. PieceSent(S, T)
  BY DEF PieceSent, DataSent, Going
<1>2. c = 0 => ~T.cancelling /\ ~T.discarding /\ Held(T).flag # "D"
  BY DEF DataSent
<1>3. ASSUME R.open, ~R.cancelling
      PROVE  /\ R.mode = S.mode
             /\ \E had \in Texts : /\ had \o Held(T).data \o T.pending = Converted(T)
                                   /\ Got(S, R, F, had)
  <2>1. PICK had \in Texts : had \o s.pending = Converted(s) /\ Got(S, R, F, had)
    BY <1>3 DEF Reached
  <2>2. PICK added \in Texts : /\ Held(T).data \o T.pending = s.pending \o added
                               /\ Converted(T) = Converted(s) \o added
    BY DEF DataSent
  <2>3. Held(T).data \in Texts /\ T.pending \in Texts /\ s.pending \in Texts
    BY EndFields, PacketFields DEF DataSent
  <2>4. had \o Held(T).data \o T.pending = had \o (s.pending \o added)
    <3> DEFINE data == Held(T).data
               pending == T.pending
    <3>1. data \in Texts /\ pending \in Texts
      BY <2>3
    <3> HIDE DEF data, pending
    <3>2. (had \o data) \o pending = had \o (data \o pending)
      BY <3>1, Regrouped
    <3> QED
      BY <2>2, <3>2 DEF data, pending
  <2>5. had \o (s.pending \o added) = Converted(T)
    <3> DEFINE pending == s.pending
    <3>1. pending \in Texts
      BY <2>3
    <3> HIDE DEF pending
    <3>2. (had \o pending) \o added = had \o (pending \o added)
      BY <3>1, Regrouped
    <3>3. had \o (s.pending \o added) = (had \o s.pending) \o added
      BY <3>2 DEF pending
    <3> QED
      BY <2>1, <2>2, <3>3
  <2>6. R.mode = S.mode
    BY <1>3 DEF Reached
  <2> QED
    BY <2>1, <2>4, <2>5, <2>6
<1> QED
  BY <1>1, <1>2, <1>3, PieceGoes

\* The file is not to be sent any more.
LEMMA DiscardGoes ==
    ASSUME NEW c \in Nat, NEW x, NEW S, NEW R, NEW W, NEW V, NEW F, NEW s \in EndTypes,
           Matched(agreement, c, x, S, R, W, V, F), Running(S), Ahead(S, R),
           V # <<>>, NewWord(S, V[1]),
           Held(S).kind \in {"Attributes", "Data"},
           s.role = S.role, s.status = S.status, s.seq = NextSeq(Held(S).seq), s.at = S.at,
           s.mode = S.mode, s.files = S.files, s.read = S.read, s.afterCr = S.afterCr,
           s.eof = S.eof, LongRoom > 0 => s.size > 0, c > 0
    PROVE  /\ Matched(agreement, c, x, Discards(s), R, W \o Discards(s).out, Tail(V), F)
           /\ Discards(s).files = s.files /\ Discards(s).status = s.status
           /\ Discards(s).ceiling = s.ceiling /\ Discards(s).state # "Data"
           /\ Discards(s).role = s.role /\ Discards(s).retries = 0
<1> DEFINE u == [s EXCEPT !.discarding = TRUE]
           T == Discards(s)
<1>1. /\ u \in EndTypes /\ u.role = s.role /\ u.status = s.status /\ u.seq = s.seq
      /\ u.mode = s.mode /\ u.at = s.at /\ u.files = s.files /\ u.size = s.size
      /\ u.read = s.read /\ u.afterCr = s.afterCr /\ u.eof = s.eof /\ u.ceiling = s.ceiling
  BY DEF EndTypes
<1>2. Moves(u, "EndOfFile", "D", <<>>) = T
  BY DEF Discards
<1> HIDE DEF u, T
<1>3. Moved(u, T, "EndOfFile", "D", <<>>)
  <2>1. Moved(u, Moves(u, "EndOfFile", "D", <<>>), "EndOfFile", "D", <<>>)
    BY <1>1, MovesDoes, TextTypes DEF SenderKinds, Flags
  <2> QED
    BY <1>2, <2>1
<1>4. /\ T.read = S.read /\ T.at = S.at /\ T.mode = S.mode /\ T.afterCr = S.afterCr
      /\ T.eof = S.eof /\ Taken(T) = Taken(S)
  BY <1>1, <1>3 DEF Moved, Taken
<1>5. ReadRight(T)
  BY <1>4 DEF ReadRight, Matched, Sending, Reading, InFile, Going
<1>6. PieceSent(S, T)
  BY <1>1, <1>3, <1>5 DEF PieceSent, Moved, Going
<1>7. R.open /\ ~R.cancelling => R.mode = S.mode
  BY DEF Matched, Contents, Going
<1>8. Matched(agreement, c, x, T, R, W \o T.out, Tail(V), F)
  <2>1. Held(T).flag = "D" /\ c # 0
    BY <1>3 DEF Moved
  <2> QED
    BY <1>6, <1>7, <2>1, PieceGoes
<1> QED
  BY <1>1, <1>3, <1>8 DEF T, Moved

\* What an end reads is gone, and what it says is on its way.
LEMMA SenderReads ==
    ASSUME NEW a, NEW c, NEW x, NEW S, NEW R, NEW W, NEW V, NEW F,
           Matched(a, c, x, S, R, W, V, F), V # <<>>
    PROVE  Matched(a, c, x, S, R, W, Tail(V), F)
<1>1. V \in Seq(Packets) /\ OnReturn(S, R, Tail(V))
  BY ReturnLess DEF Matched, OnReturn
<1>2. \A i \in 1 .. Len(Tail(V)) : Tail(V)[i] = V[i + 1] /\ i + 1 \in 1 .. Len(V)
  BY <1>1, OneLess
<1>3. Counts(c, S, R, Tail(V), F)
  BY <1>2 DEF Counts, Matched
<1> QED
  BY <1>1, <1>3 DEF Matched

LEMMA ReceiverReads ==
    ASSUME NEW a, NEW c, NEW x, NEW S, NEW R, NEW W, NEW V, NEW F,
           Matched(a, c, x, S, R, W, V, F), W # <<>>
    PROVE  Matched(a, c, x, S, R, Tail(W), V, F)
BY WireLess DEF Matched

LEMMA SenderSays ==
    ASSUME NEW a, NEW c, NEW x, NEW S, NEW R, NEW W, NEW V, NEW F, NEW out,
           Matched(a, c, x, S, R, W, V, F),
           \/ out = <<>>
           \/ out = <<out[1]>> /\ out[1] \in Packets /\ (out[1] = Held(S) \/ Stray(out[1]))
    PROVE  Matched(a, c, x, S, R, W \o out, V, F)
<1>1. W \in Seq(Packets)
  BY DEF Matched, OnWire
<1>2. CASE out = <<>>
  BY <1>1, <1>2, OneMore
<1>3. CASE out = <<out[1]>> /\ out[1] \in Packets /\ (out[1] = Held(S) \/ Stray(out[1]))
  <2> DEFINE p == out[1]
  <2>1. W \o out = Append(W, p)
    <3>1. W \o <<p>> = Append(W, p)
      BY <1>1, <1>3
    <3> QED
      BY <1>3, <3>1
  <2>2. OnWire(S, R, Append(W, p))
    BY <1>3, WireMore DEF Matched
  <2> QED
    BY <2>1, <2>2 DEF Matched
<1> QED
  BY <1>2, <1>3

LEMMA ReceiverSays ==
    ASSUME NEW a, NEW c, NEW x, NEW S, NEW R, NEW W, NEW V, NEW F, NEW out,
           Matched(a, c, x, S, R, W, V, F),
           \/ out = <<>>
           \/ /\ out = <<out[1]>> /\ out[1] \in Packets /\ out[1].flag \in {"none", "Y", "Z"}
              /\ c = 0 => out[1].flag # "Z"
              /\ \/ out[1].kind = "Error"
                 \/ OldWord(S, out[1]) /\ Level(S, R)
                 \/ NewWord(S, out[1]) /\ Ahead(S, R)
    PROVE  Matched(a, c, x, S, R, W, V \o out, F)
<1>1. V \in Seq(Packets)
  BY DEF Matched, OnReturn
<1>2. CASE out = <<>>
  BY <1>1, <1>2, OneMore
<1>3. CASE /\ out = <<out[1]>> /\ out[1] \in Packets /\ out[1].flag \in {"none", "Y", "Z"}
           /\ c = 0 => out[1].flag # "Z"
           /\ \/ out[1].kind = "Error"
              \/ OldWord(S, out[1]) /\ Level(S, R)
              \/ NewWord(S, out[1]) /\ Ahead(S, R)
  <2> DEFINE p == out[1]
  <2>1. V \o out = Append(V, p)
    <3>1. V \o <<p>> = Append(V, p)
      BY <1>1, <1>3
    <3> QED
      BY <1>3, <3>1
  <2>2. OnReturn(S, R, Append(V, p))
    BY <1>3, ReturnMore DEF Matched, Sending
  <2>3. Counts(c, S, R, Append(V, p), F)
    <3>1. \A i \in 1 .. Len(Append(V, p)) :
             Append(V, p)[i] = p \/ (i \in 1 .. Len(V) /\ Append(V, p)[i] = V[i])
      BY <1>1, <1>3, OneMore
    <3> HIDE DEF p
    <3>2. c = 0 => p.flag # "Z"
      BY <1>3 DEF p
    <3> QED
      BY <3>1, <3>2 DEF Counts, Matched
  <2> QED
    BY <2>1, <2>2, <2>3 DEF Matched
<1> QED
  BY <1>2, <1>3

\* The sender stops over the packet after the one answered.
LEMMA StopsOver ==
    ASSUME NEW a, NEW c \in Nat, NEW x, NEW S, NEW T, NEW R, NEW W, NEW V, NEW F, NEW s,
           Matched(a, c, x, S, R, W, V, F), Ahead(S, R), V # <<>>,
           SendingFailed(s, T), s.role = S.role, s.last = S.last, s.mode = S.mode, s.at = S.at,
           s.files <= S.at, Held(S).kind = "SendInit" => s.files = 0,
           LongRoom > 0 => s.size > 0,
           c = 0 => ~s.cancelling /\ ~s.discarding /\ s.files <= SavedOf(F)
    PROVE  Matched(a, c, x, T, R, W \o T.out, Tail(V), F)
<1>1. SenderGivesUp(c, S, T, F)
  BY DEF SendingFailed, SenderGivesUp, Running
<1>2. Matched(a, c, x, T, R, W, V, F)
  BY <1>1, GivingUp
<1>3. Matched(a, c, x, T, R, W, Tail(V), F)
  BY <1>2, SenderReads
<1> QED
  BY <1>3, SenderSays DEF SendingFailed, Stray

\* What an answer may come to, for its user and for the size of packets.
Answered(c, S, T, F) ==
    /\ T.role = "send"
    /\ \/ T.files = S.files
       \/ /\ Running(S) /\ T.files = S.files + 1
          /\ S.files < SavedOf(F) \/ (c > 0 /\ S.files < Len(Files))
    /\ T.status # S.status =>
          /\ Running(S)
          /\ T.status = "Done" => c > 0 \/ S.files = Len(Files)
          /\ T.status = "Cancelled" => c > 0
    /\ T.ceiling = S.ceiling /\ T.retries <= S.retries
    /\ agreement.long /\ T.state = "Data" /\ T.last # S.last =>
          T.inFlight <= Least(LongRoom, T.ceiling)

\* The sender whose packet was answered, before it goes on.
Onward(S) == [S EXCEPT !.seq = NextSeq(@)]

LEMMA OnwardDoes ==
    ASSUME NEW S \in EndTypes
    PROVE  LET s == Onward(S)
           IN  /\ s \in EndTypes /\ s.role = S.role /\ s.status = S.status /\ s.last = S.last
               /\ s.state = S.state /\ s.mode = S.mode /\ s.at = S.at /\ s.files = S.files
               /\ s.cancelling = S.cancelling /\ s.discarding = S.discarding
               /\ s.ceiling = S.ceiling /\ s.size = S.size /\ s.read = S.read
               /\ s.pending = S.pending /\ s.afterCr = S.afterCr /\ s.eof = S.eof
               /\ s.retries = S.retries /\ s.out = S.out /\ s.seq = NextSeq(S.seq)
<1>1. NextSeq(S.seq) \in Numbers
  BY EndFields, Neighbours
<1> QED
  BY <1>1 DEF Onward, EndTypes

\* What is known of a sender whose packet has been taken.
LEMMA TakenFacts ==
    ASSUME NEW c \in Nat, NEW x, NEW S, NEW R, NEW W, NEW V, NEW F,
           Matched(agreement, c, x, S, R, W, V, F), Running(S), Ahead(S, R)
    PROVE  /\ S \in EndTypes /\ S.role = "send" /\ S.status = "Running" /\ S.at \in Nat
           /\ S.files \in Nat /\ Len(Files) \in Nat /\ S.retries \in Nat /\ S.size \in Nat
           /\ S.files <= S.at /\ S.at <= Len(Files)
           /\ S.state = Held(S).kind /\ Held(S).kind \in SenderKinds
           /\ S.seq = Held(S).seq /\ (LongRoom > 0 => S.size > 0)
           /\ Held(S).kind = "SendInit" => S.files = 0
           /\ Held(S).kind \in InFile => S.files < S.at
           /\ c = 0 => /\ ~S.cancelling /\ ~S.discarding /\ S.files <= SavedOf(F)
                       /\ SavedOf(F) = S.files + IF Held(S).kind = "EndOfFile" THEN 1 ELSE 0
                       /\ Held(S).kind = "Break" => S.files = Len(Files)
           /\ R.open /\ ~R.cancelling /\ Held(S).kind \in {"Attributes", "Data"} =>
                 Reached(S, S, R, F)
           /\ Held(S).kind \in {"Attributes", "Data"} => ReadRight(S)
<1>1. S \in EndTypes /\ S.at \in Nat /\ S.files \in Nat /\ Len(Files) \in Nat
      /\ S.retries \in Nat /\ S.size \in Nat /\ S.pending \in Texts
  BY EndFields, NumberOfFiles DEF Matched, Sending
<1>2. Held(S).kind \in {"Attributes", "Data"} => ReadRight(S)
  BY DEF ReadRight, Matched, Sending, Reading, InFile, Going
<1>3. ~Level(S, R)
  BY PacketFields, Neighbours DEF Level, Ahead, Matched, Sending
<1>4. ASSUME R.open, ~R.cancelling, Held(S).kind \in {"Attributes", "Data"}
      PROVE  Reached(S, S, R, F)
  <2>1. R.mode = S.mode
    BY <1>4 DEF Matched, Contents, Going
  <2>2. Held(S).flag # "D"
    BY <1>4, ModeUnderType DEF Matched, Sending, InFile, Modes, EndTypes
  <2>3. PICK had \in Texts : had \o <<>> \o S.pending = Converted(S) /\ Got(S, R, F, had)
    BY <1>3, <1>4, <2>2 DEF Matched, Contents, Going
  <2>4. had \o <<>> = had
    BY Joins
  <2> QED
    BY <2>1, <2>3, <2>4 DEF Reached
<1> QED
  BY <1>1, <1>2, <1>4 DEF Matched, Sending, Counts, Running

\* An answer comes to a sender, and what it is to make of it.
Comes(c, x, S, R, W, V, F) ==
    /\ Matched(agreement, c, x, S, R, W, V, F) /\ agreement \in Agreements
    /\ Running(S) /\ S.out = <<>> /\ Ahead(S, R) /\ V # <<>> /\ NewWord(S, V[1])
Goes(c, x, S, T, R, W, V, F) ==
    /\ Matched(agreement, c, x, T, R, W \o T.out, Tail(V), F)
    /\ Answered(c, S, T, F)

\* The parameters are answered.
LEMMA AfterSendInit ==
    ASSUME NEW c \in Nat, NEW x, NEW S, NEW R, NEW W, NEW V, NEW F, NEW flag, NEW fault,
           Comes(c, x, S, R, W, V, F), Held(S).kind = "SendInit"
    PROVE  Goes(c, x, S, Acknowledged(S, flag, fault), R, W, V, F)
<1> DEFINE s == Onward(S)
           u == [s EXCEPT !.check = agreement.check]
           T == NextFile(u, fault)
<1>1. /\ S \in EndTypes /\ S.role = "send" /\ S.status = "Running" /\ S.at \in Nat
      /\ S.files \in Nat /\ Len(Files) \in Nat /\ S.retries \in Nat
      /\ S.files <= S.at /\ S.at <= Len(Files) /\ S.state = "SendInit"
      /\ S.seq = Held(S).seq /\ (LongRoom > 0 => S.size > 0) /\ S.files = 0
      /\ c = 0 => ~S.cancelling /\ ~S.discarding /\ S.files <= SavedOf(F)
  BY TakenFacts DEF Comes
<1>2. /\ s \in EndTypes /\ s.role = S.role /\ s.status = S.status /\ s.last = S.last
      /\ s.mode = S.mode /\ s.at = S.at /\ s.files = S.files
      /\ s.cancelling = S.cancelling /\ s.discarding = S.discarding
      /\ s.ceiling = S.ceiling /\ s.size = S.size
      /\ s.retries = S.retries /\ s.seq = NextSeq(S.seq)
  BY <1>1, OnwardDoes
<1>3. Acknowledged(S, flag, fault) = T
  BY <1>1 DEF Acknowledged, Onward
<1> HIDE DEF s
<1>4. /\ u \in EndTypes /\ u.role = s.role /\ u.status = s.status /\ u.last = s.last
      /\ u.mode = s.mode /\ u.at = s.at /\ u.files = s.files
      /\ u.cancelling = s.cancelling /\ u.discarding = s.discarding
      /\ u.ceiling = s.ceiling /\ u.size = s.size
      /\ u.retries = s.retries /\ u.seq = s.seq
  <2>1. agreement.check \in {"one", "three"}
    BY AgreementsAssumption DEF Comes
  <2> QED
    BY <1>2, <2>1 DEF EndTypes
<1> HIDE DEF u
<1>5. SendingFailed(u, T) \/ NameSent(u, T)
  BY <1>1, <1>2, <1>4, NextFileDoes DEF Comes
<1> HIDE DEF T
<1>6. CASE SendingFailed(u, T)
  <2>1. Matched(agreement, c, x, T, R, W \o T.out, Tail(V), F)
    BY <1>1, <1>2, <1>4, <1>6, StopsOver DEF Comes
  <2>2. Answered(c, S, T, F)
    BY <1>1, <1>2, <1>4, <1>6 DEF Answered, SendingFailed, Running
  <2> QED
    BY <1>3, <2>1, <2>2 DEF Goes
<1>7. CASE NameSent(u, T)
  <2>1. Matched(agreement, c, x, T, R, W \o T.out, Tail(V), F)
    <3>1. c = 0 => /\ ~u.cancelling /\ ~u.discarding
                   /\ u.files = S.files + IF Held(S).kind = "EndOfFile" THEN 1 ELSE 0
      BY <1>1, <1>2, <1>4
    <3> QED
      BY <1>1, <1>2, <1>4, <1>7, <3>1, NameGoes DEF Comes
  <2>2. Answered(c, S, T, F)
    BY <1>1, <1>2, <1>4, <1>7 DEF Answered, NameSent
  <2> QED
    BY <1>3, <2>1, <2>2 DEF Goes
<1> QED
  BY <1>5, <1>6, <1>7

\* The sender reads on in its file.
LEMMA ReadingOn ==
    ASSUME NEW c \in Nat, NEW x, NEW S, NEW R, NEW W, NEW V, NEW F, NEW s, NEW fault,
           Comes(c, x, S, R, W, V, F), Held(S).kind \in {"File", "Attributes", "Data"},
           s \in EndTypes, s.role = S.role, s.status = S.status, s.last = S.last,
           s.seq = NextSeq(S.seq), s.mode = S.mode, s.at = S.at, s.files = S.files,
           s.size = S.size, s.ceiling = S.ceiling, s.retries = S.retries,
           c = 0 => ~s.cancelling /\ ~s.discarding,
           ReadRight(s), R.open /\ ~R.cancelling => Reached(s, S, R, F)
    PROVE  Goes(c, x, S, SendData(s, fault), R, W, V, F)
<1> DEFINE T == SendData(s, fault)
<1>1. /\ S \in EndTypes /\ S.role = "send" /\ S.status = "Running" /\ S.at \in Nat
      /\ S.files \in Nat /\ Len(Files) \in Nat /\ S.retries \in Nat
      /\ S.files <= S.at /\ S.seq = Held(S).seq /\ (LongRoom > 0 => S.size > 0)
      /\ c = 0 => S.files <= SavedOf(F)
  BY TakenFacts DEF Comes
<1>2. SendingFailed(s, T) \/ DataSent(s, T)
  BY <1>1, SendDataDoes
<1> HIDE DEF T
<1>3. CASE SendingFailed(s, T)
  <2>1. Matched(agreement, c, x, T, R, W \o T.out, Tail(V), F)
    BY <1>1, <1>3, StopsOver DEF Comes
  <2>2. Answered(c, S, T, F)
    BY <1>1, <1>3 DEF Answered, SendingFailed, Running
  <2> QED
    BY <2>1, <2>2 DEF Goes, T
<1>4. CASE DataSent(s, T)
  <2>1. Matched(agreement, c, x, T, R, W \o T.out, Tail(V), F)
    BY <1>1, <1>4, DataGoes DEF Comes
  <2>2. Answered(c, S, T, F)
    BY <1>1, <1>4 DEF Answered, DataSent
  <2> QED
    BY <2>1, <2>2 DEF Goes, T
<1> QED
  BY <1>2, <1>3, <1>4

\* The name is answered.
LEMMA AfterFile ==
    ASSUME NEW c \in Nat, NEW x, NEW S, NEW R, NEW W, NEW V, NEW F, NEW flag, NEW fault,
           Comes(c, x, S, R, W, V, F), Held(S).kind = "File"
    PROVE  Goes(c, x, S, Acknowledged(S, flag, fault), R, W, V, F)
<1> DEFINE s == Onward(S)
           u == [s EXCEPT !.pending = <<>>, !.read = 0, !.afterCr = FALSE,
                          !.eof = FALSE, !.discarding = FALSE]
<1>1. /\ S \in EndTypes /\ S.role = "send" /\ S.status = "Running" /\ S.at \in Nat
      /\ S.files \in Nat /\ Len(Files) \in Nat /\ S.retries \in Nat
      /\ S.files <= S.at /\ S.at <= Len(Files) /\ S.state = "File"
      /\ S.seq = Held(S).seq /\ (LongRoom > 0 => S.size > 0)
      /\ c = 0 => ~S.cancelling /\ ~S.discarding /\ S.files <= SavedOf(F)
  BY TakenFacts DEF Comes
<1>2. /\ s \in EndTypes /\ s.role = S.role /\ s.status = S.status /\ s.last = S.last
      /\ s.mode = S.mode /\ s.at = S.at /\ s.files = S.files
      /\ s.cancelling = S.cancelling
      /\ s.ceiling = S.ceiling /\ s.size = S.size
      /\ s.retries = S.retries /\ s.seq = NextSeq(S.seq)
  BY <1>1, OnwardDoes
<1>3. Acknowledged(S, flag, fault) =
        IF agreement.attributes THEN Moves(u, "Attributes", s.mode, <<>>) ELSE SendData(u, fault)
  BY <1>1 DEF Acknowledged, FileTaken, Onward
<1> HIDE DEF s
<1>4. /\ u \in EndTypes /\ u.role = s.role /\ u.status = s.status /\ u.last = s.last
      /\ u.mode = s.mode /\ u.at = s.at /\ u.files = s.files
      /\ u.cancelling = s.cancelling /\ ~u.discarding
      /\ u.ceiling = s.ceiling /\ u.size = s.size
      /\ u.retries = s.retries /\ u.seq = s.seq
      /\ u.pending = <<>> /\ u.read = 0 /\ ~u.afterCr /\ ~u.eof
  BY <1>2, TextTypes, ZenonT(60) DEF EndTypes
<1> HIDE DEF u
<1>5. S.at \in 1 .. Len(Files) /\ Files[S.at].bytes \in Texts /\ S.mode \in Modes
  BY <1>1, FileFields, EndFields DEF Comes, Matched, Sending, InFile
<1>6. Taken(u) = <<>> /\ Converted(u) = <<>>
  <2>1. Taken(u) = <<>>
    BY <1>2, <1>4, <1>5 DEF Taken, Texts
  <2>2. AsSent(<<>>).out = <<>>
    BY AsSentDoes
  <2> QED
    BY <2>1, <2>2 DEF Converted
<1>7. ReadRight(u)
  <2>1. ~AsSent(<<>>).afterCr
    BY AsSentDoes
  <2>2. Len(Files[S.at].bytes) \in Nat
    BY <1>5 DEF Texts
  <2> QED
    BY <1>2, <1>4, <1>5, <1>6, <2>1, <2>2 DEF ReadRight
<1>8. R.open /\ ~R.cancelling => F[Len(F)].bytes = <<>> /\ ~R.held
                                 /\ (~agreement.attributes => R.mode = S.mode)
  BY DEF Comes, Matched, Contents
<1>9. ASSUME R.open, ~R.cancelling PROVE Got(S, R, F, <<>>)
  <2>1. AsRead(<<>>).out = <<>> /\ ~AsRead(<<>>).held
    BY AsReadDoes
  <2> QED
    BY <1>8, <1>9, <2>1 DEF Got
<1>10. <<>> \in Texts /\ <<>> \o <<>> = <<>> /\ <<>> \o <<>> \o <<>> = <<>>
  BY TextTypes, Joins
<1>11. CASE ~agreement.attributes
  <2>1. R.open /\ ~R.cancelling => Reached(u, S, R, F)
    BY <1>4, <1>6, <1>8, <1>9, <1>10, <1>11 DEF Reached
  <2>2. Goes(c, x, S, SendData(u, fault), R, W, V, F)
    BY <1>1, <1>2, <1>4, <1>7, <2>1, ReadingOn
  <2> QED
    BY <1>3, <1>11, <2>2
<1>12. CASE agreement.attributes
  <2> DEFINE T == Moves(u, "Attributes", s.mode, <<>>)
  <2>1. Moved(u, T, "Attributes", s.mode, <<>>)
    BY <1>2, <1>4, <1>5, <1>10, MovesDoes DEF SenderKinds, Flags
  <2>2. Acknowledged(S, flag, fault) = T
    BY <1>3, <1>12
  <2> HIDE DEF T
  <2>3. T.pending = <<>> /\ Taken(T) = Taken(u) /\ Converted(T) = <<>> /\ Held(T).data = <<>>
    BY <1>4, <1>6, <2>1 DEF Moved, Taken, Converted
  <2>4. ReadRight(T)
    BY <1>7, <2>1, <2>3 DEF ReadRight, Moved
  <2>5. PieceSent(S, T)
    BY <1>1, <1>2, <1>4, <2>1, <2>4 DEF PieceSent, Moved, Going
  <2>6. R.open /\ ~R.cancelling =>
           \E had \in Texts : /\ had \o Held(T).data \o T.pending = Converted(T)
                              /\ Got(S, R, F, had)
    BY <1>9, <1>10, <2>3
  <2>7. c = 0 => ~T.cancelling /\ ~T.discarding /\ Held(T).flag # "D"
    BY <1>1, <1>2, <1>4, <1>5, <2>1 DEF Moved, Modes
  <2>8. Held(T).kind = "Attributes"
    BY <2>1 DEF Moved
  <2>9. Matched(agreement, c, x, T, R, W \o T.out, Tail(V), F)
    BY <2>5, <2>6, <2>7, <2>8, PieceGoes DEF Comes
  <2>10. Answered(c, S, T, F)
    BY <1>1, <1>2, <1>4, <2>1 DEF Answered, Moved
  <2> QED
    BY <2>2, <2>9, <2>10 DEF Goes
<1> QED
  BY <1>11, <1>12

\* The file's particulars are answered.
LEMMA AfterAttributes ==
    ASSUME NEW c \in Nat, NEW x, NEW S, NEW R, NEW W, NEW V, NEW F, NEW flag, NEW fault,
           Comes(c, x, S, R, W, V, F), Held(S).kind = "Attributes", flag # "N"
    PROVE  Goes(c, x, S, Acknowledged(S, flag, fault), R, W, V, F)
<1> DEFINE s == Onward(S)
<1>1. /\ S \in EndTypes /\ S.state = "Attributes" /\ ReadRight(S)
      /\ R.open /\ ~R.cancelling => Reached(S, S, R, F)
      /\ c = 0 => ~S.cancelling /\ ~S.discarding
  BY TakenFacts DEF Comes
<1>2. Acknowledged(S, flag, fault) = SendData(s, fault)
  BY <1>1 DEF Acknowledged, Onward
<1>3. /\ s \in EndTypes /\ s.role = S.role /\ s.status = S.status /\ s.last = S.last
      /\ s.mode = S.mode /\ s.at = S.at /\ s.files = S.files
      /\ s.cancelling = S.cancelling /\ s.discarding = S.discarding
      /\ s.ceiling = S.ceiling /\ s.size = S.size /\ s.read = S.read
      /\ s.pending = S.pending /\ s.afterCr = S.afterCr /\ s.eof = S.eof
      /\ s.retries = S.retries /\ s.seq = NextSeq(S.seq)
  BY <1>1, OnwardDoes
<1> HIDE DEF s
<1>4. Taken(s) = Taken(S) /\ Converted(s) = Converted(S)
  BY <1>3 DEF Taken, Converted
<1>5. ReadRight(s) /\ (R.open /\ ~R.cancelling => Reached(s, S, R, F))
  BY <1>1, <1>3, <1>4 DEF ReadRight, Reached
<1>6. Goes(c, x, S, SendData(s, fault), R, W, V, F)
  BY <1>1, <1>3, <1>5, ReadingOn
<1> QED
  BY <1>2, <1>6

\* Data is answered.
LEMMA AfterData ==
    ASSUME NEW c \in Nat, NEW x, NEW S, NEW R, NEW W, NEW V, NEW F, NEW flag, NEW fault,
           Comes(c, x, S, R, W, V, F), Held(S).kind = "Data", flag # "X",
           c = 0 => flag # "Z"
    PROVE  Goes(c, x, S, Acknowledged(S, flag, fault), R, W, V, F)
<1> DEFINE t == Onward(S)
           stopping == t.cancelling \/ flag = "Z"
           s == [t EXCEPT !.cancelling = stopping]
<1>1. /\ S \in EndTypes /\ S.state = "Data" /\ ReadRight(S) /\ S.role = "send"
      /\ R.open /\ ~R.cancelling => Reached(S, S, R, F)
      /\ c = 0 => ~S.cancelling /\ ~S.discarding
      /\ S.status = "Running" /\ S.seq = Held(S).seq /\ (LongRoom > 0 => S.size > 0)
  BY TakenFacts DEF Comes
<1>2. /\ t \in EndTypes /\ t.role = S.role /\ t.status = S.status /\ t.last = S.last
      /\ t.mode = S.mode /\ t.at = S.at /\ t.files = S.files
      /\ t.cancelling = S.cancelling /\ t.discarding = S.discarding
      /\ t.ceiling = S.ceiling /\ t.size = S.size /\ t.read = S.read
      /\ t.pending = S.pending /\ t.afterCr = S.afterCr /\ t.eof = S.eof
      /\ t.retries = S.retries /\ t.seq = NextSeq(S.seq)
  BY <1>1, OnwardDoes
<1>3. Acknowledged(S, flag, fault) =
        IF flag = "X" \/ s.cancelling THEN Discards(s) ELSE SendData(t, fault)
  BY <1>1 DEF Acknowledged, Onward
<1> HIDE DEF t
<1>4. stopping \in BOOLEAN /\ (c = 0 => ~stopping)
  BY <1>1, <1>2, EndFields
<1> HIDE DEF stopping
<1>5. /\ s \in EndTypes /\ s.role = t.role /\ s.status = t.status
      /\ s.mode = t.mode /\ s.at = t.at /\ s.files = t.files
      /\ (s.cancelling <=> stopping)
      /\ s.ceiling = t.ceiling /\ s.size = t.size /\ s.read = t.read
      /\ s.afterCr = t.afterCr /\ s.eof = t.eof /\ s.seq = t.seq
  BY <1>2, <1>4 DEF EndTypes
<1> HIDE DEF s
<1>6. CASE s.cancelling
  <2> DEFINE T == Discards(s)
  <2>1. c > 0
    BY <1>4, <1>5, <1>6
  <2>2. /\ Matched(agreement, c, x, T, R, W \o T.out, Tail(V), F)
        /\ T.files = s.files /\ T.status = s.status /\ T.ceiling = s.ceiling /\ T.state # "Data"
        /\ T.role = s.role /\ T.retries = 0
    BY <1>1, <1>2, <1>5, <2>1, DiscardGoes DEF Comes
  <2>3. S.retries \in Nat
    BY <1>1, EndFields
  <2> HIDE DEF T
  <2>4. Answered(c, S, T, F)
    BY <1>1, <1>2, <1>5, <2>2, <2>3 DEF Answered
  <2> QED
    BY <1>3, <1>6, <2>2, <2>4 DEF Goes, T
<1>7. CASE ~s.cancelling
  <2>1. Acknowledged(S, flag, fault) = SendData(t, fault)
    BY <1>3, <1>7
  <2>2. Taken(t) = Taken(S) /\ Converted(t) = Converted(S)
    BY <1>2 DEF Taken, Converted
  <2>3. ReadRight(t) /\ (R.open /\ ~R.cancelling => Reached(t, S, R, F))
    BY <1>1, <1>2, <2>2 DEF ReadRight, Reached
  <2>4. Goes(c, x, S, SendData(t, fault), R, W, V, F)
    BY <1>1, <1>2, <2>3, ReadingOn
  <2> QED
    BY <2>1, <2>4
<1> QED
  BY <1>6, <1>7

\* The end of a file is answered.
LEMMA AfterEndOfFile ==
    ASSUME NEW c \in Nat, NEW x, NEW S, NEW R, NEW W, NEW V, NEW F, NEW flag, NEW fault,
           Comes(c, x, S, R, W, V, F), Held(S).kind = "EndOfFile"
    PROVE  Goes(c, x, S, Acknowledged(S, flag, fault), R, W, V, F)
<1> DEFINE t == Onward(S)
           u == Counted(t)
           T == Acknowledged(S, flag, fault)
<1>1. /\ S \in EndTypes /\ S.role = "send" /\ S.status = "Running" /\ S.at \in Nat
      /\ S.files \in Nat /\ Len(Files) \in Nat /\ S.retries \in Nat /\ Running(S)
      /\ S.files <= S.at /\ S.at <= Len(Files) /\ S.state = "EndOfFile" /\ S.files < S.at
      /\ S.seq = Held(S).seq /\ (LongRoom > 0 => S.size > 0)
      /\ c = 0 => /\ ~S.cancelling /\ ~S.discarding /\ S.files <= SavedOf(F)
                  /\ SavedOf(F) = S.files + 1
  BY TakenFacts DEF Comes, InFile
<1>2. /\ t \in EndTypes /\ t.role = S.role /\ t.status = S.status /\ t.last = S.last
      /\ t.mode = S.mode /\ t.at = S.at /\ t.files = S.files
      /\ t.cancelling = S.cancelling /\ t.discarding = S.discarding
      /\ t.ceiling = S.ceiling /\ t.size = S.size
      /\ t.retries = S.retries /\ t.seq = NextSeq(S.seq)
  BY <1>1, OnwardDoes
<1>3. T = IF S.cancelling THEN Moves(u, "Break", "none", <<>>) ELSE NextFile(u, fault)
  <2>1. T = IF t.cancelling THEN Moves(u, "Break", "none", <<>>) ELSE NextFile(u, fault)
    BY <1>1 DEF Acknowledged, Onward
  <2> QED
    BY <1>2, <2>1
<1> HIDE DEF t
<1>4. /\ u \in EndTypes /\ u.role = t.role /\ u.status = t.status /\ u.last = t.last
      /\ u.mode = t.mode /\ u.at = t.at
      /\ u.files = (IF t.discarding THEN t.files ELSE t.files + 1)
      /\ u.cancelling = t.cancelling /\ u.discarding = t.discarding
      /\ u.ceiling = t.ceiling /\ u.size = t.size
      /\ u.retries = t.retries /\ u.seq = t.seq
  <2>1. CASE t.discarding
    BY <1>2, <2>1 DEF Counted
  <2>2. CASE ~t.discarding
    <3>1. t.files + 1 \in Nat
      BY <1>1, <1>2
    <3>2. u = [t EXCEPT !.files = t.files + 1]
      BY <2>2 DEF Counted
    <3> HIDE DEF u
    <3> QED
      BY <1>2, <2>2, <3>1, <3>2 DEF EndTypes
  <2> QED
    BY <2>1, <2>2
<1>5. SendingFailed(u, T) \/ NameSent(u, T)
  <2>1. CASE S.cancelling
    BY <1>2, <1>3, <1>4, <2>1, BreakDoes
  <2>2. CASE ~S.cancelling
    BY <1>1, <1>2, <1>3, <1>4, <2>2, NextFileDoes DEF Comes
  <2> QED
    BY <2>1, <2>2
<1> HIDE DEF u, T
<1>6. /\ u.files \in Nat /\ u.files <= S.at
      /\ u.files = S.files \/ u.files = S.files + 1
      /\ c = 0 => u.files = S.files + 1 /\ ~u.cancelling /\ ~u.discarding
      /\ S.files < SavedOf(F) \/ (c > 0 /\ S.files < Len(Files))
  BY <1>1, <1>2, <1>4
<1>7. CASE SendingFailed(u, T)
  <2>1. Matched(agreement, c, x, T, R, W \o T.out, Tail(V), F)
    BY <1>1, <1>2, <1>4, <1>6, <1>7, StopsOver DEF Comes
  <2>2. Answered(c, S, T, F)
    BY <1>1, <1>2, <1>4, <1>6, <1>7 DEF Answered, SendingFailed
  <2> QED
    BY <2>1, <2>2 DEF Goes, T
<1>8. CASE NameSent(u, T)
  <2>1. Matched(agreement, c, x, T, R, W \o T.out, Tail(V), F)
    <3>1. c = 0 => /\ ~u.cancelling /\ ~u.discarding
                   /\ u.files = S.files + IF Held(S).kind = "EndOfFile" THEN 1 ELSE 0
      BY <1>6
    <3> QED
      BY <1>1, <1>2, <1>4, <1>6, <1>8, <3>1, NameGoes DEF Comes
  <2>2. Answered(c, S, T, F)
    BY <1>1, <1>2, <1>4, <1>6, <1>8 DEF Answered, NameSent
  <2> QED
    BY <2>1, <2>2 DEF Goes, T
<1> QED
  BY <1>5, <1>7, <1>8

\* The end of the transfer is answered.
LEMMA AfterBreak ==
    ASSUME NEW c \in Nat, NEW x, NEW S, NEW R, NEW W, NEW V, NEW F, NEW flag, NEW fault,
           Comes(c, x, S, R, W, V, F), Held(S).kind = "Break"
    PROVE  Goes(c, x, S, Acknowledged(S, flag, fault), R, W, V, F)
<1> DEFINE t == Onward(S)
           status == IF S.cancelling THEN "Cancelled" ELSE "Done"
           T == Stops(t, status)
<1>1. /\ S \in EndTypes /\ S.role = "send" /\ S.at \in Nat /\ Running(S) /\ S.out = <<>>
      /\ S.files \in Nat /\ Len(Files) \in Nat /\ S.retries \in Nat
      /\ S.files <= S.at /\ S.at <= Len(Files) /\ S.state = "Break"
      /\ S.seq = Held(S).seq /\ (LongRoom > 0 => S.size > 0)
      /\ c = 0 => ~S.cancelling /\ ~S.discarding /\ S.files <= SavedOf(F)
                  /\ S.files = Len(Files)
  BY TakenFacts DEF Comes
<1>2. /\ t \in EndTypes /\ t.role = S.role /\ t.last = S.last
      /\ t.mode = S.mode /\ t.at = S.at /\ t.files = S.files
      /\ t.cancelling = S.cancelling /\ t.discarding = S.discarding
      /\ t.ceiling = S.ceiling /\ t.size = S.size /\ t.out = S.out
      /\ t.retries = S.retries /\ t.seq = NextSeq(S.seq)
  BY <1>1, OnwardDoes
<1>3. Acknowledged(S, flag, fault) = T
  BY <1>1, <1>2 DEF Acknowledged, Onward
<1> HIDE DEF t
<1>4. status \in {"Cancelled", "Done"} /\ (status = "Cancelled" => S.cancelling)
  OBVIOUS
<1> HIDE DEF status
<1>5. /\ T \in EndTypes /\ T.role = t.role /\ T.last = t.last /\ T.mode = t.mode
      /\ T.at = t.at /\ T.files = t.files /\ T.cancelling = t.cancelling
      /\ T.discarding = t.discarding /\ T.ceiling = t.ceiling /\ T.size = t.size
      /\ T.out = t.out /\ T.retries = t.retries /\ T.state = "Finished" /\ T.status = status
  BY <1>2, <1>4 DEF EndTypes, Stops
<1> HIDE DEF T
<1>6. SenderGivesUp(c, S, T, F)
  BY <1>1, <1>2, <1>4, <1>5 DEF SenderGivesUp, Running
<1>7. Matched(agreement, c, x, T, R, W \o T.out, Tail(V), F)
  <2>1. Matched(agreement, c, x, T, R, W, Tail(V), F)
    BY <1>6, GivingUp, SenderReads DEF Comes
  <2> QED
    BY <1>1, <1>2, <1>5, <2>1, SenderSays
<1>8. Answered(c, S, T, F)
  BY <1>1, <1>2, <1>4, <1>5 DEF Answered
<1> QED
  BY <1>3, <1>7, <1>8 DEF Goes

LEMMA AcknowledgedDoes ==
    ASSUME NEW c \in Nat, NEW x, NEW S, NEW R, NEW W, NEW V, NEW F, NEW flag, NEW fault,
           Comes(c, x, S, R, W, V, F), flag \in {"none", "Y", "Z"}, c = 0 => flag # "Z"
    PROVE  Goes(c, x, S, Acknowledged(S, flag, fault), R, W, V, F)
<1>1. Held(S).kind \in SenderKinds
  BY DEF Comes, Matched, Sending
<1>2. flag # "N" /\ flag # "X"
  OBVIOUS
<1> QED
  BY <1>1, <1>2, AfterSendInit, AfterFile, AfterAttributes, AfterData, AfterEndOfFile, AfterBreak
     DEF SenderKinds

\* What a step of a sender may do, for its user and for the size of packets.
Shrinks(S, T) ==
    /\ T.ceiling <= S.ceiling
    /\ S.state = "Data" /\ T.last = S.last /\ T.retries > S.retries /\ S.inFlight > LeastSize =>
          T.ceiling <= Most(S.inFlight \div 2, LeastSize)
SenderStep(c, S, T, F) ==
    /\ T.role = "send"
    /\ \/ T.files = S.files
       \/ /\ Running(S) /\ T.files = S.files + 1
          /\ S.files < SavedOf(F) \/ (c > 0 /\ S.files < Len(Files))
    /\ T.status # S.status =>
          /\ Running(S)
          /\ T.status = "Done" => c > 0 \/ S.files = Len(Files)
          /\ T.status = "Cancelled" => c > 0
    /\ Shrinks(S, T)
    /\ agreement.long /\ T.state = "Data" /\ T.last # S.last =>
          T.inFlight <= Least(LongRoom, S.ceiling)

LEMMA AnsweredSteps ==
    ASSUME NEW c, NEW S \in EndTypes, NEW T \in EndTypes, NEW F, Answered(c, S, T, F)
    PROVE  SenderStep(c, S, T, F)
BY EndFields DEF Answered, SenderStep, Shrinks

LEMMA HalvedDoes ==
    ASSUME NEW S \in EndTypes
    PROVE  LET T == Halved(S)
           IN  /\ T = [S EXCEPT !.ceiling = T.ceiling, !.size = T.size]
               /\ T.ceiling \in Nat \ {0} /\ T.size \in Nat \ {0} /\ T.ceiling <= S.ceiling
               /\ S.state = "Data" /\ S.inFlight > LeastSize =>
                     T.ceiling <= Most(S.inFlight \div 2, LeastSize)
<1> DEFINE ceiling == IF S.state = "Data" /\ S.inFlight > LeastSize
                      THEN Least(S.ceiling, Most(S.inFlight \div 2, LeastSize)) ELSE S.ceiling
           size == Least(Most(S.size \div 2, LeastSize), ceiling)
<1>1. /\ S.ceiling \in Nat \ {0} /\ S.size \in Nat /\ S.inFlight \in Nat
      /\ LeastSize \in Nat /\ LeastSize >= 2
  BY EndFields, NumbersAssumption
<1>2. S.inFlight \div 2 \in Nat /\ S.size \div 2 \in Nat
  BY <1>1
<1>3. /\ ceiling \in Nat \ {0} /\ ceiling <= S.ceiling
      /\ S.state = "Data" /\ S.inFlight > LeastSize => ceiling <= Most(S.inFlight \div 2, LeastSize)
  BY <1>1, <1>2 DEF Least, Most
<1>4. size \in Nat \ {0}
  <2> HIDE DEF ceiling
  <2> QED
    BY <1>1, <1>2, <1>3 DEF Least, Most
<1>5. Halved(S) = [S EXCEPT !.ceiling = ceiling, !.size = size]
  <2>1. CASE S.state = "Data" /\ S.inFlight > LeastSize
    <3> DEFINE cut == [S EXCEPT !.ceiling = ceiling]
    <3>1. cut.ceiling = ceiling
      BY DEF EndTypes
    <3>2. Halved(S) = [cut EXCEPT !.size = Least(Most(S.size \div 2, LeastSize), cut.ceiling)]
      BY <2>1 DEF Halved
    <3> HIDE DEF ceiling
    <3> QED
      BY <3>1, <3>2 DEF EndTypes
  <2>2. CASE ~(S.state = "Data" /\ S.inFlight > LeastSize)
    <3>1. ceiling = S.ceiling
      BY <2>2
    <3>2. Halved(S) = [S EXCEPT !.size = Least(Most(S.size \div 2, LeastSize), S.ceiling)]
      BY <2>2 DEF Halved
    <3> HIDE DEF ceiling
    <3> QED
      BY <3>1, <3>2 DEF EndTypes
  <2> QED
    BY <2>1, <2>2
<1> HIDE DEF ceiling, size
<1>6. Halved(S).ceiling = ceiling /\ Halved(S).size = size
  BY <1>5 DEF EndTypes
<1> QED
  BY <1>3, <1>4, <1>5, <1>6

\* The packet goes again, or the sender stops.
Tried(S, T) ==
    /\ SenderWaits(S, T)
    /\ \/ T.out = <<>>
       \/ /\ T.out = <<T.out[1]>> /\ T.out[1] \in Packets
          /\ T.out[1] = Held(S) \/ T.out[1].kind = "Error"
    /\ T.status = S.status \/ T.status = "Failed" \/ (T.status = "Done" /\ S.state = "Break")
    /\ T.cancelling = S.cancelling /\ Shrinks(S, T)

LEMMA AgainDoes ==
    ASSUME NEW S \in EndTypes, S.status = "Running", S.out = <<>>,
           S.last = <<Held(S)>>, Held(S) \in Packets
    PROVE  Tried(S, Again(S))
<1> DEFINE h == Halved(S)
           tried == [h EXCEPT !.retries = @ + 1]
           T == Again(S)
<1>1. /\ h = [S EXCEPT !.ceiling = h.ceiling, !.size = h.size]
      /\ h.ceiling \in Nat \ {0} /\ h.size \in Nat \ {0} /\ h.ceiling <= S.ceiling
      /\ S.state = "Data" /\ S.inFlight > LeastSize => h.ceiling <= Most(S.inFlight \div 2, LeastSize)
  BY HalvedDoes
<1>2. T = IF tried.retries <= Retries THEN Repeats(tried)
          ELSE IF S.state = "Break" THEN Stops(tried, "Done") ELSE Fails(tried, "Failed")
  BY DEF Again
<1> HIDE DEF h
<1> DEFINE u == tried
<1>3. tried = [S EXCEPT !.ceiling = h.ceiling, !.size = h.size, !.retries = S.retries + 1]
  <2>1. h.retries = S.retries
    BY <1>1 DEF EndTypes
  <2>2. tried = [h EXCEPT !.retries = S.retries + 1]
    BY <2>1
  <2> HIDE DEF tried
  <2> QED
    BY <1>1, <2>2 DEF EndTypes
<1> HIDE DEF tried, T
<1>4. S.retries + 1 \in Nat
  BY EndFields
<1>5. /\ u \in EndTypes /\ u.role = S.role /\ u.status = S.status /\ u.state = S.state
      /\ u.seq = S.seq /\ u.last = S.last /\ u.files = S.files /\ u.mode = S.mode
      /\ u.at = S.at /\ u.read = S.read /\ u.pending = S.pending /\ u.afterCr = S.afterCr
      /\ u.eof = S.eof /\ u.discarding = S.discarding /\ u.cancelling = S.cancelling
      /\ u.ceiling = h.ceiling /\ u.size = h.size /\ u.out = <<>>
  BY <1>1, <1>3, <1>4 DEF EndTypes
<1>6. CASE tried.retries <= Retries
  <2>1. T = [u EXCEPT !.out = u.last]
    BY <1>2, <1>6 DEF Repeats
  <2>2. u.last \in AtMostOne
    BY <1>5, EndFields
  <2> HIDE DEF u
  <2>3. /\ T \in EndTypes /\ T.role = u.role /\ T.status = u.status /\ T.state = u.state
        /\ T.seq = u.seq /\ T.last = u.last /\ T.files = u.files /\ T.mode = u.mode
        /\ T.at = u.at /\ T.read = u.read /\ T.pending = u.pending /\ T.afterCr = u.afterCr
        /\ T.eof = u.eof /\ T.discarding = u.discarding /\ T.cancelling = u.cancelling
        /\ T.ceiling = u.ceiling /\ T.size = u.size /\ T.out = u.last
    BY <1>5, <2>1, <2>2 DEF EndTypes
  <2>4. T.out = <<Held(S)>> /\ T.out[1] = Held(S)
    BY <1>5, <2>3
  <2> QED
    BY <1>1, <1>5, <2>3, <2>4 DEF Tried, SenderWaits, Shrinks, Running, T
<1>7. CASE ~(tried.retries <= Retries) /\ S.state = "Break"
  <2>1. T = [u EXCEPT !.state = "Finished", !.status = "Done"]
    BY <1>2, <1>7 DEF Stops
  <2> HIDE DEF u
  <2>2. /\ T \in EndTypes /\ T.role = u.role /\ T.status = "Done" /\ T.state = "Finished"
        /\ T.seq = u.seq /\ T.last = u.last /\ T.files = u.files /\ T.mode = u.mode
        /\ T.at = u.at /\ T.read = u.read /\ T.pending = u.pending /\ T.afterCr = u.afterCr
        /\ T.eof = u.eof /\ T.discarding = u.discarding /\ T.cancelling = u.cancelling
        /\ T.ceiling = u.ceiling /\ T.size = u.size /\ T.out = u.out
    BY <1>5, <2>1 DEF EndTypes
  <2> QED
    BY <1>1, <1>5, <1>7, <2>2 DEF Tried, SenderWaits, Shrinks, Running, T
<1>8. CASE ~(tried.retries <= Retries) /\ S.state # "Break"
  <2> DEFINE p == Packet(u, u.seq, "Error", "none", <<>>)
  <2>1. T = Fails(u, "Failed")
    BY <1>2, <1>8
  <2> HIDE DEF u
  <2>2. /\ Fails(u, "Failed") \in EndTypes /\ p \in Packets /\ p.kind = "Error"
        /\ Fails(u, "Failed").out = <<p>>
        /\ Fails(u, "Failed") = [u EXCEPT !.out = <<p>>, !.state = "Finished", !.status = "Failed"]
    BY <1>5, FailsDoes
  <2> HIDE DEF p
  <2>3. T \in EndTypes /\ T = [u EXCEPT !.out = <<p>>, !.state = "Finished", !.status = "Failed"]
    BY <2>1, <2>2
  <2>4. /\ T.role = u.role /\ T.status = "Failed" /\ T.state = "Finished"
        /\ T.last = u.last /\ T.files = u.files /\ T.mode = u.mode
        /\ T.at = u.at /\ T.read = u.read /\ T.pending = u.pending /\ T.afterCr = u.afterCr
        /\ T.eof = u.eof /\ T.discarding = u.discarding /\ T.cancelling = u.cancelling
        /\ T.ceiling = u.ceiling /\ T.size = u.size /\ T.out = <<p>>
    BY <1>5, <2>3 DEF EndTypes
  <2>5. T.out[1] = p
    BY <2>4
  <2> QED
    BY <1>1, <1>5, <2>2, <2>3, <2>4, <2>5 DEF Tried, SenderWaits, Shrinks, Running, T
<1> QED
  BY <1>6, <1>7, <1>8

LEMMA SenderStill ==
    ASSUME NEW c, NEW S \in EndTypes, NEW T \in EndTypes, NEW F,
           T.role = "send", T.files = S.files, T.last = S.last,
           T.status # S.status => /\ Running(S)
                                  /\ T.status = "Done" => c > 0 \/ S.files = Len(Files)
                                  /\ T.status = "Cancelled" => c > 0,
           Shrinks(S, T)
    PROVE  SenderStep(c, S, T, F)
BY DEF SenderStep

LEMMA SameShrinks ==
    ASSUME NEW S \in EndTypes, NEW T, T.ceiling = S.ceiling, T.retries = S.retries
    PROVE  Shrinks(S, T)
BY EndFields DEF Shrinks

LEMMA AgainGoes ==
    ASSUME NEW c \in Nat, NEW x, NEW S, NEW R, NEW W, NEW V, NEW F,
           Matched(agreement, c, x, S, R, W, V, F), Running(S), S.out = <<>>
    PROVE  /\ Matched(agreement, c, x, Again(S), R, W \o Again(S).out, V, F)
           /\ SenderStep(c, S, Again(S), F)
<1> DEFINE T == Again(S)
<1>1. /\ S \in EndTypes /\ S.status = "Running" /\ S.last = <<Held(S)>> /\ Held(S) \in Packets
      /\ S.role = "send" /\ S.state = Held(S).kind
      /\ S.state = "Break" => c > 0 \/ S.files = Len(Files)
  BY DEF Matched, Sending, Running, Counts
<1>2. Tried(S, T)
  BY <1>1, AgainDoes
<1> HIDE DEF T
<1>3. Matched(agreement, c, x, T, R, W, V, F)
  BY <1>2, WaitingSender DEF Tried
<1>4. Held(T) = Held(S)
  BY <1>2 DEF Tried, SenderWaits, Held
<1>5. Matched(agreement, c, x, T, R, W \o T.out, V, F)
  BY <1>2, <1>3, <1>4, SenderSays DEF Tried, Stray
<1>6. SenderStep(c, S, T, F)
  <2>1. T \in EndTypes /\ T.role = "send" /\ T.files = S.files /\ T.last = S.last /\ Shrinks(S, T)
    BY <1>1, <1>2 DEF Tried, SenderWaits
  <2>2. T.status # S.status => /\ Running(S)
                               /\ T.status = "Done" => c > 0 \/ S.files = Len(Files)
                               /\ T.status = "Cancelled" => c > 0
    BY <1>1, <1>2 DEF Tried
  <2> QED
    BY <1>1, <2>1, <2>2, SenderStill
<1> QED
  BY <1>5, <1>6 DEF T

\* A sender told that the far end has stopped.
LEMMA SenderStopped ==
    ASSUME NEW c \in Nat, NEW x, NEW S, NEW R, NEW W, NEW V, NEW F,
           Matched(agreement, c, x, S, R, W, V, F), Running(S), S.out = <<>>
    PROVE  /\ Matched(agreement, c, x, Stops(S, "Failed"), R, W \o Stops(S, "Failed").out, V, F)
           /\ SenderStep(c, S, Stops(S, "Failed"), F)
<1> DEFINE T == Stops(S, "Failed")
<1>1. S \in EndTypes /\ S.role = "send"
  BY DEF Matched, Sending
<1>2. T = [S EXCEPT !.state = "Finished", !.status = "Failed"]
  BY DEF Stops
<1> HIDE DEF T
<1>3. /\ T \in EndTypes /\ T.role = S.role /\ T.status = "Failed" /\ T.state = "Finished"
      /\ T.last = S.last /\ T.files = S.files /\ T.mode = S.mode
      /\ T.at = S.at /\ T.read = S.read /\ T.pending = S.pending /\ T.afterCr = S.afterCr
      /\ T.eof = S.eof /\ T.discarding = S.discarding /\ T.cancelling = S.cancelling
      /\ T.ceiling = S.ceiling /\ T.size = S.size /\ T.out = S.out /\ T.retries = S.retries
  BY <1>1, <1>2 DEF EndTypes
<1>4. SenderWaits(S, T)
  BY <1>3 DEF SenderWaits, Running
<1>5. Matched(agreement, c, x, T, R, W, V, F)
  BY <1>3, <1>4, WaitingSender
<1>6. Matched(agreement, c, x, T, R, W \o T.out, V, F)
  BY <1>3, <1>5, SenderSays
<1>7. SenderStep(c, S, T, F)
  BY <1>1, <1>3, SameShrinks, SenderStill
<1> QED
  BY <1>6, <1>7 DEF T

LEMMA SenderHearsDoes ==
    ASSUME NEW c \in Nat, NEW x, NEW S, NEW R, NEW W, NEW V, NEW F, NEW fault,
           Matched(agreement, c, x, S, R, W, V, F), agreement \in Agreements,
           S.out = <<>>, V # <<>>
    PROVE  LET T == SenderHears(S, V[1], fault)
           IN  /\ Matched(agreement, c, x, T, R, W \o T.out, Tail(V), F)
               /\ SenderStep(c, S, T, F)
<1> DEFINE p == V[1]
           T == SenderHears(S, p, fault)
           U == Tail(V)
<1>1. /\ S \in EndTypes /\ S.role = "send" /\ V \in Seq(Packets) /\ p \in Packets
      /\ 1 \in 1 .. Len(V) /\ Held(S) \in Packets
  BY OneLess DEF Matched, Sending, OnReturn
<1>2. Matched(agreement, c, x, S, R, W, U, F)
  BY SenderReads
<1>3. /\ p.kind = "Error" \/ OldWord(S, p) \/ (NewWord(S, p) /\ Ahead(S, R))
      /\ p.flag \in {"none", "Y", "Z"} /\ (c = 0 => p.flag # "Z")
  BY <1>1 DEF Matched, OnReturn, Counts
<1>4. p.kind \in {"Error", "Ack", "Nak"}
  BY <1>3 DEF OldWord, NewWord
<1> DEFINE Good(t) == /\ Matched(agreement, c, x, t, R, W \o t.out, U, F)
                      /\ SenderStep(c, S, t, F)
<1>5. Good(S)
  <2>1. Matched(agreement, c, x, S, R, W \o S.out, U, F)
    BY <1>2, SenderSays
  <2>2. SenderStep(c, S, S, F)
    BY <1>1, SameShrinks, SenderStill
  <2> QED
    BY <2>1, <2>2
<1>6. CASE ~(Running(S) /\ p.check = S.check)
  BY <1>5, <1>6 DEF SenderHears
<1>7. CASE Running(S) /\ p.check = S.check
  <2>1. T = SenderTakes(S, p, fault)
    BY <1>7 DEF SenderHears
  <2>2. S.seq = Held(S).seq /\ S.state = Held(S).kind
    BY <1>7 DEF Matched, Sending
  <2>3. ASSUME NewWord(S, p), NEW flag \in {"none", "Y", "Z"}, c = 0 => flag # "Z"
        PROVE  Good(Acknowledged(S, flag, fault))
    <3>1. Comes(c, x, S, R, W, V, F)
      BY <1>1, <1>3, <1>7, <2>3, OldOrNew DEF Comes, NewWord
    <3>2. Goes(c, x, S, Acknowledged(S, flag, fault), R, W, V, F)
      BY <2>3, <3>1, AcknowledgedDoes
    <3> DEFINE t == Acknowledged(S, flag, fault)
    <3> HIDE DEF t
    <3>3. Goes(c, x, S, t, R, W, V, F)
      BY <3>2 DEF t
    <3>4. t \in EndTypes
      BY <3>3 DEF Goes, Matched, Sending
    <3>5. Good(t)
      BY <1>1, <3>3, <3>4, AnsweredSteps DEF Goes
    <3> QED
      BY <3>5 DEF t
  <2>4. CASE p.kind = "Error"
    <3>1. T = Stops(S, "Failed")
      BY <2>1, <2>4 DEF SenderTakes, Answers, NakAcknowledges
    <3>2. Good(Stops(S, "Failed"))
      BY <1>2, <1>7, SenderStopped
    <3> QED
      BY <3>1, <3>2
  <2>5. CASE p.kind = "Ack" /\ p.seq = S.seq
    <3>1. T = Acknowledged(S, p.flag, fault)
      BY <2>1, <2>5 DEF SenderTakes, Answers, NakAcknowledges
    <3>2. Good(Acknowledged(S, p.flag, fault))
      BY <1>3, <2>2, <2>3, <2>5 DEF NewWord
    <3> QED
      BY <3>1, <3>2
  <2>6. CASE p.kind = "Ack" /\ p.seq # S.seq
    <3>1. T = S
      BY <2>1, <2>6 DEF SenderTakes, Answers, NakAcknowledges
    <3> QED
      BY <1>5, <3>1
  <2>7. CASE NakAcknowledges(S, p)
    <3>1. T = Acknowledged(S, "none", fault)
      BY <2>1, <2>7 DEF SenderTakes, Answers, NakAcknowledges
    <3>2. Good(Acknowledged(S, "none", fault))
      BY <2>2, <2>3, <2>7 DEF NewWord, NakAcknowledges
    <3> QED
      BY <3>1, <3>2
  <2>8. CASE p.kind = "Nak" /\ ~NakAcknowledges(S, p) /\ p.seq \in {S.seq, NextSeq(S.seq)}
    <3>1. T = Again(S)
      BY <2>1, <2>8 DEF SenderTakes, Answers
    <3>2. Good(Again(S))
      BY <1>2, <1>7, AgainGoes
    <3> QED
      BY <3>1, <3>2
  <2>9. CASE p.kind = "Nak" /\ ~NakAcknowledges(S, p) /\ p.seq \notin {S.seq, NextSeq(S.seq)}
    <3>1. T = S
      BY <2>1, <2>9 DEF SenderTakes, Answers
    <3> QED
      BY <1>5, <3>1
  <2> QED
    BY <1>4, <2>4, <2>5, <2>6, <2>7, <2>8, <2>9
<1> QED
  BY <1>6, <1>7

\* The sender's user cancels.
LEMMA SenderCancels ==
    ASSUME NEW c \in Nat, NEW x, NEW S, NEW R, NEW W, NEW V, NEW F,
           Matched(agreement, c, x, S, R, W, V, F), Running(S), S.out = <<>>
    PROVE  LET T == SenderCancel(S)
           IN  /\ Matched(agreement, c + 1, x, T, R, W \o T.out, V, F)
               /\ SenderStep(c + 1, S, T, F)
<1> DEFINE T == SenderCancel(S)
<1>1. S \in EndTypes /\ S.role = "send" /\ c + 1 \in Nat /\ c + 1 > 0
  BY DEF Matched, Sending
<1>2. CASE S.state \in {"Data", "EndOfFile"} /\ ~S.cancelling
  <2>1. T = [S EXCEPT !.cancelling = TRUE]
    BY <1>2 DEF SenderCancel
  <2> HIDE DEF T
  <2>2. /\ T \in EndTypes /\ T.role = S.role /\ T.status = S.status /\ T.state = S.state
        /\ T.last = S.last /\ T.files = S.files /\ T.mode = S.mode /\ T.seq = S.seq
        /\ T.at = S.at /\ T.read = S.read /\ T.pending = S.pending /\ T.afterCr = S.afterCr
        /\ T.eof = S.eof /\ T.discarding = S.discarding
        /\ T.ceiling = S.ceiling /\ T.size = S.size /\ T.out = S.out /\ T.retries = S.retries
    BY <1>1, <2>1 DEF EndTypes
  <2>3. SenderWaits(S, T)
    BY <2>2 DEF SenderWaits, Running, Matched, Sending
  <2>4. Matched(agreement, c + 1, x, T, R, W, V, F)
    BY <1>1, <2>3, WaitingSender
  <2>5. Matched(agreement, c + 1, x, T, R, W \o T.out, V, F)
    BY <2>2, <2>4, SenderSays
  <2>6. SenderStep(c + 1, S, T, F)
    BY <1>1, <2>2, SameShrinks, SenderStill
  <2> QED
    BY <2>5, <2>6 DEF T
<1>3. CASE ~(S.state \in {"Data", "EndOfFile"} /\ ~S.cancelling)
  <2> DEFINE p == Packet(S, S.seq, "Error", "none", <<>>)
  <2>1. T = Fails(S, "Cancelled")
    BY <1>3 DEF SenderCancel, Fails
  <2>2. /\ Fails(S, "Cancelled") \in EndTypes /\ p \in Packets /\ p.kind = "Error"
        /\ Fails(S, "Cancelled").out = <<p>>
        /\ Fails(S, "Cancelled") = [S EXCEPT !.out = <<p>>, !.state = "Finished", !.status = "Cancelled"]
    BY <1>1, FailsDoes
  <2> HIDE DEF p, T
  <2>3. T \in EndTypes /\ T = [S EXCEPT !.out = <<p>>, !.state = "Finished", !.status = "Cancelled"]
    BY <2>1, <2>2
  <2>4. /\ T.role = S.role /\ T.status = "Cancelled" /\ T.state = "Finished"
        /\ T.last = S.last /\ T.files = S.files /\ T.mode = S.mode
        /\ T.at = S.at /\ T.read = S.read /\ T.pending = S.pending /\ T.afterCr = S.afterCr
        /\ T.eof = S.eof /\ T.discarding = S.discarding
        /\ T.ceiling = S.ceiling /\ T.size = S.size /\ T.out = <<p>> /\ T.retries = S.retries
    BY <1>1, <2>3 DEF EndTypes
  <2>5. SenderWaits(S, T)
    BY <2>3, <2>4 DEF SenderWaits, Running
  <2>6. Matched(agreement, c + 1, x, T, R, W, V, F)
    BY <1>1, <2>5, WaitingSender
  <2>7. Matched(agreement, c + 1, x, T, R, W \o T.out, V, F)
    <3>1. T.out[1] = p
      BY <2>4
    <3> QED
      BY <2>2, <2>4, <2>6, <3>1, SenderSays DEF Stray
  <2>8. SenderStep(c + 1, S, T, F)
    BY <1>1, <2>3, <2>4, SameShrinks, SenderStill, ZenonT(60)
  <2> QED
    BY <2>7, <2>8 DEF T
<1> QED
  BY <1>2, <1>3

-----------------------------------------------------------------------------
(* The receiver hears a packet.                                             *)

\* What an answer leaves of a receiver.
AckSent(r, T, flag) ==
    /\ T \in EndTypes /\ T.last = <<Held(T)>> /\ T.out = <<Held(T)>> /\ Held(T) \in Packets
    /\ Held(T).kind = "Ack" /\ Held(T).seq = r.seq /\ Held(T).flag = flag
    /\ T.seq = NextSeq(r.seq) /\ T.role = r.role /\ T.status = r.status /\ T.state = r.state
    /\ T.cancelling = r.cancelling /\ T.mode = r.mode /\ T.held = r.held /\ T.open = r.open

LEMMA AcksDoes ==
    ASSUME NEW r \in EndTypes, NEW flag \in Flags
    PROVE  AckSent(r, Acks(r, flag), flag)
<1> DEFINE p == Packet(r, r.seq, "Ack", flag, <<>>)
           T == Acks(r, flag)
           n == NextSeq(r.seq)
<1>1. r.seq \in Numbers /\ "Ack" \in Kinds /\ r.check \in {"one", "three"} /\ <<>> \in Texts
      /\ n \in Numbers
  BY EndFields, TextTypes, Neighbours DEF Kinds
<1>2. p \in Packets /\ p.seq = r.seq /\ p.kind = "Ack" /\ p.flag = flag
  BY <1>1 DEF Packet, Packets
<1> HIDE DEF n
<1>3. T = [r EXCEPT !.last = <<p>>, !.retries = 0, !.out = <<p>>, !.seq = n]
  BY DEF Acks, Sends, EndTypes, n
<1> HIDE DEF p, T
<1>4. <<p>> \in AtMostOne
  BY <1>2 DEF AtMostOne
<1>5. T \in EndTypes /\ T.last = <<p>> /\ T.out = <<p>> /\ T.seq = n
  BY <1>1, <1>3, <1>4 DEF EndTypes
<1>6. Held(T) = p
  BY <1>5 DEF Held
<1>7. /\ T.role = r.role /\ T.status = r.status /\ T.state = r.state
      /\ T.cancelling = r.cancelling /\ T.mode = r.mode /\ T.held = r.held /\ T.open = r.open
  BY <1>3 DEF EndTypes
<1> QED
  BY <1>2, <1>5, <1>6, <1>7 DEF AckSent, T, n

\* What a step of a receiver may do, for its user.
ReceiverStep(c, R, Q, F, E) ==
    /\ Q.role = "receive"
    /\ \/ SavedOf(E) = SavedOf(F)
       \/ /\ Running(R) /\ Q.status = R.status
          /\ SavedOf(F) < Len(Files) /\ SavedOf(E) = SavedOf(F) + 1
    /\ Q.status # R.status =>
          /\ Running(R)
          /\ Q.status = "Done" => c > 0 \/ SavedOf(F) = Len(Files)
          /\ Q.status = "Cancelled" => c > 0

\* What the packet taken has to leave for the two ends still to match.
LEMMA Taking ==
    ASSUME NEW a, NEW c \in Nat, NEW x, NEW y, NEW S, NEW R, NEW Q, NEW W, NEW V, NEW F, NEW E,
           Matched(a, c, x, S, R, W, V, F), Level(S, R), W # <<>>,
           Held(S).kind = "SendInit" \/ (~Stray(W[1]) /\ ~Older(S, W[1])),
           Q.seq = NextSeq(R.seq), Q.out = <<Held(Q)>>, Held(Q) \in Packets,
           Held(Q).kind = "Ack", Held(Q).seq = R.seq, Held(Q).flag \in {"none", "Y", "Z"},
           c = 0 => Held(Q).flag # "Z",
           Receiving(a, y, Q, E),
           Running(Q) => Q.state = After(Held(S).kind) /\ Held(S).kind # "Break",
           Running(Q) /\ ~Q.cancelling => Len(E) = S.at,
           Contents(a, S, Q, E), Counts(c, S, Q, V, E)
    PROVE  Matched(a, c, y, S, Q, Tail(W), V \o Q.out, E)
<1>1. Held(S) \in Packets /\ Held(S).seq \in Numbers
  BY PacketFields DEF Matched, Sending
<1>2. Ahead(S, Q) /\ ~Level(S, Q)
  BY <1>1, Neighbours DEF Level, Ahead
<1>3. Stance(S, Q, E)
  BY <1>2 DEF Stance
<1>4. OnWire(S, Q, Tail(W))
  BY WireTaken DEF Matched
<1>5. OnReturn(S, Q, V)
  BY <1>1, ReturnTaken DEF Matched
<1>6. Reading(S, Q)
  BY <1>2 DEF Matched, Reading
<1>7. Matched(a, c, y, S, Q, Tail(W), V, E)
  BY <1>3, <1>4, <1>5, <1>6 DEF Matched
<1>8. Q.out[1] = Held(Q) /\ NewWord(S, Held(Q))
  BY DEF NewWord, Level
<1> QED
  BY <1>2, <1>7, <1>8, ReceiverSays

\* The parameters come, for a receiver that waits for them.
LEMMA TakesSendInit ==
    ASSUME NEW c \in Nat, NEW x, NEW S, NEW R, NEW W, NEW V, NEW F,
           Matched(agreement, c, x, S, R, W, V, F), agreement \in Agreements,
           Running(R), Level(S, R), W # <<>>, R.state = "SendInit"
    PROVE  LET Q == HearSendInit(R, F).e
           IN  /\ Matched(agreement, c, x, S, Q, Tail(W), V \o Q.out, F)
               /\ ReceiverStep(c, R, Q, F, F)
<1> DEFINE t == Acks(R, "none")
           Q == [t EXCEPT !.state = "File", !.check = agreement.check]
<1>1. R \in EndTypes /\ R.role = "receive" /\ ~R.open /\ "none" \in Flags
      /\ R.status = "Running"
  BY DEF Matched, Receiving, Flags, Running
<1>2. AckSent(R, t, "none")
  BY <1>1, AcksDoes
<1>3. HearSendInit(R, F).e = Q
  BY DEF HearSendInit, With
<1> HIDE DEF t
<1>4. /\ Q \in EndTypes /\ Q.last = t.last /\ Q.out = t.out
      /\ Q.seq = t.seq /\ Q.role = t.role /\ Q.status = t.status /\ Q.state = "File"
      /\ Q.cancelling = t.cancelling /\ Q.mode = t.mode /\ Q.held = t.held /\ Q.open = t.open
  <2>1. agreement.check \in {"one", "three"}
    BY AgreementsAssumption
  <2>2. t \in EndTypes
    BY <1>2 DEF AckSent
  <2> DEFINE check == agreement.check
  <2>3. Q = [t EXCEPT !.state = "File", !.check = check] /\ check \in {"one", "three"}
    BY <2>1
  <2> HIDE DEF Q, check
  <2>4. "File" \in SenderKinds
    BY DEF SenderKinds
  <2> QED
    BY <2>2, <2>3, <2>4 DEF EndTypes
<1> HIDE DEF Q
<1>5. Held(Q) = Held(t)
  BY <1>4 DEF Held
<1>6. Held(S).kind = "SendInit"
  BY <1>1 DEF Matched, Stance, Before, Sending
<1>7. S.at \in Nat /\ (Len(F) = S.at \/ R.cancelling)
  BY <1>6, EndFields DEF Matched, Sending, Stance, Running
<1>8. R.seq \in Numbers /\ PreviousSeq(NextSeq(R.seq)) = R.seq
  BY <1>1, EndFields, Neighbours
<1>9. Receiving(agreement, x, Q, F)
  BY <1>1, <1>2, <1>4, <1>5, <1>8 DEF Matched, Receiving, AckSent, Running
<1>10. Contents(agreement, S, Q, F)
  BY <1>1, <1>2, <1>4 DEF Contents, AckSent
<1>11. Counts(c, S, Q, V, F)
  BY <1>2, <1>4, <1>5, <1>6 DEF Matched, Counts, AckSent
<1>12. Matched(agreement, c, x, S, Q, Tail(W), V \o Q.out, F)
  BY <1>2, <1>4, <1>5, <1>6, <1>7, <1>9, <1>10, <1>11, Taking DEF AckSent, After
<1>13. ReceiverStep(c, R, Q, F, F)
  BY <1>1, <1>2, <1>4 DEF ReceiverStep, AckSent
<1> QED
  BY <1>3, <1>12, <1>13

\* A receiver stops, and what is open goes.
Leaves(a, c, y, S, R, h, W, V, F) ==
    /\ Matched(a, c, y, S, h.e, W, V \o h.e.out, h.folder)
    /\ ReceiverStep(c, R, h.e, F, h.folder)

\* One that is about to, with the folder as it was, or with the last file not closed.
Stopping(c, d, y, R, q, F, G) ==
    /\ q \in EndTypes /\ q.role = R.role /\ q.last = R.last /\ q.seq = R.seq
    /\ q.status \in {"Failed", "Cancelled", "BothReceiving"} /\ q.state = "Finished"
    /\ q.status = "Cancelled" => d > 0
    /\ d > 0 \/ (d = c /\ (q.cancelling => R.cancelling))
    /\ \/ q.out = <<>>
       \/ /\ q.out = <<q.out[1]>> /\ q.out[1] \in Packets
          /\ q.out[1].kind = "Error" /\ q.out[1].flag = "none"
    /\ \/ (q.open <=> R.open) /\ G = F
       \/ /\ ~q.open /\ R.open /\ y /\ G \in Folders /\ Len(G) = Len(F) /\ G # <<>>
          /\ ~G[Len(G)].saved
          /\ \A i \in 1 .. Len(F) - 1 : G[i] = F[i]

LEMMA TidiedLeaves ==
    ASSUME NEW a, NEW c \in Nat, NEW d \in Nat, NEW x \in BOOLEAN, NEW y \in BOOLEAN, x => y,
           NEW S, NEW R, NEW W, NEW V, NEW F, NEW G, NEW q,
           Matched(a, c, x, S, R, W, V, F), Running(R), Stopping(c, d, y, R, q, F, G)
    PROVE  Leaves(a, d, y, S, R, Tidied(q, G), W, V, F)
<1> DEFINE Q == [q EXCEPT !.open = FALSE]
           E == IF q.open THEN Removed(G) ELSE G
           h == Tidied(q, G)
<1>1. h.e = Q /\ h.folder = E
  BY DEF Tidied, With
<1>2. /\ Q \in EndTypes /\ Q.role = q.role /\ Q.last = q.last /\ Q.seq = q.seq
      /\ Q.status = q.status /\ Q.state = q.state /\ Q.cancelling = q.cancelling
      /\ Q.out = q.out /\ ~Q.open
  BY DEF Stopping, EndTypes
<1> HIDE DEF Q, h
<1>3. ReceiverStops(x, y, R, Q, F, E)
  <2>1. ~Running(Q)
    BY <1>2 DEF Running, Stopping
  <2>2. CASE (q.open <=> R.open) /\ G = F
    BY <1>2, <2>1, <2>2 DEF ReceiverStops, Stopping
  <2>3. CASE ~((q.open <=> R.open) /\ G = F)
    BY <1>2, <2>1, <2>3 DEF ReceiverStops, Stopping
  <2> QED
    BY <2>2, <2>3
<1> HIDE DEF E
<1>4. Matched(a, d, y, S, Q, W, V, E) /\ SavedOf(E) = SavedOf(F)
  <2>1. Matched(a, d, y, S, Q, W, V, E)
    BY <1>2, <1>3, StoppingReceiver DEF Stopping
  <2>2. SavedOf(E) = SavedOf(F)
    BY <1>3, StoppedFolder DEF Matched
  <2> QED
    BY <2>1, <2>2
<1>5. Matched(a, d, y, S, Q, W, V \o Q.out, E)
  BY <1>2, <1>4, ReceiverSays DEF Stopping
<1>6. ReceiverStep(d, R, Q, F, E)
  BY <1>2, <1>4 DEF ReceiverStep, Stopping, Matched, Receiving
<1> QED
  BY <1>1, <1>5, <1>6 DEF Leaves, h

\* It fails, and says so.
LEMMA FailsLeaves ==
    ASSUME NEW a, NEW c \in Nat, NEW x \in BOOLEAN, NEW y \in BOOLEAN, x => y,
           NEW S, NEW R, NEW W, NEW V, NEW F, NEW G, NEW r \in EndTypes,
           NEW why \in {"Failed", "BothReceiving"},
           Matched(a, c, x, S, R, W, V, F), Running(R),
           r.role = R.role, r.last = R.last, r.seq = R.seq,
           c > 0 \/ (r.cancelling => R.cancelling),
           \/ (r.open <=> R.open) /\ G = F
           \/ /\ ~r.open /\ R.open /\ y /\ G \in Folders /\ Len(G) = Len(F) /\ G # <<>>
              /\ ~G[Len(G)].saved
              /\ \A i \in 1 .. Len(F) - 1 : G[i] = F[i]
    PROVE  Leaves(a, c, y, S, R, ReceiverFails(r, G, why), W, V, F)
<1> DEFINE p == Packet(r, r.seq, "Error", "none", <<>>)
           q == Fails(r, why)
<1>0. why \in {"Cancelled", "Failed", "BothSending", "BothReceiving"}
  OBVIOUS
<1>1. /\ q \in EndTypes /\ p \in Packets /\ p.kind = "Error" /\ p.flag = "none" /\ q.out = <<p>>
      /\ q = [r EXCEPT !.out = <<p>>, !.state = "Finished", !.status = why]
  <2>1. p \in Packets /\ p.kind = "Error" /\ p.flag = "none"
    BY <1>0, FailsDoes
  <2>3. q \in EndTypes /\ q.out = <<p>>
    BY <1>0, FailsSays, Zenon
  <2>2. q = [r EXCEPT !.out = <<p>>, !.state = "Finished", !.status = why]
    BY <1>0, FailsSays, Zenon
  <2> QED
    BY <2>1, <2>2, <2>3
<1> HIDE DEF p, q
<1>2. /\ q.role = r.role /\ q.last = r.last /\ q.seq = r.seq /\ q.status = why
      /\ q.state = "Finished" /\ q.cancelling = r.cancelling /\ (q.open <=> r.open)
  BY <1>1 DEF EndTypes
<1>3. q.out[1] = p
  BY <1>1
<1>4. Stopping(c, c, y, R, q, F, G)
  BY <1>1, <1>2, <1>3 DEF Stopping
<1>5. Leaves(a, c, y, S, R, Tidied(q, G), W, V, F)
  BY <1>4, TidiedLeaves
<1> QED
  BY <1>5 DEF ReceiverFails, q

LEMMA LeavesRead ==
    ASSUME NEW a, NEW c, NEW y, NEW S, NEW R, NEW h, NEW W, NEW V, NEW F, W # <<>>,
           Leaves(a, c, y, S, R, h, W, V, F)
    PROVE  Leaves(a, c, y, S, R, h, Tail(W), V, F)
BY ReceiverReads DEF Leaves
-----------------------------------------------------------------------------
(* A packet comes in its turn. *)

Due(c, x, S, R, W, V, F) ==
    /\ Matched(agreement, c, x, S, R, W, V, F) /\ agreement \in Agreements
    /\ Running(R) /\ Level(S, R) /\ W # <<>>
    /\ Like(W[1], Held(S)) /\ W[1].kind # "SendInit"

LEMMA DueFacts ==
    ASSUME NEW c, NEW x, NEW S, NEW R, NEW W, NEW V, NEW F, Due(c, x, S, R, W, V, F)
    PROVE  /\ R \in EndTypes /\ R.role = "receive" /\ R.status = "Running" /\ R.seq \in Numbers
           /\ PreviousSeq(NextSeq(R.seq)) = R.seq
           /\ F \in Folders /\ Len(F) \in Nat /\ S.at \in Nat /\ Len(Files) \in Nat
           /\ S \in EndTypes /\ S.files \in Nat /\ S.files <= S.at /\ S.at <= Len(Files)
           /\ Held(S) \in Packets /\ W[1] \in Packets
           /\ W[1].kind = Held(S).kind /\ W[1].flag = Held(S).flag /\ W[1].data = Held(S).data
           /\ ~Stray(W[1]) /\ ~Older(S, W[1]) /\ Held(S).kind \in SenderKinds
           /\ R.state = Before(Held(S).kind)
<1>1. /\ R \in EndTypes /\ R.role = "receive" /\ R.status = "Running" /\ F \in Folders
      /\ S \in EndTypes /\ Held(S) \in Packets /\ Held(S).kind \in SenderKinds
      /\ S.files <= S.at /\ S.at <= Len(Files) /\ R.state = Before(Held(S).kind)
      /\ W \in Seq(Packets)
  BY DEF Due, Matched, Sending, Receiving, Stance, OnWire, Running
<1>2. R.seq \in Numbers /\ S.at \in Nat /\ S.files \in Nat
  BY <1>1, EndFields
<1>3. Len(F) \in Nat /\ Len(Files) \in Nat
  BY <1>1, NumberOfFiles DEF Folders
<1>4. W[1] \in Packets
  BY <1>1, OneLess DEF Due
<1>5. /\ W[1].kind = Held(S).kind /\ W[1].flag = Held(S).flag /\ W[1].data = Held(S).data
      /\ W[1].seq = Held(S).seq
  BY <1>1, <1>4, LikeFields DEF Due
<1>6. ~Stray(W[1])
  BY <1>1, <1>5 DEF Stray, SenderKinds, Due
<1>7. ~Older(S, W[1])
  BY <1>1, <1>5, PacketFields, Neighbours DEF Older
<1>8. PreviousSeq(NextSeq(R.seq)) = R.seq
  BY <1>2, Neighbours
<1> QED
  BY <1>1, <1>2, <1>3, <1>4, <1>5, <1>6, <1>7, <1>8

\* What is saved, where all is, and where all but the last is.
LEMMA SavedAll ==
    ASSUME NEW F \in Folders
    PROVE  /\ (\A i \in 1 .. Len(F) : F[i].saved) => SavedOf(F) = Len(F)
           /\ F # <<>> /\ ~F[Len(F)].saved => SavedOf(F) = Len(F) - 1
           /\ SavedOf(F) \in Nat /\ Len(F) \in Nat
           /\ F # <<>> => Len(F) \in 1 .. Len(F)
<1>1. Len(F) \in Nat /\ (F # <<>> => Len(F) \in 1 .. Len(F))
  BY DEF Folders
<1> QED
  BY <1>1 DEF SavedOf

\* A file's name: what the receiver does.
LEMMA TakesFile ==
    ASSUME NEW c \in Nat, NEW x \in BOOLEAN, NEW y \in BOOLEAN, x => y,
           NEW S, NEW R, NEW W, NEW V, NEW F, NEW fault,
           Due(c, x, S, R, W, V, F), Held(S).kind = "File", fault \notin {"name", "create"}
    PROVE  Leaves(agreement, c, y, S, R, HearFile(R, F, fault), Tail(W), V, F)
<1> DEFINE t == Acks(R, "none")
           Q == [t EXCEPT !.open = TRUE, !.held = FALSE, !.mode = Setting, !.state = "Data"]
           E == Created(F)
           h == HearFile(R, F, fault)
<1>1. h.e = Q /\ h.folder = E
  BY DEF HearFile, With
<1>2. AckSent(R, t, "none")
  BY DueFacts, AcksDoes DEF Flags
<1> HIDE DEF t
<1>3. /\ Q \in EndTypes /\ Q.last = t.last /\ Q.out = t.out
      /\ Q.seq = t.seq /\ Q.role = t.role /\ Q.status = t.status /\ Q.state = "Data"
      /\ Q.cancelling = t.cancelling /\ Q.mode = Setting /\ ~Q.held /\ Q.open
  <2>1. t \in EndTypes
    BY <1>2 DEF AckSent
  <2>2. "Data" \in SenderKinds /\ Setting \in Modes
    BY FilesAssumption DEF SenderKinds
  <2> QED
    BY <2>1, <2>2 DEF EndTypes
<1> HIDE DEF Q
<1>4. Held(Q) = Held(t) /\ Running(Q)
  BY <1>2, <1>3, DueFacts DEF Held, AckSent, Running
<1>5. /\ ~R.open /\ \A i \in 1 .. Len(F) : F[i].saved
      /\ R.cancelling \/ Len(F) = S.at - 1
  BY DueFacts DEF Due, Matched, Receiving, Stance, Before, Going
<1>6. /\ E \in Folders /\ Len(E) = Len(F) + 1 /\ E # <<>>
      /\ E[Len(E)] = [bytes |-> <<>>, saved |-> FALSE] /\ \A i \in 1 .. Len(F) : E[i] = F[i]
  BY DueFacts, FolderCreated
<1> HIDE DEF E
<1>7. SavedOf(E) = SavedOf(F)
  BY <1>5, <1>6, DueFacts, SavedAll
<1>8. \A i \in 1 .. Len(E) : i = Len(E) \/ i \in 1 .. Len(F)
  BY <1>6, DueFacts
<1>9. Receiving(agreement, y, Q, E)
  <2>1. \A i \in 1 .. Len(E) - 1 : E[i].saved
    BY <1>5, <1>6, DueFacts
  <2>2. \A i \in 1 .. Len(E) : E[i].saved =>
           i <= Len(Files) /\ (Roomy => E[i].bytes = Wanted(agreement, i))
    BY <1>6, <1>8 DEF Due, Matched, Receiving
  <2> QED
    BY <1>2, <1>3, <1>4, <1>6, <2>1, <2>2, DueFacts DEF Receiving, AckSent
<1>10. Contents(agreement, S, Q, E)
  <2>1. ~agreement.attributes => S.mode = Setting
    BY DEF Due, Matched, Sending, InFile, ModeUnder
  <2> QED
    BY <1>3, <1>6, <2>1 DEF Contents, Going
<1>11. Counts(c, S, Q, V, E)
  BY <1>2, <1>3, <1>4, <1>7 DEF Due, Matched, Counts, AckSent
<1>12. Matched(agreement, c, y, S, Q, Tail(W), V \o Q.out, E)
  <2>1. Running(Q) => Q.state = After(Held(S).kind) /\ Held(S).kind # "Break"
    BY <1>3 DEF After
  <2>2. Running(Q) /\ ~Q.cancelling => Len(E) = S.at
    BY <1>2, <1>3, <1>5, <1>6, DueFacts DEF AckSent
  <2>3. /\ Q.seq = NextSeq(R.seq) /\ Q.out = <<Held(Q)>> /\ Held(Q) \in Packets
        /\ Held(Q).kind = "Ack" /\ Held(Q).seq = R.seq /\ Held(Q).flag \in {"none", "Y", "Z"}
        /\ (c = 0 => Held(Q).flag # "Z")
    BY <1>2, <1>3, <1>4 DEF AckSent
  <2> QED
    BY <1>9, <1>10, <1>11, <2>1, <2>2, <2>3, DueFacts, Taking DEF Due
<1>13. ReceiverStep(c, R, Q, F, E)
  BY <1>2, <1>3, <1>7, DueFacts DEF ReceiverStep, AckSent
<1> QED
  BY <1>1, <1>12, <1>13 DEF Leaves, h
\* The end of the transfer.
LEMMA TakesBreak ==
    ASSUME NEW c \in Nat, NEW x \in BOOLEAN, NEW y \in BOOLEAN, x => y,
           NEW S, NEW R, NEW W, NEW V, NEW F,
           Due(c, x, S, R, W, V, F), Held(S).kind = "Break"
    PROVE  Leaves(agreement, c, y, S, R, HearBreak(R, F), Tail(W), V, F)
<1> DEFINE t == Acks(R, "none")
           ends == IF R.cancelling THEN "Cancelled" ELSE "Done"
           Q == [t EXCEPT !.state = "Finished", !.status = ends]
           h == HearBreak(R, F)
<1>1. h.e = Q /\ h.folder = F
  BY DEF HearBreak, With, Stops
<1>2. AckSent(R, t, "none")
  BY DueFacts, AcksDoes DEF Flags
<1>3. ends \in {"Cancelled", "Done"} /\ (ends = "Cancelled" => R.cancelling)
  OBVIOUS
<1> HIDE DEF t, ends
<1>4. /\ Q \in EndTypes /\ Q.last = t.last /\ Q.out = t.out
      /\ Q.seq = t.seq /\ Q.role = t.role /\ Q.status = ends /\ Q.state = "Finished"
      /\ Q.cancelling = t.cancelling /\ Q.open = t.open
  <2>1. t \in EndTypes
    BY <1>2 DEF AckSent
  <2> QED
    BY <1>3, <2>1 DEF EndTypes
<1> HIDE DEF Q
<1>5. Held(Q) = Held(t) /\ ~Running(Q)
  BY <1>3, <1>4 DEF Held, Running
<1>6. ~R.open /\ \A i \in 1 .. Len(F) : F[i].saved
  BY DueFacts DEF Due, Matched, Receiving, Before, Going
<1>7. Receiving(agreement, y, Q, F)
  BY <1>2, <1>4, <1>5, <1>6, DueFacts DEF Due, Matched, Receiving, AckSent
<1>8. Contents(agreement, S, Q, F)
  BY <1>2, <1>4, <1>6 DEF Contents, AckSent
<1>9. Counts(c, S, Q, V, F)
  BY <1>2, <1>4, <1>5 DEF Due, Matched, Counts, AckSent
<1>10. Matched(agreement, c, y, S, Q, Tail(W), V \o Q.out, F)
  <2>1. /\ Q.seq = NextSeq(R.seq) /\ Q.out = <<Held(Q)>> /\ Held(Q) \in Packets
        /\ Held(Q).kind = "Ack" /\ Held(Q).seq = R.seq /\ Held(Q).flag \in {"none", "Y", "Z"}
        /\ (c = 0 => Held(Q).flag # "Z")
    BY <1>2, <1>4, <1>5 DEF AckSent
  <2> QED
    BY <1>5, <1>7, <1>8, <1>9, <2>1, DueFacts, Taking DEF Due
<1>11. ReceiverStep(c, R, Q, F, F)
  <2>1. c = 0 => ~R.cancelling /\ SavedOf(F) = Len(Files)
    BY DEF Due, Matched, Counts
  <2>2. Q.role = "receive" /\ Running(R)
    BY <1>2, <1>4, DueFacts DEF AckSent, Running
  <2> QED
    BY <1>3, <1>4, <2>1, <2>2 DEF ReceiverStep
<1> QED
  BY <1>1, <1>10, <1>11 DEF Leaves, h

\* How the file is to be kept.
LEMMA TakesAttributes ==
    ASSUME NEW c \in Nat, NEW x \in BOOLEAN, NEW y \in BOOLEAN, x => y,
           NEW S, NEW R, NEW W, NEW V, NEW F,
           Due(c, x, S, R, W, V, F), Held(S).kind = "Attributes"
    PROVE  Leaves(agreement, c, y, S, R, HearAttributes(R, F, W[1]), Tail(W), V, F)
<1> DEFINE t == Acks(R, "Y")
           mode == W[1].flag
           Q == [t EXCEPT !.mode = mode]
           h == HearAttributes(R, F, W[1])
<1>1. h.e = Q /\ h.folder = F
  BY DEF HearAttributes, With
<1>2. AckSent(R, t, "Y")
  BY DueFacts, AcksDoes DEF Flags
<1>3. mode = S.mode /\ mode \in Modes
  BY DueFacts, EndFields DEF Due, Matched, Sending
<1> HIDE DEF t, mode
<1>4. /\ Q \in EndTypes /\ Q.last = t.last /\ Q.out = t.out
      /\ Q.seq = t.seq /\ Q.role = t.role /\ Q.status = t.status /\ Q.state = t.state
      /\ Q.cancelling = t.cancelling /\ Q.open = t.open /\ Q.held = t.held /\ Q.mode = mode
  <2>1. t \in EndTypes
    BY <1>2 DEF AckSent
  <2> QED
    BY <1>3, <2>1 DEF EndTypes
<1> HIDE DEF Q
<1>5. Held(Q) = Held(t) /\ Running(Q)
  BY <1>2, <1>4, DueFacts DEF Held, Running, AckSent
<1>6. R.state = "Data" /\ R.open
  BY DueFacts DEF Due, Matched, Receiving, Before, Going
<1>7. Receiving(agreement, y, Q, F)
  BY <1>2, <1>4, <1>5, <1>6, DueFacts DEF Due, Matched, Receiving, AckSent
<1>8. Contents(agreement, S, Q, F)
  <2>1. ~Level(S, Q)
    BY <1>2, <1>4, DueFacts, Neighbours DEF Due, Level, AckSent
  <2>2. Held(S).data = <<>> /\ Level(S, R)
    BY DEF Due, Matched, Sending
  <2>3. ASSUME ~Q.cancelling, Held(S).flag # "D"
        PROVE  \E had \in Texts :
                  /\ had \o (IF Level(S, Q) THEN Held(S).data ELSE <<>>) \o S.pending
                        = Converted(S)
                  /\ Got(S, Q, F, had)
    <3>1. ~R.cancelling
      BY <1>2, <1>4, <2>3 DEF AckSent
    <3>2. PICK had \in Texts :
             /\ had \o (IF Level(S, R) THEN Held(S).data ELSE <<>>) \o S.pending = Converted(S)
             /\ Got(S, R, F, had)
      BY <1>6, <2>2, <2>3, <3>1 DEF Due, Matched, Contents, Going
    <3>3. Got(S, Q, F, had)
      BY <1>2, <1>4, <3>2 DEF Got, AckSent
    <3> QED
      BY <2>1, <2>2, <3>2, <3>3
  <2> QED
    BY <1>3, <1>4, <2>1, <2>3 DEF Contents, Going
<1>9. Counts(c, S, Q, V, F)
  BY <1>2, <1>4, <1>5 DEF Due, Matched, Counts, AckSent
<1>10. Matched(agreement, c, y, S, Q, Tail(W), V \o Q.out, F)
  <2>1. Running(Q) => Q.state = After(Held(S).kind) /\ Held(S).kind # "Break"
    BY <1>2, <1>4, <1>6 DEF After, AckSent
  <2>2. Running(Q) /\ ~Q.cancelling => Len(F) = S.at
    BY <1>2, <1>4 DEF AckSent, Due, Matched, Stance
  <2>3. /\ Q.seq = NextSeq(R.seq) /\ Q.out = <<Held(Q)>> /\ Held(Q) \in Packets
        /\ Held(Q).kind = "Ack" /\ Held(Q).seq = R.seq /\ Held(Q).flag \in {"none", "Y", "Z"}
        /\ (c = 0 => Held(Q).flag # "Z")
    BY <1>2, <1>4, <1>5 DEF AckSent
  <2> QED
    BY <1>5, <1>7, <1>8, <1>9, <2>1, <2>2, <2>3, DueFacts, Taking DEF Due
<1>11. ReceiverStep(c, R, Q, F, F)
  BY <1>2, <1>4, DueFacts DEF ReceiverStep, AckSent
<1> QED
  BY <1>1, <1>10, <1>11 DEF Leaves, h
\* Data: thrown away, not written, or written.
LEMMA TakesData ==
    ASSUME NEW c \in Nat, NEW x \in BOOLEAN, NEW y \in BOOLEAN, x => y,
           NEW S, NEW R, NEW W, NEW V, NEW F, NEW fault,
           Due(c, x, S, R, W, V, F), Held(S).kind = "Data"
    PROVE  Leaves(agreement, c, y, S, R, HearData(R, F, W[1], fault), Tail(W), V, F)
<1> DEFINE data == W[1].data
           text == FromLine(R.held, data)
           kept == IF R.mode = "text" THEN text.out ELSE data
           read == IF R.mode = "text" THEN [R EXCEPT !.held = text.held] ELSE R
           h == HearData(R, F, W[1], fault)
<1>1. /\ R.state = "Data" /\ R.open /\ F # <<>> /\ ~F[Len(F)].saved /\ Held(S).flag = "none"
      /\ W # <<>> /\ Running(R) /\ Level(S, R)
      /\ Matched(agreement, c, x, S, R, W, V, F)
  BY DueFacts DEF Due, Matched, Receiving, Sending, Before, Going
<1>2. data = Held(S).data /\ data \in Texts /\ R.held \in BOOLEAN
  <2>1. W[1].data = Held(S).data /\ Held(S) \in Packets /\ R \in EndTypes
    BY DueFacts
  <2> QED
    BY <2>1, PacketFields, EndFields
<1>3. text \in [out : Texts, held : BOOLEAN]
  BY <1>2, FromLineSteps
<1> HIDE DEF data, text
<1>4. /\ read \in EndTypes /\ read.role = R.role /\ read.last = R.last /\ read.seq = R.seq
      /\ read.status = R.status /\ read.state = R.state /\ read.cancelling = R.cancelling
      /\ read.open = R.open /\ read.mode = R.mode
      /\ read.held = IF R.mode = "text" THEN text.held ELSE R.held
  <2>1. R \in EndTypes
    BY DueFacts
  <2>2. CASE R.mode = "text"
    <3> DEFINE held == text.held
    <3>1. held \in BOOLEAN /\ read = [R EXCEPT !.held = held]
      BY <1>3, <2>2
    <3> HIDE DEF read, held
    <3>2. /\ read \in EndTypes /\ read.role = R.role /\ read.last = R.last /\ read.seq = R.seq
          /\ read.status = R.status /\ read.state = R.state /\ read.cancelling = R.cancelling
          /\ read.open = R.open /\ read.mode = R.mode /\ read.held = held
      BY <2>1, <3>1 DEF EndTypes
    <3> QED
      BY <2>2, <3>2 DEF held
  <2>3. CASE R.mode # "text"
    BY <2>1, <2>3
  <2> QED
    BY <2>2, <2>3
<1>5. kept \in Texts
  BY <1>2, <1>3
<1> SUFFICES Leaves(agreement, c, y, S, R, h, Tail(W), V, F)
  OBVIOUS
<1>6. h = IF R.cancelling THEN With(Acks(R, "Z"), F)
          ELSE IF fault = "write" THEN ReceiverFails(read, F, "Failed")
          ELSE With(Acks(read, "none"), Written(F, kept))
  BY DEF HearData, data, text
<1> HIDE DEF h, read
<1>7. CASE R.cancelling
  <2> DEFINE Q == Acks(R, "Z")
  <2>1. h.e = Q /\ h.folder = F
    BY <1>6, <1>7 DEF With
  <2>2. AckSent(R, Q, "Z")
    BY DueFacts, AcksDoes DEF Flags
  <2> HIDE DEF Q
  <2>3. Running(Q) /\ Q.cancelling /\ c # 0
    BY <1>1, <1>7, <2>2 DEF AckSent, Running, Matched, Counts
  <2>4. Receiving(agreement, y, Q, F)
    BY <1>1, <2>2, <2>3, DueFacts DEF Matched, Receiving, AckSent
  <2>5. Contents(agreement, S, Q, F) /\ Counts(c, S, Q, V, F)
    BY <2>3 DEF Contents, Counts
  <2>6. Matched(agreement, c, y, S, Q, Tail(W), V \o Q.out, F)
    <3>1. Running(Q) => Q.state = After(Held(S).kind) /\ Held(S).kind # "Break"
      BY <1>1, <2>2 DEF After, AckSent
    <3>2. /\ Q.seq = NextSeq(R.seq) /\ Q.out = <<Held(Q)>> /\ Held(Q) \in Packets
          /\ Held(Q).kind = "Ack" /\ Held(Q).seq = R.seq /\ Held(Q).flag \in {"none", "Y", "Z"}
          /\ (c = 0 => Held(Q).flag # "Z")
      BY <2>2, <2>3 DEF AckSent
    <3> QED
      BY <1>1, <2>3, <2>4, <2>5, <3>1, <3>2, DueFacts, Taking
  <2>7. ReceiverStep(c, R, Q, F, F)
    BY <2>2, DueFacts DEF ReceiverStep, AckSent
  <2> QED
    BY <2>1, <2>6, <2>7 DEF Leaves
<1>8. CASE ~R.cancelling /\ fault = "write"
  <2>1. (read.open <=> R.open) /\ (read.cancelling => R.cancelling)
    BY <1>4
  <2>2. Leaves(agreement, c, y, S, R, ReceiverFails(read, F, "Failed"), W, V, F)
    BY <1>1, <1>4, <2>1, FailsLeaves
  <2>3. Leaves(agreement, c, y, S, R, ReceiverFails(read, F, "Failed"), Tail(W), V, F)
    BY <1>1, <2>2, LeavesRead
  <2> QED
    BY <1>6, <1>8, <2>3
<1>9. CASE ~R.cancelling /\ fault # "write"
  <2> DEFINE Q == Acks(read, "none")
             E == Written(F, kept)
  <2>1. h.e = Q /\ h.folder = E
    BY <1>6, <1>9 DEF With
  <2>2. AckSent(read, Q, "none")
    BY <1>4, AcksDoes DEF Flags
  <2>3. /\ E \in Folders /\ Len(E) = Len(F) /\ E # <<>>
        /\ E[Len(F)].bytes = F[Len(F)].bytes \o kept /\ E[Len(F)].saved = F[Len(F)].saved
        /\ F[Len(F)].bytes \in Texts
        /\ \A i \in 1 .. Len(F) - 1 : E[i] = F[i]
    BY <1>1, <1>5, DueFacts, FolderWritten
  <2> HIDE DEF Q, E, kept
  <2>4. /\ Running(Q) /\ ~Q.cancelling /\ Q.open /\ Q.mode = R.mode /\ Q.held = read.held
        /\ Q.state = "Data" /\ Q.seq = NextSeq(R.seq) /\ Q.role = "receive" /\ Held(Q).seq = R.seq
    BY <1>1, <1>4, <1>9, <2>2, DueFacts DEF AckSent, Running
  <2>5. SavedOf(E) = SavedOf(F)
    BY <1>1, <2>3, DueFacts, SavedAll
  <2>6. Receiving(agreement, y, Q, E)
    <3>1. \A i \in 1 .. Len(E) - 1 : E[i].saved
      BY <1>1, <2>3 DEF Matched, Receiving
    <3>2. \A i \in 1 .. Len(E) : i = Len(F) \/ i \in 1 .. Len(F) - 1
      BY <2>3, DueFacts
    <3>3. \A i \in 1 .. Len(E) : E[i].saved =>
             i <= Len(Files) /\ (Roomy => E[i].bytes = Wanted(agreement, i))
      BY <1>1, <2>3, <3>2 DEF Matched, Receiving
    <3> QED
      BY <1>1, <2>2, <2>3, <2>4, <3>1, <3>3, DueFacts DEF Receiving, AckSent
  <2>7. Contents(agreement, S, Q, E)
    <3>1. ~Level(S, Q)
      BY <1>1, <2>4, DueFacts, Neighbours DEF Level
    <3>2. R.mode = S.mode
      BY <1>1, <1>9 DEF Matched, Contents, Going
    <3>3. PICK had \in Texts :
             /\ had \o (IF Level(S, R) THEN Held(S).data ELSE <<>>) \o S.pending = Converted(S)
             /\ Got(S, R, F, had)
      BY <1>1, <1>9 DEF Matched, Contents, Going
    <3> DEFINE more == had \o data
    <3>4. more \in Texts /\ more \o <<>> = more
      BY <1>2, Joins
    <3>5. more \o (IF Level(S, Q) THEN Held(S).data ELSE <<>>) \o S.pending = Converted(S)
      BY <1>1, <1>2, <3>1, <3>3, <3>4
    <3>8. Got(S, Q, E, more)
      <4>6. CASE S.mode = "text"
        <5>1. R.held <=> AsRead(had).held
          BY <3>3, <4>6 DEF Got
        <5>2. /\ AsRead(more).out = AsRead(had).out \o text.out
              /\ AsRead(more).held = text.held
          <6>1. had \in Texts /\ data \in Texts /\ R.held \in BOOLEAN
            BY <1>2, DueFacts, EndFields
          <6> HIDE DEF data
          <6> DEFINE held == R.held
          <6>2. held \in BOOLEAN /\ (held <=> AsRead(had).held)
            BY <5>1, <6>1
          <6> HIDE DEF held
          <6>3. /\ AsRead(had \o data).out = AsRead(had).out \o FromLine(held, data).out
                /\ AsRead(had \o data).held = FromLine(held, data).held
            BY <6>1, <6>2, MoreRead
          <6> QED
            BY <6>3 DEF text, held
        <5>3. kept = text.out /\ Q.held = text.held
          BY <1>4, <2>4, <3>2, <4>6 DEF kept
        <5>4. E[Len(E)].bytes = AsRead(more).out
          BY <2>3, <3>3, <4>6, <5>2, <5>3 DEF Got
        <5>5. Q.held <=> AsRead(more).held
          BY <5>2, <5>3
        <5> HIDE DEF more
        <5> QED
          BY <4>6, <5>4, <5>5 DEF Got
      <4>7. CASE S.mode # "text"
        <5>1. kept = data /\ Q.held = R.held
          BY <1>4, <2>4, <3>2, <4>7 DEF kept
        <5>2. F[Len(F)].bytes = had /\ ~R.held
          BY <3>3, <4>7 DEF Got
        <5>3. E[Len(E)].bytes = more
          BY <2>3, <5>1, <5>2
        <5> HIDE DEF more
        <5> QED
          BY <4>7, <5>1, <5>2, <5>3 DEF Got
      <4> QED
        BY <4>6, <4>7
    <3> HIDE DEF more
    <3> QED
      BY <1>1, <2>4, <3>2, <3>4, <3>5, <3>8 DEF Contents, Going
  <2>8. Counts(c, S, Q, V, E)
    BY <1>1, <2>2, <2>4, <2>5 DEF Matched, Counts, AckSent
  <2>9. Matched(agreement, c, y, S, Q, Tail(W), V \o Q.out, E)
    <3>1. Running(Q) => Q.state = After(Held(S).kind) /\ Held(S).kind # "Break"
      BY <2>4 DEF After
    <3>2. Running(Q) /\ ~Q.cancelling => Len(E) = S.at
      BY <1>1, <1>9, <2>3 DEF Matched, Stance
    <3>3. /\ Q.out = <<Held(Q)>> /\ Held(Q) \in Packets
          /\ Held(Q).kind = "Ack" /\ Held(Q).flag \in {"none", "Y", "Z"}
          /\ (c = 0 => Held(Q).flag # "Z")
      BY <2>2 DEF AckSent
    <3> QED
      BY <1>1, <2>4, <2>6, <2>7, <2>8, <3>1, <3>2, <3>3, DueFacts, Taking
  <2>10. ReceiverStep(c, R, Q, F, E)
    BY <2>4, <2>5, DueFacts DEF ReceiverStep, Running
  <2> QED
    BY <2>1, <2>9, <2>10 DEF Leaves
<1> QED
  BY <1>7, <1>8, <1>9
\* What the file is, once its last packet has been taken and the rest of a
\* line end is written.
LEMMA WholeAtLast ==
    ASSUME NEW c, NEW x, NEW S, NEW R, NEW W, NEW V, NEW F,
           Due(c, x, S, R, W, V, F), Held(S).kind = "EndOfFile", Held(S).flag # "D",
           ~R.cancelling, Roomy
    PROVE  F[Len(F)].bytes \o (IF R.mode = "text" /\ R.held THEN <<"cr">> ELSE <<>>)
              = Wanted(agreement, Len(F))
<1> DEFINE bytes == Files[S.at].bytes
           tail == IF R.mode = "text" /\ R.held THEN <<"cr">> ELSE <<>>
<1>1. /\ R.open /\ R.mode = S.mode /\ S.mode = ModeUnder(agreement, S.at) /\ Len(F) = S.at
      /\ S.at \in 1 .. Len(Files) /\ Held(S).data = <<>> /\ Level(S, R)
      /\ S.pending = <<>> /\ S.read = Len(bytes) /\ Held(S).flag = "none"
  BY DueFacts DEF Due, Matched, Receiving, Sending, Stance, Contents, Reading, Before, Going, InFile
<1>2. PICK had \in Texts :
         /\ had \o (IF Level(S, R) THEN Held(S).data ELSE <<>>) \o S.pending = Converted(S)
         /\ Got(S, R, F, had)
  BY <1>1 DEF Due, Matched, Contents, Going
<1>3. had = Converted(S)
  <2>1. had \o <<>> \o <<>> = Converted(S)
    BY <1>1, <1>2
  <2>2. had \o <<>> = had
    BY Joins
  <2> QED
    BY <2>1, <2>2
<1>4. bytes \in Texts /\ Taken(S) = bytes
  <2>1. bytes \in Texts
    BY <1>1, FileFields
  <2>2. SubSeq(bytes, 1, Len(bytes)) = bytes
    BY <2>1 DEF Texts
  <2> QED
    BY <1>1, <2>1, <2>2 DEF Taken
<1> HIDE DEF bytes
<1>5. CASE S.mode = "text"
  <2>1. had = AsSent(bytes).out
    BY <1>3, <1>4, <1>5 DEF Converted
  <2>2. F[Len(F)].bytes = AsRead(had).out /\ (R.held <=> AsRead(had).held)
    BY <1>2, <1>5 DEF Got
  <2>3. Local(bytes) = AsRead(had).out \o (IF AsRead(had).held THEN <<"cr">> ELSE <<>>)
    BY <1>4, <2>1, LocalIs
  <2>4. tail = IF AsRead(had).held THEN <<"cr">> ELSE <<>>
    BY <1>1, <1>5, <2>2
  <2>5. Wanted(agreement, Len(F)) = Local(bytes)
    BY <1>1, <1>5 DEF Wanted, bytes
  <2> HIDE DEF tail
  <2>6. F[Len(F)].bytes \o tail = Wanted(agreement, Len(F))
    BY <2>2, <2>3, <2>4, <2>5
  <2> QED
    BY <2>6 DEF tail
<1>6. CASE S.mode # "text"
  <2>1. had = bytes
    BY <1>3, <1>4, <1>6 DEF Converted
  <2>2. F[Len(F)].bytes = had
    BY <1>2, <1>6 DEF Got
  <2>3. tail = <<>>
    BY <1>1, <1>6
  <2>4. Wanted(agreement, Len(F)) = bytes
    BY <1>1, <1>6 DEF Wanted, bytes
  <2>5. bytes \o <<>> = bytes
    BY <1>4, Joins
  <2> HIDE DEF tail
  <2>6. F[Len(F)].bytes \o tail = Wanted(agreement, Len(F))
    BY <2>1, <2>2, <2>3, <2>4, <2>5
  <2> QED
    BY <2>6 DEF tail
<1> QED
  BY <1>5, <1>6

\* The receiver at the end of a file: the two fields it sets, and what is kept.
Ending(r, p) == [r EXCEPT !.cancelling = Discarded(r, p)]
Rest(r) == IF r.mode = "text" /\ r.held THEN <<"cr">> ELSE <<>>
Closed(r) == [r EXCEPT !.open = FALSE, !.held = FALSE]
EndTaken(r, files) == [Acks(r, "none") EXCEPT !.state = "File", !.files = files]
EndAcked(r, Q) ==
    /\ Q \in EndTypes /\ Q.last = <<Held(Q)>> /\ Q.out = <<Held(Q)>>
    /\ Held(Q) \in Packets /\ Held(Q).kind = "Ack" /\ Held(Q).seq = r.seq
    /\ Held(Q).flag = "none" /\ Q.seq = NextSeq(r.seq) /\ Q.role = r.role
    /\ Q.status = r.status /\ Q.state = "File" /\ Q.cancelling = r.cancelling
    /\ Q.open = r.open

LEMMA EndingDoes ==
    ASSUME NEW r \in EndTypes, NEW p
    PROVE  LET e == Ending(r, p)
           IN  /\ e \in EndTypes /\ e.role = r.role /\ e.last = r.last /\ e.seq = r.seq
               /\ e.status = r.status /\ e.state = r.state /\ e.mode = r.mode
               /\ e.held = r.held /\ e.open = r.open /\ e.cancelling = Discarded(r, p)
               /\ Discarded(r, p) \in BOOLEAN
<1> DEFINE given == Discarded(r, p)
           e == Ending(r, p)
<1>1. given \in BOOLEAN
  BY EndFields DEF Discarded
<1>2. e = [r EXCEPT !.cancelling = given]
  BY DEF Ending
<1> HIDE DEF given, e
<1>3. /\ e \in EndTypes /\ e.role = r.role /\ e.last = r.last /\ e.seq = r.seq
      /\ e.status = r.status /\ e.state = r.state /\ e.mode = r.mode
      /\ e.held = r.held /\ e.open = r.open /\ e.cancelling = given
  BY <1>1, <1>2 DEF EndTypes
<1> QED
  BY <1>1, <1>3 DEF given, e

LEMMA ClosedDoes ==
    ASSUME NEW r \in EndTypes
    PROVE  LET e == Closed(r)
           IN  /\ e \in EndTypes /\ e.role = r.role /\ e.last = r.last /\ e.seq = r.seq
               /\ e.status = r.status /\ e.state = r.state /\ e.mode = r.mode
               /\ ~e.held /\ ~e.open /\ e.cancelling = r.cancelling
BY DEF EndTypes, Closed

LEMMA EndTakenDoes ==
    ASSUME NEW r \in EndTypes, NEW files \in Nat
    PROVE  EndAcked(r, EndTaken(r, files))
<1> DEFINE t == Acks(r, "none")
           Q == EndTaken(r, files)
<1>1. AckSent(r, t, "none")
  BY AcksDoes DEF Flags
<1>2. Q = [t EXCEPT !.state = "File", !.files = files]
  BY DEF EndTaken
<1> HIDE DEF t
<1>3. t \in EndTypes
  BY <1>1 DEF AckSent
<1> HIDE DEF Q
<1>5. /\ Q \in EndTypes /\ Q.last = t.last /\ Q.out = t.out /\ Q.seq = t.seq /\ Q.role = t.role
      /\ Q.status = t.status /\ Q.state = "File" /\ Q.cancelling = t.cancelling
      /\ Q.open = t.open
  BY <1>2, <1>3 DEF EndTypes, SenderKinds
<1>6. Held(Q) = Held(t)
  BY <1>5 DEF Held
<1> QED
  BY <1>1, <1>5, <1>6 DEF AckSent, EndAcked, Q
\* A file that is not to be kept.
LEMMA TakesEndDropped ==
    ASSUME NEW c \in Nat, NEW x \in BOOLEAN, NEW y \in BOOLEAN, x => y,
           NEW S, NEW R, NEW W, NEW V, NEW F, NEW r, NEW files \in Nat,
           Due(c, x, S, R, W, V, F), Held(S).kind = "EndOfFile",
           r \in EndTypes, r.role = R.role, r.last = R.last, r.seq = R.seq,
           r.status = R.status, r.cancelling, ~r.open,
           R.cancelling \/ Held(S).flag = "D"
    PROVE  Leaves(agreement, c, y, S, R, With(EndTaken(r, files), Removed(F)), Tail(W), V, F)
<1> DEFINE Q == EndTaken(r, files)
           E == Removed(F)
           h == With(Q, E)
<1>1. h.e = Q /\ h.folder = E
  BY DEF With
<1> SUFFICES Leaves(agreement, c, y, S, R, h, Tail(W), V, F)
  OBVIOUS
<1>2. /\ Q \in EndTypes /\ Q.last = <<Held(Q)>> /\ Q.out = <<Held(Q)>>
      /\ Held(Q) \in Packets /\ Held(Q).kind = "Ack" /\ Held(Q).seq = R.seq
      /\ Held(Q).flag = "none" /\ Q.seq = NextSeq(R.seq) /\ Q.role = R.role
      /\ Q.status = R.status /\ Q.state = "File" /\ Q.cancelling /\ ~Q.open
  <2>1. EndAcked(r, Q)
    BY EndTakenDoes
  <2> HIDE DEF Q
  <2> QED
    BY <2>1 DEF EndAcked
<1> HIDE DEF Q
<1>3. /\ R.open /\ F # <<>> /\ ~F[Len(F)].saved /\ c # 0
      /\ \A i \in 1 .. Len(F) - 1 : F[i].saved
      /\ W # <<>> /\ Level(S, R) /\ Matched(agreement, c, x, S, R, W, V, F)
  <2>1. /\ R.open /\ F # <<>> /\ ~F[Len(F)].saved
        /\ \A i \in 1 .. Len(F) - 1 : F[i].saved
    BY DueFacts DEF Due, Matched, Receiving, Before, Going
  <2>2. c # 0
    BY DEF Due, Matched, Counts
  <2> QED
    BY <2>1, <2>2 DEF Due
<1>4. /\ E \in Folders /\ Len(E) = Len(F) - 1 /\ \A i \in 1 .. Len(F) - 1 : E[i] = F[i]
  <2>1. F \in Folders /\ F # <<>>
    BY <1>3, DueFacts
  <2> QED
    BY <2>1, FolderRemoved
<1> HIDE DEF E, h
<1>5. (\A i \in 1 .. Len(E) : E[i].saved) /\ SavedOf(E) = SavedOf(F)
  <2>1. F \in Folders /\ Len(F) \in Nat \ {0}
    <3>1. F \in Folders
      BY <1>3, DueFacts
    <3> QED
      BY <1>3, <3>1 DEF Folders
  <2>2. \A i \in 1 .. Len(E) : E[i].saved
    BY <1>3, <1>4, <2>1
  <2>3. SavedOf(E) = Len(E)
    BY <1>4, <2>2, SavedAll
  <2>4. SavedOf(F) = Len(F) - 1
    BY <1>3 DEF SavedOf
  <2> QED
    BY <1>4, <2>2, <2>3, <2>4
<1>6. Running(Q)
  BY <1>2, DueFacts DEF Running
<1>7. Receiving(agreement, y, Q, E)
  <2>1. \A i \in 1 .. Len(E) : i \in 1 .. Len(F) /\ E[i] = F[i]
    BY <1>3, <1>4, DueFacts, SavedAll
  <2>2. \A i \in 1 .. Len(E) : E[i].saved =>
           i <= Len(Files) /\ (Roomy => E[i].bytes = Wanted(agreement, i))
    BY <1>3, <2>1 DEF Matched, Receiving
  <2>3. \A i \in 1 .. Len(E) - 1 : E[i].saved
    BY <1>4, <1>5, DueFacts
  <2> QED
    BY <1>2, <1>4, <1>5, <1>6, <2>2, <2>3, DueFacts DEF Receiving
<1>8. Contents(agreement, S, Q, E) /\ Counts(c, S, Q, V, E)
  BY <1>2, <1>3 DEF Contents, Counts
<1>9. Matched(agreement, c, y, S, Q, Tail(W), V \o Q.out, E)
  <2>1. Running(Q) => Q.state = After(Held(S).kind) /\ Held(S).kind # "Break"
    BY <1>2 DEF After
  <2> QED
    BY <1>2, <1>3, <1>7, <1>8, <2>1, DueFacts, Taking
<1>10. ReceiverStep(c, R, Q, F, E)
  BY <1>2, <1>5, DueFacts DEF ReceiverStep
<1> QED
  BY <1>1, <1>9, <1>10 DEF Leaves

\* A file that is kept.
LEMMA TakesEndKept ==
    ASSUME NEW c \in Nat, NEW x \in BOOLEAN, NEW y \in BOOLEAN, x => y,
           NEW S, NEW R, NEW W, NEW V, NEW F, NEW r, NEW files \in Nat,
           NEW tail \in Texts,
           Due(c, x, S, R, W, V, F), Held(S).kind = "EndOfFile",
           r \in EndTypes, r.role = R.role, r.last = R.last, r.seq = R.seq,
           r.status = R.status, ~r.cancelling, ~r.open,
           ~R.cancelling, Held(S).flag # "D", tail = Rest(R)
    PROVE  Leaves(agreement, c, y, S, R, With(EndTaken(r, files), Saved(Written(F, tail))), Tail(W), V, F)
<1> DEFINE Q == EndTaken(r, files)
           G == Written(F, tail)
           E == Saved(G)
           h == With(Q, E)
<1>1. h.e = Q /\ h.folder = E
  BY DEF With
<1> SUFFICES Leaves(agreement, c, y, S, R, h, Tail(W), V, F)
  OBVIOUS
<1>2. /\ Q \in EndTypes /\ Q.last = <<Held(Q)>> /\ Q.out = <<Held(Q)>>
      /\ Held(Q) \in Packets /\ Held(Q).kind = "Ack" /\ Held(Q).seq = R.seq
      /\ Held(Q).flag = "none" /\ Q.seq = NextSeq(R.seq) /\ Q.role = R.role
      /\ Q.status = R.status /\ Q.state = "File" /\ ~Q.cancelling /\ ~Q.open
  <2>1. EndAcked(r, Q)
    BY EndTakenDoes
  <2> HIDE DEF Q
  <2> QED
    BY <2>1 DEF EndAcked
<1> HIDE DEF Q
<1>3. /\ R.open /\ F # <<>> /\ ~F[Len(F)].saved
      /\ \A i \in 1 .. Len(F) - 1 : F[i].saved
      /\ W # <<>> /\ Level(S, R) /\ Running(R) /\ Matched(agreement, c, x, S, R, W, V, F)
      /\ Len(F) = S.at
  BY DueFacts DEF Due, Matched, Receiving, Stance, Before, Going
<1>4. /\ G \in Folders /\ Len(G) = Len(F) /\ G # <<>>
      /\ G[Len(F)].bytes = F[Len(F)].bytes \o tail
      /\ \A i \in 1 .. Len(F) - 1 : G[i] = F[i]
  BY <1>3, DueFacts, FolderWritten
<1> HIDE DEF G
<1>5. /\ E \in Folders /\ Len(E) = Len(F) /\ E # <<>>
      /\ E[Len(F)].bytes = F[Len(F)].bytes \o tail /\ E[Len(F)].saved
      /\ \A i \in 1 .. Len(F) - 1 : E[i] = F[i]
  BY <1>4, FolderSaved
<1> HIDE DEF E, h
<1>6. \A i \in 1 .. Len(E) : i = Len(F) \/ i \in 1 .. Len(F) - 1
  BY <1>5, DueFacts
<1>7. /\ \A i \in 1 .. Len(E) : E[i].saved
      /\ SavedOf(E) = SavedOf(F) + 1 /\ SavedOf(F) < Len(Files)
  <2>1. \A i \in 1 .. Len(E) : E[i].saved
    BY <1>3, <1>5, <1>6
  <2>2. SavedOf(E) = Len(E) /\ SavedOf(F) = Len(F) - 1
    BY <1>3, <1>5, <2>1, DueFacts, SavedAll
  <2> QED
    BY <1>3, <1>5, <2>1, <2>2, DueFacts
<1>8. Running(Q)
  BY <1>2, DueFacts DEF Running
<1>9. Receiving(agreement, y, Q, E)
  <2>1. \A i \in 1 .. Len(F) - 1 : E[i].saved =>
           i <= Len(Files) /\ (Roomy => E[i].bytes = Wanted(agreement, i))
    <3>1. \A i \in 1 .. Len(F) - 1 : i \in 1 .. Len(F)
      BY DueFacts
    <3> QED
      BY <1>3, <1>5, <3>1 DEF Matched, Receiving
  <2>2. Len(F) <= Len(Files) /\ (Roomy => E[Len(F)].bytes = Wanted(agreement, Len(F)))
    <3>1. ASSUME Roomy
          PROVE  F[Len(F)].bytes \o Rest(R) = Wanted(agreement, Len(F))
      BY <3>1, WholeAtLast DEF Rest
    <3> QED
      BY <1>3, <1>5, <3>1, DueFacts
  <2>3. \A i \in 1 .. Len(E) : E[i].saved =>
           i <= Len(Files) /\ (Roomy => E[i].bytes = Wanted(agreement, i))
    BY <1>6, <2>1, <2>2
  <2>4. \A i \in 1 .. Len(E) - 1 : E[i].saved
    BY <1>3, <1>5
  <2> QED
    BY <1>2, <1>5, <1>7, <1>8, <2>3, <2>4, DueFacts DEF Receiving
<1>10. Contents(agreement, S, Q, E)
  BY <1>2 DEF Contents
<1>11. Ahead(S, Q) /\ ~Ahead(S, R)
  BY <1>2, <1>3, DueFacts, Neighbours DEF Ahead, Level
<1>12. Counts(c, S, Q, V, E)
  <2>1. c = 0 =>
          /\ ~S.cancelling /\ ~S.discarding /\ \A i \in 1 .. Len(V) : V[i].flag # "Z"
          /\ S.files <= SavedOf(F)
          /\ Running(S) => S.files = S.at - 1 /\ SavedOf(F) = S.files + 0
    BY <1>3, <1>11 DEF Matched, Counts, InFile
  <2>2. S.files \in Nat /\ SavedOf(F) \in Nat
    BY DueFacts, SavedAll
  <2>3. S.files <= SavedOf(F) => S.files <= SavedOf(E)
    BY <1>7, <2>2
  <2>4. SavedOf(F) = S.files + 0 => SavedOf(E) = S.files + 1
    BY <1>7, <2>2
  <2> QED
    BY <1>2, <1>11, <2>1, <2>3, <2>4 DEF Counts, InFile
<1>13. Matched(agreement, c, y, S, Q, Tail(W), V \o Q.out, E)
  <2>1. Running(Q) => Q.state = After(Held(S).kind) /\ Held(S).kind # "Break"
    BY <1>2 DEF After
  <2>2. Running(Q) /\ ~Q.cancelling => Len(E) = S.at
    BY <1>3, <1>5
  <2> QED
    BY <1>2, <1>3, <1>9, <1>10, <1>12, <2>1, <2>2, DueFacts, Taking, SMTT(30), ZenonT(60)
<1>14. ReceiverStep(c, R, Q, F, E)
  BY <1>2, <1>3, <1>7, DueFacts DEF ReceiverStep
<1> QED
  BY <1>1, <1>13, <1>14 DEF Leaves

\* The end of a file, whatever fails.
LEMMA TakesEndOfFile ==
    ASSUME NEW c \in Nat, NEW x \in BOOLEAN, NEW y \in BOOLEAN, x => y,
           NEW S, NEW R, NEW W, NEW V, NEW F, NEW fault,
           Due(c, x, S, R, W, V, F), Held(S).kind = "EndOfFile", fault = "none" \/ y
    PROVE  Leaves(agreement, c, y, S, R, HearEndOfFile(R, F, W[1], fault), Tail(W), V, F)
<1> DEFINE p == W[1]
           ending == Ending(R, p)
           drop == Discarded(R, p)
           closed == Closed(ending)
           unheld == [ending EXCEPT !.held = FALSE]
           tail == IF ~drop /\ R.mode = "text" /\ R.held THEN <<"cr">> ELSE <<>>
           whole == Written(F, tail)
           files == IF ~drop THEN Acks(closed, "none").files + 1 ELSE Acks(closed, "none").files
           h == HearEndOfFile(R, F, W[1], fault)
<1>1. /\ ending \in EndTypes /\ ending.role = R.role /\ ending.last = R.last /\ ending.seq = R.seq
      /\ ending.status = R.status /\ ending.state = R.state /\ ending.mode = R.mode
      /\ ending.held = R.held /\ ending.open = R.open /\ ending.cancelling = drop
      /\ drop \in BOOLEAN
  BY DueFacts, EndingDoes
<1>2. drop <=> R.cancelling \/ Held(S).flag = "D"
  BY DueFacts DEF Discarded
<1>3. h = IF tail # <<>> /\ fault = "write"
          THEN ReceiverFails(unheld, F, "Failed")
          ELSE IF fault = "finish"
               THEN ReceiverFails(closed, IF ~drop THEN whole ELSE F, "Failed")
               ELSE With(EndTaken(closed, files), IF ~drop THEN Saved(whole) ELSE Removed(F))
  BY <1>1 DEF HearEndOfFile, EndTaken, Closed, Ending
<1> SUFFICES Leaves(agreement, c, y, S, R, h, Tail(W), V, F)
  OBVIOUS
<1> HIDE DEF ending, drop, h
<1>4. /\ closed \in EndTypes /\ closed.role = R.role /\ closed.last = R.last /\ closed.seq = R.seq
      /\ closed.status = R.status /\ ~closed.open /\ closed.cancelling = drop
  BY <1>1, ClosedDoes
<1>5. /\ unheld \in EndTypes /\ unheld.role = R.role /\ unheld.last = R.last
      /\ unheld.seq = R.seq /\ unheld.open = R.open /\ unheld.cancelling = drop
  BY <1>1 DEF EndTypes
<1>13. files \in Nat
  <2>1. Acks(closed, "none") \in EndTypes
    BY <1>4, AcksDoes DEF AckSent, Flags
  <2>2. Acks(closed, "none").files \in Nat
    BY <2>1, EndFields
  <2> QED
    BY <2>2
<1> HIDE DEF closed, unheld, files
<1>6. /\ R.open /\ F # <<>> /\ ~F[Len(F)].saved /\ W # <<>> /\ Running(R)
      /\ Matched(agreement, c, x, S, R, W, V, F)
      /\ c = 0 => ~drop
  <2>1. R.open /\ F # <<>> /\ ~F[Len(F)].saved
    BY DueFacts DEF Due, Matched, Receiving, Before, Going
  <2>2. c = 0 => ~drop
    BY <1>2 DEF Due, Matched, Counts
  <2> QED
    BY <2>1, <2>2 DEF Due
<1>7. tail \in Texts
  BY Pieces
<1> HIDE DEF tail
<1>8. /\ whole \in Folders /\ Len(whole) = Len(F) /\ whole # <<>>
      /\ whole[Len(F)].saved = F[Len(F)].saved
      /\ \A i \in 1 .. Len(F) - 1 : whole[i] = F[i]
  BY <1>6, <1>7, DueFacts, FolderWritten
<1>9. CASE tail # <<>> /\ fault = "write"
  <2>1. ~drop
    BY <1>9 DEF tail
  <2>2. (unheld.open <=> R.open) /\ (unheld.cancelling => R.cancelling)
    BY <1>5, <2>1
  <2>3. Leaves(agreement, c, y, S, R, ReceiverFails(unheld, F, "Failed"), W, V, F)
    BY <1>5, <1>6, <2>2, FailsLeaves
  <2>4. Leaves(agreement, c, y, S, R, ReceiverFails(unheld, F, "Failed"), Tail(W), V, F)
    BY <1>6, <2>3, LeavesRead
  <2> QED
    BY <1>3, <1>9, <2>4
<1>10. CASE ~(tail # <<>> /\ fault = "write") /\ fault = "finish"
  <2> DEFINE G == IF ~drop THEN whole ELSE F
  <2>1. /\ G \in Folders /\ Len(G) = Len(F) /\ G # <<>> /\ ~G[Len(G)].saved
        /\ \A i \in 1 .. Len(F) - 1 : G[i] = F[i]
    BY <1>6, <1>8, DueFacts
  <2> HIDE DEF G, whole
  <2>2. c > 0 \/ (closed.cancelling => R.cancelling)
    BY <1>4, <1>6
  <2>3. y
    BY <1>10
  <2>4. Leaves(agreement, c, y, S, R, ReceiverFails(closed, G, "Failed"), W, V, F)
    BY <1>4, <1>6, <2>1, <2>2, <2>3, FailsLeaves
  <2>5. Leaves(agreement, c, y, S, R, ReceiverFails(closed, G, "Failed"), Tail(W), V, F)
    BY <1>6, <2>4, LeavesRead
  <2>6. h = ReceiverFails(closed, G, "Failed")
    BY <1>3, <1>10 DEF G
  <2> QED
    BY <2>5, <2>6
<1>11. CASE ~(tail # <<>> /\ fault = "write") /\ fault # "finish" /\ drop
  <2>1. h = With(EndTaken(closed, files), Removed(F))
    BY <1>3, <1>11
  <2>2. closed.cancelling /\ (R.cancelling \/ Held(S).flag = "D")
    BY <1>2, <1>4, <1>11
  <2> QED
    BY <1>4, <1>13, <2>1, <2>2, TakesEndDropped
<1>12. CASE ~(tail # <<>> /\ fault = "write") /\ fault # "finish" /\ ~drop
  <2>1. h = With(EndTaken(closed, files), Saved(Written(F, tail)))
    BY <1>3, <1>12
  <2>2. tail = Rest(R)
    BY <1>12 DEF tail, Rest
  <2>3. ~closed.cancelling /\ ~R.cancelling /\ Held(S).flag # "D"
    BY <1>2, <1>4, <1>12
  <2> QED
    BY <1>4, <1>7, <1>13, <2>1, <2>2, <2>3, TakesEndKept
<1> QED
  BY <1>9, <1>10, <1>11, <1>12
\* A call on the files fails.
LEMMA FailureStays ==
    ASSUME NEW a, NEW c, NEW x \in BOOLEAN, NEW y \in BOOLEAN, x => y,
           NEW S, NEW R, NEW W, NEW V, NEW F, Matched(a, c, x, S, R, W, V, F)
    PROVE  Matched(a, c, y, S, R, W, V, F)
<1>1. Receiving(a, y, R, F)
  BY DEF Matched, Receiving
<1> QED
  BY <1>1 DEF Matched

\* What a receiver does with a packet in its turn.
LEMMA TakesDoes ==
    ASSUME NEW c \in Nat, NEW x \in BOOLEAN, NEW y \in BOOLEAN, x => y,
           NEW S, NEW R, NEW W, NEW V, NEW F, NEW fault,
           Matched(agreement, c, x, S, R, W, V, F), agreement \in Agreements,
           Running(R), W # <<>>, W[1].seq = R.seq, W[1].kind # "Error", fault = "none" \/ y
    PROVE  Leaves(agreement, c, y, S, R, ReceiverTakes(R, F, W[1], fault), Tail(W), V, F)
<1> DEFINE p == W[1]
           h == ReceiverTakes(R, F, p, fault)
           Good(g) == Leaves(agreement, c, y, S, R, g, Tail(W), V, F)
<1>1. /\ R \in EndTypes /\ R.role = "receive" /\ S \in EndTypes /\ Held(S) \in Packets
      /\ Held(S).kind \in SenderKinds /\ R.state \in {"SendInit", "File", "Data"}
      /\ W \in Seq(Packets) /\ p \in Packets /\ 1 \in 1 .. Len(W)
  BY OneLess DEF Matched, Sending, Receiving, OnWire
<1>2. ASSUME NEW why \in {"Failed", "BothReceiving"}
      PROVE  Good(ReceiverFails(R, F, why))
  <2>1. Leaves(agreement, c, y, S, R, ReceiverFails(R, F, why), W, V, F)
    BY <1>1, FailsLeaves
  <2> QED
    BY <2>1, LeavesRead
<1>3. p.kind = "SendInit" \/ Due(c, x, S, R, W, V, F)
  <2>1. Stray(p) \/ Like(p, Held(S)) \/ (Older(S, p) /\ Level(S, R))
    BY <1>1 DEF Matched, OnWire
  <2>2. CASE Stray(p)
    BY <2>2 DEF Stray
  <2>3. CASE Like(p, Held(S))
    <3>1. p.seq = Held(S).seq
      BY <1>1, <2>3, LikeFields
    <3>2. Level(S, R)
      BY <3>1 DEF Level
    <3> QED
      BY <2>3, <3>2 DEF Due
  <2>4. CASE Older(S, p) /\ Level(S, R)
    <3>1. Held(S).seq \in Numbers
      BY <1>1, PacketFields
    <3> QED
      BY <2>4, <3>1, Neighbours DEF Older, Level
  <2> QED
    BY <2>1, <2>2, <2>3, <2>4
<1>4. Due(c, x, S, R, W, V, F) => p.kind = Held(S).kind /\ R.state = Before(p.kind)
  BY DueFacts
<1>5. CASE R.state = "SendInit" /\ p.kind = "SendInit"
  <2>1. h = HearSendInit(R, F)
    BY <1>5 DEF ReceiverTakes
  <2>2. Level(S, R)
    BY <1>5 DEF Matched, Stance, After
  <2> DEFINE Q == HearSendInit(R, F).e
  <2>3. HearSendInit(R, F) = With(Q, F)
    BY DEF HearSendInit, With
  <2>4. /\ Matched(agreement, c, x, S, Q, Tail(W), V \o Q.out, F)
        /\ ReceiverStep(c, R, Q, F, F)
    BY <1>5, <2>2, TakesSendInit
  <2> HIDE DEF Q
  <2>5. Matched(agreement, c, y, S, Q, Tail(W), V \o Q.out, F)
    BY <2>4, FailureStays
  <2>6. Good(With(Q, F))
    BY <2>4, <2>5 DEF Leaves, With
  <2> QED
    BY <2>1, <2>3, <2>6
<1>6. CASE R.state = "File" /\ p.kind = "File"
  <2>1. h = HearFile(R, F, fault)
    BY <1>6 DEF ReceiverTakes
  <2>2. CASE fault \in {"name", "create"}
    BY <1>2, <2>1, <2>2 DEF HearFile
  <2>3. CASE fault \notin {"name", "create"}
    BY <1>3, <1>4, <1>6, <2>1, <2>3, TakesFile
  <2> QED
    BY <2>2, <2>3
<1>7. CASE R.state = "File" /\ p.kind = "Break"
  BY <1>3, <1>4, <1>7, TakesBreak DEF ReceiverTakes
<1>8. CASE R.state = "Data" /\ p.kind = "Attributes"
  BY <1>3, <1>4, <1>8, TakesAttributes DEF ReceiverTakes
<1>9. CASE R.state = "Data" /\ p.kind = "Data"
  BY <1>3, <1>4, <1>9, TakesData DEF ReceiverTakes
<1>10. CASE R.state = "Data" /\ p.kind = "EndOfFile"
  BY <1>3, <1>4, <1>10, TakesEndOfFile DEF ReceiverTakes
<1>11. CASE ~(R.state = "SendInit" /\ p.kind = "SendInit") /\ ~(R.state = "File" /\ p.kind = "File")
            /\ ~(R.state = "File" /\ p.kind = "Break") /\ ~(R.state = "Data" /\ p.kind = "Attributes")
            /\ ~(R.state = "Data" /\ p.kind = "Data") /\ ~(R.state = "Data" /\ p.kind = "EndOfFile")
  <2>1. h \in {ReceiverFails(R, F, "BothReceiving"), ReceiverFails(R, F, "Failed")}
    BY <1>11 DEF ReceiverTakes
  <2> QED
    BY <1>2, <2>1
<1> QED
  BY <1>5, <1>6, <1>7, <1>8, <1>9, <1>10, <1>11

\* A receiver that stays where it is, whatever it says.
LEMMA SaysLeaves ==
    ASSUME NEW a, NEW c \in Nat, NEW x, NEW S, NEW R, NEW Q, NEW W, NEW V, NEW F,
           Matched(a, c, x, S, R, W, V, F), ReceiverWaits(R, Q), Q.cancelling = R.cancelling,
           \/ Q.out = <<>>
           \/ /\ Q.out = <<Q.out[1]>> /\ Q.out[1] \in Packets
              /\ Q.out[1].flag \in {"none", "Y", "Z"} /\ (c = 0 => Q.out[1].flag # "Z")
              /\ \/ Q.out[1].kind = "Ack" /\ Q.out[1].seq = PreviousSeq(R.seq)
                 \/ Q.out[1].kind = "Nak" /\ Q.out[1].seq = R.seq
    PROVE  Leaves(a, c, x, S, R, With(Q, F), W, V, F)
<1>1. Matched(a, c, x, S, Q, W, V, F)
  BY WaitingReceiver
<1>2. Held(S).seq \in Numbers /\ R.role = "receive"
  BY PacketFields DEF Matched, Sending, Receiving
<1>3. Level(S, Q) \/ Ahead(S, Q)
  BY <1>1 DEF Matched, Stance
<1>4. Q.seq = R.seq /\ Q.role = R.role /\ Q.status = R.status
  BY DEF ReceiverWaits
<1>5. \/ Q.out = <<>>
      \/ /\ Q.out = <<Q.out[1]>> /\ Q.out[1] \in Packets
         /\ Q.out[1].flag \in {"none", "Y", "Z"} /\ (c = 0 => Q.out[1].flag # "Z")
         /\ \/ OldWord(S, Q.out[1]) /\ Level(S, Q)
            \/ NewWord(S, Q.out[1]) /\ Ahead(S, Q)
  BY <1>2, <1>3, <1>4, Neighbours DEF OldWord, NewWord, Level, Ahead
<1>6. Matched(a, c, x, S, Q, W, V \o Q.out, F)
  BY <1>1, <1>5, ReceiverSays
<1>7. ReceiverStep(c, R, Q, F, F)
  BY <1>2, <1>4 DEF ReceiverStep
<1> QED
  BY <1>6, <1>7 DEF Leaves, With

\* A nak, or the last packet again.
LEMMA NakLeaves ==
    ASSUME NEW a, NEW c \in Nat, NEW x, NEW S, NEW R, NEW r \in EndTypes, NEW W, NEW V, NEW F,
           Matched(a, c, x, S, R, W, V, F), ReceiverWaits(R, r), r.cancelling = R.cancelling
    PROVE  Leaves(a, c, x, S, R, With(Says(r, "Nak"), F), W, V, F)
<1> DEFINE p == Packet(r, r.seq, "Nak", "none", <<>>)
           Q == Says(r, "Nak")
<1>1. /\ Q \in EndTypes /\ p \in Packets /\ p.kind = "Nak" /\ p.flag = "none" /\ p.seq = r.seq
      /\ Q.out = <<p>> /\ Q = [r EXCEPT !.out = <<p>>]
  BY NakDoes
<1> HIDE DEF p, Q
<1>2. /\ Q.role = r.role /\ Q.last = r.last /\ Q.seq = r.seq /\ Q.mode = r.mode
      /\ Q.status = r.status /\ Q.state = r.state /\ Q.open = r.open /\ Q.held = r.held
      /\ Q.cancelling = r.cancelling /\ Q.out[1] = p
  BY <1>1 DEF EndTypes
<1>3. ReceiverWaits(R, Q) /\ Q.cancelling = R.cancelling
  BY <1>1, <1>2 DEF ReceiverWaits
<1>4. r.seq = R.seq
  BY DEF ReceiverWaits
<1>5. Leaves(a, c, x, S, R, With(Q, F), W, V, F)
  BY <1>1, <1>2, <1>3, <1>4, SaysLeaves
<1> QED
  BY <1>5 DEF Q

LEMMA RepeatsLeaves ==
    ASSUME NEW a, NEW c \in Nat, NEW x, NEW S, NEW R, NEW W, NEW V, NEW F,
           Matched(a, c, x, S, R, W, V, F)
    PROVE  Leaves(a, c, x, S, R, With(Repeats(R), F), W, V, F)
<1> DEFINE Q == Repeats(R)
           last == R.last
<1>1. R \in EndTypes /\ last \in AtMostOne
  BY EndFields DEF Matched, Receiving
<1>2. Q = [R EXCEPT !.out = last]
  BY DEF Repeats
<1>3. \/ last = <<>>
      \/ /\ last = <<last[1]>> /\ last[1] \in Packets /\ last[1].flag \in {"none", "Y", "Z"}
         /\ last[1].kind = "Ack" /\ last[1].seq = PreviousSeq(R.seq)
         /\ (c = 0 => last[1].flag # "Z")
  BY DEF Matched, Receiving, Counts, Held
<1>8. last = R.last
  OBVIOUS
<1> HIDE DEF Q, last
<1>4. /\ Q \in EndTypes /\ Q.role = R.role /\ Q.last = R.last /\ Q.seq = R.seq /\ Q.mode = R.mode
      /\ Q.status = R.status /\ Q.state = R.state /\ Q.open = R.open /\ Q.held = R.held
      /\ Q.cancelling = R.cancelling /\ Q.out = last
  BY <1>1, <1>2 DEF EndTypes
<1>5. ReceiverWaits(R, Q)
  BY <1>4 DEF ReceiverWaits
<1>6. Leaves(a, c, x, S, R, With(Q, F), W, V, F)
  BY <1>3, <1>4, <1>5, SaysLeaves
<1> QED
  BY <1>6 DEF Q
\* What a receiver does with any packet.
LEMMA ReceiverHearsDoes ==
    ASSUME NEW c \in Nat, NEW x \in BOOLEAN, NEW y \in BOOLEAN, x => y,
           NEW S, NEW R, NEW W, NEW V, NEW F, NEW fault,
           Matched(agreement, c, x, S, R, W, V, F), agreement \in Agreements,
           R.out = <<>>, W # <<>>, fault = "none" \/ y
    PROVE  Leaves(agreement, c, y, S, R, ReceiverHears(R, F, W[1], fault), Tail(W), V, F)
<1> DEFINE p == W[1]
           h == ReceiverHears(R, F, p, fault)
           Good(g) == Leaves(agreement, c, y, S, R, g, Tail(W), V, F)
<1>1. R \in EndTypes /\ Matched(agreement, c, y, S, R, W, V, F)
  BY FailureStays DEF Matched, Receiving
<1>2. ReceiverWaits(R, R)
  BY <1>1 DEF ReceiverWaits
<1>3. ASSUME NEW g, Leaves(agreement, c, y, S, R, g, W, V, F)
      PROVE  Good(g)
  BY <1>3, LeavesRead
<1>4. Good(With(R, F))
  <2>1. Leaves(agreement, c, y, S, R, With(R, F), W, V, F)
    BY <1>1, <1>2, SaysLeaves
  <2> QED
    BY <1>3, <2>1
<1>5. Good(With(Repeats(R), F))
  <2>1. Leaves(agreement, c, y, S, R, With(Repeats(R), F), W, V, F)
    BY <1>1, RepeatsLeaves
  <2> QED
    BY <1>3, <2>1
<1>6. Good(With(Says(R, "Nak"), F))
  <2>1. Leaves(agreement, c, y, S, R, With(Says(R, "Nak"), F), W, V, F)
    BY <1>1, <1>2, NakLeaves
  <2> QED
    BY <1>3, <2>1
<1>7. CASE R.status = "Done"
  <2>1. h = With(Repeats(R), F) \/ h = With(R, F)
    BY <1>7 DEF ReceiverHears, Running
  <2> QED
    BY <1>4, <1>5, <2>1
<1>8. CASE R.status # "Done" /\ ~Running(R)
  <2>1. h = With(R, F)
    BY <1>8 DEF ReceiverHears
  <2> QED
    BY <1>4, <2>1
<1>9. CASE Running(R) /\ p.check \notin ReceiverChecks(R)
  <2>1. h = With(Says(R, "Nak"), F)
    BY <1>9 DEF ReceiverHears, Running
  <2> QED
    BY <1>6, <2>1
<1>10. CASE Running(R) /\ p.check \in ReceiverChecks(R)
  <2>1. h = IF p.kind = "Error" THEN Tidied(Stops(R, "Failed"), F)
            ELSE IF Repeated(R, p) THEN With(Repeats(R), F)
            ELSE IF p.seq # R.seq THEN With(R, F)
            ELSE ReceiverTakes(R, F, p, fault)
    BY <1>10 DEF ReceiverHears, Running
  <2>2. CASE p.kind = "Error"
    <3> DEFINE q == Stops(R, "Failed")
    <3>1. /\ q \in EndTypes /\ q.role = R.role /\ q.last = R.last /\ q.seq = R.seq
          /\ q.status = "Failed" /\ q.state = "Finished" /\ q.cancelling = R.cancelling
          /\ q.out = R.out /\ q.open = R.open
      BY <1>1 DEF Stops, EndTypes
    <3> HIDE DEF q
    <3>2. Stopping(c, c, y, R, q, F, F)
      BY <3>1 DEF Stopping
    <3>3. Leaves(agreement, c, y, S, R, Tidied(q, F), W, V, F)
      BY <1>10, <3>2, TidiedLeaves
    <3>4. Good(Tidied(q, F))
      BY <1>3, <3>3
    <3> QED
      BY <2>1, <2>2, <3>4 DEF q
  <2>3. CASE p.kind # "Error" /\ Repeated(R, p)
    BY <1>5, <2>1, <2>3
  <2>4. CASE p.kind # "Error" /\ ~Repeated(R, p) /\ p.seq # R.seq
    BY <1>4, <2>1, <2>4
  <2>5. CASE p.kind # "Error" /\ ~Repeated(R, p) /\ p.seq = R.seq
    <3>1. Good(ReceiverTakes(R, F, p, fault))
      BY <1>10, <2>5, TakesDoes
    <3> QED
      BY <2>1, <2>5, <3>1
  <2> QED
    BY <2>2, <2>3, <2>4, <2>5
<1> QED
  BY <1>7, <1>8, <1>9, <1>10

\* Its clock, its user, and the time it keeps the line.
LEMMA ReceiverTickDoes ==
    ASSUME NEW a, NEW c \in Nat, NEW x \in BOOLEAN, NEW S, NEW R, NEW W, NEW V, NEW F,
           Matched(a, c, x, S, R, W, V, F), Running(R)
    PROVE  Leaves(a, c, x, S, R, ReceiverTick(R, F), W, V, F)
<1> DEFINE tried == [R EXCEPT !.retries = @ + 1]
           retries == R.retries + 1
<1>1. R \in EndTypes /\ retries \in Nat
  BY EndFields DEF Matched, Receiving
<1>2. tried = [R EXCEPT !.retries = retries]
  OBVIOUS
<1>3. ReceiverTick(R, F) \in {ReceiverFails(tried, F, "Failed"), With(Says(tried, "Nak"), F)}
  BY DEF ReceiverTick
<1> HIDE DEF tried, retries
<1>4. /\ tried \in EndTypes /\ tried.role = R.role /\ tried.last = R.last /\ tried.seq = R.seq
      /\ tried.mode = R.mode /\ tried.status = R.status /\ tried.state = R.state
      /\ tried.open = R.open /\ tried.held = R.held /\ tried.cancelling = R.cancelling
  BY <1>1, <1>2 DEF EndTypes
<1>5. ReceiverWaits(R, tried)
  BY <1>4 DEF ReceiverWaits
<1>6. Leaves(a, c, x, S, R, With(Says(tried, "Nak"), F), W, V, F)
  BY <1>4, <1>5, NakLeaves
<1>7. (tried.open <=> R.open) /\ (tried.cancelling => R.cancelling)
  BY <1>4
<1>8. Leaves(a, c, x, S, R, ReceiverFails(tried, F, "Failed"), W, V, F)
  BY <1>4, <1>7, FailsLeaves
<1> QED
  BY <1>3, <1>6, <1>8

LEMMA ReceiverCancels ==
    ASSUME NEW a, NEW c \in Nat, NEW x \in BOOLEAN, NEW S, NEW R, NEW W, NEW V, NEW F,
           Matched(a, c, x, S, R, W, V, F), Running(R), R.out = <<>>
    PROVE  Leaves(a, c + 1, x, S, R, ReceiverCancel(R, F), W, V, F)
<1>1. R \in EndTypes /\ R.role = "receive" /\ c + 1 \in Nat /\ c + 1 > 0
  BY DEF Matched, Receiving
<1>2. CASE R.state = "Data" /\ ~R.cancelling
  <2> DEFINE Q == [R EXCEPT !.cancelling = TRUE]
  <2>1. ReceiverCancel(R, F) = With(Q, F)
    BY <1>2 DEF ReceiverCancel
  <2>2. /\ Q \in EndTypes /\ Q.role = R.role /\ Q.last = R.last /\ Q.seq = R.seq /\ Q.mode = R.mode
        /\ Q.status = R.status /\ Q.state = R.state /\ Q.open = R.open /\ Q.held = R.held
        /\ Q.cancelling /\ Q.out = <<>>
    BY <1>1 DEF EndTypes
  <2> HIDE DEF Q
  <2>3. ReceiverWaits(R, Q)
    BY <2>2 DEF ReceiverWaits
  <2>4. Matched(a, c + 1, x, S, Q, W, V, F)
    BY <1>1, <2>2, <2>3, WaitingReceiver
  <2>5. Matched(a, c + 1, x, S, Q, W, V \o Q.out, F)
    BY <2>2, <2>4, ReceiverSays
  <2>6. ReceiverStep(c + 1, R, Q, F, F)
    BY <1>1, <2>2 DEF ReceiverStep
  <2> QED
    BY <2>1, <2>5, <2>6 DEF Leaves, With
<1>3. CASE ~(R.state = "Data" /\ ~R.cancelling)
  <2> DEFINE q == Fails(R, "Cancelled")
             p == Packet(R, R.seq, "Error", "none", <<>>)
  <2>1. ReceiverCancel(R, F) = Tidied(q, F)
    BY <1>3 DEF ReceiverCancel, Fails
  <2>2. /\ q \in EndTypes /\ p \in Packets /\ p.kind = "Error" /\ p.flag = "none" /\ q.out = <<p>>
        /\ q = [R EXCEPT !.out = <<p>>, !.state = "Finished", !.status = "Cancelled"]
    BY <1>1, FailsDoes
  <2> HIDE DEF p, q
  <2>3. /\ q.role = R.role /\ q.last = R.last /\ q.seq = R.seq /\ q.status = "Cancelled"
        /\ q.state = "Finished" /\ q.cancelling = R.cancelling /\ (q.open <=> R.open)
        /\ q.out[1] = p
    BY <1>1, <2>2 DEF EndTypes
  <2>4. Stopping(c, c + 1, x, R, q, F, F)
    BY <1>1, <2>2, <2>3 DEF Stopping
  <2>5. Leaves(a, c + 1, x, S, R, Tidied(q, F), W, V, F)
    BY <1>1, <2>4, TidiedLeaves
  <2> QED
    BY <2>1, <2>5
<1> QED
  BY <1>2, <1>3

LEMMA LingerOverDoes ==
    ASSUME NEW a, NEW c \in Nat, NEW x, NEW S, NEW R, NEW W, NEW V, NEW F,
           Matched(a, c, x, S, R, W, V, F)
    PROVE  Matched(a, c, x, S, [R EXCEPT !.lingering = FALSE], W, V, F)
<1> DEFINE Q == [R EXCEPT !.lingering = FALSE]
<1>1. R \in EndTypes
  BY DEF Matched, Receiving
<1>2. ReceiverWaits(R, Q) /\ Q.cancelling = R.cancelling
  BY <1>1 DEF ReceiverWaits, EndTypes
<1> HIDE DEF Q
<1>3. Matched(a, c, x, S, Q, W, V, F)
  BY <1>2, WaitingReceiver
<1> QED
  BY <1>3 DEF Q
-----------------------------------------------------------------------------
(* Two ends that have been told the same.                                   *)

\* What one of them may become.
AloneStep(e, T, w, f) ==
    /\ T \in EndTypes /\ T.role = e.role /\ T.ceiling = e.ceiling
    /\ Alone(T, w \o T.out, f)

\* One that says nothing but that it fails, or what it said before.
LEMMA StillAlone ==
    ASSUME NEW e, NEW T \in EndTypes, NEW w, NEW f, Alone(e, w, f),
           T.role = e.role, T.ceiling = e.ceiling, T.last = e.last, ~T.open,
           T.status \in {"Running", "Cancelled", "Failed", "BothSending", "BothReceiving"},
           T.state = (IF Running(T) THEN "SendInit" ELSE "Finished"),
           \/ T.out = <<>>
           \/ /\ T.out = <<T.out[1]>> /\ T.out[1] \in Packets
              /\ T.out[1].kind \in {"Error", IF e.role = "send" THEN "SendInit" ELSE "Nak"}
    PROVE  AloneStep(e, T, w, f)
<1> DEFINE u == w \o T.out
<1>1. w \in Seq(Packets)
  BY DEF Alone
<1>2. u \in Seq(Packets) /\ \A i \in 1 .. Len(u) : u[i].kind \in {"Error", IF e.role = "send" THEN "SendInit" ELSE "Nak"}
  <2>1. CASE T.out = <<>>
    <3>1. u = w
      BY <1>1, <2>1
    <3> QED
      BY <1>1, <3>1 DEF Alone
  <2>2. CASE T.out # <<>>
    <3> DEFINE p == T.out[1]
    <3>1. p \in Packets /\ u = Append(w, p)
      <4>1. p \in Packets /\ T.out = <<p>>
        BY <2>2
      <4> HIDE DEF p
      <4>2. w \o <<p>> = Append(w, p)
        BY <1>1, <4>1, OneMore
      <4> QED
        BY <4>1, <4>2
    <3>2. \A i \in 1 .. Len(w) : w[i].kind \in {"Error", IF e.role = "send" THEN "SendInit" ELSE "Nak"}
      BY DEF Alone
    <3>3. p.kind \in {"Error", IF e.role = "send" THEN "SendInit" ELSE "Nak"}
      BY <2>2
    <3> HIDE DEF p, u
    <3>4. /\ u \in Seq(Packets) /\ Len(u) = Len(w) + 1 /\ u[Len(w) + 1] = p /\ Len(w) \in Nat
          /\ \A i \in 1 .. Len(w) : u[i] = w[i]
      BY <1>1, <3>1, OneMore
    <3>5. \A i \in 1 .. Len(u) : i = Len(w) + 1 \/ i \in 1 .. Len(w)
      BY <3>4
    <3> QED
      BY <3>2, <3>3, <3>4, <3>5
  <2> QED
    BY <2>1, <2>2
<1> HIDE DEF u
<1>3. Alone(T, u, f)
  BY <1>2 DEF Alone
<1> QED
  BY <1>3 DEF AloneStep, u

LEMMA AloneFails ==
    ASSUME NEW e, NEW r \in EndTypes, NEW w, NEW f,
           NEW why \in {"Cancelled", "Failed", "BothSending", "BothReceiving"},
           Alone(e, w, f), r.role = e.role, r.ceiling = e.ceiling, r.last = e.last, ~r.open
    PROVE  AloneStep(e, Fails(r, why), w, f)
<1> DEFINE p == Packet(r, r.seq, "Error", "none", <<>>)
           T == Fails(r, why)
<1>1. /\ T \in EndTypes /\ p \in Packets /\ p.kind = "Error" /\ T.out = <<p>>
      /\ T = [r EXCEPT !.out = <<p>>, !.state = "Finished", !.status = why]
  BY FailsDoes
<1> HIDE DEF p, T
<1>2. /\ T.role = r.role /\ T.ceiling = r.ceiling /\ T.last = r.last /\ T.status = why
      /\ T.state = "Finished" /\ T.open = r.open /\ T.out[1] = p
  BY <1>1 DEF EndTypes
<1>3. AloneStep(e, T, w, f)
  BY <1>1, <1>2, StillAlone DEF Running
<1> QED
  BY <1>3 DEF T

LEMMA AloneReceiverFails ==
    ASSUME NEW e, NEW r \in EndTypes, NEW w, NEW f,
           NEW why \in {"Cancelled", "Failed", "BothSending", "BothReceiving"},
           Alone(e, w, f), r.role = e.role, r.ceiling = e.ceiling, r.last = e.last, ~r.open
    PROVE  LET h == ReceiverFails(r, f, why)
           IN  AloneStep(e, h.e, w, h.folder) /\ h.folder = f
<1> DEFINE T == Fails(r, why)
           h == ReceiverFails(r, f, why)
<1>1. AloneStep(e, T, w, f)
  BY AloneFails
<1>2. T.open = r.open
  BY DEF Fails, Stops, Says, EndTypes
<1>3. h.e = [T EXCEPT !.open = FALSE] /\ h.folder = f
  BY <1>2 DEF ReceiverFails, Tidied, With
<1> HIDE DEF T
<1>4. T \in EndTypes /\ ~T.open
  BY <1>1, <1>2 DEF AloneStep
<1>5. [T EXCEPT !.open = FALSE] = T
  BY <1>4 DEF EndTypes
<1> QED
  BY <1>1, <1>3, <1>5

\* One of two senders, and one of two receivers.
LEMMA AloneSenderHears ==
    ASSUME NEW e, NEW w, NEW f, NEW p, NEW fault, Alone(e, w, f), e.role = "send", e.out = <<>>,
           p.kind \in {"Error", "SendInit"}
    PROVE  AloneStep(e, SenderHears(e, p, fault), w, f)
<1> DEFINE T == SenderHears(e, p, fault)
<1>1. /\ e \in EndTypes /\ ~e.open /\ e.state = IF Running(e) THEN "SendInit" ELSE "Finished"
      /\ e.status # "Done"
  BY DEF Alone
<1>2. AloneStep(e, e, w, f)
  BY <1>1, StillAlone DEF EndTypes
<1>3. CASE ~(Running(e) /\ p.check = e.check)
  BY <1>2, <1>3 DEF SenderHears
<1>4. CASE Running(e) /\ p.check = e.check /\ p.kind = "Error"
  <2> DEFINE q == Stops(e, "Failed")
  <2>1. T = q
    BY <1>4 DEF SenderHears, SenderTakes, Answers, NakAcknowledges
  <2>2. /\ q \in EndTypes /\ q.role = e.role /\ q.last = e.last /\ q.ceiling = e.ceiling
        /\ q.status = "Failed" /\ q.state = "Finished" /\ q.out = e.out /\ q.open = e.open
    BY <1>1 DEF Stops, EndTypes
  <2> HIDE DEF q
  <2>3. AloneStep(e, q, w, f)
    BY <1>1, <2>2, StillAlone DEF Running
  <2> QED
    BY <2>1, <2>3
<1>5. CASE Running(e) /\ p.check = e.check /\ p.kind = "SendInit"
  <2>1. T = Fails(e, "BothSending")
    BY <1>1, <1>5 DEF SenderHears, SenderTakes, Answers, NakAcknowledges
  <2>2. AloneStep(e, Fails(e, "BothSending"), w, f)
    BY <1>1, AloneFails
  <2> QED
    BY <2>1, <2>2
<1> QED
  BY <1>3, <1>4, <1>5

LEMMA AloneAgain ==
    ASSUME NEW e, NEW w, NEW f, Alone(e, w, f), e.role = "send", e.out = <<>>, Running(e)
    PROVE  AloneStep(e, Again(e), w, f)
<1> DEFINE h == Halved(e)
           ceiling == h.ceiling
           size == h.size
           retries == h.retries + 1
           tried == [h EXCEPT !.retries = @ + 1]
<1>1. /\ e \in EndTypes /\ ~e.open /\ e.state = "SendInit" /\ e.status = "Running"
      /\ e.last = <<FirstPacket>>
  BY DEF Alone, Running
<1>2. /\ h = [e EXCEPT !.ceiling = ceiling, !.size = size]
      /\ ceiling \in Nat \ {0} /\ size \in Nat \ {0}
  BY <1>1, HalvedDoes
<1>3. ceiling = e.ceiling
  BY <1>1 DEF Halved, EndTypes
<1> HIDE DEF h, ceiling, size
<1>4. h \in EndTypes /\ h.retries = e.retries
  BY <1>1, <1>2 DEF EndTypes
<1>5. retries \in Nat
  BY <1>4, EndFields
<1>6. tried = [h EXCEPT !.retries = retries]
  OBVIOUS
<1> HIDE DEF tried, retries
<1>7. /\ tried \in EndTypes /\ tried.role = h.role /\ tried.last = h.last /\ tried.open = h.open
      /\ tried.status = h.status /\ tried.state = h.state /\ tried.ceiling = h.ceiling
  BY <1>4, <1>5, <1>6 DEF EndTypes
<1>8. /\ tried.role = e.role /\ tried.last = e.last /\ ~tried.open /\ tried.status = "Running"
      /\ tried.state = "SendInit" /\ tried.ceiling = e.ceiling
  BY <1>1, <1>2, <1>3, <1>4, <1>7 DEF EndTypes
<1>9. AloneStep(e, Fails(tried, "Failed"), w, f)
  BY <1>7, <1>8, AloneFails
<1>10. AloneStep(e, Repeats(tried), w, f)
  <2> DEFINE T == Repeats(tried)
  <2>1. <<FirstPacket>> \in AtMostOne /\ FirstPacket \in Packets /\ FirstPacket.kind = "SendInit"
    <3>1. FirstPacket \in Packets /\ FirstPacket.kind = "SendInit"
      BY TextTypes, ZeroNumber DEF FirstPacket, Packets, Kinds, SenderKinds, Flags
    <3> QED
      BY <3>1, PacketFields
  <2>2. T = [tried EXCEPT !.out = <<FirstPacket>>]
    BY <1>1, <1>8 DEF Repeats
  <2> HIDE DEF T
  <2>3. /\ T \in EndTypes /\ T.role = tried.role /\ T.last = tried.last /\ T.open = tried.open
        /\ T.status = tried.status /\ T.state = tried.state /\ T.ceiling = tried.ceiling
        /\ T.out = <<FirstPacket>>
    BY <1>7, <2>1, <2>2 DEF EndTypes
  <2>4. T.out[1] = FirstPacket
    BY <2>3
  <2>5. AloneStep(e, T, w, f)
    BY <1>8, <2>1, <2>3, <2>4, StillAlone DEF Running
  <2> QED
    BY <2>5 DEF T
<1>11. Again(e) \in {Fails(tried, "Failed"), Repeats(tried)}
  BY <1>1, <1>8 DEF Again, tried, h
<1> QED
  BY <1>9, <1>10, <1>11
LEMMA AloneSenderCancels ==
    ASSUME NEW e, NEW w, NEW f, Alone(e, w, f), e.role = "send", Running(e)
    PROVE  AloneStep(e, SenderCancel(e), w, f) /\ SenderCancel(e).files = e.files
<1>1. e \in EndTypes /\ ~e.open /\ e.state = "SendInit"
  BY DEF Alone
<1>2. SenderCancel(e) = Fails(e, "Cancelled")
  BY <1>1 DEF SenderCancel, Fails
<1>3. AloneStep(e, Fails(e, "Cancelled"), w, f)
  BY <1>1, AloneFails
<1>4. Fails(e, "Cancelled").files = e.files
  BY <1>1 DEF Fails, Stops, Says, EndTypes
<1> QED
  BY <1>2, <1>3, <1>4

LEMMA AloneSays ==
    ASSUME NEW e, NEW r \in EndTypes, NEW w, NEW f, Alone(e, w, f), e.role = "receive",
           Running(e), r.role = e.role, r.ceiling = e.ceiling, r.last = e.last, ~r.open,
           r.status = e.status, r.state = e.state
    PROVE  AloneStep(e, Says(r, "Nak"), w, f)
<1> DEFINE p == Packet(r, r.seq, "Nak", "none", <<>>)
           T == Says(r, "Nak")
<1>1. /\ T \in EndTypes /\ p \in Packets /\ p.kind = "Nak" /\ T.out = <<p>>
      /\ T = [r EXCEPT !.out = <<p>>]
  BY NakDoes
<1> HIDE DEF p, T
<1>2. /\ T.role = r.role /\ T.ceiling = r.ceiling /\ T.last = r.last /\ T.status = r.status
      /\ T.state = r.state /\ T.open = r.open /\ T.out[1] = p
  BY <1>1 DEF EndTypes
<1>3. e.state = "SendInit" /\ e.status = "Running"
  BY DEF Alone, Running
<1>4. AloneStep(e, T, w, f)
  BY <1>1, <1>2, <1>3, StillAlone DEF Running
<1> QED
  BY <1>4 DEF T

\* What a receiver and its folder become.
AloneLeaves(e, h, w, f) == AloneStep(e, h.e, w, f) /\ h.folder = f

LEMMA AloneReceiverHears ==
    ASSUME NEW e, NEW w, NEW f, NEW p, NEW fault, Alone(e, w, f), e.role = "receive",
           e.out = <<>>, p.kind \in {"Error", "Nak"}
    PROVE  AloneLeaves(e, ReceiverHears(e, f, p, fault), w, f)
<1> DEFINE h == ReceiverHears(e, f, p, fault)
<1>1. /\ e \in EndTypes /\ ~e.open /\ e.state = IF Running(e) THEN "SendInit" ELSE "Finished"
      /\ e.status # "Done"
  BY DEF Alone
<1>2. AloneLeaves(e, With(e, f), w, f)
  <2>1. AloneStep(e, e, w, f)
    BY <1>1, StillAlone DEF EndTypes
  <2> QED
    BY <2>1 DEF AloneLeaves, With
<1>3. CASE ~Running(e)
  <2>1. h = With(e, f)
    BY <1>1, <1>3 DEF ReceiverHears, Running
  <2> QED
    BY <1>2, <2>1
<1>4. CASE Running(e) /\ p.check \notin ReceiverChecks(e)
  <2> DEFINE T == Says(e, "Nak")
  <2>1. h = With(T, f)
    BY <1>4 DEF ReceiverHears, Running
  <2>2. AloneStep(e, T, w, f)
    BY <1>1, <1>4, AloneSays
  <2> HIDE DEF T
  <2>3. AloneLeaves(e, With(T, f), w, f)
    BY <2>2 DEF AloneLeaves, With
  <2> QED
    BY <2>1, <2>3
<1>5. CASE Running(e) /\ p.check \in ReceiverChecks(e) /\ p.kind = "Error"
  <2> DEFINE q == Stops(e, "Failed")
  <2>1. h = Tidied(q, f)
    BY <1>5 DEF ReceiverHears, Running
  <2>2. /\ q \in EndTypes /\ q.role = e.role /\ q.last = e.last /\ q.ceiling = e.ceiling
        /\ q.status = "Failed" /\ q.state = "Finished" /\ q.out = e.out /\ q.open = e.open
    BY <1>1 DEF Stops, EndTypes
  <2> HIDE DEF q
  <2>3. AloneStep(e, q, w, f)
    BY <1>1, <2>2, StillAlone DEF Running
  <2>4. [q EXCEPT !.open = FALSE] = q
    BY <1>1, <2>2 DEF EndTypes
  <2>5. Tidied(q, f) = With(q, f)
    BY <1>1, <2>2, <2>4 DEF Tidied
  <2>6. AloneLeaves(e, With(q, f), w, f)
    BY <2>3 DEF AloneLeaves, With
  <2> QED
    BY <2>1, <2>5, <2>6
<1>6. CASE Running(e) /\ p.check \in ReceiverChecks(e) /\ p.kind = "Nak"
  <2>1. h = With(e, f) \/ h = ReceiverFails(e, f, "BothReceiving")
    BY <1>1, <1>6 DEF ReceiverHears, Running, Repeated, ReceiverTakes
  <2>2. AloneLeaves(e, ReceiverFails(e, f, "BothReceiving"), w, f)
    BY <1>1, AloneReceiverFails DEF AloneLeaves
  <2> QED
    BY <1>2, <2>1, <2>2
<1> QED
  BY <1>3, <1>4, <1>5, <1>6

LEMMA AloneReceiverTick ==
    ASSUME NEW e, NEW w, NEW f, Alone(e, w, f), e.role = "receive", Running(e)
    PROVE  AloneLeaves(e, ReceiverTick(e, f), w, f)
<1> DEFINE tried == [e EXCEPT !.retries = @ + 1]
           retries == e.retries + 1
           T == Says(tried, "Nak")
<1>1. e \in EndTypes /\ ~e.open /\ retries \in Nat
  BY EndFields DEF Alone
<1>2. tried = [e EXCEPT !.retries = retries]
  OBVIOUS
<1>3. ReceiverTick(e, f) \in {ReceiverFails(tried, f, "Failed"), With(T, f)}
  BY DEF ReceiverTick
<1> HIDE DEF tried, retries
<1>4. /\ tried \in EndTypes /\ tried.role = e.role /\ tried.last = e.last
      /\ tried.ceiling = e.ceiling /\ tried.status = e.status /\ tried.state = e.state
      /\ ~tried.open
  BY <1>1, <1>2 DEF EndTypes
<1>5. AloneStep(e, T, w, f)
  BY <1>4, AloneSays
<1> HIDE DEF T
<1>6. AloneLeaves(e, With(T, f), w, f)
  BY <1>5 DEF AloneLeaves, With
<1>7. AloneLeaves(e, ReceiverFails(tried, f, "Failed"), w, f)
  BY <1>4, AloneReceiverFails DEF AloneLeaves
<1> QED
  BY <1>3, <1>6, <1>7

LEMMA AloneReceiverCancels ==
    ASSUME NEW e, NEW w, NEW f, Alone(e, w, f), e.role = "receive", Running(e)
    PROVE  AloneLeaves(e, ReceiverCancel(e, f), w, f)
<1>1. e \in EndTypes /\ ~e.open /\ e.state = "SendInit"
  BY DEF Alone
<1>2. ReceiverCancel(e, f) = ReceiverFails(e, f, "Cancelled")
  BY <1>1 DEF ReceiverCancel, ReceiverFails, Fails
<1> QED
  BY <1>1, <1>2, AloneReceiverFails DEF AloneLeaves

\* Their line: a packet less, one spoilt, one more from the caller's hand.
LEMMA AloneLess ==
    ASSUME NEW e, NEW w, NEW f, Alone(e, w, f), w # <<>>
    PROVE  /\ Alone(e, Tail(w), f) /\ Alone(e, <<Spoilt(Head(w))>> \o Tail(w), f)
           /\ w[1].kind \in {"Error", IF e.role = "send" THEN "SendInit" ELSE "Nak"}
<1>1. w \in Seq(Packets)
  BY DEF Alone
<1>2. Alone(e, Tail(w), f)
  BY <1>1, OneLess DEF Alone
<1>3. Alone(e, <<Spoilt(Head(w))>> \o Tail(w), f)
  <2> DEFINE v == <<Spoilt(Head(w))>> \o Tail(w)
  <2>1. /\ v \in Seq(Packets) /\ Len(v) = Len(w)
        /\ \A i \in 1 .. Len(w) : v[i].kind = w[i].kind
    BY <1>1, OneSpoilt
  <2> HIDE DEF v
  <2>2. Alone(e, v, f)
    BY <2>1 DEF Alone
  <2> QED
    BY <2>2 DEF v
<1>4. w[1].kind \in {"Error", IF e.role = "send" THEN "SendInit" ELSE "Nak"}
  BY <1>1, OneLess DEF Alone
<1> QED
  BY <1>2, <1>3, <1>4

\* What an end has in hand has no part in it.
LEMMA AloneInHand ==
    ASSUME NEW e, NEW w, NEW f, NEW out \in AtMostOne, Alone(e, w, f)
    PROVE  Alone([e EXCEPT !.out = out], w, f)
<1> DEFINE d == [e EXCEPT !.out = out]
<1>1. e \in EndTypes
  BY DEF Alone
<1>2. /\ d \in EndTypes /\ d.open = e.open /\ d.status = e.status /\ d.state = e.state
      /\ d.role = e.role /\ d.last = e.last
  BY <1>1 DEF EndTypes
<1> HIDE DEF d
<1>3. Alone(d, w, f)
  BY <1>2 DEF Alone, Running
<1> QED
  BY <1>3 DEF d

LEMMA SenderInHand ==
    ASSUME NEW a, NEW c \in Nat, NEW x, NEW S, NEW R, NEW W, NEW V, NEW F, NEW out \in AtMostOne,
           Matched(a, c, x, S, R, W, V, F)
    PROVE  Matched(a, c, x, [S EXCEPT !.out = out], R, W, V, F)
<1> DEFINE T == [S EXCEPT !.out = out]
<1>1. S \in EndTypes /\ (~Running(S) => S.state = "Finished")
  BY DEF Matched, Sending
<1>2. SenderWaits(S, T) /\ T.cancelling = S.cancelling
  BY <1>1 DEF SenderWaits, EndTypes, Running
<1> HIDE DEF T
<1>3. Matched(a, c, x, T, R, W, V, F)
  BY <1>2, WaitingSender
<1> QED
  BY <1>3 DEF T

LEMMA ReceiverInHand ==
    ASSUME NEW a, NEW c \in Nat, NEW x, NEW S, NEW R, NEW W, NEW V, NEW F, NEW out \in AtMostOne,
           Matched(a, c, x, S, R, W, V, F)
    PROVE  Matched(a, c, x, S, [R EXCEPT !.out = out], W, V, F)
<1> DEFINE Q == [R EXCEPT !.out = out]
<1>1. R \in EndTypes
  BY DEF Matched, Receiving
<1>2. ReceiverWaits(R, Q) /\ Q.cancelling = R.cancelling
  BY <1>1 DEF ReceiverWaits, EndTypes
<1> HIDE DEF Q
<1>3. Matched(a, c, x, S, Q, W, V, F)
  BY <1>2, WaitingReceiver
<1> QED
  BY <1>3 DEF Q
-----------------------------------------------------------------------------
(* The two sides.                                                           *)

LEMMA FirstIsPacket == FirstPacket \in Packets
BY TextTypes, ZeroNumber DEF FirstPacket, Packets, Kinds, SenderKinds, Flags

LEMMA TwoSides ==
    ASSUME NEW side \in Sides
    PROVE  /\ Other(side) \in Sides /\ Other(side) # side /\ Other(Other(side)) = side
           /\ \A q \in Sides : q = side \/ q = Other(side)
<1>1. PICK a \in Sides, b \in Sides : a # b /\ Sides = {a, b}
  BY SidesAssumption
<1>2. \A s \in Sides : \E other \in Sides : other # s
  BY <1>1
<1>3. \A s \in Sides : Other(s) \in Sides /\ Other(s) # s
  BY <1>2 DEF Other
<1> QED
  BY <1>1, <1>3

\* What one side may become, T with a folder E, when it has left V unread.
Fits(side, T, V, E, d, y) ==
    /\ T \in EndTypes /\ T.role = end[side].role /\ E \in Folders /\ V \in Seq(Packets)
    /\ T.role = end[Other(side)].role =>
          /\ Alone(T, wire[side] \o T.out, E) /\ Alone(end[Other(side)], V, folder[Other(side)])
          /\ T.ceiling = end[side].ceiling
    /\ T.role = "send" /\ end[Other(side)].role = "receive" =>
          /\ Matched(agreement, d, y, T, end[Other(side)], wire[side] \o T.out, V,
                     folder[Other(side)])
          /\ SenderStep(d, Quiet(side), T, folder[Other(side)])
          /\ E = <<>>
    /\ T.role = "receive" /\ end[Other(side)].role = "send" =>
          /\ Matched(agreement, d, y, end[Other(side)], T, V, wire[side] \o T.out, E)
          /\ ReceiverStep(d, Quiet(side), T, folder[side], E)

\* A step of one side, that says what it has to say.
Steps(side, T, V, E) ==
    /\ Fits(side, T, V, E, cancels', failure')
    /\ \E w \in [Sides -> Seq(Packets)] :
          w[side] = wire[side] /\ w[Other(side)] = V /\ Put(side, w, T)
    /\ folder' = [folder EXCEPT ![side] = E]
    /\ agreement' = agreement /\ cancels' \in Nat /\ failure' \in BOOLEAN
    /\ repeated' = IF T.role = "send" THEN Repeating(Quiet(side), T) ELSE repeated
    /\ \/ cancels' = cancels
       \/ /\ cancels' = cancels + 1 /\ T.files = end[side].files /\ T.status # "Done"
          /\ T.role = "receive" => SavedOf(E) = SavedOf(folder[side])

LEMMA Restored ==
    ASSUME IInv, NEW side \in Sides, NEW o \in Sides, o = Other(side), NEW e \in EndTypes,
           agreement' = agreement, cancels' \in Nat, failure' \in BOOLEAN, repeated' \in Nat,
           end' = [end EXCEPT ![side] = e], e.role = end[side].role, InHand(e),
           wire' \in [Sides -> Seq(Packets)], folder' \in [Sides -> Folders],
           e.role = end[o].role =>
              Alone(e, wire'[side], folder'[side]) /\ Alone(end[o], wire'[o], folder'[o]),
           e.role = "send" /\ end[o].role = "receive" =>
              /\ Matched(agreement, cancels', failure', e, end[o], wire'[side], wire'[o], folder'[o])
              /\ folder'[side] = <<>>,
           e.role = "receive" /\ end[o].role = "send" =>
              /\ Matched(agreement, cancels', failure', end[o], e, wire'[o], wire'[side], folder'[side])
              /\ folder'[o] = <<>>,
           e.role = "send" => Least(LongRoom, e.ceiling) <= Most(repeated' \div 2, LeastSize),
           end[o].role = "send" => Least(LongRoom, end[o].ceiling) <= Most(repeated' \div 2, LeastSize)
    PROVE  IInv'
<1>1. o # side /\ \A q \in Sides : q = side \/ q = o
  BY TwoSides
<1>2. /\ end \in [Sides -> EndTypes] /\ InHand(end[o]) /\ agreement \in Agreements
  BY DEF IInv
<1>3. end' \in [Sides -> EndTypes] /\ end'[side] = e /\ end'[o] = end[o]
  BY <1>1, <1>2
<1>4. \A q \in Sides : InHand(end'[q])
  BY <1>1, <1>2, <1>3
<1>5. \A s, r \in Sides :
         end'[s].role = "send" /\ end'[r].role = "receive" =>
            /\ Matched(agreement', cancels', failure', end'[s], end'[r], wire'[s], wire'[r], folder'[r])
            /\ folder'[s] = <<>>
  <2> SUFFICES ASSUME NEW s \in Sides, NEW r \in Sides,
                      end'[s].role = "send", end'[r].role = "receive"
               PROVE  /\ Matched(agreement', cancels', failure', end'[s], end'[r],
                                 wire'[s], wire'[r], folder'[r])
                      /\ folder'[s] = <<>>
    OBVIOUS
  <2>1. CASE s = side /\ r = o
    BY <1>3, <2>1
  <2>2. CASE s = o /\ r = side
    BY <1>3, <2>2
  <2>3. s # r
    OBVIOUS
  <2> QED
    BY <1>1, <2>1, <2>2, <2>3
<1>6. \A q \in Sides :
         end'[q].role = "send" => Least(LongRoom, end'[q].ceiling) <= Most(repeated' \div 2, LeastSize)
  <2> SUFFICES ASSUME NEW q \in Sides, end'[q].role = "send"
               PROVE  Least(LongRoom, end'[q].ceiling) <= Most(repeated' \div 2, LeastSize)
    OBVIOUS
  <2>1. CASE q = side
    BY <1>3, <2>1
  <2>2. CASE q = o
    BY <1>3, <2>2
  <2> QED
    BY <1>1, <2>1, <2>2
<1>7. \A a, b \in Sides :
         a # b /\ end'[a].role = end'[b].role => Alone(end'[a], wire'[a], folder'[a])
  <2> SUFFICES ASSUME NEW a \in Sides, NEW b \in Sides, a # b, end'[a].role = end'[b].role
               PROVE  Alone(end'[a], wire'[a], folder'[a])
    OBVIOUS
  <2>1. CASE a = side /\ b = o
    BY <1>3, <2>1
  <2>2. CASE a = o /\ b = side
    BY <1>3, <2>2
  <2> QED
    BY <1>1, <2>1, <2>2
<1> QED
  BY <1>2, <1>3, <1>4, <1>5, <1>6, <1>7 DEF IInv

\* What is said goes on the line at once, but for the first packet.
Said(side, T, w, u) ==
    /\ end' = [end EXCEPT ![side] = u] /\ u \in EndTypes /\ u = [T EXCEPT !.out = u.out]
    /\ u.role = T.role /\ u.ceiling = T.ceiling /\ u.status = T.status /\ u.files = T.files
    /\ u.state = T.state /\ u.last = T.last /\ u.inFlight = T.inFlight /\ u.open = T.open
    /\ InHand(u) /\ u.out \in AtMostOne
    /\ wire' \in [Sides -> Seq(Packets)]
    /\ wire'[side] = w[side] \o T.out
    /\ wire'[Other(side)] = w[Other(side)]

LEMMA PutDoes ==
    ASSUME IInv, NEW side \in Sides, NEW T \in EndTypes, T.role = end[side].role,
           NEW w \in [Sides -> Seq(Packets)], Put(side, w, T)
    PROVE  \E u : Said(side, T, w, u)
<1> DEFINE out == IF Beginning(side) THEN end[side].out ELSE <<>>
           u == [T EXCEPT !.out = out]
<1>1. end[side] \in EndTypes /\ InHand(end[side]) /\ <<>> \in AtMostOne
  BY DEF IInv, AtMostOne
<1>2. out \in AtMostOne /\ end[side].out \in AtMostOne
  BY <1>1, EndFields
<1>3. end' = [end EXCEPT ![side] = u]
  BY DEF Put
<1>4. out # <<>> =>
         /\ T.role = "send" /\ out \in {<<p>> : p \in Packets} /\ out[1].kind = "SendInit" /\ out[1].seq = 0
  BY <1>1 DEF InHand, Beginning
<1> HIDE DEF out, u
<1>5. u = [T EXCEPT !.out = out]
  BY DEF u
<1>6. /\ u \in EndTypes /\ u.role = T.role /\ u.ceiling = T.ceiling /\ u.status = T.status
      /\ u.files = T.files /\ u.state = T.state /\ u.last = T.last /\ u.inFlight = T.inFlight
      /\ u.open = T.open /\ u.out = out
  BY <1>2, <1>5 DEF EndTypes
<1>7. InHand(u)
  BY <1>4, <1>6 DEF InHand
<1>8. /\ wire' \in [Sides -> Seq(Packets)] /\ wire'[side] = w[side] \o T.out
      /\ wire'[Other(side)] = w[Other(side)]
  <2>1. wire' = [w EXCEPT ![side] = @ \o T.out]
    BY DEF Put
  <2>2. T.out \in AtMostOne
    BY EndFields
  <2>3. w[side] \in Seq(Packets)
    OBVIOUS
  <2> DEFINE more == w[side] \o T.out
  <2>4. more \in Seq(Packets)
    <3>1. PICK p \in Packets : T.out = <<>> \/ T.out = <<p>>
      BY <2>2, FirstIsPacket DEF AtMostOne
    <3> DEFINE v == w[side]
    <3>2. v \in Seq(Packets)
      BY <2>3
    <3> HIDE DEF v
    <3>3. v \o <<>> \in Seq(Packets) /\ v \o <<p>> \in Seq(Packets)
      BY <3>2, OneMore
    <3>4. v \o T.out \in Seq(Packets)
      BY <3>1, <3>3
    <3> QED
      BY <3>4 DEF v
  <2>5. wire' = [w EXCEPT ![side] = more]
    BY <2>1
  <2> HIDE DEF more
  <2>6. wire' \in [Sides -> Seq(Packets)] /\ wire'[side] = more /\ wire'[Other(side)] = w[Other(side)]
    BY <2>4, <2>5, TwoSides
  <2> QED
    BY <2>6 DEF more
<1> QED
  BY <1>2, <1>3, <1>5, <1>6, <1>7, <1>8 DEF Said
LEMMA QuietDoes ==
    ASSUME NEW side \in Sides, end[side] \in EndTypes
    PROVE  LET e == Quiet(side)
           IN  /\ e \in EndTypes /\ e = [end[side] EXCEPT !.out = <<>>] /\ e.out = <<>>
               /\ e.role = end[side].role /\ e.status = end[side].status
               /\ e.state = end[side].state /\ e.last = end[side].last
               /\ e.files = end[side].files /\ e.ceiling = end[side].ceiling
               /\ e.retries = end[side].retries /\ e.inFlight = end[side].inFlight
               /\ <<>> \in AtMostOne
BY DEF Quiet, EndTypes, AtMostOne

\* Where packets are halved no further than they must be.
LEMMA RepeatingDoes ==
    ASSUME repeated \in Nat, NEW S \in EndTypes, NEW T \in EndTypes, Shrinks(S, T),
           Least(LongRoom, S.ceiling) <= Most(repeated \div 2, LeastSize)
    PROVE  /\ Repeating(S, T) \in Nat
           /\ Least(LongRoom, T.ceiling) <= Most(Repeating(S, T) \div 2, LeastSize)
<1>1. /\ LongRoom \in Nat /\ LeastSize \in Nat /\ S.ceiling \in Nat /\ T.ceiling \in Nat
      /\ S.inFlight \in Nat
  BY EndFields, NumbersAssumption
<1>2. T.ceiling <= S.ceiling
  BY DEF Shrinks
<1>3. Least(LongRoom, T.ceiling) <= Least(LongRoom, S.ceiling)
  BY <1>1, <1>2 DEF Least
<1>4. repeated \div 2 \in Nat /\ S.inFlight \div 2 \in Nat
  BY <1>1
<1>5. CASE Repeating(S, T) = repeated
  BY <1>1, <1>3, <1>4, <1>5 DEF Least, Most
<1>6. CASE Repeating(S, T) # repeated
  <2>1. /\ S.state = "Data" /\ T.last = S.last /\ T.retries > S.retries /\ S.inFlight > LeastSize
        /\ Repeating(S, T) = Least(repeated, S.inFlight)
    BY <1>6 DEF Repeating
  <2>2. T.ceiling <= Most(S.inFlight \div 2, LeastSize)
    BY <2>1 DEF Shrinks
  <2>3. Least(repeated, S.inFlight) \in {repeated, S.inFlight}
    BY DEF Least
  <2>4. Repeating(S, T) = S.inFlight
    BY <1>6, <2>1, <2>3
  <2>5. Least(LongRoom, T.ceiling) <= T.ceiling
    BY <1>1 DEF Least
  <2>6. Most(S.inFlight \div 2, LeastSize) \in Nat /\ Least(LongRoom, T.ceiling) \in Nat
    BY <1>1, <1>4 DEF Most, Least
  <2> QED
    BY <1>1, <2>2, <2>4, <2>5, <2>6
<1> QED
  BY <1>5, <1>6

LEMMA StepsRestore ==
    ASSUME IInv, NEW side \in Sides, NEW T, NEW V, NEW E, Steps(side, T, V, E)
    PROVE  IInv'
<1> DEFINE o == Other(side)
           S == Quiet(side)
<1>1. o \in Sides /\ o # side
  BY TwoSides
<1>2. /\ end[side] \in EndTypes /\ end[o] \in EndTypes /\ repeated \in Nat
      /\ folder \in [Sides -> Folders]
      /\ \A q \in Sides : end[q].role = "send" =>
            Least(LongRoom, end[q].ceiling) <= Most(repeated \div 2, LeastSize)
  BY <1>1 DEF IInv
<1>3. /\ T \in EndTypes /\ T.role = end[side].role /\ E \in Folders /\ V \in Seq(Packets)
      /\ agreement' = agreement /\ cancels' \in Nat /\ failure' \in BOOLEAN
      /\ repeated' = IF T.role = "send" THEN Repeating(S, T) ELSE repeated
  BY DEF Steps, Fits
<1>4. PICK w \in [Sides -> Seq(Packets)] :
         w[side] = wire[side] /\ w[o] = V /\ Put(side, w, T)
  BY DEF Steps
<1>5. PICK u : Said(side, T, w, u)
  BY <1>3, <1>4, PutDoes
<1>12. /\ u \in EndTypes /\ u.role = end[side].role /\ InHand(u) /\ end' = [end EXCEPT ![side] = u]
       /\ u = [T EXCEPT !.out = u.out] /\ u.out \in AtMostOne /\ u.ceiling = T.ceiling
       /\ u.role = T.role
       /\ wire' \in [Sides -> Seq(Packets)] /\ wire'[side] = wire[side] \o T.out /\ wire'[o] = V
  BY <1>3, <1>4, <1>5 DEF Said
<1>6. folder' \in [Sides -> Folders] /\ folder'[side] = E /\ folder'[o] = folder[o]
  BY <1>1, <1>2, <1>3 DEF Steps
<1>7. /\ S \in EndTypes /\ S.role = end[side].role /\ S.ceiling = end[side].ceiling
      /\ S.state = end[side].state
  BY <1>2, QuietDoes
<1> HIDE DEF S
<1>8. u.role = end[o].role =>
         Alone(u, wire'[side], folder'[side]) /\ Alone(end[o], wire'[o], folder'[o])
  <2> SUFFICES ASSUME T.role = end[o].role
               PROVE  Alone(u, wire'[side], folder'[side]) /\ Alone(end[o], wire'[o], folder'[o])
    BY <1>12
  <2>1. Alone(T, wire[side] \o T.out, E) /\ Alone(end[o], V, folder[o])
    BY DEF Steps, Fits
  <2>2. Alone(u, wire[side] \o T.out, E)
    BY <1>12, <2>1, AloneInHand
  <2> QED
    BY <1>12, <1>6, <2>1, <2>2
<1>9. u.role = "send" /\ end[o].role = "receive" =>
         /\ Matched(agreement, cancels', failure', u, end[o], wire'[side], wire'[o], folder'[o])
         /\ folder'[side] = <<>>
  <2> SUFFICES ASSUME T.role = "send", end[o].role = "receive"
               PROVE  /\ Matched(agreement, cancels', failure', u, end[o], wire'[side], wire'[o], folder'[o])
                      /\ folder'[side] = <<>>
    BY <1>12
  <2>1. /\ Matched(agreement, cancels', failure', T, end[o], wire[side] \o T.out, V, folder[o])
        /\ E = <<>>
    BY DEF Steps, Fits
  <2>2. Matched(agreement, cancels', failure', u, end[o], wire[side] \o T.out, V, folder[o])
    BY <1>3, <1>12, <2>1, SenderInHand
  <2> QED
    BY <1>12, <1>6, <2>1, <2>2
<1>10. u.role = "receive" /\ end[o].role = "send" =>
         /\ Matched(agreement, cancels', failure', end[o], u, wire'[o], wire'[side], folder'[side])
         /\ folder'[o] = <<>>
  <2> SUFFICES ASSUME T.role = "receive", end[o].role = "send"
               PROVE  /\ Matched(agreement, cancels', failure', end[o], u, wire'[o], wire'[side], folder'[side])
                      /\ folder'[o] = <<>>
    BY <1>12
  <2>1. Matched(agreement, cancels', failure', end[o], T, V, wire[side] \o T.out, E)
    BY DEF Steps, Fits
  <2>2. Matched(agreement, cancels', failure', end[o], u, V, wire[side] \o T.out, E)
    BY <1>3, <1>12, <2>1, ReceiverInHand
  <2>3. folder[o] = <<>>
    BY <1>1, <1>3 DEF IInv
  <2> QED
    BY <1>12, <1>6, <2>2, <2>3
<1>11. /\ repeated' \in Nat
       /\ u.role = "send" => Least(LongRoom, u.ceiling) <= Most(repeated' \div 2, LeastSize)
       /\ end[o].role = "send" => Least(LongRoom, end[o].ceiling) <= Most(repeated' \div 2, LeastSize)
  <2>1. CASE T.role # "send"
    BY <1>1, <1>2, <1>3, <1>12, <2>1
  <2>2. CASE T.role = "send" /\ end[o].role = "send"
    <3>1. S.state # "Data"
      <4>1. Alone(end[side], wire[side], folder[side])
        BY <1>1, <1>3, <2>2 DEF IInv
      <4> QED
        BY <1>7, <4>1 DEF Alone
    <3>2. repeated' = repeated
      BY <1>3, <3>1 DEF Repeating
    <3>3. T.ceiling = end[side].ceiling
      BY <2>2 DEF Steps, Fits
    <3> QED
      BY <1>1, <1>2, <1>3, <1>12, <3>2, <3>3
  <2>3. CASE T.role = "send" /\ end[o].role # "send"
    <3>1. end[o].role = "receive"
      BY <1>2, <2>3, EndFields DEF Roles
    <3>2. SenderStep(cancels', S, T, folder[o])
      BY <2>3, <3>1 DEF Steps, Fits, S
    <3>3. Shrinks(S, T) /\ repeated' = Repeating(S, T)
      BY <1>3, <2>3, <3>2 DEF SenderStep
    <3>4. Least(LongRoom, S.ceiling) <= Most(repeated \div 2, LeastSize)
      BY <1>2, <1>3, <1>7, <2>3
    <3>5. /\ Repeating(S, T) \in Nat
          /\ Least(LongRoom, T.ceiling) <= Most(Repeating(S, T) \div 2, LeastSize)
      BY <1>2, <1>3, <1>7, <3>3, <3>4, RepeatingDoes
    <3> QED
      BY <1>12, <2>3, <3>3, <3>5
  <2> QED
    BY <2>1, <2>2, <2>3
<1> QED
  BY <1>1, <1>3, <1>6, <1>8, <1>9, <1>10, <1>11, <1>12, Restored
-----------------------------------------------------------------------------
(* Every action keeps the invariant.                                        *)

\* What IInv says of one side.
LEMMA SideFacts ==
    ASSUME IInv, NEW side \in Sides
    PROVE  LET o == Other(side)
               e == Quiet(side)
           IN  /\ o \in Sides /\ o # side /\ Other(o) = side
               /\ end[side] \in EndTypes /\ end[o] \in EndTypes /\ e \in EndTypes
               /\ e.role = end[side].role /\ e.role \in Roles /\ end[o].role \in Roles
               /\ e.out = <<>> /\ e.files = end[side].files /\ e.status = end[side].status
               /\ e.state = end[side].state
               /\ wire[side] \in Seq(Packets) /\ wire[o] \in Seq(Packets)
               /\ folder[side] \in Folders /\ folder[o] \in Folders
               /\ agreement \in Agreements /\ cancels \in Nat /\ failure \in BOOLEAN
               /\ folder \in [Sides -> Folders] /\ wire \in [Sides -> Seq(Packets)]
               /\ end \in [Sides -> EndTypes]
<1> DEFINE o == Other(side)
<1>1. o \in Sides /\ o # side /\ Other(o) = side
  BY TwoSides
<1>2. /\ end[side] \in EndTypes /\ end[o] \in EndTypes
      /\ wire[side] \in Seq(Packets) /\ wire[o] \in Seq(Packets)
      /\ folder[side] \in Folders /\ folder[o] \in Folders
      /\ agreement \in Agreements /\ cancels \in Nat /\ failure \in BOOLEAN
      /\ folder \in [Sides -> Folders] /\ wire \in [Sides -> Seq(Packets)]
      /\ end \in [Sides -> EndTypes]
  BY <1>1 DEF IInv
<1>3. end[side].role \in Roles /\ end[o].role \in Roles
  BY <1>2, EndFields
<1> QED
  BY <1>1, <1>2, <1>3, QuietDoes

LEMMA SendingSide ==
    ASSUME IInv, NEW side \in Sides, end[side].role = "send", end[Other(side)].role = "receive"
    PROVE  /\ Matched(agreement, cancels, failure, Quiet(side), end[Other(side)], wire[side],
                      wire[Other(side)], folder[Other(side)])
           /\ folder[side] = <<>>
<1> DEFINE o == Other(side)
<1>1. o \in Sides /\ cancels \in Nat /\ <<>> \in AtMostOne
  BY TwoSides DEF IInv, AtMostOne
<1>2. /\ Matched(agreement, cancels, failure, end[side], end[o], wire[side], wire[o], folder[o])
      /\ folder[side] = <<>>
  BY <1>1 DEF IInv
<1> QED
  BY <1>1, <1>2, SenderInHand DEF Quiet

LEMMA ReceivingSide ==
    ASSUME IInv, NEW side \in Sides, end[side].role = "receive", end[Other(side)].role = "send"
    PROVE  /\ Matched(agreement, cancels, failure, end[Other(side)], Quiet(side),
                      wire[Other(side)], wire[side], folder[side])
           /\ folder[Other(side)] = <<>>
<1> DEFINE o == Other(side)
<1>1. o \in Sides /\ cancels \in Nat /\ <<>> \in AtMostOne
  BY TwoSides DEF IInv, AtMostOne
<1>2. /\ Matched(agreement, cancels, failure, end[o], end[side], wire[o], wire[side], folder[side])
      /\ folder[o] = <<>>
  BY <1>1 DEF IInv
<1> QED
  BY <1>1, <1>2, ReceiverInHand DEF Quiet

LEMMA AloneSide ==
    ASSUME IInv, NEW side \in Sides, end[side].role = end[Other(side)].role
    PROVE  /\ Alone(Quiet(side), wire[side], folder[side])
           /\ Alone(end[Other(side)], wire[Other(side)], folder[Other(side)])
<1> DEFINE o == Other(side)
<1>1. o \in Sides /\ o # side /\ <<>> \in AtMostOne
  BY TwoSides DEF AtMostOne
<1>2. Alone(end[side], wire[side], folder[side]) /\ Alone(end[o], wire[o], folder[o])
  BY <1>1 DEF IInv
<1> QED
  BY <1>1, <1>2, AloneInHand DEF Quiet

\* What may come of a call: with no fault, or with one and a failure.
LEMMA OutcomesDo ==
    ASSUME NEW does, NEW heard \in Outcomes(does)
    PROVE  /\ heard.failed \in BOOLEAN
           /\ \E fault \in Calls : heard.to = does[fault] /\ (fault = "none" \/ heard.failed)
<1>1. CASE heard = [to |-> does["none"], failed |-> FALSE]
  BY <1>1 DEF Calls
<1>2. CASE heard # [to |-> does["none"], failed |-> FALSE]
  <2>1. PICK fault \in Faults : heard = [to |-> does[fault], failed |-> TRUE]
    BY <1>2 DEF Outcomes
  <2>2. fault \in Calls /\ heard.to = does[fault] /\ heard.failed = TRUE
    BY <2>1 DEF Calls
  <2> QED
    BY <2>2
<1> QED
  BY <1>1, <1>2

\* A packet is read by a sender.
LEMMA SenderHearsSteps ==
    ASSUME IInv, NEW side \in Sides, Hear(side), end[side].role = "send"
    PROVE  \E T, V, E : Steps(side, T, V, E)
<1> DEFINE o == Other(side)
           e == Quiet(side)
           p == Heard(side)
           V == Tail(wire[o])
           E == folder[side]
           w == [wire EXCEPT ![o] = V]
<1>1. /\ o \in Sides /\ o # side /\ Other(o) = side
      /\ end[side] \in EndTypes /\ end[o] \in EndTypes /\ e \in EndTypes
      /\ e.role = "send" /\ end[o].role \in Roles /\ e.out = <<>>
      /\ wire[side] \in Seq(Packets) /\ wire[o] \in Seq(Packets)
      /\ folder[side] \in Folders /\ folder[o] \in Folders
      /\ agreement \in Agreements /\ cancels \in Nat /\ failure \in BOOLEAN
      /\ folder \in [Sides -> Folders] /\ wire \in [Sides -> Seq(Packets)]
  BY SideFacts
<1>2. wire[o] # <<>> /\ p = wire[o][1] /\ V \in Seq(Packets)
  BY <1>1, OneLess DEF Hear, CanHear, Heard
<1>3. PICK heard \in Outcomes([fault \in Calls |-> SenderHears(e, p, fault)]) :
         /\ Put(side, Unheard(side), heard.to)
         /\ repeated' = Repeating(e, heard.to)
         /\ failure' = (failure \/ heard.failed)
         /\ UNCHANGED folder
  BY <1>1 DEF Hear
<1>4. /\ heard.failed \in BOOLEAN
      /\ \E fault \in Calls : heard.to = SenderHears(e, p, fault)
  BY <1>3, OutcomesDo
<1>5. PICK fault \in Calls : heard.to = SenderHears(e, p, fault)
  BY <1>4
<1> DEFINE T == SenderHears(e, p, fault)
<1>6. /\ w \in [Sides -> Seq(Packets)] /\ w[side] = wire[side] /\ w[o] = V
      /\ Unheard(side) = w
  BY <1>1, <1>2 DEF Unheard
<1>7. Put(side, w, T) /\ repeated' = Repeating(e, T) /\ failure' \in BOOLEAN
      /\ (failure => failure') /\ folder' = folder /\ agreement' = agreement /\ cancels' = cancels
  BY <1>1, <1>3, <1>4, <1>5, <1>6 DEF Hear
<1>8. /\ T \in EndTypes /\ T.role = "send"
      /\ Fits(side, T, V, E, cancels', failure')
  <2>1. CASE end[o].role = "receive"
    <3>1. /\ Matched(agreement, cancels, failure, e, end[o], wire[side], wire[o], folder[o])
          /\ folder[side] = <<>>
      BY <1>1, <2>1, SendingSide
    <3>2. /\ Matched(agreement, cancels, failure, T, end[o], wire[side] \o T.out, V, folder[o])
          /\ SenderStep(cancels, e, T, folder[o])
      BY <1>1, <1>2, <3>1, SenderHearsDoes
    <3> HIDE DEF T, V
    <3>3. Matched(agreement, cancels, failure', T, end[o], wire[side] \o T.out, V, folder[o])
      BY <1>1, <1>7, <3>2, FailureStays
    <3>4. T \in EndTypes /\ T.role = "send"
      BY <3>2 DEF Matched, Sending
    <3> QED
      BY <1>1, <1>2, <1>7, <2>1, <3>1, <3>2, <3>3, <3>4 DEF Fits
  <2>2. CASE end[o].role = "send"
    <3>1. Alone(e, wire[side], folder[side]) /\ Alone(end[o], wire[o], folder[o])
      BY <1>1, <2>2, AloneSide
    <3>2. p.kind \in {"Error", "SendInit"} /\ Alone(end[o], V, folder[o])
      BY <1>2, <2>2, <3>1, AloneLess
    <3>3. AloneStep(e, T, wire[side], folder[side])
      BY <1>1, <3>1, <3>2, AloneSenderHears
    <3>4. e.ceiling = end[side].ceiling
      BY <1>1, QuietDoes
    <3> HIDE DEF T, V
    <3> QED
      BY <1>1, <1>2, <2>2, <3>2, <3>3, <3>4 DEF Fits, AloneStep
  <2> QED
    BY <1>1, <2>1, <2>2 DEF Roles
<1>9. folder' = [folder EXCEPT ![side] = E]
  BY <1>1, <1>7
<1>10. Steps(side, T, V, E)
  <2> HIDE DEF T, V, E, w
  <2> QED
    BY <1>1, <1>6, <1>7, <1>8, <1>9 DEF Steps
<1> QED
  BY <1>10
\* A packet is read by a receiver.
LEMMA ReceiverHearsSteps ==
    ASSUME IInv, NEW side \in Sides, Hear(side), end[side].role = "receive"
    PROVE  \E T, V, E : Steps(side, T, V, E)
<1> DEFINE o == Other(side)
           e == Quiet(side)
           p == Heard(side)
           f == folder[side]
           V == Tail(wire[o])
           w == [wire EXCEPT ![o] = V]
<1>1. /\ o \in Sides /\ o # side /\ Other(o) = side
      /\ end[side] \in EndTypes /\ end[o] \in EndTypes /\ e \in EndTypes
      /\ e.role = "receive" /\ end[o].role \in Roles /\ e.out = <<>>
      /\ wire[side] \in Seq(Packets) /\ wire[o] \in Seq(Packets)
      /\ folder[side] \in Folders /\ folder[o] \in Folders
      /\ agreement \in Agreements /\ cancels \in Nat /\ failure \in BOOLEAN
      /\ folder \in [Sides -> Folders] /\ wire \in [Sides -> Seq(Packets)]
  BY SideFacts
<1>2. wire[o] # <<>> /\ p = wire[o][1] /\ V \in Seq(Packets)
  BY <1>1, OneLess DEF Hear, CanHear, Heard
<1>3. PICK heard \in Outcomes([fault \in Calls |-> ReceiverHears(e, f, p, fault)]) :
         /\ PutWith(side, Unheard(side), heard.to)
         /\ failure' = (failure \/ heard.failed)
         /\ UNCHANGED repeated
  BY <1>1 DEF Hear
<1>4. /\ heard.failed \in BOOLEAN
      /\ \E fault \in Calls :
            heard.to = ReceiverHears(e, f, p, fault) /\ (fault = "none" \/ heard.failed)
  BY <1>3, OutcomesDo
<1>5. PICK fault \in Calls :
         heard.to = ReceiverHears(e, f, p, fault) /\ (fault = "none" \/ heard.failed)
  BY <1>4
<1> DEFINE h == ReceiverHears(e, f, p, fault)
           T == h.e
           E == h.folder
<1>6. /\ w \in [Sides -> Seq(Packets)] /\ w[side] = wire[side] /\ w[o] = V
      /\ Unheard(side) = w
  BY <1>1, <1>2 DEF Unheard
<1>7. /\ Put(side, w, T) /\ folder' = [folder EXCEPT ![side] = E]
      /\ repeated' = repeated /\ failure' \in BOOLEAN
      /\ (failure => failure') /\ (fault = "none" \/ failure')
      /\ agreement' = agreement /\ cancels' = cancels
  BY <1>1, <1>3, <1>4, <1>5, <1>6 DEF Hear, PutWith
<1>8. /\ T \in EndTypes /\ T.role = "receive"
      /\ Fits(side, T, V, E, cancels', failure')
  <2>1. CASE end[o].role = "send"
    <3>1. Matched(agreement, cancels, failure, end[o], e, wire[o], wire[side], f)
      BY <1>1, <2>1, ReceivingSide
    <3>2. Leaves(agreement, cancels, failure', end[o], e, h, V, wire[side], f)
      BY <1>1, <1>2, <1>7, <3>1, ReceiverHearsDoes
    <3> HIDE DEF h, V
    <3>3. /\ Matched(agreement, cancels, failure', end[o], T, V, wire[side] \o T.out, E)
          /\ ReceiverStep(cancels, e, T, f, E)
      BY <3>2 DEF Leaves
    <3>4. T \in EndTypes /\ T.role = "receive" /\ E \in Folders
      BY <3>3 DEF Matched, Receiving
    <3> QED
      BY <1>1, <1>2, <1>7, <2>1, <3>3, <3>4 DEF Fits
  <2>2. CASE end[o].role = "receive"
    <3>1. Alone(e, wire[side], f) /\ Alone(end[o], wire[o], folder[o])
      BY <1>1, <2>2, AloneSide
    <3>2. p.kind \in {"Error", "Nak"} /\ Alone(end[o], V, folder[o])
      BY <1>2, <2>2, <3>1, AloneLess
    <3>3. AloneLeaves(e, h, wire[side], f)
      BY <1>1, <3>1, <3>2, AloneReceiverHears
    <3>4. e.ceiling = end[side].ceiling
      BY <1>1, QuietDoes
    <3> HIDE DEF h, V
    <3> QED
      BY <1>1, <1>2, <2>2, <3>2, <3>3, <3>4 DEF Fits, AloneStep, AloneLeaves
  <2> QED
    BY <1>1, <2>1, <2>2 DEF Roles
<1>9. Steps(side, T, V, E)
  <2> HIDE DEF h, V, w
  <2> QED
    BY <1>1, <1>6, <1>7, <1>8 DEF Steps
<1> QED
  BY <1>9

\* A deadline passes.
LEMMA ExpireSteps ==
    ASSUME IInv, NEW side \in Sides, Expire(side)
    PROVE  \E T, V, E : Steps(side, T, V, E)
<1> DEFINE o == Other(side)
           e == Quiet(side)
           f == folder[side]
           V == wire[o]
<1>1. /\ o \in Sides /\ o # side /\ Other(o) = side
      /\ end[side] \in EndTypes /\ end[o] \in EndTypes /\ e \in EndTypes
      /\ e.role = end[side].role /\ e.role \in Roles /\ end[o].role \in Roles /\ e.out = <<>>
      /\ e.status = end[side].status
      /\ wire[side] \in Seq(Packets) /\ wire[o] \in Seq(Packets)
      /\ folder[side] \in Folders /\ folder[o] \in Folders
      /\ agreement \in Agreements /\ cancels \in Nat /\ failure \in BOOLEAN
      /\ folder \in [Sides -> Folders] /\ wire \in [Sides -> Seq(Packets)]
  BY SideFacts
<1>2. /\ Running(e) /\ failure' = failure /\ agreement' = agreement /\ cancels' = cancels
      /\ e.ceiling = end[side].ceiling
  BY <1>1, QuietDoes DEF Expire, Running
<1>3. CASE e.role = "send"
  <2> DEFINE T == Again(e)
  <2>1. Put(side, wire, T) /\ repeated' = Repeating(e, T) /\ folder' = folder
    BY <1>1, <1>3 DEF Expire
  <2>2. T \in EndTypes /\ T.role = "send" /\ Fits(side, T, V, f, cancels, failure)
    <3>1. CASE end[o].role = "receive"
      <4>1. Matched(agreement, cancels, failure, e, end[o], wire[side], V, folder[o]) /\ f = <<>>
        BY <1>1, <1>3, <3>1, SendingSide
      <4>2. /\ Matched(agreement, cancels, failure, T, end[o], wire[side] \o T.out, V, folder[o])
            /\ SenderStep(cancels, e, T, folder[o])
        BY <1>1, <1>2, <4>1, AgainGoes
      <4> HIDE DEF T
      <4>3. T \in EndTypes /\ T.role = "send"
        BY <4>2 DEF Matched, Sending
      <4> QED
        BY <1>1, <1>3, <3>1, <4>1, <4>2, <4>3 DEF Fits
    <3>2. CASE end[o].role = "send"
      <4>1. Alone(e, wire[side], f) /\ Alone(end[o], V, folder[o])
        BY <1>1, <1>3, <3>2, AloneSide
      <4>2. AloneStep(e, T, wire[side], f)
        BY <1>1, <1>2, <1>3, <4>1, AloneAgain
      <4> HIDE DEF T
      <4> QED
        BY <1>1, <1>2, <1>3, <3>2, <4>1, <4>2 DEF Fits, AloneStep
    <3> QED
      BY <1>1, <3>1, <3>2 DEF Roles
  <2>3. folder' = [folder EXCEPT ![side] = f]
    BY <1>1, <2>1
  <2> HIDE DEF T
  <2>4. Steps(side, T, V, f)
    BY <1>1, <1>2, <2>1, <2>2, <2>3 DEF Steps
  <2> QED
    BY <2>4
<1>4. CASE e.role = "receive"
  <2> DEFINE h == ReceiverTick(e, f)
             T == h.e
             E == h.folder
  <2>1. /\ Put(side, wire, T) /\ folder' = [folder EXCEPT ![side] = E] /\ repeated' = repeated
    BY <1>1, <1>4 DEF Expire, PutWith
  <2>2. T \in EndTypes /\ T.role = "receive" /\ Fits(side, T, V, E, cancels, failure)
    <3>1. CASE end[o].role = "send"
      <4>1. Matched(agreement, cancels, failure, end[o], e, V, wire[side], f)
        BY <1>1, <1>4, <3>1, ReceivingSide
      <4>2. Leaves(agreement, cancels, failure, end[o], e, h, V, wire[side], f)
        BY <1>1, <1>2, <4>1, ReceiverTickDoes
      <4> HIDE DEF h
      <4>3. /\ Matched(agreement, cancels, failure, end[o], T, V, wire[side] \o T.out, E)
            /\ ReceiverStep(cancels, e, T, f, E)
        BY <4>2 DEF Leaves
      <4>4. T \in EndTypes /\ T.role = "receive" /\ E \in Folders
        BY <4>3 DEF Matched, Receiving
      <4> QED
        BY <1>1, <1>4, <3>1, <4>3, <4>4 DEF Fits
    <3>2. CASE end[o].role = "receive"
      <4>1. Alone(e, wire[side], f) /\ Alone(end[o], V, folder[o])
        BY <1>1, <1>4, <3>2, AloneSide
      <4>2. AloneLeaves(e, h, wire[side], f)
        BY <1>1, <1>2, <1>4, <4>1, AloneReceiverTick
      <4> HIDE DEF h
      <4> QED
        BY <1>1, <1>2, <1>4, <3>2, <4>1, <4>2 DEF Fits, AloneStep, AloneLeaves
    <3> QED
      BY <1>1, <3>1, <3>2 DEF Roles
  <2> HIDE DEF h
  <2>3. Steps(side, T, V, E)
    BY <1>1, <1>2, <2>1, <2>2 DEF Steps
  <2> QED
    BY <2>3
<1> QED
  BY <1>1, <1>3, <1>4 DEF Roles

\* What a receiver has counted is left alone by a cancellation, and so is the
\* folder unless the receiver stops.
LEMMA CancelCounts ==
    ASSUME NEW R \in EndTypes, NEW F
    PROVE  /\ ReceiverCancel(R, F).e.files = R.files
           /\ ReceiverCancel(R, F).e.status = "Cancelled" \/ ReceiverCancel(R, F).folder = F
           /\ ReceiverCancel(R, F).e.status \in {R.status, "Cancelled"}
<1>1. CASE R.state = "Data" /\ ~R.cancelling
  BY <1>1 DEF ReceiverCancel, With, EndTypes
<1>2. CASE ~(R.state = "Data" /\ ~R.cancelling)
  <2> DEFINE q == Fails(R, "Cancelled")
  <2>1. ReceiverCancel(R, F) = Tidied(q, F)
    BY <1>2 DEF ReceiverCancel, Fails
  <2>2. q \in EndTypes /\ q.status = "Cancelled" /\ q.files = R.files
    <3> DEFINE p == Packet(R, R.seq, "Error", "none", <<>>)
    <3>1. p \in Packets /\ q = [R EXCEPT !.out = <<p>>, !.state = "Finished", !.status = "Cancelled"]
          /\ q \in EndTypes
      BY FailsDoes
    <3> HIDE DEF p, q
    <3> QED
      BY <3>1 DEF EndTypes
  <2> HIDE DEF q
  <2>3. Tidied(q, F).e = [q EXCEPT !.open = FALSE]
    BY DEF Tidied, With
  <2>4. Tidied(q, F).e.status = "Cancelled" /\ Tidied(q, F).e.files = R.files
    BY <2>2, <2>3 DEF EndTypes
  <2> QED
    BY <2>1, <2>4
<1> QED
  BY <1>1, <1>2

\* A user cancels: nothing is counted or kept by it.
LEMMA CancelKeeps ==
    ASSUME NEW a, NEW c \in Nat, NEW x, NEW S, NEW R, NEW h, NEW V, NEW W, NEW F, Running(R),
           h.e.status = "Cancelled" \/ h.folder = F,
           Leaves(a, c, x, S, R, h, W, V, F)
    PROVE  SavedOf(h.folder) = SavedOf(F)
<1>1. ReceiverStep(c, R, h.e, F, h.folder)
  BY DEF Leaves
<1> QED
  BY <1>1 DEF ReceiverStep, Running

LEMMA CancelSteps ==
    ASSUME IInv, NEW side \in Sides, Cancel(side)
    PROVE  \E T, V, E : Steps(side, T, V, E)
<1> DEFINE o == Other(side)
           e == Quiet(side)
           f == folder[side]
           V == wire[o]
<1>1. /\ o \in Sides /\ o # side /\ Other(o) = side
      /\ end[side] \in EndTypes /\ end[o] \in EndTypes /\ e \in EndTypes
      /\ e.role = end[side].role /\ e.role \in Roles /\ end[o].role \in Roles /\ e.out = <<>>
      /\ e.status = end[side].status /\ e.files = end[side].files
      /\ wire[side] \in Seq(Packets) /\ wire[o] \in Seq(Packets)
      /\ folder[side] \in Folders /\ folder[o] \in Folders
      /\ agreement \in Agreements /\ cancels \in Nat /\ failure \in BOOLEAN
      /\ folder \in [Sides -> Folders] /\ wire \in [Sides -> Seq(Packets)]
  BY SideFacts
<1>2. /\ Running(e) /\ failure' = failure /\ agreement' = agreement /\ cancels' = cancels + 1
      /\ cancels + 1 \in Nat /\ repeated' = repeated
      /\ e.ceiling = end[side].ceiling
  BY <1>1, QuietDoes DEF Cancel, Running
<1>3. CASE e.role = "send"
  <2> DEFINE T == SenderCancel(e)
  <2>1. Put(side, wire, T) /\ folder' = folder
    BY <1>1, <1>3 DEF Cancel
  <2>2. T.files = e.files /\ T.status # "Done"
    BY <1>1, <1>2 DEF SenderCancel, Stops, Says, EndTypes, Running
  <2>3. repeated' = Repeating(e, T)
    <3>1. T.retries = e.retries
      BY DEF SenderCancel, Stops, Says, EndTypes
    <3>2. e.retries \in Nat
      BY <1>1, EndFields
    <3> HIDE DEF T
    <3> QED
      BY <1>2, <3>1, <3>2 DEF Repeating
  <2>4. T \in EndTypes /\ T.role = "send" /\ Fits(side, T, V, f, cancels + 1, failure)
    <3>1. CASE end[o].role = "receive"
      <4>1. Matched(agreement, cancels, failure, e, end[o], wire[side], V, folder[o]) /\ f = <<>>
        BY <1>1, <1>3, <3>1, SendingSide
      <4>2. /\ Matched(agreement, cancels + 1, failure, T, end[o], wire[side] \o T.out, V, folder[o])
            /\ SenderStep(cancels + 1, e, T, folder[o])
        BY <1>1, <1>2, <4>1, SenderCancels
      <4> HIDE DEF T
      <4>3. T \in EndTypes /\ T.role = "send"
        BY <4>2 DEF Matched, Sending
      <4> QED
        BY <1>1, <1>3, <3>1, <4>1, <4>2, <4>3 DEF Fits
    <3>2. CASE end[o].role = "send"
      <4>1. Alone(e, wire[side], f) /\ Alone(end[o], V, folder[o])
        BY <1>1, <1>3, <3>2, AloneSide
      <4>2. AloneStep(e, T, wire[side], f)
        BY <1>1, <1>2, <1>3, <4>1, AloneSenderCancels
      <4> HIDE DEF T
      <4> QED
        BY <1>1, <1>2, <1>3, <3>2, <4>1, <4>2 DEF Fits, AloneStep
    <3> QED
      BY <1>1, <3>1, <3>2 DEF Roles
  <2>5. folder' = [folder EXCEPT ![side] = f]
    BY <1>1, <2>1
  <2> HIDE DEF T
  <2>6. Steps(side, T, V, f)
    BY <1>1, <1>2, <2>1, <2>2, <2>3, <2>4, <2>5 DEF Steps
  <2> QED
    BY <2>6
<1>4. CASE e.role = "receive"
  <2> DEFINE h == ReceiverCancel(e, f)
             T == h.e
             E == h.folder
  <2>1. Put(side, wire, T) /\ folder' = [folder EXCEPT ![side] = E]
    BY <1>1, <1>4 DEF Cancel, PutWith
  <2>2. T \in EndTypes /\ T.role = "receive" /\ Fits(side, T, V, E, cancels + 1, failure)
        /\ SavedOf(E) = SavedOf(f) /\ T.files = e.files /\ T.status # "Done"
    <3>4. T.status # "Done"
      BY <1>1, <1>2, CancelCounts DEF Running
    <3>1. CASE end[o].role = "send"
      <4>1. Matched(agreement, cancels, failure, end[o], e, V, wire[side], f)
        BY <1>1, <1>4, <3>1, ReceivingSide
      <4>2. Leaves(agreement, cancels + 1, failure, end[o], e, h, V, wire[side], f)
        BY <1>1, <1>2, <4>1, ReceiverCancels
      <4>3. SavedOf(E) = SavedOf(f) /\ T.files = e.files
        <5>1. T.files = e.files /\ (T.status = "Cancelled" \/ E = f)
          BY <1>1, CancelCounts
        <5> HIDE DEF h
        <5> QED
          BY <1>2, <4>2, <5>1, CancelKeeps
      <4> HIDE DEF h
      <4>4. /\ Matched(agreement, cancels + 1, failure, end[o], T, V, wire[side] \o T.out, E)
            /\ ReceiverStep(cancels + 1, e, T, f, E)
        BY <4>2 DEF Leaves
      <4>5. T \in EndTypes /\ T.role = "receive" /\ E \in Folders
        BY <4>4 DEF Matched, Receiving
      <4> QED
        BY <1>1, <1>4, <3>1, <3>4, <4>3, <4>4, <4>5 DEF Fits
    <3>2. CASE end[o].role = "receive"
      <4>1. Alone(e, wire[side], f) /\ Alone(end[o], V, folder[o])
        BY <1>1, <1>4, <3>2, AloneSide
      <4>2. AloneLeaves(e, h, wire[side], f)
        BY <1>1, <1>2, <1>4, <4>1, AloneReceiverCancels
      <4>3. T.files = e.files
        BY <1>1 DEF ReceiverCancel, Tidied, With, Stops, Says, EndTypes
      <4> HIDE DEF h
      <4> QED
        BY <1>1, <1>2, <1>4, <3>2, <3>4, <4>1, <4>2, <4>3 DEF Fits, AloneStep, AloneLeaves
    <3> QED
      BY <1>1, <3>1, <3>2 DEF Roles
  <2> HIDE DEF h
  <2>3. Steps(side, T, V, E)
    BY <1>1, <1>2, <2>1, <2>2 DEF Steps
  <2> QED
    BY <2>3
<1> QED
  BY <1>1, <1>3, <1>4 DEF Roles

\* What is on the line changes, or what an end has in hand, and nothing else.
LEMMA LineChanges ==
    ASSUME IInv, NEW side \in Sides, NEW e \in EndTypes, NEW v \in Seq(Packets),
           wire' = [wire EXCEPT ![side] = v], end' = [end EXCEPT ![side] = e],
           e.role = end[side].role, InHand(e), e.ceiling = end[side].ceiling,
           UNCHANGED <<agreement, folder, cancels, failure, repeated>>,
           e.role = end[Other(side)].role => Alone(e, v, folder[side]),
           e.role = "send" /\ end[Other(side)].role = "receive" =>
              Matched(agreement, cancels, failure, e, end[Other(side)], v, wire[Other(side)],
                      folder[Other(side)]),
           e.role = "receive" /\ end[Other(side)].role = "send" =>
              Matched(agreement, cancels, failure, end[Other(side)], e, wire[Other(side)], v,
                      folder[side])
    PROVE  IInv'
<1> DEFINE o == Other(side)
<1>1. /\ o \in Sides /\ o # side
      /\ agreement \in Agreements /\ cancels \in Nat /\ failure \in BOOLEAN /\ repeated \in Nat
      /\ folder \in [Sides -> Folders] /\ wire \in [Sides -> Seq(Packets)]
      /\ \A q \in Sides : end[q].role = "send" =>
            Least(LongRoom, end[q].ceiling) <= Most(repeated \div 2, LeastSize)
  BY TwoSides DEF IInv
<1>2. /\ wire' \in [Sides -> Seq(Packets)] /\ wire'[side] = v /\ wire'[o] = wire[o]
      /\ folder' = folder /\ cancels' = cancels /\ failure' = failure /\ repeated' = repeated
      /\ agreement' = agreement
  BY <1>1
<1>3. e.role = end[o].role =>
         Alone(e, wire'[side], folder'[side]) /\ Alone(end[o], wire'[o], folder'[o])
  <2> SUFFICES ASSUME e.role = end[o].role
               PROVE  Alone(e, v, folder[side]) /\ Alone(end[o], wire[o], folder[o])
    BY <1>2
  <2>1. Alone(end[o], wire[o], folder[o])
    BY <1>1 DEF IInv
  <2> QED
    BY <2>1
<1>4. e.role = "send" /\ end[o].role = "receive" =>
         /\ Matched(agreement, cancels', failure', e, end[o], wire'[side], wire'[o], folder'[o])
         /\ folder'[side] = <<>>
  <2> SUFFICES ASSUME e.role = "send", end[o].role = "receive"
               PROVE  /\ Matched(agreement, cancels, failure, e, end[o], v, wire[o], folder[o])
                      /\ folder[side] = <<>>
    BY <1>2
  <2>1. folder[side] = <<>>
    BY <1>1 DEF IInv
  <2> QED
    BY <2>1
<1>5. e.role = "receive" /\ end[o].role = "send" =>
         /\ Matched(agreement, cancels', failure', end[o], e, wire'[o], wire'[side], folder'[side])
         /\ folder'[o] = <<>>
  <2> SUFFICES ASSUME e.role = "receive", end[o].role = "send"
               PROVE  /\ Matched(agreement, cancels, failure, end[o], e, wire[o], v, folder[side])
                      /\ folder[o] = <<>>
    BY <1>2
  <2>1. folder[o] = <<>>
    BY <1>1 DEF IInv
  <2> QED
    BY <2>1
<1>6. /\ e.role = "send" => Least(LongRoom, e.ceiling) <= Most(repeated' \div 2, LeastSize)
      /\ end[o].role = "send" => Least(LongRoom, end[o].ceiling) <= Most(repeated' \div 2, LeastSize)
  BY <1>1, <1>2
<1> QED
  BY <1>1, <1>2, <1>3, <1>4, <1>5, <1>6, Restored

\* What the user of an end sees of it, and what is kept, is left as it is.
Unseen ==
    /\ folder' = folder /\ cancels' = cancels /\ agreement' = agreement /\ failure' = failure
    /\ repeated' = repeated
    /\ \A q \in Sides :
          /\ end'[q].role = end[q].role /\ end'[q].status = end[q].status
          /\ end'[q].files = end[q].files /\ end'[q].last = end[q].last

LEMMA UnseenDoes ==
    ASSUME IInv, NEW side \in Sides, NEW e, end' = [end EXCEPT ![side] = e],
           UNCHANGED <<agreement, folder, cancels, failure, repeated>>,
           e.role = end[side].role, e.status = end[side].status, e.files = end[side].files,
           e.last = end[side].last
    PROVE  Unseen
<1>1. end \in [Sides -> EndTypes]
  BY DEF IInv
<1>2. ASSUME NEW q \in Sides
      PROVE  /\ end'[q].role = end[q].role /\ end'[q].status = end[q].status
             /\ end'[q].files = end[q].files /\ end'[q].last = end[q].last
  <2>1. end'[q] = IF q = side THEN e ELSE end[q]
    BY <1>1
  <2> QED
    BY <2>1
<1> QED
  BY <1>2 DEF Unseen

LEMMA LoseDoes ==
    ASSUME IInv, NEW side \in Sides, Lose(side)
    PROVE  IInv' /\ Unseen
<1> DEFINE o == Other(side)
           v == Tail(wire[side])
           e == end[side]
<1>1. /\ o \in Sides /\ o # side /\ e \in EndTypes /\ end[o] \in EndTypes
      /\ wire[side] \in Seq(Packets) /\ end \in [Sides -> EndTypes]
  BY SideFacts
<1>2. wire[side] # <<>> /\ v \in Seq(Packets) /\ InHand(e)
  BY <1>1, OneLess DEF Lose, IInv
<1>3. /\ wire' = [wire EXCEPT ![side] = v] /\ end' = [end EXCEPT ![side] = e]
      /\ UNCHANGED <<agreement, folder, cancels, failure, repeated>>
  BY <1>1 DEF Lose
<1>4. e.role = end[o].role => Alone(e, v, folder[side])
  BY <1>1, <1>2, AloneLess DEF IInv
<1>5. e.role = "send" /\ end[o].role = "receive" =>
         Matched(agreement, cancels, failure, e, end[o], v, wire[o], folder[o])
  BY <1>1, <1>2, ReceiverReads DEF IInv
<1>6. e.role = "receive" /\ end[o].role = "send" =>
         Matched(agreement, cancels, failure, end[o], e, wire[o], v, folder[side])
  BY <1>1, <1>2, SenderReads DEF IInv
<1> HIDE DEF v, e
<1>7. e = end[side]
  BY DEF e
<1>8. IInv'
  BY <1>1, <1>2, <1>3, <1>4, <1>5, <1>6, <1>7, LineChanges
<1>9. Unseen
  BY <1>3, <1>7, UnseenDoes
<1> QED
  BY <1>8, <1>9

\* A damaged packet is still as like the one held as it was.
LEMMA SpoiltOnWire ==
    ASSUME NEW a, NEW c, NEW x, NEW S, NEW R, NEW W, NEW V, NEW F,
           Matched(a, c, x, S, R, W, V, F), W # <<>>
    PROVE  Matched(a, c, x, S, R, <<Spoilt(Head(W))>> \o Tail(W), V, F)
<1>1. OnWire(S, R, W) /\ Held(S) \in Packets
  BY DEF Matched, Sending
<1> DEFINE U == <<Spoilt(Head(W))>> \o Tail(W)
<1>2. OnWire(S, R, U)
  BY <1>1, WireSpoilt
<1> HIDE DEF U
<1>3. Matched(a, c, x, S, R, U, V, F)
  BY <1>2 DEF Matched
<1> QED
  BY <1>3 DEF U

LEMMA SpoiltOnReturn ==
    ASSUME NEW a, NEW c, NEW x, NEW S, NEW R, NEW W, NEW V, NEW F,
           Matched(a, c, x, S, R, W, V, F), V # <<>>
    PROVE  Matched(a, c, x, S, R, W, <<Spoilt(Head(V))>> \o Tail(V), F)
<1>1. OnReturn(S, R, V) /\ V \in Seq(Packets)
  BY DEF Matched, OnReturn
<1> DEFINE U == <<Spoilt(Head(V))>> \o Tail(V)
<1>2. OnReturn(S, R, U)
  BY <1>1, ReturnSpoilt
<1>3. Len(U) = Len(V) /\ \A i \in 1 .. Len(V) : U[i].flag = V[i].flag
  BY <1>1, OneSpoilt
<1> HIDE DEF U
<1>4. Counts(c, S, R, U, F)
  BY <1>3 DEF Counts, Matched
<1>5. Matched(a, c, x, S, R, W, U, F)
  BY <1>2, <1>4 DEF Matched
<1> QED
  BY <1>5 DEF U

LEMMA DamageDoes ==
    ASSUME IInv, NEW side \in Sides, Damage(side)
    PROVE  IInv' /\ Unseen
<1> DEFINE o == Other(side)
           v == <<Spoilt(Head(wire[side]))>> \o Tail(wire[side])
           e == end[side]
<1>1. /\ o \in Sides /\ o # side /\ e \in EndTypes /\ end[o] \in EndTypes
      /\ wire[side] \in Seq(Packets) /\ end \in [Sides -> EndTypes]
  BY SideFacts
<1>2. wire[side] # <<>> /\ v \in Seq(Packets) /\ InHand(e)
  BY <1>1, OneSpoilt DEF Damage, IInv
<1>3. /\ wire' = [wire EXCEPT ![side] = v] /\ end' = [end EXCEPT ![side] = e]
      /\ UNCHANGED <<agreement, folder, cancels, failure, repeated>>
  BY <1>1 DEF Damage, Spoilt
<1>4. e.role = end[o].role => Alone(e, v, folder[side])
  BY <1>1, <1>2, AloneLess DEF IInv
<1>5. e.role = "send" /\ end[o].role = "receive" =>
         Matched(agreement, cancels, failure, e, end[o], v, wire[o], folder[o])
  BY <1>1, <1>2, SpoiltOnWire DEF IInv
<1>6. e.role = "receive" /\ end[o].role = "send" =>
         Matched(agreement, cancels, failure, end[o], e, wire[o], v, folder[side])
  BY <1>1, <1>2, SpoiltOnReturn DEF IInv
<1> HIDE DEF v, e
<1>7. e = end[side]
  BY DEF e
<1>8. IInv'
  BY <1>1, <1>2, <1>3, <1>4, <1>5, <1>6, <1>7, LineChanges
<1>9. Unseen
  BY <1>3, <1>7, UnseenDoes
<1> QED
  BY <1>8, <1>9

\* A finished receiver that keeps the line no longer.
LEMMA LingerOverKeeps ==
    ASSUME IInv, NEW side \in Sides, LingerOver(side)
    PROVE  IInv' /\ Unseen
<1> DEFINE o == Other(side)
           v == wire[side]
           s == end[side]
           e == [s EXCEPT !.lingering = FALSE]
<1>1. /\ o \in Sides /\ o # side /\ s \in EndTypes /\ end[o] \in EndTypes
      /\ v \in Seq(Packets) /\ end \in [Sides -> EndTypes] /\ wire \in [Sides -> Seq(Packets)]
      /\ s.role = "receive" /\ s.status = "Done"
  BY SideFacts DEF LingerOver
<1>2. InHand(s)
  BY DEF IInv
<1>3. /\ wire' = [wire EXCEPT ![side] = v] /\ end' = [end EXCEPT ![side] = e]
      /\ UNCHANGED <<agreement, folder, cancels, failure, repeated>>
  BY <1>1 DEF LingerOver
<1>4. ~Alone(s, wire[side], folder[side])
  BY <1>1 DEF Alone
<1>5. end[o].role # "receive"
  BY <1>1, <1>4 DEF IInv
<1>6. end[o].role = "send" =>
         Matched(agreement, cancels, failure, end[o], e, wire[o], v, folder[side])
  BY <1>1, LingerOverDoes DEF IInv
<1> HIDE DEF s
<1>7. /\ e \in EndTypes /\ e.role = s.role /\ e.status = s.status /\ e.files = s.files
      /\ e.last = s.last /\ e.ceiling = s.ceiling /\ e.out = s.out
  BY <1>1 DEF EndTypes
<1> HIDE DEF v, e
<1>8. s = end[side] /\ InHand(e)
  BY <1>2, <1>7 DEF s, InHand
<1>9. IInv'
  BY <1>1, <1>3, <1>5, <1>6, <1>7, <1>8, LineChanges
<1>10. Unseen
  BY <1>3, <1>7, <1>8, UnseenDoes
<1> QED
  BY <1>9, <1>10

\* What begins a transfer goes on the line at last.
LEMMA WriteFirstDoes ==
    ASSUME IInv, NEW side \in Sides, WriteFirst(side)
    PROVE  IInv' /\ Unseen
<1> DEFINE o == Other(side)
           s == end[side]
           e == Quiet(side)
           v == wire[side] \o s.out
<1>1. /\ o \in Sides /\ o # side /\ s \in EndTypes /\ end[o] \in EndTypes
      /\ wire[side] \in Seq(Packets) /\ end \in [Sides -> EndTypes]
      /\ wire \in [Sides -> Seq(Packets)]
  BY SideFacts
<1>2. /\ e \in EndTypes /\ e = [s EXCEPT !.out = <<>>] /\ e.out = <<>> /\ e.role = s.role
      /\ e.status = s.status /\ e.last = s.last /\ e.files = s.files /\ e.ceiling = s.ceiling
  BY <1>1, QuietDoes
<1>3. InHand(e)
  BY <1>2 DEF InHand
<1>4. PICK p \in Packets : s.out = <<p>> /\ p.kind = "SendInit" /\ p.seq = 0 /\ s.role = "send"
  BY DEF IInv, InHand, WriteFirst, Beginning
<1>5. v = Append(wire[side], p) /\ v \in Seq(Packets) /\ Stray(p)
  <2>1. wire[side] \o <<p>> = Append(wire[side], p) /\ Append(wire[side], p) \in Seq(Packets)
    BY <1>1, OneMore
  <2> QED
    BY <1>4, <2>1 DEF Stray
<1>6. /\ wire' = [wire EXCEPT ![side] = v] /\ end' = [end EXCEPT ![side] = e]
      /\ UNCHANGED <<agreement, folder, cancels, failure, repeated>>
  BY <1>1 DEF WriteFirst, Quiet
<1>7. e.role = end[o].role => Alone(e, v, folder[side])
  <2> SUFFICES ASSUME e.role = end[o].role
               PROVE  Alone(e, v, folder[side])
    OBVIOUS
  <2>1. Alone(e, wire[side], folder[side])
    BY <1>2, AloneSide
  <2> DEFINE u == wire[side]
             U == Append(u, p)
  <2>2. /\ U \in Seq(Packets) /\ Len(U) = Len(u) + 1 /\ U[Len(u) + 1] = p /\ Len(u) \in Nat
        /\ \A i \in 1 .. Len(u) : U[i] = u[i]
    BY <1>1, OneMore
  <2> HIDE DEF u, U
  <2>3. \A i \in 1 .. Len(U) : U[i] = p \/ (i \in 1 .. Len(u) /\ U[i] = u[i])
    BY <2>2
  <2> HIDE DEF e
  <2>4. \A i \in 1 .. Len(u) : u[i].kind \in {"Error", "SendInit"}
    BY <1>2, <1>4, <2>1 DEF Alone, u
  <2>5. Alone(e, U, folder[side])
    BY <1>2, <1>4, <2>1, <2>2, <2>3, <2>4 DEF Alone
  <2> QED
    BY <1>5, <2>5 DEF U, u
<1>8. e.role = "send" /\ end[o].role = "receive" =>
         Matched(agreement, cancels, failure, e, end[o], v, wire[o], folder[o])
  <2> SUFFICES ASSUME e.role = "send", end[o].role = "receive"
               PROVE  Matched(agreement, cancels, failure, e, end[o], v, wire[o], folder[o])
    OBVIOUS
  <2>1. Matched(agreement, cancels, failure, e, end[o], wire[side], wire[o], folder[o])
    BY <1>2, SendingSide
  <2>2. s.out = <<s.out[1]>> /\ s.out[1] \in Packets /\ Stray(s.out[1])
    BY <1>4, <1>5
  <2> HIDE DEF e, s
  <2> QED
    BY <2>1, <2>2, SenderSays
<1> HIDE DEF v, e, s
<1>9. s = end[side]
  BY DEF s
<1>10. IInv'
  BY <1>1, <1>2, <1>3, <1>4, <1>5, <1>6, <1>7, <1>8, <1>9, LineChanges
<1>11. Unseen
  BY <1>2, <1>6, <1>9, UnseenDoes
<1> QED
  BY <1>10, <1>11

-----------------------------------------------------------------------------
(* How a transfer begins.                                                   *)

LEMMA NewTypes ==
    /\ NewSender \in EndTypes /\ NewSender.role = "send" /\ NewSender.status = "Running"
    /\ NewSender.state = "SendInit" /\ NewSender.seq = 0 /\ NewSender.at = 0
    /\ NewSender.files = 0 /\ NewSender.last = <<FirstPacket>> /\ NewSender.out = <<FirstPacket>>
    /\ ~NewSender.cancelling /\ ~NewSender.discarding /\ ~NewSender.open
    /\ NewSender.size = FirstSize /\ NewSender.ceiling = Unlimited
    /\ NewReceiver \in EndTypes /\ NewReceiver.role = "receive" /\ NewReceiver.status = "Running"
    /\ NewReceiver.state = "SendInit" /\ NewReceiver.seq = 0 /\ NewReceiver.last = <<>>
    /\ NewReceiver.out = <<>> /\ ~NewReceiver.cancelling /\ ~NewReceiver.open
    /\ NewReceiver.files = 0 /\ NewReceiver.ceiling = Unlimited
<1>1. /\ Unlimited \in Nat \ {0} /\ FirstSize \in Nat /\ <<>> \in Texts /\ 0 \in Numbers
      /\ Setting \in Modes /\ FirstPacket \in Packets
  BY NumbersAssumption, FilesAssumption, TextTypes, ZeroNumber, FirstIsPacket DEF Unlimited
<1>2. <<FirstPacket>> \in AtMostOne /\ <<>> \in AtMostOne
  BY <1>1 DEF AtMostOne
<1> HIDE DEF FirstPacket
<1>3. ASSUME NEW role \in Roles
      PROVE  Idle(role) \in EndTypes /\ Idle(role).role = role
  BY <1>1, <1>2 DEF Idle, EndTypes, SenderKinds
<1>4. NewSender = [Idle("send") EXCEPT !.last = <<FirstPacket>>, !.retries = 0, !.out = <<FirstPacket>>]
  <2>1. Packet(Idle("send"), 0, "SendInit", "none", <<>>) = FirstPacket
    BY DEF Idle, Packet, FirstPacket
  <2> QED
    BY <2>1 DEF NewSender, Sends
<1>5. "send" \in Roles /\ "receive" \in Roles
  BY DEF Roles
<1>6. /\ NewSender \in EndTypes /\ NewSender.role = "send" /\ NewSender.status = "Running"
      /\ NewSender.state = "SendInit" /\ NewSender.seq = 0 /\ NewSender.at = 0
      /\ NewSender.files = 0 /\ NewSender.last = <<FirstPacket>> /\ NewSender.out = <<FirstPacket>>
      /\ ~NewSender.cancelling /\ ~NewSender.discarding /\ ~NewSender.open
      /\ NewSender.size = FirstSize /\ NewSender.ceiling = Unlimited
  <2> DEFINE e == Idle("send")
             last == <<FirstPacket>>
  <2>1. e \in EndTypes /\ last \in AtMostOne
    BY <1>2, <1>3, <1>5
  <2>2. NewSender = [e EXCEPT !.last = last, !.retries = 0, !.out = last]
    BY <1>4
  <2> HIDE DEF e, last
  <2>3. NewSender \in EndTypes
    BY <2>1, <2>2 DEF EndTypes
  <2> QED
    BY <2>3, <1>4 DEF Idle
<1>7. /\ NewReceiver \in EndTypes /\ NewReceiver.role = "receive" /\ NewReceiver.status = "Running"
      /\ NewReceiver.state = "SendInit" /\ NewReceiver.seq = 0 /\ NewReceiver.last = <<>>
      /\ NewReceiver.out = <<>> /\ ~NewReceiver.cancelling /\ ~NewReceiver.open
      /\ NewReceiver.files = 0 /\ NewReceiver.ceiling = Unlimited
  <2>1. NewReceiver \in EndTypes
    BY <1>3, <1>5 DEF NewReceiver
  <2> QED
    BY <2>1 DEF NewReceiver, Idle
<1> QED
  BY <1>6, <1>7

LEMMA NothingSaved == SavedOf(<<>>) = 0 /\ <<>> \in Folders /\ <<>> \in Seq(Packets)
BY DEF SavedOf, Folders

LEMMA FirstMatched ==
    ASSUME NEW a \in Agreements
    PROVE  Matched(a, 0, FALSE, NewSender, NewReceiver, <<>>, <<>>, <<>>)
<1> DEFINE S == NewSender
           R == NewReceiver
<1>1. /\ Held(S) = FirstPacket /\ FirstPacket \in Packets /\ FirstPacket.kind = "SendInit"
      /\ FirstPacket.seq = 0 /\ FirstPacket.flag = "none" /\ FirstPacket.data = <<>>
  BY NewTypes, FirstIsPacket DEF Held, FirstPacket
<1>2. Running(S) /\ Running(R)
  BY NewTypes DEF Running
<1>3. Len(Files) \in Nat
  BY FilesAssumption
<1> HIDE DEF FirstPacket
<1>4. Sending(a, S)
  <2>1. S.last = <<Held(S)>> /\ "SendInit" \in SenderKinds /\ "SendInit" \notin InFile
    BY <1>1, NewTypes DEF SenderKinds, InFile
  <2>2. LongRoom > 0 => S.size > 0
    BY NewTypes, NumbersAssumption
  <2> HIDE DEF S
  <2> QED
    BY <1>1, <1>2, <1>3, <2>1, <2>2, NewTypes DEF Sending, S
<1>5. Receiving(a, FALSE, R, <<>>)
  BY <1>2, NewTypes, NothingSaved DEF Receiving
<1>6. Level(S, R)
  BY <1>1, NewTypes DEF Level
<1>7. ~Ahead(S, R)
  BY <1>1, <1>6, Neighbours, PacketFields DEF Level, Ahead
<1>8. Stance(S, R, <<>>)
  BY <1>1, <1>2, <1>6, <1>7, NewTypes DEF Stance, Before
<1>9. OnWire(S, R, <<>>) /\ OnReturn(S, R, <<>>)
  BY NothingSaved DEF OnWire, OnReturn
<1>10. Reading(S, R)
  BY <1>1 DEF Reading, Going
<1>11. Contents(a, S, R, <<>>)
  BY NewTypes DEF Contents
<1>12. Counts(0, S, R, <<>>, <<>>)
  BY <1>1, <1>3, <1>7, NewTypes, NothingSaved DEF Counts, InFile
<1> QED
  BY <1>4, <1>5, <1>8, <1>9, <1>10, <1>11, <1>12 DEF Matched

LEMMA FirstAlone ==
    /\ Alone(NewSender, <<>>, <<>>) /\ Alone(NewReceiver, <<>>, <<>>)
BY NewTypes, NothingSaved DEF Alone, Running

LEMMA InitIInv == Init => IInv
<1> SUFFICES ASSUME Init PROVE IInv
  OBVIOUS
<1>1. PICK casting \in Castings :
         end = [side \in Sides |-> IF casting[side] = "send" THEN NewSender ELSE NewReceiver]
  BY DEF Init
<1>2. \A side \in Sides : end[side] \in {NewSender, NewReceiver}
  BY <1>1
<1>3. /\ agreement \in Agreements /\ cancels = 0 /\ failure = FALSE /\ repeated = 2 * LongRoom
      /\ \A side \in Sides : wire[side] = <<>> /\ folder[side] = <<>>
      /\ wire \in [Sides -> Seq(Packets)] /\ folder \in [Sides -> Folders]
  BY NothingSaved DEF Init
<1>4. end \in [Sides -> EndTypes]
  BY <1>1, NewTypes
<1>5. \A side \in Sides : InHand(end[side])
  <2>1. InHand(NewReceiver)
    BY NewTypes DEF InHand
  <2>2. NewSender.out[1] = FirstPacket /\ FirstPacket \in Packets
        /\ FirstPacket.kind = "SendInit" /\ FirstPacket.seq = 0
    BY NewTypes, FirstIsPacket DEF FirstPacket
  <2>3. InHand(NewSender)
    BY <2>2, NewTypes DEF InHand
  <2> QED
    BY <1>2, <2>1, <2>3
<1>6. \A s, r \in Sides :
         end[s].role = "send" /\ end[r].role = "receive" =>
            /\ Matched(agreement, cancels, failure, end[s], end[r], wire[s], wire[r], folder[r])
            /\ folder[s] = <<>>
  <2> SUFFICES ASSUME NEW s \in Sides, NEW r \in Sides,
                      end[s].role = "send", end[r].role = "receive"
               PROVE  /\ Matched(agreement, cancels, failure, end[s], end[r], wire[s], wire[r], folder[r])
                      /\ folder[s] = <<>>
    OBVIOUS
  <2>1. end[s] = NewSender /\ end[r] = NewReceiver
    BY <1>2, NewTypes
  <2> QED
    BY <1>3, <2>1, FirstMatched
<1>7. \A side \in Sides :
         end[side].role = "send" =>
            Least(LongRoom, end[side].ceiling) <= Most(repeated \div 2, LeastSize)
  <2>1. (2 * LongRoom) \div 2 = LongRoom /\ LongRoom \in Nat /\ LeastSize \in Nat /\ Unlimited \in Nat
    BY NumbersAssumption DEF Unlimited
  <2>2. Least(LongRoom, Unlimited) <= LongRoom /\ LongRoom <= Most(LongRoom, LeastSize)
    BY <2>1 DEF Least, Most
  <2>3. Least(LongRoom, Unlimited) \in Nat /\ Most(LongRoom, LeastSize) \in Nat
    BY <2>1 DEF Least, Most
  <2>4. \A side \in Sides : end[side].ceiling = Unlimited
    BY <1>2, NewTypes
  <2> QED
    BY <1>3, <2>1, <2>2, <2>3, <2>4
<1>8. \A a, b \in Sides :
         a # b /\ end[a].role = end[b].role => Alone(end[a], wire[a], folder[a])
  BY <1>2, <1>3, FirstAlone
<1>9. cancels \in Nat /\ failure \in BOOLEAN /\ repeated \in Nat
  <2>1. 2 * LongRoom \in Nat
    BY NumbersAssumption
  <2>2. repeated \in Nat
    BY <1>3, <2>1
  <2>3. failure \in BOOLEAN
    BY <1>3
  <2> QED
    BY <1>3, <2>2, <2>3
<1> QED
  BY <1>3, <1>4, <1>5, <1>6, <1>7, <1>8, <1>9 DEF IInv

LEMMA HearSteps ==
    ASSUME IInv, NEW side \in Sides, Hear(side)
    PROVE  \E T, V, E : Steps(side, T, V, E)
<1>1. end[side].role \in Roles
  BY SideFacts
<1> QED
  BY <1>1, SenderHearsSteps, ReceiverHearsSteps DEF Roles

\* What every step does: it is seen by no user, or it is one of one side.
LEMMA NextDoes ==
    ASSUME IInv, [Next]_vars
    PROVE  IInv' /\ (Unseen \/ \E side \in Sides : \E T, V, E : Steps(side, T, V, E))
<1>1. CASE UNCHANGED vars
  <2>1. Unseen
    BY <1>1 DEF vars, Unseen
  <2>2. IInv'
    BY <1>1 DEF vars, IInv, Beginning, InHand
  <2> QED
    BY <2>1, <2>2
<1>2. ASSUME NEW side \in Sides,
             Hear(side) \/ Expire(side) \/ Cancel(side)
      PROVE  IInv' /\ \E T, V, E : Steps(side, T, V, E)
  <2>1. \E T, V, E : Steps(side, T, V, E)
    BY <1>2, HearSteps, ExpireSteps, CancelSteps
  <2> QED
    BY <2>1, StepsRestore
<1>3. ASSUME NEW side \in Sides,
             WriteFirst(side) \/ LingerOver(side) \/ Lose(side) \/ Damage(side)
      PROVE  IInv' /\ Unseen
  BY <1>3, WriteFirstDoes, LingerOverKeeps, LoseDoes, DamageDoes
<1>4. CASE Over
  BY <1>1, <1>4 DEF Over
<1> QED
  BY <1>1, <1>2, <1>3, <1>4 DEF Next

\* The two ends of a transfer are never more than one packet apart, whatever is
\* lost, damaged or late on the line between them (feed, tick and cancel of
\* Sender and Receiver, transfer.rs): what is on its way either way is of that
\* packet or the one before, and the receiver's folder with what it is about
\* to hear is the part of the file the sender has read.
THEOREM NeverApart == Spec => []IInv
<1>1. Init => IInv
  BY InitIInv
<1>2. IInv /\ [Next]_vars => IInv'
  BY NextDoes
<1> QED
  BY <1>1, <1>2, PTL DEF Spec

-----------------------------------------------------------------------------
(* What the folder holds.                                                   *)

\* Under the invariant: whose transfer it is, if the two were told apart.
LEMMA WhoIsWho ==
    ASSUME IInv, NEW side \in Sides
    PROVE  /\ end[side].role \in Roles /\ end[Other(side)].role \in Roles
           /\ Paired <=> end[side].role # end[Other(side)].role
           /\ end[side].role = "send" /\ Paired =>
                 Sender = side /\ Receiver = Other(side)
           /\ end[side].role = "receive" /\ Paired =>
                 Receiver = side /\ Sender = Other(side)
<1> DEFINE o == Other(side)
<1>1. o \in Sides /\ o # side /\ \A q \in Sides : q = side \/ q = o
  BY TwoSides
<1>2. end[side].role \in Roles /\ end[o].role \in Roles
  BY SideFacts
<1>3. {end[q].role : q \in Sides} = {end[side].role, end[o].role}
  BY <1>1
<1>4. Paired <=> end[side].role # end[o].role
  BY <1>2, <1>3 DEF Paired, Roles
<1>5. ASSUME NEW a \in Sides, NEW b \in Sides, a # b, end[a].role = "send", end[b].role = "receive"
      PROVE  Sender = a /\ Receiver = b
  <2>1. \A q \in Sides : q = a \/ q = b
    BY <1>1, <1>5
  <2> QED
    BY <1>5, <2>1 DEF Sender, Receiver
<1> QED
  BY <1>1, <1>2, <1>4, <1>5 DEF Roles

LEMMA FolderTypes ==
    ASSUME NEW F \in Folders
    PROVE  /\ DOMAIN F = 1 .. Len(F) /\ Len(F) \in Nat /\ (F = <<>> <=> Len(F) = 0)
           /\ \A i \in 1 .. Len(F) : F[i].saved \in BOOLEAN
<1>1. F \in Seq(FileTypes)
  BY DEF Folders, FileTypes
<1>2. DOMAIN F = 1 .. Len(F) /\ Len(F) \in Nat
  BY <1>1
<1>3. F = <<>> <=> Len(F) = 0
  BY <1>1, EmptySeq
<1>4. \A i \in 1 .. Len(F) : F[i] \in FileTypes
  BY <1>1
<1>5. \A i \in 1 .. Len(F) : F[i].saved \in BOOLEAN
  BY <1>4 DEF FileTypes
<1> QED
  BY <1>2, <1>3, <1>5

\* All but the last, or the last.
LEMMA LastOrBefore ==
    ASSUME NEW n \in Nat, NEW i \in 1 .. n
    PROVE  i = n \/ i \in 1 .. n - 1
OBVIOUS

\* The files saved are the first of the folder.
LEMMA FirstSaved ==
    ASSUME NEW F \in Folders, \A i \in 1 .. Len(F) - 1 : F[i].saved
    PROVE  {i \in DOMAIN F : F[i].saved} = 1 .. SavedOf(F) /\ SavedOf(F) \in Nat
<1>1. /\ DOMAIN F = 1 .. Len(F) /\ Len(F) \in Nat /\ (F = <<>> <=> Len(F) = 0)
      /\ \A i \in 1 .. Len(F) : F[i].saved \in BOOLEAN
  BY FolderTypes
<1>2. CASE F # <<>> /\ ~F[Len(F)].saved
  <2>1. SavedOf(F) = Len(F) - 1 /\ Len(F) > 0
    BY <1>1, <1>2 DEF SavedOf
  <2>2. ASSUME NEW i \in 1 .. Len(F)
        PROVE  F[i].saved <=> i \in 1 .. Len(F) - 1
    <3>1. i = Len(F) \/ i \in 1 .. Len(F) - 1
      BY <1>1, LastOrBefore
    <3> QED
      BY <1>1, <1>2, <2>1, <3>1
  <2>3. {i \in DOMAIN F : F[i].saved} = 1 .. Len(F) - 1
    BY <1>1, <2>1, <2>2
  <2> QED
    BY <1>1, <2>1, <2>3
<1>3. CASE ~(F # <<>> /\ ~F[Len(F)].saved)
  <2>1. SavedOf(F) = Len(F)
    BY <1>3 DEF SavedOf
  <2>2. \A i \in 1 .. Len(F) : F[i].saved
    <3> SUFFICES ASSUME NEW i \in 1 .. Len(F) PROVE F[i].saved
      OBVIOUS
    <3>1. i = Len(F) \/ i \in 1 .. Len(F) - 1
      BY <1>1, LastOrBefore
    <3>2. F # <<>>
      BY <1>1
    <3> QED
      BY <1>3, <3>1, <3>2
  <2> QED
    BY <1>1, <2>1, <2>2
<1> QED
  BY <1>2, <1>3

\* What the invariant says of the folder of either side.
LEMMA EachFolder ==
    ASSUME IInv, NEW side \in Sides
    PROVE  \/ folder[side] = <<>>
           \/ Paired /\ Receiving(agreement, failure, end[side], folder[side])
<1> DEFINE o == Other(side)
<1>1. o \in Sides /\ o # side /\ end[side].role \in Roles /\ end[o].role \in Roles
  BY SideFacts
<1>2. CASE end[side].role = end[o].role
  BY <1>1, <1>2 DEF IInv, Alone
<1>3. CASE end[side].role = "send" /\ end[o].role = "receive"
  BY <1>1, <1>3 DEF IInv
<1>4. CASE end[side].role = "receive" /\ end[o].role = "send"
  <2>1. Matched(agreement, cancels, failure, end[o], end[side], wire[o], wire[side], folder[side])
    BY <1>1, <1>4 DEF IInv
  <2>2. Paired
    BY <1>4, WhoIsWho
  <2> QED
    BY <2>1, <2>2 DEF Matched
<1> QED
  BY <1>1, <1>2, <1>3, <1>4 DEF Roles

LEMMA WantedIsExpected ==
    \A i : Wanted(agreement, i) = Expected(i)
BY DEF Wanted, Expected, ModeUnder, ModeOf

LEMMA WholeFiles ==
    ASSUME IInv, Roomy
    PROVE  FilesWhole
<1> SUFFICES ASSUME NEW side \in Sides, NEW i \in SavedFiles(side)
             PROVE  /\ Paired
                    /\ i <= Len(Files) /\ 1 .. i \subseteq SavedFiles(side)
                    /\ folder[side][i].bytes = Expected(i)
  BY DEF FilesWhole
<1> DEFINE F == folder[side]
<1>1. F \in Folders
  BY SideFacts
<1>2. DOMAIN F = 1 .. Len(F) /\ Len(F) \in Nat
  BY <1>1, FolderTypes
<1>3. i \in 1 .. Len(F) /\ F[i].saved
  BY <1>2 DEF SavedFiles
<1>4. Paired /\ Receiving(agreement, failure, end[side], F)
  BY <1>2, <1>3, EachFolder
<1>5. i <= Len(Files) /\ F[i].bytes = Expected(i)
  BY <1>3, <1>4, WantedIsExpected DEF Receiving
<1>6. SavedFiles(side) = 1 .. SavedOf(F) /\ SavedOf(F) \in Nat
  <2>1. \A j \in 1 .. Len(F) - 1 : F[j].saved
    BY <1>4 DEF Receiving
  <2> QED
    BY <1>1, <2>1, FirstSaved DEF SavedFiles
<1>7. 1 .. i \subseteq SavedFiles(side)
  <2>1. i \in 1 .. SavedOf(F)
    BY <1>6
  <2> QED
    BY <1>6, <2>1
<1> QED
  BY <1>4, <1>5, <1>7

LEMMA NothingLeft ==
    ASSUME IInv
    PROVE  NothingLeftBehind
<1> SUFFICES ASSUME NEW side \in Sides, ~Running(end[side]), ~failure,
                    NEW i \in 1 .. Len(folder[side])
             PROVE  folder[side][i].saved
  BY DEF NothingLeftBehind
<1>1. folder[side] \in Folders
  BY SideFacts
<1>2. folder[side] # <<>>
  BY <1>1, FolderTypes
<1>3. Receiving(agreement, failure, end[side], folder[side])
  BY <1>2, EachFolder
<1> QED
  BY <1>3 DEF Receiving

\* A receiver that has stopped, for whatever reason, has left only whole files
\* in the folder, unless the disk itself failed it (close_up and Folder's drop
\* of what is open, transfer.rs and files.rs).
THEOREM LeavesNothing == Spec => []NothingLeftBehind
<1>1. IInv => NothingLeftBehind
  BY NothingLeft
<1> QED
  BY <1>1, NeverApart, PTL

\* Whatever is lost, damaged, late, cancelled or failing, each file saved is
\* the sender's, in its order, with none left out, and byte for byte what the
\* receiver's user should have; and nothing else is left in the folder
\* (hear_data and hear_end_of_file of Receiver, send_data of Sender).  It is
\* proved of packets that can carry something.
THEOREM KeepsWholeFiles ==
    ASSUME Roomy
    PROVE  Spec => []FolderSound
<1>1. IInv => FolderSound
  BY WholeFiles, NothingLeft DEF FolderSound
<1> QED
  BY <1>1, NeverApart, PTL

-----------------------------------------------------------------------------
(* What the two users are promised: the sender s and the receiver r.        *)

KeptAt(F) == Cardinality({i \in DOMAIN F : F[i].saved})
Told(status) == IF status \in {"BothSending", "BothReceiving"} THEN "Failed" ELSE status

\* What FileTransfer's variables stand for.
UserKept == IF Paired THEN Kept(Receiver) ELSE 0
UserClaimed == IF Paired THEN end[Sender].files ELSE 0
UserWithdrawn == Paired /\ cancels > 0
UserOutcome ==
    IF Paired
    THEN [e \in {"sender", "receiver"} |-> IF e = "sender" THEN Outcome(Sender) ELSE Outcome(Receiver)]
    ELSE [e \in {"sender", "receiver"} |-> "Running"]
Users == <<UserKept, UserClaimed, UserWithdrawn, UserOutcome>>

BothTold(a, b) == [e \in {"sender", "receiver"} |-> IF e = "sender" THEN a ELSE b]

LEMMA KeptIs ==
    ASSUME NEW F \in Folders, \A i \in 1 .. Len(F) - 1 : F[i].saved
    PROVE  KeptAt(F) = SavedOf(F)
<1>1. {i \in DOMAIN F : F[i].saved} = 1 .. SavedOf(F) /\ SavedOf(F) \in Nat
  BY FirstSaved
<1>2. Cardinality(1 .. SavedOf(F)) = SavedOf(F)
  BY <1>1, FS_Interval
<1> QED
  BY <1>1, <1>2 DEF KeptAt

LEMMA PairedUsers ==
    ASSUME IInv, NEW s \in Sides, NEW r \in Sides, end[s].role = "send", end[r].role = "receive"
    PROVE  /\ Paired
           /\ UserKept = SavedOf(folder[r]) /\ UserClaimed = end[s].files
           /\ UserWithdrawn = (cancels > 0)
           /\ UserOutcome = BothTold(Told(end[s].status), Told(end[r].status))
<1>1. Matched(agreement, cancels, failure, end[s], end[r], wire[s], wire[r], folder[r])
  BY DEF IInv
<1>2. folder[r] \in Folders /\ \A i \in 1 .. Len(folder[r]) - 1 : folder[r][i].saved
  BY <1>1 DEF Matched, Receiving
<1>3. KeptAt(folder[r]) = SavedOf(folder[r])
  BY <1>2, KeptIs
<1>4. r = Other(s)
  BY TwoSides
<1>5. Paired /\ Sender = s /\ Receiver = r
  BY <1>4, WhoIsWho
<1>6. UserKept = KeptAt(folder[r])
  BY <1>5 DEF UserKept, Kept, SavedFiles, KeptAt
<1>7. UserOutcome = BothTold(Told(end[s].status), Told(end[r].status))
  BY <1>5 DEF UserOutcome, BothTold, Outcome, Told
<1> QED
  BY <1>3, <1>5, <1>6, <1>7 DEF UserClaimed, UserWithdrawn

\* The same of a state and the next.
LEMMA PairedThen ==
    IInv' => \A s, r \in Sides :
                end'[s].role = "send" /\ end'[r].role = "receive" =>
                    /\ UserKept' = SavedOf(folder'[r]) /\ UserClaimed' = end'[s].files
                    /\ UserWithdrawn' = (cancels' > 0)
                    /\ UserOutcome' = BothTold(Told(end'[s].status), Told(end'[r].status))
<1> DEFINE Now ==
              IInv => \A s, r \in Sides :
                         end[s].role = "send" /\ end[r].role = "receive" =>
                             /\ UserKept = SavedOf(folder[r]) /\ UserClaimed = end[s].files
                             /\ UserWithdrawn = (cancels > 0)
                             /\ UserOutcome = BothTold(Told(end[s].status), Told(end[r].status))
<1>1. Now
  BY PairedUsers
<1> HIDE DEF Now
<1>2. Now'
  BY <1>1, PTL
<1> QED
  BY <1>2 DEF Now

\* What an end says may change, and the four steps of the promise.
MovesTo(e, o) ==
    \/ UserOutcome' = UserOutcome
    \/ /\ UserOutcome[e] = "Running"
       /\ o = "Done" =>
             UserWithdrawn \/ (IF e = "sender" THEN UserClaimed ELSE UserKept) = Len(Files)
       /\ o = "Cancelled" => UserWithdrawn'
       /\ UserOutcome' = [UserOutcome EXCEPT ![e] = o]

LEMMA PromiseMoves ==
    ASSUME NEW e, NEW o \in {"Running", "Done", "Cancelled", "Failed"}, MovesTo(e, o)
    PROVE  Promise!Moves(e)
BY DEF MovesTo, Promise!Moves, Promise!May, Promise!Outcomes,
       UserKept, UserClaimed, UserWithdrawn, UserOutcome

LEMMA PromiseKeep ==
    ASSUME UserOutcome["receiver"] = "Running", UserKept < Len(Files), UserKept' = UserKept + 1,
           UserClaimed' = UserClaimed, UserWithdrawn' = UserWithdrawn, UserOutcome' = UserOutcome
    PROVE  Promise!Keep
BY DEF Promise!Keep, UserKept, UserClaimed, UserWithdrawn, UserOutcome

LEMMA PromiseClaim ==
    ASSUME NEW o \in {"Running", "Done", "Cancelled", "Failed"}, MovesTo("sender", o),
           UserOutcome["sender"] = "Running",
           UserClaimed < UserKept \/ (UserWithdrawn /\ UserClaimed < Len(Files)),
           UserClaimed' = UserClaimed + 1, UserKept' = UserKept, UserWithdrawn' = UserWithdrawn
    PROVE  Promise!Claim
<1>1. Promise!Moves("sender")
  BY PromiseMoves
<1> QED
  BY <1>1 DEF Promise!Claim, UserKept, UserClaimed, UserWithdrawn, UserOutcome

LEMMA PromiseStop ==
    ASSUME NEW e \in {"sender", "receiver"},
           NEW o \in {"Running", "Done", "Cancelled", "Failed"}, MovesTo(e, o),
           UserKept' = UserKept, UserClaimed' = UserClaimed,
           UserWithdrawn' = UserWithdrawn \/ UserWithdrawn' = TRUE
    PROVE  Promise!Stop \/ Promise!Withdraw
<1>1. Promise!Moves(e) /\ e \in Promise!Ends
  BY PromiseMoves DEF Promise!Ends
<1>2. CASE UserWithdrawn' = UserWithdrawn
  BY <1>1, <1>2 DEF Promise!Stop, UserKept, UserClaimed, UserWithdrawn
<1>3. CASE UserWithdrawn' = TRUE
  BY <1>1, <1>3 DEF Promise!Withdraw, UserKept, UserClaimed, UserWithdrawn
<1> QED
  BY <1>2, <1>3

Statuses == {"Running", "Done", "Cancelled", "Failed", "BothSending", "BothReceiving"}

LEMMA ToldOutcomes ==
    ASSUME NEW a \in Statuses, NEW b \in Statuses, NEW d \in Statuses
    PROVE  /\ Told(a) \in {"Running", "Done", "Cancelled", "Failed"}
           /\ (Told(a) = "Running" <=> a = "Running") /\ (Told(a) = "Done" <=> a = "Done")
           /\ (Told(a) = "Cancelled" <=> a = "Cancelled")
           /\ BothTold(Told(a), Told(b))["sender"] = Told(a)
           /\ BothTold(Told(a), Told(b))["receiver"] = Told(b)
           /\ [BothTold(Told(a), Told(b)) EXCEPT !["sender"] = Told(d)] = BothTold(Told(d), Told(b))
           /\ [BothTold(Told(a), Told(b)) EXCEPT !["receiver"] = Told(d)] = BothTold(Told(a), Told(d))
<1>1. /\ Told(a) \in {"Running", "Done", "Cancelled", "Failed"}
      /\ (Told(a) = "Running" <=> a = "Running") /\ (Told(a) = "Done" <=> a = "Done")
      /\ (Told(a) = "Cancelled" <=> a = "Cancelled")
  BY DEF Told, Statuses
<1>2. /\ BothTold(Told(a), Told(b))["sender"] = Told(a)
      /\ BothTold(Told(a), Told(b))["receiver"] = Told(b)
      /\ [BothTold(Told(a), Told(b)) EXCEPT !["sender"] = Told(d)] = BothTold(Told(d), Told(b))
      /\ [BothTold(Told(a), Told(b)) EXCEPT !["receiver"] = Told(d)] = BothTold(Told(a), Told(d))
  BY DEF BothTold
<1> QED
  BY <1>1, <1>2

\* A step of the sender, of status a and with f files counted, to b and g.
SenderGoes(k, f, g, c, d, a, b) ==
    /\ d = c \/ (d = c + 1 /\ g = f /\ b # "Done")
    /\ g = f \/ (a = "Running" /\ g = f + 1 /\ (f < k \/ (d > 0 /\ f < Len(Files))))
    /\ b # a => /\ a = "Running"
                /\ b = "Done" => d > 0 \/ f = Len(Files)
                /\ b = "Cancelled" => d > 0

LEMMA SenderPromise ==
    ASSUME NEW k \in Nat, NEW f \in Nat, NEW g \in Nat, NEW c \in Nat, NEW d \in Nat,
           NEW a \in Statuses, NEW b \in Statuses, NEW q \in Statuses, Len(Files) \in Nat,
           UserKept = k, UserKept' = k, UserClaimed = f, UserClaimed' = g,
           UserWithdrawn = (c > 0), UserWithdrawn' = (d > 0),
           UserOutcome = BothTold(Told(a), Told(q)), UserOutcome' = BothTold(Told(b), Told(q)),
           SenderGoes(k, f, g, c, d, a, b)
    PROVE  Promise!Next
<1> USE DEF SenderGoes
<1> DEFINE o == Told(b)
<1>1. /\ o \in {"Running", "Done", "Cancelled", "Failed"}
      /\ (o = "Done" <=> b = "Done") /\ (o = "Cancelled" <=> b = "Cancelled")
      /\ (Told(a) = "Running" <=> a = "Running")
  BY ToldOutcomes
<1>2. /\ BothTold(Told(a), Told(q))["sender"] = Told(a)
      /\ [BothTold(Told(a), Told(q)) EXCEPT !["sender"] = o] = BothTold(o, Told(q))
  BY ToldOutcomes
<1> HIDE DEF o
<1>3. MovesTo("sender", o)
  <2>1. CASE b = a
    BY <2>1 DEF MovesTo
  <2>2. CASE b # a
    <3>1. UserOutcome["sender"] = "Running"
      BY <1>1, <1>2, <2>2
    <3>2. UserOutcome' = [UserOutcome EXCEPT !["sender"] = o]
      BY <1>2 DEF o
    <3>3. o = "Done" => UserWithdrawn \/ UserClaimed = Len(Files)
      BY <1>1, <2>2
    <3>4. o = "Cancelled" => UserWithdrawn'
      BY <1>1, <2>2
    <3> QED
      BY <3>1, <3>2, <3>3, <3>4 DEF MovesTo
  <2> QED
    BY <2>1, <2>2
<1>4. CASE g = f
  <2>1. UserWithdrawn' = UserWithdrawn \/ UserWithdrawn' = TRUE
    <3>1. d = c \/ d > 0
      OBVIOUS
    <3>2. CASE d = c
      BY <3>2
    <3>3. CASE d > 0
      <4> DEFINE on == d > 0
      <4>1. on /\ UserWithdrawn' = on
        BY <3>3
      <4> HIDE DEF on
      <4> QED
        BY <4>1
    <3> QED
      BY <3>1, <3>2, <3>3
  <2>2. Promise!Stop \/ Promise!Withdraw
    BY <1>1, <1>3, <1>4, <2>1, PromiseStop
  <2> QED
    BY <2>2 DEF Promise!Next
<1>5. CASE g # f
  <2>1. /\ d = c /\ a = "Running" /\ g = f + 1
        /\ f < k \/ (c > 0 /\ f < Len(Files))
    BY <1>5
  <2>2. UserOutcome["sender"] = "Running"
    BY <1>1, <1>2, <2>1
  <2>3. UserClaimed < UserKept \/ (UserWithdrawn /\ UserClaimed < Len(Files))
    BY <2>1
  <2>4. UserClaimed' = UserClaimed + 1 /\ UserKept' = UserKept
    BY <2>1
  <2>5. UserWithdrawn' = UserWithdrawn
    BY <2>1
  <2>6. Promise!Claim
    BY <1>1, <1>3, <2>2, <2>3, <2>4, <2>5, PromiseClaim
  <2> QED
    BY <2>6 DEF Promise!Next
<1> QED
  BY <1>4, <1>5

\* A step of the receiver, of status a and with k files saved, to b and l.
ReceiverGoes(k, l, c, d, a, b) ==
    /\ d = c \/ (d = c + 1 /\ l = k /\ b # "Done")
    /\ l = k \/ (a = "Running" /\ b = a /\ k < Len(Files) /\ l = k + 1)
    /\ b # a => /\ a = "Running"
                /\ b = "Done" => d > 0 \/ k = Len(Files)
                /\ b = "Cancelled" => d > 0

LEMMA ReceiverPromise ==
    ASSUME NEW k \in Nat, NEW l \in Nat, NEW f \in Nat, NEW c \in Nat, NEW d \in Nat,
           NEW a \in Statuses, NEW b \in Statuses, NEW q \in Statuses, Len(Files) \in Nat,
           UserKept = k, UserKept' = l, UserClaimed = f, UserClaimed' = f,
           UserWithdrawn = (c > 0), UserWithdrawn' = (d > 0),
           UserOutcome = BothTold(Told(q), Told(a)), UserOutcome' = BothTold(Told(q), Told(b)),
           ReceiverGoes(k, l, c, d, a, b)
    PROVE  Promise!Next
<1> USE DEF ReceiverGoes
<1> DEFINE o == Told(b)
<1>1. /\ o \in {"Running", "Done", "Cancelled", "Failed"}
      /\ (o = "Done" <=> b = "Done") /\ (o = "Cancelled" <=> b = "Cancelled")
      /\ (Told(a) = "Running" <=> a = "Running")
  BY ToldOutcomes
<1>2. /\ BothTold(Told(q), Told(a))["receiver"] = Told(a)
      /\ [BothTold(Told(q), Told(a)) EXCEPT !["receiver"] = o] = BothTold(Told(q), o)
  BY ToldOutcomes
<1> HIDE DEF o
<1>4. CASE l = k
  <2>1. MovesTo("receiver", o)
    <3>1. CASE b = a
      BY <3>1 DEF MovesTo
    <3>2. CASE b # a
      <4>1. UserOutcome["receiver"] = "Running"
        BY <1>1, <1>2, <3>2
      <4>2. UserOutcome' = [UserOutcome EXCEPT !["receiver"] = o]
        BY <1>2 DEF o
      <4>3. o = "Done" => UserWithdrawn \/ UserKept = Len(Files)
        BY <1>1, <3>2
      <4>4. o = "Cancelled" => UserWithdrawn'
        BY <1>1, <3>2
      <4> QED
        BY <4>1, <4>2, <4>3, <4>4 DEF MovesTo
    <3> QED
      BY <3>1, <3>2
  <2>2. UserWithdrawn' = UserWithdrawn \/ UserWithdrawn' = TRUE
    <3>1. d = c \/ d > 0
      OBVIOUS
    <3>2. CASE d = c
      BY <3>2
    <3>3. CASE d > 0
      <4> DEFINE on == d > 0
      <4>1. on /\ UserWithdrawn' = on
        BY <3>3
      <4> HIDE DEF on
      <4> QED
        BY <4>1
    <3> QED
      BY <3>1, <3>2, <3>3
  <2>3. Promise!Stop \/ Promise!Withdraw
    BY <1>1, <1>4, <2>1, <2>2, PromiseStop
  <2> QED
    BY <2>3 DEF Promise!Next
<1>5. CASE l # k
  <2>1. d = c /\ a = "Running" /\ b = a /\ k < Len(Files) /\ l = k + 1
    BY <1>5
  <2>2. UserOutcome["receiver"] = "Running" /\ UserOutcome' = UserOutcome
    BY <1>1, <1>2, <2>1
  <2>3. UserKept < Len(Files) /\ UserKept' = UserKept + 1 /\ UserClaimed' = UserClaimed
    BY <2>1
  <2>4. UserWithdrawn' = UserWithdrawn
    BY <2>1
  <2>5. Promise!Keep
    BY <2>2, <2>3, <2>4, PromiseKeep
  <2> QED
    BY <2>5 DEF Promise!Next
<1> QED
  BY <1>4, <1>5

\* Two ends that were told the same promise nothing.
LEMMA UnpairedUsers ==
    ASSUME IInv, NEW side \in Sides, end[side].role = end[Other(side)].role
    PROVE  /\ UserKept = 0 /\ UserClaimed = 0 /\ UserWithdrawn = FALSE
           /\ UserOutcome = BothTold("Running", "Running")
<1>1. ~Paired
  BY WhoIsWho
<1> QED
  BY <1>1 DEF UserKept, UserClaimed, UserWithdrawn, UserOutcome, BothTold

LEMMA UnpairedThen ==
    IInv' => \A side \in Sides :
                end'[side].role = end'[Other(side)].role =>
                    /\ UserKept' = 0 /\ UserClaimed' = 0 /\ UserWithdrawn' = FALSE
                    /\ UserOutcome' = BothTold("Running", "Running")
<1> DEFINE Now ==
              IInv => \A side \in Sides :
                         end[side].role = end[Other(side)].role =>
                             /\ UserKept = 0 /\ UserClaimed = 0 /\ UserWithdrawn = FALSE
                             /\ UserOutcome = BothTold("Running", "Running")
<1>1. Now
  BY UnpairedUsers
<1> HIDE DEF Now
<1>2. Now'
  BY <1>1, PTL
<1> QED
  BY <1>2 DEF Now, Other

LEMMA StatusTypes ==
    ASSUME NEW e \in EndTypes
    PROVE  e.status \in Statuses /\ e.files \in Nat
BY DEF EndTypes, Statuses

\* What a step of one side leaves of the state.
LEMMA StepsLeave ==
    ASSUME IInv, NEW side \in Sides, NEW T, NEW V, NEW E, Steps(side, T, V, E)
    PROVE  /\ end'[side].role = end[side].role /\ end'[Other(side)] = end[Other(side)]
           /\ end'[side].status = T.status /\ end'[side].files = T.files
           /\ end'[side].state = T.state /\ end'[side].last = T.last
           /\ end'[side].inFlight = T.inFlight
           /\ T \in EndTypes /\ end[side] \in EndTypes /\ end[Other(side)] \in EndTypes
           /\ folder'[side] = E /\ folder'[Other(side)] = folder[Other(side)]
           /\ cancels \in Nat /\ cancels' \in Nat
           /\ \/ cancels' = cancels
              \/ /\ cancels' = cancels + 1 /\ T.files = end[side].files /\ T.status # "Done"
                 /\ T.role = "receive" => SavedOf(E) = SavedOf(folder[side])
           /\ T.role = end[side].role
<1> DEFINE o == Other(side)
<1>1. /\ o \in Sides /\ o # side /\ end[side] \in EndTypes /\ end[o] \in EndTypes
      /\ end \in [Sides -> EndTypes] /\ folder \in [Sides -> Folders] /\ cancels \in Nat
  BY SideFacts
<1>2. T \in EndTypes /\ T.role = end[side].role
  BY DEF Steps, Fits
<1>3. PICK w \in [Sides -> Seq(Packets)] : Put(side, w, T)
  BY DEF Steps
<1>4. PICK u : Said(side, T, w, u)
  BY <1>2, <1>3, PutDoes
<1>5. /\ end' = [end EXCEPT ![side] = u] /\ u.role = T.role /\ u.status = T.status
      /\ u.files = T.files /\ u.state = T.state /\ u.last = T.last /\ u.inFlight = T.inFlight
  BY <1>4 DEF Said
<1>6. end'[side] = u /\ end'[o] = end[o]
  BY <1>1, <1>5
<1>7. folder'[side] = E /\ folder'[o] = folder[o]
  BY <1>1 DEF Steps
<1>8. /\ cancels' \in Nat
      /\ \/ cancels' = cancels
         \/ /\ cancels' = cancels + 1 /\ T.files = end[side].files /\ T.status # "Done"
            /\ T.role = "receive" => SavedOf(E) = SavedOf(folder[side])
  BY DEF Steps
<1> QED
  BY <1>1, <1>2, <1>5, <1>6, <1>7, <1>8

LEMMA SavedOfTypes ==
    ASSUME NEW F \in Folders
    PROVE  SavedOf(F) \in Nat
BY SavedAll

LEMMA StepsPromise ==
    ASSUME IInv, IInv', NEW side \in Sides, NEW T, NEW V, NEW E, Steps(side, T, V, E)
    PROVE  Promise!Next \/ Users' = Users
<1> DEFINE o == Other(side)
           S == Quiet(side)
<1>1. /\ o \in Sides /\ o # side /\ Other(o) = side
      /\ end[side].role \in Roles /\ end[o].role \in Roles
      /\ folder[side] \in Folders /\ folder[o] \in Folders
      /\ S.status = end[side].status /\ S.files = end[side].files
  BY SideFacts
<1>2. /\ end'[side].role = end[side].role /\ end'[o] = end[o]
      /\ end'[side].status = T.status /\ end'[side].files = T.files
      /\ T \in EndTypes /\ end[side] \in EndTypes /\ end[o] \in EndTypes
      /\ folder'[side] = E /\ folder'[o] = folder[o]
      /\ cancels \in Nat /\ cancels' \in Nat
      /\ \/ cancels' = cancels
         \/ /\ cancels' = cancels + 1 /\ T.files = end[side].files /\ T.status # "Done"
            /\ T.role = "receive" => SavedOf(E) = SavedOf(folder[side])
      /\ T.role = end[side].role
  BY StepsLeave
<1>3. /\ T.status \in Statuses /\ T.files \in Nat /\ end[o].status \in Statuses
      /\ end[side].status \in Statuses /\ end[side].files \in Nat /\ end[o].files \in Nat
  BY <1>2, StatusTypes
<1>4. Len(Files) \in Nat /\ SavedOf(folder[side]) \in Nat /\ SavedOf(folder[o]) \in Nat
  BY <1>1, FilesAssumption, SavedOfTypes
<1> HIDE DEF S, o
<1>5. CASE end[side].role = end[o].role
  <2>1. /\ UserKept = 0 /\ UserClaimed = 0 /\ UserWithdrawn = FALSE
        /\ UserOutcome = BothTold("Running", "Running")
    BY <1>5, UnpairedUsers DEF o
  <2>2. /\ UserKept' = 0 /\ UserClaimed' = 0 /\ UserWithdrawn' = FALSE
        /\ UserOutcome' = BothTold("Running", "Running")
    BY <1>2, <1>5, UnpairedThen DEF o
  <2> QED
    BY <2>1, <2>2 DEF Users
<1>6. CASE end[side].role = "send" /\ end[o].role = "receive"
  <2>1. /\ UserKept = SavedOf(folder[o]) /\ UserClaimed = end[side].files
        /\ UserWithdrawn = (cancels > 0)
        /\ UserOutcome = BothTold(Told(end[side].status), Told(end[o].status))
    BY <1>1, <1>6, PairedUsers
  <2>2. /\ UserKept' = SavedOf(folder[o]) /\ UserClaimed' = T.files
        /\ UserWithdrawn' = (cancels' > 0)
        /\ UserOutcome' = BothTold(Told(T.status), Told(end[o].status))
    BY <1>1, <1>2, <1>6, PairedThen
  <2>3. SenderStep(cancels', S, T, folder[o])
    BY <1>2, <1>6 DEF Steps, Fits, S, o
  <2>4. \/ T.files = end[side].files
        \/ /\ end[side].status = "Running" /\ T.files = end[side].files + 1
           /\ \/ end[side].files < SavedOf(folder[o])
              \/ (cancels' > 0 /\ end[side].files < Len(Files))
    BY <1>1, <2>3 DEF SenderStep, Running
  <2>5. T.status # end[side].status =>
           /\ end[side].status = "Running"
           /\ T.status = "Done" => cancels' > 0 \/ end[side].files = Len(Files)
           /\ T.status = "Cancelled" => cancels' > 0
    BY <1>1, <2>3 DEF SenderStep, Running
  <2>6. cancels' = cancels \/ (cancels' = cancels + 1 /\ T.files = end[side].files /\ T.status # "Done")
    BY <1>2
  <2>8. SenderGoes(SavedOf(folder[o]), end[side].files, T.files, cancels, cancels',
                   end[side].status, T.status)
    BY <2>4, <2>5, <2>6 DEF SenderGoes
  <2>7. Promise!Next
    BY <1>2, <1>3, <1>4, <2>1, <2>2, <2>8, SenderPromise
  <2> QED
    BY <2>7
<1>7. CASE end[side].role = "receive" /\ end[o].role = "send"
  <2>1. /\ UserKept = SavedOf(folder[side]) /\ UserClaimed = end[o].files
        /\ UserWithdrawn = (cancels > 0)
        /\ UserOutcome = BothTold(Told(end[o].status), Told(end[side].status))
    BY <1>1, <1>7, PairedUsers
  <2>2. /\ UserKept' = SavedOf(E) /\ UserClaimed' = end[o].files
        /\ UserWithdrawn' = (cancels' > 0)
        /\ UserOutcome' = BothTold(Told(end[o].status), Told(T.status))
    BY <1>1, <1>2, <1>7, PairedThen
  <2>3. ReceiverStep(cancels', S, T, folder[side], E) /\ E \in Folders
    BY <1>2, <1>7 DEF Steps, Fits, S, o
  <2>4. \/ SavedOf(E) = SavedOf(folder[side])
        \/ /\ end[side].status = "Running" /\ T.status = end[side].status
           /\ SavedOf(folder[side]) < Len(Files) /\ SavedOf(E) = SavedOf(folder[side]) + 1
    BY <1>1, <2>3 DEF ReceiverStep, Running
  <2>5. T.status # end[side].status =>
           /\ end[side].status = "Running"
           /\ T.status = "Done" => cancels' > 0 \/ SavedOf(folder[side]) = Len(Files)
           /\ T.status = "Cancelled" => cancels' > 0
    BY <1>1, <2>3 DEF ReceiverStep, Running
  <2>6. \/ cancels' = cancels
        \/ (cancels' = cancels + 1 /\ SavedOf(E) = SavedOf(folder[side]) /\ T.status # "Done")
    BY <1>2, <1>7
  <2>8. SavedOf(E) \in Nat
    BY <2>3, SavedOfTypes
  <2>9. ReceiverGoes(SavedOf(folder[side]), SavedOf(E), cancels, cancels',
                     end[side].status, T.status)
    BY <2>4, <2>5, <2>6 DEF ReceiverGoes
  <2>7. Promise!Next
    BY <1>2, <1>3, <1>4, <2>1, <2>2, <2>8, <2>9, ReceiverPromise
  <2> QED
    BY <2>7
<1> QED
  BY <1>1, <1>5, <1>6, <1>7 DEF Roles

LEMMA UnseenPromise ==
    ASSUME IInv, IInv', Unseen
    PROVE  Users' = Users
<1>1. PICK s \in Sides : TRUE
  BY SidesAssumption
<1> DEFINE o == Other(s)
<1>2. o \in Sides /\ end[s].role \in Roles /\ end[o].role \in Roles
  BY SideFacts
<1>3. /\ folder' = folder /\ cancels' = cancels
      /\ end'[s].role = end[s].role /\ end'[s].status = end[s].status /\ end'[s].files = end[s].files
      /\ end'[o].role = end[o].role /\ end'[o].status = end[o].status /\ end'[o].files = end[o].files
  BY <1>2 DEF Unseen
<1> HIDE DEF o
<1>5. CASE end[s].role = end[o].role
  <2>1. /\ UserKept = 0 /\ UserClaimed = 0 /\ UserWithdrawn = FALSE
        /\ UserOutcome = BothTold("Running", "Running")
    BY <1>5, UnpairedUsers DEF o
  <2>2. /\ UserKept' = 0 /\ UserClaimed' = 0 /\ UserWithdrawn' = FALSE
        /\ UserOutcome' = BothTold("Running", "Running")
    BY <1>3, <1>5, UnpairedThen DEF o
  <2> QED
    BY <2>1, <2>2 DEF Users
<1>6. ASSUME NEW a \in Sides, NEW b \in Sides, {a, b} = {s, o},
             end[a].role = "send", end[b].role = "receive"
      PROVE  Users' = Users
  <2>1. /\ end'[a].role = end[a].role /\ end'[a].status = end[a].status
        /\ end'[a].files = end[a].files
        /\ end'[b].role = end[b].role /\ end'[b].status = end[b].status
    BY <1>3, <1>6
  <2>2. /\ UserKept = SavedOf(folder[b]) /\ UserClaimed = end[a].files
        /\ UserWithdrawn = (cancels > 0)
        /\ UserOutcome = BothTold(Told(end[a].status), Told(end[b].status))
    BY <1>6, PairedUsers
  <2>3. /\ UserKept' = SavedOf(folder'[b]) /\ UserClaimed' = end'[a].files
        /\ UserWithdrawn' = (cancels' > 0)
        /\ UserOutcome' = BothTold(Told(end'[a].status), Told(end'[b].status))
    BY <1>6, <2>1, PairedThen
  <2> QED
    BY <1>3, <2>1, <2>2, <2>3 DEF Users
<1> QED
  BY <1>2, <1>5, <1>6 DEF Roles

\* Whatever is lost, damaged, late, cancelled or failing, a transfer keeps what
\* FileTransfer promises its users: each file is kept once, the sender claims
\* none that was not kept, and Done means all of them, unless a user cancelled
\* (acknowledged of Sender, hear_break and hear_end_of_file of Receiver).
THEOREM DoesAsPromised == Spec => KeepsPromise
<1>1. Init => Promise!Init
  <2> SUFFICES ASSUME Init PROVE Promise!Init
    OBVIOUS
  <2>1. IInv
    BY InitIInv
  <2>2. PICK s \in Sides : TRUE
    BY SidesAssumption
  <2> DEFINE o == Other(s)
  <2>3. o \in Sides /\ Other(o) = s /\ end[s].role \in Roles /\ end[o].role \in Roles
    BY <2>1, SideFacts
  <2>4. /\ \A q \in Sides : end[q].status = "Running" /\ end[q].files = 0 /\ folder[q] = <<>>
        /\ cancels = 0
    BY NewTypes DEF Init
  <2>5. Told("Running") = "Running"
    BY DEF Told
  <2>6. /\ UserKept = 0 /\ UserClaimed = 0 /\ UserWithdrawn = FALSE
        /\ UserOutcome = BothTold("Running", "Running")
    <3>1. CASE end[s].role = end[o].role
      BY <2>1, <3>1, UnpairedUsers
    <3>2. ASSUME NEW a \in Sides, NEW b \in Sides, end[a].role = "send", end[b].role = "receive"
          PROVE  /\ UserKept = 0 /\ UserClaimed = 0 /\ UserWithdrawn = FALSE
                 /\ UserOutcome = BothTold("Running", "Running")
      <4>1. /\ UserKept = SavedOf(folder[b]) /\ UserClaimed = end[a].files
            /\ UserWithdrawn = (cancels > 0)
            /\ UserOutcome = BothTold(Told(end[a].status), Told(end[b].status))
        BY <2>1, <3>2, PairedUsers
      <4>2. UserWithdrawn = FALSE
        <5>1. (0 > 0) = FALSE
          OBVIOUS
        <5>2. UserWithdrawn = (0 > 0)
          BY <2>4, <4>1
        <5> QED
          BY <5>1, <5>2
      <4>3. /\ folder[b] = <<>> /\ end[a].files = 0
            /\ end[a].status = "Running" /\ end[b].status = "Running"
        BY <2>4
      <4>4. UserKept = 0
        BY <4>1, <4>3, NothingSaved
      <4> QED
        BY <2>5, <4>1, <4>2, <4>3, <4>4
    <3> QED
      BY <2>3, <3>1, <3>2 DEF Roles
  <2> QED
    BY <2>6 DEF Promise!Init, Promise!Ends, UserKept, UserClaimed, UserWithdrawn, UserOutcome,
                BothTold
<1>2. IInv /\ [Next]_vars => Promise!Next \/ Users' = Users
  <2> SUFFICES ASSUME IInv, [Next]_vars
               PROVE  Promise!Next \/ Users' = Users
    OBVIOUS
  <2>1. IInv' /\ (Unseen \/ \E side \in Sides : \E T, V, E : Steps(side, T, V, E))
    BY NextDoes
  <2>2. CASE Unseen
    BY <2>1, <2>2, UnseenPromise
  <2>3. CASE \E side \in Sides : \E T, V, E : Steps(side, T, V, E)
    BY <2>1, <2>3, StepsPromise
  <2> QED
    BY <2>1, <2>2, <2>3
<1>3. IInv /\ [Next]_vars => [Promise!Next]_Users
  BY <1>2
<1> QED
  BY <1>1, <1>3, NeverApart, PTL
     DEF Spec, KeepsPromise, Promise!Spec, Users, UserKept, UserClaimed, UserWithdrawn, UserOutcome

\* No data packet carries more than half of what any that had to go again did,
\* or the least they are halved to (halve and send_data of Sender: the ceiling
\* of the sizes is never raised).
THEOREM ShorterForGood == Spec => NeverGrowsBack
<1> DEFINE Shorter ==
              \A side \in Sides :
                 end[side].role = "send" /\ agreement.long /\ end'[side].state = "Data"
                   /\ end'[side].last # end[side].last =>
                       end'[side].inFlight <= Most(repeated \div 2, LeastSize)
<1>1. IInv /\ [Next]_vars => Shorter
  <2> SUFFICES ASSUME IInv, [Next]_vars, NEW side \in Sides,
                      end[side].role = "send", agreement.long, end'[side].state = "Data",
                      end'[side].last # end[side].last
               PROVE  end'[side].inFlight <= Most(repeated \div 2, LeastSize)
    OBVIOUS
  <2>1. ~Unseen
    BY DEF Unseen
  <2>2. PICK q \in Sides : \E T, V, E : Steps(q, T, V, E)
    BY <2>1, NextDoes
  <2>3. PICK T, V, E : Steps(q, T, V, E)
    BY <2>2
  <2>4. side = q
    BY <2>3, StepsLeave, TwoSides
  <2> DEFINE o == Other(side)
             S == Quiet(side)
  <2>5. /\ end[o].role \in Roles /\ o \in Sides
        /\ S.ceiling = end[side].ceiling /\ S.last = end[side].last /\ end[side] \in EndTypes
    BY SideFacts, QuietDoes
  <2>6. /\ T.state = "Data" /\ T.last # end[side].last /\ T.inFlight = end'[side].inFlight
        /\ T \in EndTypes /\ T.role = "send"
    BY <2>3, <2>4, StepsLeave
  <2>7. CASE end[o].role = "send"
    <3>1. Alone(T, wire[side] \o T.out, E)
      BY <2>3, <2>4, <2>6, <2>7 DEF Steps, Fits
    <3> QED
      BY <2>6, <3>1 DEF Alone
  <2>8. CASE end[o].role = "receive"
    <3>1. SenderStep(cancels', S, T, folder[o])
      BY <2>3, <2>4, <2>6, <2>8 DEF Steps, Fits
    <3> HIDE DEF S
    <3>2. T.inFlight <= Least(LongRoom, S.ceiling)
      BY <2>5, <2>6, <3>1 DEF SenderStep
    <3>3. Least(LongRoom, end[side].ceiling) <= Most(repeated \div 2, LeastSize)
      BY DEF IInv
    <3>4. /\ LongRoom \in Nat /\ LeastSize \in Nat /\ end[side].ceiling \in Nat /\ T.inFlight \in Nat
          /\ repeated \in Nat
      BY <2>5, <2>6, EndFields, NumbersAssumption DEF IInv
    <3>5. repeated \div 2 \in Nat
      BY <3>4
    <3>6. Least(LongRoom, end[side].ceiling) \in Nat /\ Most(repeated \div 2, LeastSize) \in Nat
      BY <3>4, <3>5 DEF Least, Most
    <3> QED
      BY <2>5, <2>6, <3>2, <3>3, <3>4, <3>6
  <2> QED
    BY <2>5, <2>7, <2>8 DEF Roles
<1>2. IInv /\ [Next]_vars => [Shorter]_vars
  BY <1>1
<1> QED
  BY <1>2, NeverApart, PTL DEF Spec, NeverGrowsBack
=============================================================================
