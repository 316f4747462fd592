------------------------------- MODULE Inductions -------------------------------
(***************************************************************************)
(* Induction and recursion over numbers and sequences.  The library's       *)
(* theorems have an operator for what is proved; here a set stands for it:  *)
(* one that has nought, or the empty sequence, and with each the next, or   *)
(* those one element longer, has them all.                                  *)
(***************************************************************************)
EXTENDS Integers, Sequences, TLAPS, SequenceTheorems, WellFoundedInduction

\* Of some numbers there is a least.
LEMMA LeastNumber ==
    ASSUME NEW numbers \in SUBSET Nat, numbers # {}
    PROVE  \E n \in numbers : \A m \in numbers : n <= m
<1>1. PICK n \in numbers : \A m \in numbers : <<m, n>> \notin OpToRel(<, Nat)
  BY WFMin, NatLessThanWellFounded
<1>2. \A m \in numbers : ~(m < n)
  BY <1>1, Zenon DEF OpToRel
<1> QED
  BY <1>2

\* Of some places there is a last.
LEMMA LastPlace ==
    ASSUME NEW len \in Nat, NEW places \in SUBSET (0 .. len), places # {}
    PROVE  \E i \in places : \A j \in places : j <= i
<1> DEFINE backs == {len - i : i \in places}
<1>0. backs \subseteq Nat
  OBVIOUS
<1>1. backs # {}
  OBVIOUS
<1>2. PICK e \in backs : \A b \in backs : e <= b
  <2> HIDE DEF backs
  <2> QED
    BY <1>0, <1>1, LeastNumber
<1>3. PICK i \in places : e = len - i
  OBVIOUS
<1>4. ASSUME NEW j \in places PROVE j <= i
  <2>1. len - j \in backs
    OBVIOUS
  <2>2. len - i <= len - j
    BY <1>2, <1>3, <2>1
  <2> QED
    BY <2>2
<1> QED
  BY <1>4

\* A set that has nought, and with each number the next, has all of them.
LEMMA NumbersUpTo ==
    ASSUME NEW S, 0 \in S, \A n \in Nat : n \in S => n + 1 \in S
    PROVE  Nat \subseteq S
<1> DEFINE left == Nat \ S
<1> SUFFICES ASSUME left # {} PROVE FALSE
  OBVIOUS
<1>1. PICK n \in left : \A m \in left : n <= m
  BY LeastNumber
<1>2. n # 0 /\ n - 1 \in Nat
  BY <1>1
<1>3. n - 1 \in S
  BY <1>1, <1>2
<1>4. (n - 1) + 1 \in S
  BY <1>2, <1>3
<1> QED
  BY <1>1, <1>2, <1>4

\* A set that has the empty sequence, and with each those one longer, has all.
LEMMA SequencesUpTo ==
    ASSUME NEW A, NEW S, <<>> \in S,
           \A s \in Seq(A), a \in A : s \in S => Append(s, a) \in S
    PROVE  Seq(A) \subseteq S
<1> DEFINE T == {n \in Nat : \A s \in Seq(A) : Len(s) = n => s \in S}
<1>1. 0 \in T
  BY EmptySeq
<1>2. ASSUME NEW n \in Nat, n \in T PROVE n + 1 \in T
  <2> SUFFICES ASSUME NEW s \in Seq(A), Len(s) = n + 1 PROVE s \in S
    OBVIOUS
  <2> DEFINE front == SubSeq(s, 1, n)
  <2>1. front \in Seq(A) /\ Len(front) = n
    BY <1>2
  <2>2. s = Append(front, s[n + 1]) /\ s[n + 1] \in A
    BY <1>2
  <2>3. front \in S
    BY <1>2, <2>1
  <2> HIDE DEF front
  <2> QED
    BY <2>1, <2>2, <2>3
<1> HIDE DEF T
<1>3. Nat \subseteq T
  BY <1>1, <1>2, NumbersUpTo
<1> QED
  BY <1>3 DEF T

-----------------------------------------------------------------------------
(* Recursion.                                                               *)

\* A step taken again and again: there is the sequence of what comes of it.
LEMMA Runs ==
    ASSUME NEW X, NEW base \in X, NEW len \in Nat, NEW Step \in [1 .. len -> [X -> X]]
    PROVE  \E f \in [0 .. len -> X] :
              f[0] = base /\ \A n \in 1 .. len : f[n] = Step[n][f[n - 1]]
<1> DEFINE T == {m \in Nat : m <= len =>
                    \E f \in [0 .. m -> X] :
                        f[0] = base /\ \A n \in 1 .. m : f[n] = Step[n][f[n - 1]]}
<1>1. 0 \in T
  <2> DEFINE g == [i \in 0 .. 0 |-> base]
  <2>1. g \in [0 .. 0 -> X] /\ g[0] = base
    OBVIOUS
  <2>2. \A n \in 1 .. 0 : FALSE
    OBVIOUS
  <2> HIDE DEF g
  <2> QED
    BY <2>1, <2>2
<1>2. ASSUME NEW m \in Nat, m \in T PROVE m + 1 \in T
  <2> SUFFICES ASSUME m + 1 <= len
               PROVE  \E f \in [0 .. m + 1 -> X] :
                         f[0] = base /\ \A n \in 1 .. m + 1 : f[n] = Step[n][f[n - 1]]
    OBVIOUS
  <2>1. PICK f \in [0 .. m -> X] :
                f[0] = base /\ \A n \in 1 .. m : f[n] = Step[n][f[n - 1]]
    BY <1>2
  <2> DEFINE g == [i \in 0 .. m + 1 |-> IF i = m + 1 THEN Step[m + 1][f[m]] ELSE f[i]]
  <2>2. Step[m + 1][f[m]] \in X
    <3>1. f[m] \in X /\ Step[m + 1] \in [X -> X]
      BY <2>1
    <3> QED
      BY <3>1
  <2>3. g \in [0 .. m + 1 -> X]
    <3>1. \A i \in 0 .. m + 1 : i = m + 1 \/ i \in 0 .. m
      OBVIOUS
    <3> QED
      BY <2>1, <2>2, <3>1
  <2>4. g[0] = base
    BY <2>1
  <2>5. ASSUME NEW n \in 1 .. m + 1 PROVE g[n] = Step[n][g[n - 1]]
    <3>1. n - 1 \in 0 .. m /\ g[n - 1] = f[n - 1]
      OBVIOUS
    <3>2. CASE n = m + 1
      BY <3>1, <3>2
    <3>3. CASE n \in 1 .. m
      <4>1. g[n] = f[n]
        BY <3>3
      <4> QED
        BY <2>1, <3>1, <3>3, <4>1
    <3> QED
      BY <3>2, <3>3
  <2> QED
    BY <2>3, <2>4, <2>5
<1> HIDE DEF T
<1>3. Nat \subseteq T
  BY <1>1, <1>2, NumbersUpTo
<1>4. len \in T
  BY <1>3
<1> QED
  BY <1>4 DEF T

-----------------------------------------------------------------------------
(* What is added or taken on both sides.                                    *)

LEMMA CutAlike ==
    ASSUME NEW a \in Int, NEW b \in Int, NEW c \in Int, NEW e \in Int, NEW k \in Int,
           c <= b, a - b + c <= e
    PROVE  c - k <= b - k /\ a - (b - k) + (c - k) <= e
OBVIOUS

LEMMA RaisedAlike ==
    ASSUME NEW a \in Int, NEW b \in Int, NEW c \in Int, NEW d \in Int, NEW e \in Int, NEW k \in Int,
           a - b + c <= d + e
    PROVE  a - b + (c + k) <= (d + k) + e
OBVIOUS

LEMMA RoomLeft ==
    ASSUME NEW a \in Int, NEW b \in Int, NEW c \in Int, NEW d \in Int, NEW e \in Nat, a <= d, c <= b
    PROVE  a - b + c <= d + e
OBVIOUS

LEMMA GrantedAlike ==
    ASSUME NEW a \in Int, NEW b \in Int, NEW c \in Int, NEW d \in Int, NEW k \in Int, a - b + c <= d
    PROVE  a - b + (c + k) <= d + k
OBVIOUS
=============================================================================
