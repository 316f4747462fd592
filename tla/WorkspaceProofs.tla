--------------------------- MODULE WorkspaceProofs ---------------------------
(***************************************************************************)
(* What TLAPS proves of the sessions of one window, for every number of    *)
(* sessions a model takes, of connections asked for and of transfers.      *)
(***************************************************************************)
EXTENDS Workspace, FiniteSetTheorems, SequenceTheorems, TLAPS

(***************************************************************************)
(* The order sessions were last active in.                                 *)
(***************************************************************************)

Distinct(s) == \A i, j \in DOMAIN s : s[i] = s[j] => i = j

\* A sequence without the one at a place: the others, in their order.
LEMMA RemoveAtPlace ==
  ASSUME NEW S, NEW s \in Seq(S), NEW i \in 1 .. Len(s)
  PROVE  /\ RemoveAt(s, i) \in Seq(S)
         /\ Len(RemoveAt(s, i)) = Len(s) - 1
         /\ \A j \in 1 .. Len(s) - 1 :
              RemoveAt(s, i)[j] = IF j < i THEN s[j] ELSE s[j + 1]
<1> DEFINE head == SubSeq(s, 1, i - 1)
           tail == SubSeq(s, i + 1, Len(s))
<1>1. /\ head \in Seq(S) /\ Len(head) = i - 1
      /\ \A j \in 1 .. i - 1 : head[j] = s[j]
  BY SubSeqProperties
<1>2. /\ tail \in Seq(S) /\ Len(tail) = Len(s) - i
      /\ \A j \in 1 .. Len(s) - i : tail[j] = s[j + i]
  BY SubSeqProperties
<1> HIDE DEF head, tail
<1>3. /\ head \o tail \in Seq(S) /\ Len(head \o tail) = Len(s) - 1
  <2>1. head \o tail \in Seq(S) /\ Len(head \o tail) = Len(head) + Len(tail)
    BY <1>1, <1>2, ConcatProperties, Zenon
  <2> QED
    BY <2>1, <1>1, <1>2
<1>4. ASSUME NEW j \in 1 .. Len(s) - 1
      PROVE  (head \o tail)[j] = IF j < i THEN s[j] ELSE s[j + 1]
  <2>1. (head \o tail)[j] = IF j <= i - 1 THEN head[j] ELSE tail[j - (i - 1)]
    BY <1>1, <1>2
  <2>2. CASE j < i
    BY <2>1, <2>2, <1>1
  <2>3. CASE ~(j < i)
    <3>1. j - (i - 1) \in 1 .. Len(s) - i
      BY <2>3
    <3>2. tail[j - (i - 1)] = s[(j - (i - 1)) + i]
      BY <3>1, <1>2
    <3> QED
      BY <3>2, <2>1, <2>3
  <2> QED
    BY <2>2, <2>3
<1>5. RemoveAt(s, i) = head \o tail
  BY DEF RemoveAt, head, tail
<1> QED
  BY <1>3, <1>4, <1>5

\* Forgetting an id leaves the others, each where it was among them.
LEMMA ForgottenGone ==
  ASSUME NEW S, NEW s \in Seq(S), Distinct(s), NEW id
  PROVE  /\ Forgotten(s, id) \in Seq(S)
         /\ Distinct(Forgotten(s, id))
         /\ Range(Forgotten(s, id)) = Range(s) \ {id}
<1> DEFINE t == Forgotten(s, id)
<1>1. CASE \A i \in DOMAIN s : s[i] # id
  BY <1>1 DEF Forgotten, Range
<1>2. CASE \E i \in DOMAIN s : s[i] = id
  <2> DEFINE at == CHOOSE i \in DOMAIN s : s[i] = id
  <2>1. at \in 1 .. Len(s) /\ s[at] = id
    BY <1>2
  <2>2. t = RemoveAt(s, at)
    BY <1>2 DEF Forgotten
  <2> HIDE DEF at, t
  <2>3. /\ t \in Seq(S) /\ Len(t) = Len(s) - 1
        /\ \A j \in 1 .. Len(s) - 1 : t[j] = IF j < at THEN s[j] ELSE s[j + 1]
    BY <2>1, <2>2, RemoveAtPlace
  <2>4. ASSUME NEW j \in 1 .. Len(t), NEW k \in 1 .. Len(t), t[j] = t[k] PROVE j = k
    <3> DEFINE from(n) == IF n < at THEN n ELSE n + 1
    <3>1. /\ from(j) \in 1 .. Len(s) /\ from(k) \in 1 .. Len(s)
          /\ t[j] = s[from(j)] /\ t[k] = s[from(k)]
      BY <2>1, <2>3
    <3>2. from(j) = from(k) => j = k
      BY <2>1, <2>3
    <3> HIDE DEF from
    <3>3. s[from(j)] = s[from(k)]
      BY <3>1, <2>4
    <3> QED
      BY <3>1, <3>2, <3>3 DEF Distinct
  <2>5. \A x \in Range(t) : x \in Range(s) \ {id}
    BY <2>1, <2>3 DEF Range, Distinct
  <2>6. ASSUME NEW x \in Range(s) \ {id} PROVE x \in Range(t)
    <3>1. PICK k \in 1 .. Len(s) : s[k] = x
      BY <2>6 DEF Range
    <3>2. CASE k < at
      BY <3>1, <3>2, <2>1, <2>3 DEF Range
    <3>3. CASE k > at
      <4>1. k - 1 \in 1 .. Len(s) - 1 /\ t[k - 1] = x
        BY <3>1, <3>3, <2>1, <2>3
      <4> QED
        BY <4>1, <2>3 DEF Range
    <3> QED
      BY <3>1, <3>2, <3>3, <2>1, <2>6
  <2> QED
    BY <2>3, <2>4, <2>5, <2>6 DEF t, Distinct
<1> QED
  BY <1>1, <1>2

LEMMA ForgottenAt ==
  ASSUME NEW S, NEW s \in Seq(S), Distinct(s), NEW i \in 1 .. Len(s)
  PROVE  /\ Len(Forgotten(s, s[i])) = Len(s) - 1
         /\ \A j \in 1 .. Len(s) - 1 :
              Forgotten(s, s[i])[j] = IF j < i THEN s[j] ELSE s[j + 1]
<1> DEFINE at == CHOOSE k \in DOMAIN s : s[k] = s[i]
<1>1. at = i
  BY DEF Distinct
<1>2. Forgotten(s, s[i]) = RemoveAt(s, at)
  BY DEF Forgotten
<1> QED
  BY <1>1, <1>2, RemoveAtPlace, ZenonT(60)

(***************************************************************************)
(* What is on the screen.                                                  *)
(***************************************************************************)

\* With every session in the order once, the sooner is the one further front.
LEMMA SoonerByPlace ==
  ASSUME NEW w, w.recent \in Seq(Nat), EachOnce(w),
         NEW i \in 1 .. Len(w.recent), NEW j \in 1 .. Len(w.recent)
  PROVE  Sooner(w, w.recent[i], w.recent[j]) <=> i < j
<1> DEFINE r == w.recent
<1>1. /\ r \in Seq(Nat) /\ i \in 1 .. Len(r) /\ j \in 1 .. Len(r)
      /\ \A k, l \in 1 .. Len(r) : r[k] = r[l] => k = l
  BY DEF EachOnce
<1>2. r[i] \in Range(r)
  BY <1>1 DEF Range
<1>3. Sooner(w, r[i], r[j]) <=> \E k \in 1 .. Len(r) : r[k] = r[i] /\ \A l \in 1 .. k : r[l] # r[j]
  BY <1>1, <1>2, SMTT(60) DEF Sooner
<1> HIDE DEF r
<1>4. ASSUME i < j PROVE \A l \in 1 .. i : r[l] # r[j]
  BY <1>1, <1>4
<1>5. ASSUME NEW k \in 1 .. Len(r), r[k] = r[i], \A l \in 1 .. k : r[l] # r[j] PROVE i < j
  BY <1>1, <1>5
<1>6. Sooner(w, r[i], r[j]) <=> i < j
  <2>1. i < j => Sooner(w, r[i], r[j])
    BY <1>1, <1>3, <1>4, Zenon
  <2>2. Sooner(w, r[i], r[j]) => i < j
    BY <1>3, <1>5, Zenon
  <2> QED
    BY <2>1, <2>2
<1> QED
  BY <1>6 DEF r

\* On the screen is the first of the order and, with two windows, the second.
LEMMA ShownAreFirst ==
  ASSUME NEW w, w.recent \in Seq(Nat), EachOnce(w), Open(w) # {}
  PROVE  /\ Len(w.recent) > 0
         /\ Shown(w) = IF w.twoWindows /\ Len(w.recent) > 1
                       THEN {w.recent[1], w.recent[2]} ELSE {w.recent[1]}
         /\ w.recent[1] \in Open(w) /\ AheadOf(w, w.recent[1]) = {}
         /\ \A id \in Open(w) : AheadOf(w, id) = {} => id = w.recent[1]
<1> DEFINE r == w.recent
<1>1. r \in Seq(Nat) /\ Open(w) = {r[k] : k \in 1 .. Len(r)}
  BY DEF EachOnce, Range
<1>2. \A k, l \in 1 .. Len(r) : r[k] = r[l] => k = l
  BY DEF EachOnce
<1>3. ASSUME NEW j \in 1 .. Len(r) PROVE AheadOf(w, r[j]) = {r[k] : k \in 1 .. j - 1}
  <2>1. \A i \in 1 .. Len(r) : Sooner(w, r[i], r[j]) <=> i < j
    BY SoonerByPlace
  <2> HIDE DEF r
  <2>2. \A k \in 1 .. j - 1 : k \in 1 .. Len(r) /\ k < j
    BY <1>1
  <2>3. \A k \in 1 .. Len(r) : k < j => k \in 1 .. j - 1
    BY <1>1
  <2> QED
    BY <1>1, <2>1, <2>2, <2>3, Zenon DEF AheadOf
<1>4. Len(r) > 0
  BY <1>1
<1> HIDE DEF r
<1>5. r[1] \in Open(w) /\ AheadOf(w, r[1]) = {}
  <2>1. 1 \in 1 .. Len(r) /\ 1 .. 1 - 1 = {}
    BY <1>1, <1>4
  <2> QED
    BY <2>1, <1>1, <1>3
<1>6. ASSUME NEW j \in 1 .. Len(r), j > 1 PROVE AheadOf(w, r[j]) # {}
  <2>1. 1 \in 1 .. j - 1
    BY <1>1, <1>6
  <2>2. r[1] \in {r[k] : k \in 1 .. j - 1}
    BY <2>1
  <2> QED
    BY <2>2, <1>3, Zenon
<1>7. \A id \in Open(w) : AheadOf(w, id) = {} => id = r[1]
  BY <1>1, <1>4, <1>6
<1>8. ASSUME Len(r) > 1 PROVE r[2] \in Open(w) /\ AheadOf(w, r[2]) = {r[1]}
  <2>1. 2 \in 1 .. Len(r) /\ 1 .. 2 - 1 = {1}
    BY <1>1, <1>8
  <2> QED
    BY <2>1, <1>1, <1>3
<1>9. ASSUME NEW j \in 1 .. Len(r), j > 2, NEW first, AheadOf(w, r[j]) = {first} PROVE FALSE
  <2>1. 1 \in 1 .. j - 1 /\ 2 \in 1 .. j - 1 /\ 1 \in 1 .. Len(r) /\ 2 \in 1 .. Len(r)
    BY <1>1, <1>9
  <2>2. r[1] \in AheadOf(w, r[j]) /\ r[2] \in AheadOf(w, r[j])
    BY <2>1, <1>3
  <2> QED
    BY <2>1, <2>2, <1>9, <1>2
<1>10. ASSUME NEW id \in Open(w), NEW first, AheadOf(w, id) = {first} PROVE Len(r) > 1 /\ id = r[2]
  <2>1. PICK j \in 1 .. Len(r) : r[j] = id
    BY <1>1
  <2>2. j # 1
    BY <2>1, <1>5, <1>10
  <2>3. ~(j > 2)
    BY <2>1, <1>9, <1>10
  <2> QED
    BY <2>1, <2>2, <2>3, <1>1
<1>11. Shown(w) = IF w.twoWindows /\ Len(r) > 1 THEN {r[1], r[2]} ELSE {r[1]}
  BY <1>5, <1>7, <1>8, <1>10, Zenon DEF Shown
<1> QED
  BY <1>4, <1>5, <1>7, <1>11 DEF r

(***************************************************************************)
(* A workspace that is sound, and one that has the sessions of another.    *)
(***************************************************************************)

NumbersDiffer(w) ==
  \A a, b \in Open(w) : w.panes[a].number = w.panes[b].number => a = b

Blinks(w) ==
  \A id \in Open(w) : w.panes[id].unseen => w.blinking /\ id \notin w.onScreen

\* Every poller has a handler on the button, so one that runs can be stopped.
InHand(t) == t.pollers <= t.cancels /\ (Running(t) => t.bar /\ t.pollers > 0)

Sound(w, most) ==
  /\ WorkspaceOK(w) /\ Cardinality(Open(w)) <= most
  /\ NumbersDiffer(w) /\ Blinks(w)
  /\ \A id \in Open(w) : InHand(w.panes[id].transfer)

SamePane(p, q) ==
  /\ p.number = q.number /\ p.kept = q.kept /\ p.ended = q.ended
  /\ p.transfer = q.transfer

SameSessions(v, w) ==
  /\ Open(w) = Open(v) /\ w.nextId = v.nextId /\ w.opening = v.opening /\ w.toOpen = v.toOpen
  /\ \A id \in Open(v) : SamePane(v.panes[id], w.panes[id])

LEMMA OpenFinite ==
  ASSUME NEW w, WorkspaceOK(w)
  PROVE  IsFiniteSet(Open(w)) /\ Cardinality(Open(w)) \in Nat
<1>1. Open(w) \subseteq 1 .. w.nextId - 1 /\ w.nextId - 1 \in Int
  BY DEF WorkspaceOK
<1>2. IsFiniteSet(1 .. w.nextId - 1)
  BY <1>1, FS_Interval
<1> QED
  BY <1>1, <1>2, FS_Subset, FS_CardinalityType

\* Laying out shows the first of the order and marks what it shows as seen.
LEMMA LayoutSound ==
  ASSUME NEW w, NEW most \in Nat, Sound(w, most), EachOnce(w), Open(w) # {},
         w.active = w.recent[1]
  PROVE  /\ Sound(Layout(w), most) /\ InView(Layout(w))
         /\ SameSessions(w, Layout(w)) /\ Layout(w).active = w.active
<1> DEFINE v == Layout(w)
<1>1. WorkspaceOK(w) /\ w.recent \in Seq(Nat)
  BY DEF Sound, WorkspaceOK
<1>2. /\ Len(w.recent) > 0
      /\ Shown(w) = IF w.twoWindows /\ Len(w.recent) > 1
                    THEN {w.recent[1], w.recent[2]} ELSE {w.recent[1]}
  BY <1>1, ShownAreFirst
<1>3. Shown(w) \subseteq Open(w)
  BY DEF Shown
<1>4. /\ DOMAIN v.panes = Open(w)
      /\ \A id \in Open(w) : v.panes[id] = [w.panes[id] EXCEPT !.unseen = @ /\ (id \notin Shown(w))]
      /\ v.onScreen = Shown(w) /\ v.active = w.active /\ v.nextId = w.nextId
      /\ v.recent = w.recent /\ v.twoWindows = w.twoWindows /\ v.blinking = w.blinking
      /\ v.opening = w.opening /\ v.toOpen = w.toOpen
  BY <1>1 DEF Layout, WorkspaceOK
<1>5. \A id \in Open(w) :
        /\ v.panes[id] \in Panes /\ SamePane(w.panes[id], v.panes[id])
        /\ v.panes[id].unseen = (w.panes[id].unseen /\ (id \notin Shown(w)))
  <2> TAKE id \in Open(w)
  <2>1. w.panes[id] \in Panes
    BY <1>1 DEF WorkspaceOK
  <2>2. v.panes[id] = [w.panes[id] EXCEPT !.unseen = @ /\ (id \notin Shown(w))]
    BY <1>4
  <2> HIDE DEF v
  <2> QED
    BY <2>1, <2>2 DEF Panes, SamePane
<1>6. v \in [panes : {v.panes}, active : Nat, nextId : Nat \ {0}, recent : Seq(Nat),
            onScreen : SUBSET Nat, twoWindows : BOOLEAN, blinking : BOOLEAN,
            opening : BOOLEAN, toOpen : Nat]
  <2>1. Shown(w) \in SUBSET Nat
    BY <1>1, <1>3 DEF WorkspaceOK
  <2> QED
    BY <1>1, <2>1 DEF WorkspaceOK, Layout
<1>7. v.panes = [id \in Open(w) |-> [w.panes[id] EXCEPT !.unseen = @ /\ (id \notin Shown(w))]]
  BY <1>1 DEF Layout, WorkspaceOK
<1> HIDE DEF v
<1>8. v.panes \in [Open(w) -> Panes] /\ Open(v) = Open(w)
  BY <1>4, <1>5, <1>7 DEF Open
<1>9. WorkspaceOK(v)
  BY <1>1, <1>4, <1>6, <1>8 DEF WorkspaceOK
<1>10. SameSessions(w, v)
  BY <1>4, <1>5, <1>8 DEF SameSessions
<1>11. NumbersDiffer(v) /\ Blinks(v) /\ \A id \in Open(v) : InHand(v.panes[id].transfer)
  BY <1>4, <1>5, <1>8, ZenonT(60) DEF Sound, NumbersDiffer, Blinks, SamePane
<1>12. Sound(v, most)
  BY <1>8, <1>9, <1>11 DEF Sound
<1>13. InView(v)
  BY <1>1, <1>2, <1>4, <1>8 DEF InView, EachOnce
<1> QED
  BY <1>10, <1>12, <1>13, <1>4 DEF v

\* A session is brought to the front of the order, wherever it was.
LEMMA MovedToFront ==
  ASSUME NEW w, NEW most \in Nat, Sound(w, most), NEW id \in Open(w),
         Distinct(w.recent), Range(w.recent) \cup {id} = Open(w)
  PROVE  /\ Sound(MoveToFront(w, id), most) /\ EachOnce(MoveToFront(w, id))
         /\ SameSessions(w, MoveToFront(w, id))
         /\ MoveToFront(w, id).active = id
         /\ MoveToFront(w, id).recent = <<id>> \o Forgotten(w.recent, id)
         /\ MoveToFront(w, id).recent[1] = id
         /\ MoveToFront(w, id).onScreen = w.onScreen
         /\ MoveToFront(w, id).twoWindows = w.twoWindows
<1> DEFINE v == MoveToFront(w, id)
           rest == Forgotten(w.recent, id)
<1>1. WorkspaceOK(w) /\ w.recent \in Seq(Nat) /\ id \in Nat
  BY DEF Sound, WorkspaceOK
<1>2. rest \in Seq(Nat) /\ Distinct(rest) /\ Range(rest) = Range(w.recent) \ {id}
  BY <1>1, ForgottenGone
<1> HIDE DEF rest
<1>3. /\ <<id>> \o rest \in Seq(Nat) /\ Len(<<id>> \o rest) = Len(rest) + 1
      /\ (<<id>> \o rest)[1] = id
      /\ \A i \in 1 .. Len(rest) : (<<id>> \o rest)[i + 1] = rest[i]
  BY <1>1, <1>2
<1>4. /\ v.panes = w.panes /\ v.active = id /\ v.nextId = w.nextId /\ v.onScreen = w.onScreen
      /\ v.recent = <<id>> \o rest /\ v.twoWindows = w.twoWindows /\ v.blinking = w.blinking
      /\ v.opening = w.opening /\ v.toOpen = w.toOpen
      /\ WorkspaceOK(v)
  BY <1>1, <1>3 DEF MoveToFront, WorkspaceOK, rest, Open
<1> HIDE DEF v
<1>5. Sound(v, most) /\ SameSessions(w, v)
  BY <1>4 DEF Sound, SameSessions, SamePane, NumbersDiffer, Blinks, Open
<1>6. Open(v) = Open(w)
  BY <1>4 DEF Open
<1>7. \A i, j \in DOMAIN v.recent : v.recent[i] = v.recent[j] => i = j
  <2> SUFFICES ASSUME NEW i \in 1 .. Len(rest) + 1, NEW j \in 1 .. Len(rest) + 1,
                      v.recent[i] = v.recent[j]
               PROVE  i = j
    BY <1>3, <1>4
  <2>1. \A k \in 1 .. Len(rest) + 1 : k # 1 => k - 1 \in 1 .. Len(rest) /\ v.recent[k] = rest[k - 1]
    BY <1>2, <1>3, <1>4
  <2>2. \A k \in 1 .. Len(rest) : rest[k] # id
    BY <1>2 DEF Range
  <2>3. i = 1 <=> j = 1
    BY <2>1, <2>2, <1>3, <1>4
  <2> QED
    <3>1. CASE i = 1
      BY <3>1, <2>3
    <3>2. CASE i # 1
      <4>1. /\ i - 1 \in DOMAIN rest /\ j - 1 \in DOMAIN rest
            /\ rest[i - 1] = rest[j - 1]
        BY <3>2, <2>1, <2>3, <1>2
      <4>2. i - 1 = j - 1
        BY <4>1, <1>2, Zenon DEF Distinct
      <4> QED
        BY <4>2
    <3> QED
      BY <3>1, <3>2
<1>8. Range(v.recent) = Range(rest) \cup {id}
  <2>1. \A i \in DOMAIN v.recent : v.recent[i] = id \/ v.recent[i] \in Range(rest)
    BY <1>2, <1>3, <1>4 DEF Range
  <2>2. ASSUME NEW i \in 1 .. Len(rest) PROVE rest[i] \in Range(v.recent)
    <3>1. i + 1 \in DOMAIN v.recent
      BY <1>2, <1>3, <1>4
    <3> QED
      BY <3>1, <1>3, <1>4 DEF Range
  <2>3. id \in Range(v.recent)
    <3>1. 1 \in DOMAIN v.recent
      BY <1>2, <1>3, <1>4
    <3> QED
      BY <3>1, <1>3, <1>4 DEF Range
  <2> QED
    BY <2>1, <2>2, <2>3, <1>2 DEF Range
<1>9. EachOnce(v)
  BY <1>2, <1>6, <1>7, <1>8 DEF EachOnce
<1> QED
  BY <1>3, <1>4, <1>5, <1>9 DEF v, rest

\* The session made active has the keyboard, and is on the screen.
LEMMA ActivateSound ==
  ASSUME NEW w, NEW most \in Nat, Sound(w, most), NEW id \in Open(w),
         Distinct(w.recent), Range(w.recent) \cup {id} = Open(w)
  PROVE  /\ Sound(ActivateSession(w, id), most) /\ InView(ActivateSession(w, id))
         /\ SameSessions(w, ActivateSession(w, id))
<1> DEFINE v == MoveToFront(w, id)
<1>1. /\ Sound(v, most) /\ EachOnce(v) /\ SameSessions(w, v)
      /\ v.active = id /\ v.recent[1] = id
  BY MovedToFront
<1> HIDE DEF v
<1>2. Open(v) # {} /\ v.active = v.recent[1]
  BY <1>1 DEF SameSessions
<1>3. Sound(Layout(v), most) /\ InView(Layout(v)) /\ SameSessions(v, Layout(v))
  BY <1>1, <1>2, LayoutSound
<1>4. SameSessions(w, Layout(v))
  BY <1>1, <1>3 DEF SameSessions, SamePane
<1> QED
  BY <1>3, <1>4 DEF ActivateSession, v

\* Whatever is made active in a window in view, it stays so.
LEMMA ActivateKeeps ==
  ASSUME NEW w, NEW most \in Nat, Sound(w, most), Open(w) # {}, InView(w), NEW id
  PROVE  /\ Sound(ActivateSession(w, id), most) /\ InView(ActivateSession(w, id))
         /\ SameSessions(w, ActivateSession(w, id))
<1>1. CASE id \in Open(w)
  BY <1>1, ActivateSound, ZenonT(60) DEF InView, EachOnce, Distinct
<1>2. CASE id \notin Open(w)
  BY <1>2 DEF ActivateSession, SameSessions, SamePane
<1> QED
  BY <1>1, <1>2

(***************************************************************************)
(* Sessions taken out and given a pane.                                    *)
(***************************************************************************)

\* Those that are still there are as they were.
Fewer(v, w) ==
  /\ Open(w) \subseteq Open(v) /\ w.nextId = v.nextId /\ w.opening = v.opening
  /\ \A id \in Open(w) : SamePane(v.panes[id], w.panes[id])

\* All are there still, as they were.
AllStay(v, w) ==
  Open(v) \subseteq Open(w) /\ \A id \in Open(v) : SamePane(v.panes[id], w.panes[id])

LEMMA TakenOut ==
  ASSUME NEW w, NEW most \in Nat, Sound(w, most), EachOnce(w), NEW id \in Open(w)
  PROVE  /\ Sound(WithoutId(w, id), most) /\ EachOnce(WithoutId(w, id))
         /\ Fewer(w, WithoutId(w, id)) /\ Open(WithoutId(w, id)) = Open(w) \ {id}
         /\ WithoutId(w, id).toOpen = w.toOpen
         /\ Cardinality(Open(WithoutId(w, id))) = Cardinality(Open(w)) - 1
<1> DEFINE v == WithoutId(w, id)
           rest == Forgotten(w.recent, id)
<1>1. WorkspaceOK(w) /\ w.recent \in Seq(Nat) /\ Distinct(w.recent)
  BY DEF Sound, WorkspaceOK, EachOnce, Distinct
<1>2. rest \in Seq(Nat) /\ Distinct(rest) /\ Range(rest) = Range(w.recent) \ {id}
  BY <1>1, ForgottenGone
<1> HIDE DEF rest
<1>3. /\ v.panes = [other \in Open(w) \ {id} |-> w.panes[other]]
      /\ v.recent = rest /\ v.nextId = w.nextId /\ v.onScreen = w.onScreen
      /\ v.blinking = w.blinking /\ v.opening = w.opening /\ v.toOpen = w.toOpen
      /\ v \in [panes : {v.panes}, active : Nat, nextId : Nat \ {0}, recent : Seq(Nat),
                onScreen : SUBSET Nat, twoWindows : BOOLEAN, blinking : BOOLEAN,
                opening : BOOLEAN, toOpen : Nat]
  BY <1>1, <1>2 DEF WithoutId, WorkspaceOK, rest
<1> HIDE DEF v
<1>4. Open(v) = Open(w) \ {id} /\ \A other \in Open(v) : v.panes[other] = w.panes[other]
  BY <1>3 DEF Open
<1>5. v.panes \in [Open(v) -> Panes]
  BY <1>1, <1>3, <1>4 DEF WorkspaceOK
<1>6. WorkspaceOK(v)
  BY <1>1, <1>3, <1>4, <1>5 DEF WorkspaceOK
<1>7. IsFiniteSet(Open(w)) /\ Cardinality(Open(w)) \in Nat
  BY <1>1, OpenFinite
<1>8. Cardinality(Open(v)) = Cardinality(Open(w)) - 1
  BY <1>4, <1>7, FS_RemoveElement
<1>9. Sound(v, most)
  BY <1>3, <1>4, <1>6, <1>7, <1>8 DEF Sound, NumbersDiffer, Blinks
<1>10. EachOnce(v)
  BY <1>2, <1>3, <1>4 DEF EachOnce, Distinct
<1>11. Fewer(w, v)
  BY <1>3, <1>4 DEF Fewer, SamePane
<1> QED
  BY <1>3, <1>4, <1>8, <1>9, <1>10, <1>11 DEF v

\* The window goes to the one active last of those left.
LEMMA PaneRemoved ==
  ASSUME NEW w, NEW most \in Nat, Sound(w, most), EachOnce(w), NEW id \in Open(w)
  PROVE  /\ Sound(RemovePane(w, id), most)
         /\ Open(RemovePane(w, id)) = Open(w) \ {id}
         /\ Open(RemovePane(w, id)) # {} => InView(RemovePane(w, id))
         /\ Fewer(w, RemovePane(w, id))
<1> DEFINE left == WithoutId(w, id)
           next == CHOOSE other \in Open(left) : AheadOf(left, other) = {}
<1>1. /\ Sound(left, most) /\ EachOnce(left) /\ Fewer(w, left)
      /\ Open(left) = Open(w) \ {id}
  BY TakenOut
<1> HIDE DEF left
<1>2. RemovePane(w, id) = IF Open(left) = {} THEN left ELSE ActivateSession(left, next)
  BY DEF RemovePane, left
<1>3. CASE Open(left) = {}
  BY <1>1, <1>2, <1>3
<1>4. CASE Open(left) # {}
  <2>1. left.recent \in Seq(Nat)
    BY <1>1 DEF Sound, WorkspaceOK
  <2>2. next \in Open(left)
    BY <1>1, <1>4, <2>1, ShownAreFirst
  <2> HIDE DEF next
  <2>3. Distinct(left.recent) /\ Range(left.recent) \cup {next} = Open(left)
    BY <1>1, <2>2 DEF EachOnce, Distinct
  <2>4. /\ Sound(ActivateSession(left, next), most) /\ InView(ActivateSession(left, next))
        /\ SameSessions(left, ActivateSession(left, next))
    BY <1>1, <2>2, <2>3, ActivateSound
  <2>5. Fewer(w, ActivateSession(left, next))
    BY <1>1, <2>4 DEF Fewer, SameSessions, SamePane
  <2> QED
    BY <1>1, <1>2, <1>4, <2>4, <2>5 DEF SameSessions
<1> QED
  BY <1>3, <1>4

\* Where fewer sessions are open than there are numbers, one is free.
LEMMA NumberIsFree ==
  ASSUME NEW w, NEW most \in 0 .. 4, Sound(w, most), Cardinality(Open(w)) < most
  PROVE  FreeNumber(w) \in (1 .. 4) \ Numbers(w)
<1> DEFINE free == (1 .. 4) \ Numbers(w)
<1>1. IsFiniteSet(Open(w)) /\ Cardinality(Open(w)) \in Nat
  BY OpenFinite DEF Sound
<1>2. /\ IsFiniteSet(Numbers(w)) /\ Cardinality(Numbers(w)) \in Nat
      /\ Cardinality(Numbers(w)) <= Cardinality(Open(w))
  <2> DEFINE f == [id \in Open(w) |-> w.panes[id].number]
  <2>1. f \in Surjection(Open(w), Numbers(w))
    BY DEF Surjection, Numbers
  <2> QED
    BY <1>1, <2>1, FS_Surjection, FS_CardinalityType
<1>3. free # {}
  <2> SUFFICES ASSUME 1 .. 4 \subseteq Numbers(w) PROVE FALSE
    OBVIOUS
  <2>1. Cardinality(1 .. 4) = 4
    <3>1. \A a, b \in Int : Cardinality(a .. b) = IF a > b THEN 0 ELSE b - a + 1
      BY FS_Interval
    <3>2. 1 \in Int /\ 4 \in Int /\ ~(1 > 4) /\ 4 - 1 + 1 = 4
      OBVIOUS
    <3> QED
      BY <3>1, <3>2, Zenon
  <2>2. Cardinality(1 .. 4) <= Cardinality(Numbers(w))
    BY <1>2, FS_Subset
  <2> QED
    BY <1>1, <1>2, <2>1, <2>2
<1>4. \E n \in free : \A m \in free : n <= m
  <2> SUFFICES ASSUME \A n \in free : \E m \in free : m < n PROVE FALSE
    BY DEF free
  <2>1. 1 \notin free
    OBVIOUS
  <2>2. 2 \notin free
    BY <2>1
  <2>3. 3 \notin free
    BY <2>1, <2>2
  <2>4. 4 \notin free
    BY <2>1, <2>2, <2>3
  <2> QED
    BY <1>3, <2>1, <2>2, <2>3, <2>4
<1> HIDE DEF free
<1>5. Lowest(free) \in free
  BY <1>4 DEF Lowest
<1>6. ~(1 .. 4 \subseteq Numbers(w))
  BY <1>3 DEF free
<1> QED
  BY <1>5, <1>6 DEF FreeNumber, free

(***************************************************************************)
(* Connections being opened.                                               *)
(***************************************************************************)

\* One is opened at a time: for a new session while there is room for it, or
\* for one that has ended.
OneAtATime(w, a, most) ==
  /\ a \in Seq(Attempts) /\ Len(a) = IF w.opening THEN 1 ELSE 0
  /\ \A i \in 1 .. Len(a) :
       /\ a[i].for = 0 => Cardinality(Open(w)) < most
       /\ a[i].for \in Open(w) => w.panes[a[i].for].ended

Settled(s, most) ==
  /\ s = [ws |-> s.ws, attempts |-> s.attempts]
  /\ Sound(s.ws, most) /\ OneAtATime(s.ws, s.attempts, most)
  /\ Open(s.ws) # {} => InView(s.ws)

LEMMA CourseType ==
  ASSUME course \in Courses
  PROVE  /\ course.most \in {1, 2, 4} /\ course.own \in BOOLEAN /\ course.kept \subseteq BOOLEAN
         /\ course.most \in Nat /\ course.most \in 0 .. 4 /\ course.most > 0
         /\ course.sessions \in 1 .. 4 /\ course.transfers \in Nat
BY WorkspaceAssumption

\* What changes neither the sessions' numbers nor what is seen of them.
LEMMA LooksTheSame ==
  ASSUME NEW w, NEW v, NEW most, Sound(w, most), WorkspaceOK(v), Open(v) = Open(w),
         v.recent = w.recent, v.active = w.active, v.onScreen = w.onScreen,
         v.twoWindows = w.twoWindows, v.blinking = w.blinking,
         \A id \in Open(w) : /\ v.panes[id].number = w.panes[id].number
                             /\ v.panes[id].unseen = w.panes[id].unseen
                             /\ InHand(v.panes[id].transfer)
  PROVE  Sound(v, most) /\ (InView(w) => InView(v))
BY DEF Sound, NumbersDiffer, Blinks, InView, EachOnce

\* Asking for one more neither loses a session nor opens one too many.
LEMMA SessionAskedFor ==
  ASSUME course \in Courses, NEW s, Settled(s, course.most), NEW kept \in BOOLEAN
  PROVE  /\ Settled(OpenSession(s, kept), course.most)
         /\ OpenSession(s, kept).ws.panes = s.ws.panes
         /\ OpenSession(s, kept).ws.nextId = s.ws.nextId
<1> DEFINE w == s.ws
           u == OpenSession(s, kept)
<1>1. /\ WorkspaceOK(w) /\ Sound(w, course.most) /\ OneAtATime(w, s.attempts, course.most)
      /\ s = [ws |-> w, attempts |-> s.attempts]
  BY DEF Settled, Sound
<1>2. Cardinality(Open(w)) \in Nat
  BY <1>1, OpenFinite
<1>3. CASE Full(w)
  <2> DEFINE v == [w EXCEPT !.toOpen = 0]
  <2>1. u = [ws |-> v, attempts |-> s.attempts]
    BY <1>1, <1>3 DEF OpenSession
  <2>2. /\ WorkspaceOK(v) /\ v.panes = w.panes /\ v.nextId = w.nextId /\ v.opening = w.opening
        /\ v.recent = w.recent /\ v.active = w.active /\ v.onScreen = w.onScreen
        /\ v.twoWindows = w.twoWindows /\ v.blinking = w.blinking
    BY <1>1 DEF WorkspaceOK, Open
  <2> HIDE DEF v
  <2>3. Open(v) = Open(w)
    BY <2>2 DEF Open
  <2>4. Sound(v, course.most) /\ (InView(w) => InView(v))
    BY <1>1, <2>2, <2>3, LooksTheSame DEF Sound
  <2>5. OneAtATime(v, s.attempts, course.most)
    BY <1>1, <2>2, <2>3 DEF OneAtATime
  <2> QED
    BY <2>1, <2>2, <2>3, <2>4, <2>5 DEF Settled
<1>4. CASE ~Full(w) /\ Busy(w)
  BY <1>4 DEF OpenSession
<1>5. CASE ~Full(w) /\ ~Busy(w)
  <2> DEFINE v == [w EXCEPT !.opening = TRUE]
             one == [for |-> 0, from |-> FreeNumber(w), kept |-> kept]
  <2>1. u = [ws |-> v, attempts |-> Append(s.attempts, one)]
    BY <1>5 DEF OpenSession
  <2>2. /\ WorkspaceOK(v) /\ v.panes = w.panes /\ v.nextId = w.nextId /\ v.opening = TRUE
        /\ v.recent = w.recent /\ v.active = w.active /\ v.onScreen = w.onScreen
        /\ v.twoWindows = w.twoWindows /\ v.blinking = w.blinking
    BY <1>1 DEF WorkspaceOK, Open
  <2>3. Cardinality(Open(w)) < course.most
    BY <1>2, <1>5, CourseType DEF Full
  <2>4. FreeNumber(w) \in 1 .. 4
    BY <1>1, <2>3, CourseType, NumberIsFree
  <2>5. one \in Attempts /\ one.for = 0
    BY <2>4 DEF Attempts
  <2>6. s.attempts \in Seq(Attempts) /\ Len(s.attempts) = 0
    BY <1>1, <1>5 DEF OneAtATime, Busy
  <2> HIDE DEF v, one
  <2>7. /\ Append(s.attempts, one) \in Seq(Attempts) /\ Len(Append(s.attempts, one)) = 1
        /\ Append(s.attempts, one)[1] = one
    BY <2>5, <2>6
  <2>8. Open(v) = Open(w) /\ 0 \notin Open(w)
    BY <1>1, <2>2 DEF Open, WorkspaceOK
  <2>9. Sound(v, course.most) /\ (InView(w) => InView(v))
    BY <1>1, <2>2, <2>8, LooksTheSame DEF Sound
  <2>10. OneAtATime(v, Append(s.attempts, one), course.most)
    BY <2>2, <2>3, <2>5, <2>7, <2>8 DEF OneAtATime
  <2> QED
    BY <2>1, <2>2, <2>8, <2>9, <2>10 DEF Settled
<1> QED
  BY <1>3, <1>4, <1>5

\* With no connection being opened and room for a session more.
HasPlace(s) ==
  /\ course \in Courses /\ s = [ws |-> s.ws, attempts |-> <<>>]
  /\ Sound(s.ws, course.most) /\ EachOnce(s.ws) /\ s.ws.opening = FALSE
  /\ Cardinality(Open(s.ws)) < course.most

OneMore(w, t) ==
  /\ Settled(t, course.most) /\ AllStay(w, t.ws)
  /\ Open(t.ws) = Open(w) \cup {w.nextId} /\ t.ws.nextId = w.nextId + 1

\* A connected session is given a pane of its own, beside the others.
LEMMA SessionAdded ==
  ASSUME NEW s, HasPlace(s), NEW number \in (1 .. 4) \ Numbers(s.ws),
         NEW from \in 1 .. 4, NEW kept \in BOOLEAN
  PROVE  OneMore(s.ws, AddNumberedSession(s, number, from, kept))
<1> DEFINE w == s.ws
           id == w.nextId
           new == Pane(number, from, kept)
           panes == [other \in Open(w) \cup {id} |-> IF other = id THEN new ELSE w.panes[other]]
           added == [w EXCEPT !.nextId = @ + 1, !.panes = panes]
           shown == ActivateSession(added, id)
           next == [shown EXCEPT !.toOpen = @ - 1]
           t == AddNumberedSession(s, number, from, kept)
<1> USE DEF HasPlace
<1>1. WorkspaceOK(w) /\ Sound(w, course.most) /\ id \in Nat \ {0} /\ id \notin Open(w)
  BY DEF Sound, WorkspaceOK
<1>2. IsFiniteSet(Open(w)) /\ Cardinality(Open(w)) \in Nat
  BY <1>1, OpenFinite
<1>3. /\ new \in Panes /\ new.number = number /\ new.unseen = FALSE
      /\ InHand(new.transfer)
  BY DEF Pane, Panes, NoTransfer, Transfers, InHand, Running
<1> HIDE DEF new
<1>4. /\ Open(added) = Open(w) \cup {id} /\ added.nextId = id + 1
      /\ added.panes[id] = new
      /\ \A other \in Open(w) : added.panes[other] = w.panes[other]
      /\ added.recent = w.recent /\ added.onScreen = w.onScreen
      /\ added.blinking = w.blinking /\ added.opening = FALSE /\ added.toOpen = w.toOpen
  BY <1>1 DEF WorkspaceOK, Open
<1>5. added.panes \in [Open(added) -> Panes]
  BY <1>1, <1>3, <1>4 DEF WorkspaceOK
<1>6. WorkspaceOK(added)
  <2>1. added \in [panes : {added.panes}, active : Nat, nextId : Nat \ {0}, recent : Seq(Nat),
                   onScreen : SUBSET Nat, twoWindows : BOOLEAN, blinking : BOOLEAN,
                   opening : BOOLEAN, toOpen : Nat]
    <3>1. id + 1 \in Nat \ {0}
      BY <1>1
    <3> HIDE DEF panes
    <3> QED
      BY <1>1, <3>1 DEF WorkspaceOK
  <2> HIDE DEF added
  <2>2. Open(added) \subseteq 1 .. added.nextId - 1
    BY <1>1, <1>4 DEF WorkspaceOK
  <2> QED
    BY <1>5, <2>1, <2>2 DEF WorkspaceOK
<1> HIDE DEF added
<1>7. Sound(added, course.most)
  <2>1. Cardinality(Open(added)) = Cardinality(Open(w)) + 1
    BY <1>1, <1>2, <1>4, FS_AddElement, ZenonT(60)
  <2>2. Cardinality(Open(added)) <= course.most
    BY <1>2, <2>1, CourseType
  <2>3. NumbersDiffer(added)
    <3>1. added.panes[id].number = number
      BY <1>3, <1>4
    <3>2. \A other \in Open(w) : added.panes[other].number = w.panes[other].number
                                 /\ w.panes[other].number # number
      BY <1>4 DEF Numbers
    <3> QED
      BY <1>1, <1>4, <3>1, <3>2 DEF NumbersDiffer, Sound
  <2>4. Blinks(added)
    BY <1>1, <1>3, <1>4 DEF Blinks, Sound
  <2>5. \A other \in Open(added) : InHand(added.panes[other].transfer)
    BY <1>1, <1>3, <1>4 DEF Sound
  <2> QED
    BY <1>6, <2>2, <2>3, <2>4, <2>5 DEF Sound
<1>8. AllStay(w, added) /\ added.recent \in Seq(Nat)
  BY <1>1, <1>4 DEF AllStay, SamePane, WorkspaceOK
<1>9. Sound(shown, course.most) /\ InView(shown) /\ SameSessions(added, shown)
  <2>1. Distinct(added.recent) /\ Range(added.recent) \cup {id} = Open(added)
    BY <1>4 DEF EachOnce, Distinct
  <2> QED
    BY <1>4, <1>7, <2>1, CourseType, ActivateSound
<1>10. /\ t = IF shown.toOpen = 0 THEN [s EXCEPT !.ws = shown]
              ELSE OpenSession([s EXCEPT !.ws = next], course.own)
  BY DEF AddNumberedSession, NextId, added, panes, new
<1> HIDE DEF shown
<1>11. AllStay(w, shown) /\ Open(shown) = Open(w) \cup {id} /\ shown.nextId = id + 1
  BY <1>4, <1>8, <1>9 DEF AllStay, SameSessions, SamePane
<1>12. \A v : Sound(v, course.most) /\ v.opening = FALSE /\ InView(v)
                => Settled([s EXCEPT !.ws = v], course.most)
  <2> TAKE v
  <2> HAVE Sound(v, course.most) /\ v.opening = FALSE /\ InView(v)
  <2> DEFINE u == [s EXCEPT !.ws = v]
  <2>1. u = [ws |-> v, attempts |-> <<>>]
    OBVIOUS
  <2>2. OneAtATime(v, <<>>, course.most)
    BY DEF OneAtATime
  <2> QED
    BY <2>1, <2>2 DEF Settled
<1>13. WorkspaceOK(shown) /\ shown.opening = FALSE
  BY <1>4, <1>9 DEF Sound, SameSessions
<1>14. CASE shown.toOpen = 0
  <2>1. t = [ws |-> shown, attempts |-> <<>>] /\ Settled(t, course.most)
    BY <1>9, <1>10, <1>12, <1>13, <1>14
  <2> QED
    BY <2>1, <1>11 DEF OneMore
<1>15. CASE shown.toOpen # 0
  <2>1. /\ WorkspaceOK(next) /\ next.panes = shown.panes /\ next.nextId = shown.nextId
        /\ next.opening = FALSE
        /\ next.recent = shown.recent /\ next.active = shown.active /\ next.onScreen = shown.onScreen
        /\ next.twoWindows = shown.twoWindows /\ next.blinking = shown.blinking
    <3>1. shown.toOpen - 1 \in Nat
      BY <1>13, <1>15 DEF WorkspaceOK
    <3> QED
      BY <1>13, <3>1 DEF WorkspaceOK, Open
  <2> HIDE DEF next
  <2>2. Sound(next, course.most) /\ InView(next)
    BY <1>9, <2>1, LooksTheSame DEF Sound, Open
  <2>3. [s EXCEPT !.ws = next].ws = next
    OBVIOUS
  <2>4. /\ Settled(t, course.most) /\ t.ws.panes = next.panes /\ t.ws.nextId = next.nextId
    BY <1>10, <1>12, <1>15, <2>1, <2>2, <2>3, CourseType, SessionAskedFor
  <2> QED
    BY <1>11, <2>1, <2>4 DEF AllStay, Open, OneMore
<1> QED
  BY <1>14, <1>15

(***************************************************************************)
(* The inductive invariant, and what a step may never do.                  *)
(***************************************************************************)

IInv ==
  /\ TypeOK /\ Settled(Now, course.most)
  /\ \A id \in notices \cap Open(ws) : ws.panes[id].ended
  /\ window = "connecting" => ws = NoSessions /\ attempts = <<>>

\* A step takes no line from a transfer and no live session from the window.
LaterKept ==
  /\ \A id \in Open(ws) \cap Open(ws') :
       WantsLine(ws.panes[id].transfer) => ws'.panes[id].transfer.slot # "none"
  /\ \A id \in Open(ws) :
       ~ws.panes[id].ended /\ window' = "open" =>
         \/ id \in Open(ws') /\ (ws'.panes[id].ended => id \in notices')
         \/ id = ws.active /\ Cardinality(Open(ws)) > 1

LEMMA LaterKeptIfAllStay ==
  ASSUME AllStay(ws, ws') PROVE LaterKept
BY DEF AllStay, SamePane, LaterKept, WantsLine, Running

LEMMA WhatHolds ==
  ASSUME IInv
  PROVE  /\ course \in Courses /\ course.most \in Nat /\ course.most > 0
         /\ Sound(ws, course.most) /\ WorkspaceOK(ws)
         /\ OneAtATime(ws, attempts, course.most)
         /\ IsFiniteSet(Open(ws)) /\ Cardinality(Open(ws)) \in Nat
         /\ Up => Open(ws) # {} /\ InView(ws) /\ EachOnce(ws)
         /\ notices \subseteq 1 .. ws.nextId - 1
         /\ strays \in Nat /\ transfers \in 0 .. course.transfers
<1>1. course \in Courses /\ Settled(Now, course.most)
  BY DEF IInv, TypeOK
<1>2. Sound(ws, course.most) /\ WorkspaceOK(ws) /\ OneAtATime(ws, attempts, course.most)
  BY <1>1 DEF Settled, Now, Sound
<1>3. Up => Open(ws) # {} /\ InView(ws)
  BY <1>1 DEF IInv, TypeOK, Up, Settled, Now
<1> QED
  BY <1>1, <1>2, <1>3, CourseType, OpenFinite DEF InView, IInv, TypeOK

\* What is left to show of a step that ends in a settled workspace.
LEMMA Onward ==
  ASSUME IInv, NEW t, Becomes(t), Settled(t, course.most), course' = course,
         strays' \in Nat, transfers' \in 0 .. course.transfers,
         notices' \subseteq 1 .. t.ws.nextId - 1,
         \A id \in notices' \cap Open(t.ws) : t.ws.panes[id].ended
  PROVE  IInv'
<1>1. ws' = t.ws /\ attempts' = t.attempts /\ course' \in Courses
  BY DEF Becomes, Shows, IInv, TypeOK
<1>2. Now' = t
  BY <1>1 DEF Now, Settled
<1>3. Settled(Now, course.most)'
  BY <1>2
<1>4. /\ window' \in {"open", "closed"}
      /\ (window' = "open") = (Open(ws') # {})
  BY <1>1 DEF Becomes, Shows
<1>5. WorkspaceOK(ws') /\ attempts' \in Seq(Attempts)
  BY <1>1 DEF Settled, Sound, OneAtATime
<1>6. TypeOK'
  BY <1>1, <1>4, <1>5 DEF TypeOK
<1> QED
  BY <1>1, <1>3, <1>4, <1>6 DEF IInv

\* A connection being opened is still one there is room for.
LEMMA AttemptsKept ==
  ASSUME NEW v, NEW w, NEW a, NEW most \in Nat, WorkspaceOK(v), OneAtATime(v, a, most),
         Open(w) \subseteq Open(v), w.opening = v.opening,
         \A id \in Open(w) : v.panes[id].ended => w.panes[id].ended
  PROVE  OneAtATime(w, a, most)
<1>1. IsFiniteSet(Open(v)) /\ Cardinality(Open(v)) \in Nat
  BY OpenFinite
<1>2. Cardinality(Open(w)) <= Cardinality(Open(v)) /\ Cardinality(Open(w)) \in Nat
  BY <1>1, FS_Subset, FS_CardinalityType
<1> QED
  BY <1>1, <1>2 DEF OneAtATime

\* A step of the sessions there are, with nothing asked of the connections
\* being opened.
LEMMA OnwardHere ==
  ASSUME IInv, NEW w, Shows(w), Sound(w, course.most), Open(w) # {} => InView(w),
         Open(w) \subseteq Open(ws), w.opening = ws.opening, w.nextId = ws.nextId,
         \A id \in Open(w) : ws.panes[id].ended => w.panes[id].ended,
         UNCHANGED <<course, attempts, strays>>, transfers' \in 0 .. course.transfers,
         notices' \subseteq 1 .. ws.nextId - 1,
         \A id \in notices' \cap Open(w) : w.panes[id].ended
  PROVE  IInv'
<1> DEFINE t == [ws |-> w, attempts |-> attempts]
<1>1. OneAtATime(w, attempts, course.most)
  BY WhatHolds, AttemptsKept
<1>2. Settled(t, course.most) /\ Becomes(t) /\ t.ws = w
  BY <1>1 DEF Settled, Becomes
<1> HIDE DEF t
<1> QED
  BY <1>2, WhatHolds, Onward

\* A step that changes no session but what is seen of it.
LEMMA OnlySeen ==
  ASSUME IInv, NEW w, Shows(w), Sound(w, course.most), Open(w) # {} => InView(w),
         SameSessions(ws, w), UNCHANGED <<course, attempts, notices, strays, transfers>>
  PROVE  IInv' /\ LaterKept
<1>1. Open(w) = Open(ws) /\ \A id \in Open(w) : w.panes[id].ended = ws.panes[id].ended
  BY DEF SameSessions, SamePane
<1>2. IInv'
  BY <1>1, OnwardHere, WhatHolds DEF SameSessions, IInv
<1>3. AllStay(ws, ws')
  BY DEF SameSessions, AllStay, Shows
<1> QED
  BY <1>2, <1>3, LaterKeptIfAllStay

\* A pane that changes.
LEMMA PaneSet ==
  ASSUME NEW w, WorkspaceOK(w), NEW id \in Open(w), NEW p \in Panes
  PROVE  LET v == [w EXCEPT !.panes[id] = p]
         IN  /\ WorkspaceOK(v) /\ Open(v) = Open(w) /\ v.panes[id] = p
             /\ \A other \in Open(w) : other # id => v.panes[other] = w.panes[other]
             /\ v.recent = w.recent /\ v.active = w.active /\ v.onScreen = w.onScreen
             /\ v.twoWindows = w.twoWindows /\ v.blinking = w.blinking
             /\ v.opening = w.opening /\ v.nextId = w.nextId /\ v.toOpen = w.toOpen
<1> DEFINE v == [w EXCEPT !.panes[id] = p]
<1>1. v.panes = [w.panes EXCEPT ![id] = p]
  BY DEF WorkspaceOK
<1>2. /\ v \in [panes : {v.panes}, active : Nat, nextId : Nat \ {0}, recent : Seq(Nat),
                onScreen : SUBSET Nat, twoWindows : BOOLEAN, blinking : BOOLEAN,
                opening : BOOLEAN, toOpen : Nat]
      /\ v.recent = w.recent /\ v.active = w.active /\ v.onScreen = w.onScreen
      /\ v.twoWindows = w.twoWindows /\ v.blinking = w.blinking
      /\ v.opening = w.opening /\ v.nextId = w.nextId /\ v.toOpen = w.toOpen
  BY DEF WorkspaceOK
<1> HIDE DEF v
<1>3. /\ Open(v) = Open(w) /\ v.panes[id] = p /\ v.panes \in [Open(v) -> Panes]
      /\ \A other \in Open(w) : other # id => v.panes[other] = w.panes[other]
  BY <1>1 DEF WorkspaceOK, Open
<1> QED
  BY <1>2, <1>3 DEF v, WorkspaceOK

\* A transfer that changes, in the session it is of.
LEMMA TransferSet ==
  ASSUME IInv, Up, NEW id \in Open(ws), NEW t \in Transfers, InHand(t), Transferring(id, t),
         WantsLine(ws.panes[id].transfer) => t.slot # "none",
         transfers' \in 0 .. course.transfers
  PROVE  IInv' /\ LaterKept
<1> DEFINE p == [ws.panes[id] EXCEPT !.transfer = t]
           w == [ws EXCEPT !.panes[id] = p]
<1>1. WorkspaceOK(ws) /\ ws.panes[id] \in Panes
  BY WhatHolds DEF WorkspaceOK
<1>2. /\ p \in Panes /\ p.transfer = t /\ p.ended = ws.panes[id].ended
      /\ p.number = ws.panes[id].number /\ p.unseen = ws.panes[id].unseen
  BY <1>1 DEF Panes
<1>3. w = [ws EXCEPT !.panes[id].transfer = t]
  BY <1>1 DEF WorkspaceOK
<1>4. Shows(w) /\ UNCHANGED <<course, attempts, notices, strays>>
  BY <1>3 DEF Transferring
<1> HIDE DEF p
<1>5. /\ WorkspaceOK(w) /\ Open(w) = Open(ws) /\ w.panes[id] = p
      /\ \A other \in Open(ws) : other # id => w.panes[other] = ws.panes[other]
      /\ w.recent = ws.recent /\ w.active = ws.active /\ w.onScreen = ws.onScreen
      /\ w.twoWindows = ws.twoWindows /\ w.blinking = ws.blinking
      /\ w.opening = ws.opening /\ w.nextId = ws.nextId
  BY <1>1, <1>2, PaneSet
<1> HIDE DEF w
<1>6. \A other \in Open(ws) : /\ w.panes[other].number = ws.panes[other].number
                              /\ w.panes[other].unseen = ws.panes[other].unseen
                              /\ w.panes[other].ended = ws.panes[other].ended
                              /\ InHand(w.panes[other].transfer)
  BY <1>2, <1>5, WhatHolds DEF Sound
<1>7. Sound(w, course.most) /\ InView(w)
  BY <1>5, <1>6, WhatHolds, LooksTheSame
<1>8. IInv'
  BY <1>4, <1>5, <1>6, <1>7, OnwardHere, WhatHolds DEF IInv
<1>9. LaterKept
  <2>1. ws' = w /\ Open(w) = Open(ws)
    BY <1>4, <1>5 DEF Shows
  <2>2. \A other \in Open(ws) :
          WantsLine(ws.panes[other].transfer) => w.panes[other].transfer.slot # "none"
    BY <1>2, <1>5 DEF WantsLine, Running
  <2> QED
    BY <2>1, <2>2, <1>6 DEF LaterKept
<1> QED
  BY <1>8, <1>9

(***************************************************************************)
(* The handlers, one by one.                                               *)
(***************************************************************************)

LEMMA FirstConnectedKeeps == ASSUME IInv, FirstConnected PROVE IInv' /\ LaterKept
<1> DEFINE t == AddSession(Now, 1, course.own)
           u == OpenMore(t, course.sessions - 1)
<1>1. /\ ws = NoSessions /\ attempts = <<>> /\ course \in Courses /\ course.most \in 0 .. 4
      /\ course.most > 0 /\ course.own \in BOOLEAN /\ course.sessions \in 1 .. 4
      /\ course.most \in Nat
  BY CourseType DEF IInv, TypeOK, FirstConnected
<1>2. Open(ws) = {} /\ ws.opening = FALSE /\ ws.recent = <<>> /\ ws.nextId = 1
  BY <1>1 DEF NoSessions, Open
<1>3. Sound(ws, course.most) /\ EachOnce(ws) /\ Cardinality(Open(ws)) < course.most
  BY <1>1, <1>2, WhatHolds, FS_EmptySet DEF EachOnce, Range
<1>4. FreeNumber(ws) \in (1 .. 4) \ Numbers(ws)
  BY <1>1, <1>3, NumberIsFree
<1>5. /\ Settled(t, course.most) /\ Open(t.ws) = {1} /\ t.ws.nextId = 2
  <2> DEFINE n == FreeNumber(ws)
  <2>1. t = AddNumberedSession(Now, n, 1, course.own)
    BY DEF AddSession, Now
  <2>2. Now = [ws |-> Now.ws, attempts |-> <<>>] /\ Now.ws = ws
    BY <1>1 DEF Now
  <2> HIDE DEF n, t
  <2>3. n \in (1 .. 4) \ Numbers(ws)
    BY <1>4 DEF n
  <2>4. /\ Sound(Now.ws, course.most) /\ EachOnce(Now.ws) /\ Now.ws.opening = FALSE
        /\ Cardinality(Open(Now.ws)) < course.most /\ n \in (1 .. 4) \ Numbers(Now.ws)
    BY <1>2, <1>3, <2>2, <2>3, Zenon
  <2> 1 \in 1 .. 4
    OBVIOUS
  <2>5. HasPlace(Now)
    BY <1>1, <2>2, <2>4 DEF HasPlace
  <2>6. OneMore(Now.ws, t)
    BY <1>1, <2>1, <2>4, <2>5, SessionAdded
  <2> QED
    BY <1>2, <2>2, <2>6 DEF OneMore
<1> HIDE DEF t
<1>6. Settled(u, course.most) /\ Open(u.ws) = {1} /\ u.ws.nextId = 2
  <2> DEFINE n == course.sessions - 1
  <2>1. u = IF n = 0 THEN t ELSE OpenSession([t EXCEPT !.ws.toOpen = n - 1], course.own)
    BY DEF OpenMore
  <2>2. CASE n = 0
    BY <2>1, <2>2, <1>5
  <2>3. CASE n # 0
    <3> DEFINE v == [t.ws EXCEPT !.toOpen = n - 1]
               s == [ws |-> v, attempts |-> t.attempts]
    <3>1. n - 1 \in Nat
      BY <1>1, <2>3
    <3>2. WorkspaceOK(t.ws) /\ Sound(t.ws, course.most) /\ t = [ws |-> t.ws, attempts |-> t.attempts]
      BY <1>5 DEF Settled, Sound
    <3>3. [t EXCEPT !.ws.toOpen = n - 1] = s
      BY <3>2
    <3>4. /\ WorkspaceOK(v) /\ v.panes = t.ws.panes /\ v.nextId = t.ws.nextId
          /\ v.opening = t.ws.opening /\ v.recent = t.ws.recent /\ v.active = t.ws.active
          /\ v.onScreen = t.ws.onScreen /\ v.twoWindows = t.ws.twoWindows
          /\ v.blinking = t.ws.blinking
      BY <3>1, <3>2 DEF WorkspaceOK, Open
    <3>5. u = OpenSession(s, course.own)
      BY <2>1, <2>3, <3>3
    <3> HIDE DEF v, n
    <3>6. Open(v) = Open(t.ws)
      BY <3>4 DEF Open
    <3>7. Sound(v, course.most) /\ (InView(t.ws) => InView(v))
      BY <3>2, <3>4, <3>6, LooksTheSame DEF Sound
    <3>8. OneAtATime(v, t.attempts, course.most)
      BY <1>5, <3>4, <3>6 DEF Settled, OneAtATime
    <3>9. Settled(s, course.most) /\ s.ws = v
      BY <1>5, <3>6, <3>7, <3>8 DEF Settled
    <3> HIDE DEF s, u
    <3>10. Settled(u, course.most) /\ u.ws.panes = v.panes /\ u.ws.nextId = v.nextId
      BY <1>1, <3>5, <3>9, SessionAskedFor
    <3> QED
      BY <3>4, <3>10, <1>5 DEF Open
  <2> QED
    BY <2>2, <2>3
<1>7. Becomes(u) /\ UNCHANGED <<course, notices, strays, transfers>>
  BY DEF FirstConnected, t
<1> HIDE DEF u
<1>8. notices = {}
  BY <1>2, WhatHolds
<1>9. IInv'
  BY <1>6, <1>7, <1>8, WhatHolds, Onward
<1>10. LaterKept
  BY <1>2 DEF LaterKept
<1> QED
  BY <1>9, <1>10

LEMMA FirstFailedKeeps == ASSUME IInv, FirstFailed PROVE IInv' /\ LaterKept
<1>1. window' = "failed" /\ UNCHANGED <<course, ws, attempts, notices, strays, transfers>>
  BY DEF FirstFailed
<1>2. Open(ws) = {}
  BY DEF IInv, TypeOK, FirstFailed
<1>3. IInv'
  BY <1>1, <1>2 DEF IInv, TypeOK, Now
<1> QED
  BY <1>2, <1>3 DEF LaterKept

\* A step that adds no session, and asks for a connection.
LEMMA AsksOnly ==
  ASSUME IInv, NEW t, Becomes(t), Settled(t, course.most), Open(t.ws) = Open(ws),
         t.ws.nextId = ws.nextId, \A id \in Open(ws) : SamePane(ws.panes[id], t.ws.panes[id]),
         UNCHANGED <<course, notices, strays, transfers>>
  PROVE  IInv' /\ LaterKept
<1>1. \A id \in notices' \cap Open(t.ws) : t.ws.panes[id].ended
  BY DEF IInv, SamePane
<1>2. IInv'
  BY <1>1, WhatHolds, Onward
<1>3. AllStay(ws, ws')
  BY DEF AllStay, Becomes, Shows
<1> QED
  BY <1>2, <1>3, LaterKeptIfAllStay

LEMMA NewSessionKeeps == ASSUME IInv, NewSession PROVE IInv' /\ LaterKept
<1>1. PICK kept \in course.kept : Becomes(OpenSession(Now, kept))
  BY DEF NewSession
<1> DEFINE t == OpenSession(Now, kept)
<1>2. course \in Courses /\ kept \in BOOLEAN /\ Settled(Now, course.most) /\ Now.ws = ws
  BY WhatHolds, CourseType DEF IInv, Now
<1>3. Settled(t, course.most) /\ t.ws.panes = ws.panes /\ t.ws.nextId = ws.nextId
  BY <1>2, SessionAskedFor
<1>4. Becomes(t) /\ UNCHANGED <<course, notices, strays, transfers>>
  BY <1>1 DEF NewSession
<1> HIDE DEF t
<1> QED
  BY <1>3, <1>4, AsksOnly DEF Open, SamePane

LEMMA ReturnKeeps == ASSUME IInv, Return PROVE IInv' /\ LaterKept
<1> DEFINE id == ws.active
           p == [ws.panes[id] EXCEPT !.status = "Reconnecting"]
           v == [ws EXCEPT !.panes[id] = p]
           w == [v EXCEPT !.opening = TRUE]
           one == [for |-> id, from |-> ws.panes[id].number, kept |-> ws.panes[id].kept]
           t == [ws |-> w, attempts |-> Append(attempts, one)]
<1>1. /\ WorkspaceOK(ws) /\ Sound(ws, course.most) /\ OneAtATime(ws, attempts, course.most)
      /\ InView(ws) /\ UNCHANGED <<course, notices, strays, transfers>>
      /\ Open(ws) # {} /\ ws.panes[id].ended
      /\ Becomes(Reconnect(Now, id)) /\ Settled(Now, course.most)
  BY WhatHolds DEF Return, IInv
<1>2. CASE id \notin Open(ws) \/ Busy(ws)
  <2>1. Reconnect(Now, id) = Now /\ Now.ws = ws
    BY <1>2 DEF Reconnect, Now
  <2> QED
    BY <1>1, <2>1, AsksOnly DEF SamePane
<1>3. CASE id \in Open(ws) /\ ~Busy(ws)
  <2>1. /\ ws.panes[id] \in Panes /\ p \in Panes /\ SamePane(ws.panes[id], p)
        /\ p.unseen = ws.panes[id].unseen
    BY <1>1, <1>3 DEF WorkspaceOK, Panes, SamePane
  <2>2. t = Reconnect(Now, id)
    <3>1. Now.ws = ws /\ Now.attempts = attempts
      BY DEF Now
    <3>2. w = [ws EXCEPT !.opening = TRUE, !.panes[id].status = "Reconnecting"]
      BY <1>1 DEF WorkspaceOK
    <3> QED
      BY <1>3, <3>1, <3>2 DEF Reconnect
  <2> HIDE DEF p
  <2>3. /\ WorkspaceOK(v) /\ Open(v) = Open(ws) /\ v.panes[id] = p
        /\ \A other \in Open(ws) : other # id => v.panes[other] = ws.panes[other]
        /\ v.recent = ws.recent /\ v.active = ws.active /\ v.onScreen = ws.onScreen
        /\ v.twoWindows = ws.twoWindows /\ v.blinking = ws.blinking
        /\ v.opening = ws.opening /\ v.nextId = ws.nextId
    BY <1>1, <1>3, <2>1, PaneSet
  <2> HIDE DEF v
  <2>4. /\ WorkspaceOK(w) /\ w.panes = v.panes /\ w.nextId = v.nextId /\ w.opening = TRUE
        /\ w.recent = v.recent /\ w.active = v.active /\ w.onScreen = v.onScreen
        /\ w.twoWindows = v.twoWindows /\ w.blinking = v.blinking
    BY <2>3 DEF WorkspaceOK, Open
  <2> HIDE DEF w
  <2>5. Open(w) = Open(ws)
    BY <2>3, <2>4 DEF Open
  <2>6. \A other \in Open(ws) : /\ SamePane(ws.panes[other], w.panes[other])
                                /\ w.panes[other].unseen = ws.panes[other].unseen
    BY <2>1, <2>3, <2>4 DEF SamePane
  <2>7. Sound(w, course.most) /\ InView(w)
    BY <1>1, <2>3, <2>4, <2>5, <2>6, LooksTheSame DEF Sound, SamePane
  <2>8. one \in Attempts /\ one.for = id /\ id # 0
    <3>1. id \in Nat /\ id # 0
      BY <1>1, <1>3 DEF WorkspaceOK
    <3>2. ws.panes[id].number \in 1 .. 4 /\ ws.panes[id].kept \in BOOLEAN
      BY <2>1 DEF Panes
    <3> QED
      BY <3>1, <3>2 DEF Attempts
  <2> HIDE DEF one
  <2>9. /\ Append(attempts, one) \in Seq(Attempts) /\ Len(Append(attempts, one)) = 1
        /\ Append(attempts, one)[1] = one
    BY <1>1, <1>3, <2>8 DEF OneAtATime, Busy
  <2>10. w.panes[id].ended
    BY <1>1, <1>3, <2>6 DEF SamePane
  <2>11. OneAtATime(w, Append(attempts, one), course.most)
    BY <2>4, <2>8, <2>9, <2>10 DEF OneAtATime
  <2>12. Settled(t, course.most) /\ t.ws = w
    BY <2>7, <2>11 DEF Settled
  <2> HIDE DEF t
  <2> QED
    BY <1>1, <2>2, <2>3, <2>4, <2>5, <2>6, <2>12, AsksOnly
<1> QED
  BY <1>2, <1>3

\* There is one connection being opened, and when it is none is.
LEMMA TheAttempt ==
  ASSUME IInv, NEW i \in DOMAIN attempts
  PROVE  /\ i = 1 /\ Len(attempts) = 1 /\ ws.opening /\ RemoveAt(attempts, i) = <<>>
         /\ attempts[i] \in Attempts
         /\ attempts[i].for = 0 => Cardinality(Open(ws)) < course.most
         /\ attempts[i].for \in Open(ws) => ws.panes[attempts[i].for].ended
<1>1. OneAtATime(ws, attempts, course.most)
  BY WhatHolds
<1>2. /\ attempts \in Seq(Attempts) /\ i = 1 /\ Len(attempts) = 1 /\ ws.opening
  BY <1>1 DEF OneAtATime
<1>3. RemoveAt(attempts, i) \in Seq(Attempts) /\ Len(RemoveAt(attempts, i)) = Len(attempts) - 1
  <2>1. i \in 1 .. Len(attempts)
    BY <1>2
  <2> QED
    BY <1>2, <2>1, RemoveAtPlace, Zenon
<1>4. RemoveAt(attempts, i) = <<>>
  BY <1>2, <1>3, EmptySeq
<1> QED
  BY <1>1, <1>2, <1>4, SMTT(60) DEF OneAtATime

\* With none being opened the workspace is settled.
LEMMA NoneOpening ==
  ASSUME IInv, Up, NEW w, WorkspaceOK(w), w.opening = FALSE, Open(w) = Open(ws),
         w.recent = ws.recent, w.active = ws.active, w.onScreen = ws.onScreen,
         w.twoWindows = ws.twoWindows, w.blinking = ws.blinking,
         \A id \in Open(ws) : /\ SamePane(ws.panes[id], w.panes[id])
                              /\ w.panes[id].unseen = ws.panes[id].unseen
  PROVE  Settled([ws |-> w, attempts |-> <<>>], course.most)
<1>1. Sound(ws, course.most) /\ InView(ws)
  BY WhatHolds
<1>2. Sound(w, course.most) /\ InView(w)
  BY <1>1, LooksTheSame DEF Sound, SamePane
<1>3. OneAtATime(w, <<>>, course.most)
  BY DEF OneAtATime
<1> DEFINE t == [ws |-> w, attempts |-> <<>>]
<1>4. t.ws = w /\ t.attempts = <<>>
  OBVIOUS
<1> QED
  BY <1>2, <1>3, <1>4 DEF Settled

LEMMA ConnectedKeeps == ASSUME IInv, Connected PROVE IInv' /\ LaterKept
<1>1. PICK i \in DOMAIN attempts :
        LET a == attempts[i]
            s == [ws |-> [ws EXCEPT !.opening = FALSE], attempts |-> RemoveAt(attempts, i)]
        IN  /\ Becomes(IF a.for = 0 THEN AddSession(s, a.from, a.kept) ELSE Reconnected(s, a))
            /\ strays' = strays + (IF a.for # 0 /\ a.for \notin Open(ws) THEN 1 ELSE 0)
  BY DEF Connected
<1> DEFINE a == attempts[i]
           w == [ws EXCEPT !.opening = FALSE]
           s == [ws |-> w, attempts |-> <<>>]
           t == IF a.for = 0 THEN AddSession(s, a.from, a.kept) ELSE Reconnected(s, a)
<1>2. /\ RemoveAt(attempts, i) = <<>> /\ a \in Attempts
      /\ a.for = 0 => Cardinality(Open(ws)) < course.most
      /\ a.for \in Open(ws) => ws.panes[a.for].ended
  BY TheAttempt
<1>3. /\ course \in Courses /\ course.most \in Nat /\ course.most \in 0 .. 4
      /\ Sound(ws, course.most) /\ WorkspaceOK(ws) /\ InView(ws) /\ EachOnce(ws)
      /\ Up /\ notices \subseteq 1 .. ws.nextId - 1 /\ transfers \in 0 .. course.transfers
      /\ ws.nextId \in Nat \ {0}
  BY WhatHolds, CourseType DEF Connected, WorkspaceOK
<1>4. /\ Becomes(t) /\ strays' \in Nat /\ UNCHANGED <<course, notices, transfers>>
  BY <1>1, <1>2, WhatHolds DEF Connected
<1>5. /\ WorkspaceOK(w) /\ w.panes = ws.panes /\ w.opening = FALSE /\ w.nextId = ws.nextId
      /\ w.recent = ws.recent /\ w.active = ws.active /\ w.onScreen = ws.onScreen
      /\ w.twoWindows = ws.twoWindows /\ w.blinking = ws.blinking
  BY <1>3 DEF WorkspaceOK, Open
<1>6. a.for \in Nat /\ a.from \in 1 .. 4 /\ a.kept \in BOOLEAN
  BY <1>2 DEF Attempts
<1> HIDE DEF w
<1>7. Open(w) = Open(ws) /\ Numbers(w) = Numbers(ws) /\ EachOnce(w)
  BY <1>3, <1>5 DEF Open, Numbers, EachOnce
<1>8. Settled(s, course.most)
  BY <1>3, <1>5, <1>7, NoneOpening DEF SamePane
<1>9. s.ws = w /\ s.attempts = <<>> /\ s = [ws |-> s.ws, attempts |-> <<>>]
  OBVIOUS
<1>10. Sound(w, course.most)
  BY <1>8, <1>9 DEF Settled
<1> HIDE DEF s, a
\* What comes of it: a session more, and one that had ended fewer at most.
<1>11. SUFFICES /\ Settled(t, course.most) /\ t.ws.nextId \in {ws.nextId, ws.nextId + 1}
                /\ Open(t.ws) \subseteq Open(ws) \cup {ws.nextId}
                /\ \A id \in Open(ws) :
                     \/ id \in Open(t.ws) /\ SamePane(ws.panes[id], t.ws.panes[id])
                     \/ id \notin Open(t.ws) /\ ws.panes[id].ended
  <2> HIDE DEF t
  <2>1. notices' \subseteq 1 .. t.ws.nextId - 1
    BY <1>3, <1>4, <1>11
  <2>2. \A id \in notices' : id # ws.nextId
    BY <1>3, <1>4
  <2>3. \A id \in notices' \cap Open(t.ws) : t.ws.panes[id].ended
    BY <1>4, <1>11, <2>2 DEF IInv, SamePane
  <2>4. IInv'
    BY <1>3, <1>4, <1>11, <2>1, <2>3, Onward
  <2>5. ws' = t.ws
    BY <1>4 DEF Becomes, Shows
  <2>6. LaterKept
    BY <1>11, <2>5 DEF LaterKept, SamePane, WantsLine, Running
  <2> QED
    BY <2>4, <2>6
<1>12. CASE a.for = 0
  <2> DEFINE n == FreeNumber(w)
  <2>1. Cardinality(Open(w)) < course.most
    BY <1>2, <1>7, <1>12 DEF a
  <2>2. n \in (1 .. 4) \ Numbers(w)
    BY <1>3, <1>10, <2>1, NumberIsFree
  <2>3. t = AddNumberedSession(s, n, a.from, a.kept)
    BY <1>9, <1>12 DEF AddSession
  <2> HIDE DEF t, n
  <2>4. OneMore(w, t)
    <3>1. HasPlace(s) /\ n \in (1 .. 4) \ Numbers(s.ws)
      BY <1>3, <1>5, <1>7, <1>9, <1>10, <2>1, <2>2, Zenon DEF HasPlace
    <3>2. OneMore(s.ws, t)
      BY <1>6, <2>3, <3>1, SessionAdded
    <3> QED
      BY <3>2, <1>9, Zenon
  <2> QED
    BY <2>4, <1>5, <1>7 DEF AllStay, OneMore
<1>13. CASE a.for # 0 /\ a.for \notin Open(ws)
  <2>1. t = s
    BY <1>7, <1>9, <1>13 DEF Reconnected
  <2> HIDE DEF t
  <2> QED
    BY <2>1, <1>5, <1>7, <1>8, <1>9 DEF SamePane
<1>14. CASE a.for # 0 /\ a.for \in Open(ws)
  <2> DEFINE gone == w.panes[a.for]
             left == WithoutId(w, a.for)
             r == [ws |-> left, attempts |-> <<>>]
  <2>1. t = AddNumberedSession(r, gone.number, a.from, gone.kept)
    BY <1>7, <1>9, <1>14 DEF Reconnected, s
  <2>2. gone.ended /\ gone \in Panes
    BY <1>2, <1>5, <1>7, <1>14 DEF WorkspaceOK, a
  <2>3. gone.number \in 1 .. 4 /\ gone.kept \in BOOLEAN
    BY <2>2 DEF Panes
  <2>4. /\ Sound(left, course.most) /\ EachOnce(left) /\ Fewer(w, left)
        /\ Open(left) = Open(w) \ {a.for}
        /\ Cardinality(Open(left)) = Cardinality(Open(w)) - 1
    BY <1>3, <1>7, <1>10, <1>14, TakenOut
  <2> HIDE DEF t, left, gone
  <2>5. Cardinality(Open(left)) < course.most
    <3>1. Cardinality(Open(w)) \in Nat /\ Cardinality(Open(w)) <= course.most
      BY <1>5, <1>10, OpenFinite DEF Sound
    <3> QED
      BY <2>4, <3>1, <1>3
  <2>6. gone.number \notin Numbers(left)
    BY <1>7, <1>10, <1>14, <2>4 DEF Numbers, Sound, NumbersDiffer, Fewer, SamePane, gone
  <2>7. r.ws = left /\ r = [ws |-> r.ws, attempts |-> <<>>]
    OBVIOUS
  <2> HIDE DEF r
  <2>8. OneMore(left, t)
    <3>1. HasPlace(r) /\ gone.number \in (1 .. 4) \ Numbers(r.ws)
      BY <1>3, <1>5, <2>3, <2>4, <2>5, <2>6, <2>7 DEF Fewer, HasPlace
    <3>2. OneMore(r.ws, t)
      BY <1>6, <2>1, <2>3, <3>1, SessionAdded
    <3> QED
      BY <3>2, <2>7, Zenon
  <2>9. left.nextId = ws.nextId /\ ws.nextId \notin Open(ws)
    BY <1>3, <1>5, <2>4 DEF Fewer, WorkspaceOK
  <2>10. \A id \in Open(ws) : id # a.for =>
           id \in Open(t.ws) /\ SamePane(ws.panes[id], t.ws.panes[id])
    BY <1>5, <1>7, <2>4, <2>8 DEF Fewer, AllStay, SamePane, OneMore
  <2>11. a.for \notin Open(t.ws) /\ ws.panes[a.for].ended
    BY <1>2, <1>7, <1>14, <2>4, <2>8, <2>9 DEF a, OneMore
  <2> QED
    BY <1>7, <2>4, <2>8, <2>9, <2>10, <2>11 DEF OneMore
<1> QED
  BY <1>12, <1>13, <1>14

LEMMA CannotConnectKeeps == ASSUME IInv, CannotConnect PROVE IInv' /\ LaterKept
<1>1. PICK i \in DOMAIN attempts :
        LET for == attempts[i].for
            w == [ws EXCEPT !.opening = FALSE]
        IN  /\ Shows(IF for \in Open(w) THEN [w EXCEPT !.panes[for].status = "Disconnected"] ELSE w)
            /\ attempts' = RemoveAt(attempts, i)
  BY DEF CannotConnect
<1> DEFINE for == attempts[i].for
           w == [ws EXCEPT !.opening = FALSE]
           p == [w.panes[for] EXCEPT !.status = "Disconnected"]
           v == IF for \in Open(w) THEN [w EXCEPT !.panes[for] = p] ELSE w
           t == [ws |-> v, attempts |-> <<>>]
<1>2. WorkspaceOK(ws) /\ Up /\ UNCHANGED <<course, notices, strays, transfers>>
  BY WhatHolds DEF CannotConnect
<1>3. /\ WorkspaceOK(w) /\ w.panes = ws.panes /\ w.opening = FALSE /\ w.nextId = ws.nextId
      /\ w.recent = ws.recent /\ w.active = ws.active /\ w.onScreen = ws.onScreen
      /\ w.twoWindows = ws.twoWindows /\ w.blinking = ws.blinking
  BY <1>2 DEF WorkspaceOK, Open
<1>4. for \in Open(w) => [w EXCEPT !.panes[for].status = "Disconnected"] = [w EXCEPT !.panes[for] = p]
  BY <1>3 DEF WorkspaceOK
<1>5. Shows(v) /\ attempts' = <<>>
  BY <1>1, <1>4, TheAttempt
<1> HIDE DEF w, for
<1>6. Open(w) = Open(ws)
  BY <1>3 DEF Open
<1>7. for \in Open(w) => /\ p \in Panes /\ SamePane(w.panes[for], p)
                         /\ p.unseen = w.panes[for].unseen
  BY <1>3, ZenonT(60) DEF WorkspaceOK, Panes, SamePane
<1> HIDE DEF p
<1>8. /\ WorkspaceOK(v) /\ Open(v) = Open(ws) /\ v.opening = FALSE /\ v.nextId = ws.nextId
      /\ v.recent = ws.recent /\ v.active = ws.active /\ v.onScreen = ws.onScreen
      /\ v.twoWindows = ws.twoWindows /\ v.blinking = ws.blinking
      /\ \A id \in Open(ws) : /\ SamePane(ws.panes[id], v.panes[id])
                              /\ v.panes[id].unseen = ws.panes[id].unseen
  <2>1. CASE for \in Open(w)
    BY <1>3, <1>6, <1>7, <2>1, PaneSet DEF SamePane
  <2>2. CASE for \notin Open(w)
    BY <1>3, <1>6, <2>2 DEF SamePane
  <2> QED
    BY <2>1, <2>2
<1> HIDE DEF v
<1>9. Settled(t, course.most) /\ t.ws = v /\ t.attempts = <<>>
  BY <1>2, <1>8, NoneOpening
<1>10. Becomes(t)
  BY <1>5, <1>9 DEF Becomes
<1> HIDE DEF t
<1> QED
  BY <1>2, <1>8, <1>9, <1>10, AsksOnly

LEMMA HostGoneKeeps == ASSUME IInv, HostGone PROVE IInv' /\ LaterKept
<1>1. PICK id \in Open(ws) :
        /\ ~ws.panes[id].ended
        /\ ws' = [ws EXCEPT !.panes[id].ended = TRUE]
        /\ notices' = notices \cup {id}
  BY DEF HostGone
<1> DEFINE p == [ws.panes[id] EXCEPT !.ended = TRUE]
           w == [ws EXCEPT !.panes[id] = p]
<1>2. /\ WorkspaceOK(ws) /\ Sound(ws, course.most) /\ Up /\ window' = "open" /\ InView(ws)
      /\ UNCHANGED <<course, attempts, strays, transfers>>
  BY WhatHolds DEF HostGone, Up
<1>3. ws' = w
  BY <1>1, <1>2 DEF WorkspaceOK
<1>4. /\ p \in Panes /\ p.ended /\ p.transfer = ws.panes[id].transfer
      /\ p.number = ws.panes[id].number /\ p.unseen = ws.panes[id].unseen
  BY <1>1, <1>2 DEF WorkspaceOK, Panes
<1> HIDE DEF p
<1>5. /\ WorkspaceOK(w) /\ Open(w) = Open(ws) /\ w.panes[id] = p
      /\ \A other \in Open(ws) : other # id => w.panes[other] = ws.panes[other]
      /\ w.recent = ws.recent /\ w.active = ws.active /\ w.onScreen = ws.onScreen
      /\ w.twoWindows = ws.twoWindows /\ w.blinking = ws.blinking
      /\ w.opening = ws.opening /\ w.nextId = ws.nextId
  BY <1>1, <1>2, <1>4, PaneSet
<1> HIDE DEF w
<1>6. \A other \in Open(ws) : /\ w.panes[other].number = ws.panes[other].number
                              /\ w.panes[other].unseen = ws.panes[other].unseen
                              /\ w.panes[other].transfer = ws.panes[other].transfer
                              /\ other # id => w.panes[other].ended = ws.panes[other].ended
  BY <1>4, <1>5
<1>7. Sound(w, course.most) /\ InView(w)
  BY <1>2, <1>5, <1>6, LooksTheSame DEF Sound
<1>8. \A other \in notices' \cap Open(w) : w.panes[other].ended
  BY <1>1, <1>4, <1>5 DEF IInv
<1>9. Shows(w)
  BY <1>1, <1>2, <1>3, <1>5 DEF Shows
<1>10. notices' \subseteq 1 .. ws.nextId - 1
  BY <1>1, <1>2, WhatHolds DEF WorkspaceOK
<1>11. \A other \in Open(w) : ws.panes[other].ended => w.panes[other].ended
  BY <1>1, <1>5, <1>6
<1>12. IInv'
  BY <1>2, <1>5, <1>7, <1>8, <1>9, <1>10, <1>11, WhatHolds, OnwardHere
<1>13. LaterKept
  BY <1>1, <1>3, <1>5, <1>6 DEF LaterKept, WantsLine, Running
<1> QED
  BY <1>12, <1>13

\* A session may be taken out that has ended, or where the keyboard is beside
\* another.
MayGo(id) == ws.panes[id].ended \/ (id = ws.active /\ Cardinality(Open(ws)) > 1)

LEMMA RemovedKeeps ==
  ASSUME IInv, Up, NEW id \in Open(ws), Shows(RemovePane(ws, id)), MayGo(id),
         notices' \subseteq notices, UNCHANGED <<course, attempts, strays, transfers>>
  PROVE  IInv' /\ LaterKept
<1> DEFINE w == RemovePane(ws, id)
<1>1. /\ Sound(w, course.most) /\ Open(w) = Open(ws) \ {id} /\ Fewer(ws, w)
      /\ Open(w) # {} => InView(w)
  BY WhatHolds, PaneRemoved
<1>2. Shows(w) /\ ws' = w
  BY DEF Shows
<1> HIDE DEF w
<1>3. IInv'
  <2>1. /\ notices' \subseteq 1 .. ws.nextId - 1 /\ transfers' \in 0 .. course.transfers
        /\ Open(w) \subseteq Open(ws) /\ w.opening = ws.opening /\ w.nextId = ws.nextId
    BY <1>1, WhatHolds DEF Fewer
  <2>2. \A other \in Open(w) : ws.panes[other].ended => w.panes[other].ended
    BY <1>1 DEF Fewer, SamePane
  <2>3. \A other \in notices' \cap Open(w) : w.panes[other].ended
    BY <2>1, <2>2 DEF IInv
  <2>4. UNCHANGED <<course, attempts, strays>>
    OBVIOUS
  <2> QED
    BY <1>1, <1>2, <2>1, <2>2, <2>3, <2>4, OnwardHere
<1>4. LaterKept
  <2>1. \A other \in Open(ws) : other # id => other \in Open(w)
    BY <1>1
  <2>2. \A other \in Open(w) : /\ w.panes[other].ended = ws.panes[other].ended
                               /\ w.panes[other].transfer = ws.panes[other].transfer
    BY <1>1 DEF Fewer, SamePane
  <2> QED
    BY <1>1, <1>2, <2>1, <2>2 DEF LaterKept, WantsLine, Running, MayGo
<1> QED
  BY <1>3, <1>4

LEMMA HandleExitedKeeps == ASSUME IInv, HandleExited PROVE IInv' /\ LaterKept
<1>1. PICK id \in notices : Shows(Exited(ws, id)) /\ notices' = notices \ {id}
  BY DEF HandleExited
<1>2. /\ WorkspaceOK(ws) /\ Sound(ws, course.most) /\ Up /\ InView(ws)
      /\ UNCHANGED <<course, attempts, strays, transfers>>
  BY WhatHolds DEF HandleExited
<1>3. CASE id \notin Open(ws)
  <2>1. Shows(ws)
    BY <1>1, <1>3 DEF Exited
  <2>2. IInv'
    BY <1>1, <1>2, <2>1, WhatHolds, OnwardHere DEF IInv
  <2>3. AllStay(ws, ws')
    BY <2>1 DEF Shows, AllStay, SamePane
  <2> QED
    BY <2>2, <2>3, LaterKeptIfAllStay
<1>4. CASE id \in Open(ws) /\ Cardinality(Open(ws)) = 1 /\ ws.panes[id].kept
  <2> DEFINE p == [ws.panes[id] EXCEPT !.status = "Disconnected", !.ended = TRUE]
             w == [ws EXCEPT !.panes[id] = p]
  <2>1. ws.panes[id].ended
    BY <1>1, <1>4 DEF IInv
  <2>2. /\ p \in Panes /\ SamePane(ws.panes[id], p) /\ p.unseen = ws.panes[id].unseen
    BY <1>2, <1>4, <2>1 DEF WorkspaceOK, Panes, SamePane
  <2>3. Shows(w)
    <3>1. w = [ws EXCEPT !.panes[id].status = "Disconnected", !.panes[id].ended = TRUE]
      BY <1>2, <1>4 DEF WorkspaceOK
    <3> QED
      BY <1>1, <1>4, <3>1 DEF Exited
  <2> HIDE DEF p
  <2>4. /\ WorkspaceOK(w) /\ Open(w) = Open(ws) /\ w.panes[id] = p
        /\ \A other \in Open(ws) : other # id => w.panes[other] = ws.panes[other]
        /\ w.recent = ws.recent /\ w.active = ws.active /\ w.onScreen = ws.onScreen
        /\ w.twoWindows = ws.twoWindows /\ w.blinking = ws.blinking
        /\ w.opening = ws.opening /\ w.nextId = ws.nextId
    BY <1>2, <1>4, <2>2, PaneSet
  <2> HIDE DEF w
  <2>5. \A other \in Open(ws) : /\ SamePane(ws.panes[other], w.panes[other])
                                /\ w.panes[other].unseen = ws.panes[other].unseen
    BY <2>2, <2>4 DEF SamePane
  <2>6. Sound(w, course.most) /\ InView(w)
    BY <1>2, <2>4, <2>5, LooksTheSame DEF Sound, SamePane
  <2>7. IInv'
    BY <1>1, <1>2, <2>3, <2>4, <2>5, <2>6, WhatHolds, OnwardHere DEF IInv, SamePane
  <2>8. AllStay(ws, ws')
    BY <2>3, <2>4, <2>5 DEF Shows, AllStay
  <2> QED
    BY <2>7, <2>8, LaterKeptIfAllStay
<1>5. CASE id \in Open(ws) /\ ~(Cardinality(Open(ws)) = 1 /\ ws.panes[id].kept)
  <2>1. Shows(RemovePane(ws, id)) /\ MayGo(id) /\ notices' \subseteq notices
    BY <1>1, <1>5 DEF Exited, IInv, MayGo
  <2> QED
    BY <1>2, <1>5, <2>1, RemovedKeeps
<1> QED
  BY <1>3, <1>4, <1>5

\* A click: the screen stays, and the keyboard moves on it.
LEMMA FocusedInView ==
  ASSUME NEW w, NEW most \in Nat, Sound(w, most), InView(w), Open(w) # {}, NEW id \in w.onScreen
  PROVE  Sound(Focused(w, id), most) /\ InView(Focused(w, id)) /\ SameSessions(w, Focused(w, id))
<1> DEFINE v == MoveToFront(w, id)
           r == w.recent
           rest == Forgotten(r, id)
<1>1. /\ r \in Seq(Nat) /\ Distinct(r) /\ Range(r) = Open(w)
      /\ Len(r) > 0 /\ Head(r) = r[1]
  BY ShownAreFirst DEF Sound, WorkspaceOK, InView, EachOnce, Distinct
<1>2. /\ id = r[1] \/ (w.twoWindows /\ Len(r) > 1 /\ id = r[2])
      /\ w.onScreen = IF w.twoWindows /\ Len(r) > 1 THEN {r[1], r[2]} ELSE {r[1]}
  BY <1>1 DEF InView
<1>3. id \in Open(w)
  BY <1>1, <1>2 DEF Range
<1>4. /\ Sound(v, most) /\ EachOnce(v) /\ SameSessions(w, v) /\ v.active = id
      /\ v.recent = <<id>> \o rest /\ v.recent[1] = id
      /\ v.onScreen = w.onScreen /\ v.twoWindows = w.twoWindows
  BY <1>1, <1>3, MovedToFront
<1>5. /\ rest \in Seq(Nat)
      /\ \A i \in 1 .. Len(r) : r[i] = id =>
           /\ Len(rest) = Len(r) - 1
           /\ \A j \in 1 .. Len(r) - 1 : rest[j] = IF j < i THEN r[j] ELSE r[j + 1]
  <2>1. rest \in Seq(Nat)
    BY <1>1, ForgottenGone
  <2> HIDE DEF r
  <2>2. ASSUME NEW i \in 1 .. Len(r)
        PROVE  /\ Len(Forgotten(r, r[i])) = Len(r) - 1
               /\ \A j \in 1 .. Len(r) - 1 : Forgotten(r, r[i])[j] = IF j < i THEN r[j] ELSE r[j + 1]
    BY <1>1, ForgottenAt, Zenon
  <2> QED
    BY <2>1, <2>2
<1> HIDE DEF v, rest, r
<1>6. v.recent \in Seq(Nat) /\ Len(v.recent) = Len(rest) + 1
  <2>1. id \in Nat
    BY <1>3, <1>4 DEF Sound, WorkspaceOK, SameSessions
  <2> QED
    BY <1>4, <1>5, <2>1
<1>7. Len(rest) = Len(r) - 1
  BY <1>1, <1>2, <1>5
<1>8. Len(r) > 1 => v.recent[2] = rest[1]
  BY <1>1, <1>4, <1>5, <1>7
<1>9. Len(r) > 1 => rest[1] = IF id = r[1] THEN r[2] ELSE r[1]
  <2>1. CASE id = r[1]
    BY <1>1, <1>5, <2>1
  <2>2. CASE id # r[1]
    BY <1>1, <1>2, <1>5, <2>2
  <2> QED
    BY <2>1, <2>2
<1>10. Len(v.recent) = Len(r) /\ Head(v.recent) = v.recent[1]
  BY <1>1, <1>6, <1>7
<1>11. Len(r) > 1 /\ w.twoWindows => {v.recent[1], v.recent[2]} = {r[1], r[2]}
  <2> SUFFICES ASSUME Len(r) > 1, w.twoWindows
               PROVE  {v.recent[1], v.recent[2]} = {r[1], r[2]}
    OBVIOUS
  <2>1. v.recent[1] = id /\ v.recent[2] = IF id = r[1] THEN r[2] ELSE r[1]
    BY <1>4, <1>8, <1>9
  <2>2. id = r[1] \/ id = r[2]
    BY <1>2
  <2> QED
    BY <2>1, <2>2
<1>12. ~(Len(r) > 1 /\ w.twoWindows) => {r[1]} = {v.active}
  BY <1>2, <1>4
<1>13. v.onScreen = IF v.twoWindows /\ Len(v.recent) > 1
                    THEN {v.recent[1], v.recent[2]} ELSE {v.active}
  BY <1>2, <1>4, <1>10, <1>11, <1>12, Zenon
<1>14. InView(v)
  BY <1>4, <1>10, <1>13 DEF InView
<1> QED
  BY <1>4, <1>14 DEF Focused, v

LEMMA KeyboardKeeps == ASSUME IInv, Keyboard PROVE IInv' /\ LaterKept
<1>1. /\ WorkspaceOK(ws) /\ Sound(ws, course.most) /\ InView(ws) /\ Open(ws) # {} /\ Up
      /\ UNCHANGED <<course, attempts, notices, strays, transfers>> /\ course.most \in Nat
      /\ Cardinality(Open(ws)) \in Nat
  BY WhatHolds DEF Keyboard
<1>2. ASSUME Shows(ws) PROVE IInv' /\ LaterKept
  BY <1>1, <1>2, OnlySeen DEF SameSessions, SamePane
<1>3. ASSUME NEW id, Shows(ActivateSession(ws, id)) PROVE IInv' /\ LaterKept
  <2> DEFINE w == ActivateSession(ws, id)
  <2>1. Sound(w, course.most) /\ InView(w) /\ SameSessions(ws, w) /\ Shows(w)
    BY <1>1, <1>3, ActivateKeeps
  <2> HIDE DEF w
  <2> QED
    BY <1>1, <2>1, OnlySeen
<1>4. CASE Shows(SwitchSession(ws))
  BY <1>2, <1>3, <1>4 DEF SwitchSession
<1>5. ASSUME NEW n \in 1 .. 4, Shows(GoToSession(ws, n)) PROVE IInv' /\ LaterKept
  BY <1>2, <1>3, <1>5 DEF GoToSession
<1>6. CASE Shows(SplitToggle(ws))
  <2>1. CASE Cardinality(Open(ws)) < 2
    BY <1>2, <1>6, <2>1 DEF SplitToggle
  <2>2. CASE ~(Cardinality(Open(ws)) < 2)
    <3> DEFINE v == [ws EXCEPT !.twoWindows = ~@]
               w == ActivateSession(v, ws.active)
    <3>1. Shows(w)
      BY <1>6, <2>2 DEF SplitToggle
    <3>2. /\ WorkspaceOK(v) /\ v.panes = ws.panes /\ v.recent = ws.recent
          /\ v.onScreen = ws.onScreen /\ v.blinking = ws.blinking /\ v.opening = ws.opening
          /\ v.nextId = ws.nextId /\ v.toOpen = ws.toOpen
      BY <1>1 DEF WorkspaceOK, Open
    <3> HIDE DEF v
    <3>3. /\ Sound(v, course.most) /\ SameSessions(ws, v) /\ Distinct(v.recent)
          /\ Range(v.recent) = Open(v) /\ Open(v) = Open(ws)
      BY <1>1, <3>2
         DEF Sound, NumbersDiffer, Blinks, SameSessions, SamePane, InView, EachOnce, Distinct, Open
    <3>4. ws.active \in Open(v)
      <4>1. ws.recent \in Seq(Nat) /\ EachOnce(ws)
        BY <1>1 DEF WorkspaceOK, InView
      <4>2. Len(ws.recent) > 0 /\ ws.recent[1] \in Open(ws)
        BY <1>1, <4>1, ShownAreFirst
      <4> QED
        BY <1>1, <3>3, <4>1, <4>2 DEF InView
    <3>5. Range(v.recent) \cup {ws.active} = Open(v)
      BY <3>3, <3>4
    <3>6. Sound(w, course.most) /\ InView(w) /\ SameSessions(v, w)
      BY <1>1, <3>3, <3>4, <3>5, ActivateSound
    <3> HIDE DEF w
    <3>7. SameSessions(ws, w)
      BY <3>3, <3>6 DEF SameSessions, SamePane
    <3> QED
      BY <1>1, <3>1, <3>6, <3>7, OnlySeen
  <2> QED
    BY <2>1, <2>2
<1>7. CASE Shows(CloseActiveSession(ws))
  <2>1. CASE Cardinality(Open(ws)) < 2
    BY <1>2, <1>7, <2>1 DEF CloseActiveSession
  <2>2. CASE ~(Cardinality(Open(ws)) < 2)
    <3>1. Shows(RemovePane(ws, ws.active)) /\ Cardinality(Open(ws)) > 1
      BY <1>1, <1>7, <2>2 DEF CloseActiveSession
    <3>2. ws.active \in Open(ws)
      <4>1. ws.recent \in Seq(Nat) /\ EachOnce(ws)
        BY <1>1 DEF WorkspaceOK, InView
      <4>2. Len(ws.recent) > 0 /\ ws.recent[1] \in Open(ws)
        BY <1>1, <4>1, ShownAreFirst
      <4> QED
        BY <1>1, <4>1, <4>2 DEF InView
    <3> QED
      BY <1>1, <3>1, <3>2, RemovedKeeps DEF MayGo
  <2> QED
    BY <2>1, <2>2
<1>8. ASSUME NEW id \in ws.onScreen, Shows(Focused(ws, id)) PROVE IInv' /\ LaterKept
  <2> DEFINE w == Focused(ws, id)
  <2>1. Sound(w, course.most) /\ InView(w) /\ SameSessions(ws, w) /\ Shows(w)
    BY <1>1, <1>8, FocusedInView
  <2> HIDE DEF w
  <2> QED
    BY <1>1, <2>1, OnlySeen
<1> QED
  BY <1>4, <1>5, <1>6, <1>7, <1>8 DEF Keyboard

LEMMA FromHostKeeps == ASSUME IInv, FromHost PROVE IInv' /\ LaterKept
<1>1. /\ WorkspaceOK(ws) /\ Sound(ws, course.most) /\ InView(ws) /\ Open(ws) # {} /\ Up
      /\ UNCHANGED <<course, attempts, notices, strays, transfers>> /\ course.most \in Nat
  BY WhatHolds DEF FromHost
<1>2. PICK id \in Open(ws) : Shows(Output(ws, id)) \/ Shows(ActivateSession(ws, id))
  BY DEF FromHost
<1>3. CASE Shows(ActivateSession(ws, id))
  <2> DEFINE w == ActivateSession(ws, id)
  <2>1. Sound(w, course.most) /\ InView(w) /\ SameSessions(ws, w) /\ Shows(w)
    BY <1>1, <1>3, ActivateKeeps
  <2> HIDE DEF w
  <2> QED
    BY <1>1, <2>1, OnlySeen
<1>4. CASE Shows(Output(ws, id)) /\ id \in ws.onScreen
  <2>1. Shows(ws)
    BY <1>4 DEF Output
  <2> QED
    BY <1>1, <2>1, OnlySeen DEF SameSessions, SamePane
<1>5. CASE Shows(Output(ws, id)) /\ id \notin ws.onScreen
  <2> DEFINE p == [ws.panes[id] EXCEPT !.unseen = TRUE]
             v == [ws EXCEPT !.panes[id] = p]
             w == [v EXCEPT !.blinking = TRUE]
  <2>1. /\ p \in Panes /\ SamePane(ws.panes[id], p)
    BY <1>1 DEF WorkspaceOK, Panes, SamePane
  <2>2. Shows(w)
    <3>1. w = [ws EXCEPT !.panes[id].unseen = TRUE, !.blinking = TRUE]
      BY <1>1 DEF WorkspaceOK
    <3> QED
      BY <1>5, <3>1 DEF Output
  <2> HIDE DEF p
  <2>3. /\ WorkspaceOK(v) /\ Open(v) = Open(ws) /\ v.panes[id] = p
        /\ \A other \in Open(ws) : other # id => v.panes[other] = ws.panes[other]
        /\ v.recent = ws.recent /\ v.active = ws.active /\ v.onScreen = ws.onScreen
        /\ v.twoWindows = ws.twoWindows
        /\ v.opening = ws.opening /\ v.nextId = ws.nextId /\ v.toOpen = ws.toOpen
    BY <1>1, <2>1, PaneSet
  <2> HIDE DEF v
  <2>4. /\ WorkspaceOK(w) /\ w.panes = v.panes /\ w.nextId = v.nextId /\ w.opening = v.opening
        /\ w.recent = v.recent /\ w.active = v.active /\ w.onScreen = v.onScreen
        /\ w.twoWindows = v.twoWindows /\ w.blinking = TRUE /\ w.toOpen = v.toOpen
    BY <2>3 DEF WorkspaceOK, Open
  <2> HIDE DEF w
  <2>5. Open(w) = Open(ws)
    BY <2>3, <2>4 DEF Open
  <2>6. \A other \in Open(ws) : SamePane(ws.panes[other], w.panes[other])
    BY <2>1, <2>3, <2>4 DEF SamePane
  <2>7. SameSessions(ws, w)
    BY <2>3, <2>4, <2>5, <2>6 DEF SameSessions
  <2>8. Blinks(w)
    BY <1>1, <1>5, <2>3, <2>4, <2>5 DEF Blinks, Sound
  <2>9. Sound(w, course.most)
    BY <1>1, <2>4, <2>5, <2>6, <2>8 DEF Sound, NumbersDiffer, SamePane
  <2>10. InView(w)
    BY <1>1, <2>3, <2>4, <2>5 DEF InView, EachOnce
  <2> QED
    BY <1>1, <2>2, <2>7, <2>9, <2>10, OnlySeen
<1> QED
  BY <1>2, <1>3, <1>4, <1>5

LEMMA BlinkTimerKeeps == ASSUME IInv, BlinkTimer PROVE IInv' /\ LaterKept
<1> DEFINE w == Blink(ws)
<1>1. /\ WorkspaceOK(ws) /\ Sound(ws, course.most) /\ InView(ws) /\ Up /\ Shows(w)
      /\ UNCHANGED <<course, attempts, notices, strays, transfers>>
  BY WhatHolds DEF BlinkTimer
<1>2. /\ WorkspaceOK(w) /\ w.panes = ws.panes /\ w.recent = ws.recent /\ w.active = ws.active
      /\ w.onScreen = ws.onScreen /\ w.twoWindows = ws.twoWindows /\ w.toOpen = ws.toOpen
      /\ w.opening = ws.opening /\ w.nextId = ws.nextId
      /\ w.blinking = \E id \in Open(ws) : ws.panes[id].unseen
  BY <1>1 DEF WorkspaceOK, Open, Blink
<1> HIDE DEF w
<1>3. Open(w) = Open(ws)
  BY <1>2 DEF Open
<1>4. SameSessions(ws, w)
  BY <1>2, <1>3 DEF SameSessions, SamePane
<1>5. Blinks(w)
  BY <1>1, <1>2, <1>3 DEF Blinks, Sound
<1>6. Sound(w, course.most) /\ InView(w)
  BY <1>1, <1>2, <1>3, <1>5 DEF Sound, NumbersDiffer, InView, EachOnce
<1> QED
  BY <1>1, <1>4, <1>6, OnlySeen

LEMMA EmptyIsSettled ==
  ASSUME course \in Courses
  PROVE  Settled([ws |-> NoSessions, attempts |-> <<>>], course.most)
<1> DEFINE t == [ws |-> NoSessions, attempts |-> <<>>]
<1>1. Open(NoSessions) = {} /\ NoSessions.opening = FALSE
  BY DEF NoSessions, Open
<1>2. WorkspaceOK(NoSessions)
  BY <1>1 DEF NoSessions, WorkspaceOK, Open
<1>3. Cardinality(Open(NoSessions)) <= course.most
  BY <1>1, FS_EmptySet, CourseType
<1>4. Sound(NoSessions, course.most)
  BY <1>1, <1>2, <1>3 DEF Sound, NumbersDiffer, Blinks
<1>5. OneAtATime(NoSessions, <<>>, course.most)
  BY <1>1 DEF OneAtATime
<1>6. t.ws = NoSessions /\ t.attempts = <<>>
  OBVIOUS
<1> QED
  BY <1>1, <1>4, <1>5, <1>6 DEF Settled

LEMMA CloseWindowKeeps == ASSUME IInv, CloseWindow PROVE IInv' /\ LaterKept
<1> DEFINE t == [ws |-> NoSessions, attempts |-> <<>>]
<1>1. /\ window' = "closed" /\ ws' = NoSessions /\ attempts' = <<>> /\ notices' = {}
      /\ UNCHANGED <<course, strays, transfers>>
  BY DEF CloseWindow
<1>2. Settled(t, course.most) /\ t.ws = NoSessions /\ t.attempts = <<>>
  BY WhatHolds, EmptyIsSettled
<1>3. Open(NoSessions) = {}
  BY DEF NoSessions, Open
<1>4. Becomes(t)
  BY <1>1, <1>2, <1>3 DEF Becomes, Shows
<1> HIDE DEF t
<1>5. IInv'
  BY <1>1, <1>2, <1>4, WhatHolds, Onward
<1>6. LaterKept
  BY <1>1, <1>3 DEF LaterKept
<1> QED
  BY <1>5, <1>6

\* A transfer that is started can be seen and stopped, and one that has the
\* line keeps its slot whatever the timers do.
LEMMA TransferSteps ==
  ASSUME NEW t \in Transfers, InHand(t)
  PROVE  /\ ~Running(t) => StartTransfer(t) \in Transfers /\ InHand(StartTransfer(t))
                           /\ StartTransfer(t).slot # "none"
         /\ Running(t) => \A slot \in {"lingering", "over"} :
              /\ [t EXCEPT !.slot = slot] \in Transfers
              /\ InHand([t EXCEPT !.slot = slot]) /\ [t EXCEPT !.slot = slot].slot # "none"
         /\ t.slot = "lingering" =>
              /\ [t EXCEPT !.slot = "over"] \in Transfers
              /\ InHand([t EXCEPT !.slot = "over"]) /\ [t EXCEPT !.slot = "over"].slot # "none"
         /\ Cancel(t) \in Transfers /\ InHand(Cancel(t))
         /\ WantsLine(t) => Cancel(t).slot # "none"
         /\ t.pollers > 0 => /\ Poll(t) \in Transfers /\ InHand(Poll(t))
                             /\ WantsLine(t) => Poll(t).slot # "none"
         /\ t.clears > 0 => /\ ClearTransfer(t) \in Transfers /\ InHand(ClearTransfer(t))
                            /\ WantsLine(t) => ClearTransfer(t).slot # "none"
<1>0. /\ t \in [slot : {"none", "running", "stopping", "lingering", "over"},
                pollers : Nat, clears : Nat, cancels : Nat, bar : BOOLEAN]
      /\ t.pollers <= t.cancels
  BY DEF Transfers, InHand
<1>1. ~Running(t) => StartTransfer(t) \in Transfers /\ InHand(StartTransfer(t))
                     /\ StartTransfer(t).slot # "none"
  <2> SUFFICES ASSUME ~Running(t)
               PROVE  /\ StartTransfer(t) \in Transfers /\ InHand(StartTransfer(t))
                      /\ StartTransfer(t).slot # "none"
    OBVIOUS
  <2> DEFINE u == StartTransfer(t)
  <2>1. u = [t EXCEPT !.slot = "running", !.bar = TRUE, !.pollers = @ + 1, !.cancels = @ + 1]
    BY DEF StartTransfer
  <2>2. /\ u.slot = "running" /\ u.bar /\ u.pollers = t.pollers + 1 /\ u.cancels = t.cancels + 1
        /\ u \in Transfers
    <3>1. t.pollers + 1 \in Nat /\ t.cancels + 1 \in Nat
      BY <1>0
    <3> QED
      BY <1>0, <2>1, <3>1 DEF Transfers
  <2> HIDE DEF u
  <2>3. InHand(u) /\ u.slot # "none"
    BY <1>0, <2>2 DEF InHand
  <2> QED
    BY <2>2, <2>3 DEF u
<1>2. ASSUME NEW slot \in {"lingering", "over"}
      PROVE  /\ [t EXCEPT !.slot = slot] \in Transfers
             /\ InHand([t EXCEPT !.slot = slot]) /\ [t EXCEPT !.slot = slot].slot # "none"
  BY DEF Transfers, InHand, Running
<1>3. Cancel(t) \in Transfers /\ InHand(Cancel(t)) /\ (WantsLine(t) => Cancel(t).slot # "none")
  BY DEF Transfers, InHand, Running, WantsLine, Cancel, Asked
<1>4. ASSUME t.pollers > 0
      PROVE  /\ Poll(t) \in Transfers /\ InHand(Poll(t))
             /\ WantsLine(t) => Poll(t).slot # "none"
  <2> DEFINE u == Poll(t)
  <2>1. CASE t.slot = "none"
    <3>1. u = [t EXCEPT !.bar = FALSE, !.pollers = @ - 1]
      BY <2>1 DEF Poll, Running
    <3>2. t.pollers - 1 \in Nat
      BY <1>0, <1>4
    <3>3. /\ u.slot = t.slot /\ u.pollers = t.pollers - 1 /\ u.cancels = t.cancels
          /\ u \in Transfers
      BY <1>0, <3>1, <3>2 DEF Transfers
    <3> HIDE DEF u
    <3>4. InHand(u) /\ ~WantsLine(t)
      BY <1>0, <2>1, <3>3 DEF InHand, Running, WantsLine
    <3> QED
      BY <3>3, <3>4 DEF u
  <2>2. CASE Running(t)
    <3>1. u = t /\ t.slot # "none"
      BY <2>2 DEF Poll, Running
    <3> QED
      BY <3>1
  <2>3. CASE t.slot # "none" /\ ~Running(t)
    <3>1. u = [t EXCEPT !.bar = FALSE, !.pollers = @ - 1, !.cancels = @ - 1, !.clears = @ + 1]
      BY <2>3 DEF Poll
    <3>2. t.pollers - 1 \in Nat /\ t.cancels - 1 \in Nat /\ t.clears + 1 \in Nat
      BY <1>0, <1>4
    <3>3. /\ u.slot = t.slot /\ u.pollers = t.pollers - 1 /\ u.cancels = t.cancels - 1
          /\ u \in Transfers
      BY <1>0, <3>1, <3>2 DEF Transfers
    <3> HIDE DEF u
    <3>4. InHand(u) /\ u.slot # "none"
      BY <1>0, <2>3, <3>3 DEF InHand, Running
    <3> QED
      BY <3>3, <3>4 DEF u
  <2> QED
    BY <2>1, <2>2, <2>3
<1>5. ASSUME t.clears > 0
      PROVE  /\ ClearTransfer(t) \in Transfers /\ InHand(ClearTransfer(t))
             /\ WantsLine(t) => ClearTransfer(t).slot # "none"
  <2> DEFINE u == ClearTransfer(t)
  <2>1. t.clears - 1 \in Nat
    BY <1>0, <1>5
  <2>2. /\ u.slot = IF WantsLine(t) THEN t.slot ELSE "none"
        /\ u.pollers = t.pollers /\ u.cancels = t.cancels /\ u.bar = t.bar
        /\ u \in Transfers
    BY <1>0, <2>1 DEF Transfers, ClearTransfer
  <2> HIDE DEF u
  <2>3. InHand(u) /\ (WantsLine(t) => u.slot # "none")
    BY <2>2 DEF InHand, Running, WantsLine
  <2> QED
    BY <2>2, <2>3 DEF u
<1> QED
  BY <1>1, <1>2, <1>3, <1>4, <1>5

LEMMA TransfersKeep ==
  ASSUME IInv, RunTransfer \/ TransferGoesOn \/ CancelTransfer \/ TransferTimers
  PROVE  IInv' /\ LaterKept
<1>1. /\ Up /\ WorkspaceOK(ws) /\ InView(ws) /\ EachOnce(ws) /\ Open(ws) # {}
      /\ transfers \in 0 .. course.transfers /\ course.transfers \in Nat
  BY WhatHolds, CourseType DEF RunTransfer, TransferGoesOn, CancelTransfer, TransferTimers
<1>2. \A id \in Open(ws) : ws.panes[id].transfer \in Transfers /\ InHand(ws.panes[id].transfer)
  BY <1>1, WhatHolds DEF Sound, WorkspaceOK, Panes
<1>3. CASE RunTransfer
  <2> DEFINE t == ws.panes[ws.active].transfer
  <2>1. ws.active \in Open(ws)
    <3>1. ws.recent \in Seq(Nat)
      BY <1>1 DEF WorkspaceOK
    <3>2. Len(ws.recent) > 0 /\ ws.recent[1] \in Open(ws)
      BY <1>1, <3>1, ShownAreFirst
    <3> QED
      BY <1>1, <3>1, <3>2 DEF InView
  <2>2. t \in Transfers /\ InHand(t) /\ ~Running(t) /\ Transferring(ws.active, StartTransfer(t))
    BY <1>2, <1>3, <2>1 DEF RunTransfer
  <2>3. transfers' \in 0 .. course.transfers
    BY <1>1, <1>3 DEF RunTransfer
  <2> DEFINE u == StartTransfer(t)
  <2>4. u \in Transfers /\ InHand(u) /\ u.slot # "none"
    BY <2>2, TransferSteps
  <2> HIDE DEF u
  <2>5. Transferring(ws.active, u)
    BY <2>2 DEF u
  <2> QED
    BY <1>1, <2>1, <2>3, <2>4, <2>5, TransferSet
<1>4. ASSUME NEW id \in Open(ws), NEW u \in Transfers, InHand(u), Transferring(id, u),
             WantsLine(ws.panes[id].transfer) => u.slot # "none", UNCHANGED transfers
      PROVE  IInv' /\ LaterKept
  BY <1>1, <1>4, TransferSet
<1>5. CASE TransferGoesOn
  <2>1. PICK id \in Open(ws) :
          LET t == ws.panes[id].transfer
          IN  \/ /\ Running(t) /\ ~ws.panes[id].ended
                 /\ \E slot \in {"lingering", "over"} : Transferring(id, [t EXCEPT !.slot = slot])
              \/ t.slot = "lingering" /\ Transferring(id, [t EXCEPT !.slot = "over"])
    BY <1>5 DEF TransferGoesOn
  <2> DEFINE t == ws.panes[id].transfer
  <2>2. t \in Transfers /\ InHand(t) /\ UNCHANGED transfers
    BY <1>2, <1>5 DEF TransferGoesOn
  <2>3. PICK slot \in {"lingering", "over"} :
          /\ Running(t) \/ t.slot = "lingering"
          /\ Transferring(id, [t EXCEPT !.slot = slot])
    BY <2>1
  <2> DEFINE u == [t EXCEPT !.slot = slot]
  <2> HIDE DEF t
  <2>4. u \in Transfers /\ InHand(u) /\ u.slot # "none"
    BY <2>2, <2>3 DEF Transfers, InHand, Running
  <2>5. Transferring(id, u)
    BY <2>3
  <2> HIDE DEF u
  <2> QED
    BY <1>4, <2>2, <2>4, <2>5
<1>6. CASE CancelTransfer
  <2>1. PICK id \in ws.onScreen :
          LET t == ws.panes[id].transfer IN t.bar /\ t.cancels > 0 /\ Transferring(id, Cancel(t))
    BY <1>6 DEF CancelTransfer
  <2>2. id \in Open(ws)
    <3>1. ws.recent \in Seq(Nat)
      BY <1>1 DEF WorkspaceOK
    <3>2. Len(ws.recent) > 0 /\ ws.recent[1] \in Open(ws) /\ Range(ws.recent) = Open(ws)
      BY <1>1, <3>1, ShownAreFirst DEF EachOnce
    <3> QED
      BY <1>1, <2>1, <3>1, <3>2 DEF InView, Range
  <2> DEFINE t == ws.panes[id].transfer
             u == Cancel(t)
  <2>3. t \in Transfers /\ InHand(t) /\ UNCHANGED transfers /\ Transferring(id, u)
    BY <1>2, <1>6, <2>1, <2>2 DEF CancelTransfer
  <2>4. u \in Transfers /\ InHand(u) /\ (WantsLine(t) => u.slot # "none")
    BY <2>3, TransferSteps
  <2> HIDE DEF u
  <2> QED
    BY <1>4, <2>2, <2>3, <2>4
<1>7. CASE TransferTimers
  <2>1. PICK id \in Open(ws) :
          LET t == ws.panes[id].transfer
          IN  \/ t.pollers > 0 /\ Transferring(id, Poll(t))
              \/ t.clears > 0 /\ Transferring(id, ClearTransfer(t))
    BY <1>7 DEF TransferTimers
  <2> DEFINE t == ws.panes[id].transfer
  <2>2. t \in Transfers /\ InHand(t) /\ UNCHANGED transfers
    BY <1>2, <1>7 DEF TransferTimers
  <2>3. CASE t.pollers > 0 /\ Transferring(id, Poll(t))
    <3> DEFINE u == Poll(t)
    <3>1. Transferring(id, u) /\ u \in Transfers /\ InHand(u) /\ (WantsLine(t) => u.slot # "none")
      BY <2>2, <2>3, TransferSteps
    <3> HIDE DEF u
    <3> QED
      BY <1>4, <2>2, <3>1
  <2>4. CASE t.clears > 0 /\ Transferring(id, ClearTransfer(t))
    <3> DEFINE u == ClearTransfer(t)
    <3>1. Transferring(id, u) /\ u \in Transfers /\ InHand(u) /\ (WantsLine(t) => u.slot # "none")
      BY <2>2, <2>4, TransferSteps
    <3> HIDE DEF u
    <3> QED
      BY <1>4, <2>2, <3>1
  <2> QED
    BY <2>1, <2>3, <2>4
<1> QED
  BY <1>3, <1>5, <1>6, <1>7

(***************************************************************************)
(* What is proved of every behaviour.                                      *)
(***************************************************************************)

LEMMA Starts == ASSUME Init PROVE IInv
<1>1. course \in Courses /\ Settled(Now, course.most)
  BY EmptyIsSettled DEF Init, Now
<1>2. WorkspaceOK(NoSessions) /\ Open(NoSessions) = {}
  BY <1>1 DEF Settled, Sound, Now, Init, NoSessions, Open
<1>3. course.transfers \in Nat /\ NoSessions.nextId = 1
  BY <1>1, CourseType DEF NoSessions
<1>4. <<>> \in Seq(Attempts)
  BY EmptySeq
<1> QED
  BY <1>1, <1>2, <1>3, <1>4 DEF Init, IInv, TypeOK

LEMMA Keeps == ASSUME IInv, [Next]_vars PROVE IInv' /\ (LaterKept \/ UNCHANGED vars)
<1>1. CASE UNCHANGED vars
  BY <1>1 DEF vars, IInv, TypeOK, Now
<1>2. CASE Next
  BY <1>2, FirstConnectedKeeps, FirstFailedKeeps, NewSessionKeeps, ReturnKeeps, ConnectedKeeps,
     CannotConnectKeeps, HostGoneKeeps, HandleExitedKeeps, KeyboardKeeps, FromHostKeeps,
     BlinkTimerKeeps, CloseWindowKeeps, TransfersKeep
     DEF Next
<1> QED
  BY <1>1, <1>2

LEMMA Invariant == Spec => []IInv
<1>1. Init => IInv
  BY Starts
<1>2. IInv /\ [Next]_vars => IInv'
  BY Keeps
<1> QED
  BY <1>1, <1>2, PTL DEF Spec

\* Whatever is opened, ended, reconnected, closed or clicked on, and in
\* whatever order, the window fits its sessions (workspace.rs): no more of
\* them than its model has and no number twice, the keyboard in one on the
\* screen, the icons of unseen ones blinking, and every transfer that runs
\* under a bar that can stop it.
THEOREM WindowFits == Spec => []WindowSound
<1>1. IInv => WindowSound
  <2> SUFFICES ASSUME IInv PROVE WindowSound
    OBVIOUS
  <2>1. TypeOK /\ KeyboardOnScreen
    BY WhatHolds DEF IInv, KeyboardOnScreen
  <2>2. WithinModel /\ UnseenBlinks /\ TransferInView
    <3>1. /\ WorkspaceOK(ws) /\ Cardinality(Open(ws)) <= course.most
          /\ NumbersDiffer(ws) /\ Blinks(ws)
          /\ \A id \in Open(ws) : InHand(ws.panes[id].transfer)
      BY WhatHolds DEF Sound
    <3>2. \A id \in Open(ws) :
            ws.panes[id].transfer.pollers \in Nat /\ ws.panes[id].transfer.cancels \in Nat
      BY <3>1 DEF WorkspaceOK, Panes, Transfers
    <3> QED
      BY <3>1, <3>2 DEF WithinModel, NumbersDiffer, UnseenBlinks, Blinks, TransferInView, InHand
  <2> QED
    BY <2>1, <2>2 DEF WindowSound
<1> QED
  BY <1>1, Invariant, PTL

\* What is left over from an earlier session or transfer, a notice that comes
\* late or a timer, takes nothing from a later one (exited, reconnect,
\* clear_transfer).
THEOREM LeftoversHarmless == Spec => LaterOnesKept
<1> DEFINE KeepsLine ==
             \A id \in Open(ws) \cap Open(ws') :
               WantsLine(ws.panes[id].transfer) => ws'.panes[id].transfer.slot # "none"
           StayOpen ==
             \A id \in Open(ws) :
               ~ws.panes[id].ended /\ window' = "open" =>
                 \/ id \in Open(ws') /\ (ws'.panes[id].ended => id \in notices')
                 \/ id = ws.active /\ Cardinality(Open(ws)) > 1
<1>1. IInv /\ [Next]_vars => [KeepsLine]_vars /\ [StayOpen]_vars
  BY Keeps DEF LaterKept
<1>2. Spec => [][KeepsLine]_vars /\ [][StayOpen]_vars
  BY <1>1, Invariant, PTL DEF Spec
<1> QED
  BY <1>2 DEF LaterOnesKept, TransferKeepsLine, LivesOn
=============================================================================
