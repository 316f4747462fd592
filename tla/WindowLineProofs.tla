---------------------------- MODULE WindowLineProofs ----------------------------
(***************************************************************************)
(* What holds of a window's line for every Set-Up, every length of key,     *)
(* every chunk that may be read and any bounds.  The invariant joins to the *)
(* types where XOFF stands: a write that had begun when it came is the one  *)
(* write after it, and no other begins.                                     *)
(***************************************************************************)
EXTENDS WindowLine, TLAPS, SequenceTheorems

\* What is queued waits for XON; no write is counted while the line runs; and
\* once one has been made since XOFF, nobody has the line.
Stopping ==
    /\ NothingWaitsUnstopped
    /\ ~stopped => late = 0
    /\ stopped => late = 0 \/ (late = 1 /\ LineFree)

IInv == TypeOK /\ Stopping

-----------------------------------------------------------------------------
(* Types. *)

\* What is sent is bytes.
LEMMA MessageType ==
    ASSUME NEW kind \in Kinds, NEW number \in Nat, NEW length \in Nat
    PROVE  Message(kind, number, length) \in Seq(Bytes)
<1> DEFINE byte(i) == [by |-> kind, number |-> number, part |-> i, of |-> length]
<1>1. \A i \in 1 .. length : byte(i) \in Bytes
  BY DEF Bytes
<1>2. [i \in 1 .. length |-> byte(i)] \in [1 .. length -> Bytes]
  BY <1>1
<1> QED BY <1>2, SMT DEF Message

\* A transfer offers bytes, and one packet at most.
LEMMA OfferType ==
    ASSUME TypeOK, NEW kind \in Kinds, NEW offer \in Offers(kind)
    PROVE  offer \in Seq(Bytes) /\ Len(offer) \in Nat
<1>1. sent[kind] + 1 \in Nat
  BY DEF TypeOK
<1>2. Message(kind, sent[kind] + 1, 1) \in Seq(Bytes)
  BY <1>1, MessageType
<1>3. <<>> \in Seq(Bytes)
  OBVIOUS
<1>4. offer \in Seq(Bytes)
  BY <1>2, <1>3 DEF Offers
<1> QED BY <1>4

\* A count of what is sent goes up.
LEMMA CountType ==
    ASSUME TypeOK, NEW kind \in Kinds, NEW n \in Nat,
           sent' = [sent EXCEPT ![kind] = sent[kind] + n]
    PROVE  sent' \in [Kinds -> Nat]
BY DEF TypeOK

\* The lock is taken when nobody has it, so it has one holder after as before.
LEMMA GoesType ==
    ASSUME TypeOK, NEW t \in Threads, NEW place \in Places, Goes(t, place),
           place = "writing" => LineFree
    PROVE  /\ at' \in [Threads -> Places]
           /\ \A u, v \in Threads : at'[u] = "writing" /\ at'[v] = "writing" => u = v
BY DEF TypeOK, Goes, LineFree

LEMMA WakesType ==
    ASSUME TypeOK, NEW place \in Places \ {"writing"}, GoesAndWakes(place)
    PROVE  /\ at' \in [Threads -> Places]
           /\ \A u, v \in Threads : at'[u] = "writing" /\ at'[v] = "writing" => u = v
BY DEF TypeOK, GoesAndWakes, Threads, Places

LEMMA EmptiedType ==
    ASSUME TypeOK, NEW t \in Threads, Emptied(t)
    PROVE  hand' \in [Threads -> Seq(Bytes)]
<1>1. <<>> \in Seq(Bytes)
  OBVIOUS
<1> QED BY <1>1 DEF TypeOK, Emptied

\* Sending keeps the types.
LEMMA SendsType ==
    ASSUME TypeOK, NEW t \in Threads, Sends(t)
    PROVE  TypeOK'
<1>1. hand[t] \in Seq(Bytes) /\ queued \in Seq(Bytes) /\ paced \in Seq(Bytes) /\ line \in Seq(Bytes)
  BY DEF TypeOK
<1>2. /\ paced \o hand[t] \in Seq(Bytes) /\ queued \o hand[t] \in Seq(Bytes)
      /\ line \o hand[t] \in Seq(Bytes)
  BY <1>1
<1>3. CASE SendPaced(t)
  <2>1. paced' = paced \/ paced' = paced \o hand[t]
    BY <1>3 DEF SendPaced
  <2>2. hand' \in [Threads -> Seq(Bytes)]
    BY <1>3, EmptiedType DEF SendPaced, TypeOK
  <2>3. \E place \in {"direct", "home"} : Goes(t, place)
    BY <1>3 DEF SendPaced
  <2> QED BY <1>1, <1>2, <1>3, <2>1, <2>2, <2>3, GoesType DEF SendPaced, setUpVars, lineVars, TypeOK, Places
<1>4. CASE Transmit(t)
  <2>1. queued' = queued \/ queued' = queued \o hand[t]
    BY <1>4 DEF Transmit, JoinQueue
  <2>2. hand' \in [Threads -> Seq(Bytes)]
    BY <1>4, EmptiedType DEF Transmit, TypeOK
  <2>3. \E place \in {"writing", "home"} : Goes(t, place)
    BY <1>4 DEF Transmit
  <2>4. LineFree
    BY <1>4 DEF Transmit
  <2> QED BY <1>1, <1>2, <1>4, <2>1, <2>2, <2>3, <2>4, GoesType DEF Transmit, setUpVars, TypeOK, Places
<1>5. CASE Write(t)
  <2>1. line' \in Seq(Bytes)
    BY <1>2, <1>5 DEF Write
  <2>2. hand' \in [Threads -> Seq(Bytes)]
    BY <1>5, EmptiedType DEF Write
  <2>3. late' \in Nat
    BY <1>5 DEF Write, TypeOK
  <2>4. Goes(t, "home")
    BY <1>5 DEF Write
  <2> QED BY <1>5, <2>1, <2>2, <2>3, <2>4, GoesType DEF Write, setUpVars, TypeOK, Places
<1> QED BY <1>3, <1>4, <1>5 DEF Sends

\* So does the pacer.
LEMMA PacerType ==
    ASSUME TypeOK, Pop \/ PacerStops
    PROVE  TypeOK'
<1>0. "pacer" \in Threads
  BY DEF Threads
<1>1. CASE Pop
  <2>1. /\ paced \in Seq(Bytes) /\ paced # <<>>
        /\ Head(paced) \in Bytes /\ Tail(paced) \in Seq(Bytes)
    BY <1>1 DEF Pop, TypeOK
  <2>2. <<Head(paced)>> \in Seq(Bytes)
    BY <2>1
  <2>3. hand' \in [Threads -> Seq(Bytes)]
    BY <1>1, <2>2 DEF Pop, TypeOK
  <2>4. Goes("pacer", "direct") /\ paced' \in Seq(Bytes)
    BY <1>1, <2>1 DEF Pop
  <2> QED BY <1>0, <1>1, <2>3, <2>4, GoesType DEF Pop, setUpVars, lineVars, TypeOK, Places
<1>2. CASE PacerStops
  <2>1. Goes("pacer", "gone")
    BY <1>2 DEF PacerStops
  <2> QED BY <1>0, <1>2, <2>1, GoesType DEF PacerStops, setUpVars, lineVars, TypeOK, Places
<1> QED BY <1>1, <1>2

\* And each of the UI thread's own steps.
LEMMA UiType ==
    ASSUME TypeOK, Ui, ~Sends("ui")
    PROVE  TypeOK'
<1>0. "ui" \in Threads
  BY DEF Threads
<1>1. CASE FindPace
  <2>1. slow' \in [{"ui", "io"} -> BOOLEAN] /\ sent' \in [Kinds -> Nat]
    <3>1. setup.limited \in BOOLEAN
      BY DEF TypeOK, SetUps
    <3>2. \/ slow' = slow /\ sent' = sent
          \/ /\ slow' = [slow EXCEPT !["ui"] = setup.limited]
             /\ sent' = [sent EXCEPT !["keys"] = sent["keys"] + 1]
      BY <1>1 DEF FindPace
    <3>3. slow' \in [{"ui", "io"} -> BOOLEAN]
      BY <3>1, <3>2 DEF TypeOK
    <3>4. sent' \in [Kinds -> Nat]
      BY <3>2, CountType DEF TypeOK, Kinds
    <3> QED BY <3>3, <3>4
  <2>2. hand' \in [Threads -> Seq(Bytes)]
    BY <1>0, <1>1, EmptiedType DEF FindPace, TypeOK
  <2>3. \E place \in {"sending", "home"} : Goes("ui", place)
    BY <1>1 DEF FindPace
  <2> QED BY <1>0, <1>1, <2>1, <2>2, <2>3, GoesType DEF FindPace, setUpVars, lineVars, TypeOK, Places
<1>2. CASE LeaveSetUp
  <2>1. GoesAndWakes("home") /\ held' \in BOOLEAN
    BY <1>2 DEF LeaveSetUp, TypeOK, SetUps
  <2> QED BY <1>2, <2>1, WakesType DEF LeaveSetUp, lineVars, TypeOK, Places
<1>3. CASE CloseLetsGo
  <2>1. GoesAndWakes("home") /\ held' \in BOOLEAN
    BY <1>3 DEF CloseLetsGo, HeldWhenClosed
  <2> QED BY <1>3, <2>1, WakesType DEF CloseLetsGo, setUpVars, lineVars, TypeOK, Places
<1>4. ASSUME NEW length \in KeyLengths, PressKey(length) PROVE TypeOK'
  <2>1. Message("keys", sent.keys + 1, length) \in Seq(Bytes)
    <3>1. length \in Nat /\ sent.keys + 1 \in Nat /\ "keys" \in Kinds
      BY SettingsAssumption DEF TypeOK, Kinds
    <3> QED BY <3>1, MessageType
  <2>2. hand' \in [Threads -> Seq(Bytes)]
    BY <1>4, <2>1 DEF PressKey, TypeOK
  <2>3. Goes("ui", "checked")
    BY <1>4 DEF PressKey
  <2> QED BY <1>0, <1>4, <2>2, <2>3, GoesType DEF PressKey, setUpVars, lineVars, TypeOK, Places
<1>5. CASE HoldScreen
  <2>1. GoesAndWakes("home")
    BY <1>5 DEF HoldScreen
  <2> QED BY <1>5, <2>1, WakesType DEF HoldScreen, setUpVars, lineVars, TypeOK, Places
<1>6. CASE OpenSetUp
  <2>1. GoesAndWakes("home")
    BY <1>6 DEF OpenSetUp
  <2> QED BY <1>6, <2>1, WakesType DEF OpenSetUp, lineVars, TypeOK, Places
<1>7. ASSUME NEW s \in SetUps, ApplySetUp(s) PROVE TypeOK'
  <2>1. Goes("ui", "leaving")
    BY <1>7 DEF ApplySetUp
  <2> QED BY <1>0, <1>7, <2>1, GoesType DEF ApplySetUp, lineVars, TypeOK, Places
<1>8. CASE Close
  <2>1. Goes("ui", "closing")
    BY <1>8 DEF Close
  <2> QED BY <1>0, <1>8, <2>1, GoesType DEF Close, setUpVars, lineVars, TypeOK, Places
<1>9. CASE StartTransfer \/ CancelTransfer
  <2>1. PICK offer \in Offers("opening") :
           /\ hand' = [hand EXCEPT !.ui = offer]
           /\ sent' = [sent EXCEPT !.opening = @ + Len(offer)]
           /\ Goes("ui", IF offer = <<>> THEN "home" ELSE "direct")
    BY <1>9 DEF StartTransfer, CancelTransfer
  <2>2. offer \in Seq(Bytes) /\ Len(offer) \in Nat
    BY OfferType DEF Kinds
  <2>3. hand' \in [Threads -> Seq(Bytes)]
    BY <2>1, <2>2 DEF TypeOK
  <2>4. sent' \in [Kinds -> Nat]
    BY <2>1, <2>2, CountType DEF Kinds
  <2>5. /\ at' \in [Threads -> Places]
        /\ \A u, v \in Threads : at'[u] = "writing" /\ at'[v] = "writing" => u = v
    BY <1>0, <2>1, GoesType DEF Places
  <2> QED BY <1>9, <2>3, <2>4, <2>5 DEF StartTransfer, CancelTransfer, setUpVars, lineVars, TypeOK
<1> QED BY <1>1, <1>2, <1>3, <1>4, <1>5, <1>6, <1>7, <1>8, <1>9 DEF Ui

\* And each of the I/O thread's.
LEMMA IoType ==
    ASSUME TypeOK, Io, ~Sends("io")
    PROVE  TypeOK'
<1>0. "io" \in Threads
  BY DEF Threads
<1>1. CASE WaitWhileHeld
  <2>1. \E place \in {"gone", "waiting", "reading"} : Goes("io", place)
    BY <1>1 DEF WaitWhileHeld
  <2> QED BY <1>0, <1>1, <2>1, GoesType DEF WaitWhileHeld, setUpVars, lineVars, TypeOK, Places
<1>2. ASSUME NEW c \in Chunks, Read(c) PROVE TypeOK'
  <2>1. \E place \in {"obeying", "routing"} : Goes("io", place)
    BY <1>2 DEF Read
  <2>2. chunk' \in Readings
    BY <1>2, ChunksAssumption DEF Read
  <2> QED BY <1>0, <1>2, <2>1, <2>2, GoesType DEF Read, setUpVars, lineVars, TypeOK, Places
<1>3. CASE HostGoes
  <2>1. Goes("io", "gone")
    BY <1>3 DEF HostGoes
  <2> QED BY <1>0, <1>3, <2>1, GoesType DEF HostGoes, setUpVars, lineVars, TypeOK, Places
<1>4. ASSUME Obeyed
      PROVE  /\ chunk' \in Readings
             /\ at' \in [Threads -> Places]
             /\ \A u, v \in Threads : at'[u] = "writing" /\ at'[v] = "writing" => u = v
  <2>1. \E place \in {"obeying", "routing"} : Goes("io", place)
    BY <1>4 DEF Obeyed
  <2>2. chunk.flow \in Seq({"xon", "xoff"}) /\ chunk.flow # <<>>
    BY <1>4 DEF Obeyed, TypeOK, Readings
  <2>3. Tail(chunk.flow) \in Seq({"xon", "xoff"})
    BY <2>2
  <2>4. chunk' \in Readings
    BY <1>4, <2>3 DEF Obeyed, TypeOK, Readings
  <2> QED BY <1>0, <2>1, <2>4, GoesType DEF Places
<1>5. CASE Xoff
  <2>1. Obeyed
    BY <1>5 DEF Xoff
  <2> QED BY <1>4, <1>5, <2>1 DEF Xoff, Obeyed, setUpVars, TypeOK
<1>6. CASE Xon
  <2>1. Obeyed
    BY <1>6 DEF Xon
  <2>2. queued' \in Seq(Bytes) /\ line' \in Seq(Bytes) /\ late' \in Nat /\ stopped' \in BOOLEAN
    <3>1. line \in Seq(Bytes) /\ queued \in Seq(Bytes)
      BY DEF TypeOK
    <3>2. line \o queued \in Seq(Bytes) /\ <<>> \in Seq(Bytes)
      BY <3>1
    <3>3. queued' = <<>> /\ line' = line \o queued /\ late' = 0 /\ stopped' = FALSE
      BY <1>6 DEF Xon, LeftQueued
    <3> QED BY <3>2, <3>3
  <2> QED BY <1>4, <1>6, <2>1, <2>2 DEF Obeyed, setUpVars, TypeOK
<1>7. CASE FeedTransfer
  <2>1. PICK offer \in Offers("packets") :
           /\ hand' = [hand EXCEPT !.io = offer]
           /\ sent' = [sent EXCEPT !.packets = @ + Len(offer)]
           /\ Goes("io", IF offer = <<>> THEN "home" ELSE "direct")
    BY <1>7 DEF FeedTransfer
  <2>2. offer \in Seq(Bytes) /\ Len(offer) \in Nat
    BY OfferType DEF Kinds
  <2>3. hand' \in [Threads -> Seq(Bytes)]
    BY <2>1, <2>2 DEF TypeOK
  <2>4. sent' \in [Kinds -> Nat]
    BY <2>1, <2>2, CountType DEF Kinds
  <2>5. /\ at' \in [Threads -> Places]
        /\ \A u, v \in Threads : at'[u] = "writing" /\ at'[v] = "writing" => u = v
    BY <1>0, <2>1, GoesType DEF Places
  <2>6. Nothing \in Readings
    BY DEF Nothing, Readings
  <2> QED BY <1>7, <2>3, <2>4, <2>5, <2>6 DEF FeedTransfer, setUpVars, lineVars, TypeOK
<1>8. CASE LingerEnds
  BY <1>8 DEF LingerEnds, setUpVars, lineVars, TypeOK
<1>9. CASE RouteToTerminal
  <2>1. Goes("io", "advancing")
    BY <1>9 DEF RouteToTerminal
  <2> QED BY <1>0, <1>9, <2>1, GoesType DEF RouteToTerminal, setUpVars, lineVars, TypeOK, Places
<1>10. CASE Advance
  <2>1. Message("replies", sent.replies + 1, 2) \in Seq(Bytes)
    <3>1. sent.replies + 1 \in Nat /\ "replies" \in Kinds
      BY DEF TypeOK, Kinds
    <3> QED BY <3>1, MessageType
  <2>2. hand' \in [Threads -> Seq(Bytes)]
    BY <1>10, <2>1 DEF Advance, TypeOK
  <2>3. slow' \in [{"ui", "io"} -> BOOLEAN] /\ sent' \in [Kinds -> Nat]
    <3>1. setup.limited \in BOOLEAN
      BY DEF TypeOK, SetUps
    <3>2. \/ slow' = slow /\ sent' = sent
          \/ /\ slow' = [slow EXCEPT !["io"] = setup.limited]
             /\ sent' = [sent EXCEPT !["replies"] = sent["replies"] + 1]
      BY <1>10 DEF Advance
    <3>3. slow' \in [{"ui", "io"} -> BOOLEAN]
      BY <3>1, <3>2 DEF TypeOK
    <3>4. sent' \in [Kinds -> Nat]
      BY <3>2, CountType DEF TypeOK, Kinds
    <3> QED BY <3>3, <3>4
  <2>4. \E place \in {"sending", "home"} : Goes("io", place)
    BY <1>10 DEF Advance
  <2>5. Nothing \in Readings
    BY DEF Nothing, Readings
  <2> QED BY <1>0, <1>10, <2>2, <2>3, <2>4, <2>5, GoesType DEF Advance, setUpVars, lineVars, TypeOK, Places
<1> QED BY <1>1, <1>2, <1>3, <1>5, <1>6, <1>7, <1>8, <1>9, <1>10 DEF Io

-----------------------------------------------------------------------------
(* XOFF. *)

\* The places of a thread's step, as far as the lock is concerned: whoever
\* goes anywhere but to "writing" takes it from nobody.
LEMMA FreeStays ==
    ASSUME TypeOK, LineFree, NEW t \in Threads, NEW place \in Places \ {"writing"},
           Goes(t, place)
    PROVE  LineFree'
BY DEF TypeOK, LineFree, Goes

\* The same of a step that wakes the I/O thread.
LEMMA FreeWakes ==
    ASSUME TypeOK, LineFree, NEW place \in Places \ {"writing"}, GoesAndWakes(place)
    PROVE  LineFree'
BY DEF TypeOK, LineFree, GoesAndWakes, Threads

\* A step that leaves the line as it is and starts no write keeps what XOFF
\* promises.
LEMMA StoppingKept ==
    ASSUME Stopping, UNCHANGED lineVars, LineFree => LineFree'
    PROVE  Stopping'
BY DEF Stopping, NothingWaitsUnstopped, lineVars, LineFree

\* Only the holder of the line writes, so the write after XOFF leaves it free;
\* and none begins while the line is stopped.
LEMMA SendsStopping ==
    ASSUME TypeOK, Stopping, NEW t \in Threads, Sends(t)
    PROVE  Stopping'
<1>1. CASE SendPaced(t)
  <2>1. \E place \in Places \ {"writing"} : Goes(t, place)
    BY <1>1 DEF SendPaced, Places
  <2>2. UNCHANGED lineVars
    BY <1>1 DEF SendPaced
  <2> QED BY <2>1, <2>2, FreeStays, StoppingKept
<1>2. CASE Transmit(t) /\ stopped
  <2>1. Goes(t, "home") /\ LineFree
    BY <1>2 DEF Transmit, Waits
  <2>2. LineFree'
    BY <2>1, FreeStays DEF Places
  <2> QED BY <1>2, <2>2 DEF Transmit, Stopping, NothingWaitsUnstopped
<1>3. CASE Transmit(t) /\ ~stopped
  BY <1>3 DEF Transmit, Waits, Stopping, NothingWaitsUnstopped
<1>4. CASE Write(t)
  <2>1. at[t] = "writing" /\ ~LineFree
    BY <1>4 DEF Write, LineFree
  <2>2. Goes(t, "home")
    BY <1>4 DEF Write
  <2>3. \A u \in Threads : at'[u] # "writing"
    BY <2>1, <2>2 DEF TypeOK, Goes
  <2>4. LineFree'
    BY <2>3 DEF LineFree
  <2>5. stopped => late = 0
    BY <2>1 DEF Stopping
  <2> QED BY <1>4, <2>4, <2>5 DEF Write, Stopping, NothingWaitsUnstopped
<1> QED BY <1>1, <1>2, <1>3, <1>4 DEF Sends

LEMMA UiStopping ==
    ASSUME TypeOK, Stopping, Ui, ~Sends("ui")
    PROVE  Stopping'
<1>1. UNCHANGED lineVars
  BY DEF Ui, FindPace, LeaveSetUp, CloseLetsGo, PressKey, HoldScreen, OpenSetUp,
         ApplySetUp, Close, StartTransfer, CancelTransfer
<1>2. \/ \E place \in Places \ {"writing"} : Goes("ui", place)
      \/ GoesAndWakes("home")
  <2>1. CASE FindPace \/ \E length \in KeyLengths : PressKey(length)
    BY <2>1 DEF FindPace, PressKey, Places
  <2>2. CASE LeaveSetUp \/ CloseLetsGo \/ HoldScreen \/ OpenSetUp
    BY <2>2 DEF LeaveSetUp, CloseLetsGo, HoldScreen, OpenSetUp, Places
  <2>3. CASE (\E s \in SetUps : ApplySetUp(s)) \/ Close
    BY <2>3 DEF ApplySetUp, Close, Places
  <2>4. CASE StartTransfer \/ CancelTransfer
    BY <2>4 DEF StartTransfer, CancelTransfer, Places
  <2> QED BY <2>1, <2>2, <2>3, <2>4 DEF Ui
<1>3. LineFree => LineFree'
  BY <1>2, FreeStays, FreeWakes DEF Threads, Places
<1> QED BY <1>1, <1>3, StoppingKept

LEMMA IoStopping ==
    ASSUME TypeOK, Stopping, Io, ~Sends("io")
    PROVE  Stopping'
<1>1. ASSUME NEW place \in Places \ {"writing"}, Goes("io", place)
      PROVE  LineFree => LineFree'
  BY <1>1, FreeStays DEF Threads
<1>2. CASE Xoff
  <2>1. Goes("io", "routing") \/ Goes("io", "obeying")
    BY <1>2 DEF Xoff, Obeyed
  <2>2. LineFree => LineFree'
    BY <1>1, <2>1 DEF Places
  <2> QED BY <1>2, <2>2 DEF Xoff, Stopping, NothingWaitsUnstopped
<1>3. CASE Xon
  BY <1>3 DEF Xon, LeftQueued, Stopping, NothingWaitsUnstopped
<1>4. CASE LingerEnds
  <2>1. UNCHANGED lineVars /\ (LineFree => LineFree')
    BY <1>4 DEF LingerEnds, LineFree
  <2> QED BY <2>1, StoppingKept
<1>5. CASE WaitWhileHeld \/ (\E c \in Chunks : Read(c)) \/ HostGoes
           \/ FeedTransfer \/ RouteToTerminal \/ Advance
  <2>1. UNCHANGED lineVars
    BY <1>5 DEF WaitWhileHeld, Read, HostGoes, FeedTransfer, RouteToTerminal, Advance
  <2>2. \E place \in Places \ {"writing"} : Goes("io", place)
    BY <1>5 DEF WaitWhileHeld, Read, HostGoes, FeedTransfer, RouteToTerminal, Advance, Places
  <2> QED BY <1>1, <2>1, <2>2, StoppingKept
<1> QED BY <1>2, <1>3, <1>4, <1>5 DEF Io

LEMMA PacerStopping ==
    ASSUME TypeOK, Stopping, Pop \/ PacerStops
    PROVE  Stopping'
<1>1. UNCHANGED lineVars
  BY DEF Pop, PacerStops
<1>2. \E place \in Places \ {"writing"} : Goes("pacer", place)
  BY DEF Pop, PacerStops, Places
<1>3. LineFree => LineFree'
  BY <1>2, FreeStays DEF Threads
<1> QED BY <1>1, <1>3, StoppingKept

-----------------------------------------------------------------------------
(* The theorems. *)

LEMMA InitHolds == Init => IInv
<1> SUFFICES ASSUME Init PROVE IInv
  OBVIOUS
<1>1. <<>> \in Seq(Bytes) /\ Nothing \in Readings
  BY DEF Nothing, Readings
<1>2. TypeOK
  BY <1>1, SettingsAssumption DEF Init, TypeOK, Places
<1>3. Stopping
  BY DEF Init, Stopping, NothingWaitsUnstopped
<1> QED BY <1>2, <1>3 DEF IInv

LEMMA NextKeeps == IInv /\ [Next]_vars => IInv'
<1> SUFFICES ASSUME IInv, [Next]_vars PROVE IInv'
  OBVIOUS
<1> USE DEF IInv
<1>1. ASSUME NEW t \in Threads, Sends(t) PROVE IInv'
  BY <1>1, SendsType, SendsStopping
<1>2. CASE Ui /\ ~Sends("ui")
  BY <1>2, UiType, UiStopping
<1>3. CASE Io /\ ~Sends("io")
  BY <1>3, IoType, IoStopping
<1>4. CASE Pop \/ PacerStops
  BY <1>4, PacerType, PacerStopping
<1>5. CASE UNCHANGED vars
  BY <1>5 DEF vars, TypeOK, Stopping, NothingWaitsUnstopped, LineFree
<1>6. Pacer => Sends("pacer") \/ Pop \/ PacerStops
  BY DEF Pacer, Sends
<1> QED BY <1>1, <1>2, <1>3, <1>4, <1>5, <1>6 DEF Next, Threads

THEOREM Invariance == Spec => []IInv
BY InitHolds, NextKeeps, PTL DEF Spec

\* Every thread is somewhere it can be and has bytes in hand, and the lock on
\* what is queued has one holder: transmit and XON cannot meet in it.
THEOREM LockHasOneHolder == Spec => []TypeOK
BY Invariance, PTL DEF IInv

\* Nothing is left waiting for an XON that has come, whichever threads were on
\* their way to the queue as it was let out.
THEOREM NothingIsLeftWaiting == Spec => []NothingWaitsUnstopped
<1>1. IInv => NothingWaitsUnstopped
  BY DEF IInv, Stopping
<1> QED BY Invariance, <1>1, PTL

\* However many threads are sending, one write at most follows XOFF.
THEOREM XoffStopsAllButOne == Spec => []OneWriteAfterXoff
<1>1. IInv => OneWriteAfterXoff
  BY DEF IInv, Stopping, OneWriteAfterXoff
<1> QED BY Invariance, <1>1, PTL

-----------------------------------------------------------------------------
(***************************************************************************)
(* That what each thread sends goes out in order and whole, for every       *)
(* length of key, chunk and bound, while the transmit rate limit is not     *)
(* turned on or off.  What is on the line, queued for XON, with the pacer   *)
(* and paced is one stream, and a step does one of three things to it:      *)
(* nothing, whatever it moves from one part to the next; it adds at the end *)
(* what a thread has in hand; or it puts a packet of a transfer, which is   *)
(* never paced, before what is.                                             *)
(***************************************************************************)

\* The bytes of a sequence.
In(s) == {s[i] : i \in 1 .. Len(s)}

Sorted(kind, s) ==
    \A i, j \in 1 .. Len(s) :
       i < j /\ s[i].by = kind /\ s[j].by = kind => Precedes(s[i], s[j])

Ahead(kind, A, B) == \A b \in A, c \in B : b.by = kind /\ c.by = kind => Precedes(b, c)

Fits(kind, A, count) ==
    \A b \in A : b.by = kind => b.number \in 1 .. count /\ b.part \in 1 .. b.of

Complete(kind, A, count) ==
    \A n \in 1 .. count : \E b \in A :
       b.by = kind /\ b.number = n /\ \A p \in 1 .. b.of : [b EXCEPT !.part = p] \in A

-----------------------------------------------------------------------------
(* Sequences put together. *)

\* What is in two sequences is in the two put together.
LEMMA ConcatIn ==
    ASSUME NEW a \in Seq(Bytes), NEW b \in Seq(Bytes)
    PROVE  In(a \o b) = In(a) \cup In(b)
<1>1. /\ Len(a) \in Nat /\ Len(b) \in Nat /\ Len(a \o b) = Len(a) + Len(b)
      /\ \A i \in 1 .. Len(a) : (a \o b)[i] = a[i]
      /\ \A i \in 1 .. Len(b) : (a \o b)[Len(a) + i] = b[i]
  OBVIOUS
<1> DEFINE c == a \o b
<1> HIDE DEF c
<1>2. In(a) \subseteq In(c)
  BY <1>1 DEF In, c
<1>3. In(b) \subseteq In(c)
  <2> SUFFICES ASSUME NEW i \in 1 .. Len(b) PROVE b[i] \in In(c)
    BY DEF In
  <2>1. Len(a) + i \in 1 .. Len(c) /\ c[Len(a) + i] = b[i]
    BY <1>1 DEF c
  <2> QED
    BY <2>1 DEF In
<1>4. In(c) \subseteq In(a) \cup In(b)
  <2> SUFFICES ASSUME NEW i \in 1 .. Len(c) PROVE c[i] \in In(a) \cup In(b)
    BY DEF In
  <2>1. CASE i <= Len(a)
    BY <1>1, <2>1 DEF In, c
  <2>2. CASE i > Len(a)
    <3>1. i - Len(a) \in 1 .. Len(b) /\ c[i] = b[i - Len(a)]
      BY <1>1, <2>2 DEF c
    <3> QED
      BY <3>1 DEF In
  <2> QED
    BY <1>1, <2>1, <2>2 DEF c
<1> QED
  BY <1>2, <1>3, <1>4 DEF c

\* Two sequences put together are sorted if each is and the one is ahead of the
\* other, and only then.
LEMMA ConcatSorted ==
    ASSUME NEW kind, NEW a \in Seq(Bytes), NEW b \in Seq(Bytes)
    PROVE  Sorted(kind, a \o b) <=>
             Sorted(kind, a) /\ Sorted(kind, b) /\ Ahead(kind, In(a), In(b))
<1> DEFINE c == a \o b
<1>1. /\ Len(a) \in Nat /\ Len(b) \in Nat /\ Len(c) = Len(a) + Len(b)
      /\ \A i \in 1 .. Len(a) : c[i] = a[i]
      /\ \A i \in 1 .. Len(b) : c[Len(a) + i] = b[i]
  OBVIOUS
<1> HIDE DEF c
<1>2. ASSUME Sorted(kind, c)
      PROVE  Sorted(kind, a) /\ Sorted(kind, b) /\ Ahead(kind, In(a), In(b))
  <2>1. Sorted(kind, a)
    BY <1>1, <1>2 DEF Sorted
  <2>2. Sorted(kind, b)
    <3> SUFFICES ASSUME NEW i \in 1 .. Len(b), NEW j \in 1 .. Len(b),
                        i < j, b[i].by = kind, b[j].by = kind
                 PROVE  Precedes(b[i], b[j])
      BY DEF Sorted
    <3>1. /\ Len(a) + i \in 1 .. Len(c) /\ Len(a) + j \in 1 .. Len(c)
          /\ Len(a) + i < Len(a) + j
          /\ c[Len(a) + i] = b[i] /\ c[Len(a) + j] = b[j]
      BY <1>1
    <3> QED
      BY <1>2, <3>1 DEF Sorted
  <2>3. Ahead(kind, In(a), In(b))
    <3> SUFFICES ASSUME NEW i \in 1 .. Len(a), NEW j \in 1 .. Len(b),
                        a[i].by = kind, b[j].by = kind
                 PROVE  Precedes(a[i], b[j])
      BY DEF Ahead, In
    <3>1. /\ i \in 1 .. Len(c) /\ Len(a) + j \in 1 .. Len(c) /\ i < Len(a) + j
          /\ c[i] = a[i] /\ c[Len(a) + j] = b[j]
      BY <1>1
    <3> QED
      BY <1>2, <3>1 DEF Sorted
  <2> QED
    BY <2>1, <2>2, <2>3
<1>3. ASSUME Sorted(kind, a), Sorted(kind, b), Ahead(kind, In(a), In(b))
      PROVE  Sorted(kind, c)
  <2> SUFFICES ASSUME NEW i \in 1 .. Len(c), NEW j \in 1 .. Len(c),
                      i < j, c[i].by = kind, c[j].by = kind
               PROVE  Precedes(c[i], c[j])
    BY DEF Sorted
  <2>1. CASE j <= Len(a)
    BY <1>1, <1>3, <2>1, SMTT(60) DEF Sorted
  <2>2. CASE i > Len(a)
    <3>1. /\ i - Len(a) \in 1 .. Len(b) /\ j - Len(a) \in 1 .. Len(b)
          /\ i - Len(a) < j - Len(a) /\ c[i] = b[i - Len(a)] /\ c[j] = b[j - Len(a)]
      BY <1>1, <2>2
    <3> QED
      BY <1>3, <3>1 DEF Sorted
  <2>3. CASE i <= Len(a) /\ j > Len(a)
    <3>1. /\ i \in 1 .. Len(a) /\ j - Len(a) \in 1 .. Len(b)
          /\ c[i] = a[i] /\ c[j] = b[j - Len(a)]
      BY <1>1, <2>3, SMTT(60)
    <3>2. a[i] \in In(a) /\ b[j - Len(a)] \in In(b)
      BY <3>1 DEF In
    <3> QED
      BY <1>3, <3>1, <3>2 DEF Ahead
  <2> QED
    BY <1>1, <2>1, <2>2, <2>3
<1> QED
  BY <1>2, <1>3 DEF c

\* The same of three sequences.
LEMMA ConcatIn3 ==
    ASSUME NEW a \in Seq(Bytes), NEW b \in Seq(Bytes), NEW c \in Seq(Bytes)
    PROVE  In((a \o b) \o c) = In(a) \cup In(b) \cup In(c)
<1> DEFINE ab == a \o b
<1>1. ab \in Seq(Bytes) /\ In(ab) = In(a) \cup In(b)
  BY ConcatIn
<1> HIDE DEF ab
<1>2. In(ab \o c) = In(ab) \cup In(c)
  BY <1>1, ConcatIn
<1>3. In(ab \o c) = In(a) \cup In(b) \cup In(c)
  BY <1>1, <1>2
<1> QED
  BY <1>3 DEF ab

LEMMA ConcatSorted3 ==
    ASSUME NEW kind, NEW a \in Seq(Bytes), NEW b \in Seq(Bytes), NEW c \in Seq(Bytes)
    PROVE  Sorted(kind, (a \o b) \o c) <=>
             /\ Sorted(kind, a) /\ Sorted(kind, b) /\ Sorted(kind, c)
             /\ Ahead(kind, In(a), In(b)) /\ Ahead(kind, In(a), In(c)) /\ Ahead(kind, In(b), In(c))
<1> DEFINE ab == a \o b
<1>1. ab \in Seq(Bytes) /\ In(ab) = In(a) \cup In(b)
  BY ConcatIn
<1>2. Sorted(kind, ab) <=> Sorted(kind, a) /\ Sorted(kind, b) /\ Ahead(kind, In(a), In(b))
  BY ConcatSorted
<1> HIDE DEF ab
<1>3. Sorted(kind, ab \o c) <=> Sorted(kind, ab) /\ Sorted(kind, c) /\ Ahead(kind, In(ab), In(c))
  BY <1>1, ConcatSorted
<1>4. Ahead(kind, In(ab), In(c)) <=> Ahead(kind, In(a), In(c)) /\ Ahead(kind, In(b), In(c))
  BY <1>1 DEF Ahead
<1>5. Sorted(kind, ab \o c) <=>
        /\ Sorted(kind, a) /\ Sorted(kind, b) /\ Sorted(kind, c)
        /\ Ahead(kind, In(a), In(b)) /\ Ahead(kind, In(a), In(c)) /\ Ahead(kind, In(b), In(c))
  BY <1>2, <1>3, <1>4
<1> QED
  BY <1>5 DEF ab

\* Being unbroken is being sorted, of the messages counted, and complete.
LEMMA UnbrokenParts ==
    ASSUME NEW kind, NEW s \in Seq(Bytes), NEW count \in Nat
    PROVE  Unbroken(kind, s, count) <=>
             Sorted(kind, s) /\ Fits(kind, In(s), count) /\ Complete(kind, In(s), count)
<1> DEFINE mine == {i \in 1 .. Len(s) : s[i].by = kind}
<1>1. (\A i, j \in mine : i < j => Precedes(s[i], s[j])) <=> Sorted(kind, s)
  BY DEF Sorted
<1>2. (\A i \in mine : s[i].number \in 1 .. count /\ s[i].part \in 1 .. s[i].of)
        <=> Fits(kind, In(s), count)
  BY DEF Fits, In
<1>3. ASSUME NEW n \in 1 .. count, NEW i \in mine, NEW p \in 1 .. s[i].of
      PROVE  (\E j \in mine : s[j] = [s[i] EXCEPT !.part = p])
               <=> [s[i] EXCEPT !.part = p] \in In(s)
  <2>1. s[i] \in Bytes
    OBVIOUS
  <2>2. [s[i] EXCEPT !.part = p].by = kind
    BY <2>1 DEF Bytes
  <2> QED
    BY <2>2 DEF In
<1>4. (\A n \in 1 .. count : \E i \in mine :
         /\ s[i].number = n
         /\ \A p \in 1 .. s[i].of : \E j \in mine : s[j] = [s[i] EXCEPT !.part = p])
        <=> Complete(kind, In(s), count)
  <2>1. ASSUME NEW n \in 1 .. count
        PROVE  (\E i \in mine :
                  /\ s[i].number = n
                  /\ \A p \in 1 .. s[i].of : \E j \in mine : s[j] = [s[i] EXCEPT !.part = p])
               <=> \E b \in In(s) : b.by = kind /\ b.number = n
                                    /\ \A p \in 1 .. b.of : [b EXCEPT !.part = p] \in In(s)
    <3>1. (\E i \in mine :
                  /\ s[i].number = n
                  /\ \A p \in 1 .. s[i].of : \E j \in mine : s[j] = [s[i] EXCEPT !.part = p])
          <=> \E i \in mine : /\ s[i].number = n
                              /\ \A p \in 1 .. s[i].of : [s[i] EXCEPT !.part = p] \in In(s)
      BY <1>3, <2>1
    <3> QED
      BY <3>1 DEF In
  <2> QED
    BY <2>1 DEF Complete
<1> QED
  BY <1>1, <1>2, <1>4 DEF Unbroken

\* Two neighbours that share no byte of a kind may change places.
LEMMA MovedUnbroken ==
    ASSUME NEW kind, NEW count \in Nat,
           NEW a \in Seq(Bytes), NEW b \in Seq(Bytes), NEW x \in Seq(Bytes),
           Unbroken(kind, (a \o b) \o x, count),
           (\A c \in In(b) : c.by # kind) \/ (\A c \in In(x) : c.by # kind)
    PROVE  Unbroken(kind, (a \o x) \o b, count)
<1> DEFINE s == (a \o b) \o x
           t == (a \o x) \o b
<1>1. s \in Seq(Bytes) /\ t \in Seq(Bytes)
  OBVIOUS
<1>2. In(s) = In(t)
  <2>1. In(s) = In(a) \cup In(b) \cup In(x)
    BY ConcatIn3
  <2>2. In(t) = In(a) \cup In(x) \cup In(b)
    BY ConcatIn3
  <2> HIDE DEF s, t
  <2> QED
    BY <2>1, <2>2
<1>3. Sorted(kind, s) <=>
        /\ Sorted(kind, a) /\ Sorted(kind, b) /\ Sorted(kind, x)
        /\ Ahead(kind, In(a), In(b)) /\ Ahead(kind, In(a), In(x)) /\ Ahead(kind, In(b), In(x))
  BY ConcatSorted3
<1>4. Sorted(kind, t) <=>
        /\ Sorted(kind, a) /\ Sorted(kind, x) /\ Sorted(kind, b)
        /\ Ahead(kind, In(a), In(x)) /\ Ahead(kind, In(a), In(b)) /\ Ahead(kind, In(x), In(b))
  BY ConcatSorted3
<1>5. Ahead(kind, In(x), In(b))
  <2>1. \A c \in In(x), d \in In(b) : ~(c.by = kind /\ d.by = kind)
    OBVIOUS
  <2> QED
    BY <2>1, Zenon DEF Ahead
<1>6. Unbroken(kind, s, count)
  OBVIOUS
<1> HIDE DEF s, t
<1>7. Sorted(kind, s) /\ Fits(kind, In(s), count) /\ Complete(kind, In(s), count)
  BY <1>1, <1>6, UnbrokenParts
<1>8. Unbroken(kind, t, count)
  BY <1>1, <1>2, <1>3, <1>4, <1>5, <1>7, UnbrokenParts
<1> QED
  BY <1>8 DEF t

\* Bytes of other kinds, put in anywhere or taken out, break nothing.
LEMMA AmongOthers ==
    ASSUME NEW kind, NEW count \in Nat,
           NEW a \in Seq(Bytes), NEW b \in Seq(Bytes), NEW x \in Seq(Bytes),
           \A c \in In(x) : c.by # kind
    PROVE  Unbroken(kind, (a \o x) \o b, count) <=> Unbroken(kind, a \o b, count)
<1> DEFINE s == (a \o x) \o b
           t == a \o b
<1>1. s \in Seq(Bytes) /\ t \in Seq(Bytes)
  OBVIOUS
<1>2. In(s) = In(a) \cup In(x) \cup In(b) /\ In(t) = In(a) \cup In(b)
  BY ConcatIn, ConcatIn3
<1>3. Sorted(kind, x) /\ Ahead(kind, In(a), In(x)) /\ Ahead(kind, In(x), In(b))
  <2>1. \A i \in 1 .. Len(x) : x[i].by # kind
    BY DEF In
  <2> QED
    BY <2>1 DEF Sorted, Ahead
<1>4. Sorted(kind, s) <=> Sorted(kind, t)
  <2>1. Sorted(kind, s) <=>
          /\ Sorted(kind, a) /\ Sorted(kind, x) /\ Sorted(kind, b)
          /\ Ahead(kind, In(a), In(x)) /\ Ahead(kind, In(a), In(b)) /\ Ahead(kind, In(x), In(b))
    BY ConcatSorted3
  <2>2. Sorted(kind, t) <=> Sorted(kind, a) /\ Sorted(kind, b) /\ Ahead(kind, In(a), In(b))
    BY ConcatSorted
  <2> QED
    BY <1>3, <2>1, <2>2
<1>5. In(s) \subseteq Bytes
  BY <1>1 DEF In
<1> HIDE DEF s, t
<1>6. Fits(kind, In(s), count) <=> Fits(kind, In(t), count)
  BY <1>2 DEF Fits
<1>7. Complete(kind, In(s), count) <=> Complete(kind, In(t), count)
  <2>1. \A c \in In(s) : c.by = kind => c \in In(t)
    BY <1>2
  <2>2. In(t) \subseteq In(s)
    BY <1>2
  <2>3. \A c \in In(s) : \A p : c.by = kind => [c EXCEPT !.part = p].by = kind
    BY <1>5 DEF Bytes
  <2>4. \A c \in In(s) : \A p : c.by = kind =>
          ([c EXCEPT !.part = p] \in In(s) <=> [c EXCEPT !.part = p] \in In(t))
    BY <2>1, <2>2, <2>3
  <2> QED
    BY <2>1, <2>2, <2>4 DEF Complete
<1>8. Unbroken(kind, s, count) <=> Unbroken(kind, t, count)
  BY <1>1, <1>4, <1>6, <1>7, UnbrokenParts
<1> QED
  BY <1>8 DEF s, t

\* The next message of a kind, whole, carries the count on.
LEMMA NextMessage ==
    ASSUME NEW kind \in Kinds, NEW count \in Nat, NEW length \in Nat \ {0},
           NEW a \in Seq(Bytes), Unbroken(kind, a, count)
    PROVE  Unbroken(kind, a \o Message(kind, count + 1, length), count + 1)
<1> DEFINE x == Message(kind, count + 1, length)
           byte(p) == [by |-> kind, number |-> count + 1, part |-> p, of |-> length]
           s == a \o x
<1>1. x \in Seq(Bytes) /\ s \in Seq(Bytes)
  BY MessageType
<1>2. Len(x) = length /\ \A i \in 1 .. length : x[i] = byte(i)
  BY DEF Message
<1> HIDE DEF x
<1>3. In(x) = {byte(p) : p \in 1 .. length}
  BY <1>2 DEF In
<1>4. In(s) = In(a) \cup In(x)
  BY <1>1, ConcatIn
<1>5. Sorted(kind, a) /\ Fits(kind, In(a), count) /\ Complete(kind, In(a), count)
  BY UnbrokenParts
<1>6. Sorted(kind, x)
  BY <1>1, <1>2 DEF Sorted, Precedes
<1>7. Ahead(kind, In(a), In(x))
  <2> SUFFICES ASSUME NEW b \in In(a), NEW c \in In(x), b.by = kind
               PROVE  Precedes(b, c)
    BY DEF Ahead
  <2>1. b.number \in 1 .. count
    BY <1>5 DEF Fits
  <2>2. c.number = count + 1
    BY <1>3
  <2> QED
    BY <2>1, <2>2 DEF Precedes
<1>8. Sorted(kind, s)
  BY <1>1, <1>5, <1>6, <1>7, ConcatSorted
<1> HIDE DEF s
<1>9. Fits(kind, In(s), count + 1)
  <2> SUFFICES ASSUME NEW b \in In(s), b.by = kind
               PROVE  b.number \in 1 .. count + 1 /\ b.part \in 1 .. b.of
    BY DEF Fits
  <2>1. CASE b \in In(a)
    BY <1>5, <2>1 DEF Fits
  <2>2. CASE b \in In(x)
    BY <1>3, <2>2
  <2> QED
    BY <1>4, <2>1, <2>2
<1>10. Complete(kind, In(s), count + 1)
  <2> SUFFICES ASSUME NEW n \in 1 .. count + 1
               PROVE  \E b \in In(s) : /\ b.by = kind /\ b.number = n
                                       /\ \A p \in 1 .. b.of : [b EXCEPT !.part = p] \in In(s)
    BY DEF Complete
  <2>1. CASE n \in 1 .. count
    <3>1. PICK b \in In(a) : /\ b.by = kind /\ b.number = n
                             /\ \A p \in 1 .. b.of : [b EXCEPT !.part = p] \in In(a)
      BY <1>5, <2>1 DEF Complete
    <3>2. b \in In(s) /\ \A p \in 1 .. b.of : [b EXCEPT !.part = p] \in In(s)
      BY <1>4, <3>1
    <3> QED
      BY <3>1, <3>2
  <2>2. CASE n = count + 1
    <3>1. byte(1) \in In(x)
      BY <1>3
    <3>2. \A p \in 1 .. length : [byte(1) EXCEPT !.part = p] = byte(p)
      OBVIOUS
    <3>3. \A p \in 1 .. length : [byte(1) EXCEPT !.part = p] \in In(x)
      BY <1>3, <3>2
    <3>4. byte(1).by = kind /\ byte(1).number = n /\ byte(1).of = length
      BY <2>2
    <3> QED
      BY <1>4, <3>1, <3>3, <3>4
  <2> QED
    BY <2>1, <2>2
<1>11. Unbroken(kind, s, count + 1)
  BY <1>1, <1>8, <1>9, <1>10, UnbrokenParts
<1> QED
  BY <1>11 DEF s, x

-----------------------------------------------------------------------------
(* What a key or a report sends, followed by what it sends next. *)

\* Each byte of a key or a report but the last of it has the next after it,
\* with no other key's or report's between.
Carried(s) ==
    \A i \in 1 .. Len(s) :
       Typed(s[i]) /\ s[i].part < s[i].of =>
          \E m \in i + 1 .. Len(s) :
             /\ s[m] = [s[i] EXCEPT !.part = @ + 1]
             /\ \A j \in i + 1 .. m - 1 : ~Typed(s[j])

\* A message is carried whole.
LEMMA MessageCarried ==
    ASSUME NEW kind, NEW number, NEW length \in Nat
    PROVE  Carried(Message(kind, number, length))
<1> DEFINE x == Message(kind, number, length)
           byte(p) == [by |-> kind, number |-> number, part |-> p, of |-> length]
<1>1. Len(x) = length /\ \A i \in 1 .. length : x[i] = byte(i)
  BY DEF Message
<1> HIDE DEF x
<1>2. ASSUME NEW i \in 1 .. Len(x), x[i].part < x[i].of
      PROVE  \E m \in i + 1 .. Len(x) :
                /\ x[m] = [x[i] EXCEPT !.part = @ + 1]
                /\ \A j \in i + 1 .. m - 1 : ~Typed(x[j])
  <2>1. i + 1 \in i + 1 .. Len(x)
    BY <1>1, <1>2
  <2>2. x[i + 1] = [x[i] EXCEPT !.part = @ + 1]
    BY <1>1, <2>1
  <2>3. \A j \in i + 1 .. (i + 1) - 1 : ~Typed(x[j])
    BY <1>1
  <2> QED
    BY <2>1, <2>2, <2>3
<1> QED
  BY <1>2 DEF Carried, x

\* Two sequences that carry theirs whole carry theirs whole put together.
LEMMA ConcatCarried ==
    ASSUME NEW a \in Seq(Bytes), NEW b \in Seq(Bytes), Carried(a), Carried(b)
    PROVE  Carried(a \o b)
<1> DEFINE c == a \o b
<1>1. /\ Len(a) \in Nat /\ Len(b) \in Nat /\ Len(c) = Len(a) + Len(b)
      /\ \A i \in 1 .. Len(a) : c[i] = a[i]
      /\ \A i \in 1 .. Len(b) : c[Len(a) + i] = b[i]
  OBVIOUS
<1> HIDE DEF c
<1>2. SUFFICES ASSUME NEW i \in 1 .. Len(c), Typed(c[i]), c[i].part < c[i].of
               PROVE  \E m \in i + 1 .. Len(c) :
                         /\ c[m] = [c[i] EXCEPT !.part = @ + 1]
                         /\ \A j \in i + 1 .. m - 1 : ~Typed(c[j])
  BY DEF Carried, c
<1>3. CASE i <= Len(a)
  <2>1. i \in 1 .. Len(a) /\ c[i] = a[i]
    BY <1>1, <1>3
  <2>2. PICK m \in i + 1 .. Len(a) :
             /\ a[m] = [a[i] EXCEPT !.part = @ + 1]
             /\ \A j \in i + 1 .. m - 1 : ~Typed(a[j])
    BY <1>2, <2>1 DEF Carried
  <2>3. m \in i + 1 .. Len(c) /\ c[m] = a[m] /\ \A j \in i + 1 .. m - 1 : c[j] = a[j]
    <3>1. m \in 1 .. Len(a) /\ m \in i + 1 .. Len(c)
      BY <1>1, <2>1
    <3>2. ASSUME NEW j \in i + 1 .. m - 1 PROVE c[j] = a[j]
      <4>1. j \in 1 .. Len(a)
        BY <1>1, <2>1
      <4> QED
        BY <1>1, <4>1
    <3> QED
      BY <1>1, <3>1, <3>2
  <2> QED
    <3>1. c[m] = [c[i] EXCEPT !.part = @ + 1]
      BY <2>1, <2>2, <2>3
    <3>2. \A j \in i + 1 .. m - 1 : ~Typed(c[j])
      BY <2>2, <2>3, Zenon
    <3> QED
      BY <2>3, <3>1, <3>2
<1>4. CASE i > Len(a)
  <2> DEFINE k == i - Len(a)
  <2>1. k \in 1 .. Len(b) /\ c[i] = b[k] /\ i = Len(a) + k
    BY <1>1, <1>4, SMTT(60)
  <2> HIDE DEF k
  <2>2. PICK m \in k + 1 .. Len(b) :
             /\ b[m] = [b[k] EXCEPT !.part = @ + 1]
             /\ \A j \in k + 1 .. m - 1 : ~Typed(b[j])
    BY <1>2, <2>1 DEF Carried
  <2>3. Len(a) + m \in i + 1 .. Len(c) /\ c[Len(a) + m] = b[m]
    BY <1>1, <2>1
  <2>4. ASSUME NEW j \in i + 1 .. (Len(a) + m) - 1 PROVE ~Typed(c[j])
    <3>1. j - Len(a) \in k + 1 .. m - 1 /\ j - Len(a) \in 1 .. Len(b)
      BY <1>1, <2>1
    <3>2. c[Len(a) + (j - Len(a))] = b[j - Len(a)] /\ Len(a) + (j - Len(a)) = j
      BY <1>1, <3>1, SMTT(60)
    <3> QED
      BY <2>2, <3>1, <3>2
  <2> QED
    BY <2>1, <2>2, <2>3, <2>4
<1>5. i <= Len(a) \/ i > Len(a)
  BY <1>1
<1> QED
  BY <1>3, <1>4, <1>5, Zenon

\* Packets put in anywhere carry nothing away.
LEMMA AmongCarried ==
    ASSUME NEW a \in Seq(Bytes), NEW b \in Seq(Bytes), NEW x \in Seq(Bytes),
           Carried(a \o b), \A c \in In(x) : ~Typed(c)
    PROVE  Carried((a \o x) \o b)
<1> DEFINE s == a \o b
           t == (a \o x) \o b
           moved(i) == IF i <= Len(a) THEN i ELSE i + Len(x)
<1>1. /\ Len(a) \in Nat /\ Len(b) \in Nat /\ Len(x) \in Nat
      /\ Len(s) = Len(a) + Len(b) /\ Len(t) = Len(a) + Len(x) + Len(b)
  OBVIOUS
<1>2. \A i \in 1 .. Len(s) : moved(i) \in 1 .. Len(t) /\ t[moved(i)] = s[i]
  OBVIOUS
<1>3. \A j \in Len(a) + 1 .. Len(a) + Len(x) : ~Typed(t[j])
  <2> SUFFICES ASSUME NEW j \in Len(a) + 1 .. Len(a) + Len(x) PROVE ~Typed(t[j])
    OBVIOUS
  <2>1. j - Len(a) \in 1 .. Len(x) /\ t[j] = x[j - Len(a)]
    BY <1>1
  <2> QED
    BY <2>1 DEF In
<1>4. Carried(s)
  OBVIOUS
<1> HIDE DEF s, t
<1>5. \A j \in 1 .. Len(t) : Typed(t[j]) => \E i \in 1 .. Len(s) : j = moved(i)
  <2> SUFFICES ASSUME NEW j \in 1 .. Len(t), Typed(t[j])
               PROVE  \E i \in 1 .. Len(s) : j = moved(i)
    OBVIOUS
  <2>1. CASE j <= Len(a)
    BY <1>1, <2>1
  <2>2. CASE j > Len(a)
    <3>1. j > Len(a) + Len(x)
      BY <1>1, <1>3, <2>2
    <3>2. j - Len(x) \in 1 .. Len(s) /\ j - Len(x) > Len(a) /\ (j - Len(x)) + Len(x) = j
      BY <1>1, <3>1
    <3> QED
      BY <1>1, <3>2
  <2> QED
    BY <1>1, <2>1, <2>2
<1>6. \A i, j \in 1 .. Len(s) : i < j <=> moved(i) < moved(j)
  BY <1>1
<1>7. \A i \in 1 .. Len(s) : moved(i) \in Nat
  BY <1>1
<1>8. SUFFICES ASSUME NEW k \in 1 .. Len(t), Typed(t[k]), t[k].part < t[k].of
               PROVE  \E m \in k + 1 .. Len(t) :
                         /\ t[m] = [t[k] EXCEPT !.part = @ + 1]
                         /\ \A j \in k + 1 .. m - 1 : ~Typed(t[j])
  BY DEF Carried, t
<1>9. PICK i \in 1 .. Len(s) : k = moved(i)
  BY <1>5, <1>8
<1>10. PICK m \in i + 1 .. Len(s) :
           /\ s[m] = [s[i] EXCEPT !.part = @ + 1]
           /\ \A j \in i + 1 .. m - 1 : ~Typed(s[j])
  BY <1>2, <1>4, <1>8, <1>9 DEF Carried
<1> HIDE DEF moved
<1>11. m \in 1 .. Len(s) /\ i < m
  BY <1>1
<1>12. moved(m) \in k + 1 .. Len(t) /\ t[moved(m)] = [t[k] EXCEPT !.part = @ + 1]
  <2>1. moved(i) < moved(m) /\ moved(m) \in 1 .. Len(t)
    BY <1>2, <1>6, <1>11
  <2> QED
    BY <1>1, <1>2, <1>9, <1>10, <1>11, <2>1
<1>13. ASSUME NEW j \in k + 1 .. moved(m) - 1 PROVE ~Typed(t[j])
  <2> SUFFICES ASSUME Typed(t[j]) PROVE FALSE
    OBVIOUS
  <2>1. j \in 1 .. Len(t)
    BY <1>1, <1>12
  <2>2. PICK l \in 1 .. Len(s) : j = moved(l)
    BY <1>5, <2>1
  <2>3. moved(i) < moved(l) /\ moved(l) < moved(m)
    BY <1>7, <1>9, <1>11, <2>2
  <2>4. i < l /\ l < m
    BY <1>6, <1>11, <2>3
  <2>5. l \in i + 1 .. m - 1
    BY <1>1, <1>11, <2>4
  <2> QED
    BY <1>2, <1>10, <2>2, <2>5
<1> QED
  BY <1>12, <1>13

-----------------------------------------------------------------------------
(* The kinds of the bytes of a sequence. *)

From(kinds, s) == \A b \in In(s) : b.by \in kinds

Terminal == {"keys", "replies"}
Transfers == {"opening", "packets"}

LEMMA FromEmpty ==
    ASSUME NEW kinds
    PROVE  From(kinds, <<>>) /\ Carried(<<>>) /\ <<>> \in Seq(Bytes)
<1>1. In(<<>>) = {}
  BY DEF In
<1> QED BY <1>1 DEF From, Carried

LEMMA FromConcat ==
    ASSUME NEW kinds, NEW a \in Seq(Bytes), NEW b \in Seq(Bytes)
    PROVE  From(kinds, a \o b) <=> From(kinds, a) /\ From(kinds, b)
<1>1. In(a \o b) = In(a) \cup In(b)
  BY ConcatIn
<1> QED BY <1>1 DEF From

LEMMA FromMessage ==
    ASSUME NEW kinds, NEW kind \in kinds, NEW number, NEW length \in Nat
    PROVE  From(kinds, Message(kind, number, length))
BY DEF From, In, Message

LEMMA FromHead ==
    ASSUME NEW kinds, NEW s \in Seq(Bytes), s # <<>>, From(kinds, s)
    PROVE  From(kinds, <<Head(s)>>) /\ From(kinds, Tail(s))
<1>1. s[1] \in In(s)
  BY DEF In
<1>2. In(<<Head(s)>>) = {s[1]}
  BY DEF In
<1>3. In(Tail(s)) \subseteq In(s)
  BY DEF In
<1> QED BY <1>1, <1>2, <1>3 DEF From

-----------------------------------------------------------------------------
(* The invariant. *)

\* Everything sent that no thread but the pacer has in hand.
Stream == line \o queued \o hand.pacer \o paced

\* A thread has something in hand from the moment it has it to send until it
\* is paced, queued or written.
RestingEmpty ==
    \A t \in Threads : at[t] \notin {"checked", "sending", "direct", "writing"} => hand[t] = <<>>

\* Each thread sends its own kinds, and what goes through the pacer was typed
\* or answered by the terminal.
Kept ==
    /\ From({"keys", "opening"}, hand.ui) /\ From({"replies", "packets"}, hand.io)
    /\ From(Terminal, hand.pacer) /\ From(Terminal, paced)
    /\ at.io # "checked" /\ at.pacer \in {"home", "direct", "writing", "gone"}
    /\ at.ui = "checked" => \E length \in KeyLengths : hand.ui = Message("keys", sent.keys + 1, length)

\* Under the limit nothing of the terminal's goes past the pacer, and without
\* it nothing goes through it.
Limits ==
    /\ ~setup.limited => paced = <<>> /\ hand.pacer = <<>>
    /\ \A t \in {"ui", "io"} :
          /\ at[t] = "sending" => slow[t] = setup.limited /\ From(Terminal, hand[t])
          /\ setup.limited /\ at[t] \in {"direct", "writing"} => From(Transfers, hand[t])
          /\ Carried(hand[t])

\* Whoever has the line found nothing queued.
NothingQueuedBehind == ~LineFree => queued = <<>>

Routes == RestingEmpty /\ Kept /\ Limits /\ NothingQueuedBehind

Ordered == IInv /\ Routes /\ SentInOrder /\ Carried(Stream)

-----------------------------------------------------------------------------
(* What a step does to the stream. *)

Senders == {"ui", "io"}

\* Nothing: what it moves, it moves from one part of the stream to the next.
Quiet ==
    /\ Stream' = Stream /\ sent' = sent
    /\ \A t \in Senders : InHand(t)' = InHand(t)

\* It gives a thread a message to send.
Takes(t, kind, length) ==
    /\ Stream' = Stream
    /\ InHand(t) = <<>> /\ InHand(t)' = Message(kind, sent[kind] + 1, length)
    /\ sent' = [sent EXCEPT ![kind] = sent[kind] + 1]
    /\ \A u \in Senders \ {t} : InHand(u)' = InHand(u)

\* It puts what a thread has in hand at the end of the stream, or what it has
\* of a transfer before what is paced.
Adds(t, a, b) ==
    /\ Stream = a \o b /\ Stream' = (a \o InHand(t)) \o b
    /\ b = <<>> \/ (From(Terminal, b) /\ From(Transfers, InHand(t)))
    /\ InHand(t)' = <<>> /\ sent' = sent
    /\ \A u \in Senders \ {t} : InHand(u)' = InHand(u)

LEMMA StreamType ==
    ASSUME TypeOK
    PROVE  /\ Stream \in Seq(Bytes)
           /\ \A t \in Senders : InHand(t) \in Seq(Bytes)
           /\ \A kind \in Kinds : sent[kind] \in Nat /\ Thread(kind) \in Senders
<1>1. /\ line \in Seq(Bytes) /\ queued \in Seq(Bytes) /\ paced \in Seq(Bytes)
      /\ \A t \in Threads : hand[t] \in Seq(Bytes)
  BY DEF TypeOK
<1>2. <<>> \in Seq(Bytes)
  BY FromEmpty
<1>3. hand.pacer \in Seq(Bytes) /\ hand["ui"] \in Seq(Bytes) /\ hand["io"] \in Seq(Bytes)
  BY <1>1 DEF Threads
<1>4. Stream \in Seq(Bytes)
  BY <1>1, <1>3 DEF Stream
<1>5. \A t \in Senders : InHand(t) \in Seq(Bytes)
  BY <1>2, <1>3 DEF Senders, InHand
<1>6. \A kind \in Kinds : sent[kind] \in Nat /\ Thread(kind) \in Senders
  BY DEF TypeOK, Thread, Senders
<1> QED BY <1>4, <1>5, <1>6

LEMMA SentInStream ==
    SentInOrder <=> \A kind \in Kinds : Unbroken(kind, Stream \o InHand(Thread(kind)), sent[kind])
BY Zenon DEF SentInOrder, Stream

LEMMA QuietKeeps ==
    ASSUME TypeOK, SentInOrder, Carried(Stream), Quiet
    PROVE  SentInOrder' /\ Carried(Stream')
<1>1. \A kind \in Kinds : InHand(Thread(kind))' = InHand(Thread(kind))
  BY StreamType DEF Quiet, Thread
<1>2. \A kind \in Kinds : Unbroken(kind, Stream \o InHand(Thread(kind)), sent[kind])
  BY SentInStream
<1>3. \A kind \in Kinds : Unbroken(kind, Stream' \o InHand(Thread(kind))', sent'[kind])
  BY <1>1, <1>2 DEF Quiet
<1>4. SentInOrder'
  BY <1>3, Zenon DEF SentInOrder, Stream, Thread
<1> QED BY <1>4 DEF Quiet

LEMMA TakesKeeps ==
    ASSUME TypeOK, SentInOrder, Carried(Stream),
           NEW t \in Senders, NEW kind \in Kinds, Thread(kind) = t, NEW length \in Nat \ {0},
           Takes(t, kind, length)
    PROVE  SentInOrder' /\ Carried(Stream')
<1> DEFINE x == Message(kind, sent[kind] + 1, length)
<1>0. /\ Stream \in Seq(Bytes) /\ sent[kind] \in Nat /\ sent \in [Kinds -> Nat]
      /\ x \in Seq(Bytes) /\ From({kind}, x)
  <2>1. sent[kind] \in Nat
    BY StreamType
  <2>2. length \in Nat /\ sent[kind] + 1 \in Nat
    BY <2>1
  <2> QED BY <2>1, <2>2, StreamType, MessageType, FromMessage DEF TypeOK
<1>1. \A k \in Kinds : Unbroken(k, Stream \o InHand(Thread(k)), sent[k])
  BY SentInStream
<1>2. Stream \o <<>> = Stream
  BY <1>0
<1>3. ASSUME NEW k \in Kinds
      PROVE  Unbroken(k, Stream' \o InHand(Thread(k))', sent'[k])
  <2>1. CASE k = kind
    <3>1. Unbroken(kind, Stream, sent[kind])
      BY <1>1, <1>2, <2>1 DEF Takes
    <3>2. Unbroken(kind, Stream \o x, sent[kind] + 1)
      BY <1>0, <3>1, NextMessage
    <3> QED BY <1>0, <2>1, <3>2 DEF Takes
  <2>2. CASE k # kind /\ Thread(k) = t
    <3>1. Unbroken(k, Stream \o <<>>, sent[k])
      BY <1>1, <2>2 DEF Takes
    <3>2. \A c \in In(x) : c.by # k
      BY <1>0, <2>2 DEF From
    <3>3. <<>> \in Seq(Bytes) /\ sent[k] \in Nat
      BY FromEmpty, StreamType
    <3> HIDE DEF x
    <3>4. Unbroken(k, (Stream \o x) \o <<>>, sent[k])
      BY <1>0, <3>1, <3>2, <3>3, AmongOthers
    <3>5. (Stream \o x) \o <<>> = Stream \o x
      BY <1>0
    <3>6. Unbroken(k, Stream \o x, sent[k])
      BY <3>4, <3>5
    <3> QED BY <1>0, <2>2, <3>6 DEF Takes, x
  <2>3. CASE k # kind /\ Thread(k) # t
    <3>1. InHand(Thread(k))' = InHand(Thread(k))
      BY <2>3 DEF Takes, Thread, Senders
    <3> QED BY <1>0, <1>1, <2>3, <3>1 DEF Takes
  <2> QED BY <2>1, <2>2, <2>3
<1>4. SentInOrder'
  BY <1>3, Zenon DEF SentInOrder, Stream, Thread
<1> QED BY <1>4 DEF Takes

LEMMA AddsKeeps ==
    ASSUME TypeOK, SentInOrder, Carried(Stream),
           NEW t \in Senders, NEW a \in Seq(Bytes), NEW b \in Seq(Bytes), Adds(t, a, b),
           Carried(InHand(t)), From({kind \in Kinds : Thread(kind) = t}, InHand(t))
    PROVE  SentInOrder' /\ Carried(Stream')
<1> DEFINE x == InHand(t)
<1>0. /\ Stream \in Seq(Bytes) /\ x \in Seq(Bytes) /\ <<>> \in Seq(Bytes)
      /\ \A k \in Kinds : sent[k] \in Nat /\ InHand(Thread(k)) \in Seq(Bytes)
  BY StreamType, FromEmpty
<1>1. \A k \in Kinds : Unbroken(k, Stream \o InHand(Thread(k)), sent[k])
  BY SentInStream
<1>2. From({kind \in Kinds : Thread(kind) = t}, x) /\ Carried(x)
  OBVIOUS
<1>3. /\ Stream = a \o b /\ Stream' = (a \o x) \o b /\ sent' = sent
      /\ b = <<>> \/ (From(Terminal, b) /\ From(Transfers, x))
      /\ InHand(t)' = <<>>
      /\ \A u \in Senders \ {t} : InHand(u)' = InHand(u)
  BY DEF Adds
<1>4. In(b) \subseteq Bytes /\ In(x) \subseteq Bytes
  BY <1>0 DEF In
<1>5. ASSUME NEW k \in Kinds
      PROVE  Unbroken(k, Stream' \o InHand(Thread(k))', sent'[k])
  <2>1. CASE Thread(k) = t
    <3>1. Unbroken(k, (a \o b) \o x, sent[k])
      BY <1>1, <1>3, <2>1
    <3>2. (\A c \in In(b) : c.by # k) \/ (\A c \in In(x) : c.by # k)
      <4>1. CASE b = <<>>
        BY <4>1 DEF In
      <4>2. CASE From(Terminal, b) /\ From(Transfers, x)
        BY <4>2 DEF From, Terminal, Transfers
      <4> QED BY <1>3, <4>1, <4>2
    <3> HIDE DEF x
    <3>3. Unbroken(k, (a \o x) \o b, sent[k])
      BY <1>0, <3>1, <3>2, MovedUnbroken
    <3>4. ((a \o x) \o b) \o <<>> = (a \o x) \o b
      BY <1>0
    <3>5. Unbroken(k, ((a \o x) \o b) \o <<>>, sent[k])
      BY <3>3, <3>4
    <3> QED BY <1>3, <2>1, <3>5, Zenon DEF Thread
  <2>2. CASE Thread(k) # t
    <3> DEFINE y == InHand(Thread(k))
    <3>0. y \in Seq(Bytes) /\ b \o y \in Seq(Bytes)
      BY <1>0
    <3>1. Unbroken(k, (a \o b) \o y, sent[k])
      BY <1>1, <1>3
    <3>2. \A c \in In(x) : c.by # k
      BY <1>2, <2>2 DEF From
    <3>3. y' = y
      BY <1>3, <2>2 DEF Thread, Senders
    <3> HIDE DEF x, y
    <3>4. (a \o b) \o y = a \o (b \o y)
      BY <3>0, ConcatAssociative
    <3>5. Unbroken(k, a \o (b \o y), sent[k])
      BY <3>1, <3>4
    <3>6. Unbroken(k, (a \o x) \o (b \o y), sent[k])
      <4>1. x \in Seq(Bytes) /\ sent[k] \in Nat
        BY <1>0
      <4> DEFINE z == b \o y
      <4>2. z \in Seq(Bytes) /\ Unbroken(k, a \o z, sent[k])
        BY <3>0, <3>5
      <4> HIDE DEF z
      <4>3. Unbroken(k, (a \o x) \o z, sent[k])
        BY <3>2, <4>1, <4>2, AmongOthers
      <4> QED BY <4>3 DEF z
    <3>7. ((a \o x) \o b) \o y = (a \o x) \o (b \o y)
      <4>1. a \o x \in Seq(Bytes)
        BY <1>0
      <4> QED BY <3>0, <4>1, ConcatAssociative, SMTT(60)
    <3>8. Unbroken(k, ((a \o x) \o b) \o y, sent[k])
      BY <3>6, <3>7
    <3>9. Unbroken(k, Stream' \o y', sent'[k])
      BY <1>3, <3>3, <3>8, Zenon
    <3> QED BY <3>9 DEF y
  <2> QED BY <2>1, <2>2
<1>6. SentInOrder'
  BY <1>5, Zenon DEF SentInOrder, Stream, Thread
<1>7. Carried((a \o x) \o b)
  <2>1. CASE b = <<>>
    <3> HIDE DEF x
    <3>1. a \o <<>> = a /\ (a \o x) \o <<>> = a \o x
      BY <1>0
    <3>2. Carried(a \o x)
      BY <1>0, <1>2, <1>3, <2>1, <3>1, ConcatCarried
    <3> QED BY <2>1, <3>1, <3>2
  <2>2. CASE From(Terminal, b) /\ From(Transfers, x)
    <3>1. \A c \in In(x) : ~Typed(c)
      BY <2>2 DEF From, Transfers, Typed
    <3> HIDE DEF x
    <3> QED BY <1>0, <1>3, <3>1, AmongCarried
  <2> QED BY <1>3, <2>1, <2>2
<1> QED BY <1>3, <1>6, <1>7

-----------------------------------------------------------------------------
(* The invariant is kept. *)

\* What the invariant says of the sequences, put together.
LEMMA Pieces ==
    ASSUME Ordered
    PROVE  /\ line \in Seq(Bytes) /\ queued \in Seq(Bytes) /\ paced \in Seq(Bytes)
           /\ \A t \in Threads : hand[t] \in Seq(Bytes)
           /\ line \o queued \in Seq(Bytes)
           /\ hand.pacer \o paced \in Seq(Bytes) /\ From(Terminal, hand.pacer \o paced)
           /\ Stream = (line \o queued) \o (hand.pacer \o paced)
           /\ ~setup.limited => hand.pacer \o paced = <<>>
<1>1. /\ line \in Seq(Bytes) /\ queued \in Seq(Bytes) /\ paced \in Seq(Bytes)
      /\ \A t \in Threads : hand[t] \in Seq(Bytes)
  BY DEF Ordered, IInv, TypeOK
<1>2. hand.pacer \in Seq(Bytes)
  BY <1>1 DEF Threads
<1>3. line \o queued \in Seq(Bytes) /\ hand.pacer \o paced \in Seq(Bytes)
  BY <1>1, <1>2
<1>4. From(Terminal, hand.pacer \o paced)
  BY <1>1, <1>2, FromConcat DEF Ordered, Routes, Kept
<1>5. Stream = (line \o queued) \o (hand.pacer \o paced)
  <2> DEFINE lq == line \o queued
             p == hand.pacer
  <2>1. lq \in Seq(Bytes) /\ p \in Seq(Bytes) /\ paced \in Seq(Bytes)
    BY <1>1, <1>2
  <2> HIDE DEF lq, p
  <2>2. (lq \o p) \o paced = lq \o (p \o paced)
    BY <2>1, ConcatAssociative
  <2> QED BY <2>2 DEF lq, p, Stream
<1>6. ~setup.limited => hand.pacer \o paced = <<>>
  BY DEF Ordered, Routes, Limits
<1> QED BY <1>1, <1>3, <1>4, <1>5, <1>6

\* Each thread has its own kinds in hand.
LEMMA Owns ==
    ASSUME Ordered, NEW t \in Senders, at[t] # "checked"
    PROVE  /\ InHand(t) = hand[t] /\ Carried(InHand(t))
           /\ From({kind \in Kinds : Thread(kind) = t}, InHand(t))
<1>1. InHand(t) = hand[t] /\ Carried(hand[t])
  BY DEF InHand, Ordered, Routes, Limits, Senders
<1>2. {kind \in Kinds : Thread(kind) = "ui"} = {"keys", "opening"}
      /\ {kind \in Kinds : Thread(kind) = "io"} = {"replies", "packets"}
  BY DEF Kinds, Thread
<1>3. From({kind \in Kinds : Thread(kind) = t}, hand[t])
  BY <1>2 DEF Ordered, Routes, Kept, Senders
<1> QED BY <1>1, <1>3

LEMMA SendPacedOrdered ==
    ASSUME Ordered, NEW t \in Senders, SendPaced(t)
    PROVE  Routes' /\ SentInOrder' /\ Carried(Stream')
<1> USE DEF Senders
<1>0. TypeOK /\ t \in Threads /\ at[t] = "sending"
  BY DEF Ordered, IInv, Threads, SendPaced
<1>1. CASE GoesAtOnce(t)
  <2>1. /\ Goes(t, "direct") /\ UNCHANGED <<paced, hand, line, queued, sent, setup, slow>>
    BY <1>1 DEF SendPaced, setUpVars, lineVars
  <2>2. at' = [at EXCEPT ![t] = "direct"] /\ at \in [Threads -> Places]
    BY <1>0, <2>1 DEF TypeOK, Goes
  <2>3. Quiet
    <3>1. Stream' = Stream /\ sent' = sent
      BY <2>1 DEF Stream
    <3>2. \A u \in Senders : InHand(u)' = InHand(u)
      BY <1>0, <2>1, <2>2 DEF InHand, Threads
    <3> QED BY <3>1, <3>2 DEF Quiet
  <2>4. RestingEmpty' /\ Kept' /\ NothingQueuedBehind'
    BY <1>0, <2>1, <2>2 DEF Ordered, Routes, RestingEmpty, Kept, NothingQueuedBehind, LineFree, Threads
  <2>5. ~setup.limited
    BY <1>0, <1>1 DEF Ordered, Routes, Limits, GoesAtOnce
  <2>6. Limits'
    BY <1>0, <2>1, <2>2, <2>5 DEF Ordered, Routes, Limits, Threads
  <2> QED BY <2>3, <2>4, <2>6, QuietKeeps DEF Ordered, IInv, Routes
<1>2. CASE ~GoesAtOnce(t)
  <2>1. /\ paced' = paced \o hand[t] /\ Emptied(t) /\ Goes(t, "home")
        /\ UNCHANGED <<line, queued, sent, setup, slow>>
    BY <1>2 DEF SendPaced, setUpVars, lineVars
  <2>2. /\ at' = [at EXCEPT ![t] = "home"] /\ at \in [Threads -> Places]
        /\ hand' = [hand EXCEPT ![t] = <<>>] /\ hand \in [Threads -> Seq(Bytes)]
    BY <1>0, <2>1 DEF TypeOK, Goes, Emptied
  <2>3. From(Terminal, hand[t]) /\ slow[t] = setup.limited /\ setup.limited
    BY <1>0, <1>2 DEF Ordered, Routes, Limits, GoesAtOnce
  <2>4. From(Terminal, paced')
    BY <1>0, <2>1, <2>3, Pieces, FromConcat DEF Ordered, Routes, Kept
  <2>5. RestingEmpty' /\ NothingQueuedBehind'
    BY <1>0, <2>1, <2>2 DEF Ordered, Routes, RestingEmpty, NothingQueuedBehind, LineFree, Threads
  <2>6. Kept'
    BY <1>0, <2>1, <2>2, <2>4, FromEmpty DEF Ordered, Routes, Kept, Threads
  <2>7. Limits'
    BY <1>0, <2>1, <2>2, <2>3, FromEmpty DEF Ordered, Routes, Limits, Threads
  <2>8. InHand(t) = hand[t] /\ InHand(t)' = <<>>
    BY <1>0, <2>2 DEF InHand
  <2>9. \A u \in Senders \ {t} : InHand(u)' = InHand(u)
    BY <1>0, <2>2 DEF InHand, Threads
  <2>10. Stream' = (Stream \o hand[t]) \o <<>>
    <3>1. /\ line \in Seq(Bytes) /\ queued \in Seq(Bytes) /\ hand.pacer \in Seq(Bytes)
          /\ paced \in Seq(Bytes) /\ hand[t] \in Seq(Bytes)
      BY <1>0, Pieces DEF Threads
    <3>2. ((line \o queued) \o hand.pacer) \o (paced \o hand[t])
            = (((line \o queued) \o hand.pacer) \o paced) \o hand[t]
      <4> DEFINE before == (line \o queued) \o hand.pacer
                 x == hand[t]
      <4>1. before \in Seq(Bytes) /\ x \in Seq(Bytes) /\ paced \in Seq(Bytes)
        BY <3>1
      <4> HIDE DEF before, x
      <4>2. (before \o paced) \o x = before \o (paced \o x)
        BY <4>1, ConcatAssociative
      <4> QED BY <4>2 DEF before, x
    <3>3. hand'.pacer = hand.pacer
      BY <1>0, <2>2 DEF Threads
    <3>4. Stream' = Stream \o hand[t]
      BY <2>1, <3>2, <3>3 DEF Stream
    <3>5. Stream \o hand[t] \in Seq(Bytes)
      BY <3>1 DEF Stream
    <3> QED BY <3>4, <3>5
  <2>11. Stream = Stream \o <<>>
    BY <1>0, StreamType
  <2>12. Adds(t, Stream, <<>>)
    BY <2>1, <2>8, <2>9, <2>10, <2>11 DEF Adds
  <2> QED BY <1>0, <2>5, <2>6, <2>7, <2>12, AddsKeeps, Owns, StreamType, FromEmpty DEF Ordered, Routes
<1> QED BY <1>1, <1>2

\* What joins the queue, or is written with nothing queued, goes before what
\* is paced.
LEMMA JoinsAdds ==
    ASSUME Ordered, NEW t \in Senders, at[t] \in {"direct", "writing"},
           at'[t] = "home", hand' = [hand EXCEPT ![t] = <<>>], paced' = paced, sent' = sent,
           \A u \in Senders \ {t} : at'[u] = at[u],
           line' \o queued' = (line \o queued) \o hand[t]
    PROVE  SentInOrder' /\ Carried(Stream')
<1> DEFINE a == line \o queued
           p == hand.pacer
           b == p \o paced
           x == hand[t]
<1>1. /\ TypeOK /\ t \in Threads /\ at[t] # "checked"
      /\ a \in Seq(Bytes) /\ b \in Seq(Bytes) /\ p \in Seq(Bytes) /\ paced \in Seq(Bytes)
      /\ x \in Seq(Bytes) /\ a \o x \in Seq(Bytes)
  <2>1. t \in Threads /\ "pacer" \in Threads
    BY DEF Senders, Threads
  <2>2. x \in Seq(Bytes) /\ a \in Seq(Bytes)
    BY <2>1, Pieces
  <2>3. a \o x \in Seq(Bytes)
    BY <2>2
  <2> QED BY <2>1, <2>2, <2>3, Pieces DEF Ordered, IInv
<1>2. /\ InHand(t) = x /\ InHand(t)' = <<>> /\ hand'.pacer = p
      /\ \A u \in Senders \ {t} : InHand(u)' = InHand(u)
  BY <1>1 DEF InHand, Senders, Threads, TypeOK
<1>3. Stream = a \o b
  BY Pieces
<1>4. Stream' = (a \o x) \o b
  <2>0. line' \o queued' = a \o x /\ hand'.pacer = p /\ paced' = paced
    BY <1>2
  <2>1. Stream' = ((a \o x) \o p) \o paced
    BY <2>0, Zenon DEF Stream
  <2> DEFINE ax == a \o x
  <2>2. ax \in Seq(Bytes) /\ p \in Seq(Bytes) /\ paced \in Seq(Bytes)
    BY <1>1
  <2> HIDE DEF ax, p, b
  <2>3. (ax \o p) \o paced = ax \o (p \o paced)
    BY <2>2, ConcatAssociative
  <2> QED BY <2>1, <2>3 DEF ax, b
<1>5. b = <<>> \/ (From(Terminal, b) /\ From(Transfers, x))
  <2>1. setup.limited => From(Transfers, x)
    BY DEF Ordered, Routes, Limits, Senders
  <2>2. ~setup.limited => b = <<>>
    BY Pieces
  <2>3. From(Terminal, b)
    BY Pieces
  <2> QED BY <2>1, <2>2, <2>3
<1> HIDE DEF a, b, x
<1>6. Adds(t, a, b)
  BY <1>2, <1>3, <1>4, <1>5 DEF Adds
<1> QED BY <1>1, <1>6, AddsKeeps, Owns DEF Ordered

\* A thread that lets go of what it had, having been sending, keeps the rest.
LEMMA LetsGoRoutes ==
    ASSUME Ordered, NEW t \in Senders, at[t] \in {"direct", "writing"}, LineFree \/ at[t] = "writing",
           Goes(t, "home"), Emptied(t), UNCHANGED <<paced, sent, setup, slow>>
    PROVE  RestingEmpty' /\ Kept' /\ Limits' /\ LineFree'
<1> USE DEF Senders
<1>1. TypeOK /\ t \in Threads
  BY DEF Ordered, IInv, Threads
<1>2. /\ at' = [at EXCEPT ![t] = "home"] /\ at \in [Threads -> Places]
      /\ hand' = [hand EXCEPT ![t] = <<>>] /\ hand \in [Threads -> Seq(Bytes)]
  BY <1>1 DEF TypeOK, Goes, Emptied
<1>3. RestingEmpty'
  BY <1>1, <1>2 DEF Ordered, Routes, RestingEmpty, Threads
<1>4. Kept'
  BY <1>1, <1>2, FromEmpty DEF Ordered, Routes, Kept, Threads
<1>5. Limits'
  BY <1>1, <1>2, FromEmpty DEF Ordered, Routes, Limits, Threads
<1>6. \A u \in Threads : at[u] = "writing" => u = t
  BY <1>1 DEF TypeOK, LineFree
<1>7. LineFree'
  BY <1>2, <1>6 DEF LineFree
<1> QED BY <1>3, <1>4, <1>5, <1>7

LEMMA TransmitOrdered ==
    ASSUME Ordered, NEW t \in Senders, Transmit(t)
    PROVE  Routes' /\ SentInOrder' /\ Carried(Stream')
<1> USE DEF Senders
<1>0. TypeOK /\ t \in Threads /\ at[t] = "direct" /\ LineFree
  BY DEF Ordered, IInv, Threads, Transmit
<1>1. CASE stopped
  <2>1. /\ queued' = queued \o hand[t] /\ Emptied(t) /\ Goes(t, "home")
        /\ UNCHANGED <<line, paced, sent, setup, slow>>
    BY <1>1 DEF Transmit, Waits, JoinQueue, setUpVars
  <2>2. RestingEmpty' /\ Kept' /\ Limits' /\ LineFree'
    BY <1>0, <2>1, LetsGoRoutes
  <2>3. line' \o queued' = (line \o queued) \o hand[t]
    <3> DEFINE x == hand[t]
    <3>1. line \in Seq(Bytes) /\ queued \in Seq(Bytes) /\ x \in Seq(Bytes)
      BY <1>0, Pieces
    <3> HIDE DEF x
    <3>2. (line \o queued) \o x = line \o (queued \o x)
      BY <3>1, ConcatAssociative
    <3> QED BY <2>1, <3>2 DEF x
  <2>4. /\ at' = [at EXCEPT ![t] = "home"] /\ at \in [Threads -> Places]
        /\ hand' = [hand EXCEPT ![t] = <<>>]
    BY <1>0, <2>1 DEF TypeOK, Goes, Emptied
  <2>5. at'[t] = "home" /\ \A u \in Senders \ {t} : at'[u] = at[u]
    BY <1>0, <2>4 DEF Threads
  <2>6. SentInOrder' /\ Carried(Stream')
    BY <1>0, <2>1, <2>3, <2>4, <2>5, JoinsAdds
  <2> QED BY <2>2, <2>6 DEF Routes, NothingQueuedBehind
<1>2. CASE ~stopped
  <2>1. Goes(t, "writing") /\ UNCHANGED <<queued, hand, line, paced, sent, setup, slow>>
    BY <1>2 DEF Transmit, Waits, setUpVars
  <2>2. at' = [at EXCEPT ![t] = "writing"] /\ at \in [Threads -> Places]
    BY <1>0, <2>1 DEF TypeOK, Goes
  <2>3. queued = <<>>
    BY <1>2 DEF Ordered, IInv, Stopping, NothingWaitsUnstopped
  <2>4. RestingEmpty' /\ Kept' /\ NothingQueuedBehind'
    BY <1>0, <2>1, <2>2, <2>3 DEF Ordered, Routes, RestingEmpty, Kept, NothingQueuedBehind, Threads
  <2>5. Limits'
    BY <1>0, <2>1, <2>2 DEF Ordered, Routes, Limits, Threads
  <2>6. Quiet
    <3>1. Stream' = Stream /\ sent' = sent
      BY <2>1 DEF Stream
    <3>2. \A u \in Senders : InHand(u)' = InHand(u)
      BY <1>0, <2>1, <2>2 DEF InHand, Threads
    <3> QED BY <3>1, <3>2 DEF Quiet
  <2> QED BY <1>0, <2>4, <2>5, <2>6, QuietKeeps DEF Ordered, Routes
<1> QED BY <1>1, <1>2

LEMMA WriteOrdered ==
    ASSUME Ordered, NEW t \in Senders, Write(t)
    PROVE  Routes' /\ SentInOrder' /\ Carried(Stream')
<1>1. /\ TypeOK /\ t \in Threads /\ at[t] = "writing" /\ queued = <<>>
      /\ line' = line \o hand[t] /\ Emptied(t) /\ Goes(t, "home")
      /\ UNCHANGED <<queued, paced, sent, setup, slow>>
  BY DEF Ordered, IInv, Routes, NothingQueuedBehind, LineFree, Threads, Senders, Write, setUpVars
<1>2. RestingEmpty' /\ Kept' /\ Limits' /\ LineFree'
  BY <1>1, LetsGoRoutes
<1>3. line' \o queued' = (line \o queued) \o hand[t]
  <2>1. line \in Seq(Bytes) /\ hand[t] \in Seq(Bytes)
    BY <1>1, Pieces
  <2>2. line \o hand[t] \in Seq(Bytes)
    BY <2>1
  <2>3. line \o <<>> = line /\ (line \o hand[t]) \o <<>> = line \o hand[t]
    BY <2>1, <2>2
  <2> QED BY <1>1, <2>3
<1>4. /\ at' = [at EXCEPT ![t] = "home"] /\ at \in [Threads -> Places]
      /\ hand' = [hand EXCEPT ![t] = <<>>]
  BY <1>1 DEF TypeOK, Goes, Emptied
<1>5. at'[t] = "home" /\ \A u \in Senders \ {t} : at'[u] = at[u]
  BY <1>1, <1>4 DEF Threads, Senders
<1>6. SentInOrder' /\ Carried(Stream')
  BY <1>1, <1>3, <1>4, <1>5, JoinsAdds
<1> QED BY <1>2, <1>6 DEF Routes, NothingQueuedBehind

\* The pacer moves what it has towards the line.
LEMMA PacerOrdered ==
    ASSUME Ordered, Pacer
    PROVE  Routes' /\ SentInOrder' /\ Carried(Stream')
<1> DEFINE lq == line \o queued
           p == hand.pacer
<1>0. /\ TypeOK /\ "pacer" \in Threads /\ at \in [Threads -> Places]
      /\ hand \in [Threads -> Seq(Bytes)]
      /\ line \in Seq(Bytes) /\ queued \in Seq(Bytes) /\ paced \in Seq(Bytes)
      /\ lq \in Seq(Bytes) /\ p \in Seq(Bytes) /\ lq \o p \in Seq(Bytes)
  <2>1. lq \in Seq(Bytes) /\ p \in Seq(Bytes)
    BY Pieces DEF Threads
  <2>2. lq \o p \in Seq(Bytes)
    BY <2>1
  <2> QED BY <2>1, <2>2, Pieces DEF Ordered, IInv, Threads, TypeOK
<1>1. ASSUME UNCHANGED <<sent, setup, slow>>, Stream' = Stream,
             NEW place \in {"home", "direct", "writing", "gone"},
             at' = [at EXCEPT !.pacer = place],
             NEW x \in Seq(Bytes), hand' = [hand EXCEPT !.pacer = x],
             place \in {"home", "gone"} => x = <<>>, From(Terminal, x), From(Terminal, paced'),
             ~setup.limited => x = <<>> /\ paced' = <<>>,
             (~LineFree)' => queued' = <<>>
      PROVE  Routes' /\ SentInOrder' /\ Carried(Stream')
  <2>1. RestingEmpty' /\ Kept' /\ NothingQueuedBehind'
    BY <1>0, <1>1 DEF Ordered, Routes, RestingEmpty, Kept, NothingQueuedBehind, Threads
  <2>2. Limits'
    BY <1>0, <1>1 DEF Ordered, Routes, Limits, Threads
  <2>3. Quiet
    BY <1>0, <1>1 DEF Quiet, InHand, Senders, Threads
  <2> QED BY <1>0, <2>1, <2>2, <2>3, QuietKeeps DEF Ordered, Routes
<1>2. /\ From(Terminal, p) /\ From(Terminal, paced)
      /\ ~setup.limited => p = <<>> /\ paced = <<>>
  BY DEF Ordered, Routes, Kept, Limits
<1>3. <<>> \in Seq(Bytes) /\ From(Terminal, <<>>)
  BY FromEmpty
<1>4. ASSUME NEW place \in Places, Goes("pacer", place)
      PROVE  at' = [at EXCEPT !.pacer = place]
  BY <1>4 DEF Goes
<1>5. CASE Pop
  <2>1. /\ p = <<>> /\ paced # <<>>
        /\ hand' = [hand EXCEPT !.pacer = <<Head(paced)>>] /\ paced' = Tail(paced)
        /\ Goes("pacer", "direct") /\ UNCHANGED <<line, queued, sent, setup, slow>>
    BY <1>0, <1>5 DEF Ordered, Routes, RestingEmpty, Pop, setUpVars, lineVars
  <2>2. From(Terminal, <<Head(paced)>>) /\ From(Terminal, paced')
    BY <1>0, <1>2, <2>1, FromHead
  <2>3. <<Head(paced)>> \in Seq(Bytes) /\ Tail(paced) \in Seq(Bytes)
        /\ <<Head(paced)>> \o Tail(paced) = paced
    BY <1>0, <2>1
  <2>4. (lq \o <<Head(paced)>>) \o Tail(paced) = lq \o paced
    <3> DEFINE h == <<Head(paced)>>
               u == Tail(paced)
    <3>1. h \in Seq(Bytes) /\ u \in Seq(Bytes) /\ lq \in Seq(Bytes)
      BY <1>0, <2>3
    <3>2. h \o u = paced
      BY <2>3
    <3> HIDE DEF h, u, lq
    <3>3. (lq \o h) \o u = lq \o (h \o u)
      BY <3>1, ConcatAssociative
    <3> QED BY <3>2, <3>3 DEF h, u
  <2>5. lq \o <<>> = lq
    BY <1>0
  <2>6. hand'.pacer = <<Head(paced)>>
    BY <1>0, <2>1
  <2>7. Stream = lq \o paced
    BY <2>1, <2>5 DEF Stream
  <2>8. Stream' = (lq \o <<Head(paced)>>) \o Tail(paced)
    BY <2>1, <2>6 DEF Stream
  <2>9. Stream' = Stream
    BY <2>4, <2>7, <2>8, Zenon
  <2>10. at' = [at EXCEPT !.pacer = "direct"]
    BY <1>4, <2>1 DEF Places
  <2>11. (~LineFree)' => queued' = <<>>
    BY <1>0, <2>1, <2>10 DEF Ordered, Routes, NothingQueuedBehind, LineFree
  <2>12. setup.limited
    BY <1>2, <2>1
  <2> QED BY <1>1, <2>1, <2>2, <2>3, <2>9, <2>10, <2>11, <2>12
<1>6. CASE PacerStops
  <2>1. /\ UNCHANGED <<line, queued, hand, paced, sent, setup, slow>> /\ Goes("pacer", "gone")
        /\ p = <<>>
    BY <1>0, <1>6 DEF PacerStops, Ordered, Routes, RestingEmpty, setUpVars, lineVars
  <2>2. at' = [at EXCEPT !.pacer = "gone"]
    BY <1>4, <2>1 DEF Places
  <2>3. hand' = [hand EXCEPT !.pacer = <<>>]
    BY <1>0, <2>1
  <2>4. Stream' = Stream
    BY <2>1 DEF Stream
  <2>5. (~LineFree)' => queued' = <<>>
    BY <1>0, <2>1, <2>2 DEF Ordered, Routes, NothingQueuedBehind, LineFree
  <2> QED BY <1>1, <1>2, <1>3, <2>1, <2>2, <2>3, <2>4, <2>5
<1>7. CASE Transmit("pacer") /\ stopped
  <2>1. /\ queued' = queued \o p /\ Emptied("pacer") /\ Goes("pacer", "home") /\ LineFree
        /\ UNCHANGED <<line, paced, sent, setup, slow>>
    BY <1>7 DEF Transmit, Waits, JoinQueue, setUpVars
  <2>2. at' = [at EXCEPT !.pacer = "home"] /\ hand' = [hand EXCEPT !.pacer = <<>>]
    BY <1>4, <2>1 DEF Places, Emptied
  <2>3. line \o (queued \o p) = lq \o p
    <3>1. line \in Seq(Bytes) /\ queued \in Seq(Bytes) /\ p \in Seq(Bytes)
      BY <1>0
    <3> HIDE DEF p
    <3>2. (line \o queued) \o p = line \o (queued \o p)
      BY <3>1, ConcatAssociative
    <3> QED BY <3>2
  <2>4. (lq \o p) \o <<>> = lq \o p
    BY <1>0
  <2>5. hand'.pacer = <<>>
    BY <1>0, <2>2
  <2>6. Stream' = Stream
    BY <2>1, <2>3, <2>4, <2>5, Zenon DEF Stream
  <2>7. LineFree'
    BY <1>0, <2>1, <2>2 DEF LineFree
  <2> QED BY <1>1, <1>2, <1>3, <2>1, <2>2, <2>6, <2>7
<1>8. CASE Transmit("pacer") /\ ~stopped
  <2>1. Goes("pacer", "writing") /\ UNCHANGED <<queued, hand, line, paced, sent, setup, slow>>
    BY <1>8 DEF Transmit, Waits, setUpVars
  <2>2. at' = [at EXCEPT !.pacer = "writing"]
    BY <1>4, <2>1 DEF Places
  <2>3. hand' = [hand EXCEPT !.pacer = p]
    BY <1>0, <2>1
  <2>4. queued' = <<>>
    BY <1>8, <2>1 DEF Ordered, IInv, Stopping, NothingWaitsUnstopped
  <2>5. Stream' = Stream
    BY <2>1 DEF Stream
  <2> QED BY <1>0, <1>1, <1>2, <2>1, <2>2, <2>3, <2>4, <2>5
<1>9. CASE Write("pacer")
  <2>1. /\ line' = line \o p /\ Emptied("pacer") /\ Goes("pacer", "home") /\ at.pacer = "writing"
        /\ UNCHANGED <<queued, paced, sent, setup, slow>>
    BY <1>9 DEF Write, setUpVars
  <2>2. at' = [at EXCEPT !.pacer = "home"] /\ hand' = [hand EXCEPT !.pacer = <<>>]
    BY <1>4, <2>1 DEF Places, Emptied
  <2>3. queued = <<>>
    BY <1>0, <2>1 DEF Ordered, Routes, NothingQueuedBehind, LineFree
  <2>4. line \o p \in Seq(Bytes)
    BY <1>0
  <2>5. line \o <<>> = line /\ ((line \o p) \o <<>>) \o <<>> = line \o p
    <3> DEFINE lp == line \o p
    <3> HIDE DEF lp
    <3>1. line \o <<>> = line /\ (lp \o <<>>) \o <<>> = lp
      BY <1>0, <2>4 DEF lp
    <3> QED BY <3>1 DEF lp
  <2>6. hand'.pacer = <<>>
    BY <1>0, <2>2
  <2>7. Stream' = Stream
    BY <2>1, <2>3, <2>5, <2>6, Zenon DEF Stream
  <2>8. queued' = <<>>
    BY <2>1, <2>3
  <2> QED BY <1>1, <1>2, <1>3, <2>1, <2>2, <2>7, <2>8
<1> QED BY <1>5, <1>6, <1>7, <1>8, <1>9 DEF Pacer

\* A thread that goes from one place where it has nothing in hand to another
\* keeps everything.
Holding == {"checked", "sending", "direct", "writing"}

LEMMA IdleOrdered ==
    ASSUME Ordered, UNCHANGED <<hand, slow, paced, sent>>, setup'.limited = setup.limited,
           \A t \in Threads : at'[t] = at[t] \/ (at[t] \notin Holding /\ at'[t] \notin Holding),
           at'.pacer = at.pacer,
           queued' \in {queued, <<>>}, Stream' = Stream
    PROVE  Routes' /\ SentInOrder' /\ Carried(Stream')
<1>0. /\ TypeOK /\ hand \in [Threads -> Seq(Bytes)]
      /\ at.ui = at["ui"] /\ at.io = at["io"] /\ at.pacer = at["pacer"]
  BY DEF Ordered, IInv, TypeOK
<1>1. RestingEmpty'
  BY DEF Ordered, Routes, RestingEmpty, Holding
<1>2. Kept'
  BY DEF Ordered, Routes, Kept, Holding, Threads
<1>3. Limits'
  BY DEF Ordered, Routes, Limits, Holding, Threads
<1>4. LineFree => LineFree'
  BY DEF LineFree, Holding
<1>5. NothingQueuedBehind'
  BY <1>4 DEF Ordered, Routes, NothingQueuedBehind
<1>6. Quiet
  <2>1. ASSUME NEW t \in Senders PROVE InHand(t)' = InHand(t)
    <3>1. CASE at'[t] = at[t]
      BY <3>1 DEF InHand
    <3>2. CASE at[t] \notin Holding /\ at'[t] \notin Holding
      BY <3>2 DEF InHand, Holding
    <3> QED BY <3>1, <3>2 DEF Senders, Threads
  <2> QED BY <2>1 DEF Quiet
<1> QED BY <1>0, <1>1, <1>2, <1>3, <1>5, <1>6, QuietKeeps DEF Ordered, Routes

\* A thread that takes a message in hand to send keeps everything.
LEMMA TakesOrdered ==
    ASSUME Ordered, NEW t \in Senders, NEW kind \in Kinds, Thread(kind) = t,
           NEW length \in Nat \ {0}, NEW place,
           hand' = [hand EXCEPT ![t] = Message(kind, sent[kind] + 1, length)],
           InHand(t) = <<>>, at[t] \notin {"sending", "direct", "writing"},
           at' = [at EXCEPT ![t] = place],
           sent' = [sent EXCEPT ![kind] = sent[kind] + 1],
           UNCHANGED <<setup, line, queued, paced>>,
           \/ place = "sending" /\ kind \in Terminal /\ slow' = [slow EXCEPT ![t] = setup.limited]
           \/ place = "direct" /\ kind \in Transfers /\ slow' = slow
    PROVE  Routes' /\ SentInOrder' /\ Carried(Stream')
<1> DEFINE x == Message(kind, sent[kind] + 1, length)
<1>0. /\ TypeOK /\ hand \in [Threads -> Seq(Bytes)] /\ at \in [Threads -> Places]
      /\ slow \in [Senders -> BOOLEAN] /\ t \in Threads /\ sent \in [Kinds -> Nat]
      /\ "pacer" \in Threads /\ "ui" \in Threads /\ "io" \in Threads
      /\ length \in Nat /\ sent[kind] + 1 \in Nat
  BY DEF Ordered, IInv, TypeOK, Senders, Threads
<1>1. /\ From({k \in Kinds : Thread(k) = t}, x) /\ Carried(x)
      /\ kind \in Terminal => From(Terminal, x)
      /\ kind \in Transfers => From(Transfers, x)
  BY <1>0, FromMessage, MessageCarried
<1>2. {k \in Kinds : Thread(k) = "ui"} = {"keys", "opening"}
      /\ {k \in Kinds : Thread(k) = "io"} = {"replies", "packets"}
  BY DEF Kinds, Thread
<1> HIDE DEF x
<1>3. hand' = [hand EXCEPT ![t] = x]
  BY DEF x
<1>4. RestingEmpty'
  BY <1>0, <1>3 DEF Ordered, Routes, RestingEmpty
<1>5. NothingQueuedBehind'
  BY <1>0 DEF Ordered, Routes, NothingQueuedBehind, LineFree
<1>6. Kept'
  <2>1. CASE t = "ui"
    <3>1. /\ at'.ui # "checked" /\ at'.io = at.io /\ at'.pacer = at.pacer
          /\ hand'.ui = x /\ hand'.io = hand.io /\ hand'.pacer = hand.pacer
      BY <1>0, <1>3, <2>1
    <3>2. From({"keys", "opening"}, hand'.ui)
      BY <1>1, <1>2, <2>1, <3>1
    <3> QED BY <3>1, <3>2 DEF Ordered, Routes, Kept
  <2>2. CASE t = "io"
    <3>1. kind # "keys"
      BY <2>2 DEF Thread
    <3>2. at'.ui = at.ui /\ hand'.ui = hand.ui /\ sent'.keys = sent.keys
      BY <1>0, <1>3, <2>2, <3>1 DEF Kinds
    <3>3. /\ hand'.io = x /\ hand'.pacer = hand.pacer /\ at'.io # "checked" /\ at'.pacer = at.pacer
      BY <1>0, <1>3, <2>2
    <3>4. From({"replies", "packets"}, hand'.io)
      BY <1>1, <1>2, <2>2, <3>3
    <3> QED BY <3>2, <3>3, <3>4 DEF Ordered, Routes, Kept
  <2> QED BY <2>1, <2>2 DEF Senders
<1>7. Limits'
  BY <1>0, <1>1, <1>3 DEF Ordered, Routes, Limits, Senders
<1>8. Takes(t, kind, length)
  <2>1. hand'.pacer = hand.pacer
    BY <1>0, <1>3 DEF Senders
  <2>2. Stream' = Stream
    BY <2>1 DEF Stream
  <2>3. InHand(t)' = x
    BY <1>0, <1>3 DEF InHand
  <2>4. \A u \in Senders \ {t} : InHand(u)' = InHand(u)
    BY <1>0, <1>3 DEF InHand, Senders
  <2> QED BY <2>2, <2>3, <2>4 DEF Takes, x
<1> QED BY <1>0, <1>4, <1>5, <1>6, <1>7, <1>8, TakesKeeps DEF Ordered, Routes

\* A packet offered is taken in hand, and if none is nothing changes.
LEMMA OfferOrdered ==
    ASSUME Ordered, NEW t \in Senders, NEW kind \in Transfers, Thread(kind) = t,
           at[t] \notin Holding, NEW offer \in Offers(kind),
           hand' = [hand EXCEPT ![t] = offer],
           sent' = [sent EXCEPT ![kind] = sent[kind] + Len(offer)],
           Goes(t, IF offer = <<>> THEN "home" ELSE "direct"),
           UNCHANGED <<setup, line, queued, paced, slow>>
    PROVE  Routes' /\ SentInOrder' /\ Carried(Stream')
<1>0. /\ TypeOK /\ hand \in [Threads -> Seq(Bytes)] /\ at \in [Threads -> Places]
      /\ t \in Threads /\ sent \in [Kinds -> Nat] /\ kind \in Kinds /\ hand[t] = <<>>
      /\ InHand(t) = <<>>
  BY DEF Ordered, IInv, TypeOK, Senders, Threads, Transfers, Kinds, Routes, RestingEmpty,
         Holding, InHand
<1>1. CASE offer = <<>>
  <2>1. hand' = hand /\ sent' = sent /\ at' = [at EXCEPT ![t] = "home"]
    BY <1>0, <1>1 DEF Goes
  <2>2. Stream' = Stream
    BY <2>1 DEF Stream
  <2>3. \A u \in Threads : at'[u] = at[u] \/ (at[u] \notin Holding /\ at'[u] \notin Holding)
    BY <1>0, <2>1 DEF Holding
  <2>4. at'.pacer = at.pacer
    BY <1>0, <2>1 DEF Senders, Threads
  <2> QED BY <2>1, <2>2, <2>3, <2>4, IdleOrdered
<1>2. CASE offer # <<>>
  <2>1. offer = Message(kind, sent[kind] + 1, 1)
    BY <1>2 DEF Offers
  <2>2. Len(offer) = 1
    BY <2>1 DEF Message
  <2>3. sent' = [sent EXCEPT ![kind] = sent[kind] + 1] /\ at' = [at EXCEPT ![t] = "direct"]
    BY <1>0, <1>2, <2>2 DEF Goes
  <2>4. at[t] \notin {"sending", "direct", "writing"}
    BY DEF Holding
  <2>5. hand' = [hand EXCEPT ![t] = Message(kind, sent[kind] + 1, 1)]
    BY <2>1
  <2>6. 1 \in Nat \ {0} /\ UNCHANGED <<setup, line, queued, paced>> /\ slow' = slow
    OBVIOUS
  <2> QED BY <1>0, <2>3, <2>4, <2>5, <2>6, TakesOrdered
<1> QED BY <1>1, <1>2

LEMMA UiOrdered ==
    ASSUME "limited" \notin Changing, Ordered, Ui, ~Sends("ui")
    PROVE  Routes' /\ SentInOrder' /\ Carried(Stream')
<1>0. /\ TypeOK /\ "ui" \in Senders /\ "ui" \in Threads /\ at \in [Threads -> Places]
      /\ hand \in [Threads -> Seq(Bytes)] /\ setup \in SetUps /\ sent \in [Kinds -> Nat]
      /\ "keys" \in Kinds /\ "opening" \in Transfers
      /\ Thread("keys") = "ui" /\ Thread("opening") = "ui"
  BY DEF Ordered, IInv, TypeOK, Senders, Threads, Kinds, Transfers, Thread
<1>1. CASE FindPace /\ setup.online
  <2>1. /\ at.ui = "checked" /\ slow' = [slow EXCEPT !.ui = setup.limited]
        /\ sent' = [sent EXCEPT !.keys = sent.keys + 1] /\ at' = [at EXCEPT !.ui = "sending"]
        /\ UNCHANGED <<hand, setup, line, queued, paced>>
    BY <1>1 DEF FindPace, Goes, setUpVars, lineVars
  <2>2. PICK length \in KeyLengths : hand.ui = Message("keys", sent.keys + 1, length)
    BY <2>1 DEF Ordered, Routes, Kept
  <2>3. length \in Nat \ {0}
    BY SettingsAssumption
  <2>4. hand' = [hand EXCEPT !.ui = Message("keys", sent.keys + 1, length)]
    BY <1>0, <2>1, <2>2
  <2>5. InHand("ui") = <<>> /\ at["ui"] \notin {"sending", "direct", "writing"} /\ "keys" \in Terminal
    BY <2>1 DEF InHand, Terminal
  <2> QED BY <1>0, <2>1, <2>3, <2>4, <2>5, TakesOrdered
<1>2. CASE FindPace /\ ~setup.online
  <2>1. /\ at.ui = "checked" /\ hand' = [hand EXCEPT !.ui = <<>>] /\ at' = [at EXCEPT !.ui = "home"]
        /\ UNCHANGED <<slow, sent, setup, line, queued, paced>>
    BY <1>2 DEF FindPace, Goes, Emptied, setUpVars, lineVars
  <2>2. RestingEmpty' /\ NothingQueuedBehind'
    BY <1>0, <2>1 DEF Ordered, Routes, RestingEmpty, NothingQueuedBehind, LineFree
  <2>3. Kept'
    BY <1>0, <2>1, FromEmpty DEF Ordered, Routes, Kept, Threads
  <2>4. Limits'
    BY <1>0, <2>1, FromEmpty DEF Ordered, Routes, Limits, Threads
  <2>5. hand'.pacer = hand.pacer
    BY <1>0, <2>1 DEF Threads
  <2>6. Stream' = Stream
    BY <2>1, <2>5 DEF Stream
  <2>7. \A t \in Senders : InHand(t)' = InHand(t)
    BY <1>0, <2>1 DEF InHand, Senders, Threads
  <2>8. Quiet
    BY <2>1, <2>6, <2>7 DEF Quiet
  <2> QED BY <1>0, <2>2, <2>3, <2>4, <2>8, QuietKeeps DEF Ordered, Routes
<1>3. ASSUME NEW length \in KeyLengths, PressKey(length)
      PROVE  Routes' /\ SentInOrder' /\ Carried(Stream')
  <2> DEFINE x == Message("keys", sent.keys + 1, length)
  <2>1. /\ at.ui = "home" /\ hand' = [hand EXCEPT !.ui = x] /\ at' = [at EXCEPT !.ui = "checked"]
        /\ UNCHANGED <<slow, sent, setup, line, queued, paced>>
    BY <1>3 DEF PressKey, Goes, setUpVars, lineVars
  <2>2. hand.ui = <<>>
    BY <1>0, <2>1 DEF Ordered, Routes, RestingEmpty
  <2>3. length \in Nat
    BY SettingsAssumption
  <2>4. From({"keys", "opening"}, x) /\ Carried(x)
    BY <2>3, FromMessage, MessageCarried
  <2>5. hand'.ui = Message("keys", sent'.keys + 1, length)
    BY <1>0, <2>1
  <2> HIDE DEF x
  <2>6. RestingEmpty' /\ NothingQueuedBehind'
    BY <1>0, <2>1 DEF Ordered, Routes, RestingEmpty, NothingQueuedBehind, LineFree
  <2>7. hand'.ui = x /\ hand'.io = hand.io /\ hand'.pacer = hand.pacer
        /\ at'.io = at.io /\ at'.pacer = at.pacer /\ at'.ui = "checked"
    BY <1>0, <2>1 DEF Threads
  <2>8. Kept'
    BY <2>1, <2>4, <2>5, <2>7 DEF Ordered, Routes, Kept
  <2>9. Limits'
    BY <1>0, <2>1, <2>4, <2>7 DEF Ordered, Routes, Limits
  <2>10. Stream' = Stream
    BY <2>1, <2>7 DEF Stream
  <2>11. \A t \in Senders : InHand(t)' = InHand(t)
    BY <1>0, <2>1, <2>2 DEF InHand, Senders, Threads
  <2>12. Quiet
    BY <2>1, <2>10, <2>11 DEF Quiet
  <2> QED BY <1>0, <2>6, <2>8, <2>9, <2>12, QuietKeeps DEF Ordered, Routes
<1>4. CASE HoldScreen \/ OpenSetUp \/ (\E s \in SetUps : ApplySetUp(s)) \/ LeaveSetUp
           \/ Close \/ CloseLetsGo
  <2>1. UNCHANGED <<hand, slow, paced, sent, line, queued>>
    BY <1>4 DEF HoldScreen, OpenSetUp, ApplySetUp, LeaveSetUp, Close, CloseLetsGo, lineVars
  <2>2. setup'.limited = setup.limited
    <3>1. ASSUME NEW s \in SetUps, ApplySetUp(s) PROVE setup'.limited = setup.limited
      <4>1. "limited" \in DOMAIN s \ Changing
        BY DEF SetUps
      <4> QED BY <3>1, <4>1 DEF ApplySetUp
    <3> QED BY <1>4, <3>1 DEF HoldScreen, OpenSetUp, LeaveSetUp, Close, CloseLetsGo, setUpVars
  <2>3. at.ui \in {"home", "leaving", "closing"}
    BY <1>4 DEF HoldScreen, OpenSetUp, ApplySetUp, LeaveSetUp, Close, CloseLetsGo
  <2>4. (\E place \in {"home", "leaving", "closing"} : Goes("ui", place)) \/ GoesAndWakes("home")
    BY <1>4 DEF HoldScreen, OpenSetUp, ApplySetUp, LeaveSetUp, Close, CloseLetsGo
  <2>5. \A t \in Threads : at'[t] = at[t] \/ (at[t] \notin Holding /\ at'[t] \notin Holding)
    BY <1>0, <2>3, <2>4 DEF Goes, GoesAndWakes, Holding
  <2>6. at'.pacer = at.pacer
    BY <1>0, <2>4 DEF Goes, GoesAndWakes, Threads
  <2>7. Stream' = Stream
    BY <2>1 DEF Stream
  <2> QED BY <2>1, <2>2, <2>5, <2>6, <2>7, IdleOrdered
<1>5. CASE StartTransfer \/ CancelTransfer
  <2>1. PICK offer \in Offers("opening") :
            /\ hand' = [hand EXCEPT !.ui = offer]
            /\ sent' = [sent EXCEPT !.opening = @ + Len(offer)]
            /\ Goes("ui", IF offer = <<>> THEN "home" ELSE "direct")
    BY <1>5, Zenon DEF StartTransfer, CancelTransfer
  <2>2. at["ui"] \notin Holding /\ UNCHANGED <<setup, line, queued, paced, slow>>
    BY <1>5 DEF StartTransfer, CancelTransfer, Holding, setUpVars, lineVars
  <2>3. sent' = [sent EXCEPT !.opening = sent.opening + Len(offer)]
    BY <2>1
  <2> QED BY <1>0, <2>1, <2>2, <2>3, OfferOrdered
<1> QED BY <1>1, <1>2, <1>3, <1>4, <1>5, Zenon DEF Ui

LEMMA IoOrdered ==
    ASSUME Ordered, Io, ~Sends("io")
    PROVE  Routes' /\ SentInOrder' /\ Carried(Stream')
<1>0. /\ TypeOK /\ "io" \in Senders /\ "io" \in Threads /\ at \in [Threads -> Places]
      /\ hand \in [Threads -> Seq(Bytes)] /\ sent \in [Kinds -> Nat]
      /\ "replies" \in Kinds /\ "packets" \in Transfers
      /\ Thread("replies") = "io" /\ Thread("packets") = "io"
  BY DEF Ordered, IInv, TypeOK, Senders, Threads, Kinds, Transfers, Thread
<1>1. ASSUME UNCHANGED <<hand, slow, paced, sent, setup>>, queued' \in {queued, <<>>},
             Stream' = Stream, at.io \notin Holding,
             NEW place \in Places \ Holding, Goes("io", place)
      PROVE  Routes' /\ SentInOrder' /\ Carried(Stream')
  <2>1. \A t \in Threads : at'[t] = at[t] \/ (at[t] \notin Holding /\ at'[t] \notin Holding)
    BY <1>0, <1>1 DEF Goes
  <2>2. at'.pacer = at.pacer
    BY <1>0, <1>1 DEF Goes, Threads
  <2> QED BY <1>1, <2>1, <2>2, IdleOrdered
<1>2. CASE WaitWhileHeld \/ (\E c \in Chunks : Read(c)) \/ HostGoes \/ Xoff \/ RouteToTerminal
           \/ (Advance /\ ~chunk.asks)
  <2>1. UNCHANGED <<hand, slow, paced, sent, setup, line, queued>>
    BY <1>2 DEF WaitWhileHeld, Read, HostGoes, Xoff, Obeyed, RouteToTerminal, Advance,
                setUpVars, lineVars
  <2>2. /\ at.io \notin Holding
        /\ \E place \in Places \ Holding : Goes("io", place)
    BY <1>2 DEF WaitWhileHeld, Read, HostGoes, Xoff, Obeyed, RouteToTerminal, Advance,
                Holding, Places
  <2>3. Stream' = Stream
    BY <2>1 DEF Stream
  <2> QED BY <1>1, <2>1, <2>2, <2>3
<1>3. CASE Xon
  <2>1. /\ UNCHANGED <<hand, slow, paced, sent, setup>>
        /\ queued' = <<>> /\ line' = line \o queued
    BY <1>3 DEF Xon, Obeyed, LeftQueued, setUpVars
  <2>2. at.io \notin Holding /\ \E place \in Places \ Holding : Goes("io", place)
    BY <1>3 DEF Xon, Obeyed, Holding, Places
  <2>3. (line \o queued) \o <<>> = line \o queued
    BY Pieces
  <2>4. Stream' = Stream
    BY <2>1, <2>3, Zenon DEF Stream
  <2> QED BY <1>1, <2>1, <2>2, <2>4
<1>4. CASE LingerEnds
  <2>1. UNCHANGED <<hand, slow, paced, sent, setup, line, queued, at>>
    BY <1>4 DEF LingerEnds, setUpVars, lineVars
  <2>2. Stream' = Stream
    BY <2>1 DEF Stream
  <2> QED BY <2>1, <2>2, IdleOrdered
<1>5. CASE FeedTransfer
  <2>1. PICK offer \in Offers("packets") :
            /\ hand' = [hand EXCEPT !.io = offer]
            /\ sent' = [sent EXCEPT !.packets = @ + Len(offer)]
            /\ Goes("io", IF offer = <<>> THEN "home" ELSE "direct")
    BY <1>5, Zenon DEF FeedTransfer
  <2>2. at["io"] \notin Holding /\ UNCHANGED <<setup, line, queued, paced, slow>>
    BY <1>5 DEF FeedTransfer, Holding, setUpVars, lineVars
  <2>3. sent' = [sent EXCEPT !.packets = sent.packets + Len(offer)]
    BY <2>1
  <2> QED BY <1>0, <2>1, <2>2, <2>3, OfferOrdered
<1>6. CASE Advance /\ chunk.asks
  <2>1. /\ at.io = "advancing" /\ hand' = [hand EXCEPT !.io = Message("replies", sent.replies + 1, 2)]
        /\ slow' = [slow EXCEPT !.io = setup.limited]
        /\ sent' = [sent EXCEPT !.replies = sent.replies + 1] /\ at' = [at EXCEPT !.io = "sending"]
        /\ UNCHANGED <<setup, line, queued, paced>>
    BY <1>6 DEF Advance, Goes, setUpVars, lineVars
  <2>2. hand["io"] = <<>>
    BY <1>0, <2>1 DEF Ordered, Routes, RestingEmpty
  <2>3. InHand("io") = <<>> /\ at["io"] \notin {"sending", "direct", "writing"} /\ "replies" \in Terminal
    BY <2>1, <2>2 DEF InHand, Terminal
  <2>4. 2 \in Nat \ {0}
    OBVIOUS
  <2> QED BY <1>0, <2>1, <2>3, <2>4, TakesOrdered
<1> QED BY <1>2, <1>3, <1>4, <1>5, <1>6, Zenon DEF Io

-----------------------------------------------------------------------------
(* The theorem. *)

\* What goes out of a stream in which messages are carried whole goes out whole.
LEMMA GoesOutWhole ==
    ASSUME Ordered
    PROVE  SequencesWhole
<1> DEFINE out == line \o queued
           rest == hand.pacer \o paced
<1>1. /\ out \in Seq(Bytes) /\ rest \in Seq(Bytes) /\ Stream = out \o rest /\ Carried(Stream)
  BY Pieces DEF Ordered
<1> HIDE DEF out, rest
<1>2. /\ Len(out) \in Nat /\ Len(Stream) \in Nat /\ Len(out) <= Len(Stream)
      /\ \A i \in 1 .. Len(out) : Stream[i] = out[i]
  BY <1>1
<1>3. ASSUME NEW i \in 1 .. Len(out), NEW j \in 1 .. Len(out),
             i < j, Typed(out[i]), Typed(out[j]), out[i].part < out[i].of
      PROVE  \E m \in i + 1 .. j : out[m] = [out[i] EXCEPT !.part = @ + 1]
  <2>1. i \in 1 .. Len(Stream) /\ j \in 1 .. Len(Stream)
    BY <1>2
  <2>2. PICK m \in i + 1 .. Len(Stream) :
            /\ Stream[m] = [Stream[i] EXCEPT !.part = @ + 1]
            /\ \A k \in i + 1 .. m - 1 : ~Typed(Stream[k])
    BY <1>1, <1>2, <1>3, <2>1 DEF Carried
  <2>3. m <= j
    <3> SUFFICES ASSUME m > j PROVE FALSE
      BY <1>2
    <3>1. j \in i + 1 .. m - 1
      BY <1>2, <1>3
    <3> QED BY <1>2, <1>3, <2>2, <3>1
  <2>4. m \in i + 1 .. j /\ m \in 1 .. Len(out)
    BY <1>2, <2>3
  <2> QED BY <1>2, <2>2, <2>4
<1> QED BY <1>3 DEF SequencesWhole, out

LEMMA OrderedAtFirst == Init => Ordered
<1> SUFFICES ASSUME Init PROVE Ordered
  OBVIOUS
<1>1. IInv
  BY InitHolds
<1>2. /\ line = <<>> /\ queued = <<>> /\ paced = <<>>
      /\ \A t \in Threads : hand[t] = <<>> /\ at[t] = "home"
      /\ \A k \in Kinds : sent[k] = 0
  BY DEF Init
<1>3. hand.ui = <<>> /\ hand.io = <<>> /\ hand.pacer = <<>>
      /\ at.ui = "home" /\ at.io = "home" /\ at.pacer = "home"
  BY <1>2 DEF Threads
<1>4. Routes
  BY <1>2, <1>3, FromEmpty DEF Routes, RestingEmpty, Kept, Limits, NothingQueuedBehind, LineFree
<1>5. Stream = <<>>
  BY <1>2, <1>3 DEF Stream
<1>6. \A k \in Kinds : InHand(Thread(k)) = <<>>
  BY <1>3 DEF InHand, Thread
<1>7. \A k \in Kinds : Unbroken(k, <<>>, 0)
  BY DEF Unbroken
<1>8. <<>> \o <<>> = <<>>
  OBVIOUS
<1>9. SentInOrder
  BY <1>2, <1>5, <1>6, <1>7, <1>8, SentInStream
<1> QED BY <1>1, <1>4, <1>5, <1>9, FromEmpty DEF Ordered

LEMMA OrderedKept ==
    ASSUME "limited" \notin Changing
    PROVE  Ordered /\ [Next]_vars => Ordered'
<1> SUFFICES ASSUME Ordered, [Next]_vars PROVE Ordered'
  OBVIOUS
<1>1. IInv'
  BY NextKeeps DEF Ordered
<1>2. ASSUME NEW t \in Senders, Sends(t)
      PROVE  Routes' /\ SentInOrder' /\ Carried(Stream')
  BY <1>2, SendPacedOrdered, TransmitOrdered, WriteOrdered DEF Sends
<1>3. Routes' /\ SentInOrder' /\ Carried(Stream')
  <2>1. CASE Ui
    BY <1>2, <2>1, UiOrdered DEF Senders
  <2>2. CASE Io
    BY <1>2, <2>2, IoOrdered DEF Senders
  <2>3. CASE Pacer
    BY <2>3, PacerOrdered
  <2>4. CASE UNCHANGED vars
    <3>1. UNCHANGED <<hand, slow, paced, sent, setup, line, queued, at>>
      BY <2>4 DEF vars
    <3>2. Stream' = Stream
      BY <3>1 DEF Stream
    <3> QED BY <3>1, <3>2, IdleOrdered
  <2> QED BY <2>1, <2>2, <2>3, <2>4 DEF Next
<1> QED BY <1>1, <1>3 DEF Ordered

\* While the transmit rate limit stays as the session found it, what each
\* thread sends reaches the line in the order it was sent in, once and whole,
\* whatever is typed, asked, transferred and stopped meanwhile; and no key's or
\* report's bytes come between those of another.
THEOREM LineInOrder ==
    ASSUME "limited" \notin Changing
    PROVE  Spec => []LineWhole
<1>1. Ordered => LineWhole
  BY GoesOutWhole DEF Ordered, IInv, LineWhole
<1>2. Spec => []Ordered
  BY OrderedAtFirst, OrderedKept, PTL DEF Spec
<1> QED BY <1>1, <1>2, PTL

=============================================================================
