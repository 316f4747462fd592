----------------------------- MODULE Workspace -----------------------------
(***************************************************************************)
(* The sessions of one window (crates/veetee/src/workspace.rs): opening,   *)
(* reconnecting and closing them, which has the keyboard, which are on the *)
(* screen, which have output nobody has seen, and the bar of a file        *)
(* transfer.                                                               *)
(*                                                                         *)
(* Everything here runs on the one thread of the user interface, a handler *)
(* at a time; what is interleaved is what the handlers wait for.  A        *)
(* connection is opened by a thread of its own and its session is added    *)
(* when it is open; each session's I/O thread ends when its connection     *)
(* does and says so in a notice handled some time later; timers poll a     *)
(* transfer, clear it away, and blink icons.                               *)
(*                                                                         *)
(* `ws` is the Workspace of the code, its panes with it: an operator from  *)
(* a workspace to a workspace is the method of that name.                  *)
(***************************************************************************)
EXTENDS Integers, Sequences, FiniteSets, SequencesExt

CONSTANT
  Courses   \* what a behaviour has: the `most` sessions its model of terminal
            \* takes, how many `sessions` the command line asks for, whether the
            \* window's `own` connection is kept on the screen when it closes
            \* and whether those New Session may choose are (`kept`), and as
            \* bounds how many are given a pane in all (`ids`) and how many file
            \* `transfers` are started

ASSUME WorkspaceAssumption ==
  Courses \subseteq [most : {1, 2, 4}, sessions : 1 .. 4, own : BOOLEAN, kept : SUBSET BOOLEAN,
                    ids : Nat \ {0}, transfers : Nat]

VARIABLES
  window,       \* "connecting" for the first time, "open", "failed" or "closed"
  course,       \* what this behaviour has
  ws,           \* the workspace
  attempts,     \* connections being opened, each for a new pane or a dead one
  notices,      \* the panes whose session has sent Exited, not handled yet
  strays,       \* sessions started that no pane has, and nobody closes
  transfers     \* how many transfers were started

vars == <<window, course, ws, attempts, notices, strays, transfers>>

NoTransfer == [slot |-> "none", pollers |-> 0, clears |-> 0, cancels |-> 0, bar |-> FALSE]

Pane(number, from, kept) ==
  [number |-> number, from |-> from, kept |-> kept, ended |-> FALSE, status |-> "",
   unseen |-> FALSE, transfer |-> NoTransfer]

Open(w) == DOMAIN w.panes
Numbers(w) == {w.panes[id].number : id \in Open(w)}

\* The session of a number, and the lowest number not taken.
Session(w, n) == CHOOSE id \in Open(w) : w.panes[id].number = n
Lowest(S) == CHOOSE n \in S : \A m \in S : n <= m
FreeNumber(w) == IF 1 .. 4 \subseteq Numbers(w) THEN 1 ELSE Lowest((1 .. 4) \ Numbers(w))

\* Session ids in the order they were last active, one of them forgotten.
Forgotten(recent, id) ==
  IF \E i \in DOMAIN recent : recent[i] = id
  THEN RemoveAt(recent, CHOOSE i \in DOMAIN recent : recent[i] = id)
  ELSE recent

WithoutId(w, id) ==
  [w EXCEPT !.panes = [other \in Open(w) \ {id} |-> w.panes[other]],
            !.recent = Forgotten(@, id)]

(***************************************************************************)
(* What is on the screen, and who has the keyboard.                        *)
(***************************************************************************)

\* Which of two sessions was active later; of two never active, the one of
\* the lower number.
Sooner(w, a, b) ==
  \/ \E i \in DOMAIN w.recent : w.recent[i] = a /\ \A j \in 1 .. i : w.recent[j] # b
  \/ {a, b} \cap Range(w.recent) = {} /\ w.panes[a].number < w.panes[b].number

AheadOf(w, id) == {other \in Open(w) : Sooner(w, other, id)}

\* The session active last and, with two windows, the one before it.
Shown(w) ==
  {id \in Open(w) : \/ AheadOf(w, id) = {}
                    \/ w.twoWindows /\ \E first \in Open(w) : AheadOf(w, id) = {first}}

Layout(w) ==
  [w EXCEPT !.onScreen = Shown(w),
            !.panes = [id \in Open(w) |->
                         [w.panes[id] EXCEPT !.unseen = @ /\ (id \notin Shown(w))]]]

MoveToFront(w, id) == [w EXCEPT !.recent = <<id>> \o Forgotten(@, id), !.active = id]

ActivateSession(w, id) == IF id \in Open(w) THEN Layout(MoveToFront(w, id)) ELSE w

\* A plausible bug: a click gives the keyboard and is not remembered.
FocusedUnremembered(w, id) == [w EXCEPT !.active = id]

\* A click gives a session on the screen the keyboard; nothing moves.
Focused(w, id) == MoveToFront(w, id)

\* F4: the next session, in session order.
SwitchSession(w) ==
  IF Cardinality(Open(w)) < 2 THEN w
  ELSE LET later == {n \in Numbers(w) : n > w.panes[w.active].number}
       IN  ActivateSession(w, Session(w, Lowest(IF later # {} THEN later ELSE Numbers(w))))

GoToSession(w, n) ==
  IF n \in Numbers(w) THEN ActivateSession(w, Session(w, n)) ELSE w

SplitToggle(w) ==
  IF Cardinality(Open(w)) < 2 THEN w
  ELSE ActivateSession([w EXCEPT !.twoWindows = ~@], w.active)

\* The host wrote to a session: off the screen, its icon blinks.
Output(w, id) ==
  IF id \in w.onScreen \/ id \notin Open(w) THEN w
  ELSE [w EXCEPT !.panes[id].unseen = TRUE, !.blinking = TRUE]

\* A plausible bug: blinking stops once any session has been seen.
BlinkAll(w) == [w EXCEPT !.blinking = \A id \in Open(w) : w.panes[id].unseen]

Blink(w) == [w EXCEPT !.blinking = \E id \in Open(w) : w.panes[id].unseen]

(***************************************************************************)
(* Sessions that open, reconnect, end and are closed.  A state of these    *)
(* handlers is the workspace with the connections it has begun to open.    *)
(***************************************************************************)

Full(w) == Cardinality(Open(w)) >= course.most

\* A plausible bug: more than one connection is opened at a time.
BusyNever(w) == FALSE

\* One connection is opened at a time, whoever asks for it.
Busy(w) == w.opening

\* The saved Set-Up is that of the number that is free now.
OpenSession(s, kept) ==
  IF Full(s.ws) THEN [s EXCEPT !.ws.toOpen = 0]
  ELSE IF Busy(s.ws) THEN s
  ELSE [ws |-> [s.ws EXCEPT !.opening = TRUE],
        attempts |-> Append(s.attempts,
                       [for |-> 0, from |-> FreeNumber(s.ws), kept |-> kept])]

\* A plausible bug: ids are used again.
NextIdLowest(w) ==
  CHOOSE id \in 1 .. w.nextId : id \notin Open(w) /\ (\A k \in 1 .. id - 1 : k \in Open(w))

NextId(w) == w.nextId

\* A pane is given to a connected session, and the next one asked for opened.
AddNumberedSession(s, number, from, kept) ==
  LET id == NextId(s.ws)
      added == [s.ws EXCEPT !.nextId = @ + 1,
                       !.panes = [other \in Open(s.ws) \cup {id} |->
                                    IF other = id THEN Pane(number, from, kept)
                                    ELSE s.ws.panes[other]]]
      shown == ActivateSession(added, id)
  IN  IF shown.toOpen = 0 THEN [s EXCEPT !.ws = shown]
      ELSE OpenSession([s EXCEPT !.ws = [shown EXCEPT !.toOpen = @ - 1]], course.own)

AddSession(s, from, kept) == AddNumberedSession(s, FreeNumber(s.ws), from, kept)

\* --sessions: the first is open; the rest follow one after another.
OpenMore(s, n) ==
  IF n = 0 THEN s ELSE OpenSession([s EXCEPT !.ws.toOpen = n - 1], course.own)

\* Return on a session whose connection closed.
Reconnect(s, id) ==
  IF id \notin Open(s.ws) \/ Busy(s.ws) THEN s
  ELSE [ws |-> [s.ws EXCEPT !.opening = TRUE, !.panes[id].status = "Reconnecting"],
        attempts |-> Append(s.attempts, [for |-> id, from |-> s.ws.panes[id].number,
                                         kept |-> s.ws.panes[id].kept])]

\* The new session takes the dead one's place; a pane gone meanwhile has none.
Reconnected(s, attempt) ==
  IF attempt.for \notin Open(s.ws) THEN s
  ELSE LET gone == s.ws.panes[attempt.for]
       IN  AddNumberedSession([s EXCEPT !.ws = WithoutId(@, attempt.for)],
                              gone.number, attempt.from, gone.kept)

\* The most recently active of those left has the window; with none it closes.
RemovePane(w, id) ==
  LET left == WithoutId(w, id)
  IN  IF Open(left) = {} THEN left
      ELSE ActivateSession(left, CHOOSE next \in Open(left) : AheadOf(left, next) = {})

\* A plausible bug: the end of a session is passed over while another opens.
ExitedUnlessBusy(w, id) ==
  IF id \notin Open(w) \/ w.opening THEN w
  ELSE IF Cardinality(Open(w)) = 1 /\ w.panes[id].kept
  THEN [w EXCEPT !.panes[id].status = "Disconnected", !.panes[id].ended = TRUE]
  ELSE RemovePane(w, id)

\* The last session keeps its screen, if its connection is of a kind that does.
Exited(w, id) ==
  IF id \notin Open(w) THEN w
  ELSE IF Cardinality(Open(w)) = 1 /\ w.panes[id].kept
  THEN [w EXCEPT !.panes[id].status = "Disconnected", !.panes[id].ended = TRUE]
  ELSE RemovePane(w, id)

CloseActiveSession(w) == IF Cardinality(Open(w)) < 2 THEN w ELSE RemovePane(w, w.active)

(***************************************************************************)
(* The bar of a file transfer.  A transfer is running, asked to stop,      *)
(* finished but keeping the line a moment for a packet that is repeated,   *)
(* or over; it stays in its slot until it is cleared away.                 *)
(***************************************************************************)

Running(t) == t.slot \in {"running", "stopping"}
WantsLine(t) == Running(t) \/ t.slot = "lingering"

StartTransfer(t) ==
  IF Running(t) THEN t
  ELSE [t EXCEPT !.slot = "running", !.bar = TRUE, !.pollers = @ + 1, !.cancels = @ + 1]

\* The first request stops tidily, the second at once.
Asked(slot) == CASE slot = "running" -> "stopping" [] slot = "stopping" -> "over" [] OTHER -> slot

\* Every handler connected to the button asks.
Cancel(t) == [t EXCEPT !.slot = IF t.cancels = 1 THEN Asked(@) ELSE Asked(Asked(@))]

\* A poller looks at whichever transfer is in the slot.  One that has ended
\* it reports, takes its handler off the button and has cleared in 3 seconds.
Poll(t) ==
  CASE t.slot = "none" -> [t EXCEPT !.bar = FALSE, !.pollers = @ - 1]
    [] Running(t) -> t
    [] OTHER -> [t EXCEPT !.bar = FALSE, !.pollers = @ - 1, !.cancels = @ - 1, !.clears = @ + 1]

\* Plausible bugs: the bar is hidden too; the transfer is cleared whatever it does.
ClearTransferAndBar(t) ==
  [t EXCEPT !.clears = @ - 1, !.bar = FALSE, !.slot = IF WantsLine(t) THEN @ ELSE "none"]
ClearTransferAny(t) == [t EXCEPT !.clears = @ - 1, !.slot = "none"]

ClearTransfer(t) ==
  [t EXCEPT !.clears = @ - 1, !.slot = IF WantsLine(t) THEN @ ELSE "none"]

(***************************************************************************)
(* The window.                                                             *)
(***************************************************************************)

NoSessions ==
  [panes |-> <<>>, active |-> 0, nextId |-> 1, recent |-> <<>>, onScreen |-> {},
   twoWindows |-> TRUE, blinking |-> FALSE, opening |-> FALSE, toOpen |-> 0]

Init ==
  /\ window = "connecting" /\ course \in Courses
  /\ ws = NoSessions /\ attempts = <<>> /\ notices = {} /\ strays = 0 /\ transfers = 0

Up == window = "open"

\* The window shows workspace w, or has closed with its last session.
Shows(w) ==
  /\ ws' = w
  /\ window' = IF Open(w) = {} THEN "closed" ELSE "open"

Becomes(s) == Shows(s.ws) /\ attempts' = s.attempts
Now == [ws |-> ws, attempts |-> attempts]

\* The first connection, made while the window says Connecting.
FirstConnected ==
  /\ window = "connecting"
  /\ Becomes(OpenMore(AddSession(Now, 1, course.own), course.sessions - 1))
  /\ UNCHANGED <<course, notices, strays, transfers>>

FirstFailed ==
  /\ window = "connecting" /\ window' = "failed"
  /\ UNCHANGED <<course, ws, attempts, notices, strays, transfers>>

RoomForOneMore == ws.nextId + Len(attempts) + ws.toOpen <= course.ids

NewSession ==
  /\ Up /\ RoomForOneMore
  /\ \E kept \in course.kept : Becomes(OpenSession(Now, kept))
  /\ UNCHANGED <<course, notices, strays, transfers>>

\* The view sends Return here once the connection has closed, which may be
\* before its end has been handled.
Return ==
  /\ Up /\ RoomForOneMore
  /\ ws.panes[ws.active].ended
  /\ Becomes(Reconnect(Now, ws.active))
  /\ UNCHANGED <<course, notices, strays, transfers>>

\* A connection opens, and its session starts.
Connected ==
  /\ Up
  /\ \E i \in DOMAIN attempts :
       LET a == attempts[i]
           s == [ws |-> [ws EXCEPT !.opening = FALSE], attempts |-> RemoveAt(attempts, i)]
       IN  /\ Becomes(IF a.for = 0 THEN AddSession(s, a.from, a.kept) ELSE Reconnected(s, a))
           /\ strays' = strays + (IF a.for # 0 /\ a.for \notin Open(ws) THEN 1 ELSE 0)
  /\ UNCHANGED <<course, notices, transfers>>

CannotConnect ==
  /\ Up
  /\ \E i \in DOMAIN attempts :
       LET for == attempts[i].for
           w == [ws EXCEPT !.opening = FALSE]
       IN  /\ Shows(IF for \in Open(w) THEN [w EXCEPT !.panes[for].status = "Disconnected"] ELSE w)
           /\ attempts' = RemoveAt(attempts, i)
  /\ UNCHANGED <<course, notices, strays, transfers>>

\* A session's connection ends, and its I/O thread with it.
HostGone ==
  /\ Up
  /\ \E id \in Open(ws) :
       /\ ~ws.panes[id].ended
       /\ ws' = [ws EXCEPT !.panes[id].ended = TRUE]
       /\ notices' = notices \cup {id}
  /\ UNCHANGED <<window, course, attempts, strays, transfers>>

HandleExited ==
  /\ Up
  /\ \E id \in notices : Shows(Exited(ws, id)) /\ notices' = notices \ {id}
  /\ UNCHANGED <<course, attempts, strays, transfers>>

Keyboard ==
  /\ Up
  /\ \/ Shows(SwitchSession(ws))
     \/ \E n \in 1 .. 4 : Shows(GoToSession(ws, n))
     \/ Shows(SplitToggle(ws))
     \/ Shows(CloseActiveSession(ws))
     \/ \E id \in ws.onScreen : Shows(Focused(ws, id))
  /\ UNCHANGED <<course, attempts, notices, strays, transfers>>

\* The host writes to a session, or makes it active (DECES).
FromHost ==
  /\ Up
  /\ \E id \in Open(ws) :
       /\ ~ws.panes[id].ended
       /\ Shows(Output(ws, id)) \/ Shows(ActivateSession(ws, id))
  /\ UNCHANGED <<course, attempts, notices, strays, transfers>>

BlinkTimer ==
  /\ Up /\ ws.blinking
  /\ Shows(Blink(ws))
  /\ UNCHANGED <<course, attempts, notices, strays, transfers>>

\* Every session is closed with the window, and what was being opened is let go.
CloseWindow ==
  /\ Up
  /\ window' = "closed" /\ ws' = NoSessions /\ attempts' = <<>> /\ notices' = {}
  /\ UNCHANGED <<course, strays, transfers>>

Transferring(id, t) ==
  /\ Shows([ws EXCEPT !.panes[id].transfer = t])
  /\ UNCHANGED <<course, attempts, notices, strays>>

\* Started in the active session, if none is running there.
RunTransfer ==
  /\ Up /\ transfers < course.transfers
  /\ LET t == ws.panes[ws.active].transfer
     IN  ~Running(t) /\ Transferring(ws.active, StartTransfer(t))
  /\ transfers' = transfers + 1

\* The I/O thread ends a transfer, or the moment it keeps the line passes.
TransferGoesOn ==
  /\ Up
  /\ \E id \in Open(ws) :
       LET t == ws.panes[id].transfer
       IN  \/ /\ Running(t) /\ ~ws.panes[id].ended
              /\ \E slot \in {"lingering", "over"} : Transferring(id, [t EXCEPT !.slot = slot])
           \/ t.slot = "lingering" /\ Transferring(id, [t EXCEPT !.slot = "over"])
  /\ UNCHANGED transfers

CancelTransfer ==
  /\ Up
  /\ \E id \in ws.onScreen :
       LET t == ws.panes[id].transfer IN t.bar /\ t.cancels > 0 /\ Transferring(id, Cancel(t))
  /\ UNCHANGED transfers

TransferTimers ==
  /\ Up
  /\ \E id \in Open(ws) :
       LET t == ws.panes[id].transfer
       IN  \/ t.pollers > 0 /\ Transferring(id, Poll(t))
           \/ t.clears > 0 /\ Transferring(id, ClearTransfer(t))
  /\ UNCHANGED transfers

Next ==
  \/ FirstConnected \/ FirstFailed \/ NewSession \/ Return \/ Connected \/ CannotConnect
  \/ HostGone \/ HandleExited \/ Keyboard \/ FromHost \/ BlinkTimer \/ CloseWindow
  \/ RunTransfer \/ TransferGoesOn \/ CancelTransfer \/ TransferTimers

Spec == Init /\ [][Next]_vars

\* The user interface handles its notices, written as weak fairness of
\* HandleExited is defined, with its guard and its effect.
FairSpec ==
  Spec /\ ([]<>~(Up /\ notices # {}) \/ []<><<notices \ notices' # {}>>_vars)

(***************************************************************************)
(* What must be so.                                                        *)
(***************************************************************************)

Transfers ==
  [slot : {"none", "running", "stopping", "lingering", "over"},
   pollers : Nat, clears : Nat, cancels : Nat, bar : BOOLEAN]

Panes ==
  [number : 1 .. 4, from : 1 .. 4, kept : BOOLEAN, ended : BOOLEAN,
   status : {"", "Reconnecting", "Disconnected"}, unseen : BOOLEAN, transfer : Transfers]

Attempts == [for : Nat, from : 1 .. 4, kept : BOOLEAN]

\* The ids given are those below the next.
WorkspaceOK(w) ==
  /\ w \in [panes : {w.panes}, active : Nat, nextId : Nat \ {0}, recent : Seq(Nat),
            onScreen : SUBSET Nat, twoWindows : BOOLEAN, blinking : BOOLEAN,
            opening : BOOLEAN, toOpen : Nat]
  /\ Open(w) \subseteq 1 .. w.nextId - 1
  /\ w.panes \in [Open(w) -> Panes]

TypeOK ==
  /\ window \in {"connecting", "open", "failed", "closed"}
  /\ course \in Courses /\ strays \in Nat /\ transfers \in 0 .. course.transfers
  /\ WorkspaceOK(ws) /\ attempts \in Seq(Attempts) /\ notices \subseteq 1 .. ws.nextId - 1
  /\ (window = "open") = (Open(ws) # {})

\* Every id of `recent` is of a session, and every session is there once.
EachOnce(w) ==
  /\ Range(w.recent) = Open(w)
  /\ \A i, j \in DOMAIN w.recent : w.recent[i] = w.recent[j] => i = j

InView(w) ==
  /\ EachOnce(w)
  /\ w.active = Head(w.recent)
  /\ w.onScreen = IF w.twoWindows /\ Len(w.recent) > 1
                  THEN {w.recent[1], w.recent[2]} ELSE {w.active}

\* The keyboard is in a session on the screen, and beside it, with two
\* windows, is the one that had it before: whatever opened, ended, took the
\* keyboard or was closed, and in whatever order (activate_session, focused,
\* remove_pane, layout).
KeyboardOnScreen == Up => InView(ws)

\* However many ask, and while connections take their time to open, a window
\* never has more sessions than its model, nor two of one number
\* (open_session, open_more, reconnect).
WithinModel ==
  /\ Cardinality(Open(ws)) <= course.most
  /\ \A a, b \in Open(ws) : ws.panes[a].number = ws.panes[b].number => a = b

\* Output nobody has seen is off the screen, and the timer that blinks its
\* icon runs until it is seen (output, layout).
UnseenBlinks ==
  \A id \in Open(ws) : ws.panes[id].unseen => ws.blinking /\ id \notin ws.onScreen

\* A transfer that runs can be seen and stopped: its bar is up, a poller
\* follows it and the button is connected, whatever timers an earlier
\* transfer of the session left behind (run_transfer).
TransferInView ==
  \A id \in Open(ws) :
    LET t == ws.panes[id].transfer IN Running(t) => t.bar /\ t.pollers > 0 /\ t.cancels > 0

\* What a window shows of its sessions fits them: the keyboard, their number,
\* the blinking of what is off the screen, and the bars of their transfers.
WindowSound == TypeOK /\ KeyboardOnScreen /\ WithinModel /\ UnseenBlinks /\ TransferInView

\* A late clearing away never takes the slot from a later transfer that has
\* the line (clear_transfer).
TransferKeepsLine ==
  [][\A id \in Open(ws) \cap Open(ws') :
       WantsLine(ws.panes[id].transfer) => ws'.panes[id].transfer.slot # "none"]_vars

\* A session that is connected stays in its window, and open, until its own
\* connection ends or it is closed where the keyboard is: the late notice of
\* a dead session whose place it took does nothing to it (exited, reconnect).
LivesOn ==
  [][\A id \in Open(ws) :
       ~ws.panes[id].ended /\ window' = "open" =>
         \/ id \in Open(ws') /\ (ws'.panes[id].ended => id \in notices')
         \/ id = ws.active /\ Cardinality(Open(ws)) > 1]_vars

\* Nothing that was left over from an earlier session or transfer takes away a
\* later one.
LaterOnesKept == TransferKeepsLine /\ LivesOn

\* A session whose connection has ended is taken away, or says so (exited).
EndIsShown ==
  \A id \in 1 .. Max({c.ids : c \in Courses}) :
    id \in Open(ws) /\ ws.panes[id].ended ~>
      id \notin Open(ws) \/ ws.panes[id].status # ""

\* What the source says of a reconnection: the new session is put in the
\* dead one's place, and none is left running with no place.
NoStraySession == strays = 0

\* What the documents say of a session's number: with it goes that session's
\* saved Set-Up.
SetUpOfItsNumber == \A id \in Open(ws) : ws.panes[id].from = ws.panes[id].number
=============================================================================
