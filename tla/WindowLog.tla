------------------------------- MODULE WindowLog -------------------------------
(***************************************************************************)
(* The text log of one window's session (crates/veetee/src/session.rs,      *)
(* vt-core's terminal/capture.rs).  The I/O thread shows text and takes     *)
(* what was captured under the terminal's lock, and writes it to the log    *)
(* under the logger's lock a step later; the UI thread starts and stops     *)
(* logs under both locks, and may do so between the two.  In Local, what    *)
(* the user types is shown, and captured, by the UI thread.                 *)
(*                                                                          *)
(* Text is a sequence of pieces numbered as they are shown.  Raw logs, which*)
(* capture nothing, and the format of a line are left out.                  *)
(*                                                                          *)
(* A definition marked "Mutant" is the next one with a mistake in it; no    *)
(* other definition uses it.                                                *)
(***************************************************************************)
EXTENDS Integers, Sequences, SequencesExt

CONSTANTS
    MaxText,   \* bound: pieces of text shown
    MaxLogs    \* bound: logs started

ASSUME BoundsAssumption == MaxText \in Nat /\ MaxLogs \in Nat \ {0}

Logs == 1 .. MaxLogs

VARIABLES
    shown,      \* how many pieces have been shown
    capturing,  \* whether Emulator.capture is there to be added to
    captured,   \* what is in it
    hand,       \* Step.text: what the I/O thread has taken and not logged yet
    logger,     \* Shared.logger: the log being written, or 0
    file,       \* what is in the file of each log
    used,       \* history: the logs that have been started
    begun,      \* history: what had been shown when each log was started
    ended,      \* history: what had been shown when each log was stopped
    broken      \* history: the logs that a write to their file ended

vars == <<shown, capturing, captured, hand, logger, file, used, begun, ended, broken>>

Pieces(from, to) == [i \in 1 .. to - from |-> from + i]

Init ==
    /\ shown = 0 /\ capturing = FALSE /\ captured = <<>> /\ hand = <<>>
    /\ logger = 0
    /\ file = [g \in Logs |-> <<>>]
    /\ begun = [g \in Logs |-> 0]
    /\ ended = [g \in Logs |-> 0]
    /\ used = {} /\ broken = {}

\* Mutant: a piece takes the place of what was captured before it.
CapturedWithLast(n) == IF capturing THEN <<n>> ELSE <<>>

\* Mutant: what is shown is captured whether or not a log wants it.
CapturedWithAlways(n) == Append(captured, n)

CapturedWith(n) == IF capturing THEN Append(captured, n) ELSE <<>>

\* Mutant: what is taken is left to be taken again.
LeftCapturedAll == captured

LeftCaptured == <<>>

\* io_loop: the text the host sent is shown, and what has been captured taken;
\* with nothing read, what was typed in Local is taken all the same.
Advance ==
    /\ hand = <<>>
    /\ \/ /\ shown < MaxText
          /\ shown' = shown + 1
          /\ hand' = CapturedWith(shown + 1)
       \/ /\ captured # <<>>
          /\ hand' = captured
          /\ UNCHANGED shown
    /\ captured' = LeftCaptured
    /\ UNCHANGED <<capturing, logger, file, used, begun, ended, broken>>

\* send_as in Local: what is typed goes to the screen.
TypeLocally ==
    /\ shown < MaxText
    /\ shown' = shown + 1
    /\ captured' = CapturedWith(shown + 1)
    /\ UNCHANGED <<capturing, hand, logger, file, used, begun, ended, broken>>

\* handle_step: log.
LogText ==
    /\ hand # <<>>
    /\ hand' = <<>>
    /\ file' = IF logger = 0 THEN file ELSE [file EXCEPT ![logger] = @ \o hand]
    /\ UNCHANGED <<shown, capturing, captured, logger, used, begun, ended, broken>>

\* The file cannot be written: the log is dropped, and the capture goes on.
LogFails ==
    /\ hand # <<>> /\ logger # 0
    /\ hand' = <<>>
    /\ logger' = 0
    /\ broken' = broken \cup {logger}
    /\ UNCHANGED <<shown, capturing, captured, file, used, begun, ended>>

\* start_log, replacing any log in progress.
StartLog(g) ==
    /\ g \notin used
    /\ used' = used \cup {g}
    /\ logger' = g
    /\ capturing' = TRUE
    /\ captured' = <<>>
    /\ begun' = [begun EXCEPT ![g] = shown]
    /\ UNCHANGED <<shown, hand, file, ended, broken>>

\* stop_log: what has been captured is written out.  A log that a write has
\* ended since the user asked is not there to be written to.
StopLog ==
    /\ used # {}
    /\ IF logger = 0 THEN UNCHANGED <<file, ended>>
       ELSE /\ file' = [file EXCEPT ![logger] = @ \o captured]
            /\ ended' = [ended EXCEPT ![logger] = shown]
    /\ logger' = 0
    /\ capturing' = FALSE
    /\ captured' = <<>>
    /\ UNCHANGED <<shown, hand, used, begun, broken>>

Next ==
    \/ Advance \/ TypeLocally \/ LogText \/ LogFails
    \/ \E g \in Logs : StartLog(g)
    \/ StopLog

Spec == Init /\ [][Next]_vars

-----------------------------------------------------------------------------
\* A log in progress has the terminal capturing for it, and what is captured
\* when no log wants it is not kept for the next.
TypeOK ==
    /\ shown \in Nat /\ capturing \in BOOLEAN /\ logger \in {0} \cup Logs
    /\ captured \in Seq(Nat) /\ hand \in Seq(Nat)
    /\ file \in [Logs -> Seq(Nat)]
    /\ begun \in [Logs -> Nat] /\ ended \in [Logs -> Nat]
    /\ used \subseteq Logs /\ broken \subseteq used
    /\ logger # 0 => capturing
    /\ captured # <<>> => capturing

\* The log in progress, with what is on its way to it.
Coming == file[logger] \o hand \o captured

\* Of the log in progress nothing shown since it was started is missing: it is
\* in the file, in the hand of the I/O thread or still captured, once and in
\* the order it was shown, after anything that was in hand when it started.
CurrentLogWhole ==
    logger # 0 =>
        LET old == Len(Coming) - (shown - begun[logger])
        IN  /\ old >= 0
            /\ \A i \in 1 .. Len(Coming) :
                  IF i <= old THEN Coming[i] <= begun[logger]
                  ELSE Coming[i] = begun[logger] + (i - old)

\* No text is in two logs, and each has its own in the order it was shown.
LogsDisjoint ==
    /\ \A g \in Logs : \A i, j \in 1 .. Len(file[g]) : i < j => file[g][i] < file[g][j]
    /\ \A g, o \in Logs : g # o => Range(file[g]) \cap Range(file[o]) = {}

\* The log in progress has all that was shown, and no log shares with another.
LogsWhole == CurrentLogWhole /\ LogsDisjoint

-----------------------------------------------------------------------------
(* What the source says and the code does not do.                            *)

\* A log that was stopped has all that was shown up to then.
StopWritesAllShown ==
    \A g \in Logs :
       ended[g] > begun[g]
           => Range(Pieces(begun[g], ended[g])) \subseteq Range(file[g])
=============================================================================
