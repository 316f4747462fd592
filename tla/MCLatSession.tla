----------------------------- MODULE MCLatSession -----------------------------
(* Values for the constants of LatSession: a far end that says anything.      *)
(* Beside it, the clocks of LatTransport with a host that keeps to its own.   *)
EXTENDS LatSession, LatTransport

Run0 == [kind |-> "run", theirs |-> Ours, ours |-> "host", sequence |-> 0,
         acknowledged |-> 0, slots |-> 0, credit |-> 0, data |-> <<>>,
         ended |-> FALSE, from |-> 1]

\* A bare acknowledgement, text with credit, and two slots from slot zero of
\* which the last ends the session.
Contents ==
    { [Run0 EXCEPT !.from = 0],
      [Run0 EXCEPT !.slots = 1, !.credit = 2, !.data = <<"t">>],
      [Run0 EXCEPT !.slots = 2, !.ended = TRUE, !.from = 0] }

MCInbound ==
    { [c EXCEPT !.sequence = n, !.acknowledged = a] : c \in Contents, n \in Numbers, a \in {0, 3} }
    \cup { [Run0 EXCEPT !.theirs = "other"], [Run0 EXCEPT !.ours = "other"] }
    \cup { [kind |-> "start", calling |-> c, theirs |-> t, ours |-> "host"] :
             c \in BOOLEAN, t \in {Ours, "other"} }
    \cup { [kind |-> "stop", theirs |-> t, ours |-> o] :
             t \in {Ours, "other"}, o \in {"host", "other", Unnamed} }

MCTyping == { <<"t", "t">> }

-----------------------------------------------------------------------------
\* One of the two, the other asleep.
Asleep == reader.at = "asleep"

MCInit == Init /\ (TransportInit \/ StartsAt("asleep"))

MCNext ==
  \/ Asleep /\ Next /\ UNCHANGED transportVars
  \/ TransportNext /\ UNCHANGED vars

MCSpec == MCInit /\ [][MCNext]_<<vars, transportVars>>
=============================================================================
