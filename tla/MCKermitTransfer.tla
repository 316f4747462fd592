--------------------------- MODULE MCKermitTransfer ---------------------------
(* Values for the constants of KermitTransfer and of KermitPackets: a         *)
(* transfer, or the exchange of one file's packets, character by character.   *)
EXTENDS KermitTransfer, KermitPackets

MCCastings ==
    { [left |-> "send", right |-> "receive"], [left |-> "send", right |-> "send"],
      [left |-> "receive", right |-> "receive"] }

\* What two ends' settings come to.
Comes(sender, receiver) ==
    LET link == Agree(NewLink(sender), receiver)
    IN  [check |-> CheckIn(link), attributes |-> link.attributes, long |-> link.long # None]

\* Two veetees, and one with a plainer Kermit at the other end.
MCAgreements == {Comes(Ours, Ours), Comes(Ours, Default)}

\* A text file whose lines end both ways, with carriage returns alone in it
\* and at its end, and a file to be sent as it is.
MCFiles ==
    << [mode |-> "text", bytes |-> <<"lf", "cr", "lf", "cr", "x", "cr">>],
       [mode |-> "binary", bytes |-> <<"cr", "lf">>] >>

-----------------------------------------------------------------------------
\* Other ends: one of few words, G-Kermit and C-Kermit as they have been seen to
\* ask, one that only has the eighth bit, and one that wants two characters.
Short == [Default EXCEPT !.maxLength = 18, !.timeout = 0, !.padding = 2, !.endOfLine = 10, !.quoteControl = 36]
GKermit == [Ours EXCEPT !.capabilities = <<42, 33, 74, 42>>, !.quoteEighth = AGREED]
OpenVms == [Ours EXCEPT !.check = "two", !.maxLength = 20, !.repeat = None, !.capabilities = <<94, 62, 74, 41>>]
Clean == [Ours EXCEPT !.capabilities = <<43, 35, 32>>, !.quoteEighth = None]
Two == [Ours EXCEPT !.check = "two", !.maxLength = 14, !.capabilities = <<>>]

Ends == UNION {{<<Ours, far>>, <<far, Ours>>} : far \in {Ours, Default, Short, GKermit, OpenVms, Clean, Two}}
        \cup {<<Two, OpenVms>>}

\* Letters, controls, the prefixes, all of them with an eighth bit, and both sides of
\* what is flipped.
Telling == {65, 13, 35, 38, 126, 193, 141, 127, 255, 163, 63, 95, 96}

\* ../.. con CON.A; a name of prefixes; spaces; D:[A]B.;1
Names ==
  {<<46, 46, 47, 46, 46>>, <<99, 111, 110>>, <<67, 79, 78, 46, 65>>, <<35, 38, 200, 46>>,
   <<32, 46, 65, 66>>, <<68, 58, 91, 65, 93, 66, 46, 59, 49>>}

Exchange(ends, name, bytes, least, faults) ==
  [sender |-> ends[1], receiver |-> ends[2], name |-> name, bytes |-> bytes, least |-> least, faults |-> faults]

MCExchanges ==
  {Exchange(ends, <<65, 46, 66, 59, 51>>, <<a, b>>, FALSE, {}) :
     ends \in {<<Ours, Ours>>, <<Default, Ours>>, <<OpenVms, Ours>>}, a \in Telling, b \in {65, 35, 141}}
  \cup {Exchange(ends, name, <<>>, TRUE, {"stray"}) : ends \in Ends, name \in Names}
  \cup {Exchange(ends, <<65>>, [i \in 1 .. n |-> c], TRUE, {"cut"}) : ends \in Ends, n \in {3, 20, 23}, c \in {65, 141}}
  \cup {Exchange(ends, <<65>>, <<65, 1, 1, 1, 1>>, FALSE, {"spoilt", "stray"}) : ends \in Ends}
  \cup {Exchange(<<Ours, Ours>>, <<65>>, [i \in 1 .. 20 |-> 48 + i], FALSE, {"spoilt"})}

MCNoises == {<<MARK>>, <<65, 10>>, <<MARK, 35, 32, 83>>, <<MARK, 32, 33>>}
MCSpoils == {MARK, 32, 60, 126, 200}

\* The transfer waits for ever beside an exchange, which its fairness does not allow:
\* of an exchange only what is always so is asked.
ExchangeOver == exchange # Asleep /\ exchange.stage = "over" /\ UNCHANGED exchange
MCInit ==
  \/ Init /\ exchange = Asleep
  \/ Init /\ Paired /\ agreement = Comes(Ours, Ours) /\ ExchangeInit
MCNext ==
  \/ exchange = Asleep /\ Next /\ UNCHANGED exchange
  \/ (ExchangeNext \/ ExchangeOver) /\ UNCHANGED vars
MCSpec == MCInit /\ [][MCNext]_<<vars, exchange>> /\ Fairness
=============================================================================
