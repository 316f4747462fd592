----------------------------- MODULE MCWindowLine -----------------------------
(* Values for the constants of WindowLine.                                   *)
EXTENDS WindowLine

Factory == [limited |-> FALSE, flow |-> TRUE, online |-> TRUE]
Limited == [Factory EXCEPT !.limited = TRUE]

Either == {Factory, Limited}
OnlyLimited == {Limited}

Controls(f) == [Nothing EXCEPT !.flow = f]

Flow == {Nothing, Controls(<<"xoff">>), Controls(<<"xon">>)}
FlowAndAsking == Flow \cup {[Nothing EXCEPT !.asks = TRUE], Controls(<<"xon", "xoff">>)}
FlowAndPackets == Flow \cup {[Nothing EXCEPT !.packet = TRUE]}
=============================================================================
