-------------------------- MODULE MCTelnetOptions --------------------------
(* An ordinary host, one that puts the terminal in binary mode, and a        *)
(* terminal server that takes line settings.                                 *)
EXTENDS TelnetOptions

Plain == [binary |-> FALSE, port |-> FALSE, accepts |-> {}, asks |-> {}, naive |-> FALSE,
          requests |-> 0, says |-> 0, keys |-> 0, sizes |-> 1, settings |-> 1]

MCCourses ==
  {[Plain EXCEPT !.accepts = accepted, !.asks = asked, !.naive = naive, !.requests = 2, !.sizes = 2] :
     accepted \in {{}, {"SGA", "NAWS"}}, asked \in {{"ECHO", "SGA"}, {"NAWS", "LINEMODE"}},
     naive \in BOOLEAN}
  \cup {[Plain EXCEPT !.says = 2, !.keys = 2],
        [Plain EXCEPT !.accepts = {"TTYPE"}, !.says = 1, !.requests = 1],
        [Plain EXCEPT !.asks = {"BINARY"}, !.requests = 2, !.says = 1, !.keys = 1],
        [Plain EXCEPT !.binary = TRUE, !.accepts = {"BINARY"}, !.says = 1, !.keys = 1, !.naive = TRUE],
        [Plain EXCEPT !.port = TRUE, !.accepts = {"COM_PORT"}, !.asks = {"COM_PORT"},
                      !.requests = 1, !.settings = 3, !.keys = 1]}
=============================================================================
