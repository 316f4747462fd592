------------------------------- MODULE MCInput -------------------------------
(* Nine kinds of host, each with its own pieces of what it says; and, by      *)
(* themselves, the keys, with what a host and a user do to them.              *)
EXTENDS Input, Keyboard

Kind(says, options) ==
  [says |-> says, utf8 |-> "utf8" \in options, echo |-> "echo" \in options,
   prints |-> "prints" \in options, shows |-> "shows" \in options,
   saved |-> {[vt52 |-> "vt52" \in options, crm |-> "crm" \in options]}]

MCHosts ==
  {Kind({<<"ESC", "[", "5", "i">>, <<"ESC">>, <<"[", "4">>, <<"i">>, <<"CSI8">>, <<"4", "i">>, <<"X">>,
         <<"A">>}, {"prints", "echo"}),
   Kind({<<"ESC", "[">>, <<"CSI8">>, <<"4", ";">>, <<":", "5">>, <<"?">>, <<"*">>, <<"GRi">>, <<"CAN">>,
         <<"LF">>, <<"1">>}, {}),
   Kind({<<"DCS8", "0", ";", "0", ";", "1", "!", "z">>, <<"h1B", "h5B", "h35", "h69">>, <<"h1B", "LF">>,
         <<"h1B", "h5B", "h30", "h2A", "h7A">>, <<"h0A", "h41">>, <<"ST8">>, Invoke}, {}),
   Kind({<<"DCS8", "1", ";", "1", "!", "z">>, <<"A", "A">>, <<"ESC", "\\">>, <<"CAN">>,
         <<"DCS8", "0", "!", "z">>, <<"A", "A", "A">>, <<"ESC", "c">>,
         <<"ESC", "P", "0", ";", "0", "!", "z", "A", "A", "A", "A", "LF", "A", "ESC", "X">>}, {}),
   Kind({<<"ESC", "[", "?", "4", "h">>, <<"ESC", "[", "?", "4", "l">>, <<"A", "A", "A">>, <<"LF">>,
         <<"IND8">>, <<"ESC", "[", "?", "5", "i">>, <<"ESC", "[", "?", "4", "i">>, <<"ESC", "[", "0", "i">>},
        {"echo", "prints"}),
   Kind({<<"ESC", "[">>, <<"1", "+", "p">>, <<"ESC", "Y">>, <<"A">>, <<"LF">>, <<"ESC", "<">>}, {"shows", "vt52"}),
   Kind({<<"C2">>, <<"CSI8">>, <<"GRi">>, <<"A0">>, <<"5", "i">>, <<"DCS8">>, <<"ST8">>, <<"ESC", "]">>},
        {"utf8"}),
   Kind({<<"ESC", "[", "?", "2", "l">>, <<"ESC", "W">>, <<"ESC", "X">>, <<"ESC", "Y">>, <<"A">>,
         <<"ESC", "^">>, <<"ESC", "_">>, <<"ESC", "]">>, <<"LF">>}, {"prints"}),
   Kind({<<"ESC", "]">>, <<"OSC8">>, <<"A">>, <<"BEL">>, <<"ESC", "P">>, <<"ESC", "X">>, <<"IND8">>,
         <<"!", "?", "z">>}, {})}

MCWords ==
  {<<"A", "A", "LF", "A">>,
   <<"ESC", "[", "5", "i", "ESC", "ESC", "[", "4", "i", "A">>,
   <<"[", "?", "2", "l", "ESC", "Y", "A", "A">>,
   <<"C2", "CSI8", "4", "i">>,
   Invoke \o <<"A">>,
   <<"1", "+", "p", "h41", "ST8", "A">>}

-----------------------------------------------------------------------------
Fn(station, modifier, function, uds) ==
  [station |-> station, modifier |-> modifier, function |-> function, uds |-> uds, direction |-> Unsaid]
Toward(way, d) == [d EXCEPT !.direction = way]
Alpha(station, codes) ==
  [station |-> station, codes |-> codes, alt |-> FALSE, function |-> Bad, uds |-> <<>>, direction |-> 0]
WithAlt(function, uds, d) == [d EXCEPT !.alt = TRUE, !.function = function, !.uds = uds]
Copied(source, dest) == [source |-> source, dest |-> dest]

MCLoads ==
  {[kind |-> "x", definitions |-> ds] :
     ds \in {<<Fn(117, Unsaid, 100, <<"A", "B">>), Toward(1, Fn(117, 2, 100, <<"C">>))>>,
             <<Fn(117, 1, 100, <<"A", "B", "C", "D">>), Fn(114, 1, 3, <<>>)>>,
             <<Toward(2, Fn(83, 8, 100, <<"A">>)), Fn(116, 1, 3, <<>>), Fn(15, 1, 94, <<>>)>>,
             <<Fn(117, 9, 3, <<>>)>>, <<Fn(132, 2, Unsaid, <<"A", "B", "C", "D", "E">>)>>,
             <<Fn(43, 0, 91, <<>>), Fn(43, 5, 99, Garbled), Fn(43, 1, 3, <<>>)>>, <<Toward(3, Fn(16, 1, 3, <<>>))>>}}
  \cup
  {[kind |-> "y", definitions |-> ds] :
     ds \in {<<Alpha(31, <<<<"A">>, Undefined, <<"-", "B">>>>), WithAlt(100, <<"C">>, Alpha(61, <<>>))>>,
             <<Alpha(31, <<<<"-">>, <<>>, <<"A", "B">>>>)>>, <<Alpha(31, [i \in 1 .. 8 |-> Undefined])>>,
             <<WithAlt(3, <<>>, Alpha(31, [i \in 1 .. 7 |-> <<"A">>]))>>}}
  \cup
  {[kind |-> "z", definitions |-> ds] :
     ds \in {<<Copied(118, 117), Copied(117, 83)>>, <<Copied(117, 117), Copied(1, 116), Copied(83, 15)>>,
             <<Copied(31, 31), Copied(Bad, 16)>>}}

MCUdkLoads ==
  {<<[selector |-> 17, hex |-> <<"A", "B">>], Blank, [selector |-> 34, hex |-> <<"C">>]>>,
   <<[selector |-> 17, hex |-> <<"A">>], [selector |-> 22, hex |-> <<"B">>], [selector |-> 18, hex |-> <<"C">>]>>,
   <<[selector |-> 26, hex |-> <<"A", "B", "C", "D">>], [selector |-> 17, hex |-> Garbled]>>}

MCEdits == {Pc(65481, {}), Pc(67, {"ctrl", "shift"}), Pc(65362, {"alt"}), Pc(65475, {"ctrl"}), Pc(66, {"ctrl"}), Pc(65505, {})}
Pressed(sym, mods, keycode) == [sym |-> sym, mods |-> mods, keycode |-> keycode]
MCPresses ==
  {Pressed(F1 + n - 1, mods, 0) : n \in {2, 3, 4, 5, 6, 13}, mods \in {{}, {"shift"}, {"ctrl"}, {"ctrl", "shift"}}}
  \cup {Pressed(sym, mods, 38) : sym \in {97, 65}, mods \in SUBSET Modifiers}
  \cup {Pressed(sym, mods, 0) : sym \in {KEY_NAMES.Up, KEY_NAMES.Page_Down, KEY_NAMES.KP_Add, KP_0 + 4, KEY_NAMES.Return},
                                mods \in SUBSET Modifiers}
  \cup {Pressed(118, {"ctrl", "shift"}, 55), Pressed(32, {"ctrl"}, 65), Pressed(64, {"ctrl", "shift"}, 11)}

Start(k, who) == [k |-> k, map |-> DefaultMap, file |-> NoFile, who |-> who, steps |-> 0]
Saved(file) == [Start(NewTerminal(4), {"editor"}) EXCEPT !.file = {file}, !.map = LoadKeymap({file})]
AtLevel(k, level) == [k EXCEPT !.level = level]
Programmed ==
  LET p == ProgramKeys(NoPrograms, "x", <<Fn(117, 1, 3, <<>>), Fn(117, 2, 10, <<>>), Fn(114, 1, 37, <<>>)>>)
  IN  [NewTerminal(5) EXCEPT !.programs = ProgramKeys(p, "y", <<WithAlt(100, <<"B">>, Alpha(31, <<<<"A">>>>))>>)]
MCKeyStarts ==
  {Start(NewTerminal(5), {"host"}), Start(AtLevel(NewTerminal(5), 1), {"host", "user"}), Start(Programmed, {"user", "modes"}),
   Start(NewTerminal(4), {"modes"}), Start(NewTerminal(1), {"modes"}), Start(NewTerminal(5), {"editor"})}
  \cup {Saved(file) : file \in {<<F(<<>>, 4, <<"session">>), Line(<<"alt">>, <<"char", 49>>, <<"help">>)>>,
                               <<F(<<>>, 21, <<"do">>)>>, <<Plain("Up", <<"search">>), Line(C, <<"Up">>, <<"copy">>)>>}}

MCInit ==
  \/ Init /\ keys = NoKeys
  \/ Init /\ host = (CHOOSE h \in Hosts : h.utf8) /\ KeysInit
MCNext ==
  \/ ~Awake /\ Next /\ UNCHANGED keys
  \/ KeysNext /\ UNCHANGED vars
MCSpec == MCInit /\ [][MCNext]_<<vars, keys>>
=============================================================================
