--------------------------------- MODULE Keys ---------------------------------
(***************************************************************************)
(* What the terminal's own keys send, and what the host makes of them: the *)
(* codes by mode and level, user-defined keys (DECUDK), programmed keys    *)
(* (DECPFK, DECPAK, DECCKD, DECPKA) and the reports of them                *)
(* (crates/vt-core/src/keyboard.rs, keyprog.rs, udk.rs, terminal/mod.rs,   *)
(* dcs.rs and reports.rs).                                                 *)
(*                                                                         *)
(* A key is its name in a tuple, with its number if it has one.  A byte is *)
(* the character, or a name; a number in a sequence is one element.  `k`   *)
(* is the Terminal of the code, as far as its keys go: `on` are its modes  *)
(* that are set, `sent` and `shown` what the last doing sent to the host   *)
(* and put on the screen.                                                  *)
(***************************************************************************)
EXTENDS Integers, Sequences, FiniteSets, SequencesExt, TLC

CONSTANTS
  KeyMemory,      \* 768 bytes for programmed keys
  UdkCapacity,    \* 804 bytes for user-defined keys
  LongestUds      \* 255 bytes that one programmed key may send

ASSUME KeysAssumption == {KeyMemory, UdkCapacity, LongestUds} \subseteq Nat

-----------------------------------------------------------------------------
(* Keys and the codes they send.                                           *)

Function(f) == <<"Function", f>>
UserDefined(f) == <<"UserDefined", f>>
Keypad(d) == <<"Keypad", d>>
Modifiers == {"shift", "ctrl", "alt"}

PfCode == [Pf1 |-> "P", Pf2 |-> "Q", Pf3 |-> "R", Pf4 |-> "S"]
CursorCode == [Up |-> "A", Down |-> "B", Right |-> "C", Left |-> "D"]
CursorNumber == [Left |-> 7, Down |-> 8, Up |-> 9, Right |-> 10]
EditingNumber == [Find |-> 1, InsertHere |-> 2, Remove |-> 3, Select |-> 4, PrevScreen |-> 5, NextScreen |-> 6]
KeypadText == [KeypadMinus |-> "-", KeypadComma |-> ",", KeypadPeriod |-> "."]
KeypadCode == [KeypadMinus |-> "m", KeypadComma |-> "l", KeypadPeriod |-> "n", KeypadEnter |-> "M"]
DigitCode == <<"p", "q", "r", "s", "t", "u", "v", "w", "x", "y">>

NamedKeys ==
  {<<name>> : name \in {"Return", "Delete", "Tab", "LineFeed", "Escape", "Backspace"} \cup DOMAIN CursorCode
                       \cup DOMAIN EditingNumber \cup DOMAIN PfCode \cup DOMAIN KeypadCode}
SentKeys == NamedKeys \cup {Keypad(d) : d \in 0 .. 9} \cup {Function(f) : f \in 1 .. 20}
AllKeys == SentKeys \cup {UserDefined(f) : f \in 6 .. 20}

Decfnk(mods) ==
  1 + (IF "shift" \in mods THEN 1 ELSE 0) + (IF "alt" \in mods THEN 2 ELSE 0) + (IF "ctrl" \in mods THEN 4 ELSE 0)

FunctionKeyNumber(f) ==
  f + (CASE f \in 1 .. 5 -> 10 [] f \in 6 .. 10 -> 11 [] f \in 11 .. 14 -> 12 [] f \in 15 .. 16 -> 13 [] OTHER -> 14)

Csi(k) == IF "eight" \in k.on THEN <<"CSI8">> ELSE <<"ESC", "[">>
Ss3(k) == IF "eight" \in k.on THEN <<"SS38">> ELSE <<"ESC", "O">>
IsAnsi(k) == "ansi" \in k.on
Tilde(k, n) == Csi(k) \o <<ToString(n), "~">>

Encode(k, key) ==
  LET name == key[1]
      asReturn == IF "newline" \in k.on THEN <<"CR", "LF">> ELSE <<"CR">>
      ground == IF IsAnsi(k) THEN Ss3(k) ELSE <<"ESC">>
  IN  CASE name = "Return" -> asReturn
        [] name = "Delete" -> IF "backarrow" \in k.on THEN <<"BS">> ELSE <<"DEL">>
        [] name = "Tab" -> <<"HT">>
        [] name = "LineFeed" -> <<"LF">>
        [] name = "Escape" -> <<"ESC">>
        [] name = "Backspace" -> <<"BS">>
        [] name \in DOMAIN CursorCode ->
             Append(IF IsAnsi(k) /\ "cursor" \notin k.on THEN Csi(k) ELSE ground, CursorCode[name])
        [] name \in DOMAIN PfCode -> Append(ground, PfCode[name])
        [] name \in {"Keypad"} \cup DOMAIN KeypadCode /\ "keypad" \notin k.on ->
             (CASE name = "Keypad" -> <<ToString(key[2])>>
                [] name = "KeypadEnter" -> asReturn
                [] OTHER -> <<KeypadText[name]>>)
        [] name \in {"Keypad"} \cup DOMAIN KeypadCode /\ "keypad" \in k.on ->
             Append(IF IsAnsi(k) THEN Ss3(k) ELSE <<"ESC", "?">>,
                    IF name = "Keypad" THEN DigitCode[key[2] + 1] ELSE KeypadCode[name])
        [] name \in DOMAIN EditingNumber ->
             IF k.level < 2 \/ ~IsAnsi(k) THEN <<>> ELSE Tilde(k, EditingNumber[name])
        [] name = "UserDefined" -> <<>>
        [] name = "Function" /\ (k.level < 2 \/ ~IsAnsi(k)) ->
             (CASE key[2] = 11 -> <<"ESC">> [] key[2] = 12 -> <<"BS">> [] key[2] = 13 -> <<"LF">> [] OTHER -> <<>>)
        [] OTHER ->
             IF key[2] \in 6 .. 20 \/ (key[2] \in 1 .. 4 /\ k.level >= 5) THEN Tilde(k, FunctionKeyNumber(key[2]))
             ELSE <<>>

\* The number and modifiers of a DECFNK sequence, if this key has one for them.
ModifiedAs(key, mods) ==
  LET name == key[1]
      held == mods \ {"shift"}
  IN  CASE name = "Function" /\ mods # {} -> {<<FunctionKeyNumber(key[2]), mods>>}
        [] name \in {"Find", "InsertHere", "Remove", "Select"} /\ held # {} -> {<<EditingNumber[name], held>>}
        [] name \in {"PrevScreen", "NextScreen"} /\ "alt" \in mods -> {<<EditingNumber[name], held>>}
        [] name \in DOMAIN CursorNumber /\ "alt" \in mods -> {<<CursorNumber[name], held>>}
        [] OTHER -> {}
Decfnks(k, key, mods) == IF k.level >= 5 /\ IsAnsi(k) THEN ModifiedAs(key, mods) ELSE {}
DecfnkSequence(k, n, mods) == Csi(k) \o <<ToString(n), ";", ToString(Decfnk(mods)), "~">>
EncodeWith(k, key, mods) ==
  LET modified == Decfnks(k, key, mods)
  IN  IF modified = {} THEN Encode(k, key)
      ELSE CHOOSE bytes \in {DecfnkSequence(k, m[1], m[2]) : m \in modified} : TRUE

-----------------------------------------------------------------------------
(* Programmed keys, by the number of their place on the keyboard.          *)

STATIONS ==
  15 :> <<"Delete">> @@ 16 :> <<"Tab">> @@ 43 :> <<"Return">> @@ 75 :> <<"Find">> @@ 80 :> <<"InsertHere">>
  @@ 85 :> <<"Remove">> @@ 76 :> <<"Select">> @@ 81 :> <<"PrevScreen">> @@ 86 :> <<"NextScreen">>
  @@ 83 :> <<"Up">> @@ 79 :> <<"Left">> @@ 84 :> <<"Down">> @@ 89 :> <<"Right">>
  @@ 90 :> <<"Pf1">> @@ 95 :> <<"Pf2">> @@ 100 :> <<"Pf3">> @@ 105 :> <<"Pf4">>
  @@ 91 :> Keypad(7) @@ 96 :> Keypad(8) @@ 101 :> Keypad(9) @@ 106 :> <<"KeypadMinus">>
  @@ 92 :> Keypad(4) @@ 97 :> Keypad(5) @@ 102 :> Keypad(6) @@ 107 :> <<"KeypadComma">>
  @@ 93 :> Keypad(1) @@ 98 :> Keypad(2) @@ 103 :> Keypad(3) @@ 108 :> <<"KeypadEnter">>
  @@ 99 :> Keypad(0) @@ 104 :> <<"KeypadPeriod">>
  @@ [s \in 112 .. 127 |-> Function(s - 111)] @@ [s \in 130 .. 133 |-> Function(s - 113)]

\* Shifted F6 to F20 are on their function keys.  None for a key without a place.
StationsOf(key) ==
  LET at == IF key[1] = "UserDefined" THEN Function(key[2]) ELSE key
  IN  {s \in DOMAIN STATIONS : STATIONS[s] = at}
IsAlphanumeric(s) == s \in (1 .. 13) \cup (17 .. 28) \cup (31 .. 42) \cup (45 .. 55) \cup {61}
BREAK_STATION == 116

Bad == -1          \* what is no number of the right size
Unsaid == -2       \* an empty field
Garbled == <<"garbled">>  \* no pairs of hexadecimal digits
Undefined == <<".">>
Number(field) == IF field = Unsaid THEN 0 ELSE field
NoAlt == [function |-> Bad, uds |-> <<>>, direction |-> 0]
NoPrograms == [functions |-> <<>>, alphanumeric |-> <<>>, copies |-> <<>>, locked |-> FALSE]

SumOf(f(_), S) == MapThenSumSet(f, S)
ProgramRoom(program) == 4 + Len(program.uds)
AlphanumericRoom(a) ==
  2 + SumOf(LAMBDA i : IF a.codes[i] = Undefined THEN 0 ELSE Len(a.codes[i]), 1 .. 7)
    + (IF a.alt = NoAlt THEN 0 ELSE ProgramRoom(a.alt))
UsedBy(p) ==
  SumOf(LAMBDA at : ProgramRoom(p.functions[at]), DOMAIN p.functions)
  + SumOf(LAMBDA s : AlphanumericRoom(p.alphanumeric[s]), DOMAIN p.alphanumeric)
  + 2 * Cardinality(DOMAIN p.copies)
FreeIn(p) == IF UsedBy(p) > KeyMemory THEN 0 ELSE KeyMemory - UsedBy(p)

Without(f, S) == Restrict(f, DOMAIN f \ S)
Stops(p) == [p |-> p, stop |-> TRUE]
\* What a definition comes to, if there is room; else what was there stays.
IfItFits(p, q) == IF UsedBy(q) <= KeyMemory THEN [p |-> q, stop |-> FALSE] ELSE Stops(p)

Program(d) == [function |-> Number(d.function), uds |-> d.uds, direction |-> Number(d.direction)]

\* DECPFK: Key/Mod/Function/UDS/Direction.
PlaceOf(d) == <<Number(d.station), IF Number(d.modifier) = 0 THEN 1 ELSE d.modifier>>
\* A definition that does not fit takes the one it was to replace with it.
DefineFunctionKeyLosing(p, d) ==
  LET q == [p EXCEPT !.functions = (PlaceOf(d) :> Program(d)) @@ @]
  IN  IF Number(d.station) \notin DOMAIN STATIONS \ {BREAK_STATION} \/ d.uds = Garbled THEN Stops(p)
      ELSE IF UsedBy(q) <= KeyMemory THEN [p |-> q, stop |-> FALSE]
      ELSE Stops([p EXCEPT !.functions = Without(@, {PlaceOf(d)})])
DefineFunctionKey(p, d) ==
  IF \/ Number(d.station) \notin DOMAIN STATIONS \ {BREAK_STATION}
     \/ Number(d.modifier) \notin 0 .. 8 \/ d.function = Bad
     \/ d.uds = Garbled \/ Number(d.direction) \notin 0 .. 2 \/ Len(d.uds) > LongestUds
  THEN Stops(p)
  ELSE IfItFits(p, [p EXCEPT !.functions = (PlaceOf(d) :> Program(d)) @@ @])
\* Seven codes: a minus before one goes, and an item with nothing in it is no item.
Code(item) == IF Head(item) = "-" THEN Tail(item) ELSE item
ParsedCodes(items) ==
  LET said == SelectSeq(items, LAMBDA item : item # <<>>)
  IN  [i \in 1 .. 7 |-> IF i \in DOMAIN said THEN Code(said[i]) ELSE Undefined]
CodesAreGood(items) ==
  /\ Len(SelectSeq(items, LAMBDA item : item # <<>>)) <= 7
  /\ \A i \in DOMAIN items : items[i] # Garbled

\* DECPAK: Key/HexCodes/Function/UDS/Direction, the last three for Alt if they are there.
DefineAlphanumeric(p, d) ==
  LET alt == [Program(d) EXCEPT !.direction = IF @ \in 1 .. 2 THEN @ ELSE 0]
  IN  IF \/ ~IsAlphanumeric(Number(d.station)) \/ ~CodesAreGood(d.codes)
         \/ d.alt /\ (d.function = Bad \/ d.uds = Garbled)
      THEN Stops(p)
      ELSE IfItFits(p, [p EXCEPT !.alphanumeric =
                          (Number(d.station) :> [codes |-> ParsedCodes(d.codes), alt |-> IF d.alt THEN alt ELSE NoAlt])
                          @@ @])

\* DECCKD: Ks/Kd.
ClearStation(p, s) ==
  [p EXCEPT !.functions = Without(@, {at \in DOMAIN @ : at[1] = s}),
            !.alphanumeric = Without(@, {s}), !.copies = Without(@, {s})]
CopyDefault(p, d) ==
  LET to == Number(d.dest)
      cleared == ClearStation(p, to)
  IN  IF d.source = Bad \/ d.dest = Bad THEN Stops(p)
      ELSE IF to = BREAK_STATION THEN [p |-> p, stop |-> FALSE]
      ELSE IF Number(d.source) = to THEN [p |-> cleared, stop |-> FALSE]
      ELSE IfItFits(cleared, [cleared EXCEPT !.copies = (to :> Number(d.source)) @@ @])

Define(p, kind, d) ==
  CASE kind = "x" -> DefineFunctionKey(p, d) [] kind = "y" -> DefineAlphanumeric(p, d) [] OTHER -> CopyDefault(p, d)
ProgramKeys(p, kind, definitions) ==
  IF p.locked THEN p
  ELSE FoldLeft(LAMBDA so, d : IF so.stop THEN so ELSE Define(so.p, kind, d), [p |-> p, stop |-> FALSE], definitions).p

\* DECPKA.
KeyAction(p, action) ==
  CASE action = 1 -> [p EXCEPT !.locked = TRUE]
    [] action \in 2 .. 3 /\ ~p.locked -> NoPrograms
    [] OTHER -> p

ReportFunction(p, s, modifier, default) ==
  LET m == IF modifier = 0 THEN 1 ELSE modifier
      said(function, uds, direction) ==
        [station |-> s, modifier |-> m, function |-> function, uds |-> uds, direction |-> direction]
  IN  IF <<s, m>> \in DOMAIN p.functions
      THEN said(p.functions[<<s, m>>].function, p.functions[<<s, m>>].uds, p.functions[<<s, m>>].direction)
      ELSE said(Unsaid, default, 0)
ReportAlphanumeric(p, s) ==
  LET a == p.alphanumeric[s]
      said(codes, alt) == [station |-> s, codes |-> codes, alt |-> alt # NoAlt, function |-> alt.function,
                           uds |-> alt.uds, direction |-> alt.direction]
  IN  IF s \in DOMAIN p.alphanumeric THEN said(a.codes, a.alt) ELSE said([i \in 1 .. 7 |-> Undefined], NoAlt)

-----------------------------------------------------------------------------
(* User-defined keys.                                                      *)

NoUdks == [f \in 6 .. 20 |-> <<>>]
\* The function key a selector names; 0 for none.
UdkNumber(selector) ==
  CASE selector \in 17 .. 21 -> selector - 11 [] selector \in 23 .. 26 -> selector - 12
    [] selector \in 28 .. 29 -> selector - 13 [] selector \in 31 .. 34 -> selector - 14 [] OTHER -> 0
UdkUsed(udks) == SumOf(LAMBDA f : Len(udks[f]), DOMAIN udks)

Blank == [selector |-> Unsaid, hex |-> <<>>]  \* white space between definitions
LoadUdk(so, d) ==
  LET f == UdkNumber(d.selector)
  IN  CASE so.stop \/ d = Blank -> so
        [] f = 0 \/ d.hex = Garbled -> [so EXCEPT !.stop = TRUE]
        [] UdkUsed([so.udks EXCEPT ![f] = d.hex]) > UdkCapacity -> [so EXCEPT !.stop = TRUE]
        [] OTHER -> [so EXCEPT !.udks[f] = d.hex]
LoadUdks(k, clearAll, lock, definitions) ==
  IF k.udkLocked THEN k
  ELSE [k EXCEPT !.udks = FoldLeft(LoadUdk, [udks |-> IF clearAll THEN NoUdks ELSE @, stop |-> FALSE], definitions).udks,
                 !.udkLocked = lock]

-----------------------------------------------------------------------------
(* The terminal.                                                           *)

NewTerminal(max) ==
  [max |-> max, level |-> max, on |-> {"ansi"}, udks |-> NoUdks, udkLocked |-> FALSE, programs |-> NoPrograms,
   localKeys |-> [n \in 1 .. 4 |-> "Local"], copyPaste |-> TRUE, sent |-> <<>>, shown |-> <<>>, did |-> {}]

Transmit(k, bytes) ==
  [k EXCEPT !.sent = @ \o bytes, !.shown = IF "echo" \in k.on THEN @ \o bytes ELSE @]

Handled(k) == [k |-> k, outcome |-> 0, typed |-> TRUE]
NotProgrammed(k) == [k |-> k, outcome |-> 0, typed |-> FALSE]
CodeSent == (91 :> "BS") @@ (92 :> "^24") @@ (93 :> "ESC") @@ (94 :> "DEL")
RunProgram(k, program) ==
  CASE program.function = 0 -> Handled(k)
    [] program.function = 100 ->
         Handled(CASE program.direction = 1 -> [k EXCEPT !.shown = @ \o program.uds]
                   [] program.direction = 2 -> [k EXCEPT !.sent = @ \o program.uds]
                   [] OTHER -> Transmit(k, program.uds))
    [] program.function \in DOMAIN CodeSent -> Handled(Transmit(k, <<CodeSent[program.function]>>))
    [] OTHER -> [k |-> k, outcome |-> program.function, typed |-> TRUE]

KeyBytes(k, key, mods) ==
  IF key[1] # "UserDefined" THEN EncodeWith(k, key, mods)
  ELSE IF k.level < 2 THEN <<>>
  ELSE IF k.udks[key[2]] # <<>> THEN k.udks[key[2]]
  ELSE IF k.level >= 5 /\ IsAnsi(k) THEN DecfnkSequence(k, FunctionKeyNumber(key[2]), {"shift"})
  ELSE <<>>

\* The place of a key that may be programmed; none before the VT510.
Programmable(k, key) == IF k.max >= 5 /\ IsAnsi(k) THEN StationsOf(key) ELSE {}
KeyWith(k, key, mods) ==
  LET held == IF key[1] = "UserDefined" /\ Programmable(k, key) # {} THEN mods \cup {"shift"} ELSE mods
      program == {k.programs.functions[at] :
                    at \in {<<s, Decfnk(held)>> : s \in Programmable(k, key)} \cap DOMAIN k.programs.functions}
      source == {k.programs.copies[s] : s \in Programmable(k, key) \cap DOMAIN k.programs.copies}
                \cap (DOMAIN STATIONS \ Programmable(k, key))
  IN  CASE "locked" \in k.on -> Handled(k)
        [] "locked" \notin k.on /\ program # {} -> RunProgram(k, CHOOSE one \in program : TRUE)
        [] "locked" \notin k.on /\ program = {} /\ source # {} ->
             Handled(Transmit(k, KeyBytes(k, STATIONS[CHOOSE s \in source : TRUE], held)))
        [] OTHER -> Handled(Transmit(k, KeyBytes(k, key, held)))

\* A key of the main array, with the shift of group 2 or not.
AlphanumericState(mods, altGraph) ==
  CASE "ctrl" \in mods -> 7
    [] "ctrl" \notin mods /\ ~altGraph -> IF "shift" \in mods THEN 2 ELSE 1
    [] OTHER -> IF "shift" \in mods THEN 5 ELSE 4
AlphanumericKey(k, s, mods, altGraph) ==
  IF k.max < 5 \/ ~IsAnsi(k) \/ s \notin DOMAIN k.programs.alphanumeric THEN NotProgrammed(k)
  ELSE LET a == k.programs.alphanumeric[s]
           code == a.codes[AlphanumericState(mods, altGraph)]
       IN  CASE "alt" \in mods /\ ~altGraph -> IF a.alt = NoAlt THEN NotProgrammed(k) ELSE RunProgram(k, a.alt)
             [] code = Undefined -> NotProgrammed(k)
             [] OTHER -> Handled(Transmit(k, code))

\* Characters that every character set has go as they are.
TypeText(k, text) == IF "locked" \in k.on THEN k ELSE Transmit(k, text)
SendAnswerback(k) == Transmit(k, <<"answerback">>)

\* DECLFKC and DECELF.
LocalFunctionKey(k, n) == IF k.level >= 5 THEN k.localKeys[n] ELSE "Local"
CopyPasteEnabled(k) == k.level < 5 \/ k.copyPaste

\* DECRQKD: what a key is programmed to, or what it sends.
ModifiersOf(modifier) ==
  {"shift" : m \in {modifier} \cap {2, 4, 6, 8}} \cup {"alt" : m \in {modifier} \cap {3, 4, 7, 8}}
  \cup {"ctrl" : m \in {modifier} \cap 5 .. 8}
KeyDefinitionReport(k, s, modifier) ==
  CASE IsAlphanumeric(s) -> {[kind |-> "y", d |-> ReportAlphanumeric(k.programs, s)]}
    [] ~IsAlphanumeric(s) /\ s \in DOMAIN STATIONS /\ modifier \in 0 .. 8 ->
         {[kind |-> "x", d |-> ReportFunction(k.programs, s, modifier,
                                              EncodeWith(k, STATIONS[s], ModifiersOf(modifier)))]}
    [] OTHER -> {}
KeyType(s) == IF s \in DOMAIN STATIONS THEN {1} ELSE IF IsAlphanumeric(s) THEN {0} ELSE {}

\* DECSTR, and RIS.
KeysSoftReset(k) == [k EXCEPT !.on = @ \ {"locked", "keypad", "cursor"}]
KeysReset(k) == NewTerminal(k.max)
=============================================================================
