------------------------------- MODULE Keyboard -------------------------------
(***************************************************************************)
(* A personal computer's keyboard as the terminal's: the keymap, its file  *)
(* and its editor, a key press from the window to the host, and the keys   *)
(* that do something here instead (crates/vt-keyboard/src/lib.rs,          *)
(* keymap.rs and default.toml; crates/veetee/src/view.rs, session.rs,      *)
(* keymaps.rs and keymap_editor.rs).  Keys has what the terminal sends.    *)
(*                                                                         *)
(* A PC key is its keysym with the modifiers held.  What stands in a file  *)
(* is a name: the prefixes and the parts of a key's name, the parts of a   *)
(* target's name.                                                          *)
(***************************************************************************)
EXTENDS Keys

CONSTANTS
  KeyStarts,      \* how a terminal may begin, and who does something to it
  Presses,        \* keys that are pressed: keysym, modifiers, place on the main array
  Loads,          \* what the host programs: kind and definitions
  UdkLoads,
  Edits,          \* PC keys that the editor is given
  MaxKeySteps

VARIABLE keys

NoKeys == [asleep |-> TRUE]

-----------------------------------------------------------------------------
(* Names of keys.                                                          *)

KEY_NAMES ==
  [BackSpace |-> 65288, Tab |-> 65289, ISO_Left_Tab |-> 65056, Return |-> 65293, Pause |-> 65299,
   Scroll_Lock |-> 65300, Escape |-> 65307, Home |-> 65360, Left |-> 65361, Up |-> 65362, Right |-> 65363,
   Down |-> 65364, Page_Up |-> 65365, Page_Down |-> 65366, End |-> 65367, Insert |-> 65379,
   Break |-> 65387, Num_Lock |-> 65407, KP_Enter |-> 65421, KP_Home |-> 65429, KP_Left |-> 65430,
   KP_Up |-> 65431, KP_Right |-> 65432, KP_Down |-> 65433, KP_Page_Up |-> 65434, KP_Page_Down |-> 65435,
   KP_End |-> 65436, KP_Begin |-> 65437, KP_Insert |-> 65438, KP_Delete |-> 65439, KP_Multiply |-> 65450,
   KP_Add |-> 65451, KP_Separator |-> 65452, KP_Subtract |-> 65453, KP_Decimal |-> 65454,
   KP_Divide |-> 65455, KP_Equal |-> 65469, Delete |-> 65535, space |-> 32] @@ ("Print" :> 65377)
KP_0 == 65456
F1 == 65470

Normalized(sym) == IF sym \in 65 .. 90 THEN sym + 32 ELSE sym
Nameable(sym) ==
  sym \in {KEY_NAMES[n] : n \in DOMAIN KEY_NAMES} \cup (KP_0 .. KP_0 + 9) \cup (F1 .. F1 + 19) \cup (33 .. 126)
KeyName(sym) ==
  CASE \E n \in DOMAIN KEY_NAMES : KEY_NAMES[n] = sym -> <<CHOOSE n \in DOMAIN KEY_NAMES : KEY_NAMES[n] = sym>>
    [] sym \in KP_0 .. KP_0 + 9 -> <<"KP_", sym - KP_0>>
    [] sym \in F1 .. F1 + 19 -> <<"F", sym - F1 + 1>>
    [] sym \in 33 .. 126 -> <<"char", sym>>
    [] OTHER -> <<"0x", sym>>
\* The keysym a name is for; none if there is no such key.
KeySym(name) ==
  CASE Len(name) = 1 -> {KEY_NAMES[n] : n \in {name[1]} \cap DOMAIN KEY_NAMES}
    [] name[1] = "KP_" /\ Len(name) = 2 -> {KP_0 + d : d \in {name[2]} \cap 0 .. 9}
    [] name[1] = "F" /\ Len(name) = 2 -> {F1 + n - 1 : n \in {name[2]} \cap 1 .. 20}
    [] name[1] = "char" -> {Normalized(c) : c \in {name[2]} \cap 33 .. 126}
    [] OTHER -> {}

PREFIXES == <<"ctrl", "shift", "alt">>
PcKeyName(pc) == [prefixes |-> SelectSeq(PREFIXES, LAMBDA m : m \in pc.mods), name |-> KeyName(pc.sym)]
ParsePcKey(text) == {[sym |-> sym, mods |-> ToSet(text.prefixes)] : sym \in KeySym(text.name)}

LocalNames ==
  {"hold-screen", "print-screen", "auto-print", "set-up", "session", "session-1", "session-2", "session-3",
   "session-4", "split-screen", "split-up", "split-down", "break", "answerback", "copy", "paste",
   "mark-checkpoint", "pan-up", "pan-down", "pan-prev-page", "pan-next-page", "review-back", "review-forward",
   "search"}
KEY_TARGETS ==
  ("return" :> <<"Return">>) @@ ("delete" :> <<"Delete">>) @@ ("tab" :> <<"Tab">>) @@ ("linefeed" :> <<"LineFeed">>)
  @@ ("escape" :> <<"Escape">>) @@ ("backspace" :> <<"Backspace">>) @@ ("up" :> <<"Up">>) @@ ("down" :> <<"Down">>)
  @@ ("left" :> <<"Left">>) @@ ("right" :> <<"Right">>) @@ ("find" :> <<"Find">>)
  @@ ("insert-here" :> <<"InsertHere">>) @@ ("remove" :> <<"Remove">>) @@ ("select" :> <<"Select">>)
  @@ ("prev-screen" :> <<"PrevScreen">>) @@ ("next-screen" :> <<"NextScreen">>) @@ ("pf1" :> <<"Pf1">>)
  @@ ("pf2" :> <<"Pf2">>) @@ ("pf3" :> <<"Pf3">>) @@ ("pf4" :> <<"Pf4">>) @@ ("kp-minus" :> <<"KeypadMinus">>)
  @@ ("kp-comma" :> <<"KeypadComma">>) @@ ("kp-period" :> <<"KeypadPeriod">>) @@ ("kp-enter" :> <<"KeypadEnter">>)
  @@ ("help" :> Function(15)) @@ ("do" :> Function(16))

Local(name) == <<"Local", name>>
Key(key) == <<"Key", key>>
ParseTarget(name) ==
  CASE Len(name) = 1 /\ name[1] \in LocalNames -> {Local(name[1])}
    [] Len(name) = 1 /\ name[1] \in DOMAIN KEY_TARGETS -> {Key(KEY_TARGETS[name[1]])}
    [] name[1] = "kp" /\ Len(name) = 2 -> {Key(Keypad(d)) : d \in {name[2]} \cap 0 .. 9}
    [] name[1] = "udk" /\ Len(name) = 2 -> {Key(UserDefined(f)) : f \in {name[2]} \cap 6 .. 20}
    [] name[1] = "f" /\ Len(name) = 2 -> {Key(Function(f)) : f \in {name[2]} \cap 1 .. 20}
    [] OTHER -> {}
TargetName(target) ==
  LET named == {n \in DOMAIN KEY_TARGETS : Key(KEY_TARGETS[n]) = target}
  IN  CASE target[1] = "Local" -> <<target[2]>>
        [] target[1] = "Key" /\ named # {} -> <<CHOOSE n \in named : TRUE>>
        [] OTHER -> <<[Keypad |-> "kp", UserDefined |-> "udk", Function |-> "f"][target[2][1]], target[2][2]>>

-----------------------------------------------------------------------------
(* The keymap.                                                             *)

Pc(sym, mods) == [sym |-> sym, mods |-> mods]
Binding(pc, target) == [pc |-> pc, target |-> target]
Line(prefixes, name, dec) == [pc |-> [prefixes |-> prefixes, name |-> name], dec |-> dec]
Plain(name, dec) == Line(<<>>, <<name>>, dec)
F(prefixes, n, dec) == Line(prefixes, <<"F", n>>, dec)
C == <<"ctrl">>
S == <<"shift">>
CS == <<"ctrl", "shift">>
FunctionName(n) == IF n = 15 THEN <<"help">> ELSE IF n = 16 THEN <<"do">> ELSE <<"f", n>>

TOP_ROW ==
  << F(<<>>, 1, <<"hold-screen">>), Plain("Pause", <<"hold-screen">>), F(<<>>, 2, <<"print-screen">>),
     Plain("Print", <<"print-screen">>), F(C, 2, <<"auto-print">>), Line(C, <<"Print">>, <<"auto-print">>),
     F(<<>>, 3, <<"set-up">>), F(<<>>, 4, <<"session">>) >>
  \o [n \in 1 .. 4 |-> Line(<<"alt">>, <<"char", 48 + n>>, <<<<"session-1", "session-2", "session-3", "session-4">>[n]>>)]
  \o << F(C, 4, <<"split-screen">>), Line(CS, <<"Up">>, <<"split-up">>), Line(CS, <<"Down">>, <<"split-down">>),
        F(<<>>, 5, <<"break">>), Plain("Break", <<"break">>), F(C, 5, <<"answerback">>),
        Line(C, <<"Break">>, <<"answerback">>) >>
FUNCTION_ROWS ==
  [n \in 1 .. 15 |-> F(<<>>, n + 5, FunctionName(n + 5))] \o << Plain("Scroll_Lock", <<"do">>) >>
  \o [n \in 1 .. 10 |-> F(S, n, FunctionName(n + 10))]
  \o [n \in 1 .. 7 |-> F(C, n + 5, <<"udk", n + 5>>)] \o [n \in 1 .. 10 |-> F(CS, n, <<"udk", n + 10>>)]
EDITING_KEYS ==
  << Plain("Insert", <<"find">>), Plain("Home", <<"insert-here">>), Plain("Page_Up", <<"remove">>),
     Plain("Delete", <<"select">>), Plain("End", <<"prev-screen">>), Plain("Page_Down", <<"next-screen">>),
     Plain("Up", <<"up">>), Plain("Down", <<"down">>), Plain("Left", <<"left">>), Plain("Right", <<"right">>),
     Line(C, <<"Up">>, <<"pan-up">>), Line(C, <<"Down">>, <<"pan-down">>), Line(C, <<"End">>, <<"pan-prev-page">>),
     Line(C, <<"Page_Down">>, <<"pan-next-page">>), Line(S, <<"Page_Up">>, <<"review-back">>),
     Line(S, <<"Page_Down">>, <<"review-forward">>) >>
KEYPAD_KEYS ==
  << Plain("Num_Lock", <<"pf1">>), Plain("KP_Divide", <<"pf2">>), Plain("KP_Multiply", <<"pf3">>),
     Plain("KP_Subtract", <<"pf4">>), Plain("KP_Add", <<"kp-comma">>), Plain("KP_Separator", <<"kp-comma">>),
     Line(S, <<"KP_Add">>, <<"kp-minus">>), Plain("KP_Equal", <<"kp-minus">>), Plain("KP_Decimal", <<"kp-period">>),
     Plain("KP_Delete", <<"kp-period">>), Plain("KP_Enter", <<"kp-enter">>) >>
  \o [i \in 1 .. 10 |-> Line(<<>>, <<"KP_", i - 1>>, <<"kp", i - 1>>)]
  \o [i \in 1 .. 10 |-> Plain(<<"KP_Insert", "KP_End", "KP_Down", "KP_Page_Down", "KP_Left", "KP_Begin", "KP_Right",
                                "KP_Home", "KP_Up", "KP_Page_Up">>[i], <<"kp", i - 1>>)]
MAIN_KEYS ==
  << Plain("Return", <<"return">>), Plain("BackSpace", <<"delete">>), Plain("Tab", <<"tab">>),
     Plain("ISO_Left_Tab", <<"tab">>), Plain("Escape", <<"escape">>), Line(CS, <<"char", 99>>, <<"copy">>),
     Line(CS, <<"char", 118>>, <<"paste">>), Line(CS, <<"char", 109>>, <<"mark-checkpoint">>),
     Line(CS, <<"char", 102>>, <<"search">>) >>
DEFAULT_TOML == TOP_ROW \o FUNCTION_ROWS \o EDITING_KEYS \o KEYPAD_KEYS \o MAIN_KEYS

\* None where a name is not known.
FromToml(file) ==
  IF \E i \in DOMAIN file : ParsePcKey(file[i].pc) = {} \/ ParseTarget(file[i].dec) = {} THEN {}
  ELSE {[i \in DOMAIN file |-> Binding(CHOOSE pc \in ParsePcKey(file[i].pc) : TRUE,
                                       CHOOSE t \in ParseTarget(file[i].dec) : TRUE)]}
ToToml(map) == [i \in DOMAIN map |-> [pc |-> PcKeyName(map[i].pc), dec |-> TargetName(map[i].target)]]
DefaultMap == CHOOSE map \in FromToml(DEFAULT_TOML) : TRUE

IsLocal(target) == target[1] = "Local"
AddNewFunctions(map, from) ==
  map \o SelectSeq(from, LAMBDA b : /\ IsLocal(b.target)
                                    /\ \A i \in DOMAIN map : map[i].target # b.target /\ map[i].pc # b.pc)

\* DEC keys match with more modifiers than they ask for, local functions only
\* with theirs.  The one that asks for most is taken, the last of several.
Matches(b, sym, mods) ==
  /\ b.pc.sym = Normalized(sym)
  /\ IF IsLocal(b.target) THEN b.pc.mods = mods ELSE b.pc.mods \subseteq mods
Lookup(map, sym, mods) ==
  LET found == {i \in DOMAIN map : Matches(map[i], sym, mods)}
      better(i, j) == \/ Cardinality(map[i].pc.mods) > Cardinality(map[j].pc.mods)
                      \/ Cardinality(map[i].pc.mods) = Cardinality(map[j].pc.mods) /\ i > j
  IN  {i \in found : \A j \in found \ {i} : better(i, j)}

Controls(ch) ==
  CASE ch \in {32, 50, 64} -> {0} [] ch \in 97 .. 122 -> {ch - 96} [] ch \in 65 .. 90 -> {ch - 64}
    [] ch \in {91, 51} -> {27} [] ch \in {92, 52} -> {28} [] ch \in {93, 53} -> {29}
    [] ch \in {94, 126, 54} -> {30} [] ch \in {95, 47, 55} -> {31} [] ch \in {56, 63} -> {127} [] OTHER -> {}
ByteName(n) == CASE n = 8 -> "BS" [] n = 9 -> "HT" [] n = 10 -> "LF" [] n = 13 -> "CR" [] n = 27 -> "ESC"
                 [] n = 127 -> "DEL" [] OTHER -> "^" \o ToString(n)
CtrlShift == 99 :> "copy" @@ 118 :> "paste" @@ 109 :> "mark-checkpoint" @@ 102 :> "search"
\* What a press is for: nothing, where the input method is to have it.
ControlCharacter(ch, mods) ==
  CASE "ctrl" \notin mods \/ "alt" \in mods -> {}
    [] {"ctrl", "shift"} = mods /\ Normalized(ch) \in DOMAIN CtrlShift -> {Local(CtrlShift[Normalized(ch)])}
    [] OTHER -> {<<"Text", <<ByteName(n)>>>> : n \in Controls(ch)}
\* The character of a key, if it has one.
Char(sym) == IF sym \in 32 .. 126 THEN {sym} ELSE IF sym \in KP_0 .. KP_0 + 9 THEN {sym - KP_0 + 48} ELSE {}
MapKey(map, sym, mods) ==
  LET found == Lookup(map, sym, mods)
      action(b) == IF IsLocal(b.target) THEN b.target ELSE <<"Key", b.target[2], mods \ b.pc.mods>>
  IN  IF found # {} THEN {action(map[i]) : i \in found}
      ELSE UNION {ControlCharacter(ch, mods) : ch \in Char(sym)}

MapBind(map, pc, target) ==
  LET at == Pc(Normalized(pc.sym), pc.mods)
  IN  Append(SelectSeq(map, LAMBDA b : b.pc # at), Binding(at, target))
Unbind(map, pc) == SelectSeq(map, LAMBDA b : b.pc # pc)

\* From the file that was saved, if there is one and it reads.
NoFile == {}
LoadKeymap(file) ==
  LET read == UNION {FromToml(lines) : lines \in file}
  IN  IF read = {} THEN DefaultMap ELSE AddNewFunctions(CHOOSE map \in read : TRUE, DefaultMap)

\* What the editor draws, that a PC key can be given to.
CapRows ==
  [top |-> {Local(n) : n \in {"hold-screen", "print-screen", "set-up", "session", "break"}}
           \cup {Key(Function(f)) : f \in 6 .. 20},
   editing |-> {Key(<<n>>) : n \in DOMAIN EditingNumber \cup DOMAIN CursorCode},
   keypad |-> {Key(<<n>>) : n \in DOMAIN PfCode \cup DOMAIN KeypadCode} \cup {Key(Keypad(d)) : d \in 0 .. 9},
   other |-> {Key(<<n>>) : n \in {"Tab", "Return", "Delete", "Escape", "LineFeed", "Backspace"}}
             \cup {Local(n) : n \in {"answerback", "copy", "paste", "mark-checkpoint", "pan-up", "pan-down",
                                     "pan-prev-page", "pan-next-page", "review-back", "review-forward", "search"}}]
Caps == UNION {CapRows[row] : row \in DOMAIN CapRows} \cup {Key(UserDefined(f)) : f \in 6 .. 20}

-----------------------------------------------------------------------------
(* A press.                                                                *)

\* The place on the main array of a PC key, by its keycode.
StationForKeycode(keycode) ==
  LET evdev == keycode - 8
  IN  CASE evdev = 41 -> {1} [] evdev \in 2 .. 13 -> {evdev} [] evdev \in 16 .. 25 -> {evdev + 1}
        [] evdev \in 26 .. 27 -> {evdev + 1} [] evdev \in 30 .. 38 -> {evdev + 1} [] evdev \in 39 .. 40 -> {evdev + 1}
        [] evdev = 43 -> {42} [] evdev = 86 -> {45} [] evdev \in 44 .. 50 -> {evdev + 2}
        [] evdev \in 51 .. 53 -> {evdev + 2} [] evdev = 57 -> {61} [] OTHER -> {}

\* The local function of a number of the host's.
ProgrammedLocal(n) ==
  CASE n \in {1, 30} -> {"hold-screen"} [] n = 2 -> {"print-screen"} [] n = 3 -> {"set-up"}
    [] n \in {4, 12} -> {"session"} [] n = 5 -> {"break"} [] n = 10 -> {"answerback"} [] n = 20 -> {"pan-up"}
    [] n = 21 -> {"pan-down"} [] n = 24 -> {"pan-prev-page"} [] n = 25 -> {"pan-next-page"}
    [] n = 37 -> {"paste"} [] OTHER -> {}
LocalKeyOf(name) ==
  CASE name = "hold-screen" -> {1} [] name \in {"print-screen", "auto-print"} -> {2} [] name = "set-up" -> {3}
    [] name = "session" -> {4} [] OTHER -> {}
\* It may be the host's, or no one's.
LocalFunction(k, name) ==
  LET given == {<<n, LocalFunctionKey(k, n)>> : n \in LocalKeyOf(name)}
      does == IF name = "answerback" THEN SendAnswerback(k) ELSE [k EXCEPT !.did = {name}]
  IN  CASE \E g \in given : g[2] = "Disabled" -> k
        [] \E g \in given : g[2] = "SendToHost" -> KeyWith(k, CHOOSE key \in {Function(g[1]) : g \in given} : TRUE, {}).k
        [] OTHER -> IF name \in {"copy", "paste"} /\ ~CopyPasteEnabled(k) THEN k ELSE does
ProgrammedLocalFunction(k, n) ==
  IF ProgrammedLocal(n) = {} THEN k ELSE LocalFunction(k, CHOOSE name \in ProgrammedLocal(n) : TRUE)
AfterKey(pressed) == IF pressed.outcome = 0 THEN pressed.k ELSE ProgrammedLocalFunction(pressed.k, pressed.outcome)

\* The main array's programs come first, then the keymap; then a character is typed.
TypedPress(k, map, sym, mods) ==
  LET actions == MapKey(map, sym, mods)
      does(action) ==
        CASE action[1] = "Key" -> AfterKey(KeyWith(k, action[2], action[3]))
          [] action[1] = "Text" -> TypeText(k, action[2])
          [] OTHER -> LocalFunction(k, action[2])
  IN  IF actions # {} THEN does(CHOOSE action \in actions : TRUE)
      ELSE IF mods \subseteq {"shift"} /\ Char(sym) # {} THEN TypeText(k, <<"typed">>)
      ELSE k
PressKey(k, map, press) ==
  LET quiet == [k EXCEPT !.sent = <<>>, !.shown = <<>>, !.did = {}]
      first == {AlphanumericKey(quiet, s, press.mods, FALSE) : s \in StationForKeycode(press.keycode)}
  IN  IF \E one \in first : one.typed THEN AfterKey(CHOOSE one \in first : TRUE)
      ELSE TypedPress(quiet, map, press.sym, press.mods)

-----------------------------------------------------------------------------
(* The window, the editor and the host.                                    *)

KeysInit == \E start \in KeyStarts : keys = start

MayDo(who) == "who" \in DOMAIN keys /\ who \in keys.who /\ keys.steps < MaxKeySteps
Sets(field, value) == keys' = [keys EXCEPT ![field] = value, !.steps = @ + 1]
Quietened == [keys.k EXCEPT !.sent = <<>>, !.shown = <<>>, !.did = {}]

Press(press) == MayDo("user") /\ Sets("k", PressKey(keys.k, keys.map, press))

\* The editor's Add, for what has a name and is drawn; Remove, Restore and Save.
Capture(pc, target) ==
  /\ MayDo("editor") /\ target \in Caps
  /\ Nameable(pc.sym)
  /\ Sets("map", MapBind(keys.map, pc, target))
Unbound(pc) == MayDo("editor") /\ Sets("map", Unbind(keys.map, pc))
RestoreBuiltIn == MayDo("editor") /\ Sets("map", DefaultMap)
SaveKeymap == MayDo("editor") /\ Sets("file", {ToToml(keys.map)})
Restart == MayDo("editor") /\ Sets("map", LoadKeymap(keys.file))

HostPrograms(kind, definitions) ==
  MayDo("host") /\ keys.k.max >= 5
  /\ Sets("k", [Quietened EXCEPT !.programs = ProgramKeys(@, kind, definitions)])
HostLoadsUdks(clearAll, lock, definitions) ==
  MayDo("host") /\ keys.k.level >= 2 /\ Sets("k", LoadUdks(Quietened, clearAll, lock, definitions))
HostActs(action) ==
  MayDo("host") /\ keys.k.max >= 5 /\ Sets("k", [Quietened EXCEPT !.programs = KeyAction(@, action)])
HostSets(mode) ==
  MayDo("modes") /\ Sets("k", [Quietened EXCEPT !.on = IF mode \in @ THEN @ \ {mode} ELSE @ \cup {mode}])
HostGives(n, action) == MayDo("modes") /\ Sets("k", [Quietened EXCEPT !.localKeys[n] = action])
HostStopsCopying == MayDo("modes") /\ Sets("k", [Quietened EXCEPT !.copyPaste = ~@])
HostResets == MayDo("modes") /\ \E k \in {KeysSoftReset(Quietened), KeysReset(Quietened)} : Sets("k", k)

KeysNext ==
  \/ \E press \in Presses : Press(press)
  \/ \E pc \in Edits, target \in {Key(UserDefined(6)), Key(<<"LineFeed">>), Local("search"), Local("copy")} :
       Capture(pc, target)
  \/ \E pc \in Edits : Unbound(pc)
  \/ RestoreBuiltIn \/ SaveKeymap \/ Restart
  \/ \E load \in Loads : HostPrograms(load.kind, load.definitions)
  \/ \E load \in UdkLoads, clearAll, lock \in BOOLEAN : HostLoadsUdks(clearAll, lock, load)
  \/ \E action \in 0 .. 2 : HostActs(action)
  \/ \E mode \in {"ansi", "eight", "cursor", "keypad", "newline", "backarrow", "locked", "echo"} : HostSets(mode)
  \/ \E n \in 1 .. 4, action \in {"Disabled", "SendToHost"} : HostGives(n, action)
  \/ HostStopsCopying \/ HostResets

-----------------------------------------------------------------------------
Awake == "k" \in DOMAIN keys

\* What is programmed has room, and a definition is taken whole or changes nothing.
TakenOrLeft(p) ==
  /\ UsedBy(p) <= KeyMemory
  /\ \A load \in Loads : \A i \in DOMAIN load.definitions :
       LET d == load.definitions[i]
           got == Define(p, load.kind, d)
           q == got.p
       IN  CASE got.stop -> q = p
             [] ~got.stop /\ load.kind = "x" -> PlaceOf(d) \in DOMAIN q.functions /\ q.functions[PlaceOf(d)] = Program(d)
             [] ~got.stop /\ load.kind = "y" -> q.alphanumeric[d.station].codes = ParsedCodes(d.codes)
             [] OTHER ->
                  \/ d.dest = BREAK_STATION /\ q = p
                  \/ /\ \A at \in DOMAIN q.functions : at[1] # d.dest
                     /\ d.dest \notin DOMAIN q.alphanumeric
                     /\ Restrict(q.copies, {d.dest} \cap DOMAIN q.copies) =
                          IF d.source = d.dest THEN <<>> ELSE d.dest :> d.source

\* A programmed key's report, given back, programs what it is programmed to.
ReportsGivenBack(k) ==
  LET p == [k.programs EXCEPT !.locked = FALSE]
      same(s, modifier) == \A r \in KeyDefinitionReport(k, s, modifier) : ProgramKeys(p, r.kind, <<r.d>>) = p
  IN  /\ \A at \in DOMAIN p.functions : same(at[1], at[2])
      /\ \A s \in DOMAIN p.alphanumeric :
           (\A i \in 1 .. 7 : p.alphanumeric[s].codes[i] # <<>>) => same(s, 0)

\* What is reported of a key that is not programmed is what it sends.
ReportedAsSent(k) ==
  k.max >= 5 /\ {"ansi", "locked"} \cap k.on = {"ansi"} =>
    \A s \in DOMAIN STATIONS \ DOMAIN k.programs.copies, mods \in SUBSET Modifiers :
      <<s, Decfnk(mods)>> \notin DOMAIN k.programs.functions =>
        \A r \in KeyDefinitionReport(k, s, Decfnk(mods)) :
          KeyWith([k EXCEPT !.sent = <<>>], STATIONS[s], mods).k.sent = r.d.uds

\* Two keys that send the same are the same on a VT100 too, or by a mode.
Aliases(k) ==
  {{<<"Backspace">>, <<"Delete">>} : m \in k.on \cap {"backarrow"}}
  \cup (IF "keypad" \in k.on THEN {} ELSE {{<<"Return">>, <<"KeypadEnter">>}})
  \cup (IF k.level >= 2 /\ IsAnsi(k) THEN {}
        ELSE {{<<"Escape">>, Function(11)}, {<<"Backspace">>, Function(12)}, {<<"Delete">>, Function(12)},
              {<<"LineFeed">>, Function(13)}})
ToldApart(k) ==
  LET sends == [key \in SentKeys |-> Encode(k, key)]
      modified == {at \in SentKeys \X SUBSET Modifiers : Decfnks(k, at[1], at[2]) # {}}
      meant == {Decfnks(k, at[1], at[2]) : at \in modified}
      bytes == {EncodeWith(k, at[1], at[2]) : at \in modified}
  IN  /\ \A a, b \in SentKeys : a # b /\ sends[a] = sends[b] => sends[a] = <<>> \/ {a, b} \in Aliases(k)
      /\ Cardinality(bytes) = Cardinality(meant) /\ bytes \cap {sends[key] : key \in SentKeys} = {}

\* A keymap is read as it was saved, a key does what it is bound to, and what the
\* user's file says of a key stands.
KeymapKept(map, file) ==
  /\ FromToml(ToToml(map)) = {map}
  /\ \A i \in DOMAIN map :
       MapKey(map, map[i].pc.sym, map[i].pc.mods) =
         {IF IsLocal(map[i].target) THEN map[i].target ELSE <<"Key", map[i].target[2], {}>>}
  /\ \A mine \in UNION {FromToml(lines) : lines \in file} :
       LET loaded == LoadKeymap(file)
       IN  /\ \A i \in DOMAIN mine : MapKey(loaded, mine[i].pc.sym, mine[i].pc.mods) =
                                     MapKey(mine, mine[i].pc.sym, mine[i].pc.mods)
           /\ LoadKeymap({ToToml(loaded)}) = loaded

\* Every key of the terminal that has no other, and every function, is on some PC key;
\* a key's definition is loaded by the number it is sent with.
AllWithinReach ==
  LET targets == {DefaultMap[i].target : i \in DOMAIN DefaultMap}
  IN  /\ \A f \in 6 .. 20 : UdkNumber(FunctionKeyNumber(f)) = f
      /\ \A key \in AllKeys \ ({<<"LineFeed">>, <<"Backspace">>} \cup {Function(f) : f \in 1 .. 5}) : Key(key) \in targets
      /\ \A name \in LocalNames : Local(name) \in targets
      /\ \A i \in DOMAIN DefaultMap : IsLocal(DefaultMap[i].target) \/ DefaultMap[i].target \in Caps

\* What the keys send and what they are programmed and bound to agree, from the PC's
\* key to the host and back in its reports.
KeysSound ==
  Awake =>
    /\ IF "user" \in keys.who THEN AllWithinReach ELSE TRUE
    /\ UdkUsed(keys.k.udks) <= UdkCapacity
    /\ "editor" \in keys.who => KeymapKept(keys.map, keys.file)
    /\ "host" \in keys.who => TakenOrLeft(keys.k.programs) /\ ReportsGivenBack(keys.k)
    /\ {"host", "modes"} \cap keys.who # {} => ReportedAsSent(keys.k)
    /\ "modes" \in keys.who => ToldApart(keys.k)
=============================================================================
