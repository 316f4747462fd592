-------------------------------- MODULE Input --------------------------------
(***************************************************************************)
(* How the terminal takes what the host sends: the parser of control       *)
(* functions, which printer controller mode and display controls go past,  *)
(* which macros feed, and which stops for a line that scrolls smoothly     *)
(* (crates/vt-parser/src/lib.rs and params.rs; crates/vt-core/src/         *)
(* terminal/mod.rs, printer.rs, crm.rs and dcs.rs).                        *)
(*                                                                         *)
(* A byte is a symbol for its class: a C0 or C1 control, a digit, an       *)
(* intermediate, a final, a graphic.  `term` is the Terminal of the code,  *)
(* `p` its parser and `e` its emulator; each operator from a terminal is   *)
(* the function of that name.  Of what the emulator does only the          *)
(* functions that change how input is taken are performed; all of them are *)
(* written down in `done`, in the order they are performed.                *)
(***************************************************************************)
EXTENDS Integers, Sequences, FiniteSets, SequencesExt

CONSTANTS
  MaxParams,         \* 32 parameters of a sequence are kept
  MaxValue,          \* 65535, where the value of one stops
  MaxIntermediates,  \* 2
  DcsLimit,          \* 65536 bytes of a device control string are kept
  Slots,             \* 64 macros
  MacroMemory,       \* 6144 bytes for all of them
  MaxDepth,          \* 16, how deep a macro may invoke another
  Width,             \* the columns of a line
  Hosts,             \* what a host may say, one set of pieces for each behaviour
  UserActs,          \* whether the user goes to Set-Up too
  Words,             \* the pieces that input is compared over
  MaxSteps

ASSUME InputAssumption ==
  /\ {MaxParams, MaxValue, MaxIntermediates, Slots, MaxDepth, Width} \subseteq Nat \ {0}
  /\ {DcsLimit, MacroMemory, MaxSteps} \subseteq Nat

VARIABLES
  term,   \* the terminal
  host,   \* the pieces this host sends
  steps

vars == <<term, host, steps>>

-----------------------------------------------------------------------------
(* Bytes.                                                                  *)

C1 == {"CSI8", "ST8", "DCS8", "OSC8", "IND8"}
Gr == {"GRi", "C2", "A0"}
\* What is left of a byte on a seven-bit line.
SevenBit(b) ==
  CASE b = "CSI8" -> "ESC" [] b = "ST8" -> "FS" [] b = "DCS8" -> "DLE" [] b = "OSC8" -> "GS"
    [] b = "IND8" -> "EOT" [] b = "GRi" -> "i" [] b = "C2" -> "B" [] b = "A0" -> " "
    [] OTHER -> b
C0 == {"ESC", "FS", "DLE", "GS", "EOT", "LF", "CAN", "BEL"}
Digit == [d \in {"0", "1", "2", "4", "5"} |->
  CASE d = "0" -> 0 [] d = "1" -> 1 [] d = "2" -> 2 [] d = "4" -> 4 [] OTHER -> 5]
Separators == {";", ":"}
ParamBytes == DOMAIN Digit \cup Separators
PrivateMarks == {"?", "<"}
Intermediates == {"*", "+", "!", " "}
High == C1 \cup Gr
IsGraphic(b) == b \notin C0 \cup C1

-----------------------------------------------------------------------------
(* The parser.                                                             *)

Absent == -1
NewParser ==
  [state |-> "Ground", vt52 |-> FALSE, mode |-> "EightBit", params |-> <<>>, truncated |-> FALSE,
   private |-> "", inter |-> <<>>, ignoring |-> FALSE, needed |-> 0, lead |-> "", since |-> <<>>]

\* A sequence that keeps the private mark of the one before.
ClearedButMark(p) ==
  [p EXCEPT !.params = <<>>, !.truncated = FALSE, !.inter = <<>>, !.ignoring = FALSE]
Cleared(p) ==
  [p EXCEPT !.params = <<>>, !.truncated = FALSE, !.private = "", !.inter = <<>>, !.ignoring = FALSE]

NoParam(sub) == [value |-> Absent, sub |-> sub]
Saturated(n) == IF n > MaxValue THEN MaxValue ELSE n
WithDigit(value, d) == Saturated((IF value = Absent THEN 0 ELSE value) * 10 + Digit[d])

PushDigit(p, d) ==
  LET params == IF p.params = <<>> THEN <<NoParam(FALSE)>> ELSE p.params
  IN  IF p.truncated THEN p
      ELSE [p EXCEPT !.params = [params EXCEPT ![Len(params)].value = WithDigit(@, d)]]

Separate(p, sub) ==
  LET params == IF p.params = <<>> THEN <<NoParam(FALSE)>> ELSE p.params
  IN  IF Len(params) = MaxParams THEN [p EXCEPT !.params = params, !.truncated = TRUE]
      ELSE [p EXCEPT !.params = Append(params, NoParam(sub))]

ParamByte(p, b) == IF b \in Separators THEN Separate(p, b = ":") ELSE PushDigit(p, b)

Collect(p, b) ==
  IF Len(p.inter) < MaxIntermediates THEN [p EXCEPT !.inter = Append(@, b)]
  ELSE [p EXCEPT !.ignoring = TRUE]

SequenceOf(p, final) ==
  [private |-> p.private, params |-> p.params, inter |-> p.inter, final |-> final]
GetOr(seq, i, default) ==
  IF i \in DOMAIN seq.params /\ seq.params[i].value # Absent THEN seq.params[i].value ELSE default

-----------------------------------------------------------------------------
(* The emulator, as far as it changes how input is taken.                  *)

Does(e, what) == [e EXCEPT !.done = Append(@, what)]

NoDcs == [kind |-> "none", id |-> 0, delete |-> 0, hex |-> FALSE, data |-> <<>>]
Empty == [i \in 0 .. Slots - 1 |-> <<>>]

\* Emulator::new, with the saved features applied.
NewEmulator(saved) ==
  [saved |-> saved, ansi |-> ~saved.vt52, smoothMode |-> FALSE, crm |-> saved.crm, tail |-> <<>>,
   controller |-> FALSE, job |-> <<>>, pending |-> <<>>, given |-> <<>>, auto |-> FALSE, lines |-> 0,
   printed |-> <<>>, macros |-> Empty, input |-> <<>>, dcs |-> NoDcs, osc |-> <<>>,
   pause |-> FALSE, pacing |-> FALSE, smooth |-> FALSE, scrolls |-> 0, col |-> 0, done |-> <<>>]

FullReset(e) ==
  [NewEmulator(e.saved) EXCEPT !.pause = TRUE, !.pacing = e.pacing, !.printed = e.printed,
                               !.done = Append(e.done, <<"reset">>), !.scrolls = e.scrolls]

\* The cursor is on the last line: every new line scrolls.
Index(e) ==
  LET left == IF e.auto THEN [e EXCEPT !.lines = @ + 1] ELSE e
  IN  IF e.smoothMode /\ e.pacing
      THEN [left EXCEPT !.smooth = TRUE, !.pause = TRUE, !.scrolls = @ + 1]
      ELSE [left EXCEPT !.scrolls = @ + 1]

PutChar(e) == IF e.col = Width THEN [Index(e) EXCEPT !.col = 1] ELSE [e EXCEPT !.col = @ + 1]
PrintByte(e, b) == PutChar(Does(e, <<"print", b>>))

Execute(e, b) ==
  LET did == Does(e, <<"execute", b>>)
  IN  IF b \in {"LF", "IND8"} THEN Index(did) ELSE did

\* Printing what was gathered.
PrintJob(e, job) == [e EXCEPT !.printed = Append(@, job)]
AutoPrint(e, on) ==
  LET out == IF ~on /\ e.auto /\ e.lines > 0 THEN PrintJob(e, [lines |-> e.lines]) ELSE e
  IN  [out EXCEPT !.auto = on, !.lines = IF on THEN @ ELSE 0]
ControllerOn(e) ==
  [e EXCEPT !.controller = TRUE, !.job = <<>>, !.pending = <<>>, !.given = <<>>, !.pause = TRUE]
ControllerOff(e) ==
  LET job == e.job \o e.pending
      out == IF job # <<>> THEN PrintJob(e, [bytes |-> job, of |-> e.given, ended |-> FALSE]) ELSE e
  IN  IF ~e.controller THEN e
      ELSE [out EXCEPT !.controller = FALSE, !.job = <<>>, !.pending = <<>>, !.given = <<>>]
SetPrintMode(e, mode) ==
  CASE mode = "normal" -> ControllerOff(AutoPrint(e, FALSE))
    [] mode = "auto" -> AutoPrint(ControllerOff(e), TRUE)
    [] mode = "controller" -> LET off == AutoPrint(e, FALSE)
                              IN  IF off.controller THEN off ELSE ControllerOn(off)

\* Macros.
MacroLen(macros) == FoldFunction(LAMBDA body, sum : Len(body) + sum, 0, macros)
MacroSpace(e) == MacroMemory - MacroLen(e.macros)

\* A pair of hex digits is one symbol.
HexPair == [h \in {"h1B", "h5B", "h30", "h2A", "h7A", "h35", "h69", "h41", "h0A"} |->
  CASE h = "h1B" -> "ESC" [] h = "h5B" -> "[" [] h = "h30" -> "0" [] h = "h2A" -> "*"
    [] h = "h7A" -> "z" [] h = "h35" -> "5" [] h = "h69" -> "i" [] h = "h41" -> "A" [] OTHER -> "LF"]
NoBody == <<"none">>
MacroBody(hex, data) ==
  LET digits == SelectSeq(data, LAMBDA b : b \notin C0)
  IN  IF ~hex THEN digits
      ELSE IF \A i \in DOMAIN digits : digits[i] \in DOMAIN HexPair
           THEN [i \in DOMAIN digits |-> HexPair[digits[i]]] ELSE NoBody

\* A macro that only has to fit the memory by itself.
DefineMacroAlone(e, id, delete, hex, data) ==
  LET body == MacroBody(hex, data)
  IN  IF id >= Slots \/ body = NoBody \/ Len(body) > MacroMemory THEN e
      ELSE [e EXCEPT !.macros[id] = body]
DefineMacro(e, id, delete, hex, data) ==
  LET body == MacroBody(hex, data)
      kept == IF delete = 1 THEN Empty ELSE [e.macros EXCEPT ![id] = <<>>]
  IN  IF id >= Slots \/ body = NoBody THEN e
      ELSE [e EXCEPT !.macros = IF MacroLen(kept) + Len(body) <= MacroMemory
                                THEN [kept EXCEPT ![id] = body] ELSE kept]

\* A macro that runs when the parser stops of itself.
InvokeMacroLater(e, id) ==
  IF id >= Slots \/ e.macros[id] = <<>> THEN e ELSE [e EXCEPT !.input = @ \o e.macros[id]]
InvokeMacro(e, id) ==
  IF id >= Slots \/ e.macros[id] = <<>> THEN e
  ELSE [e EXCEPT !.input = @ \o e.macros[id], !.pause = TRUE]

\* Device control strings.
DcsHook(e, seq) ==
  IF e.ansi /\ seq.private = "" /\ seq.inter = <<"!">> /\ seq.final = "z"
     /\ GetOr(seq, 2, 0) \in 0 .. 1 /\ GetOr(seq, 3, 0) \in 0 .. 1
  THEN [e EXCEPT !.dcs = [kind |-> "macro", id |-> GetOr(seq, 1, 0), delete |-> GetOr(seq, 2, 0),
                          hex |-> GetOr(seq, 3, 0) = 1, data |-> <<>>]]
  ELSE [e EXCEPT !.dcs = NoDcs]
DcsPut(e, b) ==
  IF e.dcs.kind # "none" /\ Len(e.dcs.data) < DcsLimit THEN [e EXCEPT !.dcs.data = Append(@, b)] ELSE e
DcsUnhook(e, ended) ==
  LET d == e.dcs
      over == Does([e EXCEPT !.dcs = NoDcs], <<"dcs", ended>>)
  IN  IF ended = "Terminated" /\ d.kind = "macro"
      THEN DefineMacro(over, d.id, d.delete, d.hex, d.data) ELSE over
OscEnd(e, ended) ==
  LET over == [e EXCEPT !.osc = <<>>]
  IN  IF ended = "Terminated" /\ e.ansi THEN Does(over, <<"osc", e.osc>>) ELSE over

-----------------------------------------------------------------------------
(* Control functions.                                                      *)

EnterVt52(e) == [e EXCEPT !.ansi = FALSE, !.pause = TRUE]
ExitVt52(e) == [e EXCEPT !.ansi = TRUE, !.pause = TRUE]

CsiDispatch(e, seq, raw) ==
  LET n == GetOr(seq, 1, 0)
      is(private, inter, final) ==
        seq.private = private /\ seq.inter = inter /\ seq.final = final
      did == Does(e, <<"csi", seq, raw>>)
  IN  CASE ~e.ansi \/ \E i \in DOMAIN seq.params : seq.params[i].sub -> did
        [] is("", <<>>, "i") /\ n = 5 -> ControllerOn(did)
        [] is("", <<>>, "i") /\ n = 0 -> PrintJob(did, [page |-> TRUE])
        [] is("?", <<>>, "i") /\ n \in {4, 5} -> AutoPrint(did, n = 5)
        [] is("", <<"*">>, "z") -> InvokeMacro(did, n)
        [] is("", <<"+">>, "p") -> FullReset(did)
        [] is("?", <<>>, "h") /\ n = 4 -> [did EXCEPT !.smoothMode = TRUE]
        [] is("?", <<>>, "l") /\ n = 4 -> [did EXCEPT !.smoothMode = FALSE]
        [] is("?", <<>>, "l") /\ n = 2 -> EnterVt52(did)
        [] OTHER -> did

EscDispatch(e, inter, final) ==
  LET did == Does(e, <<"esc", inter, final>>)
  IN  CASE e.ansi /\ inter = <<>> /\ final = "c" -> FullReset(did)
        [] ~e.ansi /\ final = "<" -> ExitVt52(did)
        [] ~e.ansi /\ final = "W" -> ControllerOn(did)
        [] ~e.ansi /\ final \in {"^", "_"} -> AutoPrint(did, final = "^")
        [] ~e.ansi /\ final = "]" -> PrintJob(did, [page |-> TRUE])
        [] OTHER -> did

-----------------------------------------------------------------------------
(* The parser's states.                                                    *)

To(t, state) == [t EXCEPT !.p.state = state]
Emu(t, e) == [t EXCEPT !.e = e]

Executed(t, b) == Emu(t, Execute(t.e, b))

\* What leaving a state ends, and what entering one begins.
Transition(t, next, ended) ==
  LET left == CASE t.p.state = "OscString" -> Emu(t, OscEnd(t.e, ended))
                [] t.p.state = "DcsPassthrough" -> Emu(t, DcsUnhook(t.e, ended))
                [] OTHER -> t
      at == To(left, next)
  IN  CASE next \in {"Escape", "CsiEntry", "DcsEntry"} -> [at EXCEPT !.p = Cleared(@)]
        [] next = "OscString" -> [at EXCEPT !.e.osc = <<>>]
        [] OTHER -> at

\* An 8-bit control cuts off whatever was being received.
Control8(t, b) ==
  LET begun == [t EXCEPT !.p.since = <<b>>]
  IN  CASE b = "DCS8" -> Transition(begun, "DcsEntry", "Aborted")
        [] b = "CSI8" -> Transition(begun, "CsiEntry", "Aborted")
        [] b = "OSC8" -> Transition(begun, "OscString", "Aborted")
        [] b = "ST8" -> Transition(begun, "Ground", "Terminated")
        [] OTHER -> Executed(Transition(begun, "Ground", "Aborted"), b)

\* A byte of 128 or above that is no control in this mode.
HighNonControl(t, b) ==
  CASE t.p.state = "DcsPassthrough" -> Emu(t, DcsPut(t.e, b))
    [] t.p.state = "OscString" -> Emu(t, [t.e EXCEPT !.osc = Append(@, b)])
    [] OTHER -> t

Dispatched(t, c) ==
  LET ground == To(t, "Ground")
  IN  IF t.p.ignoring THEN ground
      ELSE Emu(ground, CsiDispatch(t.e, SequenceOf(t.p, c), t.p.since))
Escaped(t, c) ==
  LET ground == To(t, "Ground")
  IN  IF t.p.ignoring THEN ground ELSE Emu(ground, EscDispatch(t.e, t.p.inter, c))
Hooked(t, c) ==
  IF t.p.ignoring THEN To(t, "DcsIgnore")
  ELSE Emu(To(t, "DcsPassthrough"), DcsHook(t.e, SequenceOf(t.p, c)))

IsFinal(c) == c \notin C0 \cup Intermediates \cup ParamBytes \cup PrivateMarks
Collected(t, c, next) == To([t EXCEPT !.p = Collect(@, c)], next)

InEscape(t, c) ==
  CASE c \in C0 -> Executed(t, c)
    [] t.p.vt52 -> IF c = "Y" THEN To(t, "Vt52Line") ELSE Escaped(t, c)
    [] c \in Intermediates -> Collected(t, c, "EscapeIntermediate")
    [] c = "P" -> Transition(t, "DcsEntry", "Terminated")
    [] c = "[" -> Transition(t, "CsiEntry", "Terminated")
    [] c = "]" -> Transition(t, "OscString", "Terminated")
    [] c \in {"X", "^", "_"} -> To(t, "SosPmApcString")
    [] OTHER -> Escaped(t, c)

InEscapeIntermediate(t, c) ==
  CASE c \in C0 -> Executed(t, c)
    [] c \in Intermediates -> Collected(t, c, t.p.state)
    [] OTHER -> Escaped(t, c)

\* The header of a control sequence (csi) or of a device control string.
InHeader(t, c, csi) ==
  LET entry == t.p.state \in {"CsiEntry", "DcsEntry"}
      inter == t.p.state \in {"CsiIntermediate", "DcsIntermediate"}
      name(part) == (IF csi THEN "Csi" ELSE "Dcs") \o part
  IN  CASE c \in C0 -> IF csi THEN Executed(t, c) ELSE t
        [] c \in Intermediates -> Collected(t, c, name("Intermediate"))
        [] c \in ParamBytes /\ ~inter -> To([t EXCEPT !.p = ParamByte(@, c)], name("Param"))
        [] c \in PrivateMarks /\ entry -> To([t EXCEPT !.p.private = c], name("Param"))
        [] c \in ParamBytes \cup PrivateMarks -> To(t, name("Ignore"))
        [] OTHER -> IF csi THEN Dispatched(t, c) ELSE Hooked(t, c)

InOsc(t, b, c) ==
  CASE c = "BEL" -> Transition(t, "Ground", "Terminated")
    [] c \in C0 -> t
    [] OTHER -> Emu(t, [t.e EXCEPT !.osc = Append(@, b)])

InVt52(t, c) ==
  CASE c \in C0 -> Executed(t, c)
    [] t.p.state = "Vt52Line" -> To(t, "Vt52Column")
    [] OTHER -> Emu(To(t, "Ground"), Does(t.e, <<"cursor">>))

\* A byte in the state the parser is in; c is what it is on seven bits.
InState(t, b, c, state) ==
  CASE state = "Ground" -> Emu(t, IF c \in C0 THEN Execute(t.e, c) ELSE PrintByte(t.e, b))
    [] state = "Escape" -> InEscape(t, c)
    [] state = "EscapeIntermediate" -> InEscapeIntermediate(t, c)
    [] state \in {"CsiEntry", "CsiParam", "CsiIntermediate"} -> InHeader(t, c, TRUE)
    [] state \in {"DcsEntry", "DcsParam", "DcsIntermediate"} -> InHeader(t, c, FALSE)
    [] state = "CsiIgnore" -> IF c \in C0 THEN Executed(t, c) ELSE IF IsFinal(c) THEN To(t, "Ground") ELSE t
    [] state = "DcsPassthrough" -> Emu(t, DcsPut(t.e, b))
    [] state = "OscString" -> InOsc(t, b, c)
    [] state \in {"Vt52Line", "Vt52Column"} -> InVt52(t, c)
    [] OTHER -> t

Stepped(t, b) ==
  CASE b = "CAN" -> Executed(Transition(t, "Ground", "Aborted"), b)
    [] b = "ESC" -> Transition([t EXCEPT !.p.since = <<b>>], "Escape", "Terminated")
    [] b \in C1 -> IF t.p.mode = "EightBit" THEN Control8(t, b) ELSE HighNonControl(t, b)
    [] OTHER -> InState(t, b, IF b \in Gr THEN SevenBit(b) ELSE b, t.p.state)

Step(t, b) ==
  Stepped([t EXCEPT !.p.since = IF t.p.state = "Ground" THEN <<>> ELSE Append(@, b)], b)

\* UTF-8: a lead byte, and one or two more to come.  A pair may be a control.
Utf8Step(t, b) ==
  LET none == [t EXCEPT !.p.needed = 0, !.p.lead = ""]
      again == Emu(none, PrintByte(t.e, "replacement"))
  IN  IF t.p.needed = 0
      THEN CASE b = "C2" -> [t EXCEPT !.p.needed = 1, !.p.lead = b]
             [] b = "GRi" -> [t EXCEPT !.p.needed = 2, !.p.lead = b]
             [] OTHER -> Emu(t, PrintByte(t.e, "replacement"))
      ELSE IF b \in C1 \cup {"A0"}
      THEN IF t.p.needed = 2 THEN [t EXCEPT !.p.needed = 1]
           ELSE IF t.p.lead = "C2" /\ b \in C1 THEN Control8(none, b)
           ELSE Emu(none, PrintByte(t.e, "decoded"))
      ELSE IF b \notin High THEN Step(again, b)
      ELSE [again EXCEPT !.p.needed = IF b = "C2" THEN 1 ELSE 2, !.p.lead = b]

AdvanceByte(t, b) ==
  CASE t.p.mode = "Utf8" /\ t.p.state = "Ground" /\ (b \in High \/ t.p.needed > 0) -> Utf8Step(t, b)
    [] t.p.mode = "Utf8" /\ t.p.state # "Ground" /\ b \in High -> HighNonControl(t, b)
    [] OTHER -> Step(t, IF t.p.mode = "SevenBit" THEN SevenBit(b) ELSE b)

-----------------------------------------------------------------------------
(* Taking input.                                                           *)

\* Until the bytes are used or a function asks for a pause, which is looked
\* for after anything but graphic characters and parameters.
RECURSIVE AdvanceUntilPause(_, _), PauseOrGoOn(_, _, _)
AdvanceUntilPause(t, w) ==
  LET b == Head(w)
      quiet == \/ t.p.state = "Ground" /\ t.p.needed = 0 /\ IsGraphic(b)
                  /\ (b \in High => t.p.mode = "EightBit")
               \/ t.p.state = "CsiParam" /\ b \in ParamBytes
  IN  IF w = <<>> THEN [t |-> t, rest |-> w] ELSE PauseOrGoOn(AdvanceByte(t, b), quiet, Tail(w))
PauseOrGoOn(t, quiet, rest) ==
  IF ~quiet /\ t.e.pause THEN [t |-> [t EXCEPT !.e.pause = FALSE], rest |-> rest]
  ELSE AdvanceUntilPause(t, rest)

\* A parser whose mode is set each time, which forgets half a character.
SyncParserAnew(t, utf8) ==
  [t EXCEPT !.p.mode = IF utf8 THEN "Utf8" ELSE IF ~t.e.ansi THEN "SevenBit" ELSE "EightBit",
            !.p.needed = 0, !.p.lead = "", !.p.vt52 = ~t.e.ansi]
SyncParser(t, utf8) ==
  LET mode == IF utf8 THEN "Utf8" ELSE IF ~t.e.ansi THEN "SevenBit" ELSE "EightBit"
      set == IF mode = t.p.mode THEN t.p ELSE [t.p EXCEPT !.mode = mode, !.needed = 0, !.lead = ""]
  IN  [t EXCEPT !.p = [set EXCEPT !.vt52 = ~t.e.ansi]]
Sync(t) == SyncParser(t, t.utf8)

Terminators == {<<"ESC", "[", "4", "i">>, <<"CSI8", "4", "i">>, <<"ESC", "X">>}
MayEnd(pending) == \E end \in Terminators : IsPrefix(pending, end)

\* What cannot end it any more is the printer's, and the rest still may.
RECURSIVE Settled(_, _)
Settled(job, pending) ==
  IF MayEnd(pending) THEN [job |-> job, pending |-> pending]
  ELSE Settled(Append(job, Head(pending)), Tail(pending))

RECURSIVE PrinterController(_, _)
PrinterController(t, w) ==
  LET e == t.e
      pending == Append(e.pending, Head(w))
      given == Append(e.given, Head(w))
      job == [bytes |-> e.job, of |-> given, ended |-> TRUE]
      held == Settled(e.job, pending)
  IN  IF w = <<>> THEN [t |-> t, rest |-> w]
      ELSE IF pending \in Terminators
      THEN [t |-> Emu(t, [PrintJob(e, job) EXCEPT !.controller = FALSE, !.job = <<>>,
                                                  !.pending = <<>>, !.given = <<>>]),
            rest |-> Tail(w)]
      ELSE PrinterController(Emu(t, [e EXCEPT !.job = held.job, !.pending = held.pending,
                                              !.given = given]), Tail(w))

\* DECSR is the one function that display controls do not only show.
TailMax == 12
SecureResetIn(tail) ==
  \E from \in DOMAIN tail, digits \in 0 .. Len(tail) :
     LET number == SubSeq(tail, Len(tail) - 1 - digits, Len(tail) - 2)
         intro == SubSeq(tail, from, Len(tail) - 2 - digits)
     IN  /\ Len(tail) >= 2 + digits /\ SubSeq(tail, Len(tail) - 1, Len(tail)) = <<"+", "p">>
         /\ \A i \in DOMAIN number : number[i] \in DOMAIN Digit
         /\ intro \in {<<"ESC", "[">>, <<"CSI8">>}
ShowControl(e, raw) ==
  LET b == IF e.ansi THEN raw ELSE SevenBit(raw)
      shown == PutChar(Does(e, <<"show", b>>))
      down == IF b = "LF" THEN Index([shown EXCEPT !.col = 0]) ELSE shown
      long == Append(e.tail, b)
      tail == IF Len(long) > TailMax THEN Tail(long) ELSE long
  IN  IF SecureResetIn(tail) THEN [FullReset(down) EXCEPT !.crm = FALSE]
      ELSE [down EXCEPT !.tail = tail]

RECURSIVE ShowControls(_, _), ShownControl(_, _)
ShowControls(t, w) ==
  IF w = <<>> THEN [t |-> t, rest |-> w] ELSE ShownControl(Emu(t, ShowControl(t.e, Head(w))), Tail(w))
ShownControl(t, rest) ==
  IF ~t.e.crm THEN [t |-> t, rest |-> rest]
  ELSE IF t.e.pause THEN [t |-> [t EXCEPT !.e.pause = FALSE], rest |-> rest]
  ELSE ShowControls(t, rest)

\* What takes input now, and how far it gets.
Take(t, w) ==
  CASE t.e.controller -> PrinterController(t, w)
    [] t.e.crm -> ShowControls(t, w)
    [] OTHER -> AdvanceUntilPause(t, w)

\* A macro runs as if received where it was invoked, so deep and no deeper.
RECURSIVE AdvanceNested(_, _, _)
RunMacros(t, depth) ==
  IF t.e.input # <<>> /\ depth < MaxDepth
  THEN AdvanceNested([t EXCEPT !.e.input = <<>>], t.e.input, depth + 1)
  ELSE [t EXCEPT !.e.input = <<>>]
AfterTaking(some, parsed, depth) ==
  AdvanceNested(IF parsed THEN RunMacros(Sync(some.t), depth) ELSE some.t, some.rest, depth)
AdvanceNested(t, w, depth) ==
  IF w = <<>> THEN t ELSE AfterTaking(Take(t, w), ~t.e.controller /\ ~t.e.crm, depth)

\* Terminal::advance: what is typed, echoed locally.
Advance(t, w) == [AdvanceNested(t, w, 0) EXCEPT !.e.smooth = FALSE]

\* A line that scrolls smoothly ends the step, and the session comes back
\* with the rest.
RECURSIVE PacedInner(_, _)
StopOrGoOn(t, rest) == IF t.e.smooth THEN [t |-> t, rest |-> rest] ELSE PacedInner(t, rest)
AfterPaced(some) == StopOrGoOn(RunMacros(Sync(some.t), 0), some.rest)
PacedInner(t, w) == IF w = <<>> THEN [t |-> t, rest |-> w] ELSE AfterPaced(Take(t, w))
AdvancePaced(t, w) ==
  LET done == PacedInner([t EXCEPT !.e.pacing = TRUE, !.e.scrolls = 0], w)
  IN  [done EXCEPT !.t.e.pacing = FALSE]

\* The I/O thread, with what it has read.
RECURSIVE Read(_, _)
ReadOn(part) == Read([part.t EXCEPT !.e.smooth = FALSE], part.rest)
Read(t, w) == IF w = <<>> THEN t ELSE ReadOn(AdvancePaced(t, w))

-----------------------------------------------------------------------------
(* The host, and the user in Set-Up.                                       *)

Init ==
  /\ steps = 0
  /\ host \in Hosts
  /\ \E saved \in host.saved :
       term = Sync([p |-> NewParser, e |-> NewEmulator(saved), utf8 |-> host.utf8])

Acts == steps < MaxSteps /\ steps' = steps + 1 /\ UNCHANGED host

Receive == Acts /\ \E w \in host.says : term' = Read(term, w)
\* What the user types is taken as input too, where local echo is on.
Echo == Acts /\ host.echo /\ term' = Advance(term, <<"A">>)
SetUpPrints ==
  /\ Acts /\ UserActs /\ host.prints
  /\ \E mode \in {"normal", "auto", "controller"} : term' = Emu(term, SetPrintMode(term.e, mode))
SetUpShows ==
  Acts /\ UserActs /\ host.shows /\ term' = [term EXCEPT !.e.crm = ~@, !.e.pause = TRUE]
\* Clear Comm abandons what is being received.
ClearComm ==
  /\ Acts /\ UserActs
  /\ term' = Sync([term EXCEPT !.p = NewParser, !.e.dcs = NoDcs, !.e.osc = <<>>, !.e.input = <<>>])
Recall == Acts /\ UserActs /\ term' = Sync(Emu(term, FullReset(term.e)))

Next == Receive \/ Echo \/ SetUpPrints \/ SetUpShows \/ ClearComm \/ Recall
Spec == Init /\ [][Next]_vars

-----------------------------------------------------------------------------
(* What must hold.                                                         *)

\* It makes no difference how what the host sends is cut into reads, nor that
\* smooth scrolling stops in the middle of one: a byte at a time or all at once,
\* the terminal ends in the same state, having done the same (lib.rs: "Output is
\* identical however the input is chunked"; a terminator, a sequence, a macro
\* definition or a UTF-8 character may be split anywhere).
Settles(t) == [t EXCEPT !.e.scrolls = 0, !.e.smooth = FALSE, !.e.pause = FALSE]
Piecemeal(t, w) == FoldLeft(LAMBDA x, b : Read(x, <<b>>), t, w)
AnyReads == \A w \in Words : Settles(Read(term, w)) = Settles(Piecemeal(term, w))

\* Printer controller mode keeps back only what may still be its end, and gives
\* the printer everything before that, byte for byte; it ends with the first
\* terminator there is, wherever another seems to begin (printer.rs: "everything
\* to the printer and none of it to the screen, until the terminator").
EndsWith(s, end) == Len(end) <= Len(s) /\ SubSeq(s, Len(s) - Len(end) + 1, Len(s)) = end
Suffix(s, n) == SubSeq(s, Len(s) - n + 1, Len(s))
Ended(given) ==
  \E n \in 1 .. Len(given), end \in Terminators : EndsWith(SubSeq(given, 1, n), end)
PrinterTakesAll ==
  /\ term.e.controller =>
       /\ term.e.given = term.e.job \o term.e.pending
       /\ ~Ended(term.e.given)
       /\ \A n \in 1 .. Len(term.e.given) :
            MayEnd(Suffix(term.e.given, n)) => n <= Len(term.e.pending)
  /\ \A i \in DOMAIN term.e.printed :
       LET job == term.e.printed[i]
       IN  "bytes" \in DOMAIN job =>
             IF job.ended
             THEN /\ \E end \in Terminators : job.of = job.bytes \o end
                  /\ ~Ended(Front(job.of))
             ELSE job.of = job.bytes

\* A control sequence is acted on with what came since it was introduced and
\* nothing else: none of an earlier one that was cut off, each number stopped at
\* its limit, no more of them than are kept, whatever controls came in between.
Header(raw) ==
  LET plain == SelectSeq([i \in DOMAIN raw |-> IF raw[i] \in Gr THEN SevenBit(raw[i]) ELSE raw[i]],
                         LAMBDA b : b \notin C0 \ {"ESC"})
  IN  IF plain[1] = "ESC" THEN SubSeq(plain, 3, Len(plain)) ELSE Tail(plain)
Reference(header) ==
  LET private == IF header # <<>> /\ header[1] \in PrivateMarks THEN header[1] ELSE ""
      body == IF private = "" THEN header ELSE Tail(header)
      of(set) == SelectSeq(body, LAMBDA b : b \in set)
      marks == {i \in DOMAIN body : body[i] \in Separators}
      count == IF of(ParamBytes) = <<>> THEN 0 ELSE Cardinality(marks) + 1
      \* The k-th parameter is what lies between two separators.
      digits(k) == [j \in 1 .. Cardinality({i \in DOMAIN body : body[i] \in DOMAIN Digit
                         /\ Cardinality({m \in marks : m < i}) = k - 1}) |->
                      LET in == {i \in DOMAIN body : body[i] \in DOMAIN Digit
                                   /\ Cardinality({m \in marks : m < i}) = k - 1}
                      IN  body[CHOOSE i \in in : Cardinality({x \in in : x < i}) = j - 1]]
      mark(k) == CHOOSE m \in marks : Cardinality({x \in marks : x < m}) = k - 2
      param(k) == [value |-> FoldLeft(WithDigit, Absent, digits(k)), sub |-> k > 1 /\ body[mark(k)] = ":"]
  IN  [private |-> private, inter |-> of(Intermediates),
       params |-> [k \in 1 .. (IF count > MaxParams THEN MaxParams ELSE count) |-> param(k)]]
DispatchedAsSent ==
  \A i \in DOMAIN term.e.done :
     term.e.done[i][1] = "csi" =>
       LET seq == term.e.done[i][2]
           ref == Reference(Front(Header(term.e.done[i][3])))
       IN  /\ seq.private = ref.private /\ seq.inter = ref.inter /\ seq.params = ref.params
           /\ seq.final = Last(Header(term.e.done[i][3]))

\* What is taken for one purpose is all that is for it and nothing else: for the
\* printer, and for one control sequence.
TakenWhole == PrinterTakesAll /\ DispatchedAsSent

\* A macro does what its text would do where it was invoked, also when it stops
\* in the middle of a sequence, turns the printer on, or scrolls (dcs.rs: "the
\* macro text is processed as though received from the host").
Invoke == <<"ESC", "[", "0", "*", "z">>
Invokes(body) == \E i \in DOMAIN body : body[i] \in {"z", "c", "p"}
Ready == term.p.state = "Ground" /\ term.p.needed = 0 /\ term.e.ansi /\ ~term.e.controller
         /\ ~term.e.crm /\ ~term.utf8
InPlace(t) ==
  [Settles(t) EXCEPT
     !.p = IF @.state = "Ground" THEN [NewParser EXCEPT !.mode = t.p.mode, !.vt52 = t.p.vt52] ELSE @,
     !.e.done = SelectSeq(@, LAMBDA d : ~(d[1] = "csi" /\ d[2].final = "z"))]
MacroRunsInPlace ==
  LET body == term.e.macros[0]
  IN  Ready /\ body # <<>> /\ ~Invokes(body) =>
        \A w \in Words \cup {<<>>} :
          InPlace(Read(term, Invoke \o w)) = InPlace(Read(term, body \o w))

\* The macros fit the memory there is for them, whatever was redefined, cleared
\* or refused: what is left of it is never less than nothing.
MacrosFit == MacroSpace(term.e) >= 0

\* A macro is what was defined, where it is invoked, and takes no more than there is.
MacrosSound == MacroRunsInPlace /\ MacrosFit

\* However the input comes, in whatever pieces and with macros in it, it is read alike.
HoweverItComes == AnyReads /\ MacrosSound

\* A step taken with smooth scrolling on shows at most one line that scrolls
\* (mod.rs: "stops after the first line that scrolls").
OneScrollPerStep ==
  \A w \in Words : term.e.smoothMode => AdvancePaced(term, w).t.e.scrolls <= 1
=============================================================================
