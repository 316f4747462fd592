--------------------------- MODULE SetUpFeatures ---------------------------
(***************************************************************************)
(* Every Set-Up feature of a session, for every model of terminal: what a  *)
(* model offers, the factory's settings, the registers of the terminal     *)
(* that hold the features in force and go between features and the codes   *)
(* of the control functions, the control functions that select them, their *)
(* reports, and the file the features are saved in                         *)
(* (crates/vt-core/src/setup/mod.rs, terminal/setup.rs, terminal/vt520.rs, *)
(* config.rs).                                                             *)
(*                                                                         *)
(* A feature that is on or off is a name in `on`; the others have a value  *)
(* in `at`, 0 where the code has None.  The cursor's style is two flags,   *)
(* block and blinking; the emulation is a level and the bits of its        *)
(* controls, <<0, 7>> the VT52 and <<1, 7>> the VT100.  Tab stops are a    *)
(* length and the columns, from 0, that have one.                          *)
(***************************************************************************)
EXTENDS Integers, Sequences, FiniteSets, SequencesExt

Level == [VT100 |-> 1, VT102 |-> 1, VT220 |-> 2, VT320 |-> 3, VT420 |-> 4,
          VT510 |-> 5, VT520 |-> 5, VT525 |-> 5]
Models == DOMAIN Level
HasStatusLine(model) == Level[model] >= 3
HasColor(model) == model = "VT525"

-----------------------------------------------------------------------------
\* What a model offers.

AllSpeeds == <<300, 600, 1200, 2400, 4800, 9600, 19200, 38400, 57600, 76800, 115200>>
SpeedsOf(model) == IF Level[model] >= 5 THEN AllSpeeds ELSE SubSeq(AllSpeeds, 1, 8)
PageLengths(model) ==
  IF Level[model] >= 5 THEN <<24, 25, 36, 41, 42, 48, 52, 53, 72>> ELSE <<24, 25, 36, 48, 72, 144>>
ScreenLineChoices == <<24, 36, 48>>
SaverMinutes == <<0, 5, 15, 30, 60>>
TerminalIds(model) ==
  CASE Level[model] = 5 -> <<10, 9, 7, 5, 2, 1, 0>>
    [] Level[model] = 4 -> <<10, 0, 1, 2, 5, 7>>
    [] OTHER            -> <<10>>

\* From the highest level down, each with 7-bit and with 8-bit controls.
TerminalModes(model) ==
  FlattenSeq([i \in 1 .. Level[model] - 1 |->
                LET level == Level[model] + 1 - i IN <<<<level, 7>>, <<level, 8>>>>])
  \o <<<<1, 7>>, <<0, 7>>>>

Parities == <<"none", "even", "odd", "even-unchecked", "odd-unchecked", "mark", "space">>
Keyboards == 0 .. 12      \* North American, which is no national one, and twelve that are

\* A character format of the VT420: seven bits, and the parity.
DataFormats ==
  <<<<FALSE, "none">>, <<FALSE, "even">>, <<FALSE, "odd">>,
    <<TRUE, "even">>, <<TRUE, "odd">>, <<TRUE, "mark">>, <<TRUE, "space">>>>

ColumnsOf(f) == IF "columns_132" \in f.on THEN 132 ELSE 80
EveryEighth(n) == [len |-> n, at |-> {8 * i : i \in 1 .. (n - 1) \div 8}]
WithColumns(tabs, n, more) ==
  [len |-> n, at |-> {c \in tabs.at : c < n} \cup {c \in more : c >= tabs.len /\ c < n}]

-----------------------------------------------------------------------------
\* The factory's settings (Features::factory).
FactoryOf(model) ==
  [on |-> {"on_line", "crt_saver", "autowrap", "cursor", "block", "blinks", "vertical_coupling",
           "page_coupling", "clear_on_column_change", "host_wake_up", "framed_windows",
           "ignore_null", "auto_repeat", "report_alt"}
          \cup (IF model = "VT420" THEN {"print_full_page"} ELSE {}),
   at |-> [printer_session |-> 0, print_mode |-> "normal",
           scroll |-> IF model \in {"VT420", "VT510"} THEN "smooth 2" ELSE "jump",
           status |-> IF HasStatusLine(model) THEN "indicator" ELSE "none",
           page_length |-> 24, screen_lines |-> 24, zero_style |-> 1,
           crt_saver_minutes |-> 15, energy_saver_minutes |-> 15,
           terminal_mode |-> <<Level[model], 7>>, upss |-> "dec", terminal_id |-> 10, update |-> 2,
           transmit_speed |-> 9600, receive_speed |-> 0, xoff |-> 64, parity |-> "none",
           transmit_flow |-> 1, receive_flow |-> 1, transmit_rate |-> 1, fkey_rate |-> 1,
           modem_high_speed |-> 0, modem_low_speed |-> 0, disconnect |-> 0,
           auto_repeat_rate |-> 30, keyclick |-> "high", margin_bell |-> "off",
           warning_bell |-> "high", compose |-> "local", break_key |-> "break",
           keyboard_language |-> 0],
   keys |-> [k \in 0 .. 3 |-> "local"],
   answerback |-> <<>>,
   tabs |-> EveryEighth(80)]

Valued == DOMAIN FactoryOf("VT420").at
Has(f, flag) == flag \in f.on
Turned(f, flag, on) == [f EXCEPT !.on = IF on THEN @ \cup {flag} ELSE @ \ {flag}]
Toggled(f, flag) == Turned(f, flag, flag \notin f.on)
Given(f, name, value) == [f EXCEPT !.at[name] = value]

-----------------------------------------------------------------------------
\* The file of saved features.

NotWritten == {"two_sessions", "keypad_application", "cursor_keys_application"}

\* to_text: a line for every feature but three.
ToText(f) == [f EXCEPT !.on = @ \ NotWritten]

\* The values from_text takes for a model.
Taken(model, name) ==
  CASE name = "status"        -> IF HasStatusLine(model) THEN {"none", "indicator", "host"} ELSE {}
    [] name = "page_length"   -> ToSet(PageLengths(model))
    [] name = "screen_lines"  -> ToSet(ScreenLineChoices)
    [] name \in {"crt_saver_minutes", "energy_saver_minutes"} -> ToSet(SaverMinutes)
    [] name = "terminal_mode" -> ToSet(TerminalModes(model))
    [] name = "terminal_id"   -> ToSet(TerminalIds(model))
    [] name \in {"transmit_speed", "receive_speed", "modem_high_speed", "modem_low_speed"} ->
         ToSet(SpeedsOf(model))
    [] name = "parity"        -> ToSet(Parities)
    [] name = "xoff"          -> {64, 128}
    [] name = "keyboard_language" -> Keyboards
    [] name \in {"zero_style", "update", "transmit_rate"} -> 1 .. 3
    [] name \in {"transmit_flow", "receive_flow", "fkey_rate"} -> 0 .. 3
    [] name \in {"printer_session", "disconnect"} -> 0 .. 2
    [] name = "auto_repeat_rate" -> {10, 30}
    [] name = "print_mode"    -> {"normal", "auto", "controller"}
    [] name = "scroll"        -> {"jump", "smooth 2", "smooth 4"}
    [] name = "upss"          -> {"dec", "latin1"}
    [] name \in {"keyclick", "margin_bell", "warning_bell"} -> {"off", "low", "high"}
    [] name = "compose"       -> {"local", "report", "ignore"}
    [] name = "break_key"     -> {"break", "no-break", "fkey", "ignore"}

\* Of what is not taken the factory's setting remains, but these are then None.
NoneOtherwise == {"receive_speed", "modem_high_speed", "modem_low_speed", "xoff"}

\* from_text, over the factory's settings. National characters need a national
\* keyboard; the first column has no tab stop.
FromText(model, text) ==
  LET factory == FactoryOf(model)
      at == [name \in Valued |->
               IF text.at[name] \in Taken(model, name) THEN text.at[name]
               ELSE IF name \in NoneOtherwise THEN 0 ELSE factory.at[name]]
      cols == ColumnsOf(text)
  IN  [on |-> text.on \ (IF at.keyboard_language = 0 THEN {"national"} ELSE {}),
       at |-> at, keys |-> text.keys, answerback |-> text.answerback,
       tabs |-> [len |-> cols, at |-> text.tabs.at \cap 1 .. cols - 1]]

-----------------------------------------------------------------------------
\* The terminal's registers.

\* Flags the terminal keeps under the sense Set-Up gives them, and two it keeps
\* the other way round.
LiveFlags ==
  {"columns_132", "autowrap", "light_screen", "cursor", "block", "blinks", "vertical_coupling",
   "page_coupling", "udk_locked", "national", "keypad_application", "cursor_keys_application",
   "new_line", "seven_bit_data", "two_stop_bits", "flow_threshold_high", "ignore_null",
   "half_duplex", "overscan", "framed_windows", "host_wake_up", "modem_control",
   "limited_transmit", "crt_saver", "auto_answerback", "conceal_answerback",
   "data_processing_keys", "auto_repeat", "position_mode", "backarrow_bs", "print_full_page",
   "print_form_feed"}
Inverted == [local_echo |-> "send_receive", clear_on_column_change |-> "no_clear_on_column_change"]

\* Selections that are one number, by the control function: whether it is taken
\* as it comes or 0 means the factory's, the numbers it may be, and the factory's.
Selections ==
  [DECSKCV  |-> [zero |-> TRUE, in |-> 1 .. 8, factory |-> 5],
   DECSWBV  |-> [zero |-> TRUE, in |-> 1 .. 8, factory |-> 5],
   DECSMBV  |-> [zero |-> TRUE, in |-> 1 .. 8, factory |-> 1],
   DECSSCLS |-> [zero |-> TRUE, in |-> 1 .. 9, factory |-> 1],
   DECSLCK  |-> [zero |-> TRUE, in |-> 1 .. 3, factory |-> 1],
   DECARR   |-> [zero |-> FALSE, in |-> 0 .. 30, factory |-> 30],
   DECCRTST |-> [zero |-> FALSE, in |-> {0, 5, 15, 30, 60}, factory |-> 15],
   DECSEST  |-> [zero |-> FALSE, in |-> {0, 5, 15, 30}, factory |-> 15],
   DECSZS   |-> [zero |-> TRUE, in |-> 1 .. 3, factory |-> 1],
   DECSPRTT |-> [zero |-> TRUE, in |-> 1 .. 3, factory |-> 1],
   DECSPPCS |-> [zero |-> FALSE, in |-> {210, 220, 437, 850, 852, 857, 860, 862, 863, 865, 866},
                 factory |-> 437],
   DECSDPT  |-> [zero |-> TRUE, in |-> 1 .. 4, factory |-> 1],
   DECSDDT  |-> [zero |-> TRUE, in |-> 1 .. 3, factory |-> 3],
   DECSSL   |-> [zero |-> TRUE, in |-> 1 .. 5, factory |-> 1],
   DECDLDA  |-> [zero |-> TRUE, in |-> 1 .. 2, factory |-> 2],
   DECSRFR  |-> [zero |-> TRUE, in |-> 1 .. 3, factory |-> 3]]

\* A terminal before any features are applied: 8 the comm_speed of the line's
\* speed, the printer's and the modem's, the flow control <<direction, kind,
\* threshold>> and character <<bits, parity, stop bits>> of line and printer.
NewRegisters(model) ==
  LET f == FactoryOf(model)
  IN  [model |-> model, ansi |-> TRUE, level |-> Level[model], eightBit |-> FALSE,
       on |-> (f.on \cap (LiveFlags \ {"seven_bit_data", "two_stop_bits", "flow_threshold_high"}))
              \cup {"send_receive"} \cup (IF f.at.scroll = "jump" THEN {} ELSE {"smooth"}),
       sel |-> [s \in DOMAIN Selections |-> Selections[s].factory],
       printer |-> <<0, 1>>, speed |-> <<6, 6, 5, 0, 0>>,
       flow |-> <<<<3, 1, 1>>, <<3, 1, 1>>>>, port |-> <<<<1, 1, 1>>, <<1, 1, 1>>>>,
       rate |-> <<1, 1, 1>>, id |-> 10, update |-> 2, keys |-> f.keys,
       pageLength |-> 24, screenLines |-> 24, status |-> f.at.status, upss |-> "dec",
       printMode |-> "normal", answerback |-> <<>>, keyboard |-> 0, tabs |-> EveryEighth(80),
       stored |-> f]

VolumeOf(code) == IF code = 1 THEN "off" ELSE IF code \in 2 .. 4 THEN "low" ELSE "high"
VolumeCode(volume) == CASE volume = "off" -> 1 [] volume = "low" -> 3 [] volume = "high" -> 5
SpeedOf(code) == IF code \in DOMAIN AllSpeeds THEN AllSpeeds[code] ELSE 9600
SpeedCode(speed) ==
  IF speed \in ToSet(AllSpeeds) THEN CHOOSE i \in DOMAIN AllSpeeds : AllSpeeds[i] = speed ELSE 6
ModemSpeedOf(code) == IF code > 0 THEN SpeedOf(code) ELSE 0
ModemSpeedCode(speed) == IF speed = 0 THEN 0 ELSE SpeedCode(speed)
ParityCode(parity) == CHOOSE i \in DOMAIN Parities : Parities[i] = parity
FlowCodeAsIs(flow) == flow
FlowCode(flow) == IF flow = 0 THEN 4 ELSE flow
FlowOf(code) == IF code = 4 THEN 0 ELSE code

\* The features as they are in force (setup_features). What the terminal has no
\* register for is as Set-Up last stored it.
SetupFeatures(t) ==
  LET live == (t.on \cap LiveFlags)
              \cup {flag \in DOMAIN Inverted : Inverted[flag] \notin t.on}
              \cup (IF t.port[1][1] = 2 THEN {"seven_bit_data"} ELSE {})
              \cup (IF t.port[1][3] = 2 THEN {"two_stop_bits"} ELSE {})
              \cup (IF t.flow[1][3] = 2 THEN {"flow_threshold_high"} ELSE {})
      flow(directions, name) ==
        IF t.flow[1][1] \in directions THEN FlowOf(t.flow[1][2]) ELSE t.stored.at[name]
  IN  [on |-> live \cup (t.stored.on \ (LiveFlags \cup DOMAIN Inverted)),
       at |-> [t.stored.at EXCEPT
                 !.scroll = IF "smooth" \notin t.on \/ t.sel.DECSSCLS >= 9 THEN "jump"
                            ELSE IF t.sel.DECSSCLS >= 4 THEN "smooth 4" ELSE "smooth 2",
                 !.status = t.status, !.page_length = t.pageLength,
                 !.screen_lines = IF t.screenLines <= 30 THEN 24 ELSE IF t.screenLines <= 45 THEN 36 ELSE 48,
                 !.terminal_mode = IF ~t.ansi THEN <<0, 7>> ELSE IF t.level <= 1 THEN <<1, 7>>
                                   ELSE <<t.level, IF t.eightBit THEN 8 ELSE 7>>,
                 !.upss = t.upss, !.terminal_id = t.id, !.update = t.update,
                 !.transmit_speed = SpeedOf(t.speed[1]),
                 !.modem_high_speed = ModemSpeedOf(t.speed[4]),
                 !.modem_low_speed = ModemSpeedOf(t.speed[5]),
                 !.parity = Parities[t.port[1][2]],
                 !.transmit_flow = flow({1, 3}, "transmit_flow"),
                 !.receive_flow = flow({2, 3}, "receive_flow"),
                 !.transmit_rate = t.rate[1],
                 !.fkey_rate = IF t.rate[3] = t.rate[1] THEN t.stored.at.fkey_rate ELSE t.rate[3],
                 !.zero_style = t.sel.DECSZS, !.crt_saver_minutes = t.sel.DECCRTST,
                 !.energy_saver_minutes = t.sel.DECSEST,
                 !.auto_repeat_rate = IF t.sel.DECARR = 10 THEN 10 ELSE 30,
                 !.keyclick = VolumeOf(t.sel.DECSKCV), !.warning_bell = VolumeOf(t.sel.DECSWBV),
                 !.margin_bell = VolumeOf(t.sel.DECSMBV),
                 !.keyboard_language = t.keyboard, !.print_mode = t.printMode],
       keys |-> t.keys, answerback |-> t.answerback, tabs |-> t.tabs]

-----------------------------------------------------------------------------
\* Features into the registers (apply_features).

\* The emulation first: the VT52 keeps the level for when it is left.
WithMode(t, mode) ==
  CASE mode[1] = 0 -> [t EXCEPT !.ansi = FALSE]
    [] mode[1] = 1 -> [t EXCEPT !.ansi = TRUE, !.level = 1, !.eightBit = FALSE]
    [] OTHER -> [t EXCEPT !.ansi = TRUE, !.eightBit = mode[2] = 8,
                          !.level = IF mode[1] > Level[t.model] THEN Level[t.model] ELSE mode[1]]

\* Page and screen of the model's lengths and heights; a VT500's status line
\* takes one of the screen's lines. Before the VT400 neither can be chosen.
NextOf(sizes, n) ==
  LET enough == {i \in DOMAIN sizes : sizes[i] >= n}
  IN  IF enough = {} THEN Last(sizes) ELSE sizes[CHOOSE i \in enough : \A j \in enough : i <= j]
WithPage(t, f) ==
  LET status == IF Level[t.model] >= 5 /\ t.status # "none" THEN 1 ELSE 0
      heights == IF Level[t.model] >= 5 THEN <<26 - status, 42 - status, 53 - status>> ELSE ScreenLineChoices
      length == IF Level[t.model] >= 5 THEN NextOf(PageLengths(t.model), f.at.page_length)
                ELSE IF f.at.page_length \in ToSet(PageLengths(t.model)) THEN f.at.page_length ELSE t.pageLength
  IN  IF Level[t.model] < 4 THEN t
      ELSE [t EXCEPT !.pageLength = length, !.screenLines = NextOf(heights, f.at.screen_lines)]

\* The columns there were not have the default stops, the first never one.
WithTabs(t, f) ==
  [t EXCEPT !.tabs = [WithColumns(f.tabs, ColumnsOf(f), EveryEighth(132).at) EXCEPT !.at = @ \ {0}]]

FlagsOf(t, f) ==
  LET kept == (IF Level[t.model] < 4 THEN t.on \cap {"vertical_coupling", "page_coupling"}
               ELSE f.on \cap {"vertical_coupling", "page_coupling"})
      simple == f.on \cap (LiveFlags \ {"vertical_coupling", "page_coupling", "national",
                                        "seven_bit_data", "two_stop_bits", "flow_threshold_high"})
  IN  simple \cup kept
      \cup {Inverted[flag] : flag \in DOMAIN Inverted \ f.on}
      \cup (IF "national" \in f.on /\ f.at.keyboard_language # 0 /\ Level[t.model] >= 2
            THEN {"national"} ELSE {})
      \cup (IF f.at.scroll = "jump" THEN {} ELSE {"smooth"})

ApplyFeatures(t, f) ==
  LET one(yes) == IF yes THEN 2 ELSE 1
      shown == [WithMode(t, f.at.terminal_mode) EXCEPT
                  !.status = IF HasStatusLine(t.model) THEN f.at.status ELSE @]
      paged == WithTabs(WithPage(shown, f), f)
  IN  [paged EXCEPT
         !.on = FlagsOf(t, f),
         !.upss = IF Level[t.model] >= 3 THEN f.at.upss ELSE @,
         !.keyboard = f.at.keyboard_language, !.id = f.at.terminal_id, !.update = f.at.update,
         !.speed = [@ EXCEPT ![1] = SpeedCode(f.at.transmit_speed),
                             ![4] = ModemSpeedCode(f.at.modem_high_speed),
                             ![5] = ModemSpeedCode(f.at.modem_low_speed)],
         !.port[1] = <<one(Has(f, "seven_bit_data")), ParityCode(f.at.parity), one(Has(f, "two_stop_bits"))>>,
         !.flow[1] = <<IF f.at.transmit_flow = f.at.receive_flow THEN 3 ELSE 2,
                       FlowCode(f.at.receive_flow), one(Has(f, "flow_threshold_high"))>>,
         !.rate = <<f.at.transmit_rate, f.at.transmit_rate,
                    IF f.at.fkey_rate = 0 THEN f.at.transmit_rate ELSE f.at.fkey_rate>>,
         !.sel = [@ EXCEPT !.DECSZS = f.at.zero_style, !.DECCRTST = f.at.crt_saver_minutes,
                           !.DECSEST = f.at.energy_saver_minutes, !.DECARR = f.at.auto_repeat_rate,
                           !.DECSKCV = VolumeCode(f.at.keyclick), !.DECSWBV = VolumeCode(f.at.warning_bell),
                           !.DECSMBV = VolumeCode(f.at.margin_bell),
                           !.DECSSCLS = IF f.at.scroll = "smooth 4" THEN 4 ELSE 1],
         !.answerback = f.answerback, !.keys = f.keys, !.printMode = f.at.print_mode,
         !.stored = f]

-----------------------------------------------------------------------------
\* The control functions of a VT500's host that select Set-Up features
\* (vt520_csi), each of its parameters, 0 where one is left out.

Select(value, in, factory) == IF value = 0 THEN {factory} ELSE {value} \cap in

\* A single number. The VT510 alone has DECSRFR, the colour VT525 no DECDLDA.
SelectOne(t, name, value) ==
  LET s == Selections[name]
      taken == IF s.zero THEN Select(value, s.in, s.factory) ELSE {value} \cap s.in
      has == (name = "DECSRFR" => t.model = "VT510") /\ (name = "DECDLDA" => ~HasColor(t.model))
  IN  IF has /\ taken # {} THEN [t EXCEPT !.sel[name] = CHOOSE v \in taken : TRUE] ELSE t

\* All of the parameters are taken, or none.
SelectLine(t, name, p) ==
  LET ranges == CASE name = "DECSCS"  -> <<<<1 .. 5, 1>>, <<1 .. 11, 6>>>>
                  [] name = "DECSFC"  -> <<<<1 .. 2, 1>>, <<1 .. 3, 1>>, <<1 .. 4, 1>>, <<1 .. 2, 1>>>>
                  [] name = "DECSPP"  -> <<<<1 .. 2, 1>>, <<1 .. 2, 1>>, <<1 .. 7, 1>>, <<1 .. 2, 1>>>>
                  [] name = "DECSTRL" -> <<<<1 .. 3, 1>>, <<1 .. 3, 1>>>>
      taken == [i \in DOMAIN ranges |-> Select(p[i], ranges[i][1], ranges[i][2])]
      v == [i \in DOMAIN ranges |-> CHOOSE x \in taken[i] : TRUE]
  IN  IF \E i \in DOMAIN ranges : taken[i] = {} THEN t
      ELSE CASE name = "DECSCS"  -> [t EXCEPT !.speed[v[1]] = v[2]]
             [] name = "DECSFC"  -> [t EXCEPT !.flow[v[1]] = Tail(v)]
             [] name = "DECSPP"  -> [t EXCEPT !.port[v[1]] = Tail(v)]
             [] name = "DECSTRL" -> [t EXCEPT !.rate[v[1]] = v[2]]

SelectOther(t, name, p) ==
  CASE name = "DECTID" -> IF p[1] \in {0, 1, 2, 5, 7, 9, 10} THEN [t EXCEPT !.id = p[1]] ELSE t
    [] name = "DECUS"  -> IF p[1] \in 1 .. 3 THEN [t EXCEPT !.update = p[1]] ELSE t
    [] name = "DECSCUSR" ->
         IF p[1] > 4 THEN t
         ELSE [t EXCEPT !.on = (@ \ {"block", "blinks"})
                               \cup (IF p[1] <= 2 THEN {"block"} ELSE {})
                               \cup (IF p[1] \in {0, 1, 3} THEN {"blinks"} ELSE {})]
    [] name = "DECSCP" ->
         IF p[1] \in {0, 1, 4} /\ p[2] <= 3
         THEN [t EXCEPT !.printer = <<p[1], IF p[2] = 0 THEN 1 ELSE p[2]>>] ELSE t
    [] name = "DECLFKC" ->
         LET what == IF p[2] = 0 THEN 1 ELSE p[2]
             action == <<"local", "host", "disabled">>
         IN  IF what \notin 1 .. 3 \/ p[1] > 4 THEN t
             ELSE [t EXCEPT !.keys = [k \in 0 .. 3 |-> IF p[1] \in {0, k + 1} THEN action[what] ELSE @[k]]]

SelectedBy(t, name, p) ==
  IF name \in DOMAIN Selections THEN SelectOne(t, name, p[1])
  ELSE IF name \in {"DECSCS", "DECSFC", "DECSPP", "DECSTRL"} THEN SelectLine(t, name, p)
  ELSE SelectOther(t, name, p)

\* The selections DECRQSS reports, with the parameters of the report
\* (vt520_setting): of lines, ports and keys the first.
Reported(t, name) ==
  CASE name \in DOMAIN Selections -> <<t.sel[name]>>
    [] name = "DECSCP"   -> t.printer
    [] name = "DECSCS"   -> <<1, t.speed[1]>>
    [] name = "DECSFC"   -> <<1>> \o t.flow[1]
    [] name = "DECSPP"   -> <<1>> \o t.port[1]
    [] name = "DECSTRL"  -> <<1, t.rate[1]>>
    [] name = "DECUS"    -> <<t.update>>
    [] name = "DECSCUSR" -> <<CASE t.on \cap {"block", "blinks"} = {"block", "blinks"} -> 1
                                [] t.on \cap {"block", "blinks"} = {"block"} -> 2
                                [] t.on \cap {"block", "blinks"} = {"blinks"} -> 3
                                [] OTHER -> 4>>
Reports(model) ==
  (DOMAIN Selections \ ((IF model = "VT510" THEN {} ELSE {"DECSRFR"}) \cup (IF HasColor(model) THEN {"DECDLDA"} ELSE {})))
  \cup {"DECSCP", "DECSCS", "DECSFC", "DECSPP", "DECSTRL", "DECUS", "DECSCUSR"}
============================================================================
