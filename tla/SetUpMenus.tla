----------------------------- MODULE SetUpMenus -----------------------------
(***************************************************************************)
(* The VT500s' Set-Up: pull-right menus from a main menu, with their check *)
(* boxes and radio buttons, and the dialogs of the answerback message and  *)
(* the tab stops (crates/vt-core/src/setup/menus.rs).                      *)
(*                                                                         *)
(* An item is its label, its kind, what choosing it does to the features,  *)
(* and whether it can be chosen.  Of labels only the width of a box        *)
(* depends: items made alike carry the longest of theirs.  `m` is the      *)
(* Menus of the code.                                                      *)
(***************************************************************************)
EXTENDS SetUpFeatures

\* Items. A check box or radio button is on or off, and gives the features as
\* choosing it makes them.
Item(label, kind, to, on, gives) ==
  [label |-> label, kind |-> kind, to |-> to, on |-> on, gives |-> gives, enabled |-> TRUE]
Sub(f, label, menu) == Item(label, "sub", menu, FALSE, f)
Check(f, label, on, gives) == Item(label, "check", "", on, gives)
Radio(f, label, on, gives) == Item(label, "radio", "", on, gives)
Act(f, label, command) == Item(label, "do", command, FALSE, f)
When(item, enabled) == [item EXCEPT !.enabled = @ /\ enabled]
Dim(item) == When(item, FALSE)
Unavailable(f, label) == Dim(Act(f, label, "Unavailable"))
Fixed(f, label, on) == Dim(Check(f, label, on, f))
Separator(f) == Dim(Item("", "separator", "", FALSE, f))
Selectable(item) == item.enabled

\* A box for a flag, a button for each value of a feature, or of a flag.
Box(f, label, flag) == Check(f, label, Has(f, flag), Toggled(f, flag))
Buttons(f, name, choices) ==
  [i \in DOMAIN choices |->
     Radio(f, choices[i][1], f.at[name] = choices[i][2], Given(f, name, choices[i][2]))]
Either(f, flag, labelOff, labelOn) ==
  <<Radio(f, labelOff, ~Has(f, flag), Turned(f, flag, FALSE)),
    Radio(f, labelOn, Has(f, flag), Turned(f, flag, TRUE))>>
Backwards(s) == [i \in DOMAIN s |-> s[Len(s) + 1 - i]]
Labelled(values, label) == [i \in DOMAIN values |-> <<label, values[i]>>]
\* All the speeds a model offers, the highest first, after those given. A label
\* of theirs is of one width.
SpeedButtons(f, model, name, first) ==
  Buttons(f, name, first \o Labelled(Backwards(SpeedsOf(model)), "  9600 baud"))

WholeLevel(f) == f.at.terminal_mode[1] >= 2
\* A model's own name, and those of the other terminals, are of five letters.
EmulationName(mode) == IF mode[1] = 0 THEN "VT52 mode" ELSE "VT500 mode"

-----------------------------------------------------------------------------
\* The menus (items), by what they are about.

MainItems(f) ==
  <<Sub(f, "Actions", "Actions"), Sub(f, "Session", "Session"), Sub(f, "Display", "Display"),
    Sub(f, "Color", "Color"), Sub(f, "Terminal type", "TerminalType"),
    Sub(f, "ASCII emulation", "AsciiEmulation"), Sub(f, "Keyboard", "Keyboard"),
    Sub(f, "Communication", "Communication"), Sub(f, "Modem", "Modem"), Sub(f, "Printer", "Printer"),
    Act(f, "Tabs...", "Tabs"), Sub(f, "Set-Up language", "Language"), Separator(f),
    Box(f, "On-line", "on_line"), Act(f, "Save settings", "Save"), Act(f, "Restore settings", "Recall"),
    Act(f, "Exit Set-Up", "Exit")>>

ActionItems(f) ==
  <<Act(f, "Clear display", "ClearDisplay"), Act(f, "Clear communications", "ClearComm"),
    Act(f, "Reset this session", "ResetSession"), Act(f, "Restore factory defaults", "Default"),
    Separator(f), Unavailable(f, "Clock"), Unavailable(f, "Calculator"),
    Unavailable(f, "Show character sets"), Unavailable(f, "Banner message...")>>

SessionItems(f, menu, session) ==
  CASE menu = "Session" ->
         <<Sub(f, "Select session", "SelectSession"), Unavailable(f, "Session name..."),
           Unavailable(f, "Pages per session..."), Dim(Sub(f, "Soft char sets/session", "Session")),
           Unavailable(f, "Save settings for all"), Unavailable(f, "Restore settings for all"),
           Dim(Sub(f, "Copy settings from", "Session")), Sub(f, "Update session", "UpdateSession")>>
    [] menu = "SelectSession" ->
         [n \in 1 .. 4 |-> When(Radio(f, "Session 1", n = session, f), n = session)]
    [] menu = "UpdateSession" ->
         Buttons(f, "update", <<<<"Only when active", 1>>, <<"When available", 2>>,
                                <<"At regular intervals", 3>>>>)

\* The session it is in is the only one that can be selected; the setting of an
\* energy saver waits on a CRT saver.
DisplayItems(f, model) ==
  <<Sub(f, "Lines per screen", "LinesPerScreen"), Sub(f, "Lines per page", "LinesPerPage"),
    Fixed(f, "Save lines off top", FALSE), Sub(f, "Columns per page", "Columns"),
    When(Sub(f, "Status display", "Status"), HasStatusLine(model)),
    Sub(f, "Scrolling mode", "Scrolling"), Sub(f, "Screen background", "Background"),
    Sub(f, "Cursor display", "CursorDisplay"), Sub(f, "Cursor coupling", "CursorCoupling"),
    Sub(f, "Writing direction", "WritingDirection"), Sub(f, "Zero font", "Zero"),
    Box(f, "Auto wrap", "autowrap"), Box(f, "New line mode", "new_line"),
    Box(f, "Lock user preferences", "user_features_locked"),
    Box(f, "Show control characters", "display_controls"), Sub(f, "CRT saver", "CrtSaver"),
    When(Sub(f, "Energy saver", "EnergySaver"), Has(f, "crt_saver") /\ f.at.crt_saver_minutes > 0),
    When(Box(f, "Overscan", "overscan"), ~HasColor(model)), Box(f, "Framed windows", "framed_windows"),
    Act(f, "Screen alignment...", "Align")>>

AutoScreenLines(length) == IF length <= 25 THEN 24 ELSE IF length <= 36 THEN 36 ELSE 48
Longer(a, b) == IF a > b THEN a ELSE b
Shorter(a, b) == IF a < b THEN a ELSE b

\* A screen of more lines makes the page as long, a shorter page the screen no
\* longer than it. New columns have no tab stops (set_columns).
SizeItems(f, menu, model) ==
  CASE menu = "LinesPerScreen" ->
         [i \in DOMAIN ScreenLineChoices |->
            LET n == ScreenLineChoices[i]
            IN  Radio(f, "24 lines", f.at.screen_lines = n,
                      [f EXCEPT !.at.screen_lines = n, !.at.page_length = Longer(@, n)])]
         \o <<Box(f, "Auto resize", "auto_resize")>>
    [] menu = "LinesPerPage" ->
         [i \in DOMAIN PageLengths(model) |->
            LET n == PageLengths(model)[i]
            IN  Radio(f, "24 lines x 3 pages", f.at.page_length = n,
                      [f EXCEPT !.at.page_length = n, !.at.screen_lines = Shorter(@, AutoScreenLines(n))])]
    [] menu = "Columns" ->
         [i \in 1 .. 2 |->
            LET wide == i = 2
                g == Turned(f, "columns_132", wide)
            IN  Radio(f, "132 columns", Has(f, "columns_132") = wide,
                      [g EXCEPT !.tabs = IF Has(f, "columns_132") = wide THEN @
                                         ELSE WithColumns(@, ColumnsOf(g), {})])]
         \o <<Box(f, "Clear on change", "clear_on_column_change")>>

\* Minutes of a saver, from Never; CRT saver Never is that it is off.
Minutes(f, current, gives) ==
  [i \in DOMAIN SaverMinutes |->
     Radio(f, "15 minutes", current = SaverMinutes[i], gives[SaverMinutes[i]])]

ScreenItems(f, menu) ==
  CASE menu = "Status" ->
         Buttons(f, "status", <<<<"Local status", "indicator">>, <<"Host writable", "host">>, <<"None", "none">>>>)
    [] menu = "Scrolling" ->
         Buttons(f, "scroll", <<<<"Slow smooth", "smooth 2">>, <<"Fast smooth", "smooth 4">>, <<"Jump", "jump">>>>)
    [] menu = "Background" -> Either(f, "light_screen", "Dark", "Light")
    [] menu = "CursorDisplay" ->
         Backwards(Either(f, "block", "Underline", "Block"))
         \o <<Box(f, "Blink", "blinks"), Box(f, "Enable cursor", "cursor")>>
    [] menu = "CursorCoupling" ->
         <<Box(f, "Vertical coupling", "vertical_coupling"), Box(f, "Page coupling", "page_coupling")>>
    [] menu = "WritingDirection" ->
         <<Radio(f, "Left to right", TRUE, f), Dim(Radio(f, "Right to left", FALSE, f))>>
    [] menu = "Zero" ->
         Buttons(f, "zero_style", <<<<"Oval zero", 1>>, <<"Slashed zero", 2>>, <<"Dotted zero", 3>>>>)
    [] menu = "CrtSaver" ->
         Minutes(f, IF Has(f, "crt_saver") THEN f.at.crt_saver_minutes ELSE 0,
                 [m \in ToSet(SaverMinutes) |->
                    [Turned(f, "crt_saver", m > 0) EXCEPT !.at.crt_saver_minutes = IF m > 0 THEN m ELSE @]])
         \o <<Box(f, "Host wake-up", "host_wake_up")>>
    [] menu = "EnergySaver" ->
         Minutes(f, f.at.energy_saver_minutes,
                 [m \in ToSet(SaverMinutes) |-> Given(f, "energy_saver_minutes", m)])
    [] menu = "Color" ->
         <<Unavailable(f, "Assign colors..."), Unavailable(f, "Alternate text colors..."),
           Unavailable(f, "Define colors..."), Dim(Sub(f, "Select color mode", "Color")),
           Dim(Sub(f, "ASCII color mode", "Color")), Dim(Sub(f, "Bold and blink style", "Color")),
           Dim(Sub(f, "Erase color", "Color")), Dim(Sub(f, "Reverse and blank attributes", "Color")),
           Fixed(f, "Intensity attributes", TRUE)>>

\* National characters need a national keyboard; an emulation keeps the bits of
\* its controls when another level is chosen.
TypeItems(f, menu, model) ==
  CASE menu = "TerminalType" ->
         <<Sub(f, "Emulation mode", "Emulation"),
           When(Sub(f, "Terminal ID to host", "TerminalId"), f.at.terminal_mode[1] # 0),
           Sub(f, "VT default char set", "CharacterSet"), Dim(Sub(f, "PCTerm character set", "CharacterSet")),
           When(Box(f, "7-bit NRCS characters", "national"), WholeLevel(f) /\ f.at.keyboard_language # 0),
           When(Check(f, "Transmit 7-bit controls", f.at.terminal_mode[2] = 7,
                      [f EXCEPT !.at.terminal_mode = IF WholeLevel(f) THEN <<@[1], 15 - @[2]>> ELSE @]),
                WholeLevel(f))>>
    [] menu = "Emulation" ->
         LET modes == SelectSeq(TerminalModes(model), LAMBDA mode : mode[2] = 7)
         IN  [i \in DOMAIN modes |->
                Radio(f, EmulationName(modes[i]), modes[i][1] = f.at.terminal_mode[1],
                      Given(f, "terminal_mode",
                            IF WholeLevel(f) /\ modes[i][1] >= 2 THEN <<modes[i][1], f.at.terminal_mode[2]>>
                            ELSE modes[i]))]
    [] menu = "TerminalId" -> Buttons(f, "terminal_id", Labelled(TerminalIds(model), "VT100"))
    [] menu = "CharacterSet" ->
         Buttons(f, "upss", <<<<"ISO Latin-1", "latin1">>, <<"DEC Multinational", "dec">>>>)
    [] menu = "AsciiEmulation" ->
         [i \in 1 .. 16 |-> Unavailable(f, "Write protect attributes")]

Volumes == <<<<"High", "high">>, <<"Low", "low">>, <<"Off", "off">>>>

KeyboardItems(f, menu) ==
  CASE menu = "Keyboard" ->
         <<Sub(f, "VT keyboard language", "VtLanguage"), Dim(Sub(f, "PC keyboard language", "VtLanguage")),
           Unavailable(f, "Define key..."), Unavailable(f, "Save key definitions"),
           Unavailable(f, "Recall key definitions"), Box(f, "Lock key definitions", "udk_locked"),
           Sub(f, "Caps lock function", "CapsLock"), Sub(f, "Keyclick volume", "Keyclick"),
           Sub(f, "Warning bell volume", "WarningBell"), Sub(f, "Margin bell volume", "MarginBell"),
           Sub(f, "Keyboard encoding", "Encoding"), Sub(f, "Auto repeat", "AutoRepeat"),
           Box(f, "Data processing keys", "data_processing_keys"),
           Box(f, "Application cursor keys", "cursor_keys_application"),
           Box(f, "Application keypad mode", "keypad_application"),
           Fixed(f, "Map PC keyboard to VT", FALSE), Fixed(f, "Ignore missing keyboard", FALSE)>>
    [] menu = "VtLanguage" ->
         [i \in 1 .. 13 |->
            LET language == i - 1
            IN  Radio(f, "Canadian (French)", f.at.keyboard_language = language,
                      [f EXCEPT !.at.keyboard_language = language,
                                !.on = IF language = 0 THEN @ \ {"national"} ELSE @])]
    [] menu = "CapsLock" ->
         Either(f, "shift_lock", "Caps lock", "Shift lock") \o <<Dim(Radio(f, "Reverse lock", FALSE, f))>>
    [] menu = "Keyclick"    -> Buttons(f, "keyclick", Volumes)
    [] menu = "WarningBell" -> Buttons(f, "warning_bell", Volumes)
    [] menu = "MarginBell"  -> Buttons(f, "margin_bell", Volumes)
    [] menu = "Encoding" ->
         LET two == Either(f, "position_mode", "Character (ASCII)", "Key position")
         IN  <<two[1], Dim(Radio(f, "Scancode", FALSE, f)), two[2]>>
    [] menu = "AutoRepeat" ->
         [i \in 1 .. 2 |->
            LET rate == IF i = 1 THEN 30 ELSE 10
            IN  Radio(f, "Fast (30/sec)", Has(f, "auto_repeat") /\ f.at.auto_repeat_rate = rate,
                      Given(Turned(f, "auto_repeat", TRUE), "auto_repeat_rate", rate))]
         \o <<Radio(f, "Off", ~Has(f, "auto_repeat"), Turned(f, "auto_repeat", FALSE))>>

\* Transmit rate None lifts the limit and keeps the rate; a concealed message
\* stays so until another is entered.
LineItems(f, menu, model) ==
  CASE menu = "Communication" ->
         <<Unavailable(f, "Port select..."), Sub(f, "Word size", "WordSize"), Sub(f, "Parity", "Parity"),
           Sub(f, "Stop bits", "StopBits"), Sub(f, "Transmit speed", "TransmitSpeed"),
           Sub(f, "Receive speed", "ReceiveSpeed"), Sub(f, "Transmit flow control", "TransmitFlow"),
           Sub(f, "Receive flow control", "ReceiveFlow"), Sub(f, "Flow control threshold", "Threshold"),
           Sub(f, "Transmit rate limit", "TransmitRate"), Sub(f, "Fkey rate limit", "FkeyRate"),
           Box(f, "Ignore Null character", "ignore_null"), Box(f, "Local echo", "local_echo"),
           Box(f, "Half duplex", "half_duplex"), Box(f, "Auto answerback", "auto_answerback"),
           Act(f, "Answerback message...", "Answerback"),
           Check(f, "Answerback concealed", Has(f, "conceal_answerback"), Turned(f, "conceal_answerback", TRUE))>>
    [] menu = "WordSize" -> Either(f, "seven_bit_data", "8 bits", "7 bits")
    [] menu = "Parity"   -> Buttons(f, "parity", Labelled(Parities, "Even, unchecked"))
    [] menu = "StopBits" -> Either(f, "two_stop_bits", "1 bit", "2 bits")
    [] menu = "TransmitSpeed" -> SpeedButtons(f, model, "transmit_speed", <<>>)
    [] menu = "ReceiveSpeed"  -> SpeedButtons(f, model, "receive_speed", <<<<"Transmit speed", 0>>>>)
    [] menu = "TransmitFlow" ->
         Buttons(f, "transmit_flow", <<<<"None", 0>>, <<"XON/XOFF", 1>>, <<"DSR", 2>>, <<"Both", 3>>>>)
    [] menu = "ReceiveFlow" ->
         Buttons(f, "receive_flow", <<<<"None", 0>>, <<"XON/XOFF or XPC", 1>>, <<"DTR", 2>>, <<"Both", 3>>>>)
    [] menu = "Threshold" -> Either(f, "flow_threshold_high", "Low (64)", "High (768)")
    [] menu = "TransmitRate" ->
         <<Radio(f, "None", ~Has(f, "limited_transmit"), Turned(f, "limited_transmit", FALSE))>>
         \o [r \in 1 .. 3 |->
               Radio(f, "150 cps", Has(f, "limited_transmit") /\ f.at.transmit_rate = r,
                     Given(Turned(f, "limited_transmit", TRUE), "transmit_rate", r))]
    [] menu = "FkeyRate" ->
         Buttons(f, "fkey_rate", <<<<"None", 0>>, <<"150 cps", 1>>, <<" 50 cps", 2>>, <<" 30 cps", 3>>>>)

\* What a modem's line does is chosen under modem control only. Of the printer
\* the three that act on print jobs can be.
PortItems(f, menu, model) ==
  CASE menu = "Modem" ->
         LET under(item) == When(item, Has(f, "modem_control"))
         IN  <<Box(f, "Enable modem control", "modem_control"), under(Sub(f, "Disconnect delay", "Disconnect")),
               under(Sub(f, "Modem high speed", "ModemHigh")), under(Sub(f, "Modem low speed", "ModemLow"))>>
    [] menu = "Disconnect" ->
         Buttons(f, "disconnect", <<<<"2 seconds", 0>>, <<"60 ms", 1>>, <<"No disconnect", 2>>>>)
    [] menu = "ModemHigh" -> SpeedButtons(f, model, "modem_high_speed", <<<<"Ignore", 0>>>>)
    [] menu = "ModemLow"  -> SpeedButtons(f, model, "modem_low_speed", <<<<"Ignore", 0>>>>)
    [] menu = "Printer" ->
         <<Unavailable(f, "Port select..."), Sub(f, "Print mode", "PrintMode"), Unavailable(f, "Printer type"),
           Unavailable(f, "DEC/ISO char sets"), Unavailable(f, "PC character sets"),
           Sub(f, "Print extent", "PrintExtent"), Sub(f, "Print terminator", "PrintTerminator"), Separator(f)>>
         \o [i \in 1 .. 7 |-> Unavailable(f, "Transmit flow control")]
    [] menu = "PrintMode" ->
         Buttons(f, "print_mode", <<<<"Normal", "normal">>, <<"Autoprint", "auto">>, <<"Controller", "controller">>>>)
    [] menu = "PrintExtent"     -> Backwards(Either(f, "print_full_page", "Scroll region", "Full page"))
    [] menu = "PrintTerminator" -> Either(f, "print_form_feed", "None", "FF")
    [] menu = "Language" ->
         [i \in 1 .. 5 |-> When(Radio(f, "English", i = 1, f), i = 1)]

Items(menu, f, model, session) ==
  CASE menu = "Main" -> MainItems(f)
    [] menu = "Actions" -> ActionItems(f)
    [] menu = "Display" -> DisplayItems(f, model)
    [] menu \in {"Session", "SelectSession", "UpdateSession"} -> SessionItems(f, menu, session)
    [] menu \in {"LinesPerScreen", "LinesPerPage", "Columns"} -> SizeItems(f, menu, model)
    [] menu \in {"Status", "Scrolling", "Background", "CursorDisplay", "CursorCoupling",
                 "WritingDirection", "Zero", "CrtSaver", "EnergySaver", "Color"} -> ScreenItems(f, menu)
    [] menu \in {"TerminalType", "Emulation", "TerminalId", "CharacterSet", "AsciiEmulation"} ->
         TypeItems(f, menu, model)
    [] menu \in {"Keyboard", "VtLanguage", "CapsLock", "Keyclick", "WarningBell", "MarginBell",
                 "Encoding", "AutoRepeat"} -> KeyboardItems(f, menu)
    [] menu \in {"Communication", "WordSize", "Parity", "StopBits", "TransmitSpeed", "ReceiveSpeed",
                 "TransmitFlow", "ReceiveFlow", "Threshold", "TransmitRate", "FkeyRate"} ->
         LineItems(f, menu, model)
    [] OTHER -> PortItems(f, menu, model)

-----------------------------------------------------------------------------
\* The open menus and their dialog. A key is a tuple of its name and, typed text,
\* the characters.

NoDialog == [kind |-> "none", text |-> <<>>, tabs |-> [len |-> 0, at |-> {}], col |-> 0, focus |-> 0]
MenusOpened(model, features) ==
  [model |-> model, features |-> features, session |-> 1, path |-> <<[menu |-> "Main", at |-> 1]>>,
   dialog |-> NoDialog, message |-> "", clear |-> FALSE, aligning |-> FALSE]

ItemsOf(m, menu) == Items(menu, m.features, m.model, m.session)
Redraw(m) == [set |-> m, outcome |-> "redraw"]
FirstOf(indices) == CHOOSE i \in indices : \A j \in indices : i <= j

StepFromOnce(items, at, forward) ==
  IF forward THEN (at % Len(items)) + 1 ELSE ((at + Len(items) - 2) % Len(items)) + 1

\* The next item that can be chosen, or the one before, going round (step).
StepFrom(items, at, forward) ==
  LET n == Len(items)
      place(k) == IF forward THEN ((at - 1 + k) % n) + 1 ELSE ((at - 1 + n - k) % n) + 1
      found == {k \in 1 .. n : Selectable(items[place(k)])}
  IN  IF found = {} THEN at ELSE place(FirstOf(found))

\* A menu opens on the setting that is on, or the first item that can be chosen.
OpenMenu(m, menu) ==
  LET items == ItemsOf(m, menu)
      choices == {i \in DOMAIN items : Selectable(items[i])}
      on == {i \in choices : items[i].kind = "radio" /\ items[i].on}
  IN  IF choices = {} THEN [m EXCEPT !.message = "Not available"]
      ELSE [m EXCEPT !.path = Append(@, [menu |-> menu, at |-> FirstOf(IF on # {} THEN on ELSE choices)])]

\* A choice closes its menu, unless check boxes share it.
Chosen(m, features) ==
  LET n == [m EXCEPT !.features = features]
      items == ItemsOf(n, Last(n.path).menu)
  IN  IF Len(n.path) > 1 /\ \A i \in DOMAIN items : items[i].kind # "check"
      THEN [n EXCEPT !.path = Front(@)] ELSE n

Activate(m, item) ==
  LET f == m.features
      done(command) ==
        CASE command = "ClearDisplay" -> Redraw([m EXCEPT !.clear = TRUE, !.message = "Done"])
          [] command = "Align" -> Redraw([m EXCEPT !.aligning = TRUE])
          [] command = "Answerback" ->
               Redraw([m EXCEPT !.dialog = [NoDialog EXCEPT !.kind = "answerback",
                         !.text = IF Has(f, "conceal_answerback") THEN <<>> ELSE f.answerback]])
          [] command = "Tabs" ->
               Redraw([m EXCEPT !.dialog = [NoDialog EXCEPT !.kind = "tabs",
                         !.tabs = WithColumns(f.tabs, ColumnsOf(f), {})]])
          [] command = "Exit" -> [set |-> m, outcome |-> "exit"]
          [] OTHER -> [set |-> m, outcome |-> command]
  IN  CASE ~item.enabled -> Redraw(m)
        [] item.enabled /\ item.kind = "sub" -> Redraw(OpenMenu(m, item.to))
        [] item.enabled /\ item.kind = "check" -> Redraw([m EXCEPT !.features = item.gives])
        [] item.enabled /\ item.kind = "radio" -> Redraw(Chosen(m, item.gives))
        [] item.enabled /\ item.kind = "do" -> done(item.to)

MessageMax == 30
Pushed(text, more) == SubSeq(text \o more, 1, Shorter(MessageMax, Len(text) + Len(more)))

\* The dialog of the answerback message: focus 0 the message, 1 OK, 2 Cancel.
AnswerbackInput(m, input) ==
  LET d == m.dialog
      key == input[1]
      shut == [m EXCEPT !.dialog = NoDialog]
      accepted == [shut EXCEPT !.features = [Turned(@, "conceal_answerback", FALSE) EXCEPT !.answerback = d.text]]
      typed(more) == [m EXCEPT !.dialog.text = Pushed(@, more)]
      focused(n) == [m EXCEPT !.dialog.focus = n]
  IN  CASE key = "SetUp" -> [set |-> accepted, outcome |-> "exit"]
        [] key = "Enter" /\ d.focus = 1 -> Redraw(accepted)
        [] key = "Enter" /\ d.focus = 2 -> Redraw(shut)
        [] key = "Enter" /\ d.focus = 0 -> Redraw(typed(<<"CR">>))
        [] key = "Tab" /\ d.focus = 0 -> Redraw(typed(<<"HT">>))
        [] key = "Text" -> Redraw(IF d.focus = 0 THEN typed(input[2]) ELSE m)
        [] key = "Backspace" ->
             Redraw(IF d.focus = 0 /\ d.text # <<>> THEN [m EXCEPT !.dialog.text = Front(@)] ELSE m)
        [] key = "Down" -> Redraw(IF d.focus = 0 THEN focused(1) ELSE m)
        [] key = "Up" -> Redraw(focused(0))
        [] key = "Left" -> Redraw(IF d.focus = 2 THEN focused(1) ELSE m)
        [] key = "Right" -> Redraw(IF d.focus = 1 THEN focused(2) ELSE m)
        [] key = "Tab" /\ d.focus # 0 -> Redraw(focused(IF d.focus = 1 THEN 2 ELSE 0))

\* That of the tab stops, in two rows: focus 0 the ruler, then OK, Cancel, Set 8
\* column tabs and Clear all tabs. There is no tab stop in the first column.
TabsInput(m, input) ==
  LET d == m.dialog
      key == input[1]
      cols == d.tabs.len
      row == cols \div 2
      shut == [m EXCEPT !.dialog = NoDialog]
      accepted == [shut EXCEPT !.features.tabs = d.tabs]
      focused(n) == [m EXCEPT !.dialog.focus = n]
      atCol(c) == [m EXCEPT !.dialog.col = c]
      ruled(at) == [m EXCEPT !.dialog.tabs.at = at]
      flipped == IF d.col = 0 THEN d.tabs.at
                 ELSE IF d.col \in d.tabs.at THEN d.tabs.at \ {d.col} ELSE d.tabs.at \cup {d.col}
  IN  CASE key = "SetUp" -> [set |-> accepted, outcome |-> "exit"]
        [] key = "Enter" -> Redraw(CASE d.focus = 0 -> ruled(flipped)
                                     [] d.focus = 1 -> accepted
                                     [] d.focus = 2 -> shut
                                     [] d.focus = 3 -> ruled(EveryEighth(cols).at)
                                     [] d.focus = 4 -> ruled({}))
        [] key = "Tab" -> Redraw(focused((d.focus + 1) % 5))
        [] key \in {"Text", "Backspace"} -> Redraw(m)
        [] d.focus = 0 /\ key = "Left" -> Redraw(atCol((d.col + cols - 1) % cols))
        [] d.focus = 0 /\ key = "Right" -> Redraw(atCol((d.col + 1) % cols))
        [] d.focus = 0 /\ key = "Down" -> Redraw(IF d.col + row < cols THEN atCol(d.col + row) ELSE focused(1))
        [] d.focus = 0 /\ key = "Up" -> Redraw(atCol(IF d.col >= row THEN d.col - row ELSE 0))
        [] d.focus # 0 /\ key = "Up" -> Redraw(focused(0))
        [] d.focus # 0 /\ key = "Left" -> Redraw(focused(Longer(d.focus - 1, 1)))
        [] d.focus # 0 /\ key = "Right" -> Redraw(focused(Shorter(d.focus + 1, 4)))
        [] d.focus # 0 /\ key = "Down" -> Redraw(m)

\* A key. Every one clears the message, and the first ends a screen alignment.
\* Right opens a menu even from an item that is dimmed.
MenusInput(before, input) ==
  LET m == [before EXCEPT !.message = ""]
      at == Last(m.path).at
      items == ItemsOf(m, Last(m.path).menu)
      key == input[1]
      moved(to) == [m EXCEPT !.path[Len(m.path)].at = to]
  IN  CASE m.aligning -> Redraw([m EXCEPT !.aligning = FALSE])
        [] ~m.aligning /\ m.dialog.kind = "answerback" -> AnswerbackInput(m, input)
        [] ~m.aligning /\ m.dialog.kind = "tabs" -> TabsInput(m, input)
        [] ~m.aligning /\ m.dialog.kind = "none" ->
             CASE key = "SetUp" -> [set |-> m, outcome |-> "exit"]
               [] key = "Up" -> Redraw(moved(StepFrom(items, at, FALSE)))
               [] key \in {"Down", "Tab"} -> Redraw(moved(StepFrom(items, at, TRUE)))
               [] key = "Left" -> Redraw(IF Len(m.path) > 1 THEN [m EXCEPT !.path = Front(@)] ELSE m)
               [] key = "Right" -> Redraw(IF items[at].kind = "sub" THEN OpenMenu(m, items[at].to) ELSE m)
               [] key = "Enter" -> Activate(m, items[at])
               [] key \in {"Backspace", "Text"} -> Redraw(m)

-----------------------------------------------------------------------------
\* Where the boxes are drawn: columns and lines from 1, and the width inside.

Bottom == 24
BoxWidth(items) == Max({Len(items[i].label) : i \in DOMAIN items}) + 4

\* The open menus, then a preview of the one under the cursor. Each is level with
\* the item that opened it, or moved up to fit (layout).
Layout(m) ==
  LET deepest == Last(m.path)
      item == ItemsOf(m, deepest.menu)[deepest.at]
      preview == IF m.dialog.kind = "none" /\ item.kind = "sub" /\ item.enabled
                 THEN <<[menu |-> item.to, at |-> 1]>> ELSE <<>>
      box(boxes, shown) ==
        LET items == ItemsOf(m, shown.menu)
            inner == BoxWidth(items)
            p == Last(boxes)
        IN  [at |-> shown.at, inner |-> inner, lines |-> Len(items),
             top |-> IF boxes = <<>> THEN 2
                     ELSE Longer(2, Shorter(p.top + p.at - 1, Bottom - Len(items) - 1)),
             left |-> IF boxes = <<>> THEN 1
                      ELSE Shorter(p.left + p.inner + 1, ColumnsOf(m.features) - inner - 1)]
  IN  FoldLeft(LAMBDA boxes, shown : Append(boxes, box(boxes, shown)), <<>>, m.path \o preview)

\* The box of a dialog, where b is that of the item that opened it
\* (draw_answerback, draw_tabs).
DialogBox(m, b) ==
  LET inner == IF m.dialog.kind = "tabs" THEN ColumnsOf(m.features) - 2 ELSE 31
      lines == IF m.dialog.kind = "tabs" THEN 12 ELSE 7
  IN  [inner |-> inner, lines |-> lines,
       top |-> IF m.dialog.kind = "tabs" THEN Bottom - lines - 1
               ELSE Shorter(b.top + b.at + 2, Bottom) - lines - 1,
       left |-> IF m.dialog.kind = "tabs" THEN 1
                ELSE Shorter(b.left + b.inner + 1, ColumnsOf(m.features) - inner - 1)]
============================================================================
