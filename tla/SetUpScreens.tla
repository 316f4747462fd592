---------------------------- MODULE SetUpScreens ----------------------------
(***************************************************************************)
(* The Set-Up screens of the VT100 to VT420: a directory and seven screens *)
(* of fields in rows, over which a field cursor moves and whose settings   *)
(* Enter steps through (crates/vt-core/src/setup/screens.rs).  `s` is the  *)
(* Screens of the code; rows and columns of fields count from 1.           *)
(***************************************************************************)
EXTENDS SetUpFeatures

\* From a screen To Next Set-Up goes to (Screen::next).
NextScreen ==
  [Directory |-> "Global", Global |-> "Display", Display |-> "General", General |-> "Communications",
   Communications |-> "Printer", Printer |-> "Keyboard", Keyboard |-> "Tab", Tab |-> "Global"]

Actions == {"ClearComm", "ResetSession", "Recall", "Save", "Default"}

\* The fields of each screen (rows).
WithNav(fields) == <<"NextSetUp", "ToDirectory">> \o fields
FieldRows ==
  [Directory |->
     <<<<"Global", "Display", "General", "Communications", "Printer", "Keyboard", "Tab">>,
       <<"ClearDisplay", "ClearComm", "ResetSession", "Recall", "Save">>,
       <<"Language", "Dialect", "Default">>,
       <<"EnableSessions", "DisableSessions", "Exit", "ScreenAlign">>>>,
   Global |->
     <<WithNav(<<>>), <<"on_line", "two_sessions", "crt_saver">>,
       <<"comm1_dec423", "refresh_60hz", "printer_session">>>>,
   Display |->
     <<WithNav(<<"columns_132", "display_controls">>), <<"autowrap", "scroll", "light_screen">>,
       <<"cursor", "block", "status">>, <<"blinks", "page_length", "screen_lines">>,
       <<"vertical_coupling", "page_coupling", "auto_resize">>>>,
   General |->
     <<WithNav(<<"terminal_mode">>), <<"udk_locked", "user_features_locked", "national">>,
       <<"keypad_application", "cursor_keys_application", "new_line">>,
       <<"upss", "terminal_id">>, <<"update">>>>,
   Communications |->
     <<WithNav(<<"transmit_speed", "receive_speed">>),
       <<"xoff", "DataFormat", "two_stop_bits", "local_echo">>,
       <<"modem_control", "disconnect", "limited_transmit">>,
       <<"auto_answerback", "Answerback", "conceal_answerback">>, <<"ModemHigh", "ModemLow">>>>,
   Printer |->
     <<WithNav(<<"print_mode">>), <<"print_full_page", "print_form_feed">>>>,
   Keyboard |->
     <<WithNav(<<"data_processing_keys", "shift_lock">>),
       <<"auto_repeat", "keyclick", "margin_bell", "warning_bell">>,
       <<"position_mode", "backarrow_bs", "compose", "report_alt">>,
       <<"F1", "F2", "F3", "F4", "break_key">>,
       <<"comma_period_same", "angle_sends_tilde", "tilde_sends_escape">>>>,
   Tab |-> <<WithNav(<<"ClearTabs">>), <<"SetTabs8">>, <<"Ruler">>>>]

\* The widest text of each field (label), for all of its settings.
WidestShown ==
  [Global |-> 6, Display |-> 7, General |-> 7, Communications |-> 4, Printer |-> 7, Keyboard |-> 8,
   Tab |-> 3, NextSetUp |-> 14, ToDirectory |-> 12, ClearDisplay |-> 13, ClearComm |-> 10,
   ResetSession |-> 13, Recall |-> 6, Save |-> 4, Default |-> 7, Language |-> 14, Dialect |-> 26,
   EnableSessions |-> 15, DisableSessions |-> 16, Exit |-> 4, ScreenAlign |-> 12,
   on_line |-> 7, two_sessions |-> 17, crt_saver |-> 12, comm1_dec423 |-> 13, refresh_60hz |-> 5,
   printer_session |-> 17, print_mode |-> 17, print_full_page |-> 19, print_form_feed |-> 15,
   columns_132 |-> 11, display_controls |-> 18, autowrap |-> 12, scroll |-> 15, light_screen |-> 12,
   cursor |-> 9, block |-> 22, status |-> 28, blinks |-> 13, page_length |-> 11, screen_lines |-> 15,
   vertical_coupling |-> 20, page_coupling |-> 16, auto_resize |-> 21, terminal_mode |-> 26,
   udk_locked |-> 26, user_features_locked |-> 22, national |-> 21, keypad_application |-> 18,
   cursor_keys_application |-> 23, new_line |-> 11, upss |-> 21, terminal_id |-> 8, update |-> 21]

WidestText ==
  WidestShown @@
  [transmit_speed |-> 14, receive_speed |-> 16, xoff |-> 11, DataFormat |-> 19, two_stop_bits |-> 11,
   local_echo |-> 13, modem_control |-> 15, disconnect |-> 23, limited_transmit |-> 18,
   auto_answerback |-> 18, Answerback |-> 11, conceal_answerback |-> 13, ModemHigh |-> 25,
   ModemLow |-> 24, data_processing_keys |-> 20, shift_lock |-> 10, auto_repeat |-> 14,
   keyclick |-> 13, margin_bell |-> 16, warning_bell |-> 17, position_mode |-> 14,
   backarrow_bs |-> 13, compose |-> 14, report_alt |-> 10, F1 |-> 11, F2 |-> 11, F3 |-> 11,
   F4 |-> 12, break_key |-> 13, comma_period_same |-> 14, angle_sends_tilde |-> 15,
   tilde_sends_escape |-> 16, ClearTabs |-> 14, SetTabs8 |-> 17, Ruler |-> 0]

-----------------------------------------------------------------------------
\* The settings of a field, and the next of them.

\* Flags that Enter turns over, and what else it steps through (cycle).
SimpleFlags ==
  {"on_line", "two_sessions", "crt_saver", "comm1_dec423", "refresh_60hz", "print_full_page",
   "print_form_feed", "display_controls", "autowrap", "light_screen", "cursor", "block", "blinks",
   "user_features_locked", "keypad_application", "cursor_keys_application", "new_line",
   "two_stop_bits", "local_echo", "modem_control", "limited_transmit", "auto_answerback",
   "data_processing_keys", "shift_lock", "auto_repeat", "position_mode", "backarrow_bs",
   "report_alt", "comma_period_same", "angle_sends_tilde", "tilde_sends_escape"}

AutoLines(length) == IF length <= 25 THEN 24 ELSE IF length <= 36 THEN 36 ELSE 48

Settings(field, model) ==
  CASE field = "printer_session" -> <<0, 1, 2>>
    [] field = "print_mode" -> <<"normal", "auto", "controller">>
    [] field = "scroll" -> <<"smooth 2", "smooth 4", "jump">>
    [] field = "status" -> <<"none", "indicator", "host">>
    [] field = "page_length" -> PageLengths(model)
    [] field = "screen_lines" -> ScreenLineChoices
    [] field = "terminal_mode" -> TerminalModes(model)
    [] field = "upss" -> <<"dec", "latin1">>
    [] field = "terminal_id" -> TerminalIds(model)
    [] field = "update" -> <<2, 3, 1>>
    [] field = "transmit_speed" -> SpeedsOf(model)
    [] field = "receive_speed" -> <<0>> \o SpeedsOf(model)
    [] field = "xoff" -> <<64, 128, 0>>
    [] field = "disconnect" -> <<0, 1, 2>>
    [] field \in {"keyclick", "warning_bell"} -> <<"high", "low", "off">>
    [] field = "margin_bell" -> <<"off", "high", "low">>
    [] field = "compose" -> <<"local", "report", "ignore">>
    [] field = "break_key" -> <<"break", "no-break", "fkey", "ignore">>
    [] OTHER -> <<>>

\* The setting after this one; from one that is not among them the second
\* (next_of).
After(options, current) ==
  LET at == IF current \in ToSet(options) THEN CHOOSE i \in DOMAIN options : options[i] = current ELSE 1
  IN  options[(at % Len(options)) + 1]

\* The level of the model a field needs, and what else it does.
LevelNeeded(field) ==
  CASE field \in {"page_length", "screen_lines", "vertical_coupling", "page_coupling", "auto_resize",
                  "terminal_id"} -> 4
    [] field \in {"status", "upss"} -> 3
    [] field \in {"udk_locked", "national"} -> 2
    [] OTHER -> 1

LocalKeys == [F1 |-> 0, F2 |-> 1, F3 |-> 2, F4 |-> 3]

HasSettings(field, f, model) ==
  /\ Level[model] >= LevelNeeded(field)
  /\ field = "national" => f.at.keyboard_language # 0
  /\ field = "conceal_answerback" => ~Has(f, "conceal_answerback")
  /\ \/ field \in SimpleFlags \cup DOMAIN LocalKeys
     \/ field \in {"Dialect", "columns_132", "vertical_coupling", "page_coupling", "auto_resize",
                   "udk_locked", "national", "DataFormat", "conceal_answerback"}
     \/ Settings(field, model) # <<>>

Stepped(field, f, model) ==
  CASE field = "Dialect" ->
         LET language == (f.at.keyboard_language + 1) % 13
         IN  [f EXCEPT !.at.keyboard_language = language,
                       !.on = IF language = 0 THEN @ \ {"national"} ELSE @]
    [] field = "columns_132" ->
         LET g == Toggled(f, "columns_132")
         IN  [g EXCEPT !.tabs = WithColumns(@, ColumnsOf(g), EveryEighth(132).at)]
    [] field = "page_length" ->
         LET length == After(PageLengths(model), f.at.page_length)
         IN  [f EXCEPT !.at.page_length = length,
                       !.at.screen_lines = IF Has(f, "auto_resize") THEN AutoLines(length) ELSE @]
    [] field = "DataFormat" ->
         LET now == <<Has(f, "seven_bit_data"), f.at.parity>>
             to == IF now \in ToSet(DataFormats) THEN After(DataFormats, now) ELSE DataFormats[1]
         IN  Given(Turned(f, "seven_bit_data", to[1]), "parity", to[2])
    [] field \in DOMAIN LocalKeys ->
         [f EXCEPT !.keys[LocalKeys[field]] = After(<<"local", "host", "disabled">>, @)]
    [] field = "conceal_answerback" -> Turned(f, "conceal_answerback", TRUE)
    [] field \in SimpleFlags \cup {"vertical_coupling", "page_coupling", "auto_resize", "udk_locked", "national"} ->
         Toggled(f, field)
    [] OTHER -> Given(f, field, After(Settings(field, model), f.at[field]))

\* Fields keep their places as their settings change: the widest text counts,
\* of a field that cannot be stepped the one it shows (width).
Width(field, f, model) ==
  CASE field = "status" /\ ~HasStatusLine(model) -> 17
    [] field = "page_length" /\ Level[model] < 4 -> 10
    [] field = "vertical_coupling" /\ Level[model] < 4 -> 17
    [] field = "page_coupling" /\ Level[model] < 4 -> 13
    [] field = "udk_locked" /\ Level[model] < 2 /\ Has(f, "udk_locked") -> 24
    [] field = "national" /\ ~HasSettings(field, f, model) /\ ~Has(f, "national") -> 16
    [] field = "conceal_answerback" /\ Has(f, "conceal_answerback") -> 9
    [] OTHER -> WidestText[field]

-----------------------------------------------------------------------------
\* The screens and their cursor.

FirstTab == 8
ScreensOpened(model, features) ==
  [model |-> model, features |-> features, screen |-> "Directory", row |-> 1, col |-> 1,
   tabCol |-> FirstTab, entering |-> FALSE, entry |-> <<>>, message |-> "", clear |-> FALSE,
   aligning |-> FALSE]

FieldsOf(s) == FieldRows[s.screen]
Current(s) == FieldsOf(s)[s.row][s.col]
Go(s, screen) == [s EXCEPT !.screen = screen, !.row = 1, !.col = 1]
Shows(s) == [set |-> s, outcome |-> "redraw"]

\* The columns of the page where the fields of a row begin (positions).
Positions(s, row) ==
  [c \in 1 .. Len(row) |->
     FoldLeft(LAMBDA x, i : x + Width(row[i], s.features, s.model) + 3, 2, [i \in 1 .. c - 1 |-> i])]

Apart(a, b) == IF a > b THEN a - b ELSE b - a
\* Up and down the cursor stays over the same part of the screen: the first field
\* of the nearest that begin there.
OverTo(s, row) ==
  LET x == Positions(s, FieldsOf(s)[s.row])[s.col]
      there == Positions(s, FieldsOf(s)[row])
      nearest == {c \in DOMAIN there : \A d \in DOMAIN there : Apart(there[c], x) <= Apart(there[d], x)}
  IN  [s EXCEPT !.row = row, !.col = CHOOSE c \in nearest : \A d \in nearest : c <= d]

EntryMax == 30
Entered(text, more) ==
  LET all == text \o more IN IF Len(all) > EntryMax THEN SubSeq(all, 1, EntryMax) ELSE all

\* An answerback message is typed over the screen; Set-Up cancels it.
EntryInput(s, input) ==
  LET typed(more) == [s EXCEPT !.entry = Entered(@, more)]
      shut == [s EXCEPT !.entering = FALSE, !.entry = <<>>]
  IN  CASE input[1] = "Enter" ->
             [shut EXCEPT !.features = [Turned(@, "conceal_answerback", FALSE) EXCEPT !.answerback = s.entry]]
        [] input[1] = "SetUp" -> shut
        [] input[1] = "Backspace" -> IF s.entry = <<>> THEN s ELSE [s EXCEPT !.entry = Front(@)]
        [] input[1] = "Text" -> typed(input[2])
        [] input[1] = "Tab" -> typed(<<"HT">>)
        [] OTHER -> s

ActivateField(s, field) ==
  LET f == s.features
      flipped == IF s.tabCol = 0 \/ s.tabCol >= f.tabs.len THEN f.tabs.at
                 ELSE IF s.tabCol \in f.tabs.at THEN f.tabs.at \ {s.tabCol} ELSE f.tabs.at \cup {s.tabCol}
  IN  CASE field \in DOMAIN NextScreen -> Shows(Go(s, field))
        [] field = "NextSetUp" -> Shows(Go(s, NextScreen[s.screen]))
        [] field = "ToDirectory" -> Shows(Go(s, "Directory"))
        [] field \in Actions -> [set |-> s, outcome |-> field]
        [] field = "Exit" -> [set |-> s, outcome |-> "exit"]
        [] field = "ClearDisplay" -> Shows([s EXCEPT !.clear = TRUE, !.message = "Done"])
        [] field = "ScreenAlign" -> Shows([s EXCEPT !.aligning = TRUE])
        [] field \in {"EnableSessions", "DisableSessions"} ->
             Shows([s EXCEPT !.message = "Sessions not selected"])
        [] field = "Answerback" -> Shows([s EXCEPT !.entering = TRUE])
        [] field = "ClearTabs" -> Shows([s EXCEPT !.features.tabs.at = {}])
        [] field = "SetTabs8" -> Shows([s EXCEPT !.features.tabs = EveryEighth(ColumnsOf(f))])
        [] field = "Ruler" -> Shows([s EXCEPT !.features.tabs.at = flipped])
        [] OTHER -> Shows(IF HasSettings(field, f, s.model)
                          THEN [s EXCEPT !.features = Stepped(field, @, s.model)]
                          ELSE [s EXCEPT !.message = "Not available"])

\* On the ruler left and right go round the columns, Tab to the next stop.
RulerInput(s, key) ==
  LET cols == ColumnsOf(s.features)
      stops == {c \in s.features.tabs.at : c > s.tabCol /\ c < cols}
  IN  [s EXCEPT !.tabCol = CASE key = "Left" -> (@ + cols - 1) % cols
                             [] key = "Right" -> (@ + 1) % cols
                             [] key = "Tab" -> IF stops = {} THEN cols - 1
                                               ELSE CHOOSE c \in stops : \A d \in stops : c <= d]

\* A key. Every one clears the message, and the first ends a screen alignment.
ScreensInput(before, input) ==
  LET s == [before EXCEPT !.message = ""]
      key == input[1]
      rows == FieldsOf(s)
      width == Len(rows[s.row])
      tabbed == IF s.col < width THEN [s EXCEPT !.col = @ + 1]
                ELSE [s EXCEPT !.col = 1, !.row = (@ % Len(rows)) + 1]
  IN  CASE s.aligning -> Shows([s EXCEPT !.aligning = FALSE])
        [] ~s.aligning /\ s.entering -> Shows(EntryInput(s, input))
        [] ~s.aligning /\ ~s.entering ->
             CASE key = "SetUp" -> [set |-> s, outcome |-> "exit"]
               [] key = "Enter" -> ActivateField(s, Current(s))
               [] key \in {"Left", "Right", "Tab"} /\ Current(s) = "Ruler" -> Shows(RulerInput(s, key))
               [] key = "Left" /\ Current(s) # "Ruler" -> Shows([s EXCEPT !.col = IF @ > 1 THEN @ - 1 ELSE 1])
               [] key = "Right" /\ Current(s) # "Ruler" ->
                    Shows([s EXCEPT !.col = IF @ < width THEN @ + 1 ELSE width])
               [] key = "Tab" /\ Current(s) # "Ruler" -> Shows(tabbed)
               [] key = "Up" -> Shows(IF s.row > 1 THEN OverTo(s, s.row - 1) ELSE s)
               [] key = "Down" -> Shows(IF s.row < Len(rows) THEN OverTo(s, s.row + 1) ELSE s)
               [] key \in {"Backspace", "Text"} -> Shows(s)
============================================================================
