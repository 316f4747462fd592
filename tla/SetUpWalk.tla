----------------------------- MODULE SetUpWalk -----------------------------
(***************************************************************************)
(* A visit to the Set-Up of a model: the host selects a feature or none,   *)
(* Set-Up is opened on the features in force, keys walk its menus or       *)
(* screens, its actions go to the terminal and the file, and leaving it    *)
(* puts the features in force (crates/vt-core/src/setup, crates/vt-core/   *)
(* src/terminal, crates/veetee/src/view.rs).                               *)
(*                                                                         *)
(* Keys that only move are free; after the first that changes anything     *)
(* `left` more are given.  What else acts on the terminal meanwhile is     *)
(* SetUp's.                                                                *)
(***************************************************************************)
EXTENDS SetUpMenus, SetUpScreens

CONSTANTS
  Visited,   \* <<model, file>>: the models visited and the features filed for each
  Told,      \* what the host may have said: <<name, parameters>>
  Inputs,    \* the keys
  KeysAfter  \* how many follow the first that changes something

ASSUME WalkAssumption ==
  KeysAfter \in Nat /\ \A v \in Visited : v[1] \in Models

VARIABLE walk
\* The terminal's registers and its saved features (or NotKept), the Set-Up that
\* is open (or NotOpen), the keys left, whether something has changed, and
\* whether the host has said something.

Asleep == [awake |-> FALSE]
NotKept == [kept |-> FALSE]
NotOpen == [open |-> FALSE]
Opened(w) == w.set # NotOpen
Awake == walk # Asleep

-----------------------------------------------------------------------------
\* What the host may have said: a selection of the VT500's, or a mode set or reset.

ModeLevel ==
  [cursor_keys_application |-> 1, smooth |-> 1, light_screen |-> 1, autowrap |-> 1, auto_repeat |-> 1,
   print_form_feed |-> 1, print_full_page |-> 1, cursor |-> 2, national |-> 3,
   keypad_application |-> 3, backarrow_bs |-> 3, vertical_coupling |-> 4, page_coupling |-> 4,
   data_processing_keys |-> 4, limited_transmit |-> 5, position_mode |-> 5,
   no_clear_on_column_change |-> 5, crt_saver |-> 5, modem_control |-> 5, auto_answerback |-> 5,
   conceal_answerback |-> 5, ignore_null |-> 5, half_duplex |-> 5, overscan |-> 5,
   framed_windows |-> 5, host_wake_up |-> 5]

SetMode(t, mode, on) ==
  LET wide == Turned(t, "columns_132", on)
  IN  CASE mode = "DECCOLM" -> [wide EXCEPT !.tabs = WithColumns(@, ColumnsOf(wide), EveryEighth(132).at)]
        [] mode = "DECANM"  -> IF on THEN t ELSE [t EXCEPT !.ansi = FALSE]
        [] OTHER            -> IF t.level >= ModeLevel[mode] THEN Turned(t, mode, on) ELSE t

Obeyed(t, name, p) ==
  IF name \in DOMAIN ModeLevel \cup {"DECCOLM", "DECANM"} THEN SetMode(t, name, p[1] = 1)
  ELSE IF t.level >= 5 THEN SelectedBy(t, name, p) ELSE t

-----------------------------------------------------------------------------
\* The terminal's part in Set-Up's actions.

\* On again (Emulator::new): the page's length is the configuration's, and so
\* are the message, the keyboard and the lock of the user's keys, the other
\* features the saved ones or the factory's.
Restarted(t, saved) ==
  LET new == [NewRegisters(t.model) EXCEPT
                !.answerback = t.answerback, !.keyboard = t.keyboard, !.pageLength = t.pageLength,
                !.screenLines = t.pageLength,
                !.on = IF Has(t, "udk_locked") THEN @ \cup {"udk_locked"} ELSE @]
  IN  IF saved = NotKept THEN new ELSE ApplyFeatures(new, saved)

\* The power-up setting of auto wrap is DECSTR's, too.
SoftlyReset(t, saved) ==
  [t EXCEPT !.on = (@ \ {"autowrap", "national", "keypad_application", "cursor_keys_application",
                         "position_mode"})
                   \cup {"cursor"} \cup (IF saved = NotKept \/ Has(saved, "autowrap") THEN {"autowrap"} ELSE {}),
            !.upss = IF saved = NotKept THEN "dec" ELSE saved.at.upss]

ByMenus(model) == Level[model] >= 5
SetUpOf(model, f) == IF ByMenus(model) THEN MenusOpened(model, f) ELSE ScreensOpened(model, f)
Pressed(model, set, key) ==
  IF ByMenus(model)
    THEN MenusInput(set, key)
    ELSE ScreensInput(set, key)

\* An action is done at once, and the features of Set-Up are those in force after
\* one that replaces them (setup_input).
Acted(w, set, action) ==
  LET with(t, f) == [w EXCEPT !.term = t, !.set = [set EXCEPT !.features = f, !.message = "Done"]]
      again == Restarted(w.term, w.saved)
      factory == NewRegisters(w.term.model)
      applied == ApplyFeatures(w.term, set.features)
  IN  CASE action = "ClearComm"    -> with(w.term, set.features)
        [] action = "ResetSession" -> with(SoftlyReset(w.term, w.saved), set.features)
        [] action = "Recall"       -> with(again, SetupFeatures(again))
        [] action = "Default"      -> [with(factory, SetupFeatures(factory)) EXCEPT !.saved = NotKept]
        [] action = "Save"         -> [with(applied, set.features) EXCEPT !.saved = SetupFeatures(applied)]

-----------------------------------------------------------------------------
\* The visit.

\* More than the place of the cursor, on the ruler that too.
Differs(model, a, b) ==
  \/ a.features # b.features \/ a.clear # b.clear
  \/ IF ByMenus(model)
       THEN a.dialog.kind = b.dialog.kind /\ (a.dialog.text # b.dialog.text \/ a.dialog.tabs # b.dialog.tabs)
       ELSE a.entry # b.entry \/ a.tabCol # b.tabCol

StartedWith(model, file) ==
  LET saved == IF file = NotKept THEN NotKept ELSE FromText(model, file)
      cols == [NewRegisters(model) EXCEPT !.tabs = IF saved = NotKept THEN @ ELSE EveryEighth(saved.tabs.len)]
  IN  [term |-> IF saved = NotKept THEN cols ELSE ApplyFeatures(cols, saved), saved |-> saved,
       set |-> NotOpen, left |-> KeysAfter, touched |-> FALSE, told |-> FALSE]

WalkInit == \E v \in Visited : walk = StartedWith(v[1], v[2])

HostSelects ==
  /\ Awake /\ ~Opened(walk) /\ ~walk.told /\ ~walk.touched
  /\ \E s \in Told : walk' = [walk EXCEPT !.term = Obeyed(@, s[1], s[2]), !.told = TRUE]

\* Set-Up is opened, once, on a copy of the features (open_setup).
Enter ==
  /\ Awake /\ ~Opened(walk) /\ ~walk.touched
  /\ walk' = [walk EXCEPT !.set = SetUpOf(walk.term.model, SetupFeatures(walk.term)),
                          !.left = IF walk.told THEN 0 ELSE @, !.touched = walk.told]

\* What a key does to Set-Up is `r`.
Key(r) ==
  LET touches == Differs(walk.term.model, walk.set, r.set) \/ r.outcome # "redraw"
      now == [walk EXCEPT !.touched = @ \/ touches, !.left = IF walk.touched THEN @ - 1 ELSE @]
  IN  /\ r.outcome # "exit"
      /\ walk.touched => walk.left > 0
      /\ walk' = IF r.outcome = "redraw" THEN [now EXCEPT !.set = r.set] ELSE Acted(now, r.set, r.outcome)

\* Set-Up is left: all of its features take effect (close_setup).
Exit(r) ==
  /\ r.outcome = "exit"
  /\ walk' = [walk EXCEPT !.term = ApplyFeatures(@, r.set.features), !.set = NotOpen, !.touched = TRUE]

Press ==
  /\ Awake /\ Opened(walk)
  /\ \E key \in Inputs : \E r \in {Pressed(walk.term.model, walk.set, key)} : Key(r) \/ Exit(r)

WalkNext == HostSelects \/ Enter \/ Press

-----------------------------------------------------------------------------
\* Where Set-Up is: in menus the cursor of each open menu is on an item that can
\* be chosen, each but the last on the one that opened the next, of the buttons
\* in an open menu exactly one is on, and the boxes are inside the page.
MenusSound(m) ==
  /\ \A i \in DOMAIN m.path :
       LET items == ItemsOf(m, m.path[i].menu)
           buttons == {j \in DOMAIN items : items[j].kind = "radio"}
       IN  /\ m.path[i].at \in DOMAIN items /\ Selectable(items[m.path[i].at])
           /\ i < Len(m.path) => /\ items[m.path[i].at].kind = "sub"
                                 /\ items[m.path[i].at].to = m.path[i + 1].menu
           /\ buttons # {} => Cardinality({j \in buttons : items[j].on}) = 1
  /\ \A open \in {Layout(m)} :
       LET boxes == ToSet(open) \cup (IF m.dialog.kind = "none" THEN {} ELSE {DialogBox(m, Last(open))})
       IN  \A b \in boxes : /\ b.top >= 2 /\ b.top + b.lines + 1 <= Bottom
                            /\ b.left >= 1 /\ b.left + b.inner + 1 <= ColumnsOf(m.features)

\* On the screens the field cursor is on a field, and all the fields of every row
\* fit in the narrow page they are drawn for.
ScreensSound(s) ==
  /\ s.row \in DOMAIN FieldsOf(s) /\ s.col \in DOMAIN FieldsOf(s)[s.row]
  /\ \A r \in DOMAIN FieldsOf(s) :
       LET row == FieldsOf(s)[r]
       IN  Last(Positions(s, row)) + Width(Last(row), s.features, s.model) - 1 <= 80

\* Wherever the keys have taken it and whatever they have changed, Set-Up's cursor
\* is at something that can be chosen and all of it is on the screen (step,
\* open, activate, layout, positions).
SetUpSound ==
  Awake /\ Opened(walk) =>
    IF ByMenus(walk.term.model) THEN MenusSound(walk.set) ELSE ScreensSound(walk.set)

\* National characters without a national keyboard, which a host can ask for,
\* are the one thing that Set-Up cannot put back.
PutBack(f) == IF f.at.keyboard_language = 0 THEN Turned(f, "national", FALSE) ELSE f

\* An energy saver of an hour can be chosen and is reported, but DECSEST does not
\* take it.
Selectable60(name, p) == name = "DECSEST" /\ p[1] = 60

\* Set-Up loses nothing: the features it shows come back the same from the
\* registers they are put in, from the file they are saved in, and from the
\* settings a host asks for and sends back, for every model and setting
\* (apply_features, setup_features, to_text, from_text, vt520_setting).
FeaturesKept ==
  Awake /\ Opened(walk) =>
    LET f == walk.set.features
        model == walk.term.model
        t == ApplyFeatures(walk.term, f)
    IN  /\ SetupFeatures(t) = PutBack(f)
        /\ FromText(model, ToText(PutBack(f))) = ToText(PutBack(f))
        /\ ByMenus(model) =>
             \A name \in Reports(model), r \in {t, walk.term} :
               LET p == Reported(r, name)
               IN  Selectable60(name, p) \/ Reported(SelectedBy(NewRegisters(model), name, p), name) = p
============================================================================
