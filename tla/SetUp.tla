-------------------------------- MODULE SetUp --------------------------------
(***************************************************************************)
(* Set-Up: the features of a session's terminal, the copy of them the user *)
(* changes in Set-Up's screens or menus, their saving, and the serial line *)
(* they describe (crates/vt-core/src/setup, crates/vt-core/src/terminal/   *)
(* setup.rs, crates/veetee/src/line.rs, view.rs and session.rs).           *)
(*                                                                         *)
(* Two threads.  The one of the user interface opens Set-Up on a copy of   *)
(* the features, which holds the session, and puts all of them back when   *)
(* it is left.  The session's I/O thread goes on with what it has read,    *)
(* watches the signals of a modem, and like the other thread sets the line *)
(* anew (set_line) when the features describe another.  The terminal's     *)
(* lock is held for one handler or step at a time, the lock on `line` for  *)
(* all of set_line, where the terminal's is not held while the port is     *)
(* asked.                                                                  *)
(*                                                                         *)
(* Of the hundred features those are kept that something else in the code  *)
(* also changes, looks at or limits.                                       *)
(***************************************************************************)
EXTENDS Integers, Sequences, FiniteSets, SequencesExt

CONSTANTS
  Narrow, Wide, \* the columns of a page, 80 and 132 in the code
  Unlisted,     \* speeds of a line that Set-Up has no name for
  Messages,     \* answerback messages
  Courses       \* what a behaviour has: the `style` of Set-Up, the features the user
                \* may `touch`, what else they may `choose`, what may arrive in one
                \* read (`reads`), the `line` the connection was given, the features
                \* that are `filed` for the session, whether the port `refuses`
                \* settings, whether the files can `fail`, whether the line has a
                \* `modem`, and as bounds how often Set-Up is opened (`visits`), how
                \* much is done in it (`keys`) and how often a signal changes

Listed == {"9600", "19200"}    \* speeds Set-Up has names for
TabStop == 2                   \* default tab stops are so many columns apart, 8 in the code

Columns(wide) == IF wide THEN Wide ELSE Narrow
DefaultStop(c) == c > 0 /\ c % TabStop = 0
DefaultTabs(cols) == [c \in 0 .. cols - 1 |-> DefaultStop(c)]

\* Set-Up's flow control: 0 none, 1 XON/XOFF, 2 DSR or DTR, 3 both.
Flows == 0 .. 3

\* The disconnect delay in ticks: 60 ms, two seconds, or 0 for never.
Delays == 0 .. 2

Factory ==
  [wide |-> FALSE, tabs |-> DefaultTabs(Narrow), keys |-> FALSE, dialect |-> FALSE,
   national |-> FALSE, message |-> "", concealed |-> FALSE, online |-> TRUE,
   speed |-> "9600", tflow |-> 1, rflow |-> 1, xoff |-> TRUE, modem |-> FALSE, delay |-> 2]

NotSaved == [Factory EXCEPT !.speed = "not saved"]
NoLine == [baud |-> "none", flow |-> "none"]
Shut == [features |-> NotSaved, dialog |-> "none", entry |-> "", ruler |-> DefaultTabs(Narrow)]

ASSUME SetUpAssumption ==
  /\ Narrow \in Nat \ {0} /\ Wide \in Nat /\ Wide > Narrow
  /\ \A c \in Courses : /\ c.style \in {"screens", "menus"}
                        /\ c.visits \in Nat /\ c.keys \in Nat /\ c.chunks \in Nat /\ c.signals \in Nat

VARIABLES
  course,    \* what this behaviour has
  term,      \* the terminal's features, in force and saved in memory
  file,      \* the features filed for the session, or NotSaved
  line,      \* the settings on the line and the line Set-Up last described
  setting,   \* the set_line under way: who holds the lock and what was asked of the port
  menu,      \* Set-Up's copy of the features and its dialog, or Shut
  wasHeld,   \* whether the session was on hold when Set-Up was opened
  held,      \* the session is on hold
  ui,        \* the user interface: "free", or leaving Set-Up: "setting", "letting go"
  io,        \* the I/O thread: "waiting" while held, "reading", "stepping" through
             \* what it read, "setting" the line, "pausing" at a scroll, or "ended"
  rest,      \* what it read and has not taken yet
  modem,     \* the signals, and what the ModemWatch has seen of them
  visit,     \* of the Set-Up open now: steps of the host taken, whether the I/O
             \* thread changed features (`ran`), and whether the user did (`changed`)
  away,      \* ticks since the carrier was last seen on, or the signals not watched
  spent      \* of the course's bounds

vars == <<course, term, file, line, setting, menu, wasHeld, held, ui, io, rest, modem, visit, away, spent>>

-----------------------------------------------------------------------------
\* The terminal's features.

\* What Set-Up shows: what is in force, and what was stored for the rest. Of
\* the flow control the host set only the last word is known, for one of the
\* two directions or both (setup_features).
FeaturesOf(t) ==
  [wide |-> t.wide, tabs |-> t.tabs, keys |-> t.keys, dialect |-> t.dialect,
   national |-> t.national, message |-> t.message, concealed |-> t.concealed,
   online |-> t.stored.online, speed |-> t.speed,
   tflow |-> IF t.sfc.way \in {1, 3} THEN t.sfc.kind ELSE t.stored.tflow,
   rflow |-> IF t.sfc.way \in {2, 3} THEN t.sfc.kind ELSE t.stored.rflow,
   xoff |-> t.stored.xoff, modem |-> t.modem, delay |-> t.stored.delay]

ResizeTabs(tabs, cols) ==
  [c \in 0 .. cols - 1 |-> IF c \in DOMAIN tabs THEN tabs[c] ELSE DefaultStop(c)]

SetColumns(t, wide) ==
  [t EXCEPT !.wide = wide, !.cols = Columns(wide), !.tabs = ResizeTabs(t.tabs, Columns(wide))]

\* A speed that has no code is shown, and from then on kept, as 9600.
SpeedShown(speed) == IF speed \in Unlisted THEN "9600" ELSE speed

ApplyForgetful(t, f) ==
  LET at == IF f.wide # t.wide THEN SetColumns(t, f.wide) ELSE t
  IN  [at EXCEPT !.dialect = f.dialect, !.national = f.national /\ f.dialect, !.keys = f.keys,
                 !.message = f.message, !.concealed = f.concealed, !.modem = f.modem,
                 !.speed = SpeedShown(f.speed),
                 !.sfc = [way |-> 3, kind |-> f.rflow],
                 !.tabs = [c \in 0 .. at.cols - 1 |->
                             c > 0 /\ IF c \in DOMAIN f.tabs THEN f.tabs[c] ELSE DefaultStop(c)],
                 !.stored = f]

\* All the features take effect (apply_features).
Apply(t, f) ==
  LET at == IF f.wide # t.wide THEN SetColumns(t, f.wide) ELSE t
  IN  [at EXCEPT !.dialect = f.dialect, !.national = f.national /\ f.dialect, !.keys = f.keys,
                 !.message = f.message, !.concealed = f.concealed, !.modem = f.modem,
                 !.speed = SpeedShown(f.speed),
                 !.sfc = [way |-> IF f.tflow = f.rflow THEN 3 ELSE 2, kind |-> f.rflow],
                 !.tabs = [c \in 0 .. at.cols - 1 |->
                             c > 0 /\ IF c \in DOMAIN f.tabs THEN f.tabs[c] ELSE DefaultStop(c)],
                 !.stored = f]

\* A terminal switched on with a page of so many columns (Emulator::new): the
\* answerback message and the keyboard are of its configuration, the other
\* features the factory's, unless features are saved.
PowerUp(cols, message, dialect, saved) ==
  LET new == [cols |-> cols, pageCols |-> cols, wide |-> FALSE, tabs |-> DefaultTabs(cols),
              keys |-> FALSE, dialect |-> dialect, national |-> FALSE, message |-> message,
              concealed |-> FALSE, speed |-> "9600", sfc |-> [way |-> 3, kind |-> 1],
              modem |-> FALSE, stored |-> Factory, saved |-> saved]
  IN  IF saved = NotSaved THEN new ELSE Apply(new, saved)

FullResetToStored(t) == PowerUp(t.pageCols, t.message, t.dialect, t.stored)

\* RIS, and Set-Up's Recall: on again, with the configuration as it is now
\* (full_reset).
FullReset(t) == PowerUp(t.pageCols, t.message, t.dialect, t.saved)

\* Default: no features are saved any more, and the terminal's own are the
\* factory's (restore_factory_setup).
RestoreFactory(t) == PowerUp(t.pageCols, "", FALSE, NotSaved)

\* DECSTR, and Set-Up's Reset Session (soft_reset).
SoftReset(t) == [t EXCEPT !.national = FALSE, !.keys = FALSE]

\* The features in force become the ones a reset returns to (save_setup_features).
SaveFeatures(t) == [t EXCEPT !.saved = FeaturesOf(t)]

-----------------------------------------------------------------------------
\* The line the features describe, and back.

\* `of`, from Set-Up's flow control in the two directions (flows): before the
\* VT500 there was no choice of XOFF for what the terminal sends.
LineOf(style, f) ==
  LET transmit == f.tflow
      receive == IF style = "menus" THEN f.rflow ELSE IF f.xoff THEN 1 ELSE 0
  IN  [baud |-> f.speed,
       flow |-> IF {transmit, receive} \cap {2, 3} # {} THEN "lines"
                ELSE IF transmit = 1 THEN IF receive = 1 THEN "both" ELSE "transmit"
                ELSE IF receive = 1 THEN "receive" ELSE "none"]

\* `put`: the features with the line in them, as nearly as they can show it.
PutLine(l, f) ==
  LET way(directions) == IF l.flow = "lines" THEN 2 ELSE IF l.flow \in directions THEN 1 ELSE 0
  IN  [f EXCEPT !.speed = l.baud,
                !.tflow = way({"both", "transmit"}), !.rflow = way({"both", "receive"}),
                !.xoff = l.flow \in {"both", "receive"}]

\* `changed`: of what is on the line only what has changed in Set-Up changes.
Changed(before, after, current) ==
  [part \in DOMAIN current |-> IF before[part] = after[part] THEN current[part] ELSE after[part]]

-----------------------------------------------------------------------------
\* The control functions of the host that change features.
Obey(t, c) ==
  CASE c[1] = "DECCOLM" -> SetColumns(t, c[2])
    [] c[1] = "DECCKM"  -> [t EXCEPT !.keys = c[2]]
    [] c[1] = "DECCANSM" -> [t EXCEPT !.concealed = c[2]]
    [] c[1] = "DECMCM"  -> [t EXCEPT !.modem = c[2]]
    [] c[1] = "DECSCS"  -> [t EXCEPT !.speed = c[2]]
    [] c[1] = "DECSFC"  -> [t EXCEPT !.sfc = c[2]]
    [] c[1] = "DECSTR"  -> SoftReset(t)
    [] c[1] = "RIS"     -> FullReset(t)

-----------------------------------------------------------------------------
\* set_line, by either of the threads.

Free == [who |-> "nobody", wanted |-> NoLine]

\* It takes the lock, compares, and asks the port only for a change; `then` is
\* where the thread goes on from when there is none.
StartSetLine(who, asked, unchanged) ==
  LET now == LineOf(course.style, FeaturesOf(term))
      wanted == Changed(line.setup, now, line.current)
  IN  /\ setting.who = "nobody"
      /\ IF course.line = NoLine \/ now = line.setup
           THEN unchanged /\ UNCHANGED <<line, setting>>
           ELSE /\ line' = [line EXCEPT !.setup = now]
                /\ IF wanted = line.current
                     THEN unchanged /\ UNCHANGED setting
                     ELSE asked /\ setting' = [who |-> who, wanted |-> wanted]

LineTaken == line' = [line EXCEPT !.current = setting.wanted] /\ UNCHANGED term

LineRefusedQuietly == UNCHANGED <<line, term>>

\* A refusal leaves the line as it was, and Set-Up is put back to show it.
LineRefused ==
  LET t == Apply(term, PutLine(line.current, FeaturesOf(term)))
  IN  /\ term' = t
      /\ line' = [line EXCEPT !.setup = LineOf(course.style, FeaturesOf(t))]

EndSetLine(who) ==
  /\ setting.who = who
  /\ LineTaken \/ (course.refuses /\ LineRefused)
  /\ setting' = Free

-----------------------------------------------------------------------------
\* The file of a session's features (setup_store).

\* `from_text` over the factory settings: a speed the model does not offer is
\* not taken, national characters go with a national keyboard.
ReadBack(f) ==
  IF f = NotSaved THEN f
  ELSE [f EXCEPT !.speed = IF @ \in Listed THEN @ ELSE "9600", !.national = @ /\ f.dialect]

\* Written, or removed; or that fails, of which the user is told.
Filed(f) ==
  \/ file' = [features |-> f, stale |-> FALSE]
  \/ course.fail /\ file' = [file EXCEPT !.stale = TRUE]

-----------------------------------------------------------------------------
\* Set-Up itself: the copy of the features and what may be chosen in it.

IsOpen == menu # Shut
Spend(what) == spent[what] < course[what] /\ spent' = [spent EXCEPT ![what] = @ + 1]

\* The VT420's fields go round their settings (cycle). New columns of a page have
\* the default tab stops; a message once concealed stays so until another is typed.
Cycled(field, f) ==
  CASE field = "columns"   -> {[f EXCEPT !.wide = ~@, !.tabs = ResizeTabs(@, Columns(~f.wide))]}
    [] field = "dialect"   -> {[f EXCEPT !.dialect = ~@, !.national = @ /\ ~f.dialect]}
    [] field = "national"  -> {[f EXCEPT !.national = f.dialect /\ ~@]}
    [] field = "concealed" -> {[f EXCEPT !.concealed = TRUE]}
    [] field = "online"    -> {[f EXCEPT !.online = ~@]}
    [] field = "keys"      -> {[f EXCEPT !.keys = ~@]}
    [] field = "modem"     -> {[f EXCEPT !.modem = ~@]}
    [] field = "speed"     -> {[f EXCEPT !.speed = speed] : speed \in Listed \ {f.speed}}
    [] field = "xoff"      -> {[f EXCEPT !.xoff = ~@]}
    [] field = "delay"     -> {[f EXCEPT !.delay = d] : d \in Delays \ {f.delay}}
    [] field \in {"tflow", "rflow"} -> {}

BareTabs(tabs, cols) == [c \in 0 .. cols - 1 |-> c \in DOMAIN tabs /\ tabs[c]]

\* The VT500's menus list the settings of a field (items). New columns have no tab
\* stops (set_columns); a delay is chosen under modem control only.
Picked(field, f) ==
  CASE field = "columns" -> {[f EXCEPT !.wide = ~@, !.tabs = BareTabs(@, Columns(~f.wide))]}
    [] field = "tflow"   -> {[f EXCEPT !.tflow = k] : k \in Flows}
    [] field = "rflow"   -> {[f EXCEPT !.rflow = k] : k \in Flows}
    [] field = "xoff"    -> {}
    [] field = "delay"   -> {[f EXCEPT !.delay = d] : d \in IF f.modem THEN Delays ELSE {}}
    [] OTHER             -> Cycled(field, f)

\* A stop put into or taken out of a ruler, never in its first column; default
\* stops, or none.
Ruled(tabs) ==
  {[tabs EXCEPT ![c] = ~@] : c \in DOMAIN tabs \ {0}}
  \cup {[c \in DOMAIN tabs |-> DefaultStop(c)], [c \in DOMAIN tabs |-> FALSE]}

\* The dialog's answerback message or ruler in the features.
Accepted(m) ==
  CASE m.dialog = "answerback" -> [m.features EXCEPT !.message = m.entry, !.concealed = FALSE]
    [] m.dialog = "tabs"       -> [m.features EXCEPT !.tabs = m.ruler]
    [] OTHER                   -> m.features

Closed(m, f) == [Shut EXCEPT !.features = f]
Touched == visit' = [visit EXCEPT !.changed = TRUE]

UnlessMenu == UNCHANGED <<course, term, file, line, setting, wasHeld, held, ui, io, rest, modem, away>>

OpenSetUp ==
  /\ ui = "free" /\ ~IsOpen
  /\ Spend("visits")
  /\ wasHeld' = held
  /\ held' = TRUE
  /\ menu' = [Shut EXCEPT !.features = FeaturesOf(term)]
  /\ visit' = [steps |-> 0, ran |-> FALSE, changed |-> FALSE]
  /\ UNCHANGED <<course, term, file, line, setting, ui, io, rest, modem, away>>

Choose(field) ==
  /\ IsOpen /\ menu.dialog = "none"
  /\ Spend("keys")
  /\ \E f \in IF course.style = "menus" THEN Picked(field, menu.features)
              ELSE Cycled(field, menu.features) : menu' = [menu EXCEPT !.features = f]
  /\ Touched
  /\ UnlessMenu

\* The ruler is on a screen of its own in the one, in a dialog in the other,
\* that has as many columns as are chosen.
RuleTabs ==
  /\ IsOpen /\ "tabs" \in course.touch
  /\ Spend("keys")
  /\ \/ /\ course.style = "screens" /\ menu.dialog = "none"
        /\ \E tabs \in Ruled(menu.features.tabs) : menu' = [menu EXCEPT !.features.tabs = tabs]
        /\ Touched
     \/ /\ menu.dialog = "tabs"
        /\ \E tabs \in Ruled(menu.ruler) : menu' = [menu EXCEPT !.ruler = tabs]
        /\ UNCHANGED visit
  /\ UnlessMenu

OpenTabs ==
  /\ IsOpen /\ "tabs" \in course.touch
  /\ course.style = "menus" /\ menu.dialog = "none"
  /\ menu' = LET f == menu.features
             IN  [menu EXCEPT !.dialog = "tabs",
                              !.ruler = BareTabs(f.tabs, Columns(f.wide))]
  /\ UNCHANGED <<spent, visit>>
  /\ UnlessMenu

\* The VT420's entry begins empty; the VT500's with the message, unless that is
\* concealed.
OpenAnswerback ==
  /\ IsOpen /\ "message" \in course.touch /\ menu.dialog = "none"
  /\ menu' = LET f == menu.features
             IN  [menu EXCEPT !.dialog = "answerback",
                              !.entry = IF course.style = "screens" \/ f.concealed THEN "" ELSE f.message]
  /\ UNCHANGED <<spent, visit>>
  /\ UnlessMenu

TypeAnswerback ==
  /\ menu.dialog = "answerback"
  /\ Spend("keys")
  /\ \E m \in Messages : menu' = [menu EXCEPT !.entry = m]
  /\ UNCHANGED visit
  /\ UnlessMenu

\* OK or, on the VT420, Enter; and Cancel or, on the VT420, the Set-Up key.
EndDialog ==
  /\ menu.dialog # "none"
  /\ \/ menu' = Closed(menu, Accepted(menu)) /\ Touched
     \/ menu' = Closed(menu, menu.features) /\ UNCHANGED visit
  /\ UNCHANGED spent
  /\ UnlessMenu

\* The actions of the Directory. They change the terminal at once; the copy is
\* refreshed after those that replace the features, not after Reset Session.
Do(action) ==
  /\ IsOpen /\ menu.dialog = "none" /\ action \in course.do
  /\ Spend("keys")
  /\ Touched
  /\ CASE action = "reset" -> term' = SoftReset(term) /\ UNCHANGED <<menu, file>>
       [] action = "recall" -> /\ term' = FullReset(term)
                               /\ menu' = Closed(menu, FeaturesOf(term'))
                               /\ UNCHANGED file
       [] action = "default" -> /\ term' = RestoreFactory(term)
                                /\ menu' = Closed(menu, FeaturesOf(term'))
                                /\ Filed(NotSaved)
       [] action = "save" -> /\ term' = SaveFeatures(Apply(term, menu.features))
                             /\ UNCHANGED menu
                             /\ Filed(menu.features)
  /\ UNCHANGED <<course, line, setting, wasHeld, held, ui, io, rest, modem, away>>

\* Set-Up is left: by Exit, or by the Set-Up key, which in a dialog of the VT500
\* presses OK first. Its features, all of them, take effect (close_setup).
Leave ==
  /\ IsOpen /\ (menu.dialog = "none" \/ course.style = "menus")
  /\ term' = Apply(term, Accepted(menu))
  /\ wasHeld' = (wasHeld \/ ~term'.stored.online)
  /\ menu' = Shut
  /\ ui' = "setting"
  /\ UNCHANGED <<course, file, line, setting, held, io, rest, modem, visit, away, spent>>

\* Then the line is set, and the host let go, unless it was on hold before, or
\* the terminal is not on line.
UserSetsLine ==
  /\ ui = "setting"
  /\ StartSetLine("user", UNCHANGED ui, ui' = "letting go")
  /\ UNCHANGED <<course, term, file, menu, wasHeld, held, io, rest, modem, visit, away, spent>>

UserHasSetLine ==
  /\ EndSetLine("user")
  /\ ui' = "letting go"
  /\ UNCHANGED <<course, file, menu, wasHeld, held, io, rest, modem, visit, away, spent>>

LetGo ==
  /\ ui = "letting go"
  /\ held' = wasHeld
  /\ ui' = "free"
  /\ UNCHANGED <<course, term, file, line, setting, menu, wasHeld, io, rest, modem, visit, away, spent>>

\* F1 holds the screen or lets it go.
HoldScreen ==
  /\ ui = "free" /\ ~IsOpen /\ "hold" \in course.touch
  /\ Spend("keys")
  /\ held' = ~held
  /\ UNCHANGED <<course, term, file, line, setting, menu, wasHeld, ui, io, rest, modem, visit, away>>

-----------------------------------------------------------------------------
\* The I/O thread.

\* The carrier is on; and since when it has been off, if it was on before.
CarrierOnStill(m) == [m EXCEPT !.dsrSeen = TRUE, !.carrierSeen = TRUE]

CarrierOn(m) == [m EXCEPT !.dsrSeen = TRUE, !.carrierSeen = TRUE, !.lost = 0]

LostNow(m) == 1

LostSince(m) == IF m.lost = 0 THEN 1 ELSE m.lost

\* What the ModemWatch makes of the signals after a read: "carry" on, "ignore"
\* what was read, or the reason the session ends (check).
Watched(m, on, delay) ==
  IF ~course.modem THEN [says |-> "carry", modem |-> m]
  ELSE IF ~on
    THEN [says |-> "carry", modem |-> [m EXCEPT !.dsrSeen = FALSE, !.carrierSeen = FALSE, !.lost = 0]]
  ELSE IF ~m.dsr
    THEN [says |-> IF m.dsrSeen THEN "DSR off" ELSE "ignore", modem |-> m]
  ELSE IF m.carrier
    THEN [says |-> "carry", modem |-> CarrierOn(m)]
  ELSE IF m.carrierSeen /\ delay > 0
    THEN [says |-> IF LostSince(m) > delay THEN "carrier lost" ELSE "carry",
          modem |-> [m EXCEPT !.dsrSeen = TRUE, !.lost = LostSince(m)]]
  ELSE [says |-> "carry", modem |-> [m EXCEPT !.dsrSeen = TRUE]]

Ended == io \in {"DSR off", "carrier lost"}

StopWaiting ==
  /\ io = "waiting" /\ ~held
  /\ io' = "reading"
  /\ UNCHANGED <<course, term, file, line, setting, menu, wasHeld, held, ui, rest, modem, visit, away, spent>>

\* A read that ends with nothing after a quarter of a second, or with what the
\* host sent.
Read(chunk) ==
  LET f == FeaturesOf(term)
      watched == Watched(modem, f.modem, f.delay)
  IN  /\ io = "reading"
      /\ IF chunk = <<>> THEN UNCHANGED spent ELSE Spend("chunks")
      /\ modem' = watched.modem
      /\ away' = IF ~f.modem \/ modem.carrier THEN 0 ELSE away
      /\ rest' = IF watched.says = "carry" THEN chunk ELSE <<>>
      /\ io' = IF watched.says \in {"DSR off", "carrier lost"} THEN watched.says
               ELSE IF rest' = <<>> THEN "waiting" ELSE "stepping"
      /\ UNCHANGED <<course, term, file, line, setting, menu, wasHeld, held, ui, visit>>

\* A step goes through what was read, to the end or to where a line scrolls.
Step ==
  /\ io = "stepping"
  /\ \E n \in 1 .. Len(rest) :
       /\ term' = FoldLeft(Obey, term, SubSeq(rest, 1, n))
       /\ rest' = SubSeq(rest, n + 1, Len(rest))
  /\ io' = "setting"
  /\ visit' = IF IsOpen THEN [visit EXCEPT !.steps = @ + 1, !.ran = TRUE] ELSE visit
  /\ UNCHANGED <<course, file, line, setting, menu, wasHeld, held, ui, modem, away, spent>>

AfterStep == io' = IF rest = <<>> THEN "waiting" ELSE "pausing"

IoSetsLine ==
  /\ io = "setting"
  /\ StartSetLine("io", UNCHANGED io, AfterStep)
  /\ UNCHANGED <<course, term, file, menu, wasHeld, held, ui, rest, modem, visit, away, spent>>

IoHasSetLine ==
  /\ EndSetLine("io")
  /\ AfterStep
  /\ visit' = [visit EXCEPT !.ran = @ \/ IsOpen]
  /\ UNCHANGED <<course, file, menu, wasHeld, held, ui, rest, modem, away, spent>>

GoOnRegardless ==
  /\ io = "pausing"
  /\ io' = "stepping"
  /\ UNCHANGED <<course, term, file, line, setting, menu, wasHeld, held, ui, rest, modem, visit, away, spent>>

\* After the scroll has been shown, the hold is looked at again.
GoOn ==
  /\ io = "pausing" /\ ~held
  /\ io' = "stepping"
  /\ UNCHANGED <<course, term, file, line, setting, menu, wasHeld, held, ui, rest, modem, visit, away, spent>>

-----------------------------------------------------------------------------
\* The modem's signals, and time: two ticks are two seconds, one is 60 ms.

Signal ==
  /\ course.modem /\ ~Ended
  /\ Spend("signals")
  /\ \/ modem' = [modem EXCEPT !.dsr = ~@]
     \/ modem' = [modem EXCEPT !.carrier = ~@]
  /\ UNCHANGED <<course, term, file, line, setting, menu, wasHeld, held, ui, io, rest, visit, away>>

Longest == 3

Tick ==
  /\ course.modem /\ ~Ended
  /\ away' = IF away < Longest THEN away + 1 ELSE away
  /\ modem' = [modem EXCEPT !.lost = IF @ \in 1 .. Longest - 1 THEN @ + 1 ELSE @]
  /\ UNCHANGED <<course, term, file, line, setting, menu, wasHeld, held, ui, io, rest, visit, spent>>

-----------------------------------------------------------------------------
\* A session starts: at the page and with the features filed for it, which are
\* then its saved ones (load_into, Emulator::new); and if its connection has a
\* line, with that line in them (Session::start).
Started(filed, l) ==
  LET t == IF filed = NotSaved THEN PowerUp(Narrow, "", FALSE, NotSaved)
           ELSE PowerUp(Columns(filed.wide), filed.message, filed.dialect, filed)
  IN  IF l = NoLine THEN t ELSE SaveFeatures(Apply(t, PutLine(l, FeaturesOf(t))))

Init ==
  /\ course \in Courses
  /\ term = Started(ReadBack(course.filed), course.line)
  /\ file = [features |-> course.filed, stale |-> FALSE]
  /\ line = [current |-> course.line, setup |-> LineOf(course.style, FeaturesOf(term))]
  /\ setting = Free
  /\ menu = Shut
  /\ wasHeld = FALSE /\ held = FALSE
  /\ ui = "free"
  /\ io = "waiting"
  /\ rest = <<>>
  /\ modem = [dsr |-> course.modem, carrier |-> course.modem, dsrSeen |-> FALSE, carrierSeen |-> FALSE, lost |-> 0]
  /\ visit = [steps |-> 0, ran |-> FALSE, changed |-> FALSE]
  /\ away = 0
  /\ spent = [visits |-> 0, keys |-> 0, chunks |-> 0, signals |-> 0]

Next ==
  \/ OpenSetUp \/ RuleTabs \/ OpenTabs \/ OpenAnswerback \/ TypeAnswerback \/ EndDialog
  \/ \E field \in course.touch \ {"tabs", "message", "hold"} : Choose(field)
  \/ \E action \in {"reset", "recall", "default", "save"} : Do(action)
  \/ Leave \/ UserSetsLine \/ UserHasSetLine \/ LetGo \/ HoldScreen
  \/ StopWaiting
  \/ \E chunk \in course.reads \cup {<<>>} : Read(chunk)
  \/ Step \/ IoSetsLine \/ IoHasSetLine \/ GoOn
  \/ Signal \/ Tick

\* The I/O thread's loop is never stopped but by a hold, what a thread has begun
\* it goes on with, and time passes.
Fairness ==
  /\ WF_vars(StopWaiting) /\ WF_vars(Read(<<>>)) /\ WF_vars(Step) /\ WF_vars(GoOn)
  /\ WF_vars(IoSetsLine) /\ WF_vars(IoHasSetLine)
  /\ WF_vars(UserSetsLine) /\ WF_vars(UserHasSetLine) /\ WF_vars(LetGo)
  /\ WF_vars(Tick)

Spec == Init /\ [][Next]_vars
FairSpec == Spec /\ Fairness

-----------------------------------------------------------------------------
\* No thread is between a change of the features and its set_line.
AtRest == ~IsOpen /\ ui = "free" /\ io # "setting" /\ setting = Free

\* With Set-Up left and the line set by whoever changed its description, Set-Up
\* shows the line as it is, as nearly as it can show it: whichever thread set
\* it, whatever the port refused, and whatever was set while it was asked
\* (set_line, changed, put).
LineAsShown ==
  course.line # NoLine /\ AtRest =>
    LET shown == LineOf(course.style, PutLine(line.current, FeaturesOf(term)))
    IN  /\ line.setup = LineOf(course.style, FeaturesOf(term))
        /\ line.setup = [shown EXCEPT !.baud = SpeedShown(@)]

\* While Set-Up is open the host is held: what the I/O thread had in hand when
\* it was opened may still be taken, up to the next line that scrolls, and
\* nothing after that (open_setup, wait_while_held).
HostWaits == visit.steps <= 1

\* A visit to Set-Up that changes nothing changes nothing: the features put back
\* on leaving are those that were found, unless the host changed them in the
\* meantime (close_setup, setup_features, apply_features).
LeavesAsFound ==
  [][IsOpen /\ ~IsOpen' /\ menu.dialog = "none" /\ ~visit.changed /\ ~visit.ran
       => FeaturesOf(term') = FeaturesOf(term)]_vars

\* A visit to Set-Up holds the host and by itself changes nothing.
VisitHarmless == LeavesAsFound /\ []HostWaits

LineParts(f) == [f EXCEPT !.speed = "9600", !.tflow = 1, !.rflow = 1, !.xoff = TRUE]

\* What a reset returns to is what the next session of this number starts with:
\* Save puts the same features in the memory and in the file, unless the file
\* could not be written. The line that a connection was given is not filed until
\* Save, and the tab stops are compared on a page of the saved columns.
SavedAsFiled ==
  ~file.stale /\ term.saved # NotSaved /\ file.features # NotSaved =>
    LET now == FeaturesOf(FullReset(term))
        next == FeaturesOf(Started(ReadBack(file.features), NoLine))
        alike == IF term.pageCols = Columns(next.wide) THEN next ELSE [next EXCEPT !.tabs = now.tabs]
    IN  IF course.line = NoLine THEN now = alike ELSE LineParts(now) = LineParts(alike)

\* A session ends for a lost carrier only after the whole disconnect delay in
\* which no pass saw it on, with modem control on all the while (check).
EndsAfterWholeDelay ==
  [][io' = "carrier lost" /\ ~Ended =>
       FeaturesOf(term).modem /\ FeaturesOf(term).delay > 0 /\ away >= FeaturesOf(term).delay]_vars

CarrierGone ==
  /\ FeaturesOf(term).modem /\ FeaturesOf(term).delay > 0
  /\ modem.dsr /\ modem.carrierSeen /\ ~modem.carrier
  /\ ~held

\* A carrier that stays away ends the session, on a line with modem control
\* and a delay, once the session is not on hold (check, wait_while_held).
CarrierLossEnds == <>[]CarrierGone => <>Ended

\* A lost carrier ends the session after the delay, and not before.
CarrierTimed == EndsAfterWholeDelay /\ CarrierLossEnds

\* What the source says of Recall: "every feature returns to its saved value",
\* the factory's where none is saved.
RecallReturnsAll ==
  [][Do("recall") => menu'.features = IF term.saved = NotSaved THEN Factory ELSE term.saved]_vars

\* What Set-Up says of the columns is what the page has.
PageAsShown == term.cols = Columns(term.wide)
=============================================================================
