------------------------------ MODULE MCSetUp ------------------------------
(* A VT420 without a line, a VT520 with files that can fail, serial lines of  *)
(* both, and a modem; or a walk through the Set-Up of a model, with all of    *)
(* its features and nothing else going on.                                    *)
EXTENDS SetUp, SetUpWalk

MCMessages == {"", "hello"}
Line(baud, flow) == [baud |-> baud, flow |-> flow]

Quiet ==
  [style |-> "menus", touch |-> {}, do |-> {}, reads |-> {}, line |-> NoLine, filed |-> NotSaved,
   refuses |-> FALSE, fail |-> FALSE, modem |-> FALSE, visits |-> 2, keys |-> 2, chunks |-> 1, signals |-> 0]

MCCourses ==
  {[Quiet EXCEPT !.style = style, !.touch = {"columns", "tabs", "dialect", "national"},
                 !.do = {"recall", "save", "reset"}, !.filed = filed, !.keys = 3,
                 !.reads = {<<<<"DECCOLM", TRUE>>, <<"RIS">>>>}] :
     style \in {"screens", "menus"},
     filed \in {NotSaved, [Factory EXCEPT !.wide = TRUE, !.tabs = DefaultTabs(Wide)]}}
  \cup
  {[Quiet EXCEPT !.style = style, !.touch = {"message", "concealed", "keys", "online", "hold"},
                 !.do = {"recall", "save", "default"}, !.fail = TRUE, !.keys = 3, !.visits = 1,
                 !.reads = {<<<<"DECCANSM", FALSE>>>>, <<<<"DECCKM", TRUE>>, <<"DECSTR">>>>}] :
     style \in {"screens", "menus"}}
  \cup
  {[Quiet EXCEPT !.style = "menus", !.touch = {"speed", "rflow"}, !.line = given, !.refuses = TRUE,
                 !.do = {"default"}, !.chunks = IF given.baud = "9600" THEN 2 ELSE 1,
                 !.reads = {<<<<"DECSCS", "19200">>, <<"RIS">>>>,
                            <<<<"DECSFC", [way |-> 1, kind |-> 2]>>, <<"DECSFC", [way |-> 2, kind |-> 0]>>>>}] :
     given \in {Line("9600", "both"), Line("14400", "transmit")}}
  \cup
  {[Quiet EXCEPT !.style = "screens", !.touch = {"speed", "xoff"}, !.line = given, !.refuses = TRUE,
                 !.do = {"recall"}, !.reads = {<<<<"RIS">>>>}] :
     given \in {Line("14400", "lines"), Line("9600", "none")}}
  \cup
  {[Quiet EXCEPT !.touch = {"modem", "delay", "hold"}, !.modem = TRUE, !.signals = 3, !.visits = 1,
                 !.filed = [Factory EXCEPT !.modem = TRUE], !.reads = {<<<<"DECMCM", FALSE>>>>}]}

\* Only the message, and recalling it.
MCRecalled == {[Quiet EXCEPT !.touch = {"message"}, !.do = {"recall"}, !.keys = 3]}

\* 132 columns, a national keyboard, few tab stops and a long page.
Rich(model) ==
  [FactoryOf(model) EXCEPT
     !.on = (@ \ {"crt_saver", "clear_on_column_change"})
            \cup {"columns_132", "national", "local_echo", "modem_control", "conceal_answerback"},
     !.at.keyboard_language = 3, !.at.page_length = 36, !.at.screen_lines = 36,
     !.at.transmit_flow = 0, !.at.receive_flow = 3, !.at.fkey_rate = 2, !.at.xoff = 0,
     !.at.parity = "space", !.at.terminal_mode = IF Level[model] >= 2 THEN <<2, 8>> ELSE <<1, 7>>,
     !.tabs = [len |-> 132, at |-> {1, 79, 100}]]

MCVisited ==
  {<<model, NotKept>> : model \in {"VT100", "VT220", "VT420", "VT525"}}
  \cup {<<model, Rich(model)>> : model \in {"VT320", "VT420", "VT510"}}
  \cup {<<"VT520", Rich("VT420")>>}

MCTold ==
  {<<mode, <<on>>>> : mode \in DOMAIN ModeLevel \cup {"DECCOLM", "DECANM"}, on \in {0, 1}}
  \cup {<<name, <<n>>>> : name \in DOMAIN Selections \cup {"DECTID", "DECUS", "DECSCUSR"}, n \in {0, 1, 2, 4, 9, 10, 60}}
  \cup {<<"DECSCP", <<4, 2>>>>, <<"DECSPP", <<1, 2, 7, 2>>>>, <<"DECSPP", <<0, 0, 8, 0>>>>,
        <<"DECLFKC", <<3, 3>>>>, <<"DECLFKC", <<0, 2>>>>}
  \cup {<<"DECSCS", <<n, code>>>> : n \in {1, 4, 5}, code \in {0, 1, 11, 12}}
  \cup {<<"DECSFC", <<1, way, kind, 2>>>> : way \in {0, 1, 2}, kind \in {1, 3, 4}}
  \cup {<<"DECSTRL", <<n, rate>>>> : n \in {1, 3}, rate \in {0, 3}}

MCInputs ==
  {<<key>> : key \in {"Up", "Down", "Left", "Right", "Enter", "Tab", "Backspace", "SetUp"}}
  \cup {<<"Text", [i \in 1 .. n |-> "a"]>> : n \in {2, 29}}

\* The walks are not fair: of them only what is always so is asked.
MCInit ==
  \/ Init /\ walk = Asleep
  \/ Init /\ course = (CHOOSE c \in Courses : ~c.modem => \A d \in Courses : ~d.modem) /\ WalkInit
MCNext ==
  \/ ~Awake /\ Next /\ UNCHANGED walk
  \/ WalkNext /\ UNCHANGED vars
MCSpec == MCInit /\ [][MCNext]_<<vars, walk>> /\ Fairness

\* What is saved is kept: the same in memory, in the file and in the registers.
SavedAndKept == SavedAsFiled /\ FeaturesKept
============================================================================
