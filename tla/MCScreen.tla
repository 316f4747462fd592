------------------------------ MODULE MCScreen ------------------------------
(* A page of two or three lines and of four or six columns; and, by itself, a *)
(* terminal's character sets, with what a host does to them.                  *)
EXTENDS Screen, CharacterSets

MCLengths == {2, 3}
MCPagesFor == [lines \in MCLengths |-> IF lines = 2 THEN 3 ELSE 2]
MCHeights == <<2, 4>>

MCSaved ==
  [mode |-> "vt420", columns132 |-> FALSE, autowrap |-> TRUE, status |-> "host", pageLength |-> 2,
   screenLines |-> 2, verticalCoupling |-> TRUE, pageCoupling |-> TRUE, newLine |-> FALSE,
   tabs |-> [c \in 0 .. 5 |-> c = 3]]
MCSavedWide == [MCSaved EXCEPT !.columns132 = TRUE, !.pageLength = 3, !.mode = "vt100",
                               !.status = "none"]
MCSetUps == {NotSaved, MCSaved, MCSavedWide}

MCRepertoires ==
  {{"Text", "CR", "LF", "BS", "HT", "DECAWM", "IRM", "LNM", "DECDWL", "RI"},
   {"Text", "CUP", "DECLRMM", "DECSLRM", "CUF", "CUU", "CUD", "IND", "DECOM", "DECBI", "DECFI"},
   {"Text", "DECSTBM", "IL", "DL", "ICH", "DCH", "DECIC", "IND", "RI", "CUD", "NEL"},
   {"Text", "DECSLPP", "DECSNLS", "PPA", "NP", "SUSD", "DECVCCM", "DECPCCM", "CUP", "PanView",
    "ViewPage", "DECSC", "DECRC"},
   {"Text", "DECCOLM", "DECSCPP", "HT", "HTS", "TBC", "DECDWL", "CUP", "DECSC", "DECRC"},
   {"Text", "DECSSDT", "DECSASD", "ED", "PPA", "DECALN", "DECSTBM", "LF", "DECCOLM", "RIS", "DECSTR",
    "ClearDisplay", "IL"},
   {"Text", "DECSCA", "ED", "DECSED", "EL", "DECSEL", "ECH", "DECERA", "DECSERA", "DECFRA", "DECCRA"},
   {"Text", "RIS", "DECSTR", "DECSCL", "DECANM", "DECTSR", "DECSLPP", "DECLRMM", "DECSLRM", "DECDWL",
    "DECCOLM", "CUP"},
   {"Capture", "Text", "LF", "IND", "IND8", "BS", "CUP", "HT"}}

-----------------------------------------------------------------------------
Of94(designators) == {[is96 |-> FALSE, d |-> d] : d \in designators}
Of96(designators) == {[is96 |-> TRUE, d |-> d] : d \in designators}
Hardly == Of94({"B", "0", "<", " @"}) \cup Of96({"A"})
Common == Of94({"B", "1", "0", "2", "<", ">", "%5", "A", "K", "%6", " @"}) \cup Of96({"A", "<", " @"})
Newer == Of94({Vt500Designator[s] : s \in DOMAIN Vt500Designator \ Vt500Is96} \cup {"<"})
         \cup Of96({Vt500Designator[s] : s \in Vt500Is96} \cup {"A", "<"})

Started(max, options, language, acts, names, into, count) ==
  [max |-> max, national |-> "national" \in options, language |-> language,
   upss |-> IF "latin1" \in options THEN IsoLatin1 ELSE DecSupplemental, color |-> "color" \in options,
   xterm |-> "xterm" \in options, acts |-> acts, names |-> names, into |-> into, steps |-> count]
MCCharStarts ==
  {Started(5, {}, "none", {"SCS", "DECNRCM", "shift", "print"}, Common, 0 .. 3, 2),
   Started(5, {"latin1"}, "none", {"SCS", "DECAUPSS", "DECNRCM"}, Newer, {2}, 3),
   Started(4, {"latin1", "national"}, "German", {"SCS", "DECNRCM", "KAM", "save"}, Common, {0}, 2),
   Started(2, {}, "none", {"SCS", "shift", "DECDLD", "save"}, Hardly, 0 .. 3, 2),
   Started(1, {}, "British", {"SCS", "shift", "VT52", "print", "save"}, Common, 0 .. 3, 2),
   Started(5, {"color"}, "none", {"DECDLD"}, {}, {}, 3),
   Started(4, {}, "none", {"DECDLD", "SCS", "shift"}, Hardly, {0, 2}, 3),
   Started(5, {"color"}, "none", {"SGR", "save"}, {}, {}, 3),
   Started(4, {"xterm"}, "none", {"SGR"}, {}, {}, 3),
   Started(5, {"national"}, "Swiss", {"reset", "VT52", "SGR", "KAM"}, {}, {}, 3),
   Started(5, {}, "none", {"DECRSPS", "SCS", "save"}, Hardly \cup Of94({"''>", "&4"}), 1 .. 2, 3)}
  \cup {Started(5, {"national"}, nrc, {"SCS"}, Of94(NationalNames[nrc]), {0}, 1) : nrc \in DOMAIN NationalNames}

Loaded(font, first, erase, size, height, is96, d, glyphs) ==
  [font |-> font, start |-> first, erase |-> erase, width |-> 0, size |-> size, height |-> height,
   is96 |-> is96, designation |-> d, glyphs |-> glyphs]
MCDownloads ==
  {Loaded(1, 1, 0, 0, 0, FALSE, " @", <<"a", "b">>), Loaded(0, 2, 1, 1, 16, FALSE, " @", <<"c">>),
   Loaded(2, 0, 0, 12, 16, TRUE, " @", <<"d", "e">>), Loaded(0, 94, 0, 2, 10, FALSE, "0", <<"f", "g">>),
   Loaded(1, 5, 2, 0, 0, FALSE, " @", <<"k">>),
   Loaded(2, 1, 1, 0, 0, FALSE, "B", <<"h">>), Loaded(1, 3, 0, 2, 16, FALSE, " @", <<"g">>),
   Loaded(3, 1, 0, 0, 0, FALSE, " @", <<"h">>)}
MCRenditions ==
  {<<>>, <<1, 4>>, <<0, 5, 31>>, <<7, 45, 22>>, <<38, 5, 3, 8>>, <<48, 2, 1, 2, 3, 4>>, <<95, 39>>, <<2, 38, 5>>,
   <<38, 7, 49>>}
MCGivings ==
  {[rendition |-> {"bold"}, ss |-> 2, gl |-> 1, gr |-> 3, is96 |-> {2}, designators |-> <<"B", "0", "A", "<">>],
   [rendition |-> {"protected"}, ss |-> 0, gl |-> 0, gr |-> 4, is96 |-> {}, designators |-> <<"0", "0", "0", "0">>],
   [rendition |-> {}, ss |-> 0, gl |-> 2, gr |-> 1, is96 |-> {0}, designators |-> <<"B">>]}
MCStrays == {9, 10, 13, 27, 133, 8203, 769, 8364, 20013}

MCInit ==
  \/ Init /\ chars = NoChars
  \/ Init /\ setup = NotSaved /\ repertoire = (CHOOSE r \in Repertoires : "Capture" \in r) /\ CharsInit
MCNext ==
  \/ ~Watched /\ Next /\ UNCHANGED chars
  \/ CharsNext /\ UNCHANGED vars
MCSpec == MCInit /\ [][MCNext]_<<vars, chars>>
=============================================================================
