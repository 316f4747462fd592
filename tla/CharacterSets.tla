----------------------------- MODULE CharacterSets -----------------------------
(***************************************************************************)
(* From a code to the character it shows and back: the sets designated and *)
(* invoked, the sets downloaded, the renditions, what is sent for a typed  *)
(* or pasted character, what is copied of a shown one, and the reports of  *)
(* all of it (crates/vt-core/src/charset.rs, softfont.rs,                  *)
(* terminal/paste.rs, and the parts of terminal/mod.rs, reports.rs, crm.rs *)
(* and dcs.rs that have to do with them).                                  *)
(*                                                                         *)
(* Characters are code points and codes are numbers.  The cursor's place   *)
(* and what is saved and reported with it are Screen's.  A glyph of a      *)
(* downloaded set is a model value.                                        *)
(***************************************************************************)
EXTENDS CharacterTables, SequencesExt

CONSTANTS
  CharStarts,     \* terminals at power-up, and hosts: what they do, the designators they
                  \* use, the sets they designate into, and for how long
  Downloads,      \* the sets it downloads
  Renditions,     \* the parameters of its SGR
  Givings,        \* cursor reports it makes up
  Strays          \* characters that no set has

VARIABLE chars

NoChars == [asleep |-> TRUE]

-----------------------------------------------------------------------------
(* The sets.                                                               *)

Ascii == <<"Ascii">>
DecSpecialGraphics == <<"DecSpecialGraphics">>
DecSupplemental == <<"DecSupplemental">>
DecTechnical == <<"DecTechnical">>
IsoLatin1 == <<"IsoLatin1">>
National(nrc) == <<"National", nrc>>
Vt500(name) == <<"Vt500", name>>
Soft(slot, is96) == <<"Soft", slot, is96>>

ERROR_CHARACTER == 9254
SOFT_BASE == 1048576
TECHNICAL_PUA == 63456
C1_CONTROL_PICTURES == 63360

Vt500Set ==
  [DecGreek |-> DEC_GREEK, DecHebrew |-> DEC_HEBREW, DecTurkish |-> DEC_TURKISH, DecCyrillic |-> DEC_CYRILLIC,
   IsoLatin2 |-> ISO_LATIN_2, IsoGreek |-> ISO_GREEK, IsoHebrew |-> ISO_HEBREW, IsoCyrillic |-> ISO_CYRILLIC,
   IsoLatin5 |-> ISO_LATIN_5, NrcGreek |-> NRC_GREEK, NrcHebrew |-> NRC_HEBREW, NrcTurkish |-> NRC_TURKISH,
   NrcSerboCroatian |-> NRC_SERBO_CROATIAN, NrcRussian |-> NRC_RUSSIAN]
Vt500Is96 == {"IsoLatin2", "IsoGreek", "IsoHebrew", "IsoCyrillic", "IsoLatin5"}
IsNational == {"NrcGreek", "NrcHebrew", "NrcTurkish", "NrcSerboCroatian", "NrcRussian"}

\* A quotation mark in a designator is written as two apostrophes.
Vt500Designator ==
  [DecGreek |-> "''?", DecHebrew |-> "''4", DecTurkish |-> "%0", DecCyrillic |-> "&4", IsoLatin2 |-> "B",
   IsoGreek |-> "F", IsoHebrew |-> "H", IsoCyrillic |-> "L", IsoLatin5 |-> "M", NrcGreek |-> "''>",
   NrcHebrew |-> "%=", NrcTurkish |-> "%2", NrcSerboCroatian |-> "%3", NrcRussian |-> "&5"]
FromDesignator(is96, d) ==
  {s \in DOMAIN Vt500Designator : Vt500Designator[s] = d /\ (s \in Vt500Is96) = is96}

\* Some of the national sets may be asked for by more than one name (grave is the
\* accent).
NationalNames ==
  [British |-> {"A"}, Dutch |-> {"4"}, Finnish |-> {"C", "5"}, French |-> {"R", "f"},
   FrenchCanadian |-> {"Q", "9"}, German |-> {"K"}, Italian |-> {"Y"}, NorwegianDanish |-> {"grave", "E", "6"},
   Portuguese |-> {"%6"}, Spanish |-> {"Z"}, Swedish |-> {"H", "7"}, Swiss |-> {"="}]
NationalDesignator ==
  [British |-> "A", Dutch |-> "4", Finnish |-> "C", French |-> "R", FrenchCanadian |-> "Q", German |-> "K",
   Italian |-> "Y", NorwegianDanish |-> "E", Portuguese |-> "%6", Spanish |-> "Z", Swedish |-> "H",
   Swiss |-> "="]
Designator(set) ==
  CASE set = Ascii -> "B" [] set = DecSpecialGraphics -> "0" [] set = DecSupplemental -> "%5"
    [] set = DecTechnical -> ">" [] set = IsoLatin1 -> "A" [] set[1] = "Vt500" -> Vt500Designator[set[2]]
    [] set[1] = "National" -> NationalDesignator[set[2]] [] OTHER -> " @"

Is96(set) ==
  CASE set[1] = "Soft" -> set[3] [] set[1] = "Vt500" -> set[2] \in Vt500Is96 [] OTHER -> set = IsoLatin1

NrcMap(nrc, code) ==
  IF \E i \in 1 .. 12 : NRC_POSITIONS[i] = code
  THEN NrcTable[nrc][CHOOSE i \in 1 .. 12 : NRC_POSITIONS[i] = code] ELSE code

OrError(ch) == IF ch = NoCharacter THEN ERROR_CHARACTER ELSE ch
SupplementalMap(code) ==
  LET c == code + 128
  IN  CASE c = 168 -> 164 [] c = 215 -> 338 [] c = 221 -> 376 [] c = 247 -> 339 [] c = 253 -> 255
        [] c \in {164, 166, 180, 184, 190, 208, 222, 240, 254} \cup 172 .. 175 -> ERROR_CHARACTER
        [] OTHER -> c

\* The character of a code from 32 to 127, if it has one.
MapCode(set, code) ==
  CASE ~Is96(set) /\ code = 32 -> 32
    [] ~Is96(set) /\ code = 127 -> NoCharacter
    [] set[1] = "Soft" -> SOFT_BASE + set[2] * 256 + code
    [] set[1] = "National" -> NrcMap(set[2], code)
    [] set[1] = "Vt500" -> OrError(Vt500Set[set[2]][code - 31])
    [] set = DecSpecialGraphics -> IF code >= 95 THEN SPECIAL_GRAPHICS[code - 94] ELSE code
    [] set = DecSupplemental -> SupplementalMap(code)
    [] set = DecTechnical -> OrError(TECHNICAL[code - 32])
    [] set = IsoLatin1 -> code + 128
    [] OTHER -> code

SoftSets == {Soft(slot, is96) : slot \in 0 .. 1, is96 \in BOOLEAN}
HardSets ==
  {Ascii, DecSpecialGraphics, DecSupplemental, DecTechnical, IsoLatin1}
  \cup {National(nrc) : nrc \in DOMAIN NrcTable} \cup {Vt500(name) : name \in DOMAIN Vt500Set}
ShownBy == [set \in HardSets \cup SoftSets |-> [code \in 32 .. 127 |-> MapCode(set, code)]]
Characters == Strays \cup UNION {Range(ShownBy[set]) : set \in HardSets} \cup {row[1] : row \in COMPOSED}

-----------------------------------------------------------------------------
(* What is sent for a character: the least code that shows it.             *)

Least(codes) == CHOOSE code \in codes : \A other \in codes : code <= other
CodeShowing ==
  [set \in HardSets |->
     [ch \in Range(ShownBy[set]) \ {ERROR_CHARACTER, NoCharacter} |->
        Least({code \in 32 .. 127 : ShownBy[set][code] = ch})]]
IsAsciiCharacter(ch) == ch < 128

\* What a national set replaces of ASCII is sent for what it replaced.
NrcEncodeReplaced(nrc, ch) ==
  LET at == {i \in 1 .. 12 : NrcTable[nrc][i] = ch}
  IN  IF at # {} THEN {NRC_POSITIONS[Least(at)]} ELSE {ch} \cap 32 .. 126
NrcEncode(nrc, ch) ==
  LET at == {i \in 1 .. 12 : NrcTable[nrc][i] = ch}
  IN  CASE at # {} -> {NRC_POSITIONS[Least(at)]}
        [] at = {} /\ ch \in 32 .. 126 /\ ch \notin Range(NRC_POSITIONS) -> {ch}
        [] OTHER -> {}
SetEncode(set, ch) == IF ch \in DOMAIN CodeShowing[set] THEN {CodeShowing[set][ch] + 128} ELSE {}
EncodeDecMultinational(ch) == IF IsAsciiCharacter(ch) THEN {ch} ELSE SetEncode(DecSupplemental, ch)
EncodeLatin1(ch) == IF ch \in 0 .. 127 \cup 160 .. 255 THEN {ch} ELSE {}

EncodeTyped(c, ch) ==
  CASE c.national /\ c.language # "none" -> NrcEncode(c.language, ch)
    [] IsAsciiCharacter(ch) -> {ch}
    [] c.level < 2 \/ c.national -> {}
    [] c.upss = IsoLatin1 -> EncodeLatin1(ch)
    [] c.upss[1] = "Vt500" -> SetEncode(c.upss, ch)
    [] OTHER -> EncodeDecMultinational(ch)

-----------------------------------------------------------------------------
(* Pasting.                                                                *)

RETURN == 13
NEWLINE == 10
TABULATION == 9
QUESTION == 63
IsControl(ch) == ch < 32 \/ ch \in 127 .. 159
Invisible(ch) == ch \in 8203 .. 8205 \cup {8288, 65279, 173} \cup 768 .. 879

\* Every line break is a Return.
Returned(text) ==
  LET next(out, i) ==
        IF text[i] = RETURN /\ i < Len(text) /\ text[i + 1] = NEWLINE THEN out
        ELSE Append(out, IF text[i] = NEWLINE THEN RETURN ELSE text[i])
  IN  FoldLeft(next, <<>>, [i \in DOMAIN text |-> i])

\* A letter and the accent after it are one character.
Compose(text) ==
  LET rows(i) == IF i = Len(text) THEN {} ELSE {row \in COMPOSED : row[2] = text[i] /\ row[3] = text[i + 1]}
      next(done, i) ==
        IF i < done.from THEN done
        ELSE IF rows(i) = {} THEN [done EXCEPT !.out = Append(@, text[i])]
        ELSE [out |-> Append(done.out, (CHOOSE row \in rows(i) : TRUE)[1]), from |-> i + 2]
  IN  FoldLeft(next, [out |-> <<>>, from |-> 1], [i \in DOMAIN text |-> i]).out

StandIns == [ch \in Characters |->
  LET words == {s[2] : s \in {row \in SUBSTITUTES : ch \in row[1]}}
  IN  IF words # {} THEN words ELSE {<<row[2]>> : row \in {entry \in COMPOSED : entry[1] = ch}}]
OrQuestion(codes) == IF codes = {} THEN QUESTION ELSE Least(codes)

PasteCharacter(c, ch) ==
  LET encoded == EncodeTyped(c, ch)
      words == StandIns[ch]
  IN  CASE ch \in {RETURN, TABULATION} -> <<ch>>
        [] ch \notin {RETURN, TABULATION} /\ (IsControl(ch) \/ Invisible(ch)) -> <<>>
        [] OTHER ->
             IF encoded # {} THEN <<Least(encoded)>>
             ELSE IF words = {} THEN <<QUESTION>>
             ELSE LET word == CHOOSE w \in words : TRUE
                  IN  [i \in DOMAIN word |-> OrQuestion(EncodeTyped(c, word[i]))]
Paste(c, text) ==
  LET plain == Compose(Returned(text))
  IN  IF c.locked THEN <<>> ELSE FlattenSeq([i \in DOMAIN plain |-> PasteCharacter(c, plain[i])])

-----------------------------------------------------------------------------
(* Copying, and Display Controls.                                          *)

CopiedChar(ch, code) ==
  CASE ch >= SOFT_BASE -> LET c == code % 128 IN IF c \in 33 .. 126 THEN <<c>> ELSE <<QUESTION>>
    [] ch \in TECHNICAL_PUA .. TECHNICAL_PUA + 31 ->
         <<CASE ch - TECHNICAL_PUA \in {1, 3, 5} -> 9138 [] ch - TECHNICAL_PUA \in {2, 4, 6} -> 9139
             [] OTHER -> 62>>
    [] ch \in C1_CONTROL_PICTURES .. C1_CONTROL_PICTURES + 32 -> <<"name", ch - C1_CONTROL_PICTURES>>
    [] OTHER -> <<IF ch = 160 THEN 32 ELSE ch>>

ShowControl(c, byte) ==
  LET b == IF ~c.ansi \/ c.level <= 1 THEN byte % 128 ELSE byte
  IN  CASE b \in 0 .. 31 -> 9216 + b [] b = 127 -> 9249 [] b \in 128 .. 160 -> C1_CONTROL_PICTURES + b - 128
        [] b \in 32 .. 126 -> b [] OTHER -> MapCode(c.upss, b % 128)

-----------------------------------------------------------------------------
(* Renditions.                                                             *)

DefaultColor == <<>>
Indexed(i) == <<i>>
Rgb(r, g, b) == <<r, g, b>>
Byte(n) == IF n > 255 THEN 255 ELSE n
NormalAttrs == [flags |-> {}, fg |-> DefaultColor, bg |-> DefaultColor]
\* SGR never changes the protection of DECSCA.
Normal(a) == [NormalAttrs EXCEPT !.flags = a.flags \cap {"protected"}]

IsColorTerminal(c) == c.color /\ c.level >= 5
SetsFlag(c) ==
  {<<1, "bold">>, <<4, "underline">>, <<5, "blink">>, <<7, "reverse">>}
  \cup (IF c.xterm THEN {<<2, "dim">>} ELSE {}) \cup (IF c.level >= 2 THEN {<<8, "invisible">>} ELSE {})
ClearsFlag(c) ==
  IF c.level < 2 THEN {}
  ELSE {<<22, "bold">>, <<22, "dim">>, <<24, "underline">>, <<25, "blink">>, <<27, "reverse">>, <<28, "invisible">>}

\* A colour of several parameters, and how many of them it takes.
ExtendedColor(ps, start) ==
  LET has(n) == start + n <= Len(ps)
  IN  CASE ~has(0) -> [color |-> {}, used |-> 1]
        [] has(0) /\ ps[start] = 5 -> [color |-> IF has(1) THEN {Indexed(Byte(ps[start + 1]))} ELSE {}, used |-> 2]
        [] has(0) /\ ps[start] = 2 ->
             [color |-> IF has(3) THEN {Rgb(Byte(ps[start + 1]), Byte(ps[start + 2]), Byte(ps[start + 3]))} ELSE {},
              used |-> 4]
        [] OTHER -> [color |-> {}, used |-> 1]

WithColor(a, ground, color) == IF ground = "fg" THEN [a EXCEPT !.fg = color] ELSE [a EXCEPT !.bg = color]
Rendered(c, a, p) ==
  LET colors == IsColorTerminal(c) \/ c.xterm
  IN  CASE p = 0 -> Normal(a)
        [] colors /\ p \in 30 .. 37 -> WithColor(a, "fg", Indexed(p - 30))
        [] colors /\ p \in 40 .. 47 -> WithColor(a, "bg", Indexed(p - 40))
        [] colors /\ p = 39 -> WithColor(a, "fg", DefaultColor)
        [] colors /\ p = 49 -> WithColor(a, "bg", DefaultColor)
        [] c.xterm /\ p \in 90 .. 97 -> WithColor(a, "fg", Indexed(p - 82))
        [] c.xterm /\ p \in 100 .. 107 -> WithColor(a, "bg", Indexed(p - 92))
        [] OTHER -> [a EXCEPT !.flags = (@ \cup {f[2] : f \in {s \in SetsFlag(c) : s[1] = p}})
                                        \ {f[2] : f \in {s \in ClearsFlag(c) : s[1] = p}}]
SelectGraphicRendition(c, ps) ==
  LET next(done, i) ==
        LET extended == ExtendedColor(ps, i + 1)
            ground == IF ps[i] = 38 THEN "fg" ELSE "bg"
        IN  IF i < done.from THEN done
            ELSE IF c.xterm /\ ps[i] \in {38, 48}
            THEN [from |-> i + 1 + extended.used,
                  a |-> IF extended.color = {} THEN done.a
                        ELSE WithColor(done.a, ground, CHOOSE color \in extended.color : TRUE)]
            ELSE [from |-> i + 1, a |-> Rendered(c, done.a, ps[i])]
      start == [from |-> 1, a |-> IF ps = <<>> THEN Normal(c.attrs) ELSE c.attrs]
  IN  [c EXCEPT !.attrs = FoldLeft(next, start, [i \in DOMAIN ps |-> i]).a]

\* The parameters that DECRQSS answers with.
SgrReport(c) ==
  LET order == <<<<"bold", 1>>, <<"underline", 4>>, <<"blink", 5>>, <<"reverse", 7>>, <<"invisible", 8>>>>
      shown == SelectSeq(order, LAMBDA f : f[1] \in c.attrs.flags)
      color(ground, base) == IF Len(ground) = 1 /\ ground[1] <= 7 THEN <<base + ground[1]>> ELSE <<>>
  IN  <<0>> \o [i \in DOMAIN shown |-> shown[i][2]] \o color(c.attrs.fg, 30) \o color(c.attrs.bg, 40)

-----------------------------------------------------------------------------
(* Downloaded sets.                                                        *)

NoGlyph == <<>>
NewRendition == [index \in 0 .. 95 |-> NoGlyph]
NoBuffers == [slot \in 0 .. 1 |-> {}]

DefaultMatrix(level) ==
  CASE level <= 2 -> [narrow |-> 8, wide |-> 5, height |-> 10]
    [] level = 3 -> [narrow |-> 15, wide |-> 9, height |-> 12]
    [] OTHER -> [narrow |-> 10, wide |-> 6, height |-> 16]

\* The buffer with a designation, the last of them if there are two.
Find(c, is96, d) ==
  LET slots == {slot \in 0 .. 1 : \E b \in c.soft[slot] : b.designation = d /\ b.is96 = is96}
  IN  {slot \in slots : \A other \in slots : other <= slot}
DesignationOf(c, slot) == IF c.soft[slot] = {} THEN " @" ELSE (CHOOSE b \in c.soft[slot] : TRUE).designation

Glyph(c, ch, width) ==
  LET offset == ch - SOFT_BASE
      index == (offset % 256) - 32
      buffers == IF offset \div 256 \in 0 .. 1 THEN c.soft[offset \div 256] ELSE {}
  IN  IF offset < 0 \/ index \notin 0 .. 95 \/ buffers = {} THEN NoGlyph
      ELSE (CHOOSE b \in buffers : TRUE).renditions[width][index]

Columns(load) == IF load.size \in {2, 12, 22} THEN "wide" ELSE "narrow"
IsGood(load) ==
  /\ load.size \in {0, 1, 2, 11, 12, 21, 22} /\ load.width \in {0} \cup 2 .. 16 /\ load.height \in 0 .. 16
  /\ load.designation # "" /\ load.font \in 0 .. 2
SlotFor(c, load) ==
  CASE load.font # 0 -> load.font - 1
    [] load.font = 0 /\ \E slot \in 0 .. 1 : c.soft[slot] = {} -> Least({slot \in 0 .. 1 : c.soft[slot] = {}})
    [] OTHER -> 0
Load(c, load) ==
  LET matrix == DefaultMatrix(c.level)
      width == IF load.width # 0 THEN load.width ELSE matrix[Columns(load)]
      height == IF load.height # 0 THEN load.height ELSE matrix.height
      slot == SlotFor(c, load)
      kept == {b \in c.soft[slot] : /\ b.designation = load.designation /\ b.height = height
                                    /\ b.is96 = load.is96 /\ load.erase # 2}
      new == [designation |-> load.designation, is96 |-> load.is96, height |-> height,
              renditions |-> [narrow |-> NewRendition, wide |-> NewRendition]]
      buffer == IF kept = {} THEN new ELSE CHOOSE b \in kept : TRUE
      cleared == IF load.erase = 0 THEN [buffer EXCEPT !.renditions[Columns(load)] = NewRendition] ELSE buffer
      loaded == [cleared EXCEPT !.renditions[Columns(load)] =
                  [index \in 0 .. 95 |-> IF index - load.start + 1 \in DOMAIN load.glyphs
                                         THEN <<width, height, load.glyphs[index - load.start + 1]>> ELSE @[index]]]
  IN  IF ~IsGood(load) THEN c ELSE [c EXCEPT !.soft[slot] = {loaded}]

-----------------------------------------------------------------------------
(* Designating and invoking.                                               *)

InitialSets(max, upss) ==
  [g |-> [i \in 0 .. 3 |-> IF max >= 2 /\ i >= 2 THEN upss ELSE Ascii], gl |-> 0, gr |-> 2, ss |-> 0]

UpssIf(c, is96) == IF Is96(c.upss) = is96 THEN {c.upss} ELSE {}
NationalSets(c, d) == IF c.national THEN {National(n) : n \in {nrc \in DOMAIN NationalNames : d \in NationalNames[nrc]}} ELSE {}
Designated(c, is96, d) ==
  LET soft == {Soft(slot, is96) : slot \in Find(c, is96, d)}
      vt500 == FromDesignator(is96, d)
  IN  CASE c.level >= 2 /\ soft # {} -> soft
        [] (c.level < 2 \/ soft = {}) /\ c.level >= 5 /\ vt500 # {} ->
             {Vt500(name) : name \in {s \in vt500 : s \in IsNational => c.national}}
        [] OTHER ->
             IF is96
             THEN CASE d = "A" /\ c.level >= 3 -> {IsoLatin1} [] d = "<" /\ c.level >= 3 -> UpssIf(c, TRUE) [] OTHER -> {}
             ELSE CASE d \in {"B", "1"} -> {Ascii} [] d \in {"0", "2"} -> {DecSpecialGraphics}
                    [] d = "<" /\ c.level = 2 -> {DecSupplemental} [] d = "<" /\ c.level >= 3 /\ ~Is96(c.upss) -> {c.upss}
                    [] d = "%5" /\ c.level >= 3 -> {DecSupplemental} [] d = ">" /\ c.level >= 3 -> {DecTechnical}
                    [] d = "A" /\ c.level = 1 -> {National("British")} [] OTHER -> NationalSets(c, d)
DesignateIn(c, g, is96, d) ==
  LET sets == Designated(c, is96, d)
  IN  IF sets = {} THEN c ELSE [c EXCEPT !.sets.g[g] = CHOOSE set \in sets : TRUE]

\* A single shift is for one character.
SetFor(sets, byte) == sets.g[IF sets.ss # 0 THEN sets.ss ELSE IF byte < 128 THEN sets.gl ELSE sets.gr]
Translate(sets, byte) == ShownBy[SetFor(sets, byte)][byte % 128]
Shown(c, byte) ==
  CASE ~c.ansi -> ShownBy[IF c.graphics THEN DecSpecialGraphics ELSE Ascii][byte % 128]
    [] c.ansi /\ c.national -> Translate(c.sets, byte % 128)
    [] OTHER -> Translate(c.sets, byte)

SetsAtPowerUp(c) ==
  [c EXCEPT !.level = c.max, !.ansi = TRUE, !.national = c.start.national /\ c.max >= 2, !.locked = FALSE,
            !.upss = c.start.upss, !.sets = InitialSets(c.max, c.start.upss), !.saved = {}, !.attrs = NormalAttrs,
            !.soft = NoBuffers, !.graphics = FALSE]
SoftResetSets(c) ==
  [c EXCEPT !.national = FALSE, !.locked = FALSE, !.upss = c.start.upss, !.sets = InitialSets(c.max, c.start.upss),
            !.attrs = NormalAttrs, !.saved = {}]

-----------------------------------------------------------------------------
(* Reports, and what is made of them when they are given back.             *)

\* DECCIR, without the cursor's place.
CursorInformation(c) ==
  [rendition |-> c.attrs.flags \cap {"bold", "underline", "blink", "reverse", "protected"}, ss |-> c.sets.ss,
   gl |-> c.sets.gl, gr |-> c.sets.gr, is96 |-> {i \in 0 .. 3 : Is96(c.sets.g[i])},
   designators |-> [i \in 1 .. 4 |-> LET set == c.sets.g[i - 1]
                                     IN IF set[1] = "Soft" THEN DesignationOf(c, set[2]) ELSE Designator(set)]]

\* A value that cannot be stops it, and what was restored stays.
RestoreCursorInformation(c, report) ==
  LET lit == [c EXCEPT !.attrs.flags = (@ \cap {"invisible", "dim"}) \cup report.rendition, !.sets.ss = report.ss]
      invoked == [lit EXCEPT !.sets.gl = report.gl, !.sets.gr = report.gr]
      next(d, i) == DesignateIn(d, i - 1, i - 1 \in report.is96, report.designators[i])
  IN  IF report.gl > 3 \/ report.gr > 3 THEN lit
      ELSE FoldLeft(next, invoked, [i \in DOMAIN report.designators |-> i])

SupplementalReport(c) == [size |-> IF Is96(c.upss) THEN 1 ELSE 0, designator |-> Designator(c.upss)]
\* Of the VT520's sets the designator decides, whatever the size says.
AssignSupplemental(c, size, d) ==
  LET vt500 == {name \in FromDesignator(TRUE, d) \cup FromDesignator(FALSE, d) : name \notin IsNational}
  IN  CASE size = 0 /\ d = "%5" -> [c EXCEPT !.upss = DecSupplemental]
        [] size = 1 /\ d = "A" -> [c EXCEPT !.upss = IsoLatin1]
        [] c.level >= 5 /\ vt500 # {} -> [c EXCEPT !.upss = Vt500(CHOOSE name \in vt500 : TRUE)]
        [] OTHER -> c

-----------------------------------------------------------------------------
(* What the host does.                                                     *)

CharsInit == \E start \in CharStarts :
  chars = SetsAtPowerUp([start |-> start, max |-> start.max, level |-> start.max, ansi |-> TRUE, national |-> FALSE,
                   language |-> start.language, locked |-> FALSE, upss |-> start.upss, color |-> start.color,
                   xterm |-> start.xterm, sets |-> InitialSets(start.max, start.upss), saved |-> {},
                   attrs |-> NormalAttrs, soft |-> NoBuffers, graphics |-> FALSE, steps |-> start.steps])
Watched == "start" \in DOMAIN chars
Says(act) == Watched /\ chars.steps > 0 /\ act \in chars.start.acts
Names == IF Watched THEN chars.start.names ELSE {}
Becomes(c) == chars' = [c EXCEPT !.steps = chars.steps - 1]

\* ESC ( to ESC + and ESC - to ESC /; VT100s have two sets.
SCS(g, is96, d) ==
  Says("SCS") /\ g \in chars.start.into /\ chars.ansi /\ (is96 => g # 0) /\ (chars.level < 2 /\ ~is96 => g < 2)
  /\ Becomes(DesignateIn(chars, g, is96, d))
\* SI, SO, LS2, LS3 and the locking shifts right.
LockingShift(gl) ==
  Says("shift") /\ (gl >= 2 => chars.ansi /\ chars.level >= 2) /\ Becomes([chars EXCEPT !.sets.gl = gl])
LockingShiftRight(gr) == Says("shift") /\ chars.ansi /\ chars.level >= 2 /\ Becomes([chars EXCEPT !.sets.gr = gr])
SingleShift(g) == Says("shift") /\ chars.ansi /\ chars.level >= 2 /\ Becomes([chars EXCEPT !.sets.ss = g])
Show(byte) == Says("print") /\ Becomes(IF chars.ansi THEN [chars EXCEPT !.sets.ss = 0] ELSE chars)
DECNRCM(on) == Says("DECNRCM") /\ chars.ansi /\ chars.level >= 3 /\ Becomes([chars EXCEPT !.national = on])
KAM == Says("KAM") /\ chars.ansi /\ Becomes([chars EXCEPT !.locked = ~@])
DECAUPSS(size, d) == Says("DECAUPSS") /\ chars.ansi /\ chars.level >= 3 /\ Becomes(AssignSupplemental(chars, size, d))
SGR(ps) == Says("SGR") /\ chars.ansi /\ Becomes(SelectGraphicRendition(chars, ps))
ProtectText(on) ==
  Says("SGR") /\ chars.ansi /\ chars.level >= 2
  /\ Becomes([chars EXCEPT !.attrs.flags = IF on THEN @ \cup {"protected"} ELSE @ \ {"protected"}])
SaveSets == Says("save") /\ chars.ansi /\ Becomes([chars EXCEPT !.saved = {[sets |-> chars.sets, attrs |-> chars.attrs]}])
RestoreSets ==
  LET default == [sets |-> InitialSets(chars.max, chars.upss), attrs |-> NormalAttrs]
      saved == IF chars.saved = {} THEN default ELSE CHOOSE kept \in chars.saved : TRUE
  IN  Says("save") /\ chars.ansi /\ Becomes([chars EXCEPT !.sets = saved.sets, !.attrs = saved.attrs])
DECDLD(load) == Says("DECDLD") /\ chars.ansi /\ chars.level >= 2 /\ Becomes(Load(chars, load))
GiveBack(report) ==
  Says("DECRSPS") /\ chars.ansi /\ chars.level >= 3 /\ Becomes(RestoreCursorInformation(chars, report))
ResetSets == Says("reset") /\ chars.ansi /\ Becomes(SetsAtPowerUp(chars))
ResetSoftly == Says("reset") /\ chars.ansi /\ chars.level >= 2 /\ Becomes(SoftResetSets(chars))
ConformanceLevel(level) ==
  Says("reset") /\ chars.ansi /\ chars.max >= 2
  /\ Becomes([SetsAtPowerUp(chars) EXCEPT !.level = IF level < chars.max THEN level ELSE chars.max])
\* DECTME: a VT500, a VT100 or a VT52.
TerminalMode(mode) ==
  LET reset == SoftResetSets(chars)
  IN  Says("reset") /\ chars.ansi /\ chars.max >= 5
      /\ Becomes(CASE mode = 1 -> [reset EXCEPT !.level = chars.max] [] mode = 2 -> [reset EXCEPT !.level = 1]
                   [] OTHER -> [reset EXCEPT !.ansi = FALSE, !.graphics = FALSE])
BecomeVt52 == Says("VT52") /\ chars.ansi /\ Becomes([chars EXCEPT !.ansi = FALSE, !.graphics = FALSE])
LeaveVt52 == Says("VT52") /\ ~chars.ansi /\ Becomes([chars EXCEPT !.ansi = TRUE, !.level = 1])
Graphics52(on) == Says("VT52") /\ ~chars.ansi /\ Becomes([chars EXCEPT !.graphics = on])

CharsNext ==
  \/ \E g \in 0 .. 3, d \in Names : SCS(g, d.is96, d.d)
  \/ \E gl \in 0 .. 3 : LockingShift(gl)
  \/ \E gr \in 1 .. 3 : LockingShiftRight(gr)
  \/ \E g \in 2 .. 3 : SingleShift(g)
  \/ Show(65)
  \/ \E on \in BOOLEAN : DECNRCM(on) \/ ProtectText(on) \/ Graphics52(on)
  \/ KAM \/ SaveSets \/ RestoreSets \/ ResetSets \/ ResetSoftly \/ BecomeVt52 \/ LeaveVt52
  \/ \E d \in Names : DECAUPSS(IF d.is96 THEN 1 ELSE 0, d.d)
  \/ \E ps \in Renditions : SGR(ps)
  \/ \E load \in Downloads : DECDLD(load)
  \/ \E report \in Givings : GiveBack(report)
  \/ \E level \in 1 .. 5 : ConformanceLevel(level)
  \/ \E mode \in 1 .. 3 : TerminalMode(mode)
-----------------------------------------------------------------------------
(* What is right.                                                          *)

Marks == {row[3] : row \in COMPOSED}
Visible == {ch \in Characters : ~IsControl(ch) /\ ~Invisible(ch)}
Printable == 32 .. 126 \cup 160 .. 255
\* The sets with which what is typed is what the host would have sent.
TypesWhatIsShown(c) ==
  /\ c.ansi /\ c.level >= 2 /\ c.sets.ss = 0
  /\ \/ ~c.national /\ c.sets.g[c.sets.gl] = Ascii /\ c.sets.g[c.sets.gr] = c.upss
     \/ c.national /\ c.sets.g[c.sets.gl] = IF c.language = "none" THEN Ascii ELSE National(c.language)

\* encode_typed and print_byte go opposite ways through the sets: of a character typed,
\* the code that is sent shows that character when the host echoes it, and a character
\* that is refused is one that none of the codes shows.
TypedIsShown(c) ==
  TypesWhatIsShown(c) =>
    LET codes == IF c.national THEN 32 .. 126 ELSE Printable
        seen == {Shown(c, code) : code \in codes}
    IN  \A ch \in Visible \ {ERROR_CHARACTER} :
          LET typed == EncodeTyped(c, ch)
          IN  /\ typed = {} => ch \notin seen
              /\ \A code \in typed : code \in codes /\ Shown(c, code) = ch

\* What is pasted cannot control the host's terminal, and none of it goes missing: but
\* for the Returns and the tabs there is no control among the codes, whatever is seen
\* sends something, what has a stand-in is never a question mark (a national set may
\* lack the stand-in too), a line break is one Return however it is written, and a
\* letter with its accent after it is the one letter.
PastedPlainly(c) ==
  /\ \A ch \in Characters :
       LET codes == PasteCharacter(c, ch)
       IN  /\ \A i \in DOMAIN codes : IsControl(codes[i]) => codes = <<ch>> /\ ch \in {RETURN, TABULATION}
           /\ ch \in Visible => codes # <<>>
           /\ ch \in Visible /\ ch # QUESTION /\ StandIns[ch] # {} /\ ~c.national => QUESTION \notin Range(codes)
  /\ \A first \in {65, NEWLINE}, second \in {65, TABULATION} :
       LET pasted(break) == Paste(c, <<first>> \o break \o <<second>>)
       IN  /\ pasted(<<RETURN, NEWLINE>>) = pasted(<<RETURN>>) /\ pasted(<<NEWLINE>>) = pasted(<<RETURN>>)
           /\ c.locked => pasted(<<RETURN>>) = <<>>
  /\ \A row \in COMPOSED : Paste(c, <<row[2], row[3], 65>>) = Paste(c, <<row[1], 65>>)

IsPublic(copied) == Len(copied) = 1 => copied[1] \notin 57344 .. 63743 /\ copied[1] < SOFT_BASE

\* None of the code points that only veetee knows is ever copied out of it, and what is
\* copied of a set that can be typed can be pasted: it shows as it did.
CopiedPlainly(c) ==
  /\ \A set \in Range(c.sets.g), code \in 32 .. 127 : IsPublic(CopiedChar(ShownBy[set][code], code))
  /\ \A code \in 0 .. 255 : IsPublic(CopiedChar(ShowControl(c, code), code))
  /\ TypesWhatIsShown(c) =>
       \A code \in IF c.national THEN 32 .. 126 ELSE Printable :
         LET ch == Shown(c, code)
             pasted == Paste([c EXCEPT !.locked = FALSE], CopiedChar(ch, code))
         IN  ch \notin {NoCharacter, ERROR_CHARACTER, 160, 173} /\ ch < TECHNICAL_PUA
               => Len(pasted) = 1 /\ Shown(c, pasted[1]) = ch

\* Whether a buffer has a set of that name.
Downloaded(c, slot, is96, d) == \E b \in c.soft[slot] : b.designation = d /\ b.is96 = is96
\* A set that DECRSPS can designate: the terminal has it at this level, it is of those in
\* use while national sets are, and no downloaded set goes by its name.
MayBeGivenBack(c, set) ==
  IF set[1] = "Soft"
  THEN LET d == DesignationOf(c, set[2])
       IN  Downloaded(c, set[2], set[3], d) /\ ~(set[2] = 0 /\ Downloaded(c, 1, set[3], d))
  ELSE /\ \A slot \in 0 .. 1 : ~Downloaded(c, slot, Is96(set), Designator(set))
       /\ set[1] = "National" => c.national
       /\ set[1] = "Vt500" => c.level >= 5 /\ (set[2] \in IsNational => c.national)
Supplementals(c) ==
  {DecSupplemental, IsoLatin1} \cup (IF c.level >= 5 THEN {Vt500(name) : name \in DOMAIN Vt500Set \ IsNational} ELSE {})

\* A program that asks for the cursor's state, the supplemental set and the renditions
\* (DECCIR, DECRQUPSS, DECRQSS), changes all of them and gives back what it was told has
\* them again: the shifts, each set that may be, the supplemental set, the flags of the
\* report with the protection among them, and the eight colours.
ReportsGiveBack(c) ==
  LET elsewhere == [c EXCEPT !.sets = [g |-> [i \in 0 .. 3 |-> DecSpecialGraphics], gl |-> 1, gr |-> 3, ss |-> 2],
                             !.attrs = [NormalAttrs EXCEPT !.flags = {"blink", "invisible"}]]
      back == RestoreCursorInformation(elsewhere, CursorInformation(c))
      assigned(set, other) ==
        LET report == SupplementalReport([c EXCEPT !.upss = set])
        IN  AssignSupplemental([c EXCEPT !.upss = other], report.size, report.designator)
      lit == SelectGraphicRendition([c EXCEPT !.attrs = [NormalAttrs EXCEPT !.flags = {"bold", "blink"} \cup
                                                           (c.attrs.flags \cap {"protected"})]], SgrReport(c))
      named(color) == Len(color) = 0 \/ (Len(color) = 1 /\ color[1] <= 7)
  IN  c.ansi /\ c.level >= 3 =>
        /\ back.sets.gl = c.sets.gl /\ back.sets.gr = c.sets.gr /\ back.sets.ss = c.sets.ss
        /\ \A i \in 0 .. 3 : MayBeGivenBack(c, c.sets.g[i]) => back.sets.g[i] = c.sets.g[i]
        /\ back.attrs.flags = (c.attrs.flags \ {"invisible", "dim"}) \cup {"invisible"}
        /\ \A set, other \in Supplementals(c) : assigned(set, other).upss = set
        /\ lit.attrs.flags = c.attrs.flags \ {"dim"}
        /\ named(c.attrs.fg) => lit.attrs.fg = c.attrs.fg
        /\ named(c.attrs.bg) => lit.attrs.bg = c.attrs.bg

\* A set that is downloaded displaces none while a buffer is free (unless it says which)
\* and leaves the other buffer alone.  Designated by the name it was given it shows its
\* glyphs, unless the second buffer has a set of that name, and of the glyphs there
\* before just those are there still that the download does not erase.
SoftIsFound(c) == \A load \in Downloads :
  LET after == Load(c, load)
      changed == {slot \in 0 .. 1 : after.soft[slot] # c.soft[slot]}
      index(i) == load.start + i - 1
      told == {index(i) : i \in DOMAIN load.glyphs}
      named == DesignateIn(after, 2, load.is96, load.designation).sets.g[2]
      glyph(i) == Glyph(after, ShownBy[named][32 + index(i)], Columns(load))
      sound(slot) ==
        /\ load.font # 0 => slot = load.font - 1
        /\ \/ slot = 0 /\ Downloaded(c, 1, load.is96, load.designation) /\ named = Soft(1, load.is96)
           \/ /\ named = Soft(slot, load.is96)
              /\ \A i \in DOMAIN load.glyphs :
                   (IF load.is96 THEN index(i) <= 95 ELSE index(i) \in 1 .. 94) => glyph(i)[3] = load.glyphs[i]
        /\ \A old \in c.soft[slot], new \in after.soft[slot], width \in {"narrow", "wide"}, place \in 0 .. 95 :
             (width = Columns(load) => place \notin told) =>
               new.renditions[width][place] =
                 IF /\ old.designation = new.designation /\ old.is96 = new.is96 /\ old.height = new.height
                    /\ load.erase # 2 /\ (load.erase = 0 => width # Columns(load))
                 THEN old.renditions[width][place] ELSE NoGlyph
  IN  c.ansi /\ c.level >= 2 =>
        /\ IF IsGood(load) THEN \E slot \in 0 .. 1 : changed \subseteq {slot} /\ sound(slot) ELSE changed = {}
        /\ load.font = 0 /\ (\E slot \in 0 .. 1 : c.soft[slot] = {}) => \A slot \in changed : c.soft[slot] = {}

CharactersSound ==
  Watched => /\ TypedIsShown(chars) /\ PastedPlainly(chars) /\ CopiedPlainly(chars)
             /\ ReportsGiveBack(chars) /\ SoftIsFound(chars)
=============================================================================
