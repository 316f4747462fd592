--------------------------- MODULE CharacterTables ---------------------------
(***************************************************************************)
(* The characters of the terminal's sets, by code point                    *)
(* (crates/vt-core/src/charset_tables.rs, charset.rs and the tables of     *)
(* terminal/paste.rs).  A table of 96 begins with code 32.                 *)
(***************************************************************************)
EXTENDS Integers, Sequences, FiniteSets

\* A position that DEC leaves undefined.
NoCharacter == 0

Undefined(n) == [i \in 1 .. n |-> NoCharacter]
From(first, last) == [i \in 1 .. last - first + 1 |-> first + i - 1]

-----------------------------------------------------------------------------
(* The sets of the VT510 and VT520.                                        *)

DEC_GREEK ==
  <<32, 161, 162, 163, 0, 165, 0, 167, 164, 169, 170, 171>> \o Undefined(4) \o From(176, 179) \o <<0, 181,
    182, 183, 0>> \o From(185, 189) \o <<0, 191, 970>> \o From(913, 927) \o <<0, 928, 929>> \o From(931,
    937) \o From(940, 943) \o <<0, 972, 971>> \o From(945, 959) \o <<0, 960, 961>> \o From(963, 969) \o
    <<962, 973, 974, 900, 0, 0>>
DEC_HEBREW ==
  <<32, 161, 162, 163, 0, 165, 0, 167, 168, 169, 215, 171>> \o Undefined(4) \o From(176, 179) \o <<0, 181,
    182, 183, 0, 185, 247, 187, 188, 189, 0, 191>> \o Undefined(32) \o From(1488, 1514) \o Undefined(5)
DEC_TURKISH ==
  <<32, 161, 162, 163, 0, 165, 0>> \o From(167, 171) \o <<0, 0, 304, 0>> \o From(176, 179) \o <<0, 181,
    182, 183, 0>> \o From(185, 189) \o <<305>> \o From(191, 207) \o <<286>> \o From(209, 214) \o <<338>> \o
    From(216, 220) \o <<376, 350>> \o From(223, 239) \o <<287>> \o From(241, 246) \o <<339>> \o From(248,
    252) \o <<255, 351, 0>>
DEC_CYRILLIC ==
  <<32>> \o Undefined(31) \o <<1102, 1072, 1073, 1094, 1076, 1077, 1092, 1075, 1093>> \o From(1080, 1087)
    \o <<1103>> \o From(1088, 1091) \o <<1078, 1074, 1100, 1099, 1079, 1096, 1101, 1097, 1095, 1098, 1070,
    1040, 1041, 1062, 1044, 1045, 1060, 1043, 1061>> \o From(1048, 1055) \o <<1071>> \o From(1056, 1059) \o
    <<1046, 1042, 1068, 1067, 1047, 1064, 1069, 1065, 1063, 0>>
ISO_LATIN_2 ==
  <<160, 260, 728, 321, 164, 317, 346, 167, 168, 352, 350, 356, 377, 173, 381, 379, 176, 261, 731, 322,
    180, 318, 347, 711, 184, 353, 351, 357, 378, 733, 382, 380, 340, 193, 194, 258, 196, 313, 262, 199,
    268, 201, 280, 203, 282, 205, 206, 270, 272, 323, 327, 211, 212, 336, 214, 215, 344, 366, 218, 368,
    220, 221, 354, 223, 341, 225, 226, 259, 228, 314, 263, 231, 269, 233, 281, 235, 283, 237, 238, 271,
    273, 324, 328, 243, 244, 337, 246, 247, 345, 367, 250, 369, 252, 253, 355, 729>>
ISO_GREEK ==
  <<160, 8216, 8217, 163, 0, 0>> \o From(166, 169) \o <<0, 171, 172, 173, 0, 8213>> \o From(176, 179) \o
    <<900, 901, 902, 183, 904, 905, 906, 187, 908, 189>> \o From(910, 929) \o <<0>> \o From(931, 974) \o
    <<0>>
ISO_HEBREW ==
  <<160, 0>> \o From(162, 169) \o <<215>> \o From(171, 185) \o <<247>> \o From(187, 190) \o Undefined(32)
    \o <<8215>> \o From(1488, 1514) \o Undefined(5)
ISO_CYRILLIC ==
  <<160>> \o From(1025, 1036) \o <<173>> \o From(1038, 1103) \o <<8470>> \o From(1105, 1116) \o <<167,
    1118, 1119>>
ISO_LATIN_5 ==
  From(160, 207) \o <<286>> \o From(209, 220) \o <<304, 350>> \o From(223, 239) \o <<287>> \o From(241,
    252) \o <<305, 351, 255>>
NRC_GREEK ==
  From(32, 96) \o From(913, 925) \o <<935, 927, 928, 929>> \o From(931, 934) \o <<926, 936, 937, 0, 0>> \o
    From(123, 126) \o <<0>>
NRC_HEBREW ==
  From(32, 95) \o From(1488, 1514) \o From(123, 126) \o <<0>>
NRC_TURKISH ==
  From(32, 37) \o <<287>> \o From(39, 63) \o <<304>> \o From(65, 90) \o <<350, 214, 199, 220, 95, 286>> \o
    From(97, 122) \o <<351, 246, 231, 252, 0>>
NRC_SERBO_CROATIAN ==
  From(32, 63) \o <<381>> \o From(65, 90) \o <<352, 272, 262, 268, 95, 382>> \o From(97, 122) \o <<353,
    273, 263, 269, 0>>
NRC_RUSSIAN ==
  From(32, 95) \o <<1070, 1040, 1041, 1062, 1044, 1045, 1060, 1043, 1061>> \o From(1048, 1055) \o <<1071>>
    \o From(1056, 1059) \o <<1046, 1042, 1068, 1067, 1047, 1064, 1069, 1065, 1063, 0>>

-----------------------------------------------------------------------------
(* DEC Technical from code 33, DEC Special Graphics from code 95, and what *)
(* the national sets have in twelve places of ASCII.                       *)

TECHNICAL ==
  <<9143, 9484, 9472, 8992, 8993, 9474, 9121, 9123, 9124, 9126, 9115, 9117, 9118, 9120, 9128, 9132>> \o
    From(63457, 63463) \o Undefined(4) \o <<8804, 8800, 8805, 8747, 8756, 8733, 8734, 247, 916, 8711, 934,
    915, 8764, 8771, 920, 215, 923, 8660, 8658, 8801, 928, 936, 0, 931, 0, 0, 8730, 937, 926, 933, 8834,
    8835, 8745, 8746, 8743, 8744, 172, 945, 946, 967, 948, 949, 966, 947, 951, 953, 952, 954, 955, 0, 957,
    8706, 960, 968, 961, 963, 964, 0, 402, 969, 958, 965, 950>> \o From(8592, 8595)
SPECIAL_GRAPHICS ==
  <<160, 9670, 9618, 9225, 9228, 9229, 9226, 176, 177, 9252, 9227, 9496, 9488, 9484, 9492, 9532, 9146,
    9147, 9472, 9148, 9149, 9500, 9508, 9524, 9516, 9474, 8804, 8805, 960, 8800, 163, 183>>
NRC_POSITIONS == <<35, 64, 91, 92, 93, 94, 95, 96, 123, 124, 125, 126>>
NrcTable ==
  [British |-> <<163, 64, 91, 92, 93, 94, 95, 96, 123, 124, 125, 126>>,
   Dutch |-> <<163, 190, 307, 189, 124, 94, 95, 96, 168, 402, 188, 180>>,
   Finnish |-> <<35, 64, 196, 214, 197, 220, 95, 233, 228, 246, 229, 252>>,
   French |-> <<163, 224, 176, 231, 167, 94, 95, 96, 233, 249, 232, 168>>,
   FrenchCanadian |-> <<35, 224, 226, 231, 234, 238, 95, 244, 233, 249, 232, 251>>,
   German |-> <<35, 167, 196, 214, 220, 94, 95, 96, 228, 246, 252, 223>>,
   Italian |-> <<163, 167, 176, 231, 233, 94, 95, 249, 224, 242, 232, 236>>,
   NorwegianDanish |-> <<35, 196, 198, 216, 197, 220, 95, 228, 230, 248, 229, 252>>,
   Portuguese |-> <<35, 64, 195, 199, 213, 94, 95, 96, 227, 231, 245, 126>>,
   Spanish |-> <<163, 167, 161, 209, 191, 94, 95, 96, 176, 241, 231, 126>>,
   Swedish |-> <<35, 201, 196, 214, 197, 220, 95, 233, 228, 246, 229, 252>>,
   Swiss |-> <<249, 224, 233, 231, 234, 238, 232, 244, 228, 246, 252, 251>>]

-----------------------------------------------------------------------------
(* Letters with an accent: the letter, its base and the mark.              *)

Accented(mark, letters, bases) == {<<letters[i], bases[i], mark>> : i \in DOMAIN letters}

COMPOSED ==
  UNION { Accented(768, <<192, 200, 204, 210, 217, 224, 232, 236, 242, 249>>,
       <<65, 69, 73, 79, 85, 97, 101, 105, 111, 117>>),
    Accented(769, <<193, 201, 205, 211, 218, 221, 225, 233, 237, 243, 250, 253, 262, 263, 313, 314, 323,
      324, 340, 341, 346, 347, 377, 378>>,
       <<65, 69, 73, 79, 85, 89, 97, 101, 105, 111, 117, 121, 67, 99, 76, 108, 78, 110, 82, 114, 83, 115, 90,
         122>>),
    Accented(770, <<194, 202, 206, 212, 219, 226, 234, 238, 244, 251, 264, 265, 284, 285, 292, 293, 308,
      309, 348, 349, 372, 373, 374, 375>>,
       <<65, 69, 73, 79, 85, 97, 101, 105, 111, 117, 67, 99, 71, 103, 72, 104, 74, 106, 83, 115, 87, 119, 89,
         121>>),
    Accented(771, <<195, 209, 213, 227, 241, 245, 296, 297, 360, 361>>,
       <<65, 78, 79, 97, 110, 111, 73, 105, 85, 117>>),
    Accented(772, <<256, 257, 274, 275, 298, 299, 332, 333, 362, 363>>,
       <<65, 97, 69, 101, 73, 105, 79, 111, 85, 117>>),
    Accented(774, <<258, 259, 286, 287, 364, 365>>,
       <<65, 97, 71, 103, 85, 117>>),
    Accented(775, <<266, 267, 278, 279, 288, 289, 304, 379, 380>>,
       <<67, 99, 69, 101, 71, 103, 73, 90, 122>>),
    Accented(776, <<196, 203, 207, 214, 220, 376, 228, 235, 239, 246, 252, 255>>,
       <<65, 69, 73, 79, 85, 89, 97, 101, 105, 111, 117, 121>>),
    Accented(778, <<197, 229, 366, 367>>,
       <<65, 97, 85, 117>>),
    Accented(779, <<336, 337, 368, 369>>,
       <<79, 111, 85, 117>>),
    Accented(780, <<268, 269, 270, 271, 282, 283, 327, 328, 344, 345, 352, 353, 356, 357, 381, 382>>,
       <<67, 99, 68, 100, 69, 101, 78, 110, 82, 114, 83, 115, 84, 116, 90, 122>>),
    Accented(807, <<199, 231, 350, 351, 354, 355, 290, 291, 310, 311, 315, 316, 325, 326, 342, 343>>,
       <<67, 99, 83, 115, 84, 116, 71, 103, 75, 107, 76, 108, 78, 110, 82, 114>>),
    Accented(808, <<260, 261, 280, 281, 302, 303, 370, 371>>,
       <<65, 97, 69, 101, 73, 105, 85, 117>>)}

(* What stands for a character that has no code.                           *)

SUBSTITUTES ==
  {<<{8216, 8217, 8218, 8219, 8242, 700}, <<39>>>>, <<{8220, 8221, 8222, 8223, 8243}, <<34>>>>,
   <<{8208, 8209, 8210, 8211, 8212, 8213, 8722}, <<45>>>>, <<{8230}, <<46, 46, 46>>>>,
   <<{8226, 8729, 9702, 8227}, <<42>>>>, <<{8249}, <<60>>>>, <<{8250}, <<62>>>>, <<{171}, <<60, 60>>>>,
   <<{187}, <<62, 62>>>>, <<{8592}, <<60, 45>>>>, <<{8594}, <<45, 62>>>>, <<{8656, 8804}, <<60, 61>>>>,
   <<{8658}, <<61, 62>>>>, <<{8805}, <<62, 61>>>>, <<{8800}, <<47, 61>>>>, <<{215}, <<120>>>>, <<{247}, <<47>>>>,
   <<{8364}, <<69, 85, 82>>>>, <<{8482}, <<84, 77>>>>, <<{169}, <<40, 67, 41>>>>, <<{174}, <<40, 82, 41>>>>,
   <<{176, 248}, <<111>>>>, <<{160, 8239, 8287, 12288} \cup 8192 .. 8202, <<32>>>>, <<{321}, <<76>>>>,
   <<{272}, <<68>>>>, <<{216}, <<79>>>>, <<{322}, <<108>>>>, <<{273}, <<100>>>>, <<{305}, <<105>>>>,
   <<{223}, <<115, 115>>>>, <<{198}, <<65, 69>>>>, <<{230}, <<97, 101>>>>, <<{338}, <<79, 69>>>>,
   <<{339}, <<111, 101>>>>, <<{222}, <<84, 104>>>>, <<{254}, <<116, 104>>>>}
=============================================================================
