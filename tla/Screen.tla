------------------------------- MODULE Screen -------------------------------
(***************************************************************************)
(* The page memory of the terminal and everything that moves about it:     *)
(* the cursor, the margins, the pages and the window onto them, the status *)
(* line, the tab stops, what scrolled off the top, and the resets          *)
(* (crates/vt-core/src/terminal/mod.rs, with grid.rs, rect.rs, capture.rs, *)
(* and the parts of reports.rs, vt520.rs and setup.rs that change them).   *)
(*                                                                         *)
(* The terminal is a VT420.  `emu` is the Emulator of the code: each       *)
(* operator from an emulator to an emulator is the function of that name,  *)
(* and each action is what the host sends, or the user does, that calls    *)
(* it.  A cell is blank, written, or written and protected (DECSCA); its   *)
(* character, rendition and colours are left out.  Rows, columns and pages *)
(* count from zero, as in the code.                                        *)
(***************************************************************************)
EXTENDS Integers, Sequences, FiniteSets, SequencesExt

CONSTANTS
  Narrow,       \* the columns of a page, 80
  Wide,         \* and of a wide one, 132
  Lengths,      \* the page lengths DECSLPP accepts
  PagesFor,     \* how many pages of each length page memory holds
  Heights,      \* the screen heights DECSNLS selects from, in order
  TabWidth,     \* a default tab stop every eighth column
  BellGap,      \* the margin bell rings eight columns from the margin
  ScrollMax,    \* the lines kept once they leave the page
  SetUps,       \* the Set-Up features that may be saved, NotSaved among them
  NotSaved,
  Repertoires,  \* which control functions a host may use, in one behaviour
  MaxSteps      \* how many of them it sends

ASSUME ScreenAssumption ==
  /\ Narrow \in Nat /\ Wide \in Nat /\ 2 <= Narrow /\ Narrow < Wide
  /\ Lengths \subseteq Nat \ {0, 1} /\ Lengths # {}
  /\ PagesFor \in [Lengths -> Nat \ {0}]
  /\ Heights \in Seq(Nat \ {0}) /\ Heights # <<>>
  /\ TabWidth \in Nat \ {0} /\ BellGap \in Nat /\ ScrollMax \in Nat
  /\ NotSaved \in SetUps /\ MaxSteps \in Nat

VARIABLES
  emu,          \* the terminal
  setup,        \* the saved Set-Up features, applied at power-up
  reported,     \* the state report (DECTSR) the host holds
  repertoire,   \* what this host uses
  steps

vars == <<emu, setup, reported, repertoire, steps>>

Lesser(a, b) == IF a < b THEN a ELSE b
Greater(a, b) == IF a > b THEN a ELSE b
Upto(n) == [i \in 1 .. n |-> i]
Times(op(_), e, n) == FoldLeft(LAMBDA x, i : op(x), e, Upto(n))

-----------------------------------------------------------------------------
(* Lines and grids (grid.rs).                                              *)

Blank == "blank"
Written(protect) == IF protect THEN "protected" ELSE "written"

NewLine(cols) == [cells |-> [c \in 0 .. cols - 1 |-> Blank], double |-> FALSE, wrapped |-> FALSE]
LineLen(l) == Cardinality(DOMAIN l.cells)
LineWidth(l) == IF l.double THEN LineLen(l) \div 2 ELSE LineLen(l)

LineErase(l, cols) ==
  [l EXCEPT !.cells = [c \in DOMAIN @ |-> IF c \in cols THEN Blank ELSE @[c]]]

EraseUnprotected(l, cols) ==
  [l EXCEPT !.cells = [c \in DOMAIN @ |->
     IF c \in cols /\ @[c] # "protected" THEN Blank ELSE @[c]]]

\* Opens n blank cells at `at`; what is pushed past `right` is lost.
LineInsert(l, at, right, n) ==
  LET last == Lesser(right, LineLen(l) - 1)
      k == Lesser(n, last - at + 1)
  IN  [l EXCEPT !.cells = [c \in DOMAIN @ |->
         IF c < at \/ c > last THEN @[c] ELSE IF c < at + k THEN Blank ELSE @[c - k]]]

\* Takes n cells out at `at`; blanks come in at `right`.
LineDelete(l, at, right, n) ==
  LET last == Lesser(right, LineLen(l) - 1)
      k == Lesser(n, last - at + 1)
  IN  [l EXCEPT !.cells = [c \in DOMAIN @ |->
         IF c < at \/ c > last THEN @[c] ELSE IF c + k > last THEN Blank ELSE @[c + k]]]

LineResize(l, cols) ==
  [l EXCEPT !.cells = [c \in 0 .. cols - 1 |-> IF c \in DOMAIN @ THEN @[c] ELSE Blank]]

NewGrid(rows, cols) == [r \in 0 .. rows - 1 |-> NewLine(cols)]
GridRows(g) == Cardinality(DOMAIN g)
GridCols(g) == LineLen(g[0])
GridResize(g, rows, cols) ==
  [r \in 0 .. rows - 1 |-> IF r \in DOMAIN g THEN LineResize(g[r], cols) ELSE NewLine(cols)]

WholeWidth(g, region) == region.left = 0 /\ region.right + 1 >= GridCols(g)
\* The cells of `from` between the margins, on the line `to`.
Between(to, from, region) ==
  [to EXCEPT !.cells = [c \in DOMAIN @ |->
     IF c \in region.left .. region.right THEN from.cells[c] ELSE @[c]]]

\* Whole lines move, with their size; between margins only the cells do.
Scroll(g, region, n, up) ==
  LET span == region.top .. region.bottom
      from(r) == IF up THEN r + n ELSE r - n
      source(r) == IF from(r) \in span THEN g[from(r)] ELSE NewLine(GridCols(g))
  IN  [r \in DOMAIN g |-> IF r \notin span THEN g[r]
                          ELSE IF WholeWidth(g, region) THEN source(r)
                          ELSE Between(g[r], source(r), region)]

-----------------------------------------------------------------------------
(* The geometry of the page.                                               *)

Rows(e) == GridRows(e.grid)
Cols(e) == GridCols(e.grid)
PageCount(e) == Len(e.pages)
CursorLine(e) == IF e.status.active THEN e.statusLine ELSE e.grid[e.cursor.row]
WithCursorLine(e, l) ==
  IF e.status.active THEN [e EXCEPT !.statusLine = l] ELSE [e EXCEPT !.grid[e.cursor.row] = l]
LastCol(e) == LineWidth(CursorLine(e)) - 1
BetweenColumns(e) == e.cursor.col \in e.left .. e.right
BetweenRows(e) == e.cursor.row \in e.top .. e.bottom
WithinMargins(e) == BetweenRows(e) /\ BetweenColumns(e)
RegionFrom(e, top) == [top |-> top, bottom |-> e.bottom, left |-> e.left, right |-> e.right]
\* The last column the cursor can reach from where it is.
RightLimit(e) ==
  IF ~e.status.active /\ BetweenColumns(e) THEN Lesser(e.right, LastCol(e)) ELSE LastCol(e)

ResetMargins(e) ==
  [e EXCEPT !.top = 0, !.bottom = Rows(e) - 1, !.left = 0, !.right = Cols(e) - 1]

\* What a session log is to hold (capture.rs).
CaptureText(e, t) == IF e.capture.on THEN [e EXCEPT !.capture.text = Append(@, t)] ELSE e
CaptureBreak(e) ==
  IF e.capture.text = <<>> \/ Last(e.capture.text) = "newline" THEN e ELSE CaptureText(e, "newline")
CaptureBackspace(e) ==
  IF e.capture.text = <<>> \/ Last(e.capture.text) = "newline"
  THEN e ELSE [e EXCEPT !.capture.text = Front(@)]

\* Every absolute move: inside the page and the line.
Goto(e, row, col) ==
  LET at == Lesser(row, Rows(e) - 1)
      moved == IF at # e.cursor.row THEN CaptureBreak(e) ELSE e
  IN  IF e.status.active
      THEN [e EXCEPT !.cursor.col = Lesser(col, LineWidth(e.statusLine) - 1),
                     !.cursor.pendingWrap = FALSE]
      ELSE [moved EXCEPT !.cursor.row = at,
                         !.cursor.col = Lesser(col, LineWidth(e.grid[at]) - 1),
                         !.cursor.pendingWrap = FALSE]

\* CUP, which origin mode makes relative to the margins.
Cup(e, row, col) ==
  IF e.modes.origin THEN Goto(e, Lesser(e.top + row, e.bottom), Lesser(e.left + col, e.right))
  ELSE Goto(e, row, col)

Cuu(e, n) ==
  Goto(e, Greater(e.cursor.row - n, IF e.cursor.row >= e.top THEN e.top ELSE 0), e.cursor.col)
Cud(e, n) ==
  Goto(e, Lesser(e.cursor.row + n, IF e.cursor.row <= e.bottom THEN e.bottom ELSE Rows(e) - 1),
       e.cursor.col)
LeftLimit(e) == IF e.cursor.col >= e.left /\ ~e.status.active THEN e.left ELSE 0
Cuf(e, n) == Goto(e, e.cursor.row, Lesser(e.cursor.col + n, RightLimit(e)))
Cub(e, n) == Goto(e, e.cursor.row, Greater(e.cursor.col - n, LeftLimit(e)))
CarriageReturn(e) == Goto(e, e.cursor.row, LeftLimit(e))

\* Lines that leave the top of the first page are kept, the newest ones.
Kept(e, lines) ==
  LET all == e.scrollback \o lines
  IN  IF Len(all) <= ScrollMax THEN all ELSE SubSeq(all, Len(all) - ScrollMax + 1, Len(all))

ScrollUp(e, n) ==
  LET region == RegionFrom(e, e.top)
      leaving == [i \in 1 .. n |-> e.grid[e.top + i - 1]]
      keep == e.top = 0 /\ e.page = 0 /\ WholeWidth(e.grid, region)
  IN  [e EXCEPT !.grid = Scroll(@, region, n, TRUE),
                !.scrollback = IF keep THEN Kept(e, leaving) ELSE @]

Index(e) ==
  LET down == IF e.cursor.row = e.bottom
              THEN IF BetweenColumns(e) THEN ScrollUp(e, 1) ELSE e
              ELSE [e EXCEPT !.cursor.row = Lesser(@ + 1, Rows(e) - 1)]
  IN  IF e.status.active THEN e ELSE Goto(down, down.cursor.row, down.cursor.col)

ReverseIndex(e) ==
  LET up == IF e.cursor.row = e.top
            THEN IF BetweenColumns(e)
                 THEN [e EXCEPT !.grid = Scroll(@, RegionFrom(e, e.top), 1, FALSE)] ELSE e
            ELSE [e EXCEPT !.cursor.row = Greater(@ - 1, 0)]
  IN  IF e.status.active THEN e ELSE Goto(up, up.cursor.row, up.cursor.col)

LineFeed(e) == IF e.modes.newLine THEN CarriageReturn(Index(e)) ELSE Index(e)

DefaultStop(c) == c > 0 /\ c % TabWidth = 0
DefaultTabs(cols) == [c \in 0 .. cols - 1 |-> DefaultStop(c)]
ResizeTabs(tabs, cols) ==
  [c \in 0 .. cols - 1 |-> IF c \in DOMAIN tabs THEN tabs[c] ELSE DefaultStop(c)]

Tab(e) ==
  LET last == IF e.cursor.col <= e.right /\ ~e.status.active THEN Lesser(e.right, LastCol(e))
              ELSE LastCol(e)
      stops == {c \in e.cursor.col + 1 .. last - 1 : e.tabs[c]} \cup {last}
  IN  Goto(e, e.cursor.row, Min(stops))


-----------------------------------------------------------------------------
(* Writing.                                                                *)

PutChar(e) ==
  LET wraps == e.cursor.pendingWrap /\ e.modes.autowrap /\ ~e.status.active
      inside == BetweenColumns(e)
      down == Index([e EXCEPT !.grid[e.cursor.row].wrapped = TRUE])
      at == IF wraps THEN [down EXCEPT !.cursor.col = IF inside THEN e.left ELSE 0] ELSE e
      col == at.cursor.col
      last == RightLimit(at)
      logged == IF at.status.active THEN at ELSE CaptureText(at, "char")
      room == IF at.modes.insert THEN LineInsert(CursorLine(at), col, last, 1) ELSE CursorLine(at)
      put == WithCursorLine(logged, [room EXCEPT !.cells[col] = Written(e.cursor.protect)])
  IN  IF col >= last
      THEN [put EXCEPT !.cursor.col = last,
                       !.cursor.pendingWrap = e.modes.autowrap /\ ~e.status.active]
      ELSE [put EXCEPT !.cursor.col = col + 1, !.cursor.pendingWrap = FALSE,
                       !.bell = @ \/ (last >= BellGap /\ col + 1 = last - BellGap)]

\* A run that goes on into the margins from the left of them.
RunLengthAcross(e, n) ==
  IF ~e.modes.ansi \/ e.modes.insert \/ e.cursor.pendingWrap THEN 0
  ELSE Lesser(n, Greater(RightLimit(e) - e.cursor.col, 0))
\* How many of n characters can be written at one go: none that would reach
\* the margin, and none past the column where the margins begin.
RunLength(e, n) ==
  LET last == RightLimit(e)
      stop == IF ~e.status.active /\ e.modes.lrMargins /\ e.cursor.col < e.left
              THEN Lesser(e.left, last) ELSE last
  IN  IF ~e.modes.ansi \/ e.modes.insert \/ e.cursor.pendingWrap THEN 0
      ELSE Lesser(n, Greater(stop - e.cursor.col, 0))

PrintAsciiRun(e, n) ==
  LET from == e.cursor.col
      last == RightLimit(e)
      line == CursorLine(e)
      logged == IF e.status.active THEN e ELSE Times(LAMBDA x : CaptureText(x, "char"), e, n)
      put == WithCursorLine(logged, [line EXCEPT !.cells = [c \in DOMAIN @ |->
               IF c \in from .. from + n - 1 THEN Written(e.cursor.protect) ELSE @[c]]])
  IN  [put EXCEPT !.cursor.col = from + n,
                  !.bell = @ \/ (last >= BellGap /\ last - BellGap \in from + 1 .. from + n)]

\* A run of n characters: as much of it at one go as can be, the rest singly.
PrintRun(e, n) ==
  LET some(done, i) ==
        LET k == RunLength(done.e, done.left)
        IN  IF done.left = 0 THEN done
            ELSE IF k = 0 THEN [e |-> PutChar(done.e), left |-> done.left - 1]
            ELSE [e |-> PrintAsciiRun(done.e, k), left |-> done.left - k]
  IN  FoldLeft(some, [e |-> e, left |-> n], Upto(n)).e

-----------------------------------------------------------------------------
(* Erasing and editing.                                                    *)

EraseLine(e, mode, selective) ==
  LET cols == CASE mode = 0 -> e.cursor.col .. LineLen(CursorLine(e)) - 1
                [] mode = 1 -> 0 .. e.cursor.col
                [] OTHER -> DOMAIN CursorLine(e).cells
      line == IF selective THEN EraseUnprotected(CursorLine(e), cols)
              ELSE LineErase(CursorLine(e), cols)
  IN  [WithCursorLine(e, line) EXCEPT !.cursor.pendingWrap = FALSE]

\* A line erased from its first column to its last becomes single width.
EraseDisplay(e, mode, selective) ==
  LET at == e.cursor
      whole == CASE mode = 0 -> at.row + 1 .. Rows(e) - 1
                 [] mode = 1 -> 0 .. at.row - 1
                 [] OTHER -> DOMAIN e.grid
      all == DOMAIN e.grid[0].cells
      part == IF mode = 0 THEN at.col .. Cols(e) - 1 ELSE 0 .. at.col
      emptied(l, cols) == IF selective THEN EraseUnprotected(l, cols) ELSE NewLine(Cols(e))
      cleared == selective \/ (mode = 0 /\ at.col = 0) \/ (mode = 1 /\ at.col >= LastCol(e))
      erased == [r \in DOMAIN e.grid |->
                   IF r \in whole THEN emptied(e.grid[r], all)
                   ELSE IF r # at.row THEN e.grid[r]
                   ELSE IF cleared THEN emptied(e.grid[r], part)
                   ELSE LineErase(e.grid[r], part)]
  IN  IF e.status.active THEN EraseLine(e, 2, selective)
      ELSE [e EXCEPT !.grid = erased, !.cursor.pendingWrap = FALSE]

\* IL (opening lines) and DL (closing them), at the cursor.
ShiftLines(e, n, up) ==
  LET k == Lesser(n, e.bottom - e.cursor.row + 1)
  IN  IF e.status.active \/ ~WithinMargins(e) THEN e
      ELSE CarriageReturn([e EXCEPT !.grid = Scroll(@, RegionFrom(e, e.cursor.row), k, up)])

\* ICH and DCH.
ShiftChars(e, n, insert) ==
  LET line == IF insert THEN LineInsert(CursorLine(e), e.cursor.col, RightLimit(e), n)
              ELSE LineDelete(CursorLine(e), e.cursor.col, RightLimit(e), n)
  IN  IF ~e.status.active /\ ~BetweenColumns(e) THEN e
      ELSE [WithCursorLine(e, line) EXCEPT !.cursor.pendingWrap = FALSE]

Shifted(e, col, n, insert) ==
  [r \in DOMAIN e.grid |->
     IF r \notin e.top .. e.bottom THEN e.grid[r]
     ELSE IF insert THEN LineInsert(e.grid[r], col, e.right, n)
     ELSE LineDelete(e.grid[r], col, e.right, n)]

\* DECIC and DECDC.
InsertColumns(e, n, insert) ==
  IF e.status.active \/ ~WithinMargins(e) THEN e
  ELSE [e EXCEPT !.grid = Shifted(e, e.cursor.col, n, insert), !.cursor.pendingWrap = FALSE]

\* DECBI and DECFI: at the margin the columns move instead of the cursor.
BackIndex(e) ==
  IF e.status.active THEN e
  ELSE IF e.cursor.col = e.left /\ BetweenRows(e) THEN [e EXCEPT !.grid = Shifted(e, e.left, 1, TRUE)]
  ELSE IF e.cursor.col > 0 THEN Goto(e, e.cursor.row, e.cursor.col - 1) ELSE e

ForwardIndex(e) ==
  IF e.status.active THEN e
  ELSE IF e.cursor.col = e.right /\ BetweenRows(e)
  THEN [e EXCEPT !.grid = Shifted(e, e.left, 1, FALSE)]
  ELSE IF e.cursor.col < LastCol(e) THEN Goto(e, e.cursor.row, e.cursor.col + 1) ELSE e

EraseChars(e, n) ==
  [WithCursorLine(e, LineErase(CursorLine(e), e.cursor.col .. e.cursor.col + n - 1))
     EXCEPT !.cursor.pendingWrap = FALSE]

-----------------------------------------------------------------------------
(* Rectangles (rect.rs).                                                   *)

\* The corners given, which origin mode moves and the page ends.
RectAt(e, corners) ==
  LET oy == IF e.modes.origin THEN e.top ELSE 0
      ox == IF e.modes.origin THEN e.left ELSE 0
  IN  [top |-> Lesser(corners.top + oy, Rows(e) - 1), left |-> Lesser(corners.left + ox, Cols(e) - 1),
       bottom |-> Lesser(corners.bottom + oy, Rows(e) - 1),
       right |-> Lesser(corners.right + ox, Cols(e) - 1)]
Inside(rect, r, c) == r \in rect.top .. rect.bottom /\ c \in rect.left .. rect.right
MapRect(g, rect, f(_)) ==
  [r \in DOMAIN g |-> [g[r] EXCEPT !.cells = [c \in DOMAIN @ |->
     IF Inside(rect, r, c) THEN f(@[c]) ELSE @[c]]]]

EraseRectangle(e, corners) ==
  [e EXCEPT !.grid = MapRect(@, RectAt(e, corners), LAMBDA cell : Blank)]
SelectiveEraseRectangle(e, corners) ==
  [e EXCEPT !.grid = MapRect(@, RectAt(e, corners),
                             LAMBDA cell : IF cell = "protected" THEN cell ELSE Blank)]
FillRectangle(e, corners) ==
  [e EXCEPT !.grid = MapRect(@, RectAt(e, corners), LAMBDA cell : Written(e.cursor.protect))]

\* DECCRA: all of it is read before any of it is written.
CopyRectangle(e, corners, top, left) ==
  LET src == RectAt(e, corners)
      dy == top + (IF e.modes.origin THEN e.top ELSE 0) - src.top
      dx == left + (IF e.modes.origin THEN e.left ELSE 0) - src.left
  IN  [e EXCEPT !.grid = [r \in DOMAIN @ |-> [@[r] EXCEPT !.cells = [c \in DOMAIN @ |->
         IF Inside(src, r - dy, c - dx) THEN e.grid[r - dy].cells[c - dx] ELSE @[c]]]]]

-----------------------------------------------------------------------------
(* The status line, the window and the pages.                              *)

ExitStatusLine(e) ==
  LET main == e.status.main
      back == Goto([e EXCEPT !.status.col = e.cursor.col, !.status.active = FALSE],
                   main.row, main.col)
  IN  IF e.status.active THEN [back EXCEPT !.cursor.pendingWrap = main.pendingWrap] ELSE e

SetStatusType(e, kind) ==
  LET left == IF kind # "host" THEN ExitStatusLine(e) ELSE e
  IN  [left EXCEPT !.status.kind = kind,
                   !.statusLine = IF kind # left.status.kind THEN NewLine(LineLen(@)) ELSE @]

SetActiveDisplay(e, statusLine) ==
  IF ~statusLine THEN ExitStatusLine(e)
  ELSE IF e.status.kind # "host" \/ e.status.active THEN e
  ELSE [e EXCEPT !.status.main = [row |-> e.cursor.row, col |-> e.cursor.col,
                                  pendingWrap |-> e.cursor.pendingWrap],
                 !.status.active = TRUE,
                 !.cursor.col = Lesser(e.status.col, LineWidth(e.statusLine) - 1),
                 !.cursor.pendingWrap = FALSE]

\* DECVCCM: the window moves to keep the cursor in view.
MaxTop(e) == Greater(Rows(e) - e.screenLines, 0)
Couple(e) ==
  LET row == e.cursor.row
      top == IF ~(e.modes.verticalCoupling /\ e.displayPage = e.page) THEN e.windowTop
             ELSE IF row < e.windowTop THEN row
             ELSE IF row >= e.windowTop + e.screenLines THEN row + 1 - e.screenLines
             ELSE e.windowTop
  IN  [e EXCEPT !.windowTop = Lesser(top, MaxTop(e))]

Pan(e, delta) == [e EXCEPT !.windowTop = Lesser(Greater(@ + delta, 0), MaxTop(e))]

\* The slot of the page the cursor is on is empty: that page is the grid.
InUse == <<>>
SwitchPage(e, target) ==
  LET page == Lesser(target, PageCount(e) - 1)
      there == IF page = e.page THEN e
               ELSE [e EXCEPT !.grid = e.pages[page + 1], !.page = page,
                              !.pages = [@ EXCEPT ![e.page + 1] = e.grid, ![page + 1] = InUse]]
      shown == IF e.modes.pageCoupling THEN [there EXCEPT !.displayPage = page] ELSE there
  IN  Goto(shown, e.cursor.row, e.cursor.col)

MovePage(e, target, home) ==
  LET page == Lesser(Greater(target, 0), PageCount(e) - 1)
      there == SwitchPage(e, page)
  IN  IF PageCount(e) < 2 \/ e.status.active THEN e
      ELSE IF home THEN Goto(there, 0, 0) ELSE there

ForEachPage(e, f(_)) ==
  [e EXCEPT !.grid = f(@),
            !.pages = [i \in DOMAIN @ |-> IF i = e.page + 1 THEN @[i] ELSE f(@[i])]]

\* What the host is told of the size of the page (session.rs, by an event).
Told(e) == [e EXCEPT !.told = [rows |-> Rows(e), cols |-> Cols(e)]]

\* A page length that leaves the page shown as it was.
SetPageLengthShown(e, lines) ==
  LET cols == Cols(e)
      count == PagesFor[lines]
      resized == ForEachPage(ExitStatusLine(e), LAMBDA g : GridResize(g, lines, cols))
      moved == IF resized.page >= count THEN SwitchPage(resized, count - 1) ELSE resized
      paged == [moved EXCEPT
                  !.pages = [i \in 1 .. count |-> IF i \in DOMAIN @ THEN @[i] ELSE NewGrid(lines, cols)],
                  !.top = 0, !.bottom = lines - 1]
  IN  IF lines = Rows(e) THEN e
      ELSE Told(Couple(Goto(paged, paged.cursor.row, paged.cursor.col)))
\* DECSLPP: the number of pages follows the length of a page.
SetPageLength(e, lines) ==
  LET out == ExitStatusLine(e)
      cols == Cols(e)
      count == PagesFor[lines]
      whole == e.top = 0 /\ e.bottom = Rows(e) - 1
      resized == ForEachPage(out, LAMBDA g : GridResize(g, lines, cols))
      moved == IF resized.page >= count THEN SwitchPage(resized, count - 1) ELSE resized
      paged == [moved EXCEPT
                  !.pages = [i \in 1 .. count |-> IF i \in DOMAIN @ THEN @[i] ELSE NewGrid(lines, cols)],
                  !.displayPage = Lesser(@, count - 1)]
      margins == IF whole \/ e.bottom >= lines
                 THEN [paged EXCEPT !.top = 0, !.bottom = lines - 1] ELSE paged
  IN  IF lines = Rows(e) THEN e
      ELSE Told(Couple(Goto(margins, margins.cursor.row, margins.cursor.col)))

\* DECSCPP: another width, and the page is kept.
SetPageWidth(e, cols) ==
  LET out == ExitStatusLine(e)
      resized == ForEachPage(out, LAMBDA g : GridResize(g, Rows(e), cols))
      fitted == [resized EXCEPT !.modes.columns132 = (cols = Wide),
                                !.statusLine = LineResize(@, cols),
                                !.tabs = ResizeTabs(@, cols),
                                !.left = IF e.right >= cols THEN 0 ELSE @,
                                !.right = IF e.right >= cols THEN cols - 1 ELSE @]
  IN  IF cols = Cols(e) THEN e ELSE Told(Goto(fitted, fitted.cursor.row, fitted.cursor.col))

\* DECCOLM: another width, and the page is cleared.
SetColumns(e, cols) ==
  LET cleared == ForEachPage(ExitStatusLine(e), LAMBDA g : NewGrid(Rows(e), cols))
      fitted == [cleared EXCEPT !.modes.columns132 = (cols = Wide), !.modes.lrMargins = FALSE,
                                !.statusLine = LineResize(@, cols),
                                !.tabs = ResizeTabs(@, cols)]
  IN  Told(Goto(ResetMargins(fitted), 0, 0))

\* DECSNLS: the next height there is.
SetScreenLines(e, requested) ==
  LET fits == {i \in DOMAIN Heights : Heights[i] >= requested}
      lines == IF fits = {} THEN Last(Heights) ELSE Heights[Min(fits)]
  IN  IF lines = e.screenLines THEN e ELSE Couple([e EXCEPT !.screenLines = lines])

-----------------------------------------------------------------------------
(* Modes, what is saved, and the resets.                                   *)

\* DECLRMM makes every line single width; without it the margins are the page's.
SetLrMargins(e, on) ==
  LET single == ForEachPage(e, LAMBDA g : [r \in DOMAIN g |-> [g[r] EXCEPT !.double = FALSE]])
  IN  IF on THEN [single EXCEPT !.modes.lrMargins = TRUE]
      ELSE [e EXCEPT !.modes.lrMargins = FALSE, !.left = 0, !.right = Cols(e) - 1]

\* A line size that leaves the cursor where it is.
SetLineSizeStill(e, double) ==
  LET row == e.cursor.row
  IN  IF e.status.active \/ (e.modes.lrMargins /\ double) THEN e
      ELSE [e EXCEPT !.grid[row].double = double]
SetLineSize(e, double) ==
  LET row == e.cursor.row
      line == e.grid[row]
      half == IF double /\ ~line.double
              THEN LineErase(line, LineLen(line) \div 2 .. LineLen(line) - 1) ELSE line
      sized == Goto([e EXCEPT !.grid[row] = [half EXCEPT !.double = double]], row, e.cursor.col)
  IN  IF e.status.active \/ (e.modes.lrMargins /\ double) THEN e
      ELSE [sized EXCEPT !.cursor.pendingWrap = e.cursor.pendingWrap /\ sized.cursor.col = e.cursor.col]

Unsaved == [row |-> 0, col |-> 0, protect |-> FALSE, origin |-> FALSE, autowrap |-> FALSE, made |-> FALSE]
SaveCursor(e) ==
  [e EXCEPT !.saved = [row |-> e.cursor.row, col |-> e.cursor.col, protect |-> e.cursor.protect,
                       origin |-> e.modes.origin, autowrap |-> e.modes.autowrap, made |-> TRUE]]
RestoreCursor(e) ==
  LET s == e.saved
      modes == [e.modes EXCEPT !.origin = s.origin, !.autowrap = IF s.made THEN s.autowrap ELSE @]
  IN  Goto([e EXCEPT !.modes = modes, !.cursor.protect = s.protect], s.row, s.col)

ScreenAlignment(e) ==
  LET filled == [r \in DOMAIN e.grid |->
                   [NewLine(Cols(e)) EXCEPT !.cells = [c \in DOMAIN @ |-> "written"]]]
  IN  Goto([ResetMargins([e EXCEPT !.grid = filled]) EXCEPT !.modes.origin = FALSE], 0, 0)

SoftReset(e) ==
  LET out == ExitStatusLine(e)
      modes == [out.modes EXCEPT !.insert = FALSE, !.origin = FALSE,
                                 !.autowrap = setup = NotSaved \/ setup.autowrap,
                                 !.lrMargins = FALSE]
  IN  [ResetMargins([out EXCEPT !.modes = modes]) EXCEPT
         !.cursor.protect = FALSE, !.cursor.pendingWrap = FALSE, !.saved = Unsaved]

EnterVt52(e) == [ExitStatusLine(e) EXCEPT !.modes.ansi = FALSE]
ExitVt52(e) == [e EXCEPT !.modes.ansi = TRUE, !.level = 1]

\* Set-Up's features, as far as they concern the page (terminal/setup.rs).
ApplyFeatures(e, f) ==
  LET levelled == CASE f.mode = "vt52" /\ e.modes.ansi -> EnterVt52(e)
                    [] f.mode = "vt100" -> [e EXCEPT !.modes.ansi = TRUE, !.level = 1]
                    [] f.mode = "vt420" -> [e EXCEPT !.modes.ansi = TRUE, !.level = 4]
                    [] OTHER -> e
      wide == IF f.columns132 # levelled.modes.columns132
              THEN SetColumns(levelled, IF f.columns132 THEN Wide ELSE Narrow) ELSE levelled
      shown == SetStatusType([wide EXCEPT !.modes.autowrap = f.autowrap], f.status)
      long == SetScreenLines(SetPageLength(shown, f.pageLength), f.screenLines)
  IN  [long EXCEPT !.modes.verticalCoupling = f.verticalCoupling,
                   !.modes.pageCoupling = f.pageCoupling,
                   !.modes.newLine = f.newLine,
                   !.tabs = [c \in DOMAIN @ |-> c > 0 /\ (IF c \in DOMAIN f.tabs THEN f.tabs[c]
                                                          ELSE DefaultStop(c))]]

PowerUp(rows, cols, features) ==
  LET new ==
        [grid |-> NewGrid(rows, cols),
         pages |-> [i \in 1 .. PagesFor[rows] |-> IF i = 1 THEN InUse ELSE NewGrid(rows, cols)],
         page |-> 0, displayPage |-> 0, windowTop |-> 0, screenLines |-> rows,
         scrollback |-> <<>>,
         cursor |-> [row |-> 0, col |-> 0, pendingWrap |-> FALSE, protect |-> FALSE],
         saved |-> Unsaved,
         modes |-> [autowrap |-> TRUE, insert |-> FALSE, newLine |-> FALSE, origin |-> FALSE,
                    ansi |-> TRUE, lrMargins |-> FALSE, verticalCoupling |-> TRUE,
                    pageCoupling |-> TRUE, columns132 |-> FALSE],
         top |-> 0, bottom |-> rows - 1, left |-> 0, right |-> cols - 1,
         tabs |-> DefaultTabs(cols), level |-> 4,
         status |-> [kind |-> "indicator", active |-> FALSE,
                     main |-> [row |-> 0, col |-> 0, pendingWrap |-> FALSE], col |-> 0],
         statusLine |-> NewLine(cols),
         capture |-> [on |-> FALSE, text |-> <<>>],
         told |-> [rows |-> rows, cols |-> cols], bell |-> FALSE]
  IN  IF features = NotSaved THEN new ELSE ApplyFeatures(new, features)

\* The size the configuration gives: the saved page's, or 24 lines of 80 columns.
ConfigCols == IF setup # NotSaved /\ setup.columns132 THEN Wide ELSE Narrow
ConfigRows == IF setup # NotSaved THEN setup.pageLength ELSE Min(Lengths)

\* RIS: power-up again, with what outlives it.  The events of applying the
\* saved features are dropped, and the host told only of a width that differs
\* from the one at power-up.
FullReset(e) ==
  LET new == [PowerUp(Rows(e), ConfigCols, setup) EXCEPT
                !.capture = e.capture, !.scrollback = e.scrollback, !.told = e.told]
  IN  IF Cols(e) # ConfigCols THEN Told(new) ELSE new

SetConformanceLevel(e, level) == [FullReset(e) EXCEPT !.level = level]

\* DECTSR reports the state of the terminal, and DECRSTS puts it back.
StateReport(e) ==
  [modes |-> e.modes, top |-> e.top, bottom |-> e.bottom, left |-> e.left, right |-> e.right,
   rows |-> Rows(e), cols |-> Cols(e), screenLines |-> e.screenLines, status |-> e.status.kind,
   tabs |-> {c \in DOMAIN e.tabs : e.tabs[c]}]
\* A report put back with the width last, as DECCOLM sets it.
RestoreWidthLast(e, s) ==
  LET sized == SetPageLength(e, s.rows)
      modes == [sized EXCEPT !.modes = [s.modes EXCEPT !.columns132 = sized.modes.columns132],
                             !.top = s.top, !.bottom = s.bottom, !.left = s.left, !.right = s.right]
      shown == SetStatusType(SetScreenLines(modes, s.screenLines), s.status)
      wide == IF s.cols = Cols(e) THEN shown ELSE SetColumns(shown, s.cols)
  IN  [wide EXCEPT !.tabs = [c \in DOMAIN @ |-> c \in s.tabs]]
RestoreTerminalState(e, s) ==
  LET sized == SetPageWidth(SetPageLength(e, s.rows), s.cols)
      wide == sized.modes.columns132
      modes == [sized EXCEPT !.modes = [s.modes EXCEPT !.columns132 = wide],
                             !.top = s.top, !.bottom = s.bottom, !.left = s.left, !.right = s.right]
      shown == SetStatusType(SetScreenLines(modes, s.screenLines), s.status)
  IN  [shown EXCEPT !.tabs = [c \in DOMAIN @ |-> c \in s.tabs]]

-----------------------------------------------------------------------------
(* What the host sends, and the user does.                                 *)

Init ==
  /\ setup \in SetUps
  /\ repertoire \in Repertoires
  /\ steps = 0
  /\ reported = NotSaved
  /\ emu = [Told(PowerUp(ConfigRows, ConfigCols, setup)) EXCEPT
              !.capture.on = "Capture" \in repertoire]

May(name) == /\ name \in repertoire /\ steps < MaxSteps
             /\ steps' = steps + 1
             /\ UNCHANGED <<setup, repertoire>>
\* Ending a step of Terminal::advance.
Shows(e) == emu' = Couple([e EXCEPT !.bell = FALSE]) /\ UNCHANGED reported
Locally(e) == emu' = e /\ UNCHANGED reported
Ansi(level) == emu.modes.ansi /\ emu.level >= level

Text == May("Text") /\ \E n \in {1, Narrow - 1} : Shows(PrintRun(emu, n))
CR == May("CR") /\ Shows(CarriageReturn(emu))
LF == May("LF") /\ Shows(LineFeed(CaptureText(emu, "newline")))
BS == May("BS") /\ Shows(Cub(CaptureBackspace(emu), 1))
HT == May("HT") /\ Shows(Tab(CaptureText(emu, "tab")))
HTS == May("HTS") /\ emu.modes.ansi /\ Shows([emu EXCEPT !.tabs[emu.cursor.col] = TRUE])
TBC == /\ May("TBC") /\ emu.modes.ansi
       /\ \/ Shows([emu EXCEPT !.tabs[emu.cursor.col] = FALSE])
          \/ Shows([emu EXCEPT !.tabs = [c \in DOMAIN @ |-> FALSE]])

IND == May("IND") /\ emu.modes.ansi /\ Shows(Index(emu))
IND8 == May("IND8") /\ emu.modes.ansi /\ Shows(Index(CaptureText(emu, "newline")))
NEL == May("NEL") /\ emu.modes.ansi /\ Shows(CarriageReturn(Index(emu)))
RI == May("RI") /\ Shows(ReverseIndex(emu))
CUU == May("CUU") /\ Shows(Cuu(emu, 1))
CUD == May("CUD") /\ Shows(Cud(emu, 1))
CUF == May("CUF") /\ Shows(Cuf(emu, 1))
CUP == /\ May("CUP") /\ emu.modes.ansi
       /\ \E row \in {0, Max(Lengths) - 1}, col \in {0, Narrow - 1} : Shows(Cup(emu, row, col))
\* A VT52 keeps the row or the column it is on where the one given is beyond.
VT52CUP ==
  /\ May("CUP") /\ ~emu.modes.ansi
  /\ \E row \in {0, Max(Lengths)}, col \in {0, Narrow - 1} :
       LET r == IF row < Rows(emu) THEN row ELSE emu.cursor.row
       IN  Shows(Goto(emu, r, IF col < LineWidth(emu.grid[r]) THEN col ELSE emu.cursor.col))

DECAWM == /\ May("DECAWM") /\ emu.modes.ansi
          /\ \E on \in BOOLEAN : Shows([emu EXCEPT !.modes.autowrap = on])
IRM == May("IRM") /\ emu.modes.ansi /\ Shows([emu EXCEPT !.modes.insert = ~@])
LNM == May("LNM") /\ emu.modes.ansi /\ Shows([emu EXCEPT !.modes.newLine = ~@])
DECOM == /\ May("DECOM") /\ emu.modes.ansi
         /\ \E on \in BOOLEAN : Shows(Cup([emu EXCEPT !.modes.origin = on], 0, 0))
DECSCA == May("DECSCA") /\ Ansi(2) /\ Shows([emu EXCEPT !.cursor.protect = ~@])
DECDWL == May("DECDWL") /\ emu.modes.ansi /\ \E d \in BOOLEAN : Shows(SetLineSize(emu, d))

ED == May("ED") /\ \E mode \in 0 .. 2 : Shows(EraseDisplay(emu, mode, FALSE))
DECSED == May("DECSED") /\ Ansi(2) /\ \E mode \in 0 .. 2 : Shows(EraseDisplay(emu, mode, TRUE))
EL == May("EL") /\ \E mode \in 0 .. 2 : Shows(EraseLine(emu, mode, FALSE))
DECSEL == May("DECSEL") /\ Ansi(2) /\ \E mode \in 0 .. 2 : Shows(EraseLine(emu, mode, TRUE))
ECH == May("ECH") /\ Ansi(2) /\ Shows(EraseChars(emu, 2))
IL == May("IL") /\ emu.modes.ansi /\ Shows(ShiftLines(emu, 1, FALSE))
DL == May("DL") /\ emu.modes.ansi /\ Shows(ShiftLines(emu, 1, TRUE))
ICH == May("ICH") /\ Ansi(2) /\ Shows(ShiftChars(emu, 1, TRUE))
DCH == May("DCH") /\ emu.modes.ansi /\ Shows(ShiftChars(emu, 2, FALSE))
DECIC == May("DECIC") /\ Ansi(4) /\ \E insert \in BOOLEAN : Shows(InsertColumns(emu, 1, insert))
DECBI == May("DECBI") /\ Ansi(4) /\ Shows(BackIndex(emu))
DECFI == May("DECFI") /\ Ansi(4) /\ Shows(ForwardIndex(emu))

DECSTBM ==
  /\ May("DECSTBM") /\ emu.modes.ansi /\ ~emu.status.active
  /\ \E top, bottom \in 0 .. Rows(emu) - 1 :
       top < bottom /\ Shows(Cup([emu EXCEPT !.top = top, !.bottom = bottom], 0, 0))
DECLRMM == May("DECLRMM") /\ Ansi(4) /\ \E on \in BOOLEAN : Shows(SetLrMargins(emu, on))
DECSLRM ==
  /\ May("DECSLRM") /\ Ansi(4) /\ emu.modes.lrMargins /\ ~emu.status.active
  /\ \E left \in 0 .. 2, right \in Cols(emu) - 2 .. Cols(emu) - 1 :
       left < right /\ Shows(Cup([emu EXCEPT !.left = left, !.right = right], 0, 0))

Corners == {[top |-> 0, left |-> 0, bottom |-> 0, right |-> 1],
            [top |-> 0, left |-> 1, bottom |-> 9, right |-> 9]}
DECERA == May("DECERA") /\ Ansi(4) /\ \E c \in Corners : Shows(EraseRectangle(emu, c))
DECSERA == May("DECSERA") /\ Ansi(4) /\ \E c \in Corners : Shows(SelectiveEraseRectangle(emu, c))
DECFRA == May("DECFRA") /\ Ansi(4) /\ \E c \in Corners : Shows(FillRectangle(emu, c))
DECCRA == May("DECCRA") /\ Ansi(4) /\ \E c \in Corners : Shows(CopyRectangle(emu, c, 1, 1))

DECSSDT == /\ May("DECSSDT") /\ Ansi(3)
           /\ \E kind \in {"none", "indicator", "host"} : Shows(SetStatusType(emu, kind))
DECSASD == /\ May("DECSASD") /\ Ansi(3)
           /\ \E line \in BOOLEAN : Shows(SetActiveDisplay(emu, line))
PPA == May("PPA") /\ Ansi(4) /\ \E page \in 0 .. 2 : Shows(MovePage(emu, page, FALSE))
NP == May("NP") /\ Ansi(4) /\ \E by \in {-1, 1} : Shows(MovePage(emu, emu.page + by, TRUE))
DECSLPP == May("DECSLPP") /\ Ansi(4) /\ \E lines \in Lengths : Shows(SetPageLength(emu, lines))
DECSCPP == May("DECSCPP") /\ Ansi(4) /\ \E cols \in {Narrow, Wide} : Shows(SetPageWidth(emu, cols))
DECCOLM == /\ May("DECCOLM") /\ emu.modes.ansi
           /\ \E cols \in {Narrow, Wide} : Shows(SetColumns(emu, cols))
DECSNLS == /\ May("DECSNLS") /\ Ansi(4)
           /\ \E lines \in 1 .. Last(Heights) : Shows(SetScreenLines(emu, lines))
SUSD == /\ May("SUSD") /\ Ansi(4) /\ ~emu.status.active
        /\ \E by \in {-1, 1} : Shows(Pan(emu, by))
DECVCCM == May("DECVCCM") /\ Ansi(4) /\ Shows([emu EXCEPT !.modes.verticalCoupling = ~@])
DECPCCM == May("DECPCCM") /\ Ansi(4) /\ Shows([emu EXCEPT !.modes.pageCoupling = ~@])

DECSC == May("DECSC") /\ emu.modes.ansi /\ Shows(SaveCursor(emu))
DECRC == May("DECRC") /\ emu.modes.ansi /\ Shows(RestoreCursor(emu))
DECALN == May("DECALN") /\ emu.modes.ansi /\ Shows(ScreenAlignment(emu))
DECSTR == May("DECSTR") /\ Ansi(2) /\ Shows(SoftReset(emu))
RIS == May("RIS") /\ emu.modes.ansi /\ Shows(FullReset(emu))
DECSCL == May("DECSCL") /\ emu.modes.ansi /\ \E l \in {1, 4} : Shows(SetConformanceLevel(emu, l))
DECANM == May("DECANM") /\ Shows(IF emu.modes.ansi THEN EnterVt52(emu) ELSE ExitVt52(emu))
\* The host asks for a state report, and sends back one it was given.
DECTSR == /\ May("DECTSR") /\ Ansi(4)
          /\ reported' = StateReport(emu) /\ emu' = Couple(emu)
DECRSTS == /\ May("DECTSR") /\ Ansi(4) /\ reported # NotSaved
           /\ Shows(RestoreTerminalState(emu, reported))

\* The user looks at another part of the page, at another page, or clears it.
PanView == May("PanView") /\ \E by \in {-1, 1} : Locally(Pan(emu, by))
ViewPage ==
  /\ May("ViewPage")
  /\ \E by \in {-1, 1} : Locally([emu EXCEPT
       !.displayPage = Lesser(Greater(@ + by, 0), PageCount(emu) - 1)])
ClearDisplay ==
  LET out == ExitStatusLine(emu)
  IN  May("ClearDisplay") /\ Locally(Goto([out EXCEPT !.grid = NewGrid(Rows(out), Cols(out))], 0, 0))

Writes == Text \/ CR \/ LF \/ BS \/ HT \/ HTS \/ TBC \/ DECAWM \/ IRM \/ LNM \/ DECDWL
Moves == IND \/ IND8 \/ NEL \/ RI \/ CUU \/ CUD \/ CUF \/ CUP \/ VT52CUP \/ DECOM
Erases == ED \/ DECSED \/ EL \/ DECSEL \/ ECH \/ DECSCA \/ DECERA \/ DECSERA \/ DECFRA \/ DECCRA
Edits == IL \/ DL \/ ICH \/ DCH \/ DECIC \/ DECBI \/ DECFI \/ DECSTBM \/ DECLRMM \/ DECSLRM
Pages == \/ PPA \/ NP \/ DECSLPP \/ DECSCPP \/ DECCOLM \/ DECSNLS \/ SUSD \/ DECVCCM \/ DECPCCM
         \/ PanView \/ ViewPage
StatusLine == DECSSDT \/ DECSASD
Resets == \/ DECSC \/ DECRC \/ DECALN \/ DECSTR \/ RIS \/ DECSCL \/ DECANM \/ DECTSR \/ DECRSTS
          \/ ClearDisplay

Next == Writes \/ Moves \/ Erases \/ Edits \/ Pages \/ StatusLine \/ Resets
Spec == Init /\ [][Next]_vars

-----------------------------------------------------------------------------
(* What must hold.                                                         *)

IsGrid(g, rows, cols) ==
  DOMAIN g = 0 .. rows - 1 /\ \A r \in DOMAIN g : DOMAIN g[r].cells = 0 .. cols - 1

\* Nothing the code indexes with is out of range: the cursor is on the page, and
\* on the line it is on, which a double-width line halves; every column there is
\* has a tab stop, set or not, and a cell of the status line; the margins are
\* inside the page with the first before the last.  All of them are kept apart
\* from the page whose size changes under them (mod.rs: goto, set_page_length,
\* set_page_width, set_columns, set_line_size).
EverythingFits ==
  /\ emu.cursor.row \in DOMAIN emu.grid
  /\ emu.cursor.col \in 0 .. LastCol(emu)
  /\ DOMAIN emu.tabs = 0 .. Cols(emu) - 1
  /\ DOMAIN emu.statusLine.cells = 0 .. Cols(emu) - 1
  /\ 0 <= emu.top /\ emu.top < emu.bottom /\ emu.bottom < Rows(emu)
  /\ 0 <= emu.left /\ emu.left < emu.right /\ emu.right < Cols(emu)
  /\ emu.modes.columns132 = (Cols(emu) = Wide)

\* Page memory is whole: as many pages as their length allows, the slot of the
\* page in use the only empty one, all pages of one size, and the page shown and
\* the window onto it inside it (switch_page, set_page_length, for_each_page).
PagesWhole ==
  /\ PageCount(emu) = PagesFor[Rows(emu)]
  /\ emu.page < PageCount(emu) /\ emu.displayPage < PageCount(emu)
  /\ IsGrid(emu.grid, Rows(emu), Cols(emu))
  /\ \A i \in DOMAIN emu.pages :
       IF i = emu.page + 1 THEN emu.pages[i] = InUse
       ELSE emu.pages[i] # InUse /\ IsGrid(emu.pages[i], Rows(emu), Cols(emu))
  /\ emu.windowTop \in 0 .. MaxTop(emu)
  /\ Len(emu.scrollback) <= ScrollMax

\* The page in use, all that is kept beside it, and the other pages fit together.
ScreenSound == EverythingFits /\ PagesWhole

\* Writing a run of characters at one go is what writing them one at a time is,
\* wherever the cursor is and however the margins lie (print_ascii_run: "exactly
\* what writing them a character at a time would do").
RunPrintsTheSame ==
  \A n \in 1 .. Narrow + 1 : PrintRun(emu, n) = Times(PutChar, emu, n)

\* What the host writes on the status line stays there: until it turns to the main
\* display again, the page and the cursor kept for it are as they were, except for
\* what acts on page memory by its own coordinates or resets the terminal.
MainDisplay(e) == [grid |-> e.grid, pages |-> e.pages, page |-> e.page, scrollback |-> e.scrollback,
                   main |-> e.status.main, top |-> e.top, bottom |-> e.bottom]
StatusLineAside ==
  [][emu.status.active /\ emu'.status.active /\ MainDisplay(emu') # MainDisplay(emu)
     => DECALN \/ DECERA \/ DECSERA \/ DECFRA \/ DECCRA \/ DECLRMM \/ DECRSTS]_vars

\* A state the host is given back is the state it was given: DECRSTS after any
\* amount of other work leaves the modes, the margins, the size and the tab stops
\* that DECTSR reported (reports.rs: "settings that DECRSTS restores").  A reset
\* can leave a screen as high as a page, which DECSNLS has no such height for.
ReportRestored ==
  [][steps' # steps /\ DECRSTS /\ reported.screenLines \in Range(Heights)
       => StateReport(emu') = reported]_vars

\* What is set aside, for the status line's sake or in the host's keeping, is what comes
\* back.
AsideKept == StatusLineAside /\ ReportRestored

\* The host is told the size of the page whenever it changes (session.rs: "The host
\* addresses the whole page, so that is its size").
HostKnowsTheSize == emu.told = [rows |-> Rows(emu), cols |-> Cols(emu)]
=============================================================================
