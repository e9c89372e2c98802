----------------------------- MODULE FileProofs ------------------------------
(***************************************************************************)
(* What a process reads and writes through: the consoles, for any          *)
(* geometry, and the open files, for any number of threads, descriptors    *)
(* and entries.                                                            *)
(***************************************************************************)
EXTENDS Terminal, FileTable, FiniteSetTheorems, WellFoundedInduction, TLAPS

-----------------------------------------------------------------------------
(* The consoles and the screen.                                            *)

Grid(r, c) ==
  [cells : [0 .. r - 1 -> [0 .. c - 1 -> Glyphs \cup {Blank}]], column : 0 .. c, row : 0 .. r - 1]
Screens == [up : {TRUE}, columns : {columns}, rows : {rows}, grid : Grid(rows, columns)]

\* Every console has the geometry of its cells and a cursor inside them; once
\* the screen is in use it has the same geometry and the active console's grid.
TermInv ==
  /\ columns \in Nat \ {0} /\ rows \in Nat \ {0}
  /\ consoles \in [ConsoleIds -> Grid(rows, columns)]
  /\ active \in ConsoleIds
  /\ to_screen \in BOOLEAN
  /\ to_screen => screen \in Screens /\ screen.grid = consoles[active]

\* The geometry is at least one character.
Geometry == columns \in Nat \ {0} /\ rows \in Nat \ {0}

\* VirtualConsole::scroll_up keeps the grid's shape.
LEMMA ScrollFits ==
  ASSUME Geometry, NEW con \in Grid(rows, columns)
  PROVE  /\ ScrollUp(con) \in Grid(rows, columns)
         /\ ScrollUp(con).column = con.column
<1> DEFINE up == [y \in 0 .. rows - 1 |-> [x \in 0 .. columns - 1 |->
                    IF y < rows - 1 THEN con.cells[y + 1][x] ELSE Blank]]
<1>1. up \in [0 .. rows - 1 -> [0 .. columns - 1 -> Glyphs \cup {Blank}]]
  <2> SUFFICES ASSUME NEW y \in 0 .. rows - 1, NEW x \in 0 .. columns - 1, y < rows - 1
               PROVE  con.cells[y + 1][x] \in Glyphs \cup {Blank}
    OBVIOUS
  <2>1. y + 1 \in 0 .. rows - 1
    BY DEF Geometry
  <2>2. con.cells \in [0 .. rows - 1 -> [0 .. columns - 1 -> Glyphs \cup {Blank}]]
    BY DEF Grid
  <2>3. con.cells[y + 1] \in [0 .. columns - 1 -> Glyphs \cup {Blank}]
    BY Zenon, <2>1, <2>2
  <2> QED BY Zenon, <2>3
<1>2. ScrollUp(con) = [con EXCEPT !.cells = up, !.row = rows - 1]
  BY DEF ScrollUp
<1> HIDE DEF up
<1>3. rows - 1 \in 0 .. rows - 1
  BY DEF Geometry
<1> QED BY Zenon, <1>1, <1>2, <1>3 DEF Grid

\* A new line leaves the cursor in the first column of a row of the grid.
LEMMA NewLineFits ==
  ASSUME Geometry, NEW con \in Grid(rows, columns)
  PROVE  NewLine(con) \in Grid(rows, columns) /\ NewLine(con).column = 0
<1> DEFINE home == [con EXCEPT !.column = 0]
<1>1. home \in Grid(rows, columns) /\ home.column = 0 /\ home.row = con.row
  BY DEF Geometry, Grid
<1> HIDE DEF home
<1>2. CASE con.row + 1 >= rows
  BY Zenon, <1>1, <1>2, ScrollFits DEF NewLine, home
<1>3. CASE ~(con.row + 1 >= rows)
  <2>1. NewLine(con) = [home EXCEPT !.row = con.row + 1]
    BY <1>3 DEF NewLine, home
  <2>2. con.row + 1 \in 0 .. rows - 1
    BY <1>3 DEF Geometry, Grid
  <2> QED BY <1>1, <2>1, <2>2 DEF Grid
<1> QED BY <1>2, <1>3

\* A character goes into a cell of the grid, after a line break if it must.
LEMMA WriteCharFits ==
  ASSUME Geometry, NEW con \in Grid(rows, columns), NEW g \in Glyphs \cup {Blank}
  PROVE  WriteChar(con, g) \in Grid(rows, columns)
<1> DEFINE at == IF con.column >= columns THEN NewLine(con) ELSE con
<1>1. at \in Grid(rows, columns) /\ at.column \in 0 .. columns - 1
  <2>1. CASE con.column >= columns
    BY <2>1, NewLineFits DEF Geometry
  <2>2. CASE ~(con.column >= columns)
    BY <2>2 DEF Geometry, Grid
  <2> QED BY <2>1, <2>2
<1>2. WriteChar(con, g) = PutGlyph(at, g)
  BY DEF WriteChar
<1> HIDE DEF at
<1>3. at.column + 1 \in 0 .. columns
  BY <1>1 DEF Geometry
<1>4. [at.cells EXCEPT ![at.row][at.column] = g]
        \in [0 .. rows - 1 -> [0 .. columns - 1 -> Glyphs \cup {Blank}]]
  BY Zenon, <1>1 DEF Grid
<1> QED BY Zenon, <1>1, <1>2, <1>3, <1>4 DEF Grid, PutGlyph

Characters == Glyphs \cup {"return", "newline", "tab"}

\* So does every text, a tab's four spaces included.
LEMMA WriteStyleFits ==
  ASSUME Geometry, NEW con \in Grid(rows, columns), NEW ch \in Characters
  PROVE  WriteStyle(con, ch) \in Grid(rows, columns)
<1>1. CASE ch = "return"
  BY <1>1 DEF WriteStyle
<1>2. CASE ch = "newline"
  BY <1>2, NewLineFits DEF WriteStyle
<1>3. CASE ch = "tab"
  <2> DEFINE c1 == WriteChar(con, Blank)
             c2 == WriteChar(c1, Blank)
             c3 == WriteChar(c2, Blank)
  <2>1. c1 \in Grid(rows, columns)
    BY WriteCharFits
  <2> HIDE DEF c1
  <2>2. c2 \in Grid(rows, columns)
    BY <2>1, WriteCharFits
  <2> HIDE DEF c2
  <2>3. c3 \in Grid(rows, columns)
    BY <2>2, WriteCharFits
  <2> HIDE DEF c3
  <2>4. WriteChar(c3, Blank) \in Grid(rows, columns)
    BY <2>3, WriteCharFits
  <2> QED BY <1>3, <2>4 DEF WriteStyle, c1, c2, c3
<1>4. CASE ch \notin {"return", "newline", "tab"}
  <2>1. ch \in Glyphs
    BY <1>4 DEF Characters
  <2> QED BY <1>4, <2>1, WriteCharFits DEF WriteStyle
<1> QED BY <1>1, <1>2, <1>3, <1>4

\* A screen with another grid is a screen.
LEMMA ScreenWith ==
  ASSUME NEW fb \in Screens, NEW g1 \in Grid(rows, columns)
  PROVE  [fb EXCEPT !.grid = g1] \in Screens /\ [fb EXCEPT !.grid = g1].grid = g1
<1>1. [fb EXCEPT !.grid = g1] \in Screens
  BY Zenon DEF Screens
<1>2. [fb EXCEPT !.grid = g1].grid = g1
  BY DEF Screens
<1> QED BY <1>1, <1>2

\* Of two grids given to a screen the last counts.
LEMMA LastGrid ==
  ASSUME NEW fb \in Screens, NEW g1, NEW g2
  PROVE  [[fb EXCEPT !.grid = g1] EXCEPT !.grid = g2] = [fb EXCEPT !.grid = g2]
  BY Zenon DEF Screens

\* The framebuffer console scrolls, breaks lines and writes as a virtual console
\* of its geometry does, although the code is another.
LEMMA FbScrollUpSame ==
  ASSUME NEW fb \in Screens
  PROVE  FbScrollUp(fb) = [fb EXCEPT !.grid = ScrollUp(fb.grid)]
<1>1. fb.rows = rows /\ fb.columns = columns
  BY DEF Screens
<1> QED BY <1>1, Zenon DEF FbScrollUp, ScrollUp

\* A line feed of the framebuffer console moves its cursor, and scrolls, as
\* VirtualConsole::new_line does.
LEMMA FbNewLineSame ==
  ASSUME Geometry, NEW fb \in Screens
  PROVE  FbNewLine(fb) = [fb EXCEPT !.grid = NewLine(fb.grid)]
<1> DEFINE first == [fb.grid EXCEPT !.column = 0]
           home == [fb EXCEPT !.grid = first]
<1>1. fb.rows = rows /\ fb.grid \in Grid(rows, columns)
  BY DEF Screens
<1>2. first \in Grid(rows, columns)
  BY <1>1 DEF Geometry, Grid
<1> HIDE DEF first
<1>3. home \in Screens /\ home.grid = first
  BY <1>2, ScreenWith
<1>4. CASE fb.grid.row + 1 >= rows
  <2>1. FbNewLine(fb) = FbScrollUp(home)
    BY <1>1, <1>4, Zenon DEF FbNewLine, first
  <2>2. NewLine(fb.grid) = ScrollUp(first)
    BY <1>4, Zenon DEF NewLine, first
  <2>3. FbScrollUp(home) = [home EXCEPT !.grid = ScrollUp(first)]
    BY <1>3, FbScrollUpSame, Zenon
  <2> QED BY <2>1, <2>2, <2>3, LastGrid, Zenon
<1>5. CASE ~(fb.grid.row + 1 >= rows)
  <2> DEFINE below == [first EXCEPT !.row = fb.grid.row + 1]
  <2>1. FbNewLine(fb) = [home EXCEPT !.grid = [home.grid EXCEPT !.row = fb.grid.row + 1]]
    BY <1>1, <1>5, Zenon DEF FbNewLine, first
  <2>2. NewLine(fb.grid) = below
    BY <1>5, Zenon DEF NewLine, first
  <2>3. FbNewLine(fb) = [home EXCEPT !.grid = below]
    BY <1>3, <2>1, Zenon
  <2> HIDE DEF below
  <2> QED BY <2>2, <2>3, LastGrid, Zenon
<1> QED BY <1>4, <1>5

\* FramebufferConsole::write_char leaves the grid that VirtualConsole::write_char
\* leaves, so a mirrored character keeps the two in step.
LEMMA FbWriteCharSame ==
  ASSUME Geometry, NEW fb \in Screens, NEW g \in Glyphs \cup {Blank}
  PROVE  /\ FbWriteChar(fb, g) = [fb EXCEPT !.grid = WriteChar(fb.grid, g)]
         /\ FbWriteChar(fb, g) \in Screens
         /\ FbWriteChar(fb, g).grid = WriteChar(fb.grid, g)
<1> DEFINE at == IF fb.grid.column >= fb.columns THEN FbNewLine(fb) ELSE fb
           con == IF fb.grid.column >= columns THEN NewLine(fb.grid) ELSE fb.grid
           put == PutGlyph(con, g)
<1>1. fb.columns = columns /\ fb.grid \in Grid(rows, columns)
  BY DEF Screens
<1>2. con \in Grid(rows, columns)
  BY <1>1, NewLineFits
<1>3. at = [fb EXCEPT !.grid = con]
  <2>1. CASE fb.grid.column >= columns
    BY <1>1, <2>1, FbNewLineSame, Zenon
  <2>2. CASE ~(fb.grid.column >= columns)
    <3>1. fb = [fb EXCEPT !.grid = fb.grid]
      BY DEF Screens
    <3> QED BY <1>1, <2>2, <3>1, Zenon
  <2> QED BY <2>1, <2>2
<1>4. WriteChar(fb.grid, g) = put
  BY Zenon DEF WriteChar
<1>5. FbWriteChar(fb, g) = FbPutGlyph(at, g)
  BY Zenon DEF FbWriteChar
<1> HIDE DEF at, con
<1>6. at \in Screens /\ at.grid = con
  BY <1>2, <1>3, ScreenWith
<1>7. FbWriteChar(fb, g) = [at EXCEPT !.grid = put]
  <2>1. FbPutGlyph(at, g) = [at EXCEPT !.grid = PutGlyph(at.grid, g)]
    BY Zenon DEF FbPutGlyph, PutGlyph
  <2> QED BY <1>5, <1>6, <2>1, Zenon
<1>8. put \in Grid(rows, columns)
  BY <1>1, <1>4, WriteCharFits
<1> HIDE DEF put
<1>9. FbWriteChar(fb, g) = [fb EXCEPT !.grid = put]
  BY <1>3, <1>7, LastGrid, Zenon
<1>10. [fb EXCEPT !.grid = put] \in Screens /\ [fb EXCEPT !.grid = put].grid = put
  BY <1>8, ScreenWith
<1> QED BY <1>4, <1>9, <1>10, Zenon

\* A text written to a screen that shows a console is the text written to the
\* console.
LEMMA FbWriteStrSame ==
  ASSUME Geometry, NEW fb \in Screens, NEW ch \in Characters
  PROVE  FbWriteStr(fb, ch) \in Screens /\ FbWriteStr(fb, ch).grid = WriteStyle(fb.grid, ch)
<1>1. CASE ch = "return"
  BY <1>1 DEF FbWriteStr, WriteStyle
<1>2. CASE ch = "newline"
  <2>1. fb.grid \in Grid(rows, columns)
    BY DEF Screens
  <2>2. NewLine(fb.grid) \in Grid(rows, columns)
    BY <2>1, NewLineFits
  <2>3. FbNewLine(fb) = [fb EXCEPT !.grid = NewLine(fb.grid)]
    BY FbNewLineSame
  <2>4. FbNewLine(fb) \in Screens /\ FbNewLine(fb).grid = NewLine(fb.grid)
    BY <2>2, <2>3, ScreenWith, Zenon
  <2> QED BY <1>2, <2>4 DEF FbWriteStr, WriteStyle
<1>3. CASE ch = "tab"
  <2> DEFINE f1 == FbWriteChar(fb, Blank)
             f2 == FbWriteChar(f1, Blank)
             f3 == FbWriteChar(f2, Blank)
  <2>1. f1 \in Screens /\ f1.grid = WriteChar(fb.grid, Blank)
    BY FbWriteCharSame
  <2> HIDE DEF f1
  <2>2. f2 \in Screens /\ f2.grid = WriteChar(f1.grid, Blank)
    BY <2>1, FbWriteCharSame
  <2> HIDE DEF f2
  <2>3. f3 \in Screens /\ f3.grid = WriteChar(f2.grid, Blank)
    BY <2>2, FbWriteCharSame
  <2> HIDE DEF f3
  <2>4. /\ FbWriteChar(f3, Blank) \in Screens
        /\ FbWriteChar(f3, Blank).grid = WriteChar(f3.grid, Blank)
    BY <2>3, FbWriteCharSame
  <2>5. FbWriteStr(fb, ch) = FbWriteChar(f3, Blank)
    BY <1>3 DEF FbWriteStr, f1, f2, f3
  <2>6. WriteStyle(fb.grid, ch) = WriteChar(f3.grid, Blank)
    BY <1>3, <2>1, <2>2, <2>3 DEF WriteStyle
  <2> QED BY <2>4, <2>5, <2>6
<1>4. CASE ch \notin {"return", "newline", "tab"}
  <2>1. ch \in Glyphs
    BY <1>4 DEF Characters
  <2>2. FbWriteStr(fb, ch) = FbWriteChar(fb, ch) /\ WriteStyle(fb.grid, ch) = WriteChar(fb.grid, ch)
    BY <1>4 DEF FbWriteStr, WriteStyle
  <2>3. FbWriteChar(fb, ch) \in Screens /\ FbWriteChar(fb, ch).grid = WriteChar(fb.grid, ch)
    BY <2>1, FbWriteCharSame, Zenon
  <2> QED BY <2>2, <2>3
<1> QED BY <1>1, <1>2, <1>3, <1>4

\* A redraw of a console of the screen's own geometry is that console, cursor
\* included.
LEMMA RenderSame ==
  ASSUME Geometry, NEW fb \in Screens, NEW con \in Grid(rows, columns)
  PROVE  RenderConsole(fb, con) \in Screens /\ RenderConsole(fb, con).grid = con
<1>1. fb.rows = rows /\ fb.columns = columns
  BY DEF Screens
<1>2. /\ Least(columns, fb.columns) = columns /\ Least(rows, fb.rows) = rows
      /\ Least(con.column, columns) = con.column /\ Least(con.row, rows - 1) = con.row
  <2>1. con.column \in 0 .. columns /\ con.row \in 0 .. rows - 1
    BY DEF Grid
  <2> QED BY <1>1, <2>1 DEF Least, Geometry
<1> DEFINE drawn == [y \in 0 .. rows - 1 |-> [x \in 0 .. columns - 1 |->
                        IF y < rows /\ x < columns THEN con.cells[y][x] ELSE Blank]]
<1>3. drawn = con.cells
  <2>1. con.cells \in [0 .. rows - 1 -> [0 .. columns - 1 -> Glyphs \cup {Blank}]]
    BY DEF Grid
  <2>2. ASSUME NEW y \in 0 .. rows - 1 PROVE drawn[y] = con.cells[y]
    <3>1. con.cells[y] \in [0 .. columns - 1 -> Glyphs \cup {Blank}]
      BY Zenon, <2>1
    <3>2. drawn[y] = [x \in 0 .. columns - 1 |-> con.cells[y][x]]
      BY DEF Geometry
    <3> QED BY Zenon, <3>1, <3>2
  <2> QED BY Zenon, <2>1, <2>2
<1>4. RenderConsole(fb, con) = [fb EXCEPT !.grid =
          [cells |-> drawn, column |-> con.column, row |-> con.row]]
  BY <1>1, <1>2, Zenon DEF RenderConsole
<1> HIDE DEF drawn
<1>5. con = [cells |-> drawn, column |-> con.column, row |-> con.row]
  BY <1>3 DEF Grid
<1>6. [fb EXCEPT !.grid = con] \in Screens /\ [fb EXCEPT !.grid = con].grid = con
  BY ScreenWith
<1> QED BY <1>4, <1>5, <1>6, Zenon

\* Whole characters of a mode: at least the ones asked for, at most the target's.
LEMMA WholeCharacters ==
  ASSUME NEW w \in Nat, NEW target \in Nat, NEW k \in Nat \ {0}, NEW m \in Nat \ {0},
         w >= k * m, w <= target
  PROVE  /\ w \div k \in Nat \ {0}
         /\ w \div k <= target \div k
<1> DEFINE q == w \div k
           t == target \div k
<1>1. q \in Nat /\ w >= k * q /\ w < k * q + k /\ t \in Nat /\ target < k * t + k
  OBVIOUS
<1> HIDE DEF q, t
<1>2. q # 0
  <2> SUFFICES ASSUME q = 0 PROVE FALSE
    OBVIOUS
  <2>1. w < k
    BY <1>1
  <2>2. k * m >= k
    OBVIOUS
  <2> QED BY <2>1, <2>2
<1>3. q <= t
  <2> SUFFICES ASSUME q >= t + 1 PROVE FALSE
    BY <1>1
  <2>1. k * q >= k * (t + 1) /\ k * (t + 1) = k * t + k
    BY <1>1
  <2> QED BY <1>1, <2>1
<1> QED BY <1>1, <1>2, <1>3 DEF q, t

\* Every operation on the terminal keeps the invariant: writes to the active and
\* to hidden consoles, a switch of consoles with its redraw, a change of mode.
LEMMA TermStep == TermInv /\ [TermNext]_termVars => TermInv'
<1> SUFFICES ASSUME TermInv, [TermNext]_termVars PROVE TermInv'
  OBVIOUS
<1>1. Geometry
  BY DEF TermInv, Geometry
<1>2. to_screen /\ screen.up <=> to_screen
  BY Zenon DEF TermInv, Screens
<1>3. ASSUME NEW i \in ConsoleIds PROVE consoles[i] \in Grid(rows, columns)
  BY DEF TermInv
<1>4. ASSUME NEW ch \in Characters, TermWrite(ch) PROVE TermInv'
  <2>1. WriteStyle(consoles[active], ch) \in Grid(rows, columns)
    BY <1>1, <1>3, WriteStyleFits DEF TermInv
  <2>2. /\ consoles' = [consoles EXCEPT ![active] = WriteStyle(consoles[active], ch)]
        /\ UNCHANGED <<columns, rows, active, to_screen>>
    BY <1>4 DEF TermWrite
  <2>3. /\ consoles' \in [ConsoleIds -> Grid(rows, columns)]
        /\ consoles'[active] = WriteStyle(consoles[active], ch)
    BY <2>1, <2>2 DEF TermInv
  <2>4. ASSUME to_screen PROVE screen' \in Screens /\ screen'.grid = consoles'[active]
    <3>1. screen' = FbWriteStr(screen, ch)
      BY <1>2, <1>4, <2>4 DEF TermWrite
    <3>2. screen \in Screens /\ screen.grid = consoles[active]
      BY <2>4 DEF TermInv
    <3>3. FbWriteStr(screen, ch) \in Screens
          /\ FbWriteStr(screen, ch).grid = WriteStyle(screen.grid, ch)
      BY <1>1, <3>2, FbWriteStrSame
    <3> QED BY <2>3, <3>1, <3>2, <3>3
  <2> QED BY Zenon, <2>2, <2>3, <2>4 DEF TermInv, Screens
<1>5. ASSUME NEW i \in ConsoleIds, NEW ch \in Characters, TermWriteTo(i, ch) PROVE TermInv'
  <2>1. WriteStyle(consoles[i], ch) \in Grid(rows, columns)
    BY <1>1, <1>3, WriteStyleFits
  <2>2. /\ consoles' = [consoles EXCEPT ![i] = WriteStyle(consoles[i], ch)]
        /\ UNCHANGED <<columns, rows, active, to_screen>>
    BY <1>5 DEF TermWriteTo
  <2>3. /\ consoles' \in [ConsoleIds -> Grid(rows, columns)]
        /\ consoles'[i] = WriteStyle(consoles[i], ch)
        /\ i # active => consoles'[active] = consoles[active]
    BY <2>1, <2>2 DEF TermInv
  <2>4. ASSUME to_screen PROVE screen' \in Screens /\ screen'.grid = consoles'[active]
    <3>1. screen \in Screens /\ screen.grid = consoles[active]
      BY <2>4 DEF TermInv
    <3>2. CASE i = active
      <4>1. screen' = RenderConsole(screen, consoles'[i])
        BY <1>2, <1>5, <2>4, <3>2 DEF TermWriteTo
      <4>2. /\ RenderConsole(screen, consoles'[i]) \in Screens
            /\ RenderConsole(screen, consoles'[i]).grid = consoles'[i]
        BY <1>1, <2>1, <2>3, <3>1, RenderSame
      <4> QED BY <3>2, <4>1, <4>2
    <3>3. CASE i # active
      <4>1. screen' = screen
        BY <1>5, <3>3 DEF TermWriteTo
      <4> QED BY <2>3, <3>1, <3>3, <4>1
    <3> QED BY <3>2, <3>3
  <2> QED BY Zenon, <2>2, <2>3, <2>4 DEF TermInv, Screens
<1>6. ASSUME NEW i \in ConsoleIds, TermSwitch(i) PROVE TermInv'
  <2>1. active' = i /\ UNCHANGED <<columns, rows, consoles, to_screen>>
    BY <1>6 DEF TermSwitch
  <2>2. ASSUME to_screen PROVE screen' \in Screens /\ screen'.grid = consoles[i]
    <3>1. screen' = RenderConsole(screen, consoles[i])
      BY <1>2, <1>6, <2>2 DEF TermSwitch
    <3>2. screen \in Screens
      BY <2>2 DEF TermInv
    <3> QED BY <1>1, <1>3, <3>1, <3>2, RenderSame
  <2> QED BY Zenon, <2>1, <2>2 DEF TermInv, Screens
<1>7. ASSUME NEW w \in Widths, NEW h \in Heights, TermDisplay(w, h) PROVE TermInv'
  <2> USE GridAssumption, ModeFitsConsole
  <2> DEFINE pw == Mode(TargetWidth, w)
             ph == Mode(TargetHeight, h)
             c == pw \div CharWidth
             r == ph \div CharHeight
  <2>1. pw \in Nat /\ pw <= TargetWidth /\ ph \in Nat /\ ph <= TargetHeight
    BY DEF Mode, Least
  <2>2. pw >= CharWidth * MinChars /\ ph >= CharHeight * MinChars /\ screen' = FbNew(pw, ph)
    BY Zenon, <1>7 DEF TermDisplay, FbInitialize
  <2> HIDE DEF pw, ph
  <2>3. c \in Nat \ {0} /\ c <= TargetWidth \div CharWidth
    BY Zenon, <2>1, <2>2, WholeCharacters
  <2>4. r \in Nat \ {0} /\ r <= TargetHeight \div CharHeight
    BY Zenon, <2>1, <2>2, WholeCharacters
  <2>5. screen' = [up |-> TRUE, columns |-> c, rows |-> r, grid |-> EmptyConsole(r, c)]
    BY <2>2 DEF FbNew
  <2>6. TargetWidth \div CharWidth \in Int /\ TargetHeight \div CharHeight \in Int
    OBVIOUS
  <2> HIDE DEF c, r
  <2>7. Clamp(c, MaxColumns) = c /\ Clamp(r, MaxRows) = r
    <3>1. c \in Nat /\ c >= 1 /\ MaxColumns \in Nat /\ c <= MaxColumns
      BY <2>3, <2>6
    <3>2. r \in Nat /\ r >= 1 /\ MaxRows \in Nat /\ r <= MaxRows
      BY <2>4, <2>6
    <3> QED BY ONLY <3>1, <3>2 DEF Clamp, Least
  <2>8. columns' = c /\ rows' = r
    BY Zenon, <1>7, <2>5, <2>7 DEF TermDisplay
  <2>9. EmptyConsole(r, c) \in Grid(r, c)
    BY <2>3, <2>4 DEF EmptyConsole, EmptyCells, Grid
  <2>10. /\ consoles' = [i \in ConsoleIds |-> EmptyConsole(r, c)] /\ active' = 0
         /\ to_screen' = TRUE
    BY <1>7, <2>8 DEF TermDisplay
  <2>11. 0 \in ConsoleIds
    BY DEF ConsoleIds
  <2>12. screen' \in Screens' /\ screen'.grid = consoles'[active']
    BY <2>5, <2>8, <2>9, <2>10, <2>11 DEF Screens
  <2> QED BY <2>3, <2>4, <2>8, <2>9, <2>10, <2>11, <2>12 DEF TermInv
<1>8. CASE UNCHANGED termVars
  BY Zenon, <1>8 DEF termVars, TermInv, Screens
<1> QED BY <1>4, <1>5, <1>6, <1>7, <1>8 DEF TermNext, Characters

\* What the framebuffer shows is what the active console holds, for any
\* geometry, any number of consoles and any text: tty.rs and fb.rs never drift
\* apart.
THEOREM ScreenInStep == TermSpec => []ScreenShowsActive
<1>1. TermInit => TermInv
  <2> SUFFICES ASSUME TermInit PROVE TermInv
    OBVIOUS
  <2>1. EmptyConsole(DefaultRows, DefaultColumns) \in Grid(DefaultRows, DefaultColumns)
    BY GridAssumption DEF EmptyConsole, EmptyCells, Grid
  <2>2. DefaultColumns \in Nat \ {0} /\ DefaultRows \in Nat \ {0} /\ 0 \in ConsoleIds
    BY GridAssumption DEF ConsoleIds
  <2> QED BY Zenon, <2>1, <2>2 DEF TermInit, TermInv
<1>2. TermInv => ScreenShowsActive
  BY Zenon DEF TermInv, ScreenShowsActive, Screens
<1> QED BY <1>1, <1>2, TermStep, PTL DEF TermSpec

-----------------------------------------------------------------------------
(* Open files.                                                             *)

\* A non-empty set of naturals contains its minimum: the lowest free entry and
\* the lowest free descriptor are free.
LEMMA MinInSet ==
  ASSUME NEW S, S \subseteq Nat, S # {}
  PROVE  Min(S) \in S
<1>1. PICK x \in S : \A y \in S : <<y, x>> \notin OpToRel(<, Nat)
  BY Zenon, WFMin, NatLessThanWellFounded
<1>2. \A y \in S : x =< y
  <2> SUFFICES ASSUME NEW y \in S PROVE x =< y
    OBVIOUS
  <2>1. x \in Nat /\ y \in Nat /\ ~(y < x)
    BY Zenon, <1>1 DEF OpToRel
  <2> QED
    BY <2>1
<1> QED
  BY Zenon, <1>1, <1>2 DEF Min

\* The descriptors that name an entry are finitely many.
LEMMA HoldersFinite ==
  ASSUME NEW i
  PROVE  IsFiniteSet(Holders(i)) /\ Cardinality(Holders(i)) \in Nat
<1>0. IsFiniteSet(Fds)
  BY FS_Interval, FilesAssumption DEF Fds
<1>1. IsFiniteSet(Threads \X Fds)
  BY <1>0, FS_Product, FilesAssumption
<1>2. Holders(i) \in SUBSET (Threads \X Fds)
  BY DEF Holders
<1>3. IsFiniteSet(Holders(i))
  BY <1>1, <1>2, FS_Subset
<1> QED
  BY <1>3, FS_CardinalityType

Put(t, d, v) == fds' = [fds EXCEPT ![t][d] = v]

\* An assignment to one descriptor moves it between the sets of holders.
LEMMA PutStep ==
  ASSUME TypeOK, NEW t \in Threads, NEW d \in Fds, NEW v \in Files \cup {None},
         Put(t, d, v), NEW i \in Files
  PROVE  /\ v = i => Holders(i)' = Holders(i) \cup {<<t, d>>}
         /\ v # i => Holders(i)' = Holders(i) \ {<<t, d>>}
         /\ v # i /\ fds[t][d] # i => Holders(i)' = Holders(i)
         /\ Cardinality(Holders(i))' =
              IF v = i
              THEN IF fds[t][d] = i THEN Cardinality(Holders(i)) ELSE Cardinality(Holders(i)) + 1
              ELSE IF fds[t][d] = i THEN Cardinality(Holders(i)) - 1 ELSE Cardinality(Holders(i))
<1>1. \A x \in Threads \X Fds : fds'[x[1]][x[2]] = IF x = <<t, d>> THEN v ELSE fds[x[1]][x[2]]
  BY DEF TypeOK, Put
<1>2. v = i => Holders(i)' = Holders(i) \cup {<<t, d>>}
  BY <1>1 DEF Holders
<1>3. v # i => Holders(i)' = Holders(i) \ {<<t, d>>}
  BY <1>1 DEF Holders
<1>4. <<t, d>> \in Holders(i) <=> fds[t][d] = i
  BY DEF Holders
<1>5. IsFiniteSet(Holders(i))
  BY HoldersFinite
<1>6. v # i /\ fds[t][d] # i => Holders(i)' = Holders(i)
  BY <1>3, <1>4
<1>7. Cardinality(Holders(i))' = Cardinality(Holders(i)')
  OBVIOUS
<1>8. CASE v = i
  BY <1>2, <1>4, <1>5, <1>8, FS_AddElement
<1>9. CASE v # i
  BY Zenon, <1>3, <1>4, <1>5, <1>9, FS_RemoveElement
<1> QED
  BY <1>2, <1>3, <1>6, <1>8, <1>9

\* What an ended thread, or one not created yet, still holds.
LifeSound ==
  \A t \in Threads : \A d \in Fds :
    /\ life[t] = "unborn" => fds[t][d] = None
    /\ life[t] = "exited" /\ d >= FirstFd => fds[t][d] = None

IndInv == TypeOK /\ RefCountsExact /\ ThreadsShareNoFile /\ LifeSound

\* The empty table (GlobalOpenFileTable::new) satisfies the invariant.
LEMMA FilesInit == Init => IndInv
<1> SUFFICES ASSUME Init PROVE IndInv
  OBVIOUS
<1>1. TypeOK
  BY DEF Init, TypeOK, OpenFile, Lives
<1>2. \A i \in Files : Holders(i) = {}
  BY DEF Init, Holders, Files, None
<1>3. RefCountsExact
  BY <1>2 DEF Init, RefCountsExact
<1>4. ThreadsShareNoFile
  BY <1>2 DEF ThreadsShareNoFile
<1>5. LifeSound
  BY DEF Init, LifeSound
<1> QED
  BY <1>1, <1>3, <1>4, <1>5 DEF IndInv

\* The lowest free entry and descriptor, when there are any.
LEMMA FreeChoice ==
  ASSUME TypeOK, NEW t \in Threads
  PROVE  /\ FreeFiles # {} => Min(FreeFiles) \in Files /\ ~files[Min(FreeFiles)].used
         /\ FreeFds(t) # {} => /\ Min(FreeFds(t)) \in Fds
                               /\ fds[t][Min(FreeFds(t))] = None
                               /\ Min(FreeFds(t)) >= FirstFd
<1>1. FreeFiles \in SUBSET Nat /\ FreeFds(t) \in SUBSET Nat
  BY FilesAssumption DEF FreeFiles, FreeFds, Files, Fds
<1> QED
  BY <1>1, MinInSet DEF FreeFiles, FreeFds

\* alloc_open_file keeps the invariant: the entry it takes has no holder yet.
LEMMA OpenStep ==
  ASSUME IndInv, NEW t \in Threads, Open(t)
  PROVE  IndInv'
<1> DEFINE g == Min(FreeFiles)
           d == Min(FreeFds(t))
<1>1. g \in Files /\ ~files[g].used /\ d \in Fds /\ fds[t][d] = None
  BY FreeChoice DEF IndInv, Open
<1>2. /\ files' = [files EXCEPT ![g] = Fresh]
      /\ fds' = [fds EXCEPT ![t][d] = g]
      /\ life' = life /\ life[t] = "live"
  BY DEF Open, Live
<1> HIDE DEF g, d
<1>3. TypeOK'
  BY <1>1, <1>2 DEF IndInv, TypeOK, OpenFile, Fresh
<1>4. g # None
  BY <1>1 DEF Files, None
<1>5. ASSUME NEW i \in Files
      PROVE  /\ i = g => Holders(i) = {} /\ Holders(i)' = {<<t, d>>}
             /\ i # g => Holders(i)' = Holders(i)
  <2>1. fds[t][d] # i
    BY <1>1 DEF Files, None
  <2>2. /\ g = i => Holders(i)' = Holders(i) \cup {<<t, d>>}
        /\ g # i => Holders(i)' = Holders(i)
    <3>1. TypeOK /\ g \in Files \cup {None} /\ Put(t, d, g)
      BY <1>1, <1>2 DEF IndInv, Put
    <3> QED
      BY <3>1, <2>1, <1>1, PutStep
  <2> QED
    BY <1>1, <2>2 DEF IndInv, RefCountsExact
<1>6. RefCountsExact'
  <2> SUFFICES ASSUME NEW i \in Files
               PROVE  (IF files[i].used THEN files[i].refs = Cardinality(Holders(i))
                                        ELSE Holders(i) = {})'
    BY DEF RefCountsExact
  <2>1. CASE i = g
    <3>1. files'[i].used /\ files'[i].refs = 1
      BY <1>1, <1>2, <2>1 DEF Fresh, IndInv, TypeOK
    <3> QED
      BY Zenon, <3>1, <1>5, <2>1, FS_Singleton
  <2>2. CASE i # g
    BY <1>2, <1>5, <2>2 DEF IndInv, TypeOK, RefCountsExact
  <2> QED
    BY <2>1, <2>2
<1>7. ThreadsShareNoFile'
  <2> SUFFICES ASSUME NEW i \in Files PROVE (\A x, y \in Holders(i) : x[1] = y[1])'
    BY DEF ThreadsShareNoFile
  <2>1. CASE i = g
    BY <1>5, <2>1
  <2>2. CASE i # g
    BY <1>5, <2>2 DEF IndInv, ThreadsShareNoFile
  <2> QED
    BY <2>1, <2>2
<1>8. LifeSound'
  BY <1>1, <1>2 DEF IndInv, TypeOK, LifeSound
<1> QED
  BY <1>3, <1>6, <1>7, <1>8 DEF IndInv

\* sys_dup keeps the invariant: one more descriptor, one more reference.
LEMMA DupStep ==
  ASSUME IndInv, NEW t \in Threads, NEW old \in Fds, Dup(t, old)
  PROVE  IndInv'
<1> DEFINE g == fds[t][old]
           d == Min(FreeFds(t))
<1>1. g \in Files /\ d \in Fds /\ fds[t][d] = None
  BY FreeChoice DEF IndInv, TypeOK, Dup
<1>2. /\ files' = [files EXCEPT ![g] = AddRef(@)]
      /\ fds' = [fds EXCEPT ![t][d] = g]
      /\ life' = life /\ life[t] = "live"
  BY DEF Dup, Live
<1>3. <<t, old>> \in Holders(g)
  BY DEF Holders
<1> HIDE DEF g, d
<1>4. files[g].used /\ files[g].refs = Cardinality(Holders(g))
  BY <1>1, <1>3 DEF IndInv, RefCountsExact
<1>5. files' = [files EXCEPT ![g] = [files[g] EXCEPT !.refs = @ + 1]]
  BY <1>1, <1>2, <1>4 DEF AddRef, IndInv, TypeOK
<1>6. TypeOK'
  BY <1>1, <1>2, <1>5 DEF IndInv, TypeOK, OpenFile
<1>7. ASSUME NEW i \in Files
      PROVE  /\ i = g => /\ Holders(i)' = Holders(i) \cup {<<t, d>>}
                         /\ Cardinality(Holders(i))' = Cardinality(Holders(i)) + 1
             /\ i # g => Holders(i)' = Holders(i)
  <2>1. fds[t][d] # i
    BY <1>1 DEF Files, None
  <2>2. TypeOK /\ g \in Files \cup {None} /\ Put(t, d, g)
    BY <1>1, <1>2 DEF IndInv, Put
  <2> QED
    BY <2>1, <2>2, <1>1, PutStep
<1>8. RefCountsExact'
  <2> SUFFICES ASSUME NEW i \in Files
               PROVE  (IF files[i].used THEN files[i].refs = Cardinality(Holders(i))
                                        ELSE Holders(i) = {})'
    BY DEF RefCountsExact
  <2>1. CASE i = g
    <3>1. files'[i].used /\ files'[i].refs = files[g].refs + 1
      BY <1>1, <1>4, <1>5, <2>1 DEF IndInv, TypeOK, OpenFile
    <3> QED
      BY <3>1, <1>4, <1>7, <2>1
  <2>2. CASE i # g
    BY <1>5, <1>7, <2>2 DEF IndInv, TypeOK, RefCountsExact
  <2> QED
    BY <2>1, <2>2
<1>9. ThreadsShareNoFile'
  <2> SUFFICES ASSUME NEW i \in Files PROVE (\A x, y \in Holders(i) : x[1] = y[1])'
    BY DEF ThreadsShareNoFile
  <2>1. CASE i = g
    <3>1. \A x \in Holders(i) : x[1] = t
      BY <1>3, <2>1 DEF IndInv, ThreadsShareNoFile
    <3>2. \A x \in Holders(i) \cup {<<t, d>>} : x[1] = t
      BY <3>1
    <3> QED
      BY <3>2, <1>7, <2>1
  <2>2. CASE i # g
    BY <1>7, <2>2 DEF IndInv, ThreadsShareNoFile
  <2> QED
    BY <2>1, <2>2
<1>10. LifeSound'
  BY <1>1, <1>2 DEF IndInv, TypeOK, LifeSound
<1> QED
  BY <1>6, <1>8, <1>9, <1>10 DEF IndInv

\* One step of the counter going down: Drop agrees with the loss of one holder.
LEMMA DropOne ==
  ASSUME NEW f \in OpenFile, f.used, NEW H, IsFiniteSet(H), NEW a \in H,
         f.refs = Cardinality(H)
  PROVE  /\ Drop(f, 1) \in OpenFile
         /\ IF Drop(f, 1).used THEN Drop(f, 1).refs = Cardinality(H \ {a}) ELSE H \ {a} = {}
<1>1. IsFiniteSet(H \ {a}) /\ Cardinality(H \ {a}) = Cardinality(H) - 1
  BY FS_RemoveElement
<1>2. Cardinality(H \ {a}) = 0 => H \ {a} = {}
  BY <1>1, FS_EmptySet
<1>3. CASE 1 < f.refs
  <2>1. Drop(f, 1) = [f EXCEPT !.refs = f.refs - 1]
    BY <1>3 DEF Drop
  <2> QED
    BY <2>1, <1>1, <1>3 DEF OpenFile
<1>4. CASE ~(1 < f.refs)
  <2>1. f.refs = 1
    BY <1>4 DEF OpenFile
  <2>2. Drop(f, 1) = [used |-> FALSE, refs |-> 1]
    BY <1>4 DEF Drop
  <2>3. H \ {a} = {}
    BY <2>1, <1>1, <1>2
  <2>4. [used |-> FALSE, refs |-> 1] \in OpenFile
    BY DEF OpenFile
  <2>5. ~Drop(f, 1).used
    BY <2>2
  <2> QED
    BY <2>2, <2>3, <2>4, <2>5, Zenon
<1> QED
  BY <1>3, <1>4

\* close_open_file keeps the invariant.
LEMMA CloseStep ==
  ASSUME IndInv, NEW t \in Threads, NEW d \in Fds, Close(t, d)
  PROVE  IndInv'
<1> DEFINE g == fds[t][d]
<1>1. g \in Files /\ <<t, d>> \in Holders(g)
  BY DEF IndInv, TypeOK, Close, Holders
<1>2. /\ files' = [files EXCEPT ![g] = Drop(@, 1)]
      /\ Put(t, d, None)
      /\ life' = life /\ life[t] = "live"
  BY DEF Close, Live, Put
<1>3. ASSUME NEW i \in Files
      PROVE  /\ i = g => Holders(i)' = Holders(i) \ {<<t, d>>}
             /\ i # g => Holders(i)' = Holders(i)
  <2>1. TypeOK /\ None # i /\ None \in Files \cup {None}
    BY DEF IndInv, Files, None
  <2>2. /\ Holders(i)' = Holders(i) \ {<<t, d>>}
        /\ fds[t][d] # i => Holders(i)' = Holders(i)
    BY <2>1, <1>2, PutStep
  <2> QED
    BY <2>2
<1> HIDE DEF g
<1>4. files[g] \in OpenFile /\ files[g].used /\ files[g].refs = Cardinality(Holders(g))
  BY <1>1 DEF IndInv, RefCountsExact, TypeOK
<1>5. /\ Drop(files[g], 1) \in OpenFile
      /\ IF Drop(files[g], 1).used THEN Drop(files[g], 1).refs = Cardinality(Holders(g) \ {<<t, d>>})
                                   ELSE Holders(g) \ {<<t, d>>} = {}
  BY <1>1, <1>4, DropOne, HoldersFinite
<1>6. /\ \A i \in Files : files'[i] = IF i = g THEN Drop(files[g], 1) ELSE files[i]
      /\ files' \in [Files -> OpenFile]
  BY <1>1, <1>2, <1>5 DEF IndInv, TypeOK
<1>7. TypeOK'
  BY <1>2, <1>6 DEF IndInv, TypeOK, Put
<1>8. RefCountsExact'
  <2> SUFFICES ASSUME NEW i \in Files
               PROVE  (IF files[i].used THEN files[i].refs = Cardinality(Holders(i))
                                        ELSE Holders(i) = {})'
    BY DEF RefCountsExact
  <2>1. CASE i = g
    BY <1>3, <1>5, <1>6, <2>1
  <2>2. CASE i # g
    BY <1>3, <1>6, <2>2 DEF IndInv, RefCountsExact
  <2> QED
    BY <2>1, <2>2
<1>9. ThreadsShareNoFile'
  <2> SUFFICES ASSUME NEW i \in Files PROVE (\A x, y \in Holders(i) : x[1] = y[1])'
    BY DEF ThreadsShareNoFile
  <2>1. Holders(i)' \subseteq Holders(i)
    BY <1>3
  <2> QED
    BY <2>1 DEF IndInv, ThreadsShareNoFile
<1>10. LifeSound'
  BY <1>1, <1>2 DEF IndInv, TypeOK, LifeSound, Put
<1> QED
  BY <1>7, <1>8, <1>9, <1>10 DEF IndInv

\* create_thread and the end by an exception touch no file.
LEMMA SpawnFaultStep ==
  ASSUME IndInv, NEW t \in Threads, Spawn(t) \/ Fault(t)
  PROVE  IndInv'
<1>1. files' = files /\ fds' = fds
  BY DEF Spawn, Fault
<1>2. TypeOK'
  BY <1>1 DEF IndInv, TypeOK, Spawn, Fault, Lives
<1>3. \A i : Holders(i)' = Holders(i)
  BY <1>1 DEF Holders
<1>4. RefCountsExact'
  BY <1>1, <1>3 DEF IndInv, RefCountsExact
<1>5. ThreadsShareNoFile'
  BY <1>3 DEF IndInv, ThreadsShareNoFile
<1>6. LifeSound'
  BY <1>1 DEF IndInv, TypeOK, LifeSound, Spawn, Fault
<1> QED
  BY <1>2, <1>4, <1>5, <1>6 DEF IndInv

\* Two descriptors of one entry are counted as two: dup2 onto another descriptor
\* of the same file does not free it on the way.
LEMMA TwoHolders ==
  ASSUME NEW H, IsFiniteSet(H), NEW a \in H, NEW b \in H, a # b
  PROVE  Cardinality(H) \in Nat /\ Cardinality(H) > 1
<1>1. IsFiniteSet(H \ {a}) /\ Cardinality(H \ {a}) = Cardinality(H) - 1
  BY FS_RemoveElement
<1>2. H \ {a} # {}
  OBVIOUS
<1>3. Cardinality(H \ {a}) # 0
  BY <1>1, <1>2, FS_EmptySet
<1>4. Cardinality(H) \in Nat /\ Cardinality(H \ {a}) \in Nat
  BY <1>1, FS_CardinalityType
<1> QED
  BY <1>1, <1>3, <1>4

\* sys_dup2 keeps the invariant, whatever the target descriptor named before.
LEMMA Dup2Step ==
  ASSUME IndInv, NEW t \in Threads, NEW old \in Fds, NEW new \in Fds, Dup2(t, old, new)
  PROVE  IndInv'
<1> DEFINE g == fds[t][old]
           x == fds[t][new]
           closed == IF x = None THEN files ELSE [files EXCEPT ![x] = Drop(@, 1)]
<1>1. /\ g \in Files /\ <<t, old>> \in Holders(g)
      /\ x \in Files \cup {None}
      /\ x # None => <<t, new>> \in Holders(x)
      /\ old # new
  BY DEF IndInv, TypeOK, Dup2, Holders
<1>2. /\ files' = [closed EXCEPT ![g] = AddRef(@)]
      /\ Put(t, new, g)
      /\ life' = life /\ life[t] = "live"
  BY DEF Dup2, Live, Put
<1>3. ASSUME NEW i \in Files
      PROVE  /\ i = g => Holders(i)' = Holders(i) \cup {<<t, new>>}
             /\ i # g => Holders(i)' = Holders(i) \ {<<t, new>>}
             /\ i # g /\ i # x => Holders(i)' = Holders(i)
             /\ i = g /\ i # x => Cardinality(Holders(i))' = Cardinality(Holders(i)) + 1
             /\ i = g /\ i = x => Cardinality(Holders(i))' = Cardinality(Holders(i))
  <2>1. TypeOK /\ g \in Files \cup {None}
    BY <1>1 DEF IndInv
  <2> QED
    BY <2>1, <1>2, PutStep
<1> HIDE DEF g, x
<1>4. \A i \in Files : Holders(i) # {} =>
         files[i] \in OpenFile /\ files[i].used /\ files[i].refs = Cardinality(Holders(i))
  BY DEF IndInv, RefCountsExact, TypeOK
<1>5. x \in Files =>
        /\ Drop(files[x], 1) \in OpenFile
        /\ IF Drop(files[x], 1).used THEN Drop(files[x], 1).refs = Cardinality(Holders(x) \ {<<t, new>>})
                                     ELSE Holders(x) \ {<<t, new>>} = {}
  <2> HAVE x \in Files
  <2>1. x # None
    BY DEF Files, None
  <2>2. /\ <<t, new>> \in Holders(x)
        /\ files[x] \in OpenFile /\ files[x].used /\ files[x].refs = Cardinality(Holders(x))
    BY <2>1, <1>1, <1>4
  <2> QED
    BY <2>2, DropOne, HoldersFinite
<1>6. closed \in [Files -> OpenFile]
  BY <1>1, <1>5 DEF IndInv, TypeOK
<1>7. closed[g].used /\ closed[g].refs =
         IF g = x THEN Cardinality(Holders(g)) - 1 ELSE Cardinality(Holders(g))
  <2>1. files[g] \in OpenFile /\ files[g].used /\ files[g].refs = Cardinality(Holders(g))
    BY <1>1, <1>4
  <2>2. CASE g # x
    BY <1>1, <2>1, <2>2 DEF IndInv, TypeOK
  <2>3. CASE g = x
    <3>1. x # None /\ <<t, old>> # <<t, new>>
      BY <1>1, <2>3 DEF Files, None
    <3>2. files[g].refs \in Nat /\ files[g].refs > 1
      BY <3>1, <2>1, <2>3, <1>1, TwoHolders, HoldersFinite
    <3>3. Drop(files[g], 1) = [files[g] EXCEPT !.refs = files[g].refs - 1]
      BY <3>2, <2>1 DEF Drop
    <3>4. closed = [files EXCEPT ![g] = Drop(files[g], 1)]
      BY <3>1, <2>3
    <3>5. closed[g] = [files[g] EXCEPT !.refs = files[g].refs - 1]
      BY <3>3, <3>4, <1>1 DEF IndInv, TypeOK
    <3> HIDE DEF closed
    <3> QED
      BY <3>5, <2>1, <2>3 DEF OpenFile
  <2> QED
    BY <2>2, <2>3
<1>8. \A i \in Files : i # g => closed[i] = IF i = x THEN Drop(files[x], 1) ELSE files[i]
  BY <1>1 DEF IndInv, TypeOK, Files, None
<1> HIDE DEF closed
<1>9. /\ files' \in [Files -> OpenFile]
      /\ \A i \in Files : i # g => files'[i] = closed[i]
      /\ files'[g].used /\ files'[g].refs = closed[g].refs + 1
  BY <1>1, <1>2, <1>6, <1>7 DEF AddRef, OpenFile
<1>10. TypeOK'
  BY <1>1, <1>2, <1>9 DEF IndInv, TypeOK, Put
<1>11. RefCountsExact'
  <2> SUFFICES ASSUME NEW i \in Files
               PROVE  (IF files[i].used THEN files[i].refs = Cardinality(Holders(i))
                                        ELSE Holders(i) = {})'
    BY DEF RefCountsExact
  <2>1. CASE i = g
    <3>1. Cardinality(Holders(g)) \in Nat
      BY HoldersFinite
    <3> QED
      BY <3>1, <1>3, <1>7, <1>9, <2>1
  <2>2. CASE i # g /\ i = x
    <3>1. files'[i] = Drop(files[x], 1) /\ Holders(i)' = Holders(x) \ {<<t, new>>}
      BY <1>3, <1>8, <1>9, <2>2
    <3>2. x \in Files
      BY <2>2
    <3> QED
      BY <3>1, <3>2, <1>5
  <2>3. CASE i # g /\ i # x
    BY <1>3, <1>8, <1>9, <2>3 DEF IndInv, RefCountsExact
  <2> QED
    BY <2>1, <2>2, <2>3
<1>12. ThreadsShareNoFile'
  <2> SUFFICES ASSUME NEW i \in Files PROVE (\A y, z \in Holders(i) : y[1] = z[1])'
    BY DEF ThreadsShareNoFile
  <2>1. CASE i = g
    <3>1. \A y \in Holders(i) : y[1] = t
      BY <1>1, <2>1 DEF IndInv, ThreadsShareNoFile
    <3>2. \A y \in Holders(i) \cup {<<t, new>>} : y[1] = t
      BY <3>1
    <3> QED
      BY <3>2, <1>3, <2>1
  <2>2. CASE i # g
    <3>1. Holders(i)' \subseteq Holders(i)
      BY <1>3, <2>2
    <3> QED
      BY <3>1 DEF IndInv, ThreadsShareNoFile
  <2> QED
    BY <2>1, <2>2
<1>13. LifeSound'
  BY <1>1, <1>2 DEF IndInv, TypeOK, LifeSound, Put
<1> QED
  BY <1>10, <1>11, <1>12, <1>13 DEF IndInv

\* sys_pipe keeps the invariant: its two entries and descriptors are distinct.
LEMMA PipeStep ==
  ASSUME IndInv, NEW t \in Threads, Pipe(t)
  PROVE  IndInv'
<1> DEFINE r  == Min(FreeFiles)
           w  == Min(FreeFiles \ {r})
           rd == Min(FreeFds(t))
           wd == Min(FreeFds(t) \ {rd})
<1>1. /\ files' = [files EXCEPT ![r] = Fresh, ![w] = Fresh]
      /\ fds' = [fds EXCEPT ![t] = [fds[t] EXCEPT ![rd] = r, ![wd] = w]]
      /\ life' = life /\ life[t] = "live"
      /\ Cardinality(FreeFds(t)) >= 2 /\ Cardinality(FreeFiles) >= 2
  BY DEF Pipe, Live
<1>2. ASSUME NEW S, S \subseteq Nat, IsFiniteSet(S), Cardinality(S) >= 2
      PROVE  Min(S) \in S /\ Min(S \ {Min(S)}) \in S \ {Min(S)}
  <2>1. S # {}
    BY <1>2, FS_EmptySet
  <2>2. Min(S) \in S
    BY Zenon, <1>2, <2>1, MinInSet
  <2>3. Cardinality(S \ {Min(S)}) = Cardinality(S) - 1 /\ Cardinality(S) \in Nat
    BY <1>2, <2>2, FS_RemoveElement, FS_CardinalityType
  <2>4. S \ {Min(S)} # {}
    BY <2>3, <1>2, FS_EmptySet
  <2>5. S \ {Min(S)} \in SUBSET Nat
    BY Zenon, <1>2
  <2> QED
    BY <2>2, <2>4, <2>5, MinInSet
<1>3. FreeFiles \in SUBSET Files /\ FreeFds(t) \in SUBSET Fds
  BY DEF FreeFiles, FreeFds
<1>4. /\ Files \in SUBSET Nat /\ Fds \in SUBSET Nat
      /\ IsFiniteSet(Files) /\ IsFiniteSet(Fds)
  BY FilesAssumption, FS_Interval DEF Files, Fds
<1>5. IsFiniteSet(FreeFiles) /\ IsFiniteSet(FreeFds(t))
  BY Zenon, <1>3, <1>4, FS_Subset
<1>6. r \in FreeFiles /\ w \in FreeFiles \ {r}
  BY <1>1, <1>2, <1>3, <1>4, <1>5
<1>7. rd \in FreeFds(t) /\ wd \in FreeFds(t) \ {rd}
  BY <1>1, <1>2, <1>3, <1>4, <1>5
<1> HIDE DEF r, w, rd, wd
<1>8. /\ r \in Files /\ w \in Files /\ r # w /\ ~files[r].used /\ ~files[w].used
      /\ rd \in Fds /\ wd \in Fds /\ rd # wd /\ fds[t][rd] = None /\ fds[t][wd] = None
  BY <1>6, <1>7 DEF FreeFiles, FreeFds
<1>9. TypeOK'
  <2>1. Fresh \in OpenFile
    BY DEF OpenFile, Fresh
  <2>2. files' \in [Files -> OpenFile]
    BY <2>1, <1>1, <1>8 DEF IndInv, TypeOK
  <2>3. [fds[t] EXCEPT ![rd] = r, ![wd] = w] \in [Fds -> Files \cup {None}]
    BY <1>8 DEF IndInv, TypeOK
  <2>4. fds' \in [Threads -> [Fds -> Files \cup {None}]]
    BY <2>3, <1>1 DEF IndInv, TypeOK
  <2> QED
    BY <2>2, <2>4, <1>1 DEF IndInv, TypeOK
<1>10. \A y \in Threads \X Fds :
         fds'[y[1]][y[2]] = IF y = <<t, rd>> THEN r
                            ELSE IF y = <<t, wd>> THEN w ELSE fds[y[1]][y[2]]
  BY <1>1, <1>8 DEF IndInv, TypeOK
<1>11. ASSUME NEW i \in Files
       PROVE  /\ i = r => Holders(i)' = {<<t, rd>>}
              /\ i = w => Holders(i)' = {<<t, wd>>}
              /\ i # r /\ i # w => Holders(i)' = Holders(i)
  <2>1. <<t, rd>> \in Threads \X Fds /\ <<t, wd>> \in Threads \X Fds /\ <<t, rd>> # <<t, wd>>
    BY <1>8
  <2>2. Holders(i)' = {y \in Threads \X Fds : fds'[y[1]][y[2]] = i}
    BY DEF Holders
  <2>3. i = r \/ i = w => \A y \in Threads \X Fds : fds[y[1]][y[2]] # i
    BY Zenon, <1>8 DEF IndInv, RefCountsExact, Holders
  <2>4. fds[t][rd] # i /\ fds[t][wd] # i
    BY <1>8 DEF Files, None
  <2>5. CASE i = r
    BY <2>1, <2>2, <2>3, <2>5, <1>8, <1>10
  <2>6. CASE i = w
    BY <2>1, <2>2, <2>3, <2>6, <1>8, <1>10
  <2>7. CASE i # r /\ i # w
    BY <2>2, <2>4, <2>7, <1>10 DEF Holders
  <2> QED
    BY <2>5, <2>6, <2>7, <1>8
<1>12. RefCountsExact'
  <2> SUFFICES ASSUME NEW i \in Files
               PROVE  (IF files[i].used THEN files[i].refs = Cardinality(Holders(i))
                                        ELSE Holders(i) = {})'
    BY DEF RefCountsExact
  <2>1. CASE i = r \/ i = w
    <3>1. files'[i].used /\ files'[i].refs = 1
      BY <1>1, <1>8, <2>1 DEF Fresh, IndInv, TypeOK
    <3> QED
      BY Zenon, <3>1, <1>11, <2>1, FS_Singleton
  <2>2. CASE i # r /\ i # w
    BY <1>1, <1>11, <2>2 DEF IndInv, TypeOK, RefCountsExact
  <2> QED
    BY <2>1, <2>2
<1>13. ThreadsShareNoFile'
  <2> SUFFICES ASSUME NEW i \in Files PROVE (\A y, z \in Holders(i) : y[1] = z[1])'
    BY DEF ThreadsShareNoFile
  <2>1. CASE i = r \/ i = w
    BY <1>11, <2>1
  <2>2. CASE i # r /\ i # w
    BY <1>11, <2>2 DEF IndInv, ThreadsShareNoFile
  <2> QED
    BY <2>1, <2>2
<1>14. LifeSound'
  <2>1. \A u \in Threads : u # t => fds'[u] = fds[u]
    BY <1>1 DEF IndInv, TypeOK
  <2>2. life' = life /\ life[t] = "live"
    BY <1>1
  <2> QED
    BY <2>1, <2>2 DEF IndInv, LifeSound
<1> QED
  BY <1>9, <1>12, <1>13, <1>14 DEF IndInv

\* exit_group keeps the invariant: the purge takes from each entry as many
\* references as the thread has descriptors of it from FirstFd on.
LEMMA ExitGroupStep ==
  ASSUME IndInv, NEW t \in Threads, ExitGroup(t)
  PROVE  IndInv'
<1> DEFINE P(i) == {d \in Purged(t) : fds[t][d] = i}
<1>1. /\ files' = [i \in Files |-> Drop(files[i], Cardinality(P(i)))]
      /\ fds' = [fds EXCEPT ![t] = [d \in Fds |-> IF d \in Purged(t) THEN None ELSE fds[t][d]]]
      /\ life' = [life EXCEPT ![t] = "exited"]
  BY DEF ExitGroup
<1>2. ASSUME NEW i \in Files
      PROVE  /\ Holders(i)' = Holders(i) \ ({t} \X P(i))
             /\ {t} \X P(i) \subseteq Holders(i)
             /\ Cardinality({t} \X P(i)) = Cardinality(P(i))
             /\ Cardinality(P(i)) \in Nat
             /\ IsFiniteSet(P(i))
  <2>1. None # i
    BY DEF Files, None
  <2>2. \A u \in Threads : \A d \in Fds :
          fds'[u][d] = IF u = t /\ d \in Purged(t) THEN None ELSE fds[u][d]
    BY <1>1 DEF IndInv, TypeOK
  <2>3. Holders(i)' = {y \in Threads \X Fds : fds'[y[1]][y[2]] = i}
    BY DEF Holders
  <2>4. Holders(i)' = Holders(i) \ ({t} \X P(i))
    <3>1. ASSUME NEW u \in Threads, NEW d \in Fds
          PROVE  <<u, d>> \in Holders(i)' <=> <<u, d>> \in Holders(i) \ ({t} \X P(i))
      BY <2>1, <2>2, <2>3 DEF Holders
    <3> QED
      BY <3>1, <2>3 DEF Holders
  <2>5. {t} \X P(i) \subseteq Holders(i)
    BY DEF Holders, Purged
  <2>6. IsFiniteSet(Fds)
    BY FilesAssumption, FS_Interval DEF Fds
  <2>7. P(i) \in SUBSET Fds
    BY DEF Purged
  <2>8. IsFiniteSet(P(i)) /\ Cardinality(P(i)) \in Nat
    BY <2>6, <2>7, FS_Subset, FS_CardinalityType
  <2>9. IsFiniteSet({t}) /\ Cardinality({t}) = 1
    BY Zenon, FS_Singleton
  <2>10. Cardinality({t} \X P(i)) = 1 * Cardinality(P(i))
    BY <2>8, <2>9, FS_Product
  <2> QED
    BY <2>4, <2>5, <2>8, <2>10
<1> HIDE DEF P
<1>3. ASSUME NEW i \in Files
      PROVE  /\ files'[i] \in OpenFile
             /\ IF files'[i].used THEN files'[i].refs = Cardinality(Holders(i)') ELSE Holders(i)' = {}
  <2> DEFINE k == Cardinality(P(i))
             f == files[i]
             T == {t} \X P(i)
             H == Holders(i)
  <2>1. f \in OpenFile /\ files'[i] = Drop(f, k) /\ k \in Nat
    BY Zenon, <1>1, <1>2 DEF IndInv, TypeOK
  <2>2. /\ IsFiniteSet(H) /\ Cardinality(H) \in Nat
        /\ Cardinality(H \ T) = Cardinality(H) - k
        /\ H \cap T = T /\ k =< Cardinality(H)
        /\ IsFiniteSet(H \ T)
    <3>1. H \cap T = T
      BY Zenon, <1>2
    <3>2. IsFiniteSet(H) /\ Cardinality(H) \in Nat
      BY HoldersFinite
    <3>3. IsFiniteSet(H \ T) /\ Cardinality(H \ T) = Cardinality(H) - Cardinality(H \cap T)
      BY Zenon, <3>2, FS_Difference
    <3>4. Cardinality(T) =< Cardinality(H) /\ Cardinality(T) = k
      BY <3>2, <1>2, FS_Subset
    <3> QED
      BY <3>1, <3>2, <3>3, <3>4
  <2>3. IF f.used THEN f.refs = Cardinality(H) ELSE H = {}
    BY DEF IndInv, RefCountsExact
  <2>4. Holders(i)' = H \ T
    BY Zenon, <1>2
  <2> HIDE DEF k, f, T, H
  <2>5. CASE ~f.used
    <3>1. Drop(f, k) = f
      BY <2>5 DEF Drop
    <3> QED
      BY <3>1, <2>1, <2>3, <2>4, <2>5
  <2>6. CASE f.used /\ k = 0
    <3>1. Drop(f, k) = f
      BY <2>6 DEF Drop
    <3>2. Cardinality(H \ T) = f.refs
      BY <2>2, <2>3, <2>6
    <3> QED
      BY <3>1, <3>2, <2>1, <2>4, <2>6
  <2>7. CASE f.used /\ k # 0 /\ k < f.refs
    <3>1. Drop(f, k) = [f EXCEPT !.refs = f.refs - k]
      BY <2>7 DEF Drop
    <3>2. f.refs - k \in Nat \ {0} /\ f.refs - k = Cardinality(H \ T)
      BY <2>1, <2>2, <2>3, <2>7 DEF OpenFile
    <3>3. Drop(f, k) \in OpenFile /\ Drop(f, k).refs = f.refs - k
      BY <3>1, <3>2, <2>1 DEF OpenFile
    <3>4. Drop(f, k).used
      BY <3>1, <2>1, <2>7 DEF OpenFile
    <3> QED
      BY <3>2, <3>3, <3>4, <2>1, <2>4
  <2>8. CASE f.used /\ k # 0 /\ ~(k < f.refs)
    <3>1. Drop(f, k) = [used |-> FALSE, refs |-> 1]
      BY <2>8 DEF Drop
    <3>2. Cardinality(H \ T) = 0
      BY <2>1, <2>2, <2>3, <2>8 DEF OpenFile
    <3>3. H \ T = {}
      BY <3>2, <2>2, FS_EmptySet
    <3>4. Drop(f, k) \in OpenFile
      BY <3>1 DEF OpenFile
    <3>5. ~Drop(f, k).used
      BY <3>1
    <3> QED
      BY <3>3, <3>4, <3>5, <2>1, <2>4, Zenon
  <2> QED
    BY <2>5, <2>6, <2>7, <2>8
<1>4. TypeOK'
  <2>1. files' \in [Files -> OpenFile]
    BY <1>1, <1>3
  <2>2. fds' \in [Threads -> [Fds -> Files \cup {None}]]
    BY <1>1 DEF IndInv, TypeOK
  <2>3. life' \in [Threads -> Lives]
    BY <1>1 DEF IndInv, TypeOK, Lives
  <2> QED
    BY <2>1, <2>2, <2>3 DEF TypeOK
<1>5. RefCountsExact'
  BY <1>3 DEF RefCountsExact
<1>6. ThreadsShareNoFile'
  <2> SUFFICES ASSUME NEW i \in Files PROVE (\A x, y \in Holders(i) : x[1] = y[1])'
    BY DEF ThreadsShareNoFile
  <2>1. Holders(i)' \subseteq Holders(i)
    BY Zenon, <1>2
  <2> QED
    BY <2>1 DEF IndInv, ThreadsShareNoFile
<1>7. LifeSound'
  <2>1. \A u \in Threads : u # t => fds'[u] = fds[u] /\ life'[u] = life[u]
    BY <1>1 DEF IndInv, TypeOK
  <2>2. life'[t] = "exited" /\ \A d \in Fds : d >= FirstFd => fds'[t][d] = None
    BY <1>1 DEF IndInv, TypeOK, Purged
  <2> QED
    BY <2>1, <2>2 DEF IndInv, LifeSound
<1> QED
  BY <1>4, <1>5, <1>6, <1>7 DEF IndInv

\* Every step keeps the inductive invariant.
LEMMA FilesStep == IndInv /\ [Next]_vars => IndInv'
<1> SUFFICES ASSUME IndInv, [Next]_vars PROVE IndInv'
  OBVIOUS
<1>1. CASE Next
  <2>1. PICK t \in Threads :
          \/ Spawn(t) \/ Open(t) \/ Pipe(t) \/ ExitGroup(t) \/ Fault(t)
          \/ \E d \in Fds : Dup(t, d) \/ Close(t, d) \/ \E e \in Fds : Dup2(t, d, e)
    BY <1>1 DEF Next
  <2> QED
    BY <2>1, SpawnFaultStep, OpenStep, PipeStep, ExitGroupStep, DupStep, CloseStep, Dup2Step
<1>2. CASE UNCHANGED vars
  <2>1. files' = files /\ fds' = fds /\ life' = life
    BY <1>2 DEF vars
  <2>2. \A i : Holders(i)' = Holders(i)
    BY <2>1 DEF Holders
  <2> QED
    BY <2>1, <2>2 DEF IndInv, TypeOK, RefCountsExact, ThreadsShareNoFile, LifeSound
<1> QED
  BY <1>1, <1>2

\* IndInv holds in every reachable state.
THEOREM FilesInvariant == Spec => []IndInv
BY FilesInit, FilesStep, PTL DEF Spec

\* The reference count of every open file is the number of descriptors that
\* name it, through open, pipe, dup, dup2, close and the purge at exit.
THEOREM RefCountsAreExact == Spec => []RefCountsExact
<1>1. IndInv => RefCountsExact
  BY DEF IndInv
<1> QED
  BY <1>1, FilesInvariant, PTL

\* No two threads ever reach the same entry of FILE_TABLE.
THEOREM FilesAreNotShared == Spec => []ThreadsShareNoFile
<1>1. IndInv => ThreadsShareNoFile
  BY DEF IndInv
<1> QED
  BY <1>1, FilesInvariant, PTL

\* An entry in use is held by a live thread, or leaked in one of the two ways
\* LeaksOnlyByFault names: the purge at exit misses nothing else.
THEOREM ExitLeaksNothingElse == Spec => []LeaksOnlyByFault
<1>1. IndInv => LeaksOnlyByFault
  <2> SUFFICES ASSUME IndInv, NEW i \in Files, files[i].used
               PROVE  \E x \in Holders(i) : life[x[1]] \in {"live", "faulted"} \/ x[2] < FirstFd
    BY DEF LeaksOnlyByFault
  <2>1. Holders(i) # {}
    <3>1. files[i].refs = Cardinality(Holders(i)) /\ files[i].refs # 0
      BY DEF IndInv, TypeOK, RefCountsExact, OpenFile
    <3> QED
      BY <3>1, FS_EmptySet
  <2>2. PICK u \in Threads, d \in Fds : <<u, d>> \in Holders(i)
    BY <2>1 DEF Holders
  <2>3. fds[u][d] # None
    BY <2>2 DEF Holders, Files, None
  <2>4. life[u] \in Lives /\ d \in Int
    BY FilesAssumption DEF IndInv, TypeOK, Fds
  <2>5. life[u] \in {"live", "faulted"} \/ d < FirstFd
    BY <2>3, <2>4 DEF IndInv, LifeSound, Lives, FirstFd
  <2> QED
    BY <2>2, <2>5
<1> QED
  BY <1>1, FilesInvariant, PTL
=============================================================================
