------------------------------ MODULE Terminal ------------------------------
(***************************************************************************)
(* The kernel's terminal: the virtual consoles of tty.rs, each a grid of   *)
(* cells with a cursor, and the framebuffer console of fb.rs, which keeps  *)
(* a cursor of its own and does its own wrapping and scrolling.  Output to *)
(* the active console goes to both; a switch, or a write by number to the  *)
(* active console, redraws the screen from the console's cells.            *)
(*                                                                         *)
(* A text is written one character at a time: tty::write_style of a text   *)
(* is the sequence of its characters, and nothing else runs meanwhile (the *)
(* log guard has interrupts off).  Style belongs to the glyph.  Byte and   *)
(* line counters, which only stats() reads, and the serial copy are left   *)
(* out.                                                                    *)
(***************************************************************************)
EXTENDS Integers

CONSTANTS
    ConsoleCount,                 \* VIRTUAL_CONSOLE_COUNT, 4 in the code
    DefaultColumns, DefaultRows,  \* 80 and 25
    MaxColumns, MaxRows,          \* 160 and 70
    TargetWidth, TargetHeight,    \* 1920 and 1080: the largest mode asked for
    CharWidth, CharHeight,        \* 12 and 16 pixels
    MinChars,                     \* 4: fewer columns or rows is an error
    Widths, Heights,              \* the adapter's limits considered
    Glyphs,                       \* printable characters in some style
    Blank                         \* a space, and a cell never written

ASSUME GridAssumption ==
    /\ {ConsoleCount, DefaultColumns, DefaultRows, MaxColumns, MaxRows, CharWidth,
        CharHeight, MinChars} \subseteq Nat \ {0}
    /\ TargetWidth \in Nat /\ TargetHeight \in Nat
    /\ Widths \subseteq Nat /\ Heights \subseteq Nat
    /\ DefaultColumns <= MaxColumns /\ DefaultRows <= MaxRows
    /\ Blank \notin Glyphs

\* The largest mode's grid of characters fits a virtual console's cells.
ASSUME ModeFitsConsole ==
    /\ TargetWidth \div CharWidth <= MaxColumns
    /\ TargetHeight \div CharHeight <= MaxRows

VARIABLES
    columns, rows,  \* the geometry tty::initialize gave every console
    consoles,       \* console -> its cells and cursor
    active,         \* active_console_id
    to_screen,      \* OUTPUT_FRAMEBUFFER is set
    screen          \* the framebuffer console; `up' is FALSE before fb::initialize

termVars == <<columns, rows, consoles, active, to_screen, screen>>

ConsoleIds == 0 .. ConsoleCount - 1
EmptyCells(r, c) == [y \in 0 .. r - 1 |-> [x \in 0 .. c - 1 |-> Blank]]
EmptyConsole(r, c) == [cells |-> EmptyCells(r, c), column |-> 0, row |-> 0]

\* tty::initialize(false).
TermInit ==
    /\ columns = DefaultColumns /\ rows = DefaultRows
    /\ consoles = [i \in ConsoleIds |-> EmptyConsole(DefaultRows, DefaultColumns)]
    /\ active = 0
    /\ to_screen = FALSE
    /\ screen = [up |-> FALSE, columns |-> 0, rows |-> 0, grid |-> EmptyConsole(0, 0)]

-----------------------------------------------------------------------------
\* The virtual console.

\* VirtualConsole::scroll_up: row r takes row r + 1, the last is cleared.
ScrollUp(con) ==
    [con EXCEPT
        !.cells = [y \in 0 .. rows - 1 |->
                      [x \in 0 .. columns - 1 |->
                          IF y < rows - 1 THEN con.cells[y + 1][x] ELSE Blank]],
        !.row = rows - 1]

NewLine(con) ==
    LET home == [con EXCEPT !.column = 0]
    IN  IF con.row + 1 >= rows THEN ScrollUp(home) ELSE [home EXCEPT !.row = con.row + 1]

PutGlyph(con, g) ==
    [con EXCEPT !.cells[con.row][con.column] = g, !.column = con.column + 1]

\* The line is broken by the character that no longer fits, not by the last
\* that does.
WriteChar(con, g) == PutGlyph(IF con.column >= columns THEN NewLine(con) ELSE con, g)

\* VirtualConsole::write_style for one character: '\r' is dropped, a tab is
\* four spaces.
WriteStyle(con, ch) ==
    CASE ch = "return"  -> con
      [] ch = "newline" -> NewLine(con)
      [] ch = "tab"     -> WriteChar(WriteChar(WriteChar(WriteChar(con, Blank), Blank), Blank), Blank)
      [] OTHER          -> WriteChar(con, ch)

-----------------------------------------------------------------------------
\* The framebuffer console.  A cell of its grid is what the pixels show.

\* FramebufferConsole::scroll_up moves every pixel line up by one character.
FbScrollUp(fb) ==
    [fb EXCEPT !.grid =
        [@ EXCEPT
            !.cells = [y \in 0 .. fb.rows - 1 |->
                          [x \in 0 .. fb.columns - 1 |->
                              IF y < fb.rows - 1 THEN fb.grid.cells[y + 1][x] ELSE Blank]],
            !.row = fb.rows - 1]]

FbNewLine(fb) ==
    LET home == [fb EXCEPT !.grid = [@ EXCEPT !.column = 0]]
    IN  IF fb.grid.row + 1 >= fb.rows THEN FbScrollUp(home)
        ELSE [home EXCEPT !.grid = [@ EXCEPT !.row = fb.grid.row + 1]]

FbPutGlyph(fb, g) ==
    [fb EXCEPT !.grid = [@ EXCEPT !.cells[fb.grid.row][fb.grid.column] = g,
                                  !.column = fb.grid.column + 1]]

FbWriteChar(fb, g) == FbPutGlyph(IF fb.grid.column >= fb.columns THEN FbNewLine(fb) ELSE fb, g)

FbWriteStr(fb, ch) ==
    CASE ch = "return"  -> fb
      [] ch = "newline" -> FbNewLine(fb)
      [] ch = "tab"     -> FbWriteChar(FbWriteChar(FbWriteChar(FbWriteChar(fb, Blank), Blank), Blank), Blank)
      [] OTHER          -> FbWriteChar(fb, ch)

Least(a, b) == IF a < b THEN a ELSE b

\* Mutant: the redraw leaves the framebuffer's own cursor where it was.
RenderConsoleKeepsCursor(fb, con) ==
    LET c == Least(columns, fb.columns)
        r == Least(rows, fb.rows)
    IN  [fb EXCEPT !.grid.cells = [y \in 0 .. fb.rows - 1 |-> [x \in 0 .. fb.columns - 1 |->
                                  IF y < r /\ x < c THEN con.cells[y][x] ELSE Blank]]]

\* render_console: clear, draw the part both grids have, take over the cursor.
RenderConsole(fb, con) ==
    LET c == Least(columns, fb.columns)
        r == Least(rows, fb.rows)
    IN  [fb EXCEPT !.grid =
            [cells |-> [y \in 0 .. fb.rows - 1 |-> [x \in 0 .. fb.columns - 1 |->
                           IF y < r /\ x < c THEN con.cells[y][x] ELSE Blank]],
             column |-> Least(con.column, c),
             row |-> Least(con.row, r - 1)]]

-----------------------------------------------------------------------------
\* TtyConsole::write_style, the way of kprintln and of the write system call.
TermWrite(ch) ==
    /\ consoles' = [consoles EXCEPT ![active] = WriteStyle(@, ch)]
    /\ screen' = IF to_screen /\ screen.up THEN FbWriteStr(screen, ch) ELSE screen
    /\ UNCHANGED <<columns, rows, active, to_screen>>

\* write_to_console: another console's cells change behind the screen.
TermWriteTo(i, ch) ==
    /\ consoles' = [consoles EXCEPT ![i] = WriteStyle(@, ch)]
    /\ screen' = IF i = active /\ to_screen /\ screen.up
                 THEN RenderConsole(screen, consoles'[i]) ELSE screen
    /\ UNCHANGED <<columns, rows, active, to_screen>>

\* switch_active_console; show_log_console, for a panic, is a switch to 0.
TermSwitch(i) ==
    /\ active' = i
    /\ screen' = IF to_screen /\ screen.up THEN RenderConsole(screen, consoles[i]) ELSE screen
    /\ UNCHANGED <<columns, rows, consoles, to_screen>>

\* bga::probe_caps (0 means the target) and the cap of main.rs.
Mode(target, limit) == IF limit = 0 THEN target ELSE Least(target, limit)

Clamp(n, most) == IF Least(n, most) < 1 THEN 1 ELSE Least(n, most)

\* FramebufferConsole::new for a mode of w by h pixels: whole characters only.
FbNew(w, h) ==
    LET c == w \div CharWidth
        r == h \div CharHeight
    IN  [up |-> TRUE, columns |-> c, rows |-> r, grid |-> EmptyConsole(r, c)]

\* fb::initialize succeeds; main.rs calls it once.
FbInitialize(w, h) ==
    /\ ~ screen.up
    /\ w >= CharWidth * MinChars /\ h >= CharHeight * MinChars
    /\ screen' = FbNew(w, h)

\* The display comes up: fb::initialize, then tty::initialize(true), which
\* starts every console afresh with the screen's geometry and draws it.
TermDisplay(w, h) ==
    /\ FbInitialize(Mode(TargetWidth, w), Mode(TargetHeight, h))
    /\ columns' = Clamp(screen'.columns, MaxColumns)
    /\ rows' = Clamp(screen'.rows, MaxRows)
    /\ consoles' = [i \in ConsoleIds |-> EmptyConsole(rows', columns')]
    /\ active' = 0
    /\ to_screen' = TRUE

TermNext ==
    \/ \E ch \in Glyphs \cup {"return", "newline", "tab"} :
          TermWrite(ch) \/ \E i \in ConsoleIds : TermWriteTo(i, ch)
    \/ \E i \in ConsoleIds : TermSwitch(i)
    \/ \E w \in Widths, h \in Heights : TermDisplay(w, h)

TermSpec == TermInit /\ [][TermNext]_termVars

-----------------------------------------------------------------------------
\* What the framebuffer shows is what the active console holds, cursor
\* included, although fb.rs and tty.rs wrap and scroll independently and the
\* other consoles change unseen.  Every switch and every numbered write keeps
\* the two in step, because the mode's grid fits a console's cells.
ScreenShowsActive ==
    to_screen => /\ screen.up
                 /\ screen.columns = columns /\ screen.rows = rows
                 /\ screen.grid = consoles[active]
=============================================================================
