------------------------------ MODULE Terminal ------------------------------
(***************************************************************************)
(* The VGA text terminal (terminal.c): where the next character goes, what *)
(* is on the screen, wrapping, scrolling and erasing.                      *)
(*                                                                         *)
(* A step is one character printed, one erased, or one clearing of the     *)
(* screen.  Colours and the parsing of format strings are left out: they   *)
(* do not move the cursor.                                                 *)
(***************************************************************************)
EXTENDS Integers

CONSTANTS
  Height, Width,     \* of the screen: 25 and 80
  Nul, Space,        \* characters the code tells apart from the others
  Newline,
  Letters,           \* other characters
  NewlineAfterWrap,  \* TRUE: a newline may follow the last cell of the screen
  EraseAfterScroll   \* TRUE: erasing may leave a line once the screen scrolled

ASSUME ScreenAssumption ==
  /\ Height \in Nat \ {0} /\ Width \in Nat \ {0}
  /\ Newline \notin Letters \cup {Nul, Space}
  /\ Nul \notin Letters \cup {Space} /\ Space \notin Letters
  /\ NewlineAfterWrap \in BOOLEAN /\ EraseAfterScroll \in BOOLEAN

(* The screen is the start of a larger memory.  Bound: what happens further
   down than its first line is not followed. *)
MaxRow == Height

Row    == 0..(Height - 1)
Column == 0..(Width - 1)
Cell   == Letters \cup {Nul, Space}

VARIABLES
  terminal_row,    \* Height: the line below the screen is due, and scrolls
  terminal_column,
  terminal_buffer, \* terminal_buffer[y][x]
  cursor           \* the cursor that the hardware shows: <<x, y>>

terminal == <<terminal_row, terminal_column, terminal_buffer, cursor>>

TerminalType ==
  /\ terminal_row \in 0..(MaxRow + 1)
  /\ terminal_column \in Column
  /\ terminal_buffer \in [0..MaxRow -> [Column -> Cell]]
  /\ cursor \in Column \X (0..(MaxRow + 1))

BlankLine(c) == [x \in Column |-> c]

(* kernel_main has called terminal_initialize; memory below the screen, and
   the hardware's cursor, are as the firmware left them. *)
TerminalInit ==
  /\ terminal_row = 0
  /\ terminal_column = 0
  /\ \E below \in {Nul, Space} :
       terminal_buffer = [y \in 0..MaxRow |->
                            BlankLine(IF y \in Row THEN Nul ELSE below)]
  /\ cursor \in Column \X Row

(* The screen is filled with '\0'.  The hardware's cursor stays. *)
terminal_initialize ==
  /\ terminal_row' = 0
  /\ terminal_column' = 0
  /\ terminal_buffer' = [y \in 0..MaxRow |->
                           IF y \in Row THEN BlankLine(Nul) ELSE terminal_buffer[y]]
  /\ UNCHANGED cursor
-----------------------------------------------------------------------------
(* terminal_moveup's loops: each line takes the next one's place, and the
   last is filled with ' '. *)
MovedUp(buffer) ==
  [y \in 0..MaxRow |->
     CASE y + 1 \in Row   -> buffer[y + 1]
       [] y = Height - 1  -> BlankLine(Space)
       [] OTHER           -> buffer[y]]

(* Mutant: on a line that is due, the cursor is shown below the screen. *)
update_cursor_position_NoClip(x, y) == cursor' = <<x, y>>

(* update_cursor_position, as terminal_advance and terminal_newline call it. *)
update_cursor_position(x, y) ==
  cursor' = <<x, IF y = Height THEN y - 1 ELSE y>>

(* Mutant: a line is one character too long. *)
terminal_advance_Long(y) ==
  LET wraps == terminal_column + 1 > Width
      r     == IF wraps THEN y + 1 ELSE y
      c     == IF wraps THEN 0 ELSE terminal_column + 1
  IN  /\ terminal_row' = r
      /\ terminal_column' = c
      /\ update_cursor_position(c, r)

(* terminal_advance, from line y. *)
terminal_advance(y) ==
  LET wraps == terminal_column + 1 = Width
      r     == IF wraps THEN y + 1 ELSE y
      c     == IF wraps THEN 0 ELSE terminal_column + 1
  IN  /\ terminal_row' = r
      /\ terminal_column' = c
      /\ update_cursor_position(c, r)

(* Mutant: a line that is due is not made. *)
terminal_putchar_NoScroll(c) ==
  /\ terminal_row <= MaxRow
  /\ terminal_buffer' = [terminal_buffer EXCEPT ![terminal_row][terminal_column] = c]
  /\ terminal_advance(terminal_row)

(* A character that is not a newline.  A line that is due is made now. *)
terminal_putchar(c) ==
  LET due == terminal_row = Height
      y   == IF due THEN terminal_row - 1 ELSE terminal_row
      b   == IF due THEN MovedUp(terminal_buffer) ELSE terminal_buffer
  IN  /\ y <= MaxRow
      /\ terminal_buffer' = [b EXCEPT ![y][terminal_column] = c]
      /\ terminal_advance(y)

(* A newline that reaches the line below the screen scrolls at once; one
   that starts there goes past it. *)
terminal_newline ==
  LET due == terminal_row + 1 = Height
      r   == IF due THEN terminal_row ELSE terminal_row + 1
  IN  /\ terminal_row <= MaxRow
      /\ terminal_column' = 0
      /\ terminal_row' = r
      /\ terminal_buffer' = IF due THEN MovedUp(terminal_buffer) ELSE terminal_buffer
      /\ update_cursor_position(0, r)

(* printf of one character. *)
PrintChar(c) == IF c = Newline THEN terminal_newline ELSE terminal_putchar(c)
-----------------------------------------------------------------------------
(* terminal_back: the position before <<x, y>>. *)
terminal_back(x, y) ==
  CASE x # 0           -> <<x - 1, y>>
    [] x = 0 /\ y # 0 -> <<Width - 1, y - 1>>
    [] OTHER           -> <<x, y>>

(* Mutant: the loop that skips '\0' is missing. *)
EndOfText_Here(line, x) == x

(* Where erasef's loop stops when it starts at x: it skips '\0' to the left,
   and stays in the line. *)
EndOfText(line, x) ==
  CHOOSE k \in 0..x :
    /\ \A l \in k..(x - 1) : line[l] = Nul
    /\ k = 0 \/ line[k - 1] # Nul

(* erasef(1) *)
erasef ==
  LET at   == terminal_back(terminal_column, terminal_row)
      x    == at[1]
      y    == at[2]
      line == [terminal_buffer[y] EXCEPT ![x] = Nul]
      stop == EndOfText(line, x)
  IN  /\ y <= MaxRow
      /\ terminal_buffer' = [terminal_buffer EXCEPT ![y] = line]
      /\ terminal_row' = y
      /\ terminal_column' = stop
      /\ cursor' = <<stop, y>>
-----------------------------------------------------------------------------
(* The next character, or the line that it brings, is on the screen, and so
   is the cursor. *)
OnScreen ==
  /\ terminal_row \in Row \/ (terminal_row = Height /\ terminal_column = 0)
  /\ cursor[2] \in Row
=============================================================================
