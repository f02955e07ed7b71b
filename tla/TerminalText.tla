---------------------------- MODULE TerminalText ----------------------------
(***************************************************************************)
(* What the terminal shows, against what was printed on it.                *)
(*                                                                         *)
(* text is the text the user should see: what was printed since the screen *)
(* was cleared, less what was erased.  The screen must show the last lines *)
(* of it.  A number printed with %u is there with all its digits as soon   *)
(* as its conversion begins; nothing else is printed or erased meanwhile.  *)
(***************************************************************************)
EXTENDS Terminal, SequencesExt

CONSTANTS
  Base,        \* of the numbers that are printed: 10
  BufferSize,  \* of the buffer for their digits: 10
  MaxNumber,   \* the largest of them: 2^32 - 1
  MaxText      \* bound on the length of the text

ASSUME MaxTextAssumption == MaxText \in Nat

(* The powers of the base, as far as the buffer goes. *)
Power[k \in 0..BufferSize] == IF k = 0 THEN 1 ELSE Base * Power[k - 1]

Digit == 0..(Base - 1)

ASSUME NumberAssumption ==
  /\ Base \in Nat \ {0, 1} /\ BufferSize \in Nat /\ MaxNumber \in Nat
  /\ Digit \subseteq Letters
  /\ MaxNumber < Power[BufferSize]

VARIABLES
  num, buffer, \* printf's number, and the digits it has made of it so far
  text,        \* history: the text
  scrolls      \* history: how often the screen moved up since it was cleared

vars == <<terminal, num, buffer, text, scrolls>>

TypeOK ==
  /\ TerminalType
  /\ text \in Seq(Letters \cup {Space, Newline})
  /\ Len(text) <= MaxText
  /\ scrolls \in 0..MaxText
  /\ num \in 0..MaxNumber
  /\ buffer \in Seq(Digit)

Init ==
  /\ TerminalInit
  /\ num = 0
  /\ buffer = <<>>
  /\ text = <<>>
  /\ scrolls = 0

(* The screen moves up for a line that is due, or for a newline at the
   bottom. *)
Scrolls(c) ==
  IF c = Newline THEN terminal_row + 1 = Height ELSE terminal_row = Height

(* No number is being printed. *)
Idle == num = 0 /\ buffer = <<>>

Type(c) ==
  /\ Idle
  /\ Len(text) < MaxText
  /\ c = Newline /\ terminal_row = Height => NewlineAfterWrap
  /\ PrintChar(c)
  /\ text' = Append(text, c)
  /\ scrolls' = IF Scrolls(c) THEN scrolls + 1 ELSE scrolls
  /\ UNCHANGED <<num, buffer>>

(* The values of the beginnings of a sequence of digits, by their lengths. *)
Values(ds) ==
  LET values[k \in 0..Len(ds)] == IF k = 0 THEN 0 ELSE values[k - 1] * Base + ds[k]
  IN  values

(* What a number other than zero looks like: the digits that have its value,
   without zeros in front. *)
Decimal(n) ==
  CHOOSE ds \in BoundedSeq(Digit, BufferSize) :
    ds # <<>> /\ ds[1] # 0 /\ Values(ds)[Len(ds)] = n

(* Zero is printed at once; the conversion of another number begins. *)
Number(n) ==
  \/ n = 0 /\ Type(0)
  \/ /\ n # 0 /\ Idle
     /\ Len(text) + Len(Decimal(n)) <= MaxText
     /\ num' = n
     /\ text' = text \o Decimal(n)
     /\ UNCHANGED <<terminal, buffer, scrolls>>

(* Mutant: the digits are ended like a string, with a zero. *)
Divide_Terminated ==
  /\ num # 0
  /\ buffer' = buffer \o IF num \div Base = 0 THEN <<num % Base, 0>> ELSE <<num % Base>>
  /\ num' = num \div Base
  /\ UNCHANGED <<terminal, text, scrolls>>

(* The first loop: the digits, the last one first. *)
Divide ==
  /\ num # 0
  /\ buffer' = Append(buffer, num % Base)
  /\ num' = num \div Base
  /\ UNCHANGED <<terminal, text, scrolls>>

(* The second loop: they are printed from the end of the buffer. *)
PutDigit ==
  /\ num = 0 /\ buffer # <<>>
  /\ PrintChar(Last(buffer))
  /\ buffer' = Front(buffer)
  /\ scrolls' = IF Scrolls(Last(buffer)) THEN scrolls + 1 ELSE scrolls
  /\ UNCHANGED <<num, text>>

Erase ==
  /\ Idle
  /\ text # <<>>
  /\ terminal_column = 0 /\ scrolls > 0 => EraseAfterScroll
  /\ erasef
  /\ text' = Front(text)
  /\ UNCHANGED <<num, buffer, scrolls>>

Clear ==
  /\ Idle
  /\ terminal_initialize
  /\ text' = <<>>
  /\ scrolls' = 0
  /\ UNCHANGED <<num, buffer>>

Next ==
  \/ \E c \in Letters \cup {Space, Newline} : Type(c)
  \/ \E n \in 0..MaxNumber : Number(n)
  \/ Divide \/ PutDigit
  \/ Erase
  \/ Clear

Spec == Init /\ [][Next]_vars
-----------------------------------------------------------------------------
(* One character more: a full line is followed by a new one. *)
Place(lines, c) ==
  LET longer == [lines EXCEPT ![Len(lines)] = Append(@, c)]
      full   == Len(Last(longer)) = Width
  IN  CASE c = Newline           -> Append(lines, <<>>)
        [] c # Newline /\ ~full -> longer
        [] OTHER                 -> Append(longer, <<>>)

(* The beginnings of a text, by their lengths, laid out in lines of at most
   Width characters. *)
Layout(t) ==
  LET layout[k \in 0..Len(t)] == IF k = 0 THEN << <<>> >> ELSE Place(layout[k - 1], t[k])
  IN  layout

LinesOf(t) == Layout(t)[Len(t)]

(* What the text has at line y, column x, counted from zero. *)
TextAt(lines, y, x) ==
  IF y < Len(lines) /\ x < Len(lines[y + 1]) THEN lines[y + 1][x + 1] ELSE Nul

Looks(c) == IF c = Space THEN Nul ELSE c

(* The screen shows the last lines of the text, and the next character goes
   to the end of it: through wrapping, scrolling and erasing, and the digits of
   numbers come in their order. *)
ScreenShowsText ==
  LET lines == LinesOf(text)
  IN Idle =>
      /\ terminal_row + scrolls = Len(lines) - 1
      /\ terminal_column = Len(Last(lines))
      /\ \A y \in Row, x \in Column :
           Looks(terminal_buffer[y][x]) = Looks(TextAt(lines, y + scrolls, x))

(* The buffer for the digits, which no test guards (terminal.c:369-380), is
   large enough for every number. *)
DigitsFit == Len(buffer) <= BufferSize

(* The hardware's cursor is where the next character will appear. *)
CursorShowsEnd ==
  Idle /\ text # <<>> =>
    cursor = <<terminal_column,
               IF terminal_row = Height THEN Height - 1 ELSE terminal_row>>
=============================================================================
