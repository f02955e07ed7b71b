--------------------------- MODULE TerminalProofs ---------------------------
(***************************************************************************)
(* The terminal stays on the screen and shows the text, for every size of  *)
(* the screen and of the text.  The parts: the place of the next character *)
(* and of the cursor; the digits of numbers; texts laid out in lines; the  *)
(* screen against the lines; how numbers are written; the text itself.     *)
(***************************************************************************)
EXTENDS TerminalText, Induction, SequenceTheorems

(* erasef's loop stops: there is a place in the line, at or before x, with
   only '\0' between it and x, and none right before it. *)
LEMMA EndOfTextInLine ==
  ASSUME NEW line, NEW x \in Nat
  PROVE  EndOfText(line, x) \in 0..x
<1> DEFINE Blank(k) == \A l \in k..(x - 1) : line[l] = Nul
           Stops == {k \in 0..x : Blank(k)}
<1>1. x \in Stops
  <2>1. x \in 0..x /\ \A l \in x..(x - 1) : FALSE
    OBVIOUS
  <2> QED BY <2>1
<1>2. PICK k \in Stops : \A m \in Stops : k <= m
  BY <1>1, LeastOf
<1>3. \A m \in Stops : ~(m < k)
  BY <1>2
<1>4. k = 0 \/ line[k - 1] # Nul
  <2> SUFFICES ASSUME k # 0, line[k - 1] = Nul PROVE FALSE
    OBVIOUS
  <2>1. k - 1 \in 0..x /\ k - 1 < k /\ k \in 0..x
    OBVIOUS
  <2>2. \A l \in (k - 1)..(x - 1) : l = k - 1 \/ l \in k..(x - 1)
    BY <2>1
  <2>3. Blank(k)
    OBVIOUS
  <2>4. Blank(k - 1)
    BY <2>2, <2>3
  <2> QED BY <1>3, <2>1, <2>4
<1>5. /\ k \in 0..x
      /\ \A l \in k..(x - 1) : line[l] = Nul
      /\ k = 0 \/ line[k - 1] # Nul
  BY <1>4
<1> QED BY <1>5 DEF EndOfText
-----------------------------------------------------------------------------
(* A line that is due has nothing on it yet. *)
PlaceInv == terminal_column \in Column /\ OnScreen

(* The cursor is clipped to the last line by the test for equality. *)
LEMMA CursorOnScreen ==
  ASSUME NEW x \in Column, NEW y \in 0..Height, update_cursor_position(x, y)
  PROVE  cursor'[2] \in Row
  BY ScreenAssumption DEF update_cursor_position, Row

LEMMA AdvanceOnScreen ==
  ASSUME terminal_column \in Column, NEW y \in Row, terminal_advance(y)
  PROVE  PlaceInv'
<1> DEFINE wraps == terminal_column + 1 = Width
           r == IF wraps THEN y + 1 ELSE y
           c == IF wraps THEN 0 ELSE terminal_column + 1
<1>1. terminal_row' = r /\ terminal_column' = c /\ update_cursor_position(c, r)
  BY DEF terminal_advance
<1>2. r \in 0..Height /\ c \in Column /\ (r \in Row \/ (r = Height /\ c = 0))
  BY ScreenAssumption DEF Row, Column
<1>3. cursor'[2] \in Row
  BY <1>1, <1>2, CursorOnScreen
<1> QED BY <1>1, <1>2, <1>3 DEF PlaceInv, OnScreen

LEMMA PutcharOnScreen ==
  ASSUME PlaceInv, NEW c, terminal_putchar(c)
  PROVE  PlaceInv'
<1>1. PICK y \in Row : terminal_advance(y)
  <2>1. (IF terminal_row = Height THEN terminal_row - 1 ELSE terminal_row) \in Row
    BY ScreenAssumption DEF PlaceInv, OnScreen, Row
  <2> QED BY <2>1 DEF terminal_putchar
<1> QED BY <1>1, AdvanceOnScreen DEF PlaceInv

LEMMA NewlineOnScreen ==
  ASSUME PlaceInv, terminal_row # Height, terminal_newline
  PROVE  PlaceInv'
<1> DEFINE r == IF terminal_row + 1 = Height THEN terminal_row ELSE terminal_row + 1
<1>1. terminal_row' = r /\ terminal_column' = 0 /\ update_cursor_position(0, r)
  BY DEF terminal_newline
<1>2. r \in Row /\ r \in 0..Height /\ 0 \in Column
  BY ScreenAssumption DEF PlaceInv, OnScreen, Row, Column
<1>3. cursor'[2] \in Row
  BY <1>1, <1>2, CursorOnScreen
<1> QED BY <1>1, <1>2, <1>3 DEF PlaceInv, OnScreen

LEMMA EraseOnScreen ==
  ASSUME PlaceInv, erasef
  PROVE  PlaceInv'
<1> DEFINE at   == terminal_back(terminal_column, terminal_row)
           line == [terminal_buffer[at[2]] EXCEPT ![at[1]] = Nul]
           stop == EndOfText(line, at[1])
<1>1. /\ terminal_row' = at[2]
      /\ terminal_column' = stop
      /\ cursor' = <<stop, at[2]>>
  BY DEF erasef
<1>2. at[1] \in Column /\ at[2] \in Row
  BY ScreenAssumption DEF PlaceInv, OnScreen, terminal_back, Row, Column
<1>3. stop \in 0..at[1]
  <2>1. at[1] \in Nat
    BY <1>2, ScreenAssumption DEF Column
  <2> HIDE DEF at, line
  <2> QED BY <2>1, EndOfTextInLine
<1>4. stop \in Column
  BY <1>2, <1>3, ScreenAssumption DEF Column
<1> HIDE DEF at, stop
<1> QED BY <1>1, <1>2, <1>4 DEF PlaceInv, OnScreen

LEMMA InitPlace == Init => PlaceInv
  BY ScreenAssumption DEF Init, TerminalInit, PlaceInv, OnScreen, Row, Column

(* What printf has in its buffer are digits. *)
BufferInv == num \in 0..MaxNumber /\ buffer \in Seq(Digit)

LEMMA InitBuffer == Init => BufferInv
  BY NumberAssumption DEF Init, BufferInv

LEMMA SequenceEnds ==
  ASSUME NEW S, NEW s \in Seq(S), s # <<>>
  PROVE  Last(s) \in S /\ Front(s) \in Seq(S) /\ Len(Front(s)) = Len(s) - 1
<1>1. Len(s) \in Nat \ {0}
  BY EmptySeq
<1>2. s[Len(s)] \in S
  BY <1>1, ElementOfSeq
<1> DEFINE k == Len(s) - 1
           t == SubSeq(s, 1, k)
<1>3. k \in Nat /\ \A i \in 1..k : s[i] \in S
  BY <1>1
<1> HIDE DEF k
<1>4. t \in Seq(S) /\ Len(t) = IF 1 <= k THEN k - 1 + 1 ELSE 0
  BY <1>3, SubSeqProperties
<1>5. Len(t) = k
  BY <1>3, <1>4
<1> QED BY <1>2, <1>4, <1>5 DEF Last, Front, k

LEMMA Quotient ==
  ASSUME NEW n \in Nat, NEW b \in Nat \ {0}
  PROVE  n % b \in 0..(b - 1) /\ n \div b \in 0..n
<1>1. n = b * (n \div b) + (n % b) /\ n % b \in 0..(b - 1)
  BY Z3
<1>2. n \div b \in Nat
  BY Z3
<1>3. n \div b <= b * (n \div b)
  BY <1>2, Z3
<1> QED BY <1>1, <1>2, <1>3

LEMMA LastDigit ==
  ASSUME BufferInv
  PROVE  num % Base \in Digit /\ num \div Base \in 0..num
<1>1. num \in Nat /\ Base \in Nat \ {0}
  BY NumberAssumption DEF BufferInv
<1> QED BY <1>1, Quotient DEF Digit

LEMMA NextBuffer == BufferInv /\ [Next]_vars => BufferInv'
<1> SUFFICES ASSUME BufferInv, [Next]_vars PROVE BufferInv'
  OBVIOUS
<1>1. CASE UNCHANGED <<num, buffer>>
  BY <1>1 DEF BufferInv
<1>2. ASSUME NEW n \in 0..MaxNumber, Number(n) PROVE BufferInv'
  BY <1>1, <1>2 DEF Number, Type, BufferInv
<1>3. CASE Divide
  <2>1. num % Base \in Digit /\ num \div Base \in 0..num
    BY LastDigit
  <2> QED BY <1>3, <2>1, NumberAssumption DEF Divide, BufferInv
<1>4. CASE PutDigit
  <2>1. Front(buffer) \in Seq(Digit)
    BY <1>4, SequenceEnds DEF PutDigit, BufferInv
  <2> QED BY <1>4, <2>1 DEF PutDigit, BufferInv
<1> QED BY <1>1, <1>2, <1>3, <1>4 DEF Next, Type, Erase, Clear, vars

LEMMA DigitsPrint ==
  ASSUME BufferInv, buffer # <<>>
  PROVE  Last(buffer) # Newline
<1>1. Last(buffer) \in Digit
  BY SequenceEnds DEF BufferInv
<1> QED BY <1>1, NumberAssumption, ScreenAssumption

LEMMA NextPlace ==
  ASSUME ~NewlineAfterWrap
  PROVE  PlaceInv /\ BufferInv /\ [Next]_vars => PlaceInv'
<1> SUFFICES ASSUME PlaceInv, BufferInv, [Next]_vars PROVE PlaceInv'
  OBVIOUS
<1>1. ASSUME NEW c, Type(c) PROVE PlaceInv'
  <2>1. CASE c = Newline
    BY <1>1, <2>1, NewlineOnScreen DEF Type, PrintChar
  <2>2. CASE c # Newline
    BY <1>1, <2>2, PutcharOnScreen DEF Type, PrintChar
  <2> QED BY <2>1, <2>2
<1>5. ASSUME NEW n \in 0..MaxNumber, Number(n) PROVE PlaceInv'
  <2>1. CASE n = 0 /\ Type(0)
    BY <2>1, <1>1
  <2>2. CASE UNCHANGED terminal
    BY <2>2 DEF terminal, PlaceInv, OnScreen
  <2> QED BY <1>5, <2>1, <2>2 DEF Number
<1>6. CASE Divide
  BY <1>6 DEF Divide, terminal, PlaceInv, OnScreen
<1>7. CASE PutDigit
  <2>1. Last(buffer) # Newline
    BY <1>7, DigitsPrint DEF PutDigit
  <2> QED BY <1>7, <2>1, PutcharOnScreen DEF PutDigit, PrintChar
<1>2. CASE Erase
  BY <1>2, EraseOnScreen DEF Erase
<1>3. CASE Clear
  BY <1>3, ScreenAssumption
  DEF Clear, terminal_initialize, PlaceInv, OnScreen, Row, Column
<1>4. CASE UNCHANGED vars
  BY <1>4 DEF vars, terminal, PlaceInv, OnScreen
<1> QED BY <1>1, <1>2, <1>3, <1>4, <1>5, <1>6, <1>7 DEF Next

(* Unless a newline follows the last cell of the screen, the next character
   is on the screen or on the line that it makes, and the hardware's cursor
   is on the screen: through wrapping, scrolling, erasing back over lines and
   clearing (terminal.c:188-276 and 405-418). *)
THEOREM StaysOnScreen ==
  ASSUME ~NewlineAfterWrap
  PROVE  Spec => []OnScreen
<1>1. PlaceInv => OnScreen
  BY DEF PlaceInv
<1>2. Spec => []BufferInv
  BY InitBuffer, NextBuffer, PTL DEF Spec
<1> QED BY InitPlace, NextPlace, <1>1, <1>2, PTL DEF Spec
-----------------------------------------------------------------------------
LEMMA QuotientBelow ==
  ASSUME NEW n \in Nat, NEW b \in Nat \ {0}, NEW p \in Nat, n < b * p
  PROVE  n \div b < p
<1>1. n = b * (n \div b) + (n % b) /\ n % b \in Nat /\ n \div b \in Nat
  BY Z3
<1>2. \A q \in Nat : q >= p => b * q >= b * p
  BY Z3
<1>3. b * (n \div b) \in Nat /\ b * p \in Nat
  BY <1>1, Z3
<1> QED BY <1>1, <1>2, <1>3

LEMMA PowerSteps ==
  /\ Power[0] = 1
  /\ \A k \in 1..BufferSize : Power[k] = Base * Power[k - 1]
  /\ \A k \in 0..BufferSize : Power[k] \in Nat \ {0}
<1> DEFINE Body(f) == [k \in 0..BufferSize |-> IF k = 0 THEN 1 ELSE Base * f[k - 1]]
           A == Nat \ {0}
           step == [q \in A \X (1..BufferSize) |-> Base * q[1]]
<1>1. BufferSize \in Nat /\ Base \in Nat \ {0}
  BY NumberAssumption
<1>2. \A a \in A, k \in 1..BufferSize : step[<<a, k>>] = Base * a
  OBVIOUS
<1>3. \A a \in A : Base * a \in A
  BY <1>1, Z3
<1>4. 1 \in A
  OBVIOUS
<1> HIDE DEF A, step
<1>5. PICK g : Recursion(g, BufferSize, A, 1, step)
  <2>1. \A a \in A, k \in 1..BufferSize : step[<<a, k>>] \in A
    BY <1>2, <1>3
  <2> QED BY <1>1, <1>4, <2>1, RecursionExists
<1>6. g = Body(g)
  <2>1. ASSUME NEW k \in 1..BufferSize PROVE g[k] = Base * g[k - 1]
    <3>1. k - 1 \in 0..BufferSize
      BY <1>1
    <3>2. g[k - 1] \in A /\ g[k] = step[<<g[k - 1], k>>]
      BY <1>5, <3>1 DEF Recursion
    <3> QED BY <1>2, <3>2
  <2>2. ASSUME NEW k \in 0..BufferSize PROVE g[k] = Body(g)[k]
    <3>1. CASE k = 0
      BY <1>5, <3>1 DEF Recursion
    <3>2. CASE k # 0
      BY <1>1, <2>1, <3>2
    <3> QED BY <3>1, <3>2
  <2> QED BY <1>5, <2>2 DEF Recursion
<1>7. Power = CHOOSE f : f = Body(f)
  BY DEF Power
<1>8. Power = Body(Power)
  <2> HIDE DEF Body
  <2> QED BY <1>6, <1>7
<1>9. /\ Power[0] = 1
      /\ \A k \in 1..BufferSize : Power[k] = Base * Power[k - 1]
  BY <1>1, <1>8
<1>10. \A k \in 0..BufferSize : Power[k] \in A
  <2> DEFINE T == {k \in 0..BufferSize : Power[k] \in A}
  <2>1. 0 \in T
    BY <1>1, <1>4, <1>9
  <2>2. ASSUME NEW k \in 1..BufferSize, k - 1 \in T PROVE k \in T
    BY <1>1, <1>3, <1>9, <2>2
  <2> HIDE DEF T
  <2>3. \A k \in 0..BufferSize : k \in T
    BY <1>1, <2>1, <2>2, InductiveBelow
  <2> QED BY <2>3 DEF T
<1> QED BY <1>9, <1>10 DEF A

(* What is left of the number fits in what is left of the buffer. *)
FitInv ==
  Len(buffer) <= BufferSize /\ num < Power[BufferSize - Len(buffer)]

LEMMA NextFit ==
  ASSUME BufferInv, FitInv, [Next]_vars
  PROVE  FitInv'
<1> USE NumberAssumption, PowerSteps DEF BufferInv, FitInv
<1>1. CASE UNCHANGED <<num, buffer>>
  BY <1>1
<1>2. ASSUME NEW n \in 0..MaxNumber, Number(n) PROVE FitInv'
  <2>1. CASE UNCHANGED <<num, buffer>>
    BY <1>1, <2>1
  <2>2. CASE num' = n /\ buffer' = <<>>
    <3>1. Len(buffer') = 0
      BY <2>2
    <3> QED BY <2>2, <3>1
  <2> QED BY <1>2, <2>1, <2>2 DEF Number, Type, Idle
<1>3. CASE Divide
  <2> DEFINE k == BufferSize - Len(buffer)
  <2>1. num # 0 /\ num \in Nat /\ Len(buffer) \in Nat /\ k \in 0..BufferSize
    BY <1>3 DEF Divide
  <2>2. k \in 1..BufferSize
    <3>1. num < Power[k]
      OBVIOUS
    <3> HIDE DEF k
    <3>2. k # 0
      BY <2>1, <3>1
    <3> QED BY <2>1, <3>2
  <2>3. num < Base * Power[k - 1] /\ Power[k - 1] \in Nat
    BY <2>2
  <2>4. num \div Base < Power[k - 1]
    BY <2>1, <2>3, QuotientBelow
  <2>5. Len(buffer') = Len(buffer) + 1 /\ num' = num \div Base
    <3>1. num % Base \in Digit
      BY LastDigit
    <3> QED BY <1>3, <3>1 DEF Divide
  <2> QED BY <2>1, <2>2, <2>4, <2>5
<1>4. CASE PutDigit
  <2>1. Len(buffer) \in Nat \ {0} /\ num' = 0
    BY <1>4, EmptySeq DEF PutDigit
  <2>2. Len(buffer') = Len(buffer) - 1
    BY <1>4, SequenceEnds DEF PutDigit
  <2> DEFINE l == Len(buffer)
             m == Len(buffer')
  <2>3. l \in Nat \ {0} /\ l <= BufferSize /\ m = l - 1
    BY <2>1, <2>2
  <2> HIDE DEF l, m
  <2>4. m <= BufferSize /\ BufferSize - m \in 0..BufferSize
    BY <2>3
  <2>5. 0 < Power[BufferSize - m]
    BY <2>4
  <2> QED BY <2>1, <2>4, <2>5 DEF m
<1> QED BY <1>1, <1>2, <1>3, <1>4 DEF Next, Type, Erase, Clear, vars

(* printf never writes outside its buffer for the digits (terminal.c:369-380)
   as the largest number is below the base to the power of the buffer's size:
   2^32 is below 10^10. *)
THEOREM DigitsAlwaysFit == Spec => []DigitsFit
<1> DEFINE Inv == BufferInv /\ FitInv
<1>1. Init => Inv
  <2>1. Init => FitInv
    BY NumberAssumption, PowerSteps DEF Init, FitInv
  <2> QED BY <2>1, InitBuffer
<1>2. Inv /\ [Next]_vars => Inv'
  BY NextBuffer, NextFit
<1>3. Inv => DigitsFit
  BY DEF FitInv, DigitsFit
<1> QED BY <1>1, <1>2, <1>3, PTL DEF Spec
-----------------------------------------------------------------------------
(* The place of the cursor, for the one of the next character. *)
CursorAt == <<terminal_column, IF terminal_row = Height THEN Height - 1 ELSE terminal_row>>

LEMMA PrintMovesCursor ==
  ASSUME NEW c, PrintChar(c)
  PROVE  cursor' = CursorAt'
<1>1. ASSUME NEW x, NEW y, update_cursor_position(x, y),
             terminal_column' = x, terminal_row' = y
      PROVE  cursor' = CursorAt'
  BY <1>1 DEF update_cursor_position, CursorAt
<1>2. ASSUME NEW y, terminal_advance(y) PROVE cursor' = CursorAt'
  <2> DEFINE wraps == terminal_column + 1 = Width
             r == IF wraps THEN y + 1 ELSE y
             x == IF wraps THEN 0 ELSE terminal_column + 1
  <2>1. terminal_row' = r /\ terminal_column' = x /\ update_cursor_position(x, r)
    BY <1>2 DEF terminal_advance
  <2> HIDE DEF r, x
  <2> QED BY <1>1, <2>1
<1>3. CASE terminal_putchar(c)
  BY <1>2, <1>3 DEF terminal_putchar
<1>4. CASE terminal_newline
  <2> DEFINE r == IF terminal_row + 1 = Height THEN terminal_row ELSE terminal_row + 1
  <2>1. terminal_row' = r /\ terminal_column' = 0 /\ update_cursor_position(0, r)
    BY <1>4 DEF terminal_newline
  <2> HIDE DEF r
  <2> QED BY <1>1, <2>1
<1> QED BY <1>3, <1>4 DEF PrintChar

LEMMA EraseMovesCursor ==
  ASSUME PlaceInv, erasef
  PROVE  terminal_row' \in Row /\ cursor' = <<terminal_column', terminal_row'>>
<1> DEFINE at == terminal_back(terminal_column, terminal_row)
<1>1. at[2] \in Row
  BY ScreenAssumption DEF PlaceInv, OnScreen, terminal_back, Row, Column
<1>2. /\ terminal_row' = at[2]
      /\ cursor' = <<terminal_column', at[2]>>
  BY DEF erasef
<1> QED BY <1>1, <1>2

LEMMA NextCursor == PlaceInv /\ BufferInv /\ CursorShowsEnd /\ [Next]_vars => CursorShowsEnd'
<1> SUFFICES ASSUME PlaceInv, BufferInv, CursorShowsEnd, [Next]_vars PROVE CursorShowsEnd'
  OBVIOUS
<1>1. ASSUME NEW c, Type(c) PROVE CursorShowsEnd'
  BY <1>1, PrintMovesCursor DEF Type, CursorShowsEnd, CursorAt
<1>2. ASSUME NEW n \in 0..MaxNumber, Number(n) PROVE CursorShowsEnd'
  <2>1. CASE n = 0 /\ Type(0)
    BY <1>1, <2>1
  <2>2. CASE n # 0 /\ num' = n
    BY <2>2 DEF CursorShowsEnd, Idle
  <2> QED BY <1>2, <2>1, <2>2 DEF Number
<1>3. CASE Divide
  <2>1. num % Base \in Digit
    BY LastDigit
  <2>2. buffer' # <<>>
    BY <1>3, <2>1, AppendProperties DEF Divide, BufferInv
  <2> QED BY <2>2 DEF CursorShowsEnd, Idle
<1>4. CASE PutDigit
  BY <1>4, PrintMovesCursor DEF PutDigit, CursorShowsEnd, CursorAt
<1>5. CASE Erase
  <2>1. terminal_row' \in Row /\ cursor' = <<terminal_column', terminal_row'>>
    BY <1>5, EraseMovesCursor DEF Erase
  <2>2. terminal_row' # Height
    BY <2>1, ScreenAssumption DEF Row
  <2> QED BY <2>1, <2>2 DEF CursorShowsEnd
<1>6. CASE Clear
  BY <1>6 DEF Clear, CursorShowsEnd
<1>7. CASE UNCHANGED vars
  BY <1>7 DEF vars, terminal, CursorShowsEnd, Idle
<1> QED BY <1>1, <1>2, <1>3, <1>4, <1>5, <1>6, <1>7 DEF Next

(* Unless a newline follows the last cell of the screen, the hardware's cursor
   is where the next character will appear, once something was printed
   (terminal.c:188-276 and 405-418); terminal_initialize does not move it. *)
THEOREM CursorIsAtEnd ==
  ASSUME ~NewlineAfterWrap
  PROVE  Spec => []CursorShowsEnd
<1>1. Init => CursorShowsEnd
  BY DEF Init, CursorShowsEnd
<1>2. Spec => []BufferInv
  BY InitBuffer, NextBuffer, PTL DEF Spec
<1>3. Spec => []PlaceInv
  BY <1>2, InitPlace, NextPlace, PTL DEF Spec
<1> QED BY <1>1, <1>2, <1>3, NextCursor, PTL DEF Spec
-----------------------------------------------------------------------------
Char == Letters \cup {Space}

(* Texts laid out in lines: the last one has room for a character. *)
OpenLines == {L \in Seq(Seq(Char)) : L # <<>> /\ Len(Last(L)) < Width}

LEMMA OpenLinesFacts ==
  ASSUME NEW L \in OpenLines
  PROVE  /\ L \in Seq(Seq(Char)) /\ Len(L) \in Nat \ {0}
         /\ \A i \in 1..Len(L) : L[i] \in Seq(Char) /\ Len(L[i]) \in Nat
         /\ Last(L) = L[Len(L)]
         /\ Len(L[Len(L)]) < Width
<1>1. L \in Seq(Seq(Char)) /\ L # <<>>
  BY DEF OpenLines
<1>2. Len(L) \in Nat \ {0}
  BY <1>1, EmptySeq
<1>3. \A i \in 1..Len(L) : L[i] \in Seq(Char) /\ Len(L[i]) \in Nat
  BY <1>1, ElementOfSeq
<1> QED BY <1>1, <1>2, <1>3 DEF OpenLines, Last

LEMMA PlaceNewline ==
  ASSUME NEW L \in OpenLines
  PROVE  /\ Place(L, Newline) \in OpenLines
         /\ Len(Place(L, Newline)) = Len(L) + 1
         /\ \A i \in 1..Len(L) : Place(L, Newline)[i] = L[i]
         /\ Place(L, Newline)[Len(L) + 1] = <<>>
<1> DEFINE N == Append(L, <<>>)
<1>1. L \in Seq(Seq(Char)) /\ Len(L) \in Nat \ {0}
  BY OpenLinesFacts
<1>2. <<>> \in Seq(Char) /\ Len(<<>>) = 0
  OBVIOUS
<1>3. /\ N \in Seq(Seq(Char)) /\ N # <<>>
      /\ Len(N) = Len(L) + 1
      /\ \A i \in 1..Len(L) : N[i] = L[i]
      /\ N[Len(L) + 1] = <<>>
  BY <1>1, <1>2, AppendProperties
<1>4. Place(L, Newline) = N
  BY DEF Place
<1> HIDE DEF N
<1>5. Last(N) = <<>>
  BY <1>3 DEF Last
<1>6. N \in OpenLines
  BY <1>2, <1>3, <1>5, ScreenAssumption DEF OpenLines
<1> QED BY <1>3, <1>4, <1>6

LEMMA PlaceChar ==
  ASSUME NEW L \in OpenLines, NEW c \in Char
  PROVE  LET m == Len(L)
             w == Len(L[m])
             P == Place(L, c)
         IN  /\ P \in OpenLines
             /\ Len(P) = IF w + 1 = Width THEN m + 1 ELSE m
             /\ \A i \in 1..m : P[i] = IF i = m THEN Append(L[m], c) ELSE L[i]
             /\ w + 1 = Width => P[m + 1] = <<>>
<1> DEFINE m == Len(L)
           w == Len(L[m])
           a == Append(L[m], c)
           longer == [L EXCEPT ![m] = a]
<1>1. L \in Seq(Seq(Char)) /\ m \in Nat \ {0} /\ L[m] \in Seq(Char) /\ w \in Nat /\ w < Width
  BY OpenLinesFacts
<1>2. a \in Seq(Char) /\ Len(a) = w + 1
  BY <1>1, AppendProperties
<1> HIDE DEF a
<1>3. /\ longer \in Seq(Seq(Char)) /\ Len(longer) = m
      /\ \A i \in 1..m : longer[i] = IF i = m THEN a ELSE L[i]
  BY <1>1, <1>2, ExceptSeq
<1>4. c # Newline
  BY ScreenAssumption DEF Char
<1>5. Last(longer) = a
  BY <1>1, <1>3 DEF Last
<1>6. Place(L, c) = IF w + 1 = Width THEN Append(longer, <<>>) ELSE longer
  BY <1>2, <1>4, <1>5 DEF Place, a
<1>7. longer # <<>>
  BY <1>1, <1>3, EmptySeq
<1> HIDE DEF longer
<1>8. CASE w + 1 = Width
  <2> DEFINE N == Append(longer, <<>>)
  <2>1. <<>> \in Seq(Char) /\ Len(<<>>) = 0
    OBVIOUS
  <2>2. /\ N \in Seq(Seq(Char)) /\ N # <<>>
        /\ Len(N) = m + 1
        /\ \A i \in 1..m : N[i] = longer[i]
        /\ N[m + 1] = <<>>
    BY <1>3, <2>1, AppendProperties
  <2>3. Place(L, c) = N
    BY <1>6, <1>8
  <2> HIDE DEF N
  <2>4. Last(N) = <<>>
    BY <2>2 DEF Last
  <2>5. N \in OpenLines
    BY <2>1, <2>2, <2>4, ScreenAssumption DEF OpenLines
  <2>6. \A i \in 1..m : N[i] = IF i = m THEN a ELSE L[i]
    BY <1>3, <2>2
  <2> QED BY <1>8, <2>2, <2>3, <2>5, <2>6 DEF a
<1>9. CASE w + 1 # Width
  <2>1. longer \in OpenLines
    BY <1>1, <1>2, <1>3, <1>5, <1>7, <1>9, ScreenAssumption DEF OpenLines
  <2>2. Place(L, c) = longer
    BY <1>6, <1>9
  <2> QED BY <1>3, <1>9, <2>1, <2>2 DEF a
<1> QED BY <1>8, <1>9

LEMMA PlaceStays ==
  ASSUME NEW L \in OpenLines, NEW c \in Char \cup {Newline}
  PROVE  Place(L, c) \in OpenLines /\ Len(Place(L, c)) <= Len(L) + 1
<1>1. Len(L) \in Nat
  BY OpenLinesFacts
<1>2. CASE c = Newline
  BY <1>1, <1>2, PlaceNewline
<1>3. CASE c \in Char
  BY <1>1, <1>3, PlaceChar
<1> QED BY <1>2, <1>3
Text == Seq(Char \cup {Newline})

LEMMA LayoutSteps ==
  ASSUME NEW t \in Text
  PROVE  /\ Layout(t)[0] = << <<>> >>
         /\ \A k \in 1..Len(t) : Layout(t)[k] = Place(Layout(t)[k - 1], t[k])
         /\ \A k \in 0..Len(t) : Layout(t)[k] \in OpenLines
<1> DEFINE m == Len(t)
           Body(f) == [k \in 0..m |-> IF k = 0 THEN << <<>> >> ELSE Place(f[k - 1], t[k])]
           start == << <<>> >>
           step == [q \in OpenLines \X (1..m) |-> Place(q[1], t[q[2]])]
           p == Layout(t)
<1>1. m \in Nat /\ \A k \in 1..m : t[k] \in Char \cup {Newline}
  BY ElementOfSeq DEF Text
<1>2. \A L \in OpenLines, k \in 1..m : step[<<L, k>>] = Place(L, t[k])
  OBVIOUS
<1>3. \A L \in OpenLines, k \in 1..m : Place(L, t[k]) \in OpenLines
  BY <1>1, PlaceStays
<1>4. start \in OpenLines
  <2>1. <<>> \in Seq(Char) /\ Len(<<>>) = 0
    OBVIOUS
  <2>2. start \in Seq(Seq(Char)) /\ start # <<>> /\ Len(start) = 1 /\ start[1] = <<>>
    BY <2>1
  <2>3. Last(start) = <<>>
    BY <2>2 DEF Last
  <2> QED BY <2>1, <2>2, <2>3, ScreenAssumption DEF OpenLines
<1>5. p = CHOOSE f : f = Body(f)
  BY DEF Layout
<1> HIDE DEF step, m, start
<1>6. PICK g : Recursion(g, m, OpenLines, start, step)
  <2>1. \A L \in OpenLines, k \in 1..m : step[<<L, k>>] \in OpenLines
    BY <1>2, <1>3
  <2> QED BY <1>1, <1>4, <2>1, RecursionExists
<1>7. g = Body(g)
  <2>1. ASSUME NEW k \in 1..m PROVE g[k] = Place(g[k - 1], t[k])
    <3>1. k - 1 \in 0..m
      BY <1>1
    <3>2. g[k - 1] \in OpenLines /\ g[k] = step[<<g[k - 1], k>>]
      BY <1>6, <3>1 DEF Recursion
    <3> QED BY <1>2, <3>2
  <2>2. ASSUME NEW k \in 0..m PROVE g[k] = Body(g)[k]
    <3>1. CASE k = 0
      BY <1>6, <3>1 DEF Recursion, start
    <3>2. CASE k # 0
      BY <1>1, <2>1, <3>2
    <3> QED BY <3>1, <3>2
  <2> QED BY <1>6, <2>2 DEF Recursion
<1>8. p = Body(p)
  <2> HIDE DEF Body, p
  <2> QED BY <1>5, <1>7
<1> HIDE DEF p
<1>9. /\ p[0] = start
      /\ \A k \in 1..m : p[k] = Place(p[k - 1], t[k])
  BY <1>1, <1>8 DEF start
<1>10. \A k \in 0..m : p[k] \in OpenLines
  <2> DEFINE T == {k \in 0..m : p[k] \in OpenLines}
  <2>1. 0 \in T
    BY <1>1, <1>4, <1>9
  <2>2. ASSUME NEW k \in 1..m, k - 1 \in T PROVE k \in T
    BY <1>1, <1>3, <1>9, <2>2
  <2> HIDE DEF T
  <2>3. \A k \in 0..m : k \in T
    BY <1>1, <2>1, <2>2, InductiveBelow
  <2> QED BY <2>3 DEF T
<1> QED BY <1>9, <1>10 DEF p, m, start

LEMMA LinesOfNothing == LinesOf(<<>>) = << <<>> >>
<1>1. <<>> \in Text /\ Len(<<>>) = 0
  BY DEF Text
<1> QED BY <1>1, LayoutSteps DEF LinesOf

LEMMA LinesOfType ==
  ASSUME NEW t \in Text
  PROVE  LinesOf(t) \in OpenLines
<1>1. Len(t) \in 0..Len(t)
  BY DEF Text
<1> QED BY <1>1, LayoutSteps DEF LinesOf

(* What is printed next goes into or behind the last line. *)
LEMMA LinesOfAppend ==
  ASSUME NEW t \in Text, NEW c \in Char \cup {Newline}
  PROVE  LinesOf(Append(t, c)) = Place(LinesOf(t), c)
<1> DEFINE u == Append(t, c)
           m == Len(t)
           p == Layout(t)
           q == Layout(u)
<1>1. m \in Nat
  BY DEF Text
<1>2. /\ u \in Text /\ Len(u) = m + 1
      /\ \A k \in 1..m : u[k] = t[k]
      /\ u[m + 1] = c
  BY AppendProperties DEF Text
<1>3. /\ p[0] = << <<>> >>
      /\ \A k \in 1..m : p[k] = Place(p[k - 1], t[k])
  BY LayoutSteps
<1> HIDE DEF u
<1>4. /\ q[0] = << <<>> >>
      /\ \A k \in 1..Len(u) : q[k] = Place(q[k - 1], u[k])
  BY <1>2, LayoutSteps
<1> HIDE DEF p, q, m
<1>5. \A k \in 0..m : p[k] = q[k]
  <2> DEFINE T == {k \in 0..m : p[k] = q[k]}
  <2>1. 0 \in T
    BY <1>1, <1>3, <1>4
  <2>2. ASSUME NEW k \in 1..m, k - 1 \in T PROVE k \in T
    <3>1. k \in 1..Len(u) /\ k \in 0..m /\ u[k] = t[k] /\ p[k - 1] = q[k - 1]
      BY <1>1, <1>2, <2>2
    <3> QED BY <1>3, <1>4, <3>1
  <2> HIDE DEF T
  <2>3. \A k \in 0..m : k \in T
    BY <1>1, <2>1, <2>2, InductiveBelow
  <2> QED BY <2>3 DEF T
<1>6. q[m + 1] = Place(p[m], c)
  <2>1. m + 1 \in 1..Len(u) /\ (m + 1) - 1 = m /\ m \in 0..m
    BY <1>1, <1>2
  <2>2. q[m + 1] = Place(q[(m + 1) - 1], u[m + 1])
    BY <1>4, <2>1
  <2> QED BY <1>2, <1>5, <2>1, <2>2
<1>7. LinesOf(u) = q[m + 1] /\ LinesOf(t) = p[m]
  BY <1>2 DEF LinesOf, p, q, m
<1> QED BY <1>6, <1>7 DEF u

(* A text has no more line ends than characters. *)
LEMMA LinesOfLength ==
  ASSUME NEW t \in Text
  PROVE  Len(LinesOf(t)) <= Len(t) + 1
<1> DEFINE m == Len(t)
           p == Layout(t)
           T == {k \in 0..m : Len(p[k]) <= k + 1}
<1>1. m \in Nat /\ \A k \in 1..m : t[k] \in Char \cup {Newline}
  BY ElementOfSeq DEF Text
<1>2. /\ p[0] = << <<>> >>
      /\ \A k \in 1..m : p[k] = Place(p[k - 1], t[k])
      /\ \A k \in 0..m : p[k] \in OpenLines
  BY LayoutSteps
<1> HIDE DEF p, m
<1>3. 0 \in T
  <2>1. Len(<< <<>> >>) = 1
    OBVIOUS
  <2>2. Len(p[0]) = 1
    BY <1>2, <2>1, Zenon
  <2>3. 0 \in 0..m /\ Len(p[0]) <= 0 + 1
    BY <1>1, <2>2
  <2> QED BY <2>3, Zenon
<1>4. ASSUME NEW k \in 1..m, k - 1 \in T PROVE k \in T
  <2>1. k \in 0..m /\ k - 1 \in 0..m /\ Len(p[k - 1]) <= k
    BY <1>1, <1>4
  <2>2. p[k - 1] \in OpenLines /\ t[k] \in Char \cup {Newline} /\ p[k] = Place(p[k - 1], t[k])
    BY <1>1, <1>2, <2>1
  <2>3. Len(p[k]) <= Len(p[k - 1]) + 1 /\ p[k] \in OpenLines
    BY <2>2, PlaceStays
  <2>4. Len(p[k - 1]) \in Nat /\ Len(p[k]) \in Nat
    BY <2>2, <2>3, OpenLinesFacts
  <2> QED BY <2>1, <2>3, <2>4
<1> HIDE DEF T
<1>5. \A k \in 0..m : k \in T
  BY <1>1, <1>3, <1>4, InductiveBelow
<1>6. m \in T
  BY <1>1, <1>5
<1> QED BY <1>6 DEF T, LinesOf, p, m
-----------------------------------------------------------------------------
Screens == [0..MaxRow -> [Column -> Cell]]

(* The screen B shows the lines L from the line s on; the rest of it is blank,
   and without a trace if it has not moved up. *)
Drawn(B, L, s) ==
  \A y \in Row, x \in Column :
    IF y + s < Len(L) /\ x < Len(L[y + s + 1])
    THEN B[y][x] = L[y + s + 1][x + 1]
    ELSE B[y][x] \in {Nul, Space} /\ (s = 0 => B[y][x] = Nul)

LEMMA MovedUpType ==
  ASSUME NEW B \in Screens
  PROVE  MovedUp(B) \in Screens
<1>1. BlankLine(Space) \in [Column -> Cell]
  BY DEF BlankLine, Cell
<1>2. ASSUME NEW y \in 0..MaxRow
      PROVE  (CASE y + 1 \in Row   -> B[y + 1]
                [] y = Height - 1  -> BlankLine(Space)
                [] OTHER           -> B[y]) \in [Column -> Cell]
  BY <1>1, ScreenAssumption DEF Screens, Row, MaxRow
<1> QED BY <1>2 DEF MovedUp, Screens

(* The screen moves up under a line that has nothing on it yet. *)
LEMMA MovedUpDrawn ==
  ASSUME NEW B \in Screens, NEW L, NEW s \in Nat, Drawn(B, L, s), Len(L) \in Nat,
         Height + s < Len(L) => L[Height + s + 1] = <<>>
  PROVE  Drawn(MovedUp(B), L, s + 1)
<1> SUFFICES ASSUME NEW y \in Row, NEW x \in Column
             PROVE  IF y + (s + 1) < Len(L) /\ x < Len(L[y + (s + 1) + 1])
                    THEN MovedUp(B)[y][x] = L[y + (s + 1) + 1][x + 1]
                    ELSE MovedUp(B)[y][x] \in {Nul, Space}
  BY DEF Drawn
<1>1. CASE y + 1 \in Row
  <2>1. MovedUp(B)[y] = B[y + 1]
    BY <1>1, ScreenAssumption DEF MovedUp, Row, MaxRow
  <2>2. y + (s + 1) = (y + 1) + s
    BY DEF Row
  <2>3. IF (y + 1) + s < Len(L) /\ x < Len(L[(y + 1) + s + 1])
        THEN B[y + 1][x] = L[(y + 1) + s + 1][x + 1]
        ELSE B[y + 1][x] \in {Nul, Space}
    BY <1>1 DEF Drawn
  <2> QED BY <2>1, <2>2, <2>3
<1>2. CASE y + 1 \notin Row
  <2>1. y = Height - 1
    BY <1>2, ScreenAssumption DEF Row
  <2>2. MovedUp(B)[y] = BlankLine(Space)
    BY <1>2, <2>1, ScreenAssumption DEF MovedUp, Row, MaxRow
  <2>3. MovedUp(B)[y][x] = Space
    BY <2>2 DEF BlankLine
  <2>4. y + (s + 1) = Height + s
    BY <2>1, ScreenAssumption
  <2>5. Height + s < Len(L) => Len(L[Height + s + 1]) = 0
    OBVIOUS
  <2>6. ~(Height + s < Len(L) /\ x < Len(L[Height + s + 1]))
    BY <2>5, ScreenAssumption DEF Column
  <2> QED BY <2>3, <2>4, <2>6
<1> QED BY <1>1, <1>2

LEMMA NewlineDrawn ==
  ASSUME NEW B, NEW L \in OpenLines, NEW s \in Nat, Drawn(B, L, s)
  PROVE  Drawn(B, Place(L, Newline), s)
<1> DEFINE P == Place(L, Newline)
           m == Len(L)
<1>1. /\ Len(P) = m + 1 /\ m \in Nat
      /\ \A i \in 1..m : P[i] = L[i]
      /\ P[m + 1] = <<>>
  BY PlaceNewline, OpenLinesFacts
<1> HIDE DEF P
<1> SUFFICES ASSUME NEW y \in Row, NEW x \in Column
             PROVE  IF y + s < Len(P) /\ x < Len(P[y + s + 1])
                    THEN B[y][x] = P[y + s + 1][x + 1]
                    ELSE B[y][x] \in {Nul, Space} /\ (s = 0 => B[y][x] = Nul)
  BY DEF Drawn, P
<1>2. IF y + s < m /\ x < Len(L[y + s + 1])
      THEN B[y][x] = L[y + s + 1][x + 1]
      ELSE B[y][x] \in {Nul, Space} /\ (s = 0 => B[y][x] = Nul)
  BY DEF Drawn
<1>3. y \in Nat /\ x \in Nat
  BY ScreenAssumption DEF Row, Column
<1>4. CASE y + s < m
  <2>1. y + s + 1 \in 1..m /\ y + s < Len(P)
    BY <1>1, <1>3, <1>4
  <2>2. P[y + s + 1] = L[y + s + 1]
    BY <1>1, <2>1
  <2> QED BY <1>2, <1>4, <2>1, <2>2
<1>5. CASE y + s = m
  <2>1. Len(P[y + s + 1]) = 0
    BY <1>1, <1>5
  <2> QED BY <1>1, <1>2, <1>3, <1>5, <2>1
<1>6. CASE y + s > m
  BY <1>1, <1>2, <1>3, <1>6
<1> QED BY <1>1, <1>3, <1>4, <1>5, <1>6
LEMMA CellPut ==
  ASSUME NEW B \in Screens, NEW y0 \in Row, NEW x0 \in Column, NEW c \in Cell
  PROVE  \A y \in Row, x \in Column :
           [B EXCEPT ![y0][x0] = c][y][x] = IF y = y0 /\ x = x0 THEN c ELSE B[y][x]
<1>1. Row \subseteq 0..MaxRow
  BY ScreenAssumption DEF Row, MaxRow
<1> SUFFICES ASSUME NEW y \in Row, NEW x \in Column
             PROVE  [B EXCEPT ![y0][x0] = c][y][x] = IF y = y0 /\ x = x0 THEN c ELSE B[y][x]
  OBVIOUS
<1>2. B \in [0..MaxRow -> [Column -> Cell]] /\ y \in 0..MaxRow /\ y0 \in 0..MaxRow
  BY <1>1 DEF Screens
<1>3. B[y] \in [Column -> Cell] /\ B[y0] \in [Column -> Cell]
  BY <1>2
<1>4. CASE y = y0
  BY <1>2, <1>3, <1>4
<1>5. CASE y # y0
  BY <1>2, <1>3, <1>5
<1> QED BY <1>4, <1>5

(* A character goes to the end of the last line. *)
LEMMA PutDrawn ==
  ASSUME NEW B \in Screens, NEW L \in OpenLines, NEW s \in Nat, Drawn(B, L, s),
         NEW y0 \in Row, y0 + s = Len(L) - 1, NEW c \in Char
  PROVE  Drawn([B EXCEPT ![y0][Len(L[Len(L)])] = c], Place(L, c), s)
<1> DEFINE P == Place(L, c)
           m == Len(L)
           w == Len(L[m])
           N == [B EXCEPT ![y0][w] = c]
<1>1. /\ m \in Nat \ {0} /\ w \in Nat /\ w < Width
      /\ L[m] \in Seq(Char)
      /\ \A i \in 1..m : Len(L[i]) \in Nat
  BY OpenLinesFacts
<1>2. /\ Len(P) = IF w + 1 = Width THEN m + 1 ELSE m
      /\ \A i \in 1..m : P[i] = IF i = m THEN Append(L[m], c) ELSE L[i]
      /\ w + 1 = Width => P[m + 1] = <<>>
  BY PlaceChar
<1>3. /\ Len(Append(L[m], c)) = w + 1
      /\ \A i \in 1..w : Append(L[m], c)[i] = L[m][i]
      /\ Append(L[m], c)[w + 1] = c
  BY <1>1, AppendProperties
<1>4. w \in Column
  BY <1>1, ScreenAssumption DEF Column
<1>5. \A y \in Row, x \in Column : N[y][x] = IF y = y0 /\ x = w THEN c ELSE B[y][x]
  <2>1. c \in Cell
    BY DEF Char, Cell
  <2> HIDE DEF w
  <2> QED BY <1>4, <2>1, CellPut
<1>a. y0 + s = m - 1 /\ y0 \in Nat
  BY ScreenAssumption DEF Row
<1> HIDE DEF P, N, w, m
<1> SUFFICES ASSUME NEW y \in Row, NEW x \in Column
             PROVE  IF y + s < Len(P) /\ x < Len(P[y + s + 1])
                    THEN N[y][x] = P[y + s + 1][x + 1]
                    ELSE N[y][x] \in {Nul, Space} /\ (s = 0 => N[y][x] = Nul)
  BY DEF Drawn, P, N, w, m
<1>6. IF y + s < m /\ x < Len(L[y + s + 1])
      THEN B[y][x] = L[y + s + 1][x + 1]
      ELSE B[y][x] \in {Nul, Space} /\ (s = 0 => B[y][x] = Nul)
  BY DEF Drawn, m
<1>7. y \in Nat /\ x \in Nat /\ x < Width
  BY ScreenAssumption DEF Row, Column
<1>8. CASE y + s + 1 < m
  <2>1. y + s + 1 \in 1..m /\ y + s + 1 # m /\ y + s < Len(P) /\ y # y0
    BY <1>1, <1>2, <1>7, <1>8, <1>a
  <2>2. P[y + s + 1] = L[y + s + 1]
    BY <1>2, <2>1
  <2>3. N[y][x] = B[y][x]
    BY <1>5, <2>1
  <2>4. y + s < m
    BY <1>1, <1>7, <1>8
  <2> QED BY <1>6, <2>1, <2>2, <2>3, <2>4
<1>9. CASE y + s + 1 = m
  <2>a. m <= Len(P) /\ Len(P) \in Nat
    BY <1>1, <1>2
  <2>1. y = y0 /\ y + s + 1 \in 1..m /\ y + s < Len(P) /\ y + s < m
    BY <1>1, <1>7, <1>9, <1>a, <2>a
  <2>2. P[y + s + 1] = Append(L[m], c) /\ L[y + s + 1] = L[m]
    BY <1>2, <1>9, <2>1
  <2>3. CASE x = w
    BY <1>1, <1>3, <1>5, <2>1, <2>2, <2>3
  <2>4. CASE x < w
    <3>1. N[y][x] = B[y][x] /\ x + 1 \in 1..w /\ x < w + 1
      BY <1>1, <1>5, <1>7, <2>4
    <3>2. B[y][x] = L[m][x + 1]
      BY <1>6, <2>1, <2>2, <2>4 DEF w
    <3> QED BY <1>3, <2>1, <2>2, <3>1, <3>2
  <2>5. CASE x > w
    <3>1. N[y][x] = B[y][x] /\ ~(x < w + 1) /\ ~(x < w)
      BY <1>1, <1>5, <1>7, <2>5
    <3> QED BY <1>3, <1>6, <2>1, <2>2, <3>1 DEF w
  <2> QED BY <1>1, <1>7, <2>3, <2>4, <2>5
<1>10. CASE y + s + 1 > m
  <2>a. y # y0
    BY <1>1, <1>7, <1>10, <1>a
  <2>1. N[y][x] = B[y][x]
    BY <1>5, <2>a
  <2>2. ~(y + s < m)
    BY <1>1, <1>7, <1>10
  <2>3. ~(y + s < Len(P) /\ x < Len(P[y + s + 1]))
    <3>1. CASE y + s = m /\ w + 1 = Width
      <4>1. P[y + s + 1] = <<>>
        BY <1>2, <3>1
      <4> QED BY <1>7, <4>1
    <3>2. CASE ~(y + s = m /\ w + 1 = Width)
      BY <1>1, <1>2, <1>7, <2>2, <3>2
    <3> QED BY <3>1, <3>2
  <2> QED BY <1>6, <2>1, <2>2, <2>3
<1> QED BY <1>1, <1>7, <1>8, <1>9, <1>10
(* Where erasef's loop stops. *)
LEMMA EndOfTextAt ==
  ASSUME NEW line, NEW x \in Nat, NEW k \in 0..x,
         \A l \in k..(x - 1) : line[l] = Nul,
         k = 0 \/ line[k - 1] # Nul
  PROVE  EndOfText(line, x) = k
<1>1. ASSUME NEW j \in 0..x,
             \A l \in j..(x - 1) : line[l] = Nul,
             j = 0 \/ line[j - 1] # Nul
      PROVE  j = k
  <2>1. CASE j < k
    <3>1. k - 1 \in j..(x - 1) /\ k # 0
      BY <2>1
    <3> QED BY <1>1, <3>1
  <2>2. CASE k < j
    <3>1. j - 1 \in k..(x - 1) /\ j # 0
      BY <2>2
    <3> QED BY <1>1, <3>1
  <2> QED BY <2>1, <2>2
<1> DEFINE Stops(j) == /\ \A l \in j..(x - 1) : line[l] = Nul
                       /\ j = 0 \/ line[j - 1] # Nul
<1>2. Stops(k)
  OBVIOUS
<1>3. \A j \in 0..x : Stops(j) => j = k
  BY <1>1
<1>4. EndOfText(line, x) = CHOOSE j \in 0..x : Stops(j)
  BY DEF EndOfText
<1> HIDE DEF Stops
<1> QED BY <1>2, <1>3, <1>4

(* The lines before a character that was erased at x0 of the last of them. *)
LEMMA LinesBefore ==
  ASSUME NEW L \in OpenLines, NEW c \in Char \cup {Newline}, NEW x0 \in Column,
         Len(L[Len(L)]) <= x0, c \in Char => x0 = Len(L[Len(L)])
  PROVE  LET m == Len(L)
             P == Place(L, c)
         IN  /\ Len(P) \in m..(m + 1)
             /\ \A i \in 1..(m - 1) : P[i] = L[i]
             /\ \A x \in Column \ {x0} :
                  /\ x < Len(P[m]) <=> x < Len(L[m])
                  /\ x < Len(L[m]) => P[m][x + 1] = L[m][x + 1]
             /\ Len(P) = m + 1 => P[m + 1] = <<>>
<1> DEFINE m == Len(L)
           w == Len(L[m])
           P == Place(L, c)
<1>1. m \in Nat \ {0} /\ w \in Nat /\ L[m] \in Seq(Char)
  BY OpenLinesFacts
<1>2. CASE c = Newline
  <2>1. /\ Len(P) = m + 1
        /\ \A i \in 1..m : P[i] = L[i]
        /\ P[m + 1] = <<>>
    BY <1>2, PlaceNewline
  <2>2. P[m] = L[m]
    BY <1>1, <2>1
  <2> HIDE DEF P, m, w
  <2>3. \A i \in 1..(m - 1) : P[i] = L[i]
    BY <1>1, <2>1
  <2>4. Len(P) \in m..(m + 1)
    BY <1>1, <2>1
  <2> QED BY <2>1, <2>2, <2>3, <2>4 DEF P, m, w
<1>3. CASE c \in Char
  <2>1. /\ Len(P) = IF w + 1 = Width THEN m + 1 ELSE m
        /\ \A i \in 1..m : P[i] = IF i = m THEN Append(L[m], c) ELSE L[i]
        /\ w + 1 = Width => P[m + 1] = <<>>
    BY <1>3, PlaceChar
  <2>2. /\ Len(Append(L[m], c)) = w + 1
        /\ \A i \in 1..w : Append(L[m], c)[i] = L[m][i]
    BY <1>1, <1>3, AppendProperties
  <2>3. x0 = w
    BY <1>3
  <2>4. P[m] = Append(L[m], c)
    <3>1. m \in 1..m
      BY <1>1
    <3> HIDE DEF P, m
    <3> QED BY <2>1, <3>1
  <2> HIDE DEF P, m, w
  <2>5. ASSUME NEW x \in Column \ {x0}
        PROVE  /\ x < Len(P[m]) <=> x < w
               /\ x < w => P[m][x + 1] = L[m][x + 1]
    <3>1. x \in Nat /\ x # w
      BY <2>3, ScreenAssumption DEF Column
    <3>2. x < w + 1 <=> x < w
      BY <1>1, <3>1
    <3>3. x < w => x + 1 \in 1..w
      BY <1>1, <3>1
    <3> QED BY <2>2, <2>4, <3>2, <3>3
  <2>6. \A i \in 1..(m - 1) : P[i] = L[i]
    BY <1>1, <2>1
  <2>7. Len(P) \in m..(m + 1) /\ (Len(P) = m + 1 => P[m + 1] = <<>>)
    BY <1>1, <2>1
  <2> QED BY <2>5, <2>6, <2>7 DEF P, m, w
<1> QED BY <1>2, <1>3

LEMMA EraseDrawn ==
  ASSUME NEW B \in Screens, NEW L \in OpenLines, NEW s \in Nat,
         NEW c \in Char \cup {Newline}, Drawn(B, Place(L, c), s),
         NEW y0 \in Row, y0 + s = Len(L) - 1, NEW x0 \in Column,
         Len(L[Len(L)]) <= x0, c \in Char => x0 = Len(L[Len(L)])
  PROVE  Drawn([B EXCEPT ![y0][x0] = Nul], L, s)
<1> DEFINE P == Place(L, c)
           m == Len(L)
           w == Len(L[m])
           N == [B EXCEPT ![y0][x0] = Nul]
<1>1. m \in Nat \ {0} /\ w \in Nat
  BY OpenLinesFacts
<1>2. /\ Len(P) \in m..(m + 1)
      /\ \A i \in 1..(m - 1) : P[i] = L[i]
      /\ \A x \in Column \ {x0} :
           /\ x < Len(P[m]) <=> x < w
           /\ x < w => P[m][x + 1] = L[m][x + 1]
      /\ Len(P) = m + 1 => P[m + 1] = <<>>
  BY LinesBefore
<1>3. \A y \in Row, x \in Column : N[y][x] = IF y = y0 /\ x = x0 THEN Nul ELSE B[y][x]
  <2>1. Nul \in Cell
    BY DEF Cell
  <2> HIDE DEF P, m, w
  <2> QED BY <2>1, CellPut
<1>4. y0 + s = m - 1 /\ y0 \in Nat /\ w <= x0
  BY ScreenAssumption DEF Row
<1> HIDE DEF P, N, w, m
<1> SUFFICES ASSUME NEW y \in Row, NEW x \in Column
             PROVE  IF y + s < m /\ x < Len(L[y + s + 1])
                    THEN N[y][x] = L[y + s + 1][x + 1]
                    ELSE N[y][x] \in {Nul, Space} /\ (s = 0 => N[y][x] = Nul)
  BY DEF Drawn, N, m
<1>6. IF y + s < Len(P) /\ x < Len(P[y + s + 1])
      THEN B[y][x] = P[y + s + 1][x + 1]
      ELSE B[y][x] \in {Nul, Space} /\ (s = 0 => B[y][x] = Nul)
  BY DEF Drawn, P
<1>7. y \in Nat /\ x \in Nat /\ x0 \in Nat
  BY ScreenAssumption DEF Row, Column
<1>8. CASE y + s + 1 < m
  <2>1. y + s + 1 \in 1..(m - 1) /\ y + s < Len(P) /\ y + s < m
    BY <1>1, <1>2, <1>7, <1>8
  <2>2. P[y + s + 1] = L[y + s + 1]
    BY <1>2, <2>1
  <2>3. y # y0
    BY <1>1, <1>4, <1>7, <1>8
  <2>4. N[y][x] = B[y][x]
    BY <1>3, <2>3
  <2> QED BY <1>6, <2>1, <2>2, <2>4
<1>9. CASE y + s + 1 = m
  <2>1. y = y0 /\ y + s < m /\ L[y + s + 1] = L[m] /\ P[y + s + 1] = P[m]
    BY <1>1, <1>4, <1>7, <1>9
  <2>2. y + s < Len(P)
    BY <1>1, <1>2, <1>7, <1>9
  <2>3. CASE x = x0
    <3>1. N[y][x] = Nul /\ ~(x < w)
      BY <1>1, <1>3, <1>4, <1>7, <2>1, <2>3
    <3> QED BY <2>1, <3>1 DEF w
  <2>4. CASE x # x0
    <3>1. N[y][x] = B[y][x]
      BY <1>3, <2>4
    <3>2. /\ x < Len(P[m]) <=> x < w
          /\ x < w => P[m][x + 1] = L[m][x + 1]
      BY <1>2, <2>4
    <3> QED BY <1>6, <2>1, <2>2, <3>1, <3>2 DEF w
  <2> QED BY <2>3, <2>4
<1>10. CASE y + s + 1 > m
  <2>1. ~(y + s < m)
    BY <1>1, <1>7, <1>10
  <2>2. y # y0
    BY <1>1, <1>4, <1>7, <1>10
  <2>3. N[y][x] = B[y][x]
    BY <1>3, <2>2
  <2>4. ~(y + s < Len(P) /\ x < Len(P[y + s + 1]))
    <3>1. CASE y + s < Len(P)
      <4>1. Len(P) = m + 1 /\ y + s + 1 = m + 1
        BY <1>1, <1>2, <1>7, <2>1, <3>1
      <4>2. Len(P[y + s + 1]) = 0
        BY <1>2, <4>1
      <4> QED BY <1>7, <4>2
    <3> QED BY <3>1
  <2> QED BY <1>6, <2>1, <2>3, <2>4
<1> QED BY <1>1, <1>7, <1>8, <1>9, <1>10
-----------------------------------------------------------------------------
ScreenType == terminal_buffer \in Screens /\ scrolls \in Nat

(* The screen shows the text t: its last line is the one of the next
   character. *)
Shows(t) ==
  LET L == LinesOf(t)
  IN  /\ terminal_row + scrolls = Len(L) - 1
      /\ terminal_column = Len(L[Len(L)])
      /\ Drawn(terminal_buffer, L, scrolls)

LEMMA PutShows ==
  ASSUME PlaceInv, ScreenType, NEW t \in Text, Shows(t),
         NEW c \in Char, terminal_putchar(c),
         scrolls' = IF Scrolls(c) THEN scrolls + 1 ELSE scrolls
  PROVE  ScreenType' /\ Shows(Append(t, c))'
<1> DEFINE L == LinesOf(t)
           P == Place(L, c)
           m == Len(L)
           w == Len(L[m])
           due == terminal_row = Height
           y == IF due THEN terminal_row - 1 ELSE terminal_row
           b == IF due THEN MovedUp(terminal_buffer) ELSE terminal_buffer
<1>1. /\ L \in OpenLines /\ m \in Nat \ {0} /\ w \in Nat
      /\ L[m] \in Seq(Char)
  BY LinesOfType, OpenLinesFacts
<1>2. LinesOf(Append(t, c)) = P
  BY LinesOfAppend
<1>3. /\ terminal_row + scrolls = m - 1
      /\ terminal_column = w
      /\ Drawn(terminal_buffer, L, scrolls)
  BY DEF Shows
<1>4. /\ terminal_buffer' = [b EXCEPT ![y][terminal_column] = c]
      /\ terminal_advance(y)
  BY DEF terminal_putchar
<1>5. scrolls' = IF due THEN scrolls + 1 ELSE scrolls
  BY ScreenAssumption DEF Scrolls, Char
<1> HIDE DEF L
<1>6. /\ b \in Screens /\ scrolls' \in Nat /\ y \in Row
      /\ y + scrolls' = m - 1
      /\ Drawn(b, L, scrolls')
  <2>1. terminal_row \in Row \/ (due /\ terminal_column = 0)
    BY DEF PlaceInv, OnScreen
  <2>2. CASE due
    <3>1. Height + scrolls = m - 1 /\ w = 0
      BY <1>3, <2>1, <2>2, ScreenAssumption DEF Row
    <3>2. L[m] = <<>>
      BY <1>1, <3>1, EmptySeq
    <3>3. L[Height + scrolls + 1] = <<>>
      BY <1>1, <3>1, <3>2
    <3>4. Drawn(MovedUp(terminal_buffer), L, scrolls + 1)
      BY <1>1, <1>3, <3>3, MovedUpDrawn DEF ScreenType
    <3>5. MovedUp(terminal_buffer) \in Screens
      BY MovedUpType DEF ScreenType
    <3>6. y \in Row /\ y + (scrolls + 1) = m - 1 /\ scrolls + 1 \in Nat
      BY <2>2, <3>1, ScreenAssumption DEF Row, ScreenType
    <3> QED BY <1>5, <2>2, <3>4, <3>5, <3>6
  <2>3. CASE ~due
    BY <1>3, <1>5, <2>1, <2>3 DEF ScreenType
  <2> QED BY <2>2, <2>3
<1> HIDE DEF b, y
<1>7. Drawn([b EXCEPT ![y][w] = c], P, scrolls')
  BY <1>1, <1>6, PutDrawn
<1>8. Drawn(terminal_buffer', P, scrolls')
  BY <1>3, <1>4, <1>7
<1>9. terminal_buffer' \in Screens
  <2>1. c \in Cell /\ w \in Column /\ y \in 0..MaxRow /\ b[y] \in [Column -> Cell]
    BY <1>3, <1>6, ScreenAssumption DEF Char, Cell, PlaceInv, Row, MaxRow, Screens
  <2> QED BY <1>3, <1>4, <1>6, <2>1 DEF Screens
<1>10. terminal_row' + scrolls' = Len(P) - 1 /\ terminal_column' = Len(P[Len(P)])
  <2>1. /\ Len(P) = IF w + 1 = Width THEN m + 1 ELSE m
        /\ \A i \in 1..m : P[i] = IF i = m THEN Append(L[m], c) ELSE L[i]
        /\ w + 1 = Width => P[m + 1] = <<>>
    BY <1>1, PlaceChar
  <2>2. /\ terminal_row' = IF w + 1 = Width THEN y + 1 ELSE y
        /\ terminal_column' = IF w + 1 = Width THEN 0 ELSE w + 1
    BY <1>3, <1>4 DEF terminal_advance
  <2>3. P[m] = Append(L[m], c)
    <3>1. m \in 1..m
      BY <1>1
    <3> HIDE DEF P, m
    <3> QED BY <2>1, <3>1
  <2>4. Len(Append(L[m], c)) = w + 1 /\ Len(<<>>) = 0
    BY <1>1, AppendProperties
  <2>5. y \in Nat
    BY <1>6, ScreenAssumption DEF Row
  <2> HIDE DEF P, m, w
  <2>6. CASE w + 1 = Width
    BY <1>1, <1>6, <2>1, <2>2, <2>4, <2>5, <2>6
  <2>7. CASE w + 1 # Width
    BY <1>1, <1>6, <2>1, <2>2, <2>3, <2>4, <2>5, <2>7
  <2> QED BY <2>6, <2>7
<1> QED BY <1>2, <1>6, <1>8, <1>9, <1>10 DEF Shows, ScreenType

LEMMA NewlineShows ==
  ASSUME PlaceInv, ScreenType, NEW t \in Text, Shows(t),
         terminal_row # Height, terminal_newline,
         scrolls' = IF Scrolls(Newline) THEN scrolls + 1 ELSE scrolls
  PROVE  ScreenType' /\ Shows(Append(t, Newline))'
<1> DEFINE L == LinesOf(t)
           P == Place(L, Newline)
           m == Len(L)
           due == terminal_row + 1 = Height
           b == IF due THEN MovedUp(terminal_buffer) ELSE terminal_buffer
<1>1. L \in OpenLines /\ m \in Nat \ {0}
  BY LinesOfType, OpenLinesFacts
<1>2. LinesOf(Append(t, Newline)) = P
  BY LinesOfAppend
<1>3. /\ terminal_row + scrolls = m - 1
      /\ Drawn(terminal_buffer, L, scrolls)
  BY DEF Shows
<1>4. /\ terminal_buffer' = b
      /\ terminal_row' = IF due THEN terminal_row ELSE terminal_row + 1
      /\ terminal_column' = 0
  BY DEF terminal_newline
<1>5. scrolls' = IF due THEN scrolls + 1 ELSE scrolls
  BY DEF Scrolls
<1> HIDE DEF L
<1>6. terminal_row \in Nat
  BY ScreenAssumption DEF PlaceInv, OnScreen, Row
<1>7. /\ b \in Screens /\ scrolls' \in Nat
      /\ terminal_row' + scrolls' = m
      /\ Drawn(b, L, scrolls')
  <2>1. CASE due
    <3>1. ~(Height + scrolls < m)
      BY <1>1, <1>3, <1>6, <2>1, ScreenAssumption DEF ScreenType
    <3>2. Drawn(MovedUp(terminal_buffer), L, scrolls + 1)
      BY <1>1, <1>3, <3>1, MovedUpDrawn DEF ScreenType
    <3>3. MovedUp(terminal_buffer) \in Screens
      BY MovedUpType DEF ScreenType
    <3> QED BY <1>1, <1>3, <1>4, <1>5, <1>6, <2>1, <3>2, <3>3 DEF ScreenType
  <2>2. CASE ~due
    BY <1>1, <1>3, <1>4, <1>5, <1>6, <2>2 DEF ScreenType
  <2> QED BY <2>1, <2>2
<1> HIDE DEF b
<1>8. Drawn(terminal_buffer', P, scrolls')
  BY <1>1, <1>4, <1>7, NewlineDrawn
<1>9. Len(P) = m + 1 /\ P[m + 1] = <<>>
  BY <1>1, PlaceNewline
<1> HIDE DEF P
<1>10. terminal_row' + scrolls' = Len(P) - 1 /\ terminal_column' = Len(P[Len(P)])
  BY <1>1, <1>4, <1>7, <1>9
<1> QED BY <1>2, <1>4, <1>7, <1>8, <1>10 DEF Shows, ScreenType
(* erasef takes the last character back.  Once the screen has scrolled, it
   must not leave the line: the line above may end in ' ', which is not skipped. *)
LEMMA EraseShows ==
  ASSUME PlaceInv, ScreenType, NEW t \in Text, NEW c \in Char \cup {Newline},
         Shows(Append(t, c)),
         terminal_column = 0 => scrolls = 0,
         erasef, scrolls' = scrolls
  PROVE  ScreenType' /\ Shows(t)'
<1> DEFINE L == LinesOf(t)
           P == Place(L, c)
           m == Len(L)
           w == Len(L[m])
           at == terminal_back(terminal_column, terminal_row)
           x0 == at[1]
           y0 == at[2]
           B == terminal_buffer
           N == [B EXCEPT ![y0][x0] = Nul]
           line == [B[y0] EXCEPT ![x0] = Nul]
<1>1. /\ L \in OpenLines /\ m \in Nat \ {0} /\ w \in Nat /\ w < Width
      /\ L[m] \in Seq(Char)
  BY LinesOfType, OpenLinesFacts
<1>2. LinesOf(Append(t, c)) = P
  BY LinesOfAppend
<1>3. /\ terminal_row + scrolls = Len(P) - 1
      /\ terminal_column = Len(P[Len(P)])
      /\ Drawn(B, P, scrolls)
  BY <1>2 DEF Shows
<1>4. /\ terminal_buffer' = [B EXCEPT ![y0] = line]
      /\ terminal_row' = y0
      /\ terminal_column' = EndOfText(line, x0)
  BY DEF erasef
<1> HIDE DEF L
<1>5. /\ x0 \in Column /\ y0 \in Row
      /\ y0 + scrolls = m - 1 /\ w <= x0
      /\ c \in Char => x0 = w
      /\ c \notin Char => scrolls = 0
  <2>1. /\ terminal_row \in Nat /\ terminal_row <= Height
        /\ terminal_column # 0 => terminal_row \in Row
        /\ scrolls \in Nat
    BY ScreenAssumption DEF PlaceInv, OnScreen, Row, ScreenType
  <2>2. /\ at[1] = IF terminal_column # 0 THEN terminal_column - 1
                   ELSE IF terminal_row # 0 THEN Width - 1 ELSE terminal_column
        /\ at[2] = IF terminal_column # 0 THEN terminal_row
                   ELSE IF terminal_row # 0 THEN terminal_row - 1 ELSE terminal_row
    BY DEF terminal_back
  <2> HIDE DEF at
  <2>3. CASE c = Newline
    <3>1. Len(P) = m + 1 /\ P[m + 1] = <<>>
      BY <1>1, <2>3, PlaceNewline
    <3> HIDE DEF P
    <3>2. terminal_column = 0 /\ terminal_row + scrolls = m
      BY <1>1, <1>3, <3>1
    <3>3. scrolls = 0 /\ terminal_row = m
      BY <1>1, <2>1, <3>2
    <3>4. c \notin Char
      BY <2>3, ScreenAssumption DEF Char
    <3> HIDE DEF m, w
    <3> QED BY <1>1, <2>1, <2>2, <3>2, <3>3, <3>4, ScreenAssumption DEF Row, Column
  <2>4. CASE c \in Char
    <3>1. /\ Len(P) = IF w + 1 = Width THEN m + 1 ELSE m
          /\ \A i \in 1..m : P[i] = IF i = m THEN Append(L[m], c) ELSE L[i]
          /\ w + 1 = Width => P[m + 1] = <<>>
      BY <1>1, <2>4, PlaceChar
    <3>2. Len(Append(L[m], c)) = w + 1
      BY <1>1, <2>4, AppendProperties
    <3>3. P[m] = Append(L[m], c)
      <4>1. m \in 1..m
        BY <1>1
      <4> HIDE DEF P, m
      <4> QED BY <3>1, <4>1
    <3> HIDE DEF P, m, w
    <3>4. CASE w + 1 = Width
      <4>1. terminal_column = 0 /\ terminal_row + scrolls = m
        BY <1>1, <1>3, <3>1, <3>4
      <4>2. scrolls = 0 /\ terminal_row = m
        BY <1>1, <2>1, <4>1
      <4> QED BY <1>1, <2>1, <2>2, <2>4, <3>4, <4>1, <4>2, ScreenAssumption DEF Row, Column
    <3>5. CASE w + 1 # Width
      <4>1. terminal_column = w + 1 /\ terminal_row + scrolls = m - 1
        BY <1>1, <1>3, <3>1, <3>2, <3>3, <3>5
      <4> QED BY <1>1, <2>1, <2>2, <2>4, <3>5, <4>1, ScreenAssumption DEF Row, Column
    <3> QED BY <3>4, <3>5
  <2> QED BY <2>3, <2>4
<1> HIDE DEF at
<1>6. y0 \in 0..MaxRow /\ B \in Screens /\ scrolls \in Nat
  BY <1>5, ScreenAssumption DEF ScreenType, Row, MaxRow
<1>7. B[y0] \in [Column -> Cell] /\ Nul \in Cell
  BY <1>6 DEF Screens, Cell
<1>8. terminal_buffer' = N
  BY <1>4
<1>9. terminal_buffer' \in Screens
  BY <1>4, <1>5, <1>6, <1>7 DEF Screens
<1>10. Drawn(N, L, scrolls)
  BY <1>1, <1>3, <1>5, <1>6, EraseDrawn
<1>11. line = N[y0]
  BY <1>6, <1>7 DEF Screens
<1>12. EndOfText(line, x0) = w
  <2>1. x0 \in Nat /\ w \in 0..x0 /\ y0 \in Nat
    BY <1>1, <1>5, ScreenAssumption DEF Column, Row
  <2>2. \A x \in Column :
          IF x < w THEN N[y0][x] = L[m][x + 1]
          ELSE scrolls = 0 => N[y0][x] = Nul
    <3>1. y0 + scrolls < m /\ y0 + scrolls + 1 = m
      BY <1>1, <1>5, <1>6, <2>1
    <3> HIDE DEF N
    <3> QED BY <1>5, <1>10, <3>1 DEF Drawn
  <2> HIDE DEF N, line
  <2>3. ASSUME NEW l \in w..(x0 - 1) PROVE line[l] = Nul
    <3>1. l \in Column /\ ~(l < w)
      BY <1>1, <1>5, ScreenAssumption DEF Column
    <3>2. c \notin Char
      BY <1>1, <1>5, <2>1
    <3> QED BY <1>5, <1>11, <2>2, <3>1, <3>2
  <2>4. w = 0 \/ line[w - 1] # Nul
    <3> SUFFICES ASSUME w # 0 PROVE line[w - 1] # Nul
      OBVIOUS
    <3>1. w - 1 \in Column /\ w - 1 < w /\ (w - 1) + 1 = w /\ w \in 1..w
      BY <1>1, ScreenAssumption DEF Column
    <3>2. L[m][w] \in Char
      BY <1>1, <3>1, ElementOfSeq
    <3>3. line[w - 1] = L[m][w]
      BY <1>11, <2>2, <3>1
    <3> QED BY <3>2, <3>3, ScreenAssumption DEF Char
  <2> HIDE DEF w, x0
  <2> QED BY <2>1, <2>3, <2>4, EndOfTextAt
<1> QED BY <1>4, <1>5, <1>6, <1>8, <1>9, <1>10, <1>12 DEF Shows, ScreenType, L

(* A screen with nothing on it. *)
LEMMA BlankShows ==
  ASSUME NEW B \in Screens, \A y \in Row, x \in Column : B[y][x] = Nul
  PROVE  Drawn(B, << <<>> >>, 0)
<1>1. ASSUME NEW y \in Row, NEW x \in Column
      PROVE  ~(y + 0 < Len(<< <<>> >>) /\ x < Len(<< <<>> >>[y + 0 + 1]))
  <2>1. y \in Nat /\ x \in Nat
    BY ScreenAssumption DEF Row, Column
  <2>2. CASE y = 0
    BY <2>1, <2>2
  <2>3. CASE y # 0
    BY <2>1, <2>3
  <2> QED BY <2>2, <2>3
<1> QED BY <1>1 DEF Drawn

LEMMA ClearShows ==
  ASSUME ScreenType, terminal_initialize, scrolls' = 0
  PROVE  ScreenType' /\ Shows(<<>>)'
<1>1. BlankLine(Nul) \in [Column -> Cell] /\ \A x \in Column : BlankLine(Nul)[x] = Nul
  BY DEF BlankLine, Cell
<1>2. terminal_buffer' \in Screens
  BY <1>1 DEF terminal_initialize, Screens, ScreenType
<1>3. \A y \in Row, x \in Column : terminal_buffer'[y][x] = Nul
  BY <1>1, ScreenAssumption DEF terminal_initialize, Row, MaxRow
<1>4. Drawn(terminal_buffer', << <<>> >>, 0)
  BY <1>2, <1>3, BlankShows
<1>5. /\ terminal_row' = 0 /\ terminal_column' = 0
      /\ Len(<< <<>> >>) = 1 /\ Len(<< <<>> >>[1]) = 0
  BY DEF terminal_initialize
<1>6. LinesOf(<<>>) = << <<>> >>
  BY LinesOfNothing
<1> QED BY <1>2, <1>4, <1>5, <1>6 DEF Shows, ScreenType

LEMMA InitShows == Init => ScreenType /\ Shows(<<>>)
<1> SUFFICES ASSUME Init PROVE ScreenType /\ Shows(<<>>)
  OBVIOUS
<1>1. PICK below \in {Nul, Space} :
        terminal_buffer = [y \in 0..MaxRow |-> BlankLine(IF y \in Row THEN Nul ELSE below)]
  BY DEF Init, TerminalInit
<1>2. \A c \in {Nul, Space} : BlankLine(c) \in [Column -> Cell]
  BY DEF BlankLine, Cell
<1>3. terminal_buffer \in Screens
  BY <1>1, <1>2 DEF Screens
<1>4. \A y \in Row, x \in Column : terminal_buffer[y][x] = Nul
  BY <1>1, ScreenAssumption DEF Row, MaxRow, BlankLine
<1>5. Drawn(terminal_buffer, << <<>> >>, 0)
  BY <1>3, <1>4, BlankShows
<1>6. /\ terminal_row = 0 /\ terminal_column = 0 /\ scrolls = 0
      /\ Len(<< <<>> >>) = 1 /\ Len(<< <<>> >>[1]) = 0
  BY DEF Init, TerminalInit
<1>7. LinesOf(<<>>) = << <<>> >>
  BY LinesOfNothing
<1> QED BY <1>3, <1>5, <1>6, <1>7 DEF Shows, ScreenType
-----------------------------------------------------------------------------
LEMMA DigitFacts ==
  /\ Base \in Nat \ {0, 1}
  /\ \A d \in Digit : d \in Nat /\ d < Base
  /\ \A v \in Nat, d \in Digit : v * Base + d \in Nat /\ v <= v * Base + d
<1>1. Base \in Nat \ {0, 1}
  BY NumberAssumption
<1>2. \A d \in Digit : d \in Nat /\ d < Base
  BY <1>1 DEF Digit
<1>3. ASSUME NEW v \in Nat, NEW d \in Digit PROVE v * Base + d \in Nat /\ v <= v * Base + d
  <2>1. v * Base \in Nat /\ v <= v * Base
    BY <1>1, Z3
  <2> QED BY <1>2, <2>1
<1> QED BY <1>1, <1>2, <1>3

LEMMA ValuesSteps ==
  ASSUME NEW ds \in Seq(Digit)
  PROVE  /\ Values(ds)[0] = 0
         /\ \A k \in 1..Len(ds) : Values(ds)[k] = Values(ds)[k - 1] * Base + ds[k]
         /\ \A k \in 0..Len(ds) : Values(ds)[k] \in Nat
<1> DEFINE m == Len(ds)
           Body(f) == [k \in 0..m |-> IF k = 0 THEN 0 ELSE f[k - 1] * Base + ds[k]]
           step == [q \in Nat \X (1..m) |-> q[1] * Base + ds[q[2]]]
           p == Values(ds)
<1>1. m \in Nat /\ \A k \in 1..m : ds[k] \in Digit
  BY ElementOfSeq
<1>2. \A v \in Nat, k \in 1..m : step[<<v, k>>] = v * Base + ds[k]
  OBVIOUS
<1>3. \A v \in Nat, k \in 1..m : v * Base + ds[k] \in Nat
  BY <1>1, DigitFacts
<1>5. p = CHOOSE f : f = Body(f)
  BY DEF Values
<1> HIDE DEF step, m
<1>6. PICK g : Recursion(g, m, Nat, 0, step)
  <2>1. \A v \in Nat, k \in 1..m : step[<<v, k>>] \in Nat
    BY <1>2, <1>3
  <2> QED BY <1>1, <2>1, RecursionExists
<1>7. g = Body(g)
  <2>1. ASSUME NEW k \in 1..m PROVE g[k] = g[k - 1] * Base + ds[k]
    <3>1. k - 1 \in 0..m
      BY <1>1
    <3>2. g[k - 1] \in Nat /\ g[k] = step[<<g[k - 1], k>>]
      BY <1>6, <3>1 DEF Recursion
    <3> QED BY <1>2, <3>2
  <2>2. ASSUME NEW k \in 0..m PROVE g[k] = Body(g)[k]
    <3>1. CASE k = 0
      BY <1>6, <3>1 DEF Recursion
    <3>2. CASE k # 0
      BY <1>1, <2>1, <3>2
    <3> QED BY <3>1, <3>2
  <2> QED BY <1>6, <2>2 DEF Recursion
<1>8. p = Body(p)
  <2> HIDE DEF Body, p
  <2> QED BY <1>5, <1>7
<1> HIDE DEF p
<1>9. /\ p[0] = 0
      /\ \A k \in 1..m : p[k] = p[k - 1] * Base + ds[k]
  BY <1>1, <1>8
<1>10. \A k \in 0..m : p[k] \in Nat
  <2> DEFINE T == {k \in 0..m : p[k] \in Nat}
  <2>1. 0 \in T
    BY <1>1, <1>9
  <2>2. ASSUME NEW k \in 1..m, k - 1 \in T PROVE k \in T
    <3>1. p[k - 1] * Base + ds[k] \in Nat /\ k \in 0..m
      BY <1>1, <1>3, <2>2
    <3> QED BY <1>9, <3>1
  <2> HIDE DEF T
  <2>3. m \in Int /\ \A k \in 1..m : k - 1 \in T => k \in T
    BY <1>1, <2>2
  <2>4. \A k \in 0..m : k \in T
    BY <2>1, <2>3, InductiveBelow
  <2> QED BY <2>4 DEF T
<1> QED BY <1>9, <1>10 DEF p, m

Value(ds) == Values(ds)[Len(ds)]

LEMMA ValueOfNone == Value(<<>>) = 0
<1>1. <<>> \in Seq(Digit) /\ Len(<<>>) = 0
  OBVIOUS
<1> QED BY <1>1, ValuesSteps DEF Value

LEMMA ValueAppend ==
  ASSUME NEW ds \in Seq(Digit), NEW d \in Digit
  PROVE  /\ Value(Append(ds, d)) = Value(ds) * Base + d
         /\ Value(ds) \in Nat
<1> DEFINE u == Append(ds, d)
           m == Len(ds)
           p == Values(ds)
           q == Values(u)
<1>1. m \in Nat
  OBVIOUS
<1>2. /\ u \in Seq(Digit) /\ Len(u) = m + 1
      /\ \A k \in 1..m : u[k] = ds[k]
      /\ u[m + 1] = d
  BY AppendProperties
<1>3. /\ p[0] = 0
      /\ \A k \in 1..m : p[k] = p[k - 1] * Base + ds[k]
      /\ \A k \in 0..m : p[k] \in Nat
  BY ValuesSteps
<1> HIDE DEF u
<1>4. /\ q[0] = 0
      /\ \A k \in 1..Len(u) : q[k] = q[k - 1] * Base + u[k]
  BY <1>2, ValuesSteps
<1> HIDE DEF p, q, m
<1>5. \A k \in 0..m : p[k] = q[k]
  <2> DEFINE T == {k \in 0..m : p[k] = q[k]}
  <2>1. 0 \in T
    BY <1>1, <1>3, <1>4
  <2>2. ASSUME NEW k \in 1..m, k - 1 \in T PROVE k \in T
    <3>1. k \in 1..Len(u) /\ k \in 0..m /\ u[k] = ds[k] /\ p[k - 1] = q[k - 1]
      BY <1>1, <1>2, <2>2
    <3>2. p[k] = p[k - 1] * Base + ds[k] /\ q[k] = q[k - 1] * Base + u[k]
      BY <1>3, <1>4, <3>1
    <3>3. p[k] = q[k]
      BY <3>1, <3>2, Zenon
    <3> QED BY <3>1, <3>3
  <2> HIDE DEF T
  <2>3. \A k \in 0..m : k \in T
    BY <1>1, <2>1, <2>2, InductiveBelow
  <2> QED BY <2>3 DEF T
<1>6. q[m + 1] = p[m] * Base + d
  <2>1. m + 1 \in 1..Len(u) /\ (m + 1) - 1 = m /\ m \in 0..m
    BY <1>1, <1>2
  <2>2. q[m + 1] = q[(m + 1) - 1] * Base + u[m + 1]
    BY <1>4, <2>1
  <2>3. q[(m + 1) - 1] = p[m] /\ u[m + 1] = d
    BY <1>2, <1>5, <2>1
  <2> QED BY <2>2, <2>3, Zenon
<1>7. Value(u) = q[m + 1] /\ Value(ds) = p[m] /\ m \in 0..m
  BY <1>1, <1>2 DEF Value, p, q, m
<1> QED BY <1>3, <1>6, <1>7 DEF u
(* How the number n, which is not zero, is written. *)
Numeral(ds, n) == ds \in Seq(Digit) /\ ds # <<>> /\ ds[1] # 0 /\ Value(ds) = n

LEMMA NumeralPositive ==
  ASSUME NEW ds \in Seq(Digit), ds # <<>>, ds[1] # 0
  PROVE  Value(ds) \in Nat \ {0}
<1> DEFINE m == Len(ds)
           p == Values(ds)
           T == {k \in 0..m : k # 0 => p[k] # 0}
<1>1. m \in Nat \ {0} /\ \A k \in 1..m : ds[k] \in Digit
  BY EmptySeq, ElementOfSeq
<1>2. /\ p[0] = 0
      /\ \A k \in 1..m : p[k] = p[k - 1] * Base + ds[k]
      /\ \A k \in 0..m : p[k] \in Nat
  BY ValuesSteps
<1> HIDE DEF p, m
<1>3. 0 \in T
  BY <1>1
<1>4. ASSUME NEW k \in 1..m, k - 1 \in T PROVE k \in T
  <2>1. k \in 0..m /\ k - 1 \in 0..m /\ ds[k] \in Digit
    BY <1>1
  <2>2. p[k - 1] \in Nat /\ p[k] = p[k - 1] * Base + ds[k]
    BY <1>2, <2>1
  <2>3. p[k] \in Nat /\ p[k - 1] <= p[k]
    BY <2>1, <2>2, DigitFacts
  <2>4. p[k] # 0
    <3>1. CASE k = 1
      <4>1. k - 1 = 0
        BY <3>1
      <4>2. p[k] = 0 * Base + ds[1]
        BY <1>2, <2>2, <3>1, <4>1, Zenon
      <4>3. ds[1] \in Nat
        BY <2>1, <3>1, DigitFacts
      <4>4. Base \in Nat
        BY DigitFacts
      <4>5. 0 * Base = 0
        BY <4>4, Z3
      <4> QED BY <4>2, <4>3, <4>5
    <3>2. CASE k # 1
      <4>1. k - 1 # 0
        BY <2>1, <3>2
      <4>2. p[k - 1] # 0
        BY <1>4, <4>1
      <4> QED BY <2>2, <2>3, <4>2
    <3> QED BY <3>1, <3>2
  <2> QED BY <2>1, <2>4
<1>5. m \in Int /\ \A k \in 1..m : k - 1 \in T => k \in T
  BY <1>1, <1>4
<1> HIDE DEF T
<1>6. \A k \in 0..m : k \in T
  BY <1>3, <1>5, InductiveBelow
<1>7. m \in T /\ m \in 0..m
  BY <1>1, <1>6
<1> QED BY <1>1, <1>2, <1>7 DEF T, Value, p, m

LEMMA QuotientIs ==
  ASSUME NEW q \in Nat, NEW b \in Nat \ {0}, NEW d \in 0..(b - 1)
  PROVE  (q * b + d) \div b = q /\ (q * b + d) % b = d
<1> DEFINE n == q * b + d
           r == n \div b
           e == n % b
<1>1. n \in Nat
  BY Z3
<1> HIDE DEF n
<1>2. n = b * r + e /\ e \in 0..(b - 1) /\ r \in Nat
  BY <1>1, Z3
<1>3. n = b * q + d
  BY Z3 DEF n
<1> HIDE DEF r, e
<1>4. \A x \in Nat, y \in Nat : x < y => b * x + b <= b * y
  <2> SUFFICES ASSUME NEW x \in Nat, NEW y \in Nat, x < y PROVE b * x + b <= b * y
    OBVIOUS
  <2>1. y - x - 1 \in Nat /\ y = x + 1 + (y - x - 1)
    OBVIOUS
  <2>2. b * (x + 1 + (y - x - 1)) = b * x + b + b * (y - x - 1)
    BY <2>1, Z3
  <2>3. b * (y - x - 1) \in Nat /\ b * x \in Nat /\ b * y \in Nat
    BY <2>1, Z3
  <2> QED BY <2>1, <2>2, <2>3
<1>5. b * q \in Nat /\ b * r \in Nat
  BY <1>2, Z3
<1>6. q = r
  <2>1. CASE q < r
    <3>1. b * q + b <= b * r
      BY <1>2, <1>4, <2>1
    <3> QED BY <1>2, <1>3, <1>5, <3>1
  <2>2. CASE r < q
    <3>1. b * r + b <= b * q
      BY <1>2, <1>4, <2>2
    <3> QED BY <1>2, <1>3, <1>5, <3>1
  <2> QED BY <1>2, <2>1, <2>2
<1>7. d = e
  BY <1>2, <1>3, <1>5, <1>6
<1> QED BY <1>6, <1>7 DEF r, e, n

(* The last digit of a number, and what is before it. *)
LEMMA NumeralSplits ==
  ASSUME NEW n, NEW ds, Numeral(ds, n)
  PROVE  \E front \in Seq(Digit) :
           /\ ds = Append(front, n % Base)
           /\ IF n \div Base = 0 THEN front = <<>> ELSE Numeral(front, n \div Base)
<1>1. ds \in Seq(Digit) /\ ds # <<>> /\ ds[1] # 0 /\ n = Value(ds)
  BY DEF Numeral
<1>2. PICK front \in Seq(Digit), d \in Digit : ds = Append(front, d)
  BY <1>1, SequenceEmptyOrAppend
<1>3. n = Value(front) * Base + d /\ Value(front) \in Nat
  BY <1>1, <1>2, ValueAppend
<1>4. d \in 0..(Base - 1) /\ Base \in Nat \ {0}
  BY DigitFacts DEF Digit
<1>5. n \div Base = Value(front) /\ n % Base = d
  BY <1>3, <1>4, QuotientIs
<1>6. CASE front = <<>>
  <2>1. n \div Base = 0
    BY <1>5, <1>6, ValueOfNone
  <2> QED BY <1>2, <1>5, <1>6, <2>1
<1>7. CASE front # <<>>
  <2>1. front[1] # 0
    <3>1. 1 \in 1..Len(front)
      BY <1>7, EmptySeq
    <3>2. ds[1] = front[1]
      BY <1>2, <3>1, AppendProperties
    <3> QED BY <1>1, <3>2
  <2>2. Value(front) # 0
    BY <1>7, <2>1, NumeralPositive
  <2> QED BY <1>2, <1>5, <1>7, <2>1, <2>2 DEF Numeral
<1> QED BY <1>6, <1>7

(* Every number that can be printed is written somehow. *)
LEMMA NumeralExists ==
  \A k \in 0..BufferSize :
    \A n \in Nat \ {0} : n < Power[k] => \E ds : Numeral(ds, n) /\ Len(ds) <= k
<1> DEFINE Written(n, k) == \E ds : Numeral(ds, n) /\ Len(ds) <= k
           T == {k \in 0..BufferSize : \A n \in Nat \ {0} : n < Power[k] => Written(n, k)}
<1>1. BufferSize \in Nat
  BY NumberAssumption
<1>2. 0 \in T
  BY <1>1, PowerSteps
<1>3. ASSUME NEW k \in 1..BufferSize, k - 1 \in T PROVE k \in T
  <2> SUFFICES ASSUME NEW n \in Nat \ {0}, n < Power[k] PROVE Written(n, k)
    BY <1>1
  <2> DEFINE q == n \div Base
             d == n % Base
  <2>1. Base \in Nat \ {0} /\ k \in Nat /\ k - 1 \in 0..BufferSize
    BY <1>1, DigitFacts
  <2>2. d \in Digit /\ q \in 0..n
    BY <2>1, Quotient DEF Digit
  <2>3. n = Base * q + d
    BY <2>1, Z3
  <2>4. q < Power[k - 1]
    <3>1. Power[k - 1] \in Nat /\ n < Base * Power[k - 1]
      BY <2>1, PowerSteps
    <3> QED BY <2>1, <3>1, QuotientBelow
  <2>5. n = q * Base + d
    <3>1. q \in Nat
      BY <2>2
    <3> HIDE DEF q
    <3>2. q * Base = Base * q
      BY <2>1, <3>1, Z3
    <3> QED BY <2>3, <3>2
  <2> HIDE DEF q, d
  <2>6. ASSUME NEW front \in Seq(Digit), Value(front) = q, Len(front) <= k - 1,
               front # <<>> => front[1] # 0
        PROVE  Written(n, k)
    <3> DEFINE ds == Append(front, d)
    <3>1. /\ ds \in Seq(Digit) /\ ds # <<>> /\ Len(ds) = Len(front) + 1
          /\ \A i \in 1..Len(front) : ds[i] = front[i]
          /\ ds[Len(front) + 1] = d
      BY <2>2, AppendProperties
    <3>2. Value(ds) = n
      BY <2>2, <2>5, <2>6, ValueAppend
    <3>3. ds[1] # 0
      <4>1. CASE front = <<>>
        <5>1. q = 0 /\ ds[1] = d
          BY <2>6, <3>1, <4>1, ValueOfNone
        <5> QED BY <2>1, <2>2, <2>5, <5>1, DigitFacts
      <4>2. CASE front # <<>>
        <5>1. 1 \in 1..Len(front)
          BY <4>2, EmptySeq
        <5> QED BY <2>6, <3>1, <4>2, <5>1
      <4> QED BY <4>1, <4>2
    <3>4. Len(ds) <= k
      <4>1. Len(front) \in Nat
        OBVIOUS
      <4> QED BY <2>1, <2>6, <3>1, <4>1
    <3> HIDE DEF ds
    <3>5. Numeral(ds, n)
      BY <3>1, <3>2, <3>3 DEF Numeral
    <3> QED BY <3>4, <3>5
  <2>7. CASE q = 0
    <3> DEFINE none == <<>>
    <3>1. /\ none \in Seq(Digit) /\ Len(none) <= k - 1 /\ Value(none) = q
          /\ none # <<>> => none[1] # 0
      BY <2>1, <2>7, ValueOfNone
    <3> HIDE DEF Written, none
    <3> QED BY <2>6, <3>1
  <2>8. CASE q # 0
    <3>1. Written(q, k - 1)
      BY <1>3, <2>2, <2>4, <2>8
    <3>2. PICK front : Numeral(front, q) /\ Len(front) <= k - 1
      BY <3>1
    <3> HIDE DEF Written
    <3> QED BY <2>6, <3>2 DEF Numeral
  <2> QED BY <2>7, <2>8
<1>4. BufferSize \in Int /\ \A k \in 1..BufferSize : k - 1 \in T => k \in T
  BY <1>1, <1>3
<1> HIDE DEF T
<1>5. \A k \in 0..BufferSize : k \in T
  BY <1>2, <1>4, InductiveBelow
<1> QED BY <1>5 DEF T

LEMMA DecimalIsNumeral ==
  ASSUME NEW n \in 1..MaxNumber
  PROVE  Numeral(Decimal(n), n)
<1> DEFINE S == BoundedSeq(Digit, BufferSize)
           Writes(ds) == ds # <<>> /\ ds[1] # 0 /\ Values(ds)[Len(ds)] = n
<1>1. BufferSize \in Nat /\ n \in Nat \ {0} /\ n < Power[BufferSize] /\ BufferSize \in 0..BufferSize
  BY NumberAssumption, PowerSteps
<1>2. PICK ds : Numeral(ds, n) /\ Len(ds) <= BufferSize
  BY <1>1, NumeralExists
<1>3. ds \in S /\ Writes(ds)
  <2>1. ds \in Seq(Digit) /\ Len(ds) \in 0..BufferSize /\ ds \in [1..Len(ds) -> Digit]
    BY <1>1, <1>2, LenProperties DEF Numeral
  <2> QED BY <1>2, <2>1 DEF Numeral, Value, BoundedSeq, SeqOf
<1>4. \A s \in S : s \in Seq(Digit)
  BY <1>1 DEF BoundedSeq, SeqOf
<1>5. Decimal(n) = CHOOSE s \in S : Writes(s)
  BY DEF Decimal
<1> HIDE DEF S, Writes
<1>6. Decimal(n) \in S /\ Writes(Decimal(n))
  BY <1>3, <1>5
<1> QED BY <1>4, <1>6 DEF Writes, Numeral, Value
-----------------------------------------------------------------------------
LEMMA ReverseType ==
  ASSUME NEW S, NEW s \in Seq(S)
  PROVE  /\ Reverse(s) \in Seq(S) /\ Len(Reverse(s)) = Len(s)
         /\ \A i \in 1..Len(s) : Reverse(s)[i] = s[Len(s) - i + 1]
<1>1. Len(s) \in Nat /\ \A i \in 1..Len(s) : s[i] \in S
  BY ElementOfSeq
<1>2. \A i \in 1..Len(s) : Len(s) - i + 1 \in 1..Len(s)
  BY <1>1
<1>3. Reverse(s) \in [1..Len(s) -> S]
  BY <1>1, <1>2 DEF Reverse
<1> QED BY <1>1, <1>3 DEF Reverse

LEMMA ReverseOfNone == Reverse(<<>>) = <<>>
<1>1. <<>> \in Seq({}) /\ Len(<<>>) = 0
  OBVIOUS
<1>2. Reverse(<<>>) \in Seq({}) /\ Len(Reverse(<<>>)) = 0
  BY <1>1, ReverseType
<1> QED BY <1>2, EmptySeq

LEMMA ReverseAppend ==
  ASSUME NEW S, NEW s \in Seq(S), NEW d \in S
  PROVE  Reverse(Append(s, d)) = <<d>> \o Reverse(s)
<1> DEFINE u == Append(s, d)
           m == Len(s)
           v == <<d>> \o Reverse(s)
<1>1. /\ u \in Seq(S) /\ Len(u) = m + 1 /\ m \in Nat
      /\ \A i \in 1..m : u[i] = s[i]
      /\ u[m + 1] = d
  BY AppendProperties
<1>2. /\ Reverse(s) \in Seq(S) /\ Len(Reverse(s)) = m
      /\ \A i \in 1..m : Reverse(s)[i] = s[m - i + 1]
  BY ReverseType
<1>3. <<d>> \in Seq(S) /\ Len(<<d>>) = 1 /\ <<d>>[1] = d
  OBVIOUS
<1>4. /\ v \in Seq(S) /\ Len(v) = 1 + m
      /\ \A i \in 1..(1 + m) : v[i] = IF i <= 1 THEN <<d>>[i] ELSE Reverse(s)[i - 1]
  <2> DEFINE a == <<d>>
             r == Reverse(s)
  <2>1. a \in Seq(S) /\ r \in Seq(S) /\ Len(a) = 1 /\ Len(r) = m
    BY <1>2, <1>3
  <2> HIDE DEF a, r
  <2>2. /\ a \o r \in Seq(S) /\ Len(a \o r) = Len(a) + Len(r)
        /\ \A i \in 1..(Len(a) + Len(r)) : (a \o r)[i] = IF i <= Len(a) THEN a[i] ELSE r[i - Len(a)]
    BY <2>1, ConcatProperties
  <2> QED BY <2>1, <2>2 DEF a, r
<1> HIDE DEF u, v
<1>5. /\ Reverse(u) \in Seq(S) /\ Len(Reverse(u)) = m + 1
      /\ \A i \in 1..(m + 1) : Reverse(u)[i] = u[m + 1 - i + 1]
  BY <1>1, ReverseType
<1> HIDE DEF m
<1>6. ASSUME NEW i \in 1..(m + 1) PROVE Reverse(u)[i] = v[i]
  <2>1. CASE i = 1
    BY <1>1, <1>3, <1>4, <1>5, <2>1
  <2>2. CASE i # 1
    <3>1. i - 1 \in 1..m /\ m + 1 - i + 1 \in 1..m /\ m - (i - 1) + 1 = m + 1 - i + 1
      BY <1>1, <2>2
    <3>2. v[i] = Reverse(s)[i - 1]
      BY <1>1, <1>4, <2>2, <3>1
    <3>3. Reverse(s)[i - 1] = s[m - (i - 1) + 1]
      BY <1>2, <3>1
    <3>4. Reverse(u)[i] = s[m + 1 - i + 1]
      BY <1>1, <1>5, <3>1
    <3> QED BY <3>1, <3>2, <3>3, <3>4
  <2> QED BY <2>1, <2>2
<1>7. Len(Reverse(u)) = Len(v)
  BY <1>1, <1>4, <1>5
<1>8. Reverse(u) = v
  BY <1>1, <1>4, <1>5, <1>6, <1>7, SeqEqual
<1> QED BY <1>8 DEF u, v

LEMMA AppendEnds ==
  ASSUME NEW S, NEW s \in Seq(S), NEW d \in S
  PROVE  Front(Append(s, d)) = s /\ Last(Append(s, d)) = d
<1> DEFINE u == Append(s, d)
           m == Len(s)
           f == SubSeq(u, 1, m)
<1>1. /\ u \in Seq(S) /\ Len(u) = m + 1 /\ m \in Nat
      /\ \A i \in 1..m : u[i] = s[i] /\ s[i] \in S
      /\ u[m + 1] = d
  BY AppendProperties, ElementOfSeq
<1> HIDE DEF u
<1>2. \A i \in 1..m : u[i] \in S
  BY <1>1
<1>3. /\ f \in Seq(S) /\ Len(f) = IF 1 <= m THEN m - 1 + 1 ELSE 0
      /\ \A i \in 1..(m - 1 + 1) : f[i] = u[1 + i - 1]
  <2> HIDE DEF m
  <2> QED BY <1>1, <1>2, SubSeqProperties
<1> HIDE DEF f, m
<1>4. Len(f) = m /\ \A i \in 1..m : f[i] = s[i]
  BY <1>1, <1>3
<1>5. f = s
  BY <1>3, <1>4, SeqEqual DEF m
<1>6. Len(u) - 1 = m
  BY <1>1
<1> QED BY <1>1, <1>5, <1>6 DEF Front, Last, f, u
-----------------------------------------------------------------------------
(* The text is what the screen shows, then the digits that printf has yet to
   make of its number, then those it has in its buffer, the last one first. *)
TextInv ==
  \E shown \in Text, digits \in Seq(Digit) :
    /\ Shows(shown)
    /\ text = (shown \o digits) \o Reverse(buffer)
    /\ IF num = 0 THEN digits = <<>> ELSE Numeral(digits, num)

LEMMA DigitsAreText == Seq(Digit) \subseteq Text /\ Digit \subseteq Char
<1>1. Digit \subseteq Char
  BY NumberAssumption DEF Char
<1>2. Digit \subseteq Char \cup {Newline}
  BY <1>1
<1> QED BY <1>1, <1>2, SeqMonotonic DEF Text

LEMMA ConcatText ==
  ASSUME NEW a \in Text, NEW b \in Text, NEW c \in Text
  PROVE  /\ (a \o b) \o c = a \o (b \o c)
         /\ a \o b \in Text /\ Len(a \o b) = Len(a) + Len(b)
  BY ConcatAssociative, ConcatProperties DEF Text

LEMMA IdleText ==
  ASSUME TextInv, Idle
  PROVE  \E shown \in Text : Shows(shown) /\ text = shown
<1>1. PICK shown \in Text, digits \in Seq(Digit) :
        /\ Shows(shown)
        /\ text = (shown \o digits) \o Reverse(buffer)
        /\ num = 0 => digits = <<>>
  BY DEF TextInv
<1>2. digits = <<>> /\ Reverse(buffer) = <<>>
  BY <1>1, ReverseOfNone DEF Idle
<1>3. (shown \o <<>>) \o <<>> = shown
  BY ConcatEmptySeq DEF Text
<1> QED BY <1>1, <1>2, <1>3

LEMMA TextShown ==
  ASSUME NEW t \in Text, Shows(t)', text' = t, num' = 0, buffer' = <<>>
  PROVE  TextInv'
<1>1. (t \o <<>>) \o <<>> = t
  BY ConcatEmptySeq DEF Text
<1>2. Reverse(buffer') = <<>> /\ <<>> \in Seq(Digit)
  BY ReverseOfNone
<1>3. text' = (t \o <<>>) \o Reverse(buffer')
  BY <1>1, <1>2
<1> QED BY <1>2, <1>3 DEF TextInv

LEMMA TypeKeepsText ==
  ASSUME ~NewlineAfterWrap, PlaceInv, ScreenType, TextInv,
         NEW c \in Char \cup {Newline}, Type(c)
  PROVE  ScreenType' /\ TextInv'
<1>1. PICK t \in Text : Shows(t) /\ text = t
  BY IdleText DEF Type
<1> DEFINE u == Append(t, c)
<1>2. u \in Text
  BY AppendProperties DEF Text
<1>3. text' = u /\ num' = 0 /\ buffer' = <<>>
  BY <1>1 DEF Type, Idle
<1>4. ScreenType' /\ Shows(u)'
  <2>1. CASE c = Newline
    <3>1. terminal_row # Height /\ terminal_newline
      BY <2>1 DEF Type, PrintChar
    <3>2. scrolls' = IF Scrolls(Newline) THEN scrolls + 1 ELSE scrolls
      BY <2>1 DEF Type
    <3> QED BY <1>1, <2>1, <3>1, <3>2, NewlineShows
  <2>2. CASE c # Newline
    <3>1. c \in Char /\ terminal_putchar(c)
      BY <2>2 DEF Type, PrintChar
    <3>2. scrolls' = IF Scrolls(c) THEN scrolls + 1 ELSE scrolls
      BY DEF Type
    <3> QED BY <1>1, <3>1, <3>2, PutShows
  <2> QED BY <2>1, <2>2
<1> HIDE DEF u
<1> QED BY <1>2, <1>3, <1>4, TextShown

LEMMA NumberKeepsText ==
  ASSUME ScreenType, TextInv, NEW n \in 1..MaxNumber, Number(n)
  PROVE  ScreenType' /\ TextInv'
<1>1. /\ n # 0 /\ Idle /\ num' = n /\ text' = text \o Decimal(n)
      /\ UNCHANGED <<terminal, buffer, scrolls>>
  BY NumberAssumption DEF Number
<1>2. PICK t \in Text : Shows(t) /\ text = t
  BY <1>1, IdleText
<1> DEFINE ds == Decimal(n)
<1>3. Numeral(ds, n)
  BY DecimalIsNumeral
<1> HIDE DEF ds
<1>4. ds \in Seq(Digit)
  BY <1>3 DEF Numeral
<1>5. Reverse(buffer') = <<>>
  BY <1>1, ReverseOfNone DEF Idle
<1>6. (t \o ds) \o <<>> = t \o ds
  <2>1. ds \in Text
    BY <1>4, DigitsAreText
  <2>2. t \o ds \in Text
    BY <2>1, ConcatProperties DEF Text
  <2> QED BY <2>2, ConcatEmptySeq DEF Text
<1>7. text' = (t \o ds) \o Reverse(buffer')
  BY <1>1, <1>2, <1>5, <1>6 DEF ds
<1>8. Shows(t)' /\ ScreenType'
  BY <1>1, <1>2 DEF Shows, ScreenType, terminal
<1> QED BY <1>1, <1>3, <1>4, <1>7, <1>8 DEF TextInv

LEMMA DivideKeepsText ==
  ASSUME BufferInv, ScreenType, TextInv, Divide
  PROVE  ScreenType' /\ TextInv'
<1> DEFINE d == num % Base
<1>1. /\ num # 0 /\ buffer' = Append(buffer, d) /\ num' = num \div Base
      /\ UNCHANGED <<terminal, text, scrolls>>
  BY DEF Divide
<1>2. PICK t \in Text, digits \in Seq(Digit) :
        /\ Shows(t)
        /\ text = (t \o digits) \o Reverse(buffer)
        /\ Numeral(digits, num)
  BY <1>1 DEF TextInv
<1>3. PICK front \in Seq(Digit) :
        /\ digits = Append(front, d)
        /\ IF num \div Base = 0 THEN front = <<>> ELSE Numeral(front, num \div Base)
  BY <1>2, NumeralSplits
<1>4. d \in Digit
  BY LastDigit
<1> HIDE DEF d
<1>5. Reverse(buffer') = <<d>> \o Reverse(buffer)
  BY <1>1, <1>4, ReverseAppend DEF BufferInv
<1>6. (t \o digits) \o Reverse(buffer) = (t \o front) \o (<<d>> \o Reverse(buffer))
  <2> DEFINE one == <<d>>
             r == Reverse(buffer)
  <2>1. one \in Seq(Digit)
    BY <1>4
  <2>2. r \in Seq(Digit)
    BY ReverseType DEF BufferInv
  <2>3. one \in Text /\ r \in Text /\ front \in Text
    BY <2>1, <2>2, DigitsAreText
  <2>4. digits = front \o one
    BY <1>3, <1>4, AppendIsConcat
  <2> HIDE DEF one, r
  <2>5. t \o (front \o one) = (t \o front) \o one
    BY <2>3, ConcatText
  <2>6. t \o front \in Text
    BY <2>3, ConcatText
  <2>7. ((t \o front) \o one) \o r = (t \o front) \o (one \o r)
    BY <2>3, <2>6, ConcatText
  <2> QED BY <2>4, <2>5, <2>7 DEF one, r
<1>7. text' = (t \o front) \o Reverse(buffer')
  BY <1>1, <1>2, <1>5, <1>6
<1>8. Shows(t)' /\ ScreenType'
  BY <1>1, <1>2 DEF Shows, ScreenType, terminal
<1>9. IF num' = 0 THEN front = <<>> ELSE Numeral(front, num')
  BY <1>1, <1>3
<1> QED BY <1>7, <1>8, <1>9 DEF TextInv

LEMMA PutDigitKeepsText ==
  ASSUME PlaceInv, BufferInv, ScreenType, TextInv, PutDigit
  PROVE  ScreenType' /\ TextInv'
<1>1. PICK front \in Seq(Digit), d \in Digit : buffer = Append(front, d)
  BY SequenceEmptyOrAppend DEF PutDigit, BufferInv
<1>2. Front(buffer) = front /\ Last(buffer) = d
  BY <1>1, AppendEnds
<1>3. /\ num = 0 /\ num' = 0 /\ PrintChar(d) /\ buffer' = front
      /\ scrolls' = IF Scrolls(d) THEN scrolls + 1 ELSE scrolls
      /\ text' = text
  BY <1>2 DEF PutDigit
<1>4. d \in Char /\ d # Newline
  BY DigitsAreText, ScreenAssumption DEF Char
<1>5. PICK t \in Text, digits \in Seq(Digit) :
        /\ Shows(t)
        /\ text = (t \o digits) \o Reverse(buffer)
        /\ digits = <<>>
  BY <1>3 DEF TextInv
<1> DEFINE u == Append(t, d)
<1>6. u \in Text
  BY <1>4, AppendProperties DEF Text
<1>7. ScreenType' /\ Shows(u)'
  BY <1>3, <1>4, <1>5, PutShows DEF PrintChar
<1>8. text' = (u \o <<>>) \o Reverse(buffer')
  <2> DEFINE one == <<d>>
             r == Reverse(front)
  <2>1. one \in Seq(Digit)
    OBVIOUS
  <2>2. r \in Seq(Digit)
    BY ReverseType
  <2>3. one \in Text /\ r \in Text
    BY <2>1, <2>2, DigitsAreText
  <2>4. u = t \o one
    BY <1>4, AppendIsConcat DEF Text
  <2>5. Reverse(buffer) = one \o r
    BY <1>1, ReverseAppend
  <2> HIDE DEF one, r, u
  <2>6. (t \o one) \o r = t \o (one \o r)
    BY <2>3, ConcatText
  <2>7. t \o <<>> = t /\ u \o <<>> = u
    BY <1>6, ConcatEmptySeq DEF Text
  <2> QED BY <1>3, <1>5, <2>4, <2>5, <2>6, <2>7 DEF r
<1>9. <<>> \in Seq(Digit)
  OBVIOUS
<1> HIDE DEF u
<1> QED BY <1>3, <1>6, <1>7, <1>8, <1>9 DEF TextInv

LEMMA EraseKeepsText ==
  ASSUME ~EraseAfterScroll, PlaceInv, ScreenType, TextInv, Erase
  PROVE  ScreenType' /\ TextInv'
<1>1. PICK u \in Text : Shows(u) /\ text = u
  BY IdleText DEF Erase
<1>2. PICK t \in Text, c \in Char \cup {Newline} : u = Append(t, c)
  BY <1>1, SequenceEmptyOrAppend DEF Erase, Text
<1>3. text' = t
  BY <1>1, <1>2, AppendEnds DEF Erase, Text
<1>4. terminal_column = 0 => scrolls = 0
  BY DEF Erase, ScreenType
<1>5. erasef /\ scrolls' = scrolls /\ num' = 0 /\ buffer' = <<>>
  BY DEF Erase, Idle
<1>6. Shows(Append(t, c))
  BY <1>1, <1>2
<1>7. ScreenType' /\ Shows(t)'
  BY <1>4, <1>5, <1>6, EraseShows
<1> QED BY <1>3, <1>5, <1>7, TextShown

LEMMA NextText ==
  ASSUME ~NewlineAfterWrap, ~EraseAfterScroll
  PROVE  PlaceInv /\ BufferInv /\ ScreenType /\ TextInv /\ [Next]_vars
           => ScreenType' /\ TextInv'
<1> SUFFICES ASSUME PlaceInv, BufferInv, ScreenType, TextInv, [Next]_vars
             PROVE  ScreenType' /\ TextInv'
  OBVIOUS
<1>1. ASSUME NEW c \in Letters \cup {Space, Newline}, Type(c)
      PROVE  ScreenType' /\ TextInv'
  <2>1. c \in Char \cup {Newline}
    BY DEF Char
  <2> QED BY <1>1, <2>1, TypeKeepsText
<1>2. ASSUME NEW n \in 0..MaxNumber, Number(n) PROVE ScreenType' /\ TextInv'
  <2>1. CASE n = 0
    <3>1. 0 \in Char \cup {Newline}
      <4>1. 0 \in Digit
        BY NumberAssumption DEF Digit
      <4> QED BY <4>1, DigitsAreText
    <3>2. Type(0)
      BY <1>2, <2>1 DEF Number
    <3> QED BY <3>1, <3>2, TypeKeepsText
  <2>2. CASE n # 0
    <3>1. n \in 1..MaxNumber
      BY <2>2, NumberAssumption
    <3> QED BY <1>2, <3>1, NumberKeepsText
  <2> QED BY <2>1, <2>2
<1>3. CASE Divide
  BY <1>3, DivideKeepsText
<1>4. CASE PutDigit
  BY <1>4, PutDigitKeepsText
<1>5. CASE Erase
  BY <1>5, EraseKeepsText
<1>6. CASE Clear
  <2>1. ScreenType' /\ Shows(<<>>)'
    BY <1>6, ClearShows DEF Clear
  <2>2. text' = <<>> /\ num' = 0 /\ buffer' = <<>>
    BY <1>6 DEF Clear, Idle
  <2>3. <<>> \in Text
    BY DEF Text
  <2> QED BY <2>1, <2>2, <2>3, TextShown
<1>7. CASE UNCHANGED vars
  BY <1>7 DEF vars, terminal, ScreenType, TextInv, Shows
<1> QED BY <1>1, <1>2, <1>3, <1>4, <1>5, <1>6, <1>7 DEF Next
LEMMA ShownText == TextInv /\ ScreenType => ScreenShowsText
<1> SUFFICES ASSUME TextInv, ScreenType, Idle
             PROVE  /\ terminal_row + scrolls = Len(LinesOf(text)) - 1
                    /\ terminal_column = Len(Last(LinesOf(text)))
                    /\ \A y \in Row, x \in Column :
                         Looks(terminal_buffer[y][x])
                           = Looks(TextAt(LinesOf(text), y + scrolls, x))
  BY DEF ScreenShowsText
<1>1. PICK t \in Text : Shows(t) /\ text = t
  BY IdleText
<1> DEFINE L == LinesOf(t)
<1>2. /\ terminal_row + scrolls = Len(L) - 1
      /\ terminal_column = Len(Last(L))
      /\ Drawn(terminal_buffer, L, scrolls)
  BY <1>1 DEF Shows, Last
<1> HIDE DEF L
<1>3. ASSUME NEW y \in Row, NEW x \in Column
      PROVE  Looks(terminal_buffer[y][x]) = Looks(TextAt(L, y + scrolls, x))
  <2>1. IF y + scrolls < Len(L) /\ x < Len(L[y + scrolls + 1])
        THEN terminal_buffer[y][x] = L[y + scrolls + 1][x + 1]
        ELSE terminal_buffer[y][x] \in {Nul, Space}
    BY <1>2 DEF Drawn
  <2> QED BY <2>1 DEF Looks, TextAt
<1> QED BY <1>1, <1>2, <1>3 DEF L

LEMMA InitText == Init => ScreenType /\ TextInv
<1> SUFFICES ASSUME Init PROVE ScreenType /\ TextInv
  OBVIOUS
<1>1. ScreenType /\ Shows(<<>>)
  BY InitShows
<1>2. num = 0 /\ buffer = <<>> /\ text = <<>>
  BY DEF Init
<1>3. <<>> \in Text /\ <<>> \in Seq(Digit)
  BY DEF Text
<1>4. (<<>> \o <<>>) \o <<>> = <<>>
  BY <1>3, ConcatEmptySeq DEF Text
<1>5. text = (<<>> \o <<>>) \o Reverse(buffer)
  BY <1>2, <1>4, ReverseOfNone
<1> QED BY <1>1, <1>2, <1>3, <1>5 DEF TextInv

(* The screen shows the end of the text that was printed and not erased
   (terminal.c:188-276, 369-380 and 405-418), on every screen and for texts of
   every length: through wrapping, scrolling, erasing and clearing, and with
   the digits of numbers in their order.  Two things are excluded, in which the
   screen is known to differ: a newline after the last cell of the screen, and
   erasing back over the start of a line once the screen has scrolled. *)
THEOREM TextIsShown ==
  ASSUME ~NewlineAfterWrap, ~EraseAfterScroll
  PROVE  Spec => []ScreenShowsText
<1>1. Spec => []BufferInv
  BY InitBuffer, NextBuffer, PTL DEF Spec
<1>2. Spec => []PlaceInv
  BY <1>1, InitPlace, NextPlace, PTL DEF Spec
<1>3. Spec => [](ScreenType /\ TextInv)
  BY <1>1, <1>2, InitText, NextText, PTL DEF Spec
<1> QED BY <1>3, ShownText, PTL
-----------------------------------------------------------------------------
(* The rest of TypeOK. *)
SizeInv == Len(text) <= MaxText /\ cursor \in Column \X Row

LEMMA TextIsText ==
  ASSUME TextInv, BufferInv
  PROVE  /\ text \in Text
         /\ \E shown \in Text : Shows(shown) /\ Len(shown) <= Len(text)
<1>1. PICK t \in Text, digits \in Seq(Digit) :
        /\ Shows(t)
        /\ text = (t \o digits) \o Reverse(buffer)
  BY DEF TextInv
<1> DEFINE r == Reverse(buffer)
           a == t \o digits
<1>2. r \in Seq(Digit)
  BY ReverseType DEF BufferInv
<1>3. r \in Text /\ digits \in Text
  BY <1>2, DigitsAreText
<1> HIDE DEF r
<1>4. a \in Text /\ Len(a) = Len(t) + Len(digits)
  BY <1>3, ConcatText
<1> HIDE DEF a
<1>5. a \o r \in Text /\ Len(a \o r) = Len(a) + Len(r)
  BY <1>3, <1>4, ConcatText
<1>6. Len(t) \in Nat /\ Len(digits) \in Nat /\ Len(r) \in Nat
  BY <1>3 DEF Text
<1>7. text = a \o r
  BY <1>1 DEF a, r
<1>8. Len(t) <= Len(text)
  BY <1>4, <1>5, <1>6, <1>7
<1> QED BY <1>1, <1>5, <1>7, <1>8

LEMMA CursorIn ==
  ASSUME PlaceInv', cursor' = CursorAt'
  PROVE  cursor' \in Column \X Row
  BY ScreenAssumption DEF PlaceInv, OnScreen, CursorAt, Row, Column

LEMMA NextSize ==
  PlaceInv /\ PlaceInv' /\ BufferInv /\ TextInv /\ SizeInv /\ [Next]_vars => SizeInv'
<1> SUFFICES ASSUME PlaceInv, PlaceInv', BufferInv, TextInv, SizeInv, [Next]_vars
             PROVE  SizeInv'
  OBVIOUS
<1>0. text \in Text /\ Len(text) \in Nat
  BY TextIsText DEF Text
<1>1. ASSUME NEW c \in Char \cup {Newline}, Type(c) PROVE SizeInv'
  <2>1. cursor' \in Column \X Row
    BY <1>1, PrintMovesCursor, CursorIn DEF Type
  <2>2. Len(text') = Len(text) + 1
    BY <1>0, <1>1, AppendProperties DEF Type, Text
  <2> QED BY <1>0, <1>1, <2>1, <2>2, MaxTextAssumption DEF Type, SizeInv
<1>2. ASSUME NEW n \in 0..MaxNumber, Number(n) PROVE SizeInv'
  <2>1. CASE n = 0 /\ Type(0)
    <3>1. 0 \in Char \cup {Newline}
      <4>1. 0 \in Digit
        BY NumberAssumption DEF Digit
      <4> QED BY <4>1, DigitsAreText
    <3> QED BY <1>1, <2>1, <3>1
  <2>2. CASE n # 0 /\ ~(n = 0 /\ Type(0))
    <3>1. /\ Len(text) + Len(Decimal(n)) <= MaxText
          /\ text' = text \o Decimal(n) /\ cursor' = cursor
      BY <1>2, <2>2 DEF Number, terminal
    <3> DEFINE ds == Decimal(n)
    <3>2. ds \in Text
      <4>1. n \in 1..MaxNumber
        BY <2>2, NumberAssumption
      <4>2. ds \in Seq(Digit)
        BY <4>1, DecimalIsNumeral DEF Numeral
      <4> QED BY <4>2, DigitsAreText
    <3> HIDE DEF ds
    <3>3. Len(text \o ds) = Len(text) + Len(ds)
      BY <1>0, <3>2, ConcatText
    <3> QED BY <3>1, <3>3 DEF SizeInv, ds
  <2> QED BY <1>2, <2>1, <2>2 DEF Number
<1>3. CASE Divide
  BY <1>3 DEF Divide, terminal, SizeInv
<1>4. CASE PutDigit
  BY <1>4, PrintMovesCursor, CursorIn DEF PutDigit, SizeInv
<1>5. CASE Erase
  <2>1. terminal_row' \in Row /\ cursor' = <<terminal_column', terminal_row'>>
    BY <1>5, EraseMovesCursor DEF Erase
  <2>2. terminal_column' \in Column
    BY DEF PlaceInv
  <2>3. Len(text') = Len(text) - 1
    BY <1>0, <1>5, SequenceEnds DEF Erase, Text
  <2> QED BY <1>0, <2>1, <2>2, <2>3, MaxTextAssumption DEF SizeInv
<1>6. CASE Clear
  BY <1>6, MaxTextAssumption DEF Clear, terminal_initialize, SizeInv
<1>7. CASE UNCHANGED vars
  BY <1>7 DEF vars, terminal, SizeInv
<1> QED BY <1>1, <1>2, <1>3, <1>4, <1>5, <1>6, <1>7 DEF Next, Char

LEMMA TypeFollows ==
  ASSUME PlaceInv, BufferInv, ScreenType, TextInv, SizeInv
  PROVE  TypeOK
<1>1. TerminalType
  <2>1. Row \subseteq 0..(MaxRow + 1) /\ Height \in 0..(MaxRow + 1)
    BY ScreenAssumption DEF Row, MaxRow
  <2> QED BY <2>1 DEF TerminalType, PlaceInv, OnScreen, ScreenType, Screens, SizeInv
<1>2. text \in Seq(Letters \cup {Space, Newline})
  <2>1. Char \cup {Newline} = Letters \cup {Space, Newline}
    BY DEF Char
  <2> QED BY <2>1, TextIsText DEF Text
<1>3. scrolls \in 0..MaxText
  <2>1. PICK t \in Text : Shows(t) /\ Len(t) <= Len(text)
    BY TextIsText
  <2>2. Len(LinesOf(t)) <= Len(t) + 1 /\ Len(LinesOf(t)) \in Nat
    BY LinesOfLength, LinesOfType, OpenLinesFacts
  <2>3. terminal_row + scrolls = Len(LinesOf(t)) - 1 /\ terminal_row \in Nat /\ scrolls \in Nat
    BY <2>1, ScreenAssumption DEF Shows, PlaceInv, OnScreen, Row, ScreenType
  <2>4. Len(t) \in Nat /\ Len(text) \in Nat
    BY TextIsText DEF Text
  <2> QED BY <2>1, <2>2, <2>3, <2>4, MaxTextAssumption DEF SizeInv
<1> QED BY <1>1, <1>2, <1>3 DEF TypeOK, SizeInv, BufferInv

(* Type correctness: characters and numbers stay what they are, the next one
   has a place, and the screen moves up no more often than characters were
   printed. *)
THEOREM TypeCorrect ==
  ASSUME ~NewlineAfterWrap, ~EraseAfterScroll
  PROVE  Spec => []TypeOK
<1>1. Init => SizeInv
  BY ScreenAssumption, MaxTextAssumption DEF Init, TerminalInit, SizeInv
<1>2. Spec => []BufferInv
  BY InitBuffer, NextBuffer, PTL DEF Spec
<1>3. Spec => []PlaceInv
  BY <1>2, InitPlace, NextPlace, PTL DEF Spec
<1>4. Spec => [](ScreenType /\ TextInv)
  BY <1>2, <1>3, InitText, NextText, PTL DEF Spec
<1>5. Spec => []SizeInv
  BY <1>1, <1>2, <1>3, <1>4, NextSize, PTL DEF Spec
<1> QED BY <1>2, <1>3, <1>4, <1>5, TypeFollows, PTL
=============================================================================
