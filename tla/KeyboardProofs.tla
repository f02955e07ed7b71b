--------------------------- MODULE KeyboardProofs ---------------------------
(***************************************************************************)
(* What is printed of a command holds what was recorded of it, which       *)
(* command runs, and what echo prints: for every keyboard, every size of   *)
(* the buffer and all commands.                                            *)
(***************************************************************************)
EXTENDS Keyboard, Induction, SequenceTheorems

Recordable == Char \cup {Nul}

Shown == Char \cup {Space, Notice}

(* The part of the type that the proof needs. *)
BufferType ==
  /\ command_buffer \in [0..Size -> Recordable]
  /\ command_buffer_index \in 0..Size
  /\ line \in Seq(Shown)
  /\ disturbed \in BOOLEAN

(* kernel_main is done when the line that LineShowsBuffer is about begins, and
   keys are recorded from the shell on. *)
DataPhase ==
  /\ prompted => pc = "idle"
  /\ pc \in {"shell", "idle"} => current_io_state = "stdin_command"

LineInv == BufferType /\ DataPhase /\ LineShowsBuffer
-----------------------------------------------------------------------------
LEMMA SizeType == Size \in Nat /\ Size > 0
  BY ShellAssumption

(* The two decisions on what a key stands for agree. *)
LEMMA ShownIsRecorded ==
  ASSUME NEW key
  PROVE  process_stdin_common(key) = Recorded(key)
  BY DEF process_stdin_common, Recorded

LEMMA RecordedType ==
  ASSUME NEW key \in PrintableKeys \ {Backspace}
  PROVE  Recorded(key) \in Char
<1>1. CASE key = Enter
  BY <1>1 DEF Recorded, Char
<1>2. CASE key # Enter
  <2>1. key \in LetterKeys \cup OtherKeys
    BY <1>2 DEF PrintableKeys
  <2>2. Up[key] \in Char /\ Down[key] \in Char
    BY <2>1 DEF Char
  <2> QED BY <1>2, <2>2 DEF Recorded
<1> QED BY <1>1, <1>2

LEMMA TypedIsSeq ==
  ASSUME BufferType
  PROVE  /\ Typed \in Seq(Recordable)
         /\ Len(Typed) = command_buffer_index
         /\ \A i \in 1..command_buffer_index : Typed[i] = command_buffer[i - 1]
<1>1. command_buffer_index \in Nat /\ command_buffer_index <= Size
  BY SizeType DEF BufferType
<1>2. \A i \in 1..command_buffer_index : command_buffer[i - 1] \in Recordable
  BY <1>1, SizeType DEF BufferType
<1>3. Typed \in [1..command_buffer_index -> Recordable]
  BY <1>2 DEF Typed
<1> QED BY <1>1, <1>3 DEF Typed

-----------------------------------------------------------------------------
(***************************************************************************)
(* One sequence in another.                                                *)
(***************************************************************************)
LEMMA EmbeddedSelf ==
  ASSUME NEW S, NEW s \in Seq(S)
  PROVE  Embedded(s, s)
<1> DEFINE place == [i \in 1..Len(s) |-> i]
<1>1. place \in [1..Len(s) -> 1..Len(s)]
  OBVIOUS
<1>2. \A i \in 1..Len(s) : s[place[i]] = s[i]
  OBVIOUS
<1>3. \A i, k \in 1..Len(s) : i < k => place[i] < place[k]
  OBVIOUS
<1> HIDE DEF place
<1> QED BY <1>1, <1>2, <1>3 DEF Embedded

(* More at the end of the longer sequence. *)
LEMMA EmbeddedInMore ==
  ASSUME NEW S, NEW s \in Seq(S), NEW t \in Seq(S), NEW u \in Seq(S), Embedded(s, t)
  PROVE  Embedded(s, t \o u)
<1>1. PICK place \in [1..Len(s) -> 1..Len(t)] :
        /\ \A i \in 1..Len(s) : t[place[i]] = s[i]
        /\ \A i, k \in 1..Len(s) : i < k => place[i] < place[k]
  BY DEF Embedded
<1>2. 1..Len(t) \subseteq 1..Len(t \o u)
  OBVIOUS
<1>3. \A j \in 1..Len(t) : (t \o u)[j] = t[j]
  OBVIOUS
<1>4. place \in [1..Len(s) -> 1..Len(t \o u)]
  BY <1>2
<1>5. \A i \in 1..Len(s) : (t \o u)[place[i]] = s[i]
  BY <1>1, <1>3
<1> QED BY <1>1, <1>4, <1>5 DEF Embedded

(* The same character more at the end of both. *)
LEMMA EmbeddedAppend ==
  ASSUME NEW S, NEW s \in Seq(S), NEW t \in Seq(S), NEW c \in S, Embedded(s, t)
  PROVE  Embedded(Append(s, c), Append(t, c))
<1> DEFINE n == Len(s)
           m == Len(t)
<1>1. PICK place \in [1..n -> 1..m] :
        /\ \A i \in 1..n : t[place[i]] = s[i]
        /\ \A i, k \in 1..n : i < k => place[i] < place[k]
  BY DEF Embedded
<1>2. /\ n \in Nat /\ m \in Nat
      /\ Len(Append(s, c)) = n + 1 /\ Len(Append(t, c)) = m + 1
      /\ \A i \in 1..n : Append(s, c)[i] = s[i]
      /\ \A i \in 1..m : Append(t, c)[i] = t[i]
      /\ Append(s, c)[n + 1] = c /\ Append(t, c)[m + 1] = c
  BY AppendProperties
<1> DEFINE further == [i \in 1..(n + 1) |-> IF i = n + 1 THEN m + 1 ELSE place[i]]
<1> HIDE DEF n, m
<1>3. \A i \in 1..n : place[i] \in 1..m /\ further[i] = place[i]
  BY <1>2
<1>4. further[n + 1] = m + 1
  BY <1>2
<1>5. further \in [1..(n + 1) -> 1..(m + 1)]
  BY <1>2, <1>3
<1> HIDE DEF further
<1>6. \A i \in 1..(n + 1) : Append(t, c)[further[i]] = Append(s, c)[i]
  <2> SUFFICES ASSUME NEW i \in 1..(n + 1)
               PROVE  Append(t, c)[further[i]] = Append(s, c)[i]
    OBVIOUS
  <2>1. CASE i = n + 1
    BY <1>2, <1>4, <2>1
  <2>2. CASE i # n + 1
    <3>1. i \in 1..n
      BY <1>2, <2>2
    <3> QED BY <1>1, <1>2, <1>3, <3>1
  <2> QED BY <2>1, <2>2
<1>7. \A i, k \in 1..(n + 1) : i < k => further[i] < further[k]
  <2> SUFFICES ASSUME NEW i \in 1..(n + 1), NEW k \in 1..(n + 1), i < k
               PROVE  further[i] < further[k]
    OBVIOUS
  <2>1. i \in 1..n
    BY <1>2
  <2>2. CASE k = n + 1
    BY <1>2, <1>3, <1>4, <2>1, <2>2
  <2>3. CASE k # n + 1
    <3>1. k \in 1..n
      BY <1>2, <2>3
    <3> QED BY <1>1, <1>3, <2>1, <3>1
  <2> QED BY <2>2, <2>3
<1> QED BY <1>2, <1>5, <1>6, <1>7 DEF Embedded

LEMMA FrontIs ==
  ASSUME NEW S, NEW s \in Seq(S), s # <<>>
  PROVE  /\ Len(s) \in Nat \ {0} /\ Front(s) \in Seq(S)
         /\ Len(Front(s)) = Len(s) - 1
         /\ \A i \in 1..(Len(s) - 1) : Front(s)[i] = s[i]
<1>1. Len(s) \in Nat \ {0}
  BY EmptySeq
<1> DEFINE f == SubSeq(s, 1, Len(s) - 1)
<1>2. f \in Seq(S)
  BY <1>1
<1>3. f = [i \in 1..(Len(s) - 1) |-> s[i]]
  BY <1>1
<1>4. Front(s) = f
  BY DEF Front
<1> HIDE DEF f
<1>5. Len(f) = Len(s) - 1 /\ \A i \in 1..(Len(s) - 1) : f[i] = s[i]
  BY <1>1, <1>2, <1>3
<1> QED BY <1>1, <1>2, <1>4, <1>5

(* A character less at the end of the shorter one, and then of both. *)
LEMMA EmbeddedLess ==
  ASSUME NEW S, NEW s \in Seq(S), NEW t \in Seq(S), Embedded(s, t), s # <<>>
  PROVE  /\ t # <<>>
         /\ Embedded(Front(s), t)
         /\ Embedded(Front(s), Front(t))
<1> DEFINE n == Len(s)
           m == Len(t)
<1>1. PICK place \in [1..n -> 1..m] :
        /\ \A i \in 1..n : t[place[i]] = s[i]
        /\ \A i, k \in 1..n : i < k => place[i] < place[k]
  BY DEF Embedded
<1>2. n \in Nat /\ n > 0 /\ m \in Nat
  BY EmptySeq
<1>3. place[n] \in 1..m
  BY <1>2
<1>4. m > 0 /\ t # <<>>
  BY <1>2, <1>3
<1>5. /\ Len(Front(s)) = n - 1 /\ \A i \in 1..(n - 1) : Front(s)[i] = s[i]
      /\ Len(Front(t)) = m - 1 /\ \A i \in 1..(m - 1) : Front(t)[i] = t[i]
  BY <1>4, FrontIs
<1> DEFINE some == [i \in 1..(n - 1) |-> place[i]]
<1> HIDE DEF n, m
<1>6. \A i \in 1..(n - 1) : some[i] = place[i] /\ place[i] \in 1..(m - 1) /\ i \in 1..n
  <2> SUFFICES ASSUME NEW i \in 1..(n - 1) PROVE place[i] \in 1..(m - 1) /\ i \in 1..n
    OBVIOUS
  <2>1. i \in 1..n /\ n \in 1..n /\ i < n
    BY <1>2
  <2>2. place[i] < place[n] /\ place[i] \in 1..m
    BY <1>1, <2>1
  <2> QED BY <1>2, <1>3, <2>1, <2>2
<1>7. some \in [1..(n - 1) -> 1..(m - 1)]
  BY <1>6
<1>8. 1..(m - 1) \subseteq 1..m
  BY <1>2
<1>9. some \in [1..(n - 1) -> 1..m]
  BY <1>6, <1>8
<1> HIDE DEF some
<1>10. \A i, k \in 1..(n - 1) : i < k => some[i] < some[k]
  BY <1>1, <1>6
<1>11. \A i \in 1..(n - 1) : t[some[i]] = Front(s)[i] /\ Front(t)[some[i]] = Front(s)[i]
  BY <1>1, <1>5, <1>6
<1>12. Embedded(Front(s), t)
  BY <1>5, <1>9, <1>10, <1>11 DEF Embedded, m
<1>13. Embedded(Front(s), Front(t))
  BY <1>5, <1>7, <1>10, <1>11 DEF Embedded
<1> QED BY <1>4, <1>12, <1>13
-----------------------------------------------------------------------------
(* What was typed and what was printed, as sequences over one set. *)
Symbol == Recordable \cup Shown

LEMMA LineAndTyped ==
  ASSUME BufferType
  PROVE  Typed \in Seq(Symbol) /\ line \in Seq(Symbol)
<1>1. Typed \in Seq(Recordable) /\ line \in Seq(Shown)
  BY TypedIsSeq DEF BufferType
<1>2. Recordable \subseteq Symbol /\ Shown \subseteq Symbol
  BY DEF Symbol
<1> QED BY <1>1, <1>2

(* Disturbed or not, the line holds what was recorded. *)
LEMMA LineHoldsTyped ==
  ASSUME LineInv, prompted
  PROVE  Embedded(Typed, line)
<1>1. CASE disturbed
  BY <1>1 DEF LineInv, LineShowsBuffer
<1>2. CASE ~disturbed
  <2>1. line = Typed /\ Typed \in Seq(Symbol)
    BY <1>2, LineAndTyped DEF LineInv, LineShowsBuffer
  <2> QED BY <2>1, EmbeddedSelf
<1> QED BY <1>1, <1>2

LEMMA TypedGrows ==
  ASSUME BufferType, NEW c \in Recordable, command_buffer_index # Size,
         command_buffer' = [command_buffer EXCEPT ![command_buffer_index] = c],
         command_buffer_index' = command_buffer_index + 1
  PROVE  Typed' = Append(Typed, c)
<1> DEFINE n == command_buffer_index
<1>1. n \in Nat /\ n + 1 <= Size /\ n \in 0..Size
  BY SizeType DEF BufferType
<1>2. /\ Typed \in Seq(Recordable) /\ Len(Typed) = n
      /\ \A i \in 1..n : Typed[i] = command_buffer[i - 1]
  BY TypedIsSeq
<1> DEFINE more == Append(Typed, c)
<1>3. /\ more \in Seq(Recordable) /\ Len(more) = n + 1
      /\ \A i \in 1..n : more[i] = Typed[i]
      /\ more[n + 1] = c
  BY <1>2, AppendProperties
<1>4. Typed' = [i \in 1..(n + 1) |-> command_buffer'[i - 1]]
  BY DEF Typed
<1> HIDE DEF more
<1>5. \A i \in 1..(n + 1) : more[i] = command_buffer'[i - 1]
  BY <1>1, <1>2, <1>3 DEF BufferType
<1>6. more = [i \in 1..(n + 1) |-> more[i]]
  BY <1>3
<1> QED BY <1>4, <1>5, <1>6 DEF more

LEMMA TypedShrinks ==
  ASSUME BufferType, command_buffer_index # 0,
         command_buffer' = [command_buffer EXCEPT ![command_buffer_index] = Nul],
         command_buffer_index' = command_buffer_index - 1
  PROVE  Typed # <<>> /\ Typed' = Front(Typed)
<1> DEFINE n == command_buffer_index
<1>1. n \in Nat /\ n > 0 /\ n <= Size
  BY SizeType DEF BufferType
<1>2. /\ Typed \in Seq(Recordable) /\ Len(Typed) = n
      /\ \A i \in 1..n : Typed[i] = command_buffer[i - 1]
  BY TypedIsSeq
<1>3. Front(Typed) = [i \in 1..(n - 1) |-> Typed[i]]
  BY <1>1, <1>2 DEF Front
<1>4. Typed' = [i \in 1..(n - 1) |-> command_buffer'[i - 1]]
  BY DEF Typed
<1>5. \A i \in 1..(n - 1) : Typed[i] = command_buffer'[i - 1]
  BY <1>1, <1>2 DEF BufferType
<1> QED BY <1>1, <1>2, <1>3, <1>4, <1>5

(* A character more in the line and in the buffer. *)
LEMMA RecordKeepsLine ==
  ASSUME LineInv, NEW key \in PrintableKeys \ {Backspace},
         RecordOne(key), command_buffer_index # Size
  PROVE  BufferType' /\ LineShowsBuffer'
<1> DEFINE n == command_buffer_index
           c == Recorded(key)
<1>1. n \in Nat /\ n + 1 <= Size /\ BufferType
  BY SizeType DEF LineInv, BufferType
<1>2. c \in Recordable /\ c \in Shown /\ c \in Symbol
  BY RecordedType DEF Recordable, Shown, Symbol
<1>3. /\ command_buffer' = [command_buffer EXCEPT ![n] = c]
      /\ command_buffer_index' = n + 1
      /\ line' = Append(line, c)
      /\ prompted' = prompted /\ disturbed' = disturbed
  BY ShownIsRecorded DEF RecordOne
<1> HIDE DEF c
<1>4. BufferType'
  <2>1. line' \in Seq(Shown)
    BY <1>1, <1>2, <1>3, AppendProperties DEF BufferType
  <2> QED BY <1>1, <1>2, <1>3, <2>1, SizeType DEF BufferType
<1>5. Typed' = Append(Typed, c)
  BY <1>1, <1>2, <1>3, TypedGrows DEF LineInv
<1>6. ASSUME prompted PROVE IF disturbed THEN Embedded(Typed', line') ELSE line' = Typed'
  <2>1. CASE disturbed
    <3>1. Typed \in Seq(Symbol) /\ line \in Seq(Symbol) /\ Embedded(Typed, line)
      BY <1>1, <1>6, LineAndTyped, LineHoldsTyped
    <3>2. Embedded(Append(Typed, c), Append(line, c))
      BY <1>2, <3>1, EmbeddedAppend
    <3> QED BY <1>3, <1>5, <2>1, <3>2
  <2>2. CASE ~disturbed
    BY <1>3, <1>5, <1>6, <2>2 DEF LineInv, LineShowsBuffer
  <2> QED BY <2>1, <2>2
<1> QED BY <1>3, <1>4, <1>6 DEF LineShowsBuffer

(* What erasef leaves: nothing less than the text without its end. *)
LEMMA ErasedShape ==
  ASSUME NEW text \in Seq(Shown), NEW t \in erasef(text)
  PROVE  /\ t \in Seq(Shown)
         /\ \/ t = text
            \/ text # <<>> /\ t = Front(text)
            \/ text # <<>> /\ \E b \in Seq(Shown) : t = Front(text) \o b
<1>1. CASE t = text
  BY <1>1
<1>2. ASSUME text # <<>> PROVE Front(text) \in Seq(Shown)
  BY <1>2, FrontIs
<1>3. CASE t \in {u \in {Front(text)} : text # <<>>}
  BY <1>2, <1>3
<1>4. CASE t \in {Front(text) \o b :
                    b \in {k \in Blanks : text # <<>> /\ Last(text) = Newline}}
  <2>1. PICK b \in Blanks : text # <<>> /\ t = Front(text) \o b
    BY <1>4
  <2>2. PICK k \in 0..(Width - 1) : b = [i \in 1..k |-> Space]
    BY DEF Blanks
  <2>3. b \in Seq(Shown)
    <3>1. k \in Nat
      BY KeysAssumption
    <3> QED BY <2>2, <3>1 DEF Shown
  <2>4. t \in Seq(Shown)
    BY <1>2, <2>1, <2>3, ConcatProperties
  <2> QED BY <2>1, <2>3, <2>4
<1> QED BY <1>1, <1>3, <1>4 DEF erasef

(* A character less in the buffer, and at most one less in the line. *)
LEMMA DeleteKeepsLine ==
  ASSUME LineInv, DeleteOne
  PROVE  BufferType' /\ LineShowsBuffer'
<1> DEFINE n == command_buffer_index
<1>1. n \in Nat /\ n > 0 /\ n <= Size /\ BufferType
  BY SizeType DEF LineInv, BufferType, DeleteOne
<1>2. /\ command_buffer' = [command_buffer EXCEPT ![n] = Nul]
      /\ command_buffer_index' = n - 1
      /\ line' \in erasef(line)
      /\ disturbed' = (disturbed \/ line' # Front(line))
      /\ prompted' = prompted
  BY DEF DeleteOne, Erase
<1>3. /\ line \in Seq(Shown) /\ line' \in Seq(Shown)
      /\ \/ line' = line
         \/ line # <<>> /\ line' = Front(line)
         \/ line # <<>> /\ \E b \in Seq(Shown) : line' = Front(line) \o b
  <2>1. line \in Seq(Shown)
    BY <1>1 DEF BufferType
  <2> QED BY <1>2, <2>1, ErasedShape
<1>4. BufferType'
  <2>1. disturbed' \in BOOLEAN
    BY <1>2
  <2> QED BY <1>1, <1>2, <1>3, <2>1, SizeType DEF BufferType, Recordable
<1>5. Typed # <<>> /\ Typed' = Front(Typed)
  BY <1>1, <1>2, TypedShrinks
<1>6. ASSUME prompted, disturbed' PROVE Embedded(Front(Typed), line')
  <2>1. Typed \in Seq(Symbol) /\ line \in Seq(Symbol) /\ Embedded(Typed, line)
    BY <1>1, <1>6, LineAndTyped, LineHoldsTyped
  <2>2. /\ Embedded(Front(Typed), line)
        /\ Embedded(Front(Typed), Front(line))
        /\ line # <<>>
    BY <1>5, <2>1, EmbeddedLess
  <2>3. ASSUME NEW b \in Seq(Shown), line' = Front(line) \o b
        PROVE  Embedded(Front(Typed), line')
    <3>1. Front(Typed) \in Seq(Symbol) /\ Front(line) \in Seq(Symbol) /\ b \in Seq(Symbol)
      BY <1>5, <2>1, <2>2, FrontIs DEF Symbol
    <3> QED BY <2>2, <2>3, <3>1, EmbeddedInMore
  <2> QED BY <1>3, <2>2, <2>3
<1>7. ASSUME prompted, ~disturbed' PROVE line' = Front(Typed)
  BY <1>2, <1>7 DEF LineInv, LineShowsBuffer
<1> QED BY <1>2, <1>4, <1>5, <1>6, <1>7 DEF LineShowsBuffer

(* The buffer stays as it is, and nothing of it is typed. *)
LEMMA EndKeepsLine ==
  ASSUME LineInv, end_of_command
  PROVE  BufferType' /\ LineShowsBuffer'
<1>1. /\ command_buffer' = command_buffer
      /\ command_buffer_index' = 0
      /\ line' = <<>> /\ disturbed' = FALSE
  BY DEF end_of_command
<1>2. BufferType'
  <2>1. <<>> \in Seq(Shown)
    OBVIOUS
  <2> QED BY <1>1, <2>1, SizeType DEF LineInv, BufferType
<1>3. Typed' = <<>>
  BY <1>1 DEF Typed
<1> QED BY <1>1, <1>2, <1>3 DEF LineShowsBuffer

(* A notice of the kernel more in the line. *)
LEMMA NoticeKeepsLine ==
  ASSUME LineInv, irq_handler
  PROVE  BufferType' /\ LineShowsBuffer'
<1> DEFINE u == <<Notice, Newline>>
<1>1. /\ line' = line \o u /\ disturbed' = TRUE /\ prompted' = prompted
      /\ UNCHANGED <<command_buffer, command_buffer_index>>
  BY DEF irq_handler
<1>2. u \in Seq(Shown) /\ u \in Seq(Symbol)
  BY DEF Shown, Char, Symbol
<1> HIDE DEF u
<1>3. BufferType'
  <2>1. line' \in Seq(Shown)
    BY <1>1, <1>2, ConcatProperties DEF LineInv, BufferType
  <2> QED BY <1>1, <2>1 DEF LineInv, BufferType
<1>4. ASSUME prompted PROVE Embedded(Typed, line \o u)
  <2>1. Typed \in Seq(Symbol) /\ line \in Seq(Symbol) /\ Embedded(Typed, line)
    BY <1>4, LineAndTyped, LineHoldsTyped DEF LineInv
  <2> QED BY <1>2, <2>1, EmbeddedInMore
<1>5. Typed' = Typed
  BY <1>1 DEF Typed
<1> QED BY <1>1, <1>3, <1>4, <1>5 DEF LineShowsBuffer
-----------------------------------------------------------------------------
LEMMA InitLine == Init => LineInv
<1> SUFFICES ASSUME Init PROVE LineInv
  OBVIOUS
<1>1. BufferType
  <2>1. <<>> \in Seq(Shown)
    OBVIOUS
  <2> QED BY <2>1, SizeType DEF Init, BufferType, Recordable
<1> QED BY <1>1 DEF Init, LineInv, DataPhase, LineShowsBuffer

LEMMA KeyKeepsLine ==
  ASSUME LineInv, NEW key \in PrintableKeys, process_printable_key(key)
  PROVE  LineInv'
<1>0. pc' = pc
  BY DEF process_printable_key
<1>1. CASE process_stdin_data(key) /\ current_io_state = "stdin_data"
  <2>1. /\ ~prompted /\ prompted' = prompted /\ current_io_state' = current_io_state
        /\ UNCHANGED <<command_buffer, command_buffer_index>>
    BY <1>1 DEF process_stdin_data, LineInv, DataPhase
  <2>2. line' \in Seq(Shown) /\ disturbed' \in BOOLEAN
    <3>1. line \in Seq(Shown) /\ disturbed \in BOOLEAN
      BY DEF LineInv, BufferType
    <3>2. CASE Erase
      BY <3>1, <3>2, ErasedShape DEF Erase
    <3>3. CASE /\ key # Backspace /\ UNCHANGED disturbed
               /\ line' = Append(line, process_stdin_common(key))
      <4>1. process_stdin_common(key) \in Shown
        BY <3>3, RecordedType, ShownIsRecorded DEF Shown
      <4> QED BY <3>1, <3>3, <4>1, AppendProperties
    <3> QED BY <1>1, <3>2, <3>3 DEF process_stdin_data
  <2> QED BY <1>0, <2>1, <2>2 DEF LineInv, BufferType, DataPhase, LineShowsBuffer
<1>2. CASE process_stdin_command(key) /\ current_io_state = "stdin_command"
  <2>1. BufferType' /\ LineShowsBuffer'
    BY <1>2, RecordKeepsLine, DeleteKeepsLine, EndKeepsLine DEF process_stdin_command
  <2>2. current_io_state' = "stdin_command"
    BY <1>2 DEF process_stdin_command, DeleteOne, RecordOne, end_of_command
  <2>3. prompted' => pc = "idle"
    <3>1. CASE DeleteOne \/ RecordOne(key)
      BY <3>1 DEF DeleteOne, RecordOne, LineInv, DataPhase
    <3>2. CASE end_of_command
      BY <3>2, Zenon DEF end_of_command
    <3> QED BY <1>2, <3>1, <3>2 DEF process_stdin_command
  <2>4. DataPhase'
    BY <1>0, <2>2, <2>3 DEF LineInv, DataPhase
  <2> QED BY <2>1, <2>4 DEF LineInv
<1> QED BY <1>1, <1>2 DEF process_printable_key

(* kernel_main changes the line only before the lines that matter. *)
LEMMA MainKeepsLine ==
  ASSUME LineInv, kernel_main
  PROVE  LineInv'
<1>1. UNCHANGED <<command_buffer, command_buffer_index, prompted, disturbed>>
  BY DEF kernel_main, EnterMain, MainPrints, ShowPrompt, StartShell, EndMain
<1>2. pc # "idle" /\ ~prompted
  BY DEF kernel_main, EnterMain, MainPrints, ShowPrompt, StartShell, EndMain, LineInv, DataPhase
<1>3. line' \in Seq(Shown)
  <2>1. line \in Seq(Shown) /\ <<>> \in Seq(Shown) /\ Notice \in Shown
    BY DEF LineInv, BufferType, Shown
  <2>2. Append(line, Notice) \in Seq(Shown)
    BY <2>1, AppendProperties
  <2> QED BY <2>1, <2>2 DEF kernel_main, EnterMain, MainPrints, ShowPrompt, StartShell, EndMain
<1>4. DataPhase'
  BY <1>1, <1>2
  DEF kernel_main, EnterMain, MainPrints, ShowPrompt, StartShell, EndMain, LineInv, DataPhase
<1> QED BY <1>1, <1>2, <1>3, <1>4 DEF LineInv, BufferType, LineShowsBuffer

LEMMA NextLine == LineInv /\ [Next]_vars => LineInv'
<1> SUFFICES ASSUME LineInv, [Next]_vars PROVE LineInv'
  OBVIOUS
<1>1. ASSUME NEW key \in PrintableKeys, process_printable_key(key) PROVE LineInv'
  BY <1>1, KeyKeepsLine
<1>2. ASSUME UNCHANGED <<pc, current_io_state, command_buffer, command_buffer_index,
                         line, prompted, disturbed>>
      PROVE  LineInv'
  BY <1>2 DEF LineInv, BufferType, DataPhase, LineShowsBuffer, Typed
<1>3. CASE Shift \/ CapsLock
  BY <1>2, <1>3 DEF Shift, CapsLock
<1>4. CASE kernel_main
  BY <1>4, MainKeepsLine
<1>5. CASE irq_handler
  <2>1. UNCHANGED <<pc, current_io_state, prompted>>
    BY <1>5 DEF irq_handler
  <2> QED BY <1>5, <2>1, NoticeKeepsLine DEF LineInv, DataPhase
<1>6. CASE UNCHANGED vars
  BY <1>2, <1>6 DEF vars
<1> QED BY <1>1, <1>3, <1>4, <1>5, <1>6 DEF Next, process_key

(* Once kernel_main is done, the line that was printed since a prompt holds
   everything that is recorded of the command, although what is printed and
   what is recorded are decided apart (keyboard_driver.c:166-204 and 259-294),
   a backspace clears the wrong place of the buffer, handlers print into the
   line and erasef may leave what it was to erase; and without these last two
   it is exactly what is recorded. *)
THEOREM LineIsRecorded == Spec => []LineShowsBuffer
<1>1. LineInv => LineShowsBuffer
  BY DEF LineInv
<1> QED BY InitLine, NextLine, <1>1, PTL DEF Spec
-----------------------------------------------------------------------------
(* A word that was typed is one that strcmp finds in the buffer. *)
LEMMA TypedWordIsFound ==
  ASSUME LineInv, NEW w \in Seq(Char), IsPrefix(w, Typed)
  PROVE  strcmp(command_buffer, w)
<1>1. /\ Typed \in Seq(Recordable) /\ Len(Typed) = command_buffer_index
      /\ \A i \in 1..command_buffer_index : Typed[i] = command_buffer[i - 1]
  BY TypedIsSeq DEF LineInv
<1>2. /\ Len(w) \in Nat /\ Len(w) <= Len(Typed)
      /\ SubSeq(w, 1, Len(w)) = SubSeq(Typed, 1, Len(w))
  BY DEF IsPrefix
<1>3. \A i \in 1..Len(w) : SubSeq(w, 1, Len(w))[i] = w[i]
  BY <1>2
<1>4. \A i \in 1..Len(w) : SubSeq(Typed, 1, Len(w))[i] = Typed[i]
  BY <1>1, <1>2
<1> QED BY <1>1, <1>2, <1>3, <1>4 DEF strcmp, LineInv, BufferType

(* No buffer begins with two words of the interpreter. *)
LEMMA OneWordIsFound ==
  ASSUME NEW v \in Seq(Char), NEW w \in Seq(Char), Differ(v, w),
         strcmp(command_buffer, v)
  PROVE  ~strcmp(command_buffer, w)
BY DEF Differ, strcmp

(* Which command runs is decided by the word that was typed. *)
LEMMA TypedWordDecides ==
  ASSUME LineInv, NEW bounded \in BOOLEAN,
         NEW w \in Words, IsPrefix(w[1], Typed)
  PROVE  execute_command(command_buffer, bounded).command = w[2]
<1>1. EchoWord \in Seq(Char) /\ ClearWord \in Seq(Char) /\ HelpWord \in Seq(Char)
  BY KeysAssumption
<1>2. CASE w = <<EchoWord, "echo">>
  <2>1. strcmp(command_buffer, EchoWord)
    BY <1>1, <1>2, TypedWordIsFound
  <2> QED BY <1>2, <2>1 DEF execute_command
<1>3. CASE w = <<ClearWord, "clear">>
  <2>1. strcmp(command_buffer, ClearWord)
    BY <1>1, <1>3, TypedWordIsFound
  <2>2. ~strcmp(command_buffer, EchoWord)
    BY <1>1, <2>1, OneWordIsFound, ShellAssumption DEF Differ
  <2> QED BY <1>3, <2>1, <2>2 DEF execute_command
<1>4. CASE w = <<HelpWord, "help">>
  <2>1. strcmp(command_buffer, HelpWord)
    BY <1>1, <1>4, TypedWordIsFound
  <2>2. ~strcmp(command_buffer, EchoWord) /\ ~strcmp(command_buffer, ClearWord)
    BY <1>1, <2>1, OneWordIsFound, ShellAssumption
  <2> QED BY <1>4, <2>1, <2>2 DEF execute_command
<1> QED BY <1>2, <1>3, <1>4 DEF Words

(* Only the end of a command runs anything. *)
LEMMA OnlyEndRuns ==
  ASSUME Next, ran' # NoRun
  PROVE  \E bounded \in BOOLEAN : ran' = execute_command(command_buffer, bounded)
BY DEF Next, process_key, kernel_main, process_printable_key, process_stdin_data,
       process_stdin_command, DeleteOne, RecordOne, end_of_command, Shift, CapsLock,
       EnterMain, MainPrints, ShowPrompt, StartShell, EndMain, irq_handler

(* A command whose word was typed is the one that runs: what earlier commands
   and backspaces left behind it in the buffer, which the interpreter is given
   whole (interpreter.c:38-56), decides nothing. *)
THEOREM TypedWordsRun == Spec => TypedWordRuns
<1>1. ASSUME LineInv, [Next]_vars
      PROVE  [ran' # NoRun =>
                \A w \in Words : IsPrefix(w[1], Typed) => ran'.command = w[2]]_vars
  <2>1. CASE Next
    <3> SUFFICES ASSUME ran' # NoRun, NEW w \in Words, IsPrefix(w[1], Typed)
                 PROVE  ran'.command = w[2]
      OBVIOUS
    <3>1. PICK bounded \in BOOLEAN : ran' = execute_command(command_buffer, bounded)
      BY <2>1, OnlyEndRuns
    <3> QED BY <1>1, <3>1, TypedWordDecides
  <2>2. CASE UNCHANGED vars
    BY <2>2
  <2> QED BY <1>1, <2>1, <2>2
<1> QED BY <1>1, InitLine, NextLine, PTL DEF Spec, TypedWordRuns
-----------------------------------------------------------------------------
(***************************************************************************)
(* What echo prints.                                                       *)
(***************************************************************************)
Room == Size - ArgStart

LEMMA ArgTypes ==
  /\ ArgStart \in Nat /\ Size \in Nat /\ ArgStart <= Size
  /\ Room \in Nat
  BY ShellAssumption DEF Room

LEMMA PutType ==
  ASSUME NEW s \in Seq(Char), NEW c \in Recordable
  PROVE  Put(s, c) \in Seq(Char)
<1>1. CASE c \in {Nul, Percent}
  BY <1>1 DEF Put
<1>2. CASE c \notin {Nul, Percent}
  <2>1. c \in Char
    BY <1>2 DEF Recordable
  <2> QED BY <1>2, <2>1, AppendProperties DEF Put
<1> QED BY <1>1, <1>2

(* The loop's equations: the recursive function that Printed is exists. *)
LEMMA PrintedSteps ==
  ASSUME NEW buffer, \A i \in 0..Size : buffer[i] \in Recordable
  PROVE  /\ Printed(buffer)[0] = <<>>
         /\ \A n \in 1..Room :
              Printed(buffer)[n] = Put(Printed(buffer)[n - 1], buffer[ArgStart + n - 1])
         /\ \A n \in 0..Room : Printed(buffer)[n] \in Seq(Char)
<1> DEFINE Body(f) == [n \in 0..Room |-> IF n = 0 THEN <<>>
                                      ELSE Put(f[n - 1], buffer[ArgStart + n - 1])]
           step == [q \in Seq(Char) \X (1..Room) |-> Put(q[1], buffer[ArgStart + q[2] - 1])]
           p == Printed(buffer)
<1>1. \A n \in 1..Room : buffer[ArgStart + n - 1] \in Recordable
  BY ArgTypes DEF Room
<1>0. Room \in Nat
  BY ArgTypes
<1>2. \A s \in Seq(Char), n \in 1..Room :
        step[<<s, n>>] = Put(s, buffer[ArgStart + n - 1])
  BY <1>1
<1>2a. \A s \in Seq(Char), n \in 1..Room : step[<<s, n>>] \in Seq(Char)
  BY <1>1, <1>2, PutType
<1>3. <<>> \in Seq(Char)
  OBVIOUS
<1> HIDE DEF step
<1>4. PICK g : /\ g = [n \in 0..Room |-> g[n]]
               /\ g[0] = <<>>
               /\ \A n \in 1..Room : g[n] = step[<<g[n - 1], n>>]
               /\ \A n \in 0..Room : g[n] \in Seq(Char)
  <2> DEFINE A == Seq(Char)
             start == <<>>
  <2>1. /\ start \in A
        /\ \A s \in A, n \in 1..Room : step[<<s, n>>] \in A
    BY <1>2a, <1>3
  <2> HIDE DEF A, start
  <2>2. \E g : Recursion(g, Room, A, start, step)
    BY <1>0, <2>1, RecursionExists
  <2> QED BY <2>2 DEF Recursion, A, start
<1>5. g = Body(g)
  <2>1. ASSUME NEW n \in 1..Room
        PROVE  g[n] = Put(g[n - 1], buffer[ArgStart + n - 1])
    <3>1. g[n - 1] \in Seq(Char)
      BY <1>0, <1>4
    <3> QED BY <1>2, <1>4, <3>1
  <2>2. \A n \in 0..Room : g[n] = Body(g)[n]
    <3> SUFFICES ASSUME NEW n \in 0..Room PROVE g[n] = Body(g)[n]
      OBVIOUS
    <3>1. CASE n = 0
      BY <1>4, <3>1
    <3>2. CASE n # 0
      BY <1>0, <2>1, <3>2
    <3> QED BY <3>1, <3>2
  <2> QED BY <1>4, <2>2
<1>6. p = CHOOSE f : f = Body(f)
  BY DEF Printed, Room
<1>7. p = Body(p)
  <2> HIDE DEF Body, p
  <2> QED BY <1>5, <1>6
<1> HIDE DEF p
<1>8. /\ p[0] = <<>>
      /\ \A n \in 1..Room : p[n] = Put(p[n - 1], buffer[ArgStart + n - 1])
  BY <1>0, <1>7
<1>9. \A n \in 0..Room : p[n] \in Seq(Char)
  <2> DEFINE T == {n \in 0..Room : p[n] \in Seq(Char)}
  <2>1. 0 \in T
    <3>1. p[0] \in Seq(Char)
      BY <1>3, <1>8, Zenon
    <3> QED BY <1>0, <3>1
  <2>2. ASSUME NEW n \in 1..Room, n - 1 \in T PROVE n \in T
    BY <1>0, <1>1, <1>8, <2>2, PutType
  <2> HIDE DEF T
  <2>3. \A n \in 0..Room : n \in T
    BY <1>0, <2>1, <2>2, InductiveBelow
  <2> QED BY <2>3 DEF T
<1> QED BY <1>8, <1>9 DEF p

(* echo stops in the buffer. *)
LEMMA TextEndThere ==
  ASSUME NEW buffer
  PROVE  TextEnd(buffer) \in ArgStart..Size
<1> DEFINE Stops(i) == i = Size \/ buffer[i] = Quote
           T == {i \in ArgStart..Size : Stops(i)}
<1>1. T \subseteq 0..Size /\ T # {}
  BY ArgTypes
<1>2. PICK i \in T : \A j \in T : i <= j
  BY <1>1, ArgTypes, LeastOf
<1>3. \A k \in ArgStart..(i - 1) : buffer[k] # Quote
  BY <1>2, ArgTypes
<1>4. i \in ArgStart..Size /\ (i = Size \/ buffer[i] = Quote)
  OBVIOUS
<1> QED BY <1>3, <1>4 DEF TextEnd

LEMMA EchoType ==
  ASSUME NEW buffer, \A i \in 0..Size : buffer[i] \in Recordable, NEW bounded \in BOOLEAN
  PROVE  echo(buffer, bounded) \in Seq(Char \cup {Beyond})
<1> DEFINE text == Printed(buffer)[TextEnd(buffer) - ArgStart]
<1>1. TextEnd(buffer) - ArgStart \in 0..Room
  BY TextEndThere, ArgTypes DEF Room
<1>2. text \in Seq(Char)
  BY <1>1, ArgTypes, PrintedSteps
<1> HIDE DEF text
<1>3. text \in Seq(Char \cup {Beyond})
  BY <1>2
<1>4. Append(text, Beyond) \in Seq(Char \cup {Beyond})
  BY <1>3, AppendProperties
<1> QED BY <1>3, <1>4 DEF echo, text

LEMMA RunType ==
  ASSUME NEW buffer, \A i \in 0..Size : buffer[i] \in Recordable, NEW bounded \in BOOLEAN
  PROVE  execute_command(buffer, bounded).output \in Seq(Char \cup {Beyond})
<1>1. <<>> \in Seq(Char \cup {Beyond})
  OBVIOUS
<1> QED BY <1>1, EchoType DEF execute_command
-----------------------------------------------------------------------------
LEMMA NoRunType == NoRun.output \in Seq(Char \cup {Beyond})
<1>1. <<>> \in Seq(Char \cup {Beyond})
  OBVIOUS
<1> QED BY <1>1 DEF NoRun

(* The type of the variables that LineInv says nothing of. *)
ScreenType ==
  /\ pc \in Stages
  /\ current_io_state \in {"stdin_data", "stdin_command"}
  /\ capslock \in BOOLEAN /\ shift \in BOOLEAN
  /\ ran.output \in Seq(Char \cup {Beyond})
  /\ prompted \in BOOLEAN

LEMMA KeyKeepsType ==
  ASSUME BufferType, ScreenType, NEW key \in PrintableKeys, process_printable_key(key)
  PROVE  ScreenType'
<1>1. UNCHANGED <<pc, capslock, shift>>
  BY DEF process_printable_key
<1>2. CASE process_stdin_data(key) \/ DeleteOne \/ RecordOne(key)
  <2>1. ran' = NoRun /\ UNCHANGED <<current_io_state, prompted>>
    BY <1>2 DEF process_stdin_data, DeleteOne, RecordOne
  <2> QED BY <1>1, <2>1, NoRunType DEF ScreenType
<1>3. CASE end_of_command
  <2>1. PICK bounded \in BOOLEAN : ran' = execute_command(command_buffer, bounded)
    BY <1>3 DEF end_of_command
  <2>2. ran'.output \in Seq(Char \cup {Beyond})
    BY <2>1, RunType DEF BufferType
  <2>3. current_io_state' = "stdin_command" /\ prompted' = (pc = "idle")
    BY <1>3 DEF end_of_command
  <2> QED BY <1>1, <2>2, <2>3 DEF ScreenType
<1> QED BY <1>2, <1>3 DEF process_printable_key, process_stdin_command

LEMMA NextScreen == LineInv /\ ScreenType /\ [Next]_vars => ScreenType'
<1> SUFFICES ASSUME LineInv, ScreenType, [Next]_vars PROVE ScreenType'
  OBVIOUS
<1>1. ASSUME NEW key \in PrintableKeys, process_printable_key(key) PROVE ScreenType'
  BY <1>1, KeyKeepsType DEF LineInv
<1>2. CASE Shift \/ CapsLock
  BY <1>2, NoRunType DEF Shift, CapsLock, ScreenType
<1>3. CASE kernel_main
  BY <1>3, NoRunType
  DEF kernel_main, EnterMain, MainPrints, ShowPrompt, StartShell, EndMain, ScreenType, Stages
<1>4. CASE irq_handler
  BY <1>4, NoRunType DEF irq_handler, ScreenType
<1>5. CASE UNCHANGED vars
  BY <1>5 DEF vars, ScreenType
<1> QED BY <1>1, <1>2, <1>3, <1>4, <1>5 DEF Next, process_key

(* Every variable keeps its type: the index never leaves the buffer
   (keyboard_driver.c:205-300), and what echo prints is characters that keys
   record, whatever is in the buffer (interpreter.c:9-23). *)
THEOREM TypeCorrect == Spec => []TypeOK
<1>1. Init => ScreenType
  BY NoRunType DEF Init, ScreenType, Stages
<1>2. LineInv /\ ScreenType => TypeOK
  BY DEF LineInv, BufferType, ScreenType, TypeOK, Recordable, Shown
<1> QED BY InitLine, NextLine, NextScreen, <1>1, <1>2, PTL DEF Spec
-----------------------------------------------------------------------------
(* What was typed of a command are characters that keys record. *)
TypedInv == \A i \in 0..(command_buffer_index - 1) : command_buffer[i] \in Char

LEMMA NextTyped == LineInv /\ TypedInv /\ [Next]_vars => TypedInv'
<1> SUFFICES ASSUME LineInv, TypedInv, [Next]_vars PROVE TypedInv'
  OBVIOUS
<1>0. command_buffer_index \in Nat /\ command_buffer \in [0..Size -> Recordable]
  BY SizeType DEF LineInv, BufferType
<1>1. CASE UNCHANGED <<command_buffer, command_buffer_index>>
  BY <1>1 DEF TypedInv
<1>2. ASSUME NEW key \in PrintableKeys \ {Backspace}, RecordOne(key) PROVE TypedInv'
  <2>1. /\ command_buffer' = [command_buffer EXCEPT ![command_buffer_index] = Recorded(key)]
        /\ command_buffer_index' = command_buffer_index + 1
    BY <1>2 DEF RecordOne
  <2>2. Recorded(key) \in Char
    BY RecordedType
  <2>3. command_buffer_index \in 0..Size
    BY DEF LineInv, BufferType
  <2> SUFFICES ASSUME NEW i \in 0..(command_buffer_index' - 1) PROVE command_buffer'[i] \in Char
    BY DEF TypedInv
  <2>4. CASE i = command_buffer_index
    BY <1>0, <2>1, <2>2, <2>3, <2>4
  <2>5. CASE i # command_buffer_index
    <3>1. i \in 0..(command_buffer_index - 1)
      BY <1>0, <2>1, <2>5
    <3>2. command_buffer[i] \in Char
      BY <3>1 DEF TypedInv
    <3>3. command_buffer'[i] = command_buffer[i]
      BY <1>0, <2>1, <2>3, <2>5, <3>1, SizeType
    <3> QED BY <3>2, <3>3
  <2> QED BY <2>4, <2>5
<1>3. CASE DeleteOne
  BY <1>0, <1>3 DEF DeleteOne, TypedInv
<1>4. CASE end_of_command
  BY <1>4 DEF end_of_command, TypedInv
<1>5. ASSUME NEW key \in PrintableKeys, process_printable_key(key) PROVE TypedInv'
  BY <1>1, <1>2, <1>3, <1>4, <1>5
  DEF process_printable_key, process_stdin_command, process_stdin_data
<1> QED
  BY <1>1, <1>5 DEF Next, process_key, kernel_main, Shift, CapsLock, EnterMain,
                    MainPrints, ShowPrompt, StartShell, EndMain, irq_handler, vars

(* Text without '%' is printed as it is. *)
LEMMA PrintedWhole ==
  ASSUME NEW buffer, \A i \in 0..Size : buffer[i] \in Recordable,
         NEW m \in 0..Room,
         \A i \in 1..m : buffer[ArgStart + i - 1] \in Char \ {Percent}
  PROVE  /\ Printed(buffer)[m] \in Seq(Char)
         /\ Len(Printed(buffer)[m]) = m
         /\ \A i \in 1..m : Printed(buffer)[m][i] = buffer[ArgStart + i - 1]
<1> DEFINE p == Printed(buffer)
           Whole(n) == /\ p[n] \in Seq(Char) /\ Len(p[n]) = n
                       /\ \A i \in 1..n : p[n][i] = buffer[ArgStart + i - 1]
           T == {n \in 0..m : Whole(n)}
<1>1. Room \in Nat /\ m \in Nat /\ m <= Room
  BY ArgTypes
<1>2. /\ p[0] = <<>>
      /\ \A n \in 1..m : p[n] = Put(p[n - 1], buffer[ArgStart + n - 1])
  <2>1. /\ p[0] = <<>>
        /\ \A n \in 1..Room : p[n] = Put(p[n - 1], buffer[ArgStart + n - 1])
    BY PrintedSteps
  <2>2. 1..m \subseteq 1..Room
    BY <1>1
  <2> HIDE DEF p
  <2> QED BY <2>1, <2>2
<1> HIDE DEF p
<1>3. 0 \in T
  <2>1. Whole(0)
    BY <1>2
  <2> HIDE DEF Whole
  <2> QED BY <1>1, <2>1
<1>4. ASSUME NEW n \in 1..m, n - 1 \in T PROVE n \in T
  <2> DEFINE c == buffer[ArgStart + n - 1]
             s == p[n - 1]
  <2>1. c \in Char /\ c \notin {Nul, Percent}
    BY KeysAssumption
  <2>2. p[n] = Append(s, c)
    <3>1. p[n] = Put(s, c)
      BY <1>2
    <3> HIDE DEF c, s
    <3> QED BY <2>1, <3>1 DEF Put
  <2>3. s \in Seq(Char) /\ Len(s) = n - 1
        /\ \A i \in 1..(n - 1) : s[i] = buffer[ArgStart + i - 1]
    BY <1>4
  <2> HIDE DEF s
  <2>4. /\ p[n] \in Seq(Char) /\ Len(p[n]) = n
        /\ \A i \in 1..(n - 1) : p[n][i] = s[i]
        /\ p[n][n] = c
    <3>1. /\ Append(s, c) \in Seq(Char) /\ Len(Append(s, c)) = (n - 1) + 1
          /\ \A i \in 1..(n - 1) : Append(s, c)[i] = s[i]
          /\ Append(s, c)[(n - 1) + 1] = c
      BY <2>1, <2>3, AppendProperties
    <3> HIDE DEF c
    <3> QED BY <2>2, <3>1, <1>1
  <2>5. Whole(n)
    <3> SUFFICES ASSUME NEW i \in 1..n PROVE p[n][i] = buffer[ArgStart + i - 1]
      BY <2>4
    <3>1. CASE i = n
      BY <2>4, <3>1
    <3>2. CASE i # n
      <4>1. i \in 1..(n - 1)
        BY <1>1, <3>2
      <4> QED BY <2>3, <2>4, <4>1
    <3> QED BY <3>1, <3>2
  <2> HIDE DEF Whole
  <2> QED BY <1>1, <2>5
<1> HIDE DEF T
<1>5. m \in T
  BY <1>1, <1>3, <1>4, InductiveBelow
<1> QED BY <1>5 DEF T, p

(* The first quote after the word ends the text. *)
LEMMA FirstQuoteEnds ==
  ASSUME NEW buffer, NEW end \in ArgStart..(Size - 1), buffer[end] = Quote,
         \A i \in ArgStart..(end - 1) : buffer[i] # Quote
  PROVE  TextEnd(buffer) = end
<1> DEFINE Ends(i) == /\ i = Size \/ buffer[i] = Quote
                      /\ \A k \in ArgStart..(i - 1) : buffer[k] # Quote
<1>1. end \in ArgStart..Size /\ Ends(end)
  BY ArgTypes
<1>2. ASSUME NEW i \in ArgStart..Size, Ends(i) PROVE i = end
  <2>1. i \in Int /\ end \in Int /\ i <= Size /\ end < Size /\ ArgStart <= i
    BY ArgTypes
  <2>2. ~(i < end)
    BY <1>2, <2>1, ArgTypes
  <2>3. ~(end < i)
    BY <1>2, <2>1, ArgTypes
  <2> QED BY <2>1, <2>2, <2>3
<1>3. TextEnd(buffer) = CHOOSE i \in ArgStart..Size : Ends(i)
  BY DEF TextEnd
<1> HIDE DEF Ends
<1> QED BY <1>1, <1>2, <1>3

LEMMA EchoPrintsText ==
  ASSUME LineInv, TypedInv, NEW bounded \in BOOLEAN,
         NEW end \in (ArgStart + 1)..Len(Typed), Typed[end] = Quote,
         NEW text, text = SubSeq(Typed, ArgStart + 1, end - 1),
         {Quote, Percent} \cap Range(text) = {}
  PROVE  echo(command_buffer, bounded) = text
<1> DEFINE m == (end - 1) - ArgStart
<1>1. /\ Typed \in Seq(Recordable) /\ Len(Typed) = command_buffer_index
      /\ \A i \in 1..command_buffer_index : Typed[i] = command_buffer[i - 1]
      /\ \A i \in 0..Size : command_buffer[i] \in Recordable
      /\ command_buffer_index \in Nat /\ command_buffer_index <= Size
  BY TypedIsSeq, SizeType DEF LineInv, BufferType
<1>2. /\ end \in Nat /\ ArgStart + 1 <= end /\ end <= command_buffer_index
      /\ m \in Nat /\ m <= Room /\ ArgStart \in Nat
  BY <1>1, ArgTypes DEF Room
<1>3. /\ text \in Seq(Recordable) /\ Len(text) = m
      /\ \A i \in 1..m : text[i] = Typed[ArgStart + i]
  BY <1>1, <1>2
<1>4. \A i \in 1..m : text[i] = command_buffer[ArgStart + i - 1]
  BY <1>1, <1>2, <1>3
<1>5. \A i \in 1..m : text[i] # Quote /\ text[i] # Percent
  <2>1. DOMAIN text = 1..m
    BY <1>3
  <2>2. \A i \in DOMAIN text : text[i] \in Range(text)
    BY Zenon DEF Range
  <2> HIDE DEF m
  <2> QED BY <2>1, <2>2
<1>6. TextEnd(command_buffer) = end - 1
  <2>1. command_buffer[end - 1] = Quote /\ end - 1 \in ArgStart..(Size - 1)
    BY <1>1, <1>2, ArgTypes
  <2>2. \A i \in ArgStart..(end - 2) : command_buffer[i] # Quote
    <3> SUFFICES ASSUME NEW i \in ArgStart..(end - 2) PROVE command_buffer[i] # Quote
      OBVIOUS
    <3>1. i - ArgStart + 1 \in 1..m /\ ArgStart + (i - ArgStart + 1) - 1 = i
      BY <1>2
    <3> QED BY <1>4, <1>5, <3>1
  <2>3. (end - 1) - 1 = end - 2
    BY <1>2
  <2> QED BY <2>1, <2>2, <2>3, FirstQuoteEnds
<1>7. \A i \in 1..m : command_buffer[ArgStart + i - 1] \in Char \ {Percent}
  <2> SUFFICES ASSUME NEW i \in 1..m
               PROVE  command_buffer[ArgStart + i - 1] \in Char
    BY <1>4, <1>5
  <2>1. ArgStart + i - 1 \in 0..(command_buffer_index - 1)
    <3>1. i \in Nat /\ 1 <= i /\ i <= m
      BY <1>2
    <3> QED BY <1>1, <1>2, <3>1
  <2> QED BY <2>1 DEF TypedInv
<1> DEFINE s == Printed(command_buffer)[m]
<1>8. /\ s \in Seq(Char) /\ Len(s) = m
      /\ \A i \in 1..m : s[i] = command_buffer[ArgStart + i - 1]
  <2>1. m \in 0..Room
    BY <1>2, ArgTypes
  <2> HIDE DEF m
  <2> QED BY <1>1, <1>7, <2>1, PrintedWhole
<1> HIDE DEF s
<1>9. s = text
  <2> HIDE DEF m
  <2>1. Len(s) = Len(text) /\ \A i \in 1..Len(s) : s[i] = text[i]
    BY <1>3, <1>4, <1>8
  <2> QED BY <1>3, <1>8, <2>1, SeqEqual
<1>10. TextEnd(command_buffer) # Size
  BY <1>1, <1>2, <1>6, ArgTypes
<1> QED BY <1>6, <1>9, <1>10 DEF echo, s

(* A command that was typed as echo's, to its closing quote and without '%',
   prints the text between the quotes (interpreter.c:9-23): neither what was
   erased, nor what earlier commands left behind it in the buffer, nor the read
   past the end of the buffer, comes out. *)
THEOREM CompleteEchoIsPrinted == Spec => CompleteEchoPrintsText
<1> DEFINE Complete == ran' # NoRun /\ IsPrefix(EchoWord, Typed) =>
              \A end \in (ArgStart + 1)..Len(Typed) :
                LET text == SubSeq(Typed, ArgStart + 1, end - 1)
                IN  Typed[end] = Quote /\ {Quote, Percent} \cap Range(text) = {}
                      => ran'.output = text
<1>1. ASSUME LineInv, TypedInv, [Next]_vars PROVE [Complete]_vars
  <2>1. CASE Next
    <3> SUFFICES ASSUME ran' # NoRun, IsPrefix(EchoWord, Typed),
                        NEW end \in (ArgStart + 1)..Len(Typed), Typed[end] = Quote,
                        NEW text, text = SubSeq(Typed, ArgStart + 1, end - 1),
                        {Quote, Percent} \cap Range(text) = {}
                 PROVE  ran'.output = text
      BY Zenon
    <3>1. PICK bounded \in BOOLEAN : ran' = execute_command(command_buffer, bounded)
      BY <2>1, OnlyEndRuns
    <3>2. strcmp(command_buffer, EchoWord)
      <4>1. EchoWord \in Seq(Char)
        BY KeysAssumption
      <4> QED BY <1>1, <4>1, TypedWordIsFound
    <3>3. ran'.output = echo(command_buffer, bounded)
      BY <3>1, <3>2 DEF execute_command
    <3>4. echo(command_buffer, bounded) = text
      BY <1>1, EchoPrintsText
    <3> QED BY <3>3, <3>4
  <2>2. CASE UNCHANGED vars
    BY <2>2
  <2> QED BY <1>1, <2>1, <2>2
<1>2. Init => TypedInv
  BY DEF Init, TypedInv
<1> QED BY <1>1, <1>2, InitLine, NextLine, NextTyped, PTL DEF Spec, CompleteEchoPrintsText
=============================================================================
