------------------------------ MODULE Keyboard ------------------------------
(***************************************************************************)
(* The keyboard driver (keyboard_driver.c) and the line of input that it   *)
(* edits, from the boot to the shell (kernel.c).                           *)
(*                                                                         *)
(* A step is one scan code, handled to its end in the interrupt handler,   *)
(* one step of kernel_main, or another interrupt, whose handler prints.    *)
(* Of the flags in keyboard[] only that of the left shift is ever read,    *)
(* and is kept here as shift.                                              *)
(***************************************************************************)
EXTENDS Shell, SequencesExt

CONSTANTS
  LetterKeys, OtherKeys,  \* keys that print: letters, and all the others
  Down, Up,               \* what they print without and with shift
  Enter, Backspace,       \* the two editing keys
  Newline,
  Space,                  \* what terminal_moveup fills a line with
  Notice,                 \* stands for text that the kernel prints
  Width,                  \* of the screen: 80
  MaxEarly,               \* bound: characters typed before there is a shell,
                          \* and how far into a line kernel_main prints
  MaxLine                 \* bound on line

PrintableKeys == LetterKeys \cup OtherKeys \cup {Enter, Backspace}

Char == {Down[k] : k \in LetterKeys \cup OtherKeys}
          \cup {Up[k] : k \in LetterKeys \cup OtherKeys} \cup {Newline}

ASSUME KeysAssumption ==
  /\ LetterKeys \cap OtherKeys = {}
  /\ Enter \notin LetterKeys \cup OtherKeys
  /\ Backspace \notin LetterKeys \cup OtherKeys \cup {Enter}
  /\ LetterKeys \cup OtherKeys \subseteq DOMAIN Down \cap DOMAIN Up
  /\ {EchoWord, ClearWord, HelpWord} \subseteq Seq(Char)
  /\ Nul \notin Char
  /\ Width \in Nat \ {0} /\ MaxEarly \in Nat /\ MaxLine \in Nat

VARIABLES
  pc,                   \* kernel_main: see Stages
  current_io_state,     \* "stdin_data" or "stdin_command"
  capslock, shift,
  command_buffer,       \* the byte after the buffer included
  command_buffer_index,
  line,                 \* what was printed since the last prompt or clearing
                        \* of the screen, and not erased again
  ran,                  \* what the step executed, or NoRun
  prompted,             \* history: kernel_main had printed all it prints when
                        \* the last prompt came, and index 0 with it
  disturbed             \* history: since then a handler has printed into line,
                        \* or erasef has left a character it was to erase

vars == <<pc, current_io_state, capslock, shift, command_buffer,
          command_buffer_index, line, ran, prompted, disturbed>>

(* "entry": not there yet.  "boot": the root and the pause.  "prompt": it has
   shown the prompt.  "shell": keys are recorded, and it creates entries.
   "idle": it halts for good. *)
Stages == {"entry", "boot", "prompt", "shell", "idle"}

NoRun == [command |-> "", output |-> <<>>]

TypeOK ==
  /\ pc \in Stages
  /\ current_io_state \in {"stdin_data", "stdin_command"}
  /\ capslock \in BOOLEAN /\ shift \in BOOLEAN
  /\ command_buffer \in [0..Size -> Char \cup {Nul}]
  /\ command_buffer_index \in 0..Size
  /\ line \in Seq(Char \cup {Space, Notice})
  /\ ran.output \in Seq(Char \cup {Beyond})
  /\ prompted \in BOOLEAN /\ disturbed \in BOOLEAN

(* From the moment pic_init lets the keyboard interrupt.  The static
   current_io_state is 0, which is stdin_command. *)
Init ==
  /\ pc = "entry"
  /\ current_io_state = "stdin_command"
  /\ capslock = FALSE /\ shift = FALSE
  /\ command_buffer = [i \in 0..Size |-> Nul]
  /\ command_buffer_index = 0
  /\ line = <<>>
  /\ ran = NoRun
  /\ prompted = FALSE /\ disturbed = FALSE
-----------------------------------------------------------------------------
(* The character a key prints: process_stdin_common. *)
process_stdin_common(key) ==
  IF key = Enter THEN Newline
  ELSE IF (key \in LetterKeys /\ capslock) # shift THEN Up[key] ELSE Down[key]

(* Mutant: caps lock is printed but not recorded. *)
Recorded_NoCaps(key) ==
  IF key = Enter THEN Newline ELSE IF shift THEN Up[key] ELSE Down[key]

(* The character process_stdin_command records: decided again. *)
Recorded(key) ==
  IF key = Enter THEN Newline
  ELSE IF (key \in LetterKeys /\ capslock) # shift THEN Up[key] ELSE Down[key]

(* The cells that the end of a line may keep: those are ' ' in a line that
   terminal_moveup has made. *)
Blanks == {[i \in 1..k |-> Space] : k \in 0..(Width - 1)}

(* What erasef(1) may leave of text: Terminal has the cells.  It takes back
   the last character, but in the first cell of the screen there is none to
   take, and from the start of a line it stops in the last column of the line
   above, unless '\0' leads from there to the line's text.  With nothing left
   it goes on into the prompt, which line leaves out. *)
erasef(text) ==
  {text} \cup {t \in {Front(text)} : text # <<>>}
    \cup {Front(text) \o b : b \in {k \in Blanks : text # <<>> /\ Last(text) = Newline}}

Erase ==
  /\ line' \in erasef(line) /\ Len(line') <= MaxLine
  /\ disturbed' = (disturbed \/ line' # Front(line))

(* end_of_command: the command runs to its end, and a new prompt is shown.
   The buffer is left as it is. *)
end_of_command ==
  /\ \E bounded \in BOOLEAN : ran' = execute_command(command_buffer, bounded)
  /\ command_buffer_index' = 0
  /\ line' = <<>>
  /\ current_io_state' = "stdin_command"
  /\ prompted' = (pc = "idle") /\ disturbed' = FALSE
  /\ UNCHANGED command_buffer

(* The character before the index is erased on the screen; the one at the
   index is cleared in the buffer. *)
DeleteOne ==
  /\ command_buffer_index # 0
  /\ Erase
  /\ command_buffer' = [command_buffer EXCEPT ![command_buffer_index] = Nul]
  /\ command_buffer_index' = command_buffer_index - 1
  /\ ran' = NoRun
  /\ UNCHANGED <<current_io_state, prompted>>

RecordOne(key) ==
  /\ pc = "entry" => command_buffer_index < MaxEarly
  /\ Len(line) < MaxLine
  /\ line' = Append(line, process_stdin_common(key))
  /\ command_buffer' = [command_buffer EXCEPT ![command_buffer_index] = Recorded(key)]
  /\ command_buffer_index' = command_buffer_index + 1
  /\ ran' = NoRun
  /\ UNCHANGED <<current_io_state, prompted, disturbed>>

(* Mutant: a full buffer is noticed one character late. *)
process_stdin_command_Late(key) ==
  \/ key = Backspace /\ DeleteOne
  \/ /\ \/ key = Enter /\ ~shift
        \/ key # Backspace /\ command_buffer_index > Size
     /\ end_of_command
  \/ /\ key # Backspace /\ ~(key = Enter /\ ~shift) /\ command_buffer_index <= Size
     /\ RecordOne(key)

process_stdin_command(key) ==
  \/ key = Backspace /\ DeleteOne
  \/ /\ \/ key = Enter /\ ~shift
        \/ key # Backspace /\ command_buffer_index = Size
     /\ end_of_command
  \/ /\ key # Backspace /\ ~(key = Enter /\ ~shift) /\ command_buffer_index # Size
     /\ RecordOne(key)

(* Before the shell: keys are shown and erased, and nothing is recorded. *)
process_stdin_data(key) ==
  /\ \/ key = Backspace /\ Erase
     \/ /\ key # Backspace /\ Len(line) < MaxEarly
        /\ line' = Append(line, process_stdin_common(key))
        /\ UNCHANGED disturbed
  /\ ran' = NoRun
  /\ UNCHANGED <<current_io_state, command_buffer, command_buffer_index, prompted>>

process_printable_key(key) ==
  /\ \/ current_io_state = "stdin_data" /\ process_stdin_data(key)
     \/ current_io_state = "stdin_command" /\ process_stdin_command(key)
  /\ UNCHANGED <<pc, capslock, shift>>

(* LEFT_SHIFT_PRESS and its release. *)
Shift ==
  /\ shift' = ~shift
  /\ ran' = NoRun
  /\ UNCHANGED <<pc, current_io_state, capslock, command_buffer,
                 command_buffer_index, line, prompted, disturbed>>

CapsLock ==
  /\ capslock' = ~capslock
  /\ ran' = NoRun
  /\ UNCHANGED <<pc, current_io_state, shift, command_buffer,
                 command_buffer_index, line, prompted, disturbed>>

process_key == (\E key \in PrintableKeys : process_printable_key(key)) \/ Shift \/ CapsLock
-----------------------------------------------------------------------------
(* kernel_main stops the recording of keys and clears the screen; the command
   buffer keeps what was recorded before. *)
EnterMain ==
  /\ pc = "entry"
  /\ pc' = "boot"
  /\ current_io_state' = "stdin_data"
  /\ line' = <<>>
  /\ ran' = NoRun
  /\ UNCHANGED <<capslock, shift, command_buffer, command_buffer_index, prompted, disturbed>>

(* Before the shell and, what matters more, in it: the check for repeated
   names prints what it found, while keys are printed and recorded.  It prints
   a character at a time, and a key's interrupt may come in the middle of one,
   so that one overwrites the other; line keeps both, and nothing is said of
   such a line. *)
MainPrints ==
  /\ pc \in {"boot", "shell"} /\ Len(line) < MaxEarly
  /\ line' = Append(line, Notice)
  /\ ran' = NoRun
  /\ UNCHANGED <<pc, current_io_state, capslock, shift, command_buffer,
                 command_buffer_index, prompted, disturbed>>

(* After the root and the pause it clears the screen and shows the prompt, ... *)
ShowPrompt ==
  /\ pc = "boot"
  /\ pc' = "prompt"
  /\ line' = <<>>
  /\ ran' = NoRun
  /\ UNCHANGED <<current_io_state, capslock, shift, command_buffer,
                 command_buffer_index, prompted, disturbed>>

(* ... and then has keys recorded.  A key may come in between. *)
StartShell ==
  /\ pc = "prompt"
  /\ pc' = "shell"
  /\ current_io_state' = "stdin_command"
  /\ ran' = NoRun
  /\ UNCHANGED <<capslock, shift, command_buffer, command_buffer_index, line,
                 prompted, disturbed>>

(* The four creations are over. *)
EndMain ==
  /\ pc = "shell"
  /\ pc' = "idle"
  /\ ran' = NoRun
  /\ UNCHANGED <<current_io_state, capslock, shift, command_buffer,
                 command_buffer_index, line, prompted, disturbed>>

kernel_main == EnterMain \/ MainPrints \/ ShowPrompt \/ StartShell \/ EndMain

(* irq_handler prints a line for an interrupt that nobody handles: the disk's,
   for every command, also for the last one when kernel_main is idle. *)
irq_handler ==
  /\ pc # "entry" /\ Len(line) + 2 <= MaxLine
  /\ line' = line \o <<Notice, Newline>>
  /\ disturbed' = TRUE
  /\ ran' = NoRun
  /\ UNCHANGED <<pc, current_io_state, capslock, shift, command_buffer,
                 command_buffer_index, prompted>>

Next == process_key \/ kernel_main \/ irq_handler

Spec == Init /\ [][Next]_vars
-----------------------------------------------------------------------------
(* What was recorded of the command being typed. *)
Typed == [i \in 1..command_buffer_index |-> command_buffer[i - 1]]

(* The characters of s are all in t, in the same order. *)
Embedded(s, t) ==
  \E place \in [1..Len(s) -> 1..Len(t)] :
    /\ \A i \in 1..Len(s) : t[place[i]] = s[i]
    /\ \A i, k \in 1..Len(s) : i < k => place[i] < place[k]

(* Nothing is recorded that was not printed and is not erased (the buffer may
   have forgotten more than the screen): through shift, caps lock, newlines,
   backspaces and a full buffer, and although the kernel prints into the line
   and erasef does not always erase.  Without these two, what was printed is
   exactly what is recorded.
   A command may differ that began before kernel_main was done: keys recorded
   before it were cleared from the screen but not from the buffer, keys between
   the prompt and the shell are shown but not recorded, and in the shell it
   goes on printing itself. *)
LineShowsBuffer ==
  prompted => IF disturbed THEN Embedded(Typed, line) ELSE line = Typed

Words == {<<EchoWord, "echo">>, <<ClearWord, "clear">>, <<HelpWord, "help">>}

(* A command whose word was typed is the one that runs, whatever earlier
   commands left in the buffer. *)
TypedWordRuns ==
  [][ran' # NoRun =>
       \A w \in Words : IsPrefix(w[1], Typed) => ran'.command = w[2]]_vars

(* An echo command that was typed with its closing quote, and without '%',
   prints the text between the quotes, whatever else is in the buffer. *)
CompleteEchoPrintsText ==
  [][ran' # NoRun /\ IsPrefix(EchoWord, Typed) =>
       \A end \in (ArgStart + 1)..Len(Typed) :
         LET text == SubSeq(Typed, ArgStart + 1, end - 1)
         IN  Typed[end] = Quote /\ {Quote, Percent} \cap Range(text) = {}
               => ran'.output = text]_vars

(* What runs is the command that was typed (keyboard_driver.c:216). *)
RunsWhatWasTyped ==
  [][ran' # NoRun =>
       \E bounded \in BOOLEAN :
         ran' = execute_command([i \in 0..Size |->
                  IF i < command_buffer_index THEN command_buffer[i] ELSE Nul], bounded)]_vars
=============================================================================
