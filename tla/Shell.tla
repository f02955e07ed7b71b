------------------------------- MODULE Shell -------------------------------
(***************************************************************************)
(* The command interpreter (interpreter.c): what execute_command runs, and *)
(* what echo prints, as functions of the command buffer.                   *)
(*                                                                         *)
(* The interpreter is given the whole buffer, and not how much of it was   *)
(* typed.                                                                  *)
(***************************************************************************)
EXTENDS Integers, Sequences

CONSTANTS
  Size,      \* of command_buffer: 50
  Nul,       \* '\0'
  Quote,     \* '"'
  Percent,   \* '%'
  Beyond,    \* stands for what echo prints that is not in the buffer
  EchoWord, ClearWord, HelpWord,  \* the commands, as sequences of characters
  ArgStart   \* where echo's text starts, after the word, a space and a quote: 6

(* Neither of two words begins with the other. *)
Differ(v, w) == \E i \in (1..Len(v)) \cap (1..Len(w)) : v[i] # w[i]

ASSUME ShellAssumption ==
  /\ Size \in Nat \ {0} /\ ArgStart \in 0..Size
  /\ \A w \in {EchoWord, ClearWord, HelpWord} : Len(w) \in 1..Size
  /\ Differ(EchoWord, ClearWord) /\ Differ(EchoWord, HelpWord)
  /\ Differ(ClearWord, HelpWord)

(* Mutant: the last character is not compared. *)
strcmp_OneShort(buffer, word) ==
  \A i \in 1..(Len(word) - 1) : buffer[i - 1] = word[i]

(* Only the length of the word is compared. *)
strcmp(buffer, word) == \A i \in 1..Len(word) : buffer[i - 1] = word[i]

(* Mutant: the closing quote does not end the text. *)
TextEnd_NoQuote(buffer) == Size

(* Where echo stops: at a quote, or at the end of the buffer. *)
TextEnd(buffer) ==
  CHOOSE i \in ArgStart..Size :
    /\ i = Size \/ buffer[i] = Quote
    /\ \A k \in ArgStart..(i - 1) : buffer[k] # Quote

(* printf with a character as the format string: '\0' and '%' print nothing. *)
Put(printed, c) == IF c \in {Nul, Percent} THEN printed ELSE Append(printed, c)

(* What echo's loop prints of the characters from ArgStart on, by how many of
   them it has seen. *)
Printed(buffer) ==
  LET printed[n \in 0..(Size - ArgStart)] ==
        IF n = 0 THEN <<>> ELSE Put(printed[n - 1], buffer[ArgStart + n - 1])
  IN  printed

(* The loop reads command_buffer[50] before it tests the index, which is
   undefined: a compiler may leave the test out, and at the -O2 of the build
   gcc does.  Then echo goes on through memory to the next quote.  bounded
   tells the two programs apart. *)
echo(buffer, bounded) ==
  LET text == Printed(buffer)[TextEnd(buffer) - ArgStart]
  IN  IF TextEnd(buffer) = Size /\ ~bounded THEN Append(text, Beyond) ELSE text

(* What execute_command runs, and what that prints.  What clear, help and an
   unknown command print depends on nothing. *)
execute_command(buffer, bounded) ==
  CASE strcmp(buffer, EchoWord) -> [command |-> "echo", output |-> echo(buffer, bounded)]
    [] ~strcmp(buffer, EchoWord) /\ strcmp(buffer, ClearWord) ->
         [command |-> "clear", output |-> <<>>]
    [] ~strcmp(buffer, EchoWord) /\ ~strcmp(buffer, ClearWord) /\ strcmp(buffer, HelpWord) ->
         [command |-> "help", output |-> <<>>]
    [] OTHER -> [command |-> "none", output |-> <<>>]
=============================================================================
