\* A command that earlier ones left in the buffer.
CONSTANTS
  Size = 4
  Nul = "nul"
  Quote = "quote"
  Percent = "%"
  Beyond = "beyond"
  Newline = "newline"
  EchoWord <- MCEcho
  ClearWord <- MCClear
  HelpWord <- MCHelp
  ArgStart = 2
  Space = "space"
  Notice = "notice"
  Width = 2
  MaxEarly = 1
  MaxLine = 4
  LetterKeys = {"KeyE"}
  OtherKeys = {"KeyQuote"}
  Down <- MCDown
  Up <- MCUp
  Enter = "KeyEnter"
  Backspace = "KeyBackspace"
SPECIFICATION Spec
PROPERTIES
  RunsWhatWasTyped
