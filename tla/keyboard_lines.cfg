\* Lines typed, edited and run.
CONSTANTS
  Size = 4
  Nul = "nul"
  Quote = "quote"
  Percent = "%"
  Beyond = "beyond"
  Newline = "newline"
  EchoWord <- MCEcho
  ClearWord <- MCClear
  HelpWord <- MCHelp
  ArgStart = 2
  Space = "space"
  Notice = "notice"
  Width = 2
  MaxEarly = 1
  MaxLine = 4
  LetterKeys = {"KeyE"}
  OtherKeys = {"KeyQuote"}
  Down <- MCDown
  Up <- MCUp
  Enter = "KeyEnter"
  Backspace = "KeyBackspace"
SPECIFICATION Spec
INVARIANTS
  TypeOK
  LineShowsBuffer
PROPERTIES
  TypedWordRuns
  CompleteEchoPrintsText
