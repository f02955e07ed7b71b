\* Sleeps among ticks and keys, on a quick processor and on any.
CONSTANTS
  Modulus = 5
  Durations = {1, 2}
SPECIFICATION FairSpec
INVARIANTS
  TypeOK
  QuickNotOvershot
PROPERTIES
  NeverEarly
  SleepEnds
