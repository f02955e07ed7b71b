\* An image that held something before, reads of the first sector that fail, a
\* table that may run out.
CONSTANTS
  Names = {a, b}
  Zeros = zeros
  Ones = ones
  TableSectors = 3
  FlagsPerSector = 3
  DirSectors = 2
  EntriesPerSector = 2
  Reserved = 3
  BlankImage = FALSE
  RootReadMayFail = TRUE
  MaxCrashes = 3
SPECIFICATION FairSpec
PROPERTIES
  EventuallyBooted
  CreationCompletes
  FormattingStartsAfresh
