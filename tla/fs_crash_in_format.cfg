\* A crash after the magic word is written and before the table is.
CONSTANTS
  Names = {a, b}
  Zeros = zeros
  Ones = ones
  TableSectors = 3
  FlagsPerSector = 3
  DirSectors = 2
  EntriesPerSector = 2
  Reserved = 3
  BlankImage = TRUE
  RootReadMayFail = FALSE
  MaxCrashes = 1
SPECIFICATION Spec
INVARIANTS
  EntriesOutsideMetadata
