\* More crashes than the table has spare chunks.
CONSTANTS
  Names = {a, b, c}
  Zeros = zeros
  Ones = ones
  TableSectors = 3
  FlagsPerSector = 3
  DirSectors = 2
  EntriesPerSector = 2
  Reserved = 3
  BlankImage = TRUE
  RootReadMayFail = FALSE
  MaxCrashes = 3
SPECIFICATION Spec
SYMMETRY NameSymmetry
INVARIANTS
  BufferRestored
