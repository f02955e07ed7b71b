\* A blank image, crashes anywhere, a table that cannot run out.
CONSTANTS
  Names = {a, b, c}
  Zeros = zeros
  Ones = ones
  TableSectors = 3
  FlagsPerSector = 3
  DirSectors = 2
  EntriesPerSector = 2
  Reserved = 3
  BlankImage = TRUE
  RootReadMayFail = FALSE
  MaxCrashes = 2
SPECIFICATION Spec
SYMMETRY NameSymmetry
INVARIANTS
  TypeOK
  NamesUnique
  ChunksMarked
  ChunksUnshared
  MetadataSafe
  BufferRestored
PROPERTIES
  EntriesKept
  ImplementsDirectory
