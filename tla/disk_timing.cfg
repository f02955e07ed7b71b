\* A disk that answers early, in time or late, and a reboot.
CONSTANTS
  TableSectors = 2
  DirSectors = 1
  BitsPerSector = 2
  Reserved = 3
  Word = {1}
  Retries = 2
  MaxReboots = 1
SPECIFICATION FairSpec
INVARIANT TypeOK
PROPERTIES
  MagicKept
  DiskKept
  CallsReturn
