\* From sti on: the boot, ticks, keys and the disk's interrupts.
CONSTANTS
  Modulus = 3
  Durations = {1}
  MaxCodes = 2
  Leftover = {TRUE}
SPECIFICATION FairSpec
INVARIANTS
  TypeOK
  AllAcknowledged
  CodesAnnounced
  ShiftFollowsKey
PROPERTIES
  RequestsServed
  ImplementsSleep
