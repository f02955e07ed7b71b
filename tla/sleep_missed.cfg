\* A tick between the test and the hlt.
CONSTANTS
  Modulus = 5
  Durations = {1, 2}
SPECIFICATION Spec
INVARIANTS
  NotOvershot
