SPECIFICATION Spec
CONSTANTS
  r1 = r1
  r2 = r2
  alice = alice
  bob = bob
  NoSubject = NoSubject
  NoRecord = NoRecord
  Requests = {r1, r2}
  Subjects = {alice}
  Lifetime = 1
  MaxTokens = 2
  MaxTime = 1
  Rotates = {FALSE}
  MayFail = FALSE
SYMMETRY Symmetry
INVARIANTS
  ReuseMeansRotatedAway
