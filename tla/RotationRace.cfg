SPECIFICATION Spec
CONSTANTS
  r1 = r1
  r2 = r2
  alice = alice
  bob = bob
  NoSubject = NoSubject
  NoRecord = NoRecord
  Requests = {r1, r2}
  Subjects = {alice}
  Lifetime = 1
  MaxTokens = 3
  MaxTime = 1
  Rotates = {TRUE}
  MayFail = FALSE
SYMMETRY Symmetry
INVARIANTS
  RaceIsAttributed
