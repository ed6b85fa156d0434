SPECIFICATION Spec
CONSTANTS
  r1 = r1
  r2 = r2
  alice = alice
  bob = bob
  NoSubject = NoSubject
  NoRecord = NoRecord
  Requests = {r1, r2}
  Subjects = {alice, bob}
  Lifetime = 1
  MaxTokens = 2
  MaxTime = 2
  Rotates = {TRUE, FALSE}
  MayFail = TRUE
SYMMETRY Symmetry
INVARIANTS
  TypeOK
  ReuseIsEarned
  SuccessConsumes
  DeliveredIsRotatable
  RecordedForItsOwner
PROPERTIES
  ConsumedStaysConsumed
  UnknownIsNoReplay
