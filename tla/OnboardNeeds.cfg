SPECIFICATION Spec
CONSTANTS
  phone = phone
  laptop = laptop
  alice = alice
  zinc = zinc
  argon = argon
  zincClaim = zincClaim
  argonClaim = argonClaim
  Clients = {phone}
  Users = {alice}
  UserOf <- OneUser
  Backends = {zinc, argon}
  Order <- ZincFirst
  Staged = {argon}
  Claims = {zincClaim, argonClaim}
  ClaimOf <- OwnClaims
  MaxFaults = 0
INVARIANT
  NeedsOnboardingMeansUnregistered
