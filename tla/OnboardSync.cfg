SPECIFICATION FairSpec
CONSTANTS
  phone = phone
  laptop = laptop
  alice = alice
  zinc = zinc
  argon = argon
  zincClaim = zincClaim
  argonClaim = argonClaim
  Clients = {phone, laptop}
  Users = {alice}
  UserOf <- OneUser
  Backends = {zinc, argon}
  Order <- ZincFirst
  Staged = {argon}
  Claims = {zincClaim, argonClaim}
  ClaimOf <- OwnClaims
  MaxFaults = 1
INVARIANTS
  TypeOK
  ClaimedMeansRegistered
  ReportsAreTrue
  EveryBackendGetsItsVerdict
PROPERTIES
  NobodyIsStuck
