SPECIFICATION Spec
CONSTANTS
  r1 = r1
  r2 = r2
  r3 = r3
  n1 = n1
  n2 = n2
  alice = alice
  mail = mail
  Blank = Blank
  Garbled = Garbled
  NoSubject = NoSubject
  NoEmail = NoEmail
  NoRecord = NoRecord
  Undecided = Undecided
  Burned = Burned
  Requests = {r1, r2}
  Nonces = {n1, n2}
  Subjects = {alice}
  Emails = {mail}
  Lifetime = 1
  MaxTime = 2
  MayFail = TRUE
SYMMETRY Interchangeable
INVARIANTS
  TypeOK
  OneLoginPerNonce
  NothingIsWasted
PROPERTIES
  LateIsRefused
  UnknownOnlyOnceExpired
  RedeemsOnce
