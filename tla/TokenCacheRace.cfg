SPECIFICATION Spec
CONSTANTS
  p1 = p1
  p2 = p2
  p3 = p3
  cache1 = cache1
  cache2 = cache2
  owner1 = owner1
  name1 = name1
  name2 = name2
  undeclared = undeclared
  unkeyable = unkeyable
  key1 = key1
  key2 = key2
  NoKey = NoKey
  NoToken = NoToken
  Skew = 1
  Callers = {p1, p2, p3}
  Caches = {cache1}
  CacheOf <- OneCacheOf
  Owners = {owner1}
  OwnerOf <- OneOwnerOf
  Names = {name1, undeclared, unkeyable}
  Declared <- AllButUndeclared
  Keys = {key1}
  KeyOf <- ReplicaKeyOf
  Lifetimes = {2}
  MaxTime = 2
  MaxOps = 3
  MintMayPanic = TRUE
SYMMETRY CallerSymmetry
INVARIANTS
  SingleFlight
  OneOutcome
  NoNeedlessMint
  EvictedStaysOut
PROPERTIES
  SharesCalls
