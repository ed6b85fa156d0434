SPECIFICATION FairSpec
CONSTANTS
  p1 = p1
  p2 = p2
  p3 = p3
  cache1 = cache1
  cache2 = cache2
  owner1 = owner1
  name1 = name1
  name2 = name2
  undeclared = undeclared
  unkeyable = unkeyable
  key1 = key1
  key2 = key2
  NoKey = NoKey
  NoToken = NoToken
  Skew = 1
  Callers = {p1, p2, p3}
  Caches = {cache1, cache2}
  CacheOf <- TwoCacheOf
  Owners = {owner1}
  OwnerOf <- OneOwnerOf
  Names = {name1, name2}
  Declared <- OneDeclared
  Keys = {key1, key2}
  KeyOf <- ReplicaKeyOf
  Lifetimes = {2}
  MaxTime = 0
  MaxOps = 3
  MintMayPanic = FALSE
INVARIANTS
  OwnToken
  WaitersHaveALeader
PROPERTIES
  EveryCallReturns
