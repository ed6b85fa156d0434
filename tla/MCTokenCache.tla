--------------------------- MODULE MCTokenCache ---------------------------
(* Instances of TokenCache for TLC. *)
EXTENDS TokenCache, TLC

CONSTANTS p1, p2, p3, cache1, cache2, owner1, name1, name2, undeclared, unkeyable,
          key1, key2

\* Callers are interchangeable when they all use the same cache.
CallerSymmetry == Permutations(Callers)

\* One cache: everything is contention for one key.
OneCacheOf == [p \in Callers |-> cache1]
OneOwnerOf == [c \in Caches |-> owner1]
OneDeclared == [c \in Caches |-> Names]

\* Two caches on one store.  p1 and p2 use the first, p3 the second.
TwoCacheOf == [p \in Callers |-> IF p = p3 THEN cache2 ELSE cache1]
AllButUndeclared == [c \in Caches |-> Names \ {undeclared}]

\* Replicas of one consumer: same owner, same keys.
ReplicaKeyOf ==
    [c \in Caches |-> [n \in Names |->
        CASE n = unkeyable -> NoKey [] n = name2 -> key2 [] OTHER -> key1]]
=============================================================================
