--------------------------------- MODULE Guard ---------------------------------
(***************************************************************************)
(* The decisions of lib/authengine/guard.go and policy.go.  Each returns   *)
(* Passed or the id of the problem it raises.  A target is a subject, or   *)
(* Absent for the caller that names nobody.                                *)
(***************************************************************************)
EXTENDS Principal

Passed == "passed"

\* ClaimScopeChecker.Scope.
Scope(principal, field) ==
    CASE field = "roles" -> principal.roles
      [] field = "scope" -> principal.scopes
      [] OTHER           -> List(principal.claims[field])

HasAny(principal, field, values) == Scope(principal, field) \cap values # {}

\* Definitions named ...Mutant are wrong on purpose: each is a bug the definition
\* after it could have had, which a property of Access detects.
HasAllMutant(principal, field, values) == values \subseteq Scope(principal, field)

\* Every one of nothing is refused: an empty requirement is a wiring mistake.
HasAll(principal, field, values) ==
    /\ values # {}
    /\ values \subseteq Scope(principal, field)

\* A principal without a subject owns nothing, and nobody owns "nobody".
\* (An absent subject claim maps to the empty string.)
guardOwns(principal, target) ==
    /\ target # Absent
    /\ principal.subject = target
    /\ principal.subject # Absent

Decide(allowed) == IF allowed THEN Passed ELSE "ownership-denied"

Sub(principal, target) == Decide(guardOwns(principal, target))

SubOrAny(principal, target, field, values) ==
    Decide(guardOwns(principal, target) \/ HasAny(principal, field, values))

SubOrAll(principal, target, field, values) ==
    Decide(guardOwns(principal, target) \/ HasAll(principal, field, values))

RegisteredGuard(principal, backend) ==
    IF Registered(principal, backend) THEN Passed ELSE "registration-missing"

\* An unknown quantifier satisfies nothing.
satisfies(principal, declared) ==
    \/ /\ declared.kind = "any"
       /\ HasAny(principal, declared.field, declared.target)
    \/ /\ declared.kind = "all"
       /\ HasAll(principal, declared.field, declared.target)

\* A policy the configuration forgot to declare is a failure, never a pass.
Policy(principal, policies, name) ==
    IF name \notin DOMAIN policies THEN "policy-unknown"
    ELSE Decide(satisfies(principal, policies[name]))

================================================================================
