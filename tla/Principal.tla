------------------------------- MODULE Principal -------------------------------
(***************************************************************************)
(* What the engine reads out of a validated claim set: the total accessors *)
(* of lib/authengine/claims.go and the mapping of principal.go.            *)
(*                                                                         *)
(* A claim set is a record with one field per claim the engine reads.  A   *)
(* text claim is a value, or Absent, or WrongType for any JSON value that  *)
(* is not text.  A flag claim is "absent", "bool:true", "bool:false",      *)
(* "text:true", "text:false" or "other".  A list claim is a record of its  *)
(* JSON shape ("none", "text" or "list") and its members; the members in   *)
(* NonText are numbers, objects and the like.  The registration claims are *)
(* a function from claim keys to flag values.                              *)
(***************************************************************************)
EXTENDS Integers

CONSTANTS
    Absent,     \* no claim, and the nil pointer of an optional field
    WrongType,  \* a JSON value of another type than the reader expects
    NonText,    \* members of a mixed list that are not text
    Backends,   \* the names backends go by, several spellings of one included
    Slug        \* Slug[b] is coreutils.Slugify(b)

--------------------------------------------------------------------------------
(* claims.go: every accessor is total. *)

Text(value) == IF value = WrongType THEN Absent ELSE value

\* Both encodings of a boolean are read, and nothing else is one.
Flag(value) == value \in {"bool:true", "text:true"}

\* One text is a list of one; a mixed list keeps its text members.
List(value) == IF value.shape = "none" THEN {} ELSE value.members \ NonText

\* A scope is one text split on blanks: a JSON list is not a scope.
Space(value) == IF value.shape = "text" THEN value.members ELSE {}

\* The expiry as the instant it names, Absent when it is no number.
Instant(value) == IF value = WrongType THEN Absent ELSE value

--------------------------------------------------------------------------------
(* principal.go *)

\* Wrong on purpose, as every ...Mutant: the claim is not derived from the slug.
RegistrationClaimMutant(backend) == backend

RegistrationClaim(backend) == Slug[backend]

\* ClaimMapper.Map: no claim shape makes it fail.
Map(claims) ==
    [subject       |-> Text(claims.sub),
     issuer        |-> Text(claims.iss),
     audience      |-> List(claims.aud),
     username      |-> Text(claims.username),
     email         |-> Text(claims.email),
     emailVerified |-> Flag(claims.email_verified),
     roles         |-> List(claims.roles),
     scopes        |-> Space(claims.scope),
     homeLandscape |-> Text(claims.home_landscape),
     expiresAt     |-> Instant(claims.exp),
     claims        |-> claims]

Registered(principal, backend) ==
    Flag(principal.claims.registration[RegistrationClaim(backend)])

================================================================================
