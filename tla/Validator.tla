------------------------------- MODULE Validator -------------------------------
(***************************************************************************)
(* Token validation, lib/authengine/validator.go, and the onboarding       *)
(* extraction of onboarding_tokens.go, as pure functions of the token, the *)
(* instant the clock was read at and the keys the key source can produce.  *)
(* The steps between which other things happen (the clock is read, THEN    *)
(* the key is fetched) are the business of the module that calls these.    *)
(*                                                                         *)
(* A token is Blank or a record: does it parse as a JWT, its algorithm,    *)
(* the key id of its header (Absent when there is none), the key that      *)
(* signed it, and its claim set.                                           *)
(***************************************************************************)
EXTENDS Guard

CONSTANTS
    Issuer,      \* the baked issuer
    Audience,    \* the audience of access tokens
    Algorithms,  \* the accepted signing algorithms, none of them symmetric
    LibraryAlgorithms,  \* those the jwt library has an implementation of
    Leeway       \* clock drift absorbed between issuer and verifier

\* The empty bearer value: it is no JWT.
Blank == [parses |-> FALSE]

\* The blank audience of ValidateIDToken: no audience check.
AnyAudience == Absent

--------------------------------------------------------------------------------
(* What jwt.Parser.ParseWithClaims reports.  The library stops at the first *)
(* failing stage; the claim checks of the last stage all run and are joined.*)

\* Definitions named ...Mutant are wrong on purpose: each is a bug the definition
\* after it could have had, which a property of Access
\* detects.
ClaimErrorsMutant(claims, audience, at) ==
    {e \in {"expired"} : ~(at < Instant(claims.exp) - Leeway)}

\* The library refuses a list that is not all text, where Principal's List keeps
\* the texts of it; a not-before instant is no error to leave out.
ClaimErrors(claims, audience, at) ==
    LET exp == Instant(claims.exp)
        nbf == Instant(claims.nbf)
        iss == Text(claims.iss)
        aud == List(claims.aud)
        mixed == claims.aud.members \cap NonText # {}
    IN  {e \in {"missing", "early", "mixed", "expired", "issuer", "audience"} :
            \/ e = "missing" /\ (exp = Absent \/ iss = Absent \/ claims.nbf = WrongType)
            \/ e = "missing" /\ audience # AnyAudience /\ aud = {}
            \/ e = "early" /\ nbf # Absent /\ at < nbf - Leeway
            \/ e = "mixed" /\ audience # AnyAudience /\ mixed
            \/ e = "expired" /\ exp # Absent /\ ~(at < exp + Leeway)
            \/ e = "issuer" /\ iss \notin {Absent, Issuer}
            \/ /\ e = "audience" /\ audience # AnyAudience
               /\ aud # {} /\ ~mixed /\ audience \notin aud}

\* keyfunc answers only for a key id the key source can produce a key for.
Errors(token, audience, at, keys) ==
    IF ~token.parses \/ token.alg \notin LibraryAlgorithms THEN {"malformed"}
    ELSE IF token.alg \notin Algorithms THEN {"signature"}
    ELSE IF token.kid \notin keys THEN {"carried"}
    ELSE IF token.signedBy # token.kid THEN {"signature"}
    ELSE ClaimErrors(token.claims, audience, at)

--------------------------------------------------------------------------------
(* validator.go *)

\* The key resolver's own problem surfaces first, and an aged-out token
\* reports as aged out whatever else is wrong with its claims.
classify(errors) ==
    IF "carried" \in errors THEN "signing-key-unknown"
    ELSE IF "expired" \in errors THEN "token-expired"
    ELSE IF "issuer" \in errors THEN "token-issuer-mismatch"
    ELSE IF "audience" \in errors THEN "token-audience-mismatch"
    ELSE IF "signature" \in errors THEN "token-signature-invalid"
    ELSE "token-malformed"

parse(token, audience, at, keys) ==
    IF token = Blank THEN "token-malformed"
    ELSE LET errors == Errors(token, audience, at, keys)
         IN  IF errors = {} THEN Passed ELSE classify(errors)

ValidateMutant(token, at, keys) == parse(token, AnyAudience, at, keys)

Validate(token, at, keys) == parse(token, Audience, at, keys)

ValidateIDToken(token, at, keys) == parse(token, AnyAudience, at, keys)

--------------------------------------------------------------------------------
(* onboarding_tokens.go, from the two principals on.  authorization is the *)
(* subject of the caller's own header, Absent to skip that check.          *)

ExtractOnboardingMutant(access, identity, authorization) ==
    IF access.subject # identity.subject THEN "token-subject-mismatch"
    ELSE IF ~identity.emailVerified THEN "token-claim-missing"
    ELSE Passed

ExtractOnboarding(access, identity, authorization) ==
    IF \/ access.subject # identity.subject
       \/ authorization # Absent /\ authorization # identity.subject
    THEN "token-subject-mismatch"
    ELSE IF \/ identity.username = Absent
            \/ identity.email = Absent
            \/ ~identity.emailVerified
    THEN "token-claim-missing"
    ELSE Passed

--------------------------------------------------------------------------------
(* problems.go: the problems whose declaration says the client can recover. *)

Recoverable ==
    {"token-expired", "signing-key-unknown", "registration-missing",
     "deferred-token-expired", "onboarding-stalled", "home-landscape-unresolved",
     "provider-unavailable"}

================================================================================
