------------------------------ MODULE AccessProofs ------------------------------
(***************************************************************************)
(* What TLAPS proves of Access, for every set of users, roles, keys,       *)
(* requests and policies, every lifetime, leeway and clock error, and      *)
(* without the bounds on changes and faults.                               *)
(*                                                                         *)
(* First what the pure functions say of a token the provider minted: when  *)
(* validation passes it, why it is refused, what a guard lets it do.  Then *)
(* an invariant that follows a request: the sessions it carries are the    *)
(* provider's word at the instant they were minted (SessionOK), and an     *)
(* answer is one the last token's verdict and the guard justify (CallOK).  *)
(***************************************************************************)
EXTENDS Access, TLAPS

--------------------------------------------------------------------------------
(* What the accessors read in a token the provider minted. *)

LEMMA ListSub ==
  ASSUME NEW values
  PROVE  /\ List(ListClaim(values)) = values \ NonText
         /\ List(RolesClaim(values)) \subseteq values
BY DEF List, ListClaim, RolesClaim

LEMMA NoScopes == Space(ListClaim({})) = {}
BY DEF Space, ListClaim

LEMMA MintedClaims ==
  ASSUME NEW s \in Sessions, NEW issuer, NEW audience
  PROVE  LET claims == Claims(s, issuer, audience)
             caller == Map(claims)
         IN  /\ caller.subject = s.sub
             /\ Scope(caller, "roles") \subseteq s.roles
             /\ Scope(caller, "scope") = {}
             /\ caller.emailVerified => s.sub \notin unverified
             /\ Instant(claims.exp) = s.issued + Lifetime
             /\ Text(claims.iss) = Text(issuer)
             /\ List(claims.aud) = {audience} \ NonText
             /\ claims.nbf = Absent /\ claims.aud.members = {audience}
<1> DEFINE claims == Claims(s, issuer, audience)
           caller == Map(claims)
<1>1. s.sub \in Users /\ s.issued \in Nat /\ s.issued + Lifetime \in Nat
  BY ConfigAssumption DEF ConfigAssumption, Sessions, Instants
<1>2. /\ claims.sub = s.sub /\ claims.exp = s.issued + Lifetime /\ claims.iss = issuer
      /\ claims.aud = ListClaim({audience}) /\ claims.roles = RolesClaim(s.roles)
      /\ claims.scope = ListClaim({}) /\ claims.nbf = Absent
      /\ claims.email_verified = FlagClaim(s.sub \notin unverified)
  BY DEF Claims
<1>3. /\ caller.subject = Text(claims.sub) /\ caller.roles = List(claims.roles)
      /\ caller.scopes = Space(claims.scope)
      /\ caller.emailVerified = Flag(claims.email_verified)
  BY DEF Map
<1>4. caller.subject = s.sub /\ Instant(claims.exp) = s.issued + Lifetime
  BY <1>1, <1>2, <1>3, ConfigAssumption DEF ConfigAssumption, Text, Instant
<1>5. Scope(caller, "roles") \subseteq s.roles /\ Scope(caller, "scope") = {}
  BY <1>2, <1>3, ListSub, NoScopes DEF Scope
<1>6. Flag(FlagClaim(s.sub \notin unverified)) => s.sub \notin unverified
  BY DEF Flag, FlagClaim
<1>7. List(claims.aud) = {audience} \ NonText /\ claims.aud.members = {audience}
  BY <1>2, ListSub DEF ListClaim
<1>8. QED
  BY <1>2, <1>3, <1>4, <1>5, <1>6, <1>7

--------------------------------------------------------------------------------
(* Validation of a token the provider minted. *)

\* The instants at which a token of session s is alive to a verifier that is right.
Alive(s, at) == at < s.issued + Lifetime + Leeway

\* The verdicts an own token may get.
Honest(s, verdict, at, keys) ==
  \/ verdict = Passed /\ Alive(s, at)
  \/ verdict = "token-expired" /\ ~Alive(s, at)
  \/ verdict = "signing-key-unknown" /\ s.key \notin keys

LEMMA MintedErrors ==
  ASSUME NEW s \in Sessions, NEW issuer, NEW aud, NEW audience, NEW at, NEW keys
  PROVE  LET errors == ClaimErrors(Claims(s, issuer, aud), audience, at)
         IN  /\ "expired" \in errors <=> ~Alive(s, at)
             /\ issuer = Issuer => "issuer" \notin errors
             /\ issuer = "other" => errors # {}
             /\ audience = AnyAudience \/ audience \in {aud} \ NonText =>
                  "audience" \notin errors
             /\ audience # AnyAudience /\ aud # audience => errors # {}
             /\ issuer = Issuer /\ (audience = AnyAudience \/ audience \in {aud} \ NonText) =>
                  errors \cap {"missing", "mixed"} = {}
             /\ errors \subseteq {"missing", "mixed", "expired", "issuer", "audience"}
<1> DEFINE claims == Claims(s, issuer, aud)
           errors == ClaimErrors(claims, audience, at)
<1>1. /\ Instant(claims.exp) = s.issued + Lifetime /\ Text(claims.iss) = Text(issuer)
      /\ List(claims.aud) = {aud} \ NonText
      /\ claims.nbf = Absent /\ claims.aud.members = {aud}
  BY MintedClaims
<1>2. s.issued + Lifetime # Absent
  BY ConfigAssumption DEF ConfigAssumption, Sessions, Instants
<1> HIDE DEF claims
<1>3. /\ "missing" \in errors <=>
           Text(issuer) = Absent \/ (audience # AnyAudience /\ {aud} \ NonText = {})
      /\ "expired" \in errors <=> ~Alive(s, at)
      /\ "issuer" \in errors <=> Text(issuer) \notin {Absent, Issuer}
      /\ "audience" \in errors <=>
           audience # AnyAudience /\ aud \notin NonText /\ audience # aud
      /\ "mixed" \in errors <=> audience # AnyAudience /\ aud \in NonText
  BY <1>1, <1>2, ConfigAssumption DEF ConfigAssumption, ClaimErrors, Alive, Instant
<1>4. errors \subseteq {"missing", "mixed", "expired", "issuer", "audience"}
  BY <1>1 DEF ClaimErrors, Instant
<1>5. Text(Issuer) = Issuer /\ Text("other") # Issuer
  BY ConfigAssumption DEF ConfigAssumption, Text
<1> HIDE DEF errors
<1>6. issuer = "other" => errors # {}
  BY <1>3, <1>5
<1>7. audience # AnyAudience /\ aud # audience => errors # {}
  BY <1>3
<1>8. Issuer # Absent
  BY ConfigAssumption DEF ConfigAssumption
<1>9. QED
  BY <1>3, <1>4, <1>5, <1>6, <1>7, <1>8 DEF errors, claims

LEMMA Passing ==
  ASSUME NEW token, NEW audience, NEW at, NEW keys
  PROVE  /\ parse(token, audience, at, keys) = Passed <=>
              token # Blank /\ Errors(token, audience, at, keys) = {}
         /\ token.parses /\ token.kid \notin keys /\ token.alg \in Algorithms
              => Errors(token, audience, at, keys) = {"carried"}
         /\ Errors(token, audience, at, keys) = {} =>
              ClaimErrors(token.claims, audience, at) = {}
<1>1. \A errors : classify(errors) # Passed
  BY DEF classify, Passed
<1>2. parse(token, audience, at, keys) = Passed <=>
        token # Blank /\ Errors(token, audience, at, keys) = {}
  <2>1. "token-malformed" # Passed
    BY DEF Passed
  <2>2. QED
    BY <1>1, <2>1 DEF parse
<1>3. token.parses /\ token.kid \notin keys /\ token.alg \in Algorithms
        => Errors(token, audience, at, keys) = {"carried"}
  BY ConfigAssumption DEF ConfigAssumption, Errors
<1>4. Errors(token, audience, at, keys) = {} => ClaimErrors(token.claims, audience, at) = {}
  BY DEF Errors
<1>5. QED
  BY <1>2, <1>3, <1>4

\* The client's own tokens are refused for two reasons only.
LEMMA OwnVerdict ==
  ASSUME NEW s \in Sessions, NEW at, NEW keys
  PROVE  /\ Honest(s, Validate(AccessToken(s), at, keys), at, keys)
         /\ Honest(s, ValidateIDToken(IDToken(s), at, keys), at, keys)
<1>1. ASSUME NEW aud, NEW audience,
             audience = AnyAudience \/ audience \in {aud} \ NonText,
             NEW token, token = Signed(s.key, Claims(s, Issuer, aud))
      PROVE  Honest(s, parse(token, audience, at, keys), at, keys)
  <2> DEFINE errors == ClaimErrors(token.claims, audience, at)
  <2>1. /\ token.parses /\ token.alg = "RS256" /\ token.kid = s.key
        /\ token.signedBy = s.key /\ token.claims = Claims(s, Issuer, aud)
    BY <1>1 DEF Signed
  <2>2. token # Blank
    <3>1. token.parses = TRUE /\ Blank.parses = FALSE
      BY <1>1 DEF Signed, Blank
    <3>2. QED
      BY <3>1
  <2>3. token.alg \in Algorithms /\ token.alg \in LibraryAlgorithms
    BY <2>1, ConfigAssumption DEF ConfigAssumption
  <2>4. errors = {} \/ errors = {"expired"}
    BY <1>1, <2>1, MintedErrors
  <2>5. "expired" \in errors <=> ~Alive(s, at)
    BY <1>1, <2>1, MintedErrors
  <2> HIDE DEF errors
  <2>6. CASE s.key \in keys
    <3>1. Errors(token, audience, at, keys) = errors
      BY <2>1, <2>3, <2>6 DEF Errors, errors
    <3>2. parse(token, audience, at, keys) = IF errors = {} THEN Passed ELSE classify(errors)
      BY <2>2, <3>1 DEF parse
    <3>3. CASE errors = {}
      BY <2>5, <3>2, <3>3 DEF Honest
    <3>4. CASE errors = {"expired"}
      BY <2>5, <3>2, <3>4 DEF Honest, classify
    <3>5. QED
      BY <2>4, <3>3, <3>4
  <2>7. CASE s.key \notin keys
    <3>1. Errors(token, audience, at, keys) = {"carried"}
      BY <2>1, <2>3, <2>7, Passing
    <3>2. parse(token, audience, at, keys) = "signing-key-unknown"
      BY <2>2, <3>1 DEF parse, classify
    <3>3. QED
      BY <2>7, <3>2 DEF Honest
  <2>8. QED
    BY <2>6, <2>7
<1>2. Audience \in {Audience} \ NonText
  BY ConfigAssumption DEF ConfigAssumption
<1>3. QED
  BY <1>1, <1>2 DEF Validate, ValidateIDToken, AccessToken, IDToken

\* Nothing but an access token of this issuer, for this API, passes.
LEMMA ForeignVerdict ==
  ASSUME NEW s \in Sessions, NEW present \in Presented \ {"access"}, NEW at, NEW keys
  PROVE  Validate(Token(s, present), at, keys) # Passed
<1>1. ASSUME NEW key, NEW issuer, NEW aud, issuer = "other" \/ aud # Audience
      PROVE  Validate(Signed(key, Claims(s, issuer, aud)), at, keys) # Passed
  <2> DEFINE token == Signed(key, Claims(s, issuer, aud))
  <2>1. token.claims = Claims(s, issuer, aud)
    BY DEF Signed
  <2>2. ClaimErrors(token.claims, Audience, at) # {}
    BY <1>1, <2>1, MintedErrors, ConfigAssumption DEF ConfigAssumption, AnyAudience
  <2>3. QED
    BY <2>2, Passing DEF Validate
<1>2. Validate(Blank, at, keys) # Passed
  BY DEF Validate, parse, Passed
<1>3. "client" # Audience
  BY ConfigAssumption DEF ConfigAssumption
<1>4. QED
  BY <1>1, <1>2, <1>3 DEF Token, IDToken, Presented

--------------------------------------------------------------------------------
(* The guards, asked about the principal of an own access token.            *)

AskOK(ask) ==
  /\ ask.kind \in Kinds /\ ask.present \in Presented
  /\ ask.kind = "onboard" => ask.access \in Users /\ ask.id \in Users

\* The sessions a request of u carries are those of the users it names.
Carried(u, c) ==
  \A step \in Steps(c.ask) :
    c.sessions[step] \in Sessions /\ c.sessions[step].sub = Owner(u, c.ask, step)

\* What the roles of a session, or owning the rows, entitle its holder to.
Rights(u, c) ==
  LET ask == c.ask
      granted == c.sessions["header"].roles
  IN  /\ ask.kind = "sub" => ask.target = u
      /\ ask.kind = "any" => ask.target = u \/ ask.required \cap granted # {}
      /\ ask.kind = "all" =>
            ask.target = u \/ (ask.required # {} /\ ask.required \subseteq granted)
      /\ ask.kind = "policy" => Policies[ask.policy].target \cap granted # {}

LEMMA OutcomeKinds ==
  ASSUME NEW c, c.ask.kind \in Kinds
  PROVE  Outcome(c) \in GuardRefusals \cup {Passed}
BY DEF Kinds, Outcome, GuardRefusals, Sub, SubOrAny, SubOrAll, Decide, Policy,
       RegisteredGuard, ExtractOnboarding

LEMMA HeaderStep == ASSUME NEW ask PROVE "header" \in Steps(ask)
BY DEF Steps

LEMMA OwnPrincipal ==
  ASSUME NEW u \in Clients, NEW c, Carried(u, c), c.ask.present = "access"
  PROVE  LET caller == PrincipalOf(c, "header")
         IN  /\ caller.subject = u
             /\ Scope(caller, "roles") \subseteq c.sessions["header"].roles
             /\ Scope(caller, "scope") = {}
<1> DEFINE s == c.sessions["header"]
<1>1. s \in Sessions /\ s.sub = u
  BY HeaderStep DEF Carried, Owner
<1>2. TokenOf(c, "header") = Signed(s.key, Claims(s, Issuer, Audience))
  BY DEF TokenOf, Token, AccessToken
<1>3. PrincipalOf(c, "header") = Map(Claims(s, Issuer, Audience))
  BY <1>2 DEF PrincipalOf, Signed
<1>4. QED
  BY <1>1, <1>3, MintedClaims

LEMMA GuardAllows ==
  ASSUME NEW u \in Clients, NEW c, AskOK(c.ask), Carried(u, c),
         c.ask.present = "access", Outcome(c) = Passed
  PROVE  Rights(u, c)
<1> DEFINE caller == PrincipalOf(c, "header")
           ask == c.ask
           granted == c.sessions["header"].roles
<1>1. /\ caller.subject = u /\ Scope(caller, "roles") \subseteq granted
      /\ Scope(caller, "scope") = {}
  BY OwnPrincipal
<1>2. ASSUME NEW target, guardOwns(caller, target)
      PROVE  target = u
  BY <1>1, <1>2 DEF guardOwns
<1> HIDE DEF caller
<1>3. CASE ask.kind = "sub"
  <2>1. Decide(guardOwns(caller, ask.target)) = Passed
    BY <1>3 DEF Outcome, Sub, caller
  <2>2. guardOwns(caller, ask.target)
    BY <2>1 DEF Decide, Passed
  <2>3. QED
    BY <1>2, <1>3, <2>2 DEF Rights
<1>4. CASE ask.kind = "any"
  <2>1. Decide(guardOwns(caller, ask.target) \/ HasAny(caller, "roles", ask.required)) = Passed
    BY <1>4 DEF Outcome, SubOrAny, caller
  <2>2. guardOwns(caller, ask.target) \/ HasAny(caller, "roles", ask.required)
    BY <2>1 DEF Decide, Passed
  <2>3. QED
    BY <1>1, <1>2, <1>4, <2>2 DEF Rights, HasAny
<1>5. CASE ask.kind = "all"
  <2>1. Decide(guardOwns(caller, ask.target) \/ HasAll(caller, "roles", ask.required)) = Passed
    BY <1>5 DEF Outcome, SubOrAll, caller
  <2>2. guardOwns(caller, ask.target) \/ HasAll(caller, "roles", ask.required)
    BY <2>1 DEF Decide, Passed
  <2>3. QED
    BY <1>1, <1>2, <1>5, <2>2 DEF Rights, HasAll
<1>6. CASE ask.kind = "policy"
  <2> DEFINE policy == Policies[ask.policy]
  <2>1. Policy(caller, Policies, ask.policy) = Passed
    BY <1>6 DEF Outcome, caller
  <2>2. ask.policy \in DOMAIN Policies /\ Decide(satisfies(caller, policy)) = Passed
    BY <2>1 DEF Policy, Passed
  <2>3. satisfies(caller, policy) /\ policy.field \in {"roles", "scope"}
    BY <2>2, ConfigAssumption DEF ConfigAssumption, Decide, Passed
  <2>4. policy.target \cap Scope(caller, policy.field) # {}
    BY <2>3 DEF satisfies, HasAny, HasAll
  <2>5. QED
    BY <1>1, <1>6, <2>3, <2>4 DEF Rights
<1>7. CASE ask.kind \in {"registered", "onboard"}
  BY <1>7 DEF Rights
<1>8. QED
  BY <1>3, <1>4, <1>5, <1>6, <1>7 DEF AskOK, Kinds

\* Onboarding passes for three tokens of one verified user only.
LEMMA OnboardAllows ==
  ASSUME NEW u \in Clients, NEW c, AskOK(c.ask), Carried(u, c), c.ask.kind = "onboard",
         c.ask.present = "access", Outcome(c) = Passed
  PROVE  c.ask.access = u /\ c.ask.id = u /\ u \notin unverified
<1> DEFINE access == PrincipalOf(c, "access")
           identity == PrincipalOf(c, "id")
           a == c.sessions["access"]
           i == c.sessions["id"]
<1>1. /\ a \in Sessions /\ a.sub = c.ask.access
      /\ i \in Sessions /\ i.sub = c.ask.id
  BY DEF Carried, Steps, Owner
<1>2. /\ access = Map(Claims(a, Issuer, Audience))
      /\ identity = Map(Claims(i, Issuer, "client"))
  BY DEF PrincipalOf, TokenOf, AccessToken, IDToken, Signed
<1>3. /\ access.subject = c.ask.access /\ identity.subject = c.ask.id
      /\ identity.emailVerified => c.ask.id \notin unverified
  BY <1>1, <1>2, MintedClaims
<1>4. PrincipalOf(c, "header").subject = u
  BY OwnPrincipal
<1>5. ExtractOnboarding(access, identity, u) = Passed
  BY <1>4 DEF Outcome
<1>6. u # Absent
  BY ConfigAssumption DEF ConfigAssumption
<1> HIDE DEF access, identity
<1>7. QED
  BY <1>3, <1>5, <1>6 DEF ExtractOnboarding, Passed

--------------------------------------------------------------------------------
(* The invariant.  SessionOK needs the roles table to be up to date         *)
(* (Current); what CallOK says of a refusal stays true because a retired    *)
(* key is never published again.                                            *)

\* What a step of a request leaves alone, and what it may change.
Provided ==
  /\ now \in Instants /\ offset \in -Drift..Drift
  /\ [offset |-> offset, encoding |-> encoding, unverified |-> unverified] \in Environments
  /\ roles \in [Users -> SUBSET Roles]
  /\ signing \in published /\ published \subseteq Keys
  /\ lastHad \in [Users -> [Roles -> Instants \cup {Never}]]
  /\ changes \in 0..MaxChanges

Kept ==
  /\ registered \in [Users -> SUBSET {RegistrationClaim(b) : b \in Backends}]
  /\ known \subseteq Keys /\ faults \in 0..MaxFaults

Current ==
  \A u \in Users, r \in Roles :
    lastHad[u][r] <= now /\ (r \in roles[u] => lastHad[u][r] = now)

SessionOK(s) ==
  /\ s \in Sessions /\ s.key <= signing
  /\ \A r \in s.roles : s.issued <= lastHad[s.sub][r]

\* An answer that lets the caller through.
Allowed(u, c) ==
  /\ c.ask.present = "access"
  /\ \A step \in Steps(c.ask) : Owner(u, c.ask, step) = u
  /\ c.ask.kind = "onboard" => u \notin unverified
  /\ c.read < c.sessions["header"].issued + Lifetime + Leeway + Drift
  /\ Rights(u, c)

\* An answer that turns the caller's own token away.
Excused(c) ==
  LET session == c.sessions[c.step] IN
  \/ /\ c.outcome = "token-expired"
     /\ c.read + Drift >= session.issued + Lifetime + Leeway
  \/ /\ c.outcome = "signing-key-unknown"
     /\ c.blip \/ session.key \notin published
  \/ c.outcome = "provider-unavailable" /\ c.blip

CallOK(u, c) ==
  /\ c.phase \in {"idle", "ready", "resolving", "answered"}
  /\ c.phase # "idle" => AskOK(c.ask) /\ AskOK(c.want)
  /\ c.phase \in {"resolving", "answered"} =>
       /\ c.step \in Steps(c.ask) /\ c.read \in Instants
       /\ Carried(u, c)
       /\ \A step \in Steps(c.ask) :
            /\ SessionOK(c.sessions[step])
            /\ Owner(u, c.ask, step) = u => c.sessions[step] = c.sessions["header"]
       /\ c.step # "header" => c.ask.present = "access"
  /\ c.phase = "answered" =>
       /\ c.outcome = Passed => Allowed(u, c)
       /\ c.ask.present = "access" /\ c.outcome \notin GuardRefusals \cup {Passed} =>
            Excused(c)

Calls ==
  /\ DOMAIN call = Clients /\ call = [u \in Clients |-> call[u]]
  /\ \A u \in Clients : CallOK(u, call[u])

Holdings ==
  held \in [Users -> Sessions] /\ \A u \in Users : held[u].sub = u /\ SessionOK(held[u])

Inv == Provided /\ Kept /\ Current /\ Calls /\ Holdings

LEMMA InvTypes == Inv => TypeOK
BY DEF Inv, Provided, Kept, Calls, CallOK, Holdings, TypeOK

\* What no step undoes.
Onward ==
  /\ signing <= signing'
  /\ \A u \in Users, r \in Roles : lastHad[u][r] <= lastHad'[u][r]
  /\ \A k \in Keys : k <= signing /\ k \notin published => k \notin published'
  /\ UNCHANGED <<offset, encoding, unverified>>

LEMMA SessionStays ==
  ASSUME Provided, Provided', Onward, NEW s, SessionOK(s)
  PROVE  SessionOK(s)'
<1>1. s.key \in Nat /\ signing \in Nat /\ signing' \in Nat
  BY ConfigAssumption DEF ConfigAssumption, Provided, SessionOK, Sessions
<1>2. s.sub \in Users /\ s.roles \subseteq Roles /\ s.issued \in Int
  BY ConfigAssumption DEF ConfigAssumption, SessionOK, Sessions, Instants
<1>3. \A r \in Roles : lastHad[s.sub][r] \in Int /\ lastHad'[s.sub][r] \in Int
  BY <1>2, ConfigAssumption DEF ConfigAssumption, Provided, Instants, Never
<1>4. s.key <= signing'
  BY <1>1 DEF SessionOK, Onward
<1>5. \A r \in s.roles : s.issued <= lastHad'[s.sub][r]
  BY <1>2, <1>3 DEF SessionOK, Onward
<1>6. QED
  BY <1>4, <1>5 DEF SessionOK

LEMMA CallStays ==
  ASSUME Provided, Provided', Onward, NEW u, NEW c, CallOK(u, c)
  PROVE  CallOK(u, c)'
<1>1. c.phase \in {"resolving", "answered"} =>
        \A step \in Steps(c.ask) : SessionOK(c.sessions[step])'
  BY SessionStays DEF CallOK
<1>2. Carried(u, c)' = Carried(u, c) /\ Rights(u, c)' = Rights(u, c)
      /\ AskOK(c.ask)' = AskOK(c.ask) /\ AskOK(c.want)' = AskOK(c.want)
  BY DEF Carried, Rights, AskOK
<1>3. Allowed(u, c) => Allowed(u, c)'
  BY <1>2 DEF Allowed, Onward
<1>4. ASSUME c.phase \in {"resolving", "answered"}, Excused(c)
      PROVE  Excused(c)'
  <2>1. c.sessions[c.step].key \in Keys /\ c.sessions[c.step].key <= signing
    BY <1>4 DEF CallOK, SessionOK, Sessions
  <2>2. QED
    BY <1>4, <2>1 DEF Excused, Onward
<1>5. QED
  BY <1>1, <1>2, <1>3, <1>4 DEF CallOK

\* A step of the provider, or of the key set's copy.
LEMMA QuietStep ==
  ASSUME Inv, Provided', Kept', Current', Onward, UNCHANGED held, UNCHANGED call
  PROVE  Inv'
<1>1. Holdings'
  BY SessionStays DEF Inv, Holdings
<1>2. Calls'
  BY CallStays DEF Inv, Calls
<1>3. QED
  BY <1>1, <1>2 DEF Inv

\* A step of the request of u.
LEMMA CallStep ==
  ASSUME Inv, Kept', Holdings', NEW u \in Clients, NEW c, CallOK(u, c),
         UNCHANGED <<now, offset, roles, signing, published, encoding, unverified,
                     lastHad, changes>>,
         call' = [call EXCEPT ![u] = c]
  PROVE  Inv'
<1>1. Provided /\ Provided' /\ Current' /\ Onward
  <2>1. Provided' /\ Current'
    BY DEF Inv, Provided, Current
  <2>2. \A v \in Users, r \in Roles : lastHad[v][r] \in Int
    BY ConfigAssumption DEF ConfigAssumption, Inv, Provided, Instants, Never
  <2>3. signing \in Int
    BY ConfigAssumption DEF ConfigAssumption, Inv, Provided
  <2>4. Onward
    BY <2>2, <2>3 DEF Onward
  <2>5. QED
    BY <2>1, <2>4 DEF Inv
<1>2. /\ DOMAIN call' = Clients /\ call' = [v \in Clients |-> call'[v]]
      /\ call'[u] = c /\ \A v \in Clients \ {u} : call'[v] = call[v]
  BY DEF Inv, Calls
<1>3. CallOK(u, c)' /\ \A v \in Clients : CallOK(v, call[v])'
  BY <1>1, <1>2, CallStays DEF Inv, Calls
<1>4. Calls'
  BY <1>2, <1>3 DEF Calls
<1>5. QED
  BY <1>1, <1>4 DEF Inv

--------------------------------------------------------------------------------
(* The steps of the provider. *)

LEMMA ProviderStep ==
  ASSUME Inv,
         \/ Tick \/ RefreshKeys \/ UNCHANGED vars
         \/ \E u \in Clients, r \in Roles : GrantRole(u, r) \/ RevokeRole(u, r)
         \/ \E k \in Keys : RotateKey(k) \/ RetireKey(k)
  PROVE  Inv'
<1>1. /\ Provided /\ Kept /\ Current /\ MaxTime \in Nat /\ MaxChanges \in Nat
      /\ signing \in Nat /\ Keys \subseteq Nat /\ Clients \subseteq Users
      /\ now \in Nat /\ changes \in Nat
      /\ \A v \in Users, q \in Roles : lastHad[v][q] \in Int
  BY ConfigAssumption DEF ConfigAssumption, Inv, Provided, Instants, Never
<1>2. ASSUME Provided', Kept', Current', Onward, UNCHANGED held, UNCHANGED call
      PROVE  Inv'
  BY <1>2, QuietStep
<1>3. CASE Tick
  <2>1. \A v \in Users, q \in Roles :
          lastHad'[v][q] = IF q \in roles[v] THEN now + 1 ELSE lastHad[v][q]
    BY <1>3 DEF Tick
  <2>2. lastHad' \in [Users -> [Roles -> Instants \cup {Never}]]
    BY <1>1, <1>3 DEF Tick, Provided, Instants
  <2>3. Provided' /\ Kept'
    BY <1>1, <1>3, <2>2 DEF Tick, Provided, Kept, Instants
  <2>4. Current'
    BY <1>1, <1>3, <2>1 DEF Tick, Current
  <2>5. Onward
    BY <1>1, <1>3, <2>1 DEF Tick, Current, Onward
  <2>6. QED
    BY <1>2, <1>3, <2>3, <2>4, <2>5 DEF Tick
<1>4. ASSUME NEW u \in Clients, NEW r \in Roles, GrantRole(u, r)
      PROVE  Inv'
  <2>1. /\ lastHad'[u][r] = now
        /\ \A v \in Users, q \in Roles :
             v # u \/ q # r => lastHad'[v][q] = lastHad[v][q]
        /\ \A v \in Users, q \in Roles :
             q \in roles'[v] <=> q \in roles[v] \/ (v = u /\ q = r)
    BY <1>1, <1>4 DEF GrantRole, Provided
  <2>2. lastHad' \in [Users -> [Roles -> Instants \cup {Never}]]
    BY <1>1, <1>4 DEF GrantRole, Provided
  <2>3. Provided' /\ Kept'
    BY <1>1, <1>4, <2>2 DEF GrantRole, Change, Provided, Kept
  <2>4. Current'
    BY <1>1, <1>4, <2>1 DEF GrantRole, Current
  <2>5. Onward
    BY <1>1, <1>4, <2>1 DEF GrantRole, Current, Onward
  <2>6. QED
    BY <1>2, <1>4, <2>3, <2>4, <2>5 DEF GrantRole
<1>5. ASSUME NEW u \in Clients, NEW r \in Roles, RevokeRole(u, r)
      PROVE  Inv'
  <2>1. \A v \in Users : roles'[v] \subseteq roles[v]
    BY <1>1, <1>5 DEF RevokeRole, Provided
  <2>2. Provided' /\ Kept'
    BY <1>1, <1>5 DEF RevokeRole, Change, Provided, Kept
  <2>3. Current' /\ Onward
    BY <1>1, <1>5, <2>1 DEF RevokeRole, Current, Onward
  <2>4. QED
    BY <1>2, <1>5, <2>2, <2>3 DEF RevokeRole
<1>6. ASSUME NEW k \in Keys, RotateKey(k)
      PROVE  Inv'
  <2>1. Provided' /\ Kept'
    BY <1>1, <1>6 DEF RotateKey, Change, Provided, Kept
  <2>2. Current' /\ Onward
    BY <1>1, <1>6 DEF RotateKey, Current, Onward
  <2>3. QED
    BY <1>2, <1>6, <2>1, <2>2 DEF RotateKey
<1>7. ASSUME NEW k \in Keys, RetireKey(k)
      PROVE  Inv'
  <2>1. Provided' /\ Kept'
    BY <1>1, <1>7 DEF RetireKey, Provided, Kept
  <2>2. Current' /\ Onward
    BY <1>1, <1>7 DEF RetireKey, Current, Onward
  <2>3. QED
    BY <1>2, <1>7, <2>1, <2>2 DEF RetireKey
<1>8. CASE RefreshKeys
  <2>1. Provided' /\ Kept'
    BY <1>1, <1>8 DEF RefreshKeys, idpVars, Provided, Kept
  <2>2. Current' /\ Onward
    BY <1>1, <1>8 DEF RefreshKeys, idpVars, Current, Onward
  <2>3. QED
    BY <1>2, <1>8, <2>1, <2>2 DEF RefreshKeys
<1>9. CASE UNCHANGED vars
  <2>1. Provided' /\ Kept'
    BY <1>9 DEF vars, Inv, Provided, Kept
  <2>2. Current' /\ Onward
    BY <1>1, <1>9 DEF vars, Current, Onward
  <2>3. QED
    BY <1>2, <1>9, <2>1, <2>2 DEF vars
<1>10. QED
  BY <1>3, <1>4, <1>5, <1>6, <1>7, <1>8, <1>9

--------------------------------------------------------------------------------
(* The steps of a request. *)

LEMMA NewSessionOK ==
  ASSUME Inv, NEW u \in Users
  PROVE  SessionOK(NewSession(u)) /\ NewSession(u).sub = u
<1>1. NewSession(u) \in Sessions
  BY DEF Inv, Provided, Kept, NewSession, Sessions
<1>2. \A r \in roles[u] : lastHad[u][r] = now
  BY DEF Inv, Current, Provided
<1>3. signing \in Int /\ now \in Int
  BY ConfigAssumption DEF ConfigAssumption, Inv, Provided, Instants
<1>4. QED
  BY <1>1, <1>2, <1>3 DEF SessionOK, NewSession

LEMMA OnboardingOK == ASSUME NEW u \in Clients PROVE AskOK(Onboarding(u))
BY ConfigAssumption DEF ConfigAssumption, AskOK, Onboarding, Kinds, Presented

LEMMA OwnerIsUser ==
  ASSUME NEW u \in Clients, NEW ask, AskOK(ask), NEW step \in Steps(ask)
  PROVE  Owner(u, ask, step) \in Users
BY ConfigAssumption DEF ConfigAssumption, AskOK, Steps, Owner

LEMMA BeginStep ==
  ASSUME Inv, NEW u \in Clients, NEW ask, NEW want, AskOK(ask), AskOK(want),
         Begin(u, ask, want)
  PROVE  Inv'
<1> DEFINE sessions == [step \in Steps(ask) |-> held[Owner(u, ask, step)]]
           started == Resolving(ask, want, "header", sessions, FALSE)
           failed == Answered(started, "provider-unavailable", TRUE)
<1>1. UNCHANGED <<now, offset, held, known, idpVars>>
  BY DEF Begin
<1>2. Holdings'
  <2>1. \A v \in Users : SessionOK(held[v])'
    BY <1>1 DEF Inv, Holdings, SessionOK, idpVars
  <2>2. QED
    BY <1>1, <2>1 DEF Inv, Holdings
<1>3. \A step \in Steps(ask) :
        /\ sessions[step] = held[Owner(u, ask, step)]
        /\ SessionOK(sessions[step]) /\ sessions[step].sub = Owner(u, ask, step)
        /\ sessions[step] \in Sessions
        /\ Owner(u, ask, step) = u => sessions[step] = sessions["header"]
  BY OwnerIsUser, HeaderStep DEF Inv, Holdings, Owner
<1>4. now \in Instants
  BY DEF Inv, Provided
<1> HIDE DEF sessions
<1>5. /\ started.phase = "resolving" /\ started.ask = ask /\ started.want = want
      /\ started.step = "header" /\ started.read = now /\ started.sessions = sessions
      /\ failed.phase = "answered" /\ failed.ask = ask /\ failed.want = want
      /\ failed.step = "header" /\ failed.read = now /\ failed.sessions = sessions
      /\ failed.outcome = "provider-unavailable" /\ failed.blip = TRUE
  BY DEF Resolving, Answered
<1> HIDE DEF started, failed
<1>6. Carried(u, started) /\ Carried(u, failed)
  BY <1>3, <1>5 DEF Carried
<1>7. CallOK(u, started)
  BY <1>3, <1>4, <1>5, <1>6, HeaderStep DEF CallOK
<1>8. CallOK(u, failed)
  BY <1>3, <1>4, <1>5, <1>6, HeaderStep DEF CallOK, Excused, Passed
<1>9. CASE call' = [call EXCEPT ![u] = started] /\ UNCHANGED faults
  <2>1. Kept'
    BY <1>1, <1>9 DEF Inv, Kept, idpVars
  <2>2. QED
    BY <1>1, <1>2, <1>7, <1>9, <2>1, CallStep DEF idpVars
<1>10. CASE /\ call' = [call EXCEPT ![u] = failed]
            /\ faults < MaxFaults /\ faults' = faults + 1
  <2>1. Kept'
    BY <1>1, <1>10, ConfigAssumption DEF ConfigAssumption, Inv, Kept, idpVars
  <2>2. QED
    BY <1>1, <1>2, <1>8, <1>10, <2>1, CallStep DEF idpVars
<1>11. QED
  BY <1>9, <1>10 DEF Begin, sessions, started, failed

\* The verdict on the token of one step: what it takes to pass, why it fails.
LEMMA StepVerdict ==
  ASSUME Inv, NEW u \in Clients, NEW c, CallOK(u, c), c.phase = "resolving",
         NEW keys, NEW failed \in BOOLEAN, NEW verdict, NEW at, at = c.read + offset,
         verdict = IF c.step = "id" THEN ValidateIDToken(TokenOf(c, c.step), at, keys)
                   ELSE Validate(TokenOf(c, c.step), at, keys),
         FetchKeys(TokenOf(c, c.step), keys, failed)
  PROVE  LET s == c.sessions[c.step] IN
         /\ verdict = Passed =>
              /\ c.ask.present = "access"
              /\ c.read < s.issued + Lifetime + Leeway + Drift
         /\ c.ask.present = "access" /\ verdict # Passed =>
              \/ /\ verdict = "token-expired"
                 /\ c.read + Drift >= s.issued + Lifetime + Leeway
              \/ /\ verdict = "signing-key-unknown"
                 /\ failed \/ s.key \notin published
<1> DEFINE s == c.sessions[c.step]
           token == TokenOf(c, c.step)
<1>1. /\ s \in Sessions /\ c.step \in Steps(c.ask) /\ c.step \in {"header", "access", "id"}
      /\ c.ask.present \in Presented
      /\ c.step # "header" => c.ask.present = "access"
      /\ c.read \in Int /\ offset \in Int /\ -Drift <= offset /\ offset <= Drift
      /\ s.issued \in Int /\ Lifetime \in Int /\ Leeway \in Int /\ Drift \in Int
  BY ConfigAssumption
  DEF ConfigAssumption, CallOK, AskOK, Carried, Steps, Inv, Provided, Sessions, Instants
<1>2. ASSUME c.ask.present # "access"
      PROVE  verdict # Passed
  <2>1. c.step = "header" /\ verdict = Validate(Token(s, c.ask.present), at, keys)
    BY <1>1, <1>2 DEF TokenOf
  <2>2. QED
    BY <1>1, <1>2, <2>1, ForeignVerdict
<1>3. ASSUME c.ask.present = "access"
      PROVE  Honest(s, verdict, at, keys)
  <2>1. CASE c.step = "header"
    <3>1. verdict = Validate(AccessToken(s), at, keys)
      BY <1>3, <2>1 DEF TokenOf, Token
    <3>2. QED
      BY <1>1, <3>1, OwnVerdict
  <2>2. CASE c.step = "access"
    <3>1. verdict = Validate(AccessToken(s), at, keys)
      BY <2>2 DEF TokenOf
    <3>2. QED
      BY <1>1, <3>1, OwnVerdict
  <2>3. CASE c.step = "id"
    <3>1. verdict = ValidateIDToken(IDToken(s), at, keys)
      BY <2>3 DEF TokenOf
    <3>2. QED
      BY <1>1, <3>1, OwnVerdict
  <2>4. QED
    BY <1>1, <2>1, <2>2, <2>3
<1>4. ASSUME c.ask.present = "access", s.key \notin keys
      PROVE  failed \/ s.key \notin published
  <2>1. token = AccessToken(s) \/ token = IDToken(s)
    BY <1>1, <1>4 DEF TokenOf, Token
  <2>2. /\ token.kid = s.key /\ token.parses = TRUE /\ token.alg = "RS256"
    BY <2>1 DEF AccessToken, IDToken, Signed
  <2>3. token # Blank
    BY <2>2 DEF Blank
  <2>4. NeedsKey(token)
    BY <2>2, <2>3, ConfigAssumption DEF ConfigAssumption, NeedsKey
  <2>5. QED
    BY <1>4, <2>2, <2>4 DEF FetchKeys
<1> HIDE DEF s, token
<1>5. verdict = Passed => c.ask.present = "access" /\ Alive(s, at)
  BY <1>2, <1>3 DEF Honest, Passed
<1>6. Alive(s, at) => c.read < s.issued + Lifetime + Leeway + Drift
  BY <1>1 DEF Alive
<1>7. ~Alive(s, at) => c.read + Drift >= s.issued + Lifetime + Leeway
  BY <1>1 DEF Alive
<1>8. c.ask.present = "access" /\ verdict # Passed =>
        \/ verdict = "token-expired" /\ c.read + Drift >= s.issued + Lifetime + Leeway
        \/ verdict = "signing-key-unknown" /\ (failed \/ s.key \notin published)
  BY <1>3, <1>4, <1>7 DEF Honest
<1>9. QED
  BY <1>5, <1>6, <1>8 DEF s

\* Every token has passed: the answer is the guard's.
LEMMA AnswerOK ==
  ASSUME Inv, NEW u \in Clients, NEW c, CallOK(u, c), c.phase = "resolving",
         c.ask.present = "access",
         NextStep[c.step] \notin Steps(c.ask), Outcome(c) = Passed,
         c.read < c.sessions[c.step].issued + Lifetime + Leeway + Drift
  PROVE  Allowed(u, c)
<1>1. AskOK(c.ask) /\ Carried(u, c) /\ c.step \in Steps(c.ask)
  BY DEF CallOK
<1>2. Rights(u, c)
  BY <1>1, GuardAllows
<1>3. CASE c.ask.kind = "onboard"
  <2>1. c.step = "id"
    BY <1>1, <1>3 DEF Steps, NextStep
  <2>2. c.ask.access = u /\ c.ask.id = u /\ u \notin unverified
    BY <1>1, <1>3, OnboardAllows
  <2>3. \A step \in Steps(c.ask) : Owner(u, c.ask, step) = u
    BY <1>3, <2>2 DEF Steps, Owner
  <2>4. c.sessions[c.step] = c.sessions["header"]
    BY <1>1, <2>3 DEF CallOK
  <2>5. QED
    BY <1>2, <2>2, <2>3, <2>4 DEF Allowed
<1>4. CASE c.ask.kind # "onboard"
  BY <1>1, <1>2, <1>4 DEF Steps, Owner, Allowed
<1>5. QED
  BY <1>3, <1>4

LEMMA ResolveStep ==
  ASSUME Inv, NEW u \in Clients, Resolve(u)
  PROVE  Inv'
<1> DEFINE c == call[u]
           token == TokenOf(c, c.step)
           at == c.read + offset
           verdict(keys) == IF c.step = "id" THEN ValidateIDToken(token, at, keys)
                            ELSE Validate(token, at, keys)
           next == NextStep[c.step]
           refused(keys, failed) == Answered(c, verdict(keys), c.blip \/ failed)
           further(failed) == Resolving(c.ask, c.want, next, c.sessions, c.blip \/ failed)
           answered(failed) == Answered(c, Outcome(c), c.blip \/ failed)
<1>1. /\ c.phase = "resolving" /\ CallOK(u, c)
      /\ UNCHANGED <<now, offset, held, idpVars>>
  BY DEF Resolve, Inv, Calls
<1>2. PICK keys \in {known, published}, failed \in BOOLEAN :
        /\ FetchKeys(token, keys, failed)
        /\ known' = keys
        /\ faults' = IF failed THEN faults + 1 ELSE faults
        /\ call' = [call EXCEPT ![u] =
              IF verdict(keys) # Passed THEN refused(keys, failed)
              ELSE IF next \in Steps(c.ask) THEN further(failed)
              ELSE answered(failed)]
  BY DEF Resolve
<1>3. Kept' /\ Holdings'
  <2>1. known' \subseteq Keys
    BY <1>2 DEF Inv, Provided, Kept
  <2>2. faults' \in 0..MaxFaults
    BY <1>2, ConfigAssumption DEF ConfigAssumption, FetchKeys, Inv, Kept
  <2>3. \A v \in Users : SessionOK(held[v])'
    BY <1>1 DEF Inv, Holdings, SessionOK, idpVars
  <2>4. QED
    BY <1>1, <2>1, <2>2, <2>3 DEF Inv, Kept, Holdings, idpVars
<1>4. /\ verdict(keys) = Passed =>
           /\ c.ask.present = "access"
           /\ c.read < c.sessions[c.step].issued + Lifetime + Leeway + Drift
      /\ c.ask.present = "access" /\ verdict(keys) # Passed =>
           \/ /\ verdict(keys) = "token-expired"
              /\ c.read + Drift >= c.sessions[c.step].issued + Lifetime + Leeway
           \/ /\ verdict(keys) = "signing-key-unknown"
              /\ failed \/ c.sessions[c.step].key \notin published
  BY <1>1, <1>2, StepVerdict
<1> HIDE DEF c, verdict, next
<1>5. ASSUME verdict(keys) # Passed
      PROVE  CallOK(u, refused(keys, failed))
  <2> DEFINE d == refused(keys, failed)
  <2>1. /\ d.phase = "answered" /\ d.ask = c.ask /\ d.want = c.want /\ d.step = c.step
        /\ d.read = c.read /\ d.sessions = c.sessions /\ d.outcome = verdict(keys)
        /\ d.blip = (c.blip \/ failed)
    BY DEF Answered
  <2> HIDE DEF d
  <2>2. d.ask.present = "access" => Excused(d)
    BY <1>4, <1>5, <2>1 DEF Excused
  <2>3. CallOK(u, d)
    BY <1>1, <1>5, <2>1, <2>2 DEF CallOK, Carried
  <2>4. QED
    BY <2>3 DEF d
<1>6. ASSUME verdict(keys) = Passed, next \in Steps(c.ask)
      PROVE  CallOK(u, further(failed))
  <2> DEFINE d == further(failed)
  <2>1. /\ d.phase = "resolving" /\ d.ask = c.ask /\ d.want = c.want /\ d.step = next
        /\ d.read = now /\ d.sessions = c.sessions
    BY DEF Resolving
  <2> HIDE DEF d
  <2>2. CallOK(u, d)
    BY <1>1, <1>4, <1>6, <2>1 DEF CallOK, Carried, Inv, Provided
  <2>3. QED
    BY <2>2 DEF d
<1>7. ASSUME verdict(keys) = Passed, next \notin Steps(c.ask)
      PROVE  CallOK(u, answered(failed))
  <2> DEFINE d == answered(failed)
  <2>1. /\ d.phase = "answered" /\ d.ask = c.ask /\ d.want = c.want /\ d.step = c.step
        /\ d.read = c.read /\ d.sessions = c.sessions /\ d.outcome = Outcome(c)
    BY DEF Answered
  <2> HIDE DEF d
  <2>2. Outcome(c) = Passed => Allowed(u, c)
    BY <1>1, <1>4, <1>7, AnswerOK DEF next
  <2>3. Outcome(c) \in GuardRefusals \cup {Passed}
    BY <1>1, OutcomeKinds DEF CallOK, AskOK
  <2>4. Allowed(u, c) => Allowed(u, d)
    BY <2>1 DEF Allowed, Rights
  <2>5. CallOK(u, d)
    BY <1>1, <2>1, <2>2, <2>3, <2>4 DEF CallOK, Carried
  <2>6. QED
    BY <2>5 DEF d
<1>8. ASSUME NEW d, CallOK(u, d), call' = [call EXCEPT ![u] = d]
      PROVE  Inv'
  BY <1>1, <1>3, <1>8, CallStep DEF idpVars
<1>9. QED
  BY <1>2, <1>5, <1>6, <1>7, <1>8

LEMMA Renewed ==
  ASSUME Inv, NEW u \in Clients, NEW s, SessionOK(s), s.sub = u,
         held' = [held EXCEPT ![u] = s], UNCHANGED <<signing, lastHad>>
  PROVE  Holdings'
<1>1. u \in Users /\ s \in Sessions
  BY ConfigAssumption DEF ConfigAssumption, SessionOK
<1>2. \A v \in Users : held'[v] = IF v = u THEN s ELSE held[v]
  BY <1>1 DEF Inv, Holdings
<1>3. held' \in [Users -> Sessions]
  BY <1>1 DEF Inv, Holdings
<1>4. \A v \in Users : held'[v].sub = v /\ SessionOK(held'[v])
  BY <1>2 DEF Inv, Holdings
<1>5. \A v \in Users : SessionOK(held[v])'
  BY <1>4 DEF SessionOK
<1>6. QED
  BY <1>3, <1>4, <1>5 DEF Holdings

LEMMA StillHeld ==
  ASSUME Inv, UNCHANGED <<held, signing, lastHad>>
  PROVE  Holdings'
BY DEF Inv, Holdings, SessionOK

LEMMA FreshCall ==
  ASSUME NEW u \in Clients, NEW ask, NEW want, AskOK(ask), AskOK(want)
  PROVE  CallOK(u, Ready(ask, want)) /\ CallOK(u, Idle)
<1>1. /\ Ready(ask, want).phase = "ready" /\ Ready(ask, want).ask = ask
      /\ Ready(ask, want).want = want /\ Idle.phase = "idle"
  BY DEF Ready, Idle
<1>2. QED
  BY <1>1 DEF CallOK

LEMMA ClientStep ==
  ASSUME Inv, NEW u \in Clients, Recover(u) \/ Register(u) \/ Finish(u)
  PROVE  Inv'
<1>1. CallOK(u, call[u]) /\ u \in Users /\ call[u].phase = "answered"
  BY ConfigAssumption DEF ConfigAssumption, Inv, Calls, Recover, Recovers, Register, Finish
<1>2. AskOK(call[u].ask) /\ AskOK(call[u].want) /\ AskOK(Onboarding(u))
  BY <1>1, OnboardingOK DEF CallOK
<1>3. CASE Recover(u)
  <2> DEFINE ask == IF call[u].outcome = "registration-missing" THEN Onboarding(u)
                    ELSE call[u].ask
             d == Ready(ask, call[u].want)
  <2>1. /\ held' = [held EXCEPT ![u] = NewSession(u)] /\ call' = [call EXCEPT ![u] = d]
        /\ UNCHANGED <<now, offset, known, faults, idpVars>>
    BY <1>3 DEF Recover
  <2>2. Holdings'
    BY <1>1, <2>1, NewSessionOK, Renewed DEF idpVars
  <2>3. Kept'
    BY <2>1 DEF Inv, Kept, idpVars
  <2>4. AskOK(ask)
    BY <1>2
  <2> HIDE DEF ask
  <2>5. CallOK(u, d)
    BY <1>2, <2>4, FreshCall
  <2> HIDE DEF d
  <2>6. QED
    BY <2>1, <2>2, <2>3, <2>5, CallStep DEF idpVars
<1>4. CASE Register(u)
  <2> DEFINE s == [NewSession(u) EXCEPT !.registered = registered'[u]]
             want == call[u].want
             d == IF want = call[u].ask THEN Idle ELSE Ready(want, want)
  <2>1. /\ held' = [held EXCEPT ![u] = s] /\ call' = [call EXCEPT ![u] = d]
        /\ registered' =
             [registered EXCEPT ![u] = @ \cup {RegistrationClaim(SyncBackend)}]
        /\ UNCHANGED <<now, offset, roles, signing, published, encoding, unverified,
                       known, lastHad, changes, faults>>
    BY <1>4 DEF Register
  <2>2. registered' \in [Users -> SUBSET {RegistrationClaim(b) : b \in Backends}]
    BY <1>1, <2>1, ConfigAssumption DEF ConfigAssumption, Inv, Kept
  <2>3. Kept'
    BY <2>1, <2>2 DEF Inv, Kept
  <2>4. SessionOK(s) /\ s.sub = u
    <3>1. SessionOK(NewSession(u)) /\ NewSession(u).sub = u
      BY <1>1, NewSessionOK
    <3>2. NewSession(u) \in Sessions
      BY <3>1 DEF SessionOK
    <3>3. /\ s \in Sessions /\ s.sub = u /\ s.key = NewSession(u).key
          /\ s.roles = NewSession(u).roles /\ s.issued = NewSession(u).issued
      BY <1>1, <2>2, <3>1, <3>2 DEF Sessions
    <3> HIDE DEF s
    <3>4. QED
      BY <3>1, <3>3 DEF SessionOK
  <2> HIDE DEF s
  <2>5. Holdings'
    BY <2>1, <2>4, Renewed
  <2>6. CallOK(u, d)
    BY <1>2, FreshCall
  <2> HIDE DEF d
  <2>7. QED
    BY <2>1, <2>3, <2>5, <2>6, CallStep
<1>5. CASE Finish(u)
  <2>1. call' = [call EXCEPT ![u] = Idle] /\ UNCHANGED <<now, offset, held, known, faults, idpVars>>
    BY <1>5 DEF Finish
  <2>2. Holdings' /\ Kept'
    BY <2>1, StillHeld DEF Inv, Kept, idpVars
  <2>3. CallOK(u, Idle)
    BY <1>2, FreshCall
  <2>4. QED
    BY <2>1, <2>2, <2>3, CallStep DEF idpVars
<1>6. QED
  BY <1>3, <1>4, <1>5

--------------------------------------------------------------------------------

LEMMA InvInit == Init => Inv
<1> SUFFICES ASSUME Init PROVE Inv
  OBVIOUS
<1>1. PICK env \in Environments :
        offset = env.offset /\ encoding = env.encoding /\ unverified = env.unverified
  BY DEF Init
<1>2. /\ [offset |-> offset, encoding |-> encoding, unverified |-> unverified] = env
      /\ offset \in -Drift..Drift
  BY <1>1, ConfigAssumption DEF ConfigAssumption
<1>3. /\ 0 \in Instants /\ now = 0 /\ 0 \in 0..MaxChanges /\ 0 \in 0..MaxFaults
      /\ Never \in Int /\ Never <= 0
  BY ConfigAssumption DEF ConfigAssumption, Init, Instants, Never
<1>4. Provided /\ Kept
  <2>1. lastHad \in [Users -> [Roles -> Instants \cup {Never}]]
    BY <1>3 DEF Init
  <2>2. QED
    BY <1>2, <1>3, <2>1 DEF Init, Provided, Kept
<1>5. Current
  BY <1>3 DEF Init, Current
<1>6. Calls
  BY DEF Init, Calls, CallOK, Idle
<1>7. ASSUME NEW u \in Users
      PROVE  /\ held[u] \in Sessions /\ held[u].sub = u /\ SessionOK(held[u])
  <2>1. held[u] = NewSession(u) /\ NewSession(u) \in Sessions
    BY <1>4 DEF Init, Provided, Kept, NewSession, Sessions
  <2>2. signing \in Int /\ \A r \in roles[u] : lastHad[u][r] = now
    BY <1>4, <1>5, ConfigAssumption DEF ConfigAssumption, Provided, Current
  <2>3. QED
    BY <1>3, <2>1, <2>2 DEF SessionOK, NewSession
<1>8. Holdings
  BY <1>7 DEF Holdings, Init
<1>9. QED
  BY <1>4, <1>5, <1>6, <1>8 DEF Inv

LEMMA InvNext == Inv /\ [Next]_vars => Inv'
<1> SUFFICES ASSUME Inv, [Next]_vars PROVE Inv'
  OBVIOUS
<1>1. ASSUME NEW u \in Clients, NEW q \in Requests, Ask(u, q)
      PROVE  Inv'
  <2>1. AskOK(q)
    BY ConfigAssumption DEF ConfigAssumption, AskOK
  <2>2. QED
    BY <1>1, <2>1, BeginStep DEF Ask
<1>2. ASSUME NEW u \in Clients, AskAgain(u)
      PROVE  Inv'
  <2>1. AskOK(call[u].ask) /\ AskOK(call[u].want)
    BY <1>2 DEF AskAgain, Inv, Calls, CallOK
  <2>2. QED
    BY <1>2, <2>1, BeginStep DEF AskAgain
<1>3. QED
  BY <1>1, <1>2, ProviderStep, ResolveStep, ClientStep DEF Next, Client

LEMMA Inductive == Spec => []Inv
BY InvInit, InvNext, PTL DEF Spec

--------------------------------------------------------------------------------
(***************************************************************************)
(* Every variable of Access keeps its type, bounds included.               *)
(***************************************************************************)
THEOREM TypeCorrect == Spec => []TypeOK
BY Inductive, InvTypes, PTL

(***************************************************************************)
(* A revoked role opens nothing to a request that arrives a token's        *)
(* lifetime, the validator's leeway and the clock's error later, or after: *)
(* nobody reads another's rows and no policy opens without a role the      *)
(* provider itself granted that recently (guard.go, validator.go:155).     *)
(***************************************************************************)
THEOREM RevocationLapsesHolds == Spec => []RevocationLapses
<1>1. ASSUME Inv, NEW u \in Clients, ByRole(u)
      PROVE  \E needed \in RestsOn(u) :
               /\ needed # {}
               /\ \A r \in needed : call[u].read < lastHad[u][r] + Lifetime + Leeway + Drift
  <2> DEFINE c == call[u]
             s == c.sessions["header"]
             named == IF c.ask.kind = "policy" THEN Policies[c.ask.policy].target
                      ELSE c.ask.required
  <2>1. CallOK(u, c) /\ c.phase = "answered" /\ c.outcome = Passed
    BY <1>1 DEF Inv, Calls, ByRole, Served
  <2>2. Allowed(u, c) /\ AskOK(c.ask)
    BY <2>1 DEF CallOK
  <2>3. /\ s \in Sessions /\ s.sub = u /\ SessionOK(s)
        /\ c.read < s.issued + Lifetime + Leeway + Drift
    BY <2>1, <2>2, HeaderStep DEF CallOK, Carried, Owner, Allowed
  <2>4. ASSUME NEW r \in s.roles
        PROVE  c.read < lastHad[u][r] + Lifetime + Leeway + Drift
    <3>1. r \in Roles /\ u \in Users /\ s.issued <= lastHad[u][r] /\ s.issued \in Int
      BY <2>3, ConfigAssumption DEF ConfigAssumption, SessionOK, Sessions, Instants
    <3>2. lastHad[u][r] \in Int /\ c.read \in Int
      BY <1>1, <2>1, <3>1, ConfigAssumption
      DEF ConfigAssumption, CallOK, Inv, Provided, Instants, Never
    <3>3. Lifetime \in Int /\ Leeway \in Int /\ Drift \in Int
      BY ConfigAssumption DEF ConfigAssumption
    <3> HIDE DEF s, c
    <3>4. QED
      BY <2>3, <3>1, <3>2, <3>3
  <2>5. c.ask.kind = "policy" \/ (c.ask.kind \in OwnedKinds /\ c.ask.target # u)
    <3>1. c.ask.target = u => Rows(c.ask) \subseteq {u}
      BY ConfigAssumption DEF ConfigAssumption, Rows
    <3>2. QED
      BY <1>1, <3>1 DEF ByRole
  <2>6. CASE c.ask.kind = "all"
    <3>1. named # {} /\ named \subseteq s.roles
      BY <2>2, <2>5, <2>6 DEF Allowed, Rights
    <3>2. RestsOn(u) = {named}
      BY <2>6 DEF RestsOn
    <3>3. QED
      BY <2>4, <3>1, <3>2
  <2>7. CASE c.ask.kind # "all"
    <3>1. named \cap s.roles # {}
      BY <2>2, <2>5, <2>7 DEF Allowed, Rights, OwnedKinds
    <3>2. PICK r \in named : r \in s.roles
      BY <3>1
    <3>3. c.ask.kind # "sub"
      BY <2>2, <2>5 DEF Allowed, Rights, OwnedKinds
    <3>4. {r} \in RestsOn(u)
      BY <2>7, <3>3 DEF RestsOn
    <3>5. QED
      BY <2>4, <3>2, <3>4
  <2>8. QED
    BY <2>6, <2>7
<1>2. Inv => RevocationLapses
  BY <1>1 DEF RevocationLapses
<1>3. QED
  BY <1>2, Inductive, PTL

(***************************************************************************)
(* Only a live access token of this issuer for this API passes, and only   *)
(* live tokens onboard: the three tokens an onboarding passes with are of  *)
(* one session, so the last verdict speaks for the first one too.          *)
(***************************************************************************)
THEOREM OnlyOurLiveTokensPassHolds == Spec => []OnlyOurLiveTokensPass
<1>1. ASSUME Inv, NEW u \in Clients, call[u].phase = "answered", call[u].outcome = Passed
      PROVE  /\ call[u].ask.present = "access"
             /\ \A step \in Steps(call[u].ask) :
                  /\ call[u].sessions[step].key \in Keys
                  /\ call[u].read <
                       call[u].sessions[step].issued + Lifetime + Leeway + Drift
  <2> DEFINE c == call[u]
  <2>1. CallOK(u, c)
    BY <1>1 DEF Inv, Calls
  <2>2. Allowed(u, c)
    BY <1>1, <2>1 DEF CallOK
  <2>3. \A step \in Steps(c.ask) :
          c.sessions[step] = c.sessions["header"] /\ c.sessions[step] \in Sessions
    BY <1>1, <2>1, <2>2 DEF CallOK, Allowed, SessionOK
  <2>4. QED
    BY <2>2, <2>3 DEF Allowed, Sessions
<1>2. Inv => OnlyOurLiveTokensPass
  BY <1>1 DEF OnlyOurLiveTokensPass
<1>3. QED
  BY <1>2, Inductive, PTL

(***************************************************************************)
(* ExtractOnboarding registers the caller, verified, and nobody else,      *)
(* whichever users' tokens a device has mixed up.                          *)
(***************************************************************************)
THEOREM OnboardsOnlySelfHolds == Spec => []OnboardsOnlySelf
<1>1. ASSUME Inv, NEW u \in Clients, Served(u), call[u].ask.kind = "onboard"
      PROVE  /\ call[u].ask.access = u /\ call[u].ask.id = u
             /\ u \notin unverified
  <2>1. Allowed(u, call[u])
    BY <1>1 DEF Inv, Calls, CallOK, Served
  <2>2. {"access", "id"} \subseteq Steps(call[u].ask)
    BY <1>1 DEF Steps
  <2>3. QED
    BY <1>1, <2>1, <2>2 DEF Allowed, Owner
<1>2. Inv => OnboardsOnlySelf
  BY <1>1 DEF OnboardsOnlySelf
<1>3. QED
  BY <1>2, Inductive, PTL

(***************************************************************************)
(* A client's own token is refused for its age, or for a key the provider  *)
(* has retired, or because the keys or the clock could not be had.         *)
(***************************************************************************)
THEOREM GoodTokenIsNotRefusedHolds == Spec => []GoodTokenIsNotRefused
<1>1. Inv => GoodTokenIsNotRefused
  BY DEF Inv, Calls, CallOK, Excused, GoodTokenIsNotRefused
<1>2. QED
  BY <1>1, Inductive, PTL

================================================================================
