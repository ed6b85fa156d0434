--------------------------------- MODULE Access --------------------------------
(***************************************************************************)
(* One API behind the engine: clients present tokens of one identity       *)
(* provider, the API validates them (Validator), maps them (Principal) and *)
(* asks the guard (Guard) before it queries its data.                      *)
(*                                                                         *)
(* Meanwhile roles are granted and revoked, signing keys rotate, tokens    *)
(* age, the verifier's clock is off by up to Drift and its copy of the key *)
(* set is stale.  A validation reads the clock FIRST and only then fetches *)
(* the key, so anything may happen between the instant a token is judged   *)
(* at and the answer.  An onboarding request validates three tokens, each  *)
(* at an instant of its own.                                               *)
(*                                                                         *)
(* A client holds a session: an access token and an ID token, minted       *)
(* together from what the provider knew of the user at that moment.        *)
(***************************************************************************)
EXTENDS Validator, FiniteSets

CONSTANTS
    Users, Roles,
    Keys,           \* the provider's signing keys, numbered in the order it makes them
    OtherKey,       \* the signing key of another tenant
    Clients,        \* the users whose client makes requests; each has a session
    Requests,       \* the requests clients make: see Ask below
    Policies,       \* the declared policy set: name -> [kind, field, target]
    SyncBackend,    \* the spelling OnboardSync registers the backend under
    Lifetime,       \* lifetime of an access token
    Drift,          \* how far the verifier's clock may be off
    Environments,   \* where to start: the clock's offset, the encoding of claims,
                    \* and the users whose e-mail address is not verified
    MaxTime, MaxChanges, MaxFaults  \* bounds of the model

VARIABLES
    now,         \* the provider's clock
    offset,      \* the verifier's clock is now + offset
    roles,       \* roles[u]: the roles the provider holds for u
    registered,  \* registered[u]: the registration claims written for u
    signing, published,  \* the provider's signing key, and its published keys
    encoding,    \* how the provider emits flags and single roles
    unverified,  \* the users whose e-mail address the provider has not verified
    held,        \* held[u]: the session u's client holds
    known,       \* the verifier's copy of the published keys
    call,        \* call[u]: the request of u's client
    lastHad,     \* history: lastHad[u][r], the last instant u held r
    changes, faults  \* how many of the bounded events have happened

idpVars == <<roles, registered, signing, published, encoding, unverified, lastHad, changes>>
vars == <<now, offset, roles, registered, signing, published, encoding, unverified,
          held, known, call, lastHad, changes, faults>>

Instants == 0..MaxTime
Never == -(Lifetime + Leeway + Drift)

\* A request: what it asks, and which token stands in the Authorization
\* header: the access token, or by mistake the ID token, a token the same
\* tenant issued under another domain, one of another tenant, or nothing.
Kinds == {"sub", "any", "all", "policy", "registered", "onboard"}
Presented == {"access", "id", "otherDomain", "otherTenant", "blank"}

ConfigAssumption ==
    /\ Lifetime \in Nat \ {0} /\ Leeway \in Nat \ {0} /\ Drift \in Nat
    /\ Environments \subseteq
          [offset : -Drift..Drift, encoding : {"native", "text"}, unverified : SUBSET Users]
    /\ MaxTime \in Nat /\ MaxChanges \in Nat /\ MaxFaults \in Nat
    /\ SyncBackend \in Backends
    /\ Clients \subseteq Users /\ Absent \notin Users /\ Issuer # Absent /\ Audience # Absent
    /\ Issuer # "other" /\ Audience # "client"
    /\ Keys # {} /\ Keys \subseteq Nat /\ OtherKey \notin Keys
    /\ WrongType \notin Users \cup Nat \cup {Issuer, Absent} /\ Absent \notin Nat
    /\ NonText \cap (Roles \cup {Audience}) = {}
    /\ "RS256" \in Algorithms /\ Algorithms \subseteq LibraryAlgorithms
    /\ \A q \in Requests :
          /\ q.kind \in Kinds /\ q.present \in Presented
          /\ q.kind = "onboard" => {q.access, q.id} \subseteq Users
    /\ \A p \in DOMAIN Policies : Policies[p].field \in {"roles", "scope"}
ASSUME ConfigAssumption

--------------------------------------------------------------------------------
(* The provider: what it puts into the tokens it mints. *)

Sessions == [sub : Users, issued : Instants, key : Keys,
             roles : SUBSET Roles, registered : SUBSET {RegistrationClaim(b) : b \in Backends}]

FlagClaim(value) ==
    IF encoding = "native" THEN (IF value THEN "bool:true" ELSE "bool:false")
    ELSE (IF value THEN "text:true" ELSE "text:false")

ListClaim(values) ==
    [shape   |-> IF values = {} THEN "none"
                 ELSE IF encoding = "text" /\ Cardinality(values) = 1 THEN "text"
                 ELSE "list",
     members |-> values]

\* The roles claim; a list may hold members that are no role names.
RolesClaim(values) ==
    LET claim == ListClaim(values) IN
    IF claim.shape = "list" THEN [claim EXCEPT !.members = @ \cup NonText] ELSE claim

Claims(session, issuer, audience) ==
    [sub |-> session.sub, iss |-> issuer, aud |-> ListClaim({audience}),
     exp |-> session.issued + Lifetime, nbf |-> Absent,
     username |-> session.sub, email |-> session.sub,
     email_verified |-> FlagClaim(session.sub \notin unverified),
     roles |-> RolesClaim(session.roles), scope |-> ListClaim({}),
     home_landscape |-> Absent,
     registration |-> [name \in {RegistrationClaim(b) : b \in Backends} |->
        IF name \in session.registered THEN FlagClaim(TRUE) ELSE "absent"]]

Signed(key, claims) ==
    [parses |-> TRUE, alg |-> "RS256", kid |-> key, signedBy |-> key, claims |-> claims]

AccessToken(session) == Signed(session.key, Claims(session, Issuer, Audience))
IDToken(session) == Signed(session.key, Claims(session, Issuer, "client"))

Token(session, present) ==
    CASE present = "access"      -> AccessToken(session)
      [] present = "id"          -> IDToken(session)
      [] present = "otherDomain" -> Signed(session.key, Claims(session, "other", Audience))
      [] present = "otherTenant" -> Signed(OtherKey, Claims(session, "other", Audience))
      [] present = "blank"       -> Blank

NewSession(u) == [sub |-> u, issued |-> now, key |-> signing,
                  roles |-> roles[u], registered |-> registered[u]]

Tick ==
    /\ now < MaxTime
    /\ now' = now + 1
    /\ lastHad' = [u \in Users |-> [r \in Roles |->
                    IF r \in roles[u] THEN now' ELSE lastHad[u][r]]]
    /\ UNCHANGED <<offset, roles, registered, signing, published, encoding, unverified, held,
                   known, call, changes, faults>>

Change == changes < MaxChanges /\ changes' = changes + 1

GrantRole(u, r) ==
    /\ Change
    /\ r \notin roles[u]
    /\ roles' = [roles EXCEPT ![u] = @ \cup {r}]
    /\ lastHad' = [lastHad EXCEPT ![u][r] = now]
    /\ UNCHANGED <<now, offset, registered, signing, published, encoding, unverified, held,
                   known, call, faults>>

RevokeRole(u, r) ==
    /\ Change
    /\ r \in roles[u]
    /\ roles' = [roles EXCEPT ![u] = @ \ {r}]
    /\ UNCHANGED <<now, offset, registered, signing, published, encoding, unverified, held,
                   known, call, lastHad, faults>>

\* The provider signs with a new key; it publishes the old one for a while.
RotateKey(k) ==
    /\ Change
    /\ k > signing
    /\ published' = published \cup {k}
    /\ signing' = k
    /\ UNCHANGED <<now, offset, roles, registered, encoding, unverified, held, known, call,
                   lastHad, faults>>

\* Definitions named ...Mutant are wrong on purpose: each is a bug the definition
\* after it could have had, which a property detects.
RetireKeyMutant(k) ==
    /\ k \in published
    /\ published' = published \ {k}
    /\ UNCHANGED <<now, offset, roles, registered, signing, encoding, unverified, held, known,
                   call, lastHad, changes, faults>>

RetireKey(k) ==
    /\ k \in published \ {signing}
    /\ published' = published \ {k}
    /\ UNCHANGED <<now, offset, roles, registered, signing, encoding, unverified, held, known,
                   call, lastHad, changes, faults>>

--------------------------------------------------------------------------------
(* One request, in the order the handler of a service takes it: validate   *)
(* the header's token, then (onboarding only) the two tokens of the body,  *)
(* then the guard or the extraction, then the data.                        *)

Onboarding(u) == [kind |-> "onboard", access |-> u, id |-> u, present |-> "access"]

Idle == [phase |-> "idle"]
Ready(ask, want) == [phase |-> "ready", ask |-> ask, want |-> want]
Resolving(ask, want, step, sessions, blip) ==
    [phase |-> "resolving", ask |-> ask, want |-> want, step |-> step, read |-> now,
     sessions |-> sessions, blip |-> blip]
Answered(c, outcome, blip) ==
    [phase |-> "answered", ask |-> c.ask, want |-> c.want, step |-> c.step,
     read |-> c.read, sessions |-> c.sessions, blip |-> blip, outcome |-> outcome]

Steps(ask) == IF ask.kind = "onboard" THEN {"header", "access", "id"} ELSE {"header"}
NextStep == [header |-> "access", access |-> "id", id |-> "done"]

\* The session the token of a step comes from: a device two users share may
\* put one user's token beside the other's.
Owner(u, ask, step) == IF step = "header" THEN u ELSE ask[step]

TokenOf(c, step) ==
    CASE step = "header" -> Token(c.sessions[step], c.ask.present)
      [] step = "access" -> AccessToken(c.sessions[step])
      [] step = "id"     -> IDToken(c.sessions[step])

PrincipalOf(c, step) == Map(TokenOf(c, step).claims)

\* After every token of the request has validated.
Outcome(c) ==
    LET caller == PrincipalOf(c, "header")
        ask == c.ask
    IN  CASE ask.kind = "sub" -> Sub(caller, ask.target)
          [] ask.kind = "any" -> SubOrAny(caller, ask.target, "roles", ask.required)
          [] ask.kind = "all" -> SubOrAll(caller, ask.target, "roles", ask.required)
          [] ask.kind = "policy" -> Policy(caller, Policies, ask.policy)
          [] ask.kind = "registered" -> RegisteredGuard(caller, ask.backend)
          [] ask.kind = "onboard" ->
                ExtractOnboarding(PrincipalOf(c, "access"), PrincipalOf(c, "id"),
                                  caller.subject)

\* The request arrives and the clock is read; the clock seam may fail.
Begin(u, ask, want) ==
    LET sessions == [step \in Steps(ask) |-> held[Owner(u, ask, step)]]
        started == Resolving(ask, want, "header", sessions, FALSE)
    IN  /\ \/ /\ call' = [call EXCEPT ![u] = started]
              /\ UNCHANGED faults
           \/ /\ faults < MaxFaults
              /\ faults' = faults + 1
              /\ call' = [call EXCEPT ![u] = Answered(started, "provider-unavailable", TRUE)]
        /\ UNCHANGED <<now, offset, held, known, idpVars>>

Ask(u, ask) == call[u] = Idle /\ Begin(u, ask, ask)
AskAgain(u) == call[u].phase = "ready" /\ Begin(u, call[u].ask, call[u].want)

\* keyfunc runs only for a token that parses and names an accepted algorithm.
NeedsKey(token) == token # Blank /\ token.parses /\ token.alg \in Algorithms

\* RemoteJWKS.Key over the JWKS library: a key id the copy lacks is fetched
\* once, and the fetch may fail or be refused by the library's rate limit.
FetchKeys(token, keys, failed) ==
    IF NeedsKey(token) => token.kid \in known THEN keys = known /\ ~failed
    ELSE \/ keys = published /\ ~failed
         \/ keys = known /\ failed /\ faults < MaxFaults

\* The key has arrived, or cannot be had: the token is judged at the instant
\* read before.  The next token of the request reads the clock again.
Resolve(u) ==
    LET c == call[u]
        token == TokenOf(c, c.step)
        at == c.read + offset
    IN  /\ c.phase = "resolving"
        /\ \E keys \in {known, published}, failed \in BOOLEAN :
             LET verdict == IF c.step = "id" THEN ValidateIDToken(token, at, keys)
                            ELSE Validate(token, at, keys)
                 next == NextStep[c.step]
             IN  /\ FetchKeys(token, keys, failed)
                 /\ known' = keys
                 /\ faults' = IF failed THEN faults + 1 ELSE faults
                 /\ call' = [call EXCEPT ![u] =
                        IF verdict # Passed THEN Answered(c, verdict, c.blip \/ failed)
                        ELSE IF next \in Steps(c.ask)
                        THEN Resolving(c.ask, c.want, next, c.sessions, c.blip \/ failed)
                        ELSE Answered(c, Outcome(c), c.blip \/ failed)]
        /\ UNCHANGED <<now, offset, held, idpVars>>

\* The JWKS library refreshes its copy in the background.
RefreshKeys ==
    /\ known # published
    /\ known' = published
    /\ UNCHANGED <<now, offset, held, call, faults, idpVars>>

--------------------------------------------------------------------------------
(* The client: what it does with a refusal that says it can recover. *)

Recovers(c) == c.phase = "answered" /\ c.outcome \in Recoverable

\* Renew the session and ask again; unregistered, onboard first.
Recover(u) ==
    LET c == call[u] IN
    /\ Recovers(c)
    /\ held' = [held EXCEPT ![u] = NewSession(u)]
    /\ call' = [call EXCEPT ![u] =
            Ready(IF c.outcome = "registration-missing" THEN Onboarding(u) ELSE c.ask, c.want)]
    /\ UNCHANGED <<now, offset, known, faults, idpVars>>

\* Onboarded: OnboardSync writes the registration claim under the name of the
\* resource it onboards to, the session is renewed, the request goes out again.
Register(u) ==
    LET c == call[u] IN
    /\ c.phase = "answered" /\ c.outcome = Passed
    /\ c.ask = Onboarding(u)
    /\ registered' = [registered EXCEPT ![u] = @ \cup {RegistrationClaim(SyncBackend)}]
    /\ held' = [held EXCEPT ![u] = [NewSession(u) EXCEPT !.registered = registered'[u]]]
    /\ call' = [call EXCEPT ![u] = IF c.want = c.ask THEN Idle ELSE Ready(c.want, c.want)]
    /\ UNCHANGED <<now, offset, roles, signing, published, encoding, unverified, known, lastHad,
                   changes, faults>>

\* Served, or refused for good.
Finish(u) ==
    LET c == call[u] IN
    /\ c.phase = "answered" /\ ~Recovers(c)
    /\ ~(c.outcome = Passed /\ c.ask = Onboarding(u))
    /\ call' = [call EXCEPT ![u] = Idle]
    /\ UNCHANGED <<now, offset, held, known, faults, idpVars>>

--------------------------------------------------------------------------------

Init ==
    /\ now = 0
    /\ \E env \in Environments :
          offset = env.offset /\ encoding = env.encoding /\ unverified = env.unverified
    /\ roles \in [Users -> SUBSET Roles] /\ (\A u \in Users \ Clients : roles[u] = {})
    /\ registered = [u \in Users |-> {}]
    /\ signing \in Keys /\ published = {signing} /\ known = {signing}
    /\ held = [u \in Users |-> NewSession(u)]
    /\ call = [u \in Clients |-> Idle]
    /\ lastHad = [u \in Users |-> [r \in Roles |-> IF r \in roles[u] THEN 0 ELSE Never]]
    /\ changes = 0 /\ faults = 0

Client(u) == AskAgain(u) \/ Resolve(u) \/ Recover(u) \/ Register(u) \/ Finish(u)

Next ==
    \/ Tick
    \/ \E u \in Clients, r \in Roles : GrantRole(u, r) \/ RevokeRole(u, r)
    \/ \E k \in Keys : RotateKey(k) \/ RetireKey(k)
    \/ RefreshKeys
    \/ \E u \in Clients, q \in Requests : Ask(u, q)
    \/ \E u \in Clients : Client(u)

\* A request that was sent is handled and answered, and a client does what a
\* recoverable refusal tells it to.  Nobody has to make a request.
Fairness == \A u \in Clients : WF_vars(Client(u))

Spec == Init /\ [][Next]_vars /\ Fairness

--------------------------------------------------------------------------------
TypeOK ==
    /\ now \in Instants
    /\ [offset |-> offset, encoding |-> encoding, unverified |-> unverified] \in Environments
    /\ roles \in [Users -> SUBSET Roles]
    /\ registered \in [Users -> SUBSET {RegistrationClaim(b) : b \in Backends}]
    /\ signing \in published /\ published \subseteq Keys /\ known \subseteq Keys
    /\ held \in [Users -> Sessions] /\ \A u \in Users : held[u].sub = u
    /\ lastHad \in [Users -> [Roles -> Instants \cup {Never}]]
    /\ \A u \in Clients : call[u].phase \in {"idle", "ready", "resolving", "answered"}
    /\ changes \in 0..MaxChanges /\ faults \in 0..MaxFaults

--------------------------------------------------------------------------------
(* Safety. *)

Served(u) == call[u].phase = "answered" /\ call[u].outcome = Passed

\* The data layer, as guard.go documents it: no target means no filter.
Rows(ask) == IF ask.target = Absent THEN Users ELSE {ask.target}

OwnedKinds == {"sub", "any", "all"}

\* The answer of this request rests on the roles of its caller.
ByRole(u) ==
    LET ask == call[u].ask IN
    /\ Served(u)
    /\ \/ ask.kind \in OwnedKinds /\ ~(Rows(ask) \subseteq {u})
       \/ ask.kind = "policy"

\* The roles it rests on: none of a "sub", one of an "any", every one of an "all".
RestsOn(u) ==
    LET ask == call[u].ask
        named == IF ask.kind = "policy" THEN Policies[ask.policy].target ELSE ask.required
    IN  CASE ask.kind = "sub" -> {}
          [] ask.kind = "all" -> {named}
          [] OTHER            -> {{r} : r \in named}

(***************************************************************************)
(* Nobody reads rows of another user, and no policy opens, without a role  *)
(* the provider itself granted, and that grant is recent: a role revoked   *)
(* at instant t is of no use to a request that arrives at t + Lifetime +   *)
(* Leeway + Drift or later.  There is no revocation list: the claim set of *)
(* the token is what the guard reads, so the lifetime of the token, the    *)
(* leeway of the validator (validator.go:155) and the error of its clock   *)
(* are exactly how long a revoked role lives on.                           *)
(***************************************************************************)
RevocationLapses ==
    \A u \in Clients : ByRole(u) =>
        \E needed \in RestsOn(u) :
            /\ needed # {}
            /\ \A r \in needed : call[u].read < lastHad[u][r] + Lifetime + Leeway + Drift

(***************************************************************************)
(* What passes validation is a token of this issuer for this API (an ID    *)
(* token and a token of another domain or tenant never stand in for one),  *)
(* signed by a key the provider published, and alive when the request      *)
(* arrived, give or take leeway and clock error, however long the key took *)
(* to come (validator.go:146 reads the clock before the fetch).            *)
(***************************************************************************)
OnlyOurLiveTokensPass ==
    \A u \in Clients :
        LET c == call[u] IN
        c.phase = "answered" /\ c.outcome = Passed =>
            /\ c.ask.present = "access"
            /\ \A step \in Steps(c.ask) :
                  /\ c.sessions[step].key \in Keys
                  /\ c.read < c.sessions[step].issued + Lifetime + Leeway + Drift

(***************************************************************************)
(* Onboarding is for oneself: an identity is registered only from an       *)
(* access token and an ID token of ONE user, who is the caller, and only   *)
(* when the provider has verified the address (onboarding_tokens.go).      *)
(* The two users of one device may have mixed up their tokens, and each of *)
(* the three tokens is validated at an instant of its own.                 *)
(***************************************************************************)
OnboardsOnlySelf ==
    \A u \in Clients : Served(u) /\ call[u].ask.kind = "onboard" =>
        /\ call[u].ask.access = u /\ call[u].ask.id = u
        /\ u \notin unverified

(***************************************************************************)
(* The refusals of the validator are honest to the client that did nothing *)
(* wrong: its own access token is never malformed, of a foreign issuer,    *)
(* for another audience or badly signed; it is expired only when the       *)
(* lifetime and the leeway really are over (clock error apart); and its    *)
(* key is unknown only when the provider has retired it or the key set     *)
(* could not be fetched.                                                   *)
(***************************************************************************)
GuardRefusals == {"ownership-denied", "policy-unknown", "registration-missing",
                  "token-subject-mismatch", "token-claim-missing"}

GoodTokenIsNotRefused ==
    \A u \in Clients :
        LET c == call[u] IN
        (/\ c.phase = "answered" /\ c.ask.present = "access"
         /\ c.outcome \notin GuardRefusals \cup {Passed}) =>
            LET session == c.sessions[c.step] IN
            \/ /\ c.outcome = "token-expired"
               /\ c.read + Drift >= session.issued + Lifetime + Leeway
            \/ /\ c.outcome = "signing-key-unknown"
               /\ c.blip \/ session.key \notin published
            \/ c.outcome = "provider-unavailable" /\ c.blip

--------------------------------------------------------------------------------
(* Liveness. *)

(***************************************************************************)
(* "Recoverable" in problems.go is a promise: a client that renews its     *)
(* session and asks again, after onboarding when it was told that it is    *)
(* not registered, ends up served or refused for good.  It does not go     *)
(* round: a key rotation heals by the fetch of the unknown key, an expiry  *)
(* by the renewal, and the registration claim OnboardSync writes under the *)
(* name of the resource is the one the guard looks for under its own       *)
(* spelling of the backend (principal.go:74, "a silent onboarding loop").  *)
(***************************************************************************)
Settled(u) ==
    /\ call[u].phase = "answered" /\ call[u].outcome \notin Recoverable
    /\ call[u].outcome = Passed => call[u].ask = call[u].want

OwnTokens(u, ask) ==
    /\ ask.present = "access"
    /\ \A step \in Steps(ask) : Owner(u, ask, step) = u

RecoverableIsRecovered ==
    \A u \in Clients :
        (Recovers(call[u]) /\ OwnTokens(u, call[u].want)) ~> Settled(u)

================================================================================
