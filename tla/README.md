# TLA+ models of the diene Go auth engine

This directory specifies the auth engine (`lib/`) in TLA+, the concurrent and
failure-prone parts first, checks it with TLC on small instances and proves its
safety properties with TLAPS.  Definitions carry the names the Go code uses.
`PROJECT.json` maps every definition to the lines it models, and names for every
property a run that checks it and a mutation of the model that breaks it.

## 1. Inventory

The engine is a library.  It owns no process and no thread: its operations run
on the goroutines of the consumer's servers, against four seams the consumer
binds - a KV store (tokens, refresh records, deferred records), the identity
provider, the backend being onboarded, and a clock.  Several replicas of a
consumer share the stores.  So what is hard is what happens *between* the seam
calls of one operation, and what a seam that fails leaves behind.

| Component | Code | State it keeps | Operations | Talks to |
|---|---|---|---|---|
| Token cache | `lib/authengine/cache.go`, `token.go` | KV: key -> access token | `Token`, `Invalidate`, `All`, `Key` | KV store, token source, clock |
| Single flight | `lib/authengine/flight.go` | map key -> `tokenCall` under a mutex | `do` | runs the cache's mint closure |
| Token sources | `lib/authengine/source.go` | a session, captured by value | `Mint` | provider |
| Refresh rotation | `lib/authengine/rotation.go` | KV: fingerprint -> `RefreshRecord` | `Issue`, `Rotate`, `Fingerprint` | KV store, provider, clock |
| Deferred login | `lib/deferred/mint.go`, `carrier.go` | KV: nonce digest -> `Record` | `Mint`, `Exchange`; carriers are pure | KV store, provider, clock, entropy |
| OnboardSync | `lib/onboard/sync.go`, `phase.go` | none of its own: backend row, registration claim | `Run` | backend, token cache, IdP claims, refresher |
| Landscape selector | `lib/onboard/landscape.go` | the home-landscape claim at the IdP | `Home`, `Pick`, `Claim` | pinger, IdP claims |
| Claims and principal | `claims.go`, `principal.go` | immutable | `Flag`, `Map`, `Registered`, ... | - |
| Guards and policies | `guard.go`, `policy.go` | immutable | `Sub`, `SubOrAny`, `SubOrAll`, `Registered`, `Guard` | problems |
| Validator, onboarding tokens | `validator.go`, `onboarding_tokens.go` | immutable | `Validate`, `ValidateIDToken`, `ExtractOnboarding` | JWKS |
| Logto client, JWKS | `lib/logto/client.go`, `jwks.go` | immutable client; the IdP's grants | `ResourceToken`, `Refresh`, `SetClaim`, ... | HTTP |
| Resource tree, config, problems | `resource.go`, `config.go`, `problems.go`, `lifetimes.go` | immutable tables | constructors, lookups | - |
| Test helpers | `testhelper/` | in-memory stores, fake provider and backend | - | the reference for what a store does |

## 2. What is hard, and what makes each part correct

**Token cache and single flight.** A call of `Token` reads the clock, reads the store,
and only then takes the flight's mutex; the leader asks the provider, writes the store,
fills the call in, unregisters it and closes it, each a step other goroutines and other
replicas fall between. Only the unregistering is under the mutex: who comes between the
filling in and the unregistering still joins. Correct means: one mint at a time per key
of a process, everyone who waits has somebody to wait for, a flight has one outcome and
is out of reach before anybody is told it, a call never mints over a token it could have
used, an evicted token does not come back, an answer is a token of the resource asked
for, and every call returns. What the cache does not promise: a caller whose store read
missed may mint over an entry another process wrote since; a token that a caller has
read and rejected can be handed out again by the flight that minted it, as long as that
flight is registered; a caller can be told an outcome that was filled in before it
asked; two declared names with one slug answer with each other's token (`SeparatedKeys`
says that there are none, the code does not check it); and a mint that panics leaves its joiners waiting, since the call is closed by
code the panic skips (`MintMayPanic` switches that on and off, and `EveryCallReturns` is
checked without it). `SharedCall` says what a single flight promises those who share it,
and `TokenCache` implements it.

**Refresh rotation.** `Rotate` is four seam calls with nothing atomic about
them: read, exchange at the provider, write the record back consumed, record the
replacement.  Any can fail with or without effect, requests race, processes stop,
the store drops expired records, and the provider may return no replacement, in
which case the client carries the presented token forward.  Correct means: the
theft alarm (`refresh-token-reused`) is earned, a consumed record stays consumed,
a token that was delivered can be rotated, a record names its owner, and
"unknown" never hides a replay.

**Deferred login.** `Exchange` consumes first and judges afterwards.  Correct
means: a nonce buys one login at most, whatever races, fails or is dropped; none
is used up without somebody presenting it; a late nonce buys nothing; a nonce
that was delivered whole is unknown only once it has expired.  From then on "unknown"
hides a late app and a replay alike, since the record's TTL is the nonce's lifetime;
the comment on `Exchange` gives each answer a meaning of its own ("an unknown nonce is a
broken carrier, a consumed one is a replay or a double-tap, and an expired one just means
the install took too long"), and past the expiry the code does not keep them apart.
`OneTimeRedemption` says what a handoff promises, and
`DeferredLogin` implements it.

**OnboardSync.** A round is a chain of calls to two parties, per backend. Correct means:
claims imply rows, half-made rounds are completed by later ones (the seed stack's stuck
client), a round that meets a failing backend goes on to the next and has the right
verdict on each of them, and what is reported stays true while other devices onboard.

A token that was deferred is not always redeemed by somebody: one presented after
its expiry, or when the provider fails, is consumed all the same.

**Session tokens and the Logto client.** The client keeps nothing, so its calls meet
only at the provider, which may rotate the refresh token on no grant, on a refresh or on
every grant. A source captures the session by value while the consumer goes on
refreshing it, and lasts until the consumer makes another; `ResourceToken` keeps the
access token of an answer and drops a replacement that came with it; the expiry of a
token is counted from the arrival of its answer, that of a one-time token from before
its two round trips; a batch may fail halfway, with some tokens minted and one mint
refused. Correct means: what the cache hands out is alive, a session dies only because a
replacement was dropped, a management success is true and a one-time token is not
overstated, batches return.

**Landscape selector.** Several devices of one user sign up side by side: each pings
candidates of the document *it* read, one after another, and the later claim write
wins.  A claim is honoured without a look at the health the document states; zero is
a latency, a failed ping is not; ties go to the earlier entry.  Correct means: the
nearest that answered is claimed, a home moves only in a race of sign-ups, and
afterwards the devices come to agree.

**Access: validator, claims, guards, onboarding tokens.** A validation reads the clock
and only then fetches the key, while keys rotate and the verifier's copy of the key
set goes stale; a guard decides by the claims a token was minted with, so a revoked
role lives on for lifetime, leeway and clock error; on a shared device the tokens of
two users get mixed up; and a client that is told "registration missing" onboards and
asks again, which never ends if the guard and OnboardSync disagree on the claim's
name.  Correct means: revoked roles lapse, only live tokens of ours pass, nobody
registers anybody else, a good token is refused only for a reason that is true, and
what is called recoverable can be recovered from.

**Carriers** are string building and parsing without state.

## 3. The modules

| Module | Models | State and actions |
|---|---|---|
| `TokenCache` | `cache.go`, `flight.go`, `token.go` | `store` is the KV; `calls` each cache's `tokenFlight.calls`; `tokenCall` the call objects; `pc`, `now`, `result`, `flight` the locals of each goroutine.  `Begin` and `Get` are `Token` up to the store's answer, `Enter` is `do` under its mutex, `Mint`, `MintFails`, `Panic` and `CacheWrite` are the mint closure, `Settle` (fill in), `Unregister` and `Close` the end of `do`, `Wake` a joiner's, `Invalidate` the eviction, `Lose` a store that drops an entry, `Tick` the clock |
| `SharedCall` | nothing: the abstract specification | whoever needs an outcome leads a call or joins the open one; a call is decided once, then shut to newcomers, and only then are its leader and members told its outcome.  A party of it is a caller, a slot a key of a cache, a call the operation that leads it, its outcome what `FillIn` wrote; a panicking leader vanishes |
| `Rotation` | `rotation.go`, and `Client.Refresh`'s carry-forward | `records` is the refresh store; `issued`, `spent`, `owner` the provider's; `presented`, `now`, `record`, `session` the locals of each request.  `SignIn` (or `SignInBare`, when the provider grants no refresh token), `Begin`, `Read`, `Exchange` and `Consume` begin a call or make one of its seam calls; `Date` is `Issue` up to its clock reading, `Issue` its write; `Crash` and `Drop` happen around them |
| `DeferredLogin` | `deferred/mint.go` | the store of records by nonce digest, the locals of each request, the provider's logins.  One action per seam call of `Mint` and `Exchange` |
| `OneTimeRedemption` | nothing: the abstract specification | offers are made, decided for one app or for none, and grant one login at most |
| `OnboardSync` | `onboard/sync.go`, `phase.go`, `Client.SetClaim` | `rows` and `configured` at the backends, `claims` at the provider, `principal` the token a round works from, `turn`, `pc` and `states` the round's.  One action per seam call, `Finish` and `Fails` are the ways `reconcile` returns, `Stop`, `Configure` and `Remove` happen around them |
| `SessionTokens` | `logto/client.go`, `source.go`, `TokenCache.All` | `live` is the refresh token the provider accepts, `session` the consumer's, `source` the copy a session source captured; `store` the token store; `task` one call per goroutine.  `NewSource` is `NewSessionSource`; `BeginBatch`, `Start`, `Look`, `ReturnBatch` are `All` and `Token`; `Post`, `LoseAnswer`, `Refusal`, `ReceiveToken` a token request; `BeginRefresh`, `ReceiveSession` `Refresh`; `BeginManage`, `ReceiveManagement`, `Call`, `Called` `MintOneTimeToken` and `SetClaim` |
| `HomeLandscape` | `onboard/landscape.go` | `doc` is the selector document, `claim` the provider's, `dev` each device's sign-in with the variables of the loop in `Pick`.  `SignIn` is `Home`; `Skip`, `Ping`, `PingFails`, `Picked` the loop, one candidate per step; `Claim`, `ClaimFails` the write; `DocumentChanges` and `UserRecreated` happen around them |
| `Principal` | `claims.go`, `principal.go` | operators: the total accessors, `Map`, `Registered`, `RegistrationClaim` |
| `Guard` | `guard.go`, `policy.go` | operators: `Sub`, `SubOrAny`, `SubOrAll`, `RegisteredGuard`, `Policy`, the default scope checker |
| `Validator` | `validator.go`, `onboarding_tokens.go`, `problems.go` | operators: `Validate`, `ValidateIDToken`, `ExtractOnboarding`, `Recoverable`; the checks in the order the code and the JWT library make them |
| `Access` | one API over the three, `jwks.go`, and its clients | `roles`, `registered`, `signing`, `published` are the provider's; `known` the verifier's copy of the key set, `offset` its clock's error; `held` and `call` each client's session and request.  `Ask` and `AskAgain` begin a request by reading the clock, `Resolve` gets the key and judges one token, or the whole request after the last; `Recover`, `Register` and `Finish` are what the client does next; `GrantRole`, `RevokeRole`, `RotateKey`, `RetireKey`, `RefreshKeys`, `Tick` happen meanwhile |
| `MC...` | - | the constants of the instances |
| `...Proofs`, `TokenCacheAnswers` | - | theorems and their proofs |

Data is abstracted to what the properties distinguish.  A token's value is the
call that had it minted, or its number; a fingerprint or a digest is the token or
the nonce itself (SHA-256 does not collide); a claim name is a member of a set and
the function from backend names to claim names a constant.  A definition named
`...Mutant` is a bug its successor could have had; `PROJECT.json` says which
property detects it.  A variable marked *history* is read by properties only.

How the newer modules abstract:

- The validator and the Logto client keep no state between calls.  So `Access` has
  one request at a time per client, with the session copied when the request is
  sent, and the three uses `SessionTokens` makes of a client - over a session, over
  the client's own credentials, and for management - are initial states of their own.
- A batch asks for each resource once, so in `SessionTokens` every mint leads its own
  flight; the flight itself is the subject of `TokenCache`.  A batch mints with the
  source the consumer has, whose session may be one a refresh replaced long ago.
- The refusals `Client` tells apart by status (`token-signature-invalid`,
  `ownership-denied`, `provider-unavailable`) are a set, and a refused call ends as
  any of them.
- `MapConcurrent` is a library: it keeps a bound on what is in flight, starts nothing
  after a failure, and returns when nothing is in flight.  The JWT library's order of
  checks and the JWKS library's one fetch per unknown key are modelled from the way
  `validator.go` and `jwks.go` use and test them.
- A signature is "signed by this key".  The provider numbers its keys in the order it
  makes them and does not bring a retired one back.
- A latency is a number, and a ping that fails has none.
- Flags and lists of claims come in every shape the accessors accept or reject:
  native or text, absent, of a wrong type.
- `Validator` reads tokens more freely than any run supplies them: its operators and
  the lemmas on them cover a `nbf` claim, audiences with entries that are no text, and
  algorithms the JWT library does not know; the provider of `Access` issues none.

## 4. What the runs check

Runs that pass:

| Run | Instance | Shows |
|---|---|---|
| `cache_race` | 3 callers, 1 cache; a usable name, an undeclared one and one without a key; 3 calls; 3 instants; mints may panic | `SingleFlight`, `OneOutcome`, `NoNeedlessMint`, `EvictedStaysOut`, and `SharesCalls`: the module implements `SharedCall` |
| `cache_live` | 3 callers, 2 replicas, 2 resources, 1 shared store, no panics, fair | `OwnToken`, `WaitersHaveALeader`, `EveryCallReturns` |
| `rotation` | 2 requests, 2 users, 2 tokens, 2 instants, rotating and carrying providers, every seam failing, crashes | `ReuseIsEarned`, `ConsumedStaysConsumed`, `SuccessConsumes`, `DeliveredIsRotatable`, `RecordedForItsOwner`, `UnknownIsNoReplay` |
| `deferred` | 2 racing requests over 2 nonces in one store, failing seams, crashes, expiry | `OneLoginPerNonce`, `NothingIsWasted`, `LateIsRefused`, `UnknownOnlyOnceExpired`, and `RedeemsOnce`: the module implements `OneTimeRedemption` |
| `onboard` | 2 devices of one user, 2 backends of which 1 staged, every initial set of rows, one fault, one removal per backend, fair | `ClaimedMeansRegistered`, `ReportsAreTrue`, `EveryBackendGetsItsVerdict`, `NobodyIsStuck` |
| `session` | 2 resources, the 3 uses, the 3 rotation policies, 2 ticks, 1 rotation, every answer refused or lost, fair | `HandedOutIsLive`, `DeadMeansDropped`, `ManagementTellsTheTruth`, `EveryBatchReturns` |
| `home` | 2 devices of one user, 3 landscapes, latencies 0 and 1, 2 changes of the world, 1 failing call, fair | `PicksTheNearest`, `MovesOnlyInARace`, `DevicesAgree` |
| `access` | 1 client that asks for its own rows, another user's or none, beside the tokens of that user, 1 role, 2 keys, 4 instants, 1 change of roles or keys, 1 fault; a slow clock with text claims, a fast clock with native claims and an unverified address; fair | `RevocationLapses`, `OnlyOurLiveTokensPass`, `OnboardsOnlySelf`, `GoodTokenIsNotRefused`, `RecoverableIsRecovered` |

Every module's type invariant is checked in the first run of that module, except those
of `HomeLandscape` and `TokenCache`, which are proved.

Runs in which the code does not do what a document of the repository says of it
(each is a finding, with the lines, in `PROJECT.json`):

| Run | Shows |
|---|---|
| `onboard_needs` | a staged backend whose row and claim are both there is asked all the same, and reported `needs-onboarding`; one comment says that this means there is no row, another that a present claim means ready without a call |
| `rotation_race` | of two requests presenting one token the loser is told `provider-unavailable`: the race is not attributed |
| `rotation_carry` | with a provider that returns no replacement, a refresh in the middle of another is refused as reuse of a token nobody rotated away |
| `session_batch` | over a provider that rotates on every grant, a batch in which everything succeeds and no answer is lost leaves the consumer a session the provider no longer accepts: `ResourceToken` drops the replacement `Refresh` takes care to keep |

**Bounds, and why they are enough.** Every hazard above needs two actors and one
overtaking between two seam calls; the instances have one more caller than that where a
third role exists (leader, joiner, late caller). `MaxOps`, `MaxTokens` and `MaxTime`
stop the counters: three calls let every caller take every role, two tokens are a
sign-in and its replacement, and the instants reach past a lifetime, so that expiry is
seen from both sides. `MaxFaults` is one in `onboard`: one fault at each place in each
round is what leaves every half-made state, and later rounds start from any of them; the
theorems hold for every number. In `session` one rotation is enough to kill a captured
copy, the bound on concurrent mints is as large as the batch (that a batch advances
under every bound is proved), and the clock passes each lifetime less the skew. In
`home` three landscapes let a tie and a faster later candidate occur in one round, and
both latencies put zero on either side of the comparison. In `access` the instants reach
`Lifetime + Leeway + Drift`, where a revoked role must have lapsed; one change is a
grant, a revocation or a key rotation, each against every request; the second user makes
no request, only lends tokens. `rotation_race` and `rotation_carry` let no call fail:
what they show needs no fault. Symmetry is used for callers, requests and users that the
constants treat alike, and never in a run with a liveness property.

**Deadlock** is checked in every run: no configuration switches it off.  A counter
that has run out does not stop a model, since evicting a token, presenting a blank
one, signing in or starting another round stays possible.  So it is the liveness
properties that say that no call is left behind, and their mutants that show how
one can be.

**Fairness.** `TokenCache!FairSpec` assumes that a goroutine past its first step is
scheduled and that the provider and the store answer, with success or failure:
Go's scheduler gives the first and the HTTP client's and store's timeouts the
second.  It does not assume that anybody calls `Token`, invalidates or that the store
keeps an entry.  `OnboardSync!FairSpec` assumes that calls return and that a
consumer runs a round again, which is what opening the app does; faults are
finite (`MaxFaults`), for a backend that fails for ever onboards nobody.  Nobody has to
complete a second step, to stop or to remove a user.  `SessionTokens` assumes that
the transport answers or fails and that goroutines are scheduled.  `HomeLandscape`
assumes that a sign-in that has begun goes on and that a device signs in again some
day, since refresh tokens run out (`lifetimes.go`); changes and faults are finite.
`Access` assumes that a request that was sent is answered and that a client does what
a recoverable refusal tells it to; nobody has to make a request, to rotate a key or
to refresh the key set.

## 5. What is proved

For every value of the constants that satisfies each module's assumption
(`ConstantsAssumption`, or `ConfigAssumption` in `Access` and `SessionTokens`): any
number of callers, replicas, nonces, users, backends, devices, resources and keys, any
lifetimes, leeway, skew and bounds.

| Module | Theorems | Argument |
|---|---|---|
| `TokenCacheProofs` | `TypeCorrect`, `SingleFlightHolds`, `WaitersHaveALeaderHolds` | registration and leadership agree: a call is registered exactly while its leader is between `Enter` and `Unregister`, and ends up closed |
| `TokenCacheAnswers` | `NoNeedlessMintHolds`, `OneOutcomeHolds`, `EvictedStaysOutHolds`, `OwnTokenHolds`, `SharesCallsHolds` | three invariants on top of the first: a caller whose token stayed usable in the store since its call began is still at its store read (`HeldInv`), a closed call is whole and whoever it answered has its outcome (`OutcomeInv`), and a token in the store lies under the key of its resource and belongs to a call that is past its write and never writes again (`StoreInv`).  `OwnTokenHolds` assumes `SeparatedKeys`, that no two declared names share a key; it is needed, since `Key` slugifies names and `NewResourceTree` rejects exact duplicates only.  `SharesCallsHolds` is the refinement: `Settle` decides a call, `Unregister` shuts it, `Close` and `Wake` tell it, every other step takes a part, vanishes or stutters.  It rests on `Fresh`: a call has no outcome before its leader fills it in |
| `RotationProofs` | `TypeCorrect`, `Inductive`, `ReuseIsEarnedHolds`, `ConsumedStaysConsumedHolds`, `SuccessConsumesHolds`, `DeliveredIsRotatableHolds`, `RecordedForItsOwnerHolds`, `UnknownIsNoReplayHolds`, `ReuseMeansRotatedAwayHolds` | `IInv` has one part per question: `Owned` (records, copies and sessions name the owner), `Earned` (what is consumed was rotated away or carried forward), `Unshared` (a replacement that is not recorded yet is known to the one request that obtained it), `Marked` (the old record is consumed before the new one is written), `Dated` (a copy has the expiry its token was recorded with).  `Unshared` carries the rest: it is why no `Issue` can overwrite a consumed record. |
| `DeferredLoginProofs` | `TypeCorrect`, `OneLoginPerNonceHolds`, `NothingIsWastedHolds`, `LateIsRefusedHolds`, `UnknownOnlyOnceExpiredHolds`, `RedeemsOnceHolds` | `Inv` relates each request's copy of a record to the store: whoever is past `Consume` with an unconsumed copy is the only one, since consuming marks the stored record in the same step.  `RedeemsOnceHolds` is the refinement: every step is one of `OneTimeRedemption`'s or a stutter |
| `OnboardSyncProofs` | `TypeCorrect`, `ClaimedMeansRegisteredHolds`, `EveryBackendGetsItsVerdictHolds`, `ReportsAreTrueHolds`, `OneGoodRoundIsEnoughHolds` | `Grounded` says what the calls a round has made guarantee at its next one, and `WorldGrows` that no step takes any of it back, so other devices cannot.  `Judged` follows the round through the configured order: the backends behind it have their verdicts, none of those ahead has met a failure.  `ClaimedMeansRegisteredHolds` assumes in addition that no two backends share a claim name, which the code does not check |
| `SessionTokensProofs` | `TypeCorrect`, `HandedOutIsLiveHolds`, `DeadMeansDroppedHolds`, `ManagementTellsTheTruthHolds`, `BatchesKillSessionsHolds`, `NoBatchIsStuckHolds`, `BatchAdvancesHolds` | `Alone`: at most one replacement is on its way, it is what the provider accepts, and nobody holds it yet; `Accounted`: the replacement of a dead session is under way or was dropped; `Dated`: a token out of the store was usable when the call began; `Told`: what a management call knows, by phase; `NothingUnused`: unless the provider rotates on every grant, no answer to a batch brings a replacement it could drop |
| `HomeLandscapeProofs` | `TypeCorrect`, `PicksTheNearestHolds`, `MovesOnlyInARaceHolds`, `AgreementLastsHolds` | `Sound` is the invariant of the loop in `Pick`: the choice is the `First` of the candidates heard so far, for any number of landscapes; with it, a device about to write signed in without a claim |
| `AccessProofs` | `TypeCorrect`, `RevocationLapsesHolds`, `OnlyOurLiveTokensPassHolds`, `OnboardsOnlySelfHolds`, `GoodTokenIsNotRefusedHolds` | first lemmas without state: what `Validate` says of a token the provider minted for this API (`OwnVerdict`), of any other (`ForeignVerdict`), and what a guard that passes implies (`GuardAllows`, `OnboardAllows`).  Then the invariant: a session's roles were held when it was issued, under a key made by then (`SessionOK`), the record of when roles were last held is up to date (`Current`), and a request's answer is the verdict on the sessions it copied (`CallOK`) |

Two theorems mark how far a documented claim reaches that a run of section 4
refutes.  `BatchesKillSessionsHolds` says when batches kill a session, under every
policy of the provider: a consumer's session that the provider no longer accepts,
although no answer was lost and no refresh is under way, means that it
rotates on every grant and that a replacement was dropped or is about to be.
`ReuseMeansRotatedAwayHolds` assumes a provider that never leaves a replacement out.
For the race of `rotation_race` there is no such theorem: without failures and overlap
nothing of it would be left.

Liveness is out of the prover's reach, but what it rests on beside the fairness is
not.  `NoBatchIsStuckHolds` says that a running batch always has a call in flight,
may return or may start a call, and `BatchAdvancesHolds` that no call of it is ever
taken back, so that `EveryBatchReturns` needs nothing else but scheduling.
`WaitersHaveALeaderHolds` does the same for `EveryCallReturns`.
`OneGoodRoundIsEnoughHolds` says that a round registers the user at every backend that
does not fail it, so `NobodyIsStuck` needs only a round without a fault, and
`AgreementLastsHolds` that an agreement of the devices, once reached, is the end of
`DevicesAgree` unless the user is created again.

Why strengthenings are needed: hardly one of the invariants above is inductive.  That
nobody else is minting does not follow from nobody minting now, but from the
registered call naming its leader; that a claim is written for an existing row not
from the claims, but from where the writer is in its round; that a role was held
recently not from the answer, but from the session the token was minted from.

## 6. What is only model-checked, and what is not modelled

Only checked: liveness under fairness, which the prover does not reach -
`EveryCallReturns`, `EveryBatchReturns`, `NobodyIsStuck`, `DevicesAgree` and
`RecoverableIsRecovered`. Every safety property of a passing run is proved, and so are
the refinements of `OneTimeRedemption` and `SharedCall`. What a recursive definition
computes for every input would need induction over data and is equally out of the
prover's reach; no module here needs one.

Not modelled:

- The handoff carriers (`deferred/carrier.go`): pure string code.  `DeferredLogin`
  takes what a carrier can do to a nonce - deliver, damage or lose it - as input.
- The JSON schema of the configuration block and the constructors' checks of their
  options: data.  What they guarantee is in the assumptions on the constants.
- The slug function: a constant, so the theorems hold for every one.
- Hashing and signatures (libraries), forms, URLs and headers of requests, logging
  and the payloads of problems.
- Cancellation of contexts: a call that gives up is a failing seam or `Crash`.
- The recorders and assertions of the test helpers.  Their stores, provider and
  pinger are what the models' environments follow.
- A round of `OnboardSync` without a subject: refused before it starts, nothing is
  left behind.

- Eviction of refresh records at sign-out, which `rotation.go` leaves to the consumer.
- A client's timeout: `SessionTokens` has calls that fail, but `http.DefaultClient`
  waits for ever for an answer that never comes, and so would a batch.

Hazards without a property are in `PROJECT.json` with the reason.

## 7. Plan

Done so far: the token cache, rotation, deferred login and onboarding; then the
selector, session tokens with the client, and access with its validator; then the
proofs of all their safety properties; then `SharedCall`, which the single flight
implements, the conditions under which claims refuted by a run hold, and the
safety half of four liveness properties.  Left, in order:

1. The composition of `SessionTokens` with `Rotation`'s record store: a server that
   records what a batch's source then spends.
2. The resource tree and the lifetimes of `config.go` and `lifetimes.go` as tables,
   with the checks that relate them.
3. The carriers, if they come to keep state.
