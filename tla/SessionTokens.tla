----------------------------- MODULE SessionTokens -----------------------------
(***************************************************************************)
(* A consumer's Logto client, lib/logto/client.go, put to the three uses   *)
(* the library has for it: TokenCache.All over a SessionSource, while the  *)
(* consumer also refreshes the session; TokenCache.All over a              *)
(* ClientCredentialsSource; and the management calls, MintOneTimeToken and *)
(* SetClaim.  The client keeps no state, so the uses meet only at the      *)
(* provider and each is an initial state of its own (`use`).               *)
(*                                                                         *)
(* A task is a goroutine with at most one call under way: one task per     *)
(* resource of the tree for the batch, one that refreshes, one that        *)
(* manages.  Requests and answers take time and may be lost.  The batch    *)
(* asks for each resource once, so every mint leads its own flight: the    *)
(* flight itself is the subject of TokenCache.                             *)
(***************************************************************************)
EXTENDS Integers, FiniteSets

CONSTANTS
    Resources,         \* the resource tree
    Refreshing, Managing,  \* the two other tasks
    Uses,              \* among "session", "client" and "management"
    Policies,          \* when the provider rotates: "never", "refresh", "every"
    Concurrency,       \* the bound of TokenCache.All
    Skew,              \* DefaultRefreshSkew
    AccessLifetime,    \* the contract's AccessTokenLifetime
    OneTimeLifetime,   \* the contract's OneTimeTokenLifetime
    Troubles,          \* how the provider may refuse, whatever it is asked
    ExpiresIn,         \* what grants say of their lifetime; 0: nothing
    NoToken,           \* the zero AccessToken, and a store miss
    MaxTime, MaxRotations  \* bounds of the model

Tasks == Resources \cup {Refreshing, Managing}

\* An AccessToken; `dies` is the instant the provider stops accepting it.
AccessToken == [resource : Tasks, exp : Nat, dies : Nat]

\* NewResourceTree, NewTokenCache and NewClient accept the configuration.
ConfigAssumption ==
    /\ Resources # {} /\ IsFiniteSet(Resources)
    /\ Refreshing \notin Resources /\ Managing \notin Resources
    /\ Refreshing # Managing
    /\ Uses \subseteq {"session", "client", "management"}
    /\ Policies \subseteq {"never", "refresh", "every"}
    /\ Concurrency \in Nat \ {0}
    /\ {Skew, AccessLifetime, OneTimeLifetime} \subseteq Nat
    /\ Troubles \subseteq Nat \ {200}
    /\ ExpiresIn \subseteq Nat
    /\ NoToken \notin AccessToken
    /\ MaxTime \in Nat /\ MaxRotations \in Nat
ASSUME ConfigAssumption

VARIABLES
    use, policy,  \* this consumer's use of the client; the provider's rotation
    clock,
    live,         \* the refresh token the provider accepts: a generation
    session,      \* the refresh token of the consumer's current Session
    source,       \* the refresh token the cache's SessionSource captured
    store,        \* the token store: resource -> AccessToken or NoToken
    task,         \* where each task is and what its call has read
    batch,        \* the last All: "none", "running", "whole" or "failed"
    dropped       \* history: how replacements were lost: "unused", "lost"

vars == <<use, policy, clock, live, session, source, store, task, batch, dropped>>

--------------------------------------------------------------------------------
(* The provider, and what an answer of its token endpoint carries.          *)

\* A refusal says nothing but its status.
Refused(status) == [status |-> status, life |-> 0, dies |-> 0, next |-> 0]

\* A grant: the lifetime it states, and the refresh token that replaces the one
\* presented (0: none).  Without a stated lifetime the contract's holds.
Lasting(life) == IF life > 0 THEN life ELSE AccessLifetime

Grant(life, next) ==
    [status |-> 200, life |-> life, dies |-> clock + Lasting(life), next |-> next]

Rotates(t) == policy = "every" \/ (policy = "refresh" /\ t = Refreshing)

\* The refresh token the task's request presents, 0 for client credentials.
Presented(t) ==
    IF t = Managing \/ use = "client" THEN 0
    ELSE IF t = Refreshing THEN session
    ELSE source

\* What the token endpoint may answer, with the refresh token it then accepts:
\* trouble of its own, an invalid_grant (400) for a spent refresh token, or a
\* grant.  The provider rotates MaxRotations times at most.
TokenEndpoint(t) ==
    {[answer |-> Refused(status), live |-> live] : status \in Troubles}
    \cup
    IF Presented(t) \notin {0, live} THEN {[answer |-> Refused(400), live |-> live]}
    ELSE IF Presented(t) # 0 /\ Rotates(t) /\ live <= MaxRotations
    THEN {[answer |-> Grant(life, live + 1), live |-> live + 1] : life \in ExpiresIn}
    ELSE {[answer |-> Grant(life, 0), live |-> live] : life \in ExpiresIn}

\* classifyStatus.
classifyStatus(status) ==
    CASE status = 401 -> "token-signature-invalid"
      [] status = 403 -> "ownership-denied"
      [] OTHER        -> "provider-unavailable"

Problems == {"nil", "token-signature-invalid", "ownership-denied",
             "provider-unavailable", "token-claim-missing"}

--------------------------------------------------------------------------------
(* A task.  A call goes idle -> [queued -> look ->] post -> answer; a       *)
(* management call goes on with call -> called; a task of the batch is then *)
(* done until All returns.                                                  *)

Phases == {"idle", "queued", "look", "post", "answer", "call", "called", "done"}

\* `now` is the call's first reading of the clock, `token` what it has obtained,
\* `hit` whether from the store.  History: `since`, when it returned, and `did`,
\* whether the management endpoint has done what was asked.
Rest == [at |-> "idle", does |-> "none", now |-> 0, answer |-> Refused(500),
         token |-> NoToken, err |-> "nil", hit |-> FALSE, since |-> 0,
         did |-> FALSE]

Goto(t, at) == task' = [task EXCEPT ![t].at = at]

\* A task of the batch waits for the others; the other two are over.
Return(t, token, problem, hit) ==
    task' = [task EXCEPT ![t] =
        [Rest EXCEPT !.at = IF t \in Resources THEN "done" ELSE "idle",
                     !.does = task[t].does, !.did = task[t].did,
                     !.token = token, !.err = problem, !.hit = hit,
                     !.now = IF hit THEN task[t].now ELSE 0,
                     !.since = IF hit THEN clock ELSE 0]]

Fail(t, problem) == Return(t, NoToken, problem, FALSE)

\* Definitions named ...Mutant are wrong on purpose: each is a bug the definition
\* after it could have had, which a property detects.
accessTokenMutant(t, answer) ==
    [resource |-> "", exp |-> clock + Lasting(answer.life), dies |-> answer.dies]

\* Client.accessToken: an absolute expiry off a clock read when the answer has
\* arrived, with the contract's lifetime when the answer states none.
accessToken(t, answer) ==
    [resource |-> t, exp |-> clock + Lasting(answer.life), dies |-> answer.dies]

ExpiredMutant(token, now) == now >= token.exp

Expired(token, now) == now + Skew >= token.exp

Usable(r, now) == store[r] # NoToken /\ ~Expired(store[r], now)

--------------------------------------------------------------------------------
(* TokenCache.All.                                                          *)

InFlight == {r \in Resources : task[r].at \in {"look", "post", "answer"}}

Failed == {r \in Resources : task[r].at = "done" /\ task[r].err # "nil"}

\* NewSessionSource captures the session by value: a consumer that refreshes goes
\* on with a source, and a cache, of the old session until it makes others.
NewSource ==
    /\ use = "session" /\ batch # "running"
    /\ source' = session
    /\ UNCHANGED <<use, policy, clock, live, session, store, task, batch, dropped>>

BeginBatch ==
    /\ use # "management" /\ batch # "running"
    /\ batch' = "running"
    /\ task' = [t \in Tasks |-> IF t \in Resources THEN [Rest EXCEPT !.at = "queued"]
                                 ELSE task[t]]
    /\ UNCHANGED <<use, policy, clock, live, session, source, store, dropped>>

\* MapConcurrent starts the next resource unless one has failed, and Token reads
\* the clock.
Start(r) ==
    /\ task[r].at = "queued" /\ Failed = {}
    /\ Cardinality(InFlight) < Concurrency
    /\ \/ task' = [task EXCEPT ![r].at = "look", ![r].now = clock]
       \/ Fail(r, "provider-unavailable")                        \* no clock
    /\ UNCHANGED <<use, policy, clock, live, session, source, store, batch, dropped>>

LookMutant(r) ==
    /\ task[r].at = "look"
    /\ \/ /\ Usable(r, task[r].now)
          /\ Return(r, store[r], "nil", TRUE)
       \/ /\ ~Usable(r, task[r].now)
          /\ Goto(r, "post")
       \/ Goto(r, "queued")
    /\ UNCHANGED <<use, policy, clock, live, session, source, store, batch, dropped>>

\* Token's store read: a hit, a miss, or a store that cannot be read.
Look(r) ==
    /\ task[r].at = "look"
    /\ \/ /\ Usable(r, task[r].now)
          /\ Return(r, store[r], "nil", TRUE)
       \/ /\ ~Usable(r, task[r].now)
          /\ Goto(r, "post")
       \/ Fail(r, "provider-unavailable")
    /\ UNCHANGED <<use, policy, clock, live, session, source, store, batch, dropped>>

\* All returns once nothing is in flight: every task's token, or the error.
ReturnBatch ==
    /\ batch = "running" /\ InFlight = {}
    /\ Failed # {} \/ (\A r \in Resources : task[r].at = "done")
    /\ batch' = IF Failed = {} THEN "whole" ELSE "failed"
    /\ task' = [t \in Tasks |-> IF t \in Resources THEN Rest ELSE task[t]]
    /\ UNCHANGED <<use, policy, clock, live, session, source, store, dropped>>

--------------------------------------------------------------------------------
(* The calls of the client.                                                 *)

BeginRefresh ==
    /\ use = "session" /\ task[Refreshing].at = "idle"
    /\ task' = [task EXCEPT ![Refreshing] = [Rest EXCEPT !.at = "post"]]
    /\ UNCHANGED <<use, policy, clock, live, session, source, store, batch, dropped>>

\* MintOneTimeToken reads the clock before anything else; a blank argument, no
\* clock or no management endpoint is an error at once.
BeginManage(does) ==
    /\ use = "management" /\ task[Managing].at = "idle"
    /\ \E at \in {"post", "idle"} :
         task' = [task EXCEPT ![Managing] =
            [Rest EXCEPT !.at = at, !.does = does, !.now = clock,
                         !.err = IF at = "post" THEN "nil" ELSE "token-claim-missing"]]
    /\ UNCHANGED <<use, policy, clock, live, session, source, store, batch, dropped>>

\* Client.token's request arrives at the provider, or the provider cannot be
\* reached.
Post(t) ==
    /\ task[t].at = "post"
    /\ \/ \E served \in TokenEndpoint(t) :
            /\ live' = served.live
            /\ task' = [task EXCEPT ![t].at = "answer", ![t].answer = served.answer]
       \/ /\ Fail(t, "provider-unavailable")
          /\ UNCHANGED live
    /\ UNCHANGED <<use, policy, clock, session, source, store, batch, dropped>>

\* The answer never arrives, is no document the client can read, or is dated by
\* no clock: the replacement it carried is lost.
LoseAnswer(t) ==
    /\ task[t].at \in {"answer", "called"}
    /\ dropped' = IF task[t].answer.next = 0 THEN dropped ELSE dropped \cup {"lost"}
    /\ Fail(t, "provider-unavailable")
    /\ UNCHANGED <<use, policy, clock, live, session, source, store, batch>>

Refusal(t) ==
    /\ task[t].at \in {"answer", "called"} /\ task[t].answer.status # 200
    /\ Fail(t, classifyStatus(task[t].answer.status))
    /\ UNCHANGED <<use, policy, clock, live, session, source, store, batch, dropped>>

Granted(t) == task[t].at = "answer" /\ task[t].answer.status = 200

\* ResourceToken and ClientCredentials keep the access token of the answer only;
\* TokenCache.mint stores it, and a Set that reports failure may have been
\* applied.
ReceiveToken(r) ==
    /\ Granted(r)
    /\ dropped' = IF task[r].answer.next = 0 THEN dropped ELSE dropped \cup {"unused"}
    /\ LET token == accessToken(r, task[r].answer) IN
       \/ /\ Return(r, token, "nil", FALSE)
          /\ store' = [store EXCEPT ![r] = token]
       \/ /\ Fail(r, "provider-unavailable")
          /\ store' \in {store, [store EXCEPT ![r] = token]}
    /\ UNCHANGED <<use, policy, clock, live, session, source, batch>>

RefreshedMutant(answer) == answer.next

\* Refresh carries the presented token forward when the answer has no other; the
\* consumer goes on with the new Session.
Refreshed(answer) == IF answer.next = 0 THEN session ELSE answer.next

ReceiveSession ==
    /\ Granted(Refreshing)
    /\ session' = Refreshed(task[Refreshing].answer)
    /\ Return(Refreshing, NoToken, "nil", FALSE)
    /\ UNCHANGED <<use, policy, clock, live, source, store, batch, dropped>>

\* Client.management: the token is for this one call.
ReceiveManagement ==
    /\ Granted(Managing)
    /\ task' = [task EXCEPT ![Managing].at = "call",
                            ![Managing].token = accessToken(Managing, task[Managing].answer)]
    /\ UNCHANGED <<use, policy, clock, live, session, source, store, batch, dropped>>

\* The management endpoint: it refuses a token that has died, and anything at
\* will; a one-time token lives from the moment it is minted.
Call ==
    /\ task[Managing].at = "call"
    /\ \/ Fail(Managing, "provider-unavailable")
       \/ \E status \in Troubles \cup {400} :
            task' = [task EXCEPT ![Managing].at = "called", ![Managing].answer = Refused(status)]
       \/ /\ clock < task[Managing].token.dies
          /\ task' = [task EXCEPT
                ![Managing] = [@ EXCEPT !.at = "called", !.did = TRUE,
                    !.answer = [Grant(0, 0) EXCEPT !.dies = clock + OneTimeLifetime]]]
    /\ UNCHANGED <<use, policy, clock, live, session, source, store, batch, dropped>>

OneTimeTokenMutant ==
    [resource |-> Managing, exp |-> clock + OneTimeLifetime,
     dies |-> task[Managing].answer.dies]

\* MintOneTimeToken dates its token from the reading it began with.
OneTimeToken ==
    [resource |-> Managing, exp |-> task[Managing].now + OneTimeLifetime,
     dies |-> task[Managing].answer.dies]

\* send and what its caller makes of a success; SetClaim returns nothing.
Called ==
    /\ task[Managing].at = "called" /\ task[Managing].answer.status = 200
    /\ Return(Managing, IF task[Managing].does = "claim" THEN NoToken ELSE OneTimeToken,
              "nil", FALSE)
    /\ UNCHANGED <<use, policy, clock, live, session, source, store, batch, dropped>>

Tick ==
    /\ clock < MaxTime
    /\ clock' = clock + 1
    /\ UNCHANGED <<use, policy, live, session, source, store, task, batch, dropped>>

Init ==
    /\ use \in Uses
    /\ policy \in IF use = "session" THEN Policies ELSE {"never"}
    /\ clock = 0
    /\ live = 1 /\ session = 1 /\ source = 1
    /\ store = [r \in Resources |-> NoToken]
    /\ task = [t \in Tasks |-> Rest]
    /\ batch = "none"
    /\ dropped = {}

\* What happens to a call once it has been made.
Proceed(t) ==
    \/ /\ t \in Resources
       /\ Start(t) \/ Look(t) \/ ReceiveToken(t)
    \/ t = Refreshing /\ ReceiveSession
    \/ t = Managing /\ (ReceiveManagement \/ Call \/ Called)
    \/ Post(t) \/ LoseAnswer(t) \/ Refusal(t)

Next ==
    \/ NewSource \/ BeginBatch \/ ReturnBatch \/ BeginRefresh
    \/ \E does \in {"onetime", "claim"} : BeginManage(does)
    \/ \E t \in Tasks : Proceed(t)
    \/ Tick

\* The transport answers or fails, and goroutines are scheduled.
Fairness == WF_vars(ReturnBatch) /\ \A t \in Tasks : WF_vars(Proceed(t))

Spec == Init /\ [][Next]_vars /\ Fairness
--------------------------------------------------------------------------------
(* Safety. *)

Answers == [status : {200, 400, 500} \cup Troubles, life : ExpiresIn \cup {0},
            dies : Nat, next : Nat]

Calls == [at : Phases, does : {"none", "onetime", "claim"}, now : Nat,
          answer : Answers, token : AccessToken \cup {NoToken}, err : Problems,
          hit : BOOLEAN, since : Nat, did : BOOLEAN]

TypeOK ==
    /\ use \in Uses /\ policy \in Policies \cup {"never"}
    /\ clock \in 0..MaxTime
    /\ live \in 1..(MaxRotations + 1) /\ session \in 1..live /\ source \in 1..live
    /\ store \in [Resources -> AccessToken \cup {NoToken}]
    /\ \A r \in Resources : store[r] # NoToken => store[r].resource = r
    /\ task \in [Tasks -> Calls]
    /\ batch \in {"none", "running", "whole", "failed"}
    /\ dropped \subseteq {"unused", "lost"}

(***************************************************************************)
(* A token handed out of the store is alive when it is handed out, as long *)
(* as the answer that brought it and the store's reading of it took no     *)
(* longer than the skew together.  The expiry the client computes counts   *)
(* from the arrival of the answer, so it comes after the provider's own by *)
(* the answer's way (client.go:337), and the skew is what makes up for it  *)
(* (token.go:27-32).                                                       *)
(***************************************************************************)
HandedOutIsLive ==
    \A r \in Resources :
        LET k == task[r] IN
        k.hit /\ (k.since - k.now) + (k.token.exp - k.token.dies) <= Skew =>
            k.since < k.token.dies

(***************************************************************************)
(* The session a consumer goes on with is dead only if a replacement of    *)
(* its refresh token was granted and not kept: by a resource grant, of     *)
(* which ResourceToken keeps the access token alone, or by an answer that  *)
(* was lost.  Refreshing itself never ends a session, whether the provider *)
(* rotates, does not, or begins to (client.go:126-157).                    *)
(***************************************************************************)
DeadMeansDropped ==
    session # live =>
        \/ dropped # {}
        \/ \E t \in Tasks : Granted(t) /\ task[t].answer.next = live

(***************************************************************************)
(* A management call that reports success has been done, and the one-time  *)
(* token it returns is never said to live longer than the provider lets it *)
(* live, however long its two round trips took (client.go:161-209).        *)
(***************************************************************************)
ManagementTellsTheTruth ==
    LET k == task[Managing] IN
    k.at = "idle" /\ k.does # "none" /\ k.err = "nil" =>
        /\ k.did
        /\ k.does = "onetime" => k.token # NoToken /\ k.token.exp <= k.token.dies

--------------------------------------------------------------------------------
(* Liveness. *)

(***************************************************************************)
(* Every All returns, whatever fails: a refused mint, a lost answer or a   *)
(* store that cannot be read holds up neither the others nor the batch     *)
(* (cache.go:159).                                                         *)
(***************************************************************************)
EveryBatchReturns == batch = "running" ~> batch # "running"

--------------------------------------------------------------------------------
(* What a comment says, and the code does not do. *)

(***************************************************************************)
(* "Losing it would end the session on the next refresh" (client.go:129):  *)
(* with no answer lost, a session outlives a batch that fetched every      *)
(* token over it.                                                          *)
(***************************************************************************)
SessionOutlivesItsBatches ==
    batch = "whole" /\ task[Refreshing].at = "idle" /\ "lost" \notin dropped =>
        session = live

================================================================================
