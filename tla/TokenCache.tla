---------------------------- MODULE TokenCache ----------------------------
(***************************************************************************)
(* The per-resource token cache of lib/authengine: TokenCache.Token and    *)
(* TokenCache.Invalidate (cache.go), the tokenFlight that collapses        *)
(* concurrent misses (flight.go), and the KV store behind them.            *)
(*                                                                         *)
(* A caller is a goroutine using one TokenCache.  Several caches - the     *)
(* replicas of a consumer, or the caches of several sessions - may share   *)
(* one store.  A call stops at every point where another goroutine, or     *)
(* another replica, can get in between: before the store is read, before   *)
(* the flight's mutex is taken, before the provider and the store answer,  *)
(* before the call's outcome is filled in, before the call is unregistered,*)
(* and before it is closed.                                                *)
(***************************************************************************)
EXTENDS Naturals

CONSTANTS
    Callers,      \* goroutines
    Caches,       \* TokenCache instances, each with a flight group of its own
    CacheOf,      \* the cache each caller uses
    Owners,       \* whom tokens are minted for (a session's subject, a client)
    OwnerOf,      \* the owner each cache's TokenSource mints for
    Names,        \* resource names callers may ask for
    Declared,     \* the names each cache's resource tree declares
    Keys,         \* store keys
    NoKey,        \* the name slugifies to nothing: it has no key
    KeyOf,        \* KeyOf[cache][name]: the namespaced key, or NoKey
    Skew,         \* how long before expiry a cached token counts as spent
    Lifetimes,    \* the lifetimes the provider may grant
    MaxTime,      \* bound: the last instant of the clock
    MaxOps,       \* bound: how many Token calls are made in all
    NoToken,      \* the zero AccessToken, and a store miss
    MintMayPanic  \* whether the mint closure may panic instead of returning

Ops == 1..MaxOps

\* An AccessToken: the Token call and the cache that had it minted stand for its
\* value, next to the resource it is stamped with and the instant it expires.
Token == [op : Ops, cache : Caches, resource : Names, exp : Nat]

Failures == {"resource-unregistered", "config-invalid", "provider-unavailable"}
Errors == Failures \cup {"nil", "panic"}

\* A (token, error) pair as Go functions return it.
Outcome == [token : Token \cup {NoToken}, err : Errors]
Failed(e) == [token |-> NoToken, err |-> e]
Got(t) == [token |-> t, err |-> "nil"]

ASSUME ConstantsAssumption ==
    /\ CacheOf \in [Callers -> Caches]
    /\ OwnerOf \in [Caches -> Owners]
    /\ Names # {}
    /\ Declared \in [Caches -> SUBSET Names]
    /\ KeyOf \in [Caches -> [Names -> Keys \cup {NoKey}]]
    /\ NoKey \notin Keys
    /\ Skew \in Nat
    /\ Lifetimes \subseteq Nat
    /\ MaxTime \in Nat
    /\ MaxOps \in Nat
    /\ NoToken \notin Token
    /\ MintMayPanic \in BOOLEAN

VARIABLES
    clock,      \* the instant the clock seam reads
    store,      \* the KV store: key -> AccessToken or NoToken
    calls,      \* per cache, the flight's calls map: key -> call, 0 when absent
    tokenCall,  \* the tokenCall objects, named by the Token call that made them
    ops,        \* how many Token calls have begun
    pc,         \* where each caller is
    op,         \* the caller's current, or last, Token call
    name,       \* its argument
    now,        \* its local reading of the clock
    result,     \* the (token, err) the mint closure returned to its leader
    flight,     \* the tokenCall the caller leads or has joined
    reply,      \* what its last call returned, and by which path
    held,       \* history: the token usable when the call began is still stored
    shunned     \* history: the tokens each caller received and has invalidated

vars == <<clock, store, calls, tokenCall, ops, pc, op, name, now, result,
          flight, reply, held, shunned>>

locals == <<op, name, now>>
-----------------------------------------------------------------------------
Expired(t, at) == at + Skew >= t.exp

Key(p) == KeyOf[CacheOf[p]][name[p]]

Usable(t, at) == t # NoToken /\ ~Expired(t, at)

Goto(p, l) == pc' = [pc EXCEPT ![p] = l]

Return(p, via, outcome) ==
    /\ Goto(p, "idle")
    /\ reply' = [reply EXCEPT ![p] =
                    [via |-> via, token |-> outcome.token, err |-> outcome.err]]
    /\ held' = [held EXCEPT ![p] = FALSE]

\* Every change of one entry of the store.
Put(k, t) ==
    /\ store' = [store EXCEPT ![k] = t]
    /\ held' = [p \in Callers |-> held[p] /\ (Key(p) = k => t = store[k])]

\* Definitions named ...Mutant are wrong on purpose: each is a bug the definition
\* after it could have had, which a property below detects.

\* The token the provider grants caller p, stamped with the resource's name.
Granted(p, life) ==
    [op |-> op[p], cache |-> CacheOf[p], resource |-> name[p],
     exp |-> clock + life]

\* The call in flight for the caller's key, 0 when there is none.
InFlightNeverMutant(p) == 0

InFlightAnyKeyMutant(p) ==
    LET busy == {k \in Keys : calls[CacheOf[p]][k] # 0}
    IN  IF busy = {} THEN 0 ELSE calls[CacheOf[p]][CHOOSE k \in busy : TRUE]

InFlight(p) == calls[CacheOf[p]][Key(p)]

Register(p, o) == calls' = [calls EXCEPT ![CacheOf[p]][Key(p)] = o]

\* What the leader writes to its tokenCall before unregistering it.
FillInMutant(o, outcome) ==
    tokenCall' = [tokenCall EXCEPT ![o].token = outcome.token]

FillIn(o, outcome) ==
    tokenCall' = [tokenCall EXCEPT ![o] =
                    [@ EXCEPT !.token = outcome.token, !.err = outcome.err]]
-----------------------------------------------------------------------------
Init ==
    /\ clock = 0
    /\ store = [k \in Keys |-> NoToken]
    /\ calls = [c \in Caches |-> [k \in Keys |-> 0]]
    /\ tokenCall = [o \in Ops |-> [token |-> NoToken, err |-> "nil", done |-> FALSE]]
    /\ ops = 0
    /\ pc = [p \in Callers |-> "idle"]
    /\ op = [p \in Callers |-> 0]
    /\ name = [p \in Callers |-> CHOOSE n \in Names : TRUE]
    /\ now = [p \in Callers |-> 0]
    /\ result = [p \in Callers |-> Failed("nil")]
    /\ flight = [p \in Callers |-> 0]
    /\ reply = [p \in Callers |-> [via |-> "none", token |-> NoToken, err |-> "nil"]]
    /\ held = [p \in Callers |-> FALSE]
    /\ shunned = [p \in Callers |-> {}]

\* TokenCache.Token up to the store read: the tree, the key, the clock.
Begin(p, n) ==
    LET c == CacheOf[p]
        k == KeyOf[c][n]
    IN  /\ pc[p] = "idle"
        /\ ops < MaxOps
        /\ ops' = ops + 1
        /\ op' = [op EXCEPT ![p] = ops + 1]
        /\ name' = [name EXCEPT ![p] = n]
        /\ now' = [now EXCEPT ![p] = clock]
        /\ flight' = [flight EXCEPT ![p] = 0]
        /\ \/ /\ n \notin Declared[c]
              /\ Return(p, "none", Failed("resource-unregistered"))
           \/ /\ n \in Declared[c]
              /\ k = NoKey
              /\ Return(p, "none", Failed("config-invalid"))
           \/ /\ n \in Declared[c]
              /\ k # NoKey
              /\ Return(p, "none", Failed("provider-unavailable")) \* no clock
           \/ /\ n \in Declared[c]
              /\ k # NoKey
              /\ Goto(p, "get")
              /\ held' = [held EXCEPT ![p] = Usable(store[k], clock)]
              /\ UNCHANGED reply
        /\ UNCHANGED <<clock, store, calls, tokenCall, result, shunned>>

\* store.Get, and the decision it leads to.
GetMutant(p) ==
    /\ pc[p] = "get"
    /\ Goto(p, "enter")
    /\ UNCHANGED <<clock, store, calls, tokenCall, ops, locals, result, flight,
                   reply, held, shunned>>

Get(p) ==
    /\ pc[p] = "get"
    /\ \/ Return(p, "none", Failed("provider-unavailable"))
       \/ /\ Usable(store[Key(p)], now[p])
          /\ Return(p, "hit", Got(store[Key(p)]))
       \/ /\ ~Usable(store[Key(p)], now[p])
          /\ Goto(p, "enter")
          /\ UNCHANGED <<reply, held>>
    /\ UNCHANGED <<clock, store, calls, tokenCall, ops, locals, result, flight,
                   shunned>>

\* flight.do under its mutex: join the call in flight for the key, or lead one.
Enter(p) ==
    /\ pc[p] = "enter"
    /\ \/ /\ InFlight(p) # 0
          /\ flight' = [flight EXCEPT ![p] = InFlight(p)]
          /\ Goto(p, "wait")
          /\ UNCHANGED calls
       \/ /\ InFlight(p) = 0
          /\ flight' = [flight EXCEPT ![p] = op[p]]
          /\ Register(p, op[p])
          /\ Goto(p, "mint")
    /\ UNCHANGED <<clock, store, tokenCall, ops, locals, result, reply, held,
                   shunned>>

\* The mint closure returns an error to its leader.
MintFailsMutant(p) ==
    /\ result' = [result EXCEPT ![p] = Failed("provider-unavailable")]
    /\ Goto(p, "idle")

MintFails(p) ==
    /\ result' = [result EXCEPT ![p] = Failed("provider-unavailable")]
    /\ Goto(p, "settle")

\* source.Mint, and the resource name stamped on what it granted.
Mint(p) ==
    /\ pc[p] = "mint"
    /\ \/ MintFails(p)
       \/ \E life \in Lifetimes :
            /\ result' = [result EXCEPT ![p] = Got(Granted(p, life))]
            /\ Goto(p, "write")
    /\ UNCHANGED <<clock, store, calls, tokenCall, ops, locals, flight, reply,
                   held, shunned>>

\* A panic unwinds the leader: nothing after mint() in flight.do runs.
Panic(p) ==
    /\ MintMayPanic
    /\ pc[p] \in {"mint", "write"}
    /\ Return(p, "led", Failed("panic"))
    /\ UNCHANGED <<clock, store, calls, tokenCall, ops, locals, result, flight,
                   shunned>>

\* The second clock read and store.Set; a Set that reports failure may have
\* been applied all the same.
CacheWrite(p) ==
    /\ pc[p] = "write"
    /\ \/ /\ MintFails(p)                                   \* no clock, or no Set
          /\ UNCHANGED <<store, held>>
       \/ /\ MintFails(p)
          /\ Put(Key(p), result[p].token)
       \/ /\ Put(Key(p), result[p].token)
          /\ Goto(p, "settle")
          /\ UNCHANGED result
    /\ UNCHANGED <<clock, calls, tokenCall, ops, locals, flight, reply, shunned>>

\* The leader fills in its tokenCall, outside the mutex: the call is still
\* registered, and others may still join it.
SettleMutant(p) ==
    /\ pc[p] = "settle"
    /\ result[p].err = "nil"
    /\ FillIn(flight[p], result[p])
    /\ Goto(p, "unregister")
    /\ UNCHANGED <<clock, store, calls, ops, locals, result, flight, reply, held,
                   shunned>>

Settle(p) ==
    /\ pc[p] = "settle"
    /\ FillIn(flight[p], result[p])
    /\ Goto(p, "unregister")
    /\ UNCHANGED <<clock, store, calls, ops, locals, result, flight, reply, held,
                   shunned>>

\* Under the mutex, the call leaves the calls map.
UnregisterMutant(p) ==
    /\ pc[p] = "unregister"
    /\ Goto(p, "close")
    /\ UNCHANGED <<clock, store, calls, tokenCall, ops, locals, result, flight,
                   reply, held, shunned>>

Unregister(p) ==
    /\ pc[p] = "unregister"
    /\ Register(p, 0)
    /\ Goto(p, "close")
    /\ UNCHANGED <<clock, store, tokenCall, ops, locals, result, flight, reply,
                   held, shunned>>

\* close(done), and the leader returns.
Close(p) ==
    /\ pc[p] = "close"
    /\ tokenCall' = [tokenCall EXCEPT ![flight[p]].done = TRUE]
    /\ Return(p, "led", result[p])
    /\ UNCHANGED <<clock, store, calls, ops, locals, result, flight, shunned>>

\* A joined caller sees done closed and returns the call's outcome.
WakeMutant(p) ==
    /\ pc[p] = "wait"
    /\ tokenCall[flight[p]].done
    /\ Goto(p, "idle")
    /\ reply' = [reply EXCEPT ![p].token = tokenCall[flight[p]].token]
    /\ Put(Key(p), tokenCall[flight[p]].token)
    /\ UNCHANGED <<clock, calls, tokenCall, ops, locals, result, flight, shunned>>

Wake(p) ==
    /\ pc[p] = "wait"
    /\ tokenCall[flight[p]].done
    /\ Return(p, "joined", tokenCall[flight[p]])
    /\ UNCHANGED <<clock, store, calls, tokenCall, ops, locals, result, flight,
                   shunned>>

\* TokenCache.Invalidate.  A name without a key is refused and changes nothing;
\* a Delete that reports failure may have been applied.  A caller invalidates
\* the token it last received for the name, if any.
Invalidate(p, n) ==
    LET k == KeyOf[CacheOf[p]][n]
    IN  /\ pc[p] = "idle"
        /\ k # NoKey
        /\ Put(k, NoToken)
        /\ \/ UNCHANGED shunned           \* reported as failed, or no token held
           \/ /\ n = name[p]
              /\ reply[p].token # NoToken
              /\ shunned' = [shunned EXCEPT ![p] = @ \cup {reply[p].token}]
        /\ UNCHANGED <<clock, calls, tokenCall, ops, pc, locals, result, flight,
                       reply>>

Tick ==
    /\ clock < MaxTime
    /\ clock' = clock + 1
    /\ UNCHANGED <<store, calls, tokenCall, ops, pc, locals, result, flight,
                   reply, held, shunned>>

\* The KV tier drops an entry: its TTL passed, or it was evicted.
Lose(k) ==
    /\ store[k] # NoToken
    /\ Put(k, NoToken)
    /\ UNCHANGED <<clock, calls, tokenCall, ops, pc, locals, result, flight,
                   reply, shunned>>

Proceed(p) ==
    \/ Get(p)
    \/ Enter(p)
    \/ Mint(p)
    \/ Panic(p)
    \/ CacheWrite(p)
    \/ Settle(p)
    \/ Unregister(p)
    \/ Close(p)
    \/ Wake(p)

Next ==
    \/ \E p \in Callers : Proceed(p)
    \/ \E p \in Callers, n \in Names : Begin(p, n) \/ Invalidate(p, n)
    \/ Tick
    \/ \E k \in Keys : Lose(k)

Spec == Init /\ [][Next]_vars

\* Goroutines are scheduled, and the provider and the store answer or fail.
FairSpec == Spec /\ \A p \in Callers : WF_vars(Proceed(p))
-----------------------------------------------------------------------------
PCs == {"idle", "get", "enter", "mint", "write", "settle", "unregister", "close",
        "wait"}

\* Callers whose call is registered, and those that have not closed it yet.
Leading(p) == pc[p] \in {"mint", "write", "settle", "unregister"}
Flying(p) == pc[p] \in {"mint", "write", "settle", "unregister", "close"}

TypeOK ==
    /\ clock \in Nat
    /\ store \in [Keys -> Token \cup {NoToken}]
    /\ calls \in [Caches -> [Keys -> 0..MaxOps]]
    /\ tokenCall \in [Ops -> [token : Token \cup {NoToken}, err : Errors,
                              done : BOOLEAN]]
    /\ ops \in 0..MaxOps
    /\ pc \in [Callers -> PCs]
    /\ op \in [Callers -> 0..MaxOps]
    /\ name \in [Callers -> Names]
    /\ now \in [Callers -> Nat]
    /\ result \in [Callers -> Outcome]
    /\ flight \in [Callers -> 0..MaxOps]
    /\ reply \in [Callers -> [via : {"none", "hit", "led", "joined"},
                             token : Token \cup {NoToken}, err : Errors]]
    /\ held \in [Callers -> BOOLEAN]
    /\ shunned \in [Callers -> SUBSET Token]

(***************************************************************************)
(* At any time one caller at most is minting for one key of one cache: the *)
(* flight's "one mint per key per race" (flight.go).                       *)
(***************************************************************************)
SingleFlight ==
    \A p, q \in Callers :
        /\ Leading(p) /\ Leading(q)
        /\ CacheOf[p] = CacheOf[q]
        /\ Key(p) = Key(q)
        => p = q

(***************************************************************************)
(* Unless a mint panics, a caller that joined a call is never left behind: *)
(* the call is closed, or a live leader is still on its way to closing it, *)
(* on every error path of the mint closure (flight.do).                    *)
(***************************************************************************)
WaitersHaveALeader ==
    ~MintMayPanic =>
        \A p \in Callers :
            pc[p] = "wait" =>
                \/ tokenCall[flight[p]].done
                \/ \E q \in Callers : Flying(q) /\ op[q] = flight[p]

(***************************************************************************)
(* The leader and everyone who joined its call return the same token and   *)
(* the same error, and a joined call returns a token exactly when it       *)
(* returns no error (flight.do: a single call whose result every waiter    *)
(* observes).                                                              *)
(***************************************************************************)
OneOutcome ==
    \A p \in Callers :
        pc[p] = "idle" /\ reply[p].via = "joined" =>
            /\ (reply[p].err = "nil") = (reply[p].token # NoToken)
            /\ \A q \in Callers :
                  pc[q] = "idle" /\ flight[q] = flight[p] =>
                      /\ reply[q].token = reply[p].token
                      /\ reply[q].err = reply[p].err

Said(r) == [token |-> r.token, err |-> r.err]

\* The parts callers have in the calls of their flights.
PartOf(p) ==
    LET slot == <<CacheOf[p], Key(p)>>
    IN  IF pc[p] = "wait" THEN [role |-> "member", slot |-> slot, call |-> flight[p]]
        ELSE IF Flying(p) THEN [role |-> "leader", slot |-> slot, call |-> flight[p]]
        ELSE [role |-> "none"]

\* What a caller was last told by a call, and not by the store or a refusal.
ToldTo(p) ==
    IF reply[p].via \in {"led", "joined"} /\ reply[p].err # "panic"
    THEN Said(reply[p])
    ELSE Failed("nil")

Flight == INSTANCE SharedCall WITH
    Parties <- Callers,
    Slots <- Caches \X Keys,
    Calls <- Ops,
    NoCall <- 0,
    Outcomes <- [token : Token, err : {"nil"}] \cup [token : {NoToken}, err : Failures],
    Undecided <- Failed("nil"),
    Untold <- Failed("nil"),
    open <- [s \in Caches \X Keys |-> calls[s[1]][s[2]]],
    part <- [p \in Callers |-> PartOf(p)],
    outcome <- [o \in Ops |-> Said(tokenCall[o])],
    told <- [p \in Callers |-> ToldTo(p)]

(***************************************************************************)
(* The flight implements SharedCall, step by step as tokenFlight.do does - *)
(* join or register, fill in, unregister, close(done), return - with other *)
(* goroutines in between.  One that joins after the fill-in is told an     *)
(* outcome older than its own request; but nobody is told what another     *)
(* caller had returned with before he asked, nobody is told another        *)
(* outcome than the rest, and one call at most is open for a key.          *)
(***************************************************************************)
SharesCalls == Flight!Spec

(***************************************************************************)
(* A call during which one usable token sat in the store from beginning to *)
(* end is answered from the store: it neither mints nor waits for a mint   *)
(* (TokenCache.Token).                                                     *)
(***************************************************************************)
NoNeedlessMint ==
    \A p \in Callers : pc[p] \notin {"idle", "get"} => ~held[p]

(***************************************************************************)
(* Two declared names, of any caches sharing the store, have one key only  *)
(* when they are the same resource of the same owner.  Nothing in the code *)
(* guarantees it: a deployment has to.                                     *)
(***************************************************************************)
SeparatedKeys ==
    \A c, d \in Caches : \A n \in Declared[c], m \in Declared[d] :
        KeyOf[c][n] = KeyOf[d][m] /\ KeyOf[c][n] # NoKey =>
            n = m /\ OwnerOf[c] = OwnerOf[d]

(***************************************************************************)
(* Token returns a token of the resource it was asked for, minted for the  *)
(* owner its cache acts for, whoever minted it and wherever it was stored. *)
(***************************************************************************)
OwnToken ==
    \A p \in Callers :
        pc[p] = "idle" /\ reply[p].token # NoToken =>
            /\ reply[p].token.resource = name[p]
            /\ OwnerOf[reply[p].token.cache] = OwnerOf[CacheOf[p]]

(***************************************************************************)
(* Once a holder of a token has invalidated it, that token is never stored *)
(* again: no slow mint and no joined caller puts it back                   *)
(* (TokenCache.Invalidate against TokenCache.mint).                        *)
(***************************************************************************)
EvictedStaysOut ==
    \A p \in Callers, k \in Keys : store[k] \notin shunned[p]

(***************************************************************************)
(* Every call of Token returns.                                            *)
(***************************************************************************)
EveryCallReturns == \A p \in Callers : pc[p] # "idle" ~> pc[p] = "idle"
=============================================================================
