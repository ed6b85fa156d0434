-------------------------- MODULE TokenCacheProofs --------------------------
(***************************************************************************)
(* What TLAPS proves of TokenCache, for every set of callers, caches, names *)
(* and keys, every skew and every bound.                                   *)
(***************************************************************************)
EXTENDS TokenCache, TLAPS

\* The helpers keep the variables they assign in their types.
LEMMA GotoType ==
  ASSUME TypeOK, NEW p \in Callers, NEW l \in PCs, Goto(p, l)
  PROVE  pc' \in [Callers -> PCs]
BY DEF TypeOK, Goto

LEMMA ReturnType ==
  ASSUME TypeOK, NEW p \in Callers,
         NEW via \in {"none", "hit", "led", "joined"},
         NEW outcome, outcome.token \in Token \cup {NoToken},
         outcome.err \in Errors, Return(p, via, outcome)
  PROVE  /\ pc' \in [Callers -> PCs]
         /\ reply' \in [Callers -> [via : {"none", "hit", "led", "joined"},
                                   token : Token \cup {NoToken}, err : Errors]]
         /\ held' \in [Callers -> BOOLEAN]
<1>1. pc' \in [Callers -> PCs]
  BY DEF TypeOK, Return, Goto, PCs
<1>2. reply' \in [Callers -> [via : {"none", "hit", "led", "joined"},
                             token : Token \cup {NoToken}, err : Errors]]
  BY DEF TypeOK, Return
<1>3. held' \in [Callers -> BOOLEAN]
  BY DEF TypeOK, Return
<1>4. QED
  BY <1>1, <1>2, <1>3

LEMMA PutType ==
  ASSUME TypeOK, NEW k \in Keys, NEW t \in Token \cup {NoToken}, Put(k, t)
  PROVE  /\ store' \in [Keys -> Token \cup {NoToken}]
         /\ held' \in [Callers -> BOOLEAN]
<1>1. store' \in [Keys -> Token \cup {NoToken}]
  BY DEF TypeOK, Put
<1>2. held' \in [Callers -> BOOLEAN]
  BY DEF TypeOK, Put
<1>3. QED
  BY <1>1, <1>2

LEMMA FailedType ==
  ASSUME NEW e \in Errors
  PROVE  /\ Failed(e) \in Outcome
         /\ Failed(e).token \in Token \cup {NoToken}
         /\ Failed(e).err \in Errors
BY DEF Failed, Outcome

LEMMA ErrorTypes ==
  /\ Errors = {"resource-unregistered", "config-invalid",
               "provider-unavailable", "nil", "panic"}
  /\ PCs = {"idle", "get", "enter", "mint", "write", "settle", "unregister",
            "close", "wait"}
BY DEF Errors, Failures, PCs

LEMMA GotType ==
  ASSUME NEW t \in Token
  PROVE  /\ Got(t) \in Outcome
         /\ Got(t).token \in Token \cup {NoToken}
         /\ Got(t).err \in Errors
BY ErrorTypes DEF Got, Outcome

LEMMA GrantedType ==
  ASSUME TypeOK, NEW p \in Callers, NEW life \in Lifetimes, op[p] # 0
  PROVE  Granted(p, life) \in Token
BY ConstantsAssumption DEF TypeOK, Granted, Token, Ops

LEMMA MintFailsType ==
  ASSUME TypeOK, NEW p \in Callers, MintFails(p)
  PROVE  /\ result' \in [Callers -> Outcome]
         /\ pc' \in [Callers -> PCs]
<1>1. Failed("provider-unavailable") \in Outcome
  BY FailedType, ErrorTypes
<1>2. QED
  BY <1>1, ErrorTypes DEF TypeOK, MintFails, Goto

LEMMA RegisterType ==
  ASSUME TypeOK, NEW p \in Callers, NEW o \in 0..MaxOps, Register(p, o)
  PROVE  calls' \in [Caches -> [Keys -> 0..MaxOps]]
BY ConstantsAssumption DEF TypeOK, Register
-----------------------------------------------------------------------------
(***************************************************************************)
(* What a call in progress carries: an identity, a declared name with a    *)
(* key, and, once it is past the flight's mutex, the call it leads or      *)
(* joined.                                                                 *)
(***************************************************************************)
CallOK ==
  \A p \in Callers :
    /\ pc[p] # "idle" =>
         op[p] # 0 /\ Key(p) \in Keys /\ name[p] \in Declared[CacheOf[p]]
    /\ Flying(p) => flight[p] = op[p]
    /\ pc[p] = "wait" => flight[p] # 0

LEMMA BeginType ==
  ASSUME TypeOK, CallOK, NEW p \in Callers, NEW n \in Names, Begin(p, n)
  PROVE  TypeOK' /\ CallOK'
<1> DEFINE c == CacheOf[p]
           k == KeyOf[c][n]
<1>1. /\ pc[p] = "idle"
      /\ ops \in Nat /\ ops + 1 \in 1..MaxOps
      /\ ops' = ops + 1
      /\ op' = [op EXCEPT ![p] = ops + 1]
      /\ name' = [name EXCEPT ![p] = n]
      /\ now' = [now EXCEPT ![p] = clock]
      /\ flight' = [flight EXCEPT ![p] = 0]
      /\ UNCHANGED <<clock, store, calls, tokenCall, result, shunned>>
  BY ConstantsAssumption DEF Begin, TypeOK
<1>2. /\ pc' \in [Callers -> PCs]
      /\ \A q \in Callers : q # p => pc'[q] = pc[q]
      /\ reply' \in [Callers -> [via : {"none", "hit", "led", "joined"},
                                token : Token \cup {NoToken}, err : Errors]]
      /\ held' \in [Callers -> BOOLEAN]
      /\ pc'[p] = "idle" \/ (pc'[p] = "get" /\ n \in Declared[c] /\ k # NoKey)
  <2>1. ASSUME NEW e \in {"resource-unregistered", "config-invalid",
                          "provider-unavailable"},
               Return(p, "none", Failed(e))
        PROVE  <1>2!1 /\ <1>2!2 /\ <1>2!3 /\ <1>2!4 /\ pc'[p] = "idle"
    <3>1. e \in Errors
      BY ErrorTypes
    <3>2. <1>2!1 /\ <1>2!3 /\ <1>2!4
      BY <2>1, <3>1, FailedType, ReturnType
    <3>3. <1>2!2 /\ pc'[p] = "idle"
      BY <2>1 DEF Return, Goto, TypeOK
    <3>4. QED
      BY <3>2, <3>3
  <2>2. ASSUME Goto(p, "get"), held' = [held EXCEPT ![p] = Usable(store[k], clock)],
               n \in Declared[c], k # NoKey, UNCHANGED reply
        PROVE  <1>2!1 /\ <1>2!2 /\ <1>2!3 /\ <1>2!4 /\ pc'[p] = "get"
    <3>1. pc' \in [Callers -> PCs] /\ <1>2!2 /\ pc'[p] = "get"
      BY <2>2, ErrorTypes DEF TypeOK, Goto
    <3>2. held' \in [Callers -> BOOLEAN]
      BY <2>2 DEF TypeOK, Usable
    <3>3. QED
      BY <2>2, <3>1, <3>2 DEF TypeOK
  <2>3. QED
    BY <2>1, <2>2 DEF Begin
<1>3. TypeOK'
  <2>1. ops' \in 0..MaxOps /\ op' \in [Callers -> 0..MaxOps]
    BY <1>1, ConstantsAssumption DEF TypeOK
  <2>2. /\ name' \in [Callers -> Names]
        /\ now' \in [Callers -> Nat]
        /\ flight' \in [Callers -> 0..MaxOps]
    BY <1>1, ConstantsAssumption DEF TypeOK
  <2>3. QED
    BY <1>1, <1>2, <2>1, <2>2 DEF TypeOK
<1>4. CallOK'
  <2> SUFFICES ASSUME NEW q \in Callers
               PROVE  CallOK!(q)'
    BY DEF CallOK
  <2>1. CASE q = p
    <3>1. op'[p] # 0 /\ name'[p] = n
      BY <1>1 DEF TypeOK
    <3>2. k \in Keys \cup {NoKey} /\ Key(p)' = k
      BY <3>1, ConstantsAssumption DEF Key
    <3>3. pc'[p] # "idle" => Key(p)' \in Keys /\ name'[p] \in Declared[c]
      BY <1>2, <3>1, <3>2
    <3>4. ~Flying(p)' /\ pc'[p] # "wait"
      BY <1>2 DEF Flying
    <3>5. QED
      BY <2>1, <3>1, <3>3, <3>4
  <2>2. CASE q # p
    BY <1>1, <1>2, <2>2 DEF CallOK, TypeOK, Key, Flying
  <2>3. QED
    BY <2>1, <2>2
<1>5. QED
  BY <1>3, <1>4

\* A step of a call in progress keeps its identity and its name.
LEMMA StepCallOK ==
  ASSUME CallOK, NEW p \in Callers, pc[p] # "idle", UNCHANGED locals,
         \A q \in Callers \ {p} : pc'[q] = pc[q] /\ flight'[q] = flight[q],
         Flying(p)' => flight'[p] = op[p],
         pc'[p] = "wait" => flight'[p] # 0
  PROVE  CallOK'
BY DEF CallOK, locals, Key, Flying

LEMMA GotoAt ==
  ASSUME TypeOK, NEW p \in Callers, NEW l, Goto(p, l)
  PROVE  pc'[p] = l /\ \A q \in Callers \ {p} : pc'[q] = pc[q]
BY DEF TypeOK, Goto

LEMMA ReturnAt ==
  ASSUME TypeOK, NEW p \in Callers, NEW via, NEW outcome, Return(p, via, outcome)
  PROVE  /\ pc'[p] = "idle"
         /\ \A q \in Callers \ {p} :
              pc'[q] = pc[q] /\ reply'[q] = reply[q] /\ held'[q] = held[q]
         /\ reply'[p] = [via |-> via, token |-> outcome.token, err |-> outcome.err]
         /\ ~held'[p]
BY DEF TypeOK, Return, Goto

\* Where the steps with a choice of outcomes leave the caller.
LEMMA BeginAt ==
  ASSUME TypeOK, NEW p \in Callers, NEW n \in Names, Begin(p, n)
  PROVE  /\ pc[p] = "idle" /\ pc'[p] \in {"idle", "get"}
         /\ \A q \in Callers \ {p} : pc'[q] = pc[q]
<1>1. ASSUME NEW e, Return(p, "none", Failed(e))
      PROVE  pc'[p] = "idle" /\ \A q \in Callers \ {p} : pc'[q] = pc[q]
  BY <1>1, ReturnAt
<1>2. CASE Goto(p, "get")
  BY <1>2, GotoAt DEF Begin
<1>3. QED
  BY <1>1, <1>2 DEF Begin

LEMMA GetAt ==
  ASSUME TypeOK, NEW p \in Callers, Get(p)
  PROVE  /\ pc[p] = "get" /\ pc'[p] \in {"idle", "enter"}
         /\ \A q \in Callers \ {p} : pc'[q] = pc[q]
<1>1. CASE Return(p, "none", Failed("provider-unavailable"))
  BY <1>1, ReturnAt DEF Get
<1>2. CASE Return(p, "hit", Got(store[Key(p)]))
  BY <1>2, ReturnAt DEF Get
<1>3. CASE Goto(p, "enter")
  BY <1>3, GotoAt DEF Get
<1>4. QED
  BY <1>1, <1>2, <1>3 DEF Get

LEMMA MintAt ==
  ASSUME TypeOK, NEW p \in Callers, Mint(p)
  PROVE  /\ pc[p] = "mint" /\ pc'[p] \in {"write", "settle"}
         /\ \A q \in Callers \ {p} : pc'[q] = pc[q]
<1>1. CASE Goto(p, "settle")
  BY <1>1, GotoAt DEF Mint
<1>2. CASE Goto(p, "write")
  BY <1>2, GotoAt DEF Mint
<1>3. QED
  BY <1>1, <1>2 DEF Mint, MintFails

LEMMA GetType ==
  ASSUME TypeOK, CallOK, NEW p \in Callers, Get(p)
  PROVE  TypeOK' /\ CallOK'
<1>1. /\ pc[p] = "get"
      /\ UNCHANGED <<clock, store, calls, tokenCall, ops, locals, result, flight,
                     shunned>>
  BY DEF Get
<1>2. store[Key(p)] \in Token \cup {NoToken}
  BY <1>1 DEF TypeOK, CallOK
<1>3. CASE Return(p, "none", Failed("provider-unavailable"))
  <2>1. TypeOK'
    BY <1>1, <1>3, ReturnType, FailedType, ErrorTypes DEF TypeOK, locals
  <2>2. CallOK'
    BY <1>1, <1>3, ReturnAt, StepCallOK DEF Flying
  <2>3. QED
    BY <2>1, <2>2
<1>4. CASE Usable(store[Key(p)], now[p]) /\ Return(p, "hit", Got(store[Key(p)]))
  <2>1. store[Key(p)] \in Token
    BY <1>2, <1>4 DEF Usable
  <2>2. TypeOK'
    BY <1>1, <1>4, <2>1, ReturnType, GotType DEF TypeOK, locals
  <2>3. CallOK'
    BY <1>1, <1>4, ReturnAt, StepCallOK DEF Flying
  <2>4. QED
    BY <2>2, <2>3
<1>5. CASE Goto(p, "enter") /\ UNCHANGED <<reply, held>>
  <2>1. TypeOK'
    BY <1>1, <1>5, GotoType, ErrorTypes DEF TypeOK, locals
  <2>2. CallOK'
    BY <1>1, <1>5, GotoAt, StepCallOK DEF Flying
  <2>3. QED
    BY <2>1, <2>2
<1>6. QED
  BY <1>3, <1>4, <1>5 DEF Get

LEMMA EnterType ==
  ASSUME TypeOK, CallOK, NEW p \in Callers, Enter(p)
  PROVE  TypeOK' /\ CallOK'
<1>1. /\ pc[p] = "enter"
      /\ UNCHANGED <<clock, store, tokenCall, ops, locals, result, reply, held,
                     shunned>>
  BY DEF Enter
<1>2. InFlight(p) \in 0..MaxOps /\ op[p] \in 0..MaxOps /\ op[p] # 0
  BY <1>1, ConstantsAssumption DEF TypeOK, CallOK, InFlight
<1>3. CASE /\ InFlight(p) # 0
           /\ flight' = [flight EXCEPT ![p] = InFlight(p)]
           /\ Goto(p, "wait")
           /\ UNCHANGED calls
  <2>1. flight' \in [Callers -> 0..MaxOps]
    BY <1>2, <1>3 DEF TypeOK
  <2>2. TypeOK'
    BY <1>1, <1>3, <2>1, GotoType, ErrorTypes DEF TypeOK, locals
  <2>3. /\ flight'[p] # 0
        /\ \A q \in Callers \ {p} : flight'[q] = flight[q]
    BY <1>3 DEF TypeOK
  <2>4. CallOK'
    BY <1>1, <1>3, <2>3, GotoAt, StepCallOK DEF Flying
  <2>5. QED
    BY <2>2, <2>4
<1>4. CASE /\ flight' = [flight EXCEPT ![p] = op[p]]
           /\ Register(p, op[p])
           /\ Goto(p, "mint")
  <2>1. flight' \in [Callers -> 0..MaxOps]
    BY <1>2, <1>4 DEF TypeOK
  <2>2. calls' \in [Caches -> [Keys -> 0..MaxOps]]
    BY <1>2, <1>4, RegisterType
  <2>3. TypeOK'
    BY <1>1, <1>4, <2>1, <2>2, GotoType, ErrorTypes DEF TypeOK, locals
  <2>4. /\ flight'[p] = op[p]
        /\ \A q \in Callers \ {p} : flight'[q] = flight[q]
    BY <1>4 DEF TypeOK
  <2>5. CallOK'
    BY <1>1, <1>4, <2>4, GotoAt, StepCallOK DEF Flying
  <2>6. QED
    BY <2>3, <2>5
<1>5. QED
  BY <1>3, <1>4 DEF Enter

LEMMA MintType ==
  ASSUME TypeOK, CallOK, NEW p \in Callers, Mint(p)
  PROVE  TypeOK' /\ CallOK'
<1>1. /\ pc[p] = "mint" /\ op[p] # 0 /\ flight[p] = op[p]
      /\ UNCHANGED <<clock, store, calls, tokenCall, ops, locals, flight, reply,
                     held, shunned>>
  BY DEF Mint, CallOK, Flying
<1>2. /\ result' \in [Callers -> Outcome]
      /\ pc' \in [Callers -> PCs]
      /\ \A q \in Callers \ {p} : pc'[q] = pc[q]
      /\ pc'[p] # "wait"
  <2>1. CASE MintFails(p)
    BY <2>1, MintFailsType, GotoAt DEF MintFails
  <2>2. ASSUME NEW life \in Lifetimes,
               result' = [result EXCEPT ![p] = Got(Granted(p, life))],
               Goto(p, "write")
        PROVE  <1>2
    <3>1. Got(Granted(p, life)) \in Outcome
      BY <1>1, GrantedType, GotType
    <3>2. QED
      BY <2>2, <3>1, GotoType, GotoAt, ErrorTypes DEF TypeOK
  <2>3. QED
    BY <2>1, <2>2 DEF Mint
<1>3. TypeOK'
  BY <1>1, <1>2 DEF TypeOK, locals
<1>4. CallOK'
  BY <1>1, <1>2, StepCallOK
<1>5. QED
  BY <1>3, <1>4

LEMMA PanicType ==
  ASSUME TypeOK, CallOK, NEW p \in Callers, Panic(p)
  PROVE  TypeOK' /\ CallOK'
<1>1. /\ pc[p] # "idle" /\ Return(p, "led", Failed("panic"))
      /\ UNCHANGED <<clock, store, calls, tokenCall, ops, locals, result, flight,
                     shunned>>
  BY DEF Panic
<1>2. TypeOK'
  BY <1>1, ReturnType, FailedType, ErrorTypes DEF TypeOK, locals
<1>3. CallOK'
  BY <1>1, ReturnAt, StepCallOK DEF Flying
<1>4. QED
  BY <1>2, <1>3

LEMMA CacheWriteType ==
  ASSUME TypeOK, CallOK, NEW p \in Callers, CacheWrite(p)
  PROVE  TypeOK' /\ CallOK'
<1>1. /\ pc[p] = "write" /\ flight[p] = op[p] /\ Key(p) \in Keys
      /\ UNCHANGED <<clock, calls, tokenCall, ops, locals, flight, reply, shunned>>
  BY DEF CacheWrite, CallOK, Flying
<1>2. result[p].token \in Token \cup {NoToken}
  BY DEF TypeOK, Outcome
<1>3. /\ pc' \in [Callers -> PCs]
      /\ result' \in [Callers -> Outcome]
      /\ \A q \in Callers \ {p} : pc'[q] = pc[q]
      /\ pc'[p] = "settle"
  <2>1. CASE MintFails(p)
    BY <2>1, MintFailsType, GotoAt DEF MintFails
  <2>2. CASE Goto(p, "settle") /\ UNCHANGED result
    BY <2>2, GotoType, GotoAt, ErrorTypes DEF TypeOK
  <2>3. QED
    BY <2>1, <2>2 DEF CacheWrite
<1>4. /\ store' \in [Keys -> Token \cup {NoToken}]
      /\ held' \in [Callers -> BOOLEAN]
  <2>1. CASE Put(Key(p), result[p].token)
    BY <1>1, <1>2, <2>1, PutType
  <2>2. CASE UNCHANGED <<store, held>>
    BY <2>2 DEF TypeOK
  <2>3. QED
    BY <2>1, <2>2 DEF CacheWrite
<1>5. TypeOK'
  BY <1>1, <1>3, <1>4 DEF TypeOK, locals
<1>6. CallOK'
  BY <1>1, <1>3, StepCallOK
<1>7. QED
  BY <1>5, <1>6

LEMMA SettleType ==
  ASSUME TypeOK, CallOK, NEW p \in Callers, Settle(p)
  PROVE  TypeOK' /\ CallOK'
<1>1. /\ pc[p] = "settle" /\ flight[p] = op[p]
      /\ FillIn(flight[p], result[p]) /\ Goto(p, "unregister")
      /\ UNCHANGED <<clock, store, calls, ops, locals, result, flight, reply,
                     held, shunned>>
  BY DEF Settle, CallOK, Flying
<1>2. tokenCall' \in [Ops -> [token : Token \cup {NoToken}, err : Errors,
                             done : BOOLEAN]]
  <2>1. result[p].token \in Token \cup {NoToken} /\ result[p].err \in Errors
    BY DEF TypeOK, Outcome
  <2> DEFINE c == [tokenCall[flight[p]] EXCEPT !.token = result[p].token,
                                               !.err = result[p].err]
  <2>2. ASSUME flight[p] \in Ops
        PROVE  c \in [token : Token \cup {NoToken}, err : Errors, done : BOOLEAN]
    <3>1. tokenCall[flight[p]] \in [token : Token \cup {NoToken}, err : Errors,
                                    done : BOOLEAN]
      BY <2>2 DEF TypeOK
    <3>2. QED
      BY <2>1, <3>1, Zenon
  <2>3. tokenCall' = [tokenCall EXCEPT ![flight[p]] = c]
    BY <1>1 DEF FillIn
  <2>4. QED
    BY <2>2, <2>3 DEF TypeOK
<1>3. TypeOK'
  BY <1>1, <1>2, GotoType, ErrorTypes DEF TypeOK, locals
<1>4. CallOK'
  BY <1>1, GotoAt, StepCallOK DEF Flying
<1>5. QED
  BY <1>3, <1>4

LEMMA UnregisterType ==
  ASSUME TypeOK, CallOK, NEW p \in Callers, Unregister(p)
  PROVE  TypeOK' /\ CallOK'
<1>1. /\ pc[p] = "unregister" /\ flight[p] = op[p]
      /\ Register(p, 0) /\ Goto(p, "close")
      /\ UNCHANGED <<clock, store, tokenCall, ops, locals, result, flight, reply,
                     held, shunned>>
  BY DEF Unregister, CallOK, Flying
<1>2. calls' \in [Caches -> [Keys -> 0..MaxOps]]
  BY <1>1, RegisterType, ConstantsAssumption
<1>3. TypeOK'
  BY <1>1, <1>2, GotoType, ErrorTypes DEF TypeOK, locals
<1>4. CallOK'
  BY <1>1, GotoAt, StepCallOK DEF Flying
<1>5. QED
  BY <1>3, <1>4

LEMMA CloseType ==
  ASSUME TypeOK, CallOK, NEW p \in Callers, Close(p)
  PROVE  TypeOK' /\ CallOK'
<1>1. /\ pc[p] = "close" /\ Return(p, "led", result[p])
      /\ tokenCall' = [tokenCall EXCEPT ![flight[p]].done = TRUE]
      /\ UNCHANGED <<clock, store, calls, ops, locals, result, flight, shunned>>
  BY DEF Close
<1>2. tokenCall' \in [Ops -> [token : Token \cup {NoToken}, err : Errors,
                             done : BOOLEAN]]
  BY <1>1 DEF TypeOK
<1>3. result[p].token \in Token \cup {NoToken} /\ result[p].err \in Errors
  BY DEF TypeOK, Outcome
<1>4. TypeOK'
  BY <1>1, <1>2, <1>3, ReturnType DEF TypeOK, locals
<1>5. CallOK'
  BY <1>1, ReturnAt, StepCallOK DEF Flying
<1>6. QED
  BY <1>4, <1>5

LEMMA WakeType ==
  ASSUME TypeOK, CallOK, NEW p \in Callers, Wake(p)
  PROVE  TypeOK' /\ CallOK'
<1>1. /\ pc[p] = "wait" /\ Return(p, "joined", tokenCall[flight[p]])
      /\ UNCHANGED <<clock, store, calls, tokenCall, ops, locals, result, flight,
                     shunned>>
  BY DEF Wake
<1>2. flight[p] \in Ops
  BY <1>1, ConstantsAssumption DEF TypeOK, CallOK, Ops
<1>3. /\ tokenCall[flight[p]].token \in Token \cup {NoToken}
      /\ tokenCall[flight[p]].err \in Errors
  BY <1>2 DEF TypeOK
<1>4. TypeOK'
  BY <1>1, <1>3, ReturnType DEF TypeOK, locals
<1>5. CallOK'
  BY <1>1, ReturnAt, StepCallOK DEF Flying
<1>6. QED
  BY <1>4, <1>5

\* Steps that leave every call in progress where it is.
LEMMA StillCallOK ==
  ASSUME CallOK, UNCHANGED <<pc, locals, flight>>
  PROVE  CallOK'
BY DEF CallOK, locals, Key, Flying

LEMMA InvalidateType ==
  ASSUME TypeOK, CallOK, NEW p \in Callers, NEW n \in Names, Invalidate(p, n)
  PROVE  TypeOK' /\ CallOK'
<1> DEFINE k == KeyOf[CacheOf[p]][n]
<1>1. /\ k \in Keys /\ Put(k, NoToken)
      /\ UNCHANGED <<clock, calls, tokenCall, ops, pc, locals, result, flight,
                     reply>>
  BY ConstantsAssumption DEF Invalidate
<1>2. shunned' \in [Callers -> SUBSET Token]
  <2>1. CASE UNCHANGED shunned
    BY <2>1 DEF TypeOK
  <2>2. CASE /\ reply[p].token # NoToken
             /\ shunned' = [shunned EXCEPT ![p] = @ \cup {reply[p].token}]
    <3>1. reply[p].token \in Token
      BY <2>2 DEF TypeOK
    <3>2. shunned[p] \cup {reply[p].token} \in SUBSET Token
      BY <3>1 DEF TypeOK
    <3>3. QED
      BY <2>2, <3>2 DEF TypeOK
  <2>3. QED
    BY <2>1, <2>2 DEF Invalidate
<1>3. TypeOK'
  BY <1>1, <1>2, PutType DEF TypeOK, locals
<1>4. QED
  BY <1>1, <1>3, StillCallOK

LEMMA EnvironmentType ==
  ASSUME TypeOK, CallOK, Tick \/ (\E k \in Keys : Lose(k)) \/ UNCHANGED vars
  PROVE  TypeOK' /\ CallOK'
<1>1. CASE Tick
  BY <1>1, StillCallOK DEF Tick, TypeOK, locals
<1>2. ASSUME NEW k \in Keys, Lose(k)
      PROVE  TypeOK' /\ CallOK'
  BY <1>2, PutType, StillCallOK DEF Lose, TypeOK, locals
<1>3. CASE UNCHANGED vars
  BY <1>3, StillCallOK DEF vars, TypeOK, locals
<1>4. QED
  BY <1>1, <1>2, <1>3

(***************************************************************************)
(* Every variable keeps its type: in particular a call past the flight's   *)
(* mutex names a tokenCall that exists, and what is stored, joined and     *)
(* returned is always a whole token or none.                               *)
(***************************************************************************)
LEMMA TypeInit == Init => TypeOK /\ CallOK
<1> SUFFICES ASSUME Init PROVE TypeOK /\ CallOK
  OBVIOUS
<1>1. (CHOOSE n \in Names : TRUE) \in Names
  BY ConstantsAssumption
<1>2. name \in [Callers -> Names]
  BY <1>1 DEF Init
<1>3. Failed("nil") \in Outcome
  BY FailedType, ErrorTypes
<1>4. tokenCall \in [Ops -> [token : Token \cup {NoToken}, err : Errors,
                            done : BOOLEAN]]
  BY ErrorTypes DEF Init
<1>5. reply \in [Callers -> [via : {"none", "hit", "led", "joined"},
                           token : Token \cup {NoToken}, err : Errors]]
  BY ErrorTypes DEF Init
<1>6. /\ clock \in Nat
      /\ store \in [Keys -> Token \cup {NoToken}]
      /\ calls \in [Caches -> [Keys -> 0..MaxOps]]
      /\ ops \in 0..MaxOps
      /\ op \in [Callers -> 0..MaxOps]
      /\ now \in [Callers -> Nat]
      /\ flight \in [Callers -> 0..MaxOps]
  BY ConstantsAssumption DEF Init
<1>7. /\ pc \in [Callers -> PCs]
      /\ result \in [Callers -> Outcome]
      /\ held \in [Callers -> BOOLEAN]
      /\ shunned \in [Callers -> SUBSET Token]
  BY <1>3, ErrorTypes DEF Init
<1>8. TypeOK
  BY <1>2, <1>4, <1>5, <1>6, <1>7 DEF TypeOK
<1>9. CallOK
  BY DEF Init, CallOK, Flying
<1>10. QED
  BY <1>8, <1>9

LEMMA TypeNext == TypeOK /\ CallOK /\ [Next]_vars => TypeOK' /\ CallOK'
BY BeginType, GetType, EnterType, MintType, PanicType, CacheWriteType,
   SettleType, UnregisterType, CloseType, WakeType, InvalidateType, EnvironmentType
   DEF Next, Proceed

THEOREM TypeCorrect == Spec => []TypeOK
<1>1. Spec => [](TypeOK /\ CallOK)
  BY TypeInit, TypeNext, PTL DEF Spec
<1>2. QED
  BY <1>1, PTL
-----------------------------------------------------------------------------
(***************************************************************************)
(* The flight.  FlightInv ties the calls map to the callers: calls are     *)
(* numbered apart, who is leading is registered under its key, what is     *)
(* registered belongs to that key, and - no mint panicking - to someone    *)
(* still leading.                                                          *)
(***************************************************************************)
Numbered ==
  \A p \in Callers :
    op[p] <= ops /\ \A q \in Callers : op[q] = op[p] /\ op[p] # 0 => q = p

LeadersRegistered ==
  \A p \in Callers : Leading(p) => calls[CacheOf[p]][Key(p)] = op[p]

RegisteredLed ==
  \A c \in Caches, k \in Keys :
    calls[c][k] # 0 =>
      /\ calls[c][k] <= ops
      /\ \A q \in Callers :
           op[q] = calls[c][k] => CacheOf[q] = c /\ Key(q) = k
      /\ ~MintMayPanic => \E q \in Callers : Leading(q) /\ op[q] = calls[c][k]

FlightInv ==
  TypeOK /\ CallOK /\ Numbered /\ LeadersRegistered /\ RegisteredLed

LEMMA FlightInvInit == Init => FlightInv
<1> SUFFICES ASSUME Init PROVE FlightInv
  OBVIOUS
<1>1. Numbered /\ LeadersRegistered /\ RegisteredLed
  BY DEF Init, Numbered, LeadersRegistered, RegisteredLed, Leading
<1>2. QED
  BY <1>1, TypeInit DEF FlightInv

\* Steps that register nothing, and end no call that is registered.
LEMMA StillFlightInv ==
  ASSUME Numbered, LeadersRegistered, RegisteredLed,
         UNCHANGED <<calls, ops, locals>>,
         \A q \in Callers : Leading(q)' => Leading(q),
         ~MintMayPanic => \A q \in Callers : Leading(q) => Leading(q)'
  PROVE  Numbered' /\ LeadersRegistered' /\ RegisteredLed'
<1>1. Numbered'
  BY DEF Numbered, locals
<1>2. LeadersRegistered'
  BY DEF LeadersRegistered, locals, Key
<1>3. RegisteredLed'
  BY DEF RegisteredLed, locals, Key
<1>4. QED
  BY <1>1, <1>2, <1>3

LEMMA BeginFlight ==
  ASSUME FlightInv, NEW p \in Callers, NEW n \in Names, Begin(p, n)
  PROVE  Numbered' /\ LeadersRegistered' /\ RegisteredLed'
<1>1. /\ pc[p] = "idle" /\ UNCHANGED calls
      /\ ops \in Nat /\ ops' = ops + 1
      /\ op'[p] = ops + 1
      /\ \A q \in Callers \ {p} : op'[q] = op[q] /\ name'[q] = name[q]
      /\ \A q \in Callers : op[q] \in Nat
  BY DEF Begin, FlightInv, TypeOK
<1>2. /\ \A q \in Callers \ {p} : pc'[q] = pc[q]
      /\ pc'[p] \in {"idle", "get"}
  BY GotoAt, ReturnAt DEF Begin, FlightInv
<1>3. \A q \in Callers : Leading(q)' = Leading(q) /\ (Leading(q) => q # p)
  BY <1>1, <1>2 DEF Leading
<1>4. Numbered'
  BY <1>1 DEF FlightInv, Numbered
<1>5. LeadersRegistered'
  BY <1>1, <1>3 DEF FlightInv, LeadersRegistered, Key
<1>6. RegisteredLed'
  <2> SUFFICES ASSUME NEW c \in Caches, NEW k \in Keys, calls[c][k] # 0
               PROVE  RegisteredLed!(c, k)!2'
    BY <1>1 DEF RegisteredLed
  <2>1. calls[c][k] \in Nat /\ calls[c][k] <= ops
    BY DEF FlightInv, TypeOK, RegisteredLed
  <2>2. calls[c][k] <= ops' /\ op'[p] # calls[c][k]
    BY <1>1, <2>1
  <2>3. \A q \in Callers :
          op'[q] = calls[c][k] => CacheOf[q] = c /\ Key(q)' = k
    BY <1>1, <2>2 DEF FlightInv, RegisteredLed, Key
  <2>4. ~MintMayPanic =>
          \E q \in Callers : Leading(q)' /\ op'[q] = calls[c][k]
    BY <1>1, <1>3 DEF FlightInv, RegisteredLed
  <2>5. QED
    BY <1>1, <2>2, <2>3, <2>4
<1>7. QED
  BY <1>4, <1>5, <1>6

LEMMA EnterFlight ==
  ASSUME FlightInv, NEW p \in Callers, Enter(p)
  PROVE  Numbered' /\ LeadersRegistered' /\ RegisteredLed'
<1> DEFINE d == CacheOf[p]
           j == Key(p)
<1>1. /\ pc[p] = "enter" /\ ~Leading(p) /\ UNCHANGED <<ops, locals>>
      /\ op[p] # 0 /\ j \in Keys /\ d \in Caches
  BY ConstantsAssumption DEF Enter, FlightInv, CallOK, Leading
<1>2. CASE Goto(p, "wait") /\ UNCHANGED calls
  <2>1. \A q \in Callers : Leading(q)' = Leading(q)
    BY <1>1, <1>2, GotoAt DEF FlightInv, Leading
  <2>2. QED
    BY <1>1, <1>2, <2>1, StillFlightInv DEF FlightInv
<1>3. CASE InFlight(p) = 0 /\ Register(p, op[p]) /\ Goto(p, "mint")
  <2>1. /\ Leading(p)'
        /\ \A q \in Callers \ {p} : Leading(q)' = Leading(q)
    BY <1>3, GotoAt DEF FlightInv, Leading
  <2>2. /\ calls[d][j] = 0
        /\ calls'[d][j] = op[p]
        /\ \A c \in Caches, k \in Keys :
             (c # d \/ k # j) => calls'[c][k] = calls[c][k]
    BY <1>1, <1>3 DEF FlightInv, TypeOK, InFlight, Register
  <2>3. Numbered'
    BY <1>1 DEF FlightInv, Numbered, locals
  <2>4. LeadersRegistered'
    <3> SUFFICES ASSUME NEW q \in Callers, Leading(q)'
                 PROVE  calls'[CacheOf[q]][Key(q)] = op[q]
      BY <1>1 DEF LeadersRegistered, Key, locals
    <3>1. CASE q = p
      BY <2>2, <3>1
    <3>2. CASE q # p
      <4>1. Leading(q) /\ op[q] # 0 /\ Key(q) \in Keys /\ CacheOf[q] \in Caches
        BY <2>1, <3>2, ConstantsAssumption DEF FlightInv, CallOK, Leading
      <4>2. calls[CacheOf[q]][Key(q)] = op[q]
        BY <4>1 DEF FlightInv, LeadersRegistered
      <4>3. QED
        BY <2>2, <4>1, <4>2
    <3>3. QED
      BY <3>1, <3>2
  <2>5. RegisteredLed'
    <3> SUFFICES ASSUME NEW c \in Caches, NEW k \in Keys, calls'[c][k] # 0
                 PROVE  RegisteredLed!(c, k)!2'
      BY DEF RegisteredLed
    <3>1. CASE c = d /\ k = j
      BY <1>1, <2>1, <2>2, <3>1 DEF FlightInv, Numbered, Key, locals
    <3>2. CASE c # d \/ k # j
      <4>1. calls'[c][k] = calls[c][k]
        BY <2>2, <3>2
      <4>2. RegisteredLed!(c, k)!2
        BY <4>1 DEF FlightInv, RegisteredLed
      <4>3. QED
        BY <1>1, <2>1, <4>1, <4>2 DEF Key, locals
    <3>3. QED
      BY <3>1, <3>2
  <2>6. QED
    BY <2>3, <2>4, <2>5
<1>4. QED
  BY <1>2, <1>3 DEF Enter

LEMMA UnregisterFlight ==
  ASSUME FlightInv, NEW p \in Callers, Unregister(p)
  PROVE  Numbered' /\ LeadersRegistered' /\ RegisteredLed'
<1> DEFINE d == CacheOf[p]
           j == Key(p)
<1>1. /\ Leading(p) /\ Register(p, 0) /\ UNCHANGED <<ops, locals>>
      /\ op[p] # 0 /\ j \in Keys /\ d \in Caches
  BY ConstantsAssumption DEF Unregister, FlightInv, CallOK, Leading
<1>2. ~Leading(p)' /\ \A q \in Callers \ {p} : Leading(q)' = Leading(q)
  BY GotoAt DEF Unregister, FlightInv, Leading
<1>3. /\ calls[d][j] = op[p]
      /\ calls'[d][j] = 0
      /\ \A c \in Caches, k \in Keys :
           (c # d \/ k # j) => calls'[c][k] = calls[c][k]
  BY <1>1 DEF FlightInv, TypeOK, Register, LeadersRegistered
<1>4. Numbered'
  BY <1>1 DEF FlightInv, Numbered, locals
<1>5. LeadersRegistered'
  <2> SUFFICES ASSUME NEW q \in Callers, Leading(q)'
               PROVE  calls'[CacheOf[q]][Key(q)] = op[q]
    BY <1>1 DEF LeadersRegistered, Key, locals
  <2>1. /\ q # p /\ Leading(q) /\ op[q] # op[p]
        /\ Key(q) \in Keys /\ CacheOf[q] \in Caches
    BY <1>1, <1>2, ConstantsAssumption
    DEF FlightInv, Numbered, CallOK, Leading
  <2>2. calls[CacheOf[q]][Key(q)] = op[q]
    BY <2>1 DEF FlightInv, LeadersRegistered
  <2>3. QED
    BY <1>3, <2>1, <2>2
<1>6. RegisteredLed'
  <2> SUFFICES ASSUME NEW c \in Caches, NEW k \in Keys, calls'[c][k] # 0
               PROVE  RegisteredLed!(c, k)!2'
    BY DEF RegisteredLed
  <2>1. (c # d \/ k # j) /\ calls'[c][k] = calls[c][k]
    BY <1>3
  <2>2. RegisteredLed!(c, k)!2
    BY <2>1 DEF FlightInv, RegisteredLed
  <2>3. calls[c][k] # op[p]
    BY <1>1, <2>1, <2>2
  <2>4. QED
    BY <1>1, <1>2, <2>1, <2>2, <2>3 DEF Key, locals
<1>7. QED
  BY <1>4, <1>5, <1>6

\* The steps of a caller that neither register nor unregister a call.
LEMMA OtherFlight ==
  ASSUME FlightInv, NEW p \in Callers,
         Get(p) \/ Mint(p) \/ Panic(p) \/ CacheWrite(p) \/ Settle(p)
         \/ Close(p) \/ Wake(p)
  PROVE  Numbered' /\ LeadersRegistered' /\ RegisteredLed'
<1>1. UNCHANGED <<calls, ops, locals>>
  BY DEF Get, Mint, Panic, CacheWrite, Settle, Close, Wake
<1>2. /\ \A q \in Callers \ {p} : Leading(q)' = Leading(q)
      /\ Leading(p)' => Leading(p)
      /\ Leading(p) => Leading(p)' \/ MintMayPanic
  <2>1. CASE Get(p)
    BY <2>1, GetAt DEF FlightInv, Leading
  <2>2. CASE Mint(p)
    BY <2>2, MintAt DEF FlightInv, Leading
  <2>3. CASE Panic(p)
    BY <2>3, ReturnAt DEF Panic, FlightInv, Leading
  <2>4. CASE CacheWrite(p)
    BY <2>4, GotoAt DEF CacheWrite, MintFails, FlightInv, Leading
  <2>5. CASE Close(p)
    BY <2>5, ReturnAt DEF Close, FlightInv, Leading
  <2>6. CASE Wake(p)
    BY <2>6, ReturnAt DEF Wake, FlightInv, Leading
  <2>7. CASE Settle(p)
    BY <2>7, GotoAt DEF Settle, FlightInv, Leading
  <2>8. QED
    BY <2>1, <2>2, <2>3, <2>4, <2>5, <2>6, <2>7
<1>3. QED
  BY <1>1, <1>2, StillFlightInv DEF FlightInv

LEMMA StillFlight ==
  ASSUME FlightInv, UNCHANGED <<calls, ops, pc, locals>>
  PROVE  Numbered' /\ LeadersRegistered' /\ RegisteredLed'
BY StillFlightInv DEF FlightInv, Leading

LEMMA FlightInvNext == FlightInv /\ [Next]_vars => FlightInv'
<1> SUFFICES ASSUME FlightInv, [Next]_vars
             PROVE  Numbered' /\ LeadersRegistered' /\ RegisteredLed'
  BY TypeNext DEF FlightInv
<1>1. ASSUME NEW p \in Callers, Proceed(p)
      PROVE  Numbered' /\ LeadersRegistered' /\ RegisteredLed'
  BY <1>1, EnterFlight, UnregisterFlight, OtherFlight DEF Proceed
<1>2. ASSUME NEW p \in Callers, NEW n \in Names, Invalidate(p, n)
      PROVE  Numbered' /\ LeadersRegistered' /\ RegisteredLed'
  BY <1>2, StillFlight DEF Invalidate
<1>3. CASE Tick
  BY <1>3, StillFlight DEF Tick
<1>4. ASSUME NEW k \in Keys, Lose(k)
      PROVE  Numbered' /\ LeadersRegistered' /\ RegisteredLed'
  BY <1>4, StillFlight DEF Lose
<1>5. CASE UNCHANGED vars
  BY <1>5, StillFlight DEF vars, locals
<1>6. QED
  BY <1>1, <1>2, <1>3, <1>4, <1>5, BeginFlight DEF Next

(***************************************************************************)
(* tokenFlight.do lets one caller at most mint for a key of a cache, for   *)
(* any number of callers, caches and keys: every leader is registered      *)
(* under its own number in the one slot of its key.                        *)
(***************************************************************************)
THEOREM SingleFlightHolds == Spec => []SingleFlight
<1>1. FlightInv => SingleFlight
  <2> SUFFICES ASSUME FlightInv, NEW p \in Callers, NEW q \in Callers,
                      Leading(p), Leading(q), CacheOf[p] = CacheOf[q],
                      Key(p) = Key(q)
               PROVE  p = q
    BY DEF SingleFlight
  <2>1. op[p] = op[q] /\ op[p] # 0
    BY DEF FlightInv, LeadersRegistered, CallOK, Leading
  <2>2. QED
    BY <2>1 DEF FlightInv, Numbered
<1>2. Spec => []FlightInv
  BY FlightInvInit, FlightInvNext, PTL DEF Spec
<1>3. QED
  BY <1>1, <1>2, PTL

\* Nobody starts to wait but in Enter, and a waiter keeps its call.
LEMMA WaitingStep ==
  ASSUME TypeOK, [Next]_vars, NEW p \in Callers, pc'[p] = "wait", ~Enter(p)
  PROVE  pc[p] = "wait" /\ flight'[p] = flight[p]
<1>1. ASSUME NEW q \in Callers, NEW n \in Names, Begin(q, n)
      PROVE  pc[p] = "wait" /\ flight'[p] = flight[p]
  BY <1>1, GotoAt, ReturnAt DEF Begin, TypeOK
<1>2. ASSUME NEW q \in Callers, Enter(q)
      PROVE  pc[p] = "wait" /\ flight'[p] = flight[p]
  BY <1>2, GotoAt DEF Enter, TypeOK
<1>3. ASSUME NEW q \in Callers,
             Get(q) \/ Mint(q) \/ Panic(q) \/ CacheWrite(q) \/ Settle(q)
             \/ Unregister(q) \/ Close(q) \/ Wake(q)
      PROVE  pc[p] = "wait" /\ flight'[p] = flight[p]
  BY <1>3, GotoAt, ReturnAt
  DEF Get, Mint, MintFails, Panic, CacheWrite, Settle, Unregister, Close, Wake
<1>4. CASE UNCHANGED <<pc, flight>>
  BY <1>4
<1>5. QED
  BY <1>1, <1>2, <1>3, <1>4 DEF Next, Proceed, Invalidate, Tick, Lose, vars

\* A call on its way to being closed stays so until it is closed, for good.
LEMMA ServingStep ==
  ASSUME FlightInv, [Next]_vars, NEW o \in Ops
  PROVE  /\ tokenCall[o].done => tokenCall'[o].done
         /\ ~MintMayPanic =>
              \A q \in Callers :
                Flying(q) /\ op[q] = o =>
                  (Flying(q)' /\ op'[q] = o) \/ tokenCall'[o].done
<1> DEFINE Stays == \A q \in Callers : Flying(q) => Flying(q)' /\ op'[q] = op[q]
<1>1. ASSUME NEW p \in Callers, NEW n \in Names, Begin(p, n)
      PROVE  Stays /\ UNCHANGED tokenCall
  BY <1>1, BeginAt DEF Begin, FlightInv, TypeOK, Flying
<1>2. ASSUME NEW p \in Callers,
             Get(p) \/ Enter(p) \/ Mint(p) \/ CacheWrite(p)
             \/ Unregister(p) \/ Wake(p)
      PROVE  Stays /\ UNCHANGED tokenCall
  <2>1. UNCHANGED tokenCall /\ UNCHANGED op
    BY <1>2 DEF Get, Enter, Mint, CacheWrite, Unregister, Wake, locals
  <2>2. CASE Get(p) \/ Wake(p)
    BY <2>1, <2>2, GetAt, ReturnAt DEF Wake, FlightInv, Flying
  <2>3. CASE Enter(p) \/ CacheWrite(p) \/ Unregister(p)
    BY <2>1, <2>3, GotoAt 
    DEF Enter, CacheWrite, MintFails, Unregister, FlightInv, Flying
  <2>4. CASE Mint(p)
    BY <2>1, <2>4, MintAt DEF FlightInv, Flying
  <2>5. QED
    BY <1>2, <2>1, <2>2, <2>3, <2>4
<1>3. ASSUME NEW p \in Callers, Panic(p)
      PROVE  MintMayPanic /\ UNCHANGED tokenCall
  BY <1>3 DEF Panic
<1>4. ASSUME NEW p \in Callers, Settle(p)
      PROVE  Stays /\ tokenCall'[o].done = tokenCall[o].done
  <2>1. Stays
    BY <1>4, GotoAt DEF Settle, FlightInv, Flying, locals
  <2>2. tokenCall'[o].done = tokenCall[o].done
    BY <1>4 DEF Settle, FillIn, FlightInv, TypeOK
  <2>3. QED
    BY <2>1, <2>2
<1>5. ASSUME NEW p \in Callers, Close(p)
      PROVE  /\ \A q \in Callers :
                  Flying(q) /\ op[q] = o =>
                    (Flying(q)' /\ op'[q] = o) \/ tokenCall'[o].done
             /\ tokenCall[o].done => tokenCall'[o].done
  <2>1. /\ flight[p] = op[p]
        /\ tokenCall' = [tokenCall EXCEPT ![op[p]].done = TRUE]
        /\ UNCHANGED locals
        /\ \A q \in Callers \ {p} : Flying(q)' = Flying(q)
    BY <1>5, ReturnAt DEF Close, FlightInv, CallOK, Flying
  <2>2. op[p] = o => tokenCall'[o].done
    BY <2>1 DEF FlightInv, TypeOK
  <2>3. tokenCall[o].done => tokenCall'[o].done
    BY <2>1 DEF FlightInv, TypeOK
  <2>4. QED
    BY <2>1, <2>2, <2>3 DEF locals
<1>6. CASE UNCHANGED <<pc, op, tokenCall>>
  BY <1>6 DEF Flying
<1>7. QED
  BY <1>1, <1>2, <1>3, <1>4, <1>5, <1>6
  DEF Next, Proceed, Invalidate, Tick, Lose, vars, locals

(***************************************************************************)
(* A call of flight.do that joined another is never orphaned unless a mint *)
(* panics: when it joins, RegisteredLed gives it a live leader, and a      *)
(* leader stays on its way until it has closed the call.                   *)
(***************************************************************************)
THEOREM WaitersHaveALeaderHolds == Spec => []WaitersHaveALeader
<1>1. Init => WaitersHaveALeader
  BY DEF Init, WaitersHaveALeader
<1>2. FlightInv /\ WaitersHaveALeader /\ [Next]_vars => WaitersHaveALeader'
  <2> DEFINE Served(p) == \/ tokenCall[flight[p]].done
                          \/ \E q \in Callers : Flying(q) /\ op[q] = flight[p]
  <2> SUFFICES ASSUME FlightInv, WaitersHaveALeader, [Next]_vars,
                      ~MintMayPanic, NEW p \in Callers, pc'[p] = "wait"
               PROVE  Served(p)'
    BY DEF WaitersHaveALeader
  <2>1. CASE Enter(p)
    <3>1. InFlight(p) # 0 /\ flight'[p] = InFlight(p)
      BY <2>1, GotoAt DEF Enter, FlightInv, TypeOK
    <3>2. UNCHANGED locals /\ \A q \in Callers \ {p} : Flying(q)' = Flying(q)
      BY <2>1, GotoAt DEF Enter, FlightInv, Flying
    <3>3. Key(p) \in Keys /\ CacheOf[p] \in Caches /\ ~Leading(p)
      BY <2>1, ConstantsAssumption DEF Enter, FlightInv, CallOK, Leading
    <3>4. \E q \in Callers : Leading(q) /\ op[q] = InFlight(p)
      BY <3>1, <3>3 DEF FlightInv, RegisteredLed, InFlight
    <3>5. QED
      BY <3>1, <3>2, <3>3, <3>4 DEF Leading, Flying, locals
  <2>2. CASE ~Enter(p)
    <3>1. pc[p] = "wait" /\ flight'[p] = flight[p] /\ flight[p] \in Ops
      BY <2>2, WaitingStep, ConstantsAssumption
      DEF FlightInv, TypeOK, CallOK, Ops
    <3>2. Served(p)
      BY <3>1 DEF WaitersHaveALeader
    <3>3. QED
      BY <3>1, <3>2, ServingStep
  <2>3. QED
    BY <2>1, <2>2
<1>3. Spec => []FlightInv
  BY FlightInvInit, FlightInvNext, PTL DEF Spec
<1>4. QED
  BY <1>1, <1>2, <1>3, PTL DEF Spec
=============================================================================
