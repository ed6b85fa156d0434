--------------------------- MODULE TokenCacheAnswers ---------------------------
(***************************************************************************)
(* What TLAPS proves of TokenCache about the answers calls return and the  *)
(* tokens the store holds, on top of the flight's invariant (FlightInv of  *)
(* TokenCacheProofs), for every value of the constants.                    *)
(***************************************************************************)
EXTENDS TokenCacheProofs

LEMMA FlightInvAlways == Spec => []FlightInv
BY FlightInvInit, FlightInvNext, PTL DEF Spec

-----------------------------------------------------------------------------
(* A token that stayed usable in the store throughout a call.              *)

HeldInv ==
  \A p \in Callers :
    held[p] => pc[p] = "get" /\ Usable(store[Key(p)], now[p])

\* A change of the store, with no change of the calls at their store read.
LEMMA PutHeld ==
  ASSUME TypeOK, HeldInv, NEW k \in Keys, NEW t, Put(k, t), UNCHANGED locals,
         \A q \in Callers : pc[q] = "get" => pc'[q] = "get"
  PROVE  HeldInv'
<1> SUFFICES ASSUME NEW q \in Callers, held'[q]
             PROVE  pc'[q] = "get" /\ Usable(store[Key(q)], now[q])'
  BY DEF HeldInv
<1>1. held[q] /\ (Key(q) = k => t = store[k])
  BY DEF Put
<1>2. store'[Key(q)] = store[Key(q)]
  BY <1>1 DEF Put, TypeOK
<1>3. QED
  BY <1>1, <1>2 DEF HeldInv, locals, Key, Usable, Expired

\* A step of one caller that leaves the store and the other calls alone.
LEMMA StillHeld ==
  ASSUME HeldInv, NEW p \in Callers, UNCHANGED <<store, locals>>,
         \A q \in Callers \ {p} : pc'[q] = pc[q] /\ held'[q] = held[q],
         ~held'[p]
  PROVE  HeldInv'
BY DEF HeldInv, locals, Key, Usable, Expired

LEMMA BeginHeld ==
  ASSUME TypeOK, HeldInv, NEW p \in Callers, NEW n \in Names, Begin(p, n)
  PROVE  HeldInv'
<1> DEFINE k == KeyOf[CacheOf[p]][n]
<1>1. /\ name'[p] = n /\ now'[p] = clock /\ UNCHANGED store
      /\ \A q \in Callers \ {p} : name'[q] = name[q] /\ now'[q] = now[q]
  BY DEF Begin, TypeOK
<1>2. \A q \in Callers \ {p} : pc'[q] = pc[q] /\ held'[q] = held[q]
  <2>1. ASSUME NEW e, Return(p, "none", Failed(e))
        PROVE  <1>2
    BY <2>1, ReturnAt
  <2>2. CASE Goto(p, "get") /\ held' = [held EXCEPT ![p] = Usable(store[k], clock)]
    BY <2>2, GotoAt DEF TypeOK
  <2>3. QED
    BY <2>1, <2>2 DEF Begin
<1>3. held'[p] => pc'[p] = "get" /\ Usable(store[k], clock)
  <2>1. ASSUME NEW e, Return(p, "none", Failed(e))
        PROVE  ~held'[p]
    BY <2>1, ReturnAt
  <2>2. CASE Goto(p, "get") /\ held' = [held EXCEPT ![p] = Usable(store[k], clock)]
    BY <2>2, GotoAt DEF TypeOK
  <2>3. QED
    BY <2>1, <2>2 DEF Begin
<1>4. ASSUME NEW q \in Callers, held'[q]
      PROVE  pc'[q] = "get" /\ Usable(store[Key(q)], now[q])'
  <2>1. CASE q = p
    BY <2>1, <1>1, <1>3, <1>4 DEF Key, Usable, Expired
  <2>2. CASE q # p
    BY <2>2, <1>1, <1>2, <1>4 DEF HeldInv, Key, Usable, Expired
  <2>3. QED
    BY <2>1, <2>2
<1>5. QED
  BY <1>4 DEF HeldInv

LEMMA ProceedHeld ==
  ASSUME FlightInv, HeldInv, NEW p \in Callers, Proceed(p)
  PROVE  HeldInv'
<1>1. TypeOK /\ CallOK
  BY DEF FlightInv
<1>2. ASSUME NEW via, NEW outcome, Return(p, via, outcome), UNCHANGED <<store, locals>>
      PROVE  HeldInv'
  BY <1>1, <1>2, ReturnAt, StillHeld
<1>3. ASSUME NEW l, Goto(p, l), UNCHANGED <<store, locals, held>>, ~held[p]
      PROVE  HeldInv'
  BY <1>1, <1>3, GotoAt, StillHeld
<1>4. CASE Get(p)
  BY <1>2, <1>3, <1>4 DEF Get, HeldInv
<1>5. CASE Enter(p)
  BY <1>3, <1>5 DEF Enter, HeldInv
<1>6. CASE Mint(p)
  BY <1>3, <1>6 DEF Mint, MintFails, HeldInv
<1>7. CASE Panic(p)
  BY <1>2, <1>7 DEF Panic
<1>8. CASE CacheWrite(p)
  <2>1. pc[p] = "write" /\ Key(p) \in Keys /\ UNCHANGED locals
    BY <1>1, <1>8 DEF CacheWrite, CallOK
  <2>2. Goto(p, "settle")
    BY <1>8 DEF CacheWrite, MintFails
  <2>3. \A q \in Callers : pc[q] = "get" => pc'[q] = "get"
    BY <1>1, <2>1, <2>2, GotoAt
  <2>4. CASE Put(Key(p), result[p].token)
    BY <1>1, <2>1, <2>3, <2>4, PutHeld
  <2>5. CASE UNCHANGED <<store, held>>
    BY <1>3, <2>1, <2>2, <2>5 DEF HeldInv
  <2>6. QED
    BY <1>8, <2>4, <2>5 DEF CacheWrite
<1>9. CASE Settle(p) \/ Unregister(p)
  BY <1>3, <1>9 DEF Settle, Unregister, HeldInv
<1>10. CASE Close(p)
  BY <1>2, <1>10 DEF Close
<1>11. CASE Wake(p)
  BY <1>2, <1>11 DEF Wake
<1>12. QED
  BY <1>4, <1>5, <1>6, <1>7, <1>8, <1>9, <1>10, <1>11 DEF Proceed

LEMMA HeldNext == FlightInv /\ HeldInv /\ [Next]_vars => HeldInv'
<1> SUFFICES ASSUME FlightInv, HeldInv, [Next]_vars PROVE HeldInv'
  OBVIOUS
<1>1. TypeOK
  BY DEF FlightInv
<1>2. ASSUME NEW p \in Callers, NEW n \in Names, Invalidate(p, n)
      PROVE  HeldInv'
  <2> DEFINE k == KeyOf[CacheOf[p]][n]
  <2>1. k \in Keys /\ Put(k, NoToken) /\ UNCHANGED <<pc, locals>>
    BY <1>2, ConstantsAssumption DEF Invalidate
  <2>2. QED
    BY <1>1, <2>1, PutHeld
<1>3. ASSUME NEW k \in Keys, Lose(k)
      PROVE  HeldInv'
  BY <1>1, <1>3, PutHeld DEF Lose
<1>4. CASE Tick \/ UNCHANGED vars
  BY <1>4 DEF Tick, vars, HeldInv, locals, Key, Usable, Expired
<1>5. QED
  BY <1>1, <1>2, <1>3, <1>4, BeginHeld, ProceedHeld DEF Next

(***************************************************************************)
(* TokenCache.Token neither mints nor joins a mint when one usable token   *)
(* sat in the store from the beginning of the call to its store read.      *)
(***************************************************************************)
THEOREM NoNeedlessMintHolds == Spec => []NoNeedlessMint
<1>1. Init => HeldInv
  BY DEF Init, HeldInv
<1>2. TypeOK /\ HeldInv => NoNeedlessMint
  BY DEF HeldInv, NoNeedlessMint
<1>3. FlightInv => TypeOK
  BY DEF FlightInv
<1>4. QED
  BY <1>1, <1>2, <1>3, HeldNext, FlightInvAlways, PTL DEF Spec

-----------------------------------------------------------------------------
(* What a call came to.  A tokenCall is closed once, by the one leader that *)
(* fills it in, and whoever is back with its outcome has exactly that.      *)

Whole(outcome) == outcome.err = "nil" <=> outcome.token # NoToken

Same(r, outcome) == r.token = outcome.token /\ r.err = outcome.err

Back(p) ==
  \/ reply[p].via \in {"none", "hit"} /\ flight[p] = 0
  \/ /\ reply[p].via = "led" /\ flight[p] = op[p] /\ op[p] \in Ops
     /\ tokenCall[op[p]].done => Same(reply[p], tokenCall[op[p]])
  \/ /\ reply[p].via = "joined" /\ flight[p] \in Ops
     /\ tokenCall[flight[p]].done /\ Same(reply[p], tokenCall[flight[p]])

Settled(p) ==
  /\ pc[p] # "idle" => op[p] \in Ops /\ ~tokenCall[op[p]].done
  /\ pc[p] \in {"get", "enter"} => flight[p] = 0
  /\ pc[p] \in {"write", "settle", "unregister", "close"} => Whole(result[p])
  /\ pc[p] \in {"unregister", "close"} => Same(result[p], tokenCall[op[p]])
  /\ pc[p] = "idle" => Back(p)

Closed == \A o \in Ops : tokenCall[o].done => o <= ops /\ Whole(tokenCall[o])

OutcomeInv == Closed /\ \A p \in Callers : Settled(p)

\* A caller that does not move, while no call it knows to be closed changes.
LEMMA Elsewhere ==
  ASSUME FlightInv, OutcomeInv, NEW p \in Callers, NEW q \in Callers \ {p},
         pc'[q] = pc[q], op'[q] = op[q], flight'[q] = flight[q],
         result'[q] = result[q], reply'[q] = reply[q],
         \/ UNCHANGED tokenCall
         \/ /\ pc[p] # "idle"
            /\ \A o \in Ops \ {op[p]} : tokenCall'[o] = tokenCall[o]
  PROVE  Settled(q)'
<1>1. Settled(q) /\ Settled(p)
  BY DEF OutcomeInv
<1>2. CASE UNCHANGED tokenCall
  BY <1>1, <1>2 DEF Settled, Back
<1>3. CASE /\ pc[p] # "idle"
           /\ \A o \in Ops \ {op[p]} : tokenCall'[o] = tokenCall[o]
  <2>1. op[p] \in Ops /\ op[p] # 0 /\ ~tokenCall[op[p]].done
    BY <1>1, <1>3, ConstantsAssumption DEF Settled, Ops
  <2>2. op[q] # op[p]
    BY <2>1 DEF FlightInv, Numbered
  <2>3. op[q] \in Ops => tokenCall'[op[q]] = tokenCall[op[q]]
    BY <1>3, <2>2
  <2>4. ASSUME flight[q] \in Ops, tokenCall[flight[q]].done
        PROVE  tokenCall'[flight[q]] = tokenCall[flight[q]]
    BY <1>3, <2>1, <2>4
  <2>5. QED
    BY <1>1, <2>3, <2>4 DEF Settled, Back
<1>4. QED
  BY <1>2, <1>3

\* A step of p that changes no call.
LEMMA OutcomeStep ==
  ASSUME FlightInv, OutcomeInv, NEW p \in Callers, UNCHANGED tokenCall,
         \A q \in Callers \ {p} :
           /\ pc'[q] = pc[q] /\ op'[q] = op[q] /\ flight'[q] = flight[q]
           /\ result'[q] = result[q] /\ reply'[q] = reply[q],
         ops' \in Nat, ops <= ops',
         Settled(p)'
  PROVE  OutcomeInv'
<1>1. \A q \in Callers \ {p} : Settled(q)'
  BY Elsewhere
<1>2. Closed'
  <2>1. ops \in Nat
    BY DEF FlightInv, TypeOK
  <2>2. \A o \in Ops : o \in Nat
    BY DEF Ops
  <2>3. QED
    BY <2>1, <2>2 DEF OutcomeInv, Closed, Whole
<1>3. QED
  BY <1>1, <1>2 DEF OutcomeInv

LEMMA FailedWhole ==
  ASSUME NEW e \in Errors \ {"nil"}
  PROVE  Whole(Failed(e))
BY DEF Whole, Failed

LEMMA GotWhole ==
  ASSUME NEW t \in Token
  PROVE  Whole(Got(t)) /\ Got(t).token = t /\ Got(t).err = "nil"
BY ConstantsAssumption DEF Whole, Got

LEMMA BeginOutcome ==
  ASSUME FlightInv, OutcomeInv, NEW p \in Callers, NEW n \in Names, Begin(p, n)
  PROVE  OutcomeInv'
<1>1. /\ UNCHANGED <<tokenCall, result>> /\ ops \in Nat /\ ops' = ops + 1
      /\ flight'[p] = 0 /\ op'[p] = ops + 1 /\ ops + 1 \in Ops
      /\ \A q \in Callers \ {p} : op'[q] = op[q] /\ flight'[q] = flight[q]
  BY ConstantsAssumption DEF Begin, FlightInv, TypeOK, Ops
<1>2. ~tokenCall'[ops + 1].done
  <2>1. ~(ops + 1 <= ops)
    BY <1>1
  <2>2. QED
    BY <1>1, <2>1 DEF OutcomeInv, Closed
<1>3. \A q \in Callers \ {p} : pc'[q] = pc[q] /\ reply'[q] = reply[q]
  <2>1. ASSUME NEW e, Return(p, "none", Failed(e))
        PROVE  <1>3
    BY <2>1, ReturnAt DEF FlightInv
  <2>2. CASE Goto(p, "get") /\ UNCHANGED reply
    BY <2>2, GotoAt DEF FlightInv
  <2>3. QED
    BY <2>1, <2>2 DEF Begin
<1>4. pc'[p] = "get" \/ (pc'[p] = "idle" /\ reply'[p].via = "none")
  <2>1. ASSUME NEW e, Return(p, "none", Failed(e))
        PROVE  pc'[p] = "idle" /\ reply'[p].via = "none"
    <3>1. /\ pc'[p] = "idle"
          /\ reply'[p] = [via |-> "none", token |-> Failed(e).token, err |-> Failed(e).err]
      BY <2>1, ReturnAt DEF FlightInv
    <3>2. QED
      BY <3>1
  <2>2. CASE Goto(p, "get")
    BY <2>2, GotoAt DEF FlightInv
  <2>3. QED
    BY <2>1, <2>2 DEF Begin
<1>5. Settled(p)'
  BY <1>1, <1>2, <1>4 DEF Settled, Back
<1>6. ops' \in Nat /\ ops <= ops'
  BY <1>1
<1>7. QED
  BY <1>1, <1>3, <1>5, <1>6, OutcomeStep

\* The steps of a call that change no tokenCall.
LEMMA ProceedOutcome ==
  ASSUME FlightInv, OutcomeInv, NEW p \in Callers,
         Get(p) \/ Enter(p) \/ Mint(p) \/ Panic(p) \/ CacheWrite(p)
         \/ Unregister(p) \/ Wake(p)
  PROVE  OutcomeInv'
<1>1. /\ TypeOK /\ CallOK /\ Settled(p) /\ pc[p] # "idle"
      /\ UNCHANGED <<tokenCall, op, ops>> /\ ops \in Nat /\ ops <= ops
      /\ op[p] \in Ops /\ ~tokenCall[op[p]].done
  BY DEF FlightInv, TypeOK, OutcomeInv, Settled, locals,
         Get, Enter, Mint, Panic, CacheWrite, Unregister, Wake
<1>2. ASSUME \A q \in Callers \ {p} :
               /\ pc'[q] = pc[q] /\ flight'[q] = flight[q]
               /\ result'[q] = result[q] /\ reply'[q] = reply[q],
             Settled(p)'
      PROVE  OutcomeInv'
  BY <1>1, <1>2, OutcomeStep
<1>3. ASSUME NEW l, Goto(p, l), UNCHANGED <<flight, reply>>,
             \A q \in Callers \ {p} : result'[q] = result[q],
             l \in {"enter", "write", "settle"},
             l = "enter" => pc[p] = "get",
             l # "enter" => Whole(result'[p])
      PROVE  OutcomeInv'
  <2>1. pc'[p] = l /\ \A q \in Callers \ {p} : pc'[q] = pc[q]
    BY <1>1, <1>3, GotoAt
  <2>2. Settled(p)'
    BY <1>1, <1>3, <2>1 DEF Settled
  <2>3. QED
    BY <1>2, <1>3, <2>1, <2>2
<1>4. ASSUME NEW via, NEW outcome, Return(p, via, outcome), UNCHANGED <<flight, result>>,
             \/ via \in {"none", "hit"} /\ flight[p] = 0
             \/ via = "led" /\ flight[p] = op[p]
             \/ /\ via = "joined" /\ flight[p] \in Ops /\ tokenCall[flight[p]].done
                /\ outcome = tokenCall[flight[p]]
      PROVE  OutcomeInv'
  <2>1. /\ pc'[p] = "idle"
        /\ \A q \in Callers \ {p} : pc'[q] = pc[q] /\ reply'[q] = reply[q]
        /\ reply'[p] = [via |-> via, token |-> outcome.token, err |-> outcome.err]
    BY <1>1, <1>4, ReturnAt
  <2>2. Settled(p)'
    BY <1>1, <1>4, <2>1 DEF Settled, Back, Same
  <2>3. QED
    BY <1>2, <1>4, <2>1, <2>2
<1>5. CASE Get(p)
  BY <1>1, <1>3, <1>4, <1>5 DEF Get, Settled
<1>6. CASE Enter(p)
  <2>1. pc'[p] \in {"wait", "mint"} /\ \A q \in Callers \ {p} : pc'[q] = pc[q]
    BY <1>1, <1>6, GotoAt DEF Enter
  <2>2. /\ \A q \in Callers \ {p} : flight'[q] = flight[q]
        /\ UNCHANGED <<result, reply>>
    BY <1>1, <1>6 DEF Enter, TypeOK
  <2>3. Settled(p)'
    BY <1>1, <2>1 DEF Settled
  <2>4. QED
    BY <1>2, <2>1, <2>2, <2>3
<1>7. CASE Mint(p)
  <2>1. CASE MintFails(p)
    <3>1. /\ Goto(p, "settle") /\ result'[p] = Failed("provider-unavailable")
          /\ \A q \in Callers \ {p} : result'[q] = result[q]
      BY <1>1, <2>1 DEF MintFails, TypeOK
    <3>2. Whole(result'[p])
      BY <3>1, FailedWhole, ErrorTypes
    <3>3. QED
      BY <1>3, <1>7, <3>1, <3>2 DEF Mint
  <2>2. ASSUME NEW life \in Lifetimes,
               result' = [result EXCEPT ![p] = Got(Granted(p, life))],
               Goto(p, "write")
        PROVE  OutcomeInv'
    <3>1. Granted(p, life) \in Token
      BY <1>1, GrantedType DEF CallOK
    <3>2. /\ result'[p] = Got(Granted(p, life))
          /\ \A q \in Callers \ {p} : result'[q] = result[q]
      BY <1>1, <2>2 DEF TypeOK
    <3>3. Whole(result'[p])
      BY <3>1, <3>2, GotWhole
    <3>4. QED
      BY <1>3, <1>7, <2>2, <3>2, <3>3 DEF Mint
  <2>3. QED
    BY <1>7, <2>1, <2>2 DEF Mint
<1>8. CASE Panic(p)
  <2>1. flight[p] = op[p]
    BY <1>1, <1>8 DEF Panic, CallOK, Flying
  <2>2. QED
    BY <1>4, <1>8, <2>1 DEF Panic
<1>9. CASE CacheWrite(p)
  <2>1. CASE MintFails(p)
    <3>1. /\ Goto(p, "settle") /\ result'[p] = Failed("provider-unavailable")
          /\ \A q \in Callers \ {p} : result'[q] = result[q]
      BY <1>1, <2>1 DEF MintFails, TypeOK
    <3>2. Whole(result'[p])
      BY <3>1, FailedWhole, ErrorTypes
    <3>3. QED
      BY <1>3, <1>9, <3>1, <3>2 DEF CacheWrite
  <2>2. CASE Goto(p, "settle") /\ UNCHANGED result
    BY <1>1, <1>3, <1>9, <2>2 DEF CacheWrite, Settled
  <2>3. QED
    BY <1>9, <2>1, <2>2 DEF CacheWrite
<1>10. CASE Wake(p)
  <2>1. flight[p] \in Ops
    BY <1>1, <1>10, ConstantsAssumption DEF Wake, TypeOK, CallOK, Ops
  <2>2. QED
    BY <1>4, <1>10, <2>1 DEF Wake
<1>11. CASE Unregister(p)
  <2>1. /\ pc'[p] = "close" /\ \A q \in Callers \ {p} : pc'[q] = pc[q]
        /\ UNCHANGED <<flight, result, reply>> /\ pc[p] = "unregister"
    BY <1>1, <1>11, GotoAt DEF Unregister
  <2>2. Settled(p)'
    BY <1>1, <2>1 DEF Settled, Whole, Same
  <2>3. QED
    BY <1>2, <2>1, <2>2
<1>12. QED
  BY <1>5, <1>6, <1>7, <1>8, <1>9, <1>10, <1>11

LEMMA SettleOutcome ==
  ASSUME FlightInv, OutcomeInv, NEW p \in Callers, Settle(p) \/ Close(p)
  PROVE  OutcomeInv'
<1>1. /\ TypeOK /\ CallOK /\ Settled(p) /\ pc[p] # "idle"
      /\ UNCHANGED <<op, ops, flight, result>> /\ flight[p] = op[p]
      /\ op[p] \in Ops /\ ~tokenCall[op[p]].done
      /\ tokenCall[op[p]] \in [token : Token \cup {NoToken}, err : Errors, done : BOOLEAN]
  BY DEF FlightInv, TypeOK, CallOK, Flying, OutcomeInv, Settled, locals, Settle, Close
<1>2. \A q \in Callers \ {p} : pc'[q] = pc[q] /\ reply'[q] = reply[q]
  BY <1>1, GotoAt, ReturnAt DEF Settle, Close
<1>3. \A o \in Ops \ {op[p]} : tokenCall'[o] = tokenCall[o]
  BY <1>1 DEF Settle, Close, FillIn, TypeOK
<1>4. \A q \in Callers \ {p} : Settled(q)'
  BY <1>1, <1>2, <1>3, Elsewhere
<1>5. CASE Settle(p)
  <2>1. /\ pc'[p] = "unregister" /\ Whole(result[p]) /\ Same(result[p], tokenCall'[op[p]])
        /\ tokenCall'[op[p]].done = tokenCall[op[p]].done
    BY <1>1, <1>5, GotoAt DEF Settle, FillIn, TypeOK, Settled, Same
  <2>2. Settled(p)'
    BY <1>1, <2>1 DEF Settled, Same, Whole
  <2>3. Closed'
    BY <1>1, <1>3, <2>1 DEF OutcomeInv, Closed, Whole
  <2>4. QED
    BY <1>4, <2>2, <2>3 DEF OutcomeInv
<1>6. CASE Close(p)
  <2>1. /\ pc'[p] = "idle" /\ Whole(result[p]) /\ Same(result[p], tokenCall[op[p]])
        /\ reply'[p] = [via |-> "led", token |-> result[p].token, err |-> result[p].err]
    BY <1>1, <1>6, ReturnAt DEF Close, Settled
  <2>2. /\ tokenCall'[op[p]].token = tokenCall[op[p]].token
        /\ tokenCall'[op[p]].err = tokenCall[op[p]].err
    BY <1>1, <1>6 DEF Close, TypeOK
  <2>3. Settled(p)'
    BY <1>1, <2>1, <2>2 DEF Settled, Back, Same
  <2>4. op[p] <= ops /\ Whole(tokenCall'[op[p]])
    BY <1>1, <2>1, <2>2 DEF FlightInv, Numbered, Whole, Same
  <2>5. Closed'
    BY <1>1, <1>3, <2>4 DEF OutcomeInv, Closed, Whole
  <2>6. QED
    BY <1>4, <2>3, <2>5 DEF OutcomeInv
<1>7. QED
  BY <1>5, <1>6

LEMMA OutcomeNext == FlightInv /\ OutcomeInv /\ [Next]_vars => OutcomeInv'
<1>1. ASSUME OutcomeInv, UNCHANGED <<tokenCall, ops, pc, op, result, flight, reply>>
      PROVE  OutcomeInv'
  BY <1>1 DEF OutcomeInv, Closed, Settled, Back, Whole, Same
<1>2. QED
  BY <1>1, BeginOutcome, ProceedOutcome, SettleOutcome
  DEF Next, Proceed, Invalidate, Tick, Lose, vars, locals

LEMMA OutcomeAlways == Spec => []OutcomeInv
<1>1. Init => OutcomeInv
  BY DEF Init, OutcomeInv, Closed, Settled, Back
<1>2. QED
  BY <1>1, OutcomeNext, FlightInvAlways, PTL DEF Spec

(***************************************************************************)
(* Everyone who joined a call of flight.do is back with the leader's token *)
(* and the leader's error, and a token never comes with an error: whoever  *)
(* leads, panics, fails or is late.                                        *)
(***************************************************************************)
THEOREM OneOutcomeHolds == Spec => []OneOutcome
<1>1. ASSUME OutcomeInv, NEW p \in Callers, pc[p] = "idle", reply[p].via = "joined"
      PROVE  /\ reply[p].err = "nil" <=> reply[p].token # NoToken
             /\ \A q \in Callers :
                   pc[q] = "idle" /\ flight[q] = flight[p] =>
                       reply[q].token = reply[p].token /\ reply[q].err = reply[p].err
  <2>1. /\ flight[p] \in Ops /\ flight[p] # 0 /\ tokenCall[flight[p]].done
        /\ Same(reply[p], tokenCall[flight[p]])
    BY <1>1, ConstantsAssumption DEF OutcomeInv, Settled, Back, Ops
  <2>2. Whole(tokenCall[flight[p]])
    BY <1>1, <2>1 DEF OutcomeInv, Closed
  <2>3. ASSUME NEW q \in Callers, pc[q] = "idle", flight[q] = flight[p]
        PROVE  Same(reply[q], tokenCall[flight[p]])
    BY <1>1, <2>1, <2>3 DEF OutcomeInv, Settled, Back
  <2>4. QED
    BY <2>1, <2>2, <2>3 DEF Whole, Same
<1>2. OutcomeInv => OneOutcome
  BY <1>1 DEF OneOutcome
<1>3. QED
  BY <1>2, OutcomeAlways, PTL

-----------------------------------------------------------------------------
(* Where a token may be.  A token lives under the key of the name and the   *)
(* cache it was minted for, and once it is written, or given up, nobody     *)
(* writes it again: the numbers of such calls are the Past.                 *)

Unwritten == {"get", "enter", "mint", "write"}

Past == {o \in 1..ops : \A q \in Callers : pc[q] \in Unwritten => op[q] # o}

Home(t, k) == KeyOf[t.cache][t.resource] = k /\ t.resource \in Declared[t.cache]

Good(t, k, past) == t # NoToken => Home(t, k) /\ t.op \in past

Mine(p) ==
  /\ pc[p] \in {"get", "enter"} => tokenCall[op[p]].token = NoToken
  /\ pc[p] = "write" /\ result[p].token # NoToken =>
        Home(result[p].token, Key(p)) /\ result[p].token.op = op[p]
  /\ pc[p] \in {"settle", "unregister", "close"} => Good(result[p].token, Key(p), Past)
  /\ pc[p] = "wait" =>
        /\ flight[p] <= ops
        /\ Good(tokenCall[flight[p]].token, Key(p), Past)
        /\ \A q \in Callers : op[q] = flight[p] => Key(q) = Key(p)
  /\ pc[p] = "idle" =>
        /\ Good(reply[p].token, Key(p), Past)
        /\ reply[p].token # NoToken =>
              name[p] \in Declared[CacheOf[p]] /\ Key(p) \in Keys

\* A call that has not begun has no token yet, and one that is registered has none
\* or, filled in already, one that others may be told.
Blank ==
  /\ \A o \in Ops : o > ops => tokenCall[o].token = NoToken
  /\ \A c \in Caches, k \in Keys :
       calls[c][k] # 0 => Good(tokenCall[calls[c][k]].token, k, Past)

Stored == \A k \in Keys : Good(store[k], k, Past)

Shunned == \A p \in Callers : \A t \in shunned[p] : t.op \in Past

StoreInv ==
  Blank /\ Stored /\ Shunned /\ EvictedStaysOut /\ \A p \in Callers : Mine(p)

\* What a step of p does to the tokens of the calls: nothing, or it fills in its
\* own, for its own key.
Filled(p) ==
  \/ \A o \in Ops : tokenCall'[o].token = tokenCall[o].token
  \/ /\ pc[p] = "settle"
     /\ \A o \in Ops \ {op[p]} : tokenCall'[o].token = tokenCall[o].token
     /\ Good(tokenCall'[op[p]].token, Key(p), Past')

\* What a step of p leaves of the others' calls, does to the store, and leaves of
\* the calls that are registered.
Apart(p) ==
  \A q \in Callers \ {p} :
    /\ pc'[q] = pc[q] /\ flight'[q] = flight[q]
    /\ result'[q] = result[q] /\ reply'[q] = reply[q]

Kept ==
  \A k \in Keys :
    \/ store'[k] = store[k]
    \/ /\ Good(store'[k], k, Past')
       /\ \A q \in Callers : store'[k] \notin shunned[q]

Joinable ==
  \A c \in Caches, k \in Keys :
    calls'[c][k] # 0 => Good(tokenCall'[calls'[c][k]].token, k, Past')

LEMMA OthersMine ==
  ASSUME FlightInv, StoreInv, NEW p \in Callers, NEW q \in Callers \ {p},
         Apart(p), UNCHANGED locals, UNCHANGED ops, Past \subseteq Past', Filled(p)
  PROVE  Mine(q)'
<1> USE DEF Apart
<1>1. /\ Mine(q) /\ Key(q)' = Key(q) /\ Key(p)' = Key(p) /\ op'[q] = op[q]
      /\ name'[q] = name[q]
  BY DEF StoreInv, locals, Key
<1>2. pc[q] \in {"get", "enter"} => tokenCall'[op[q]].token = NoToken
  <2> SUFFICES ASSUME pc[q] \in {"get", "enter"}
               PROVE  tokenCall'[op[q]].token = NoToken
    OBVIOUS
  <2>1. op[q] # 0 /\ op[q] \in Ops
    BY ConstantsAssumption DEF FlightInv, CallOK, TypeOK, Ops
  <2>2. op[p] # op[q]
    BY <2>1, <1>1 DEF FlightInv, Numbered, Filled
  <2>3. QED
    BY <1>1, <2>1, <2>2 DEF Mine, Filled
<1>3. pc[q] = "wait" => Good(tokenCall'[flight[q]].token, Key(q), Past')
  <2> SUFFICES ASSUME pc[q] = "wait"
               PROVE  Good(tokenCall'[flight[q]].token, Key(q), Past')
    OBVIOUS
  <2>1. flight[q] \in Ops
    BY ConstantsAssumption DEF FlightInv, CallOK, TypeOK, Ops
  <2>2. CASE tokenCall'[flight[q]].token = tokenCall[flight[q]].token
    BY <1>1, <2>2 DEF Mine, Good
  <2>3. CASE flight[q] = op[p] /\ Good(tokenCall'[op[p]].token, Key(p), Past')
    BY <1>1, <2>3 DEF Mine
  <2>4. QED
    BY <2>1, <2>2, <2>3 DEF Filled
<1>4. \A r \in Callers : Key(r)' = Key(r) /\ op'[r] = op[r]
  BY DEF locals, Key
<1>5. QED
  BY <1>1, <1>2, <1>3, <1>4 DEF Mine, Good

\* A step of a call in progress.
LEMMA StoreStep ==
  ASSUME FlightInv, StoreInv, NEW p \in Callers, pc[p] # "idle",
         UNCHANGED locals, UNCHANGED ops, UNCHANGED shunned,
         Apart(p), Past \subseteq Past', Filled(p), Kept, Joinable, Mine(p)'
  PROVE  StoreInv'
<1>1. \A q \in Callers \ {p} : Mine(q)'
  BY OthersMine
<1>2. \A o \in Ops : o > ops => tokenCall'[o].token = NoToken
  <2>1. op[p] <= ops /\ op[p] \in Nat /\ ops \in Nat
    BY DEF FlightInv, Numbered, TypeOK
  <2>2. \A o \in Ops : o \in Nat /\ (o > ops => o # op[p])
    BY <2>1 DEF Ops
  <2>3. QED
    BY <2>2 DEF StoreInv, Blank, Filled
<1>3. Blank'
  BY <1>2 DEF Blank, Joinable
<1>4. Stored' /\ Shunned' /\ EvictedStaysOut'
  BY DEF StoreInv, Stored, Shunned, EvictedStaysOut, Good, Kept
<1>5. QED
  BY <1>1, <1>3, <1>4 DEF StoreInv

\* Nobody goes back to writing.
LEMMA PastStep ==
  ASSUME FlightInv, NEW p \in Callers, UNCHANGED <<op, ops>>,
         \A q \in Callers \ {p} : pc'[q] = pc[q],
         pc'[p] \in Unwritten => pc[p] \in Unwritten
  PROVE  /\ Past \subseteq Past'
         /\ pc[p] # "idle" /\ pc'[p] \notin Unwritten => op[p] \in Past'
<1>1. Past \subseteq Past'
  BY DEF Past
<1>2. ASSUME pc[p] # "idle", pc'[p] \notin Unwritten
      PROVE  op[p] \in Past'
  <2>1. op[p] # 0 /\ op[p] \in 1..ops
    BY <1>2 DEF FlightInv, CallOK, Numbered, TypeOK
  <2>2. \A q \in Callers : pc'[q] \in Unwritten => op[q] # op[p]
    BY <1>2, <2>1 DEF FlightInv, Numbered
  <2>3. QED
    BY <2>1, <2>2 DEF Past
<1>3. QED
  BY <1>1, <1>2

LEMMA StillJoinable ==
  ASSUME FlightInv, StoreInv, Past \subseteq Past',
         \A c \in Caches, k \in Keys : calls'[c][k] \in {0, calls[c][k]},
         \A o \in Ops : tokenCall'[o].token = tokenCall[o].token
  PROVE  Joinable
<1>1. \A c \in Caches, k \in Keys : calls[c][k] # 0 => calls[c][k] \in Ops
  BY ConstantsAssumption DEF FlightInv, TypeOK, Ops
<1>2. QED
  BY <1>1 DEF StoreInv, Blank, Joinable, Good

\* A call that returns, with a token that may be in its store or none.
LEMMA ReturnStore ==
  ASSUME FlightInv, StoreInv, NEW p \in Callers, pc[p] # "idle",
         NEW via, NEW outcome, Return(p, via, outcome),
         Good(outcome.token, Key(p), Past),
         UNCHANGED <<store, calls, locals, ops, result, flight, shunned>>,
         \A o \in Ops : tokenCall'[o].token = tokenCall[o].token
  PROVE  StoreInv'
<1>1. /\ pc'[p] = "idle" /\ reply'[p].token = outcome.token
      /\ \A q \in Callers \ {p} : pc'[q] = pc[q] /\ reply'[q] = reply[q]
  <2>1. reply'[p] = [via |-> via, token |-> outcome.token, err |-> outcome.err]
    BY ReturnAt DEF FlightInv
  <2>2. QED
    BY <2>1, ReturnAt DEF FlightInv
<1>2. Past \subseteq Past'
  BY <1>1, PastStep DEF Unwritten, locals
<1>3. Filled(p)
  BY DEF Filled
<1>4. /\ name[p] \in Declared[CacheOf[p]] /\ Key(p) \in Keys
      /\ name'[p] = name[p] /\ Key(p)' = Key(p)
  BY DEF FlightInv, CallOK, locals, Key
<1>5. Mine(p)'
  BY <1>1, <1>2, <1>4 DEF Mine, Good
<1>6. /\ Apart(p) /\ Kept /\ Joinable
      /\ UNCHANGED locals /\ UNCHANGED ops /\ UNCHANGED shunned
  BY <1>1, <1>2, StillJoinable DEF Apart, Kept
<1>7. QED
  BY <1>2, <1>3, <1>5, <1>6, StoreStep

\* A call that goes on without touching the store or its flight.
LEMMA GoOnStore ==
  ASSUME FlightInv, StoreInv, NEW p \in Callers, pc[p] # "idle",
         NEW l \in PCs, Goto(p, l), l # "idle",
         l \in Unwritten => pc[p] \in Unwritten,
         UNCHANGED <<store, calls, tokenCall, locals, ops, reply, flight, shunned>>,
         \A q \in Callers \ {p} : result'[q] = result[q],
         Mine(p)'
  PROVE  StoreInv'
<1>1. pc'[p] = l /\ \A q \in Callers \ {p} : pc'[q] = pc[q]
  BY GotoAt DEF FlightInv
<1>2. Past \subseteq Past'
  BY <1>1, PastStep DEF locals
<1>3. /\ Apart(p) /\ Kept /\ Joinable /\ Filled(p)
      /\ UNCHANGED locals /\ UNCHANGED ops /\ UNCHANGED shunned
  BY <1>1, <1>2, StillJoinable DEF Apart, Kept, Filled
<1>4. QED
  BY <1>2, <1>3, StoreStep

LEMMA NoTokenGood ==
  ASSUME NEW k, NEW past, NEW e
  PROVE  Good(Failed(e).token, k, past) /\ Failed(e).token = NoToken
BY DEF Good, Failed

LEMMA GetStore ==
  ASSUME FlightInv, StoreInv, NEW p \in Callers, Get(p)
  PROVE  StoreInv'
<1>1. /\ pc[p] = "get" /\ Key(p) \in Keys /\ TypeOK /\ Mine(p)
      /\ UNCHANGED <<clock, store, calls, tokenCall, ops, locals, result, flight, shunned>>
  BY DEF Get, FlightInv, CallOK, StoreInv
<1>2. CASE Return(p, "none", Failed("provider-unavailable"))
  BY <1>1, <1>2, NoTokenGood, ReturnStore
<1>3. CASE Usable(store[Key(p)], now[p]) /\ Return(p, "hit", Got(store[Key(p)]))
  <2>1. Got(store[Key(p)]).token = store[Key(p)]
    BY DEF Got
  <2>2. Good(Got(store[Key(p)]).token, Key(p), Past)
    BY <1>1, <2>1 DEF StoreInv, Stored
  <2>3. QED
    BY <1>1, <1>3, <2>2, ReturnStore
<1>4. CASE Goto(p, "enter") /\ UNCHANGED <<reply, held>>
  <2>1. pc'[p] = "enter"
    BY <1>1, <1>4, GotoAt
  <2>2. Mine(p)'
    BY <1>1, <2>1 DEF Mine, locals
  <2>3. QED
    BY <1>1, <1>4, <2>2, GoOnStore, ErrorTypes DEF Unwritten
<1>5. QED
  BY <1>2, <1>3, <1>4 DEF Get

LEMMA MintStore ==
  ASSUME FlightInv, StoreInv, NEW p \in Callers, Mint(p)
  PROVE  StoreInv'
<1>1. /\ pc[p] = "mint" /\ TypeOK /\ Mine(p)
      /\ UNCHANGED <<clock, store, calls, tokenCall, ops, locals, flight, reply, held, shunned>>
  BY DEF Mint, FlightInv, StoreInv
<1>2. CASE MintFails(p)
  <2>1. /\ Goto(p, "settle") /\ pc'[p] = "settle"
        /\ result'[p] = Failed("provider-unavailable")
        /\ \A q \in Callers \ {p} : result'[q] = result[q]
    BY <1>1, <1>2, GotoAt DEF MintFails, TypeOK
  <2>2. Mine(p)'
    BY <2>1, NoTokenGood DEF Mine, Good
  <2>3. QED
    BY <1>1, <2>1, <2>2, GoOnStore, ErrorTypes DEF Unwritten
<1>3. ASSUME NEW life \in Lifetimes,
             result' = [result EXCEPT ![p] = Got(Granted(p, life))],
             Goto(p, "write")
      PROVE  StoreInv'
  <2>1. /\ pc'[p] = "write" /\ result'[p] = Got(Granted(p, life))
        /\ \A q \in Callers \ {p} : result'[q] = result[q]
    BY <1>1, <1>3, GotoAt DEF TypeOK
  <2>2. /\ result'[p].token.op = op[p] /\ result'[p].token.cache = CacheOf[p]
        /\ result'[p].token.resource = name[p]
    BY <2>1 DEF Got, Granted
  <2>3. name[p] \in Declared[CacheOf[p]] /\ Key(p)' = Key(p) /\ op'[p] = op[p]
    BY <1>1 DEF FlightInv, CallOK, locals, Key
  <2>4. Home(result'[p].token, Key(p))
    BY <2>2, <2>3 DEF Home, Key
  <2>5. Mine(p)'
    BY <2>1, <2>2, <2>3, <2>4 DEF Mine
  <2>6. QED
    BY <1>1, <1>3, <2>1, <2>5, GoOnStore, ErrorTypes DEF Unwritten
<1>4. QED
  BY <1>2, <1>3 DEF Mint

LEMMA EnterStore ==
  ASSUME FlightInv, StoreInv, NEW p \in Callers, Enter(p)
  PROVE  StoreInv'
<1> DEFINE d == CacheOf[p]
           j == Key(p)
<1>1. /\ pc[p] = "enter" /\ j \in Keys /\ d \in Caches /\ TypeOK /\ Mine(p)
      /\ UNCHANGED <<store, tokenCall, ops, locals, result, reply, shunned>>
      /\ op[p] # 0 /\ Key(p)' = Key(p) /\ ops \in Nat
  BY ConstantsAssumption DEF Enter, FlightInv, CallOK, StoreInv, locals, Key, TypeOK
<1>2. CASE /\ InFlight(p) # 0
           /\ flight' = [flight EXCEPT ![p] = InFlight(p)]
           /\ Goto(p, "wait")
           /\ UNCHANGED calls
  <2>1. /\ pc'[p] = "wait" /\ flight'[p] = calls[d][j]
        /\ \A q \in Callers \ {p} : pc'[q] = pc[q] /\ flight'[q] = flight[q]
    BY <1>1, <1>2, GotoAt DEF TypeOK, InFlight
  <2>2. /\ calls[d][j] <= ops
        /\ \A q \in Callers : op[q] = calls[d][j] => Key(q) = j
        /\ Good(tokenCall[calls[d][j]].token, j, Past)
    BY <1>1, <1>2 DEF FlightInv, RegisteredLed, InFlight, StoreInv, Blank
  <2>3. \A q \in Callers : Key(q)' = Key(q) /\ op'[q] = op[q]
    BY <1>1 DEF locals, Key
  <2>4. Past \subseteq Past'
    BY <1>1, <2>1, PastStep DEF Unwritten, locals
  <2>5. Mine(p)'
    BY <1>1, <2>1, <2>2, <2>3, <2>4 DEF Mine, Good
  <2>6. /\ Apart(p) /\ Kept /\ Joinable /\ Filled(p) /\ pc[p] # "idle"
        /\ UNCHANGED locals /\ UNCHANGED ops /\ UNCHANGED shunned
    BY <1>1, <1>2, <2>1, <2>4, StillJoinable DEF Apart, Kept, Filled
  <2>7. QED
    BY <2>4, <2>5, <2>6, StoreStep
<1>3. CASE /\ flight' = [flight EXCEPT ![p] = op[p]]
           /\ Register(p, op[p])
           /\ Goto(p, "mint")
  <2>1. /\ pc'[p] = "mint"
        /\ \A q \in Callers \ {p} : pc'[q] = pc[q] /\ flight'[q] = flight[q]
    BY <1>1, <1>3, GotoAt DEF TypeOK
  <2>2. tokenCall[op[p]].token = NoToken
    BY <1>1 DEF Mine
  <2>3. \A c \in Caches, k \in Keys :
          calls'[c][k] = calls[c][k] \/ calls'[c][k] = op[p]
    BY <1>1, <1>3 DEF Register, TypeOK
  <2>4. Past \subseteq Past'
    BY <1>1, <2>1, PastStep DEF Unwritten, locals
  <2>5. Joinable
    BY <1>1, <2>2, <2>3, <2>4 DEF StoreInv, Blank, Joinable, Good
  <2>6. Mine(p)'
    BY <2>1 DEF Mine
  <2>7. /\ Apart(p) /\ Kept /\ Filled(p) /\ pc[p] # "idle"
        /\ UNCHANGED locals /\ UNCHANGED ops /\ UNCHANGED shunned
    BY <1>1, <2>1 DEF Apart, Kept, Filled
  <2>8. QED
    BY <2>4, <2>5, <2>6, <2>7, StoreStep
<1>4. QED
  BY <1>2, <1>3 DEF Enter

LEMMA PanicStore ==
  ASSUME FlightInv, StoreInv, NEW p \in Callers, Panic(p)
  PROVE  StoreInv'
BY NoTokenGood, ReturnStore DEF Panic

\* What the store and the invalidators know of the token being written: nothing.
LEMMA WriteStore ==
  ASSUME FlightInv, StoreInv, NEW p \in Callers, CacheWrite(p)
  PROVE  StoreInv'
<1> DEFINE t == result[p].token
<1>1. /\ pc[p] = "write" /\ Key(p) \in Keys /\ TypeOK /\ Mine(p)
      /\ UNCHANGED <<calls, tokenCall, ops, locals, flight, reply, shunned>>
      /\ UNCHANGED op /\ Key(p)' = Key(p)
  BY DEF CacheWrite, FlightInv, CallOK, StoreInv, locals, Key
<1>2. pc'[p] = "settle" /\ \A q \in Callers \ {p} : pc'[q] = pc[q]
  BY <1>1, GotoAt DEF CacheWrite, MintFails
<1>3. Past \subseteq Past' /\ op[p] \in Past'
  BY <1>1, <1>2, PastStep DEF Unwritten
<1>4. op[p] \notin Past
  BY <1>1 DEF Past, Unwritten
<1>5. t # NoToken => Home(t, Key(p)) /\ t.op = op[p]
  BY <1>1 DEF Mine
<1>6. Good(t, Key(p), Past')
  BY <1>3, <1>5 DEF Good
<1>7. \A q \in Callers : t \notin shunned[q]
  <2>1. \A q \in Callers : NoToken \notin shunned[q]
    BY <1>1, ConstantsAssumption DEF TypeOK
  <2>2. QED
    BY <1>4, <1>5, <2>1 DEF StoreInv, Shunned
<1>8. Kept
  <2>1. CASE UNCHANGED store
    BY <2>1 DEF Kept
  <2>2. CASE Put(Key(p), t)
    <3>1. store'[Key(p)] = t /\ \A k \in Keys \ {Key(p)} : store'[k] = store[k]
      BY <1>1, <2>2 DEF Put, TypeOK
    <3>2. QED
      BY <1>6, <1>7, <3>1 DEF Kept
  <2>3. QED
    BY <2>1, <2>2 DEF CacheWrite
<1>9. /\ \A q \in Callers \ {p} : result'[q] = result[q]
      /\ Good(result'[p].token, Key(p), Past')
  <2>1. CASE MintFails(p)
    <3>1. /\ \A q \in Callers \ {p} : result'[q] = result[q]
          /\ result'[p] = Failed("provider-unavailable")
      BY <1>1, <2>1 DEF MintFails, TypeOK
    <3>2. QED
      BY <3>1, NoTokenGood
  <2>2. CASE UNCHANGED result
    BY <1>6, <2>2
  <2>3. QED
    BY <2>1, <2>2 DEF CacheWrite
<1>10. Mine(p)'
  BY <1>1, <1>2, <1>9 DEF Mine
<1>11. /\ Apart(p) /\ Joinable /\ Filled(p) /\ pc[p] # "idle"
       /\ UNCHANGED locals /\ UNCHANGED ops /\ UNCHANGED shunned
  BY <1>1, <1>2, <1>3, <1>9, StillJoinable DEF Apart, Filled
<1>12. QED
  BY <1>3, <1>8, <1>10, <1>11, StoreStep

LEMMA SettleStore ==
  ASSUME FlightInv, StoreInv, NEW p \in Callers, Settle(p)
  PROVE  StoreInv'
<1> DEFINE d == CacheOf[p]
           j == Key(p)
<1>1. /\ pc[p] = "settle" /\ j \in Keys /\ d \in Caches /\ TypeOK /\ Mine(p)
      /\ UNCHANGED <<store, calls, ops, locals, result, flight, reply, held, shunned>>
      /\ UNCHANGED op /\ Key(p)' = Key(p) /\ flight[p] = op[p] /\ op[p] \in Ops
  BY ConstantsAssumption
  DEF Settle, FlightInv, CallOK, Flying, StoreInv, locals, Key, TypeOK, Ops
<1>2. pc'[p] = "unregister" /\ \A q \in Callers \ {p} : pc'[q] = pc[q]
  BY <1>1, GotoAt DEF Settle
<1>3. Past \subseteq Past'
  BY <1>1, <1>2, PastStep DEF Unwritten
<1>4. Good(result[p].token, j, Past')
  BY <1>1, <1>3 DEF Mine, Good
<1>5. /\ tokenCall'[op[p]].token = result[p].token
      /\ \A o \in Ops \ {op[p]} : tokenCall'[o] = tokenCall[o]
  BY <1>1 DEF Settle, FillIn, TypeOK
<1>6. Filled(p)
  BY <1>1, <1>4, <1>5 DEF Filled
<1>7. Joinable
  <2> SUFFICES ASSUME NEW c \in Caches, NEW k \in Keys, calls[c][k] # 0
               PROVE  Good(tokenCall'[calls[c][k]].token, k, Past')
    BY <1>1 DEF Joinable
  <2>1. calls[c][k] \in Ops
    BY <1>1, ConstantsAssumption DEF TypeOK, Ops
  <2>2. CASE calls[c][k] = op[p]
    <3>1. k = j
      BY <1>1, <2>2 DEF FlightInv, RegisteredLed
    <3>2. QED
      BY <1>4, <1>5, <2>2, <3>1
  <2>3. CASE calls[c][k] # op[p]
    BY <1>3, <1>5, <2>1, <2>3 DEF StoreInv, Blank, Good
  <2>4. QED
    BY <2>2, <2>3
<1>8. Mine(p)'
  BY <1>1, <1>2, <1>4 DEF Mine
<1>9. /\ Apart(p) /\ Kept /\ pc[p] # "idle"
      /\ UNCHANGED locals /\ UNCHANGED ops /\ UNCHANGED shunned
  BY <1>1, <1>2 DEF Apart, Kept
<1>10. QED
  BY <1>3, <1>6, <1>7, <1>8, <1>9, StoreStep

LEMMA UnregisterStore ==
  ASSUME FlightInv, StoreInv, NEW p \in Callers, Unregister(p)
  PROVE  StoreInv'
<1>1. /\ pc[p] = "unregister" /\ TypeOK /\ Mine(p)
      /\ UNCHANGED <<store, tokenCall, ops, locals, result, flight, reply, shunned>>
      /\ UNCHANGED op /\ Key(p)' = Key(p)
  BY DEF Unregister, FlightInv, StoreInv, locals, Key
<1>2. pc'[p] = "close" /\ \A q \in Callers \ {p} : pc'[q] = pc[q]
  BY <1>1, GotoAt DEF Unregister
<1>3. Past \subseteq Past'
  BY <1>1, <1>2, PastStep DEF Unwritten
<1>4. \A c \in Caches, k \in Keys : calls'[c][k] \in {0, calls[c][k]}
  BY <1>1 DEF Unregister, Register, TypeOK
<1>5. Joinable
  BY <1>1, <1>3, <1>4, StillJoinable
<1>6. Mine(p)'
  BY <1>1, <1>2, <1>3 DEF Mine, Good
<1>7. /\ Apart(p) /\ Kept /\ Filled(p) /\ pc[p] # "idle"
      /\ UNCHANGED locals /\ UNCHANGED ops /\ UNCHANGED shunned
  BY <1>1, <1>2 DEF Apart, Kept, Filled
<1>8. QED
  BY <1>3, <1>5, <1>6, <1>7, StoreStep

LEMMA CloseStore ==
  ASSUME FlightInv, StoreInv, NEW p \in Callers, Close(p)
  PROVE  StoreInv'
<1>1. /\ pc[p] = "close" /\ TypeOK /\ Mine(p) /\ Return(p, "led", result[p])
      /\ UNCHANGED <<store, calls, locals, ops, result, flight, shunned>>
  BY DEF Close, FlightInv, StoreInv
<1>2. \A o \in Ops : tokenCall'[o].token = tokenCall[o].token
  BY <1>1 DEF Close, TypeOK
<1>3. Good(result[p].token, Key(p), Past)
  BY <1>1 DEF Mine
<1>4. QED
  BY <1>1, <1>2, <1>3, ReturnStore

LEMMA WakeStore ==
  ASSUME FlightInv, StoreInv, NEW p \in Callers, Wake(p)
  PROVE  StoreInv'
<1>1. /\ pc[p] = "wait" /\ Mine(p) /\ Return(p, "joined", tokenCall[flight[p]])
      /\ UNCHANGED <<store, calls, tokenCall, locals, ops, result, flight, shunned>>
  BY DEF Wake, StoreInv
<1>2. Good(tokenCall[flight[p]].token, Key(p), Past)
  BY <1>1 DEF Mine
<1>3. QED
  BY <1>1, <1>2, ReturnStore

LEMMA BeginStore ==
  ASSUME FlightInv, StoreInv, NEW p \in Callers, NEW n \in Names, Begin(p, n)
  PROVE  StoreInv'
<1>1. /\ pc[p] = "idle" /\ TypeOK /\ ops' = ops + 1 /\ ops' \in Ops /\ ops \in Nat
      /\ UNCHANGED <<store, calls, tokenCall, result, shunned>>
  BY ConstantsAssumption DEF Begin, FlightInv, TypeOK, Ops
<1>2. /\ op'[p] = ops + 1 /\ name'[p] = n
      /\ \A q \in Callers \ {p} :
           op'[q] = op[q] /\ name'[q] = name[q] /\ flight'[q] = flight[q]
  BY <1>1 DEF Begin, TypeOK
<1>3. /\ pc'[p] = "get" \/ (pc'[p] = "idle" /\ reply'[p].token = NoToken)
      /\ \A q \in Callers \ {p} : pc'[q] = pc[q] /\ reply'[q] = reply[q]
  <2>1. ASSUME NEW e, Return(p, "none", Failed(e))
        PROVE  <1>3
    <3>1. /\ pc'[p] = "idle"
          /\ reply'[p] = [via |-> "none", token |-> Failed(e).token, err |-> Failed(e).err]
          /\ \A q \in Callers \ {p} : pc'[q] = pc[q] /\ reply'[q] = reply[q]
      BY <1>1, <2>1, ReturnAt
    <3>2. reply'[p].token = NoToken
      BY <3>1, NoTokenGood
    <3>3. QED
      BY <3>1, <3>2
  <2>2. CASE Goto(p, "get") /\ UNCHANGED reply
    BY <1>1, <2>2, GotoAt
  <2>3. QED
    BY <2>1, <2>2 DEF Begin
<1>4. Past \subseteq Past'
  <2> SUFFICES ASSUME NEW o \in Past
               PROVE  o \in Past'
    OBVIOUS
  <2>1. o \in 1..(ops + 1) /\ o # ops + 1
    BY <1>1 DEF Past
  <2>2. QED
    BY <1>1, <1>2, <1>3, <2>1 DEF Past
<1>5. Mine(p)'
  <2>1. tokenCall[ops + 1].token = NoToken
    BY <1>1 DEF StoreInv, Blank
  <2>2. QED
    BY <1>1, <1>2, <1>3, <2>1 DEF Mine, Good
<1>6. ASSUME NEW q \in Callers \ {p}
      PROVE  Mine(q)'
  <2>1. Mine(q) /\ Key(q)' = Key(q)
    BY <1>2 DEF StoreInv, Key
  <2>2. ASSUME pc[q] = "wait", NEW r \in Callers, op'[r] = flight[q]
        PROVE  Key(r)' = Key(q)
    <3>1. flight[q] <= ops /\ flight[q] \in Nat
      BY <1>1, <2>1, <2>2 DEF Mine, TypeOK
    <3>2. r # p
      BY <1>1, <1>2, <2>2, <3>1
    <3>3. QED
      BY <1>2, <2>1, <2>2, <3>2 DEF Mine, Key
  <2>3. pc[q] = "wait" => flight[q] <= ops'
    BY <1>1, <2>1 DEF Mine, TypeOK
  <2>4. QED
    BY <1>1, <1>2, <1>3, <1>4, <2>1, <2>2, <2>3 DEF Mine, Good
<1>7. Blank'
  <2>1. \A o \in Ops : o > ops' => o > ops
    BY <1>1 DEF Ops
  <2>2. QED
    BY <1>1, <1>4, <2>1 DEF StoreInv, Blank, Good
<1>8. Stored' /\ Shunned' /\ EvictedStaysOut'
  BY <1>1, <1>4 DEF StoreInv, Stored, Shunned, EvictedStaysOut, Good
<1>9. QED
  BY <1>5, <1>6, <1>7, <1>8 DEF StoreInv

\* A change of the store made by none of the calls in progress.
LEMMA DropStore ==
  ASSUME StoreInv, NEW k \in Keys, Put(k, NoToken),
         UNCHANGED <<calls, tokenCall, ops, pc, locals, result, flight, reply>>,
         TypeOK, Shunned',
         \A q \in Callers :
           \A t \in shunned'[q] : t \in Token /\ (t \in shunned[q] \/ Home(t, k))
  PROVE  StoreInv'
<1>1. store'[k] = NoToken /\ \A j \in Keys \ {k} : store'[j] = store[j]
  BY DEF Put, TypeOK
<1>2. Past' = Past /\ \A q \in Callers : Key(q)' = Key(q)
  BY DEF Past, locals, Key
<1>3. Blank' /\ \A q \in Callers : Mine(q)'
  BY <1>2 DEF StoreInv, Blank, Mine, Good, locals
<1>4. Stored'
  BY <1>1, <1>2 DEF StoreInv, Stored, Good
<1>5. ASSUME NEW q \in Callers, NEW j \in Keys
      PROVE  store'[j] \notin shunned'[q]
  <2>1. CASE store'[j] = NoToken
    BY <2>1, ConstantsAssumption
  <2>2. CASE j # k /\ store'[j] # NoToken
    <3>1. store'[j] = store[j] /\ Home(store[j], j)
      BY <1>1, <2>2 DEF StoreInv, Stored, Good
    <3>2. ~Home(store[j], k) /\ store[j] \notin shunned[q]
      BY <2>2, <3>1 DEF StoreInv, EvictedStaysOut, Home
    <3>3. QED
      BY <3>1, <3>2
  <2>3. QED
    BY <1>1, <2>1, <2>2
<1>6. EvictedStaysOut'
  BY <1>5 DEF EvictedStaysOut
<1>7. QED
  BY <1>3, <1>4, <1>6 DEF StoreInv

LEMMA InvalidateStore ==
  ASSUME FlightInv, StoreInv, NEW p \in Callers, NEW n \in Names, Invalidate(p, n)
  PROVE  StoreInv'
<1> DEFINE k == KeyOf[CacheOf[p]][n]
           t == reply[p].token
<1>1. /\ pc[p] = "idle" /\ TypeOK /\ Mine(p) /\ k \in Keys /\ Put(k, NoToken)
      /\ UNCHANGED <<calls, tokenCall, ops, pc, locals, result, flight, reply>>
  BY ConstantsAssumption DEF Invalidate, FlightInv, StoreInv
<1>2. Past' = Past
  BY <1>1 DEF Past, locals
<1>3. CASE UNCHANGED shunned
  <2>1. Shunned'
    BY <1>2, <1>3 DEF StoreInv, Shunned
  <2>2. \A q \in Callers :
          \A u \in shunned'[q] : u \in Token /\ (u \in shunned[q] \/ Home(u, k))
    BY <1>1, <1>3 DEF TypeOK
  <2>3. QED
    BY <1>1, <2>1, <2>2, DropStore
<1>4. CASE /\ n = name[p]
           /\ t # NoToken
           /\ shunned' = [shunned EXCEPT ![p] = @ \cup {t}]
  <2>1. t \in Token /\ t.op \in Past /\ Home(t, k)
    BY <1>1, <1>4 DEF TypeOK, Mine, Good, Key
  <2>2. \A q \in Callers : \A u \in shunned'[q] : u \in shunned[q] \/ u = t
    BY <1>1, <1>4 DEF TypeOK
  <2>3. Shunned'
    BY <1>2, <2>1, <2>2 DEF StoreInv, Shunned
  <2>4. \A q \in Callers :
          \A u \in shunned'[q] : u \in Token /\ (u \in shunned[q] \/ Home(u, k))
    BY <1>1, <2>1, <2>2 DEF TypeOK
  <2>5. QED
    BY <1>1, <2>3, <2>4, DropStore
<1>5. QED
  BY <1>3, <1>4 DEF Invalidate

LEMMA LoseStore ==
  ASSUME FlightInv, StoreInv, NEW k \in Keys, Lose(k)
  PROVE  StoreInv'
<1>1. /\ TypeOK /\ Put(k, NoToken) /\ UNCHANGED shunned
      /\ UNCHANGED <<calls, tokenCall, ops, pc, locals, result, flight, reply>>
  BY DEF Lose, FlightInv
<1>2. Shunned'
  BY <1>1 DEF StoreInv, Shunned, Past, locals
<1>3. \A q \in Callers :
        \A u \in shunned'[q] : u \in Token /\ (u \in shunned[q] \/ Home(u, k))
  BY <1>1 DEF TypeOK
<1>4. QED
  BY <1>1, <1>2, <1>3, DropStore

LEMMA StoreInit == Init => StoreInv
<1> SUFFICES ASSUME Init PROVE StoreInv
  OBVIOUS
<1>1. TypeOK
  BY TypeInit
<1>2. Blank /\ Stored /\ Shunned
  BY DEF Init, Blank, Stored, Shunned, Good
<1>3. EvictedStaysOut
  BY DEF Init, EvictedStaysOut
<1>4. \A p \in Callers : Mine(p)
  BY DEF Init, Mine, Good
<1>5. QED
  BY <1>2, <1>3, <1>4 DEF StoreInv

LEMMA StoreNext == FlightInv /\ StoreInv /\ [Next]_vars => StoreInv'
<1> SUFFICES ASSUME FlightInv, StoreInv, [Next]_vars PROVE StoreInv'
  OBVIOUS
<1>1. ASSUME UNCHANGED <<store, calls, tokenCall, ops, pc, locals, result, flight,
                         reply, shunned>>
      PROVE  StoreInv'
  <2>1. Past' = Past /\ \A q \in Callers : Key(q)' = Key(q)
    BY <1>1 DEF Past, locals, Key
  <2>2. Blank' /\ Stored' /\ Shunned' /\ EvictedStaysOut'
    BY <1>1, <2>1 DEF StoreInv, Blank, Stored, Shunned, EvictedStaysOut, Good
  <2>3. \A q \in Callers : Mine(q)'
    BY <1>1, <2>1 DEF StoreInv, Mine, Good, locals
  <2>4. QED
    BY <2>2, <2>3 DEF StoreInv
<1>2. ASSUME NEW p \in Callers, Proceed(p)
      PROVE  StoreInv'
  BY <1>2, GetStore, EnterStore, MintStore, PanicStore, WriteStore, SettleStore,
     UnregisterStore, CloseStore, WakeStore DEF Proceed
<1>3. CASE Tick \/ UNCHANGED vars
  BY <1>1, <1>3 DEF Tick, vars, locals
<1>4. QED
  BY <1>2, <1>3, BeginStore, InvalidateStore, LoseStore DEF Next

LEMMA StoreAlways == Spec => [](FlightInv /\ StoreInv)
BY FlightInvInit, FlightInvNext, StoreInit, StoreNext, PTL DEF Spec

(***************************************************************************)
(* A token its holder has invalidated is never stored again, by whichever  *)
(* slow mint or joined caller: TokenCache.mint writes a token before       *)
(* anybody can be handed it, and nobody else writes.                       *)
(***************************************************************************)
THEOREM EvictedStaysOutHolds == Spec => []EvictedStaysOut
<1>1. FlightInv /\ StoreInv => EvictedStaysOut
  BY DEF StoreInv
<1>2. QED
  BY <1>1, StoreAlways, PTL

(***************************************************************************)
(* Where a deployment gives every resource of every owner a key of its own *)
(* (SeparatedKeys), TokenCache.Token never returns another's token, from   *)
(* the store, from its own mint or from the call it joined.                *)
(***************************************************************************)
THEOREM OwnTokenHolds ==
  ASSUME SeparatedKeys
  PROVE  Spec => []OwnToken
<1>1. ASSUME FlightInv, StoreInv, NEW p \in Callers, pc[p] = "idle",
             reply[p].token # NoToken
      PROVE  /\ reply[p].token.resource = name[p]
             /\ OwnerOf[reply[p].token.cache] = OwnerOf[CacheOf[p]]
  <2> DEFINE t == reply[p].token
  <2>1. Home(t, Key(p)) /\ name[p] \in Declared[CacheOf[p]] /\ t \in Token
        /\ Key(p) \in Keys
    BY <1>1 DEF StoreInv, Mine, Good, FlightInv, TypeOK
  <2>2. t.cache \in Caches /\ CacheOf[p] \in Caches
    BY <2>1, ConstantsAssumption DEF Token
  <2>3. Key(p) # NoKey
    BY <2>1, ConstantsAssumption
  <2>4. QED
    BY <2>1, <2>2, <2>3 DEF SeparatedKeys, Home, Key
<1>2. FlightInv /\ StoreInv => OwnToken
  BY <1>1 DEF OwnToken
<1>3. QED
  BY <1>2, StoreAlways, PTL

-----------------------------------------------------------------------------
(* The refinement: each step is a step of SharedCall, or a stutter.         *)

Unfilled(o) == tokenCall[o].token = NoToken /\ tokenCall[o].err = "nil"

\* A call has no outcome before its leader fills it in, and what a mint closure
\* returned, or a call came to, is no panic.
Fresh ==
  /\ \A o \in Ops : o > ops => Unfilled(o)
  /\ \A o \in Ops : tokenCall[o].err # "panic"
  /\ \A p \in Callers :
       /\ pc[p] \notin {"idle", "unregister", "close"} => Unfilled(op[p])
       /\ pc[p] \in {"write", "settle", "unregister", "close"} => result[p].err # "panic"

\* A step of p that changes no call.
LEMMA FreshStep ==
  ASSUME FlightInv, Fresh, NEW p \in Callers, UNCHANGED tokenCall,
         ops' \in Nat, ops <= ops',
         \A q \in Callers \ {p} :
           pc'[q] = pc[q] /\ op'[q] = op[q] /\ result'[q] = result[q],
         pc'[p] \notin {"idle", "unregister", "close"} => Unfilled(op'[p]),
         pc'[p] \in {"write", "settle", "unregister", "close"} => result'[p].err # "panic"
  PROVE  Fresh'
<1>1. ops \in Nat /\ \A o \in Ops : o \in Nat
  BY DEF FlightInv, TypeOK, Ops
<1>2. \A o \in Ops : o > ops' => Unfilled(o)'
  BY <1>1 DEF Fresh, Unfilled
<1>3. QED
  BY <1>2 DEF Fresh, Unfilled

LEMMA BeginFresh ==
  ASSUME FlightInv, Fresh, NEW p \in Callers, NEW n \in Names, Begin(p, n)
  PROVE  Fresh'
<1>1. /\ UNCHANGED <<tokenCall, result>> /\ ops \in Nat /\ ops' = ops + 1
      /\ op'[p] = ops + 1 /\ ops + 1 \in Ops
      /\ \A q \in Callers \ {p} : op'[q] = op[q]
  BY ConstantsAssumption DEF Begin, FlightInv, TypeOK, Ops
<1>2. pc'[p] \in {"idle", "get"} /\ \A q \in Callers \ {p} : pc'[q] = pc[q]
  BY BeginAt DEF FlightInv
<1>3. Unfilled(ops + 1)
  BY <1>1 DEF Fresh
<1>4. QED
  BY <1>1, <1>2, <1>3, FreshStep

LEMMA ProceedFresh ==
  ASSUME FlightInv, Fresh, NEW p \in Callers,
         Get(p) \/ Enter(p) \/ Mint(p) \/ Panic(p) \/ CacheWrite(p) \/ Wake(p)
  PROVE  Fresh'
<1>1. /\ TypeOK /\ pc[p] \notin {"idle", "unregister", "close"} /\ Unfilled(op[p])
      /\ UNCHANGED <<tokenCall, op, ops>> /\ ops \in Nat /\ ops <= ops
  BY DEF FlightInv, TypeOK, Fresh, locals, Get, Enter, Mint, Panic, CacheWrite, Wake
<1>2. ASSUME \A q \in Callers \ {p} : pc'[q] = pc[q] /\ result'[q] = result[q],
             pc'[p] \in {"write", "settle", "unregister", "close"} => result'[p].err # "panic"
      PROVE  Fresh'
  BY <1>1, <1>2, FreshStep
<1>3. CASE Get(p) \/ Enter(p) \/ Panic(p) \/ Wake(p)
  <2>1. pc'[p] \in {"idle", "enter", "wait", "mint"}
        /\ \A q \in Callers \ {p} : pc'[q] = pc[q]
    BY <1>1, <1>3, GetAt, GotoAt, ReturnAt DEF Enter, Panic, Wake
  <2>2. UNCHANGED result
    BY <1>3 DEF Get, Enter, Panic, Wake
  <2>3. QED
    BY <1>2, <2>1, <2>2
<1>4. CASE MintFails(p)
  <2>1. pc'[p] = "settle" /\ \A q \in Callers \ {p} : pc'[q] = pc[q]
    BY <1>1, <1>4, GotoAt DEF MintFails
  <2>2. /\ result'[p].err = "provider-unavailable"
        /\ \A q \in Callers \ {p} : result'[q] = result[q]
    BY <1>1, <1>4 DEF MintFails, TypeOK, Failed
  <2>3. QED
    BY <1>2, <2>1, <2>2
<1>5. ASSUME NEW t, result' = [result EXCEPT ![p] = Got(t)], Goto(p, "write")
      PROVE  Fresh'
  <2>1. pc'[p] = "write" /\ \A q \in Callers \ {p} : pc'[q] = pc[q]
    BY <1>1, <1>5, GotoAt
  <2>2. result'[p].err = "nil" /\ \A q \in Callers \ {p} : result'[q] = result[q]
    BY <1>1, <1>5 DEF TypeOK, Got
  <2>3. QED
    BY <1>2, <2>1, <2>2
<1>6. CASE pc[p] = "write" /\ Goto(p, "settle") /\ UNCHANGED result
  BY <1>1, <1>2, <1>6, GotoAt DEF Fresh
<1>7. QED
  BY <1>3, <1>4, <1>5, <1>6 DEF Mint, CacheWrite

LEMMA SettleFresh ==
  ASSUME FlightInv, Fresh, NEW p \in Callers, Settle(p) \/ Unregister(p) \/ Close(p)
  PROVE  Fresh'
<1>1. /\ TypeOK /\ pc[p] \in {"settle", "unregister", "close"} /\ flight[p] = op[p] /\ op[p] # 0
      /\ op[p] <= ops /\ UNCHANGED <<op, ops, result>>
  BY DEF FlightInv, CallOK, Flying, Numbered, locals, Settle, Unregister, Close
<1>2. op[p] \in Ops /\ ops \in Nat /\ \A o \in Ops : o \in Nat
  BY <1>1, ConstantsAssumption DEF TypeOK, Ops
<1>3. /\ pc'[p] \in {"idle", "unregister", "close"}
      /\ \A q \in Callers \ {p} : pc'[q] = pc[q]
  BY <1>1, GotoAt, ReturnAt DEF Settle, Unregister, Close
<1>4. \A o \in Ops \ {op[p]} : tokenCall'[o] = tokenCall[o]
  BY <1>1 DEF Settle, Unregister, Close, FillIn, TypeOK
<1>5. \A o \in Ops : o > ops => Unfilled(o)'
  BY <1>1, <1>2, <1>4 DEF Fresh, Unfilled
<1>6. ASSUME NEW q \in Callers, pc'[q] \notin {"idle", "unregister", "close"}
      PROVE  Unfilled(op[q])'
  <2>1. q # p /\ pc[q] \notin {"idle", "unregister", "close"}
    BY <1>3, <1>6
  <2>2. op[q] # op[p] /\ op[q] # 0
    BY <1>1, <2>1 DEF FlightInv, CallOK, Numbered
  <2>3. op[q] \in Ops
    BY <1>1, <2>2, ConstantsAssumption DEF TypeOK, Ops
  <2>4. QED
    BY <1>1, <1>4, <2>1, <2>2, <2>3 DEF Fresh, Unfilled
<1>7. \A q \in Callers :
        pc'[q] \in {"write", "settle", "unregister", "close"} =>
            result'[q].err # "panic"
  BY <1>1, <1>3 DEF Fresh
<1>8. \A o \in Ops : tokenCall'[o].err # "panic"
  <2>1. CASE Settle(p)
    BY <1>1, <1>2, <1>4, <2>1 DEF Fresh, Settle, FillIn, TypeOK, Outcome
  <2>2. CASE Close(p)
    BY <1>1, <1>2, <1>4, <2>2 DEF Fresh, Close, TypeOK
  <2>3. CASE Unregister(p)
    BY <2>3 DEF Fresh, Unregister
  <2>4. QED
    BY <2>1, <2>2, <2>3
<1>9. QED
  BY <1>1, <1>5, <1>6, <1>7, <1>8 DEF Fresh

\* A call on its way to be closed, or closed, is registered nowhere: Enter registers
\* a call of its own that is neither.
Listed(o) == \E c \in Caches, k \in Keys : calls[c][k] = o

Unlisted ==
  /\ \A o \in Ops : tokenCall[o].done => ~Listed(o)
  /\ \A p \in Callers : pc[p] = "close" => ~Listed(op[p])

LEMMA StillUnlisted ==
  ASSUME Unlisted,
         \A c \in Caches, k \in Keys : calls'[c][k] = calls[c][k],
         \A o \in Ops : tokenCall'[o].done => tokenCall[o].done \/ ~Listed(o),
         \A p \in Callers :
           pc'[p] = "close" => ~Listed(op[p]) /\ op'[p] = op[p]
  PROVE  Unlisted'
BY DEF Unlisted, Listed

LEMMA ProceedUnlisted ==
  ASSUME FlightInv, OutcomeInv, Unlisted, NEW p \in Callers, Proceed(p)
  PROVE  Unlisted'
<1>1. /\ TypeOK /\ CallOK /\ UNCHANGED op
      /\ \A o \in Ops : o # 0 /\ o \in Nat
  BY ConstantsAssumption
  DEF FlightInv, Proceed, Get, Enter, Mint, Panic, CacheWrite, Settle, Unregister,
      Close, Wake, locals, Ops
<1>2. CASE Get(p) \/ Mint(p) \/ Panic(p) \/ CacheWrite(p) \/ Settle(p) \/ Wake(p)
  <2>1. UNCHANGED calls
    BY <1>2 DEF Get, Mint, Panic, CacheWrite, Settle, Wake
  <2>2. /\ pc'[p] # "close"
        /\ \A q \in Callers \ {p} : pc'[q] = pc[q]
    <3>1. CASE Get(p)
      BY <1>1, <3>1, GetAt
    <3>2. CASE Mint(p)
      BY <1>1, <3>2, MintAt
    <3>3. CASE Panic(p) \/ Wake(p)
      BY <1>1, <3>3, ReturnAt DEF Panic, Wake
    <3>4. CASE CacheWrite(p) \/ Settle(p)
      BY <1>1, <3>4, GotoAt DEF CacheWrite, MintFails, Settle
    <3>5. QED
      BY <1>2, <3>1, <3>2, <3>3, <3>4
  <2>3. \A o \in Ops : tokenCall'[o].done = tokenCall[o].done
    <3>1. CASE Settle(p)
      BY <1>1, <3>1 DEF Settle, FillIn, TypeOK
    <3>2. CASE ~Settle(p)
      BY <1>2, <3>2 DEF Get, Mint, Panic, CacheWrite, Wake
    <3>3. QED
      BY <3>1, <3>2
  <2>4. QED
    BY <1>1, <2>1, <2>2, <2>3, StillUnlisted DEF Unlisted
<1>3. CASE Enter(p)
  <2>1. /\ pc[p] = "enter" /\ op[p] \in Ops /\ ~tokenCall[op[p]].done /\ op[p] # 0
        /\ UNCHANGED tokenCall
    BY <1>1, <1>3 DEF Enter, OutcomeInv, Settled
  <2>2. pc'[p] \in {"wait", "mint"} /\ \A q \in Callers \ {p} : pc'[q] = pc[q]
    BY <1>1, <1>3, GotoAt DEF Enter
  <2>3. \A c \in Caches, k \in Keys : calls'[c][k] \in {calls[c][k], op[p]}
    <3>1. CASE UNCHANGED calls
      BY <3>1
    <3>2. CASE Register(p, op[p])
      BY <1>1, <3>2 DEF Register, TypeOK
    <3>3. QED
      BY <1>3, <3>1, <3>2 DEF Enter
  <2>4. \A q \in Callers : pc'[q] = "close" => op[q] # op[p] /\ ~Listed(op[q])
    BY <2>1, <2>2 DEF FlightInv, Numbered, Unlisted
  <2>5. QED
    BY <1>1, <2>1, <2>3, <2>4 DEF Unlisted, Listed
<1>4. CASE Unregister(p)
  <2>1. /\ pc[p] = "unregister" /\ op[p] # 0 /\ op[p] \in Nat
        /\ CacheOf[p] \in Caches /\ Key(p) \in Keys /\ UNCHANGED tokenCall
    BY <1>1, <1>4, ConstantsAssumption DEF Unregister, CallOK, TypeOK
  <2>2. pc'[p] = "close" /\ \A q \in Callers \ {p} : pc'[q] = pc[q]
    BY <1>1, <1>4, GotoAt DEF Unregister
  <2>3. \A c \in Caches, k \in Keys :
          calls'[c][k] = IF c = CacheOf[p] /\ k = Key(p) THEN 0 ELSE calls[c][k]
    BY <1>1, <1>4, <2>1 DEF Unregister, Register, TypeOK
  <2>4. \A c \in Caches, k \in Keys : calls'[c][k] # op[p]
    <3>1. \A c \in Caches, k \in Keys :
            calls[c][k] = op[p] => c = CacheOf[p] /\ k = Key(p)
      BY <2>1 DEF FlightInv, RegisteredLed
    <3>2. QED
      BY <2>1, <2>3, <3>1
  <2>5. ASSUME NEW o \in Nat \ {0}, ~Listed(o)
        PROVE  ~Listed(o)'
    BY <2>3, <2>5 DEF Listed
  <2>6. ASSUME NEW q \in Callers, pc'[q] = "close"
        PROVE  ~Listed(op[q])'
    <3>1. CASE q = p
      BY <1>1, <2>4, <3>1 DEF Listed
    <3>2. CASE q # p
      <4>1. pc[q] = "close" /\ op[q] \in Nat \ {0}
        BY <1>1, <2>2, <2>6, <3>2 DEF CallOK, TypeOK
      <4>2. ~Listed(op[q])
        BY <4>1 DEF Unlisted
      <4>3. ~Listed(op[q])'
        BY <1>1, <2>3, <4>1, <4>2 DEF Listed
      <4>4. QED
        BY <4>3
    <3>3. QED
      BY <3>1, <3>2
  <2>7. \A o \in Ops : tokenCall'[o].done => ~Listed(o)'
    BY <1>1, <2>1, <2>5 DEF Unlisted
  <2>8. QED
    BY <2>6, <2>7 DEF Unlisted
<1>5. CASE Close(p)
  <2>1. /\ pc[p] = "close" /\ flight[p] = op[p] /\ UNCHANGED calls
        /\ tokenCall' = [tokenCall EXCEPT ![op[p]].done = TRUE]
    BY <1>1, <1>5 DEF Close, CallOK, Flying
  <2>2. pc'[p] = "idle" /\ \A q \in Callers \ {p} : pc'[q] = pc[q]
    BY <1>1, <1>5, ReturnAt DEF Close
  <2>3. \A o \in Ops : tokenCall'[o].done => tokenCall[o].done \/ o = op[p]
    BY <1>1, <2>1 DEF TypeOK
  <2>4. QED
    BY <1>1, <2>1, <2>2, <2>3, StillUnlisted DEF Unlisted
<1>6. QED
  BY <1>2, <1>3, <1>4, <1>5 DEF Proceed

LEMMA UnlistedNext == FlightInv /\ OutcomeInv /\ Unlisted /\ [Next]_vars => Unlisted'
<1> SUFFICES ASSUME FlightInv, OutcomeInv, Unlisted, [Next]_vars PROVE Unlisted'
  OBVIOUS
<1>1. ASSUME UNCHANGED <<calls, tokenCall, pc, op>>
      PROVE  Unlisted'
  BY <1>1 DEF Unlisted, Listed
<1>2. ASSUME NEW p \in Callers, NEW n \in Names, Begin(p, n)
      PROVE  Unlisted'
  <2>1. /\ UNCHANGED <<calls, tokenCall>>
        /\ \A q \in Callers \ {p} : op'[q] = op[q]
    BY <1>2 DEF Begin, FlightInv, TypeOK
  <2>2. pc'[p] # "close" /\ \A q \in Callers \ {p} : pc'[q] = pc[q]
    BY <1>2, BeginAt DEF FlightInv
  <2>3. QED
    BY <2>1, <2>2 DEF Unlisted, Listed
<1>3. QED
  BY <1>1, <1>2, ProceedUnlisted DEF Next, Invalidate, Tick, Lose, vars, locals

LEMMA FreshNext == FlightInv /\ Fresh /\ [Next]_vars => Fresh'
<1>1. ASSUME Fresh, UNCHANGED <<tokenCall, ops, pc, op, result>>
      PROVE  Fresh'
  BY <1>1 DEF Fresh, Unfilled
<1>2. QED
  BY <1>1, BeginFresh, ProceedFresh, SettleFresh
  DEF Next, Proceed, Invalidate, Tick, Lose, vars, locals

LEMMA PartStays ==
  ASSUME NEW p \in Callers, pc'[p] = pc[p], flight'[p] = flight[p], name'[p] = name[p]
  PROVE  PartOf(p)' = PartOf(p)
BY DEF PartOf, Flying, Key

LEMMA ToldStays ==
  ASSUME NEW p \in Callers, reply'[p] = reply[p]
  PROVE  ToldTo(p)' = ToldTo(p)
BY DEF ToldTo, Said

\* A step that neither moves anybody in or out of a call nor answers anybody.
LEMMA FlightStutters ==
  ASSUME UNCHANGED <<calls, tokenCall>>,
         \A p \in Callers : PartOf(p)' = PartOf(p) /\ ToldTo(p)' = ToldTo(p)
  PROVE  UNCHANGED Flight!vars
BY DEF Flight!vars, Said

\* A caller outside every call is answered by the store, or refused.
LEMMA AnsweredElsewhere ==
  ASSUME FlightInv, NEW p \in Callers, pc[p] \in {"idle", "get"},
         NEW via \in {"none", "hit"}, NEW result0, Return(p, via, result0),
         UNCHANGED <<calls, tokenCall>>,
         \A q \in Callers \ {p} : flight'[q] = flight[q] /\ name'[q] = name[q]
  PROVE  [Flight!Next]_(Flight!vars)
<1>1. /\ pc'[p] = "idle" /\ reply'[p].via = via
      /\ \A q \in Callers \ {p} : pc'[q] = pc[q] /\ reply'[q] = reply[q]
  <2>1. TypeOK
    BY DEF FlightInv
  <2>2. /\ pc'[p] = "idle"
        /\ \A q \in Callers \ {p} : pc'[q] = pc[q] /\ reply'[q] = reply[q]
        /\ reply'[p] = [via |-> via, token |-> result0.token, err |-> result0.err]
    BY <2>1, ReturnAt
  <2>3. QED
    BY <2>2
<1>2. PartOf(p).role = "none" /\ PartOf(p)' = PartOf(p)
  BY <1>1 DEF PartOf, Flying
<1>3. \A q \in Callers : PartOf(q)' = PartOf(q)
  BY <1>1, <1>2, PartStays
<1>4. ToldTo(p)' = Failed("nil") /\ \A q \in Callers \ {p} : ToldTo(q)' = ToldTo(q)
  BY <1>1, ToldStays DEF ToldTo, Failed
<1>5. [q \in Callers |-> ToldTo(q)]'
        = [[q \in Callers |-> ToldTo(q)] EXCEPT ![p] = Failed("nil")]
  BY <1>4
<1>6. CASE ToldTo(p) = Failed("nil")
  BY <1>3, <1>4, <1>6, FlightStutters
<1>7. CASE ToldTo(p) # Failed("nil")
  <2>1. Flight!Elsewhere(p)
    BY <1>2, <1>3, <1>5, <1>7 DEF Flight!Elsewhere, Said
  <2>2. QED
    BY <2>1 DEF Flight!Next
<1>8. QED
  BY <1>6, <1>7

LEMMA BeginShares ==
  ASSUME FlightInv, NEW p \in Callers, NEW n \in Names, Begin(p, n)
  PROVE  [Flight!Next]_(Flight!vars)
<1>1. /\ pc[p] = "idle" /\ UNCHANGED <<calls, tokenCall>>
      /\ \A q \in Callers \ {p} : flight'[q] = flight[q] /\ name'[q] = name[q]
  BY DEF Begin, FlightInv, TypeOK
<1>2. ASSUME NEW e, Return(p, "none", Failed(e))
      PROVE  [Flight!Next]_(Flight!vars)
  BY <1>1, <1>2, AnsweredElsewhere
<1>3. CASE Goto(p, "get") /\ UNCHANGED reply
  <2>1. pc'[p] = "get" /\ \A q \in Callers \ {p} : pc'[q] = pc[q]
    BY <1>3, GotoAt DEF FlightInv
  <2>2. PartOf(p)' = PartOf(p)
    BY <1>1, <2>1 DEF PartOf, Flying
  <2>3. \A q \in Callers : PartOf(q)' = PartOf(q) /\ ToldTo(q)' = ToldTo(q)
    BY <1>1, <1>3, <2>1, <2>2, PartStays, ToldStays
  <2>4. QED
    BY <1>1, <2>3, FlightStutters
<1>4. QED
  BY <1>2, <1>3 DEF Begin

LEMMA GetShares ==
  ASSUME FlightInv, NEW p \in Callers, Get(p)
  PROVE  [Flight!Next]_(Flight!vars)
<1>1. pc[p] = "get" /\ UNCHANGED <<calls, tokenCall, flight, name>>
  BY DEF Get, locals
<1>2. ASSUME NEW via \in {"none", "hit"}, NEW result0, Return(p, via, result0)
      PROVE  [Flight!Next]_(Flight!vars)
  BY <1>1, <1>2, AnsweredElsewhere
<1>3. CASE Goto(p, "enter") /\ UNCHANGED reply
  <2>1. pc'[p] = "enter" /\ \A q \in Callers \ {p} : pc'[q] = pc[q]
    BY <1>3, GotoAt DEF FlightInv
  <2>2. PartOf(p)' = PartOf(p)
    BY <1>1, <2>1 DEF PartOf, Flying
  <2>3. \A q \in Callers : PartOf(q)' = PartOf(q) /\ ToldTo(q)' = ToldTo(q)
    BY <1>1, <1>3, <2>1, <2>2, PartStays, ToldStays
  <2>4. QED
    BY <1>1, <2>3, FlightStutters
<1>4. QED
  BY <1>2, <1>3 DEF Get

\* Taking the mutex: the slot's open call is joined, or a new one is led.
LEMMA EnterShares ==
  ASSUME FlightInv, Fresh, NEW p \in Callers, Enter(p)
  PROVE  Flight!Next
<1> DEFINE c == CacheOf[p]
           k == Key(p)
           s == <<c, k>>
<1>1. /\ pc[p] = "enter" /\ c \in Caches /\ k \in Keys /\ s \in Caches \X Keys
      /\ op[p] \in Ops /\ op[p] # 0 /\ Unfilled(op[p])
      /\ UNCHANGED <<tokenCall, op, name, reply>>
  <2>1. /\ pc[p] = "enter" /\ op[p] \in 0..MaxOps /\ op[p] # 0
        /\ UNCHANGED <<tokenCall, op, name, reply>>
    BY DEF Enter, FlightInv, TypeOK, CallOK, locals
  <2>2. c \in Caches /\ k \in Keys
    BY <2>1, ConstantsAssumption DEF FlightInv, CallOK
  <2>3. op[p] \in Ops /\ Unfilled(op[p])
    BY <2>1, ConstantsAssumption DEF Fresh, Ops
  <2>4. QED
    BY <2>1, <2>2, <2>3
<1>2. PartOf(p).role = "none"
  BY <1>1 DEF PartOf, Flying
<1>3. \A q \in Callers : ToldTo(q)' = ToldTo(q)
  BY <1>1, ToldStays
<1>4. \A q \in Callers \ {p} : flight'[q] = flight[q]
  BY DEF Enter, FlightInv, TypeOK
<1>5. [o \in Ops |-> Said(tokenCall[o])]' = [o \in Ops |-> Said(tokenCall[o])]
  BY <1>1 DEF Said
<1>6. CASE InFlight(p) # 0
  <2>1. /\ pc'[p] = "wait" /\ flight'[p] = calls[c][k] /\ UNCHANGED calls
        /\ \A q \in Callers \ {p} : pc'[q] = pc[q]
    BY <1>6, GotoAt DEF Enter, InFlight, FlightInv, TypeOK
  <2>2. /\ PartOf(p)' = [role |-> "member", slot |-> s, call |-> calls[c][k]]
        /\ \A q \in Callers \ {p} : PartOf(q)' = PartOf(q)
    BY <1>1, <1>4, <2>1, PartStays DEF PartOf, Key
  <2>3. [q \in Callers |-> PartOf(q)]'
          = [[q \in Callers |-> PartOf(q)] EXCEPT
               ![p] = [role |-> "member", slot |-> s, call |-> calls[c][k]]]
    BY <2>2
  <2>4. Flight!Join(p, s)
    BY <1>1, <1>2, <1>3, <1>5, <1>6, <2>1, <2>3 DEF Flight!Join, Flight!Member, InFlight
  <2>5. QED
    BY <1>1, <2>4 DEF Flight!Next
<1>7. CASE InFlight(p) = 0
  <2>1. /\ pc'[p] = "mint" /\ flight'[p] = op[p] /\ Register(p, op[p])
        /\ \A q \in Callers \ {p} : pc'[q] = pc[q]
    BY <1>7, GotoAt DEF Enter, FlightInv, TypeOK
  <2>2. /\ PartOf(p)' = [role |-> "leader", slot |-> s, call |-> op[p]]
        /\ \A q \in Callers \ {p} : PartOf(q)' = PartOf(q)
    BY <1>1, <1>4, <2>1, PartStays DEF PartOf, Flying, Key
  <2>3. [q \in Callers |-> PartOf(q)]'
          = [[q \in Callers |-> PartOf(q)] EXCEPT
               ![p] = [role |-> "leader", slot |-> s, call |-> op[p]]]
    BY <2>2
  <2>4. /\ calls'[c][k] = op[p]
        /\ \A r \in Caches \X Keys : r # s => calls'[r[1]][r[2]] = calls[r[1]][r[2]]
    BY <1>1, <2>1 DEF Register, FlightInv, TypeOK
  <2>5. [r \in Caches \X Keys |-> calls[r[1]][r[2]]]'
          = [[r \in Caches \X Keys |-> calls[r[1]][r[2]]] EXCEPT ![s] = op[p]]
    <3>1. s[1] = c /\ s[2] = k
      OBVIOUS
    <3>2. \A r \in Caches \X Keys :
            calls'[r[1]][r[2]] = IF r = s THEN op[p] ELSE calls[r[1]][r[2]]
      BY <2>4, <3>1
    <3>3. QED
      BY <3>2
  <2>6. ASSUME NEW r \in Caches \X Keys
        PROVE  calls[r[1]][r[2]] # op[p]
    <3>1. calls[r[1]][r[2]] = op[p] => r[1] = c /\ r[2] = k
      BY <1>1 DEF FlightInv, RegisteredLed
    <3>2. QED
      BY <1>1, <1>7, <3>1 DEF InFlight
  <2>7. [o \in Ops |-> Said(tokenCall[o])][op[p]] = Failed("nil")
    BY <1>1 DEF Said, Failed, Unfilled
  <2>8. calls[s[1]][s[2]] = 0 /\ Said(tokenCall[op[p]]) = Failed("nil")
    BY <1>7, <2>7, <1>1 DEF InFlight
  <2>9. [q \in Callers |-> ToldTo(q)]' = [q \in Callers |-> ToldTo(q)]
    BY <1>3
  <2>10. PICK slot \in Caches \X Keys, o \in Ops : slot = s /\ o = op[p]
    BY <1>1
  <2> HIDE DEF c, k, s
  <2>11. /\ calls[slot[1]][slot[2]] = 0
         /\ Said(tokenCall[o]) = Failed("nil")
         /\ \A x \in Caches \X Keys : calls[x[1]][x[2]] # o
    BY <2>6, <2>8, <2>10
  <2>12. [x \in Caches \X Keys |-> calls[x[1]][x[2]]]'
           = [[x \in Caches \X Keys |-> calls[x[1]][x[2]]] EXCEPT ![slot] = o]
    BY <2>5, <2>10
  <2>13. [q \in Callers |-> PartOf(q)]'
           = [[q \in Callers |-> PartOf(q)] EXCEPT
                ![p] = [role |-> "leader", slot |-> slot, call |-> o]]
    BY <2>3, <2>10
  <2>14. Flight!Lead(p, slot)
    BY <1>2, <1>5, <2>9, <2>11, <2>12, <2>13 DEF Flight!Lead, Flight!Leader
  <2>15. QED
    BY <2>14 DEF Flight!Next
<1>8. QED
  BY <1>6, <1>7

\* Between registering and closing a call, its leader stays its leader.
LEMMA LeaderStays ==
  ASSUME FlightInv, NEW p \in Callers, Flying(p), NEW l \in {"write", "settle", "unregister", "close"},
         Goto(p, l), UNCHANGED <<flight, name, reply>>
  PROVE  \A q \in Callers : PartOf(q)' = PartOf(q) /\ ToldTo(q)' = ToldTo(q)
<1>1. pc'[p] = l /\ \A q \in Callers \ {p} : pc'[q] = pc[q]
  BY GotoAt DEF FlightInv
<1>2. PartOf(p)' = PartOf(p)
  BY <1>1 DEF PartOf, Flying, Key
<1>3. QED
  BY <1>1, <1>2, PartStays, ToldStays

LEMMA MintShares ==
  ASSUME FlightInv, NEW p \in Callers, Mint(p) \/ CacheWrite(p)
  PROVE  UNCHANGED Flight!vars
<1>1. Flying(p) /\ UNCHANGED <<calls, tokenCall, flight, name, reply>>
  BY DEF Mint, CacheWrite, Flying, locals
<1>2. Goto(p, "write") \/ Goto(p, "settle")
  BY DEF Mint, MintFails, CacheWrite
<1>3. QED
  BY <1>1, <1>2, LeaderStays, FlightStutters

LEMMA PanicShares ==
  ASSUME FlightInv, Fresh, NEW p \in Callers, Panic(p)
  PROVE  Flight!Next
<1>1. /\ pc[p] \in {"mint", "write"} /\ flight[p] = op[p] /\ op[p] \in Ops
      /\ Unfilled(op[p]) /\ UNCHANGED <<calls, tokenCall, flight, name>>
  <2>1. pc[p] \in {"mint", "write"} /\ UNCHANGED <<calls, tokenCall, flight, name>>
    BY DEF Panic, locals
  <2>2. flight[p] = op[p] /\ op[p] \in Ops
    BY <2>1, ConstantsAssumption DEF FlightInv, TypeOK, CallOK, Flying, Ops
  <2>3. QED
    BY <2>1, <2>2 DEF Fresh
<1>2. /\ pc'[p] = "idle"
      /\ reply'[p] = [via |-> "led", token |-> Failed("panic").token,
                      err |-> Failed("panic").err]
      /\ \A q \in Callers \ {p} : pc'[q] = pc[q] /\ reply'[q] = reply[q]
  BY ReturnAt DEF Panic, FlightInv
<1>3. PartOf(p).role = "leader" /\ PartOf(p).call = op[p]
  BY <1>1 DEF PartOf, Flying
<1>4. PartOf(p)' = [role |-> "none"] /\ ToldTo(p)' = Failed("nil")
  BY <1>2 DEF PartOf, Flying, ToldTo, Failed
<1>5. \A q \in Callers \ {p} : PartOf(q)' = PartOf(q) /\ ToldTo(q)' = ToldTo(q)
  BY <1>1, <1>2, PartStays, ToldStays
<1>6. [q \in Callers |-> PartOf(q)]'
        = [[q \in Callers |-> PartOf(q)] EXCEPT ![p] = [role |-> "none"]]
  BY <1>4, <1>5
<1>7. [q \in Callers |-> ToldTo(q)]'
        = [[q \in Callers |-> ToldTo(q)] EXCEPT ![p] = Failed("nil")]
  BY <1>4, <1>5
<1>8. Said(tokenCall[op[p]]) = Failed("nil")
  BY <1>1 DEF Said, Failed, Unfilled
<1>9. Flight!Vanish(p)
  BY <1>1, <1>3, <1>6, <1>7, <1>8 DEF Flight!Vanish, Flight!Leads, Flight!Apart, Said
<1>10. QED
  BY <1>9 DEF Flight!Next

\* Filling the call in decides it; it can still be joined.
LEMMA SettleShares ==
  ASSUME FlightInv, OutcomeInv, Fresh, NEW p \in Callers, Settle(p)
  PROVE  Flight!Next
<1> DEFINE came == Said(result[p])
           slot == <<CacheOf[p], Key(p)>>
<1>1. /\ pc[p] = "settle" /\ flight[p] = op[p] /\ op[p] \in Ops
      /\ CacheOf[p] \in Caches /\ Key(p) \in Keys
      /\ calls[CacheOf[p]][Key(p)] = op[p]
      /\ Unfilled(op[p]) /\ Whole(result[p]) /\ result[p].err # "panic"
      /\ UNCHANGED <<calls, flight, name, reply>>
  BY ConstantsAssumption
  DEF Settle, FlightInv, TypeOK, CallOK, Flying, LeadersRegistered, Leading, Fresh,
      OutcomeInv, Settled, locals, Ops
<1>2. came \in [token : Token, err : {"nil"}] \cup [token : {NoToken}, err : Failures]
  BY <1>1 DEF Whole, FlightInv, TypeOK, Outcome, Errors, Said
<1>3. /\ tokenCall'[op[p]].token = result[p].token
      /\ tokenCall'[op[p]].err = result[p].err
      /\ \A o \in Ops \ {op[p]} : tokenCall'[o] = tokenCall[o]
  BY <1>1 DEF Settle, FillIn, FlightInv, TypeOK
<1>4. [o \in Ops |-> Said(tokenCall[o])]'
        = [[o \in Ops |-> Said(tokenCall[o])] EXCEPT ![op[p]] = came]
  BY <1>1, <1>3 DEF Said
<1>5. Said(tokenCall[op[p]]) = Failed("nil")
  BY <1>1 DEF Said, Failed, Unfilled
<1>6. \A q \in Callers : PartOf(q)' = PartOf(q) /\ ToldTo(q)' = ToldTo(q)
  <2>1. Flying(p) /\ Goto(p, "unregister")
    BY <1>1 DEF Settle, Flying
  <2>2. QED
    BY <1>1, <2>1, LeaderStays
<1>7. PartOf(p) = [role |-> "leader", slot |-> slot, call |-> op[p]]
  BY <1>1 DEF PartOf, Flying
<1>8. Flight!Decide(p)
  <2>1. PICK s \in Caches \X Keys, o \in Ops : s = slot /\ o = op[p]
    BY <1>1
  <2>2. /\ PartOf(p).role = "leader" /\ PartOf(p).call = o /\ PartOf(p).slot = s
        /\ calls[s[1]][s[2]] = o
        /\ [x \in Ops |-> Said(tokenCall[x])][o] = Failed("nil")
    BY <1>1, <1>5, <1>7, <2>1
  <2>3. [x \in Ops |-> Said(tokenCall[x])]'
          = [[x \in Ops |-> Said(tokenCall[x])] EXCEPT ![o] = came]
    BY <1>4, <2>1
  <2>4. UNCHANGED calls
    BY <1>1
  <2> HIDE DEF came, slot
  <2>5. [x \in Ops |-> Said(tokenCall[x])]'[o] = came
    BY <2>3
  <2>6. QED
    BY <1>2, <1>6, <2>2, <2>3, <2>4, <2>5 DEF Flight!Decide, Flight!Leads
<1>9. QED
  BY <1>8 DEF Flight!Next

\* Unregistering the call shuts it: nobody joins it any more.
LEMMA UnregisterShares ==
  ASSUME FlightInv, OutcomeInv, NEW p \in Callers, Unregister(p)
  PROVE  Flight!Next
<1> DEFINE slot == <<CacheOf[p], Key(p)>>
<1>1. /\ pc[p] = "unregister" /\ flight[p] = op[p] /\ op[p] \in Ops
      /\ CacheOf[p] \in Caches /\ Key(p) \in Keys
      /\ calls[CacheOf[p]][Key(p)] = op[p]
      /\ Whole(result[p]) /\ Same(result[p], tokenCall[op[p]])
      /\ UNCHANGED <<tokenCall, flight, name, reply>>
  BY ConstantsAssumption
  DEF Unregister, FlightInv, TypeOK, CallOK, Flying, LeadersRegistered, Leading,
      OutcomeInv, Settled, locals, Ops
<1>2. Said(tokenCall[op[p]]) # Failed("nil")
  BY <1>1 DEF Whole, Same, Said, Failed
<1>3. \A q \in Callers : PartOf(q)' = PartOf(q) /\ ToldTo(q)' = ToldTo(q)
  <2>1. Flying(p) /\ Goto(p, "close")
    BY <1>1 DEF Unregister, Flying
  <2>2. QED
    BY <1>1, <2>1, LeaderStays
<1>4. PartOf(p) = [role |-> "leader", slot |-> slot, call |-> op[p]]
  BY <1>1 DEF PartOf, Flying
<1>5. /\ calls'[CacheOf[p]][Key(p)] = 0
      /\ \A x \in Caches \X Keys : x # slot => calls'[x[1]][x[2]] = calls[x[1]][x[2]]
  BY <1>1 DEF Unregister, Register, FlightInv, TypeOK
<1>6. [x \in Caches \X Keys |-> calls[x[1]][x[2]]]'
        = [[x \in Caches \X Keys |-> calls[x[1]][x[2]]] EXCEPT ![slot] = 0]
  <2>1. \A x \in Caches \X Keys :
          calls'[x[1]][x[2]] = IF x = slot THEN 0 ELSE calls[x[1]][x[2]]
    BY <1>5
  <2>2. QED
    BY <2>1
<1>7. Flight!Shut(p)
  <2>1. PICK s \in Caches \X Keys, o \in Ops : s = slot /\ o = op[p]
    BY <1>1
  <2>2. /\ PartOf(p).role = "leader" /\ PartOf(p).call = o /\ PartOf(p).slot = s
        /\ calls[s[1]][s[2]] = o
        /\ [x \in Ops |-> Said(tokenCall[x])][o] # Failed("nil")
    BY <1>1, <1>2, <1>4, <2>1
  <2>3. [x \in Caches \X Keys |-> calls[x[1]][x[2]]]'
          = [[x \in Caches \X Keys |-> calls[x[1]][x[2]]] EXCEPT ![s] = 0]
    BY <1>6, <2>1
  <2>4. UNCHANGED tokenCall
    BY <1>1
  <2> HIDE DEF slot
  <2>5. QED
    BY <1>3, <2>2, <2>3, <2>4 DEF Flight!Shut, Flight!Leads, Said
<1>8. QED
  BY <1>7 DEF Flight!Next

\* A call's leader, or one who joined it, leaves with its outcome.
LEMMA TellShares ==
  ASSUME FlightInv, NEW p \in Callers, Flying(p) \/ pc[p] = "wait", flight[p] \in Ops,
         ~Listed(flight[p]), CacheOf[p] \in Caches, Key(p) \in Keys,
         NEW via \in {"led", "joined"}, NEW came, Return(p, via, came),
         Same(came, tokenCall[flight[p]]), Whole(came), came.err # "panic",
         UNCHANGED <<calls, flight, name>>,
         \A o \in Ops : Said(tokenCall[o])' = Said(tokenCall[o])
  PROVE  Flight!Next
<1>1. /\ pc'[p] = "idle"
      /\ reply'[p] = [via |-> via, token |-> came.token, err |-> came.err]
      /\ \A q \in Callers \ {p} : pc'[q] = pc[q] /\ reply'[q] = reply[q]
  BY ReturnAt DEF FlightInv
<1>2. PartOf(p).role # "none" /\ PartOf(p).call = flight[p]
  BY DEF PartOf
<1>3. PartOf(p)' = [role |-> "none"]
  BY <1>1 DEF PartOf, Flying
<1>4. ToldTo(p)' = Said(tokenCall[flight[p]])
  BY <1>1 DEF ToldTo, Said, Same
<1>5. \A q \in Callers \ {p} : PartOf(q)' = PartOf(q) /\ ToldTo(q)' = ToldTo(q)
  BY <1>1, PartStays, ToldStays
<1>6. [q \in Callers |-> PartOf(q)]'
        = [[q \in Callers |-> PartOf(q)] EXCEPT ![p] = [role |-> "none"]]
  BY <1>3, <1>5
<1>7. [q \in Callers |-> ToldTo(q)]'
        = [[q \in Callers |-> ToldTo(q)] EXCEPT ![p] = Said(tokenCall[flight[p]])]
  BY <1>4, <1>5
<1>8. Said(tokenCall[flight[p]]) # Failed("nil")
  BY DEF Whole, Same, Said, Failed
<1>9. PICK s \in Caches \X Keys : PartOf(p).slot = s /\ calls[s[1]][s[2]] # flight[p]
  <2>1. PartOf(p).slot = <<CacheOf[p], Key(p)>>
    BY DEF PartOf
  <2>2. calls[CacheOf[p]][Key(p)] # flight[p]
    BY DEF Listed
  <2>3. QED
    BY <2>1, <2>2
<1>10. Flight!Tell(p)
  BY <1>2, <1>6, <1>7, <1>8, <1>9 DEF Flight!Tell, Flight!Apart
<1>11. QED
  BY <1>10 DEF Flight!Next

LEMMA AnswerShares ==
  ASSUME FlightInv, OutcomeInv, Fresh, Unlisted, NEW p \in Callers, Close(p) \/ Wake(p)
  PROVE  Flight!Next
<1>1. /\ UNCHANGED <<calls, flight, name>>
      /\ CacheOf[p] \in Caches /\ Key(p) \in Keys
  BY ConstantsAssumption DEF Close, Wake, locals, FlightInv, CallOK
<1>2. CASE Close(p)
  <2>1. /\ Flying(p) /\ flight[p] = op[p] /\ op[p] \in Ops
        /\ Same(result[p], tokenCall[op[p]]) /\ Whole(result[p])
        /\ result[p].err # "panic" /\ Return(p, "led", result[p])
        /\ ~Listed(op[p])
    BY <1>2 DEF Close, Flying, FlightInv, CallOK, OutcomeInv, Settled, Fresh, Unlisted
  <2>2. \A o \in Ops : Said(tokenCall[o])' = Said(tokenCall[o])
    BY <1>2, <2>1 DEF Close, FlightInv, TypeOK, Said
  <2>3. QED
    BY <1>1, <2>1, <2>2, TellShares
<1>3. CASE Wake(p)
  <2>1. /\ pc[p] = "wait" /\ flight[p] \in Ops /\ tokenCall[flight[p]].done
        /\ Return(p, "joined", tokenCall[flight[p]]) /\ UNCHANGED tokenCall
    BY <1>3, ConstantsAssumption DEF Wake, FlightInv, TypeOK, CallOK, Ops
  <2>2. Whole(tokenCall[flight[p]]) /\ tokenCall[flight[p]].err # "panic"
        /\ ~Listed(flight[p])
    BY <2>1 DEF OutcomeInv, Closed, Fresh, Unlisted
  <2>3. QED
    BY <1>1, <2>1, <2>2, TellShares DEF Same, Said
<1>4. QED
  BY <1>2, <1>3

(***************************************************************************)
(* The token flight implements the shared call: joining or registering,    *)
(* filling in, unregistering, closing and returning (tokenFlight.do) are   *)
(* steps of their own, and whatever other goroutines do in between, every  *)
(* call is decided once, shut before anybody returns with its outcome, and *)
(* everyone in it is told that outcome.                                    *)
(***************************************************************************)
THEOREM SharesCallsHolds == Spec => SharesCalls
<1>1. Init => Flight!Init
  BY DEF Init, Flight!Init, Flight!Apart, PartOf, Flying, ToldTo, Said, Failed
<1>2. Init => Fresh
  BY DEF Init, Fresh, Unfilled, Failed
<1>3. ASSUME FlightInv, OutcomeInv, Fresh, Unlisted, [Next]_vars
      PROVE  [Flight!Next]_(Flight!vars)
  <2>1. CASE UNCHANGED <<calls, tokenCall, pc, flight, name, reply>>
    BY <2>1, PartStays, ToldStays, FlightStutters
  <2>2. QED
    BY <1>3, <2>1, BeginShares, GetShares, EnterShares, MintShares, PanicShares,
       SettleShares, UnregisterShares, AnswerShares
    DEF Next, Proceed, Invalidate, Tick, Lose, vars, locals
<1>4. Init => Unlisted
  BY ConstantsAssumption DEF Init, Unlisted, Listed
<1>5. Spec => [](FlightInv /\ OutcomeInv /\ Fresh /\ Unlisted)
  BY <1>2, <1>4, FlightInvAlways, OutcomeAlways, FreshNext, UnlistedNext, PTL DEF Spec
<1>6. QED
  BY <1>1, <1>3, <1>5, PTL DEF Spec, SharesCalls, Flight!Spec
=============================================================================
