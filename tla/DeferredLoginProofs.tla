------------------------ MODULE DeferredLoginProofs ------------------------
(***************************************************************************)
(* What TLAPS proves of DeferredLogin, for every set of requests, nonces,  *)
(* users and addresses, every lifetime and every bound.                    *)
(***************************************************************************)
EXTENDS DeferredLogin, TLAPS

LEMMA Labels ==
  /\ PCs = {"idle", "put", "consume", "login"}
  /\ Errors = {"nil", "crashed", "token-claim-missing", "provider-unavailable",
               "deferred-token-unknown", "deferred-token-consumed",
               "deferred-token-expired", "token-signature-invalid",
               "ownership-denied"}
  /\ Refusals \subseteq Errors
BY DEF PCs, Errors, Refusals

\* A call that returns leaves its caller idle, and the others alone.
LEMMA ReturnType ==
  ASSUME TypeOK, NEW p \in Requests, NEW e \in Errors, Return(p, e)
  PROVE  /\ pc' \in [Requests -> PCs]
         /\ nonce' \in [Requests -> Carried]
         /\ now' \in [Requests -> Nat]
         /\ record' \in [Requests -> Record \cup {NoRecord}]
         /\ reply' \in [Requests -> Errors]
BY Labels DEF TypeOK, Return, Goto, Carried

LEMMA ReturnAt ==
  ASSUME TypeOK, NEW p \in Requests, NEW e, Return(p, e)
  PROVE  /\ pc'[p] = "idle" /\ reply'[p] = e
         /\ \A q \in Requests \ {p} :
              /\ pc'[q] = pc[q] /\ nonce'[q] = nonce[q] /\ now'[q] = now[q]
              /\ record'[q] = record[q]
BY DEF TypeOK, Return, Goto

LEMMA RecordType ==
  /\ \A r \in Record :
       /\ r.subject \in Subjects /\ r.email \in Emails \cup {NoEmail}
       /\ r.exp \in Nat /\ r.consumed \in BOOLEAN
       /\ Marked(r) \in Record /\ Marked(r) # NoRecord
       /\ Marked(r).consumed = TRUE /\ Marked(r).exp = r.exp
       /\ Marked(r).subject = r.subject /\ Marked(r).email = r.email
       /\ Bound(r) \in Offer /\ r # NoRecord
  /\ \A s \in Subjects, e \in Emails \cup {NoEmail}, t \in Nat :
       [subject |-> s, email |-> e, exp |-> t, consumed |-> FALSE] \in Record
<1>1. NoRecord \notin Record
  BY ConstantsAssumption
<1>2. ASSUME NEW r \in Record
      PROVE  /\ r.subject \in Subjects /\ r.email \in Emails \cup {NoEmail}
             /\ r.exp \in Nat /\ r.consumed \in BOOLEAN
             /\ Marked(r) \in Record
             /\ Marked(r).consumed = TRUE /\ Marked(r).exp = r.exp
             /\ Marked(r).subject = r.subject /\ Marked(r).email = r.email
             /\ Bound(r) \in Offer
  BY DEF Record, Marked, Bound, Offer
<1>3. \A s \in Subjects, e \in Emails \cup {NoEmail}, t \in Nat :
        [subject |-> s, email |-> e, exp |-> t, consumed |-> FALSE] \in Record
  BY DEF Record
<1>4. ASSUME NEW r \in Record PROVE r # NoRecord /\ Marked(r) # NoRecord
  <2>1. Marked(r) \in Record
    BY <1>2
  <2>2. QED
    BY <1>1, <2>1
<1>5. QED
  BY <1>2, <1>3, <1>4
-----------------------------------------------------------------------------
(***************************************************************************)
(* Presented says where the nonces of requests in progress come from: what *)
(* is minted or redeemed has a record, and what is exchanged was delivered *)
(* or is damaged.                                                          *)
(***************************************************************************)
Presented ==
  \A p \in Requests :
    /\ pc[p] \in {"put", "login"} => nonce[p] \in Nonces /\ record[p] \in Record
    /\ pc[p] = "consume" => nonce[p] \in delivered \cup {Garbled}

LEMMA BeginMintType ==
  ASSUME TypeOK, Presented, NEW p \in Requests, NEW s \in Subjects \cup {NoSubject},
         NEW e \in Emails \cup {NoEmail}, BeginMint(p, s, e)
  PROVE  TypeOK' /\ Presented'
<1>1. /\ UNCHANGED <<clock, records, delivered, logins, offered, decided, lost>>
      /\ pc[p] = "idle"
  BY DEF BeginMint
<1>2. ASSUME NEW err \in Errors, Return(p, err)
      PROVE  TypeOK' /\ Presented'
  <2>1. TypeOK'
    BY <1>1, <1>2, ReturnType DEF TypeOK
  <2>2. Presented'
    BY <1>1, <1>2, ReturnAt DEF Presented
  <2>3. QED
    BY <2>1, <2>2
<1>3. ASSUME s # NoSubject,
             NEW n \in Nonces \ Drawn, nonce' = [nonce EXCEPT ![p] = n],
             record' = [record EXCEPT ![p] =
                          [subject |-> s, email |-> e, exp |-> clock + Lifetime,
                           consumed |-> FALSE]],
             reply' = [reply EXCEPT ![p] = "nil"],
             Goto(p, "put"), UNCHANGED now
      PROVE  TypeOK' /\ Presented'
  <2>1. /\ clock + Lifetime \in Nat
        /\ [subject |-> s, email |-> e, exp |-> clock + Lifetime,
            consumed |-> FALSE] \in Record
    BY <1>3, RecordType, ConstantsAssumption DEF TypeOK
  <2>2. TypeOK'
    BY <1>1, <1>3, <2>1, Labels DEF TypeOK, Goto, Carried
  <2>3. Presented'
    BY <1>1, <1>3, <2>1 DEF TypeOK, Presented, Goto
  <2>4. QED
    BY <2>2, <2>3
<1>4. QED
  BY <1>2, <1>3, Labels DEF BeginMint

LEMMA PutType ==
  ASSUME TypeOK, Presented, NEW p \in Requests, Put(p)
  PROVE  TypeOK' /\ Presented'
<1>1. /\ UNCHANGED <<clock, logins, decided, lost>>
      /\ record[p] \in Record /\ nonce[p] \in Nonces
      /\ delivered' \in SUBSET Nonces /\ delivered \subseteq delivered'
  BY DEF Put, Presented, TypeOK
<1>2. \E e \in Errors : Return(p, e)
  BY Labels DEF Put
<1>3. /\ records' \in [Nonces -> Record \cup {NoRecord}]
      /\ offered' \in [Nonces -> Record \cup {NoRecord}]
  BY <1>1 DEF Put, PutApplied, TypeOK
<1>4. TypeOK'
  BY <1>1, <1>2, <1>3, ReturnType DEF TypeOK
<1>5. Presented'
  BY <1>1, <1>2, ReturnAt DEF Presented
<1>6. QED
  BY <1>4, <1>5

LEMMA BeginExchangeType ==
  ASSUME TypeOK, Presented, NEW p \in Requests,
         NEW n \in delivered \cup {Blank, Garbled}, BeginExchange(p, n)
  PROVE  TypeOK' /\ Presented'
<1>1. /\ UNCHANGED <<clock, records, delivered, logins, offered, decided, lost>>
      /\ n \in Carried
  BY DEF BeginExchange, TypeOK, Carried
<1>2. ASSUME NEW err \in Errors, Return(p, err)
      PROVE  TypeOK' /\ Presented'
  <2>1. TypeOK'
    BY <1>1, <1>2, ReturnType DEF TypeOK
  <2>2. Presented'
    BY <1>1, <1>2, ReturnAt DEF Presented
  <2>3. QED
    BY <2>1, <2>2
<1>3. ASSUME n # Blank, nonce' = [nonce EXCEPT ![p] = n],
             now' = [now EXCEPT ![p] = clock], Goto(p, "consume"),
             reply' = [reply EXCEPT ![p] = "nil"], UNCHANGED record
      PROVE  TypeOK' /\ Presented'
  <2>1. TypeOK'
    BY <1>1, <1>3, Labels DEF TypeOK, Goto
  <2>2. Presented'
    BY <1>1, <1>3 DEF TypeOK, Presented, Goto
  <2>3. QED
    BY <2>1, <2>2
<1>4. QED
  BY <1>2, <1>3, Labels DEF BeginExchange

LEMMA ConsumedType ==
  ASSUME TypeOK, NEW p \in Requests, NEW n, Found(n),
         NEW a \in Requests \cup {Burned}, Consumed(p, n, a)
  PROVE  /\ records' \in [Nonces -> Record \cup {NoRecord}]
         /\ decided' \in [Nonces -> Requests \cup {Undecided, Burned}]
<1>1. n \in Nonces /\ records[n] \in Record
  BY DEF Found, TypeOK
<1>2. Marked(records[n]) \in Record
  BY <1>1, RecordType
<1>3. QED
  BY <1>1, <1>2 DEF Consumed, TypeOK

LEMMA ConsumeType ==
  ASSUME TypeOK, Presented, NEW p \in Requests, Consume(p)
  PROVE  TypeOK' /\ Presented'
<1> DEFINE n == nonce[p]
           r == records[n]
<1>1. /\ UNCHANGED <<clock, delivered, logins, offered>>
      /\ pc[p] = "consume" /\ n \in Carried
      /\ Decision(p, now[p], r) \in Requests \cup {Burned}
  BY DEF Consume, TypeOK, Decision
<1>2. /\ records' \in [Nonces -> Record \cup {NoRecord}]
      /\ decided' \in [Nonces -> Requests \cup {Undecided, Burned}]
      /\ lost' \in SUBSET Carried
  <2>1. \/ UNCHANGED <<records, decided>>
        \/ \E a \in Requests \cup {Burned} : Found(n) /\ Consumed(p, n, a)
    BY <1>1 DEF Consume
  <2>2. lost' = lost \/ lost' = lost \cup {n}
    BY DEF Consume
  <2>3. lost' \in SUBSET Carried
    BY <1>1, <2>2 DEF TypeOK
  <2>4. QED
    BY <2>1, <2>3, ConsumedType DEF TypeOK
<1>3. ASSUME NEW err \in Errors, Return(p, err)
      PROVE  TypeOK' /\ Presented'
  <2>1. TypeOK'
    BY <1>1, <1>2, <1>3, ReturnType DEF TypeOK
  <2>2. Presented'
    BY <1>1, <1>3, ReturnAt DEF Presented
  <2>3. QED
    BY <2>1, <2>2
<1>4. ASSUME Found(n), record' = [record EXCEPT ![p] = r], Goto(p, "login"),
             UNCHANGED <<nonce, now, reply>>
      PROVE  TypeOK' /\ Presented'
  <2>1. n \in Nonces /\ r \in Record
    BY <1>4 DEF Found, TypeOK
  <2>2. TypeOK'
    BY <1>1, <1>2, <1>4, <2>1, Labels DEF TypeOK, Goto
  <2>3. Presented'
    BY <1>1, <1>4, <2>1 DEF TypeOK, Presented, Goto
  <2>4. QED
    BY <2>2, <2>3
<1>5. QED
  BY <1>3, <1>4, Labels DEF Consume

LEMMA LoginType ==
  ASSUME TypeOK, Presented, NEW p \in Requests, Login(p)
  PROVE  TypeOK' /\ Presented'
<1>1. /\ UNCHANGED <<clock, records, delivered, offered, decided>>
      /\ nonce[p] \in Nonces /\ record[p] \in Record
  BY DEF Login, Presented
<1>2. lost' \in SUBSET Carried
  BY <1>1 DEF Login, TypeOK, Carried
<1>3. [nonce |-> nonce[p], app |-> p, offer |-> Bound(record[p])] \in Grant
  BY <1>1, RecordType DEF Grant
<1>4. logins' \in Seq(Grant)
  <2> DEFINE g == [nonce |-> nonce[p], app |-> p, offer |-> Bound(record[p])]
  <2>1. logins' = Append(logins, g) \/ logins' = logins
    BY DEF Login, Granted
  <2>2. logins \in Seq(Grant)
    BY DEF TypeOK
  <2>3. g \in Grant
    BY <1>3
  <2> HIDE DEF g
  <2>4. QED
    BY <2>1, <2>2, <2>3
<1>5. \E e \in Errors : Return(p, e)
  BY Labels DEF Login
<1>6. TypeOK'
  BY <1>1, <1>2, <1>4, <1>5, ReturnType DEF TypeOK
<1>7. Presented'
  BY <1>1, <1>5, ReturnAt DEF Presented
<1>8. QED
  BY <1>6, <1>7

LEMMA CrashType ==
  ASSUME TypeOK, Presented, NEW p \in Requests, Crash(p)
  PROVE  TypeOK' /\ Presented'
<1>1. /\ UNCHANGED <<clock, records, delivered, logins, offered, decided>>
      /\ lost' \in SUBSET Carried
  BY DEF Crash, TypeOK
<1>2. Return(p, "crashed") /\ "crashed" \in Errors
  BY Labels DEF Crash
<1>3. TypeOK'
  BY <1>1, <1>2, ReturnType DEF TypeOK
<1>4. Presented'
  BY <1>1, <1>2, ReturnAt DEF Presented
<1>5. QED
  BY <1>3, <1>4

LEMMA TypeInit == Init => TypeOK /\ Presented
<1> SUFFICES ASSUME Init PROVE TypeOK /\ Presented
  OBVIOUS
<1>1. TypeOK
  BY Labels DEF Init, TypeOK, Carried
<1>2. Presented
  BY DEF Init, Presented
<1>3. QED
  BY <1>1, <1>2

LEMMA TypeNext == TypeOK /\ Presented /\ [Next]_vars => TypeOK' /\ Presented'
<1> SUFFICES ASSUME TypeOK, Presented, [Next]_vars PROVE TypeOK' /\ Presented'
  OBVIOUS
<1>1. CASE Tick
  BY <1>1 DEF Tick, TypeOK, Presented
<1>2. ASSUME NEW n \in Nonces, Drop(n) PROVE TypeOK' /\ Presented'
  BY <1>2 DEF Drop, TypeOK, Presented
<1>3. CASE UNCHANGED vars
  BY <1>3 DEF vars, TypeOK, Presented
<1>4. QED
  BY <1>1, <1>2, <1>3, BeginMintType, BeginExchangeType, PutType, ConsumeType,
     LoginType, CrashType DEF Next

(***************************************************************************)
(* Every variable keeps its type in every behaviour.                       *)
(***************************************************************************)
THEOREM TypeCorrect == Spec => []TypeOK
<1>1. Spec => [](TypeOK /\ Presented)
  BY TypeInit, TypeNext, PTL DEF Spec
<1>2. QED
  BY <1>1, PTL
-----------------------------------------------------------------------------
(***************************************************************************)
(* The inductive invariant.  The store and the history of what was offered *)
(* and decided agree (Stored, Unoffered); nonces about to be stored are    *)
(* fresh and apart (Drawing); who is about to log in is the one the nonce  *)
(* was decided for, and has not yet (Redeeming, Granting); a delivered     *)
(* nonce is stored until it expires (Kept).                                *)
(***************************************************************************)
Stored ==
  \A n \in Nonces : records[n] # NoRecord =>
    /\ offered[n] # NoRecord
    /\ Bound(records[n]) = Bound(offered[n])
    /\ records[n].exp = offered[n].exp
    /\ records[n].consumed <=> decided[n] # Undecided

Unoffered ==
  \A n \in Nonces : decided[n] # Undecided => offered[n] # NoRecord

Drawing ==
  \A p \in Requests : pc[p] = "put" =>
    /\ offered[nonce[p]] = NoRecord
    /\ ~record[p].consumed
    /\ \A q \in Requests \ {p} : pc[q] = "put" => nonce[q] # nonce[p]

Redeeming ==
  \A p \in Requests : pc[p] = "login" =>
    /\ decided[nonce[p]] = p
    /\ Bound(record[p]) = Bound(offered[nonce[p]])
    /\ now[p] < offered[nonce[p]].exp
    /\ \A i \in DOMAIN logins : logins[i].nonce # nonce[p]

Granting ==
  /\ \A i \in DOMAIN logins : decided[logins[i].nonce] = logins[i].app
  /\ OneLoginPerNonce

Kept ==
  \A n \in delivered :
    /\ offered[n] # NoRecord
    /\ records[n] = NoRecord => offered[n].exp <= clock

Dated ==
  \A p \in Requests : pc[p] = "consume" => now[p] <= clock

Inv ==
  /\ TypeOK /\ Presented
  /\ Stored /\ Unoffered /\ Drawing /\ Redeeming /\ Granting /\ Kept /\ Dated
  /\ NothingIsWasted

\* What the step lemmas below have to show.
Parts ==
  Stored /\ Unoffered /\ Drawing /\ Redeeming /\ Granting /\ Kept /\ Dated
  /\ NothingIsWasted

\* Granted logins are of nonces, for requests.
LEMMA LoginsType ==
  ASSUME TypeOK
  PROVE  /\ logins \in Seq(Grant)
         /\ \A i \in DOMAIN logins :
              logins[i].nonce \in Nonces /\ logins[i].app \in Requests
<1>1. logins \in Seq(Grant)
  BY DEF TypeOK
<1>2. \A i \in DOMAIN logins : logins[i] \in Grant
  BY <1>1
<1>3. QED
  BY <1>1, <1>2 DEF Grant

\* A request that decides, moves or grants nothing, and returns.
LEMMA GiveUpInv ==
  ASSUME Inv, NEW p \in Requests, NEW e, Return(p, e),
         UNCHANGED <<clock, records, delivered, logins, offered, decided>>,
         lost \subseteq lost',
         pc[p] = "login" => nonce[p] \in lost'
  PROVE  Parts'
<1>1. /\ pc'[p] = "idle"
      /\ \A q \in Requests \ {p} :
           /\ pc'[q] = pc[q] /\ nonce'[q] = nonce[q] /\ now'[q] = now[q]
           /\ record'[q] = record[q]
  BY ReturnAt DEF Inv
<1>2. Stored' /\ Unoffered' /\ Kept' /\ Granting'
  BY DEF Inv, Stored, Unoffered, Kept, Granting, OneLoginPerNonce
<1>3. Drawing' /\ Redeeming' /\ Dated'
  BY <1>1 DEF Inv, Drawing, Redeeming, Dated
<1>4. NothingIsWasted'
  <2> SUFFICES ASSUME NEW n \in Nonces \ lost'
               PROVE  NothingIsWasted!(n)'
    BY DEF NothingIsWasted
  <2>1. NothingIsWasted!(n)
    BY DEF Inv, NothingIsWasted
  <2>2. QED
    BY <1>1, <2>1 DEF Inv, TypeOK
<1>5. QED
  BY <1>2, <1>3, <1>4 DEF Parts

LEMMA BeginMintInv ==
  ASSUME Inv, NEW p \in Requests, NEW s \in Subjects \cup {NoSubject},
         NEW e \in Emails \cup {NoEmail}, BeginMint(p, s, e)
  PROVE  Parts'
<1>1. /\ UNCHANGED <<clock, records, delivered, logins, offered, decided, lost>>
      /\ pc[p] = "idle"
  BY DEF BeginMint
<1>2. ASSUME NEW err, Return(p, err) PROVE Parts'
  BY <1>1, <1>2, GiveUpInv
<1>3. ASSUME NEW n \in Nonces \ Drawn, nonce' = [nonce EXCEPT ![p] = n],
             record' = [record EXCEPT ![p] =
                          [subject |-> s, email |-> e, exp |-> clock + Lifetime,
                           consumed |-> FALSE]],
             Goto(p, "put"), UNCHANGED now
      PROVE  Parts'
  <2>1. /\ pc'[p] = "put" /\ nonce'[p] = n /\ ~record'[p].consumed
        /\ \A q \in Requests \ {p} :
             /\ pc'[q] = pc[q] /\ nonce'[q] = nonce[q] /\ now'[q] = now[q]
             /\ record'[q] = record[q]
    BY <1>3 DEF Inv, TypeOK, Goto
  <2>2. offered[n] = NoRecord /\ \A q \in Requests : nonce[q] # n
    BY <1>3 DEF Drawn
  <2>3. Stored' /\ Unoffered' /\ Kept' /\ Granting'
    BY <1>1 DEF Inv, Stored, Unoffered, Kept, Granting, OneLoginPerNonce
  <2>4. Drawing'
    BY <1>1, <2>1, <2>2 DEF Inv, Drawing
  <2>5. Redeeming' /\ Dated'
    BY <1>1, <2>1 DEF Inv, Redeeming, Dated
  <2>6. NothingIsWasted'
    <3> SUFFICES ASSUME NEW m \in Nonces \ lost'
                 PROVE  NothingIsWasted!(m)'
      BY DEF NothingIsWasted
    <3>1. NothingIsWasted!(m)
      BY <1>1 DEF Inv, NothingIsWasted
    <3>2. QED
      BY <1>1, <2>1, <3>1 DEF Inv, TypeOK
  <2>7. QED
    BY <2>3, <2>4, <2>5, <2>6 DEF Parts
<1>4. QED
  BY <1>2, <1>3 DEF BeginMint

LEMMA PutInv ==
  ASSUME Inv, NEW p \in Requests, Put(p)
  PROVE  Parts'
<1> DEFINE n == nonce[p]
<1>1. /\ UNCHANGED <<clock, logins, decided, lost>>
      /\ pc[p] = "put" /\ n \in Nonces /\ record[p] \in Record
      /\ offered[n] = NoRecord /\ records[n] = NoRecord
      /\ decided[n] = Undecided /\ n \notin delivered
      /\ ~record[p].consumed
  BY DEF Put, Inv, Presented, Drawing, Stored, Unoffered, Kept
<1>2. \E e : Return(p, e)
  BY DEF Put
<1>3. /\ pc'[p] = "idle"
      /\ \A q \in Requests \ {p} :
           /\ pc'[q] = pc[q] /\ nonce'[q] = nonce[q] /\ now'[q] = now[q]
           /\ record'[q] = record[q]
  BY <1>2, ReturnAt DEF Inv
<1>4. \/ /\ PutApplied(p)
         /\ delivered' \subseteq delivered \cup {n}
      \/ UNCHANGED <<records, offered, delivered>>
  BY DEF Put
<1>5. CASE UNCHANGED <<records, offered, delivered>>
  <2>1. UNCHANGED <<clock, records, delivered, logins, offered, decided>>
    BY <1>1, <1>5
  <2>2. QED
    BY <1>1, <1>2, <2>1, GiveUpInv
<1>6. CASE PutApplied(p) /\ delivered' \subseteq delivered \cup {n}
  <2>1. /\ records'[n] = record[p] /\ offered'[n] = record[p]
        /\ record[p] # NoRecord
        /\ \A m \in Nonces \ {n} :
             records'[m] = records[m] /\ offered'[m] = offered[m]
    <3>1. record[p] # NoRecord
      BY <1>1, ConstantsAssumption
    <3>2. records \in [Nonces -> Record \cup {NoRecord}]
          /\ offered \in [Nonces -> Record \cup {NoRecord}]
      BY DEF Inv, TypeOK
    <3>3. QED
      BY <1>1, <1>6, <3>1, <3>2 DEF PutApplied
  <2>2. Stored' /\ Unoffered'
    BY <1>1, <2>1 DEF Inv, Stored, Unoffered
  <2>3. Drawing'
    <3> SUFFICES ASSUME NEW q \in Requests, pc'[q] = "put"
                 PROVE  Drawing!(q)!2'
      BY DEF Drawing
    <3>1. q # p /\ pc[q] = "put" /\ nonce[q] # n /\ nonce[q] \in Nonces
      BY <1>1, <1>3 DEF Inv, Drawing, Presented
    <3>2. QED
      BY <1>3, <2>1, <3>1 DEF Inv, Drawing
  <2>4. Redeeming'
    <3> SUFFICES ASSUME NEW q \in Requests, pc'[q] = "login"
                 PROVE  Redeeming!(q)!2'
      BY DEF Redeeming
    <3>1. q # p /\ pc[q] = "login" /\ nonce[q] \in Nonces /\ Redeeming!(q)!2
      BY <1>3 DEF Inv, Redeeming, Presented
    <3>2. nonce[q] # n
      BY <1>1, <3>1, ConstantsAssumption
    <3>3. QED
      BY <1>1, <1>3, <2>1, <3>1, <3>2
  <2>5. Granting'
    BY <1>1 DEF Inv, Granting, OneLoginPerNonce
  <2>6. Kept'
    BY <1>1, <1>6, <2>1 DEF Inv, Kept, TypeOK
  <2>7. Dated'
    BY <1>1, <1>3 DEF Inv, Dated
  <2>8. NothingIsWasted'
    <3> SUFFICES ASSUME NEW m \in Nonces \ lost'
                 PROVE  NothingIsWasted!(m)'
      BY DEF NothingIsWasted
    <3>1. NothingIsWasted!(m)
      BY <1>1 DEF Inv, NothingIsWasted
    <3>2. CASE m = n
      BY <1>1, <3>2, ConstantsAssumption
    <3>3. CASE m # n
      BY <1>1, <1>3, <2>1, <3>1, <3>3
    <3>4. QED
      BY <3>2, <3>3
  <2>9. QED
    BY <2>2, <2>3, <2>4, <2>5, <2>6, <2>7, <2>8 DEF Parts
<1>7. QED
  BY <1>4, <1>5, <1>6

LEMMA BeginExchangeInv ==
  ASSUME Inv, NEW p \in Requests,
         NEW n \in delivered \cup {Blank, Garbled}, BeginExchange(p, n)
  PROVE  Parts'
<1>1. /\ UNCHANGED <<clock, records, delivered, logins, offered, decided, lost>>
      /\ pc[p] = "idle"
  BY DEF BeginExchange
<1>2. ASSUME NEW err, Return(p, err) PROVE Parts'
  BY <1>1, <1>2, GiveUpInv
<1>3. ASSUME nonce' = [nonce EXCEPT ![p] = n], now' = [now EXCEPT ![p] = clock],
             Goto(p, "consume"), UNCHANGED record
      PROVE  Parts'
  <2>1. /\ pc'[p] = "consume" /\ now'[p] = clock
        /\ \A q \in Requests \ {p} :
             /\ pc'[q] = pc[q] /\ nonce'[q] = nonce[q] /\ now'[q] = now[q]
             /\ record'[q] = record[q]
    BY <1>3 DEF Inv, TypeOK, Goto
  <2>2. Stored' /\ Unoffered' /\ Kept' /\ Granting'
    BY <1>1 DEF Inv, Stored, Unoffered, Kept, Granting, OneLoginPerNonce
  <2>3. Drawing' /\ Redeeming'
    BY <1>1, <2>1 DEF Inv, Drawing, Redeeming
  <2>4. Dated'
    BY <1>1, <2>1 DEF Inv, Dated, TypeOK
  <2>5. NothingIsWasted'
    <3> SUFFICES ASSUME NEW m \in Nonces \ lost'
                 PROVE  NothingIsWasted!(m)'
      BY DEF NothingIsWasted
    <3>1. NothingIsWasted!(m)
      BY <1>1 DEF Inv, NothingIsWasted
    <3>2. QED
      BY <1>1, <2>1, <3>1 DEF Inv, TypeOK
  <2>6. QED
    BY <2>2, <2>3, <2>4, <2>5 DEF Parts
<1>4. QED
  BY <1>2, <1>3 DEF BeginExchange

\* What a Consume that found a record leaves behind.
LEMMA ConsumedAt ==
  ASSUME Inv, NEW p \in Requests, NEW n, Found(n),
         NEW a \in Requests \cup {Burned}, Consumed(p, n, a)
  PROVE  /\ n \in Nonces /\ records[n] \in Record
         /\ records'[n] = Marked(records[n])
         /\ records[n].consumed = (decided[n] # Undecided)
         /\ decided[n] # Undecided => decided'[n] = decided[n]
         /\ decided[n] = Undecided => decided'[n] = a
         /\ a # Undecided
         /\ \A m \in Nonces \ {n} :
              records'[m] = records[m] /\ decided'[m] = decided[m]
<1>1. n \in Nonces /\ records[n] \in Record /\ records[n] # NoRecord
  BY DEF Found, Inv, TypeOK
<1>2. records[n].consumed \in BOOLEAN
  BY <1>1, RecordType
<1>3. records[n].consumed <=> decided[n] # Undecided
  BY <1>1 DEF Inv, Stored
<1>4. /\ records'[n] = Marked(records[n])
      /\ decided'[n] = IF records[n].consumed THEN decided[n] ELSE a
      /\ \A m \in Nonces \ {n} :
           records'[m] = records[m] /\ decided'[m] = decided[m]
  BY <1>1 DEF Consumed, Inv, TypeOK
<1>5. a # Undecided
  BY ConstantsAssumption
<1>6. QED
  BY <1>1, <1>2, <1>3, <1>4, <1>5

\* Deciding a nonce for whoever comes first undoes nothing.
LEMMA DecideInv ==
  ASSUME Inv, NEW p \in Requests, pc[p] = "consume",
         NEW n, Found(n), NEW a \in Requests \cup {Burned}, Consumed(p, n, a),
         UNCHANGED <<clock, delivered, logins, offered>>,
         \A q \in Requests \ {p} :
           /\ pc'[q] = pc[q] /\ nonce'[q] = nonce[q] /\ now'[q] = now[q]
           /\ record'[q] = record[q],
         pc'[p] \in {"idle", "login"}
  PROVE  /\ Stored' /\ Unoffered' /\ Drawing' /\ Granting' /\ Kept' /\ Dated'
         /\ \A q \in Requests \ {p} : Redeeming!(q)'
         /\ decided[n] = Undecided =>
              \A i \in DOMAIN logins : logins[i].nonce # n
<1>1. /\ n \in Nonces /\ records[n] \in Record
      /\ records'[n] = Marked(records[n])
      /\ records[n].consumed = (decided[n] # Undecided)
      /\ decided[n] # Undecided => decided'[n] = decided[n]
      /\ decided[n] = Undecided => decided'[n] = a
      /\ a # Undecided
      /\ \A m \in Nonces \ {n} :
           records'[m] = records[m] /\ decided'[m] = decided[m]
  BY ConsumedAt
<1>2. /\ Marked(records[n]).consumed = TRUE
      /\ Marked(records[n]).exp = records[n].exp
      /\ Marked(records[n]) # NoRecord /\ records[n] # NoRecord
      /\ Bound(Marked(records[n])) = Bound(records[n])
  BY <1>1, RecordType DEF Bound
<1>3. Stored'
  <2> SUFFICES ASSUME NEW m \in Nonces, records'[m] # NoRecord
               PROVE  Stored!(m)!2'
    BY DEF Stored
  <2>1. CASE m = n
    BY <1>1, <1>2, <2>1 DEF Inv, Stored
  <2>2. CASE m # n
    BY <1>1, <2>2 DEF Inv, Stored
  <2>3. QED
    BY <2>1, <2>2
<1>4. Unoffered'
  BY <1>1, <1>2 DEF Inv, Stored, Unoffered
<1>5. Drawing'
  BY DEF Inv, Drawing
<1>6. \A i \in DOMAIN logins :
        /\ logins[i].nonce \in Nonces /\ logins[i].app \in Requests
        /\ logins[i].app # Undecided
        /\ decided[logins[i].nonce] = logins[i].app
  BY LoginsType, ConstantsAssumption DEF Inv, Granting
<1>7. Granting'
  <2>1. \A i \in DOMAIN logins : decided'[logins[i].nonce] = logins[i].app
    BY <1>1, <1>6
  <2>2. QED
    BY <2>1 DEF Inv, Granting, OneLoginPerNonce
<1>8. Kept'
  <2> SUFFICES ASSUME NEW m \in delivered PROVE Kept!(m)'
    BY DEF Kept
  <2>1. Kept!(m) /\ m \in Nonces
    BY DEF Inv, Kept, TypeOK
  <2>2. CASE m = n
    BY <1>1, <1>2, <2>1, <2>2
  <2>3. CASE m # n
    BY <1>1, <2>1, <2>3
  <2>4. QED
    BY <2>2, <2>3
<1>9. Dated'
  BY DEF Inv, Dated
<1>10. ASSUME NEW q \in Requests \ {p} PROVE Redeeming!(q)'
  <2> SUFFICES ASSUME pc'[q] = "login" PROVE Redeeming!(q)!2'
    OBVIOUS
  <2>1. pc[q] = "login" /\ Redeeming!(q)!2 /\ nonce[q] \in Nonces
    BY DEF Inv, Redeeming, Presented
  <2>2. q # Undecided
    BY ConstantsAssumption
  <2>3. decided'[nonce[q]] = q
    BY <1>1, <2>1, <2>2
  <2>4. QED
    BY <2>1, <2>3
<1>11. decided[n] = Undecided => \A i \in DOMAIN logins : logins[i].nonce # n
  BY <1>6
<1>12. QED
  BY <1>3, <1>4, <1>5, <1>7, <1>8, <1>9, <1>10, <1>11

LEMMA ConsumeInv ==
  ASSUME Inv, NEW p \in Requests, Consume(p)
  PROVE  Parts'
<1> DEFINE n == nonce[p]
           r == records[n]
           a == Decision(p, now[p], r)
<1>1. /\ UNCHANGED <<clock, delivered, logins, offered>>
      /\ pc[p] = "consume" /\ lost \subseteq lost'
      /\ now[p] \in Nat /\ clock \in Nat /\ now[p] <= clock
      /\ a \in Requests \cup {Burned}
  BY DEF Consume, Inv, TypeOK, Dated, Decision
<1>2. ASSUME NEW err, Return(p, err), UNCHANGED <<records, decided>>
      PROVE  Parts'
  BY <1>1, <1>2, GiveUpInv
\* The store marked the record, and its answer was lost.
<1>3. ASSUME Found(n), Consumed(p, n, Burned), lost' = lost \cup {n},
             Return(p, "provider-unavailable")
      PROVE  Parts'
  <2>1. /\ pc'[p] = "idle"
        /\ \A q \in Requests \ {p} :
             /\ pc'[q] = pc[q] /\ nonce'[q] = nonce[q] /\ now'[q] = now[q]
             /\ record'[q] = record[q]
    BY <1>3, ReturnAt DEF Inv
  <2>2. /\ Stored' /\ Unoffered' /\ Drawing' /\ Granting' /\ Kept' /\ Dated'
        /\ \A q \in Requests \ {p} : Redeeming!(q)'
    BY <1>1, <1>3, <2>1, DecideInv
  <2>3. Redeeming'
    BY <2>1, <2>2 DEF Redeeming
  <2>4. NothingIsWasted'
    <3> SUFFICES ASSUME NEW m \in Nonces \ lost'
                 PROVE  NothingIsWasted!(m)'
      BY DEF NothingIsWasted
    <3>1. NothingIsWasted!(m) /\ m # n
      BY <1>1, <1>3 DEF Inv, NothingIsWasted
    <3>2. decided'[m] = decided[m]
      BY <1>3, <3>1, ConsumedAt
    <3>3. QED
      BY <1>1, <2>1, <3>1, <3>2 DEF Inv, TypeOK
  <2>5. QED
    BY <2>2, <2>3, <2>4 DEF Parts
\* The store marked the record and answered.
<1>4. ASSUME Found(n), Consumed(p, n, a), UNCHANGED lost,
             \/ /\ \E err : Return(p, err)
                /\ r.consumed \/ ~InTime(now[p], r)
             \/ /\ ~r.consumed /\ InTime(now[p], r)
                /\ record' = [record EXCEPT ![p] = r]
                /\ Goto(p, "login")
                /\ UNCHANGED <<nonce, now, reply>>
      PROVE  Parts'
  <2>1. /\ \A q \in Requests \ {p} :
             /\ pc'[q] = pc[q] /\ nonce'[q] = nonce[q] /\ now'[q] = now[q]
             /\ record'[q] = record[q]
        /\ \/ /\ pc'[p] = "idle"
              /\ r.consumed \/ ~InTime(now[p], r)
           \/ /\ pc'[p] = "login" /\ ~r.consumed /\ InTime(now[p], r)
              /\ record'[p] = r /\ nonce'[p] = n /\ now'[p] = now[p]
    <3>1. CASE \E err : Return(p, err) /\ (r.consumed \/ ~InTime(now[p], r))
      BY <3>1, ReturnAt DEF Inv
    <3>2. CASE /\ ~r.consumed /\ InTime(now[p], r)
               /\ record' = [record EXCEPT ![p] = r]
               /\ Goto(p, "login")
               /\ UNCHANGED <<nonce, now, reply>>
      BY <3>2 DEF Inv, TypeOK, Goto
    <3>3. QED
      BY <1>4, <3>1, <3>2
  <2>2. /\ Stored' /\ Unoffered' /\ Drawing' /\ Granting' /\ Kept' /\ Dated'
        /\ \A q \in Requests \ {p} : Redeeming!(q)'
        /\ decided[n] = Undecided => \A i \in DOMAIN logins : logins[i].nonce # n
    BY <1>1, <1>4, <2>1, DecideInv
  <2>3. /\ n \in Nonces /\ r \in Record /\ r # NoRecord
        /\ r.consumed = (decided[n] # Undecided)
        /\ decided[n] # Undecided => decided'[n] = decided[n]
        /\ decided[n] = Undecided => decided'[n] = a
        /\ \A m \in Nonces \ {n} : decided'[m] = decided[m]
        /\ Bound(r) = Bound(offered[n]) /\ r.exp = offered[n].exp
        /\ r.exp \in Nat
    BY <1>1, <1>4, ConsumedAt, RecordType DEF Inv, Stored, Found
  <2>4. Redeeming'
    <3>1. Redeeming!(p)'
      BY <1>1, <2>1, <2>2, <2>3 DEF Decision, InTime
    <3>2. QED
      BY <2>2, <3>1 DEF Redeeming
  <2>5. NothingIsWasted'
    <3> SUFFICES ASSUME NEW m \in Nonces \ lost'
                 PROVE  NothingIsWasted!(m)'
      BY DEF NothingIsWasted
    <3>1. NothingIsWasted!(m)
      BY <1>4 DEF Inv, NothingIsWasted
    <3>2. CASE decided'[m] = decided[m]
      BY <1>1, <2>1, <3>1, <3>2 DEF Inv, TypeOK
    <3>3. CASE m = n /\ decided[n] = Undecided
      <4>1. decided'[n] = a /\ ~r.consumed
        BY <2>3, <3>3
      <4>2. CASE InTime(now[p], r)
        <5>1. decided'[n] = p /\ pc'[p] = "login" /\ nonce'[p] = n
          BY <2>1, <4>1, <4>2 DEF Decision
        <5>2. p # Burned
          BY ConstantsAssumption
        <5>3. QED
          BY <3>3, <5>1, <5>2
      <4>3. CASE ~InTime(now[p], r)
        <5>1. decided'[n] = Burned
          BY <4>1, <4>3 DEF Decision
        <5>2. Burned \notin Requests
          BY ConstantsAssumption
        <5>3. offered'[n].exp <= clock'
          BY <1>1, <2>3, <4>3 DEF InTime
        <5>4. QED
          BY <3>3, <5>1, <5>2, <5>3
      <4>4. QED
        BY <4>2, <4>3
    <3>4. QED
      BY <2>3, <3>2, <3>3
  <2>6. QED
    BY <2>2, <2>4, <2>5 DEF Parts
<1>5. QED
  BY <1>2, <1>3, <1>4 DEF Consume

LEMMA LoginInv ==
  ASSUME Inv, NEW p \in Requests, Login(p)
  PROVE  Parts'
<1> DEFINE n == nonce[p]
           g == [nonce |-> n, app |-> p, offer |-> Bound(record[p])]
<1>1. /\ UNCHANGED <<clock, records, delivered, offered, decided>>
      /\ pc[p] = "login" /\ n \in Nonces /\ record[p] \in Record
      /\ decided[n] = p
      /\ \A i \in DOMAIN logins : logins[i].nonce # n
  BY DEF Login, Inv, Presented, Redeeming
<1>2. \E e : Return(p, e)
  BY DEF Login
<1>3. /\ pc'[p] = "idle"
      /\ \A q \in Requests \ {p} :
           /\ pc'[q] = pc[q] /\ nonce'[q] = nonce[q] /\ now'[q] = now[q]
           /\ record'[q] = record[q]
  BY <1>2, ReturnAt DEF Inv
<1>4. CASE UNCHANGED logins
  <2>1. lost' = lost \cup {n}
    <3>1. g \in Grant /\ logins \in Seq(Grant)
      BY <1>1, RecordType DEF Inv, TypeOK, Grant
    <3>2. Append(logins, g) # logins
      <4> HIDE DEF g
      <4>1. Len(Append(logins, g)) = Len(logins) + 1 /\ Len(logins) \in Nat
        BY <3>1
      <4>2. QED
        BY <4>1
    <3>3. ~Granted(p)
      BY <1>4, <3>2 DEF Granted
    <3>4. QED
      BY <3>3 DEF Login
  <2>2. QED
    BY <1>1, <1>2, <1>4, <2>1, GiveUpInv
<1>5. CASE logins' = Append(logins, g)
  <2>1. g \in Grant /\ logins \in Seq(Grant)
    BY <1>1, RecordType DEF Inv, TypeOK, Grant
  <2>2. g.nonce = n /\ g.app = p
    OBVIOUS
  <2> HIDE DEF g
  <2>3. /\ Len(logins) \in Nat /\ DOMAIN logins = 1..Len(logins)
        /\ DOMAIN logins' = 1..(Len(logins) + 1)
        /\ \A i \in DOMAIN logins : logins'[i] = logins[i]
        /\ logins'[Len(logins) + 1] = g
    BY <1>5, <2>1
  <2>4. \A i \in DOMAIN logins' : i \in DOMAIN logins \/ logins'[i] = g
    BY <2>3
  <2>5. Stored' /\ Unoffered' /\ Kept'
    BY <1>1 DEF Inv, Stored, Unoffered, Kept
  <2>6. Drawing' /\ Dated'
    BY <1>1, <1>3 DEF Inv, Drawing, Dated
  <2>7. Redeeming'
    <3> SUFFICES ASSUME NEW q \in Requests, pc'[q] = "login"
                 PROVE  Redeeming!(q)!2'
      BY DEF Redeeming
    <3>1. q # p /\ pc[q] = "login" /\ Redeeming!(q)!2
      BY <1>3 DEF Inv, Redeeming
    <3>2. nonce[q] # n
      BY <1>1, <3>1
    <3>3. \A i \in DOMAIN logins' : logins'[i].nonce # nonce[q]
      BY <2>2, <2>3, <2>4, <3>1, <3>2
    <3>4. QED
      BY <1>1, <1>3, <3>1, <3>3
  <2>8. Granting'
    <3>1. \A i \in DOMAIN logins' : decided'[logins'[i].nonce] = logins'[i].app
      BY <1>1, <2>2, <2>3, <2>4 DEF Inv, Granting
    <3>2. OneLoginPerNonce'
      <4> SUFFICES ASSUME NEW i \in DOMAIN logins', NEW j \in DOMAIN logins',
                          logins'[i].nonce = logins'[j].nonce
                   PROVE  i = j
        BY DEF OneLoginPerNonce
      <4>1. CASE i \in DOMAIN logins /\ j \in DOMAIN logins
        BY <2>3, <4>1 DEF Inv, Granting, OneLoginPerNonce
      <4>2. CASE i \notin DOMAIN logins /\ j \notin DOMAIN logins
        BY <2>3, <4>2
      <4>3. CASE (i \in DOMAIN logins) # (j \in DOMAIN logins)
        BY <1>1, <2>2, <2>3, <2>4, <4>3
      <4>4. QED
        BY <4>1, <4>2, <4>3
    <3>3. QED
      BY <3>1, <3>2 DEF Granting
  <2>9. NothingIsWasted'
    <3> SUFFICES ASSUME NEW m \in Nonces \ lost'
                 PROVE  NothingIsWasted!(m)'
      BY DEF NothingIsWasted
    <3>1. NothingIsWasted!(m)
      BY DEF Inv, NothingIsWasted, Login
    <3>2. CASE m = n
      <4>1. Len(logins) + 1 \in DOMAIN logins'
            /\ logins'[Len(logins) + 1].nonce = n
        BY <2>2, <2>3
      <4>2. p # Burned
        BY ConstantsAssumption
      <4>3. QED
        BY <1>1, <3>2, <4>1, <4>2
    <3>3. CASE m # n
      <4>1. (\E i \in DOMAIN logins : logins[i].nonce = m)
               => \E i \in DOMAIN logins' : logins'[i].nonce = m
        BY <2>3
      <4>2. decided[m] = p => nonce[decided[m]] # m
        BY <3>3
      <4>3. QED
        BY <1>1, <1>3, <3>1, <4>1, <4>2
    <3>4. QED
      BY <3>2, <3>3
  <2>10. QED
    BY <2>5, <2>6, <2>7, <2>8, <2>9 DEF Parts
<1>6. QED
  BY <1>4, <1>5 DEF Login, Granted

LEMMA CrashInv ==
  ASSUME Inv, NEW p \in Requests, Crash(p)
  PROVE  Parts'
BY GiveUpInv DEF Crash

LEMMA TickInv ==
  ASSUME Inv, Tick
  PROVE  Parts'
<1>1. /\ clock \in Nat /\ clock' = clock + 1
      /\ \A n \in Nonces : offered[n] # NoRecord => offered[n].exp \in Nat
      /\ \A p \in Requests : now[p] \in Nat
  BY RecordType DEF Tick, Inv, TypeOK
<1>2. /\ UNCHANGED <<records, pc, nonce, now, record, reply, delivered, logins,
                     offered, decided, lost>>
      /\ \A n \in delivered : n \in Nonces
  BY DEF Tick, Inv, TypeOK
<1>3. Stored' /\ Unoffered' /\ Drawing' /\ Redeeming' /\ Granting'
  BY <1>2 DEF Inv, Stored, Unoffered, Drawing, Redeeming, Granting, OneLoginPerNonce
<1>4. Kept' /\ Dated'
  BY <1>1, <1>2 DEF Inv, Kept, Dated
<1>5. NothingIsWasted'
  <2> SUFFICES ASSUME NEW n \in Nonces \ lost'
               PROVE  NothingIsWasted!(n)'
    BY DEF NothingIsWasted
  <2>1. NothingIsWasted!(n)
    BY <1>2 DEF Inv, NothingIsWasted
  <2>2. decided[n] = Burned => offered[n] # NoRecord
    BY ConstantsAssumption DEF Inv, Unoffered
  <2>3. QED
    BY <1>1, <1>2, <2>1, <2>2
<1>6. QED
  BY <1>3, <1>4, <1>5 DEF Parts

LEMMA DropInv ==
  ASSUME Inv, NEW n \in Nonces, Drop(n)
  PROVE  Parts'
<1>1. /\ UNCHANGED <<clock, pc, nonce, now, record, reply, delivered, logins,
                     offered, decided, lost>>
      /\ records'[n] = NoRecord
      /\ \A m \in Nonces \ {n} : records'[m] = records[m]
      /\ offered[n].exp <= clock
  BY DEF Drop, Inv, TypeOK, Stored
<1>2. Stored' /\ Unoffered' /\ Drawing' /\ Redeeming' /\ Granting' /\ Dated'
  BY <1>1 DEF Inv, Stored, Unoffered, Drawing, Redeeming, Granting,
              OneLoginPerNonce, Dated
<1>3. Kept'
  BY <1>1 DEF Inv, Kept, TypeOK
<1>4. NothingIsWasted'
  BY <1>1 DEF Inv, NothingIsWasted
<1>5. QED
  BY <1>2, <1>3, <1>4 DEF Parts

LEMMA InvInit == Init => Inv
<1> SUFFICES ASSUME Init PROVE Inv
  OBVIOUS
<1>1. TypeOK /\ Presented
  BY TypeInit
<1>2. Stored /\ Unoffered /\ Drawing /\ Redeeming /\ Granting /\ Kept /\ Dated
  BY DEF Init, Stored, Unoffered, Drawing, Redeeming, Granting, OneLoginPerNonce,
         Kept, Dated
<1>3. NothingIsWasted
  BY ConstantsAssumption DEF Init, NothingIsWasted
<1>4. QED
  BY <1>1, <1>2, <1>3 DEF Inv

LEMMA InvNext == Inv /\ [Next]_vars => Inv'
<1> SUFFICES ASSUME Inv, [Next]_vars PROVE Inv'
  OBVIOUS
<1>1. TypeOK' /\ Presented'
  BY TypeNext DEF Inv
<1>2. CASE UNCHANGED vars
  <2>1. Stored' /\ Unoffered' /\ Drawing' /\ Redeeming' /\ Granting' /\ Kept'
        /\ Dated'
    BY <1>2 DEF vars, Inv, Stored, Unoffered, Drawing, Redeeming, Granting,
                OneLoginPerNonce, Kept, Dated
  <2>2. NothingIsWasted'
    BY <1>2 DEF vars, Inv, NothingIsWasted
  <2>3. QED
    BY <1>1, <2>1, <2>2 DEF Inv
<1>3. CASE Next
  <2>1. Parts'
    BY <1>3, BeginMintInv, BeginExchangeInv, PutInv, ConsumeInv, LoginInv,
       CrashInv, TickInv, DropInv DEF Next
  <2>2. QED
    BY <1>1, <2>1 DEF Inv, Parts
<1>4. QED
  BY <1>2, <1>3

LEMMA InvHolds == Spec => []Inv
BY InvInit, InvNext, PTL DEF Spec

(***************************************************************************)
(* However many apps present a nonce, and whatever fails, the provider     *)
(* mints at most one one-time token on it (Exchange).                      *)
(***************************************************************************)
THEOREM OneLoginPerNonceHolds == Spec => []OneLoginPerNonce
<1>1. Inv => OneLoginPerNonce
  BY DEF Inv, Granting
<1>2. QED
  BY <1>1, InvHolds, PTL

(***************************************************************************)
(* A nonce nobody failed on logs in the app it was decided for, or had     *)
(* expired (Exchange).                                                     *)
(***************************************************************************)
THEOREM NothingIsWastedHolds == Spec => []NothingIsWasted
<1>1. Inv => NothingIsWasted
  BY DEF Inv
<1>2. QED
  BY <1>1, InvHolds, PTL

(***************************************************************************)
(* No login is minted for a request that started at or after the nonce's   *)
(* expiry, whatever the store kept and however long it took (Exchange).    *)
(***************************************************************************)
THEOREM LateIsRefusedHolds == Spec => LateIsRefused
<1> DEFINE Late == logins' # logins =>
                     LET g == logins'[Len(logins')]
                     IN  now[g.app] < offered[g.nonce].exp
<1>1. ASSUME Inv, NEW p \in Requests, Login(p) PROVE Late
  <2> DEFINE g == [nonce |-> nonce[p], app |-> p, offer |-> Bound(record[p])]
  <2> SUFFICES ASSUME logins' # logins PROVE Late!2
    OBVIOUS
  <2>1. logins' = Append(logins, g)
    BY <1>1 DEF Login, Granted
  <2>2. g \in Grant /\ logins \in Seq(Grant)
    BY <1>1, RecordType DEF Inv, TypeOK, Grant, Login, Presented
  <2>3. g.app = p /\ g.nonce = nonce[p]
    OBVIOUS
  <2>4. logins'[Len(logins')] = g
    <3> HIDE DEF g
    <3>1. QED
      BY <2>1, <2>2
  <2>5. now[p] < offered[nonce[p]].exp
    BY <1>1 DEF Inv, Redeeming, Login
  <2>6. QED
    BY <2>3, <2>4, <2>5
<1>2. ASSUME Inv, [Next]_vars PROVE [Late]_vars
  <2> SUFFICES ASSUME logins' # logins PROVE \E p \in Requests : Login(p)
    BY <1>1, <1>2
  <2>1. QED
    BY <1>2 DEF Next, BeginMint, BeginExchange, Put, Consume, Crash, Tick, Drop, vars
<1>3. QED
  BY <1>2, InvHolds, PTL DEF Spec, LateIsRefused

(***************************************************************************)
(* A nonce that reached a client whole is answered "unknown" only once it  *)
(* has expired: consuming it, or failing on it, never hides it before      *)
(* (Record, Exchange).                                                     *)
(***************************************************************************)
THEOREM UnknownOnlyOnceExpiredHolds == Spec => UnknownOnlyOnceExpired
<1> DEFINE Told(p) ==
             /\ pc[p] # "idle" /\ pc'[p] = "idle"
             /\ reply'[p] = "deferred-token-unknown"
           Fair(p) == nonce[p] = Garbled \/ offered[nonce[p]].exp <= clock
<1>1. ASSUME Inv, NEW p \in Requests, Next, Told(p)
      PROVE  Consume(p)
  <2>1. ASSUME NEW q \in Requests, NEW e, Return(q, e)
        PROVE  q = p /\ e = "deferred-token-unknown"
    BY <1>1, <2>1, ReturnAt DEF Inv
  <2>2. ASSUME NEW q \in Requests, pc[q] = "idle", NEW l, Goto(q, l)
        PROVE  FALSE
    BY <1>1, <2>2 DEF Goto, Inv, TypeOK
  <2>3. ~Tick /\ \A n \in Nonces : ~Drop(n)
    BY <1>1 DEF Tick, Drop
  <2>4. \A q \in Requests, s \in Subjects \cup {NoSubject},
           e \in Emails \cup {NoEmail} : ~BeginMint(q, s, e)
    BY <1>1, <2>1, <2>2 DEF BeginMint
  <2>5. \A q \in Requests, n \in delivered \cup {Blank, Garbled} :
           ~BeginExchange(q, n)
    BY <1>1, <2>1, <2>2 DEF BeginExchange
  <2>6. \A q \in Requests : ~Put(q) /\ ~Login(q) /\ ~Crash(q)
    BY <2>1 DEF Put, Login, Crash, Refusals
  <2>7. PICK q \in Requests : Consume(q)
    BY <1>1, <2>3, <2>4, <2>5, <2>6 DEF Next
  <2>8. q = p
    <3>1. CASE \E e : Return(q, e)
      BY <2>1, <3>1
    <3>2. CASE Goto(q, "login")
      BY <1>1, <3>2 DEF Goto, Inv, TypeOK
    <3>3. QED
      BY <2>7, <3>1, <3>2 DEF Consume
  <2>9. QED
    BY <2>7, <2>8
<1>2. ASSUME Inv, NEW p \in Requests, Consume(p), Told(p) PROVE Fair(p)
  <2>1. ASSUME NEW e, Return(p, e) PROVE e = "deferred-token-unknown"
    BY <1>2, <2>1, ReturnAt DEF Inv
  <2>2. ~Goto(p, "login")
    BY <1>2 DEF Goto, Inv, TypeOK
  <2>3. ~Found(nonce[p])
    BY <1>2, <2>1, <2>2 DEF Consume
  <2>4. nonce[p] \in delivered \cup {Garbled}
    BY <1>2 DEF Inv, Presented, Consume
  <2>5. QED
    BY <1>2, <2>3, <2>4 DEF Inv, Kept, Found, TypeOK
<1>3. ASSUME Inv, [Next]_vars
      PROVE  [\A p \in Requests : Told(p) => Fair(p)]_vars
  BY <1>1, <1>2, <1>3
<1>4. QED
  BY <1>3, InvHolds, PTL DEF Spec, UnknownOnlyOnceExpired
-----------------------------------------------------------------------------
(* The refinement: each step is a step of OneTimeRedemption, or a stutter. *)

LEMMA Stutters ==
  ASSUME UNCHANGED <<logins, offered, decided>>
  PROVE  UNCHANGED Redemption!vars
BY DEF Redemption!vars, OfferOf

\* Recording r under a nonce nobody was offered is offering it.
LEMMA RecordingOffers ==
  ASSUME Inv, NEW n \in Nonces, NEW r \in Record, offered[n] = NoRecord,
         offered' = [offered EXCEPT ![n] = r], UNCHANGED <<logins, decided>>
  PROVE  Redemption!Next
<1> DEFINE o == Bound(r)
<1>1. r # NoRecord /\ o \in Offer
  BY RecordType
<1>2. /\ offered'[n] = r
      /\ \A m \in Nonces \ {n} : offered'[m] = offered[m]
  BY DEF Inv, TypeOK
<1>3. OfferOf(n)' = o
  BY <1>1, <1>2 DEF OfferOf, Bound
<1>4. \A m \in Nonces \ {n} : OfferOf(m)' = OfferOf(m)
  BY <1>2 DEF OfferOf
<1>5. [m \in Nonces |-> OfferOf(m)]'
        = [[m \in Nonces |-> OfferOf(m)] EXCEPT ![n] = o]
  BY <1>3, <1>4
<1>6. [m \in Nonces |-> OfferOf(m)][n] = NoRecord
  BY DEF OfferOf
<1>7. Redemption!Offer(n, o)
  BY <1>5, <1>6 DEF Redemption!Offer
<1>8. QED
  BY <1>1, <1>7 DEF Redemption!Next

\* A Put that is applied offers its nonce.
LEMMA PutOffers ==
  ASSUME Inv, NEW p \in Requests, Put(p)
  PROVE  [Redemption!Next]_(Redemption!vars)
<1>1. /\ UNCHANGED <<logins, decided>>
      /\ nonce[p] \in Nonces /\ record[p] \in Record
      /\ offered[nonce[p]] = NoRecord
  BY DEF Put, Inv, Presented, Drawing
<1>2. CASE UNCHANGED offered
  BY <1>1, <1>2, Stutters
<1>3. CASE PutApplied(p)
  BY <1>1, <1>3, RecordingOffers DEF PutApplied
<1>4. QED
  BY <1>2, <1>3 DEF Put

\* A Consume that finds an undecided nonce decides it.
LEMMA ConsumeDecides ==
  ASSUME Inv, NEW p \in Requests, Consume(p)
  PROVE  [Redemption!Next]_(Redemption!vars)
<1> DEFINE n == nonce[p]
<1>1. UNCHANGED <<logins, offered>>
  BY DEF Consume
<1>2. CASE UNCHANGED decided
  BY <1>1, <1>2, Stutters
<1>3. ASSUME NEW a \in Requests \cup {Burned}, Found(n), Consumed(p, n, a)
      PROVE  [Redemption!Next]_(Redemption!vars)
  <2>1. /\ n \in Nonces
        /\ decided[n] # Undecided => decided' = decided
        /\ decided[n] = Undecided => decided' = [decided EXCEPT ![n] = a]
    BY <1>3, ConsumedAt DEF Consumed, Inv, TypeOK
  <2>2. CASE decided[n] # Undecided
    BY <1>2, <2>1, <2>2
  <2>3. CASE decided[n] = Undecided
    <3>1. offered[n] \in Record /\ offered[n] # NoRecord
      BY <1>3, <2>1 DEF Found, Inv, Stored, TypeOK
    <3>2. OfferOf(n) = Bound(offered[n])
      BY <3>1 DEF OfferOf, Bound
    <3>3. OfferOf(n) # NoRecord
      BY <3>1, <3>2, RecordType, ConstantsAssumption
    <3>4. UNCHANGED [m \in Nonces |-> OfferOf(m)]
      BY <1>1 DEF OfferOf
    <3>5. Redemption!Decide(n, a)
      BY <1>1, <2>1, <2>3, <3>3, <3>4 DEF Redemption!Decide
    <3>6. QED
      BY <2>1, <3>5 DEF Redemption!Next
  <2>4. QED
    BY <2>2, <2>3
<1>4. \A r : Decision(p, now[p], r) \in Requests \cup {Burned}
  BY DEF Decision
<1>5. QED
  BY <1>2, <1>3, <1>4 DEF Consume

\* The provider grants the login to whoever the nonce was decided for.
LEMMA LoginLogsIn ==
  ASSUME Inv, NEW p \in Requests, Login(p)
  PROVE  [Redemption!Next]_(Redemption!vars)
<1> DEFINE n == nonce[p]
<1>1. /\ UNCHANGED <<offered, decided>>
      /\ n \in Nonces /\ decided[n] = p /\ p # Undecided
      /\ \A i \in DOMAIN logins : logins[i].nonce # n
      /\ Bound(record[p]) = Bound(offered[n])
  BY ConstantsAssumption DEF Login, Inv, Presented, Redeeming
<1>2. CASE UNCHANGED logins
  BY <1>1, <1>2, Stutters
<1>3. CASE Granted(p)
  <2>1. offered[n] # NoRecord
    BY <1>1 DEF Inv, Unoffered
  <2>2. OfferOf(n) = Bound(record[p])
    BY <1>1, <2>1 DEF OfferOf, Bound
  <2>3. logins' = Append(logins, [nonce |-> n, app |-> p,
                                  offer |-> [m \in Nonces |-> OfferOf(m)][n]])
    BY <1>1, <1>3, <2>2 DEF Granted
  <2>4. UNCHANGED [m \in Nonces |-> OfferOf(m)]
    BY <1>1 DEF OfferOf
  <2>5. Redemption!Login(n, p)
    BY <1>1, <2>3, <2>4 DEF Redemption!Login
  <2>6. QED
    BY <1>1, <2>5 DEF Redemption!Next
<1>4. QED
  BY <1>2, <1>3 DEF Login

(***************************************************************************)
(* Deferred login implements one-time redemption: a nonce is decided once, *)
(* and only the app it was decided for logs in, once, as the user and with *)
(* the address the nonce was minted for (Mint, Exchange).                  *)
(***************************************************************************)
THEOREM RedeemsOnceHolds == Spec => RedeemsOnce
<1>1. Init => Redemption!Init
  BY DEF Init, Redemption!Init, OfferOf
<1>2. ASSUME Inv, [Next]_vars PROVE [Redemption!Next]_(Redemption!vars)
  <2>1. CASE UNCHANGED <<logins, offered, decided>>
    BY <2>1, Stutters
  <2>2. \A p \in Requests : Crash(p) => UNCHANGED <<logins, offered, decided>>
    BY DEF Crash
  <2>3. \A p \in Requests, s \in Subjects \cup {NoSubject},
           e \in Emails \cup {NoEmail} :
          BeginMint(p, s, e) => UNCHANGED <<logins, offered, decided>>
    BY DEF BeginMint
  <2>4. \A p \in Requests, n \in delivered \cup {Blank, Garbled} :
          BeginExchange(p, n) => UNCHANGED <<logins, offered, decided>>
    BY DEF BeginExchange
  <2>5. Tick \/ (\E n \in Nonces : Drop(n)) \/ UNCHANGED vars
          => UNCHANGED <<logins, offered, decided>>
    BY DEF Tick, Drop, vars
  <2>6. QED
    BY <1>2, <2>1, <2>2, <2>3, <2>4, <2>5, PutOffers, ConsumeDecides, LoginLogsIn
       DEF Next
<1>3. QED
  BY <1>1, <1>2, InvHolds, PTL DEF Spec, RedeemsOnce, Redemption!Spec
=============================================================================
