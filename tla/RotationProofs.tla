-------------------------- MODULE RotationProofs --------------------------
(***************************************************************************)
(* What TLAPS proves of Rotation, for every set of requests and subjects,  *)
(* every lifetime, every bound, and providers that rotate, carry forward   *)
(* or do either.                                                           *)
(***************************************************************************)
EXTENDS Rotation, TLAPS

LEMMA Labels ==
  /\ PCs = {"idle", "read", "exchange", "consume", "date", "issue"}
  /\ Refusals \subseteq Errors \ {"refresh-token-unknown", "refresh-token-reused"}
  /\ {"provider-unavailable", "refresh-token-unknown", "refresh-token-reused",
      "token-expired", "nil", "crashed"} \subseteq Errors
BY DEF PCs, Errors, Failures, Refusals

LEMMA RecordType ==
  ASSUME NEW r \in Record
  PROVE  /\ r # NoRecord
         /\ r.subject \in Subjects \cup {NoSubject} /\ r.exp \in Nat
         /\ r.consumed \in BOOLEAN
<1>1. r # NoRecord
  BY ConstantsAssumption
<1>2. QED
  BY <1>1 DEF Record

LEMMA SpentType ==
  ASSUME NEW r \in Record
  PROVE  /\ SpentRecord(r) \in Record /\ SpentRecord(r) # NoRecord
         /\ SpentRecord(r).consumed = TRUE
         /\ SpentRecord(r).exp = r.exp /\ SpentRecord(r).subject = r.subject
<1>1. /\ SpentRecord(r) \in Record
      /\ SpentRecord(r).consumed = TRUE
      /\ SpentRecord(r).exp = r.exp /\ SpentRecord(r).subject = r.subject
  BY DEF Record, SpentRecord
<1>2. SpentRecord(r) # NoRecord
  BY <1>1, ConstantsAssumption
<1>3. QED
  BY <1>1, <1>2

LEMMA FreshType ==
  ASSUME NEW s \in Subjects \cup {NoSubject}, NEW x \in Nat
  PROVE  /\ Fresh(s, x) \in Record /\ Fresh(s, x) # NoRecord
         /\ Fresh(s, x).subject = s /\ Fresh(s, x).exp = x
         /\ Fresh(s, x).consumed = FALSE
<1>1. /\ Fresh(s, x) \in Record
      /\ Fresh(s, x).subject = s /\ Fresh(s, x).exp = x
      /\ Fresh(s, x).consumed = FALSE
  BY DEF Record, Fresh
<1>2. Fresh(s, x) # NoRecord
  BY <1>1, ConstantsAssumption
<1>3. QED
  BY <1>1, <1>2

LEMMA SessionType ==
  /\ NoSession \in Session /\ NoSession.token = 0
  /\ \A s \in Session :
       /\ s.token \in Nat /\ s.exp \in Nat
       /\ s.subject \in Subjects \cup {NoSubject}
  /\ \A t \in Nat, s \in Subjects \cup {NoSubject}, x \in Nat :
       LET z == [token |-> t, subject |-> s, exp |-> x]
       IN  z \in Session /\ z.token = t /\ z.subject = s /\ z.exp = x
  /\ \A s \in Session, r \in Record :
       /\ Named(s, r) \in Session /\ Named(s, r).token = s.token
       /\ Named(s, r).subject =
              IF s.subject = NoSubject THEN r.subject ELSE s.subject
BY DEF Session, NoSession, Named, Record

LEMMA ExpiryType ==
  ASSUME TypeOK, NEW s \in Session
  PROVE  Expiry(s) \in Nat
BY SessionType, ConstantsAssumption DEF TypeOK, Expiry

\* Dating a session leaves its token and its subject alone.
LEMMA DatedSession ==
  ASSUME TypeOK, NEW p \in Requests,
         session' = [session EXCEPT ![p].exp = Expiry(session[p])]
  PROVE  /\ session' \in [Requests -> Session]
         /\ session'[p].token = session[p].token
         /\ session'[p].subject = session[p].subject
         /\ \A q \in Requests \ {p} : session'[q] = session[q]
<1>1. session[p] \in Session /\ Expiry(session[p]) \in Nat
  BY ExpiryType DEF TypeOK
<1> DEFINE z == [session[p] EXCEPT !.exp = Expiry(session[p])]
<1>2. z \in Session /\ z.token = session[p].token /\ z.subject = session[p].subject
  BY <1>1 DEF Session
<1>3. session' = [session EXCEPT ![p] = z]
  BY DEF TypeOK
<1> HIDE DEF z
<1>4. QED
  BY <1>2, <1>3 DEF TypeOK

LEMMA ReturnType ==
  ASSUME TypeOK, NEW p \in Requests, NEW e \in Errors, Return(p, e)
  PROVE  /\ pc' \in [Requests -> PCs]
         /\ now' \in [Requests -> Nat]
         /\ record' \in [Requests -> Record \cup {NoRecord}]
         /\ session' \in [Requests -> Session]
         /\ reply' \in [Requests -> Errors]
         /\ pc'[p] = "idle" /\ reply'[p] = e
         /\ \A q \in Requests \ {p} :
              /\ pc'[q] = pc[q] /\ record'[q] = record[q]
              /\ session'[q] = session[q] /\ reply'[q] = reply[q]
BY Labels, SessionType DEF TypeOK, Return, Goto

LEMMA GotoType ==
  ASSUME TypeOK, NEW p \in Requests, NEW l \in PCs, Goto(p, l)
  PROVE  /\ pc' \in [Requests -> PCs]
         /\ pc'[p] = l
         /\ \A q \in Requests \ {p} : pc'[q] = pc[q]
BY DEF TypeOK, Goto

LEMMA WriteType ==
  ASSUME TypeOK, NEW t \in Tokens, NEW r \in Record \cup {NoRecord}, Write(t, r)
  PROVE  /\ records' \in [Tokens -> Record \cup {NoRecord}]
         /\ records'[t] = r
         /\ \A u \in Tokens \ {t} : records'[u] = records[u]
BY DEF TypeOK, Write
-----------------------------------------------------------------------------
\* The tokens a request works with are tokens the provider has issued.
Located ==
    /\ delivered \cup spent \cup carried \cup rotated \subseteq 1..issued
    /\ \A t \in Tokens :
         records[t] # NoRecord \/ recorded[t] # 0 => t \in 1..issued
    /\ \A p \in Requests :
         /\ pc[p] \in {"read", "exchange", "consume"} => presented[p] \in 1..issued
         /\ pc[p] \in {"date", "issue"} => presented[p] \in 0..issued
         /\ pc[p] = "date" => session[p].token \in 0..issued
         /\ pc[p] = "date" /\ session[p].token = 0 => presented[p] = 0
         /\ pc[p] \in {"exchange", "consume"} => record[p] # NoRecord
         /\ pc[p] \in {"consume", "issue"} => session[p].token \in 1..issued

LEMMA IssuedTokens == ASSUME TypeOK PROVE 1..issued \subseteq Tokens /\ issued \in Nat
BY ConstantsAssumption DEF TypeOK, Tokens
-----------------------------------------------------------------------------
LEMMA TypeCorrectStep ==
  ASSUME TypeOK, Located, [Next]_vars
  PROVE  TypeOK' /\ Located'
<1>0. 1..issued \subseteq Tokens /\ issued \in Nat
  BY IssuedTokens
<1>1. ASSUME NEW p \in Requests, NEW s \in Subjects, SignIn(p, s)
      PROVE  TypeOK' /\ Located'
  <2>1. issued + 1 \in Tokens /\ issued' = issued + 1 /\ issued' \in 0..MaxTokens
    BY <1>0, <1>1, ConstantsAssumption DEF SignIn, TypeOK, Tokens
  <2>2. /\ pc' \in [Requests -> PCs] /\ pc'[p] = "date"
        /\ \A q \in Requests \ {p} : pc'[q] = pc[q]
    BY <1>1, GotoType, Labels DEF SignIn
  <2>3. PICK x \in {0, clock + Lifetime} :
          session' = [session EXCEPT ![p] =
                         [token |-> issued + 1, subject |-> s, exp |-> x]]
    BY <1>1 DEF SignIn
  <2>4. x \in Nat
    BY ConstantsAssumption DEF TypeOK
  <2> DEFINE z == [token |-> issued + 1, subject |-> s, exp |-> x]
  <2>5. z \in Session /\ z.token = issued + 1
    BY <1>0, <2>4, SessionType
  <2> HIDE DEF z
  <2>6. /\ session' \in [Requests -> Session] /\ session'[p] = z
        /\ \A q \in Requests \ {p} : session'[q] = session[q]
    BY <2>3, <2>5 DEF TypeOK, z
  <2>7. reply' \in [Requests -> Errors]
    BY <1>1, Labels DEF SignIn, TypeOK
  <2>8. TypeOK'
    BY <1>1, <2>1, <2>2, <2>6, <2>7, ConstantsAssumption DEF SignIn, TypeOK
  <2>9. Located'
    BY <1>0, <1>1, <2>1, <2>2, <2>5, <2>6 DEF SignIn, TypeOK, Located
  <2>10. QED
    BY <2>8, <2>9
<1>2. ASSUME NEW p \in Requests, NEW t \in delivered \cup {0}, Begin(p, t)
      PROVE  TypeOK' /\ Located'
  <2>0. presented' = [presented EXCEPT ![p] = t] /\ t \in 0..MaxTokens
        /\ UNCHANGED <<clock, records, idp, history>>
    BY <1>2, ConstantsAssumption DEF Begin, TypeOK, Tokens
  <2>1. ASSUME NEW e \in Errors, Return(p, e) PROVE TypeOK' /\ Located'
    BY <2>0, <2>1, ReturnType DEF TypeOK, Located, idp, history
  <2>2. CASE Goto(p, "read") /\ t # 0 /\ now' = [now EXCEPT ![p] = clock]
             /\ reply' = [reply EXCEPT ![p] = "nil"]
             /\ UNCHANGED <<record, session>>
    <3>1. /\ pc' \in [Requests -> PCs] /\ pc'[p] = "read"
          /\ \A q \in Requests \ {p} : pc'[q] = pc[q]
      BY <2>2, GotoType, Labels
    <3>2. t \in 1..issued
      BY <2>2, <1>2 DEF Located
    <3>3. TypeOK'
      BY <2>0, <2>2, <3>1, Labels DEF TypeOK, idp, history
    <3>4. Located'
      BY <2>0, <2>2, <3>1, <3>2 DEF TypeOK, Located, idp, history
    <3>5. QED
      BY <3>3, <3>4
  <2>3. QED
    BY <1>2, <2>1, <2>2, Labels DEF Begin
<1>3. ASSUME NEW p \in Requests, Read(p) PROVE TypeOK' /\ Located'
  <2>0. /\ pc[p] = "read" /\ presented[p] \in Tokens
        /\ UNCHANGED <<clock, records, idp, presented, history>>
    BY <1>0, <1>3 DEF Read, Refused, Accepted, Located
  <2>1. ASSUME NEW e \in Errors, Return(p, e) PROVE TypeOK' /\ Located'
    BY <2>0, <2>1, ReturnType DEF TypeOK, Located, idp, history
  <2>2. CASE Accepted(p, records[presented[p]]) /\ records[presented[p]] # NoRecord
    <3>1. /\ pc' \in [Requests -> PCs] /\ pc'[p] = "exchange"
          /\ \A q \in Requests \ {p} : pc'[q] = pc[q]
      BY <2>2, GotoType, Labels DEF Accepted
    <3>2. TypeOK'
      BY <2>0, <2>2, <3>1 DEF Accepted, TypeOK, idp, history
    <3>3. Located'
      BY <2>0, <2>2, <3>1 DEF Accepted, TypeOK, Located, idp, history
    <3>4. QED
      BY <3>2, <3>3
  <2>3. QED
    BY <1>3, <2>1, <2>2, Labels DEF Read, Refused
<1>4. ASSUME NEW p \in Requests, Exchange(p) PROVE TypeOK' /\ Located'
  <2>0. /\ pc[p] = "exchange" /\ presented[p] \in 1..issued /\ presented[p] \in Tokens
        /\ UNCHANGED <<clock, records, presented, delivered, recorded, rotated>>
    BY <1>0, <1>4 DEF Exchange, Located
  <2>1. \/ UNCHANGED idp /\ carried' = carried
        \/ UNCHANGED idp /\ carried' = carried \cup {presented[p]}
        \/ /\ issued < MaxTokens /\ issued' = issued + 1
           /\ spent' = spent \cup {presented[p]}
           /\ owner' = [owner EXCEPT ![issued + 1] = owner[presented[p]]]
           /\ carried' = carried
    BY <1>4 DEF Exchange, ExchangeRefused, ExchangeRotates, ExchangeCarries
  <2>2. /\ issued' \in 0..MaxTokens /\ issued <= issued'
        /\ 1..issued \subseteq 1..issued' /\ 0..issued \subseteq 0..issued'
        /\ spent' \in SUBSET Tokens /\ carried' \in SUBSET Tokens
        /\ owner' \in [Tokens -> Subjects \cup {NoSubject}]
        /\ spent' \cup carried' \subseteq 1..issued'
    BY <1>0, <2>0, <2>1, ConstantsAssumption DEF TypeOK, Located, idp
  <2>3. ASSUME NEW e \in Errors, Return(p, e) PROVE TypeOK' /\ Located'
    <3>1. TypeOK'
      BY <2>0, <2>2, <2>3, ReturnType DEF TypeOK
    <3>2. Located'
      BY <2>0, <2>2, <2>3, ReturnType DEF TypeOK, Located
    <3>3. QED
      BY <3>1, <3>2
  <2>4. ASSUME NEW t \in 1..issued', t \in Nat, Granted(p, t) PROVE TypeOK' /\ Located'
    <3>1. PICK s \in {NoSubject, owner[presented[p]]}, x \in {0, clock + Lifetime} :
            session' = [session EXCEPT ![p] =
                           [token |-> t, subject |-> s, exp |-> x]]
      BY <2>4 DEF Granted
    <3>2. x \in Nat /\ s \in Subjects \cup {NoSubject}
      BY <2>0, ConstantsAssumption DEF TypeOK
    <3> DEFINE z == [token |-> t, subject |-> s, exp |-> x]
    <3>3. z \in Session /\ z.token = t
      BY <2>4, <3>2, SessionType
    <3> HIDE DEF z
    <3>4. /\ session' \in [Requests -> Session] /\ session'[p] = z
          /\ \A q \in Requests \ {p} : session'[q] = session[q]
      BY <3>1, <3>3 DEF TypeOK, z
    <3>5. /\ pc' \in [Requests -> PCs] /\ pc'[p] = "consume"
          /\ \A q \in Requests \ {p} : pc'[q] = pc[q]
      BY <2>4, GotoType, Labels DEF Granted
    <3>6. TypeOK'
      BY <2>0, <2>2, <2>4, <3>4, <3>5 DEF Granted, TypeOK
    <3>7. Located'
      BY <2>0, <2>2, <2>4, <3>3, <3>4, <3>5 DEF Granted, TypeOK, Located
    <3>8. QED
      BY <3>6, <3>7
  <2>5. CASE ExchangeRotates(p)
    BY <1>0, <2>3, <2>4, <2>5, Labels DEF ExchangeRotates
  <2>6. CASE ExchangeCarries(p)
    BY <1>0, <2>0, <2>4, <2>6 DEF ExchangeCarries, idp
  <2>7. CASE ExchangeRefused(p)
    BY <2>3, <2>7, Labels DEF ExchangeRefused
  <2>8. QED
    BY <1>4, <2>5, <2>6, <2>7 DEF Exchange
<1>5. ASSUME NEW p \in Requests, Consume(p) PROVE TypeOK' /\ Located'
  <2>0. /\ pc[p] = "consume" /\ presented[p] \in 1..issued /\ presented[p] \in Tokens
        /\ record[p] \in Record /\ session[p] \in Session
        /\ UNCHANGED <<clock, idp, presented, history>>
    BY <1>0, <1>5 DEF Consume, TypeOK, Located
  <2>1. UNCHANGED records \/ Write(presented[p], SpentRecord(record[p]))
    BY <1>5 DEF Consume, WriteFails
  <2>2. /\ records' \in [Tokens -> Record \cup {NoRecord}]
        /\ \A t \in Tokens : records'[t] # NoRecord =>
               records[t] # NoRecord \/ t \in 1..issued
    <3>1. CASE UNCHANGED records
      BY <3>1 DEF TypeOK
    <3>2. CASE Write(presented[p], SpentRecord(record[p]))
      BY <2>0, <3>2, SpentType, WriteType
    <3>3. QED
      BY <2>1, <3>1, <3>2
  <2>3. ASSUME NEW e \in Errors, Return(p, e) PROVE TypeOK' /\ Located'
    <3>1. TypeOK'
      BY <2>0, <2>2, <2>3, ReturnType DEF TypeOK, idp, history
    <3>2. Located'
      BY <2>0, <2>2, <2>3, ReturnType DEF TypeOK, Located, idp, history
    <3>3. QED
      BY <3>1, <3>2
  <2>4. CASE /\ session' = [session EXCEPT ![p] = Named(@, record[p])]
             /\ Goto(p, "date")
             /\ UNCHANGED <<now, record, reply>>
    <3>1. Named(session[p], record[p]) \in Session
          /\ Named(session[p], record[p]).token = session[p].token
      BY <2>0, SessionType
    <3>2. /\ session' \in [Requests -> Session]
          /\ session'[p].token = session[p].token
          /\ \A q \in Requests \ {p} : session'[q] = session[q]
      BY <2>4, <3>1 DEF TypeOK
    <3>3. /\ pc' \in [Requests -> PCs] /\ pc'[p] = "date"
          /\ \A q \in Requests \ {p} : pc'[q] = pc[q]
      BY <2>4, GotoType, Labels
    <3>4. TypeOK'
      BY <2>0, <2>2, <2>4, <3>2, <3>3 DEF TypeOK, idp, history
    <3>5. Located'
      BY <1>0, <2>0, <2>2, <2>4, <3>2, <3>3 DEF TypeOK, Located, idp, history
    <3>6. QED
      BY <3>4, <3>5
  <2>5. QED
    BY <1>5, <2>3, <2>4, Labels DEF Consume
<1>6. ASSUME NEW p \in Requests, Issue(p) PROVE TypeOK' /\ Located'
  <2> DEFINE s == session[p]
             x == s.exp
             r == Fresh(s.subject, x)
  <2>0. /\ pc[p] = "issue" /\ s.token \in 1..issued /\ s.token \in Tokens
        /\ s \in Session /\ presented[p] \in 0..issued
        /\ UNCHANGED <<clock, idp, presented, carried>>
    BY <1>0, <1>6 DEF Issue, TypeOK, Located
  <2>1. x \in Nat /\ r \in Record /\ r.exp = x
    <3>1. x \in Nat
      BY <2>0 DEF Session
    <3>2. s.subject \in Subjects \cup {NoSubject}
      BY <2>0, SessionType
    <3> HIDE DEF s, x
    <3>3. QED
      BY <3>1, <3>2, FreshType
  <2>2. UNCHANGED records \/ Write(s.token, r)
    BY <1>6 DEF Issue, WriteFails
  <2>3. \/ UNCHANGED history
        \/ /\ delivered' = delivered \cup {s.token}
           /\ recorded' = [recorded EXCEPT ![s.token] = x]
           /\ rotated' = rotated \cup ({presented[p]} \ {0})
    BY <1>6, <2>1 DEF Issue
  <2>4. PICK e \in Errors : Return(p, e)
    BY <1>6, Labels DEF Issue
  <2> HIDE DEF s, x, r
  <2>5. /\ records' \in [Tokens -> Record \cup {NoRecord}]
        /\ \A t \in Tokens : records'[t] # NoRecord =>
               records[t] # NoRecord \/ t \in 1..issued
    <3>1. CASE UNCHANGED records
      BY <3>1 DEF TypeOK
    <3>2. CASE Write(s.token, r)
      BY <2>0, <2>1, <3>2, WriteType
    <3>3. QED
      BY <2>2, <3>1, <3>2
  <2>6. /\ delivered' \in SUBSET Tokens /\ recorded' \in [Tokens -> Nat]
        /\ rotated' \in SUBSET Tokens
        /\ delivered' \cup rotated' \subseteq 1..issued
        /\ \A t \in Tokens : recorded'[t] # 0 =>
               recorded[t] # 0 \/ t \in 1..issued
    <3>1. CASE UNCHANGED history
      BY <3>1 DEF TypeOK, Located, history
    <3>2. CASE ~UNCHANGED history
      <4>1. presented[p] \in 0..issued /\ {presented[p]} \ {0} \subseteq 1..issued
        BY <1>0, <2>0
      <4>2. /\ delivered' \cup rotated' \subseteq 1..issued
            /\ recorded' \in [Tokens -> Nat]
            /\ \A t \in Tokens : recorded'[t] # 0 =>
                   recorded[t] # 0 \/ t \in 1..issued
        BY <2>0, <2>1, <2>3, <3>2, <4>1 DEF TypeOK, Located
      <4>3. QED
        BY <1>0, <4>2
    <3>3. QED
      BY <3>1, <3>2
  <2>7. TypeOK'
    BY <2>0, <2>4, <2>5, <2>6, ReturnType DEF TypeOK, idp
  <2>8. Located'
    BY <2>0, <2>4, <2>5, <2>6, ReturnType DEF TypeOK, Located, idp
  <2>9. QED
    BY <2>7, <2>8
<1>7. ASSUME NEW p \in Requests, Crash(p) PROVE TypeOK' /\ Located'
  <2>1. Return(p, "crashed") /\ UNCHANGED <<clock, records, idp, presented, history>>
    BY <1>7 DEF Crash
  <2>2. QED
    BY <2>1, ReturnType, Labels DEF TypeOK, Located, idp, history
<1>8. CASE Tick
  BY <1>8 DEF Tick, TypeOK, Located, idp, history
<1>9. ASSUME NEW t \in Tokens, Drop(t) PROVE TypeOK' /\ Located'
  <2>1. Write(t, NoRecord)
    BY <1>9 DEF Drop, Write
  <2>2. QED
    BY <1>9, <2>1, WriteType DEF Drop, TypeOK, Located, idp, history
<1>10. CASE UNCHANGED vars
  BY <1>10 DEF vars, TypeOK, Located
<1>11. ASSUME NEW p \in Requests, NEW s \in Subjects, SignInBare(p, s)
       PROVE  TypeOK' /\ Located'
  <2> DEFINE z == [token |-> 0, subject |-> s, exp |-> 0]
  <2>1. z \in Session /\ z.token = 0
    BY SessionType
  <2>2. session' = [session EXCEPT ![p] = z]
    BY <1>11 DEF SignInBare
  <2> HIDE DEF z
  <2>3. /\ session' \in [Requests -> Session] /\ session'[p].token = 0
        /\ \A q \in Requests \ {p} : session'[q] = session[q]
    BY <2>1, <2>2 DEF TypeOK
  <2>4. /\ pc' \in [Requests -> PCs] /\ pc'[p] = "date"
        /\ \A q \in Requests \ {p} : pc'[q] = pc[q]
    BY <1>11, GotoType, Labels DEF SignInBare
  <2>5. /\ presented' = [presented EXCEPT ![p] = 0] /\ 0 \in 0..MaxTokens
        /\ reply' \in [Requests -> Errors]
        /\ UNCHANGED <<clock, records, idp, now, record, history>>
    BY <1>11, ConstantsAssumption, Labels DEF SignInBare, TypeOK
  <2>6. TypeOK'
    BY <2>3, <2>4, <2>5 DEF TypeOK, idp, history
  <2>7. Located'
    BY <1>0, <2>3, <2>4, <2>5 DEF TypeOK, Located, idp, history
  <2>8. QED
    BY <2>6, <2>7
<1>12. ASSUME NEW p \in Requests, Date(p) PROVE TypeOK' /\ Located'
  <2>0. /\ pc[p] = "date" /\ session[p].token \in 0..issued
        /\ presented[p] \in 0..issued
        /\ UNCHANGED <<clock, records, idp, presented, history>>
    BY <1>12 DEF Date, Located
  <2>1. ASSUME NEW e \in Errors, Return(p, e) PROVE TypeOK' /\ Located'
    BY <2>0, <2>1, ReturnType DEF TypeOK, Located, idp, history
  <2>2. CASE /\ session[p].token # 0 /\ Goto(p, "issue")
             /\ session' = [session EXCEPT ![p].exp = Expiry(session[p])]
             /\ UNCHANGED <<now, record, reply>>
    <3>1. /\ session' \in [Requests -> Session]
          /\ session'[p].token = session[p].token
          /\ \A q \in Requests \ {p} : session'[q] = session[q]
      BY <2>2, DatedSession
    <3>2. /\ pc' \in [Requests -> PCs] /\ pc'[p] = "issue"
          /\ \A q \in Requests \ {p} : pc'[q] = pc[q]
      BY <2>2, GotoType, Labels
    <3>3. session[p].token \in 1..issued
      BY <1>0, <2>0, <2>2
    <3>4. TypeOK'
      BY <2>0, <2>2, <3>1, <3>2 DEF TypeOK, idp, history
    <3>5. Located'
      BY <2>0, <2>2, <3>1, <3>2, <3>3 DEF TypeOK, Located, idp, history
    <3>6. QED
      BY <3>4, <3>5
  <2>3. QED
    BY <1>12, <2>1, <2>2, Labels DEF Date
<1>13. QED
  BY <1>1, <1>2, <1>3, <1>4, <1>5, <1>6, <1>7, <1>8, <1>9, <1>10, <1>11, <1>12
     DEF Next

LEMMA ClockType ==
  ASSUME TypeOK, Located, [Next]_vars
  PROVE  clock' \in Nat
BY TypeCorrectStep DEF TypeOK

(***************************************************************************)
(* Every variable keeps its type, and the tokens a request works with are  *)
(* tokens the provider has issued (Issue, Rotate).                         *)
(***************************************************************************)
THEOREM TypeCorrect == Spec => [](TypeOK /\ Located)
<1>1. Init => TypeOK /\ Located
  <2> SUFFICES ASSUME Init PROVE TypeOK /\ Located
    OBVIOUS
  <2>1. TypeOK
    BY ConstantsAssumption, SessionType, Labels DEF Init, TypeOK
  <2>2. Located
    BY DEF Init, Located
  <2>3. QED
    BY <2>1, <2>2
<1>2. TypeOK /\ Located /\ [Next]_vars => (TypeOK /\ Located)'
  BY TypeCorrectStep
<1>3. QED
  BY <1>1, <1>2, PTL DEF Spec
-----------------------------------------------------------------------------
(***************************************************************************)
(* What a step can make of the locals of a request.                        *)
(***************************************************************************)
Same(q) ==
    /\ pc'[q] = pc[q] /\ presented'[q] = presented[q]
    /\ record'[q] = record[q] /\ session'[q] = session[q]

\* The provider issues a token, to the user o.
Issues(o) ==
    /\ issued < MaxTokens
    /\ issued' = issued + 1
    /\ owner' = [owner EXCEPT ![issued + 1] = o]

SignsIn(p) ==
    /\ pc[p] = "idle" /\ pc'[p] = "date" /\ presented'[p] = 0
    /\ session'[p] \in Session
    /\ session'[p].token = issued + 1
    /\ \E s \in Subjects : session'[p].subject = s /\ Issues(s)
    /\ spent' = spent

SignsInBare(p) ==
    /\ pc[p] = "idle" /\ pc'[p] = "date" /\ presented'[p] = 0
    /\ session'[p].token = 0

Begins(p) == pc[p] = "idle" /\ pc'[p] = "read" /\ presented'[p] \in delivered

Accepts(p) ==
    /\ pc[p] = "read" /\ pc'[p] = "exchange"
    /\ presented'[p] = presented[p]
    /\ record'[p] = records[presented[p]]
    /\ record'[p] # NoRecord /\ ~record'[p].consumed

GetsAnother(p) ==
    /\ pc[p] = "exchange" /\ pc'[p] = "consume"
    /\ presented'[p] = presented[p] /\ record'[p] = record[p]
    /\ session'[p] \in Session
    /\ session'[p].token = issued + 1
    /\ session'[p].subject \in {NoSubject, owner[presented[p]]}
    /\ Issues(owner[presented[p]])
    /\ spent' = spent \cup {presented[p]}

KeepsItsOwn(p) ==
    /\ pc[p] = "exchange" /\ pc'[p] = "consume"
    /\ presented'[p] = presented[p] /\ record'[p] = record[p]
    /\ session'[p] \in Session
    /\ session'[p].token = presented[p]
    /\ session'[p].subject \in {NoSubject, owner[presented[p]]}
    /\ carried' = carried \cup {presented[p]}
    /\ UNCHANGED idp

Consumes(p) ==
    /\ pc[p] = "consume" /\ pc'[p] = "date"
    /\ presented'[p] = presented[p] /\ record'[p] = record[p]
    /\ session'[p] = Named(session[p], record[p])
    /\ records'[presented[p]] = SpentRecord(record[p])
    /\ UNCHANGED idp

Dates(p) ==
    /\ pc[p] = "date" /\ pc'[p] = "issue"
    /\ presented'[p] = presented[p] /\ record'[p] = record[p]
    /\ session[p].token # 0 /\ session'[p].token = session[p].token
    /\ session'[p].subject = session[p].subject
    /\ UNCHANGED <<idp, records>>

Moves(p) ==
    \/ pc'[p] = "idle" \/ SignsIn(p) \/ SignsInBare(p) \/ Begins(p) \/ Accepts(p)
    \/ GetsAnother(p) \/ KeepsItsOwn(p) \/ Consumes(p) \/ Dates(p)

LEMMA OneMoves ==
  ASSUME TypeOK, Located, [Next]_vars
  PROVE  \/ \A q \in Requests : Same(q)
         \/ \E p \in Requests : Moves(p) /\ \A q \in Requests \ {p} : Same(q)
<1> DEFINE Goal == \/ \A q \in Requests : Same(q)
                   \/ \E p \in Requests :
                        Moves(p) /\ \A q \in Requests \ {p} : Same(q)
<1>0. issued \in Nat /\ 1..issued \subseteq Tokens
  BY IssuedTokens
<1>1. ASSUME NEW p \in Requests, NEW e \in Errors, Return(p, e),
             \A q \in Requests \ {p} : presented'[q] = presented[q]
      PROVE  Goal
  BY <1>1, ReturnType DEF Same, Moves
<1>2. ASSUME NEW p \in Requests, NEW s \in Subjects, SignIn(p, s) PROVE Goal
  <2>1. PICK x \in {0, clock + Lifetime} :
          session' = [session EXCEPT ![p] =
                         [token |-> issued + 1, subject |-> s, exp |-> x]]
    BY <1>2 DEF SignIn
  <2>2. x \in Nat
    BY ConstantsAssumption DEF TypeOK
  <2>3. /\ session'[p] \in Session /\ session'[p].token = issued + 1
        /\ session'[p].subject = s
    <3> DEFINE z == [token |-> issued + 1, subject |-> s, exp |-> x]
    <3>1. z \in Session /\ z.token = issued + 1 /\ z.subject = s
      BY <1>0, <2>2, SessionType
    <3> HIDE DEF z
    <3>2. session'[p] = z
      BY <2>1 DEF TypeOK, z
    <3>3. QED
      BY <3>1, <3>2
  <2>4. Issues(s) /\ spent' = spent
    BY <1>2 DEF SignIn, Issues
  <2>5. /\ pc[p] = "idle" /\ pc'[p] = "date" /\ presented'[p] = 0
        /\ \A q \in Requests \ {p} : Same(q)
    BY <1>2, <2>1 DEF SignIn, Goto, TypeOK, Same
  <2>6. SignsIn(p)
    BY <2>3, <2>4, <2>5 DEF SignsIn
  <2>7. QED
    BY <2>5, <2>6 DEF Moves
<1>3. ASSUME NEW p \in Requests, NEW t \in delivered \cup {0}, Begin(p, t) PROVE Goal
  <2>1. pc[p] = "idle" /\ presented' = [presented EXCEPT ![p] = t]
    BY <1>3 DEF Begin
  <2>2. CASE \E e \in Errors : Return(p, e)
    BY <1>1, <2>1, <2>2 DEF TypeOK
  <2>3. CASE t # 0 /\ Goto(p, "read") /\ UNCHANGED <<record, session>>
    <3>1. Begins(p) /\ \A q \in Requests \ {p} : Same(q)
      BY <2>1, <2>3 DEF Goto, TypeOK, Begins, Same
    <3>2. QED
      BY <3>1 DEF Moves
  <2>4. QED
    BY <1>3, <2>2, <2>3, Labels DEF Begin
<1>4. ASSUME NEW p \in Requests, Read(p) PROVE Goal
  <2>1. UNCHANGED presented
    BY <1>4 DEF Read
  <2>2. CASE \E e \in Errors : Return(p, e)
    BY <1>1, <2>1, <2>2
  <2>3. CASE /\ Accepted(p, records[presented[p]])
             /\ records[presented[p]] # NoRecord
             /\ ~records[presented[p]].consumed
    <3>1. Accepts(p) /\ \A q \in Requests \ {p} : Same(q)
      BY <1>4, <2>1, <2>3 DEF Read, Accepted, Goto, TypeOK, Accepts, Same
    <3>2. QED
      BY <3>1 DEF Moves
  <2>4. QED
    BY <1>4, <2>2, <2>3, Labels DEF Read, Refused
<1>5. ASSUME NEW p \in Requests, Exchange(p) PROVE Goal
  <2>1. /\ UNCHANGED presented /\ pc[p] = "exchange"
        /\ presented[p] \in Tokens /\ presented[p] \in Nat
        /\ owner[presented[p]] \in Subjects \cup {NoSubject}
    BY <1>0, <1>5 DEF Exchange, TypeOK, Located
  <2>2. CASE \E e \in Errors : Return(p, e)
    BY <1>1, <2>1, <2>2
  <2>3. ASSUME NEW t \in Nat, Granted(p, t)
        PROVE  /\ pc'[p] = "consume" /\ record'[p] = record[p]
               /\ session'[p] \in Session /\ session'[p].token = t
               /\ session'[p].subject \in {NoSubject, owner[presented[p]]}
               /\ \A q \in Requests \ {p} : Same(q)
    <3>1. PICK s \in {NoSubject, owner[presented[p]]}, x \in {0, clock + Lifetime} :
            session' = [session EXCEPT ![p] =
                           [token |-> t, subject |-> s, exp |-> x]]
      BY <2>3 DEF Granted
    <3>2. x \in Nat /\ s \in Subjects \cup {NoSubject}
      BY <2>1, ConstantsAssumption DEF TypeOK
    <3> DEFINE z == [token |-> t, subject |-> s, exp |-> x]
    <3>3. z \in Session /\ z.token = t /\ z.subject = s
      BY <3>2, SessionType
    <3> HIDE DEF z
    <3>4. session'[p] = z /\ \A q \in Requests \ {p} : session'[q] = session[q]
      BY <3>1 DEF TypeOK, z
    <3>5. QED
      BY <2>1, <2>3, <3>3, <3>4 DEF Granted, Goto, TypeOK, Same
  <2>4. CASE ExchangeRotates(p) /\ Granted(p, issued + 1)
    <3>1. GetsAnother(p)
      BY <1>0, <2>1, <2>3, <2>4 DEF ExchangeRotates, GetsAnother, Issues
    <3>2. QED
      BY <1>0, <2>3, <2>4, <3>1 DEF Moves
  <2>5. CASE ExchangeCarries(p)
    <3>1. KeepsItsOwn(p)
      BY <2>1, <2>3, <2>5 DEF ExchangeCarries, KeepsItsOwn
    <3>2. QED
      BY <2>1, <2>3, <2>5, <3>1 DEF ExchangeCarries, Moves
  <2>6. QED
    BY <1>5, <2>2, <2>4, <2>5, Labels
       DEF Exchange, ExchangeRefused, ExchangeRotates
<1>6. ASSUME NEW p \in Requests, Consume(p) PROVE Goal
  <2>1. UNCHANGED presented /\ presented[p] \in Tokens
    BY <1>0, <1>6 DEF Consume, Located
  <2>2. CASE \E e \in Errors : Return(p, e)
    BY <1>1, <2>1, <2>2
  <2>3. CASE /\ Write(presented[p], SpentRecord(record[p]))
             /\ session' = [session EXCEPT ![p] = Named(@, record[p])]
             /\ Goto(p, "date")
             /\ UNCHANGED <<now, record, reply>>
    <3>1. /\ session'[p] = Named(session[p], record[p])
          /\ records'[presented[p]] = SpentRecord(record[p])
          /\ \A q \in Requests \ {p} : Same(q)
      BY <2>1, <2>3 DEF Write, Goto, TypeOK, Same
    <3>2. Consumes(p)
      BY <1>6, <2>1, <2>3, <3>1 DEF Consume, Goto, TypeOK, Consumes
    <3>3. QED
      BY <3>1, <3>2 DEF Moves
  <2>4. QED
    BY <1>6, <2>2, <2>3, Labels DEF Consume
<1>7. ASSUME NEW p \in Requests, Issue(p) \/ Crash(p) PROVE Goal
  <2>1. UNCHANGED presented /\ \E e \in Errors : Return(p, e)
    BY <1>7, Labels DEF Issue, Crash
  <2>2. QED
    BY <1>1, <2>1
<1>8. CASE Tick \/ \E t \in Tokens : Drop(t)
  BY <1>8 DEF Tick, Drop, Same
<1>9. CASE UNCHANGED vars
  BY <1>9 DEF vars, Same
<1>10. ASSUME NEW p \in Requests, NEW s \in Subjects, SignInBare(p, s) PROVE Goal
  <2> DEFINE z == [token |-> 0, subject |-> s, exp |-> 0]
  <2>1. z.token = 0
    OBVIOUS
  <2>2. session' = [session EXCEPT ![p] = z]
    BY <1>10 DEF SignInBare
  <2> HIDE DEF z
  <2>3. SignsInBare(p) /\ \A q \in Requests \ {p} : Same(q)
    BY <1>10, <2>1, <2>2 DEF SignInBare, Goto, TypeOK, SignsInBare, Same
  <2>4. QED
    BY <2>3 DEF Moves
<1>11. ASSUME NEW p \in Requests, Date(p) PROVE Goal
  <2>1. UNCHANGED <<presented, idp, records>> /\ pc[p] = "date"
    BY <1>11 DEF Date
  <2>2. CASE \E e \in Errors : Return(p, e)
    BY <1>1, <2>1, <2>2
  <2>3. CASE /\ session[p].token # 0 /\ Goto(p, "issue")
             /\ session' = [session EXCEPT ![p].exp = Expiry(session[p])]
             /\ UNCHANGED <<now, record, reply>>
    <3>1. pc'[p] = "issue" /\ \A q \in Requests \ {p} : pc'[q] = pc[q]
      BY <2>3 DEF Goto, TypeOK
    <3>2. Dates(p) /\ \A q \in Requests \ {p} : Same(q)
      BY <2>1, <2>3, <3>1, DatedSession DEF Dates, Same
    <3>3. QED
      BY <3>2 DEF Moves
  <2>4. QED
    BY <1>11, <2>2, <2>3, Labels DEF Date
<1>12. QED
  BY <1>2, <1>3, <1>4, <1>5, <1>6, <1>7, <1>8, <1>9, <1>10, <1>11 DEF Next
-----------------------------------------------------------------------------
(***************************************************************************)
(* What a step can make of the state that requests share.                  *)
(***************************************************************************)
\* Nothing the provider or the history knows is forgotten.
Grows ==
    /\ issued <= issued'
    /\ \A t \in 1..issued : owner'[t] = owner[t]
    /\ spent \subseteq spent' /\ carried \subseteq carried'
    /\ clock <= clock'
    /\ \A t \in spent' \ spent :
         \E p \in Requests : pc[p] = "exchange" /\ presented[p] = t

LEMMA StepGrows ==
  ASSUME TypeOK, Located, [Next]_vars
  PROVE  Grows
<1>0. issued \in Nat /\ 1..issued \subseteq Tokens /\ issued + 1 \notin 1..issued
  BY IssuedTokens
<1>1. ASSUME UNCHANGED <<idp, carried>>, clock <= clock' PROVE Grows
  BY <1>0, <1>1 DEF idp, Grows
<1>2. ASSUME NEW p \in Requests, NEW s \in Subjects, SignIn(p, s) PROVE Grows
  BY <1>0, <1>2 DEF SignIn, Grows, TypeOK
<1>3. ASSUME NEW p \in Requests, Exchange(p) PROVE Grows
  <2>1. CASE ExchangeRefused(p)
    BY <1>0, <1>1, <1>3, <2>1 DEF Exchange, ExchangeRefused, TypeOK
  <2>2. CASE ExchangeCarries(p)
    BY <1>0, <1>3, <2>2 DEF Exchange, ExchangeCarries, Grows, idp, TypeOK
  <2>3. CASE ExchangeRotates(p)
    BY <1>0, <1>3, <2>3 DEF Exchange, ExchangeRotates, Grows, TypeOK
  <2>4. QED
    BY <1>3, <2>1, <2>2, <2>3 DEF Exchange
<1>4. ASSUME NEW p \in Requests, NEW t \in delivered \cup {0}, Begin(p, t) PROVE Grows
  BY <1>1, <1>4 DEF Begin, history, TypeOK
<1>5. ASSUME NEW p \in Requests,
             \/ Read(p) \/ Consume(p) \/ Date(p) \/ Issue(p) \/ Crash(p)
             \/ \E s \in Subjects : SignInBare(p, s)
      PROVE  Grows
  BY <1>1, <1>5 DEF Read, Consume, Date, Issue, Crash, SignInBare, history, TypeOK
<1>6. CASE Tick \/ \E t \in Tokens : Drop(t)
  BY <1>1, <1>6 DEF Tick, Drop, history, TypeOK
<1>7. CASE UNCHANGED vars
  BY <1>1, <1>7 DEF vars, idp, TypeOK
<1>8. QED
  BY <1>2, <1>3, <1>4, <1>5, <1>6, <1>7 DEF Next

\* Only three steps change a record.
RecordMoves(t) ==
    \/ records'[t] = records[t]
    \/ records'[t] = NoRecord /\ clock >= records[t].exp
    \/ \E p \in Requests :
         /\ pc[p] = "consume" /\ presented[p] = t
         /\ records'[t] = SpentRecord(record[p])
    \/ \E p \in Requests :
         /\ pc[p] = "issue" /\ pc'[p] = "idle" /\ session[p].token = t
         /\ records'[t] = Fresh(session[p].subject, session[p].exp)

LEMMA StepRecords ==
  ASSUME TypeOK, Located, [Next]_vars, NEW t \in Tokens
  PROVE  RecordMoves(t)
<1>1. ASSUME UNCHANGED records PROVE RecordMoves(t)
  BY <1>1 DEF RecordMoves
<1>2. ASSUME NEW p \in Requests, Consume(p) PROVE RecordMoves(t)
  <2>1. pc[p] = "consume"
        /\ (UNCHANGED records \/ Write(presented[p], SpentRecord(record[p])))
    BY <1>2 DEF Consume, WriteFails
  <2>2. QED
    BY <1>1, <2>1 DEF Write, TypeOK, RecordMoves
<1>3. ASSUME NEW p \in Requests, Issue(p) PROVE RecordMoves(t)
  <2> DEFINE r == Fresh(session[p].subject, session[p].exp)
  <2>1. pc[p] = "issue" /\ (UNCHANGED records \/ Write(session[p].token, r))
    BY <1>3 DEF Issue, WriteFails
  <2>2. pc'[p] = "idle"
    BY <1>3 DEF Issue, Return, Goto, TypeOK
  <2>3. CASE Write(session[p].token, r) /\ session[p].token = t
    <3>1. records'[t] = r
      BY <2>3 DEF Write, TypeOK
    <3>2. QED
      BY <2>1, <2>2, <2>3, <3>1 DEF RecordMoves
  <2>4. CASE Write(session[p].token, r) /\ session[p].token # t
    <3> HIDE DEF r
    <3>1. records'[t] = records[t]
      BY <2>4 DEF Write, TypeOK
    <3>2. QED
      BY <3>1 DEF RecordMoves
  <2>5. QED
    BY <1>1, <2>1, <2>3, <2>4
<1>4. ASSUME NEW u \in Tokens, Drop(u) PROVE RecordMoves(t)
  BY <1>4 DEF Drop, TypeOK, RecordMoves
<1>5. ASSUME NEW p \in Requests, NEW s \in Subjects, SignIn(p, s) PROVE RecordMoves(t)
  BY <1>1, <1>5 DEF SignIn
<1>6. ASSUME NEW p \in Requests, NEW u \in delivered \cup {0}, Begin(p, u)
      PROVE  RecordMoves(t)
  BY <1>1, <1>6 DEF Begin
<1>7. ASSUME NEW p \in Requests,
             \/ Read(p) \/ Exchange(p) \/ Date(p) \/ Crash(p)
             \/ \E s \in Subjects : SignInBare(p, s)
      PROVE  RecordMoves(t)
  BY <1>1, <1>7 DEF Read, Refused, Accepted, Exchange, Date, Crash, SignInBare
<1>8. CASE Tick
  BY <1>1, <1>8 DEF Tick
<1>9. CASE UNCHANGED vars
  BY <1>1, <1>9 DEF vars
<1>10. QED
  BY <1>2, <1>3, <1>4, <1>5, <1>6, <1>7, <1>8, <1>9 DEF Next

\* Only an Issue that succeeds records a token, and reports a rotation.
HistoryMoves(t) ==
    \/ recorded'[t] = recorded[t] /\ (t \in rotated' => t \in rotated)
    \/ \E p \in Requests :
         /\ pc[p] = "issue" /\ pc'[p] = "idle"
         /\ recorded'[t] # recorded[t] => t = session[p].token
         /\ t \in rotated' \ rotated => t = presented[p]
         /\ t = session[p].token =>
                /\ recorded'[t] = session[p].exp
                /\ records'[t] = Fresh(session[p].subject, session[p].exp)

LEMMA StepHistory ==
  ASSUME TypeOK, Located, [Next]_vars, NEW t \in Tokens
  PROVE  HistoryMoves(t)
<1>1. ASSUME UNCHANGED <<recorded, rotated>> PROVE HistoryMoves(t)
  BY <1>1 DEF HistoryMoves
<1>2. ASSUME NEW p \in Requests, Issue(p) PROVE HistoryMoves(t)
  <2> DEFINE x == session[p].exp
             r == Fresh(session[p].subject, x)
  <2>0. x \in Nat
    BY DEF TypeOK, Session
  <2>1. r.exp = x
    BY <2>0 DEF Fresh
  <2>2. \/ UNCHANGED history
        \/ /\ Write(session[p].token, r)
           /\ recorded' = [recorded EXCEPT ![session[p].token] = x]
           /\ rotated' = rotated \cup ({presented[p]} \ {0})
    BY <1>2, <2>1 DEF Issue
  <2>3. pc[p] = "issue" /\ pc'[p] = "idle"
    BY <1>2 DEF Issue, Return, Goto, TypeOK
  <2>4. CASE UNCHANGED history
    BY <1>1, <2>4 DEF history
  <2>5. CASE ~UNCHANGED history
    <3>1. t = session[p].token => records'[t] = r /\ recorded'[t] = x
      BY <2>2, <2>5 DEF Write, TypeOK
    <3> HIDE DEF x, r
    <3>2. /\ recorded'[t] # recorded[t] => t = session[p].token
          /\ t \in rotated' \ rotated => t = presented[p]
      BY <2>2, <2>5 DEF TypeOK
    <3>3. QED
      BY <2>3, <3>1, <3>2 DEF HistoryMoves, x, r
  <2>6. QED
    BY <2>4, <2>5
<1>3. ASSUME NEW p \in Requests, NEW s \in Subjects, SignIn(p, s) PROVE HistoryMoves(t)
  BY <1>1, <1>3 DEF SignIn
<1>4. ASSUME NEW p \in Requests, NEW u \in delivered \cup {0}, Begin(p, u)
      PROVE  HistoryMoves(t)
  BY <1>1, <1>4 DEF Begin, history
<1>5. ASSUME NEW p \in Requests,
             \/ Read(p) \/ Exchange(p) \/ Consume(p) \/ Date(p) \/ Crash(p)
             \/ \E s \in Subjects : SignInBare(p, s)
      PROVE  HistoryMoves(t)
  BY <1>1, <1>5 DEF Read, Exchange, Consume, Date, Crash, SignInBare, history
<1>6. CASE Tick \/ \E u \in Tokens : Drop(u)
  BY <1>1, <1>6 DEF Tick, Drop, history
<1>7. CASE UNCHANGED vars
  BY <1>1, <1>7 DEF vars
<1>8. QED
  BY <1>2, <1>3, <1>4, <1>5, <1>6, <1>7 DEF Next
-----------------------------------------------------------------------------
(***************************************************************************)
(* The inductive invariant.                                                *)
(***************************************************************************)
\* Records, copies of them and sessions name the user a token was issued to.
Owned ==
    /\ RecordedForItsOwner
    /\ \A p \in Requests :
         /\ pc[p] \in {"exchange", "consume"} =>
                record[p].subject = owner[presented[p]]
         /\ pc[p] = "consume" =>
                /\ owner[session[p].token] = owner[presented[p]]
                /\ session[p].subject \in {NoSubject, owner[presented[p]]}
         /\ pc[p] \in {"date", "issue"} /\ session[p].token # 0 =>
                session[p].subject = owner[session[p].token]

\* A record is consumed only for a token the provider has dealt with.
Earned ==
    /\ \A t \in Tokens :
         records[t] # NoRecord /\ records[t].consumed => t \in spent \cup carried
    /\ \A p \in Requests :
         /\ pc[p] \in {"consume", "date", "issue"} /\ presented[p] # 0 =>
                presented[p] \in spent \cup carried
         /\ pc[p] \in {"exchange", "consume"} => ~record[p].consumed

\* A replacement that has yet to be recorded is known to its request only.
Pending(p) ==
    pc[p] \in {"consume", "date", "issue"} /\ session[p].token \notin carried \cup {0}

Unshared ==
    \A p \in Requests : Pending(p) =>
        LET t == session[p].token
        IN  /\ records[t] = NoRecord
            /\ t \notin spent /\ t \notin rotated /\ recorded[t] = 0
            /\ \A q \in Requests :
                 /\ pc[q] \in {"exchange", "consume", "date", "issue"} => presented[q] # t
                 /\ q # p /\ pc[q] \in {"consume", "date", "issue"} => session[q].token # t

\* The presented token's record is consumed by the time the session is recorded.
Marked ==
    /\ SuccessConsumes
    /\ \A p \in Requests :
         pc[p] \in {"date", "issue"} /\ presented[p] \notin carried \cup {0} =>
             \/ records[presented[p]] = NoRecord
             \/ records[presented[p]].consumed

\* Every copy of a record has the expiry the token was recorded with.
Dated ==
    \A t \in Tokens \ carried :
        /\ records[t] # NoRecord => recorded[t] \in {0, records[t].exp}
        /\ recorded[t] > clock => records[t] # NoRecord
        /\ \A p \in Requests :
             pc[p] \in {"exchange", "consume"} /\ presented[p] = t =>
                 recorded[t] \in {0, record[p].exp}

\* What a request's locals are, when it moves and when it does not.
LEMMA RequestTypes ==
  ASSUME TypeOK, Located, NEW p \in Requests
  PROVE  /\ session[p] \in Session /\ session[p].exp \in Nat
         /\ session[p].subject \in Subjects \cup {NoSubject}
         /\ pc[p] \in {"consume", "date", "issue"} =>
                \/ session[p].token \in 1..issued /\ session[p].token \in Tokens
                \/ session[p].token = 0 /\ pc[p] = "date"
         /\ pc[p] \in {"read", "exchange", "consume"} =>
                presented[p] \in 1..issued /\ presented[p] \in Tokens
         /\ pc[p] \in {"date", "issue"} => presented[p] \in 0..issued
         /\ pc[p] \in {"exchange", "consume"} => record[p] \in Record
<1>1. session[p] \in Session /\ session[p].exp \in Nat
  BY DEF TypeOK, Session
<1>2. QED
  BY <1>1, SessionType, IssuedTokens DEF TypeOK, Located

LEMMA OwnedStep ==
  ASSUME TypeOK, Located, Owned, [Next]_vars
  PROVE  Owned'
<1>0. Grows /\ issued \in Nat /\ 1..issued \subseteq Tokens
  BY StepGrows, IssuedTokens
<1>1. ASSUME NEW t \in Tokens, records'[t] # NoRecord
      PROVE  records'[t].subject = owner'[t]
  <2>1. CASE records'[t] = records[t]
    BY <1>0, <1>1, <2>1 DEF Owned, RecordedForItsOwner, Located, Grows
  <2>2. ASSUME NEW p \in Requests, pc[p] = "consume", presented[p] = t,
               records'[t] = SpentRecord(record[p])
        PROVE  records'[t].subject = owner'[t]
    <3>1. record[p] \in Record /\ t \in 1..issued
      BY <2>2, RequestTypes
    <3>2. records'[t].subject = record[p].subject
      BY <2>2, <3>1, SpentType
    <3>3. QED
      BY <1>0, <2>2, <3>1, <3>2 DEF Owned, Grows
  <2>3. ASSUME NEW p \in Requests, pc[p] = "issue", session[p].token = t,
               records'[t] = Fresh(session[p].subject, session[p].exp)
        PROVE  records'[t].subject = owner'[t]
    <3>1. /\ session[p].subject \in Subjects \cup {NoSubject}
          /\ session[p].exp \in Nat /\ t \in 1..issued
      BY <2>3, RequestTypes
    <3>2. Fresh(session[p].subject, session[p].exp).subject = session[p].subject
      BY DEF Fresh
    <3>3. QED
      BY <1>0, <2>3, <3>1, <3>2 DEF Owned, Grows
  <2>4. QED
    BY <1>1, <2>1, <2>2, <2>3, StepRecords DEF RecordMoves
<1>2. ASSUME NEW q \in Requests, Same(q) PROVE Owned!2!(q)'
  BY <1>0, <1>2, RequestTypes DEF Owned, Same, Grows
<1>3. ASSUME NEW p \in Requests, Moves(p) PROVE Owned!2!(p)'
  <2>1. CASE pc'[p] = "idle" \/ Begins(p)
    BY <2>1 DEF Begins
  <2>2. CASE SignsIn(p)
    BY <1>0, <2>2, ConstantsAssumption DEF SignsIn, Issues, TypeOK, Tokens
  <2>3. CASE Accepts(p)
    BY <1>0, <2>3, RequestTypes DEF Accepts, Owned, RecordedForItsOwner, Grows
  <2>4. CASE GetsAnother(p)
    <3>1. /\ presented[p] \in 1..issued /\ issued + 1 \in Tokens
          /\ owner'[issued + 1] = owner[presented[p]]
          /\ owner'[presented[p]] = owner[presented[p]]
      <4>1. presented[p] \in 1..issued
        BY <2>4, RequestTypes DEF GetsAnother
      <4>2. issued + 1 \in Tokens
        BY <1>0, <2>4, ConstantsAssumption DEF GetsAnother, Issues, TypeOK, Tokens
      <4>3. QED
        BY <1>0, <2>4, <4>1, <4>2 DEF GetsAnother, Issues, TypeOK, Grows
    <3>2. QED
      BY <2>4, <3>1 DEF GetsAnother, Owned
  <2>5. CASE KeepsItsOwn(p)
    BY <2>5 DEF KeepsItsOwn, idp, Owned
  <2>6. CASE Consumes(p)
    BY <2>6, RequestTypes, SessionType DEF Consumes, idp, Owned
  <2>7. CASE SignsInBare(p) \/ Dates(p)
    BY <2>7 DEF SignsInBare, Dates, idp, Owned
  <2>8. QED
    BY <1>3, <2>1, <2>2, <2>3, <2>4, <2>5, <2>6, <2>7 DEF Moves
<1>4. QED
  BY <1>1, <1>2, <1>3, OneMoves DEF Owned, RecordedForItsOwner

LEMMA EarnedStep ==
  ASSUME TypeOK, Located, Earned, [Next]_vars
  PROVE  Earned'
<1>0. Grows
  BY StepGrows
<1>1. ASSUME NEW t \in Tokens, records'[t] # NoRecord, records'[t].consumed
      PROVE  t \in spent' \cup carried'
  <2>1. CASE records'[t] = records[t]
    BY <1>0, <1>1, <2>1 DEF Earned, Grows
  <2>2. ASSUME NEW p \in Requests, pc[p] = "consume", presented[p] = t
        PROVE  t \in spent' \cup carried'
    BY <1>0, <2>2, RequestTypes DEF Earned, Grows
  <2>3. ASSUME NEW p \in Requests,
               records'[t] = Fresh(session[p].subject, session[p].exp)
        PROVE  FALSE
    <3> DEFINE u == session[p].subject
               x == session[p].exp
    <3>1. u \in Subjects \cup {NoSubject} /\ x \in Nat
      BY RequestTypes
    <3> HIDE DEF u, x
    <3>2. ~Fresh(u, x).consumed
      BY <3>1, FreshType
    <3>3. QED
      BY <1>1, <2>3, <3>2 DEF u, x
  <2>4. QED
    BY <1>1, <2>1, <2>2, <2>3, StepRecords DEF RecordMoves
<1>2. ASSUME NEW q \in Requests, Same(q) PROVE Earned!2!(q)'
  BY <1>0, <1>2 DEF Earned, Same, Grows
<1>3. ASSUME NEW p \in Requests, Moves(p) PROVE Earned!2!(p)'
  <2>1. CASE pc'[p] = "idle" \/ Begins(p) \/ SignsIn(p) \/ SignsInBare(p)
    BY <2>1 DEF Begins, SignsIn, SignsInBare
  <2>2. CASE Accepts(p)
    BY <2>2 DEF Accepts
  <2>3. CASE GetsAnother(p) \/ KeepsItsOwn(p)
    BY <2>3 DEF GetsAnother, KeepsItsOwn, Earned
  <2>4. CASE Consumes(p) \/ Dates(p)
    BY <1>0, <2>4 DEF Consumes, Dates, Earned, Grows
  <2>5. QED
    BY <1>3, <2>1, <2>2, <2>3, <2>4 DEF Moves
<1>4. QED
  BY <1>1, <1>2, <1>3, OneMoves DEF Earned

LEMMA UnsharedStep ==
  ASSUME TypeOK, Located, Earned, Unshared, [Next]_vars
  PROVE  Unshared'
<1>0. Grows /\ issued \in Nat /\ 1..issued \subseteq Tokens /\ issued + 1 \notin 1..issued
  BY StepGrows, IssuedTokens
\* A step leaves the token of a request alone that keeps it to itself.
<1>1. ASSUME NEW p \in Requests, Pending(p), pc'[p] # "idle"
      PROVE  LET t == session[p].token
             IN  /\ records'[t] = NoRecord
                 /\ t \notin spent' /\ t \notin rotated' /\ recorded'[t] = 0
  <2> DEFINE t == session[p].token
  <2>0. t \in 1..issued /\ t \in Tokens /\ pc'[p] # "idle"
    BY <1>1, RequestTypes DEF Pending
  <2>1. /\ records[t] = NoRecord /\ t \notin spent /\ t \notin rotated
        /\ recorded[t] = 0
        /\ \A q \in Requests :
             /\ pc[q] \in {"exchange", "consume", "date", "issue"} => presented[q] # t
             /\ q # p /\ pc[q] \in {"consume", "date", "issue"} => session[q].token # t
    BY <1>1 DEF Unshared
  <2> HIDE DEF t
  <2>2. records'[t] = NoRecord
    BY <2>0, <2>1, StepRecords DEF RecordMoves, t
  <2>3. t \notin rotated' /\ recorded'[t] = 0
    BY <2>0, <2>1, StepHistory DEF HistoryMoves, t
  <2>4. t \notin spent'
    BY <1>0, <2>1 DEF Grows
  <2>5. QED
    BY <2>2, <2>3, <2>4 DEF t
\* No other request comes to work with a token one keeps to itself.
<1>2. ASSUME NEW q \in Requests, NEW t \in 1..issued, records[t] = NoRecord,
             Same(q) \/ Moves(q),
             t \notin carried',
             pc[q] \in {"exchange", "consume", "date", "issue"} => presented[q] # t,
             pc'[q] \in {"exchange", "consume", "date", "issue"}
      PROVE  presented'[q] # t
  <2>1. t # 0
    BY <1>0, <1>2
  <2>2. QED
    BY <1>2, <2>1 DEF Same, Moves, Begins, SignsIn, SignsInBare, Accepts,
                      GetsAnother, KeepsItsOwn, Consumes, Dates
<1>3. ASSUME NEW q \in Requests, NEW t \in 1..issued, Same(q) \/ Moves(q),
             t \notin carried',
             pc[q] \in {"consume", "date", "issue"} => session[q].token # t,
             pc'[q] \in {"consume", "date", "issue"}
      PROVE  session'[q].token # t
  <2>1. CASE Same(q)
    BY <1>3, <2>1 DEF Same
  <2>2. CASE SignsIn(q) \/ GetsAnother(q)
    BY <1>0, <1>3, <2>2 DEF SignsIn, GetsAnother
  <2>3. CASE KeepsItsOwn(q)
    BY <1>3, <2>3 DEF KeepsItsOwn
  <2>4. CASE Consumes(q)
    <3>1. session'[q].token = session[q].token
      BY <2>4, RequestTypes, SessionType DEF Consumes
    <3>2. QED
      BY <1>3, <2>4, <3>1 DEF Consumes
  <2>5. CASE pc'[q] = "idle" \/ Begins(q) \/ Accepts(q) \/ SignsInBare(q) \/ Dates(q)
    BY <1>0, <1>3, <2>5 DEF Begins, Accepts, SignsInBare, Dates
  <2>6. QED
    BY <1>3, <2>1, <2>2, <2>3, <2>4, <2>5 DEF Moves
<1>4. \A q \in Requests : Same(q) \/ Moves(q)
  BY OneMoves
<1>5. SUFFICES ASSUME NEW p \in Requests, Pending(p)'
               PROVE  LET t == session'[p].token
                      IN  /\ records'[t] = NoRecord
                          /\ t \notin spent' /\ t \notin rotated' /\ recorded'[t] = 0
                          /\ \A q \in Requests :
                               /\ pc'[q] \in {"exchange", "consume", "date", "issue"} =>
                                      presented'[q] # t
                               /\ q # p /\ pc'[q] \in {"consume", "date", "issue"} =>
                                      session'[q].token # t
  BY DEF Unshared
<1>6. CASE /\ Pending(p) /\ session'[p].token = session[p].token
  <2> DEFINE t == session[p].token
  <2>1. /\ t \in 1..issued /\ records[t] = NoRecord /\ t \notin carried'
        /\ \A q \in Requests :
             /\ pc[q] \in {"exchange", "consume", "date", "issue"} => presented[q] # t
             /\ q # p /\ pc[q] \in {"consume", "date", "issue"} => session[q].token # t
    BY <1>5, <1>6, RequestTypes DEF Unshared, Pending
  <2>2. /\ records'[t] = NoRecord
        /\ t \notin spent' /\ t \notin rotated' /\ recorded'[t] = 0
    BY <1>1, <1>5, <1>6 DEF Pending
  <2> HIDE DEF t
  <2>3. \A q \in Requests :
          /\ pc'[q] \in {"exchange", "consume", "date", "issue"} => presented'[q] # t
          /\ q # p /\ pc'[q] \in {"consume", "date", "issue"} => session'[q].token # t
    BY <1>2, <1>3, <1>4, <2>1
  <2>4. QED
    BY <1>6, <2>2, <2>3 DEF t
<1>7. CASE SignsIn(p) \/ GetsAnother(p)
  <2> DEFINE t == issued + 1
  <2>1. t \in Tokens /\ session'[p].token = t /\ t \notin 1..issued
    BY <1>0, <1>7, ConstantsAssumption
       DEF SignsIn, GetsAnother, Issues, TypeOK, Tokens
  <2>2. /\ records[t] = NoRecord /\ recorded[t] = 0
        /\ t \notin spent /\ t \notin rotated
    BY <2>1 DEF Located
  <2>3. \A q \in Requests :
          /\ pc[q] \in {"exchange", "consume", "date", "issue"} => presented[q] # t
          /\ pc[q] \in {"consume", "date", "issue"} => session[q].token # t
    BY <1>0, <2>1, RequestTypes
  <2> HIDE DEF t
  <2>4. records'[t] = NoRecord
    BY <2>1, <2>2, <2>3, StepRecords DEF RecordMoves
  <2>5. t \notin rotated' /\ recorded'[t] = 0
    BY <2>1, <2>2, <2>3, StepHistory DEF HistoryMoves
  <2>6. t \notin spent'
    BY <1>0, <2>2, <2>3 DEF Grows
  <2>7. p \in Requests /\ ~Same(p)
    <3>1. session[p].token # session'[p].token \/ pc'[p] # pc[p]
      BY <2>1, <2>3, <1>7 DEF SignsIn, GetsAnother
    <3>2. QED
      BY <3>1 DEF Same
  <2>8. \A q \in Requests \ {p} : Same(q)
    BY <2>7, OneMoves
  <2>9. presented'[p] # t
    BY <1>0, <1>7, <2>1, RequestTypes DEF SignsIn, GetsAnother, t
  <2>10. \A q \in Requests :
          /\ pc'[q] \in {"exchange", "consume", "date", "issue"} => presented'[q] # t
          /\ q # p /\ pc'[q] \in {"consume", "date", "issue"} => session'[q].token # t
    BY <2>3, <2>8, <2>9 DEF Same
  <2>11. QED
    BY <2>1, <2>2, <2>4, <2>5, <2>6, <2>10
<1>8. CASE ~SignsIn(p) /\ ~GetsAnother(p)
  <2>1. ~KeepsItsOwn(p)
    BY <1>5 DEF KeepsItsOwn, Pending
  <2>2. Same(p) \/ Consumes(p) \/ Dates(p)
    BY <1>4, <1>5, <1>8, <2>1 DEF Moves, Begins, Accepts, SignsInBare, Pending
  <2>3. session'[p].token = session[p].token
    BY <2>2, RequestTypes, SessionType DEF Same, Consumes, Dates
  <2>4. Pending(p)
    BY <1>0, <1>5, <2>2, <2>3 DEF Same, Consumes, Dates, Pending, Grows
  <2>5. QED
    BY <1>6, <2>3, <2>4
<1>9. QED
  BY <1>7, <1>8

LEMMA MarkedStep ==
  ASSUME TypeOK, Located, Earned, Unshared, Marked, [Next]_vars
  PROVE  Marked'
<1>0. Grows /\ issued \in Nat /\ 1..issued \subseteq Tokens
  BY StepGrows, IssuedTokens
\* Only the Issue of a token makes its record unconsumed.
<1>1. ASSUME NEW t \in Tokens, t \notin carried,
             records[t] = NoRecord \/ records[t].consumed,
             records'[t] # NoRecord, ~records'[t].consumed
      PROVE  \E p \in Requests : /\ pc[p] = "issue" /\ pc'[p] = "idle"
                                 /\ session[p].token = t
  <2>1. ASSUME NEW p \in Requests, pc[p] = "consume",
               records'[t] = SpentRecord(record[p])
        PROVE  FALSE
    <3>1. record[p] \in Record
      BY <2>1, RequestTypes
    <3>2. QED
      BY <1>1, <2>1, <3>1, SpentType
  <2>2. QED
    BY <1>1, <2>1, StepRecords DEF RecordMoves
<1>2. SuccessConsumes'
  <2> SUFFICES ASSUME NEW t \in rotated' \ carried', t \in Tokens,
                      records'[t] # NoRecord, ~records'[t].consumed
               PROVE  FALSE
    BY TypeCorrectStep DEF SuccessConsumes, TypeOK
  <2>0. t \notin carried
    BY <1>0 DEF Grows
  <2>1. records[t] = NoRecord \/ records[t].consumed
    <3>1. CASE t \in rotated
      BY <2>0, <3>1 DEF Marked, SuccessConsumes
    <3>2. CASE t \notin rotated
      <4>1. PICK p \in Requests : pc[p] = "issue" /\ t = presented[p]
        BY <3>2, StepHistory DEF HistoryMoves
      <4>2. t # 0
        BY ConstantsAssumption DEF Tokens
      <4>3. QED
        BY <2>0, <4>1, <4>2 DEF Marked
    <3>3. QED
      BY <3>1, <3>2
  <2>2. PICK p \in Requests : pc[p] = "issue" /\ pc'[p] = "idle" /\ session[p].token = t
    BY <1>1, <2>0, <2>1
  <2>3. Pending(p)
    BY <2>0, <2>2, ConstantsAssumption DEF Pending, Tokens
  <2>4. t \notin rotated /\ \A q \in Requests : pc[q] = "issue" => presented[q] # t
    BY <2>2, <2>3 DEF Unshared
  <2>5. QED
    BY <2>4, StepHistory DEF HistoryMoves
<1>3. ASSUME NEW p \in Requests, pc'[p] \in {"date", "issue"},
             presented'[p] \notin carried' \cup {0}
      PROVE  \/ records'[presented'[p]] = NoRecord
             \/ records'[presented'[p]].consumed
  <2>1. CASE Same(p) \/ Dates(p)
    <3> DEFINE t == presented[p]
    <3>1. /\ pc[p] \in {"date", "issue"} /\ presented'[p] = t /\ t \notin carried
          /\ t \in Tokens /\ t # 0
      BY <1>0, <1>3, <2>1, RequestTypes DEF Same, Dates, Grows
    <3>2. records[t] = NoRecord \/ records[t].consumed
      BY <1>3, <3>1 DEF Marked
    <3>3. \A q \in Requests : pc[q] = "issue" => session[q].token # t
      BY <3>1 DEF Unshared, Pending
    <3> HIDE DEF t
    <3>4. QED
      BY <1>1, <3>1, <3>2, <3>3
  <2>2. CASE Consumes(p)
    <3>1. record[p] \in Record
      BY <2>2, RequestTypes DEF Consumes
    <3>2. records'[presented'[p]] = SpentRecord(record[p])
      BY <2>2 DEF Consumes
    <3>3. QED
      BY <3>1, <3>2, SpentType
  <2>3. CASE SignsIn(p) \/ SignsInBare(p)
    BY <1>3, <2>3 DEF SignsIn, SignsInBare
  <2>4. QED
    BY <1>3, <2>1, <2>2, <2>3, OneMoves
       DEF Moves, Begins, Accepts, GetsAnother, KeepsItsOwn
<1>4. QED
  BY <1>2, <1>3 DEF Marked

LEMMA DatedStep ==
  ASSUME TypeOK, Located, Unshared, Dated, [Next]_vars
  PROVE  Dated'
<1>0. Grows /\ 1..issued \subseteq Tokens /\ clock \in Nat
  BY StepGrows, IssuedTokens DEF TypeOK
<1>1. SUFFICES ASSUME NEW t \in Tokens, t \notin carried'
               PROVE  /\ records'[t] # NoRecord => recorded'[t] \in {0, records'[t].exp}
                      /\ recorded'[t] > clock' => records'[t] # NoRecord
                      /\ \A p \in Requests :
                           /\ pc'[p] \in {"exchange", "consume"}
                           /\ presented'[p] = t
                           => recorded'[t] \in {0, record'[p].exp}
  BY DEF Dated
<1>2. t \notin carried /\ recorded[t] \in Nat /\ t # 0
  <2>1. t \notin carried
    BY <1>0, <1>1 DEF Grows
  <2>2. recorded[t] \in Nat
    BY DEF TypeOK
  <2>3. t # 0
    BY ConstantsAssumption DEF Tokens
  <2>4. QED
    BY <2>1, <2>2, <2>3
<1>3. /\ records[t] # NoRecord => recorded[t] \in {0, records[t].exp}
      /\ recorded[t] > clock => records[t] # NoRecord
      /\ \A p \in Requests : pc[p] \in {"exchange", "consume"} /\ presented[p] = t =>
             recorded[t] \in {0, record[p].exp}
  BY <1>2 DEF Dated
<1>4. CASE recorded'[t] # recorded[t]
  <2>1. PICK i \in Requests :
          /\ pc[i] = "issue" /\ session[i].token = t
          /\ recorded'[t] = session[i].exp
          /\ records'[t] = Fresh(session[i].subject, session[i].exp)
    BY <1>4, StepHistory DEF HistoryMoves
  <2>2. /\ session[i].exp \in Nat
        /\ session[i].subject \in Subjects \cup {NoSubject}
        /\ t \in 1..issued
    BY <2>1, RequestTypes
  <2>3. records'[t] # NoRecord /\ records'[t].exp = recorded'[t]
    <3> DEFINE x == session[i].exp
               u == session[i].subject
    <3>1. x \in Nat /\ u \in Subjects \cup {NoSubject}
      BY <2>2
    <3>2. records'[t] = Fresh(u, x) /\ recorded'[t] = x
      BY <2>1
    <3> HIDE DEF x, u
    <3>3. Fresh(u, x) # NoRecord /\ Fresh(u, x).exp = x
      BY <3>1, FreshType
    <3>4. QED
      BY <3>2, <3>3
  <2>4. /\ records[t] = NoRecord
        /\ \A q \in Requests :
             pc[q] \in {"exchange", "consume", "date", "issue"} => presented[q] # t
    BY <1>2, <2>1 DEF Unshared, Pending
  <2>5. \A q \in Requests : pc'[q] \in {"exchange", "consume"} => presented'[q] # t
    BY <2>4, OneMoves DEF Same, Moves, Begins, SignsIn, SignsInBare, Accepts,
                          GetsAnother, KeepsItsOwn, Consumes, Dates
  <2>6. QED
    BY <2>3, <2>5
<1>5. CASE recorded'[t] = recorded[t]
  <2>1. records'[t] # NoRecord => recorded'[t] \in {0, records'[t].exp}
    <3> SUFFICES ASSUME records'[t] # NoRecord
                 PROVE  recorded[t] \in {0, records'[t].exp}
      BY <1>5
    <3>1. CASE records'[t] = records[t]
      BY <1>3, <3>1
    <3>2. ASSUME NEW p \in Requests, pc[p] = "consume", presented[p] = t,
                 records'[t] = SpentRecord(record[p])
          PROVE  recorded[t] \in {0, records'[t].exp}
      <4>1. record[p] \in Record
        BY <3>2, RequestTypes
      <4>2. records'[t].exp = record[p].exp
        BY <3>2, <4>1, SpentType
      <4>3. QED
        BY <1>3, <3>2, <4>2
    <3>3. ASSUME NEW p \in Requests, pc[p] = "issue", session[p].token = t
          PROVE  recorded[t] = 0
      BY <1>2, <3>3 DEF Unshared, Pending
    <3>4. QED
      BY <3>1, <3>2, <3>3, StepRecords DEF RecordMoves
  <2>2. recorded'[t] > clock' => records'[t] # NoRecord
    <3> SUFFICES ASSUME recorded[t] > clock' PROVE records'[t] # NoRecord
      BY <1>5
    <3>1. clock' \in Nat /\ clock <= clock'
      BY <1>0, ClockType DEF Grows
    <3>2. recorded[t] > clock /\ recorded[t] # 0
      BY <1>0, <1>2, <3>1
    <3>3. records[t] # NoRecord /\ records[t].exp = recorded[t]
      BY <1>3, <3>2
    <3>4. CASE records'[t] = NoRecord /\ clock >= records[t].exp
      BY <1>0, <1>2, <3>2, <3>3, <3>4
    <3>5. ASSUME NEW p \in Requests, pc[p] = "consume",
                 records'[t] = SpentRecord(record[p])
          PROVE  records'[t] # NoRecord
      BY <3>5, RequestTypes, SpentType
    <3>6. ASSUME NEW p \in Requests, pc[p] = "issue", session[p].token = t
          PROVE  FALSE
      BY <1>2, <3>2, <3>6 DEF Unshared, Pending
    <3>7. QED
      BY <3>3, <3>4, <3>5, <3>6, StepRecords DEF RecordMoves
  <2>3. ASSUME NEW p \in Requests, pc'[p] \in {"exchange", "consume"},
               presented'[p] = t
        PROVE  recorded'[t] \in {0, record'[p].exp}
    <3>1. CASE Accepts(p)
      BY <1>3, <1>5, <2>3, <3>1 DEF Accepts
    <3>2. CASE Same(p) \/ GetsAnother(p) \/ KeepsItsOwn(p)
      BY <1>3, <1>5, <2>3, <3>2 DEF Same, GetsAnother, KeepsItsOwn
    <3>3. QED
      BY <2>3, <3>1, <3>2, OneMoves
         DEF Moves, Begins, SignsIn, SignsInBare, Consumes, Dates
  <2>4. QED
    BY <2>1, <2>2, <2>3
<1>6. QED
  BY <1>4, <1>5
-----------------------------------------------------------------------------
\* Where an answer "unknown" or "reused" comes from.
AnswerMoves(p) ==
    \/ pc'[p] # "idle"
    \/ reply'[p] \notin {"refresh-token-unknown", "refresh-token-reused"}
    \/ /\ pc[p] = "idle" /\ reply'[p] = reply[p] /\ presented'[p] = presented[p]
    \/ pc[p] = "idle" /\ reply'[p] = "refresh-token-unknown"
    \/ /\ pc[p] = "date" /\ presented'[p] = presented[p] /\ presented[p] = 0
       /\ reply'[p] = "refresh-token-unknown"
    \/ /\ pc[p] = "read" /\ presented'[p] = presented[p]
       /\ \/ reply'[p] = "refresh-token-unknown" /\ records[presented[p]] = NoRecord
          \/ /\ reply'[p] = "refresh-token-reused"
             /\ records[presented[p]] # NoRecord /\ records[presented[p]].consumed

LEMMA StepAnswers ==
  ASSUME TypeOK, Located, [Next]_vars, NEW p \in Requests
  PROVE  AnswerMoves(p)
<1>1. ASSUME pc'[p] = pc[p], reply'[p] = reply[p], presented'[p] = presented[p]
      PROVE  AnswerMoves(p)
  BY <1>1 DEF AnswerMoves
<1>2. ASSUME NEW q \in Requests,
             NEW e \in Errors \ {"refresh-token-unknown", "refresh-token-reused"},
             Return(q, e), \A r \in Requests \ {q} : presented'[r] = presented[r]
      PROVE  AnswerMoves(p)
  <2>1. CASE q = p
    BY <1>2, <2>1, ReturnType DEF AnswerMoves
  <2>2. CASE q # p
    BY <1>1, <1>2, <2>2, ReturnType
  <2>3. QED
    BY <2>1, <2>2
<1>3. ASSUME NEW q \in Requests, NEW l \in PCs \ {"idle"}, Goto(q, l),
             \A r \in Requests \ {q} :
               reply'[r] = reply[r] /\ presented'[r] = presented[r]
      PROVE  AnswerMoves(p)
  <2>1. CASE q = p
    BY <1>3, <2>1, GotoType DEF AnswerMoves
  <2>2. CASE q # p
    BY <1>1, <1>3, <2>2, GotoType
  <2>3. QED
    BY <2>1, <2>2
<1>4. ASSUME NEW q \in Requests, NEW s \in Subjects, SignIn(q, s)
      PROVE  AnswerMoves(p)
  BY <1>3, <1>4, Labels DEF SignIn, TypeOK
<1>5. ASSUME NEW q \in Requests, NEW t \in delivered \cup {0}, Begin(q, t)
      PROVE  AnswerMoves(p)
  <2>1. pc[q] = "idle" /\ \A r \in Requests \ {q} : presented'[r] = presented[r]
    BY <1>5 DEF Begin, TypeOK
  <2>2. CASE Return(q, "provider-unavailable")
    BY <1>2, <2>1, <2>2, Labels
  <2>3. CASE Return(q, "refresh-token-unknown")
    <3>1. CASE q = p
      BY <2>1, <2>3, <3>1, ReturnType, Labels DEF AnswerMoves
    <3>2. CASE q # p
      BY <1>1, <2>1, <2>3, <3>2, ReturnType, Labels
    <3>3. QED
      BY <3>1, <3>2
  <2>4. CASE Goto(q, "read") /\ reply' = [reply EXCEPT ![q] = "nil"]
    BY <1>3, <2>1, <2>4, Labels DEF TypeOK
  <2>5. QED
    BY <1>5, <2>2, <2>3, <2>4 DEF Begin
<1>6. ASSUME NEW q \in Requests, Read(q) PROVE AnswerMoves(p)
  <2> DEFINE r == records[presented[q]]
  <2>1. pc[q] = "read" /\ presented' = presented
    BY <1>6 DEF Read
  <2>2. CASE Accepted(q, r)
    BY <1>3, <2>1, <2>2, Labels DEF Accepted
  <2>3. CASE Return(q, "provider-unavailable") \/ Return(q, "token-expired")
    BY <1>2, <2>1, <2>3, Labels
  <2>4. CASE \/ r = NoRecord /\ Return(q, "refresh-token-unknown")
             \/ r # NoRecord /\ r.consumed /\ Return(q, "refresh-token-reused")
    <3>1. CASE q = p
      BY <2>1, <2>4, <3>1, ReturnType, Labels DEF AnswerMoves
    <3>2. CASE q # p
      BY <1>1, <2>1, <2>4, <3>2, ReturnType, Labels
    <3>3. QED
      BY <3>1, <3>2
  <2>5. QED
    BY <1>6, <2>2, <2>3, <2>4 DEF Read, Refused
<1>7. ASSUME NEW q \in Requests, Exchange(q) PROVE AnswerMoves(p)
  <2>1. presented' = presented
    BY <1>7 DEF Exchange
  <2>2. \/ \E e \in Refusals \cup {"provider-unavailable"} : Return(q, e)
        \/ Goto(q, "consume") /\ UNCHANGED reply
    BY <1>7 DEF Exchange, ExchangeRefused, ExchangeRotates, ExchangeCarries, Granted
  <2>3. QED
    BY <1>2, <1>3, <2>1, <2>2, Labels
<1>8. ASSUME NEW q \in Requests, Consume(q) PROVE AnswerMoves(p)
  <2>1. /\ presented' = presented
        /\ Return(q, "provider-unavailable") \/ (Goto(q, "date") /\ UNCHANGED reply)
    BY <1>8 DEF Consume
  <2>2. QED
    BY <1>2, <1>3, <2>1, Labels
<1>9. ASSUME NEW q \in Requests, Issue(q) \/ Crash(q) PROVE AnswerMoves(p)
  <2>1. /\ presented' = presented
        /\ \/ Return(q, "provider-unavailable") \/ Return(q, "nil")
           \/ Return(q, "crashed")
    BY <1>9 DEF Issue, Crash
  <2>2. QED
    BY <1>2, <2>1, Labels
<1>10. CASE Tick \/ (\E t \in Tokens : Drop(t)) \/ UNCHANGED vars
  BY <1>1, <1>10 DEF Tick, Drop, vars
<1>11. ASSUME NEW q \in Requests, NEW s \in Subjects, SignInBare(q, s)
       PROVE  AnswerMoves(p)
  BY <1>3, <1>11, Labels DEF SignInBare, TypeOK
<1>12. ASSUME NEW q \in Requests, Date(q) PROVE AnswerMoves(p)
  <2>1. presented' = presented /\ pc[q] = "date"
    BY <1>12 DEF Date
  <2>2. CASE Return(q, "provider-unavailable") \/ (Goto(q, "issue") /\ UNCHANGED reply)
    BY <1>2, <1>3, <2>1, <2>2, Labels
  <2>3. CASE session[q].token = 0 /\ Return(q, "refresh-token-unknown")
    <3>1. presented[q] = 0
      BY <2>1, <2>3 DEF Located
    <3>2. CASE q = p
      BY <2>1, <2>3, <3>1, <3>2, ReturnType, Labels DEF AnswerMoves
    <3>3. CASE q # p
      BY <1>1, <2>1, <2>3, <3>3, ReturnType, Labels
    <3>4. QED
      BY <3>2, <3>3
  <2>4. QED
    BY <1>12, <2>2, <2>3 DEF Date
<1>13. QED
  BY <1>4, <1>5, <1>6, <1>7, <1>8, <1>9, <1>10, <1>11, <1>12 DEF Next
-----------------------------------------------------------------------------
\* The inductive invariant.
IInv == TypeOK /\ Located /\ Owned /\ Earned /\ Unshared /\ Marked /\ Dated

(***************************************************************************)
(* Through any interleaving of sign-ins and refreshes, failing seams, lost *)
(* answers and stopped processes: whatever is consumed has been rotated    *)
(* away or carried forward, and a replacement is known to the one Rotate   *)
(* that obtained it until its Issue has recorded it.                       *)
(***************************************************************************)
THEOREM Inductive == Spec => []IInv
<1>1. Init => Owned /\ Earned /\ Unshared /\ Marked /\ Dated
  <2> SUFFICES ASSUME Init PROVE Owned /\ Earned /\ Unshared /\ Marked /\ Dated
    OBVIOUS
  <2>1. /\ \A t \in Tokens : records[t] = NoRecord /\ recorded[t] = 0
        /\ \A p \in Requests : pc[p] = "idle"
        /\ rotated = {} /\ clock = 1
    BY DEF Init
  <2>2. Owned /\ Earned
    BY <2>1 DEF Owned, Earned, RecordedForItsOwner
  <2>3. Unshared /\ Marked /\ Dated
    BY <2>1 DEF Unshared, Pending, Marked, SuccessConsumes, Dated
  <2>4. QED
    BY <2>2, <2>3
<1>2. IInv /\ [Next]_vars => (Owned /\ Earned /\ Unshared /\ Marked /\ Dated)'
  BY OwnedStep, EarnedStep, UnsharedStep, MarkedStep, DatedStep DEF IInv
<1>3. QED
  BY <1>1, <1>2, TypeCorrect, PTL DEF Spec, IInv

(***************************************************************************)
(* A refresh refused as reuse presented a token the provider has rotated   *)
(* away or carried forward: Rotate's theft alarm is true.                  *)
(***************************************************************************)
THEOREM ReuseIsEarnedHolds == Spec => []ReuseIsEarned
<1>1. Init => ReuseIsEarned
  BY DEF Init, ReuseIsEarned
<1>2. ReuseIsEarned /\ IInv /\ [Next]_vars => ReuseIsEarned'
  <2> SUFFICES ASSUME ReuseIsEarned, IInv, [Next]_vars, NEW p \in Requests,
                      pc'[p] = "idle", reply'[p] = "refresh-token-reused"
               PROVE  presented'[p] \in spent' \cup carried'
    BY DEF ReuseIsEarned
  <2>1. AnswerMoves(p) /\ Grows
    BY StepAnswers, StepGrows DEF IInv
  <2>2. CASE /\ pc[p] = "idle" /\ reply'[p] = reply[p]
             /\ presented'[p] = presented[p]
    BY <2>1, <2>2 DEF ReuseIsEarned, Grows
  <2>3. CASE /\ pc[p] = "read" /\ presented'[p] = presented[p]
             /\ records[presented[p]] # NoRecord /\ records[presented[p]].consumed
    BY <2>1, <2>3, RequestTypes DEF IInv, Earned, Grows
  <2>4. QED
    BY <2>1, <2>2, <2>3 DEF AnswerMoves
<1>3. QED
  BY <1>1, <1>2, Inductive, PTL DEF Spec

(***************************************************************************)
(* A consumed record stays consumed until its TTL drops it: no Rotate with *)
(* an older copy of it, and no Issue, makes its token presentable again.   *)
(***************************************************************************)
THEOREM ConsumedStaysConsumedHolds == Spec => ConsumedStaysConsumed
<1>1. ASSUME IInv, [Next]_vars, NEW t \in Tokens \ carried,
             records[t] # NoRecord, records[t].consumed
      PROVE  \/ records'[t] = NoRecord /\ clock >= records[t].exp
             \/ records'[t] # NoRecord /\ records'[t].consumed
  <2>1. RecordMoves(t)
    BY <1>1, StepRecords DEF IInv
  <2>2. ASSUME NEW p \in Requests, pc[p] = "consume",
               records'[t] = SpentRecord(record[p])
        PROVE  records'[t] # NoRecord /\ records'[t].consumed
    <3>1. record[p] \in Record
      BY <1>1, <2>2, RequestTypes DEF IInv
    <3>2. QED
      BY <2>2, <3>1, SpentType
  <2>3. ASSUME NEW p \in Requests, pc[p] = "issue", session[p].token = t
        PROVE  FALSE
    BY <1>1, <2>3, ConstantsAssumption DEF IInv, Unshared, Pending, Tokens
  <2>4. QED
    BY <1>1, <2>1, <2>2, <2>3 DEF RecordMoves
<1>2. IInv /\ [Next]_vars =>
        [\A t \in Tokens \ carried :
            records[t] # NoRecord /\ records[t].consumed =>
                \/ records'[t] = NoRecord /\ clock >= records[t].exp
                \/ records'[t] # NoRecord /\ records'[t].consumed]_vars
  BY <1>1
<1>3. QED
  BY <1>2, Inductive, PTL DEF Spec, ConsumedStaysConsumed

(***************************************************************************)
(* A token whose Rotate has reported success is refused as reuse from then *)
(* on, for as long as the store keeps its record.                          *)
(***************************************************************************)
THEOREM SuccessConsumesHolds == Spec => []SuccessConsumes
<1>1. IInv => SuccessConsumes
  BY DEF IInv, Marked
<1>2. QED
  BY <1>1, Inductive, PTL

(***************************************************************************)
(* A token that Issue has recorded, and the provider has not rotated away, *)
(* can be rotated until it expires.                                        *)
(***************************************************************************)
THEOREM DeliveredIsRotatableHolds == Spec => []DeliveredIsRotatable
<1>1. IInv => DeliveredIsRotatable
  BY DEF IInv, Dated, Earned, DeliveredIsRotatable
<1>2. QED
  BY <1>1, Inductive, PTL

(***************************************************************************)
(* A token is recorded for the user the provider issued it to, through any *)
(* number of rotations whose answers name no subject.                      *)
(***************************************************************************)
THEOREM RecordedForItsOwnerHolds == Spec => []RecordedForItsOwner
<1>1. IInv => RecordedForItsOwner
  BY DEF IInv, Owned
<1>2. QED
  BY <1>1, Inductive, PTL

(***************************************************************************)
(* Rotate answers "unknown" only for a token that no Issue has recorded    *)
(* yet, that is past its expiry, or that the provider carried forward.     *)
(***************************************************************************)
THEOREM UnknownIsNoReplayHolds == Spec => UnknownIsNoReplay
<1>1. ASSUME IInv, [Next]_vars, NEW p \in Requests, pc[p] # "idle", pc'[p] = "idle",
             reply'[p] = "refresh-token-unknown"
      PROVE  \/ presented[p] \in carried \cup {0}
             \/ recorded[presented[p]] <= clock
  <2>0. SUFFICES ASSUME presented[p] \notin carried \cup {0}
                 PROVE  recorded[presented[p]] <= clock
    OBVIOUS
  <2>1. pc[p] = "read" /\ records[presented[p]] = NoRecord
    BY <1>1, <2>0, StepAnswers DEF IInv, AnswerMoves
  <2>2. presented[p] \in Tokens
    BY <1>1, <2>1, RequestTypes DEF IInv
  <2>3. recorded[presented[p]] \in Nat /\ clock \in Nat
    BY <1>1, <2>2 DEF IInv, TypeOK
  <2>4. QED
    BY <1>1, <2>0, <2>1, <2>2, <2>3 DEF IInv, Dated
<1>2. IInv /\ [Next]_vars =>
        [\A p \in Requests :
            /\ pc[p] # "idle" /\ pc'[p] = "idle"
            /\ reply'[p] = "refresh-token-unknown"
            => \/ presented[p] \in carried \cup {0}
               \/ recorded[presented[p]] <= clock]_vars
  BY <1>1
<1>3. QED
  BY <1>2, Inductive, PTL DEF Spec, UnknownIsNoReplay
-----------------------------------------------------------------------------
(* Where the documents are right.                                          *)

(***************************************************************************)
(* "The presented refresh token has already been rotated away" (Rotate):   *)
(* true of a provider that returns a replacement on every exchange - and   *)
(* of no other, as the run rotation_carry shows.                           *)
(***************************************************************************)
THEOREM ReuseMeansRotatedAwayHolds ==
  ASSUME FALSE \notin Rotates
  PROVE  Spec => []ReuseMeansRotatedAway
<1> DEFINE NoneCarried == carried = {}
<1>1. Init => NoneCarried
  BY DEF Init
<1>2. NoneCarried /\ [Next]_vars => NoneCarried'
  <2>1. ASSUME NEW p \in Requests, Exchange(p) PROVE UNCHANGED carried
    BY <2>1 DEF Exchange, ExchangeRefused, ExchangeRotates, ExchangeCarries
  <2>2. QED
    BY <2>1
    DEF Next, SignIn, SignInBare, Begin, Read, Consume, Date, Issue, Crash, Tick, Drop,
        history, vars
<1>3. ReuseIsEarned /\ NoneCarried => ReuseMeansRotatedAway
  BY DEF ReuseIsEarned, ReuseMeansRotatedAway
<1> HIDE DEF NoneCarried
<1>4. QED
  BY <1>1, <1>2, <1>3, ReuseIsEarnedHolds, PTL DEF Spec
=============================================================================
