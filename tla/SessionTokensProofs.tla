--------------------------- MODULE SessionTokensProofs --------------------------
(***************************************************************************)
(* What TLAPS proves of SessionTokens, for every resource tree, every      *)
(* lifetime and skew, every way the provider rotates and refuses, and any  *)
(* number of rotations.                                                    *)
(***************************************************************************)
EXTENDS SessionTokens, FiniteSetTheorems, TLAPS

\* A token handed out of the store was usable when the call began.
Dated(k) ==
    k.hit => /\ k.at = "done"
             /\ k.token \in AccessToken
             /\ k.now + Skew < k.token.exp

\* What a management call knows of the clock and of what it has done.
Told(k, time) ==
    /\ k.now <= time
    /\ k.at \in {"idle", "post", "answer", "call", "called"}
    /\ k.answer.next = 0
    /\ k.at = "called" /\ k.answer.status = 200 =>
          k.did /\ k.now + OneTimeLifetime <= k.answer.dies
    /\ k.at = "idle" /\ k.does # "none" /\ k.err = "nil" =>
          /\ k.did
          /\ k.does = "onetime" => k.token # NoToken /\ k.token.exp <= k.token.dies

\* The tasks an answer with a replacement is on its way to.
Replacing == {t \in Tasks : task[t].at = "answer" /\ task[t].answer.next # 0}

\* A replacement on its way is what the provider accepts, nobody holds it yet,
\* and there is one at most.
Alone ==
    /\ \A t \in Replacing : task[t].answer.next = live /\ session < live /\ source < live
    /\ \A t, s \in Replacing : t = s

\* Where the replacement of a dead session is: under way, or dropped.
Accounted == session # live => dropped # {} \/ Replacing # {}

\* Nothing of a batch is under way when there is none.
Quiet == batch # "running" => \A r \in Resources : task[r].at = "idle"

\* A refusal replaces nothing.
Bare == \A t \in Tasks : task[t].answer.status # 200 => task[t].answer.next = 0

\* The inductive invariant.
Inv ==
    /\ TypeOK
    /\ \A t \in Tasks : Dated(task[t])
    /\ Told(task[Managing], clock)
    /\ Alone /\ Accounted /\ Quiet /\ Bare

--------------------------------------------------------------------------------
LEMMA Constant ==
  /\ Resources \subseteq Tasks /\ Refreshing \in Tasks /\ Managing \in Tasks
  /\ Managing \notin Resources /\ Refreshing \notin Resources /\ Refreshing # Managing
  /\ Skew \in Nat /\ AccessLifetime \in Nat /\ OneTimeLifetime \in Nat
  /\ MaxTime \in Nat /\ MaxRotations \in Nat
  /\ ExpiresIn \subseteq Nat /\ Troubles \subseteq Nat /\ 200 \notin Troubles
  /\ NoToken \notin AccessToken
BY ConfigAssumption DEF ConfigAssumption, Tasks

LEMMA RestIsACall ==
  /\ Rest \in Calls /\ Dated(Rest) /\ Rest.answer.next = 0 /\ Rest.at = "idle"
  /\ Rest.answer.status = 500 /\ ~Rest.hit
BY DEF Rest, Calls, Refused, Answers, Phases, Problems, Dated

\* A step of one task that leaves the refresh tokens of all where they are.
LEMMA OneTask ==
  ASSUME Inv, NEW t \in Tasks, NEW k \in Calls,
         task' = [task EXCEPT ![t] = k],
         UNCHANGED <<use, policy, clock, live, session, source, batch>>,
         Dated(k), k.answer.status # 200 => k.answer.next = 0,
         t = Managing => Told(k, clock),
         k.at = "answer" => k.answer.next = 0,
         t \in Resources => batch = "running",
         dropped \subseteq dropped', dropped' \subseteq {"unused", "lost"},
         t \in Replacing => dropped' # {},
         store' \in [Resources -> AccessToken \cup {NoToken}],
         \A r \in Resources : store'[r] # NoToken => store'[r].resource = r
  PROVE  Inv'
<1>1. TypeOK'
  <2>1. task' \in [Tasks -> Calls]
    BY DEF Inv, TypeOK
  <2>2. QED
    BY <2>1 DEF Inv, TypeOK
<1>2. task'[t] = k /\ \A s \in Tasks \ {t} : task'[s] = task[s]
  BY DEF Inv, TypeOK
<1>3. \A s \in Tasks : Dated(task'[s])
  BY <1>2 DEF Inv
<1>4. Told(task'[Managing], clock')
  BY <1>2, Constant DEF Inv
<1>5. Replacing' = Replacing \ {t}
  BY <1>2 DEF Replacing
<1>6. Alone'
  BY <1>2, <1>5 DEF Inv, Alone
<1>7. Accounted'
  BY <1>5 DEF Inv, Accounted
<1>8. Quiet'
  BY <1>2, Constant DEF Inv, Quiet
<1>9. Bare'
  BY <1>2 DEF Inv, Bare
<1>10. QED
  BY <1>1, <1>3, <1>4, <1>6, <1>7, <1>8, <1>9 DEF Inv

\* What Return leaves of a task whose token, if any, does not come from the store.
Returned(t, token, problem) ==
    [Rest EXCEPT !.at = IF t \in Resources THEN "done" ELSE "idle",
                 !.does = task[t].does, !.did = task[t].did,
                 !.token = token, !.err = problem, !.hit = FALSE,
                 !.now = 0, !.since = 0]

LEMMA ReturnFacts ==
  ASSUME TypeOK, NEW t \in Tasks, NEW token \in AccessToken \cup {NoToken},
         NEW problem \in Problems
  PROVE  LET k == Returned(t, token, problem) IN
         /\ k \in Calls /\ k.answer = Rest.answer
         /\ k.at = (IF t \in Resources THEN "done" ELSE "idle")
         /\ k.does = task[t].does /\ k.did = task[t].did /\ k.token = token
         /\ k.err = problem /\ ~k.hit /\ k.now = 0
<1>1. task[t] \in Calls
  BY DEF TypeOK
<1>2. Rest \in Calls
  BY RestIsACall
<1>3. QED
  BY <1>1, <1>2 DEF Returned, Calls, Phases

\* A call that fails keeps the invariant, provided the replacement its answer
\* carried is written off.
LEMMA Failing ==
  ASSUME Inv, NEW t \in Tasks, NEW problem \in Problems \ {"nil"},
         Fail(t, problem),
         UNCHANGED <<use, policy, clock, live, session, source, batch>>,
         t \in Resources => batch = "running",
         dropped \subseteq dropped', dropped' \subseteq {"unused", "lost"},
         t \in Replacing => dropped' # {},
         store' \in [Resources -> AccessToken \cup {NoToken}],
         \A r \in Resources : store'[r] # NoToken => store'[r].resource = r
  PROVE  Inv'
<1> DEFINE k == Returned(t, NoToken, problem)
<1>1. /\ TypeOK /\ clock \in Nat
      /\ problem \in Problems /\ problem # "nil"
      /\ NoToken \in AccessToken \cup {NoToken}
  BY Constant DEF Inv, TypeOK
<1>2. task' = [task EXCEPT ![t] = k]
  BY DEF Fail, Return, Returned
<1>3. /\ k \in Calls /\ k.answer = Rest.answer
      /\ k.at = (IF t \in Resources THEN "done" ELSE "idle")
      /\ k.err = problem /\ ~k.hit /\ k.now = 0
  BY <1>1, ReturnFacts
<1> HIDE DEF k
<1>4. Dated(k) /\ k.answer.next = 0 /\ k.at # "answer"
  <2>1. Dated(k)
    BY <1>3 DEF Dated
  <2>2. k.answer.next = 0
    BY <1>3, RestIsACall
  <2>3. QED
    BY <1>3, <2>1, <2>2
<1>5. t = Managing => Told(k, clock)
  BY <1>1, <1>3, <1>4, Constant DEF Told
<1>6. QED
  BY <1>2, <1>3, <1>4, <1>5, OneTask

LEMMA Unstored ==
  ASSUME TypeOK, UNCHANGED store
  PROVE  /\ store' \in [Resources -> AccessToken \cup {NoToken}]
         /\ \A r \in Resources : store'[r] # NoToken => store'[r].resource = r
BY DEF TypeOK

\* Only a resource whose batch runs is under way.
LEMMA Running ==
  ASSUME Inv, NEW t \in Tasks, task[t].at # "idle"
  PROVE  t \in Resources => batch = "running"
BY DEF Inv, Quiet

--------------------------------------------------------------------------------
(* The calls of the client.                                                 *)

\* What the token endpoint answers, and when it replaces the refresh token.
LEMMA Answering ==
  ASSUME TypeOK, NEW t \in Tasks, NEW served \in TokenEndpoint(t)
  PROVE  /\ served.answer \in Answers
         /\ served.answer.status # 200 => served.answer.next = 0
         /\ \/ served.live = live /\ served.answer.next = 0
            \/ /\ Presented(t) = live /\ Presented(t) # 0 /\ live <= MaxRotations
               /\ served.live = live + 1 /\ served.answer.next = live + 1
<1>1. clock \in Nat /\ live \in Nat
  BY Constant DEF TypeOK
<1>2. ASSUME NEW status \in Troubles \cup {400}
      PROVE  Refused(status) \in Answers /\ Refused(status).next = 0
  BY <1>2, Constant DEF Refused, Answers
<1>3. ASSUME NEW life \in ExpiresIn, NEW next \in Nat
      PROVE  /\ Grant(life, next) \in Answers
             /\ Grant(life, next).next = next /\ Grant(life, next).status = 200
  <2>1. Lasting(life) \in Nat
    BY Constant DEF Lasting
  <2>2. clock + Lasting(life) \in Nat
    BY <2>1, <1>1
  <2>3. QED
    BY <2>2 DEF Grant, Answers
<1>4. CASE \E status \in Troubles \cup {400} :
              served = [answer |-> Refused(status), live |-> live]
  BY <1>2, <1>4
<1>5. CASE /\ Presented(t) \in {0, live} /\ Presented(t) # 0 /\ live <= MaxRotations
           /\ \E life \in ExpiresIn :
                 served = [answer |-> Grant(life, live + 1), live |-> live + 1]
  BY <1>1, <1>3, <1>5
<1>6. CASE \E life \in ExpiresIn : served = [answer |-> Grant(life, 0), live |-> live]
  BY <1>3, <1>6
<1>7. QED
  BY <1>4, <1>5, <1>6 DEF TokenEndpoint

LEMMA PostStep ==
  ASSUME Inv, NEW t \in Tasks, Post(t)
  PROVE  Inv'
<1>1. /\ TypeOK /\ task[t] \in Calls /\ task[t].at = "post" /\ Dated(task[t])
      /\ t \in Resources => batch = "running"
      /\ t \notin Replacing
  BY Running DEF Inv, TypeOK, Post, Replacing
<1>2. CASE Fail(t, "provider-unavailable") /\ UNCHANGED live
  BY <1>1, <1>2, Failing, Unstored DEF Post, Inv, TypeOK, Problems
<1>3. ASSUME NEW served \in TokenEndpoint(t),
             live' = served.live,
             task' = [task EXCEPT ![t].at = "answer", ![t].answer = served.answer]
      PROVE  Inv'
  <2> DEFINE k == [task[t] EXCEPT !.at = "answer", !.answer = served.answer]
  <2>1. task' = [task EXCEPT ![t] = k]
    BY <1>1, <1>3 DEF TypeOK
  <2>2. /\ served.answer \in Answers
        /\ served.answer.status # 200 => served.answer.next = 0
    BY <1>1, Answering
  <2>3. /\ k \in Calls /\ k.at = "answer" /\ k.answer = served.answer
        /\ k.hit = task[t].hit /\ k.now = task[t].now
    BY <1>1, <2>2 DEF Calls, Phases
  <2> HIDE DEF k
  <2>4. Dated(k)
    BY <1>1, <2>3 DEF Dated
  <2>5. t = Managing /\ k.answer.next = 0 => Told(k, clock)
    BY <2>3 DEF Inv, Told
  <2>6. CASE served.live = live /\ served.answer.next = 0
    BY <1>1, <1>3, <2>1, <2>2, <2>3, <2>4, <2>5, <2>6, OneTask, Unstored DEF Post, Inv, TypeOK
  <2>7. CASE /\ Presented(t) = live /\ Presented(t) # 0 /\ live <= MaxRotations
             /\ served.live = live + 1 /\ served.answer.next = live + 1
    <3>1. /\ live \in Nat /\ live >= 1 /\ session \in 1..live /\ source \in 1..live
          /\ live + 1 \in 1..(MaxRotations + 1)
      BY <2>7, <1>1, Constant DEF TypeOK
    <3>2. t # Managing /\ (session = live \/ source = live)
      BY <2>7 DEF Presented
    <3>3. Replacing = {}
      BY <3>1, <3>2 DEF Inv, Alone
    <3>4. task'[t] = k /\ \A s \in Tasks \ {t} : task'[s] = task[s]
      BY <2>1, <1>1 DEF TypeOK
    <3>5. Replacing' = {t}
      BY <3>1, <3>3, <3>4, <2>3, <2>7 DEF Replacing
    <3>6. TypeOK'
      <4>1. task' \in [Tasks -> Calls]
        BY <2>1, <2>3, <1>1 DEF TypeOK
      <4>2. live' \in 1..(MaxRotations + 1) /\ session' \in 1..live' /\ source' \in 1..live'
        BY <3>1, <2>7, <1>3 DEF Post
      <4>3. QED
        BY <4>1, <4>2, <1>1 DEF TypeOK, Post
    <3>7. \A s \in Tasks : Dated(task'[s])
      BY <3>4, <2>4 DEF Inv
    <3>8. Told(task'[Managing], clock')
      BY <3>2, <3>4, Constant DEF Inv, Post
    <3>9. Alone'
      BY <3>1, <3>4, <3>5, <2>3, <2>7, <1>3 DEF Alone, Post
    <3>10. Accounted'
      BY <3>5 DEF Accounted
    <3>11. Quiet'
      BY <3>4, <1>1, Constant DEF Inv, Quiet, Post
    <3>12. Bare'
      BY <3>4, <2>2, <2>3 DEF Inv, Bare
    <3>13. QED
      BY <3>6, <3>7, <3>8, <3>9, <3>10, <3>11, <3>12 DEF Inv
  <2>8. QED
    BY <2>6, <2>7, <1>1, Answering
<1>4. QED
  BY <1>2, <1>3 DEF Post

LEMMA LoseAnswerStep ==
  ASSUME Inv, NEW t \in Tasks, LoseAnswer(t)
  PROVE  Inv'
<1>1. /\ TypeOK /\ dropped \subseteq {"unused", "lost"}
      /\ t \in Resources => batch = "running"
      /\ "provider-unavailable" \in Problems \ {"nil"}
  BY Running DEF Inv, TypeOK, LoseAnswer, Problems
<1>2. /\ dropped \subseteq dropped' /\ dropped' \subseteq {"unused", "lost"}
      /\ t \in Replacing => dropped' # {}
  BY <1>1 DEF LoseAnswer, Replacing
<1>3. QED
  BY <1>1, <1>2, Failing, Unstored DEF LoseAnswer

LEMMA RefusalStep ==
  ASSUME Inv, NEW t \in Tasks, Refusal(t)
  PROVE  Inv'
<1>1. /\ TypeOK /\ dropped \subseteq {"unused", "lost"}
      /\ t \in Resources => batch = "running"
  BY Running DEF Inv, TypeOK, Refusal
<1>2. classifyStatus(task[t].answer.status) \in Problems \ {"nil"}
  BY DEF classifyStatus, Problems
<1>3. t \notin Replacing
  BY DEF Refusal, Replacing, Inv, Bare
<1>4. QED
  BY <1>1, <1>2, <1>3, Failing, Unstored DEF Refusal

\* The token a grant carries.
LEMMA TokenFacts ==
  ASSUME TypeOK, NEW t \in Tasks
  PROVE  accessToken(t, task[t].answer) \in AccessToken
<1>1. /\ task[t].answer.life \in Nat /\ task[t].answer.dies \in Nat /\ clock \in Nat
  <2>1. task[t].answer \in Answers /\ clock \in Nat
    BY Constant DEF TypeOK, Calls
  <2>2. task[t].answer.life \in ExpiresIn \cup {0} /\ task[t].answer.dies \in Nat
    BY <2>1 DEF Answers
  <2>3. ExpiresIn \cup {0} \subseteq Nat
    BY Constant
  <2>4. QED
    BY <2>1, <2>2, <2>3
<1>2. Lasting(task[t].answer.life) \in Nat
  BY <1>1, Constant DEF Lasting
<1>3. clock + Lasting(task[t].answer.life) \in Nat
  BY <1>1, <1>2
<1>4. QED
  BY <1>1, <1>3 DEF accessToken, AccessToken

LEMMA ReceiveTokenStep ==
  ASSUME Inv, NEW r \in Resources, ReceiveToken(r)
  PROVE  Inv'
<1> DEFINE token == accessToken(r, task[r].answer)
           k == Returned(r, token, "nil")
<1>1. /\ TypeOK /\ r \in Tasks /\ r # Managing /\ batch = "running"
      /\ dropped \subseteq {"unused", "lost"}
  BY Running, Constant DEF Inv, TypeOK, ReceiveToken, Granted
<1>2. token \in AccessToken /\ token.resource = r
  BY <1>1, TokenFacts DEF accessToken
<1>3. /\ dropped \subseteq dropped' /\ dropped' \subseteq {"unused", "lost"}
      /\ r \in Replacing => dropped' # {}
  BY <1>1 DEF ReceiveToken, Replacing
<1> HIDE DEF token
<1>4. ASSUME store' \in {store, [store EXCEPT ![r] = token]}
      PROVE  /\ store' \in [Resources -> AccessToken \cup {NoToken}]
             /\ \A s \in Resources : store'[s] # NoToken => store'[s].resource = s
  BY <1>1, <1>2, <1>4 DEF TypeOK
<1>5. CASE /\ Return(r, token, "nil", FALSE)
           /\ store' = [store EXCEPT ![r] = token]
  <2>1. task' = [task EXCEPT ![r] = k]
    BY <1>5 DEF Return, Returned
  <2>2. "nil" \in Problems /\ token \in AccessToken \cup {NoToken}
    BY <1>2 DEF Problems
  <2>3. k \in Calls /\ k.answer = Rest.answer /\ k.at = "done" /\ ~k.hit
    BY <2>2, <1>1, ReturnFacts
  <2> HIDE DEF k
  <2>4. Dated(k) /\ k.answer.next = 0
    BY <2>3, RestIsACall DEF Dated
  <2>5. QED
    BY <2>1, <2>3, <2>4, <1>1, <1>3, <1>4, <1>5, OneTask DEF ReceiveToken
<1>6. CASE /\ Fail(r, "provider-unavailable")
           /\ store' \in {store, [store EXCEPT ![r] = token]}
  <2>1. "provider-unavailable" \in Problems \ {"nil"}
    BY DEF Problems
  <2>2. QED
    BY <2>1, <1>1, <1>3, <1>4, <1>6, Failing DEF ReceiveToken
<1>7. QED
  BY <1>5, <1>6 DEF ReceiveToken, token

LEMMA ReceiveSessionStep ==
  ASSUME Inv, ReceiveSession
  PROVE  Inv'
<1> DEFINE k == Returned(Refreshing, NoToken, "nil")
           next == task[Refreshing].answer.next
<1>1. /\ TypeOK /\ Refreshing \in Tasks /\ Refreshing # Managing /\ Refreshing \notin Resources
      /\ task[Refreshing].at = "answer"
      /\ UNCHANGED <<use, policy, clock, live, source, store, batch, dropped>>
      /\ dropped \subseteq {"unused", "lost"}
  BY Constant DEF Inv, TypeOK, ReceiveSession, Granted
<1>2. task' = [task EXCEPT ![Refreshing] = k]
  BY DEF ReceiveSession, Return, Returned
<1>3. "nil" \in Problems /\ NoToken \in AccessToken \cup {NoToken}
  BY DEF Problems
<1>4. k \in Calls /\ k.answer = Rest.answer /\ k.at = "idle" /\ ~k.hit
  BY <1>1, <1>3, ReturnFacts
<1> HIDE DEF k
<1>5. Dated(k) /\ k.answer.next = 0
  BY <1>4, RestIsACall DEF Dated
<1>6. CASE next = 0
  <2>1. session' = session /\ Refreshing \notin Replacing
    BY <1>6 DEF ReceiveSession, Refreshed, Replacing
  <2>2. QED
    BY <2>1, <1>1, <1>2, <1>4, <1>5, OneTask, Unstored
<1>7. CASE next # 0
  <2>1. Refreshing \in Replacing
    BY <1>1, <1>7 DEF Replacing
  <2>2. session' = live
    BY <2>1, <1>7 DEF ReceiveSession, Refreshed, Inv, Alone
  <2>3. task'[Refreshing] = k /\ \A s \in Tasks \ {Refreshing} : task'[s] = task[s]
    BY <1>1, <1>2 DEF TypeOK
  <2>4. Replacing' = {}
    BY <2>1, <2>3, <1>4 DEF Replacing, Inv, Alone
  <2>5. TypeOK'
    <3>1. task' \in [Tasks -> Calls]
      BY <1>1, <1>2, <1>4 DEF TypeOK
    <3>2. session' \in 1..live' /\ live' = live
      BY <2>2, <1>1, Constant DEF TypeOK
    <3>3. QED
      BY <3>1, <3>2, <1>1 DEF TypeOK
  <2>6. \A s \in Tasks : Dated(task'[s])
    BY <2>3, <1>5 DEF Inv
  <2>7. Told(task'[Managing], clock')
    BY <2>3, <1>1, Constant DEF Inv
  <2>8. Alone' /\ Accounted'
    BY <2>2, <2>4, <1>1 DEF Alone, Accounted
  <2>9. Quiet'
    BY <2>3, <1>1, Constant DEF Inv, Quiet
  <2>10. Bare'
    BY <2>3, <1>5 DEF Inv, Bare
  <2>11. QED
    BY <2>5, <2>6, <2>7, <2>8, <2>9, <2>10 DEF Inv
<1>8. QED
  BY <1>6, <1>7

LEMMA BeginStep ==
  ASSUME Inv,
         BeginRefresh \/ \E does \in {"onetime", "claim"} : BeginManage(does)
  PROVE  Inv'
<1>1. TypeOK /\ clock \in Nat /\ dropped \subseteq {"unused", "lost"}
  BY Constant DEF Inv, TypeOK
<1>2. CASE BeginRefresh
  <2> DEFINE k == [Rest EXCEPT !.at = "post"]
  <2>1. /\ k \in Calls /\ k.at = "post" /\ k.answer.next = 0 /\ Dated(k)
    BY RestIsACall DEF Calls, Phases, Dated
  <2>2. task' = [task EXCEPT ![Refreshing] = k] /\ Refreshing \notin Replacing
    BY <1>2 DEF BeginRefresh, Replacing
  <2> HIDE DEF k
  <2>3. QED
    BY <2>1, <2>2, <1>1, <1>2, OneTask, Unstored, Constant DEF BeginRefresh
<1>3. ASSUME NEW does \in {"onetime", "claim"}, BeginManage(does)
      PROVE  Inv'
  <2>1. PICK at \in {"post", "idle"} :
          task' = [task EXCEPT ![Managing] =
            [Rest EXCEPT !.at = at, !.does = does, !.now = clock,
                         !.err = IF at = "post" THEN "nil" ELSE "token-claim-missing"]]
    BY <1>3 DEF BeginManage
  <2> DEFINE k == [Rest EXCEPT !.at = at, !.does = does, !.now = clock,
                         !.err = IF at = "post" THEN "nil" ELSE "token-claim-missing"]
  <2>2. /\ k \in Calls /\ k.at = at /\ k.answer.next = 0 /\ ~k.hit /\ k.now = clock
        /\ k.err = (IF at = "post" THEN "nil" ELSE "token-claim-missing")
    <3>1. Rest \in Calls /\ Rest.answer.next = 0 /\ ~Rest.hit
      BY RestIsACall
    <3>2. at \in Phases /\ (IF at = "post" THEN "nil" ELSE "token-claim-missing") \in Problems
      BY DEF Phases, Problems
    <3>3. /\ k \in Calls /\ k.at = at /\ k.answer = Rest.answer /\ k.now = clock
          /\ k.err = (IF at = "post" THEN "nil" ELSE "token-claim-missing")
          /\ k.hit = Rest.hit
      BY <1>1, <3>1, <3>2 DEF Calls
    <3>4. QED
      BY <3>1, <3>3
  <2> HIDE DEF k
  <2>3. Dated(k) /\ Told(k, clock)
    BY <2>2, <1>1 DEF Dated, Told
  <2>4. task' = [task EXCEPT ![Managing] = k] /\ Managing \notin Replacing
    BY <2>1, <1>3 DEF k, BeginManage, Replacing
  <2>5. QED
    BY <2>2, <2>3, <2>4, <1>1, <1>3, OneTask, Unstored, Constant DEF BeginManage
<1>4. QED
  BY <1>2, <1>3

LEMMA ManageStep ==
  ASSUME Inv, ReceiveManagement \/ Call \/ Called
  PROVE  Inv'
<1>1. /\ TypeOK /\ Managing \in Tasks /\ Managing \notin Resources
      /\ clock \in Nat /\ OneTimeLifetime \in Nat
      /\ task[Managing] \in Calls /\ Told(task[Managing], clock) /\ Dated(task[Managing])
      /\ Managing \notin Replacing /\ dropped \subseteq {"unused", "lost"}
  BY Constant DEF Inv, TypeOK, Told, Replacing
<1>2. CASE ReceiveManagement
  <2> DEFINE token == accessToken(Managing, task[Managing].answer)
             k == [task[Managing] EXCEPT !.at = "call", !.token = token]
  <2>1. task' = [task EXCEPT ![Managing] = k]
    BY <1>1, <1>2 DEF TypeOK, ReceiveManagement
  <2>2. token \in AccessToken /\ task[Managing].at = "answer"
    BY <1>1, <1>2, TokenFacts DEF ReceiveManagement, Granted
  <2> HIDE DEF token
  <2>3. /\ k \in Calls /\ k.at = "call" /\ k.answer = task[Managing].answer
        /\ k.now = task[Managing].now /\ k.hit = task[Managing].hit
    BY <1>1, <2>2 DEF Calls, Phases
  <2> HIDE DEF k
  <2>4. Dated(k) /\ Told(k, clock)
    BY <1>1, <2>2, <2>3 DEF Dated, Told
  <2>5. k.answer.status # 200 => k.answer.next = 0
    BY <1>1, <2>3 DEF Told
  <2>6. QED
    BY <1>1, <1>2, <2>1, <2>3, <2>4, <2>5, OneTask, Unstored DEF ReceiveManagement
<1>3. CASE Call
  <2>1. CASE Fail(Managing, "provider-unavailable")
    <3>1. "provider-unavailable" \in Problems \ {"nil"}
      BY DEF Problems
    <3>2. QED
      BY <1>1, <1>3, <2>1, <3>1, Failing, Unstored DEF Call
  <2>2. ASSUME NEW answer \in Answers, answer.next = 0, answer.status # 200,
               task' = [task EXCEPT ![Managing].at = "called",
                                    ![Managing].answer = answer]
        PROVE  Inv'
    <3> DEFINE k == [task[Managing] EXCEPT !.at = "called", !.answer = answer]
    <3>1. task' = [task EXCEPT ![Managing] = k]
      <4>1. task \in [Tasks -> Calls] /\ Managing \in Tasks
        BY <1>1 DEF TypeOK
      <4>2. task' = [task EXCEPT ![Managing].at = "called", ![Managing].answer = answer]
        BY <2>2
      <4>3. QED
        BY <4>1, <4>2
    <3>2. /\ answer \in Answers /\ answer.next = 0 /\ answer.status # 200
      BY <2>2
    <3>3. /\ k \in Calls /\ k.at = "called" /\ k.answer = answer
          /\ k.now = task[Managing].now /\ k.hit = task[Managing].hit
      BY <1>1, <3>2 DEF Calls, Phases
    <3> HIDE DEF k
    <3>4. Dated(k) /\ Told(k, clock)
      BY <1>1, <1>3, <3>2, <3>3 DEF Dated, Told, Call
    <3>5. QED
      BY <1>1, <1>3, <3>1, <3>2, <3>3, <3>4, OneTask, Unstored DEF Call
  <2>3. CASE task' = [task EXCEPT
                ![Managing] = [@ EXCEPT !.at = "called", !.did = TRUE,
                    !.answer = [Grant(0, 0) EXCEPT !.dies = clock + OneTimeLifetime]]]
    <3> DEFINE answer == [Grant(0, 0) EXCEPT !.dies = clock + OneTimeLifetime]
               k == [task[Managing] EXCEPT !.at = "called", !.did = TRUE, !.answer = answer]
    <3>1. task' = [task EXCEPT ![Managing] = k]
      BY <2>3
    <3>2. /\ answer \in Answers /\ answer.next = 0
          /\ answer.dies = clock + OneTimeLifetime
      BY <1>1 DEF Grant, Answers
    <3> HIDE DEF answer
    <3>3. /\ k \in Calls /\ k.at = "called" /\ k.answer = answer /\ k.did
          /\ k.now = task[Managing].now /\ k.hit = task[Managing].hit
      BY <1>1, <3>2 DEF Calls, Phases
    <3> HIDE DEF k
    <3>4. k.now \in Nat /\ k.now + OneTimeLifetime <= clock + OneTimeLifetime
      BY <1>1, <3>3 DEF Told, Calls
    <3>5. Dated(k) /\ Told(k, clock)
      BY <1>1, <1>3, <3>2, <3>3, <3>4 DEF Dated, Told, Call
    <3>6. QED
      BY <1>1, <1>3, <3>1, <3>2, <3>3, <3>5, OneTask, Unstored DEF Call
  <2>4. ASSUME NEW status \in Troubles \cup {400}
        PROVE  /\ Refused(status) \in Answers /\ Refused(status).next = 0
               /\ Refused(status).status # 200
    BY <2>4, Constant DEF Refused, Answers
  <2>5. QED
    BY <1>3, <2>1, <2>2, <2>3, <2>4 DEF Call
<1>4. CASE Called
  <2> DEFINE token == IF task[Managing].does = "claim" THEN NoToken ELSE OneTimeToken
             k == Returned(Managing, token, "nil")
  <2>1. task' = [task EXCEPT ![Managing] = k]
    BY <1>4 DEF Called, Return, Returned
  <2>2. /\ task[Managing].now \in Nat /\ task[Managing].answer.dies \in Nat
        /\ task[Managing].now + OneTimeLifetime \in Nat
    <3>1. task[Managing].answer \in Answers /\ task[Managing].now \in Nat
      BY <1>1 DEF Calls
    <3>2. QED
      BY <3>1, <1>1 DEF Answers
  <2>3. OneTimeToken \in AccessToken /\ "nil" \in Problems
    BY <1>1, <2>2 DEF OneTimeToken, AccessToken, Problems
  <2>4. token \in AccessToken \cup {NoToken}
    BY <2>3
  <2>5. /\ k \in Calls /\ k.answer = Rest.answer /\ k.at = "idle"
        /\ k.does = task[Managing].does /\ k.did = task[Managing].did /\ k.token = token
        /\ ~k.hit /\ k.now = 0
    BY <1>1, <2>3, <2>4, ReturnFacts
  <2> HIDE DEF k
  <2>6. /\ task[Managing].did
        /\ task[Managing].now + OneTimeLifetime <= task[Managing].answer.dies
    BY <1>1, <1>4 DEF Told, Called
  <2>7. k.does = "onetime" => k.token # NoToken /\ k.token.exp <= k.token.dies
    BY <2>3, <2>5, <2>6, Constant DEF OneTimeToken
  <2>8. Dated(k) /\ k.answer.next = 0
    BY <2>5, RestIsACall DEF Dated
  <2>9. Told(k, clock)
    BY <1>1, <2>5, <2>6, <2>7, <2>8 DEF Told
  <2>10. QED
    BY <1>1, <1>4, <2>1, <2>5, <2>8, <2>9, OneTask, Unstored DEF Called
<1>5. QED
  BY <1>2, <1>3, <1>4

--------------------------------------------------------------------------------
(* The batch.                                                               *)

LEMMA StartStep ==
  ASSUME Inv, NEW r \in Resources, Start(r)
  PROVE  Inv'
<1>1. /\ TypeOK /\ r \in Tasks /\ r # Managing /\ batch = "running" /\ clock \in Nat
      /\ task[r] \in Calls /\ task[r].at = "queued" /\ Dated(task[r]) /\ r \notin Replacing
      /\ dropped \subseteq {"unused", "lost"}
  BY Running, Constant DEF Inv, TypeOK, Start, Replacing
<1>2. CASE task' = [task EXCEPT ![r].at = "look", ![r].now = clock]
  <2> DEFINE k == [task[r] EXCEPT !.at = "look", !.now = clock]
  <2>1. task' = [task EXCEPT ![r] = k]
    BY <1>1, <1>2 DEF TypeOK
  <2>2. /\ k \in Calls /\ k.at = "look" /\ k.answer = task[r].answer /\ k.hit = task[r].hit
    BY <1>1 DEF Calls, Phases
  <2> HIDE DEF k
  <2>3. Dated(k) /\ (k.answer.status # 200 => k.answer.next = 0)
    BY <1>1, <2>2 DEF Dated, Inv, Bare
  <2>4. QED
    BY <1>1, <2>1, <2>2, <2>3, OneTask, Unstored DEF Start
<1>3. CASE Fail(r, "provider-unavailable")
  <2>1. "provider-unavailable" \in Problems \ {"nil"}
    BY DEF Problems
  <2>2. QED
    BY <1>1, <1>3, <2>1, Failing, Unstored DEF Start
<1>4. QED
  BY <1>2, <1>3 DEF Start

\* A task that leaves the store with a token in hand.
LEMMA HitStep ==
  ASSUME Inv, NEW r \in Resources, task[r].at = "look", Usable(r, task[r].now),
         Return(r, store[r], "nil", TRUE),
         UNCHANGED <<use, policy, clock, live, session, source, store, batch, dropped>>
  PROVE  Inv'
<1> DEFINE k == [Rest EXCEPT !.at = "done",
                   !.does = task[r].does, !.did = task[r].did, !.token = store[r],
                   !.err = "nil", !.hit = TRUE, !.now = task[r].now, !.since = clock]
<1>1. /\ TypeOK /\ r \in Tasks /\ r # Managing /\ batch = "running" /\ clock \in Nat
      /\ task[r] \in Calls /\ r \notin Replacing /\ dropped \subseteq {"unused", "lost"}
  BY Running, Constant DEF Inv, TypeOK, Replacing
<1>2. task' = [task EXCEPT ![r] = k]
  BY DEF Return
<1>3. /\ store[r] \in AccessToken /\ task[r].now \in Nat
      /\ task[r].now + Skew < store[r].exp
  <2>1. store[r] \in AccessToken /\ task[r].now \in Nat /\ ~Expired(store[r], task[r].now)
    BY <1>1 DEF TypeOK, Usable, Calls
  <2>2. store[r].exp \in Nat
    BY <2>1 DEF AccessToken
  <2>3. QED
    BY <2>1, <2>2, Constant DEF Expired
<1>4. /\ k \in Calls /\ k.at = "done" /\ k.answer = Rest.answer /\ k.token = store[r]
      /\ k.now = task[r].now
  <2>1. Rest \in Calls
    BY RestIsACall
  <2>2. "done" \in Phases /\ "nil" \in Problems
    BY DEF Phases, Problems
  <2>3. QED
    BY <1>1, <1>3, <2>1, <2>2 DEF Calls
<1> HIDE DEF k
<1>5. Dated(k) /\ k.answer.next = 0
  BY <1>3, <1>4, RestIsACall DEF Dated
<1>6. QED
  BY <1>1, <1>2, <1>4, <1>5, OneTask, Unstored

LEMMA LookStep ==
  ASSUME Inv, NEW r \in Resources, Look(r)
  PROVE  Inv'
<1>1. /\ TypeOK /\ r \in Tasks /\ r # Managing /\ batch = "running"
      /\ task[r] \in Calls /\ task[r].at = "look" /\ Dated(task[r]) /\ r \notin Replacing
      /\ dropped \subseteq {"unused", "lost"}
  BY Running, Constant DEF Inv, TypeOK, Look, Replacing
<1>2. CASE Usable(r, task[r].now) /\ Return(r, store[r], "nil", TRUE)
  BY <1>1, <1>2, HitStep DEF Look
<1>3. CASE Goto(r, "post")
  <2> DEFINE k == [task[r] EXCEPT !.at = "post"]
  <2>1. task' = [task EXCEPT ![r] = k]
    BY <1>1, <1>3 DEF TypeOK, Goto
  <2>2. /\ k \in Calls /\ k.at = "post" /\ k.answer = task[r].answer /\ k.hit = task[r].hit
    BY <1>1 DEF Calls, Phases
  <2> HIDE DEF k
  <2>3. Dated(k) /\ (k.answer.status # 200 => k.answer.next = 0)
    BY <1>1, <2>2 DEF Dated, Inv, Bare
  <2>4. QED
    BY <1>1, <2>1, <2>2, <2>3, OneTask, Unstored DEF Look
<1>4. CASE Fail(r, "provider-unavailable")
  <2>1. "provider-unavailable" \in Problems \ {"nil"}
    BY DEF Problems
  <2>2. QED
    BY <1>1, <1>4, <2>1, Failing, Unstored DEF Look
<1>5. QED
  BY <1>2, <1>3, <1>4 DEF Look

\* A batch that begins or ends leaves the two other tasks alone and has nothing
\* under way.
LEMMA BatchStep ==
  ASSUME Inv, NEW k \in Calls, Dated(k), k.answer.next = 0, k.at # "answer",
         k.at = "idle" \/ batch' = "running",
         \A r \in Resources : task[r].at # "answer",
         task' = [t \in Tasks |-> IF t \in Resources THEN k ELSE task[t]],
         batch' \in {"running", "whole", "failed"},
         UNCHANGED <<use, policy, clock, live, session, source, store, dropped>>
  PROVE  Inv'
<1>1. /\ TypeOK /\ session \in Int /\ live \in Int
  BY DEF Inv, TypeOK
<1>2. TypeOK'
  <2>1. task' \in [Tasks -> Calls]
    BY <1>1 DEF TypeOK
  <2>2. QED
    BY <2>1, <1>1 DEF TypeOK
<1>3. /\ \A r \in Resources : task'[r] = k
      /\ \A t \in Tasks \ Resources : task'[t] = task[t]
  BY Constant
<1>4. Replacing' = Replacing
  BY <1>3 DEF Replacing
<1>5. \A t \in Tasks : Dated(task'[t])
  BY <1>3 DEF Inv
<1>6. Told(task'[Managing], clock')
  BY <1>3, Constant DEF Inv
<1>7. \A t \in Replacing : t \notin Resources
  BY DEF Replacing
<1>8. Alone'
  BY <1>1, <1>3, <1>4, <1>7 DEF Inv, Alone, Replacing
<1>9. Accounted' /\ Bare'
  BY <1>3, <1>4 DEF Inv, Accounted, Bare
<1>10. Quiet'
  BY <1>3 DEF Quiet
<1>11. QED
  BY <1>2, <1>5, <1>6, <1>8, <1>9, <1>10 DEF Inv

LEMMA BeginBatchStep ==
  ASSUME Inv, BeginBatch
  PROVE  Inv'
<1> DEFINE k == [Rest EXCEPT !.at = "queued"]
<1>1. k \in Calls /\ k.at = "queued" /\ k.answer = Rest.answer /\ k.hit = Rest.hit
  BY RestIsACall DEF Calls, Phases
<1>2. task' = [t \in Tasks |-> IF t \in Resources THEN k ELSE task[t]]
  BY DEF BeginBatch
<1> HIDE DEF k
<1>3. Dated(k) /\ k.answer.next = 0
  BY <1>1, RestIsACall DEF Dated
<1>4. \A r \in Resources : task[r].at # "answer"
  BY DEF Inv, Quiet, BeginBatch
<1>5. QED
  BY <1>1, <1>2, <1>3, <1>4, BatchStep DEF BeginBatch

LEMMA ReturnBatchStep ==
  ASSUME Inv, ReturnBatch
  PROVE  Inv'
<1>1. \A r \in Resources : task[r].at # "answer"
  BY DEF ReturnBatch, InFlight
<1>2. task' = [t \in Tasks |-> IF t \in Resources THEN Rest ELSE task[t]]
  BY DEF ReturnBatch
<1>3. QED
  BY <1>1, <1>2, RestIsACall, BatchStep DEF ReturnBatch

LEMMA NewSourceStep ==
  ASSUME Inv, NewSource
  PROVE  Inv'
<1>1. TypeOK'
  BY DEF Inv, TypeOK, NewSource
<1>2. Alone'
  BY DEF Inv, Alone, Replacing, NewSource
<1>3. QED
  BY <1>1, <1>2 DEF Inv, Accounted, Quiet, Bare, Replacing, NewSource

LEMMA TickStep ==
  ASSUME Inv, Tick
  PROVE  Inv'
<1>1. clock \in Nat /\ clock' = clock + 1 /\ clock' \in 0..MaxTime
  BY Constant DEF Inv, TypeOK, Tick
<1>2. TypeOK'
  BY <1>1 DEF Inv, TypeOK, Tick
<1>3. task[Managing].now \in Nat
  BY Constant DEF Inv, TypeOK, Calls
<1>4. Told(task'[Managing], clock')
  BY <1>1, <1>3 DEF Inv, Told, Tick
<1>5. QED
  BY <1>2, <1>4 DEF Inv, Alone, Accounted, Quiet, Bare, Replacing, Tick

--------------------------------------------------------------------------------
LEMMA Initially == Init => Inv
<1> SUFFICES ASSUME Init PROVE Inv
  OBVIOUS
<1>1. task = [t \in Tasks |-> Rest] /\ \A t \in Tasks : task[t] = Rest
  BY DEF Init
<1>2. TypeOK
  BY <1>1, RestIsACall, Constant DEF Init, TypeOK
<1>3. Told(task[Managing], clock)
  <2>1. Rest.now = 0 /\ Rest.does = "none"
    BY DEF Rest
  <2>2. QED
    BY <2>1, <1>1, RestIsACall, Constant DEF Init, Told
<1>4. Replacing = {}
  BY <1>1, RestIsACall DEF Replacing
<1>5. QED
  BY <1>1, <1>2, <1>3, <1>4, RestIsACall, Constant DEF Init, Inv, Alone, Accounted, Quiet, Bare

LEMMA Preserved == Inv /\ [Next]_vars => Inv'
<1> SUFFICES ASSUME Inv, [Next]_vars PROVE Inv'
  OBVIOUS
<1>1. CASE UNCHANGED vars
  BY <1>1 DEF vars, Inv, TypeOK, Alone, Accounted, Quiet, Bare, Replacing
<1>2. ASSUME NEW t \in Tasks, Proceed(t) PROVE Inv'
  BY <1>2, StartStep, LookStep, ReceiveTokenStep, ReceiveSessionStep, ManageStep, PostStep,
     LoseAnswerStep, RefusalStep DEF Proceed
<1>3. QED
  BY <1>1, <1>2, NewSourceStep, BeginBatchStep, ReturnBatchStep, BeginStep, TickStep DEF Next

(***************************************************************************)
(* The invariant: a replacement of the refresh token is on its way to one  *)
(* task at most and nobody holds it yet, so no other request can be        *)
(* granted a further one meanwhile; and a management call knows what it    *)
(* did and when (client.go:126-209).                                       *)
(***************************************************************************)
THEOREM Inductive == Spec => []Inv
BY Initially, Preserved, PTL DEF Spec

(***************************************************************************)
(* Every variable keeps its type; in particular a token is stored under    *)
(* the resource it was granted for (cache.go:129, ResourceToken).          *)
(***************************************************************************)
THEOREM TypeCorrect == Spec => []TypeOK
<1>1. Inv => TypeOK
  BY DEF Inv
<1>2. QED
  BY <1>1, Inductive, PTL

(***************************************************************************)
(* A token handed out of the store is alive, as long as the delays stay    *)
(* within the skew (token.go:27-32, client.go:337).                        *)
(***************************************************************************)
THEOREM HandedOutIsLiveHolds == Spec => []HandedOutIsLive
<1>1. ASSUME Inv, NEW r \in Resources, task[r].hit,
             (task[r].since - task[r].now) + (task[r].token.exp - task[r].token.dies) <= Skew
      PROVE  task[r].since < task[r].token.dies
  <2>1. task[r] \in Calls /\ Dated(task[r])
    BY <1>1, Constant DEF Inv, TypeOK
  <2>2. task[r].since \in Nat /\ task[r].now \in Nat /\ task[r].token \in AccessToken
    BY <1>1, <2>1 DEF Calls, Dated
  <2>3. task[r].token.exp \in Nat /\ task[r].token.dies \in Nat
    BY <2>2 DEF AccessToken
  <2>4. task[r].now + Skew < task[r].token.exp
    BY <1>1, <2>1 DEF Dated
  <2>5. QED
    BY <1>1, <2>2, <2>3, <2>4, Constant
<1>2. Inv => HandedOutIsLive
  BY <1>1 DEF HandedOutIsLive
<1>3. QED
  BY <1>2, Inductive, PTL

(***************************************************************************)
(* A session that is dead died of a dropped replacement, never of being    *)
(* refreshed (client.go:126-157), however many times the provider rotates. *)
(***************************************************************************)
THEOREM DeadMeansDroppedHolds == Spec => []DeadMeansDropped
<1>1. ASSUME Inv, session # live, dropped = {}
      PROVE  \E t \in Tasks : Granted(t) /\ task[t].answer.next = live
  <2>1. PICK t \in Replacing : TRUE
    BY <1>1 DEF Inv, Accounted
  <2>2. QED
    BY <2>1, <1>1 DEF Inv, Alone, Bare, Replacing, Granted
<1>2. Inv => DeadMeansDropped
  BY <1>1 DEF DeadMeansDropped
<1>3. QED
  BY <1>2, Inductive, PTL

(***************************************************************************)
(* A management call that reports success has been done, and a one-time    *)
(* token is never said to live longer than it does (client.go:161-209).    *)
(***************************************************************************)
THEOREM ManagementTellsTheTruthHolds == Spec => []ManagementTellsTheTruth
<1>1. Inv => ManagementTellsTheTruth
  BY DEF Inv, Told, ManagementTellsTheTruth
<1>2. QED
  BY <1>1, Inductive, PTL

--------------------------------------------------------------------------------
(* What a session can die of.  Unless the provider rotates on every grant,   *)
(* a batch obtains no replacement it could drop.                            *)

NothingUnused ==
    policy # "every" =>
        /\ "unused" \notin dropped
        /\ \A r \in Resources : task[r].answer.next = 0

\* A step that gives no resource another answer than one without a replacement.
LEMMA StillNothingUnused ==
  ASSUME Inv, NothingUnused, UNCHANGED policy,
         policy # "every" /\ "unused" \in dropped' => "unused" \in dropped,
         \A r \in Resources : \/ task'[r].answer = task[r].answer
                              \/ task'[r].answer.next = 0
  PROVE  NothingUnused'
BY DEF NothingUnused

LEMMA Returning ==
  ASSUME Inv, NEW t \in Tasks, NEW token, NEW problem, NEW hit, Return(t, token, problem, hit)
  PROVE  /\ task'[t].answer.next = 0
         /\ \A s \in Tasks \ {t} : task'[s] = task[s]
BY RestIsACall DEF Inv, TypeOK, Return, Rest, Refused

\* Outside Post, a task's answer is left alone or cleared.
LEMMA AnswersClear ==
  ASSUME Inv, NEW t \in Tasks, Proceed(t), ~Post(t), NEW r \in Resources
  PROVE  task'[r].answer = task[r].answer \/ task'[r].answer.next = 0
<1>1. r \in Tasks /\ r # Managing /\ r # Refreshing /\ task \in [Tasks -> Calls]
  BY Constant DEF Inv, TypeOK
<1>2. ASSUME NEW token, NEW problem, NEW hit, Return(t, token, problem, hit)
      PROVE  task'[r].answer = task[r].answer \/ task'[r].answer.next = 0
  BY <1>1, <1>2, Returning
<1>3. CASE t \in Resources /\ (Start(t) \/ Look(t) \/ ReceiveToken(t))
  <2>1. task[t] \in Calls
    BY <1>1
  <2>2. CASE task' = [task EXCEPT ![t].at = "look", ![t].now = clock]
    BY <1>1, <2>1, <2>2 DEF Calls
  <2>3. CASE Goto(t, "post")
    BY <1>1, <2>1, <2>3 DEF Goto, Calls
  <2>4. CASE \E token, problem, hit : Return(t, token, problem, hit)
    BY <1>2, <2>4
  <2>5. QED
    BY <1>3, <2>2, <2>3, <2>4 DEF Start, Look, ReceiveToken, Fail
<1>4. CASE t = Refreshing /\ ReceiveSession
  BY <1>2, <1>4 DEF ReceiveSession
<1>5. CASE t = Managing /\ (ReceiveManagement \/ Call \/ Called)
  <2>1. CASE \E token, problem, hit : Return(t, token, problem, hit)
    BY <1>2, <2>1
  <2>2. CASE \A s \in Tasks \ {Managing} : task'[s] = task[s]
    BY <1>1, <2>2
  <2>3. CASE t = Managing /\ (ReceiveManagement \/ Call)
    <3>1. CASE Fail(Managing, "provider-unavailable")
      BY <2>1, <2>3, <3>1 DEF Fail
    <3>2. CASE \E k : task' = [task EXCEPT ![Managing] = k]
      BY <1>1, <2>2, <3>2
    <3>3. QED
      BY <2>3, <3>1, <3>2 DEF ReceiveManagement, Call
  <2>4. CASE t = Managing /\ Called
    <3>1. \E token : Return(Managing, token, "nil", FALSE)
      BY <2>4 DEF Called
    <3>2. QED
      BY <1>2, <2>4, <3>1
  <2>5. QED
    BY <1>5, <2>3, <2>4
<1>6. CASE LoseAnswer(t) \/ Refusal(t)
  BY <1>2, <1>6 DEF LoseAnswer, Refusal, Fail
<1>7. QED
  BY <1>3, <1>4, <1>5, <1>6 DEF Proceed

LEMMA PostNothingUnused ==
  ASSUME Inv, NothingUnused, NEW t \in Tasks, Post(t)
  PROVE  NothingUnused'
<1>1. task \in [Tasks -> Calls] /\ \A r \in Resources : r \in Tasks /\ r # Refreshing
  BY Constant DEF Inv, TypeOK
<1>2. UNCHANGED <<policy, dropped>>
  BY DEF Post
<1>3. CASE Fail(t, "provider-unavailable")
  BY <1>1, <1>2, <1>3, Returning, StillNothingUnused DEF Fail
<1>4. ASSUME NEW served \in TokenEndpoint(t),
             task' = [task EXCEPT ![t].at = "answer", ![t].answer = served.answer]
      PROVE  NothingUnused'
  <2>1. task'[t].answer = served.answer /\ \A s \in Tasks \ {t} : task'[s] = task[s]
    BY <1>1, <1>4 DEF Calls
  <2>2. t \in Resources /\ policy # "every" => served.answer.next = 0
    BY <1>1, Constant DEF TokenEndpoint, Rotates, Refused, Grant
  <2>3. QED
    BY <1>1, <1>2, <2>1, <2>2 DEF NothingUnused
<1>5. QED
  BY <1>3, <1>4 DEF Post

LEMMA NothingUnusedNext == Inv /\ NothingUnused /\ [Next]_vars => NothingUnused'
<1> SUFFICES ASSUME Inv, NothingUnused, [Next]_vars PROVE NothingUnused'
  OBVIOUS
<1>1. ASSUME NEW t \in Tasks, Proceed(t), ~Post(t)
      PROVE  NothingUnused'
  <2>1. UNCHANGED policy
    BY <1>1
    DEF Proceed, Start, Look, ReceiveToken, ReceiveSession, ReceiveManagement, Call,
        Called, LoseAnswer, Refusal
  <2>2. policy # "every" /\ "unused" \in dropped' => "unused" \in dropped
    <3>1. CASE t \in Resources /\ ReceiveToken(t)
      BY <3>1 DEF ReceiveToken, NothingUnused
    <3>2. CASE LoseAnswer(t)
      BY <3>2 DEF LoseAnswer
    <3>3. QED
      BY <1>1, <3>1, <3>2
      DEF Proceed, Start, Look, ReceiveSession, ReceiveManagement, Call, Called, Refusal
  <2>3. QED
    BY <1>1, <2>1, <2>2, AnswersClear, StillNothingUnused
<1>2. CASE BeginBatch \/ ReturnBatch
  <2>1. \A r \in Resources : task'[r].answer = Rest.answer
    BY <1>2, Constant DEF BeginBatch, ReturnBatch, Rest
  <2>2. UNCHANGED <<policy, dropped>>
    BY <1>2 DEF BeginBatch, ReturnBatch
  <2>3. QED
    BY <2>1, <2>2, RestIsACall, StillNothingUnused
<1>3. CASE BeginRefresh \/ \E does \in {"onetime", "claim"} : BeginManage(does)
  <2>1. \A r \in Resources : task'[r] = task[r]
    BY <1>3, Constant DEF BeginRefresh, BeginManage, Inv, TypeOK
  <2>2. UNCHANGED <<policy, dropped>>
    BY <1>3 DEF BeginRefresh, BeginManage
  <2>3. QED
    BY <2>1, <2>2, StillNothingUnused
<1>4. CASE UNCHANGED <<policy, dropped, task>>
  BY <1>4 DEF NothingUnused
<1>5. QED
  BY <1>1, <1>2, <1>3, <1>4, PostNothingUnused DEF Next, NewSource, Tick, vars

(***************************************************************************)
(* "Losing it would end the session on the next refresh" (client.go:129):  *)
(* the only other way a session can die, of a batch, is told whole.  When  *)
(* no answer was lost and no refresh is about to bring the consumer the    *)
(* replacement, a session the provider no longer accepts was killed by a   *)
(* provider that rotates on every grant, and by a resource token granted   *)
(* with the replacement of its refresh token: one already received, and    *)
(* the replacement dropped, or one on its way.                             *)
(***************************************************************************)
BatchesKillSessions ==
    session # live /\ "lost" \notin dropped /\ ~Granted(Refreshing) =>
        /\ policy = "every"
        /\ \/ "unused" \in dropped
           \/ \E r \in Resources : Granted(r) /\ task[r].answer.next = live

THEOREM BatchesKillSessionsHolds == Spec => []BatchesKillSessions
<1>1. ASSUME Inv, NothingUnused, session # live, "lost" \notin dropped, ~Granted(Refreshing)
      PROVE  BatchesKillSessions
  <2>1. dropped \subseteq {"unused", "lost"}
    BY <1>1 DEF Inv, TypeOK
  <2>2. CASE "unused" \in dropped
    BY <2>2, <1>1 DEF NothingUnused, BatchesKillSessions
  <2>3. CASE "unused" \notin dropped
    <3>1. PICK t \in Replacing : TRUE
      BY <2>1, <2>3, <1>1 DEF Inv, Accounted
    <3>2. Granted(t) /\ task[t].answer.next = live /\ task[t].answer.next # 0
      BY <3>1, <1>1 DEF Inv, Alone, Bare, Replacing, Granted
    <3>3. t # Managing /\ t # Refreshing
      BY <3>2, <1>1 DEF Inv, Told
    <3>4. t \in Resources
      BY <3>1, <3>3 DEF Replacing, Tasks
    <3>5. policy = "every"
      BY <3>2, <3>4, <1>1 DEF NothingUnused
    <3>6. QED
      BY <3>2, <3>4, <3>5 DEF BatchesKillSessions
  <2>4. QED
    BY <2>2, <2>3
<1>2. Inv /\ NothingUnused => BatchesKillSessions
  BY <1>1 DEF BatchesKillSessions
<1>3. Init => NothingUnused
  BY RestIsACall, Constant DEF Init, NothingUnused
<1>4. QED
  BY <1>2, <1>3, Inductive, NothingUnusedNext, PTL DEF Spec
--------------------------------------------------------------------------------
(* What EveryBatchReturns rests on beside the fairness: a batch has         *)
(* something left to do until it can return, and never does a thing twice.  *)

\* How far a task of the batch is.
Way(at) ==
    CASE at = "queued" -> 0
      [] at = "look" -> 1
      [] at = "post" -> 2
      [] at = "answer" -> 3
      [] at = "done" -> 4

InBatch == \A r \in Resources : task[r].at \in {"queued", "look", "post", "answer", "done"}

Advances(r) == task'[r] = task[r] \/ Way(task[r].at) < Way(task'[r].at)

LEMMA ReturnAdvances ==
  ASSUME Inv, InBatch, NEW t \in Tasks, task[t].at # "done",
         NEW token, NEW problem, NEW hit, Return(t, token, problem, hit),
         NEW r \in Resources
  PROVE  task'[r] = task[r] \/ (task'[r].at = "done" /\ Advances(r))
<1>1. CASE r = t
  <2>1. task'[r].at = "done"
    BY <1>1, RestIsACall, Constant DEF Inv, TypeOK, Return, Rest
  <2>2. task[r].at \in {"queued", "look", "post", "answer"}
    BY <1>1 DEF InBatch
  <2>3. QED
    BY <2>1, <2>2 DEF Advances, Way
<1>2. CASE r # t
  BY <1>2, Constant, Returning
<1>3. QED
  BY <1>1, <1>2

\* Every step of a call takes it further, and the other calls stay where they are.
LEMMA CallsAdvance ==
  ASSUME Inv, InBatch, NEW t \in Tasks, Proceed(t), NEW r \in Resources
  PROVE  task'[r] = task[r] \/ (Advances(r) /\ task'[r].at \in {"look", "post", "answer", "done"})
<1> DEFINE Goal == \/ task'[r] = task[r]
                   \/ Advances(r) /\ task'[r].at \in {"look", "post", "answer", "done"}
<1>1. r \in Tasks /\ r # Managing /\ r # Refreshing /\ task \in [Tasks -> Calls]
  BY Constant DEF Inv, TypeOK
<1>2. ASSUME NEW token, NEW problem, NEW hit, Return(t, token, problem, hit),
             task[t].at # "done"
      PROVE  Goal
  BY <1>2, ReturnAdvances
<1>3. ASSUME NEW k, task' = [task EXCEPT ![t] = k], t \notin Resources
      PROVE  Goal
  BY <1>1, <1>3
<1>4. ASSUME t \in Resources, Start(t) \/ Look(t) \/ ReceiveToken(t)
      PROVE  Goal
  <2>1. task[t] \in Calls /\ task[t].at # "done"
    <3>1. task[t].at \in {"queued", "look", "answer"}
      BY <1>4 DEF Start, Look, ReceiveToken, Granted
    <3>2. QED
      BY <1>1, <3>1
  <2>2. CASE task[t].at = "queued" /\ task' = [task EXCEPT ![t].at = "look", ![t].now = clock]
    BY <1>1, <2>1, <2>2 DEF Calls, Advances, Way
  <2>3. CASE task[t].at = "look" /\ Goto(t, "post")
    BY <1>1, <2>1, <2>3 DEF Goto, Calls, Advances, Way
  <2>4. CASE \E token, problem, hit : Return(t, token, problem, hit)
    BY <1>2, <2>1, <2>4
  <2>5. QED
    BY <1>4, <2>2, <2>3, <2>4 DEF Start, Look, ReceiveToken, Fail
<1>5. CASE Post(t)
  <2>1. task[t] \in Calls /\ task[t].at = "post"
    BY <1>1, <1>5 DEF Post
  <2>2. CASE Fail(t, "provider-unavailable")
    BY <1>2, <2>1, <2>2 DEF Fail
  <2>3. ASSUME NEW served, task' = [task EXCEPT ![t].at = "answer", ![t].answer = served]
        PROVE  Goal
    BY <1>1, <2>1, <2>3 DEF Calls, Advances, Way
  <2>4. QED
    BY <1>5, <2>2, <2>3 DEF Post
<1>6. CASE LoseAnswer(t) \/ Refusal(t)
  BY <1>2, <1>6 DEF LoseAnswer, Refusal, Fail
<1>7. CASE t = Refreshing /\ ReceiveSession
  <2>1. task[t].at = "answer" /\ Return(t, NoToken, "nil", FALSE)
    BY <1>7 DEF ReceiveSession, Granted
  <2>2. QED
    BY <1>2, <2>1
<1>8. ASSUME t = Managing, ReceiveManagement \/ Call \/ Called
      PROVE  Goal
  <2>1. task[Managing].at # "done"
    BY <1>8 DEF ReceiveManagement, Call, Called, Granted
  <2>2. CASE ReceiveManagement
    BY <1>1, <1>3, <1>8, <2>2 DEF ReceiveManagement
  <2>3. CASE Call
    <3>1. CASE Fail(Managing, "provider-unavailable")
      BY <1>2, <1>8, <2>1, <3>1 DEF Fail
    <3>2. CASE \E k : task' = [task EXCEPT ![Managing] = k]
      BY <1>1, <1>3, <1>8, <3>2
    <3>3. QED
      BY <2>3, <3>1, <3>2 DEF Call
  <2>4. CASE Called
    <3>1. \E token : Return(Managing, token, "nil", FALSE)
      BY <2>4 DEF Called
    <3>2. QED
      BY <1>2, <1>8, <2>1, <3>1
  <2>5. QED
    BY <1>8, <2>2, <2>3, <2>4
<1>9. QED
  BY <1>4, <1>5, <1>6, <1>7, <1>8 DEF Proceed

LEMMA BatchNext ==
  ASSUME Inv, [Next]_vars, batch = "running" => InBatch
  PROVE  /\ (batch = "running" => InBatch)'
         /\ batch = "running" /\ batch' = "running" => \A r \in Resources : Advances(r)
<1> DEFINE Goal == /\ (batch = "running" => InBatch)'
                   /\ batch = "running" /\ batch' = "running" =>
                         \A r \in Resources : Advances(r)
<1>1. CASE BeginBatch
  BY <1>1, Constant DEF BeginBatch, InBatch, Rest
<1>2. CASE ReturnBatch
  BY <1>2 DEF ReturnBatch
<1>3. CASE UNCHANGED batch /\ \A r \in Resources : task'[r] = task[r]
  BY <1>3 DEF InBatch, Advances
<1>4. CASE \/ NewSource \/ BeginRefresh \/ Tick
           \/ \E does \in {"onetime", "claim"} : BeginManage(does)
  BY <1>3, <1>4, Constant DEF NewSource, BeginRefresh, BeginManage, Tick, Inv, TypeOK
<1>5. ASSUME NEW t \in Tasks, Proceed(t)
      PROVE  Goal
  <2>1. UNCHANGED batch
    BY <1>5
    DEF Proceed, Start, Look, ReceiveToken, ReceiveSession, ReceiveManagement, Call,
        Called, Post, LoseAnswer, Refusal
  <2>2. CASE batch = "running"
    BY <1>5, <2>1, <2>2, CallsAdvance DEF InBatch, Advances
  <2>3. QED
    BY <2>1, <2>2
<1>6. CASE UNCHANGED vars
  BY <1>3, <1>6 DEF vars
<1>7. QED
  BY <1>1, <1>2, <1>4, <1>5, <1>6 DEF Next

THEOREM InBatchHolds == Spec => [](batch = "running" => InBatch)
<1>1. Init => (batch = "running" => InBatch)
  BY DEF Init
<1>2. QED
  BY <1>1, Inductive, BatchNext, PTL DEF Spec

(***************************************************************************)
(* A running batch is never at a loss: a call of it is in flight, or it    *)
(* has failed or is complete and may return, or a queued resource can be   *)
(* started (cache.go:159).  No set of answers, failures and losses leaves  *)
(* it with calls to make that nothing lets it make.                        *)
(***************************************************************************)
NoBatchIsStuck ==
    batch = "running" =>
        \/ InFlight # {}
        \/ Failed # {} \/ (\A r \in Resources : task[r].at = "done")
        \/ \E r \in Resources : task[r].at = "queued" /\ Cardinality(InFlight) < Concurrency

THEOREM NoBatchIsStuckHolds == Spec => []NoBatchIsStuck
<1>1. (batch = "running" => InBatch) => NoBatchIsStuck
  <2>1. Cardinality({}) < Concurrency
    BY FS_EmptySet, ConfigAssumption DEF ConfigAssumption
  <2>2. QED
    BY <2>1 DEF NoBatchIsStuck, InBatch, InFlight
<1>2. QED
  BY <1>1, InBatchHolds, PTL

(***************************************************************************)
(* A call of a running batch is never taken back: what the store missed is *)
(* not looked up again, a request is not sent twice, an answer is read     *)
(* once and a task that is done stays done (cache.go:146-170).  With       *)
(* NoBatchIsStuck, a batch is over after four steps of each resource.      *)
(***************************************************************************)
BatchAdvances ==
    [][batch = "running" /\ batch' = "running" => \A r \in Resources : Advances(r)]_vars

THEOREM BatchAdvancesHolds == Spec => BatchAdvances
<1>1. ASSUME Inv, batch = "running" => InBatch, [Next]_vars
      PROVE  [batch = "running" /\ batch' = "running" =>
                 \A r \in Resources : Advances(r)]_vars
  BY <1>1, BatchNext
<1>2. QED
  BY <1>1, Inductive, InBatchHolds, PTL DEF Spec, BatchAdvances
================================================================================
