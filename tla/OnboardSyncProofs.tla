------------------------- MODULE OnboardSyncProofs -------------------------
(***************************************************************************)
(* What TLAPS proves of OnboardSync, for every set of clients, users and   *)
(* backends and every number of faults.                                    *)
(***************************************************************************)
EXTENDS OnboardSync, TLAPS

\* Between its calls a round is at one of the backends it was given.
Within == \A c \in Clients : pc[c] \notin {"idle", "next"} => turn[c] <= Len(Order)

LEMMA Labels ==
  PCs = {"idle", "next", "exists", "create", "write", "refresh", "settle"}
BY DEF PCs

LEMMA HereIsABackend ==
  ASSUME TypeOK, NEW c \in Clients, turn[c] <= Len(Order)
  PROVE  /\ Here(c) \in Backends
         /\ UserOf[c] \in Users
         /\ ClaimOf[Here(c)] \in Claims
         /\ turn[c] \in Nat /\ turn[c] + 1 \in 1..Len(Order) + 1
         /\ states[c][Here(c)] \in State
<1>1. Order \in Seq(Backends) /\ turn[c] \in 1..Len(Order)
  BY ConstantsAssumption DEF TypeOK
<1>2. Here(c) \in Backends
  BY <1>1 DEF Here
<1>3. UserOf[c] \in Users /\ ClaimOf[Here(c)] \in Claims
  BY <1>2, ConstantsAssumption
<1>4. states[c][Here(c)] \in State
  BY <1>2 DEF TypeOK
<1>5. turn[c] \in Nat /\ turn[c] + 1 \in 1..Len(Order) + 1
  BY <1>1
<1>6. QED
  BY <1>2, <1>3, <1>4, <1>5

LEMMA StateType ==
  /\ NoState \in State
  /\ NoState.phase = "absent" /\ NoState.created = FALSE
  /\ NoState.claimWritten = FALSE
  /\ \A s \in State :
       /\ \A p \in Phases :
            LET t == [s EXCEPT !.phase = p]
            IN  /\ t \in State /\ t.phase = p
                /\ t.created = s.created /\ t.claimWritten = s.claimWritten
       /\ LET t == [s EXCEPT !.created = TRUE]
          IN  /\ t \in State /\ t.phase = s.phase
              /\ t.created = TRUE /\ t.claimWritten = s.claimWritten
       /\ LET t == [s EXCEPT !.claimWritten = TRUE]
          IN  /\ t \in State /\ t.phase = s.phase
              /\ t.created = s.created /\ t.claimWritten = TRUE
BY DEF State, NoState, Phases

LEMMA PhaseNames ==
  /\ "bootstrapping" \in Phases /\ "needs-onboarding" \in Phases
  /\ "ready" \in Phases /\ "error" \in Phases
BY DEF Phases

\* Writing a state leaves every other one alone.
LEMMA MarkType ==
  ASSUME TypeOK, NEW c \in Clients, turn[c] <= Len(Order),
         NEW s \in State, Mark(c, s)
  PROVE  /\ states' \in [Clients -> [Backends -> State]]
         /\ states'[c][Here(c)] = s
         /\ \A d \in Clients, b \in Backends :
              d # c \/ b # Here(c) => states'[d][b] = states[d][b]
BY HereIsABackend DEF TypeOK, Mark

LEMMA GotoType ==
  ASSUME TypeOK, NEW c \in Clients, NEW l \in PCs, Goto(c, l)
  PROVE  /\ pc' \in [Clients -> PCs]
         /\ pc'[c] = l
         /\ \A d \in Clients \ {c} : pc'[d] = pc[d]
BY DEF TypeOK, Goto

LEMMA FinishType ==
  ASSUME TypeOK, NEW c \in Clients, turn[c] <= Len(Order),
         NEW p \in Phases, Finish(c, p)
  PROVE  /\ pc' \in [Clients -> PCs]
         /\ turn' \in [Clients -> 1..Len(Order) + 1]
         /\ states' \in [Clients -> [Backends -> State]]
         /\ pc'[c] = "next"
         /\ \A d \in Clients \ {c} : pc'[d] = pc[d] /\ turn'[d] = turn[d]
         /\ states'[c][Here(c)] = [states[c][Here(c)] EXCEPT !.phase = p]
         /\ \A d \in Clients, b \in Backends :
              d # c \/ b # Here(c) => states'[d][b] = states[d][b]
<1> DEFINE s == [states[c][Here(c)] EXCEPT !.phase = p]
<1>1. s \in State
  BY HereIsABackend, StateType
<1>2. Mark(c, s) /\ Goto(c, "next")
  BY DEF Finish
<1>3. "next" \in PCs
  BY Labels
<1>4. /\ turn' \in [Clients -> 1..Len(Order) + 1]
      /\ \A d \in Clients \ {c} : turn'[d] = turn[d]
  BY HereIsABackend DEF Finish, TypeOK
<1> HIDE DEF s
<1>5. /\ states' \in [Clients -> [Backends -> State]]
      /\ states'[c][Here(c)] = s
      /\ \A d \in Clients, b \in Backends :
           d # c \/ b # Here(c) => states'[d][b] = states[d][b]
  BY <1>1, <1>2, MarkType
<1>6. /\ pc' \in [Clients -> PCs]
      /\ pc'[c] = "next"
      /\ \A d \in Clients \ {c} : pc'[d] = pc[d]
  BY <1>2, <1>3, GotoType
<1>7. QED
  BY <1>4, <1>5, <1>6 DEF s

LEMMA FaultType ==
  ASSUME TypeOK, NEW c \in Clients, turn[c] <= Len(Order), Fault(c)
  PROVE  /\ faults' \in 0..MaxFaults
         /\ failing' \in [Clients -> SUBSET Backends]
         /\ Here(c) \in failing'[c]
         /\ \A d \in Clients : failing[d] \subseteq failing'[d]
BY HereIsABackend, ConstantsAssumption DEF TypeOK, Fault

LEMMA CreateType ==
  ASSUME TypeOK, NEW c \in Clients, turn[c] <= Len(Order), CreateApplied(c)
  PROVE  /\ rows' \in [Backends -> SUBSET Users]
         /\ UserOf[c] \in rows'[Here(c)]
         /\ \A b \in Backends : rows[b] \subseteq rows'[b]
<1>1. Here(c) \in Backends /\ UserOf[c] \in Users
  BY HereIsABackend
<1>2. rows[Here(c)] \cup {UserOf[c]} \in SUBSET Users
  BY <1>1 DEF TypeOK
<1>3. QED
  BY <1>1, <1>2 DEF CreateApplied, TypeOK

LEMMA ClaimType ==
  ASSUME TypeOK, NEW c \in Clients, turn[c] <= Len(Order), ClaimApplied(c)
  PROVE  /\ claims' \in [Users -> SUBSET Claims]
         /\ ClaimOf[Here(c)] \in claims'[UserOf[c]]
         /\ \A u \in Users : claims[u] \subseteq claims'[u]
         /\ \A u \in Users, k \in Claims :
              k \in claims'[u] /\ k \notin claims[u] =>
                  u = UserOf[c] /\ k = ClaimOf[Here(c)]
<1>1. UserOf[c] \in Users /\ ClaimOf[Here(c)] \in Claims
  BY HereIsABackend
<1>2. claims[UserOf[c]] \cup {ClaimOf[Here(c)]} \in SUBSET Claims
  BY <1>1 DEF TypeOK
<1>3. QED
  BY <1>1, <1>2 DEF ClaimApplied, TypeOK
-----------------------------------------------------------------------------
(***************************************************************************)
(* Every variable keeps its type, and a round that is making its calls is  *)
(* at a backend it was given (Sync.Run, Sync.reconcile).                   *)
(***************************************************************************)
THEOREM TypeCorrect == Spec => [](TypeOK /\ Within)
<1>1. Init => TypeOK /\ Within
  <2> SUFFICES ASSUME Init PROVE TypeOK /\ Within
    OBVIOUS
  <2>1. 1 \in 1..Len(Order) + 1 /\ 0 \in 0..MaxFaults
    BY ConstantsAssumption
  <2>2. TypeOK
    BY <2>1, StateType, Labels DEF Init, TypeOK
  <2>3. Within
    BY DEF Init, Within
  <2>4. QED
    BY <2>2, <2>3
<1>2. TypeOK /\ Within /\ [Next]_vars => (TypeOK /\ Within)'
  <2> SUFFICES ASSUME TypeOK, Within, [Next]_vars PROVE TypeOK' /\ Within'
    OBVIOUS
  <2>0. 1 \in 1..Len(Order) + 1
    BY ConstantsAssumption
  <2>1. ASSUME NEW c \in Clients, Run(c) PROVE TypeOK' /\ Within'
    <3>1. pc' \in [Clients -> PCs] /\ pc'[c] = "next"
          /\ \A d \in Clients \ {c} : pc'[d] = pc[d]
      BY <2>1, GotoType, Labels DEF Run
    <3>2. principal' \in [Clients -> SUBSET Claims]
      <4>1. PICK old \in SUBSET claims[UserOf[c]] :
              principal' = [principal EXCEPT ![c] = old]
        BY <2>1 DEF Run
      <4>2. claims[UserOf[c]] \in SUBSET Claims
        BY ConstantsAssumption DEF TypeOK
      <4>3. QED
        BY <4>1, <4>2 DEF TypeOK
    <3>3. states' \in [Clients -> [Backends -> State]]
      BY <2>1, StateType DEF Run, TypeOK
    <3>4. TypeOK'
      BY <2>1, <3>1, <3>2, <3>3 DEF Run, TypeOK, world
    <3>5. QED
      BY <2>1, <3>1, <3>4 DEF Run, Within, world
  <2>2. ASSUME NEW c \in Clients, Inspect(c) PROVE TypeOK' /\ Within'
    <3>1. PICK l \in {"settle", "exists"} : Goto(c, l)
      BY <2>2 DEF Inspect
    <3>2. pc' \in [Clients -> PCs] /\ \A d \in Clients \ {c} : pc'[d] = pc[d]
      BY <3>1, GotoType, Labels
    <3>3. [states[c][Here(c)] EXCEPT !.phase = "bootstrapping"] \in State
      BY <2>2, HereIsABackend, StateType, PhaseNames DEF Inspect
    <3>4. states' \in [Clients -> [Backends -> State]]
      BY <2>2, <3>3, MarkType DEF Inspect
    <3>5. TypeOK'
      BY <2>2, <3>2, <3>4 DEF Inspect, TypeOK, world
    <3>6. QED
      BY <2>2, <3>2, <3>5 DEF Inspect, Within, world
  <2>3. ASSUME NEW c \in Clients, Exists(c) PROVE TypeOK' /\ Within'
    <3>0. turn[c] <= Len(Order)
      BY <2>3 DEF Exists, Within
    <3>1. CASE Fails(c)
      <4>1. QED
        BY <2>3, <3>0, <3>1, FinishType, FaultType, PhaseNames
           DEF Exists, Fails, TypeOK, Within, world
    <3>2. CASE ~Fails(c)
      <4>1. PICK l \in {"write", "create"} : Goto(c, l)
        BY <2>3, <3>2 DEF Exists
      <4>2. pc' \in [Clients -> PCs] /\ \A d \in Clients \ {c} : pc'[d] = pc[d]
        BY <4>1, GotoType, Labels
      <4>3. QED
        BY <2>3, <3>0, <3>2, <4>2 DEF Exists, NoFault, TypeOK, Within, world
    <3>3. QED
      BY <3>1, <3>2
  <2>4. ASSUME NEW c \in Clients, Create(c) PROVE TypeOK' /\ Within'
    <3>0. turn[c] <= Len(Order)
      BY <2>4 DEF Create, Within
    <3>1. rows' \in [Backends -> SUBSET Users]
      BY <2>4, <3>0, CreateType, HereIsABackend DEF Create, Fails, TypeOK
    <3>2. CASE Fails(c)
      BY <2>4, <3>0, <3>1, <3>2, FinishType, FaultType, PhaseNames
         DEF Create, Fails, TypeOK, Within
    <3>3. CASE ~Fails(c)
      <4> DEFINE s == [states[c][Here(c)] EXCEPT !.created = TRUE]
      <4>1. s \in State /\ Mark(c, s)
        BY <2>4, <3>0, <3>3, HereIsABackend, StateType DEF Create
      <4> HIDE DEF s
      <4>2. states' \in [Clients -> [Backends -> State]]
        BY <3>0, <4>1, MarkType
      <4>3. pc' \in [Clients -> PCs] /\ \A d \in Clients \ {c} : pc'[d] = pc[d]
        BY <2>4, <3>3, GotoType, Labels DEF Create
      <4>4. QED
        BY <2>4, <3>0, <3>1, <3>3, <4>2, <4>3 DEF Create, NoFault, TypeOK, Within
    <3>4. QED
      BY <3>2, <3>3
  <2>5. ASSUME NEW c \in Clients, WriteClaim(c) PROVE TypeOK' /\ Within'
    <3>0. turn[c] <= Len(Order)
      BY <2>5 DEF WriteClaim, Within
    <3>1. claims' \in [Users -> SUBSET Claims]
      BY <2>5, <3>0, ClaimType, HereIsABackend DEF WriteClaim, Fails, TypeOK
    <3>2. CASE Fails(c)
      BY <2>5, <3>0, <3>1, <3>2, FinishType, FaultType, PhaseNames
         DEF WriteClaim, Fails, TypeOK, Within
    <3>3. CASE ~Fails(c)
      <4> DEFINE s == [states[c][Here(c)] EXCEPT !.claimWritten = TRUE]
      <4>1. s \in State /\ Mark(c, s)
        BY <2>5, <3>0, <3>3, HereIsABackend, StateType DEF WriteClaim
      <4> HIDE DEF s
      <4>2. states' \in [Clients -> [Backends -> State]]
        BY <3>0, <4>1, MarkType
      <4>3. pc' \in [Clients -> PCs] /\ \A d \in Clients \ {c} : pc'[d] = pc[d]
        BY <2>5, <3>3, GotoType, Labels DEF WriteClaim
      <4>4. QED
        BY <2>5, <3>0, <3>1, <3>3, <4>2, <4>3
           DEF WriteClaim, NoFault, TypeOK, Within
    <3>4. QED
      BY <3>2, <3>3
  <2>6. ASSUME NEW c \in Clients, Refresh(c) PROVE TypeOK' /\ Within'
    <3>0. turn[c] <= Len(Order)
      BY <2>6 DEF Refresh, Within
    <3>1. CASE Fails(c)
      BY <2>6, <3>0, <3>1, FinishType, FaultType, PhaseNames
         DEF Refresh, Fails, TypeOK, Within, world
    <3>2. CASE ~Fails(c)
      <4>1. pc' \in [Clients -> PCs] /\ \A d \in Clients \ {c} : pc'[d] = pc[d]
        BY <2>6, <3>2, GotoType, Labels DEF Refresh
      <4>2. QED
        BY <2>6, <3>0, <3>2, <4>1 DEF Refresh, NoFault, TypeOK, Within, world
    <3>3. QED
      BY <3>1, <3>2
  <2>7. ASSUME NEW c \in Clients, Settle(c) PROVE TypeOK' /\ Within'
    <3>0. turn[c] <= Len(Order)
      BY <2>7 DEF Settle, Within
    <3>1. CASE Fails(c)
      BY <2>7, <3>0, <3>1, FinishType, FaultType, PhaseNames
         DEF Settle, Fails, TypeOK, Within, world
    <3>2. CASE ~Fails(c)
      <4>1. PICK p \in Phases : Finish(c, p)
        BY <2>7, <3>2, PhaseNames DEF Settle
      <4>2. QED
        BY <2>7, <3>0, <3>2, <4>1, FinishType
           DEF Settle, NoFault, TypeOK, Within, world
    <3>3. QED
      BY <3>1, <3>2
  <2>8. ASSUME NEW c \in Clients, RunReturns(c) PROVE TypeOK' /\ Within'
    <3>1. pc' \in [Clients -> PCs] /\ pc'[c] = "idle"
          /\ \A d \in Clients \ {c} : pc'[d] = pc[d]
      BY <2>8, GotoType, Labels DEF RunReturns
    <3>2. QED
      BY <2>0, <2>8, <3>1 DEF RunReturns, TypeOK, Within, world
  <2>9. ASSUME NEW c \in Clients, Stop(c) PROVE TypeOK' /\ Within'
    <3>1. pc' \in [Clients -> PCs] /\ pc'[c] = "idle"
          /\ \A d \in Clients \ {c} : pc'[d] = pc[d]
      BY <2>9, GotoType, Labels DEF Stop
    <3>2. states' \in [Clients -> [Backends -> State]]
      BY <2>9, StateType DEF Stop, TypeOK
    <3>3. faults' \in 0..MaxFaults
      BY <2>9, ConstantsAssumption DEF Stop, TypeOK
    <3>4. QED
      BY <2>0, <2>9, <3>1, <3>2, <3>3 DEF Stop, TypeOK, Within, world
  <2>10. ASSUME NEW b \in Backends, NEW u \in Users, Configure(b, u)
         PROVE TypeOK' /\ Within'
    BY <2>10 DEF Configure, TypeOK, Within
  <2>11. ASSUME NEW b \in Backends, NEW u \in Users, Remove(b, u)
         PROVE TypeOK' /\ Within'
    BY <2>11 DEF Remove, TypeOK, Within
  <2>12. CASE UNCHANGED vars
    BY <2>12 DEF vars, TypeOK, Within
  <2>13. QED
    BY <2>1, <2>2, <2>3, <2>4, <2>5, <2>6, <2>7, <2>8, <2>9, <2>10, <2>11, <2>12
       DEF Next, Step
<1>3. QED
  BY <1>1, <1>2, PTL DEF Spec
-----------------------------------------------------------------------------
\* What the calls already made in a round guarantee at the next one.
Grounded ==
    \A c \in Clients :
        /\ pc[c] = "write" => UserOf[c] \in rows[Here(c)] \cup removed[Here(c)]
        /\ pc[c] \in {"refresh", "settle"} =>
               ClaimOf[Here(c)] \in claims[UserOf[c]]
        /\ principal[c] \subseteq claims[UserOf[c]]

\* Nothing that was once true of a user is taken back, but by a removal.
Grows ==
    /\ \A u \in Users : claims[u] \subseteq claims'[u]
    /\ \A b \in Backends :
         /\ rows[b] \cup removed[b] \subseteq rows'[b] \cup removed'[b]
         /\ configured[b] \cup removed[b] \subseteq configured'[b] \cup removed'[b]

LEMMA WorldGrows ==
  ASSUME TypeOK, Within, [Next]_vars
  PROVE  Grows
<1>1. ASSUME NEW c \in Clients, Create(c) PROVE Grows
  <2>1. turn[c] <= Len(Order)
    BY <1>1 DEF Create, Within
  <2>2. \A b \in Backends : rows[b] \subseteq rows'[b]
    BY <1>1, <2>1, CreateType DEF Create
  <2>3. QED
    BY <1>1, <2>2 DEF Create, Grows
<1>2. ASSUME NEW c \in Clients, WriteClaim(c) PROVE Grows
  <2>1. turn[c] <= Len(Order)
    BY <1>2 DEF WriteClaim, Within
  <2>2. \A u \in Users : claims[u] \subseteq claims'[u]
    BY <1>2, <2>1, ClaimType DEF WriteClaim
  <2>3. QED
    BY <1>2, <2>2 DEF WriteClaim, Grows
<1>3. ASSUME NEW b \in Backends, NEW u \in Users, Configure(b, u) PROVE Grows
  BY <1>3 DEF Configure, Grows, TypeOK
<1>4. ASSUME NEW b \in Backends, NEW u \in Users, Remove(b, u) PROVE Grows
  BY <1>4 DEF Remove, Grows, TypeOK
<1>5. ASSUME UNCHANGED world PROVE Grows
  BY <1>5 DEF world, Grows
<1>6. ASSUME NEW c \in Clients, Run(c) \/ Inspect(c) \/ Exists(c) \/ Refresh(c)
              \/ Settle(c) \/ RunReturns(c) \/ Stop(c)
      PROVE UNCHANGED world
  BY <1>6 DEF Run, Inspect, Exists, Refresh, Settle, RunReturns, Stop, world
<1>7. CASE UNCHANGED vars
  BY <1>5, <1>7 DEF vars, world
<1>8. QED
  BY <1>1, <1>2, <1>3, <1>4, <1>5, <1>6, <1>7 DEF Next, Step

\* A client that does not step stays grounded, and so does one back at "next".
LEMMA OthersGrounded ==
  ASSUME TypeOK, Within, Grounded, Grows, NEW d \in Clients,
         pc'[d] = pc[d], turn'[d] = turn[d], principal'[d] = principal[d]
  PROVE  Grounded!(d)'
<1>1. UserOf[d] \in Users
  BY ConstantsAssumption
<1>2. CASE pc[d] \in {"idle", "next"}
  BY <1>1, <1>2 DEF Grounded, Grows
<1>3. CASE pc[d] \notin {"idle", "next"}
  <2>1. Here(d) \in Backends /\ Here(d)' = Here(d)
    BY <1>3, HereIsABackend DEF Within, Here
  <2>2. QED
    BY <1>1, <2>1 DEF Grounded, Grows
<1>4. QED
  BY <1>2, <1>3

LEMMA FinishedGrounded ==
  ASSUME TypeOK, Within, Grounded, Grows, NEW c \in Clients,
         turn[c] <= Len(Order), NEW p \in Phases, Finish(c, p),
         UNCHANGED principal
  PROVE  Grounded'
<1>1. ASSUME NEW d \in Clients \ {c} PROVE Grounded!(d)'
  BY <1>1, FinishType, OthersGrounded
<1>2. Grounded!(c)'
  <2>1. pc'[c] = "next" /\ UserOf[c] \in Users
    BY FinishType, ConstantsAssumption
  <2>2. QED
    BY <2>1 DEF Grounded, Grows
<1>3. QED
  BY <1>1, <1>2 DEF Grounded

LEMMA GroundedStep ==
  ASSUME TypeOK, Within, Grounded, [Next]_vars
  PROVE  Grounded'
<1>0. Grows
  BY WorldGrows
<1>1. ASSUME NEW c \in Clients, Fails(c), pc[c] \notin {"idle", "next"},
             UNCHANGED principal
      PROVE  Grounded'
  BY <1>0, <1>1, FinishedGrounded, PhaseNames DEF Fails, Within
<1>2. ASSUME NEW c \in Clients, Step(c), ~Fails(c), pc[c] \notin {"next", "settle"}
      PROVE  Grounded'
  <2>0. /\ turn[c] <= Len(Order)
        /\ UNCHANGED <<turn, principal>>
    BY <1>2 DEF Step, Inspect, Exists, Create, WriteClaim, Refresh, Settle,
                RunReturns, Within
  <2>1. PICK l \in PCs : Goto(c, l)
    BY <1>2, Labels DEF Step, Inspect, Exists, Create, WriteClaim, Refresh, Settle,
                RunReturns
  <2>2. pc'[c] = l /\ \A d \in Clients \ {c} : pc'[d] = pc[d]
    BY <2>1, GotoType
  <2>3. ASSUME NEW d \in Clients \ {c} PROVE Grounded!(d)'
    BY <1>0, <2>0, <2>2, <2>3, OthersGrounded
  <2>4. Here(c)' = Here(c) /\ Here(c) \in Backends /\ UserOf[c] \in Users
    BY <2>0, HereIsABackend DEF Here
  <2>5. pc'[c] = "write" => UserOf[c] \in rows'[Here(c)] \cup removed'[Here(c)]
    <3>1. CASE Exists(c)
      <4>1. pc'[c] = IF UserOf[c] \in rows[Here(c)] THEN "write" ELSE "create"
        BY <1>2, <3>1 DEF Exists, Goto, TypeOK
      <4>2. QED
        BY <3>1, <4>1 DEF Exists, world
    <3>2. CASE Create(c)
      BY <1>2, <2>0, <3>2, CreateType DEF Create
    <3>3. CASE WriteClaim(c)
      BY <1>2, <3>3 DEF WriteClaim, Goto, TypeOK
    <3>4. CASE Refresh(c)
      BY <1>2, <3>4 DEF Refresh, Goto, TypeOK
    <3>5. QED
      BY <1>2, <3>1, <3>2, <3>3, <3>4 DEF Step, Inspect, Settle, RunReturns
  <2>6. pc'[c] \in {"refresh", "settle"} => ClaimOf[Here(c)] \in claims'[UserOf[c]]
    <3>1. CASE Exists(c)
      BY <1>2, <3>1 DEF Exists, Goto, TypeOK
    <3>2. CASE Create(c)
      BY <1>2, <3>2 DEF Create, Goto, TypeOK
    <3>3. CASE WriteClaim(c)
      BY <1>2, <2>0, <3>3, ClaimType DEF WriteClaim
    <3>4. CASE Refresh(c)
      BY <1>2, <3>4 DEF Refresh, world
    <3>5. QED
      BY <1>2, <3>1, <3>2, <3>3, <3>4 DEF Step, Inspect, Settle, RunReturns
  <2>7. principal'[c] \subseteq claims'[UserOf[c]]
    BY <1>0, <2>0, <2>4 DEF Grounded, Grows
  <2>8. Grounded!(c)'
    BY <2>4, <2>5, <2>6, <2>7
  <2>9. QED
    BY <2>3, <2>8 DEF Grounded
<1>3. ASSUME NEW c \in Clients, Settle(c), ~Fails(c) PROVE Grounded'
  <2>1. PICK p \in Phases : Finish(c, p)
    BY <1>3, PhaseNames DEF Settle
  <2>2. turn[c] <= Len(Order) /\ UNCHANGED principal
    BY <1>3 DEF Settle, Within
  <2>3. QED
    BY <1>0, <2>1, <2>2, FinishedGrounded
<1>4. ASSUME NEW c \in Clients, Inspect(c) PROVE Grounded'
  <2>0. turn[c] <= Len(Order) /\ UNCHANGED <<turn, principal, claims>>
    BY <1>4 DEF Inspect, world
  <2>1. pc' = [pc EXCEPT ![c] =
                 IF ClaimOf[Here(c)] \in principal[c] THEN "settle" ELSE "exists"]
    BY <1>4 DEF Inspect, Goto
  <2>2. ASSUME NEW d \in Clients \ {c} PROVE Grounded!(d)'
    <3>1. pc'[d] = pc[d]
      BY <2>1, <2>2 DEF TypeOK
    <3>2. QED
      BY <1>0, <2>0, <3>1, OthersGrounded
  <2>3. Here(c)' = Here(c)
    BY <2>0 DEF Here
  <2>4. Grounded!(c)'
    BY <2>0, <2>1, <2>3 DEF Grounded, TypeOK
  <2>5. QED
    BY <2>2, <2>4 DEF Grounded
<1>5. ASSUME NEW c \in Clients, Run(c) PROVE Grounded'
  <2>1. PICK old \in SUBSET claims[UserOf[c]] :
          principal' = [principal EXCEPT ![c] = old]
    BY <1>5 DEF Run
  <2>2. pc' = [pc EXCEPT ![c] = "next"] /\ UNCHANGED <<turn, claims>>
    BY <1>5 DEF Run, Goto, world
  <2>3. ASSUME NEW d \in Clients \ {c} PROVE Grounded!(d)'
    <3>1. pc'[d] = pc[d] /\ principal'[d] = principal[d]
      BY <2>1, <2>2, <2>3 DEF TypeOK
    <3>2. QED
      BY <1>0, <2>2, <3>1, OthersGrounded
  <2>4. Grounded!(c)'
    BY <2>1, <2>2 DEF TypeOK
  <2>5. QED
    BY <2>3, <2>4 DEF Grounded
<1>6. ASSUME NEW c \in Clients, RunReturns(c) \/ Stop(c) PROVE Grounded'
  <2>1. /\ pc' = [pc EXCEPT ![c] = "idle"]
        /\ principal' = [principal EXCEPT ![c] = {}]
        /\ turn' = [turn EXCEPT ![c] = 1]
    BY <1>6 DEF RunReturns, Stop, Goto
  <2>2. ASSUME NEW d \in Clients \ {c} PROVE Grounded!(d)'
    <3>1. pc'[d] = pc[d] /\ principal'[d] = principal[d] /\ turn'[d] = turn[d]
      BY <2>1, <2>2 DEF TypeOK
    <3>2. QED
      BY <1>0, <3>1, OthersGrounded
  <2>3. Grounded!(c)'
    BY <2>1 DEF TypeOK
  <2>4. QED
    BY <2>2, <2>3 DEF Grounded
<1>7. ASSUME UNCHANGED <<pc, turn, principal>> PROVE Grounded'
  BY <1>0, <1>7, OthersGrounded DEF Grounded
<1>8. ASSUME NEW c \in Clients, Step(c) PROVE Grounded'
  <2>1. CASE Inspect(c)
    BY <1>4, <2>1
  <2>2. CASE RunReturns(c)
    BY <1>6, <2>2
  <2>3. CASE Settle(c) /\ ~Fails(c)
    BY <1>3, <2>3
  <2>4. CASE Fails(c) /\ ~Inspect(c) /\ ~RunReturns(c)
    <3>1. pc[c] \notin {"idle", "next"} /\ UNCHANGED principal
      BY <1>8, <2>4 DEF Step, Exists, Create, WriteClaim, Refresh, Settle
    <3>2. QED
      BY <1>1, <2>4, <3>1
  <2>5. CASE ~Fails(c) /\ ~Inspect(c) /\ ~RunReturns(c) /\ ~Settle(c)
    <3>1. pc[c] \notin {"next", "settle"}
      BY <1>8, <2>5 DEF Step, Exists, Create, WriteClaim, Refresh
    <3>2. QED
      BY <1>2, <1>8, <2>5, <3>1
  <2>6. QED
    BY <2>1, <2>2, <2>3, <2>4, <2>5
<1>9. ASSUME NEW b \in Backends, NEW u \in Users, Configure(b, u) \/ Remove(b, u)
      PROVE Grounded'
  BY <1>7, <1>9 DEF Configure, Remove
<1>10. CASE UNCHANGED vars
  BY <1>7, <1>10 DEF vars
<1>11. QED
  BY <1>5, <1>6, <1>8, <1>9, <1>10 DEF Next

THEOREM GroundedHolds == Spec => []Grounded
<1>1. Init => Grounded
  BY DEF Init, Grounded
<1>2. TypeOK /\ Within /\ Grounded /\ [Next]_vars => Grounded'
  BY GroundedStep
<1>3. QED
  BY <1>1, <1>2, TypeCorrect, PTL DEF Spec
-----------------------------------------------------------------------------
(***************************************************************************)
(* When no two backends share a claim name, a registration claim is proof  *)
(* of registration: the row was there before the claim was written.  (Two  *)
(* names with one slug share a claim, and then it is not: RegistrationClaim*)
(* of principal.go is not injective on names.)                             *)
(***************************************************************************)
THEOREM ClaimedMeansRegisteredHolds ==
  ASSUME IsInjective(ClaimOf)
  PROVE  Spec => []ClaimedMeansRegistered
<1>1. Init => ClaimedMeansRegistered
  BY DEF Init, ClaimedMeansRegistered
<1>2. TypeOK /\ Within /\ Grounded /\ ClaimedMeansRegistered /\ [Next]_vars
        => ClaimedMeansRegistered'
  <2> SUFFICES ASSUME TypeOK, Within, Grounded, ClaimedMeansRegistered, [Next]_vars,
                      NEW u \in Users, NEW b \in Backends,
                      ClaimOf[b] \in claims'[u]
               PROVE  u \in rows'[b] \cup removed'[b]
    BY DEF ClaimedMeansRegistered
  <2>1. Grows
    BY WorldGrows
  <2>2. CASE ClaimOf[b] \in claims[u]
    BY <2>1, <2>2 DEF Grows, ClaimedMeansRegistered
  <2>3. CASE ClaimOf[b] \notin claims[u]
    <3>1. PICK c \in Clients : WriteClaim(c)
      BY <2>3 DEF Next, Step, Run, Inspect, Exists, Create, Refresh, Settle,
                  RunReturns, Stop, Configure, Remove, vars, world
    <3>2. turn[c] <= Len(Order) /\ pc[c] = "write" /\ ClaimApplied(c)
      BY <2>3, <3>1 DEF WriteClaim, Within
    <3>3. u = UserOf[c] /\ ClaimOf[b] = ClaimOf[Here(c)]
      BY <2>3, <3>2, ClaimType, ConstantsAssumption
    <3>4. b = Here(c)
      BY <3>2, <3>3, HereIsABackend, ConstantsAssumption DEF IsInjective
    <3>5. QED
      BY <2>1, <3>2, <3>3, <3>4 DEF Grounded, Grows
  <2>4. QED
    BY <2>2, <2>3
<1>3. QED
  BY <1>1, <1>2, TypeCorrect, GroundedHolds, PTL DEF Spec
-----------------------------------------------------------------------------
\* What a call of client d can make of the state it has of the backend it is at.
Advanced(d, b) ==
    LET old == states[d][b]
        new == states'[d][b]
    IN  /\ turn[d] <= Len(Order)
        /\ b = Here(d)
        /\ \/ new = [old EXCEPT !.phase = "bootstrapping"]
           \/ new = [old EXCEPT !.created = TRUE] /\ CreateApplied(d)
           \/ new = [old EXCEPT !.claimWritten = TRUE] /\ ClaimApplied(d)
           \/ new = [old EXCEPT !.phase = "error"]
           \/ new = [old EXCEPT !.phase = "needs-onboarding"] /\ pc[d] = "settle"
           \/ /\ new = [old EXCEPT !.phase = "ready"]
              /\ pc[d] = "settle"
              /\ b \in Staged => UserOf[d] \in configured[b]

Moved(d, b) ==
    \/ states'[d][b] = states[d][b]
    \/ states'[d][b] = NoState
    \/ Advanced(d, b)

LEMMA StatesMove ==
  ASSUME TypeOK, Within, [Next]_vars, NEW d \in Clients, NEW b \in Backends
  PROVE  Moved(d, b)
<1>1. ASSUME NEW c \in Clients, turn[c] <= Len(Order), Fails(c) PROVE Moved(d, b)
  <2>1. /\ states'[c][Here(c)] = [states[c][Here(c)] EXCEPT !.phase = "error"]
        /\ d # c \/ b # Here(c) => states'[d][b] = states[d][b]
    BY <1>1, FinishType, PhaseNames DEF Fails
  <2>2. QED
    BY <1>1, <2>1 DEF Moved, Advanced
<1>2. ASSUME NEW c \in Clients, turn[c] <= Len(Order), NEW s \in State, Mark(c, s),
             d # c \/ b # Here(c)
      PROVE  Moved(d, b)
  BY <1>2, MarkType DEF Moved
<1>3. ASSUME UNCHANGED states PROVE Moved(d, b)
  BY <1>3 DEF Moved
<1>4. ASSUME NEW c \in Clients, Inspect(c) PROVE Moved(d, b)
  <2> DEFINE s == [states[c][Here(c)] EXCEPT !.phase = "bootstrapping"]
  <2>1. turn[c] <= Len(Order) /\ s \in State /\ Mark(c, s)
    BY <1>4, HereIsABackend, StateType, PhaseNames DEF Inspect
  <2>2. states'[c][Here(c)] = s
    <3> HIDE DEF s
    <3>1. QED
      BY <2>1, MarkType
  <2>3. CASE d = c /\ b = Here(c)
    BY <2>1, <2>2, <2>3 DEF Moved, Advanced
  <2>4. CASE d # c \/ b # Here(c)
    <3> HIDE DEF s
    <3>1. QED
      BY <1>2, <2>1, <2>4
  <2>5. QED
    BY <2>3, <2>4
<1>5. ASSUME NEW c \in Clients, Create(c), ~Fails(c) PROVE Moved(d, b)
  <2> DEFINE s == [states[c][Here(c)] EXCEPT !.created = TRUE]
  <2>0. turn[c] <= Len(Order)
    BY <1>5 DEF Create, Within
  <2>1. s \in State /\ Mark(c, s)
    BY <1>5, <2>0, HereIsABackend, StateType DEF Create
  <2>2. states'[c][Here(c)] = s
    <3> HIDE DEF s
    <3>1. QED
      BY <2>0, <2>1, MarkType
  <2>3. CASE d = c /\ b = Here(c)
    BY <1>5, <2>0, <2>1, <2>2, <2>3 DEF Create, Moved, Advanced
  <2>4. CASE d # c \/ b # Here(c)
    <3> HIDE DEF s
    <3>1. QED
      BY <1>2, <2>0, <2>1, <2>4
  <2>5. QED
    BY <2>3, <2>4
<1>6. ASSUME NEW c \in Clients, WriteClaim(c), ~Fails(c) PROVE Moved(d, b)
  <2> DEFINE s == [states[c][Here(c)] EXCEPT !.claimWritten = TRUE]
  <2>0. turn[c] <= Len(Order)
    BY <1>6 DEF WriteClaim, Within
  <2>1. s \in State /\ Mark(c, s)
    BY <1>6, <2>0, HereIsABackend, StateType DEF WriteClaim
  <2>2. states'[c][Here(c)] = s
    <3> HIDE DEF s
    <3>1. QED
      BY <2>0, <2>1, MarkType
  <2>3. CASE d = c /\ b = Here(c)
    BY <1>6, <2>0, <2>1, <2>2, <2>3 DEF WriteClaim, Moved, Advanced
  <2>4. CASE d # c \/ b # Here(c)
    <3> HIDE DEF s
    <3>1. QED
      BY <1>2, <2>0, <2>1, <2>4
  <2>5. QED
    BY <2>3, <2>4
<1>7. ASSUME NEW c \in Clients, Settle(c), ~Fails(c) PROVE Moved(d, b)
  <2>0. turn[c] <= Len(Order) /\ pc[c] = "settle"
    BY <1>7 DEF Settle, Within
  <2>1. PICK p \in {"ready", "needs-onboarding"} :
          /\ Finish(c, p)
          /\ p = "ready" /\ Here(c) \in Staged => UserOf[c] \in configured[Here(c)]
    BY <1>7 DEF Settle
  <2>2. /\ states'[c][Here(c)] = [states[c][Here(c)] EXCEPT !.phase = p]
        /\ d # c \/ b # Here(c) => states'[d][b] = states[d][b]
    BY <2>0, <2>1, FinishType, PhaseNames
  <2>3. QED
    BY <2>0, <2>1, <2>2 DEF Moved, Advanced
<1>8. ASSUME NEW c \in Clients, Run(c) \/ Stop(c) PROVE Moved(d, b)
  <2>1. states' = [states EXCEPT ![c] = [a \in Backends |-> NoState]]
    BY <1>8 DEF Run, Stop
  <2>2. CASE d = c
    BY <2>1, <2>2 DEF Moved, TypeOK
  <2>3. CASE d # c
    BY <2>1, <2>3 DEF Moved, TypeOK
  <2>4. QED
    BY <2>2, <2>3
<1>9. ASSUME NEW c \in Clients, Step(c) PROVE Moved(d, b)
  <2>1. CASE Fails(c) /\ ~Inspect(c) /\ ~RunReturns(c)
    <3>1. turn[c] <= Len(Order)
      BY <1>9, <2>1 DEF Step, Exists, Create, WriteClaim, Refresh, Settle, Within
    <3>2. QED
      BY <1>1, <2>1, <3>1
  <2>2. CASE (Exists(c) \/ Refresh(c)) /\ ~Fails(c)
    BY <1>3, <2>2 DEF Exists, Refresh
  <2>3. CASE RunReturns(c)
    BY <1>3, <2>3 DEF RunReturns
  <2>4. QED
    BY <1>4, <1>5, <1>6, <1>7, <1>9, <2>1, <2>2, <2>3 DEF Step
<1>10. ASSUME NEW a \in Backends, NEW u \in Users, Configure(a, u) \/ Remove(a, u)
       PROVE  Moved(d, b)
  BY <1>3, <1>10 DEF Configure, Remove
<1>11. CASE UNCHANGED vars
  BY <1>3, <1>11 DEF vars
<1>12. QED
  BY <1>8, <1>9, <1>10, <1>11 DEF Next

\* The same, field by field.
LEMMA AdvancedFields ==
  ASSUME TypeOK, NEW d \in Clients, NEW b \in Backends, Advanced(d, b)
  PROVE  LET old == states[d][b]
             new == states'[d][b]
         IN  /\ new.created = old.created \/ CreateApplied(d)
             /\ new.claimWritten = old.claimWritten \/ ClaimApplied(d)
             /\ \/ new.phase = old.phase
                \/ new.phase = "bootstrapping"
                \/ new.phase = "error"
                \/ /\ new.phase \in {"needs-onboarding", "ready"}
                   /\ pc[d] = "settle"
                   /\ new.phase = "ready" /\ b \in Staged =>
                          UserOf[d] \in configured[b]
<1> DEFINE old == states[d][b]
           new == states'[d][b]
<1>1. old \in State
  BY DEF TypeOK
<1>2. /\ \A p \in Phases : new = [old EXCEPT !.phase = p] =>
             /\ new.phase = p /\ new.created = old.created
             /\ new.claimWritten = old.claimWritten
      /\ new = [old EXCEPT !.created = TRUE] =>
             new.phase = old.phase /\ new.claimWritten = old.claimWritten
      /\ new = [old EXCEPT !.claimWritten = TRUE] =>
             new.phase = old.phase /\ new.created = old.created
  BY <1>1 DEF State
<1>3. CASE new = [old EXCEPT !.phase = "bootstrapping"]
  BY <1>2, <1>3, PhaseNames
<1>4. CASE new = [old EXCEPT !.created = TRUE] /\ CreateApplied(d)
  BY <1>2, <1>4
<1>5. CASE new = [old EXCEPT !.claimWritten = TRUE] /\ ClaimApplied(d)
  BY <1>2, <1>5
<1>6. CASE new = [old EXCEPT !.phase = "error"]
  BY <1>2, <1>6, PhaseNames
<1>7. CASE new = [old EXCEPT !.phase = "needs-onboarding"] /\ pc[d] = "settle"
  BY <1>2, <1>7, PhaseNames
<1>8. CASE /\ new = [old EXCEPT !.phase = "ready"]
           /\ pc[d] = "settle"
           /\ b \in Staged => UserOf[d] \in configured[b]
  BY <1>2, <1>8, PhaseNames
<1>9. QED
  BY <1>3, <1>4, <1>5, <1>6, <1>7, <1>8 DEF Advanced

(***************************************************************************)
(* Whatever other devices, the user and the backends do, what a round has  *)
(* found stays true: a settled backend is claimed, a ready one is done     *)
(* with its second step, a row it created is there (settle, failed).       *)
(***************************************************************************)
THEOREM ReportsAreTrueHolds == Spec => []ReportsAreTrue
<1>1. Init => ReportsAreTrue
  BY StateType DEF Init, ReportsAreTrue
<1>2. TypeOK /\ Within /\ Grounded /\ ReportsAreTrue /\ [Next]_vars => ReportsAreTrue'
  <2> SUFFICES ASSUME TypeOK, Within, Grounded, ReportsAreTrue, [Next]_vars,
                      NEW d \in Clients, NEW b \in Backends
               PROVE  ReportsAreTrue!(d, b)'
    BY DEF ReportsAreTrue
  <2>0. states[d][b] \in State /\ UserOf[d] \in Users /\ Grows
    BY ConstantsAssumption, WorldGrows DEF TypeOK
  <2>1. CASE states'[d][b] = states[d][b]
    BY <2>0, <2>1 DEF ReportsAreTrue, Grows
  <2>2. CASE states'[d][b] = NoState
    BY <2>2, StateType
  <2>3. CASE Advanced(d, b)
    <3>1. turn[d] <= Len(Order) /\ b = Here(d)
      BY <2>3 DEF Advanced
    <3>2. states'[d][b].created => UserOf[d] \in rows'[b] \cup removed'[b]
      <4>1. CASE CreateApplied(d)
        BY <3>1, <4>1, CreateType
      <4>2. CASE ~CreateApplied(d)
        <5>1. states'[d][b].created = states[d][b].created
          BY <2>3, <4>2, AdvancedFields
        <5>2. QED
          BY <2>0, <5>1 DEF ReportsAreTrue, Grows
      <4>3. QED
        BY <4>1, <4>2
    <3>3. states'[d][b].claimWritten => ClaimOf[b] \in claims'[UserOf[d]]
      <4>1. CASE ClaimApplied(d)
        BY <3>1, <4>1, ClaimType
      <4>2. CASE ~ClaimApplied(d)
        <5>1. states'[d][b].claimWritten = states[d][b].claimWritten
          BY <2>3, <4>2, AdvancedFields
        <5>2. QED
          BY <2>0, <5>1 DEF ReportsAreTrue, Grows
      <4>3. QED
        BY <4>1, <4>2
    <3>4. /\ states'[d][b].phase \in {"ready", "needs-onboarding"} =>
                 ClaimOf[b] \in claims'[UserOf[d]]
          /\ states'[d][b].phase = "ready" /\ b \in Staged =>
                 UserOf[d] \in configured'[b] \cup removed'[b]
      <4>1. CASE states'[d][b].phase = states[d][b].phase
        BY <2>0, <4>1 DEF ReportsAreTrue, Grows
      <4>2. CASE states'[d][b].phase \in {"bootstrapping", "error"}
        BY <4>2
      <4>3. CASE pc[d] = "settle" /\ (states'[d][b].phase = "ready" /\ b \in Staged =>
                                        UserOf[d] \in configured[b])
        BY <2>0, <3>1, <4>3 DEF Grounded, Grows
      <4>4. QED
        BY <2>3, <4>1, <4>2, <4>3, AdvancedFields
    <3>5. QED
      BY <3>2, <3>3, <3>4
  <2>4. QED
    BY <2>1, <2>2, <2>3, StatesMove DEF Moved
<1>3. QED
  BY <1>1, <1>2, TypeCorrect, GroundedHolds, PTL DEF Spec
-----------------------------------------------------------------------------
\* How far the round of c has got: the backends it is past have their verdict, and
\* no call has failed for the ones ahead.  An idle client has a whole round, or none.
Judged(c) ==
    /\ pc[c] # "idle" =>
           \A i \in DOMAIN Order :
               IF i < turn[c] THEN Verdict(c, Order[i]) ELSE Order[i] \notin failing[c]
    /\ pc[c] = "idle" =>
           /\ turn[c] = 1
           /\ \/ \A b \in Backends : states[c][b] = NoState
              \/ \A b \in Backends : Verdict(c, b)

\* What a step leaves of the round of d.
RoundKept(d) ==
    /\ pc'[d] = pc[d] /\ turn'[d] = turn[d]
    /\ states'[d] = states[d] /\ failing'[d] = failing[d]

RoundCalls(d) ==
    /\ pc[d] # "idle" /\ pc'[d] # "idle" /\ turn[d] <= Len(Order)
    /\ turn'[d] = turn[d] /\ failing'[d] = failing[d]
    /\ \A b \in Backends \ {Here(d)} : states'[d][b] = states[d][b]

RoundGoesOn(d) ==
    /\ pc[d] # "idle" /\ pc'[d] # "idle" /\ turn[d] <= Len(Order)
    /\ turn'[d] = turn[d] + 1
    /\ \A b \in Backends \ {Here(d)} : states'[d][b] = states[d][b]
    /\ \/ /\ states'[d][Here(d)].phase = "error"
          /\ failing'[d] = failing[d] \cup {Here(d)}
       \/ /\ states'[d][Here(d)].phase \in {"ready", "needs-onboarding"}
          /\ failing'[d] = failing[d]

RoundBegins(d) ==
    pc[d] = "idle" /\ pc'[d] # "idle" /\ turn'[d] = turn[d] /\ failing'[d] = {}

RoundReturns(d) ==
    /\ pc[d] # "idle" /\ turn[d] > Len(Order)
    /\ turn'[d] = 1 /\ states'[d] = states[d] /\ failing'[d] = failing[d]
    /\ pc'[d] = "idle"

RoundStops(d) ==
    /\ turn'[d] = 1 /\ pc'[d] = "idle"
    /\ \A b \in Backends : states'[d][b] = NoState

RoundMoves(d) ==
    \/ RoundKept(d) \/ RoundCalls(d) \/ RoundGoesOn(d)
    \/ RoundBegins(d) \/ RoundReturns(d) \/ RoundStops(d)

\* The turn of a backend ends: with a fault of its own and in error, or with none.
LEMMA TurnEnds ==
  ASSUME TypeOK, NEW c \in Clients, turn[c] <= Len(Order), pc[c] # "idle",
         NEW p \in Phases, Finish(c, p),
         \/ p = "error" /\ Fault(c)
         \/ p \in {"ready", "needs-onboarding"} /\ NoFault
  PROVE  \A d \in Clients : RoundMoves(d)
<1>1. states[c][Here(c)] \in State
  BY HereIsABackend
<1>2. [states[c][Here(c)] EXCEPT !.phase = p].phase = p
  BY <1>1, StateType
<1>3. states'[c][Here(c)].phase = p
  BY <1>2, FinishType
<1>4. /\ turn'[c] = turn[c] + 1
      /\ \A d \in Clients \ {c} : turn'[d] = turn[d] /\ states'[d] = states[d]
  BY DEF Finish, Mark, TypeOK
<1>5. \/ p = "error" /\ failing'[c] = failing[c] \cup {Here(c)}
      \/ p \in {"ready", "needs-onboarding"} /\ failing'[c] = failing[c]
  BY DEF Fault, NoFault, TypeOK
<1>6. \A d \in Clients \ {c} : failing'[d] = failing[d]
  BY DEF Fault, NoFault, TypeOK
<1>7. RoundGoesOn(c)
  <2>1. pc'[c] = "next"
    BY FinishType
  <2>2. \A b \in Backends \ {Here(c)} : states'[c][b] = states[c][b]
    BY DEF Finish, Mark, TypeOK
  <2>3. QED
    BY <1>3, <1>4, <1>5, <2>1, <2>2 DEF RoundGoesOn
<1>8. \A d \in Clients \ {c} : RoundKept(d)
  BY <1>4, <1>6, FinishType DEF RoundKept
<1>9. QED
  BY <1>7, <1>8 DEF RoundMoves

LEMMA TurnStays ==
  ASSUME TypeOK, NEW c \in Clients, turn[c] <= Len(Order), pc[c] # "idle",
         NEW l \in PCs \ {"idle"}, Goto(c, l), UNCHANGED <<turn, failing>>,
         UNCHANGED states \/ \E s : Mark(c, s)
  PROVE  \A d \in Clients : RoundMoves(d)
<1>1. pc'[c] # "idle" /\ \A d \in Clients \ {c} : pc'[d] = pc[d]
  BY GotoType
<1>2. /\ \A d \in Clients \ {c} : states'[d] = states[d]
      /\ \A b \in Backends \ {Here(c)} : states'[c][b] = states[c][b]
  BY DEF Mark, TypeOK
<1>3. QED
  BY <1>1, <1>2 DEF RoundMoves, RoundCalls, RoundKept

LEMMA RoundsMove ==
  ASSUME TypeOK, Within, [Next]_vars, NEW d \in Clients
  PROVE  RoundMoves(d)
<1>1. ASSUME NEW c \in Clients, Run(c) PROVE RoundMoves(d)
  <2>1. /\ pc' = [pc EXCEPT ![c] = "next"] /\ pc[c] = "idle"
        /\ states' = [states EXCEPT ![c] = [b \in Backends |-> NoState]]
        /\ failing' = [failing EXCEPT ![c] = {}] /\ turn' = turn
    BY <1>1 DEF Run, Goto
  <2>2. d = c => RoundBegins(d)
    BY <2>1 DEF TypeOK, RoundBegins
  <2>3. d # c => RoundKept(d)
    BY <2>1 DEF TypeOK, RoundKept
  <2>4. QED
    BY <2>2, <2>3 DEF RoundMoves
<1>2. ASSUME NEW c \in Clients, RunReturns(c) PROVE RoundMoves(d)
  <2>1. /\ pc' = [pc EXCEPT ![c] = "idle"] /\ pc[c] = "next"
        /\ turn[c] > Len(Order) /\ turn' = [turn EXCEPT ![c] = 1]
        /\ UNCHANGED <<states, failing>>
    BY <1>2 DEF RunReturns, Goto
  <2>2. d = c => RoundReturns(d)
    BY <2>1 DEF TypeOK, RoundReturns
  <2>3. d # c => RoundKept(d)
    BY <2>1 DEF TypeOK, RoundKept
  <2>4. QED
    BY <2>2, <2>3 DEF RoundMoves
<1>3. ASSUME NEW c \in Clients, Stop(c) PROVE RoundMoves(d)
  <2>1. /\ pc' = [pc EXCEPT ![c] = "idle"] /\ turn' = [turn EXCEPT ![c] = 1]
        /\ states' = [states EXCEPT ![c] = [b \in Backends |-> NoState]]
        /\ failing' = [failing EXCEPT ![c] = {}]
    BY <1>3 DEF Stop, Goto
  <2>2. d = c => RoundStops(d)
    BY <2>1 DEF TypeOK, RoundStops
  <2>3. d # c => RoundKept(d)
    BY <2>1 DEF TypeOK, RoundKept
  <2>4. QED
    BY <2>2, <2>3 DEF RoundMoves
<1>4. ASSUME NEW c \in Clients, Step(c), ~RunReturns(c) PROVE RoundMoves(d)
  <2>1. turn[c] <= Len(Order) /\ pc[c] # "idle"
    BY <1>4 DEF Step, Inspect, Exists, Create, WriteClaim, Refresh, Settle, Within
  <2>2. CASE Fails(c) /\ ~Inspect(c)
    BY <2>1, <2>2, TurnEnds, PhaseNames DEF Fails
  <2>3. CASE Inspect(c)
    <3>1. PICK l \in {"settle", "exists"} : Goto(c, l)
      BY <2>3 DEF Inspect
    <3>2. UNCHANGED <<turn, failing>> /\ \E s : Mark(c, s)
      BY <2>3 DEF Inspect
    <3>3. QED
      BY <2>1, <3>1, <3>2, TurnStays, Labels
  <2>4. CASE Exists(c) /\ ~Fails(c)
    BY <2>1, <2>4, TurnStays, Labels DEF Exists, NoFault
  <2>5. CASE Create(c) /\ ~Fails(c)
    BY <2>1, <2>5, TurnStays, Labels DEF Create, NoFault
  <2>6. CASE WriteClaim(c) /\ ~Fails(c)
    BY <2>1, <2>6, TurnStays, Labels DEF WriteClaim, NoFault
  <2>7. CASE Refresh(c) /\ ~Fails(c)
    BY <2>1, <2>7, TurnStays, Labels DEF Refresh, NoFault
  <2>8. CASE Settle(c) /\ ~Fails(c)
    <3>1. PICK p \in {"ready", "needs-onboarding"} : Finish(c, p) /\ NoFault
      BY <2>8 DEF Settle
    <3>2. QED
      BY <2>1, <3>1, TurnEnds, PhaseNames
  <2>9. QED
    BY <1>4, <2>2, <2>3, <2>4, <2>5, <2>6, <2>7, <2>8 DEF Step
<1>5. CASE UNCHANGED <<pc, turn, states, failing>>
  BY <1>5 DEF RoundKept, RoundMoves
<1>6. QED
  BY <1>1, <1>2, <1>3, <1>4, <1>5 DEF Next, Configure, Remove, vars

LEMMA JudgedNext ==
  ASSUME TypeOK, Within, [Next]_vars, NEW d \in Clients, Judged(d)
  PROVE  Judged(d)'
<1>1. /\ Len(Order) \in Nat /\ DOMAIN Order = 1..Len(Order)
      /\ \A i \in DOMAIN Order : Order[i] \in Backends
      /\ \A i, j \in DOMAIN Order : Order[i] = Order[j] => i = j
      /\ \A b \in Backends : \E i \in DOMAIN Order : Order[i] = b
  BY ConstantsAssumption DEF IsInjective, Range
<1>2. turn[d] \in 1..Len(Order) + 1
  BY DEF TypeOK
<1>3. CASE RoundKept(d)
  BY <1>3 DEF RoundKept, Judged, Verdict
<1>4. CASE RoundCalls(d)
  <2>1. \A i \in DOMAIN Order : i < turn[d] => Order[i] # Here(d)
    BY <1>1, <1>2, <1>4 DEF RoundCalls, Here
  <2>2. QED
    BY <1>1, <1>4, <2>1 DEF RoundCalls, Judged, Verdict
<1>5. CASE RoundGoesOn(d)
  <2>1. turn[d] \in DOMAIN Order /\ Here(d) = Order[turn[d]]
    BY <1>1, <1>2, <1>5 DEF RoundGoesOn, Here
  <2>2. Here(d) \notin failing[d]
    BY <1>2, <1>5, <2>1 DEF RoundGoesOn, Judged
  <2>3. ASSUME NEW i \in DOMAIN Order, i = turn[d] PROVE Verdict(d, Order[i])'
    <3>1. Here(d) = Order[i]
      BY <2>1, <2>3
    <3>2. \/ states'[d][Order[i]].phase = "error" /\ Order[i] \in failing'[d]
          \/ /\ states'[d][Order[i]].phase \in {"ready", "needs-onboarding"}
             /\ Order[i] \notin failing'[d]
      BY <1>5, <2>2, <3>1 DEF RoundGoesOn
    <3>3. QED
      BY <3>2 DEF Verdict
  <2>4. ASSUME NEW i \in DOMAIN Order, i # turn[d]
        PROVE  /\ (Order[i] \in failing'[d]) <=> (Order[i] \in failing[d])
               /\ states'[d][Order[i]] = states[d][Order[i]]
    BY <1>1, <1>5, <2>1, <2>4 DEF RoundGoesOn
  <2>5. ASSUME NEW i \in DOMAIN Order
        PROVE  IF i < turn'[d] THEN Verdict(d, Order[i])' ELSE Order[i] \notin failing'[d]
    <3>1. CASE i = turn[d]
      BY <1>2, <1>5, <2>1, <2>3, <3>1 DEF RoundGoesOn
    <3>2. CASE i # turn[d]
      <4>1. i < turn'[d] <=> i < turn[d]
        BY <1>1, <1>2, <1>5, <3>2 DEF RoundGoesOn
      <4>2. QED
        BY <1>5, <2>4, <3>2, <4>1 DEF RoundGoesOn, Judged, Verdict
    <3>3. QED
      BY <3>1, <3>2
  <2>6. QED
    BY <1>5, <2>5 DEF RoundGoesOn, Judged
<1>6. CASE RoundBegins(d)
  BY <1>1, <1>6 DEF RoundBegins, Judged
<1>7. CASE RoundReturns(d)
  <2>1. \A i \in DOMAIN Order : i < turn[d]
    BY <1>1, <1>2, <1>7 DEF RoundReturns
  <2>2. \A b \in Backends : Verdict(d, b)
    BY <1>1, <1>7, <2>1 DEF RoundReturns, Judged
  <2>3. \A b \in Backends : Verdict(d, b)'
    BY <1>7, <2>2 DEF RoundReturns, Verdict
  <2>4. QED
    BY <1>7, <2>3 DEF RoundReturns, Judged
<1>8. CASE RoundStops(d)
  BY <1>8 DEF RoundStops, Judged
<1>9. QED
  BY <1>3, <1>4, <1>5, <1>6, <1>7, <1>8, RoundsMove DEF RoundMoves

THEOREM JudgedHolds == Spec => [](\A c \in Clients : Judged(c))
<1>1. Init => \A c \in Clients : Judged(c)
  BY DEF Init, Judged
<1>2. TypeOK /\ Within /\ (\A c \in Clients : Judged(c)) /\ [Next]_vars
        => (\A c \in Clients : Judged(c))'
  BY JudgedNext
<1>3. QED
  BY <1>1, <1>2, TypeCorrect, PTL DEF Spec

(***************************************************************************)
(* One backend failing never aborts the others: a round that returns has a *)
(* verdict on every backend, error exactly where a call failed in it (Run).*)
(***************************************************************************)
THEOREM EveryBackendGetsItsVerdictHolds == Spec => []EveryBackendGetsItsVerdict
<1>1. (\A c \in Clients : Judged(c)) => EveryBackendGetsItsVerdict
  BY DEF Judged, EveryBackendGetsItsVerdict
<1>2. QED
  BY <1>1, JudgedHolds, PTL

(***************************************************************************)
(* What NobodyIsStuck rests on beside the fairness: one good round is      *)
(* enough.  Whatever rounds that failed or stopped have left behind, and   *)
(* whatever other devices do meanwhile, a round has a claim for its user   *)
(* at every backend it is past without a fault there (Sync.reconcile: a    *)
(* row that exists is claimed, not created again).                         *)
(***************************************************************************)
OneGoodRoundIsEnough ==
    \A c \in Clients, i \in DOMAIN Order :
        i < turn[c] /\ Order[i] \notin failing[c] =>
            ClaimOf[Order[i]] \in claims[UserOf[c]]

THEOREM OneGoodRoundIsEnoughHolds == Spec => []OneGoodRoundIsEnough
<1>1. (\A c \in Clients : Judged(c)) /\ ReportsAreTrue => OneGoodRoundIsEnough
  <2> SUFFICES ASSUME \A c \in Clients : Judged(c), ReportsAreTrue,
                      NEW c \in Clients, NEW i \in DOMAIN Order,
                      i < turn[c], Order[i] \notin failing[c]
               PROVE  ClaimOf[Order[i]] \in claims[UserOf[c]]
    BY DEF OneGoodRoundIsEnough
  <2>1. Order[i] \in Backends /\ i \in 1..Len(Order)
    BY ConstantsAssumption
  <2>2. pc[c] # "idle"
    BY <2>1 DEF Judged
  <2>3. states[c][Order[i]].phase \in {"needs-onboarding", "ready"}
    BY <2>2 DEF Judged, Verdict
  <2>4. QED
    BY <2>1, <2>3 DEF ReportsAreTrue
<1>2. QED
  BY <1>1, JudgedHolds, ReportsAreTrueHolds, PTL
=============================================================================
