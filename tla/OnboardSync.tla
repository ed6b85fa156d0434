---------------------------- MODULE OnboardSync ----------------------------
(***************************************************************************)
(* Onboarding: Sync.Run of lib/onboard/sync.go, run by clients - several   *)
(* devices of one user among them - against backends, each of which keeps  *)
(* its own user rows, and an identity provider that keeps the claims.      *)
(*                                                                         *)
(* A round takes the backends in the order they were given, and each       *)
(* through a chain of calls: is there a row, create it, write the claim    *)
(* back, refresh and look for the claim.  Any call can fail with or        *)
(* without having taken effect, a process can stop between two, and the    *)
(* rounds of other devices interleave.  Resolving a backend's token, which *)
(* has no effect here, is part of the call it is resolved for.             *)
(***************************************************************************)
EXTENDS Naturals, Sequences, FiniteSets, Functions

CONSTANTS
    Clients,    \* processes that run rounds
    Users,
    UserOf,     \* whose token each client holds
    Backends,   \* the backends
    Order,      \* the order they are registered, and so taken, in
    Staged,     \* those with a second, app-specific step (Configurable)
    Claims,     \* claim names
    ClaimOf,    \* RegistrationClaim of each backend's name
    MaxFaults   \* bound: calls that fail or answer stale, and stops

ASSUME ConstantsAssumption ==
    /\ UserOf \in [Clients -> Users]
    /\ Order \in Seq(Backends)
    /\ IsInjective(Order)
    /\ Range(Order) = Backends
    /\ Staged \subseteq Backends
    /\ ClaimOf \in [Backends -> Claims]
    /\ MaxFaults \in Nat

\* The phases of a backend; pre-onboarding is of the time before any is chosen.
Phases == {"absent", "bootstrapping", "needs-onboarding", "ready", "error"}

\* A State, "absent" while the round has none for the backend.
State == [phase : Phases, created : BOOLEAN, claimWritten : BOOLEAN]

NoState == [phase |-> "absent", created |-> FALSE, claimWritten |-> FALSE]

VARIABLES
    rows,       \* backend -> the users it holds a row for
    claims,     \* user -> the registration claims in its custom data
    configured, \* backend -> the users that completed its second step
    principal,  \* the claims on the token each client holds
    pc,         \* where each client is in its round
    turn,       \* how far it is through Order
    states,     \* what its round has found of each backend
    faults,     \* faults so far
    removed,    \* history: the users whose row a backend has deleted
    failing     \* history: the backends with a fault in the client's round

vars == <<rows, claims, configured, principal, pc, turn, states, faults, removed,
          failing>>

world == <<rows, claims, configured, removed>>
-----------------------------------------------------------------------------
Goto(c, l) == pc' = [pc EXCEPT ![c] = l]

\* The backend the round of c is at.
Here(c) == Order[turn[c]]

Mark(c, state) == states' = [states EXCEPT ![c][Here(c)] = state]

\* reconcile returns the backend's state; the round goes on with the next one.
FinishMutant(c, phase) ==
    /\ Goto(c, "next")
    /\ turn' = [turn EXCEPT ![c] = IF phase = "error" THEN Len(Order) + 1 ELSE @ + 1]
    /\ Mark(c, [states[c][Here(c)] EXCEPT !.phase = phase])

FinishPreMutant(c, phase) ==
    /\ Goto(c, "next")
    /\ turn' = [turn EXCEPT ![c] = @ + 1]
    /\ Mark(c, [states[c][Here(c)] EXCEPT
           !.phase = IF phase = "needs-onboarding" THEN "pre-onboarding" ELSE phase])

Finish(c, phase) ==
    /\ Goto(c, "next")
    /\ turn' = [turn EXCEPT ![c] = @ + 1]
    /\ Mark(c, [states[c][Here(c)] EXCEPT !.phase = phase])

\* A call of c fails: failed keeps the progress the round made.
Fault(c) ==
    /\ faults < MaxFaults
    /\ faults' = faults + 1
    /\ failing' = [failing EXCEPT ![c] = @ \cup {Here(c)}]

Fails(c) == Fault(c) /\ Finish(c, "error")

NoFault == UNCHANGED <<faults, failing>>
-----------------------------------------------------------------------------
Init ==
    /\ rows \in [Backends -> SUBSET Users]
    /\ claims = [u \in Users |-> {}]
    /\ configured = [b \in Backends |-> {}]
    /\ principal = [c \in Clients |-> {}]
    /\ pc = [c \in Clients |-> "idle"]
    /\ turn = [c \in Clients |-> 1]
    /\ states = [c \in Clients |-> [b \in Backends |-> NoState]]
    /\ faults = 0
    /\ removed = [b \in Backends |-> {}]
    /\ failing = [c \in Clients |-> {}]

\* Run, for a client that holds a token of now or of some earlier time.
Run(c) ==
    /\ pc[c] = "idle"
    /\ \E old \in SUBSET claims[UserOf[c]] :
         principal' = [principal EXCEPT ![c] = old]
    /\ states' = [states EXCEPT ![c] = [b \in Backends |-> NoState]]
    /\ failing' = [failing EXCEPT ![c] = {}]
    /\ Goto(c, "next")
    /\ UNCHANGED <<world, turn, faults>>

\* reconcile, up to its first call: principal.Registered.
Inspect(c) ==
    /\ pc[c] = "next"
    /\ turn[c] <= Len(Order)
    /\ Mark(c, [states[c][Here(c)] EXCEPT !.phase = "bootstrapping"])
    /\ Goto(c, IF ClaimOf[Here(c)] \in principal[c] THEN "settle" ELSE "exists")
    /\ UNCHANGED <<world, principal, turn, faults, failing>>

\* Run returns the states, which the caller keeps until it runs another round.
RunReturns(c) ==
    /\ pc[c] = "next"
    /\ turn[c] > Len(Order)
    /\ Goto(c, "idle")
    /\ principal' = [principal EXCEPT ![c] = {}]
    /\ turn' = [turn EXCEPT ![c] = 1]
    /\ UNCHANGED <<world, states, faults, failing>>

\* backend.Exists.
ExistsMutant(c) ==
    /\ pc[c] = "exists"
    /\ \/ Goto(c, "write") /\ NoFault /\ UNCHANGED <<turn, states>>
       \/ Fails(c)
    /\ UNCHANGED <<world, principal>>

ExistsStuckMutant(c) ==
    /\ pc[c] = "exists"
    /\ \/ /\ UserOf[c] \notin rows[Here(c)]
          /\ Goto(c, "create")
          /\ NoFault
          /\ UNCHANGED <<turn, states>>
       \/ /\ UserOf[c] \in rows[Here(c)]
          /\ Finish(c, "error")
          /\ NoFault
    /\ UNCHANGED <<world, principal>>

Exists(c) ==
    /\ pc[c] = "exists"
    /\ \/ /\ Goto(c, IF UserOf[c] \in rows[Here(c)] THEN "write" ELSE "create")
          /\ NoFault
          /\ UNCHANGED <<turn, states>>
       \/ Fails(c)
    /\ UNCHANGED <<world, principal>>

\* backend.Create: create-or-ok.
CreateApplied(c) == rows' = [rows EXCEPT ![Here(c)] = @ \cup {UserOf[c]}]

Create(c) ==
    /\ pc[c] = "create"
    /\ \/ /\ CreateApplied(c)
          /\ Mark(c, [states[c][Here(c)] EXCEPT !.created = TRUE])
          /\ Goto(c, "write")
          /\ NoFault
          /\ UNCHANGED turn
       \/ /\ CreateApplied(c) \/ UNCHANGED rows
          /\ Fails(c)
    /\ UNCHANGED <<claims, configured, removed, principal>>

\* claims.SetClaim, which patches the user's custom data.
ClaimAppliedMutant(c) ==
    claims' = [claims EXCEPT ![UserOf[c]] = {ClaimOf[Here(c)]}]

ClaimApplied(c) ==
    claims' = [claims EXCEPT ![UserOf[c]] = @ \cup {ClaimOf[Here(c)]}]

WriteClaim(c) ==
    /\ pc[c] = "write"
    /\ \/ /\ ClaimApplied(c)
          /\ Mark(c, [states[c][Here(c)] EXCEPT !.claimWritten = TRUE])
          /\ Goto(c, "refresh")
          /\ NoFault
          /\ UNCHANGED turn
       \/ /\ ClaimApplied(c) \/ UNCHANGED claims
          /\ Fails(c)
    /\ UNCHANGED <<rows, configured, removed, principal>>

\* refresher.Refresh, and refreshed.Registered.  A provider that has not emitted
\* the claim yet (onboarding-stalled) counts as a fault, like one that is down.
\* The round keeps nothing of the refreshed principal.
Refresh(c) ==
    /\ pc[c] = "refresh"
    /\ \/ /\ ClaimOf[Here(c)] \in claims[UserOf[c]]
          /\ Goto(c, "settle")
          /\ NoFault
          /\ UNCHANGED <<turn, states>>
       \/ Fails(c)
    /\ UNCHANGED <<world, principal>>

\* settle: a backend with a second step is asked whether it is done.
Settle(c) ==
    /\ pc[c] = "settle"
    /\ \/ /\ Here(c) \notin Staged \/ UserOf[c] \in configured[Here(c)]
          /\ Finish(c, "ready")
          /\ NoFault
       \/ /\ Here(c) \in Staged
          /\ UserOf[c] \notin configured[Here(c)]
          /\ Finish(c, "needs-onboarding")
          /\ NoFault
       \/ Here(c) \in Staged /\ Fails(c)
    /\ UNCHANGED <<world, principal>>

\* The process stops: the round and its states are gone.
Stop(c) ==
    /\ pc[c] # "idle"
    /\ faults < MaxFaults
    /\ faults' = faults + 1
    /\ Goto(c, "idle")
    /\ states' = [states EXCEPT ![c] = [b \in Backends |-> NoState]]
    /\ principal' = [principal EXCEPT ![c] = {}]
    /\ turn' = [turn EXCEPT ![c] = 1]
    /\ failing' = [failing EXCEPT ![c] = {}]
    /\ UNCHANGED world

\* The user completes a backend's second step.
Configure(b, u) ==
    /\ b \in Staged
    /\ u \in rows[b] \ configured[b]
    /\ configured' = [configured EXCEPT ![b] = @ \cup {u}]
    /\ UNCHANGED <<rows, claims, removed, principal, pc, turn, states, faults,
                   failing>>

\* A backend deletes a user and what it configured; its claim goes stale.
Remove(b, u) ==
    /\ u \in rows[b] \ removed[b]
    /\ rows' = [rows EXCEPT ![b] = @ \ {u}]
    /\ removed' = [removed EXCEPT ![b] = @ \cup {u}]
    /\ configured' = [configured EXCEPT ![b] = @ \ {u}]
    /\ UNCHANGED <<claims, principal, pc, turn, states, faults, failing>>

Step(c) ==
    \/ Inspect(c) \/ Exists(c) \/ Create(c) \/ WriteClaim(c) \/ Refresh(c)
    \/ Settle(c) \/ RunReturns(c)

Next ==
    \/ \E c \in Clients : Run(c) \/ Step(c) \/ Stop(c)
    \/ \E b \in Backends, u \in Users : Configure(b, u) \/ Remove(b, u)

Spec == Init /\ [][Next]_vars

(***************************************************************************)
(* Calls return, and a consumer runs a round again when its app is opened  *)
(* again; nobody has to complete a second step, or to stop.                *)
(***************************************************************************)
FairSpec == Spec /\ \A c \in Clients : WF_vars(Step(c)) /\ WF_vars(Run(c))
-----------------------------------------------------------------------------
PCs == {"idle", "next", "exists", "create", "write", "refresh", "settle"}

TypeOK ==
    /\ rows \in [Backends -> SUBSET Users]
    /\ claims \in [Users -> SUBSET Claims]
    /\ configured \in [Backends -> SUBSET Users]
    /\ principal \in [Clients -> SUBSET Claims]
    /\ pc \in [Clients -> PCs]
    /\ turn \in [Clients -> 1..Len(Order) + 1]
    /\ states \in [Clients -> [Backends -> State]]
    /\ faults \in 0..MaxFaults
    /\ removed \in [Backends -> SUBSET Users]
    /\ failing \in [Clients -> SUBSET Backends]

(***************************************************************************)
(* A registration claim is proof of registration: whoever carries it has a *)
(* row at every backend it stands for, or had one that the backend deleted *)
(* (Sync: create the row, then write the claim back).                      *)
(***************************************************************************)
ClaimedMeansRegistered ==
    \A u \in Users, b \in Backends :
        ClaimOf[b] \in claims[u] => u \in rows[b] \cup removed[b]

(***************************************************************************)
(* What a round reports stays true whatever other devices do, in the sense *)
(* the code gives it: a backend it calls ready or in need of onboarding is *)
(* claimed at the provider, and ready means its second step is done; the   *)
(* progress it reports next to an error was made (settle, failed).  Two    *)
(* comments give the phases another sense, which the code does not:        *)
(* NeedsOnboardingMeansUnregistered does not hold.                         *)
(***************************************************************************)
ReportsAreTrue ==
    \A c \in Clients, b \in Backends :
        LET s == states[c][b]
            u == UserOf[c]
        IN  /\ s.phase \in {"ready", "needs-onboarding"} \/ s.claimWritten =>
                  ClaimOf[b] \in claims[u]
            /\ s.phase = "ready" /\ b \in Staged => u \in configured[b] \cup removed[b]
            /\ s.created => u \in rows[b] \cup removed[b]

(***************************************************************************)
(* One backend failing never aborts the others: a round that returns has a *)
(* verdict on every backend, error on those a call failed for in it, and   *)
(* on no other, wherever in Order they stand (Run).                        *)
(***************************************************************************)
Verdict(c, b) ==
    states[c][b].phase \in
        IF b \in failing[c] THEN {"error"} ELSE {"ready", "needs-onboarding"}

EveryBackendGetsItsVerdict ==
    \A c \in Clients :
        pc[c] = "idle" /\ (\E b \in Backends : states[c][b] # NoState) =>
            \A b \in Backends : Verdict(c, b)

(***************************************************************************)
(* Nobody is stuck between "no claim" and "already exists": a user with a  *)
(* row at a backend ends up with its claim, however rounds failed or       *)
(* stopped half-way (Backend.Create, Sync).                                *)
(***************************************************************************)
NobodyIsStuck ==
    \A c \in Clients, b \in Backends :
        UserOf[c] \in rows[b] ~> ClaimOf[b] \in claims[UserOf[c]]
-----------------------------------------------------------------------------
(***************************************************************************)
(* "PhaseNeedsOnboarding means the backend has no user row for this        *)
(* subject" (phase.go), and of the registration claim on a round's token   *)
(* "Present => ready, no API call" (Sync).  By either of the two, a        *)
(* backend in need of onboarding lacks its row or its claim.  The code     *)
(* does otherwise: settle asks a Configurable backend whose claim is there *)
(* and calls it in need of onboarding while its second step is open.       *)
(***************************************************************************)
NeedsOnboardingMeansUnregistered ==
    \A c \in Clients, b \in Backends :
        states[c][b].phase = "needs-onboarding" =>
            UserOf[c] \notin rows[b] \/ ClaimOf[b] \notin principal[c]
=============================================================================
