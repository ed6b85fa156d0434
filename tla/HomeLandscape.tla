------------------------------ MODULE HomeLandscape ----------------------------
(***************************************************************************)
(* The pre-onboarding selector, lib/onboard/landscape.go, run by several   *)
(* devices of ONE user.  Every device reads the home claim off the token   *)
(* it signed in with; without one it pings the candidates of the selector  *)
(* document it has just read, one after another, and writes the claim of   *)
(* the nearest.  The provider keeps one claim per user, so two devices     *)
(* that sign up side by side each pick, and the later write wins.          *)
(* Meanwhile the document changes: landscapes fall ill, recover, and go.   *)
(***************************************************************************)
EXTENDS Integers, Sequences, FiniteSets

CONSTANTS
    Devices, Landscapes,
    Order,       \* the landscapes in the order the document lists them
    Latencies,   \* the latencies a ping may observe
    Absent,      \* no claim, and no answer to a ping
    MaxChanges, MaxFaults  \* bounds of the model

VARIABLES
    doc,      \* the selector document: the state of each landscape
    claim,    \* the home-landscape claim the provider keeps for the user
    dev,      \* dev[d]: the sign-in of device d
    changes, faults

vars == <<doc, claim, dev, changes, faults>>

ConstantsAssumption ==
    /\ Absent \notin Landscapes
    /\ Latencies \subseteq Nat /\ Absent \notin Latencies
    /\ Order \in Seq(Landscapes)
    /\ \A l \in Landscapes : \E i \in DOMAIN Order : Order[i] = l
    /\ \A i, j \in DOMAIN Order : Order[i] = Order[j] => i = j
    /\ MaxChanges \in Nat /\ MaxFaults \in Nat
ASSUME ConstantsAssumption

Documents == [Landscapes -> {"healthy", "unhealthy", "gone"}]

--------------------------------------------------------------------------------
(* A sign-in.  `home` is the claim of the device's token; `next`, `chosen`  *)
(* and `best` are the variables of the loop in Pick (chosen is Absent until *)
(* a candidate was reached); `heard` and `claimless` are history: what each *)
(* ping answered, and whether the provider held no claim at the sign-in.    *)

Out == [phase |-> "out"]

SignedIn(phase, home, candidates) ==
    [phase |-> phase, home |-> home, doc |-> candidates, next |-> 1,
     chosen |-> Absent, best |-> 0, heard |-> [l \in Landscapes |-> Absent],
     claimless |-> claim = Absent]

\* Definitions named ...Mutant are wrong on purpose: each is a bug the definition
\* after it could have had, which a property detects.
HomeMutant(home, candidates) ==
    IF home # Absent /\ candidates[home] = "healthy"
    THEN [SignedIn("home", home, candidates) EXCEPT !.chosen = home]
    ELSE SignedIn("picking", home, candidates)

\* Home: a claim is honoured whatever the document says of it, and without a
\* ping (find only decides which record describes it); else Pick begins.
Home(home, candidates) ==
    IF home # Absent THEN [SignedIn("home", home, candidates) EXCEPT !.chosen = home]
    ELSE SignedIn("picking", home, candidates)

SignInMutant(d) ==
    /\ dev[d].phase \in {"out", "home", "failed"}
    /\ dev' = [dev EXCEPT ![d] =
                 Home(IF dev[d].phase = "home" THEN dev[d].chosen ELSE claim, doc)]
    /\ UNCHANGED <<doc, claim, changes, faults>>

\* The user signs in, for the first time or again: the claim is read off the
\* fresh token on every sign-in.
SignIn(d) ==
    /\ dev[d].phase \in {"out", "home", "failed"}
    /\ dev' = [dev EXCEPT ![d] = Home(claim, doc)]
    /\ UNCHANGED <<doc, claim, changes, faults>>

Current(d) == Order[dev[d].next]

Picking(d) == dev[d].phase = "picking" /\ dev[d].next <= Len(Order)

\* The document does not list the candidate, or not as healthy: no ping.
Skip(d) ==
    /\ Picking(d)
    /\ dev[d].doc[Current(d)] # "healthy"
    /\ dev' = [dev EXCEPT ![d].next = @ + 1]
    /\ UNCHANGED <<doc, claim, changes, faults>>

KeepMutant(sign, candidate, latency) ==
    IF sign.best = 0 \/ latency < sign.best
    THEN [sign EXCEPT !.chosen = candidate, !.best = latency]
    ELSE sign

\* The first answer is taken, a later one only when it is faster.
Keep(sign, candidate, latency) ==
    IF sign.chosen = Absent \/ latency < sign.best
    THEN [sign EXCEPT !.chosen = candidate, !.best = latency]
    ELSE sign

Ping(d) ==
    /\ Picking(d)
    /\ dev[d].doc[Current(d)] = "healthy"
    /\ \E latency \in Latencies :
         dev' = [dev EXCEPT ![d] =
            [Keep(dev[d], Current(d), latency) EXCEPT
                !.next = @ + 1, !.heard[Current(d)] = latency]]
    /\ UNCHANGED <<doc, claim, changes, faults>>

\* A candidate that does not answer is passed over.
PingFails(d) ==
    /\ Picking(d)
    /\ dev[d].doc[Current(d)] = "healthy"
    /\ faults < MaxFaults
    /\ faults' = faults + 1
    /\ dev' = [dev EXCEPT ![d].next = @ + 1]
    /\ UNCHANGED <<doc, claim, changes>>

\* The loop is over: home-landscape-unresolved, or the choice to be claimed.
Picked(d) ==
    /\ dev[d].phase = "picking" /\ dev[d].next > Len(Order)
    /\ dev' = [dev EXCEPT ![d].phase = IF dev[d].chosen = Absent THEN "failed" ELSE "claiming"]
    /\ UNCHANGED <<doc, claim, changes, faults>>

\* Claim: the write at the provider, whatever claim it holds by now.
Claim(d) ==
    /\ dev[d].phase = "claiming"
    /\ claim' = dev[d].chosen
    /\ dev' = [dev EXCEPT ![d].phase = "home"]
    /\ UNCHANGED <<doc, changes, faults>>

\* The write fails, or it is done and only its answer is lost: an error both
\* ways, and the user signs in again.
ClaimFails(d) ==
    /\ dev[d].phase = "claiming"
    /\ faults < MaxFaults
    /\ faults' = faults + 1
    /\ claim' \in {claim, dev[d].chosen}
    /\ dev' = [dev EXCEPT ![d].phase = "failed"]
    /\ UNCHANGED <<doc, changes>>

--------------------------------------------------------------------------------
(* The world outside: the document, and a user who is created again.       *)

\* A region falls ill, recovers, leaves or comes back; never all of them at
\* once: with no region up nobody can have a home.
DocumentChanges(l, state) ==
    /\ changes < MaxChanges
    /\ changes' = changes + 1
    /\ doc[l] # state
    /\ doc' = [doc EXCEPT ![l] = state]
    /\ \E other \in Landscapes : doc'[other] = "healthy"
    /\ UNCHANGED <<claim, dev, faults>>

\* The user is created again, or its tenant migrated: the claim is gone.
UserRecreated ==
    /\ changes < MaxChanges
    /\ changes' = changes + 1
    /\ claim # Absent
    /\ claim' = Absent
    /\ UNCHANGED <<doc, dev, faults>>

Init ==
    /\ doc = [l \in Landscapes |-> "healthy"]
    /\ claim = Absent
    /\ dev = [d \in Devices |-> Out]
    /\ changes = 0 /\ faults = 0

Run(d) == Skip(d) \/ Ping(d) \/ PingFails(d) \/ Picked(d) \/ Claim(d) \/ ClaimFails(d)

Next ==
    \/ \E d \in Devices : SignIn(d) \/ Run(d)
    \/ \E l \in Landscapes, state \in {"healthy", "unhealthy", "gone"} : DocumentChanges(l, state)
    \/ UserRecreated

\* A sign-in that has begun goes on, and a device signs in again some day:
\* the refresh token of every session runs out (lifetimes.go).
Fairness == \A d \in Devices : WF_vars(Run(d)) /\ WF_vars(SignIn(d))

Spec == Init /\ [][Next]_vars /\ Fairness

SignIns ==
    [phase : {"picking", "claiming", "home", "failed"}, home : Landscapes \cup {Absent},
     doc : Documents, next : 1..(Len(Order) + 1), chosen : Landscapes \cup {Absent},
     best : Latencies \cup {0}, heard : [Landscapes -> Latencies \cup {Absent}],
     claimless : BOOLEAN]

TypeOK ==
    /\ doc \in Documents
    /\ claim \in Landscapes \cup {Absent}
    /\ dev \in [Devices -> SignIns \cup {Out}]
    /\ changes \in 0..MaxChanges /\ faults \in 0..MaxFaults

--------------------------------------------------------------------------------
(* Safety. *)

\* The places of the candidates that answered.
Heard(sign) == {i \in DOMAIN Order : sign.heard[Order[i]] # Absent}

\* Nearer(sign, i, j): i answered faster than j, or as fast and earlier in the
\* document.
Nearer(sign, i, j) ==
    \/ sign.heard[Order[i]] < sign.heard[Order[j]]
    \/ sign.heard[Order[i]] = sign.heard[Order[j]] /\ i < j

(***************************************************************************)
(* The home that is claimed is the first of the nearest: a healthy         *)
(* candidate of the document, reached by a ping, that no other reached     *)
(* candidate was faster than, an answer of zero included and ties going to *)
(* the earlier entry.  The round fails only when no healthy candidate      *)
(* answered (landscape.go:99-123: a failed ping is no latency at all).     *)
(***************************************************************************)
PicksTheNearest ==
    \A d \in Devices :
        LET sign == dev[d] IN
        /\ sign.phase = "claiming" =>
             \E i \in Heard(sign) :
                /\ sign.chosen = Order[i]
                /\ sign.doc[Order[i]] = "healthy"
                /\ \A j \in Heard(sign) \ {i} : Nearer(sign, i, j)
        /\ sign.phase = "failed" /\ sign.chosen = Absent => Heard(sign) = {}

(***************************************************************************)
(* A home moves only in a race of sign-ups: a claim is overwritten with    *)
(* another landscape only by a device that signed in when there was no     *)
(* claim yet.  A home that the document lists as unhealthy, or no longer   *)
(* lists, is not taken away from its user (landscape.go:84-89).            *)
(***************************************************************************)
MovesHome == claim # Absent /\ claim' # Absent /\ claim' # claim

MovesOnlyInARace ==
    [][MovesHome => \E d \in Devices :
            dev[d].phase = "claiming" /\ dev[d].claimless /\ claim' = dev[d].chosen]_vars

--------------------------------------------------------------------------------
(* Liveness. *)

(***************************************************************************)
(* The devices of a user come to agree: whatever the races of their        *)
(* sign-ups, the lost answers and the changes of the document, from some   *)
(* moment on every device is at home where the claim says.  A device whose *)
(* claim was overwritten by the other's is put right at its next sign-in,  *)
(* which reads the claim again (landscape.go:76).                          *)
(***************************************************************************)
DevicesAgree ==
    <>[](\A d \in Devices : dev[d].phase = "home" /\ dev[d].chosen = claim)

================================================================================
