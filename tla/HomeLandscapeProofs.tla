--------------------------- MODULE HomeLandscapeProofs -------------------------
(***************************************************************************)
(* What TLAPS proves of HomeLandscape, for every set of devices and        *)
(* landscapes, every order and latencies, and every number of changes and  *)
(* faults.                                                                 *)
(***************************************************************************)
EXTENDS HomeLandscape, TLAPS

\* What the loop of Pick has to show after each candidate.
First(sign, i) ==
    /\ sign.chosen = Order[i]
    /\ sign.best = sign.heard[Order[i]]
    /\ sign.doc[Order[i]] = "healthy"
    /\ \A j \in Heard(sign) \ {i} : Nearer(sign, i, j)

Sound(sign) ==
    /\ \A i \in Heard(sign) : i < sign.next
    /\ sign.phase \in {"picking", "claiming"} => sign.claimless
    /\ sign.phase = "claiming" => sign.chosen # Absent
    /\ sign.chosen = Absent => Heard(sign) = {}
    /\ sign.chosen # Absent => \E i \in Heard(sign) : First(sign, i)

Unsettled == {"picking", "claiming", "failed"}

\* The inductive invariant.
Inv == TypeOK /\ \A d \in Devices : dev[d].phase \in Unsettled => Sound(dev[d])

--------------------------------------------------------------------------------
LEMMA OrderFacts ==
  /\ Len(Order) \in Nat
  /\ \A i \in 1..Len(Order) : i \in DOMAIN Order /\ Order[i] \in Landscapes
  /\ DOMAIN Order = 1..Len(Order)
BY ConstantsAssumption DEF ConstantsAssumption

\* A sign-in that is not over is a record of SignIns.
LEMMA Here ==
  ASSUME TypeOK, NEW d \in Devices, dev[d].phase \in Unsettled \cup {"home"}
  PROVE  dev[d] \in SignIns
BY DEF TypeOK, Out, Unsettled

\* A step of one device, in a world that keeps its type.
LEMMA OneDevice ==
  ASSUME Inv, NEW d \in Devices, NEW sign \in SignIns,
         dev' = [dev EXCEPT ![d] = sign],
         sign.phase \in Unsettled => Sound(sign),
         doc' \in Documents, claim' \in Landscapes \cup {Absent},
         changes' \in 0..MaxChanges, faults' \in 0..MaxFaults
  PROVE  Inv'
<1>1. dev' \in [Devices -> SignIns \cup {Out}]
  BY DEF Inv, TypeOK
<1>2. TypeOK'
  BY <1>1 DEF TypeOK
<1>3. ASSUME NEW e \in Devices, dev'[e].phase \in Unsettled
      PROVE  Sound(dev'[e])
  <2>1. CASE e = d
    <3>1. dev'[e] = sign
      BY <2>1 DEF Inv, TypeOK
    <3>2. QED
      BY <3>1, <1>3
  <2>2. CASE e # d
    <3>1. dev'[e] = dev[e]
      BY <2>2 DEF Inv, TypeOK
    <3>2. QED
      BY <3>1, <1>3 DEF Inv
  <2>3. QED
    BY <2>1, <2>2
<1>4. QED
  BY <1>2, <1>3 DEF Inv

\* A step that leaves the devices alone.
LEMMA NoDevice ==
  ASSUME Inv, UNCHANGED dev,
         doc' \in Documents, claim' \in Landscapes \cup {Absent},
         changes' \in 0..MaxChanges, faults' \in 0..MaxFaults
  PROVE  Inv'
BY DEF Inv, TypeOK

LEMMA Counters ==
  ASSUME TypeOK
  PROVE  /\ changes < MaxChanges => changes + 1 \in 0..MaxChanges
         /\ faults < MaxFaults => faults + 1 \in 0..MaxFaults
BY ConstantsAssumption DEF TypeOK, ConstantsAssumption

--------------------------------------------------------------------------------
(* One lemma per action.                                                    *)

LEMMA SignInStep ==
  ASSUME Inv, NEW d \in Devices, SignIn(d)
  PROVE  Inv'
<1> DEFINE sign == Home(claim, doc)
<1>1. 1 \in 1..(Len(Order) + 1) /\ [l \in Landscapes |-> Absent] \in [Landscapes -> Latencies \cup {Absent}]
  BY OrderFacts
<1>2. sign \in SignIns
  BY <1>1 DEF Inv, TypeOK, Home, SignedIn, SignIns
<1>3. ASSUME sign.phase \in Unsettled
      PROVE  Sound(sign)
  <2>1. /\ sign.claimless /\ sign.chosen = Absent /\ sign.phase = "picking"
        /\ sign.heard = [l \in Landscapes |-> Absent]
    BY <1>3 DEF Home, SignedIn, Unsettled
  <2>2. Heard(sign) = {}
    BY <2>1, OrderFacts DEF Heard
  <2>3. QED
    BY <2>1, <2>2 DEF Sound
<1>4. dev' = [dev EXCEPT ![d] = sign]
  BY DEF SignIn
<1>5. QED
  BY <1>2, <1>3, <1>4, OneDevice DEF SignIn, Inv, TypeOK

\* Going to the next candidate.
LEMMA Passed ==
  ASSUME NEW sign \in SignIns, sign.phase = "picking", sign.next <= Len(Order),
         Sound(sign)
  PROVE  LET past == [sign EXCEPT !.next = @ + 1]
         IN  past \in SignIns /\ Sound(past)
<1> DEFINE past == [sign EXCEPT !.next = @ + 1]
<1>1. past \in SignIns
  BY OrderFacts DEF SignIns
<1>2. /\ past.phase = "picking" /\ past.chosen = sign.chosen /\ past.best = sign.best
      /\ past.heard = sign.heard /\ past.doc = sign.doc /\ past.claimless = sign.claimless
      /\ past.next = sign.next + 1 /\ sign.next \in Nat
  BY DEF SignIns
<1>3. Heard(past) = Heard(sign) /\ \A i \in DOMAIN Order : First(sign, i) => First(past, i)
  BY <1>2 DEF Heard, First, Nearer
<1>4. Heard(sign) \subseteq Nat
  BY OrderFacts DEF Heard
<1>5. QED
  BY <1>1, <1>2, <1>3, <1>4 DEF Sound, Heard

LEMMA SkipStep ==
  ASSUME Inv, NEW d \in Devices, Skip(d)
  PROVE  Inv'
<1>1. dev[d] \in SignIns /\ Sound(dev[d]) /\ dev[d].phase = "picking" /\ dev[d].next <= Len(Order)
  BY Here DEF Skip, Picking, Inv, Unsettled
<1>2. dev' = [dev EXCEPT ![d] = [dev[d] EXCEPT !.next = @ + 1]]
  BY DEF Skip
<1>3. QED
  BY <1>1, <1>2, Passed, OneDevice DEF Skip, Inv, TypeOK

LEMMA PingFailsStep ==
  ASSUME Inv, NEW d \in Devices, PingFails(d)
  PROVE  Inv'
<1>1. dev[d] \in SignIns /\ Sound(dev[d]) /\ dev[d].phase = "picking" /\ dev[d].next <= Len(Order)
  BY Here DEF PingFails, Picking, Inv, Unsettled
<1>2. dev' = [dev EXCEPT ![d] = [dev[d] EXCEPT !.next = @ + 1]]
  BY DEF PingFails
<1>3. faults' \in 0..MaxFaults
  BY Counters DEF PingFails, Inv
<1>4. QED
  BY <1>1, <1>2, <1>3, Passed, OneDevice DEF PingFails, Inv, TypeOK

\* An answer: the first of the nearest so far is kept.
LEMMA Answer ==
  ASSUME NEW sign \in SignIns, sign.phase = "picking", sign.next <= Len(Order),
         Sound(sign), NEW latency \in Latencies,
         sign.doc[Order[sign.next]] = "healthy"
  PROVE  LET kept == [Keep(sign, Order[sign.next], latency) EXCEPT
                         !.next = @ + 1, !.heard[Order[sign.next]] = latency]
         IN  kept \in SignIns /\ Sound(kept)
<1> DEFINE n == sign.next
           kept == [Keep(sign, Order[n], latency) EXCEPT
                       !.next = @ + 1, !.heard[Order[n]] = latency]
<1>1. n \in 1..Len(Order) /\ n \in Nat /\ Order[n] \in Landscapes /\ n + 1 \in 1..(Len(Order) + 1)
  BY OrderFacts DEF SignIns
<1>2. /\ latency \in Nat /\ latency # Absent
      /\ \A l \in Latencies : l \in Nat /\ l # Absent
      /\ \A i \in DOMAIN Order : Order[i] # Absent
  BY OrderFacts, ConstantsAssumption DEF ConstantsAssumption
<1>3. /\ kept.phase = "picking" /\ kept.next = n + 1
      /\ kept.heard = [sign.heard EXCEPT ![Order[n]] = latency]
      /\ kept.doc = sign.doc /\ kept.claimless = sign.claimless
      /\ IF sign.chosen = Absent \/ latency < sign.best
         THEN kept.chosen = Order[n] /\ kept.best = latency
         ELSE kept.chosen = sign.chosen /\ kept.best = sign.best
  BY DEF Keep, SignIns
<1>4. kept \in SignIns
  BY <1>1 DEF Keep, SignIns
<1>5. /\ sign.heard \in [Landscapes -> Latencies \cup {Absent}]
      /\ kept.heard[Order[n]] = latency
      /\ \A j \in DOMAIN Order : j # n => kept.heard[Order[j]] = sign.heard[Order[j]]
  BY <1>1, <1>3, OrderFacts, ConstantsAssumption DEF ConstantsAssumption, SignIns
<1>6. Heard(kept) = Heard(sign) \cup {n}
  BY <1>1, <1>2, <1>5, OrderFacts DEF Heard
<1>7. /\ \A i \in Heard(sign) : i < n
      /\ n \notin Heard(sign)
      /\ Heard(sign) \subseteq Nat
      /\ \A i \in Heard(sign) : i \in DOMAIN Order /\ sign.heard[Order[i]] \in Nat
  BY <1>1, <1>2, <1>5, OrderFacts DEF Heard, Sound
<1>8. \E i \in Heard(kept) : First(kept, i)
  <2>1. CASE sign.chosen = Absent
    <3>1. Heard(kept) = {n}
      BY <2>1, <1>6 DEF Sound
    <3>2. QED
      BY <3>1, <2>1, <1>3, <1>5 DEF First
  <2>2. CASE sign.chosen # Absent
    <3>1. PICK i \in Heard(sign) : First(sign, i)
      BY <2>2 DEF Sound
    <3>2. /\ i \in DOMAIN Order /\ i # n /\ i < n /\ i \in Nat
          /\ sign.best = sign.heard[Order[i]] /\ sign.best \in Nat
          /\ kept.heard[Order[i]] = sign.best
      BY <3>1, <1>5, <1>7 DEF First
    <3>3. CASE latency < sign.best
      <4>1. ASSUME NEW j \in Heard(kept) \ {n}
            PROVE  Nearer(kept, n, j)
        <5>1. j \in Heard(sign) /\ kept.heard[Order[j]] = sign.heard[Order[j]]
          BY <4>1, <1>5, <1>6, <1>7
        <5>2. sign.best <= sign.heard[Order[j]] /\ sign.heard[Order[j]] \in Nat
          BY <5>1, <3>1, <3>2, <1>7 DEF First, Nearer
        <5>3. QED
          BY <5>1, <5>2, <3>2, <3>3, <1>2, <1>5 DEF Nearer
      <4>2. First(kept, n)
        BY <4>1, <3>3, <1>3, <1>5 DEF First
      <4>3. QED
        BY <4>2, <1>6
    <3>4. CASE ~(latency < sign.best)
      <4>1. ASSUME NEW j \in Heard(kept) \ {i}
            PROVE  Nearer(kept, i, j)
        <5>1. CASE j = n
          BY <5>1, <3>2, <3>4, <1>2, <1>5 DEF Nearer
        <5>2. CASE j # n
          <6>1. j \in Heard(sign) \ {i} /\ kept.heard[Order[j]] = sign.heard[Order[j]]
            BY <5>2, <4>1, <1>5, <1>6, <1>7
          <6>2. QED
            BY <6>1, <3>1, <3>2 DEF First, Nearer
        <5>3. QED
          BY <5>1, <5>2
      <4>2. First(kept, i)
        BY <4>1, <3>1, <3>2, <3>4, <2>2, <1>3 DEF First
      <4>3. QED
        BY <4>2, <1>6
    <3>5. QED
      BY <3>3, <3>4
  <2>3. QED
    BY <2>1, <2>2
<1>9. kept.chosen # Absent
  BY <1>1, <1>2, <1>3, OrderFacts
<1>10. \A i \in Heard(kept) : i < kept.next
  BY <1>1, <1>3, <1>6, <1>7
<1>11. QED
  BY <1>3, <1>4, <1>8, <1>9, <1>10 DEF Sound

LEMMA PingStep ==
  ASSUME Inv, NEW d \in Devices, Ping(d)
  PROVE  Inv'
<1>1. dev[d] \in SignIns /\ Sound(dev[d]) /\ dev[d].phase = "picking" /\ dev[d].next <= Len(Order)
  BY Here DEF Ping, Picking, Inv, Unsettled
<1>2. PICK latency \in Latencies :
        dev' = [dev EXCEPT ![d] =
            [Keep(dev[d], Order[dev[d].next], latency) EXCEPT
                !.next = @ + 1, !.heard[Order[dev[d].next]] = latency]]
  BY DEF Ping, Current
<1>3. dev[d].doc[Order[dev[d].next]] = "healthy"
  BY DEF Ping, Current
<1> DEFINE kept == [Keep(dev[d], Order[dev[d].next], latency) EXCEPT
                      !.next = @ + 1, !.heard[Order[dev[d].next]] = latency]
<1>4. kept \in SignIns /\ Sound(kept)
  BY <1>1, <1>3, Answer
<1>5. QED
  BY <1>2, <1>4, OneDevice DEF Ping, Inv, TypeOK

\* The end of a sign-in keeps what the loop has found.
LEMMA Ended ==
  ASSUME NEW sign \in SignIns, Sound(sign),
         NEW phase \in {"claiming", "home", "failed"},
         phase = "claiming" => sign.chosen # Absent /\ sign.claimless
  PROVE  LET past == [sign EXCEPT !.phase = phase]
         IN  past \in SignIns /\ Sound(past)
<1> DEFINE past == [sign EXCEPT !.phase = phase]
<1>1. past \in SignIns
  BY DEF SignIns
<1>2. /\ past.phase = phase /\ past.chosen = sign.chosen /\ past.best = sign.best
      /\ past.heard = sign.heard /\ past.doc = sign.doc /\ past.claimless = sign.claimless
      /\ past.next = sign.next
  BY DEF SignIns
<1>3. Heard(past) = Heard(sign) /\ \A i \in DOMAIN Order : First(sign, i) => First(past, i)
  BY <1>2 DEF Heard, First, Nearer
<1>4. QED
  BY <1>1, <1>2, <1>3 DEF Sound, Heard

LEMMA PickedStep ==
  ASSUME Inv, NEW d \in Devices, Picked(d)
  PROVE  Inv'
<1> DEFINE phase == IF dev[d].chosen = Absent THEN "failed" ELSE "claiming"
<1>1. dev[d] \in SignIns /\ Sound(dev[d]) /\ dev[d].phase = "picking"
  BY Here DEF Picked, Inv, Unsettled
<1>2. dev' = [dev EXCEPT ![d] = [dev[d] EXCEPT !.phase = phase]]
  BY DEF Picked
<1>3. phase = "claiming" => dev[d].chosen # Absent /\ dev[d].claimless
  BY <1>1 DEF Sound
<1> DEFINE past == [dev[d] EXCEPT !.phase = phase]
<1>4. past \in SignIns /\ Sound(past)
  BY <1>1, <1>3, Ended
<1>5. QED
  BY <1>2, <1>4, OneDevice DEF Picked, Inv, TypeOK

LEMMA ClaimStep ==
  ASSUME Inv, NEW d \in Devices, Claim(d) \/ ClaimFails(d)
  PROVE  Inv'
<1>1. dev[d] \in SignIns /\ Sound(dev[d]) /\ dev[d].phase = "claiming"
  BY Here DEF Claim, ClaimFails, Inv, Unsettled
<1>2. PICK phase \in {"home", "failed"} :
        dev' = [dev EXCEPT ![d] = [dev[d] EXCEPT !.phase = phase]]
  BY DEF Claim, ClaimFails
<1>3. faults' \in 0..MaxFaults /\ claim' \in Landscapes \cup {Absent}
  <2>1. dev[d].chosen \in Landscapes \cup {Absent}
    BY <1>1 DEF SignIns
  <2>2. QED
    BY <2>1, Counters DEF Claim, ClaimFails, Inv, TypeOK
<1> DEFINE past == [dev[d] EXCEPT !.phase = phase]
<1>4. past \in SignIns /\ Sound(past)
  BY <1>1, <1>2, Ended
<1>5. QED
  BY <1>2, <1>3, <1>4, OneDevice DEF Claim, ClaimFails, Inv, TypeOK

LEMMA WorldStep ==
  ASSUME Inv,
         UserRecreated \/ \E l \in Landscapes, state \in {"healthy", "unhealthy", "gone"} :
                             DocumentChanges(l, state)
  PROVE  Inv'
<1>1. changes' \in 0..MaxChanges /\ faults' = faults /\ UNCHANGED dev
  BY Counters DEF Inv, UserRecreated, DocumentChanges
<1>2. doc' \in Documents
  BY DEF Inv, TypeOK, Documents, UserRecreated, DocumentChanges
<1>3. claim' \in Landscapes \cup {Absent}
  BY DEF Inv, TypeOK, UserRecreated, DocumentChanges
<1>4. QED
  BY <1>1, <1>2, <1>3, NoDevice DEF Inv, TypeOK

--------------------------------------------------------------------------------
LEMMA Initially == Init => Inv
<1> SUFFICES ASSUME Init PROVE Inv
  OBVIOUS
<1>1. \A d \in Devices : dev[d].phase \notin Unsettled
  BY DEF Init, Out, Unsettled
<1>2. TypeOK
  BY ConstantsAssumption DEF Init, TypeOK, Documents, ConstantsAssumption
<1>3. QED
  BY <1>1, <1>2 DEF Inv

LEMMA Preserved == Inv /\ [Next]_vars => Inv'
<1> SUFFICES ASSUME Inv, [Next]_vars PROVE Inv'
  OBVIOUS
<1>1. CASE UNCHANGED vars
  BY <1>1 DEF vars, Inv, TypeOK
<1>2. ASSUME NEW d \in Devices, Run(d) \/ SignIn(d) PROVE Inv'
  BY <1>2, SignInStep, SkipStep, PingStep, PingFailsStep, PickedStep, ClaimStep DEF Run
<1>3. QED
  BY <1>1, <1>2, WorldStep DEF Next

(***************************************************************************)
(* The invariant of a sign-in: after each candidate of the loop of Pick,   *)
(* the one kept is the first of the nearest that answered (landscape.go:   *)
(* 105-116), and a sign-in that picks or claims began without a claim.     *)
(***************************************************************************)
THEOREM Inductive == Spec => []Inv
BY Initially, Preserved, PTL DEF Spec

(***************************************************************************)
(* Every variable keeps its type: in particular a sign-in that goes on is  *)
(* at a candidate of the document (the loop of Pick ends).                 *)
(***************************************************************************)
THEOREM TypeCorrect == Spec => []TypeOK
<1>1. Inv => TypeOK
  BY DEF Inv
<1>2. QED
  BY <1>1, Inductive, PTL

(***************************************************************************)
(* The home that is claimed is the first of the nearest, for any latencies *)
(* and any order of the document (Pick).                                   *)
(***************************************************************************)
THEOREM PicksTheNearestHolds == Spec => []PicksTheNearest
<1>1. ASSUME Inv, NEW d \in Devices
      PROVE  LET sign == dev[d] IN
             /\ sign.phase = "claiming" =>
                  \E i \in Heard(sign) :
                     /\ sign.chosen = Order[i]
                     /\ sign.doc[Order[i]] = "healthy"
                     /\ \A j \in Heard(sign) \ {i} : Nearer(sign, i, j)
             /\ sign.phase = "failed" /\ sign.chosen = Absent => Heard(sign) = {}
  <2>1. CASE dev[d].phase = "claiming"
    BY <1>1, <2>1 DEF Inv, Sound, First, Unsettled
  <2>2. CASE dev[d].phase = "failed"
    BY <1>1, <2>2 DEF Inv, Sound, Unsettled
  <2>3. QED
    BY <2>1, <2>2
<1>2. Inv => PicksTheNearest
  BY <1>1 DEF PicksTheNearest
<1>3. QED
  BY <1>2, Inductive, PTL

(***************************************************************************)
(* A home moves only in a race of sign-ups: whoever overwrites a claim     *)
(* signed in when there was none (Home, Claim).                            *)
(***************************************************************************)
THEOREM MovesOnlyInARaceHolds == Spec => MovesOnlyInARace
<1> DEFINE Raced == MovesHome => \E d \in Devices :
                dev[d].phase = "claiming" /\ dev[d].claimless /\ claim' = dev[d].chosen
<1>1. ASSUME Inv, Next PROVE Raced
  <2>1. ASSUME MovesHome
        PROVE  \E d \in Devices : Claim(d) \/ ClaimFails(d)
    BY <1>1, <2>1 DEF Next, Run, MovesHome, SignIn, Skip, Ping, PingFails, Picked,
                      DocumentChanges, UserRecreated
  <2>2. ASSUME MovesHome, NEW d \in Devices, Claim(d) \/ ClaimFails(d)
        PROVE  dev[d].phase = "claiming" /\ claim' = dev[d].chosen
    BY <2>2 DEF Claim, ClaimFails, MovesHome
  <2>3. ASSUME NEW d \in Devices, dev[d].phase = "claiming"
        PROVE  dev[d].claimless
    BY <1>1, <2>3 DEF Inv, Sound, Unsettled
  <2>4. QED
    BY <2>1, <2>2, <2>3
<1>2. Inv /\ [Next]_vars => [Raced]_vars
  BY <1>1
<1>3. QED
  BY <1>2, Inductive, PTL DEF Spec, MovesOnlyInARace
--------------------------------------------------------------------------------
(* What DevicesAgree rests on beside the fairness: an agreement lasts.      *)

Agreed == \A d \in Devices : dev[d].phase = "home" /\ dev[d].chosen = claim

\* Whoever is at home is at home somewhere.
Housed == \A d \in Devices : dev[d].phase = "home" => dev[d].chosen # Absent

LEMMA HomeIsAsClaimed ==
  ASSUME claim # Absent
  PROVE  Home(claim, doc).phase = "home" /\ Home(claim, doc).chosen = claim
BY DEF Home, SignedIn

LEMMA HousedNext == Inv /\ Housed /\ [Next]_vars => Housed'
<1> SUFFICES ASSUME Inv, Housed, [Next]_vars, NEW e \in Devices, dev'[e].phase = "home"
             PROVE  dev'[e].chosen # Absent
  BY DEF Housed
<1>1. dev \in [Devices -> SignIns \cup {Out}]
  BY DEF Inv, TypeOK
<1>2. CASE dev'[e] = dev[e]
  BY <1>2 DEF Housed
<1>3. ASSUME NEW d \in Devices, SignIn(d) PROVE dev'[e].chosen # Absent
  <2>1. CASE d = e
    <3>1. dev'[e] = Home(claim, doc)
      BY <1>1, <1>3, <2>1 DEF SignIn
    <3>2. claim # Absent
      BY <3>1 DEF Home, SignedIn
    <3>3. QED
      BY <3>1, <3>2, HomeIsAsClaimed
  <2>2. QED
    BY <1>1, <1>2, <1>3, <2>1 DEF SignIn
<1>4. ASSUME NEW d \in Devices, Skip(d) \/ Ping(d) \/ PingFails(d) \/ Picked(d) \/ ClaimFails(d)
      PROVE  dev'[e].chosen # Absent
  <2>1. CASE d = e
    <3>1. dev[e] \in SignIns /\ dev[e].phase # "home"
      BY <1>1, <1>4, <2>1, Here DEF Skip, Ping, PingFails, Picked, ClaimFails, Picking,
         Inv, Unsettled
    <3>2. CASE Skip(e) \/ PingFails(e) \/ Picked(e) \/ ClaimFails(e)
      <4>1. dev'[e].phase # "home"
        BY <1>1, <3>1, <3>2 DEF Skip, PingFails, Picked, ClaimFails, SignIns
      <4>2. QED
        BY <4>1
    <3>3. CASE Ping(e)
      <4>1. PICK latency \in Latencies :
               dev' = [dev EXCEPT ![e] =
                 [Keep(dev[e], Current(e), latency) EXCEPT
                    !.next = @ + 1, !.heard[Current(e)] = latency]]
        BY <3>3 DEF Ping
      <4> DEFINE kept == Keep(dev[e], Current(e), latency)
      <4>2. /\ kept = [dev[e] EXCEPT !.chosen = Current(e), !.best = latency]
               \/ kept = dev[e]
        BY DEF Keep
      <4>3. /\ kept.phase = dev[e].phase
            /\ [kept EXCEPT !.next = @ + 1, !.heard[Current(e)] = latency].phase = kept.phase
        BY <3>1, <4>2 DEF SignIns
      <4> HIDE DEF kept
      <4>4. dev'[e].phase # "home"
        BY <1>1, <3>1, <4>1, <4>3 DEF kept
      <4>5. QED
        BY <4>4
    <3>4. QED
      BY <1>4, <2>1, <3>2, <3>3
  <2>2. CASE d # e
    BY <1>1, <1>2, <1>4, <2>2 DEF Skip, Ping, PingFails, Picked, ClaimFails
  <2>3. QED
    BY <2>1, <2>2
<1>5. ASSUME NEW d \in Devices, Claim(d) PROVE dev'[e].chosen # Absent
  <2>1. CASE d = e
    <3>1. dev[e] \in SignIns /\ dev[e].chosen # Absent
      BY <1>5, <2>1, Here DEF Claim, Inv, Sound, Unsettled
    <3>2. dev'[e].chosen = dev[e].chosen
      BY <1>1, <1>5, <2>1, <3>1 DEF Claim, SignIns
    <3>3. QED
      BY <3>1, <3>2
  <2>2. CASE d # e
    BY <1>1, <1>2, <1>5, <2>2 DEF Claim
  <2>3. QED
    BY <2>1, <2>2
<1>6. CASE UNCHANGED dev
  BY <1>2, <1>6
<1>7. QED
  BY <1>3, <1>4, <1>5, <1>6 DEF Next, Run, DocumentChanges, UserRecreated, vars

(***************************************************************************)
(* Once all devices are at home where the claim says, they stay so until   *)
(* the provider loses the claim: whatever becomes of the landscape in the  *)
(* selector document, no later sign-in finds another home or picks again   *)
(* (Selector.Home, landscape.go:84-89).                                    *)
(***************************************************************************)
AgreementLasts == [][Agreed => Agreed' \/ UserRecreated]_vars

THEOREM AgreementLastsHolds == Spec => AgreementLasts
<1>1. ASSUME Inv, Housed, Next, Agreed PROVE Agreed' \/ UserRecreated
  <2>1. ASSUME NEW d \in Devices, Run(d) PROVE FALSE
    BY <1>1, <2>1 DEF Agreed, Run, Skip, Ping, PingFails, Picked, Claim, ClaimFails, Picking
  <2>2. ASSUME NEW d \in Devices, SignIn(d) PROVE Agreed'
    <3>1. claim # Absent
      BY <1>1 DEF Agreed, Housed
    <3>2. Home(claim, doc).phase = "home" /\ Home(claim, doc).chosen = claim
      BY <3>1, HomeIsAsClaimed
    <3>3. claim' = claim /\ dev' = [dev EXCEPT ![d] = Home(claim, doc)]
      BY <2>2 DEF SignIn
    <3>4. QED
      BY <1>1, <3>2, <3>3 DEF Agreed, Inv, TypeOK
  <2>3. ASSUME NEW l \in Landscapes, NEW state, DocumentChanges(l, state) PROVE Agreed'
    BY <1>1, <2>3 DEF DocumentChanges, Agreed
  <2>4. QED
    BY <1>1, <2>1, <2>2, <2>3 DEF Next
<1>2. Init => Housed
  BY DEF Init, Housed, Out
<1>3. Inv /\ Housed /\ [Next]_vars => [Agreed => Agreed' \/ UserRecreated]_vars
  BY <1>1
<1>4. QED
  BY <1>2, <1>3, HousedNext, Inductive, PTL DEF Spec, AgreementLasts
================================================================================
