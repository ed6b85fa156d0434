----------------------------- MODULE SharedCall -----------------------------
(***************************************************************************)
(* What a single flight promises: whoever needs the outcome of a slot      *)
(* either leads a new call for it or joins the one that is open, and while *)
(* one is open nobody else leads one for its slot.  A call is decided      *)
(* once, by its leader.  It may still be joined then, so a party can be    *)
(* told an outcome decided before he asked; but it is shut before anybody  *)
(* is told, so nobody is told what others had been told before he asked,   *)
(* and nobody is told another outcome than the rest.  A leader may vanish  *)
(* without deciding.  TokenCache implements this.                          *)
(***************************************************************************)
CONSTANTS
    Parties,    \* whoever asks
    Slots,      \* what outcomes are asked for
    Calls,      \* names of calls
    NoCall,     \* a slot without an open call
    Outcomes,   \* what a call can be decided as
    Undecided,  \* a call that has no outcome yet
    Untold      \* whose last answer came from no call

VARIABLES
    open,       \* slot -> the call that can be joined, or NoCall
    part,       \* party -> its part in a call
    outcome,    \* call -> its outcome, or Undecided
    told        \* party -> the outcome it was last told, or Untold

vars == <<open, part, outcome, told>>

\* A part in call c for slot s.
Apart == [role |-> "none"]
Leader(s, c) == [role |-> "leader", slot |-> s, call |-> c]
Member(s, c) == [role |-> "member", slot |-> s, call |-> c]

Leads(p) == part[p].role = "leader"

Init ==
    /\ open = [s \in Slots |-> NoCall]
    /\ part = [p \in Parties |-> Apart]
    /\ outcome = [c \in Calls |-> Undecided]
    /\ told = [p \in Parties |-> Untold]

\* A new call: one that is open nowhere and was never decided.
Lead(p, s) ==
    /\ part[p].role = "none"
    /\ open[s] = NoCall
    /\ \E c \in Calls :
          /\ outcome[c] = Undecided
          /\ \A r \in Slots : open[r] # c
          /\ open' = [open EXCEPT ![s] = c]
          /\ part' = [part EXCEPT ![p] = Leader(s, c)]
    /\ UNCHANGED <<outcome, told>>

Join(p, s) ==
    /\ part[p].role = "none"
    /\ open[s] # NoCall
    /\ part' = [part EXCEPT ![p] = Member(s, open[s])]
    /\ UNCHANGED <<open, outcome, told>>

Decide(p) ==
    LET c == part[p].call
    IN  /\ Leads(p)
        /\ open[part[p].slot] = c
        /\ outcome[c] = Undecided
        /\ outcome'[c] \in Outcomes
        /\ outcome' = [outcome EXCEPT ![c] = outcome'[c]]
        /\ UNCHANGED <<open, part, told>>

\* Nobody joins the call any more.
Shut(p) ==
    LET c == part[p].call
        s == part[p].slot
    IN  /\ Leads(p)
        /\ open[s] = c
        /\ outcome[c] # Undecided
        /\ open' = [open EXCEPT ![s] = NoCall]
        /\ UNCHANGED <<part, outcome, told>>

Tell(p) ==
    LET c == part[p].call
    IN  /\ part[p].role # "none"
        /\ open[part[p].slot] # c
        /\ outcome[c] # Undecided
        /\ told' = [told EXCEPT ![p] = outcome[c]]
        /\ part' = [part EXCEPT ![p] = Apart]
        /\ UNCHANGED <<open, outcome>>

\* The leader is gone, and its call stays open for ever.
Vanish(p) ==
    /\ Leads(p)
    /\ outcome[part[p].call] = Undecided
    /\ part' = [part EXCEPT ![p] = Apart]
    /\ told' = [told EXCEPT ![p] = Untold]
    /\ UNCHANGED <<open, outcome>>

\* A party gets its next answer without a call.
Elsewhere(p) ==
    /\ part[p].role = "none"
    /\ told[p] # Untold
    /\ told' = [told EXCEPT ![p] = Untold]
    /\ UNCHANGED <<open, part, outcome>>

Next ==
    \E p \in Parties :
        \/ \E s \in Slots : Lead(p, s) \/ Join(p, s)
        \/ Decide(p) \/ Shut(p) \/ Tell(p) \/ Vanish(p) \/ Elsewhere(p)

Spec == Init /\ [][Next]_vars
=============================================================================
