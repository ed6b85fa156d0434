------------------------- MODULE OneTimeRedemption -------------------------
(***************************************************************************)
(* What deferred login promises: a nonce offered by a session is decided   *)
(* once - for one app, or for none - and only the app it was decided for   *)
(* obtains a login, once, for the session that made the offer.             *)
(* DeferredLogin implements this.                                          *)
(***************************************************************************)
EXTENDS Naturals, Sequences

CONSTANTS
    Nonces,     \* handoff nonces
    Apps,       \* whoever presents them
    Offers,     \* what a nonce can be bound to
    NoOffer,    \* a nonce nobody has been offered yet
    Undecided,  \* nobody has presented the nonce yet
    Burned      \* the nonce was decided for nobody

VARIABLES
    offered,    \* nonce -> what the session that minted it is bound to
    decided,    \* nonce -> the app it was decided for
    logins      \* the logins granted, in order

vars == <<offered, decided, logins>>

Init ==
    /\ offered = [n \in Nonces |-> NoOffer]
    /\ decided = [n \in Nonces |-> Undecided]
    /\ logins = <<>>

Offer(n, o) ==
    /\ offered[n] = NoOffer
    /\ offered' = [offered EXCEPT ![n] = o]
    /\ UNCHANGED <<decided, logins>>

\* From here on nobody but a can obtain the login; nobody at all when a = Burned.
Decide(n, a) ==
    /\ offered[n] # NoOffer
    /\ decided[n] = Undecided
    /\ decided' = [decided EXCEPT ![n] = a]
    /\ UNCHANGED <<offered, logins>>

Login(n, a) ==
    /\ decided[n] = a
    /\ \A i \in DOMAIN logins : logins[i].nonce # n
    /\ logins' = Append(logins, [nonce |-> n, app |-> a, offer |-> offered[n]])
    /\ UNCHANGED <<offered, decided>>

Next ==
    \E n \in Nonces :
        \/ \E o \in Offers : Offer(n, o)
        \/ \E a \in Apps \cup {Burned} : Decide(n, a)
        \/ \E a \in Apps : Login(n, a)

Spec == Init /\ [][Next]_vars
=============================================================================
