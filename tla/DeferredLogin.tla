--------------------------- MODULE DeferredLogin ---------------------------
(***************************************************************************)
(* Deferred deep-link login: Minter.Mint and Minter.Exchange of            *)
(* lib/deferred/mint.go, the nonce store behind them and the identity      *)
(* provider, which is external.                                            *)
(*                                                                         *)
(* A web session mints a nonce; the nonce travels to an app through a      *)
(* store carrier, which anything on the device can read, copy or garble;   *)
(* whoever holds it exchanges it for a one-time login token.  Exchange     *)
(* reads the clock, then consumes the record in one atomic store           *)
(* operation, then judges what it got back, then asks the provider: any    *)
(* of these can fail with or without having taken effect, and requests on  *)
(* any replica interleave between them.                                    *)
(***************************************************************************)
EXTENDS Naturals, Sequences

CONSTANTS
    Requests,   \* goroutines serving Mint and Exchange
    Nonces,     \* the nonces the random source yields; it never repeats one
    Blank,      \* the empty nonce
    Garbled,    \* a nonce the carrier damaged: no record has its digest
    Subjects,   \* users
    NoSubject,  \* the subject of a session that is not authenticated
    Emails,     \* addresses
    NoEmail,    \* the nil address of a Mint that binds the login to none
    NoRecord,   \* a store miss
    Undecided,  \* no Exchange has consumed the nonce
    Burned,     \* an Exchange consumed the nonce and nobody can log in with it
    Lifetime,   \* nonce validity
    MaxTime,    \* bound: the last instant of the clock
    MayFail     \* whether seams may fail and processes may stop

\* A Record, filed under its nonce's digest.  SHA-256 does not collide, so the
\* nonce itself stands for the digest.
Record == [subject : Subjects, email : Emails \cup {NoEmail}, exp : Nat,
           consumed : BOOLEAN]

\* A OneTimeTokenRequest: what a nonce binds the login to.
Offer == [subject : Subjects, email : Emails \cup {NoEmail}]

Carried == Nonces \cup {Blank, Garbled}

\* What a provider that refuses to mint the one-time token makes of it: it knows
\* its own credentials no more, may not do it, or anything else (classifyStatus).
Refusals == {"token-signature-invalid", "ownership-denied", "provider-unavailable"}

Errors == Refusals \cup
          {"nil", "crashed", "token-claim-missing", "deferred-token-unknown",
           "deferred-token-consumed", "deferred-token-expired"}

ASSUME ConstantsAssumption ==
    /\ Blank \notin Nonces
    /\ Garbled \notin Nonces \cup {Blank}
    /\ NoSubject \notin Subjects
    /\ NoEmail \notin Emails
    /\ NoRecord \notin Record \cup Offer
    /\ {Undecided, Burned} \cap Requests = {}
    /\ Undecided # Burned
    /\ Lifetime \in Nat \ {0}
    /\ MaxTime \in Nat
    /\ MayFail \in BOOLEAN

VARIABLES
    clock,      \* the instant the clock seam reads
    records,    \* the nonce store: nonce (digest) -> Record
    pc,         \* where each request is
    nonce,      \* the nonce it mints, or presents
    now,        \* its local reading of the clock
    record,     \* its copy of the record: to be stored, or as it was consumed
    reply,      \* what its last call returned, "nil" while it has not
    delivered,  \* the nonces Mint has handed to a web session
    logins,     \* the one-time tokens the provider has minted, in order
    offered,    \* history: the record each nonce was stored with
    decided,    \* history: the request whose Consume decided each nonce
    lost        \* history: the nonces some request failed on, or stopped at

vars == <<clock, records, pc, nonce, now, record, reply, delivered, logins,
          offered, decided, lost>>
-----------------------------------------------------------------------------
Goto(p, l) == pc' = [pc EXCEPT ![p] = l]

\* The call returns, and its locals are gone.
Return(p, e) ==
    /\ Goto(p, "idle")
    /\ reply' = [reply EXCEPT ![p] = e]
    /\ nonce' = [nonce EXCEPT ![p] = Blank]
    /\ now' = [now EXCEPT ![p] = 0]
    /\ record' = [record EXCEPT ![p] = NoRecord]

\* Definitions named ...Mutant are wrong on purpose: each is a bug the definition
\* after it could have had, which a property below detects.
InTimeMutant(t, r) == t <= r.exp

InTimeMarginMutant(t, r) == t + 1 < r.exp

\* now.Before(record.ExpiresAt)
InTime(t, r) == t < r.exp

\* What Consume leaves in the store of a record it found.
MarkedMutant(r) == r

MarkedGoneMutant(r) == NoRecord

Marked(r) == [r EXCEPT !.consumed = TRUE]

\* Whose nonce it is once a Consume by p, at t, has found r.
Decision(p, t, r) == IF InTime(t, r) THEN p ELSE Burned
-----------------------------------------------------------------------------
Init ==
    /\ clock = 1
    /\ records = [n \in Nonces |-> NoRecord]
    /\ pc = [p \in Requests |-> "idle"]
    /\ nonce = [p \in Requests |-> Blank]
    /\ now = [p \in Requests |-> 0]
    /\ record = [p \in Requests |-> NoRecord]
    /\ reply = [p \in Requests |-> "nil"]
    /\ delivered = {}
    /\ logins = <<>>
    /\ offered = [n \in Nonces |-> NoRecord]
    /\ decided = [n \in Nonces |-> Undecided]
    /\ lost = {}

\* Nonces that some Mint has drawn.
Drawn ==
    {n \in Nonces : offered[n] # NoRecord} \cup {nonce[p] : p \in Requests}

\* Mint, up to the store write: the subject check, the clock, the nonce.
BeginMintMutant(p, s, e) ==
    /\ pc[p] = "idle"
    /\ \E n \in Nonces \ Drawn : nonce' = [nonce EXCEPT ![p] = n]
    /\ record' = [record EXCEPT ![p] =
                     [subject |-> s, email |-> e, exp |-> clock + Lifetime,
                      consumed |-> FALSE]]
    /\ Goto(p, "put")
    /\ UNCHANGED <<clock, records, now, reply, delivered, logins, offered, decided,
                   lost>>

BeginMint(p, s, e) ==
    /\ pc[p] = "idle"
    /\ \/ /\ s = NoSubject
          /\ Return(p, "token-claim-missing")
       \/ /\ MayFail /\ s # NoSubject                              \* no clock
          /\ Return(p, "provider-unavailable")
       \/ /\ s # NoSubject
          /\ \E n \in Nonces \ Drawn : nonce' = [nonce EXCEPT ![p] = n]
          /\ record' = [record EXCEPT ![p] =
                           [subject |-> s, email |-> e, exp |-> clock + Lifetime,
                            consumed |-> FALSE]]
          /\ reply' = [reply EXCEPT ![p] = "nil"]
          /\ Goto(p, "put")
          /\ UNCHANGED now
    /\ UNCHANGED <<clock, records, delivered, logins, offered, decided, lost>>

\* store.Put; one that reports failure may have been applied.
PutApplied(p) ==
    /\ records' = [records EXCEPT ![nonce[p]] = record[p]]
    /\ offered' = [offered EXCEPT ![nonce[p]] = record[p]]

Put(p) ==
    /\ pc[p] = "put"
    /\ \/ /\ PutApplied(p)
          /\ Return(p, "nil")
          /\ delivered' = delivered \cup {nonce[p]}
       \/ /\ MayFail
          /\ PutApplied(p) \/ UNCHANGED <<records, offered>>
          /\ Return(p, "provider-unavailable")
          /\ UNCHANGED delivered
    /\ UNCHANGED <<clock, logins, decided, lost>>

\* Exchange, up to the store operation: the blank check and the clock.
BeginExchange(p, n) ==
    /\ pc[p] = "idle"
    /\ \/ /\ n = Blank
          /\ Return(p, "deferred-token-unknown")
       \/ /\ MayFail /\ n # Blank                                  \* no clock
          /\ Return(p, "provider-unavailable")
       \/ /\ n # Blank
          /\ nonce' = [nonce EXCEPT ![p] = n]
          /\ now' = [now EXCEPT ![p] = clock]
          /\ reply' = [reply EXCEPT ![p] = "nil"]
          /\ Goto(p, "consume")
          /\ UNCHANGED record
    /\ UNCHANGED <<clock, records, delivered, logins, offered, decided, lost>>

Found(n) == n \in Nonces /\ records[n] # NoRecord

\* store.Consume has marked the record, and this decided whose nonce n is, to a.
Consumed(p, n, a) ==
    /\ records' = [records EXCEPT ![n] = Marked(@)]
    /\ decided' = [decided EXCEPT ![n] = IF records[n].consumed THEN @ ELSE a]

\* store.Consume, and the refusals it leads to.
Consume(p) ==
    LET n == nonce[p]
        r == records[n]
    IN  /\ pc[p] = "consume"
        /\ \/ /\ MayFail
              /\ \/ UNCHANGED <<records, decided>>
                 \/ Found(n) /\ Consumed(p, n, Burned)
              /\ lost' = lost \cup {n}
              /\ Return(p, "provider-unavailable")
           \/ /\ ~Found(n)
              /\ Return(p, "deferred-token-unknown")
              /\ UNCHANGED <<records, decided, lost>>
           \/ /\ Found(n)
              /\ Consumed(p, n, Decision(p, now[p], r))
              /\ UNCHANGED lost
              /\ \/ /\ r.consumed
                    /\ Return(p, "deferred-token-consumed")
                 \/ /\ ~r.consumed
                    /\ ~InTime(now[p], r)
                    /\ Return(p, "deferred-token-expired")
                 \/ /\ ~r.consumed
                    /\ InTime(now[p], r)
                    /\ record' = [record EXCEPT ![p] = r]
                    /\ Goto(p, "login")
                    /\ UNCHANGED <<nonce, now, reply>>
        /\ UNCHANGED <<clock, delivered, logins, offered>>

\* What the provider is asked for.
BoundMutant(r) == [subject |-> r.subject, email |-> NoEmail]

Bound(r) == [subject |-> r.subject, email |-> r.email]

\* provider.MintOneTimeToken; its answer may be lost.
Granted(p) ==
    logins' = Append(logins, [nonce |-> nonce[p], app |-> p,
                              offer |-> Bound(record[p])])

Login(p) ==
    /\ pc[p] = "login"
    /\ \/ /\ Granted(p)
          /\ Return(p, "nil")
          /\ UNCHANGED lost
       \/ /\ MayFail
          /\ lost' = lost \cup {nonce[p]}
          /\ \/ /\ Granted(p)
                /\ Return(p, "provider-unavailable")
             \/ /\ UNCHANGED logins
                /\ \E e \in Refusals : Return(p, e)
    /\ UNCHANGED <<clock, records, delivered, offered, decided>>

\* The process stops, or gives the request up, between two seam calls.
Crash(p) ==
    /\ MayFail
    /\ pc[p] # "idle"
    /\ Return(p, "crashed")
    /\ lost' = lost \cup {nonce[p]}
    /\ UNCHANGED <<clock, records, delivered, logins, offered, decided>>

Tick ==
    /\ clock < MaxTime
    /\ clock' = clock + 1
    /\ UNCHANGED <<records, pc, nonce, now, record, reply, delivered, logins,
                   offered, decided, lost>>

\* The store drops a record whose TTL has passed.
Drop(n) ==
    /\ records[n] # NoRecord
    /\ clock >= records[n].exp
    /\ records' = [records EXCEPT ![n] = NoRecord]
    /\ UNCHANGED <<clock, pc, nonce, now, record, reply, delivered, logins,
                   offered, decided, lost>>

Next ==
    \/ \E p \in Requests, s \in Subjects \cup {NoSubject}, e \in Emails \cup {NoEmail} :
         BeginMint(p, s, e)
    \/ \E p \in Requests, n \in delivered \cup {Blank, Garbled} :
         BeginExchange(p, n)
    \/ \E p \in Requests : Put(p) \/ Consume(p) \/ Login(p) \/ Crash(p)
    \/ Tick
    \/ \E n \in Nonces : Drop(n)

Spec == Init /\ [][Next]_vars
-----------------------------------------------------------------------------
PCs == {"idle", "put", "consume", "login"}

Grant == [nonce : Nonces, app : Requests, offer : Offer]

TypeOK ==
    /\ clock \in Nat
    /\ records \in [Nonces -> Record \cup {NoRecord}]
    /\ pc \in [Requests -> PCs]
    /\ nonce \in [Requests -> Carried]
    /\ now \in [Requests -> Nat]
    /\ record \in [Requests -> Record \cup {NoRecord}]
    /\ reply \in [Requests -> Errors]
    /\ delivered \in SUBSET Nonces
    /\ logins \in Seq(Grant)
    /\ offered \in [Nonces -> Record \cup {NoRecord}]
    /\ decided \in [Nonces -> Requests \cup {Undecided, Burned}]
    /\ lost \in SUBSET Carried

(***************************************************************************)
(* However many apps present one nonce, and however their requests         *)
(* interleave, fail and stop, the provider mints at most one one-time      *)
(* token on it (Exchange: "consumes a nonce exactly once").                *)
(***************************************************************************)
OneLoginPerNonce ==
    \A i, j \in DOMAIN logins : logins[i].nonce = logins[j].nonce => i = j

(***************************************************************************)
(* The first Exchange to reach the store decides the nonce, for good; only *)
(* its app logs in, once, as the user and with the address the nonce was   *)
(* minted for.                                                             *)
(***************************************************************************)
OfferOf(n) ==
    IF offered[n] = NoRecord
    THEN NoRecord
    ELSE [subject |-> offered[n].subject, email |-> offered[n].email]

Redemption == INSTANCE OneTimeRedemption WITH
    Apps <- Requests,
    Offers <- Offer,
    NoOffer <- NoRecord,
    offered <- [n \in Nonces |-> OfferOf(n)]

RedeemsOnce == Redemption!Spec

(***************************************************************************)
(* A login is only ever minted for a request that started before the       *)
(* nonce expired, however long the store took and even if it kept the      *)
(* record past its TTL (Exchange).                                         *)
(***************************************************************************)
LateIsRefused ==
    [][logins' # logins =>
          LET g == logins'[Len(logins')]
          IN  now[g.app] < offered[g.nonce].exp]_vars

(***************************************************************************)
(* Within a nonce's lifetime, "unknown" hides neither a replay nor an      *)
(* outage: a nonce that reached a client whole is unknown only once its    *)
(* expiry has passed, whatever was consumed, refused, failed or stopped    *)
(* before (Record: consumption is recorded, rather than the row deleted).  *)
(* After it, "unknown" hides a late app and a replay alike, and does not   *)
(* mean the broken carrier that Exchange's comment takes it for: the store *)
(* drops a record when its nonce expires (Put in Mint).                    *)
(***************************************************************************)
UnknownOnlyOnceExpired ==
    [][\A p \in Requests :
          /\ pc[p] # "idle" /\ pc'[p] = "idle"
          /\ reply'[p] = "deferred-token-unknown"
          => nonce[p] = Garbled \/ offered[nonce[p]].exp <= clock]_vars

(***************************************************************************)
(* No nonce is wasted, unless a request for it failed or stopped: the app  *)
(* it was decided for has its login or is about to, and it was decided for *)
(* nobody only after its expiry (Exchange).                                *)
(***************************************************************************)
NothingIsWasted ==
    \A n \in Nonces \ lost :
        /\ decided[n] \in Requests =>
              \/ \E i \in DOMAIN logins : logins[i].nonce = n
              \/ pc[decided[n]] = "login" /\ nonce[decided[n]] = n
        /\ decided[n] = Burned => offered[n].exp <= clock
=============================================================================
