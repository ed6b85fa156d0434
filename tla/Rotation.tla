----------------------------- MODULE Rotation -----------------------------
(***************************************************************************)
(* Refresh-token rotation: Rotator.Issue and Rotator.Rotate of             *)
(* lib/authengine/rotation.go, the refresh store they share, and the       *)
(* identity provider, which is external.                                   *)
(*                                                                         *)
(* Rotate is a sequence of seam calls with nothing atomic about it: read   *)
(* the record, exchange the token at the provider, write the record back   *)
(* as consumed, write the replacement's record.  Requests - on any replica *)
(* - interleave between them, each of them can fail with or without        *)
(* having taken effect, and the process can stop in between.               *)
(***************************************************************************)
EXTENDS Naturals

CONSTANTS
    Requests,    \* goroutines serving sign-ins and refreshes
    Subjects,    \* users
    NoSubject,   \* the empty subject of a session the provider does not name
    NoRecord,    \* a store miss
    Lifetime,    \* refresh-token validity
    MaxTokens,   \* bound: how many refresh tokens the provider issues
    MaxTime,     \* bound: the last instant of the clock
    Rotates,     \* whether an exchange may return a replacement (TRUE), none (FALSE)
    MayFail      \* whether seams may fail and processes may stop

Tokens == 1..MaxTokens

\* A RefreshRecord, stored under its token's fingerprint.  SHA-256 does not
\* collide, so the token itself stands for the fingerprint.
Record == [subject : Subjects \cup {NoSubject}, exp : Nat, consumed : BOOLEAN]

\* The parts of a Session that matter here; exp = 0 is the zero time.
Session == [token : Nat, subject : Subjects \cup {NoSubject}, exp : Nat]

NoSession == [token |-> 0, subject |-> NoSubject, exp |-> 0]

\* What becomes of a refusal by the provider (classifyStatus).
Refusals == {"token-signature-invalid", "ownership-denied", "provider-unavailable"}

Failures == Refusals \cup
            {"refresh-token-unknown", "refresh-token-reused", "token-expired"}
Errors == Failures \cup {"nil", "crashed"}

ASSUME ConstantsAssumption ==
    /\ NoSubject \notin Subjects
    /\ NoRecord \notin Record
    /\ Lifetime \in Nat \ {0}
    /\ MaxTokens \in Nat
    /\ MaxTime \in Nat
    /\ Rotates \subseteq BOOLEAN
    /\ MayFail \in BOOLEAN

VARIABLES
    clock,      \* the instant the clock seam reads
    records,    \* the refresh store: token (fingerprint) -> RefreshRecord
    issued,     \* how many refresh tokens the provider has issued
    spent,      \* the tokens the provider has rotated away
    owner,      \* the user the provider issued each token to
    pc,         \* where each request is
    presented,  \* the token it presents, 0 when blank or when signing in
    now,        \* its local reading of the clock
    record,     \* its copy of the record it read
    session,    \* the session the provider returned to it
    reply,      \* what its last call returned, "nil" while it has not
    delivered,  \* history: tokens that reached a client
    recorded,   \* history: the expiry Issue last recorded a token with, 0 if never
    rotated,    \* history: tokens a Rotate has reported success for
    carried     \* history: tokens the provider has carried forward

vars == <<clock, records, issued, spent, owner, pc, presented, now, record,
          session, reply, delivered, recorded, rotated, carried>>

idp == <<issued, spent, owner>>
history == <<delivered, recorded, rotated, carried>>
-----------------------------------------------------------------------------
Goto(p, l) == pc' = [pc EXCEPT ![p] = l]

\* The request answers its client, and its locals are gone.
Return(p, e) ==
    /\ Goto(p, "idle")
    /\ reply' = [reply EXCEPT ![p] = e]
    /\ now' = [now EXCEPT ![p] = 0]
    /\ record' = [record EXCEPT ![p] = NoRecord]
    /\ session' = [session EXCEPT ![p] = NoSession]

Fresh(s, exp) == [subject |-> s, exp |-> exp, consumed |-> FALSE]

\* store.Write, which overwrites; one that reports failure may have been applied.
Write(t, r) == records' = [records EXCEPT ![t] = r]
WriteFails(t, r) == MayFail /\ (Write(t, r) \/ UNCHANGED records)

\* The expiry of a session: the provider's, or else one counted from the clock.
Expiry(s) == IF s.exp = 0 THEN clock + Lifetime ELSE s.exp

\* Definitions named ...Mutant are wrong on purpose: each is a bug the definition
\* after it could have had, which a property below detects.
NamedMutant(s, r) == s

\* A session without a subject is given the record's.
Named(s, r) == IF s.subject = NoSubject THEN [s EXCEPT !.subject = r.subject] ELSE s

\* How the presented token's record is written back.
SpentRecordMutant(r) == r

SpentRecordGoneMutant(r) == NoRecord

SpentRecord(r) == [r EXCEPT !.consumed = TRUE]
-----------------------------------------------------------------------------
Init ==
    /\ clock = 1
    /\ records = [t \in Tokens |-> NoRecord]
    /\ issued = 0
    /\ spent = {}
    /\ owner = [t \in Tokens |-> NoSubject]
    /\ pc = [p \in Requests |-> "idle"]
    /\ presented = [p \in Requests |-> 0]
    /\ now = [p \in Requests |-> 0]
    /\ record = [p \in Requests |-> NoRecord]
    /\ session = [p \in Requests |-> NoSession]
    /\ reply = [p \in Requests |-> "nil"]
    /\ delivered = {}
    /\ recorded = [t \in Tokens |-> 0]
    /\ rotated = {}
    /\ carried = {}

\* A user signs in at the provider, and the consumer hands the session to Issue.
SignIn(p, s) ==
    /\ pc[p] = "idle"
    /\ issued < MaxTokens
    /\ issued' = issued + 1
    /\ owner' = [owner EXCEPT ![issued + 1] = s]
    /\ delivered' = delivered \cup {issued + 1}
    /\ \E exp \in {0, clock + Lifetime} :
         session' = [session EXCEPT ![p] =
                        [token |-> issued + 1, subject |-> s, exp |-> exp]]
    /\ presented' = [presented EXCEPT ![p] = 0]
    /\ reply' = [reply EXCEPT ![p] = "nil"]
    /\ Goto(p, "date")
    /\ UNCHANGED <<clock, records, spent, now, record, recorded, rotated, carried>>

\* The same, when the provider grants no refresh token.
SignInBare(p, s) ==
    /\ pc[p] = "idle"
    /\ session' = [session EXCEPT ![p] = [token |-> 0, subject |-> s, exp |-> 0]]
    /\ presented' = [presented EXCEPT ![p] = 0]
    /\ reply' = [reply EXCEPT ![p] = "nil"]
    /\ Goto(p, "date")
    /\ UNCHANGED <<clock, records, idp, now, record, history>>

\* Rotate, up to the store read: the clock and the fingerprint.
Begin(p, t) ==
    /\ pc[p] = "idle"
    /\ presented' = [presented EXCEPT ![p] = t]
    /\ \/ /\ MayFail                                               \* no clock
          /\ Return(p, "provider-unavailable")
       \/ /\ t = 0
          /\ Return(p, "refresh-token-unknown")
       \/ /\ t # 0
          /\ Goto(p, "read")
          /\ now' = [now EXCEPT ![p] = clock]
          /\ reply' = [reply EXCEPT ![p] = "nil"]
          /\ UNCHANGED <<record, session>>
    /\ UNCHANGED <<clock, records, idp, history>>

\* The record read lets the exchange go ahead.
AcceptedMutant(p, r) ==
    /\ record' = [record EXCEPT ![p] = r]
    /\ Write(presented[p], SpentRecord(r))
    /\ Goto(p, "exchange")
    /\ UNCHANGED <<now, session, reply>>

Accepted(p, r) ==
    /\ record' = [record EXCEPT ![p] = r]
    /\ Goto(p, "exchange")
    /\ UNCHANGED <<records, now, session, reply>>

\* store.Read, and the refusals it leads to.
Refused(p, r) ==
    /\ \/ /\ MayFail
          /\ Return(p, "provider-unavailable")
       \/ /\ r = NoRecord
          /\ Return(p, "refresh-token-unknown")
       \/ /\ r # NoRecord
          /\ r.consumed
          /\ Return(p, "refresh-token-reused")
       \/ /\ r # NoRecord
          /\ ~r.consumed
          /\ now[p] >= r.exp
          /\ Return(p, "token-expired")
    /\ UNCHANGED records

Read(p) ==
    LET r == records[presented[p]]
    IN  /\ pc[p] = "read"
        /\ \/ Refused(p, r)
           \/ /\ r # NoRecord
              /\ ~r.consumed
              /\ now[p] < r.exp
              /\ Accepted(p, r)
        /\ UNCHANGED <<clock, idp, presented, history>>

\* provider.Refresh.  The provider refuses what it has rotated away, as an invalid
\* grant; otherwise it rotates, or carries the presented token forward, and the
\* answer may be lost.
ExchangeRefusedMutant(p) ==
    /\ presented[p] \in spent \/ MayFail
    /\ Return(p, "invalid_grant")
    /\ UNCHANGED <<idp, carried>>

ExchangeRefused(p) ==
    /\ \/ presented[p] \in spent /\ Return(p, "provider-unavailable")
       \/ MayFail /\ \E e \in Refusals : Return(p, e)
    /\ UNCHANGED <<idp, carried>>

\* The provider's answer: a session naming the user, or nobody.
Granted(p, t) ==
    /\ \E s \in {NoSubject, owner[presented[p]]}, exp \in {0, clock + Lifetime} :
         session' = [session EXCEPT ![p] =
                        [token |-> t, subject |-> s, exp |-> exp]]
    /\ Goto(p, "consume")
    /\ UNCHANGED <<now, record, reply>>

ExchangeRotates(p) ==
    /\ presented[p] \notin spent
    /\ TRUE \in Rotates
    /\ issued < MaxTokens
    /\ issued' = issued + 1
    /\ spent' = spent \cup {presented[p]}
    /\ owner' = [owner EXCEPT ![issued + 1] = owner[presented[p]]]
    /\ \/ Granted(p, issued + 1)
       \/ MayFail /\ Return(p, "provider-unavailable")
    /\ UNCHANGED carried

ExchangeCarries(p) ==
    /\ presented[p] \notin spent
    /\ FALSE \in Rotates
    /\ carried' = carried \cup {presented[p]}
    /\ Granted(p, presented[p])
    /\ UNCHANGED idp

Exchange(p) ==
    /\ pc[p] = "exchange"
    /\ ExchangeRefused(p) \/ ExchangeRotates(p) \/ ExchangeCarries(p)
    /\ UNCHANGED <<clock, records, presented, delivered, recorded, rotated>>

\* The presented token's record is written back as consumed, and the session
\* gets the record's subject when the provider gave none.
Consume(p) ==
    /\ pc[p] = "consume"
    /\ \/ /\ WriteFails(presented[p], SpentRecord(record[p]))
          /\ Return(p, "provider-unavailable")
       \/ /\ Write(presented[p], SpentRecord(record[p]))
          /\ session' = [session EXCEPT ![p] = Named(@, record[p])]
          /\ Goto(p, "date")
          /\ UNCHANGED <<now, record, reply>>
    /\ UNCHANGED <<clock, idp, presented, history>>

\* Issue, up to the store write: the clock, the fingerprint and the expiry.
Date(p) ==
    /\ pc[p] = "date"
    /\ \/ /\ MayFail                                               \* no clock
          /\ Return(p, "provider-unavailable")
       \/ /\ session[p].token = 0
          /\ Return(p, "refresh-token-unknown")
       \/ /\ session[p].token # 0
          /\ session' = [session EXCEPT ![p].exp = Expiry(session[p])]
          /\ Goto(p, "issue")
          /\ UNCHANGED <<now, record, reply>>
    /\ UNCHANGED <<clock, records, idp, presented, history>>

\* The session is recorded; Rotate, or the sign-in, then returns.
IssueUnrecordedMutant(p) ==
    /\ pc[p] = "issue"
    /\ Return(p, "nil")
    /\ delivered' = delivered \cup {session[p].token}
    /\ recorded' = [recorded EXCEPT ![session[p].token] = session[p].exp]
    /\ rotated' = rotated \cup ({presented[p]} \ {0})
    /\ UNCHANGED <<clock, records, idp, presented, carried>>

IssueRollbackMutant(p) ==
    LET s == session[p]
        r == Fresh(s.subject, s.exp)
    IN  /\ pc[p] = "issue"
        /\ \/ /\ MayFail
              /\ record[p] # NoRecord
              /\ Write(presented[p], record[p])
              /\ Return(p, "provider-unavailable")
              /\ UNCHANGED history
           \/ /\ Write(s.token, r)
              /\ Return(p, "nil")
              /\ delivered' = delivered \cup {s.token}
              /\ recorded' = [recorded EXCEPT ![s.token] = r.exp]
              /\ rotated' = rotated \cup ({presented[p]} \ {0})
        /\ UNCHANGED <<clock, idp, presented, carried>>

Issue(p) ==
    LET s == session[p]
        r == Fresh(s.subject, s.exp)
    IN  /\ pc[p] = "issue"
        /\ \/ /\ WriteFails(s.token, r)
              /\ Return(p, "provider-unavailable")
              /\ UNCHANGED history
           \/ /\ Write(s.token, r)
              /\ Return(p, "nil")
              /\ delivered' = delivered \cup {s.token}
              /\ recorded' = [recorded EXCEPT ![s.token] = r.exp]
              /\ rotated' = rotated \cup ({presented[p]} \ {0})
        /\ UNCHANGED <<clock, idp, presented, carried>>

\* The process stops, or gives the request up, between two seam calls.
Crash(p) ==
    /\ MayFail
    /\ pc[p] # "idle"
    /\ Return(p, "crashed")
    /\ UNCHANGED <<clock, records, idp, presented, history>>

Tick ==
    /\ clock < MaxTime
    /\ clock' = clock + 1
    /\ UNCHANGED <<records, idp, pc, presented, now, record, session, reply,
                   history>>

\* The store drops a record whose TTL has passed.
Drop(t) ==
    /\ records[t] # NoRecord
    /\ clock >= records[t].exp
    /\ records' = [records EXCEPT ![t] = NoRecord]
    /\ UNCHANGED <<clock, idp, pc, presented, now, record, session, reply, history>>

Next ==
    \/ \E p \in Requests, s \in Subjects : SignIn(p, s) \/ SignInBare(p, s)
    \/ \E p \in Requests, t \in delivered \cup {0} : Begin(p, t)
    \/ \E p \in Requests :
         \/ Read(p) \/ Exchange(p) \/ Consume(p) \/ Date(p) \/ Issue(p)
         \/ Crash(p)
    \/ Tick
    \/ \E t \in Tokens : Drop(t)

Spec == Init /\ [][Next]_vars
-----------------------------------------------------------------------------
PCs == {"idle", "read", "exchange", "consume", "date", "issue"}

TypeOK ==
    /\ clock \in Nat
    /\ records \in [Tokens -> Record \cup {NoRecord}]
    /\ issued \in 0..MaxTokens
    /\ spent \in SUBSET Tokens
    /\ owner \in [Tokens -> Subjects \cup {NoSubject}]
    /\ pc \in [Requests -> PCs]
    /\ presented \in [Requests -> 0..MaxTokens]
    /\ now \in [Requests -> Nat]
    /\ record \in [Requests -> Record \cup {NoRecord}]
    /\ session \in [Requests -> Session]
    /\ reply \in [Requests -> Errors]
    /\ delivered \in SUBSET Tokens
    /\ recorded \in [Tokens -> Nat]
    /\ rotated \in SUBSET Tokens
    /\ carried \in SUBSET Tokens

(***************************************************************************)
(* A refresh refused as reuse presented a token that has really been       *)
(* rotated away, unless the provider ever carried that token forward: the  *)
(* theft alarm of Rotate is not raised by writes that fail, answers that   *)
(* are lost or processes that stop.                                        *)
(***************************************************************************)
ReuseIsEarned ==
    \A p \in Requests :
        pc[p] = "idle" /\ reply[p] = "refresh-token-reused" =>
            presented[p] \in spent \cup carried

(***************************************************************************)
(* A consumed record stays consumed until its TTL drops it: no concurrent  *)
(* Rotate working on an older copy, and no Issue, makes a rotated-away     *)
(* token presentable again - unless the provider carried it forward.       *)
(***************************************************************************)
ConsumedStaysConsumed ==
    [][\A t \in Tokens \ carried :
          records[t] # NoRecord /\ records[t].consumed =>
              \/ records'[t] = NoRecord /\ clock >= records[t].exp
              \/ records'[t] # NoRecord /\ records'[t].consumed]_vars

(***************************************************************************)
(* Once a Rotate of a token has reported success, that token's record is   *)
(* consumed, for as long as the store keeps it: presenting it again is     *)
(* reported as reuse.                                                      *)
(***************************************************************************)
SuccessConsumes ==
    \A t \in rotated \ carried : records[t] = NoRecord \/ records[t].consumed

(***************************************************************************)
(* A replacement that reached a client can be rotated in its turn: as long *)
(* as the provider has not rotated it away, its record is there and is not *)
(* consumed, until it expires (Rotate records before it returns).          *)
(***************************************************************************)
DeliveredIsRotatable ==
    \A t \in Tokens \ (spent \cup carried) :
        recorded[t] > clock => records[t] # NoRecord /\ ~records[t].consumed

(***************************************************************************)
(* A token is recorded for the user the provider issued it to, through any *)
(* number of rotations whose answers name no subject (Rotate carries the   *)
(* subject forward).                                                       *)
(***************************************************************************)
RecordedForItsOwner ==
    \A t \in Tokens : records[t] # NoRecord => records[t].subject = owner[t]

(***************************************************************************)
(* "unknown" never hides a replay of a token that lives: Rotate only       *)
(* answers it for a token whose Issue has not succeeded yet, and for one   *)
(* past its expiry (Issue: an unknown token is distinguishable from a      *)
(* replayed one); a token carried forward can be left with the expiry of   *)
(* an older copy.                                                          *)
(***************************************************************************)
UnknownIsNoReplay ==
    [][\A p \in Requests :
          /\ pc[p] # "idle" /\ pc'[p] = "idle"
          /\ reply'[p] = "refresh-token-unknown"
          => \/ presented[p] \in carried \cup {0}
             \/ recorded[presented[p]] <= clock]_vars
-----------------------------------------------------------------------------
(* What documents say, and the code does not do.                           *)

(***************************************************************************)
(* "Recording each issued fingerprint and refusing a second rotation turns *)
(* that race into a hard, attributable failure" (Rotator): with no failing *)
(* seam, whoever presents a token that has been rotated away - and is      *)
(* refused for it - is told of the reuse.                                  *)
(***************************************************************************)
RaceIsAttributed ==
    \A p \in Requests :
        /\ pc[p] = "idle"
        /\ presented[p] \in spent
        /\ reply[p] # "nil"
        => reply[p] \in {"refresh-token-reused", "refresh-token-unknown",
                         "token-expired"}

(***************************************************************************)
(* "the presented refresh token has already been rotated away" (Rotate),   *)
(* Consumed "reports whether the token has already been rotated away"      *)
(* (RefreshRecord): whoever is told so presented such a token.             *)
(***************************************************************************)
ReuseMeansRotatedAway ==
    \A p \in Requests :
        pc[p] = "idle" /\ reply[p] = "refresh-token-reused" => presented[p] \in spent
=============================================================================
