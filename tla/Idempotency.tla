------------------------------ MODULE Idempotency ------------------------------
(***************************************************************************)
(* One X-Idempotency-Key and the requests that carry it, through           *)
(* IdempotencyInterceptor: look the key up, claim it by inserting a row    *)
(* without a response, run the handler, store the response or give the     *)
(* claim back.  The handler is any of the routes that attach the           *)
(* interceptor (ask, spend, grant, ...): it takes effect or not, and it    *)
(* may throw after its transaction has committed.  Records of different    *)
(* keys share nothing, so one key is enough.                               *)
(***************************************************************************)
EXTENDS Naturals, FiniteSets

CONSTANTS
  Requests,    \* requests sent with the key, by any caller: first tries and retries
  Hashes,      \* their hashes: of method, url and body, not of user or organisation
  NoResponse,  \* response column of a claim in progress
  MaxFaults    \* bound: crashes, failed writes and lost commit replies

ASSUME IdempotencyAssumption ==
  /\ NoResponse \notin Requests
  /\ MaxFaults \in Nat

VARIABLES
  record,   \* the idempotency_records row of the key: a set of at most one row
  hash,     \* request -> its hash
  pc,       \* request -> where the interceptor is with it
  reply,    \* request -> what its client gets
  faults,   \* faults so far
  charged   \* history: requests that took effect since the key was last free of TTL

vars == <<record, hash, pc, reply, faults, charged>>

-------------------------------------------------------------------------------

\* A response stands for the request whose handler produced it.
Record == [hash : Hashes, response : Requests \cup {NoResponse}, expired : BOOLEAN]

Reply == [kind : {"none", "conflict", "unprocessable", "error"}, from : {NoResponse}]
           \cup [kind : {"fresh", "replay"}, from : Requests]

TypeOK ==
  /\ record \subseteq Record /\ Cardinality(record) <= 1
  /\ hash \in [Requests -> Hashes]
  /\ pc \in [Requests -> {"start", "create", "handle", "store", "delete", "end"}]
  /\ reply \in [Requests -> Reply]
  /\ faults \in 0 .. MaxFaults
  /\ charged \subseteq Requests

Init ==
  /\ record = {}
  /\ hash \in [Requests -> Hashes]
  /\ pc = [q \in Requests |-> "start"]
  /\ reply = [q \in Requests |-> [kind |-> "none", from |-> NoResponse]]
  /\ faults = 0
  /\ charged = {}

Goto(q, step) == pc' = [pc EXCEPT ![q] = step]

Respond(q, kind, from) == reply' = [reply EXCEPT ![q] = [kind |-> kind, from |-> from]]

Fail(q) == Respond(q, "error", NoResponse)

Fault == faults < MaxFaults /\ faults' = faults + 1

-------------------------------------------------------------------------------
(* intercept() *)

\* Mutant of Lookup: the hash is not compared.
LookupIgnoringHash(q) ==
  /\ pc[q] = "start"
  /\ \/ record = {} /\ Goto(q, "create") /\ UNCHANGED reply
     \/ \E row \in record :
          /\ Goto(q, "end")
          /\ IF row.response = NoResponse THEN Respond(q, "conflict", NoResponse)
             ELSE Respond(q, "replay", row.response)
  /\ UNCHANGED <<record, hash, faults, charged>>

\* findUnique: an expired row that has not been purged still answers.
Lookup(q) ==
  /\ pc[q] = "start"
  /\ \/ record = {} /\ Goto(q, "create") /\ UNCHANGED reply
     \/ \E row \in record :
          /\ Goto(q, "end")
          /\ \/ row.hash # hash[q] /\ Respond(q, "unprocessable", NoResponse)
             \/ /\ row.hash = hash[q]
                /\ IF row.response = NoResponse THEN Respond(q, "conflict", NoResponse)
                   ELSE Respond(q, "replay", row.response)
  /\ UNCHANGED <<record, hash, faults, charged>>

Claim(q) == record' = {[hash |-> hash[q], response |-> NoResponse, expired |-> FALSE]}

\* Mutant of Create: nothing makes the key unique.
CreateUnchecked(q) ==
  /\ pc[q] = "create"
  /\ record' = record \cup {[hash |-> hash[q], response |-> NoResponse, expired |-> FALSE]}
  /\ Goto(q, "handle")
  /\ UNCHANGED <<hash, reply, faults, charged>>

\* create(): the primary key decides between two requests that both saw no row.
Create(q) ==
  /\ pc[q] = "create"
  /\ \/ record = {} /\ Claim(q) /\ Goto(q, "handle") /\ UNCHANGED <<reply, faults>>
     \/ /\ record # {}
        /\ Goto(q, "end") /\ Respond(q, "conflict", NoResponse)
        /\ UNCHANGED <<record, faults>>
     \* The insert fails, or it succeeds and its reply is lost.
     \/ /\ Fault
        /\ Goto(q, "end") /\ Fail(q)
        /\ \/ record = {} /\ Claim(q)
           \/ UNCHANGED record
  /\ UNCHANGED <<hash, charged>>

\* next.handle(): the response goes out before it is stored.  A handler that
\* throws has usually rolled back, but a commit whose reply is lost (P2028, a
\* dropped connection) is an exception too.
Handle(q) ==
  /\ pc[q] = "handle"
  /\ \/ /\ Goto(q, "store") /\ Respond(q, "fresh", q)
        /\ charged' = charged \cup {q}
        /\ UNCHANGED faults
     \/ Goto(q, "delete") /\ UNCHANGED <<reply, faults, charged>>
     \/ Fault /\ Goto(q, "delete") /\ charged' = charged \cup {q} /\ UNCHANGED reply
  /\ UNCHANGED <<record, hash>>

\* Mutant of Store: a response that cannot be stored gives the claim back.
StoreOrFree(q) ==
  /\ pc[q] = "store"
  /\ Goto(q, "end")
  /\ \/ record' = {[row EXCEPT !.response = q] : row \in record} /\ UNCHANGED faults
     \/ Fault /\ record' = {}
  /\ UNCHANGED <<hash, reply, charged>>

\* tap(): an update nobody waits for; when it fails the claim stays as it is.
Store(q) ==
  /\ pc[q] = "store"
  /\ Goto(q, "end")
  /\ \/ record' = {[row EXCEPT !.response = q] : row \in record} /\ UNCHANGED faults
     \/ Fault /\ UNCHANGED record
  /\ UNCHANGED <<hash, reply, charged>>

\* catchError(): give the claim back, then rethrow.
Delete(q) ==
  /\ pc[q] = "delete"
  /\ Goto(q, "end") /\ Fail(q)
  /\ \/ record' = {} /\ UNCHANGED faults
     \/ Fault /\ UNCHANGED record
  /\ UNCHANGED <<hash, charged>>

-------------------------------------------------------------------------------
(* Crashes, the TTL and the nightly purge *)

\* Requests in progress; none is still alive 24 hours after its claim.
Alive == {q \in Requests : pc[q] \in {"create", "handle", "store", "delete"}}

\* The process dies, before or after the handler's transaction committed.
Crash(q) ==
  /\ q \in Alive
  /\ Fault
  /\ Goto(q, "end")
  /\ charged' = charged \/ (pc[q] = "handle" /\ charged' = charged \cup {q})
  /\ UNCHANGED <<record, hash, reply>>

Expire ==
  /\ Alive = {}
  /\ \E row \in record : ~row.expired
  /\ record' = {[row EXCEPT !.expired = TRUE] : row \in record}
  /\ UNCHANGED <<hash, pc, reply, faults, charged>>

\* Mutant of Purge: only completed records are purged.
PurgeCompleted ==
  LET expired == {row \in record : row.expired /\ row.response # NoResponse} IN
  /\ expired # {}
  /\ record' = record \ expired
  /\ charged' = {}
  /\ UNCHANGED <<hash, pc, reply, faults>>

\* purgeExpired: from here on the key is new again.
Purge ==
  LET expired == {row \in record : row.expired} IN
  /\ expired # {}
  /\ record' = record \ expired
  /\ charged' = {}
  /\ UNCHANGED <<hash, pc, reply, faults>>

-------------------------------------------------------------------------------

Intercept(q) == Lookup(q) \/ Create(q) \/ Handle(q) \/ Store(q) \/ Delete(q)

Next ==
  \/ \E q \in Requests : Intercept(q) \/ Crash(q)
  \/ Expire \/ Purge

\* Handlers come back, time passes and the nightly job runs.
Fairness ==
  /\ \A q \in Requests : WF_vars(pc[q] # "start" /\ Intercept(q))
  /\ WF_vars(Expire)
  /\ WF_vars(Purge)

Spec == Init /\ [][Next]_vars /\ Fairness

-------------------------------------------------------------------------------
(* Properties *)

\* "It can never reach the handler a second time": between the claim and its
\* settlement no other request with the key is past the interceptor.
OneHandlerAtATime ==
  Cardinality({q \in Requests : pc[q] \in {"handle", "store", "delete"}}) <= 1

\* The requests, as those of IdempotentKey.
K == INSTANCE IdempotentKey WITH
       holder <- {q \in Requests : pc[q] \in {"handle", "store", "delete"}},
       answered <- {q \in charged : reply[q].kind = "fresh"}

\* Lookups, claims, lost writes, crashes, the TTL and the purge together are a key
\* that one request has at a time, and that none gets once a client was answered.
RefinesKey == K!Spec

\* A replay hands out the answer that the key gave in its present life, never one
\* whose claim was given back or whose record was purged, and only to a request of the
\* same method, url and body.  The key and the hash are all that is compared: a caller
\* who sends both gets the answer, also one of another user or organisation.
ReplaysTheAnswer ==
  [][\A q \in Requests : reply'[q].kind = "replay" /\ reply[q].kind # "replay" =>
       LET first == reply'[q].from IN
       first \in charged /\ reply[first].kind = "fresh" /\ hash[first] = hash[q]]_vars

\* Once a request with the key was answered, no later one takes effect until the
\* record expires: whatever was lost, an answered client is charged once.
AnsweredOnce ==
  \A q \in charged : reply[q].kind = "fresh" =>
    /\ \A r \in charged : reply[r].kind = "fresh" => r = q
    /\ Alive \subseteq {q} \cup {r \in Requests : pc[r] = "create"}
    /\ record # {}

\* A claim nobody will complete does not block its key forever.
ClaimsAreFreed ==
  (\E row \in record : row.response = NoResponse)
    ~> ~(\E row \in record : row.response = NoResponse)

\* "Same Idempotency-Key twice -> not charged twice" (ai-query.controller.ts).
NotChargedTwice == Cardinality(charged) <= 1
================================================================================
