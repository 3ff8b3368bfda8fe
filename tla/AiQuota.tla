-------------------------------- MODULE AiQuota --------------------------------
(***************************************************************************)
(* The token bucket of one (organisation, user) in AiQuotaGuard.  Two      *)
(* statements, each a transaction of its own: insert a full bucket unless  *)
(* there is one, then refill and consume in one UPDATE.  now() is the time *)
(* at which the UPDATE began; it may then wait for the row, and PostgreSQL *)
(* evaluates SET and WHERE on the row that it finds after the wait.  So    *)
(* stamps need not arrive in order and last_refill_at can go back.         *)
(***************************************************************************)
EXTENDS Integers

CONSTANTS
  Requests,  \* connections that run the guard for this user, again and again
  Cost,      \* ticks it takes to refill one token
  Capacity,  \* env.aiQuotaCap, in tokens
  MaxTime    \* bound: the last tick of the clock

ASSUME QuotaAssumption ==
  /\ Cost \in Nat \ {0}
  /\ Capacity \in Nat \ {0}
  /\ MaxTime \in Nat

VARIABLES
  now,      \* the database server's clock
  bucket,   \* the ai_quota_buckets row: a set of at most one row
  pc,       \* request -> where consumeToken() is
  stamp,    \* request -> now() of its UPDATE
  granted,  \* history: span of ticks -> tokens consumed by UPDATEs stamped in it
  setback   \* history: ticks by which last_refill_at ever went back, in all

vars == <<now, bucket, pc, stamp, granted, setback>>

-------------------------------------------------------------------------------

Time == 0 .. MaxTime

\* All spans of ticks, first and last.
Spans == {w \in Time \X Time : w[1] <= w[2]}

\* Tokens are counted in units of what one tick refills, so a token is Cost units.
Full == Capacity * Cost

AiQuotaBucket == [tokens : 0 .. Full, lastRefillAt : Time]

TypeOK ==
  /\ now \in Time
  /\ bucket \in {{}} \cup {{row} : row \in AiQuotaBucket}
  /\ pc \in [Requests -> {"idle", "insert", "update", "wait"}]
  /\ stamp \in [Requests -> Time]
  /\ granted \in [Spans -> Nat]
  /\ setback \in Nat

Init ==
  /\ now = 0
  /\ bucket = {}
  /\ pc = [q \in Requests |-> "idle"]
  /\ stamp = [q \in Requests |-> 0]
  /\ granted = [w \in Spans |-> 0]
  /\ setback = 0

Goto(q, step) == pc' = [pc EXCEPT ![q] = step]

-------------------------------------------------------------------------------

\* canActivate() of a request whose organisation and user are known.
CanActivate(q) ==
  /\ pc[q] = "idle"
  /\ Goto(q, "insert")
  /\ UNCHANGED <<now, bucket, stamp, granted, setback>>

\* INSERT ... ON CONFLICT DO NOTHING.
InsertBucket(q) ==
  /\ pc[q] = "insert"
  /\ bucket' = IF bucket = {} THEN {[tokens |-> Full, lastRefillAt |-> now]} ELSE bucket
  /\ Goto(q, "update")
  /\ UNCHANGED <<now, stamp, granted, setback>>

\* The UPDATE begins: now() is fixed.
StartUpdate(q) ==
  /\ pc[q] = "update"
  /\ stamp' = [stamp EXCEPT ![q] = now]
  /\ Goto(q, "wait")
  /\ UNCHANGED <<now, bucket, granted, setback>>

\* Mutant of Refilled: the bucket has no brim.
RefilledWithoutCap(row, at) == row.tokens + (at - row.lastRefillAt)

\* LEAST(capacity, tokens + elapsed time): less than tokens if time went back.
Refilled(row, at) ==
  LET tokens == row.tokens + (at - row.lastRefillAt)
  IN IF tokens > Full THEN Full ELSE tokens

\* One token more in every span that holds the stamp.
Count(at) ==
  granted' = [w \in Spans |-> IF w[1] <= at /\ at <= w[2] THEN granted[w] + 1 ELSE granted[w]]

\* The UPDATE matches.  The reply may be lost; the token is spent all the same.
Consume(q) ==
  /\ pc[q] = "wait"
  /\ \E row \in bucket :
       /\ Refilled(row, stamp[q]) >= Cost
       /\ bucket' = {[tokens |-> Refilled(row, stamp[q]) - Cost, lastRefillAt |-> stamp[q]]}
       /\ Count(stamp[q])
       /\ setback' = setback + (IF stamp[q] < row.lastRefillAt THEN row.lastRefillAt - stamp[q] ELSE 0)
  /\ Goto(q, "idle")
  /\ UNCHANGED <<now, stamp>>

\* Mutant of Refuse: a refused request writes the refill and its time, too.
RefuseAndStamp(q) ==
  /\ pc[q] = "wait"
  /\ \E row \in bucket :
       /\ Refilled(row, stamp[q]) < Cost
       /\ bucket' = {[row EXCEPT !.lastRefillAt = stamp[q]]}
  /\ Goto(q, "idle")
  /\ UNCHANGED <<now, stamp, granted, setback>>

\* The WHERE clause matches no row: 429, and nothing is written.
Refuse(q) ==
  /\ pc[q] = "wait"
  /\ \E row \in bucket : Refilled(row, stamp[q]) < Cost
  /\ Goto(q, "idle")
  /\ UNCHANGED <<now, bucket, stamp, granted, setback>>

\* A statement fails, or the process dies, before the token is spent.
Abandon(q) ==
  /\ pc[q] # "idle"
  /\ Goto(q, "idle")
  /\ UNCHANGED <<now, bucket, stamp, granted, setback>>

Tick ==
  /\ now < MaxTime
  /\ now' = now + 1
  /\ UNCHANGED <<bucket, pc, stamp, granted, setback>>

ConsumeToken(q) == InsertBucket(q) \/ StartUpdate(q) \/ Consume(q) \/ Refuse(q)

Next == Tick \/ \E q \in Requests : CanActivate(q) \/ ConsumeToken(q) \/ Abandon(q)

Spec == Init /\ [][Next]_vars

-------------------------------------------------------------------------------
(* Properties *)

\* "The bucket bounds the BURST": whatever overtakes whatever, the requests let
\* through in a span of time are at most a full bucket and the refill of the span.
BurstIsBounded == \A w \in Spans : Cost * granted[w] <= Full + (w[2] - w[1])

\* Nobody is refused what is due: when a request with this stamp is refused, the
\* tokens spent in some span up to it were a full bucket and the span's refill,
\* short of the ticks that statements overtaking each other took from the refill.
Deserved(at) ==
  \E w \in Spans :
    /\ w[2] >= at
    /\ Cost * (granted[w] + 1) + (w[2] - at) + setback > Full + (w[2] - w[1])

RefusalsAreDeserved ==
  [][\A q \in Requests :
       (pc[q] = "wait" /\ Refuse(q)) => Deserved(stamp[q])]_vars
================================================================================
