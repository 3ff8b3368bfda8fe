-------------------------------- MODULE Outbox --------------------------------
(***************************************************************************)
(* The transactional outbox (src/infrastructure/outbox): commands append   *)
(* rows, each replica's poll() claims a batch in order of created_at,      *)
(* publishes the rows one by one under the aggregate id as partition key,  *)
(* and marks each.  The loop itself is OutboxPublisher of shared-kernel;   *)
(* the comments around its wiring say what it does with a row that fails:  *)
(* mark it, swallow the error and go on with the next.  Only the Kafka     *)
(* transport is wired, so one log stands for the broker.                   *)
(***************************************************************************)
EXTENDS Naturals, Sequences, FiniteSets, SequencesExt

CONSTANTS
  Streams,      \* aggregate ids: the partition keys
  Publishers,   \* replicas running PollingPublisherService
  BatchSize,    \* env.outboxPollBatchSize
  MaxAttempts,  \* env.outboxMaxAttempts
  Stamps,       \* what the writers' clocks may show, in milliseconds
  MaxRows,      \* bound: rows appended altogether
  MaxFaults     \* bound: crashes, failed queries and failed publishes

ASSUME OutboxAssumption ==
  /\ BatchSize \in Nat \ {0}
  /\ MaxAttempts \in Nat \ {0}
  /\ Stamps \subseteq Nat
  /\ MaxRows \in Nat
  /\ MaxFaults \in Nat

VARIABLES
  rows,     \* outbox_events in the order of their commits
  stale,    \* indices of rows whose claimed_at is older than the claim timeout
  job,      \* replica -> its poll(): where it is and the rows still to publish
  up,       \* replicas that are running
  log,      \* the broker: indices of the rows it got, in order of first arrival
  again,    \* rows the broker got more than once
  faults,   \* faults so far
  retried,  \* history: rows that went back from INFLIGHT to PENDING
  claimers  \* history: replicas that ever claimed a batch

ovars == <<rows, stale, job, up, log, again, faults, retried, claimers>>

-------------------------------------------------------------------------------

RowStatus == {"PENDING", "INFLIGHT", "PROCESSED", "FAILED_DLQ", "PURGED"}

OutboxEvent == [stream : Streams, created_at : Stamps, status : RowStatus, attempts : Nat]

Index == 1 .. MaxRows

Job == [step : {"idle", "claimed", "publish", "sent", "failed"},
        todo : Seq([row : Index, attempts : Nat])]

TypeOK ==
  /\ rows \in Seq(OutboxEvent) /\ Len(rows) <= MaxRows
  /\ stale \subseteq {i \in DOMAIN rows : rows[i].status = "INFLIGHT"}
  /\ job \in [Publishers -> Job]
  /\ \A p \in Publishers : job[p].todo = <<>> <=> job[p].step = "idle"
  /\ up \subseteq Publishers
  /\ log \in Seq(DOMAIN rows) /\ IsInjective(log)
  /\ again \subseteq Range(log)
  /\ faults \in 0 .. MaxFaults
  /\ retried \subseteq DOMAIN rows
  /\ claimers \subseteq Publishers

Idle == [step |-> "idle", todo |-> <<>>]

Init ==
  /\ rows = <<>>
  /\ stale = {}
  /\ job = [p \in Publishers |-> Idle]
  /\ up = Publishers
  /\ log = <<>>
  /\ again = {}
  /\ faults = 0
  /\ retried = {}
  /\ claimers = {}

Fault == faults < MaxFaults /\ faults' = faults + 1

\* append(): the row commits with the state change it announces.  Its created_at was
\* set before that, by the clock of its writer: rows may commit in another order
\* than they are stamped, and share a stamp.
AppendRow(k) ==
  /\ Len(rows) < MaxRows
  /\ \E now \in Stamps :
       rows' = Append(rows, [stream |-> k, created_at |-> now,
                             status |-> "PENDING", attempts |-> 0])
  /\ UNCHANGED <<stale, job, up, log, again, faults, retried, claimers>>

-------------------------------------------------------------------------------
(* poll() *)

\* Every row of the set gets the status.
SetAll(indices, status) ==
  rows' = [i \in DOMAIN rows |-> IF i \in indices THEN [rows[i] EXCEPT !.status = status] ELSE rows[i]]

CreatedAt(i) == rows[i].created_at

\* ORDER BY created_at LIMIT: the batch is in order, and leaves a row out only when
\* it is full of rows no younger.  Rows of one millisecond come in any order.
IsOldest(batch, claimable) ==
  /\ IsInjective(batch)
  /\ \A m, n \in DOMAIN batch : m < n => CreatedAt(batch[m]) <= CreatedAt(batch[n])
  /\ \A i \in claimable \ Range(batch) :
       Len(batch) = BatchSize /\ \A n \in DOMAIN batch : CreatedAt(batch[n]) <= CreatedAt(i)

\* Claim a batch of the rows with these statuses for p.
Take(p, statuses) ==
  LET claimable == {i \in DOMAIN rows : rows[i].status \in statuses} IN
  \E size \in 1 .. BatchSize : \E batch \in [1 .. size -> claimable] :
    /\ IsOldest(batch, claimable)
    /\ SetAll(Range(batch), "INFLIGHT")
    /\ job' = [job EXCEPT ![p] = [step |-> "claimed",
                 todo |-> [n \in DOMAIN batch |-> [row |-> batch[n], attempts |-> 0]]]]
    /\ claimers' = claimers \cup {p}

\* Mutant of Claim: rows another replica is publishing are claimed again.
ClaimInflight(p) ==
  /\ p \in up
  /\ job[p] = Idle
  /\ Take(p, {"PENDING", "INFLIGHT"})
  /\ UNCHANGED <<stale, up, log, again, faults, retried>>

\* claimPendingBatch, first statement.  `running` keeps a replica to one poll.
Claim(p) ==
  /\ p \in up
  /\ job[p] = Idle
  /\ Take(p, {"PENDING"})
  /\ UNCHANGED <<stale, up, log, again, faults, retried>>

\* Mutant of Fetch: the rows come back in the order of the UPDATE, which has none.
FetchReversed(p) ==
  /\ job[p].step = "claimed"
  /\ job' = [job EXCEPT ![p] = [step |-> "publish",
               todo |-> [n \in DOMAIN @.todo |->
                           [row |-> Reverse(@.todo)[n].row,
                            attempts |-> rows[Reverse(@.todo)[n].row].attempts]]]]
  /\ UNCHANGED <<rows, stale, up, log, again, faults, retried, claimers>>

\* Second statement: read the claimed rows back, oldest first.  How it orders the
\* rows of one millisecond is how the claim above may have ordered them.
Fetch(p) ==
  /\ job[p].step = "claimed"
  /\ job' = [job EXCEPT ![p] = [step |-> "publish",
               todo |-> [n \in DOMAIN @.todo |->
                           [row |-> @.todo[n].row, attempts |-> rows[@.todo[n].row].attempts]]]]
  /\ UNCHANGED <<rows, stale, up, log, again, faults, retried, claimers>>

\* The read fails: the tick ends and the claimed rows are nobody's.
FetchThrows(p) ==
  /\ job[p].step = "claimed"
  /\ Fault
  /\ job' = [job EXCEPT ![p] = Idle]
  /\ UNCHANGED <<rows, stale, up, log, again, retried, claimers>>

Goto(p, step) == job' = [job EXCEPT ![p].step = step]

\* The publisher is done with the first row of its batch.
NextRow(p) ==
  job' = [job EXCEPT ![p] =
            IF Len(@.todo) = 1 THEN Idle ELSE [step |-> "publish", todo |-> Tail(@.todo)]]

Sent(i) == Contains(log, i)

\* The broker gets row i.
Send(i) ==
  IF Sent(i) THEN again' = again \cup {i} /\ UNCHANGED log
  ELSE log' = Append(log, i) /\ UNCHANGED again

Publish(p) ==
  /\ job[p].step = "publish"
  /\ Send(job[p].todo[1].row)
  /\ Goto(p, "sent")
  /\ UNCHANGED <<rows, stale, up, faults, retried, claimers>>

\* Mutant of PublishThrows: a transport that throws counts as published.
PublishSwallows(p) ==
  /\ job[p].step = "publish"
  /\ Fault
  /\ Goto(p, "sent")
  /\ UNCHANGED <<rows, stale, up, log, again, retried, claimers>>

\* send() throws: the broker has the message or not.
PublishThrows(p) ==
  /\ job[p].step = "publish"
  /\ Fault
  /\ Send(job[p].todo[1].row) \/ UNCHANGED <<log, again>>
  /\ Goto(p, "failed")
  /\ UNCHANGED <<rows, stale, up, retried, claimers>>

\* Either mark sets the status and clears claimed_at, whoever holds the row now.
Mark(p, status, attempts) ==
  LET i == job[p].todo[1].row IN
  /\ rows' = [rows EXCEPT ![i].status = status, ![i].attempts = attempts]
  /\ stale' = stale \ {i}
  /\ retried' = IF status = "PENDING" THEN retried \cup {i} ELSE retried
  /\ NextRow(p)
  /\ UNCHANGED <<up, log, again, faults, claimers>>

MarkProcessed(p) ==
  /\ job[p].step = "sent"
  /\ Mark(p, "PROCESSED", rows[job[p].todo[1].row].attempts)

\* Counts from the attempts the claim read.
MarkFailed(p) ==
  LET next == job[p].todo[1].attempts + 1 IN
  /\ job[p].step = "failed"
  /\ Mark(p, IF next >= MaxAttempts THEN "FAILED_DLQ" ELSE "PENDING", next)

\* The update fails: the row counts as failed, or stays INFLIGHT and the loop goes
\* on without it, or the tick ends.
MarkThrows(p) ==
  /\ job[p].step \in {"sent", "failed"}
  /\ Fault
  /\ \/ job[p].step = "sent" /\ Goto(p, "failed")
     \/ NextRow(p)
     \/ job' = [job EXCEPT ![p] = Idle]
  /\ UNCHANGED <<rows, stale, up, log, again, retried, claimers>>

-------------------------------------------------------------------------------
(* Time, crashes, the reaper and the nightly cleanup *)

ClaimAges(i) ==
  /\ i \in DOMAIN rows
  /\ rows[i].status = "INFLIGHT"
  /\ i \notin stale
  /\ stale' = stale \cup {i}
  /\ UNCHANGED <<rows, job, up, log, again, faults, retried, claimers>>

\* Mutant of ReapStale: the timestamp is cleared but the row stays INFLIGHT.
ReapTimestampOnly ==
  /\ up # {}
  /\ stale # {}
  /\ retried' = retried \cup stale
  /\ stale' = {}
  /\ UNCHANGED <<rows, job, up, log, again, faults, claimers>>

\* reapStaleClaims(): back to PENDING, while the claimant may still be publishing.
ReapStale ==
  /\ up # {}
  /\ stale # {}
  /\ SetAll(stale, "PENDING")
  /\ retried' = retried \cup stale
  /\ stale' = {}
  /\ UNCHANGED <<job, up, log, again, faults, claimers>>

Crash(p) ==
  /\ p \in up
  /\ Fault
  /\ up' = up \ {p}
  /\ job' = [job EXCEPT ![p] = Idle]
  /\ UNCHANGED <<rows, stale, log, again, retried, claimers>>

Restart(p) ==
  /\ p \notin up
  /\ up' = up \cup {p}
  /\ UNCHANGED <<rows, stale, job, log, again, faults, retried, claimers>>

\* Rows a running poll still has to mark.
Held == {i \in DOMAIN rows : \E p \in Publishers : \E n \in DOMAIN job[p].todo : job[p].todo[n].row = i}

\* purgeProcessed(): rows processed many days ago, which no poll still holds.
Purge ==
  LET old == {i \in DOMAIN rows \ Held : rows[i].status = "PROCESSED"} IN
  /\ old # {}
  /\ SetAll(old, "PURGED")
  /\ UNCHANGED <<stale, job, up, log, again, faults, retried, claimers>>

-------------------------------------------------------------------------------

Work(p) == Claim(p) \/ Fetch(p) \/ Publish(p) \/ MarkProcessed(p) \/ MarkFailed(p)

Trouble(p) == FetchThrows(p) \/ PublishThrows(p) \/ MarkThrows(p) \/ Crash(p)

Next ==
  \/ \E k \in Streams : AppendRow(k)
  \/ \E p \in Publishers : Work(p) \/ Trouble(p) \/ Restart(p)
  \/ \E i \in DOMAIN rows : ClaimAges(i)
  \/ ReapStale \/ Purge

\* The interval keeps firing, a publish comes back, time passes, the reaper runs
\* and the orchestrator restarts what crashed.
Fairness ==
  /\ \A p \in Publishers : WF_ovars(Work(p)) /\ WF_ovars(Restart(p))
  /\ \A i \in Index : WF_ovars(ClaimAges(i))
  /\ WF_ovars(ReapStale)

Spec == Init /\ [][Next]_ovars /\ Fairness

-------------------------------------------------------------------------------
(* Properties *)

\* At least once: a row the outbox considers done, and may delete, has reached
\* the broker, whichever claimant marked it after whatever retries.
ProcessedMeansPublished ==
  \A i \in DOMAIN rows : rows[i].status \in {"PROCESSED", "PURGED"} => Sent(i)

\* The rows, as the facts of EventLog.
L == INSTANCE EventLog WITH
       written <- [i \in DOMAIN rows |-> rows[i].stream],
       arrived <- log,
       done <- {i \in DOMAIN rows : rows[i].status \in {"PROCESSED", "PURGED"}},
       gone <- {i \in DOMAIN rows : rows[i].status = "PURGED"}

\* Claims, batches, retries, lost marks and late claimants together are a log of
\* facts that arrive in some order and are deleted only after they arrived.
RefinesLog == L!Spec

\* Redelivery has a reason: the broker sees a row twice only if its claim had
\* been returned to PENDING, by a failed publish or by the reaper.
RedeliveredOnlyAfterRetry == again \subseteq retried

\* Row i was committed before row j, and stamped before it.
Before(i, j) == i < j /\ CreatedAt(i) < CreatedAt(j)

\* Events of one stream first reach the broker in the order they were written,
\* where the stamps of their rows show it.
PerStreamOrder ==
  \A i, j \in DOMAIN rows : Before(i, j) /\ rows[i].stream = rows[j].stream =>
    \A n \in DOMAIN log : log[n] = j => \E m \in 1 .. n : log[m] = i

\* Order holds as long as nothing went wrong and one replica did the publishing, for
\* rows whose stamps agree with the order of their commits: claim order, batch order
\* and awaited publishes together keep it, and the reaper returning a claim under a
\* slow but living publisher does not break it.  Overlapping writers, skewed clocks
\* and two rows in one millisecond are outside it: they are delivered in either order.
OrderedUntilFault == faults = 0 /\ Cardinality(claimers) <= 1 => PerStreamOrder

\* Nothing is lost: every appended row reaches the broker, or is kept in
\* FAILED_DLQ for a human.
EveryRowIsAccountedFor ==
  \A i \in Index :
    (i \in DOMAIN rows) ~> (i \in DOMAIN rows /\ (Sent(i) \/ rows[i].status = "FAILED_DLQ"))
===============================================================================
