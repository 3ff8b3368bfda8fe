--------------------------- MODULE SagaCompensation ---------------------------
(***************************************************************************)
(* The durable retry of saga compensations                                 *)
(* (src/infrastructure/saga-compensation).  CommandBus.runSaga records a   *)
(* row for every compensation that fails in process; each replica polls:   *)
(* it claims the PENDING rows, runs them one after the other and marks     *)
(* them.  A claim is a status and a timestamp, nothing more: reapStale     *)
(* hands an old claim to somebody else while its holder may still be at    *)
(* work, and neither mark checks that the row is still the marker's.       *)
(***************************************************************************)
EXTENDS Naturals, FiniteSets

CONSTANTS
  Rows,         \* saga_compensations ids
  Reapers,      \* replicas running SagaCompensationReaperService
  MaxAttempts,  \* env.sagaCompensationMaxAttempts
  MaxFaults     \* bound: crashes and database failures that can still happen

ASSUME CompensationAssumption ==
  /\ MaxAttempts \in Nat \ {0}
  /\ MaxFaults \in Nat

VARIABLES
  status,    \* row -> its status column
  attempts,  \* row -> its attempts column
  stale,     \* rows whose claimedAt is older than the claim timeout
  batch,     \* replica -> the rows its poll() still has to mark
  up,        \* replicas that are running
  faults,    \* faults so far
  threw,     \* history: row -> failed tries so far, by whomever
  reaped     \* history: rows whose claim was taken away at least once

cvars == <<status, attempts, stale, batch, up, faults, threw, reaped>>

-------------------------------------------------------------------------------

RowStatus == {"ABSENT", "PENDING", "INFLIGHT", "DONE", "FAILED_DLQ", "PURGED"}

\* A claimed row, the attempts poll() read for it, and how far the poll is with it.
Claim == [row : Rows, attempts : Nat,
          phase : {"claimed", "fetched", "ran", "threw"}]

TypeOK ==
  /\ status \in [Rows -> RowStatus]
  /\ attempts \in [Rows -> Nat]
  /\ stale \subseteq {i \in Rows : status[i] = "INFLIGHT"}
  /\ batch \in [Reapers -> SUBSET Claim]
  /\ up \subseteq Reapers
  /\ faults \in 0 .. MaxFaults
  /\ threw \in [Rows -> Nat]
  /\ reaped \subseteq Rows

Init ==
  /\ status = [i \in Rows |-> "ABSENT"]
  /\ attempts = [i \in Rows |-> 0]
  /\ stale = {}
  /\ batch = [p \in Reapers |-> {}]
  /\ up = Reapers
  /\ faults = 0
  /\ threw = [i \in Rows |-> 0]
  /\ reaped = {}

Fault == faults < MaxFaults /\ faults' = faults + 1

\* One more failed try of row i.
Failed(i) == [threw EXCEPT ![i] = @ + 1]

\* Every write of the status column but the claim itself clears claimedAt.
SetStatus(i, s) ==
  /\ status' = [status EXCEPT ![i] = s]
  /\ stale' = stale \ {i}

-------------------------------------------------------------------------------
(* The saga's side *)

RecordFailed(i) ==
  /\ status[i] = "ABSENT"
  /\ status' = [status EXCEPT ![i] = "PENDING"]
  /\ UNCHANGED <<attempts, stale, batch, up, faults, threw, reaped>>

-------------------------------------------------------------------------------
(* poll() *)

\* Mutant of Poll: the claim takes whatever is not finished.
PollUnfinished(p) ==
  LET rows == {i \in Rows : status[i] \in {"PENDING", "INFLIGHT"}} IN
  /\ p \in up
  /\ batch[p] = {}
  /\ rows # {}
  /\ status' = [i \in Rows |-> IF i \in rows THEN "INFLIGHT" ELSE status[i]]
  /\ batch' = [batch EXCEPT ![p] = {[row |-> i, attempts |-> 0, phase |-> "claimed"] : i \in rows}]
  /\ UNCHANGED <<attempts, stale, up, faults, threw, reaped>>

\* claimPendingBatch, first statement: UPDATE ... FOR UPDATE SKIP LOCKED, so no
\* two replicas claim the same row.  The batch is larger than the model's rows.
Poll(p) ==
  LET rows == {i \in Rows : status[i] = "PENDING"} IN
  /\ p \in up
  /\ batch[p] = {}
  /\ rows # {}
  /\ status' = [i \in Rows |-> IF i \in rows THEN "INFLIGHT" ELSE status[i]]
  /\ batch' = [batch EXCEPT ![p] = {[row |-> i, attempts |-> 0, phase |-> "claimed"] : i \in rows}]
  /\ UNCHANGED <<attempts, stale, up, faults, threw, reaped>>

Claimed(p) == \E c \in batch[p] : c.phase = "claimed"

\* claimPendingBatch, second statement: read the claimed rows back, with the
\* attempts column as it is by then.
Fetch(p) ==
  /\ Claimed(p)
  /\ batch' = [batch EXCEPT ![p] =
                 {[c EXCEPT !.attempts = attempts[c.row], !.phase = "fetched"] : c \in @}]
  /\ UNCHANGED <<status, attempts, stale, up, faults, threw, reaped>>

\* The read fails and the tick ends: the rows stay claimed by nobody.
FetchThrows(p) ==
  /\ Claimed(p)
  /\ Fault
  /\ batch' = [batch EXCEPT ![p] = {}]
  /\ UNCHANGED <<status, attempts, stale, up, threw, reaped>>

\* The row the loop is at, if it is past the runner.
Current(p) == {c \in batch[p] : c.phase \in {"ran", "threw"}}

\* The runner returns, or throws: in between it may or may not have taken effect.
Run(p, c, phase) ==
  /\ c \in batch[p]
  /\ c.phase = "fetched"
  /\ Current(p) = {}
  /\ batch' = [batch EXCEPT ![p] = (@ \ {c}) \cup {[c EXCEPT !.phase = phase]}]
  /\ threw' = IF phase = "threw" THEN Failed(c.row) ELSE threw
  /\ UNCHANGED <<status, attempts, stale, up, faults, reaped>>

MarkProcessed(p, c) ==
  /\ c \in batch[p]
  /\ c.phase = "ran"
  /\ SetStatus(c.row, "DONE")
  /\ batch' = [batch EXCEPT ![p] = @ \ {c}]
  /\ UNCHANGED <<attempts, up, faults, threw, reaped>>

\* The update fails: the catch block treats the row like one whose runner threw.
MarkProcessedThrows(p, c) ==
  /\ c \in batch[p]
  /\ c.phase = "ran"
  /\ Fault
  /\ batch' = [batch EXCEPT ![p] = (@ \ {c}) \cup {[c EXCEPT !.phase = "threw"]}]
  /\ threw' = Failed(c.row)
  /\ UNCHANGED <<status, attempts, stale, up, reaped>>

\* Mutant of MarkFailed: the limit is compared one try too early.
MarkFailedEarly(p, c) ==
  LET next == c.attempts + 1 IN
  /\ c \in batch[p]
  /\ c.phase = "threw"
  /\ SetStatus(c.row, IF next + 1 >= MaxAttempts THEN "FAILED_DLQ" ELSE "PENDING")
  /\ attempts' = [attempts EXCEPT ![c.row] = next]
  /\ batch' = [batch EXCEPT ![p] = @ \ {c}]
  /\ UNCHANGED <<up, faults, threw, reaped>>

\* Counts from the attempts the claim read, not from the row's present column.
MarkFailed(p, c) ==
  LET next == c.attempts + 1 IN
  /\ c \in batch[p]
  /\ c.phase = "threw"
  /\ SetStatus(c.row, IF next >= MaxAttempts THEN "FAILED_DLQ" ELSE "PENDING")
  /\ attempts' = [attempts EXCEPT ![c.row] = next]
  /\ batch' = [batch EXCEPT ![p] = @ \ {c}]
  /\ UNCHANGED <<up, faults, threw, reaped>>

\* The update in the catch block fails and the exception leaves the loop: this
\* row and the rows behind it stay INFLIGHT with nobody at work on them.
MarkFailedThrows(p, c) ==
  /\ c \in batch[p]
  /\ c.phase = "threw"
  /\ Fault
  /\ batch' = [batch EXCEPT ![p] = {}]
  /\ UNCHANGED <<status, attempts, stale, up, threw, reaped>>

-------------------------------------------------------------------------------
(* Time, crashes and the nightly purge *)

ClaimAges(i) ==
  /\ status[i] = "INFLIGHT"
  /\ i \notin stale
  /\ stale' = stale \cup {i}
  /\ UNCHANGED <<status, attempts, batch, up, faults, threw, reaped>>

\* Mutant of ReapStale: the claim is dropped but the row stays INFLIGHT.
ReapClaimOnly ==
  /\ up # {}
  /\ stale # {}
  /\ stale' = {}
  /\ reaped' = reaped \cup stale
  /\ UNCHANGED <<status, attempts, batch, up, faults, threw>>

\* reapStaleClaims: one UPDATE of all stale claims, by any running replica.
ReapStale ==
  /\ up # {}
  /\ stale # {}
  /\ status' = [i \in Rows |-> IF i \in stale THEN "PENDING" ELSE status[i]]
  /\ stale' = {}
  /\ reaped' = reaped \cup stale
  /\ UNCHANGED <<attempts, batch, up, faults, threw>>

Crash(p) ==
  /\ p \in up
  /\ Fault
  /\ up' = up \ {p}
  /\ batch' = [batch EXCEPT ![p] = {}]
  /\ UNCHANGED <<status, attempts, stale, threw, reaped>>

Restart(p) ==
  /\ p \notin up
  /\ up' = up \cup {p}
  /\ UNCHANGED <<status, attempts, stale, batch, faults, threw, reaped>>

\* purgeProcessed: DONE rows of days ago, which no poll still holds.
Purge ==
  LET old == {i \in Rows : /\ status[i] = "DONE"
                           /\ \A p \in Reapers : \A c \in batch[p] : c.row # i}
  IN
  /\ old # {}
  /\ status' = [i \in Rows |-> IF i \in old THEN "PURGED" ELSE status[i]]
  /\ UNCHANGED <<attempts, stale, batch, up, faults, threw, reaped>>

-------------------------------------------------------------------------------

Mark(p, c) == MarkProcessed(p, c) \/ MarkFailed(p, c)

MarkThrows(p, c) == MarkProcessedThrows(p, c) \/ MarkFailedThrows(p, c)

Background == ReapStale \/ Purge \/ \E i \in Rows : ClaimAges(i)

Next ==
  \/ \E i \in Rows : RecordFailed(i)
  \/ \E p \in Reapers :
       \/ Poll(p) \/ Fetch(p) \/ FetchThrows(p) \/ Crash(p) \/ Restart(p)
       \/ \E c \in batch[p] :
            \/ \E phase \in {"ran", "threw"} : Run(p, c, phase)
            \/ Mark(p, c) \/ MarkThrows(p, c)
  \/ Background

\* The intervals keep firing, a runner comes back (gRPC and transactions have
\* deadlines), time passes and the orchestrator restarts what crashed.
Fairness ==
  /\ \A p \in Reapers :
       /\ WF_cvars(Poll(p) \/ Fetch(p))
       /\ WF_cvars(\E c \in batch[p] : \E phase \in {"ran", "threw"} : Run(p, c, phase))
       /\ WF_cvars(\E c \in batch[p] : Mark(p, c))
       /\ WF_cvars(Restart(p))
  /\ \A i \in Rows : WF_cvars(ClaimAges(i))
  /\ WF_cvars(ReapStale)

Spec == Init /\ [][Next]_cvars /\ Fairness

-------------------------------------------------------------------------------
(* Properties *)

Holders(i) == {p \in Reapers : \E c \in batch[p] : c.row = i}

\* Two replicas work on one row only after its claim timed out under the first.
ClaimIsExclusive ==
  \A i \in Rows : Cardinality(Holders(i)) > 1 => i \in reaped

\* No row is given up early: FAILED_DLQ takes MaxAttempts failed tries, even
\* when claimants that lost their claim keep writing the counter they read.
GivenUpOnlyAfterMaxAttempts ==
  \A i \in Rows :
    /\ attempts[i] <= threw[i]
    /\ status[i] = "FAILED_DLQ" => threw[i] >= MaxAttempts

\* Every recorded compensation comes to rest, DONE or FAILED_DLQ: claims lost to
\* crashes are reaped, and stale markers cannot reopen a row forever.
Settled(i) == status[i] \in {"DONE", "FAILED_DLQ", "PURGED"}

EveryRowSettles == \A i \in Rows : status[i] = "PENDING" ~> []Settled(i)
===============================================================================
