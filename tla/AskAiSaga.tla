------------------------------- MODULE AskAiSaga -------------------------------
(***************************************************************************)
(* Paying for an AI answer: AskAiHandler reserves, calls RAG over gRPC and *)
(* commits, with a compensation that releases the hold, and behind it two  *)
(* safety nets: the durable compensation rows (SagaCompensation) and the   *)
(* sweeper of holds that outlived their TTL.  The wallet is the atomic one *)
(* of module Wallet, which CreditLedger implements; a dispatched command   *)
(* takes effect or not, and its caller may fail to learn which.            *)
(***************************************************************************)
EXTENDS Naturals, FiniteSets

CONSTANTS
  Sagas,        \* one AskAiCommand each, and its reservation id
  Cost,         \* env.aiQueryCreditCost
  Amounts,      \* amounts spent directly on the same wallet meanwhile
  MaxCredits,   \* bound: the wallet starts with at most this many credits
  Replicas,     \* processes running the reaper and the sweeper
  MaxAttempts,  \* env.sagaCompensationMaxAttempts
  SweepBatch,   \* LIMIT of findStaleReservations
  MaxFaults     \* bound: crashes, failed commands and lost replies

ASSUME AskAiAssumption ==
  /\ Cost \in Nat \ {0}
  /\ Amounts \subseteq Nat \ {0}
  /\ MaxCredits \in Nat
  /\ MaxAttempts \in Nat \ {0}
  /\ SweepBatch \in Nat \ {0}
  /\ MaxFaults \in Nat

VARIABLES
  balance, holds,                               \* the wallet
  status, attempts, stale, batch, up, faults,   \* the compensation rows
  threw, reaped,
  pc,      \* saga -> where its handler is
  reply,   \* saga -> the response it is about to give, or has given
  aged,    \* holds past env.aiReservationTtlMs
  sweep    \* replica -> what its sweep() still has to release

W == INSTANCE Wallet WITH Reservations <- Sagas

SC == INSTANCE SagaCompensation WITH Rows <- Sagas, Reapers <- Replicas

wallet == <<balance, holds>>
rows == <<status, attempts, stale, batch, up, threw, reaped>>
jobs == <<aged, sweep>>
vars == <<wallet, rows, faults, pc, reply, jobs>>

Handling == {"rag", "commit", "release", "undo", "record"}

TypeOK ==
  /\ balance \in 0 .. MaxCredits
  /\ holds \in [Sagas -> W!Status]
  /\ SC!TypeOK
  /\ pc \in [Sagas -> {"start", "end", "dead", "unrecorded"} \cup Handling]
  /\ reply \in [Sagas -> {"NONE", "ANSWERED", "NO_RESULTS", "AI_UNAVAILABLE",
                          "INSUFFICIENT_CREDITS", "ERROR"}]
  /\ aged \subseteq Sagas
  /\ sweep \in [Replicas -> SUBSET aged]

Init ==
  /\ balance \in 0 .. MaxCredits
  /\ holds = [s \in Sagas |-> "NONE"]
  /\ SC!Init
  /\ pc = [s \in Sagas |-> "start"]
  /\ reply = [s \in Sagas |-> "NONE"]
  /\ aged = {}
  /\ sweep = [p \in Replicas |-> {}]

-------------------------------------------------------------------------------
(* Commands, as their dispatcher sees them *)

\* ReleaseCreditReservationCommand: a no-op, not an error, unless the hold is open.
Release(s) == W!Release(s) \/ (holds[s] # "OPEN" /\ UNCHANGED wallet)

Goto(s, step) == pc' = [pc EXCEPT ![s] = step]

Answer(s, r) == reply' = [reply EXCEPT ![s] = r]

\* The command throws: it had no effect, or it committed and the reply was lost.
Throws(effect) == SC!Fault /\ (effect \/ UNCHANGED wallet)

-------------------------------------------------------------------------------
(* AskAiHandler.execute under CommandBus.runSaga *)

Reserve(s) ==
  /\ pc[s] = "start"
  /\ \/ W!Reserve(s) /\ Goto(s, "rag") /\ UNCHANGED <<reply, faults>>
     \/ /\ Cost > W!Spendable
        /\ Goto(s, "end") /\ Answer(s, "INSUFFICIENT_CREDITS")
        /\ UNCHANGED <<wallet, faults>>
     \* No compensation is registered yet, so a hold behind the error is forgotten.
     \/ Throws(W!Reserve(s)) /\ Goto(s, "unrecorded") /\ Answer(s, "ERROR")
  /\ UNCHANGED <<rows, jobs>>

\* ragQuery.query(): a status to act on, or an exception.
Query(s) ==
  /\ pc[s] = "rag"
  /\ \/ Goto(s, "commit") /\ UNCHANGED reply
     \/ Goto(s, "release") /\ UNCHANGED reply
     \/ Goto(s, "undo") /\ \E r \in {"AI_UNAVAILABLE", "ERROR"} : Answer(s, r)
  /\ UNCHANGED <<wallet, rows, faults, jobs>>

\* Mutant of Commit: the refusal of a hold that is gone is swallowed.
CommitSwallowsRefusal(s) ==
  /\ pc[s] = "commit"
  /\ \/ W!Commit(s) /\ UNCHANGED faults
     \/ holds[s] # "OPEN" /\ UNCHANGED <<wallet, faults>>
  /\ Goto(s, "end") /\ Answer(s, "ANSWERED")
  /\ UNCHANGED <<rows, jobs>>

Commit(s) ==
  /\ pc[s] = "commit"
  /\ \/ W!Commit(s) /\ Goto(s, "end") /\ Answer(s, "ANSWERED") /\ UNCHANGED faults
     \/ /\ holds[s] # "OPEN"
        /\ Goto(s, "undo") /\ Answer(s, "ERROR")
        /\ UNCHANGED <<wallet, faults>>
     \/ Throws(W!Commit(s)) /\ Goto(s, "undo") /\ Answer(s, "ERROR")
  /\ UNCHANGED <<rows, jobs>>

ReleaseNoResults(s) ==
  /\ pc[s] = "release"
  /\ \/ Release(s) /\ Goto(s, "end") /\ Answer(s, "NO_RESULTS") /\ UNCHANGED faults
     \/ Throws(Release(s)) /\ Goto(s, "undo") /\ Answer(s, "ERROR")
  /\ UNCHANGED <<rows, jobs>>

\* Mutant of Compensate: a compensation that throws is only logged.
CompensateOrLog(s) ==
  /\ pc[s] = "undo"
  /\ \/ Release(s) /\ UNCHANGED faults
     \/ Throws(Release(s))
  /\ Goto(s, "end")
  /\ UNCHANGED <<rows, reply, jobs>>

\* runSaga's catch: run the registered compensation, then rethrow.
Compensate(s) ==
  /\ pc[s] = "undo"
  /\ \/ Release(s) /\ Goto(s, "end") /\ UNCHANGED faults
     \/ Throws(Release(s)) /\ Goto(s, "record")
  /\ UNCHANGED <<rows, reply, jobs>>

\* A compensation that failed becomes a durable row, if the insert succeeds.
RecordFailed(s) ==
  /\ pc[s] = "record"
  /\ \/ SC!RecordFailed(s) /\ Goto(s, "end")
     \/ SC!Fault /\ Goto(s, "unrecorded") /\ UNCHANGED rows
  /\ UNCHANGED <<wallet, reply, jobs>>

-------------------------------------------------------------------------------
(* The jobs of a replica *)

\* Mutant of RunCompensation: the runner does not wait for the release it starts.
RunWithoutAwait(p, c) ==
  /\ SC!Run(p, c, "ran")
  /\ Release(c.row) \/ UNCHANGED wallet
  /\ UNCHANGED <<pc, reply, jobs>>

\* The registered runner executes the release again, and comes back or throws.
RunCompensation(p, c) ==
  /\ \/ SC!Run(p, c, "ran") /\ Release(c.row)
     \/ SC!Run(p, c, "threw") /\ (Release(c.row) \/ UNCHANGED wallet)
  /\ UNCHANGED <<pc, reply, jobs>>

Reaper(p) ==
  \/ \E c \in batch[p] : RunCompensation(p, c)
  \/ /\ \/ SC!Poll(p) \/ SC!Fetch(p) \/ SC!FetchThrows(p) \/ SC!Restart(p)
        \/ \E c \in batch[p] : SC!Mark(p, c) \/ SC!MarkThrows(p, c)
     /\ UNCHANGED <<wallet, pc, reply, jobs>>

HoldAges(s) ==
  /\ holds[s] = "OPEN"
  /\ s \notin aged
  /\ aged' = aged \cup {s}
  /\ UNCHANGED <<wallet, rows, faults, pc, reply, sweep>>

\* Mutant of Stale: holds with a compensation row are left to the reaper.
StaleWithoutRow == {s \in aged : holds[s] = "OPEN" /\ status[s] = "ABSENT"}

Stale == {s \in aged : holds[s] = "OPEN"}

\* findStaleReservations(): any SweepBatch of them, for the query has no ORDER BY.
SweepStart(p) ==
  /\ p \in up
  /\ sweep[p] = {}
  /\ \E found \in SUBSET Stale :
       /\ found # {}
       /\ Cardinality(found) = SweepBatch \/ (found = Stale /\ Cardinality(found) < SweepBatch)
       /\ sweep' = [sweep EXCEPT ![p] = found]
  /\ UNCHANGED <<wallet, rows, faults, pc, reply, aged>>

SweepOne(p, s) ==
  /\ s \in sweep[p]
  /\ Release(s)
  /\ sweep' = [sweep EXCEPT ![p] = @ \ {s}]
  /\ UNCHANGED <<rows, faults, pc, reply, aged>>

\* One failing row ends the pass.
SweepThrows(p, s) ==
  /\ s \in sweep[p]
  /\ Throws(Release(s))
  /\ sweep' = [sweep EXCEPT ![p] = {}]
  /\ UNCHANGED <<rows, pc, reply, aged>>

\* A replica dies, and with it the requests it was serving.
Crash(p) ==
  /\ SC!Crash(p)
  /\ sweep' = [sweep EXCEPT ![p] = {}]
  /\ \E served \in SUBSET {s \in Sagas : pc[s] \in Handling} :
       pc' = [s \in Sagas |-> IF s \in served THEN "dead" ELSE pc[s]]
  /\ UNCHANGED <<wallet, reply, aged>>

\* SpendCreditsCommand on the same wallet.
SpendCredits(a) ==
  /\ W!Spend(a)
  /\ UNCHANGED <<rows, faults, pc, reply, jobs>>

-------------------------------------------------------------------------------

Saga(s) ==
  Reserve(s) \/ Query(s) \/ Commit(s) \/ ReleaseNoResults(s) \/ Compensate(s) \/ RecordFailed(s)

Next ==
  \/ \E s \in Sagas : Saga(s) \/ HoldAges(s)
  \/ \E p \in Replicas :
       \/ Reaper(p) \/ Crash(p) \/ SweepStart(p)
       \/ \E s \in Sagas : SweepOne(p, s) \/ SweepThrows(p, s)
  \/ SC!Background /\ UNCHANGED <<wallet, pc, reply, jobs>>
  \/ \E a \in Amounts : SpendCredits(a)

\* setInterval keeps firing, holds grow old and crashed replicas come back; no
\* fairness for the sagas or the compensation rows.
Fairness ==
  /\ \A s \in Sagas : WF_vars(HoldAges(s))
  /\ \A p \in Replicas :
       /\ WF_vars(SweepStart(p))
       /\ WF_vars(\E s \in Sagas : SweepOne(p, s))
       /\ WF_vars(SC!Restart(p) /\ UNCHANGED <<wallet, pc, reply, jobs>>)

Spec == Init /\ [][Next]_vars /\ Fairness

-------------------------------------------------------------------------------
(* Properties *)

\* What the client is told is what happened to its credits: an answer is paid
\* for, "nothing found" released the hold, "AI unavailable" ("you were not
\* charged") never becomes a charge, "insufficient credits" never held anything.
RepliesAreHonest ==
  \A s \in Sagas :
    /\ reply[s] = "ANSWERED" => holds[s] = "COMMITTED"
    /\ reply[s] = "NO_RESULTS" => holds[s] = "RELEASED"
    /\ reply[s] = "AI_UNAVAILABLE" => holds[s] # "COMMITTED"
    /\ reply[s] = "INSUFFICIENT_CREDITS" => holds[s] = "NONE"

\* A hold still open after its saga ran to its end is on record: some row will
\* retry the release, or is kept in FAILED_DLQ for a human.
OpenHoldIsOnRecord ==
  \A s \in Sagas :
    holds[s] = "OPEN" /\ pc[s] = "end" => status[s] \in {"PENDING", "INFLIGHT", "FAILED_DLQ"}

\* A compensation marked DONE has released the hold, whichever claimant marked
\* it and however often the row went round before.
DoneMeansSettled ==
  \A s \in Sagas : status[s] \in {"DONE", "PURGED"} => holds[s] # "OPEN"

\* No credit stays locked: every open hold is settled in the end, even when the
\* reserve's reply, the process or the compensation row was lost.
EveryHoldSettles == \A s \in Sagas : holds[s] = "OPEN" ~> holds[s] # "OPEN"
================================================================================
