----------------------------- MODULE AskAiSagaProofs ---------------------------
(***************************************************************************)
(* The safety of AskAiSaga for any number of sagas and replicas, any price *)
(* and limits, and any number of faults.                                   *)
(***************************************************************************)
EXTENDS AskAiSaga, FiniteSetTheorems, TLAPS

Open == {s \in Sagas : holds[s] = "OPEN"}

\* The wallet owns what its open holds claim.
HoldsAreFunded == IsFiniteSet(Open) /\ Cost * Cardinality(Open) <= balance

TypeInv == TypeOK /\ HoldsAreFunded

\* A step of the reaper, or of somebody else who may have used up a fault.
ReaperStep == SC!Next \/ (UNCHANGED rows /\ (SC!Fault \/ UNCHANGED faults))

ClaimsAreOnRecord == \A p \in Replicas : \A c \in batch[p] : status[c.row] # "ABSENT"

\* What a runner came back from is settled.
RanMeansSettled ==
  /\ \A p \in Replicas : \A c \in batch[p] : c.phase = "ran" => holds[c.row] # "OPEN"
  /\ \A s \in Sagas : status[s] \in {"DONE", "PURGED"} => holds[s] # "OPEN"

\* Where a saga is, and what that says of its hold, its reply and its row.
Honest(s) ==
  /\ reply[s] = "ANSWERED" => holds[s] = "COMMITTED"
  /\ reply[s] = "NO_RESULTS" => holds[s] = "RELEASED"
  /\ reply[s] = "AI_UNAVAILABLE" => holds[s] # "COMMITTED"
  /\ reply[s] = "INSUFFICIENT_CREDITS" => holds[s] = "NONE"

SagaInv(s) ==
  /\ pc[s] = "start" => holds[s] = "NONE" /\ status[s] = "ABSENT"
  /\ pc[s] \in {"start", "rag", "commit", "release"} =>
       holds[s] # "COMMITTED" /\ reply[s] = "NONE"
  /\ pc[s] \in Handling => holds[s] # "NONE"
  /\ pc[s] = "end" /\ holds[s] = "OPEN" => status[s] # "ABSENT"
  /\ Honest(s)

AskAiInv ==
  /\ TypeInv
  /\ ClaimsAreOnRecord
  /\ RanMeansSettled
  /\ \A s \in Sagas : SagaInv(s)

-------------------------------------------------------------------------------
(* The rows and the claims, as the reaper's steps change them *)

LEMMA PollTypes ==
  ASSUME SC!TypeOK, NEW p \in Replicas, SC!Poll(p)
  PROVE  SC!TypeOK'
<1>1. \A i \in Sagas : [row |-> i, attempts |-> 0, phase |-> "claimed"] \in SC!Claim
  BY DEF SC!Claim
<1>2. batch' \in [Replicas -> SUBSET SC!Claim]
  BY <1>1 DEF SC!Poll, SC!TypeOK
<1>3. status' \in [Sagas -> SC!RowStatus] /\ stale' \subseteq {i \in Sagas : status'[i] = "INFLIGHT"}
  BY DEF SC!Poll, SC!TypeOK, SC!RowStatus
<1> QED
  BY <1>2, <1>3 DEF SC!Poll, SC!TypeOK

LEMMA FetchTypes ==
  ASSUME SC!TypeOK, NEW p \in Replicas, SC!Fetch(p)
  PROVE  SC!TypeOK'
<1>1. \A c \in batch[p] : [c EXCEPT !.attempts = attempts[c.row], !.phase = "fetched"] \in SC!Claim
  <2> TAKE c \in batch[p]
  <2>1. c \in SC!Claim /\ attempts[c.row] \in Nat
    BY DEF SC!TypeOK, SC!Claim
  <2> QED
    BY <2>1 DEF SC!Claim
<1>2. batch' \in [Replicas -> SUBSET SC!Claim]
  BY <1>1 DEF SC!Fetch, SC!TypeOK
<1> QED
  BY <1>2 DEF SC!Fetch, SC!TypeOK

\* The runner's return and the failure of a mark change one claim and no row.
LEMMA RunTypes ==
  ASSUME SC!TypeOK, NEW p \in Replicas, NEW c \in batch[p],
         \/ \E phase \in {"ran", "threw"} : SC!Run(p, c, phase)
         \/ SC!MarkProcessedThrows(p, c)
  PROVE  SC!TypeOK'
<1>1. c \in SC!Claim
  BY DEF SC!TypeOK
<1>2. threw' \in [Sagas -> Nat]
  BY <1>1 DEF SC!Run, SC!MarkProcessedThrows, SC!Failed, SC!TypeOK, SC!Claim
<1>3. batch' \in [Replicas -> SUBSET SC!Claim]
  <2>1. ASSUME NEW phase \in {"ran", "threw"}
        PROVE  (batch[p] \ {c}) \cup {[c EXCEPT !.phase = phase]} \in SUBSET SC!Claim
    <3>1. [c EXCEPT !.phase = phase] \in SC!Claim
      BY <1>1 DEF SC!Claim
    <3> QED
      BY <3>1 DEF SC!TypeOK
  <2> QED
    BY <2>1 DEF SC!Run, SC!MarkProcessedThrows, SC!TypeOK
<1>4. faults' \in 0 .. MaxFaults
  BY AskAiAssumption DEF SC!Run, SC!MarkProcessedThrows, SC!Fault, SC!TypeOK
<1> QED
  BY <1>2, <1>3, <1>4 DEF SC!Run, SC!MarkProcessedThrows, SC!TypeOK

LEMMA MarkTypes ==
  ASSUME SC!TypeOK, NEW p \in Replicas, NEW c \in batch[p], SC!Mark(p, c)
  PROVE  SC!TypeOK'
<1>1. c \in SC!Claim /\ c.row \in Sagas /\ c.attempts + 1 \in Nat
  BY DEF SC!TypeOK, SC!Claim
<1>2. ASSUME NEW s \in SC!RowStatus, SC!SetStatus(c.row, s)
      PROVE  status' \in [Sagas -> SC!RowStatus] /\ stale' \subseteq {i \in Sagas : status'[i] = "INFLIGHT"}
  BY <1>1, <1>2 DEF SC!SetStatus, SC!TypeOK
<1>3. status' \in [Sagas -> SC!RowStatus] /\ stale' \subseteq {i \in Sagas : status'[i] = "INFLIGHT"}
  BY <1>2 DEF SC!Mark, SC!MarkProcessed, SC!MarkFailed, SC!RowStatus
<1>4. attempts' \in [Sagas -> Nat]
  BY <1>1 DEF SC!Mark, SC!MarkProcessed, SC!MarkFailed, SC!TypeOK
<1> QED
  BY <1>3, <1>4 DEF SC!Mark, SC!MarkProcessed, SC!MarkFailed, SC!TypeOK

LEMMA CompensationTypeNext ==
  ASSUME SC!TypeOK, ReaperStep
  PROVE  SC!TypeOK'
<1>1. ASSUME NEW i \in Sagas, SC!RecordFailed(i) PROVE SC!TypeOK'
  BY <1>1 DEF SC!RecordFailed, SC!TypeOK, SC!RowStatus
<1>2. ASSUME NEW p \in Replicas, SC!FetchThrows(p) \/ SC!Crash(p) \/ SC!Restart(p) PROVE SC!TypeOK'
  BY <1>2, AskAiAssumption DEF SC!FetchThrows, SC!Crash, SC!Restart, SC!Fault, SC!TypeOK
<1>3. ASSUME NEW p \in Replicas, NEW c \in batch[p], SC!MarkFailedThrows(p, c) PROVE SC!TypeOK'
  BY <1>3, AskAiAssumption DEF SC!MarkFailedThrows, SC!Fault, SC!TypeOK
<1>4. ASSUME NEW i \in Sagas, SC!ClaimAges(i) PROVE SC!TypeOK'
  BY <1>4 DEF SC!ClaimAges, SC!TypeOK
<1>5. ASSUME SC!ReapStale \/ SC!Purge PROVE SC!TypeOK'
  BY <1>5 DEF SC!ReapStale, SC!Purge, SC!TypeOK, SC!RowStatus
<1>6. ASSUME UNCHANGED rows /\ (SC!Fault \/ UNCHANGED faults) PROVE SC!TypeOK'
  BY <1>6, AskAiAssumption DEF rows, SC!Fault, SC!TypeOK
<1> QED
  BY <1>1, <1>2, <1>3, <1>4, <1>5, <1>6, PollTypes, FetchTypes, RunTypes, MarkTypes
     DEF ReaperStep, SC!Next, SC!Background, SC!MarkThrows

\* What the jobs leave of the rows and claims, whoever does them.
LEMMA JobsOnRows ==
  ASSUME SC!TypeOK, ClaimsAreOnRecord,
         \/ \E p \in Replicas :
              \/ SC!Poll(p) \/ SC!Fetch(p) \/ SC!FetchThrows(p) \/ SC!Crash(p) \/ SC!Restart(p)
              \/ \E c \in batch[p] : SC!Run(p, c, "threw") \/ SC!Mark(p, c) \/ SC!MarkThrows(p, c)
         \/ SC!Background
  PROVE  /\ \A row \in Sagas : status'[row] = "ABSENT" <=> status[row] = "ABSENT"
         /\ \A row \in Sagas : status'[row] \in {"DONE", "PURGED"} =>
              \/ status[row] \in {"DONE", "PURGED"}
              \/ \E p \in Replicas : \E c \in batch[p] : c.row = row /\ c.phase = "ran"
         /\ \A p \in Replicas : \A d \in batch'[p] :
              /\ status'[d.row] # "ABSENT"
              /\ d.phase = "ran" => \E c \in batch[p] : c.row = d.row /\ c.phase = "ran"
<1> DEFINE Rowwise ==
             /\ \A row \in Sagas : status'[row] = "ABSENT" <=> status[row] = "ABSENT"
             /\ \A row \in Sagas : status'[row] \in {"DONE", "PURGED"} =>
                  \/ status[row] \in {"DONE", "PURGED"}
                  \/ \E p \in Replicas : \E c \in batch[p] : c.row = row /\ c.phase = "ran"
           Claimwise ==
             \A p \in Replicas : \A d \in batch'[p] :
               /\ d.row \in Sagas /\ status[d.row] # "ABSENT"
               /\ d.phase = "ran" => \E c \in batch[p] : c.row = d.row /\ c.phase = "ran"
<1>1. \A p \in Replicas : \A c \in batch[p] : c \in SC!Claim /\ c.row \in Sagas /\ status[c.row] # "ABSENT"
  BY DEF ClaimsAreOnRecord, SC!TypeOK, SC!Claim
<1>2. ASSUME NEW p \in Replicas, SC!Poll(p) PROVE Rowwise /\ Claimwise
  <2>1. Rowwise
    BY <1>2 DEF SC!Poll
  <2>2. Claimwise
    BY <1>1, <1>2 DEF SC!Poll, SC!TypeOK
  <2> QED
    BY <2>1, <2>2
<1>3. ASSUME NEW p \in Replicas, SC!Fetch(p) PROVE Rowwise /\ Claimwise
  <2> DEFINE fetched(c) == [c EXCEPT !.attempts = attempts[c.row], !.phase = "fetched"]
  <2>1. \A c \in batch[p] : fetched(c).row = c.row /\ fetched(c).phase = "fetched"
    BY <1>1 DEF SC!Claim
  <2>2. Claimwise
    <3>1. /\ batch'[p] = {fetched(c) : c \in batch[p]}
          /\ \A q \in Replicas \ {p} : batch'[q] = batch[q]
      BY <1>3 DEF SC!Fetch, SC!TypeOK
    <3> HIDE DEF fetched
    <3> QED
      BY <1>1, <2>1, <3>1
  <2> QED
    BY <1>3, <2>2 DEF SC!Fetch
<1>4. ASSUME NEW p \in Replicas, NEW c \in batch[p], SC!Run(p, c, "threw") \/ SC!MarkProcessedThrows(p, c)
      PROVE  Rowwise /\ Claimwise
  <2>1. [c EXCEPT !.phase = "threw"].row = c.row /\ [c EXCEPT !.phase = "threw"].phase = "threw"
    BY <1>1 DEF SC!Claim
  <2>2. /\ status' = status
        /\ batch' = [batch EXCEPT ![p] = (@ \ {c}) \cup {[c EXCEPT !.phase = "threw"]}]
    BY <1>4 DEF SC!Run, SC!MarkProcessedThrows
  <2>3. Claimwise
    BY <1>1, <2>1, <2>2 DEF SC!TypeOK
  <2> QED
    BY <2>2, <2>3
<1>5. ASSUME NEW p \in Replicas, NEW c \in batch[p], SC!Mark(p, c) PROVE Rowwise /\ Claimwise
  <2>1. Claimwise
    BY <1>1, <1>5 DEF SC!Mark, SC!MarkProcessed, SC!MarkFailed, SC!TypeOK
  <2>2. \A row \in Sagas \ {c.row} : status'[row] = status[row]
    BY <1>5 DEF SC!Mark, SC!MarkProcessed, SC!MarkFailed, SC!SetStatus, SC!TypeOK
  <2>3. status'[c.row] # "ABSENT" /\ status'[c.row] # "PURGED"
    BY <1>1, <1>5 DEF SC!Mark, SC!MarkProcessed, SC!MarkFailed, SC!SetStatus, SC!TypeOK
  <2>4. status'[c.row] = "DONE" => c.phase = "ran"
    BY <1>1, <1>5 DEF SC!Mark, SC!MarkProcessed, SC!MarkFailed, SC!SetStatus, SC!TypeOK
  <2> QED
    BY <1>1, <2>1, <2>2, <2>3, <2>4
<1>6. ASSUME \/ \E p \in Replicas : \/ SC!FetchThrows(p) \/ SC!Crash(p) \/ SC!Restart(p)
                                  \/ \E c \in batch[p] : SC!MarkFailedThrows(p, c)
             \/ \E i \in Sagas : SC!ClaimAges(i)
      PROVE  Rowwise /\ Claimwise
  <2>1. status' = status /\ \A p \in Replicas : batch'[p] \subseteq batch[p]
    BY <1>6 DEF SC!FetchThrows, SC!Crash, SC!Restart, SC!MarkFailedThrows, SC!ClaimAges, SC!TypeOK
  <2> QED
    BY <1>1, <2>1
<1>7. ASSUME SC!ReapStale \/ SC!Purge PROVE Rowwise /\ Claimwise
  <2>1. batch' = batch
    BY <1>7 DEF SC!ReapStale, SC!Purge
  <2>2. Rowwise
    BY <1>7 DEF SC!ReapStale, SC!Purge, SC!TypeOK
  <2> QED
    BY <1>1, <2>1, <2>2
<1>8. Rowwise /\ Claimwise
  BY <1>2, <1>3, <1>4, <1>5, <1>6, <1>7 DEF SC!Background, SC!MarkThrows
<1> QED
  BY <1>8

-------------------------------------------------------------------------------
(* The wallet *)

LEMMA SpendableIs == W!Spendable = balance - Cost * Cardinality(Open)
<1>1. \A S : W!Cardinality(S) = Cardinality(S)
  BY DEF Cardinality, W!Cardinality
<1> QED
  BY <1>1 DEF W!Spendable, W!Held, Open

\* What the wallet's operations do to one hold.
HoldMoves(s) ==
  \/ holds'[s] = holds[s]
  \/ pc[s] = "start" /\ holds[s] = "NONE" /\ holds'[s] = "OPEN"
  \/ pc[s] = "commit" /\ holds[s] = "OPEN" /\ holds'[s] = "COMMITTED"
  \/ holds[s] = "OPEN" /\ holds'[s] = "RELEASED"

\* The operations keep open holds covered: only a reserve opens one, against what
\* is spendable, and a direct spend stays below that.
LEMMA WalletKeeps ==
  ASSUME balance \in 0 .. MaxCredits, holds \in [Sagas -> W!Status], HoldsAreFunded,
         \/ UNCHANGED wallet
         \/ \E s \in Sagas : W!Reserve(s) \/ W!Commit(s) \/ W!Release(s)
         \/ \E a \in Amounts : W!Spend(a)
  PROVE  /\ balance' \in 0 .. MaxCredits /\ holds' \in [Sagas -> W!Status]
         /\ HoldsAreFunded'
<1> DEFINE n == Cardinality(Open)
<1>1. IsFiniteSet(Open) /\ n \in Nat /\ Cost * n <= balance /\ balance \in Nat /\ Cost \in Nat
  BY AskAiAssumption, FS_CardinalityType DEF HoldsAreFunded
<1>2. Cost * n \in Nat /\ Cost * (n + 1) = Cost * n + Cost /\ Cost * (n - 1) = Cost * n - Cost
  BY <1>1, AskAiAssumption
<1>3. CASE UNCHANGED wallet
  BY <1>3 DEF wallet, HoldsAreFunded, Open
<1>4. ASSUME NEW a \in Amounts, W!Spend(a)
      PROVE  /\ balance' \in 0 .. MaxCredits /\ holds' \in [Sagas -> W!Status]
             /\ HoldsAreFunded'
  <2>1. /\ holds' = holds /\ balance' = balance - a /\ a \in Nat /\ a <= balance - Cost * n
    BY <1>4, SpendableIs, AskAiAssumption DEF W!Spend
  <2>2. Open' = Open
    BY <2>1 DEF Open
  <2> HIDE DEF n
  <2>3. balance' \in 0 .. MaxCredits /\ Cost * n <= balance'
    BY <1>1, <1>2, <2>1, AskAiAssumption
  <2> QED
    BY <1>1, <2>1, <2>2, <2>3 DEF HoldsAreFunded, n
<1>5. ASSUME NEW s \in Sagas, W!Reserve(s)
      PROVE  /\ balance' \in 0 .. MaxCredits /\ holds' \in [Sagas -> W!Status]
             /\ HoldsAreFunded'
  <2>1. /\ balance' = balance /\ holds' = [holds EXCEPT ![s] = "OPEN"]
        /\ holds[s] = "NONE" /\ Cost <= balance - Cost * n
    BY <1>5, SpendableIs DEF W!Reserve
  <2>2. Open' = Open \cup {s} /\ s \notin Open /\ holds' \in [Sagas -> W!Status]
    BY <2>1 DEF Open, W!Status
  <2>3. IsFiniteSet(Open') /\ Cardinality(Open') = n + 1
    BY <1>1, <2>2, FS_AddElement
  <2> HIDE DEF n
  <2>4. Cost * (n + 1) <= balance
    BY <1>1, <1>2, <2>1
  <2> QED
    BY <2>1, <2>2, <2>3, <2>4 DEF HoldsAreFunded
<1>6. ASSUME NEW s \in Sagas, W!Commit(s) \/ W!Release(s)
      PROVE  /\ balance' \in 0 .. MaxCredits /\ holds' \in [Sagas -> W!Status]
             /\ HoldsAreFunded'
  <2>1. /\ balance' \in {balance, balance - Cost} /\ holds[s] = "OPEN"
        /\ \E v \in {"COMMITTED", "RELEASED"} : holds' = [holds EXCEPT ![s] = v]
    BY <1>6 DEF W!Commit, W!Release
  <2>2. Open' = Open \ {s} /\ s \in Open /\ holds' \in [Sagas -> W!Status]
    BY <2>1 DEF Open, W!Status
  <2>3. IsFiniteSet(Open') /\ Cardinality(Open') = n - 1 /\ n - 1 \in Nat
    <3>1. IsFiniteSet(Open') /\ Cardinality(Open') = n - 1
      BY <1>1, <2>2, FS_RemoveElement
    <3> QED
      BY <3>1, FS_CardinalityType
  <2> HIDE DEF n
  <2>4. Cost * (n - 1) <= balance' /\ balance' \in 0 .. MaxCredits
    <3>1. Cost * (n - 1) \in Nat
      BY <1>1, <2>3, AskAiAssumption
    <3> QED
      BY <1>1, <1>2, <2>1, <3>1, AskAiAssumption
  <2> QED
    BY <2>2, <2>3, <2>4 DEF HoldsAreFunded
<1> QED
  BY <1>3, <1>4, <1>5, <1>6

-------------------------------------------------------------------------------
(* Types *)

LEMMA TypeInit == Init => TypeInv
<1> SUFFICES ASSUME Init PROVE TypeInv
  OBVIOUS
<1>1. SC!TypeOK
  BY AskAiAssumption DEF Init, SC!Init, SC!TypeOK, SC!RowStatus
<1>2. HoldsAreFunded
  <2>1. Open = {}
    BY DEF Init, Open
  <2> QED
    BY <2>1, FS_EmptySet, AskAiAssumption DEF Init, HoldsAreFunded
<1>3. holds \in [Sagas -> W!Status]
  BY DEF Init, W!Status
<1> QED
  BY <1>1, <1>2, <1>3 DEF Init, TypeOK, TypeInv

WalletStep ==
  \/ UNCHANGED wallet
  \/ \E s \in Sagas : W!Reserve(s) \/ W!Commit(s) \/ W!Release(s)
  \/ \E a \in Amounts : W!Spend(a)

\* What every type needs: the wallet, the rows and the rest each move as they may.
LEMMA TypeStep ==
  ASSUME TypeInv, WalletStep, ReaperStep,
         pc' \in [Sagas -> {"start", "end", "dead", "unrecorded"} \cup Handling],
         reply' \in [Sagas -> {"NONE", "ANSWERED", "NO_RESULTS", "AI_UNAVAILABLE",
                              "INSUFFICIENT_CREDITS", "ERROR"}],
         aged' \subseteq Sagas,
         sweep' \in [Replicas -> SUBSET aged']
  PROVE  TypeInv'
<1>1. SC!TypeOK'
  BY CompensationTypeNext DEF TypeInv, TypeOK
<1>2. balance' \in 0 .. MaxCredits /\ holds' \in [Sagas -> W!Status] /\ HoldsAreFunded'
  BY WalletKeeps DEF TypeInv, TypeOK, WalletStep
<1> QED
  BY <1>1, <1>2 DEF TypeInv, TypeOK

\* The reaper's module under other names: a fault, and nothing recorded.
LEMMA ThrowsIs ==
  ASSUME NEW s \in Sagas
  PROVE  /\ Throws(W!Reserve(s)) => SC!Fault /\ (W!Reserve(s) \/ UNCHANGED wallet)
         /\ Throws(W!Commit(s)) => SC!Fault /\ (W!Commit(s) \/ UNCHANGED wallet)
         /\ Throws(Release(s)) => SC!Fault /\ (W!Release(s) \/ UNCHANGED wallet)
         /\ Release(s) => W!Release(s) \/ (holds[s] # "OPEN" /\ UNCHANGED wallet)
  BY DEF Throws, Release

\* A step of a saga: the row and the claims of the others, and what it may do itself.
LEMMA SagaEffect ==
  ASSUME TypeOK, NEW s \in Sagas, Saga(s)
  PROVE  /\ WalletStep /\ ReaperStep /\ UNCHANGED jobs /\ batch' = batch
         /\ \A r \in Sagas \ {s} : pc'[r] = pc[r] /\ reply'[r] = reply[r] /\ holds'[r] = holds[r]
         /\ \A r \in Sagas : status'[r] = status[r] \/ (r = s /\ status'[r] = "PENDING")
         /\ HoldMoves(s)
         /\ pc'[s] \in {"end", "unrecorded"} \cup Handling
         /\ pc' \in [Sagas -> {"start", "end", "dead", "unrecorded"} \cup Handling]
         /\ reply' \in [Sagas -> {"NONE", "ANSWERED", "NO_RESULTS", "AI_UNAVAILABLE",
                                  "INSUFFICIENT_CREDITS", "ERROR"}]
<1> USE ThrowsIs
<1> DEFINE Moves == /\ WalletStep /\ ReaperStep /\ UNCHANGED jobs /\ batch' = batch
                    /\ \A r \in Sagas \ {s} : holds'[r] = holds[r]
                    /\ \A r \in Sagas : status'[r] = status[r] \/ (r = s /\ status'[r] = "PENDING")
                    /\ HoldMoves(s)
           Control == /\ \A r \in Sagas \ {s} : pc'[r] = pc[r] /\ reply'[r] = reply[r]
                      /\ pc'[s] \in {"end", "unrecorded"} \cup Handling
                      /\ pc' \in [Sagas -> {"start", "end", "dead", "unrecorded"} \cup Handling]
                      /\ reply' \in [Sagas -> {"NONE", "ANSWERED", "NO_RESULTS", "AI_UNAVAILABLE",
                                               "INSUFFICIENT_CREDITS", "ERROR"}]
<1>1. ASSUME UNCHANGED rows, SC!Fault \/ UNCHANGED faults, UNCHANGED jobs,
             \/ UNCHANGED wallet
             \/ pc[s] = "start" /\ W!Reserve(s)
             \/ pc[s] = "commit" /\ W!Commit(s)
             \/ W!Release(s)
      PROVE  Moves
  <2>1. WalletStep /\ ReaperStep /\ batch' = batch /\ status' = status
    BY <1>1 DEF WalletStep, ReaperStep, rows
  <2>2. HoldMoves(s) /\ \A r \in Sagas \ {s} : holds'[r] = holds[r]
    BY <1>1 DEF HoldMoves, wallet, W!Reserve, W!Commit, W!Release, TypeOK
  <2> QED
    BY <1>1, <2>1, <2>2
<1>2. CASE Reserve(s)
  <2>1. Control
    BY <1>2 DEF Reserve, Goto, Answer, TypeOK, Handling
  <2> QED
    BY <1>1, <1>2, <2>1 DEF Reserve
<1>3. CASE Query(s)
  <2>1. Control
    BY <1>3 DEF Query, Goto, Answer, TypeOK, Handling
  <2> QED
    BY <1>1, <1>3, <2>1 DEF Query
<1>4. CASE Commit(s)
  <2>1. Control
    BY <1>4 DEF Commit, Goto, Answer, TypeOK, Handling
  <2> QED
    BY <1>1, <1>4, <2>1 DEF Commit
<1>5. CASE ReleaseNoResults(s)
  <2>1. Control
    BY <1>5 DEF ReleaseNoResults, Goto, Answer, TypeOK, Handling
  <2> QED
    BY <1>1, <1>5, <2>1 DEF ReleaseNoResults
<1>6. CASE Compensate(s)
  <2>1. Control
    BY <1>6 DEF Compensate, Goto, TypeOK, Handling
  <2> QED
    BY <1>1, <1>6, <2>1 DEF Compensate
<1>7. CASE RecordFailed(s)
  <2>1. Control
    BY <1>7 DEF RecordFailed, Goto, TypeOK, Handling
  <2>2. CASE SC!RecordFailed(s)
    <3>1. WalletStep /\ ReaperStep /\ UNCHANGED jobs /\ HoldMoves(s) /\ UNCHANGED holds
      BY <1>7, <2>2 DEF RecordFailed, WalletStep, ReaperStep, SC!Next, HoldMoves, wallet
    <3>2. /\ batch' = batch
          /\ \A r \in Sagas : status'[r] = status[r] \/ (r = s /\ status'[r] = "PENDING")
      BY <2>2 DEF SC!RecordFailed, TypeOK, SC!TypeOK
    <3> QED
      BY <2>1, <3>1, <3>2
  <2>3. CASE UNCHANGED rows /\ SC!Fault
    BY <1>1, <1>7, <2>1, <2>3 DEF RecordFailed
  <2> QED
    BY <1>7, <2>2, <2>3 DEF RecordFailed
<1> QED
  BY <1>2, <1>3, <1>4, <1>5, <1>6, <1>7 DEF Saga

-------------------------------------------------------------------------------
(* Sagas *)

\* Where each step takes its saga, by what it did to the hold.
LEMMA OwnSagaKeeps ==
  ASSUME TypeOK, NEW s \in Sagas, SagaInv(s), Saga(s)
  PROVE  SagaInv(s)'
<1> USE ThrowsIs
<1>1. /\ holds \in [Sagas -> W!Status] /\ status \in [Sagas -> SC!RowStatus]
      /\ pc \in [Sagas -> {"start", "end", "dead", "unrecorded"} \cup Handling]
      /\ reply \in [Sagas -> {"NONE", "ANSWERED", "NO_RESULTS", "AI_UNAVAILABLE",
                              "INSUFFICIENT_CREDITS", "ERROR"}]
  BY DEF TypeOK, SC!TypeOK
<1>2. CASE Reserve(s)
  <2>1. pc[s] = "start" /\ holds[s] = "NONE" /\ reply[s] = "NONE"
    BY <1>2 DEF Reserve, SagaInv
  <2>2. \/ holds'[s] = "OPEN" /\ pc'[s] = "rag" /\ reply' = reply
        \/ holds' = holds /\ pc'[s] = "end" /\ reply'[s] = "INSUFFICIENT_CREDITS"
        \/ pc'[s] = "unrecorded" /\ reply'[s] = "ERROR"
    BY <1>1, <1>2 DEF Reserve, Goto, Answer, W!Reserve, wallet
  <2> QED
    BY <2>1, <2>2 DEF SagaInv, Honest, Handling
<1>3. CASE Query(s)
  <2>1. /\ pc[s] = "rag" /\ holds[s] # "COMMITTED" /\ holds[s] # "NONE" /\ reply[s] = "NONE"
    BY <1>3 DEF Query, SagaInv, Handling
  <2>2. /\ holds' = holds
        /\ \/ pc'[s] \in {"commit", "release"} /\ reply' = reply
           \/ pc'[s] = "undo" /\ reply'[s] \in {"AI_UNAVAILABLE", "ERROR"}
    BY <1>1, <1>3 DEF Query, Goto, Answer, wallet
  <2> QED
    BY <2>1, <2>2 DEF SagaInv, Honest, Handling
<1>4. CASE Commit(s)
  <2>1. pc[s] = "commit" /\ holds[s] # "NONE"
    BY <1>4 DEF Commit, SagaInv, Handling
  <2>2. \/ holds'[s] = "COMMITTED" /\ pc'[s] = "end" /\ reply'[s] = "ANSWERED"
        \/ holds'[s] \in {holds[s], "COMMITTED"} /\ pc'[s] = "undo" /\ reply'[s] = "ERROR"
    BY <1>1, <1>4 DEF Commit, Goto, Answer, W!Commit, wallet
  <2> QED
    BY <2>1, <2>2 DEF SagaInv, Honest, Handling
<1>5. CASE ReleaseNoResults(s)
  <2>1. pc[s] = "release" /\ holds[s] \in {"OPEN", "RELEASED"}
    BY <1>1, <1>5 DEF ReleaseNoResults, SagaInv, Handling, W!Status
  <2>2. \/ holds'[s] = "RELEASED" /\ pc'[s] = "end" /\ reply'[s] = "NO_RESULTS"
        \/ holds'[s] \in {holds[s], "RELEASED"} /\ pc'[s] = "undo" /\ reply'[s] = "ERROR"
    BY <1>1, <1>5, <2>1 DEF ReleaseNoResults, Goto, Answer, W!Release, wallet
  <2> QED
    BY <2>1, <2>2 DEF SagaInv, Honest, Handling
<1>6. CASE Compensate(s)
  <2>1. pc[s] = "undo" /\ holds[s] # "NONE" /\ reply' = reply /\ Honest(s)
    BY <1>6 DEF Compensate, SagaInv, Handling
  <2>2. /\ holds'[s] = holds[s] \/ (holds[s] = "OPEN" /\ holds'[s] = "RELEASED")
        /\ \/ pc'[s] = "end" /\ holds'[s] # "OPEN"
           \/ pc'[s] = "record"
    BY <1>1, <1>6 DEF Compensate, Goto, W!Release, wallet
  <2> QED
    BY <2>1, <2>2 DEF SagaInv, Honest, Handling
<1>7. CASE RecordFailed(s)
  <2>1. pc[s] = "record" /\ holds' = holds /\ reply' = reply /\ Honest(s)
    BY <1>7 DEF RecordFailed, SagaInv, wallet
  <2>2. \/ pc'[s] = "end" /\ status'[s] = "PENDING"
        \/ pc'[s] = "unrecorded"
    BY <1>1, <1>7 DEF RecordFailed, Goto, SC!RecordFailed
  <2> QED
    BY <2>1, <2>2 DEF SagaInv, Honest, Handling
<1> QED
  BY <1>2, <1>3, <1>4, <1>5, <1>6, <1>7 DEF Saga

LEMMA SagaKeeps ==
  ASSUME AskAiInv, NEW s \in Sagas, Saga(s)
  PROVE  AskAiInv'
<1>1. TypeInv /\ TypeOK /\ ClaimsAreOnRecord /\ RanMeansSettled /\ \A r \in Sagas : SagaInv(r)
  BY DEF AskAiInv, TypeInv
<1>2. /\ WalletStep /\ ReaperStep /\ UNCHANGED jobs /\ batch' = batch
      /\ \A r \in Sagas \ {s} : pc'[r] = pc[r] /\ reply'[r] = reply[r] /\ holds'[r] = holds[r]
      /\ \A r \in Sagas : status'[r] = status[r] \/ (r = s /\ status'[r] = "PENDING")
      /\ HoldMoves(s)
  BY <1>1, SagaEffect
<1>3. /\ pc' \in [Sagas -> {"start", "end", "dead", "unrecorded"} \cup Handling]
      /\ reply' \in [Sagas -> {"NONE", "ANSWERED", "NO_RESULTS", "AI_UNAVAILABLE",
                               "INSUFFICIENT_CREDITS", "ERROR"}]
  BY <1>1, SagaEffect
<1>4. TypeInv'
  BY <1>1, <1>2, <1>3, TypeStep DEF jobs, TypeOK
<1>5. ASSUME NEW r \in Sagas, status[r] # "ABSENT", holds[r] # "OPEN" PROVE holds'[r] # "OPEN"
  BY <1>1, <1>2, <1>5 DEF HoldMoves, SagaInv
<1>6. \A p \in Replicas : \A c \in batch[p] : c.row \in Sagas /\ status[c.row] # "ABSENT"
  BY <1>1 DEF ClaimsAreOnRecord, TypeOK, SC!TypeOK, SC!Claim
<1>7. ClaimsAreOnRecord' /\ RanMeansSettled'
  BY <1>1, <1>2, <1>5, <1>6 DEF ClaimsAreOnRecord, RanMeansSettled
<1>8. ASSUME NEW r \in Sagas PROVE SagaInv(r)'
  <2>1. CASE r = s
    BY <1>1, <2>1, OwnSagaKeeps
  <2>2. CASE r # s
    BY <1>1, <1>2, <2>2 DEF SagaInv, Honest
  <2> QED
    BY <2>1, <2>2
<1> QED
  BY <1>4, <1>7, <1>8 DEF AskAiInv

-------------------------------------------------------------------------------
(* Jobs, crashes and other spending *)

\* What else happens to a saga: its hold may be released and its handler may die.
LEMMA OtherStepsKeepSagas ==
  ASSUME NEW s \in Sagas, SagaInv(s),
         holds'[s] = holds[s] \/ (holds[s] = "OPEN" /\ holds'[s] = "RELEASED"),
         status'[s] = "ABSENT" <=> status[s] = "ABSENT",
         pc'[s] = pc[s] \/ pc'[s] = "dead",
         reply'[s] = reply[s]
  PROVE  SagaInv(s)'
  BY DEF SagaInv, Honest, Handling

\* Sweeps, direct spends and ageing leave the rows and the sagas alone.
LEMMA RowsAside ==
  ASSUME AskAiInv, UNCHANGED <<rows, pc, reply>>, SC!Fault \/ UNCHANGED faults,
         \/ UNCHANGED wallet \/ \E a \in Amounts : W!Spend(a)
         \/ \E s \in Sagas : W!Release(s),
         aged' \subseteq Sagas, sweep' \in [Replicas -> SUBSET aged']
  PROVE  AskAiInv'
<1>1. TypeInv /\ TypeOK /\ ClaimsAreOnRecord /\ RanMeansSettled /\ \A r \in Sagas : SagaInv(r)
  BY DEF AskAiInv, TypeInv
<1>2. WalletStep /\ ReaperStep /\ batch' = batch /\ status' = status /\ pc' = pc /\ reply' = reply
  BY DEF WalletStep, ReaperStep, rows
<1>3. \A s \in Sagas : holds'[s] = holds[s] \/ (holds[s] = "OPEN" /\ holds'[s] = "RELEASED")
  BY <1>1 DEF wallet, W!Spend, W!Release, TypeOK
<1>4. TypeInv'
  BY <1>1, <1>2, TypeStep DEF TypeOK
<1>5. \A p \in Replicas : \A c \in batch[p] : c.row \in Sagas
  BY <1>1 DEF TypeOK, SC!TypeOK, SC!Claim
<1>6. ClaimsAreOnRecord' /\ RanMeansSettled'
  BY <1>1, <1>2, <1>3, <1>5 DEF ClaimsAreOnRecord, RanMeansSettled
<1>7. \A s \in Sagas : SagaInv(s)'
  BY <1>1, <1>2, <1>3, OtherStepsKeepSagas
<1> QED
  BY <1>4, <1>6, <1>7 DEF AskAiInv

\* The reaper's bookkeeping, the background jobs and a crash leave the wallet alone.
LEMMA WalletAside ==
  ASSUME AskAiInv,
         \/ \E p \in Replicas :
              \/ SC!Poll(p) \/ SC!Fetch(p) \/ SC!FetchThrows(p) \/ SC!Crash(p) \/ SC!Restart(p)
              \/ \E c \in batch[p] : SC!Run(p, c, "threw") \/ SC!Mark(p, c) \/ SC!MarkThrows(p, c)
         \/ SC!Background,
         UNCHANGED wallet \/ \E s \in Sagas : W!Release(s),
         UNCHANGED <<reply, aged>>, sweep' \in [Replicas -> SUBSET aged],
         pc' \in [Sagas -> {"start", "end", "dead", "unrecorded"} \cup Handling],
         \A s \in Sagas : pc'[s] = pc[s] \/ pc'[s] = "dead"
  PROVE  AskAiInv'
<1>1. TypeInv /\ TypeOK /\ ClaimsAreOnRecord /\ RanMeansSettled /\ \A r \in Sagas : SagaInv(r)
  BY DEF AskAiInv, TypeInv
<1>2. SC!TypeOK
  BY <1>1 DEF TypeOK
<1>3. /\ \A row \in Sagas : status'[row] = "ABSENT" <=> status[row] = "ABSENT"
      /\ \A row \in Sagas : status'[row] \in {"DONE", "PURGED"} =>
           \/ status[row] \in {"DONE", "PURGED"}
           \/ \E p \in Replicas : \E c \in batch[p] : c.row = row /\ c.phase = "ran"
      /\ \A p \in Replicas : \A d \in batch'[p] :
           /\ status'[d.row] # "ABSENT"
           /\ d.phase = "ran" => \E c \in batch[p] : c.row = d.row /\ c.phase = "ran"
  BY <1>1, <1>2, JobsOnRows
<1>4. ReaperStep
  BY DEF ReaperStep, SC!Next
<1>5. WalletStep
  BY DEF WalletStep
<1>6. TypeInv'
  BY <1>1, <1>4, <1>5, TypeStep DEF TypeOK
<1>7. \A s \in Sagas : holds'[s] = holds[s] \/ (holds[s] = "OPEN" /\ holds'[s] = "RELEASED")
  BY <1>1 DEF wallet, W!Release, TypeOK
<1>8. \A p \in Replicas : \A c \in batch[p] : c.row \in Sagas
  BY <1>1 DEF TypeOK, SC!TypeOK, SC!Claim
<1>9. ClaimsAreOnRecord'
  BY <1>3 DEF ClaimsAreOnRecord
<1>10. RanMeansSettled'
  <2>1. ASSUME NEW p \in Replicas, NEW d \in batch'[p], d.phase = "ran" PROVE holds'[d.row] # "OPEN"
    <3>1. PICK c \in batch[p] : c.row = d.row /\ c.phase = "ran"
      BY <1>3, <2>1
    <3> QED
      BY <1>1, <1>7, <1>8, <3>1 DEF RanMeansSettled
  <2>2. ASSUME NEW s \in Sagas, status'[s] \in {"DONE", "PURGED"} PROVE holds'[s] # "OPEN"
    BY <1>1, <1>3, <1>7, <2>2 DEF RanMeansSettled
  <2> QED
    BY <2>1, <2>2 DEF RanMeansSettled
<1>11. \A s \in Sagas : SagaInv(s)'
  BY <1>1, <1>3, <1>7, OtherStepsKeepSagas
<1> QED
  BY <1>6, <1>9, <1>10, <1>11 DEF AskAiInv

\* A runner comes back: its hold is settled, by this release or an earlier one.
LEMMA RunKeeps ==
  ASSUME AskAiInv, NEW p \in Replicas, NEW c \in batch[p], SC!Run(p, c, "ran"), Release(c.row),
         UNCHANGED <<pc, reply, jobs>>
  PROVE  AskAiInv'
<1>1. TypeInv /\ TypeOK /\ ClaimsAreOnRecord /\ RanMeansSettled /\ \A r \in Sagas : SagaInv(r)
  BY DEF AskAiInv, TypeInv
<1>2. \A q \in Replicas : \A d \in batch[q] : d \in SC!Claim /\ d.row \in Sagas
  BY <1>1 DEF TypeOK, SC!TypeOK, SC!Claim
<1>3. W!Release(c.row) \/ (holds[c.row] # "OPEN" /\ UNCHANGED wallet)
  BY <1>2, ThrowsIs
<1>4. /\ holds'[c.row] # "OPEN"
      /\ \A s \in Sagas : holds'[s] = holds[s] \/ (holds[s] = "OPEN" /\ holds'[s] = "RELEASED")
  BY <1>1, <1>2, <1>3 DEF wallet, W!Release, TypeOK
<1>5. WalletStep /\ ReaperStep /\ status' = status
  BY <1>2, <1>3 DEF WalletStep, ReaperStep, SC!Next, SC!Run
<1>6. TypeInv'
  BY <1>1, <1>5, TypeStep DEF TypeOK, jobs
<1>7. \A q \in Replicas : \A d \in batch'[q] : d \in batch[q] \/ d.row = c.row
  <2>1. [c EXCEPT !.phase = "ran"].row = c.row
    BY <1>2 DEF SC!Claim
  <2>2. /\ batch'[p] = (batch[p] \ {c}) \cup {[c EXCEPT !.phase = "ran"]}
        /\ \A q \in Replicas \ {p} : batch'[q] = batch[q]
    BY <1>1 DEF SC!Run, TypeOK, SC!TypeOK
  <2> QED
    BY <2>1, <2>2
<1>8. ClaimsAreOnRecord'
  BY <1>1, <1>5, <1>7 DEF ClaimsAreOnRecord
<1>9. RanMeansSettled'
  BY <1>1, <1>2, <1>4, <1>5, <1>7 DEF RanMeansSettled
<1>10. \A s \in Sagas : SagaInv(s)'
  BY <1>1, <1>4, <1>5, OtherStepsKeepSagas
<1> QED
  BY <1>6, <1>8, <1>9, <1>10 DEF AskAiInv

-------------------------------------------------------------------------------
(* The theorems *)

LEMMA AskAiInit == Init => AskAiInv
<1> SUFFICES ASSUME Init PROVE AskAiInv
  OBVIOUS
<1>1. ClaimsAreOnRecord /\ RanMeansSettled
  BY DEF Init, SC!Init, ClaimsAreOnRecord, RanMeansSettled
<1>2. ASSUME NEW s \in Sagas PROVE SagaInv(s)
  <2>1. pc[s] = "start" /\ holds[s] = "NONE" /\ status[s] = "ABSENT" /\ reply[s] = "NONE"
    BY DEF Init, SC!Init
  <2> QED
    BY <2>1 DEF SagaInv, Honest, Handling
<1> QED
  BY <1>1, <1>2, TypeInit DEF AskAiInv

LEMMA AskAiNext == AskAiInv /\ [Next]_vars => AskAiInv'
<1> SUFFICES ASSUME AskAiInv, [Next]_vars PROVE AskAiInv'
  OBVIOUS
<1>1. TypeOK
  BY DEF AskAiInv, TypeInv
<1>2. /\ aged \subseteq Sagas /\ sweep \in [Replicas -> SUBSET aged]
      /\ pc \in [Sagas -> {"start", "end", "dead", "unrecorded"} \cup Handling]
  BY <1>1 DEF TypeOK
<1>3. ASSUME NEW s \in Sagas, Saga(s) PROVE AskAiInv'
  BY <1>3, SagaKeeps
<1>4. ASSUME NEW s \in Sagas, HoldAges(s) PROVE AskAiInv'
  <2>1. aged' \subseteq Sagas /\ sweep' \in [Replicas -> SUBSET aged']
    BY <1>2, <1>4 DEF HoldAges
  <2> QED
    BY <1>4, <2>1, RowsAside DEF HoldAges
<1>5. ASSUME NEW p \in Replicas, SweepStart(p) PROVE AskAiInv'
  <2>1. UNCHANGED <<wallet, rows, faults, pc, reply, aged>>
    BY <1>5 DEF SweepStart
  <2>2. aged' \subseteq Sagas /\ sweep' \in [Replicas -> SUBSET aged']
    BY <1>2, <1>5 DEF SweepStart, Stale
  <2> QED
    BY <2>1, <2>2, RowsAside
<1>6. ASSUME NEW p \in Replicas, NEW s \in Sagas, SweepOne(p, s) \/ SweepThrows(p, s)
      PROVE  AskAiInv'
  <2>1. aged' \subseteq Sagas /\ sweep' \in [Replicas -> SUBSET aged']
    BY <1>2, <1>6 DEF SweepOne, SweepThrows
  <2>2. UNCHANGED wallet \/ W!Release(s)
    BY <1>6, ThrowsIs DEF SweepOne, SweepThrows
  <2>3. UNCHANGED <<rows, pc, reply>> /\ (SC!Fault \/ UNCHANGED faults)
    BY <1>6, ThrowsIs DEF SweepOne, SweepThrows
  <2> QED
    BY <2>1, <2>2, <2>3, RowsAside
<1>7. ASSUME NEW a \in Amounts, SpendCredits(a) PROVE AskAiInv'
  <2>1. aged' \subseteq Sagas /\ sweep' \in [Replicas -> SUBSET aged']
    BY <1>2, <1>7 DEF SpendCredits, jobs
  <2> QED
    BY <1>7, <2>1, RowsAside DEF SpendCredits
<1>8. ASSUME NEW p \in Replicas, NEW c \in batch[p], RunCompensation(p, c) PROVE AskAiInv'
  <2>1. c.row \in Sagas
    BY <1>1 DEF TypeOK, SC!TypeOK, SC!Claim
  <2>2. CASE SC!Run(p, c, "ran") /\ Release(c.row)
    BY <1>8, <2>2, RunKeeps DEF RunCompensation
  <2>3. CASE SC!Run(p, c, "threw") /\ (Release(c.row) \/ UNCHANGED wallet)
    <3>1. UNCHANGED <<pc, reply, aged, sweep>>
      BY <1>8 DEF RunCompensation, jobs
    <3>2. UNCHANGED wallet \/ \E s \in Sagas : W!Release(s)
      BY <2>1, <2>3, ThrowsIs
    <3> QED
      BY <1>2, <2>3, <3>1, <3>2, WalletAside
  <2> QED
    BY <1>8, <2>2, <2>3 DEF RunCompensation
<1>9. ASSUME UNCHANGED <<wallet, pc, reply, jobs>>,
             \/ \E p \in Replicas :
                  \/ SC!Poll(p) \/ SC!Fetch(p) \/ SC!FetchThrows(p) \/ SC!Restart(p)
                  \/ \E c \in batch[p] : SC!Mark(p, c) \/ SC!MarkThrows(p, c)
             \/ SC!Background
      PROVE  AskAiInv'
  BY <1>2, <1>9, WalletAside DEF jobs
<1>10. ASSUME NEW p \in Replicas, Crash(p) PROVE AskAiInv'
  <2>1. SC!Crash(p) /\ UNCHANGED <<wallet, reply, aged>>
    BY <1>10 DEF Crash
  <2>2. sweep' \in [Replicas -> SUBSET aged]
    BY <1>2, <1>10 DEF Crash
  <2>3. /\ pc' \in [Sagas -> {"start", "end", "dead", "unrecorded"} \cup Handling]
        /\ \A s \in Sagas : pc'[s] = pc[s] \/ pc'[s] = "dead"
    BY <1>2, <1>10 DEF Crash
  <2> QED
    BY <2>1, <2>2, <2>3, WalletAside
<1>11. ASSUME UNCHANGED vars PROVE AskAiInv'
  <2>1. UNCHANGED <<wallet, rows, faults, pc, reply, aged, sweep>>
    BY <1>11 DEF vars, jobs
  <2> QED
    BY <1>2, <2>1, RowsAside
<1> QED
  BY <1>3, <1>4, <1>5, <1>6, <1>7, <1>8, <1>9, <1>10, <1>11 DEF Next, Reaper

LEMMA AskAiIsSafe == Spec => []AskAiInv
  BY AskAiInit, AskAiNext, PTL DEF Spec

\* TypeOK: for one, no interleaving of sagas, sweeps and spends overdraws the wallet.
THEOREM TypeCorrect == Spec => []TypeOK
<1>1. AskAiInv => TypeOK
  BY DEF AskAiInv, TypeInv
<1> QED
  BY <1>1, AskAiIsSafe, PTL

\* HoldsAreFunded: whatever is spent beside them, the wallet can pay for every hold
\* that a saga may still commit.
THEOREM HoldsSafe == Spec => []HoldsAreFunded
<1>1. AskAiInv => HoldsAreFunded
  BY DEF AskAiInv, TypeInv
<1> QED
  BY <1>1, AskAiIsSafe, PTL

\* RepliesAreHonest: what the client is told is what happened to its credits, and
\* no compensation, sweep or crash changes it afterwards.
THEOREM RepliesSafe == Spec => []RepliesAreHonest
<1>1. AskAiInv => RepliesAreHonest
  BY DEF AskAiInv, SagaInv, Honest, RepliesAreHonest
<1> QED
  BY <1>1, AskAiIsSafe, PTL

\* DoneMeansSettled: a compensation marked DONE has released the hold, or found it
\* settled, whichever claimant marked it.
THEOREM DoneSafe == Spec => []DoneMeansSettled
<1>1. AskAiInv => DoneMeansSettled
  BY DEF AskAiInv, RanMeansSettled, DoneMeansSettled
<1> QED
  BY <1>1, AskAiIsSafe, PTL

\* OpenHoldIsOnRecord: a hold that its saga leaves open has a row that is not done.
THEOREM OpenHoldSafe == Spec => []OpenHoldIsOnRecord
<1>1. AskAiInv => OpenHoldIsOnRecord
  <2> SUFFICES ASSUME AskAiInv, NEW s \in Sagas, holds[s] = "OPEN", pc[s] = "end"
               PROVE  status[s] \in {"PENDING", "INFLIGHT", "FAILED_DLQ"}
    BY DEF OpenHoldIsOnRecord
  <2>1. status[s] \in SC!RowStatus
    BY DEF AskAiInv, TypeInv, TypeOK, SC!TypeOK
  <2>2. status[s] \notin {"ABSENT", "DONE", "PURGED"}
    BY DEF AskAiInv, SagaInv, RanMeansSettled
  <2> QED
    BY <2>1, <2>2 DEF SC!RowStatus
<1> QED
  BY <1>1, AskAiIsSafe, PTL
================================================================================
