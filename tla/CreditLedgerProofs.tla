-------------------------- MODULE CreditLedgerProofs --------------------------
(***************************************************************************)
(* Proofs about CreditLedger for any number of transactions, reservations  *)
(* and events: the inductive invariant, the safety properties it carries,  *)
(* and the step simulation by which the transactions implement Wallet.     *)
(* Then, about WalletReadModel, what one more event does to each of the    *)
(* folds over a stream, and from it that the two folds agree and that the  *)
(* outbox mirrors the ledger, whatever the stream's length.                *)
(***************************************************************************)
EXTENDS WalletReadModel, FiniteSetTheorems, WellFoundedInduction, TLAPS

\* The event each command raises when it is not refused.
Raised ==
  [Grant |-> "CreditGranted", Refund |-> "CreditRefunded", Spend |-> "CreditSpent",
   Reserve |-> "CreditReserved", Commit |-> "CreditReservationCommitted",
   Release |-> "CreditReservationReleased"]

\* The steps that write a row.
Saving(x) ==
  \/ GrantCredits(x) \/ RefundCredits(x) \/ SpendCredits(x) \/ ReserveCredits(x)
  \/ CommitAiQuery(x) \/ ReleaseReservation(x)

\* Every handler saves through Save, with the event of its command.
LEMMA SavingSaves ==
  ASSUME NEW x, Saving(x)
  PROVE  Save(x, Raised[x.command.kind])
BY DEF Saving, GrantCredits, RefundCredits, SpendCredits, ReserveCredits,
       CommitAiQuery, ReleaseReservation, Raised

\* The fields of an open transaction.
LEMMA TransactionFields ==
  ASSUME TypeOK, NEW x \in inflight
  PROVE  /\ x \in Transaction
         /\ x.account \in CreditAccount
         /\ x.account.version \in Nat
         /\ x.account.balance \in Int
         /\ x.account.reservations \in [Reservations -> ReservationStatus]
         /\ x.command.kind \in {"Grant", "Refund", "Spend"} =>
              x.command.amount \in Amounts /\ x.command.reservationId = NoReservation
         /\ x.command.kind \in {"Reserve", "Commit", "Release"} =>
              x.command.amount = Cost /\ x.command.reservationId \in Reservations
         /\ x.command.kind \in {"Grant", "Refund", "Spend", "Reserve", "Commit", "Release"}
<1>1. x \in Transaction
  BY DEF TypeOK
<1>2. x.account \in CreditAccount /\ x.command \in Command
  BY <1>1 DEF Transaction
<1>3. /\ x.account.version \in Nat
      /\ x.account.balance \in Int
      /\ x.account.reservations \in [Reservations -> ReservationStatus]
  BY <1>2 DEF CreditAccount
<1>4. QED
  BY <1>1, <1>2, <1>3 DEF Command

\* The event a transaction raises is a well-formed ledger row.
LEMMA RaisedIsARow ==
  ASSUME TypeOK, NEW x \in inflight
  PROVE  LET e == EventOf(x, Raised[x.command.kind]) IN
         /\ e \in CreditLedgerEvent
         /\ e.version = x.account.version + 1
         /\ e.eventType = Raised[x.command.kind]
         /\ e.amount = x.command.amount
         /\ e.reservationId = x.command.reservationId
<1>1. CASE x.command.kind \in {"Grant", "Refund", "Spend"}
  BY <1>1, TransactionFields
     DEF EventOf, Raise, Raised, CreditLedgerEvent, DirectEvents, ReservationEvents
<1>2. CASE x.command.kind \in {"Reserve", "Commit", "Release"}
  BY <1>2, TransactionFields
     DEF EventOf, Raise, Raised, CreditLedgerEvent, DirectEvents, ReservationEvents
<1>3. QED
  BY <1>1, <1>2, TransactionFields

\* Folding a row keeps the account well formed.
LEMMA ApplyType ==
  ASSUME NEW a \in CreditAccount, NEW e \in CreditLedgerEvent
  PROVE  Apply(a, e) \in CreditAccount
<1>1. a.balance \in Int /\ a.reservations \in [Reservations -> ReservationStatus]
  BY DEF CreditAccount
<1>2. CASE e.eventType \in DirectEvents
  <2>1. e.version \in Nat /\ e.amount \in Amounts /\ e.eventType \notin ReservationEvents
    BY <1>2 DEF CreditLedgerEvent, DirectEvents, ReservationEvents
  <2>2. e.amount \in Nat
    BY <2>1, CreditAssumption
  <2>3. Moves(e) \in Int
    BY <2>2 DEF Moves
  <2>4. QED
    BY <1>1, <2>1, <2>3 DEF Apply, CreditAccount
<1>3. CASE e.eventType \in ReservationEvents
  <2>1. e.version \in Nat /\ e.amount = Cost /\ e.reservationId \in Reservations
    BY <1>3 DEF CreditLedgerEvent, DirectEvents, ReservationEvents
  <2>2. Moves(e) \in Int
    BY <2>1, <1>3, CreditAssumption DEF Moves, ReservationEvents
  <2>3. StatusAfter[e.eventType] \in ReservationStatus
    BY <1>3 DEF StatusAfter, ReservationEvents, ReservationStatus
  <2>4. QED
    BY <1>1, <1>3, <2>1, <2>2, <2>3 DEF Apply, CreditAccount
<1>4. QED
  BY <1>2, <1>3 DEF CreditLedgerEvent

\* The heart of optimistic concurrency: a save that goes through was decided on
\* the present account, and its row takes the next version.
LEMMA SaveIsCurrent ==
  ASSUME TypeOK, StreamIsGapless, SnapshotsAreCurrentOrStale,
         NEW x \in inflight, NEW type, Save(x, type)
  PROVE  /\ x.account = account
         /\ EventOf(x, type).version = Len(ledger) + 1
<1>1. x.account.version \in Nat /\ x.account.version <= Len(ledger) /\ Len(ledger) \in Nat
  BY TransactionFields DEF StreamIsGapless, TypeOK
<1>2. EventOf(x, type).version = x.account.version + 1
  BY DEF EventOf, Raise
<1>3. ~VersionTaken(x.account.version + 1)
  BY <1>2 DEF Save
<1>4. x.account.version + 1 \notin DOMAIN ledger
  BY <1>3 DEF VersionTaken, StreamIsGapless
<1>5. x.account.version = Len(ledger)
  BY <1>1, <1>4 DEF TypeOK
<1>6. QED
  BY <1>2, <1>5 DEF SnapshotsAreCurrentOrStale

\* What a save does to the stream, the account and the other transactions.
LEMMA SaveEffect ==
  ASSUME TypeOK, StreamIsGapless, SnapshotsAreCurrentOrStale,
         NEW x \in inflight, Save(x, Raised[x.command.kind])
  PROVE  LET e == EventOf(x, Raised[x.command.kind]) IN
         /\ e \in CreditLedgerEvent
         /\ e.version = Len(ledger) + 1
         /\ ledger' \in Seq(CreditLedgerEvent)
         /\ Len(ledger') = Len(ledger) + 1
         /\ DOMAIN ledger' = DOMAIN ledger \cup {Len(ledger) + 1}
         /\ Len(ledger) + 1 \notin DOMAIN ledger
         /\ ledger'[Len(ledger) + 1] = e
         /\ \A i \in DOMAIN ledger : ledger'[i] = ledger[i] /\ i < Len(ledger) + 1
         /\ account' = Apply(account, e)
         /\ account' \in CreditAccount
         /\ account'.version = Len(ledger')
         /\ inflight' = inflight \ {x}
         /\ issued' = issued
         /\ x.account = account
<1> DEFINE e == EventOf(x, Raised[x.command.kind])
<1>1. e \in CreditLedgerEvent
  BY RaisedIsARow
<1>2. e.version = Len(ledger) + 1 /\ x.account = account
  BY SaveIsCurrent
<1>3. /\ ledger' = Append(ledger, e) /\ account' = Apply(account, e)
      /\ inflight' = inflight \ {x} /\ issued' = issued
  BY DEF Save
<1> HIDE DEF e
<1>4. ledger \in Seq(CreditLedgerEvent) /\ account \in CreditAccount
  BY DEF TypeOK
<1>5. /\ ledger' \in Seq(CreditLedgerEvent)
      /\ Len(ledger') = Len(ledger) + 1
      /\ DOMAIN ledger' = DOMAIN ledger \cup {Len(ledger) + 1}
      /\ Len(ledger) + 1 \notin DOMAIN ledger
      /\ ledger'[Len(ledger) + 1] = e
      /\ \A i \in DOMAIN ledger : ledger'[i] = ledger[i] /\ i < Len(ledger) + 1
  BY <1>1, <1>3, <1>4
<1>6. account' \in CreditAccount
  BY <1>1, <1>3, <1>4, ApplyType
<1>7. account'.version = e.version
  BY <1>3 DEF Apply
<1>8. QED
  BY <1>1, <1>2, <1>3, <1>5, <1>6, <1>7 DEF e

-------------------------------------------------------------------------------
(* Type correctness *)

\* A save leaves well-formed rows, AiQuery records and outbox rows behind.
LEMMA SavingType ==
  ASSUME TypeOK, StreamIsGapless, SnapshotsAreCurrentOrStale,
         NEW x \in inflight, Saving(x)
  PROVE  TypeOK'
<1> DEFINE r == x.command.reservationId
<1>1. Save(x, Raised[x.command.kind])
  BY SavingSaves
<1>2. /\ ledger' \in Seq(CreditLedgerEvent) /\ account' \in CreditAccount
      /\ inflight' \subseteq Transaction /\ issued' \subseteq Reservations
  BY <1>1, SaveEffect DEF TypeOK
<1>3. ASSUME NEW type \in {"CreditGranted", "CreditReservationCommitted"},
             x.command.kind \in {"Grant", "Commit"}, type = Raised[x.command.kind]
      PROVE  BalanceAfter(x, type) \in Int
  <2>1. Apply(x.account, EventOf(x, type)) \in CreditAccount
    BY <1>3, RaisedIsARow, TransactionFields, ApplyType
  <2>2. QED
    BY <2>1 DEF BalanceAfter, CreditAccount
<1>4. aiQueries \in [Reservations -> AiQuery] /\ outbox \in Seq(OutboxRow)
  BY DEF TypeOK
<1>5. CASE GrantCredits(x)
  <2>1. BalanceAfter(x, "CreditGranted") \in Int /\ x.command.amount \in Amounts
    BY <1>3, <1>5, TransactionFields DEF GrantCredits, Raised
  <2>2. outbox' \in Seq(OutboxRow)
    BY <1>4, <1>5, <2>1 DEF GrantCredits, OutboxRow
  <2>3. QED
    BY <1>2, <1>4, <1>5, <2>2 DEF GrantCredits, TypeOK
<1>6. CASE CommitAiQuery(x)
  <2>1. /\ BalanceAfter(x, "CreditReservationCommitted") \in Int
        /\ x.command.amount = Cost /\ r \in Reservations
    BY <1>3, <1>6, TransactionFields DEF CommitAiQuery, Raised
  <2>2. outbox' \in Seq(OutboxRow)
    BY <1>4, <1>6, <2>1 DEF CommitAiQuery, OutboxRow
  <2>3. aiQueries' \in [Reservations -> AiQuery]
    BY <1>4, <1>6, <2>1 DEF CommitAiQuery, Record, AiQuery
  <2>4. QED
    BY <1>2, <2>2, <2>3 DEF TypeOK
<1>7. CASE ReleaseReservation(x)
  <2>1. x.command.amount = Cost /\ r \in Reservations
    BY <1>7, TransactionFields DEF ReleaseReservation
  <2>2. outbox' \in Seq(OutboxRow)
    BY <1>4, <1>7, <2>1 DEF ReleaseReservation, OutboxRow
  <2>3. aiQueries' \in [Reservations -> AiQuery]
    BY <1>4, <1>7, <2>1 DEF ReleaseReservation, Record, AiQuery
  <2>4. QED
    BY <1>2, <2>2, <2>3 DEF TypeOK
<1>8. CASE RefundCredits(x) \/ SpendCredits(x) \/ ReserveCredits(x)
  BY <1>2, <1>4, <1>8 DEF RefundCredits, SpendCredits, ReserveCredits, TypeOK
<1>9. QED
  BY <1>5, <1>6, <1>7, <1>8 DEF Saving

-------------------------------------------------------------------------------
(* What each handler does to the wallet, seen from outside *)

\* The effect of a save on balance and statuses, by command.  It is the content
\* of the refinement: each line is one action of Wallet.
LEMMA WalletEffect ==
  ASSUME TypeOK, StreamIsGapless, SnapshotsAreCurrentOrStale, ReservesAreFresh,
         NEW x \in inflight, Saving(x)
  PROVE  LET c == x.command
             r == x.command.reservationId
         IN
         \/ /\ c.kind \in {"Grant", "Refund"} /\ c.amount \in Amounts
            /\ account'.balance = account.balance + c.amount
            /\ account'.reservations = account.reservations
         \/ /\ c.kind = "Spend" /\ c.amount \in Amounts
            /\ c.amount <= Available(account)
            /\ account'.balance = account.balance - c.amount
            /\ account'.reservations = account.reservations
         \/ /\ c.kind = "Reserve" /\ r \in issued
            /\ Cost <= Available(account)
            /\ account.reservations[r] = "NONE"
            /\ account'.balance = account.balance
            /\ account'.reservations = [account.reservations EXCEPT ![r] = "OPEN"]
         \/ /\ c.kind = "Commit" /\ r \in Reservations
            /\ account.reservations[r] = "OPEN"
            /\ account'.balance = account.balance - Cost
            /\ account'.reservations = [account.reservations EXCEPT ![r] = "COMMITTED"]
         \/ /\ c.kind = "Release" /\ r \in Reservations
            /\ account.reservations[r] = "OPEN"
            /\ account'.balance = account.balance
            /\ account'.reservations = [account.reservations EXCEPT ![r] = "RELEASED"]
<1> DEFINE c == x.command
           r == x.command.reservationId
           e == EventOf(x, Raised[c.kind])
<1>1. /\ account' = Apply(account, e) /\ x.account = account
      /\ e.eventType = Raised[c.kind] /\ e.amount = c.amount /\ e.reservationId = r
  BY SavingSaves, SaveEffect, RaisedIsARow
<1> HIDE DEF e
<1>2. /\ account'.balance = account.balance + Moves(e)
      /\ account'.reservations = IF e.eventType \in ReservationEvents
           THEN [account.reservations EXCEPT ![r] = StatusAfter[e.eventType]]
           ELSE account.reservations
  BY <1>1 DEF Apply
<1>3. /\ account.balance \in Int
      /\ \A n \in Amounts \cup {Cost} : n \in Int
  BY CreditAssumption DEF TypeOK, CreditAccount
<1>4. CASE GrantCredits(x) \/ RefundCredits(x)
  <2>1. c.kind \in {"Grant", "Refund"} /\ c.amount \in Amounts
    BY <1>4, TransactionFields DEF GrantCredits, RefundCredits
  <2>2. e.eventType \in {"CreditGranted", "CreditRefunded"}
    BY <1>1, <2>1 DEF Raised
  <2>3. QED
    BY <1>1, <1>2, <2>1, <2>2 DEF Moves, ReservationEvents
<1>5. CASE SpendCredits(x)
  <2>1. c.kind = "Spend" /\ c.amount \in Amounts /\ c.amount <= Available(account)
    BY <1>1, <1>5, TransactionFields DEF SpendCredits
  <2>2. e.eventType = "CreditSpent"
    BY <1>1, <2>1 DEF Raised
  <2>3. QED
    BY <1>1, <1>2, <1>3, <2>1, <2>2 DEF Moves, ReservationEvents
<1>6. CASE ReserveCredits(x)
  <2>1. c.kind = "Reserve" /\ c.amount = Cost /\ Cost <= Available(account)
    BY <1>1, <1>6, TransactionFields DEF ReserveCredits
  <2>2. r \in issued /\ account.reservations[r] = "NONE"
    BY <2>1 DEF ReservesAreFresh
  <2>3. e.eventType = "CreditReserved"
    BY <1>1, <2>1 DEF Raised
  <2>4. QED
    BY <1>2, <1>3, <2>1, <2>2, <2>3 DEF Moves, ReservationEvents, StatusAfter
<1>7. CASE CommitAiQuery(x)
  <2>1. /\ c.kind = "Commit" /\ c.amount = Cost /\ r \in Reservations
        /\ account.reservations[r] = "OPEN"
    BY <1>1, <1>7, TransactionFields DEF CommitAiQuery
  <2>2. e.eventType = "CreditReservationCommitted"
    BY <1>1, <2>1 DEF Raised
  <2>3. account'.balance = account.balance - Cost
    BY <1>1, <1>2, <1>3, <2>1, <2>2 DEF Moves
  <2>4. account'.reservations = [account.reservations EXCEPT ![r] = "COMMITTED"]
    BY <1>2, <2>2 DEF ReservationEvents, StatusAfter
  <2>5. QED
    BY <2>1, <2>3, <2>4
<1>8. CASE ReleaseReservation(x)
  <2>1. /\ c.kind = "Release" /\ c.amount = Cost /\ r \in Reservations
        /\ account.reservations[r] = "OPEN"
    BY <1>1, <1>8, TransactionFields DEF ReleaseReservation
  <2>2. e.eventType = "CreditReservationReleased"
    BY <1>1, <2>1 DEF Raised
  <2>3. account'.balance = account.balance
    BY <1>2, <1>3, <2>2 DEF Moves
  <2>4. account'.reservations = [account.reservations EXCEPT ![r] = "RELEASED"]
    BY <1>2, <2>2 DEF ReservationEvents, StatusAfter
  <2>5. QED
    BY <2>1, <2>3, <2>4
<1>9. QED
  BY <1>4, <1>5, <1>6, <1>7, <1>8 DEF Saving

-------------------------------------------------------------------------------
(* Each conjunct of the invariant survives a save *)

\* The versions stay 1..n: the row a save appends is number Len(ledger) + 1, and
\* no transaction still open has loaded anything newer.
LEMMA StreamSurvivesSave ==
  ASSUME TypeOK, StreamIsGapless, SnapshotsAreCurrentOrStale, NEW x \in inflight, Saving(x)
  PROVE  StreamIsGapless' /\ SnapshotsAreCurrentOrStale'
<1> DEFINE e == EventOf(x, Raised[x.command.kind])
<1>1. /\ e.version = Len(ledger) + 1
      /\ Len(ledger') = Len(ledger) + 1
      /\ DOMAIN ledger' = DOMAIN ledger \cup {Len(ledger) + 1}
      /\ ledger'[Len(ledger) + 1] = e
      /\ \A i \in DOMAIN ledger : ledger'[i] = ledger[i]
      /\ account'.version = Len(ledger')
      /\ inflight' = inflight \ {x}
  BY SavingSaves, SaveEffect
<1>2. Len(ledger) \in Nat /\ \A y \in inflight : y.account.version \in Nat
  BY TransactionFields DEF TypeOK
<1>3. \A y \in inflight' : y.account.version < Len(ledger')
  BY <1>1, <1>2 DEF StreamIsGapless
<1>4. StreamIsGapless'
  BY <1>1, <1>2, <1>3 DEF StreamIsGapless
<1>5. SnapshotsAreCurrentOrStale'
  BY <1>1, <1>2, <1>3 DEF SnapshotsAreCurrentOrStale
<1>6. QED
  BY <1>4, <1>5

\* The only reserve of an id ends with its own save, so no pending reserve ever
\* finds its id used.
LEMMA FreshnessSurvivesSave ==
  ASSUME TypeOK, StreamIsGapless, SnapshotsAreCurrentOrStale, ReservesAreFresh,
         NEW x \in inflight, Saving(x)
  PROVE  ReservesAreFresh'
<1> DEFINE c == x.command
           r == x.command.reservationId
<1>1. inflight' = inflight \ {x} /\ issued' = issued
  BY SavingSaves, SaveEffect
<1>2. ASSUME NEW q \in Reservations, account.reservations[q] = "NONE",
             account'.reservations[q] # "NONE"
      PROVE  c.kind = "Reserve" /\ r = q /\ r \in issued
  BY <1>2, WalletEffect DEF TypeOK, CreditAccount
<1>3. \A q \in Reservations \ issued : account'.reservations[q] = "NONE"
  BY <1>2 DEF ReservesAreFresh
<1>4. ASSUME NEW y \in inflight', y.command.kind = "Reserve"
      PROVE  account'.reservations[y.command.reservationId] = "NONE"
  <2>1. /\ y \in inflight /\ y # x /\ y.command.reservationId \in Reservations
        /\ account.reservations[y.command.reservationId] = "NONE"
    BY <1>1, <1>4, TransactionFields DEF ReservesAreFresh
  <2>2. ~(c.kind = "Reserve" /\ r = y.command.reservationId)
    BY <1>4, <2>1 DEF ReservesAreFresh
  <2>3. QED
    BY <1>2, <2>1, <2>2
<1>5. QED
  BY <1>1, <1>3, <1>4 DEF ReservesAreFresh

\* Each settling save writes the AiQuery record its event calls for, and no
\* other save writes one.
LEMMA HistorySurvivesSave ==
  ASSUME TypeOK, StreamIsGapless, SnapshotsAreCurrentOrStale, ReservesAreFresh,
         HistoryMatchesLedger, NEW x \in inflight, Saving(x)
  PROVE  HistoryMatchesLedger'
<1> DEFINE c == x.command
           r == x.command.reservationId
<1> USE DEF HistoryOf
<1>1. /\ aiQueries \in [Reservations -> AiQuery]
      /\ account.reservations \in [Reservations -> ReservationStatus]
  BY DEF TypeOK, CreditAccount
<1>2. CASE GrantCredits(x) \/ RefundCredits(x) \/ SpendCredits(x)
  <2>1. aiQueries' = aiQueries /\ c.kind \in {"Grant", "Refund", "Spend"}
    BY <1>2 DEF GrantCredits, RefundCredits, SpendCredits
  <2>2. account'.reservations = account.reservations
    BY <2>1, WalletEffect
  <2>3. QED
    BY <2>1, <2>2 DEF HistoryMatchesLedger
<1>3. CASE ReserveCredits(x)
  <2>1. aiQueries' = aiQueries /\ c.kind = "Reserve"
    BY <1>3 DEF ReserveCredits
  <2>2. /\ account.reservations[r] = "NONE"
        /\ account'.reservations = [account.reservations EXCEPT ![r] = "OPEN"]
    BY <2>1, WalletEffect
  <2>3. QED
    BY <1>1, <2>1, <2>2 DEF HistoryMatchesLedger
<1>4. CASE CommitAiQuery(x)
  <2>1. /\ c.kind = "Commit" /\ c.amount = Cost
        /\ aiQueries' = [aiQueries EXCEPT ![r] = [status |-> "ANSWERED", creditCost |-> Cost]]
    BY <1>4, TransactionFields DEF CommitAiQuery, Record
  <2>2. account'.reservations = [account.reservations EXCEPT ![r] = "COMMITTED"]
    BY <2>1, WalletEffect
  <2>3. QED
    BY <1>1, <2>1, <2>2 DEF HistoryMatchesLedger
<1>5. CASE ReleaseReservation(x)
  <2>1. /\ c.kind = "Release"
        /\ aiQueries' = [aiQueries EXCEPT ![r] = [status |-> "FAILED", creditCost |-> 0]]
    BY <1>5 DEF ReleaseReservation, Record
  <2>2. account'.reservations = [account.reservations EXCEPT ![r] = "RELEASED"]
    BY <2>1, WalletEffect
  <2>3. QED
    BY <1>1, <2>1, <2>2 DEF HistoryMatchesLedger
<1>6. QED
  BY <1>2, <1>3, <1>4, <1>5 DEF Saving

\* Opening or settling one reservation moves the number of open ones by one.
LEMMA OpenCount ==
  ASSUME NEW S \in [Reservations -> ReservationStatus],
         NEW q \in Reservations, NEW v \in ReservationStatus
  PROVE  LET open(f) == {p \in Reservations : f[p] = "OPEN"}
             f == [S EXCEPT ![q] = v]
         IN /\ Cardinality(open(S)) \in Nat
            /\ S[q] # "OPEN" /\ v = "OPEN" => Cardinality(open(f)) = Cardinality(open(S)) + 1
            /\ S[q] = "OPEN" /\ v # "OPEN" => Cardinality(open(f)) = Cardinality(open(S)) - 1
<1> DEFINE open(f) == {p \in Reservations : f[p] = "OPEN"}
           g == [S EXCEPT ![q] = v]
<1>1. IsFiniteSet(open(S))
  BY CreditAssumption, FS_Subset
<1>2. Cardinality(open(S)) \in Nat
  BY <1>1, FS_CardinalityType
<1>3. CASE S[q] # "OPEN" /\ v = "OPEN"
  <2>1. open(g) = open(S) \cup {q} /\ q \notin open(S)
    BY <1>3
  <2>2. QED
    BY <1>1, <1>2, <1>3, <2>1, FS_AddElement
<1>4. CASE S[q] = "OPEN" /\ v # "OPEN"
  <2>1. open(g) = open(S) \ {q} /\ q \in open(S)
    BY <1>4
  <2>2. Cardinality(open(S) \ {q}) = Cardinality(open(S)) - 1
    BY <1>1, <2>1, FS_RemoveElement
  <2>3. QED
    BY <1>2, <1>4, <2>1, <2>2
<1>5. QED
  BY <1>2, <1>3, <1>4

\* Multiplying one more or one less hold by the cost.
LEMMA OneMoreHold ==
  ASSUME NEW n \in Nat, NEW c \in Nat
  PROVE  /\ c * n \in Nat
         /\ c * (n + 1) = c * n + c
         /\ n - 1 \in Nat => c * (n - 1) = c * n - c
<1>1. c * n \in Nat
  BY SMT
<1>2. c * (n + 1) = c * n + c
  BY SMT
<1>3. c * (n - 1) = c * n - c
  BY SMT
<1>4. QED
  BY <1>1, <1>2, <1>3

\* A reserve or a spend was checked against the present `available`; a commit or
\* a release takes from the balance no more than the hold it ends.
LEMMA NoOverdraftSurvivesSave ==
  ASSUME TypeOK, StreamIsGapless, SnapshotsAreCurrentOrStale, ReservesAreFresh,
         NoOverdraft, NEW x \in inflight, Saving(x)
  PROVE  NoOverdraft'
<1> DEFINE c == x.command
           r == x.command.reservationId
           n == Cardinality(OpenReservations(account))
           m == Cardinality(OpenReservations(account'))
<1>1. /\ account.balance \in Int
      /\ account.reservations \in [Reservations -> ReservationStatus]
  BY DEF TypeOK, CreditAccount
<1>2. Cost \in Nat /\ \A a \in Amounts : a \in Nat
  BY CreditAssumption
<1>3. n \in Nat
  BY <1>1, CreditAssumption, FS_Subset, FS_CardinalityType DEF OpenReservations
<1>4. Available(account) = account.balance - Cost * n
  BY DEF Available, Reserved
<1>5. Available(account)' = account'.balance - Cost * m
  BY DEF Available, Reserved, OpenReservations
<1>6. Cost * n \in Nat /\ Cost * n <= account.balance
  BY <1>1, <1>2, <1>3, <1>4, OneMoreHold DEF NoOverdraft
<1> HIDE DEF n, m
<1>7. CASE c.kind \in {"Grant", "Refund", "Spend"}
  <2>1. /\ account'.reservations = account.reservations
        /\ \/ account'.balance = account.balance + c.amount
           \/ /\ account'.balance = account.balance - c.amount
              /\ c.amount <= Available(account)
        /\ c.amount \in Nat
    BY <1>2, <1>7, WalletEffect
  <2>2. m = n
    BY <2>1 DEF m, n, OpenReservations
  <2>3. QED
    BY <1>1, <1>4, <1>5, <1>6, <2>1, <2>2 DEF NoOverdraft
<1>8. CASE c.kind = "Reserve"
  <2>1. /\ account'.balance = account.balance /\ Cost <= Available(account)
        /\ account.reservations[r] = "NONE"
        /\ account'.reservations = [account.reservations EXCEPT ![r] = "OPEN"]
        /\ r \in Reservations
    BY <1>8, WalletEffect, TransactionFields
  <2>2. m = n + 1
    BY <1>1, <2>1, OpenCount DEF m, n, OpenReservations, ReservationStatus
  <2>3. Cost * m = Cost * n + Cost
    BY <1>2, <1>3, <2>2, OneMoreHold
  <2>4. QED
    BY <1>1, <1>2, <1>4, <1>5, <1>6, <2>1, <2>3 DEF NoOverdraft
<1>9. CASE c.kind = "Commit"
  <2>1. /\ account'.balance = account.balance - Cost
        /\ account.reservations[r] = "OPEN" /\ r \in Reservations
        /\ account'.reservations = [account.reservations EXCEPT ![r] = "COMMITTED"]
    BY <1>9, WalletEffect
  <2>2. m = n - 1
    BY <1>1, <2>1, OpenCount DEF m, n, OpenReservations, ReservationStatus
  <2>3. m \in Nat
    BY <1>1, <2>1, CreditAssumption, FS_Subset, FS_CardinalityType DEF m, OpenReservations
  <2>4. Cost * m = Cost * n - Cost
    BY <1>2, <1>3, <2>2, <2>3, OneMoreHold
  <2>5. QED
    BY <1>1, <1>2, <1>4, <1>5, <1>6, <2>1, <2>4 DEF NoOverdraft
<1>10. CASE c.kind = "Release"
  <2>1. /\ account'.balance = account.balance
        /\ account.reservations[r] = "OPEN" /\ r \in Reservations
        /\ account'.reservations = [account.reservations EXCEPT ![r] = "RELEASED"]
    BY <1>10, WalletEffect
  <2>2. m = n - 1
    BY <1>1, <2>1, OpenCount DEF m, n, OpenReservations, ReservationStatus
  <2>3. m \in Nat
    BY <1>1, <2>1, CreditAssumption, FS_Subset, FS_CardinalityType DEF m, OpenReservations
  <2>4. Cost * m = Cost * n - Cost
    BY <1>2, <1>3, <2>2, <2>3, OneMoreHold
  <2>5. QED
    BY <1>1, <1>2, <1>4, <1>5, <1>6, <2>1, <2>4 DEF NoOverdraft
<1>11. QED
  BY <1>7, <1>8, <1>9, <1>10, TransactionFields

\* A save adds its own row to the rows of its reservation and to no other.
LEMMA RowsAfterSave ==
  ASSUME TypeOK, StreamIsGapless, SnapshotsAreCurrentOrStale,
         NEW x \in inflight, Saving(x), NEW types, NEW q
  PROVE  /\ Rows(types, q)' =
              IF Raised[x.command.kind] \in types /\ x.command.reservationId = q
                THEN Rows(types, q) \cup {Len(ledger) + 1}
                ELSE Rows(types, q)
         /\ \A i \in Rows(types, q) : i < Len(ledger) + 1
<1> DEFINE e == EventOf(x, Raised[x.command.kind])
           n == Len(ledger) + 1
<1>1. /\ DOMAIN ledger' = DOMAIN ledger \cup {n}
      /\ n \notin DOMAIN ledger
      /\ ledger'[n] = e
      /\ \A i \in DOMAIN ledger : ledger'[i] = ledger[i] /\ i < n
  BY SavingSaves, SaveEffect
<1>2. e.eventType = Raised[x.command.kind] /\ e.reservationId = x.command.reservationId
  BY RaisedIsARow
<1> HIDE DEF e, n
<1>3. QED
  BY <1>1, <1>2 DEF Rows, n

\* A reservation gets its second row only by leaving OPEN, so it never gets two
\* of a kind, and its settling row comes after the holding one.
LEMMA RowsSurviveSave ==
  ASSUME TypeOK, StreamIsGapless, SnapshotsAreCurrentOrStale, ReservesAreFresh,
         RowsMatchStatus, SettledAtMostOnce, NEW x \in inflight, Saving(x)
  PROVE  RowsMatchStatus' /\ SettledAtMostOnce'
<1> DEFINE c == x.command
           r == x.command.reservationId
           n == Len(ledger) + 1
           Holding == {"CreditReserved"}
           Settling == {"CreditReservationCommitted", "CreditReservationReleased"}
<1>1. account.reservations \in [Reservations -> ReservationStatus]
  BY DEF TypeOK, CreditAccount
<1> SUFFICES ASSUME NEW q \in Reservations
             PROVE  LET h == Rows(Holding, q)'
                        s == Rows(Settling, q)'
                        status == account'.reservations[q]
                    IN /\ status = "NONE" <=> h = {}
                       /\ status \in {"NONE", "OPEN"} <=> s = {}
                       /\ \A i, j \in h : i = j
                       /\ \A i, j \in s : i = j
                       /\ \A i \in s : \E j \in h : j < i
  BY DEF RowsMatchStatus, SettledAtMostOnce, Rows
<1>2. LET h == Rows(Holding, q)
          s == Rows(Settling, q)
          status == account.reservations[q]
      IN /\ status = "NONE" <=> h = {}
         /\ status \in {"NONE", "OPEN"} <=> s = {}
         /\ \A i, j \in h : i = j
         /\ \A i, j \in s : i = j
         /\ \A i \in s : \E j \in h : j < i
         /\ \A i \in h : i < n
  BY RowsAfterSave DEF RowsMatchStatus, SettledAtMostOnce
<1>3. CASE c.kind \in {"Grant", "Refund", "Spend"} \/ r # q
  <2>1. account'.reservations[q] = account.reservations[q]
    BY <1>1, <1>3, WalletEffect
  <2>2. Rows(Holding, q)' = Rows(Holding, q) /\ Rows(Settling, q)' = Rows(Settling, q)
    BY <1>3, RowsAfterSave DEF Raised
  <2>3. QED
    BY <1>2, <2>1, <2>2
<1>4. CASE c.kind = "Reserve" /\ r = q
  <2>1. account.reservations[q] = "NONE" /\ account'.reservations[q] = "OPEN"
    BY <1>1, <1>4, WalletEffect
  <2>2. Rows(Holding, q)' = Rows(Holding, q) \cup {n} /\ Rows(Settling, q)' = Rows(Settling, q)
    BY <1>4, RowsAfterSave DEF Raised
  <2>3. QED
    BY <1>2, <2>1, <2>2
<1>5. CASE c.kind \in {"Commit", "Release"} /\ r = q
  <2>1. account.reservations[q] = "OPEN" /\ account'.reservations[q] \in {"COMMITTED", "RELEASED"}
    BY <1>1, <1>5, WalletEffect
  <2>2. Rows(Holding, q)' = Rows(Holding, q) /\ Rows(Settling, q)' = Rows(Settling, q) \cup {n}
    BY <1>5, RowsAfterSave DEF Raised
  <2>3. QED
    BY <1>2, <2>1, <2>2
<1>6. QED
  BY <1>3, <1>4, <1>5, TransactionFields

-------------------------------------------------------------------------------
(* The steps that write no row *)

\* Beginning, retrying, refusing and aborting touch only the open transactions,
\* and a transaction they open or reload holds the present account.
LEMMA QuietSteps ==
  ASSUME IInv,
         \/ \E t \in Txns, c \in Command : Begin(t, c)
         \/ \E x \in inflight : Refuse(x) \/ Abort(x) \/ Retry(x)
         \/ UNCHANGED vars
  PROVE  IInv' /\ UNCHANGED account
<1> USE DEF IInv
<1>1. ASSUME UNCHANGED <<ledger, account, aiQueries, outbox>>,
             inflight' \subseteq Transaction, issued' \subseteq Reservations,
             \A y \in inflight' : y.account = account \/ \E z \in inflight : z.account = y.account,
             ReservesAreFresh'
      PROVE  IInv'
  <2>1. account.version = Len(ledger)
    BY DEF SnapshotsAreCurrentOrStale
  <2>2. Len(ledger) \in Nat
    BY DEF TypeOK
  <2>3. TypeOK'
    BY <1>1 DEF TypeOK
  <2>4. StreamIsGapless' /\ SnapshotsAreCurrentOrStale'
    BY <1>1, <2>1, <2>2 DEF StreamIsGapless, SnapshotsAreCurrentOrStale
  <2>5. RowsMatchStatus' /\ SettledAtMostOnce' /\ HistoryMatchesLedger' /\ NoOverdraft'
    BY <1>1 DEF RowsMatchStatus, SettledAtMostOnce, Rows, HistoryMatchesLedger,
                NoOverdraft, Available, Reserved, OpenReservations
  <2>6. QED
    BY <1>1, <2>3, <2>4, <2>5
<1>2. ASSUME NEW t \in Txns, NEW c \in Command, Begin(t, c)
      PROVE  IInv'
  <2> DEFINE x == [id |-> t, command |-> c, account |-> account]
  <2>1. /\ inflight' = inflight \cup {x} /\ UNCHANGED <<ledger, account, aiQueries, outbox>>
        /\ x \in Transaction
    BY <1>2 DEF Begin, TypeOK, Transaction
  <2>2. x.command = c /\ x.account = account
    OBVIOUS
  <2>3. CASE c.kind = "Reserve"
    <3>1. /\ c.reservationId \notin issued /\ issued' = issued \cup {c.reservationId}
          /\ c.reservationId \in Reservations
      BY <1>2, <2>3 DEF Begin, Command
    <3>2. \A y \in inflight : y.command.kind = "Reserve" =>
            y.command.reservationId # c.reservationId
      BY <3>1 DEF ReservesAreFresh
    <3>3. ReservesAreFresh'
      BY <2>1, <2>2, <2>3, <3>1, <3>2 DEF ReservesAreFresh
    <3>4. QED
      BY <1>1, <2>1, <2>2, <3>1, <3>3 DEF TypeOK
  <2>4. CASE c.kind # "Reserve"
    <3>1. issued' = issued
      BY <1>2, <2>4 DEF Begin
    <3>2. ReservesAreFresh'
      BY <2>1, <2>2, <2>4, <3>1 DEF ReservesAreFresh
    <3>3. QED
      BY <1>1, <2>1, <2>2, <3>1, <3>2 DEF TypeOK
  <2>5. QED
    BY <2>3, <2>4
<1>3. ASSUME NEW x \in inflight, Rollback(x)
      PROVE  IInv'
  <2>1. inflight' \subseteq inflight /\ UNCHANGED <<ledger, account, issued, aiQueries, outbox>>
    BY <1>3 DEF Rollback
  <2>2. ReservesAreFresh'
    BY <2>1 DEF ReservesAreFresh
  <2>3. QED
    BY <1>1, <2>1, <2>2 DEF TypeOK
<1>4. ASSUME NEW x \in inflight, Retry(x)
      PROVE  IInv'
  <2> DEFINE y == [x EXCEPT !.account = account]
  <2>1. /\ inflight' = (inflight \ {x}) \cup {y}
        /\ UNCHANGED <<ledger, account, issued, aiQueries, outbox>>
    BY <1>4 DEF Retry
  <2>2. y \in Transaction /\ y.account = account /\ y.command = x.command
    BY DEF TypeOK, Transaction
  <2> HIDE DEF y
  <2>3. ReservesAreFresh'
    <3>1. /\ y \in inflight' /\ issued' = issued /\ account' = account
          /\ \A z \in inflight' : z = y \/ z \in inflight \ {x}
      BY <2>1
    <3>2. ASSUME NEW z \in inflight', z.command.kind = "Reserve"
          PROVE  /\ z.command.reservationId \in issued
                 /\ account.reservations[z.command.reservationId] = "NONE"
      BY <2>2, <3>1, <3>2 DEF ReservesAreFresh
    <3>3. ASSUME NEW z \in inflight', NEW w \in inflight',
                 z.command.kind = "Reserve", w.command.kind = "Reserve",
                 w.command.reservationId = z.command.reservationId
          PROVE  w = z
      BY <2>2, <3>1, <3>3 DEF ReservesAreFresh
    <3>4. QED
      BY <3>1, <3>2, <3>3 DEF ReservesAreFresh
  <2>4. QED
    BY <1>1, <2>1, <2>2, <2>3 DEF TypeOK
<1>5. CASE UNCHANGED vars
  BY <1>1, <1>5 DEF vars, TypeOK, ReservesAreFresh
<1>6. UNCHANGED account
  BY DEF Begin, Refuse, Abort, Retry, Rollback, vars
<1>7. QED
  BY <1>2, <1>3, <1>4, <1>5, <1>6 DEF Refuse, Abort

-------------------------------------------------------------------------------
(* The invariant and the theorems *)

\* An empty ledger satisfies the invariant.
LEMMA InitIInv == Init => IInv
<1> SUFFICES ASSUME Init PROVE IInv
  OBVIOUS
<1> USE DEF Init, Open
<1>1. TypeOK
  BY DEF TypeOK, CreditAccount, ReservationStatus, AiQuery
<1>2. StreamIsGapless /\ SnapshotsAreCurrentOrStale /\ ReservesAreFresh
  BY DEF StreamIsGapless, SnapshotsAreCurrentOrStale, ReservesAreFresh
<1>3. RowsMatchStatus /\ SettledAtMostOnce
  BY DEF RowsMatchStatus, SettledAtMostOnce, Rows
<1>4. HistoryMatchesLedger
  BY DEF HistoryMatchesLedger, HistoryOf
<1>5. NoOverdraft
  <2>1. OpenReservations(account) = {}
    BY DEF OpenReservations
  <2>2. Cardinality(OpenReservations(account)) = 0
    BY <2>1, FS_EmptySet
  <2>3. Reserved(account) = 0
    BY <2>2, CreditAssumption DEF Reserved
  <2>4. QED
    BY <2>3 DEF NoOverdraft, Available
<1>6. QED
  BY <1>1, <1>2, <1>3, <1>4, <1>5 DEF IInv

\* Every step, of whichever transaction, preserves the invariant.
LEMMA NextIInv == IInv /\ [Next]_vars => IInv'
<1> SUFFICES ASSUME IInv, [Next]_vars PROVE IInv'
  OBVIOUS
<1>1. ASSUME NEW x \in inflight, Saving(x)
      PROVE  IInv'
  <2> USE DEF IInv
  <2>1. TypeOK'
    BY <1>1, SavingType
  <2>2. StreamIsGapless' /\ SnapshotsAreCurrentOrStale'
    BY <1>1, StreamSurvivesSave
  <2>3. ReservesAreFresh'
    BY <1>1, FreshnessSurvivesSave
  <2>4. RowsMatchStatus' /\ SettledAtMostOnce'
    BY <1>1, RowsSurviveSave
  <2>5. HistoryMatchesLedger'
    BY <1>1, HistorySurvivesSave
  <2>6. NoOverdraft'
    BY <1>1, NoOverdraftSurvivesSave
  <2>7. QED
    BY <2>1, <2>2, <2>3, <2>4, <2>5, <2>6
<1>2. QED
  BY <1>1, QuietSteps DEF Next, Step, Saving

\* Every reachable state of the transactions satisfies the inductive invariant.
THEOREM Inductive == Spec => []IInv
BY InitIInv, NextIInv, PTL DEF Spec

\* Types, for every number of transactions, reservations and events.
THEOREM TypeCorrect == Spec => []TypeOK
<1>1. IInv => TypeOK
  BY DEF IInv
<1>2. QED
  BY <1>1, Inductive, PTL

\* Whatever the interleaving of loads and saves, the open holds never exceed the
\* balance: the claim the aggregate's doc makes of checking `available`.
THEOREM OverdraftFree == Spec => []NoOverdraft
<1>1. IInv => NoOverdraft
  BY DEF IInv
<1>2. QED
  BY <1>1, Inductive, PTL

\* The unique index alone serialises the wallet: versions are 1..n in commit order.
THEOREM Gapless == Spec => []StreamIsGapless
<1>1. IInv => StreamIsGapless
  BY DEF IInv
<1>2. QED
  BY <1>1, Inductive, PTL

\* A reservation has one hold and at most one settlement, after it, however often
\* commits and releases of it are started, retried and raced.
THEOREM SettledOnce == Spec => []SettledAtMostOnce
<1>1. IInv => SettledAtMostOnce
  BY DEF IInv
<1>2. QED
  BY <1>1, Inductive, PTL

\* An answer is on record exactly for the charged holds, a failure exactly for
\* the released ones.
THEOREM HistoryAgrees == Spec => []HistoryMatchesLedger
<1>1. IInv => HistoryMatchesLedger
  BY DEF IInv
<1>2. QED
  BY <1>1, Inductive, PTL

\* A save is one atomic wallet operation, every other step a stutter of it.
LEMMA StepSimulation == IInv /\ [Next]_vars => [W!Next]_(W!wvars)
<1> SUFFICES ASSUME IInv, [Next]_vars PROVE [W!Next]_(W!wvars)
  OBVIOUS
<1> USE DEF IInv
<1>1. Available(account) = W!Spendable
  <2>1. \A S : W!Cardinality(S) = Cardinality(S)
    BY DEF Cardinality, W!Cardinality
  <2>2. QED
    BY <2>1 DEF Available, Reserved, OpenReservations, W!Spendable, W!Held
<1>2. ASSUME NEW x \in inflight, Saving(x)
      PROVE  W!Next
  <2>1. x.command.kind \in {"Reserve"} => x.command.reservationId \in Reservations
    BY TransactionFields
  <2>2. QED
    BY <1>1, <1>2, <2>1, WalletEffect
       DEF W!Next, W!Deposit, W!Spend, W!Reserve, W!Commit, W!Release
<1>3. CASE UNCHANGED account
  BY <1>3 DEF W!wvars
<1>4. QED
  BY <1>2, <1>3, QuietSteps DEF Next, Step, Saving

\* Interleaved transactions on the event stream implement the atomic wallet.
THEOREM Refinement == Spec => RefinesWallet
<1>1. Init => W!Init
  BY DEF Init, Open, W!Init
<1>2. QED
  BY <1>1, StepSimulation, Inductive, PTL DEF Spec, RefinesWallet, W!Spec

-------------------------------------------------------------------------------
(* Folds over the stream *)

\* Induction on a set of numbers: a least number outside it has a predecessor in it.
LEMMA Induction ==
  ASSUME NEW S, 0 \in S, \A n \in Nat : n \in S => n + 1 \in S
  PROVE  Nat \subseteq S
<1> DEFINE T == Nat \ S
           R == OpToRel(<, Nat)
<1>1. CASE T # {}
  <2>1. PICK x \in T : \A y \in T : ~ (<<y, x>> \in R)
    <3> HIDE DEF T, R
    <3> QED
      BY <1>1, WFMin, NatLessThanWellFounded DEF R, T
  <2>2. x \in Nat /\ x # 0 /\ x - 1 \in T
    OBVIOUS
  <2>3. <<x - 1, x>> \in R
    BY <2>2 DEF OpToRel
  <2>4. QED
    BY <2>1, <2>2, <2>3
<1>2. QED
  BY <1>1

\* The last index of a set that reaches up to n + 1.
LEMMA LastIndex ==
  ASSUME NEW n \in Nat, NEW s \in SUBSET (1 .. n + 1), n + 1 \in s
  PROVE  Max(s) = n + 1
<1> DEFINE IsLast(x) == x \in s /\ \A y \in s : x >= y
<1>1. IsLast(n + 1)
  OBVIOUS
<1>2. \A x : IsLast(x) => x = n + 1
  OBVIOUS
<1>3. Max(s) = CHOOSE x : IsLast(x)
  BY DEF Max
<1> HIDE DEF IsLast
<1>4. QED
  BY <1>1, <1>2, <1>3

\* The steps of a fold, as functions: F[k] takes the result so far to the one
\* that counts row k.  A fold of n rows is a recursive function on the sets of
\* indices still to do; such a function exists for every n.
Folding(F, base, n, g) ==
  g = [s \in SUBSET (1 .. n) |-> IF s = {} THEN base ELSE F[Max(s)][g[s \ {Max(s)}]]]

LEMMA FoldingExists ==
  ASSUME NEW A, NEW base \in A, NEW m \in Nat, NEW F \in [1 .. m -> [A -> A]]
  PROVE  \E g \in [SUBSET (1 .. m) -> A] : Folding(F, base, m, g)
<1> DEFINE Exists(n) == \E g \in [SUBSET (1 .. n) -> A] : Folding(F, base, n, g)
           S == {n \in Nat : n <= m => Exists(n)}
<1>1. Exists(0)
  <2>1. \A s \in SUBSET (1 .. 0) : s = {}
    OBVIOUS
  <2> DEFINE g == [s \in SUBSET (1 .. 0) |-> base]
  <2>2. g \in [SUBSET (1 .. 0) -> A] /\ Folding(F, base, 0, g)
    BY <2>1 DEF Folding
  <2>3. QED
    BY <2>2
<1>2. ASSUME NEW n \in Nat, n + 1 <= m, Exists(n)
      PROVE  Exists(n + 1)
  <2>1. PICK g \in [SUBSET (1 .. n) -> A] : Folding(F, base, n, g)
    BY <1>2
  <2> DEFINE h == [s \in SUBSET (1 .. n + 1) |->
                     IF n + 1 \in s THEN F[n + 1][g[s \ {n + 1}]] ELSE g[s]]
  <2>2. \A s \in SUBSET (1 .. n + 1) :
          IF n + 1 \in s THEN s \ {n + 1} \in SUBSET (1 .. n) ELSE s \in SUBSET (1 .. n)
    OBVIOUS
  <2>3. h \in [SUBSET (1 .. n + 1) -> A]
    <3>1. F[n + 1] \in [A -> A]
      BY <1>2
    <3>2. QED
      BY <2>2, <3>1
  <2>4. ASSUME NEW s \in SUBSET (1 .. n + 1)
        PROVE  h[s] = IF s = {} THEN base ELSE F[Max(s)][h[s \ {Max(s)}]]
    <3>1. CASE n + 1 \in s
      <4>1. Max(s) = n + 1
        BY <3>1, LastIndex
      <4>2. h[s] = F[n + 1][g[s \ {n + 1}]] /\ h[s \ {n + 1}] = g[s \ {n + 1}]
        BY <2>2, <3>1
      <4>3. QED
        BY <3>1, <4>1, <4>2
    <3>2. CASE n + 1 \notin s
      <4>1. s \in SUBSET (1 .. n) /\ h[s] = g[s]
        BY <2>2, <3>2
      <4>2. g[s] = IF s = {} THEN base ELSE F[Max(s)][g[s \ {Max(s)}]]
        BY <2>1, <4>1 DEF Folding
      <4>3. h[s \ {Max(s)}] = g[s \ {Max(s)}]
        BY <3>2
      <4>4. QED
        BY <4>1, <4>2, <4>3
    <3>3. QED
      BY <3>1, <3>2
  <2>5. Folding(F, base, n + 1, h)
    <3> HIDE DEF h
    <3>1. DOMAIN h = SUBSET (1 .. n + 1)
      BY <2>3
    <3>2. QED
      BY <2>3, <2>4 DEF Folding
  <2>6. QED
    BY <2>3, <2>5
<1>3. m \in S
  <2> HIDE DEF Exists
  <2>1. 0 \in S /\ \A n \in Nat : n \in S => n + 1 \in S
    BY <1>1, <1>2
  <2> HIDE DEF S
  <2>2. QED
    BY <2>1, Induction
<1>4. Exists(m)
  <2> HIDE DEF Exists
  <2>1. QED
    BY <1>3
<1>5. QED
  BY <1>4

\* A nonempty set of indices has a last one.
LEMMA LastIndexExists ==
  ASSUME NEW m \in Nat, NEW s \in SUBSET (1 .. m), s # {}
  PROVE  Max(s) \in s
<1> DEFINE IsLast(u, x) == x \in u /\ \A y \in u : x >= y
           HasLast(n) == \A u \in SUBSET (1 .. n) : u # {} => \E x : IsLast(u, x)
<1>1. HasLast(0)
  OBVIOUS
<1>2. ASSUME NEW n \in Nat, HasLast(n)
      PROVE  HasLast(n + 1)
  <2>1. ASSUME NEW u \in SUBSET (1 .. n + 1), u # {}
        PROVE  \E x : IsLast(u, x)
    <3>1. CASE n + 1 \in u
      BY <3>1
    <3>2. CASE n + 1 \notin u
      <4>1. u \in SUBSET (1 .. n)
        BY <3>2
      <4>2. QED
        BY <1>2, <2>1, <4>1
    <3>3. QED
      BY <3>1, <3>2
  <2>2. QED
    BY <2>1
<1>3. HasLast(m)
  <2> HIDE DEF HasLast
  <2> DEFINE S == {n \in Nat : HasLast(n)}
  <2>1. 0 \in S /\ \A n \in Nat : n \in S => n + 1 \in S
    BY <1>1, <1>2
  <2> HIDE DEF S
  <2>2. m \in S
    BY <2>1, Induction
  <2>3. QED
    BY <2>2 DEF S
<1>4. PICK x : IsLast(s, x)
  BY <1>3
<1>5. Max(s) = CHOOSE y : IsLast(s, y)
  BY DEF Max
<1> HIDE DEF IsLast
<1>6. IsLast(s, Max(s))
  BY <1>4, <1>5
<1>7. QED
  BY <1>6 DEF IsLast

\* The results of a fold after 0, 1, ..., n rows.
Trail(h, A, base, F, n) ==
  /\ h \in [0 .. n -> A]
  /\ h[0] = base
  /\ \A k \in 1 .. n : h[k] = F[k][h[k - 1]]

\* A function that folds index sets from their last index down, and its trail on
\* the sets 1..k.
Descends(g, A, base, F, n) ==
  /\ g[{}] = base
  /\ \A s \in SUBSET (1 .. n) :
       s # {} /\ g[s \ {Max(s)}] \in A => g[s] = F[Max(s)][g[s \ {Max(s)}]]

LEMMA FoldLeavesTrail ==
  ASSUME NEW A, NEW base \in A, NEW m \in Nat, NEW F \in [1 .. m -> [A -> A]],
         NEW g, Descends(g, A, base, F, m)
  PROVE  \E h : Trail(h, A, base, F, m) /\ h[m] = g[1 .. m]
<1> DEFINE S == {n \in Nat : n <= m => g[1 .. n] \in A}
           h == [k \in 0 .. m |-> g[1 .. k]]
<1>1. ASSUME NEW n \in Nat, n + 1 <= m, g[1 .. n] \in A
      PROVE  g[1 .. n + 1] = F[n + 1][g[1 .. n]] /\ g[1 .. n + 1] \in A
  <2> DEFINE s == 1 .. n + 1
  <2>1. s \in SUBSET (1 .. n + 1) /\ n + 1 \in s /\ s \ {n + 1} = 1 .. n
    OBVIOUS
  <2>2. s \in SUBSET (1 .. m) /\ s # {}
    <3>1. \A k \in s : k \in 1 .. m
      BY <1>1
    <3>2. QED
      BY <2>1, <3>1
  <2> HIDE DEF s
  <2>3. Max(s) = n + 1
    BY <2>1, LastIndex
  <2>4. g[s] = F[n + 1][g[1 .. n]]
    BY <1>1, <2>1, <2>2, <2>3 DEF Descends
  <2>5. F[n + 1] \in [A -> A]
    BY <1>1
  <2>6. QED
    BY <1>1, <2>4, <2>5 DEF s
<1>2. 0 \in S /\ \A n \in Nat : n \in S => n + 1 \in S
  <2>1. 1 .. 0 = {}
    OBVIOUS
  <2>2. 0 \in S
    BY <2>1 DEF Descends
  <2>3. ASSUME NEW n \in Nat, n \in S
        PROVE  n + 1 \in S
    BY <1>1, <2>3
  <2>4. QED
    BY <2>2, <2>3
<1>3. \A n \in 0 .. m : g[1 .. n] \in A
  <2>1. Nat \subseteq S
    <3> HIDE DEF S
    <3>1. QED
      BY <1>2, Induction
  <2>2. QED
    BY <2>1
<1>4. ASSUME NEW k \in 1 .. m
      PROVE  h[k] = F[k][h[k - 1]]
  <2>1. k - 1 \in Nat /\ (k - 1) + 1 = k /\ k - 1 \in 0 .. m /\ k \in 0 .. m
    OBVIOUS
  <2>2. QED
    BY <1>1, <1>3, <2>1
<1>5. h[0] = base /\ h[m] = g[1 .. m]
  BY 1 .. 0 = {} DEF Descends
<1>6. Trail(h, A, base, F, m)
  BY <1>3, <1>4, <1>5 DEF Trail
<1>7. QED
  BY <1>5, <1>6

\* Two folds with the same first n steps agree that far: a longer stream only
\* adds the steps of its new rows.
LEMMA TrailsAgree ==
  ASSUME NEW A, NEW base, NEW m \in Nat, NEW F, NEW G, NEW h, NEW i,
         Trail(h, A, base, F, m), Trail(i, A, base, G, m + 1),
         \A k \in 1 .. m : F[k] = G[k]
  PROVE  h[m] \in A /\ i[m + 1] = G[m + 1][h[m]]
<1> DEFINE S == {n \in Nat : n <= m => h[n] = i[n]}
<1>1. 0 \in S
  BY DEF Trail
<1>2. ASSUME NEW n \in Nat, n \in S
      PROVE  n + 1 \in S
  <2> SUFFICES ASSUME n + 1 <= m PROVE h[n + 1] = i[n + 1]
    OBVIOUS
  <2>1. n + 1 \in 1 .. m /\ n + 1 \in 1 .. m + 1 /\ (n + 1) - 1 = n /\ h[n] = i[n]
    BY <1>2
  <2>2. QED
    BY <2>1 DEF Trail
<1>3. Nat \subseteq S
  <2> HIDE DEF S
  <2>1. QED
    BY <1>1, <1>2, Induction
<1>4. h[m] = i[m]
  BY <1>3
<1>5. m + 1 \in 1 .. m + 1 /\ (m + 1) - 1 = m /\ m \in 0 .. m
  OBVIOUS
<1>6. QED
  BY <1>4, <1>5 DEF Trail

\* An account that never had an event is well formed.
LEMMA OpenType == Open \in CreditAccount
BY DEF Open, CreditAccount, ReservationStatus

\* What the endpoint's loop carries from row to row.
WalletView ==
  [balance : Int, totalGranted : Int, totalRefunded : Int, totalSpent : Int,
   open : SUBSET Reservations]

\* Amounts are numbers, and a row about a reservation names one.
LEMMA RowFields ==
  ASSUME NEW e \in CreditLedgerEvent
  PROVE  /\ e.amount \in Int
         /\ e.eventType \in DirectEvents \cup ReservationEvents
         /\ e.eventType \in ReservationEvents => e.reservationId \in Reservations
<1>1. CASE e.eventType \in DirectEvents
  <2>1. e.amount \in Amounts /\ e.eventType \notin ReservationEvents
    BY <1>1 DEF CreditLedgerEvent, DirectEvents, ReservationEvents
  <2>2. e.amount \in Nat
    BY <2>1, CreditAssumption
  <2>3. QED
    BY <1>1, <2>1, <2>2
<1>2. CASE e.eventType \in ReservationEvents
  <2>1. e.amount = Cost /\ e.reservationId \in Reservations
    BY <1>2 DEF CreditLedgerEvent, DirectEvents, ReservationEvents
  <2>2. e.amount \in Int
    BY <2>1, CreditAssumption
  <2>3. QED
    BY <1>2, <2>1, <2>2
<1>3. QED
  BY <1>1, <1>2 DEF CreditLedgerEvent

\* Counting a row keeps the wallet well formed.
LEMMA ViewRowType ==
  /\ EmptyWallet \in WalletView
  /\ \A w \in WalletView, e \in CreditLedgerEvent : ViewRow(w, e) \in WalletView
<1>1. EmptyWallet \in WalletView
  BY DEF EmptyWallet, WalletView
<1>2. ASSUME NEW w \in WalletView, NEW e \in CreditLedgerEvent
      PROVE  ViewRow(w, e) \in WalletView
  BY RowFields DEF ViewRow, WalletView, ReservationEvents
<1>3. QED
  BY <1>1, <1>2

\* What the statement adds up in, and the sum of no rows.
Credits == Int

EmptySum == 0

\* Adding the effect of a row stays within the numbers.
LEMMA DeltaType ==
  /\ EmptySum \in Credits
  /\ \A sum \in Credits, e \in CreditLedgerEvent : sum + WalletDelta(e) \in Credits
BY RowFields DEF WalletDelta, EmptySum, Credits

\* The steps of the rehydrating fold.
ApplySteps(rows) == [k \in 1 .. Len(rows) |-> [a \in CreditAccount |-> Apply(a, rows[k])]]

\* Rehydrating leaves the accounts of all prefixes of the stream.
LEMMA ApplyTrail ==
  ASSUME NEW rows \in Seq(CreditLedgerEvent)
  PROVE  \E h : /\ Trail(h, CreditAccount, Open, ApplySteps(rows), Len(rows))
               /\ FoldLeft(Apply, Open, rows) = h[Len(rows)]
<1> DEFINE n == Len(rows)
           F == ApplySteps(rows)
           Eq(g) == g = [s \in SUBSET DOMAIN rows |->
                           IF s = {} THEN Open ELSE Apply(g[s \ {Max(s)}], rows[Max(s)])]
           g == CHOOSE f : Eq(f)
<1>1. n \in Nat /\ DOMAIN rows = 1 .. n /\ \A k \in 1 .. n : rows[k] \in CreditLedgerEvent
  OBVIOUS
<1>2. Open \in CreditAccount /\ F \in [1 .. n -> [CreditAccount -> CreditAccount]]
  BY <1>1, OpenType, ApplyType DEF ApplySteps
<1>3. PICK f \in [SUBSET (1 .. n) -> CreditAccount] : Folding(F, Open, n, f)
  BY <1>1, <1>2, FoldingExists
<1>4. ASSUME NEW s \in SUBSET (1 .. n)
      PROVE  f[s] = IF s = {} THEN Open ELSE Apply(f[s \ {Max(s)}], rows[Max(s)])
  <2>1. f[s] = IF s = {} THEN Open ELSE F[Max(s)][f[s \ {Max(s)}]]
    BY <1>3 DEF Folding
  <2>2. s # {} => Max(s) \in 1 .. n
    BY <1>1, LastIndexExists
  <2>3. f[s \ {Max(s)}] \in CreditAccount
    OBVIOUS
  <2>4. QED
    BY <2>1, <2>2, <2>3 DEF ApplySteps
<1>5. Eq(f)
  BY <1>1, <1>4
<1>6. Eq(g)
  <2> HIDE DEF Eq
  <2>1. QED
    BY <1>5
<1>7. FoldLeft(Apply, Open, rows) = g[1 .. n]
  BY <1>1 DEF FoldLeft, MapThenFoldSet
<1> HIDE DEF F, g
<1>8. ASSUME NEW s \in SUBSET (1 .. n), s # {}, g[s \ {Max(s)}] \in CreditAccount
      PROVE  g[s] = F[Max(s)][g[s \ {Max(s)}]]
  <2>1. Max(s) \in 1 .. n
    BY <1>1, <1>8, LastIndexExists
  <2>2. g[s] = Apply(g[s \ {Max(s)}], rows[Max(s)])
    BY <1>1, <1>6, <1>8
  <2>3. QED
    BY <1>8, <2>1, <2>2 DEF F, ApplySteps
<1>9. g[{}] = Open
  BY <1>6
<1>10. PICK h : Trail(h, CreditAccount, Open, F, n) /\ h[n] = g[1 .. n]
  <2>1. Descends(g, CreditAccount, Open, F, n)
    BY <1>8, <1>9 DEF Descends
  <2>2. n \in Nat
    BY <1>1
  <2> HIDE DEF n, Eq
  <2>3. QED
    BY <2>2, <1>2, <2>1, FoldLeavesTrail
<1>11. QED
  BY <1>7, <1>10 DEF F

\* Rehydrating a longer stream applies its last event to the account before it.
LEMMA ApplyAppend ==
  ASSUME NEW rows \in Seq(CreditLedgerEvent), NEW e \in CreditLedgerEvent
  PROVE  /\ FoldLeft(Apply, Open, rows) \in CreditAccount
         /\ FoldLeft(Apply, Open, Append(rows, e)) = Apply(FoldLeft(Apply, Open, rows), e)
<1> DEFINE longer == Append(rows, e)
           n == Len(rows)
<1>1. /\ longer \in Seq(CreditLedgerEvent) /\ n \in Nat /\ Len(longer) = n + 1
      /\ longer[n + 1] = e /\ \A k \in 1 .. n : longer[k] = rows[k]
  OBVIOUS
<1>2. PICK h : /\ Trail(h, CreditAccount, Open, ApplySteps(rows), n)
               /\ FoldLeft(Apply, Open, rows) = h[n]
  BY ApplyTrail
<1>3. PICK i : /\ Trail(i, CreditAccount, Open, ApplySteps(longer), n + 1)
               /\ FoldLeft(Apply, Open, longer) = i[n + 1]
  BY <1>1, ApplyTrail
<1>4. \A k \in 1 .. n : ApplySteps(rows)[k] = ApplySteps(longer)[k]
  BY <1>1 DEF ApplySteps
<1> HIDE DEF longer, n
<1>5. h[n] \in CreditAccount /\ i[n + 1] = ApplySteps(longer)[n + 1][h[n]]
  BY <1>1, <1>2, <1>3, <1>4, TrailsAgree
<1>6. i[n + 1] = Apply(h[n], e)
  BY <1>1, <1>5 DEF ApplySteps
<1>7. QED
  BY <1>2, <1>3, <1>5, <1>6 DEF longer

\* The steps of the wallet endpoint's fold.
ViewSteps(rows) == [k \in 1 .. Len(rows) |-> [w \in WalletView |-> ViewRow(w, rows[k])]]

\* The endpoint's fold leaves the wallets of all prefixes of the stream.
LEMMA ViewTrail ==
  ASSUME NEW rows \in Seq(CreditLedgerEvent)
  PROVE  \E h : /\ Trail(h, WalletView, EmptyWallet, ViewSteps(rows), Len(rows))
               /\ FoldLeft(ViewRow, EmptyWallet, rows) = h[Len(rows)]
<1> DEFINE n == Len(rows)
           F == ViewSteps(rows)
           Eq(g) == g = [s \in SUBSET DOMAIN rows |->
                           IF s = {} THEN EmptyWallet ELSE ViewRow(g[s \ {Max(s)}], rows[Max(s)])]
           g == CHOOSE f : Eq(f)
<1>1. n \in Nat /\ DOMAIN rows = 1 .. n /\ \A k \in 1 .. n : rows[k] \in CreditLedgerEvent
  OBVIOUS
<1>2. EmptyWallet \in WalletView /\ F \in [1 .. n -> [WalletView -> WalletView]]
  BY <1>1, ViewRowType DEF ViewSteps
<1>3. PICK f \in [SUBSET (1 .. n) -> WalletView] : Folding(F, EmptyWallet, n, f)
  BY <1>1, <1>2, FoldingExists
<1>4. ASSUME NEW s \in SUBSET (1 .. n)
      PROVE  f[s] = IF s = {} THEN EmptyWallet ELSE ViewRow(f[s \ {Max(s)}], rows[Max(s)])
  <2>1. f[s] = IF s = {} THEN EmptyWallet ELSE F[Max(s)][f[s \ {Max(s)}]]
    BY <1>3 DEF Folding
  <2>2. s # {} => Max(s) \in 1 .. n
    BY <1>1, LastIndexExists
  <2>3. f[s \ {Max(s)}] \in WalletView
    OBVIOUS
  <2>4. QED
    BY <2>1, <2>2, <2>3 DEF ViewSteps
<1>5. Eq(f)
  BY <1>1, <1>4
<1>6. Eq(g)
  <2> HIDE DEF Eq
  <2>1. QED
    BY <1>5
<1>7. FoldLeft(ViewRow, EmptyWallet, rows) = g[1 .. n]
  BY <1>1 DEF FoldLeft, MapThenFoldSet
<1> HIDE DEF F, g
<1>8. ASSUME NEW s \in SUBSET (1 .. n), s # {}, g[s \ {Max(s)}] \in WalletView
      PROVE  g[s] = F[Max(s)][g[s \ {Max(s)}]]
  <2>1. Max(s) \in 1 .. n
    BY <1>1, <1>8, LastIndexExists
  <2>2. g[s] = ViewRow(g[s \ {Max(s)}], rows[Max(s)])
    BY <1>1, <1>6, <1>8
  <2>3. QED
    BY <1>8, <2>1, <2>2 DEF F, ViewSteps
<1>9. g[{}] = EmptyWallet
  BY <1>6
<1>10. PICK h : Trail(h, WalletView, EmptyWallet, F, n) /\ h[n] = g[1 .. n]
  <2>1. Descends(g, WalletView, EmptyWallet, F, n)
    BY <1>8, <1>9 DEF Descends
  <2>2. n \in Nat
    BY <1>1
  <2> HIDE DEF n, Eq
  <2>3. QED
    BY <2>2, <1>2, <2>1, FoldLeavesTrail
<1>11. QED
  BY <1>7, <1>10 DEF F

\* The wallet of a longer stream counts its last row on top of the wallet before.
LEMMA ViewAppend ==
  ASSUME NEW rows \in Seq(CreditLedgerEvent), NEW e \in CreditLedgerEvent
  PROVE  /\ FoldLeft(ViewRow, EmptyWallet, rows) \in WalletView
         /\ FoldLeft(ViewRow, EmptyWallet, Append(rows, e))
              = ViewRow(FoldLeft(ViewRow, EmptyWallet, rows), e)
<1> DEFINE longer == Append(rows, e)
           n == Len(rows)
<1>1. /\ longer \in Seq(CreditLedgerEvent) /\ n \in Nat /\ Len(longer) = n + 1
      /\ longer[n + 1] = e /\ \A k \in 1 .. n : longer[k] = rows[k]
  OBVIOUS
<1>2. PICK h : /\ Trail(h, WalletView, EmptyWallet, ViewSteps(rows), n)
               /\ FoldLeft(ViewRow, EmptyWallet, rows) = h[n]
  BY ViewTrail
<1>3. PICK i : /\ Trail(i, WalletView, EmptyWallet, ViewSteps(longer), n + 1)
               /\ FoldLeft(ViewRow, EmptyWallet, longer) = i[n + 1]
  BY <1>1, ViewTrail
<1>4. \A k \in 1 .. n : ViewSteps(rows)[k] = ViewSteps(longer)[k]
  BY <1>1 DEF ViewSteps
<1> HIDE DEF longer, n
<1>5. h[n] \in WalletView /\ i[n + 1] = ViewSteps(longer)[n + 1][h[n]]
  BY <1>1, <1>2, <1>3, <1>4, TrailsAgree
<1>6. i[n + 1] = ViewRow(h[n], e)
  BY <1>1, <1>5 DEF ViewSteps
<1>7. QED
  BY <1>2, <1>3, <1>5, <1>6 DEF longer

\* The steps of adding up the statement.
DeltaSteps(rows) == [k \in 1 .. Len(rows) |-> [sum \in Credits |-> sum + WalletDelta(rows[k])]]

\* Adding up the statement leaves a running total.
LEMMA DeltaTrail ==
  ASSUME NEW rows \in Seq(CreditLedgerEvent)
  PROVE  \E h : /\ Trail(h, Credits, EmptySum, DeltaSteps(rows), Len(rows))
               /\ SumOfDeltas(rows) = h[Len(rows)]
<1> DEFINE n == Len(rows)
           F == DeltaSteps(rows)
           Eq(g) == g = [s \in SUBSET DOMAIN rows |->
                           IF s = {} THEN EmptySum ELSE g[s \ {Max(s)}] + WalletDelta(rows[Max(s)])]
           g == CHOOSE f : Eq(f)
<1>1. n \in Nat /\ DOMAIN rows = 1 .. n /\ \A k \in 1 .. n : rows[k] \in CreditLedgerEvent
  OBVIOUS
<1>2. EmptySum \in Credits /\ F \in [1 .. n -> [Credits -> Credits]]
  BY <1>1, DeltaType DEF DeltaSteps
<1>3. PICK f \in [SUBSET (1 .. n) -> Credits] : Folding(F, EmptySum, n, f)
  BY <1>1, <1>2, FoldingExists
<1>4. ASSUME NEW s \in SUBSET (1 .. n)
      PROVE  f[s] = IF s = {} THEN EmptySum ELSE f[s \ {Max(s)}] + WalletDelta(rows[Max(s)])
  <2>1. f[s] = IF s = {} THEN EmptySum ELSE F[Max(s)][f[s \ {Max(s)}]]
    BY <1>3 DEF Folding
  <2>2. s # {} => Max(s) \in 1 .. n
    BY <1>1, LastIndexExists
  <2>3. f[s \ {Max(s)}] \in Credits
    OBVIOUS
  <2>4. QED
    BY <2>1, <2>2, <2>3 DEF DeltaSteps
<1>5. Eq(f)
  BY <1>1, <1>4
<1>6. Eq(g)
  <2> HIDE DEF Eq
  <2>1. QED
    BY <1>5
<1>7. SumOfDeltas(rows) = g[1 .. n]
  BY <1>1 DEF SumOfDeltas, FoldLeft, MapThenFoldSet, EmptySum
<1> HIDE DEF F, g
<1>8. ASSUME NEW s \in SUBSET (1 .. n), s # {}, g[s \ {Max(s)}] \in Credits
      PROVE  g[s] = F[Max(s)][g[s \ {Max(s)}]]
  <2>1. Max(s) \in 1 .. n
    BY <1>1, <1>8, LastIndexExists
  <2>2. g[s] = g[s \ {Max(s)}] + WalletDelta(rows[Max(s)])
    BY <1>1, <1>6, <1>8
  <2>3. QED
    BY <1>8, <2>1, <2>2 DEF F, DeltaSteps
<1>9. g[{}] = EmptySum
  BY <1>6
<1>10. PICK h : Trail(h, Credits, EmptySum, F, n) /\ h[n] = g[1 .. n]
  <2>1. Descends(g, Credits, EmptySum, F, n)
    BY <1>8, <1>9 DEF Descends
  <2>2. n \in Nat
    BY <1>1
  <2> HIDE DEF n, Eq
  <2>3. QED
    BY <2>2, <1>2, <2>1, FoldLeavesTrail
<1>11. QED
  BY <1>7, <1>10 DEF F

\* The statement of a longer stream adds the effect of its last row.
LEMMA DeltaAppend ==
  ASSUME NEW rows \in Seq(CreditLedgerEvent), NEW e \in CreditLedgerEvent
  PROVE  /\ SumOfDeltas(rows) \in Credits
         /\ SumOfDeltas(Append(rows, e)) = SumOfDeltas(rows) + WalletDelta(e)
<1> DEFINE longer == Append(rows, e)
           n == Len(rows)
<1>1. /\ longer \in Seq(CreditLedgerEvent) /\ n \in Nat /\ Len(longer) = n + 1
      /\ longer[n + 1] = e /\ \A k \in 1 .. n : longer[k] = rows[k]
  OBVIOUS
<1>2. PICK h : Trail(h, Credits, EmptySum, DeltaSteps(rows), n) /\ SumOfDeltas(rows) = h[n]
  BY DeltaTrail
<1>3. PICK i : /\ Trail(i, Credits, EmptySum, DeltaSteps(longer), n + 1)
               /\ SumOfDeltas(longer) = i[n + 1]
  BY <1>1, DeltaTrail
<1>4. \A k \in 1 .. n : DeltaSteps(rows)[k] = DeltaSteps(longer)[k]
  BY <1>1 DEF DeltaSteps
<1> HIDE DEF longer, n
<1>5. h[n] \in Credits /\ i[n + 1] = DeltaSteps(longer)[n + 1][h[n]]
  BY <1>1, <1>2, <1>3, <1>4, TrailsAgree
<1>6. i[n + 1] = h[n] + WalletDelta(e)
  BY <1>1, <1>5 DEF DeltaSteps
<1>7. QED
  BY <1>2, <1>3, <1>5, <1>6 DEF longer

\* Without rows, each fold returns what it starts from.
LEMMA EmptyFolds ==
  /\ FoldLeft(Apply, Open, <<>>) = Open
  /\ FoldLeft(ViewRow, EmptyWallet, <<>>) = EmptyWallet
  /\ SumOfDeltas(<<>>) = EmptySum
<1>1. <<>> \in Seq(CreditLedgerEvent) /\ Len(<<>>) = 0
  OBVIOUS
<1>2. FoldLeft(Apply, Open, <<>>) = Open
  BY <1>1, ApplyTrail DEF Trail
<1>3. FoldLeft(ViewRow, EmptyWallet, <<>>) = EmptyWallet
  BY <1>1, ViewTrail DEF Trail
<1>4. SumOfDeltas(<<>>) = EmptySum
  BY <1>1, DeltaTrail DEF Trail
<1>5. QED
  BY <1>2, <1>3, <1>4

-------------------------------------------------------------------------------
(* The two folds and the outbox against the stream *)

\* The endpoint's map of open reservations is the aggregate's.
HoldsAgree == GetWallet(ledger).open = OpenReservations(account)

\* The inductive invariant of the read side: the transactions' own, plus what
\* each fold has reached on the stream so far.
ReadIInv ==
  /\ IInv
  /\ FoldsAgree
  /\ HoldsAgree
  /\ OutboxMirrorsLedger

\* A stream with the versions 1..n is in version order already.
LEMMA VersionOrder ==
  ASSUME NEW rows \in Seq(CreditLedgerEvent), \A i \in DOMAIN rows : rows[i].version = i
  PROVE  ByVersion(rows) = rows
<1> DEFINE place(i) == Cardinality({j \in DOMAIN rows : rows[j].version <= rows[i].version})
<1>1. Len(rows) \in Nat /\ DOMAIN rows = 1 .. Len(rows)
  OBVIOUS
<1>2. ASSUME NEW i \in DOMAIN rows
      PROVE  place(i) = i
  <2>1. {j \in DOMAIN rows : rows[j].version <= rows[i].version} = 1 .. i
    BY <1>1
  <2>2. i \in Int /\ 1 \in Int /\ i >= 1
    BY <1>1
  <2>3. Cardinality(1 .. i) = i
    BY <2>2, FS_Interval
  <2>4. QED
    BY <2>1, <2>3
<1> HIDE DEF place
<1>3. \A k \in DOMAIN rows : (CHOOSE i \in DOMAIN rows : place(i) = k) = k
  BY <1>2
<1>4. ByVersion(rows) = [k \in DOMAIN rows |-> rows[CHOOSE i \in DOMAIN rows : place(i) = k]]
  BY DEF ByVersion, place
<1>5. \A k \in DOMAIN rows : ByVersion(rows)[k] = rows[k]
  BY <1>3, <1>4
<1>6. QED
  BY <1>4, <1>5

\* A save puts one more row through each of the folds.
LEMMA FoldsGrow ==
  ASSUME IInv, IInv', NEW e \in CreditLedgerEvent, ledger' = Append(ledger, e)
  PROVE  /\ Rehydrate(ledger') = Apply(Rehydrate(ledger), e)
         /\ GetWallet(ledger') = ViewRow(GetWallet(ledger), e)
         /\ SumOfDeltas(ledger') = SumOfDeltas(ledger) + WalletDelta(e)
         /\ GetWallet(ledger) \in WalletView
<1>1. ledger \in Seq(CreditLedgerEvent) /\ \A i \in DOMAIN ledger : ledger[i].version = i
  BY DEF IInv, TypeOK, StreamIsGapless
<1>2. ledger' \in Seq(CreditLedgerEvent) /\ \A i \in DOMAIN ledger' : ledger'[i].version = i
  BY DEF IInv, TypeOK, StreamIsGapless
<1>3. ByVersion(ledger) = ledger /\ ByVersion(ledger') = ledger'
  BY <1>1, <1>2, VersionOrder
<1>4. QED
  BY <1>1, <1>3, ApplyAppend, ViewAppend, DeltaAppend DEF Rehydrate, GetWallet

\* The endpoint moves a reservation into and out of its map exactly when the
\* aggregate opens and settles it.
LEMMA HoldsMoveTogether ==
  ASSUME NEW a \in CreditAccount, NEW w \in WalletView, NEW e \in CreditLedgerEvent,
         w.open = OpenReservations(a)
  PROVE  ViewRow(w, e).open = OpenReservations(Apply(a, e))
<1>1. a.reservations \in [Reservations -> ReservationStatus]
  BY DEF CreditAccount
<1>2. CASE e.eventType \in DirectEvents
  BY <1>2 DEF ViewRow, Apply, OpenReservations, DirectEvents, ReservationEvents
<1>3. CASE e.eventType = "CreditReserved"
  <2>1. e.reservationId \in Reservations
    BY <1>3, RowFields DEF ReservationEvents
  <2>2. OpenReservations(Apply(a, e)) = OpenReservations(a) \cup {e.reservationId}
    BY <1>1, <1>3, <2>1 DEF Apply, OpenReservations, ReservationEvents, StatusAfter
  <2>3. QED
    BY <1>3, <2>2 DEF ViewRow
<1>4. CASE e.eventType \in ReservationEvents \ {"CreditReserved"}
  <2>1. e.reservationId \in Reservations /\ StatusAfter[e.eventType] # "OPEN"
    BY <1>4, RowFields DEF ReservationEvents, StatusAfter
  <2>2. OpenReservations(Apply(a, e)) = OpenReservations(a) \ {e.reservationId}
    BY <1>1, <1>4, <2>1 DEF Apply, OpenReservations
  <2>3. QED
    BY <1>4, <2>2 DEF ViewRow
<1>5. QED
  BY <1>2, <1>3, <1>4, RowFields

\* One row moves the wallet's balance, its totals and the statement by the same
\* amount as the aggregate's balance.
LEMMA BalancesMoveTogether ==
  ASSUME NEW a \in CreditAccount, NEW w \in WalletView, NEW e \in CreditLedgerEvent,
         w.balance = a.balance, w.balance = w.totalGranted + w.totalRefunded - w.totalSpent
  PROVE  LET v == ViewRow(w, e) IN
         /\ v.balance = Apply(a, e).balance
         /\ v.balance = w.balance + WalletDelta(e)
         /\ v.balance = v.totalGranted + v.totalRefunded - v.totalSpent
<1>1. /\ w.balance \in Int /\ w.totalGranted \in Int
      /\ w.totalRefunded \in Int /\ w.totalSpent \in Int
  BY DEF WalletView
<1>2. e.amount \in Int
  BY RowFields
<1>3. Apply(a, e).balance = a.balance + Moves(e)
  BY DEF Apply
<1>4. Moves(e) = WalletDelta(e) /\ WalletDelta(e) \in Int
  BY <1>2 DEF Moves, WalletDelta
<1>5. ViewRow(w, e).balance = w.balance + WalletDelta(e)
  BY <1>1, <1>2 DEF ViewRow, WalletDelta
<1>6. ViewRow(w, e).balance =
        ViewRow(w, e).totalGranted + ViewRow(w, e).totalRefunded - ViewRow(w, e).totalSpent
  BY <1>1, <1>2 DEF ViewRow
<1>7. QED
  BY <1>3, <1>4, <1>5, <1>6

\* The balance an outbox row quotes is history: later rows do not change it.
LEMMA FactsStand ==
  ASSUME IInv, NEW e \in CreditLedgerEvent, ledger' = Append(ledger, e),
         NEW i \in DOMAIN ledger
  PROVE  FactOf(ledger[i])' = FactOf(ledger[i])
<1>1. ledger \in Seq(CreditLedgerEvent) /\ ledger[i].version = i /\ ledger'[i] = ledger[i]
  BY DEF IInv, TypeOK, StreamIsGapless
<1>2. SubSeq(ledger', 1, i) = SubSeq(ledger, 1, i)
  BY <1>1
<1>3. QED
  BY <1>1, <1>2 DEF FactOf

\* What is due to the row of a save is what the handler writes.
LEMMA FactOfSave ==
  ASSUME IInv, IInv', NEW x \in inflight, Saving(x), RehydrateAgrees'
  PROVE  LET e == EventOf(x, Raised[x.command.kind]) IN
         outbox' = IF e.eventType \in Announced THEN Append(outbox, FactOf(e)') ELSE outbox
<1> DEFINE e == EventOf(x, Raised[x.command.kind])
           c == x.command
<1>1. /\ e.version = Len(ledger) + 1 /\ ledger' \in Seq(CreditLedgerEvent)
      /\ Len(ledger') = Len(ledger) + 1
      /\ account' = Apply(account, e) /\ x.account = account
  BY SavingSaves, SaveEffect DEF IInv
<1>2. e.eventType = Raised[c.kind] /\ e.amount = c.amount /\ e.reservationId = c.reservationId
  BY RaisedIsARow DEF IInv
<1>3. SubSeq(ledger', 1, e.version) = ledger'
  BY <1>1
<1>4. Rehydrate(SubSeq(ledger', 1, e.version)).balance = Apply(account, e).balance
  BY <1>1, <1>3 DEF RehydrateAgrees
<1>5. CASE GrantCredits(x)
  <2>1. c.kind = "Grant" /\ e.eventType = "CreditGranted"
    BY <1>2, <1>5 DEF GrantCredits, Raised
  <2>2. BalanceAfter(x, "CreditGranted") = Apply(account, e).balance
    BY <1>1, <2>1 DEF BalanceAfter, Raised
  <2>3. QED
    BY <1>2, <1>4, <1>5, <2>1, <2>2 DEF GrantCredits, FactOf, Announced
<1>6. CASE CommitAiQuery(x)
  <2>1. c.kind = "Commit" /\ e.eventType = "CreditReservationCommitted"
    BY <1>2, <1>6 DEF CommitAiQuery, Raised
  <2>2. BalanceAfter(x, "CreditReservationCommitted") = Apply(account, e).balance
    BY <1>1, <2>1 DEF BalanceAfter, Raised
  <2>3. QED
    BY <1>2, <1>4, <1>6, <2>1, <2>2 DEF CommitAiQuery, FactOf, Announced
<1>7. CASE ReleaseReservation(x)
  <2>1. c.kind = "Release" /\ e.eventType = "CreditReservationReleased"
    BY <1>2, <1>7 DEF ReleaseReservation, Raised
  <2>2. QED
    BY <1>2, <1>7, <2>1 DEF ReleaseReservation, FactOf, Announced
<1>8. CASE RefundCredits(x) \/ SpendCredits(x) \/ ReserveCredits(x)
  <2>1. e.eventType \in {"CreditRefunded", "CreditSpent", "CreditReserved"}
    BY <1>2, <1>8 DEF RefundCredits, SpendCredits, ReserveCredits, Raised
  <2>2. QED
    BY <1>8, <2>1 DEF RefundCredits, SpendCredits, ReserveCredits, Announced
<1>9. QED
  BY <1>5, <1>6, <1>7, <1>8 DEF Saving

\* A save keeps the outbox the mirror of the announcing rows: it adds the fact
\* of its own row in the last place, or nothing.
LEMMA MirrorSurvivesSave ==
  ASSUME IInv, IInv', NEW x \in inflight, Saving(x), RehydrateAgrees', OutboxMirrorsLedger
  PROVE  OutboxMirrorsLedger'
<1> DEFINE e == EventOf(x, Raised[x.command.kind])
<1>1. PICK n \in Nat : n = Len(ledger) + 1
  BY DEF IInv, TypeOK
<1>2. /\ ledger' = Append(ledger, e) /\ e \in CreditLedgerEvent /\ ledger \in Seq(CreditLedgerEvent)
      /\ DOMAIN ledger' = DOMAIN ledger \cup {n} /\ n \notin DOMAIN ledger /\ ledger'[n] = e
      /\ \A i \in DOMAIN ledger : ledger'[i] = ledger[i] /\ i < n
  BY <1>1, SavingSaves, SaveEffect DEF Save, IInv, TypeOK
<1>3. outbox' = IF e.eventType \in Announced THEN Append(outbox, FactOf(e)') ELSE outbox
  BY FactOfSave
<1>4. outbox \in Seq(OutboxRow) /\ Len(outbox) \in Nat
  BY DEF IInv, TypeOK
<1>5. Announcing \in SUBSET (1 .. n)
  BY <1>1, <1>2 DEF Announcing
<1>6. IsFiniteSet(Announcing)
  <2>1. IsFiniteSet(1 .. n)
    BY FS_Interval
  <2>2. QED
    BY <1>5, <2>1, FS_Subset
<1> HIDE DEF e
<1>7. Announcing' = IF e.eventType \in Announced THEN Announcing \cup {n} ELSE Announcing
  BY <1>2 DEF Announcing
<1>8. ASSUME NEW i \in Announcing
      PROVE  /\ i < n /\ PlaceOf(i)' = PlaceOf(i)
             /\ PlaceOf(i) \in 1 .. Len(outbox)
             /\ FactOf(ledger[i])' = outbox[PlaceOf(i)]
  <2>1. i \in DOMAIN ledger /\ i < n /\ i \in Nat
    BY <1>2, <1>5 DEF Announcing
  <2>2. {j \in Announcing : j <= i} = {j \in Announcing' : j <= i}
    BY <1>4, <1>7, <2>1
  <2>3. PlaceOf(i)' = PlaceOf(i)
    BY <2>2 DEF PlaceOf
  <2>4. PlaceOf(i) \in 1 .. Len(outbox)
    <3> DEFINE upTo == {j \in Announcing : j <= i}
    <3>1. upTo \in SUBSET Announcing /\ i \in upTo
      BY <2>1
    <3>2. IsFiniteSet(upTo) /\ Cardinality(upTo) <= Cardinality(Announcing)
      BY <1>6, <3>1, FS_Subset
    <3>3. Cardinality(upTo) \in Nat /\ Cardinality(upTo) # 0
      BY <3>1, <3>2, FS_CardinalityType, FS_EmptySet
    <3>4. PlaceOf(i) = Cardinality(upTo) /\ Len(outbox) = Cardinality(Announcing)
      BY DEF PlaceOf, OutboxMirrorsLedger
    <3> HIDE DEF upTo
    <3>5. QED
      BY <1>4, <3>2, <3>3, <3>4
  <2>5. FactOf(ledger[i])' = FactOf(ledger[i])
    BY <1>2, <2>1, FactsStand
  <2>6. QED
    BY <2>1, <2>3, <2>4, <2>5 DEF OutboxMirrorsLedger
<1>9. CASE e.eventType \in Announced
  <2>1. /\ n \notin Announcing /\ Announcing' = Announcing \cup {n}
        /\ outbox' = Append(outbox, FactOf(e)')
    BY <1>3, <1>7, <1>8, <1>9, <1>4
  <2>2. Cardinality(Announcing') = Cardinality(Announcing) + 1
    BY <1>6, <2>1, FS_AddElement
  <2>3. Len(outbox) = Cardinality(Announcing)
    BY DEF OutboxMirrorsLedger
  <2>4. /\ Len(outbox') = Len(outbox) + 1 /\ outbox'[Len(outbox) + 1] = FactOf(e)'
        /\ \A k \in 1 .. Len(outbox) : outbox'[k] = outbox[k]
    BY <1>4, <2>1
  <2>5. PlaceOf(n)' = Len(outbox) + 1
    <3>1. \A j \in Announcing' : j <= n
      BY <1>5, <2>1
    <3>2. {j \in Announcing' : j <= n} = Announcing'
      BY <3>1
    <3>3. QED
      BY <2>2, <2>3, <3>2 DEF PlaceOf
  <2>6. \A i \in Announcing' : outbox'[PlaceOf(i)'] = FactOf(ledger[i])'
    BY <1>2, <1>8, <2>1, <2>4, <2>5
  <2>7. QED
    BY <2>2, <2>3, <2>4, <2>6 DEF OutboxMirrorsLedger
<1>10. CASE e.eventType \notin Announced
  <2>1. Announcing' = Announcing /\ outbox' = outbox
    BY <1>3, <1>7, <1>10
  <2>2. \A i \in Announcing' : outbox'[PlaceOf(i)'] = FactOf(ledger[i])'
    BY <1>8, <2>1
  <2>3. QED
    BY <2>1, <2>2 DEF OutboxMirrorsLedger
<1>11. QED
  BY <1>9, <1>10

\* A wallet without rows is empty on both sides, and so is the outbox.
LEMMA InitReadIInv == Init => ReadIInv
<1> SUFFICES ASSUME Init PROVE ReadIInv
  OBVIOUS
<1>1. IInv /\ ledger = <<>> /\ account = Open /\ outbox = <<>>
  BY InitIInv DEF Init
<1>2. ByVersion(ledger) = <<>>
  BY <1>1, VersionOrder DEF IInv, TypeOK, StreamIsGapless
<1>3. /\ Rehydrate(ledger) = Open
      /\ GetWallet(ledger) = EmptyWallet
      /\ SumOfDeltas(ledger) = 0
  BY <1>1, <1>2, EmptyFolds DEF Rehydrate, GetWallet, EmptySum
<1>4. OpenReservations(account) = {} /\ Cardinality({}) = 0
  BY <1>1, FS_EmptySet DEF Open, OpenReservations
<1>5. FoldsAgree /\ HoldsAgree
  <2>1. Cost * Cardinality({}) = 0 /\ account.balance = 0
    BY <1>1, <1>4, CreditAssumption DEF Open
  <2>2. /\ EmptyWallet.balance = 0 /\ EmptyWallet.open = {}
        /\ EmptyWallet.balance = EmptyWallet.totalGranted + EmptyWallet.totalRefunded
                                   - EmptyWallet.totalSpent
    BY DEF EmptyWallet
  <2>3. EmptyWallet.balance - Cost * Cardinality(EmptyWallet.open) = Available(account)
    BY <1>4, <2>1, <2>2 DEF Available, Reserved
  <2>4. QED
    BY <1>1, <1>3, <1>4, <2>1, <2>2, <2>3 DEF FoldsAgree, HoldsAgree, RehydrateAgrees
<1>6. Announcing = {}
  BY <1>1 DEF Announcing
<1>7. OutboxMirrorsLedger
  BY <1>1, <1>4, <1>6 DEF OutboxMirrorsLedger
<1>8. QED
  BY <1>1, <1>5, <1>7 DEF ReadIInv

\* Whatever a transaction saves, both folds take the same step.
LEMMA SavingReadIInv ==
  ASSUME ReadIInv, IInv', NEW x \in inflight, Saving(x)
  PROVE  ReadIInv'
<1> DEFINE e == EventOf(x, Raised[x.command.kind])
           w == GetWallet(ledger)
<1>1. /\ ledger' = Append(ledger, e) /\ e \in CreditLedgerEvent
      /\ account' = Apply(account, e) /\ account \in CreditAccount /\ account' \in CreditAccount
  BY SavingSaves, SaveEffect DEF Save, ReadIInv, IInv, TypeOK
<1> HIDE DEF e
<1>2. /\ Rehydrate(ledger') = Apply(Rehydrate(ledger), e)
      /\ GetWallet(ledger') = ViewRow(w, e)
      /\ SumOfDeltas(ledger') = SumOfDeltas(ledger) + WalletDelta(e)
      /\ w \in WalletView
  BY <1>1, FoldsGrow DEF ReadIInv
<1>3. /\ Rehydrate(ledger) = account /\ w.balance = account.balance
      /\ w.balance = w.totalGranted + w.totalRefunded - w.totalSpent
      /\ w.balance = SumOfDeltas(ledger) /\ w.open = OpenReservations(account)
  BY DEF ReadIInv, FoldsAgree, HoldsAgree, RehydrateAgrees
<1>4. RehydrateAgrees'
  BY <1>1, <1>2, <1>3 DEF RehydrateAgrees
<1> HIDE DEF w
<1>5. ViewRow(w, e).open = OpenReservations(account')
  BY <1>1, <1>2, <1>3, HoldsMoveTogether
<1>6. /\ ViewRow(w, e).balance = account'.balance
      /\ ViewRow(w, e).balance = w.balance + WalletDelta(e)
      /\ ViewRow(w, e).balance = ViewRow(w, e).totalGranted + ViewRow(w, e).totalRefunded
                                   - ViewRow(w, e).totalSpent
  BY <1>1, <1>2, <1>3, BalancesMoveTogether
<1>7. FoldsAgree' /\ HoldsAgree'
  BY <1>2, <1>3, <1>4, <1>5, <1>6 DEF FoldsAgree, HoldsAgree, Available, Reserved
<1>8. OutboxMirrorsLedger'
  BY <1>4, MirrorSurvivesSave DEF ReadIInv
<1>9. QED
  BY <1>7, <1>8 DEF ReadIInv

\* Steps that write no row leave the folds and the outbox alone.
LEMMA QuietReadIInv ==
  ASSUME ReadIInv, IInv', UNCHANGED <<ledger, account, outbox>>
  PROVE  ReadIInv'
<1>1. FoldsAgree' /\ HoldsAgree'
  BY DEF ReadIInv, FoldsAgree, HoldsAgree, RehydrateAgrees
<1>2. OutboxMirrorsLedger'
  BY DEF ReadIInv, OutboxMirrorsLedger, Announcing, PlaceOf, FactOf
<1>3. QED
  BY <1>1, <1>2 DEF ReadIInv

\* Every reachable stream is read alike on both sides and mirrored by the outbox.
THEOREM ReadInductive == Spec => []ReadIInv
<1>1. ReadIInv /\ IInv' /\ [Next]_vars => ReadIInv'
  <2> SUFFICES ASSUME ReadIInv, IInv', [Next]_vars PROVE ReadIInv'
    OBVIOUS
  <2>1. CASE \E x \in inflight : Saving(x)
    BY <2>1, SavingReadIInv
  <2>2. CASE ~ \E x \in inflight : Saving(x)
    <3>1. UNCHANGED <<ledger, account, outbox>>
      BY <2>2 DEF Next, Step, Saving, Begin, Refuse, Abort, Retry, Rollback, vars
    <3>2. QED
      BY <3>1, QuietReadIInv
  <2>3. QED
    BY <2>1, <2>2
<1>2. QED
  BY <1>1, InitReadIInv, Inductive, PTL DEF Spec

\* For streams of any length: the endpoint's fold, its totals and its statement
\* agree with the aggregate that authorises spending, and rehydrating the stored
\* rows gives back the account the transactions decided on.
THEOREM ReadSidesAgree == Spec => []FoldsAgree
<1>1. ReadIInv => FoldsAgree
  BY DEF ReadIInv
<1>2. QED
  BY <1>1, ReadInductive, PTL

\* The outbox has one row per grant, charge and release, in stream order, quoting
\* the balance at that point of the stream.
THEOREM OutboxIsMirror == Spec => []OutboxMirrorsLedger
<1>1. ReadIInv => OutboxMirrorsLedger
  BY DEF ReadIInv
<1>2. QED
  BY <1>1, ReadInductive, PTL
===============================================================================
