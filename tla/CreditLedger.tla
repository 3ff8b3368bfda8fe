----------------------------- MODULE CreditLedger -----------------------------
(***************************************************************************)
(* One event-sourced credit wallet and the database transactions that run  *)
(* against it (src/modules/credit).  Every command is a READ COMMITTED     *)
(* transaction in two steps: loadOrOpen() folds the committed stream into  *)
(* a private CreditAccount, and later save() appends one event at the      *)
(* loaded version plus one, together with the AiQuery row and the outbox   *)
(* row of the same transaction.  Nothing locks the wallet in between: the  *)
(* unique index on (aggregateId, version) is the only thing that keeps two *)
(* transactions apart.  Wallets share no rows, so one is enough.           *)
(***************************************************************************)
EXTENDS Integers, Sequences, FiniteSets

CONSTANTS
  Reservations,   \* reservation ids (randomUUID in AskAiHandler)
  Cost,           \* env.aiQueryCreditCost
  Amounts,        \* amounts of grants, refunds and direct spends
  Txns,           \* database connections a command may run on
  NoReservation,  \* payload without a reservationId
  MaxEvents       \* bound: no command starts once the stream is this long

ASSUME CreditAssumption ==
  /\ IsFiniteSet(Reservations)
  /\ Cost \in Nat \ {0}
  /\ Amounts \subseteq Nat \ {0}
  /\ NoReservation \notin Reservations
  /\ MaxEvents \in Nat

VARIABLES
  ledger,     \* the wallet's credit_events rows, in commit order
  account,    \* what rehydrate() returns on those rows
  inflight,   \* open transactions, each with the account it loaded
  issued,     \* reservation ids a ReserveCreditsCommand has named
  aiQueries,  \* ai_queries rows, keyed by the unique reservationId
  outbox      \* outbox rows of this aggregate, in commit order

vars == <<ledger, account, inflight, issued, aiQueries, outbox>>

-------------------------------------------------------------------------------
(* Types *)

ReservationStatus == {"NONE", "OPEN", "COMMITTED", "RELEASED"}

DirectEvents == {"CreditGranted", "CreditRefunded", "CreditSpent"}

ReservationEvents ==
  {"CreditReserved", "CreditReservationCommitted", "CreditReservationReleased"}

CreditLedgerEvent ==
  [eventType : DirectEvents, version : Nat, amount : Amounts,
   reservationId : {NoReservation}]
    \cup
  [eventType : ReservationEvents, version : Nat, amount : {Cost},
   reservationId : Reservations]

CreditAccount ==
  [version : Nat, balance : Int, reservations : [Reservations -> ReservationStatus]]

Command ==
  [kind : {"Grant", "Refund", "Spend"}, amount : Amounts, reservationId : {NoReservation}]
    \cup
  [kind : {"Reserve", "Commit", "Release"}, amount : {Cost}, reservationId : Reservations]

Transaction == [id : Txns, command : Command, account : CreditAccount]

AiQuery == [status : {"NONE", "ANSWERED", "FAILED"}, creditCost : {0, Cost}]

OutboxRow ==
  [type : {"CreditAwarded", "CreditSpent"}, amount : Amounts \cup {Cost},
   reservationId : Reservations \cup {NoReservation}, balance : Int]
    \cup
  [type : {"CreditReservationReleased"}, amount : {Cost}, reservationId : Reservations]

TypeOK ==
  /\ ledger \in Seq(CreditLedgerEvent)
  /\ account \in CreditAccount
  /\ inflight \subseteq Transaction
  /\ issued \subseteq Reservations
  /\ aiQueries \in [Reservations -> AiQuery]
  /\ outbox \in Seq(OutboxRow)

-------------------------------------------------------------------------------
(* The CreditAccount aggregate *)

\* A wallet that never had an event.
Open == [version |-> 0, balance |-> 0, reservations |-> [r \in Reservations |-> "NONE"]]

\* Effect of one event on the balance: a hold and its release move nothing.
Moves(e) ==
  IF e.eventType \in {"CreditGranted", "CreditRefunded"} THEN e.amount
  ELSE IF e.eventType \in {"CreditSpent", "CreditReservationCommitted"} THEN -e.amount
  ELSE 0

StatusAfter ==
  [CreditReserved |-> "OPEN", CreditReservationCommitted |-> "COMMITTED",
   CreditReservationReleased |-> "RELEASED"]

Apply(a, e) ==
  [version      |-> e.version,
   balance      |-> a.balance + Moves(e),
   reservations |-> IF e.eventType \in ReservationEvents
                      THEN [a.reservations EXCEPT ![e.reservationId] = StatusAfter[e.eventType]]
                      ELSE a.reservations]

OpenReservations(a) == {r \in Reservations : a.reservations[r] = "OPEN"}

\* Every reservation holds the same flat Cost, so the total is a product.
Reserved(a) == Cost * Cardinality(OpenReservations(a))

Available(a) == a.balance - Reserved(a)

\* The event raise() produces: one version past the account it was decided on.
Raise(a, eventType, amount, r) ==
  [eventType |-> eventType, version |-> a.version + 1, amount |-> amount, reservationId |-> r]

-------------------------------------------------------------------------------
(* Transactions *)

Init ==
  /\ ledger = <<>>
  /\ account = Open
  /\ inflight = {}
  /\ issued = {}
  /\ aiQueries = [r \in Reservations |-> [status |-> "NONE", creditCost |-> 0]]
  /\ outbox = <<>>

\* A command starts and loads the account.  A reservation id is drawn fresh for
\* a reserve; commits and releases only ever name one that was drawn.
Begin(t, c) ==
  /\ Len(ledger) < MaxEvents
  /\ \A x \in inflight : x.id # t
  /\ IF c.kind = "Reserve" THEN c.reservationId \notin issued
     ELSE c.reservationId \in issued \cup {NoReservation}
  /\ issued' = IF c.kind = "Reserve" THEN issued \cup {c.reservationId} ELSE issued
  /\ inflight' = inflight \cup {[id |-> t, command |-> c, account |-> account]}
  /\ UNCHANGED <<ledger, account, aiQueries, outbox>>

\* Mutant of VersionTaken: the unique index is missing.
NeverTaken(v) == v = 0

\* P2002: the version this transaction would write already has a row.
VersionTaken(v) == \E i \in DOMAIN ledger : ledger[i].version = v

\* The event a transaction raises, and the account it then reports from.
EventOf(x, eventType) == Raise(x.account, eventType, x.command.amount, x.command.reservationId)

\* save(): insert the event under the unique index and end the transaction.
Save(x, eventType) ==
  LET e == EventOf(x, eventType) IN
  /\ ~VersionTaken(e.version)
  /\ ledger' = Append(ledger, e)
  /\ account' = Apply(account, e)
  /\ inflight' = inflight \ {x}
  /\ UNCHANGED issued

\* Mutant of BalanceAfter: the balance is read before the event is raised.
BalanceBefore(x, eventType) == x.account.balance

BalanceAfter(x, eventType) == Apply(x.account, EventOf(x, eventType)).balance

Record(r, status, cost) ==
  aiQueries' = [aiQueries EXCEPT ![r] = [status |-> status, creditCost |-> cost]]

GrantCredits(x) ==
  /\ x.command.kind = "Grant"
  /\ Save(x, "CreditGranted")
  /\ outbox' = Append(outbox, [type |-> "CreditAwarded", amount |-> x.command.amount,
                               reservationId |-> NoReservation,
                               balance |-> BalanceAfter(x, "CreditGranted")])
  /\ UNCHANGED aiQueries

RefundCredits(x) ==
  /\ x.command.kind = "Refund"
  /\ Save(x, "CreditRefunded")
  /\ UNCHANGED <<aiQueries, outbox>>

\* Mutant of SpendCredits: checked against the balance, not `available`.
SpendFromBalance(x) ==
  /\ x.command.kind = "Spend"
  /\ x.command.amount <= x.account.balance
  /\ Save(x, "CreditSpent")
  /\ UNCHANGED <<aiQueries, outbox>>

SpendCredits(x) ==
  /\ x.command.kind = "Spend"
  /\ x.command.amount <= Available(x.account)
  /\ Save(x, "CreditSpent")
  /\ UNCHANGED <<aiQueries, outbox>>

\* Mutant of ReserveCredits: two questions may hold the same credits.
ReserveFromBalance(x) ==
  /\ x.command.kind = "Reserve"
  /\ x.command.amount <= x.account.balance
  /\ Save(x, "CreditReserved")
  /\ UNCHANGED <<aiQueries, outbox>>

ReserveCredits(x) ==
  /\ x.command.kind = "Reserve"
  /\ x.command.amount <= Available(x.account)
  /\ Save(x, "CreditReserved")
  /\ UNCHANGED <<aiQueries, outbox>>

\* Charge the hold, store the answer and announce the spend, in one transaction.
CommitAiQuery(x) ==
  LET r == x.command.reservationId IN
  /\ x.command.kind = "Commit"
  /\ x.account.reservations[r] = "OPEN"
  /\ Save(x, "CreditReservationCommitted")
  /\ Record(r, "ANSWERED", x.command.amount)
  /\ outbox' = Append(outbox, [type |-> "CreditSpent", amount |-> x.command.amount,
                               reservationId |-> r,
                               balance |-> BalanceAfter(x, "CreditReservationCommitted")])

\* Mutant of ReleaseReservation: releases a hold whatever its status.
ReleaseAnyStatus(x) ==
  LET r == x.command.reservationId IN
  /\ x.command.kind = "Release"
  /\ Save(x, "CreditReservationReleased")
  /\ Record(r, "FAILED", 0)
  /\ outbox' = Append(outbox, [type |-> "CreditReservationReleased", amount |-> x.command.amount,
                               reservationId |-> r])

\* Mutant of ReleaseReservation: the AiQuery is recorded before the early return.
ReleaseRecordsAnyway(x) ==
  LET r == x.command.reservationId IN
  /\ x.command.kind = "Release"
  /\ IF x.account.reservations[r] = "OPEN"
       THEN Save(x, "CreditReservationReleased")
       ELSE inflight' = inflight \ {x} /\ UNCHANGED <<ledger, account, issued>>
  /\ Record(r, "FAILED", 0)
  /\ UNCHANGED outbox

\* Free the hold, store the failure at cost 0 and announce the release.
ReleaseReservation(x) ==
  LET r == x.command.reservationId IN
  /\ x.command.kind = "Release"
  /\ x.account.reservations[r] = "OPEN"
  /\ Save(x, "CreditReservationReleased")
  /\ Record(r, "FAILED", 0)
  /\ outbox' = Append(outbox, [type |-> "CreditReservationReleased", amount |-> x.command.amount,
                               reservationId |-> r])

\* The aggregate declines: a spend or reserve past `available` and a commit of a
\* hold that is not open throw; the release of one returns false.
Refused(x) ==
  \/ x.command.kind \in {"Spend", "Reserve"} /\ x.command.amount > Available(x.account)
  \/ /\ x.command.kind \in {"Commit", "Release"}
     /\ x.account.reservations[x.command.reservationId] # "OPEN"

\* The transaction ends and leaves no row behind.
Rollback(x) ==
  /\ inflight' = inflight \ {x}
  /\ UNCHANGED <<ledger, account, issued, aiQueries, outbox>>

Refuse(x) == Refused(x) /\ Rollback(x)

\* A grant to a non-member, a conflict surfaced as 409 once the retries are used
\* up, a timeout, a lost connection or a crash before the database commits.
Abort(x) == ~Refused(x) /\ Rollback(x)

\* CreditConcurrencyError is transient: CommandBus.withRetry runs the same
\* command again from loadOrOpen().
Retry(x) ==
  /\ ~Refused(x)
  /\ VersionTaken(x.account.version + 1)
  /\ inflight' = (inflight \ {x}) \cup {[x EXCEPT !.account = account]}
  /\ UNCHANGED <<ledger, account, issued, aiQueries, outbox>>

Step(x) ==
  \/ GrantCredits(x) \/ RefundCredits(x) \/ SpendCredits(x) \/ ReserveCredits(x)
  \/ CommitAiQuery(x) \/ ReleaseReservation(x)
  \/ Refuse(x) \/ Abort(x) \/ Retry(x)

Next ==
  \/ \E t \in Txns, c \in Command : Begin(t, c)
  \/ \E x \in inflight : Step(x)

Spec == Init /\ [][Next]_vars

-------------------------------------------------------------------------------
(* Properties *)

\* Nobody can commit credits to two things: the open holds never exceed the
\* balance, however loads and saves of concurrent transactions interleave.
NoOverdraft == Available(account) >= 0

\* Optimistic concurrency works: the stream has exactly the versions 1..n, in
\* commit order, and no in-flight snapshot is ahead of it.
StreamIsGapless ==
  /\ \A i \in DOMAIN ledger : ledger[i].version = i
  /\ \A x \in inflight : x.account.version <= Len(ledger)

\* A reservation is reserved at most once and settled at most once, whoever
\* commits, compensates, reaps or sweeps it.
Rows(types, r) == {i \in DOMAIN ledger : ledger[i].eventType \in types /\ ledger[i].reservationId = r}

SettledAtMostOnce ==
  \A r \in Reservations :
    LET holding  == Rows({"CreditReserved"}, r)
        settling == Rows({"CreditReservationCommitted", "CreditReservationReleased"}, r)
    IN /\ \A i, j \in holding : i = j
       /\ \A i, j \in settling : i = j
       /\ \A s \in settling : \E h \in holding : h < s

\* The AiQuery history agrees with the ledger: ANSWERED and charged exactly when
\* the hold was committed, FAILED and free exactly when it was released.
HistoryOf ==
  [NONE      |-> [status |-> "NONE", creditCost |-> 0],
   OPEN      |-> [status |-> "NONE", creditCost |-> 0],
   COMMITTED |-> [status |-> "ANSWERED", creditCost |-> Cost],
   RELEASED  |-> [status |-> "FAILED", creditCost |-> 0]]

HistoryMatchesLedger ==
  \A r \in Reservations : aiQueries[r] = HistoryOf[account.reservations[r]]

\* A snapshot is what the account was at its version: a transaction that may
\* still save has loaded the present account.
SnapshotsAreCurrentOrStale ==
  /\ account.version = Len(ledger)
  /\ \A x \in inflight : x.account.version = Len(ledger) => x.account = account

\* A pending reserve is the only one of its id and finds no earlier status.
ReservesAreFresh ==
  /\ \A r \in Reservations \ issued : account.reservations[r] = "NONE"
  /\ \A x \in inflight : x.command.kind = "Reserve" =>
       /\ x.command.reservationId \in issued
       /\ account.reservations[x.command.reservationId] = "NONE"
       /\ \A y \in inflight :
            y.command.kind = "Reserve" /\ y.command.reservationId = x.command.reservationId
              => y = x

\* Rows of a reservation, as its status tells.
RowsMatchStatus ==
  \A r \in Reservations :
    LET holding  == Rows({"CreditReserved"}, r)
        settling == Rows({"CreditReservationCommitted", "CreditReservationReleased"}, r)
        status   == account.reservations[r]
    IN /\ status = "NONE" <=> holding = {}
       /\ status \in {"NONE", "OPEN"} <=> settling = {}

\* The inductive invariant: what one transaction must know about all the others
\* for the properties above to survive its save.
IInv ==
  /\ TypeOK
  /\ StreamIsGapless
  /\ SnapshotsAreCurrentOrStale
  /\ ReservesAreFresh
  /\ RowsMatchStatus
  /\ SettledAtMostOnce
  /\ HistoryMatchesLedger
  /\ NoOverdraft

\* The wallet seen from outside: balance and reservation statuses.
W == INSTANCE Wallet WITH balance <- account.balance, holds <- account.reservations

\* Interleaved load/save transactions behave like the atomic wallet.
RefinesWallet == W!Spec
===============================================================================
