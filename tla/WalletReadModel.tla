---------------------------- MODULE WalletReadModel ----------------------------
(***************************************************************************)
(* The two folds of the ledger, side by side: CreditAccount.rehydrate(),   *)
(* which authorises spending, and PrismaWalletQueryRepository.getWallet(), *)
(* which answers GET /credits/wallet.  They are separate implementations   *)
(* ("a SECOND implementation of CreditAccount.apply()") over the same      *)
(* rows; every stream the transactions of CreditLedger can produce is put  *)
(* through both.  The outbox is compared with the rows it was written for. *)
(***************************************************************************)
EXTENDS CreditLedger, SequencesExt

\* orderBy: { version: 'asc' }.  The unique index keeps two rows from sharing a
\* version, so a row's place is the number of rows up to its version.
ByVersion(rows) ==
  LET place(i) == Cardinality({j \in DOMAIN rows : rows[j].version <= rows[i].version})
  IN [k \in DOMAIN rows |-> rows[CHOOSE i \in DOMAIN rows : place(i) = k]]

\* rehydrate(): fold apply() over the rows in version order.
Rehydrate(rows) == FoldLeft(Apply, Open, ByVersion(rows))

\* Mutant of ViewRow: a released hold stays in the map of open reservations.
ViewRowKeepsReleased(w, row) ==
  LET type == row.eventType
      plus(t) == IF type \in t THEN row.amount ELSE 0
      spent == plus({"CreditSpent", "CreditReservationCommitted"})
  IN [balance       |-> w.balance + plus({"CreditGranted", "CreditRefunded"}) - spent,
      totalGranted  |-> w.totalGranted + plus({"CreditGranted"}),
      totalRefunded |-> w.totalRefunded + plus({"CreditRefunded"}),
      totalSpent    |-> w.totalSpent + spent,
      open          |-> CASE type = "CreditReserved" -> w.open \cup {row.reservationId}
                          [] type = "CreditReservationCommitted" -> w.open \ {row.reservationId}
                          [] OTHER -> w.open]

\* One row of getWallet's loop.  A settled reservation leaves the map instead of
\* keeping a status; a committed one counts as spend.
ViewRow(w, row) ==
  LET type == row.eventType
      plus(t) == IF type \in t THEN row.amount ELSE 0
      spent == plus({"CreditSpent", "CreditReservationCommitted"})
  IN [balance       |-> w.balance + plus({"CreditGranted", "CreditRefunded"}) - spent,
      totalGranted  |-> w.totalGranted + plus({"CreditGranted"}),
      totalRefunded |-> w.totalRefunded + plus({"CreditRefunded"}),
      totalSpent    |-> w.totalSpent + spent,
      open          |-> CASE type = "CreditReserved" -> w.open \cup {row.reservationId}
                          [] type \in ReservationEvents \ {"CreditReserved"} ->
                               w.open \ {row.reservationId}
                          [] OTHER -> w.open]

EmptyWallet == [balance |-> 0, totalGranted |-> 0, totalRefunded |-> 0, totalSpent |-> 0, open |-> {}]

GetWallet(rows) == FoldLeft(ViewRow, EmptyWallet, ByVersion(rows))

\* The signed effect an entry of the statement shows next to its row.
WalletDelta(row) ==
  CASE row.eventType \in {"CreditSpent", "CreditReservationCommitted"} -> -row.amount
    [] row.eventType \in {"CreditGranted", "CreditRefunded"} -> row.amount
    [] OTHER -> 0

SumOfDeltas(rows) == FoldLeft(LAMBDA sum, row : sum + WalletDelta(row), 0, rows)

--------------------------------------------------------------------------------

\* Replaying the stored stream gives back the account the transactions decided
\* on: nothing an in-flight snapshot knew is missing from, or extra in, the rows.
RehydrateAgrees == Rehydrate(ledger) = account

\* The wallet endpoint never disagrees with the aggregate that authorises
\* spending: same balance, same holds, totals and statement that add up to it.
FoldsAgree ==
  LET w == GetWallet(ledger) IN
  /\ RehydrateAgrees
  /\ w.balance = account.balance
  /\ w.balance - Cost * Cardinality(w.open) = Available(account)
  /\ w.balance = w.totalGranted + w.totalRefunded - w.totalSpent
  /\ w.balance = SumOfDeltas(ledger)

\* What the outbox must say about one row, with the balance right after it.
FactOf(row) ==
  LET balance == Rehydrate(SubSeq(ledger, 1, row.version)).balance IN
  CASE row.eventType = "CreditGranted" ->
         [type |-> "CreditAwarded", amount |-> row.amount,
          reservationId |-> NoReservation, balance |-> balance]
    [] row.eventType = "CreditReservationCommitted" ->
         [type |-> "CreditSpent", amount |-> row.amount,
          reservationId |-> row.reservationId, balance |-> balance]
    [] OTHER ->
         [type |-> "CreditReservationReleased", amount |-> row.amount,
          reservationId |-> row.reservationId]

Announced == {"CreditGranted", "CreditReservationCommitted", "CreditReservationReleased"}

\* The rows with something to announce, and the outbox row that is due to each.
Announcing == {i \in DOMAIN ledger : ledger[i].eventType \in Announced}

PlaceOf(i) == Cardinality({j \in Announcing : j <= i})

\* The outbox announces each grant, charge and release exactly once, in ledger
\* order, and the balance it quotes is the balance at that point of the stream.
OutboxMirrorsLedger ==
  /\ Len(outbox) = Cardinality(Announcing)
  /\ \A i \in Announcing : outbox[PlaceOf(i)] = FactOf(ledger[i])
================================================================================
