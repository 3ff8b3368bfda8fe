SPECIFICATION Spec
CONSTANTS
  Reservations = {r1, r2}
  Cost = 2
  Amounts <- MCAmounts
  Txns = {t1, t2}
  NoReservation = NoReservation
  MaxEvents = 4
SYMMETRY Symmetry
INVARIANTS
  NoOverdraft
  StreamIsGapless
  SettledAtMostOnce
  HistoryMatchesLedger
  FoldsAgree
  OutboxMirrorsLedger
PROPERTIES
  RefinesWallet
CHECK_DEADLOCK FALSE
