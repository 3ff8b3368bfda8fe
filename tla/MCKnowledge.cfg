SPECIFICATION Spec
CONSTANTS
  Transactions = {t1, t2}
  Texts = {x, y}
  Answers = {a}
  None = None
  MaxVersion = 4
  MaxEvents = 2
INVARIANTS
  HistoryIsWhole
  EditsNameWhatTheyReplace
  AnnouncedOnce
PROPERTIES
  FlagsFallOnlyToStaleWrites
CHECK_DEADLOCK FALSE
