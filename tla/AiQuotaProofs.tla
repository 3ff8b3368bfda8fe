----------------------------- MODULE AiQuotaProofs -----------------------------
(***************************************************************************)
(* The token bucket for any number of requests, any capacity and price and *)
(* any last tick of the clock.  The argument is one quantity, the level of *)
(* the bucket at the start of the clock: tokens - lastRefillAt.  Refilling *)
(* leaves it or, at the brim, lowers it; a token spent lowers it by Cost.  *)
(***************************************************************************)
EXTENDS AiQuota, TLAPS

Level(row) == row.tokens - row.lastRefillAt

\* Since the first token of a span, the level fell by all that was spent in it.
SpendingLowersLevel ==
  \A row \in bucket : \A w \in Spans :
    granted[w] > 0 => Level(row) + Cost * granted[w] <= Full - w[1]

\* No bucket, no tokens.
NothingWithoutBucket == bucket = {} => \A w \in Spans : granted[w] = 0

BurstInv == TypeOK /\ SpendingLowersLevel /\ NothingWithoutBucket /\ BurstIsBounded

\* The tokens from some tick on, to the end of time.
Since(s) == <<s, MaxTime>>

LongerSpansHoldMore ==
  \A r, s \in Time : r <= s => granted[Since(s)] <= granted[Since(r)]

\* The bucket was full at some tick; what is missing was spent since, or is refill
\* that overtaken stamps took away.
MissingIsSpent ==
  \A row \in bucket : \E s \in 0 .. row.lastRefillAt :
    Level(row) + Cost * granted[Since(s)] + setback >= Full - s

RefusalInv == TypeOK /\ LongerSpansHoldMore /\ MissingIsSpent

-------------------------------------------------------------------------------
(* Arithmetic *)

LEMMA FullIsNat == Full \in Nat /\ Cost <= Full /\ Cost \in Nat \ {0}
  BY QuotaAssumption DEF Full

\* One token more costs Cost more.
LEMMA OneMore ==
  ASSUME NEW g \in Nat
  PROVE  Cost * g \in Nat /\ Cost * (g + 1) = Cost * g + Cost
  BY QuotaAssumption

\* More tokens cost more.
LEMMA MoreCostMore ==
  ASSUME NEW g \in Nat, NEW h \in Nat, g <= h
  PROVE  Cost * g <= Cost * h
  BY QuotaAssumption

LEMMA SpanType ==
  ASSUME NEW w \in Spans
  PROVE  w[1] \in Time /\ w[2] \in Time /\ w[1] <= w[2]
  BY DEF Spans

LEMMA SinceType ==
  ASSUME NEW s \in Time
  PROVE  Since(s) \in Spans /\ Since(s)[1] = s /\ Since(s)[2] = MaxTime
  BY QuotaAssumption DEF Since, Spans, Time

\* A refill never passes the brim, and never raises the level.
LEMMA RefillBounds ==
  ASSUME NEW row \in AiQuotaBucket, NEW at \in Time
  PROVE  /\ Refilled(row, at) \in Int
         /\ Refilled(row, at) <= Full
         /\ Refilled(row, at) - at <= Level(row)
         /\ Refilled(row, at) \in {Full, Level(row) + at}
  BY FullIsNat, QuotaAssumption DEF Refilled, Level, AiQuotaBucket, Time

\* What one request let through does to the row and to the counts.
LEMMA ConsumeEffect ==
  ASSUME TypeOK, NEW q \in Requests, Consume(q)
  PROVE  \E row \in AiQuotaBucket : \E new \in AiQuotaBucket :
           /\ bucket = {row} /\ bucket' = {new}
           /\ new.lastRefillAt = stamp[q]
           /\ new.tokens = Refilled(row, stamp[q]) - Cost
           /\ stamp[q] \in Time
           /\ granted' \in [Spans -> Nat]
           /\ \A w \in Spans :
                granted'[w] = IF w[1] <= stamp[q] /\ stamp[q] <= w[2]
                              THEN granted[w] + 1 ELSE granted[w]
           /\ setback' = setback + (IF stamp[q] < row.lastRefillAt
                                    THEN row.lastRefillAt - stamp[q] ELSE 0)
           /\ setback' \in Nat
<1>1. PICK row \in bucket :
        /\ Refilled(row, stamp[q]) >= Cost
        /\ bucket' = {[tokens |-> Refilled(row, stamp[q]) - Cost, lastRefillAt |-> stamp[q]]}
        /\ Count(stamp[q])
        /\ setback' = setback + (IF stamp[q] < row.lastRefillAt THEN row.lastRefillAt - stamp[q] ELSE 0)
  BY DEF Consume
<1>2. row \in AiQuotaBucket /\ bucket = {row} /\ stamp[q] \in Time
  BY DEF TypeOK
<1>3. [tokens |-> Refilled(row, stamp[q]) - Cost, lastRefillAt |-> stamp[q]] \in AiQuotaBucket
  BY <1>1, <1>2, RefillBounds, FullIsNat DEF AiQuotaBucket
<1>4. /\ granted' \in [Spans -> Nat]
      /\ \A w \in Spans :
           granted'[w] = IF w[1] <= stamp[q] /\ stamp[q] <= w[2]
                         THEN granted[w] + 1 ELSE granted[w]
  BY <1>1 DEF Count, TypeOK
<1>5. setback' \in Nat
  BY <1>1, <1>2 DEF TypeOK, AiQuotaBucket, Time
<1> QED
  BY <1>1, <1>2, <1>3, <1>4, <1>5

-------------------------------------------------------------------------------
(* Types *)

LEMMA TypeInit == Init => TypeOK
  BY QuotaAssumption DEF Init, TypeOK, Time, Spans

LEMMA TypeNext == TypeOK /\ [Next]_vars => TypeOK'
<1> SUFFICES ASSUME TypeOK, [Next]_vars PROVE TypeOK'
  OBVIOUS
<1>1. ASSUME Tick PROVE TypeOK'
  BY <1>1, QuotaAssumption DEF Tick, TypeOK, Time
<1>2. ASSUME NEW q \in Requests, CanActivate(q) PROVE TypeOK'
  BY <1>2 DEF CanActivate, Goto, TypeOK
<1>3. ASSUME NEW q \in Requests, InsertBucket(q) PROVE TypeOK'
  <2>1. [tokens |-> Full, lastRefillAt |-> now] \in AiQuotaBucket
    BY FullIsNat DEF TypeOK, AiQuotaBucket
  <2>2. bucket' \in {{}} \cup {{row} : row \in AiQuotaBucket}
    BY <1>3, <2>1 DEF InsertBucket, TypeOK
  <2> QED
    BY <1>3, <2>2 DEF InsertBucket, Goto, TypeOK
<1>4. ASSUME NEW q \in Requests, StartUpdate(q) PROVE TypeOK'
  BY <1>4 DEF StartUpdate, Goto, TypeOK
<1>5. ASSUME NEW q \in Requests, Consume(q) PROVE TypeOK'
  <2>1. /\ bucket' \in {{}} \cup {{row} : row \in AiQuotaBucket}
        /\ granted' \in [Spans -> Nat] /\ setback' \in Nat
    BY <1>5, ConsumeEffect
  <2> QED
    BY <1>5, <2>1 DEF Consume, Goto, TypeOK
<1>6. ASSUME NEW q \in Requests, Refuse(q) \/ Abandon(q) PROVE TypeOK'
  BY <1>6 DEF Refuse, Abandon, Goto, TypeOK
<1>7. ASSUME UNCHANGED vars PROVE TypeOK'
  BY <1>7 DEF vars, TypeOK
<1> QED
  BY <1>1, <1>2, <1>3, <1>4, <1>5, <1>6, <1>7 DEF Next, ConsumeToken

\* TypeOK: the row's tokens never leave 0 .. Full and there is at most one row.
THEOREM TypeCorrect == Spec => []TypeOK
  BY TypeInit, TypeNext, PTL DEF Spec

-------------------------------------------------------------------------------
(* Bursts *)

LEMMA BurstInit == Init => BurstInv
<1> SUFFICES ASSUME Init PROVE BurstInv
  OBVIOUS
<1>1. SpendingLowersLevel /\ NothingWithoutBucket
  BY DEF Init, SpendingLowersLevel, NothingWithoutBucket
<1>2. BurstIsBounded
  <2> SUFFICES ASSUME NEW w \in Spans PROVE Cost * granted[w] <= Full + (w[2] - w[1])
    BY DEF BurstIsBounded
  <2> QED
    BY SpanType, FullIsNat, QuotaAssumption DEF Init, Time
<1> QED
  BY <1>1, <1>2, TypeInit DEF BurstInv

LEMMA InsertKeepsBurst ==
  ASSUME BurstInv, NEW q \in Requests, InsertBucket(q)
  PROVE  (SpendingLowersLevel /\ NothingWithoutBucket /\ BurstIsBounded)'
<1>1. granted' = granted
  BY DEF InsertBucket
<1>2. BurstIsBounded'
  BY <1>1 DEF BurstInv, BurstIsBounded
<1>3. CASE bucket = {}
  <2>1. \A w \in Spans : granted'[w] = 0
    BY <1>1, <1>3 DEF BurstInv, NothingWithoutBucket
  <2> QED
    BY <1>2, <2>1 DEF SpendingLowersLevel, NothingWithoutBucket
<1>4. CASE bucket # {}
  BY <1>1, <1>2, <1>4 DEF InsertBucket, BurstInv, SpendingLowersLevel, NothingWithoutBucket
<1> QED
  BY <1>3, <1>4

LEMMA ConsumeKeepsBurst ==
  ASSUME BurstInv, NEW q \in Requests, Consume(q)
  PROVE  (SpendingLowersLevel /\ NothingWithoutBucket /\ BurstIsBounded)'
<1> DEFINE at == stamp[q]
<1>1. PICK row \in AiQuotaBucket : \E new \in AiQuotaBucket :
        /\ bucket = {row} /\ bucket' = {new}
        /\ new.lastRefillAt = at
        /\ new.tokens = Refilled(row, at) - Cost
        /\ at \in Time
        /\ granted' \in [Spans -> Nat]
        /\ \A w \in Spans :
             granted'[w] = IF w[1] <= at /\ at <= w[2] THEN granted[w] + 1 ELSE granted[w]
  BY ConsumeEffect DEF BurstInv
<1>2. PICK new \in AiQuotaBucket :
        /\ bucket = {row} /\ bucket' = {new}
        /\ new.lastRefillAt = at
        /\ new.tokens = Refilled(row, at) - Cost
        /\ at \in Time
        /\ granted' \in [Spans -> Nat]
        /\ \A w \in Spans :
             granted'[w] = IF w[1] <= at /\ at <= w[2] THEN granted[w] + 1 ELSE granted[w]
  BY <1>1
<1> HIDE DEF at
<1>3. Level(new) <= Level(row) - Cost /\ Level(new) <= Full - at - Cost /\ Level(new) >= -at
  BY <1>2, RefillBounds, FullIsNat DEF Level, AiQuotaBucket, Time
<1>4. Level(new) \in Int /\ Level(row) \in Int /\ at \in Nat
  BY <1>2, FullIsNat DEF Level, AiQuotaBucket, Time
<1>5. ASSUME NEW w \in Spans
      PROVE  /\ granted'[w] > 0 => Level(new) + Cost * granted'[w] <= Full - w[1]
             /\ Cost * granted'[w] <= Full + (w[2] - w[1])
  <2>1. granted[w] \in Nat /\ w[1] \in Nat /\ w[2] \in Nat
    BY SpanType DEF BurstInv, TypeOK, Time
  <2>2. /\ granted[w] > 0 => Level(row) + Cost * granted[w] <= Full - w[1]
        /\ Cost * granted[w] <= Full + (w[2] - w[1])
    BY <1>2 DEF BurstInv, SpendingLowersLevel, BurstIsBounded
  <2>3. Cost * granted[w] \in Nat /\ Cost * (granted[w] + 1) = Cost * granted[w] + Cost
    BY <2>1, OneMore
  <2>4. granted[w] = 0 => Cost * granted[w] = 0
    BY QuotaAssumption
  <2>5. CASE w[1] <= at /\ at <= w[2]
    <3>1. granted'[w] = granted[w] + 1
      BY <1>2, <2>5
    <3> HIDE DEF Level, Full
    <3>2. Level(new) + (Cost * granted[w] + Cost) <= Full - w[1]
      BY <1>3, <1>4, <2>1, <2>2, <2>3, <2>4, <2>5, FullIsNat
    <3>3. Cost * granted[w] + Cost <= Full + (w[2] - w[1])
      BY <1>3, <1>4, <2>1, <2>3, <2>5, <3>2, FullIsNat
    <3> QED
      BY <2>3, <3>1, <3>2, <3>3
  <2>6. CASE ~(w[1] <= at /\ at <= w[2])
    <3>1. granted'[w] = granted[w]
      BY <1>2, <2>6
    <3> QED
      BY <1>3, <1>4, <2>1, <2>2, <2>3, <3>1, FullIsNat
  <2> QED
    BY <2>5, <2>6
<1> QED
  BY <1>2, <1>5 DEF SpendingLowersLevel, NothingWithoutBucket, BurstIsBounded

LEMMA BurstNext == BurstInv /\ [Next]_vars => BurstInv'
<1> SUFFICES ASSUME BurstInv, [Next]_vars PROVE BurstInv'
  OBVIOUS
<1>1. TypeOK'
  BY TypeNext DEF BurstInv
<1>2. ASSUME UNCHANGED <<bucket, granted>>
      PROVE  (SpendingLowersLevel /\ NothingWithoutBucket /\ BurstIsBounded)'
  BY <1>2 DEF BurstInv, SpendingLowersLevel, NothingWithoutBucket, BurstIsBounded
<1>3. \/ UNCHANGED <<bucket, granted>>
      \/ \E q \in Requests : InsertBucket(q) \/ Consume(q)
  BY DEF Next, ConsumeToken, Tick, CanActivate, StartUpdate, Refuse, Abandon, vars
<1>4. (SpendingLowersLevel /\ NothingWithoutBucket /\ BurstIsBounded)'
  BY <1>2, <1>3, InsertKeepsBurst, ConsumeKeepsBurst
<1> QED
  BY <1>1, <1>4 DEF BurstInv

\* BurstIsBounded: whatever overtakes whatever, the tokens spent by UPDATEs stamped
\* in a span of time are at most a full bucket and the span's refill.
THEOREM BurstSafe == Spec => []BurstIsBounded
<1>1. BurstInv => BurstIsBounded
  BY DEF BurstInv
<1> QED
  BY <1>1, BurstInit, BurstNext, PTL DEF Spec

-------------------------------------------------------------------------------
(* Refusals *)

LEMMA RefusalInit == Init => RefusalInv
<1> SUFFICES ASSUME Init PROVE RefusalInv
  OBVIOUS
<1>1. LongerSpansHoldMore
  BY SinceType DEF Init, LongerSpansHoldMore
<1>2. MissingIsSpent
  BY DEF Init, MissingIsSpent
<1> QED
  BY <1>1, <1>2, TypeInit DEF RefusalInv

LEMMA InsertKeepsRefusal ==
  ASSUME RefusalInv, NEW q \in Requests, InsertBucket(q)
  PROVE  (LongerSpansHoldMore /\ MissingIsSpent)'
<1>1. granted' = granted /\ setback' = setback /\ TypeOK
  BY DEF InsertBucket, RefusalInv
<1>2. LongerSpansHoldMore'
  BY <1>1 DEF RefusalInv, LongerSpansHoldMore
<1>3. CASE bucket = {}
  <2> DEFINE row == [tokens |-> Full, lastRefillAt |-> now]
  <2>1. bucket' = {row}
    BY <1>3 DEF InsertBucket
  <2>2. now \in 0 .. row.lastRefillAt /\ now \in Time
    BY <1>1 DEF TypeOK, Time
  <2>3. granted[Since(now)] \in Nat /\ setback \in Nat
    BY <1>1, <2>2, SinceType DEF TypeOK
  <2>4. Level(row) + Cost * granted[Since(now)] + setback >= Full - now
    BY <2>2, <2>3, OneMore, FullIsNat DEF Level, Time
  <2> QED
    BY <1>1, <1>2, <2>1, <2>2, <2>4 DEF MissingIsSpent
<1>4. CASE bucket # {}
  BY <1>1, <1>2, <1>4 DEF InsertBucket, RefusalInv, MissingIsSpent
<1> QED
  BY <1>3, <1>4

LEMMA ConsumeKeepsRefusal ==
  ASSUME RefusalInv, NEW q \in Requests, Consume(q)
  PROVE  (LongerSpansHoldMore /\ MissingIsSpent)'
<1> DEFINE at == stamp[q]
<1>1. PICK row \in AiQuotaBucket, new \in AiQuotaBucket :
        /\ bucket = {row} /\ bucket' = {new}
        /\ new.lastRefillAt = at
        /\ new.tokens = Refilled(row, at) - Cost
        /\ at \in Time
        /\ granted' \in [Spans -> Nat]
        /\ \A w \in Spans :
             granted'[w] = IF w[1] <= at /\ at <= w[2] THEN granted[w] + 1 ELSE granted[w]
        /\ setback' = setback + (IF at < row.lastRefillAt THEN row.lastRefillAt - at ELSE 0)
        /\ setback' \in Nat
  BY ConsumeEffect DEF RefusalInv
<1> HIDE DEF at
<1>2. \A s \in Time : /\ granted[Since(s)] \in Nat
                      /\ granted'[Since(s)] = IF s <= at THEN granted[Since(s)] + 1
                                              ELSE granted[Since(s)]
  <2> TAKE s \in Time
  <2>1. Since(s) \in Spans /\ Since(s)[1] = s /\ at <= Since(s)[2]
    BY <1>1, SinceType, QuotaAssumption DEF Time
  <2> QED
    BY <1>1, <2>1 DEF RefusalInv, TypeOK
<1>3. LongerSpansHoldMore'
  <2> SUFFICES ASSUME NEW r \in Time, NEW s \in Time, r <= s
               PROVE  granted'[Since(s)] <= granted'[Since(r)]
    BY DEF LongerSpansHoldMore, Since
  <2>1. granted[Since(s)] <= granted[Since(r)]
    BY DEF RefusalInv, LongerSpansHoldMore
  <2> QED
    BY <1>1, <1>2, <2>1 DEF Time
<1>4. PICK s \in 0 .. row.lastRefillAt :
        Level(row) + Cost * granted[Since(s)] + setback >= Full - s
  BY <1>1 DEF RefusalInv, MissingIsSpent
<1>5. /\ Level(row) \in Int /\ Level(new) \in Int /\ setback \in Nat
      /\ at \in Nat /\ row.lastRefillAt \in Nat /\ s \in Time
  <2>1. /\ row.lastRefillAt \in Time /\ row.tokens \in Nat
        /\ new.lastRefillAt \in Time /\ new.tokens \in Nat
    BY FullIsNat DEF AiQuotaBucket
  <2>2. setback \in Nat
    BY DEF RefusalInv, TypeOK
  <2> QED
    BY <1>1, <1>4, <2>1, <2>2, QuotaAssumption DEF Level, Time
<1>6. Level(new) = Level(row) - Cost \/ Level(new) = Full - at - Cost
  <2>1. Refilled(row, at) \in {Full, Level(row) + at} /\ Refilled(row, at) \in Int
    BY <1>1, RefillBounds
  <2>2. Level(new) = Refilled(row, at) - Cost - at
    BY <1>1 DEF Level
  <2> QED
    BY <1>5, <2>1, <2>2, FullIsNat
<1>7. granted'[Since(at)] = granted[Since(at)] + 1 /\ granted[Since(at)] \in Nat
  BY <1>1, <1>2, <1>5
<1>8. \E r \in 0 .. at : Level(new) + Cost * granted'[Since(r)] + setback' >= Full - r
  <2>1. CASE Level(new) = Full - at - Cost
    <3>1. /\ Cost * granted[Since(at)] \in Nat
          /\ Cost * granted'[Since(at)] = Cost * granted[Since(at)] + Cost
      BY <1>7, OneMore
    <3>2. Level(new) + Cost * granted'[Since(at)] + setback' >= Full - at
      BY <1>1, <1>5, <2>1, <3>1, FullIsNat
    <3> QED
      BY <1>5, <3>2
  <2>2. CASE Level(new) = Level(row) - Cost /\ s <= at
    <3>1. granted'[Since(s)] = granted[Since(s)] + 1 /\ granted[Since(s)] \in Nat
      BY <1>2, <1>5, <2>2
    <3>2. setback' >= setback
      BY <1>1, <1>5
    <3>3. Level(new) + Cost * granted'[Since(s)] + setback' >= Full - s
      BY <1>1, <1>4, <1>5, <2>2, <3>1, <3>2, OneMore, FullIsNat DEF Time
    <3> QED
      BY <1>5, <2>2, <3>3 DEF Time
  <2>3. CASE Level(new) = Level(row) - Cost /\ at < s
    <3>1. granted[Since(s)] \in Nat /\ granted[Since(s)] <= granted[Since(at)]
      BY <1>1, <1>2, <1>5, <2>3 DEF RefusalInv, LongerSpansHoldMore, Time
    <3>2. Cost * granted[Since(s)] <= Cost * granted[Since(at)]
      BY <1>7, <3>1, MoreCostMore
    <3>3. setback' = setback + (row.lastRefillAt - at)
      BY <1>1, <1>4, <1>5, <2>3 DEF Time
    <3>4. /\ Cost * granted'[Since(at)] = Cost * granted[Since(at)] + Cost
          /\ Cost * granted[Since(at)] \in Nat /\ Cost * granted[Since(s)] \in Nat
      BY <1>7, <3>1, OneMore
    <3>5. Level(new) + Cost * granted'[Since(at)] + setback' >= Full - at
      BY <1>4, <1>5, <2>3, <3>2, <3>3, <3>4, FullIsNat DEF Time
    <3> QED
      BY <1>5, <3>5
  <2> QED
    BY <1>5, <1>6, <2>1, <2>2, <2>3 DEF Time
<1> QED
  BY <1>1, <1>3, <1>8 DEF MissingIsSpent, Since

LEMMA RefusalNext == RefusalInv /\ [Next]_vars => RefusalInv'
<1> SUFFICES ASSUME RefusalInv, [Next]_vars PROVE RefusalInv'
  OBVIOUS
<1>1. TypeOK'
  BY TypeNext DEF RefusalInv
<1>2. ASSUME UNCHANGED <<bucket, granted, setback>>
      PROVE  (LongerSpansHoldMore /\ MissingIsSpent)'
  BY <1>2 DEF RefusalInv, LongerSpansHoldMore, MissingIsSpent
<1>3. \/ UNCHANGED <<bucket, granted, setback>>
      \/ \E q \in Requests : InsertBucket(q) \/ Consume(q)
  BY DEF Next, ConsumeToken, Tick, CanActivate, StartUpdate, Refuse, Abandon, vars
<1>4. (LongerSpansHoldMore /\ MissingIsSpent)'
  BY <1>2, <1>3, InsertKeepsRefusal, ConsumeKeepsRefusal
<1> QED
  BY <1>1, <1>4 DEF RefusalInv

LEMMA RefusalStep ==
  ASSUME RefusalInv, NEW q \in Requests, Refuse(q)
  PROVE  Deserved(stamp[q])
<1> DEFINE at == stamp[q]
<1>1. PICK row \in bucket : Refilled(row, at) < Cost
  BY DEF Refuse
<1>2. row \in AiQuotaBucket /\ at \in Time /\ setback \in Nat
  BY DEF RefusalInv, TypeOK
<1>3. PICK s \in 0 .. row.lastRefillAt :
        Level(row) + Cost * granted[Since(s)] + setback >= Full - s
  BY DEF RefusalInv, MissingIsSpent
<1> HIDE DEF at
<1>4. s \in Time /\ Level(row) \in Int /\ row.lastRefillAt \in Nat
  BY <1>2, <1>3, FullIsNat, QuotaAssumption DEF AiQuotaBucket, Time, Level
<1>5. Level(row) + at < Cost
  BY <1>1, <1>2, <1>4, RefillBounds, FullIsNat DEF Time
<1>6. Since(s) \in Spans /\ Since(s)[1] = s /\ Since(s)[2] = MaxTime /\ granted[Since(s)] \in Nat
  BY <1>4, SinceType DEF RefusalInv, TypeOK
<1>7. Cost * (granted[Since(s)] + 1) + (MaxTime - at) + setback > Full + (MaxTime - s)
  BY <1>2, <1>3, <1>4, <1>5, <1>6, OneMore, FullIsNat, QuotaAssumption DEF Time
<1> QED
  BY <1>2, <1>6, <1>7, QuotaAssumption DEF Deserved, Time, at

\* RefusalsAreDeserved: whoever is refused finds the bucket spent, but for the
\* refill that UPDATEs overtaking each other wrote away.
THEOREM RefusalsSafe == Spec => RefusalsAreDeserved
<1>1. RefusalInv /\ [Next]_vars =>
        [\A q \in Requests : (pc[q] = "wait" /\ Refuse(q)) => Deserved(stamp[q])]_vars
  BY RefusalStep
<1> QED
  BY <1>1, RefusalInit, RefusalNext, PTL DEF Spec, RefusalsAreDeserved
================================================================================
