------------------------------ MODULE OutboxProofs ------------------------------
(***************************************************************************)
(* The safety of Outbox for any number of replicas, streams and rows, any  *)
(* batch size and retry limit, and any number of faults.  What a replica   *)
(* has in hand is seen as two sets: the rows it still has to mark and,     *)
(* among them, those it still has to publish.  At the end, the whole is    *)
(* shown to implement EventLog.                                            *)
(***************************************************************************)
EXTENDS Outbox, FiniteSetTheorems, SequenceTheorems, TLAPS

HeldBy(p) == {job[p].todo[n].row : n \in DOMAIN job[p].todo}

Waiting(p) ==
  {job[p].todo[n].row : n \in {m \in DOMAIN job[p].todo :
                                 m > 1 \/ job[p].step \in {"claimed", "publish"}}}

NoRowTwice(p) ==
  \A m, n \in DOMAIN job[p].todo : m < n => job[p].todo[m].row # job[p].todo[n].row

\* What a replica has in hand exists, is there once, and was sent if it says so.
JobInv(p) ==
  /\ HeldBy(p) \subseteq DOMAIN rows
  /\ NoRowTwice(p)
  /\ job[p].step = "sent" => Sent(job[p].todo[1].row)
  /\ job[p].step # "idle" => p \in claimers

Shape ==
  /\ TypeOK
  /\ IsFiniteSet(claimers)
  /\ \A p \in Publishers : JobInv(p)

\* A row that was never returned is in one hand at most, and unsent while it waits
\* to be claimed or published.
FirstClaim(i) ==
  /\ rows[i].status = "PENDING" => ~Sent(i) /\ \A p \in Publishers : i \notin HeldBy(p)
  /\ \A p, q \in Publishers : p # q /\ i \in HeldBy(p) => i \notin HeldBy(q)
  /\ \A p \in Publishers : i \in Waiting(p) => ~Sent(i)

DeliveryInv ==
  /\ Shape
  /\ ProcessedMeansPublished
  /\ RedeliveredOnlyAfterRetry
  /\ \A i \in DOMAIN rows \ retried : FirstClaim(i)

-------------------------------------------------------------------------------
(* Order, while nothing went wrong and one replica published *)

Calm == faults = 0 /\ \A p, q \in claimers : p = q

InHand(i) == \E p \in Publishers : i \in HeldBy(p)

InStampOrder(p) ==
  \A m, n \in DOMAIN job[p].todo :
    m < n => CreatedAt(job[p].todo[m].row) <= CreatedAt(job[p].todo[n].row)

\* Every row has been sent, is in hand, or waits to be claimed, and none that comes
\* earlier in this is overtaken by one that it was committed and stamped before.
InLine ==
  /\ \A m, n \in DOMAIN log : m < n => ~Before(log[n], log[m])
  /\ \A p \in Publishers : job[p].step # "failed" /\ InStampOrder(p)
  /\ \A p \in Publishers : \A i \in Waiting(p) :
       ~Sent(i) /\ \A j \in Range(log) : ~Before(i, j)
  /\ \A i \in DOMAIN rows : rows[i].status = "PENDING" /\ ~InHand(i) =>
       ~Sent(i) /\ \A j \in DOMAIN rows : Sent(j) \/ InHand(j) => ~Before(i, j)
  /\ \A i \in DOMAIN rows : rows[i].status = "INFLIGHT" => InHand(i)
  /\ \A i \in DOMAIN rows : Sent(i) \/ InHand(i) \/ rows[i].status = "PENDING"

OutboxInv == DeliveryInv /\ (Calm => InLine)

-------------------------------------------------------------------------------
(* Sequences, rows and jobs *)

LEMMA FunctionIsSeq ==
  ASSUME NEW S, NEW n \in Nat, NEW f \in [1 .. n -> S]
  PROVE  f \in Seq(S)
  BY SeqDef

\* A sequence mapped element by element is a sequence of the same length.
LEMMA MappedSeq ==
  ASSUME NEW S, NEW T, NEW s \in Seq(S), NEW f \in [DOMAIN s -> T]
  PROVE  f \in Seq(T) /\ Len(f) = Len(s) /\ DOMAIN f = DOMAIN s
<1>1. Len(s) \in Nat /\ DOMAIN s = 1 .. Len(s)
  BY LenProperties
<1>2. f \in Seq(T)
  BY <1>1, SeqDef
<1>3. Len(f) \in Nat /\ DOMAIN f = 1 .. Len(f)
  BY <1>2, LenProperties
<1> QED
  BY <1>1, <1>2, <1>3

LEMMA SetAllRows ==
  ASSUME TypeOK, NEW indices, NEW status \in RowStatus, SetAll(indices, status)
  PROVE  /\ rows' \in Seq(OutboxEvent) /\ Len(rows') = Len(rows) /\ DOMAIN rows' = DOMAIN rows
         /\ \A i \in DOMAIN rows :
              rows'[i].status = IF i \in indices THEN status ELSE rows[i].status
         /\ \A i \in DOMAIN rows : rows'[i].stream = rows[i].stream
         /\ \A i \in DOMAIN rows : CreatedAt(i)' = CreatedAt(i)
<1>1. \A i \in DOMAIN rows : rows[i] \in OutboxEvent
  BY LenProperties, ElementOfSeq DEF TypeOK
<1>2. \A i \in DOMAIN rows : [rows[i] EXCEPT !.status = status] \in OutboxEvent
  BY <1>1 DEF OutboxEvent
<1>3. rows' \in [DOMAIN rows -> OutboxEvent]
  BY <1>1, <1>2 DEF SetAll
<1>4. rows \in Seq(OutboxEvent)
  BY DEF TypeOK
<1>5. rows' \in Seq(OutboxEvent) /\ Len(rows') = Len(rows) /\ DOMAIN rows' = DOMAIN rows
  BY <1>3, <1>4, MappedSeq
<1>6. \A i \in DOMAIN rows :
        rows'[i].status = IF i \in indices THEN status ELSE rows[i].status
  BY <1>1 DEF SetAll, OutboxEvent
<1>7. \A i \in DOMAIN rows : rows'[i].stream = rows[i].stream
  BY <1>1 DEF SetAll, OutboxEvent
<1>8. \A i \in DOMAIN rows : CreatedAt(i)' = CreatedAt(i)
  BY <1>1 DEF SetAll, OutboxEvent, CreatedAt
<1> QED
  BY <1>5, <1>6, <1>7, <1>8

Marked(i, status, attempts) ==
  rows' = [rows EXCEPT ![i].status = status, ![i].attempts = attempts]

LEMMA MarkedRows ==
  ASSUME TypeOK, NEW i \in DOMAIN rows, NEW status \in RowStatus, NEW attempts \in Nat,
         Marked(i, status, attempts)
  PROVE  /\ rows' \in Seq(OutboxEvent) /\ Len(rows') = Len(rows) /\ DOMAIN rows' = DOMAIN rows
         /\ rows'[i].status = status /\ rows'[i].stream = rows[i].stream
         /\ \A j \in DOMAIN rows : j # i => rows'[j] = rows[j]
         /\ \A j \in DOMAIN rows : CreatedAt(j)' = CreatedAt(j)
<1>1. \A j \in DOMAIN rows : rows[j] \in OutboxEvent
  BY LenProperties, ElementOfSeq DEF TypeOK
<1>2. /\ [rows[i] EXCEPT !.status = status, !.attempts = attempts] \in OutboxEvent
      /\ [rows[i] EXCEPT !.status = status, !.attempts = attempts].status = status
      /\ [rows[i] EXCEPT !.status = status, !.attempts = attempts].stream = rows[i].stream
      /\ [rows[i] EXCEPT !.status = status, !.attempts = attempts].created_at = rows[i].created_at
  BY <1>1 DEF OutboxEvent
<1>3. /\ rows'[i] = [rows[i] EXCEPT !.status = status, !.attempts = attempts]
      /\ \A j \in DOMAIN rows : j # i => rows'[j] = rows[j]
      /\ rows' = [j \in DOMAIN rows |-> rows'[j]]
  BY DEF Marked
<1>4. rows' \in [DOMAIN rows -> OutboxEvent]
  BY <1>1, <1>2, <1>3
<1>5. rows \in Seq(OutboxEvent)
  BY DEF TypeOK
<1>6. rows' \in Seq(OutboxEvent) /\ Len(rows') = Len(rows)
  BY <1>4, <1>5, MappedSeq
<1>7. rows'[i].status = status /\ rows'[i].stream = rows[i].stream
  BY <1>2, <1>3
<1>8. \A j \in DOMAIN rows : CreatedAt(j)' = CreatedAt(j)
  BY <1>2, <1>3 DEF CreatedAt
<1> QED
  BY <1>3, <1>6, <1>7, <1>8

LEMMA JobFacts ==
  ASSUME TypeOK, NEW p \in Publishers
  PROVE  /\ job[p] \in Job /\ job[p] = [step |-> job[p].step, todo |-> job[p].todo]
         /\ job[p].todo \in Seq([row : Index, attempts : Nat])
         /\ Len(job[p].todo) \in Nat /\ DOMAIN job[p].todo = 1 .. Len(job[p].todo)
         /\ \A n \in DOMAIN job[p].todo :
              job[p].todo[n] \in [row : Index, attempts : Nat] /\ job[p].todo[n].row \in Nat
         /\ job[p].step # "idle" => 1 \in DOMAIN job[p].todo
         /\ job[p].step = "idle" => job[p] = Idle
<1>1. /\ job[p] \in Job /\ job[p] = [step |-> job[p].step, todo |-> job[p].todo]
      /\ job[p].todo \in Seq([row : Index, attempts : Nat])
      /\ job[p].step = "idle" <=> job[p].todo = <<>>
  BY DEF TypeOK, Job
<1>2. Len(job[p].todo) \in Nat /\ DOMAIN job[p].todo = 1 .. Len(job[p].todo)
  BY <1>1, LenProperties
<1>3. \A n \in DOMAIN job[p].todo :
        job[p].todo[n] \in [row : Index, attempts : Nat] /\ job[p].todo[n].row \in Nat
  <2>1. ASSUME NEW n \in DOMAIN job[p].todo
        PROVE  job[p].todo[n] \in [row : Index, attempts : Nat]
    BY <1>1, <1>2, ElementOfSeq
  <2> QED
    BY <2>1, OutboxAssumption DEF Index
<1>4. job[p].step # "idle" => 1 \in DOMAIN job[p].todo
  BY <1>1, <1>2, EmptySeq
<1>5. job[p].step = "idle" => job[p] = Idle
  BY <1>1 DEF Idle
<1> QED
  BY <1>1, <1>2, <1>3, <1>4, <1>5

LEMMA BehindTheFirst ==
  ASSUME TypeOK, NEW p \in Publishers, job[p].step # "idle", NoRowTwice(p)
  PROVE  {job[p].todo[n].row : n \in {m \in DOMAIN job[p].todo : m > 1}}
           = HeldBy(p) \ {job[p].todo[1].row}
<1> DEFINE todo == job[p].todo
<1>1. /\ Len(todo) \in Nat /\ DOMAIN todo = 1 .. Len(todo) /\ 1 \in DOMAIN todo
      /\ \A n \in DOMAIN todo : todo[n].row \in Nat
  BY JobFacts
<1>2. \A n \in DOMAIN todo : n > 1 <=> n # 1
  BY <1>1
<1>3. \A n \in DOMAIN todo : n > 1 => todo[n].row # todo[1].row
  BY <1>1 DEF NoRowTwice
<1> QED
  BY <1>1, <1>2, <1>3 DEF HeldBy

LEMMA HandsFacts ==
  ASSUME Shape, NEW p \in Publishers
  PROVE  /\ Waiting(p) \subseteq HeldBy(p) /\ HeldBy(p) \subseteq DOMAIN rows
         /\ job[p].step = "idle" => HeldBy(p) = {} /\ Waiting(p) = {}
         /\ job[p].step \in {"claimed", "publish"} => Waiting(p) = HeldBy(p)
         /\ job[p].step # "idle" => job[p].todo[1].row \in HeldBy(p)
         /\ job[p].step \in {"sent", "failed"} => Waiting(p) = HeldBy(p) \ {job[p].todo[1].row}
<1>1. TypeOK /\ JobInv(p)
  BY DEF Shape
<1>2. Waiting(p) \subseteq HeldBy(p) /\ HeldBy(p) \subseteq DOMAIN rows
  BY <1>1 DEF Waiting, HeldBy, JobInv
<1>3. ASSUME job[p].step = "idle" PROVE HeldBy(p) = {} /\ Waiting(p) = {}
  <2>1. DOMAIN job[p].todo = 1 .. Len(job[p].todo)
    BY <1>1, JobFacts
  <2>2. job[p].todo = <<>>
    BY <1>1, <1>3 DEF TypeOK
  <2>3. Len(job[p].todo) = 0
    BY <2>2
  <2> QED
    BY <2>1, <2>3 DEF HeldBy, Waiting
<1>4. job[p].step \in {"claimed", "publish"} => Waiting(p) = HeldBy(p)
  BY DEF Waiting, HeldBy
<1>5. job[p].step # "idle" => job[p].todo[1].row \in HeldBy(p)
  BY <1>1, JobFacts DEF HeldBy
<1>6. job[p].step \in {"sent", "failed"} => Waiting(p) = HeldBy(p) \ {job[p].todo[1].row}
  BY <1>1, BehindTheFirst DEF JobInv, Waiting
<1> QED
  BY <1>2, <1>3, <1>4, <1>5, <1>6

-------------------------------------------------------------------------------
(* How the jobs move *)

DataOK ==
  /\ rows \in Seq(OutboxEvent) /\ Len(rows) <= MaxRows
  /\ stale \subseteq {i \in DOMAIN rows : rows[i].status = "INFLIGHT"}
  /\ up \subseteq Publishers
  /\ log \in Seq(DOMAIN rows) /\ IsInjective(log)
  /\ again \subseteq Range(log)
  /\ faults \in 0 .. MaxFaults
  /\ retried \subseteq DOMAIN rows
  /\ claimers \subseteq Publishers /\ IsFiniteSet(claimers)

JobOK(p) == (job[p].todo = <<>> <=> job[p].step = "idle") /\ JobInv(p)

LEMMA ShapeParts ==
  Shape <=> DataOK /\ job \in [Publishers -> Job] /\ \A p \in Publishers : JobOK(p)
  BY DEF Shape, DataOK, JobOK, TypeOK

LEMMA SameHands ==
  ASSUME NEW q \in Publishers, job'[q] = job[q]
  PROVE  /\ HeldBy(q)' = HeldBy(q) /\ Waiting(q)' = Waiting(q)
         /\ NoRowTwice(q)' <=> NoRowTwice(q)
  BY DEF HeldBy, Waiting, NoRowTwice

\* A step that forgets nothing does not disturb the jobs it leaves alone.
LEMMA JobKept ==
  ASSUME NEW q \in Publishers, JobOK(q), job'[q] = job[q],
         DOMAIN rows \subseteq DOMAIN rows', claimers \subseteq claimers',
         \A i : Sent(i) => Sent(i)'
  PROVE  JobOK(q)'
  BY SameHands DEF JobOK, JobInv

LEMMA ShapeKept ==
  ASSUME Shape, DataOK', NEW p \in Publishers, job' \in [Publishers -> Job],
         DOMAIN rows \subseteq DOMAIN rows', claimers \subseteq claimers',
         \A i : Sent(i) => Sent(i)',
         \A q \in Publishers \ {p} : job'[q] = job[q],
         JobOK(p)'
  PROVE  Shape'
<1>1. \A q \in Publishers : JobOK(q)'
  BY JobKept, ShapeParts
<1> QED
  BY <1>1, ShapeParts DEF Shape, DataOK, JobOK, TypeOK

LEMMA ShapeAside ==
  ASSUME Shape, DataOK', UNCHANGED job,
         DOMAIN rows \subseteq DOMAIN rows', claimers \subseteq claimers',
         \A i : Sent(i) => Sent(i)'
  PROVE  Shape'
<1>1. \A q \in Publishers : JobOK(q)'
  BY JobKept, ShapeParts
<1>2. job' \in [Publishers -> Job]
  BY ShapeParts
<1> QED
  BY <1>1, <1>2, ShapeParts DEF Shape, DataOK, JobOK, TypeOK

LEMMA GotoMoves ==
  ASSUME TypeOK, NEW p \in Publishers, job[p].step # "idle",
         NEW step \in {"publish", "sent", "failed"}, Goto(p, step)
  PROVE  /\ job' \in [Publishers -> Job]
         /\ \A q \in Publishers \ {p} : job'[q] = job[q]
         /\ job'[p].step = step /\ job'[p].todo = job[p].todo
         /\ HeldBy(p)' = HeldBy(p)
         /\ NoRowTwice(p)' <=> NoRowTwice(p)
<1>1. /\ job'[p] = [job[p] EXCEPT !.step = step]
      /\ \A q \in Publishers \ {p} : job'[q] = job[q]
      /\ job' = [q \in Publishers |-> job'[q]]
  BY DEF Goto, TypeOK
<1>2. /\ [job[p] EXCEPT !.step = step] \in Job
      /\ [job[p] EXCEPT !.step = step].step = step
      /\ [job[p] EXCEPT !.step = step].todo = job[p].todo
  BY DEF TypeOK, Job
<1>3. \A q \in Publishers : job'[q] \in Job
  BY <1>1, <1>2 DEF TypeOK
<1>4. job'[p].step = step /\ job'[p].todo = job[p].todo
  BY <1>1, <1>2
<1> QED
  BY <1>1, <1>3, <1>4 DEF HeldBy, NoRowTwice

LEMMA DropMoves ==
  ASSUME TypeOK, NEW p \in Publishers, job' = [job EXCEPT ![p] = Idle]
  PROVE  /\ job' \in [Publishers -> Job]
         /\ \A q \in Publishers \ {p} : job'[q] = job[q]
         /\ HeldBy(p)' = {} /\ Waiting(p)' = {} /\ JobOK(p)'
<1>1. job'[p] = Idle /\ \A q \in Publishers \ {p} : job'[q] = job[q]
  BY DEF TypeOK
<1>2. Idle \in Job /\ Idle.todo = <<>> /\ Idle.step = "idle"
  BY DEF Idle, Job
<1>3. job' \in [Publishers -> Job]
  BY <1>2 DEF TypeOK
<1>4. job'[p].todo = <<>> /\ job'[p].step = "idle"
  BY <1>1, <1>2
<1>5. DOMAIN job'[p].todo = {}
  BY <1>4
<1>6. HeldBy(p)' = {} /\ Waiting(p)' = {} /\ NoRowTwice(p)'
  BY <1>5 DEF HeldBy, Waiting, NoRowTwice
<1> QED
  BY <1>1, <1>3, <1>4, <1>6 DEF JobOK, JobInv

\* The first row leaves the replica's hands, and the rest is still to publish.
LEMMA NextRowMoves ==
  ASSUME Shape, NEW p \in Publishers, job[p].step \in {"sent", "failed"}, NextRow(p)
  PROVE  /\ job' \in [Publishers -> Job]
         /\ \A q \in Publishers \ {p} : job'[q] = job[q]
         /\ HeldBy(p)' = Waiting(p) /\ Waiting(p)' = Waiting(p)
         /\ job'[p].step \in {"idle", "publish"}
         /\ job'[p].todo = <<>> <=> job'[p].step = "idle"
         /\ NoRowTwice(p)'
         /\ \A n \in DOMAIN job'[p].todo :
              n \in Nat /\ n + 1 \in DOMAIN job[p].todo /\ job'[p].todo[n] = job[p].todo[n + 1]
<1> DEFINE todo == job[p].todo
<1>1. TypeOK /\ NoRowTwice(p)
  BY DEF Shape, JobInv
<1>2. /\ todo \in Seq([row : Index, attempts : Nat]) /\ Len(todo) \in Nat
      /\ DOMAIN todo = 1 .. Len(todo) /\ 1 \in DOMAIN todo
  BY <1>1, JobFacts
<1>3. CASE Len(todo) = 1
  <2>1. job' = [job EXCEPT ![p] = Idle]
    BY <1>3 DEF NextRow
  <2>2. Waiting(p) = {}
    BY <1>2, <1>3 DEF Waiting
  <2>3. job'[p] = Idle /\ Idle.todo = <<>> /\ Idle.step = "idle" /\ DOMAIN Idle.todo = {}
    BY <2>1, <1>1 DEF TypeOK, Idle
  <2> QED
    BY <1>1, <2>1, <2>2, <2>3, DropMoves DEF JobOK, JobInv
<1>4. CASE Len(todo) # 1
  <2> DEFINE next == [step |-> "publish", todo |-> Tail(todo)]
  <2>1. job' = [job EXCEPT ![p] = next]
    BY <1>4 DEF NextRow
  <2>2. /\ Tail(todo) \in Seq([row : Index, attempts : Nat])
        /\ Len(Tail(todo)) = Len(todo) - 1
        /\ \A n \in 1 .. Len(Tail(todo)) : Tail(todo)[n] = todo[n + 1]
    BY <1>2, HeadTailProperties, EmptySeq
  <2>3. DOMAIN Tail(todo) = 1 .. Len(todo) - 1 /\ Len(Tail(todo)) # 0
    BY <1>2, <1>4, <2>2, LenProperties
  <2>4. next \in Job
    BY <2>2 DEF Job
  <2>5. /\ job' \in [Publishers -> Job] /\ job'[p] = next
        /\ \A q \in Publishers \ {p} : job'[q] = job[q]
    BY <1>1, <2>1, <2>4 DEF TypeOK
  <2>6. job'[p].step = "publish" /\ job'[p].todo = Tail(todo)
    BY <2>5
  <2>7. job'[p].todo # <<>>
    <3>1. Len(<<>>) = 0
      OBVIOUS
    <3>2. Tail(todo) # <<>>
      BY <2>3, <3>1, Zenon
    <3> QED
      BY <2>6, <3>2, Zenon
  <2>8. HeldBy(p)' = Waiting(p)
    <3>1. Waiting(p) = {todo[n].row : n \in {m \in 1 .. Len(todo) : m > 1}}
      BY <1>2 DEF Waiting
    <3>2. HeldBy(p)' = {Tail(todo)[n].row : n \in 1 .. Len(todo) - 1}
      BY <2>3, <2>6 DEF HeldBy
    <3>3. \A n \in 1 .. Len(todo) - 1 :
            Tail(todo)[n] = todo[n + 1] /\ n + 1 \in {m \in 1 .. Len(todo) : m > 1}
      BY <1>2, <2>2
    <3>4. \A n \in {m \in 1 .. Len(todo) : m > 1} :
            n - 1 \in 1 .. Len(todo) - 1 /\ Tail(todo)[n - 1] = todo[n]
      BY <1>2, <2>2
    <3>5. HeldBy(p)' \subseteq Waiting(p)
      BY <3>1, <3>2, <3>3
    <3>6. Waiting(p) \subseteq HeldBy(p)'
      BY <3>1, <3>2, <3>4
    <3> QED
      BY <3>5, <3>6
  <2>9. Waiting(p)' = HeldBy(p)'
    BY <2>6 DEF Waiting, HeldBy
  <2>10. NoRowTwice(p)'
    <3>1. \A m, n \in 1 .. Len(todo) - 1 : m < n => Tail(todo)[m].row # Tail(todo)[n].row
      <4>1. \A n \in 1 .. Len(todo) - 1 : Tail(todo)[n] = todo[n + 1] /\ n + 1 \in DOMAIN todo
        BY <1>2, <2>2
      <4>2. \A m, n \in 1 .. Len(todo) - 1 : m < n => m + 1 < n + 1
        BY <1>2
      <4> QED
        BY <1>1, <4>1, <4>2 DEF NoRowTwice
    <3> QED
      BY <2>3, <2>6, <3>1 DEF NoRowTwice
  <2>11. \A n \in DOMAIN job'[p].todo :
           n \in Nat /\ n + 1 \in DOMAIN todo /\ job'[p].todo[n] = todo[n + 1]
    <3>1. ASSUME NEW n \in 1 .. Len(todo) - 1
          PROVE  n \in Nat /\ n + 1 \in DOMAIN todo /\ Tail(todo)[n] = todo[n + 1]
      BY <1>2, <2>2
    <3> QED
      BY <2>3, <2>6, <3>1
  <2> QED
    BY <2>5, <2>6, <2>7, <2>8, <2>9, <2>10, <2>11
<1> QED
  BY <1>3, <1>4

-------------------------------------------------------------------------------
(* What each step of a poll does to the hands and to the broker *)

LEMMA SentIsLogged ==
  ASSUME DataOK, NEW i
  PROVE  Sent(i) <=> i \in Range(log)
<1>1. DOMAIN log = 1 .. Len(log)
  BY LenProperties DEF DataOK
<1> QED
  BY <1>1 DEF Sent, Contains, Range

\* The log grows by a row it does not have, or the row is counted as sent again.
LEMMA SendFacts ==
  ASSUME DataOK, NEW i \in DOMAIN rows, Send(i)
  PROVE  /\ log' \in Seq(DOMAIN rows) /\ IsInjective(log')
         /\ again' \subseteq Range(log') /\ again' \subseteq again \cup {i}
         /\ ~Sent(i) => again' = again /\ log' = Append(log, i)
         /\ \A j : Sent(j)' <=> Sent(j) \/ j = i
         /\ Range(log') = Range(log) \cup {i}
<1>1. log \in Seq(DOMAIN rows) /\ Len(log) \in Nat /\ DOMAIN log = 1 .. Len(log)
  BY LenProperties DEF DataOK
<1>2. CASE Sent(i)
  <2>1. log' = log /\ again' = again \cup {i} /\ i \in Range(log)
    BY <1>2, SentIsLogged DEF Send
  <2>2. \A j : Sent(j)' <=> Sent(j)
    BY <2>1 DEF Sent
  <2>3. Range(log') = Range(log) \cup {i} /\ again' \subseteq Range(log')
    BY <2>1 DEF DataOK
  <2>4. IsInjective(log')
    BY <2>1 DEF DataOK
  <2> QED
    BY <1>1, <1>2, <2>1, <2>2, <2>3, <2>4
<1>3. CASE ~Sent(i)
  <2>1. log' = Append(log, i) /\ again' = again
    BY <1>3 DEF Send
  <2>2. /\ log' \in Seq(DOMAIN rows) /\ Len(log') = Len(log) + 1
        /\ \A n \in 1 .. Len(log) : log'[n] = log[n]
        /\ log'[Len(log) + 1] = i
    BY <1>1, <2>1, AppendProperties
  <2>3. DOMAIN log' = 1 .. Len(log) + 1
    BY <2>2, LenProperties
  <2>4. Range(log') = Range(log) \cup {i}
    <3>1. 1 .. Len(log) + 1 = (1 .. Len(log)) \cup {Len(log) + 1}
      BY <1>1
    <3> QED
      BY <1>1, <2>2, <2>3, <3>1 DEF Range
  <2>5. \A n \in 1 .. Len(log) : log[n] # i
    BY <1>3 DEF Sent, Contains
  <2>6. IsInjective(log')
    <3>1. ASSUME NEW a \in 1 .. Len(log) + 1, NEW b \in 1 .. Len(log) + 1, log'[a] = log'[b]
          PROVE  a = b
      <4>1. CASE a \in 1 .. Len(log) /\ b \in 1 .. Len(log)
        BY <1>1, <2>2, <3>1, <4>1 DEF DataOK, IsInjective
      <4>2. CASE ~(a \in 1 .. Len(log)) \/ ~(b \in 1 .. Len(log))
        BY <1>1, <2>2, <2>5, <3>1, <4>2
      <4> QED
        BY <4>1, <4>2
    <3> QED
      BY <2>3, <3>1 DEF IsInjective
  <2>7. again' \subseteq Range(log')
    BY <2>1, <2>4 DEF DataOK
  <2>8. \A j : Sent(j)' <=> Sent(j) \/ j = i
    <3>1. \A j : Sent(j)' <=> j \in Range(log')
      BY <2>2, <2>3 DEF Sent, Contains, Range
    <3> QED
      BY <2>4, <3>1, SentIsLogged
  <2> QED
    BY <2>1, <2>2, <2>4, <2>6, <2>7, <2>8
<1> QED
  BY <1>2, <1>3

LEMMA ClaimFacts ==
  ASSUME Shape, NEW p \in Publishers, Claim(p)
  PROVE  \E batch \in SUBSET {i \in DOMAIN rows : rows[i].status = "PENDING"} :
           /\ SetAll(batch, "INFLIGHT")
           /\ HeldBy(p)' = batch /\ Waiting(p)' = batch
           /\ \A i \in DOMAIN rows \ batch : rows[i].status = "PENDING" =>
                \A b \in batch : CreatedAt(b) <= CreatedAt(i)
           /\ job' \in [Publishers -> Job] /\ \A q \in Publishers \ {p} : job'[q] = job[q]
           /\ job'[p].step = "claimed" /\ job'[p].todo # <<>> /\ NoRowTwice(p)'
           /\ \A m, n \in DOMAIN job'[p].todo : m < n =>
                CreatedAt(job'[p].todo[m].row) <= CreatedAt(job'[p].todo[n].row)
<1> DEFINE claimable == {i \in DOMAIN rows : rows[i].status \in {"PENDING"}}
<1>1. PICK size \in 1 .. BatchSize : \E batch \in [1 .. size -> claimable] :
        /\ IsOldest(batch, claimable)
        /\ SetAll(Range(batch), "INFLIGHT")
        /\ job' = [job EXCEPT ![p] = [step |-> "claimed",
                     todo |-> [n \in DOMAIN batch |-> [row |-> batch[n], attempts |-> 0]]]]
  BY DEF Claim, Take
<1>2. PICK batch \in [1 .. size -> claimable] :
        /\ IsOldest(batch, claimable)
        /\ SetAll(Range(batch), "INFLIGHT")
        /\ job' = [job EXCEPT ![p] = [step |-> "claimed",
                     todo |-> [n \in DOMAIN batch |-> [row |-> batch[n], attempts |-> 0]]]]
  BY <1>1
<1> DEFINE todo == [n \in 1 .. size |-> [row |-> batch[n], attempts |-> 0]]
           next == [step |-> "claimed", todo |-> todo]
<1>3. size \in Nat /\ 1 \in 1 .. size /\ DOMAIN batch = 1 .. size
  BY OutboxAssumption
<1>4. TypeOK /\ rows \in Seq(OutboxEvent) /\ Len(rows) \in Nat /\ Len(rows) <= MaxRows
      /\ DOMAIN rows = 1 .. Len(rows)
  BY LenProperties DEF Shape, TypeOK
<1>5. \A n \in 1 .. size : batch[n] \in DOMAIN rows /\ rows[batch[n]].status = "PENDING"
                           /\ batch[n] \in Index
  BY <1>3, <1>4, OutboxAssumption DEF Index
<1>6. todo \in Seq([row : Index, attempts : Nat]) /\ DOMAIN todo = 1 .. size
  <2>1. \A n \in 1 .. size : [row |-> batch[n], attempts |-> 0] \in [row : Index, attempts : Nat]
    BY <1>5
  <2>2. todo \in [1 .. size -> [row : Index, attempts : Nat]]
    BY <2>1
  <2>3. DOMAIN todo = 1 .. size
    OBVIOUS
  <2>4. size \in Nat
    BY <1>3
  <2> HIDE DEF todo
  <2>5. todo \in Seq([row : Index, attempts : Nat])
    BY <2>2, <2>4, FunctionIsSeq
  <2> QED
    BY <2>3, <2>5
<1>7. todo # <<>>
  <2> HIDE DEF todo
  <2>1. 1 \in DOMAIN todo
    BY <1>3, <1>6
  <2>2. DOMAIN <<>> = {}
    OBVIOUS
  <2> QED
    BY <2>1, <2>2, Zenon
<1>8. next \in Job
  BY <1>6 DEF Job
<1>9. /\ job' \in [Publishers -> Job] /\ job'[p] = next
      /\ \A q \in Publishers \ {p} : job'[q] = job[q]
  BY <1>2, <1>3, <1>4, <1>8 DEF TypeOK
<1>10. job'[p].step = "claimed" /\ job'[p].todo = todo
  BY <1>9
<1>11. \A n \in 1 .. size : job'[p].todo[n].row = batch[n]
  BY <1>10
<1>12. HeldBy(p)' = Range(batch) /\ Waiting(p)' = Range(batch)
  <2>1. DOMAIN job'[p].todo = 1 .. size
    BY <1>6, <1>10
  <2>2. HeldBy(p)' = Range(batch)
    BY <1>3, <1>11, <2>1 DEF HeldBy, Range
  <2>3. Waiting(p)' = HeldBy(p)'
    BY <1>10 DEF Waiting, HeldBy
  <2> QED
    BY <2>2, <2>3
<1>13. NoRowTwice(p)'
  <2>1. DOMAIN job'[p].todo = 1 .. size
    BY <1>6, <1>10
  <2>2. \A m, n \in 1 .. size : m < n => batch[m] # batch[n]
    BY <1>2, <1>3 DEF IsOldest, IsInjective
  <2> QED
    BY <1>11, <2>1, <2>2 DEF NoRowTwice
<1>14. Range(batch) \in SUBSET {i \in DOMAIN rows : rows[i].status = "PENDING"}
  BY <1>3, <1>5 DEF Range
<1>15. \A i \in DOMAIN rows \ Range(batch) : rows[i].status = "PENDING" =>
         \A b \in Range(batch) : CreatedAt(b) <= CreatedAt(i)
  BY <1>2, <1>3 DEF IsOldest, Range
<1>16. job'[p].todo # <<>>
  BY <1>7, <1>10
<1>17. \A m, n \in DOMAIN job'[p].todo : m < n =>
         CreatedAt(job'[p].todo[m].row) <= CreatedAt(job'[p].todo[n].row)
  <2>1. DOMAIN job'[p].todo = 1 .. size
    BY <1>6, <1>10
  <2>2. \A m, n \in 1 .. size : m < n => CreatedAt(batch[m]) <= CreatedAt(batch[n])
    BY <1>2, <1>3 DEF IsOldest
  <2> HIDE DEF claimable, todo, next
  <2> QED
    BY <1>11, <2>1, <2>2
<1> HIDE DEF claimable, todo, next
<1> QED
  BY <1>2, <1>9, <1>10, <1>12, <1>13, <1>14, <1>15, <1>16, <1>17

\* Reading the rows back changes no hand.
LEMMA FetchFacts ==
  ASSUME Shape, NEW p \in Publishers, Fetch(p)
  PROVE  /\ job' \in [Publishers -> Job] /\ \A q \in Publishers \ {p} : job'[q] = job[q]
         /\ job'[p].step = "publish" /\ job'[p].todo # <<>>
         /\ HeldBy(p)' = HeldBy(p) /\ Waiting(p)' = Waiting(p) /\ NoRowTwice(p)'
         /\ \A n \in DOMAIN job'[p].todo :
              n \in DOMAIN job[p].todo /\ job'[p].todo[n].row = job[p].todo[n].row
<1> DEFINE old == job[p].todo
           todo == [n \in DOMAIN old |-> [row |-> old[n].row, attempts |-> rows[old[n].row].attempts]]
           next == [step |-> "publish", todo |-> todo]
<1>1. TypeOK /\ HeldBy(p) \subseteq DOMAIN rows /\ NoRowTwice(p) /\ job[p].step = "claimed"
  BY DEF Shape, JobInv, Fetch
<1>2. /\ old \in Seq([row : Index, attempts : Nat]) /\ Len(old) \in Nat
      /\ DOMAIN old = 1 .. Len(old) /\ 1 \in DOMAIN old
      /\ \A n \in DOMAIN old : old[n] \in [row : Index, attempts : Nat]
  BY <1>1, JobFacts
<1>3. \A n \in DOMAIN old : old[n].row \in DOMAIN rows
  BY <1>1 DEF HeldBy
<1>4. \A i \in DOMAIN rows : rows[i].attempts \in Nat
  <2>1. \A i \in DOMAIN rows : rows[i] \in OutboxEvent
    BY <1>1, LenProperties, ElementOfSeq DEF TypeOK
  <2> QED
    BY <2>1 DEF OutboxEvent
<1>5. todo \in Seq([row : Index, attempts : Nat]) /\ DOMAIN todo = DOMAIN old
  <2>1. \A n \in DOMAIN old :
          [row |-> old[n].row, attempts |-> rows[old[n].row].attempts] \in [row : Index, attempts : Nat]
    BY <1>2, <1>3, <1>4
  <2>2. todo \in [1 .. Len(old) -> [row : Index, attempts : Nat]]
    BY <1>2, <2>1
  <2> QED
    BY <1>2, <2>2, SeqDef
<1>6. todo # <<>>
  <2>1. DOMAIN <<>> = {} /\ DOMAIN todo # {}
    BY <1>2, <1>5
  <2> QED
    BY <2>1, Zenon
<1>7. next \in Job
  BY <1>5 DEF Job
<1>8. /\ job' \in [Publishers -> Job] /\ job'[p] = next
      /\ \A q \in Publishers \ {p} : job'[q] = job[q]
  BY <1>1, <1>7 DEF TypeOK, Fetch
<1>9. job'[p].step = "publish" /\ job'[p].todo = todo
  BY <1>8
<1>10. DOMAIN job'[p].todo = DOMAIN old /\ \A n \in DOMAIN old : job'[p].todo[n].row = old[n].row
  <2>1. \A n \in DOMAIN old : todo[n].row = old[n].row
    OBVIOUS
  <2> HIDE DEF todo, old
  <2> QED
    BY <1>5, <1>9, <2>1
<1>11. HeldBy(p)' = HeldBy(p) /\ NoRowTwice(p)'
  BY <1>1, <1>10 DEF HeldBy, NoRowTwice
<1>12. Waiting(p)' = HeldBy(p)' /\ Waiting(p) = HeldBy(p)
  BY <1>1, <1>9 DEF Waiting, HeldBy
<1>13. job'[p].todo # <<>>
  BY <1>6, <1>9
<1>14. \A n \in DOMAIN job'[p].todo :
         n \in DOMAIN job[p].todo /\ job'[p].todo[n].row = job[p].todo[n].row
  BY <1>10
<1> HIDE DEF old, todo, next
<1> QED
  BY <1>8, <1>9, <1>11, <1>12, <1>13, <1>14

-------------------------------------------------------------------------------
(* Delivery, step by step *)

\* Most steps only let go of rows, if they touch the hands at all.
LEMMA LettingGo ==
  ASSUME DeliveryInv, Shape', UNCHANGED <<rows, log, again, retried>>,
         \A p \in Publishers : HeldBy(p)' \subseteq HeldBy(p) /\ Waiting(p)' \subseteq Waiting(p)
  PROVE  DeliveryInv'
<1>1. \A i : Sent(i)' <=> Sent(i)
  BY DEF Sent
<1>2. ProcessedMeansPublished' /\ RedeliveredOnlyAfterRetry'
  BY <1>1 DEF DeliveryInv, ProcessedMeansPublished, RedeliveredOnlyAfterRetry
<1>3. \A i \in DOMAIN rows' \ retried' : FirstClaim(i)'
  BY <1>1 DEF DeliveryInv, FirstClaim
<1> QED
  BY <1>2, <1>3 DEF DeliveryInv

\* A fault counts, and the rest of the data may stay as it is.
LEMMA DataAside ==
  ASSUME DataOK, UNCHANGED <<rows, log, again, retried, claimers>>,
         faults' = faults \/ Fault, up' \subseteq Publishers,
         stale' \subseteq {i \in DOMAIN rows : rows[i].status = "INFLIGHT"}
  PROVE  DataOK' /\ \A i : Sent(i) => Sent(i)'
  BY OutboxAssumption DEF DataOK, Fault, Sent

LEMMA DropKeeps ==
  ASSUME DeliveryInv, NEW p \in Publishers, job' = [job EXCEPT ![p] = Idle], Fault,
         UNCHANGED <<rows, stale, log, again, retried, claimers>>, up' \subseteq up
  PROVE  DeliveryInv'
<1>1. Shape /\ TypeOK /\ DataOK
  BY ShapeParts DEF DeliveryInv, Shape
<1>2. /\ job' \in [Publishers -> Job] /\ \A q \in Publishers \ {p} : job'[q] = job[q]
      /\ HeldBy(p)' = {} /\ Waiting(p)' = {} /\ JobOK(p)'
  BY <1>1, DropMoves
<1>3. DataOK' /\ \A i : Sent(i) => Sent(i)'
  <2>1. up' \subseteq Publishers /\ stale' \subseteq {i \in DOMAIN rows : rows[i].status = "INFLIGHT"}
    BY <1>1 DEF DataOK
  <2> QED
    BY <1>1, <2>1, DataAside
<1>4. Shape'
  BY <1>1, <1>2, <1>3, ShapeKept
<1>5. \A q \in Publishers : HeldBy(q)' \subseteq HeldBy(q) /\ Waiting(q)' \subseteq Waiting(q)
  BY <1>2, SameHands
<1> QED
  BY <1>4, <1>5, LettingGo

LEMMA AppendKeeps ==
  ASSUME DeliveryInv, NEW k \in Streams, AppendRow(k)
  PROVE  DeliveryInv'
<1> DEFINE new == Len(rows) + 1
<1>1. Shape /\ DataOK
  BY ShapeParts DEF DeliveryInv
<1>2. PICK row \in OutboxEvent :
        /\ row.status = "PENDING"
        /\ rows' = Append(rows, row) /\ Len(rows) < MaxRows
        /\ UNCHANGED <<stale, job, up, log, again, faults, retried, claimers>>
  BY DEF AppendRow, OutboxEvent, RowStatus
<1>3. rows \in Seq(OutboxEvent) /\ Len(rows) \in Nat /\ DOMAIN rows = 1 .. Len(rows)
  BY <1>1, LenProperties DEF DataOK
<1>4. row.status = "PENDING"
  BY <1>2
<1>5. /\ rows' \in Seq(OutboxEvent) /\ Len(rows') = new
      /\ \A i \in 1 .. Len(rows) : rows'[i] = rows[i]
      /\ rows'[new] = row
  BY <1>2, <1>3, AppendProperties
<1>6. DOMAIN rows' = 1 .. new /\ DOMAIN rows' = DOMAIN rows \cup {new} /\ new \notin DOMAIN rows
  <2>1. DOMAIN rows' = 1 .. Len(rows')
    BY <1>5, LenProperties
  <2> QED
    BY <1>3, <1>5, <2>1
<1>7. DataOK'
  <2>1. log' \in Seq(DOMAIN rows')
    BY <1>1, <1>2, <1>6, SeqMonotonic DEF DataOK
  <2>2. Len(rows') <= MaxRows
    BY <1>2, <1>3, <1>5, OutboxAssumption
  <2>3. stale' \subseteq {i \in DOMAIN rows' : rows'[i].status = "INFLIGHT"}
    BY <1>1, <1>2, <1>3, <1>5, <1>6 DEF DataOK
  <2> QED
    BY <1>1, <1>2, <1>5, <1>6, <2>1, <2>2, <2>3 DEF DataOK
<1>8. \A i : Sent(i)' <=> Sent(i)
  BY <1>2 DEF Sent
<1>9. Shape'
  <2>1. DOMAIN rows \subseteq DOMAIN rows' /\ claimers \subseteq claimers' /\ UNCHANGED job
    BY <1>2, <1>6
  <2> QED
    BY <1>1, <1>7, <1>8, <2>1, ShapeAside
<1>10. ~Sent(new) /\ \A p \in Publishers : new \notin HeldBy(p)
  <2>1. Range(log) \subseteq DOMAIN rows
    BY <1>1, LenProperties, ElementOfSeq DEF DataOK, Range
  <2>2. \A p \in Publishers : HeldBy(p) \subseteq DOMAIN rows
    BY <1>1, HandsFacts
  <2> QED
    BY <1>1, <1>6, <2>1, <2>2, SentIsLogged
<1>11. \A p \in Publishers : HeldBy(p)' = HeldBy(p) /\ Waiting(p)' = Waiting(p)
  BY <1>2, SameHands
<1>12. ProcessedMeansPublished'
  <2>1. \A i \in DOMAIN rows : rows'[i].status \in {"PROCESSED", "PURGED"} => Sent(i)'
    BY <1>3, <1>5, <1>8 DEF DeliveryInv, ProcessedMeansPublished
  <2>2. rows'[new].status \notin {"PROCESSED", "PURGED"}
    BY <1>4, <1>5
  <2> QED
    BY <1>6, <2>1, <2>2 DEF ProcessedMeansPublished
<1>13. ASSUME NEW i \in DOMAIN rows' \ retried' PROVE FirstClaim(i)'
  <2>1. CASE i \in DOMAIN rows
    BY <1>2, <1>3, <1>5, <1>8, <1>11, <2>1 DEF DeliveryInv, FirstClaim
  <2>2. CASE i = new
    <3>1. \A p \in Publishers : new \notin Waiting(p)
      BY <1>1, <1>10, HandsFacts
    <3> QED
      BY <1>8, <1>10, <1>11, <2>2, <3>1 DEF FirstClaim
  <2> QED
    BY <1>6, <2>1, <2>2
<1> QED
  BY <1>2, <1>9, <1>12, <1>13 DEF DeliveryInv, RedeliveredOnlyAfterRetry

LEMMA ClaimKeeps ==
  ASSUME DeliveryInv, NEW p \in Publishers, Claim(p)
  PROVE  DeliveryInv'
<1>1. Shape /\ TypeOK /\ DataOK
  BY ShapeParts DEF DeliveryInv, Shape
<1>2. PICK batch \in SUBSET {i \in DOMAIN rows : rows[i].status = "PENDING"} :
           /\ SetAll(batch, "INFLIGHT")
           /\ HeldBy(p)' = batch /\ Waiting(p)' = batch
           /\ job' \in [Publishers -> Job] /\ \A q \in Publishers \ {p} : job'[q] = job[q]
           /\ job'[p].step = "claimed" /\ job'[p].todo # <<>> /\ NoRowTwice(p)'
  BY <1>1, ClaimFacts
<1>3. claimers' = claimers \cup {p} /\ UNCHANGED <<stale, up, log, again, faults, retried>>
  BY DEF Claim, Take
<1>4. /\ rows' \in Seq(OutboxEvent) /\ Len(rows') = Len(rows) /\ DOMAIN rows' = DOMAIN rows
      /\ \A i \in DOMAIN rows :
           rows'[i].status = IF i \in batch THEN "INFLIGHT" ELSE rows[i].status
  BY <1>1, <1>2, SetAllRows DEF RowStatus
<1>5. IsFiniteSet(claimers')
  BY <1>1, <1>3, FS_AddElement DEF DataOK
<1>6. DataOK'
  BY <1>1, <1>3, <1>4, <1>5 DEF DataOK
<1>7. \A i : Sent(i)' <=> Sent(i)
  BY <1>3 DEF Sent
<1>8. JobOK(p)'
  BY <1>2, <1>3, <1>4 DEF JobOK, JobInv
<1>9. Shape'
  BY <1>1, <1>2, <1>3, <1>4, <1>6, <1>7, <1>8, ShapeKept
<1>10. ProcessedMeansPublished' /\ RedeliveredOnlyAfterRetry'
  BY <1>3, <1>4, <1>7 DEF DeliveryInv, ProcessedMeansPublished, RedeliveredOnlyAfterRetry
<1>11. ASSUME NEW i \in DOMAIN rows' \ retried' PROVE FirstClaim(i)'
  <2>1. FirstClaim(i) /\ i \in DOMAIN rows
    BY <1>3, <1>4, <1>11 DEF DeliveryInv
  <2>2. \A q \in Publishers \ {p} : HeldBy(q)' = HeldBy(q) /\ Waiting(q)' = Waiting(q)
    BY <1>2, SameHands
  <2>3. CASE i \in batch
    <3>1. ~Sent(i) /\ \A q \in Publishers : i \notin HeldBy(q)
      BY <1>2, <2>1, <2>3 DEF FirstClaim
    <3>2. rows'[i].status # "PENDING"
      BY <1>4, <2>1, <2>3
    <3> QED
      BY <1>7, <2>2, <3>1, <3>2 DEF FirstClaim
  <2>4. CASE i \notin batch
    <3>1. i \notin HeldBy(p)' /\ i \notin Waiting(p)'
      BY <1>2, <2>4
    <3>2. rows'[i].status = rows[i].status
      BY <1>4, <2>1, <2>4
    <3> QED
      BY <1>7, <2>1, <2>2, <3>1, <3>2 DEF FirstClaim
  <2> QED
    BY <2>3, <2>4
<1> QED
  BY <1>9, <1>10, <1>11 DEF DeliveryInv

LEMMA FetchKeeps ==
  ASSUME DeliveryInv, NEW p \in Publishers, Fetch(p)
  PROVE  DeliveryInv'
<1>1. Shape /\ TypeOK /\ DataOK /\ JobInv(p)
  BY ShapeParts DEF DeliveryInv, Shape
<1>2. /\ job' \in [Publishers -> Job] /\ \A q \in Publishers \ {p} : job'[q] = job[q]
      /\ job'[p].step = "publish" /\ job'[p].todo # <<>>
      /\ HeldBy(p)' = HeldBy(p) /\ Waiting(p)' = Waiting(p) /\ NoRowTwice(p)'
  BY <1>1, FetchFacts
<1>3. UNCHANGED <<rows, stale, up, log, again, faults, retried, claimers>>
      /\ job[p].step = "claimed"
  BY DEF Fetch
<1>4. DataOK' /\ \A i : Sent(i) => Sent(i)'
  BY <1>1, <1>3 DEF DataOK, Sent
<1>5. JobOK(p)'
  BY <1>1, <1>2, <1>3 DEF JobOK, JobInv
<1>6. Shape'
  BY <1>1, <1>2, <1>3, <1>4, <1>5, ShapeKept
<1>7. \A q \in Publishers : HeldBy(q)' \subseteq HeldBy(q) /\ Waiting(q)' \subseteq Waiting(q)
  BY <1>2, SameHands
<1> QED
  BY <1>3, <1>6, <1>7, LettingGo

LEMMA SendKeeps ==
  ASSUME DeliveryInv, NEW p \in Publishers, job[p].step = "publish",
         NEW step \in {"sent", "failed"}, Goto(p, step), Send(job[p].todo[1].row),
         UNCHANGED <<rows, stale, up, retried, claimers>>, faults' \in 0 .. MaxFaults
  PROVE  DeliveryInv'
<1> DEFINE i == job[p].todo[1].row
<1>1. Shape /\ TypeOK /\ DataOK /\ JobInv(p)
  BY ShapeParts DEF DeliveryInv, Shape
<1>2. i \in HeldBy(p) /\ i \in DOMAIN rows /\ Waiting(p) = HeldBy(p)
  BY <1>1, HandsFacts
<1>3. /\ job' \in [Publishers -> Job] /\ \A q \in Publishers \ {p} : job'[q] = job[q]
      /\ job'[p].step = step /\ job'[p].todo = job[p].todo
      /\ HeldBy(p)' = HeldBy(p) /\ NoRowTwice(p)'
  BY <1>1, GotoMoves DEF JobInv
<1>4. /\ log' \in Seq(DOMAIN rows) /\ IsInjective(log')
      /\ again' \subseteq Range(log') /\ again' \subseteq again \cup {i}
      /\ ~Sent(i) => again' = again
      /\ \A j : Sent(j)' <=> Sent(j) \/ j = i
  BY <1>1, <1>2, SendFacts
<1> HIDE DEF i
<1>5. DataOK'
  BY <1>1, <1>4 DEF DataOK
<1>6. JobOK(p)'
  <2>1. job[p].todo # <<>>
    BY <1>1 DEF TypeOK
  <2>2. \E j : Sent(j)' /\ job'[p].todo[1].row = j
    BY <1>3, <1>4 DEF i
  <2>3. p \in claimers' /\ HeldBy(p)' \subseteq DOMAIN rows'
    BY <1>1, <1>3 DEF JobInv
  <2>4. (job[p].step = "sent" => Sent(job[p].todo[1].row))'
    BY <2>2 DEF Sent
  <2> QED
    BY <1>3, <2>1, <2>3, <2>4 DEF JobOK, JobInv
<1>7. Shape'
  BY <1>1, <1>3, <1>4, <1>5, <1>6, ShapeKept
<1>8. ProcessedMeansPublished'
  BY <1>4 DEF DeliveryInv, ProcessedMeansPublished
<1>9. i \notin retried => FirstClaim(i) /\ ~Sent(i) /\ rows[i].status # "PENDING"
                          /\ \A q \in Publishers \ {p} : i \notin HeldBy(q)
  BY <1>2 DEF DeliveryInv, FirstClaim
<1>10. RedeliveredOnlyAfterRetry'
  BY <1>4, <1>9 DEF DeliveryInv, RedeliveredOnlyAfterRetry
<1>11. Waiting(p)' = HeldBy(p) \ {i}
  <2>1. Waiting(p)' = {job[p].todo[n].row : n \in {m \in DOMAIN job[p].todo : m > 1}}
    BY <1>3 DEF Waiting
  <2> QED
    BY <1>1, <2>1, BehindTheFirst DEF JobInv, i
<1>12. ASSUME NEW j \in DOMAIN rows' \ retried' PROVE FirstClaim(j)'
  <2>1. FirstClaim(j) /\ j \in DOMAIN rows /\ j \notin retried
    BY <1>12 DEF DeliveryInv
  <2>2. \A q \in Publishers : HeldBy(q)' = HeldBy(q)
    BY <1>3, SameHands
  <2>3. \A q \in Publishers \ {p} : Waiting(q)' = Waiting(q) /\ Waiting(q) \subseteq HeldBy(q)
    BY <1>1, <1>3, SameHands, HandsFacts
  <2>4. \A q \in Publishers : j \in Waiting(q)' => ~Sent(j)'
    <3>1. ASSUME NEW q \in Publishers, j \in Waiting(q)' PROVE j \in Waiting(q) /\ j # i
      <4>1. CASE q = p
        BY <1>2, <1>11, <3>1, <4>1
      <4>2. CASE q # p
        BY <1>9, <2>1, <2>3, <3>1, <4>2
      <4> QED
        BY <4>1, <4>2
    <3> QED
      BY <1>4, <2>1, <3>1 DEF FirstClaim
  <2>5. rows'[j].status = "PENDING" => ~Sent(j)' /\ \A q \in Publishers : j \notin HeldBy(q)'
    BY <1>4, <1>9, <2>1, <2>2 DEF FirstClaim
  <2> QED
    BY <2>1, <2>2, <2>4, <2>5 DEF FirstClaim
<1> QED
  BY <1>7, <1>8, <1>10, <1>12 DEF DeliveryInv

\* The mark is on the first row in hand, which leaves it.
LEMMA MarkKeeps ==
  ASSUME DeliveryInv, NEW p \in Publishers, job[p].step \in {"sent", "failed"},
         NEW status \in {"PENDING", "PROCESSED", "FAILED_DLQ"}, NEW attempts \in Nat,
         status = "PROCESSED" => job[p].step = "sent",
         Mark(p, status, attempts)
  PROVE  DeliveryInv'
<1> DEFINE i == job[p].todo[1].row
<1>1. Shape /\ TypeOK /\ DataOK /\ JobInv(p)
  BY ShapeParts DEF DeliveryInv, Shape
<1>2. i \in HeldBy(p) /\ i \in DOMAIN rows /\ Waiting(p) = HeldBy(p) \ {i}
      /\ HeldBy(p) \subseteq DOMAIN rows
  BY <1>1, HandsFacts
<1>3. /\ Marked(i, status, attempts) /\ stale' = stale \ {i} /\ NextRow(p)
      /\ retried' = IF status = "PENDING" THEN retried \cup {i} ELSE retried
      /\ UNCHANGED <<up, log, again, faults, claimers>>
  BY DEF Mark, Marked
<1>4. /\ job' \in [Publishers -> Job] /\ \A q \in Publishers \ {p} : job'[q] = job[q]
      /\ HeldBy(p)' = Waiting(p) /\ Waiting(p)' = Waiting(p)
      /\ job'[p].step \in {"idle", "publish"}
      /\ job'[p].todo = <<>> <=> job'[p].step = "idle"
      /\ NoRowTwice(p)'
  BY <1>1, <1>3, NextRowMoves
<1>5. /\ rows' \in Seq(OutboxEvent) /\ Len(rows') = Len(rows) /\ DOMAIN rows' = DOMAIN rows
      /\ rows'[i].status = status
      /\ \A j \in DOMAIN rows : j # i => rows'[j] = rows[j]
  BY <1>1, <1>2, <1>3, MarkedRows DEF RowStatus
<1> HIDE DEF i
<1>6. DataOK'
  BY <1>1, <1>2, <1>3, <1>5 DEF DataOK
<1>7. \A j : Sent(j)' <=> Sent(j)
  BY <1>3 DEF Sent
<1>8. JobOK(p)'
  BY <1>1, <1>2, <1>3, <1>4, <1>5 DEF JobOK, JobInv
<1>9. Shape'
  BY <1>1, <1>3, <1>4, <1>5, <1>6, <1>7, <1>8, ShapeKept
<1>10. ProcessedMeansPublished'
  <2>1. status = "PROCESSED" => Sent(i)
    BY <1>1 DEF JobInv, i
  <2> QED
    BY <1>5, <1>7, <2>1 DEF DeliveryInv, ProcessedMeansPublished
<1>11. RedeliveredOnlyAfterRetry'
  BY <1>3 DEF DeliveryInv, RedeliveredOnlyAfterRetry
<1>12. ASSUME NEW j \in DOMAIN rows' \ retried' PROVE FirstClaim(j)'
  <2>1. FirstClaim(j) /\ j \in DOMAIN rows
    BY <1>3, <1>5, <1>12 DEF DeliveryInv
  <2>2. \A q \in Publishers : HeldBy(q)' \subseteq HeldBy(q) /\ Waiting(q)' \subseteq Waiting(q)
    BY <1>2, <1>4, SameHands
  <2>3. rows'[j].status = "PENDING" => rows[j].status = "PENDING"
    BY <1>3, <1>5, <1>12, <2>1
  <2> QED
    BY <1>7, <2>1, <2>2, <2>3 DEF FirstClaim
<1> QED
  BY <1>9, <1>10, <1>11, <1>12 DEF DeliveryInv

LEMMA MarkThrowsKeeps ==
  ASSUME DeliveryInv, NEW p \in Publishers, MarkThrows(p)
  PROVE  DeliveryInv'
<1>1. Shape /\ TypeOK /\ DataOK /\ JobInv(p)
  BY ShapeParts DEF DeliveryInv, Shape
<1>2. /\ UNCHANGED <<rows, stale, up, log, again, retried, claimers>> /\ Fault
      /\ job[p].step \in {"sent", "failed"}
  BY DEF MarkThrows
<1>3. DataOK' /\ \A i : Sent(i) => Sent(i)'
  BY <1>1, <1>2, DataAside DEF DataOK
<1>4. CASE Goto(p, "failed")
  <2>1. /\ job' \in [Publishers -> Job] /\ \A q \in Publishers \ {p} : job'[q] = job[q]
        /\ job'[p].step = "failed" /\ job'[p].todo = job[p].todo
        /\ HeldBy(p)' = HeldBy(p) /\ NoRowTwice(p)'
    BY <1>1, <1>2, <1>4, GotoMoves DEF JobInv
  <2>2. job[p].todo # <<>>
    BY <1>1, <1>2 DEF TypeOK
  <2>3. JobOK(p)'
    BY <1>1, <1>2, <2>1, <2>2 DEF JobOK, JobInv
  <2>4. Shape'
    BY <1>1, <1>2, <1>3, <2>1, <2>3, ShapeKept
  <2>5. Waiting(p)' = Waiting(p)
    BY <1>2, <2>1 DEF Waiting
  <2>6. \A q \in Publishers : HeldBy(q)' \subseteq HeldBy(q) /\ Waiting(q)' \subseteq Waiting(q)
    BY <2>1, <2>5, SameHands
  <2> QED
    BY <1>2, <2>4, <2>6, LettingGo
<1>5. CASE NextRow(p)
  <2>1. /\ job' \in [Publishers -> Job] /\ \A q \in Publishers \ {p} : job'[q] = job[q]
        /\ HeldBy(p)' = Waiting(p) /\ Waiting(p)' = Waiting(p)
        /\ job'[p].step \in {"idle", "publish"}
        /\ job'[p].todo = <<>> <=> job'[p].step = "idle"
        /\ NoRowTwice(p)'
    BY <1>1, <1>2, <1>5, NextRowMoves
  <2>2. Waiting(p) \subseteq HeldBy(p) /\ HeldBy(p) \subseteq DOMAIN rows
    BY <1>1, HandsFacts
  <2>3. JobOK(p)'
    BY <1>1, <1>2, <2>1, <2>2 DEF JobOK, JobInv
  <2>4. Shape'
    BY <1>1, <1>2, <1>3, <2>1, <2>3, ShapeKept
  <2>5. \A q \in Publishers : HeldBy(q)' \subseteq HeldBy(q) /\ Waiting(q)' \subseteq Waiting(q)
    BY <2>1, <2>2, SameHands
  <2> QED
    BY <1>2, <2>4, <2>5, LettingGo
<1>6. CASE job' = [job EXCEPT ![p] = Idle]
  BY <1>2, <1>6, DropKeeps
<1> QED
  BY <1>4, <1>5, <1>6 DEF MarkThrows

\* The steps that change statuses and no hands: the reaper's and the cleanup's.
LEMMA SetAllKeeps ==
  ASSUME DeliveryInv, NEW indices, NEW status \in {"PENDING", "PURGED"}, SetAll(indices, status),
         \/ status = "PENDING" /\ retried' = retried \cup indices /\ stale' = {}
            /\ indices \subseteq DOMAIN rows
         \/ /\ status = "PURGED" /\ UNCHANGED <<stale, retried>>
            /\ \A i \in indices : i \in DOMAIN rows /\ rows[i].status = "PROCESSED",
         UNCHANGED <<job, up, log, again, faults, claimers>>
  PROVE  DeliveryInv'
<1>1. Shape /\ TypeOK /\ DataOK
  BY ShapeParts DEF DeliveryInv, Shape
<1>2. /\ rows' \in Seq(OutboxEvent) /\ Len(rows') = Len(rows) /\ DOMAIN rows' = DOMAIN rows
      /\ \A i \in DOMAIN rows :
           rows'[i].status = IF i \in indices THEN status ELSE rows[i].status
  BY <1>1, SetAllRows DEF RowStatus
<1>3. stale' \subseteq {i \in DOMAIN rows' : rows'[i].status = "INFLIGHT"}
  BY <1>1, <1>2 DEF DataOK
<1>4. DataOK'
  BY <1>1, <1>2, <1>3 DEF DataOK
<1>5. \A i : Sent(i)' <=> Sent(i)
  BY DEF Sent
<1>6. Shape'
  BY <1>1, <1>2, <1>4, <1>5, ShapeAside
<1>7. ProcessedMeansPublished'
  BY <1>2, <1>5 DEF DeliveryInv, ProcessedMeansPublished
<1>8. RedeliveredOnlyAfterRetry'
  BY DEF DeliveryInv, RedeliveredOnlyAfterRetry
<1>9. \A p \in Publishers : HeldBy(p)' = HeldBy(p) /\ Waiting(p)' = Waiting(p)
  BY SameHands
<1>10. ASSUME NEW i \in DOMAIN rows' \ retried' PROVE FirstClaim(i)'
  <2>1. FirstClaim(i) /\ i \in DOMAIN rows
    BY <1>2, <1>10 DEF DeliveryInv
  <2>2. rows'[i].status = "PENDING" => rows[i].status = "PENDING"
    BY <1>2, <1>10, <2>1
  <2> QED
    BY <1>5, <1>9, <2>1, <2>2 DEF FirstClaim
<1> QED
  BY <1>6, <1>7, <1>8, <1>10 DEF DeliveryInv

\* A claim ages, a replica comes back: neither rows nor hands change.
LEMMA AsideKeeps ==
  ASSUME DeliveryInv, UNCHANGED <<rows, job, log, again, faults, retried, claimers>>,
         up' \subseteq Publishers,
         stale' \subseteq {i \in DOMAIN rows : rows[i].status = "INFLIGHT"}
  PROVE  DeliveryInv'
<1>1. Shape /\ DataOK
  BY ShapeParts DEF DeliveryInv
<1>2. DataOK' /\ \A i : Sent(i) => Sent(i)'
  BY <1>1, DataAside
<1>3. Shape'
  BY <1>1, <1>2, ShapeAside
<1>4. \A p \in Publishers : HeldBy(p)' \subseteq HeldBy(p) /\ Waiting(p)' \subseteq Waiting(p)
  BY SameHands
<1> QED
  BY <1>3, <1>4, LettingGo

LEMMA PublishKeeps ==
  ASSUME DeliveryInv, NEW p \in Publishers, Publish(p) \/ PublishThrows(p)
  PROVE  DeliveryInv'
<1>1. Shape /\ TypeOK /\ DataOK /\ JobInv(p)
  BY ShapeParts DEF DeliveryInv, Shape
<1>2. faults' \in 0 .. MaxFaults /\ job[p].step = "publish"
      /\ UNCHANGED <<rows, stale, up, retried, claimers>>
  BY <1>1, OutboxAssumption DEF DataOK, Publish, PublishThrows, Fault
<1>3. PICK step \in {"sent", "failed"} : Goto(p, step) /\ (Publish(p) => step = "sent")
  BY DEF Publish, PublishThrows
<1>4. CASE Send(job[p].todo[1].row)
  BY <1>2, <1>3, <1>4, SendKeeps
<1>5. CASE PublishThrows(p) /\ UNCHANGED <<log, again>>
  <2>1. Goto(p, "failed") /\ Fault
    BY <1>5 DEF PublishThrows
  <2>2. /\ job' \in [Publishers -> Job] /\ \A q \in Publishers \ {p} : job'[q] = job[q]
        /\ job'[p].step = "failed" /\ job'[p].todo = job[p].todo
        /\ HeldBy(p)' = HeldBy(p) /\ NoRowTwice(p)'
    BY <1>1, <1>2, <2>1, GotoMoves DEF JobInv
  <2>3. job[p].todo # <<>>
    BY <1>1, <1>2 DEF TypeOK
  <2>4. JobOK(p)'
    BY <1>1, <1>2, <2>2, <2>3 DEF JobOK, JobInv
  <2>5. DataOK' /\ \A i : Sent(i) => Sent(i)'
    <3>1. /\ stale' \subseteq {i \in DOMAIN rows : rows[i].status = "INFLIGHT"}
          /\ up' \subseteq Publishers
      BY <1>1, <1>2 DEF DataOK
    <3> QED
      BY <1>1, <1>2, <1>5, <2>1, <3>1, DataAside
  <2>6. Shape'
    BY <1>1, <1>2, <2>2, <2>4, <2>5, ShapeKept
  <2>7. Waiting(p)' \subseteq Waiting(p)
    BY <1>2, <2>2 DEF Waiting
  <2>8. \A q \in Publishers : HeldBy(q)' \subseteq HeldBy(q) /\ Waiting(q)' \subseteq Waiting(q)
    BY <2>2, <2>7, SameHands
  <2> QED
    BY <1>2, <1>5, <2>6, <2>8, LettingGo
<1> QED
  BY <1>4, <1>5 DEF Publish, PublishThrows

LEMMA MarksKeep ==
  ASSUME DeliveryInv, NEW p \in Publishers, MarkProcessed(p) \/ MarkFailed(p)
  PROVE  DeliveryInv'
<1>1. Shape /\ TypeOK /\ job[p].step # "idle"
  BY DEF DeliveryInv, Shape, MarkProcessed, MarkFailed
<1>2. CASE MarkProcessed(p)
  <2>1. job[p].todo[1].row \in DOMAIN rows
    BY <1>1, HandsFacts
  <2>2. rows[job[p].todo[1].row].attempts \in Nat
    <3>1. rows[job[p].todo[1].row] \in OutboxEvent
      BY <1>1, <2>1, LenProperties, ElementOfSeq DEF TypeOK
    <3> QED
      BY <3>1 DEF OutboxEvent
  <2> QED
    BY <1>2, <2>2, MarkKeeps DEF MarkProcessed
<1>3. CASE MarkFailed(p)
  <2> DEFINE next == job[p].todo[1].attempts + 1
             status == IF next >= MaxAttempts THEN "FAILED_DLQ" ELSE "PENDING"
  <2>1. next \in Nat
    <3>1. job[p].todo[1] \in [row : Index, attempts : Nat]
      BY <1>1, JobFacts
    <3> QED
      BY <3>1
  <2>2. job[p].step = "failed" /\ Mark(p, status, next)
    BY <1>3 DEF MarkFailed
  <2>3. status \in {"PENDING", "PROCESSED", "FAILED_DLQ"} /\ status # "PROCESSED"
    OBVIOUS
  <2> HIDE DEF next, status
  <2> QED
    BY <2>1, <2>2, <2>3, MarkKeeps
<1> QED
  BY <1>2, <1>3

LEMMA DeliveryInit == Init => DeliveryInv
<1> SUFFICES ASSUME Init PROVE DeliveryInv
  OBVIOUS
<1>1. rows = <<>> /\ log = <<>> /\ Len(rows) = 0 /\ DOMAIN rows = {} /\ DOMAIN log = {}
  BY DEF Init
<1>2. Idle \in Job /\ Idle.todo = <<>> /\ Idle.step = "idle"
  BY DEF Idle, Job
<1>3. job \in [Publishers -> Job] /\ \A p \in Publishers : job[p] = Idle
  BY <1>2 DEF Init
<1>4. \A p \in Publishers : JobOK(p)
  BY <1>2, <1>3 DEF JobOK, JobInv, HeldBy, NoRowTwice
<1>5. DataOK
  <2>1. rows \in Seq(OutboxEvent) /\ log \in Seq(DOMAIN rows) /\ IsInjective(log)
    BY <1>1, EmptySeq DEF IsInjective
  <2>2. IsFiniteSet({})
    BY FS_EmptySet
  <2> QED
    BY <1>1, <2>1, <2>2, OutboxAssumption DEF Init, DataOK
<1> QED
  BY <1>1, <1>3, <1>4, <1>5, ShapeParts
     DEF Init, DeliveryInv, ProcessedMeansPublished, RedeliveredOnlyAfterRetry

LEMMA DeliveryNext == DeliveryInv /\ [Next]_ovars => DeliveryInv'
<1> SUFFICES ASSUME DeliveryInv, [Next]_ovars PROVE DeliveryInv'
  OBVIOUS
<1>1. Shape /\ DataOK
  BY ShapeParts DEF DeliveryInv
<1>2. ASSUME NEW k \in Streams, AppendRow(k) PROVE DeliveryInv'
  BY <1>2, AppendKeeps
<1>3. ASSUME NEW p \in Publishers, Work(p) PROVE DeliveryInv'
  BY <1>3, ClaimKeeps, FetchKeeps, PublishKeeps, MarksKeep DEF Work
<1>4. ASSUME NEW p \in Publishers, Trouble(p) PROVE DeliveryInv'
  <2>1. CASE FetchThrows(p)
    BY <2>1, DropKeeps DEF FetchThrows
  <2>2. CASE PublishThrows(p)
    BY <2>2, PublishKeeps
  <2>3. CASE MarkThrows(p)
    BY <2>3, MarkThrowsKeeps
  <2>4. CASE Crash(p)
    <3>1. up' \subseteq up /\ Fault /\ job' = [job EXCEPT ![p] = Idle]
          /\ UNCHANGED <<rows, stale, log, again, retried, claimers>>
      BY <2>4 DEF Crash
    <3> QED
      BY <3>1, DropKeeps
  <2> QED
    BY <1>4, <2>1, <2>2, <2>3, <2>4 DEF Trouble
<1>5. ASSUME NEW p \in Publishers, Restart(p) PROVE DeliveryInv'
  <2>1. up' \subseteq Publishers /\ stale' \subseteq {i \in DOMAIN rows : rows[i].status = "INFLIGHT"}
    BY <1>1, <1>5 DEF Restart, DataOK
  <2> QED
    BY <1>5, <2>1, AsideKeeps DEF Restart
<1>6. ASSUME NEW i \in DOMAIN rows, ClaimAges(i) PROVE DeliveryInv'
  <2>1. up' \subseteq Publishers /\ stale' \subseteq {j \in DOMAIN rows : rows[j].status = "INFLIGHT"}
    BY <1>1, <1>6 DEF ClaimAges, DataOK
  <2> QED
    BY <1>6, <2>1, AsideKeeps DEF ClaimAges
<1>7. CASE ReapStale
  <2>1. stale \subseteq DOMAIN rows
    BY <1>1 DEF DataOK
  <2> QED
    BY <1>7, <2>1, SetAllKeeps DEF ReapStale
<1>8. CASE Purge
  <2>1. PICK old \in SUBSET DOMAIN rows :
          SetAll(old, "PURGED") /\ \A i \in old : rows[i].status = "PROCESSED"
    BY <1>8 DEF Purge
  <2>2. UNCHANGED <<stale, job, up, log, again, faults, retried, claimers>>
    BY <1>8 DEF Purge
  <2> QED
    BY <2>1, <2>2, SetAllKeeps
<1>9. CASE UNCHANGED ovars
  <2>1. up' \subseteq Publishers /\ stale' \subseteq {j \in DOMAIN rows : rows[j].status = "INFLIGHT"}
    BY <1>1, <1>9 DEF ovars, DataOK
  <2> QED
    BY <1>9, <2>1, AsideKeeps DEF ovars
<1> QED
  BY <1>2, <1>3, <1>4, <1>5, <1>6, <1>7, <1>8, <1>9 DEF Next

-------------------------------------------------------------------------------
(* Order, step by step *)

LEMMA CalmIsLost ==
  ASSUME DataOK, [Next]_ovars, Calm'
  PROVE  Calm /\ UNCHANGED faults
<1>1. (faults' = faults \/ Fault) /\ claimers \subseteq claimers'
  <2>1. ASSUME NEW k \in Streams, AppendRow(k) PROVE UNCHANGED <<faults, claimers>>
    BY <2>1 DEF AppendRow
  <2>2. ASSUME NEW p \in Publishers, Work(p)
        PROVE  faults' = faults /\ claimers \subseteq claimers'
    <3>1. ASSUME Claim(p) PROVE faults' = faults /\ claimers \subseteq claimers'
      <4>1. claimers' = claimers \cup {p} /\ UNCHANGED faults
        BY <3>1 DEF Claim, Take
      <4> QED
        BY <4>1
    <3>2. CASE Fetch(p) \/ Publish(p) \/ MarkProcessed(p) \/ MarkFailed(p)
      BY <3>2 DEF Fetch, Publish, MarkProcessed, MarkFailed, Mark
    <3> QED
      BY <2>2, <3>1, <3>2 DEF Work
  <2>3. ASSUME NEW p \in Publishers, Trouble(p) PROVE Fault /\ UNCHANGED claimers
    BY <2>3 DEF Trouble, FetchThrows, PublishThrows, MarkThrows, Crash
  <2>4. ASSUME \/ \E p \in Publishers : Restart(p)
               \/ \E i \in DOMAIN rows : ClaimAges(i)
               \/ ReapStale \/ Purge \/ UNCHANGED ovars
        PROVE  UNCHANGED <<faults, claimers>>
    BY <2>4 DEF Restart, ClaimAges, ReapStale, Purge, ovars
  <2> QED
    BY <2>1, <2>2, <2>3, <2>4 DEF Next
<1>2. faults \in Nat /\ faults' = 0
  BY OutboxAssumption DEF DataOK, Calm
<1>3. faults' = faults
  BY <1>1, <1>2 DEF Fault
<1> QED
  BY <1>1, <1>2, <1>3 DEF Calm

\* In the calm, a replica at work is the only one.
LEMMA OneAtWork ==
  ASSUME Shape, Calm, NEW p \in claimers, NEW q \in Publishers, q # p
  PROVE  job[q].step = "idle" /\ HeldBy(q) = {} /\ Waiting(q) = {}
<1>1. job[q].step = "idle"
  BY DEF Shape, JobInv, Calm
<1> QED
  BY <1>1, HandsFacts

LEMMA SentExist ==
  ASSUME Shape, NEW i
  PROVE  /\ Sent(i) <=> i \in Range(log)
         /\ Sent(i) \/ InHand(i) => i \in DOMAIN rows
<1>1. DataOK /\ \A p \in Publishers : HeldBy(p) \subseteq DOMAIN rows
  BY ShapeParts, HandsFacts
<1>2. Range(log) \subseteq DOMAIN rows
  BY <1>1, LenProperties, ElementOfSeq DEF DataOK, Range
<1> QED
  BY <1>1, <1>2, SentIsLogged DEF InHand

\* Stamps do not change, and what was sent or is in hand keeps its place.
LEMMA BeforeStays ==
  ASSUME Shape, \A i \in DOMAIN rows : CreatedAt(i)' = CreatedAt(i)
  PROVE  /\ \A i, j \in DOMAIN rows : Before(i, j)' <=> Before(i, j)
         /\ Range(log) \subseteq DOMAIN rows
         /\ \A n \in DOMAIN log : log[n] \in DOMAIN rows /\ log[n] \in Range(log)
<1>1. \A i, j \in DOMAIN rows : Before(i, j)' <=> Before(i, j)
  BY DEF Before
<1>2. \A n \in DOMAIN log : log[n] \in Range(log)
  BY DEF Range
<1>3. Range(log) \subseteq DOMAIN rows
  BY SentExist
<1> QED
  BY <1>1, <1>2, <1>3

\* A batch that is kept, or that lost its first row, is still in order.
LEMMA StampOrderStays ==
  ASSUME Shape, NEW p \in Publishers, InStampOrder(p),
         \A i \in DOMAIN rows : CreatedAt(i)' = CreatedAt(i),
         \/ \A n \in DOMAIN job'[p].todo :
              n \in DOMAIN job[p].todo /\ job'[p].todo[n].row = job[p].todo[n].row
         \/ \A n \in DOMAIN job'[p].todo :
              n \in Nat /\ n + 1 \in DOMAIN job[p].todo /\ job'[p].todo[n] = job[p].todo[n + 1]
  PROVE  InStampOrder(p)'
<1>1. \A n \in DOMAIN job[p].todo : job[p].todo[n].row \in DOMAIN rows
  BY DEF Shape, JobInv, HeldBy
<1>2. ASSUME NEW m \in DOMAIN job'[p].todo, NEW n \in DOMAIN job'[p].todo, m < n
      PROVE  rows'[job'[p].todo[m].row].created_at <= rows'[job'[p].todo[n].row].created_at
  <2>1. PICK a \in DOMAIN job[p].todo, b \in DOMAIN job[p].todo :
          a < b /\ job'[p].todo[m].row = job[p].todo[a].row /\ job'[p].todo[n].row = job[p].todo[b].row
    BY <1>2
  <2>2. CreatedAt(job[p].todo[a].row) <= CreatedAt(job[p].todo[b].row)
    BY <2>1 DEF InStampOrder
  <2>3. PICK i \in DOMAIN rows, j \in DOMAIN rows :
          i = job[p].todo[a].row /\ j = job[p].todo[b].row
    BY <1>1
  <2>4. CreatedAt(i)' <= CreatedAt(j)'
    BY <2>2, <2>3
  <2> QED
    BY <2>1, <2>3, <2>4 DEF CreatedAt
<1> QED
  BY <1>2 DEF InStampOrder, CreatedAt

\* The log is left alone, and is still in order.
LEMMA LogStands ==
  ASSUME Shape, InLine, UNCHANGED log, \A i \in DOMAIN rows : CreatedAt(i)' = CreatedAt(i)
  PROVE  \A m, n \in DOMAIN log' : m < n => ~Before(log[n], log[m])'
<1> SUFFICES ASSUME NEW m \in DOMAIN log, NEW n \in DOMAIN log, m < n
             PROVE  ~Before(log[n], log[m])'
  BY DEF Before, CreatedAt
<1>1. PICK i \in DOMAIN rows, j \in DOMAIN rows : i = log[n] /\ j = log[m]
  BY BeforeStays
<1>2. ~Before(i, j)'
  BY <1>1, BeforeStays DEF InLine
<1> QED
  BY <1>1, <1>2 DEF Before, CreatedAt

\* A step that leaves the log and the hands alone, and the statuses up to what the
\* reaper and the cleanup do to them.
LEMMA LineStands ==
  ASSUME Shape, InLine, UNCHANGED log, DOMAIN rows' = DOMAIN rows,
         \A i \in DOMAIN rows : CreatedAt(i)' = CreatedAt(i),
         \A p \in Publishers :
           /\ HeldBy(p)' = HeldBy(p) /\ Waiting(p)' = Waiting(p) /\ job'[p].step # "failed"
           /\ \A n \in DOMAIN job'[p].todo :
                n \in DOMAIN job[p].todo /\ job'[p].todo[n].row = job[p].todo[n].row,
         \A i \in DOMAIN rows :
           \/ rows'[i].status = rows[i].status
           \/ rows'[i].status = "PENDING" /\ InHand(i)
           \/ rows'[i].status = "PURGED" /\ Sent(i)
  PROVE  InLine'
<1>1. \A i : (Sent(i)' <=> Sent(i)) /\ (InHand(i)' <=> InHand(i))
  BY DEF Sent, InHand
<1>2. \A i \in DOMAIN rows : rows'[i].status = "PENDING" /\ ~InHand(i) => rows[i].status = "PENDING"
  OBVIOUS
<1>3. \A i \in DOMAIN rows : rows'[i].status = "INFLIGHT" => rows[i].status = "INFLIGHT"
  OBVIOUS
<1>4. \A i \in DOMAIN rows : Sent(i) \/ InHand(i) \/ rows'[i].status = "PENDING"
  BY DEF InLine
<1>5. /\ \A i, j \in DOMAIN rows : Before(i, j)' <=> Before(i, j)
      /\ Range(log) \subseteq DOMAIN rows
      /\ \A n \in DOMAIN log : log[n] \in DOMAIN rows /\ log[n] \in Range(log)
  BY BeforeStays
<1>6. \A p \in Publishers : job'[p].step # "failed" /\ InStampOrder(p)'
  BY StampOrderStays DEF InLine
<1>7. \A m, n \in DOMAIN log' : m < n => ~Before(log[n], log[m])'
  BY LogStands
<1>8. \A p \in Publishers : \A i \in Waiting(p) :
        i \in DOMAIN rows /\ ~Sent(i) /\ \A j \in Range(log) : ~Before(i, j)'
  BY <1>5, HandsFacts DEF InLine
<1>9. \A i \in DOMAIN rows : rows'[i].status = "PENDING" /\ ~InHand(i) =>
        ~Sent(i) /\ \A j \in DOMAIN rows : Sent(j) \/ InHand(j) => ~Before(i, j)'
  BY <1>2, <1>5 DEF InLine
<1> QED
  BY <1>1, <1>3, <1>4, <1>6, <1>7, <1>8, <1>9 DEF InLine

LEMMA AppendInLine ==
  ASSUME DeliveryInv, InLine, NEW k \in Streams, AppendRow(k)
  PROVE  InLine'
<1>1. Shape
  BY DEF DeliveryInv
<1>2. PICK row \in OutboxEvent :
        row.status = "PENDING" /\ rows' = Append(rows, row) /\ UNCHANGED <<job, log>>
  BY DEF AppendRow, OutboxEvent, RowStatus
<1>3. rows \in Seq(OutboxEvent) /\ Len(rows) \in Nat /\ DOMAIN rows = 1 .. Len(rows)
  BY <1>1, LenProperties DEF Shape, TypeOK
<1>4. PICK new \in Nat : new = Len(rows) + 1
  BY <1>3
<1>5. row.status = "PENDING"
  BY <1>2
<1>6. /\ rows' \in Seq(OutboxEvent) /\ Len(rows') = new
      /\ \A i \in 1 .. Len(rows) : rows'[i] = rows[i]
      /\ rows'[new] = row
  BY <1>2, <1>3, <1>4, AppendProperties
<1>7. /\ DOMAIN rows' = DOMAIN rows \cup {new} /\ new \notin DOMAIN rows
      /\ \A j \in DOMAIN rows : j < new
  <2>1. DOMAIN rows' = 1 .. Len(rows')
    BY <1>6, LenProperties
  <2> QED
    BY <1>3, <1>6, <1>4, <2>1
<1>8. \A p \in Publishers : HeldBy(p)' = HeldBy(p) /\ Waiting(p)' = Waiting(p)
  BY <1>2, SameHands
<1>9. \A i : (Sent(i)' <=> Sent(i)) /\ (InHand(i)' <=> InHand(i))
  BY <1>2, <1>8 DEF Sent, InHand
<1>10. ~Sent(new) /\ ~InHand(new)
  BY <1>1, <1>7, SentExist
<1>11. \A i \in DOMAIN rows : rows'[i] = rows[i]
  BY <1>3, <1>6
<1>12. rows'[new].status = "PENDING"
  BY <1>5, <1>6
<1>13. \A i \in DOMAIN rows : CreatedAt(i)' = CreatedAt(i)
  BY <1>11 DEF CreatedAt
<1>14. /\ \A i, j \in DOMAIN rows : Before(i, j)' <=> Before(i, j)
       /\ Range(log) \subseteq DOMAIN rows
  BY <1>1, <1>13, BeforeStays
<1>15. \A i \in DOMAIN rows' : rows'[i].status = "PENDING" /\ ~InHand(i)' =>
         ~Sent(i)' /\ \A j \in DOMAIN rows' : Sent(j)' \/ InHand(j)' => ~Before(i, j)'
  <2>1. \A i \in DOMAIN rows : rows[i].status = "PENDING" /\ ~InHand(i) =>
          ~Sent(i) /\ \A j \in DOMAIN rows : Sent(j) \/ InHand(j) => ~Before(i, j)'
    BY <1>14 DEF InLine
  <2>2. \A j \in DOMAIN rows : ~Before(new, j)'
    BY <1>3, <1>7, <1>4 DEF Before
  <2> QED
    BY <1>7, <1>9, <1>10, <1>11, <2>1, <2>2
<1>16. \A i \in DOMAIN rows' : rows'[i].status = "INFLIGHT" => InHand(i)'
  BY <1>7, <1>9, <1>11, <1>12 DEF InLine
<1>17. \A i \in DOMAIN rows' : Sent(i)' \/ InHand(i)' \/ rows'[i].status = "PENDING"
  BY <1>7, <1>9, <1>11, <1>12 DEF InLine
<1>18. \A p \in Publishers : \A i \in Waiting(p) :
         ~Sent(i) /\ \A j \in Range(log) : ~Before(i, j)'
  BY <1>1, <1>14, HandsFacts DEF InLine
<1>19. \A p \in Publishers : job'[p].step # "failed" /\ InStampOrder(p)'
  BY <1>1, <1>2, <1>13, StampOrderStays DEF InLine
<1>20. \A m, n \in DOMAIN log' : m < n => ~Before(log[n], log[m])'
  BY <1>1, <1>2, <1>13, LogStands
<1> QED
  BY <1>2, <1>8, <1>9, <1>15, <1>16, <1>17, <1>18, <1>19, <1>20 DEF InLine

LEMMA ClaimInLine ==
  ASSUME DeliveryInv, InLine, Calm, Calm', NEW p \in Publishers, Claim(p)
  PROVE  InLine'
<1>1. Shape /\ TypeOK
  BY DEF DeliveryInv, Shape
<1>2. PICK batch \in SUBSET {i \in DOMAIN rows : rows[i].status = "PENDING"} :
           /\ SetAll(batch, "INFLIGHT")
           /\ HeldBy(p)' = batch /\ Waiting(p)' = batch
           /\ \A i \in DOMAIN rows \ batch : rows[i].status = "PENDING" =>
                \A b \in batch : CreatedAt(b) <= CreatedAt(i)
           /\ \A q \in Publishers \ {p} : job'[q] = job[q]
           /\ job'[p].step = "claimed"
           /\ \A m, n \in DOMAIN job'[p].todo : m < n =>
                CreatedAt(job'[p].todo[m].row) <= CreatedAt(job'[p].todo[n].row)
  BY <1>1, ClaimFacts
<1>3. claimers' = claimers \cup {p} /\ UNCHANGED log /\ job[p].step = "idle"
  BY DEF Claim, Take, Idle
<1>4. \A q \in Publishers : job[q].step = "idle"
  BY <1>1, <1>3 DEF Shape, JobInv, Calm
<1>5. \A q \in Publishers : HeldBy(q) = {} /\ Waiting(q) = {}
  BY <1>1, <1>4, HandsFacts
<1>6. \A i : ~InHand(i) /\ (InHand(i)' <=> i \in batch) /\ (Sent(i)' <=> Sent(i))
  BY <1>2, <1>3, <1>5, SameHands DEF InHand, Sent
<1>7. /\ DOMAIN rows' = DOMAIN rows
      /\ \A i \in DOMAIN rows :
           rows'[i].status = IF i \in batch THEN "INFLIGHT" ELSE rows[i].status
      /\ \A i \in DOMAIN rows : CreatedAt(i)' = CreatedAt(i)
  BY <1>1, <1>2, SetAllRows DEF RowStatus
<1>8. /\ \A i, j \in DOMAIN rows : Before(i, j)' <=> Before(i, j)
      /\ Range(log) \subseteq DOMAIN rows
  BY <1>1, <1>7, BeforeStays
<1>9. \A i \in batch : ~Sent(i) /\ \A j \in Range(log) : ~Before(i, j)'
  <2>1. \A i \in batch : ~Sent(i) /\ \A j \in DOMAIN rows : Sent(j) => ~Before(i, j)
    BY <1>2, <1>6 DEF InLine
  <2> QED
    BY <1>1, <1>2, <1>8, <2>1, SentExist
<1>10. \A q \in Publishers : \A i \in Waiting(q)' :
         ~Sent(i)' /\ \A j \in Range(log') : ~Before(i, j)'
  <2>1. \A q \in Publishers \ {p} : Waiting(q)' = {}
    BY <1>2, <1>5, SameHands
  <2> QED
    BY <1>2, <1>3, <1>6, <1>9, <2>1
<1>11. \A i \in DOMAIN rows' : rows'[i].status = "PENDING" /\ ~InHand(i)' =>
         ~Sent(i)' /\ \A j \in DOMAIN rows' : Sent(j)' \/ InHand(j)' => ~Before(i, j)'
  <2> SUFFICES ASSUME NEW i \in DOMAIN rows \ batch, rows[i].status = "PENDING"
               PROVE  ~Sent(i) /\ \A j \in DOMAIN rows : Sent(j) \/ j \in batch => ~Before(i, j)
    BY <1>6, <1>7, <1>8
  <2>1. ~Sent(i) /\ \A j \in DOMAIN rows : Sent(j) => ~Before(i, j)
    BY <1>6 DEF InLine
  <2>2. \A j \in batch : CreatedAt(j) <= CreatedAt(i)
    BY <1>2
  <2>3. \A j \in DOMAIN rows : CreatedAt(j) \in Nat
    <3>1. \A j \in DOMAIN rows : rows[j] \in OutboxEvent
      BY <1>1, LenProperties, ElementOfSeq DEF TypeOK
    <3> QED
      BY <3>1, OutboxAssumption DEF OutboxEvent, CreatedAt
  <2>4. \A j \in batch : ~Before(i, j)
    BY <1>2, <2>2, <2>3 DEF Before
  <2> QED
    BY <2>1, <2>4
<1>12. \A i \in DOMAIN rows' : rows'[i].status = "INFLIGHT" => InHand(i)'
  BY <1>6, <1>7 DEF InLine
<1>13. \A i \in DOMAIN rows' : Sent(i)' \/ InHand(i)' \/ rows'[i].status = "PENDING"
  BY <1>6, <1>7 DEF InLine
<1>14. \A q \in Publishers : job'[q].step # "failed" /\ InStampOrder(q)'
  <2>1. ASSUME NEW q \in Publishers \ {p} PROVE job'[q].step # "failed" /\ InStampOrder(q)'
    BY <1>1, <1>2, <1>4, <1>7, StampOrderStays DEF InLine
  <2>2. \A n \in DOMAIN job'[p].todo : job'[p].todo[n].row \in batch
    BY <1>2 DEF HeldBy
  <2>3. ASSUME NEW m \in DOMAIN job'[p].todo, NEW n \in DOMAIN job'[p].todo, m < n
        PROVE  rows'[job'[p].todo[m].row].created_at <= rows'[job'[p].todo[n].row].created_at
    <3>1. PICK i \in DOMAIN rows, j \in DOMAIN rows :
            i = job'[p].todo[m].row /\ j = job'[p].todo[n].row
      BY <1>2, <2>2
    <3>2. CreatedAt(i)' <= CreatedAt(j)'
      BY <1>2, <1>7, <2>3, <3>1
    <3> QED
      BY <3>1, <3>2 DEF CreatedAt
  <2>4. InStampOrder(p)'
    BY <2>3 DEF InStampOrder, CreatedAt
  <2> QED
    BY <1>2, <2>1, <2>4
<1>15. \A m, n \in DOMAIN log' : m < n => ~Before(log[n], log[m])'
  BY <1>1, <1>3, <1>7, LogStands
<1> QED
  BY <1>3, <1>10, <1>11, <1>12, <1>13, <1>14, <1>15 DEF InLine

LEMMA PublishInLine ==
  ASSUME DeliveryInv, InLine, Calm, NEW p \in Publishers, Publish(p)
  PROVE  InLine'
<1> DEFINE i == job[p].todo[1].row
<1>1. Shape /\ TypeOK /\ DataOK /\ JobInv(p) /\ p \in claimers
  BY ShapeParts DEF DeliveryInv, Shape, JobInv, Publish
<1>2. job[p].step = "publish" /\ Goto(p, "sent") /\ Send(i) /\ UNCHANGED rows
  BY DEF Publish
<1>3. i \in HeldBy(p) /\ i \in DOMAIN rows /\ Waiting(p) = HeldBy(p) /\ HeldBy(p) \subseteq DOMAIN rows
  BY <1>1, <1>2, HandsFacts
<1>4. /\ \A q \in Publishers \ {p} : job'[q] = job[q]
      /\ job'[p].step = "sent" /\ job'[p].todo = job[p].todo
      /\ HeldBy(p)' = HeldBy(p)
  BY <1>1, <1>2, GotoMoves
<1>5. Waiting(p)' = HeldBy(p) \ {i}
  <2>1. Waiting(p)' = {job[p].todo[n].row : n \in {m \in DOMAIN job[p].todo : m > 1}}
    BY <1>4 DEF Waiting
  <2> QED
    BY <1>1, <1>2, <2>1, BehindTheFirst DEF JobInv
<1>6. \A j \in HeldBy(p) \ {i} : ~Before(j, i)
  <2>1. /\ Len(job[p].todo) \in Nat /\ DOMAIN job[p].todo = 1 .. Len(job[p].todo)
        /\ 1 \in DOMAIN job[p].todo
    BY <1>1, <1>2, JobFacts
  <2>2. \A n \in DOMAIN job[p].todo : n = 1 \/ 1 < n
    BY <2>1
  <2>3. \A n \in DOMAIN job[p].todo : 1 < n => CreatedAt(i) <= CreatedAt(job[p].todo[n].row)
    BY <2>1 DEF InLine, InStampOrder
  <2>4. \A j \in HeldBy(p) \ {i} : CreatedAt(i) <= CreatedAt(j)
    BY <2>2, <2>3 DEF HeldBy
  <2>5. \A j \in DOMAIN rows : CreatedAt(j) \in Nat
    <3>1. \A j \in DOMAIN rows : rows[j] \in OutboxEvent
      BY <1>1, LenProperties, ElementOfSeq DEF TypeOK
    <3> QED
      BY <3>1, OutboxAssumption DEF OutboxEvent, CreatedAt
  <2> HIDE DEF i
  <2> QED
    BY <1>3, <2>4, <2>5 DEF Before
<1> HIDE DEF i
<1>7. ~Sent(i) /\ \A j \in Range(log) : ~Before(i, j)
  BY <1>3 DEF InLine
<1>8. /\ \A j \in DOMAIN rows : CreatedAt(j)' = CreatedAt(j)
      /\ Range(log) \subseteq DOMAIN rows
      /\ \A n \in DOMAIN log : log[n] \in DOMAIN rows /\ log[n] \in Range(log)
  BY <1>1, <1>2, BeforeStays DEF CreatedAt
<1>9. \A j, r \in DOMAIN rows : Before(j, r)' <=> Before(j, r)
  BY <1>1, <1>8, BeforeStays
<1>10. /\ log' = Append(log, i) /\ Range(log') = Range(log) \cup {i}
       /\ \A j : Sent(j)' <=> Sent(j) \/ j = i
  BY <1>1, <1>2, <1>3, <1>7, SendFacts
<1>11. ASSUME NEW m \in DOMAIN log', NEW n \in DOMAIN log', m < n
       PROVE  ~Before(log'[n], log'[m])
  <2>1. log \in Seq(DOMAIN rows) /\ Len(log) \in Nat /\ DOMAIN log = 1 .. Len(log)
    BY <1>1, LenProperties DEF DataOK
  <2>2. /\ log' \in Seq(DOMAIN rows) /\ Len(log') = Len(log) + 1
        /\ \A a \in 1 .. Len(log) : log'[a] = log[a]
        /\ log'[Len(log) + 1] = i
    BY <1>3, <1>10, <2>1, AppendProperties
  <2>3. DOMAIN log' = 1 .. Len(log) + 1
    BY <2>2, LenProperties
  <2>4. m \in 1 .. Len(log) /\ log'[m] = log[m]
    BY <1>11, <2>1, <2>2, <2>3
  <2>5. CASE n \in 1 .. Len(log)
    BY <1>11, <2>1, <2>2, <2>4, <2>5 DEF InLine
  <2>6. CASE n = Len(log) + 1
    BY <1>7, <1>8, <2>1, <2>2, <2>4, <2>6
  <2> QED
    BY <2>1, <2>3, <2>5, <2>6
<1>12. \A m, n \in DOMAIN log' : m < n => ~Before(log[n], log[m])'
  BY <1>2, <1>11 DEF Before, CreatedAt
<1>13. \A q \in Publishers \ {p} :
         HeldBy(q)' = HeldBy(q) /\ HeldBy(q) = {} /\ Waiting(q)' = {} /\ job'[q].step = "idle"
  BY <1>1, <1>4, SameHands, OneAtWork
<1>14. \A q \in Publishers : \A j \in Waiting(q)' :
         ~Sent(j)' /\ \A r \in Range(log') : ~Before(j, r)'
  <2>1. \A j \in Waiting(p)' : j \in HeldBy(p) /\ j # i /\ j \in DOMAIN rows
    BY <1>3, <1>5
  <2>2. \A j \in Waiting(p)' : ~Sent(j)' /\ \A r \in Range(log') : ~Before(j, r)
    BY <1>3, <1>6, <1>10, <2>1 DEF InLine
  <2>3. \A j \in Waiting(p)' : ~Sent(j)' /\ \A r \in Range(log') : ~Before(j, r)'
    BY <1>3, <1>8, <1>9, <1>10, <2>1, <2>2
  <2> QED
    BY <1>13, <2>3
<1>15. InHand(i) /\ \A j : InHand(j)' <=> InHand(j)
  BY <1>3, <1>4, <1>13 DEF InHand
<1>16. \A q \in Publishers : job'[q].step # "failed" /\ InStampOrder(q)'
  <2>1. \A q \in Publishers : job'[q].todo = job[q].todo
    BY <1>4
  <2> QED
    BY <1>1, <1>4, <1>8, <1>13, <2>1, StampOrderStays DEF InLine
<1>17. \A j \in DOMAIN rows' : rows'[j].status = "PENDING" /\ ~InHand(j)' =>
         ~Sent(j)' /\ \A r \in DOMAIN rows' : Sent(r)' \/ InHand(r)' => ~Before(j, r)'
  <2>1. \A j \in DOMAIN rows : rows[j].status = "PENDING" /\ ~InHand(j) =>
          j # i /\ ~Sent(j) /\ \A r \in DOMAIN rows : Sent(r) \/ InHand(r) => ~Before(j, r)'
    BY <1>9, <1>15 DEF InLine
  <2> QED
    BY <1>2, <1>10, <1>15, <2>1
<1>18. \A j \in DOMAIN rows' :
         /\ rows'[j].status = "INFLIGHT" => InHand(j)'
         /\ Sent(j)' \/ InHand(j)' \/ rows'[j].status = "PENDING"
  BY <1>2, <1>10, <1>15 DEF InLine
<1> QED
  BY <1>12, <1>14, <1>16, <1>17, <1>18 DEF InLine

LEMMA MarkInLine ==
  ASSUME DeliveryInv, InLine, NEW p \in Publishers, MarkProcessed(p)
  PROVE  InLine'
<1> DEFINE i == job[p].todo[1].row
<1>1. Shape /\ TypeOK /\ JobInv(p) /\ job[p].step = "sent"
  BY DEF DeliveryInv, Shape, MarkProcessed
<1>2. i \in HeldBy(p) /\ i \in DOMAIN rows /\ Waiting(p) = HeldBy(p) \ {i} /\ Sent(i)
  BY <1>1, HandsFacts DEF JobInv
<1>3. rows[i].attempts \in Nat
  <2>1. rows[i] \in OutboxEvent
    BY <1>1, <1>2, LenProperties, ElementOfSeq DEF TypeOK
  <2> QED
    BY <2>1 DEF OutboxEvent
<1>4. Marked(i, "PROCESSED", rows[i].attempts) /\ NextRow(p) /\ UNCHANGED log
  BY DEF MarkProcessed, Mark, Marked
<1>5. /\ \A q \in Publishers \ {p} : job'[q] = job[q]
      /\ HeldBy(p)' = Waiting(p) /\ Waiting(p)' = Waiting(p)
      /\ job'[p].step \in {"idle", "publish"}
      /\ \A n \in DOMAIN job'[p].todo :
           n \in Nat /\ n + 1 \in DOMAIN job[p].todo /\ job'[p].todo[n] = job[p].todo[n + 1]
  BY <1>1, <1>4, NextRowMoves
<1>6. /\ DOMAIN rows' = DOMAIN rows /\ rows'[i].status = "PROCESSED"
      /\ \A j \in DOMAIN rows : j # i => rows'[j] = rows[j]
      /\ \A j \in DOMAIN rows : CreatedAt(j)' = CreatedAt(j)
  BY <1>1, <1>2, <1>3, <1>4, MarkedRows DEF RowStatus
<1> HIDE DEF i
<1>7. \A j : /\ Sent(j)' <=> Sent(j)
             /\ InHand(j)' => InHand(j)
             /\ j # i /\ InHand(j) => InHand(j)'
  <2>1. \A q \in Publishers \ {p} : HeldBy(q)' = HeldBy(q)
    BY <1>5, SameHands
  <2> QED
    BY <1>2, <1>4, <1>5, <2>1 DEF Sent, InHand
<1>8. \A j \in DOMAIN rows' : rows'[j].status = "PENDING" /\ ~InHand(j)' =>
        ~Sent(j)' /\ \A r \in DOMAIN rows' : Sent(r)' \/ InHand(r)' => ~Before(j, r)'
  <2>1. \A j, r \in DOMAIN rows : Before(j, r)' <=> Before(j, r)
    BY <1>1, <1>6, BeforeStays
  <2>2. \A j \in DOMAIN rows : rows'[j].status = "PENDING" /\ ~InHand(j)' =>
          j # i /\ rows[j].status = "PENDING" /\ ~InHand(j)
    BY <1>6, <1>7
  <2>3. \A j \in DOMAIN rows : rows[j].status = "PENDING" /\ ~InHand(j) =>
          ~Sent(j) /\ \A r \in DOMAIN rows : Sent(r) \/ InHand(r) => ~Before(j, r)'
    BY <2>1 DEF InLine
  <2> QED
    BY <1>6, <1>7, <2>2, <2>3
<1>9. \A j \in DOMAIN rows' :
        /\ rows'[j].status = "INFLIGHT" => InHand(j)'
        /\ Sent(j)' \/ InHand(j)' \/ rows'[j].status = "PENDING"
  <2>1. ASSUME NEW j \in DOMAIN rows', j # i
        PROVE  /\ rows'[j].status = "INFLIGHT" => InHand(j)'
               /\ Sent(j)' \/ InHand(j)' \/ rows'[j].status = "PENDING"
    BY <1>6, <1>7, <2>1 DEF InLine
  <2>2. \A j : j = i => Sent(j)'
    BY <1>2, <1>7
  <2> QED
    BY <1>6, <2>1, <2>2
<1>10. \A q \in Publishers : Waiting(q)' = Waiting(q) /\ job'[q].step # "failed"
  BY <1>5, SameHands DEF InLine
<1>11. \A q \in Publishers : InStampOrder(q)'
  <2>1. InStampOrder(p)'
    BY <1>1, <1>5, <1>6, StampOrderStays DEF InLine
  <2>2. ASSUME NEW q \in Publishers \ {p} PROVE InStampOrder(q)'
    BY <1>1, <1>5, <1>6, StampOrderStays DEF InLine
  <2> QED
    BY <2>1, <2>2
<1>12. \A m, n \in DOMAIN log' : m < n => ~Before(log[n], log[m])'
  BY <1>1, <1>4, <1>6, LogStands
<1>13. \A q \in Publishers : \A j \in Waiting(q)' :
         ~Sent(j)' /\ \A r \in Range(log') : ~Before(j, r)'
  <2>1. /\ \A j, r \in DOMAIN rows : Before(j, r)' <=> Before(j, r)
        /\ Range(log) \subseteq DOMAIN rows
    BY <1>1, <1>6, BeforeStays
  <2>2. \A q \in Publishers : Waiting(q) \subseteq DOMAIN rows
    BY <1>1, HandsFacts
  <2> QED
    BY <1>4, <1>7, <1>10, <2>1, <2>2 DEF InLine
<1> QED
  BY <1>8, <1>9, <1>10, <1>11, <1>12, <1>13 DEF InLine

LEMMA InLineNext ==
  ASSUME OutboxInv, [Next]_ovars, DeliveryInv', Calm'
  PROVE  InLine'
<1>1. DeliveryInv /\ Shape /\ DataOK /\ TypeOK
  BY ShapeParts DEF OutboxInv, DeliveryInv, Shape
<1>2. Calm /\ UNCHANGED faults /\ ~Fault
  <2>1. Calm /\ UNCHANGED faults
    BY <1>1, CalmIsLost
  <2>2. ~Fault
    BY <2>1, OutboxAssumption DEF Calm, Fault
  <2> QED
    BY <2>1, <2>2
<1>3. InLine
  BY <1>2 DEF OutboxInv
<1>4. ASSUME NEW k \in Streams, AppendRow(k) PROVE InLine'
  BY <1>1, <1>3, <1>4, AppendInLine
<1>5. ASSUME NEW p \in Publishers, Work(p) PROVE InLine'
  <2>1. CASE Claim(p)
    BY <1>1, <1>2, <1>3, <2>1, ClaimInLine
  <2>2. CASE Fetch(p)
    <3>1. /\ \A q \in Publishers \ {p} : job'[q] = job[q]
          /\ job'[p].step = "publish"
          /\ HeldBy(p)' = HeldBy(p) /\ Waiting(p)' = Waiting(p)
          /\ \A n \in DOMAIN job'[p].todo :
               n \in DOMAIN job[p].todo /\ job'[p].todo[n].row = job[p].todo[n].row
      BY <1>1, <2>2, FetchFacts
    <3>2. UNCHANGED <<rows, log>> /\ \A i \in DOMAIN rows : CreatedAt(i)' = CreatedAt(i)
      BY <2>2 DEF Fetch, CreatedAt
    <3>3. \A q \in Publishers :
            /\ HeldBy(q)' = HeldBy(q) /\ Waiting(q)' = Waiting(q) /\ job'[q].step # "failed"
            /\ \A n \in DOMAIN job'[q].todo :
                 n \in DOMAIN job[q].todo /\ job'[q].todo[n].row = job[q].todo[n].row
      BY <1>3, <3>1, SameHands DEF InLine
    <3> QED
      BY <1>1, <1>3, <3>2, <3>3, LineStands
  <2>3. CASE Publish(p)
    BY <1>1, <1>2, <1>3, <2>3, PublishInLine
  <2>4. CASE MarkProcessed(p)
    BY <1>1, <1>3, <2>4, MarkInLine
  <2>5. CASE MarkFailed(p)
    BY <1>3, <2>5 DEF MarkFailed, InLine
  <2> QED
    BY <1>5, <2>1, <2>2, <2>3, <2>4, <2>5 DEF Work
<1>6. ASSUME NEW p \in Publishers, Trouble(p) PROVE InLine'
  BY <1>2, <1>6 DEF Trouble, FetchThrows, PublishThrows, MarkThrows, Crash
<1>7. ASSUME UNCHANGED <<rows, job, log>> PROVE InLine'
  <2>1. \A q \in Publishers : /\ HeldBy(q)' = HeldBy(q) /\ Waiting(q)' = Waiting(q)
                              /\ job'[q].step # "failed"
    BY <1>3, <1>7, SameHands DEF InLine
  <2>2. \A i \in DOMAIN rows : CreatedAt(i)' = CreatedAt(i)
    BY <1>7 DEF CreatedAt
  <2> QED
    BY <1>1, <1>3, <1>7, <2>1, <2>2, LineStands
<1>8. ASSUME UNCHANGED <<job, log>>, NEW indices, NEW status \in {"PENDING", "PURGED"},
             SetAll(indices, status),
             \A i \in indices \cap DOMAIN rows :
               \/ status = "PENDING" /\ rows[i].status = "INFLIGHT"
               \/ status = "PURGED" /\ rows[i].status = "PROCESSED"
      PROVE  InLine'
  <2>1. /\ DOMAIN rows' = DOMAIN rows
        /\ \A i \in DOMAIN rows :
             rows'[i].status = IF i \in indices THEN status ELSE rows[i].status
        /\ \A i \in DOMAIN rows : CreatedAt(i)' = CreatedAt(i)
    BY <1>1, <1>8, SetAllRows DEF RowStatus
  <2>2. \A q \in Publishers : /\ HeldBy(q)' = HeldBy(q) /\ Waiting(q)' = Waiting(q)
                              /\ job'[q].step # "failed"
    BY <1>3, <1>8, SameHands DEF InLine
  <2>3. \A i \in DOMAIN rows :
          /\ rows[i].status = "INFLIGHT" => InHand(i)
          /\ rows[i].status = "PROCESSED" => Sent(i)
    BY <1>1, <1>3 DEF InLine, DeliveryInv, ProcessedMeansPublished
  <2>4. \A i \in DOMAIN rows :
          \/ rows'[i].status = rows[i].status
          \/ rows'[i].status = "PENDING" /\ InHand(i)
          \/ rows'[i].status = "PURGED" /\ Sent(i)
    BY <1>8, <2>1, <2>3
  <2> QED
    BY <1>1, <1>3, <1>8, <2>1, <2>2, <2>4, LineStands
<1>9. CASE ReapStale
  <2>1. \A i \in stale : rows[i].status = "INFLIGHT"
    BY <1>1 DEF DataOK
  <2> QED
    BY <1>8, <1>9, <2>1 DEF ReapStale
<1>10. CASE Purge
  <2>1. PICK old \in SUBSET DOMAIN rows :
          SetAll(old, "PURGED") /\ \A i \in old : rows[i].status = "PROCESSED"
    BY <1>10 DEF Purge
  <2> QED
    BY <1>8, <1>10, <2>1 DEF Purge
<1> QED
  BY <1>4, <1>5, <1>6, <1>7, <1>9, <1>10 DEF Next, Restart, ClaimAges, ovars

LEMMA OutboxInit == Init => OutboxInv
<1> SUFFICES ASSUME Init PROVE OutboxInv
  OBVIOUS
<1>1. DeliveryInv
  BY DeliveryInit
<1>2. rows = <<>> /\ log = <<>> /\ DOMAIN rows = {} /\ DOMAIN log = {}
  BY DEF Init
<1>3. \A p \in Publishers : job[p].step = "idle" /\ InStampOrder(p)
  BY DEF Init, Idle, InStampOrder
<1>4. \A p \in Publishers : Waiting(p) = {}
  BY <1>1, <1>3, HandsFacts DEF DeliveryInv
<1>5. InLine
  BY <1>2, <1>3, <1>4 DEF InLine
<1> QED
  BY <1>1, <1>5 DEF OutboxInv

LEMMA OutboxNext == OutboxInv /\ [Next]_ovars => OutboxInv'
<1> SUFFICES ASSUME OutboxInv, [Next]_ovars PROVE OutboxInv'
  OBVIOUS
<1>1. DeliveryInv'
  BY DeliveryNext DEF OutboxInv
<1>2. Calm' => InLine'
  BY <1>1, InLineNext
<1> QED
  BY <1>1, <1>2 DEF OutboxInv

LEMMA OutboxIsSafe == Spec => []OutboxInv
  BY OutboxInit, OutboxNext, PTL DEF Spec

-------------------------------------------------------------------------------
(* The theorems *)

\* TypeOK: for one, the broker's log names rows that exist, each once.
THEOREM TypeCorrect == Spec => []TypeOK
<1>1. OutboxInv => TypeOK
  BY DEF OutboxInv, DeliveryInv, Shape
<1> QED
  BY <1>1, OutboxIsSafe, PTL

\* ProcessedMeansPublished: nothing is marked PROCESSED, and so nothing is purged,
\* that the broker did not get, however claims are reaped, shared and marked late.
THEOREM PublishedSafe == Spec => []ProcessedMeansPublished
<1>1. OutboxInv => ProcessedMeansPublished
  BY DEF OutboxInv, DeliveryInv
<1> QED
  BY <1>1, OutboxIsSafe, PTL

\* RedeliveredOnlyAfterRetry: as long as a row's claim is not returned, one replica
\* at most has it in hand, and the broker gets it once.
THEOREM RedeliverySafe == Spec => []RedeliveredOnlyAfterRetry
<1>1. OutboxInv => RedeliveredOnlyAfterRetry
  BY DEF OutboxInv, DeliveryInv
<1> QED
  BY <1>1, OutboxIsSafe, PTL

\* OrderedUntilFault: with nothing gone wrong and one replica publishing, the broker
\* gets a row after those of its stream that were committed and stamped before it,
\* also under the reaper.
THEOREM OrderSafe == Spec => []OrderedUntilFault
<1>1. OutboxInv => OrderedUntilFault
  <2> SUFFICES ASSUME OutboxInv, faults = 0, Cardinality(claimers) <= 1,
                      NEW i \in DOMAIN rows, NEW j \in DOMAIN rows, Before(i, j),
                      NEW n \in DOMAIN log, log[n] = j
               PROVE  \E m \in 1 .. n : log[m] = i
    BY DEF OrderedUntilFault, PerStreamOrder
  <2>1. Shape /\ DataOK /\ DOMAIN rows \subseteq Nat
    <3>1. Shape /\ DataOK
      BY ShapeParts DEF OutboxInv, DeliveryInv
    <3> QED
      BY <3>1, LenProperties DEF DataOK
  <2>2. Calm
    <3>1. ASSUME NEW p \in claimers, NEW q \in claimers, p # q PROVE FALSE
      <4>1. IsFiniteSet(claimers) /\ Cardinality(claimers) \in Nat
        BY <2>1, FS_CardinalityType DEF DataOK
      <4>2. /\ IsFiniteSet(claimers \ {p}) /\ Cardinality(claimers \ {p}) = Cardinality(claimers) - 1
        BY <3>1, <4>1, FS_RemoveElement
      <4>3. Cardinality(claimers \ {p}) = 0
        <5>1. Cardinality(claimers \ {p}) \in Nat
          BY <4>2, FS_CardinalityType
        <5> QED
          BY <4>1, <4>2, <5>1
      <4>4. claimers \ {p} = {}
        BY <4>2, <4>3, FS_EmptySet
      <4> QED
        BY <3>1, <4>4
    <3> QED
      BY <3>1 DEF Calm
  <2>3. InLine
    BY <2>2 DEF OutboxInv
  <2>4. Sent(j) /\ j \in Range(log)
    <3>1. j \in Range(log)
      BY DEF Range
    <3> QED
      BY <2>1, <3>1, SentIsLogged
  <2>5. Sent(i)
    <3>1. CASE rows[i].status = "PENDING" /\ ~InHand(i)
      BY <2>1, <2>3, <2>4, <3>1 DEF InLine
    <3>2. ASSUME NEW p \in Publishers, i \in HeldBy(p) PROVE Sent(i)
      <4>1. i \notin Waiting(p)
        BY <2>1, <2>3, <2>4 DEF InLine
      <4>2. job[p].step \in {"idle", "claimed", "publish", "sent", "failed"}
        BY <2>1 DEF Shape, TypeOK, Job
      <4>3. job[p].step = "sent" /\ i = job[p].todo[1].row
        BY <2>1, <2>3, <3>2, <4>1, <4>2, HandsFacts DEF InLine
      <4> QED
        BY <2>1, <4>3 DEF Shape, JobInv
    <3> QED
      BY <2>3, <3>1, <3>2 DEF InLine, InHand
  <2>6. DOMAIN log = 1 .. Len(log) /\ Len(log) \in Nat
    BY <2>1, LenProperties DEF DataOK
  <2>7. PICK m \in 1 .. Len(log) : log[m] = i
    BY <2>5 DEF Sent, Contains
  <2>8. m <= n
    <3>1. ~(n < m)
      BY <2>3, <2>6, <2>7 DEF InLine
    <3> QED
      BY <2>6, <3>1
  <2> QED
    BY <2>6, <2>7, <2>8
<1> QED
  BY <1>1, OutboxIsSafe, PTL

-------------------------------------------------------------------------------
(* The outbox as a log of facts *)

Written == [i \in DOMAIN rows |-> rows[i].stream]
Done == {i \in DOMAIN rows : rows[i].status \in {"PROCESSED", "PURGED"}}
Gone == {i \in DOMAIN rows : rows[i].status = "PURGED"}

\* What a replica still has to mark was not deleted under it.
HeldAreKept == \A p \in Publishers : \A i \in HeldBy(p) : rows[i].status # "PURGED"

LogInv == DeliveryInv /\ HeldAreKept

LEMMA LogParts ==
  ASSUME LogInv
  PROVE  /\ Shape /\ TypeOK /\ DataOK /\ ProcessedMeansPublished /\ HeldAreKept
         /\ \A p \in Publishers : HeldBy(p) \subseteq DOMAIN rows
         /\ \A i : i \in L!Received <=> Sent(i)
<1>1. Shape /\ TypeOK /\ DataOK /\ ProcessedMeansPublished /\ HeldAreKept
  BY ShapeParts DEF LogInv, DeliveryInv, Shape
<1>2. \A p \in Publishers : HeldBy(p) \subseteq DOMAIN rows
  BY <1>1, HandsFacts
<1>3. \A i : i \in L!Received <=> Sent(i)
  BY <1>1, SentIsLogged DEF L!Received, Range
<1> QED
  BY <1>1, <1>2, <1>3

\* No step of a poll but a claim puts a row in hand.
LEMMA HandsShrink ==
  ASSUME LogInv, NEW p \in Publishers,
         \/ Fetch(p) \/ FetchThrows(p) \/ Publish(p) \/ PublishThrows(p)
         \/ MarkProcessed(p) \/ MarkFailed(p) \/ MarkThrows(p) \/ Crash(p)
  PROVE  \A q \in Publishers : HeldBy(q)' \subseteq HeldBy(q)
<1>1. Shape /\ TypeOK
  BY LogParts
<1>2. CASE Fetch(p)
  BY <1>1, <1>2, FetchFacts, SameHands
<1>3. CASE job' = [job EXCEPT ![p] = Idle]
  BY <1>1, <1>3, DropMoves, SameHands
<1>4. ASSUME job[p].step # "idle", NEW step \in {"sent", "failed"}, Goto(p, step)
      PROVE  \A q \in Publishers : HeldBy(q)' \subseteq HeldBy(q)
  BY <1>1, <1>4, GotoMoves, SameHands
<1>5. CASE job[p].step \in {"sent", "failed"} /\ NextRow(p)
  <2>1. HeldBy(p)' = Waiting(p) /\ \A q \in Publishers \ {p} : job'[q] = job[q]
    BY <1>1, <1>5, NextRowMoves
  <2> QED
    BY <1>1, <2>1, HandsFacts, SameHands
<1>6. CASE Publish(p) \/ PublishThrows(p)
  BY <1>4, <1>6 DEF Publish, PublishThrows
<1>7. CASE MarkProcessed(p) \/ MarkFailed(p)
  BY <1>5, <1>7 DEF MarkProcessed, MarkFailed, Mark
<1>8. CASE MarkThrows(p)
  BY <1>3, <1>4, <1>5, <1>8 DEF MarkThrows
<1>9. CASE FetchThrows(p) \/ Crash(p)
  BY <1>3, <1>9 DEF FetchThrows, Crash
<1> QED
  BY <1>2, <1>6, <1>7, <1>8, <1>9

\* Rows that change neither stream nor place in {done, gone} are a stutter.
LEMMA SameFacts ==
  ASSUME LogInv, DOMAIN rows' = DOMAIN rows, log' = log,
         \A i \in DOMAIN rows :
           /\ rows'[i].stream = rows[i].stream
           /\ rows'[i].status = rows[i].status \/ {rows[i].status, rows'[i].status}
                \cap {"PROCESSED", "PURGED"} = {}
  PROVE  UNCHANGED L!lvars
<1>1. Written' = Written
  BY DEF Written
<1>2. Done' = Done /\ Gone' = Gone
  BY DEF Done, Gone
<1> QED
  BY <1>1, <1>2 DEF L!lvars, Written, Done, Gone

LEMMA AppendWrites ==
  ASSUME LogInv, NEW k \in Streams, AppendRow(k)
  PROVE  L!Write(k) /\ HeldAreKept'
<1> DEFINE new == Len(rows) + 1
<1>1. /\ log' = log /\ job' = job
      /\ rows \in Seq(OutboxEvent) /\ Len(rows) \in Nat /\ DOMAIN rows = 1 .. Len(rows)
  BY LogParts, LenProperties DEF AppendRow, DataOK
<1>2. PICK row \in OutboxEvent :
        row.status = "PENDING" /\ row.stream = k /\ rows' = Append(rows, row)
  BY DEF AppendRow, OutboxEvent, RowStatus
<1>3. /\ rows' \in Seq(OutboxEvent) /\ Len(rows') = new
      /\ \A i \in 1 .. Len(rows) : rows'[i] = rows[i]
      /\ rows'[new] = row
  BY <1>1, <1>2, AppendProperties
<1>4. DOMAIN rows' = 1 .. new /\ DOMAIN rows' = DOMAIN rows \cup {new} /\ new \notin DOMAIN rows
  <2>1. DOMAIN rows' = 1 .. Len(rows')
    BY <1>3, LenProperties
  <2> QED
    BY <1>1, <1>3, <2>1
<1> HIDE DEF new
<1>5. Done' = Done /\ Gone' = Gone
  <2>1. \A i \in DOMAIN rows : rows'[i] = rows[i]
    BY <1>1, <1>3
  <2> QED
    BY <1>2, <1>3, <1>4, <2>1 DEF Done, Gone
<1>6. Written' = Append(Written, k)
  <2>1. \A i \in DOMAIN rows : rows[i].stream \in Streams
    <3>1. \A i \in DOMAIN rows : rows[i] \in OutboxEvent
      BY <1>1, ElementOfSeq
    <3> QED
      BY <3>1 DEF OutboxEvent
  <2>2. Written \in [DOMAIN rows -> Streams]
    BY <2>1 DEF Written
  <2>3. Written \in Seq(Streams) /\ Len(Written) = Len(rows)
    BY <1>1, <2>2, MappedSeq
  <2>4. /\ Append(Written, k) \in Seq(Streams) /\ Len(Append(Written, k)) = new
        /\ \A i \in 1 .. Len(rows) : Append(Written, k)[i] = Written[i]
        /\ Append(Written, k)[new] = k
    BY <2>3, AppendProperties DEF new
  <2>5. Written' = [i \in 1 .. new |-> rows'[i].stream]
    BY <1>4 DEF Written
  <2>6. \A i \in 1 .. new : rows'[i].stream = Append(Written, k)[i]
    BY <1>1, <1>2, <1>3, <1>4, <2>4 DEF Written
  <2>7. Append(Written, k) = [i \in 1 .. new |-> Append(Written, k)[i]]
    <3>1. DOMAIN Append(Written, k) = 1 .. new
      BY <2>4, LenProperties
    <3>2. Append(Written, k) \in [1 .. new -> Streams]
      BY <2>4, LenProperties
    <3> QED
      BY <3>2
  <2> QED
    BY <2>5, <2>6, <2>7
<1>7. HeldAreKept'
  <2>1. \A q \in Publishers : HeldBy(q)' = HeldBy(q)
    BY <1>1, SameHands
  <2> QED
    BY <1>1, <1>3, <2>1, LogParts DEF HeldAreKept
<1> QED
  BY <1>1, <1>5, <1>6, <1>7 DEF L!Write, Written, Done, Gone

\* A claim takes PENDING rows, so nothing that is done with.
LEMMA ClaimIsInternal ==
  ASSUME LogInv, NEW p \in Publishers, Claim(p)
  PROVE  UNCHANGED L!lvars /\ HeldAreKept'
<1>1. PICK batch \in SUBSET {i \in DOMAIN rows : rows[i].status = "PENDING"} :
           /\ SetAll(batch, "INFLIGHT")
           /\ HeldBy(p)' = batch
           /\ \A q \in Publishers \ {p} : job'[q] = job[q]
  BY LogParts, ClaimFacts
<1>2. /\ DOMAIN rows' = DOMAIN rows
      /\ \A i \in DOMAIN rows :
           rows'[i].status = IF i \in batch THEN "INFLIGHT" ELSE rows[i].status
      /\ \A i \in DOMAIN rows : rows'[i].stream = rows[i].stream
  BY <1>1, LogParts, SetAllRows DEF RowStatus
<1>3. log' = log
  BY DEF Claim
<1>4. UNCHANGED L!lvars
  BY <1>1, <1>2, <1>3, SameFacts
<1>5. HeldAreKept'
  <2>1. ASSUME NEW q \in Publishers, NEW i \in HeldBy(q)' PROVE rows'[i].status # "PURGED"
    <3>1. CASE q = p
      BY <1>1, <1>2, <2>1, <3>1
    <3>2. CASE q # p
      <4>1. i \in HeldBy(q) /\ i \in DOMAIN rows /\ rows[i].status # "PURGED"
        BY <1>1, <2>1, <3>2, SameHands, LogParts DEF HeldAreKept
      <4> QED
        BY <1>2, <4>1
    <3> QED
      BY <3>1, <3>2
  <2> QED
    BY <2>1 DEF HeldAreKept
<1> QED
  BY <1>4, <1>5

\* Steps that leave the rows alone and put none in hand.
LEMMA RowsAside ==
  ASSUME LogInv, UNCHANGED rows, \A q \in Publishers : HeldBy(q)' \subseteq HeldBy(q)
  PROVE  HeldAreKept' /\ (log' = log => UNCHANGED L!lvars)
<1>1. HeldAreKept'
  BY LogParts DEF HeldAreKept
<1>2. ASSUME log' = log PROVE UNCHANGED L!lvars
  BY <1>2, SameFacts
<1> QED
  BY <1>1, <1>2

\* A message either arrives for the first time, or changes nothing.
LEMMA PublishDelivers ==
  ASSUME LogInv, NEW p \in Publishers, Publish(p) \/ PublishThrows(p)
  PROVE  ([L!Next]_(L!lvars)) /\ HeldAreKept'
<1>1. PICK i \in DOMAIN rows :
        i = job[p].todo[1].row /\ UNCHANGED rows /\ (Send(i) \/ log' = log)
  <2>1. job[p].step = "publish" /\ UNCHANGED rows /\ (Send(job[p].todo[1].row) \/ log' = log)
    BY DEF Publish, PublishThrows
  <2> QED
    BY <2>1, LogParts, HandsFacts
<1>2. HeldAreKept' /\ (log' = log => UNCHANGED L!lvars)
  BY <1>1, HandsShrink, RowsAside
<1>3. CASE Send(i) /\ ~Sent(i)
  <2>1. log' = Append(log, i) /\ i \notin L!Received
    BY <1>3, LogParts DEF Send
  <2>2. L!Deliver(i)
    BY <1>1, <2>1 DEF L!Deliver
  <2>3. DOMAIN Written = DOMAIN rows
    BY DEF Written
  <2> QED
    BY <1>2, <2>2, <2>3 DEF L!Next, Written
<1>4. CASE log' = log
  BY <1>2, <1>4
<1> QED
  BY <1>1, <1>2, <1>3, <1>4 DEF Send

\* A mark settles a fact that has arrived, reopens one that is not deleted, or does
\* neither.
LEMMA MarkSettles ==
  ASSUME LogInv, NEW p \in Publishers, MarkProcessed(p) \/ MarkFailed(p)
  PROVE  ([L!Next]_(L!lvars)) /\ HeldAreKept'
<1>1. Shape /\ TypeOK /\ JobInv(p) /\ job[p].step \in {"sent", "failed"}
  BY LogParts DEF Shape, MarkProcessed, MarkFailed
<1>2. PICK i \in DOMAIN rows :
        i = job[p].todo[1].row /\ i \in HeldBy(p) /\ rows[i].status # "PURGED"
  BY <1>1, HandsFacts, LogParts DEF HeldAreKept
<1>3. PICK status \in {"PENDING", "PROCESSED", "FAILED_DLQ"}, attempts \in Nat :
        /\ Marked(i, status, attempts) /\ log' = log
        /\ status = "PROCESSED" => job[p].step = "sent"
  <2>1. CASE MarkProcessed(p)
    <3>1. rows[i] \in OutboxEvent
      BY <1>1, <1>2, LenProperties, ElementOfSeq DEF TypeOK
    <3>2. rows[i].attempts \in Nat
      BY <3>1 DEF OutboxEvent
    <3>3. Marked(i, "PROCESSED", rows[i].attempts) /\ log' = log /\ job[p].step = "sent"
      BY <1>2, <2>1 DEF MarkProcessed, Mark, Marked
    <3> QED
      BY <3>2, <3>3
  <2>2. CASE MarkFailed(p)
    <3> DEFINE next == job[p].todo[1].attempts + 1
               status == IF next >= MaxAttempts THEN "FAILED_DLQ" ELSE "PENDING"
    <3>1. next \in Nat
      <4>1. job[p].todo[1] \in [row : Index, attempts : Nat]
        BY <1>1, JobFacts
      <4> QED
        BY <4>1
    <3>2. Marked(i, status, next) /\ log' = log
      BY <1>2, <2>2 DEF MarkFailed, Mark, Marked
    <3>3. status \in {"PENDING", "PROCESSED", "FAILED_DLQ"} /\ status # "PROCESSED"
      OBVIOUS
    <3> HIDE DEF next, status
    <3> QED
      BY <3>1, <3>2, <3>3
  <2> QED
    BY <2>1, <2>2
<1>4. /\ DOMAIN rows' = DOMAIN rows
      /\ rows'[i].status = status /\ rows'[i].stream = rows[i].stream
      /\ \A j \in DOMAIN rows : j # i => rows'[j] = rows[j]
  BY <1>1, <1>2, <1>3, MarkedRows DEF RowStatus
<1>5. status = "PROCESSED" => i \in L!Received
  BY <1>1, <1>2, <1>3, LogParts DEF JobInv
<1>6. Written' = Written
  BY <1>2, <1>4 DEF Written
<1>7. Gone' = Gone
  BY <1>2, <1>4 DEF Gone
<1>8. Done' = IF status = "PROCESSED" THEN Done \cup {i} ELSE Done \ {i}
  BY <1>2, <1>4 DEF Done
<1>9. DOMAIN Written = DOMAIN rows /\ i \notin Gone
  BY <1>2 DEF Written, Gone
<1>10. [L!Next]_(L!lvars)
  <2>1. CASE status = "PROCESSED" /\ i \notin Done
    <3>1. L!Settle(i)
      BY <1>3, <1>5, <1>6, <1>7, <1>8, <2>1 DEF L!Settle, Written, Done, Gone
    <3> QED
      BY <1>2, <1>9, <3>1 DEF L!Next, Written
  <2>2. CASE status # "PROCESSED" /\ i \in Done
    <3>1. L!Reopen(i)
      BY <1>3, <1>6, <1>7, <1>8, <1>9, <2>2 DEF L!Reopen, Written, Done, Gone
    <3> QED
      BY <1>2, <1>9, <3>1 DEF L!Next, Written
  <2>3. CASE Done' = Done
    BY <1>3, <1>6, <1>7, <2>3 DEF L!lvars, Written, Done, Gone
  <2> QED
    BY <1>8, <2>1, <2>2, <2>3
<1>11. HeldAreKept'
  <2>1. \A j \in DOMAIN rows : rows[j].status # "PURGED" => rows'[j].status # "PURGED"
    BY <1>4
  <2>2. \A q \in Publishers : HeldBy(q)' \subseteq HeldBy(q)
    BY HandsShrink
  <2> QED
    BY <2>1, <2>2, LogParts DEF HeldAreKept
<1> QED
  BY <1>10, <1>11

\* The reaper returns rows that are in flight.
LEMMA ReapIsInternal ==
  ASSUME LogInv, ReapStale
  PROVE  UNCHANGED L!lvars /\ HeldAreKept'
<1>1. /\ SetAll(stale, "PENDING") /\ job' = job /\ log' = log
      /\ stale \subseteq {i \in DOMAIN rows : rows[i].status = "INFLIGHT"}
  BY LogParts DEF ReapStale, DataOK
<1>2. /\ DOMAIN rows' = DOMAIN rows
      /\ \A i \in DOMAIN rows :
           rows'[i].status = IF i \in stale THEN "PENDING" ELSE rows[i].status
      /\ \A i \in DOMAIN rows : rows'[i].stream = rows[i].stream
  BY <1>1, LogParts, SetAllRows DEF RowStatus
<1>3. UNCHANGED L!lvars
  BY <1>1, <1>2, SameFacts
<1>4. \A q \in Publishers : HeldBy(q)' = HeldBy(q)
  BY <1>1, SameHands
<1> QED
  BY <1>2, <1>3, <1>4, LogParts DEF HeldAreKept

\* The cleanup deletes what is done with and in nobody's hands.
LEMMA PurgeForgets ==
  ASSUME LogInv, Purge
  PROVE  L!Next /\ HeldAreKept'
<1>1. PICK old \in SUBSET DOMAIN rows :
        /\ old = {i \in DOMAIN rows \ Held : rows[i].status = "PROCESSED"}
        /\ SetAll(old, "PURGED") /\ job' = job /\ log' = log
  BY DEF Purge
<1>2. \A q \in Publishers : old \cap HeldBy(q) = {}
  BY <1>1 DEF Held, HeldBy
<1>3. \A i \in old : rows[i].status = "PROCESSED"
  BY <1>1
<1>4. /\ DOMAIN rows' = DOMAIN rows
      /\ \A i \in DOMAIN rows : rows'[i].status = IF i \in old THEN "PURGED" ELSE rows[i].status
      /\ \A i \in DOMAIN rows : rows'[i].stream = rows[i].stream
  BY <1>1, LogParts, SetAllRows DEF RowStatus
<1>5. Written' = Written
  BY <1>4 DEF Written
<1>6. Done' = Done /\ Gone' = Gone \cup old /\ old \subseteq Done
  BY <1>1, <1>3, <1>4 DEF Done, Gone
<1>7. L!Forget(old)
  BY <1>1, <1>5, <1>6 DEF L!Forget, Written, Done, Gone
<1>8. L!Next
  BY <1>6, <1>7 DEF L!Next, Done
<1>9. \A q \in Publishers : HeldBy(q)' = HeldBy(q)
  BY <1>1, SameHands
<1>10. HeldAreKept'
  BY <1>2, <1>4, <1>9, LogParts DEF HeldAreKept
<1> QED
  BY <1>8, <1>10

LEMMA LogStep == LogInv /\ [Next]_ovars => LogInv' /\ [L!Next]_(L!lvars)
<1> SUFFICES ASSUME LogInv, [Next]_ovars PROVE HeldAreKept' /\ [L!Next]_(L!lvars)
  BY DeliveryNext DEF LogInv
<1>1. ASSUME NEW k \in Streams, AppendRow(k) PROVE HeldAreKept' /\ [L!Next]_(L!lvars)
  BY <1>1, AppendWrites DEF L!Next
<1>2. ASSUME NEW p \in Publishers,
             Fetch(p) \/ FetchThrows(p) \/ MarkThrows(p) \/ Crash(p)
      PROVE  HeldAreKept' /\ UNCHANGED L!lvars
  <2>1. UNCHANGED <<rows, log>>
    BY <1>2 DEF Fetch, FetchThrows, MarkThrows, Crash
  <2>2. \A q \in Publishers : HeldBy(q)' \subseteq HeldBy(q)
    BY <1>2, HandsShrink
  <2> QED
    BY <2>1, <2>2, RowsAside
<1>3. ASSUME UNCHANGED <<rows, job, log>> PROVE HeldAreKept' /\ UNCHANGED L!lvars
  BY <1>3, SameHands, RowsAside
<1>4. ASSUME NEW p \in Publishers, Work(p) \/ Trouble(p)
      PROVE  HeldAreKept' /\ [L!Next]_(L!lvars)
  BY <1>2, <1>4, ClaimIsInternal, PublishDelivers, MarkSettles DEF Work, Trouble
<1>5. ASSUME (\E p \in Publishers : Restart(p)) \/ (\E i \in DOMAIN rows : ClaimAges(i))
             \/ UNCHANGED ovars
      PROVE  UNCHANGED <<rows, job, log>>
  BY <1>5 DEF Restart, ClaimAges, ovars
<1> QED
  BY <1>1, <1>3, <1>4, <1>5, ReapIsInternal, PurgeForgets DEF Next

LEMMA LogInit == Init => LogInv /\ L!Init
<1> SUFFICES ASSUME Init PROVE HeldAreKept /\ L!Init
  BY DeliveryInit DEF LogInv
<1>1. rows = <<>> /\ log = <<>> /\ DOMAIN rows = {} /\ \A p \in Publishers : job[p] = Idle
  BY DEF Init
<1>2. Idle.todo = <<>> /\ DOMAIN Idle.todo = {}
  BY DEF Idle
<1>3. HeldAreKept
  BY <1>1, <1>2 DEF HeldAreKept, HeldBy
<1> QED
  BY <1>1, <1>3 DEF L!Init

\* RefinesLog: polls, claims, batches, retries and late claimants together implement
\* a log whose facts are done with, and deleted, only after they arrived.
THEOREM Refinement == Spec => RefinesLog
  BY LogInit, LogStep, PTL DEF Spec, RefinesLog, L!Spec
===============================================================================
