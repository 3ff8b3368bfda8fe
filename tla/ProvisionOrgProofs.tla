--------------------------- MODULE ProvisionOrgProofs --------------------------
(***************************************************************************)
(* The safety of the compensation reaper, and of provisioning an           *)
(* organisation on top of it, for any rows, replicas, attempts and limits. *)
(***************************************************************************)
EXTENDS ProvisionOrg, FiniteSetTheorems, TLAPS

\* A replica has one claim to a row, however far it is with it.
OneClaimPerRow ==
  \A p \in Reapers : \A c, d \in batch[p] : c.row = d.row => c = d

\* A claim that was never taken away is the only one and the row says so.
UnreapedClaimIsSole ==
  \A i \in Rows \ reaped : \A p \in Holders(i) : status[i] = "INFLIGHT" /\ Holders(i) = {p}

\* The failed tries that a claimant knows of: those it read, and its own.
Known(c) == IF c.phase = "threw" THEN c.attempts + 1 ELSE c.attempts

ClaimantsKnowLess == \A p \in Reapers : \A c \in batch[p] : Known(c) <= threw[c.row]

CompensationInv ==
  /\ TypeOK
  /\ OneClaimPerRow
  /\ UnreapedClaimIsSole
  /\ ClaimantsKnowLess
  /\ GivenUpOnlyAfterMaxAttempts

\* A step of the reaper, or of somebody else who may have used up a fault.
ReaperStep == Next \/ (NoRow /\ (Fault \/ UNCHANGED faults))

-------------------------------------------------------------------------------
(* Types of the reaper *)

LEMMA CompensationTypeInit == Init => TypeOK
  BY CompensationAssumption DEF Init, TypeOK, RowStatus

LEMMA PollTypes ==
  ASSUME TypeOK, NEW p \in Reapers, Poll(p)
  PROVE  TypeOK'
<1>1. \A i \in Rows : [row |-> i, attempts |-> 0, phase |-> "claimed"] \in Claim
  BY DEF Claim
<1>2. batch' \in [Reapers -> SUBSET Claim]
  BY <1>1 DEF Poll, TypeOK
<1>3. status' \in [Rows -> RowStatus] /\ stale' \subseteq {i \in Rows : status'[i] = "INFLIGHT"}
  BY DEF Poll, TypeOK, RowStatus
<1> QED
  BY <1>2, <1>3 DEF Poll, TypeOK

LEMMA FetchTypes ==
  ASSUME TypeOK, NEW p \in Reapers, Fetch(p)
  PROVE  TypeOK'
<1>1. \A c \in batch[p] : [c EXCEPT !.attempts = attempts[c.row], !.phase = "fetched"] \in Claim
  <2> TAKE c \in batch[p]
  <2>1. c \in Claim /\ attempts[c.row] \in Nat
    BY DEF TypeOK, Claim
  <2> QED
    BY <2>1 DEF Claim
<1>2. batch' \in [Reapers -> SUBSET Claim]
  BY <1>1 DEF Fetch, TypeOK
<1> QED
  BY <1>2 DEF Fetch, TypeOK

\* The runner's return and the failure of a mark change one claim and no row.
LEMMA RunTypes ==
  ASSUME TypeOK, NEW p \in Reapers, NEW c \in batch[p],
         \/ \E phase \in {"ran", "threw"} : Run(p, c, phase)
         \/ MarkProcessedThrows(p, c)
  PROVE  TypeOK'
<1>1. c \in Claim
  BY DEF TypeOK
<1>2. threw' \in [Rows -> Nat]
  BY <1>1 DEF Run, MarkProcessedThrows, Failed, TypeOK, Claim
<1>3. batch' \in [Reapers -> SUBSET Claim]
  <2>1. ASSUME NEW phase \in {"ran", "threw"}
        PROVE  (batch[p] \ {c}) \cup {[c EXCEPT !.phase = phase]} \in SUBSET Claim
    <3>1. [c EXCEPT !.phase = phase] \in Claim
      BY <1>1 DEF Claim
    <3> QED
      BY <3>1 DEF TypeOK
  <2> QED
    BY <2>1 DEF Run, MarkProcessedThrows, TypeOK
<1>4. faults' \in 0 .. MaxFaults
  BY CompensationAssumption DEF Run, MarkProcessedThrows, Fault, TypeOK
<1> QED
  BY <1>2, <1>3, <1>4 DEF Run, MarkProcessedThrows, TypeOK

LEMMA MarkTypes ==
  ASSUME TypeOK, NEW p \in Reapers, NEW c \in batch[p], Mark(p, c)
  PROVE  TypeOK'
<1>1. c \in Claim /\ c.row \in Rows /\ c.attempts + 1 \in Nat
  BY DEF TypeOK, Claim
<1>2. ASSUME NEW s \in RowStatus, SetStatus(c.row, s)
      PROVE  status' \in [Rows -> RowStatus] /\ stale' \subseteq {i \in Rows : status'[i] = "INFLIGHT"}
  BY <1>1, <1>2 DEF SetStatus, TypeOK
<1>3. status' \in [Rows -> RowStatus] /\ stale' \subseteq {i \in Rows : status'[i] = "INFLIGHT"}
  BY <1>2 DEF Mark, MarkProcessed, MarkFailed, RowStatus
<1>4. attempts' \in [Rows -> Nat]
  BY <1>1 DEF Mark, MarkProcessed, MarkFailed, TypeOK
<1> QED
  BY <1>3, <1>4 DEF Mark, MarkProcessed, MarkFailed, TypeOK

LEMMA CompensationTypeNext ==
  ASSUME TypeOK, ReaperStep
  PROVE  TypeOK'
<1>1. ASSUME NEW i \in Rows, RecordFailed(i) PROVE TypeOK'
  BY <1>1 DEF RecordFailed, TypeOK, RowStatus
<1>2. ASSUME NEW p \in Reapers, FetchThrows(p) \/ Crash(p) \/ Restart(p) PROVE TypeOK'
  BY <1>2, CompensationAssumption DEF FetchThrows, Crash, Restart, Fault, TypeOK
<1>3. ASSUME NEW p \in Reapers, NEW c \in batch[p], MarkFailedThrows(p, c) PROVE TypeOK'
  BY <1>3, CompensationAssumption DEF MarkFailedThrows, Fault, TypeOK
<1>4. ASSUME NEW i \in Rows, ClaimAges(i) PROVE TypeOK'
  BY <1>4 DEF ClaimAges, TypeOK
<1>5. ASSUME ReapStale \/ Purge PROVE TypeOK'
  BY <1>5 DEF ReapStale, Purge, TypeOK, RowStatus
<1>6. ASSUME NoRow /\ (Fault \/ UNCHANGED faults) PROVE TypeOK'
  BY <1>6, CompensationAssumption DEF NoRow, Fault, TypeOK
<1> QED
  BY <1>1, <1>2, <1>3, <1>4, <1>5, <1>6, PollTypes, FetchTypes, RunTypes, MarkTypes
     DEF ReaperStep, Next, Background, MarkThrows

\* TypeOK: only INFLIGHT rows have a claim to age, and faults keep to their bound.
THEOREM CompensationTypeCorrect == Spec => []TypeOK
<1>1. TypeOK /\ [Next]_cvars => TypeOK'
  <2>1. UNCHANGED cvars => ReaperStep
    BY DEF cvars, ReaperStep, NoRow
  <2> QED
    BY <2>1, CompensationTypeNext DEF ReaperStep
<1> QED
  BY <1>1, CompensationTypeInit, PTL DEF Spec

-------------------------------------------------------------------------------
(* Claims *)

LEMMA HolderOf ==
  ASSUME NEW p \in Reapers, NEW c \in batch[p], TypeOK
  PROVE  c \in Claim /\ c.row \in Rows /\ p \in Holders(c.row)
  BY DEF TypeOK, Claim, Holders

\* Steps that give nobody a claim, and leave alone the rows whose claims stay.
LEMMA FewerHolders ==
  ASSUME UnreapedClaimIsSole, reaped \subseteq reaped',
         \A i \in Rows : Holders(i)' \subseteq Holders(i),
         \A i \in Rows \ reaped' : Holders(i)' # {} => status'[i] = status[i]
  PROVE  UnreapedClaimIsSole'
<1> SUFFICES ASSUME NEW i \in Rows \ reaped', NEW p \in Holders(i)'
             PROVE  status'[i] = "INFLIGHT" /\ Holders(i)' = {p}
  BY DEF UnreapedClaimIsSole
<1>1. i \in Rows \ reaped /\ p \in Holders(i) /\ status'[i] = status[i]
  OBVIOUS
<1>2. status[i] = "INFLIGHT" /\ Holders(i) = {p}
  BY <1>1 DEF UnreapedClaimIsSole
<1>3. Holders(i)' \subseteq Holders(i)
  OBVIOUS
<1> QED
  BY <1>1, <1>2, <1>3

\* New claims of a replica that keep to the rows of its earlier ones.
LEMMA OneClaimStep ==
  ASSUME TypeOK, OneClaimPerRow, NEW p \in Reapers, NEW B,
         batch'[p] = B, \A q \in Reapers \ {p} : batch'[q] = batch[q],
         \A d \in B : \E c \in batch[p] : d.row = c.row,
         \A d, e \in B : d.row = e.row => d = e
  PROVE  OneClaimPerRow' /\ \A i \in Rows : Holders(i)' \subseteq Holders(i)
<1>1. OneClaimPerRow'
  BY DEF OneClaimPerRow
<1>2. \A i \in Rows : Holders(i)' \subseteq Holders(i)
  BY DEF Holders
<1> QED
  BY <1>1, <1>2

LEMMA PollKeepsClaims ==
  ASSUME CompensationInv, NEW p \in Reapers, Poll(p)
  PROVE  OneClaimPerRow' /\ UnreapedClaimIsSole' /\ ClaimantsKnowLess'
<1> DEFINE rows == {i \in Rows : status[i] = "PENDING"}
           claim0(i) == [row |-> i, attempts |-> 0, phase |-> "claimed"]
<1>1. /\ batch[p] = {} /\ threw' = threw /\ reaped' = reaped
      /\ batch'[p] = {claim0(i) : i \in rows}
      /\ \A q \in Reapers \ {p} : batch'[q] = batch[q]
      /\ \A i \in Rows : status'[i] = IF i \in rows THEN "INFLIGHT" ELSE status[i]
  BY DEF Poll, CompensationInv, TypeOK
<1>2. \A c \in batch'[p] : c.row \in rows /\ c = claim0(c.row) /\ Known(c) = 0
  BY <1>1 DEF Known
<1>3. OneClaimPerRow'
  BY <1>1, <1>2 DEF CompensationInv, OneClaimPerRow
<1>4. ClaimantsKnowLess'
  <2> SUFFICES ASSUME NEW q \in Reapers, NEW c \in batch'[q]
               PROVE  Known(c) <= threw[c.row]
    BY <1>1 DEF ClaimantsKnowLess, Known
  <2>1. CASE q = p
    <3>1. Known(c) = 0 /\ threw[c.row] \in Nat
      BY <1>2, <2>1 DEF CompensationInv, TypeOK
    <3> QED
      BY <3>1
  <2>2. CASE q # p
    BY <1>1, <2>2 DEF CompensationInv, ClaimantsKnowLess
  <2> QED
    BY <2>1, <2>2
<1>5. UnreapedClaimIsSole'
  <2> SUFFICES ASSUME NEW i \in Rows \ reaped, NEW q \in Holders(i)'
               PROVE  status'[i] = "INFLIGHT" /\ Holders(i)' = {q}
    BY <1>1 DEF UnreapedClaimIsSole
  <2>1. CASE i \in rows
    <3>1. Holders(i) = {}
      BY <2>1 DEF CompensationInv, UnreapedClaimIsSole
    <3>2. Holders(i)' \subseteq {p}
      BY <1>1, <3>1 DEF Holders
    <3> QED
      BY <1>1, <2>1, <3>2
  <2>2. CASE i \notin rows
    <3>1. Holders(i)' \subseteq Holders(i)
      BY <1>1, <1>2, <2>2 DEF Holders
    <3>2. status[i] = "INFLIGHT" /\ Holders(i) = {q}
      BY <3>1 DEF CompensationInv, UnreapedClaimIsSole
    <3> QED
      BY <1>1, <2>2, <3>1, <3>2
  <2> QED
    BY <2>1, <2>2
<1> QED
  BY <1>3, <1>4, <1>5

LEMMA FetchKeepsClaims ==
  ASSUME CompensationInv, NEW p \in Reapers, Fetch(p)
  PROVE  OneClaimPerRow' /\ UnreapedClaimIsSole' /\ ClaimantsKnowLess'
<1> DEFINE fetched(c) == [c EXCEPT !.attempts = attempts[c.row], !.phase = "fetched"]
           B == {fetched(c) : c \in batch[p]}
<1>1. TypeOK /\ OneClaimPerRow /\ UnreapedClaimIsSole /\ ClaimantsKnowLess
  BY DEF CompensationInv
<1>2. /\ batch' = [batch EXCEPT ![p] = B]
      /\ status' = status /\ attempts' = attempts /\ threw' = threw /\ reaped' = reaped
  BY DEF Fetch
<1>3. \A c \in batch[p] : fetched(c).row = c.row /\ Known(fetched(c)) <= threw[c.row]
  <2> TAKE c \in batch[p]
  <2>1. c \in Claim /\ c.row \in Rows /\ attempts[c.row] \in Nat
    BY <1>1 DEF TypeOK, Claim
  <2>2. fetched(c).row = c.row /\ fetched(c).phase = "fetched" /\ fetched(c).attempts = attempts[c.row]
    BY <2>1 DEF Claim
  <2> QED
    BY <2>1, <2>2 DEF Known, CompensationInv, GivenUpOnlyAfterMaxAttempts
<1> HIDE DEF fetched
<1>4. /\ \A d \in B : \E c \in batch[p] : d.row = c.row
      /\ \A d, e \in B : d.row = e.row => d = e
  BY <1>1, <1>3 DEF OneClaimPerRow
<1> HIDE DEF B
<1>5. OneClaimPerRow' /\ \A i \in Rows : Holders(i)' \subseteq Holders(i)
  <2>1. batch'[p] = B /\ \A q \in Reapers \ {p} : batch'[q] = batch[q]
    BY <1>1, <1>2 DEF TypeOK
  <2> QED
    BY <1>1, <1>4, <2>1, OneClaimStep
<1>6. UnreapedClaimIsSole'
  BY <1>1, <1>2, <1>5, FewerHolders
<1>7. ClaimantsKnowLess'
  <2>1. batch'[p] = B /\ \A q \in Reapers \ {p} : batch'[q] = batch[q]
    BY <1>1, <1>2 DEF TypeOK
  <2>2. \A d \in B : Known(d) <= threw[d.row]
    BY <1>3 DEF B
  <2>3. \A q \in Reapers : \A c \in batch'[q] : Known(c) <= threw[c.row]
    BY <1>1, <2>1, <2>2 DEF ClaimantsKnowLess
  <2> QED
    BY <1>2, <2>3 DEF ClaimantsKnowLess, Known
<1> QED
  BY <1>5, <1>6, <1>7

\* The runner returns or throws, or a mark fails: one claim moves on.
LEMMA RunKeepsClaims ==
  ASSUME CompensationInv, NEW p \in Reapers, NEW c \in batch[p],
         \/ \E phase \in {"ran", "threw"} : Run(p, c, phase)
         \/ MarkProcessedThrows(p, c)
  PROVE  /\ OneClaimPerRow' /\ UnreapedClaimIsSole' /\ ClaimantsKnowLess'
         /\ GivenUpOnlyAfterMaxAttempts'
<1>1. /\ TypeOK /\ OneClaimPerRow /\ UnreapedClaimIsSole /\ ClaimantsKnowLess
      /\ GivenUpOnlyAfterMaxAttempts
  BY DEF CompensationInv
<1>2. PICK phase \in {"ran", "threw"} :
        /\ c.phase # "threw"
        /\ batch' = [batch EXCEPT ![p] = (@ \ {c}) \cup {[c EXCEPT !.phase = phase]}]
        /\ threw' = IF phase = "threw" THEN Failed(c.row) ELSE threw
  BY DEF Run, MarkProcessedThrows
<1> DEFINE new == [c EXCEPT !.phase = phase]
           B == (batch[p] \ {c}) \cup {new}
<1>3. c \in Claim /\ c.row \in Rows /\ c.attempts \in Nat
  BY <1>1 DEF TypeOK, Claim
<1>4. new.row = c.row /\ new.phase = phase /\ new.attempts = c.attempts
  BY <1>3 DEF Claim
<1>5. /\ \A i \in Rows : threw[i] \in Nat /\ threw'[i] \in Nat /\ threw[i] <= threw'[i]
      /\ phase = "threw" => threw'[c.row] = threw[c.row] + 1
  BY <1>1, <1>2, <1>3 DEF Failed, TypeOK
<1>6. UNCHANGED <<status, attempts, reaped>>
  BY DEF Run, MarkProcessedThrows
<1>7. batch' = [batch EXCEPT ![p] = B] /\ batch'[p] = B
      /\ \A q \in Reapers \ {p} : batch'[q] = batch[q]
  BY <1>1, <1>2 DEF TypeOK
<1> HIDE DEF new
<1>8. /\ \A d \in B : \E e \in batch[p] : d.row = e.row
      /\ \A d, e \in B : d.row = e.row => d = e
  BY <1>1, <1>4 DEF OneClaimPerRow
<1> HIDE DEF B
<1>9. OneClaimPerRow' /\ \A i \in Rows : Holders(i)' \subseteq Holders(i)
  <2>1. TypeOK /\ OneClaimPerRow
    BY <1>1
  <2> QED
    BY <1>7, <1>8, <2>1, OneClaimStep
<1>10. UnreapedClaimIsSole'
  BY <1>1, <1>6, <1>9, FewerHolders
<1>11. ClaimantsKnowLess'
  <2>1. Known(new) <= threw'[c.row]
    <3>1. c.attempts <= threw[c.row]
      BY <1>1, <1>2 DEF ClaimantsKnowLess, Known
    <3> QED
      BY <1>3, <1>4, <1>5, <3>1 DEF Known
  <2>2. ASSUME NEW q \in Reapers, NEW d \in batch[q] PROVE Known(d) <= threw'[d.row]
    <3>1. Known(d) <= threw[d.row] /\ d.row \in Rows /\ Known(d) \in Nat
      BY <1>1 DEF ClaimantsKnowLess, TypeOK, Claim, Known
    <3> QED
      BY <1>5, <3>1
  <2>3. \A q \in Reapers : \A d \in batch'[q] : Known(d) <= threw'[d.row]
    BY <1>4, <1>7, <2>1, <2>2 DEF B
  <2> QED
    BY <2>3 DEF ClaimantsKnowLess, Known
<1>12. GivenUpOnlyAfterMaxAttempts'
  <2>1. ASSUME NEW i \in Rows
        PROVE  attempts[i] <= threw'[i] /\ (status[i] = "FAILED_DLQ" => threw'[i] >= MaxAttempts)
    BY <1>1, <1>5, CompensationAssumption DEF GivenUpOnlyAfterMaxAttempts, TypeOK
  <2> QED
    BY <1>6, <2>1 DEF GivenUpOnlyAfterMaxAttempts
<1> QED
  BY <1>9, <1>10, <1>11, <1>12

\* A claim that is marked is dropped, and the row belongs to nobody then unless
\* it was reaped.
LEMMA MarkKeepsClaims ==
  ASSUME CompensationInv, NEW p \in Reapers, NEW c \in batch[p], Mark(p, c)
  PROVE  /\ OneClaimPerRow' /\ UnreapedClaimIsSole' /\ ClaimantsKnowLess'
         /\ GivenUpOnlyAfterMaxAttempts'
<1>1. /\ TypeOK /\ OneClaimPerRow /\ UnreapedClaimIsSole /\ ClaimantsKnowLess
      /\ GivenUpOnlyAfterMaxAttempts
  BY DEF CompensationInv
<1>2. /\ batch' = [batch EXCEPT ![p] = batch[p] \ {c}]
      /\ threw' = threw /\ reaped' = reaped
      /\ \A i \in Rows \ {c.row} : status'[i] = status[i] /\ attempts'[i] = attempts[i]
  BY <1>1 DEF Mark, MarkProcessed, MarkFailed, SetStatus, TypeOK
<1>3. c \in Claim /\ c.row \in Rows /\ c.attempts \in Nat /\ p \in Holders(c.row)
  BY <1>1, HolderOf DEF Claim
<1>4. OneClaimPerRow' /\ \A i \in Rows : Holders(i)' \subseteq Holders(i)
  <2>1. /\ \A d \in batch[p] \ {c} : \E e \in batch[p] : d.row = e.row
        /\ \A d, e \in batch[p] \ {c} : d.row = e.row => d = e
    BY <1>1 DEF OneClaimPerRow
  <2>2. batch'[p] = batch[p] \ {c} /\ \A q \in Reapers \ {p} : batch'[q] = batch[q]
    BY <1>1, <1>2 DEF TypeOK
  <2> QED
    BY <1>1, <2>1, <2>2, OneClaimStep
<1>5. p \notin Holders(c.row)'
  BY <1>1, <1>2 DEF Holders, OneClaimPerRow, TypeOK
<1>6. c.row \notin reaped => Holders(c.row)' = {}
  BY <1>1, <1>3, <1>4, <1>5 DEF UnreapedClaimIsSole
<1>7. UnreapedClaimIsSole'
  <2>1. \A i \in Rows \ reaped' : Holders(i)' # {} => status'[i] = status[i]
    BY <1>2, <1>6
  <2> QED
    BY <1>1, <1>2, <1>4, <2>1, FewerHolders
<1>8. ClaimantsKnowLess'
  <2>1. \A q \in Reapers : batch'[q] \subseteq batch[q]
    BY <1>1, <1>2 DEF TypeOK
  <2> QED
    BY <1>1, <1>2, <2>1 DEF ClaimantsKnowLess, Known
<1>9. /\ attempts'[c.row] <= threw[c.row]
      /\ status'[c.row] = "FAILED_DLQ" => threw[c.row] >= MaxAttempts
  <2>1. CASE MarkProcessed(p, c)
    BY <1>1, <1>3, <2>1 DEF MarkProcessed, SetStatus, TypeOK, GivenUpOnlyAfterMaxAttempts
  <2>2. CASE MarkFailed(p, c)
    <3>1. c.attempts + 1 <= threw[c.row] /\ threw[c.row] \in Nat
      BY <1>1, <1>3, <2>2 DEF MarkFailed, ClaimantsKnowLess, Known, TypeOK
    <3>2. /\ attempts'[c.row] = c.attempts + 1
          /\ status'[c.row] = IF c.attempts + 1 >= MaxAttempts THEN "FAILED_DLQ" ELSE "PENDING"
      BY <1>1, <1>3, <2>2 DEF MarkFailed, SetStatus, TypeOK
    <3> QED
      BY <1>3, <3>1, <3>2, CompensationAssumption
  <2> QED
    BY <2>1, <2>2 DEF Mark
<1>10. GivenUpOnlyAfterMaxAttempts'
  BY <1>1, <1>2, <1>9 DEF GivenUpOnlyAfterMaxAttempts
<1> QED
  BY <1>4, <1>7, <1>8, <1>10

\* What the other steps leave of the claims: they drop some, or none.
LEMMA RestKeepsClaims ==
  ASSUME CompensationInv,
         UNCHANGED <<attempts, threw>>, reaped \subseteq reaped',
         \A p \in Reapers : batch'[p] \subseteq batch[p],
         \A i \in Rows : status'[i] = "FAILED_DLQ" => status[i] = "FAILED_DLQ",
         \A i \in Rows \ reaped' : Holders(i)' # {} => status'[i] = status[i]
  PROVE  /\ OneClaimPerRow' /\ UnreapedClaimIsSole' /\ ClaimantsKnowLess'
         /\ GivenUpOnlyAfterMaxAttempts'
<1>1. OneClaimPerRow' /\ ClaimantsKnowLess'
  BY DEF CompensationInv, OneClaimPerRow, ClaimantsKnowLess, Known
<1>2. GivenUpOnlyAfterMaxAttempts'
  BY DEF CompensationInv, GivenUpOnlyAfterMaxAttempts
<1>3. \A i \in Rows : Holders(i)' \subseteq Holders(i)
  BY DEF Holders
<1>4. UnreapedClaimIsSole'
  BY <1>3, FewerHolders DEF CompensationInv
<1> QED
  BY <1>1, <1>2, <1>4

LEMMA RowIsHeld ==
  ASSUME UnreapedClaimIsSole, \A p \in Reapers : batch'[p] \subseteq batch[p],
         NEW i \in Rows \ reaped, Holders(i)' # {}
  PROVE  status[i] = "INFLIGHT"
<1>1. PICK p \in Reapers : p \in Holders(i)
  BY DEF Holders
<1> QED
  BY <1>1 DEF UnreapedClaimIsSole

LEMMA CompensationNext ==
  ASSUME CompensationInv, ReaperStep
  PROVE  CompensationInv'
<1> DEFINE Kept == /\ OneClaimPerRow' /\ UnreapedClaimIsSole' /\ ClaimantsKnowLess'
                   /\ GivenUpOnlyAfterMaxAttempts'
<1>1. TypeOK /\ TypeOK' /\ UnreapedClaimIsSole
  BY CompensationTypeNext DEF CompensationInv
<1>2. ASSUME NEW i \in Rows, RecordFailed(i) PROVE Kept
  <2>1. /\ UNCHANGED <<attempts, threw, batch, reaped>> /\ status[i] = "ABSENT"
        /\ status' = [status EXCEPT ![i] = "PENDING"]
    BY <1>2 DEF RecordFailed
  <2>2. \A j \in Rows : status'[j] = IF j = i THEN "PENDING" ELSE status[j]
    BY <1>1, <2>1 DEF TypeOK
  <2>3. \A j \in Rows \ reaped' : Holders(j)' # {} => status'[j] = status[j]
    BY <1>1, <2>1, <2>2, RowIsHeld
  <2> QED
    BY <2>1, <2>2, <2>3, RestKeepsClaims
<1>3. ASSUME NEW p \in Reapers, Poll(p) PROVE Kept
  <2>1. /\ UNCHANGED <<attempts, threw>>
        /\ \A i \in Rows : status'[i] = "FAILED_DLQ" => status[i] = "FAILED_DLQ"
    BY <1>3 DEF Poll
  <2>2. GivenUpOnlyAfterMaxAttempts'
    BY <2>1 DEF CompensationInv, GivenUpOnlyAfterMaxAttempts
  <2> QED
    BY <1>3, <2>2, PollKeepsClaims
<1>4. ASSUME NEW p \in Reapers, Fetch(p) PROVE Kept
  <2>1. GivenUpOnlyAfterMaxAttempts'
    BY <1>4 DEF Fetch, CompensationInv, GivenUpOnlyAfterMaxAttempts
  <2> QED
    BY <1>4, <2>1, FetchKeepsClaims
<1>5. ASSUME \/ \E p \in Reapers : \/ FetchThrows(p) \/ Crash(p) \/ Restart(p)
                                  \/ \E c \in batch[p] : MarkFailedThrows(p, c)
             \/ \E i \in Rows : ClaimAges(i)
             \/ NoRow /\ (Fault \/ UNCHANGED faults)
      PROVE  Kept
  <2>1. UNCHANGED <<status, attempts, threw, reaped>>
    BY <1>5 DEF FetchThrows, Crash, Restart, MarkFailedThrows, ClaimAges, NoRow
  <2>2. \A q \in Reapers : batch'[q] \subseteq batch[q]
    BY <1>1, <1>5 DEF FetchThrows, Crash, Restart, MarkFailedThrows, ClaimAges, NoRow, TypeOK
  <2> QED
    BY <2>1, <2>2, RestKeepsClaims
<1>6. ASSUME ReapStale PROVE Kept
  <2>1. /\ UNCHANGED <<attempts, threw, batch>> /\ reaped' = reaped \cup stale
        /\ \A i \in Rows : status'[i] = IF i \in stale THEN "PENDING" ELSE status[i]
    BY <1>6 DEF ReapStale
  <2> QED
    BY <2>1, RestKeepsClaims
<1>7. ASSUME Purge PROVE Kept
  <2>1. /\ UNCHANGED <<attempts, threw, batch, reaped>>
        /\ \A i \in Rows : \/ status'[i] = status[i]
                           \/ status'[i] = "PURGED" /\ Holders(i)' = {}
    BY <1>7 DEF Purge, Holders
  <2> QED
    BY <2>1, RestKeepsClaims
<1>8. Kept
  BY <1>2, <1>3, <1>4, <1>5, <1>6, <1>7, RunKeepsClaims, MarkKeepsClaims
     DEF ReaperStep, Next, Background, MarkThrows
<1> QED
  BY <1>1, <1>8 DEF CompensationInv

LEMMA CompensationInit == Init => CompensationInv
<1> SUFFICES ASSUME Init PROVE CompensationInv
  OBVIOUS
<1>1. OneClaimPerRow /\ UnreapedClaimIsSole /\ ClaimantsKnowLess
  BY DEF Init, OneClaimPerRow, UnreapedClaimIsSole, Holders, ClaimantsKnowLess
<1>2. GivenUpOnlyAfterMaxAttempts
  BY DEF Init, GivenUpOnlyAfterMaxAttempts
<1> QED
  BY <1>1, <1>2, CompensationTypeInit DEF CompensationInv

LEMMA CompensationIsSafe == Spec => []CompensationInv
<1>1. CompensationInv /\ [Next]_cvars => CompensationInv'
  <2>1. UNCHANGED cvars => ReaperStep
    BY DEF cvars, ReaperStep, NoRow
  <2> QED
    BY <2>1, CompensationNext DEF ReaperStep
<1> QED
  BY <1>1, CompensationInit, PTL DEF Spec

LEMMA SoleClaimIsExclusive == UnreapedClaimIsSole => ClaimIsExclusive
<1> SUFFICES ASSUME UnreapedClaimIsSole, NEW i \in Rows, i \notin reaped
             PROVE  ~(Cardinality(Holders(i)) > 1)
  BY DEF ClaimIsExclusive
<1>1. CASE Holders(i) = {}
  BY <1>1, FS_EmptySet
<1>2. CASE Holders(i) # {}
  <2>1. PICK p \in Holders(i) : Holders(i) = {p}
    BY <1>2 DEF UnreapedClaimIsSole
  <2>2. Cardinality({p}) = 1
    BY FS_Singleton
  <2> QED
    BY <2>1, <2>2
<1> QED
  BY <1>1, <1>2

\* ClaimIsExclusive: FOR UPDATE SKIP LOCKED and the claim's status keep a row with
\* one replica until its claim has timed out.
THEOREM ClaimsSafe == Spec => []ClaimIsExclusive
<1>1. CompensationInv => ClaimIsExclusive
  BY SoleClaimIsExclusive DEF CompensationInv
<1> QED
  BY <1>1, CompensationIsSafe, PTL

\* GivenUpOnlyAfterMaxAttempts: however many claimants write the counter they read,
\* it never passes the tries that failed, so no row is given up early.
THEOREM GivingUpSafe == Spec => []GivenUpOnlyAfterMaxAttempts
<1>1. CompensationInv => GivenUpOnlyAfterMaxAttempts
  BY DEF CompensationInv
<1> QED
  BY <1>1, CompensationIsSafe, PTL

-------------------------------------------------------------------------------
(* Provisioning: the invariant *)

CancelRow(g) == <<g, "cancel-provisioned-user">>
ArchiveRow(g) == <<g, "archive-org">>

AtMostOne(S) == \A x, y \in S : x = y

ProvisionTypes ==
  /\ TypeOK
  /\ claim \subseteq Attempts /\ AtMostOne(claim)
  /\ pc \in [Attempts -> {"start", "done", "failed", "dead"} \cup Handling]
  /\ account \in [Attempts -> {"none", "active", "cancelled"}]
  /\ record \subseteq {u \in Attempts : account[u] = "active"} /\ AtMostOne(record)
  /\ owner \in [Attempts -> SUBSET Attempts]
  /\ \A g \in Attempts : AtMostOne(owner[g])
  /\ org \in [Attempts -> {"none", "live", "archived"}]
  /\ lost \subseteq Attempts
  /\ dropped \subseteq Rows

\* An attempt that is served has the key.
KeyIsClaimed == \A g \in Attempts : pc[g] \in Handling => claim = {g}

NothingDone(g) ==
  /\ pc[g] \in {"start", "provision"} => owner[g] = {} /\ account[g] = "none"
  /\ pc[g] \in {"start", "provision", "create"} =>
       /\ org[g] = "none"
       /\ status[CancelRow(g)] = "ABSENT" /\ status[ArchiveRow(g)] = "ABSENT"

OwnersExist == \A g \in Attempts : \A u \in owner[g] : account[u] # "none"

ClaimsAreOnRecord == \A p \in Reapers : \A c \in batch[p] : status[c.row] # "ABSENT"

Undone(row) ==
  IF row[2] = "archive-org" THEN org[row[1]] = "archived"
  ELSE \A u \in owner[row[1]] : account[u] = "cancelled"

\* What a runner came back from is undone, whoever undid it, and stays undone.
RanMeansUndone ==
  /\ \A p \in Reapers : \A c \in batch[p] : c.phase = "ran" => Undone(c.row)
  /\ \A row \in Rows : status[row] \in {"DONE", "PURGED"} => Undone(row)

\* Why the saga of g may have cancelled the owner of an organisation it left alive.
Excused(g) == g \in lost \/ status[ArchiveRow(g)] # "ABSENT" \/ ArchiveRow(g) \in dropped

KeptOrgIsExcused(g) ==
  /\ org[g] = "live"
  /\ \/ pc[g] \in {"cancel", "record cancel", "fail", "failed"}
     \/ status[CancelRow(g)] # "ABSENT"
  => Excused(g)

\* Why the saga of another attempt may have cancelled it.
Crossed(g) ==
  \E h \in Attempts \ {g} :
    owner[h] = owner[g] /\ (KeyExpired(g) \/ status[CancelRow(h)] # "ABSENT")

LostOwnerHasACause(g) ==
  (org[g] = "live" \/ pc[g] = "create") /\ (\E u \in owner[g] : account[u] = "cancelled")
    => Excused(g) \/ Crossed(g)

LeftAccountIsRecorded(g) ==
  pc[g] \in {"fail", "failed"} /\ (\E u \in owner[g] : account[u] = "active")
    => status[CancelRow(g)] # "ABSENT" \/ CancelRow(g) \in dropped

AttemptInv(g) ==
  /\ NothingDone(g)
  /\ KeptOrgIsExcused(g)
  /\ LostOwnerHasACause(g)
  /\ LeftAccountIsRecorded(g)

ProvisionInv ==
  /\ ProvisionTypes
  /\ KeyIsClaimed
  /\ OwnersExist
  /\ ClaimsAreOnRecord
  /\ RanMeansUndone
  /\ \A g \in Attempts : AttemptInv(g)

LEMMA RowsOfAttempts ==
  ASSUME NEW g \in Attempts
  PROVE  CancelRow(g) \in Rows /\ ArchiveRow(g) \in Rows /\ CancelRow(g) # ArchiveRow(g)
  BY ProvisionAssumption DEF CancelRow, ArchiveRow, Undoings

LEMMA RowParts ==
  ASSUME NEW row \in Rows
  PROVE  /\ row[1] \in Attempts
         /\ row = CancelRow(row[1]) \/ row = ArchiveRow(row[1])
         /\ row[2] = "archive-org" <=> row = ArchiveRow(row[1])
  BY ProvisionAssumption DEF CancelRow, ArchiveRow, Undoings

-------------------------------------------------------------------------------
(* Provisioning: types *)

LEMMA ProvisionTypeInit == ProvisionInit => ProvisionTypes
  BY CompensationTypeInit DEF ProvisionInit, ProvisionTypes, AtMostOne

\* The saga's steps do to the rows what somebody outside the reaper may do.
LEMMA SagaOnRows ==
  ASSUME NEW g \in Attempts, Saga(g)
  PROVE  ReaperStep
<1>1. ASSUME UNCHANGED cvars PROVE ReaperStep
  BY <1>1 DEF cvars, ReaperStep, NoRow
<1>2. ASSUME NEW row \in Rows, Record(row) PROVE ReaperStep
  BY <1>2 DEF Record, ReaperStep, Next
<1>3. CASE StartAttempt(g) \/ ClaimExpires(g)
  BY <1>1, <1>3 DEF StartAttempt, ClaimExpires
<1>4. CASE ProvisionUser(g) \/ DispatchCreateOrg(g) \/ Return(g) \/ Fail(g)
  BY <1>4 DEF ProvisionUser, DispatchCreateOrg, Return, Fail, ReaperStep
<1>5. CASE CompensateOrg(g) \/ CompensateUser(g)
  BY <1>5 DEF CompensateOrg, CompensateUser, ReaperStep
<1>6. CASE RecordOrg(g) \/ RecordUser(g)
  BY <1>2, <1>6, RowsOfAttempts DEF RecordOrg, RecordUser, CancelRow, ArchiveRow
<1> QED
  BY <1>3, <1>4, <1>5, <1>6 DEF Saga

LEMMA ReaperOnRows ==
  ASSUME NEW p \in Reapers, Reaper(p) \/ CrashReplica(p)
  PROVE  ReaperStep
<1>1. CASE CrashReplica(p)
  BY <1>1 DEF CrashReplica, ReaperStep, Next
<1>2. CASE Reaper(p)
  BY <1>2 DEF Reaper, RunUndoing, ReaperStep, Next
<1> QED
  BY <1>1, <1>2

LEMMA ProvisionOnRows == [ProvisionNext]_pvars => ReaperStep
<1>1. ASSUME UNCHANGED pvars PROVE ReaperStep
  BY <1>1 DEF pvars, cvars, ReaperStep, NoRow
<1>2. ASSUME Background PROVE ReaperStep
  BY <1>2 DEF ReaperStep, Next
<1> QED
  BY <1>1, <1>2, SagaOnRows, ReaperOnRows DEF ProvisionNext

LEMMA CancelTypes ==
  ASSUME ProvisionTypes, NEW g \in Attempts, CancelAccount(g)
  PROVE  /\ account' \in [Attempts -> {"none", "active", "cancelled"}]
         /\ record' \subseteq {u \in Attempts : account'[u] = "active"} /\ AtMostOne(record')
  BY DEF CancelAccount, ProvisionTypes, AtMostOne

LEMMA GotoMoves ==
  ASSUME ProvisionTypes, NEW g \in Attempts,
         NEW stage \in {"start", "done", "failed", "dead"} \cup Handling, Goto(g, stage)
  PROVE  /\ pc' \in [Attempts -> {"start", "done", "failed", "dead"} \cup Handling]
         /\ pc'[g] = stage
         /\ \A h \in Attempts \ {g} : pc'[h] = pc[h]
  BY DEF Goto, ProvisionTypes

LEMMA ProvisionTypeNext ==
  ASSUME ProvisionTypes, [ProvisionNext]_pvars
  PROVE  ProvisionTypes'
<1>1. TypeOK'
  BY CompensationTypeNext, ProvisionOnRows DEF ProvisionTypes
<1>2. ASSUME NEW g \in Attempts, StartAttempt(g) \/ Fail(g) \/ ClaimExpires(g) PROVE ProvisionTypes'
  <2>1. /\ claim' \in {claim, {g}, {}} /\ UNCHANGED <<account, record, owner, org, lost, dropped>>
        /\ pc' \in [Attempts -> {"start", "done", "failed", "dead"} \cup Handling]
    <3>1. CASE StartAttempt(g)
      BY <3>1 DEF StartAttempt, Goto, ProvisionTypes, Handling
    <3>2. CASE Fail(g)
      BY <3>2 DEF Fail, Goto, ProvisionTypes
    <3>3. CASE ClaimExpires(g)
      BY <3>3 DEF ClaimExpires, ProvisionTypes
    <3> QED
      BY <1>2, <3>1, <3>2, <3>3
  <2> QED
    BY <1>1, <2>1 DEF ProvisionTypes, AtMostOne
<1>3. ASSUME NEW g \in Attempts, ProvisionUser(g) PROVE ProvisionTypes'
  <2>1. ASSUME NewAccount(g)
        PROVE  /\ account' \in [Attempts -> {"none", "active", "cancelled"}]
               /\ record' \subseteq {u \in Attempts : account'[u] = "active"} /\ AtMostOne(record')
               /\ [owner EXCEPT ![g] = Given(g)] \in [Attempts -> SUBSET Attempts]
               /\ \A h \in Attempts : AtMostOne([owner EXCEPT ![g] = Given(g)][h])
    BY <2>1 DEF NewAccount, Given, ProvisionTypes, AtMostOne
  <2>2. /\ UNCHANGED <<claim, org, lost, dropped>>
        /\ pc' \in [Attempts -> {"start", "done", "failed", "dead"} \cup Handling]
        /\ \/ NewAccount(g) /\ owner' \in {owner, [owner EXCEPT ![g] = Given(g)]}
           \/ UNCHANGED <<account, record, owner>>
    BY <1>3 DEF ProvisionUser, Goto, ProvisionTypes, Handling
  <2> QED
    BY <1>1, <2>1, <2>2 DEF ProvisionTypes
<1>4. ASSUME NEW g \in Attempts, DispatchCreateOrg(g) \/ Return(g) \/ CompensateOrg(g)
      PROVE  ProvisionTypes'
  <2>1. /\ UNCHANGED <<claim, account, record, owner, dropped>>
        /\ pc' \in [Attempts -> {"start", "done", "failed", "dead"} \cup Handling]
        /\ org' \in [Attempts -> {"none", "live", "archived"}]
        /\ lost' \subseteq Attempts
    <3>1. CreateOrg(g) \/ ArchiveOrg(g) \/ UNCHANGED org
            => org' \in [Attempts -> {"none", "live", "archived"}]
      BY DEF CreateOrg, ArchiveOrg, ProvisionTypes
    <3>2. lost' = lost \/ lost' = lost \cup {g} => lost' \subseteq Attempts
      BY DEF ProvisionTypes
    <3>3. \E stage \in {"done"} \cup Handling : Goto(g, stage)
      BY <1>4 DEF DispatchCreateOrg, Return, CompensateOrg, Handling
    <3>4. /\ UNCHANGED <<claim, account, record, owner, dropped>>
          /\ CreateOrg(g) \/ ArchiveOrg(g) \/ UNCHANGED org
          /\ lost' = lost \/ lost' = lost \cup {g}
      BY <1>4 DEF DispatchCreateOrg, Return, CompensateOrg
    <3> QED
      BY <3>1, <3>2, <3>3, <3>4, GotoMoves
  <2> QED
    BY <1>1, <2>1 DEF ProvisionTypes
<1>5. ASSUME NEW g \in Attempts, CompensateUser(g) PROVE ProvisionTypes'
  <2>1. /\ UNCHANGED <<claim, owner, org, lost, dropped>>
        /\ pc' \in [Attempts -> {"start", "done", "failed", "dead"} \cup Handling]
        /\ CancelAccount(g) \/ UNCHANGED <<account, record>>
    BY <1>5, GotoMoves DEF CompensateUser, Handling
  <2> QED
    BY <1>1, <2>1, CancelTypes DEF ProvisionTypes
<1>6. ASSUME NEW g \in Attempts, RecordOrg(g) \/ RecordUser(g) PROVE ProvisionTypes'
  BY <1>1, <1>6, RowsOfAttempts
     DEF RecordOrg, RecordUser, Record, Goto, ProvisionTypes, Handling, CancelRow, ArchiveRow
<1>7. ASSUME NEW p \in Reapers, NEW c \in batch[p], RunUndoing(p, c) PROVE ProvisionTypes'
  <2>1. c.row \in Rows /\ c.row[1] \in Attempts
    BY RowParts DEF ProvisionTypes, TypeOK, Claim
  <2>2. /\ UNCHANGED <<claim, pc, owner, lost, dropped>>
        /\ (CancelAccount(c.row[1]) /\ UNCHANGED org) \/ UNCHANGED <<account, record>>
        /\ ArchiveOrg(c.row[1]) \/ UNCHANGED org
    BY <1>7 DEF RunUndoing, Undo
  <2>3. org' \in [Attempts -> {"none", "live", "archived"}]
    BY <2>1, <2>2 DEF ArchiveOrg, ProvisionTypes
  <2> QED
    BY <1>1, <2>1, <2>2, <2>3, CancelTypes DEF ProvisionTypes
<1>8. ASSUME NEW p \in Reapers, CrashReplica(p) PROVE ProvisionTypes'
  BY <1>1, <1>8 DEF CrashReplica, ProvisionTypes
<1>9. ASSUME UNCHANGED saga PROVE ProvisionTypes'
  BY <1>1, <1>9 DEF saga, ProvisionTypes
<1> QED
  BY <1>2, <1>3, <1>4, <1>5, <1>6, <1>7, <1>8, <1>9
     DEF ProvisionNext, Saga, Reaper, pvars, saga

-------------------------------------------------------------------------------
(* Provisioning: the steps of a saga *)

\* A step of one attempt's saga: what it leaves of the others, and of the claims.
LEMMA SagaFrame ==
  ASSUME ProvisionTypes, NEW g \in Attempts, Saga(g)
  PROVE  /\ batch' = batch /\ lost \subseteq lost' /\ dropped \subseteq dropped'
         /\ claim' \in {claim, {g}, {}}
         /\ \A h \in Attempts \ {g} : pc'[h] = pc[h] /\ owner'[h] = owner[h] /\ org'[h] = org[h]
         /\ \A row \in Rows :
              \/ status'[row] = status[row]
              \/ /\ status'[row] = "PENDING"
                 /\ pc[g] \in {"record archive", "record cancel"}
                 /\ row \in {ArchiveRow(g), CancelRow(g)}
<1>1. CASE StartAttempt(g) \/ Fail(g) \/ ClaimExpires(g)
  BY <1>1 DEF StartAttempt, Fail, ClaimExpires, Goto, NoRow, cvars, ProvisionTypes
<1>2. CASE ProvisionUser(g) \/ DispatchCreateOrg(g) \/ Return(g)
  BY <1>2 DEF ProvisionUser, DispatchCreateOrg, CreateOrg, Return, Goto, NoRow, ProvisionTypes
<1>3. CASE CompensateOrg(g) \/ CompensateUser(g)
  <2>1. CASE CompensateOrg(g)
    BY <2>1 DEF CompensateOrg, ArchiveOrg, Goto, NoRow, ProvisionTypes
  <2>2. CASE CompensateUser(g)
    BY <2>2 DEF CompensateUser, Goto, NoRow, ProvisionTypes
  <2> QED
    BY <1>3, <2>1, <2>2
<1>4. CASE RecordOrg(g) \/ RecordUser(g)
  <2>1. ASSUME NEW row \in Rows, Record(row)
        PROVE  /\ batch' = batch /\ dropped \subseteq dropped'
               /\ \A i \in Rows : status'[i] = status[i] \/ (i = row /\ status'[i] = "PENDING")
    BY <2>1 DEF Record, RecordFailed, NoRow, ProvisionTypes, TypeOK
  <2>2. /\ UNCHANGED <<claim, owner, org, lost>>
        /\ \A h \in Attempts \ {g} : pc'[h] = pc[h]
        /\ \E row \in {ArchiveRow(g), CancelRow(g)} : Record(row)
        /\ pc[g] \in {"record archive", "record cancel"}
    BY <1>4, GotoMoves DEF RecordOrg, RecordUser, ArchiveRow, CancelRow, Handling
  <2> QED
    BY <2>1, <2>2, RowsOfAttempts DEF ArchiveRow, CancelRow
<1> QED
  BY <1>1, <1>2, <1>3, <1>4 DEF Saga

\* Recorded is recorded, and reasons stay reasons.
LEMMA CausesStay ==
  ASSUME ProvisionInv, NEW g \in Attempts,
         lost \subseteq lost', dropped \subseteq dropped',
         \A row \in Rows : status[row] # "ABSENT" => status'[row] # "ABSENT",
         \A h \in Attempts : owner[h] # {} => owner'[h] = owner[h],
         KeyExpired(g) => KeyExpired(g)'
  PROVE  /\ Excused(g) => Excused(g)'
         /\ Crossed(g) /\ owner[g] # {} => Crossed(g)'
<1>1. Excused(g) => Excused(g)'
  BY RowsOfAttempts DEF Excused, ArchiveRow
<1>2. ASSUME Crossed(g), owner[g] # {} PROVE Crossed(g)'
  <2>1. PICK h \in Attempts \ {g} :
          owner[h] = owner[g] /\ (KeyExpired(g) \/ status[CancelRow(h)] # "ABSENT")
    BY <1>2 DEF Crossed
  <2>2. owner'[h] = owner'[g]
    BY <1>2, <2>1
  <2>3. status[CancelRow(h)] # "ABSENT" => status'[CancelRow(h)] # "ABSENT"
    BY RowsOfAttempts
  <2> QED
    BY <2>1, <2>2, <2>3 DEF Crossed, CancelRow
<1> QED
  BY <1>1, <1>2

\* Accounts are created by the attempt they are named after, then only cancelled.
AccountsMove(g) ==
  \A u \in Attempts :
    \/ account'[u] = account[u]
    \/ u = g /\ pc[g] = "provision" /\ account'[u] = "active"
    \/ account[u] # "none" /\ account'[u] = "cancelled"

\* What one saga owes to the invariant; the rest follows from what it leaves alone.
LEMMA SagaKeeps ==
  ASSUME ProvisionInv, NEW g \in Attempts, Saga(g),
         ProvisionTypes', KeyIsClaimed',
         AccountsMove(g),
         owner'[g] = owner[g] \/ pc[g] = "provision",
         org'[g] = org[g] \/ org'[g] = "archived" \/ pc[g] = "create",
         \A u \in owner'[g] : account'[u] # "none",
         AttemptInv(g)',
         \A h \in Attempts \ {g} : \A u \in owner[h] :
           /\ account[u] # "cancelled" /\ account'[u] = "cancelled"
           /\ org[h] = "live" \/ pc[h] = "create"
           => Excused(h) \/ Crossed(h)'
  PROVE  ProvisionInv'
<1>1. /\ ProvisionTypes /\ OwnersExist /\ ClaimsAreOnRecord /\ RanMeansUndone
      /\ \A h \in Attempts : AttemptInv(h)
  BY DEF ProvisionInv
<1>2. /\ batch' = batch /\ lost \subseteq lost' /\ dropped \subseteq dropped'
      /\ claim' \in {claim, {g}, {}}
      /\ \A h \in Attempts \ {g} : pc'[h] = pc[h] /\ owner'[h] = owner[h] /\ org'[h] = org[h]
      /\ \A row \in Rows :
           \/ status'[row] = status[row]
           \/ /\ status'[row] = "PENDING"
              /\ pc[g] \in {"record archive", "record cancel"}
              /\ row \in {ArchiveRow(g), CancelRow(g)}
  BY <1>1, SagaFrame
<1>3. pc[g] \in {"start", "provision"} => owner[g] = {} /\ account[g] = "none"
  BY <1>1 DEF AttemptInv, NothingDone
<1>4. /\ owner \in [Attempts -> SUBSET Attempts]
      /\ \A h \in Attempts : owner[h] # {} => owner'[h] = owner[h]
  BY <1>1, <1>2, <1>3 DEF ProvisionTypes
<1>5. \A h \in Attempts : \A u \in owner[h] :
        /\ u \in Attempts /\ account[u] # "none"
        /\ account'[u] = account[u] \/ account'[u] = "cancelled"
  BY <1>1, <1>3, <1>4 DEF OwnersExist, AccountsMove
<1>6. OwnersExist'
  <2>1. \A h \in Attempts \ {g} : \A u \in owner'[h] : account'[u] # "none"
    BY <1>2, <1>5
  <2> QED
    BY <2>1 DEF OwnersExist
<1>7. \A row \in Rows : status[row] # "ABSENT" => status'[row] # "ABSENT"
  BY <1>2
<1>8. ClaimsAreOnRecord'
  <2>1. \A p \in Reapers : \A c \in batch[p] : c.row \in Rows
    BY <1>1 DEF ProvisionTypes, TypeOK, Claim
  <2> QED
    BY <1>1, <1>2, <1>7, <2>1 DEF ClaimsAreOnRecord
<1>9. RanMeansUndone'
  <2>1. ASSUME NEW row \in Rows, status[row] # "ABSENT", Undone(row) PROVE Undone(row)'
    <3>1. row[1] \in Attempts /\ (row = CancelRow(row[1]) \/ row = ArchiveRow(row[1]))
      BY RowParts
    <3>2. row[1] = g => pc[g] \notin {"start", "provision", "create"}
      BY <1>1, <2>1, <3>1 DEF AttemptInv, NothingDone
    <3>3. org[row[1]] = "archived" => org'[row[1]] = "archived"
      BY <1>2, <3>1, <3>2
    <3>4. owner'[row[1]] = owner[row[1]]
      <4>1. CASE row[1] = g
        BY <3>2, <4>1
      <4>2. CASE row[1] # g
        BY <1>2, <3>1, <4>2
      <4> QED
        BY <4>1, <4>2
    <3>5. \A u \in owner[row[1]] : account[u] = "cancelled" => account'[u] = "cancelled"
      BY <1>5, <3>1
    <3> QED
      BY <2>1, <3>3, <3>4, <3>5 DEF Undone
  <2>2. \A p \in Reapers : \A c \in batch[p] : c.row \in Rows /\ status[c.row] # "ABSENT"
    BY <1>1 DEF ClaimsAreOnRecord, ProvisionTypes, TypeOK, Claim
  <2>3. \A p \in Reapers : \A c \in batch[p] : c.phase = "ran" => Undone(c.row)'
    BY <1>1, <2>1, <2>2 DEF RanMeansUndone
  <2>4. \A row \in Rows : status'[row] \in {"DONE", "PURGED"} => Undone(row)'
    BY <1>1, <1>2, <2>1 DEF RanMeansUndone
  <2> QED
    BY <1>2, <2>3, <2>4 DEF RanMeansUndone, Undone
<1>10. ASSUME NEW h \in Attempts \ {g} PROVE AttemptInv(h)'
  <2>1. /\ pc'[h] = pc[h] /\ owner'[h] = owner[h] /\ org'[h] = org[h]
        /\ status'[CancelRow(h)] = status[CancelRow(h)]
        /\ status'[ArchiveRow(h)] = status[ArchiveRow(h)]
    BY <1>2, RowsOfAttempts DEF CancelRow, ArchiveRow
  <2>2. AttemptInv(h)
    BY <1>1
  <2>3. NothingDone(h)'
    BY <2>1, <2>2 DEF AttemptInv, NothingDone, AccountsMove, CancelRow, ArchiveRow
  <2>4. /\ Excused(h) => Excused(h)'
        /\ Crossed(h) /\ owner[h] # {} => Crossed(h)'
    <3>1. KeyExpired(h) => KeyExpired(h)'
      BY <1>2, <2>1 DEF KeyExpired
    <3> QED
      BY <1>2, <1>4, <1>7, <3>1, CausesStay
  <2>5. KeptOrgIsExcused(h)'
    BY <2>1, <2>2, <2>4 DEF AttemptInv, KeptOrgIsExcused, CancelRow
  <2>6. LostOwnerHasACause(h)'
    <3> SUFFICES ASSUME org[h] = "live" \/ pc[h] = "create",
                        NEW u \in owner[h], account'[u] = "cancelled"
                 PROVE  Excused(h)' \/ Crossed(h)'
      BY <2>1 DEF LostOwnerHasACause
    <3>1. CASE account[u] = "cancelled"
      BY <2>2, <2>4, <3>1 DEF AttemptInv, LostOwnerHasACause
    <3>2. CASE account[u] # "cancelled"
      BY <2>4, <3>2
    <3> QED
      BY <3>1, <3>2
  <2>7. LeftAccountIsRecorded(h)'
    BY <1>2, <1>5, <2>1, <2>2 DEF AttemptInv, LeftAccountIsRecorded, CancelRow
  <2> QED
    BY <2>3, <2>5, <2>6, <2>7 DEF AttemptInv
<1> QED
  BY <1>6, <1>8, <1>9, <1>10 DEF ProvisionInv

LEMMA StartKeeps ==
  ASSUME ProvisionInv, ProvisionTypes', NEW g \in Attempts, StartAttempt(g)
  PROVE  ProvisionInv'
<1>1. ProvisionTypes /\ KeyIsClaimed /\ OwnersExist /\ AttemptInv(g)
  BY DEF ProvisionInv
<1>2. /\ pc[g] = "start" /\ claim = {} /\ claim' = {g}
      /\ pc'[g] = "provision" /\ \A h \in Attempts \ {g} : pc'[h] = pc[h]
      /\ UNCHANGED <<status, account, owner, org, lost, dropped>>
  BY <1>1 DEF StartAttempt, Goto, cvars, ProvisionTypes
<1>3. KeyIsClaimed'
  BY <1>1, <1>2 DEF KeyIsClaimed
<1>4. AttemptInv(g)'
  BY <1>1, <1>2 DEF AttemptInv, NothingDone, KeptOrgIsExcused, LostOwnerHasACause,
                    LeftAccountIsRecorded, CancelRow, ArchiveRow
<1> QED
  BY <1>1, <1>2, <1>3, <1>4, SagaKeeps DEF Saga, AccountsMove, OwnersExist

LEMMA ProvisionUserKeeps ==
  ASSUME ProvisionInv, ProvisionTypes', NEW g \in Attempts, ProvisionUser(g)
  PROVE  ProvisionInv'
<1>1. ProvisionTypes /\ KeyIsClaimed /\ OwnersExist /\ AttemptInv(g)
  BY DEF ProvisionInv
<1>2. /\ pc[g] = "provision" /\ claim' = claim
      /\ \A h \in Attempts \ {g} : pc'[h] = pc[h]
      /\ UNCHANGED <<status, org, lost, dropped>>
      /\ \/ NewAccount(g) /\ owner'[g] = Given(g) /\ pc'[g] = "create"
         \/ UNCHANGED <<account, owner>> /\ pc'[g] = "fail"
         \/ NewAccount(g) /\ owner' = owner /\ pc'[g] = "fail"
  BY <1>1 DEF ProvisionUser, Goto, NoRow, ProvisionTypes
<1>3. KeyIsClaimed'
  BY <1>1, <1>2 DEF KeyIsClaimed, Handling
<1>4. owner[g] = {} /\ account[g] = "none" /\ org[g] = "none"
  BY <1>1, <1>2 DEF AttemptInv, NothingDone
<1>5. NewAccount(g) => /\ AccountsMove(g)
                       /\ \A u \in Given(g) : account'[u] = "active"
  BY <1>1, <1>2 DEF NewAccount, Given, AccountsMove, ProvisionTypes
<1>6. AccountsMove(g)
  BY <1>2, <1>5 DEF AccountsMove
<1>7. owner'[g] = {} \/ (pc'[g] = "create" /\ \A u \in owner'[g] : account'[u] = "active")
  BY <1>2, <1>4, <1>5
<1>8. AttemptInv(g)'
  <2>1. pc'[g] \in {"create", "fail"} /\ org'[g] = "none"
    BY <1>2, <1>4
  <2>2. NothingDone(g)'
    BY <1>1, <1>2, <2>1 DEF AttemptInv, NothingDone, CancelRow, ArchiveRow
  <2> QED
    BY <1>7, <2>1, <2>2 DEF AttemptInv, KeptOrgIsExcused, LostOwnerHasACause, LeftAccountIsRecorded
<1>9. \A u \in Attempts : account'[u] = "cancelled" => account[u] = "cancelled"
  BY <1>1, <1>2 DEF NewAccount, ProvisionTypes
<1>10. \A h \in Attempts \ {g} : owner[h] \subseteq Attempts
  BY <1>1 DEF ProvisionTypes
<1> QED
  BY <1>1, <1>2, <1>3, <1>6, <1>7, <1>8, <1>9, <1>10, SagaKeeps DEF Saga

LEMMA DispatchKeeps ==
  ASSUME ProvisionInv, ProvisionTypes', NEW g \in Attempts, DispatchCreateOrg(g)
  PROVE  ProvisionInv'
<1>1. ProvisionTypes /\ KeyIsClaimed /\ OwnersExist /\ AttemptInv(g)
  BY DEF ProvisionInv
<1>2. /\ pc[g] = "create" /\ claim' = claim
      /\ \A h \in Attempts \ {g} : pc'[h] = pc[h]
      /\ UNCHANGED <<status, account, owner, dropped>> /\ lost \subseteq lost'
      /\ \/ org'[g] = "live" /\ pc'[g] = "return"
         \/ org' = org /\ pc'[g] = "cancel"
         \/ g \in lost' /\ pc'[g] = "cancel"
  BY <1>1 DEF DispatchCreateOrg, CreateOrg, Goto, NoRow, ProvisionTypes
<1>3. KeyIsClaimed'
  BY <1>1, <1>2 DEF KeyIsClaimed, Handling
<1>4. org[g] = "none" /\ status[CancelRow(g)] = "ABSENT"
  BY <1>1, <1>2 DEF AttemptInv, NothingDone
<1>5. (Excused(g) => Excused(g)') /\ (Crossed(g) => Crossed(g)')
  BY <1>2 DEF Excused, Crossed, KeyExpired, ArchiveRow, CancelRow
<1>6. AttemptInv(g)'
  <2>1. NothingDone(g)' /\ LeftAccountIsRecorded(g)'
    BY <1>2 DEF NothingDone, LeftAccountIsRecorded
  <2>2. KeptOrgIsExcused(g)'
    BY <1>2, <1>4 DEF KeptOrgIsExcused, Excused, CancelRow
  <2>3. LostOwnerHasACause(g)'
    BY <1>1, <1>2, <1>5 DEF AttemptInv, LostOwnerHasACause
  <2> QED
    BY <2>1, <2>2, <2>3 DEF AttemptInv
<1> QED
  BY <1>1, <1>2, <1>3, <1>6, SagaKeeps DEF Saga, AccountsMove, OwnersExist

LEMMA ReturnKeeps ==
  ASSUME ProvisionInv, ProvisionTypes', NEW g \in Attempts, Return(g)
  PROVE  ProvisionInv'
<1>1. ProvisionTypes /\ KeyIsClaimed /\ OwnersExist /\ AttemptInv(g)
  BY DEF ProvisionInv
<1>2. /\ pc[g] = "return" /\ claim' = claim
      /\ pc'[g] \in {"done", "archive"} /\ \A h \in Attempts \ {g} : pc'[h] = pc[h]
      /\ UNCHANGED <<status, account, owner, org, lost, dropped>>
  BY <1>1 DEF Return, Goto, NoRow, ProvisionTypes
<1>3. KeyIsClaimed'
  BY <1>1, <1>2 DEF KeyIsClaimed, Handling
<1>4. (Excused(g) => Excused(g)') /\ (Crossed(g) => Crossed(g)')
  BY <1>2 DEF Excused, Crossed, KeyExpired, ArchiveRow, CancelRow
<1>5. AttemptInv(g)'
  <2>1. NothingDone(g)' /\ LeftAccountIsRecorded(g)'
    BY <1>2 DEF NothingDone, LeftAccountIsRecorded
  <2>2. KeptOrgIsExcused(g)' /\ LostOwnerHasACause(g)'
    BY <1>1, <1>2, <1>4 DEF AttemptInv, KeptOrgIsExcused, LostOwnerHasACause, CancelRow
  <2> QED
    BY <2>1, <2>2 DEF AttemptInv
<1> QED
  BY <1>1, <1>2, <1>3, <1>5, SagaKeeps DEF Saga, AccountsMove, OwnersExist

LEMMA EndKeeps ==
  ASSUME ProvisionInv, ProvisionTypes', NEW g \in Attempts, Fail(g) \/ ClaimExpires(g)
  PROVE  ProvisionInv'
<1>1. ProvisionTypes /\ KeyIsClaimed /\ OwnersExist /\ AttemptInv(g)
  BY DEF ProvisionInv
<1>2. /\ \/ pc[g] = "fail" /\ pc'[g] = "failed"
         \/ pc[g] \notin Handling /\ pc'[g] = pc[g] /\ claim = {g} /\ claim' = {}
      /\ claim' \in {claim, {}}
      /\ \A h \in Attempts \ {g} : pc'[h] = pc[h]
      /\ UNCHANGED <<status, account, owner, org, lost, dropped>>
  BY <1>1 DEF Fail, ClaimExpires, Goto, NoRow, cvars, ProvisionTypes
<1>3. \A h \in Attempts \ {g} : pc[h] \notin Handling
  BY <1>1, <1>2 DEF KeyIsClaimed, Handling
<1>4. KeyIsClaimed'
  BY <1>2, <1>3 DEF KeyIsClaimed, Handling
<1>5. (Excused(g) => Excused(g)') /\ (Crossed(g) => Crossed(g)')
  BY <1>2 DEF Excused, Crossed, KeyExpired, ArchiveRow, CancelRow
<1>6. AttemptInv(g)'
  <2>1. NothingDone(g)'
    BY <1>1, <1>2 DEF AttemptInv, NothingDone, CancelRow, ArchiveRow
  <2>2. KeptOrgIsExcused(g)' /\ LostOwnerHasACause(g)' /\ LeftAccountIsRecorded(g)'
    BY <1>1, <1>2, <1>5
       DEF AttemptInv, KeptOrgIsExcused, LostOwnerHasACause, LeftAccountIsRecorded, CancelRow
  <2> QED
    BY <2>1, <2>2 DEF AttemptInv
<1> QED
  BY <1>1, <1>2, <1>4, <1>6, SagaKeeps DEF Saga, AccountsMove, OwnersExist

LEMMA CompensateOrgKeeps ==
  ASSUME ProvisionInv, ProvisionTypes', NEW g \in Attempts, CompensateOrg(g)
  PROVE  ProvisionInv'
<1>1. ProvisionTypes /\ KeyIsClaimed /\ OwnersExist /\ AttemptInv(g)
  BY DEF ProvisionInv
<1>2. /\ pc[g] = "archive" /\ claim' = claim
      /\ \A h \in Attempts \ {g} : pc'[h] = pc[h]
      /\ UNCHANGED <<status, account, owner, lost, dropped>>
      /\ \/ org'[g] = "archived" /\ pc'[g] = "cancel"
         \/ org'[g] \in {org[g], "archived"} /\ pc'[g] = "record archive"
  <2>1. /\ pc[g] = "archive" /\ UNCHANGED <<claim, status, account, owner, lost, dropped>>
        /\ \/ ArchiveOrg(g) /\ Goto(g, "cancel")
           \/ (ArchiveOrg(g) \/ UNCHANGED org) /\ Goto(g, "record archive")
    BY DEF CompensateOrg, NoRow
  <2>2. ArchiveOrg(g) => org'[g] = "archived"
    BY <1>1 DEF ArchiveOrg, ProvisionTypes
  <2>3. \A stage : Goto(g, stage) =>
          pc'[g] = stage /\ \A h \in Attempts \ {g} : pc'[h] = pc[h]
    BY <1>1 DEF Goto, ProvisionTypes
  <2> QED
    BY <2>1, <2>2, <2>3
<1>3. KeyIsClaimed'
  BY <1>1, <1>2 DEF KeyIsClaimed, Handling
<1>4. (Excused(g) => Excused(g)') /\ (Crossed(g) => Crossed(g)')
  BY <1>2 DEF Excused, Crossed, KeyExpired, ArchiveRow, CancelRow
<1>5. AttemptInv(g)'
  <2>1. NothingDone(g)' /\ LeftAccountIsRecorded(g)'
    BY <1>2 DEF NothingDone, LeftAccountIsRecorded
  <2>2. KeptOrgIsExcused(g)' /\ LostOwnerHasACause(g)'
    BY <1>1, <1>2, <1>4 DEF AttemptInv, KeptOrgIsExcused, LostOwnerHasACause, CancelRow
  <2> QED
    BY <2>1, <2>2 DEF AttemptInv
<1> QED
  BY <1>1, <1>2, <1>3, <1>5, SagaKeeps DEF Saga, AccountsMove, OwnersExist

\* The one step that can hurt somebody else: two attempts share an account only if
\* the other one is over by now; if it failed it is excused, and if it did not its
\* key has expired, for this one has it.
LEMMA CompensateUserKeeps ==
  ASSUME ProvisionInv, ProvisionTypes', NEW g \in Attempts, CompensateUser(g)
  PROVE  ProvisionInv'
<1>1. ProvisionTypes /\ KeyIsClaimed /\ OwnersExist /\ \A h \in Attempts : AttemptInv(h)
  BY DEF ProvisionInv
<1>2. /\ pc[g] = "cancel" /\ claim' = claim
      /\ \A h \in Attempts \ {g} : pc'[h] = pc[h]
      /\ UNCHANGED <<status, owner, org, lost, dropped>>
      /\ \/ CancelAccount(g) /\ pc'[g] = "fail"
         \/ (CancelAccount(g) \/ UNCHANGED account) /\ pc'[g] = "record cancel"
  <2>1. /\ pc[g] = "cancel" /\ UNCHANGED <<claim, status, owner, org, lost, dropped>>
        /\ \/ CancelAccount(g) /\ Goto(g, "fail")
           \/ (CancelAccount(g) \/ UNCHANGED account) /\ Goto(g, "record cancel")
    BY DEF CompensateUser, NoRow
  <2>2. \A stage : Goto(g, stage) =>
          pc'[g] = stage /\ \A h \in Attempts \ {g} : pc'[h] = pc[h]
    BY <1>1 DEF Goto, ProvisionTypes
  <2> QED
    BY <2>1, <2>2
<1>3. KeyIsClaimed' /\ claim = {g}
  BY <1>1, <1>2 DEF KeyIsClaimed, Handling
<1>4. \A u \in Attempts :
        account'[u] = account[u] \/ (u \in owner[g] /\ account'[u] = "cancelled")
  BY <1>2 DEF CancelAccount
<1>5. owner[g] \subseteq Attempts
  BY <1>1 DEF ProvisionTypes
<1>6. AccountsMove(g) /\ \A u \in owner'[g] : account'[u] # "none"
  BY <1>1, <1>2, <1>4, <1>5 DEF AccountsMove, OwnersExist
<1>7. (Excused(g) => Excused(g)') /\ (Crossed(g) => Crossed(g)')
  BY <1>2 DEF Excused, Crossed, KeyExpired, ArchiveRow, CancelRow
<1>8. AttemptInv(g)'
  <2>1. NothingDone(g)'
    BY <1>2 DEF NothingDone
  <2>2. KeptOrgIsExcused(g)' /\ LostOwnerHasACause(g)'
    BY <1>1, <1>2, <1>7 DEF AttemptInv, KeptOrgIsExcused, LostOwnerHasACause, CancelRow
  <2>3. LeftAccountIsRecorded(g)'
    BY <1>2, <1>5 DEF LeftAccountIsRecorded, CancelAccount
  <2> QED
    BY <2>1, <2>2, <2>3 DEF AttemptInv
<1>9. ASSUME NEW h \in Attempts \ {g}, NEW u \in owner[h],
             account[u] # "cancelled", account'[u] = "cancelled",
             org[h] = "live" \/ pc[h] = "create"
      PROVE  Excused(h) \/ Crossed(h)'
  <2>1. u \in Attempts /\ u \in owner[g]
    BY <1>1, <1>4, <1>9 DEF ProvisionTypes
  <2>2. owner[h] = owner[g]
    <3>1. AtMostOne(owner[h]) /\ AtMostOne(owner[g])
      BY <1>1 DEF ProvisionTypes
    <3>2. owner[h] = {u} /\ owner[g] = {u}
      BY <2>1, <3>1 DEF AtMostOne
    <3> QED
      BY <3>2
  <2>3. pc[h] \in {"done", "failed", "dead"}
    <3>1. pc[h] \notin Handling
      BY <1>1, <1>3 DEF KeyIsClaimed
    <3>2. pc[h] # "start"
      BY <1>1 DEF AttemptInv, NothingDone
    <3> QED
      BY <1>1, <3>1, <3>2 DEF ProvisionTypes
  <2>4. CASE pc[h] = "failed"
    BY <1>1, <1>9, <2>4 DEF AttemptInv, KeptOrgIsExcused
  <2>5. CASE pc[h] \in {"done", "dead"}
    <3>1. KeyExpired(h)'
      BY <1>2, <1>3, <2>5 DEF KeyExpired
    <3> QED
      BY <1>2, <2>2, <3>1 DEF Crossed
  <2> QED
    BY <2>3, <2>4, <2>5
<1> QED
  BY <1>2, <1>3, <1>6, <1>8, <1>9, SagaKeeps DEF Saga

LEMMA RecordKeeps ==
  ASSUME ProvisionInv, ProvisionTypes', NEW g \in Attempts, RecordOrg(g) \/ RecordUser(g)
  PROVE  ProvisionInv'
<1>1. ProvisionTypes /\ KeyIsClaimed /\ OwnersExist /\ AttemptInv(g)
  BY DEF ProvisionInv
<1>2. /\ claim' = claim
      /\ \A h \in Attempts \ {g} : pc'[h] = pc[h]
      /\ UNCHANGED <<account, owner, org, lost>> /\ dropped \subseteq dropped'
      /\ \/ /\ pc[g] = "record archive" /\ pc'[g] = "cancel"
            /\ status'[ArchiveRow(g)] # "ABSENT" \/ ArchiveRow(g) \in dropped'
         \/ /\ pc[g] = "record cancel" /\ pc'[g] = "fail"
            /\ status'[CancelRow(g)] # "ABSENT" \/ CancelRow(g) \in dropped'
  <2>1. ASSUME NEW row \in Rows, Record(row)
        PROVE  dropped \subseteq dropped' /\ (status'[row] # "ABSENT" \/ row \in dropped')
    BY <1>1, <2>1 DEF Record, RecordFailed, ProvisionTypes, TypeOK
  <2>2. CASE RecordOrg(g)
    <3>1. Record(ArchiveRow(g))
      BY <2>2 DEF RecordOrg, ArchiveRow
    <3> QED
      BY <1>1, <2>1, <2>2, <3>1, RowsOfAttempts DEF RecordOrg, Goto, ProvisionTypes
  <2>3. CASE RecordUser(g)
    <3>1. Record(CancelRow(g))
      BY <2>3 DEF RecordUser, CancelRow
    <3> QED
      BY <1>1, <2>1, <2>3, <3>1, RowsOfAttempts DEF RecordUser, Goto, ProvisionTypes
  <2> QED
    BY <2>2, <2>3
<1>3. KeyIsClaimed'
  BY <1>1, <1>2 DEF KeyIsClaimed, Handling
<1>4. /\ lost \subseteq lost' /\ dropped \subseteq dropped'
      /\ \A row \in Rows : status[row] # "ABSENT" => status'[row] # "ABSENT"
  BY <1>1, SagaFrame DEF Saga
<1>5. Excused(g) => Excused(g)'
  BY <1>4, RowsOfAttempts DEF Excused, ArchiveRow
<1>6. Excused(g)' \/ org[g] # "live"
  BY <1>1, <1>2, <1>5 DEF AttemptInv, KeptOrgIsExcused, Excused, ArchiveRow
<1>7. AttemptInv(g)'
  <2>1. NothingDone(g)' /\ KeptOrgIsExcused(g)' /\ LostOwnerHasACause(g)'
    BY <1>2, <1>6 DEF NothingDone, KeptOrgIsExcused, LostOwnerHasACause
  <2>2. LeftAccountIsRecorded(g)'
    BY <1>2 DEF LeftAccountIsRecorded, CancelRow
  <2> QED
    BY <2>1, <2>2 DEF AttemptInv
<1> QED
  BY <1>1, <1>2, <1>3, <1>7, SagaKeeps DEF Saga, AccountsMove, OwnersExist

LEMMA SagaStepKeeps ==
  ASSUME ProvisionInv, ProvisionTypes', NEW g \in Attempts, Saga(g)
  PROVE  ProvisionInv'
  BY StartKeeps, ProvisionUserKeeps, DispatchKeeps, ReturnKeeps, EndKeeps, CompensateOrgKeeps,
     CompensateUserKeeps, RecordKeeps DEF Saga

-------------------------------------------------------------------------------
(* Provisioning: the jobs of a replica *)

\* What the jobs leave of the rows and claims, whoever does them.
LEMMA JobsOnRows ==
  ASSUME TypeOK, ClaimsAreOnRecord,
         \/ \E p \in Reapers :
              \/ Poll(p) \/ Fetch(p) \/ FetchThrows(p) \/ Crash(p) \/ Restart(p)
              \/ \E c \in batch[p] : Run(p, c, "threw") \/ Mark(p, c) \/ MarkThrows(p, c)
         \/ Background
  PROVE  /\ \A row \in Rows : status'[row] = "ABSENT" <=> status[row] = "ABSENT"
         /\ \A row \in Rows : status'[row] \in {"DONE", "PURGED"} =>
              \/ status[row] \in {"DONE", "PURGED"}
              \/ \E p \in Reapers : \E c \in batch[p] : c.row = row /\ c.phase = "ran"
         /\ \A p \in Reapers : \A d \in batch'[p] :
              /\ status'[d.row] # "ABSENT"
              /\ d.phase = "ran" => \E c \in batch[p] : c.row = d.row /\ c.phase = "ran"
<1> DEFINE Rowwise ==
             /\ \A row \in Rows : status'[row] = "ABSENT" <=> status[row] = "ABSENT"
             /\ \A row \in Rows : status'[row] \in {"DONE", "PURGED"} =>
                  \/ status[row] \in {"DONE", "PURGED"}
                  \/ \E p \in Reapers : \E c \in batch[p] : c.row = row /\ c.phase = "ran"
           Claimwise ==
             \A p \in Reapers : \A d \in batch'[p] :
               /\ d.row \in Rows /\ status[d.row] # "ABSENT"
               /\ d.phase = "ran" => \E c \in batch[p] : c.row = d.row /\ c.phase = "ran"
<1>1. \A p \in Reapers : \A c \in batch[p] : c \in Claim /\ c.row \in Rows /\ status[c.row] # "ABSENT"
  BY DEF ClaimsAreOnRecord, TypeOK, Claim
<1>2. ASSUME NEW p \in Reapers, Poll(p) PROVE Rowwise /\ Claimwise
  <2>1. Rowwise
    BY <1>2 DEF Poll
  <2>2. Claimwise
    BY <1>1, <1>2 DEF Poll, TypeOK
  <2> QED
    BY <2>1, <2>2
<1>3. ASSUME NEW p \in Reapers, Fetch(p) PROVE Rowwise /\ Claimwise
  <2> DEFINE fetched(c) == [c EXCEPT !.attempts = attempts[c.row], !.phase = "fetched"]
  <2>1. \A c \in batch[p] : fetched(c).row = c.row /\ fetched(c).phase = "fetched"
    BY <1>1 DEF Claim
  <2>2. Claimwise
    <3>1. /\ batch'[p] = {fetched(c) : c \in batch[p]}
          /\ \A q \in Reapers \ {p} : batch'[q] = batch[q]
      BY <1>3 DEF Fetch, TypeOK
    <3> HIDE DEF fetched
    <3> QED
      BY <1>1, <2>1, <3>1
  <2> QED
    BY <1>3, <2>2 DEF Fetch
<1>4. ASSUME NEW p \in Reapers, NEW c \in batch[p], Run(p, c, "threw") \/ MarkProcessedThrows(p, c)
      PROVE  Rowwise /\ Claimwise
  <2>1. [c EXCEPT !.phase = "threw"].row = c.row /\ [c EXCEPT !.phase = "threw"].phase = "threw"
    BY <1>1 DEF Claim
  <2>2. /\ status' = status
        /\ batch' = [batch EXCEPT ![p] = (@ \ {c}) \cup {[c EXCEPT !.phase = "threw"]}]
    BY <1>4 DEF Run, MarkProcessedThrows
  <2>3. Claimwise
    BY <1>1, <2>1, <2>2 DEF TypeOK
  <2> QED
    BY <2>2, <2>3
<1>5. ASSUME NEW p \in Reapers, NEW c \in batch[p], Mark(p, c) PROVE Rowwise /\ Claimwise
  <2>1. Claimwise
    BY <1>1, <1>5 DEF Mark, MarkProcessed, MarkFailed, TypeOK
  <2>2. \A row \in Rows \ {c.row} : status'[row] = status[row]
    BY <1>5 DEF Mark, MarkProcessed, MarkFailed, SetStatus, TypeOK
  <2>3. status'[c.row] # "ABSENT" /\ status'[c.row] # "PURGED"
    BY <1>1, <1>5 DEF Mark, MarkProcessed, MarkFailed, SetStatus, TypeOK
  <2>4. status'[c.row] = "DONE" => c.phase = "ran"
    BY <1>1, <1>5 DEF Mark, MarkProcessed, MarkFailed, SetStatus, TypeOK
  <2> QED
    BY <1>1, <2>1, <2>2, <2>3, <2>4
<1>6. ASSUME \/ \E p \in Reapers : \/ FetchThrows(p) \/ Crash(p) \/ Restart(p)
                                  \/ \E c \in batch[p] : MarkFailedThrows(p, c)
             \/ \E i \in Rows : ClaimAges(i)
      PROVE  Rowwise /\ Claimwise
  <2>1. status' = status /\ \A p \in Reapers : batch'[p] \subseteq batch[p]
    BY <1>6 DEF FetchThrows, Crash, Restart, MarkFailedThrows, ClaimAges, TypeOK
  <2> QED
    BY <1>1, <2>1
<1>7. ASSUME ReapStale \/ Purge PROVE Rowwise /\ Claimwise
  <2>1. batch' = batch
    BY <1>7 DEF ReapStale, Purge
  <2>2. Rowwise
    BY <1>7 DEF ReapStale, Purge, TypeOK
  <2> QED
    BY <1>1, <2>1, <2>2
<1>8. Rowwise /\ Claimwise
  BY <1>2, <1>3, <1>4, <1>5, <1>6, <1>7 DEF Background, MarkThrows
<1> QED
  BY <1>8

\* Jobs of a replica that do not touch what the saga made, and its crash.
LEMMA JobsKeep ==
  ASSUME ProvisionInv, ProvisionTypes',
         \/ \E p \in Reapers :
              \/ Poll(p) \/ Fetch(p) \/ FetchThrows(p) \/ Crash(p) \/ Restart(p)
              \/ \E c \in batch[p] : Run(p, c, "threw") \/ Mark(p, c) \/ MarkThrows(p, c)
         \/ Background,
         UNCHANGED <<claim, account, owner, org, lost, dropped>>,
         \A g \in Attempts : pc'[g] = pc[g] \/ (pc[g] \in Handling /\ pc'[g] = "dead")
  PROVE  ProvisionInv'
<1>1. /\ ProvisionTypes /\ KeyIsClaimed /\ OwnersExist /\ ClaimsAreOnRecord /\ RanMeansUndone
      /\ \A g \in Attempts : AttemptInv(g)
  BY DEF ProvisionInv
<1>2. TypeOK
  BY <1>1 DEF ProvisionTypes
<1>3. /\ \A row \in Rows : status'[row] = "ABSENT" <=> status[row] = "ABSENT"
      /\ \A row \in Rows : status'[row] \in {"DONE", "PURGED"} =>
           \/ status[row] \in {"DONE", "PURGED"}
           \/ \E p \in Reapers : \E c \in batch[p] : c.row = row /\ c.phase = "ran"
      /\ \A p \in Reapers : \A d \in batch'[p] :
           /\ status'[d.row] # "ABSENT"
           /\ d.phase = "ran" => \E c \in batch[p] : c.row = d.row /\ c.phase = "ran"
  BY <1>1, <1>2, JobsOnRows
<1>4. KeyIsClaimed'
  BY <1>1 DEF KeyIsClaimed, Handling
<1>5. OwnersExist' /\ ClaimsAreOnRecord'
  BY <1>1, <1>3 DEF OwnersExist, ClaimsAreOnRecord
<1>6. RanMeansUndone'
  BY <1>1, <1>3 DEF RanMeansUndone, Undone
<1>7. ASSUME NEW g \in Attempts PROVE AttemptInv(g)'
  <2>1. /\ AttemptInv(g)
        /\ pc'[g] = pc[g] \/ (pc[g] \in Handling /\ pc'[g] = "dead")
        /\ status'[CancelRow(g)] = "ABSENT" <=> status[CancelRow(g)] = "ABSENT"
        /\ status'[ArchiveRow(g)] = "ABSENT" <=> status[ArchiveRow(g)] = "ABSENT"
    BY <1>1, <1>3, RowsOfAttempts
  <2>2. /\ Excused(g) => Excused(g)'
        /\ Crossed(g) /\ owner[g] # {} => Crossed(g)'
    <3>1. /\ \A row \in Rows : status[row] # "ABSENT" => status'[row] # "ABSENT"
          /\ KeyExpired(g) => KeyExpired(g)'
      BY <1>3, <2>1 DEF KeyExpired, Handling
    <3> QED
      BY <3>1, CausesStay
  <2>3. NothingDone(g)' /\ LeftAccountIsRecorded(g)'
    BY <2>1 DEF AttemptInv, NothingDone, LeftAccountIsRecorded, CancelRow, ArchiveRow
  <2>4. KeptOrgIsExcused(g)'
    BY <2>1, <2>2 DEF AttemptInv, KeptOrgIsExcused, CancelRow
  <2>5. LostOwnerHasACause(g)'
    BY <2>1, <2>2 DEF AttemptInv, LostOwnerHasACause
  <2> QED
    BY <2>3, <2>4, <2>5 DEF AttemptInv
<1> QED
  BY <1>4, <1>5, <1>6, <1>7 DEF ProvisionInv

\* A runner's effect: its saga is past the point where it could be undone, and
\* whoever shares the account finds the cancellation on record.
LEMMA RunUndoingKeeps ==
  ASSUME ProvisionInv, ProvisionTypes', NEW p \in Reapers, NEW c \in batch[p], RunUndoing(p, c)
  PROVE  ProvisionInv'
<1> DEFINE k == c.row[1]
<1>1. /\ ProvisionTypes /\ KeyIsClaimed /\ OwnersExist /\ ClaimsAreOnRecord /\ RanMeansUndone
      /\ \A g \in Attempts : AttemptInv(g)
  BY DEF ProvisionInv
<1>2. /\ \A q \in Reapers : \A d \in batch[q] : d \in Claim /\ d.row \in Rows
      /\ status[c.row] # "ABSENT"
  BY <1>1 DEF ClaimsAreOnRecord, ProvisionTypes, TypeOK, Claim
<1>3. /\ k \in Attempts
      /\ c.row = CancelRow(k) \/ c.row = ArchiveRow(k)
      /\ c.row[2] = "archive-org" <=> c.row = ArchiveRow(k)
  BY <1>2, RowParts
<1>4. /\ UNCHANGED <<claim, pc, owner, lost, dropped, status>>
      /\ \/ c.row = CancelRow(k) /\ CancelAccount(k) /\ UNCHANGED org
         \/ c.row = ArchiveRow(k) /\ ArchiveOrg(k) /\ UNCHANGED <<account, record>>
         \/ UNCHANGED <<account, record, org>> /\ Run(p, c, "threw")
  <2>1. /\ c.row[2] = "cancel-provisioned-user" => c.row = CancelRow(k)
        /\ c.row[2] = "archive-org" => c.row = ArchiveRow(k)
    BY <1>3 DEF ArchiveRow
  <2>2. /\ UNCHANGED <<claim, pc, owner, lost, dropped, status>>
        /\ Undo(c.row) \/ (UNCHANGED <<account, record, org>> /\ Run(p, c, "threw"))
    BY DEF RunUndoing, Run
  <2> QED
    BY <2>1, <2>2 DEF Undo
<1>5. pc[k] \notin {"start", "provision", "create"}
  BY <1>1, <1>2, <1>3 DEF AttemptInv, NothingDone
<1>6. owner[k] \subseteq Attempts /\ \A g \in Attempts : owner[g] \subseteq Attempts
  BY <1>1, <1>3 DEF ProvisionTypes
<1> HIDE DEF k
<1>7. \A u \in Attempts :
        \/ account'[u] = account[u]
        \/ /\ u \in owner[k] /\ c.row = CancelRow(k)
           /\ account[u] # "none" /\ account'[u] = "cancelled"
  BY <1>1, <1>3, <1>4 DEF CancelAccount, OwnersExist
<1>8. \A g \in Attempts : org'[g] = org[g] \/ (g = k /\ org'[g] = "archived")
  BY <1>1, <1>4 DEF ArchiveOrg, ProvisionTypes
<1>9. KeyIsClaimed' /\ OwnersExist'
  BY <1>1, <1>4, <1>6, <1>7 DEF KeyIsClaimed, OwnersExist
<1>10. PICK phase \in {"ran", "threw"} :
         /\ batch' = [batch EXCEPT ![p] = (@ \ {c}) \cup {[c EXCEPT !.phase = phase]}]
         /\ phase = "ran" => Undo(c.row)
  BY DEF RunUndoing, Run
<1>11. \A q \in Reapers : \A d \in batch'[q] :
         \/ d \in batch[q]
         \/ d.row = c.row /\ d.phase = phase
  <2>1. [c EXCEPT !.phase = phase].row = c.row /\ [c EXCEPT !.phase = phase].phase = phase
    BY <1>2 DEF Claim
  <2>2. /\ batch'[p] = (batch[p] \ {c}) \cup {[c EXCEPT !.phase = phase]}
        /\ \A q \in Reapers \ {p} : batch'[q] = batch[q]
    BY <1>1, <1>10 DEF ProvisionTypes, TypeOK
  <2> QED
    BY <2>1, <2>2
<1>12. ClaimsAreOnRecord'
  BY <1>1, <1>2, <1>4, <1>11 DEF ClaimsAreOnRecord
<1>13. RanMeansUndone'
  <2>1. ASSUME NEW row \in Rows, Undone(row) PROVE Undone(row)'
    <3>1. row[1] \in Attempts
      BY RowParts
    <3> QED
      BY <1>4, <1>6, <1>7, <1>8, <2>1, <3>1 DEF Undone
  <2>2. Undo(c.row) => Undone(c.row)'
    BY <1>1, <1>3, <1>4, <1>6 DEF Undo, Undone, CancelAccount, ArchiveOrg, ProvisionTypes, k
  <2>3. \A q \in Reapers : \A d \in batch'[q] : d.phase = "ran" => Undone(d.row)'
    BY <1>1, <1>2, <1>10, <1>11, <2>1, <2>2 DEF RanMeansUndone
  <2>4. \A row \in Rows : status'[row] \in {"DONE", "PURGED"} => Undone(row)'
    BY <1>1, <1>4, <2>1 DEF RanMeansUndone
  <2> QED
    BY <2>3, <2>4 DEF RanMeansUndone, Undone
<1>14. ASSUME NEW g \in Attempts PROVE AttemptInv(g)'
  <2>1. /\ AttemptInv(g) /\ Excused(g)' = Excused(g)
        /\ Crossed(g) => Crossed(g)'
    BY <1>1, <1>4 DEF Excused, Crossed, KeyExpired, ArchiveRow, CancelRow
  <2>2. NothingDone(g)'
    BY <1>4, <1>5, <1>7, <1>8, <2>1 DEF AttemptInv, NothingDone, CancelRow, ArchiveRow
  <2>3. KeptOrgIsExcused(g)'
    BY <1>4, <1>8, <2>1 DEF AttemptInv, KeptOrgIsExcused, CancelRow
  <2>4. LeftAccountIsRecorded(g)'
    BY <1>4, <1>6, <1>7, <2>1 DEF AttemptInv, LeftAccountIsRecorded, CancelRow
  <2>5. LostOwnerHasACause(g)'
    <3> SUFFICES ASSUME org[g] = "live" \/ pc[g] = "create",
                        NEW u \in owner[g], account'[u] = "cancelled"
                 PROVE  Excused(g)' \/ Crossed(g)'
      BY <1>4, <1>8 DEF LostOwnerHasACause
    <3>1. CASE account[u] = "cancelled"
      BY <2>1, <3>1 DEF AttemptInv, LostOwnerHasACause
    <3>2. CASE account[u] # "cancelled" /\ g = k
      <4>1. c.row = CancelRow(k)
        BY <1>6, <1>7, <3>2
      <4> QED
        BY <1>2, <1>5, <2>1, <3>2, <4>1 DEF AttemptInv, KeptOrgIsExcused
    <3>3. CASE account[u] # "cancelled" /\ g # k
      <4>1. c.row = CancelRow(k) /\ u \in owner[k]
        BY <1>6, <1>7, <3>3
      <4>2. AtMostOne(owner[g]) /\ AtMostOne(owner[k])
        BY <1>1, <1>3 DEF ProvisionTypes
      <4>3. owner[g] = {u} /\ owner[k] = {u}
        BY <4>1, <4>2 DEF AtMostOne
      <4>4. k \in Attempts \ {g} /\ owner'[k] = owner'[g] /\ status'[CancelRow(k)] # "ABSENT"
        BY <1>2, <1>3, <1>4, <3>3, <4>1, <4>3
      <4> QED
        BY <4>4 DEF Crossed, CancelRow
    <3> QED
      BY <3>1, <3>2, <3>3
  <2> QED
    BY <2>2, <2>3, <2>4, <2>5 DEF AttemptInv
<1> QED
  BY <1>9, <1>12, <1>13, <1>14 DEF ProvisionInv

-------------------------------------------------------------------------------
(* Provisioning: the theorems *)

LEMMA ProvisionInvInit == ProvisionInit => ProvisionInv
<1> SUFFICES ASSUME ProvisionInit PROVE ProvisionInv
  OBVIOUS
<1>1. KeyIsClaimed /\ OwnersExist /\ ClaimsAreOnRecord
  BY DEF ProvisionInit, Init, KeyIsClaimed, Handling, OwnersExist, ClaimsAreOnRecord
<1>2. RanMeansUndone
  BY DEF ProvisionInit, Init, RanMeansUndone
<1>3. ASSUME NEW g \in Attempts PROVE AttemptInv(g)
  <2>1. /\ pc[g] = "start" /\ owner[g] = {} /\ account[g] = "none" /\ org[g] = "none"
        /\ status[CancelRow(g)] = "ABSENT" /\ status[ArchiveRow(g)] = "ABSENT"
    BY RowsOfAttempts DEF ProvisionInit, Init
  <2> QED
    BY <2>1 DEF AttemptInv, NothingDone, KeptOrgIsExcused, LostOwnerHasACause,
                LeftAccountIsRecorded
<1> QED
  BY <1>1, <1>2, <1>3, ProvisionTypeInit DEF ProvisionInv

LEMMA ProvisionInvNext == ProvisionInv /\ [ProvisionNext]_pvars => ProvisionInv'
<1> SUFFICES ASSUME ProvisionInv, [ProvisionNext]_pvars PROVE ProvisionInv'
  OBVIOUS
<1>1. ProvisionTypes'
  BY ProvisionTypeNext DEF ProvisionInv
<1>2. ASSUME NEW g \in Attempts, Saga(g) PROVE ProvisionInv'
  BY <1>1, <1>2, SagaStepKeeps
<1>3. ASSUME NEW p \in Reapers, NEW c \in batch[p], RunUndoing(p, c) PROVE ProvisionInv'
  BY <1>1, <1>3, RunUndoingKeeps
<1>4. ASSUME UNCHANGED saga,
             \/ \E p \in Reapers :
                  \/ Poll(p) \/ Fetch(p) \/ FetchThrows(p) \/ Restart(p)
                  \/ \E c \in batch[p] : Mark(p, c) \/ MarkThrows(p, c)
             \/ Background
      PROVE  ProvisionInv'
  BY <1>1, <1>4, JobsKeep DEF saga
<1>5. ASSUME NEW p \in Reapers, CrashReplica(p) PROVE ProvisionInv'
  <2>1. /\ Crash(p) /\ UNCHANGED <<claim, account, owner, org, lost, dropped>>
        /\ \A g \in Attempts : pc'[g] = pc[g] \/ (pc[g] \in Handling /\ pc'[g] = "dead")
    BY <1>5 DEF CrashReplica
  <2> QED
    BY <1>1, <2>1, JobsKeep
<1>6. ASSUME UNCHANGED pvars PROVE ProvisionInv'
  <2>1. UNCHANGED <<status, batch, claim, pc, account, record, owner, org, lost, dropped>>
    BY <1>6 DEF pvars, cvars, saga
  <2>2. ASSUME NEW g \in Attempts PROVE AttemptInv(g)'
    <3>1. AttemptInv(g)
      BY DEF ProvisionInv
    <3>2. Excused(g)' = Excused(g) /\ (Crossed(g) => Crossed(g)')
      BY <2>1 DEF Excused, Crossed, KeyExpired, CancelRow, ArchiveRow
    <3> QED
      BY <2>1, <3>1, <3>2 DEF AttemptInv, NothingDone, KeptOrgIsExcused, LostOwnerHasACause,
                              LeftAccountIsRecorded, CancelRow, ArchiveRow
  <2> QED
    BY <1>1, <2>1, <2>2 DEF ProvisionInv, KeyIsClaimed, OwnersExist, ClaimsAreOnRecord,
                            RanMeansUndone, Undone
<1> QED
  BY <1>2, <1>3, <1>4, <1>5, <1>6 DEF ProvisionNext, Reaper

LEMMA ProvisionIsSafe == ProvisionSpec => []ProvisionInv
  BY ProvisionInvInit, ProvisionInvNext, PTL DEF ProvisionSpec

LEMMA AtMostOneCounts ==
  ASSUME NEW S, AtMostOne(S)
  PROVE  Cardinality(S) <= 1
<1>1. CASE S = {}
  BY <1>1, FS_EmptySet
<1>2. ASSUME NEW x \in S PROVE Cardinality(S) <= 1
  <2>1. S = {x}
    BY DEF AtMostOne
  <2>2. Cardinality({x}) = 1
    BY FS_Singleton
  <2> QED
    BY <2>1, <2>2
<1> QED
  BY <1>1, <1>2

\* ProvisionTypeOK: one key, one account behind it, one owner of an attempt, and the
\* account behind the key is active.
THEOREM ProvisionTypeCorrect == ProvisionSpec => []ProvisionTypeOK
<1>1. ProvisionInv => ProvisionTypeOK
  <2> SUFFICES ASSUME ProvisionTypes PROVE ProvisionTypeOK
    BY DEF ProvisionInv
  <2>1. AtMostOne(claim) /\ AtMostOne(record) /\ \A g \in Attempts : AtMostOne(owner[g])
    BY DEF ProvisionTypes
  <2>2. /\ Cardinality(claim) <= 1 /\ Cardinality(record) <= 1
        /\ \A g \in Attempts : Cardinality(owner[g]) <= 1
    BY <2>1, AtMostOneCounts
  <2> QED
    BY <2>2 DEF ProvisionTypes, ProvisionTypeOK
<1> QED
  BY <1>1, ProvisionIsSafe, PTL

LEMMA UndoneIsDone == ProvisionInv => DoneMeansUndone
<1> SUFFICES ASSUME ProvisionInv, NEW g \in Attempts
             PROVE  /\ status[CancelRow(g)] \in {"DONE", "PURGED"} => Undone(CancelRow(g))
                    /\ status[ArchiveRow(g)] \in {"DONE", "PURGED"} => Undone(ArchiveRow(g))
  BY DEF DoneMeansUndone, Undone, CancelRow, ArchiveRow
<1> QED
  BY RowsOfAttempts DEF ProvisionInv, RanMeansUndone

\* DoneMeansUndone: a compensation marked DONE is in place, by whichever claimant,
\* and no later attempt with the same key undoes it.
THEOREM UndoneSafe == ProvisionSpec => []DoneMeansUndone
  BY UndoneIsDone, ProvisionIsSafe, PTL

\* What is on record and not undone is still to be undone, or given up for an operator.
LEMMA RecordedIsOpen ==
  ASSUME ProvisionInv, NEW row \in Rows, status[row] # "ABSENT", ~Undone(row)
  PROVE  OnRecord(row)
<1>1. status[row] \in RowStatus /\ status[row] \notin {"DONE", "PURGED"}
  BY DEF ProvisionInv, ProvisionTypes, TypeOK, RanMeansUndone
<1> QED
  BY <1>1 DEF OnRecord, RowStatus

\* OwnerlessOrgHasACause: a live organisation loses its owner's account only behind a
\* lost reply, a recorded or unrecordable archiving, or another attempt's recorded
\* cancellation, or when its key had expired and the request was sent again.
THEOREM OwnerlessSafe == ProvisionSpec => []OwnerlessOrgHasACause
<1>1. ProvisionInv => OwnerlessOrgHasACause
  <2> SUFFICES ASSUME ProvisionInv, NEW g \in Attempts, org[g] = "live",
                      \E u \in owner[g] : account[u] = "cancelled"
               PROVE  \/ g \in lost
                      \/ OnRecord(ArchiveRow(g)) \/ ArchiveRow(g) \in dropped
                      \/ Crossed(g)
    BY DEF OwnerlessOrgHasACause, Crossed, ArchiveRow, CancelRow
  <2>1. Excused(g) \/ Crossed(g)
    BY DEF ProvisionInv, AttemptInv, LostOwnerHasACause
  <2>2. ArchiveRow(g) \in Rows /\ ~Undone(ArchiveRow(g))
    BY RowsOfAttempts DEF Undone, ArchiveRow
  <2>3. status[ArchiveRow(g)] # "ABSENT" => OnRecord(ArchiveRow(g))
    BY <2>2, RecordedIsOpen
  <2> QED
    BY <2>1, <2>3 DEF Excused
<1> QED
  BY <1>1, ProvisionIsSafe, PTL

\* StrayAccountHasACause: when nobody is at work, an account that is left over is of
\* an attempt that succeeded or died, or its cancellation is on record, or the record
\* could not be written.
THEOREM StraySafe == ProvisionSpec => []StrayAccountHasACause
<1>1. ProvisionInv => StrayAccountHasACause
  <2> SUFFICES ASSUME ProvisionInv, \A g \in Attempts : pc[g] \notin Handling,
                      NEW u \in Attempts, account[u] = "active",
                      NEW g \in Attempts, owner[g] = {u}
               PROVE  \/ pc[g] \in {"done", "dead"}
                      \/ OnRecord(CancelRow(g)) \/ CancelRow(g) \in dropped
    BY DEF StrayAccountHasACause, CancelRow
  <2>1. pc[g] \in {"start", "done", "failed", "dead"}
    BY DEF ProvisionInv, ProvisionTypes
  <2>2. pc[g] # "start" /\ LeftAccountIsRecorded(g)
    BY DEF ProvisionInv, AttemptInv, NothingDone
  <2>3. CancelRow(g) \in Rows /\ ~Undone(CancelRow(g))
    BY RowsOfAttempts DEF Undone, CancelRow
  <2>4. status[CancelRow(g)] # "ABSENT" => OnRecord(CancelRow(g))
    BY <2>3, RecordedIsOpen
  <2> QED
    BY <2>1, <2>2, <2>4 DEF LeftAccountIsRecorded
<1> QED
  BY <1>1, ProvisionIsSafe, PTL

-------------------------------------------------------------------------------
(* The reaper's promises, with the saga at work on its table *)

\* A saga records rows and a crash takes the claims of its replica: to the table both
\* are steps of the reaper's own specification.
LEMMA TableIsSafe == ProvisionSpec => []CompensationInv
<1>1. ProvisionInit => CompensationInv
  BY CompensationInit DEF ProvisionInit
<1>2. CompensationInv /\ [ProvisionNext]_pvars => CompensationInv'
  BY ProvisionOnRows, CompensationNext
<1> QED
  BY <1>1, <1>2, PTL DEF ProvisionSpec

\* ClaimIsExclusive, where rows are recorded by sagas on the same replicas.
THEOREM ProvisionClaimsSafe == ProvisionSpec => []ClaimIsExclusive
<1>1. CompensationInv => ClaimIsExclusive
  BY SoleClaimIsExclusive DEF CompensationInv
<1> QED
  BY <1>1, TableIsSafe, PTL

\* GivenUpOnlyAfterMaxAttempts, where runs are the undoing of accounts and
\* organisations: no undoing is left to an operator before its tries are spent.
THEOREM ProvisionGivingUpSafe == ProvisionSpec => []GivenUpOnlyAfterMaxAttempts
<1>1. CompensationInv => GivenUpOnlyAfterMaxAttempts
  BY DEF CompensationInv
<1> QED
  BY <1>1, TableIsSafe, PTL
===============================================================================
