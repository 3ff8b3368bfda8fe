----------------------------- MODULE ContentProofs -----------------------------
(***************************************************************************)
(* The safety of Knowledge and of Engagement for every number of users,    *)
(* items, connections, texts and answers.                                  *)
(*                                                                         *)
(* What makes an item's history whole is the unique index: a command       *)
(* writes the version after its snapshot's, the versions up to the row's   *)
(* are taken, so only a snapshot at the row's version can be written back  *)
(* by an edit, whatever version the client named.                          *)
(*                                                                         *)
(* What bounds the error of pages is that a command puts one row in, takes *)
(* one out or moves one, and so pushes one row at most over the offset.    *)
(***************************************************************************)
EXTENDS Knowledge, Engagement, FiniteSetTheorems, TLAPS

-------------------------------------------------------------------------------
(* Knowledge *)

\* A row, or a snapshot of it, that is not absent has a version.
RowsHaveVersions ==
  /\ item # NoRow => item.version >= 1
  /\ \A t \in Transactions : snap[t] # NoRow => snap[t].version >= 1

\* Whoever loaded a published row loaded it after the announcement.
PublishedIsAnnounced ==
  /\ item.status = "PUBLISHED" => announced > 0
  /\ \A t \in Transactions : snap[t].status = "PUBLISHED" => announced > 0

\* As long as no command wrote back a changed row, a draft was never announced.
DraftsAreUnannounced ==
  ~overwrote => announced <= 1 /\ (item.status = "DRAFT" => announced = 0)

HistoryInv == TypeOK /\ RowsHaveVersions /\ HistoryIsWhole /\ EditsNameWhatTheyReplace

AnnouncedInv == PublishedIsAnnounced /\ DraftsAreUnannounced

\* The commands that write through update().
Updating(t) ==
  PublishKnowledge(t) \/ VerifyKnowledge(t) \/ DeleteKnowledge(t) \/ Accept(t) \/ UnacceptAnswer(t)

-------------------------------------------------------------------------------

LEMMA NoRowIsARow == NoRow \in Row /\ NoRow.version = 0 /\ NoRow.status = "DRAFT"
BY DEF NoRow, Row

\* Every command that writes through update() writes some row, and leaves version
\* and text as they are.
LEMMA UpdatingUpdates ==
  ASSUME TypeOK, NEW t \in Transactions, Updating(t)
  PROVE  /\ \E row \in Row : Update(t, row)
         /\ announced' \in {announced, announced + 1}
<1>1. snap[t] \in Row
  BY DEF TypeOK
<1>2. CASE PublishKnowledge(t)
  BY <1>1, <1>2 DEF PublishKnowledge, Row
<1>3. CASE VerifyKnowledge(t)
  BY <1>1, <1>3 DEF VerifyKnowledge, Row
<1>4. CASE DeleteKnowledge(t)
  BY <1>1, <1>4 DEF DeleteKnowledge, Row
<1>5. CASE Accept(t)
  BY <1>1, <1>5 DEF Accept, AcceptAnswer, Row
<1>6. CASE UnacceptAnswer(t)
  BY <1>1, <1>6 DEF UnacceptAnswer, Row
<1> QED
  BY <1>2, <1>3, <1>4, <1>5, <1>6 DEF Updating

\* The steps of Next by what they do to the row.
LEMMA Steps ==
  ASSUME [Next]_kvars
  PROVE  \/ \E text \in Texts : CreateKnowledge(text)
         \/ \E t \in Transactions : Load(t) \/ Edit(t) \/ Updating(t) \/ Abort(t)
         \/ UNCHANGED kvars
BY Zenon DEF Next, Updating

-------------------------------------------------------------------------------
(* The history *)

LEMMA HistoryInit == Init => HistoryInv
<1> SUFFICES ASSUME Init PROVE HistoryInv
  OBVIOUS
<1>1. TypeOK
  <2>1. \A t \in Transactions : snap[t] = NoRow
    BY DEF Init
  <2>2. \A t \in Transactions : snap[t].version <= item.version
    BY <2>1, NoRowIsARow DEF Init
  <2>3. overwrote \in BOOLEAN
    BY Zenon DEF Init
  <2> QED
    BY <2>2, <2>3, NoRowIsARow DEF Init, TypeOK
<1>2. RowsHaveVersions /\ HistoryIsWhole /\ EditsNameWhatTheyReplace
  BY NoRowIsARow DEF Init, RowsHaveVersions, HistoryIsWhole, EditsNameWhatTheyReplace
<1> QED
  BY <1>1, <1>2 DEF HistoryInv

\* An edit goes through only on a snapshot of the present version: the versions
\* up to the row's are taken, and the one after the snapshot's is free.
LEMMA EditsAreCurrent ==
  ASSUME HistoryInv, NEW t \in Transactions, NEW expected \in Nat, NEW text \in Texts,
         UpdateKnowledge(t, expected, text)
  PROVE  snap[t].version = item.version /\ expected = item.version /\ item.version \in Nat
<1>1. snap[t] \in Row /\ item \in Row /\ snap[t].version <= item.version
  BY DEF HistoryInv, TypeOK
<1>2. snap[t].version \in Nat /\ item.version \in Nat
  BY <1>1 DEF Row
<1>3. snap[t].version >= 1
  BY DEF HistoryInv, RowsHaveVersions, UpdateKnowledge
<1>4. snap[t].version + 1 \notin {r.version : r \in revisions}
  BY DEF UpdateKnowledge, RevisionTaken
<1>5. snap[t].version + 1 \notin 2 .. item.version
  BY <1>4 DEF HistoryInv, HistoryIsWhole
<1>6. expected = item.version
  BY DEF UpdateKnowledge, VersionMatches
<1> QED
  BY <1>1, <1>2, <1>3, <1>5, <1>6

LEMMA EditKeepsHistory ==
  ASSUME HistoryInv, NEW t \in Transactions, NEW expected \in Nat, NEW text \in Texts,
         UpdateKnowledge(t, expected, text)
  PROVE  HistoryInv'
<1> DEFINE v == item.version + 1
           new == [version |-> v, text |-> text, expected |-> expected]
<1>1. snap[t].version = item.version /\ expected = item.version /\ item.version \in Nat
  BY EditsAreCurrent
<1>2. /\ item \in Row /\ snap[t] \in Row /\ revisions \subseteq Revision
      /\ snap \in [Transactions -> Row]
      /\ \A u \in Transactions : snap[u].version \in Nat /\ snap[u].version <= item.version
  BY DEF HistoryInv, TypeOK, Row
<1>3. item.version >= 1
  BY <1>1 DEF HistoryInv, RowsHaveVersions, UpdateKnowledge
<1>4. /\ item' \in Row
      /\ item'.version = v
      /\ item'.text = text
      /\ revisions' = revisions \cup {new}
      /\ snap' = [snap EXCEPT ![t] = NoRow]
      /\ announced' = announced
      /\ overwrote' \in BOOLEAN
  <2>1. item' = [snap[t] EXCEPT !.version = v, !.text = text, !.accepted = item.accepted]
    BY <1>1 DEF UpdateKnowledge
  <2>2. item.accepted \in Answers \cup {None} /\ v \in Nat
    BY <1>1, <1>2 DEF Row
  <2>3. item' = [version |-> v, text |-> text, status |-> snap[t].status,
                 verified |-> snap[t].verified, accepted |-> item.accepted,
                 deleted |-> snap[t].deleted]
    BY <1>2, <2>1 DEF Row
  <2>4. item' \in Row /\ item'.version = v /\ item'.text = text
    BY <1>2, <2>2, <2>3 DEF Row
  <2>5. revisions' = revisions \cup {new}
    BY <1>1 DEF UpdateKnowledge
  <2>6. snap' = [snap EXCEPT ![t] = NoRow] /\ announced' = announced
    BY DEF UpdateKnowledge, Done
  <2>7. overwrote' \in BOOLEAN
    BY Zenon DEF UpdateKnowledge
  <2> QED
    BY <2>4, <2>5, <2>6, <2>7
<1>5. TypeOK'
  <2>1. new \in Revision /\ v \in Nat
    BY <1>1 DEF Revision
  <2>2. \A u \in Transactions : snap'[u] \in Row /\ snap'[u].version <= v
    BY <1>1, <1>2, <1>4, NoRowIsARow
  <2> QED
    BY <1>2, <1>4, <2>1, <2>2, NoRowIsARow DEF HistoryInv, TypeOK
<1>6. RowsHaveVersions'
  BY <1>1, <1>2, <1>4 DEF HistoryInv, RowsHaveVersions
<1>7. HistoryIsWhole'
  <2>1. /\ {r.version : r \in revisions} = 2 .. item.version
        /\ \A r, q \in revisions : r.version = q.version => r = q
    BY DEF HistoryInv, HistoryIsWhole
  <2>2. \A r \in revisions : r.version \in 2 .. item.version
    BY <2>1
  <2>3. {r.version : r \in revisions'} = (2 .. item.version) \cup {v}
    <3>1. new.version = v
      OBVIOUS
    <3>2. {r.version : r \in revisions \cup {new}} = {r.version : r \in revisions} \cup {new.version}
      OBVIOUS
    <3> QED
      BY <1>4, <2>1, <3>1, <3>2
  <2>4. (2 .. item.version) \cup {v} = 2 .. v
    BY <1>1, <1>3
  <2>5. \A r \in revisions : r.version # v
    BY <1>1, <2>2
  <2> QED
    BY <1>4, <2>1, <2>3, <2>4, <2>5 DEF HistoryIsWhole
<1>8. EditsNameWhatTheyReplace'
  BY <1>1, <1>4 DEF HistoryInv, EditsNameWhatTheyReplace
<1> QED
  BY <1>5, <1>6, <1>7, <1>8 DEF HistoryInv

LEMMA UpdateKeepsHistory ==
  ASSUME HistoryInv, NEW t \in Transactions, Updating(t)
  PROVE  HistoryInv'
<1>1. PICK row \in Row : Update(t, row)
  BY UpdatingUpdates DEF HistoryInv
<1>2. item \in Row /\ snap[t] \in Row /\ item.version \in Nat
  BY DEF HistoryInv, TypeOK, Row
<1>3. /\ item' \in Row
      /\ item'.version = item.version
      /\ item'.text = item.text
      /\ revisions' = revisions
      /\ snap[t] # NoRow
      /\ snap' = [snap EXCEPT ![t] = NoRow]
      /\ overwrote' \in BOOLEAN
  BY <1>1, <1>2 DEF Update, WriteBack, Done, Row
<1>4. announced' \in Nat
  BY UpdatingUpdates DEF HistoryInv, TypeOK
<1>5. TypeOK'
  BY <1>2, <1>3, <1>4, NoRowIsARow DEF HistoryInv, TypeOK
<1>6. RowsHaveVersions'
  <2>1. snap[t].version >= 1 /\ snap[t].version <= item.version /\ snap[t].version \in Nat
    BY <1>2, <1>3 DEF HistoryInv, TypeOK, RowsHaveVersions, Row
  <2>2. item'.version >= 1
    BY <1>2, <1>3, <2>1
  <2>3. \A u \in Transactions : snap'[u] # NoRow => snap'[u].version >= 1
    BY <1>3 DEF HistoryInv, TypeOK, RowsHaveVersions
  <2> QED
    BY <2>2, <2>3 DEF RowsHaveVersions
<1>7. HistoryIsWhole' /\ EditsNameWhatTheyReplace'
  BY <1>3 DEF HistoryInv, HistoryIsWhole, EditsNameWhatTheyReplace
<1> QED
  BY <1>5, <1>6, <1>7 DEF HistoryInv

LEMMA HistoryStep == HistoryInv /\ [Next]_kvars => HistoryInv'
<1> SUFFICES ASSUME HistoryInv, [Next]_kvars PROVE HistoryInv'
  OBVIOUS
<1>1. ASSUME NEW text \in Texts, CreateKnowledge(text) PROVE HistoryInv'
  <2>1. /\ item' \in Row /\ item'.version = 1
        /\ UNCHANGED <<revisions, announced, snap, overwrote>>
    BY <1>1 DEF CreateKnowledge, NoRow, Row
  <2>2. revisions = {} /\ item.version = 0
    BY <1>1, NoRowIsARow DEF CreateKnowledge, HistoryInv, HistoryIsWhole
  <2>3. TypeOK'
    BY <2>1, <2>2 DEF HistoryInv, TypeOK, Row
  <2>4. RowsHaveVersions' /\ HistoryIsWhole' /\ EditsNameWhatTheyReplace'
    BY <2>1, <2>2 DEF HistoryInv, RowsHaveVersions, HistoryIsWhole, EditsNameWhatTheyReplace
  <2> QED
    BY <2>3, <2>4 DEF HistoryInv
<1>2. ASSUME NEW t \in Transactions, Load(t) PROVE HistoryInv'
  <2>1. item # NoRow /\ item \in Row /\ item.version \in Nat
    BY <1>2 DEF Load, HistoryInv, TypeOK, Row
  <2>2. snap' = [snap EXCEPT ![t] = item] /\ UNCHANGED <<item, revisions, announced, overwrote>>
    BY <1>2 DEF Load
  <2> QED
    BY <2>1, <2>2 DEF HistoryInv, TypeOK, RowsHaveVersions, HistoryIsWhole, EditsNameWhatTheyReplace
<1>3. ASSUME NEW t \in Transactions, Edit(t) PROVE HistoryInv'
  BY <1>3, EditKeepsHistory DEF Edit
<1>4. ASSUME NEW t \in Transactions, Updating(t) PROVE HistoryInv'
  BY <1>4, UpdateKeepsHistory
<1>5. ASSUME NEW t \in Transactions, Abort(t) PROVE HistoryInv'
  <2>1. snap' = [snap EXCEPT ![t] = NoRow] /\ UNCHANGED <<item, revisions, announced, overwrote>>
    BY <1>5 DEF Abort, Done
  <2> QED
    BY <2>1, NoRowIsARow
       DEF HistoryInv, TypeOK, RowsHaveVersions, HistoryIsWhole, EditsNameWhatTheyReplace, Row
<1>6. CASE UNCHANGED kvars
  BY <1>6 DEF kvars, HistoryInv, TypeOK, RowsHaveVersions, HistoryIsWhole, EditsNameWhatTheyReplace
<1> QED
  BY <1>1, <1>2, <1>3, <1>4, <1>5, <1>6, Steps

\* The invariant behind the history: every state of every instance satisfies it.
THEOREM HistoryInductive == Spec => []HistoryInv
BY HistoryInit, HistoryStep, PTL DEF Spec

\* The row, its revisions and the snapshots are well formed, and no snapshot is
\* ahead of the row.
THEOREM TypeCorrect == Spec => []TypeOK
<1>1. HistoryInv => TypeOK
  BY DEF HistoryInv
<1> QED
  BY <1>1, HistoryInductive, PTL

\* One revision per version, the last one with the item's text, for every number
\* of concurrent editors and whatever versions their clients name.
THEOREM WholeHistory == Spec => []HistoryIsWhole
<1>1. HistoryInv => HistoryIsWhole
  BY DEF HistoryInv
<1> QED
  BY <1>1, HistoryInductive, PTL

\* No edit replaces a version other than the one its author named.
THEOREM NoLostEdit == Spec => []EditsNameWhatTheyReplace
<1>1. HistoryInv => EditsNameWhatTheyReplace
  BY DEF HistoryInv
<1> QED
  BY <1>1, HistoryInductive, PTL

-------------------------------------------------------------------------------
(* Announcements and flags *)

\* What one of these commands does to the status and to the outbox.
LEMMA UpdatingStatus ==
  ASSUME TypeOK, NEW t \in Transactions, Updating(t)
  PROVE  /\ snap[t] \in Row /\ snap[t] # NoRow
         /\ snap' = [snap EXCEPT ![t] = NoRow]
         /\ ~overwrote' => ~overwrote /\ snap[t] = item
         /\ \/ snap[t].status = "DRAFT" /\ item'.status = "PUBLISHED" /\ announced' = announced + 1
            \/ item'.status = snap[t].status /\ announced' = announced
         /\ snap[t].verified => item'.verified
         /\ snap[t].deleted => item'.deleted
<1>1. snap[t] \in Row
  BY DEF TypeOK
<1>2. \A row : Update(t, row) => /\ snap[t] # NoRow
                                 /\ snap' = [snap EXCEPT ![t] = NoRow]
                                 /\ ~overwrote' => ~overwrote /\ snap[t] = item
  BY Zenon DEF Update, Done
<1>3. \A row \in Row : Update(t, row) => /\ item'.status = row.status
                                         /\ item'.verified = row.verified
                                         /\ item'.deleted = row.deleted
  BY DEF Update, WriteBack, Row
<1>4. CASE PublishKnowledge(t)
  BY <1>1, <1>2, <1>3, <1>4 DEF PublishKnowledge, Row
<1>5. CASE VerifyKnowledge(t)
  <2> DEFINE row == [snap[t] EXCEPT !.verified = TRUE]
  <2>1. /\ row \in Row
        /\ row.verified = TRUE
        /\ row.deleted = snap[t].deleted
        /\ row.status = snap[t].status
    BY <1>1 DEF Row
  <2>2. Update(t, row) /\ announced' = announced
    BY <1>5 DEF VerifyKnowledge
  <2>3. item'.status = row.status /\ item'.verified = row.verified /\ item'.deleted = row.deleted
    BY <1>3, <2>1, <2>2
  <2> HIDE DEF row
  <2> QED
    BY <1>1, <1>2, <2>1, <2>2, <2>3
<1>6. CASE DeleteKnowledge(t)
  <2> DEFINE row == [snap[t] EXCEPT !.deleted = TRUE]
  <2>1. /\ row \in Row
        /\ row.deleted = TRUE
        /\ row.verified = snap[t].verified
        /\ row.status = snap[t].status
    BY <1>1 DEF Row
  <2>2. Update(t, row) /\ announced' = announced
    BY <1>6 DEF DeleteKnowledge
  <2>3. item'.status = row.status /\ item'.deleted = row.deleted /\ item'.verified = row.verified
    BY <1>3, <2>1, <2>2
  <2> HIDE DEF row
  <2> QED
    BY <1>1, <1>2, <2>1, <2>2, <2>3
<1>7. CASE Accept(t)
  BY <1>1, <1>2, <1>3, <1>7 DEF Accept, AcceptAnswer, Row
<1>8. CASE UnacceptAnswer(t)
  BY <1>1, <1>2, <1>3, <1>8 DEF UnacceptAnswer, Row
<1> QED
  BY <1>4, <1>5, <1>6, <1>7, <1>8 DEF Updating

\* An edit keeps the status and the flags of its snapshot.
LEMMA EditStatus ==
  ASSUME TypeOK, NEW t \in Transactions, Edit(t)
  PROVE  /\ snap[t] \in Row /\ snap[t] # NoRow
         /\ snap' = [snap EXCEPT ![t] = NoRow]
         /\ ~overwrote' => ~overwrote /\ snap[t] = item
         /\ item'.status = snap[t].status /\ announced' = announced
         /\ item'.verified = snap[t].verified
         /\ item'.deleted = snap[t].deleted
<1>1. snap[t] \in Row
  BY DEF TypeOK
<1>2. PICK expected \in 1 .. MaxVersion, text \in Texts : UpdateKnowledge(t, expected, text)
  BY DEF Edit
<1>3. /\ snap[t] # NoRow
      /\ snap' = [snap EXCEPT ![t] = NoRow]
      /\ ~overwrote' => ~overwrote /\ snap[t] = item
      /\ announced' = announced
  BY <1>2, Zenon DEF UpdateKnowledge, Done
<1>4. item' = [snap[t] EXCEPT !.version = snap[t].version + 1, !.text = text,
                              !.accepted = item.accepted]
  BY <1>2 DEF UpdateKnowledge
<1>5. /\ item'.status = snap[t].status
      /\ item'.verified = snap[t].verified
      /\ item'.deleted = snap[t].deleted
  BY <1>1, <1>4 DEF Row
<1> QED
  BY <1>1, <1>3, <1>5

LEMMA AnnouncedInit == Init => AnnouncedInv
BY NoRowIsARow DEF Init, AnnouncedInv, PublishedIsAnnounced, DraftsAreUnannounced

LEMMA AnnouncedStep == TypeOK /\ AnnouncedInv /\ [Next]_kvars => AnnouncedInv'
<1> SUFFICES ASSUME TypeOK, AnnouncedInv, [Next]_kvars PROVE AnnouncedInv'
  OBVIOUS
<1> USE DEF AnnouncedInv, PublishedIsAnnounced, DraftsAreUnannounced
<1>0. announced \in Nat /\ snap \in [Transactions -> Row] /\ item \in Row
  BY DEF TypeOK
<1>1. ASSUME NEW text \in Texts, CreateKnowledge(text) PROVE AnnouncedInv'
  <2>1. item'.status = "DRAFT" /\ item.status = "DRAFT"
    BY <1>1 DEF CreateKnowledge, NoRow
  <2> QED
    BY <1>1, <2>1 DEF CreateKnowledge
<1>2. ASSUME NEW t \in Transactions, Load(t) PROVE AnnouncedInv'
  BY <1>0, <1>2 DEF Load
<1>3. ASSUME NEW t \in Transactions, Edit(t) PROVE AnnouncedInv'
  BY <1>0, <1>3, EditStatus, NoRowIsARow
<1>4. ASSUME NEW t \in Transactions, Updating(t) PROVE AnnouncedInv'
  <2>1. CASE snap[t].status = "DRAFT" /\ item'.status = "PUBLISHED" /\ announced' = announced + 1
    BY <1>0, <1>4, <2>1, UpdatingStatus, NoRowIsARow
  <2>2. CASE item'.status = snap[t].status /\ announced' = announced
    BY <1>0, <1>4, <2>2, UpdatingStatus, NoRowIsARow
  <2> QED
    BY <1>4, <2>1, <2>2, UpdatingStatus
<1>5. ASSUME NEW t \in Transactions, Abort(t) PROVE AnnouncedInv'
  BY <1>0, <1>5, NoRowIsARow DEF Abort, Done
<1>6. CASE UNCHANGED kvars
  BY <1>6 DEF kvars
<1> QED
  BY <1>1, <1>2, <1>3, <1>4, <1>5, <1>6, Steps

\* A published item was announced, and announced once unless a command wrote back
\* a row that had changed since its load.
THEOREM PublishedOnce == Spec => []AnnouncedOnce
<1>1. Spec => []AnnouncedInv
  BY AnnouncedInit, AnnouncedStep, TypeCorrect, PTL DEF Spec
<1>2. TypeOK /\ AnnouncedInv => AnnouncedOnce
  BY DEF TypeOK, AnnouncedInv, PublishedIsAnnounced, DraftsAreUnannounced, AnnouncedOnce
<1> QED
  BY <1>1, <1>2, TypeCorrect, PTL

\* Publication, verification and deletion are undone only by a command that wrote
\* back a row that had changed since its load.
THEOREM FlagsStand == Spec => FlagsFallOnlyToStaleWrites
<1> DEFINE Falls == \/ item.status = "PUBLISHED" /\ item'.status = "DRAFT"
                    \/ item.verified /\ ~item'.verified
                    \/ item.deleted /\ ~item'.deleted
<1>1. TypeOK /\ [Next]_kvars => [Falls => overwrote']_kvars
  <2> SUFFICES ASSUME TypeOK, [Next]_kvars, Falls, ~overwrote' PROVE FALSE
    OBVIOUS
  <2>1. ASSUME NEW text \in Texts, CreateKnowledge(text) PROVE FALSE
    BY <2>1 DEF CreateKnowledge, NoRow
  <2>2. ASSUME NEW t \in Transactions, Load(t) \/ Abort(t) PROVE FALSE
    BY <2>2 DEF Load, Abort
  <2>3. ASSUME NEW t \in Transactions, Edit(t) PROVE FALSE
    BY <2>3, EditStatus
  <2>4. ASSUME NEW t \in Transactions, Updating(t) PROVE FALSE
    BY <2>4, UpdatingStatus
  <2>5. CASE UNCHANGED kvars
    BY <2>5 DEF kvars
  <2> QED
    BY <2>1, <2>2, <2>3, <2>4, <2>5, Steps
<1> QED
  BY <1>1, TypeCorrect, PTL DEF Spec, FlagsFallOnlyToStaleWrites

-------------------------------------------------------------------------------
(* Listings: rows come and go *)

\* A list without repetitions, of members of T.
List(T) == {s \in Seq(T) : IsInjective(s)}

\* l is s with e put in at n.
InsertsAt(s, l, n, e) ==
  /\ Len(l) = Len(s) + 1
  /\ \A k \in 1 .. Len(l) : l[k] = IF k < n THEN s[k] ELSE IF k = n THEN e ELSE s[k - 1]

\* l is s without what was at n.
RemovesAt(s, l, n) ==
  /\ Len(s) = Len(l) + 1
  /\ \A k \in 1 .. Len(l) : l[k] = IF k < n THEN s[k] ELSE s[k + 1]

LEMMA ConcatElements ==
  ASSUME NEW T, NEW a \in Seq(T), NEW b \in Seq(T)
  PROVE  /\ a \o b \in Seq(T) /\ Len(a \o b) = Len(a) + Len(b)
         /\ \A k \in 1 .. Len(a) : (a \o b)[k] = a[k]
         /\ \A k \in Len(a) + 1 .. Len(a) + Len(b) : (a \o b)[k] = b[k - Len(a)]
OBVIOUS

\* The elements of a list differ, told from smaller and larger indices.
LEMMA ListsAreInjective ==
  ASSUME NEW T, NEW s \in Seq(T)
  PROVE  s \in List(T) <=> \A j, k \in 1 .. Len(s) : j < k => s[j] # s[k]
<1>1. DOMAIN s = 1 .. Len(s) /\ Len(s) \in Nat
  OBVIOUS
<1> QED
  BY <1>1 DEF List, IsInjective

LEMMA InsertAtInserts ==
  ASSUME NEW T, NEW s \in List(T), NEW e \in T, ~Contains(s, e), NEW n \in 1 .. Len(s) + 1
  PROVE  /\ InsertAt(s, n, e) \in List(T)
         /\ InsertsAt(s, InsertAt(s, n, e), n, e)
<1> DEFINE a == SubSeq(s, 1, n - 1)
           b == SubSeq(s, n, Len(s))
           c == a \o <<e>>
           l == c \o b
<1>1. s \in Seq(T) /\ Len(s) \in Nat /\ n \in Nat
  BY DEF List
<1>2. /\ a \in Seq(T) /\ Len(a) = n - 1 /\ \A k \in 1 .. n - 1 : a[k] = s[k]
  BY <1>1
<1>3. /\ b \in Seq(T) /\ Len(b) = Len(s) - n + 1
      /\ \A k \in 1 .. Len(b) : b[k] = s[n - 1 + k]
  BY <1>1
<1>4. InsertAt(s, n, e) = l
  BY DEF InsertAt
<1> HIDE DEF a, b
<1>5. c \in Seq(T) /\ Len(c) = n /\ (\A k \in 1 .. n - 1 : c[k] = s[k]) /\ c[n] = e
  BY <1>1, <1>2
<1> HIDE DEF c
<1>6. /\ l \in Seq(T) /\ Len(l) = Len(c) + Len(b)
      /\ \A k \in 1 .. Len(c) : l[k] = c[k]
      /\ \A k \in Len(c) + 1 .. Len(c) + Len(b) : l[k] = b[k - Len(c)]
  <2>1. c \in Seq(T) /\ b \in Seq(T)
    BY <1>3, <1>5
  <2> QED
    BY <2>1, ConcatElements
<1> HIDE DEF l
<1>7. Len(l) = Len(s) + 1
  BY <1>1, <1>3, <1>5, <1>6
<1>8. ASSUME NEW k \in 1 .. Len(l)
      PROVE  l[k] = IF k < n THEN s[k] ELSE IF k = n THEN e ELSE s[k - 1]
  <2>1. CASE k <= n
    <3>1. l[k] = c[k]
      BY <1>1, <1>5, <1>6, <2>1
    <3> QED
      BY <1>1, <1>5, <2>1, <3>1
  <2>2. CASE k > n
    <3>1. l[k] = b[k - n] /\ k - n \in 1 .. Len(b)
      <4>1. k \in Len(c) + 1 .. Len(c) + Len(b) /\ Len(c) = n
        BY <1>1, <1>3, <1>5, <1>7, <2>2
      <4>2. l[k] = b[k - Len(c)]
        BY <1>6, <4>1
      <4> QED
        BY <1>1, <1>3, <1>7, <2>2, <4>1, <4>2
    <3> QED
      BY <1>1, <1>3, <2>2, <3>1
  <2> QED
    BY <1>1, <2>1, <2>2
<1>9. ASSUME NEW j \in 1 .. Len(l), NEW k \in 1 .. Len(l), j < k PROVE l[j] # l[k]
  <2>1. \A i, m \in 1 .. Len(s) : i < m => s[i] # s[m]
    BY <1>1, ListsAreInjective
  <2>2. \A i \in 1 .. Len(s) : s[i] # e
    BY DEF Contains
  <2>3. CASE k < n
    BY <1>1, <1>7, <1>8, <1>9, <2>1, <2>3
  <2>4. CASE k = n
    BY <1>1, <1>7, <1>8, <1>9, <2>2, <2>4
  <2>5. CASE k > n
    <3>1. l[k] = s[k - 1] /\ k - 1 \in 1 .. Len(s)
      BY <1>1, <1>7, <1>8, <2>5
    <3>2. CASE j < n
      BY <1>1, <1>7, <1>8, <2>1, <2>5, <3>1, <3>2
    <3>3. CASE j = n
      BY <1>1, <1>7, <1>8, <2>2, <3>1, <3>3
    <3>4. CASE j > n
      BY <1>1, <1>7, <1>8, <1>9, <2>1, <3>1, <3>4
    <3> QED
      BY <1>1, <3>2, <3>3, <3>4
  <2> QED
    BY <1>1, <2>3, <2>4, <2>5
<1>10. l \in List(T)
  BY <1>6, <1>9, ListsAreInjective
<1> QED
  BY <1>4, <1>7, <1>8, <1>10 DEF InsertsAt

LEMMA RemoveAtRemoves ==
  ASSUME NEW T, NEW s \in List(T), NEW n \in 1 .. Len(s)
  PROVE  RemoveAt(s, n) \in List(T) /\ RemovesAt(s, RemoveAt(s, n), n)
<1> DEFINE a == SubSeq(s, 1, n - 1)
           b == SubSeq(s, n + 1, Len(s))
           l == a \o b
<1>1. s \in Seq(T) /\ Len(s) \in Nat /\ n \in Nat
  BY DEF List
<1>2. /\ a \in Seq(T) /\ Len(a) = n - 1 /\ \A k \in 1 .. n - 1 : a[k] = s[k]
  BY <1>1
<1>3. /\ b \in Seq(T) /\ Len(b) = Len(s) - n
      /\ \A k \in 1 .. Len(b) : b[k] = s[n + k]
  BY <1>1
<1>4. RemoveAt(s, n) = l
  BY DEF RemoveAt
<1> HIDE DEF a, b
<1>5. /\ l \in Seq(T) /\ Len(l) = Len(a) + Len(b)
      /\ \A k \in 1 .. Len(a) : l[k] = a[k]
      /\ \A k \in Len(a) + 1 .. Len(a) + Len(b) : l[k] = b[k - Len(a)]
  <2>1. a \in Seq(T) /\ b \in Seq(T)
    BY <1>2, <1>3
  <2> QED
    BY <2>1, ConcatElements
<1> HIDE DEF l
<1>6. Len(s) = Len(l) + 1 /\ Len(l) \in Nat
  BY <1>1, <1>2, <1>3, <1>5
<1>7. ASSUME NEW k \in 1 .. Len(l)
      PROVE  l[k] = IF k < n THEN s[k] ELSE s[k + 1]
  <2>1. CASE k < n
    <3>1. l[k] = a[k]
      BY <1>1, <1>2, <1>5, <2>1
    <3> QED
      BY <1>1, <1>2, <2>1, <3>1
  <2>2. CASE k >= n
    <3>1. l[k] = b[k - n + 1] /\ k - n + 1 \in 1 .. Len(b)
      <4>1. k \in Len(a) + 1 .. Len(a) + Len(b) /\ k - Len(a) = k - n + 1
        BY <1>1, <1>2, <1>3, <1>6, <2>2
      <4>2. l[k] = b[k - Len(a)]
        BY <1>5, <4>1
      <4> QED
        BY <1>1, <1>3, <1>6, <2>2, <4>1, <4>2
    <3> QED
      BY <1>1, <1>3, <2>2, <3>1
  <2> QED
    BY <1>1, <2>1, <2>2
<1>8. ASSUME NEW j \in 1 .. Len(l), NEW k \in 1 .. Len(l), j < k PROVE l[j] # l[k]
  <2>1. \A i, m \in 1 .. Len(s) : i < m => s[i] # s[m]
    BY <1>1, ListsAreInjective
  <2>2. CASE k < n
    BY <1>1, <1>6, <1>7, <1>8, <2>1, <2>2
  <2>3. CASE k >= n
    <3>1. l[k] = s[k + 1] /\ k + 1 \in 1 .. Len(s)
      BY <1>1, <1>6, <1>7, <2>3
    <3>2. CASE j < n
      BY <1>1, <1>6, <1>7, <1>8, <2>1, <3>1, <3>2
    <3>3. CASE j >= n
      <4>1. l[j] = s[j + 1] /\ j + 1 \in 1 .. Len(s)
        BY <1>1, <1>6, <1>7, <3>3
      <4> QED
        BY <1>8, <2>1, <3>1, <4>1
    <3> QED
      BY <1>1, <3>2, <3>3
  <2> QED
    BY <1>1, <2>2, <2>3
<1>9. l \in List(T)
  BY <1>5, <1>8, ListsAreInjective
<1> QED
  BY <1>4, <1>6, <1>7, <1>9 DEF RemovesAt

\* Without takes out the one row, if it is there.
LEMMA WithoutRemoves ==
  ASSUME NEW T, NEW s \in List(T), NEW e
  PROVE  /\ Without(s, e) \in List(T)
         /\ ~Contains(s, e) => Without(s, e) = s
         /\ Contains(s, e) => \E n \in 1 .. Len(s) : s[n] = e /\ RemovesAt(s, Without(s, e), n)
<1>1. CASE ~Contains(s, e)
  BY <1>1 DEF Without, RemoveFirst, Contains
<1>2. CASE Contains(s, e)
  <2>1. PICK n \in 1 .. Len(s) : s[n] = e
    BY <1>2 DEF Contains
  <2>2. DOMAIN s = 1 .. Len(s) /\ Len(s) \in Nat
    BY DEF List
  <2>3. {k \in 1 .. Len(s) : s[k] = e} = {n}
    BY <2>1, <2>2 DEF List, IsInjective
  <2>4. Min({n}) = n
    BY <2>2 DEF Min
  <2>5. SelectInSeq(s, LAMBDA v : v = e) = n
    BY <2>3, <2>4 DEF SelectInSeq
  <2>6. Without(s, e) = RemoveAt(s, n)
    BY <2>1, <2>5 DEF Without, RemoveFirst
  <2> QED
    BY <1>2, <2>1, <2>6, RemoveAtRemoves
<1> QED
  BY <1>1, <1>2

LEMMA InsertedContains ==
  ASSUME NEW T, NEW s \in List(T), NEW e \in T, ~Contains(s, e), NEW l \in Inserted(s, e)
  PROVE  /\ l \in List(T)
         /\ \E n \in 1 .. Len(s) + 1 : InsertsAt(s, l, n, e)
         /\ \A x : Contains(l, x) <=> Contains(s, x) \/ x = e
<1>1. PICK n \in 1 .. Len(s) + 1 : l = InsertAt(s, n, e)
  BY DEF Inserted
<1>2. l \in List(T) /\ InsertsAt(s, l, n, e)
  BY <1>1, InsertAtInserts
<1>3. Len(s) \in Nat
  BY DEF List
<1>4. ASSUME NEW x, Contains(l, x) PROVE Contains(s, x) \/ x = e
  <2>1. PICK k \in 1 .. Len(l) : l[k] = x
    BY <1>4 DEF Contains
  <2>2. CASE k < n
    BY <1>2, <1>3, <2>1, <2>2 DEF InsertsAt, Contains
  <2>3. CASE k = n
    BY <1>2, <1>3, <2>1, <2>3 DEF InsertsAt
  <2>4. CASE k > n
    <3>1. k - 1 \in 1 .. Len(s) /\ s[k - 1] = x
      BY <1>2, <1>3, <2>1, <2>4 DEF InsertsAt
    <3> QED
      BY <3>1 DEF Contains
  <2> QED
    BY <2>1, <2>2, <2>3, <2>4
<1>5. l[n] = e /\ n \in 1 .. Len(l)
  BY <1>2, <1>3 DEF InsertsAt
<1>6. ASSUME NEW k \in 1 .. Len(s) PROVE Contains(l, s[k])
  <2>1. CASE k < n
    <3>1. k \in 1 .. Len(l) /\ l[k] = s[k]
      BY <1>2, <1>3, <2>1 DEF InsertsAt
    <3> QED
      BY <3>1 DEF Contains
  <2>2. CASE k >= n
    <3>1. k + 1 \in 1 .. Len(l) /\ l[k + 1] = s[k]
      BY <1>2, <1>3, <2>2 DEF InsertsAt
    <3> QED
      BY <3>1 DEF Contains
  <2> QED
    BY <1>3, <2>1, <2>2
<1>7. Contains(l, e)
  BY <1>5 DEF Contains
<1>8. \A x : Contains(s, x) => Contains(l, x)
  BY <1>6 DEF Contains
<1> QED
  BY <1>2, <1>4, <1>7, <1>8

LEMMA PutContains ==
  ASSUME NEW T, NEW s \in List(T), NEW e \in T, NEW l \in Put(s, e)
  PROVE  l \in List(T) /\ \A x : Contains(l, x) <=> Contains(s, x) \/ x = e
BY InsertedContains DEF Put

LEMMA WithoutContains ==
  ASSUME NEW T, NEW s \in List(T), NEW e
  PROVE  Without(s, e) \in List(T) /\ \A x : Contains(Without(s, e), x) <=> Contains(s, x) /\ x # e
<1>1. CASE ~Contains(s, e)
  BY <1>1, WithoutRemoves
<1>2. CASE Contains(s, e)
  <2> DEFINE l == Without(s, e)
  <2>1. PICK n \in 1 .. Len(s) : s[n] = e /\ RemovesAt(s, l, n)
    BY <1>2, WithoutRemoves
  <2>2. l \in List(T)
    BY WithoutRemoves
  <2> HIDE DEF l
  <2>3. Len(s) \in Nat /\ Len(l) \in Nat /\ DOMAIN s = 1 .. Len(s)
    BY <2>2 DEF List
  <2>4. \A j, k \in 1 .. Len(s) : s[j] = s[k] => j = k
    BY <2>3 DEF List, IsInjective
  <2>5. ASSUME NEW k \in 1 .. Len(l) PROVE Contains(s, l[k]) /\ l[k] # e
    <3>1. CASE k < n
      <4>1. k \in 1 .. Len(s) /\ l[k] = s[k] /\ k # n
        BY <2>1, <2>3, <3>1 DEF RemovesAt
      <4> QED
        BY <2>1, <2>4, <4>1 DEF Contains
    <3>2. CASE k >= n
      <4>1. k + 1 \in 1 .. Len(s) /\ l[k] = s[k + 1] /\ k + 1 # n
        BY <2>1, <2>3, <3>2 DEF RemovesAt
      <4> QED
        BY <2>1, <2>4, <4>1 DEF Contains
    <3> QED
      BY <2>3, <3>1, <3>2
  <2>6. ASSUME NEW k \in 1 .. Len(s), s[k] # e PROVE Contains(l, s[k])
    <3>1. CASE k < n
      <4>1. k \in 1 .. Len(l) /\ l[k] = s[k]
        BY <2>1, <2>3, <3>1 DEF RemovesAt
      <4> QED
        BY <4>1 DEF Contains
    <3>2. CASE k > n
      <4>1. k - 1 \in 1 .. Len(l) /\ l[k - 1] = s[k]
        BY <2>1, <2>3, <3>2 DEF RemovesAt
      <4> QED
        BY <4>1 DEF Contains
    <3> QED
      BY <2>1, <2>3, <2>6, <3>1, <3>2
  <2>7. ASSUME NEW x PROVE Contains(l, x) <=> Contains(s, x) /\ x # e
    BY <2>5, <2>6 DEF Contains
  <2> QED
    BY <2>2, <2>7 DEF l
<1> QED
  BY <1>1, <1>2

\* Members of T join, leave or change their place in a list.
Grows(T, s, l) == \E e \in T, n \in 1 .. Len(s) + 1 : ~Contains(s, e) /\ InsertsAt(s, l, n, e)

Shrinks(s, l) == \E n \in 1 .. Len(s) : RemovesAt(s, l, n)

Shifts(T, s, l) ==
  \E n \in 1 .. Len(s), without \in List(T) :
    /\ RemovesAt(s, without, n)
    /\ \E m \in 1 .. Len(without) + 1 : InsertsAt(without, l, m, s[n])

RowMoves(T, s, l) == l = s \/ Grows(T, s, l) \/ Shrinks(s, l) \/ Shifts(T, s, l)

LEMMA PutMoves ==
  ASSUME NEW T, NEW s \in List(T), NEW e \in T, NEW l \in Put(s, e)
  PROVE  RowMoves(T, s, l)
BY InsertedContains DEF Put, RowMoves, Grows

LEMMA WithoutMoves ==
  ASSUME NEW T, NEW s \in List(T), NEW e
  PROVE  RowMoves(T, s, Without(s, e))
BY WithoutRemoves DEF RowMoves, Shrinks

LEMMA TouchMoves ==
  ASSUME NEW T, NEW s \in List(T), NEW e \in T, NEW l \in Inserted(Without(s, e), e)
  PROVE  /\ l \in List(T) /\ RowMoves(T, s, l)
         /\ \A x : Contains(l, x) <=> Contains(s, x) \/ x = e
<1>1. /\ Without(s, e) \in List(T) /\ ~Contains(Without(s, e), e)
      /\ \A x : Contains(Without(s, e), x) <=> Contains(s, x) /\ x # e
  BY WithoutContains
<1>2. /\ l \in List(T)
      /\ \E n \in 1 .. Len(Without(s, e)) + 1 : InsertsAt(Without(s, e), l, n, e)
      /\ \A x : Contains(l, x) <=> Contains(Without(s, e), x) \/ x = e
  BY <1>1, InsertedContains
<1>3. CASE Contains(s, e)
  <2>1. PICK n \in 1 .. Len(s) : s[n] = e /\ RemovesAt(s, Without(s, e), n)
    BY <1>3, WithoutRemoves
  <2> QED
    BY <1>1, <1>2, <1>3, <2>1 DEF RowMoves, Shifts
<1>4. CASE ~Contains(s, e)
  BY <1>1, <1>2, <1>4, WithoutRemoves DEF RowMoves, Grows
<1> QED
  BY <1>3, <1>4

-------------------------------------------------------------------------------
(* Follow events *)

FollowTypes ==
  /\ follows \in [Users -> List(Targets)]
  /\ events \in Seq(FollowEvent)
  /\ tx \in [Connections -> Transaction]

Follows(u, t) == Contains(follows[u], t)

\* What a follow or unfollow found is still so, as long as nothing overtook it.
Knows(x) ==
  /\ x.cmd = "commitFollow" =>
       x.effect # "delete" /\ (x.clean /\ x.effect = "none" => Follows(x.user, x.target))
  /\ x.cmd = "commitUnfollow" =>
       x.effect # "insert" /\ (x.clean /\ x.effect = "none" => ~Follows(x.user, x.target))

\* The events of a pair.
Own(u, t) == {n \in 1 .. Len(events) : events[n].user = u /\ events[n].target = t}

\* There is a last one, if any, and it agrees with the table.
EventsAgree(u, t) ==
  \/ Own(u, t) = {} /\ ~Follows(u, t)
  \/ \E n \in Own(u, t) :
       /\ \A m \in Own(u, t) : m <= n
       /\ events[n].clean => (events[n].type = "FollowCreated" <=> Follows(u, t))

EventsInv ==
  /\ FollowTypes
  /\ \A c \in Connections : Knows(tx[c])
  /\ \A u \in Users, t \in Targets : EventsAgree(u, t)

LEMMA TransactionFields ==
  ASSUME NEW x \in Transaction
  PROVE  /\ x.cmd \in {"none", "castVote", "addBookmark", "follow", "commitFollow", "commitUnfollow"}
         /\ x.cmd = "follow" => x.user \in Users /\ x.target \in Targets
         /\ x.cmd = "addBookmark" => x.user \in Users /\ x.item \in Items
         /\ x.cmd = "castVote" =>
              x.user \in Users /\ x.item \in Items /\ x.value \in {1, -1}
         /\ x.cmd \in {"commitFollow", "commitUnfollow"} =>
              /\ x.user \in Users /\ x.target \in Targets
              /\ x.effect \in {"insert", "delete", "none"} /\ x.clean \in BOOLEAN
              /\ [x EXCEPT !.clean = FALSE] \in Transaction
              /\ [x EXCEPT !.clean = FALSE].cmd = x.cmd
              /\ [x EXCEPT !.clean = FALSE].effect = x.effect
              /\ ~[x EXCEPT !.clean = FALSE].clean
<1> DEFINE y == [x EXCEPT !.clean = FALSE]
<1>1. CASE x = NoTransaction
  BY <1>1 DEF NoTransaction
<1>2. CASE x \in [cmd : {"castVote"}, user : Users, item : Items, value : {1, -1}]
  BY <1>2
<1>3. CASE x \in [cmd : {"addBookmark"}, user : Users, item : Items]
  BY <1>3
<1>4. CASE x \in [cmd : {"follow"}, user : Users, target : Targets]
  BY <1>4
<1>5. CASE x \in [cmd : {"commitFollow", "commitUnfollow"}, user : Users, target : Targets,
                  effect : {"insert", "delete", "none"}, clean : BOOLEAN]
  <2>1. /\ y \in [cmd : {"commitFollow", "commitUnfollow"}, user : Users, target : Targets,
                  effect : {"insert", "delete", "none"}, clean : BOOLEAN]
        /\ y.cmd = x.cmd /\ y.effect = x.effect /\ y.clean = FALSE
    BY <1>5
  <2>2. y \in Transaction
    BY <2>1 DEF Transaction
  <2> QED
    BY <1>5, <2>1, <2>2
<1> QED
  BY <1>1, <1>2, <1>3, <1>4, <1>5 DEF Transaction

LEMMA NoTransactionKnows == NoTransaction \in Transaction /\ Knows(NoTransaction)'
BY DEF Transaction, NoTransaction, Knows

\* A step that changes one transaction at most, and neither follows nor events.
LEMMA EventsQuiet ==
  ASSUME EventsInv, UNCHANGED <<follows, events>>,
         \/ UNCHANGED tx
         \/ \E c \in Connections, x \in Transaction : tx' = [tx EXCEPT ![c] = x] /\ Knows(x)'
  PROVE  EventsInv'
<1>1. FollowTypes'
  BY DEF EventsInv, FollowTypes
<1>2. ASSUME NEW c \in Connections PROVE Knows(tx[c])'
  <2>1. tx'[c] = tx[c] \/ \E x \in Transaction : tx'[c] = x /\ Knows(x)'
    BY DEF EventsInv, FollowTypes
  <2>2. CASE tx'[c] = tx[c]
    BY <2>2 DEF EventsInv, Knows, Follows
  <2>3. ASSUME NEW x \in Transaction, tx'[c] = x, Knows(x)'
        PROVE  Knows(tx[c])'
    BY <2>3 DEF Knows
  <2> QED
    BY <2>1, <2>2, <2>3
<1>3. \A u \in Users, t \in Targets : EventsAgree(u, t)'
  BY DEF EventsInv, EventsAgree, Own, Follows
<1> QED
  BY <1>1, <1>2, <1>3 DEF EventsInv

\* What a commit does to the follows table.
LEMMA ApplyMoves ==
  ASSUME EventsInv, NEW c \in Connections, Apply(c),
         NEW u, u = tx[c].user, NEW t, t = tx[c].target,
         tx[c].cmd \in {"commitFollow", "commitUnfollow"}
  PROVE  /\ follows' \in [Users -> List(Targets)]
         /\ \A v \in Users, w \in Targets :
              v # u \/ w # t => (Follows(v, w)' <=> Follows(v, w))
         /\ tx[c].effect = "insert" => Follows(u, t)'
         /\ tx[c].effect = "delete" => ~Follows(u, t)'
         /\ tx[c].effect = "none" => (Follows(u, t)' <=> Follows(u, t))
         /\ \A v \in Users : RowMoves(Targets, follows[v], follows'[v])
<1> DEFINE s == follows[u]
<1>1. u \in Users /\ t \in Targets /\ tx[c].effect \in {"insert", "delete", "none"}
  BY TransactionFields DEF EventsInv, FollowTypes
<1>2. s \in List(Targets) /\ follows \in [Users -> List(Targets)]
  BY <1>1 DEF EventsInv, FollowTypes
<1>3. PICK l : /\ follows' = [follows EXCEPT ![u] = l]
               /\ tx[c].effect = "insert" => l \in Put(s, t)
               /\ tx[c].effect = "delete" => l = Without(s, t)
               /\ tx[c].effect = "none" => l = s
  BY <1>1 DEF Apply
<1> HIDE DEF s
<1>4. /\ l \in List(Targets)
      /\ \A x : x # t => (Contains(l, x) <=> Contains(s, x))
      /\ tx[c].effect = "insert" => Contains(l, t)
      /\ tx[c].effect = "delete" => ~Contains(l, t)
      /\ tx[c].effect = "none" => l = s
      /\ RowMoves(Targets, s, l)
  <2>1. CASE tx[c].effect = "insert"
    BY <1>1, <1>2, <1>3, <2>1, PutContains, PutMoves
  <2>2. CASE tx[c].effect = "delete"
    BY <1>1, <1>2, <1>3, <2>2, WithoutContains, WithoutMoves
  <2>3. CASE tx[c].effect = "none"
    BY <1>2, <1>3, <2>3 DEF RowMoves
  <2> QED
    BY <1>1, <2>1, <2>2, <2>3
<1>5. follows' \in [Users -> List(Targets)] /\ follows'[u] = l /\ \A v \in Users \ {u} : follows'[v] = follows[v]
  BY <1>1, <1>2, <1>3, <1>4
<1>6. s = follows[u]
  BY DEF s
<1>7. \A v \in Users : RowMoves(Targets, follows[v], follows'[v])
  BY <1>4, <1>5, <1>6 DEF RowMoves
<1> QED
  BY <1>1, <1>4, <1>5, <1>6, <1>7 DEF Follows

\* A commit tells the truth about the pair, or is not clean.
LEMMA CommitKeepsEvents ==
  ASSUME EventsInv, NEW c \in Connections, Apply(c), CloseOvertaking(c),
         NEW u, u = tx[c].user, NEW t, t = tx[c].target,
         \/ tx[c].cmd = "commitFollow" /\ Announce(c, "FollowCreated")
         \/ tx[c].cmd = "commitUnfollow" /\ Announce(c, "FollowRemoved")
  PROVE  EventsInv'
<1> DEFINE type == IF tx[c].cmd = "commitFollow" THEN "FollowCreated" ELSE "FollowRemoved"
           e == [user |-> u, target |-> t, type |-> type, clean |-> tx[c].clean]
<1>1. /\ u \in Users /\ t \in Targets /\ tx[c].effect \in {"insert", "delete", "none"}
      /\ tx[c].clean \in BOOLEAN /\ tx[c].cmd \in {"commitFollow", "commitUnfollow"}
  BY TransactionFields DEF EventsInv, FollowTypes
<1>2. /\ e \in FollowEvent /\ events' = Append(events, e)
      /\ e.user = u /\ e.target = t /\ e.type = type /\ e.clean = tx[c].clean
  BY <1>1 DEF Announce, FollowEvent
<1>3. /\ events \in Seq(FollowEvent) /\ events' \in Seq(FollowEvent)
      /\ Len(events') = Len(events) + 1 /\ events'[Len(events) + 1] = e
      /\ Len(events) \in Nat
      /\ \A n \in 1 .. Len(events) : events'[n] = events[n]
  BY <1>2 DEF EventsInv, FollowTypes
<1>4. e.clean => (e.type = "FollowCreated" <=> Follows(u, t)')
  <2>1. Knows(tx[c])
    BY DEF EventsInv
  <2>2. CASE tx[c].effect = "none"
    BY <1>1, <1>2, <2>1, <2>2, ApplyMoves DEF Knows
  <2>3. CASE tx[c].effect # "none"
    BY <1>1, <1>2, <2>1, <2>3, ApplyMoves DEF Knows
  <2> QED
    BY <2>2, <2>3
<1> HIDE DEF type, e
<1>5. ASSUME NEW v \in Users, NEW w \in Targets PROVE EventsAgree(v, w)'
  <2>1. CASE v = u /\ w = t
    <3> DEFINE n == Len(events) + 1
    <3>1. n \in Own(v, w)' /\ \A m \in Own(v, w)' : m <= n
      BY <1>2, <1>3, <2>1 DEF Own
    <3>2. events'[n].clean => (events'[n].type = "FollowCreated" <=> Follows(v, w)')
      BY <1>3, <1>4, <2>1
    <3> QED
      BY <3>1, <3>2 DEF EventsAgree
  <2>2. CASE v # u \/ w # t
    <3>1. Own(v, w)' = Own(v, w) /\ \A m \in Own(v, w) : events'[m] = events[m]
      BY <1>2, <1>3, <2>2 DEF Own
    <3>2. Follows(v, w)' <=> Follows(v, w)
      BY <1>1, <2>2, ApplyMoves
    <3>3. EventsAgree(v, w)
      BY DEF EventsInv
    <3> QED
      BY <3>1, <3>2, <3>3 DEF EventsAgree
  <2> QED
    BY <2>1, <2>2
<1>6. ASSUME NEW d \in Connections
      PROVE  tx'[d] \in Transaction /\ Knows(tx[d])'
  <2>1. tx' = [b \in Connections |->
                IF b = c THEN NoTransaction
                ELSE IF b \in Writers(u, t) THEN [tx[b] EXCEPT !.clean = FALSE] ELSE tx[b]]
    BY DEF CloseOvertaking
  <2>2. tx[d] \in Transaction
    BY DEF EventsInv, FollowTypes
  <2>3. CASE d = c
    <3>1. tx'[d] = NoTransaction
      BY <2>1, <2>3
    <3> QED
      BY <3>1, NoTransactionKnows DEF Knows
  <2>4. CASE d # c /\ d \in Writers(u, t)
    <3>1. tx'[d] = [tx[d] EXCEPT !.clean = FALSE]
      BY <2>1, <2>4
    <3>2. tx[d].cmd \in {"commitFollow", "commitUnfollow"}
      BY <2>4 DEF Writers
    <3>3. /\ tx'[d] \in Transaction /\ tx'[d].cmd = tx[d].cmd /\ tx'[d].effect = tx[d].effect
          /\ ~tx'[d].clean
      BY <2>2, <3>1, <3>2, TransactionFields
    <3>4. Knows(tx[d])
      BY DEF EventsInv
    <3> QED
      BY <3>3, <3>4 DEF Knows
  <2>5. CASE d # c /\ d \notin Writers(u, t)
    <3>1. tx'[d] = tx[d]
      BY <2>1, <2>5
    <3>2. PICK x \in Transaction : x = tx[d]
      BY <2>2
    <3>3. x.cmd \in {"commitFollow", "commitUnfollow"} =>
            (Follows(x.user, x.target)' <=> Follows(x.user, x.target))
      <4> SUFFICES ASSUME x.cmd \in {"commitFollow", "commitUnfollow"}
                   PROVE  Follows(x.user, x.target)' <=> Follows(x.user, x.target)
        OBVIOUS
      <4>1. x.user \in Users /\ x.target \in Targets
        BY TransactionFields
      <4>2. x.user # u \/ x.target # t
        BY <2>5, <3>2 DEF Writers
      <4> QED
        BY <1>1, <4>1, <4>2, ApplyMoves
    <3>4. Knows(x)'
      BY <3>2, <3>3 DEF EventsInv, Knows
    <3> QED
      BY <2>2, <3>1, <3>2, <3>4 DEF Knows
  <2> QED
    BY <2>3, <2>4, <2>5
<1>7. FollowTypes'
  <2>1. tx' = [b \in Connections |-> tx'[b]]
    BY DEF CloseOvertaking
  <2> QED
    BY <1>1, <1>3, <1>6, <2>1, ApplyMoves DEF FollowTypes
<1> QED
  BY <1>5, <1>6, <1>7 DEF EventsInv

\* A command that has not written knows nothing of the pair.
LEMMA OpenKnows ==
  ASSUME NEW x \in Transaction, x.cmd \notin {"commitFollow", "commitUnfollow"}
  PROVE  Knows(x)'
BY DEF Knows

LEMMA EventsNext == EventsInv /\ [EngagementNext]_vars => EventsInv'
<1> SUFFICES ASSUME EventsInv, [EngagementNext]_vars PROVE EventsInv'
  OBVIOUS
<1>1. CASE UNCHANGED vars
  BY <1>1, EventsQuiet DEF vars, state
<1>2. CASE Read
  <2>1. UNCHANGED <<state, tx>>
    BY <1>2 DEF Read, GetVoteSummary, ReadTotals, ReadUpvotes, ReadMine, OpenListing, ReadFollows,
       ReadPage, EndRead
  <2> QED
    BY <2>1, EventsQuiet DEF state
<1>3. ASSUME NEW u \in Users, NEW i \in Items, RemoveVote(u, i) \/ RemoveBookmark(u, i)
      PROVE  EventsInv'
  BY <1>3, EventsQuiet DEF RemoveVote, RemoveBookmark
<1>4. ASSUME NEW u \in Users, NEW i \in Items, NEW c \in Connections, NEW value \in {1, -1},
             FindVotable(c, u, i, value)
      PROVE  EventsInv'
  <2> DEFINE x == [cmd |-> "castVote", user |-> u, item |-> i, value |-> value]
  <2>1. x \in Transaction /\ x.cmd \notin {"commitFollow", "commitUnfollow"}
    BY DEF Transaction
  <2>2. tx' = [tx EXCEPT ![c] = x] /\ UNCHANGED <<follows, events>>
    BY <1>4 DEF FindVotable, Open, state
  <2> QED
    BY <2>1, <2>2, OpenKnows, EventsQuiet
<1>5. ASSUME NEW u \in Users, NEW i \in Items, NEW c \in Connections, FindBookmarkable(c, u, i)
      PROVE  EventsInv'
  <2> DEFINE x == [cmd |-> "addBookmark", user |-> u, item |-> i]
  <2>1. x \in Transaction /\ x.cmd \notin {"commitFollow", "commitUnfollow"}
    BY DEF Transaction
  <2>2. tx' = [tx EXCEPT ![c] = x] /\ UNCHANGED <<follows, events>>
    BY <1>5 DEF FindBookmarkable, Open, state
  <2> QED
    BY <2>1, <2>2, OpenKnows, EventsQuiet
<1>6. ASSUME NEW u \in Users, NEW t \in Targets, NEW c \in Connections, FindTarget(c, u, t)
      PROVE  EventsInv'
  <2> DEFINE x == [cmd |-> "follow", user |-> u, target |-> t]
  <2>1. x \in Transaction /\ x.cmd \notin {"commitFollow", "commitUnfollow"}
    BY DEF Transaction
  <2>2. tx' = [tx EXCEPT ![c] = x] /\ UNCHANGED <<follows, events>>
    BY <1>6 DEF FindTarget, Open, state
  <2> QED
    BY <2>1, <2>2, OpenKnows, EventsQuiet
<1>7. ASSUME NEW cmd \in {"commitFollow", "commitUnfollow"}, NEW u \in Users, NEW t \in Targets,
             NEW effect \in {"insert", "delete", "none"}, NEW c \in Connections,
             Write(c, cmd, u, t, effect), UNCHANGED <<follows, events>>,
             cmd = "commitFollow" => effect # "delete" /\ (effect = "none" => Follows(u, t)),
             cmd = "commitUnfollow" => effect # "insert" /\ (effect = "none" => ~Follows(u, t))
      PROVE  EventsInv'
  <2> DEFINE x == [cmd |-> cmd, user |-> u, target |-> t, effect |-> effect, clean |-> TRUE]
  <2>1. /\ x \in Transaction /\ x.cmd = cmd /\ x.user = u /\ x.target = t
        /\ x.effect = effect /\ x.clean = TRUE
    BY DEF Transaction
  <2>2. tx' = [tx EXCEPT ![c] = x]
    BY <1>7 DEF Write, Open
  <2> HIDE DEF x
  <2>3. Follows(u, t)' <=> Follows(u, t)
    BY <1>7 DEF Follows
  <2>4. Knows(x)'
    BY <1>7, <2>1, <2>3 DEF Knows
  <2> QED
    BY <1>7, <2>1, <2>2, <2>4, EventsQuiet
<1>8. ASSUME NEW u \in Users, NEW t \in Targets, NEW c \in Connections, RemoveFollow(c, u, t)
      PROVE  EventsInv'
  <2> DEFINE effect == IF Contains(follows[u], t) THEN "delete" ELSE "none"
  <2>1. Write(c, "commitUnfollow", u, t, effect) /\ UNCHANGED <<follows, events>>
    BY <1>8 DEF RemoveFollow, state
  <2>2. effect \in {"delete", "none"} /\ (effect = "none" => ~Follows(u, t))
    BY DEF Follows
  <2> HIDE DEF effect
  <2> QED
    BY <1>7, <2>1, <2>2
<1>9. ASSUME NEW c \in Connections, AddFollow(c) PROVE EventsInv'
  <2>1. PICK u \in Users, t \in Targets : u = tx[c].user /\ t = tx[c].target
    BY <1>9, TransactionFields DEF AddFollow, EventsInv, FollowTypes
  <2>2. UNCHANGED <<follows, events>>
    BY <1>9 DEF AddFollow, state
  <2>3. \/ Follows(u, t) /\ Write(c, "commitFollow", u, t, "none")
        \/ Write(c, "commitFollow", u, t, "insert")
    BY <1>9, <2>1 DEF AddFollow, Follows
  <2> QED
    BY <1>7, <2>2, <2>3
<1>10. ASSUME NEW c \in Connections, CastVote(c) \/ AddBookmark(c) \/ Rollback(c)
       PROVE  EventsInv'
  <2>1. tx' = [tx EXCEPT ![c] = NoTransaction] /\ UNCHANGED <<follows, events>>
    BY <1>10 DEF CastVote, AddBookmark, Rollback, Close, state
  <2> QED
    BY <2>1, NoTransactionKnows, EventsQuiet
<1>11. ASSUME NEW c \in Connections, FollowTarget(c) \/ UnfollowTarget(c) PROVE EventsInv'
  <2>1. PICK u, t : u = tx[c].user /\ t = tx[c].target
    OBVIOUS
  <2> QED
    BY <1>11, <2>1, CommitKeepsEvents DEF FollowTarget, UnfollowTarget
<1>12. ASSUME NEW i \in Items, PublishItem(i) \/ EditItem(i) PROVE EventsInv'
  BY <1>12, EventsQuiet DEF PublishItem, EditItem
<1>13. ASSUME NEW t \in Targets, SoftDelete(t) PROVE EventsInv'
  BY <1>13, EventsQuiet DEF SoftDelete
<1>14. CASE Command
  BY <1>3, <1>4, <1>5, <1>6, <1>8, <1>9, <1>10, <1>11, <1>12, <1>13, <1>14 DEF Command
<1> QED
  BY <1>1, <1>2, <1>14 DEF EngagementNext

LEMMA EventsInit == EngagementInit => EventsInv
<1> SUFFICES ASSUME EngagementInit PROVE EventsInv
  OBVIOUS
<1>1. <<>> \in List(Targets) /\ <<>> \in Seq(FollowEvent) /\ \A x : ~Contains(<<>>, x)
  BY DEF List, IsInjective, Contains
<1>2. FollowTypes
  BY <1>1, NoTransactionKnows DEF EngagementInit, FollowTypes
<1>3. \A c \in Connections : Knows(tx[c])
  BY DEF EngagementInit, NoTransaction, Knows
<1>4. \A u \in Users, t \in Targets : EventsAgree(u, t)
  BY <1>1 DEF EngagementInit, EventsAgree, Own, Follows
<1> QED
  BY <1>2, <1>3, <1>4 DEF EventsInv

\* The last event of a pair agrees with the follows table, unless another command
\* on the pair committed while the one behind that event was open.
THEOREM EventsSafe == EngagementSpec => []EventsMatchFollows
<1>1. EventsInv => EventsMatchFollows
  <2> SUFFICES ASSUME EventsInv, NEW u \in Users, NEW t \in Targets
               PROVE  LET last == SelectLastInSeq(events, LAMBDA e : e.user = u /\ e.target = t) IN
                      IF last = 0 THEN ~Contains(follows[u], t)
                      ELSE events[last].clean =>
                             (events[last].type = "FollowCreated" <=> Contains(follows[u], t))
    BY DEF EventsMatchFollows
  <2> DEFINE last == SelectLastInSeq(events, LAMBDA e : e.user = u /\ e.target = t)
  <2>1. last = IF Own(u, t) # {} THEN Max(Own(u, t)) ELSE 0
    BY DEF SelectLastInSeq, Own
  <2>2. EventsAgree(u, t) /\ Own(u, t) \subseteq Nat \ {0}
    BY DEF EventsInv, FollowTypes, Own
  <2>3. CASE Own(u, t) = {}
    BY <2>1, <2>2, <2>3 DEF EventsAgree, Follows
  <2>4. CASE Own(u, t) # {}
    <3>1. PICK n \in Own(u, t) :
            /\ \A m \in Own(u, t) : m <= n
            /\ events[n].clean => (events[n].type = "FollowCreated" <=> Follows(u, t))
      BY <2>2, <2>4 DEF EventsAgree
    <3>2. Max(Own(u, t)) = n
      BY <2>2, <3>1 DEF Max
    <3> QED
      BY <2>1, <2>2, <2>4, <3>1, <3>2 DEF Follows
  <2> QED
    BY <2>3, <2>4
<1> QED
  BY <1>1, EventsInit, EventsNext, PTL DEF EngagementSpec

-------------------------------------------------------------------------------
(* Types *)

\* A user has one vote on an item, and there are finitely many votes.
VoteTypes ==
  /\ votes \subseteq Vote /\ IsFiniteSet(votes)
  /\ \A v, w \in votes : v.item = w.item /\ v.user = w.user => v = w

\* All but what FollowTypes says.
ContentTypes ==
  /\ live \subseteq Targets
  /\ published \in List(Items)
  /\ recent \in List(Items)
  /\ \A x : Contains(recent, x) <=> x \in live \cap Items
  /\ bookmarks \in [Users -> List(Items)]
  /\ VoteTypes
  /\ reader \in Reader
  /\ commands \in 0 .. MaxCommands

-------------------------------------------------------------------------------
(* What a command does to the listings *)

LEMMA CommandMoves ==
  ASSUME EventsInv, ContentTypes, Command
  PROVE  /\ published' \in List(Items) /\ RowMoves(Items, published, published')
         /\ recent' \in List(Items) /\ RowMoves(Items, recent, recent')
         /\ bookmarks' \in [Users -> List(Items)]
         /\ \A u \in Users : RowMoves(Items, bookmarks[u], bookmarks'[u])
         /\ follows' \in [Users -> List(Targets)]
         /\ \A u \in Users : RowMoves(Targets, follows[u], follows'[u])
         /\ live' \subseteq Targets
         /\ \A x : Contains(recent', x) <=> x \in live' \cap Items
<1>1. \/ UNCHANGED <<live, published, recent, bookmarks, follows>>
      \/ \E c \in Connections : AddBookmark(c)
      \/ \E u \in Users, i \in Items : RemoveBookmark(u, i)
      \/ \E c \in Connections : FollowTarget(c) \/ UnfollowTarget(c)
      \/ \E i \in Items : PublishItem(i) \/ EditItem(i)
      \/ \E t \in Targets : SoftDelete(t)
  <2> DEFINE Still == UNCHANGED <<live, published, recent, bookmarks, follows>>
  <2>1. \A u \in Users, i \in Items : RemoveVote(u, i) => Still
    BY DEF RemoveVote
  <2>2. \A c \in Connections, u \in Users, i \in Items :
          /\ \A value \in {1, -1} : FindVotable(c, u, i, value) => Still
          /\ FindBookmarkable(c, u, i) => Still
    BY DEF FindVotable, FindBookmarkable, state
  <2>3. \A c \in Connections, u \in Users, t \in Targets :
          FindTarget(c, u, t) \/ RemoveFollow(c, u, t) => Still
    BY DEF FindTarget, RemoveFollow, state
  <2>4. \A c \in Connections : CastVote(c) \/ AddFollow(c) \/ Rollback(c) => Still
    BY DEF CastVote, AddFollow, Rollback, state
  <2> HIDE DEF Still
  <2>5. \/ Still
        \/ \E c \in Connections : AddBookmark(c)
        \/ \E u \in Users, i \in Items : RemoveBookmark(u, i)
        \/ \E c \in Connections : FollowTarget(c) \/ UnfollowTarget(c)
        \/ \E i \in Items : PublishItem(i) \/ EditItem(i)
        \/ \E t \in Targets : SoftDelete(t)
    BY <2>1, <2>2, <2>3, <2>4 DEF Command
  <2> QED
    BY <2>5 DEF Still
<1>2. /\ published \in List(Items) /\ recent \in List(Items) /\ live \subseteq Targets
      /\ bookmarks \in [Users -> List(Items)] /\ follows \in [Users -> List(Targets)]
      /\ \A x : Contains(recent, x) <=> x \in live \cap Items
  BY DEF ContentTypes, EventsInv, FollowTypes
<1>3. \A T, s : RowMoves(T, s, s)
  BY DEF RowMoves
<1>4. CASE UNCHANGED <<live, published, recent, bookmarks, follows>>
  BY <1>2, <1>3, <1>4
<1>5. ASSUME NEW u \in Users, NEW l \in List(Items), RowMoves(Items, bookmarks[u], l),
             bookmarks' = [bookmarks EXCEPT ![u] = l],
             UNCHANGED <<live, published, recent, follows>>
      PROVE  /\ bookmarks' \in [Users -> List(Items)]
             /\ \A v \in Users : RowMoves(Items, bookmarks[v], bookmarks'[v])
  BY <1>2, <1>3, <1>5
<1>6. ASSUME NEW c \in Connections, AddBookmark(c)
      PROVE  /\ bookmarks' \in [Users -> List(Items)]
             /\ \A v \in Users : RowMoves(Items, bookmarks[v], bookmarks'[v])
             /\ UNCHANGED <<live, published, recent, follows>>
  <2>1. PICK u \in Users, i \in Items : u = tx[c].user /\ i = tx[c].item
    BY <1>6, TransactionFields DEF AddBookmark, EventsInv, FollowTypes
  <2>2. UNCHANGED <<live, published, recent, follows>>
    BY <1>6 DEF AddBookmark
  <2>3. PICK l \in Put(bookmarks[u], i) : bookmarks' = [bookmarks EXCEPT ![u] = l]
    BY <1>6, <2>1 DEF AddBookmark
  <2>4. l \in List(Items) /\ RowMoves(Items, bookmarks[u], l)
    <3>1. bookmarks[u] \in List(Items)
      BY <1>2
    <3> QED
      BY <3>1, PutContains, PutMoves
  <2> QED
    BY <1>5, <2>2, <2>3, <2>4
<1>7. ASSUME NEW u \in Users, NEW i \in Items, RemoveBookmark(u, i)
      PROVE  /\ bookmarks' \in [Users -> List(Items)]
             /\ \A v \in Users : RowMoves(Items, bookmarks[v], bookmarks'[v])
             /\ UNCHANGED <<live, published, recent, follows>>
  <2>1. UNCHANGED <<live, published, recent, follows>>
    BY <1>7 DEF RemoveBookmark
  <2>2. bookmarks' = [bookmarks EXCEPT ![u] = Without(bookmarks[u], i)]
    BY <1>7 DEF RemoveBookmark
  <2>3. bookmarks[u] \in List(Items)
    BY <1>2
  <2>4. Without(bookmarks[u], i) \in List(Items) /\ RowMoves(Items, bookmarks[u], Without(bookmarks[u], i))
    BY <2>3, WithoutContains, WithoutMoves
  <2> QED
    BY <1>5, <2>1, <2>2, <2>4
<1>8. ASSUME NEW c \in Connections, FollowTarget(c) \/ UnfollowTarget(c)
      PROVE  /\ follows' \in [Users -> List(Targets)]
             /\ \A v \in Users : RowMoves(Targets, follows[v], follows'[v])
             /\ UNCHANGED <<live, published, recent, bookmarks>>
  <2>1. PICK u, t : u = tx[c].user /\ t = tx[c].target
    OBVIOUS
  <2>2. /\ Apply(c) /\ tx[c].cmd \in {"commitFollow", "commitUnfollow"}
        /\ UNCHANGED <<live, published, recent, bookmarks>>
    BY <1>8 DEF FollowTarget, UnfollowTarget
  <2> QED
    BY <2>1, <2>2, ApplyMoves
<1>9. ASSUME NEW i \in Items, i \in live, Touch(i), live' = live
      PROVE  /\ recent' \in List(Items) /\ RowMoves(Items, recent, recent')
             /\ \A x : Contains(recent', x) <=> x \in live' \cap Items
  BY <1>2, <1>9, TouchMoves DEF Touch
<1>10. ASSUME NEW i \in Items, PublishItem(i) \/ EditItem(i)
       PROVE  /\ published' \in List(Items) /\ RowMoves(Items, published, published')
              /\ i \in live /\ Touch(i) /\ UNCHANGED <<live, bookmarks, follows>>
  <2>1. CASE PublishItem(i)
    <3>1. ~Contains(published, i) /\ published' \in Inserted(published, i)
      BY <2>1 DEF PublishItem
    <3>2. published' \in List(Items) /\ RowMoves(Items, published, published')
      BY <1>2, <3>1, InsertedContains DEF RowMoves, Grows
    <3> QED
      BY <2>1, <3>2 DEF PublishItem
  <2>2. CASE EditItem(i)
    BY <1>2, <1>3, <2>2 DEF EditItem
  <2> QED
    BY <1>10, <2>1, <2>2
<1>11. ASSUME NEW t \in Targets, SoftDelete(t)
       PROVE  /\ published' \in List(Items) /\ RowMoves(Items, published, published')
              /\ recent' \in List(Items) /\ RowMoves(Items, recent, recent')
              /\ UNCHANGED <<bookmarks, follows>> /\ live' = live \ {t}
              /\ \A x : Contains(recent', x) <=> x \in live' \cap Items
  <2>1. /\ live' = live \ {t} /\ published' = Without(published, t) /\ recent' = Without(recent, t)
        /\ UNCHANGED <<bookmarks, follows>>
    BY <1>11 DEF SoftDelete, Hide
  <2>2. /\ published' \in List(Items) /\ RowMoves(Items, published, published')
        /\ recent' \in List(Items) /\ RowMoves(Items, recent, recent')
        /\ \A x : Contains(recent', x) <=> Contains(recent, x) /\ x # t
    BY <1>2, <2>1, WithoutContains, WithoutMoves
  <2> QED
    BY <1>2, <2>1, <2>2
<1>12. CASE \E c \in Connections : AddBookmark(c)
  BY <1>2, <1>3, <1>6, <1>12
<1>13. CASE \E u \in Users, i \in Items : RemoveBookmark(u, i)
  BY <1>2, <1>3, <1>7, <1>13
<1>14. CASE \E c \in Connections : FollowTarget(c) \/ UnfollowTarget(c)
  BY <1>2, <1>3, <1>8, <1>14
<1>15. CASE \E i \in Items : PublishItem(i) \/ EditItem(i)
  BY <1>2, <1>3, <1>9, <1>10, <1>15
<1>16. CASE \E t \in Targets : SoftDelete(t)
  BY <1>2, <1>3, <1>11, <1>16
<1> QED
  BY <1>1, <1>4, <1>12, <1>13, <1>14, <1>15, <1>16

-------------------------------------------------------------------------------
(* What a command does to the votes *)

\* What is cast or removed is one vote.
LEMMA VotesMove ==
  ASSUME EventsInv, ContentTypes, Command
  PROVE  \/ votes' = votes
         \/ \E u \in Users, i \in Items, cast \in SUBSET Vote :
              /\ votes' = {v \in votes : ~(v.item = i /\ v.user = u)} \cup cast
              /\ \A v, w \in cast : v = w /\ v.item = i /\ v.user = u
<1>1. \/ votes' = votes
      \/ \E c \in Connections : CastVote(c)
      \/ \E u \in Users, i \in Items : RemoveVote(u, i)
  <2>1. \A u \in Users, i \in Items : RemoveBookmark(u, i) => votes' = votes
    BY DEF RemoveBookmark
  <2>2. \A c \in Connections, u \in Users, i \in Items :
          /\ \A value \in {1, -1} : FindVotable(c, u, i, value) => votes' = votes
          /\ FindBookmarkable(c, u, i) => votes' = votes
    BY DEF FindVotable, FindBookmarkable, state
  <2>3. \A c \in Connections, u \in Users, t \in Targets :
          FindTarget(c, u, t) \/ RemoveFollow(c, u, t) => votes' = votes
    BY DEF FindTarget, RemoveFollow, state
  <2>4. \A c \in Connections :
          AddBookmark(c) \/ AddFollow(c) \/ FollowTarget(c) \/ UnfollowTarget(c) \/ Rollback(c)
            => votes' = votes
    BY DEF AddBookmark, AddFollow, FollowTarget, UnfollowTarget, Rollback, state
  <2>5. \A i \in Items : PublishItem(i) \/ EditItem(i) => votes' = votes
    BY DEF PublishItem, EditItem
  <2>6. \A t \in Targets : SoftDelete(t) => votes' = votes
    BY DEF SoftDelete
  <2> QED
    BY <2>1, <2>2, <2>3, <2>4, <2>5, <2>6 DEF Command
<1>2. ASSUME NEW c \in Connections, CastVote(c)
      PROVE  \E u \in Users, i \in Items, cast \in SUBSET Vote :
               /\ votes' = {v \in votes : ~(v.item = i /\ v.user = u)} \cup cast
               /\ \A v, w \in cast : v = w /\ v.item = i /\ v.user = u
  <2>1. PICK u \in Users, i \in Items, value \in {1, -1} :
          u = tx[c].user /\ i = tx[c].item /\ value = tx[c].value
    BY <1>2, TransactionFields DEF CastVote, EventsInv, FollowTypes
  <2> DEFINE cast == {[item |-> i, user |-> u, value |-> value]}
  <2>2. votes' = {v \in votes : ~(v.item = i /\ v.user = u)} \cup cast
    BY <1>2, <2>1 DEF CastVote, UpsertVote
  <2>3. cast \in SUBSET Vote /\ \A v, w \in cast : v = w /\ v.item = i /\ v.user = u
    BY DEF Vote
  <2> QED
    BY <2>2, <2>3
<1>3. ASSUME NEW u \in Users, NEW i \in Items, RemoveVote(u, i)
      PROVE  votes' = {v \in votes : ~(v.item = i /\ v.user = u)} \cup {}
  BY <1>3 DEF RemoveVote
<1>4. CASE \E u \in Users, i \in Items : RemoveVote(u, i)
  <2>1. PICK u \in Users, i \in Items : RemoveVote(u, i)
    BY <1>4
  <2>2. votes' = {v \in votes : ~(v.item = i /\ v.user = u)} \cup {}
    BY <1>3, <2>1
  <2>3. {} \in SUBSET Vote /\ \A v, w \in {} : v = w /\ v.item = i /\ v.user = u
    OBVIOUS
  <2> QED
    BY <2>2, <2>3
<1> QED
  BY <1>1, <1>2, <1>4

\* A finite set that is in another but for one element is not larger by more.
LEMMA ButForOne ==
  ASSUME NEW S, IsFiniteSet(S), NEW x, NEW R, R \subseteq S \cup {x}
  PROVE  IsFiniteSet(R) /\ Cardinality(R) \in Nat /\ Cardinality(S) \in Nat
         /\ Cardinality(R) <= Cardinality(S) + 1
<1>1. /\ IsFiniteSet(S \cup {x}) /\ Cardinality(S) \in Nat
      /\ Cardinality(S \cup {x}) <= Cardinality(S) + 1
  <2>1. Cardinality(S) \in Nat
    BY FS_CardinalityType
  <2>2. /\ IsFiniteSet(S \cup {x})
        /\ Cardinality(S \cup {x}) = IF x \in S THEN Cardinality(S) ELSE Cardinality(S) + 1
    BY FS_AddElement
  <2> QED
    BY <2>1, <2>2
<1>2. IsFiniteSet(R) /\ Cardinality(R) <= Cardinality(S \cup {x})
  BY <1>1, FS_Subset
<1>3. Cardinality(R) \in Nat /\ Cardinality(S \cup {x}) \in Nat
  BY <1>1, <1>2, FS_CardinalityType
<1> QED
  BY <1>1, <1>2, <1>3

Ups(vs, i) == {v \in vs : v.item = i /\ v.value = 1}

Downs(vs, i) == {v \in vs : v.item = i /\ v.value = -1}

LEMMA VoteCounts ==
  ASSUME NEW vs \in SUBSET Vote, IsFiniteSet(vs), NEW i
  PROVE  /\ IsFiniteSet(Ups(vs, i))
         /\ Cardinality(Ups(vs, i)) \in Nat /\ Cardinality(Downs(vs, i)) \in Nat
         /\ Cardinality({v \in vs : v.item = i})
              = Cardinality(Ups(vs, i)) + Cardinality(Downs(vs, i))
<1> DEFINE U == Ups(vs, i)
           D == Downs(vs, i)
<1>1. IsFiniteSet(U) /\ IsFiniteSet(D)
  BY FS_Subset DEF Ups, Downs
<1>2. U \cup D = {v \in vs : v.item = i} /\ U \cap D = {}
  BY DEF Vote, Ups, Downs
<1> HIDE DEF U, D
<1>3. Cardinality(U) \in Nat /\ Cardinality(D) \in Nat
  BY <1>1, FS_CardinalityType
<1>4. Cardinality(U \cup D) = Cardinality(U) + Cardinality(D) - Cardinality(U \cap D)
  BY <1>1, FS_Union
<1> QED
  <2>1. Cardinality(U \cap D) = 0
    BY <1>2, FS_EmptySet
  <2>2. Cardinality(U \cup D) = Cardinality(U) + Cardinality(D)
    BY <1>3, <1>4, <2>1
  <2> QED
    BY <1>1, <1>2, <1>3, <2>2 DEF U, D

LEMMA VotesCounted ==
  /\ \A i : Upvotes(i) = Cardinality(Ups(votes, i)) /\ Downvotes(i) = Cardinality(Downs(votes, i))
  /\ \A i : Upvotes(i)' = Cardinality(Ups(votes', i))
<1>1. ASSUME NEW i
      PROVE  /\ {v \in VotesOf(i) : v.value = 1} = Ups(votes, i)
             /\ {v \in VotesOf(i) : v.value = -1} = Downs(votes, i)
             /\ {v \in VotesOf(i) : v.value = 1}' = Ups(votes', i)
  BY DEF VotesOf, Ups, Downs
<1> QED
  BY <1>1 DEF Upvotes, Downvotes

\* One vote changes a count by one at most.
LEMMA VotesNear ==
  ASSUME EventsInv, ContentTypes, Command
  PROVE  /\ VoteTypes'
         /\ \A i \in Items : Upvotes(i)' <= Upvotes(i) + 1 /\ Upvotes(i) <= Upvotes(i)' + 1
<1>1. VoteTypes
  BY DEF ContentTypes
<1>2. CASE votes' = votes
  <2>1. VoteTypes'
    BY <1>1, <1>2 DEF VoteTypes
  <2>2. \A i \in Items : Upvotes(i)' = Upvotes(i) /\ Upvotes(i) \in Nat
    BY <1>1, <1>2, VotesCounted, VoteCounts DEF VoteTypes
  <2> QED
    BY <2>1, <2>2
<1>3. ASSUME NEW u \in Users, NEW i \in Items, NEW cast \in SUBSET Vote,
             votes' = {v \in votes : ~(v.item = i /\ v.user = u)} \cup cast,
             \A v, w \in cast : v = w /\ v.item = i /\ v.user = u
      PROVE  /\ VoteTypes'
             /\ \A j \in Items : Upvotes(j)' <= Upvotes(j) + 1 /\ Upvotes(j) <= Upvotes(j)' + 1
  <2>1. PICK x : cast \subseteq {x}
    BY <1>3
  <2>2. IsFiniteSet(votes) /\ votes' \subseteq votes \cup {x}
    BY <1>1, <1>3, <2>1 DEF VoteTypes
  <2>3. IsFiniteSet(votes')
    BY <2>2, ButForOne
  <2>4. votes' \subseteq Vote /\ \A v, w \in votes' : v.item = w.item /\ v.user = w.user => v = w
    BY <1>1, <1>3 DEF VoteTypes
  <2>5. VoteTypes'
    BY <2>3, <2>4 DEF VoteTypes
  <2>6. PICK y : votes \subseteq votes' \cup {y}
    <3>1. CASE \E v \in votes : v.item = i /\ v.user = u
      <4>1. PICK v \in votes : v.item = i /\ v.user = u
        BY <3>1
      <4>2. votes \subseteq votes' \cup {v}
        BY <1>1, <1>3, <4>1 DEF VoteTypes
      <4> QED
        BY <4>2
    <3>2. CASE ~\E v \in votes : v.item = i /\ v.user = u
      BY <1>3, <3>2
    <3> QED
      BY <3>1, <3>2
  <2>7. ASSUME NEW j \in Items PROVE Upvotes(j)' <= Upvotes(j) + 1 /\ Upvotes(j) <= Upvotes(j)' + 1
    <3>1. Ups(votes', j) \subseteq Ups(votes, j) \cup {x} /\ Ups(votes, j) \subseteq Ups(votes', j) \cup {y}
      BY <2>2, <2>6 DEF Ups
    <3>2. IsFiniteSet(Ups(votes, j)) /\ IsFiniteSet(Ups(votes', j))
      BY <1>1, <2>3, <2>4, VoteCounts DEF VoteTypes
    <3>3. /\ Cardinality(Ups(votes', j)) <= Cardinality(Ups(votes, j)) + 1
          /\ Cardinality(Ups(votes, j)) <= Cardinality(Ups(votes', j)) + 1
      BY <3>1, <3>2, ButForOne
    <3> QED
      BY <3>3, VotesCounted
  <2> QED
    BY <2>5, <2>7
<1> QED
  BY <1>2, <1>3, VotesMove

-------------------------------------------------------------------------------
(* The reader *)

Summaries ==
  [kind : {"summary"}, item : Items, user : Users,
   totals : SUBSET [count : Nat, sum : Int], upvotes : SUBSET Nat,
   mine : SUBSET {-1, 0, 1}, changes : Nat]

Pagings ==
  [kind : {"pages", "read"}, list : Listings, user : Users, take : Nat \ {0},
   offset : Nat, rows : Seq(Targets), following : SUBSET BOOLEAN,
   stayed : SUBSET Targets, gone : Nat, came : Nat]

LEMMA Readers ==
  /\ Reader = {Idle} \cup Summaries \cup Pagings
  /\ Idle.kind = "idle"
  /\ \A r \in Summaries : r.kind = "summary"
  /\ \A r \in Pagings : r.kind \in {"pages", "read"}
BY DEF Reader, Summaries, Pagings, Idle

LEMMA ListsWiden ==
  /\ List(Items) \subseteq List(Targets)
  /\ \A s \in List(Items), l \in List(Items) : RowMoves(Items, s, l) => RowMoves(Targets, s, l)
<1>1. Items \subseteq Targets
  BY DEF Targets
<1>2. List(Items) \subseteq List(Targets)
  <2>1. Seq(Items) \subseteq Seq(Targets)
    BY <1>1
  <2> QED
    BY <2>1 DEF List
<1> QED
  BY <1>1, <1>2 DEF RowMoves, Grows, Shifts

LEMMA ListRange ==
  ASSUME NEW T, NEW s \in List(T)
  PROVE  /\ s \in Seq(T) /\ Len(s) \in Nat
         /\ \A j, k \in 1 .. Len(s) : s[j] = s[k] => j = k
         /\ Range(s) = {s[k] : k \in 1 .. Len(s)} /\ Range(s) \subseteq T
         /\ \A x : x \in Range(s) <=> Contains(s, x)
         /\ IsFiniteSet(Range(s)) /\ Cardinality(Range(s)) = Len(s)
<1>1. s \in Seq(T) /\ Len(s) \in Nat /\ DOMAIN s = 1 .. Len(s)
  BY DEF List
<1>2. Range(s) = {s[k] : k \in 1 .. Len(s)}
  BY <1>1 DEF Range
<1>3. IsFiniteSet(1 .. Len(s)) /\ Cardinality(1 .. Len(s)) = Len(s)
  BY <1>1, FS_Interval
<1>4. s \in [1 .. Len(s) -> Range(s)]
  <2>1. s \in [1 .. Len(s) -> T]
    BY <1>1
  <2> QED
    BY <1>2, <2>1
<1>5. s \in Injection(1 .. Len(s), Range(s))
  BY <1>4 DEF List, Injection
<1>6. s \in Surjection(1 .. Len(s), Range(s))
  BY <1>2, <1>4 DEF Surjection
<1>7. IsFiniteSet(Range(s)) /\ Cardinality(Range(s)) = Cardinality(1 .. Len(s))
  BY <1>3, <1>5, <1>6, FS_Surjection
<1>8. \A j, k \in 1 .. Len(s) : s[j] = s[k] => j = k
  BY <1>1 DEF List, IsInjective
<1>9. Range(s) \subseteq T
  BY <1>1, <1>2
<1>10. \A x : x \in Range(s) <=> Contains(s, x)
  BY <1>2 DEF Contains
<1> QED
  BY <1>1, <1>2, <1>3, <1>7, <1>8, <1>9, <1>10

\* The rows that a listing can show, before and after a command.
LEMMA RowsMove ==
  ASSUME EventsInv, ContentTypes, Command, NEW list \in Listings, NEW u \in Users
  PROVE  /\ Rows(list, u) \in List(Targets) /\ Rows(list, u)' \in List(Targets)
         /\ RowMoves(Targets, Rows(list, u), Rows(list, u)')
<1>1. CASE list = "bookmarks"
  <2>1. /\ bookmarks[u] \in List(Items) /\ bookmarks'[u] \in List(Items)
        /\ RowMoves(Items, bookmarks[u], bookmarks'[u])
    BY CommandMoves DEF ContentTypes
  <2>2. Rows(list, u) = bookmarks[u] /\ Rows(list, u)' = bookmarks'[u]
    BY <1>1 DEF Rows
  <2> QED
    BY <2>1, <2>2, ListsWiden
<1>2. CASE list = "follows"
  <2>1. /\ follows[u] \in List(Targets) /\ follows'[u] \in List(Targets)
        /\ RowMoves(Targets, follows[u], follows'[u])
    BY CommandMoves DEF EventsInv, FollowTypes
  <2>2. Rows(list, u) = follows[u] /\ Rows(list, u)' = follows'[u]
    BY <1>2 DEF Rows
  <2> QED
    BY <2>1, <2>2
<1>3. CASE list = "feed"
  BY <1>3, CommandMoves, ListsWiden DEF Rows, ContentTypes
<1>4. CASE list = "knowledge"
  BY <1>4, CommandMoves, ListsWiden DEF Rows, ContentTypes
<1> QED
  BY <1>1, <1>2, <1>3, <1>4 DEF Listings

-------------------------------------------------------------------------------
(* What pages by offset can miss and repeat *)

\* The first `offset` rows, and those behind them.
Passed(s, offset) == {s[k] : k \in {k \in 1 .. Len(s) : k <= offset}}

Ahead(s, offset) == {s[k] : k \in {k \in 1 .. Len(s) : k > offset}}

LEMMA GrowsView ==
  ASSUME NEW T, NEW s \in List(T), NEW l \in List(T), NEW e \in T, NEW n \in 1 .. Len(s) + 1,
         InsertsAt(s, l, n, e), NEW offset \in Nat
  PROVE  /\ Range(l) = Range(s) \cup {e}
         /\ Passed(l, offset) \subseteq Passed(s, offset) \cup {e}
         /\ \E x : Ahead(l, offset) \subseteq Ahead(s, offset) \cup {x}
<1>1. /\ Len(s) \in Nat /\ Len(l) = Len(s) + 1
      /\ Range(s) = {s[k] : k \in 1 .. Len(s)} /\ Range(l) = {l[k] : k \in 1 .. Len(l)}
  BY ListRange DEF InsertsAt
<1>2. \A k \in 1 .. Len(l) : l[k] = IF k < n THEN s[k] ELSE IF k = n THEN e ELSE s[k - 1]
  BY DEF InsertsAt
<1>3. ASSUME NEW k \in 1 .. Len(l) PROVE l[k] = e \/ \E m \in 1 .. Len(s) : m <= k /\ l[k] = s[m]
  <2>1. CASE k < n
    BY <1>1, <1>2, <2>1
  <2>2. CASE k > n
    <3>1. k - 1 \in 1 .. Len(s) /\ k - 1 <= k /\ l[k] = s[k - 1]
      BY <1>1, <1>2, <2>2
    <3> QED
      BY <3>1
  <2> QED
    BY <1>2, <2>1, <2>2
<1>4. ASSUME NEW m \in 1 .. Len(s) PROVE s[m] \in Range(l)
  <2>1. CASE m < n
    BY <1>1, <1>2, <2>1
  <2>2. CASE m >= n
    <3>1. m + 1 \in 1 .. Len(l) /\ l[m + 1] = s[m]
      BY <1>1, <1>2, <2>2
    <3> QED
      BY <1>1, <3>1
  <2> QED
    BY <1>1, <2>1, <2>2
<1>5. e \in Range(l)
  BY <1>1, <1>2
<1>6. Passed(l, offset) \subseteq Passed(s, offset) \cup {e}
  BY <1>1, <1>3 DEF Passed
<1>7. ASSUME NEW k \in 1 .. Len(l), k > offset
      PROVE  \/ l[k] = IF n > offset THEN e ELSE s[offset]
             \/ \E m \in 1 .. Len(s) : m > offset /\ l[k] = s[m]
  <2>1. CASE k < n
    BY <1>1, <1>2, <1>7, <2>1
  <2>2. CASE k = n
    BY <1>1, <1>2, <1>7, <2>2
  <2>3. CASE k > n
    <3>1. k - 1 \in 1 .. Len(s) /\ k - 1 >= offset /\ k - 1 >= n /\ l[k] = s[k - 1]
      BY <1>1, <1>2, <1>7, <2>3
    <3>2. CASE k - 1 > offset
      BY <3>1, <3>2
    <3>3. CASE k - 1 = offset
      BY <1>1, <3>1, <3>3
    <3> QED
      BY <1>1, <3>1, <3>2, <3>3
  <2> QED
    BY <1>1, <2>1, <2>2, <2>3
<1>8. Ahead(l, offset) \subseteq Ahead(s, offset) \cup {IF n > offset THEN e ELSE s[offset]}
  BY <1>7 DEF Ahead
<1>9. Range(l) \subseteq Range(s) \cup {e}
  BY <1>1, <1>3
<1>10. Range(s) \cup {e} \subseteq Range(l)
  BY <1>1, <1>4, <1>5
<1> QED
  BY <1>6, <1>8, <1>9, <1>10

LEMMA ShrinksView ==
  ASSUME NEW T, NEW s \in List(T), NEW l \in List(T), NEW n \in 1 .. Len(s),
         RemovesAt(s, l, n), NEW offset \in Nat
  PROVE  /\ Range(l) = Range(s) \ {s[n]}
         /\ \E x : Passed(l, offset) \subseteq Passed(s, offset) \cup {x}
         /\ Ahead(l, offset) \subseteq Ahead(s, offset)
<1>1. /\ Len(s) \in Nat /\ Len(l) \in Nat /\ Len(s) = Len(l) + 1
      /\ Range(s) = {s[k] : k \in 1 .. Len(s)} /\ Range(l) = {l[k] : k \in 1 .. Len(l)}
      /\ \A j, k \in 1 .. Len(s) : s[j] = s[k] => j = k
  BY ListRange DEF RemovesAt
<1>2. \A k \in 1 .. Len(l) : l[k] = IF k < n THEN s[k] ELSE s[k + 1]
  BY DEF RemovesAt
<1>3. ASSUME NEW k \in 1 .. Len(l)
      PROVE  \E m \in 1 .. Len(s) : m \in {k, k + 1} /\ m # n /\ l[k] = s[m]
  <2>1. CASE k < n
    BY <1>1, <1>2, <2>1
  <2>2. CASE k >= n
    <3>1. k + 1 \in 1 .. Len(s) /\ k + 1 # n /\ l[k] = s[k + 1]
      BY <1>1, <1>2, <2>2
    <3> QED
      BY <3>1
  <2> QED
    BY <1>1, <2>1, <2>2
<1>4. ASSUME NEW m \in 1 .. Len(s), m # n PROVE s[m] \in Range(l)
  <2>1. CASE m < n
    BY <1>1, <1>2, <2>1
  <2>2. CASE m > n
    <3>1. m - 1 \in 1 .. Len(l) /\ l[m - 1] = s[m]
      BY <1>1, <1>2, <2>2
    <3> QED
      BY <1>1, <3>1
  <2> QED
    BY <1>1, <1>4, <2>1, <2>2
<1>5. Range(l) = Range(s) \ {s[n]}
  <2>1. Range(l) \subseteq Range(s) \ {s[n]}
    BY <1>1, <1>3
  <2>2. Range(s) \ {s[n]} \subseteq Range(l)
    BY <1>1, <1>4
  <2> QED
    BY <2>1, <2>2
<1>6. Passed(l, offset) \subseteq Passed(s, offset) \cup {s[offset + 1]}
  <2> SUFFICES ASSUME NEW k \in 1 .. Len(l), k <= offset
               PROVE  l[k] \in Passed(s, offset) \cup {s[offset + 1]}
    BY DEF Passed
  <2>1. PICK m \in 1 .. Len(s) : m \in {k, k + 1} /\ l[k] = s[m]
    BY <1>3
  <2>2. m <= offset \/ m = offset + 1
    BY <1>1, <2>1
  <2> QED
    BY <2>1, <2>2 DEF Passed
<1>7. Ahead(l, offset) \subseteq Ahead(s, offset)
  <2> SUFFICES ASSUME NEW k \in 1 .. Len(l), k > offset PROVE l[k] \in Ahead(s, offset)
    BY DEF Ahead
  <2>1. PICK m \in 1 .. Len(s) : m \in {k, k + 1} /\ l[k] = s[m]
    BY <1>3
  <2>2. m > offset
    BY <1>1, <2>1
  <2> QED
    BY <2>1, <2>2 DEF Ahead
<1> QED
  BY <1>5, <1>6, <1>7

\* A row that changes its place pushes one row at most over the offset each way.
LEMMA ShiftsView ==
  ASSUME NEW T, NEW s \in List(T), NEW l \in List(T), Shifts(T, s, l), NEW offset \in Nat
  PROVE  /\ Range(l) = Range(s)
         /\ \E x : Passed(l, offset) \subseteq Passed(s, offset) \cup {x}
         /\ \E x : Ahead(l, offset) \subseteq Ahead(s, offset) \cup {x}
<1>1. PICK n \in 1 .. Len(s), w \in List(T) :
        RemovesAt(s, w, n) /\ \E m \in 1 .. Len(w) + 1 : InsertsAt(w, l, m, s[n])
  BY DEF Shifts
<1>2. PICK m \in 1 .. Len(w) + 1 : InsertsAt(w, l, m, s[n])
  BY <1>1
<1>3. /\ Range(w) = Range(s) \ {s[n]} /\ Range(l) = Range(w) \cup {s[n]}
      /\ s[n] \in Range(s)
      /\ \E x : Ahead(l, offset) \subseteq Ahead(s, offset) \cup {x}
  <2>1. s[n] \in T /\ s[n] \in Range(s)
    BY ListRange
  <2>2. Range(w) = Range(s) \ {s[n]} /\ Ahead(w, offset) \subseteq Ahead(s, offset)
    BY <1>1, ShrinksView
  <2>3. /\ Range(l) = Range(w) \cup {s[n]}
        /\ \E x : Ahead(l, offset) \subseteq Ahead(w, offset) \cup {x}
    <3>1. PICK e \in T : e = s[n] /\ InsertsAt(w, l, m, e)
      BY <1>2, <2>1
    <3>2. /\ Range(l) = Range(w) \cup {e}
          /\ \E x : Ahead(l, offset) \subseteq Ahead(w, offset) \cup {x}
      BY <3>1, GrowsView
    <3> QED
      BY <3>1, <3>2
  <2> QED
    BY <2>1, <2>2, <2>3
<1>4. /\ Len(s) \in Nat /\ Len(w) \in Nat /\ Len(s) = Len(w) + 1 /\ Len(l) = Len(w) + 1
      /\ \A k \in 1 .. Len(w) : w[k] = IF k < n THEN s[k] ELSE s[k + 1]
      /\ \A k \in 1 .. Len(l) : l[k] = IF k < m THEN w[k] ELSE IF k = m THEN s[n] ELSE w[k - 1]
  BY <1>1, <1>2, ListRange DEF RemovesAt, InsertsAt
<1> DEFINE x == IF m > offset THEN s[offset + 1] ELSE s[n]
<1>5. ASSUME NEW k \in 1 .. Len(w), k <= offset, k < offset \/ m > offset
      PROVE  w[k] \in Passed(s, offset) \cup {x}
  <2>1. CASE k < n
    BY <1>4, <1>5, <2>1 DEF Passed
  <2>2. CASE k >= n
    <3>1. k + 1 \in 1 .. Len(s) /\ w[k] = s[k + 1]
      BY <1>4, <2>2
    <3>2. CASE k < offset
      BY <3>1, <3>2 DEF Passed
    <3>3. CASE k = offset
      BY <1>5, <3>1, <3>3
    <3> QED
      BY <1>5, <3>2, <3>3
  <2> QED
    BY <1>4, <2>1, <2>2
<1>6. ASSUME NEW k \in 1 .. Len(l), k <= offset PROVE l[k] \in Passed(s, offset) \cup {x}
  <2>1. CASE k < m
    <3>1. k \in 1 .. Len(w) /\ l[k] = w[k] /\ (k < offset \/ m > offset)
      BY <1>4, <1>6, <2>1
    <3> QED
      BY <1>5, <1>6, <3>1
  <2>2. CASE k = m
    BY <1>4, <1>6, <2>2
  <2>3. CASE k > m
    <3>1. k - 1 \in 1 .. Len(w) /\ l[k] = w[k - 1] /\ k - 1 < offset
      BY <1>4, <1>6, <2>3
    <3> QED
      BY <1>5, <3>1
  <2> QED
    BY <1>4, <2>1, <2>2, <2>3
<1>7. Passed(l, offset) \subseteq Passed(s, offset) \cup {x}
  BY <1>6 DEF Passed
<1>8. Range(l) = Range(s)
  BY <1>3
<1> QED
  BY <1>3, <1>7, <1>8

\* What Watch counts when rows s have become l.
Moved(s, l) == IF s # l /\ Range(s) = Range(l) THEN 1 ELSE 0

Gone(s, l) == Cardinality(Range(s) \ Range(l)) + Moved(s, l)

Came(s, l) == Cardinality(Range(l) \ Range(s)) + Moved(s, l)


LEMMA CountsMoves ==
  ASSUME NEW T, NEW s \in List(T), NEW l \in List(T)
  PROVE  /\ Cardinality(Range(s) \ Range(l)) \in Nat /\ Cardinality(Range(l) \ Range(s)) \in Nat
         /\ Moved(s, l) \in Nat /\ Gone(s, l) \in Nat /\ Came(s, l) \in Nat
<1>1. IsFiniteSet(Range(s)) /\ IsFiniteSet(Range(l))
  BY ListRange
<1>2. IsFiniteSet(Range(s) \ Range(l)) /\ IsFiniteSet(Range(l) \ Range(s))
  BY <1>1, FS_Difference
<1>3. /\ Cardinality(Range(s) \ Range(l)) \in Nat /\ Cardinality(Range(l) \ Range(s)) \in Nat
      /\ Moved(s, l) \in Nat
  BY <1>2, FS_CardinalityType DEF Moved
<1> QED
  BY <1>3 DEF Gone, Came

\* A command brings one row at most over the offset, and is counted if it does.
LEMMA ViewMoves ==
  ASSUME NEW T, NEW s \in List(T), NEW l \in List(T), RowMoves(T, s, l), NEW offset \in Nat
  PROVE  /\ Gone(s, l) \in Nat /\ Came(s, l) \in Nat
         /\ \/ Passed(l, offset) \cap Range(s) \subseteq Passed(s, offset)
            \/ Gone(s, l) >= 1 /\ \E x : Passed(l, offset) \subseteq Passed(s, offset) \cup {x}
         /\ \/ Ahead(l, offset) \subseteq Ahead(s, offset)
            \/ Came(s, l) >= 1 /\ \E x : Ahead(l, offset) \subseteq Ahead(s, offset) \cup {x}
<1>1. /\ Cardinality(Range(s) \ Range(l)) \in Nat /\ Cardinality(Range(l) \ Range(s)) \in Nat
      /\ Moved(s, l) \in Nat
  BY CountsMoves
<1>2. Gone(s, l) \in Nat /\ Came(s, l) \in Nat
  BY CountsMoves
<1>3. \A e : Cardinality({e}) = 1
  BY FS_Singleton
<1>4. CASE l = s
  BY <1>2, <1>4
<1>5. CASE Grows(T, s, l)
  <2>1. PICK e \in T, n \in 1 .. Len(s) + 1 : ~Contains(s, e) /\ InsertsAt(s, l, n, e)
    BY <1>5 DEF Grows
  <2>2. /\ Range(l) = Range(s) \cup {e}
        /\ Passed(l, offset) \subseteq Passed(s, offset) \cup {e}
        /\ \E x : Ahead(l, offset) \subseteq Ahead(s, offset) \cup {x}
    BY <2>1, GrowsView
  <2>3. e \notin Range(s)
    BY <2>1, ListRange
  <2>4. Cardinality(Range(l) \ Range(s)) = 1
    <3>1. Range(l) \ Range(s) = {e}
      BY <2>2, <2>3
    <3> QED
      BY <1>3, <3>1
  <2>5. Came(s, l) >= 1
    BY <1>1, <2>4 DEF Came
  <2> QED
    BY <1>2, <2>2, <2>3, <2>5
<1>6. CASE Shrinks(s, l)
  <2>1. PICK n \in 1 .. Len(s) : RemovesAt(s, l, n)
    BY <1>6 DEF Shrinks
  <2>2. /\ Range(l) = Range(s) \ {s[n]}
        /\ \E x : Passed(l, offset) \subseteq Passed(s, offset) \cup {x}
        /\ Ahead(l, offset) \subseteq Ahead(s, offset)
    BY <2>1, ShrinksView
  <2>3. s[n] \in Range(s)
    BY ListRange
  <2>4. Cardinality(Range(s) \ Range(l)) = 1
    <3>1. Range(s) \ Range(l) = {s[n]}
      BY <2>2, <2>3
    <3> QED
      BY <1>3, <3>1
  <2>5. Gone(s, l) >= 1
    BY <1>1, <2>4 DEF Gone
  <2> QED
    BY <1>2, <2>2, <2>5
<1>7. CASE Shifts(T, s, l) /\ l # s
  <2>1. /\ Range(l) = Range(s)
        /\ \E x : Passed(l, offset) \subseteq Passed(s, offset) \cup {x}
        /\ \E x : Ahead(l, offset) \subseteq Ahead(s, offset) \cup {x}
    BY <1>7, ShiftsView
  <2>2. Moved(s, l) = 1
    BY <1>7, <2>1 DEF Moved
  <2>3. Gone(s, l) >= 1 /\ Came(s, l) >= 1
    BY <1>1, <2>2 DEF Gone, Came
  <2> QED
    BY <1>2, <2>1, <2>3
<1> QED
  BY <1>4, <1>5, <1>6, <1>7 DEF RowMoves

\* A command adds to what has been missed, and to what will be seen again, no
\* more than it is counted for.
LEMMA ErrorsMove ==
  ASSUME NEW T, NEW s \in List(T), NEW l \in List(T), RowMoves(T, s, l), NEW offset \in Nat,
         NEW stayed \in SUBSET Range(s), NEW kept \in SUBSET stayed, NEW seen, IsFiniteSet(seen)
  PROVE  /\ Cardinality((kept \cap Passed(l, offset)) \ seen)
              <= Cardinality((stayed \cap Passed(s, offset)) \ seen) + Gone(s, l)
         /\ Cardinality(seen \cap Ahead(l, offset))
              <= Cardinality(seen \cap Ahead(s, offset)) + Came(s, l)
         /\ Cardinality((kept \cap Passed(l, offset)) \ seen) \in Nat
         /\ Cardinality((stayed \cap Passed(s, offset)) \ seen) \in Nat
         /\ Cardinality(seen \cap Ahead(l, offset)) \in Nat
         /\ Cardinality(seen \cap Ahead(s, offset)) \in Nat
<1> DEFINE M == (stayed \cap Passed(s, offset)) \ seen
           N == (kept \cap Passed(l, offset)) \ seen
           A == seen \cap Ahead(s, offset)
           B == seen \cap Ahead(l, offset)
<1>1. /\ IsFiniteSet(M) /\ IsFiniteSet(N) /\ IsFiniteSet(A) /\ IsFiniteSet(B)
      /\ Cardinality(M) \in Nat /\ Cardinality(N) \in Nat
      /\ Cardinality(A) \in Nat /\ Cardinality(B) \in Nat
  <2>1. IsFiniteSet(Range(s))
    BY ListRange
  <2>2. M \in SUBSET Range(s) /\ N \in SUBSET Range(s) /\ A \in SUBSET seen /\ B \in SUBSET seen
    OBVIOUS
  <2>3. IsFiniteSet(M) /\ IsFiniteSet(N) /\ IsFiniteSet(A) /\ IsFiniteSet(B)
    BY <2>1, <2>2, FS_Subset
  <2> QED
    BY <2>3, FS_CardinalityType
<1>2. Gone(s, l) \in Nat /\ Came(s, l) \in Nat
  BY ViewMoves
<1>3. N \subseteq M \/ (Gone(s, l) >= 1 /\ \E x : N \subseteq M \cup {x})
  <2>1. CASE Passed(l, offset) \cap Range(s) \subseteq Passed(s, offset)
    BY <2>1
  <2>2. ASSUME Gone(s, l) >= 1, NEW x, Passed(l, offset) \subseteq Passed(s, offset) \cup {x}
        PROVE  Gone(s, l) >= 1 /\ \E y : N \subseteq M \cup {y}
    BY <2>2
  <2> QED
    BY <2>1, <2>2, ViewMoves
<1>4. B \subseteq A \/ (Came(s, l) >= 1 /\ \E x : B \subseteq A \cup {x})
  <2>1. CASE Ahead(l, offset) \subseteq Ahead(s, offset)
    BY <2>1
  <2>2. ASSUME Came(s, l) >= 1, NEW x, Ahead(l, offset) \subseteq Ahead(s, offset) \cup {x}
        PROVE  Came(s, l) >= 1 /\ \E y : B \subseteq A \cup {y}
    BY <2>2
  <2> QED
    BY <2>1, <2>2, ViewMoves
<1> HIDE DEF M, N, A, B
<1>5. \/ Cardinality(N) <= Cardinality(M)
      \/ Gone(s, l) >= 1 /\ Cardinality(N) <= Cardinality(M) + 1
  BY <1>1, <1>3, FS_Subset, ButForOne
<1>6. \/ Cardinality(B) <= Cardinality(A)
      \/ Came(s, l) >= 1 /\ Cardinality(B) <= Cardinality(A) + 1
  BY <1>1, <1>4, FS_Subset, ButForOne
<1>7. Cardinality(N) <= Cardinality(M) + Gone(s, l)
  BY <1>1, <1>2, <1>5
<1>8. Cardinality(B) <= Cardinality(A) + Came(s, l)
  BY <1>1, <1>2, <1>6
<1> QED
  BY <1>1, <1>7, <1>8 DEF M, N, A, B

\* A page is what lies between two offsets.
LEMMA PageReads ==
  ASSUME NEW T, NEW s \in List(T), NEW take \in Nat \ {0}, NEW offset \in Nat
  PROVE  /\ Page(s, take, offset) \in List(T)
         /\ Passed(s, offset + take) = Passed(s, offset) \cup Range(Page(s, take, offset))
         /\ Ahead(s, offset) = Ahead(s, offset + take) \cup Range(Page(s, take, offset))
         /\ Ahead(s, offset + take) \cap Range(Page(s, take, offset)) = {}
         /\ Len(Page(s, take, offset)) < take => Range(s) = Passed(s, offset + take)
<1> DEFINE page == Page(s, take, offset)
           next == offset + take
           last == Min({next, Len(s)})
<1>1. /\ s \in Seq(T) /\ Len(s) \in Nat /\ Range(s) = {s[k] : k \in 1 .. Len(s)}
      /\ \A j, k \in 1 .. Len(s) : s[j] = s[k] => j = k
  BY ListRange
<1>2. next \in Nat /\ next > offset
  OBVIOUS
<1>3. last = IF next <= Len(s) THEN next ELSE Len(s)
  BY <1>1, <1>2 DEF Min
<1>4. page = SubSeq(s, offset + 1, last)
  BY DEF Page
<1> HIDE DEF page, next, last
<1>5. /\ page \in Seq(T) /\ Len(page) = IF offset + 1 <= last THEN last - offset ELSE 0
      /\ \A k \in 1 .. Len(page) : page[k] = s[offset + k] /\ offset + k \in 1 .. Len(s)
  <2>1. last \in Nat /\ last <= Len(s)
    BY <1>1, <1>2, <1>3
  <2>2. \A k \in offset + 1 .. last : s[k] \in T
    BY <1>1, <2>1
  <2>3. page \in Seq(T) /\ Len(page) = IF offset + 1 <= last THEN last - offset ELSE 0
    BY <1>1, <1>4, <2>1, <2>2
  <2>4. ASSUME NEW k \in 1 .. Len(page)
        PROVE  page[k] = s[offset + k] /\ offset + k \in 1 .. Len(s)
    <3>1. k \in 1 .. last - offset /\ offset + k \in 1 .. Len(s)
      BY <1>1, <2>1, <2>3
    <3>2. SubSeq(s, offset + 1, last)[k] = s[offset + 1 + k - 1]
      BY <1>1, <2>1, <3>1
    <3>3. offset + 1 + k - 1 = offset + k
      BY <3>1
    <3> QED
      BY <1>4, <3>1, <3>2, <3>3
  <2> QED
    BY <2>3, <2>4
<1>6. page \in List(T)
  <2>1. page \in Seq(T)
    BY <1>5
  <2>2. ASSUME NEW j \in 1 .. Len(page), NEW k \in 1 .. Len(page), j < k PROVE page[j] # page[k]
    <3>1. page[j] = s[offset + j] /\ page[k] = s[offset + k] /\ offset + j # offset + k
      BY <1>5, <2>1, <2>2
    <3> QED
      BY <1>1, <1>5, <3>1
  <2> QED
    BY <2>1, <2>2, ListsAreInjective
<1>7. Range(page) = {page[k] : k \in 1 .. Len(page)} /\ Len(page) \in Nat
  BY <1>6, ListRange
<1>8. Range(page) = {s[k] : k \in {k \in 1 .. Len(s) : k > offset /\ k <= next}}
  <2>1. ASSUME NEW k \in 1 .. Len(page)
        PROVE  \E j \in 1 .. Len(s) : j > offset /\ j <= next /\ page[k] = s[j]
    <3>1. offset + k <= next
      BY <1>1, <1>2, <1>3, <1>5
    <3> QED
      BY <1>5, <3>1
  <2>2. ASSUME NEW j \in 1 .. Len(s), j > offset, j <= next PROVE s[j] \in Range(page)
    <3>1. j - offset \in 1 .. Len(page)
      BY <1>1, <1>2, <1>3, <1>5, <2>2
    <3>2. page[j - offset] = s[j]
      <4>1. offset + (j - offset) = j
        OBVIOUS
      <4> QED
        BY <1>5, <3>1, <4>1
    <3> QED
      BY <1>7, <3>1, <3>2
  <2> DEFINE between == {s[k] : k \in {k \in 1 .. Len(s) : k > offset /\ k <= next}}
  <2>3. Range(page) \subseteq between
    BY <1>7, <2>1
  <2>4. between \subseteq Range(page)
    BY <2>2
  <2> QED
    BY <2>3, <2>4
<1>9. Passed(s, next) = Passed(s, offset) \cup Range(page)
  BY <1>1, <1>2, <1>8 DEF Passed
<1>10. Ahead(s, offset) = Ahead(s, next) \cup Range(page)
  BY <1>1, <1>2, <1>8 DEF Ahead
<1>11. Ahead(s, next) \cap Range(page) = {}
  BY <1>1, <1>2, <1>8 DEF Ahead
<1>12. ASSUME Len(page) < take PROVE Range(s) = Passed(s, next)
  <2>1. \A k \in 1 .. Len(s) : k <= next
    BY <1>1, <1>2, <1>3, <1>5, <1>12 DEF next
  <2> QED
    BY <1>1, <2>1 DEF Passed
<1> QED
  BY <1>6, <1>9, <1>10, <1>11, <1>12 DEF page, next

LEMMA SeqRange ==
  ASSUME NEW T, NEW s \in Seq(T)
  PROVE  Range(s) = {s[k] : k \in 1 .. Len(s)} /\ IsFiniteSet(Range(s)) /\ Cardinality(Range(s)) \in Nat
<1>1. DOMAIN s = 1 .. Len(s) /\ Len(s) \in Nat
  OBVIOUS
<1>2. Range(s) = {s[k] : k \in 1 .. Len(s)}
  BY <1>1 DEF Range
<1>3. IsFiniteSet(1 .. Len(s))
  BY <1>1, FS_Interval
<1>4. s \in [1 .. Len(s) -> Range(s)]
  <2>1. s \in [1 .. Len(s) -> T]
    BY <1>1
  <2> QED
    BY <1>2, <2>1
<1>5. s \in Surjection(1 .. Len(s), Range(s))
  BY <1>2, <1>4 DEF Surjection
<1>6. IsFiniteSet(Range(s))
  BY <1>3, <1>5, FS_Surjection
<1> QED
  BY <1>2, <1>6, FS_CardinalityType

\* Reading on adds nothing to what has been missed, and moves what is seen again
\* from the rows ahead to the rows read.
LEMMA PageErrs ==
  ASSUME NEW T, NEW rows \in Seq(T), NEW page \in List(T), NEW ahead, ahead \cap Range(page) = {}
  PROVE  /\ Range(rows \o page) = Range(rows) \cup Range(page)
         /\ Len(rows \o page) - Cardinality(Range(rows \o page)) \in Int
         /\ Cardinality(Range(rows \o page) \cap ahead)
                + (Len(rows \o page) - Cardinality(Range(rows \o page)))
              = Cardinality(Range(rows) \cap (ahead \cup Range(page)))
                + (Len(rows) - Cardinality(Range(rows)))
<1> DEFINE all == rows \o page
<1>1. page \in Seq(T) /\ IsFiniteSet(Range(page)) /\ Cardinality(Range(page)) = Len(page)
  BY ListRange
<1>2. /\ all \in Seq(T) /\ Len(all) = Len(rows) + Len(page)
      /\ \A k \in 1 .. Len(rows) : all[k] = rows[k]
      /\ \A k \in Len(rows) + 1 .. Len(rows) + Len(page) : all[k] = page[k - Len(rows)]
  BY <1>1, ConcatElements
<1> HIDE DEF all
<1>3. Len(rows) \in Nat /\ Len(page) \in Nat
  BY <1>1
<1>4. Range(all) = Range(rows) \cup Range(page)
  <2>1. /\ Range(all) = {all[k] : k \in 1 .. Len(all)}
        /\ Range(rows) = {rows[k] : k \in 1 .. Len(rows)}
        /\ Range(page) = {page[k] : k \in 1 .. Len(page)}
    <3>1. Range(all) = {all[k] : k \in 1 .. Len(all)}
      <4>1. DOMAIN all = 1 .. Len(all)
        BY <1>2
      <4> QED
        BY <4>1 DEF Range
    <3>2. Range(page) = {page[k] : k \in 1 .. Len(page)}
      BY <1>1, SeqRange
    <3> QED
      BY <3>1, <3>2, SeqRange
  <2>2. ASSUME NEW k \in 1 .. Len(all) PROVE all[k] \in Range(rows) \cup Range(page)
    <3>1. CASE k <= Len(rows)
      BY <1>2, <1>3, <2>1, <3>1
    <3>2. CASE k > Len(rows)
      <4>1. k - Len(rows) \in 1 .. Len(page) /\ all[k] = page[k - Len(rows)]
        BY <1>2, <1>3, <3>2
      <4> QED
        BY <2>1, <4>1
    <3> QED
      BY <1>3, <3>1, <3>2
  <2>3. \A k \in 1 .. Len(rows) : rows[k] \in Range(all)
    BY <1>2, <1>3, <2>1
  <2>4. ASSUME NEW k \in 1 .. Len(page) PROVE page[k] \in Range(all)
    <3>1. Len(rows) + k \in 1 .. Len(all) /\ all[Len(rows) + k] = page[k]
      <4>1. /\ Len(rows) + k \in Len(rows) + 1 .. Len(rows) + Len(page)
            /\ Len(rows) + k - Len(rows) = k
        BY <1>3
      <4>2. all[Len(rows) + k] = page[Len(rows) + k - Len(rows)]
        BY <1>2, <4>1
      <4> QED
        BY <1>2, <1>3, <4>1, <4>2
    <3> QED
      BY <2>1, <3>1
  <2>5. Range(all) \subseteq Range(rows) \cup Range(page)
    BY <2>1, <2>2
  <2>6. Range(rows) \subseteq Range(all) /\ Range(page) \subseteq Range(all)
    BY <2>1, <2>3, <2>4
  <2> QED
    BY <2>5, <2>6
<1> DEFINE R == Range(rows)
           P == Range(page)
           A == ahead
<1>5. IsFiniteSet(R) /\ IsFiniteSet(P) /\ Cardinality(R) \in Nat /\ Cardinality(P) = Len(page)
  BY <1>1, SeqRange
<1> HIDE DEF R, P, A, all
<1>6. /\ IsFiniteSet(R \cap P) /\ IsFiniteSet(R \cap A) /\ IsFiniteSet(R \cup P)
      /\ Cardinality(R \cap P) \in Nat /\ Cardinality(R \cap A) \in Nat
      /\ Cardinality(R \cup P) = Cardinality(R) + Cardinality(P) - Cardinality(R \cap P)
  BY <1>5, FS_Intersection, FS_Union, FS_CardinalityType
<1>7. Cardinality(R \cap (A \cup P)) = Cardinality(R \cap A) + Cardinality(R \cap P)
  <2>1. /\ R \cap (A \cup P) = (R \cap A) \cup (R \cap P) /\ (R \cap A) \cap (R \cap P) = {}
    BY DEF A, P
  <2>2. Cardinality((R \cap A) \cup (R \cap P))
          = Cardinality(R \cap A) + Cardinality(R \cap P) - Cardinality((R \cap A) \cap (R \cap P))
    BY <1>6, FS_Union
  <2>3. Cardinality((R \cap A) \cap (R \cap P)) = 0
    BY <2>1, FS_EmptySet
  <2>4. Cardinality(R \cap (A \cup P)) = Cardinality(R \cap A) + Cardinality(R \cap P) - 0
    BY <2>1, <2>2, <2>3
  <2> QED
    BY <1>6, <2>4
<1>8. (R \cup P) \cap A = R \cap A
  BY DEF A, P
<1>9. /\ Len(all) - Cardinality(R \cup P) \in Int
       /\ Cardinality((R \cup P) \cap A) + (Len(all) - Cardinality(R \cup P))
            = Cardinality(R \cap (A \cup P)) + (Len(rows) - Cardinality(R))
  <2>1. Cardinality((R \cup P) \cap A) = Cardinality(R \cap A)
    BY <1>8
  <2> QED
    BY <1>2, <1>3, <1>5, <1>6, <1>7, <2>1
<1> QED
  BY <1>2, <1>4, <1>9 DEF R, P, A, all

-------------------------------------------------------------------------------
(* Reading in pages *)

Shown == Rows(reader.list, reader.user)

\* Rows that the reader has passed without seeing them, and that it has seen and
\* will see again.
Missed == (reader.stayed \cap Passed(Shown, reader.offset)) \ Range(reader.rows)

Again == Range(reader.rows) \cap Ahead(Shown, reader.offset)

Repeated == Len(reader.rows) - Cardinality(Range(reader.rows))

PagesInv ==
  /\ reader.kind = "pages" =>
       /\ reader.stayed \subseteq Range(Listing(reader.list, reader.user))
       /\ FALSE \in reader.following => reader.stayed = {}
       /\ Cardinality(Missed) <= reader.gone
       /\ Cardinality(Again) + Repeated <= reader.came
  /\ PagesErrByChanges

LEMMA PagingFields ==
  ASSUME NEW r \in Pagings
  PROVE  /\ r.kind \in {"pages", "read"} /\ r.list \in Listings /\ r.user \in Users
         /\ r.take \in Nat \ {0} /\ r.offset \in Nat /\ r.rows \in Seq(Targets)
         /\ r.following \subseteq BOOLEAN /\ r.stayed \subseteq Targets
         /\ r.gone \in Nat /\ r.came \in Nat
BY DEF Pagings

\* A listing shows its rows or nothing.
LEMMA ListingShows ==
  ASSUME NEW list, NEW u
  PROVE  /\ Listing(list, u) = Rows(list, u) \/ Listing(list, u) = <<>>
         /\ Range(Listing(list, u)) \subseteq Range(Rows(list, u))
<1>1. Range(<<>>) = {}
  BY DEF Range
<1> QED
  BY <1>1 DEF Listing

\* What a client that pages through a listing is told of a command.
LEMMA WatchPages ==
  ASSUME EventsInv, ContentTypes, Command, Watch, reader \in Pagings, reader.kind = "pages",
         NEW s, s = Shown
  PROVE  /\ s \in List(Targets) /\ Shown' \in List(Targets) /\ RowMoves(Targets, s, Shown')
         /\ Gone(s, Shown') \in Nat /\ Came(s, Shown') \in Nat
         /\ reader' \in Pagings
         /\ reader'.kind = "pages" /\ reader'.rows = reader.rows
         /\ reader'.offset = reader.offset /\ reader'.following = reader.following
         /\ reader'.stayed = reader.stayed \cap Range(Listing(reader.list, reader.user)')
         /\ reader'.gone = reader.gone + Gone(s, Shown')
         /\ reader'.came = reader.came + Came(s, Shown')
<1>1. PICK list \in Listings, u \in Users : list = reader.list /\ u = reader.user
  BY PagingFields
<1>2. PICK l, listing : l = Rows(list, u)' /\ listing = Listing(list, u)'
  OBVIOUS
<1>3. s = Rows(list, u)
  BY <1>1 DEF Shown
<1>4. s \in List(Targets) /\ l \in List(Targets) /\ RowMoves(Targets, s, l)
  BY <1>2, <1>3, RowsMove
<1>5. /\ Cardinality(Range(s) \ Range(l)) \in Nat /\ Cardinality(Range(l) \ Range(s)) \in Nat
      /\ Moved(s, l) \in Nat /\ Gone(s, l) \in Nat /\ Came(s, l) \in Nat
  BY <1>4, CountsMoves
<1>6. reader' = [reader EXCEPT !.stayed = @ \cap Range(listing),
                               !.gone = @ + Gone(s, l), !.came = @ + Came(s, l)]
  <2>1. reader' = [reader EXCEPT
          !.stayed = @ \cap Range(Listing(list, u)'),
          !.gone = @ + Cardinality(Range(Rows(list, u)) \ Range(Rows(list, u)'))
                     + (IF Rows(list, u) # Rows(list, u)'
                             /\ Range(Rows(list, u)) = Range(Rows(list, u)') THEN 1 ELSE 0),
          !.came = @ + Cardinality(Range(Rows(list, u)') \ Range(Rows(list, u)))
                     + (IF Rows(list, u) # Rows(list, u)'
                             /\ Range(Rows(list, u)) = Range(Rows(list, u)') THEN 1 ELSE 0)]
    BY <1>1 DEF Watch
  <2>2. reader' = [reader EXCEPT !.stayed = @ \cap Range(listing),
          !.gone = @ + Cardinality(Range(s) \ Range(l)) + Moved(s, l),
          !.came = @ + Cardinality(Range(l) \ Range(s)) + Moved(s, l)]
    BY <1>2, <1>3, <2>1 DEF Moved
  <2>3. reader.gone \in Nat /\ reader.came \in Nat
    BY PagingFields
  <2>4. /\ reader.gone + Cardinality(Range(s) \ Range(l)) + Moved(s, l) = reader.gone + Gone(s, l)
        /\ reader.came + Cardinality(Range(l) \ Range(s)) + Moved(s, l) = reader.came + Came(s, l)
    BY <1>5, <2>3 DEF Gone, Came
  <2> QED
    BY <2>2, <2>4
<1>7. /\ reader' \in Pagings /\ reader'.list = list /\ reader'.user = u
      /\ reader'.kind = "pages" /\ reader'.rows = reader.rows
      /\ reader'.offset = reader.offset /\ reader'.following = reader.following
      /\ reader'.stayed = reader.stayed \cap Range(listing)
      /\ reader'.gone = reader.gone + Gone(s, l)
      /\ reader'.came = reader.came + Came(s, l)
  <2> DEFINE stayed == reader.stayed \cap Range(listing)
             gone == reader.gone + Gone(s, l)
             came == reader.came + Came(s, l)
  <2>1. stayed \in SUBSET Targets /\ gone \in Nat /\ came \in Nat
    BY <1>5, PagingFields
  <2>2. reader' = [reader EXCEPT !.stayed = stayed, !.gone = gone, !.came = came]
    BY <1>6
  <2> HIDE DEF stayed, gone, came
  <2>3. /\ reader' \in Pagings /\ reader'.kind = reader.kind /\ reader'.list = reader.list
        /\ reader'.user = reader.user /\ reader'.offset = reader.offset
        /\ reader'.rows = reader.rows /\ reader'.following = reader.following
        /\ reader'.stayed = stayed /\ reader'.gone = gone /\ reader'.came = came
    BY <2>1, <2>2 DEF Pagings
  <2> QED
    BY <1>1, <2>3 DEF stayed, gone, came
<1>8. Shown' = l
  BY <1>2, <1>7 DEF Shown, Rows
<1>9. Listing(reader.list, reader.user)' = listing
  BY <1>2, <1>7 DEF Listing, Rows
<1> QED
  BY <1>4, <1>5, <1>7, <1>8, <1>9

\* Between two pages.
LEMMA PagesWatch ==
  ASSUME EventsInv, ContentTypes, Command, Watch, PagesInv,
         reader \in Pagings, reader.kind = "pages"
  PROVE  reader' \in Pagings /\ PagesInv'
<1>1. PICK s, l, offset, seen, stayed, kept, gone, came :
        /\ s = Shown /\ l = Shown' /\ offset = reader.offset /\ seen = Range(reader.rows)
        /\ stayed = reader.stayed /\ kept = reader'.stayed
        /\ gone = reader.gone /\ came = reader.came
  OBVIOUS
<1>2. /\ s \in List(Targets) /\ l \in List(Targets) /\ RowMoves(Targets, s, l)
      /\ Gone(s, l) \in Nat /\ Came(s, l) \in Nat
      /\ reader' \in Pagings /\ reader'.kind = "pages" /\ reader'.rows = reader.rows
      /\ reader'.offset = reader.offset /\ reader'.following = reader.following
      /\ kept = stayed \cap Range(Listing(reader.list, reader.user)')
      /\ reader'.gone = gone + Gone(s, l) /\ reader'.came = came + Came(s, l)
  BY <1>1, WatchPages
<1>3. /\ offset \in Nat /\ IsFiniteSet(seen) /\ gone \in Nat /\ came \in Nat
      /\ Len(reader.rows) - Cardinality(seen) \in Int
  <2>1. reader.rows \in Seq(Targets)
    BY PagingFields
  <2>2. IsFiniteSet(seen) /\ Cardinality(seen) \in Nat /\ Len(reader.rows) \in Nat
    BY <1>1, <2>1, SeqRange
  <2> QED
    BY <1>1, <2>2, PagingFields
<1>4. stayed \in SUBSET Range(s) /\ kept \in SUBSET stayed
  BY <1>1, <1>2, ListingShows DEF PagesInv, Shown
<1>5. /\ Cardinality((kept \cap Passed(l, offset)) \ seen)
           <= Cardinality((stayed \cap Passed(s, offset)) \ seen) + Gone(s, l)
      /\ Cardinality(seen \cap Ahead(l, offset))
           <= Cardinality(seen \cap Ahead(s, offset)) + Came(s, l)
      /\ Cardinality((kept \cap Passed(l, offset)) \ seen) \in Nat
      /\ Cardinality((stayed \cap Passed(s, offset)) \ seen) \in Nat
      /\ Cardinality(seen \cap Ahead(l, offset)) \in Nat
      /\ Cardinality(seen \cap Ahead(s, offset)) \in Nat
  BY <1>2, <1>3, <1>4, ErrorsMove
<1>6. /\ Missed = (stayed \cap Passed(s, offset)) \ seen
      /\ Missed' = (kept \cap Passed(l, offset)) \ seen
      /\ Again = seen \cap Ahead(s, offset) /\ Again' = seen \cap Ahead(l, offset)
      /\ Repeated = Len(reader.rows) - Cardinality(seen) /\ Repeated' = Repeated
  BY <1>1, <1>2 DEF Missed, Again, Repeated
<1>7. Cardinality(Missed) <= gone /\ Cardinality(Again) + Repeated <= came
  BY <1>1 DEF PagesInv
<1>8. /\ Cardinality(Missed') \in Nat /\ Cardinality(Missed) \in Nat
      /\ Cardinality(Missed') <= Cardinality(Missed) + Gone(s, l)
      /\ Cardinality(Again') \in Nat /\ Cardinality(Again) \in Nat
      /\ Cardinality(Again') <= Cardinality(Again) + Came(s, l)
      /\ Repeated \in Int /\ Repeated' = Repeated
  BY <1>3, <1>5, <1>6
<1>9. Gone(s, l) \in Nat /\ Came(s, l) \in Nat /\ gone \in Nat /\ came \in Nat
  BY <1>2, <1>3
<1>10. /\ Cardinality(Missed') <= gone + Gone(s, l)
       /\ Cardinality(Again') + Repeated' <= came + Came(s, l)
  BY <1>7, <1>8, <1>9
<1>11. reader'.stayed \subseteq Range(Listing(reader.list, reader.user)')
  BY <1>1, <1>2
<1>12. FALSE \in reader'.following => reader'.stayed = {}
  BY <1>1, <1>2, <1>4 DEF PagesInv
<1> QED
  BY <1>2, <1>10, <1>11, <1>12 DEF PagesInv, PagesErrByChanges

LEMMA PageFound ==
  ASSUME EventsInv, ContentTypes, reader \in Pagings
  PROVE  /\ Shown \in List(Targets)
         /\ FALSE \notin reader.following => FoundPage = Page(Shown, reader.take, reader.offset)
         /\ FALSE \in reader.following => FoundPage = <<>>
<1>1. reader.list \in Listings /\ reader.user \in Users /\ reader.take \in Nat \ {0} /\ reader.offset \in Nat
  BY PagingFields
<1>2. Shown \in List(Targets)
  <2>1. CASE reader.list = "bookmarks"
    BY <1>1, <2>1, ListsWiden DEF Shown, Rows, ContentTypes
  <2>2. CASE reader.list = "follows"
    BY <1>1, <2>2 DEF Shown, Rows, EventsInv, FollowTypes
  <2>3. CASE reader.list = "feed"
    BY <2>3, ListsWiden DEF Shown, Rows, ContentTypes
  <2>4. CASE reader.list = "knowledge"
    BY <2>4, ListsWiden DEF Shown, Rows, ContentTypes
  <2> QED
    BY <1>1, <2>1, <2>2, <2>3, <2>4 DEF Listings
<1>3. ASSUME FALSE \in reader.following PROVE FoundPage = <<>>
  <2>1. FoundPage = SubSeq(<<>>, reader.offset + 1, Min({reader.offset + reader.take, 0}))
    BY <1>3 DEF FoundPage, Page
  <2>2. Min({reader.offset + reader.take, 0}) = 0
    BY <1>1 DEF Min
  <2> QED
    BY <1>1, <2>1, <2>2
<1>4. ASSUME FALSE \notin reader.following PROVE FoundPage = Page(Shown, reader.take, reader.offset)
  BY <1>4 DEF FoundPage, Shown
<1> QED
  BY <1>2, <1>3, <1>4

\* The next page.
LEMMA PagesRead ==
  ASSUME EventsInv, ContentTypes, PagesInv, reader \in Pagings, ReadPage
  PROVE  reader' \in Pagings /\ PagesInv'
<1>1. PICK s \in List(Targets), take \in Nat \ {0}, offset \in Nat, rows \in Seq(Targets),
           stayed \in SUBSET Targets, page \in {FoundPage}, next \in {NextOffset},
           all \in {reader.rows \o FoundPage} :
        /\ s = Shown /\ take = reader.take /\ offset = reader.offset /\ rows = reader.rows
        /\ stayed = reader.stayed /\ page = FoundPage
        /\ next = NextOffset /\ all = rows \o page
  BY PagingFields, PageFound
<1>2. /\ reader.kind = "pages" /\ UNCHANGED state
      /\ reader' = [reader EXCEPT
           !.kind = IF Len(page) < take THEN "read" ELSE "pages",
           !.offset = next, !.rows = all, !.following = {}]
  BY <1>1 DEF ReadPage
<1>3. /\ take \in Nat \ {0} /\ offset \in Nat /\ next = offset + take
      /\ rows \in Seq(Targets) /\ stayed \subseteq Targets
      /\ s \in List(Targets)
  BY <1>1, PagingFields, PageFound DEF NextOffset
<1>4. next \in Nat
  BY <1>3
<1>5. page \in Seq(Targets) /\ all \in Seq(Targets)
  <2>1. CASE FALSE \in reader.following
    BY <1>1, <1>3, <2>1, PageFound
  <2>2. CASE FALSE \notin reader.following
    <3>1. page = Page(s, take, offset)
      BY <1>1, <2>2, PageFound
    <3>2. page \in List(Targets)
      BY <1>3, <3>1, PageReads
    <3> QED
      BY <1>1, <1>3, <3>2, ConcatElements DEF List
  <2> QED
    BY <2>1, <2>2
<1>6. /\ reader' \in Pagings /\ reader'.list = reader.list /\ reader'.user = reader.user
      /\ reader'.kind = (IF Len(page) < take THEN "read" ELSE "pages")
      /\ reader'.offset = next /\ reader'.rows = all /\ reader'.following = {}
      /\ reader'.stayed = stayed /\ reader'.gone = reader.gone /\ reader'.came = reader.came
  BY <1>1, <1>2, <1>4, <1>5 DEF Pagings
<1>7. /\ stayed \subseteq Range(Listing(reader.list, reader.user))
      /\ FALSE \in reader.following => stayed = {}
      /\ Cardinality(Missed) <= reader.gone
      /\ Cardinality(Again) + Repeated <= reader.came
      /\ Missed = (stayed \cap Passed(s, offset)) \ Range(rows)
      /\ Again = Range(rows) \cap Ahead(s, offset)
      /\ Repeated = Len(rows) - Cardinality(Range(rows))
  BY <1>1, <1>2 DEF PagesInv, Missed, Again, Repeated
<1>8. stayed \subseteq Range(s)
  BY <1>1, <1>7, ListingShows DEF Shown
<1>9. Listing(reader.list, reader.user)' = Listing(reader.list, reader.user) /\ Shown' = s
  <2>1. /\ bookmarks' = bookmarks /\ follows' = follows
        /\ published' = published /\ recent' = recent
    BY <1>2 DEF state
  <2>2. Rows(reader.list, reader.user)' = Rows(reader.list, reader.user)
    BY <1>6, <2>1 DEF Rows
  <2>3. Listing(reader.list, reader.user)' = Listing(reader.list, reader.user)
    BY <1>6, <2>1, <2>2 DEF Listing
  <2> QED
    BY <1>1, <2>2, <2>3 DEF Shown
<1>10. /\ Missed' = (stayed \cap Passed(s, next)) \ Range(all)
       /\ Again' = Range(all) \cap Ahead(s, next)
       /\ Repeated' = Len(all) - Cardinality(Range(all))
  BY <1>6, <1>9 DEF Missed, Again, Repeated
<1>11. /\ IsFiniteSet(Missed) /\ Cardinality(Missed) \in Nat
       /\ reader.gone \in Nat /\ reader.came \in Nat
  <2>1. IsFiniteSet(Range(s))
    BY <1>3, ListRange
  <2>2. Missed \in SUBSET Range(s)
    BY <1>7, <1>8
  <2> QED
    BY <2>1, <2>2, FS_Subset, FS_CardinalityType, PagingFields
<1>12. CASE FALSE \in reader.following
  <2>1. page = <<>> /\ stayed = {}
    BY <1>1, <1>7, <1>12, PageFound
  <2>2. all = rows /\ Len(page) < take
    BY <1>1, <1>3, <2>1
  <2>3. reader'.kind = "read"
    BY <1>6, <2>2
  <2>4. Cardinality(stayed \ Range(all)) <= reader.gone
    <3>1. stayed \ Range(all) = {}
      BY <2>1
    <3>2. Cardinality(stayed \ Range(all)) = 0
      BY <3>1, FS_EmptySet
    <3> QED
      BY <1>11, <3>2
  <2>5. Len(all) - Cardinality(Range(all)) <= reader.came
    <3>1. IsFiniteSet(Range(rows)) /\ Cardinality(Range(rows)) \in Nat /\ Len(rows) \in Nat
      BY <1>3, SeqRange
    <3>2. Cardinality(Again) \in Nat
      <4>1. Again \in SUBSET Range(rows)
        BY <1>7
      <4> QED
        BY <3>1, <4>1, FS_Subset, FS_CardinalityType
    <3> QED
      BY <1>7, <1>11, <2>2, <3>1, <3>2
  <2> QED
    BY <1>6, <2>3, <2>4, <2>5 DEF PagesInv, PagesErrByChanges
<1>13. CASE FALSE \notin reader.following
  <2>1. page = Page(s, take, offset)
    BY <1>1, <1>13, PageFound
  <2>2. /\ page \in List(Targets)
        /\ Passed(s, next) = Passed(s, offset) \cup Range(page)
        /\ Ahead(s, offset) = Ahead(s, next) \cup Range(page)
        /\ Ahead(s, next) \cap Range(page) = {}
        /\ Len(page) < take => Range(s) = Passed(s, next)
    <3>1. /\ Page(s, take, offset) \in List(Targets)
          /\ Passed(s, offset + take) = Passed(s, offset) \cup Range(Page(s, take, offset))
      BY PageReads
    <3>2. /\ Ahead(s, offset) = Ahead(s, offset + take) \cup Range(Page(s, take, offset))
          /\ Ahead(s, offset + take) \cap Range(Page(s, take, offset)) = {}
      BY PageReads
    <3>3. Len(Page(s, take, offset)) < take => Range(s) = Passed(s, offset + take)
      BY PageReads
    <3> QED
      BY <1>3, <2>1, <3>1, <3>2, <3>3
  <2>3. /\ Range(all) = Range(rows) \cup Range(page)
        /\ Len(all) - Cardinality(Range(all)) \in Int
        /\ Cardinality(Range(all) \cap Ahead(s, next)) + (Len(all) - Cardinality(Range(all)))
             = Cardinality(Range(rows) \cap Ahead(s, offset))
                 + (Len(rows) - Cardinality(Range(rows)))
    <3> DEFINE far == Ahead(s, next)
    <3>1. far \cap Range(page) = {} /\ far \cup Range(page) = Ahead(s, offset)
      BY <2>2
    <3> HIDE DEF far
    <3>2. /\ Range(rows \o page) = Range(rows) \cup Range(page)
          /\ Len(rows \o page) - Cardinality(Range(rows \o page)) \in Int
          /\ Cardinality(Range(rows \o page) \cap far)
                 + (Len(rows \o page) - Cardinality(Range(rows \o page)))
               = Cardinality(Range(rows) \cap (far \cup Range(page)))
                 + (Len(rows) - Cardinality(Range(rows)))
      BY <1>3, <2>2, <3>1, PageErrs
    <3> QED
      BY <1>1, <3>1, <3>2 DEF far
  <2>4. Missed' \subseteq Missed
    BY <1>7, <1>10, <2>2, <2>3
  <2>5. Cardinality(Missed') <= reader.gone
    <3>1. Cardinality(Missed') <= Cardinality(Missed) /\ Cardinality(Missed') \in Nat
      BY <1>11, <2>4, FS_Subset, FS_CardinalityType
    <3> QED
      BY <1>7, <1>11, <3>1
  <2>6. Cardinality(Again') + Repeated' <= reader.came
    BY <1>7, <1>10, <2>3
  <2>7. CASE Len(page) < take
    <3>1. Missed' = stayed \ Range(all)
      BY <1>8, <1>10, <2>2, <2>7
    <3>2. Repeated' <= reader.came
      <4>1. IsFiniteSet(Range(all))
        BY <1>5, SeqRange
      <4>2. Again' \in SUBSET Range(all)
        BY <1>10
      <4>3. Cardinality(Again') \in Nat /\ Repeated' \in Int
        BY <1>10, <2>3, <4>1, <4>2, FS_Subset, FS_CardinalityType
      <4> QED
        BY <1>11, <2>6, <4>3
    <3> QED
      BY <1>6, <1>10, <2>5, <2>7, <3>1, <3>2 DEF PagesInv, PagesErrByChanges
  <2>8. CASE ~(Len(page) < take)
    BY <1>6, <1>7, <1>9, <2>5, <2>6, <2>8 DEF PagesInv, PagesErrByChanges
  <2> QED
    BY <2>7, <2>8
<1> QED
  BY <1>6, <1>12, <1>13

\* The first page is still to come.
LEMMA PagesOpen ==
  ASSUME EventsInv, ContentTypes,
         NEW list \in Listings, NEW u \in Users, NEW limit \in Limits, OpenListing(list, u, limit)
  PROVE  reader' \in Pagings /\ PagesInv'
<1>1. Take(limit) \in Nat \ {0}
  BY EngagementAssumption DEF Take
<1>2. PICK listing, s : listing = Listing(list, u) /\ s = Rows(list, u)
  OBVIOUS
<1>3. s \in List(Targets) /\ Range(listing) \subseteq Range(s)
  <2>1. s \in List(Targets)
    <3>1. bookmarks[u] \in List(Items) /\ follows[u] \in List(Targets)
          /\ published \in List(Items) /\ recent \in List(Items)
      BY DEF ContentTypes, EventsInv, FollowTypes
    <3> QED
      BY <1>2, <3>1, ListsWiden DEF Rows, Listings
  <2> QED
    BY <1>2, <2>1, ListingShows
<1>4. Range(s) \subseteq Targets
  BY <1>3, ListRange
<1>5. /\ UNCHANGED state
      /\ reader' = [kind |-> "pages", list |-> list, user |-> u, take |-> Take(limit),
                    offset |-> 0, rows |-> <<>>, following |-> {}, stayed |-> Range(listing),
                    gone |-> 0, came |-> 0]
  BY <1>2 DEF OpenListing
<1>6. <<>> \in Seq(Targets) /\ Len(<<>>) = 0 /\ Range(<<>>) = {}
  BY DEF Range
<1>7. reader' \in Pagings
  BY <1>1, <1>3, <1>4, <1>5, <1>6 DEF Pagings
<1>8. Shown' = s /\ Listing(reader.list, reader.user)' = listing
  <2>1. /\ bookmarks' = bookmarks /\ follows' = follows
        /\ published' = published /\ recent' = recent
        /\ reader'.list = list /\ reader'.user = u
    BY <1>5 DEF state
  <2>2. Rows(reader.list, reader.user)' = s
    BY <1>2, <2>1 DEF Rows
  <2>3. Listing(reader.list, reader.user)' = listing
    BY <1>2, <2>1, <2>2 DEF Listing
  <2> QED
    BY <2>2, <2>3 DEF Shown
<1>9. Missed' = {} /\ Again' = {} /\ Repeated' = Len(<<>>) - Cardinality({})
  <2>1. Passed(s, 0) = {}
    <3>1. Len(s) \in Nat
      BY <1>3, ListRange
    <3> QED
      BY <3>1 DEF Passed
  <2> QED
    BY <1>5, <1>6, <1>8, <2>1 DEF Missed, Again, Repeated
<1>10. Cardinality(Missed') = 0 /\ Cardinality(Again') = 0 /\ Repeated' = 0
  BY <1>6, <1>9, FS_EmptySet
<1> QED
  BY <1>5, <1>7, <1>8, <1>10 DEF PagesInv, PagesErrByChanges

\* The spaces of the feed's reader are looked up.
LEMMA PagesFollows ==
  ASSUME PagesInv, reader \in Pagings, ReadFollows
  PROVE  reader' \in Pagings /\ PagesInv'
<1>1. PICK found \in BOOLEAN : found = Contains(follows[reader.user], Space)
  BY DEF Contains
<1>2. /\ reader.kind = "pages" /\ reader.list = "feed" /\ UNCHANGED state
      /\ reader' = [reader EXCEPT !.following = {found}]
  BY <1>1 DEF ReadFollows
<1>3. /\ reader' \in Pagings /\ reader'.kind = "pages" /\ reader'.list = reader.list
      /\ reader'.user = reader.user /\ reader'.offset = reader.offset
      /\ reader'.rows = reader.rows /\ reader'.following = {found}
      /\ reader'.stayed = reader.stayed /\ reader'.gone = reader.gone /\ reader'.came = reader.came
  BY <1>2 DEF Pagings
<1>4. /\ Listing(reader.list, reader.user)' = Listing(reader.list, reader.user)
      /\ Shown' = Shown
  BY <1>2, <1>3 DEF Shown, Listing, Rows, state
<1>5. Missed' = Missed /\ Again' = Again /\ Repeated' = Repeated
  BY <1>3, <1>4 DEF Missed, Again, Repeated
<1>6. FALSE \in reader'.following => reader'.stayed = {}
  <2> SUFFICES ASSUME ~found PROVE reader.stayed = {}
    BY <1>3
  <2>1. Listing(reader.list, reader.user) = <<>>
    BY <1>1, <1>2 DEF Listing
  <2>2. Range(<<>>) = {}
    BY DEF Range
  <2> QED
    BY <1>2, <2>1, <2>2 DEF PagesInv
<1> QED
  BY <1>2, <1>3, <1>4, <1>5, <1>6 DEF PagesInv, PagesErrByChanges

-------------------------------------------------------------------------------
(* Vote summaries *)

\* The totals that were read are those of some numbers of up- and downvotes.  What
\* was read is off what is there now, and one of it off the other, by no more than
\* the votes that changed; it is right if none did.
TotalsErr(totals, up, down) ==
  /\ totals.count = up + down /\ totals.sum = up - down
  /\ reader.upvotes = {} => /\ up - Upvotes(reader.item) <= reader.changes
                            /\ Upvotes(reader.item) - up <= reader.changes
  /\ \A n \in reader.upvotes : up - n <= reader.changes /\ n - up <= reader.changes
  /\ reader.changes = 0 => up = Upvotes(reader.item) /\ down = Downvotes(reader.item)

UpvotesErr(n) ==
  /\ n \in Nat
  /\ reader.totals = {} => /\ n - Upvotes(reader.item) <= reader.changes
                           /\ Upvotes(reader.item) - n <= reader.changes
  /\ reader.changes = 0 => n = Upvotes(reader.item)

SummaryInv ==
  reader.kind = "summary" =>
    /\ \A totals \in reader.totals : \E up, down \in Nat : TotalsErr(totals, up, down)
    /\ \A n \in reader.upvotes : UpvotesErr(n)
    /\ \A mine \in reader.mine :
         reader.changes = 0 => mine = MyVote(reader.item, reader.user)

LEMMA SummaryFields ==
  ASSUME NEW r \in Summaries
  PROVE  /\ r.kind = "summary" /\ r.item \in Items /\ r.user \in Users
         /\ r.totals \subseteq [count : Nat, sum : Int] /\ r.upvotes \subseteq Nat
         /\ r.mine \subseteq {-1, 0, 1} /\ r.changes \in Nat
BY DEF Summaries

LEMMA VotesCount ==
  ASSUME VoteTypes, NEW i \in Items
  PROVE  /\ Upvotes(i) \in Nat /\ Downvotes(i) \in Nat
         /\ Cardinality(VotesOf(i)) = Upvotes(i) + Downvotes(i)
<1>1. votes \in SUBSET Vote /\ IsFiniteSet(votes)
  BY DEF VoteTypes
<1>2. VotesOf(i) = {v \in votes : v.item = i}
  BY DEF VotesOf
<1> QED
  BY <1>1, <1>2, VoteCounts, VotesCounted

\* A command while a summary is read.
LEMMA SummaryWatch ==
  ASSUME EventsInv, ContentTypes, Command, Watch, SummaryInv, reader \in Summaries
  PROVE  reader' \in Summaries /\ SummaryInv'
<1>1. PICK i \in Items, u \in Users, changes \in Nat, d \in {0, 1} :
        /\ i = reader.item /\ u = reader.user /\ changes = reader.changes
        /\ d = IF votes' = votes THEN 0 ELSE 1
  BY SummaryFields
<1>2. reader' = [reader EXCEPT !.changes = changes + d]
  BY <1>1, SummaryFields DEF Watch
<1>3. /\ reader' \in Summaries /\ reader'.kind = "summary"
      /\ reader'.item = i /\ reader'.user = u
      /\ reader'.totals = reader.totals /\ reader'.upvotes = reader.upvotes
      /\ reader'.mine = reader.mine /\ reader'.changes = changes + d
  BY <1>1, <1>2 DEF Summaries
<1>4. /\ Upvotes(i) \in Nat /\ Upvotes(i)' \in Nat
      /\ Upvotes(i)' <= Upvotes(i) + d /\ Upvotes(i) <= Upvotes(i)' + d
      /\ d = 0 => votes' = votes
  <2>1. VoteTypes /\ VoteTypes'
    BY VotesNear DEF ContentTypes
  <2>2. Upvotes(i) \in Nat /\ Upvotes(i)' \in Nat
    <3>1. votes \in SUBSET Vote /\ IsFiniteSet(votes) /\ votes' \in SUBSET Vote /\ IsFiniteSet(votes')
      BY <2>1 DEF VoteTypes
    <3> QED
      BY <3>1, VoteCounts, VotesCounted
  <2>3. CASE votes' = votes
    <3>1. Upvotes(i)' = Upvotes(i)
      BY <2>3 DEF Upvotes, VotesOf
    <3> QED
      BY <1>1, <2>2, <2>3, <3>1
  <2>4. CASE votes' # votes
    BY <1>1, <2>2, <2>4, VotesNear
  <2> QED
    BY <2>3, <2>4
<1>5. d = 0 => /\ Upvotes(i)' = Upvotes(i) /\ Downvotes(i)' = Downvotes(i)
               /\ MyVote(i, u)' = MyVote(i, u)
  BY <1>4 DEF Upvotes, Downvotes, MyVote, VotesOf
<1>6. reader.kind = "summary"
  BY SummaryFields
<1>7. ASSUME NEW totals \in reader.totals
      PROVE  \E up, down \in Nat : TotalsErr(totals, up, down)'
  <2>1. PICK up \in Nat, down \in Nat : TotalsErr(totals, up, down)
    BY <1>6, <1>7 DEF SummaryInv
  <2>2. \A n \in reader.upvotes : n \in Nat /\ up - n <= changes /\ n - up <= changes
    BY <1>1, <2>1, SummaryFields DEF TotalsErr
  <2>3. \A n \in reader.upvotes : up - n <= changes + d /\ n - up <= changes + d
    BY <1>1, <2>2
  <2>4. reader.upvotes = {} => /\ up - Upvotes(i)' <= changes + d
                               /\ Upvotes(i)' - up <= changes + d
    <3>1. reader.upvotes = {} => up - Upvotes(i) <= changes /\ Upvotes(i) - up <= changes
      BY <1>1, <2>1 DEF TotalsErr
    <3> QED
      BY <1>1, <1>4, <2>1, <3>1
  <2>5. changes + d = 0 => up = Upvotes(i)' /\ down = Downvotes(i)'
    <3>1. changes + d = 0 => changes = 0 /\ d = 0
      BY <1>1
    <3> QED
      BY <1>1, <1>5, <2>1, <3>1 DEF TotalsErr
  <2>6. totals.count = up + down /\ totals.sum = up - down
    BY <2>1 DEF TotalsErr
  <2>7. Upvotes(reader.item)' = Upvotes(i)' /\ Downvotes(reader.item)' = Downvotes(i)'
    BY <1>3 DEF Upvotes, Downvotes, VotesOf
  <2>8. TotalsErr(totals, up, down)'
    BY <1>3, <2>3, <2>4, <2>5, <2>6, <2>7 DEF TotalsErr
  <2> QED
    BY <2>8
<1>8. ASSUME NEW n \in reader.upvotes PROVE UpvotesErr(n)'
  <2>1. /\ n \in Nat
        /\ reader.totals = {} => n - Upvotes(i) <= changes /\ Upvotes(i) - n <= changes
        /\ changes = 0 => n = Upvotes(i)
    BY <1>1, <1>6, <1>8 DEF SummaryInv, UpvotesErr
  <2>2. reader.totals = {} => n - Upvotes(i)' <= changes + d /\ Upvotes(i)' - n <= changes + d
    BY <1>1, <1>4, <2>1
  <2>3. changes + d = 0 => n = Upvotes(i)'
    BY <1>1, <1>5, <2>1
  <2>4. Upvotes(reader.item)' = Upvotes(i)'
    BY <1>3 DEF Upvotes, VotesOf
  <2> QED
    BY <1>3, <2>1, <2>2, <2>3, <2>4 DEF UpvotesErr
<1>9. ASSUME NEW mine \in reader.mine, changes + d = 0
      PROVE  mine = MyVote(reader.item, reader.user)'
  <2>1. changes = 0 /\ d = 0
    BY <1>1, <1>9
  <2>2. mine = MyVote(i, u)
    BY <1>1, <1>6, <1>9, <2>1 DEF SummaryInv
  <2>3. MyVote(reader.item, reader.user)' = MyVote(i, u)'
    BY <1>3 DEF MyVote, VotesOf
  <2> QED
    BY <1>5, <2>1, <2>2, <2>3
<1> QED
  BY <1>3, <1>7, <1>8, <1>9 DEF SummaryInv

\* The three statements of a summary.
LEMMA SummaryReads ==
  ASSUME EventsInv, ContentTypes, SummaryInv, reader \in Summaries,
         ReadTotals \/ ReadUpvotes \/ ReadMine
  PROVE  reader' \in Summaries /\ SummaryInv'
<1>1. PICK i \in Items, u \in Users, changes \in Nat :
        i = reader.item /\ u = reader.user /\ changes = reader.changes
  BY SummaryFields
<1>2. VoteTypes /\ reader.kind = "summary" /\ votes' = votes
  BY SummaryFields DEF ContentTypes, ReadTotals, ReadUpvotes, ReadMine, state
<1>3. /\ Upvotes(i) \in Nat /\ Downvotes(i) \in Nat
      /\ Cardinality(VotesOf(i)) = Upvotes(i) + Downvotes(i)
  BY <1>2, VotesCount
<1>4. ASSUME reader'.item = i, reader'.user = u
      PROVE  /\ Upvotes(reader.item)' = Upvotes(i) /\ Downvotes(reader.item)' = Downvotes(i)
             /\ MyVote(reader.item, reader.user)' = MyVote(i, u)
  BY <1>2, <1>4 DEF Upvotes, Downvotes, MyVote, VotesOf
<1>5. \A n \in reader.upvotes :
        /\ n \in Nat
        /\ reader.totals = {} => n - Upvotes(i) <= changes /\ Upvotes(i) - n <= changes
        /\ changes = 0 => n = Upvotes(i)
  BY <1>1, <1>2 DEF SummaryInv, UpvotesErr
<1>6. \A mine \in reader.mine : changes = 0 => mine = MyVote(i, u)
  BY <1>1, <1>2 DEF SummaryInv
<1>7. CASE ReadTotals
  <2>1. PICK up \in Nat, down \in Nat : up = Upvotes(i) /\ down = Downvotes(i)
    BY <1>3
  <2>2. PICK totals : totals = [count |-> up + down, sum |-> up - down]
    OBVIOUS
  <2>3. reader.totals = {} /\ reader' = [reader EXCEPT !.totals = {totals}]
    BY <1>1, <1>3, <1>7, <2>1, <2>2 DEF ReadTotals
  <2>4. /\ totals \in [count : Nat, sum : Int]
        /\ totals.count = up + down /\ totals.sum = up - down
    BY <2>2
  <2>5. /\ reader' \in Summaries /\ reader'.item = i /\ reader'.user = u
        /\ reader'.totals = {totals} /\ reader'.upvotes = reader.upvotes
        /\ reader'.mine = reader.mine /\ reader'.changes = changes
    BY <1>1, <2>3, <2>4 DEF Summaries
  <2>6. TotalsErr(totals, up, down)'
    <3>1. \A n \in reader.upvotes : up - n <= changes /\ n - up <= changes
      BY <1>3, <1>5, <2>1, <2>3
    <3>2. up - up <= changes
      OBVIOUS
    <3>3. Upvotes(reader.item)' = up /\ Downvotes(reader.item)' = down
      BY <1>4, <2>1, <2>5
    <3> QED
      BY <2>4, <2>5, <3>1, <3>2, <3>3 DEF TotalsErr
  <2>7. \A n \in reader'.upvotes : UpvotesErr(n)'
    BY <1>4, <1>5, <2>5 DEF UpvotesErr
  <2>8. \A mine \in reader'.mine :
          reader'.changes = 0 => mine = MyVote(reader.item, reader.user)'
    BY <1>4, <1>6, <2>5
  <2> QED
    BY <2>5, <2>6, <2>7, <2>8 DEF SummaryInv
<1>8. CASE ReadUpvotes
  <2>1. reader.upvotes = {} /\ reader' = [reader EXCEPT !.upvotes = {Upvotes(i)}]
    BY <1>1, <1>8 DEF ReadUpvotes
  <2>2. /\ reader' \in Summaries /\ reader'.item = i /\ reader'.user = u
        /\ reader'.totals = reader.totals /\ reader'.upvotes = {Upvotes(i)}
        /\ reader'.mine = reader.mine /\ reader'.changes = changes
    BY <1>1, <1>3, <2>1 DEF Summaries
  <2>3. ASSUME NEW totals \in reader'.totals
        PROVE  \E up, down \in Nat : TotalsErr(totals, up, down)'
    <3>1. PICK up \in Nat, down \in Nat : TotalsErr(totals, up, down)
      BY <1>2, <2>2, <2>3 DEF SummaryInv
    <3>2. /\ totals.count = up + down /\ totals.sum = up - down
          /\ up - Upvotes(i) <= changes /\ Upvotes(i) - up <= changes
          /\ changes = 0 => up = Upvotes(i) /\ down = Downvotes(i)
      BY <1>1, <2>1, <3>1 DEF TotalsErr
    <3>3. TotalsErr(totals, up, down)'
      BY <1>4, <2>2, <3>2 DEF TotalsErr
    <3> QED
      BY <3>3
  <2>4. \A n \in reader'.upvotes : UpvotesErr(n)'
    <3>1. Upvotes(i) - Upvotes(i) <= changes
      BY <1>3
    <3> QED
      BY <1>3, <1>4, <2>2, <3>1 DEF UpvotesErr
  <2>5. \A mine \in reader'.mine :
          reader'.changes = 0 => mine = MyVote(reader.item, reader.user)'
    BY <1>4, <1>6, <2>2
  <2> QED
    BY <2>2, <2>3, <2>4, <2>5 DEF SummaryInv
<1>9. CASE ReadMine
  <2>1. MyVote(i, u) \in {-1, 0, 1}
    BY <1>2 DEF MyVote, VotesOf, VoteTypes, Vote
  <2>2. reader' = [reader EXCEPT !.mine = {MyVote(i, u)}]
    BY <1>1, <1>9 DEF ReadMine
  <2>3. /\ reader' \in Summaries /\ reader'.item = i /\ reader'.user = u
        /\ reader'.totals = reader.totals /\ reader'.upvotes = reader.upvotes
        /\ reader'.mine = {MyVote(i, u)} /\ reader'.changes = changes
    BY <1>1, <2>1, <2>2 DEF Summaries
  <2>4. ASSUME NEW totals \in reader'.totals
        PROVE  \E up, down \in Nat : TotalsErr(totals, up, down)'
    <3>1. PICK up \in Nat, down \in Nat : TotalsErr(totals, up, down)
      BY <1>2, <2>3, <2>4 DEF SummaryInv
    <3>2. TotalsErr(totals, up, down)'
      BY <1>1, <1>4, <2>3, <3>1 DEF TotalsErr
    <3> QED
      BY <3>2
  <2>5. \A n \in reader'.upvotes : UpvotesErr(n)'
    BY <1>4, <1>5, <2>3 DEF UpvotesErr
  <2>6. \A mine \in reader'.mine :
          reader'.changes = 0 => mine = MyVote(reader.item, reader.user)'
    BY <1>4, <2>3
  <2> QED
    BY <2>3, <2>4, <2>5, <2>6 DEF SummaryInv
<1> QED
  BY <1>7, <1>8, <1>9

-------------------------------------------------------------------------------
(* The invariant *)

EngagementInv == EventsInv /\ ContentTypes /\ SummaryInv /\ PagesInv

LEMMA CommandsCounted ==
  ASSUME ContentTypes, Command
  PROVE  commands' \in 0 .. MaxCommands
<1>1. commands' = commands \/ Begin
  <2>1. \A u \in Users, i \in Items :
          /\ RemoveVote(u, i) => Begin
          /\ RemoveBookmark(u, i) => Begin
    BY DEF RemoveVote, RemoveBookmark
  <2>2. \A c \in Connections, u \in Users, i \in Items :
          /\ \A value \in {1, -1} : FindVotable(c, u, i, value) => Begin
          /\ FindBookmarkable(c, u, i) => Begin
    BY DEF FindVotable, FindBookmarkable
  <2>3. \A c \in Connections, u \in Users, t \in Targets :
          FindTarget(c, u, t) \/ RemoveFollow(c, u, t) => Begin
    BY DEF FindTarget, RemoveFollow
  <2>4. \A c \in Connections :
          CastVote(c) \/ AddBookmark(c) \/ AddFollow(c) \/ FollowTarget(c) \/ UnfollowTarget(c)
            \/ Rollback(c) => commands' = commands
    BY DEF CastVote, AddBookmark, AddFollow, FollowTarget, UnfollowTarget, Rollback
  <2>5. \A i \in Items : PublishItem(i) \/ EditItem(i) => Begin
    BY DEF PublishItem, EditItem
  <2>6. \A t \in Targets : SoftDelete(t) => Begin
    BY DEF SoftDelete
  <2> QED
    BY <2>1, <2>2, <2>3, <2>4, <2>5, <2>6 DEF Command
<1> QED
  BY <1>1, EngagementAssumption DEF ContentTypes, Begin

\* A command and what it does to the reader.
LEMMA CommandKeeps ==
  ASSUME EngagementInv, Command, Watch
  PROVE  ContentTypes' /\ SummaryInv' /\ PagesInv'
<1>1. EventsInv /\ ContentTypes /\ SummaryInv /\ PagesInv
  BY DEF EngagementInv
<1>2. reader' \in Reader /\ SummaryInv' /\ PagesInv'
  <2>1. CASE reader \in Summaries
    <3>1. reader' \in Summaries /\ SummaryInv'
      BY <1>1, <2>1, SummaryWatch
    <3>2. PagesInv'
      BY <3>1, Readers DEF PagesInv, PagesErrByChanges
    <3> QED
      BY <3>1, <3>2, Readers
  <2>2. CASE reader \in Pagings /\ reader.kind = "pages"
    <3>1. reader' \in Pagings /\ PagesInv'
      BY <1>1, <2>2, PagesWatch
    <3>2. SummaryInv'
      BY <3>1, Readers DEF SummaryInv
    <3> QED
      BY <3>1, <3>2, Readers
  <2>3. CASE reader = Idle \/ (reader \in Pagings /\ reader.kind = "read")
    <3>1. reader.kind \in {"idle", "read"} /\ reader \in Reader
      BY <2>3, Readers
    <3>2. reader' = reader
      BY <3>1 DEF Watch
    <3>3. SummaryInv'
      BY <3>1, <3>2 DEF SummaryInv
    <3>4. PagesInv'
      BY <1>1, <3>1, <3>2 DEF PagesInv, PagesErrByChanges
    <3> QED
      BY <3>1, <3>2, <3>3, <3>4
  <2> QED
    BY <1>1, <2>1, <2>2, <2>3, Readers DEF ContentTypes
<1>3. ContentTypes'
  <2>1. VoteTypes'
    BY <1>1, VotesNear
  <2>2. /\ live' \subseteq Targets /\ published' \in List(Items) /\ recent' \in List(Items)
        /\ bookmarks' \in [Users -> List(Items)]
        /\ \A x : Contains(recent', x) <=> x \in live' \cap Items
    BY <1>1, CommandMoves
  <2>3. commands' \in 0 .. MaxCommands
    BY <1>1, CommandsCounted
  <2> QED
    BY <1>2, <2>1, <2>2, <2>3 DEF ContentTypes
<1> QED
  BY <1>2, <1>3

\* A statement of the reader.
LEMMA ReadKeeps ==
  ASSUME EngagementInv, Read
  PROVE  ContentTypes' /\ SummaryInv' /\ PagesInv'
<1>1. EventsInv /\ ContentTypes /\ SummaryInv /\ PagesInv
  BY DEF EngagementInv
<1>2. UNCHANGED <<state, commands>>
  BY DEF Read, GetVoteSummary, ReadTotals, ReadUpvotes, ReadMine, OpenListing, ReadFollows,
     ReadPage, EndRead
<1>3. ASSUME reader' \in Reader PROVE ContentTypes'
  BY <1>1, <1>2, <1>3 DEF ContentTypes, VoteTypes, state
<1>4. CASE reader' \in Summaries /\ SummaryInv'
  <2>1. PagesInv'
    BY <1>4, Readers DEF PagesInv, PagesErrByChanges
  <2> QED
    BY <1>3, <1>4, <2>1, Readers
<1>5. CASE reader' \in Pagings /\ PagesInv'
  <2>1. SummaryInv'
    BY <1>5, Readers DEF SummaryInv
  <2> QED
    BY <1>3, <1>5, <2>1, Readers
<1>6. CASE \E i \in Items, u \in Users : GetVoteSummary(i, u)
  <2>1. reader' \in Summaries /\ reader'.totals = {} /\ reader'.upvotes = {} /\ reader'.mine = {}
    BY <1>6 DEF GetVoteSummary, Summaries
  <2>2. SummaryInv'
    BY <2>1 DEF SummaryInv
  <2> QED
    BY <1>4, <2>1, <2>2
<1>7. CASE ReadTotals \/ ReadUpvotes \/ ReadMine
  <2>1. reader.kind = "summary"
    BY <1>7 DEF ReadTotals, ReadUpvotes, ReadMine
  <2>2. reader \in Summaries
    BY <1>1, <2>1, Readers DEF ContentTypes
  <2> QED
    BY <1>1, <1>4, <1>7, <2>2, SummaryReads
<1>8. CASE \E list \in Listings, u \in Users, limit \in Limits : OpenListing(list, u, limit)
  BY <1>1, <1>5, <1>8, PagesOpen
<1>9. CASE ReadFollows \/ ReadPage
  <2>1. reader.kind = "pages"
    BY <1>9 DEF ReadFollows, ReadPage
  <2>2. reader \in Pagings
    BY <1>1, <2>1, Readers DEF ContentTypes
  <2> QED
    BY <1>1, <1>5, <1>9, <2>2, PagesFollows, PagesRead
<1>10. CASE EndRead
  <2>1. reader' = Idle
    BY <1>10 DEF EndRead
  <2>2. SummaryInv' /\ PagesInv'
    BY <2>1, Readers DEF SummaryInv, PagesInv, PagesErrByChanges
  <2> QED
    BY <1>3, <2>1, <2>2, Readers
<1> QED
  BY <1>6, <1>7, <1>8, <1>9, <1>10 DEF Read

LEMMA EngagementStep == EngagementInv /\ [EngagementNext]_vars => EngagementInv'
<1> SUFFICES ASSUME EngagementInv, [EngagementNext]_vars PROVE EngagementInv'
  OBVIOUS
<1>1. EventsInv'
  BY EventsNext DEF EngagementInv
<1>2. CASE Command /\ Watch
  BY <1>1, <1>2, CommandKeeps DEF EngagementInv
<1>3. CASE Read
  BY <1>1, <1>3, ReadKeeps DEF EngagementInv
<1>4. CASE UNCHANGED vars
  <2>1. /\ live' = live /\ published' = published /\ recent' = recent /\ votes' = votes
        /\ bookmarks' = bookmarks /\ follows' = follows
        /\ reader' = reader /\ commands' = commands
    BY <1>4 DEF vars, state
  <2>2. ContentTypes'
    BY <2>1 DEF EngagementInv, ContentTypes, VoteTypes
  <2>3. SummaryInv'
    <3>1. /\ Upvotes(reader.item)' = Upvotes(reader.item)
          /\ Downvotes(reader.item)' = Downvotes(reader.item)
          /\ MyVote(reader.item, reader.user)' = MyVote(reader.item, reader.user)
      BY <2>1 DEF Upvotes, Downvotes, MyVote, VotesOf
    <3>2. /\ \A totals, up, down : TotalsErr(totals, up, down)' <=> TotalsErr(totals, up, down)
          /\ \A n : UpvotesErr(n)' <=> UpvotesErr(n)
      BY <2>1, <3>1 DEF TotalsErr, UpvotesErr
    <3> QED
      BY <2>1, <3>1, <3>2 DEF EngagementInv, SummaryInv
  <2>4. PagesInv'
    BY <2>1 DEF EngagementInv, PagesInv, PagesErrByChanges, Missed, Again, Repeated, Shown,
       Listing, Rows
  <2> QED
    BY <1>1, <2>2, <2>3, <2>4 DEF EngagementInv
<1> QED
  BY <1>2, <1>3, <1>4 DEF EngagementNext

LEMMA EngagementStart == EngagementInit => EngagementInv
<1> SUFFICES ASSUME EngagementInit PROVE EngagementInv
  OBVIOUS
<1>1. <<>> \in List(Items)
  BY DEF List, IsInjective
<1>2. recent \in List(Items) /\ \A x : Contains(recent, x) <=> x \in Items
  <2>1. PICK n \in Nat : n = Cardinality(Items)
    BY EngagementAssumption, FS_CardinalityType
  <2>2. recent \in [1 .. n -> Items] /\ IsInjective(recent)
    BY <2>1 DEF EngagementInit
  <2>3. recent \in Seq(Items) /\ Len(recent) = n
    BY <2>2
  <2>4. recent \in List(Items)
    BY <2>2, <2>3 DEF List
  <2>5. recent \in Surjection(1 .. n, Items)
    <3>1. recent \in Injection(1 .. n, Items)
      BY <2>2 DEF Injection
    <3>2. Cardinality(1 .. n) = Cardinality(Items)
      <4>1. Cardinality(1 .. n) = n
        BY FS_Interval
      <4> QED
        BY <2>1, <4>1
    <3> QED
      BY <3>1, <3>2, EngagementAssumption, FS_Injection
  <2>6. \A x \in Items : \E k \in 1 .. n : recent[k] = x
    BY <2>5 DEF Surjection
  <2>7. \A k \in 1 .. n : recent[k] \in Items
    BY <2>2
  <2> QED
    BY <2>3, <2>4, <2>6, <2>7 DEF Contains
<1>3. ContentTypes
  <2>1. VoteTypes
    BY FS_EmptySet DEF EngagementInit, VoteTypes
  <2>2. \A x : Contains(recent, x) <=> x \in live \cap Items
    BY <1>2 DEF EngagementInit, Targets
  <2>3. bookmarks \in [Users -> List(Items)] /\ published \in List(Items)
    BY <1>1 DEF EngagementInit
  <2>4. reader \in Reader /\ commands \in 0 .. MaxCommands
    BY EngagementAssumption, Readers DEF EngagementInit
  <2> QED
    BY <1>2, <2>1, <2>2, <2>3, <2>4 DEF EngagementInit, ContentTypes
<1>4. SummaryInv /\ PagesInv
  BY Readers DEF EngagementInit, SummaryInv, PagesInv, PagesErrByChanges
<1> QED
  BY <1>3, <1>4, EventsInit DEF EngagementInv

\* The follow events, the tables and what a reader has seen so far keep in step.
THEOREM EngagementInductive == EngagementSpec => []EngagementInv
BY EngagementStart, EngagementStep, PTL DEF EngagementSpec

\* Lists, tables, transactions and the reader are what the code keeps: no list has a
\* row twice, and a user has one vote on an item.
THEOREM EngagementTypeCorrect == EngagementSpec => []EngagementTypeOK
<1>1. EngagementInv => EngagementTypeOK
  <2> SUFFICES ASSUME EngagementInv PROVE EngagementTypeOK
    OBVIOUS
  <2>1. EventsInv /\ ContentTypes
    BY DEF EngagementInv
  <2>2. /\ published \in Seq(Items) /\ IsInjective(published)
        /\ recent \in Seq(Items) /\ IsInjective(recent)
        /\ \A u \in Users : bookmarks[u] \in Seq(Items) /\ IsInjective(bookmarks[u])
        /\ \A u \in Users : follows[u] \in Seq(Targets) /\ IsInjective(follows[u])
    BY <2>1 DEF EventsInv, FollowTypes, ContentTypes, List
  <2>3. Range(recent) = live \cap Items
    <3>1. recent \in List(Items) /\ \A x : Contains(recent, x) <=> x \in live \cap Items
      BY <2>1 DEF ContentTypes
    <3>2. \A x : x \in Range(recent) <=> Contains(recent, x)
      BY <3>1, ListRange
    <3> QED
      BY <3>1, <3>2
  <2> QED
    BY <2>1, <2>2, <2>3 DEF EngagementTypeOK, EventsInv, FollowTypes, ContentTypes, VoteTypes
<1> QED
  BY <1>1, EngagementInductive, PTL

\* A vote summary errs by no more than the votes that changed while it was read, and
\* is exact if none did.
THEOREM SummarySafe == EngagementSpec => []SummaryErrsByOverlap
<1>1. EngagementInv => SummaryErrsByOverlap
  <2> SUFFICES ASSUME EngagementInv, reader.kind = "summary", NEW totals \in reader.totals,
                      NEW n \in reader.upvotes, NEW mine \in reader.mine
               PROVE  LET down == totals.count - n
                          gap  == totals.sum - (n - down)
                      IN /\ down >= -reader.changes
                         /\ gap \in -2 * reader.changes .. 2 * reader.changes
                         /\ reader.changes = 0 =>
                              /\ n = Upvotes(reader.item) /\ down = Downvotes(reader.item)
                              /\ mine = MyVote(reader.item, reader.user)
    BY DEF SummaryErrsByOverlap
  <2>1. reader \in Summaries /\ SummaryInv
    BY Readers DEF EngagementInv, ContentTypes
  <2>2. PICK changes \in Nat : changes = reader.changes
    BY <2>1, SummaryFields
  <2>3. PICK up \in Nat, down \in Nat : TotalsErr(totals, up, down)
    BY <2>1 DEF SummaryInv
  <2>4. n \in Nat /\ (changes = 0 => n = Upvotes(reader.item))
    BY <2>1, <2>2 DEF SummaryInv, UpvotesErr
  <2>5. /\ totals.count = up + down /\ totals.sum = up - down
        /\ up - n <= changes /\ n - up <= changes
        /\ changes = 0 => up = Upvotes(reader.item) /\ down = Downvotes(reader.item)
    BY <2>2, <2>3 DEF TotalsErr
  <2>6. up + down - n >= -changes
    BY <2>4, <2>5
  <2>7. (up - down) - (n - (up + down - n)) \in -2 * changes .. 2 * changes
    BY <2>4, <2>5
  <2>8. changes = 0 => up + down - n = down
    BY <2>4, <2>5
  <2>9. changes = 0 => mine = MyVote(reader.item, reader.user)
    BY <2>1, <2>2 DEF SummaryInv
  <2> QED
    BY <2>2, <2>4, <2>5, <2>6, <2>7, <2>8, <2>9
<1> QED
  BY <1>1, EngagementInductive, PTL

\* A client that read a listing to its end has missed no more rows than went from
\* its way, and has seen no more rows twice than came into it.
THEOREM PagesSafe == EngagementSpec => []PagesErrByChanges
<1>1. EngagementInv => PagesErrByChanges
  BY DEF EngagementInv, PagesInv
<1> QED
  BY <1>1, EngagementInductive, PTL
===============================================================================
