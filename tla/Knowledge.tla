------------------------------ MODULE Knowledge ------------------------------
(***************************************************************************)
(* One knowledge item and its revisions (src/modules/knowledge, and the    *)
(* two commands of src/modules/engagement that write the item's row).      *)
(* Every command is a transaction that loads the row with findById and     *)
(* later writes it back from what it loaded: an edit under an optimistic   *)
(* version check, everything else under none.  READ COMMITTED lets other   *)
(* commands commit in between.  A write holds the row's lock until its     *)
(* commit, so the write and the rest of the handler are one step.          *)
(***************************************************************************)
EXTENDS Naturals, FiniteSets

CONSTANTS
  Transactions, \* connections that can run a command on the item
  Texts,        \* title and body together
  Answers,      \* items that answer this one
  None,         \* null
  MaxVersion,   \* bound: edits
  MaxEvents     \* bound: publishes

ASSUME KnowledgeAssumption ==
  /\ None \notin Texts
  /\ MaxVersion \in Nat
  /\ MaxEvents \in Nat

VARIABLES
  item,       \* its row in knowledge_items
  revisions,  \* its rows in revisions, each with the version its author named
  announced,  \* knowledge.published rows appended to the outbox
  snap,       \* transaction -> the row findById gave it
  overwrote   \* history: a command wrote back a row that had changed since its load

kvars == <<item, revisions, announced, snap, overwrote>>

-------------------------------------------------------------------------------

Row == [version : Nat, text : Texts \cup {None}, status : {"DRAFT", "PUBLISHED"},
        verified : BOOLEAN, accepted : Answers \cup {None}, deleted : BOOLEAN]

Revision == [version : Nat, text : Texts, expected : Nat]

TypeOK ==
  /\ item \in Row
  /\ revisions \subseteq Revision
  /\ announced \in Nat
  /\ snap \in [Transactions -> Row]
  /\ \A t \in Transactions : snap[t].version <= item.version
  /\ overwrote \in BOOLEAN

NoRow == [version |-> 0, text |-> None, status |-> "DRAFT",
          verified |-> FALSE, accepted |-> None, deleted |-> FALSE]

Init ==
  /\ item = NoRow
  /\ revisions = {}
  /\ announced = 0
  /\ snap = [t \in Transactions |-> NoRow]
  /\ overwrote = FALSE

CreateKnowledge(text) ==
  /\ item = NoRow
  /\ item' = [NoRow EXCEPT !.version = 1, !.text = text]
  /\ UNCHANGED <<revisions, announced, snap, overwrote>>

\* findById maps the whole row; the soft-delete extension hides deleted ones from it.
Load(t) ==
  /\ snap[t] = NoRow
  /\ item # NoRow /\ ~item.deleted
  /\ snap' = [snap EXCEPT ![t] = item]
  /\ UNCHANGED <<item, revisions, announced, overwrote>>

\* The transaction is over.
Done(t) == snap' = [snap EXCEPT ![t] = NoRow]

-------------------------------------------------------------------------------
(* Edits *)

\* Mutant of VersionMatches: the WHERE clause names the id alone.
AnyVersion(expected) == TRUE

\* updateWithOcc: the row still has the version the client named.
VersionMatches(expected) == item.version = expected

\* Mutant of RevisionTaken: no unique index on (itemId, version).
NeverTaken(version) == FALSE

RevisionTaken(version) == \E r \in revisions : r.version = version

\* Mutant of UpdateKnowledge: an edit withdraws the verification.
EditUnverifies(t, expected, text) ==
  LET version == snap[t].version + 1 IN
  /\ snap[t] # NoRow
  /\ version <= MaxVersion
  /\ VersionMatches(expected)
  /\ ~RevisionTaken(version)
  /\ item' = [snap[t] EXCEPT !.version = version, !.text = text, !.accepted = item.accepted,
                             !.verified = FALSE]
  /\ revisions' = revisions \cup {[version |-> version, text |-> text, expected |-> expected]}
  /\ overwrote' = (overwrote \/ snap[t] # item)
  /\ Done(t)
  /\ UNCHANGED announced

\* updateWithOcc writes everything but acceptedAnswerId from the loaded row, and
\* the version after the loaded one.
UpdateKnowledge(t, expected, text) ==
  LET version == snap[t].version + 1 IN
  /\ snap[t] # NoRow
  /\ version <= MaxVersion
  /\ VersionMatches(expected)
  /\ ~RevisionTaken(version)
  /\ item' = [snap[t] EXCEPT !.version = version, !.text = text, !.accepted = item.accepted]
  /\ revisions' = revisions \cup {[version |-> version, text |-> text, expected |-> expected]}
  /\ overwrote' = (overwrote \/ snap[t] # item)
  /\ Done(t)
  /\ UNCHANGED announced

-------------------------------------------------------------------------------
(* Commands that write through update(), which checks no version *)

\* The row update() leaves: title, body and version are not written.
WriteBack(row) == [row EXCEPT !.version = item.version, !.text = item.text]

Update(t, row) ==
  /\ snap[t] # NoRow
  /\ item' = WriteBack(row)
  /\ overwrote' = (overwrote \/ snap[t] # item)
  /\ Done(t)
  /\ UNCHANGED revisions

\* Mutant of PublishKnowledge: no check of the status.
PublishAgain(t) ==
  /\ announced < MaxEvents
  /\ Update(t, [snap[t] EXCEPT !.status = "PUBLISHED"])
  /\ announced' = announced + 1

PublishKnowledge(t) ==
  /\ snap[t].status = "DRAFT"
  /\ announced < MaxEvents
  /\ Update(t, [snap[t] EXCEPT !.status = "PUBLISHED"])
  /\ announced' = announced + 1

\* Verifying a verified item writes nothing.
VerifyKnowledge(t) ==
  /\ ~snap[t].verified
  /\ Update(t, [snap[t] EXCEPT !.verified = TRUE])
  /\ UNCHANGED announced

DeleteKnowledge(t) ==
  /\ Update(t, [snap[t] EXCEPT !.deleted = TRUE])
  /\ UNCHANGED announced

\* The answer is one the handler found; it may be deleted by now.
AcceptAnswer(t, answer) ==
  /\ Update(t, [snap[t] EXCEPT !.accepted = answer])
  /\ UNCHANGED announced

UnacceptAnswer(t) ==
  /\ Update(t, [snap[t] EXCEPT !.accepted = None])
  /\ UNCHANGED announced

\* The handler refuses, or has nothing to write, or its transaction fails.
Abort(t) ==
  /\ snap[t] # NoRow
  /\ Done(t)
  /\ UNCHANGED <<item, revisions, announced, overwrote>>

-------------------------------------------------------------------------------

Edit(t) == \E expected \in 1 .. MaxVersion, text \in Texts : UpdateKnowledge(t, expected, text)

Accept(t) == \E answer \in Answers : AcceptAnswer(t, answer)

Next ==
  \/ \E text \in Texts : CreateKnowledge(text)
  \/ \E t \in Transactions :
       \/ Load(t) \/ Edit(t) \/ PublishKnowledge(t) \/ VerifyKnowledge(t)
       \/ DeleteKnowledge(t) \/ Accept(t) \/ UnacceptAnswer(t) \/ Abort(t)

Spec == Init /\ [][Next]_kvars

-------------------------------------------------------------------------------
(* Properties *)

\* The history is whole: one revision for each version after the first, and the
\* last one is the text readers get.  It holds although a client may name any
\* version, one that its own snapshot does not have included: the unique index
\* on (itemId, version) stops the edit that the WHERE clause lets through.
HistoryIsWhole ==
  /\ {r.version : r \in revisions} = 2 .. item.version
  /\ \A r, q \in revisions : r.version = q.version => r = q
  /\ \A r \in revisions : r.version = item.version => r.text = item.text

\* No edit is lost unseen: the author of a revision named the version that it
\* replaced, whatever other commands wrote in between.
EditsNameWhatTheyReplace == \A r \in revisions : r.version = r.expected + 1

\* An item is announced when it is published, and a second time only after a
\* command wrote back a row that had changed since its load.
AnnouncedOnce ==
  /\ item.status = "PUBLISHED" => announced > 0
  /\ announced > 1 => overwrote

\* An item stops being published, verified or deleted only through such a write.
FlagsFallOnlyToStaleWrites ==
  [][\/ item.status = "PUBLISHED" /\ item'.status = "DRAFT"
     \/ item.verified /\ ~item'.verified
     \/ item.deleted /\ ~item'.deleted
     => overwrote']_kvars
===============================================================================
