------------------------------- MODULE Engagement -------------------------------
(***************************************************************************)
(* Votes, bookmarks and follows (modules/engagement) and the listings that *)
(* are read in pages (bookmarks, follows, the feed, knowledge items).      *)
(* Commands are transactions at READ COMMITTED: what a command looked up   *)
(* first may have changed when it writes, and a follow or unfollow holds   *)
(* its row and its event back until it commits.  A read is made of several *)
(* statements or of several requests, each of which sees what is committed *)
(* by then.  Listings are ordered by a time that the replica running the   *)
(* command took from its own clock, so a new row may come in anywhere.     *)
(***************************************************************************)
EXTENDS Integers, Sequences, FiniteSets, SequencesExt

CONSTANTS
  Users,
  Items,        \* knowledge items, all of the one space
  Space,        \* that space
  Connections,  \* commands in progress at the same time
  Limits,       \* `limit` of a page request; 0: missing or not a number
  DefaultTake,  \* page size without a limit
  MaxTake,      \* largest page
  MaxCommands   \* bound: commands begun

ASSUME EngagementAssumption ==
  /\ Space \notin Items
  /\ IsFiniteSet(Items)
  /\ Limits \subseteq Nat
  /\ DefaultTake \in Nat \ {0}
  /\ MaxTake \in Nat \ {0}
  /\ MaxCommands \in Nat

VARIABLES
  live,       \* items and spaces that are not soft-deleted
  published,  \* live items in status PUBLISHED, by createdAt, newest first
  recent,     \* all live items, by updatedAt, newest first
  votes,      \* the votes table
  bookmarks,  \* user -> the items of its bookmarks, newest first
  follows,    \* user -> the targets of its follows, newest first
  events,     \* FollowCreated and FollowRemoved rows of the outbox, as committed
  tx,         \* connection -> its transaction
  reader,     \* a client that reads a vote summary or pages through a listing
  commands    \* commands begun so far

state == <<live, published, recent, votes, bookmarks, follows, events>>

vars == <<state, tx, reader, commands>>

-------------------------------------------------------------------------------

Targets == Items \cup {Space}

Vote == [item : Items, user : Users, value : {1, -1}]

\* clean: no other command on the same pair committed while this one was open.
FollowEvent == [user : Users, target : Targets,
                type : {"FollowCreated", "FollowRemoved"}, clean : BOOLEAN]

NoTransaction == [cmd |-> "none"]

Transaction ==
  {NoTransaction}
    \cup [cmd : {"castVote"}, user : Users, item : Items, value : {1, -1}]
    \cup [cmd : {"addBookmark"}, user : Users, item : Items]
    \cup [cmd : {"follow"}, user : Users, target : Targets]
    \cup [cmd : {"commitFollow", "commitUnfollow"}, user : Users, target : Targets,
          effect : {"insert", "delete", "none"}, clean : BOOLEAN]

Listings == {"bookmarks", "follows", "feed", "knowledge"}

Idle == [kind |-> "idle"]

Reader ==
  {Idle}
    \cup [kind : {"summary"}, item : Items, user : Users,
          totals : SUBSET [count : Nat, sum : Int], upvotes : SUBSET Nat,
          mine : SUBSET {-1, 0, 1}, changes : Nat]
    \cup [kind : {"pages", "read"}, list : Listings, user : Users, take : Nat \ {0},
          offset : Nat, rows : Seq(Targets), following : SUBSET BOOLEAN,
          stayed : SUBSET Targets, gone : Nat, came : Nat]

EngagementTypeOK ==
  /\ live \subseteq Targets
  /\ published \in Seq(Items) /\ IsInjective(published)
  /\ recent \in Seq(Items) /\ IsInjective(recent) /\ Range(recent) = live \cap Items
  /\ votes \subseteq Vote
  /\ \A v, w \in votes : v.item = w.item /\ v.user = w.user => v = w
  /\ \A u \in Users : bookmarks[u] \in Seq(Items) /\ IsInjective(bookmarks[u])
  /\ \A u \in Users : follows[u] \in Seq(Targets) /\ IsInjective(follows[u])
  /\ events \in Seq(FollowEvent)
  /\ \A c \in Connections : tx[c] \in Transaction
  /\ reader \in Reader
  /\ commands \in 0 .. MaxCommands

EngagementInit ==
  /\ live = Targets
  /\ published = <<>>
  /\ recent \in {order \in [1 .. Cardinality(Items) -> Items] : IsInjective(order)}
  /\ votes = {}
  /\ bookmarks = [u \in Users |-> <<>>]
  /\ follows = [u \in Users |-> <<>>]
  /\ events = <<>>
  /\ tx = [c \in Connections |-> NoTransaction]
  /\ reader = Idle
  /\ commands = 0

\* A command reaches its handler.
Begin == commands < MaxCommands /\ commands' = commands + 1

Open(c, transaction) == tx' = [tx EXCEPT ![c] = transaction]

Close(c) == tx' = [tx EXCEPT ![c] = NoTransaction]

-------------------------------------------------------------------------------
(* Votes *)

\* CastVoteHandler up to its upsert: the item must be there.
FindVotable(c, u, i, value) ==
  /\ tx[c] = NoTransaction
  /\ Begin
  /\ i \in live
  /\ Open(c, [cmd |-> "castVote", user |-> u, item |-> i, value |-> value])
  /\ UNCHANGED state

\* upsert() on (item, user): a vote that was found and changed, and one that was
\* created because none was found, are written by the same statement.
UpsertVote(u, i, value) ==
  votes' = {v \in votes : ~(v.item = i /\ v.user = u)}
             \cup {[item |-> i, user |-> u, value |-> value]}

CastVote(c) ==
  /\ tx[c].cmd = "castVote"
  /\ UpsertVote(tx[c].user, tx[c].item, tx[c].value)
  /\ Close(c)
  /\ UNCHANGED <<live, published, recent, bookmarks, follows, events, commands>>

\* removeByItemAndUser(): whether or not the item is still there.
RemoveVote(u, i) ==
  /\ Begin
  /\ votes' = {v \in votes : ~(v.item = i /\ v.user = u)}
  /\ UNCHANGED <<live, published, recent, bookmarks, follows, events, tx>>

-------------------------------------------------------------------------------
(* Bookmarks *)

FindBookmarkable(c, u, i) ==
  /\ tx[c] = NoTransaction
  /\ Begin
  /\ i \in live
  /\ Open(c, [cmd |-> "addBookmark", user |-> u, item |-> i])
  /\ UNCHANGED state

\* The orders of a listing that a new row may lead to.
Inserted(list, row) == {InsertAt(list, n, row) : n \in 1 .. Len(list) + 1}

\* A row that is there stays where it is (update: {}).
Put(list, row) == IF Contains(list, row) THEN {list} ELSE Inserted(list, row)

\* A listing has a row once, if at all.
Without(list, row) == RemoveFirst(list, row)

AddBookmark(c) ==
  LET u == tx[c].user i == tx[c].item IN
  /\ tx[c].cmd = "addBookmark"
  /\ \E list \in Put(bookmarks[u], i) : bookmarks' = [bookmarks EXCEPT ![u] = list]
  /\ Close(c)
  /\ UNCHANGED <<live, published, recent, votes, follows, events, commands>>

RemoveBookmark(u, i) ==
  /\ Begin
  /\ bookmarks' = [bookmarks EXCEPT ![u] = Without(@, i)]
  /\ UNCHANGED <<live, published, recent, votes, follows, events, tx>>

-------------------------------------------------------------------------------
(* Follows *)

FindTarget(c, u, t) ==
  /\ tx[c] = NoTransaction
  /\ Begin
  /\ t \in live
  /\ Open(c, [cmd |-> "follow", user |-> u, target |-> t])
  /\ UNCHANGED state

\* Open commands on the pair that have written.
Writers(u, t) ==
  {d \in Connections : /\ tx[d].cmd \in {"commitFollow", "commitUnfollow"}
                       /\ tx[d].user = u /\ tx[d].target = t}

\* Some open command is about to insert, or to delete, the pair's row.
Pending(u, t, effect) == \E d \in Writers(u, t) : tx[d].effect = effect

Write(c, cmd, u, t, effect) ==
  Open(c, [cmd |-> cmd, user |-> u, target |-> t, effect |-> effect, clean |-> TRUE])

\* follows.add(): the upsert finds the row or inserts it; an insert waits for one
\* that is still open.  A row that another command is about to delete counts as
\* found.  The event is appended to the same transaction.
AddFollow(c) ==
  LET u == tx[c].user t == tx[c].target IN
  /\ tx[c].cmd = "follow"
  /\ \/ Contains(follows[u], t) /\ Write(c, "commitFollow", u, t, "none")
     \/ /\ ~Contains(follows[u], t) /\ ~Pending(u, t, "insert")
        /\ Write(c, "commitFollow", u, t, "insert")
  /\ UNCHANGED <<state, commands>>

\* follows.remove(): deleteMany waits for an open delete and does not see an
\* open insert; the event is appended even if nothing was deleted.
RemoveFollow(c, u, t) ==
  /\ tx[c] = NoTransaction
  /\ Begin
  /\ ~Pending(u, t, "delete")
  /\ Write(c, "commitUnfollow", u, t, IF Contains(follows[u], t) THEN "delete" ELSE "none")
  /\ UNCHANGED state

\* What becomes of the pair's row when transaction c commits.
Apply(c) ==
  LET u == tx[c].user t == tx[c].target IN
  \E list \in CASE tx[c].effect = "insert" -> Put(follows[u], t)
               [] tx[c].effect = "delete" -> {Without(follows[u], t)}
               [] OTHER -> {follows[u]} :
    follows' = [follows EXCEPT ![u] = list]

\* c commits: the other open commands on the pair have been overtaken.
CloseOvertaking(c) ==
  LET others == Writers(tx[c].user, tx[c].target) \ {c} IN
  tx' = [d \in Connections |->
           IF d = c THEN NoTransaction
           ELSE IF d \in others THEN [tx[d] EXCEPT !.clean = FALSE] ELSE tx[d]]

Announce(c, type) ==
  events' = Append(events, [user |-> tx[c].user, target |-> tx[c].target,
                            type |-> type, clean |-> tx[c].clean])

FollowTarget(c) ==
  /\ tx[c].cmd = "commitFollow"
  /\ Apply(c)
  /\ Announce(c, "FollowCreated")
  /\ CloseOvertaking(c)
  /\ UNCHANGED <<live, published, recent, votes, bookmarks, commands>>

\* Mutant of UnfollowTarget: no event when a row was deleted by somebody else's
\* request, told apart the wrong way round.
UnfollowSilently(c) ==
  /\ tx[c].cmd = "commitUnfollow"
  /\ Apply(c)
  /\ IF tx[c].effect = "none" THEN Announce(c, "FollowRemoved") ELSE UNCHANGED events
  /\ CloseOvertaking(c)
  /\ UNCHANGED <<live, published, recent, votes, bookmarks, commands>>

UnfollowTarget(c) ==
  /\ tx[c].cmd = "commitUnfollow"
  /\ Apply(c)
  /\ Announce(c, "FollowRemoved")
  /\ CloseOvertaking(c)
  /\ UNCHANGED <<live, published, recent, votes, bookmarks, commands>>

-------------------------------------------------------------------------------
(* What other components and failures do *)

\* Any write to an item's row sets its updatedAt.
Touch(i) == recent' \in Inserted(Without(recent, i), i)

\* PublishKnowledgeHandler: an item joins the feed at the place of its createdAt.
PublishItem(i) ==
  /\ Begin
  /\ i \in live /\ ~Contains(published, i)
  /\ published' \in Inserted(published, i)
  /\ Touch(i)
  /\ UNCHANGED <<live, votes, bookmarks, follows, events, tx>>

\* Any other command that changes an item.
EditItem(i) ==
  /\ Begin
  /\ i \in live
  /\ Touch(i)
  /\ UNCHANGED <<live, published, votes, bookmarks, follows, events, tx>>

\* PrismaService adds deletedAt: null to what reads items and spaces.
Hide(t) ==
  /\ live' = live \ {t}
  /\ published' = Without(published, t)
  /\ recent' = Without(recent, t)

\* DeleteKnowledgeHandler; a space goes in the same way.
SoftDelete(t) ==
  /\ Begin
  /\ t \in live
  /\ Hide(t)
  /\ UNCHANGED <<votes, bookmarks, follows, events, tx>>

\* A transaction fails, times out or loses a unique insert.
Rollback(c) ==
  /\ tx[c] # NoTransaction
  /\ Close(c)
  /\ UNCHANGED <<state, commands>>

-------------------------------------------------------------------------------
(* getVoteSummary: three statements on three connections, in any order *)

VotesOf(i) == {v \in votes : v.item = i}

Upvotes(i) == Cardinality({v \in VotesOf(i) : v.value = 1})

Downvotes(i) == Cardinality({v \in VotesOf(i) : v.value = -1})

GetVoteSummary(i, u) ==
  /\ reader = Idle
  /\ reader' = [kind |-> "summary", item |-> i, user |-> u, totals |-> {},
                upvotes |-> {}, mine |-> {}, changes |-> 0]
  /\ UNCHANGED <<state, tx, commands>>

\* Mutant of ReadTotals: the aggregate is not restricted to the item.
ReadTotalsOfAll ==
  /\ reader.kind = "summary" /\ reader.totals = {}
  /\ reader' = [reader EXCEPT !.totals =
       {[count |-> Cardinality(votes),
         sum |-> Upvotes(reader.item) - Downvotes(reader.item)]}]
  /\ UNCHANGED <<state, tx, commands>>

\* aggregate(): the number of votes and the sum of their values.
ReadTotals ==
  /\ reader.kind = "summary" /\ reader.totals = {}
  /\ reader' = [reader EXCEPT !.totals =
       {[count |-> Cardinality(VotesOf(reader.item)),
         sum |-> Upvotes(reader.item) - Downvotes(reader.item)]}]
  /\ UNCHANGED <<state, tx, commands>>

ReadUpvotes ==
  /\ reader.kind = "summary" /\ reader.upvotes = {}
  /\ reader' = [reader EXCEPT !.upvotes = {Upvotes(reader.item)}]
  /\ UNCHANGED <<state, tx, commands>>

\* One user's vote on an item, 0 without a row.
MyVote(i, u) ==
  LET own == {v \in VotesOf(i) : v.user = u}
  IN IF own = {} THEN 0 ELSE (CHOOSE v \in own : TRUE).value

ReadMine ==
  /\ reader.kind = "summary" /\ reader.mine = {}
  /\ reader' = [reader EXCEPT !.mine = {MyVote(reader.item, reader.user)}]
  /\ UNCHANGED <<state, tx, commands>>

-------------------------------------------------------------------------------
(* Listings, page by page *)

\* The rows behind a listing of u, newest first.  All items are in
\* the one space, so the feed has all the published ones or none.
Rows(list, u) ==
  CASE list = "bookmarks" -> bookmarks[u]
    [] list = "follows" -> follows[u]
    [] list = "feed" -> published
    [] list = "knowledge" -> recent

\* What the listing should show to u.
Listing(list, u) ==
  IF list = "feed" /\ ~Contains(follows[u], Space) THEN <<>> ELSE Rows(list, u)

\* Math.min(parseInt(limit) || default, maximum).
Take(limit) ==
  LET asked == IF limit = 0 THEN DefaultTake ELSE limit
  IN IF asked > MaxTake THEN MaxTake ELSE asked

\* Mutant of Page: skip is forgotten.
PageWithoutSkip(rows, take, skip) == SubSeq(rows, 1, Min({take, Len(rows)}))

\* take and skip.
Page(rows, take, skip) == SubSeq(rows, skip + 1, Min({skip + take, Len(rows)}))

OpenListing(list, u, limit) ==
  /\ reader = Idle
  /\ reader' = [kind |-> "pages", list |-> list, user |-> u, take |-> Take(limit), offset |-> 0,
                rows |-> <<>>, following |-> {}, stayed |-> Range(Listing(list, u)),
                gone |-> 0, came |-> 0]
  /\ UNCHANGED <<state, tx, commands>>

\* getFeed(), first statement: the spaces that u follows.
ReadFollows ==
  /\ reader.kind = "pages" /\ reader.list = "feed" /\ reader.following = {}
  /\ reader' = [reader EXCEPT !.following = {Contains(follows[reader.user], Space)}]
  /\ UNCHANGED <<state, tx, commands>>

\* The statement that returns the page; no item is in no space.
FoundPage ==
  Page(IF FALSE \in reader.following THEN <<>> ELSE Rows(reader.list, reader.user),
       reader.take, reader.offset)

NextOffset == reader.offset + reader.take

\* The client asks for the page behind the last one until a page is not full.
ReadPage ==
  /\ reader.kind = "pages"
  /\ reader.list = "feed" => reader.following # {}
  /\ reader' = [reader EXCEPT
       !.kind = IF Len(FoundPage) < reader.take THEN "read" ELSE "pages",
       !.offset = NextOffset,
       !.rows = @ \o FoundPage,
       !.following = {}]
  /\ UNCHANGED <<state, tx, commands>>

EndRead ==
  /\ \/ reader.kind = "read"
     \/ reader.kind = "summary" /\ {} \notin {reader.totals, reader.upvotes, reader.mine}
  /\ reader' = Idle
  /\ UNCHANGED <<state, tx, commands>>

\* What a commit changes behind the reader's back.
Watch ==
  CASE reader.kind = "summary" ->
         reader' = [reader EXCEPT !.changes = @ + (IF votes' = votes THEN 0 ELSE 1)]
    [] reader.kind = "pages" ->
         \E list \in {reader.list}, u \in {reader.user} :
           LET before == Rows(list, u)
               after  == Rows(list, u)'
               moved  == IF before # after /\ Range(before) = Range(after) THEN 1 ELSE 0
           IN reader' = [reader EXCEPT
                !.stayed = @ \cap Range(Listing(list, u)'),
                !.gone = @ + Cardinality(Range(before) \ Range(after)) + moved,
                !.came = @ + Cardinality(Range(after) \ Range(before)) + moved]
    [] OTHER -> UNCHANGED reader

-------------------------------------------------------------------------------

Command ==
  \/ \E u \in Users, i \in Items :
       \/ RemoveVote(u, i) \/ RemoveBookmark(u, i)
       \/ \E c \in Connections :
            \/ \E value \in {1, -1} : FindVotable(c, u, i, value)
            \/ FindBookmarkable(c, u, i)
  \/ \E u \in Users, t \in Targets, c \in Connections :
       FindTarget(c, u, t) \/ RemoveFollow(c, u, t)
  \/ \E c \in Connections :
       \/ CastVote(c) \/ AddBookmark(c) \/ AddFollow(c)
       \/ FollowTarget(c) \/ UnfollowTarget(c) \/ Rollback(c)
  \/ \E i \in Items : PublishItem(i) \/ EditItem(i)
  \/ \E t \in Targets : SoftDelete(t)

Read ==
  \/ \E i \in Items, u \in Users : GetVoteSummary(i, u)
  \/ ReadTotals \/ ReadUpvotes \/ ReadMine
  \/ \E list \in Listings, u \in Users, limit \in Limits : OpenListing(list, u, limit)
  \/ ReadFollows \/ ReadPage \/ EndRead

EngagementNext == (Command /\ Watch) \/ Read

EngagementSpec == EngagementInit /\ [][EngagementNext]_vars

-------------------------------------------------------------------------------
(* Properties *)

\* A vote summary errs only by the votes that changed while it was read: its
\* count of downvotes is negative, or contradicts its score, by no more than
\* that, and a summary that nothing overlapped is exact.
SummaryErrsByOverlap ==
  reader.kind = "summary" =>
    \A totals \in reader.totals, up \in reader.upvotes, mine \in reader.mine :
      LET down == totals.count - up
          gap  == totals.sum - (up - down)
      IN /\ down >= -reader.changes
         /\ gap \in -2 * reader.changes .. 2 * reader.changes
         /\ reader.changes = 0 =>
              /\ up = Upvotes(reader.item) /\ down = Downvotes(reader.item)
              /\ mine = MyVote(reader.item, reader.user)

\* Pages by offset err only by what moved: a client that read a listing to its
\* end has missed no more rows that were there all the time than rows went away
\* from its way, and has seen no more rows twice than rows came into it.  A row
\* that an edit moves does both.
PagesErrByChanges ==
  reader.kind = "read" =>
    /\ Cardinality(reader.stayed \ Range(reader.rows)) <= reader.gone
    /\ Len(reader.rows) - Cardinality(Range(reader.rows)) <= reader.came

\* The announcements tell who follows what: the last event of a pair agrees with
\* the follows table, unless another command on the pair committed while the
\* command behind that event was open.
EventsMatchFollows ==
  \A u \in Users, t \in Targets :
    LET last == SelectLastInSeq(events, LAMBDA e : e.user = u /\ e.target = t) IN
    IF last = 0 THEN ~Contains(follows[u], t)
    ELSE events[last].clean => (events[last].type = "FollowCreated" <=> Contains(follows[u], t))
================================================================================
