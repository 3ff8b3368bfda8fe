# Verification of the distributed social platform's core API

TLA+ models of the parts of this service whose correctness depends on the order
in which concurrent steps happen: wallets, sagas, retries, idempotency keys,
memberships, quotas, listings and background jobs. TLC checks the models on small
instances; TLAPS proves their safety for every instance: of wallets and holds, sagas
and their compensations, idempotency keys, the outbox, knowledge items, engagement and
listings, memberships and role permissions, and quotas. Only liveness is left to the
model checker. Paths below are relative to the repository root; `modules/...` stands for `src/modules/...`.

## 1. The system

A NestJS monolith on PostgreSQL (Prisma), Redis, Kafka and two gRPC services
(identity and RAG), run as several identical replicas. Commands go through a
`CommandBus` from `@distributed-social-platform/shared-kernel` (not in this
repository, so modelled from its use): logging, then a retry of transient
errors, then one interactive transaction per command, then `afterCommit`
callbacks whose errors are swallowed. Transactions run at READ COMMITTED
(`src/infrastructure/database/prisma/prisma-tx-runner.ts`), so two transactions
that read and then write are only as isolated as an index or a WHERE makes them.

| Component | State it keeps | Operations | Talks to | What is hard | What makes it correct |
| --- | --- | --- | --- | --- | --- |
| Credit wallet (`modules/credit`) | `credit_events` stream per user, `ai_queries`, outbox rows | grant, refund, spend, reserve, commit, release | outbox, AI saga | load and save of overlapping transactions; retries after a conflict | never overdrawn, gapless stream, each hold settled once, history agrees |
| Wallet read model | none: folds the stream again | GET wallet | wallet | a second implementation of the same fold | agrees with the aggregate on every stream |
| AI query saga and sweeper | the handler's program counter, holds with a TTL | ask, compensate, sweep | wallet, RAG, compensation rows | lost replies, crashes between two commands, slow saga against sweeper and reaper | honest replies, no hold open for ever |
| Durable compensation (`src/infrastructure/saga-compensation`) | `saga_compensations` rows | record, claim, run, mark, reap, purge | registered runners | claims time out under a live claimant; marks check no owner | no early surrender, every row comes to rest |
| Idempotency keys (`src/infrastructure/http/idempotency`) | `idempotency_records` | look up, claim, store, free, expire, purge | every route that attaches the interceptor | overlapping requests, response before store, error after commit | one handler at a time, a replay is the present answer to a request that hashes alike |
| Outbox (`src/infrastructure/outbox`, `src/infrastructure/messaging`) | `outbox_events` rows, broker contents | append, claim, publish, mark, reap, purge | every command that announces a fact | partial publishes, reaped claims, order under retries and of rows stamped before they commit | nothing committed is lost |
| Organisation provisioning (`modules/platform-admin`) | handler's program counter, account and organisation | provision user, create organisation, undo in reverse | identity service, idempotency keys, compensation rows | lost replies, compensations run again behind a retry with the same key | no live organisation without an owner, no forgotten account, DONE means undone |
| Role permissions (`modules/tenant`) | a set of permissions per organisation and role | seed, replace, resolve | permission cache | overlapping deletes and inserts at READ COMMITTED | the last edit is in force |
| Other tenant state (`modules/tenant`, `src/infrastructure/http/guards/org.guard.ts`) | organisations, memberships, invites, spaces | create, invite, accept, change role, archive | every route behind the guard, membership cache | checks before writes at READ COMMITTED; a guard of two reads in front of a command | an invite admits one user, admission on a permission one had |
| Permission cache (`src/infrastructure/cache`) | Redis entries with a TTL | cache-aside read, delete after commit | tenant, other services | reader refills after the delete, lost deletes | staleness bounded by the TTL |
| Knowledge (`modules/knowledge`) | items, revisions | create, edit, publish, verify, delete, accept and unaccept an answer | outbox, engagement | edits under OCC, whole-row updates without | one revision per version, no edit lost unseen, flags that stay set |
| Engagement (`modules/engagement`) | votes, bookmarks, follows | cast, bookmark, follow, and their opposites; vote summary | knowledge, outbox, feed | a follow and an unfollow of one pair overlap; a summary read in three statements | events match rows, a summary errs by what overlapped it only |
| Listings (`modules/feed`, bookmarks, follows, knowledge) | none: a client's place in the list | pages by offset | knowledge, engagement | rows come, go and move between pages | nothing else is missed or repeated |
| AI quota (`src/infrastructure/http/guards/ai-quota.guard.ts`) | token buckets | consume | every AI route | refill at the cap and at fractions, UPDATEs that overtake each other | never more than bucket plus refill, no refusal without cause |
| HTTP shell, gRPC servers and clients, job registry, configuration | none that a step can leave wrong | | | | |

## 2. The modules

```
              Wallet                abstract wallet: atomic operations
             ^      \
   refines   |       \ instance
             |        v
      CreditLedger   AskAiSaga <--- SagaCompensation ---> ProvisionOrg
        ^                   (instance)            (extends)
 WalletReadModel

      IdempotentKey      EventLog       abstract key, abstract log
            ^                ^
   refines  |                |
       Idempotency        Outbox

      Knowledge   Engagement   RolePermissions   Memberships   AiQuota
```

| Proof module | Theorems about |
| --- | --- |
| CreditLedgerProofs | CreditLedger, that it refines Wallet, and WalletReadModel |
| AskAiSagaProofs | AskAiSaga |
| ProvisionOrgProofs | SagaCompensation, ProvisionOrg |
| IdempotencyProofs | Idempotency, and that it refines IdempotentKey |
| OutboxProofs | Outbox, and that it refines EventLog |
| ContentProofs | Knowledge, Engagement |
| TenantProofs | RolePermissions, Memberships |
| AiQuotaProofs | AiQuota |

A proof module extends what it is about. Where it extends two modules, the second has
prefixed names: `EngagementSpec`, `MembershipSpec`, `ProvisionSpec`, and so on.

- **Wallet** is what a wallet promises: a balance, a status per reservation and
  six atomic operations. It models no code of its own.
- **CreditLedger** is one event-sourced wallet. `Begin` is
  `repository.loadOrOpen()` inside a fresh transaction: it copies the folded
  account. `GrantCredits`, `RefundCredits`, `SpendCredits`, `ReserveCredits`,
  `CommitAiQuery` and `ReleaseReservation` are the rest of the handler of that
  name and its commit: the aggregate's guard, the event at the loaded version
  plus one, the `ai_queries` upsert and the outbox insert. `VersionTaken` is the
  unique index on `(aggregateId, version)`. `Refuse` stands for the aggregate
  declining, `Retry` for `CreditConcurrencyError` being transient, `Abort` for
  every other end of a transaction. The variable `account` is a cache of the
  fold of `ledger`; `FoldsAgree` checks, among other things, that it is one.
- **IdempotentKey** and **EventLog** are what clients of a key and of the outbox are
  promised, and model no code of their own either. A key is free, or one request has
  it; its handler takes effect, with or without an answer, and nobody gets the key
  again once a client was answered, until it is renewed. A log has facts in the order
  they were written and in the order they arrived; a fact is done with only after it
  arrived, may be taken up again, and is deleted only while it is done with.
- **WalletReadModel** adds the fold itself, the second fold of
  `prisma-wallet.query-repository.ts` and what the outbox should say.
- **SagaCompensation** is the table and the poll loop of each replica. A replica
  keeps the rows it claimed with the `attempts` it read and how far it is with
  each; claim and read-back are two steps, as in the repository; each mark may
  throw. `stale` holds the rows whose claim is older than the timeout, so time
  is the action `ClaimAges`.
- **AskAiSaga** is `AskAiHandler.execute` under `CommandBus.runSaga` with a
  program counter per question, the sweeper of each replica and the compensation
  rows (an instance of SagaCompensation whose runner is the release). Commands on
  the wallet are atomic (an instance of Wallet, justified by the refinement), and
  each may throw with or without its effect (`Throws`).
- **Idempotency** is one key and all the requests that carry it, of whatever user or
  organisation: the interceptor tells requests apart by their hash and by nothing else,
  and so does the model.
- **Outbox** is `outbox_events` and the poll loop of each replica, row by row:
  claim and read-back are two steps, a publish may throw with or without the
  broker having the message, either mark may throw, and a claim may be reaped
  under a publisher that is only slow. `log` is the broker: the rows in the order
  of their first arrival (`again` holds those that came more than once). `rows` is in
  the order of commits; `created_at` is what the writer's clock showed before that, so
  it may be any of `Stamps`, also less than, or the same as, that of an earlier row. A
  claim is the claimable rows with the least `created_at`, in its order, a full batch or
  all of them (`IsOldest`), as ORDER BY and LIMIT say; rows of one millisecond come in
  any order. The queue transport is not wired (`outbox.module.ts`), so one log is enough.
  `retried` and `claimers` are history variables.
- **Knowledge** is one item with its revisions. `Load` is `findById` inside a
  fresh transaction; the other actions are the rest of each handler and its
  commit. An edit (`updateWithOcc`) writes every column but `acceptedAnswerId`
  under the client's version, the other commands (`update`) write everything but
  title, body and version under no check, and all of them take what they do not
  change from the row they loaded. `expected` ranges over every positive version,
  as the request schema does, and not only over versions the client can have
  read. `overwrote` is a history variable.
- **RolePermissions** is the permission set of one role. `StartEdit` is the
  handler up to the snapshot of its DELETE, `CommitEdit` the delete, the insert
  and the commit: rows inserted by others since the snapshot stay (`Left`), rows
  that another edit deleted are no longer the edit's to delete (`Overtaken`), and
  the unique index refuses a row that stayed and is wanted again. `Invalidate` is
  `afterCommit`; it may fail without a trace. A lookup of another service misses,
  asks CheckMembership and fills the entry, three steps. `cache` is the entry as a
  set of at most one permission set. The lookup is `cachedLookup` of
  shared-kernel, which this service uses for another key in
  `system-permissions.client.ts`.
- **ProvisionOrg** is `ProvisionOrgHandler.execute` under `CommandBus.runSaga`, on
  top of SagaCompensation: the same table, poll loop and reaper, whose rows are now
  the two compensations of each attempt. An attempt is one request; all of them
  carry one idempotency key, so the next starts when the claim of the last is
  free again: it failed and the interceptor deleted its record (`Fail`; the delete may
  fail), or the record expired and was purged, whether the attempt failed, died or
  succeeded (`ClaimExpires`). auth-service is external and behaves as
  `auth-provisioning.client.ts` describes it: the key stands for one account until
  that account is cancelled (`NewAccount`, `CancelAccount`). Requests without a key
  are independent of each other and are one attempt here. Every call may throw with
  or without its effect, and a crashed replica takes any of the attempts it may be
  serving with it (`CrashReplica`).
- **Memberships** is the members, invites and role permissions of one
  organisation with the guard in front of them. `Arrive`, `ReadRole` and
  `ReadPermissions` are the guard's three moments; what it admits runs later, as
  one transaction. An accept takes two steps, `FindInvite` and `AcceptInvite`,
  since it is at READ COMMITTED and both its writes are upserts. A change of role
  is one step: memberships are never deleted and the write overwrites the role
  whatever it has become. How two permission edits overlap is RolePermissions'
  subject. `witness` and `admitted` are history variables, noted by `Watch` while
  the system takes a step. The initial states are any members and invites.
- **AiQuota** is the bucket of one user. The insert and the UPDATE are two
  statements; the UPDATE fixes `now()` when it begins (`StartUpdate`) and then
  evaluates SET and WHERE on the row it finds (`Consume`, `Refuse`), so stamps may
  arrive out of order. Tokens are counted in what one tick refills, so a token is
  `Cost` units and fractions occur. `granted` counts, for each span of time, the
  tokens consumed with a stamp in it; `setback` adds up by how much the row's stamp
  ever went back. Both are history variables.
- **Engagement** is votes, bookmarks and follows of several users, the follow
  events, and one reader: of a vote summary (three statements in any order) or of
  a listing, page after page. A command looks up and then writes; a follow or
  unfollow also holds its row and event until it commits, because whether another
  one waits for it depends on which row each can see (`AddFollow`,
  `RemoveFollow`). Orders by time are sequences into which a new row may come
  anywhere, as replicas stamp rows with their own clocks. Publishing, editing and
  deleting items are there as far as listings see them; `Hide` takes a soft-deleted
  item out of the listings of items, since every query filters on `deletedAt`.
- **MC...** modules give the instances.

Operators whose comment begins with "Mutant of" are broken versions of the
operator that follows them: each property is known to fail when its operator is
replaced by one of them, which shows that the instance is large enough for the
property to matter. Nothing else refers to them.

## 3. What the runs check

| Run | Instance | Shows |
| --- | --- | --- |
| `credit_ledger` | 2 transactions, 2 reservations, cost 2, amounts 1 and 3, 4 events | no overdraft, gapless stream, one settlement per hold, `ai_queries` and outbox agree with the ledger, both folds agree, the whole refines Wallet |
| `saga_compensation` | 2 rows, 2 replicas, 2 attempts, 1 fault | a row is shared only after its claim was reaped, no row is given up early, every row comes to rest |
| `ask_ai` | 1 question, 2 replicas, 2 attempts, 3 faults | replies are honest, an open hold of a finished saga is on record, a compensation marked DONE has released its hold, every hold is settled |
| `idempotency` | 3 requests, 2 hashes, 2 faults | the whole refines IdempotentKey (one handler at a time, none after an answer), a replay is the present answer to a request that hashes alike, an answered client is charged once, no key is blocked for ever |
| `lost_commit_reply` | 2 requests, 1 fault | violated: a lost commit reply is charged twice (section 5, 1) |
| `outbox` | 1 stream, 2 rows, 2 stamps, 2 replicas, 2 attempts, 2 faults | the whole refines EventLog (a row is done with, or deleted, only after it reached the broker), a row is sent twice only for a reason, rows whose stamps show their order keep it until the first fault, no row is lost |
| `knowledge` | 2 commands at a time, 3 edits, 2 texts, 2 publishes | one revision per version, edits replace the version their author named, announcements are repeated and flags undone only by a write of a row that changed since its load |
| `role_permissions` | 2 permissions, 2 editors, 2 readers, 3 edits, 1 fault | the last edit is in force up to what overlapped it, a stale entry has one of three causes, the TTL mends it |
| `provision_org` | 2 attempts, 2 replicas, 2 attempts per row, 2 faults | a live organisation without its owner's account, or an account left over, has one of the causes the property lists; a compensation marked DONE is in place |
| `memberships` | 3 users, 2 invites, 2 connections, 3 requests | an invite admits one user unless the accept was overtaken, the guard admits on a permission held while it looked, an organisation locked out stays so |
| `ai_quota` | 3 requests, bucket of 2 tokens, 2 ticks per token, 5 ticks | no span lets more through than the bucket and its refill; a refusal is owed to tokens spent, up to `setback` |
| `engagement` | 2 users, 2 items, 1 space, 2 connections, 3 commands, pages of 1 | a summary errs by at most the votes that changed meanwhile, a listing by at most the rows that moved, the last event of a pair agrees with the table unless commands on the pair overlapped |

Several properties say by how much, or for which reasons, something can be wrong
rather than that it never is: the code gives no stronger promise, and the
property is where the exceptions are listed. `OwnerlessOrgHasACause`,
`AcceptedOnce`, `StaleEntryHasACause`, `FlagsFallOnlyToStaleWrites` and the three
of `engagement` are of this kind; section 5 quotes the comments that promise more.

**Why the bounds are enough.** Two transactions are enough for every conflict:
the unique index compares two rows, and a third transaction only repeats what the
second does; amounts around the cost make the balance cover one hold but not two
and a hold but not a spend. Four events let a reservation be granted, held and
settled with a competitor in between. The proofs below need none of these bounds.
Two replicas are enough for a claim to be lost by one and taken by the other, and
two rows for one to stand behind another in a batch. `MaxFaults` counts every
crash, failed write and lost reply together; one to three of them can fall between
any two steps. In `ask_ai` the wallet starts with 0 to 4 credits and other commands
spend from it, so it can pay for the question or not; one question is enough,
since a second one is to the first only another spender, and CreditLedger has two.
Three faults let the saga fail to release, the reaper fail once and a claim be
lost.

In `outbox` one stream is enough: rows of other streams only stand between its
rows, and the properties that do not speak of order do not read the stream; with two
stamps, two rows are stamped as they commit, against it, or alike. In
`knowledge` two commands are enough: each reads and writes one row once, and one
of them may run again and again while the other holds an old snapshot; three edits
put that snapshot more than one version behind. In `role_permissions` two
permissions are enough for overlapping edits to grant disjoint sets, and three
edits for one to overlap two others.

In `provision_org` two attempts are a request and its retry, or its resend after the
key has expired, and the second may
find what the first left: its account, its organisation, its rows. Two faults let
the first attempt die or lose a reply and one of its compensations fail. In
`memberships` three requests put a role change and a permission edit between the
two reads of a guard, or the demotion of the founder between two others; the
initial states stand for all earlier requests. In `ai_quota` two tokens and five
ticks drain the bucket, refill part of a token, reach the cap, and let one UPDATE
overtake another by several ticks. In `engagement` a page of one row and two items
give listings of two pages with a third request for the end, and three commands a
row to move, to vanish and to appear in between.

**Deadlock** is not checked: every instance stops when its bounded work is done.

**Symmetry** is used in `credit_ledger` (transactions, reservations), `memberships`
(invites, users but the founder), `provision_org` (replicas) and `engagement`
(users, items, connections). They check invariants, box-action properties and a
refinement without fairness only, and no property or initial state tells the
permuted values apart.

**Fairness.** SagaCompensation, AskAiSaga and Outbox assume that `setInterval` keeps
firing on a running replica, that a runner returns (transactions and gRPC calls
have deadlines), that time passes (claims and holds grow old) and that the
orchestrator restarts what crashed. RolePermissions assumes only that a cache entry
expires, which Redis does by itself. Nothing is assumed of the sagas themselves
in AskAiSaga: `EveryHoldSettles` relies on the sweeper alone. Idempotency assumes
that a handler which has started ends, that time passes and that the nightly
purge runs. Failures are never fair, and there are finitely many. The other
modules state safety only: nothing in a guard, a listing or a provisioning
request is retried by the service itself, and what the reaper retries for
ProvisionOrg comes to rest as SagaCompensation shows.

## 4. What is proved

Every safety property of the runs of section 3 is a theorem. The theorems hold for all values of the
constants that the modules' named assumptions allow; each assumption says no more
than that bounds are natural numbers, prices and limits positive, sentinel values
no members of the sets they are used with, and that there are finitely many
reservations (CreditLedger) and items (Engagement). Numbers of users, replicas,
connections, requests, rows, faults and so on are arbitrary. Each subsection names
the inductive invariant: the property that matters is seldom inductive by itself,
and what has to be added says why the code works.

### Wallet

`CreditLedgerProofs` proves, for any finite set of reservations, any number of
connections, any positive cost and amounts and any stream length
(`CreditAssumption`):

| Theorem | Statement |
| --- | --- |
| `TypeCorrect` | `Spec => []TypeOK` |
| `Inductive` | `Spec => []IInv` |
| `OverdraftFree` | `Spec => []NoOverdraft` |
| `Gapless` | `Spec => []StreamIsGapless` |
| `SettledOnce` | `Spec => []SettledAtMostOnce` |
| `HistoryAgrees` | `Spec => []HistoryMatchesLedger` |
| `Refinement` | `Spec => RefinesWallet` |
| `ReadInductive` | `Spec => []ReadIInv` |
| `ReadSidesAgree` | `Spec => []FoldsAgree` |
| `OutboxIsMirror` | `Spec => []OutboxMirrorsLedger` |

The argument: `NoOverdraft` is not inductive, for a transaction decides on a
snapshot and not on the wallet. What saves it is the unique index: the row a
transaction writes has the version after its snapshot, so it succeeds only while
the stream still ends where the snapshot did (`StreamIsGapless`), and a snapshot
at the stream's length equals the account (`SnapshotsAreCurrentOrStale`). So
whoever saves has decided on the present account (lemma `SaveIsCurrent`), and
each save is one step of the atomic wallet (lemma `WalletEffect`).
`SettledAtMostOnce` also needs that a row's status tells which rows exist
(`RowsMatchStatus`) and that a reserve is the only one of its id
(`ReservesAreFresh`: ids are random UUIDs drawn once per saga). `IInv` is the
conjunction. `OpenCount` and `OneMoreHold` are the facts about cardinality that the
sum of holds needs.

*The folds.* `FoldsAgree` and `OutboxMirrorsLedger` speak of folds over a stream of any
length, so they need to know what one more row does to a fold. The library defines
`FoldLeft` by recursion and offers induction over an operator only, which the installed
provers cannot instantiate; `Induction` is that principle over a set, from the
well-foundedness of `<` on Nat. With it, a fold is shown to leave a trail: the sequence
of its values on the prefixes, each from the one before (`FoldLeavesTrail`,
`TrailsAgree`). `ApplyAppend`, `ViewAppend` and `DeltaAppend` say what an appended row
does to the aggregate's fold, to the read model's and to the statement's sum.
`VersionOrder` says that ORDER BY version is the order in which a gapless stream was
written, so each save is one more step of each fold (`FoldsGrow`). What agreed before
then agrees after it (`BalancesMoveTogether`), because both sides have the same
reservations open (`HoldsAgree`, kept by `HoldsMoveTogether`). For the outbox, a later row
does not change what an earlier one had to announce (`FactsStand`), and a save appends
exactly the fact of its row (`FactOfSave`). `ReadIInv` is the conjunction of these with
`IInv`.

### Compensations and provisioning

`ProvisionOrgProofs` proves, for any rows, replicas and limits
(`CompensationAssumption`), about SagaCompensation:

| Theorem | Statement |
| --- | --- |
| `CompensationTypeCorrect` | `Spec => []TypeOK` |
| `ClaimsSafe` | `Spec => []ClaimIsExclusive` |
| `GivingUpSafe` | `Spec => []GivenUpOnlyAfterMaxAttempts` |
| `ProvisionClaimsSafe` | `ProvisionSpec => []ClaimIsExclusive` |
| `ProvisionGivingUpSafe` | `ProvisionSpec => []GivenUpOnlyAfterMaxAttempts` |

and about ProvisionOrg, for any number of attempts (`ProvisionAssumption`: the rows
are the two compensations of each attempt):

| Theorem | Statement |
| --- | --- |
| `ProvisionTypeCorrect` | `ProvisionSpec => []ProvisionTypeOK` |
| `UndoneSafe` | `ProvisionSpec => []DoneMeansUndone` |
| `OwnerlessSafe` | `ProvisionSpec => []OwnerlessOrgHasACause` |
| `StraySafe` | `ProvisionSpec => []StrayAccountHasACause` |

`CompensationInv` adds to the two properties that a replica has one claim to a row
(`OneClaimPerRow`), that a claim which was never taken away is the row's only one and
the row is INFLIGHT (`UnreapedClaimIsSole`), and that no claimant believes in more
failed tries than there were (`ClaimantsKnowLess`). The last is why marks without an
owner check do no harm to the limit: a late `markFailed` writes a count that is too
low, never one too high.

`ProvisionInv` relates where an attempt is to what exists. `KeyIsClaimed` (an attempt
that is being served has the idempotency key) makes attempts take turns; `OwnersExist`
and `ClaimsAreOnRecord` keep rows and accounts from being undone before they exist;
`RanMeansUndone` says that what a runner came back from is undone and stays so, also
when the row is marked by a replica other than the one that ran. `AttemptInv` follows
the causes of `OwnerlessOrgHasACause` back to the moment they arise
(`KeptOrgIsExcused`, `LostOwnerHasACause`, `LeftAccountIsRecorded`). The lemmas about
the reaper's steps are stated for `ReaperStep`, which is also what the saga's own
steps do to its variables (`ProvisionOnRows`), so they serve both specifications, and
what was proved of the table holds with the saga at work on it.

### AI query saga

`AskAiSagaProofs` proves, for any number of sagas and replicas, any price and limits
(`AskAiAssumption`):

| Theorem | Statement |
| --- | --- |
| `TypeCorrect` | `Spec => []TypeOK` |
| `HoldsSafe` | `Spec => []HoldsAreFunded` |
| `RepliesSafe` | `Spec => []RepliesAreHonest` |
| `OpenHoldSafe` | `Spec => []OpenHoldIsOnRecord` |
| `DoneSafe` | `Spec => []DoneMeansSettled` |

`AskAiInv` has four parts: the wallet owns what its open holds claim
(`HoldsAreFunded`, without which not even the balance is a natural number); claims
are of rows on record; what a runner came back from is settled (`RanMeansSettled`);
and `SagaInv`, which says for each place of the handler what its hold, its reply and
its row can be. The sweeper may release a hold while its saga is anywhere between the
reservation and the end, so `SagaInv` says of these places only what survives that: the
hold exists and is not committed. Only the saga's own commit ever charges it, and a
commit that comes too late is refused and answered with an error, never with an
answer or with "AI unavailable"; `RepliesAreHonest` rests on that.

### Idempotency keys

`IdempotencyProofs` proves, for any number of requests, hashes and faults
(`IdempotencyAssumption`):

| Theorem | Statement |
| --- | --- |
| `TypeCorrect` | `Spec => []TypeOK` |
| `HandlersExclude` | `Spec => []OneHandlerAtATime` |
| `ReplaySafe` | `Spec => ReplaysTheAnswer` |
| `AnsweredSafe` | `Spec => []AnsweredOnce` |
| `Refinement` | `Spec => RefinesKey` |

What makes one handler exclude another is `ClaimIsHeld`: while a request is past the
interceptor, the row is the claim it made, with its hash and without a response.
Since the row is at most one, so is the request. `ResponseIsGenuine` says that a
stored response is the answer to a request with the row's hash that took effect since
the key was last free, and that its client got before it was stored (`RepliesInTurn`).
So a replay is the answer of the key's present life, and goes to a request of the same
method, url and body. It may go to another caller's: section 5, 9.

For the refinement the holder of the abstract key is the request past the interceptor.
An insert succeeds only while there is no row, so with nobody at the handler
(`ClaimIsHeld`) and nobody answered (`AnsweredOnce`), which is what `Start` asks for;
`ChargedAreThrough` says that a request takes effect on its way out of the handler, so
once. The purge renews the key: it takes expired rows, and the row of a request at work
is not expired. `OneHandlerAtATime` is implied by the refinement and has no run of its
own; `AnsweredOnce` says more than the abstract key (that the row is there).

### Outbox

`OutboxProofs` proves, for any number of streams, rows and replicas, any batch size
and retry limit (`OutboxAssumption`):

| Theorem | Statement |
| --- | --- |
| `TypeCorrect` | `Spec => []TypeOK` |
| `PublishedSafe` | `Spec => []ProcessedMeansPublished` |
| `RedeliverySafe` | `Spec => []RedeliveredOnlyAfterRetry` |
| `OrderSafe` | `Spec => []OrderedUntilFault` |
| `Refinement` | `Spec => RefinesLog` |

A replica's batch is seen as two sets: the rows it still has to mark and, among
them, those it still has to publish. `FirstClaim` says that a row that was never
returned for another try is in one hand at most and is unsent while it waits there or
in the table; so a second delivery needs a return. The order is one of rows of which one was both committed and
stamped before the other (`Before`); of other pairs the code promises nothing (section
5, 10). `InLine` says that every row was sent, is in hand, or is PENDING, and that no row
is ahead of one that is `Before` it in this. A claim keeps it: rows it leaves out are
stamped no earlier than those it takes, and rows that commit later have a higher place
whatever their stamp. It holds while the system is `Calm` (no fault yet, one replica at
work), and the invariant is `DeliveryInv /\ (Calm => InLine)`.

For the refinement a fact is done with while its row is PROCESSED or PURGED. A late
`markFailed` may take a row back that another claimant marked PROCESSED (`Reopen`), but
never a deleted one: what a replica still has to mark is not PURGED (`HeldAreKept`),
since the cleanup leaves rows in hand alone. `ProcessedMeansPublished` is implied by the
refinement and has no run of its own.

### Knowledge

`ContentProofs` proves, for any number of connections, texts, answers, edits and
publishes (`KnowledgeAssumption`):

| Theorem | Statement |
| --- | --- |
| `TypeCorrect` | `Spec => []TypeOK` |
| `HistoryInductive` | `Spec => []HistoryInv` |
| `WholeHistory` | `Spec => []HistoryIsWhole` |
| `NoLostEdit` | `Spec => []EditsNameWhatTheyReplace` |
| `PublishedOnce` | `Spec => []AnnouncedOnce` |
| `FlagsStand` | `Spec => FlagsFallOnlyToStaleWrites` |

The version check alone does not keep the history: the guard compares the row with
the client's version, the new version is computed from the loaded row, and the two
can differ. Lemma `EditsAreCurrent` is what saves it: the versions 2 to n of a row
at version n are taken in `revisions` (`HistoryIsWhole`), so the unique index
admits only the version n + 1, which is the one after a snapshot at version n.
Type correctness needs it too, since a snapshot must not get ahead of the row, so
the two are one invariant, `HistoryInv`. `PublishedOnce` rests on two facts that
are inductive over typed states: whoever loaded a published row did so after its
announcement, and as long as no changed row was written back a draft was never
announced.

### Engagement

`ContentProofs` proves, for any users and connections, any finite set of items, any
page sizes and number of commands (`EngagementAssumption`):

| Theorem | Statement |
| --- | --- |
| `EngagementTypeCorrect` | `EngagementSpec => []EngagementTypeOK` |
| `EngagementInductive` | `EngagementSpec => []EngagementInv` |
| `EventsSafe` | `EngagementSpec => []EventsMatchFollows` |
| `SummarySafe` | `EngagementSpec => []SummaryErrsByOverlap` |
| `PagesSafe` | `EngagementSpec => []PagesErrByChanges` |

*Follow events.* An open follow or unfollow knows what it found; as long as no
command on its pair committed since, that is still so (`Knows`), so the event it
announces agrees with the row it leaves. Commits on other pairs leave both alone.

*Summaries.* What each statement read is off the present by at most the votes that
changed since, and what two of them read is off each other by no more (`SummaryInv`:
`TotalsErr`, `UpvotesErr`). One command changes one vote (lemma `VotesMove`), which
moves either count by at most one (`VotesNear`).

*Pages.* A reader that has reached some offset errs in two ways, and the invariant
counts both while they can still be made up for: rows in front of the offset that it
never saw (`Missed`), and rows it saw that now stand behind the offset and will come
again (`Again`). `PagesInv` bounds `Missed` by the rows that went, and `Again` plus
the repetitions so far by the rows that came. One command inserts, removes or moves
one row of a listing (`RowMoves`), and that pushes at most one other row over the
offset (`ViewMoves`, from `GrowsView`, `ShrinksView` and `ShiftsView`). Reading a page
moves rows from behind the offset to the rows seen and adds nothing to either sum
(`PageReads`); at the end of the listing nothing is behind the offset, and the sums
are the errors the property speaks of.

### Role permissions

`TenantProofs` proves, for any catalog and any number of editors, readers, edits and
faults (`PermissionsAssumption`):

| Theorem | Statement |
| --- | --- |
| `TypeCorrect` | `Spec => []TypeOK` |
| `EditsInductive` | `Spec => []EditInv` |
| `LastEditInForce` | `Spec => []LastEditIsInForce` |
| `StaleEntriesExplained` | `Spec => []StaleEntryHasACause` |

An edit leaves alone the rows its DELETE did not find; `LeftRowsAreNew` says that
those were granted by edits that committed since, which is what `LastEditIsInForce`
needs at the commit and what a commit of another edit must preserve (lemma
`CommitKeepsEdits`). For the cache, `LookupsAreCurrent` says that a lookup that no
commit overtook holds the present set, so only an overtaken one can fill a stale
entry. The theorem makes the handler's comment on the cache-aside race precise. It
also says what two overlapping edits can do: leave the union of their sets, which
neither administrator asked for; no comment or test of the code speaks of it.

### Memberships

`TenantProofs` proves, for any users, invites and connections
(`MembershipAssumption`):

| Theorem | Statement |
| --- | --- |
| `MembershipTypeCorrect` | `MembershipSpec => []MembershipTypeOK` |
| `AcceptsSafe` | `MembershipSpec => []AcceptedOnce` |
| `AdmissionSafe` | `MembershipSpec => []AdmittedOnAuthority` |
| `LockOutStays` | `MembershipSpec => LockOutIsFinal` |

`GuardInv` says what the guard knows between its two reads: the role it read is the
caller's still, or the role has moved; if the role it read has the permission, the
caller held it at some moment since, or the grants of the role have changed
(`ReadsAreWitnessed`). `AcceptInv` says that an accept which looked before another
admitted its user or used its invite counts as late, so of those that are not late
only one can have a given user or invite. `LockOutIsFinal` needs no further
invariant: no command makes an OWNER, and the one that edits the permissions of a
role does not get past the guard while nobody can manage roles; `LockedOut` itself
excludes requests that are past it already, or have read the role OWNER. All three rest on two facts about steps: a request moves as
its step allows (`RequestMoves`), and members, invites and grants change by its
handler only (`TenantMoves`).

### AI quota

`AiQuotaProofs` proves, for any capacity, price, number of requests and last tick,
and any order in which stamps arrive (`QuotaAssumption`):

| Theorem | Statement |
| --- | --- |
| `TypeCorrect` | `Spec => []TypeOK` |
| `BurstSafe` | `Spec => []BurstIsBounded` |
| `RefusalsSafe` | `Spec => RefusalsAreDeserved` |

Both arguments use one quantity, the level `tokens - lastRefillAt`: a refill leaves
it, or lowers it at the brim, and a token lowers it by `Cost`, whatever stamp the
UPDATE carries. `BurstInv` says that for a span in which tokens were granted, the
level plus what they cost is at most a full bucket less the span's start.
`RefusalInv` says the converse for refusals: the bucket was full at some tick, and
what is missing from then on was spent, or is refill that a stamp set back took away
(`MissingIsSpent`).

### What is only model-checked

- Liveness, which is out of TLAPS' reach: `EveryRowSettles`, `EveryHoldSettles`,
  `ClaimsAreFreed`, `EveryRowIsAccountedFor`, `CacheCatchesUp`.

The type invariants say what the variables are and are not listed with the runs; to
check one, or one of the inductive invariants, add it to the INVARIANTS of a
configuration of a module that extends the proof module. The invariants were checked
that way on the instances of section 3 before they were proved (of Engagement's, all
but `ContentTypes`, whose quantifier over everything TLC cannot enumerate).

## 5. Where the code and its documentation disagree

The first has a run of its own. The others are the exceptions of properties that
hold, and show as the states in which those exceptions apply.

1. **An idempotency key does not protect a charge whose commit reply is lost.**
   `ai-query.controller.ts:42-44` says the interceptor is what satisfies "same
   Idempotency-Key twice -> not charged twice". The interceptor's `catchError`
   deletes the claim whatever the handler's error was; when the handler's
   transaction had committed and only the reply was lost (a dropped connection, a
   transaction timeout reported late), the client's retry runs the handler again.
   Run `lost_commit_reply`.
2. **A row's failure can leave the reaper's loop.**
   `saga-compensation-reaper.service.ts:92-93` says per-row failures never escape
   the for-loop. `markFailed` is awaited inside the catch block, so when that
   update fails the exception does escape, and the rows behind it stay INFLIGHT
   until their claims are reaped (action `MarkFailedThrows`). `EveryRowSettles`
   still holds.
3. **A partition key does not keep a stream's order through a failed publish.**
   `follow.entity.ts:56-57` says keying both events of a pair by one composite
   guarantees per-relationship ordering. The key keeps them in one partition, but
   the outbox loop swallows the failure of a row and goes on with the next: when
   the publish of a `follow` fails and that of the `unfollow` behind it works, the
   consumer sees the unfollow first and the retried follow last. Hence the
   condition of `OrderedUntilFault`.
4. **A verification can be withdrawn.** `knowledge-item.entity.ts:118-119` says
   "There is no un-verify, so the transition is one-way". `update()` and
   `updateWithOcc()` write `isVerified` (and the status and `deletedAt`) from the
   row that their command loaded, and a verification changes no version; a publish,
   delete, accept or edit that loaded the item before it sets the flag back. A
   publication or a deletion can be undone the same way. Theorem `FlagsStand` says
   that nothing else undoes them.
5. **The unique constraint is no backstop for accepts.** `accept-invite.command.ts:4-6`
   says `@@unique([orgId, userId])` stops two accepts that race past the guard.
   `PrismaMembershipRepository.save` is an upsert, so nothing is violated: of two
   users racing for one invite both become members, and one user racing with two
   invites ends with the role of the later one. `AcceptedOnce` excepts `late`
   accepts.
6. **An archive does not re-apply.** `archive-org.command.ts:3` says "re-applying
   lands on the same state". The handler looks the organisation up through the
   soft-delete filter, so a second archive throws `OrgNotFoundError`; a compensation
   that took effect and lost its reply is retried to `FAILED_DLQ`, though nothing is
   left to do (`ArchiveOrg` in ProvisionOrg).
7. **An organisation nobody can administer.** The comment at
   `provision-org.handler.ts:88-93` says registering the archive closes that loop.
   It closes the case it names. The state is still reached when CreateOrg commits
   and its dispatch throws, and when a retry is given the account of an attempt that
   died after creating the organisation: the retry finds the slug taken and cancels
   the account. An attempt that succeeded fares no better: a day later its record
   expires and is purged like any other (`idempotency-cleanup.service.ts:38-40`), and the
   same request sent again with the same key cancels the owner of the organisation that
   is live. `platform-admin.controller.ts:53-56` says of the key that "a retried client
   request should never risk a second provision+compensate round-trip"; that holds for
   the life of the record. `OwnerlessOrgHasACause` lists every case.
8. **OWNER is no insurance against lock-out.** `org-permission-resolver.ts:5` says
   the implicit permissions of OWNER prevent lock-out. The role of the last OWNER
   can be changed by anybody with ORG_MANAGE_MEMBERS, no request makes an OWNER, and
   unless a role was granted ORG_MANAGE_ROLES before, nobody can grant it again
   (`LockOutIsFinal`).
9. **A replay may be another caller's.** `idempotency.interceptor.ts:78-79` says that
   "reusing an idempotency key is only ever valid for retrying the EXACT SAME request".
   What is compared is `hashRequest` (24-28): method, url and body. The user and the
   organisation (`X-Org-Id`, `org.guard.ts:39`) are not in it and the key is the table's
   primary key, so two callers who pick the same key for requests that match are one to
   the interceptor: the second gets the first one's response, and its own request has no
   effect. `ReplaysTheAnswer` says what a replay is and leaves open whose request it answers.
10. **`created_at` is not the order of commits.** The ordering that
   `follow.entity.ts:56-57` guarantees (item 3) is not kept where nothing fails either.
   The outbox orders by `created_at`
   alone (`prisma-outbox.repository.ts:45`, `:56`), which is `@default(now())`
   (`prisma/schema.prisma:295`): set for each row by the replica that writes it, to the
   millisecond, before its transaction commits (`prisma-outbox-writer.ts:13`). Of two
   rows of one stream the later can carry the lower stamp (clocks of two replicas, a
   transaction that commits late) or the same one, and is then published first or in any
   order, with one publisher and no fault. Hence `Before` in `PerStreamOrder`.
11. **A publish is announced once.** `knowledge.controller.ts:112-117` says that `publish()`
   sets the status unconditionally and that the handler appends an event on every call. The
   handler refuses items that are not DRAFT (`publish-knowledge.handler.ts:25`); the model
   follows the code.

## 6. What is not modelled

- Wording, logging, metrics, validation of request bodies and the mapping of
  errors to HTTP codes: no property depends on them.
- The circuit breaker, `CommandBus` and the outbox engine are in another package;
  what this code relies on is modelled as external (retry of transient errors,
  compensations in reverse order, recording of failed ones). auth-service and
  search-service are external in the same way.
- Spaces: creating one is a single insert behind an idempotency key.
- The members of an archived organisation. Archiving is only dispatched by the
  provisioning saga and leaves the memberships; the guard does not ask whether the
  organisation is archived, so its members are still admitted.
- The GUEST role, which differs from MEMBER in its permissions only, and
  permissions other than the two that guard Memberships' commands.
- The listings of members, organisations, revisions and AI queries, which are paged
  or read like those of Engagement. A negative `limit` in the hand-parsed
  listings (`parseInt`) reaches Prisma as a negative `take`, which reads from the
  other end; `Limits` are natural numbers.
- The membership entry of the cache, which is filled and dropped like the permission
  entry of RolePermissions.
- The system-permission guard and its client, the gRPC membership server, rate
  limiting by Redis, the scheduled-job registry, configuration and bootstrap keep no
  state that a step of another actor can leave wrong.
- Reservation ids are drawn fresh (`randomUUID`); a collision is not modelled.

## 7. Plan

1. The organisation's own state (live, archived) in Memberships, so that the members
   of an archived organisation have a property: today the guard admits them.
2. Abstract specifications of the remaining tables, each a theorem like `Refinement`:
   a list of undoings that are each run until done (SagaCompensation), a permission set
   with a bounded stale copy (RolePermissions).
3. What is proved of the compensation table in AskAiSaga too, where its rows are
   releases; there TLC checks what the saga needs of it.
