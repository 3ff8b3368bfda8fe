----------------------------- MODULE ProvisionOrg -----------------------------
(***************************************************************************)
(* Provisioning an organisation: ProvisionOrgHandler creates the owner's   *)
(* account in auth-service over gRPC, then the organisation here, under    *)
(* CommandBus.runSaga, which on an error undoes in reverse what has been   *)
(* registered and records what it fails to undo (SagaCompensation).  The   *)
(* attempts are the requests of one client with one X-Idempotency-Key, so  *)
(* the next one starts when the key of the last one is free again: it      *)
(* failed, or the record of the key has expired, whatever became of it.    *)
(* The key is passed on, and auth-service answers it with the same account.*)
(***************************************************************************)
EXTENDS SagaCompensation

CONSTANT Attempts  \* POST /admin/orgs requests: same key, e-mail and slug

Undoings == {"cancel-provisioned-user", "archive-org"}

ASSUME ProvisionAssumption == Rows = Attempts \X Undoings

VARIABLES
  claim,    \* the attempt that holds the idempotency key
  pc,       \* attempt -> where its saga is
  account,  \* owner accounts, by the attempt whose call created them
  record,   \* auth-service: the account that the key stands for
  owner,    \* attempt -> the userId that its saga was given
  org,      \* attempt -> the organisation it created
  lost,     \* history: attempts whose CreateOrg committed behind an error
  dropped   \* history: compensations that failed and could not be recorded

saga == <<claim, pc, account, record, owner, org, lost, dropped>>

pvars == <<cvars, saga>>

-------------------------------------------------------------------------------

Handling == {"provision", "create", "return", "archive", "record archive",
             "cancel", "record cancel", "fail"}

ProvisionTypeOK ==
  /\ TypeOK
  /\ claim \subseteq Attempts /\ Cardinality(claim) <= 1
  /\ pc \in [Attempts -> {"start", "done", "failed", "dead"} \cup Handling]
  /\ account \in [Attempts -> {"none", "active", "cancelled"}]
  /\ record \subseteq {u \in Attempts : account[u] = "active"} /\ Cardinality(record) <= 1
  /\ owner \in [Attempts -> SUBSET Attempts] /\ \A g \in Attempts : Cardinality(owner[g]) <= 1
  /\ org \in [Attempts -> {"none", "live", "archived"}]
  /\ lost \subseteq Attempts
  /\ dropped \subseteq Rows

ProvisionInit ==
  /\ Init
  /\ claim = {}
  /\ pc = [g \in Attempts |-> "start"]
  /\ account = [g \in Attempts |-> "none"]
  /\ record = {}
  /\ owner = [g \in Attempts |-> {}]
  /\ org = [g \in Attempts |-> "none"]
  /\ lost = {}
  /\ dropped = {}

Goto(g, step) == pc' = [pc EXCEPT ![g] = step]

\* The compensation rows stay as they are, but for a fault that may have happened.
NoRow == UNCHANGED <<status, attempts, stale, batch, up, threw, reaped>>

-------------------------------------------------------------------------------
(* What the steps of the saga do *)

\* auth-service, as its client describes it: the first call with the key creates
\* an account, the next ones return it, until it is cancelled.
NewAccount(g) ==
  IF record = {}
  THEN account' = [account EXCEPT ![g] = "active"] /\ record' = {g}
  ELSE UNCHANGED <<account, record>>

Given(g) == IF record = {} THEN {g} ELSE record

\* cancelProvisionedUser(): false, and no error, for an account that is gone.
CancelAccount(g) ==
  /\ account' = [u \in Attempts |-> IF u \in owner[g] THEN "cancelled" ELSE account[u]]
  /\ record' = record \ owner[g]

\* findBySlug() sees what is not soft-deleted, and so does the unique index.
SlugTaken == \E g \in Attempts : org[g] = "live"

\* organisation, OWNER membership and default permissions, in one transaction.
CreateOrg(g) == ~SlugTaken /\ org' = [org EXCEPT ![g] = "live"]

\* findById() does not see an organisation that is archived: OrgNotFoundError.
ArchiveOrg(g) == org[g] = "live" /\ org' = [org EXCEPT ![g] = "archived"]

-------------------------------------------------------------------------------
(* ProvisionOrgHandler.execute under CommandBus.runSaga *)

\* The interceptor has claimed the key.
StartAttempt(g) ==
  /\ pc[g] = "start"
  /\ claim = {}
  /\ claim' = {g}
  /\ Goto(g, "provision")
  /\ UNCHANGED <<cvars, account, record, owner, org, lost, dropped>>

\* An error leaves nothing registered, whether or not the account exists.
ProvisionUser(g) ==
  /\ pc[g] = "provision"
  /\ \/ NewAccount(g) /\ owner' = [owner EXCEPT ![g] = Given(g)]
        /\ Goto(g, "create") /\ UNCHANGED faults
     \/ Goto(g, "fail") /\ UNCHANGED <<account, record, owner, faults>>
     \/ Fault /\ NewAccount(g) /\ Goto(g, "fail") /\ UNCHANGED owner
  /\ NoRow
  /\ UNCHANGED <<claim, org, lost, dropped>>

\* The account is registered for cancellation.  The organisation is registered
\* when the dispatch returns, so not if it throws after its commit.  It also
\* throws for a slug that a stranger has, and when it could not commit.
DispatchCreateOrg(g) ==
  /\ pc[g] = "create"
  /\ \/ CreateOrg(g) /\ Goto(g, "return") /\ UNCHANGED <<faults, lost>>
     \/ Goto(g, "cancel") /\ UNCHANGED <<faults, org, lost>>
     \/ Fault /\ CreateOrg(g) /\ lost' = lost \cup {g} /\ Goto(g, "cancel")
  /\ NoRow
  /\ UNCHANGED <<claim, account, record, owner, dropped>>

\* Mutant of Return: what was created last is not registered.
ReturnUnregistered(g) ==
  /\ pc[g] = "return"
  /\ \/ Goto(g, "done") /\ UNCHANGED faults
     \/ Fault /\ Goto(g, "cancel")
  /\ NoRow
  /\ UNCHANGED <<claim, account, record, owner, org, lost, dropped>>

\* The response; or something before it throws ("however unlikely").
Return(g) ==
  /\ pc[g] = "return"
  /\ \/ Goto(g, "done") /\ UNCHANGED faults
     \/ Fault /\ Goto(g, "archive")
  /\ NoRow
  /\ UNCHANGED <<claim, account, record, owner, org, lost, dropped>>

CompensateOrg(g) ==
  /\ pc[g] = "archive"
  /\ \/ ArchiveOrg(g) /\ Goto(g, "cancel") /\ UNCHANGED faults
     \/ Fault /\ (ArchiveOrg(g) \/ UNCHANGED org) /\ Goto(g, "record archive")
  /\ NoRow
  /\ UNCHANGED <<claim, account, record, owner, lost, dropped>>

\* Mutant of CompensateUser: a compensation that throws is only logged.
CompensateUserOrLog(g) ==
  /\ pc[g] = "cancel"
  /\ \/ CancelAccount(g) /\ UNCHANGED faults
     \/ Fault /\ (CancelAccount(g) \/ UNCHANGED <<account, record>>)
  /\ Goto(g, "fail")
  /\ NoRow
  /\ UNCHANGED <<claim, owner, org, lost, dropped>>

CompensateUser(g) ==
  /\ pc[g] = "cancel"
  /\ \/ CancelAccount(g) /\ Goto(g, "fail") /\ UNCHANGED faults
     \/ Fault /\ (CancelAccount(g) \/ UNCHANGED <<account, record>>) /\ Goto(g, "record cancel")
  /\ NoRow
  /\ UNCHANGED <<claim, owner, org, lost, dropped>>

\* What could not be undone is recorded, if the insert succeeds.
Record(row) ==
  \/ RecordFailed(row) /\ UNCHANGED dropped
  \/ Fault /\ NoRow /\ dropped' = dropped \cup {row}

\* The saga goes on to undo the rest, whatever became of this.
RecordOrg(g) ==
  /\ pc[g] = "record archive"
  /\ Record(<<g, "archive-org">>)
  /\ Goto(g, "cancel")
  /\ UNCHANGED <<claim, account, record, owner, org, lost>>

RecordUser(g) ==
  /\ pc[g] = "record cancel"
  /\ Record(<<g, "cancel-provisioned-user">>)
  /\ Goto(g, "fail")
  /\ UNCHANGED <<claim, account, record, owner, org, lost>>

\* The client gets the error, and the interceptor frees the key, if its delete succeeds.
Fail(g) ==
  /\ pc[g] = "fail"
  /\ Goto(g, "failed")
  /\ \/ claim' = {} /\ UNCHANGED faults
     \/ Fault /\ UNCHANGED claim
  /\ NoRow
  /\ UNCHANGED <<account, record, owner, org, lost, dropped>>

\* The record of a key expires after a day and is purged, whether its attempt died,
\* failed or succeeded.  An attempt is not served for that long.
ClaimExpires(g) ==
  /\ pc[g] \notin Handling
  /\ claim = {g}
  /\ claim' = {}
  /\ UNCHANGED <<cvars, pc, account, record, owner, org, lost, dropped>>

-------------------------------------------------------------------------------
(* The jobs of a replica *)

\* The runners that PlatformAdminModule registers.
Undo(row) ==
  \/ row[2] = "cancel-provisioned-user" /\ CancelAccount(row[1]) /\ UNCHANGED org
  \/ row[2] = "archive-org" /\ ArchiveOrg(row[1]) /\ UNCHANGED <<account, record>>

\* Mutant of RunUndoing: the runner does not wait for what it starts.
RunWithoutAwait(p, c) ==
  /\ Run(p, c, "ran")
  /\ Undo(c.row) \/ UNCHANGED <<account, record, org>>
  /\ UNCHANGED <<claim, pc, owner, lost, dropped>>

\* The runner comes back, or throws, with its effect or without it.
RunUndoing(p, c) ==
  /\ \/ Run(p, c, "ran") /\ Undo(c.row)
     \/ Run(p, c, "threw") /\ (Undo(c.row) \/ UNCHANGED <<account, record, org>>)
  /\ UNCHANGED <<claim, pc, owner, lost, dropped>>

CrashReplica(p) ==
  /\ Crash(p)
  /\ \E served \in SUBSET {g \in Attempts : pc[g] \in Handling} :
       pc' = [g \in Attempts |-> IF g \in served THEN "dead" ELSE pc[g]]
  /\ UNCHANGED <<claim, account, record, owner, org, lost, dropped>>

Reaper(p) ==
  \/ \E c \in batch[p] : RunUndoing(p, c)
  \/ /\ \/ Poll(p) \/ Fetch(p) \/ FetchThrows(p) \/ Restart(p)
        \/ \E c \in batch[p] : Mark(p, c) \/ MarkThrows(p, c)
     /\ UNCHANGED saga

-------------------------------------------------------------------------------

Saga(g) ==
  \/ StartAttempt(g) \/ ProvisionUser(g) \/ DispatchCreateOrg(g) \/ Return(g)
  \/ CompensateOrg(g) \/ CompensateUser(g) \/ RecordOrg(g) \/ RecordUser(g)
  \/ Fail(g) \/ ClaimExpires(g)

ProvisionNext ==
  \/ \E g \in Attempts : Saga(g)
  \/ \E p \in Reapers : Reaper(p) \/ CrashReplica(p)
  \/ Background /\ UNCHANGED saga

ProvisionSpec == ProvisionInit /\ [][ProvisionNext]_pvars

-------------------------------------------------------------------------------
(* Properties *)

OnRecord(row) == status[row] \in {"PENDING", "INFLIGHT", "FAILED_DLQ"}

\* An attempt that is over and did not fail, and whose key was purged.
KeyExpired(g) == pc[g] \in {"done", "dead"} /\ claim # {g}

\* "An org nobody could administer": a live organisation has lost its owner's
\* account only if its creation was lost behind an error; or its own archiving is
\* on record or could not be recorded; or another attempt was given the same
\* account, and either its cancellation was recorded and ran when this one had
\* succeeded, or the key of this one, which died or even succeeded, had expired and
\* the other one found the slug taken.
OwnerlessOrgHasACause ==
  \A g \in Attempts :
    org[g] = "live" /\ (\E u \in owner[g] : account[u] = "cancelled") =>
      \/ g \in lost
      \/ OnRecord(<<g, "archive-org">>) \/ <<g, "archive-org">> \in dropped
      \/ \E h \in Attempts \ {g} :
           /\ owner[h] = owner[g]
           /\ KeyExpired(g) \/ status[<<h, "cancel-provisioned-user">>] # "ABSENT"

\* When no attempt is under way, every account that is left over is somebody's:
\* of an attempt that succeeded or died, or with its cancellation on record, or
\* one that could not be recorded; or its userId never reached this service.
StrayAccountHasACause ==
  (\A g \in Attempts : pc[g] \notin Handling) =>
    \A u \in Attempts :
      LET given == {g \in Attempts : owner[g] = {u}} IN
      account[u] = "active" /\ given # {} =>
        \E g \in given :
          \/ pc[g] \in {"done", "dead"}
          \/ OnRecord(<<g, "cancel-provisioned-user">>)
          \/ <<g, "cancel-provisioned-user">> \in dropped

\* A compensation marked DONE is in place, whichever claimant marked it and
\* whatever later attempts did with the same key.
DoneMeansUndone ==
  \A g \in Attempts :
    /\ status[<<g, "cancel-provisioned-user">>] \in {"DONE", "PURGED"} =>
         \A u \in owner[g] : account[u] = "cancelled"
    /\ status[<<g, "archive-org">>] \in {"DONE", "PURGED"} => org[g] = "archived"
================================================================================
