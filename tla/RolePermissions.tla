--------------------------- MODULE RolePermissions ---------------------------
(***************************************************************************)
(* The permission set of one role in one organisation: edits of it by      *)
(* overlapping READ COMMITTED transactions (src/modules/tenant), and the   *)
(* Redis entry in which the other services keep it.  An edit deletes the   *)
(* role's rows and inserts new ones, then drops the entry after its        *)
(* commit.  A reader that misses asks this service and fills the entry.    *)
(***************************************************************************)
EXTENDS Naturals, FiniteSets

CONSTANTS
  Permissions,  \* the catalog
  Defaults,     \* what seedDefaults gives the role
  Editors,      \* connections that can run UpdateRolePermissions
  Readers,      \* requests of other services that look the set up
  MaxEdits,     \* bound: edits started
  MaxFaults     \* bound: failed cache calls and crashes

ASSUME PermissionsAssumption ==
  /\ Defaults \subseteq Permissions
  /\ MaxEdits \in Nat
  /\ MaxFaults \in Nat

VARIABLES
  perms,   \* committed rows of org_role_permissions, by permission
  edit,    \* editor -> its transaction
  cache,   \* the Redis entry: no set, or the one set it holds
  lookup,  \* reader -> its cachedLookup
  edits,   \* edits started so far
  faults,  \* faults so far
  last,    \* history: the set that the last committed edit asked for
  beside,  \* history: what was granted by edits that committed while it ran
  raced,   \* history: the entry's reader had read before the last commit
  lost     \* history: an invalidation of the entry was lost

pvars == <<perms, edit, cache, lookup, edits, faults, last, beside, raced, lost>>

-------------------------------------------------------------------------------

\* `seen` holds the rows that the edit's DELETE found and nobody else deleted,
\* `since` (history) what other edits committed after it.
Edit == [step : {"idle", "replacing", "committed"}, want : SUBSET Permissions,
         seen : SUBSET Permissions, since : SUBSET Permissions]

\* `old` (history): an edit committed after the lookup read the database.
Lookup == [step : {"idle", "missed", "read"}, got : SUBSET Permissions, old : BOOLEAN]

TypeOK ==
  /\ perms \subseteq Permissions
  /\ edit \in [Editors -> Edit]
  /\ \A t \in Editors :
       edit[t].seen \subseteq IF edit[t].step = "replacing" THEN perms ELSE {}
  /\ cache \subseteq SUBSET Permissions
  /\ \A a, b \in cache : a = b
  /\ lookup \in [Readers -> Lookup]
  /\ edits \in 0 .. MaxEdits
  /\ faults \in 0 .. MaxFaults
  /\ last \subseteq Permissions
  /\ beside \subseteq Permissions
  /\ raced \in BOOLEAN
  /\ lost \in BOOLEAN

NoEdit == [step |-> "idle", want |-> {}, seen |-> {}, since |-> {}]

NoLookup == [step |-> "idle", got |-> {}, old |-> FALSE]

Init ==
  /\ perms = Defaults
  /\ edit = [t \in Editors |-> NoEdit]
  /\ cache = {}
  /\ lookup = [r \in Readers |-> NoLookup]
  /\ edits = 0
  /\ faults = 0
  /\ last = Defaults
  /\ beside = {}
  /\ raced = FALSE
  /\ lost = FALSE

Fault == faults < MaxFaults /\ faults' = faults + 1

-------------------------------------------------------------------------------
(* UpdateRolePermissions *)

\* Mutant of Found: the role's rows are not deleted.
FoundNothing == {}

\* The rows the DELETE of an edit that starts now finds.
Found == perms

\* The transaction begins and its DELETE takes its snapshot.
StartEdit(t, want) ==
  /\ edit[t] = NoEdit
  /\ edits < MaxEdits
  /\ edits' = edits + 1
  /\ edit' = [edit EXCEPT ![t] = [step |-> "replacing", want |-> want, seen |-> Found, since |-> {}]]
  /\ UNCHANGED <<perms, cache, lookup, faults, last, beside, raced, lost>>

\* Rows that other edits inserted since the DELETE's snapshot: it left them alone.
Left(t) == perms \ edit[t].seen

\* The others cannot delete the rows of t again, and have not seen its new ones.
Overtaken(t) ==
  [u \in Editors |->
    CASE u = t -> [NoEdit EXCEPT !.step = "committed"]
      [] u # t /\ edit[u].step = "replacing" ->
           [edit[u] EXCEPT !.seen = @ \ edit[t].seen, !.since = @ \cup edit[t].want]
      [] OTHER -> edit[u]]

\* Every lookup that has read the database has now read an older state of it.
Outdated == [r \in Readers |-> [lookup[r] EXCEPT !.old = (lookup[r].step = "read")]]

\* createMany and the commit.  A row that is left over and wanted again violates
\* the unique index on (orgId, role, permission).
CommitEdit(t) ==
  /\ edit[t].step = "replacing"
  /\ edit[t].want \cap Left(t) = {}
  /\ perms' = Left(t) \cup edit[t].want
  /\ edit' = Overtaken(t)
  /\ lookup' = Outdated
  /\ last' = edit[t].want
  /\ beside' = edit[t].since
  /\ UNCHANGED <<cache, edits, faults, raced, lost>>

\* The unique index, or anything else, ends the transaction.
AbortEdit(t) ==
  /\ edit[t].step = "replacing"
  /\ edit' = [edit EXCEPT ![t] = NoEdit]
  /\ UNCHANGED <<perms, cache, lookup, edits, faults, last, beside, raced, lost>>

\* The entry is replaced or gone, and its history with it.
SetCache(entry, race) ==
  /\ cache' = entry
  /\ raced' = race
  /\ lost' = FALSE

\* Mutant of Invalidate: the entry is dropped before the commit and not after it.
InvalidateFirst(t) ==
  \/ /\ edit[t].step = "replacing"
     /\ SetCache({}, FALSE)
     /\ UNCHANGED <<perms, edit, lookup, edits, faults, last, beside>>
  \/ /\ edit[t].step = "committed"
     /\ edit' = [edit EXCEPT ![t] = NoEdit]
     /\ UNCHANGED <<perms, cache, lookup, edits, faults, last, beside, raced, lost>>

\* afterCommit: cache.del.
Invalidate(t) ==
  /\ edit[t].step = "committed"
  /\ edit' = [edit EXCEPT ![t] = NoEdit]
  /\ SetCache({}, FALSE)
  /\ UNCHANGED <<perms, lookup, edits, faults, last, beside>>

\* Redis is away, or the process dies first: del() logs, and nobody retries it.
InvalidateFails(t) ==
  /\ edit[t].step = "committed"
  /\ Fault
  /\ edit' = [edit EXCEPT ![t] = NoEdit]
  /\ lost' = (lost \/ cache # {})
  /\ UNCHANGED <<perms, cache, lookup, edits, last, beside, raced>>

-------------------------------------------------------------------------------
(* Lookups of other services *)

\* get() finds no entry, or fails, which counts as a miss.
Miss(r) ==
  /\ lookup[r] = NoLookup
  /\ IF cache = {} THEN UNCHANGED faults ELSE Fault
  /\ lookup' = [lookup EXCEPT ![r].step = "missed"]
  /\ UNCHANGED <<perms, edit, cache, edits, last, beside, raced, lost>>

\* CheckMembership resolves the role's permissions outside any transaction.
ReadPermissions(r) ==
  /\ lookup[r].step = "missed"
  /\ lookup' = [lookup EXCEPT ![r] = [step |-> "read", got |-> perms, old |-> FALSE]]
  /\ UNCHANGED <<perms, edit, cache, edits, faults, last, beside, raced, lost>>

Fill(r) ==
  /\ lookup[r].step = "read"
  /\ SetCache({lookup[r].got}, lookup[r].old)
  /\ lookup' = [lookup EXCEPT ![r] = NoLookup]
  /\ UNCHANGED <<perms, edit, edits, faults, last, beside>>

\* The call or the set() fails: nothing is cached.
FillFails(r) ==
  /\ lookup[r].step \in {"missed", "read"}
  /\ Fault
  /\ lookup' = [lookup EXCEPT ![r] = NoLookup]
  /\ UNCHANGED <<perms, edit, cache, edits, last, beside, raced, lost>>

\* Mutant of Expire: set() without its PX argument.
NeverExpire == FALSE /\ UNCHANGED pvars

\* The TTL of the entry runs out.
Expire ==
  /\ cache # {}
  /\ SetCache({}, FALSE)
  /\ UNCHANGED <<perms, edit, lookup, edits, faults, last, beside>>

-------------------------------------------------------------------------------

Editing(t) ==
  (\E want \in SUBSET Permissions : StartEdit(t, want)) \/ CommitEdit(t) \/ AbortEdit(t)
    \/ Invalidate(t) \/ InvalidateFails(t)

LookingUp(r) == Miss(r) \/ ReadPermissions(r) \/ Fill(r) \/ FillFails(r)

Next ==
  \/ \E t \in Editors : Editing(t)
  \/ \E r \in Readers : LookingUp(r)
  \/ Expire

\* Time passes.  Nothing is assumed of editors and readers.
Spec == Init /\ [][Next]_pvars /\ WF_pvars(Expire)

-------------------------------------------------------------------------------
(* Properties *)

\* The last edit is in force: the role has everything it asked for, and beyond
\* that only what edits granted that committed while it ran.  Without overlap the
\* set is replaced exactly; two overlapping edits can leave the union of theirs.
LastEditIsInForce == last \subseteq perms /\ perms \subseteq last \cup beside

\* What dropping the entry after the commit buys: a stale entry has an
\* invalidation still to come, or its invalidation was lost, or its reader read
\* before the commit and filled after it.
StaleEntryHasACause ==
  ~(cache \subseteq {perms}) =>
    \/ \E t \in Editors : edit[t].step = "committed"
    \/ lost
    \/ raced

\* Whatever went wrong, the TTL mends it: once edits have stopped, readers are
\* served the present set, or none and ask for it.
CacheCatchesUp == <>[](cache \subseteq {perms})
===============================================================================
