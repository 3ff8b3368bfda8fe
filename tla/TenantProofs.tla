----------------------------- MODULE TenantProofs -----------------------------
(***************************************************************************)
(* The safety of src/modules/tenant.  First RolePermissions, for any       *)
(* catalog, any number of editors and readers and any number of edits;     *)
(* then Memberships, for any users, invites and number of requests.        *)
(***************************************************************************)
EXTENDS RolePermissions, Memberships, TLAPS

-------------------------------------------------------------------------------
(* RolePermissions *)

\* Rows that an edit's DELETE did not find were granted since by other edits.
LeftRowsAreNew ==
  \A t \in Editors : edit[t].step = "replacing" => Left(t) \subseteq edit[t].since

EditInv == TypeOK /\ LeftRowsAreNew /\ LastEditIsInForce

\* A lookup that no commit overtook holds the present set.
LookupsAreCurrent ==
  \A r \in Readers : lookup[r].step = "read" /\ ~lookup[r].old => lookup[r].got = perms

CacheInv == LookupsAreCurrent /\ StaleEntryHasACause

-------------------------------------------------------------------------------

LEMMA TypeInit == Init => TypeOK
<1> SUFFICES ASSUME Init PROVE TypeOK
  OBVIOUS
<1>1. NoEdit \in Edit /\ NoEdit.seen = {} /\ NoLookup \in Lookup
  BY DEF NoEdit, Edit, NoLookup, Lookup
<1>2. raced \in BOOLEAN /\ lost \in BOOLEAN
  BY Zenon DEF Init
<1> QED
  BY <1>1, <1>2, PermissionsAssumption DEF Init, TypeOK

\* What a commit does to the rows and to the other edits.
LEMMA CommitEffect ==
  ASSUME TypeOK, NEW t \in Editors, CommitEdit(t)
  PROVE  /\ perms' = (perms \ edit[t].seen) \cup edit[t].want
         /\ edit' \in [Editors -> Edit]
         /\ edit'[t].step = "committed" /\ edit'[t].seen = {}
         /\ \A u \in Editors \ {t} :
              /\ edit'[u].step = edit[u].step
              /\ edit[u].step = "replacing" =>
                   /\ edit'[u].seen = edit[u].seen \ edit[t].seen
                   /\ edit'[u].since = edit[u].since \cup edit[t].want
              /\ edit[u].step # "replacing" => edit'[u] = edit[u]
<1>1. perms' = (perms \ edit[t].seen) \cup edit[t].want /\ edit' = Overtaken(t)
  BY DEF CommitEdit, Left
<1>2. edit \in [Editors -> Edit] /\ edit[t] \in Edit
  BY DEF TypeOK
<1>3. Overtaken(t)[t] = [NoEdit EXCEPT !.step = "committed"]
  BY DEF Overtaken
<1>4. ASSUME NEW u \in Editors \ {t}, edit[u].step = "replacing"
      PROVE  Overtaken(t)[u] = [edit[u] EXCEPT !.seen = @ \ edit[t].seen,
                                               !.since = @ \cup edit[t].want]
  BY <1>4 DEF Overtaken
<1>5. ASSUME NEW u \in Editors \ {t}, edit[u].step # "replacing"
      PROVE  Overtaken(t)[u] = edit[u]
  BY <1>5 DEF Overtaken
<1>6. /\ [NoEdit EXCEPT !.step = "committed"] \in Edit
      /\ [NoEdit EXCEPT !.step = "committed"].step = "committed"
      /\ [NoEdit EXCEPT !.step = "committed"].seen = {}
  BY DEF NoEdit, Edit
<1>7. ASSUME NEW u \in Editors \ {t}, edit[u].step = "replacing"
      PROVE  /\ Overtaken(t)[u] \in Edit
             /\ Overtaken(t)[u].step = edit[u].step
             /\ Overtaken(t)[u].seen = edit[u].seen \ edit[t].seen
             /\ Overtaken(t)[u].since = edit[u].since \cup edit[t].want
  <2>1. /\ edit[u] \in Edit
        /\ edit[u].seen \ edit[t].seen \in SUBSET Permissions
        /\ edit[u].since \cup edit[t].want \in SUBSET Permissions
    BY <1>2 DEF Edit
  <2>2. Overtaken(t)[u] = [step |-> edit[u].step, want |-> edit[u].want,
                           seen |-> edit[u].seen \ edit[t].seen,
                           since |-> edit[u].since \cup edit[t].want]
    BY <1>4, <1>7, <2>1 DEF Edit
  <2> QED
    BY <2>1, <2>2 DEF Edit
<1>8. \A u \in Editors : Overtaken(t)[u] \in Edit
  BY <1>2, <1>3, <1>5, <1>6, <1>7
<1>9. Overtaken(t) = [u \in Editors |-> Overtaken(t)[u]]
  BY DEF Overtaken
<1>10. edit' \in [Editors -> Edit]
  BY <1>1, <1>8, <1>9
<1> QED
  BY <1>1, <1>3, <1>5, <1>6, <1>7, <1>10

-------------------------------------------------------------------------------
(* Edits *)

\* A commit keeps the rows that other edits found among the present ones, and
\* whatever they did not find was granted by this edit or an earlier one.
LEMMA CommitKeepsEdits ==
  ASSUME EditInv, NEW t \in Editors, CommitEdit(t)
  PROVE  EditInv'
<1>1. TypeOK
  BY DEF EditInv
<1>2. /\ edit[t] \in Edit /\ edit[t].step = "replacing"
      /\ edit[t].want \subseteq Permissions /\ edit[t].since \subseteq Permissions
      /\ perms \subseteq Permissions
  BY <1>1 DEF CommitEdit, TypeOK, Edit
<1>3. perms' = (perms \ edit[t].seen) \cup edit[t].want
  BY <1>1, CommitEffect
<1>4. \A u \in Editors : edit'[u].seen \subseteq IF edit'[u].step = "replacing" THEN perms' ELSE {}
  <2>1. ASSUME NEW u \in Editors \ {t}, edit[u].step = "replacing"
        PROVE  edit'[u].seen \subseteq perms' /\ edit'[u].step = "replacing"
    <3>1. edit[u].seen \subseteq perms
      BY <1>1, <2>1 DEF TypeOK
    <3>2. edit'[u].seen = edit[u].seen \ edit[t].seen /\ edit'[u].step = "replacing"
      BY <1>1, <2>1, CommitEffect
    <3> QED
      BY <1>3, <3>1, <3>2
  <2>2. ASSUME NEW u \in Editors \ {t}, edit[u].step # "replacing"
        PROVE  edit'[u].seen = {}
    BY <1>1, <2>2, CommitEffect DEF TypeOK
  <2> QED
    BY <1>1, <2>1, <2>2, CommitEffect
<1>5. lookup' \in [Readers -> Lookup]
  <2>1. ASSUME NEW l \in Lookup, NEW b \in BOOLEAN PROVE [l EXCEPT !.old = b] \in Lookup
    BY DEF Lookup
  <2>2. \A r \in Readers : lookup[r] \in Lookup /\ (lookup[r].step = "read") \in BOOLEAN
    BY <1>1, Zenon DEF TypeOK
  <2>3. \A r \in Readers : [lookup[r] EXCEPT !.old = (lookup[r].step = "read")] \in Lookup
    BY <2>1, <2>2, Zenon
  <2> QED
    BY <2>3, Zenon DEF CommitEdit, Outdated
<1>6. TypeOK'
  <2>1. /\ perms' \subseteq Permissions /\ last' \subseteq Permissions /\ beside' \subseteq Permissions
        /\ edit' \in [Editors -> Edit]
    BY <1>1, <1>2, <1>3, CommitEffect DEF CommitEdit
  <2>2. UNCHANGED <<cache, edits, faults, raced, lost>>
    BY DEF CommitEdit
  <2> QED
    BY <1>1, <1>4, <1>5, <2>1, <2>2 DEF TypeOK
<1>7. LeftRowsAreNew'
  <2> SUFFICES ASSUME NEW u \in Editors, edit'[u].step = "replacing"
               PROVE  perms' \ edit'[u].seen \subseteq edit'[u].since
    BY DEF LeftRowsAreNew, Left
  <2>1. u # t /\ edit[u].step = "replacing"
    BY <1>1, CommitEffect
  <2>2. perms \ edit[u].seen \subseteq edit[u].since
    BY <2>1 DEF EditInv, LeftRowsAreNew, Left
  <2>3. /\ edit'[u].seen = edit[u].seen \ edit[t].seen
        /\ edit'[u].since = edit[u].since \cup edit[t].want
    BY <1>1, <2>1, CommitEffect
  <2> QED
    BY <1>3, <2>2, <2>3
<1>8. LastEditIsInForce'
  <2>1. perms \ edit[t].seen \subseteq edit[t].since
    BY <1>2 DEF EditInv, LeftRowsAreNew, Left
  <2>2. last' = edit[t].want /\ beside' = edit[t].since
    BY DEF CommitEdit
  <2> QED
    BY <1>3, <2>1, <2>2 DEF LastEditIsInForce
<1> QED
  BY <1>6, <1>7, <1>8 DEF EditInv

\* The steps in which one edit changes its own transaction alone.
LEMMA OneEdit ==
  ASSUME EditInv, NEW t \in Editors, NEW e \in Edit, edit' = [edit EXCEPT ![t] = e],
         e.seen \subseteq IF e.step = "replacing" THEN perms ELSE {},
         e.step = "replacing" => perms \ e.seen \subseteq e.since,
         cache' \in {cache, {}}, edits' \in 0 .. MaxEdits, faults' \in 0 .. MaxFaults,
         raced' \in BOOLEAN, lost' \in BOOLEAN, UNCHANGED <<perms, lookup, last, beside>>
  PROVE  EditInv'
<1>1. TypeOK'
  BY DEF EditInv, TypeOK
<1>2. LeftRowsAreNew'
  BY DEF EditInv, TypeOK, LeftRowsAreNew, Left
<1>3. LastEditIsInForce'
  BY DEF EditInv, LastEditIsInForce
<1> QED
  BY <1>1, <1>2, <1>3 DEF EditInv

\* The steps in which one lookup changes itself and the entry alone.
LEMMA OneLookup ==
  ASSUME EditInv, NEW r \in Readers, NEW l \in Lookup, lookup' = [lookup EXCEPT ![r] = l],
         cache' \in {cache, {lookup[r].got}}, faults' \in 0 .. MaxFaults,
         raced' \in BOOLEAN, lost' \in BOOLEAN, UNCHANGED <<perms, edit, edits, last, beside>>
  PROVE  EditInv'
<1>1. lookup[r] \in Lookup
  BY DEF EditInv, TypeOK
<1>2. TypeOK'
  BY <1>1 DEF EditInv, TypeOK, Lookup
<1>3. LeftRowsAreNew' /\ LastEditIsInForce'
  BY DEF EditInv, LeftRowsAreNew, Left, LastEditIsInForce
<1> QED
  BY <1>2, <1>3 DEF EditInv

LEMMA EditStep == EditInv /\ [Next]_pvars => EditInv'
<1> SUFFICES ASSUME EditInv, [Next]_pvars PROVE EditInv'
  OBVIOUS
<1> USE PermissionsAssumption
<1>0. /\ TypeOK /\ NoEdit \in Edit /\ NoEdit.seen = {} /\ NoEdit.step = "idle"
      /\ NoLookup \in Lookup
      /\ edits \in 0 .. MaxEdits /\ faults \in 0 .. MaxFaults
      /\ raced \in BOOLEAN /\ lost \in BOOLEAN
  BY DEF EditInv, TypeOK, NoEdit, Edit, NoLookup, Lookup
<1>1. Fault => faults' \in 0 .. MaxFaults
  BY <1>0 DEF Fault
<1>2. ASSUME NEW t \in Editors, NEW want \in SUBSET Permissions, StartEdit(t, want)
      PROVE  EditInv'
  <2> DEFINE e == [step |-> "replacing", want |-> want, seen |-> perms, since |-> {}]
  <2>1. e \in Edit /\ e.seen = perms /\ e.step = "replacing"
    BY <1>0 DEF Edit, TypeOK
  <2>2. /\ edit' = [edit EXCEPT ![t] = e] /\ edits' \in 0 .. MaxEdits
        /\ UNCHANGED <<perms, cache, lookup, faults, last, beside, raced, lost>>
    BY <1>0, <1>2 DEF StartEdit, Found
  <2> HIDE DEF e
  <2> QED
    BY <1>0, <2>1, <2>2, OneEdit
<1>3. ASSUME NEW t \in Editors, CommitEdit(t) PROVE EditInv'
  BY <1>3, CommitKeepsEdits
<1>4. ASSUME NEW t \in Editors, AbortEdit(t) PROVE EditInv'
  BY <1>0, <1>4, OneEdit DEF AbortEdit
<1>5. ASSUME NEW t \in Editors, Invalidate(t) PROVE EditInv'
  BY <1>0, <1>5, OneEdit DEF Invalidate, SetCache
<1>6. ASSUME NEW t \in Editors, InvalidateFails(t) PROVE EditInv'
  <2>1. lost' \in BOOLEAN
    BY <1>6, Zenon DEF InvalidateFails
  <2> QED
    BY <1>0, <1>1, <1>6, <2>1, OneEdit DEF InvalidateFails
<1>7. ASSUME NEW r \in Readers, LookingUp(r) PROVE EditInv'
  <2>1. lookup[r] \in Lookup /\ [lookup[r] EXCEPT !.step = "missed"] \in Lookup
    BY <1>0 DEF TypeOK, Lookup
  <2>2. CASE Miss(r)
    <3>1. faults' \in 0 .. MaxFaults
      BY <1>0, <1>1, <2>2 DEF Miss
    <3> QED
      BY <1>0, <2>1, <2>2, <3>1, OneLookup DEF Miss
  <2>3. CASE ReadPermissions(r)
    <3>1. [step |-> "read", got |-> perms, old |-> FALSE] \in Lookup
      BY <1>0 DEF TypeOK, Lookup
    <3> QED
      BY <1>0, <2>3, <3>1, OneLookup DEF ReadPermissions
  <2>4. CASE Fill(r)
    <3>1. lookup[r].old \in BOOLEAN
      BY <2>1 DEF Lookup
    <3> QED
      BY <1>0, <2>4, <3>1, OneLookup DEF Fill, SetCache
  <2>5. CASE FillFails(r)
    BY <1>0, <1>1, <2>5, OneLookup DEF FillFails
  <2> QED
    BY <1>7, <2>2, <2>3, <2>4, <2>5 DEF LookingUp
<1>8. CASE Expire
  BY <1>8 DEF Expire, SetCache, EditInv, TypeOK, LeftRowsAreNew, Left, LastEditIsInForce
<1>9. CASE UNCHANGED pvars
  BY <1>9 DEF pvars, EditInv, TypeOK, LeftRowsAreNew, Left, LastEditIsInForce
<1> QED
  BY <1>2, <1>3, <1>4, <1>5, <1>6, <1>7, <1>8, <1>9 DEF Next, Editing

LEMMA EditInit == Init => EditInv
<1> SUFFICES ASSUME Init PROVE EditInv
  OBVIOUS
<1>1. TypeOK
  BY TypeInit
<1>2. LeftRowsAreNew /\ LastEditIsInForce
  BY DEF Init, LeftRowsAreNew, NoEdit, LastEditIsInForce
<1> QED
  BY <1>1, <1>2 DEF EditInv

\* The invariant behind the edits.
THEOREM EditsInductive == Spec => []EditInv
BY EditInit, EditStep, PTL DEF Spec

\* Every reachable state is well formed; the cache holds one entry at most, and
\* the rows that an edit can still delete are present.
THEOREM TypeCorrect == Spec => []TypeOK
<1>1. EditInv => TypeOK
  BY DEF EditInv
<1> QED
  BY <1>1, EditsInductive, PTL

\* The role has all that its last edit asked for, and beyond that only what was
\* granted by edits that committed while that one ran.
THEOREM LastEditInForce == Spec => []LastEditIsInForce
<1>1. EditInv => LastEditIsInForce
  BY DEF EditInv
<1> QED
  BY <1>1, EditsInductive, PTL

-------------------------------------------------------------------------------
(* The cache entry *)

\* Some edit has committed and has not dropped the entry yet.
Pending == \E t \in Editors : edit[t].step = "committed"

LEMMA CacheInit == Init => CacheInv
BY DEF Init, NoLookup, CacheInv, LookupsAreCurrent, StaleEntryHasACause

LEMMA CacheStep == TypeOK /\ CacheInv /\ [Next]_pvars => CacheInv'
<1> SUFFICES ASSUME TypeOK, CacheInv, [Next]_pvars PROVE CacheInv'
  OBVIOUS
<1>0. /\ edit \in [Editors -> Edit] /\ lookup \in [Readers -> Lookup]
      /\ LookupsAreCurrent /\ StaleEntryHasACause
  BY DEF TypeOK, CacheInv
<1>1. ASSUME NEW t \in Editors, NEW want \in SUBSET Permissions, StartEdit(t, want)
      PROVE  CacheInv'
  <2>1. edit[t].step = "idle"
    BY <1>1 DEF StartEdit, NoEdit
  <2>2. Pending => Pending'
    BY <1>0, <1>1, <2>1 DEF StartEdit, Pending
  <2> QED
    BY <1>0, <1>1, <2>2 DEF StartEdit, CacheInv, LookupsAreCurrent, StaleEntryHasACause, Pending
<1>2. ASSUME NEW t \in Editors, CommitEdit(t) PROVE CacheInv'
  <2>1. Pending'
    BY <1>2, CommitEffect DEF Pending
  <2>2. \A r \in Readers : lookup'[r].step = lookup[r].step /\ lookup'[r].old = (lookup[r].step = "read")
    <3>1. ASSUME NEW l \in Lookup, NEW b \in BOOLEAN
          PROVE  [l EXCEPT !.old = b].step = l.step /\ [l EXCEPT !.old = b].old = b
      BY DEF Lookup
    <3>2. \A r \in Readers : lookup[r] \in Lookup /\ (lookup[r].step = "read") \in BOOLEAN
      BY <1>0, Zenon
    <3>3. \A r \in Readers : lookup'[r] = [lookup[r] EXCEPT !.old = (lookup[r].step = "read")]
      BY <1>2, Zenon DEF CommitEdit, Outdated
    <3>4. ASSUME NEW r \in Readers
          PROVE  /\ lookup'[r].step = lookup[r].step
                 /\ lookup'[r].old = (lookup[r].step = "read")
      <4> DEFINE l == lookup[r]
                 b == (l.step = "read")
      <4>1. l \in Lookup /\ b \in BOOLEAN /\ lookup'[r] = [l EXCEPT !.old = b]
        BY <3>2, <3>3, Zenon
      <4> HIDE DEF l, b
      <4>2. [l EXCEPT !.old = b].step = l.step /\ [l EXCEPT !.old = b].old = b
        BY <3>1, <4>1
      <4>3. lookup'[r].step = l.step /\ lookup'[r].old = b
        BY <4>1, <4>2
      <4> QED
        BY <4>3, Zenon DEF l, b
    <3> QED
      BY <3>4, Zenon
  <2>3. LookupsAreCurrent'
    BY <2>2, Zenon DEF LookupsAreCurrent
  <2>4. StaleEntryHasACause'
    BY <2>1 DEF StaleEntryHasACause, Pending
  <2> QED
    BY <2>3, <2>4 DEF CacheInv
<1>3. ASSUME NEW t \in Editors, AbortEdit(t) PROVE CacheInv'
  <2>1. Pending => Pending'
    BY <1>0, <1>3 DEF AbortEdit, Pending
  <2> QED
    BY <1>0, <1>3, <2>1 DEF AbortEdit, CacheInv, LookupsAreCurrent, StaleEntryHasACause, Pending
<1>4. ASSUME NEW t \in Editors, Invalidate(t) PROVE CacheInv'
  BY <1>0, <1>4 DEF Invalidate, SetCache, CacheInv, LookupsAreCurrent, StaleEntryHasACause
<1>5. ASSUME NEW t \in Editors, InvalidateFails(t) PROVE CacheInv'
  <2>1. cache' = cache /\ perms' = perms /\ lookup' = lookup /\ (cache # {} => lost')
    BY <1>5 DEF InvalidateFails
  <2> QED
    BY <1>0, <2>1 DEF CacheInv, LookupsAreCurrent, StaleEntryHasACause
<1>6. ASSUME NEW r \in Readers, LookingUp(r) PROVE CacheInv'
  <2>1. UNCHANGED <<perms, edit>>
    BY <1>6 DEF LookingUp, Miss, ReadPermissions, Fill, FillFails
  <2>2. CASE Miss(r) \/ FillFails(r)
    <3>1. UNCHANGED <<cache, raced, lost>>
      BY <2>2 DEF Miss, FillFails
    <3>2. lookup'[r].step # "read" /\ \A q \in Readers \ {r} : lookup'[q] = lookup[q]
      BY <1>0, <2>2 DEF Miss, FillFails, NoLookup, Lookup
    <3> QED
      BY <1>0, <2>1, <3>1, <3>2 DEF CacheInv, LookupsAreCurrent, StaleEntryHasACause
  <2>3. CASE ReadPermissions(r)
    <3>1. UNCHANGED <<cache, raced, lost>>
      BY <2>3 DEF ReadPermissions
    <3>2. lookup'[r].got = perms /\ \A q \in Readers \ {r} : lookup'[q] = lookup[q]
      BY <1>0, <2>3 DEF ReadPermissions
    <3> QED
      BY <1>0, <2>1, <3>1, <3>2 DEF CacheInv, LookupsAreCurrent, StaleEntryHasACause
  <2>4. CASE Fill(r)
    <3>1. cache' = {lookup[r].got} /\ (raced' <=> lookup[r].old) /\ lookup[r].step = "read"
      BY <2>4 DEF Fill, SetCache
    <3>2. lookup'[r].step # "read" /\ \A q \in Readers \ {r} : lookup'[q] = lookup[q]
      BY <1>0, <2>4 DEF Fill, NoLookup
    <3>3. raced' \/ cache' = {perms}
      BY <1>0, <3>1 DEF LookupsAreCurrent
    <3> QED
      BY <1>0, <2>1, <3>2, <3>3 DEF CacheInv, LookupsAreCurrent, StaleEntryHasACause
  <2> QED
    BY <1>6, <2>2, <2>3, <2>4 DEF LookingUp
<1>7. CASE Expire
  BY <1>0, <1>7 DEF Expire, SetCache, CacheInv, LookupsAreCurrent, StaleEntryHasACause
<1>8. CASE UNCHANGED pvars
  BY <1>0, <1>8 DEF pvars, CacheInv, LookupsAreCurrent, StaleEntryHasACause
<1> QED
  BY <1>1, <1>2, <1>3, <1>4, <1>5, <1>6, <1>7, <1>8 DEF Next, Editing

\* A stale entry has an invalidation to come, lost one, or was filled by a reader
\* that an edit overtook: dropping the entry after the commit leaves nothing else.
THEOREM StaleEntriesExplained == Spec => []StaleEntryHasACause
<1>1. Spec => []CacheInv
  BY CacheInit, CacheStep, TypeCorrect, PTL DEF Spec
<1>2. CacheInv => StaleEntryHasACause
  BY DEF CacheInv
<1> QED
  BY <1>1, <1>2, PTL

-------------------------------------------------------------------------------
(* Memberships: the invariants *)

\* No invite is ever deleted.
AcceptsHaveInvites ==
  \A c \in Connections : request[c].step = "accept" => invites[request[c].token] # NoInvite

\* Well-formed members, invites, requests and histories.
MemberTypes ==
  /\ roleOf \in [Users -> Roles \cup {"none"}]
  /\ grants \in [ManageableRoles -> SUBSET OrgPermissions]
  /\ invites \in [Tokens -> OrgInvite \cup {NoInvite}]
  /\ request \in [Connections -> Request]
  /\ witness \in [Connections -> Witness]
  /\ admitted \subseteq [token : Tokens, user : Users, late : BOOLEAN]
  /\ AcceptsHaveInvites

\* Between the guard's two reads: the permission the caller has now is on record,
\* and so is the one it had, unless the role or its permissions changed since.
ReadsAreWitnessed(c) ==
  request[c].step = "member" =>
    /\ HasPermission(c) => witness[c].held
    /\ witness[c].moved \/ roleOf[request[c].user] = request[c].role
    /\ RequireOrgPermission[request[c].route] \in Resolve(request[c].role) =>
         witness[c].held \/ witness[c].regranted

\* The guard's argument: what holds between the reads gives what holds at the handler.
GuardInv ==
  /\ MemberTypes
  /\ \A c \in Connections : ReadsAreWitnessed(c)
  /\ AdmittedOnAuthority

\* Who was admitted is a member, by an invite that is used; an accept that looked
\* before another admitted the user, or used the invite, knows that it is late.
AcceptInv ==
  /\ MemberTypes
  /\ \A a \in admitted : roleOf[a.user] # "none" /\ invites[a.token].usedBy # {}
  /\ \A c \in Connections : request[c].step = "accept" /\ ~witness[c].late =>
       \A a \in admitted : a.token # request[c].token /\ a.user # request[c].user
  /\ AcceptedOnce

-------------------------------------------------------------------------------
(* Types *)

LEMMA RequestFields ==
  ASSUME NEW r \in Request
  PROVE  /\ r.step \in {"idle", "guard", "member", "handler", "accept"}
         /\ r.step = "idle" => r = Idle
         /\ r.step \in {"guard", "member", "handler"} => r.route \in Routes /\ r.user \in Users
         /\ r.step = "member" => r.role \in Roles
         /\ r.step = "accept" =>
              r.token \in Tokens /\ r.user \in Users /\ r.role \in ManageableRoles
  BY DEF Request, Idle

LEMMA GotoMoves ==
  ASSUME MemberTypes, NEW c \in Connections, NEW stage \in Request, Goto(c, stage)
  PROVE  /\ request' \in [Connections -> Request]
         /\ request'[c] = stage
         /\ \A d \in Connections : d # c => request'[d] = request[d]
  BY DEF Goto, MemberTypes

LEMMA IdleIsRequest == Idle \in Request /\ Idle.step = "idle"
  BY DEF Idle, Request

LEMMA SeenTypes ==
  ASSUME MemberTypes, NEW c \in Connections
  PROVE  Seen(c) \in Witness
<1>1. witness[c] \in Witness
  BY DEF MemberTypes
<1>2. NoWitness \in Witness
  BY DEF NoWitness, Witness
<1>3. /\ \A b \in BOOLEAN : [NoWitness EXCEPT !.held = b] \in Witness
      /\ \A b \in BOOLEAN : [NoWitness EXCEPT !.late = b] \in Witness
  BY DEF NoWitness, Witness
<1>4. \A b1, b2, b3 \in BOOLEAN :
        [held |-> b1, moved |-> b2, regranted |-> b3, late |-> FALSE] \in Witness
  BY DEF Witness
<1>5. HasPermission(c)' \in BOOLEAN /\ OvertakesAccept(c) \in BOOLEAN
  BY DEF HasPermission, Holds, OvertakesAccept
<1>6. (witness[c].late \/ OvertakesAccept(c)) \in BOOLEAN
  OBVIOUS
<1>7. /\ (witness[c].held \/ HasPermission(c)') \in BOOLEAN
      /\ (witness[c].moved \/ roleOf'[request[c].user] # roleOf[request[c].user]) \in BOOLEAN
      /\ (witness[c].regranted \/ Resolve(request[c].role)' # Resolve(request[c].role)) \in BOOLEAN
  OBVIOUS
<1> QED
  BY <1>1, <1>2, <1>3, <1>4, <1>5, <1>6, <1>7 DEF Seen

LEMMA MemberTypesInit == MembershipInit => MemberTypes
  BY IdleIsRequest
     DEF MembershipInit, MemberTypes, AcceptsHaveInvites, DefaultRolePermissions, ManageableRoles,
         OrgPermissions, NoWitness, Witness

\* What a step makes of one request.
RequestMoves(c) ==
  \/ request'[c] = request[c]
  \/ request'[c].step \in {"idle", "guard"}
  \/ /\ request[c].step = "guard" /\ roleOf[request[c].user] # "none"
     /\ request'[c] = [step |-> "member", route |-> request[c].route,
                       user |-> request[c].user, role |-> roleOf[request[c].user]]
     /\ UNCHANGED <<tenant, admitted>>
  \/ /\ request[c].step = "member"
     /\ RequireOrgPermission[request[c].route] \in Resolve(request[c].role)
     /\ request'[c] = [step |-> "handler", route |-> request[c].route, user |-> request[c].user]
     /\ UNCHANGED <<tenant, admitted>>
  \/ \E u \in Users, t \in Tokens :
       /\ invites[t] # NoInvite /\ invites[t].usedBy = {} /\ roleOf[u] = "none"
       /\ request[c] = Idle
       /\ request'[c] = [step |-> "accept", token |-> t, user |-> u, role |-> invites[t].role]
       /\ UNCHANGED <<tenant, admitted>>

LEMMA GuardMoves ==
  ASSUME MemberTypes, NEW c \in Connections, Guard(c)
  PROVE  /\ request' \in [Connections -> Request] /\ UNCHANGED <<tenant, admitted>>
         /\ \A d \in Connections : RequestMoves(d)
<1>0. \A d \in Connections : d # c /\ request'[d] = request[d] => RequestMoves(d)
  BY DEF RequestMoves
<1>1. CASE ReadRole(c)
  <2>1. request[c].user \in Users /\ request[c].route \in Routes
    BY <1>1, RequestFields DEF ReadRole, MemberTypes
  <2> DEFINE stage == [step |-> "member", route |-> request[c].route, user |-> request[c].user,
                       role |-> roleOf[request[c].user]]
  <2>2. CASE roleOf[request[c].user] = "none"
    <3>1. Goto(c, Idle) /\ UNCHANGED <<tenant, admitted>>
      BY <1>1, <2>2 DEF ReadRole
    <3>2. RequestMoves(c)
      BY <3>1, GotoMoves, IdleIsRequest DEF RequestMoves
    <3> QED
      BY <1>0, <3>1, <3>2, GotoMoves, IdleIsRequest
  <2>3. CASE roleOf[request[c].user] # "none"
    <3>1. stage \in Request
      BY <2>1, <2>3 DEF MemberTypes, Request
    <3>2. Goto(c, stage) /\ UNCHANGED <<tenant, admitted>> /\ request[c].step = "guard"
      BY <1>1, <2>3 DEF ReadRole
    <3>3. RequestMoves(c)
      BY <2>3, <3>1, <3>2, GotoMoves DEF RequestMoves
    <3> QED
      BY <1>0, <3>1, <3>2, <3>3, GotoMoves
  <2> QED
    BY <2>2, <2>3
<1>2. CASE ReadGrants(c)
  <2>1. request[c].user \in Users /\ request[c].route \in Routes
    BY <1>2, RequestFields DEF ReadGrants, MemberTypes
  <2> DEFINE stage == [step |-> "handler", route |-> request[c].route, user |-> request[c].user]
             May == RequireOrgPermission[request[c].route] \in Resolve(request[c].role)
  <2>2. CASE ~May
    <3>1. Goto(c, Idle) /\ UNCHANGED <<tenant, admitted>>
      BY <1>2, <2>2 DEF ReadGrants
    <3>2. RequestMoves(c)
      BY <3>1, GotoMoves, IdleIsRequest DEF RequestMoves
    <3> QED
      BY <1>0, <3>1, <3>2, GotoMoves, IdleIsRequest
  <2>3. CASE May
    <3>1. stage \in Request
      BY <2>1 DEF Request
    <3>2. Goto(c, stage) /\ UNCHANGED <<tenant, admitted>> /\ request[c].step = "member"
      BY <1>2, <2>3 DEF ReadGrants
    <3>3. RequestMoves(c)
      BY <2>3, <3>1, <3>2, GotoMoves DEF RequestMoves
    <3> QED
      BY <1>0, <3>1, <3>2, <3>3, GotoMoves
  <2> QED
    BY <2>2, <2>3
<1>3. ASSUME NEW u \in Users, NEW route \in Routes, Arrive(c, u, route)
      PROVE  /\ request' \in [Connections -> Request] /\ UNCHANGED <<tenant, admitted>>
             /\ \A d \in Connections : RequestMoves(d)
  <2> DEFINE stage == [step |-> "guard", route |-> route, user |-> u]
  <2>1. stage \in Request /\ stage.step = "guard"
    BY DEF Request
  <2>2. Goto(c, stage) /\ UNCHANGED <<tenant, admitted>>
    BY <1>3 DEF Arrive
  <2> HIDE DEF stage
  <2>3. RequestMoves(c)
    BY <2>1, <2>2, GotoMoves DEF RequestMoves
  <2> QED
    BY <1>0, <2>1, <2>2, <2>3, GotoMoves
<1> QED
  BY <1>1, <1>2, <1>3 DEF Guard

\* A step in which no request gets further than Idle, but for one that looked at an
\* invite.
LEMMA EndMoves ==
  ASSUME MemberTypes, NEW c \in Connections, Goto(c, Idle)
  PROVE  request' \in [Connections -> Request] /\ \A d \in Connections : RequestMoves(d)
<1>1. \A d \in Connections : request'[d] = request[d] \/ request'[d].step = "idle"
  BY GotoMoves, IdleIsRequest
<1> QED
  BY <1>1, GotoMoves, IdleIsRequest DEF RequestMoves

LEMMA FindMoves ==
  ASSUME MemberTypes, NEW c \in Connections, NEW u \in Users, NEW t \in Tokens, FindInvite(c, u, t)
  PROVE  request' \in [Connections -> Request] /\ \A d \in Connections : RequestMoves(d)
<1> DEFINE stage == [step |-> "accept", token |-> t, user |-> u, role |-> invites[t].role]
<1>1. invites[t].role \in ManageableRoles
  BY DEF FindInvite, MemberTypes, OrgInvite
<1>2. stage \in Request
  BY <1>1 DEF Request
<1>3. Goto(c, stage) /\ UNCHANGED <<tenant, admitted>>
  BY DEF FindInvite
<1>4. request' \in [Connections -> Request] /\ request'[c] = stage
      /\ \A d \in Connections : d # c => request'[d] = request[d]
  BY <1>2, <1>3, GotoMoves
<1>5. RequestMoves(c)
  BY <1>3, <1>4 DEF FindInvite, RequestMoves
<1> QED
  BY <1>4, <1>5 DEF RequestMoves

\* What an accept leaves in the history.
Entry(d) == [token |-> request[d].token, user |-> request[d].user, late |-> witness[d].late]

\* What a step makes of the rest: members stay members and invites stay invites.
TenantMoves ==
  /\ roleOf' \in [Users -> Roles \cup {"none"}]
  /\ grants' \in [ManageableRoles -> SUBSET OrgPermissions]
  /\ invites' \in [Tokens -> OrgInvite \cup {NoInvite}]
  /\ admitted' \subseteq [token : Tokens, user : Users, late : BOOLEAN]
  /\ \A u \in Users : roleOf[u] # "none" => roleOf'[u] # "none"
  /\ \A u \in Users : roleOf'[u] # roleOf[u] => roleOf'[u] \in ManageableRoles
  /\ \A t \in Tokens : invites[t] # NoInvite => invites'[t] # NoInvite
  /\ \A t \in Tokens : invites[t].usedBy # {} => invites'[t].usedBy # {}
  /\ grants' = grants \/ \E c \in Connections : Admitted(c, "updateRolePermissions")
  /\ \/ admitted' = admitted
     \/ \E d \in Connections :
          /\ AcceptInvite(d)
          /\ admitted' = admitted \cup {Entry(d)}
          /\ roleOf'[request[d].user] # "none" /\ invites'[request[d].token].usedBy # {}

LEMMA TenantAside ==
  ASSUME MemberTypes, UNCHANGED <<tenant, admitted>>
  PROVE  TenantMoves
  BY DEF MemberTypes, TenantMoves, tenant

LEMMA InvitesAreNot == \A i \in OrgInvite : i # NoInvite
  BY DEF OrgInvite, NoInvite, ManageableRoles

LEMMA CommandMoves ==
  ASSUME MemberTypes, NEW c \in Connections, Command(c)
  PROVE  /\ request' \in [Connections -> Request] /\ \A d \in Connections : RequestMoves(d)
         /\ TenantMoves
<1>1. ASSUME NEW u \in Users, NEW role \in ManageableRoles, UpdateMemberRole(c, u, role)
      PROVE  Goto(c, Idle) /\ TenantMoves
  <2>1. roleOf' = [roleOf EXCEPT ![u] = role] /\ UNCHANGED <<grants, invites, admitted>>
    BY <1>1 DEF UpdateMemberRole
  <2>2. role # "none" /\ role \in Roles
    BY DEF ManageableRoles, Roles
  <2> QED
    BY <1>1, <2>1, <2>2 DEF UpdateMemberRole, TenantMoves, MemberTypes
<1>2. ASSUME NEW t \in Tokens, NEW role \in ManageableRoles, CreateInvite(c, t, role)
      PROVE  Goto(c, Idle) /\ TenantMoves
  <2> DEFINE invite == [role |-> role, expired |-> FALSE, usedBy |-> {}]
  <2>1. invite \in OrgInvite
    BY DEF OrgInvite
  <2>2. invites' = [invites EXCEPT ![t] = invite] /\ UNCHANGED <<roleOf, grants, admitted>>
    BY <1>2 DEF CreateInvite
  <2>4. invites[t].usedBy = {}
    BY <1>2 DEF CreateInvite, NoInvite
  <2> HIDE DEF invite
  <2>3. invite # NoInvite
    BY <2>1, InvitesAreNot
  <2> QED
    BY <1>2, <2>1, <2>2, <2>3, <2>4 DEF CreateInvite, TenantMoves, MemberTypes
<1>3. ASSUME NEW role \in ManageableRoles, NEW permissions \in SUBSET OrgPermissions,
             UpdateRolePermissions(c, role, permissions)
      PROVE  Goto(c, Idle) /\ TenantMoves
  BY <1>3 DEF UpdateRolePermissions, TenantMoves, MemberTypes
<1>4. CASE AcceptInvite(c)
  <2> DEFINE t == request[c].token
             u == request[c].user
  <2>1. t \in Tokens /\ u \in Users /\ request[c].role \in ManageableRoles
    BY <1>4, RequestFields DEF AcceptInvite, MemberTypes
  <2>2. /\ Goto(c, Idle)
        /\ roleOf' = [roleOf EXCEPT ![u] = request[c].role]
        /\ invites' = [invites EXCEPT ![t].usedBy = {u}]
        /\ admitted' = admitted \cup {Entry(c)}
        /\ UNCHANGED grants
    BY <1>4 DEF AcceptInvite, Entry
  <2>3. invites[t] \in OrgInvite
    BY <1>4, <2>1 DEF AcceptInvite, MemberTypes, AcceptsHaveInvites
  <2> DEFINE used == [invites[t] EXCEPT !.usedBy = {u}]
  <2>4. used \in OrgInvite /\ used.usedBy = {u} /\ invites' = [invites EXCEPT ![t] = used]
    BY <2>1, <2>2, <2>3 DEF OrgInvite
  <2> HIDE DEF used
  <2>5. /\ invites' \in [Tokens -> OrgInvite \cup {NoInvite}]
        /\ \A s \in Tokens : invites[s] # NoInvite => invites'[s] # NoInvite
        /\ \A s \in Tokens : invites[s].usedBy # {} => invites'[s].usedBy # {}
        /\ invites'[t].usedBy # {}
    BY <2>1, <2>4, InvitesAreNot DEF MemberTypes
  <2>6. Entry(c) \in [token : Tokens, user : Users, late : BOOLEAN]
    BY <2>1 DEF Entry, MemberTypes, Witness
  <2>7. /\ roleOf' \in [Users -> Roles \cup {"none"}]
        /\ \A v \in Users : roleOf[v] # "none" => roleOf'[v] # "none"
        /\ \A v \in Users : roleOf'[v] # roleOf[v] => roleOf'[v] \in ManageableRoles
        /\ roleOf'[u] # "none"
    BY <2>1, <2>2 DEF MemberTypes, Roles, ManageableRoles
  <2> QED
    <3>1. grants' \in [ManageableRoles -> SUBSET OrgPermissions] /\ grants' = grants
      BY <2>2 DEF MemberTypes
    <3>2. admitted' \subseteq [token : Tokens, user : Users, late : BOOLEAN]
      BY <2>2, <2>6 DEF MemberTypes
    <3>3. /\ AcceptInvite(c) /\ admitted' = admitted \cup {Entry(c)}
          /\ roleOf'[request[c].user] # "none" /\ invites'[request[c].token].usedBy # {}
      BY <1>4, <2>2, <2>5, <2>7
    <3> HIDE DEF t, u
    <3>4. TenantMoves
      BY <2>5, <2>7, <3>1, <3>2, <3>3 DEF TenantMoves
    <3> QED
      BY <2>2, <3>4, EndMoves
<1>5. CASE Abort(c)
  BY <1>5, TenantAside, EndMoves DEF Abort
<1>6. ASSUME NEW u \in Users, NEW t \in Tokens, FindInvite(c, u, t)
      PROVE  /\ request' \in [Connections -> Request] /\ \A d \in Connections : RequestMoves(d)
             /\ TenantMoves
  BY <1>6, FindMoves, TenantAside DEF FindInvite
<1> QED
  BY <1>1, <1>2, <1>3, <1>4, <1>5, <1>6, EndMoves DEF Command

LEMMA ExpiryMoves ==
  ASSUME MemberTypes, NEW t \in Tokens, InviteExpires(t)
  PROVE  /\ TenantMoves /\ UNCHANGED <<roleOf, grants, request, admitted>>
         /\ \A s \in Tokens : invites'[s].usedBy = invites[s].usedBy
<1>1. invites[t] \in OrgInvite
  BY DEF InviteExpires, MemberTypes
<1> DEFINE invite == [invites[t] EXCEPT !.expired = TRUE]
<1>2. invite \in OrgInvite /\ invite.usedBy = invites[t].usedBy
  BY <1>1 DEF OrgInvite
<1>3. invites' = [invites EXCEPT ![t] = invite] /\ UNCHANGED <<roleOf, grants, request, admitted>>
  BY DEF InviteExpires
<1> HIDE DEF invite
<1>4. invite # NoInvite
  BY <1>2, InvitesAreNot
<1> QED
  BY <1>2, <1>3, <1>4 DEF TenantMoves, MemberTypes

LEMMA StepMoves ==
  ASSUME MemberTypes, MembershipNext
  PROVE  /\ request' \in [Connections -> Request] /\ \A c \in Connections : RequestMoves(c)
         /\ TenantMoves
         /\ witness' = [c \in Connections |-> Seen(c)]
<1>1. ASSUME NEW t \in Tokens, InviteExpires(t)
      PROVE  /\ request' \in [Connections -> Request] /\ \A c \in Connections : RequestMoves(c)
             /\ TenantMoves
  BY <1>1, ExpiryMoves DEF RequestMoves, MemberTypes
<1> QED
  BY <1>1, GuardMoves, CommandMoves, TenantAside DEF MembershipNext, Watch

LEMMA MemberTypesNext ==
  ASSUME MemberTypes, [MembershipNext]_mvars
  PROVE  MemberTypes'
<1>1. CASE UNCHANGED mvars
  BY <1>1 DEF MemberTypes, AcceptsHaveInvites, mvars, tenant
<1>2. CASE MembershipNext
  <2>1. witness' \in [Connections -> Witness]
    BY <1>2, StepMoves, SeenTypes
  <2>2. ASSUME NEW c \in Connections, request'[c].step = "accept"
        PROVE  invites'[request'[c].token] # NoInvite
    <3>1. CASE request'[c] = request[c]
      <4>1. request[c].token \in Tokens /\ invites[request[c].token] # NoInvite
        BY <2>2, <3>1, RequestFields DEF MemberTypes, AcceptsHaveInvites
      <4> QED
        BY <1>2, <3>1, <4>1, StepMoves DEF TenantMoves
    <3>2. CASE request'[c] # request[c]
      <4>1. PICK u \in Users, t \in Tokens :
              /\ invites[t] # NoInvite
              /\ request'[c] = [step |-> "accept", token |-> t, user |-> u, role |-> invites[t].role]
        BY <1>2, <2>2, <3>2, StepMoves DEF RequestMoves
      <4> QED
        BY <1>2, <4>1, StepMoves DEF TenantMoves
    <3> QED
      BY <3>1, <3>2
  <2> QED
    BY <1>2, <2>1, <2>2, StepMoves DEF TenantMoves, MemberTypes, AcceptsHaveInvites
<1> QED
  BY <1>1, <1>2

-------------------------------------------------------------------------------
(* Once locked out, always locked out *)

LEMMA LockOutStep ==
  ASSUME MemberTypes, MembershipNext, LockedOut
  PROVE  LockedOut'
<1>1. \A u \in Users : roleOf'[u] # "OWNER"
  BY StepMoves DEF TenantMoves, LockedOut, ManageableRoles
<1>2. grants' = grants
  BY StepMoves DEF TenantMoves, LockedOut
<1>3. ASSUME NEW c \in Connections
      PROVE  /\ ~Admitted(c, "updateRolePermissions")'
             /\ request'[c].step = "member" => request'[c].role # "OWNER"
  <2>1. CASE request'[c] = request[c]
    BY <2>1 DEF LockedOut, Admitted
  <2>2. CASE request[c].step = "guard" /\ request'[c].step = "member"
    <3>1. request'[c].role = roleOf[request[c].user]
      BY <2>2, StepMoves DEF RequestMoves
    <3>2. request[c] \in Request
      BY DEF MemberTypes
    <3>3. request[c].user \in Users
      BY <2>2, <3>2, RequestFields
    <3> QED
      BY <2>2, <3>1, <3>3 DEF LockedOut, Admitted
  <2>3. CASE request[c].step = "member" /\ request'[c].step = "handler"
    <3>0. request[c] \in Request
      BY DEF MemberTypes
    <3>1. /\ request'[c].route = request[c].route
          /\ RequireOrgPermission[request[c].route] \in Resolve(request[c].role)
          /\ request[c].role \in Roles \ {"OWNER"}
      <4>1. request[c].role \in Roles /\ request[c].role # "OWNER"
        BY <2>3, <3>0, RequestFields DEF LockedOut
      <4>2. /\ request'[c].route = request[c].route
            /\ RequireOrgPermission[request[c].route] \in Resolve(request[c].role)
        BY <2>3, StepMoves DEF RequestMoves
      <4> QED
        BY <4>1, <4>2
    <3>2. Resolve(request[c].role) = grants[request[c].role] /\ request[c].role \in ManageableRoles
      BY <3>1 DEF Resolve, Roles, ManageableRoles
    <3>3. request[c].route # "updateRolePermissions"
      BY <3>1, <3>2 DEF LockedOut, RequireOrgPermission
    <3> QED
      BY <2>3, <3>1, <3>3 DEF Admitted
  <2>4. CASE request'[c].step \in {"idle", "guard", "accept"}
    BY <2>4 DEF Admitted
  <2> QED
    BY <2>1, <2>2, <2>3, <2>4, StepMoves DEF RequestMoves
<1> QED
  BY <1>1, <1>2, <1>3 DEF LockedOut

-------------------------------------------------------------------------------
(* What the guard has seen *)

LEMMA SeenIs ==
  ASSUME NEW c \in Connections
  PROVE  /\ request[c].step = "guard" /\ request'[c].step = "member" =>
              Seen(c) = [NoWitness EXCEPT !.held = HasPermission(c)']
         /\ request[c].step = "member" /\ request'[c].step = "member" =>
              /\ Seen(c).held = (witness[c].held \/ HasPermission(c)')
              /\ Seen(c).moved = (witness[c].moved \/ roleOf'[request[c].user] # roleOf[request[c].user])
              /\ Seen(c).regranted =
                   (witness[c].regranted \/ Resolve(request[c].role)' # Resolve(request[c].role))
         /\ request'[c].step = "handler" => Seen(c) = witness[c]
         /\ request[c].step = "accept" /\ request'[c].step = "accept" =>
              Seen(c).late = (witness[c].late \/ OvertakesAccept(c))
  BY DEF Seen, NoWitness

LEMMA ReadsNext ==
  ASSUME GuardInv, MembershipNext, NEW c \in Connections, request'[c].step = "member"
  PROVE  ReadsAreWitnessed(c)'
<1>1. CASE request'[c] = request[c]
  <2>1. /\ witness'[c].held = (witness[c].held \/ HasPermission(c)')
        /\ witness'[c].moved = (witness[c].moved \/ roleOf'[request[c].user] # roleOf[request[c].user])
        /\ witness'[c].regranted =
             (witness[c].regranted \/ Resolve(request[c].role)' # Resolve(request[c].role))
    BY <1>1, SeenIs, StepMoves DEF GuardInv
  <2> QED
    BY <1>1, <2>1 DEF GuardInv, ReadsAreWitnessed
<1>2. CASE request'[c] # request[c]
  <2>1. /\ request[c].step = "guard"
        /\ request'[c].role = roleOf[request[c].user] /\ request'[c].user = request[c].user
        /\ roleOf' = roleOf
    BY <1>2, StepMoves DEF GuardInv, RequestMoves, tenant
  <2>2. witness'[c].held = HasPermission(c)'
    BY <2>1, SeenIs, StepMoves DEF GuardInv, NoWitness
  <2> QED
    BY <2>1, <2>2 DEF ReadsAreWitnessed, HasPermission, Holds
<1> QED
  BY <1>1, <1>2

LEMMA GuardNext == GuardInv /\ [MembershipNext]_mvars => GuardInv'
<1> SUFFICES ASSUME GuardInv, [MembershipNext]_mvars PROVE GuardInv'
  OBVIOUS
<1>1. MemberTypes'
  BY MemberTypesNext DEF GuardInv
<1>2. CASE UNCHANGED mvars
  BY <1>1, <1>2 DEF GuardInv, ReadsAreWitnessed, AdmittedOnAuthority, HasPermission, Holds,
     Resolve, mvars, tenant
<1>3. CASE MembershipNext
  <2>1. \A c \in Connections : ReadsAreWitnessed(c)'
    BY <1>3, ReadsNext DEF ReadsAreWitnessed
  <2>2. ASSUME NEW c \in Connections, request'[c].step = "handler"
        PROVE  witness'[c].held \/ (witness'[c].moved /\ witness'[c].regranted)
    <3>1. witness'[c] = witness[c]
      BY <1>3, <2>2, SeenIs, StepMoves DEF GuardInv
    <3>2. CASE request'[c] = request[c]
      BY <2>2, <3>1, <3>2 DEF GuardInv, AdmittedOnAuthority
    <3>3. CASE request'[c] # request[c]
      <4>1. /\ request[c].step = "member"
            /\ RequireOrgPermission[request[c].route] \in Resolve(request[c].role)
        BY <1>3, <2>2, <3>3, StepMoves DEF GuardInv, RequestMoves
      <4>2. ReadsAreWitnessed(c)
        BY DEF GuardInv
      <4> QED
        BY <3>1, <4>1, <4>2 DEF ReadsAreWitnessed, HasPermission, Holds
    <3> QED
      BY <3>2, <3>3
  <2> QED
    BY <1>1, <2>1, <2>2 DEF GuardInv, AdmittedOnAuthority
<1> QED
  BY <1>2, <1>3

LEMMA GuardInit == MembershipInit => GuardInv
  BY MemberTypesInit, IdleIsRequest DEF MembershipInit, GuardInv, ReadsAreWitnessed, AdmittedOnAuthority

-------------------------------------------------------------------------------
(* What accepts know of each other *)

LEMMA AcceptNext == AcceptInv /\ [MembershipNext]_mvars => AcceptInv'
<1> SUFFICES ASSUME AcceptInv, [MembershipNext]_mvars PROVE AcceptInv'
  OBVIOUS
<1>1. MemberTypes'
  BY MemberTypesNext DEF AcceptInv
<1>2. CASE UNCHANGED mvars
  BY <1>1, <1>2 DEF AcceptInv, AcceptedOnce, mvars, tenant
<1>3. CASE MembershipNext
  <2>0. MemberTypes /\ TenantMoves /\ \A c \in Connections : RequestMoves(c)
    BY <1>3, StepMoves DEF AcceptInv
  <2>1. \/ admitted' = admitted
        \/ \E d \in Connections :
             /\ AcceptInvite(d)
             /\ admitted' = admitted \cup {Entry(d)}
             /\ roleOf'[request[d].user] # "none" /\ invites'[request[d].token].usedBy # {}
    BY <2>0 DEF TenantMoves
  <2>2. \A a \in admitted : a.token \in Tokens /\ a.user \in Users
    BY <2>0 DEF MemberTypes
  <2>3. \A d \in Connections :
          Entry(d).token = request[d].token /\ Entry(d).user = request[d].user
          /\ Entry(d).late = witness[d].late
    BY DEF Entry
  <2>4. \A a \in admitted' : roleOf'[a.user] # "none" /\ invites'[a.token].usedBy # {}
    <3>1. \A a \in admitted : roleOf'[a.user] # "none" /\ invites'[a.token].usedBy # {}
      BY <2>0, <2>2 DEF AcceptInv, TenantMoves
    <3> QED
      BY <2>1, <2>3, <3>1
  <2>5. ASSUME NEW c \in Connections, request'[c].step = "accept", ~witness'[c].late,
               NEW a \in admitted'
        PROVE  a.token # request'[c].token /\ a.user # request'[c].user
    <3>1. CASE request'[c] = request[c]
      <4>1. ~witness[c].late /\ ~OvertakesAccept(c)
        <5>1. witness'[c] = Seen(c)
          BY <1>3, <2>0, StepMoves
        <5>2. request[c].step = "accept"
          BY <2>5, <3>1
        <5> QED
          BY <2>5, <5>1, <5>2, SeenIs
      <4>2. CASE a \in admitted
        BY <2>5, <3>1, <4>1, <4>2 DEF AcceptInv
      <4>3. CASE a \notin admitted
        <5>1. PICK d \in Connections : AcceptInvite(d) /\ a = Entry(d)
          BY <2>1, <2>5, <4>3
        <5>2. d # c
          <6>1. request'[d] = Idle
            BY <2>0, <5>1, GotoMoves, IdleIsRequest DEF AcceptInvite
          <6> QED
            BY <2>5, <6>1, IdleIsRequest
        <5> QED
          BY <2>3, <3>1, <4>1, <5>1, <5>2 DEF OvertakesAccept
      <4> QED
        BY <4>2, <4>3
    <3>2. CASE request'[c] # request[c]
      <4>1. PICK u \in Users, t \in Tokens :
              /\ invites[t].usedBy = {} /\ roleOf[u] = "none"
              /\ request'[c].token = t /\ request'[c].user = u
              /\ admitted' = admitted
        <5>1. RequestMoves(c)
          BY <2>0
        <5>2. \E u \in Users, t \in Tokens :
                /\ invites[t].usedBy = {} /\ roleOf[u] = "none"
                /\ request'[c] = [step |-> "accept", token |-> t, user |-> u, role |-> invites[t].role]
                /\ admitted' = admitted
          BY <2>5, <3>2, <5>1 DEF RequestMoves
        <5> QED
          BY <5>2
      <4>2. roleOf[a.user] # "none" /\ invites[a.token].usedBy # {}
        BY <2>5, <4>1 DEF AcceptInv
      <4> QED
        BY <4>1, <4>2
    <3> QED
      BY <3>1, <3>2
  <2>6. AcceptedOnce'
    <3>1. ASSUME NEW d \in Connections, AcceptInvite(d), ~witness[d].late, NEW a \in admitted
          PROVE  a.token # request[d].token /\ a.user # request[d].user
      BY <3>1 DEF AcceptInv, AcceptInvite
    <3>2. ASSUME NEW a \in admitted', NEW b \in admitted', a # b, ~a.late, ~b.late
          PROVE  a.token # b.token /\ a.user # b.user
      BY <2>1, <2>3, <3>1, <3>2 DEF AcceptInv, AcceptedOnce
    <3> QED
      BY <3>2 DEF AcceptedOnce
  <2> QED
    BY <1>1, <2>4, <2>5, <2>6 DEF AcceptInv
<1> QED
  BY <1>2, <1>3

LEMMA AcceptInit == MembershipInit => AcceptInv
  BY MemberTypesInit, IdleIsRequest DEF MembershipInit, AcceptInv, AcceptedOnce

-------------------------------------------------------------------------------

\* Every reachable state of the organisation is well formed.
THEOREM MembershipTypeCorrect == MembershipSpec => []MembershipTypeOK
<1> DEFINE Bounded == requests \in 0 .. MaxRequests
<1>1. MembershipInit => MemberTypes /\ Bounded
  BY MemberTypesInit, MembershipAssumption DEF MembershipInit
<1>2. MembershipNext => Begin \/ requests' = requests
  BY DEF MembershipNext, Guard, Command, Arrive, ReadRole, ReadGrants, UpdateMemberRole,
     CreateInvite, UpdateRolePermissions, FindInvite, AcceptInvite, Abort, InviteExpires
<1>3. Bounded /\ [MembershipNext]_mvars => Bounded'
  BY <1>2, MembershipAssumption DEF Begin, mvars
<1>4. MemberTypes /\ [MembershipNext]_mvars => MemberTypes'
  BY MemberTypesNext
<1>5. MemberTypes /\ Bounded => MembershipTypeOK
  BY DEF MemberTypes, MembershipTypeOK
<1> QED
  BY <1>1, <1>3, <1>4, <1>5, PTL DEF MembershipSpec

\* Of the accepts that share an invite or a user, all but the first were overtaken
\* between their checks and their commit, for any number of users, invites and
\* requests.
THEOREM AcceptsSafe == MembershipSpec => []AcceptedOnce
<1>1. AcceptInv => AcceptedOnce
  BY DEF AcceptInv
<1> QED
  BY <1>1, AcceptInit, AcceptNext, PTL DEF MembershipSpec

\* The guard lets nobody through who lacked the permission at every moment of its
\* reads, unless the caller's role and the permissions of the role that was read
\* both changed in between.
THEOREM AdmissionSafe == MembershipSpec => []AdmittedOnAuthority
<1>1. GuardInv => AdmittedOnAuthority
  BY DEF GuardInv
<1> QED
  BY <1>1, GuardInit, GuardNext, PTL DEF MembershipSpec

\* An organisation in which nobody can manage roles stays so.
THEOREM LockOutStays == MembershipSpec => LockOutIsFinal
<1>1. MemberTypes /\ [MembershipNext]_mvars
        => (LockedOut => LockedOut')
  <2> SUFFICES ASSUME MemberTypes, [MembershipNext]_mvars, LockedOut
               PROVE  LockedOut'
    OBVIOUS
  <2>1. CASE UNCHANGED mvars
    BY <2>1 DEF LockedOut, Admitted, mvars, tenant
  <2>2. CASE MembershipNext
    BY <2>2, LockOutStep
  <2> QED
    BY <2>1, <2>2
<1>2. MembershipInit => MemberTypes
  BY MemberTypesInit
<1>3. MemberTypes /\ [MembershipNext]_mvars => MemberTypes'
  BY MemberTypesNext
<1> QED
  BY <1>1, <1>2, <1>3, PTL DEF MembershipSpec, LockOutIsFinal
===============================================================================
