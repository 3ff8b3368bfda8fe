------------------------------ MODULE Memberships ------------------------------
(***************************************************************************)
(* The members of one organisation: invites, accepts, role changes, and    *)
(* the guard in front of them (src/modules/tenant, OrgGuard).  The guard   *)
(* reads the caller's role and then that role's permissions, outside any   *)
(* transaction; the handler runs later, as a transaction of its own.       *)
(* Transactions are READ COMMITTED, so an accept writes on what it found.  *)
(* Dropping the cached membership after the commit is left out: it goes    *)
(* the way of the cached permissions in RolePermissions.                   *)
(***************************************************************************)
EXTENDS Naturals

CONSTANTS
  Users,
  Founder,      \* for whom CreateOrg was run
  Tokens,       \* of invites
  Connections,  \* requests in progress at the same time
  MaxRequests   \* bound: requests begun

ASSUME MembershipAssumption ==
  /\ Founder \in Users
  /\ MaxRequests \in Nat

VARIABLES
  roleOf,    \* the memberships: user -> role, or "none"
  grants,    \* org_role_permissions: role -> its permissions
  invites,   \* org_invites, by token
  request,   \* connection -> what it is at
  requests,  \* requests begun so far
  witness,   \* history: connection -> what happened during its request
  admitted   \* history: the accepts that have committed

tenant == <<roleOf, grants, invites>>

mvars == <<tenant, request, requests, witness, admitted>>

-------------------------------------------------------------------------------

\* Mutant of ManageableRoles: the schemas accept every role.
AnyRole == {"OWNER", "ADMIN", "MEMBER"}

\* ManageableOrgRole: what an invite or a role change can give.  GUEST is left
\* out; it differs from MEMBER in its permissions only.
ManageableRoles == {"ADMIN", "MEMBER"}

Roles == ManageableRoles \cup {"OWNER"}

\* The two permissions that guard what this module models.
OrgPermissions == {"ORG_MANAGE_MEMBERS", "ORG_MANAGE_ROLES"}

DefaultRolePermissions ==
  [role \in ManageableRoles |-> IF role = "ADMIN" THEN {"ORG_MANAGE_MEMBERS"} ELSE {}]

\* The routes of OrgController behind OrgGuard, and what each requires.
RequireOrgPermission ==
  [updateMemberRole |-> "ORG_MANAGE_MEMBERS",
   createInvite |-> "ORG_MANAGE_MEMBERS",
   updateRolePermissions |-> "ORG_MANAGE_ROLES"]

Routes == DOMAIN RequireOrgPermission

NoInvite == [role |-> "none", expired |-> FALSE, usedBy |-> {}]

OrgInvite == [role : ManageableRoles, expired : BOOLEAN,
              usedBy : {{}} \cup {{u} : u \in Users}]

Idle == [step |-> "idle"]

Request ==
  {Idle}
    \cup [step : {"guard"}, route : Routes, user : Users]
    \cup [step : {"member"}, route : Routes, user : Users, role : Roles]
    \cup [step : {"handler"}, route : Routes, user : Users]
    \cup [step : {"accept"}, token : Tokens, user : Users, role : ManageableRoles]

\* `held`: the caller had the permission at some moment since its role was read;
\* `moved`, `regranted`: its role, or the permissions of the role that was read,
\* changed since; `late`: another accept of the invite, or of the user, committed
\* since this one looked.
Witness == [held : BOOLEAN, moved : BOOLEAN, regranted : BOOLEAN, late : BOOLEAN]

NoWitness == [held |-> FALSE, moved |-> FALSE, regranted |-> FALSE, late |-> FALSE]

MembershipTypeOK ==
  /\ roleOf \in [Users -> Roles \cup {"none"}]
  /\ grants \in [ManageableRoles -> SUBSET OrgPermissions]
  /\ invites \in [Tokens -> OrgInvite \cup {NoInvite}]
  /\ request \in [Connections -> Request]
  /\ requests \in 0 .. MaxRequests
  /\ witness \in [Connections -> Witness]
  /\ admitted \subseteq [token : Tokens, user : Users, late : BOOLEAN]

\* CreateOrg has run, the permissions are still the seeded ones, and some users
\* have joined and some invites are out.
MembershipInit ==
  /\ roleOf \in [Users -> Roles \cup {"none"}]
  /\ \A u \in Users : roleOf[u] = "OWNER" <=> u = Founder
  /\ grants = DefaultRolePermissions
  /\ invites \in [Tokens -> {NoInvite} \cup {i \in OrgInvite : ~i.expired /\ i.usedBy = {}}]
  /\ request = [c \in Connections |-> Idle]
  /\ requests = 0
  /\ witness = [c \in Connections |-> NoWitness]
  /\ admitted = {}

Begin == requests < MaxRequests /\ requests' = requests + 1

Goto(c, stage) == request' = [request EXCEPT ![c] = stage]

-------------------------------------------------------------------------------
(* OrgGuard *)

\* OrgPermissionResolver.resolve().
Resolve(role) ==
  CASE role = "OWNER" -> OrgPermissions
    [] role \in ManageableRoles -> grants[role]
    [] OTHER -> {}

Holds(u, permission) == permission \in Resolve(roleOf[u])

Arrive(c, u, route) ==
  /\ request[c] = Idle
  /\ Begin
  /\ Goto(c, [step |-> "guard", route |-> route, user |-> u])
  /\ UNCHANGED <<tenant, admitted>>

\* findRoleByOrgAndUser(); who is no member is turned away.
ReadRole(c) ==
  LET u == request[c].user IN
  /\ request[c].step = "guard"
  /\ IF roleOf[u] = "none" THEN Goto(c, Idle)
     ELSE Goto(c, [step |-> "member", route |-> request[c].route, user |-> u, role |-> roleOf[u]])
  /\ UNCHANGED <<tenant, requests, admitted>>

\* Mutant of ReadGrants: a missing permission is found, and not acted on.
ReadGrantsOnly(c) ==
  /\ request[c].step = "member"
  /\ Goto(c, [step |-> "handler", route |-> request[c].route, user |-> request[c].user])
  /\ UNCHANGED <<tenant, requests, admitted>>

\* resolve(), and the required permission must be among what it returns.
ReadGrants(c) ==
  /\ request[c].step = "member"
  /\ IF RequireOrgPermission[request[c].route] \in Resolve(request[c].role)
     THEN Goto(c, [step |-> "handler", route |-> request[c].route, user |-> request[c].user])
     ELSE Goto(c, Idle)
  /\ UNCHANGED <<tenant, requests, admitted>>

Admitted(c, route) == request[c].step = "handler" /\ request[c].route = route

-------------------------------------------------------------------------------
(* Commands behind the guard *)

\* Find, changeRole() and save(): memberships are never deleted, so what was
\* found is still there, whatever its role, and its role is overwritten.
UpdateMemberRole(c, target, newRole) ==
  /\ Admitted(c, "updateMemberRole")
  /\ roleOf[target] # "none"
  /\ roleOf' = [roleOf EXCEPT ![target] = newRole]
  /\ Goto(c, Idle)
  /\ UNCHANGED <<grants, invites, requests, admitted>>

CreateInvite(c, t, role) ==
  /\ Admitted(c, "createInvite")
  /\ invites[t] = NoInvite
  /\ invites' = [invites EXCEPT ![t] = [role |-> role, expired |-> FALSE, usedBy |-> {}]]
  /\ Goto(c, Idle)
  /\ UNCHANGED <<roleOf, grants, requests, admitted>>

\* As one step: how two of them overlap is the subject of RolePermissions.
UpdateRolePermissions(c, role, permissions) ==
  /\ Admitted(c, "updateRolePermissions")
  /\ grants' = [grants EXCEPT ![role] = permissions]
  /\ Goto(c, Idle)
  /\ UNCHANGED <<roleOf, invites, requests, admitted>>

-------------------------------------------------------------------------------
(* AcceptInvite: a token is all it takes *)

\* Mutant of FindInvite: isUsed() is not asked.
FindAnyInvite(c, u, t) ==
  /\ request[c] = Idle
  /\ Begin
  /\ invites[t] # NoInvite /\ ~invites[t].expired
  /\ roleOf[u] = "none"
  /\ Goto(c, [step |-> "accept", token |-> t, user |-> u, role |-> invites[t].role])
  /\ UNCHANGED <<tenant, admitted>>

\* The checks.  As nobody stops being a member, who is none when the second
\* statement looks was none when the first one did.
FindInvite(c, u, t) ==
  /\ request[c] = Idle
  /\ Begin
  /\ invites[t] # NoInvite /\ ~invites[t].expired /\ invites[t].usedBy = {}
  /\ roleOf[u] = "none"
  /\ Goto(c, [step |-> "accept", token |-> t, user |-> u, role |-> invites[t].role])
  /\ UNCHANGED <<tenant, admitted>>

\* Both upserts and the commit.  A membership that is there by now gets the
\* invite's role, and an invite that is used by now gets a new user.
AcceptInvite(c) ==
  LET t == request[c].token u == request[c].user IN
  /\ request[c].step = "accept"
  /\ roleOf' = [roleOf EXCEPT ![u] = request[c].role]
  /\ invites' = [invites EXCEPT ![t].usedBy = {u}]
  /\ admitted' = admitted \cup {[token |-> t, user |-> u, late |-> witness[c].late]}
  /\ Goto(c, Idle)
  /\ UNCHANGED <<grants, requests>>

InviteExpires(t) ==
  /\ invites[t] # NoInvite /\ ~invites[t].expired
  /\ invites' = [invites EXCEPT ![t].expired = TRUE]
  /\ UNCHANGED <<roleOf, grants, request, requests, admitted>>

\* A request is refused by its handler, loses a race for a unique key or fails.
Abort(c) ==
  /\ request[c].step # "idle"
  /\ Goto(c, Idle)
  /\ UNCHANGED <<tenant, requests, admitted>>

-------------------------------------------------------------------------------
(* What the histories note down while the system takes a step *)

\* The caller of c has the permission that its route requires.
HasPermission(c) == Holds(request[c].user, RequireOrgPermission[request[c].route])

\* An accept other than c, of its invite or of its user, commits.
OvertakesAccept(c) ==
  \E d \in Connections \ {c} :
    /\ AcceptInvite(d)
    /\ request[d].token = request[c].token \/ request[d].user = request[c].user

Seen(c) ==
  CASE request[c].step = "guard" /\ request'[c].step = "member" ->
         [NoWitness EXCEPT !.held = HasPermission(c)']
    [] request[c].step = "member" /\ request'[c].step = "member" ->
         [held |-> witness[c].held \/ HasPermission(c)',
          moved |-> witness[c].moved \/ roleOf'[request[c].user] # roleOf[request[c].user],
          regranted |-> witness[c].regranted \/ Resolve(request[c].role)' # Resolve(request[c].role),
          late |-> FALSE]
    [] request'[c].step = "handler" -> witness[c]
    [] request[c].step = "accept" /\ request'[c].step = "accept" ->
         [NoWitness EXCEPT !.late = witness[c].late \/ OvertakesAccept(c)]
    [] OTHER -> NoWitness

Watch == witness' = [c \in Connections |-> Seen(c)]

-------------------------------------------------------------------------------

Guard(c) == ReadRole(c) \/ ReadGrants(c) \/ \E u \in Users, route \in Routes : Arrive(c, u, route)

Command(c) ==
  \/ \E u \in Users, role \in ManageableRoles : UpdateMemberRole(c, u, role)
  \/ \E t \in Tokens, role \in ManageableRoles : CreateInvite(c, t, role)
  \/ \E role \in ManageableRoles, permissions \in SUBSET OrgPermissions :
       UpdateRolePermissions(c, role, permissions)
  \/ \E u \in Users, t \in Tokens : FindInvite(c, u, t)
  \/ AcceptInvite(c) \/ Abort(c)

MembershipNext ==
  /\ \/ \E c \in Connections : Guard(c) \/ Command(c)
     \/ \E t \in Tokens : InviteExpires(t)
  /\ Watch

MembershipSpec == MembershipInit /\ [][MembershipNext]_mvars

-------------------------------------------------------------------------------
(* Properties *)

\* An invite admits one user and a user is admitted once, but for accepts that
\* were overtaken: "membership @@unique is the backstop" does not stop those, as
\* save() is an upsert.
AcceptedOnce ==
  \A a, b \in admitted :
    a # b /\ ~a.late /\ ~b.late => a.token # b.token /\ a.user # b.user

\* Whoever is let through to a handler had the permission at some moment while
\* the guard looked, unless the caller's role and the permissions of the role
\* that was read both changed between the guard's two reads.
AdmittedOnAuthority ==
  \A c \in Connections :
    request[c].step = "handler" =>
      witness[c].held \/ (witness[c].moved /\ witness[c].regranted)

\* Nobody can manage roles, no role would let anybody, and no request that was let
\* through, or is about to be, can change that.
LockedOut ==
  /\ \A u \in Users : roleOf[u] # "OWNER"
  /\ \A role \in ManageableRoles : "ORG_MANAGE_ROLES" \notin grants[role]
  /\ \A c \in Connections :
       /\ ~Admitted(c, "updateRolePermissions")
       /\ request[c].step = "member" => request[c].role # "OWNER"

\* "OWNER is implicit-all to prevent lock-out": a role change can demote the last
\* OWNER, and then the organisation is locked out for good.
LockOutIsFinal == [][LockedOut => LockedOut']_mvars
================================================================================
