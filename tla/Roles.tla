-------------------------------- MODULE Roles --------------------------------
(***************************************************************************)
(* Roles (Django groups), their permissions and ranks, and who may change  *)
(* them and the accounts that hold them.                                   *)
(*                                                                         *)
(* Everyone manages the roles, and the people holding them, ranked         *)
(* strictly below their own highest role; the top rank manages everything. *)
(* On /auth/me/ everyone sets the roles of their own account, among those  *)
(* they are shown.                                                         *)
(*                                                                         *)
(* A request reads its rows and passes its checks (Begin...), and writes   *)
(* some time later (End...): requests overlap, and nothing is locked or    *)
(* checked again between.                                                  *)
(***************************************************************************)
EXTENDS Naturals, FiniteSets

CONSTANTS
  Users, Superusers,  \* the accounts; those made by createsuperuser
  Groups,             \* bound: the group rows
  Names, NoName,      \* role names; the name of no role
  RankOf, Base, Top,  \* the rank of each role name; the lowest and the highest
  Permissions,
  Gate,               \* those the user and role screens ask for
  Matrix,             \* the permissions ROLE_PERMISSIONS declares, by role name
  Protected,          \* PROTECTED_ROLES
  Requests,           \* bound: requests in progress at once
  Holders, MaxHeld    \* bounds: accounts that may hold roles; memberships in all

Declared == DOMAIN Matrix

ASSUME ConstantsAssumption ==
  /\ Superusers \subseteq Users
  /\ NoName \notin Names
  /\ Base \in Nat \ {0} /\ Top \in Nat /\ Base < Top
  /\ RankOf \in [Names -> Base .. Top]
  /\ Gate \subseteq Permissions
  /\ Declared \subseteq Names
  /\ Matrix \in [Declared -> SUBSET Permissions]
  /\ Protected \subseteq Declared
  /\ \A n \in Names : RankOf[n] = Top => n \in Protected
  /\ IsFiniteSet(Groups)
  /\ Cardinality(Groups) >= Cardinality(Names)
  /\ Holders \subseteq Users /\ MaxHeld \in Nat

VARIABLES
  group,   \* the group rows: a name, and the permissions it grants
  member,  \* the groups each account holds
  status,  \* whether the account's row exists and is not soft-deleted
  req      \* requests that have passed their checks and not yet written

vars == <<group, member, status, req>>

Row == [name : Names \cup {NoName}, perms : SUBSET Permissions]
NoRow == [name |-> NoName, perms |-> {}]

NoRequest == [kind |-> "none", groups |-> {}]

\* rank is the one its checks found the actor to have; groups are the rows it
\* has in hand.
Request ==
  {NoRequest} \cup
  [kind : {"create", "roles", "me", "delete", "restore"}, actor : Users, rank : 0 .. Top,
   user : Users, groups : SUBSET Groups] \cup
  [kind : {"newRole", "editRole", "dropRole"}, actor : Users, rank : 0 .. Top,
   groups : SUBSET Groups, name : Names, perms : SUBSET Permissions, keep : BOOLEAN]

TypeOK ==
  /\ group \in [Groups -> Row]
  /\ member \in [Users -> SUBSET Groups]
  /\ status \in [Users -> {"absent", "live", "deleted"}]
  /\ req \in [Requests -> Request]

\* setup_roles has run; createsuperuser made the first accounts.
Init ==
  /\ group \in [Groups -> {NoRow} \cup {[name |-> n, perms |-> Matrix[n]] : n \in Declared}]
  /\ \A n \in Declared : \E g \in Groups : group[g].name = n
  /\ \A g, h \in Groups : group[g].name = group[h].name => g = h \/ group[g] = NoRow
  /\ member = [u \in Users |-> {}]
  /\ status = [u \in Users |-> IF u \in Superusers THEN "live" ELSE "absent"]
  /\ req = [q \in Requests |-> NoRequest]

-----------------------------------------------------------------------------
(* Ranks *)

Present(g) == group[g].name # NoName
\* A row to be created: a request in progress never finds its id given out again.
Free(g) == ~Present(g) /\ \A q \in Requests : g \notin req[q].groups
NameTaken(n) == \E g \in Groups : group[g].name = n

\* role_rank; NoName is never asked for.
RoleRank(n) == RankOf[n]

\* user_rank: that of the highest role; 0 without one.
Ranks(u) == {RoleRank(group[g].name) : g \in {h \in member[u] : Present(h)}}
UserRank(u) ==
  IF u \in Superusers THEN Top
  ELSE IF Ranks(u) = {} THEN 0
  ELSE CHOOSE r \in Ranks(u) : \A x \in Ranks(u) : x <= r

RankAllows(actorRank, rank) == actorRank = Top \/ actorRank > rank

ShownToAll(a, g) == Present(g)          \* Defect: no role is hidden.

\* hidden_role_names, as what is shown: names of BASE_RANK are never hidden.
Shown(a, g) ==
  /\ Present(g)
  /\ RoleRank(group[g].name) <= UserRank(a) \/ RoleRank(group[g].name) = Base

\* The users list leaves out holders of hidden roles, and superusers but for
\* the top rank.
ShownUser(a, u) ==
  \/ UserRank(a) = Top
  \/ u \notin Superusers /\ \A g \in member[u] : Shown(a, g)

\* get_all_permissions
Holds(u) == IF u \in Superusers THEN Permissions
            ELSE UNION {group[g].perms : g \in member[u]}

\* Signed in, and let through to the user and role screens.
Staff(a) == status[a] = "live" /\ Gate \subseteq Holds(a)

CanAssignGiven(a, before, after) ==     \* Defect: roles taken away are not looked at.
  \A g \in after \ before : RankAllows(UserRank(a), RoleRank(group[g].name))

\* assert_can_assign: every role given or taken away is outranked.
CanAssign(a, before, after) ==
  \A g \in (before \cup after) \ (before \cap after) :
    RankAllows(UserRank(a), RoleRank(group[g].name))

\* assert_can_manage_user: one's own account is the exception.
CanManageUser(a, u) == a = u \/ RankAllows(UserRank(a), UserRank(u))

CanGrantTaken(a, before, after) == before \ after \subseteq Holds(a)   \* Defect: the difference is the wrong way round.

\* assert_can_grant: only what is added must be held.
CanGrant(a, before, after) == after \ before \subseteq Holds(a)

CanCreateRole(a, n) == RankAllows(UserRank(a), RoleRank(n))

CanManageUnprotected(a, g, n) ==        \* Defect: protection is left to the ranks.
  CanCreateRole(a, group[g].name) /\ CanCreateRole(a, n)

\* assert_can_manage_role: both names of a rename are checked.
CanManageRole(a, g, n) ==
  /\ group[g].name \notin Protected
  /\ CanCreateRole(a, group[g].name) /\ CanCreateRole(a, n)

-----------------------------------------------------------------------------
(* Requests *)

Held == UNION {{u} \X member[u] : u \in Users}
Fits(u, G) ==
  /\ u \in Holders \/ G = {}
  /\ Cardinality(Held \ ({u} \X Groups)) + Cardinality(G) <= MaxHeld

Begin(q, r) ==
  /\ req[q] = NoRequest
  /\ req' = [req EXCEPT ![q] = r]
  /\ UNCHANGED <<group, member, status>>

BeginUserRequest(q, kind, a, u, G) ==
  Begin(q, [kind |-> kind, actor |-> a, rank |-> UserRank(a), user |-> u, groups |-> G])

BeginRoleRequest(q, kind, a, G, n, P, keep) ==
  Begin(q, [kind |-> kind, actor |-> a, rank |-> UserRank(a), groups |-> G,
            name |-> n, perms |-> P, keep |-> keep])

Done(q) == req' = [req EXCEPT ![q] = NoRequest]

\* UserViewSet.create and create_user_account: one role, which is shown.
BeginCreate(q, a, u) ==
  /\ Staff(a)
  /\ status[u] = "absent"
  /\ \E g \in Groups :
       /\ Fits(u, {g})
       /\ Shown(a, g)
       /\ CanAssign(a, {}, {g})
       /\ BeginUserRequest(q, "create", a, u, {g})

EndCreateRoleless(q) ==      \* Defect: the role is noted by name, not by row.
  LET r == req[q] IN
  /\ r.kind = "create"
  /\ status[r.user] = "absent"
  /\ status' = [status EXCEPT ![r.user] = "live"]
  /\ member' = [member EXCEPT ![r.user] = {group[g].name : g \in r.groups}]
  /\ Done(q)
  /\ UNCHANGED group

EndCreate(q) ==
  LET r == req[q] IN
  /\ r.kind = "create"
  /\ status[r.user] = "absent"
  /\ \A g \in r.groups : Present(g)
  /\ status' = [status EXCEPT ![r.user] = "live"]
  /\ member' = [member EXCEPT ![r.user] = r.groups]
  /\ Done(q)
  /\ UNCHANGED group

\* A PATCH with roles, and the roles action: sync_user_roles.
BeginRoles(q, a, u) ==
  /\ Staff(a)
  /\ status[u] = "live" /\ ShownUser(a, u)
  /\ CanManageUser(a, u)
  /\ \E G \in SUBSET {g \in Groups : Shown(a, g)} :
       /\ Fits(u, G)
       /\ CanAssign(a, member[u], G)
       /\ BeginUserRequest(q, "roles", a, u, G)

\* A PATCH or PUT of /auth/me/: roles is a field of its own on the serializer,
\* which read_only_fields does not reach, and no rank is asked for.
BeginMe(q, a) ==
  /\ req[q] = NoRequest
  /\ status[a] = "live"
  /\ \E G \in SUBSET {g \in Groups : Shown(a, g)} :
       /\ Fits(a, G)
       /\ BeginUserRequest(q, "me", a, a, G)

\* groups.set() makes the membership what was asked, whatever it is by now.
EndRoles(q) ==
  LET r == req[q] IN
  /\ r.kind \in {"roles", "me"}
  /\ \A g \in r.groups : Present(g)
  /\ member' = [member EXCEPT ![r.user] = r.groups]
  /\ Done(q)
  /\ UNCHANGED <<group, status>>

BeginDelete(q, a, u) ==
  /\ Staff(a)
  /\ status[u] = "live" /\ ShownUser(a, u)
  /\ CanManageUser(a, u)
  /\ BeginUserRequest(q, "delete", a, u, {})

EndDelete(q) ==
  /\ req[q].kind = "delete"
  /\ status' = [status EXCEPT ![req[q].user] = "deleted"]
  /\ Done(q)
  /\ UNCHANGED <<group, member>>

\* restore asks for no rank, only that the account is shown.
BeginRestore(q, a, u) ==
  /\ Staff(a)
  /\ status[u] = "deleted" /\ ShownUser(a, u)
  /\ BeginUserRequest(q, "restore", a, u, {})

EndRestore(q) ==
  /\ req[q].kind = "restore"
  /\ status' = [status EXCEPT ![req[q].user] = "live"]
  /\ Done(q)
  /\ UNCHANGED <<group, member>>

\* RoleViewSet.perform_create, after validate_name.
BeginNewRole(q, a, n) ==
  /\ Staff(a)
  /\ ~NameTaken(n)
  /\ CanCreateRole(a, n)
  /\ \E P \in SUBSET Permissions :
       /\ CanGrant(a, {}, P)
       /\ BeginRoleRequest(q, "newRole", a, {}, n, P, FALSE)

\* The name column is unique.
EndNewRole(q) ==
  LET r == req[q] IN
  /\ r.kind = "newRole"
  /\ ~NameTaken(r.name)
  /\ \E g \in Groups :
       /\ Free(g)
       /\ group' = [group EXCEPT ![g] = [name |-> r.name, perms |-> r.perms]]
  /\ Done(q)
  /\ UNCHANGED <<member, status>>

\* RoleViewSet.perform_update: a new name, new permissions, or both.
BeginEditRole(q, a, g, n) ==
  /\ Staff(a)
  /\ Shown(a, g)
  /\ NameTaken(n) => group[g].name = n
  /\ CanManageRole(a, g, n)
  /\ \E P \in SUBSET Permissions, keep \in BOOLEAN :
       /\ IF keep THEN P = {} ELSE CanGrant(a, group[g].perms, P)
       /\ BeginRoleRequest(q, "editRole", a, {g}, n, P, keep)

\* save() inserts the row again if it is gone by now, with its memberships lost.
EndEditRole(q) ==
  LET r == req[q] IN
  /\ r.kind = "editRole"
  /\ \A g \in Groups \ r.groups : group[g].name # r.name
  /\ group' = [g \in Groups |->
       IF g \in r.groups
       THEN [name |-> r.name, perms |-> IF r.keep THEN group[g].perms ELSE r.perms]
       ELSE group[g]]
  /\ Done(q)
  /\ UNCHANGED <<member, status>>

BeginDropRole(q, a, g) ==
  /\ Staff(a)
  /\ Shown(a, g)
  /\ CanManageRole(a, g, group[g].name)
  /\ BeginRoleRequest(q, "dropRole", a, {g}, group[g].name, {}, TRUE)

\* Memberships go with the rows they name.
Dropped(G) ==
  /\ group' = [g \in Groups |-> IF g \in G THEN NoRow ELSE group[g]]
  /\ member' = [u \in Users |-> member[u] \ G]

EndDropRole(q) ==
  /\ req[q].kind = "dropRole"
  /\ Dropped(req[q].groups)
  /\ Done(q)
  /\ UNCHANGED status

\* A request that fails when it writes is rolled back whole.
Abandon(q) ==
  /\ req[q] # NoRequest
  /\ Done(q)
  /\ UNCHANGED <<group, member, status>>

-----------------------------------------------------------------------------
(* The setup_roles command *)

\* Every declared role gets the permissions of the matrix, and is made if it
\* is missing.
SetupRoles ==
  LET missing == {n \in Declared : ~NameTaken(n)} IN
  /\ \E made \in [missing -> {g \in Groups : Free(g)}] :
       /\ \A m, n \in missing : made[m] = made[n] => m = n
       /\ group' = [g \in Groups |->
            LET names == {n \in Declared : group[g].name = n \/ (n \in missing /\ made[n] = g)}
            IN  IF names = {} THEN group[g]
                ELSE LET m == CHOOSE n \in names : TRUE IN [name |-> m, perms |-> Matrix[m]]]
  /\ UNCHANGED <<member, status, req>>

\* --prune deletes the roles the matrix does not declare.
Prune ==
  /\ Dropped({g \in Groups : group[g].name \in Names \ Declared})
  /\ UNCHANGED <<status, req>>

-----------------------------------------------------------------------------
BeginUser(q, a, u) ==
  /\ req[q] = NoRequest
  /\ BeginCreate(q, a, u) \/ BeginRoles(q, a, u) \/ BeginDelete(q, a, u) \/ BeginRestore(q, a, u)

BeginRole(q, a) ==
  /\ req[q] = NoRequest
  /\ \/ \E n \in Names : BeginNewRole(q, a, n)
     \/ \E g \in Groups : BeginDropRole(q, a, g) \/ \E n \in Names : BeginEditRole(q, a, g, n)

End(q) ==
  \/ EndCreate(q) \/ EndRoles(q) \/ EndDelete(q) \/ EndRestore(q)
  \/ EndNewRole(q) \/ EndEditRole(q) \/ EndDropRole(q)

Next ==
  \/ \E q \in Requests, a \in Users :
       BeginRole(q, a) \/ BeginMe(q, a) \/ \E u \in Users : BeginUser(q, a, u)
  \/ \E q \in Requests : End(q) \/ Abandon(q)
  \/ SetupRoles
  \/ Prune

Spec == Init /\ [][Next]_vars
-----------------------------------------------------------------------------
(* Properties *)

\* The break-glass role is always there, once, with all the permissions the
\* matrix gives it: no edit, rename, deletion or new role touches it.
ProtectedRoleIntact ==
  \A n \in Protected : \E g \in Groups :
    /\ group[g] = [name |-> n, perms |-> Matrix[n]]
    /\ \A h \in Groups : group[h].name = n => h = g

\* Whether what the rank and permission checks of a request asked still holds:
\* nothing they read has changed in a way that matters.
StillAllowed(r) ==
  /\ r.kind = "create" => CanAssign(r.actor, {}, r.groups)
  /\ r.kind = "roles"  => CanAssign(r.actor, member[r.user], r.groups)
  /\ r.kind = "me"     => \A g \in r.groups : Shown(r.actor, g)
  /\ r.kind = "newRole" => CanCreateRole(r.actor, r.name) /\ CanGrant(r.actor, {}, r.perms)
  /\ r.kind = "editRole" =>
       /\ CanCreateRole(r.actor, r.name)
       /\ \A g \in r.groups : r.keep \/ CanGrant(r.actor, group[g].perms, r.perms)
  /\ r.kind \in {"editRole", "dropRole"} =>
       \A g \in r.groups : Present(g) /\ CanCreateRole(r.actor, group[g].name)

\* A request ends that is as good as one made now, however many others have run
\* since it was checked.
EndsAllowed(q) == End(q) /\ StillAllowed(req[q])

\* Such a request moves nobody's rank unless its actor outranks both the old one
\* and the new, through memberships, renames and deletions of roles; on /auth/me/
\* one's own rank may fall, or rise from none to the lowest.
RankMovesOnlyFromAbove ==
  [][\A q \in Requests : EndsAllowed(q) => \A u \in Users : UserRank(u)' # UserRank(u) =>
       LET a == req[q].actor IN
       \/ RankAllows(UserRank(a), UserRank(u)) /\ RankAllows(UserRank(a), UserRank(u)')
       \/ /\ req[q].kind = "me" /\ a = u
          /\ UserRank(u)' < UserRank(u) \/ UserRank(u)' = Base]_vars

\* The top rank comes from the top, whatever overlaps, stale requests included:
\* whoever reaches it owes it to a request whose actor had it when checked.
TopComesFromTop ==
  [][\A u \in Users : UserRank(u) # Top /\ UserRank(u)' = Top =>
       \E q \in Requests : req[q].kind # "none" /\ req[q].rank = Top /\ End(q)]_vars

\* What the roles ranked below k grant together.
GrantedBelow(k) ==
  UNION {group[g].perms : g \in {h \in Groups : Present(h) /\ RoleRank(group[h].name) < k}}

\* Nobody ranked below k, by any sequence of making, editing, renaming and
\* handing out roles, brings into the roles below k a permission they did not
\* grant already, while the request would pass its checks again.
PermissionsStayBelow ==
  [][\A q \in Requests : EndsAllowed(q) => \A k \in 1 .. Top :
       UserRank(req[q].actor) < k => GrantedBelow(k)' \subseteq GrantedBelow(k)]_vars
=============================================================================
