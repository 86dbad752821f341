----------------------------- MODULE RolesProofs -----------------------------
(***************************************************************************)
(* Proofs about Roles.                                                     *)
(*                                                                         *)
(* Requests overlap freely.  A request in progress never has a protected   *)
(* row or name in hand, and has a role of the top rank to give only if its *)
(* actor was at the top: that is inductive, and ProtectedRoleIntact and    *)
(* TopComesFromTop rest on it.  The two properties about any rank are      *)
(* about requests that still pass their checks when they write.            *)
(***************************************************************************)
EXTENDS Roles, FiniteSetTheorems, WellFoundedInduction, TLAPS

-----------------------------------------------------------------------------
(* The inductive invariant *)

\* No request has a protected role, or the name of one, in hand.
Unprotected(r) ==
  /\ r.kind \in {"newRole", "editRole"} => r.name \notin Protected
  /\ r.kind \in {"editRole", "dropRole"} => \A g \in r.groups : group[g].name \notin Protected

\* A role of the top rank.
TopRow(g) == Present(g) /\ RankOf[group[g].name] = Top

\* A role of the top rank is in hand only where the actor had the top rank.
HandsDown(r) ==
  r.kind \in {"create", "roles", "me"} => \A g \in r.groups : TopRow(g) => r.rank = Top

OwnAccount(r) == r.kind = "me" => r.user = r.actor

\* What holds of any request in progress.
InHand(r) == Unprotected(r) /\ HandsDown(r) /\ OwnAccount(r)

MembersPresent == \A u \in Users : \A g \in member[u] : Present(g)

AbsentHoldNothing == \A u \in Users : status[u] = "absent" => member[u] = {}

Pending == \A q \in Requests :
  /\ InHand(req[q])
  /\ req[q].kind \in {"roles", "me", "delete", "restore"} => status[req[q].user] # "absent"

IInv == TypeOK /\ ProtectedRoleIntact /\ MembersPresent /\ AbsentHoldNothing /\ Pending

\* A step that changes no protected row and makes none.
ProtectedKept ==
  \A g \in Groups : group[g].name \in Protected \/ group'[g].name \in Protected =>
    group'[g] = group[g]

-----------------------------------------------------------------------------
(* Ranks *)

LEMMA StrictlySmaller ==
  ASSUME NEW S, NEW A \in SUBSET S, NEW B \in SUBSET S, A \subseteq B, A # B
  PROVE  <<A, B>> \in StrictSubsetOrdering(S)
<1> DEFINE pair == <<A, B>>
<1>1. pair \in (SUBSET S) \X (SUBSET S) /\ pair[1] = A /\ pair[2] = B
  OBVIOUS
<1>2. pair[1] \subseteq pair[2] /\ pair[1] # pair[2]
  BY <1>1
<1> HIDE DEF pair
<1>3. pair \in StrictSubsetOrdering(S)
  BY <1>1, <1>2 DEF StrictSubsetOrdering
<1> QED
  BY <1>3 DEF pair

\* Every non-empty set of numbers up to n has a greatest one.
LEMMA Greatest ==
  ASSUME NEW n \in Nat, NEW S \in SUBSET (0 .. n), S # {}
  PROVE  \E r \in S : \A x \in S : x <= r
<1> DEFINE Above(r) == {x \in S : x > r}
           T == {Above(r) : r \in S}
           Smaller == StrictSubsetOrdering(S)
<1>1. IsFiniteSet(S)
  <2>1. S \subseteq Nat /\ \A x \in S : x <= n
    OBVIOUS
  <2> QED
    BY <2>1, FS_BoundedSetOfNaturals
<1>2. T \subseteq FiniteSubsetsOf(S) /\ T # {}
  <2>1. FiniteSubsetsOf(S) = SUBSET S
    BY <1>1, FS_FiniteSubsetsOfFinite
  <2>2. T \subseteq SUBSET S
    OBVIOUS
  <2>3. PICK r \in S : TRUE
    OBVIOUS
  <2>4. Above(r) \in T
    OBVIOUS
  <2> QED
    BY <2>1, <2>2, <2>4
<1>3. IsWellFoundedOn(Smaller, FiniteSubsetsOf(S))
  BY FS_StrictSubsetOrderingWellFounded
<1> HIDE DEF T, Smaller
<1>4. PICK t \in T : \A y \in T : ~(<<y, t>> \in Smaller)
  BY <1>2, <1>3, WFMin
<1>5. PICK r \in S : t = Above(r)
  BY DEF T
<1>6. ASSUME NEW x \in S, ~(x <= r) PROVE FALSE
  <2>1. x \in Nat /\ r \in Nat /\ x > r
    BY <1>6
  <2>2. Above(x) \in T
    BY DEF T
  <2>3. Above(x) \subseteq Above(r) /\ Above(x) # Above(r)
    <3>1. x \in Above(r) /\ x \notin Above(x)
      BY <2>1
    <3>2. \A y \in S : y > x => y > r
      BY <2>1
    <3>3. Above(x) \subseteq Above(r)
      BY <3>2
    <3> QED
      BY <3>1, <3>3
  <2>4. <<Above(x), Above(r)>> \in Smaller
    <3>1. Above(x) \in SUBSET S /\ Above(r) \in SUBSET S
      OBVIOUS
    <3>2. <<Above(x), Above(r)>> \in StrictSubsetOrdering(S)
      <4> HIDE DEF Above
      <4> QED
        BY <2>3, <3>1, StrictlySmaller
    <3> QED
      BY <3>2 DEF Smaller
  <2> QED
    BY <1>4, <1>5, <2>2, <2>4
<1> QED
  BY <1>6

\* user_rank, of given rows.
RanksIn(grp, mem, u) == {RankOf[grp[g].name] : g \in {h \in mem[u] : grp[h].name # NoName}}

RankIn(grp, mem, u) ==
  IF u \in Superusers THEN Top
  ELSE IF RanksIn(grp, mem, u) = {} THEN 0
  ELSE CHOOSE r \in RanksIn(grp, mem, u) : \A x \in RanksIn(grp, mem, u) : x <= r

\* Whether u holds some role ranked k or above.
Reaches(grp, mem, u, k) ==
  u \in Superusers \/ \E g \in mem[u] : grp[g].name # NoName /\ RankOf[grp[g].name] >= k

LEMMA RankIsRankIn ==
  ASSUME NEW u PROVE UserRank(u) = RankIn(group, member, u)
BY DEF UserRank, RankIn, Ranks, RanksIn, RoleRank, Present

LEMMA RankIsRankInNext ==
  ASSUME NEW u PROVE UserRank(u)' = RankIn(group', member', u)
BY DEF UserRank, RankIn, Ranks, RanksIn, RoleRank, Present

\* A rank is reached exactly by those whose user_rank is that or higher.
LEMMA RankReaches ==
  ASSUME NEW grp \in [Groups -> Row], NEW mem \in [Users -> SUBSET Groups], NEW u \in Users
  PROVE  /\ RankIn(grp, mem, u) \in 0 .. Top
         /\ \A k \in 1 .. Top : RankIn(grp, mem, u) >= k <=> Reaches(grp, mem, u, k)
<1> DEFINE R == RanksIn(grp, mem, u)
<1> USE ConstantsAssumption
<1>1. CASE u \in Superusers
  BY <1>1 DEF RankIn, Reaches
<1>2. CASE u \notin Superusers
  <2>1. \A g \in mem[u] : grp[g].name # NoName => RankOf[grp[g].name] \in 1 .. Top
    BY DEF Row
  <2>2. R \in SUBSET (0 .. Top)
    BY <2>1 DEF RanksIn
  <2>3. \A k \in 1 .. Top : Reaches(grp, mem, u, k) <=> \E r \in R : r >= k
    BY <1>2 DEF Reaches, RanksIn
  <2>4. CASE R = {}
    BY <1>2, <2>3, <2>4 DEF RankIn
  <2>5. CASE R # {}
    <3>1. \E r \in R : \A x \in R : x <= r
      BY <2>2, <2>5, Greatest
    <3>2. RankIn(grp, mem, u) \in R /\ \A x \in R : x <= RankIn(grp, mem, u)
      BY <1>2, <2>5, <3>1 DEF RankIn
    <3> QED
      BY <2>2, <2>3, <3>2
  <2> QED
    BY <2>4, <2>5
<1> QED
  BY <1>1, <1>2

\* A change that leaves everyone's hold on the ranks from k up moves only ranks below k.
LEMMA RankMovesBelow ==
  ASSUME NEW grp \in [Groups -> Row], NEW mem \in [Users -> SUBSET Groups],
         NEW grq \in [Groups -> Row], NEW men \in [Users -> SUBSET Groups],
         NEW u \in Users, NEW k \in 0 .. Top,
         \A i \in 1 .. Top : i >= k => (Reaches(grp, mem, u, i) <=> Reaches(grq, men, u, i)),
         RankIn(grp, mem, u) # RankIn(grq, men, u)
  PROVE  RankIn(grp, mem, u) < k /\ RankIn(grq, men, u) < k
<1> DEFINE x == RankIn(grp, mem, u)
           y == RankIn(grq, men, u)
<1>1. x \in 0 .. Top /\ y \in 0 .. Top
  BY RankReaches
<1>2. \A i \in 1 .. Top : i >= k => (x >= i <=> y >= i)
  BY RankReaches
<1> HIDE DEF x, y
<1>3. x # y
  BY DEF x, y
<1>4. ~(x >= k) /\ ~(y >= k)
  <2>1. ASSUME x >= k, x > y PROVE FALSE
    BY <1>1, <1>2, <2>1, ConstantsAssumption
  <2>2. ASSUME y >= k, y > x PROVE FALSE
    BY <1>1, <1>2, <2>2, ConstantsAssumption
  <2> QED
    BY <1>1, <1>3, <2>1, <2>2, ConstantsAssumption
<1>5. x < k /\ y < k
  BY <1>1, <1>4, ConstantsAssumption
<1> QED
  BY <1>5 DEF x, y

LEMMA RankType ==
  ASSUME IInv, NEW u \in Users
  PROVE  /\ UserRank(u) \in 0 .. Top
         /\ \A k \in 1 .. Top : UserRank(u) >= k <=> Reaches(group, member, u, k)
<1>1. group \in [Groups -> Row] /\ member \in [Users -> SUBSET Groups]
  BY DEF IInv, TypeOK
<1> QED
  BY <1>1, RankReaches, RankIsRankIn

-----------------------------------------------------------------------------
(* The invariant is inductive *)

LEMMA InitIInv == Init => IInv
<1> SUFFICES ASSUME Init PROVE IInv
  OBVIOUS
<1> USE ConstantsAssumption DEF Init
<1>1. group \in [Groups -> Row]
  <2>1. NoRow \in Row /\ \A n \in Declared : [name |-> n, perms |-> Matrix[n]] \in Row
    BY DEF NoRow, Row
  <2> QED
    BY <2>1
<1>2. req \in [Requests -> Request] /\ \A q \in Requests : req[q].kind = "none" /\ req[q].groups = {}
  BY DEF Request, NoRequest
<1>3. TypeOK
  BY <1>1, <1>2 DEF TypeOK
<1>4. ProtectedRoleIntact
  <2> SUFFICES ASSUME NEW n \in Protected
               PROVE  \E g \in Groups : /\ group[g] = [name |-> n, perms |-> Matrix[n]]
                                        /\ \A h \in Groups : group[h].name = n => h = g
    BY DEF ProtectedRoleIntact
  <2>1. PICK g \in Groups : group[g].name = n
    OBVIOUS
  <2>2. n # NoName
    OBVIOUS
  <2>3. group[g] = [name |-> n, perms |-> Matrix[n]]
    BY <2>1, <2>2 DEF NoRow
  <2>4. \A h \in Groups : group[h].name = n => h = g
    BY <2>1, <2>2, <2>3 DEF NoRow
  <2> QED
    BY <2>3, <2>4
<1>5. MembersPresent /\ AbsentHoldNothing
  BY DEF MembersPresent, AbsentHoldNothing
<1>6. Pending
  BY <1>2 DEF Pending, InHand, Unprotected, HandsDown, OwnAccount
<1> QED
  BY <1>3, <1>4, <1>5, <1>6 DEF IInv

\* A name that is not taken is not protected.
LEMMA TakenNames ==
  ASSUME ProtectedRoleIntact PROVE \A n \in Protected : NameTaken(n)
<1> TAKE n \in Protected
<1>1. PICK g \in Groups : group[g] = [name |-> n, perms |-> Matrix[n]]
  BY DEF ProtectedRoleIntact
<1>2. group[g].name = n
  BY <1>1
<1> QED
  BY <1>2 DEF NameTaken

\* A request starts with what it found.
LEMMA StartStep ==
  ASSUME IInv, NEW q \in Requests, NEW r \in Request, Begin(q, r),
         InHand(r),
         r.kind \in {"roles", "me", "delete", "restore"} => status[r.user] # "absent"
  PROVE  IInv'
<1> USE DEF IInv, Begin
<1>1. TypeOK'
  BY DEF TypeOK
<1>2. req' = [req EXCEPT ![q] = r] /\ req \in [Requests -> Request]
  BY DEF TypeOK
<1>3. ProtectedRoleIntact' /\ MembersPresent' /\ AbsentHoldNothing'
  BY DEF ProtectedRoleIntact, MembersPresent, AbsentHoldNothing, Present
<1>4. Pending'
  BY <1>2 DEF Pending, InHand, Unprotected, HandsDown, OwnAccount, TopRow, Present
<1> QED
  BY <1>1, <1>3, <1>4

\* Whoever outranks a role of the top rank, or holds one, is at the top.
LEMMA AtTheTop ==
  ASSUME IInv, NEW a \in Users, NEW g \in Groups, TopRow(g),
         RankAllows(UserRank(a), RoleRank(group[g].name)) \/ g \in member[a]
  PROVE  UserRank(a) = Top
<1>1. UserRank(a) \in 0 .. Top
      /\ \A k \in 1 .. Top : UserRank(a) >= k <=> Reaches(group, member, a, k)
  BY RankType
<1>2. CASE RankAllows(UserRank(a), RoleRank(group[g].name))
  BY <1>1, <1>2, ConstantsAssumption DEF RankAllows, RoleRank, TopRow
<1>3. CASE g \in member[a]
  <2>1. Top \in 1 .. Top
    BY ConstantsAssumption
  <2>2. Reaches(group, member, a, Top)
    BY <1>3, ConstantsAssumption DEF Reaches, TopRow, Present
  <2> QED
    BY <1>1, <2>1, <2>2, ConstantsAssumption
<1> QED
  BY <1>2, <1>3

LEMMA BeginUserStep ==
  ASSUME IInv, NEW q \in Requests, NEW a \in Users, NEW u \in Users,
         BeginUser(q, a, u) \/ (BeginMe(q, u) /\ a = u)
  PROVE  IInv'
<1> USE DEF BeginUserRequest
<1>1. ASSUME NEW kind \in {"create", "roles", "me", "delete", "restore"}, NEW G \in SUBSET Groups,
             Begin(q, [kind |-> kind, actor |-> a, rank |-> UserRank(a), user |-> u, groups |-> G]),
             \A g \in G : TopRow(g) => UserRank(a) = Top, kind = "me" => u = a,
             kind # "create" => status[u] # "absent"
      PROVE  IInv'
  <2> DEFINE r == [kind |-> kind, actor |-> a, rank |-> UserRank(a), user |-> u, groups |-> G]
  <2>1. r \in Request
    BY RankType DEF Request
  <2>2. /\ r.kind = kind /\ r.rank = UserRank(a) /\ r.actor = a
        /\ r.user = u /\ r.groups = G
    OBVIOUS
  <2>3. Begin(q, r)
    BY <1>1
  <2> HIDE DEF r
  <2>4. InHand(r)
    BY <1>1, <2>2 DEF InHand, Unprotected, HandsDown, OwnAccount
  <2> QED
    BY <1>1, <2>1, <2>2, <2>3, <2>4, StartStep
<1>2. CASE BeginCreate(q, a, u)
  <2>1. PICK g \in Groups :
          /\ CanAssign(a, {}, {g})
          /\ Begin(q, [kind |-> "create", actor |-> a, rank |-> UserRank(a), user |-> u,
                       groups |-> {g}])
    BY <1>2 DEF BeginCreate
  <2>2. TopRow(g) => UserRank(a) = Top
    BY <2>1, AtTheTop DEF CanAssign
  <2> QED
    BY <1>1, <2>1, <2>2
<1>3. CASE BeginRoles(q, a, u)
  <2>1. PICK G \in SUBSET Groups :
          /\ CanAssign(a, member[u], G)
          /\ Begin(q, [kind |-> "roles", actor |-> a, rank |-> UserRank(a), user |-> u,
                       groups |-> G])
    BY <1>3 DEF BeginRoles
  <2>2. ASSUME NEW g \in G, TopRow(g) PROVE UserRank(a) = Top
    <3>1. CASE g \notin member[u]
      BY <2>1, <2>2, <3>1, AtTheTop DEF CanAssign
    <3>2. CASE g \in member[u]
      <4>1. UserRank(u) = Top
        BY <2>2, <3>2, AtTheTop
      <4>2. a = u \/ RankAllows(UserRank(a), Top)
        BY <1>3, <4>1 DEF BeginRoles, CanManageUser
      <4>3. UserRank(a) \in 0 .. Top
        BY RankType
      <4> QED
        BY <4>1, <4>2, <4>3, ConstantsAssumption DEF RankAllows
    <3> QED
      BY <3>1, <3>2
  <2>3. status[u] = "live"
    BY <1>3 DEF BeginRoles
  <2> QED
    BY <1>1, <2>1, <2>2, <2>3
<1>4. CASE BeginMe(q, u) /\ a = u
  <2>1. PICK G \in SUBSET {g \in Groups : Shown(a, g)} :
          Begin(q, [kind |-> "me", actor |-> a, rank |-> UserRank(a), user |-> u, groups |-> G])
    BY <1>4 DEF BeginMe
  <2>2. ASSUME NEW g \in G, TopRow(g) PROVE UserRank(a) = Top
    <3>1. Top <= UserRank(a)
      BY <2>2, ConstantsAssumption DEF Shown, TopRow, RoleRank
    <3>2. UserRank(a) \in 0 .. Top
      BY RankType
    <3> QED
      BY <3>1, <3>2, ConstantsAssumption
  <2>3. status[u] = "live" /\ G \in SUBSET Groups /\ u = a
    BY <1>4 DEF BeginMe
  <2> QED
    BY <1>1, <2>1, <2>2, <2>3
<1>5. CASE BeginDelete(q, a, u)
  BY <1>1, <1>5 DEF BeginDelete
<1>6. CASE BeginRestore(q, a, u)
  BY <1>1, <1>6 DEF BeginRestore
<1> QED
  BY <1>2, <1>3, <1>4, <1>5, <1>6 DEF BeginUser

LEMMA BeginRoleStep ==
  ASSUME IInv, NEW q \in Requests, NEW a \in Users, BeginRole(q, a)
  PROVE  IInv'
<1> USE DEF BeginRoleRequest
<1>1. ASSUME NEW kind \in {"newRole", "editRole", "dropRole"}, NEW G \in SUBSET Groups,
             NEW n \in Names, NEW P \in SUBSET Permissions, NEW keep \in BOOLEAN,
             Begin(q, [kind |-> kind, actor |-> a, rank |-> UserRank(a), groups |-> G,
                       name |-> n, perms |-> P, keep |-> keep]),
             kind # "dropRole" => n \notin Protected,
             kind # "newRole" => \A g \in G : group[g].name \notin Protected
      PROVE  IInv'
  <2> DEFINE r == [kind |-> kind, actor |-> a, rank |-> UserRank(a), groups |-> G,
                   name |-> n, perms |-> P, keep |-> keep]
  <2>1. r \in Request
    BY RankType DEF Request
  <2>2. r.kind = kind /\ r.groups = G /\ r.name = n
    OBVIOUS
  <2>3. Begin(q, r)
    BY <1>1
  <2> HIDE DEF r
  <2>4. InHand(r)
    BY <1>1, <2>2 DEF InHand, Unprotected, HandsDown, OwnAccount
  <2> QED
    BY <1>1, <2>1, <2>2, <2>3, <2>4, StartStep
<1>2. ASSUME NEW n \in Names, BeginNewRole(q, a, n) PROVE IInv'
  <2>1. n \notin Protected
    BY <1>2, TakenNames DEF BeginNewRole, IInv
  <2> QED
    BY <1>1, <1>2, <2>1 DEF BeginNewRole
<1>3. ASSUME NEW g \in Groups, NEW n \in Names, BeginEditRole(q, a, g, n) PROVE IInv'
  <2>1. group[g].name \notin Protected /\ n \notin Protected
    BY <1>3, TakenNames DEF BeginEditRole, IInv, CanManageRole
  <2>2. PICK P \in SUBSET Permissions, keep \in BOOLEAN :
          Begin(q, [kind |-> "editRole", actor |-> a, rank |-> UserRank(a), groups |-> {g},
                    name |-> n, perms |-> P, keep |-> keep])
    BY <1>3 DEF BeginEditRole
  <2> QED
    BY <1>1, <2>1, <2>2
<1>4. ASSUME NEW g \in Groups, BeginDropRole(q, a, g) PROVE IInv'
  <2>1. group[g].name \notin Protected /\ group[g].name \in Names
    BY <1>4 DEF BeginDropRole, CanManageRole, Shown, Present, IInv, TypeOK, Row
  <2> QED
    BY <1>1, <1>4, <2>1 DEF BeginDropRole
<1> QED
  BY <1>2, <1>3, <1>4 DEF BeginRole

LEMMA DoneStep ==
  ASSUME IInv, NEW q \in Requests, Done(q)
  PROVE  /\ req' \in [Requests -> Request]
         /\ \A p \in Requests : req'[p] = IF p = q THEN NoRequest ELSE req[p]
BY DEF IInv, TypeOK, Done, Request

\* Rows that come to be, change or go are not those of protected roles.
LEMMA RowsStep ==
  ASSUME IInv, NEW f \in [Groups -> Row], group' = f,
         \A g \in Groups : group[g].name \in Protected \/ f[g].name \in Protected => f[g] = group[g],
         \A p \in Requests : req'[p] \in {NoRequest, req[p]}
  PROVE  ProtectedRoleIntact' /\ \A p \in Requests : InHand(req[p])'
<1>1. ProtectedRoleIntact'
  <2> SUFFICES ASSUME NEW n \in Protected
               PROVE  \E g \in Groups : /\ f[g] = [name |-> n, perms |-> Matrix[n]]
                                        /\ \A h \in Groups : f[h].name = n => h = g
    BY DEF ProtectedRoleIntact
  <2>1. PICK g \in Groups : /\ group[g] = [name |-> n, perms |-> Matrix[n]]
                            /\ \A h \in Groups : group[h].name = n => h = g
    BY DEF IInv, ProtectedRoleIntact
  <2>2. f[g] = group[g]
    BY <2>1
  <2>3. \A h \in Groups : f[h].name = n => h = g
    BY <2>1
  <2> QED
    BY <2>1, <2>2, <2>3
<1>2. ASSUME NEW p \in Requests PROVE InHand(req[p])'
  <2>1. CASE req'[p] = NoRequest
    BY <2>1 DEF NoRequest, InHand, Unprotected, HandsDown, OwnAccount
  <2>2. CASE req'[p] = req[p]
    <3>1. req[p].groups \subseteq Groups
      BY DEF IInv, TypeOK, Request, NoRequest
    <3>2. Unprotected(req[p]) /\ HandsDown(req[p]) /\ OwnAccount(req[p])
      BY DEF IInv, Pending, InHand
    <3>3. \A g \in Groups : group[g].name \notin Protected => f[g].name \notin Protected
      OBVIOUS
    <3>4. \A g \in Groups : TopRow(g)' => TopRow(g)
      <4> SUFFICES ASSUME NEW g \in Groups, f[g].name # NoName, RankOf[f[g].name] = Top
                   PROVE  group[g].name # NoName /\ RankOf[group[g].name] = Top
        BY DEF TopRow, Present
      <4>1. f[g].name \in Protected
        BY ConstantsAssumption DEF Row
      <4> QED
        BY <4>1
    <3>5. Unprotected(req[p])'
      BY <2>2, <3>1, <3>2, <3>3 DEF Unprotected
    <3>6. HandsDown(req[p])' /\ OwnAccount(req[p])'
      BY <2>2, <3>1, <3>2, <3>4 DEF HandsDown, OwnAccount
    <3> QED
      BY <3>5, <3>6 DEF InHand
  <2> QED
    BY <2>1, <2>2
<1> QED
  BY <1>1, <1>2

LEMMA EndUserStep ==
  ASSUME IInv, NEW q \in Requests,
         EndCreate(q) \/ EndRoles(q) \/ EndDelete(q) \/ EndRestore(q)
  PROVE  IInv' /\ ProtectedKept
<1> DEFINE r == req[q]
<1>0. ProtectedKept
  BY DEF ProtectedKept, EndCreate, EndRoles, EndDelete, EndRestore
<1>1. r \in Request /\ r.kind \in {"create", "roles", "me", "delete", "restore"} /\ Done(q) /\ group' = group
  BY DEF IInv, TypeOK, EndCreate, EndRoles, EndDelete, EndRestore
<1>2. r.user \in Users /\ r.groups \in SUBSET Groups
  BY <1>1 DEF Request, NoRequest
<1>3. /\ req' \in [Requests -> Request]
      /\ \A p \in Requests : req'[p] = IF p = q THEN NoRequest ELSE req[p]
  BY <1>1, DoneStep
<1>4. group \in [Groups -> Row] /\ member \in [Users -> SUBSET Groups]
      /\ status \in [Users -> {"absent", "live", "deleted"}]
  BY DEF IInv, TypeOK
<1>5. ProtectedRoleIntact' /\ \A p \in Requests : InHand(req[p])'
  BY <1>1, <1>3, <1>4, RowsStep
<1>6. ASSUME member' \in [Users -> SUBSET Groups], status' \in [Users -> {"absent", "live", "deleted"}],
             \A u \in Users : \A g \in member'[u] : Present(g),
             \A u \in Users : status'[u] = "absent" => status[u] = "absent" /\ member'[u] = member[u]
      PROVE  IInv'
  <2>1. TypeOK'
    BY <1>1, <1>3, <1>4, <1>6 DEF TypeOK
  <2>2. MembersPresent' /\ AbsentHoldNothing'
    BY <1>1, <1>6 DEF IInv, MembersPresent, AbsentHoldNothing, Present
  <2>3. \A p \in Requests : req'[p].kind \in {"roles", "me", "delete", "restore"} => status'[req'[p].user] # "absent"
    <3> SUFFICES ASSUME NEW p \in Requests, req'[p].kind \in {"roles", "me", "delete", "restore"}
                 PROVE  status'[req'[p].user] # "absent"
      OBVIOUS
    <3>1. req'[p] = req[p]
      BY <1>3 DEF NoRequest
    <3>2. req[p].user \in Users
      BY <3>1 DEF IInv, TypeOK, Request, NoRequest
    <3> QED
      BY <1>6, <3>1, <3>2 DEF IInv, Pending
  <2> QED
    BY <1>3, <1>5, <2>1, <2>2, <2>3 DEF IInv, Pending
<1>7. CASE EndCreate(q)
  <2>1. /\ status' = [status EXCEPT ![r.user] = "live"]
        /\ member' = [member EXCEPT ![r.user] = r.groups]
        /\ \A g \in r.groups : Present(g)
    BY <1>7 DEF EndCreate
  <2> HIDE DEF r
  <2> QED
    BY <1>0, <1>2, <1>4, <1>6, <2>1 DEF IInv, MembersPresent
<1>8. CASE EndRoles(q)
  <2>1. status[r.user] # "absent"
    BY <1>8 DEF EndRoles, IInv, Pending
  <2> QED
    BY <1>0, <1>2, <1>4, <1>6, <1>8, <2>1 DEF EndRoles, IInv, MembersPresent
<1>9. CASE EndDelete(q)
  BY <1>0, <1>2, <1>4, <1>6, <1>9 DEF EndDelete, IInv, MembersPresent
<1>10. CASE EndRestore(q)
  BY <1>0, <1>2, <1>4, <1>6, <1>10 DEF EndRestore, IInv, MembersPresent
<1> QED
  BY <1>0, <1>7, <1>8, <1>9, <1>10

\* What a change of the rows leaves to show.
LEMMA RoleRowsStep ==
  ASSUME IInv, NEW f \in [Groups -> Row], group' = f, status' = status,
         \A g \in Groups : group[g].name \in Protected \/ f[g].name \in Protected => f[g] = group[g],
         req' \in [Requests -> Request],
         \A p \in Requests : req'[p] \in {NoRequest, req[p]},
         \A u \in Users : member'[u] \subseteq member[u],
         member' \in [Users -> SUBSET Groups],
         \A u \in Users : \A g \in member'[u] : f[g].name # NoName
  PROVE  IInv' /\ ProtectedKept
<1>1. ProtectedRoleIntact' /\ \A p \in Requests : InHand(req[p])'
  BY RowsStep
<1>2. TypeOK'
  BY DEF IInv, TypeOK
<1>3. MembersPresent' /\ AbsentHoldNothing'
  BY DEF IInv, MembersPresent, AbsentHoldNothing, Present
<1>4. \A p \in Requests : req'[p].kind \in {"roles", "me", "delete", "restore"} => status'[req'[p].user] # "absent"
  BY DEF IInv, Pending, NoRequest
<1> QED
  BY <1>1, <1>2, <1>3, <1>4 DEF IInv, Pending, ProtectedKept

LEMMA EndRoleStep ==
  ASSUME IInv, NEW q \in Requests, EndNewRole(q) \/ EndEditRole(q) \/ EndDropRole(q)
  PROVE  IInv' /\ ProtectedKept
<1> DEFINE r == req[q]
<1>1. r \in Request /\ r.kind \in {"newRole", "editRole", "dropRole"} /\ Done(q) /\ status' = status
  BY DEF IInv, TypeOK, EndNewRole, EndEditRole, EndDropRole
<1>2. r.name \in Names /\ r.groups \in SUBSET Groups /\ r.perms \in SUBSET Permissions
  BY <1>1 DEF Request, NoRequest
<1>3. /\ req' \in [Requests -> Request]
      /\ \A p \in Requests : req'[p] \in {NoRequest, req[p]}
  BY <1>1, DoneStep
<1>4. group \in [Groups -> Row] /\ member \in [Users -> SUBSET Groups]
  BY DEF IInv, TypeOK
<1>5. \A u \in Users : \A g \in member[u] : group[g].name # NoName
  BY DEF IInv, MembersPresent, Present
<1>6. Unprotected(r)
  BY DEF IInv, Pending, InHand
<1>7. NoName \notin Names /\ NoName \notin Protected
  BY ConstantsAssumption
<1>8. CASE EndNewRole(q)
  <2>1. PICK g \in Groups :
          ~Present(g) /\ group' = [group EXCEPT ![g] = [name |-> r.name, perms |-> r.perms]]
    BY <1>8 DEF EndNewRole, Free
  <2> DEFINE f == [group EXCEPT ![g] = [name |-> r.name, perms |-> r.perms]]
  <2>2. r.name \notin Protected
    BY <1>6, <1>8 DEF EndNewRole, Unprotected
  <2>3. f \in [Groups -> Row]
    BY <1>2, <1>4 DEF Row
  <2>4. \A h \in Groups : f[h] = IF h = g THEN [name |-> r.name, perms |-> r.perms] ELSE group[h]
    BY <1>4
  <2>5. member' = member
    BY <1>8 DEF EndNewRole
  <2> HIDE DEF f, r
  <2>6. \A h \in Groups : group[h].name \in Protected \/ f[h].name \in Protected => f[h] = group[h]
    BY <1>7, <2>1, <2>2, <2>4 DEF Present
  <2>7. \A h \in Groups : group[h].name # NoName => f[h].name # NoName
    BY <1>2, <1>7, <2>4
  <2>8. group' = f
    BY <2>1 DEF f
  <2> QED
    BY <1>1, <1>3, <1>4, <1>5, <2>3, <2>5, <2>6, <2>7, <2>8, RoleRowsStep
<1>9. CASE EndEditRole(q)
  <2> DEFINE f == [g \in Groups |->
       IF g \in r.groups
       THEN [name |-> r.name, perms |-> IF r.keep THEN group[g].perms ELSE r.perms]
       ELSE group[g]]
  <2>1. group' = f /\ member' = member /\ r.kind = "editRole"
    BY <1>9 DEF EndEditRole
  <2>2. r.name \notin Protected /\ \A g \in r.groups : group[g].name \notin Protected
    BY <1>6, <2>1 DEF Unprotected
  <2>3. f \in [Groups -> Row]
    BY <1>2, <1>4 DEF Row
  <2>4. \A g \in Groups : group[g].name \in Protected \/ f[g].name \in Protected => f[g] = group[g]
    BY <2>2
  <2>5. \A g \in Groups : group[g].name # NoName => f[g].name # NoName
    BY <1>2, <1>7
  <2> HIDE DEF f, r
  <2> QED
    BY <1>1, <1>3, <1>4, <1>5, <2>1, <2>3, <2>4, <2>5, RoleRowsStep
<1>10. CASE EndDropRole(q)
  <2> DEFINE f == [g \in Groups |-> IF g \in r.groups THEN NoRow ELSE group[g]]
  <2>1. group' = f /\ member' = [u \in Users |-> member[u] \ r.groups] /\ r.kind = "dropRole"
    BY <1>10 DEF EndDropRole, Dropped
  <2>2. \A g \in r.groups : group[g].name \notin Protected
    BY <1>6, <2>1 DEF Unprotected
  <2>3. f \in [Groups -> Row]
    BY <1>4 DEF Row, NoRow
  <2>4. \A g \in Groups : group[g].name \in Protected \/ f[g].name \in Protected => f[g] = group[g]
    BY <1>7, <2>2 DEF NoRow
  <2>5. \A u \in Users : \A g \in member'[u] : f[g].name # NoName
    BY <1>4, <1>5, <2>1
  <2> HIDE DEF f, r
  <2> QED
    BY <1>1, <1>3, <1>4, <2>1, <2>3, <2>4, <2>5, RoleRowsStep
<1> QED
  BY <1>8, <1>9, <1>10

LEMMA AbandonStep ==
  ASSUME IInv, NEW q \in Requests, Abandon(q) PROVE IInv' /\ ProtectedKept
<1>1. Done(q) /\ UNCHANGED <<group, member, status>>
  BY DEF Abandon
<1>3. /\ req' \in [Requests -> Request]
      /\ \A p \in Requests : req'[p] \in {NoRequest, req[p]}
  BY <1>1, DoneStep
<1>4. group \in [Groups -> Row] /\ member \in [Users -> SUBSET Groups]
  BY DEF IInv, TypeOK
<1>5. \A u \in Users : \A g \in member'[u] : group[g].name # NoName
  BY <1>1 DEF IInv, MembersPresent, Present
<1> QED
  BY <1>1, <1>3, <1>4, <1>5, RoleRowsStep

LEMMA SetupRolesStep == ASSUME IInv, SetupRoles PROVE IInv' /\ ProtectedKept
<1> DEFINE missing == {n \in Declared : ~NameTaken(n)}
<1>1. PICK made \in [missing -> {g \in Groups : Free(g)}] :
        group' = [g \in Groups |->
            LET names == {n \in Declared : group[g].name = n \/ (n \in missing /\ made[n] = g)}
            IN  IF names = {} THEN group[g]
                ELSE LET m == CHOOSE n \in names : TRUE IN [name |-> m, perms |-> Matrix[m]]]
  BY DEF SetupRoles
<1> DEFINE names(g) == {n \in Declared : group[g].name = n \/ (n \in missing /\ made[n] = g)}
           f == [g \in Groups |->
            IF names(g) = {} THEN group[g]
            ELSE [name |-> CHOOSE n \in names(g) : TRUE, perms |-> Matrix[CHOOSE n \in names(g) : TRUE]]]
<1>2. group' = f
  BY <1>1
<1>3. \A g \in Groups : \/ names(g) = {} /\ f[g] = group[g]
                        \/ \E n \in names(g) : f[g] = [name |-> n, perms |-> Matrix[n]]
  OBVIOUS
<1>4. group \in [Groups -> Row] /\ member \in [Users -> SUBSET Groups] /\ req \in [Requests -> Request]
  BY DEF IInv, TypeOK
<1>5. \A g \in Groups : \A n \in names(g) :
        n \in Declared /\ (group[g].name = n \/ (n \in missing /\ group[g].name = NoName))
  BY DEF Free, Present
<1>6. \A n \in Protected : n \notin missing /\ n \in Declared
  BY TakenNames, ConstantsAssumption DEF IInv
<1>7. \A g \in Groups : group[g].name \in Protected => group[g] = [name |-> group[g].name, perms |-> Matrix[group[g].name]]
  <2> SUFFICES ASSUME NEW g \in Groups, group[g].name \in Protected
               PROVE  group[g] = [name |-> group[g].name, perms |-> Matrix[group[g].name]]
    OBVIOUS
  <2> DEFINE n == group[g].name
  <2>1. PICK h \in Groups : group[h] = [name |-> n, perms |-> Matrix[n]] /\ (\A i \in Groups : group[i].name = n => i = h)
    BY DEF IInv, ProtectedRoleIntact
  <2> QED
    BY <2>1
<1> HIDE DEF f, names
<1>8. f \in [Groups -> Row]
  <2>1. \A g \in Groups : f[g] \in Row
    <3>1. \A n \in Declared : [name |-> n, perms |-> Matrix[n]] \in Row
      BY ConstantsAssumption DEF Row
    <3>2. \A g \in Groups : \A n \in names(g) : [name |-> n, perms |-> Matrix[n]] \in Row
      BY <1>5, <3>1
    <3> QED
      BY <1>3, <1>4, <3>2
  <2> QED
    BY <2>1 DEF f
<1>9. \A g \in Groups : group[g].name \in Protected => f[g] = group[g]
  <2> SUFFICES ASSUME NEW g \in Groups, group[g].name \in Protected PROVE f[g] = group[g]
    OBVIOUS
  <2>1. group[g].name # NoName
    BY ConstantsAssumption
  <2>2. \A n \in names(g) : n = group[g].name
    BY <1>5, <2>1
  <2> QED
    BY <1>3, <1>7, <2>2
<1>10. \A g \in Groups : f[g].name \in Protected => f[g] = group[g]
  <2> SUFFICES ASSUME NEW g \in Groups, f[g].name \in Protected, f[g] # group[g] PROVE FALSE
    OBVIOUS
  <2>1. PICK n \in names(g) : f[g] = [name |-> n, perms |-> Matrix[n]]
    BY <1>3
  <2>2. n \in Protected
    BY <2>1
  <2> QED
    BY <1>5, <1>6, <1>9, <2>2
<1>11. \A g \in Groups : group[g].name # NoName => f[g].name # NoName
  <2> TAKE g \in Groups
  <2>1. \A n \in names(g) : n # NoName
    BY <1>5, ConstantsAssumption
  <2>2. \A n \in names(g) : [name |-> n, perms |-> Matrix[n]].name = n
    OBVIOUS
  <2> QED
    BY <1>3, <2>1, <2>2
<1>12. \A u \in Users : \A g \in member[u] : f[g].name # NoName
  BY <1>4, <1>11 DEF IInv, MembersPresent, Present
<1>13. UNCHANGED <<member, status, req>>
  BY DEF SetupRoles
<1> QED
  BY <1>2, <1>4, <1>8, <1>9, <1>10, <1>12, <1>13, RoleRowsStep

LEMMA PruneStep == ASSUME IInv, Prune PROVE IInv' /\ ProtectedKept
<1> DEFINE G == {g \in Groups : group[g].name \in Names \ Declared}
           f == [g \in Groups |-> IF g \in G THEN NoRow ELSE group[g]]
<1>1. group' = f /\ member' = [u \in Users |-> member[u] \ G] /\ UNCHANGED <<status, req>>
  BY DEF Prune, Dropped
<1>2. group \in [Groups -> Row] /\ member \in [Users -> SUBSET Groups] /\ req \in [Requests -> Request]
  BY DEF IInv, TypeOK
<1>3. f \in [Groups -> Row]
  BY <1>2 DEF Row, NoRow
<1>4. \A g \in Groups : group[g].name \in Protected \/ f[g].name \in Protected => f[g] = group[g]
  BY ConstantsAssumption DEF NoRow
<1>5. \A u \in Users : \A g \in member'[u] : f[g].name # NoName
  BY <1>1, <1>2 DEF IInv, MembersPresent, Present
<1> HIDE DEF f, G
<1> QED
  BY <1>1, <1>2, <1>3, <1>4, <1>5, RoleRowsStep

LEMMA NextStep == IInv /\ [Next]_vars => IInv' /\ ProtectedKept
<1> SUFFICES ASSUME IInv, [Next]_vars PROVE IInv' /\ ProtectedKept
  OBVIOUS
<1>1. CASE UNCHANGED vars
  <2> USE <1>1 DEF IInv, vars
  <2>1. TypeOK' /\ ProtectedRoleIntact' /\ MembersPresent' /\ AbsentHoldNothing'
    BY DEF TypeOK, ProtectedRoleIntact, MembersPresent, AbsentHoldNothing, Present
  <2>2. Pending' /\ ProtectedKept
    BY DEF Pending, InHand, Unprotected, HandsDown, OwnAccount, TopRow, Present, ProtectedKept
  <2> QED
    BY <2>1, <2>2
<1>2. ASSUME NEW q \in Requests, End(q) \/ Abandon(q) PROVE IInv' /\ ProtectedKept
  BY <1>2, EndUserStep, EndRoleStep, AbandonStep DEF End
<1>3. ASSUME NEW q \in Requests, NEW a \in Users,
             BeginRole(q, a) \/ BeginMe(q, a) \/ \E u \in Users : BeginUser(q, a, u)
      PROVE  IInv' /\ ProtectedKept
  <2>1. IInv'
    <3>1. CASE BeginRole(q, a)
      BY <3>1, BeginRoleStep
    <3>2. CASE BeginMe(q, a)
      BY <3>2, BeginUserStep
    <3>3. CASE \E u \in Users : BeginUser(q, a, u)
      BY <3>3, BeginUserStep
    <3> QED
      BY <1>3, <3>1, <3>2, <3>3
  <2>2. group' = group
    BY <1>3
    DEF BeginRole, BeginMe, BeginUser, BeginCreate, BeginRoles, BeginDelete, BeginRestore,
        BeginNewRole, BeginEditRole, BeginDropRole, BeginUserRequest, BeginRoleRequest, Begin
  <2> QED
    BY <2>1, <2>2 DEF ProtectedKept
<1> QED
  BY <1>1, <1>2, <1>3, SetupRolesStep, PruneStep DEF Next

LEMMA Invariant == Spec => []IInv
BY InitIInv, NextStep, PTL DEF Spec

-----------------------------------------------------------------------------
(* What a request that still passes its checks may do *)

\* What one outranks is ranked below oneself.
LEMMA Outranked ==
  ASSUME NEW a, UserRank(a) # Top, NEW n, CanCreateRole(a, n)
  PROVE  UserRank(a) > RankOf[n]
BY DEF CanCreateRole, RankAllows, RoleRank

\* A request keeps everybody's hold on the ranks from its actor's up.
LEMMA KeepsReach ==
  ASSUME IInv, NEW q \in Requests, EndsAllowed(q), UserRank(req[q].actor) # Top,
         NEW u \in Users, req[q].kind = "me" => u # req[q].user,
         NEW k \in 1 .. Top, k >= UserRank(req[q].actor)
  PROVE  Reaches(group, member, u, k) <=> Reaches(group', member', u, k)
<1> DEFINE r == req[q]
           a == r.actor
<1>1. End(q) /\ StillAllowed(r) /\ r \in Request
  BY DEF EndsAllowed, IInv, TypeOK
<1>2. group \in [Groups -> Row] /\ member \in [Users -> SUBSET Groups]
  BY DEF IInv, TypeOK
<1>3. r.kind # "none"
  BY <1>1 DEF End, EndCreate, EndRoles, EndDelete, EndRestore, EndNewRole, EndEditRole, EndDropRole
<1>4. a \in Users /\ r.groups \in SUBSET Groups
  BY <1>1, <1>3 DEF Request, NoRequest
<1>5. UserRank(a) \in 0 .. Top
  BY <1>4, RankType
<1>6. ASSUME NEW n \in Names, CanCreateRole(a, n) PROVE ~(RankOf[n] >= k)
  <2>1. RankOf[n] \in Nat
    BY ConstantsAssumption
  <2> QED
    BY <1>5, <1>6, <2>1, Outranked, ConstantsAssumption
<1>7. ASSUME NEW g \in Groups, Present(g), RankAllows(UserRank(a), RoleRank(group[g].name))
      PROVE  ~(RankOf[group[g].name] >= k)
  BY <1>2, <1>6, <1>7 DEF Present, Row, CanCreateRole
<1>8. CASE EndCreate(q) \/ EndRoles(q)
  <2>1. r.user \in Users /\ r.kind \in {"create", "roles", "me"} /\ group' = group
        /\ member' = [member EXCEPT ![r.user] = r.groups] /\ \A g \in r.groups : Present(g)
    BY <1>1, <1>8 DEF Request, NoRequest, EndCreate, EndRoles
  <2>2. r.kind # "me" => CanAssign(a, member[r.user], r.groups)
    <3>1. r.kind = "create" => member[r.user] = {}
      BY <1>8, <2>1 DEF IInv, AbsentHoldNothing, EndCreate, EndRoles
    <3> QED
      BY <1>1, <2>1, <3>1 DEF StillAllowed
  <2>0. r.kind = "me" => u # r.user
    OBVIOUS
  <2> HIDE DEF r
  <2>3. ASSUME r.kind # "me",
               NEW g \in (member[r.user] \cup r.groups) \ (member[r.user] \cap r.groups)
        PROVE  ~(RankOf[group[g].name] >= k)
    <3>1. g \in Groups /\ Present(g)
      BY <1>2, <1>4, <2>1 DEF IInv, MembersPresent
    <3>2. RankAllows(UserRank(a), RoleRank(group[g].name))
      BY <2>2, <2>3 DEF CanAssign
    <3> QED
      BY <1>7, <3>1, <3>2
  <2>4. CASE u # r.user
    BY <1>2, <2>1, <2>4 DEF Reaches
  <2>5. CASE u = r.user
    BY <1>2, <2>0, <2>1, <2>3, <2>5 DEF Reaches
  <2> QED
    BY <2>4, <2>5
<1>9. CASE EndDelete(q) \/ EndRestore(q)
  BY <1>9 DEF EndDelete, EndRestore, Reaches
<1>10. CASE EndNewRole(q)
  <2>1. PICK g \in Groups :
          ~Present(g) /\ group' = [group EXCEPT ![g] = [name |-> r.name, perms |-> r.perms]]
    BY <1>10 DEF EndNewRole, Free
  <2>2. member' = member /\ g \notin member[u]
    BY <1>10, <2>1 DEF EndNewRole, IInv, MembersPresent
  <2>3. \A h \in member[u] : group'[h] = group[h]
    BY <1>2, <2>1, <2>2
  <2> QED
    BY <2>2, <2>3 DEF Reaches
<1>11. CASE EndEditRole(q)
  <2>1. r.kind = "editRole" /\ member' = member /\ r.name \in Names
        /\ \A g \in Groups : group'[g].name = IF g \in r.groups THEN r.name ELSE group[g].name
    BY <1>1, <1>11 DEF EndEditRole, Request, NoRequest
  <2>2. /\ ~(RankOf[r.name] >= k)
        /\ \A g \in r.groups : Present(g) /\ ~(RankOf[group[g].name] >= k)
    <3>1. CanCreateRole(a, r.name) /\ \A g \in r.groups : Present(g) /\ CanCreateRole(a, group[g].name)
      BY <1>1, <2>1 DEF StillAllowed
    <3> QED
      BY <1>4, <1>6, <1>7, <2>1, <3>1 DEF CanCreateRole
  <2> HIDE DEF r
  <2> QED
    BY <1>2, <2>1, <2>2 DEF Reaches
<1>12. CASE EndDropRole(q)
  <2>1. r.kind = "dropRole" /\ member' = [v \in Users |-> member[v] \ r.groups]
        /\ \A g \in Groups : group'[g] = IF g \in r.groups THEN NoRow ELSE group[g]
    BY <1>12 DEF EndDropRole, Dropped
  <2>2. \A g \in r.groups : ~(RankOf[group[g].name] >= k)
    <3>1. \A g \in r.groups : Present(g) /\ CanCreateRole(a, group[g].name)
      BY <1>1, <2>1 DEF StillAllowed
    <3> QED
      BY <1>4, <1>7, <3>1 DEF CanCreateRole
  <2>3. \A g \in member'[u] : group'[g] = group[g]
    BY <1>2, <2>1
  <2>4. \A g \in member[u] : RankOf[group[g].name] >= k => g \in member'[u]
    BY <1>2, <2>1, <2>2
  <2>5. member'[u] \subseteq member[u]
    BY <2>1
  <2> HIDE DEF r
  <2> QED
    BY <2>3, <2>4, <2>5 DEF Reaches
<1> QED
  BY <1>1, <1>8, <1>9, <1>10, <1>11, <1>12 DEF End

\* On /auth/me/ nobody gets above what they had, but for the lowest rank.
LEMMA OwnRankStep ==
  ASSUME IInv, IInv', NEW q \in Requests, EndsAllowed(q), req[q].kind = "me",
         NEW u \in Users, u = req[q].user, UserRank(u)' # UserRank(u)
  PROVE  UserRank(u)' < UserRank(u) \/ UserRank(u)' = Base
<1> DEFINE x == RankIn(group, member, u)
           y == RankIn(group', member', u)
           G == req[q].groups
<1>1. EndRoles(q) /\ req[q].actor = u /\ \A g \in G : Shown(u, g)
  BY DEF EndsAllowed, StillAllowed, End, EndCreate, EndRoles, EndDelete, EndRestore,
         EndNewRole, EndEditRole, EndDropRole, IInv, Pending, InHand, OwnAccount
<1>2. /\ group \in [Groups -> Row] /\ member \in [Users -> SUBSET Groups]
      /\ group' \in [Groups -> Row] /\ member' \in [Users -> SUBSET Groups]
  BY DEF IInv, TypeOK
<1>3. group' = group /\ member'[u] = G
  BY <1>1, <1>2 DEF EndRoles
<1>4. /\ x \in 0 .. Top /\ y \in 0 .. Top
      /\ \A k \in 1 .. Top : y >= k <=> Reaches(group', member', u, k)
  BY <1>2, RankReaches
<1>5. x = UserRank(u) /\ y = UserRank(u)' /\ (u \in Superusers => x = Top)
  <2>1. x = UserRank(u)
    BY RankIsRankIn
  <2>2. y = UserRank(u)'
    BY RankIsRankInNext
  <2>3. u \in Superusers => x = Top
    BY DEF RankIn
  <2> QED
    BY <2>1, <2>2, <2>3
<1> HIDE DEF x, y
<1>6. ASSUME y > x PROVE y = Base
  <2>1. y \in 1 .. Top /\ u \notin Superusers
    BY <1>4, <1>5, <1>6, ConstantsAssumption
  <2>2. PICK g \in G : group[g].name # NoName /\ RankOf[group[g].name] >= y
    BY <1>3, <1>4, <2>1, ConstantsAssumption DEF Reaches
  <2>3. g \in Groups /\ group[g].name \in Names
    BY <1>2, <1>3, <2>2 DEF Row
  <2>4. RankOf[group[g].name] \in Nat
    BY <2>3, ConstantsAssumption
  <2>5. RankOf[group[g].name] = Base
    BY <1>1, <1>4, <1>5, <1>6, <2>2, <2>4, ConstantsAssumption DEF Shown, RoleRank
  <2>6. Reaches(group', member', u, Base)
    BY <1>3, <2>2, <2>5, ConstantsAssumption DEF Reaches
  <2>7. y >= Base
    BY <1>4, <2>6, ConstantsAssumption
  <2> QED
    BY <1>4, <2>2, <2>5, <2>7, ConstantsAssumption
<1> QED
  BY <1>4, <1>5, <1>6, ConstantsAssumption

LEMMA RankStep ==
  ASSUME IInv, IInv', NEW q \in Requests, EndsAllowed(q), NEW u \in Users,
         req[q].kind = "me" => u # req[q].user, UserRank(u)' # UserRank(u)
  PROVE  LET a == req[q].actor IN
         RankAllows(UserRank(a), UserRank(u)) /\ RankAllows(UserRank(a), UserRank(u)')
<1> DEFINE a == req[q].actor
<1>1. CASE UserRank(a) = Top
  BY <1>1 DEF RankAllows
<1>2. CASE UserRank(a) # Top
  <2>1. req[q].kind # "none" /\ req[q] \in Request
    BY DEF IInv, TypeOK, EndsAllowed, End, EndCreate, EndRoles, EndDelete, EndRestore,
           EndNewRole, EndEditRole, EndDropRole
  <2>2. a \in Users
    BY <2>1 DEF Request, NoRequest
  <2>3. UserRank(a) \in 0 .. Top
    BY <2>2, RankType
  <2>4. /\ group \in [Groups -> Row] /\ member \in [Users -> SUBSET Groups]
        /\ group' \in [Groups -> Row] /\ member' \in [Users -> SUBSET Groups]
    BY DEF IInv, TypeOK
  <2>5. \A k \in 1 .. Top : k >= UserRank(a) =>
          (Reaches(group, member, u, k) <=> Reaches(group', member', u, k))
    BY <1>2, KeepsReach
  <2>6. RankIn(group, member, u) # RankIn(group', member', u)
    BY RankIsRankIn, RankIsRankInNext
  <2>7. RankIn(group, member, u) < UserRank(a) /\ RankIn(group', member', u) < UserRank(a)
    BY <2>3, <2>4, <2>5, <2>6, RankMovesBelow
  <2>8. /\ RankIn(group, member, u) \in 0 .. Top
        /\ RankIn(group', member', u) \in 0 .. Top
    BY <2>4, RankReaches
  <2> QED
    BY <2>3, <2>7, <2>8, RankIsRankIn, RankIsRankInNext, ConstantsAssumption DEF RankAllows
<1> QED
  BY <1>1, <1>2

\* One's permissions come from the roles up to one's own rank.
LEMMA HoldsBelow ==
  ASSUME IInv, NEW a \in Users, NEW k \in 1 .. Top, UserRank(a) < k
  PROVE  Holds(a) \subseteq GrantedBelow(k)
<1>1. group \in [Groups -> Row] /\ member \in [Users -> SUBSET Groups]
  BY DEF IInv, TypeOK
<1>2. UserRank(a) \in 0 .. Top
      /\ \A i \in 1 .. Top : UserRank(a) >= i <=> Reaches(group, member, a, i)
  BY RankType
<1>3. a \notin Superusers
  BY <1>2, ConstantsAssumption DEF UserRank
<1>4. ASSUME NEW g \in member[a] PROVE Present(g) /\ g \in Groups /\ RoleRank(group[g].name) < k
  <2>1. Present(g) /\ g \in Groups /\ group[g].name \in Names
    BY <1>1 DEF IInv, MembersPresent, Present, Row
  <2>2. RankOf[group[g].name] \in 1 .. Top
    BY <2>1, ConstantsAssumption
  <2>3. Reaches(group, member, a, RankOf[group[g].name])
    BY <2>1, <2>2 DEF Reaches, Present
  <2>4. UserRank(a) >= RankOf[group[g].name]
    BY <1>2, <2>2, <2>3
  <2> QED
    BY <1>2, <2>1, <2>2, <2>4, ConstantsAssumption DEF RoleRank
<1> QED
  BY <1>3, <1>4 DEF Holds, GrantedBelow

LEMMA PermissionStep ==
  ASSUME IInv, NEW q \in Requests, EndsAllowed(q), NEW k \in 1 .. Top,
         UserRank(req[q].actor) < k
  PROVE  GrantedBelow(k)' \subseteq GrantedBelow(k)
<1> DEFINE r == req[q]
           a == r.actor
<1>1. End(q) /\ StillAllowed(r) /\ r \in Request
  BY DEF EndsAllowed, IInv, TypeOK
<1>2. group \in [Groups -> Row] /\ member \in [Users -> SUBSET Groups]
  BY DEF IInv, TypeOK
<1>3. r.kind # "none"
  BY <1>1 DEF End, EndCreate, EndRoles, EndDelete, EndRestore, EndNewRole, EndEditRole, EndDropRole
<1>4. a \in Users /\ r.groups \in SUBSET Groups
  BY <1>1, <1>3 DEF Request, NoRequest
<1>5. Holds(a) \subseteq GrantedBelow(k)
  BY <1>4, HoldsBelow
<1>6. UserRank(a) \in 0 .. Top /\ UserRank(a) # Top
  BY <1>4, RankType, ConstantsAssumption
<1>7. SUFFICES ASSUME NEW g \in Groups, group'[g].name # NoName,
                      RankOf[group'[g].name] < k, NEW p \in group'[g].perms
               PROVE  p \in GrantedBelow(k)
  BY DEF GrantedBelow, Present, RoleRank
<1>8. ASSUME Present(g), RankOf[group[g].name] < k, p \in group[g].perms
      PROVE  p \in GrantedBelow(k)
  BY <1>8 DEF GrantedBelow, RoleRank
<1>9. CASE group' = group
  BY <1>7, <1>8, <1>9 DEF Present
<1>10. CASE EndNewRole(q)
  <2>1. PICK h \in Groups : group' = [group EXCEPT ![h] = [name |-> r.name, perms |-> r.perms]]
    BY <1>10 DEF EndNewRole
  <2>2. r.perms \subseteq Holds(a)
    BY <1>1, <1>10 DEF EndNewRole, StillAllowed, CanGrant
  <2>3. CASE g = h
    <3>1. group'[g].perms = r.perms
      BY <1>2, <2>1, <2>3
    <3> QED
      BY <1>5, <1>7, <2>2, <3>1
  <2>4. CASE g # h
    BY <1>2, <1>7, <1>8, <2>1, <2>4 DEF Present
  <2> QED
    BY <2>3, <2>4
<1>11. CASE EndEditRole(q)
  <2>1. r.kind = "editRole"
        /\ group'[g] = IF g \in r.groups
             THEN [name |-> r.name, perms |-> IF r.keep THEN group[g].perms ELSE r.perms]
             ELSE group[g]
    BY <1>11 DEF EndEditRole
  <2>2. CASE g \notin r.groups
    BY <1>7, <1>8, <2>1, <2>2 DEF Present
  <2>3. CASE g \in r.groups
    <3>1. Present(g) /\ CanCreateRole(a, group[g].name)
          /\ (r.keep \/ r.perms \subseteq group[g].perms \cup Holds(a))
      BY <1>1, <2>1, <2>3 DEF StillAllowed, CanGrant
    <3>2. RankOf[group[g].name] < k
      <4>1. group[g].name \in Names
        BY <1>2, <3>1 DEF Present, Row
      <4>2. RankOf[group[g].name] \in Nat
        BY <4>1, ConstantsAssumption
      <4>3. UserRank(a) > RankOf[group[g].name]
        BY <1>6, <3>1, Outranked
      <4> QED
        BY <1>6, <4>2, <4>3, ConstantsAssumption
    <3>3. p \in group[g].perms \cup Holds(a)
      BY <1>7, <2>1, <2>3, <3>1
    <3> QED
      BY <1>5, <1>8, <3>1, <3>2, <3>3
  <2> QED
    BY <2>2, <2>3
<1>12. CASE EndDropRole(q)
  <2>1. group'[g] = IF g \in r.groups THEN NoRow ELSE group[g]
    BY <1>12 DEF EndDropRole, Dropped
  <2>2. NoRow.perms = {}
    BY DEF NoRow
  <2> QED
    BY <1>7, <1>8, <2>1, <2>2 DEF Present
<1> QED
  BY <1>1, <1>9, <1>10, <1>11, <1>12 DEF End, EndCreate, EndRoles, EndDelete, EndRestore

\* Nobody comes to the top but through a request checked at the top.
LEMMA TopStep ==
  ASSUME IInv, ProtectedKept, IInv', Next, NEW u \in Users,
         UserRank(u) # Top, UserRank(u)' = Top
  PROVE  \E q \in Requests : req[q].kind # "none" /\ req[q].rank = Top /\ End(q)
<1>1. /\ group \in [Groups -> Row] /\ member \in [Users -> SUBSET Groups]
      /\ group' \in [Groups -> Row] /\ member' \in [Users -> SUBSET Groups]
  BY DEF IInv, TypeOK
<1>2. Top \in 1 .. Top
  BY ConstantsAssumption
<1>3. Reaches(group', member', u, Top) /\ ~Reaches(group, member, u, Top)
  <2>1. /\ RankIn(group, member, u) \in 0 .. Top
        /\ RankIn(group, member, u) >= Top <=> Reaches(group, member, u, Top)
        /\ RankIn(group', member', u) >= Top <=> Reaches(group', member', u, Top)
    BY <1>1, <1>2, RankReaches
  <2> QED
    BY <2>1, RankIsRankIn, RankIsRankInNext, ConstantsAssumption
<1>4. PICK g \in member'[u] : group'[g].name # NoName /\ RankOf[group'[g].name] >= Top
  BY <1>3 DEF Reaches
<1>5. g \in Groups /\ group'[g].name \in Names /\ group'[g].name \in Protected
  <2>1. g \in Groups /\ group'[g].name \in Names
    BY <1>1, <1>4 DEF Row
  <2>2. RankOf[group'[g].name] \in Base .. Top /\ Base \in Nat /\ Top \in Nat
    BY <2>1, ConstantsAssumption
  <2>3. RankOf[group'[g].name] = Top
    BY <1>4, <2>2
  <2> QED
    BY <2>1, <2>3, ConstantsAssumption
<1>6. group[g] = group'[g]
  BY <1>5 DEF ProtectedKept
<1>7. g \notin member[u] /\ TopRow(g)
  BY <1>3, <1>4, <1>5, <1>6, ConstantsAssumption DEF Reaches, TopRow, Present
<1>8. PICK q \in Requests : EndCreate(q) \/ EndRoles(q)
  <2> SUFFICES ASSUME ~\E q \in Requests : EndCreate(q) \/ EndRoles(q) PROVE FALSE
    OBVIOUS
  <2>1. ~(member'[u] \subseteq member[u])
    BY <1>4, <1>7
  <2>2. ASSUME NEW q \in Requests, NEW a \in Users,
               BeginRole(q, a) \/ BeginMe(q, a) \/ \E v \in Users : BeginUser(q, a, v)
        PROVE  FALSE
    <3>1. member' = member
      BY <2>2
      DEF BeginRole, BeginMe, BeginUser, BeginCreate, BeginRoles, BeginDelete, BeginRestore,
          BeginNewRole, BeginEditRole, BeginDropRole, BeginUserRequest, BeginRoleRequest, Begin
    <3> QED
      BY <2>1, <3>1
  <2>3. ASSUME NEW q \in Requests, End(q) \/ Abandon(q) PROVE FALSE
    <3>1. CASE EndDropRole(q)
      <4>1. member'[u] = member[u] \ req[q].groups
        BY <3>1 DEF EndDropRole, Dropped
      <4> QED
        BY <2>1, <4>1
    <3>2. CASE EndDelete(q) \/ EndRestore(q) \/ EndNewRole(q) \/ EndEditRole(q) \/ Abandon(q)
      <4>1. member' = member
        BY <3>2 DEF EndDelete, EndRestore, EndNewRole, EndEditRole, Abandon
      <4> QED
        BY <2>1, <4>1
    <3> QED
      BY <2>3, <3>1, <3>2 DEF End
  <2>4. CASE SetupRoles
    BY <2>1, <2>4 DEF SetupRoles
  <2>5. CASE Prune
    <3>1. member'[u] = member[u] \ {h \in Groups : group[h].name \in Names \ Declared}
      BY <2>5 DEF Prune, Dropped
    <3> QED
      BY <2>1, <3>1
  <2> QED
    BY <2>2, <2>3, <2>4, <2>5 DEF Next
<1>9. g \in req[q].groups /\ req[q].kind \in {"create", "roles", "me"} /\ End(q)
  <2>1. member' = [member EXCEPT ![req[q].user] = req[q].groups]
    BY <1>8 DEF EndCreate, EndRoles
  <2>2. g \in req[q].groups
    BY <1>1, <1>7, <2>1
  <2> QED
    BY <1>8, <2>2 DEF EndCreate, EndRoles, End
<1>10. req[q].rank = Top
  BY <1>7, <1>9 DEF IInv, Pending, InHand, HandsDown
<1> QED
  BY <1>9, <1>10

-----------------------------------------------------------------------------
(* Theorems *)

\* Every variable keeps its type.
THEOREM TypeCorrect == Spec => []TypeOK
BY Invariant, PTL DEF IInv

\* superadmin stays as the matrix has it, whatever requests overlap.
THEOREM ProtectedRoleStays == Spec => []ProtectedRoleIntact
BY Invariant, PTL DEF IInv

\* A request that still passes its checks moves only ranks below its actor's, and
\* only to ranks below it; on /auth/me/ one's own, down or to the lowest.
THEOREM RanksMoveFromAbove == Spec => RankMovesOnlyFromAbove
<1> DEFINE A == \A q \in Requests : EndsAllowed(q) => \A u \in Users : UserRank(u)' # UserRank(u) =>
       LET a == req[q].actor IN
       \/ RankAllows(UserRank(a), UserRank(u)) /\ RankAllows(UserRank(a), UserRank(u)')
       \/ /\ req[q].kind = "me" /\ a = u
          /\ UserRank(u)' < UserRank(u) \/ UserRank(u)' = Base
<1>1. IInv /\ IInv' /\ [Next]_vars => [A]_vars
  <2> SUFFICES ASSUME IInv, IInv', NEW q \in Requests, EndsAllowed(q), NEW u \in Users,
                      UserRank(u)' # UserRank(u)
               PROVE  LET a == req[q].actor IN
                      \/ RankAllows(UserRank(a), UserRank(u)) /\ RankAllows(UserRank(a), UserRank(u)')
                      \/ /\ req[q].kind = "me" /\ a = u
                         /\ UserRank(u)' < UserRank(u) \/ UserRank(u)' = Base
    OBVIOUS
  <2>1. CASE req[q].kind = "me" /\ u = req[q].user
    <3>1. req[q].actor = u
      BY <2>1 DEF IInv, Pending, InHand, OwnAccount
    <3> QED
      BY <2>1, <3>1, OwnRankStep
  <2>2. CASE req[q].kind = "me" => u # req[q].user
    BY <2>2, RankStep
  <2> QED
    BY <2>1, <2>2
<1> QED
  BY <1>1, Invariant, PTL DEF Spec, RankMovesOnlyFromAbove

\* Stale requests included, the top rank is reached only through a request whose
\* actor had it when it was checked.
THEOREM TopIsHandedDown == Spec => TopComesFromTop
<1> DEFINE A == \A u \in Users : UserRank(u) # Top /\ UserRank(u)' = Top =>
       \E q \in Requests : req[q].kind # "none" /\ req[q].rank = Top /\ End(q)
<1>1. IInv /\ IInv' /\ [Next]_vars => [A]_vars
  BY NextStep, TopStep
<1> QED
  BY <1>1, Invariant, PTL DEF Spec, TopComesFromTop

\* A request that still passes its checks brings no permission into the roles
\* below a rank that its actor does not reach.
THEOREM PermissionsDoNotLeak == Spec => PermissionsStayBelow
<1> DEFINE A == \A q \in Requests : EndsAllowed(q) => \A k \in 1 .. Top :
       UserRank(req[q].actor) < k => GrantedBelow(k)' \subseteq GrantedBelow(k)
<1>1. IInv /\ [Next]_vars => [A]_vars
  <2> SUFFICES ASSUME IInv, NEW q \in Requests, EndsAllowed(q), NEW k \in 1 .. Top,
                      UserRank(req[q].actor) < k
               PROVE  GrantedBelow(k)' \subseteq GrantedBelow(k)
    OBVIOUS
  <2> QED
    BY PermissionStep
<1> QED
  BY <1>1, Invariant, PTL DEF Spec, PermissionsStayBelow
=============================================================================
