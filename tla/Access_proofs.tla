---------------------------- MODULE Access_proofs ----------------------------
(***************************************************************************)
(* What holds of a tenant's members and their roles, for any number of     *)
(* users, API keys and requests, when requests do not overlap: the tenant  *)
(* keeps an administrator (AdministratorKept), the organization an owner   *)
(* (OwnerKept), and roles go with membership (MembersSound).               *)
(* As the instance Auth, what holds of an account of Sessions, wherever    *)
(* Keycloak fails or the server stops: LockedOut, ExchangedOnce,           *)
(* ResetReplaces and, however requests overlap, RevokedStays.              *)
(***************************************************************************)
EXTENDS Access, FiniteSetTheorems, TLAPS

Values == {"none", "invited", "active", "suspended", "member", "owner", "plain", "admin"}

LEMMA ColumnsApart ==
    /\ Tenant \in Columns
    /\ \A role \in Roles : Permissions(role) \in Columns
    /\ \A p \in Principals : Member(p) \in Columns
    /\ \A u \in Users : Org(u) \in Columns /\ OrgRole(u) \in Columns
    /\ \A p \in Principals, role \in Roles : Binding(p, role) \in Columns
    /\ \A k \in KeyIds : Key(k) \in Columns
BY DEF Columns

LEMMA NamesApart ==
    /\ \A x, y : /\ Org(x) # OrgRole(y) /\ Org(x) # Member(y) /\ Org(x) # Key(y)
                 /\ Org(x) # Permissions(y) /\ OrgRole(x) # Member(y) /\ OrgRole(x) # Key(y)
                 /\ OrgRole(x) # Permissions(y) /\ Member(x) # Key(y) /\ Member(x) # Permissions(y)
                 /\ Key(x) # Permissions(y)
    /\ \A x : Tenant \notin {Org(x), OrgRole(x), Member(x), Key(x), Permissions(x)}
    /\ \A x, y, z : Binding(x, y) \notin {Org(z), OrgRole(z), Member(z), Key(z), Permissions(z), Tenant}
    /\ \A x, y : x # y => Org(x) # Org(y) /\ OrgRole(x) # OrgRole(y) /\ Member(x) # Member(y)
    /\ \A x, y, p, q : Binding(x, p) = Binding(y, q) => x = y /\ p = q
BY DEF Org, OrgRole, Member, Key, Permissions, Tenant, Binding

-----------------------------------------------------------------------------
(* The inductive invariants.                                               *)

Bindings == {Binding(u, role) : u \in Users, role \in Roles}

Inv ==
    /\ TypeOK
    /\ DOMAIN writes = Req
    /\ \A r \in Req : \A c \in DOMAIN writes[r] : writes[r][c] \in Values

MembersIn(rows, out) ==
    \A u \in Users :
        /\ \A role \in Roles :
              rows[Binding(u, role)] = "active" => rows[Member(u)] = "active" \/ Binding(u, role) \in out
        /\ rows[Member(u)] = "active" => rows[Org(u)] # "none"

OwnedIn(rows) == \E u \in Users : rows[Org(u)] = "active" /\ rows[OrgRole(u)] = "owner"

AdministeredIn(rows) == \E p \in Principals : rows[Binding(p, "tenant-admin")] = "active"

Sound(rows) == MembersIn(rows, outside) /\ OwnedIn(rows) /\ (~overruled => AdministeredIn(rows))

\* Alone, a request is going to leave sound rows.
SerialInv == Alone /\ (~overlapped => Sound(db) /\ \A r \in Req : Sound(After(r)))

\* The history of a request that adds nothing to it.
UnchangedHistory ==
    /\ overruled \in BOOLEAN /\ outside \subseteq Bindings
    /\ overruled' = overruled /\ outside' = outside

\* What the invariants need of a handler.
Handles(r) ==
    \E new :
        /\ Begin(r, new)
        /\ \A c \in Columns : new[c] \in Values
        /\ overruled' \in BOOLEAN /\ (overruled => overruled')
        /\ outside' \subseteq Bindings /\ outside \subseteq outside'
        /\ MembersIn(db, outside) => MembersIn(new, outside')
        /\ OwnedIn(db) => OwnedIn(new)
        /\ ~overruled' /\ AdministeredIn(db) => AdministeredIn(new)

-----------------------------------------------------------------------------
(* Members.                                                                *)

\* The columns the properties are about.
Relevant ==
    {Org(u) : u \in Users} \cup {OrgRole(u) : u \in Users} \cup {Member(u) : u \in Users}
      \cup {Binding(p, role) : p \in Principals, role \in Roles}

LEMMA RelevantColumns ==
    /\ Relevant \subseteq Columns
    /\ \A u \in Users : Org(u) \in Relevant /\ OrgRole(u) \in Relevant /\ Member(u) \in Relevant
    /\ \A p \in Principals, role \in Roles : Binding(p, role) \in Relevant
    /\ Tenant \notin Relevant /\ \A x : Key(x) \notin Relevant /\ Permissions(x) \notin Relevant
    /\ Member(Robot) \notin Relevant
    /\ Users \subseteq Principals /\ Robot \in Principals /\ "tenant-admin" \in Roles /\ "custom" \in Roles
BY FounderAssumption, NamesApart DEF Relevant, Columns, Principals, Roles

LEMMA SoundSame ==
    ASSUME NEW a, NEW b, \A c \in Relevant : a[c] = b[c]
    PROVE  /\ \A out : MembersIn(a, out) <=> MembersIn(b, out)
           /\ OwnedIn(a) <=> OwnedIn(b)
           /\ AdministeredIn(a) <=> AdministeredIn(b)
<1>1. \A u \in Users : a[Org(u)] = b[Org(u)] /\ a[OrgRole(u)] = b[OrgRole(u)] /\ a[Member(u)] = b[Member(u)]
  BY RelevantColumns
<1>2. \A p \in Principals, role \in Roles : a[Binding(p, role)] = b[Binding(p, role)] BY RelevantColumns
<1>3. \A u \in Users : u \in Principals BY RelevantColumns
<1>4. \A out : MembersIn(a, out) <=> MembersIn(b, out) BY <1>1, <1>2, <1>3 DEF MembersIn
<1>5. OwnedIn(a) <=> OwnedIn(b) BY <1>1 DEF OwnedIn
<1>6. AdministeredIn(a) <=> AdministeredIn(b) BY <1>2, RelevantColumns DEF AdministeredIn
<1> QED BY <1>4, <1>5, <1>6

LEMMA DbTyped == ASSUME Inv PROVE DOMAIN db = Columns /\ \A c \in Columns : db[c] \in Values
BY DEF Inv, TypeOK, Values

\* Requests that touch none of those columns.
LEMMA ElsewhereHandles ==
    ASSUME Inv, NEW r \in Req, NEW new, Request(r, new),
           \A c \in Columns : new[c] \in Values, \A c \in Relevant : new[c] = db[c]
    PROVE  Handles(r)
<1>1. Begin(r, new) /\ UnchangedHistory BY DEF Request, UnchangedHistory, Bindings, Inv, TypeOK
<1> QED BY <1>1, SoundSame DEF Handles, UnchangedHistory

\* Requests that bind a role to a member, who may have become one with it.
LEMMA BindHandles ==
    ASSUME Inv, NEW r \in Req, NEW new, NEW p \in Principals, NEW role \in Roles, Request(r, new),
           \A c \in Columns : new[c] \in {db[c], "active"},
           \A c \in Relevant : new[c] = IF c \in {Binding(p, role), Member(p)} THEN "active" ELSE db[c],
           MembersIn(db, outside) /\ p \in Users => db[Org(p)] # "none"
    PROVE  Handles(r)
<1>1. Begin(r, new) /\ UnchangedHistory BY DEF Request, UnchangedHistory, Bindings, Inv, TypeOK
<1>2. \A c \in Columns : new[c] \in Values BY DbTyped DEF Values
<1>3. /\ \A u \in Users : /\ new[Org(u)] = db[Org(u)] /\ new[OrgRole(u)] = db[OrgRole(u)]
                          /\ new[Member(u)] = IF u = p THEN "active" ELSE db[Member(u)]
      /\ \A u \in Principals, x \in Roles :
            new[Binding(u, x)] = IF u = p /\ x = role THEN "active" ELSE db[Binding(u, x)]
  BY RelevantColumns, ColumnsApart, NamesApart
<1>4. MembersIn(db, outside) => MembersIn(new, outside)
  BY <1>3, RelevantColumns DEF MembersIn
<1>5. OwnedIn(db) => OwnedIn(new) BY <1>3 DEF OwnedIn
<1>6. AdministeredIn(db) => AdministeredIn(new) BY <1>3, RelevantColumns DEF AdministeredIn
<1> QED BY <1>1, <1>2, <1>4, <1>5, <1>6 DEF Handles, UnchangedHistory

LEMMA GrantHandles ==
    ASSUME Inv, NEW r \in Req, NEW p \in Principals, NEW role \in Roles,
           db[Member(p)] = "active", Request(r, Bound(db, p, role))
    PROVE  Handles(r)
<1> DEFINE new == Bound(db, p, role)
<1>1. \A c \in Columns : new[c] = IF c \in {Binding(p, role), Member(p)} THEN "active" ELSE db[c]
  BY DbTyped, ColumnsApart DEF Bound
<1>2. MembersIn(db, outside) /\ p \in Users => db[Org(p)] # "none" BY DEF MembersIn
<1> HIDE DEF new
<1> QED BY <1>1, <1>2, RelevantColumns, BindHandles DEF new

\* An operator's grant to a user who is no member is on record.
LEMMA OperatorGrantHandles ==
    ASSUME Inv, NEW r \in Req, NEW p \in Principals, NEW role \in Roles, GrantBinding(r, p, role)
    PROVE  Handles(r)
<1> DEFINE new == Bound(db, p, role)
<1>1. CASE db[Member(p)] = "active"
  <2>1. Request(r, Bound(db, p, role)) BY <1>1 DEF GrantBinding, Request
  <2> QED BY <1>1, <2>1, GrantHandles
<1>2. CASE db[Member(p)] # "active"
  <2>1. /\ Begin(r, new) /\ overruled' = overruled /\ overruled \in BOOLEAN /\ outside \subseteq Bindings
        /\ outside' = outside \cup {Binding(p, role)} /\ p # Robot
    BY <1>2 DEF GrantBinding, Bindings, Inv, TypeOK
  <2>2. p \in Users /\ Binding(p, role) \in Bindings /\ Binding(p, role) \in Columns
    BY <2>1, ColumnsApart DEF Principals, Bindings
  <2>3. \A c \in Columns : new[c] = IF c = Binding(p, role) THEN "active" ELSE db[c]
    BY <2>2, DbTyped DEF Bound
  <2> HIDE DEF new
  <2>4. \A c \in Columns : new[c] \in Values BY <2>3, DbTyped DEF Values
  <2>5. /\ \A u \in Users : /\ new[Org(u)] = db[Org(u)] /\ new[OrgRole(u)] = db[OrgRole(u)]
                            /\ new[Member(u)] = db[Member(u)]
        /\ \A u \in Principals, x \in Roles :
              new[Binding(u, x)] = IF u = p /\ x = role THEN "active" ELSE db[Binding(u, x)]
    BY <2>3, RelevantColumns, ColumnsApart, NamesApart
  <2>6. MembersIn(db, outside) => MembersIn(new, outside')
    BY <2>1, <2>5, RelevantColumns DEF MembersIn
  <2>7. OwnedIn(db) => OwnedIn(new) BY <2>5 DEF OwnedIn
  <2>8. AdministeredIn(db) => AdministeredIn(new) BY <2>5, RelevantColumns DEF AdministeredIn
  <2> QED BY <2>1, <2>2, <2>4, <2>6, <2>7, <2>8 DEF Handles
<1> QED BY <1>1, <1>2

LEMMA InviteHandles ==
    ASSUME Inv, NEW r \in Req, NEW c \in Users, NEW u \in Users, NEW role \in Roles,
           InviteTenantMember(r, c, u, role)
    PROVE  Handles(r)
<1> DEFINE new == Bound([db EXCEPT ![Member(u)] = "active"], u, role)
<1>1. u \in Principals BY RelevantColumns
<1>2. \A x \in Columns : new[x] = IF x \in {Binding(u, role), Member(u)} THEN "active" ELSE db[x]
  BY <1>1, DbTyped, ColumnsApart, NamesApart DEF Bound
<1>3. db[Org(u)] # "none" /\ Request(r, new) BY DEF InviteTenantMember
<1> HIDE DEF new
<1> QED BY <1>1, <1>2, <1>3, RelevantColumns, BindHandles

\* Requests that take bindings, and perhaps the memberships, of p away.  The
\* guards leave another administrator, or the removal is on record.
LEMMA UnbindHandles ==
    ASSUME Inv, NEW r \in Req, NEW new, NEW p \in Principals, NEW gone \in SUBSET Columns, Begin(r, new),
           \A c \in Columns : new[c] = IF c \in gone THEN "none" ELSE db[c],
           \A c \in gone \cap Relevant :
              c \in {Org(p), OrgRole(p), Member(p)} \cup {Binding(p, role) : role \in Roles},
           Org(p) \in gone => Member(p) \in gone /\ \E u \in Users : u # p /\ OrgOwner(u),
           OrgRole(p) \in gone => Org(p) \in gone,
           Member(p) \in gone => \A role \in Roles : Binding(p, role) \in gone,
           overruled' \in BOOLEAN, overruled => overruled', outside' = outside, outside \subseteq Bindings,
           ~overruled' /\ Binding(p, "tenant-admin") \in gone /\ db[Binding(p, "tenant-admin")] = "active" =>
              count_active_tenant_admins > 1
    PROVE  Handles(r)
<1>1. \A c \in Columns : new[c] \in Values BY DbTyped DEF Values
<1>2. /\ \A u \in Users : u # p => /\ new[Org(u)] = db[Org(u)] /\ new[OrgRole(u)] = db[OrgRole(u)]
                                   /\ new[Member(u)] = db[Member(u)]
      /\ \A u \in Principals, role \in Roles : u # p => new[Binding(u, role)] = db[Binding(u, role)]
  BY RelevantColumns, NamesApart
<1>3. ASSUME MembersIn(db, outside) PROVE MembersIn(new, outside)
  <2>1. ASSUME NEW u \in Users, u # p
        PROVE  /\ \A role \in Roles : new[Binding(u, role)] = "active" => new[Member(u)] = "active" \/ Binding(u, role) \in outside
               /\ new[Member(u)] = "active" => new[Org(u)] # "none"
    BY <1>2, <1>3, <2>1, RelevantColumns DEF MembersIn
  <2>2. ASSUME p \in Users
        PROVE  /\ \A role \in Roles : new[Binding(p, role)] = "active" => new[Member(p)] = "active" \/ Binding(p, role) \in outside
               /\ new[Member(p)] = "active" => new[Org(p)] # "none"
    BY <1>3, <2>2, ColumnsApart DEF MembersIn
  <2> QED BY <2>1, <2>2 DEF MembersIn
<1>4. ASSUME OwnedIn(db) PROVE OwnedIn(new)
  <2>1. CASE Org(p) \in gone BY <1>2, <2>1 DEF OwnedIn, OrgOwner
  <2>2. CASE Org(p) \notin gone
    <3>1. \A u \in Users : new[Org(u)] = db[Org(u)] /\ new[OrgRole(u)] = db[OrgRole(u)]
      BY <1>2, <2>2, ColumnsApart
    <3> QED BY <1>4, <3>1 DEF OwnedIn
  <2> QED BY <2>1, <2>2
<1>5. ASSUME ~overruled', AdministeredIn(db) PROVE AdministeredIn(new)
  <2> DEFINE S == {q \in Principals : db[Binding(q, "tenant-admin")] = "active"}
  <2>1. PICK q \in S : TRUE BY <1>5 DEF AdministeredIn
  <2>2. ASSUME NEW x \in S, x # p PROVE AdministeredIn(new)
    BY <1>2, <2>2, RelevantColumns DEF AdministeredIn
  <2>3. CASE q = p /\ Binding(p, "tenant-admin") \in gone
    <3>1. Cardinality(S) > 1 BY <1>5, <2>3 DEF count_active_tenant_admins
    <3>2. S # {p}
      <4>1. Cardinality({p}) = 1 BY FS_Singleton
      <4> QED BY <3>1, <4>1
    <3>3. PICK x \in S : x # p BY <2>1, <2>3, <3>2
    <3> QED BY <2>2, <3>3
  <2>4. CASE q = p /\ Binding(p, "tenant-admin") \notin gone
    BY <2>4, ColumnsApart, RelevantColumns DEF AdministeredIn
  <2> QED BY <2>1, <2>2, <2>3, <2>4
<1> QED BY <1>1, <1>3, <1>4, <1>5 DEF Handles

LEMMA RevokeHandles ==
    ASSUME Inv, NEW r \in Req, NEW p \in Principals, NEW role \in Roles,
           Begin(r, Unbound(db, p, role)), overruled' \in BOOLEAN, overruled => overruled',
           outside' = outside, outside \subseteq Bindings,
           ~overruled' /\ role = "tenant-admin" => count_active_tenant_admins > 1
    PROVE  Handles(r)
<1> DEFINE new == Unbound(db, p, role)
           gone == {Binding(p, role)}
<1>1. gone \in SUBSET Columns /\ Binding(p, role) \in Columns BY ColumnsApart
<1>2. \A c \in Columns : new[c] = IF c \in gone THEN "none" ELSE db[c]
  BY <1>1, DbTyped DEF Unbound
<1>3. /\ Org(p) \notin gone /\ OrgRole(p) \notin gone /\ Member(p) \notin gone
      /\ Binding(p, "tenant-admin") \in gone => role = "tenant-admin"
      /\ \A c \in gone : c \in {Binding(p, x) : x \in Roles}
  BY NamesApart
<1>4. Begin(r, new) OBVIOUS
<1> HIDE DEF new, gone
<1> QED BY <1>1, <1>2, <1>3, <1>4, UnbindHandles

\* What remove_member takes away.
Gone(u) == {Binding(u, role) : role \in Roles} \cup {Member(u)}

LEMMA GoneColumns ==
    ASSUME NEW u \in Users
    PROVE  /\ Gone(u) \subseteq Columns /\ Member(u) \in Gone(u) /\ \A role \in Roles : Binding(u, role) \in Gone(u)
           /\ Org(u) \notin Gone(u) /\ OrgRole(u) \notin Gone(u)
           /\ \A c \in Columns : Removed(db, u)[c] = IF c \in Gone(u) THEN "none" ELSE db[c]
           /\ DOMAIN Removed(db, u) = Columns
BY ColumnsApart, RelevantColumns, NamesApart DEF Gone, Removed

LEMMA RemoveTenantHandles ==
    ASSUME Inv, NEW r \in Req, NEW c \in Users, NEW u \in Users, RemoveTenantMember(r, c, u)
    PROVE  Handles(r)
<1>1. /\ Begin(r, Removed(db, u)) /\ UnchangedHistory
      /\ db[Binding(u, "tenant-admin")] = "active" => count_active_tenant_admins > 1
  BY DEF RemoveTenantMember, Request, UnchangedHistory, Bindings, Inv, TypeOK
<1>2. u \in Principals /\ Gone(u) \in SUBSET Columns BY RelevantColumns, GoneColumns
<1>3. \A x \in Gone(u) : x \in {Org(u), OrgRole(u), Member(u)} \cup {Binding(u, role) : role \in Roles}
  BY DEF Gone
<1> QED BY <1>1, <1>2, <1>3, GoneColumns, UnbindHandles DEF UnchangedHistory

LEMMA RemoveOrgHandles ==
    ASSUME Inv, NEW r \in Req, NEW c \in Users, NEW u \in Users, RemoveOrgMember(r, c, u)
    PROVE  Handles(r)
<1> DEFINE new == [Removed(db, u) EXCEPT ![Org(u)] = "none", ![OrgRole(u)] = "none"]
           gone == Gone(u) \cup {Org(u), OrgRole(u)}
<1>1. OrgOwner(c) /\ c # u /\ Begin(r, new) BY DEF RemoveOrgMember
<1>2. /\ overruled' \in BOOLEAN /\ (overruled => overruled')
      /\ ~overruled' => db[Binding(u, "tenant-admin")] # "active"
  BY DEF RemoveOrgMember, Inv, TypeOK
<1>3. u \in Principals /\ Org(u) \in Columns /\ OrgRole(u) \in Columns /\ gone \in SUBSET Columns
  BY RelevantColumns, ColumnsApart, GoneColumns
<1>4. \A x \in Columns : new[x] = IF x \in gone THEN "none" ELSE db[x]
  BY <1>3, GoneColumns
<1>5. \A x \in gone : x \in {Org(u), OrgRole(u), Member(u)} \cup {Binding(u, role) : role \in Roles}
  BY DEF Gone
<1>6. Org(u) \in gone /\ Member(u) \in gone /\ \A role \in Roles : Binding(u, role) \in gone
  BY GoneColumns
<1>7. outside' = outside /\ outside \subseteq Bindings BY DEF RemoveOrgMember, Bindings, Inv, TypeOK
<1> HIDE DEF new, gone
<1> QED BY <1>1, <1>2, <1>3, <1>4, <1>5, <1>6, <1>7, UnbindHandles

LEMMA InviteOrgHandles ==
    ASSUME Inv, NEW r \in Req, NEW c \in Users, NEW u \in Users, NEW role \in {"member", "owner"},
           InviteOrgMember(r, c, u, role)
    PROVE  Handles(r)
<1> DEFINE new == [db EXCEPT ![Org(u)] = "invited", ![OrgRole(u)] = role]
<1>1. Begin(r, new) /\ UnchangedHistory /\ db[Org(u)] = "none"
  BY DEF InviteOrgMember, Request, UnchangedHistory, Bindings, Inv, TypeOK
<1>2. \A x \in Columns : new[x] = IF x = OrgRole(u) THEN role ELSE IF x = Org(u) THEN "invited" ELSE db[x]
  BY DbTyped, ColumnsApart, NamesApart
<1> HIDE DEF new
<1>3. \A x \in Columns : new[x] \in Values BY <1>2, DbTyped DEF Values
<1>4. /\ \A v \in Users : /\ v # u => new[Org(v)] = db[Org(v)] /\ new[OrgRole(v)] = db[OrgRole(v)]
                          /\ new[Member(v)] = db[Member(v)]
      /\ new[Org(u)] = "invited"
      /\ \A p \in Principals, x \in Roles : new[Binding(p, x)] = db[Binding(p, x)]
  BY <1>2, ColumnsApart, RelevantColumns, NamesApart
<1>5. MembersIn(db, outside) => MembersIn(new, outside) BY <1>4, RelevantColumns DEF MembersIn
<1>6. OwnedIn(db) => OwnedIn(new) BY <1>1, <1>4 DEF OwnedIn
<1>7. AdministeredIn(db) => AdministeredIn(new) BY <1>4, RelevantColumns DEF AdministeredIn
<1> QED BY <1>1, <1>3, <1>5, <1>6, <1>7 DEF Handles, UnchangedHistory

LEMMA AcceptHandles ==
    ASSUME Inv, NEW r \in Req, NEW u \in Users, AcceptOrgInvite(r, u)
    PROVE  Handles(r)
<1> DEFINE new == [db EXCEPT ![Org(u)] = "active"]
<1>1. Begin(r, new) /\ UnchangedHistory
  BY DEF AcceptOrgInvite, Request, UnchangedHistory, Bindings, Inv, TypeOK
<1>2. \A x \in Columns : new[x] = IF x = Org(u) THEN "active" ELSE db[x]
  BY DbTyped, ColumnsApart
<1> HIDE DEF new
<1>3. \A x \in Columns : new[x] \in Values BY <1>2, DbTyped DEF Values
<1>4. /\ \A v \in Users : /\ new[Org(v)] = IF v = u THEN "active" ELSE db[Org(v)]
                          /\ new[OrgRole(v)] = db[OrgRole(v)] /\ new[Member(v)] = db[Member(v)]
      /\ \A p \in Principals, x \in Roles : new[Binding(p, x)] = db[Binding(p, x)]
  BY <1>2, ColumnsApart, RelevantColumns, NamesApart
<1>5. MembersIn(db, outside) => MembersIn(new, outside) BY <1>4, RelevantColumns DEF MembersIn
<1>6. OwnedIn(db) => OwnedIn(new) BY <1>4 DEF OwnedIn
<1>7. AdministeredIn(db) => AdministeredIn(new) BY <1>4, RelevantColumns DEF AdministeredIn
<1> QED BY <1>1, <1>3, <1>5, <1>6, <1>7 DEF Handles, UnchangedHistory

-----------------------------------------------------------------------------
(* The service account, its keys, and what operators change.               *)

LEMMA AccountHandles ==
    ASSUME Inv, NEW r \in Req, NEW c \in Users, NEW k \in KeyIds, CreateAccount(r, c, k)
    PROVE  Handles(r)
<1>1. /\ DOMAIN Created(k) = Columns
      /\ \A x \in Columns : Created(k)[x] = IF x \in {Member(Robot), Key(k)} THEN "active" ELSE db[x]
  BY DbTyped, ColumnsApart, RelevantColumns, NamesApart DEF Created
<1>2. CASE Request(r, Created(k))
  <2>1. \A x \in Columns : Created(k)[x] \in Values BY <1>1, DbTyped DEF Values
  <2>2. \A x \in Relevant : Created(k)[x] = db[x] BY <1>1, RelevantColumns
  <2> QED BY <1>2, <2>1, <2>2, ElsewhereHandles
<1>3. ASSUME NEW role \in RobotRoles, Request(r, Bound(Created(k), Robot, role)) PROVE Handles(r)
  <2> DEFINE new == Bound(Created(k), Robot, role)
  <2>1. role \in Roles /\ Robot \in Principals /\ Robot \notin Users
    BY RobotRolesAssumption, RelevantColumns, FounderAssumption
  <2>2. \A x \in Columns : new[x] = IF x = Binding(Robot, role) THEN "active" ELSE Created(k)[x]
    BY <1>1, <2>1, ColumnsApart DEF Bound
  <2>3. Request(r, new) BY <1>3
  <2> HIDE DEF new
  <2>4. \A x \in Columns : new[x] \in {db[x], "active"} BY <1>1, <2>2
  <2>5. \A x \in Relevant : new[x] = IF x \in {Binding(Robot, role), Member(Robot)} THEN "active" ELSE db[x]
    BY <1>1, <2>2, RelevantColumns
  <2> QED BY <2>1, <2>3, <2>4, <2>5, BindHandles
<1> QED BY <1>2, <1>3 DEF CreateAccount

LEMMA KeyHandles ==
    ASSUME Inv, NEW r \in Req, NEW c \in Users, NEW k \in KeyIds, NEW new \in KeyIds,
           RotateKey(r, c, k, new) \/ RevokeKey(r, c, k)
    PROVE  Handles(r)
<1>1. CASE RotateKey(r, c, k, new)
  <2> DEFINE rows == [db EXCEPT ![Key(k)] = "none", ![Key(new)] = "active"]
  <2>1. \A x \in Columns : rows[x] \in {db[x], "none", "active"} BY DbTyped
  <2>2. \A x \in Relevant : rows[x] = db[x] BY DbTyped, RelevantColumns
  <2>3. Request(r, rows) BY <1>1 DEF RotateKey
  <2> HIDE DEF rows
  <2>4. \A x \in Columns : rows[x] \in Values BY <2>1, DbTyped DEF Values
  <2> QED BY <2>2, <2>3, <2>4, ElsewhereHandles
<1>2. CASE RevokeKey(r, c, k)
  <2> DEFINE rows == [db EXCEPT ![Key(k)] = "none"]
  <2>1. \A x \in Columns : rows[x] \in {db[x], "none"} BY DbTyped
  <2>2. \A x \in Relevant : rows[x] = db[x] BY DbTyped, RelevantColumns
  <2>3. Request(r, rows) BY <1>2 DEF RevokeKey
  <2> HIDE DEF rows
  <2>4. \A x \in Columns : rows[x] \in Values BY <2>1, DbTyped DEF Values
  <2> QED BY <2>2, <2>3, <2>4, ElsewhereHandles
<1> QED BY <1>1, <1>2

\* Roles and the tenant: one column, to v.
LEMMA ColumnHandles ==
    ASSUME Inv, NEW r \in Req, NEW x \in {Tenant, Permissions("custom")}, NEW v \in Values,
           Request(r, [db EXCEPT ![x] = v])
    PROVE  Handles(r)
<1> DEFINE rows == [db EXCEPT ![x] = v]
<1>1. \A c \in Columns : rows[c] \in {db[c], v} BY DbTyped
<1>2. x \notin Relevant BY RelevantColumns
<1>3. \A c \in Relevant : rows[c] = db[c] BY <1>2, DbTyped, RelevantColumns
<1>4. Request(r, rows) OBVIOUS
<1> HIDE DEF rows
<1>5. \A c \in Columns : rows[c] \in Values BY <1>1, DbTyped
<1> QED BY <1>3, <1>4, <1>5, ElsewhereHandles

-----------------------------------------------------------------------------
(* Every handler, by its route.                                            *)

LEMMA MemberRoutesHandle ==
    ASSUME Inv, NEW r \in Req, NEW c \in Users, NEW u \in Users, MemberRoutes(r, c, u)
    PROVE  Handles(r)
BY InviteHandles, RemoveTenantHandles, InviteOrgHandles, AcceptHandles, RemoveOrgHandles DEF MemberRoutes

LEMMA RolesOf ==
    ASSUME NEW p \in Principals, NEW role \in IF p = Robot THEN RobotRoles ELSE Roles
    PROVE  role \in Roles
BY RobotRolesAssumption

LEMMA RoleRoutesHandle ==
    ASSUME Inv, NEW r \in Req, NEW c \in Users, NEW p \in Principals, RoleRoutes(r, c, p)
    PROVE  Handles(r)
<1>1. PICK role \in Roles : Grant(r, c, p, role) \/ Revoke(r, c, p, role)
  BY RolesOf DEF RoleRoutes
<1>2. CASE Grant(r, c, p, role) BY <1>2, GrantHandles DEF Grant
<1>3. CASE Revoke(r, c, p, role)
  <2>1. UnchangedHistory BY <1>3 DEF Revoke, Request, UnchangedHistory, Bindings, Inv, TypeOK
  <2>2. Begin(r, Unbound(db, p, role)) /\ (role = "tenant-admin" => count_active_tenant_admins > 1)
    BY <1>3 DEF Revoke, Request
  <2> QED BY <2>1, <2>2, RevokeHandles DEF UnchangedHistory
<1> QED BY <1>1, <1>2, <1>3

LEMMA AccountRoutesHandle ==
    ASSUME Inv, NEW r \in Req, NEW c \in Users, AccountRoutes(r, c)
    PROVE  Handles(r)
<1>1. ASSUME NEW role \in RobotRoles, AssignRole(r, c, role) PROVE Handles(r)
  <2>1. role \in Roles /\ Robot \in Principals BY RobotRolesAssumption, RelevantColumns
  <2> QED BY <1>1, <2>1, GrantHandles DEF AssignRole
<1> QED BY <1>1, AccountHandles, KeyHandles DEF AccountRoutes

LEMMA OperatorRoutesHandle ==
    ASSUME Inv, NEW r \in Req, OperatorRoutes(r)
    PROVE  Handles(r)
<1>1. ASSUME NEW p \in Principals, NEW role \in Roles, GrantBinding(r, p, role) PROVE Handles(r)
  BY <1>1, OperatorGrantHandles
<1>2. ASSUME NEW p \in Principals, NEW role \in Roles, RevokeBinding(r, p, role) PROVE Handles(r)
  <2>1. /\ overruled' \in BOOLEAN /\ (overruled => overruled')
        /\ ~overruled' => role # "tenant-admin"
    BY <1>2 DEF RevokeBinding, Inv, TypeOK
  <2>2. Begin(r, Unbound(db, p, role)) /\ outside' = outside /\ outside \subseteq Bindings
    BY <1>2 DEF RevokeBinding, Bindings, Inv, TypeOK
  <2> QED BY <2>1, <2>2, RevokeHandles
<1>3. ASSUME NEW kind \in {"plain", "admin"}, CreateCustomRole(r, kind) \/ UpdateCustomRole(r, kind)
      PROVE  Handles(r)
  <2>1. kind \in Values BY DEF Values
  <2> QED BY <1>3, <2>1, ColumnHandles DEF CreateCustomRole, UpdateCustomRole
<1> QED BY <1>1, <1>2, <1>3, RolesOf DEF OperatorRoutes

LEMMA TenantRoutesHandle ==
    ASSUME Inv, NEW r \in Req, TenantRoutes(r)
    PROVE  Handles(r)
<1>1. "active" \in Values /\ "suspended" \in Values BY DEF Values
<1> QED BY <1>1, ColumnHandles DEF TenantRoutes, SuspendTenant, ReinstateTenant

-----------------------------------------------------------------------------
(* Steps keep the invariants.                                              *)

LEMMA HandleKeeps ==
    ASSUME Inv, SerialInv, NEW r \in Req, Handles(r)
    PROVE  Inv' /\ SerialInv'
<1>1. PICK new :
        /\ Begin(r, new)
        /\ \A c \in Columns : new[c] \in Values
        /\ overruled' \in BOOLEAN /\ (overruled => overruled')
        /\ outside' \subseteq Bindings /\ outside \subseteq outside'
        /\ MembersIn(db, outside) => MembersIn(new, outside')
        /\ OwnedIn(db) => OwnedIn(new)
        /\ ~overruled' /\ AdministeredIn(db) => AdministeredIn(new)
  BY DEF Handles
<1>2. DOMAIN writes = Req /\ overlapped \in BOOLEAN BY DEF Inv, TypeOK
<1>3. Inv'
  <2>1. TypeOK' BY <1>1, <1>2, BeginWrites DEF Inv, TypeOK, Bindings
  <2>2. \A q \in Req : \A c \in DOMAIN writes'[q] : writes'[q][c] \in Values
    BY <1>1, <1>2, BeginWrites DEF Inv
  <2> QED BY <1>1, <1>2, <2>1, <2>2, BeginWrites DEF Inv
<1>4. ASSUME ~overlapped' PROVE Sound(db)' /\ \A q \in Req : Sound(After(q))'
  <2>1. /\ ~overlapped /\ db' = db
        /\ \A c \in Columns : After(r)'[c] = new[c]
        /\ \A q \in Req : q # r => \A c \in Columns : After(q)'[c] = db[c]
    BY <1>1, <1>2, <1>4, BeginAlone
  <2>2. MembersIn(db, outside) /\ OwnedIn(db) /\ (~overruled' => AdministeredIn(db))
    BY <1>1, <2>1 DEF SerialInv, Sound
  <2>3. MembersIn(new, outside') /\ OwnedIn(new) /\ (~overruled' => AdministeredIn(new))
    BY <1>1, <2>2
  <2>4. MembersIn(db, outside') BY <1>1, <2>2 DEF MembersIn
  <2>5. Sound(db)' BY <2>1, <2>2, <2>4 DEF Sound, MembersIn, OwnedIn, AdministeredIn
  <2>6. ASSUME NEW q \in Req, NEW rows, rows = After(q)'
        PROVE  MembersIn(rows, outside') /\ OwnedIn(rows) /\ (~overruled' => AdministeredIn(rows))
    <3>1. CASE q = r BY <2>1, <2>3, <2>6, <3>1, RelevantColumns, SoundSame
    <3>2. CASE q # r BY <2>1, <2>2, <2>4, <2>6, <3>2, RelevantColumns, SoundSame
    <3> QED BY <3>1, <3>2
  <2>7. ASSUME NEW q \in Req PROVE Sound(After(q))'
    BY <2>6 DEF Sound, MembersIn, OwnedIn, AdministeredIn
  <2> QED BY <2>5, <2>7
<1>5. Alone' BY <1>1, <1>2, BeginAlone
<1> QED BY <1>3, <1>4, <1>5 DEF SerialInv

\* The rows after a request has ended are sound, and nothing is pending.
LEMMA EndKeeps ==
    ASSUME Inv, SerialInv, NEW r \in Req, Commit(r) \/ Abort(r), UNCHANGED overruled, Lasting
    PROVE  Inv' /\ SerialInv'
<1>1. DOMAIN writes = Req /\ Alone /\ outside' \subseteq outside /\ \A c \in outside : db'[c] = "active" => c \in outside'
  BY DEF Inv, SerialInv, Lasting
<1>2. Inv'
  <2>1. CASE Commit(r)
    <3>1. TypeOK'
      BY <1>1, <2>1, CommitWrites DEF Inv, TypeOK, Values
    <3> QED BY <1>1, <2>1, <3>1, CommitWrites DEF Inv
  <2>2. CASE Abort(r)
    <3>1. TypeOK' BY <1>1, <2>2, AbortWrites DEF Inv, TypeOK
    <3> QED BY <1>1, <2>2, <3>1, AbortWrites DEF Inv
  <2> QED BY <2>1, <2>2
<1>3. /\ Alone'
      /\ ~overlapped' =>
           /\ ~overlapped /\ db' \in {db, After(r)}
           /\ \A q \in Req : \A c \in Columns : After(q)'[c] = db'[c]
  BY <1>1, CommitAlone, AbortAlone
<1>4. ASSUME ~overlapped' PROVE Sound(db)' /\ \A q \in Req : Sound(After(q))'
  <2>1. PICK rows : rows = db' OBVIOUS
  <2>2. MembersIn(rows, outside') /\ OwnedIn(rows) /\ (~overruled' => AdministeredIn(rows))
    <3>1. Sound(rows) BY <1>3, <1>4, <2>1 DEF SerialInv
    <3>2. MembersIn(rows, outside') BY <1>1, <2>1, <3>1 DEF Sound, MembersIn
    <3> QED BY <3>1, <3>2 DEF Sound
  <2>3. Sound(db)' BY <2>1, <2>2 DEF Sound, MembersIn, OwnedIn, AdministeredIn
  <2>4. ASSUME NEW q \in Req, NEW x, x = After(q)'
        PROVE  MembersIn(x, outside') /\ OwnedIn(x) /\ (~overruled' => AdministeredIn(x))
    BY <1>3, <1>4, <2>1, <2>2, <2>4, RelevantColumns, SoundSame
  <2>5. ASSUME NEW q \in Req PROVE Sound(After(q))'
    BY <2>4 DEF Sound, MembersIn, OwnedIn, AdministeredIn
  <2> QED BY <2>3, <2>5
<1> QED BY <1>2, <1>3, <1>4 DEF SerialInv

LEMMA InitInv == Init => Inv /\ SerialInv
<1> SUFFICES ASSUME Init PROVE Inv /\ SerialInv OBVIOUS
<1>1. DOMAIN db = Columns /\ \A c \in Columns : db[c] \in Values BY DEF Init, Values
<1>2. DOMAIN writes = Req /\ (\A r \in Req : writes[r] = Nothing /\ DOMAIN writes[r] = {}) /\ ~overlapped /\ ~overruled
      /\ overlapped \in BOOLEAN /\ overruled \in BOOLEAN /\ outside = {}
  BY DEF Init, Nothing
<1>3. Inv BY <1>1, <1>2 DEF Inv, TypeOK, Values
<1>4. Founder \in Users /\ Founder \in Principals /\ "tenant-admin" \in Roles
  BY FounderAssumption, RelevantColumns
<1>5. /\ db[Org(Founder)] = "active" /\ db[OrgRole(Founder)] = "owner" /\ db[Member(Founder)] = "active"
      /\ db[Binding(Founder, "tenant-admin")] = "active"
  BY <1>4, ColumnsApart, NamesApart DEF Init
<1>6. ASSUME NEW u \in Users, u # Founder
      PROVE  db[Member(u)] # "active" /\ \A role \in Roles : db[Binding(u, role)] # "active"
  BY <1>6, RelevantColumns, ColumnsApart, NamesApart DEF Init
<1>7. Sound(db) BY <1>4, <1>5, <1>6 DEF Sound, MembersIn, OwnedIn, AdministeredIn
<1>8. ASSUME NEW r \in Req PROVE Sound(After(r))
  BY <1>2, <1>7, AfterNothing, RelevantColumns, SoundSame DEF Sound
<1> QED BY <1>2, <1>3, <1>7, <1>8 DEF SerialInv, Alone

LEMMA NextInv == Inv /\ SerialInv /\ [Next]_vars => (Inv /\ SerialInv)'
<1> SUFFICES ASSUME Inv, SerialInv, [Next]_vars PROVE Inv' /\ SerialInv' OBVIOUS
<1>1. CASE UNCHANGED vars
  BY <1>1 DEF vars, Inv, TypeOK, SerialInv, Alone, Sound, MembersIn, OwnedIn, AdministeredIn, After
<1>2. ASSUME NEW r \in Req, NEW c \in Users, NEW u \in Users, MemberRoutes(r, c, u) PROVE Inv' /\ SerialInv'
  BY <1>2, MemberRoutesHandle, HandleKeeps
<1>3. ASSUME NEW r \in Req, NEW c \in Users, NEW p \in Principals, RoleRoutes(r, c, p) PROVE Inv' /\ SerialInv'
  BY <1>3, RoleRoutesHandle, HandleKeeps
<1>4. ASSUME NEW r \in Req, NEW c \in Users, AccountRoutes(r, c) PROVE Inv' /\ SerialInv'
  BY <1>4, AccountRoutesHandle, HandleKeeps
<1>5. ASSUME NEW r \in Req, OperatorRoutes(r) \/ TenantRoutes(r) PROVE Inv' /\ SerialInv'
  BY <1>5, OperatorRoutesHandle, TenantRoutesHandle, HandleKeeps
<1>6. ASSUME NEW r \in Req, CommitUnique(r) \/ (Abort(r) /\ UNCHANGED overruled /\ Lasting) PROVE Inv' /\ SerialInv'
  BY <1>6, EndKeeps DEF CommitUnique
<1> QED BY <1>1, <1>2, <1>3, <1>4, <1>5, <1>6 DEF Next

-----------------------------------------------------------------------------
(* The theorems.                                                           *)

\* Both invariants hold of every reachable state.
THEOREM InvHolds == Spec => [](Inv /\ SerialInv)
BY InitInv, NextInv, PTL DEF Spec

\* remove_tenant_member and revoke count the tenant-admins before they take one
\* away: when requests do not overlap, one is left, unless the organization
\* or an operator, who do not count, took it.
THEOREM AdministratorKept == Spec => []AdministratorStays
<1>1. ASSUME Inv, SerialInv PROVE AdministratorStays
  <2> SUFFICES ASSUME ~overlapped, ~overruled PROVE count_active_tenant_admins > 0
    BY DEF AdministratorStays
  <2> DEFINE S == {p \in Principals : db[Binding(p, "tenant-admin")] = "active"}
  <2>1. S # {} BY <1>1 DEF SerialInv, Sound, AdministeredIn
  <2>2. IsFiniteSet(Principals) BY UsersAssumption, FS_AddElement DEF Principals
  <2>3. IsFiniteSet(S) BY <2>2, FS_Subset
  <2>4. Cardinality(S) \in Nat /\ Cardinality(S) # 0 BY <2>1, <2>3, FS_CardinalityType, FS_EmptySet
  <2>5. Cardinality(S) > 0 BY <2>4
  <2> QED BY <2>5 DEF count_active_tenant_admins
<1> QED BY <1>1, InvHolds, PTL

\* remove_org_member refuses an owner's own membership, and only an active
\* owner removes another: when requests do not overlap, one is left.
THEOREM OwnerKept == Spec => []OwnerStays
<1>1. Inv /\ SerialInv => OwnerStays BY DEF SerialInv, Sound, OwnedIn, OwnerStays, OrgOwner
<1> QED BY <1>1, InvHolds, PTL

\* Removal from the tenant or the organization takes every binding with it, and
\* only an operator's grant to a principal does without the membership: when
\* requests do not overlap, any other role is a member's role, and a member
\* belongs to the organization.
THEOREM MembersSound == Spec => []MembershipSound
<1>1. Inv /\ SerialInv => MembershipSound BY DEF Inv, SerialInv, Sound, MembersIn, MembershipSound
<1> QED BY <1>1, InvHolds, PTL

-----------------------------------------------------------------------------
(* Sessions: one account, its sessions and its passwords.                  *)

CONSTANTS Passwords, SessionIds, ResetIds, MaxTokens
VARIABLES call, kc, issued, exchanged, valid

Auth     == INSTANCE Sessions
AuthRows == INSTANCE UnitOfWork WITH Columns <- Auth!Columns

\* Sessions' own operators of UnitOfWork are these.
LEMMA AuthSame ==
    /\ Auth!Nothing = AuthRows!Nothing
    /\ \A c : Auth!Fresh(c) <=> AuthRows!Fresh(c)
    /\ \A r, new : Auth!Begin(r, new) <=> AuthRows!Begin(r, new)
    /\ \A r : Auth!Commit(r) <=> AuthRows!Commit(r)
    /\ \A r : Auth!Abort(r) <=> AuthRows!Abort(r)
BY DEF Auth!Nothing, AuthRows!Nothing, Auth!Fresh, AuthRows!Fresh, Auth!Begin, AuthRows!Begin, Auth!Changed,
       AuthRows!Changed, Auth!Commit, AuthRows!Commit, Auth!After, AuthRows!After, Auth!Abort, AuthRows!Abort

LEMMA AuthColumnsIn ==
    /\ Auth!User \in Auth!Columns /\ Auth!Principal \in Auth!Columns /\ Auth!PasswordHash \in Auth!Columns
    /\ \A s \in SessionIds : /\ Auth!Status(s) \in Auth!Columns /\ Auth!RefreshHash(s) \in Auth!Columns
                             /\ Auth!Expires(s) \in Auth!Columns /\ Auth!OpenedBy(s) \in Auth!Columns
    /\ \A t \in ResetIds : Auth!Reset(t) \in Auth!Columns
BY DEF Auth!Columns

LEMMA AuthNamesApart ==
    /\ Auth!User # Auth!Principal /\ Auth!User # Auth!PasswordHash /\ Auth!Principal # Auth!PasswordHash
    /\ \A s : /\ Auth!User # Auth!Status(s) /\ Auth!User # Auth!RefreshHash(s) /\ Auth!User # Auth!Expires(s)
              /\ Auth!User # Auth!OpenedBy(s) /\ Auth!User # Auth!Reset(s)
              /\ Auth!Principal # Auth!Status(s) /\ Auth!Principal # Auth!RefreshHash(s)
              /\ Auth!Principal # Auth!Expires(s)
              /\ Auth!Principal # Auth!OpenedBy(s) /\ Auth!Principal # Auth!Reset(s)
              /\ Auth!PasswordHash # Auth!Status(s) /\ Auth!PasswordHash # Auth!RefreshHash(s)
              /\ Auth!PasswordHash # Auth!Expires(s)
              /\ Auth!PasswordHash # Auth!OpenedBy(s) /\ Auth!PasswordHash # Auth!Reset(s)
    /\ \A s, z : /\ Auth!Status(s) # Auth!RefreshHash(z) /\ Auth!Status(s) # Auth!Expires(z)
                 /\ Auth!Status(s) # Auth!OpenedBy(z) /\ Auth!Status(s) # Auth!Reset(z)
                 /\ Auth!RefreshHash(s) # Auth!Expires(z) /\ Auth!RefreshHash(s) # Auth!OpenedBy(z)
                 /\ Auth!RefreshHash(s) # Auth!Reset(z)
                 /\ Auth!Expires(s) # Auth!OpenedBy(z) /\ Auth!Expires(s) # Auth!Reset(z)
                 /\ Auth!OpenedBy(s) # Auth!Reset(z)
    /\ \A s, z : s # z => /\ Auth!Status(s) # Auth!Status(z) /\ Auth!RefreshHash(s) # Auth!RefreshHash(z)
                          /\ Auth!Expires(s) # Auth!Expires(z)
                          /\ Auth!OpenedBy(s) # Auth!OpenedBy(z) /\ Auth!Reset(s) # Auth!Reset(z)
BY DEF Auth!User, Auth!Principal, Auth!PasswordHash, Auth!Status, Auth!RefreshHash, Auth!Expires, Auth!OpenedBy,
       Auth!Reset

-----------------------------------------------------------------------------
\* v is a value that a request may be going to write in column c, when n refresh
\* tokens have been issued.
AuthFits(c, v, n) ==
    /\ c = Auth!User => v \in {"pending_verification", "active", "locked", "blocked"}
    /\ c = Auth!Principal => v \in {"inactive", "active", "locked"}
    /\ c = Auth!PasswordHash => v \in Passwords
    /\ \A s \in SessionIds : /\ c = Auth!Status(s) => v \in {"active", "revoked"}
                             /\ c = Auth!RefreshHash(s) => v \in 0 .. n
                             /\ c = Auth!Expires(s) => v = "later"
    /\ \A t \in ResetIds : c = Auth!Reset(t) => v \in {"valid", "used"}

\* The steps a request may have reached.
AuthCallOf ==
    {Auth!NoCall}
      \cup [step : {"create_user", "register"}, arg : Passwords]
      \cup [step : {"authenticate"}, arg : [password : Passwords, hash : Passwords \cup {"none"}]]
      \cup [step : {"refresh"}, arg : 1 .. MaxTokens]
      \cup [step : {"revoke", "set_password", "store"}, arg : [password : Passwords, old : SUBSET Passwords]]

AuthUnverified == db[Auth!User] \in {"none", "pending_verification"}

\* Only a registration, which commits where there is no user, is going to leave
\* an unverified one; a session is opened once, by one login.
AuthPending(r) ==
    /\ \A c \in DOMAIN writes[r] : AuthFits(c, writes[r][c], issued)
    /\ call[r] \in AuthCallOf
    /\ call[r] # Auth!NoCall => writes[r] # AuthRows!Nothing
    /\ call[r].step = "refresh" => call[r].arg <= issued
    /\ Auth!User \in DOMAIN writes[r] /\ writes[r][Auth!User] = "pending_verification" =>
          call[r].step \in {"create_user", "register"}
    /\ \A s \in SessionIds : Auth!Status(s) \in DOMAIN writes[r] =>
          /\ ~AuthUnverified
          /\ writes[r][Auth!Status(s)] = "active" =>
                /\ db[Auth!Status(s)] = "none"
                /\ \A q \in Req : Auth!Status(s) \in DOMAIN writes[q] => q = r

\* The rows have their types, and nobody has a session before verification.
AuthTyped ==
    /\ DOMAIN db = Auth!Columns
    /\ db[Auth!User] \in {"none", "pending_verification", "active", "locked", "blocked"}
    /\ db[Auth!Principal] \in {"none", "inactive", "active", "locked"}
    /\ db[Auth!PasswordHash] \in Passwords \cup {"none"}
    /\ \A s \in SessionIds : /\ db[Auth!Status(s)] \in {"none", "active", "revoked"}
                             /\ db[Auth!RefreshHash(s)] \in 0 .. issued
                             /\ db[Auth!Expires(s)] \in {"none", "later", "past"}
    /\ \A t \in ResetIds : db[Auth!Reset(t)] \in {"none", "valid", "used"}
    /\ AuthUnverified => \A s \in SessionIds : db[Auth!Status(s)] = "none"

\* Tokens are exchanged after they are issued.
AuthCounted(n, e) ==
    /\ n \in Nat /\ n <= MaxTokens
    /\ e \in [1 .. MaxTokens -> Nat]
    /\ \A t \in 1 .. MaxTokens : t > n => e[t] = 0

\* The assumptions of Sessions.
AuthConstantsFit == "none" \notin Passwords /\ MaxTokens \in Nat

\* However requests overlap.
AuthInv ==
    /\ AuthConstantsFit
    /\ AuthTyped
    /\ DOMAIN writes = Req /\ overlapped \in BOOLEAN /\ DOMAIN call = Req
    /\ kc \in Passwords \cup {"none"} /\ valid \in SUBSET Passwords
    /\ AuthCounted(issued, exchanged)
    /\ \A r \in Req : AuthPending(r)

-----------------------------------------------------------------------------
(* Rows that requests which do not overlap leave, when the passwords v may *)
(* open the account and tokens were exchanged as e says.                   *)

AuthNoneActive(rows) == \A s \in SessionIds : rows[Auth!Status(s)] # "active"

\* An account that is not active has no active session, no refresh token is in
\* two sessions or exchanged already, and only passwords in v open it.
AuthSound(rows, v, e) ==
    /\ rows[Auth!User] # "active" => AuthNoneActive(rows)
    /\ \A s, z \in SessionIds :
          rows[Auth!RefreshHash(s)] = rows[Auth!RefreshHash(z)] /\ rows[Auth!RefreshHash(s)] # 0 => s = z
    /\ \A s \in SessionIds : rows[Auth!RefreshHash(s)] # 0 => e[rows[Auth!RefreshHash(s)]] = 0
    /\ rows[Auth!PasswordHash] \in v \cup {"none"}
    /\ \A s \in SessionIds : rows[Auth!Status(s)] = "active" => rows[Auth!OpenedBy(s)] \in v

\* The password that a call brings and that may not open the account yet.
AuthBrings(k) ==
    CASE k.step = "create_user" -> {k.arg}
      [] k.step \in {"authenticate", "set_password"} -> {k.arg.password}
      [] OTHER -> {}

\* What a request that is up to call k, and is going to leave rows, relies on:
\* v and e as above, p the password at Keycloak.
AuthReached(k, rows, v, e, p) ==
    /\ k.step = "refresh" => e[k.arg] = 0 /\ \A s \in SessionIds : rows[Auth!RefreshHash(s)] # k.arg
    /\ k.step = "authenticate" => k.arg.hash \in v \cup {"none"}
    /\ k.step \in {"revoke", "set_password", "store"} => AuthNoneActive(rows)
    /\ k.step \in {"set_password", "store"} => rows[Auth!PasswordHash] = k.arg.password
    /\ k.step = "store" => k.arg.password \in v /\ p \in {k.arg.password, "none"}

\* Request q finds what its next step relies on.
AuthReady(q, rows) ==
    /\ AuthSound(rows, valid \cup AuthBrings(call[q]), exchanged)
    /\ AuthReached(call[q], rows, valid, exchanged, kc)

\* Alone, a request finds and is going to leave sound rows.
AuthSerialInv ==
    /\ AuthRows!Alone
    /\ ~overlapped =>
          /\ kc \in valid \cup {"none"}
          /\ AuthSound(db, valid, exchanged)
          /\ \A t \in 1 .. MaxTokens : exchanged[t] <= 1
          /\ \A q \in Req : AuthReady(q, AuthRows!After(q))

\* Rows that agree in the columns that count.
LEMMA AuthSoundSame ==
    ASSUME NEW a, NEW b, NEW v, NEW e, a[Auth!User] = b[Auth!User], a[Auth!PasswordHash] = b[Auth!PasswordHash],
           \A s \in SessionIds : /\ a[Auth!Status(s)] = b[Auth!Status(s)]
                                 /\ a[Auth!RefreshHash(s)] = b[Auth!RefreshHash(s)]
                                 /\ a[Auth!OpenedBy(s)] = b[Auth!OpenedBy(s)]
    PROVE  (AuthSound(a, v, e) => AuthSound(b, v, e)) /\ \A k, p : AuthReached(k, a, v, e, p) =>
             AuthReached(k, b, v, e, p)
BY DEF AuthSound, AuthReached, AuthNoneActive

\* More passwords open the account.
LEMMA AuthSoundMore ==
    ASSUME NEW rows, NEW v, NEW w, NEW e, v \subseteq w, AuthSound(rows, v, e) PROVE AuthSound(rows, w, e)
BY DEF AuthSound

LEMMA AuthCallSteps ==
    /\ Auth!NoCall \in AuthCallOf /\ Auth!NoCall.step = "none" /\ AuthBrings(Auth!NoCall) = {}
    /\ \A k \in AuthCallOf :
          /\ k.step \in {"create_user", "register"} =>
                k = [step |-> k.step, arg |-> k.arg] /\ k.arg \in Passwords
          /\ k.step = "authenticate" => k.arg.password \in Passwords /\ k.arg.hash \in Passwords \cup {"none"}
          /\ k.step = "refresh" => k.arg \in 1 .. MaxTokens /\ AuthBrings(k) = {}
          /\ k.step \in {"revoke", "set_password", "store"} =>
                 k = [step |-> k.step, arg |-> k.arg]
                     /\ k.arg \in [password : Passwords, old : SUBSET Passwords]
          /\ k.step \in {"create_user"} => AuthBrings(k) = {k.arg}
          /\ k.step \in {"authenticate", "set_password"} => AuthBrings(k) = {k.arg.password}
          /\ k.step \in {"none", "register", "refresh", "revoke", "store"} => AuthBrings(k) = {}
BY DEF AuthCallOf, Auth!NoCall, AuthBrings

\* A request with nothing pending is ready as the database is.
LEMMA AuthIdleReady ==
    ASSUME NEW d, NEW rows, NEW v, NEW e, NEW p, AuthSound(d, v, e), \A c \in Auth!Columns : rows[c] = d[c]
    PROVE  AuthSound(rows, v \cup AuthBrings(Auth!NoCall), e) /\ AuthReached(Auth!NoCall, rows, v, e, p)
<1>1. AuthSound(rows, v, e) BY AuthSoundSame, AuthColumnsIn
<1>2. AuthReached(Auth!NoCall, rows, v, e, p) BY AuthCallSteps DEF AuthReached
<1> QED BY <1>1, <1>2, AuthCallSteps

-----------------------------------------------------------------------------
(* Requests that begin.                                                    *)

\* Request r may leave rows new pending and go to call k, n tokens issued.
AuthHandles(r, new, k, n) ==
    /\ n \in Nat /\ issued <= n /\ n <= MaxTokens
    /\ k \in AuthCallOf
    /\ k # Auth!NoCall => \E c \in Auth!Columns : new[c] # db[c]
    /\ k.step = "refresh" => k.arg <= n
    /\ \A c \in Auth!Columns : new[c] # db[c] => AuthFits(c, new[c], n)
    /\ new[Auth!User] = "pending_verification" /\ new[Auth!User] # db[Auth!User] =>
          k.step \in {"create_user", "register"}
    /\ \A s \in SessionIds : new[Auth!Status(s)] # db[Auth!Status(s)] =>
          /\ ~AuthUnverified
          /\ new[Auth!Status(s)] = "active" => AuthRows!Fresh(Auth!Status(s))
          /\ db[Auth!Status(s)] = "none" => AuthRows!Fresh(Auth!Status(s))
    /\ ~overlapped => AuthSound(new, valid \cup AuthBrings(k), exchanged)
          /\ AuthReached(k, new, valid, exchanged, kc)

LEMMA AuthFitsMore ==
    ASSUME NEW c, NEW v, NEW n \in Nat, NEW m \in Nat, n <= m, AuthFits(c, v, n) PROVE AuthFits(c, v, m)
BY DEF AuthFits

\* What request q relies on, when it is not the one that moves.
LEMMA AuthPendingStays ==
    ASSUME NEW q \in Req, AuthPending(q), issued \in Nat, issued' \in Nat, issued <= issued',
           writes'[q] = writes[q], call'[q] = call[q], AuthUnverified' => AuthUnverified,
           \A s \in SessionIds : Auth!Status(s) \in DOMAIN writes[q] /\ writes[q][Auth!Status(s)] = "active" =>
              db'[Auth!Status(s)] = "none" /\ \A p \in Req : Auth!Status(s) \in DOMAIN writes'[p] => p = q
    PROVE  AuthPending(q)'
<1>1. \A c \in DOMAIN writes[q] : AuthFits(c, writes[q][c], issued') BY AuthFitsMore DEF AuthPending
<1>2. call[q].step = "refresh" => call[q].arg <= issued'
  <2>1. CASE call[q].step = "refresh"
    <3>1. call[q].arg \in Nat /\ call[q].arg <= issued
      <4>1. call[q].arg <= issued BY <2>1 DEF AuthPending
      <4>2. call[q].arg \in 1 .. MaxTokens BY <2>1, AuthCallSteps DEF AuthPending
      <4> QED BY <4>1, <4>2
    <3> QED BY <3>1
  <2> QED BY <2>1
<1>3. AuthRows!Nothing' = AuthRows!Nothing BY DEF AuthRows!Nothing
<1> QED BY <1>1, <1>2, <1>3 DEF AuthPending

\* Every request that begins: what its handler guarantees is enough.
LEMMA AuthHandleKeeps ==
    ASSUME AuthInv, AuthSerialInv, NEW r \in Req, NEW new, NEW k, NEW n, AuthHandles(r, new, k, n),
           AuthRows!Begin(r, new),
           issued' = n, DOMAIN call' = Req, call'[r] = k, \A q \in Req : q # r => call'[q] = call[q],
           kc' = kc, valid' = valid, exchanged' = exchanged
    PROVE  AuthInv' /\ AuthSerialInv'
<1>1. /\ db' = db /\ overlapped' \in BOOLEAN /\ DOMAIN writes' = Req
      /\ DOMAIN writes'[r] = {c \in Auth!Columns : new[c] # db[c]}
      /\ \A c \in DOMAIN writes'[r] : writes'[r][c] = new[c]
      /\ \A q \in Req : q # r => writes'[q] = writes[q]
  BY AuthRows!BeginWrites DEF AuthInv
<1>2. writes[r] = AuthRows!Nothing BY DEF AuthRows!Begin
<1>3. issued \in Nat /\ n \in Nat /\ issued <= n /\ n <= MaxTokens BY DEF AuthInv, AuthCounted, AuthHandles
<1>4. AuthUnverified' <=> AuthUnverified BY <1>1 DEF AuthUnverified
<1>5. AuthTyped' BY <1>1, <1>3, <1>4 DEF AuthInv, AuthTyped
<1>6. AuthCounted(issued', exchanged') BY <1>3 DEF AuthInv, AuthCounted
<1>7. ASSUME NEW q \in Req PROVE AuthPending(q)'
  <2>1. CASE q # r
    <3>1. ASSUME NEW s \in SessionIds, Auth!Status(s) \in DOMAIN writes[q], writes[q][Auth!Status(s)] = "active"
          PROVE  db'[Auth!Status(s)] = "none" /\ \A p \in Req : Auth!Status(s) \in DOMAIN writes'[p] => p = q
      <4>1. db[Auth!Status(s)] = "none" /\ \A p \in Req : Auth!Status(s) \in DOMAIN writes[p] => p = q
        BY <3>1 DEF AuthInv, AuthPending
      <4>2. Auth!Status(s) \notin DOMAIN writes'[r]
        <5>1. ~AuthRows!Fresh(Auth!Status(s)) BY <3>1 DEF AuthRows!Fresh
        <5> QED BY <1>1, <4>1, <5>1 DEF AuthHandles
      <4> QED BY <1>1, <4>1, <4>2
    <3> QED BY <1>1, <1>3, <1>4, <2>1, <3>1, AuthPendingStays DEF AuthInv
  <2>2. CASE q = r
    <3>1. \A c \in DOMAIN writes'[r] : AuthFits(c, writes'[r][c], n) BY <1>1 DEF AuthHandles
    <3>2. k # Auth!NoCall => writes'[r] # AuthRows!Nothing BY <1>1 DEF AuthHandles, AuthRows!Nothing
    <3>3. Auth!User \in DOMAIN writes'[r] /\ writes'[r][Auth!User] = "pending_verification" =>
            k.step \in {"create_user", "register"}
      BY <1>1 DEF AuthHandles
    <3>4. ASSUME NEW s \in SessionIds, Auth!Status(s) \in DOMAIN writes'[r]
          PROVE  /\ ~AuthUnverified
                 /\ writes'[r][Auth!Status(s)] = "active" =>
                       db'[Auth!Status(s)] = "none" /\ \A p \in Req : Auth!Status(s) \in DOMAIN writes'[p] =>
                           p = r
      BY <1>1, <3>4 DEF AuthHandles, AuthRows!Fresh
    <3>5. k \in AuthCallOf /\ (k.step = "refresh" => k.arg <= n) BY DEF AuthHandles
    <3>6. AuthRows!Nothing' = AuthRows!Nothing BY DEF AuthRows!Nothing
    <3> QED BY <1>4, <2>2, <3>1, <3>2, <3>3, <3>4, <3>5, <3>6 DEF AuthPending
  <2> QED BY <2>1, <2>2
<1>8. AuthInv' BY <1>1, <1>5, <1>6, <1>7 DEF AuthInv, AuthConstantsFit
<1>9. /\ AuthRows!Alone'
      /\ ~overlapped' =>
           /\ ~overlapped
           /\ \A c \in Auth!Columns : AuthRows!After(r)'[c] = new[c]
           /\ \A q \in Req : q # r => \A c \in Auth!Columns : AuthRows!After(q)'[c] = db[c]
  BY AuthRows!BeginAlone DEF AuthInv
<1>10. ASSUME ~overlapped', NEW q \in Req, NEW rows, rows = AuthRows!After(q)' PROVE AuthReady(q, rows)'
  <2>1. CASE q = r
    <3>1. AuthSound(new, valid \cup AuthBrings(k), exchanged) /\ AuthReached(k, new, valid, exchanged, kc)
      BY <1>9, <1>10 DEF AuthHandles
    <3>2. \A c \in Auth!Columns : rows[c] = new[c] BY <1>9, <1>10, <2>1
    <3>3. AuthSound(rows, valid \cup AuthBrings(k), exchanged) BY <3>1, <3>2, AuthSoundSame, AuthColumnsIn
    <3>4. AuthReached(k, rows, valid, exchanged, kc) BY <3>1, <3>2, AuthSoundSame, AuthColumnsIn
    <3> QED BY <2>1, <3>3, <3>4 DEF AuthReady
  <2>2. CASE q # r
    <3>1. writes[q] = AuthRows!Nothing BY <1>10, <1>1, <2>2 DEF AuthRows!Begin
    <3>2. call[q] = Auth!NoCall BY <3>1 DEF AuthInv, AuthPending
    <3>3. AuthReady(q, rows) BY <1>9, <1>10, <2>2, <3>2, AuthIdleReady DEF AuthSerialInv, AuthReady
    <3> QED BY <2>2, <3>3 DEF AuthReady
  <2> QED BY <2>1, <2>2
<1>11. ASSUME ~overlapped', NEW q \in Req PROVE AuthReady(q, AuthRows!After(q))'
  BY <1>10, <1>11
<1>12. AuthSerialInv' BY <1>1, <1>9, <1>11 DEF AuthSerialInv
<1> QED BY <1>8, <1>12

LEMMA AuthPlainKeeps ==
    ASSUME AuthInv, AuthSerialInv, NEW r \in Req, NEW new, Auth!Plain(r, new),
           AuthHandles(r, new, Auth!NoCall, issued)
    PROVE  AuthInv' /\ AuthSerialInv'
<1>1. call[r] = Auth!NoCall BY AuthSame DEF Auth!Plain, AuthRows!Begin, AuthInv, AuthPending
<1>2. AuthRows!Begin(r, new) BY AuthSame DEF Auth!Plain
<1>3. issued' = issued /\ call' = call /\ kc' = kc /\ valid' = valid /\ exchanged' = exchanged BY DEF Auth!Plain
<1>4. DOMAIN call' = Req /\ call'[r] = Auth!NoCall /\ \A q \in Req : q # r => call'[q] = call[q]
  BY <1>1, <1>3 DEF AuthInv
<1> QED BY <1>2, <1>3, <1>4, AuthHandleKeeps

LEMMA AuthCallsKeep ==
    ASSUME AuthInv, AuthSerialInv, NEW r \in Req, NEW new, NEW next, NEW arg, NEW n,
           Auth!Calls(r, new, next, arg), issued' = n,
           AuthHandles(r, new, [step |-> next, arg |-> arg], n)
    PROVE  AuthInv' /\ AuthSerialInv'
<1>1. AuthRows!Begin(r, new) BY AuthSame DEF Auth!Calls
<1>2. kc' = kc /\ valid' = valid /\ exchanged' = exchanged BY DEF Auth!Calls
<1>3. /\ DOMAIN call' = Req /\ call'[r] = [step |-> next, arg |-> arg]
      /\ \A q \in Req : q # r => call'[q] = call[q]
  BY DEF Auth!Calls, AuthInv
<1> QED BY <1>1, <1>2, <1>3, AuthHandleKeeps

LEMMA AuthRegisterKeeps ==
    ASSUME AuthInv, AuthSerialInv, NEW r \in Req, NEW p \in Passwords, Auth!RegisterUser(r, p)
    PROVE  AuthInv' /\ AuthSerialInv'
<1> DEFINE new == [db EXCEPT ![Auth!User] = "pending_verification", ![Auth!Principal] = "inactive",
                             ![Auth!PasswordHash] = p]
           k == [step |-> "create_user", arg |-> p]
<1>1. db[Auth!User] = "none" /\ Auth!Calls(r, new, "create_user", p) /\ issued' = issued
  BY DEF Auth!RegisterUser
<1>2. \A c \in Auth!Columns : new[c] = IF c = Auth!User THEN "pending_verification" ELSE IF c = Auth!Principal
        THEN "inactive"
                                       ELSE IF c = Auth!PasswordHash THEN p ELSE db[c]
  BY AuthNamesApart DEF AuthInv, AuthTyped
<1> HIDE DEF new
<1>3. new[Auth!User] = "pending_verification" /\ new[Auth!PasswordHash] = p
  BY <1>2, AuthColumnsIn, AuthNamesApart
<1>4. \A s \in SessionIds : /\ new[Auth!Status(s)] = db[Auth!Status(s)]
                            /\ new[Auth!RefreshHash(s)] = db[Auth!RefreshHash(s)]
                            /\ db[Auth!Status(s)] = "none"
  BY <1>1, <1>2, AuthColumnsIn, AuthNamesApart DEF AuthInv, AuthTyped, AuthUnverified
<1>5. \A c \in Auth!Columns : new[c] # db[c] => AuthFits(c, new[c], issued)
  BY <1>2, AuthNamesApart DEF AuthFits
<1>6. k \in AuthCallOf /\ k.step = "create_user" /\ AuthBrings(k) = {p} BY DEF AuthCallOf, AuthBrings
<1>7. ~overlapped => AuthSound(new, valid \cup AuthBrings(k), exchanged)
  BY <1>3, <1>4, <1>6 DEF AuthSerialInv, AuthSound, AuthNoneActive
<1>8. AuthReached(k, new, valid, exchanged, kc) BY <1>6 DEF AuthReached
<1>9. \E c \in Auth!Columns : new[c] # db[c] BY <1>1, <1>3, AuthColumnsIn
<1> HIDE DEF k
<1>10. AuthHandles(r, new, k, issued)
  BY <1>1, <1>3, <1>4, <1>5, <1>6, <1>7, <1>8, <1>9 DEF AuthHandles, AuthInv, AuthCounted
<1> QED BY <1>1, <1>10, AuthCallsKeep DEF k

LEMMA AuthActivateKeeps ==
    ASSUME AuthInv, AuthSerialInv, NEW r \in Req, Auth!VerifyEmail(r) \/ Auth!ReinstateUser(r)
    PROVE  AuthInv' /\ AuthSerialInv'
<1> DEFINE new == [db EXCEPT ![Auth!User] = "active", ![Auth!Principal] = "active"]
<1>1. Auth!Plain(r, new) BY DEF Auth!VerifyEmail, Auth!ReinstateUser
<1>2. \A c \in Auth!Columns : new[c] = IF c = Auth!User THEN "active" ELSE IF c = Auth!Principal
        THEN "active" ELSE db[c]
  BY AuthNamesApart DEF AuthInv, AuthTyped
<1> HIDE DEF new
<1>3. new[Auth!User] = "active" /\ new[Auth!PasswordHash] = db[Auth!PasswordHash]
  BY <1>2, AuthColumnsIn, AuthNamesApart
<1>4. \A s \in SessionIds : /\ new[Auth!Status(s)] = db[Auth!Status(s)]
                            /\ new[Auth!RefreshHash(s)] = db[Auth!RefreshHash(s)]
                            /\ new[Auth!OpenedBy(s)] = db[Auth!OpenedBy(s)]
  BY <1>2, AuthColumnsIn, AuthNamesApart
<1>5. \A c \in Auth!Columns : new[c] # db[c] => AuthFits(c, new[c], issued) BY <1>2, AuthNamesApart DEF AuthFits
<1>6. ~overlapped => AuthSound(new, valid \cup AuthBrings(Auth!NoCall), exchanged)
  BY <1>3, <1>4, AuthCallSteps DEF AuthSerialInv, AuthSound
<1>7. AuthReached(Auth!NoCall, new, valid, exchanged, kc) BY AuthCallSteps DEF AuthReached
<1>8. AuthHandles(r, new, Auth!NoCall, issued)
  BY <1>3, <1>4, <1>5, <1>6, <1>7, AuthCallSteps DEF AuthHandles, AuthInv, AuthCounted
<1> QED BY <1>1, <1>8, AuthPlainKeeps

LEMMA AuthResetRequestKeeps ==
    ASSUME AuthInv, AuthSerialInv, NEW r \in Req, NEW t \in ResetIds, Auth!PasswordResetRequest(r, t)
    PROVE  AuthInv' /\ AuthSerialInv'
<1> DEFINE new == [db EXCEPT ![Auth!Reset(t)] = "valid"]
<1>1. Auth!Plain(r, new) BY DEF Auth!PasswordResetRequest
<1>2. \A c \in Auth!Columns : new[c] = IF c = Auth!Reset(t) THEN "valid" ELSE db[c] BY DEF AuthInv, AuthTyped
<1> HIDE DEF new
<1>3. new[Auth!User] = db[Auth!User] /\ new[Auth!PasswordHash] = db[Auth!PasswordHash]
  BY <1>2, AuthColumnsIn, AuthNamesApart
<1>4. \A s \in SessionIds : /\ new[Auth!Status(s)] = db[Auth!Status(s)]
                            /\ new[Auth!RefreshHash(s)] = db[Auth!RefreshHash(s)]
                            /\ new[Auth!OpenedBy(s)] = db[Auth!OpenedBy(s)]
  BY <1>2, AuthColumnsIn, AuthNamesApart
<1>5. \A c \in Auth!Columns : new[c] # db[c] => AuthFits(c, new[c], issued) BY <1>2, AuthNamesApart DEF AuthFits
<1>6. ~overlapped => AuthSound(new, valid \cup AuthBrings(Auth!NoCall), exchanged)
  BY <1>3, <1>4, AuthCallSteps DEF AuthSerialInv, AuthSound, AuthNoneActive
<1>7. AuthReached(Auth!NoCall, new, valid, exchanged, kc) BY AuthCallSteps DEF AuthReached
<1>8. AuthHandles(r, new, Auth!NoCall, issued)
  BY <1>3, <1>4, <1>5, <1>6, <1>7, AuthCallSteps DEF AuthHandles, AuthInv, AuthCounted
<1> QED BY <1>1, <1>8, AuthPlainKeeps

LEMMA AuthLoginKeeps ==
    ASSUME AuthInv, AuthSerialInv, NEW r \in Req, NEW p \in Passwords, NEW s \in SessionIds, Auth!Login(r, p, s)
    PROVE  AuthInv' /\ AuthSerialInv'
<1> DEFINE new == Auth!LoggedIn(s, p)
           arg == [password |-> p, hash |-> db[Auth!PasswordHash]]
           k == [step |-> "authenticate", arg |-> arg]
           n == issued + 1
<1>1. /\ db[Auth!User] = "active" /\ AuthRows!Fresh(Auth!Status(s)) /\ issued < MaxTokens /\ issued' = n
      /\ Auth!Calls(r, new, "authenticate", arg)
  BY AuthSame DEF Auth!Login, Auth!CanAct
<1>2. \A c \in Auth!Columns :
         new[c] = IF c = Auth!Status(s) THEN "active" ELSE IF c = Auth!RefreshHash(s)
             THEN n ELSE IF c = Auth!Expires(s) THEN "later"
                  ELSE IF c = Auth!OpenedBy(s) THEN p
                  ELSE IF c = Auth!PasswordHash THEN IF db[c] = "none" THEN p ELSE db[c] ELSE db[c]
  BY AuthNamesApart DEF AuthInv, AuthTyped, Auth!LoggedIn
<1> HIDE DEF new
<1>3. new[Auth!User] = db[Auth!User] /\ new[Auth!PasswordHash] \in {db[Auth!PasswordHash], p}
  BY <1>2, AuthColumnsIn, AuthNamesApart
<1>4. \A z \in SessionIds : /\ new[Auth!Status(z)] = IF z = s THEN "active" ELSE db[Auth!Status(z)]
                            /\ new[Auth!RefreshHash(z)] = IF z = s THEN n ELSE db[Auth!RefreshHash(z)]
                            /\ new[Auth!OpenedBy(z)] = IF z = s THEN p ELSE db[Auth!OpenedBy(z)]
  BY <1>2, AuthColumnsIn, AuthNamesApart
<1>5. issued \in Nat /\ n \in Nat /\ n <= MaxTokens /\ issued <= n /\ MaxTokens \in Nat
  BY <1>1 DEF AuthInv, AuthCounted, AuthConstantsFit
<1>6. \A z \in SessionIds : db[Auth!RefreshHash(z)] \in 0 .. issued BY DEF AuthInv, AuthTyped
<1>7. \A c \in Auth!Columns : new[c] # db[c] => AuthFits(c, new[c], n)
  BY <1>2, <1>5, AuthNamesApart DEF AuthFits
<1>8. k \in AuthCallOf /\ k.step = "authenticate" /\ k.arg = arg /\ AuthBrings(k) = {p}
  BY DEF AuthCallOf, AuthBrings, AuthInv, AuthTyped
<1>9. ASSUME ~overlapped PROVE AuthSound(new, valid \cup {p}, exchanged)
  <2>1. AuthSound(db, valid, exchanged) BY <1>9 DEF AuthSerialInv
  <2>2. exchanged[n] = 0 BY <1>5 DEF AuthInv, AuthCounted
  <2>3. new[Auth!PasswordHash] \in valid \cup {p} \cup {"none"} BY <1>3, <2>1 DEF AuthSound
  <2>4. \A z \in SessionIds : new[Auth!Status(z)] = "active" => new[Auth!OpenedBy(z)] \in valid \cup {p}
    BY <1>4, <2>1 DEF AuthSound
  <2>5. \A y, z \in SessionIds :
          new[Auth!RefreshHash(y)] = new[Auth!RefreshHash(z)] /\ new[Auth!RefreshHash(y)] # 0 => y = z
    BY <1>4, <1>5, <1>6, <2>1 DEF AuthSound
  <2>6. \A z \in SessionIds : new[Auth!RefreshHash(z)] # 0 => exchanged[new[Auth!RefreshHash(z)]] = 0
    BY <1>4, <2>1, <2>2 DEF AuthSound
  <2> QED BY <1>1, <1>3, <2>3, <2>4, <2>5, <2>6 DEF AuthSound
<1>10. ~overlapped => AuthReached(k, new, valid, exchanged, kc)
  BY <1>8 DEF AuthReached, AuthSerialInv, AuthSound
<1>11. \E c \in Auth!Columns : new[c] # db[c]
  <2>1. new[Auth!Status(s)] = "active" /\ db[Auth!Status(s)] = "none" BY <1>1, <1>4 DEF AuthRows!Fresh
  <2> QED BY <2>1, AuthColumnsIn
<1> HIDE DEF k, n
<1>12. \A z \in SessionIds : new[Auth!Status(z)] # db[Auth!Status(z)] =>
         z = s /\ ~AuthUnverified /\ AuthRows!Fresh(Auth!Status(z))
  BY <1>1, <1>4 DEF AuthUnverified
<1>13. AuthHandles(r, new, k, n)
  BY <1>1, <1>3, <1>5, <1>7, <1>8, <1>9, <1>10, <1>11, <1>12 DEF AuthHandles
<1> QED BY <1>1, <1>13, AuthCallsKeep DEF k

LEMMA AuthRefreshKeeps ==
    ASSUME AuthInv, AuthSerialInv, NEW r \in Req, NEW s \in SessionIds, NEW t \in 1 .. issued,
           Auth!RefreshToken(r, s, t)
    PROVE  AuthInv' /\ AuthSerialInv'
<1> DEFINE new == Auth!Rotated(s)
           k == [step |-> "refresh", arg |-> t]
           n == issued + 1
<1>1. db[Auth!RefreshHash(s)] = t /\ issued < MaxTokens /\ issued' = n /\ Auth!Calls(r, new, "refresh", t)
  BY DEF Auth!RefreshToken
<1>2. \A c \in Auth!Columns : new[c] = IF c = Auth!RefreshHash(s) THEN n ELSE IF c = Auth!Expires(s)
        THEN "later" ELSE db[c]
  BY AuthNamesApart DEF AuthInv, AuthTyped, Auth!Rotated
<1> HIDE DEF new
<1>3. new[Auth!User] = db[Auth!User] /\ new[Auth!PasswordHash] = db[Auth!PasswordHash]
  BY <1>2, AuthColumnsIn, AuthNamesApart
<1>4. \A z \in SessionIds : /\ new[Auth!Status(z)] = db[Auth!Status(z)]
                            /\ new[Auth!RefreshHash(z)] = IF z = s THEN n ELSE db[Auth!RefreshHash(z)]
                            /\ new[Auth!OpenedBy(z)] = db[Auth!OpenedBy(z)]
  BY <1>2, AuthColumnsIn, AuthNamesApart
<1>5. /\ issued \in Nat /\ n \in Nat /\ n <= MaxTokens /\ issued <= n /\ MaxTokens \in Nat /\ t \in Nat
      /\ t <= issued /\ t # 0
  BY <1>1 DEF AuthInv, AuthCounted, AuthConstantsFit
<1>6. \A z \in SessionIds : db[Auth!RefreshHash(z)] \in 0 .. issued BY DEF AuthInv, AuthTyped
<1>7. \A c \in Auth!Columns : new[c] # db[c] => AuthFits(c, new[c], n)
  BY <1>2, <1>5, AuthNamesApart DEF AuthFits
<1>8. k \in AuthCallOf /\ k.step = "refresh" /\ k.arg = t /\ AuthBrings(k) = {}
  BY <1>5 DEF AuthCallOf, AuthBrings
<1>9. ASSUME ~overlapped PROVE AuthSound(new, valid, exchanged) /\ AuthReached(k, new, valid, exchanged, kc)
  <2>1. AuthSound(db, valid, exchanged) BY <1>9 DEF AuthSerialInv
  <2>2. exchanged[n] = 0 BY <1>5 DEF AuthInv, AuthCounted
  <2>3. new[Auth!PasswordHash] \in valid \cup {"none"} BY <1>3, <2>1 DEF AuthSound
  <2>4. \A z \in SessionIds : new[Auth!Status(z)] = "active" => new[Auth!OpenedBy(z)] \in valid
    BY <1>4, <2>1 DEF AuthSound
  <2>5. \A y, z \in SessionIds :
          new[Auth!RefreshHash(y)] = new[Auth!RefreshHash(z)] /\ new[Auth!RefreshHash(y)] # 0 => y = z
    BY <1>4, <1>5, <1>6, <2>1 DEF AuthSound
  <2>6. \A z \in SessionIds : new[Auth!RefreshHash(z)] # 0 => exchanged[new[Auth!RefreshHash(z)]] = 0
    BY <1>4, <2>1, <2>2 DEF AuthSound
  <2>7. new[Auth!User] # "active" => AuthNoneActive(new) BY <1>3, <1>4, <2>1 DEF AuthSound, AuthNoneActive
  <2>8. exchanged[t] = 0 BY <1>1, <1>5, <2>1 DEF AuthSound
  <2>9. \A z \in SessionIds : new[Auth!RefreshHash(z)] # t
    <3>1. \A z \in SessionIds : db[Auth!RefreshHash(z)] = t => z = s BY <1>1, <1>5, <2>1 DEF AuthSound
    <3> QED BY <1>4, <1>5, <3>1
  <2> QED BY <1>8, <2>3, <2>4, <2>5, <2>6, <2>7, <2>8, <2>9 DEF AuthSound, AuthReached
<1>11. \E c \in Auth!Columns : new[c] # db[c]
  <2>1. new[Auth!RefreshHash(s)] = n /\ db[Auth!RefreshHash(s)] = t BY <1>1, <1>4
  <2> QED BY <1>5, <2>1, AuthColumnsIn
<1>12. t <= n BY <1>5
<1>13. \A z \in SessionIds : new[Auth!Status(z)] = db[Auth!Status(z)] BY <1>4
<1> HIDE DEF k, n
<1>14. ~overlapped => AuthSound(new, valid \cup AuthBrings(k), exchanged) BY <1>8, <1>9
<1>15. AuthHandles(r, new, k, n)
  BY <1>3, <1>5, <1>7, <1>8, <1>9, <1>11, <1>12, <1>13, <1>14 DEF AuthHandles
<1> QED BY <1>1, <1>15, AuthCallsKeep DEF k

\* Rows base with the sessions S revoked: base is what was read, except that the
\* account is locked, all its sessions revoked, or a reset token used.
LEMMA AuthRevokedHandles ==
    ASSUME AuthInv, AuthSerialInv, NEW r \in Req, NEW S \in SUBSET SessionIds, NEW base, NEW k \in AuthCallOf,
           \A s \in S : db[Auth!Status(s)] # "none",
           base[Auth!PasswordHash] = db[Auth!PasswordHash],
           \A s \in SessionIds : /\ base[Auth!Status(s)] = db[Auth!Status(s)]
                                 /\ base[Auth!RefreshHash(s)] = db[Auth!RefreshHash(s)]
                                 /\ base[Auth!OpenedBy(s)] = db[Auth!OpenedBy(s)],
           \A c \in Auth!Columns : base[c] # db[c] => AuthFits(c, base[c], issued),
           base[Auth!User] # db[Auth!User] =>
               base[Auth!User] \in {"locked", "blocked"} /\ Auth!Active \subseteq S,
           \/ k = Auth!NoCall
           \/ k.step = "revoke" /\ Auth!Active \subseteq S
                 /\ \E t \in ResetIds : base[Auth!Reset(t)] # db[Auth!Reset(t)]
    PROVE  AuthHandles(r, Auth!Revoked(base, S), k, issued)
<1> DEFINE new == Auth!Revoked(base, S)
<1>1. \A c \in Auth!Columns : new[c] = IF \E s \in S : c = Auth!Status(s) THEN "revoked"
                                       ELSE IF \E s \in S : c = Auth!RefreshHash(s) THEN 0
                                       ELSE IF \E s \in S : c = Auth!OpenedBy(s) THEN "none" ELSE base[c]
  BY DEF Auth!Revoked
<1> HIDE DEF new
<1>2. new[Auth!User] = base[Auth!User] /\ new[Auth!PasswordHash] = db[Auth!PasswordHash]
  BY <1>1, AuthColumnsIn, AuthNamesApart
<1>3. \A t \in ResetIds : new[Auth!Reset(t)] = base[Auth!Reset(t)] BY <1>1, AuthColumnsIn, AuthNamesApart
<1>4. \A s \in SessionIds : new[Auth!Status(s)] = IF s \in S THEN "revoked" ELSE db[Auth!Status(s)]
  BY <1>1, AuthColumnsIn, AuthNamesApart
<1>5. \A s \in SessionIds : new[Auth!RefreshHash(s)] = IF s \in S THEN 0 ELSE db[Auth!RefreshHash(s)]
  BY <1>1, AuthColumnsIn, AuthNamesApart
<1>6. \A s \in SessionIds : s \notin S => new[Auth!OpenedBy(s)] = db[Auth!OpenedBy(s)]
  BY <1>1, AuthColumnsIn, AuthNamesApart
<1>7. issued \in Nat /\ issued <= MaxTokens BY DEF AuthInv, AuthCounted
<1>8. \A c \in Auth!Columns : new[c] # db[c] => AuthFits(c, new[c], issued)
  <2> SUFFICES ASSUME NEW c \in Auth!Columns, new[c] # db[c] PROVE AuthFits(c, new[c], issued) OBVIOUS
  <2>1. CASE \E s \in S : c = Auth!Status(s) BY <1>1, <2>1, AuthNamesApart DEF AuthFits
  <2>2. CASE \E s \in S : c = Auth!RefreshHash(s)
    <3>1. new[c] = 0 BY <1>1, <2>2, AuthNamesApart
    <3>2. 0 \in 0 .. issued BY <1>7
    <3> QED BY <2>2, <3>1, <3>2, AuthNamesApart DEF AuthFits
  <2>3. CASE \E s \in S : c = Auth!OpenedBy(s) BY <2>3, AuthNamesApart DEF AuthFits
  <2>4. CASE \A s \in S : c # Auth!Status(s) /\ c # Auth!RefreshHash(s) /\ c # Auth!OpenedBy(s)
    <3>1. new[c] = base[c] BY <1>1, <2>4
    <3> QED BY <3>1
  <2> QED BY <2>1, <2>2, <2>3, <2>4
<1>9. ASSUME Auth!Active \subseteq S PROVE AuthNoneActive(new) BY <1>4, <1>9 DEF AuthNoneActive, Auth!Active
<1>10. k.step \in {"none", "revoke"} /\ AuthBrings(k) = {} BY AuthCallSteps
<1>11. ASSUME ~overlapped PROVE AuthSound(new, valid, exchanged)
  <2>1. AuthSound(db, valid, exchanged) BY <1>11 DEF AuthSerialInv
  <2>2. new[Auth!PasswordHash] \in valid \cup {"none"} BY <1>2, <2>1 DEF AuthSound
  <2>3. \A s \in SessionIds : new[Auth!Status(s)] = "active" => new[Auth!OpenedBy(s)] \in valid
    BY <1>4, <1>6, <2>1 DEF AuthSound
  <2>4. \A s, z \in SessionIds :
          new[Auth!RefreshHash(s)] = new[Auth!RefreshHash(z)] /\ new[Auth!RefreshHash(s)] # 0 => s = z
    BY <1>5, <2>1 DEF AuthSound
  <2>5. \A s \in SessionIds : new[Auth!RefreshHash(s)] # 0 => exchanged[new[Auth!RefreshHash(s)]] = 0
    BY <1>5, <2>1 DEF AuthSound
  <2>6. new[Auth!User] # "active" => AuthNoneActive(new)
    <3>1. CASE base[Auth!User] # db[Auth!User] BY <1>9, <3>1
    <3>2. CASE base[Auth!User] = db[Auth!User] BY <1>2, <1>4, <2>1, <3>2 DEF AuthSound, AuthNoneActive
    <3> QED BY <3>1, <3>2
  <2> QED BY <2>2, <2>3, <2>4, <2>5, <2>6 DEF AuthSound
<1>12. AuthReached(k, new, valid, exchanged, kc) BY <1>9, <1>10, AuthCallSteps DEF AuthReached
<1>13. \A s \in SessionIds : new[Auth!Status(s)] # db[Auth!Status(s)] =>
          ~AuthUnverified /\ new[Auth!Status(s)] # "active" /\ db[Auth!Status(s)] # "none"
  BY <1>4 DEF AuthInv, AuthTyped
<1>14. k # Auth!NoCall => \E c \in Auth!Columns : new[c] # db[c] BY <1>3, AuthColumnsIn
<1>15. new[Auth!User] # db[Auth!User] => new[Auth!User] # "pending_verification" BY <1>2
<1>16. ~overlapped => AuthSound(new, valid \cup AuthBrings(k), exchanged) BY <1>10, <1>11
<1>17. AuthHandles(r, new, k, issued)
  BY <1>7, <1>8, <1>10, <1>12, <1>13, <1>14, <1>15, <1>16 DEF AuthHandles
<1> QED BY <1>17 DEF new

\* Sessions revoked, and nothing else.
LEMMA AuthRevokeKeeps ==
    ASSUME AuthInv, AuthSerialInv, NEW r \in Req, NEW S \in SUBSET SessionIds,
           \A s \in S : db[Auth!Status(s)] # "none",
           Auth!Plain(r, Auth!Revoked(db, S))
    PROVE  AuthInv' /\ AuthSerialInv'
<1>1. AuthHandles(r, Auth!Revoked(db, S), Auth!NoCall, issued) BY AuthRevokedHandles, AuthCallSteps
<1> QED BY <1>1, AuthPlainKeeps

\* The account locked or blocked, and its sessions revoked.
LEMMA AuthLockKeeps ==
    ASSUME AuthInv, AuthSerialInv, NEW r \in Req, NEW u \in {"locked", "blocked"},
           Auth!Plain(r, Auth!Revoked([db EXCEPT ![Auth!User] = u, ![Auth!Principal] = "locked"], Auth!Active))
    PROVE  AuthInv' /\ AuthSerialInv'
<1> DEFINE base == [db EXCEPT ![Auth!User] = u, ![Auth!Principal] = "locked"]
<1>1. \A c \in Auth!Columns : base[c] = IF c = Auth!User THEN u ELSE IF c = Auth!Principal
        THEN "locked" ELSE db[c]
  BY AuthNamesApart DEF AuthInv, AuthTyped
<1> HIDE DEF base
<1>2. base[Auth!PasswordHash] = db[Auth!PasswordHash] /\ base[Auth!User] = u
  BY <1>1, AuthColumnsIn, AuthNamesApart
<1>3. \A s \in SessionIds : /\ base[Auth!Status(s)] = db[Auth!Status(s)]
                            /\ base[Auth!RefreshHash(s)] = db[Auth!RefreshHash(s)]
                            /\ base[Auth!OpenedBy(s)] = db[Auth!OpenedBy(s)]
  BY <1>1, AuthColumnsIn, AuthNamesApart
<1>4. \A c \in Auth!Columns : base[c] # db[c] => AuthFits(c, base[c], issued)
  BY <1>1, AuthNamesApart DEF AuthFits
<1>5. Auth!Active \in SUBSET SessionIds /\ \A s \in Auth!Active : db[Auth!Status(s)] # "none" BY DEF Auth!Active
<1>6. AuthHandles(r, Auth!Revoked(base, Auth!Active), Auth!NoCall, issued)
  BY <1>2, <1>3, <1>4, <1>5, AuthRevokedHandles, AuthCallSteps
<1> QED BY <1>6, AuthPlainKeeps DEF base

LEMMA AuthPasswordResetKeeps ==
    ASSUME AuthInv, AuthSerialInv, NEW r \in Req, NEW t \in ResetIds, NEW p \in Passwords,
           Auth!PasswordReset(r, t, p)
    PROVE  AuthInv' /\ AuthSerialInv'
<1> DEFINE base == [db EXCEPT ![Auth!Reset(t)] = "used"]
           arg == [password |-> p, old |-> valid]
           k == [step |-> "revoke", arg |-> arg]
<1>1. /\ db[Auth!Reset(t)] = "valid" /\ Auth!Calls(r, Auth!Revoked(base, Auth!Active), "revoke", arg)
      /\ issued' = issued
  BY DEF Auth!PasswordReset
<1>2. \A c \in Auth!Columns : base[c] = IF c = Auth!Reset(t) THEN "used" ELSE db[c] BY DEF AuthInv, AuthTyped
<1> HIDE DEF base
<1>3. base[Auth!PasswordHash] = db[Auth!PasswordHash] /\ base[Auth!User] = db[Auth!User]
  BY <1>2, AuthColumnsIn, AuthNamesApart
<1>4. \A s \in SessionIds : /\ base[Auth!Status(s)] = db[Auth!Status(s)]
                            /\ base[Auth!RefreshHash(s)] = db[Auth!RefreshHash(s)]
                            /\ base[Auth!OpenedBy(s)] = db[Auth!OpenedBy(s)]
  BY <1>2, AuthColumnsIn, AuthNamesApart
<1>5. \A c \in Auth!Columns : base[c] # db[c] => AuthFits(c, base[c], issued)
  BY <1>2, AuthNamesApart DEF AuthFits
<1>6. Auth!Active \in SUBSET SessionIds /\ \A s \in Auth!Active : db[Auth!Status(s)] # "none" BY DEF Auth!Active
<1>7. k \in AuthCallOf /\ k.step = "revoke" BY DEF AuthCallOf, AuthInv
<1>8. base[Auth!Reset(t)] # db[Auth!Reset(t)] BY <1>1, <1>2, AuthColumnsIn
<1> HIDE DEF k
<1>9. AuthHandles(r, Auth!Revoked(base, Auth!Active), k, issued)
  BY <1>3, <1>4, <1>5, <1>6, <1>7, <1>8, AuthRevokedHandles
<1> QED BY <1>1, <1>9, AuthCallsKeep DEF k

-----------------------------------------------------------------------------
(* Requests that go on or end.                                             *)

\* The rows that a request has pending become those of the database.
LEMMA AuthWritesCommit ==
    ASSUME AuthInv, NEW r \in Req, DOMAIN db' = Auth!Columns, issued' = issued,
           \A c \in Auth!Columns : db'[c] = IF c \in DOMAIN writes[r] THEN writes[r][c] ELSE db[c],
           Auth!User \in DOMAIN writes[r] /\ writes[r][Auth!User] = "pending_verification" =>
               db[Auth!User] = "none"
    PROVE  /\ AuthTyped' /\ (AuthUnverified' => AuthUnverified)
           /\ \A s \in SessionIds : db[Auth!Status(s)] = "revoked" => db'[Auth!Status(s)] = "revoked"
           /\ \A s \in SessionIds : db'[Auth!Status(s)] = db[Auth!Status(s)]
                 \/ Auth!Status(s) \in DOMAIN writes[r]
<1>1. \A c \in DOMAIN writes[r] : AuthFits(c, writes[r][c], issued) BY DEF AuthInv, AuthPending
<1>2. issued \in Nat BY DEF AuthInv, AuthCounted
<1>3. db'[Auth!User] \in {"none", "pending_verification", "active", "locked", "blocked"}
  BY <1>1, AuthColumnsIn DEF AuthFits, AuthInv, AuthTyped
<1>4. db'[Auth!Principal] \in {"none", "inactive", "active", "locked"}
  BY <1>1, AuthColumnsIn DEF AuthFits, AuthInv, AuthTyped
<1>5. db'[Auth!PasswordHash] \in Passwords \cup {"none"} BY <1>1, AuthColumnsIn DEF AuthFits, AuthInv, AuthTyped
<1>6. ASSUME NEW s \in SessionIds PROVE db'[Auth!Status(s)] \in {"none", "active", "revoked"}
  BY <1>1, AuthColumnsIn DEF AuthFits, AuthInv, AuthTyped
<1>7. ASSUME NEW s \in SessionIds PROVE db'[Auth!RefreshHash(s)] \in 0 .. issued'
  BY <1>1, AuthColumnsIn DEF AuthFits, AuthInv, AuthTyped
<1>8. ASSUME NEW s \in SessionIds PROVE db'[Auth!Expires(s)] \in {"none", "later", "past"}
  BY <1>1, AuthColumnsIn DEF AuthFits, AuthInv, AuthTyped
<1>9. ASSUME NEW t \in ResetIds PROVE db'[Auth!Reset(t)] \in {"none", "valid", "used"}
  BY <1>1, AuthColumnsIn DEF AuthFits, AuthInv, AuthTyped
<1>10. AuthUnverified' => AuthUnverified
  <2>1. CASE Auth!User \notin DOMAIN writes[r] BY <2>1, AuthColumnsIn DEF AuthUnverified
  <2>2. CASE Auth!User \in DOMAIN writes[r] BY <1>1, <2>2, AuthColumnsIn DEF AuthUnverified, AuthFits
  <2> QED BY <2>1, <2>2
<1>11. ASSUME AuthUnverified', NEW s \in SessionIds PROVE db'[Auth!Status(s)] = "none"
  BY <1>10, <1>11, AuthColumnsIn DEF AuthInv, AuthTyped, AuthPending
<1>12. AuthTyped' BY <1>3, <1>4, <1>5, <1>6, <1>7, <1>8, <1>9, <1>11 DEF AuthTyped
<1>13. ASSUME NEW s \in SessionIds, db[Auth!Status(s)] = "revoked" PROVE db'[Auth!Status(s)] = "revoked"
  <2>1. Auth!Status(s) \in Auth!Columns BY AuthColumnsIn
  <2>2. Auth!Status(s) \in DOMAIN writes[r] => writes[r][Auth!Status(s)] = "revoked"
    BY <1>1, <1>13 DEF AuthInv, AuthPending, AuthFits
  <2> QED BY <1>13, <2>1, <2>2
<1> QED BY <1>10, <1>12, <1>13, AuthColumnsIn

LEMMA AuthCommitKeeps ==
    ASSUME AuthInv, AuthSerialInv, NEW r \in Req, AuthRows!Commit(r),
           Auth!User \in DOMAIN writes[r] /\ writes[r][Auth!User] = "pending_verification" =>
               db[Auth!User] = "none",
           issued' = issued, DOMAIN call' = Req, call'[r] = Auth!NoCall,
           \A q \in Req : q # r => call'[q] = call[q],
           kc' = kc, valid' \in SUBSET Passwords, AuthCounted(issued, exchanged'),
           ~overlapped => /\ kc \in valid' \cup {"none"} /\ AuthSound(AuthRows!After(r), valid', exchanged')
                          /\ \A t \in 1 .. MaxTokens : exchanged'[t] <= 1
    PROVE  AuthInv' /\ AuthSerialInv'
<1>1. /\ DOMAIN db' = Auth!Columns /\ overlapped' = overlapped
      /\ \A c \in Auth!Columns : db'[c] = IF c \in DOMAIN writes[r] THEN writes[r][c] ELSE db[c]
      /\ DOMAIN writes' = Req
      /\ DOMAIN writes'[r] = {}
      /\ \A q \in Req : q # r => writes'[q] = writes[q]
  BY AuthRows!CommitWrites DEF AuthInv
<1>2. /\ AuthTyped' /\ (AuthUnverified' => AuthUnverified)
      /\ \A s \in SessionIds : db'[Auth!Status(s)] = db[Auth!Status(s)] \/ Auth!Status(s) \in DOMAIN writes[r]
  BY <1>1, AuthWritesCommit
<1>3. ASSUME NEW q \in Req PROVE AuthPending(q)'
  <2>1. CASE q = r BY <1>1, <2>1, AuthCallSteps DEF AuthPending
  <2>2. CASE q # r
    <3>1. ASSUME NEW s \in SessionIds, Auth!Status(s) \in DOMAIN writes[q], writes[q][Auth!Status(s)] = "active"
          PROVE  db'[Auth!Status(s)] = "none" /\ \A p \in Req : Auth!Status(s) \in DOMAIN writes'[p] => p = q
      <4>1. db[Auth!Status(s)] = "none" /\ \A p \in Req : Auth!Status(s) \in DOMAIN writes[p] => p = q
        BY <3>1 DEF AuthInv, AuthPending
      <4> QED BY <1>1, <1>2, <2>2, <4>1
    <3>2. issued \in Nat BY DEF AuthInv, AuthCounted
    <3> QED BY <1>1, <1>2, <2>2, <3>1, <3>2, AuthPendingStays DEF AuthInv
  <2> QED BY <2>1, <2>2
<1>4. AuthInv' BY <1>1, <1>2, <1>3 DEF AuthInv, AuthConstantsFit
<1>5. /\ AuthRows!Alone'
      /\ ~overlapped' => db' = AuthRows!After(r) /\ \A q \in Req : \A c \in Auth!Columns :
            AuthRows!After(q)'[c] = db'[c]
  BY AuthRows!CommitAlone DEF AuthInv, AuthSerialInv
<1>6. ASSUME ~overlapped', NEW q \in Req PROVE call'[q] = Auth!NoCall
  <2>1. q # r => writes[q] = AuthRows!Nothing BY <1>1, <1>6 DEF AuthSerialInv, AuthRows!Alone, AuthRows!Commit
  <2> QED BY <2>1 DEF AuthInv, AuthPending
<1>7. ASSUME ~overlapped', NEW q \in Req, NEW rows, rows = AuthRows!After(q)' PROVE AuthReady(q, rows)'
  <2>1. AuthSound(db', valid', exchanged') BY <1>1, <1>5, <1>7
  <2> QED BY <1>5, <1>6, <1>7, <2>1, AuthIdleReady DEF AuthReady
<1>8. ASSUME ~overlapped', NEW q \in Req PROVE AuthReady(q, AuthRows!After(q))' BY <1>7, <1>8
<1>9. AuthSerialInv' BY <1>1, <1>5, <1>8 DEF AuthSerialInv
<1> QED BY <1>4, <1>9

\* Which requests may leave an unverified user.
LEMMA AuthNotRegistering ==
    ASSUME AuthInv, NEW r \in Req, call[r].step \notin {"create_user", "register"}
    PROVE  Auth!User \in DOMAIN writes[r] /\ writes[r][Auth!User] = "pending_verification" =>
             db[Auth!User] = "none"
BY DEF AuthInv, AuthPending

\* While nothing overlaps, a request leaves sound rows once its password is valid.
LEMMA AuthLeavesSound ==
    ASSUME AuthInv, AuthSerialInv, ~overlapped, NEW r \in Req, AuthBrings(call[r]) \subseteq valid
    PROVE  /\ AuthSound(AuthRows!After(r), valid, exchanged)
           /\ AuthReached(call[r], AuthRows!After(r), valid, exchanged, kc)
<1>1. valid \cup AuthBrings(call[r]) = valid OBVIOUS
<1> QED BY <1>1 DEF AuthSerialInv, AuthReady

LEMMA AuthFinishKeeps ==
    ASSUME AuthInv, AuthSerialInv, NEW r \in Req, Auth!Finish(r) \/ Auth!RegisterCommit(r)
    PROVE  AuthInv' /\ AuthSerialInv'
<1>1. /\ AuthRows!Commit(r) /\ kc' = kc /\ valid' = valid /\ exchanged' = exchanged /\ issued' = issued
      /\ DOMAIN call' = Req /\ call'[r] = Auth!NoCall /\ \A q \in Req : q # r => call'[q] = call[q]
  BY AuthSame DEF Auth!Finish, Auth!RegisterCommit, AuthInv
<1>2. call[r].step \in {"none", "register"} BY AuthCallSteps DEF Auth!Finish, Auth!RegisterCommit
<1>3. Auth!User \in DOMAIN writes[r] /\ writes[r][Auth!User] = "pending_verification" => db[Auth!User] = "none"
  BY AuthNotRegistering, AuthCallSteps DEF Auth!Finish, Auth!RegisterCommit
<1>4. AuthBrings(call[r]) = {} BY <1>2, AuthCallSteps DEF AuthInv, AuthPending
<1>5. ~overlapped => AuthSound(AuthRows!After(r), valid, exchanged) BY <1>4, AuthLeavesSound
<1>6. valid' \in SUBSET Passwords /\ AuthCounted(issued, exchanged') BY <1>1 DEF AuthInv
<1> QED BY <1>1, <1>3, <1>5, <1>6, AuthCommitKeeps DEF AuthSerialInv

LEMMA AuthRefreshCommitKeeps ==
    ASSUME AuthInv, AuthSerialInv, NEW r \in Req, Auth!RefreshCommit(r) PROVE AuthInv' /\ AuthSerialInv'
<1> DEFINE t == call[r].arg
<1>1. /\ AuthRows!Commit(r) /\ kc' = kc /\ valid' = valid /\ issued' = issued /\ call[r].step = "refresh"
      /\ exchanged' = [exchanged EXCEPT ![t] = @ + 1]
      /\ DOMAIN call' = Req /\ call'[r] = Auth!NoCall /\ \A q \in Req : q # r => call'[q] = call[q]
  BY AuthSame DEF Auth!RefreshCommit, AuthInv
<1>2. t \in 1 .. MaxTokens /\ t <= issued /\ AuthBrings(call[r]) = {}
  BY <1>1, AuthCallSteps DEF AuthInv, AuthPending
<1>3. AuthCounted(issued, exchanged) BY DEF AuthInv
<1> HIDE DEF t
<1>4. \A u \in 1 .. MaxTokens : exchanged'[u] = IF u = t THEN exchanged[u] + 1 ELSE exchanged[u]
  BY <1>1, <1>3 DEF AuthCounted
<1>5. exchanged' \in [1 .. MaxTokens -> Nat] BY <1>1, <1>2, <1>3 DEF AuthCounted
<1>6. AuthCounted(issued, exchanged') BY <1>2, <1>3, <1>4, <1>5 DEF AuthCounted
<1>7. ASSUME ~overlapped
      PROVE  AuthSound(AuthRows!After(r), valid, exchanged') /\ \A u \in 1 .. MaxTokens : exchanged'[u] <= 1
  <2>1. PICK rows : rows = AuthRows!After(r) OBVIOUS
  <2>2. /\ AuthSound(rows, valid, exchanged) /\ exchanged[t] = 0
        /\ \A s \in SessionIds : rows[Auth!RefreshHash(s)] # t
    BY <1>1, <1>2, <1>7, <2>1, AuthLeavesSound DEF AuthReached, t
  <2>3. ASSUME NEW s \in SessionIds, rows[Auth!RefreshHash(s)] # 0
        PROVE  exchanged'[rows[Auth!RefreshHash(s)]] = 0
    <3>1. rows[Auth!RefreshHash(s)] = IF Auth!RefreshHash(s) \in DOMAIN writes[r]
            THEN writes[r][Auth!RefreshHash(s)] ELSE db[Auth!RefreshHash(s)]
      BY <2>1, AuthColumnsIn DEF AuthRows!After
    <3>2. rows[Auth!RefreshHash(s)] \in 0 .. issued BY <3>1 DEF AuthInv, AuthPending, AuthTyped, AuthFits
    <3>3. MaxTokens \in Nat /\ issued \in Nat /\ issued <= MaxTokens
      BY <1>3 DEF AuthInv, AuthConstantsFit, AuthCounted
    <3>4. rows[Auth!RefreshHash(s)] \in 1 .. MaxTokens BY <2>3, <3>2, <3>3
    <3>5. exchanged[rows[Auth!RefreshHash(s)]] = 0 BY <2>2, <2>3 DEF AuthSound
    <3> QED BY <1>4, <2>2, <3>4, <3>5
  <2>4. AuthSound(rows, valid, exchanged') BY <2>2, <2>3 DEF AuthSound
  <2>5. \A u \in 1 .. MaxTokens : exchanged'[u] <= 1 BY <1>4, <1>7, <2>2 DEF AuthSerialInv
  <2> QED BY <2>1, <2>4, <2>5
<1>8. valid' \in SUBSET Passwords BY <1>1 DEF AuthInv
<1>9. Auth!User \in DOMAIN writes[r] /\ writes[r][Auth!User] = "pending_verification" => db[Auth!User] = "none"
  BY <1>1, AuthNotRegistering
<1> QED BY <1>1, <1>6, <1>7, <1>8, <1>9, AuthCommitKeeps DEF AuthSerialInv

LEMMA AuthResetFinishKeeps ==
    ASSUME AuthInv, AuthSerialInv, NEW r \in Req, Auth!ResetFinish(r) PROVE AuthInv' /\ AuthSerialInv'
<1> DEFINE p == call[r].arg.password
<1>1. /\ AuthRows!Commit(r) /\ kc' = kc /\ exchanged' = exchanged /\ issued' = issued /\ call[r].step = "store"
      /\ valid' = (valid \ call[r].arg.old) \cup {p}
      /\ DOMAIN call' = Req /\ call'[r] = Auth!NoCall /\ \A q \in Req : q # r => call'[q] = call[q]
  BY AuthSame DEF Auth!ResetFinish, AuthInv
<1>2. p \in Passwords /\ AuthBrings(call[r]) = {} BY <1>1, AuthCallSteps DEF AuthInv, AuthPending
<1>3. valid' \in SUBSET Passwords /\ p \in valid' BY <1>1, <1>2 DEF AuthInv
<1>4. ASSUME ~overlapped PROVE kc \in valid' \cup {"none"} /\ AuthSound(AuthRows!After(r), valid', exchanged)
  <2>1. PICK rows : rows = AuthRows!After(r) OBVIOUS
  <2>2. /\ AuthSound(rows, valid, exchanged) /\ AuthNoneActive(rows) /\ rows[Auth!PasswordHash] = p
        /\ kc \in {p, "none"}
    BY <1>1, <1>2, <1>4, <2>1, AuthLeavesSound DEF AuthReached
  <2>3. AuthSound(rows, valid', exchanged) BY <1>3, <2>2 DEF AuthSound, AuthNoneActive
  <2> QED BY <1>3, <2>1, <2>2, <2>3
<1>5. Auth!User \in DOMAIN writes[r] /\ writes[r][Auth!User] = "pending_verification" => db[Auth!User] = "none"
  BY <1>1, AuthNotRegistering
<1>6. AuthCounted(issued, exchanged') BY <1>1 DEF AuthInv
<1> QED BY <1>1, <1>3, <1>4, <1>5, <1>6, AuthCommitKeeps DEF AuthSerialInv

\* A request that ends without a commit, wherever it stops.
LEMMA AuthAbortKeeps ==
    ASSUME AuthInv, AuthSerialInv, NEW r \in Req, AuthRows!Abort(r),
           issued' = issued, DOMAIN call' = Req, call'[r] = Auth!NoCall,
           \A q \in Req : q # r => call'[q] = call[q],
           kc' \in Passwords \cup {"none"}, valid \subseteq valid', valid' \in SUBSET Passwords,
           exchanged' = exchanged,
           ~overlapped => kc' \in valid' \cup {"none"}
    PROVE  AuthInv' /\ AuthSerialInv'
<1>1. /\ db' = db /\ overlapped' = overlapped /\ DOMAIN writes' = Req /\ DOMAIN writes'[r] = {}
      /\ \A q \in Req : q # r => writes'[q] = writes[q]
  BY AuthRows!AbortWrites DEF AuthInv
<1>2. AuthUnverified' <=> AuthUnverified BY <1>1 DEF AuthUnverified
<1>3. AuthTyped' BY <1>1, <1>2 DEF AuthInv, AuthTyped
<1>4. ASSUME NEW q \in Req PROVE AuthPending(q)'
  <2>1. CASE q = r BY <1>1, <2>1, AuthCallSteps DEF AuthPending
  <2>2. CASE q # r
    <3>1. ASSUME NEW s \in SessionIds, Auth!Status(s) \in DOMAIN writes[q], writes[q][Auth!Status(s)] = "active"
          PROVE  db'[Auth!Status(s)] = "none" /\ \A p \in Req : Auth!Status(s) \in DOMAIN writes'[p] => p = q
      <4>1. db[Auth!Status(s)] = "none" /\ \A p \in Req : Auth!Status(s) \in DOMAIN writes[p] => p = q
        BY <3>1 DEF AuthInv, AuthPending
      <4> QED BY <1>1, <4>1
    <3>2. issued \in Nat BY DEF AuthInv, AuthCounted
    <3> QED BY <1>1, <1>2, <2>2, <3>1, <3>2, AuthPendingStays DEF AuthInv
  <2> QED BY <2>1, <2>2
<1>5. AuthInv' BY <1>1, <1>3, <1>4 DEF AuthInv, AuthConstantsFit
<1>6. AuthRows!Alone' /\ (~overlapped' => \A q \in Req : \A c \in Auth!Columns : AuthRows!After(q)'[c] = db'[c])
  BY AuthRows!AbortAlone DEF AuthInv, AuthSerialInv
<1>7. ASSUME ~overlapped', NEW q \in Req PROVE call'[q] = Auth!NoCall
  <2>1. q # r => writes[q] = AuthRows!Nothing BY <1>1, <1>7 DEF AuthSerialInv, AuthRows!Alone, AuthRows!Abort
  <2> QED BY <2>1 DEF AuthInv, AuthPending
<1>8. ~overlapped' => AuthSound(db, valid', exchanged) BY <1>1, AuthSoundMore DEF AuthSerialInv
<1>9. ASSUME ~overlapped', NEW q \in Req, NEW rows, rows = AuthRows!After(q)' PROVE AuthReady(q, rows)'
  <2>1. \A c \in Auth!Columns : rows[c] = db[c] BY <1>1, <1>6, <1>9
  <2>2. AuthSound(db, valid', exchanged) BY <1>8, <1>9
  <2>3. /\ AuthSound(rows, valid' \cup AuthBrings(Auth!NoCall), exchanged)
        /\ AuthReached(Auth!NoCall, rows, valid', exchanged, kc')
    BY <2>1, <2>2, AuthIdleReady
  <2> QED BY <1>7, <1>9, <2>3 DEF AuthReady
<1>10. ASSUME ~overlapped', NEW q \in Req PROVE AuthReady(q, AuthRows!After(q))' BY <1>9, <1>10
<1>11. AuthSerialInv' BY <1>1, <1>6, <1>8, <1>10 DEF AuthSerialInv
<1> QED BY <1>5, <1>11

LEMMA AuthEndKeeps ==
    ASSUME AuthInv, AuthSerialInv, NEW r \in Req,
           Auth!Crash(r) \/ Auth!RegisterUndo(r) \/ Auth!SetPasswordFails(r)
    PROVE  AuthInv' /\ AuthSerialInv'
<1>1. /\ AuthRows!Abort(r) /\ issued' = issued /\ exchanged' = exchanged
      /\ DOMAIN call' = Req /\ call'[r] = Auth!NoCall /\ \A q \in Req : q # r => call'[q] = call[q]
  BY AuthSame DEF Auth!Crash, Auth!RegisterUndo, Auth!SetPasswordFails, AuthInv
<1>2. CASE Auth!Crash(r) \/ Auth!RegisterUndo(r)
  <2>1. kc' \in {kc, "none"} /\ valid' = valid BY <1>2 DEF Auth!Crash, Auth!RegisterUndo
  <2> QED BY <1>1, <2>1, AuthAbortKeeps DEF AuthInv, AuthSerialInv
<1>3. CASE Auth!SetPasswordFails(r)
  <2>1. call[r].arg.password \in Passwords
    BY <1>3, AuthCallSteps DEF Auth!SetPasswordFails, AuthInv, AuthPending
  <2>2. kc' \in {kc, call[r].arg.password} /\ valid' = valid \cup {call[r].arg.password}
    BY <1>3 DEF Auth!SetPasswordFails
  <2> QED BY <1>1, <2>1, <2>2, AuthAbortKeeps DEF AuthInv, AuthSerialInv
<1> QED BY <1>2, <1>3

\* A request goes on to call k.
LEMMA AuthCallKeeps ==
    ASSUME AuthInv, AuthSerialInv, NEW r \in Req, NEW k \in AuthCallOf, call[r] # Auth!NoCall,
           db' = db, writes' = writes, overlapped' = overlapped, issued' = issued, exchanged' = exchanged,
           DOMAIN call' = Req, call'[r] = k, \A q \in Req : q # r => call'[q] = call[q],
           k.step # "refresh",
           Auth!User \in DOMAIN writes[r] /\ writes[r][Auth!User] = "pending_verification" =>
               k.step \in {"create_user", "register"},
           kc' \in Passwords \cup {"none"}, valid \subseteq valid', valid' \in SUBSET Passwords,
           ~overlapped => /\ kc' \in valid' \cup {"none"}
                          /\ AuthSound(AuthRows!After(r), valid' \cup AuthBrings(k), exchanged)
                          /\ AuthReached(k, AuthRows!After(r), valid', exchanged, kc')
    PROVE  AuthInv' /\ AuthSerialInv'
<1>1. writes[r] # AuthRows!Nothing BY DEF AuthInv, AuthPending
<1>2. AuthUnverified' <=> AuthUnverified BY DEF AuthUnverified
<1>3. AuthTyped' BY <1>2 DEF AuthInv, AuthTyped
<1>4. AuthRows!Nothing' = AuthRows!Nothing /\ issued \in Nat BY DEF AuthRows!Nothing, AuthInv, AuthCounted
<1>5. ASSUME NEW q \in Req PROVE AuthPending(q)'
  <2>1. CASE q = r BY <1>1, <1>2, <1>4, <2>1 DEF AuthInv, AuthPending
  <2>2. CASE q # r BY <1>2, <1>4, <2>2, AuthPendingStays DEF AuthInv, AuthPending
  <2> QED BY <2>1, <2>2
<1>6. AuthInv' BY <1>3, <1>5 DEF AuthInv, AuthConstantsFit
<1>7. AuthRows!Alone' BY <1>4 DEF AuthSerialInv, AuthRows!Alone
<1>8. \A q \in Req : AuthRows!After(q)' = AuthRows!After(q) BY DEF AuthRows!After
<1>9. ~overlapped => AuthSound(db, valid', exchanged) BY AuthSoundMore DEF AuthSerialInv
<1>10. ASSUME ~overlapped, NEW q \in Req, NEW rows, rows = AuthRows!After(q) PROVE AuthReady(q, rows)'
  <2>1. CASE q = r BY <1>10, <2>1 DEF AuthReady
  <2>2. CASE q # r
    <3>1. writes[q] = AuthRows!Nothing BY <1>1, <1>10, <2>2 DEF AuthSerialInv, AuthRows!Alone
    <3>2. call[q] = Auth!NoCall /\ \A c \in Auth!Columns : rows[c] = db[c]
      BY <1>10, <3>1, AuthRows!AfterNothing DEF AuthInv, AuthPending
    <3> QED BY <1>9, <1>10, <2>2, <3>2, AuthIdleReady DEF AuthReady
  <2> QED BY <2>1, <2>2
<1>11. ASSUME ~overlapped, NEW q \in Req PROVE AuthReady(q, AuthRows!After(q))' BY <1>8, <1>10, <1>11
<1>12. AuthSerialInv' BY <1>7, <1>9, <1>11 DEF AuthSerialInv
<1> QED BY <1>6, <1>12

LEMMA AuthCreateUserKeeps ==
    ASSUME AuthInv, AuthSerialInv, NEW r \in Req, Auth!CreateUser(r) PROVE AuthInv' /\ AuthSerialInv'
<1> DEFINE p == call[r].arg
           k == [step |-> "register", arg |-> p]
<1>1. call[r].step = "create_user" /\ call[r] \in AuthCallOf BY DEF Auth!CreateUser, AuthInv, AuthPending
<1>2. call[r] = [step |-> "create_user", arg |-> p] /\ p \in Passwords /\ AuthBrings(call[r]) = {p}
  BY <1>1, AuthCallSteps
<1>3. /\ DOMAIN call' = Req /\ call'[r] = k /\ \A q \in Req : q # r => call'[q] = call[q]
      /\ db' = db /\ writes' = writes /\ overlapped' = overlapped /\ issued' = issued /\ exchanged' = exchanged
      /\ kc' = p /\ valid' = valid \cup {p}
  BY <1>2 DEF Auth!CreateUser, AuthInv
<1>4. k \in AuthCallOf /\ k.step = "register" /\ AuthBrings(k) = {} BY <1>2 DEF AuthCallOf, AuthBrings
<1>5. call[r] # Auth!NoCall BY <1>1, AuthCallSteps
<1> HIDE DEF k
<1>6. ~overlapped => AuthSound(AuthRows!After(r), valid' \cup AuthBrings(k), exchanged)
  BY <1>2, <1>3, <1>4 DEF AuthSerialInv, AuthReady
<1>7. \A rows : AuthReached(k, rows, valid', exchanged, kc') BY <1>4 DEF AuthReached
<1> HIDE DEF p
<1> QED BY <1>2, <1>3, <1>4, <1>5, <1>6, <1>7, AuthCallKeeps DEF AuthInv

LEMMA AuthSetPasswordKeeps ==
    ASSUME AuthInv, AuthSerialInv, NEW r \in Req, Auth!SetPassword(r) PROVE AuthInv' /\ AuthSerialInv'
<1> DEFINE a == call[r].arg
           k == [step |-> "store", arg |-> a]
<1>1. call[r].step = "set_password" /\ call[r] \in AuthCallOf BY DEF Auth!SetPassword, AuthInv, AuthPending
<1>2. /\ call[r] = [step |-> "set_password", arg |-> a] /\ a \in [password : Passwords, old : SUBSET Passwords]
      /\ AuthBrings(call[r]) = {a.password}
  BY <1>1, AuthCallSteps
<1>3. /\ DOMAIN call' = Req /\ call'[r] = k /\ \A q \in Req : q # r => call'[q] = call[q]
      /\ db' = db /\ writes' = writes /\ overlapped' = overlapped /\ issued' = issued /\ exchanged' = exchanged
      /\ kc' = a.password /\ valid' = valid \cup {a.password}
  BY <1>2 DEF Auth!SetPassword, AuthInv
<1>4. k \in AuthCallOf /\ k.step = "store" /\ k.arg = a /\ AuthBrings(k) = {} BY <1>2 DEF AuthCallOf, AuthBrings
<1>5. call[r] # Auth!NoCall BY <1>1, AuthCallSteps
<1> HIDE DEF k
<1>6. ASSUME ~overlapped
      PROVE  /\ AuthSound(AuthRows!After(r), valid' \cup AuthBrings(k), exchanged)
             /\ AuthReached(k, AuthRows!After(r), valid', exchanged, kc')
  <2>1. PICK rows : rows = AuthRows!After(r) OBVIOUS
  <2>2. AuthSound(rows, valid \cup {a.password}, exchanged) /\ AuthReached(call[r], rows, valid, exchanged, kc)
    BY <1>2, <1>6, <2>1 DEF AuthSerialInv, AuthReady
  <2>3. AuthSound(rows, valid' \cup AuthBrings(k), exchanged) BY <1>3, <1>4, <2>2
  <2>4. AuthNoneActive(rows) /\ rows[Auth!PasswordHash] = a.password BY <1>1, <2>2 DEF AuthReached
  <2>5. AuthReached(k, rows, valid', exchanged, kc') BY <1>3, <1>4, <2>4 DEF AuthReached
  <2> QED BY <2>1, <2>3, <2>5
<1>7. Auth!User \in DOMAIN writes[r] => writes[r][Auth!User] # "pending_verification"
  BY <1>1 DEF AuthInv, AuthPending
<1>8. a.password \in Passwords BY <1>2
<1> HIDE DEF a
<1> QED BY <1>3, <1>4, <1>5, <1>6, <1>7, <1>8, AuthCallKeeps DEF AuthInv

LEMMA AuthAuthenticateKeeps ==
    ASSUME AuthInv, AuthSerialInv, NEW r \in Req, Auth!KeycloakSubjectForLogin(r)
    PROVE  AuthInv' /\ AuthSerialInv'
<1> DEFINE p == call[r].arg.password
<1>1. call[r].step = "authenticate" /\ call[r] \in AuthCallOf
  BY DEF Auth!KeycloakSubjectForLogin, AuthInv, AuthPending
<1>2. p \in Passwords /\ AuthBrings(call[r]) = {p} BY <1>1, AuthCallSteps
<1>3. /\ DOMAIN call' = Req /\ call'[r] = Auth!NoCall /\ \A q \in Req : q # r => call'[q] = call[q]
      /\ db' = db /\ writes' = writes /\ overlapped' = overlapped /\ issued' = issued /\ exchanged' = exchanged
      /\ (kc = p \/ call[r].arg.hash = p) /\ kc' = p /\ valid' = valid
  BY DEF Auth!KeycloakSubjectForLogin, AuthInv
<1>4. call[r] # Auth!NoCall BY <1>1, AuthCallSteps
<1>5. ASSUME ~overlapped
      PROVE  p \in valid /\ AuthSound(AuthRows!After(r), valid \cup AuthBrings(Auth!NoCall), exchanged)
  <2>1. p # "none" BY <1>2 DEF AuthInv, AuthConstantsFit
  <2>2. kc \in valid \cup {"none"} BY <1>5 DEF AuthSerialInv
  <2>3. call[r].arg.hash \in valid \cup {"none"} BY <1>1, <1>5 DEF AuthSerialInv, AuthReady, AuthReached
  <2>4. p \in valid BY <1>3, <2>1, <2>2, <2>3
  <2>5. AuthSound(AuthRows!After(r), valid, exchanged) BY <1>2, <1>5, <2>4, AuthLeavesSound
  <2> QED BY <2>4, <2>5, AuthCallSteps
<1>6. \A rows : AuthReached(Auth!NoCall, rows, valid', exchanged, kc') BY AuthCallSteps DEF AuthReached
<1>7. Auth!User \in DOMAIN writes[r] => writes[r][Auth!User] # "pending_verification"
  BY <1>1 DEF AuthInv, AuthPending
<1> HIDE DEF p
<1> QED BY <1>2, <1>3, <1>4, <1>5, <1>6, <1>7, AuthCallSteps, AuthCallKeeps DEF AuthInv

\* A reset commits the revocation, then begins again to store the new hash.
LEMMA AuthResetCommitKeeps ==
    ASSUME AuthInv, AuthSerialInv, NEW r \in Req, Auth!ResetCommit(r) PROVE AuthInv' /\ AuthSerialInv'
<1> DEFINE a == call[r].arg
           k == [step |-> "set_password", arg |-> a]
<1>1. call[r].step = "revoke" /\ call[r] \in AuthCallOf BY DEF Auth!ResetCommit, AuthInv, AuthPending
<1>2. /\ call[r] = [step |-> "revoke", arg |-> a] /\ a \in [password : Passwords, old : SUBSET Passwords]
      /\ AuthBrings(call[r]) = {} /\ call[r] # Auth!NoCall
  BY <1>1, AuthCallSteps
<1>3. /\ DOMAIN call' = Req /\ call'[r] = k /\ \A q \in Req : q # r => call'[q] = call[q]
      /\ overlapped' = overlapped /\ issued' = issued /\ exchanged' = exchanged /\ kc' = kc /\ valid' = valid
  BY <1>2 DEF Auth!ResetCommit, AuthInv
<1>4. /\ DOMAIN writes' = Req /\ DOMAIN writes'[r] = {Auth!PasswordHash}
      /\ writes'[r][Auth!PasswordHash] = a.password
      /\ \A q \in Req : q # r => writes'[q] = writes[q]
  BY DEF Auth!ResetCommit, AuthInv
<1>5. /\ DOMAIN db' = Auth!Columns /\ db' = AuthRows!After(r)
      /\ \A c \in Auth!Columns : db'[c] = IF c \in DOMAIN writes[r] THEN writes[r][c] ELSE db[c]
  BY DEF Auth!ResetCommit, AuthRows!After
<1>6. k \in AuthCallOf /\ k.step = "set_password" /\ k.arg = a /\ AuthBrings(k) = {a.password}
  BY <1>2 DEF AuthCallOf, AuthBrings
<1>7. a.password \in Passwords BY <1>2
<1> HIDE DEF a, k
<1>8. Auth!User \in DOMAIN writes[r] /\ writes[r][Auth!User] = "pending_verification" => db[Auth!User] = "none"
  BY <1>1, AuthNotRegistering
<1>9. /\ AuthTyped' /\ (AuthUnverified' => AuthUnverified)
      /\ \A s \in SessionIds : db'[Auth!Status(s)] = db[Auth!Status(s)] \/ Auth!Status(s) \in DOMAIN writes[r]
  BY <1>3, <1>5, <1>8, AuthWritesCommit
<1>10. ASSUME NEW q \in Req PROVE AuthPending(q)'
  <2>1. CASE q = r
    <3>1. \A c \in DOMAIN writes'[r] : AuthFits(c, writes'[r][c], issued')
      BY <1>4, <1>7, AuthNamesApart DEF AuthFits
    <3>2. writes'[r] # AuthRows!Nothing' BY <1>4 DEF AuthRows!Nothing
    <3>3. Auth!User \notin DOMAIN writes'[r] /\ \A s \in SessionIds : Auth!Status(s) \notin DOMAIN writes'[r]
      BY <1>4, AuthNamesApart
    <3> QED BY <1>3, <1>6, <2>1, <3>1, <3>2, <3>3 DEF AuthPending
  <2>2. CASE q # r
    <3>1. ASSUME NEW s \in SessionIds, Auth!Status(s) \in DOMAIN writes[q], writes[q][Auth!Status(s)] = "active"
          PROVE  db'[Auth!Status(s)] = "none" /\ \A z \in Req : Auth!Status(s) \in DOMAIN writes'[z] => z = q
      <4>1. db[Auth!Status(s)] = "none" /\ \A z \in Req : Auth!Status(s) \in DOMAIN writes[z] => z = q
        BY <3>1 DEF AuthInv, AuthPending
      <4>2. Auth!Status(s) \notin DOMAIN writes'[r] BY <1>4, AuthNamesApart
      <4> QED BY <1>4, <1>9, <2>2, <4>1, <4>2
    <3>2. issued \in Nat BY DEF AuthInv, AuthCounted
    <3> QED BY <1>3, <1>4, <1>9, <2>2, <3>1, <3>2, AuthPendingStays DEF AuthInv
  <2> QED BY <2>1, <2>2
<1>11. AuthInv' BY <1>3, <1>4, <1>9, <1>10 DEF AuthInv, AuthConstantsFit
<1>12. writes[r] # AuthRows!Nothing BY <1>2 DEF AuthInv, AuthPending
<1>13. AuthRows!Alone' BY <1>3, <1>4, <1>12 DEF AuthSerialInv, AuthRows!Alone, AuthRows!Nothing
<1>14. ASSUME ~overlapped PROVE AuthSound(db', valid', exchanged') /\ AuthNoneActive(db')
  <2>1. /\ AuthSound(AuthRows!After(r), valid, exchanged)
        /\ AuthReached(call[r], AuthRows!After(r), valid, exchanged, kc)
    BY <1>2, <1>14, AuthLeavesSound
  <2> QED BY <1>1, <1>3, <1>5, <2>1 DEF AuthReached
<1>15. ASSUME ~overlapped, NEW q \in Req, NEW rows, rows = AuthRows!After(q)' PROVE AuthReady(q, rows)'
  <2>1. CASE q = r
    <3>1. \A c \in Auth!Columns : rows[c] = IF c = Auth!PasswordHash THEN a.password ELSE db'[c]
      BY <1>4, <1>15, <2>1 DEF AuthRows!After
    <3>2. rows[Auth!User] = db'[Auth!User] /\ rows[Auth!PasswordHash] = a.password
      BY <3>1, AuthColumnsIn, AuthNamesApart
    <3>3. \A s \in SessionIds : rows[Auth!Status(s)] = db'[Auth!Status(s)]
            /\ rows[Auth!RefreshHash(s)] = db'[Auth!RefreshHash(s)]
      BY <3>1, AuthColumnsIn, AuthNamesApart
    <3>4. AuthNoneActive(rows) BY <1>14, <1>15, <3>3 DEF AuthNoneActive
    <3>5. AuthSound(rows, valid' \cup {a.password}, exchanged')
      BY <1>14, <1>15, <3>2, <3>3, <3>4 DEF AuthSound, AuthNoneActive
    <3>6. AuthReached(k, rows, valid', exchanged', kc') BY <1>6, <3>2, <3>4 DEF AuthReached
    <3> QED BY <1>3, <1>6, <2>1, <3>5, <3>6 DEF AuthReady
  <2>2. CASE q # r
    <3>1. writes[q] = AuthRows!Nothing BY <1>12, <1>15, <2>2 DEF AuthSerialInv, AuthRows!Alone
    <3>2. call[q] = Auth!NoCall BY <3>1 DEF AuthInv, AuthPending
    <3>3. \A c \in Auth!Columns : rows[c] = db'[c]
      BY <1>4, <1>15, <2>2, <3>1 DEF AuthRows!After, AuthRows!Nothing
    <3> QED BY <1>3, <1>14, <1>15, <2>2, <3>2, <3>3, AuthIdleReady DEF AuthReady
  <2> QED BY <2>1, <2>2
<1>16. ASSUME ~overlapped, NEW q \in Req PROVE AuthReady(q, AuthRows!After(q))' BY <1>15, <1>16
<1>17. AuthSerialInv' BY <1>3, <1>13, <1>14, <1>16 DEF AuthSerialInv
<1> QED BY <1>11, <1>17

-----------------------------------------------------------------------------
(* Time, and Keycloak.                                                     *)

LEMMA AuthTimeKeeps ==
    ASSUME AuthInv, AuthSerialInv, (\E s \in SessionIds : Auth!Expire(s))
             \/ (\E t \in ResetIds : Auth!ExpireReset(t))
    PROVE  AuthInv' /\ AuthSerialInv'
<1>1. /\ writes' = writes /\ overlapped' = overlapped /\ call' = call /\ kc' = kc /\ issued' = issued
      /\ exchanged' = exchanged /\ valid' = valid
  BY DEF Auth!Expire, Auth!ExpireReset
<1>2. PICK x : /\ (\E s \in SessionIds : x = Auth!Expires(s)) \/ (\E t \in ResetIds : x = Auth!Reset(t))
               /\ DOMAIN db' = Auth!Columns
               /\ \A c \in Auth!Columns : c # x => db'[c] = db[c]
               /\ \A s \in SessionIds : x = Auth!Expires(s) => db'[x] = "past"
               /\ \A t \in ResetIds : x = Auth!Reset(t) => db'[x] = "used"
  <2>1. ASSUME NEW s \in SessionIds, Auth!Expire(s)
        PROVE  /\ DOMAIN db' = Auth!Columns /\ \A c \in Auth!Columns : c # Auth!Expires(s) => db'[c] = db[c]
               /\ db'[Auth!Expires(s)] = "past"
    BY <2>1, AuthColumnsIn DEF Auth!Expire, AuthInv, AuthTyped
  <2>2. ASSUME NEW t \in ResetIds, Auth!ExpireReset(t)
        PROVE  /\ DOMAIN db' = Auth!Columns /\ \A c \in Auth!Columns : c # Auth!Reset(t) => db'[c] = db[c]
               /\ db'[Auth!Reset(t)] = "used"
    BY <2>2, AuthColumnsIn DEF Auth!ExpireReset, AuthInv, AuthTyped
  <2> QED BY <2>1, <2>2, AuthNamesApart
<1>3. /\ x # Auth!User /\ x # Auth!Principal /\ x # Auth!PasswordHash
      /\ \A s \in SessionIds : x # Auth!Status(s) /\ x # Auth!RefreshHash(s) /\ x # Auth!OpenedBy(s)
  BY <1>2, AuthNamesApart
<1>4. /\ db'[Auth!User] = db[Auth!User] /\ db'[Auth!Principal] = db[Auth!Principal]
      /\ db'[Auth!PasswordHash] = db[Auth!PasswordHash]
      /\ \A s \in SessionIds : db'[Auth!Status(s)] = db[Auth!Status(s)]
            /\ db'[Auth!RefreshHash(s)] = db[Auth!RefreshHash(s)]
                                 /\ db'[Auth!OpenedBy(s)] = db[Auth!OpenedBy(s)]
  BY <1>2, <1>3, AuthColumnsIn
<1>5. /\ \A s \in SessionIds : db'[Auth!Expires(s)] \in {"none", "later", "past"}
      /\ \A t \in ResetIds : db'[Auth!Reset(t)] \in {"none", "valid", "used"}
  BY <1>2, AuthColumnsIn DEF AuthInv, AuthTyped
<1>6. AuthUnverified' <=> AuthUnverified BY <1>4 DEF AuthUnverified
<1>7. AuthTyped' BY <1>1, <1>2, <1>4, <1>5, <1>6 DEF AuthInv, AuthTyped
<1>8. \A q \in Req : AuthPending(q)'
  <2>1. AuthRows!Nothing' = AuthRows!Nothing BY DEF AuthRows!Nothing
  <2> QED BY <1>1, <1>4, <1>6, <2>1 DEF AuthInv, AuthPending
<1>9. AuthInv' BY <1>1, <1>7, <1>8 DEF AuthInv, AuthConstantsFit
<1>10. AuthRows!Alone' BY <1>1 DEF AuthSerialInv, AuthRows!Alone, AuthRows!Nothing
<1>11. ~overlapped => AuthSound(db', valid, exchanged) BY <1>4, AuthSoundSame DEF AuthSerialInv
<1>12. ASSUME ~overlapped, NEW q \in Req, NEW rows, rows = AuthRows!After(q)' PROVE AuthReady(q, rows)'
  <2>1. PICK old : old = AuthRows!After(q) OBVIOUS
  <2>2. \A c \in Auth!Columns : c # x => rows[c] = old[c] BY <1>1, <1>2, <1>12, <2>1 DEF AuthRows!After
  <2>3. /\ old[Auth!User] = rows[Auth!User] /\ old[Auth!PasswordHash] = rows[Auth!PasswordHash]
        /\ \A s \in SessionIds : /\ old[Auth!Status(s)] = rows[Auth!Status(s)]
                                 /\ old[Auth!RefreshHash(s)] = rows[Auth!RefreshHash(s)]
                                 /\ old[Auth!OpenedBy(s)] = rows[Auth!OpenedBy(s)]
    BY <1>3, <2>2, AuthColumnsIn
  <2>4. /\ AuthSound(old, valid \cup AuthBrings(call[q]), exchanged)
        /\ AuthReached(call[q], old, valid, exchanged, kc)
    BY <1>12, <2>1 DEF AuthSerialInv, AuthReady
  <2>5. AuthSound(rows, valid \cup AuthBrings(call[q]), exchanged) BY <2>3, <2>4, AuthSoundSame
  <2>6. AuthReached(call[q], rows, valid, exchanged, kc) BY <2>3, <2>4, AuthSoundSame
  <2> QED BY <1>1, <2>5, <2>6 DEF AuthReady
<1>13. ASSUME ~overlapped, NEW q \in Req PROVE AuthReady(q, AuthRows!After(q))' BY <1>12, <1>13
<1>14. AuthSerialInv' BY <1>1, <1>10, <1>11, <1>13 DEF AuthSerialInv
<1> QED BY <1>9, <1>14

LEMMA AuthLostKeeps ==
    ASSUME AuthInv, AuthSerialInv, kc' \in {kc, "none"},
           UNCHANGED <<db, writes, overlapped, call, issued, exchanged, valid>>
    PROVE  AuthInv' /\ AuthSerialInv'
<1>1. AuthTyped' BY DEF AuthInv, AuthTyped, AuthUnverified
<1>2. AuthRows!Nothing' = AuthRows!Nothing BY DEF AuthRows!Nothing
<1>3. \A q \in Req : AuthPending(q)' BY <1>2 DEF AuthInv, AuthPending, AuthUnverified
<1>4. AuthInv' BY <1>1, <1>3 DEF AuthInv, AuthConstantsFit
<1>5. AuthRows!Alone' BY <1>2 DEF AuthSerialInv, AuthRows!Alone
<1>6. \A q \in Req : AuthRows!After(q)' = AuthRows!After(q) BY DEF AuthRows!After
<1>7. ASSUME ~overlapped, NEW q \in Req, NEW rows, rows = AuthRows!After(q) PROVE AuthReady(q, rows)'
  <2>1. AuthReached(call[q], rows, valid, exchanged, kc) => AuthReached(call[q], rows, valid, exchanged, kc')
    BY DEF AuthReached
  <2> QED BY <1>7, <2>1 DEF AuthSerialInv, AuthReady
<1>8. ASSUME ~overlapped, NEW q \in Req PROVE AuthReady(q, AuthRows!After(q))' BY <1>6, <1>7, <1>8
<1>9. AuthSerialInv' BY <1>5, <1>8 DEF AuthSerialInv
<1> QED BY <1>4, <1>9

-----------------------------------------------------------------------------
LEMMA AuthInitInv == AuthConstantsFit /\ Auth!Init => AuthInv /\ AuthSerialInv
<1> SUFFICES ASSUME AuthConstantsFit, Auth!Init PROVE AuthInv /\ AuthSerialInv OBVIOUS
<1>1. PICK h \in Passwords \cup {"none"}, u \in {"none", "active"} :
        /\ DOMAIN db = Auth!Columns /\ kc \in Passwords \cup {"none"} /\ valid = {kc} \ {"none"}
        /\ h \in {kc, "none"}
        /\ \A c \in Auth!Columns : db[c] = IF c = Auth!User THEN u ELSE IF c = Auth!Principal
              THEN u ELSE IF c = Auth!PasswordHash THEN h
                                           ELSE IF \E s \in SessionIds : c = Auth!RefreshHash(s)
                                               THEN 0 ELSE "none"
  <2>1. \A c \in Auth!Columns : Auth!Empty[c] = IF \E s \in SessionIds : c = Auth!RefreshHash(s)
          THEN 0 ELSE "none"
    BY DEF Auth!Empty
  <2>2. DOMAIN Auth!Empty = Auth!Columns BY DEF Auth!Empty
  <2>3. CASE db = Auth!Empty /\ kc = "none" /\ valid = {}
    <3>1. /\ DOMAIN db = Auth!Columns /\ kc \in Passwords \cup {"none"} /\ valid = {kc} \ {"none"}
          /\ "none" \in {kc, "none"}
          /\ \A c \in Auth!Columns : db[c] = IF c = Auth!User THEN "none" ELSE IF c = Auth!Principal THEN "none"
                                             ELSE IF c = Auth!PasswordHash THEN "none"
                                             ELSE IF \E s \in SessionIds : c = Auth!RefreshHash(s)
                                                 THEN 0 ELSE "none"
      BY <2>1, <2>2, <2>3, AuthNamesApart
    <3> QED BY <3>1
  <2>4. ASSUME kc \in Passwords, valid = {kc}, NEW h \in {kc, "none"},
               db = [Auth!Empty EXCEPT ![Auth!User] = "active", ![Auth!Principal] = "active",
                                       ![Auth!PasswordHash] = h]
        PROVE  /\ DOMAIN db = Auth!Columns /\ kc \in Passwords \cup {"none"} /\ valid = {kc} \ {"none"}
               /\ h \in {kc, "none"} /\ h \in Passwords \cup {"none"}
               /\ \A c \in Auth!Columns : db[c] = IF c = Auth!User THEN "active" ELSE IF c = Auth!Principal
                     THEN "active"
                                                  ELSE IF c = Auth!PasswordHash THEN h
                                                  ELSE IF \E s \in SessionIds : c = Auth!RefreshHash(s)
                                                      THEN 0 ELSE "none"
    BY <2>1, <2>2, <2>4, AuthNamesApart DEF AuthConstantsFit
  <2> QED BY <2>3, <2>4 DEF Auth!Init
<1>2. db[Auth!User] = u /\ db[Auth!Principal] = u /\ db[Auth!PasswordHash] = h
  BY <1>1, AuthColumnsIn, AuthNamesApart
<1>3. \A s \in SessionIds : db[Auth!RefreshHash(s)] = 0 BY <1>1, AuthColumnsIn, AuthNamesApart
<1>4. \A s \in SessionIds : db[Auth!Status(s)] = "none" /\ db[Auth!Expires(s)] = "none"
  BY <1>1, AuthColumnsIn, AuthNamesApart
<1>5. \A t \in ResetIds : db[Auth!Reset(t)] = "none" BY <1>1, AuthColumnsIn, AuthNamesApart
<1>6. issued = 0 /\ MaxTokens \in Nat /\ exchanged = [t \in 1 .. MaxTokens |-> 0] /\ overlapped = FALSE
  BY DEF Auth!Init, AuthConstantsFit
<1>7. AuthCounted(issued, exchanged) BY <1>6 DEF AuthCounted
<1>8. AuthTyped BY <1>1, <1>2, <1>3, <1>4, <1>5, <1>6 DEF AuthTyped
<1>9. \A r \in Req : call[r] = Auth!NoCall /\ writes[r] = AuthRows!Nothing BY AuthSame DEF Auth!Init
<1>10. \A r \in Req : AuthPending(r) BY <1>9, AuthCallSteps DEF AuthPending, AuthRows!Nothing
<1>11. DOMAIN writes = Req /\ DOMAIN call = Req BY DEF Auth!Init
<1>12. AuthInv BY <1>1, <1>6, <1>7, <1>8, <1>10, <1>11 DEF AuthInv
<1>13. AuthSound(db, valid, exchanged) BY <1>1, <1>2, <1>3, <1>4 DEF AuthSound, AuthNoneActive
<1>14. \A q \in Req : AuthReady(q, AuthRows!After(q))
  BY <1>9, <1>13, AuthRows!AfterNothing, AuthIdleReady DEF AuthReady
<1>15. kc \in valid \cup {"none"} /\ \A t \in 1 .. MaxTokens : exchanged[t] <= 1 BY <1>1, <1>6
<1> QED BY <1>9, <1>12, <1>13, <1>14, <1>15 DEF AuthSerialInv, AuthRows!Alone

LEMMA AuthNextInv == AuthInv /\ AuthSerialInv /\ [Auth!Next]_(Auth!vars) => AuthInv' /\ AuthSerialInv'
<1> SUFFICES ASSUME AuthInv, AuthSerialInv, [Auth!Next]_(Auth!vars) PROVE AuthInv' /\ AuthSerialInv' OBVIOUS
<1>1. CASE UNCHANGED Auth!vars BY <1>1, AuthLostKeeps DEF Auth!vars
<1>2. CASE Auth!KeycloakLost BY <1>2, AuthLostKeeps DEF Auth!KeycloakLost
<1>3. CASE (\E s \in SessionIds : Auth!Expire(s)) \/ (\E t \in ResetIds : Auth!ExpireReset(t))
  BY <1>3, AuthTimeKeeps
<1>4. ASSUME NEW r \in Req, NEW s \in SessionIds,
             Auth!LogoutSelf(r, s) \/ Auth!RevokeSessionAdmin(r, s) \/ Auth!RevokeOtherSessions(r, s)
               \/ \E t \in 1 .. issued : Auth!RefreshRevokes(r, s, t)
      PROVE  AuthInv' /\ AuthSerialInv'
  <2>1. CASE Auth!RevokeOtherSessions(r, s)
    <3>1. Auth!Plain(r, Auth!Revoked(db, Auth!Active \ {s})) BY <2>1 DEF Auth!RevokeOtherSessions
    <3>2. Auth!Active \ {s} \in SUBSET SessionIds /\ \A z \in Auth!Active \ {s} : db[Auth!Status(z)] # "none"
      BY DEF Auth!Active
    <3> QED BY <3>1, <3>2, AuthRevokeKeeps
  <2>2. CASE Auth!LogoutSelf(r, s) \/ Auth!RevokeSessionAdmin(r, s)
               \/ \E t \in 1 .. issued : Auth!RefreshRevokes(r, s, t)
    <3>1. Auth!Plain(r, Auth!Revoked(db, {s})) /\ db[Auth!Status(s)] # "none"
      BY <2>2 DEF Auth!LogoutSelf, Auth!RevokeSessionAdmin, Auth!RefreshRevokes, Auth!Usable, Auth!Active
    <3>2. {s} \in SUBSET SessionIds /\ \A z \in {s} : db[Auth!Status(z)] # "none" BY <3>1
    <3> QED BY <3>1, <3>2, AuthRevokeKeeps
  <2> QED BY <1>4, <2>1, <2>2
<1>5. ASSUME NEW r \in Req, Auth!RevokePrincipalAccess(r) \/ Auth!SuspendUser(r) \/ Auth!BlockUser(r)
      PROVE  AuthInv' /\ AuthSerialInv'
  BY <1>5, AuthLockKeeps DEF Auth!RevokePrincipalAccess, Auth!SuspendUser, Auth!BlockUser
<1>6. ASSUME NEW r \in Req, Auth!ResetMfa(r) PROVE AuthInv' /\ AuthSerialInv'
  <2>1. Auth!Active \in SUBSET SessionIds /\ \A z \in Auth!Active : db[Auth!Status(z)] # "none"
    BY DEF Auth!Active
  <2> QED BY <1>6, <2>1, AuthRevokeKeeps DEF Auth!ResetMfa
<1>7. ASSUME NEW r \in Req,
             \/ \E p \in Passwords : Auth!RegisterUser(r, p)
             \/ Auth!VerifyEmail(r) \/ Auth!ReinstateUser(r)
             \/ \E p \in Passwords, s \in SessionIds : Auth!Login(r, p, s)
             \/ \E s \in SessionIds, t \in 1 .. issued : Auth!RefreshToken(r, s, t)
             \/ \E t \in ResetIds : Auth!PasswordResetRequest(r, t)
             \/ \E t \in ResetIds, p \in Passwords : Auth!PasswordReset(r, t, p)
      PROVE  AuthInv' /\ AuthSerialInv'
  BY <1>7, AuthRegisterKeeps, AuthActivateKeeps, AuthLoginKeeps, AuthRefreshKeeps, AuthResetRequestKeeps,
     AuthPasswordResetKeeps
<1>8. ASSUME NEW r \in Req,
             \/ Auth!CreateUser(r) \/ Auth!KeycloakSubjectForLogin(r) \/ Auth!SetPassword(r)
                   \/ Auth!ResetCommit(r)
             \/ Auth!RegisterCommit(r) \/ Auth!Finish(r) \/ Auth!RefreshCommit(r) \/ Auth!ResetFinish(r)
             \/ Auth!RegisterUndo(r) \/ Auth!SetPasswordFails(r) \/ Auth!Crash(r)
      PROVE  AuthInv' /\ AuthSerialInv'
  BY <1>8, AuthCreateUserKeeps, AuthAuthenticateKeeps, AuthSetPasswordKeeps, AuthResetCommitKeeps,
     AuthFinishKeeps, AuthRefreshCommitKeeps, AuthResetFinishKeeps, AuthEndKeeps
<1> QED BY <1>1, <1>2, <1>3, <1>4, <1>5, <1>6, <1>7, <1>8 DEF Auth!Next

LEMMA AuthInvGives == AuthInv /\ AuthSerialInv =>
    Auth!InactiveHasNoSession /\ Auth!RefreshedOnce /\ Auth!PasswordReplaced
<1> SUFFICES ASSUME AuthInv, AuthSerialInv
             PROVE  Auth!InactiveHasNoSession /\ Auth!RefreshedOnce /\ Auth!PasswordReplaced
  OBVIOUS
<1>1. \A s \in SessionIds : db[Auth!RefreshHash(s)] \in 0 .. MaxTokens
  <2>1. issued \in Nat /\ MaxTokens \in Nat /\ issued <= MaxTokens BY DEF AuthInv, AuthCounted, AuthConstantsFit
  <2> QED BY <2>1 DEF AuthInv, AuthTyped
<1>2. Auth!TypeOK BY <1>1, AuthSame DEF AuthInv, AuthTyped, Auth!TypeOK, AuthPending
<1>3. Auth!InactiveHasNoSession
  <2>1. AuthUnverified => \A s \in SessionIds : db[Auth!Status(s)] = "none" BY DEF AuthInv, AuthTyped
  <2>2. ~overlapped /\ db[Auth!User] # "active" => Auth!Active = {}
    BY DEF AuthSerialInv, AuthSound, AuthNoneActive, Auth!Active
  <2> QED BY <1>2, <2>1, <2>2 DEF Auth!InactiveHasNoSession, AuthUnverified
<1>4. Auth!RefreshedOnce BY DEF Auth!RefreshedOnce, AuthInv, AuthCounted, AuthSerialInv
<1>5. Auth!PasswordReplaced BY DEF Auth!PasswordReplaced, AuthSerialInv, AuthSound, Auth!Active
<1> QED BY <1>3, <1>4, <1>5

\* However requests overlap, login opens no session before verify_email; and when
\* they do not, suspend_user, block_user and the lock leave no session active
\* that reinstate_user would bring back.
THEOREM LockedOut == AuthConstantsFit /\ Auth!Spec => []Auth!InactiveHasNoSession
<1>1. AuthConstantsFit /\ Auth!Spec => [](AuthInv /\ AuthSerialInv)
  BY AuthInitInv, AuthNextInv, PTL DEF Auth!Spec
<1> QED BY <1>1, AuthInvGives, PTL

\* When requests do not overlap, refresh_token replaces the session's token in
\* the commit that exchanges it: a token is exchanged at most once.
THEOREM ExchangedOnce == AuthConstantsFit /\ Auth!Spec => []Auth!RefreshedOnce
<1>1. AuthConstantsFit /\ Auth!Spec => [](AuthInv /\ AuthSerialInv)
  BY AuthInitInv, AuthNextInv, PTL DEF Auth!Spec
<1> QED BY <1>1, AuthInvGives, PTL

\* When requests do not overlap, once password_reset has answered only the new
\* password opens the account, at Keycloak and by the stored hash, and no
\* session opened with another is left; also when the server stops between
\* the revocation, set_password and the second commit, or Keycloak fails.
THEOREM ResetReplaces == AuthConstantsFit /\ Auth!Spec => []Auth!PasswordReplaced
<1>1. AuthConstantsFit /\ Auth!Spec => [](AuthInv /\ AuthSerialInv)
  BY AuthInitInv, AuthNextInv, PTL DEF Auth!Spec
<1> QED BY <1>1, AuthInvGives, PTL

\* Whatever a step commits, it opens no session that was revoked.
LEMMA AuthStaysRevoked ==
    ASSUME AuthInv, Auth!Next, NEW s \in SessionIds, db[Auth!Status(s)] = "revoked"
    PROVE  db'[Auth!Status(s)] = "revoked"
<1>1. CASE db' = db BY <1>1
<1>2. ASSUME NEW r \in Req, Auth!RegisterCommit(r) \/ Auth!RefreshCommit(r) \/ Auth!ResetCommit(r)
               \/ Auth!ResetFinish(r) \/ Auth!Finish(r)
      PROVE  db'[Auth!Status(s)] = "revoked"
  <2>1. /\ DOMAIN db' = Auth!Columns /\ issued' = issued
        /\ \A c \in Auth!Columns : db'[c] = IF c \in DOMAIN writes[r] THEN writes[r][c] ELSE db[c]
    <3>1. CASE Auth!ResetCommit(r) BY <3>1 DEF Auth!ResetCommit
    <3>2. CASE AuthRows!Commit(r) /\ issued' = issued BY <3>2, AuthRows!CommitWrites DEF AuthInv
    <3> QED
      BY <1>2, <3>1, <3>2, AuthSame DEF Auth!RegisterCommit, Auth!RefreshCommit, Auth!ResetFinish, Auth!Finish
  <2>2. Auth!User \in DOMAIN writes[r] /\ writes[r][Auth!User] = "pending_verification" =>
          db[Auth!User] = "none"
    <3>1. CASE Auth!RegisterCommit(r) BY <3>1 DEF Auth!RegisterCommit
    <3>2. CASE call[r].step \in {"none", "refresh", "revoke", "store"} BY <3>2, AuthNotRegistering
    <3> QED
      BY <1>2, <3>1, <3>2, AuthCallSteps DEF Auth!RefreshCommit, Auth!ResetCommit, Auth!ResetFinish, Auth!Finish
  <2> QED BY <2>1, <2>2, AuthWritesCommit
<1>3. CASE (\E z \in SessionIds : Auth!Expire(z)) \/ (\E t \in ResetIds : Auth!ExpireReset(t))
  <2>1. ASSUME NEW z \in SessionIds, Auth!Expire(z) PROVE db'[Auth!Status(s)] = db[Auth!Status(s)]
    BY <2>1, AuthNamesApart, AuthColumnsIn DEF Auth!Expire, AuthInv, AuthTyped
  <2>2. ASSUME NEW t \in ResetIds, Auth!ExpireReset(t) PROVE db'[Auth!Status(s)] = db[Auth!Status(s)]
    BY <2>2, AuthNamesApart, AuthColumnsIn DEF Auth!ExpireReset, AuthInv, AuthTyped
  <2> QED BY <1>3, <2>1, <2>2
<1>4. ASSUME NEW r \in Req,
             \/ Auth!CreateUser(r) \/ Auth!KeycloakSubjectForLogin(r) \/ Auth!SetPassword(r)
             \/ Auth!RegisterUndo(r) \/ Auth!SetPasswordFails(r) \/ Auth!Crash(r)
      PROVE  db' = db
  BY <1>4, AuthSame
     DEF Auth!CreateUser, Auth!KeycloakSubjectForLogin, Auth!SetPassword, Auth!RegisterUndo,
         Auth!SetPasswordFails, Auth!Crash, AuthRows!Abort
<1>5. ASSUME NEW r \in Req, NEW new, AuthRows!Begin(r, new) PROVE db' = db BY <1>5 DEF AuthRows!Begin
<1>6. ASSUME NEW r \in Req,
             \/ \E p \in Passwords : Auth!RegisterUser(r, p)
             \/ Auth!VerifyEmail(r)
             \/ \E p \in Passwords, z \in SessionIds : Auth!Login(r, p, z)
             \/ \E z \in SessionIds, t \in 1 .. issued : Auth!RefreshRevokes(r, z, t)
             \/ \E z \in SessionIds, t \in 1 .. issued : Auth!RefreshToken(r, z, t)
             \/ \E z \in SessionIds : Auth!LogoutSelf(r, z)
             \/ \E z \in SessionIds : Auth!RevokeSessionAdmin(r, z)
             \/ \E z \in SessionIds : Auth!RevokeOtherSessions(r, z)
             \/ Auth!RevokePrincipalAccess(r) \/ Auth!SuspendUser(r) \/ Auth!ReinstateUser(r)
                   \/ Auth!BlockUser(r) \/ Auth!ResetMfa(r)
             \/ \E t \in ResetIds : Auth!PasswordResetRequest(r, t)
             \/ \E t \in ResetIds, p \in Passwords : Auth!PasswordReset(r, t, p)
      PROVE  db' = db
  BY <1>5, <1>6, AuthSame
     DEF Auth!RegisterUser, Auth!VerifyEmail, Auth!Login, Auth!RefreshRevokes, Auth!RefreshToken,
         Auth!LogoutSelf, Auth!RevokeSessionAdmin, Auth!RevokeOtherSessions, Auth!RevokePrincipalAccess,
         Auth!SuspendUser, Auth!ReinstateUser, Auth!BlockUser, Auth!ResetMfa, Auth!PasswordResetRequest,
         Auth!PasswordReset, Auth!Plain, Auth!Calls
<1>7. CASE Auth!KeycloakLost BY <1>7 DEF Auth!KeycloakLost
<1> QED BY <1>1, <1>2, <1>3, <1>4, <1>6, <1>7 DEF Auth!Next

\* However refresh_token, logout_self, password_reset and suspensions overlap, none of
\* their late commits makes a revoked session active again.
THEOREM RevokedStays == AuthConstantsFit /\ Auth!Spec => Auth!RevokedForGood
<1>1. AuthInv /\ [Auth!Next]_(Auth!vars) => [\A s \in SessionIds : db[Auth!Status(s)] = "revoked" =>
        db'[Auth!Status(s)] = "revoked"]_(Auth!vars)
  BY AuthStaysRevoked
<1>2. AuthConstantsFit /\ Auth!Spec => [](AuthInv /\ AuthSerialInv)
  BY AuthInitInv, AuthNextInv, PTL DEF Auth!Spec
<1> QED BY <1>1, <1>2, PTL DEF Auth!Spec, Auth!RevokedForGood
=============================================================================
