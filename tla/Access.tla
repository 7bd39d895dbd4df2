------------------------------- MODULE Access -------------------------------
(***************************************************************************)
(* Who may administer a tenant: the members of an organization and of its  *)
(* tenant (MemberService), role bindings and the authorization decision    *)
(* (RoleBindingService, AuthorizationService), bindings a platform operator *)
(* grants and revokes (PlatformAdminRoleService), and the tenant's service *)
(* account with its API keys (ServiceAccountService).                      *)
(*                                                                         *)
(* One organization with one tenant.  Accounts are active and bindings     *)
(* have not expired: one that is or has only loses requests.  Rows that    *)
(* were removed or revoked are like rows that do not exist: no handler     *)
(* tells them apart.  Requests in flight: see UnitOfWork.                  *)
(***************************************************************************)
EXTENDS Naturals, FiniteSets

CONSTANTS
    Users,
    Founder,          \* the user whose registration created the organization
    Robot,            \* the principal of the service account
    RobotRoles,       \* the roles that the service account is given
    KeyIds,           \* keys for rows of api_keys
    Req

ASSUME FounderAssumption == Founder \in Users /\ Robot \notin Users
ASSUME UsersAssumption == IsFiniteSet(Users)

VARIABLES
    db, writes, overlapped,
    overruled,        \* history: a tenant-admin binding was taken away by a
                      \* removal from the organization or by an operator
    outside           \* history: the bindings an operator gave to users who were
                      \* no members, as long as they last

vars == <<db, writes, overlapped, overruled, outside>>

Principals == Users \cup {Robot}

\* One of the system roles, which are seeded with the tenant, and a role that
\* an operator defines; resource-admin and viewer are like a plain custom role.
Roles == {"tenant-admin", "custom"}
ASSUME RobotRolesAssumption == RobotRoles \subseteq Roles

\* A column is named by its field and its row.
Org(u)        == <<"org_membership", u>>
OrgRole(u)    == <<"org_role", u>>
Member(p)     == <<"tenant_membership", p>>   \* of the robot: service_accounts
Binding(p, role) == <<"principal_role", p, role>>
Key(k)        == <<"api_key", k>>
Tenant        == <<"status", "tenant">>
Permissions(role) == <<"role_permissions", role>>  \* "admin": tenant.admin is among them

Columns ==
    {Tenant} \cup {Permissions(role) : role \in Roles}
      \cup {Member(p) : p \in Principals} \cup {Org(u) : u \in Users} \cup {OrgRole(u) : u \in Users}
      \cup {Binding(p, role) : p \in Principals, role \in Roles} \cup {Key(k) : k \in KeyIds}

INSTANCE UnitOfWork

-----------------------------------------------------------------------------
(* The authorization decision.                                             *)

has_active_tenant_membership(p) == db[Member(p)] = "active"

has_exact_permission_grant(p) ==
    \E role \in Roles : db[Binding(p, role)] = "active" /\ db[Permissions(role)] = "admin"

\* May p do what asks for the permission tenant.admin?
authorize(p) ==
    /\ db[Tenant] = "active"
    /\ has_active_tenant_membership(p)
    /\ has_exact_permission_grant(p)

OrgOwner(u) == db[Org(u)] = "active" /\ db[OrgRole(u)] = "owner"

count_active_tenant_admins ==
    Cardinality({p \in Principals : db[Binding(p, "tenant-admin")] = "active"})

-----------------------------------------------------------------------------
(* Rows that handlers write.                                               *)

Bound(rows, p, role) == [rows EXCEPT ![Binding(p, role)] = "active"]
Unbound(rows, p, role) == [rows EXCEPT ![Binding(p, role)] = "none"]

\* No bindings of u are left, and no tenant membership.
Removed(rows, u) ==
    [c \in Columns |->
        IF c \in {Binding(u, role) : role \in Roles} \cup {Member(u)} THEN "none" ELSE rows[c]]

Exists(role) == db[Permissions(role)] # "none"

\* The operation of a request that does not overrule the tenant's own guards.
Request(r, new) == Begin(r, new) /\ UNCHANGED <<overruled, outside>>

-----------------------------------------------------------------------------
(* Members.                                                                *)

\* The index on bindings refuses one that u has had since before the membership.
InviteTenantMember(r, c, u, role) ==
    /\ authorize(c)
    /\ db[Org(u)] \in {"active", "invited"} /\ db[Member(u)] # "active"
    /\ Exists(role) /\ db[Binding(u, role)] = "none"
    /\ Request(r, Bound([db EXCEPT ![Member(u)] = "active"], u, role))

\* Mutant: the last tenant-admin can be removed.
RemoveTenantMember_NoGuard(r, c, u) ==
    /\ authorize(c) /\ db[Member(u)] = "active"
    /\ Request(r, Removed(db, u))

\* Mutant: the bindings of a removed member stay.
RemoveTenantMember_KeepsBindings(r, c, u) ==
    /\ authorize(c) /\ db[Member(u)] = "active"
    /\ db[Binding(u, "tenant-admin")] = "active" => count_active_tenant_admins > 1
    /\ Request(r, [db EXCEPT ![Member(u)] = "none"])

RemoveTenantMember(r, c, u) ==
    /\ authorize(c) /\ db[Member(u)] = "active"
    /\ db[Binding(u, "tenant-admin")] = "active" => count_active_tenant_admins > 1
    /\ Request(r, Removed(db, u))

InviteOrgMember(r, c, u, role) ==
    /\ OrgOwner(c) /\ role \in {"member", "owner"}
    /\ db[Org(u)] = "none"
    /\ Request(r, [db EXCEPT ![Org(u)] = "invited", ![OrgRole(u)] = role])

AcceptOrgInvite(r, u) ==
    /\ db[Org(u)] = "invited"
    /\ Request(r, [db EXCEPT ![Org(u)] = "active"])

\* Mutant: an owner can remove itself.
RemoveOrgMember_Self(r, c, u) ==
    /\ OrgOwner(c) /\ db[Org(u)] # "none"
    /\ Begin(r, [Removed(db, u) EXCEPT ![Org(u)] = "none", ![OrgRole(u)] = "none"])
    /\ overruled' = (overruled \/ db[Binding(u, "tenant-admin")] = "active")
    /\ UNCHANGED outside

\* No administrator is kept here.
RemoveOrgMember(r, c, u) ==
    /\ OrgOwner(c) /\ c # u /\ db[Org(u)] # "none"
    /\ Begin(r, [Removed(db, u) EXCEPT ![Org(u)] = "none", ![OrgRole(u)] = "none"])
    /\ overruled' = (overruled \/ db[Binding(u, "tenant-admin")] = "active")
    /\ UNCHANGED outside

-----------------------------------------------------------------------------
(* Role bindings.  A service account is bound as soon as it exists.         *)

Grant(r, c, p, role) ==
    /\ authorize(c)
    /\ Exists(role) /\ db[Member(p)] = "active" /\ db[Binding(p, role)] = "none"
    /\ Request(r, Bound(db, p, role))

Revoke(r, c, p, role) ==
    /\ authorize(c)
    /\ db[Binding(p, role)] = "active"
    /\ role = "tenant-admin" => count_active_tenant_admins > 1
    /\ Request(r, Unbound(db, p, role))

\* A platform operator who names the principal, not the user, binds users who
\* are no members too.
GrantBinding(r, p, role) ==
    /\ Exists(role) /\ db[Binding(p, role)] = "none"
    /\ p = Robot => db[Member(p)] = "active"
    /\ Begin(r, Bound(db, p, role)) /\ UNCHANGED overruled
    /\ outside' = IF db[Member(p)] = "active" THEN outside ELSE outside \cup {Binding(p, role)}

\* No administrator is kept here.
RevokeBinding(r, p, role) ==
    /\ db[Binding(p, role)] = "active"
    /\ Begin(r, Unbound(db, p, role))
    /\ overruled' = (overruled \/ role = "tenant-admin")
    /\ UNCHANGED outside

\* Of two that overlap, the index on names lets one through.
CreateCustomRole(r, kind) ==
    /\ Fresh(Permissions("custom"))
    /\ Request(r, [db EXCEPT ![Permissions("custom")] = kind])

UpdateCustomRole(r, kind) ==
    /\ Exists("custom")
    /\ Request(r, [db EXCEPT ![Permissions("custom")] = kind])

SuspendTenant(r) ==
    /\ db[Tenant] # "suspended"
    /\ Request(r, [db EXCEPT ![Tenant] = "suspended"])

ReinstateTenant(r) ==
    /\ db[Tenant] = "suspended"
    /\ Request(r, [db EXCEPT ![Tenant] = "active"])

-----------------------------------------------------------------------------
(* The service account.                                                    *)

Created(k) == [db EXCEPT ![Member(Robot)] = "active", ![Key(k)] = "active"]

CreateAccount(r, c, k) ==
    /\ authorize(c)
    /\ db[Member(Robot)] = "none" /\ Fresh(Key(k))
    /\ \/ Request(r, Created(k))
       \/ \E role \in RobotRoles : Exists(role) /\ Request(r, Bound(Created(k), Robot, role))

AssignRole(r, c, role) ==
    /\ authorize(c)
    /\ db[Member(Robot)] = "active" /\ Exists(role) /\ db[Binding(Robot, role)] = "none"
    /\ Request(r, Bound(db, Robot, role))

RotateKey(r, c, k, new) ==
    /\ authorize(c)
    /\ db[Key(k)] = "active" /\ Fresh(Key(new))
    /\ Request(r, [db EXCEPT ![Key(k)] = "none", ![Key(new)] = "active"])

RevokeKey(r, c, k) ==
    /\ authorize(c)
    /\ db[Key(k)] = "active"
    /\ Request(r, [db EXCEPT ![Key(k)] = "none"])

-----------------------------------------------------------------------------
(* What the database refuses.                                              *)

Inserts(r, c) == c \in DOMAIN writes[r] /\ writes[r][c] = "active"

\* A second active binding of a principal to a role.
uq_principal_roles_active_tenant(r) ==
    \A p \in Principals, role \in Roles :
        Inserts(r, Binding(p, role)) => db[Binding(p, role)] = "none"

\* A second account of that name.
uq_sa_tenant_name(r) == Inserts(r, Member(Robot)) => db[Member(Robot)] = "none"

ValidKeys(rows) == {k \in KeyIds : rows[Key(k)] = "active"}

\* A second active key of an account.
uq_api_keys_one_active_per_sa(rows) == Cardinality(ValidKeys(rows)) <= 1

\* A binding is in the history until it ends.
Lasting == outside' = {c \in outside : db'[c] = "active"}

CommitUnique(r) ==
    /\ uq_principal_roles_active_tenant(r) /\ uq_sa_tenant_name(r)
    /\ Commit(r) /\ UNCHANGED overruled
    /\ Lasting
    /\ uq_api_keys_one_active_per_sa(db')

-----------------------------------------------------------------------------
(* The routes: each takes the caller from the access token.                *)

MemberRoutes(r, c, u) ==
    \/ \E role \in Roles : InviteTenantMember(r, c, u, role)
    \/ RemoveTenantMember(r, c, u)
    \/ \E role \in {"member", "owner"} : InviteOrgMember(r, c, u, role)
    \/ c = u /\ AcceptOrgInvite(r, u)
    \/ RemoveOrgMember(r, c, u)

RoleRoutes(r, c, p) ==
    \E role \in IF p = Robot THEN RobotRoles ELSE Roles :
        Grant(r, c, p, role) \/ Revoke(r, c, p, role)

AccountRoutes(r, c) ==
    \/ \E k \in KeyIds : CreateAccount(r, c, k) \/ RevokeKey(r, c, k)
    \/ \E k, new \in KeyIds : RotateKey(r, c, k, new)
    \/ \E role \in RobotRoles : AssignRole(r, c, role)

OperatorRoutes(r) ==
    \/ \E p \in Principals : \E role \in IF p = Robot THEN RobotRoles ELSE Roles :
          GrantBinding(r, p, role) \/ RevokeBinding(r, p, role)
    \/ \E kind \in {"plain", "admin"} : CreateCustomRole(r, kind) \/ UpdateCustomRole(r, kind)

TenantRoutes(r) == SuspendTenant(r) \/ ReinstateTenant(r)

\* What a registration leaves: its user owns the organization, is a member of
\* the tenant and its administrator (bootstrap_individual_org).
Init ==
    /\ db = [c \in Columns |->
                CASE c \in {Tenant, Org(Founder), Member(Founder), Binding(Founder, "tenant-admin")} -> "active"
                  [] c = OrgRole(Founder) -> "owner"
                  [] c = Permissions("tenant-admin") -> "admin"
                  [] OTHER -> "none"]
    /\ writes = [r \in Req |-> Nothing]
    /\ overlapped = FALSE /\ overruled = FALSE /\ outside = {}

Next ==
    \E r \in Req :
        \/ \E c, u \in Users : MemberRoutes(r, c, u)
        \/ \E c \in Users, p \in Principals : RoleRoutes(r, c, p)
        \/ \E c \in Users : AccountRoutes(r, c)
        \/ OperatorRoutes(r)
        \/ TenantRoutes(r)
        \/ CommitUnique(r)
        \/ Abort(r) /\ UNCHANGED overruled /\ Lasting

Spec == Init /\ [][Next]_vars

-----------------------------------------------------------------------------
\* Every column has its type.
TypeOK ==
    /\ DOMAIN db = Columns
    /\ overlapped \in BOOLEAN /\ overruled \in BOOLEAN
    /\ outside \subseteq {Binding(u, role) : u \in Users, role \in Roles}
    /\ \A c \in Columns : db[c] \in {"none", "invited", "active", "suspended", "member", "owner", "plain", "admin"}

(* Requests that do not overlap.                                           *)

\* Unless the organization or an operator took it away, the tenant keeps a
\* tenant-admin binding, whatever its own administrators remove and revoke.
AdministratorStays == ~overlapped /\ ~overruled => count_active_tenant_admins > 0

\* The organization keeps an owner who can act for it.
OwnerStays == ~overlapped => \E u \in Users : OrgOwner(u)

\* A user has roles in the tenant only as its member or from an operator who
\* bound the principal, so that one who was removed and is invited again starts
\* with the role of the invitation, however many roles there were before and
\* whoever gave them; a member of the tenant belongs to its organization.
MembershipSound ==
    /\ TypeOK
    /\ ~overlapped =>
         \A u \in Users :
            /\ \A role \in Roles :
                  db[Binding(u, role)] = "active" => db[Member(u)] = "active" \/ Binding(u, role) \in outside
            /\ db[Member(u)] = "active" => db[Org(u)] # "none"
=============================================================================
