------------------------------ MODULE Platform ------------------------------
(***************************************************************************)
(* Platform operations (AdminOpsService, PlatformAdminUserService): the    *)
(* team of operators with its super admin, the accounts that operators     *)
(* suspend and block, and the organizations that registration, provisioning *)
(* and promotion give to people.  Requests in flight: see UnitOfWork.      *)
(*                                                                         *)
(* An operator is whoever belongs to an operator organization: the team    *)
(* row's own status is not asked for.  A person's organizations are told   *)
(* apart by what they are, operator's or customer's, and not counted.      *)
(***************************************************************************)
EXTENDS Naturals, FiniteSets

CONSTANTS
    People,           \* by email address
    First,            \* the super admin the platform starts with
    Req

ASSUME FirstAssumption == First \in People

VARIABLES db, writes, overlapped
vars == <<db, writes, overlapped>>

\* A column is named by its field and its row.
Role(m)     == <<"platform_role", m>>
Status(m)   == <<"status", m>>            \* of the team row
Linked(m)   == <<"user_id", m>>           \* of the team row
Account(m)  == <<"account", m>>
Session(m)  == <<"session", m>>
Operator(m) == <<"operator_membership", m>>   \* of operator organizations
Owner(m)    == <<"customer_ownership", m>>    \* of customer organizations
Tenancy(m)  == <<"tenant_membership", m>>     \* of tenants of customer organizations

Fields(m) == {Role(m), Status(m), Linked(m), Account(m), Session(m), Operator(m), Owner(m), Tenancy(m)}

Columns == UNION {Fields(m) : m \in People}

INSTANCE UnitOfWork

PLATFORM_TEAM_ROLES == {"super_admin", "platform_admin", "support_agent"}

require_platform_operator(c) == db[Operator(c)] = "active"

\* The caller's access token names a session, which must not be revoked.
Caller(c) == db[Session(c)] = "active" /\ require_platform_operator(c)

-----------------------------------------------------------------------------
(* People come by themselves.                                              *)

RegisterUser(r, m) ==
    /\ db[Account(m)] = "none"
    /\ Begin(r, [db EXCEPT ![Account(m)] = "active", ![Owner(m)] = "active", ![Tenancy(m)] = "active"])

Login(r, m) ==
    /\ db[Account(m)] = "active" /\ db[Session(m)] = "none"
    /\ Begin(r, [db EXCEPT ![Session(m)] = "active"])

-----------------------------------------------------------------------------
(* The team.                                                               *)

\* The row of m is brought up to date, or made with the role; the role and the
\* suspension of a row that exists stay.
upsert_operator_team_member(rows, m, role) ==
    LET known == rows[Account(m)] # "none"
        row   == [rows EXCEPT ![Linked(m)] = IF known THEN "active" ELSE "none"]
    IN IF rows[Role(m)] # "none"
       THEN [row EXCEPT ![Status(m)] = IF @ = "invited" /\ known THEN "active" ELSE @]
       ELSE [row EXCEPT ![Role(m)] = role, ![Status(m)] = IF known THEN "active" ELSE "invited"]

\* What membership of operator organizations _ensure_operator_org_membership
\* leaves: a row of the organization it finds stays as it is, which may be
\* another one than the one that m was removed from or invited to.
EnsuredMemberships(m) ==
    IF db[Account(m)] = "none" THEN {db[Operator(m)]}
    ELSE {"active"} \cup ({db[Operator(m)]} \ {"none"})

InviteTeamMember(r, c, m, role) ==
    /\ Caller(c)
    /\ role \in PLATFORM_TEAM_ROLES \ {"super_admin"}
    /\ \E membership \in EnsuredMemberships(m) :
          Begin(r, [upsert_operator_team_member(db, m, role) EXCEPT ![Operator(m)] = membership])

\* Mutant: the role of the super admin can be changed.
UpdateTeamRole_SuperAdmin(r, c, m, role) ==
    /\ Caller(c)
    /\ role \in PLATFORM_TEAM_ROLES \ {"super_admin"} /\ db[Role(m)] # "none"
    /\ Begin(r, [db EXCEPT ![Role(m)] = role])

UpdateTeamRole(r, c, m, role) ==
    /\ Caller(c)
    /\ role \in PLATFORM_TEAM_ROLES \ {"super_admin"}
    /\ db[Role(m)] \notin {"none", "super_admin"}
    /\ Begin(r, [db EXCEPT ![Role(m)] = role])

SuspendTeamMember(r, c, m) ==
    /\ Caller(c)
    /\ db[Role(m)] \notin {"none", "super_admin"} /\ db[Status(m)] # "suspended"
    /\ Begin(r, [db EXCEPT ![Status(m)] = "suspended",
                           ![Session(m)] = IF db[Linked(m)] = "active" THEN "none" ELSE @])

ReactivateTeamMember(r, c, m) ==
    /\ Caller(c)
    /\ db[Status(m)] = "suspended"
    /\ Begin(r, [db EXCEPT ![Status(m)] = "active"])

\* Keycloak forgets the second factor first.
ResetTeamMfa(r, c, m) ==
    /\ Caller(c)
    /\ db[Linked(m)] = "active"
    /\ Begin(r, [db EXCEPT ![Session(m)] = "none"])

\* The caller has given its password to Keycloak before rows are changed.  The
\* caller's row is changed first: a transfer to oneself changes nothing.
TransferSuperAdmin(r, c, m) ==
    /\ Caller(c) /\ db[Role(c)] = "super_admin"
    /\ db[Status(m)] = "active" /\ db[Linked(m)] = "active"
    /\ Begin(r, [db EXCEPT ![Role(c)] = "platform_admin", ![Role(m)] = "super_admin"])

-----------------------------------------------------------------------------
(* Accounts.  Nobody's is spared.                                          *)

\* suspend_user and block_user revoke the sessions too; what is blocked stays so.
SuspendUser(r, c, m) ==
    /\ Caller(c)
    /\ db[Account(m)] \notin {"none", "blocked"}
    /\ Begin(r, [db EXCEPT ![Account(m)] = "locked", ![Session(m)] = "none"])

ReinstateUser(r, c, m) ==
    /\ Caller(c)
    /\ db[Account(m)] \notin {"none", "blocked"}
    /\ Begin(r, [db EXCEPT ![Account(m)] = "active"])

BlockUser(r, c, m) ==
    /\ Caller(c)
    /\ db[Account(m)] # "none"
    /\ Begin(r, [db EXCEPT ![Account(m)] = "blocked", ![Session(m)] = "none"])

\* The account's second factor is reset at Keycloak, whatever its status is.
ResetUserMfa(r, c, m) ==
    /\ Caller(c)
    /\ db[Account(m)] # "none"
    /\ Begin(r, [db EXCEPT ![Session(m)] = "none"])

-----------------------------------------------------------------------------
(* Organizations and their tenants.                                        *)

\* All organizations that m owns become operator organizations, and with them
\* their tenants; m may belong to tenants of others.
PromoteOperator(r, c, m) ==
    /\ Caller(c)
    /\ db[Owner(m)] = "active" \/ db[Operator(m)] = "active"
    /\ \E left \in {"none", db[Tenancy(m)]} :
          Begin(r, upsert_operator_team_member(
                      [db EXCEPT ![Operator(m)] = "active", ![Owner(m)] = "none", ![Tenancy(m)] = left],
                      m, "platform_admin"))

HasCustomerTenant(m) == db[Tenancy(m)] = "active"

ProvisionTenant(r, c, m) ==
    /\ Caller(c) /\ db[Account(m)] # "none"
    /\ ~HasCustomerTenant(m)
    /\ Begin(r, [db EXCEPT ![Owner(m)] = "active", ![Tenancy(m)] = "active"])

\* The sessions of the tenant's members are revoked with it; its status is in
\* Access.
SuspendTenant(r, c, m) ==
    /\ Caller(c)
    /\ HasCustomerTenant(m)
    /\ Begin(r, [db EXCEPT ![Session(m)] = "none"])

-----------------------------------------------------------------------------
(* What owners and administrators of the organizations do: see Access.     *)

InviteOperator(r, m) ==
    /\ db[Account(m)] # "none" /\ db[Operator(m)] \in {"none", "removed"}
    /\ Begin(r, [db EXCEPT ![Operator(m)] = "invited"])

\* An owner removes anybody else, the super admin too.
RemoveOperator(r, m) ==
    /\ db[Operator(m)] \in {"active", "invited"}
    /\ Begin(r, [db EXCEPT ![Operator(m)] = "removed"])

\* An invitation to the operators, or of another owner of a customer
\* organization.
AcceptOrgInvite(r, m) ==
    \/ db[Operator(m)] = "invited" /\ Begin(r, [db EXCEPT ![Operator(m)] = "active"])
    \/ db[Account(m)] # "none" /\ db[Owner(m)] = "none" /\ Begin(r, [db EXCEPT ![Owner(m)] = "active"])

RemoveOwner(r, m) ==
    /\ db[Owner(m)] = "active"
    /\ \E left \in {"none", db[Tenancy(m)]} :
          Begin(r, [db EXCEPT ![Owner(m)] = "none", ![Tenancy(m)] = left])

RemoveTenantMember(r, m) == HasCustomerTenant(m) /\ Begin(r, [db EXCEPT ![Tenancy(m)] = "none"])

InviteTenantMember(r, m) ==
    /\ db[Account(m)] # "none" /\ ~HasCustomerTenant(m)
    /\ Begin(r, [db EXCEPT ![Tenancy(m)] = "active"])

-----------------------------------------------------------------------------
\* The unique index on the email address of a team row: an insert of a row that
\* is there by now fails.
CommitUnique(r) ==
    /\ Commit(r)
    /\ \A m \in People : {Role(m), Status(m)} \subseteq DOMAIN writes[r] => db[Role(m)] = "none"

TeamRoutes(r, c, m) ==
    \/ \E role \in PLATFORM_TEAM_ROLES : InviteTeamMember(r, c, m, role) \/ UpdateTeamRole(r, c, m, role)
    \/ SuspendTeamMember(r, c, m)
    \/ ReactivateTeamMember(r, c, m)
    \/ ResetTeamMfa(r, c, m)
    \/ TransferSuperAdmin(r, c, m)

UserRoutes(r, c, m) ==
    \/ SuspendUser(r, c, m)
    \/ ReinstateUser(r, c, m)
    \/ BlockUser(r, c, m)
    \/ ResetUserMfa(r, c, m)
    \/ PromoteOperator(r, c, m)

TenantRoutes(r, c, m) == ProvisionTenant(r, c, m) \/ SuspendTenant(r, c, m)

MemberRoutes(r, m) ==
    \/ InviteOperator(r, m)
    \/ RemoveOperator(r, m)
    \/ AcceptOrgInvite(r, m)
    \/ RemoveOwner(r, m)
    \/ RemoveTenantMember(r, m)
    \/ InviteTenantMember(r, m)

Init ==
    /\ db = [k \in Columns |->
                CASE k = Role(First) -> "super_admin"
                  [] k \in {Status(First), Linked(First), Account(First), Operator(First)} -> "active"
                  [] OTHER -> "none"]
    /\ writes = [r \in Req |-> Nothing]
    /\ overlapped = FALSE

Next ==
    \E r \in Req :
        \/ \E m \in People : RegisterUser(r, m) \/ Login(r, m) \/ MemberRoutes(r, m)
        \/ \E c, m \in People : TeamRoutes(r, c, m) \/ UserRoutes(r, c, m) \/ TenantRoutes(r, c, m)
        \/ CommitUnique(r)
        \/ Abort(r)

Spec == Init /\ [][Next]_vars

-----------------------------------------------------------------------------
\* Every column has its type.
TypeOK ==
    /\ DOMAIN db = Columns /\ overlapped \in BOOLEAN
    /\ \A m \in People :
          /\ db[Role(m)] \in PLATFORM_TEAM_ROLES \cup {"none"}
          /\ db[Status(m)] \in {"none", "invited", "active", "suspended"}
          /\ db[Account(m)] \in {"none", "active", "locked", "blocked"}
          /\ db[Operator(m)] \in {"none", "invited", "active", "removed"}
          /\ {db[Linked(m)], db[Session(m)], db[Owner(m)], db[Tenancy(m)]} \subseteq {"none", "active"}

\* When requests do not overlap, the platform has one super admin, whose team
\* row is active and belongs to an account, and who is an operator, unless an
\* owner of their organization has removed this one or not let it in yet.
SuperAdminStays ==
    /\ TypeOK
    /\ ~overlapped =>
         \E m \in People :
            /\ db[Status(m)] = "active" /\ db[Linked(m)] = "active" /\ db[Account(m)] # "none"
            /\ require_platform_operator(m) \/ db[Operator(m)] \in {"invited", "removed"}
            /\ \A k \in People : db[Role(k)] = "super_admin" <=> k = m
=============================================================================
