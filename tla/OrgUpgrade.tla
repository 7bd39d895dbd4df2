----------------------------- MODULE OrgUpgrade -----------------------------
(***************************************************************************)
(* The upgrade of an individual organization to an organization with its   *)
(* own realm (OrgUpgradeService), within the request or by a Temporal      *)
(* workflow that retries the activity run_org_upgrade.                     *)
(*                                                                         *)
(* Every organization has one owner.  The sessions are those of the        *)
(* request that submits q, <<q, 0>>, and of the attempts of its workflow,  *)
(* <<q, k>>: see UnitOfWork.  Keycloak and Temporal are external.          *)
(***************************************************************************)
EXTENDS Naturals

CONSTANTS
    Orgs, Slugs,
    Requests,         \* keys for rows of organization_registration_requests
    MAX_ATTEMPTS      \* the maximum_attempts of the retry policy

ASSUME AttemptsAssumption == MAX_ATTEMPTS \in Nat \ {0}
ASSUME NamesAssumption == "none" \notin Orgs \cup Slugs

VARIABLES
    db, writes, overlapped,
    mode,             \* settings.workflow_mode
    realms,           \* realms of Keycloak
    start,            \* the call of start_org_upgrade, for every request
    workflow,         \* of every request
    attempts          \* attempts of its activity that have begun

vars == <<db, writes, overlapped, mode, realms, start, workflow, attempts>>
temporal == <<start, workflow, attempts>>

\* A column is named by its field and its row.
Slug(o)      == <<"slug", o>>             \* of an individual organization: "none"
OrgType(o)   == <<"org_type", o>>
Tenant(o, s) == <<"tenant", o, s>>        \* with membership, project, roles and binding
Realm(s)     == <<"identity_realm", s>>   \* its organization
Status(q)    == <<"status", q>>
OrgOf(q)     == <<"org_id", q>>
SlugOf(q)    == <<"request_slug", q>>

Columns ==
    {Slug(o) : o \in Orgs} \cup {OrgType(o) : o \in Orgs} \cup {Tenant(o, s) : o \in Orgs, s \in Slugs}
      \cup {Realm(s) : s \in Slugs} \cup UNION {{Status(q), OrgOf(q), SlugOf(q)} : q \in Requests}

Sessions == Requests \X (0 .. MAX_ATTEMPTS)

INSTANCE UnitOfWork WITH Req <- Sessions

InFlight(q, k) == writes[<<q, k>>] # Nothing

-----------------------------------------------------------------------------
(* The pipeline.                                                           *)

owned_individual_org(o) == db[OrgType(o)] = "individual"

slug_available(s, o) ==
    /\ \A p \in Orgs : db[Slug(p)] = s => p = o
    /\ \A q \in Requests : db[SlugOf(q)] = s => db[Status(q)] \notin {"processing", "completed"}

Submitted(q, o, s) ==
    [db EXCEPT ![Status(q)] = "processing", ![OrgOf(q)] = o, ![SlugOf(q)] = s]

\* Mutant: the request is completed before its tenant is there.
run_pipeline_NoTenant(rows, q) ==
    LET o == rows[OrgOf(q)]  s == rows[SlugOf(q)]
    IN [rows EXCEPT ![Realm(s)] = IF @ = "none" THEN o ELSE @,
                    ![Slug(o)] = s, ![OrgType(o)] = "organization", ![Status(q)] = "completed"]

\* Mutant: the request is not completed.
run_pipeline_Unmarked(rows, q) ==
    LET o == rows[OrgOf(q)]  s == rows[SlugOf(q)]
    IN [rows EXCEPT ![Realm(s)] = IF @ = "none" THEN o ELSE @,
                    ![Slug(o)] = s, ![OrgType(o)] = "organization", ![Tenant(o, s)] = "active"]

\* The realm is there; what the organization is now is not asked for.
run_pipeline(rows, q) ==
    LET o == rows[OrgOf(q)]  s == rows[SlugOf(q)]
    IN [rows EXCEPT ![Realm(s)] = IF @ = "none" THEN o ELSE @,
                    ![Slug(o)] = s, ![OrgType(o)] = "organization",
                    ![Tenant(o, s)] = "active", ![Status(q)] = "completed"]

\* What the session of an upgrade is going to write meets a unique constraint:
\* the slug of organizations, uq_tenant_org_slug, or the name of realms.
Clash(o, s, w) ==
    \/ \E p \in Orgs \ {o} : db[Slug(p)] = s
    \/ db[Tenant(o, s)] # "none"
    \/ Realm(s) \in DOMAIN w /\ db[Realm(s)] # "none"

-----------------------------------------------------------------------------
(* The request.                                                            *)

Submit(q, o, s) ==
    /\ mode = "temporal" /\ Fresh(Status(q))
    /\ owned_individual_org(o) /\ slug_available(s, o)
    /\ Begin(<<q, 0>>, Submitted(q, o, s))
    /\ UNCHANGED <<mode, realms, temporal>>

CommitSubmit(q) ==
    /\ mode = "temporal" /\ Commit(<<q, 0>>)
    /\ start' = [start EXCEPT ![q] = "calling"]
    /\ UNCHANGED <<mode, realms, workflow, attempts>>

\* Temporal takes the call, while its caller waits or has given up.
StartWorkflow(q) ==
    /\ start[q] # "none" /\ workflow[q] = "none"
    /\ workflow' = [workflow EXCEPT ![q] = "started"]
    /\ UNCHANGED <<db, writes, overlapped, mode, realms, start, attempts>>

StartReplied(q) ==
    /\ start[q] = "calling" /\ workflow[q] # "none"
    /\ start' = [start EXCEPT ![q] = "ended"]
    /\ UNCHANGED <<db, writes, overlapped, mode, realms, workflow, attempts>>

\* The call fails, or its reply is lost: the request is marked failed, whatever
\* the workflow has made of it by then.
StartFails(q) ==
    /\ start[q] = "calling" /\ start' = [start EXCEPT ![q] = "failed"]
    /\ db' = [db EXCEPT ![Status(q)] = "failed"]
    /\ UNCHANGED <<writes, overlapped, mode, realms, workflow, attempts>>

\* The server stops before or during the call; no other one makes it.
ServerStops(q) ==
    /\ start[q] = "calling" /\ start' = [start EXCEPT ![q] = "ended"]
    /\ UNCHANGED <<db, writes, overlapped, mode, realms, workflow, attempts>>

\* All of it in one request: Keycloak first.
SubmitInline(q, o, s) ==
    /\ mode = "inline" /\ Fresh(Status(q))
    /\ owned_individual_org(o) /\ slug_available(s, o)
    /\ realms' = realms \cup {s}
    /\ Begin(<<q, 0>>, run_pipeline(Submitted(q, o, s), q))
    /\ UNCHANGED <<mode, temporal>>

CommitInline(q) ==
    /\ mode = "inline" /\ InFlight(q, 0)
    /\ LET w == writes[<<q, 0>>] IN ~Clash(w[OrgOf(q)], w[SlugOf(q)], w)
    /\ Commit(<<q, 0>>) /\ UNCHANGED <<mode, realms, temporal>>

\* A clash or another error.  After the rollback the request is stored again, as
\* failed.
FailInline(q) ==
    /\ mode = "inline" /\ InFlight(q, 0)
    /\ LET w == writes[<<q, 0>>]
       IN db' = [db EXCEPT ![Status(q)] = "failed", ![OrgOf(q)] = w[OrgOf(q)], ![SlugOf(q)] = w[SlugOf(q)]]
    /\ writes' = [writes EXCEPT ![<<q, 0>>] = Nothing]
    /\ UNCHANGED <<overlapped, mode, realms, temporal>>

-----------------------------------------------------------------------------
(* The workflow.  An attempt begins when the one before it has failed, or  *)
(* has taken longer than its timeout and may still be running.             *)

\* Mutant: the retry policy has no maximum.
NextAttempt_Forever(q) == workflow[q] = "started" /\ UNCHANGED attempts

NextAttempt(q) ==
    /\ workflow[q] = "started" /\ attempts[q] < MAX_ATTEMPTS
    /\ attempts' = [attempts EXCEPT ![q] = @ + 1]

\* run_for_request up to its commit.
Attempt(q) ==
    /\ NextAttempt(q) /\ db[Status(q)] # "completed"
    /\ realms' = realms \cup {db[SlugOf(q)]}
    /\ Begin(<<q, attempts[q] + 1>>, run_pipeline(db, q))
    /\ UNCHANGED <<mode, start, workflow>>

\* KeycloakUnavailable.
AttemptUnavailable(q) ==
    /\ NextAttempt(q) /\ db[Status(q)] # "completed"
    /\ UNCHANGED <<db, writes, overlapped, mode, realms, start, workflow>>

AttemptCompleted(q) ==
    /\ NextAttempt(q) /\ db[Status(q)] = "completed"
    /\ workflow' = [workflow EXCEPT ![q] = "closed"]
    /\ UNCHANGED <<db, writes, overlapped, mode, realms, start>>

\* Temporal takes the result of the latest attempt only.  It never learns of it
\* when the worker stops, or is late, between the commit and its report.
Reports(q, k) ==
    \/ k = attempts[q] /\ workflow' = [workflow EXCEPT ![q] = "closed"]
    \/ UNCHANGED workflow

CommitAttempt(q, k) ==
    /\ InFlight(q, k) /\ ~Clash(db[OrgOf(q)], db[SlugOf(q)], writes[<<q, k>>])
    /\ Commit(<<q, k>>) /\ Reports(q, k)
    /\ UNCHANGED <<mode, realms, start, attempts>>

\* A clash or another error is stored with the request, unless storing it fails
\* too: then the attempt is repeated.
FailAttempt(q, k) ==
    /\ InFlight(q, k)
    /\ writes' = [writes EXCEPT ![<<q, k>>] = Nothing]
    /\ \/ db' = [db EXCEPT ![Status(q)] = "failed"] /\ Reports(q, k)
       \/ UNCHANGED <<db, workflow>>
    /\ UNCHANGED <<overlapped, mode, realms, start, attempts>>

\* The last attempt has failed or is given up: the request stays as it is.
Exhausted(q) ==
    /\ workflow[q] = "started" /\ attempts[q] = MAX_ATTEMPTS
    /\ workflow' = [workflow EXCEPT ![q] = "closed"]
    /\ UNCHANGED <<db, writes, overlapped, mode, realms, start, attempts>>

\* A server or worker stops, or loses its connection.
Stops(q, k) == Abort(<<q, k>>) /\ UNCHANGED <<mode, realms, temporal>>

-----------------------------------------------------------------------------
Init ==
    /\ db = [c \in Columns |-> IF c \in {OrgType(o) : o \in Orgs} THEN "individual" ELSE "none"]
    /\ writes = [r \in Sessions |-> Nothing]
    /\ overlapped = FALSE
    /\ mode \in {"temporal", "inline"}
    /\ realms = {}
    /\ start = [q \in Requests |-> "none"]
    /\ workflow = [q \in Requests |-> "none"]
    /\ attempts = [q \in Requests |-> 0]

Api(q) ==
    \/ \E o \in Orgs, s \in Slugs : Submit(q, o, s) \/ SubmitInline(q, o, s)
    \/ CommitSubmit(q)
    \/ StartWorkflow(q)
    \/ StartReplied(q)
    \/ StartFails(q)
    \/ ServerStops(q)
    \/ CommitInline(q)
    \/ FailInline(q)

Retries(q) ==
    \/ Attempt(q)
    \/ AttemptUnavailable(q)
    \/ AttemptCompleted(q)
    \/ Exhausted(q)

Worker(q) ==
    \/ Retries(q)
    \/ \E k \in 1 .. MAX_ATTEMPTS : CommitAttempt(q, k) \/ FailAttempt(q, k)

Next ==
    \E q \in Requests : Api(q) \/ Worker(q) \/ \E k \in 0 .. MAX_ATTEMPTS : Stops(q, k)

Spec == Init /\ [][Next]_vars

\* Temporal goes on with a workflow that was started until it is closed; an
\* attempt that has begun may never end.
FairSpec == Spec /\ \A q \in Requests : WF_vars(Retries(q))

-----------------------------------------------------------------------------
\* Every column has its type.
TypeOK ==
    /\ DOMAIN db = Columns
    /\ overlapped \in BOOLEAN /\ mode \in {"temporal", "inline"}
    /\ realms \subseteq Slugs
    /\ start \in [Requests -> {"none", "calling", "ended", "failed"}]
    /\ attempts \in [Requests -> 0 .. MAX_ATTEMPTS]
    /\ workflow \in [Requests -> {"none", "started", "closed"}]
    /\ \A q \in Requests : db[Status(q)] \in {"none", "processing", "completed", "failed"}
    /\ \A o \in Orgs : db[OrgType(o)] \in {"individual", "organization"}

\* Whatever is repeated, overtaken or stopped: a request that says completed
\* has made all of it, the organization, its tenant and its realm.
CompletedIsDone ==
    /\ TypeOK
    /\ \A q \in Requests : db[Status(q)] = "completed" =>
          /\ db[OrgType(db[OrgOf(q)])] = "organization"
          /\ db[Tenant(db[OrgOf(q)], db[SlugOf(q)])] = "active"
          /\ db[Realm(db[SlugOf(q)])] # "none" /\ db[SlugOf(q)] \in realms

\* The caller was told that its workflow had not started, but it has.
Misreported(q) == start[q] = "failed" /\ workflow[q] # "none"

\* Unless attempts overlap, a request that says failed has left nothing behind:
\* a tenant there was made by one that says completed, or that said so before
\* the reply to start_org_upgrade was lost.
FailedIsUndone ==
    ~overlapped =>
       \A q \in Requests : db[Status(q)] = "failed" /\ db[Tenant(db[OrgOf(q)], db[SlugOf(q)])] # "none" =>
          \E p \in Requests : /\ db[Status(p)] = "completed" \/ Misreported(p)
                             /\ db[OrgOf(p)] = db[OrgOf(q)] /\ db[SlugOf(p)] = db[SlugOf(q)]

\* A workflow that was started is closed, and when it is, its request says
\* completed or failed, or all its attempts are used up.
WorkflowEnds ==
    \A q \in Requests :
       workflow[q] = "started" ~> /\ workflow[q] = "closed"
                                  /\ \/ db[Status(q)] \in {"completed", "failed"}
                                     \/ attempts[q] = MAX_ATTEMPTS
=============================================================================
