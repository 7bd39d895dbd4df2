----------------------------- MODULE PluginReview -----------------------------
(***************************************************************************)
(* A vendor's plugin, one version of it and the version's declared         *)
(* capabilities: registration, submission, the artifact scan, claims and   *)
(* the governance decision (PluginService).  The vendor is a verified one; *)
(* its own life cycle is in Catalog.  Versions share only the plugin's     *)
(* status, and approving another one could only make it active sooner.     *)
(* Requests in flight: see UnitOfWork.                                     *)
(***************************************************************************)
CONSTANTS
    Reviewers,        \* platform operators
    Scopes,           \* scopes a plugin may declare
    HighRisk,         \* those with a token of _HIGH_RISK_TOKENS
    MediumRisk,       \* those with a token of _MEDIUM_RISK_TOKENS
    CapRows,          \* keys for rows of plugin_capabilities
    Req

ASSUME RiskAssumption == HighRisk \subseteq Scopes /\ MediumRisk \subseteq Scopes
ASSUME ReviewersAssumption == "none" \notin Reviewers /\ "changes" \notin Reviewers

VARIABLES db, writes, overlapped

vars == <<db, writes, overlapped>>

\* "author" and "judged" are history: who took the decision that status
\* shows, and the capabilities that reviewer saw.
Fixed == {"plugin", "status", "scan", "risk", "claimed_by", "decided_by", "author", "judged"}

ASSUME ColumnsAssumption == CapRows \cap Fixed = {} /\ "none" \notin Scopes

Columns == Fixed \cup CapRows

Values(c) ==
    CASE c = "plugin"     -> {"none", "draft", "active"}
      [] c = "status"     -> {"none", "pending_review", "changes_requested", "approved", "rejected"}
      [] c = "scan"       -> {"none", "pending", "passed"}
      [] c = "risk"       -> {"low", "medium", "high"}
      [] c = "claimed_by" -> Reviewers \cup {"none"}
      [] c = "decided_by" -> Reviewers \cup {"none"}
      [] c = "author"     -> Reviewers \cup {"none", "changes"}
      [] c = "judged"     -> SUBSET Scopes
      [] OTHER            -> Scopes \cup {"none"}

INSTANCE UnitOfWork

Declared == {db[k] : k \in CapRows} \ {"none"}

risk_level_for_scopes(S) ==
    IF S \cap HighRisk # {} THEN "high"
    ELSE IF S \cap MediumRisk # {} THEN "medium" ELSE "low"

-----------------------------------------------------------------------------
(* The vendor.                                                             *)

RegisterPlugin(r) ==
    /\ Fresh("plugin")
    /\ Begin(r, [db EXCEPT !["plugin"] = "draft"])

SubmitVersion(r) ==
    /\ db["plugin"] # "none"
    /\ Fresh("status")
    /\ Begin(r, [db EXCEPT !["status"] = "pending_review", !["scan"] = "pending"])

\* Registers the plugin and submits the version in one transaction.
SubmitPluginBundle(r) ==
    /\ db["plugin"] = "none" => Fresh("plugin")
    /\ Fresh("status")
    /\ Begin(r, [db EXCEPT !["plugin"] = IF @ = "none" THEN "draft" ELSE @,
                           !["status"] = "pending_review", !["scan"] = "pending"])

\* The rows it has read are deleted by key, new ones are inserted.
DeclareWith(r, new) ==
    LET scopes == {new[k] : k \in DOMAIN new}
    IN  Begin(r, [c \in Columns |-> IF c \in DOMAIN new THEN new[c]
                                    ELSE IF c \in CapRows THEN "none"
                                    ELSE IF c = "risk" THEN risk_level_for_scopes(scopes)
                                    ELSE db[c]])

\* One new row, with an unused key, for each scope.
NewRows(scopes) ==
    {f \in UNION {[K -> scopes] : K \in SUBSET {k \in CapRows : Fresh(k)}} :
        /\ \A j, k \in DOMAIN f : f[j] = f[k] => j = k
        /\ \A s \in scopes : \E k \in DOMAIN f : f[k] = s}

\* Mutant: capabilities of a decided version may be declared again.
DeclareCapabilities_Thawed(r, scopes) ==
    /\ db["status"] # "none"
    /\ scopes # {}
    /\ \E f \in NewRows(scopes) : DeclareWith(r, f)

DeclareCapabilities(r, scopes) ==
    /\ db["status"] \notin {"none", "approved", "rejected"}
    /\ scopes # {}
    /\ \E f \in NewRows(scopes) : DeclareWith(r, f)

\* The outbox processor runs the scan that a submission has ordered.
HandleScan(r) ==
    /\ db["scan"] = "pending"
    /\ Begin(r, [db EXCEPT !["scan"] = "passed"])

-----------------------------------------------------------------------------
(* The reviewers.                                                          *)

ClaimVersion(r, u) ==
    /\ db["status"] \in {"pending_review", "changes_requested"}
    /\ db["claimed_by"] \in {"none", u}
    /\ Begin(r, [db EXCEPT !["claimed_by"] = u])

RequireClaim(u) == db["claimed_by"] \in {"none", u}

RequestChanges(r, u) ==
    /\ db["status"] = "pending_review"
    /\ RequireClaim(u)
    /\ Begin(r, [db EXCEPT !["status"] = "changes_requested", !["author"] = "changes"])

Decided(u, decision) ==
    [db EXCEPT !["status"] = decision, !["decided_by"] = u,
               !["author"] = u, !["judged"] = Declared,
               !["plugin"] = IF decision = "approved" /\ @ = "draft" THEN "active" ELSE @]

\* Mutant: another reviewer's claim does not stop a decision.
DecideVersion_NoClaim(r, u, decision) ==
    /\ db["status"] \in {"pending_review", "changes_requested"}
    /\ Begin(r, Decided(u, decision))

\* Mutant: only a version that is still pending activates the plugin.
DecideVersion_FirstReview(r, u, decision) ==
    /\ db["status"] \in {"pending_review", "changes_requested"}
    /\ RequireClaim(u)
    /\ Begin(r, [Decided(u, decision) EXCEPT
                    !["plugin"] = IF db["status"] = "pending_review" THEN @ ELSE db["plugin"]])

DecideVersion(r, u, decision) ==
    /\ db["status"] \in {"pending_review", "changes_requested"}
    /\ RequireClaim(u)
    /\ Begin(r, Decided(u, decision))

-----------------------------------------------------------------------------
\* uq_plugin_capabilities_version_scope: a commit that would leave two rows
\* with one scope fails.
UniqueScopes(rows) ==
    \A j, k \in CapRows : rows[j] = rows[k] /\ rows[j] # "none" => j = k

CommitUnique(r) == Commit(r) /\ UniqueScopes(db')

Init ==
    /\ db = [c \in Columns |-> CASE c = "risk"   -> "low"
                                 [] c = "judged" -> {}
                                 [] OTHER        -> "none"]
    /\ writes = [r \in Req |-> Nothing]
    /\ overlapped = FALSE

Next ==
    \E r \in Req :
        \/ RegisterPlugin(r)
        \/ SubmitVersion(r)
        \/ SubmitPluginBundle(r)
        \/ \E S \in SUBSET Scopes : DeclareCapabilities(r, S)
        \/ HandleScan(r)
        \/ \E u \in Reviewers : ClaimVersion(r, u)
        \/ \E u \in Reviewers : RequestChanges(r, u)
        \/ \E u \in Reviewers, d \in {"approved", "rejected"} : DecideVersion(r, u, d)
        \/ CommitUnique(r)
        \/ Abort(r)

Spec == Init /\ [][Next]_vars

-----------------------------------------------------------------------------
\* Every column, committed or about to be, has its type.
TypeOK ==
    /\ DOMAIN db = Columns
    /\ \A c \in Columns : db[c] \in Values(c)
    /\ overlapped \in BOOLEAN
    /\ DOMAIN writes = Req
    /\ \A r \in Req : /\ DOMAIN writes[r] \subseteq Columns
                      /\ \A c \in DOMAIN writes[r] : writes[r][c] \in Values(c)

(* However requests interleave.                                            *)

\* An approved version belongs to an active plugin, also when decisions,
\* claims and requests for changes overwrite one another: the plugin's status
\* is written by the first approval only.
ApprovedIsActive == TypeOK /\ (db["status"] = "approved" => db["plugin"] = "active")

(* Requests that do not overlap.                                           *)

\* Who holds the claim of a decided version decided it.
ClaimHolderDecides ==
    ~overlapped /\ db["status"] \in {"approved", "rejected"} /\ db["claimed_by"] # "none"
       => db["author"] = db["claimed_by"]

\* A decided version has the capabilities its reviewer saw, and the risk level
\* reviewers filter by is always the one of the declared scopes.
CapabilitiesJudged ==
    ~overlapped =>
       /\ db["status"] \in {"approved", "rejected"} => Declared = db["judged"]
       /\ Declared # {} => db["risk"] = risk_level_for_scopes(Declared)
=============================================================================
