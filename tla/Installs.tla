------------------------------ MODULE Installs ------------------------------
(***************************************************************************)
(* Installations of a plugin (CatalogService.install), subscriptions and   *)
(* their cancellation (CommerceService), mails with a secret, and the      *)
(* outbox through which installations are provisioned and secrets are      *)
(* mailed (OutboxProcessor, provision.py).                                 *)
(*                                                                         *)
(* One tenant and one offering.  An offering that is provisioned is        *)
(* installed, any other is ordered from the cart: the lines are those of   *)
(* an offering of the second kind.  A subscription and an event have the   *)
(* key of what they are about.  The scan of plugin versions is part of     *)
(* PluginReview.  Requests in flight: see UnitOfWork; here overlapped says *)
(* that customers' requests did.  A call of process_pending handles its    *)
(* events one by one, reading their rows as they are by then, and commits  *)
(* all of them together; handle_provision reads twice, the installation    *)
(* and then its service instance.                                          *)
(***************************************************************************)
EXTENDS Naturals, FiniteSets

CONSTANTS
    Installations,    \* keys for rows of installations
    Secrets,          \* keys for rows of delivery_secrets
    Lines,            \* keys for order lines
    Req,              \* requests of customers
    Workers           \* callers of process_pending

ASSUME KeysAssumption ==
    /\ Installations \cap Secrets = {} /\ Installations \cap Lines = {} /\ Secrets \cap Lines = {}
    /\ Req \cap Workers = {}

VARIABLES
    db, writes, overlapped,
    batch,            \* the events a worker has read and not handled, with their retry_count
    loaded,           \* the installation a worker has read as provisioning, if any
    mode,             \* settings.workflow_mode
    expired,          \* secrets whose expires_at is over
    sent,             \* secrets that the sink was given
    overtaken         \* history: provisioned by another while a worker had it loaded

vars == <<db, writes, overlapped, batch, loaded, mode, expired, sent, overtaken>>

Events == Installations \cup Secrets
MAX_RETRIES == 5

\* A column is named by its field and its row.
Event(e)    == <<"outbox_status", e>>
Retries(e)  == <<"retry_count", e>>
Status(k)   == <<"status", k>>            \* of an installation or an order line
Instance(i) == <<"service_instance", i>>
Plain(s)    == <<"secret_plain", s>>      \* "wiped" together with consumed_at

Columns ==
    {Event(e) : e \in Events} \cup {Retries(e) : e \in Events}
      \cup {Status(k) : k \in Installations \cup Lines}
      \cup {Instance(i) : i \in Installations} \cup {Plain(s) : s \in Secrets}

INSTANCE UnitOfWork WITH Req <- Req \cup Workers

Idle == [e \in {} |-> 0]

\* UnitOfWork's Begin, with the overlaps of customers' requests alone.
Request(r, new) ==
    /\ r \in Req /\ writes[r] = Nothing
    /\ writes' = [writes EXCEPT ![r] = [c \in Changed(new) |-> new[c]]]
    /\ overlapped' = (overlapped \/ \E q \in Req : writes[q] # Nothing)
    /\ UNCHANGED <<db, batch, loaded, mode, expired, sent, overtaken>>

-----------------------------------------------------------------------------
(* Requests.                                                               *)

Installed == {i \in Installations : db[Status(i)] \in {"provisioning", "active"}}
ActiveInstallations == {i \in Installations : db[Status(i)] = "active"}
ActiveLines == {l \in Lines : db[Status(l)] = "active"}

\* The rows of a request to install.  In inline mode the handler calls
\* handle_provision at once.
Requested(i) ==
    IF mode = "temporal"
    THEN [db EXCEPT ![Status(i)] = "provisioning", ![Event(i)] = "pending"]
    ELSE [db EXCEPT ![Status(i)] = "active", ![Instance(i)] = "active", ![Event(i)] = "processed"]

\* Mutant: an offering can be installed again and again.
Install_Again(r, i) == Fresh(Status(i)) /\ Request(r, Requested(i))

\* A request for an offering that Catalog does not show, or whose capabilities
\* are not those of the approved version by now, is refused before this.
Install(r, i) ==
    /\ Installed = {} /\ Fresh(Status(i))
    /\ Request(r, Requested(i))

\* Two active rows of the offering are an error.
CancelSubscription(r) ==
    /\ Cardinality(ActiveInstallations) = 1
    /\ Request(r, [db EXCEPT ![Status(CHOOSE i \in ActiveInstallations : TRUE)] = "cancel_at_period_end"])

CancelLine(r) ==
    /\ Cardinality(ActiveLines) = 1
    /\ Request(r, [db EXCEPT ![Status(CHOOSE l \in ActiveLines : TRUE)] = "cancel_at_period_end"])

PlaceOrder(r, l) == Fresh(Status(l)) /\ Request(r, [db EXCEPT ![Status(l)] = "active"])

\* A registration or a request to reset the password: the secret and the event
\* that is going to mail it.
MailSecret(r, s) ==
    /\ Fresh(Plain(s))
    /\ Request(r, [db EXCEPT ![Plain(s)] = "plain", ![Event(s)] = "pending"])

-----------------------------------------------------------------------------
(* The processor.  A call reads all pending events.                         *)

ProcessPending(w) ==
    /\ batch[w] = Idle /\ writes[w] = Nothing
    /\ LET pending == {e \in Events : db[Event(e)] = "pending"}
       IN /\ pending # {}
          /\ batch' = [batch EXCEPT ![w] = [e \in pending |-> db[Retries(e)]]]
    /\ UNCHANGED <<db, writes, overlapped, loaded, mode, expired, sent, overtaken>>

\* The rows and what the session of w writes of them: an event that it read as
\* pending is processed, or its handler has failed.
Processed(rows, e) == [rows EXCEPT ![Event(e)] = "processed"]

Failed(rows, w, e) ==
    LET count == batch[w][e] + 1
    IN [rows EXCEPT ![Retries(e)] = count, ![Event(e)] = IF count >= MAX_RETRIES THEN "dead" ELSE @]

FailedColumns(w, e) ==
    IF batch[w][e] + 1 >= MAX_RETRIES THEN {Retries(e), Event(e)} ELSE {Retries(e)}

\* The session adds these columns to those it is going to write.
Handled(w, e, columns, rows) ==
    /\ e \in DOMAIN batch[w]
    /\ writes' = [writes EXCEPT ![w] =
                     [c \in DOMAIN @ \cup columns |-> IF c \in columns THEN rows[c] ELSE @[c]]]
    /\ batch' = [batch EXCEPT ![w] = [k \in DOMAIN @ \ {e} |-> @[k]]]
    /\ loaded' = [loaded EXCEPT ![w] = {}]
    /\ UNCHANGED <<db, overlapped, mode, expired, overtaken>>

\* handle_provision up to its first SELECT: an installation that is active has
\* nothing left to do, one in any other status but "provisioning" is an error.
LoadInstallation(w, i) ==
    /\ i \in DOMAIN batch[w] /\ loaded[w] = {} /\ UNCHANGED sent
    /\ \/ /\ db[Status(i)] = "provisioning"
          /\ loaded' = [loaded EXCEPT ![w] = {i}]
          /\ UNCHANGED <<db, writes, overlapped, batch, mode, expired, overtaken>>
       \/ db[Status(i)] = "active" /\ Handled(w, i, {Event(i)}, Processed(db, i))
       \/ /\ db[Status(i)] \notin {"provisioning", "active"}
          /\ Handled(w, i, FailedColumns(w, i), Failed(db, w, i))

\* The SELECT of the service instance and what follows: the status is written
\* whatever it is by now, the instance unless there is one.
HandleProvision(w, i) ==
    /\ i \in loaded[w] /\ UNCHANGED sent
    /\ Handled(w, i, {Event(i), Status(i)} \cup IF db[Instance(i)] = "none" THEN {Instance(i)} ELSE {},
               [Processed(db, i) EXCEPT ![Status(i)] = "active", ![Instance(i)] = "active"])

Wiped(rows, s) == [rows EXCEPT ![Plain(s)] = "wiped"]

\* Mutant: the mail of an expired secret is left out and its secret stays.
DeliverSecret_KeepsExpired(w, s) ==
    /\ s \in DOMAIN batch[w] /\ loaded[w] = {}
    /\ \/ /\ s \notin expired /\ sent' = sent \cup {s}
          /\ Handled(w, s, {Event(s), Plain(s)}, Wiped(Processed(db, s), s))
       \/ s \in expired /\ Handled(w, s, {Event(s)}, Processed(db, s)) /\ UNCHANGED sent

\* Mutant: the secret is wiped and nothing is mailed.
DeliverSecret_Unsent(w, s) ==
    /\ s \in DOMAIN batch[w] /\ loaded[w] = {}
    /\ Handled(w, s, {Event(s), Plain(s)}, Wiped(Processed(db, s), s)) /\ UNCHANGED sent

\* The message goes out before anything is committed.  An expired secret is
\* wiped and its event fails; one that was wiped has nothing left to do.
DeliverSecret(w, s) ==
    /\ s \in DOMAIN batch[w] /\ loaded[w] = {}
    /\ \/ /\ db[Plain(s)] = "plain" /\ s \notin expired /\ sent' = sent \cup {s}
          /\ Handled(w, s, {Event(s), Plain(s)}, Wiped(Processed(db, s), s))
       \/ /\ db[Plain(s)] = "plain" /\ s \in expired /\ UNCHANGED sent
          /\ Handled(w, s, FailedColumns(w, s) \cup {Plain(s)}, Wiped(Failed(db, w, s), s))
       \/ /\ db[Plain(s)] = "wiped" /\ UNCHANGED sent
          /\ Handled(w, s, {Event(s)}, Processed(db, s))

Expire(s) ==
    /\ db[Plain(s)] # "none" /\ s \notin expired
    /\ expired' = expired \cup {s}
    /\ UNCHANGED <<db, writes, overlapped, batch, loaded, mode, sent, overtaken>>

-----------------------------------------------------------------------------
\* Mutant: installation_id is not unique.
InstanceUnique_None(r) == r \in Req \cup Workers

\* Two rows of service_instances for an installation: the session of the second
\* fails with all it did.
InstanceUnique(r) ==
    \A i \in Installations : Instance(i) \in DOMAIN writes[r] => db[Instance(i)] = "none"

CommitUnique(r) ==
    /\ r \in Workers => batch[r] = Idle
    /\ InstanceUnique(r)
    /\ Commit(r)
    /\ overtaken' = overtaken \cup
          {i \in Installations : Instance(i) \in DOMAIN writes[r] /\ \E w \in Workers : i \in loaded[w]}
    /\ UNCHANGED <<batch, loaded, mode, expired, sent>>

\* A worker may stop before, between and after its events.
GiveUp(r) ==
    /\ r \in Req => writes[r] # Nothing
    /\ r \in Workers => batch[r] # Idle \/ writes[r] # Nothing
    /\ writes' = [writes EXCEPT ![r] = Nothing]
    /\ batch' = [w \in Workers |-> IF w = r THEN Idle ELSE batch[w]]
    /\ loaded' = [w \in Workers |-> IF w = r THEN {} ELSE loaded[w]]
    /\ UNCHANGED <<db, overlapped, mode, expired, sent, overtaken>>

Init ==
    /\ db = [c \in Columns |->
                IF c \in {Retries(e) : e \in Events} THEN 0 ELSE "none"]
    /\ writes = [r \in Req \cup Workers |-> Nothing]
    /\ overlapped = FALSE
    /\ batch = [w \in Workers |-> Idle] /\ loaded = [w \in Workers |-> {}]
    /\ mode \in {"temporal", "inline"}
    /\ expired = {} /\ sent = {} /\ overtaken = {}

Next ==
    \/ \E r \in Req :
          \/ \E i \in Installations : Install(r, i)
          \/ \E s \in Secrets : MailSecret(r, s)
          \/ \E l \in Lines : PlaceOrder(r, l)
          \/ CancelSubscription(r)
          \/ CancelLine(r)
    \/ \E w \in Workers :
          \/ ProcessPending(w)
          \/ \E i \in Installations : LoadInstallation(w, i) \/ HandleProvision(w, i)
          \/ \E s \in Secrets : DeliverSecret(w, s)
    \/ \E r \in Req \cup Workers : CommitUnique(r) \/ GiveUp(r)
    \/ \E s \in Secrets : Expire(s)

Spec == Init /\ [][Next]_vars

-----------------------------------------------------------------------------
\* Every column has its type.
TypeOK ==
    /\ DOMAIN db = Columns /\ overlapped \in BOOLEAN
    /\ mode \in {"temporal", "inline"} /\ expired \subseteq Secrets /\ sent \subseteq Secrets
    /\ \A w \in Workers : DOMAIN batch[w] \subseteq Events /\ loaded[w] \subseteq Installations
    /\ \A e \in Events :
          db[Event(e)] \in {"none", "pending", "processed", "dead"} /\ db[Retries(e)] \in 0 .. MAX_RETRIES
    /\ \A k \in Installations \cup Lines :
          db[Status(k)] \in {"none", "provisioning", "active", "cancel_at_period_end"}

\* A customer whose requests do not overlap has an offering installed once, so
\* that cancel_subscription finds the one row, whatever processors do and leave
\* undone meanwhile; but for an installation that was provisioned while another
\* processor was between its two SELECTs, which may come back (CancelStays).
OneInstallation == ~overlapped => Cardinality(Installed \ overtaken) <= 1

\* Whatever stops and whatever overlaps: an event that is marked processed has
\* had its effect, its installation runs and its secret is no longer kept (C1).
OutboxSound ==
    /\ TypeOK
    /\ \A i \in Installations :
          /\ db[Event(i)] = "processed" => db[Status(i)] \in {"active", "cancel_at_period_end"}
          /\ db[Status(i)] \in {"active", "cancel_at_period_end"} <=> db[Instance(i)] = "active"
    /\ \A s \in Secrets : db[Event(s)] = "processed" => db[Plain(s)] = "wiped"

\* The unique installation_id of service_instances keeps a cancelled
\* subscription cancelled: a processor that read the installation earlier cannot
\* make it active again, unless it was between the two SELECTs of
\* handle_provision when another processor provisioned the installation.
CancelStays ==
    [][\A i \in Installations \ overtaken :
         db[Status(i)] = "cancel_at_period_end" => db'[Status(i)] = "cancel_at_period_end"]_vars

\* The outbox delivers every event once and for good, except for mails whose
\* secret has expired, which are lost; none of its events dies.
Phase(e) ==
    IF e \in Secrets /\ db[Plain(e)] = "wiped" /\ e \notin sent THEN "lost"
    ELSE IF db[Event(e)] = "processed" THEN "delivered" ELSE db[Event(e)]

Outbox == INSTANCE Delivery WITH
              Messages <- Secrets, late <- expired, phase <- [e \in Events |-> Phase(e)]

Delivers == Outbox!Spec
=============================================================================
