# A TLA+ verification project for adaan-pradaan-core

adaan-pradaan-core is the control plane of a multi-tenant marketplace: FastAPI
services over one PostgreSQL database, with Keycloak for passwords and realms
and Temporal for one long-running workflow. This directory holds TLA+ models of
its core, the TLC configurations that check them on small instances, and
theorems with TLAPS proofs that hold for every instance.

Paths below are relative to the repository; `PROJECT.json` maps every definition
to the lines it models.

## 1. The system

| Component | State it keeps | Operations | What makes it correct | Hard part |
|---|---|---|---|---|
| Order fulfilment (`commerce_service.py`) | `orders.status`, one `vendor_fulfilments` row ("slice") per vendor, refunds | `advance_vendor_order`, `cancel_order`, `issue_vendor_reject_refund` | order status is the roll-up of the slices; a cancelled slice owes its lines' total and is refunded once; slices follow `FULFILMENT_TRANSITIONS` | vendors and buyer write the same order at once; roll-up of rows others are changing; rows locked in different orders |
| Cart, addresses, checkout (`commerce_service.py`) | carts, cart lines, addresses, orders and order lines | `add_line`, `update_line`, `remove_line`, `create_address`, `delete_address`, `place_order` | one open cart; a cart becomes one order with its lines; a shipped order has its address | double clicks, edits racing a checkout, deletion racing a checkout |
| Returns (`commerce_service.py`) | returns with status and amount | `request_return`, `decide_vendor_return`, `issue_vendor_return_refund` | one open return per line; paid what was approved, once | two staff at once; two ways money comes back |
| Catalog and vendor verification (`catalog_service.py`, `vendor_service.py`) | vendor, verification, participation, product, offerings | register, decide, suspend, reinstate; create, submit, edit, approve, reject, archive, publish | buyers see only reviewed listings; rejected vendors and products do not sell | two paths to a published offering; edits between reviews; the review turned off and on again (`patch_config`) |
| Plugin review (`plugin_service.py`, `provision.py`) | plugin, version, scan, capabilities, claim, decision | register, submit, declare, scan, claim, request changes, decide | an approved version's plugin is active; decisions are taken by the claim's holder, on the capabilities the version has | reviewers at once; capabilities changed under a decision |
| Accounts and sessions (`identity_service.py`, `platform_admin_users.py`) | user, principal, credential hash, sessions, reset tokens; the password at Keycloak | register, verify, login, refresh, logout, revoke, suspend, block, reinstate, reset | revoked stays revoked; a refresh token is exchanged once; a reset replaces the password everywhere | two stores without a common transaction; crashes between them |
| Unit of work (SQLAlchemy session) | the changed columns of a request until its commit | begin, commit, abort | what is written is what was read and changed | READ COMMITTED, no row locks, only changed columns are sent |
| Installations, subscriptions; outbox (`catalog_service.py`, `outbox_processor.py`, `provision.py`) | installations, service instances, delivery secrets, outbox events | `install`, `cancel_subscription`, mails with a secret, `process_pending` | a processed event has had its effect; a cancelled subscription stays cancelled; a mail is sent or lost because it expired | at-least-once delivery, two processors that read before they write, retries, stops between the sink and the commit |
| Organization upgrade (`org_upgrade.py`, `workflows/`) | registration request, organization, tenant, realm; the workflow | `submit`, `run_for_request`, Temporal's retries | completed means all of it is there; failed that nothing is; a started workflow ends | Keycloak errors, at most five attempts, attempts that outlive their timeout, a workflow that runs while the reply to its start is lost |
| Members, role bindings, authorization, platform roles, service accounts (`authz/`, `members.py`, `service_accounts.py`) | memberships, roles, bindings, API keys | invite, accept, remove, grant, revoke, authorize, rotate | a tenant keeps an administrator, an organization an owner; no role outlives a membership | the last-administrator guard is a read before a write; several services give and take bindings with different checks |
| Platform operations (`admin_ops_service.py`, `platform_admin_users.py`) | team, accounts, operator organizations, customers' organizations and tenants | invite, roles, suspend, reactivate, `transfer_super_admin`; suspend, block, reinstate an account, reset its second factor; `promote_operator`, `provision_tenant`, `suspend_tenant`; invite and remove members | there is one super admin, whom the team's own handlers leave active, with an account and a place among the operators | the role moves between rows that handlers of three services change |
| Locations, stock, standard plugins (`catalog_service.py`, `plugin_service.py`) | service cities, pincodes, product-city links, warehouses, stock, standard plugins, activations | add, delete, assign, adjust, create, retire, activate | nothing refers to a deleted row; a product stays on sale somewhere; an assignment leaves what it asked for | delete-and-insert instead of an update; cascades and foreign keys decide |
| Prices; vendor settings; wishlist; reviews; policies | single rows | edits | | little: mostly guards on the row itself |
| Routes, schemas, migrations, UI | none | one service call each | | |

**Interactions.** Components share rows of one database and call each other only
inside a request. `place_order` (Checkout) creates the order and slices that
OrderFulfilment starts from; Returns acts on a line of such an order;
`publish_offering` (Catalog) reads the decision of PluginReview; what Catalog
publishes is what Checkout can put in a cart, and Store says where it is sold. The
outbox carries the scan (PluginReview), the provisioning of installations and mails
(Installs). Platform's tenants are those whose members Access is about, and
OrgUpgrade gives one of their organizations its realm. Identity and OrgUpgrade call
Keycloak between reads and commits.

**What is hard.** Handlers take no row locks (`SELECT ... FOR UPDATE` does not
occur), transactions are READ COMMITTED, rows have no version column, and a
handler decides on what it read. Two requests that overlap can each pass a
check and then write over one another. In addition, Keycloak takes no part in
the database's transactions. `PROJECT.json` lists these hazards line by line.

## 2. The models

### Requests, transactions and `overlapped`

`UnitOfWork` is the database session every service uses. `db` maps each column to its
committed value. A handler reads and checks in one step (`Begin`), which leaves in
`writes[r]` the columns whose new value differs from the one read, as the SQLAlchemy
session does; a later `Commit` writes them over whatever is there by then, and `Abort`
drops them: an error, a lost connection or a restart of the server. `Catalog`,
`PluginReview`, `Returns`, `Sessions`, `Access`, `Platform`, `Installs`, `OrgUpgrade` and
`Store` INSTANCE this module for their own columns; where a unique index or a foreign key
decides at the commit, they guard it (`CommitUnique`; `UniqueKeys` and `ForeignKeys` of
`CommitRows`; `Clash`). `Checkout` and `OrderFulfilment` keep rows as records and the
request as a record, because what the database enforces at commit (unique indexes, foreign
keys) or a row lock held after an autoflush matters there.

Some properties hold however requests interleave. Others hold only as long as
requests do not overlap; that is what the code, which takes no locks, can
promise. Each module therefore has a history variable `overlapped`, which
becomes TRUE when a request begins while another is in flight, and states the
second kind as `~overlapped => ...`. One run covers both: crashes and aborts
happen on both sides.

### Modules

| Module | Code | State and actions |
|---|---|---|
| `UnitOfWork` | `unit_of_work.py` and the session's use in every service | `db`, `writes`, `overlapped`; `Begin`, `Commit`, `Abort`; `After(r)`, the rows as a request would leave them; and the lemmas about them that every proof cites |
| `OrderFulfilment` | `advance_vendor_order`, `cancel_order`, `issue_vendor_reject_refund`, `_rollup_order_status` | `order`, `slice`, `issued` (refund events), `txn`. A request goes through load, check, flush, commit: the order row is loaded before the slices are checked, the slice is flushed (its lock held) before the roll-up reads the others, and the order's status is omitted from the UPDATE when it equals the one loaded. Row locks are taken one by one and kept to the end (`Wants`, `CancelLock`): a vendor takes its slice and then the order, `cancel_order` a slice per turn of its loop and the last slice and the order in either order at the flush of its commit. `Deadlocked` is a circle of waiting requests, `Victim` PostgreSQL's detector |
| `Checkout` | cart lines, addresses, `place_order` | `published`, `cart`, `line`, `address`, `order`, `txn`; check and commit of each request; a commit fails on the unique indexes `uq_carts_one_open` and `uq_cart_lines_cart_offering`, and on the foreign key from orders to addresses |
| `Returns` | the three return handlers | columns of the returns of one line, with the order and slice moving beside it; `paid` is history |
| `Catalog` | vendor verification and product life cycle | one vendor, one product, its offerings, the setting `product_content_review_required`; `reviewed` is history (the text an operator approved, or that was put or edited on sale while the review was off) |
| `PluginReview` | plugin and version life cycle, scan | one plugin and version; `author` and `judged` are history |
| `Sessions` | `identity_service.py`, `platform_admin_users.py` | one account; `kc` is the password at Keycloak, `call[r]` the Keycloak call or commit a request has reached; `exchanged` and `valid` are history |
| `Access` | `members.py`, `role_bindings.py`, `authorization_service.py`, `platform_admin_roles.py`, `service_accounts.py`, tenant suspension | one organization and tenant; memberships, bindings, the permissions of a custom role, API keys; one action per handler, grouped as the routes are (`MemberRoutes`, `RoleRoutes`, `AccountRoutes`, `OperatorRoutes`, `TenantRoutes`); `authorize` is the decision the routes ask for; `overruled` and `outside` are history: a tenant-admin binding taken away from above, and bindings that an operator gave to users who are no members |
| `Platform` | `admin_ops_service.py`, `team_bootstrap.py`, `platform_admin_users.py`, `members.py`, registration and login as far as they touch the team | team rows, accounts and sessions; of each person its membership of operator organizations, its ownership of customers' and its membership of their tenants; routes grouped as `TeamRoutes`, `UserRoutes`, `TenantRoutes`, `MemberRoutes` |
| `Installs` | `install`, `cancel_subscription`, `place_order` for lines of a subscription, mails, `process_pending`, `handle_provision`, `_deliver_secret` | installations, instances, events with their retries, secrets; `batch[w]` is what a caller of `process_pending` has read and not handled; all its events commit together. `handle_provision` reads twice: the installation (`LoadInstallation`, kept in `loaded[w]`) and then its instance (`HandleProvision`). `overtaken` is history: what another processor provisioned in between |
| `Delivery` | | abstract specification of an outbox: every recorded event is settled at most once and for good, delivered or lost because it was late; `Installs` implements it (`Delivers == Outbox!Spec`, with `phase` as refinement mapping) |
| `OrgUpgrade` | `org_upgrade.py`, `workflows/` | requests, organizations, tenants, realms in the database and at Keycloak, and Temporal's view: `start` (the call of `start_org_upgrade`), `workflow`, `attempts`. Temporal may take the call while its caller waits or has given up, so that the workflow runs before, while and after the request is marked failed. Sessions are `<<q, k>>`: the request itself and attempt `k` |
| `Store` | locations, inventory, standard plugins | one product; a replaced set of rows is a removal of what the request saw and an insertion, which may collide at the commit (`Late`). The database checks the unique and foreign keys of the rows that a commit inserts and deletes (`UniqueKeys`, `ForeignKeys`) and deletes what hangs on them (`Cascaded`) |
| `MC*` | | instances and symmetry for TLC |
| `OrderFulfilment_proofs`, `Checkout_proofs`, `Returns_proofs`, `Catalog_proofs`, `PluginReview_proofs`, `Installs_proofs`, `Access_proofs` | | theorems about the module of that name; `Catalog_proofs` also about `Store`, `PluginReview_proofs` about `Platform`, `Access_proofs` about `Sessions` and `Installs_proofs` about `OrgUpgrade` (section 5) |

`Begin` is one step although a handler issues several SELECTs: reads that
straddle another commit are represented where the code's result depends on them
(the load, check and flush of `OrderFulfilment`; the Keycloak calls of
`Sessions`). Names, texts and prices are members of small sets; logging, audit
rows and the shape of answers are left out; permission checks are modelled where
they are the subject (`Access`, `Platform`) and otherwise left out.

## 3. The runs

There are twelve runs; all of them are exhaustive and pass, the longest in about two
minutes on two cores.

| Run | Instance | What it shows |
|---|---|---|
| `orders` | 2 vendors with different totals, 2 requests | However vendor moves, cancellation and refunds overlap or die: the order reads "placed" exactly while every slice does, a cancelled slice owes the right amount, a final order status was earned by every slice, what is owed stays owed and a shipped slice keeps its tracking number; a deadlock has a cancellation in it. Without overlap: the order is exactly the roll-up, a refund is issued once |
| `order_progress` | 2 vendors, 2 requests, `FairSpec`; vendors ask for three statuses | every request the server accepts ends, also when requests deadlock |
| `checkout` | 2 offerings (one shipped), 2 carts, 2 lines, 1 address, 2 orders, quantities up to 2, 2 requests | one open cart, orders with their address, carts that stay closed under any overlap; without overlap one order per cart with its lines |
| `catalog` | 2 offerings, 2 texts, 2 requests, the review turned on and off | nothing goes on sale unsubmitted, a rejected vendor loses its participation; without overlap buyers see, with the review on, only listings that were reviewed or on sale before it was turned on, and a rejected product is off sale |
| `plugins` | 2 reviewers, 3 scopes of the three risk levels, 3 capability rows, 2 requests | an approved version's plugin is active; without overlap decisions belong to the claim's holder and are about the capabilities the version has |
| `returns` | 2 returns of a line of total 2, 2 requests | approvals and refunds have an amount within the total; without overlap one open return, paid as approved, once |
| `sessions` | 2 passwords, 2 sessions, 1 reset, 2 refresh tokens, 2 requests | revoked sessions stay revoked and unverified accounts have none; without overlap locks, rotation and resets keep their promise through crashes and Keycloak errors |
| `access` | 2 users, a service account, 3 API keys, one request at a time | the tenant keeps an administrator unless the organization or an operator takes it away, the organization keeps an owner, no role outlives its membership but those an operator bound to a non-member |
| `platform` | 2 people, one request at a time | there is one super admin, active on the team and with an account, and an operator unless an owner of the operator organization removed this one or has not let it in again |
| `installs` | 2 installations, a mail, an order line, 2 processors, 2 requests | whatever stops or overlaps: a processed event has had its effect, and the outbox implements `Delivery`; a cancelled subscription stays so unless it was provisioned by one processor between the two SELECTs of another; but for those, and without overlap, an offering is installed once |
| `upgrade` | 2 organizations, 2 slugs, 2 requests, 2 attempts each, `FairSpec` | completed means that organization, tenant and realm are there, however attempts overtake each other; failed leaves nothing unless attempts overlapped or the reply to the start of the workflow was lost; a started workflow is closed, with its request completed or failed or its attempts used up |
| `store` | 2 cities, 2 names, a pincode, 2 plugin keys, 2 requests | nothing refers to what was deleted meanwhile, a product stays sold somewhere, stock is not lost with a city; without overlap an assignment leaves the cities it asked for |

**Bounds.** Two requests are enough for every check-then-write race of the code: a check
is invalidated by one commit between it and its own. Each module models the rows that one
order, tenant, product, version, line or account owns; the code shares no other row
between them. Two vendors tell "all" from "some" in the roll-up; two offerings tell
shipped from not; two texts tell the reviewed one from another; two returns and a total of
2 allow part, all and more than all; `MaxTokens = 2` allows two sessions, or a session and
a rotation. The bounds on keys (`CartIds`, `LineIds`, `ReturnIds`, `SessionIds`,
`CapRows`, ...) only stop new rows. `MaxPaid` stops the refunds a single return can pay in
overlap. `AfterOverlap = FALSE` (`store`): once two requests have overlapped and ended, no
other begins. Every history without overlap is explored in full, and of the others every
overlap of two requests that starts from a state reached without one. `access` and
`platform` have one request slot: all their properties are about histories without
overlap, of any length, in which any request may be aborted. `Asked` bounds the statuses
vendors ask for in `order_progress` to those of a first move, of a second one, and of a
rejection; `orders` has all eight. `MAX_RETRIES` is the code's 5; `MAX_ATTEMPTS` is 2
where the retry policy says 5, enough for an attempt that is overtaken by its successor,
fails, or completes after a failure; a workflow whose attempts are used up closes as with
5. One order line (`Lines`) stands for the subscriptions bought through the cart.

**Symmetry** is used for request slots and interchangeable keys, never in a run
with a liveness property.

**Deadlock.** `orders`, `order_progress`, `checkout` and `catalog` check it; the other runs say
`CHECK_DEADLOCK FALSE`: their keys run out, requests stop after an overlap
(`AfterOverlap`), and a decided version, a refunded line, an account with no tokens
left or an upgrade whose requests have ended may have nothing more to do.

**Fairness** (`FairSpec` of `OrderFulfilment`). The server goes on with a request it has
accepted: weak fairness of `Proceed`. PostgreSQL queues the waiters of a row lock, so a
request waiting for one is not overtaken for ever: strong fairness of the steps that take
a lock. Its deadlock detector (`deadlock_timeout`) aborts one of the requests that wait in
a circle: weak fairness of `Victim`, without which `RequestsEnd` fails. Clients owe
nothing, and no other abort is forced. `FairSpec` of `OrgUpgrade`: Temporal keeps a
started workflow and hands its activity to a worker until it is closed, so `Retries(q)` is
weakly fair: attempts begin, up to `MAX_ATTEMPTS`, and a workflow without any left is
closed. Nothing is assumed of an attempt that has begun, which may never end, of Keycloak,
of the reply to `start_workflow`, or of the server between its commit and the start. No
liveness is claimed of the outbox: nothing under `src/src` calls `process_pending`; only
tests do.

**Mutants.** For each property of a passing run one definition has a variant with a
plausible bug (`..._NoRollup`, `..._AnyCart`, ...), next to the original; with it in
place the property fails.

## 4. What the code does against its own documents

The models contain the following behaviours, which a document, a message or a test of
the repository says cannot happen, or which its guards seem meant to prevent; the
properties that hold are stated around them (mostly by `~overlapped`, else by a history
variable or a disjunct of their own):

- `cancel_order` overwrites a slice that a vendor confirmed meanwhile, against its own
  message "order can only be cancelled while all vendors are still placed"
  (`commerce_service.py:849`);
- a cancellation and a vendor's move can deadlock: `cancel_order` may hold the order and wait
  for a slice whose vendor waits for the order (`commerce_service.py:851`). PostgreSQL
  aborts one of them, as an error nobody handles;
- two overlapping checkouts make two orders of one cart (`commerce_service.py:539`;
  `02_Tenant_Vendor_Plugin_Journeys.md:1151`);
- an approval that arrives after the vendor's suspension puts the product on sale
  (`catalog_service.py:2050`; `02_Tenant_Vendor_Plugin_Journeys.md:823`);
- several returns of one line, or a return and the slice's refund, pay more than the
  line's total (`commerce_service.py:1138`);
- a login that overlaps a password reset writes the old password back into Keycloak
  (`identity_service.py:285`; `Adanpradan_identity_auth_journeys.md:398`);
- two accepted upgrades of one organization rename it twice (`org_upgrade.py:291`),
  where `docs/ROLES_AND_STATUSES.md:48` says "The slug does not change after that.";
- two vendors advancing at once leave `orders.status` at a roll-up of stale slices
  (`tests/integration/marketplace/test_multi_vendor_orders.py:185` expects "partial");
- a cart line is edited after the checkout that copied it
  (`02_Tenant_Vendor_Plugin_Journeys.md:1317`);
- an offering that went off sale while in a cart is still ordered (the same file, line 1033);
- `publish_offering` makes an archived product "published" again (line 910);
- `approve_product` publishes offerings of a product without an approved plugin (line 643);
- `reinstate_vendor` makes a vendor that was never verified "verified" (lines 433-435);
- overlapping decisions on a plugin version overwrite each other (line 815), and
  capabilities change under a decision (line 564);
- a double click opens two returns of one line (line 1207);
- two overlapping refreshes exchange one refresh token
  (`Adanpradan_identity_auth_journeys.md:264`);
- `revoke_principal_access` turns a blocked user into a locked one, which
  `reinstate_user` then reinstates although "blocked users cannot be reinstated"
  (`platform_admin_users.py`); a user pending verification is activated the same way;
- a login that overlaps a suspension leaves an active session, usable once the
  account is reinstated;
- a server that stops after `create_user` and before its commit leaves a Keycloak
  user that keeps the email address from registering;
- a rejected product that is resubmitted and approved keeps its offerings unpublished
  (approval publishes drafts only), while the vendor's dashboard calls it visible;
- a server that stops between the commit of an upgrade as "processing" and the start of
  its workflow leaves it processing, and its slug taken, for ever; an attempt that
  outlives its timeout can mark a completed request failed;
- the reply to `start_workflow` is lost while the workflow runs: `_mark_failed`
  (`org_upgrade.py:216`) overwrites whatever the workflow made of the request by then,
  "completed" with its tenant there included, and an attempt that comes later completes a
  request whose caller was told "failed";
- `remove_org_member` (`members.py:355`) lets an owner of the operator organization remove
  the super admin, who then passes `require_platform_operator` no more and cannot hand the
  role on, and `block_user` (`platform_admin_users.py:132`) blocks the super admin's
  account;
- the customer organization that `provision_tenant` refuses a second of is looked for by
  tenant membership (`admin_ops_service.py:298`): a founder who was removed from the tenant is
  provisioned another one, and an invitation as owner gives one more, too;
- overlapping transfers leave two super admins, and a transfer beside a change of role
  none; a suspended team member can log in and act, since `require_platform_operator`
  does not ask for the team row's status; reactivating a suspended invitation makes it
  active without an account;
- `remove_org_member` and an operator's `revoke_binding` skip the guard of the last
  administrator, and the guard counts bindings of service accounts and expired ones;
- `grant_binding` of the platform's administrators asks for a membership only when it is
  given the user (`platform_admin_roles.py:345`): named by principal, a non-member is
  bound, and the binding comes alive with the next invitation;
- a processor that reads an installation as provisioning (`provision.py:29`), and its service
  instance (`provision.py:37`) after another processor has made it, writes "active" over a
  cancellation that came in between, without meeting the unique index. If the customer has
  installed the offering again meanwhile, two installations are active;
- overlapping installs, or a subscription bought twice, make `cancel_subscription` fail
  on two rows; entitlements stay active after a cancellation;
- a mail whose secret has expired fails once, then counts as processed although it was
  never sent; no event that the code enqueues ever becomes "dead";
- two overlapping assignments of a product leave the union of their cities;
- `delete_standard_plugin` asks for products and installations, which cannot refer to a
  standard plugin, and not for activations, so that only the foreign key refuses;
- stock is neither reserved nor decremented by orders, nor compared with a warehouse's
  capacity.

## 5. The proofs

TLAPS checks 8 modules: `UnitOfWork` and seven `_proofs` modules. Each theorem is for
any number of requests in flight and any size of the other constants. Most modules have
two inductive invariants: `Inv`, which holds however requests overlap, and `SerialInv`,
which says something only while `~overlapped`. TLC checked each of them on the instance
of the component's run before it was proved.

The proofs about `Store`, `Platform`, `Sessions` and `OrgUpgrade` are the last section of
another module's proofs, about a named instance: `Shop`, `Ops`, `Auth` and
`Up`. An instance has the constants and variables of the instantiated module by name, so
`Shop!Spec` is the specification that the run `store` checks, for every value of the
constants, and nothing of `Catalog` enters. The `ASSUME`s of an instantiated module
cannot be cited, so where a proof needs them they are a hypothesis of the theorem
(`OpsConstantsFit`, `AuthConstantsFit`, `UpConstantsFit`), part of the assumptions
that TLC evaluates in the component's run. Lemmas `ShopSame`, `OpsSame`, `AuthSame` and
`UpSame` identify the instance's own `UnitOfWork` with the one whose lemmas are cited.

**What every proof shares (`UnitOfWork`).** A property of committed rows is not
inductive by itself, because a request that has begun is going to write what it decided
on rows it read earlier. There are two ways to say what it will write:

- `Inv` adds what the pending writes promise, in a form that commits of others do not
  disturb. `BeginWrites`, `CommitWrites` and `AbortWrites` say what a step makes of rows
  and pending writes.
- `SerialInv` uses `After(r)`, the rows as `r` would leave them by committing now.
  `Alone` says that without overlap at most one request is in flight. So the
  invariant is: the rows are sound, and so are `After(r)` for every `r`. `BeginAlone`
  reduces a handler to "from sound rows it computes sound rows"; `CommitAlone` and
  `AbortAlone` show that nothing else is pending once it has ended. In each module
  a handler is shown to be of this kind (`Handles(r)`, `Serial(r)`) by a lemma of its
  own, and one lemma for begin, commit and abort does the rest.

**`OrderFulfilment_proofs`** (from `VendorsAssumption`: at least one vendor,
`LineTotalAssumption`: totals are natural numbers, `OrderRowAssumption`: the order's row is no
slice, and `AskedAssumption`: vendors ask for statuses).

- `TypeCorrect`: the type invariant, which is inductive.
- `OverlapSafe`: `OverlapInv` = `TypeOK`, `PlacedMeansUntouched`, `CancelledIsOwed`,
  `FinalStatusEarned` and `InFlightSound`. The first four are not inductive: a
  request may commit a roll-up it read long ago. `InFlightSound` says what such a
  request still knows: that the order has left "placed" for good if it saw it
  elsewhere (so that an omitted column cannot hide the move), that a roll-up read
  as "cancelled" or "delivered" is still borne out by the other slices' refunds and
  tracking, which never go back. `PlacedIsUntouched`, `CancelledOwes` and
  `FinalIsEarned` are its consequences.
- `SerialInvHolds`: while `~overlapped`, at most one slot is in use and its request
  has read the rows as they are (`SerialInv`). From it `RollupIsExact` and
  `RefundedOnce`.
- `OwedInvHolds`: a refund in flight is about a slice that has one to pay, and every
  refund has the slice's full total. Gives the action property `OwedIsKept` under any overlap: a
  stale move takes a slice out of "cancelled" again and leaves its refund.
- `LockInvHolds`: a vendor's request holds nothing but its slice, a refund nothing. In
  a circle without a cancellation everybody would wait for a slice, whose holder waits
  for the order, which nobody holds: `DeadlocksHaveCancel`, for any number of requests.

**`Checkout_proofs`** (from `OfferingsAssumption`, `QtyAssumption` and
`IdsAssumption`: the value for "no id" is not the key of a row).

- `Inv`: types of rows and of requests in flight, one open cart and one line per
  offering on each cart (the unique indexes decide at the commit), and that the cart of
  an order is closed. From it `CartIsOne` and `Deliverable`, which the foreign key from
  orders to addresses keeps true however deletions overlap a checkout.
- `SerialInv`: a request alone still finds what it has read (`StillThere`: the cart
  is open, the lines copied by `place_order` are those of the cart), and
  orders are their carts. From it `OrderKeepsCart`: no later edit reaches the lines of a
  closed cart.

**`Returns_proofs`** (from `ReturnIdsAssumption`: the keys of returns differ from the
names of the order's and the slice's columns; `LineTotalAssumption`).

- `Inv`: `RefundHasAmount` with `ReturnWrites`: a pending approval or refund
  writes an amount between 1 and the total, or relies on one already there, which no
  request takes away. Gives `AmountNamed` under any overlap.
- `SerialInv`: what was paid is what the rows owe, and a request in flight pays exactly
  the difference between what `After(r)` owes and what was paid. Gives `PaysOnce`.

**`Catalog_proofs`** (from `OfferingsAssumption`, `ColumnsAssumption`).

- `Inv`: `TypeCorrect`, `OnSaleSubmitted` and `RejectedConsumes`, with what pending
  writes promise: a request about to publish an
  offering also takes the product out of "not_submitted" or read it so (`SaleWrites`),
  and a request about to reject also withdraws the participation or found it withdrawn
  (`VendorWrites`).
- `SerialInv` over `SaleSound`: nothing of an unsubmitted or rejected product is on sale,
  and a live product has the text that is `reviewed`, whatever the setting is and was.
  Gives `VisibleReviewed` and `RejectedOffSale`. `VisibleIsReviewed` alone is not
  inductive: an edit of a product off sale could be published later; `SaleSound` ties the
  text to the product's state instead of to what buyers see.

**`PluginReview_proofs`** (from `RiskAssumption`, `ReviewersAssumption`,
`ColumnsAssumption`).

- `Inv`: `ApprovedIsActive` with `PluginWrites`: an approval in flight activates the
  plugin or found it active, and nothing makes an active plugin a draft again,
  because only the insertion of its row does that and keys are not reused. Gives
  `ApprovedActive` under any overlap.
- `SerialInv` over `ReviewSound`: gives `HolderDecides` and `JudgedAsDeclared`.

**`Installs_proofs`** (from `KeysAssumption`: the keys of installations, secrets and
lines, and of requests and processors, are disjoint).

- `Inv`: for each installation, mail and line the combinations of columns its rows can
  be in (`InstallationSound`, `SecretSound`, `LineSound`), the kinds of writes each
  session can have pending on it (`InstallationPending`, ...), that no two requests
  insert the same row (`RowsApart`), and what a processor knows of the events it has
  read (`BatchSound`: an event fails at most once, and only a mail whose secret is wiped)
  and of the installation it has loaded (`LoadedSound`: it has no instance, or is in
  `overtaken`).
  The properties speak of a few columns; what makes them inductive is that the
  other columns of the row cannot be out of step with these.
- From it `OutboxIsSound`, the action property `CancelledStays`, and
  `ImplementsDelivery`: the refinement mapping takes initial states to initial
  states of `Delivery` and every step to a step of it or a stutter, for any
  number of processors, stops and retries.
- `InstalledOnce` by `SerialInv`: of the installations outside `overtaken`, at most one is
  there or about to be (`Wanted`). Both theorems speak of what is not in `overtaken`;
  section 4 has the case they leave out.

**`Access_proofs`** (from `FounderAssumption`; `UsersAssumption`: finitely many users,
since the guard counts; `RobotRolesAssumption`).

- `Inv`: the types of rows and of pending writes.
- `SerialInv` over `Sound`: roles are members' roles but for those in `outside`
  (`MembersIn`), there is an owner (`OwnedIn`) and, unless overruled, an administrator
  (`AdministeredIn`). The heart of it is `UnbindHandles`: a request that takes rows of `p`
  away leaves another administrator, since a count above one means one other than `p`. Its
  hypotheses are what the three removals and the two revocations have in common. Gives
  `AdministratorKept`, `OwnerKept` and `MembersSound`.

**`Store`, in `Catalog_proofs`** (no assumption).

- `ShopInv`: `StoreSound` with what pending writes promise (`ShopPending`): an assignment
  in flight keeps at least one city and touches no row of a city, and nobody is going to
  take stock away. `StoreIsSound` holds however requests overlap, and by induction: a
  commit checks only the rows that it inserts and deletes, so what refers to a row it does
  not touch was sound before; a reference that it inserts needs its row after the commit;
  and what refers to a row it deletes is deleted with it or refuses it. From the promise,
  the action property `ProductStaysServed`: a commit that takes the last city away cannot
  be an assignment.
- `ShopSerialInv`: alone, an assignment is going to remove every city that it does not
  keep (`ShopWhole`). That is lost under overlap (section 4: the union of both), and gives
  the action property `ServedAsAsked`.

**`Platform`, in `PluginReview_proofs`** (from `OpsConstantsFit`: the first operator is a
person).

- `OpsInv`: the types of rows and pending writes.
- `OpsSerialInv` over `OpsSound`. That there is one super admin, active and linked
  (`OpsLedIn`), is not enough: a transfer asks of the new one only for an active and linked row.
  So `OpsLinksIn` says of everybody whose row is linked that an account and a place among the
  operators go with it: the account is never deleted, and the place is only left by
  a removal, by an owner of the operator organization, or waits for an answer to an invitation
  after one. Each handler is shown to keep `OpsSound` by a lemma of its own
  (`OpsHandles`). Gives `SuperAdminKept`.

**`Sessions`, in `Access_proofs`** (from `AuthConstantsFit`: "none" is not a password, and
the number of tokens is a natural number).

- `AuthInv`: types; nobody has a session before verification; only a registration
  is going to leave an unverified account; a session is opened once, by the
  one login whose row it is (`AuthPending`). From it the first half of `LockedOut` and the
  action property `RevokedStays`, under any overlap.
- `AuthSerialInv`: here a request is more than its pending rows, since it may have
  stopped at a call to Keycloak. `AuthReady(q, rows)` says, for each step the request can
  be at, what the next one relies on: the rows are sound when the password
  the call is about to bring counts as valid (`AuthBrings`); a reset leaves no session
  active, from its first commit on; while it calls Keycloak it holds the hash of the
  password it sets; and when it comes to store it, Keycloak has that
  password or no user. A refresh holds a token that was never exchanged and is in no session.
  Gives `LockedOut`, `ExchangedOnce` and `ResetReplaces` wherever the server stops
  or Keycloak fails, before or after it has applied the call.

**`OrgUpgrade`, in `Installs_proofs`** (from `UpConstantsFit`: at least one attempt, and
"none" is neither an organization nor a slug).

- `UpInv`: a completed request is done (`UpDone`), a stored request has its
  organization and slug before a workflow is started for it (`UpStored`), and every
  session in flight, of the API or of any attempt, is going to write only what
  completes its request; what it does not write itself is there already
  (`UpCompletes`). That last fact survives other sessions' commits because
  organizations, tenants and realms are only ever added (`UpGrows`), also the
  realm made at Keycloak by an attempt whose transaction rolls back. Gives
  `CompletedDone` for attempts that overtake each other.
- `UpSerialInv`: while nothing overlaps, a tenant is there only when a request has made it that
  says completed, or said so before a lost reply marked it failed (`UpMaker`), and an attempt
  in flight is that of a request not completed. Gives `FailedUndone`.

TLC checked `OpsInv`, `ShopInv`, `AuthInv` and `UpInv` with their serial counterparts on the
instances of the runs (400,147, 304,904, 533,786 and 241,513 distinct states).

`InFlightSound` and `Catalog!TypeOK` are proved and not checked by a run any more.

**Only model-checked.** Liveness (`RequestsEnd`, `WorkflowEnds`), which is outside this
prover's reach. Every other property of the runs is stated by a theorem.

## 6. Not modelled, and the plan

Within the modelled components: the branch of `advance_vendor_order` for orders
that have no slice row (created before slices existed); the `MultipleResultsFound`
error of `delete_address` with several orders on one address; the
`keycloak_subject` that a re-created Keycloak user changes; prices, tax, payment
method and texts; audit rows; expiry of role bindings; the Keycloak client of a service
account (API keys are never used to authenticate); `update_service_city` and
`update_warehouse`, which change a row in place; policies.

Not modelled at all: vendor settings, support requests, wishlist, reviews and
resources (single rows without a guard on other state), payouts (read and never
written), dashboards, analytics and audit lists (they only read), request schemas,
seeds, deployment and the user interface prototypes.

Further work: an abstract order (a status per vendor and a refund per cancelled vendor,
each request one atomic step), implemented by `OrderFulfilment` while `~overlapped`.
