--------------------------- MODULE OrderFulfilment ---------------------------
(***************************************************************************)
(* One multi-vendor order after checkout: the order row, one fulfilment    *)
(* row ("slice") per vendor, and the requests that change them:            *)
(* advance_vendor_order, issue_vendor_reject_refund and cancel_order of    *)
(* CommerceService.                                                        *)
(*                                                                         *)
(* A request runs in one READ COMMITTED transaction and reads before it    *)
(* writes, without SELECT ... FOR UPDATE.  It is a record of txn that goes *)
(* through the phases                                                      *)
(*   loaded   the order row is in the session's identity map,              *)
(*   checked  the guard was evaluated on slices read in one SELECT,        *)
(*   flushed  autoflush has sent the UPDATE of the slice, whose row lock   *)
(*            is held, and the roll-up has read the other slices,          *)
(* and ends with a commit, a rejection or an abort.  Only the commit       *)
(* changes the rows other requests read.  An UPDATE takes the lock of its  *)
(* row, waits while another request holds it, and keeps it to the end.     *)
(*                                                                         *)
(* Orders share no row with each other, so one order is enough.            *)
(***************************************************************************)
EXTENDS Naturals, FiniteSets

CONSTANTS
    Vendors,     \* the vendors with lines in the order, one slice each
    Req,         \* request slots: how many requests can be in flight
    LineTotal,   \* LineTotal[v]: price of the lines of vendor v
    Asked        \* the statuses vendors ask for: all of them, or a bound

ASSUME VendorsAssumption == Vendors # {}
ASSUME LineTotalAssumption == LineTotal \in [Vendors -> Nat]
ASSUME OrderRowAssumption == "order" \notin Vendors

VARIABLES
    order,       \* orders.status, as committed
    slice,       \* the committed vendor_fulfilments rows
    issued,      \* issued[v]: committed "order.vendor_reject_refunded" events
    txn,         \* the request in each slot
    overlapped   \* history: a request began while another was in flight

vars == <<order, slice, issued, txn, overlapped>>

SliceStatus == {"placed", "confirmed", "processing", "delayed",
                "ready_to_ship", "shipped", "delivered", "cancelled"}

ASSUME AskedAssumption == Asked \subseteq SliceStatus

OrderStatus == {"placed", "processing", "partial", "delivered", "cancelled"}

\* Courier and tracking number: both given, or not.
Tracking == {"none", "given"}

VendorFulfilmentRow ==
    [status   : SliceStatus,
     tracking : Tracking,
     refund   : {"none", "pending", "refunded"},
     amount   : Nat]                 \* refund_amount; 0 stands for NULL

\* The rows requests lock: one slice per vendor, and the order's own.
LockRows == Vendors \cup {"order"}

\* rows: the slices the request writes; to: the status it requires or gives;
\* seen: orders.status when it was loaded; rollup: the status it will commit;
\* held: the rows whose lock it has.
Txn == [op      : {"none", "advance", "cancel", "refund"},
        phase   : {"idle", "loaded", "checked", "flushed"},
        rows    : SUBSET Vendors,
        to      : SliceStatus,
        tracked : Tracking,
        seen    : OrderStatus,
        rollup  : OrderStatus,
        held    : SUBSET LockRows]

NoTxn == [op |-> "none", phase |-> "idle", rows |-> {}, to |-> "placed",
          tracked |-> "none", seen |-> "placed", rollup |-> "placed",
          held |-> {}]

\* A request that has loaded the order; request t after its guard passed;
\* and after its slice was flushed.
Loaded(status) == [NoTxn EXCEPT !.phase = "loaded", !.seen = status]

Checked(t, op, rows, to, tracked) ==
    [t EXCEPT !.op = op, !.phase = "checked", !.rows = rows, !.to = to,
              !.tracked = tracked]

Flushed(t, rollup) ==
    [t EXCEPT !.phase = "flushed", !.rollup = rollup, !.held = t.rows]

WithLock(t, x) == [t EXCEPT !.held = t.held \cup {x}]

FULFILMENT_TRANSITIONS ==
    [s \in SliceStatus |->
        CASE s = "placed"        -> {"confirmed", "cancelled"}
          [] s = "confirmed"     -> {"processing"}
          [] s = "processing"    -> {"ready_to_ship", "delayed"}
          [] s = "delayed"       -> {"ready_to_ship"}
          [] s = "ready_to_ship" -> {"shipped"}
          [] s = "shipped"       -> {"delivered"}
          [] OTHER               -> {}]

-----------------------------------------------------------------------------
(* The roll-up of the slices' statuses into the order's.                   *)

\* Mutant: a delivered order gets the status delete_address waits for.
Rollup_Fulfilled(st) ==
    IF \A v \in Vendors : st[v] = "delivered" THEN "fulfilled"
    ELSE IF \A v \in Vendors : st[v] = "placed" THEN "placed"
    ELSE IF \A v \in Vendors : st[v] = "cancelled" THEN "cancelled"
    ELSE IF \E v \in Vendors : st[v] \in {"cancelled", "delivered"} THEN "partial"
    ELSE "processing"

Rollup(st) ==
    LET all(s) == \A v \in Vendors : st[v] = s
        any(s) == \E v \in Vendors : st[v] = s
    IN  IF all("cancelled") THEN "cancelled"
        ELSE IF all("delivered") THEN "delivered"
        ELSE IF any("cancelled") \/ any("delivered") THEN "partial"
        ELSE IF all("placed") THEN "placed"
        ELSE "processing"

Statuses == [v \in Vendors |-> slice[v].status]

\* Mutant: the refund is not opened with the cancellation.
Written_NoRefund(w, v, s, tracked) ==
    [w EXCEPT !.status   = s,
              !.tracking = IF s = "shipped" THEN tracked ELSE @]

\* Mutant: a slice that moves on has its refund columns reset.
Written_Reset(w, v, s, tracked) ==
    [w EXCEPT !.status   = s,
              !.tracking = IF s = "shipped" THEN tracked ELSE @,
              !.refund   = IF s = "cancelled" THEN "pending" ELSE "none",
              !.amount   = IF s = "cancelled" THEN LineTotal[v] ELSE 0]

\* What the UPDATE of a slice makes of row w when it moves to status s.
Written(w, v, s, tracked) ==
    [w EXCEPT !.status   = s,
              !.tracking = IF s = "shipped" THEN tracked ELSE @,
              !.refund   = IF s = "cancelled" THEN "pending" ELSE @,
              !.amount   = IF s = "cancelled" THEN LineTotal[v] ELSE @]

Refunded(w) == [w EXCEPT !.refund = "refunded"]

\* Mutant: the order is rolled up only when it leaves "placed".
OrderWritten_Once(r, s) == IF txn[r].seen = "placed" THEN s ELSE order

\* The mapper omits a column whose value equals the one it loaded, so the
\* order row is written only when the new status differs from the one seen.
OrderWritten(r, s) == IF s = txn[r].seen THEN order ELSE s

-----------------------------------------------------------------------------
(* Row locks.                                                              *)

Locked(x) == \E q \in Req : x \in txn[q].held

\* The rows whose UPDATE request r may send next.  A vendor's request sends
\* its slice and then, if the mapper has a new status to write, the order; a
\* refund its slice.  cancel_order sends one slice per turn of its loop, in
\* the order the SELECT happened to return, because the next turn's SELECT
\* autoflushes; the last slice and the order row are left to the flush of the
\* commit, which fixes no order between the two tables.
Wants(r) ==
    LET t == txn[r] IN
    {x \in LockRows \ t.held :
        \/ t.op \in {"advance", "refund"} /\ t.phase = "checked" /\ x \in t.rows
        \/ t.phase = "flushed" /\ x = "order" /\ t.rollup # t.seen
        \/ t.op = "cancel" /\ (x = "order" => \A v, w \in Vendors \ t.held : v = w)}

\* No UPDATE that r sends has to wait.
Unhindered(r) == \A x \in Wants(r) : ~Locked(x)

\* The requests of D wait for each other, and for nobody else.
Deadlocked(D) ==
    /\ D # {}
    /\ \A r \in D :
          Wants(r) # {} /\ \A x \in Wants(r) : \E q \in D : x \in txn[q].held

-----------------------------------------------------------------------------
(* advance_vendor_order                                                    *)

\* The request loads the order row; what it asks for matters from the check.
LoadOrder(r) ==
    /\ txn[r] = NoTxn
    /\ txn' = [txn EXCEPT ![r] = Loaded(order)]
    /\ UNCHANGED <<order, slice, issued>>

MayAdvance(v, to, tracked) ==
    /\ to \in FULFILMENT_TRANSITIONS[slice[v].status]
    /\ to = "shipped" => tracked = "given"

AdvanceCheck(r, v, to, tracked) ==
    /\ txn[r].phase = "loaded"
    /\ MayAdvance(v, to, tracked)
    /\ txn' = [txn EXCEPT ![r] =
                  Checked(@, "advance", {v}, to, tracked)]
    /\ UNCHANGED <<order, slice, issued>>

AdvanceReject(r) ==
    /\ txn[r].phase = "loaded"
    /\ \E v \in Vendors, to \in Asked, tracked \in Tracking :
          ~MayAdvance(v, to, tracked)
    /\ txn' = [txn EXCEPT ![r] = NoTxn]
    /\ UNCHANGED <<order, slice, issued>>

\* The SELECT of _vendor_line_total flushes the slice; the roll-up then reads
\* the request's own slice as written and the others as committed.
AdvanceFlush(r) ==
    /\ txn[r].op = "advance" /\ txn[r].phase = "checked"
    /\ Unhindered(r)
    /\ LET st == [v \in Vendors |->
                    IF v \in txn[r].rows THEN txn[r].to ELSE slice[v].status]
       IN  txn' = [txn EXCEPT ![r] = Flushed(@, Rollup(st))]
    /\ UNCHANGED <<order, slice, issued>>

\* Mutant: the order is not rolled up.
AdvanceCommit_NoRollup(r) ==
    /\ txn[r].op = "advance" /\ txn[r].phase = "flushed"
    /\ Unhindered(r)
    /\ slice' = [v \in Vendors |->
                    IF v \in txn[r].rows
                    THEN Written(slice[v], v, txn[r].to, txn[r].tracked)
                    ELSE slice[v]]
    /\ txn' = [txn EXCEPT ![r] = NoTxn]
    /\ UNCHANGED <<order, issued>>

\* Mutant: the handler returns without the commit that releases its locks.
AdvanceCommit_Forgotten(r) ==
    /\ txn[r].op = "advance" /\ txn[r].phase = "flushed"
    /\ UNCHANGED <<order, slice, issued, txn>>

AdvanceCommit(r) ==
    /\ txn[r].op = "advance" /\ txn[r].phase = "flushed"
    /\ Unhindered(r)
    /\ slice' = [v \in Vendors |->
                    IF v \in txn[r].rows
                    THEN Written(slice[v], v, txn[r].to, txn[r].tracked)
                    ELSE slice[v]]
    /\ order' = OrderWritten(r, txn[r].rollup)
    /\ txn' = [txn EXCEPT ![r] = NoTxn]
    /\ UNCHANGED issued

-----------------------------------------------------------------------------
(* cancel_order, by the buyer                                              *)

MayCancel == \A v \in Vendors : slice[v].status = "placed"

CancelCheck(r) ==
    /\ txn[r].phase = "loaded"
    /\ MayCancel
    /\ txn' = [txn EXCEPT ![r] = Checked(@, "cancel", Vendors, "cancelled", "none")]
    /\ UNCHANGED <<order, slice, issued>>

CancelReject(r) ==
    /\ txn[r].phase = "loaded"
    /\ ~MayCancel
    /\ txn' = [txn EXCEPT ![r] = NoTxn]
    /\ UNCHANGED <<order, slice, issued>>

\* The UPDATE of one more row is sent and has got the row's lock.
CancelLock(r, x) ==
    /\ txn[r].op = "cancel" /\ txn[r].phase = "checked"
    /\ x \in Wants(r) /\ ~Locked(x)
    /\ txn' = [txn EXCEPT ![r] = WithLock(@, x)]
    /\ UNCHANGED <<order, slice, issued>>

\* Mutant: the buyer's cancellation leaves the slices to the vendors.
CancelCommit_OrderOnly(r) ==
    /\ txn[r].op = "cancel" /\ txn[r].phase = "checked"
    /\ Wants(r) = {}
    /\ order' = OrderWritten(r, "cancelled")
    /\ txn' = [txn EXCEPT ![r] = NoTxn]
    /\ UNCHANGED <<slice, issued>>

\* Every slice and the order are updated: the commit makes them visible.
CancelCommit(r) ==
    /\ txn[r].op = "cancel" /\ txn[r].phase = "checked"
    /\ Wants(r) = {}
    /\ slice' = [v \in Vendors |-> Written(slice[v], v, "cancelled", "none")]
    /\ order' = OrderWritten(r, "cancelled")
    /\ txn' = [txn EXCEPT ![r] = NoTxn]
    /\ UNCHANGED issued

-----------------------------------------------------------------------------
(* issue_vendor_reject_refund                                              *)

\* Mutant: a refund already issued can be issued again.
RefundCheck_Again(r, v) ==
    /\ txn[r] = NoTxn
    /\ slice[v].status = "cancelled" /\ issued[v] < 2
    /\ txn' = [txn EXCEPT ![r] = Checked(NoTxn, "refund", {v}, "cancelled", "none")]
    /\ UNCHANGED <<order, slice, issued>>

\* Mutant: the refund locks the order before it asks for the slice.
RefundCheck_OrderFirst(r, v) ==
    /\ txn[r] = NoTxn /\ ~Locked("order")
    /\ slice[v].status = "cancelled" /\ slice[v].refund = "pending"
    /\ txn' = [txn EXCEPT ![r] =
          WithLock(Checked(NoTxn, "refund", {v}, "cancelled", "none"), "order")]
    /\ UNCHANGED <<order, slice, issued>>

RefundCheck(r, v) ==
    /\ txn[r] = NoTxn
    /\ slice[v].status = "cancelled" /\ slice[v].refund = "pending"
    /\ txn' = [txn EXCEPT ![r] = Checked(NoTxn, "refund", {v}, "cancelled", "none")]
    /\ UNCHANGED <<order, slice, issued>>

RefundCommit(r) ==
    /\ txn[r].op = "refund" /\ txn[r].phase = "checked"
    /\ Unhindered(r)
    /\ slice' = [v \in Vendors |->
                    IF v \in txn[r].rows
                    THEN Refunded(slice[v])
                    ELSE slice[v]]
    /\ issued' = [v \in Vendors |->
                    IF v \in txn[r].rows THEN issued[v] + 1 ELSE issued[v]]
    /\ txn' = [txn EXCEPT ![r] = NoTxn]
    /\ UNCHANGED order

-----------------------------------------------------------------------------
\* The session closes without a commit: the process stops, the connection is
\* lost, or the database picks the transaction as the victim of a deadlock.
\* The locks of the request go with it.
Abort(r) ==
    /\ txn[r] # NoTxn
    /\ txn' = [txn EXCEPT ![r] = NoTxn]
    /\ UNCHANGED <<order, slice, issued, overlapped>>

\* PostgreSQL finds requests that wait for each other and aborts one of them.
Victim(r) == (\E D \in SUBSET Req : r \in D /\ Deadlocked(D)) /\ Abort(r)

\* place_order leaves the order and every slice "placed".
Init ==
    /\ order = "placed"
    /\ slice = [v \in Vendors |-> [status |-> "placed", tracking |-> "none",
                                   refund |-> "none", amount |-> 0]]
    /\ issued = [v \in Vendors |-> 0]
    /\ txn = [r \in Req |-> NoTxn]
    /\ overlapped = FALSE

\* What the server does with a request it has accepted.
Proceed(r) ==
    /\ UNCHANGED overlapped
    /\ \/ \E v \in Vendors, to \in Asked, tracked \in Tracking :
             AdvanceCheck(r, v, to, tracked)
       \/ AdvanceReject(r)
       \/ AdvanceFlush(r)
       \/ AdvanceCommit(r)
       \/ CancelCheck(r)
       \/ CancelReject(r)
       \/ \E x \in LockRows : CancelLock(r, x)
       \/ CancelCommit(r)
       \/ RefundCommit(r)

\* A client sends a request.
Submit(r) ==
    /\ overlapped' = (overlapped \/ \E q \in Req : txn[q] # NoTxn)
    /\ LoadOrder(r) \/ \E v \in Vendors : RefundCheck(r, v)

Next == \E r \in Req : Submit(r) \/ Proceed(r) \/ Abort(r)

Spec == Init /\ [][Next]_vars

\* A request the server has accepted runs on; clients owe nothing.  The
\* database queues the waiters of a row lock, so a request that waits is not
\* overtaken for ever: strong fairness for the steps that take a lock.  Its
\* detector does not leave a deadlock standing: weak fairness for a victim.
TakeLock(r) ==
    /\ UNCHANGED overlapped
    /\ \/ AdvanceFlush(r) \/ AdvanceCommit(r) \/ RefundCommit(r)
       \/ \E x \in LockRows : CancelLock(r, x)

FairSpec ==
    /\ Spec
    /\ \A r \in Req : WF_vars(Proceed(r)) /\ SF_vars(TakeLock(r))
    /\ WF_vars(\E r \in Req : Victim(r))

-----------------------------------------------------------------------------
(* Properties that hold however requests interleave.                       *)

\* Every row and every request has its type.
TypeOK ==
    /\ order \in OrderStatus
    /\ slice \in [Vendors -> VendorFulfilmentRow]
    /\ issued \in [Vendors -> Nat]
    /\ txn \in [Req -> Txn]
    /\ overlapped \in BOOLEAN

\* The order reads "placed" exactly while no vendor has touched its slice:
\* no interleaving of roll-ups can leave or bring back a "placed" order over
\* a slice that has moved (advance_vendor_order, _rollup_order_status).
PlacedMeansUntouched ==
    order = "placed" <=> \A v \in Vendors : slice[v].status = "placed"

\* A cancelled slice always owes the buyer, or has paid, exactly the total of
\* the vendor's lines, whoever cancelled it and whatever raced with that.
CancelledIsOwed ==
    \A v \in Vendors :
        slice[v].status = "cancelled" =>
            slice[v].refund # "none" /\ slice[v].amount = LineTotal[v]

\* A final order status was earned by every slice: "cancelled" only when each
\* slice has a refund, "delivered" only when each was shipped with courier
\* and tracking number, also when slices changed after the roll-up was read.
FinalStatusEarned ==
    \A v \in Vendors :
        /\ order = "cancelled" => slice[v].refund # "none"
        /\ order = "delivered" => slice[v].tracking = "given"

\* What a request in flight still knows of the rows it read before others
\* committed: a status seen after "placed" means the order has left it for
\* good; a slice to be delivered was shipped with tracking; and a roll-up
\* that was read as final is still borne out by the slices it was read from.
InFlightSound ==
    /\ \A v \in Vendors :
          slice[v].status \in {"shipped", "delivered"} => slice[v].tracking = "given"
    /\ \A r \in Req :
          /\ txn[r].seen # "placed" => order # "placed"
          /\ txn[r].op = "advance" =>
                /\ txn[r].rows # {} /\ txn[r].to # "placed"
                /\ txn[r].to = "shipped" => txn[r].tracked = "given"
                /\ txn[r].to = "delivered" =>
                      \A v \in txn[r].rows : slice[v].tracking = "given"
          /\ txn[r].phase = "flushed" =>
                /\ txn[r].op = "advance" /\ txn[r].rollup # "placed"
                /\ txn[r].rollup = "cancelled" =>
                      /\ txn[r].to = "cancelled"
                      /\ \A v \in Vendors \ txn[r].rows : slice[v].refund # "none"
                /\ txn[r].rollup = "delivered" =>
                      /\ txn[r].to = "delivered"
                      /\ \A v \in Vendors \ txn[r].rows : slice[v].tracking = "given"

\* What is owed stays owed: a slice with a refund keeps one, of the full
\* total, and a shipped slice its tracking number, also when a vendor's stale
\* move takes the slice out of "cancelled" again (advance_vendor_order writes
\* the refund columns only with a cancellation).
OwedStays ==
    [][\A v \in Vendors :
          /\ slice[v].refund # "none" =>
                slice'[v].refund # "none" /\ slice'[v].amount = LineTotal[v]
          /\ slice[v].tracking = "given" => slice'[v].tracking = "given"]_vars

\* Vendors' requests and refunds never block each other for good, because all
\* of them take their slice before the order: whenever requests wait for each
\* other in a circle, a buyer's cancellation is among them (cancel_order may
\* hold the order and wait for a slice).
DeadlockHasCancel ==
    \A D \in SUBSET Req : Deadlocked(D) => \E r \in D : txn[r].op = "cancel"

\* Every request the server accepts ends, although requests can wait for each
\* other's slices and for the order: in turn, or as a deadlock's victim.
RequestsEnd == \A r \in Req : txn[r] # NoTxn ~> txn[r] = NoTxn

-----------------------------------------------------------------------------
(* Properties of requests that do not overlap.                             *)

\* orders.status is the roll-up of the slices.
RollupExact == ~overlapped => order = Rollup(Statuses)

\* Money: a slice has a refund exactly when it is cancelled, and the refund
\* is issued once, when it is marked refunded.
RefundOncePerCancel ==
    ~overlapped =>
        \A v \in Vendors :
            /\ slice[v].refund # "none" <=> slice[v].status = "cancelled"
            /\ issued[v] = IF slice[v].refund = "refunded" THEN 1 ELSE 0

=============================================================================
