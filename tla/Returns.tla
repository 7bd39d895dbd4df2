------------------------------- MODULE Returns -------------------------------
(***************************************************************************)
(* The returns of one order line: the buyer's request, the vendor's        *)
(* decision and the refund (CommerceService), beside the other way money   *)
(* comes back, the refund of a cancelled slice.  How slices and order move *)
(* is OrderFulfilment's subject; here they take any step it allows.        *)
(* Requests in flight: see UnitOfWork.                                     *)
(***************************************************************************)
EXTENDS Naturals

CONSTANTS
    ReturnIds,        \* keys for rows of returns
    LineTotal,        \* unit_price * quantity of the line
    MaxPaid,          \* bound: refunds are issued while less than this is paid
    Req

\* Rows of returns are not those of the order and its slice.
ASSUME ReturnIdsAssumption == "order" \notin ReturnIds /\ "slice" \notin ReturnIds
ASSUME LineTotalAssumption == LineTotal \in Nat \ {0}
ASSUME MaxPaidAssumption == MaxPaid \in Nat

VARIABLES
    db, writes, overlapped,
    paid              \* history: paid[k], what was refunded on return k, and
                      \* paid["slice"], on the slice for this line

vars == <<db, writes, overlapped, paid>>

\* A column is named by its field and its row.
Status(k) == <<"status", k>>
Amount(k) == <<"refund_amount", k>>
Refund    == <<"refund_status", "slice">>

Columns == {Status("order"), Status("slice"), Refund}
             \cup {Status(k) : k \in ReturnIds} \cup {Amount(k) : k \in ReturnIds}

INSTANCE UnitOfWork

\* Statuses of the order that its slices' roll-up gives while the line's own
\* slice has this status; "moving" is every status in between.
RollupsOf(s) ==
    CASE s = "placed"    -> {"placed", "processing", "partial"}
      [] s = "moving"    -> {"processing", "partial"}
      [] s = "delivered" -> {"delivered", "partial"}
      [] s = "cancelled" -> {"cancelled", "partial"}

SliceMoves(s) ==
    CASE s = "placed" -> {"placed", "moving", "cancelled"}
      [] s = "moving" -> {"moving", "delivered"}
      [] OTHER        -> {s}

\* "partial" is for good unless everything is delivered or cancelled.
OrderMoves(s, o) ==
    /\ s \in SliceMoves(db[Status("slice")])
    /\ o \in RollupsOf(s)
    /\ db[Status("order")] = "partial" => o \in {"partial", "delivered", "cancelled"}
    /\ db[Status("order")] = "processing" => o # "placed"
    /\ db[Status("order")] \notin {"delivered", "cancelled"}
    /\ db' = [db EXCEPT ![Status("slice")] = s, ![Status("order")] = o,
                        ![Refund] = IF s = "cancelled" /\ @ = "none" THEN "pending" ELSE @]
    /\ UNCHANGED <<writes, overlapped, paid>>

-----------------------------------------------------------------------------
Opened(k) == [db EXCEPT ![Status(k)] = "requested"]

RequestReturn(r, k) ==
    /\ db[Status("order")] \in {"placed", "fulfilled", "partial", "processing", "delivered"}
    /\ \A j \in ReturnIds : db[Status(j)] # "requested"
    /\ Fresh(Status(k))
    /\ Begin(r, Opened(k)) /\ UNCHANGED paid

Approved(k, amount) == [db EXCEPT ![Status(k)] = "approved", ![Amount(k)] = amount]

\* Mutant: a return can be approved until it is refunded, and after that.
ApproveReturn_Reopens(r, k, amount) ==
    /\ db[Status(k)] \notin {"none", "approved"}
    /\ amount \in 1 .. LineTotal
    /\ Begin(r, Approved(k, amount)) /\ UNCHANGED paid

ApproveReturn(r, k, amount) ==
    /\ db[Status(k)] = "requested"
    /\ amount \in 1 .. LineTotal
    /\ Begin(r, Approved(k, amount)) /\ UNCHANGED paid

RejectReturn(r, k) ==
    /\ db[Status(k)] = "requested"
    /\ Begin(r, [db EXCEPT ![Status(k)] = "rejected"]) /\ UNCHANGED paid

\* Mutant: a requested return can be refunded.
IssueRefund_Unapproved(r, k) ==
    /\ db[Status(k)] \in {"requested", "approved"}
    /\ Begin(r, [db EXCEPT ![Status(k)] = "refunded"]) /\ UNCHANGED paid

IssueRefund(r, k) ==
    /\ db[Status(k)] = "approved"
    /\ Begin(r, [db EXCEPT ![Status(k)] = "refunded"]) /\ UNCHANGED paid

IssueRejectRefund(r) ==
    /\ db[Status("slice")] = "cancelled" /\ db[Refund] = "pending"
    /\ Begin(r, [db EXCEPT ![Refund] = "refunded"]) /\ UNCHANGED paid

\* What the refund that request r commits pays on k: refund_amount, or for the
\* cancelled slice the total of its lines.
Pays(r, k) ==
    IF k = "slice"
    THEN IF Refund \in DOMAIN writes[r] THEN LineTotal ELSE 0
    ELSE IF Status(k) \in DOMAIN writes[r] /\ writes[r][Status(k)] = "refunded"
         THEN db[Amount(k)] ELSE 0

CommitRefund(r) ==
    /\ Commit(r)
    /\ \A k \in DOMAIN paid : Pays(r, k) > 0 => paid[k] < MaxPaid
    /\ paid' = [k \in DOMAIN paid |-> paid[k] + Pays(r, k)]

Init ==
    /\ db = [c \in Columns |-> IF c \in {Status("order"), Status("slice")} THEN "placed"
                               ELSE IF c \in {Amount(k) : k \in ReturnIds} THEN 0 ELSE "none"]
    /\ writes = [r \in Req |-> Nothing]
    /\ overlapped = FALSE
    /\ paid = [k \in ReturnIds \cup {"slice"} |-> 0]

Next ==
    \/ \E s \in {"placed", "moving", "delivered", "cancelled"},
          o \in {"placed", "processing", "partial", "delivered", "cancelled"} : OrderMoves(s, o)
    \/ \E r \in Req :
        \/ \E k \in ReturnIds : RequestReturn(r, k)
        \/ \E k \in ReturnIds, a \in 0 .. LineTotal + 1 : ApproveReturn(r, k, a)
        \/ \E k \in ReturnIds : RejectReturn(r, k)
        \/ \E k \in ReturnIds : IssueRefund(r, k)
        \/ IssueRejectRefund(r)
        \/ CommitRefund(r)
        \/ Abort(r) /\ UNCHANGED paid

Spec == Init /\ [][Next]_vars

-----------------------------------------------------------------------------
\* Every column has its type.
TypeOK ==
    /\ DOMAIN db = Columns
    /\ overlapped \in BOOLEAN
    /\ db[Status("order")] \in {"placed", "processing", "partial", "delivered", "cancelled"}
    /\ db[Status("slice")] \in {"placed", "moving", "delivered", "cancelled"}
    /\ db[Refund] \in {"none", "pending", "refunded"}
    /\ \A k \in ReturnIds :
          /\ db[Status(k)] \in {"none", "requested", "approved", "rejected", "refunded"}
          /\ db[Amount(k)] \in 0 .. LineTotal

(* However requests interleave.                                            *)

\* Whatever decisions and refunds overlap, a return is approved or refunded
\* for an amount a vendor named, more than nothing and at most the line's
\* total, and a refund is paid only on such a return.
RefundHasAmount ==
    TypeOK /\ \A k \in ReturnIds :
        /\ db[Status(k)] \in {"approved", "refunded"} => db[Amount(k)] > 0
        /\ paid[k] > 0 => db[Amount(k)] > 0

(* Requests that do not overlap.                                           *)

\* A return pays what was approved, once, and only when it says so; and at most
\* one return of a line awaits a decision.
PaidAsApproved ==
    ~overlapped =>
       /\ \A k \in ReturnIds : paid[k] = IF db[Status(k)] = "refunded" THEN db[Amount(k)] ELSE 0
       /\ \A j, k \in ReturnIds : db[Status(j)] = "requested" /\ db[Status(k)] = "requested" => j = k
=============================================================================
