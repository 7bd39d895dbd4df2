----------------------- MODULE OrderFulfilment_proofs -----------------------
(***************************************************************************)
(* Proofs about OrderFulfilment for any set of vendors, any totals and any *)
(* number of request slots.                                                *)
(***************************************************************************)
EXTENDS OrderFulfilment, TLAPS

\* What the UPDATE of a fulfilment row makes of each of its columns.
LEMMA WrittenColumns ==
    ASSUME NEW w \in VendorFulfilmentRow, NEW v \in Vendors,
           NEW s \in SliceStatus, NEW tracked \in Tracking
    PROVE  /\ Written(w, v, s, tracked) \in VendorFulfilmentRow
           /\ Written(w, v, s, tracked).status = s
           /\ s # "shipped" => Written(w, v, s, tracked).tracking = w.tracking
           /\ s = "shipped" => Written(w, v, s, tracked).tracking = tracked
           /\ s # "cancelled" => /\ Written(w, v, s, tracked).refund = w.refund
                                 /\ Written(w, v, s, tracked).amount = w.amount
           /\ s = "cancelled" => /\ Written(w, v, s, tracked).refund = "pending"
                                 /\ Written(w, v, s, tracked).amount = LineTotal[v]
<1>1. LineTotal[v] \in Nat
  BY LineTotalAssumption
<1>2. CASE s = "shipped"
  BY <1>2 DEF Written, VendorFulfilmentRow
<1>3. CASE s = "cancelled"
  BY <1>1, <1>3 DEF Written, VendorFulfilmentRow
<1>4. CASE s # "shipped" /\ s # "cancelled"
  BY <1>4 DEF Written, VendorFulfilmentRow
<1>5. QED BY <1>2, <1>3, <1>4

\* The roll-up is one of the order's statuses, and it is final or "placed"
\* only when every slice is.
LEMMA RollupMeaning ==
    ASSUME NEW st
    PROVE  /\ Rollup(st) \in OrderStatus
           /\ Rollup(st) = "cancelled" => \A v \in Vendors : st[v] = "cancelled"
           /\ Rollup(st) = "delivered" => \A v \in Vendors : st[v] = "delivered"
           /\ Rollup(st) = "placed" => \A v \in Vendors : st[v] = "placed"
BY DEF Rollup, OrderStatus

\* The fields of a request whose guard passed.
LEMMA CheckedFields ==
    ASSUME NEW t \in Txn, NEW op \in {"advance", "cancel", "refund"},
           NEW rows \in SUBSET Vendors, NEW to \in SliceStatus,
           NEW tracked \in Tracking
    PROVE  /\ Checked(t, op, rows, to, tracked) \in Txn
           /\ Checked(t, op, rows, to, tracked).op = op
           /\ Checked(t, op, rows, to, tracked).phase = "checked"
           /\ Checked(t, op, rows, to, tracked).rows = rows
           /\ Checked(t, op, rows, to, tracked).to = to
           /\ Checked(t, op, rows, to, tracked).tracked = tracked
           /\ Checked(t, op, rows, to, tracked).seen = t.seen
           /\ Checked(t, op, rows, to, tracked).held = t.held
BY DEF Checked, Txn

\* The fields of a request whose slice is flushed.
LEMMA FlushedFields ==
    ASSUME NEW t \in Txn, NEW rollup \in OrderStatus
    PROVE  /\ Flushed(t, rollup) \in Txn
           /\ Flushed(t, rollup).phase = "flushed"
           /\ Flushed(t, rollup).rollup = rollup
           /\ Flushed(t, rollup).op = t.op
           /\ Flushed(t, rollup).rows = t.rows
           /\ Flushed(t, rollup).to = t.to
           /\ Flushed(t, rollup).tracked = t.tracked
           /\ Flushed(t, rollup).seen = t.seen
           /\ Flushed(t, rollup).held = t.rows
BY DEF Flushed, Txn, LockRows

\* A vendor's request, once flushed, holds its slice and is still that request.
LEMMA FlushKeeps ==
    ASSUME TypeOK, NEW q \in Req, AdvanceFlush(q)
    PROVE  /\ txn'[q].op = "advance" /\ txn'[q].phase = "flushed"
           /\ txn'[q].held \subseteq Vendors
<1> DEFINE st == [v \in Vendors |->
                    IF v \in txn[q].rows THEN txn[q].to ELSE slice[v].status]
<1>1. txn[q] \in Txn /\ txn[q].rows \subseteq Vendors /\ txn[q].op = "advance"
  BY DEF AdvanceFlush, TypeOK, Txn
<1>2. txn'[q] = Flushed(txn[q], Rollup(st))
  BY DEF AdvanceFlush, TypeOK
<1>3. Rollup(st) \in OrderStatus
  BY RollupMeaning
<1> HIDE DEF st
<1>4. QED BY <1>1, <1>2, <1>3, FlushedFields

\* A request that gets one more lock is otherwise as it was.
LEMMA LockedFields ==
    ASSUME NEW t \in Txn, NEW x \in LockRows
    PROVE  /\ WithLock(t, x) \in Txn
           /\ WithLock(t, x).op = t.op /\ WithLock(t, x).phase = t.phase
           /\ WithLock(t, x).rows = t.rows /\ WithLock(t, x).to = t.to
           /\ WithLock(t, x).tracked = t.tracked /\ WithLock(t, x).seen = t.seen
           /\ WithLock(t, x).rollup = t.rollup
BY DEF WithLock, Txn

\* A request that is not there, and one that has loaded the order, are typed.
LEMMA EmptyFields ==
    /\ NoTxn \in Txn
    /\ NoTxn.op = "none" /\ NoTxn.phase = "idle" /\ NoTxn.rows = {}
    /\ NoTxn.seen = "placed" /\ NoTxn.held = {}
BY DEF NoTxn, Txn, SliceStatus, OrderStatus, Tracking

LEMMA LoadedFields ==
    ASSUME NEW s \in OrderStatus
    PROVE  /\ Loaded(s) \in Txn
           /\ Loaded(s).op = "none"
           /\ Loaded(s).phase = "loaded"
           /\ Loaded(s).seen = s
           /\ Loaded(s).rows = {}
           /\ Loaded(s).held = {}
BY DEF Loaded, NoTxn, Txn, SliceStatus, OrderStatus, Tracking

\* Issuing a refund changes the refund status and no other column.
LEMMA RefundedColumns ==
    ASSUME NEW w \in VendorFulfilmentRow
    PROVE  /\ Refunded(w) \in VendorFulfilmentRow
           /\ Refunded(w).refund = "refunded"
           /\ Refunded(w).status = w.status
           /\ Refunded(w).tracking = w.tracking
           /\ Refunded(w).amount = w.amount
BY DEF Refunded, VendorFulfilmentRow

\* A placed order and its slices have their types.
LEMMA InitTyped == Init => TypeOK
<1>1. Init => overlapped \in BOOLEAN
  BY DEF Init
<1>2. Init => order \in OrderStatus /\ slice \in [Vendors -> VendorFulfilmentRow]
  BY DEF Init, VendorFulfilmentRow, SliceStatus, OrderStatus, Tracking
<1>3. Init => issued \in [Vendors -> Nat] /\ txn \in [Req -> Txn]
  BY EmptyFields DEF Init
<1>4. QED BY <1>1, <1>2, <1>3 DEF TypeOK

\* The type invariant holds of every behaviour: no request, however it
\* interleaves, leaves a row or a request outside its type.
THEOREM TypeCorrect == Spec => []TypeOK
<1> USE VendorsAssumption, LineTotalAssumption
<1>1. Init => TypeOK
  BY InitTyped
<1>2. TypeOK /\ [Next]_vars => TypeOK'
  <2> SUFFICES ASSUME TypeOK, [Next]_vars PROVE TypeOK'
    OBVIOUS
  <2>0. overlapped' \in BOOLEAN
    BY DEF TypeOK, Next, Submit, Proceed, Abort, vars
  <2> USE DEF TypeOK
  <2>1. ASSUME NEW r \in Req, LoadOrder(r) PROVE TypeOK'
    BY <2>0, <2>1, LoadedFields DEF LoadOrder
  <2>2. ASSUME NEW r \in Req, NEW v \in Vendors, RefundCheck(r, v) PROVE TypeOK'
    <3>1. Checked(NoTxn, "refund", {v}, "cancelled", "none") \in Txn
      <4>1. "cancelled" \in SliceStatus /\ "none" \in Tracking
        BY DEF SliceStatus, Tracking
      <4>2. {v} \in SUBSET Vendors
        OBVIOUS
      <4>3. QED BY <4>1, <4>2, EmptyFields, CheckedFields
    <3>2. QED BY <2>0, <2>2, <3>1 DEF RefundCheck
  <2>3. ASSUME NEW r \in Req, NEW v \in Vendors, NEW to \in SliceStatus,
               NEW tracked \in Tracking, AdvanceCheck(r, v, to, tracked)
        PROVE  TypeOK'
    <3>1. Checked(txn[r], "advance", {v}, to, tracked) \in Txn
      <4>1. {v} \in SUBSET Vendors
        OBVIOUS
      <4>2. QED BY <4>1, EmptyFields, CheckedFields
    <3>2. QED BY <2>0, <2>3, <3>1 DEF AdvanceCheck
  <2>4. ASSUME NEW r \in Req, AdvanceReject(r) \/ CancelReject(r) \/ Abort(r)
        PROVE  TypeOK'
    BY <2>0, <2>4, EmptyFields DEF AdvanceReject, CancelReject, Abort
  <2>5. ASSUME NEW r \in Req, AdvanceFlush(r) PROVE TypeOK'
    BY <2>0, <2>5, RollupMeaning, FlushedFields DEF AdvanceFlush
  <2>6. ASSUME NEW r \in Req, AdvanceCommit(r) PROVE TypeOK'
    <3>1. \A v \in Vendors :
             Written(slice[v], v, txn[r].to, txn[r].tracked) \in VendorFulfilmentRow
      BY WrittenColumns DEF Txn
    <3>2. slice' \in [Vendors -> VendorFulfilmentRow]
      BY <2>6, <3>1 DEF AdvanceCommit
    <3>3. order' \in OrderStatus
      BY <2>6 DEF AdvanceCommit, OrderWritten, Txn
    <3>4. QED BY <2>0, <2>6, EmptyFields, <3>2, <3>3 DEF AdvanceCommit
  <2>7. ASSUME NEW r \in Req, CancelCheck(r) PROVE TypeOK'
    <3>1. Checked(txn[r], "cancel", Vendors, "cancelled", "none") \in Txn
      <4>1. "cancelled" \in SliceStatus /\ "none" \in Tracking
        BY DEF SliceStatus, Tracking
      <4>2. QED BY <4>1, EmptyFields, CheckedFields
    <3>2. QED BY <2>0, <2>7, <3>1 DEF CancelCheck
  <2>8. ASSUME NEW r \in Req, CancelCommit(r) PROVE TypeOK'
    <3>0. "cancelled" \in SliceStatus /\ "none" \in Tracking
      BY DEF SliceStatus, Tracking
    <3>1. \A v \in Vendors :
             Written(slice[v], v, "cancelled", "none") \in VendorFulfilmentRow
      BY <3>0, WrittenColumns
    <3>2. slice' \in [Vendors -> VendorFulfilmentRow]
      BY <2>8, <3>1 DEF CancelCommit
    <3>3. order' \in OrderStatus
      BY <2>8 DEF CancelCommit, OrderWritten, OrderStatus
    <3>4. QED BY <2>0, <2>8, EmptyFields, <3>2, <3>3 DEF CancelCommit
  <2>9. ASSUME NEW r \in Req, RefundCommit(r) PROVE TypeOK'
    <3>1. slice' \in [Vendors -> VendorFulfilmentRow]
      BY <2>9, RefundedColumns DEF RefundCommit
    <3>2. issued' \in [Vendors -> Nat]
      BY <2>9 DEF RefundCommit
    <3>3. QED BY <2>0, <2>9, EmptyFields, <3>1, <3>2 DEF RefundCommit
  <2>10. CASE UNCHANGED vars
    BY <2>0, <2>10 DEF vars
  <2>11. ASSUME NEW r \in Req, NEW x \in LockRows, CancelLock(r, x) PROVE TypeOK'
    BY <2>0, <2>11, LockedFields DEF CancelLock
  <2>12. QED
    BY <2>1, <2>2, <2>3, <2>4, <2>5, <2>6, <2>7, <2>8, <2>9, <2>10, <2>11,
       AskedAssumption DEF Next, Submit, Proceed
<1>3. QED BY <1>1, <1>2, PTL DEF Spec

-----------------------------------------------------------------------------
(* Safety under any interleaving.                                          *)

\* The inductive invariant: what the order and its slices promise, and what
\* requests in flight still know about rows they read earlier.
OverlapInv ==
    /\ TypeOK
    /\ PlacedMeansUntouched
    /\ CancelledIsOwed
    /\ FinalStatusEarned
    /\ InFlightSound

\* The steps that only move a request in or out, or past its guard, leave
\* rows alone, so they keep what is said of rows alone.
LEMMA RowsKept ==
    ASSUME OverlapInv, UNCHANGED <<order, slice, issued>>
    PROVE  PlacedMeansUntouched' /\ CancelledIsOwed' /\ FinalStatusEarned'
BY DEF OverlapInv, PlacedMeansUntouched, CancelledIsOwed, FinalStatusEarned

\* A request slot that gets a request satisfying InFlightSound, while rows
\* stay as they are, keeps it.
LEMMA SlotReplaced ==
    ASSUME OverlapInv, UNCHANGED <<order, slice, issued>>,
           NEW r \in Req, NEW t \in Txn, txn' = [txn EXCEPT ![r] = t],
           t.seen # "placed" => order # "placed",
           t.op = "advance" =>
              /\ t.rows # {} /\ t.to # "placed"
              /\ t.to = "shipped" => t.tracked = "given"
              /\ t.to = "delivered" => \A v \in t.rows : slice[v].tracking = "given",
           t.phase = "flushed" =>
              /\ t.op = "advance" /\ t.rollup # "placed"
              /\ t.rollup = "cancelled" =>
                    /\ t.to = "cancelled"
                    /\ \A v \in Vendors \ t.rows : slice[v].refund # "none"
              /\ t.rollup = "delivered" =>
                    /\ t.to = "delivered"
                    /\ \A v \in Vendors \ t.rows : slice[v].tracking = "given"
    PROVE  InFlightSound'
<1>1. \A q \in Req : txn'[q] = IF q = r THEN t ELSE txn[q]
  BY DEF OverlapInv, TypeOK
<1>2. QED BY <1>1 DEF OverlapInv, InFlightSound

\* Rows only gain: once a slice has a tracking number or a refund it keeps
\* one.  A commit that gains, and leaves "placed" behind, disturbs nothing
\* that the other requests know.
LEMMA OthersKept ==
    ASSUME OverlapInv, NEW r \in Req, txn' = [txn EXCEPT ![r] = NoTxn],
           order' # "placed" \/ order' = order,
           \A v \in Vendors :
              /\ slice[v].tracking = "given" => slice'[v].tracking = "given"
              /\ slice[v].refund # "none" => slice'[v].refund # "none"
              /\ slice'[v].status \in {"shipped", "delivered"}
                    => slice'[v].tracking = "given"
    PROVE  InFlightSound'
<1>1. \A q \in Req : txn'[q] = IF q = r THEN NoTxn ELSE txn[q]
  BY DEF OverlapInv, TypeOK
<1>2. \A q \in Req : txn[q].rows \subseteq Vendors
  BY DEF OverlapInv, TypeOK, Txn
<1>3. QED BY <1>1, <1>2, EmptyFields DEF OverlapInv, InFlightSound

\* The invariant is inductive.
LEMMA OverlapStep ==
    ASSUME OverlapInv, TypeOK', [Next]_vars
    PROVE  OverlapInv'
<1> USE VendorsAssumption, LineTotalAssumption
<1>1. ASSUME NEW r \in Req, LoadOrder(r) PROVE OverlapInv'
  <2>1. InFlightSound'
    <3>1. txn' = [txn EXCEPT ![r] = Loaded(order)] /\ UNCHANGED <<order, slice, issued>>
      BY <1>1 DEF LoadOrder
    <3>2. order \in OrderStatus
      BY DEF OverlapInv, TypeOK
    <3>3. QED BY <3>1, <3>2, LoadedFields, SlotReplaced
  <2>2. QED BY <1>1, <2>1, RowsKept DEF LoadOrder, OverlapInv
<1>2. ASSUME NEW r \in Req, NEW v \in Vendors, RefundCheck(r, v) PROVE OverlapInv'
  <2> DEFINE t == Checked(NoTxn, "refund", {v}, "cancelled", "none")
  <2>1. t \in Txn /\ t.op = "refund" /\ t.phase = "checked" /\ t.seen = "placed"
    <3>1. {v} \in SUBSET Vendors /\ "cancelled" \in SliceStatus /\ "none" \in Tracking
      BY DEF SliceStatus, Tracking
    <3>2. QED BY <3>1, EmptyFields, CheckedFields
  <2>2. InFlightSound'
    <3>1. txn' = [txn EXCEPT ![r] = t] /\ UNCHANGED <<order, slice, issued>>
      BY <1>2 DEF RefundCheck
    <3> HIDE DEF t
    <3>2. QED BY <2>1, <3>1, SlotReplaced
  <2>3. QED BY <1>2, <2>2, RowsKept DEF RefundCheck, OverlapInv
<1>3. ASSUME NEW r \in Req, NEW v \in Vendors, NEW to \in SliceStatus,
             NEW tracked \in Tracking, AdvanceCheck(r, v, to, tracked)
      PROVE  OverlapInv'
  <2> DEFINE t == Checked(txn[r], "advance", {v}, to, tracked)
  <2>1. /\ t \in Txn /\ t.op = "advance" /\ t.phase = "checked"
        /\ t.rows = {v} /\ t.to = to /\ t.tracked = tracked
        /\ t.seen = txn[r].seen
    <3>1. {v} \in SUBSET Vendors /\ txn[r] \in Txn
      BY DEF OverlapInv, TypeOK
    <3>2. QED BY <3>1, CheckedFields
  <2>2. to \in FULFILMENT_TRANSITIONS[slice[v].status] /\ (to = "shipped" => tracked = "given")
    BY <1>3 DEF AdvanceCheck, MayAdvance
  <2>3. slice[v].status \in SliceStatus
    BY DEF OverlapInv, TypeOK, VendorFulfilmentRow
  <2>4. to # "placed" /\ (to = "delivered" => slice[v].status = "shipped")
    BY <2>2, <2>3 DEF FULFILMENT_TRANSITIONS
  <2>5. InFlightSound'
    <3>1. to = "delivered" => slice[v].tracking = "given"
      BY <2>4 DEF OverlapInv, InFlightSound
    <3>2. txn[r].seen # "placed" => order # "placed"
      BY DEF OverlapInv, InFlightSound
    <3>3. txn' = [txn EXCEPT ![r] = t] /\ UNCHANGED <<order, slice, issued>>
      BY <1>3 DEF AdvanceCheck
    <3> HIDE DEF t
    <3>4. QED BY <2>1, <2>2, <2>4, <3>1, <3>2, <3>3, SlotReplaced
  <2>6. QED BY <1>3, <2>5, RowsKept DEF AdvanceCheck, OverlapInv
<1>4. ASSUME NEW r \in Req, AdvanceReject(r) \/ CancelReject(r) \/ Abort(r)
      PROVE  OverlapInv'
  <2>1. txn' = [txn EXCEPT ![r] = NoTxn] /\ UNCHANGED <<order, slice, issued>>
    BY <1>4 DEF AdvanceReject, CancelReject, Abort
  <2>2. InFlightSound'
    BY <2>1, EmptyFields, SlotReplaced
  <2>3. QED BY <2>1, <2>2, RowsKept DEF OverlapInv
<1>5. ASSUME NEW r \in Req, AdvanceFlush(r) PROVE OverlapInv'
  <2> DEFINE st == [v \in Vendors |->
                      IF v \in txn[r].rows THEN txn[r].to ELSE slice[v].status]
             t == Flushed(txn[r], Rollup(st))
  <2>1. /\ t \in Txn /\ t.op = "advance" /\ t.phase = "flushed"
        /\ t.rows = txn[r].rows /\ t.to = txn[r].to /\ t.tracked = txn[r].tracked
        /\ t.seen = txn[r].seen /\ t.rollup = Rollup(st)
    <3>1. Rollup(st) \in OrderStatus /\ txn[r] \in Txn
      BY RollupMeaning DEF OverlapInv, TypeOK
    <3>2. txn[r].op = "advance"
      BY <1>5 DEF AdvanceFlush
    <3> HIDE DEF st
    <3>3. QED BY <3>1, <3>2, FlushedFields
  <2>2. PICK u \in Vendors : u \in txn[r].rows /\ txn[r].to # "placed"
    <3>1. txn[r].op = "advance" /\ txn[r].rows \subseteq Vendors
      BY <1>5 DEF AdvanceFlush, OverlapInv, TypeOK, Txn
    <3>2. QED BY <3>1 DEF OverlapInv, InFlightSound
  <2>3. /\ Rollup(st) # "placed"
        /\ Rollup(st) = "cancelled" =>
              /\ txn[r].to = "cancelled"
              /\ \A v \in Vendors \ txn[r].rows : slice[v].status = "cancelled"
        /\ Rollup(st) = "delivered" =>
              /\ txn[r].to = "delivered"
              /\ \A v \in Vendors \ txn[r].rows : slice[v].status = "delivered"
    <3>1. \A v \in Vendors :
             st[v] = IF v \in txn[r].rows THEN txn[r].to ELSE slice[v].status
      OBVIOUS
    <3> HIDE DEF st
    <3>2. QED BY <2>2, <3>1, RollupMeaning
  <2>4. InFlightSound'
    <3>1. txn' = [txn EXCEPT ![r] = t] /\ UNCHANGED <<order, slice, issued>>
      BY <1>5 DEF AdvanceFlush
    <3>2. /\ txn[r].seen # "placed" => order # "placed"
          /\ txn[r].op = "advance" =>
                /\ txn[r].rows # {} /\ txn[r].to # "placed"
                /\ txn[r].to = "shipped" => txn[r].tracked = "given"
                /\ txn[r].to = "delivered" =>
                      \A v \in txn[r].rows : slice[v].tracking = "given"
      BY DEF OverlapInv, InFlightSound
    <3>3. txn[r].op = "advance"
      BY <1>5 DEF AdvanceFlush
    <3>4. /\ Rollup(st) = "cancelled" =>
                \A v \in Vendors \ txn[r].rows : slice[v].refund # "none"
          /\ Rollup(st) = "delivered" =>
                \A v \in Vendors \ txn[r].rows : slice[v].tracking = "given"
      <4> HIDE DEF st
      <4>1. QED BY <2>3 DEF OverlapInv, InFlightSound, CancelledIsOwed
    <3> HIDE DEF t, st
    <3>5. QED BY <2>1, <2>3, <3>1, <3>2, <3>3, <3>4, SlotReplaced
  <2>5. QED BY <1>5, <2>4, RowsKept DEF AdvanceFlush, OverlapInv
<1>6. ASSUME NEW r \in Req, AdvanceCommit(r) PROVE OverlapInv'
  <2>1. /\ txn[r].op = "advance" /\ txn[r].phase = "flushed"
        /\ txn[r].to \in SliceStatus /\ txn[r].tracked \in Tracking
        /\ txn[r].rows \subseteq Vendors /\ txn[r].rows # {}
        /\ txn[r].to # "placed" /\ txn[r].rollup # "placed"
        /\ txn[r].to = "shipped" => txn[r].tracked = "given"
        /\ txn[r].to = "delivered" => \A v \in txn[r].rows : slice[v].tracking = "given"
    BY <1>6 DEF AdvanceCommit, OverlapInv, TypeOK, Txn, InFlightSound
  <2>2. \A v \in Vendors :
           slice'[v] = IF v \in txn[r].rows
                       THEN Written(slice[v], v, txn[r].to, txn[r].tracked)
                       ELSE slice[v]
    BY <1>6 DEF AdvanceCommit
  <2>3. \A v \in Vendors : slice[v] \in VendorFulfilmentRow
    BY DEF OverlapInv, TypeOK
  <2>4. \A v \in txn[r].rows :
           /\ slice'[v].status = txn[r].to
           /\ slice'[v].tracking =
                 IF txn[r].to = "shipped" THEN txn[r].tracked ELSE slice[v].tracking
           /\ slice'[v].refund =
                 IF txn[r].to = "cancelled" THEN "pending" ELSE slice[v].refund
           /\ txn[r].to = "cancelled" => slice'[v].amount = LineTotal[v]
    BY <2>1, <2>2, <2>3, WrittenColumns
  <2>5. \A v \in Vendors \ txn[r].rows : slice'[v] = slice[v]
    BY <2>2
  <2>6. order' = (IF txn[r].rollup = txn[r].seen THEN order ELSE txn[r].rollup)
    BY <1>6 DEF AdvanceCommit, OrderWritten
  <2>7. order' # "placed"
    BY <2>1, <2>6 DEF OverlapInv, InFlightSound
  <2>8. PlacedMeansUntouched'
    BY <2>1, <2>4, <2>7 DEF PlacedMeansUntouched
  <2>9. CancelledIsOwed'
    BY <2>4, <2>5 DEF OverlapInv, CancelledIsOwed
  <2>10. FinalStatusEarned'
    <3>1. CASE order' = order
      BY <2>1, <2>4, <2>5, <3>1 DEF OverlapInv, FinalStatusEarned
    <3>2. CASE order' = txn[r].rollup
      BY <2>1, <2>4, <2>5, <3>2 DEF OverlapInv, InFlightSound, FinalStatusEarned
    <3>3. QED BY <2>6, <3>1, <3>2
  <2>11. InFlightSound'
    <3>1. \A v \in Vendors :
             /\ slice[v].tracking = "given" => slice'[v].tracking = "given"
             /\ slice[v].refund # "none" => slice'[v].refund # "none"
             /\ slice'[v].status \in {"shipped", "delivered"}
                   => slice'[v].tracking = "given"
      BY <2>1, <2>4, <2>5 DEF OverlapInv, InFlightSound
    <3>2. txn' = [txn EXCEPT ![r] = NoTxn]
      BY <1>6 DEF AdvanceCommit
    <3>3. QED BY <2>7, <3>1, <3>2, OthersKept
  <2>12. QED BY <2>8, <2>9, <2>10, <2>11 DEF OverlapInv
<1>7. ASSUME NEW r \in Req, CancelCheck(r) PROVE OverlapInv'
  <2> DEFINE t == Checked(txn[r], "cancel", Vendors, "cancelled", "none")
  <2>1. t \in Txn /\ t.op = "cancel" /\ t.phase = "checked" /\ t.seen = txn[r].seen
    <3>1. txn[r] \in Txn /\ "cancelled" \in SliceStatus /\ "none" \in Tracking
      BY DEF OverlapInv, TypeOK, SliceStatus, Tracking
    <3>2. QED BY <3>1, CheckedFields
  <2>2. InFlightSound'
    <3>1. txn' = [txn EXCEPT ![r] = t] /\ UNCHANGED <<order, slice, issued>>
      BY <1>7 DEF CancelCheck
    <3>2. txn[r].seen # "placed" => order # "placed"
      BY DEF OverlapInv, InFlightSound
    <3> HIDE DEF t
    <3>3. QED BY <2>1, <3>1, <3>2, SlotReplaced
  <2>3. QED BY <1>7, <2>2, RowsKept DEF CancelCheck, OverlapInv
<1>8. ASSUME NEW r \in Req, CancelCommit(r) PROVE OverlapInv'
  <2>1. \A v \in Vendors :
           /\ slice[v] \in VendorFulfilmentRow
           /\ slice'[v] = Written(slice[v], v, "cancelled", "none")
    BY <1>8 DEF CancelCommit, OverlapInv, TypeOK
  <2>2. \A v \in Vendors :
           /\ slice'[v].status = "cancelled" /\ slice'[v].refund = "pending"
           /\ slice'[v].amount = LineTotal[v]
           /\ slice'[v].tracking = slice[v].tracking
    <3>1. "cancelled" \in SliceStatus /\ "none" \in Tracking
      BY DEF SliceStatus, Tracking
    <3>2. QED BY <2>1, <3>1, WrittenColumns
  <2>3. order' = (IF "cancelled" = txn[r].seen THEN order ELSE "cancelled")
    BY <1>8 DEF CancelCommit, OrderWritten
  <2>4. order' # "placed"
    BY <2>3 DEF OverlapInv, InFlightSound
  <2>5. PlacedMeansUntouched' /\ CancelledIsOwed'
    BY <2>2, <2>4 DEF PlacedMeansUntouched, CancelledIsOwed
  <2>6. FinalStatusEarned'
    BY <2>2, <2>3 DEF OverlapInv, FinalStatusEarned
  <2>7. InFlightSound'
    <3>1. txn' = [txn EXCEPT ![r] = NoTxn]
      BY <1>8 DEF CancelCommit
    <3>2. QED BY <2>2, <2>4, <3>1, OthersKept
  <2>8. QED BY <2>5, <2>6, <2>7 DEF OverlapInv
<1>9. ASSUME NEW r \in Req, RefundCommit(r) PROVE OverlapInv'
  <2>1. \A v \in Vendors :
           /\ slice'[v].status = slice[v].status
           /\ slice'[v].tracking = slice[v].tracking
           /\ slice'[v].amount = slice[v].amount
           /\ slice[v].refund # "none" => slice'[v].refund # "none"
    BY <1>9, RefundedColumns DEF RefundCommit, OverlapInv, TypeOK
  <2>2. order' = order /\ txn' = [txn EXCEPT ![r] = NoTxn]
    BY <1>9 DEF RefundCommit
  <2>3. PlacedMeansUntouched' /\ CancelledIsOwed' /\ FinalStatusEarned'
    BY <2>1, <2>2 DEF OverlapInv, PlacedMeansUntouched, CancelledIsOwed, FinalStatusEarned
  <2>4. InFlightSound'
    <3>1. \A v \in Vendors : slice'[v].status \in {"shipped", "delivered"}
                                => slice'[v].tracking = "given"
      BY <2>1 DEF OverlapInv, InFlightSound
    <3>2. QED BY <2>1, <2>2, <3>1, OthersKept
  <2>5. QED BY <2>3, <2>4 DEF OverlapInv
<1>10. CASE UNCHANGED vars
  BY <1>10 DEF vars, OverlapInv, PlacedMeansUntouched, CancelledIsOwed,
               FinalStatusEarned, InFlightSound
<1>11. ASSUME NEW r \in Req, NEW x \in LockRows, CancelLock(r, x) PROVE OverlapInv'
  <2>1. /\ txn' = [txn EXCEPT ![r] = WithLock(txn[r], x)]
        /\ UNCHANGED <<order, slice, issued>>
        /\ txn[r].op = "cancel" /\ txn[r].phase = "checked"
    BY <1>11 DEF CancelLock
  <2>2. txn[r] \in Txn /\ (txn[r].seen # "placed" => order # "placed")
    BY DEF OverlapInv, TypeOK, InFlightSound
  <2>3. InFlightSound'
    BY <2>1, <2>2, LockedFields, SlotReplaced
  <2>4. QED BY <2>1, <2>3, RowsKept DEF OverlapInv
<1>12. QED
  BY <1>1, <1>2, <1>3, <1>4, <1>5, <1>6, <1>7, <1>8, <1>9, <1>10, <1>11,
     AskedAssumption DEF Next, Submit, Proceed

\* The invariant holds of every behaviour, with any number of requests in
\* flight on the order.
THEOREM OverlapSafe == Spec => []OverlapInv
<1>1. Init => OverlapInv
  <2>1. Init => TypeOK
    BY InitTyped
  <2>2. Init => PlacedMeansUntouched /\ CancelledIsOwed /\ FinalStatusEarned
    BY DEF Init, PlacedMeansUntouched, CancelledIsOwed, FinalStatusEarned
  <2>3. Init => InFlightSound
    BY EmptyFields DEF Init, InFlightSound
  <2>4. QED BY <2>1, <2>2, <2>3 DEF OverlapInv
<1>2. OverlapInv /\ TypeOK' /\ [Next]_vars => OverlapInv'
  BY OverlapStep
<1>3. QED BY <1>1, <1>2, TypeCorrect, PTL DEF Spec

\* The order reads "placed" exactly while no vendor has touched its slice,
\* for any number of vendors and overlapping requests.
THEOREM PlacedIsUntouched == Spec => []PlacedMeansUntouched
<1>1. OverlapInv => PlacedMeansUntouched
  BY DEF OverlapInv
<1>2. QED BY <1>1, OverlapSafe, PTL

\* A cancelled slice owes or has paid the total of the vendor's lines.
THEOREM CancelledOwes == Spec => []CancelledIsOwed
<1>1. OverlapInv => CancelledIsOwed
  BY DEF OverlapInv
<1>2. QED BY <1>1, OverlapSafe, PTL

\* A final order status was earned by every slice.
THEOREM FinalIsEarned == Spec => []FinalStatusEarned
<1>1. OverlapInv => FinalStatusEarned
  BY DEF OverlapInv
<1>2. QED BY <1>1, OverlapSafe, PTL

-----------------------------------------------------------------------------
(* What is owed stays owed.                                                *)

\* A refund, once opened, is of the full total, and a request that issues one
\* has seen it opened.
OwedInv ==
    /\ \A v \in Vendors : slice[v].refund # "none" => slice[v].amount = LineTotal[v]
    /\ \A r \in Req : txn[r].op = "refund" => \A v \in txn[r].rows : slice[v].refund # "none"

\* What a step leaves of what slice v owes and how it was shipped.
OwedKept(v) ==
    /\ slice[v].refund # "none" => slice'[v].refund # "none"
    /\ slice[v].tracking = "given" => slice'[v].tracking = "given"
    /\ slice'[v].refund # "none" => slice'[v].amount = LineTotal[v]

LEMMA StepKeepsOwed ==
    ASSUME OverlapInv, OwedInv, [Next]_vars, NEW v \in Vendors
    PROVE  OwedKept(v)
<1>0. /\ TypeOK /\ slice[v] \in VendorFulfilmentRow
      /\ "cancelled" \in SliceStatus /\ "none" \in Tracking
      /\ slice[v].refund # "none" => slice[v].amount = LineTotal[v]
  BY DEF OverlapInv, TypeOK, SliceStatus, Tracking, OwedInv
<1>1. CASE UNCHANGED slice
  BY <1>0, <1>1 DEF OwedKept
<1>2. ASSUME NEW r \in Req, AdvanceCommit(r) PROVE OwedKept(v)
  <2>1. slice'[v] = IF v \in txn[r].rows
                    THEN Written(slice[v], v, txn[r].to, txn[r].tracked) ELSE slice[v]
    BY <1>2 DEF AdvanceCommit
  <2>2. /\ txn[r].to \in SliceStatus /\ txn[r].tracked \in Tracking
        /\ txn[r].to = "shipped" => txn[r].tracked = "given"
    BY <1>0, <1>2 DEF TypeOK, Txn, AdvanceCommit, OverlapInv, InFlightSound
  <2>3. QED BY <1>0, <2>1, <2>2, WrittenColumns DEF OwedKept
<1>3. ASSUME NEW r \in Req, CancelCommit(r) PROVE OwedKept(v)
  <2>1. slice'[v] = Written(slice[v], v, "cancelled", "none")
    BY <1>3 DEF CancelCommit
  <2>2. QED BY <1>0, <2>1, WrittenColumns DEF OwedKept
<1>4. ASSUME NEW r \in Req, RefundCommit(r) PROVE OwedKept(v)
  <2>1. slice'[v] = IF v \in txn[r].rows THEN Refunded(slice[v]) ELSE slice[v]
    BY <1>4 DEF RefundCommit
  <2>2. v \in txn[r].rows => slice[v].refund # "none"
    BY <1>4 DEF RefundCommit, OwedInv
  <2>3. QED BY <1>0, <2>1, <2>2, RefundedColumns DEF OwedKept
<1>5. QED
  BY <1>1, <1>2, <1>3, <1>4
     DEF Next, Submit, Proceed, vars, LoadOrder, RefundCheck, AdvanceCheck, AdvanceReject,
         AdvanceFlush, CancelCheck, CancelReject, CancelLock, Abort

\* A request that issues a refund is put in place by its check, which sees the
\* refund pending; any other step leaves it as it is.
LEMMA RefundRequests ==
    ASSUME TypeOK, [Next]_vars, NEW q \in Req, txn'[q].op = "refund"
    PROVE  \/ txn'[q] = txn[q]
           \/ \A v \in txn'[q].rows : slice[v].refund # "none"
<1>1. ASSUME NEW r \in Req, NEW v \in Vendors, RefundCheck(r, v), q = r
      PROVE  \A u \in txn'[q].rows : slice[u].refund # "none"
  <2>1. Checked(NoTxn, "refund", {v}, "cancelled", "none").rows = {v}
    <3>1. {v} \in SUBSET Vendors /\ "cancelled" \in SliceStatus /\ "none" \in Tracking
      BY DEF SliceStatus, Tracking
    <3>2. QED BY <3>1, EmptyFields, CheckedFields
  <2>2. QED BY <1>1, <2>1 DEF RefundCheck, TypeOK
<1>2. ASSUME NEW r \in Req, q # r,
             Submit(r) \/ Proceed(r) \/ Abort(r)
      PROVE  txn'[q] = txn[q]
  BY <1>2 DEF TypeOK, Submit, Proceed, Abort, LoadOrder, RefundCheck, AdvanceCheck,
     AdvanceReject, AdvanceFlush, AdvanceCommit, CancelCheck, CancelReject, CancelLock,
     CancelCommit, RefundCommit
<1>3. ASSUME LoadOrder(q) PROVE txn'[q].op = "none"
  BY <1>3, LoadedFields DEF LoadOrder, TypeOK
<1>4. ASSUME NEW v \in Vendors, NEW to \in SliceStatus, NEW tracked \in Tracking,
             AdvanceCheck(q, v, to, tracked)
      PROVE  txn'[q].op = "advance"
  <2>1. {v} \in SUBSET Vendors /\ txn[q] \in Txn
    BY DEF TypeOK
  <2>2. QED BY <1>4, <2>1, CheckedFields DEF AdvanceCheck, TypeOK
<1>5. ASSUME CancelCheck(q) PROVE txn'[q].op = "cancel"
  <2>1. txn[q] \in Txn /\ "cancelled" \in SliceStatus /\ "none" \in Tracking
    BY DEF TypeOK, SliceStatus, Tracking
  <2>2. QED BY <1>5, <2>1, CheckedFields DEF CancelCheck, TypeOK
<1>6. ASSUME AdvanceFlush(q) PROVE txn'[q].op = "advance"
  BY <1>6, FlushKeeps
<1>7. ASSUME NEW x \in LockRows, CancelLock(q, x) PROVE txn'[q].op = "cancel"
  BY <1>7, LockedFields DEF CancelLock, TypeOK
<1>8. ASSUME \/ AdvanceReject(q) \/ AdvanceCommit(q) \/ CancelReject(q)
             \/ CancelCommit(q) \/ RefundCommit(q) \/ Abort(q)
      PROVE  txn'[q].op = "none"
  BY <1>8, EmptyFields DEF TypeOK, AdvanceReject, AdvanceCommit, CancelReject,
     CancelCommit, RefundCommit, Abort
<1>9. CASE UNCHANGED vars
  BY <1>9 DEF vars
<1>10. QED
  BY <1>1, <1>2, <1>3, <1>4, <1>5, <1>6, <1>7, <1>8, <1>9, AskedAssumption
     DEF Next, Submit, Proceed

THEOREM OwedInvHolds == Spec => []OwedInv
<1>1. Init => OwedInv
  BY EmptyFields DEF Init, OwedInv
<1>2. OverlapInv /\ TypeOK' /\ OwedInv /\ [Next]_vars => OwedInv'
  <2> SUFFICES ASSUME OverlapInv, TypeOK', OwedInv, [Next]_vars PROVE OwedInv'
    OBVIOUS
  <2>1. \A v \in Vendors : OwedKept(v)
    BY StepKeepsOwed
  <2>2. ASSUME NEW q \in Req, txn'[q].op = "refund", NEW v \in txn'[q].rows
        PROVE  slice'[v].refund # "none"
    <3>1. v \in Vendors
      BY DEF TypeOK, Txn
    <3>2. slice[v].refund # "none"
      BY <2>2, RefundRequests DEF OverlapInv, OwedInv
    <3>3. QED BY <2>1, <3>1, <3>2 DEF OwedKept
  <2>3. QED BY <2>1, <2>2 DEF OwedInv, OwedKept
<1>3. QED BY <1>1, <1>2, OverlapSafe, TypeCorrect, PTL DEF Spec

\* Whatever overlaps, a slice that owes a refund goes on owing it in full, and
\* a shipped slice keeps its tracking number.
THEOREM OwedIsKept == Spec => OwedStays
<1>1. OverlapInv /\ OwedInv /\ [Next]_vars
      => [\A v \in Vendors :
            /\ slice[v].refund # "none" =>
                  slice'[v].refund # "none" /\ slice'[v].amount = LineTotal[v]
            /\ slice[v].tracking = "given" => slice'[v].tracking = "given"]_vars
  BY StepKeepsOwed DEF OwedKept
<1>2. QED BY <1>1, OverlapSafe, OwedInvHolds, PTL DEF Spec, OwedStays

-----------------------------------------------------------------------------
(* Row locks.                                                              *)

\* A vendor's request has its slice from the flush on, a refund nothing.
LockSound(t) ==
    /\ t.phase = "loaded" => t.held = {}
    /\ t.op # "cancel" => IF t.phase = "flushed" THEN t.held \subseteq Vendors ELSE t.held = {}

LockInv == \A r \in Req : LockSound(txn[r])

THEOREM LockInvHolds == Spec => []LockInv
<1>1. Init => LockInv
  BY EmptyFields DEF Init, LockInv, LockSound
<1>2. TypeOK /\ InFlightSound /\ LockInv /\ [Next]_vars => LockInv'
  <2> SUFFICES ASSUME TypeOK, InFlightSound, LockInv, [Next]_vars, NEW q \in Req
               PROVE  LockSound(txn'[q])
    BY DEF LockInv
  <2>1. CASE txn'[q] = txn[q]
    BY <2>1 DEF LockInv
  <2>2. ASSUME NEW r \in Req, q # r, Submit(r) \/ Proceed(r) \/ Abort(r)
        PROVE  txn'[q] = txn[q]
    BY <2>2 DEF TypeOK, Submit, Proceed, Abort, LoadOrder, RefundCheck, AdvanceCheck,
       AdvanceReject, AdvanceFlush, AdvanceCommit, CancelCheck, CancelReject, CancelLock,
       CancelCommit, RefundCommit
  <2>3. ASSUME LoadOrder(q) PROVE LockSound(txn'[q])
    BY <2>3, LoadedFields DEF LoadOrder, TypeOK, LockSound
  <2>4. ASSUME NEW v \in Vendors, RefundCheck(q, v) PROVE LockSound(txn'[q])
    <3>1. {v} \in SUBSET Vendors /\ "cancelled" \in SliceStatus /\ "none" \in Tracking
      BY DEF SliceStatus, Tracking
    <3>2. /\ Checked(NoTxn, "refund", {v}, "cancelled", "none").phase = "checked"
          /\ Checked(NoTxn, "refund", {v}, "cancelled", "none").held = {}
      BY <3>1, EmptyFields, CheckedFields
    <3>3. QED BY <2>4, <3>2 DEF RefundCheck, TypeOK, LockSound
  <2>5. ASSUME NEW v \in Vendors, NEW to \in SliceStatus, NEW tracked \in Tracking,
               AdvanceCheck(q, v, to, tracked)
        PROVE  LockSound(txn'[q])
    <3>1. {v} \in SUBSET Vendors /\ txn[q] \in Txn
      BY DEF TypeOK
    <3>2. txn[q].held = {}
      BY <2>5 DEF AdvanceCheck, LockInv, LockSound
    <3>3. QED BY <2>5, <3>1, <3>2, CheckedFields DEF AdvanceCheck, TypeOK, LockSound
  <2>6. ASSUME AdvanceFlush(q) PROVE LockSound(txn'[q])
    BY <2>6, FlushKeeps DEF LockSound
  <2>7. ASSUME \/ AdvanceReject(q) \/ AdvanceCommit(q) \/ CancelReject(q)
               \/ CancelCommit(q) \/ RefundCommit(q) \/ Abort(q)
        PROVE  LockSound(txn'[q])
    BY <2>7, EmptyFields DEF TypeOK, AdvanceReject, AdvanceCommit, CancelReject,
       CancelCommit, RefundCommit, Abort, LockSound
  <2>8. ASSUME CancelCheck(q) PROVE LockSound(txn'[q])
    <3>1. txn[q] \in Txn /\ "cancelled" \in SliceStatus /\ "none" \in Tracking
      BY DEF TypeOK, SliceStatus, Tracking
    <3>2. QED BY <2>8, <3>1, CheckedFields DEF CancelCheck, TypeOK, LockSound
  <2>9. ASSUME NEW x \in LockRows, CancelLock(q, x) PROVE LockSound(txn'[q])
    BY <2>9, LockedFields DEF CancelLock, TypeOK, LockSound
  <2>10. CASE UNCHANGED vars
    BY <2>1, <2>10 DEF vars
  <2>11. QED
    BY <2>1, <2>2, <2>3, <2>4, <2>5, <2>6, <2>7, <2>8, <2>9, <2>10, AskedAssumption
       DEF Next, Submit, Proceed
<1>3. OverlapInv => InFlightSound
  BY DEF OverlapInv
<1>4. QED BY <1>1, <1>2, <1>3, OverlapSafe, TypeCorrect, PTL DEF Spec

\* Whenever requests wait for each other in a circle, one of them is a buyer's
\* cancellation, for any number of vendors and requests.
THEOREM DeadlocksHaveCancel == Spec => []DeadlockHasCancel
<1>1. TypeOK /\ InFlightSound /\ LockInv => DeadlockHasCancel
  <2> SUFFICES ASSUME TypeOK, InFlightSound, LockInv, NEW D \in SUBSET Req,
                      Deadlocked(D), \A r \in D : txn[r].op # "cancel"
               PROVE  FALSE
    BY DEF DeadlockHasCancel
  <2>1. \A r \in D : "order" \notin txn[r].held
    BY OrderRowAssumption DEF LockInv, LockSound
  <2>2. ASSUME NEW r \in D, txn[r].phase = "flushed" PROVE FALSE
    <3>1. txn[r].op = "advance"
      BY <2>2 DEF InFlightSound
    <3>2. PICK x \in Wants(r) : \E q \in D : x \in txn[q].held
      BY DEF Deadlocked
    <3>3. x = "order"
      BY <2>2, <3>1, <3>2 DEF Wants
    <3>4. QED BY <2>1, <3>2, <3>3
  <2>3. \A r \in D : txn[r].held = {}
    BY <2>2 DEF LockInv, LockSound
  <2>4. QED BY <2>3 DEF Deadlocked
<1>2. OverlapInv => InFlightSound
  BY DEF OverlapInv
<1>3. QED BY <1>1, <1>2, OverlapSafe, TypeCorrect, LockInvHolds, PTL

-----------------------------------------------------------------------------
(* One request at a time.                                                  *)

\* Without overlap a request knows the rows as they are: the order it loaded,
\* the slices its guard was evaluated on, and the roll-up it will commit.
RollupNow == order = Rollup(Statuses)

RefundsNow ==
    \A v \in Vendors :
        /\ slice[v].refund # "none" <=> slice[v].status = "cancelled"
        /\ issued[v] = IF slice[v].refund = "refunded" THEN 1 ELSE 0

SerialInv ==
    /\ TypeOK
    /\ RollupNow
    /\ RefundsNow
    /\ \A r, q \in Req : txn[r] # NoTxn /\ txn[q] # NoTxn => r = q
    /\ \A r \in Req :
          /\ txn[r].phase # "idle" /\ txn[r].op # "refund" => txn[r].seen = order
          /\ txn[r].phase = "loaded" => txn[r].op = "none"
          /\ txn[r].op = "advance" =>
                \A v \in txn[r].rows :
                    txn[r].to \in FULFILMENT_TRANSITIONS[slice[v].status]
          /\ txn[r].op = "cancel" => \A v \in Vendors : slice[v].status = "placed"
          /\ txn[r].op = "refund" =>
                \A v \in txn[r].rows :
                    slice[v].status = "cancelled" /\ slice[v].refund = "pending"
          /\ txn[r].phase = "flushed" =>
                txn[r].rollup = Rollup([v \in Vendors |->
                    IF v \in txn[r].rows THEN txn[r].to ELSE slice[v].status])

\* No other request than r is in flight.
Alone(r) == \A q \in Req : q # r => txn[q] = NoTxn

\* Committing leaves the only slot empty, so only rows are left to speak of.
LEMMA SlotEmptied ==
    ASSUME TypeOK, TypeOK', RollupNow', RefundsNow',
           NEW r \in Req, txn' = [txn EXCEPT ![r] = NoTxn], Alone(r)
    PROVE  SerialInv'
<1>1. \A q \in Req : txn'[q] = NoTxn
  BY DEF Alone, TypeOK
<1>2. QED BY <1>1, EmptyFields DEF SerialInv

\* A new or updated request in the only slot, with rows as they are.
LEMMA SlotFilled ==
    ASSUME SerialInv, TypeOK', UNCHANGED <<order, slice, issued>>,
           NEW r \in Req, NEW t \in Txn, txn' = [txn EXCEPT ![r] = t], Alone(r),
           t.phase # "idle" /\ t.op # "refund" => t.seen = order,
           t.phase = "loaded" => t.op = "none",
           t.op = "advance" =>
              \A v \in t.rows : t.to \in FULFILMENT_TRANSITIONS[slice[v].status],
           t.op = "cancel" => \A v \in Vendors : slice[v].status = "placed",
           t.op = "refund" =>
              \A v \in t.rows : slice[v].status = "cancelled" /\ slice[v].refund = "pending",
           t.phase = "flushed" =>
              t.rollup = Rollup([v \in Vendors |->
                            IF v \in t.rows THEN t.to ELSE slice[v].status])
    PROVE  SerialInv'
<1>1. \A q \in Req : txn'[q] = IF q = r THEN t ELSE NoTxn
  BY DEF Alone, SerialInv, TypeOK
<1>2. RollupNow' /\ RefundsNow'
  BY DEF SerialInv, RollupNow, RefundsNow, Statuses
<1>3. slice' = slice /\ order' = order
  OBVIOUS
<1>4. QED BY <1>1, <1>2, <1>3, EmptyFields DEF SerialInv

\* The invariant of non-overlapping requests is inductive.
LEMMA SerialStep ==
    ASSUME SerialInv, TypeOK', [Next]_vars, ~overlapped'
    PROVE  SerialInv'
<1> USE VendorsAssumption, LineTotalAssumption
<1>0. TypeOK
  BY DEF SerialInv
<1>01. ASSUME NEW r \in Req, Submit(r) PROVE Alone(r)
  BY <1>01 DEF Submit, Alone
<1>02. ASSUME NEW r \in Req, txn[r] # NoTxn PROVE Alone(r)
  BY <1>02 DEF SerialInv, Alone
<1>1. ASSUME NEW r \in Req, LoadOrder(r), Alone(r) PROVE SerialInv'
  <2>1. txn' = [txn EXCEPT ![r] = Loaded(order)] /\ UNCHANGED <<order, slice, issued>>
    BY <1>1 DEF LoadOrder
  <2>2. order \in OrderStatus
    BY <1>0 DEF TypeOK
  <2>3. QED BY <1>1, <2>1, <2>2, LoadedFields, SlotFilled
<1>2. ASSUME NEW r \in Req, NEW v \in Vendors, RefundCheck(r, v), Alone(r) PROVE SerialInv'
  <2> DEFINE t == Checked(NoTxn, "refund", {v}, "cancelled", "none")
  <2>1. t \in Txn /\ t.op = "refund" /\ t.phase = "checked" /\ t.rows = {v}
    <3>1. {v} \in SUBSET Vendors /\ "cancelled" \in SliceStatus /\ "none" \in Tracking
      BY DEF SliceStatus, Tracking
    <3>2. QED BY <3>1, EmptyFields, CheckedFields
  <2>2. /\ txn' = [txn EXCEPT ![r] = t] /\ UNCHANGED <<order, slice, issued>>
        /\ slice[v].status = "cancelled" /\ slice[v].refund = "pending"
    BY <1>2 DEF RefundCheck
  <2> HIDE DEF t
  <2>3. QED BY <1>2, <2>1, <2>2, SlotFilled
<1>3. ASSUME NEW r \in Req, NEW v \in Vendors, NEW to \in SliceStatus,
             NEW tracked \in Tracking, AdvanceCheck(r, v, to, tracked)
      PROVE  SerialInv'
  <2>0. Alone(r)
    BY <1>02, <1>3, EmptyFields DEF AdvanceCheck
  <2> DEFINE t == Checked(txn[r], "advance", {v}, to, tracked)
  <2>1. /\ t \in Txn /\ t.op = "advance" /\ t.phase = "checked"
        /\ t.rows = {v} /\ t.to = to /\ t.seen = txn[r].seen
    <3>1. {v} \in SUBSET Vendors /\ txn[r] \in Txn
      BY <1>0 DEF TypeOK
    <3>2. QED BY <3>1, CheckedFields
  <2>2. /\ txn' = [txn EXCEPT ![r] = t] /\ UNCHANGED <<order, slice, issued>>
        /\ to \in FULFILMENT_TRANSITIONS[slice[v].status]
        /\ txn[r].phase = "loaded"
    BY <1>3 DEF AdvanceCheck, MayAdvance
  <2>3. txn[r].seen = order
    BY <2>2 DEF SerialInv
  <2> HIDE DEF t
  <2>4. QED BY <2>0, <2>1, <2>2, <2>3, SlotFilled
<1>4. ASSUME NEW r \in Req, AdvanceReject(r) \/ CancelReject(r) \/ Abort(r)
      PROVE  SerialInv'
  <2>0. Alone(r)
    BY <1>02, <1>4, EmptyFields DEF AdvanceReject, CancelReject, Abort
  <2>1. txn' = [txn EXCEPT ![r] = NoTxn] /\ UNCHANGED <<order, slice, issued>>
    BY <1>4 DEF AdvanceReject, CancelReject, Abort
  <2>2. QED BY <2>0, <2>1, EmptyFields, SlotFilled
<1>5. ASSUME NEW r \in Req, AdvanceFlush(r) PROVE SerialInv'
  <2>0. Alone(r)
    BY <1>02, <1>5, EmptyFields DEF AdvanceFlush
  <2> DEFINE st == [v \in Vendors |->
                      IF v \in txn[r].rows THEN txn[r].to ELSE slice[v].status]
             t == Flushed(txn[r], Rollup(st))
  <2>1. /\ t \in Txn /\ t.op = txn[r].op /\ t.phase = "flushed"
        /\ t.rows = txn[r].rows /\ t.to = txn[r].to
        /\ t.seen = txn[r].seen /\ t.rollup = Rollup(st)
    <3>1. Rollup(st) \in OrderStatus /\ txn[r] \in Txn
      BY <1>0, RollupMeaning DEF TypeOK
    <3> HIDE DEF st
    <3>2. QED BY <3>1, FlushedFields
  <2>2. /\ txn' = [txn EXCEPT ![r] = t] /\ UNCHANGED <<order, slice, issued>>
        /\ txn[r].op = "advance" /\ txn[r].phase = "checked"
    BY <1>5 DEF AdvanceFlush
  <2>3. /\ txn[r].seen = order
        /\ \A v \in txn[r].rows : txn[r].to \in FULFILMENT_TRANSITIONS[slice[v].status]
    BY <2>2 DEF SerialInv
  <2>4. t.rollup = Rollup([v \in Vendors |->
                      IF v \in t.rows THEN t.to ELSE slice[v].status])
    BY <2>1
  <2> HIDE DEF t, st
  <2>5. QED BY <2>0, <2>1, <2>2, <2>3, <2>4, SlotFilled
<1>6. ASSUME NEW r \in Req, AdvanceCommit(r) PROVE SerialInv'
  <2>0. Alone(r)
    BY <1>02, <1>6, EmptyFields DEF AdvanceCommit
  <2>1. /\ txn[r].op = "advance" /\ txn[r].phase = "flushed"
        /\ txn[r].to \in SliceStatus /\ txn[r].tracked \in Tracking
        /\ txn' = [txn EXCEPT ![r] = NoTxn] /\ issued' = issued
        /\ order' = (IF txn[r].rollup = txn[r].seen THEN order ELSE txn[r].rollup)
    BY <1>0, <1>6 DEF AdvanceCommit, OrderWritten, TypeOK, Txn
  <2>2. \A v \in Vendors :
           /\ slice[v] \in VendorFulfilmentRow
           /\ slice'[v] = IF v \in txn[r].rows
                          THEN Written(slice[v], v, txn[r].to, txn[r].tracked)
                          ELSE slice[v]
    BY <1>0, <1>6 DEF AdvanceCommit, TypeOK
  <2>3. \A v \in Vendors :
           IF v \in txn[r].rows
           THEN /\ slice'[v].status = txn[r].to
                /\ slice'[v].refund =
                      IF txn[r].to = "cancelled" THEN "pending" ELSE slice[v].refund
           ELSE slice'[v] = slice[v]
    BY <2>1, <2>2, WrittenColumns
  <2>4. RollupNow'
    <3>1. order' = txn[r].rollup
      BY <2>1 DEF SerialInv
    <3>2. txn[r].rollup = Rollup([v \in Vendors |->
                    IF v \in txn[r].rows THEN txn[r].to ELSE slice[v].status])
      BY <2>1 DEF SerialInv
    <3>3. Statuses' = [v \in Vendors |->
                    IF v \in txn[r].rows THEN txn[r].to ELSE slice[v].status]
      BY <2>3 DEF Statuses
    <3>4. QED BY <3>1, <3>2, <3>3 DEF RollupNow
  <2>5. RefundsNow'
    <3>1. ASSUME NEW v \in Vendors, v \in txn[r].rows
          PROVE  slice[v].status # "cancelled" /\ slice[v].refund = "none" /\ issued[v] = 0
      <4>1. txn[r].to \in FULFILMENT_TRANSITIONS[slice[v].status]
        BY <2>1, <3>1 DEF SerialInv
      <4>2. slice[v].status \in SliceStatus
        BY <2>2 DEF VendorFulfilmentRow
      <4>3. slice[v].status # "cancelled"
        BY <4>1, <4>2 DEF FULFILMENT_TRANSITIONS
      <4>4. QED BY <4>3 DEF SerialInv, RefundsNow
    <3>2. \A v \in Vendors \ txn[r].rows : slice'[v] = slice[v]
      BY <2>3
    <3>3. QED BY <2>1, <2>3, <3>1, <3>2 DEF SerialInv, RefundsNow
  <2>6. QED BY <1>0, <2>0, <2>1, <2>4, <2>5, SlotEmptied
<1>7. ASSUME NEW r \in Req, CancelCheck(r) PROVE SerialInv'
  <2>0. Alone(r)
    BY <1>02, <1>7, EmptyFields DEF CancelCheck
  <2> DEFINE t == Checked(txn[r], "cancel", Vendors, "cancelled", "none")
  <2>1. t \in Txn /\ t.op = "cancel" /\ t.phase = "checked" /\ t.seen = txn[r].seen
    <3>1. txn[r] \in Txn /\ "cancelled" \in SliceStatus /\ "none" \in Tracking
      BY <1>0 DEF TypeOK, SliceStatus, Tracking
    <3>2. QED BY <3>1, CheckedFields
  <2>2. /\ txn' = [txn EXCEPT ![r] = t] /\ UNCHANGED <<order, slice, issued>>
        /\ txn[r].phase = "loaded"
        /\ \A v \in Vendors : slice[v].status = "placed"
    BY <1>7 DEF CancelCheck, MayCancel
  <2>3. txn[r].seen = order
    BY <2>2 DEF SerialInv
  <2> HIDE DEF t
  <2>4. QED BY <2>0, <2>1, <2>2, <2>3, SlotFilled
<1>8. ASSUME NEW r \in Req, CancelCommit(r) PROVE SerialInv'
  <2>0. Alone(r)
    BY <1>02, <1>8, EmptyFields DEF CancelCommit
  <2>1. /\ txn[r].op = "cancel" /\ txn[r].phase = "checked"
        /\ txn' = [txn EXCEPT ![r] = NoTxn] /\ issued' = issued
        /\ order' = (IF "cancelled" = txn[r].seen THEN order ELSE "cancelled")
    BY <1>8 DEF CancelCommit, OrderWritten
  <2>2. \A v \in Vendors :
           slice'[v].status = "cancelled" /\ slice'[v].refund = "pending"
    <3>1. "cancelled" \in SliceStatus /\ "none" \in Tracking
      BY DEF SliceStatus, Tracking
    <3>2. \A v \in Vendors :
             /\ slice[v] \in VendorFulfilmentRow
             /\ slice'[v] = Written(slice[v], v, "cancelled", "none")
      BY <1>0, <1>8 DEF CancelCommit, TypeOK
    <3>3. QED BY <3>1, <3>2, WrittenColumns
  <2>3. RollupNow'
    <3>1. order' = "cancelled"
      BY <2>1 DEF SerialInv
    <3>2. \A v \in Vendors : Statuses'[v] = "cancelled"
      BY <2>2 DEF Statuses
    <3>3. QED BY <3>1, <3>2 DEF RollupNow, Rollup
  <2>4. RefundsNow'
    BY <2>1, <2>2 DEF SerialInv, RefundsNow
  <2>5. QED BY <1>0, <2>0, <2>1, <2>3, <2>4, SlotEmptied
<1>9. ASSUME NEW r \in Req, RefundCommit(r) PROVE SerialInv'
  <2>0. Alone(r)
    BY <1>02, <1>9, EmptyFields DEF RefundCommit
  <2>1. /\ txn[r].op = "refund" /\ order' = order
        /\ txn' = [txn EXCEPT ![r] = NoTxn]
    BY <1>9 DEF RefundCommit
  <2>2. \A v \in Vendors :
           IF v \in txn[r].rows
           THEN /\ slice'[v].status = slice[v].status
                /\ slice'[v].refund = "refunded" /\ issued'[v] = issued[v] + 1
           ELSE slice'[v] = slice[v] /\ issued'[v] = issued[v]
    BY <1>0, <1>9, RefundedColumns DEF RefundCommit, TypeOK
  <2>3. RollupNow'
    <3>1. Statuses' = Statuses
      BY <2>2 DEF Statuses
    <3>2. QED BY <2>1, <3>1 DEF SerialInv, RollupNow
  <2>4. RefundsNow'
    <3>1. ASSUME NEW v \in txn[r].rows
          PROVE  slice[v].status = "cancelled" /\ slice[v].refund = "pending"
      BY <2>1 DEF SerialInv
    <3>2. \A v \in Vendors : issued[v] = IF slice[v].refund = "refunded" THEN 1 ELSE 0
      BY DEF SerialInv, RefundsNow
    <3>3. \A v \in Vendors : v \in txn[r].rows => issued'[v] = 1
      BY <2>2, <3>1, <3>2
    <3>4. QED BY <2>2, <3>1, <3>3 DEF SerialInv, RefundsNow
  <2>5. QED BY <1>0, <2>0, <2>1, <2>3, <2>4, SlotEmptied
<1>10. CASE UNCHANGED vars
  <2>1. RollupNow' /\ RefundsNow'
    BY <1>10 DEF vars, SerialInv, RollupNow, RefundsNow, Statuses
  <2>2. QED BY <1>10, <2>1 DEF vars, SerialInv
<1>11. ASSUME NEW r \in Req, NEW x \in LockRows, CancelLock(r, x) PROVE SerialInv'
  <2>0. Alone(r)
    BY <1>02, <1>11, EmptyFields DEF CancelLock
  <2>1. /\ txn' = [txn EXCEPT ![r] = WithLock(txn[r], x)]
        /\ UNCHANGED <<order, slice, issued>>
        /\ txn[r].op = "cancel" /\ txn[r].phase = "checked"
    BY <1>11 DEF CancelLock
  <2>2. /\ txn[r] \in Txn /\ txn[r].seen = order
        /\ \A v \in Vendors : slice[v].status = "placed"
    BY <1>0, <2>1 DEF TypeOK, SerialInv
  <2>3. QED BY <2>0, <2>1, <2>2, LockedFields, SlotFilled
<1>12. QED
  BY <1>01, <1>1, <1>2, <1>3, <1>4, <1>5, <1>6, <1>7, <1>8, <1>9, <1>10, <1>11,
     AskedAssumption DEF Next, Submit, Proceed

\* Nothing that ends an overlap makes requests that overlapped forgotten.
LEMMA OverlapKept == [Next]_vars /\ ~overlapped' => ~overlapped
BY DEF Next, Submit, Proceed, Abort, vars

\* As long as requests on the order have not overlapped, the invariant holds.
THEOREM SerialInvHolds == Spec => [](~overlapped => SerialInv)
<1>1. Init => SerialInv
  <2>1. Init => TypeOK
    BY InitTyped
  <2>2. Init => RollupNow
    <3>1. ASSUME Init PROVE \A v \in Vendors : Statuses[v] = "placed"
      BY <3>1 DEF Init, Statuses
    <3>2. QED BY <3>1, VendorsAssumption DEF Init, RollupNow, Rollup
  <2>3. Init => RefundsNow
    BY DEF Init, RefundsNow
  <2>4. QED BY <2>1, <2>2, <2>3, EmptyFields DEF Init, SerialInv
<1>2. (~overlapped => SerialInv) /\ TypeOK' /\ [Next]_vars => (~overlapped => SerialInv)'
  BY SerialStep, OverlapKept
<1>3. QED BY <1>1, <1>2, TypeCorrect, PTL DEF Spec

\* When requests on an order do not overlap, its status is the roll-up of
\* its slices.
THEOREM RollupIsExact == Spec => []RollupExact
<1>1. (~overlapped => SerialInv) => RollupExact
  BY DEF SerialInv, RollupNow, RollupExact
<1>2. QED BY <1>1, SerialInvHolds, PTL

\* When requests on an order do not overlap, a slice has a refund exactly
\* when it is cancelled, and is refunded once.
THEOREM RefundedOnce == Spec => []RefundOncePerCancel
<1>1. (~overlapped => SerialInv) => RefundOncePerCancel
  BY DEF SerialInv, RefundsNow, RefundOncePerCancel
<1>2. QED BY <1>1, SerialInvHolds, PTL
=============================================================================
