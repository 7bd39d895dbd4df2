--------------------------- MODULE Returns_proofs ---------------------------
(***************************************************************************)
(* What holds of the returns of a line, for any number of returns and of   *)
(* requests: a refund has an amount, however requests interleave           *)
(* (AmountNamed), and requests that do not overlap pay each return what    *)
(* was approved, once (PaysOnce).                                          *)
(***************************************************************************)
EXTENDS Returns, TLAPS

LEMMA ColumnsApart ==
    /\ Status("order") \in Columns /\ Status("slice") \in Columns /\ Refund \in Columns
    /\ Status("order") # Status("slice") /\ Refund # Status("order") /\ Refund # Status("slice")
    /\ \A k \in ReturnIds :
          /\ Status(k) \in Columns /\ Amount(k) \in Columns
          /\ Status(k) \notin {Status("order"), Status("slice"), Refund}
          /\ Amount(k) \notin {Status("order"), Status("slice"), Refund}
          /\ \A j \in ReturnIds : Status(k) # Amount(j)
          /\ \A j \in ReturnIds : j # k => Status(k) # Status(j) /\ Amount(k) # Amount(j)
BY ReturnIdsAssumption DEF Columns, Status, Amount, Refund

-----------------------------------------------------------------------------
(* The inductive invariants.                                               *)

PaidOK ==
    /\ DOMAIN paid = ReturnIds \cup {"slice"}
    /\ \A k \in DOMAIN paid : paid[k] \in Nat

\* What a request in flight is going to write on the line's returns.  One that
\* approves has named an amount: it writes it, or found it there.
ReturnWrites(r) ==
    /\ Status("order") \notin DOMAIN writes[r] /\ Status("slice") \notin DOMAIN writes[r]
    /\ Refund \in DOMAIN writes[r] => writes[r][Refund] = "refunded"
    /\ \A k \in ReturnIds :
          /\ Amount(k) \in DOMAIN writes[r] =>
                writes[r][Amount(k)] \in 1 .. LineTotal
          /\ Status(k) \in DOMAIN writes[r] =>
                /\ writes[r][Status(k)] \in {"requested", "approved", "rejected", "refunded"}
                /\ writes[r][Status(k)] \in {"approved", "refunded"} =>
                      db[Amount(k)] > 0 \/ Amount(k) \in DOMAIN writes[r]

Inv ==
    /\ RefundHasAmount
    /\ PaidOK
    /\ DOMAIN writes = Req
    /\ \A r \in Req : ReturnWrites(r)

\* What is owed on return k, by what its row says.
Owed(rows, k) == IF rows[Status(k)] = "refunded" THEN rows[Amount(k)] ELSE 0

OneRequested(rows) ==
    \A j, k \in ReturnIds :
        rows[Status(j)] = "requested" /\ rows[Status(k)] = "requested" => j = k

\* Requests that do not overlap: each is going to pay what its rows then owe.
SerialInv ==
    /\ Alone
    /\ ~overlapped =>
         /\ \A k \in ReturnIds : paid[k] = Owed(db, k)
         /\ OneRequested(db)
         /\ \A r \in Req :
              /\ \A k \in ReturnIds : Owed(After(r), k) = paid[k] + Pays(r, k)
              /\ OneRequested(After(r))

-----------------------------------------------------------------------------
(* What a handler leaves.                                                  *)

\* The rows that differ from db in the status and the amount of return k.
OnlyReturn(new, k, s, a) ==
    \A c \in Columns :
        new[c] = IF c = Status(k) THEN s ELSE IF c = Amount(k) THEN a ELSE db[c]

\* A decision or a refund that the rows allow.
Allowed(k, s, a) ==
    /\ s \in {"requested", "approved", "rejected", "refunded"}
    /\ a = db[Amount(k)] \/ (s = "approved" /\ a \in 1 .. LineTotal)
    /\ s \in {"approved", "refunded"} => a > 0
    /\ db[Status(k)] # "refunded"
    /\ s = "requested" => \A j \in ReturnIds : db[Status(j)] # "requested"

Handles(r) ==
    /\ UNCHANGED paid
    /\ \E new : /\ Begin(r, new)
                /\ \/ \E k \in ReturnIds : \E s, a : OnlyReturn(new, k, s, a) /\ Allowed(k, s, a)
                   \/ \A c \in Columns : new[c] = IF c = Refund THEN "refunded" ELSE db[c]

LEMMA RequestHandles ==
    ASSUME Inv, NEW r \in Req, NEW k \in ReturnIds, RequestReturn(r, k)
    PROVE  Handles(r)
<1>1. OnlyReturn(Opened(k), k, "requested", db[Amount(k)])
  BY ColumnsApart DEF OnlyReturn, Opened, Inv, RefundHasAmount, TypeOK
<1>2. Allowed(k, "requested", db[Amount(k)])
  BY DEF RequestReturn, Allowed, Fresh
<1> QED BY <1>1, <1>2 DEF RequestReturn, Handles

LEMMA ApproveHandles ==
    ASSUME Inv, NEW r \in Req, NEW k \in ReturnIds, NEW a \in 0 .. LineTotal + 1,
           ApproveReturn(r, k, a)
    PROVE  Handles(r)
<1>1. OnlyReturn(Approved(k, a), k, "approved", a)
  BY ColumnsApart DEF OnlyReturn, Approved, Inv, RefundHasAmount, TypeOK
<1>2. Allowed(k, "approved", a)
  BY LineTotalAssumption DEF ApproveReturn, Allowed
<1> QED BY <1>1, <1>2 DEF ApproveReturn, Handles

LEMMA RejectHandles ==
    ASSUME Inv, NEW r \in Req, NEW k \in ReturnIds, RejectReturn(r, k)
    PROVE  Handles(r)
<1> DEFINE new == [db EXCEPT ![Status(k)] = "rejected"]
<1>1. OnlyReturn(new, k, "rejected", db[Amount(k)])
  BY ColumnsApart DEF OnlyReturn, Inv, RefundHasAmount, TypeOK
<1>2. Allowed(k, "rejected", db[Amount(k)])
  BY DEF RejectReturn, Allowed
<1> QED BY <1>1, <1>2 DEF RejectReturn, Handles

LEMMA RefundHandles ==
    ASSUME Inv, NEW r \in Req, NEW k \in ReturnIds, IssueRefund(r, k)
    PROVE  Handles(r)
<1> DEFINE new == [db EXCEPT ![Status(k)] = "refunded"]
<1>1. OnlyReturn(new, k, "refunded", db[Amount(k)])
  BY ColumnsApart DEF OnlyReturn, Inv, RefundHasAmount, TypeOK
<1>2. Allowed(k, "refunded", db[Amount(k)])
  BY DEF IssueRefund, Allowed, Inv, RefundHasAmount
<1> QED BY <1>1, <1>2 DEF IssueRefund, Handles

LEMMA RejectRefundHandles ==
    ASSUME Inv, NEW r \in Req, IssueRejectRefund(r)
    PROVE  Handles(r)
<1> DEFINE new == [db EXCEPT ![Refund] = "refunded"]
<1>1. \A c \in Columns : new[c] = IF c = Refund THEN "refunded" ELSE db[c]
  BY DEF Inv, RefundHasAmount, TypeOK
<1> QED BY <1>1 DEF IssueRejectRefund, Handles

-----------------------------------------------------------------------------
(* However requests interleave.                                            *)

LEMMA HandlesKeeps ==
    ASSUME Inv, NEW r \in Req, Handles(r)
    PROVE  Inv'
<1> PICK new : /\ Begin(r, new)
               /\ \/ \E k \in ReturnIds : \E s, a : OnlyReturn(new, k, s, a) /\ Allowed(k, s, a)
                  \/ \A c \in Columns : new[c] = IF c = Refund THEN "refunded" ELSE db[c]
  BY DEF Handles
<1>1. /\ db' = db /\ overlapped' \in BOOLEAN
      /\ DOMAIN writes' = Req
      /\ DOMAIN writes'[r] = {c \in Columns : new[c] # db[c]}
      /\ \A c \in DOMAIN writes'[r] : writes'[r][c] = new[c]
      /\ \A q \in Req : q # r => writes'[q] = writes[q]
  BY BeginWrites DEF Inv
<1>2. paid' = paid BY DEF Handles
<1>3. RefundHasAmount' /\ PaidOK'
  BY <1>1, <1>2 DEF Inv, RefundHasAmount, TypeOK, PaidOK
<1>4. ReturnWrites(r)'
  <2>1. CASE \A c \in Columns : new[c] = IF c = Refund THEN "refunded" ELSE db[c]
    BY <2>1, <1>1, ColumnsApart DEF ReturnWrites
  <2>2. CASE \E k \in ReturnIds : \E s, a : OnlyReturn(new, k, s, a) /\ Allowed(k, s, a)
    <3> PICK k \in ReturnIds : \E s, a : OnlyReturn(new, k, s, a) /\ Allowed(k, s, a) BY <2>2
    <3> PICK s, a : OnlyReturn(new, k, s, a) /\ Allowed(k, s, a) OBVIOUS
    <3>1. DOMAIN writes'[r] \subseteq {Status(k), Amount(k)} BY <1>1 DEF OnlyReturn
    <3>2. Amount(k) \in DOMAIN writes'[r] => writes'[r][Amount(k)] \in 1 .. LineTotal
      BY <1>1, ColumnsApart DEF OnlyReturn, Allowed
    <3>3. Status(k) \in DOMAIN writes'[r] => writes'[r][Status(k)] = s
      BY <1>1, ColumnsApart DEF OnlyReturn
    <3>4. s \in {"approved", "refunded"} => db[Amount(k)] > 0 \/ Amount(k) \in DOMAIN writes'[r]
      <4>1. Amount(k) \in Columns /\ new[Amount(k)] = a BY ColumnsApart DEF OnlyReturn
      <4> QED BY <4>1, <1>1 DEF Allowed
    <3>5. ASSUME NEW j \in ReturnIds, j # k
          PROVE  Status(j) \notin DOMAIN writes'[r] /\ Amount(j) \notin DOMAIN writes'[r]
      BY <3>1, <3>5, ColumnsApart
    <3> QED BY <3>1, <3>2, <3>3, <3>4, <3>5, <1>1, ColumnsApart DEF ReturnWrites, Allowed
  <2> QED BY <2>1, <2>2
<1>5. ASSUME NEW q \in Req, q # r PROVE ReturnWrites(q)'
  BY <1>1, <1>5 DEF Inv, ReturnWrites
<1> QED BY <1>1, <1>3, <1>4, <1>5 DEF Inv

\* What a refund pays is a natural number.
LEMMA PaysNat ==
    ASSUME Inv, NEW r \in Req, NEW k \in DOMAIN paid
    PROVE  /\ Pays(r, k) \in Nat
           /\ k \in ReturnIds /\ Pays(r, k) > 0 => db[Amount(k)] > 0
BY LineTotalAssumption, ReturnIdsAssumption
   DEF Inv, PaidOK, RefundHasAmount, TypeOK, Pays

LEMMA CommitKeeps ==
    ASSUME Inv, NEW r \in Req, CommitRefund(r)
    PROVE  Inv'
<1>1. /\ DOMAIN db' = Columns /\ overlapped' = overlapped
      /\ \A c \in Columns : db'[c] = IF c \in DOMAIN writes[r] THEN writes[r][c] ELSE db[c]
      /\ DOMAIN writes' = Req
      /\ DOMAIN writes'[r] = {}
      /\ \A q \in Req : q # r => writes'[q] = writes[q]
  BY CommitWrites DEF Inv, CommitRefund
<1>2. DOMAIN paid' = DOMAIN paid /\ \A k \in DOMAIN paid : paid'[k] = paid[k] + Pays(r, k)
  BY DEF CommitRefund
<1>3. PaidOK' BY <1>2, PaysNat DEF Inv, PaidOK
<1>4. ASSUME NEW k \in ReturnIds
      PROVE  /\ db'[Amount(k)] \in 0 .. LineTotal
             /\ db[Amount(k)] > 0 => db'[Amount(k)] > 0
             /\ Amount(k) \in DOMAIN writes[r] => db'[Amount(k)] > 0
  BY <1>1, ColumnsApart, LineTotalAssumption DEF Inv, ReturnWrites, RefundHasAmount, TypeOK
<1>5. ASSUME NEW k \in ReturnIds
      PROVE  /\ db'[Status(k)] \in {"none", "requested", "approved", "rejected", "refunded"}
             /\ db'[Status(k)] \in {"approved", "refunded"} => db'[Amount(k)] > 0
  BY <1>1, <1>4, ColumnsApart DEF Inv, ReturnWrites, RefundHasAmount, TypeOK
<1>6. ASSUME NEW k \in ReturnIds, paid'[k] > 0 PROVE db'[Amount(k)] > 0
  <2>1. k \in DOMAIN paid /\ paid[k] \in Nat BY DEF Inv, PaidOK
  <2>2. paid[k] > 0 \/ Pays(r, k) > 0 BY <1>2, <1>6, <2>1, PaysNat
  <2> QED BY <1>4, <2>1, <2>2, PaysNat DEF Inv, RefundHasAmount
<1>7. TypeOK'
  BY <1>1, <1>4, <1>5, ColumnsApart DEF Inv, RefundHasAmount, TypeOK, ReturnWrites
<1>8. RefundHasAmount' BY <1>5, <1>6, <1>7 DEF RefundHasAmount
<1>9. ReturnWrites(r)' BY <1>1 DEF ReturnWrites
<1>10. ASSUME NEW q \in Req, q # r PROVE ReturnWrites(q)'
  BY <1>1, <1>4, <1>10 DEF Inv, ReturnWrites
<1> QED BY <1>1, <1>3, <1>8, <1>9, <1>10 DEF Inv

LEMMA AbortKeeps ==
    ASSUME Inv, NEW r \in Req, Abort(r), UNCHANGED paid
    PROVE  Inv'
<1>1. /\ db' = db /\ overlapped' = overlapped /\ DOMAIN writes' = Req
      /\ DOMAIN writes'[r] = {} /\ \A q \in Req : q # r => writes'[q] = writes[q]
  BY AbortWrites DEF Inv
<1>2. RefundHasAmount' /\ PaidOK'
  BY <1>1 DEF Inv, RefundHasAmount, TypeOK, PaidOK
<1>3. \A q \in Req : ReturnWrites(q)'
  BY <1>1 DEF Inv, ReturnWrites
<1> QED BY <1>1, <1>2, <1>3 DEF Inv

\* The order and the slice move without touching a return.
LEMMA MoveRows ==
    ASSUME Inv, NEW s, NEW o, OrderMoves(s, o)
    PROVE  /\ DOMAIN db' = Columns /\ db'[Status("slice")] = s /\ db'[Status("order")] = o
           /\ db'[Refund] \in {db[Refund], "pending"}
           /\ \A k \in ReturnIds : db'[Status(k)] = db[Status(k)] /\ db'[Amount(k)] = db[Amount(k)]
           /\ writes' = writes /\ overlapped' = overlapped /\ paid' = paid
BY ColumnsApart DEF Inv, RefundHasAmount, TypeOK, OrderMoves

LEMMA MoveKeeps ==
    ASSUME Inv,
           NEW s \in {"placed", "moving", "delivered", "cancelled"},
           NEW o \in {"placed", "processing", "partial", "delivered", "cancelled"},
           OrderMoves(s, o)
    PROVE  Inv'
<1>1. RefundHasAmount' /\ PaidOK'
  BY MoveRows DEF Inv, RefundHasAmount, TypeOK, PaidOK
<1>2. \A q \in Req : ReturnWrites(q)'
  BY MoveRows DEF Inv, ReturnWrites
<1> QED BY <1>1, <1>2, MoveRows DEF Inv

-----------------------------------------------------------------------------
(* Requests that do not overlap.                                           *)

\* Rows that agree on the returns owe the same.
LEMMA OwedSame ==
    ASSUME NEW a, NEW b,
           \A k \in ReturnIds : a[Status(k)] = b[Status(k)] /\ a[Amount(k)] = b[Amount(k)]
    PROVE  /\ \A k \in ReturnIds : Owed(a, k) = Owed(b, k)
           /\ OneRequested(a) <=> OneRequested(b)
BY DEF Owed, OneRequested

\* The rows a handler leaves owe what is paid and what its commit will pay.
LEMMA HandlesOwes ==
    ASSUME Inv, NEW r \in Req, NEW k \in ReturnIds, NEW s, NEW a, NEW new,
           Begin(r, new), OnlyReturn(new, k, s, a), Allowed(k, s, a), UNCHANGED paid,
           \A j \in ReturnIds : paid[j] = Owed(db, j), OneRequested(db)
    PROVE  /\ \A j \in ReturnIds : Owed(new, j) = paid'[j] + Pays(r, j)'
           /\ OneRequested(new)
<1>1. /\ db' = db
      /\ DOMAIN writes'[r] = {c \in Columns : new[c] # db[c]}
      /\ \A c \in DOMAIN writes'[r] : writes'[r][c] = new[c]
  BY BeginWrites DEF Inv
<1>2. /\ new[Status(k)] = s /\ new[Amount(k)] = a
      /\ \A j \in ReturnIds : j # k => new[Status(j)] = db[Status(j)] /\ new[Amount(j)] = db[Amount(j)]
  BY ColumnsApart DEF OnlyReturn
<1>3. ASSUME NEW j \in ReturnIds
      PROVE  Owed(new, j) = paid'[j] + Pays(r, j)'
  <2>1. j # "slice" /\ paid[j] \in Nat /\ db[Amount(j)] \in Nat
    BY ReturnIdsAssumption, LineTotalAssumption DEF Inv, PaidOK, RefundHasAmount, TypeOK
  <2>2. CASE j # k
    <3>1. Status(j) \notin DOMAIN writes'[r] BY <1>1, <1>2, <2>2
    <3>2. Pays(r, j)' = 0 BY <2>1, <3>1 DEF Pays
    <3> QED BY <1>2, <2>1, <2>2, <3>2 DEF Owed
  <2>3. CASE j = k
    <3>1. paid[k] = 0 BY DEF Owed, Allowed
    <3>2. Status(k) \in DOMAIN writes'[r] /\ writes'[r][Status(k)] = "refunded" <=> s = "refunded"
      BY <1>1, <1>2, ColumnsApart DEF Allowed
    <3>3. Pays(r, k)' = IF s = "refunded" THEN db[Amount(k)] ELSE 0
      BY <1>1, <2>1, <2>3, <3>2 DEF Pays
    <3>4. s = "refunded" => a = db[Amount(k)] BY DEF Allowed
    <3> QED BY <1>2, <2>1, <2>3, <3>1, <3>3, <3>4 DEF Owed
  <2> QED BY <2>2, <2>3
<1>4. OneRequested(new)
  BY <1>2 DEF OneRequested, Allowed
<1> QED BY <1>3, <1>4

\* The refund of the slice pays nothing on a return.
LEMMA SliceOwes ==
    ASSUME Inv, NEW r \in Req, NEW new, Begin(r, new), UNCHANGED paid,
           \A c \in Columns : new[c] = IF c = Refund THEN "refunded" ELSE db[c],
           \A j \in ReturnIds : paid[j] = Owed(db, j), OneRequested(db)
    PROVE  /\ \A j \in ReturnIds : Owed(new, j) = paid'[j] + Pays(r, j)'
           /\ OneRequested(new)
<1>1. DOMAIN writes'[r] = {c \in Columns : new[c] # db[c]}
  BY BeginWrites DEF Inv
<1>2. \A j \in ReturnIds : new[Status(j)] = db[Status(j)] /\ new[Amount(j)] = db[Amount(j)]
  BY ColumnsApart
<1>3. ASSUME NEW j \in ReturnIds PROVE Pays(r, j)' = 0 /\ paid[j] \in Nat
  BY <1>1, <1>2, ReturnIdsAssumption DEF Pays, Inv, PaidOK
<1>4. (\A j \in ReturnIds : Owed(new, j) = Owed(db, j)) /\ OneRequested(new)
  BY <1>2, OwedSame
<1> QED BY <1>3, <1>4

LEMMA SerialHandles ==
    ASSUME Inv, SerialInv, NEW r \in Req, Handles(r)
    PROVE  SerialInv'
<1> PICK new : /\ Begin(r, new)
               /\ \/ \E k \in ReturnIds : \E s, a : OnlyReturn(new, k, s, a) /\ Allowed(k, s, a)
                  \/ \A c \in Columns : new[c] = IF c = Refund THEN "refunded" ELSE db[c]
  BY DEF Handles
<1>1. paid' = paid BY DEF Handles
<1>2. /\ Alone'
      /\ ~overlapped' =>
           /\ ~overlapped /\ db' = db
           /\ \A c \in Columns : After(r)'[c] = new[c]
           /\ \A q \in Req : q # r => \A c \in Columns : After(q)'[c] = db[c]
  BY BeginAlone DEF Inv, RefundHasAmount, TypeOK
<1> SUFFICES ASSUME ~overlapped'
             PROVE  /\ \A k \in ReturnIds : paid'[k] = Owed(db', k)
                    /\ OneRequested(db')
                    /\ \A q \in Req :
                         /\ \A k \in ReturnIds : Owed(After(q)', k) = paid'[k] + Pays(q, k)'
                         /\ OneRequested(After(q)')
  BY <1>2 DEF SerialInv, Owed, OneRequested
<1>3. (\A k \in ReturnIds : paid[k] = Owed(db, k)) /\ OneRequested(db)
  BY <1>2 DEF SerialInv
<1>4. /\ \A k \in ReturnIds : Owed(new, k) = paid'[k] + Pays(r, k)'
      /\ OneRequested(new)
  BY <1>1, <1>3, HandlesOwes, SliceOwes
<1>5. /\ \A k \in ReturnIds : Owed(After(r)', k) = paid'[k] + Pays(r, k)'
      /\ OneRequested(After(r)')
  <2>1. \A k \in ReturnIds : /\ After(r)'[Status(k)] = new[Status(k)]
                             /\ After(r)'[Amount(k)] = new[Amount(k)]
    BY <1>2, ColumnsApart
  <2> QED BY <1>4, <2>1, OwedSame
<1>6. ASSUME NEW q \in Req, q # r
      PROVE  /\ \A k \in ReturnIds : Owed(After(q)', k) = paid'[k] + Pays(q, k)'
             /\ OneRequested(After(q)')
  <2>1. writes[q] = Nothing /\ writes'[q] = writes[q]
    BY <1>6 DEF Begin, Inv
  <2>2. \A k \in ReturnIds : Pays(q, k)' = 0 /\ paid[k] \in Nat
    BY <2>1, ReturnIdsAssumption DEF Pays, Nothing, Inv, PaidOK
  <2>3. \A k \in ReturnIds : /\ After(q)'[Status(k)] = db[Status(k)]
                             /\ After(q)'[Amount(k)] = db[Amount(k)]
    BY <1>2, <1>6, ColumnsApart
  <2> QED BY <1>1, <1>3, <2>2, <2>3, OwedSame
<1> QED BY <1>1, <1>2, <1>3, <1>5, <1>6

\* Once nothing is pending, what is owed is what is paid.
LEMMA SerialRest ==
    ASSUME Inv', Alone', ~overlapped',
           \A k \in ReturnIds : paid'[k] = Owed(db', k), OneRequested(db'),
           \A q \in Req : writes'[q] = Nothing,
           \A q \in Req : \A c \in Columns : After(q)'[c] = db'[c]
    PROVE  SerialInv'
<1>1. ASSUME NEW q \in Req
      PROVE  /\ \A k \in ReturnIds : Owed(After(q)', k) = paid'[k] + Pays(q, k)'
             /\ OneRequested(After(q)')
  <2>1. \A k \in ReturnIds : Pays(q, k)' = 0 /\ paid'[k] \in Nat
    BY ReturnIdsAssumption DEF Pays, Nothing, Inv, PaidOK
  <2>2. \A k \in ReturnIds : /\ After(q)'[Status(k)] = db'[Status(k)]
                             /\ After(q)'[Amount(k)] = db'[Amount(k)]
    BY ColumnsApart
  <2> QED BY <2>1, <2>2, OwedSame
<1> QED BY <1>1 DEF SerialInv, Owed, OneRequested

LEMMA SerialCommit ==
    ASSUME Inv, SerialInv, NEW r \in Req, CommitRefund(r)
    PROVE  SerialInv'
<1>1. Commit(r) /\ \A k \in DOMAIN paid : paid'[k] = paid[k] + Pays(r, k)
  BY DEF CommitRefund
<1>2. /\ Alone'
      /\ ~overlapped' =>
           /\ ~overlapped /\ db' = After(r)
           /\ \A q \in Req : \A c \in Columns : After(q)'[c] = db'[c]
  BY <1>1, CommitAlone DEF Inv, SerialInv
<1>3. CASE overlapped' BY <1>2, <1>3 DEF SerialInv
<1>4. CASE ~overlapped'
  <2>1. /\ \A k \in ReturnIds : paid'[k] = Owed(db', k)
        /\ OneRequested(db')
    BY <1>1, <1>2, <1>4 DEF SerialInv, Inv, PaidOK
  <2>2. \A q \in Req : writes'[q] = Nothing
    BY <1>1, <1>2, <1>4 DEF SerialInv, Alone, Commit, Inv
  <2> QED BY <1>2, <1>4, <2>1, <2>2, CommitKeeps, SerialRest
<1> QED BY <1>3, <1>4

LEMMA SerialAbort ==
    ASSUME Inv, SerialInv, NEW r \in Req, Abort(r), UNCHANGED paid
    PROVE  SerialInv'
<1>1. /\ Alone'
      /\ ~overlapped' =>
           /\ ~overlapped /\ db' = db
           /\ \A q \in Req : \A c \in Columns : After(q)'[c] = db'[c]
  BY AbortAlone DEF Inv, SerialInv
<1>2. CASE overlapped' BY <1>1, <1>2 DEF SerialInv
<1>3. CASE ~overlapped'
  <2>1. (\A k \in ReturnIds : paid'[k] = Owed(db', k)) /\ OneRequested(db')
    BY <1>1, <1>3 DEF SerialInv
  <2>2. \A q \in Req : writes'[q] = Nothing
    BY <1>1, <1>3 DEF SerialInv, Alone, Abort, Inv
  <2> QED BY <1>1, <1>3, <2>1, <2>2, AbortKeeps, SerialRest
<1> QED BY <1>2, <1>3

\* A step that leaves the returns and the pending writes alone.
LEMMA SerialSame ==
    ASSUME SerialInv, writes' = writes, overlapped' = overlapped, paid' = paid,
           \A k \in ReturnIds : db'[Status(k)] = db[Status(k)] /\ db'[Amount(k)] = db[Amount(k)]
    PROVE  SerialInv'
<1>1. Alone' BY DEF SerialInv, Alone
<1> SUFFICES ASSUME ~overlapped
             PROVE  /\ \A k \in ReturnIds : paid[k] = Owed(db', k)
                    /\ OneRequested(db')
                    /\ \A q \in Req :
                         /\ \A k \in ReturnIds : Owed(After(q)', k) = paid[k] + Pays(q, k)'
                         /\ OneRequested(After(q)')
  BY <1>1 DEF SerialInv, Owed, OneRequested
<1>2. (\A k \in ReturnIds : paid[k] = Owed(db', k)) /\ OneRequested(db')
  BY OwedSame DEF SerialInv
<1>3. ASSUME NEW q \in Req
      PROVE  /\ \A k \in ReturnIds : Owed(After(q)', k) = paid[k] + Pays(q, k)'
             /\ OneRequested(After(q)')
  <2>1. \A k \in ReturnIds : Pays(q, k)' = Pays(q, k) BY ReturnIdsAssumption DEF Pays
  <2>2. \A k \in ReturnIds : /\ After(q)'[Status(k)] = After(q)[Status(k)]
                             /\ After(q)'[Amount(k)] = After(q)[Amount(k)]
    BY ColumnsApart DEF After
  <2> QED BY <2>1, <2>2, OwedSame DEF SerialInv
<1> QED BY <1>2, <1>3

-----------------------------------------------------------------------------
(* The theorems.                                                           *)

LEMMA InitInv == Init => Inv /\ SerialInv
<1> SUFFICES ASSUME Init PROVE Inv /\ SerialInv OBVIOUS
<1>1. DOMAIN writes = Req /\ \A r \in Req : writes[r] = Nothing /\ DOMAIN writes[r] = {}
  BY DEF Init, Nothing
<1>2. /\ DOMAIN db = Columns /\ overlapped = FALSE
      /\ db[Status("order")] = "placed" /\ db[Status("slice")] = "placed" /\ db[Refund] = "none"
      /\ \A k \in ReturnIds : db[Status(k)] = "none" /\ db[Amount(k)] = 0
  BY ColumnsApart DEF Init
<1>3. PaidOK /\ \A k \in ReturnIds : paid[k] = 0 BY DEF Init, PaidOK
<1>4. RefundHasAmount
  <2>1. 0 \in 0 .. LineTotal /\ ~(0 > 0) BY LineTotalAssumption
  <2>2. TypeOK BY <1>2, <2>1 DEF TypeOK
  <2> QED BY <1>2, <1>3, <2>1, <2>2 DEF RefundHasAmount
<1>5. Inv BY <1>1, <1>3, <1>4 DEF Inv, ReturnWrites
<1>6. Alone BY <1>1 DEF Alone
<1>7. (\A k \in ReturnIds : paid[k] = Owed(db, k)) /\ OneRequested(db)
  BY <1>2, <1>3 DEF Owed, OneRequested
<1>8. ASSUME NEW q \in Req
      PROVE  /\ \A k \in ReturnIds : Owed(After(q), k) = paid[k] + Pays(q, k)
             /\ OneRequested(After(q))
  <2>1. \A k \in ReturnIds : Pays(q, k) = 0
    BY <1>1, ReturnIdsAssumption DEF Pays
  <2>2. \A k \in ReturnIds : /\ After(q)[Status(k)] = db[Status(k)]
                             /\ After(q)[Amount(k)] = db[Amount(k)]
    BY <1>1, AfterNothing, ColumnsApart
  <2> QED BY <1>3, <1>7, <2>1, <2>2, OwedSame
<1> QED BY <1>5, <1>6, <1>7, <1>8 DEF SerialInv

LEMMA StepKeeps ==
    ASSUME Inv, SerialInv, [Next]_vars
    PROVE  Inv' /\ SerialInv'
<1>1. CASE UNCHANGED vars
  <2>1. Inv' BY <1>1 DEF vars, Inv, RefundHasAmount, TypeOK, PaidOK, ReturnWrites
  <2>2. SerialInv' BY <1>1, SerialSame DEF vars
  <2> QED BY <2>1, <2>2
<1>2. CASE \E s \in {"placed", "moving", "delivered", "cancelled"},
              o \in {"placed", "processing", "partial", "delivered", "cancelled"} : OrderMoves(s, o)
  BY <1>2, MoveRows, MoveKeeps, SerialSame
<1>3. ASSUME NEW r \in Req,
             \/ \E k \in ReturnIds : RequestReturn(r, k)
             \/ \E k \in ReturnIds, a \in 0 .. LineTotal + 1 : ApproveReturn(r, k, a)
             \/ \E k \in ReturnIds : RejectReturn(r, k)
             \/ \E k \in ReturnIds : IssueRefund(r, k)
             \/ IssueRejectRefund(r)
      PROVE  Inv' /\ SerialInv'
  <2>1. Handles(r)
    BY <1>3, RequestHandles, ApproveHandles, RejectHandles, RefundHandles, RejectRefundHandles
  <2> QED BY <2>1, HandlesKeeps, SerialHandles
<1>4. ASSUME NEW r \in Req, CommitRefund(r) \/ (Abort(r) /\ UNCHANGED paid)
      PROVE  Inv' /\ SerialInv'
  BY <1>4, CommitKeeps, AbortKeeps, SerialCommit, SerialAbort
<1> QED BY <1>1, <1>2, <1>3, <1>4 DEF Next

\* Both invariants hold of every reachable state.
THEOREM InvHolds == Spec => [](Inv /\ SerialInv)
<1>1. Init => Inv /\ SerialInv BY InitInv
<1>2. (Inv /\ SerialInv) /\ [Next]_vars => (Inv /\ SerialInv)' BY StepKeeps
<1> QED BY <1>1, <1>2, PTL DEF Spec

\* However decide_vendor_return and issue_vendor_return_refund overlap, no
\* return is approved, refunded or paid without an amount the vendor named:
\* more than nothing and at most the line's total.
THEOREM AmountNamed == Spec => []RefundHasAmount
<1>1. Inv => RefundHasAmount BY DEF Inv
<1> QED BY <1>1, InvHolds, PTL

\* When requests do not overlap, issue_vendor_return_refund pays each return the
\* amount decide_vendor_return wrote, once and only when the row says so, and
\* request_return leaves at most one return of the line waiting; the order and
\* its slice may move at any time.
THEOREM PaysOnce == Spec => []PaidAsApproved
<1>1. Inv /\ SerialInv => PaidAsApproved
  BY DEF SerialInv, PaidAsApproved, Owed, OneRequested
<1> QED BY <1>1, InvHolds, PTL
=============================================================================
