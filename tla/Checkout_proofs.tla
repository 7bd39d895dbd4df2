--------------------------- MODULE Checkout_proofs ---------------------------
(***************************************************************************)
(* What holds of a tenant's carts, addresses and orders, for any number of *)
(* offerings, keys and requests: one open cart (CartIsOne), orders that    *)
(* can be delivered (Deliverable) and that are and stay what their cart    *)
(* was (OrderKeepsCart).                                                   *)
(***************************************************************************)
EXTENDS Checkout, FiniteSetTheorems, TLAPS

(* The inductive invariants.                                               *)

\* What a request remembers of what it has read; place_order has found lines,
\* and an address if one of them needs it.
Txns ==
    {Idle}
      \cup [op : {"add"}, cart : CartIds, new : BOOLEAN, offering : Offerings, quantity : 1..MaxQty]
      \cup [op : {"update"}, line : LineIds, quantity : 1..MaxQty, seen : 1..MaxQty]
      \cup [op : {"remove"}, line : LineIds]
      \cup [op : {"delete"}, address : AddressIds]
      \cup {t \in [op : {"place"}, cart : CartIds, address : AddressIds \cup {NoId},
                   lines : SUBSET (Offerings \X (1..MaxQty))] :
               t.lines # {} /\ ((\E x \in t.lines : x[1] \in NeedsAddress) => t.address # NoId)}

OneOpen == \A c, d \in Open : c = d

LinesApart ==
    \A c \in CartIds : \A l, m \in LinesOn(c) : line[l].offering = line[m].offering => l = m

Closed == \A i \in Placed : cart[order[i].cart] = "checked_out"

Inv == TypeOK /\ txn \in [Req -> Txns] /\ OneOpen /\ LinesApart /\ OrderDeliverable /\ Closed

\* Alone, a request still finds what it has read.
StillThere(t) ==
    /\ t.op = "add" /\ ~t.new => cart[t.cart] = "open"
    /\ t.op \in {"update", "remove"} => line[t.line].cart \in Open
    /\ t.op = "place" => cart[t.cart] = "open" /\ t.lines = Contents(t.cart)

OrdersAreCarts ==
    /\ \A i, j \in Placed : order[i].cart = order[j].cart => i = j
    /\ \A i \in Placed : order[i].lines = Contents(order[i].cart)

SerialInv ==
    ~overlapped =>
       /\ \A q, r \in Req : txn[q] # Idle /\ txn[r] # Idle => q = r
       /\ \A r \in Req : StillThere(txn[r])
       /\ OrdersAreCarts

-----------------------------------------------------------------------------
(* Rows and requests.                                                      *)

LEMMA TxnKinds ==
    ASSUME NEW t \in Txns
    PROVE  /\ t.op = "none" => t = Idle
           /\ t.op = "add" => /\ t.cart \in CartIds /\ t.new \in BOOLEAN
                              /\ t.offering \in Offerings /\ t.quantity \in 1..MaxQty
           /\ t.op = "update" => t.line \in LineIds /\ t.quantity \in 1..MaxQty
           /\ t.op = "remove" => t.line \in LineIds
           /\ t.op = "delete" => t.address \in AddressIds
           /\ t.op = "place" =>
                 /\ t.cart \in CartIds /\ t.address \in AddressIds \cup {NoId}
                 /\ t.lines \in SUBSET (Offerings \X (1..MaxQty)) /\ t.lines # {}
                 /\ (\E x \in t.lines : x[1] \in NeedsAddress) => t.address # NoId
BY DEF Txns, Idle

LEMMA LineRows ==
    ASSUME TypeOK, NEW l \in LineIds
    PROVE  line[l].cart \in CartIds =>
              line[l] \in CartLineRow /\ line[l].offering \in Offerings /\ line[l].quantity \in 1..MaxQty
BY IdsAssumption DEF TypeOK, CartLineRow, NoLine, Removed

LEMMA OrderRows ==
    ASSUME TypeOK, NEW i \in Placed
    PROVE  /\ i \in OrderIds /\ order[i] \in OrderRow /\ order[i].cart \in CartIds
           /\ order[i].address \in AddressIds \cup {NoId}
BY DEF TypeOK, Placed, OrderRow

\* The contents of a cart are those of its lines.
LEMMA ContentsSame ==
    ASSUME NEW c, \A l \in LineIds : line[l].cart = c \/ line'[l].cart = c => line'[l] = line[l]
    PROVE  Contents(c)' = Contents(c)
<1>1. LinesOn(c)' = LinesOn(c) BY DEF LinesOn
<1>2. \A l \in LinesOn(c) : line'[l] = line[l] BY DEF LinesOn
<1> QED BY <1>1, <1>2 DEF Contents

-----------------------------------------------------------------------------
(* A request reads and checks.                                             *)

LEMMA StartKeeps ==
    ASSUME Inv, SerialInv, NEW r \in Req, NEW t \in Txns, Start(r, t), StillThere(t)
    PROVE  Inv' /\ SerialInv'
<1>1. /\ published' = published /\ cart' = cart /\ line' = line /\ address' = address
      /\ order' = order /\ txn' = [txn EXCEPT ![r] = t]
      /\ overlapped' = (overlapped \/ \E q \in Req : txn[q] # Idle)
  BY DEF Start
<1>2. overlapped' \in BOOLEAN BY <1>1
<1>3. Inv'
  BY <1>1, <1>2 DEF Inv, TypeOK, OneOpen, Open, LinesApart, LinesOn, OrderDeliverable, Placed, Closed
<1>4. \A q \in Req : txn'[q] = IF q = r THEN t ELSE txn[q] BY <1>1 DEF Inv
<1>5. ASSUME ~overlapped' PROVE ~overlapped /\ \A q \in Req : txn[q] = Idle
  BY <1>1, <1>5
<1>6. ASSUME NEW u PROVE StillThere(u)' <=> StillThere(u)
  BY <1>1 DEF StillThere, Open, Contents, LinesOn
<1>7. ASSUME ~overlapped', NEW q \in Req PROVE StillThere(txn'[q])
  BY <1>4, <1>5, <1>7 DEF StillThere, Idle
<1>8. \A c : Contents(c)' = Contents(c) BY <1>1 DEF Contents, LinesOn
<1>9. SerialInv'
  <2> SUFFICES ASSUME ~overlapped'
               PROVE  /\ \A p, q \in Req : txn'[p] # Idle /\ txn'[q] # Idle => p = q
                      /\ \A q \in Req : StillThere(txn[q])'
                      /\ OrdersAreCarts
    BY <1>1, <1>8 DEF SerialInv, OrdersAreCarts, Placed
  <2>1. \A p, q \in Req : txn'[p] # Idle /\ txn'[q] # Idle => p = q BY <1>4, <1>5
  <2>2. ASSUME NEW q \in Req PROVE StillThere(txn[q])'
    BY <1>1, <1>7 DEF StillThere, Open, Contents, LinesOn
  <2> QED BY <1>5, <2>1, <2>2 DEF SerialInv
<1> QED BY <1>3, <1>9

LEMMA AddCheckKeeps ==
    ASSUME Inv, SerialInv, NEW r \in Req, NEW o \in Offerings, NEW q \in 0..MaxQty, AddLineCheck(r, o, q)
    PROVE  Inv' /\ SerialInv'
<1>1. PICK c \in (IF Open = {} THEN {d \in CartIds : cart[d] = "none"} ELSE Open) :
         Start(r, [op |-> "add", cart |-> c, new |-> Open = {}, offering |-> o, quantity |-> q])
  BY DEF AddLineCheck
<1> DEFINE t == [op |-> "add", cart |-> c, new |-> Open = {}, offering |-> o, quantity |-> q]
<1>2. q \in 1..MaxQty BY QtyAssumption DEF AddLineCheck
<1>3. c \in CartIds /\ (Open # {} => cart[c] = "open") BY <1>1 DEF Open
<1>4. PICK new \in BOOLEAN : new <=> Open = {} OBVIOUS
<1>5. (Open = {}) = new BY <1>4
<1>6. t = [op |-> "add", cart |-> c, new |-> new, offering |-> o, quantity |-> q] BY <1>5
<1>7. t \in Txns BY <1>2, <1>3, <1>6 DEF Txns
<1>8. StillThere(t) BY <1>3, <1>4, <1>6 DEF StillThere
<1> QED BY <1>1, <1>7, <1>8, StartKeeps

LEMMA UpdateCheckKeeps ==
    ASSUME Inv, SerialInv, NEW r \in Req, NEW l \in LineIds, NEW q \in 0..MaxQty, UpdateLineCheck(r, l, q)
    PROVE  Inv' /\ SerialInv'
<1> DEFINE t == [op |-> "update", line |-> l, quantity |-> q, seen |-> line[l].quantity]
<1>1. q \in 1..MaxQty /\ line[l].cart \in Open /\ Start(r, t)
  BY QtyAssumption DEF UpdateLineCheck
<1>2. line[l].quantity \in 1..MaxQty BY <1>1, LineRows DEF Inv, Open
<1>3. t \in Txns BY <1>1, <1>2 DEF Txns
<1>4. StillThere(t) BY <1>1 DEF StillThere
<1> QED BY <1>1, <1>3, <1>4, StartKeeps

LEMMA RemoveCheckKeeps ==
    ASSUME Inv, SerialInv, NEW r \in Req, NEW l \in LineIds, RemoveLineCheck(r, l)
    PROVE  Inv' /\ SerialInv'
<1> DEFINE t == [op |-> "remove", line |-> l]
<1>1. line[l].cart \in Open /\ Start(r, t) BY DEF RemoveLineCheck
<1>2. t \in Txns BY DEF Txns
<1>3. StillThere(t) BY <1>1 DEF StillThere
<1> QED BY <1>1, <1>2, <1>3, StartKeeps

LEMMA DeleteCheckKeeps ==
    ASSUME Inv, SerialInv, NEW r \in Req, NEW a \in AddressIds, DeleteAddressCheck(r, a)
    PROVE  Inv' /\ SerialInv'
<1> DEFINE t == [op |-> "delete", address |-> a]
<1>1. t \in Txns /\ StillThere(t) BY DEF Txns, StillThere
<1> QED BY <1>1, StartKeeps DEF DeleteAddressCheck

LEMMA PlaceCheckKeeps ==
    ASSUME Inv, SerialInv, NEW r \in Req, NEW a \in AddressIds \cup {NoId}, PlaceOrderCheck(r, a)
    PROVE  Inv' /\ SerialInv'
<1>1. PICK c \in Open :
        /\ LinesOn(c) # {}
        /\ (\E l \in LinesOn(c) : line[l].offering \in NeedsAddress) => a # NoId
        /\ Start(r, [op |-> "place", cart |-> c, address |-> a, lines |-> Contents(c)])
  BY DEF PlaceOrderCheck
<1> DEFINE t == [op |-> "place", cart |-> c, address |-> a, lines |-> Contents(c)]
<1>2. c \in CartIds /\ cart[c] = "open" BY DEF Open
<1>3. Contents(c) \in SUBSET (Offerings \X (1..MaxQty))
  BY <1>2, LineRows DEF Contents, LinesOn, Inv
<1>4. Contents(c) # {} BY <1>1 DEF Contents
<1>5. (\E x \in Contents(c) : x[1] \in NeedsAddress) => a # NoId
  BY <1>1 DEF Contents
<1>6. t \in Txns BY <1>2, <1>3, <1>4, <1>5 DEF Txns
<1>7. StillThere(t) BY <1>2 DEF StillThere
<1> QED BY <1>1, <1>6, <1>7, StartKeeps

-----------------------------------------------------------------------------
(* A request ends.                                                         *)

LEMMA EndTxn ==
    ASSUME Inv, NEW r \in Req, End(r)
    PROVE  /\ txn' \in [Req -> Txns] /\ overlapped' = overlapped
           /\ \A q \in Req : txn'[q] = IF q = r THEN Idle ELSE txn[q]
BY DEF Inv, End, Txns

\* Alone, it leaves no request behind.
LEMMA EndSerial ==
    ASSUME Inv, SerialInv, NEW r \in Req, txn[r] # Idle, End(r),
           ~overlapped => OrdersAreCarts'
    PROVE  SerialInv'
<1>1. overlapped' = overlapped /\ \A q \in Req : txn'[q] = IF q = r THEN Idle ELSE txn[q]
  BY EndTxn
<1> SUFFICES ASSUME ~overlapped
             PROVE  /\ \A p, q \in Req : txn'[p] # Idle /\ txn'[q] # Idle => p = q
                    /\ \A q \in Req : StillThere(txn[q])'
                    /\ OrdersAreCarts'
  BY <1>1 DEF SerialInv
<1>2. \A q \in Req : txn'[q] = Idle BY <1>1 DEF SerialInv
<1>3. \A q \in Req : StillThere(txn[q])' BY <1>2 DEF StillThere, Idle
<1> QED BY <1>2, <1>3

\* A step on addresses, or none at all, leaves orders and lines.
LEMMA SameOrders ==
    ASSUME SerialInv, ~overlapped, order' = order, line' = line
    PROVE  OrdersAreCarts'
BY DEF SerialInv, OrdersAreCarts, Placed, Contents, LinesOn

\* Alone, a request writes lines of the open cart only, and those of orders stay.
LEMMA ClosedLines ==
    ASSUME Inv, SerialInv, ~overlapped, order' = order,
           \A l \in LineIds : line'[l] # line[l] =>
              /\ line[l].cart \in CartIds => cart[line[l].cart] = "open"
              /\ line'[l].cart \in CartIds => cart[line'[l].cart] # "checked_out"
    PROVE  OrdersAreCarts'
<1>1. Placed' = Placed BY DEF Placed
<1>2. ASSUME NEW c \in CartIds, cart[c] = "checked_out" PROVE Contents(c)' = Contents(c)
  <2>1. \A l \in LineIds : line[l].cart = c \/ line'[l].cart = c => line'[l] = line[l]
    BY <1>2
  <2> QED BY <2>1, ContentsSame
<1>3. \A i \in Placed : order[i].cart \in CartIds /\ cart[order[i].cart] = "checked_out"
  BY OrderRows DEF Inv, Closed
<1>4. ASSUME NEW i \in Placed PROVE (order[i].lines = Contents(order[i].cart))'
  <2>1. PICK c \in CartIds : c = order[i].cart BY <1>3
  <2>2. order[i].lines = Contents(c) BY <2>1 DEF SerialInv, OrdersAreCarts
  <2>3. order'[i].lines = Contents(c)' BY <1>2, <1>3, <2>1, <2>2
  <2>4. order'[i].cart = c BY <2>1
  <2> QED BY <2>3, <2>4
<1>5. \A i, j \in Placed : order[i].cart = order[j].cart => i = j BY DEF SerialInv, OrdersAreCarts
<1> QED BY <1>1, <1>4, <1>5 DEF OrdersAreCarts

LEMMA AddCommitKeeps ==
    ASSUME Inv, SerialInv, NEW r \in Req, AddLineCommit(r)
    PROVE  Inv' /\ SerialInv'
<1> DEFINE t == txn[r]
<1>1. /\ t.op = "add" /\ ~AddConflict(t) /\ End(r) /\ txn[r] # Idle
      /\ published' = published /\ address' = address /\ order' = order
  BY DEF AddLineCommit, Idle
<1>2. /\ t \in Txns /\ t.cart \in CartIds /\ t.new \in BOOLEAN
      /\ t.offering \in Offerings /\ t.quantity \in 1..MaxQty
  BY <1>1, TxnKinds DEF Inv
<1>3. PICK l \in LineIds :
        /\ line[l] = NoLine
        /\ line' = [line EXCEPT ![l] = [cart |-> t.cart, offering |-> t.offering, quantity |-> t.quantity]]
  BY DEF AddLineCommit
<1>4. cart' = IF t.new THEN [cart EXCEPT ![t.cart] = "open"] ELSE cart BY DEF AddLineCommit
<1>5. /\ t.new => Open = {} /\ cart[t.cart] = "none"
      /\ \A m \in LinesOn(t.cart) : line[m].offering # t.offering
  BY <1>1 DEF AddConflict
<1> HIDE DEF t
<1>6. /\ line'[l] = [cart |-> t.cart, offering |-> t.offering, quantity |-> t.quantity]
      /\ \A m \in LineIds : m # l => line'[m] = line[m]
      /\ line' \in [LineIds -> CartLineRow \cup {NoLine, Removed}]
  BY <1>2, <1>3 DEF Inv, TypeOK, CartLineRow
<1>7. /\ cart' \in [CartIds -> {"none", "open", "checked_out"}]
      /\ \A c \in CartIds : cart'[c] = IF t.new /\ c = t.cart THEN "open" ELSE cart[c]
  BY <1>2, <1>4 DEF Inv, TypeOK
<1>8. TypeOK' /\ txn' \in [Req -> Txns] BY <1>1, <1>6, <1>7, EndTxn DEF Inv, TypeOK
<1>9. OneOpen' BY <1>2, <1>5, <1>7 DEF Inv, OneOpen, Open
<1>10. LinesApart'
  <2> SUFFICES ASSUME NEW c \in CartIds, NEW m \in LineIds, NEW n \in LineIds,
                      line'[m].cart = c, line'[n].cart = c, line'[m].offering = line'[n].offering
               PROVE  m = n
    BY DEF LinesApart, LinesOn
  <2> QED BY <1>5, <1>6 DEF Inv, LinesApart, LinesOn
<1>11. Closed' /\ OrderDeliverable'
  BY <1>1, <1>5, <1>7, OrderRows DEF Inv, Closed, OrderDeliverable, Placed
<1>12. SerialInv'
  <2>1. ASSUME ~overlapped PROVE cart[t.cart] # "checked_out"
    BY <1>1, <1>2, <1>5, <2>1 DEF SerialInv, StillThere, t
  <2>2. line[l].cart \notin CartIds BY <1>3, IdsAssumption DEF NoLine
  <2>3. ASSUME NEW m \in LineIds, line'[m] # line[m], ~overlapped
        PROVE  /\ line[m].cart \in CartIds => cart[line[m].cart] = "open"
               /\ line'[m].cart \in CartIds => cart[line'[m].cart] # "checked_out"
    BY <1>6, <2>1, <2>2, <2>3
  <2> QED BY <1>1, <2>3, ClosedLines, EndSerial
<1> QED BY <1>8, <1>9, <1>10, <1>11, <1>12 DEF Inv

\* Commits that change lines and keep their cart and offering, or remove them.
LEMMA LineCommitKeeps ==
    ASSUME Inv, SerialInv, NEW r \in Req, NEW l \in LineIds, txn[r] # Idle, End(r),
           UNCHANGED <<published, cart, address, order>>,
           line' \in [LineIds -> CartLineRow \cup {NoLine, Removed}],
           \A m \in LineIds : m # l => line'[m] = line[m],
           line'[l] # line[l] =>
              \/ line'[l] = Removed
              \/ line'[l].cart = line[l].cart /\ line'[l].offering = line[l].offering,
           ~overlapped => line[l].cart \in Open
    PROVE  Inv' /\ SerialInv'
<1>1. TypeOK' /\ txn' \in [Req -> Txns] BY EndTxn DEF Inv, TypeOK
<1>2. OneOpen' /\ OrderDeliverable' /\ Closed'
  BY DEF Inv, OneOpen, Open, OrderDeliverable, Closed, Placed
<1>3. LinesApart'
  <2>1. ASSUME NEW c \in CartIds, NEW m \in LineIds, line'[m].cart = c
        PROVE  line[m].cart = c /\ line[m].offering = line'[m].offering
    BY <2>1, IdsAssumption DEF Removed
  <2> QED BY <2>1 DEF Inv, LinesApart, LinesOn
<1>4. SerialInv'
  <2>1. ASSUME ~overlapped, NEW m \in LineIds, line'[m] # line[m]
        PROVE  /\ line[m].cart \in CartIds => cart[line[m].cart] = "open"
               /\ line'[m].cart \in CartIds => cart[line'[m].cart] # "checked_out"
    <3>1. m = l /\ cart[line[l].cart] = "open" BY <2>1 DEF Open
    <3> QED BY <2>1, <3>1, IdsAssumption DEF Removed
  <2>2. order' = order OBVIOUS
  <2> QED BY <2>1, <2>2, ClosedLines, EndSerial
<1> QED BY <1>1, <1>2, <1>3, <1>4 DEF Inv

LEMMA UpdateCommitKeeps ==
    ASSUME Inv, SerialInv, NEW r \in Req, UpdateLineCommit(r)
    PROVE  Inv' /\ SerialInv'
<1>1. txn[r].op = "update" /\ txn[r] # Idle /\ End(r) /\ UNCHANGED <<published, cart, address, order>>
  BY DEF UpdateLineCommit, Idle
<1>2. PICK l \in LineIds : l = txn[r].line BY <1>1, TxnKinds DEF Inv
<1>3. txn[r].quantity \in 1..MaxQty BY <1>1, TxnKinds DEF Inv
<1>4. CASE line' = line
  BY <1>1, <1>2, <1>4, LineCommitKeeps DEF Inv, TypeOK, SerialInv, StillThere
<1>5. CASE line[l].cart \in CartIds /\ line' = [line EXCEPT ![l].quantity = txn[r].quantity]
  <2>1. line[l] \in CartLineRow BY <1>5, LineRows DEF Inv
  <2>2. line'[l] = [line[l] EXCEPT !.quantity = txn[r].quantity] /\ \A m \in LineIds : m # l => line'[m] = line[m]
    BY <1>5 DEF Inv, TypeOK
  <2>3. line'[l] \in CartLineRow /\ line'[l].cart = line[l].cart /\ line'[l].offering = line[l].offering
    BY <1>3, <2>1, <2>2 DEF CartLineRow
  <2>4. line' \in [LineIds -> CartLineRow \cup {NoLine, Removed}]
    BY <1>5, <2>2, <2>3 DEF Inv, TypeOK
  <2>5. ~overlapped => line[l].cart \in Open BY <1>1, <1>2 DEF SerialInv, StillThere
  <2> QED BY <1>1, <2>2, <2>3, <2>4, <2>5, LineCommitKeeps
<1> QED BY <1>2, <1>4, <1>5 DEF UpdateLineCommit

LEMMA RemoveCommitKeeps ==
    ASSUME Inv, SerialInv, NEW r \in Req, RemoveLineCommit(r)
    PROVE  Inv' /\ SerialInv'
<1>1. txn[r].op = "remove" /\ txn[r] # Idle /\ End(r) /\ UNCHANGED <<published, cart, address, order>>
  BY DEF RemoveLineCommit, Idle
<1>2. PICK l \in LineIds : l = txn[r].line BY <1>1, TxnKinds DEF Inv
<1>3. /\ line'[l] = Removed /\ \A m \in LineIds : m # l => line'[m] = line[m]
      /\ line' \in [LineIds -> CartLineRow \cup {NoLine, Removed}]
  BY <1>2 DEF RemoveLineCommit, Inv, TypeOK
<1>4. ~overlapped => line[l].cart \in Open BY <1>1, <1>2 DEF SerialInv, StillThere
<1> QED BY <1>1, <1>3, <1>4, LineCommitKeeps

LEMMA DeleteCommitKeeps ==
    ASSUME Inv, SerialInv, NEW r \in Req, DeleteAddressCommit(r)
    PROVE  Inv' /\ SerialInv'
<1>1. /\ txn[r].op = "delete" /\ txn[r] # Idle /\ End(r)
      /\ published' = published /\ cart' = cart /\ line' = line /\ order' = order
  BY DEF DeleteAddressCommit, Idle
<1>2. txn[r].address \in AddressIds BY <1>1, TxnKinds DEF Inv
<1>3. /\ address' \in [AddressIds -> {"none", "active", "deleted"}]
      /\ \A a \in AddressIds : OnOrder(a) => address'[a] = address[a]
  BY <1>2 DEF DeleteAddressCommit, Inv, TypeOK
<1>4. TypeOK' /\ txn' \in [Req -> Txns] BY <1>1, <1>3, EndTxn DEF Inv, TypeOK
<1>5. OneOpen' /\ LinesApart' /\ Closed'
  BY <1>1 DEF Inv, OneOpen, Open, LinesApart, LinesOn, Closed, Placed
<1>6. ASSUME NEW i \in Placed, order[i].address # NoId
      PROVE  address'[order[i].address] = address[order[i].address]
  BY <1>3, <1>6, OrderRows DEF Inv, OnOrder, Placed
<1>7. OrderDeliverable' BY <1>1, <1>6 DEF Inv, OrderDeliverable, Placed
<1>8. SerialInv' BY <1>1, SameOrders, EndSerial
<1> QED BY <1>4, <1>5, <1>7, <1>8 DEF Inv

LEMMA PlaceCommitKeeps ==
    ASSUME Inv, SerialInv, NEW r \in Req, PlaceOrderCommit(r)
    PROVE  Inv' /\ SerialInv'
<1> DEFINE t == txn[r]
<1>1. /\ t.op = "place" /\ txn[r] # Idle /\ End(r)
      /\ t.address # NoId => address[t.address] = "active"
      /\ cart' = [cart EXCEPT ![t.cart] = "checked_out"]
      /\ published' = published /\ line' = line /\ address' = address
  BY DEF PlaceOrderCommit, Idle
<1>2. /\ t.cart \in CartIds /\ t.address \in AddressIds \cup {NoId}
      /\ t.lines \in SUBSET (Offerings \X (1..MaxQty)) /\ t.lines # {}
      /\ (\E x \in t.lines : x[1] \in NeedsAddress) => t.address # NoId
  BY <1>1, TxnKinds DEF Inv
<1>3. PICK i \in OrderIds :
        /\ order[i] = NoOrder
        /\ order' = [order EXCEPT ![i] = [cart |-> t.cart, address |-> t.address, lines |-> t.lines]]
  BY DEF PlaceOrderCommit
<1>4. ~overlapped => cart[t.cart] = "open" /\ t.lines = Contents(t.cart)
  BY <1>1 DEF SerialInv, StillThere
<1> HIDE DEF t
<1>5. /\ order'[i] = [cart |-> t.cart, address |-> t.address, lines |-> t.lines]
      /\ order'[i] \in OrderRow
      /\ \A j \in OrderIds : j # i => order'[j] = order[j]
      /\ order' \in [OrderIds -> OrderRow \cup {NoOrder}]
  BY <1>2, <1>3 DEF Inv, TypeOK, OrderRow
<1>6. Placed' = Placed \cup {i} /\ i \notin Placed
  BY <1>2, <1>3, <1>5, IdsAssumption DEF Placed, NoOrder
<1>7. /\ cart' \in [CartIds -> {"none", "open", "checked_out"}]
      /\ \A c \in CartIds : cart'[c] = IF c = t.cart THEN "checked_out" ELSE cart[c]
  BY <1>1, <1>2 DEF Inv, TypeOK
<1>8. TypeOK' /\ txn' \in [Req -> Txns] BY <1>1, <1>5, <1>7, EndTxn DEF Inv, TypeOK
<1>9. OneOpen' /\ LinesApart'
  BY <1>1, <1>7 DEF Inv, OneOpen, Open, LinesApart, LinesOn
<1>10. Closed'
  BY <1>2, <1>5, <1>6, <1>7, OrderRows DEF Inv, Closed
<1>11. OrderDeliverable'
  BY <1>1, <1>2, <1>5, <1>6, OrderRows DEF Inv, OrderDeliverable
<1>12. SerialInv'
  <2>1. ASSUME ~overlapped
        PROVE  \A j, k \in Placed' : order'[j].cart = order'[k].cart => j = k
    <3>1. \A j \in Placed : order[j].cart # t.cart
      BY <1>4, <2>1 DEF Inv, Closed
    <3> QED BY <1>5, <1>6, <2>1, <3>1, OrderRows DEF Inv, SerialInv, OrdersAreCarts
  <2>2. \A c : Contents(c)' = Contents(c) BY <1>1 DEF Contents, LinesOn
  <2>3. ASSUME ~overlapped, NEW j \in Placed' PROVE (order[j].lines = Contents(order[j].cart))'
    <3>1. PICK c : c = order'[j].cart OBVIOUS
    <3>2. order'[j].lines = Contents(c)
      <4>1. CASE j = i BY <1>4, <1>5, <2>3, <3>1, <4>1
      <4>2. CASE j # i
        BY <1>5, <1>6, <2>3, <3>1, <4>2, OrderRows DEF Inv, SerialInv, OrdersAreCarts
      <4> QED BY <4>1, <4>2
    <3>3. order'[j].lines = Contents(c)' BY <2>2, <3>2
    <3> QED BY <3>1, <3>3
  <2>4. ~overlapped => OrdersAreCarts' BY <2>1, <2>3 DEF OrdersAreCarts
  <2> QED BY <1>1, <2>4, EndSerial
<1> QED BY <1>8, <1>9, <1>10, <1>11, <1>12 DEF Inv

\* A request that fails or gives up changes nothing else.
LEMMA GiveUpKeeps ==
    ASSUME Inv, SerialInv, NEW r \in Req, txn[r] # Idle, End(r),
           UNCHANGED <<published, cart, line, address, order>>
    PROVE  Inv' /\ SerialInv'
<1>1. Inv'
  BY EndTxn DEF Inv, TypeOK, OneOpen, Open, LinesApart, LinesOn, OrderDeliverable, Placed, Closed
<1>2. order' = order /\ line' = line OBVIOUS
<1>3. SerialInv' BY <1>2, SameOrders, EndSerial
<1> QED BY <1>1, <1>3

\* Addresses are created and offerings go on and off sale beside the requests.
LEMMA BesideKeeps ==
    ASSUME Inv, SerialInv, UNCHANGED <<cart, line, order, txn, overlapped>>, published' \subseteq Offerings,
           address' \in [AddressIds -> {"none", "active", "deleted"}],
           \A a \in AddressIds : address[a] = "active" => address'[a] = "active"
    PROVE  Inv' /\ SerialInv'
<1>1. TypeOK' BY DEF Inv, TypeOK
<1>2. OneOpen' /\ LinesApart' /\ Closed' /\ txn' \in [Req -> Txns]
  BY DEF Inv, OneOpen, Open, LinesApart, LinesOn, Closed, Placed
<1>3. OrderDeliverable' BY OrderRows DEF Inv, OrderDeliverable, Placed
<1>4. SerialInv' BY DEF SerialInv, OrdersAreCarts, StillThere, Open, Placed, Contents, LinesOn
<1> QED BY <1>1, <1>2, <1>3, <1>4 DEF Inv

-----------------------------------------------------------------------------
(* The theorems.                                                           *)

LEMMA InitInv == Init => Inv /\ SerialInv
<1> SUFFICES ASSUME Init PROVE Inv /\ SerialInv OBVIOUS
<1>1. Placed = {} /\ Open = {} BY DEF Init, Placed, Open
<1>2. \A c \in CartIds : LinesOn(c) = {} BY IdsAssumption DEF Init, LinesOn, NoLine
<1>3. TypeOK /\ txn \in [Req -> Txns] BY DEF Init, TypeOK, Txns
<1>4. Inv BY <1>1, <1>2, <1>3 DEF Inv, OneOpen, LinesApart, OrderDeliverable, Closed
<1>5. \A r \in Req : txn[r] = Idle /\ StillThere(txn[r]) BY DEF Init, StillThere, Idle
<1> QED BY <1>1, <1>4, <1>5 DEF SerialInv, OrdersAreCarts

LEMMA NextInv == Inv /\ SerialInv /\ [Next]_vars => (Inv /\ SerialInv)'
<1> SUFFICES ASSUME Inv, SerialInv, [Next]_vars PROVE Inv' /\ SerialInv' OBVIOUS
<1>1. CASE UNCHANGED vars BY <1>1, BesideKeeps DEF vars, Inv, TypeOK
<1>2. ASSUME NEW a \in AddressIds, CreateAddress(a) PROVE Inv' /\ SerialInv'
  BY <1>2, BesideKeeps DEF CreateAddress, Inv, TypeOK
<1>3. ASSUME NEW o \in Offerings, Unpublish(o) \/ Publish(o) PROVE Inv' /\ SerialInv'
  BY <1>3, BesideKeeps DEF Unpublish, Publish, Inv, TypeOK
<1>4. ASSUME NEW r \in Req,
             \/ \E o \in Offerings, q \in 0..MaxQty : AddLineCheck(r, o, q)
             \/ \E l \in LineIds, q \in 0..MaxQty : UpdateLineCheck(r, l, q)
             \/ \E l \in LineIds : RemoveLineCheck(r, l)
             \/ \E a \in AddressIds : DeleteAddressCheck(r, a)
             \/ \E a \in AddressIds \cup {NoId} : PlaceOrderCheck(r, a)
      PROVE  Inv' /\ SerialInv'
  BY <1>4, AddCheckKeeps, UpdateCheckKeeps, RemoveCheckKeeps, DeleteCheckKeeps, PlaceCheckKeeps
<1>5. ASSUME NEW r \in Req,
             \/ AddLineCommit(r)
             \/ UpdateLineCommit(r)
             \/ RemoveLineCommit(r)
             \/ DeleteAddressCommit(r)
             \/ PlaceOrderCommit(r)
      PROVE  Inv' /\ SerialInv'
  BY <1>5, AddCommitKeeps, UpdateCommitKeeps, RemoveCommitKeeps, DeleteCommitKeeps, PlaceCommitKeeps
<1>6. ASSUME NEW r \in Req, AddLineFail(r) \/ Abort(r) PROVE Inv' /\ SerialInv'
  BY <1>6, GiveUpKeeps DEF AddLineFail, Abort, Idle
<1> QED BY <1>1, <1>2, <1>3, <1>4, <1>5, <1>6 DEF Next

\* Both invariants hold of every reachable state.
THEOREM InvHolds == Spec => [](Inv /\ SerialInv)
BY InitInv, NextInv, PTL DEF Spec

\* However add_line and place_order overlap, the unique indexes leave the tenant
\* one open cart, and an offering on it once.
THEOREM CartIsOne == Spec => []OneOpenCart
<1>1. ASSUME Inv PROVE OneOpenCart
  <2>1. CASE Open = {} BY <1>1, <2>1, FS_EmptySet DEF OneOpenCart, Inv, LinesApart
  <2>2. ASSUME NEW c \in Open PROVE OneOpenCart
    <3>1. Open = {c} BY <1>1 DEF Inv, OneOpen
    <3>2. Cardinality(Open) = 1 BY <3>1, FS_Singleton
    <3> QED BY <1>1, <3>2 DEF OneOpenCart, Inv, LinesApart
  <2> QED BY <2>1, <2>2
<1> QED BY <1>1, InvHolds, PTL

\* However place_order and delete_address overlap, an order has lines, an
\* address if one of them needs it, and that address is there.
THEOREM Deliverable == Spec => []OrderDeliverable
<1>1. Inv => OrderDeliverable BY DEF Inv
<1> QED BY <1>1, InvHolds, PTL

\* place_order closes the cart for good, and when requests do not overlap the
\* order is that cart, line by line, and no other order is.
THEOREM OrderKeepsCart == Spec => []OrderIsItsCart
<1>1. Inv /\ SerialInv => OrderIsItsCart BY DEF Inv, SerialInv, OrdersAreCarts, Closed, OrderIsItsCart
<1> QED BY <1>1, InvHolds, PTL
=============================================================================
