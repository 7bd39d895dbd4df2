------------------------------ MODULE Checkout ------------------------------
(***************************************************************************)
(* The cart of one tenant, its delivery addresses and the orders placed    *)
(* from it: add_line, update_line, remove_line, create_address,            *)
(* delete_address and place_order of CommerceService.  Carts, addresses    *)
(* and orders of different tenants share no row.                           *)
(*                                                                         *)
(* A request reads and checks in one step and commits in a later one.  The *)
(* commit re-checks nothing but what the database enforces: the unique     *)
(* indexes on carts and cart lines, the foreign key from orders to         *)
(* addresses, and that an updated row still exists.                        *)
(***************************************************************************)
EXTENDS Naturals, FiniteSets

CONSTANTS
    Offerings,      \* offerings of products that go into a cart
    NeedsAddress,   \* those whose fulfilment type is in ADDRESS_REQUIRED
    CartIds, LineIds, AddressIds, OrderIds,   \* primary keys still to be used
    MaxQty,         \* largest quantity a request asks for
    Req             \* request slots
NoId == "no id"

ASSUME OfferingsAssumption == NeedsAddress \subseteq Offerings
\* What stands for no row is not a key.
ASSUME IdsAssumption == NoId \notin CartIds /\ "deleted" \notin CartIds /\ NoId \notin AddressIds
ASSUME QtyAssumption == MaxQty \in Nat \ {0}

VARIABLES
    published,      \* offerings published, with their product
    cart,           \* carts.status, or "none" before the row exists
    line,           \* cart_lines
    address,        \* addresses.status, "none" before, "deleted" after
    order,          \* orders with their order_lines
    txn,            \* the request in each slot
    overlapped      \* history: a request began while another was in flight

vars == <<published, cart, line, address, order, txn, overlapped>>

CartLineRow == [cart : CartIds, offering : Offerings, quantity : 1..MaxQty]
NoLine == [cart |-> NoId]
Removed == [cart |-> "deleted"]

\* An order keeps the offerings and quantities it copied from the cart.
OrderRow == [cart    : CartIds,
             address : AddressIds \cup {NoId},
             lines   : SUBSET (Offerings \X (1..MaxQty))]
NoOrder == [cart |-> NoId]

Idle == [op |-> "none"]

LinesOn(c) == {l \in LineIds : line[l].cart = c}
Open == {c \in CartIds : cart[c] = "open"}

\* The offerings and quantities on cart c.
Contents(c) == {<<line[l].offering, line[l].quantity>> : l \in LinesOn(c)}

Start(r, request) ==
    /\ txn[r] = Idle
    /\ txn' = [txn EXCEPT ![r] = request]
    /\ overlapped' = (overlapped \/ \E q \in Req : txn[q] # Idle)
    /\ UNCHANGED <<published, cart, line, address, order>>

End(r) == txn' = [txn EXCEPT ![r] = Idle] /\ UNCHANGED overlapped

-----------------------------------------------------------------------------
(* add_line                                                                *)

AddLineCheck(r, o, q) ==
    /\ q >= 1
    /\ o \in published
    /\ \A l \in LineIds : line[l].cart \in Open => line[l].offering # o
    /\ \E c \in (IF Open = {} THEN {d \in CartIds : cart[d] = "none"} ELSE Open) :
          Start(r, [op |-> "add", cart |-> c, new |-> Open = {},
                    offering |-> o, quantity |-> q])

\* Mutant: no unique index on open carts.
AddConflict_NoUniqueCart(t) ==
    \/ t.new /\ cart[t.cart] # "none"
    \/ \E l \in LinesOn(t.cart) : line[l].offering = t.offering

\* uq_carts_one_open and uq_cart_lines_cart_offering
AddConflict(t) ==
    \/ t.new /\ (Open # {} \/ cart[t.cart] # "none")
    \/ \E l \in LinesOn(t.cart) : line[l].offering = t.offering

AddLineCommit(r) ==
    LET t == txn[r] IN
    /\ t.op = "add" /\ ~AddConflict(t)
    /\ \E l \in LineIds :
          /\ line[l] = NoLine
          /\ line' = [line EXCEPT ![l] = [cart |-> t.cart, offering |-> t.offering,
                                          quantity |-> t.quantity]]
    /\ cart' = IF t.new THEN [cart EXCEPT ![t.cart] = "open"] ELSE cart
    /\ End(r)
    /\ UNCHANGED <<published, address, order>>

AddLineFail(r) ==
    /\ txn[r].op = "add" /\ AddConflict(txn[r])
    /\ End(r)
    /\ UNCHANGED <<published, cart, line, address, order>>

-----------------------------------------------------------------------------
(* update_line and remove_line                                             *)

UpdateLineCheck(r, l, q) ==
    /\ q >= 1
    /\ line[l].cart \in Open
    /\ Start(r, [op |-> "update", line |-> l, quantity |-> q,
                 seen |-> line[l].quantity])

RemoveLineCheck(r, l) ==
    /\ line[l].cart \in Open
    /\ Start(r, [op |-> "remove", line |-> l])

\* An unchanged quantity is not written; a row that is gone makes the UPDATE
\* fail, which ends the request without effect.
UpdateLineCommit(r) ==
    LET t == txn[r] IN
    /\ t.op = "update"
    /\ line' = IF line[t.line].cart \in CartIds /\ t.quantity # t.seen
               THEN [line EXCEPT ![t.line].quantity = t.quantity]
               ELSE line
    /\ End(r)
    /\ UNCHANGED <<published, cart, address, order>>

\* The key of a deleted line is not used again.
RemoveLineCommit(r) ==
    /\ txn[r].op = "remove"
    /\ line' = [line EXCEPT ![txn[r].line] = Removed]
    /\ End(r)
    /\ UNCHANGED <<published, cart, address, order>>

-----------------------------------------------------------------------------
(* create_address and delete_address                                       *)

CreateAddress(a) ==
    /\ address[a] = "none"
    /\ address' = [address EXCEPT ![a] = "active"]
    /\ UNCHANGED <<published, cart, line, order, txn, overlapped>>

OnOrder(a) == \E i \in OrderIds : order[i] # NoOrder /\ order[i].address = a

\* No code gives an order the status "fulfilled" that the query exempts, so
\* any order on the address refuses the deletion.
DeleteAddressCheck(r, a) ==
    /\ address[a] = "active"
    /\ ~OnOrder(a)
    /\ Start(r, [op |-> "delete", address |-> a])

\* Mutant: no foreign key from orders to addresses.
DeleteAddressCommit_NoForeignKey(r) ==
    /\ txn[r].op = "delete"
    /\ address' = [address EXCEPT ![txn[r].address] = "deleted"]
    /\ End(r)
    /\ UNCHANGED <<published, cart, line, order>>

DeleteAddressCommit(r) ==
    /\ txn[r].op = "delete"
    /\ address' = IF OnOrder(txn[r].address) THEN address
                  ELSE [address EXCEPT ![txn[r].address] = "deleted"]
    /\ End(r)
    /\ UNCHANGED <<published, cart, line, order>>

-----------------------------------------------------------------------------
(* place_order                                                             *)

\* Mutant: a cart that was checked out can be ordered again.
PlaceOrderCheck_AnyCart(r, a) ==
    \E c \in CartIds :
       /\ LinesOn(c) # {}
       /\ (\E l \in LinesOn(c) : line[l].offering \in NeedsAddress) => a # NoId
       /\ a # NoId => address[a] = "active"
       /\ Start(r, [op |-> "place", cart |-> c, address |-> a, lines |-> Contents(c)])

PlaceOrderCheck(r, a) ==
    \E c \in Open :
       /\ LinesOn(c) # {}
       /\ (\E l \in LinesOn(c) : line[l].offering \in NeedsAddress) => a # NoId
       /\ a # NoId => address[a] = "active"
       /\ Start(r, [op |-> "place", cart |-> c, address |-> a, lines |-> Contents(c)])

\* The order, its lines and the cart's status are committed together.  The
\* cart row is updated by primary key, whatever its status is by now.
PlaceOrderCommit(r) ==
    LET t == txn[r] IN
    /\ t.op = "place"
    /\ t.address # NoId => address[t.address] = "active"
    /\ \E i \in OrderIds :
          /\ order[i] = NoOrder
          /\ order' = [order EXCEPT ![i] =
                [cart |-> t.cart, address |-> t.address, lines |-> t.lines]]
    /\ cart' = [cart EXCEPT ![t.cart] = "checked_out"]
    /\ End(r)
    /\ UNCHANGED <<published, line, address>>

-----------------------------------------------------------------------------
\* archive_product, reject_product, suspend_vendor, publish_offering and
\* approve_product change what is published while carts are open.
Unpublish(o) ==
    /\ o \in published
    /\ published' = published \ {o}
    /\ UNCHANGED <<cart, line, address, order, txn, overlapped>>

Publish(o) ==
    /\ o \notin published
    /\ published' = published \cup {o}
    /\ UNCHANGED <<cart, line, address, order, txn, overlapped>>

\* The session closes without a commit: the process stops, or a foreign key
\* or a vanished row makes the database refuse the commit.
Abort(r) ==
    /\ txn[r] # Idle
    /\ End(r)
    /\ UNCHANGED <<published, cart, line, address, order>>

Init ==
    /\ published = Offerings
    /\ cart = [c \in CartIds |-> "none"]
    /\ line = [l \in LineIds |-> NoLine]
    /\ address = [a \in AddressIds |-> "none"]
    /\ order = [i \in OrderIds |-> NoOrder]
    /\ txn = [r \in Req |-> Idle]
    /\ overlapped = FALSE

Next ==
    \/ \E r \in Req :
          \/ \E o \in Offerings, q \in 0..MaxQty : AddLineCheck(r, o, q)
          \/ AddLineCommit(r)
          \/ AddLineFail(r)
          \/ \E l \in LineIds, q \in 0..MaxQty : UpdateLineCheck(r, l, q)
          \/ \E l \in LineIds : RemoveLineCheck(r, l)
          \/ UpdateLineCommit(r)
          \/ RemoveLineCommit(r)
          \/ \E a \in AddressIds : DeleteAddressCheck(r, a)
          \/ DeleteAddressCommit(r)
          \/ \E a \in AddressIds \cup {NoId} : PlaceOrderCheck(r, a)
          \/ PlaceOrderCommit(r)
          \/ Abort(r)
    \/ \E a \in AddressIds : CreateAddress(a)
    \/ \E o \in Offerings : Unpublish(o) \/ Publish(o)

Spec == Init /\ [][Next]_vars

-----------------------------------------------------------------------------
\* Every row has its type.
TypeOK ==
    /\ published \subseteq Offerings
    /\ cart \in [CartIds -> {"none", "open", "checked_out"}]
    /\ line \in [LineIds -> CartLineRow \cup {NoLine, Removed}]
    /\ address \in [AddressIds -> {"none", "active", "deleted"}]
    /\ order \in [OrderIds -> OrderRow \cup {NoOrder}]
    /\ overlapped \in BOOLEAN

Placed == {i \in OrderIds : order[i] # NoOrder}

\* The tenant has at most one open cart, and an offering is on it once, also
\* when two requests create the cart or add the line at the same time.
OneOpenCart ==
    /\ TypeOK
    /\ Cardinality(Open) <= 1
    /\ \A c \in CartIds : \A l, m \in LinesOn(c) :
          line[l].offering = line[m].offering => l = m

\* An order can be delivered: it has lines, an address when one of them needs
\* it, and that address still exists whatever was deleted in the meantime.
OrderDeliverable ==
    \A i \in Placed :
        /\ order[i].lines # {}
        /\ (\E x \in order[i].lines : x[1] \in NeedsAddress) => order[i].address # NoId
        /\ order[i].address # NoId => address[order[i].address] = "active"

\* The cart an order was placed from is closed and stays closed.  While
\* requests have not overlapped it became one order, with one line per cart
\* line and its quantity, for ever: a closed cart does not change.
OrderIsItsCart ==
    \A i \in Placed :
        /\ cart[order[i].cart] = "checked_out"
        /\ ~overlapped =>
              /\ order[i].lines = Contents(order[i].cart)
              /\ \A j \in Placed : order[i].cart = order[j].cart => i = j
=============================================================================
