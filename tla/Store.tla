------------------------------- MODULE Store --------------------------------
(***************************************************************************)
(* What a vendor sets up around a shipped product: service cities with     *)
(* their warehouses and pincodes, the cities the product is sold in, its   *)
(* stock (CatalogService), and the platform's standard plugins, which the  *)
(* vendor activates (PluginService).  The vendor is verified and owns the  *)
(* product; Catalog has how that comes about.                              *)
(*                                                                         *)
(* Requests in flight: see UnitOfWork.  Deleting rows and inserting others *)
(* in their place is not an update: a request removes only rows it could   *)
(* see when it began, and collides with rows inserted since.  What a       *)
(* commit meets is the database's: foreign keys, unique keys, cascades.    *)
(***************************************************************************)
CONSTANTS
    CityIds,          \* keys for service cities, each with a warehouse of its own
    Names,            \* city names
    Pincodes,
    PluginIds,        \* keys for standard plugins of one category
    Req,
    AfterOverlap      \* bound: whether requests begin after some have overlapped

ASSUME StoreAssumption == AfterOverlap \in BOOLEAN /\ "own" \notin CityIds

VARIABLES db, writes, overlapped
vars == <<db, writes, overlapped>>

\* A column is named by its field and its row.
City(k)       == <<"city_name", k>>
Pin(k, p)     == <<"pincode", k, p>>
Link(k)       == <<"product_service_city", k>>
Stock(w)      == <<"available", w>>         \* the product's: "zero" or "some"
Own           == <<"warehouse", "own">>       \* one that belongs to no city
Plugin(j)     == <<"status", j>>
Activation(j) == <<"activation", j>>

Warehouses == CityIds \cup {"own"}
PinsOf(k)  == {Pin(k, p) : p \in Pincodes}
Links      == {Link(k) : k \in CityIds}

Columns ==
    {Own} \cup {City(k) : k \in CityIds} \cup Links
      \cup {Pin(k, p) : k \in CityIds, p \in Pincodes} \cup {Stock(w) : w \in Warehouses}
      \cup {Plugin(j) : j \in PluginIds} \cup {Activation(j) : j \in PluginIds}

INSTANCE UnitOfWork

\* A request that sends its rows whether or not they differ from those there.
Send(r, rows) ==
    /\ writes[r] = Nothing
    /\ writes' = [writes EXCEPT ![r] = rows]
    /\ overlapped' = (overlapped \/ \E q \in Req : writes[q] # Nothing)
    /\ UNCHANGED db

\* Of the columns in all: those that hold a row lose it, those in kept get one.
Replace(all, kept) ==
    [c \in {c \in all : c \in kept \/ db[c] # "none"} |-> IF c \in kept THEN "row" ELSE "none"]

Exists(w) == IF w = "own" THEN db[Own] # "none" ELSE db[City(w)] # "none"

-----------------------------------------------------------------------------
(* Locations and stock.                                                    *)

AddServiceCity(r, k, n) ==
    /\ \A i \in CityIds : db[City(i)] # n
    /\ \A c \in {City(k), Link(k), Stock(k)} \cup PinsOf(k) : Fresh(c)
    /\ Begin(r, [db EXCEPT ![City(k)] = n])

\* The warehouse goes with the city; so do pincodes and product links, which the
\* commit's cascade removes, late ones included.
DeleteServiceCity(r, k) ==
    /\ db[City(k)] # "none" /\ db[Stock(k)] = "none"
    /\ Begin(r, [db EXCEPT ![City(k)] = "none"])

SetCityPincodes(r, k, pins) ==
    /\ db[City(k)] # "none"
    /\ Send(r, Replace(PinsOf(k), {Pin(k, p) : p \in pins}))

\* Mutant: the cities the product had stay.
AssignCities_Adds(r, cities) ==
    /\ cities # {} /\ \A k \in cities : db[City(k)] # "none"
    /\ Send(r, [c \in {Link(k) : k \in cities} |-> "row"])

\* Mutant: an assignment may name no city.
AssignCities_None(r, cities) ==
    /\ \A k \in cities : db[City(k)] # "none"
    /\ Send(r, Replace(Links, {Link(k) : k \in cities}))

\* set_product_service_cities, and submit_product_listing on its way.
AssignCities(r, cities) ==
    /\ cities # {} /\ \A k \in cities : db[City(k)] # "none"
    /\ Send(r, Replace(Links, {Link(k) : k \in cities}))

CreateWarehouse(r) ==
    /\ Fresh(Own)
    /\ Begin(r, [db EXCEPT ![Own] = "row"])

AddInventory(r, w, n) ==
    /\ Exists(w) /\ db[Stock(w)] = "none"
    /\ Begin(r, [db EXCEPT ![Stock(w)] = n])

AdjustInventory(r, w, n) ==
    /\ db[Stock(w)] # "none"
    /\ Begin(r, [db EXCEPT ![Stock(w)] = n])

-----------------------------------------------------------------------------
(* Standard plugins.                                                       *)

CreateStandardPlugin(r, j, publish) ==
    /\ \A i \in PluginIds : db[Plugin(i)] = "none"
    /\ Fresh(Plugin(j)) /\ Fresh(Activation(j))
    /\ Begin(r, [db EXCEPT ![Plugin(j)] = IF publish THEN "active" ELSE "draft"])

\* unpublished and deprecated differ from draft in name only.
SetStandardPluginStatus(r, j, status) ==
    /\ db[Plugin(j)] # "none"
    /\ Begin(r, [db EXCEPT ![Plugin(j)] = status])

\* No product has a standard plugin (create_product asks for one of the vendor's
\* own), so only the database stands in the way: see ForeignKeys.
DeleteStandardPlugin(r, j) ==
    /\ db[Plugin(j)] # "none"
    /\ Begin(r, [db EXCEPT ![Plugin(j)] = "none"])

ActivateStandardPlugin(r, j) ==
    /\ db[Plugin(j)] = "active"
    /\ Begin(r, [db EXCEPT ![Activation(j)] = "active"])

DeactivateStandardPlugin(r, j) ==
    /\ db[Plugin(j)] # "none" /\ db[Activation(j)] # "none"
    /\ Begin(r, [db EXCEPT ![Activation(j)] = "inactive"])

-----------------------------------------------------------------------------
(* What the database does with a commit.                                   *)

Rows(r) == [c \in Columns |-> IF c \in DOMAIN writes[r] THEN writes[r][c] ELSE db[c]]

Replaced == Links \cup UNION {PinsOf(k) : k \in CityIds}

\* Columns in which r's commit leaves another row, or none, where others in
\* flight saw one or none.
Overtakes(r) ==
    {c \in DOMAIN writes[r] :
        IF writes[r][c] = "none" THEN c \notin Replaced ELSE c \in Replaced \/ db[c] = "none"}

\* Their deletions find nothing, their inserts and updates fail.
Late(q, cs) ==
    [c \in {c \in DOMAIN writes[q] : c \in cs => writes[q][c] # "none"} |->
        IF c \in cs THEN "clash" ELSE writes[q][c]]

\* Rows r inserts, and rows it deletes.
Inserts(r) ==
    {c \in DOMAIN writes[r] : writes[r][c] # "none" /\ (db[c] = "none" \/ c \in Replaced)}
Deletes(r) == {c \in DOMAIN writes[r] : writes[r][c] = "none"}

\* uq_vendor_service_cities_vendor_city and uq_plugins_platform_category compare a
\* row that comes with those there; a plugin's category never changes.
UniqueKeys(r) ==
    /\ \A k \in CityIds : City(k) \in DOMAIN writes[r] \ Deletes(r) =>
          \A i \in CityIds \ {k} : Rows(r)[City(i)] # writes[r][City(k)]
    /\ \A j \in PluginIds : Plugin(j) \in Inserts(r) =>
          \A i \in PluginIds \ {j} : Rows(r)[Plugin(i)] = "none"

\* Mutant: the stock of a warehouse does not refer to it.
ForeignKeys_NoStock(r) ==
    /\ \A k \in CityIds : Inserts(r) \cap ({Link(k)} \cup PinsOf(k)) # {} => Rows(r)[City(k)] # "none"
    /\ \A j \in PluginIds :
          /\ Activation(j) \in Inserts(r) => Rows(r)[Plugin(j)] # "none"
          /\ Plugin(j) \in Deletes(r) => Rows(r)[Activation(j)] = "none"

\* A row that comes refers to one that is there; one that goes has no stock and
\* no activation.
ForeignKeys(r) ==
    /\ \A k \in CityIds :
          /\ Inserts(r) \cap ({Link(k), Stock(k)} \cup PinsOf(k)) # {} => Rows(r)[City(k)] # "none"
          /\ City(k) \in Deletes(r) => Rows(r)[Stock(k)] = "none"
    /\ \A j \in PluginIds :
          /\ Activation(j) \in Inserts(r) => Rows(r)[Plugin(j)] # "none"
          /\ Plugin(j) \in Deletes(r) => Rows(r)[Activation(j)] = "none"

\* ON DELETE CASCADE: pincodes and product links go with a city.
Cascaded(r) == UNION {PinsOf(k) \cup {Link(k)} : k \in {k \in CityIds : City(k) \in Deletes(r)}}

\* The keys are checked for what the commit writes, not for what is there.
CommitRows(r) ==
    /\ writes[r] # Nothing
    /\ \A c \in DOMAIN writes[r] : writes[r][c] # "clash"
    /\ UniqueKeys(r) /\ ForeignKeys(r)
    /\ db' = [c \in Columns |-> IF c \in Cascaded(r) THEN "none" ELSE Rows(r)[c]]
    /\ writes' = [q \in Req |-> IF q = r THEN Nothing ELSE Late(q, Overtakes(r))]
    /\ UNCHANGED overlapped

-----------------------------------------------------------------------------
LocationRoutes(r) ==
    \/ \E k \in CityIds :
          \/ \E n \in Names : AddServiceCity(r, k, n)
          \/ DeleteServiceCity(r, k)
          \/ \E pins \in SUBSET Pincodes : SetCityPincodes(r, k, pins)
    \/ \E cities \in SUBSET CityIds : AssignCities(r, cities)
    \/ CreateWarehouse(r)
    \/ \E w \in Warehouses, n \in {"zero", "some"} : AddInventory(r, w, n) \/ AdjustInventory(r, w, n)

StandardPluginRoutes(r) ==
    \E j \in PluginIds :
       \/ \E publish \in BOOLEAN : CreateStandardPlugin(r, j, publish)
       \/ \E status \in {"active", "draft"} : SetStandardPluginStatus(r, j, status)
       \/ DeleteStandardPlugin(r, j)
       \/ ActivateStandardPlugin(r, j)
       \/ DeactivateStandardPlugin(r, j)

Init ==
    /\ db = [c \in Columns |-> "none"]
    /\ writes = [r \in Req |-> Nothing]
    /\ overlapped = FALSE

Next ==
    \E r \in Req :
       \/ (overlapped => AfterOverlap) /\ (LocationRoutes(r) \/ StandardPluginRoutes(r))
       \/ CommitRows(r)
       \/ Abort(r)

Spec == Init /\ [][Next]_vars

-----------------------------------------------------------------------------
Served == {k \in CityIds : db[Link(k)] # "none"}

(* However requests interleave.                                            *)

\* Every column has its type, and whatever is deleted while it is being used -
\* a city while stock, a link or a pincode is added to it, a plugin while it is
\* activated - no row is left that refers to nothing, and no name or category
\* is there twice.
StoreSound ==
    /\ DOMAIN db = Columns
    /\ \A k \in CityIds :
          /\ db[City(k)] \in Names \cup {"none"}
          /\ db[Link(k)] # "none" \/ db[Stock(k)] # "none" \/ (\E c \in PinsOf(k) : db[c] # "none")
                => db[City(k)] # "none"
          /\ \A i \in CityIds : db[City(i)] = db[City(k)] /\ db[City(k)] # "none" => i = k
    /\ \A j \in PluginIds :
          /\ db[Plugin(j)] \in {"none", "active", "draft"}
          /\ db[Activation(j)] # "none" => db[Plugin(j)] # "none"
          /\ \A i \in PluginIds : db[Plugin(i)] # "none" /\ db[Plugin(j)] # "none" => i = j

\* A product sold in some city stays sold somewhere, however assignments
\* overlap with each other and with the deletion of cities, until the vendor
\* deletes its last city; and stock is never lost with a city.
StaysServed ==
    [][/\ Served # {} /\ Served' = {} => \E k \in Served : db[City(k)] # "none" /\ db'[City(k)] = "none"
       /\ \A w \in Warehouses : db[Stock(w)] # "none" => db'[Stock(w)] # "none"]_vars

(* Requests that do not overlap.                                           *)

\* After an assignment the product is sold in the cities asked for, and in no
\* other it was sold in before.
AsAsked ==
    [][\A r \in Req :
         LET asked == {k \in CityIds : Link(k) \in DOMAIN writes[r] /\ writes[r][Link(k)] # "none"}
         IN  ~overlapped /\ asked # {} /\ writes'[r] = Nothing /\ db' # db => Served' = asked]_vars
=============================================================================
