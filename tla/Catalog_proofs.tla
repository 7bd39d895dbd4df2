---------------------------- MODULE Catalog_proofs ----------------------------
(***************************************************************************)
(* Proofs about Catalog: what holds for every set of offerings and texts   *)
(* and any number of overlapping requests; and, as the instance Shop,      *)
(* about Store, for every set of cities, names, pincodes and plugins: no   *)
(* row refers to what was deleted (StoreIsSound), a product stays sold     *)
(* somewhere (ProductStaysServed) and as was asked (ServedAsAsked).        *)
(***************************************************************************)
EXTENDS Catalog, TLAPS

\* Typed rows.
Sound(new) ==
    /\ DOMAIN new = Columns
    /\ \A c \in Columns : new[c] \in Values(c)

-----------------------------------------------------------------------------
\* Rows with some offerings set to another offering status are typed rows.
LEMMA SetOfferingsSound ==
    ASSUME TypeOK, NEW new, Sound(new), NEW from, NEW to \in {"draft", "published", "unpublished"}
    PROVE  /\ Sound(SetOfferings(new, from, to))
           /\ \A c \in Fixed : SetOfferings(new, from, to)[c] = new[c]
           /\ \A o \in Offerings : SetOfferings(new, from, to)[o] = IF db[o] \in from THEN to ELSE new[o]
BY ColumnsAssumption DEF SetOfferings, Sound, Values, Columns, Fixed

-----------------------------------------------------------------------------
(* The inductive invariant relates what requests in flight are going to    *)
(* write to the rows as they are now.                                      *)

\* Nobody takes a product back to "not_submitted", and who puts an offering
\* on sale also marks the product, unless it is marked already.
SaleWrites ==
    \A r \in Req :
        /\ "pa" \in DOMAIN writes[r] => writes[r]["pa"] # "not_submitted"
        /\ \A o \in Offerings :
              o \in DOMAIN writes[r] /\ writes[r][o] = "published"
                 => "pa" \in DOMAIN writes[r] \/ db["pa"] # "not_submitted"

\* Only one registration is in flight while there is no vendor; decisions are
\* about a vendor that exists, and a rejection carries the participation.
VendorWrites ==
    /\ db["vendor"] = "none" => db["verification"] = "none"
    /\ \A r \in Req :
        /\ "vendor" \in DOMAIN writes[r] => writes[r]["vendor"] # "none"
        /\ "verification" \in DOMAIN writes[r]
              => "vendor" \in DOMAIN writes[r] \/ db["vendor"] # "none"
        /\ "verification" \in DOMAIN writes[r] /\ writes[r]["verification"] = "rejected"
              => /\ db["vendor"] # "none"
                 /\ \/ "participation" \in DOMAIN writes[r] /\ writes[r]["participation"] = "consumer"
                    \/ "participation" \notin DOMAIN writes[r] /\ db["participation"] = "consumer"
        /\ "participation" \in DOMAIN writes[r] /\ writes[r]["participation"] = "consumer_and_vendor"
              => /\ db["vendor"] = "none" /\ "vendor" \in DOMAIN writes[r]
                 /\ "verification" \in DOMAIN writes[r] /\ writes[r]["verification"] = "queued"
    /\ \A r, q \in Req :
          db["vendor"] = "none" /\ "vendor" \in DOMAIN writes[r] /\ "vendor" \in DOMAIN writes[q]
             => r = q

Inv == TypeOK /\ OnSaleWasSubmitted /\ RejectedIsConsumer /\ SaleWrites /\ VendorWrites

\* What the handlers guarantee of the rows they are going to leave.
Leaves(new) ==
    /\ Sound(new)
    /\ new["pa"] = "not_submitted" => db["pa"] = "not_submitted"
    /\ \A o \in Offerings :
          new[o] = "published" /\ new[o] # db[o] => new["pa"] # "not_submitted"
    /\ new["vendor"] = "none" => db["vendor"] = "none"
    /\ db["vendor"] = "none" /\ new["vendor"] # "none" => Fresh("vendor")
    /\ new["verification"] # db["verification"] => new["vendor"] # "none"
    /\ new["verification"] # db["verification"] /\ new["verification"] = "rejected"
          => db["vendor"] # "none" /\ new["participation"] = "consumer"
    /\ new["participation"] # db["participation"] /\ new["participation"] = "consumer_and_vendor"
          => /\ db["vendor"] = "none" /\ new["vendor"] # "none"
             /\ db["verification"] # "queued" /\ new["verification"] = "queued"

LEMMA FixedColumns ==
    /\ \A c \in Fixed : c \in Columns
    /\ \A o \in Offerings : o \in Columns
    /\ "vendor" \in Columns /\ "verification" \in Columns /\ "participation" \in Columns
    /\ "version" \in Columns /\ "plugin_id" \in Columns /\ "product" \in Columns
    /\ "pa" \in Columns /\ "listing" \in Columns /\ "review" \in Columns /\ "reviewed" \in Columns
    /\ "Standard" \in Columns
BY OfferingsAssumption DEF Columns, Fixed

LEMMA TypedBegin ==
    ASSUME TypeOK, NEW r \in Req, NEW new, Begin(r, new), Sound(new)
    PROVE  TypeOK'
<1>1. /\ db' = db /\ overlapped' \in BOOLEAN
      /\ DOMAIN writes' = Req
      /\ DOMAIN writes'[r] = {c \in Columns : new[c] # db[c]}
      /\ \A c \in DOMAIN writes'[r] : writes'[r][c] = new[c]
      /\ \A q \in Req : q # r => writes'[q] = writes[q]
  BY BeginWrites DEF TypeOK
<1>2. \A q \in Req : /\ DOMAIN writes'[q] \subseteq Columns
                     /\ \A c \in DOMAIN writes'[q] : writes'[q][c] \in Values(c)
  <2> TAKE q \in Req
  <2>1. CASE q = r BY <1>1, <2>1 DEF Sound
  <2>2. CASE q # r BY <1>1, <2>2 DEF TypeOK
  <2> QED BY <2>1, <2>2
<1> QED BY <1>1, <1>2 DEF TypeOK

LEMMA TypedCommit ==
    ASSUME TypeOK, NEW r \in Req, Commit(r)
    PROVE  TypeOK'
<1>1. /\ DOMAIN db' = Columns /\ overlapped' = overlapped
      /\ \A c \in Columns : db'[c] = IF c \in DOMAIN writes[r] THEN writes[r][c] ELSE db[c]
      /\ DOMAIN writes' = Req
      /\ DOMAIN writes'[r] = {}
      /\ \A q \in Req : q # r => writes'[q] = writes[q]
  BY CommitWrites DEF TypeOK
<1> QED BY <1>1 DEF TypeOK

LEMMA BeginKeeps ==
    ASSUME Inv, NEW r \in Req, NEW new, Begin(r, new), Leaves(new)
    PROVE  Inv'
<1>1. /\ db' = db
      /\ DOMAIN writes' = Req
      /\ DOMAIN writes'[r] = {c \in Columns : new[c] # db[c]}
      /\ \A c \in DOMAIN writes'[r] : writes'[r][c] = new[c]
      /\ \A q \in Req : q # r => writes'[q] = writes[q]
  BY BeginWrites DEF Inv, TypeOK
<1>2. TypeOK' BY TypedBegin DEF Inv, Leaves
<1>3. OnSaleWasSubmitted' /\ RejectedIsConsumer'
  BY <1>1 DEF Inv, OnSaleWasSubmitted, OnSale, RejectedIsConsumer
<1>4. SaleWrites'
  <2> SUFFICES ASSUME NEW q \in Req
               PROVE  /\ "pa" \in DOMAIN writes'[q] => writes'[q]["pa"] # "not_submitted"
                      /\ \A o \in Offerings :
                            o \in DOMAIN writes'[q] /\ writes'[q][o] = "published"
                               => "pa" \in DOMAIN writes'[q] \/ db["pa"] # "not_submitted"
    BY <1>1 DEF SaleWrites
  <2>1. CASE q = r BY <1>1, <2>1, FixedColumns DEF Leaves
  <2>2. CASE q # r BY <1>1, <2>2 DEF Inv, SaleWrites
  <2> QED BY <2>1, <2>2
<1>5. VendorWrites'
  <2>1. "vendor" \in DOMAIN writes'[r] /\ db["vendor"] = "none"
           => \A q \in Req : q # r => "vendor" \notin DOMAIN writes[q]
    BY <1>1, FixedColumns DEF Leaves, Fresh
  <2>2. \A q, p \in Req :
           db["vendor"] = "none" /\ "vendor" \in DOMAIN writes'[q] /\ "vendor" \in DOMAIN writes'[p]
              => q = p
    BY <1>1, <2>1 DEF Inv, VendorWrites
  <2>3. ASSUME NEW q \in Req
        PROVE  /\ "vendor" \in DOMAIN writes'[q] => writes'[q]["vendor"] # "none"
               /\ "verification" \in DOMAIN writes'[q]
                     => "vendor" \in DOMAIN writes'[q] \/ db["vendor"] # "none"
               /\ "verification" \in DOMAIN writes'[q] /\ writes'[q]["verification"] = "rejected"
                     => /\ db["vendor"] # "none"
                        /\ \/ /\ "participation" \in DOMAIN writes'[q]
                              /\ writes'[q]["participation"] = "consumer"
                           \/ /\ "participation" \notin DOMAIN writes'[q]
                              /\ db["participation"] = "consumer"
               /\ "participation" \in DOMAIN writes'[q]
                  /\ writes'[q]["participation"] = "consumer_and_vendor"
                     => /\ db["vendor"] = "none" /\ "vendor" \in DOMAIN writes'[q]
                        /\ "verification" \in DOMAIN writes'[q]
                        /\ writes'[q]["verification"] = "queued"
    <3>1. CASE q = r BY <1>1, <3>1, FixedColumns DEF Leaves
    <3>2. CASE q # r BY <1>1, <3>2 DEF Inv, VendorWrites
    <3> QED BY <3>1, <3>2
  <2> QED BY <1>1, <2>2, <2>3 DEF Inv, VendorWrites
<1> QED BY <1>2, <1>3, <1>4, <1>5 DEF Inv

LEMMA CommitKeeps ==
    ASSUME Inv, NEW r \in Req, Commit(r)
    PROVE  Inv'
<1>1. /\ DOMAIN db' = Columns
      /\ \A c \in Columns : db'[c] = IF c \in DOMAIN writes[r] THEN writes[r][c] ELSE db[c]
      /\ DOMAIN writes' = Req
      /\ DOMAIN writes'[r] = {}
      /\ \A q \in Req : q # r => writes'[q] = writes[q]
  BY CommitWrites DEF Inv, TypeOK
<1>2. TypeOK' BY TypedCommit DEF Inv
<1>3. OnSaleWasSubmitted'
  BY <1>1, FixedColumns DEF Inv, OnSaleWasSubmitted, OnSale, SaleWrites
<1>4. RejectedIsConsumer'
  <2>1. db["participation"] \in {"consumer", "consumer_and_vendor"}
    BY FixedColumns DEF Inv, TypeOK, Values
  <2>2. "participation" \in DOMAIN writes[r] =>
           writes[r]["participation"] \in {"consumer", "consumer_and_vendor"}
    BY DEF Inv, TypeOK, Values
  <2> QED BY <1>1, <2>1, <2>2, FixedColumns DEF Inv, RejectedIsConsumer, VendorWrites
<1>5. SaleWrites'
  BY <1>1, FixedColumns DEF Inv, SaleWrites
<1>6. VendorWrites'
  <2>1. "participation" \in DOMAIN writes[r] =>
           writes[r]["participation"] \in {"consumer", "consumer_and_vendor"}
    BY DEF Inv, TypeOK, Values
  <2>2. db'["vendor"] = "none" => db["vendor"] = "none" /\ "vendor" \notin DOMAIN writes[r]
    BY <1>1, FixedColumns DEF Inv, VendorWrites
  <2>3. db'["vendor"] = "none" => db'["verification"] = "none"
    BY <1>1, <2>2, FixedColumns DEF Inv, VendorWrites
  <2>4. ASSUME NEW q \in Req, q # r
        PROVE  /\ "vendor" \in DOMAIN writes[q] => writes[q]["vendor"] # "none"
               /\ "verification" \in DOMAIN writes[q]
                     => "vendor" \in DOMAIN writes[q] \/ db'["vendor"] # "none"
               /\ "verification" \in DOMAIN writes[q] /\ writes[q]["verification"] = "rejected"
                     => /\ db'["vendor"] # "none"
                        /\ \/ /\ "participation" \in DOMAIN writes[q]
                              /\ writes[q]["participation"] = "consumer"
                           \/ /\ "participation" \notin DOMAIN writes[q]
                              /\ db'["participation"] = "consumer"
               /\ "participation" \in DOMAIN writes[q]
                  /\ writes[q]["participation"] = "consumer_and_vendor"
                     => /\ db'["vendor"] = "none" /\ "vendor" \in DOMAIN writes[q]
                        /\ "verification" \in DOMAIN writes[q]
                        /\ writes[q]["verification"] = "queued"
    BY <1>1, <2>1, <2>2, <2>4, FixedColumns DEF Inv, VendorWrites
  <2>5. ASSUME NEW q \in Req, NEW p \in Req, db'["vendor"] = "none",
               "vendor" \in DOMAIN writes'[q], "vendor" \in DOMAIN writes'[p]
        PROVE  q = p
    BY <1>1, <2>2, <2>5 DEF Inv, VendorWrites
  <2> QED BY <1>1, <2>3, <2>4, <2>5 DEF VendorWrites
<1> QED BY <1>2, <1>3, <1>4, <1>5, <1>6 DEF Inv

LEMMA AbortKeeps ==
    ASSUME Inv, NEW r \in Req, Abort(r)
    PROVE  Inv'
<1>1. /\ db' = db /\ overlapped' = overlapped
      /\ DOMAIN writes' = Req
      /\ DOMAIN writes'[r] = {}
      /\ \A q \in Req : q # r => writes'[q] = writes[q]
  BY AbortWrites DEF Inv, TypeOK
<1>2. TypeOK' BY <1>1 DEF Inv, TypeOK
<1>3. OnSaleWasSubmitted' /\ RejectedIsConsumer'
  BY <1>1 DEF Inv, OnSaleWasSubmitted, OnSale, RejectedIsConsumer
<1>4. SaleWrites' BY <1>1 DEF Inv, SaleWrites
<1>5. VendorWrites' BY <1>1 DEF Inv, VendorWrites
<1> QED BY <1>2, <1>3, <1>4, <1>5 DEF Inv

-----------------------------------------------------------------------------
(* Every handler leaves sound rows.                                        *)

\* The type of each column.
LEMMA ColumnTypes ==
    /\ Values("vendor") = {"none", "pending_verification", "verified", "rejected", "suspended"}
    /\ Values("verification") = {"none", "queued", "approved", "rejected"}
    /\ Values("participation") = {"consumer", "consumer_and_vendor"}
    /\ Values("version") = {"pending_review", "approved"}
    /\ Values("plugin_id") = {"none", "plugin"}
    /\ Values("product") = {"none", "draft", "published", "archived"}
    /\ Values("pa") = {"not_submitted", "pending_review", "live", "rejected"}
    /\ Values("listing") = Texts \cup {"none"}
    /\ Values("review") = {"on", "off"}
    /\ Values("reviewed") = Texts \cup {"none"}
    /\ \A o \in Offerings : Values(o) = {"none", "draft", "published", "unpublished"}
<1>1. \A o \in Offerings : /\ o # "vendor" /\ o # "verification" /\ o # "participation"
                           /\ o # "version" /\ o # "plugin_id" /\ o # "product" /\ o # "pa"
                           /\ o # "listing" /\ o # "review" /\ o # "reviewed"
  BY ColumnsAssumption DEF Fixed
<1> QED BY <1>1 DEF Values

LEMMA RegisterKeeps ==
    ASSUME Inv, NEW r \in Req, Register(r)
    PROVE  Inv'
<1> DEFINE new == [db EXCEPT !["vendor"] = "pending_verification",
                             !["verification"] = "queued",
                             !["participation"] = "consumer_and_vendor"]
<1>1. Fresh("vendor") /\ Begin(r, new) BY DEF Register
<1>2. db["vendor"] = "none" /\ db["verification"] = "none"
  BY <1>1 DEF Fresh, Inv, VendorWrites
<1>3. Sound(new)
  BY FixedColumns, ColumnTypes DEF Sound, Inv, TypeOK
<1>4. Leaves(new)
  BY <1>1, <1>2, <1>3, FixedColumns, ColumnsAssumption DEF Leaves, Inv, TypeOK, OnSaleWasSubmitted, OnSale, Fixed
<1> QED BY <1>1, <1>4, BeginKeeps

LEMMA DecideKeeps ==
    ASSUME Inv, NEW r \in Req, NEW d \in {"approved", "rejected"}, DecideVerification(r, d)
    PROVE  Inv'
<1> DEFINE new == [db EXCEPT
                      !["verification"] = d,
                      !["vendor"] = IF d = "approved" THEN "verified" ELSE "rejected",
                      !["participation"] = IF d = "rejected" THEN "consumer" ELSE @]
<1>1. db["verification"] = "queued" /\ Begin(r, new) BY DEF DecideVerification
<1>2. db["vendor"] # "none" BY <1>1 DEF Inv, VendorWrites
<1>3. Sound(new)
  BY FixedColumns, ColumnTypes DEF Sound, Inv, TypeOK
<1>4. /\ \A o \in Offerings : new[o] = db[o]
      /\ new["pa"] = db["pa"] /\ new["verification"] = d /\ new["vendor"] # "none"
      /\ d = "rejected" => new["participation"] = "consumer"
      /\ d # "rejected" => new["participation"] = db["participation"]
  BY FixedColumns, ColumnsAssumption DEF Inv, TypeOK, Fixed
<1> HIDE DEF new
<1>5. Leaves(new) BY <1>1, <1>2, <1>3, <1>4 DEF Leaves
<1> QED BY <1>1, <1>5, BeginKeeps

\* A handler that leaves verification and participation alone, does not
\* create the vendor, and treats the product as it must.
LEMMA ProductLeaves ==
    ASSUME Inv, NEW new, Sound(new),
           new["vendor"] = db["vendor"] \/ (db["vendor"] # "none" /\ new["vendor"] # "none"),
           new["verification"] = db["verification"],
           new["participation"] = db["participation"],
           new["pa"] = "not_submitted" => db["pa"] = "not_submitted",
           \A o \in Offerings : new[o] = "published" /\ new[o] # db[o] => new["pa"] # "not_submitted"
    PROVE  Leaves(new)
BY DEF Leaves

LEMMA SuspendKeeps ==
    ASSUME Inv, NEW r \in Req, SuspendVendor(r)
    PROVE  Inv'
<1> DEFINE row == [db EXCEPT !["vendor"] = "suspended"]
           new == SetOfferings(row, {"published"}, "unpublished")
<1>1. db["vendor"] # "none" /\ Begin(r, new) BY DEF SuspendVendor
<1>2. Sound(row)
  BY FixedColumns, ColumnTypes DEF Sound, Inv, TypeOK
<1>3. /\ \A o \in Offerings : row[o] = db[o]
      /\ row["pa"] = db["pa"] /\ row["vendor"] = "suspended"
      /\ row["verification"] = db["verification"] /\ row["participation"] = db["participation"]
  BY FixedColumns, ColumnsAssumption DEF Inv, TypeOK, Fixed
<1> HIDE DEF row
<1>4. /\ Sound(new)
      /\ \A c \in Fixed : new[c] = row[c]
      /\ \A o \in Offerings : new[o] = IF db[o] \in {"published"} THEN "unpublished" ELSE row[o]
  BY <1>2, SetOfferingsSound DEF Inv
<1> HIDE DEF new
<1>5. Leaves(new) BY <1>1, <1>3, <1>4, ProductLeaves DEF Fixed
<1> QED BY <1>1, <1>5, BeginKeeps

LEMMA ReinstateKeeps ==
    ASSUME Inv, NEW r \in Req, ReinstateVendor(r)
    PROVE  Inv'
<1> DEFINE new == [db EXCEPT !["vendor"] = "verified"]
<1>1. db["vendor"] = "suspended" /\ Begin(r, new) BY DEF ReinstateVendor
<1>2. Sound(new)
  BY FixedColumns, ColumnTypes DEF Sound, Inv, TypeOK
<1>3. /\ \A o \in Offerings : new[o] = db[o]
      /\ new["pa"] = db["pa"] /\ new["vendor"] # "none"
      /\ new["verification"] = db["verification"] /\ new["participation"] = db["participation"]
  BY FixedColumns, ColumnsAssumption DEF Inv, TypeOK, Fixed
<1> HIDE DEF new
<1>4. Leaves(new) BY <1>1, <1>2, <1>3, ProductLeaves
<1> QED BY <1>1, <1>4, BeginKeeps

LEMMA ApproveVersionKeeps ==
    ASSUME Inv, NEW r \in Req, ApproveVersion(r)
    PROVE  Inv'
<1> DEFINE new == [db EXCEPT !["version"] = "approved"]
<1>1. Begin(r, new) BY DEF ApproveVersion
<1>2. Sound(new)
  BY FixedColumns, ColumnTypes DEF Sound, Inv, TypeOK
<1>3. /\ \A o \in Offerings : new[o] = "published" => new[o] = db[o]
      /\ new["pa"] = db["pa"] /\ new["vendor"] = db["vendor"]
      /\ new["verification"] = db["verification"] /\ new["participation"] = db["participation"]
  BY FixedColumns, ColumnsAssumption DEF Inv, TypeOK, Fixed
<1> HIDE DEF new
<1>4. Leaves(new) BY <1>2, <1>3, ProductLeaves
<1> QED BY <1>1, <1>4, BeginKeeps

LEMMA PatchConfigKeeps ==
    ASSUME Inv, NEW r \in Req, NEW s \in {"on", "off"}, PatchConfig(r, s)
    PROVE  Inv'
<1> DEFINE new == [db EXCEPT !["review"] = s]
<1>1. Begin(r, new) BY DEF PatchConfig
<1>2. Sound(new)
  BY FixedColumns, ColumnTypes DEF Sound, Inv, TypeOK
<1>3. /\ \A o \in Offerings : new[o] = "published" => new[o] = db[o]
      /\ new["pa"] = db["pa"] /\ new["vendor"] = db["vendor"]
      /\ new["verification"] = db["verification"] /\ new["participation"] = db["participation"]
  BY FixedColumns, ColumnsAssumption DEF Inv, TypeOK, Fixed
<1> HIDE DEF new
<1>4. Leaves(new) BY <1>2, <1>3, ProductLeaves
<1> QED BY <1>1, <1>4, BeginKeeps

LEMMA CreateProductKeeps ==
    ASSUME Inv, NEW r \in Req, NEW p \in {"none", "plugin"}, NEW t \in Texts,
           CreateProduct(r, p, t)
    PROVE  Inv'
<1> DEFINE new == [db EXCEPT !["product"] = "draft", !["plugin_id"] = p, !["listing"] = t]
<1>1. Begin(r, new) BY DEF CreateProduct
<1>2. Sound(new)
  BY FixedColumns, ColumnTypes DEF Sound, Inv, TypeOK
<1>3. /\ \A o \in Offerings : new[o] = "published" => new[o] = db[o]
      /\ new["pa"] = db["pa"] /\ new["vendor"] = db["vendor"]
      /\ new["verification"] = db["verification"] /\ new["participation"] = db["participation"]
  BY FixedColumns, ColumnsAssumption DEF Inv, TypeOK, Fixed
<1> HIDE DEF new
<1>4. Leaves(new) BY <1>2, <1>3, ProductLeaves
<1> QED BY <1>1, <1>4, BeginKeeps

LEMMA SubmitKeeps ==
    ASSUME Inv, NEW r \in Req, NEW t \in Texts, SubmitProductListing(r, t)
    PROVE  Inv'
<1> DEFINE new == [db EXCEPT !["product"] = "published", !["pa"] = "pending_review",
                             !["listing"] = t, !["Standard"] = "draft"]
<1>1. Begin(r, new) BY DEF SubmitProductListing
<1>2. Sound(new)
  BY FixedColumns, ColumnTypes, OfferingsAssumption DEF Sound, Inv, TypeOK
<1>3. /\ \A o \in Offerings : new[o] = "published" => new[o] = db[o]
      /\ new["pa"] = "pending_review" /\ new["vendor"] = db["vendor"]
      /\ new["verification"] = db["verification"] /\ new["participation"] = db["participation"]
  BY FixedColumns, ColumnsAssumption DEF Inv, TypeOK, Fixed
<1> HIDE DEF new
<1>4. Leaves(new) BY <1>2, <1>3, ProductLeaves
<1> QED BY <1>1, <1>4, BeginKeeps

LEMMA ResubmitKeeps ==
    ASSUME Inv, NEW r \in Req, ResubmitProduct(r)
    PROVE  Inv'
<1> DEFINE new == [db EXCEPT !["pa"] = "pending_review"]
<1>1. Begin(r, new) BY DEF ResubmitProduct
<1>2. Sound(new)
  BY FixedColumns, ColumnTypes DEF Sound, Inv, TypeOK
<1>3. /\ \A o \in Offerings : new[o] = "published" => new[o] = db[o]
      /\ new["pa"] = "pending_review" /\ new["vendor"] = db["vendor"]
      /\ new["verification"] = db["verification"] /\ new["participation"] = db["participation"]
  BY FixedColumns, ColumnsAssumption DEF Inv, TypeOK, Fixed
<1> HIDE DEF new
<1>4. Leaves(new) BY <1>2, <1>3, ProductLeaves
<1> QED BY <1>1, <1>4, BeginKeeps

LEMMA CreateOfferingKeeps ==
    ASSUME Inv, NEW r \in Req, NEW p \in Offerings, CreateOffering(r, p)
    PROVE  Inv'
<1> DEFINE new == [db EXCEPT ![p] = "draft"]
<1>1. Begin(r, new) BY DEF CreateOffering
<1>2. Sound(new)
  BY FixedColumns, ColumnTypes DEF Sound, Inv, TypeOK
<1>3. /\ \A o \in Offerings : new[o] = "published" => new[o] = db[o]
      /\ new["pa"] = db["pa"] /\ new["vendor"] = db["vendor"]
      /\ new["verification"] = db["verification"] /\ new["participation"] = db["participation"]
  BY FixedColumns, ColumnsAssumption DEF Inv, TypeOK, Fixed
<1> HIDE DEF new
<1>4. Leaves(new) BY <1>2, <1>3, ProductLeaves
<1> QED BY <1>1, <1>4, BeginKeeps

\* The same for a handler that first edits the product and then sets some
\* offerings to a status that is not "published", or marks the product live.
LEMMA OfferingsLeaves ==
    ASSUME Inv, NEW row, Sound(row), NEW from, NEW to \in {"draft", "published", "unpublished"},
           row["vendor"] = db["vendor"] \/ (db["vendor"] # "none" /\ row["vendor"] # "none"),
           row["verification"] = db["verification"],
           row["participation"] = db["participation"],
           \A o \in Offerings : row[o] = db[o],
           row["pa"] = "not_submitted" => db["pa"] = "not_submitted",
           to = "published" => row["pa"] # "not_submitted"
    PROVE  Leaves(SetOfferings(row, from, to))
<1> DEFINE new == SetOfferings(row, from, to)
<1>1. /\ Sound(new)
      /\ \A c \in Fixed : new[c] = row[c]
      /\ \A o \in Offerings : new[o] = IF db[o] \in from THEN to ELSE row[o]
  BY SetOfferingsSound DEF Inv
<1> HIDE DEF new
<1>2. Leaves(new) BY <1>1, ProductLeaves DEF Fixed
<1> QED BY <1>2 DEF new

LEMMA UpdateKeeps ==
    ASSUME Inv, NEW r \in Req, NEW t \in Texts, UpdateProduct(r, t)
    PROVE  Inv'
<1> DEFINE edited == [db EXCEPT !["listing"] = t,
                                !["reviewed"] = IF db["review"] = "off" /\ db["pa"] = "live" THEN t ELSE @]
           row    == [edited EXCEPT !["pa"] = "pending_review"]
           again  == db["review"] = "on" /\ db["pa"] \in {"live", "rejected"} /\ t # db["listing"]
           new    == IF again THEN SetOfferings(row, {"published"}, "draft") ELSE edited
<1>1. Begin(r, new) BY DEF UpdateProduct
<1>2. Sound(edited) /\ Sound(row)
  BY FixedColumns, ColumnTypes DEF Sound, Inv, TypeOK
<1>3. /\ \A o \in Offerings : row[o] = db[o] /\ edited[o] = db[o]
      /\ row["pa"] = "pending_review" /\ edited["pa"] = db["pa"]
      /\ row["vendor"] = db["vendor"] /\ edited["vendor"] = db["vendor"]
      /\ row["verification"] = db["verification"] /\ edited["verification"] = db["verification"]
      /\ row["participation"] = db["participation"] /\ edited["participation"] = db["participation"]
  BY FixedColumns, ColumnsAssumption DEF Inv, TypeOK, Fixed
<1> HIDE DEF edited, row
<1>4. Leaves(edited) BY <1>2, <1>3, ProductLeaves
<1>5. Leaves(SetOfferings(row, {"published"}, "draft")) BY <1>2, <1>3, OfferingsLeaves
<1>6. Leaves(new) BY <1>4, <1>5
<1> QED BY <1>1, <1>6, BeginKeeps

LEMMA ArchiveKeeps ==
    ASSUME Inv, NEW r \in Req, ArchiveProduct(r)
    PROVE  Inv'
<1> DEFINE row == [db EXCEPT !["product"] = "archived"]
<1>1. Begin(r, SetOfferings(row, {"published"}, "unpublished")) BY DEF ArchiveProduct
<1>2. Sound(row)
  BY FixedColumns, ColumnTypes DEF Sound, Inv, TypeOK
<1>3. /\ \A o \in Offerings : row[o] = db[o]
      /\ row["pa"] = db["pa"] /\ row["vendor"] = db["vendor"]
      /\ row["verification"] = db["verification"] /\ row["participation"] = db["participation"]
  BY FixedColumns, ColumnsAssumption DEF Inv, TypeOK, Fixed
<1> HIDE DEF row
<1>4. Leaves(SetOfferings(row, {"published"}, "unpublished")) BY <1>2, <1>3, OfferingsLeaves
<1> QED BY <1>1, <1>4, BeginKeeps

LEMMA PublishKeeps ==
    ASSUME Inv, NEW r \in Req, NEW p \in Offerings, PublishOffering(r, p)
    PROVE  Inv'
<1> DEFINE waits == [db EXCEPT !["pa"] = "pending_review", !["product"] = "published"]
           sold  == [db EXCEPT ![p] = "published", !["pa"] = "live",
                               !["reviewed"] = IF db["review"] = "off" THEN db["listing"] ELSE @,
                               !["product"] = IF @ = "draft" THEN "published" ELSE @]
           new   == IF db["review"] = "on" /\ db["pa"] # "live" THEN waits ELSE sold
<1>1. Begin(r, new) BY DEF PublishOffering
<1>2. Sound(waits) /\ Sound(sold)
  BY FixedColumns, ColumnTypes DEF Sound, Inv, TypeOK
<1>3. /\ \A o \in Offerings : waits[o] = db[o]
      /\ waits["pa"] = "pending_review" /\ sold["pa"] = "live"
      /\ waits["vendor"] = db["vendor"] /\ sold["vendor"] = db["vendor"]
      /\ waits["verification"] = db["verification"] /\ sold["verification"] = db["verification"]
      /\ waits["participation"] = db["participation"] /\ sold["participation"] = db["participation"]
  BY FixedColumns, ColumnsAssumption DEF Inv, TypeOK, Fixed
<1> HIDE DEF waits, sold
<1>4. Leaves(waits) BY <1>2, <1>3, ProductLeaves
<1>5. Leaves(sold) BY <1>2, <1>3, ProductLeaves
<1>6. Leaves(new) BY <1>4, <1>5
<1> QED BY <1>1, <1>6, BeginKeeps

LEMMA ApproveKeeps ==
    ASSUME Inv, NEW r \in Req, ApproveProduct(r)
    PROVE  Inv'
<1> DEFINE row == [db EXCEPT !["pa"] = "live", !["reviewed"] = db["listing"],
                             !["product"] = IF @ = "draft" THEN "published" ELSE @]
<1>1. Begin(r, SetOfferings(row, {"draft"}, "published")) BY DEF ApproveProduct
<1>2. Sound(row)
  BY FixedColumns, ColumnTypes DEF Sound, Inv, TypeOK
<1>3. /\ \A o \in Offerings : row[o] = db[o]
      /\ row["pa"] = "live" /\ row["vendor"] = db["vendor"]
      /\ row["verification"] = db["verification"] /\ row["participation"] = db["participation"]
  BY FixedColumns, ColumnsAssumption DEF Inv, TypeOK, Fixed
<1> HIDE DEF row
<1>4. Leaves(SetOfferings(row, {"draft"}, "published")) BY <1>2, <1>3, OfferingsLeaves
<1> QED BY <1>1, <1>4, BeginKeeps

LEMMA RejectKeeps ==
    ASSUME Inv, NEW r \in Req, RejectProduct(r)
    PROVE  Inv'
<1> DEFINE row == [db EXCEPT !["pa"] = "rejected"]
<1>1. Begin(r, SetOfferings(row, {"published", "draft"}, "unpublished")) BY DEF RejectProduct
<1>2. Sound(row)
  BY FixedColumns, ColumnTypes DEF Sound, Inv, TypeOK
<1>3. /\ \A o \in Offerings : row[o] = db[o]
      /\ row["pa"] = "rejected" /\ row["vendor"] = db["vendor"]
      /\ row["verification"] = db["verification"] /\ row["participation"] = db["participation"]
  BY FixedColumns, ColumnsAssumption DEF Inv, TypeOK, Fixed
<1> HIDE DEF row
<1>4. Leaves(SetOfferings(row, {"published", "draft"}, "unpublished"))
  BY <1>2, <1>3, OfferingsLeaves
<1> QED BY <1>1, <1>4, BeginKeeps

-----------------------------------------------------------------------------
(* The theorems.                                                           *)

LEMMA InitInv == Init => Inv
<1> SUFFICES ASSUME Init PROVE Inv OBVIOUS
<1>1. \A r \in Req : DOMAIN writes[r] = {} BY DEF Init, Nothing
<1>2. \A c \in Columns : db[c] = CASE c = "participation" -> "consumer"
                                   [] c = "version"       -> "pending_review"
                                   [] c = "pa"            -> "not_submitted"
                                   [] c = "review"        -> "on"
                                   [] OTHER               -> "none"
  BY DEF Init
<1>3. \A o \in Offerings : db[o] = "none"
  BY <1>2, ColumnsAssumption DEF Columns, Fixed
<1>4. db["vendor"] = "none" /\ db["verification"] = "none" /\ db["pa"] = "not_submitted"
  BY <1>2, FixedColumns
<1>5. \A c \in Fixed : db[c] \in Values(c)
  BY <1>2, ColumnTypes, FixedColumns DEF Fixed
<1>6. TypeOK
  <2>1. DOMAIN db = Columns /\ DOMAIN writes = Req /\ overlapped \in BOOLEAN BY DEF Init
  <2>2. \A c \in Columns : db[c] \in Values(c) BY <1>3, <1>5, ColumnTypes DEF Columns
  <2> QED BY <1>1, <2>1, <2>2 DEF TypeOK
<1>7. OnSaleWasSubmitted /\ RejectedIsConsumer
  BY <1>3, <1>4 DEF OnSaleWasSubmitted, OnSale, RejectedIsConsumer
<1>8. SaleWrites /\ VendorWrites BY <1>1, <1>4 DEF SaleWrites, VendorWrites
<1> QED BY <1>6, <1>7, <1>8 DEF Inv

LEMMA NextInv == Inv /\ [Next]_vars => Inv'
<1> SUFFICES ASSUME Inv, [Next]_vars PROVE Inv' OBVIOUS
<1>1. CASE UNCHANGED vars
  BY <1>1 DEF vars, Inv, TypeOK, OnSaleWasSubmitted, OnSale, RejectedIsConsumer, SaleWrites, VendorWrites
<1>2. CASE Next
  <2> PICK r \in Req :
        \/ Register(r)
        \/ \E d \in {"approved", "rejected"} : DecideVerification(r, d)
        \/ SuspendVendor(r)
        \/ ReinstateVendor(r)
        \/ ApproveVersion(r)
        \/ \E s \in {"on", "off"} : PatchConfig(r, s)
        \/ \E p \in {"none", "plugin"}, t \in Texts : CreateProduct(r, p, t)
        \/ \E t \in Texts : SubmitProductListing(r, t)
        \/ ResubmitProduct(r)
        \/ \E t \in Texts : UpdateProduct(r, t)
        \/ ArchiveProduct(r)
        \/ \E o \in Offerings : CreateOffering(r, o)
        \/ \E o \in Offerings : PublishOffering(r, o)
        \/ ApproveProduct(r)
        \/ RejectProduct(r)
        \/ Commit(r)
        \/ Abort(r)
    BY <1>2 DEF Next
  <2> QED
    BY RegisterKeeps, DecideKeeps, SuspendKeeps, ReinstateKeeps, ApproveVersionKeeps, PatchConfigKeeps,
       CreateProductKeeps, SubmitKeeps, ResubmitKeeps, UpdateKeeps, ArchiveKeeps,
       CreateOfferingKeeps, PublishKeeps, ApproveKeeps, RejectKeeps, CommitKeeps, AbortKeeps
<1> QED BY <1>1, <1>2

\* The invariant holds for any offerings, texts and overlapping requests.
THEOREM InvHolds == Spec => []Inv
BY InitInv, NextInv, PTL DEF Spec

\* Columns and pending writes keep their types in every handler.
THEOREM TypeCorrect == Spec => []TypeOK
<1>1. Inv => TypeOK BY DEF Inv
<1> QED BY <1>1, InvHolds, PTL

\* publish_offering and approve_product never put an offering on sale that
\* belongs to a product nobody submitted, however requests overlap.
THEOREM OnSaleSubmitted == Spec => []OnSaleWasSubmitted
<1>1. Inv => OnSaleWasSubmitted BY DEF Inv
<1> QED BY <1>1, InvHolds, PTL

\* decide_verification leaves no rejected vendor with vendor participation,
\* also when two operators decide at the same time.
THEOREM RejectedConsumes == Spec => []RejectedIsConsumer
<1>1. Inv => RejectedIsConsumer BY DEF Inv
<1> QED BY <1>1, InvHolds, PTL

-----------------------------------------------------------------------------
(* Requests that do not overlap.                                           *)

\* What each handler keeps of the rows when it runs alone.  Only rows of a
\* product that exists are touched, and the two ways to a live product end with
\* the listing that was reviewed.
SaleSound(rows) ==
    /\ rows["product"] = "none" =>
          rows["pa"] = "not_submitted" /\ \A o \in Offerings : rows[o] = "none"
    /\ rows["pa"] \in {"not_submitted", "rejected"} => \A o \in Offerings : rows[o] # "published"
    /\ rows["pa"] = "live" => rows["listing"] = rows["reviewed"]

SerialInv ==
    /\ Alone
    /\ ~overlapped => SaleSound(db) /\ \A r \in Req : SaleSound(After(r))

\* r is a handler that leaves sound rows where it finds sound rows.
Serial(r) == \E new : Begin(r, new) /\ (SaleSound(db) => SaleSound(new))

LEMMA SaleSoundSame ==
    ASSUME NEW rows, NEW new, \A c \in Columns : new[c] = rows[c], SaleSound(rows)
    PROVE  SaleSound(new)
BY FixedColumns DEF SaleSound

LEMMA RegisterSerial ==
    ASSUME TypeOK, NEW r \in Req, Register(r)
    PROVE  Serial(r)
<1> DEFINE new == [db EXCEPT !["vendor"] = "pending_verification",
                             !["verification"] = "queued",
                             !["participation"] = "consumer_and_vendor"]
<1>1. Begin(r, new) BY DEF Register
<1>2. ASSUME SaleSound(db) PROVE SaleSound(new)
  BY <1>1, <1>2, FixedColumns, ColumnsAssumption, OfferingsAssumption DEF SaleSound, TypeOK, Fixed, Columns
<1> QED BY <1>1, <1>2 DEF Serial

LEMMA DecideSerial ==
    ASSUME TypeOK, NEW r \in Req, NEW d \in {"approved", "rejected"}, DecideVerification(r, d)
    PROVE  Serial(r)
<1> DEFINE new == [db EXCEPT
                      !["verification"] = d,
                      !["vendor"] = IF d = "approved" THEN "verified" ELSE "rejected",
                      !["participation"] = IF d = "rejected" THEN "consumer" ELSE @]
<1>1. Begin(r, new) BY DEF DecideVerification
<1>2. ASSUME SaleSound(db) PROVE SaleSound(new)
  BY <1>1, <1>2, FixedColumns, ColumnsAssumption, OfferingsAssumption DEF SaleSound, TypeOK, Fixed, Columns
<1> QED BY <1>1, <1>2 DEF Serial

LEMMA SuspendSerial ==
    ASSUME TypeOK, NEW r \in Req, SuspendVendor(r)
    PROVE  Serial(r)
<1> DEFINE new == SetOfferings([db EXCEPT !["vendor"] = "suspended"], {"published"}, "unpublished")
<1>1. Begin(r, new) BY DEF SuspendVendor
<1>2. ASSUME SaleSound(db) PROVE SaleSound(new)
  BY <1>1, <1>2, FixedColumns, ColumnsAssumption, OfferingsAssumption DEF SaleSound, TypeOK, Fixed, Columns, SetOfferings
<1> QED BY <1>1, <1>2 DEF Serial

LEMMA ReinstateSerial ==
    ASSUME TypeOK, NEW r \in Req, ReinstateVendor(r)
    PROVE  Serial(r)
<1> DEFINE new == [db EXCEPT !["vendor"] = "verified"]
<1>1. Begin(r, new) BY DEF ReinstateVendor
<1>2. ASSUME SaleSound(db) PROVE SaleSound(new)
  BY <1>1, <1>2, FixedColumns, ColumnsAssumption, OfferingsAssumption DEF SaleSound, TypeOK, Fixed, Columns
<1> QED BY <1>1, <1>2 DEF Serial

LEMMA ApproveVersionSerial ==
    ASSUME TypeOK, NEW r \in Req, ApproveVersion(r)
    PROVE  Serial(r)
<1> DEFINE new == [db EXCEPT !["version"] = "approved"]
<1>1. Begin(r, new) BY DEF ApproveVersion
<1>2. ASSUME SaleSound(db) PROVE SaleSound(new)
  BY <1>1, <1>2, FixedColumns, ColumnsAssumption, OfferingsAssumption DEF SaleSound, TypeOK, Fixed, Columns
<1> QED BY <1>1, <1>2 DEF Serial

LEMMA PatchConfigSerial ==
    ASSUME TypeOK, NEW r \in Req, NEW s, PatchConfig(r, s)
    PROVE  Serial(r)
<1> DEFINE new == [db EXCEPT !["review"] = s]
<1>1. Begin(r, new) BY DEF PatchConfig
<1>2. ASSUME SaleSound(db) PROVE SaleSound(new)
  BY <1>1, <1>2, FixedColumns, ColumnsAssumption, OfferingsAssumption DEF SaleSound, TypeOK, Fixed, Columns
<1> QED BY <1>1, <1>2 DEF Serial

LEMMA CreateProductSerial ==
    ASSUME TypeOK, NEW r \in Req, NEW p, NEW t, CreateProduct(r, p, t)
    PROVE  Serial(r)
<1> DEFINE new == [db EXCEPT !["product"] = "draft", !["plugin_id"] = p, !["listing"] = t]
<1>1. db["product"] = "none" /\ Begin(r, new) BY DEF CreateProduct, Fresh
<1>2. ASSUME SaleSound(db) PROVE SaleSound(new)
  BY <1>1, <1>2, FixedColumns, ColumnsAssumption, OfferingsAssumption DEF SaleSound, TypeOK, Fixed, Columns
<1> QED BY <1>1, <1>2 DEF Serial

LEMMA SubmitSerial ==
    ASSUME TypeOK, NEW r \in Req, NEW t, SubmitProductListing(r, t)
    PROVE  Serial(r)
<1> DEFINE new == [db EXCEPT !["product"] = "published", !["pa"] = "pending_review",
                             !["listing"] = t, !["Standard"] = "draft"]
<1>1. Begin(r, new) BY DEF SubmitProductListing
<1>2. ASSUME SaleSound(db) PROVE SaleSound(new)
  BY <1>1, <1>2, FixedColumns, ColumnsAssumption, OfferingsAssumption DEF SaleSound, TypeOK, Fixed, Columns
<1> QED BY <1>1, <1>2 DEF Serial

LEMMA ResubmitSerial ==
    ASSUME TypeOK, NEW r \in Req, ResubmitProduct(r)
    PROVE  Serial(r)
<1> DEFINE new == [db EXCEPT !["pa"] = "pending_review"]
<1>1. db["product"] # "none" /\ Begin(r, new) BY DEF ResubmitProduct
<1>2. ASSUME SaleSound(db) PROVE SaleSound(new)
  BY <1>1, <1>2, FixedColumns, ColumnsAssumption, OfferingsAssumption DEF SaleSound, TypeOK, Fixed, Columns
<1> QED BY <1>1, <1>2 DEF Serial

LEMMA UpdateSerial ==
    ASSUME TypeOK, NEW r \in Req, NEW t, UpdateProduct(r, t)
    PROVE  Serial(r)
<1> DEFINE edited == [db EXCEPT !["listing"] = t,
                                !["reviewed"] = IF db["review"] = "off" /\ db["pa"] = "live" THEN t ELSE @]
           again  == db["review"] = "on" /\ db["pa"] \in {"live", "rejected"} /\ t # db["listing"]
           new    == IF again THEN SetOfferings([edited EXCEPT !["pa"] = "pending_review"], {"published"}, "draft")
                     ELSE edited
<1>1. db["product"] # "none" /\ Begin(r, new) BY DEF UpdateProduct
<1>2. db["review"] \in {"on", "off"} BY FixedColumns, ColumnTypes DEF TypeOK
<1>3. ASSUME SaleSound(db) PROVE SaleSound(new)
  BY <1>1, <1>2, <1>3, FixedColumns, ColumnsAssumption, OfferingsAssumption DEF SaleSound, TypeOK, Fixed, Columns, SetOfferings
<1> QED BY <1>1, <1>3 DEF Serial

LEMMA ArchiveSerial ==
    ASSUME TypeOK, NEW r \in Req, ArchiveProduct(r)
    PROVE  Serial(r)
<1> DEFINE new == SetOfferings([db EXCEPT !["product"] = "archived"], {"published"}, "unpublished")
<1>1. db["product"] # "none" /\ Begin(r, new) BY DEF ArchiveProduct
<1>2. ASSUME SaleSound(db) PROVE SaleSound(new)
  BY <1>1, <1>2, FixedColumns, ColumnsAssumption, OfferingsAssumption DEF SaleSound, TypeOK, Fixed, Columns, SetOfferings
<1> QED BY <1>1, <1>2 DEF Serial

LEMMA CreateOfferingSerial ==
    ASSUME TypeOK, NEW r \in Req, NEW p \in Offerings, CreateOffering(r, p)
    PROVE  Serial(r)
<1> DEFINE new == [db EXCEPT ![p] = "draft"]
<1>1. db["product"] # "none" /\ Begin(r, new) BY DEF CreateOffering
<1>2. ASSUME SaleSound(db) PROVE SaleSound(new)
  BY <1>1, <1>2, FixedColumns, ColumnsAssumption, OfferingsAssumption DEF SaleSound, TypeOK, Fixed, Columns
<1> QED BY <1>1, <1>2 DEF Serial

LEMMA PublishSerial ==
    ASSUME TypeOK, NEW r \in Req, NEW p \in Offerings, PublishOffering(r, p)
    PROVE  Serial(r)
<1> DEFINE new == IF db["review"] = "on" /\ db["pa"] # "live"
                  THEN [db EXCEPT !["pa"] = "pending_review", !["product"] = "published"]
                  ELSE [db EXCEPT ![p] = "published", !["pa"] = "live",
                                  !["reviewed"] = IF db["review"] = "off" THEN db["listing"] ELSE @,
                                  !["product"] = IF @ = "draft" THEN "published" ELSE @]
<1>1. db[p] = "draft" /\ Begin(r, new) BY DEF PublishOffering
<1>2. db["review"] \in {"on", "off"} BY FixedColumns, ColumnTypes DEF TypeOK
<1>3. ASSUME SaleSound(db) PROVE SaleSound(new)
  BY <1>1, <1>2, <1>3, FixedColumns, ColumnsAssumption, OfferingsAssumption DEF SaleSound, TypeOK, Fixed, Columns
<1> QED BY <1>1, <1>3 DEF Serial

LEMMA ApproveSerial ==
    ASSUME TypeOK, NEW r \in Req, ApproveProduct(r)
    PROVE  Serial(r)
<1> DEFINE new == SetOfferings([db EXCEPT !["pa"] = "live", !["reviewed"] = db["listing"],
                                          !["product"] = IF @ = "draft" THEN "published" ELSE @],
                               {"draft"}, "published")
<1>1. db["product"] # "none" /\ Begin(r, new) BY DEF ApproveProduct
<1>2. ASSUME SaleSound(db) PROVE SaleSound(new)
  BY <1>1, <1>2, FixedColumns, ColumnsAssumption, OfferingsAssumption DEF SaleSound, TypeOK, Fixed, Columns, SetOfferings
<1> QED BY <1>1, <1>2 DEF Serial

LEMMA RejectSerial ==
    ASSUME TypeOK, NEW r \in Req, RejectProduct(r)
    PROVE  Serial(r)
<1> DEFINE new == SetOfferings([db EXCEPT !["pa"] = "rejected"], {"published", "draft"}, "unpublished")
<1>1. db["product"] # "none" /\ Begin(r, new) BY DEF RejectProduct
<1>2. ASSUME SaleSound(db) PROVE SaleSound(new)
  BY <1>1, <1>2, FixedColumns, ColumnsAssumption, OfferingsAssumption DEF SaleSound, TypeOK, Fixed, Columns, SetOfferings
<1> QED BY <1>1, <1>2 DEF Serial

LEMMA SerialKeeps ==
    ASSUME Inv, SerialInv, NEW r \in Req, Serial(r)
    PROVE  SerialInv'
<1>1. PICK new : Begin(r, new) /\ (SaleSound(db) => SaleSound(new)) BY DEF Serial
<1>2. /\ Alone'
      /\ ~overlapped' =>
            /\ ~overlapped /\ db' = db
            /\ \A c \in Columns : After(r)'[c] = new[c]
            /\ \A q \in Req : q # r => \A c \in Columns : After(q)'[c] = db[c]
  BY <1>1, BeginAlone DEF Inv, TypeOK
<1>3. ASSUME ~overlapped' PROVE SaleSound(db) /\ SaleSound(new) /\ SaleSound(db')
  BY <1>1, <1>2, <1>3 DEF SerialInv
<1>4. ASSUME ~overlapped', NEW q \in Req PROVE SaleSound(After(q)')
  <2>1. CASE q = r BY <1>2, <1>3, <1>4, <2>1, SaleSoundSame
  <2>2. CASE q # r BY <1>2, <1>3, <1>4, <2>2, SaleSoundSame
  <2> QED BY <2>1, <2>2
<1> QED BY <1>2, <1>3, <1>4 DEF SerialInv, SaleSound

LEMMA SerialCommit ==
    ASSUME Inv, SerialInv, NEW r \in Req, Commit(r)
    PROVE  SerialInv'
<1>1. /\ Alone'
      /\ ~overlapped' =>
            /\ ~overlapped /\ db' = After(r)
            /\ \A q \in Req : \A c \in Columns : After(q)'[c] = db'[c]
  BY CommitAlone DEF Inv, TypeOK, SerialInv
<1>2. ASSUME ~overlapped' PROVE SaleSound(db')
  BY <1>1, <1>2 DEF SerialInv
<1>3. ASSUME ~overlapped', NEW q \in Req PROVE SaleSound(After(q)')
  BY <1>1, <1>2, <1>3, SaleSoundSame
<1> QED BY <1>1, <1>2, <1>3 DEF SerialInv, SaleSound

LEMMA SerialAbort ==
    ASSUME Inv, SerialInv, NEW r \in Req, Abort(r)
    PROVE  SerialInv'
<1>1. /\ Alone'
      /\ ~overlapped' =>
            /\ ~overlapped /\ db' = db
            /\ \A q \in Req : \A c \in Columns : After(q)'[c] = db'[c]
  BY AbortAlone DEF Inv, TypeOK, SerialInv
<1>2. ASSUME ~overlapped' PROVE SaleSound(db')
  BY <1>1, <1>2 DEF SerialInv
<1>3. ASSUME ~overlapped', NEW q \in Req PROVE SaleSound(After(q)')
  BY <1>1, <1>2, <1>3, SaleSoundSame
<1> QED BY <1>1, <1>2, <1>3 DEF SerialInv, SaleSound

LEMMA InitSerial == Init => SerialInv
<1> SUFFICES ASSUME Init PROVE SerialInv OBVIOUS
<1>1. \A r \in Req : writes[r] = Nothing BY DEF Init
<1>2. Alone BY <1>1 DEF Alone
<1>3. SaleSound(db)
  BY FixedColumns, ColumnsAssumption DEF Init, SaleSound, Columns, Fixed
<1>4. ASSUME NEW r \in Req PROVE SaleSound(After(r))
  BY <1>1, <1>3, AfterNothing, SaleSoundSame
<1> QED BY <1>2, <1>3, <1>4 DEF SerialInv

LEMMA NextSerial == Inv /\ SerialInv /\ [Next]_vars => SerialInv'
<1> SUFFICES ASSUME Inv, SerialInv, [Next]_vars PROVE SerialInv' OBVIOUS
<1>1. CASE UNCHANGED vars
  BY <1>1 DEF vars, SerialInv, SaleSound, Alone, After
<1>2. CASE Next
  <2> PICK r \in Req :
        \/ Register(r)
        \/ \E d \in {"approved", "rejected"} : DecideVerification(r, d)
        \/ SuspendVendor(r)
        \/ ReinstateVendor(r)
        \/ ApproveVersion(r)
        \/ \E s \in {"on", "off"} : PatchConfig(r, s)
        \/ \E p \in {"none", "plugin"}, t \in Texts : CreateProduct(r, p, t)
        \/ \E t \in Texts : SubmitProductListing(r, t)
        \/ ResubmitProduct(r)
        \/ \E t \in Texts : UpdateProduct(r, t)
        \/ ArchiveProduct(r)
        \/ \E o \in Offerings : CreateOffering(r, o)
        \/ \E o \in Offerings : PublishOffering(r, o)
        \/ ApproveProduct(r)
        \/ RejectProduct(r)
        \/ Commit(r)
        \/ Abort(r)
    BY <1>2 DEF Next
  <2>1. TypeOK BY DEF Inv
  <2>2. Serial(r) \/ Commit(r) \/ Abort(r)
    BY <2>1, RegisterSerial, DecideSerial, SuspendSerial, ReinstateSerial, ApproveVersionSerial, PatchConfigSerial,
       CreateProductSerial, SubmitSerial, ResubmitSerial, UpdateSerial, ArchiveSerial,
       CreateOfferingSerial, PublishSerial, ApproveSerial, RejectSerial
  <2> QED BY <2>2, SerialKeeps, SerialCommit, SerialAbort
<1> QED BY <1>1, <1>2

\* While requests do not overlap, every handler finds and leaves sound rows.
THEOREM SerialInvHolds == Spec => []SerialInv
BY InitSerial, NextSerial, InvHolds, PTL DEF Spec

\* With the content review on, update_product, publish_offering and the review
\* never show buyers a listing that no operator approved, unless it was on sale
\* before patch_config turned the review on.
THEOREM VisibleReviewed == Spec => []VisibleIsReviewed
<1>1. SerialInv => VisibleIsReviewed
  BY DEF SerialInv, SaleSound, VisibleIsReviewed, Visible, OnSale
<1> QED BY <1>1, SerialInvHolds, PTL

\* reject_product takes every offering off sale, and none comes back while the
\* product is rejected.
THEOREM RejectedOffSale == Spec => []RejectedIsOffSale
<1>1. SerialInv => RejectedIsOffSale
  BY DEF SerialInv, SaleSound, RejectedIsOffSale, OnSale
<1> QED BY <1>1, SerialInvHolds, PTL

-----------------------------------------------------------------------------
(* Store: a vendor's cities, stock and standard plugins.                   *)

CONSTANTS CityIds, Names, Pincodes, PluginIds, AfterOverlap

Shop     == INSTANCE Store
ShopRows == INSTANCE UnitOfWork WITH Columns <- Shop!Columns

\* Store's own operators of UnitOfWork are these.
LEMMA ShopSame ==
    /\ Shop!Nothing = ShopRows!Nothing
    /\ \A c : Shop!Fresh(c) <=> ShopRows!Fresh(c)
    /\ \A r, new : Shop!Begin(r, new) <=> ShopRows!Begin(r, new)
    /\ \A r : Shop!Commit(r) <=> ShopRows!Commit(r)
    /\ \A r : Shop!Abort(r) <=> ShopRows!Abort(r)
BY DEF Shop!Nothing, ShopRows!Nothing, Shop!Fresh, ShopRows!Fresh, Shop!Begin, ShopRows!Begin, Shop!Changed,
       ShopRows!Changed, Shop!Commit, ShopRows!Commit, Shop!After, ShopRows!After, Shop!Abort, ShopRows!Abort

LEMMA ShopColumnsIn ==
    /\ \A k \in CityIds : Shop!City(k) \in Shop!Columns /\ Shop!Link(k) \in Shop!Columns
    /\ \A k \in CityIds, p \in Pincodes : Shop!Pin(k, p) \in Shop!Columns
    /\ \A w \in Shop!Warehouses : Shop!Stock(w) \in Shop!Columns
    /\ \A j \in PluginIds : Shop!Plugin(j) \in Shop!Columns /\ Shop!Activation(j) \in Shop!Columns
    /\ Shop!Own \in Shop!Columns /\ Shop!Links \subseteq Shop!Columns
BY DEF Shop!Columns, Shop!Links

LEMMA ShopNamesApart ==
    /\ \A x, y : /\ Shop!City(x) # Shop!Link(y) /\ Shop!City(x) # Shop!Stock(y)
                 /\ Shop!City(x) # Shop!Plugin(y) /\ Shop!City(x) # Shop!Activation(y)
                 /\ Shop!Link(x) # Shop!Stock(y) /\ Shop!Link(x) # Shop!Plugin(y)
                 /\ Shop!Link(x) # Shop!Activation(y)
                 /\ Shop!Stock(x) # Shop!Plugin(y) /\ Shop!Stock(x) # Shop!Activation(y)
                 /\ Shop!Plugin(x) # Shop!Activation(y)
    /\ \A x, y, p : Shop!Pin(x, p) \notin {Shop!City(y), Shop!Link(y), Shop!Stock(y), Shop!Plugin(y),
                                           Shop!Activation(y), Shop!Own}
    /\ \A x : Shop!Own \notin {Shop!City(x), Shop!Link(x), Shop!Stock(x), Shop!Plugin(x), Shop!Activation(x)}
    /\ \A x, y : x # y => Shop!City(x) # Shop!City(y) /\ Shop!Link(x) # Shop!Link(y)
          /\ Shop!Stock(x) # Shop!Stock(y) /\ Shop!Plugin(x) # Shop!Plugin(y)
BY DEF Shop!City, Shop!Link, Shop!Stock, Shop!Plugin, Shop!Activation, Shop!Pin, Shop!Own

\* v is a value that a request may be going to write in column c.
ShopFits(c, v) ==
    /\ \A k \in CityIds : c = Shop!City(k) => v \in Names \cup {"none", "clash"}
    /\ \A j \in PluginIds : c = Shop!Plugin(j) => v \in {"none", "active", "draft", "clash"}
    /\ \A w \in Shop!Warehouses : c = Shop!Stock(w) => v # "none"

\* Request r is going to replace the product's cities.
ShopAssigns(r) == \E k \in CityIds : Shop!Link(k) \in DOMAIN writes[r]

\* It keeps some, and touches no city.
ShopKeeps(r) ==
    /\ \E k \in CityIds : Shop!Link(k) \in DOMAIN writes[r] /\ writes[r][Shop!Link(k)] # "none"
    /\ \A k \in CityIds : Shop!City(k) \notin DOMAIN writes[r]

ShopPending(r) == (\A c \in DOMAIN writes[r] : ShopFits(c, writes[r][c])) /\ (ShopAssigns(r) => ShopKeeps(r))

\* Whatever overlaps: the rows are sound, and what is pending fits them.
ShopInv ==
    /\ Shop!StoreSound
    /\ DOMAIN writes = Req
    /\ overlapped \in BOOLEAN
    /\ \A r \in Req : ShopPending(r)

\* Alone, it is going to remove every other city.
ShopWhole(r) == ShopAssigns(r) => \A k \in CityIds :
                  Shop!Link(k) \in DOMAIN writes[r] \/ db[Shop!Link(k)] = "none"

ShopSerialInv == ShopRows!Alone /\ (~overlapped => \A r \in Req : ShopWhole(r))

-----------------------------------------------------------------------------
(* Requests that begin.                                                    *)

\* What both kinds of requests do: they leave rows pending.
ShopStarts(r, rows) ==
    /\ writes[r] = ShopRows!Nothing
    /\ db' = db /\ DOMAIN writes' = Req
    /\ writes'[r] = rows
    /\ \A q \in Req : q # r => writes'[q] = writes[q]
    /\ overlapped' = (overlapped \/ \E q \in Req : writes[q] # ShopRows!Nothing)

LEMMA ShopStartKeeps ==
    ASSUME ShopInv, ShopSerialInv, NEW r \in Req, NEW rows, ShopStarts(r, rows),
           \A c \in DOMAIN rows : ShopFits(c, rows[c]),
           (\E k \in CityIds : Shop!Link(k) \in DOMAIN rows) =>
              /\ \E k \in CityIds : Shop!Link(k) \in DOMAIN rows /\ rows[Shop!Link(k)] # "none"
              /\ \A k \in CityIds : Shop!City(k) \notin DOMAIN rows
              /\ \A k \in CityIds : Shop!Link(k) \in DOMAIN rows \/ db[Shop!Link(k)] = "none"
    PROVE  ShopInv' /\ ShopSerialInv'
<1>1. Shop!StoreSound' BY DEF ShopInv, Shop!StoreSound, ShopStarts
<1>2. overlapped' \in BOOLEAN BY DEF ShopInv, ShopStarts
<1>3. ASSUME NEW q \in Req PROVE ShopPending(q)'
  <2>1. CASE q = r BY <2>1 DEF ShopStarts, ShopPending, ShopFits, ShopAssigns, ShopKeeps
  <2>2. CASE q # r BY <2>2 DEF ShopInv, ShopStarts, ShopPending, ShopFits, ShopAssigns, ShopKeeps
  <2> QED BY <2>1, <2>2
<1>4. ShopInv' BY <1>1, <1>2, <1>3 DEF ShopInv, ShopStarts
<1>5. ASSUME ~overlapped' PROVE ~overlapped /\ \A q \in Req : writes[q] = ShopRows!Nothing
  BY <1>5 DEF ShopStarts
<1>6. ShopRows!Alone' BY <1>5 DEF ShopRows!Alone, ShopStarts
<1>7. ASSUME ~overlapped', NEW q \in Req PROVE ShopWhole(q)'
  <2>1. CASE q = r BY <2>1 DEF ShopStarts, ShopWhole, ShopAssigns
  <2>2. CASE q # r BY <1>5, <1>7, <2>2 DEF ShopStarts, ShopWhole, ShopAssigns, ShopRows!Nothing
  <2> QED BY <2>1, <2>2
<1> QED BY <1>4, <1>6, <1>7 DEF ShopSerialInv

\* A handler that changes one column, not of a link.
LEMMA ShopBeginKeeps ==
    ASSUME ShopInv, ShopSerialInv, NEW r \in Req, NEW x, NEW v, ShopRows!Begin(r, [db EXCEPT ![x] = v]),
           ShopFits(x, v), \A k \in CityIds : x # Shop!Link(k)
    PROVE  ShopInv' /\ ShopSerialInv'
<1> DEFINE new == [db EXCEPT ![x] = v]
           rows == [c \in ShopRows!Changed(new) |-> new[c]]
<1>1. ShopStarts(r, rows) BY DEF ShopInv, ShopRows!Begin, ShopStarts
<1>2. DOMAIN db = Shop!Columns BY DEF ShopInv, Shop!StoreSound
<1>3. \A c \in DOMAIN rows : c = x /\ rows[c] = v BY <1>2 DEF ShopRows!Changed
<1> HIDE DEF rows
<1> QED BY <1>1, <1>3, ShopStartKeeps

\* Requests that replace rows, whether or not they differ.
LEMMA ShopSendKeeps ==
    ASSUME ShopInv, ShopSerialInv, NEW r \in Req, NEW rows, Shop!Send(r, rows),
           \A c \in DOMAIN rows : ShopFits(c, rows[c]),
           (\E k \in CityIds : Shop!Link(k) \in DOMAIN rows) =>
              /\ \E k \in CityIds : Shop!Link(k) \in DOMAIN rows /\ rows[Shop!Link(k)] # "none"
              /\ \A k \in CityIds : Shop!City(k) \notin DOMAIN rows
              /\ \A k \in CityIds : Shop!Link(k) \in DOMAIN rows \/ db[Shop!Link(k)] = "none"
    PROVE  ShopInv' /\ ShopSerialInv'
<1>1. ShopStarts(r, rows) BY ShopSame DEF ShopInv, Shop!Send, ShopStarts
<1> QED BY <1>1, ShopStartKeeps

LEMMA ShopPincodesKeep ==
    ASSUME ShopInv, ShopSerialInv, NEW r \in Req, NEW k \in CityIds, NEW pins \in SUBSET Pincodes,
           Shop!SetCityPincodes(r, k, pins)
    PROVE  ShopInv' /\ ShopSerialInv'
<1> DEFINE rows == Shop!Replace(Shop!PinsOf(k), {Shop!Pin(k, p) : p \in pins})
<1>1. \A c \in DOMAIN rows : \E p \in Pincodes : c = Shop!Pin(k, p) BY DEF Shop!Replace, Shop!PinsOf
<1>2. Shop!Send(r, rows) BY DEF Shop!SetCityPincodes
<1> HIDE DEF rows
<1>3. \A c \in DOMAIN rows : ShopFits(c, rows[c]) BY <1>1, ShopNamesApart DEF ShopFits
<1>4. \A i \in CityIds : Shop!Link(i) \notin DOMAIN rows BY <1>1, ShopNamesApart
<1> QED BY <1>2, <1>3, <1>4, ShopSendKeeps

\* An assignment keeps a city that is there.
LEMMA ShopAssignKeeps ==
    ASSUME ShopInv, ShopSerialInv, NEW r \in Req, NEW cities \in SUBSET CityIds, Shop!AssignCities(r, cities)
    PROVE  ShopInv' /\ ShopSerialInv'
<1> DEFINE kept == {Shop!Link(k) : k \in cities}
           rows == Shop!Replace(Shop!Links, kept)
<1>1. Shop!Send(r, rows) BY DEF Shop!AssignCities
<1>2. PICK k \in CityIds : k \in cities BY DEF Shop!AssignCities
<1>3. /\ \A c \in DOMAIN rows : c \in Shop!Links
      /\ \A c \in Shop!Links : c \in DOMAIN rows \/ db[c] = "none"
      /\ \A c \in kept : c \in Shop!Links => c \in DOMAIN rows /\ rows[c] = "row"
  BY DEF Shop!Replace
<1>4. Shop!Link(k) \in kept /\ \A i \in CityIds : Shop!Link(i) \in Shop!Links BY <1>2 DEF Shop!Links
<1> HIDE DEF rows, kept
<1>5. \A c \in DOMAIN rows : ShopFits(c, rows[c]) BY <1>3, ShopNamesApart DEF ShopFits, Shop!Links
<1>6. \A i \in CityIds : Shop!City(i) \notin DOMAIN rows BY <1>3, ShopNamesApart DEF Shop!Links
<1> QED BY <1>1, <1>3, <1>4, <1>5, <1>6, ShopSendKeeps

LEMMA ShopLocationKeeps ==
    ASSUME ShopInv, ShopSerialInv, NEW r \in Req, Shop!LocationRoutes(r)
    PROVE  ShopInv' /\ ShopSerialInv'
<1>1. ASSUME NEW k \in CityIds, NEW n \in Names, Shop!AddServiceCity(r, k, n) PROVE ShopInv' /\ ShopSerialInv'
  <2>1. ShopFits(Shop!City(k), n) BY ShopNamesApart DEF ShopFits
  <2>2. ShopRows!Begin(r, [db EXCEPT ![Shop!City(k)] = n]) BY <1>1, ShopSame DEF Shop!AddServiceCity
  <2> QED BY <2>1, <2>2, ShopNamesApart, ShopBeginKeeps
<1>2. ASSUME NEW k \in CityIds, Shop!DeleteServiceCity(r, k) PROVE ShopInv' /\ ShopSerialInv'
  <2>1. ShopFits(Shop!City(k), "none") BY ShopNamesApart DEF ShopFits
  <2> QED BY <1>2, <2>1, ShopSame, ShopNamesApart, ShopBeginKeeps DEF Shop!DeleteServiceCity
<1>3. CASE Shop!CreateWarehouse(r)
  <2>1. ShopFits(Shop!Own, "row") BY ShopNamesApart DEF ShopFits
  <2> QED BY <1>3, <2>1, ShopSame, ShopNamesApart, ShopBeginKeeps DEF Shop!CreateWarehouse
<1>4. ASSUME NEW w \in Shop!Warehouses, NEW n \in {"zero", "some"}, Shop!AddInventory(r, w, n)
               \/ Shop!AdjustInventory(r, w, n)
      PROVE  ShopInv' /\ ShopSerialInv'
  <2>1. ShopFits(Shop!Stock(w), n) BY ShopNamesApart DEF ShopFits
  <2> QED BY <1>4, <2>1, ShopSame, ShopNamesApart, ShopBeginKeeps DEF Shop!AddInventory, Shop!AdjustInventory
<1> QED BY <1>1, <1>2, <1>3, <1>4, ShopPincodesKeep, ShopAssignKeeps DEF Shop!LocationRoutes

LEMMA ShopPluginKeeps ==
    ASSUME ShopInv, ShopSerialInv, NEW r \in Req, Shop!StandardPluginRoutes(r)
    PROVE  ShopInv' /\ ShopSerialInv'
<1>1. PICK j \in PluginIds :
        \/ \E v \in {"active", "draft", "none"} : ShopRows!Begin(r, [db EXCEPT ![Shop!Plugin(j)] = v])
        \/ \E v \in {"active", "inactive"} : ShopRows!Begin(r, [db EXCEPT ![Shop!Activation(j)] = v])
  BY ShopSame
     DEF Shop!StandardPluginRoutes, Shop!CreateStandardPlugin, Shop!SetStandardPluginStatus,
         Shop!DeleteStandardPlugin, Shop!ActivateStandardPlugin, Shop!DeactivateStandardPlugin
<1>2. ASSUME NEW v \in {"active", "draft", "none"} PROVE ShopFits(Shop!Plugin(j), v)
  BY ShopNamesApart DEF ShopFits
<1>3. ASSUME NEW v PROVE ShopFits(Shop!Activation(j), v) BY ShopNamesApart DEF ShopFits
<1>4. \A k : Shop!Plugin(j) # Shop!Link(k) /\ Shop!Activation(j) # Shop!Link(k) BY ShopNamesApart
<1> QED BY <1>1, <1>2, <1>3, <1>4, ShopBeginKeeps

-----------------------------------------------------------------------------
(* Requests that end.                                                      *)

\* What a commit leaves of another request in flight: of its deletions some,
\* and all else it is going to write or fails on.
LEMMA ShopLateWrites ==
    ASSUME NEW q \in Req, NEW cs
    PROVE  /\ \A c \in DOMAIN Shop!Late(q, cs) :
                 c \in DOMAIN writes[q] /\ Shop!Late(q, cs)[c] \in {writes[q][c], "clash"}
           /\ \A c \in DOMAIN writes[q] :
                 writes[q][c] # "none" => c \in DOMAIN Shop!Late(q, cs) /\ Shop!Late(q, cs)[c] # "none"
           /\ writes[q] = ShopRows!Nothing => Shop!Late(q, cs) = ShopRows!Nothing
BY DEF Shop!Late, ShopRows!Nothing

LEMMA ShopLateFits ==
    ASSUME NEW c, NEW v, ShopFits(c, v) PROVE ShopFits(c, "clash")
BY DEF ShopFits

LEMMA ShopLateKeeps ==
    ASSUME NEW q \in Req, NEW cs, ShopPending(q), writes'[q] = Shop!Late(q, cs) PROVE ShopPending(q)'
<1> DEFINE late == Shop!Late(q, cs)
<1>1. /\ \A c \in DOMAIN late : c \in DOMAIN writes[q] /\ late[c] \in {writes[q][c], "clash"}
      /\ \A c \in DOMAIN writes[q] : writes[q][c] # "none" => c \in DOMAIN late /\ late[c] # "none"
  BY ShopLateWrites
<1> HIDE DEF late
<1>2. writes'[q] = late BY DEF late
<1>3. ASSUME NEW c \in DOMAIN late PROVE ShopFits(c, late[c])
  BY <1>1, ShopLateFits DEF ShopPending
<1>4. ASSUME \E k \in CityIds : Shop!Link(k) \in DOMAIN late
      PROVE  /\ \E k \in CityIds : Shop!Link(k) \in DOMAIN late /\ late[Shop!Link(k)] # "none"
             /\ \A k \in CityIds : Shop!City(k) \notin DOMAIN late
  BY <1>1, <1>4 DEF ShopPending, ShopAssigns, ShopKeeps
<1> QED BY <1>2, <1>3, <1>4 DEF ShopPending, ShopFits, ShopAssigns, ShopKeeps

\* The rows that a commit leaves: those of the request, but no links and
\* pincodes of a city it deletes.
LEMMA ShopCommitRowsIs ==
    ASSUME ShopInv, NEW r \in Req, Shop!CommitRows(r)
    PROVE  /\ DOMAIN db' = Shop!Columns
           /\ \A c \in Shop!Columns : (\A k \in CityIds : c # Shop!Link(k) /\ c \notin Shop!PinsOf(k)) =>
                 db'[c] = Shop!Rows(r)[c]
           /\ (\A k \in CityIds : Shop!City(k) \notin DOMAIN writes[r]) => db' = Shop!Rows(r)
           /\ \A k \in CityIds : db'[Shop!Link(k)] = Shop!Rows(r)[Shop!Link(k)] \/ db'[Shop!City(k)] = "none"
           /\ \A c \in DOMAIN writes[r] : writes[r][c] # "clash"
           /\ DOMAIN writes' = Req /\ writes'[r] = ShopRows!Nothing
           /\ \A q \in Req : q # r => writes'[q] = Shop!Late(q, Shop!Overtakes(r))
           /\ overlapped' = overlapped
<1> DEFINE gone == Shop!Cascaded(r)
<1>1. /\ DOMAIN db' = Shop!Columns
      /\ \A c \in Shop!Columns : db'[c] = IF c \in gone THEN "none" ELSE Shop!Rows(r)[c]
  BY DEF Shop!CommitRows
<1>2. /\ \A c \in DOMAIN writes[r] : writes[r][c] # "clash"
      /\ DOMAIN writes' = Req /\ writes'[r] = ShopRows!Nothing
      /\ \A q \in Req : q # r => writes'[q] = Shop!Late(q, Shop!Overtakes(r))
      /\ overlapped' = overlapped
  BY ShopSame DEF Shop!CommitRows
<1>3. \A c \in gone : \E k \in CityIds : (c = Shop!Link(k) \/ c \in Shop!PinsOf(k))
                        /\ Shop!City(k) \in DOMAIN writes[r] /\ writes[r][Shop!City(k)] = "none"
  BY DEF Shop!Cascaded, Shop!Deletes
<1>4. DOMAIN Shop!Rows(r) = Shop!Columns /\ Shop!Rows(r) = [c \in Shop!Columns |-> Shop!Rows(r)[c]]
  BY DEF Shop!Rows
<1> HIDE DEF gone
<1>5. \A c \in Shop!Columns : (\A k \in CityIds : c # Shop!Link(k) /\ c \notin Shop!PinsOf(k)) =>
        db'[c] = Shop!Rows(r)[c]
  BY <1>1, <1>3
<1>6. ASSUME \A k \in CityIds : Shop!City(k) \notin DOMAIN writes[r] PROVE db' = Shop!Rows(r)
  <2>1. db' = [c \in Shop!Columns |-> IF c \in Shop!Cascaded(r) THEN "none" ELSE Shop!Rows(r)[c]]
    BY DEF Shop!CommitRows
  <2>2. \A c \in Shop!Columns : c \notin Shop!Cascaded(r) BY <1>3, <1>6 DEF gone
  <2> QED BY <1>4, <2>1, <2>2
<1>7. ASSUME NEW k \in CityIds
      PROVE  db'[Shop!Link(k)] = Shop!Rows(r)[Shop!Link(k)] \/ db'[Shop!City(k)] = "none"
  <2>1. Shop!City(k) \in Shop!Columns /\ Shop!Link(k) \in Shop!Columns BY ShopColumnsIn
  <2>2. \A i \in CityIds : Shop!City(k) # Shop!Link(i) /\ Shop!City(k) \notin Shop!PinsOf(i)
    BY ShopNamesApart DEF Shop!PinsOf
  <2>3. db'[Shop!City(k)] = Shop!Rows(r)[Shop!City(k)] BY <1>5, <2>1, <2>2
  <2>4. \A i \in CityIds : Shop!Link(k) \in Shop!PinsOf(i) \cup {Shop!Link(i)} => i = k
    BY ShopNamesApart DEF Shop!PinsOf
  <2>5. CASE Shop!Link(k) \notin gone BY <1>1, <2>1, <2>5
  <2>6. CASE Shop!Link(k) \in gone
    <3>1. Shop!City(k) \in DOMAIN writes[r] /\ writes[r][Shop!City(k)] = "none" BY <1>3, <2>4, <2>6
    <3> QED BY <2>1, <2>3, <3>1 DEF Shop!Rows
  <2> QED BY <2>5, <2>6
<1> QED BY <1>1, <1>2, <1>5, <1>6, <1>7

\* A row is as it was unless the request writes it or deletes its city.
LEMMA ShopRowIs ==
    ASSUME ShopInv, NEW r \in Req, Shop!CommitRows(r), NEW c \in Shop!Columns
    PROVE  /\ Shop!Rows(r)[c] = IF c \in DOMAIN writes[r] THEN writes[r][c] ELSE db[c]
           /\ db'[c] \in {"none", Shop!Rows(r)[c]}
           /\ c \notin Shop!Inserts(r) /\ db'[c] # "none" => db[c] # "none"
BY DEF Shop!Rows, Shop!Inserts, Shop!CommitRows

\* Cities, stock, plugins and activations are not cascaded.
LEMMA ShopRowStays ==
    ASSUME ShopInv, NEW r \in Req, Shop!CommitRows(r)
    PROVE  /\ \A k \in CityIds : db'[Shop!City(k)] = Shop!Rows(r)[Shop!City(k)]
                              /\ db'[Shop!Stock(k)] = Shop!Rows(r)[Shop!Stock(k)]
           /\ \A j \in PluginIds : db'[Shop!Plugin(j)] = Shop!Rows(r)[Shop!Plugin(j)]
                                /\ db'[Shop!Activation(j)] = Shop!Rows(r)[Shop!Activation(j)]
<1>1. \A c \in Shop!Columns : (\A k \in CityIds : c # Shop!Link(k) /\ c \notin Shop!PinsOf(k)) =>
        db'[c] = Shop!Rows(r)[c]
  BY ShopCommitRowsIs
<1>2. ASSUME NEW k \in CityIds
      PROVE  /\ \A i \in CityIds : /\ Shop!City(k) # Shop!Link(i) /\ Shop!City(k) \notin Shop!PinsOf(i)
                                   /\ Shop!Stock(k) # Shop!Link(i) /\ Shop!Stock(k) \notin Shop!PinsOf(i)
             /\ Shop!City(k) \in Shop!Columns /\ Shop!Stock(k) \in Shop!Columns
  BY ShopColumnsIn, ShopNamesApart DEF Shop!PinsOf, Shop!Warehouses
<1>3. ASSUME NEW j \in PluginIds
      PROVE  /\ \A i \in CityIds :
                   /\ Shop!Plugin(j) # Shop!Link(i) /\ Shop!Plugin(j) \notin Shop!PinsOf(i)
                   /\ Shop!Activation(j) # Shop!Link(i) /\ Shop!Activation(j) \notin Shop!PinsOf(i)
             /\ Shop!Plugin(j) \in Shop!Columns /\ Shop!Activation(j) \in Shop!Columns
  BY ShopColumnsIn, ShopNamesApart DEF Shop!PinsOf
<1> QED BY <1>1, <1>2, <1>3

\* A city that goes, or was not there, leaves nothing that refers to it: links
\* and pincodes go with it, its stock stops it, and nothing new refers to it.
LEMMA ShopCitySound ==
    ASSUME ShopInv, NEW r \in Req, Shop!CommitRows(r), NEW k \in CityIds, db'[Shop!City(k)] = "none",
           NEW c \in {Shop!Link(k), Shop!Stock(k)} \cup Shop!PinsOf(k)
    PROVE  db'[c] = "none"
<1>1. c \in Shop!Columns /\ Shop!City(k) \in Shop!Columns
  BY ShopColumnsIn DEF Shop!PinsOf, Shop!Warehouses
<1>2. Shop!Rows(r)[Shop!City(k)] = "none" BY ShopRowStays
<1>3. c \notin Shop!Inserts(r) BY <1>2 DEF Shop!CommitRows, Shop!ForeignKeys
<1>4. db'[c] # "none" => db[c] # "none" BY <1>1, <1>3, ShopRowIs
<1>5. CASE Shop!City(k) \in Shop!Deletes(r)
  <2>1. CASE c = Shop!Stock(k) BY <1>5, <2>1, ShopRowStays DEF Shop!CommitRows, Shop!ForeignKeys
  <2>2. CASE c \in Shop!PinsOf(k) \cup {Shop!Link(k)}
    <3>1. c \in Shop!Cascaded(r) BY <1>5, <2>2 DEF Shop!Cascaded
    <3> QED BY <1>1, <3>1 DEF Shop!CommitRows
  <2> QED BY <2>1, <2>2
<1>6. CASE Shop!City(k) \notin Shop!Deletes(r)
  <2>1. db[Shop!City(k)] = "none" BY <1>1, <1>2, <1>6, ShopRowIs DEF Shop!Deletes
  <2>2. db[c] = "none" BY <2>1 DEF ShopInv, Shop!StoreSound
  <2> QED BY <1>4, <2>2
<1> QED BY <1>5, <1>6

LEMMA ShopNamesSound ==
    ASSUME ShopInv, NEW r \in Req, Shop!CommitRows(r), NEW i \in CityIds, NEW k \in CityIds,
           db'[Shop!City(i)] = db'[Shop!City(k)], db'[Shop!City(k)] # "none"
    PROVE  i = k
<1> SUFFICES ASSUME i # k PROVE FALSE OBVIOUS
<1>1. Shop!City(i) \in Shop!Columns /\ Shop!City(k) \in Shop!Columns BY ShopColumnsIn
<1>2. Shop!Rows(r)[Shop!City(i)] = Shop!Rows(r)[Shop!City(k)] /\ Shop!Rows(r)[Shop!City(k)] # "none"
  BY ShopRowStays
<1>3. Shop!City(i) \notin DOMAIN writes[r] /\ Shop!City(k) \notin DOMAIN writes[r]
  BY <1>1, <1>2, ShopRowIs DEF Shop!CommitRows, Shop!UniqueKeys, Shop!Deletes
<1>4. db[Shop!City(i)] = db[Shop!City(k)] /\ db[Shop!City(k)] # "none" BY <1>1, <1>2, <1>3, ShopRowIs
<1> QED BY <1>4 DEF ShopInv, Shop!StoreSound

LEMMA ShopCategorySound ==
    ASSUME ShopInv, NEW r \in Req, Shop!CommitRows(r), NEW i \in PluginIds, NEW j \in PluginIds,
           db'[Shop!Plugin(i)] # "none", db'[Shop!Plugin(j)] # "none"
    PROVE  i = j
<1> SUFFICES ASSUME i # j PROVE FALSE OBVIOUS
<1>1. Shop!Plugin(i) \in Shop!Columns /\ Shop!Plugin(j) \in Shop!Columns BY ShopColumnsIn
<1>2. Shop!Rows(r)[Shop!Plugin(i)] # "none" /\ Shop!Rows(r)[Shop!Plugin(j)] # "none" BY ShopRowStays
<1>3. Shop!Plugin(i) \notin Shop!Inserts(r) /\ Shop!Plugin(j) \notin Shop!Inserts(r)
  BY <1>2 DEF Shop!CommitRows, Shop!UniqueKeys
<1>4. db[Shop!Plugin(i)] # "none" /\ db[Shop!Plugin(j)] # "none" BY <1>1, <1>3, ShopRowIs
<1> QED BY <1>4 DEF ShopInv, Shop!StoreSound

LEMMA ShopActivationSound ==
    ASSUME ShopInv, NEW r \in Req, Shop!CommitRows(r), NEW j \in PluginIds, db'[Shop!Activation(j)] # "none"
    PROVE  db'[Shop!Plugin(j)] # "none"
<1> SUFFICES ASSUME db'[Shop!Plugin(j)] = "none" PROVE FALSE OBVIOUS
<1>1. Shop!Plugin(j) \in Shop!Columns /\ Shop!Activation(j) \in Shop!Columns BY ShopColumnsIn
<1>2. Shop!Rows(r)[Shop!Plugin(j)] = "none" /\ Shop!Rows(r)[Shop!Activation(j)] # "none" BY ShopRowStays
<1>3. Shop!Activation(j) \notin Shop!Inserts(r) /\ Shop!Plugin(j) \notin Shop!Deletes(r)
  BY <1>2 DEF Shop!CommitRows, Shop!ForeignKeys
<1>4. db[Shop!Activation(j)] # "none" BY <1>1, <1>3, ShopRowIs
<1>5. db[Shop!Plugin(j)] = "none" BY <1>1, <1>2, <1>3, ShopRowIs DEF Shop!Deletes
<1> QED BY <1>4, <1>5 DEF ShopInv, Shop!StoreSound

\* What the unique and foreign keys check of the rows written keeps every row
\* sound.
LEMMA ShopKeysSound ==
    ASSUME ShopInv, NEW r \in Req, Shop!CommitRows(r) PROVE Shop!StoreSound'
<1>1. DOMAIN db' = Shop!Columns /\ \A c \in DOMAIN writes[r] : writes[r][c] # "clash" BY ShopCommitRowsIs
<1>2. \A c \in DOMAIN writes[r] : ShopFits(c, writes[r][c]) BY DEF ShopInv, ShopPending
<1>3. ASSUME NEW k \in CityIds PROVE db'[Shop!City(k)] \in Names \cup {"none"}
  <2>1. Shop!City(k) \in Shop!Columns BY ShopColumnsIn
  <2>2. db[Shop!City(k)] \in Names \cup {"none"} BY DEF ShopInv, Shop!StoreSound
  <2>3. Shop!City(k) \in DOMAIN writes[r] => writes[r][Shop!City(k)] \in Names \cup {"none"}
    BY <1>1, <1>2 DEF ShopFits
  <2> QED BY <2>1, <2>2, <2>3, ShopRowIs
<1>4. ASSUME NEW j \in PluginIds PROVE db'[Shop!Plugin(j)] \in {"none", "active", "draft"}
  <2>1. Shop!Plugin(j) \in Shop!Columns BY ShopColumnsIn
  <2>2. db[Shop!Plugin(j)] \in {"none", "active", "draft"} BY DEF ShopInv, Shop!StoreSound
  <2>3. Shop!Plugin(j) \in DOMAIN writes[r] => writes[r][Shop!Plugin(j)] \in {"none", "active", "draft"}
    BY <1>1, <1>2 DEF ShopFits
  <2> QED BY <2>1, <2>2, <2>3, ShopRowIs
<1> QED BY <1>1, <1>3, <1>4, ShopCitySound, ShopNamesSound, ShopCategorySound, ShopActivationSound
        DEF Shop!StoreSound

LEMMA ShopCommitKeeps ==
    ASSUME ShopInv, ShopSerialInv, NEW r \in Req, Shop!CommitRows(r) PROVE ShopInv' /\ ShopSerialInv'
<1>1. /\ DOMAIN writes' = Req /\ writes'[r] = ShopRows!Nothing /\ overlapped' = overlapped
      /\ \A q \in Req : q # r => writes'[q] = Shop!Late(q, Shop!Overtakes(r))
  BY ShopCommitRowsIs
<1>2. ASSUME NEW q \in Req PROVE ShopPending(q)'
  <2>1. CASE q = r BY <1>1, <2>1 DEF ShopPending, ShopAssigns, ShopRows!Nothing
  <2>2. CASE q # r BY <1>1, <2>2, ShopLateKeeps DEF ShopInv
  <2> QED BY <2>1, <2>2
<1>3. ShopInv' BY <1>1, <1>2, ShopKeysSound DEF ShopInv
<1>4. ASSUME ~overlapped, NEW q \in Req PROVE writes'[q] = ShopRows!Nothing
  <2>1. q # r => writes[q] = ShopRows!Nothing
    BY <1>4, ShopSame DEF ShopSerialInv, ShopRows!Alone, Shop!CommitRows
  <2> QED BY <1>1, <2>1, ShopLateWrites
<1>5. ShopSerialInv' BY <1>1, <1>4 DEF ShopSerialInv, ShopRows!Alone, ShopWhole, ShopAssigns, ShopRows!Nothing
<1> QED BY <1>3, <1>5

LEMMA ShopAbortKeeps ==
    ASSUME ShopInv, ShopSerialInv, NEW r \in Req, ShopRows!Abort(r) PROVE ShopInv' /\ ShopSerialInv'
<1>1. /\ db' = db /\ DOMAIN writes' = Req /\ writes'[r] = ShopRows!Nothing /\ overlapped' = overlapped
      /\ \A q \in Req : q # r => writes'[q] = writes[q]
  BY DEF ShopInv, ShopRows!Abort
<1>2. Shop!StoreSound' BY <1>1 DEF ShopInv, Shop!StoreSound
<1>3. ASSUME NEW q \in Req PROVE ShopPending(q)' /\ (ShopWhole(q) => ShopWhole(q)')
  <2>1. CASE q = r BY <1>1, <2>1 DEF ShopPending, ShopWhole, ShopAssigns, ShopRows!Nothing
  <2>2. CASE q # r BY <1>1, <2>2 DEF ShopInv, ShopPending, ShopFits, ShopAssigns, ShopKeeps, ShopWhole
  <2> QED BY <2>1, <2>2
<1>4. ShopRows!Alone' BY <1>1 DEF ShopSerialInv, ShopRows!Alone, ShopRows!Abort
<1> QED BY <1>1, <1>2, <1>3, <1>4 DEF ShopInv, ShopSerialInv

LEMMA ShopInitInv == Shop!Init => ShopInv /\ ShopSerialInv
<1> SUFFICES ASSUME Shop!Init PROVE ShopInv /\ ShopSerialInv OBVIOUS
<1>1. \A c \in Shop!Columns : db[c] = "none" BY DEF Shop!Init
<1>2. /\ \A k \in CityIds : Shop!City(k) \in Shop!Columns /\ Shop!Link(k) \in Shop!Columns
            /\ Shop!Stock(k) \in Shop!Columns
      /\ \A k \in CityIds : \A c \in Shop!PinsOf(k) : c \in Shop!Columns
      /\ \A j \in PluginIds : Shop!Plugin(j) \in Shop!Columns /\ Shop!Activation(j) \in Shop!Columns
  BY ShopColumnsIn DEF Shop!PinsOf, Shop!Warehouses
<1>3. DOMAIN db = Shop!Columns BY DEF Shop!Init
<1>4. Shop!StoreSound BY <1>1, <1>2, <1>3 DEF Shop!StoreSound
<1>5. \A r \in Req : ShopPending(r) /\ ShopWhole(r)
  BY ShopSame DEF Shop!Init, ShopPending, ShopWhole, ShopAssigns, ShopRows!Nothing
<1> QED BY <1>4, <1>5, ShopSame DEF Shop!Init, ShopInv, ShopSerialInv, ShopRows!Alone

LEMMA ShopNextInv == ShopInv /\ ShopSerialInv /\ [Shop!Next]_(Shop!vars) => ShopInv' /\ ShopSerialInv'
<1> SUFFICES ASSUME ShopInv, ShopSerialInv, [Shop!Next]_(Shop!vars) PROVE ShopInv' /\ ShopSerialInv' OBVIOUS
<1>1. CASE UNCHANGED Shop!vars
  BY <1>1
     DEF Shop!vars, ShopInv, ShopSerialInv, Shop!StoreSound, ShopPending, ShopFits, ShopAssigns, ShopKeeps,
         ShopWhole, ShopRows!Alone
<1>2. CASE Shop!Next
  BY <1>2, ShopSame, ShopLocationKeeps, ShopPluginKeeps, ShopCommitKeeps, ShopAbortKeeps DEF Shop!Next
<1> QED BY <1>1, <1>2

\* However delete_service_city, set_city_pincodes, set_product_service_cities, stock
\* and plugin requests overlap, what the database's keys and cascades make of
\* their commits leaves no row that refers to nothing and nothing twice.
THEOREM StoreIsSound == Shop!Spec => []Shop!StoreSound
<1>1. ShopInv => Shop!StoreSound BY DEF ShopInv
<1> QED BY <1>1, ShopInitInv, ShopNextInv, PTL DEF Shop!Spec

-----------------------------------------------------------------------------
(* What a step may never do.                                               *)

\* Only a commit changes the rows.
LEMMA ShopRowsStay ==
    ASSUME NEW r \in Req, Shop!LocationRoutes(r) \/ Shop!StandardPluginRoutes(r) \/ ShopRows!Abort(r)
    PROVE  db' = db
<1>1. CASE ShopRows!Abort(r) BY <1>1 DEF ShopRows!Abort
<1>2. CASE Shop!StandardPluginRoutes(r)
  BY <1>2, ShopSame
     DEF Shop!StandardPluginRoutes, Shop!CreateStandardPlugin, Shop!SetStandardPluginStatus,
         Shop!DeleteStandardPlugin, Shop!ActivateStandardPlugin, Shop!DeactivateStandardPlugin, ShopRows!Begin
<1>3. CASE Shop!LocationRoutes(r)
  BY <1>3, ShopSame
     DEF Shop!LocationRoutes, Shop!AddServiceCity, Shop!DeleteServiceCity, Shop!SetCityPincodes,
         Shop!AssignCities, Shop!CreateWarehouse, Shop!AddInventory, Shop!AdjustInventory, ShopRows!Begin,
         Shop!Send
<1> QED BY <1>1, <1>2, <1>3

\* A commit takes a product's last city away only with the city itself.
LEMMA ShopCommitServes ==
    ASSUME ShopInv, NEW r \in Req, Shop!CommitRows(r)
    PROVE  /\ Shop!Served # {} /\ Shop!Served' = {} =>
                 \E k \in Shop!Served : db[Shop!City(k)] # "none" /\ db'[Shop!City(k)] = "none"
           /\ \A w \in Shop!Warehouses : db[Shop!Stock(w)] # "none" => db'[Shop!Stock(w)] # "none"
<1>1. /\ \A c \in Shop!Columns : (\A k \in CityIds : c # Shop!Link(k) /\ c \notin Shop!PinsOf(k)) =>
            db'[c] = Shop!Rows(r)[c]
      /\ (\A k \in CityIds : Shop!City(k) \notin DOMAIN writes[r]) => db' = Shop!Rows(r)
      /\ \A k \in CityIds : db'[Shop!Link(k)] = Shop!Rows(r)[Shop!Link(k)] \/ db'[Shop!City(k)] = "none"
  BY ShopCommitRowsIs
<1>2. \A c \in Shop!Columns : Shop!Rows(r)[c] = IF c \in DOMAIN writes[r] THEN writes[r][c] ELSE db[c]
  BY DEF Shop!Rows
<1>3. ASSUME NEW w \in Shop!Warehouses, db[Shop!Stock(w)] # "none" PROVE db'[Shop!Stock(w)] # "none"
  <2>1. Shop!Stock(w) \in Shop!Columns /\ \A i \in CityIds :
          Shop!Stock(w) # Shop!Link(i) /\ Shop!Stock(w) \notin Shop!PinsOf(i)
    BY ShopColumnsIn, ShopNamesApart DEF Shop!PinsOf
  <2>2. Shop!Stock(w) \in DOMAIN writes[r] => writes[r][Shop!Stock(w)] # "none"
    BY DEF ShopInv, ShopPending, ShopFits
  <2> QED BY <1>1, <1>2, <1>3, <2>1, <2>2
<1>4. ASSUME Shop!Served # {}, Shop!Served' = {}
      PROVE  \E k \in Shop!Served : db[Shop!City(k)] # "none" /\ db'[Shop!City(k)] = "none"
  <2>1. PICK k \in CityIds : db[Shop!Link(k)] # "none" BY <1>4 DEF Shop!Served
  <2>2. db[Shop!City(k)] # "none" BY <2>1 DEF ShopInv, Shop!StoreSound
  <2>3. \A i \in CityIds : db'[Shop!Link(i)] = "none" BY <1>4 DEF Shop!Served
  <2>4. \A i \in CityIds : Shop!Link(i) \in Shop!Columns BY ShopColumnsIn
  <2>5. ~ShopAssigns(r) BY <1>1, <1>2, <2>3, <2>4 DEF ShopInv, ShopPending, ShopKeeps
  <2>6. Shop!Rows(r)[Shop!Link(k)] = db[Shop!Link(k)] BY <1>2, <2>4, <2>5 DEF ShopAssigns
  <2>7. db'[Shop!City(k)] = "none" BY <1>1, <2>1, <2>3, <2>6
  <2> QED BY <2>1, <2>2, <2>7 DEF Shop!Served
<1> QED BY <1>3, <1>4

\* However assignments of cities overlap, set_product_service_cities replaces a
\* product's cities by others: only the deletion of a city leaves it without,
\* and no stock is lost.
THEOREM ProductStaysServed == Shop!Spec => Shop!StaysServed
<1>1. ShopInv /\ ShopSerialInv /\ [Shop!Next]_(Shop!vars) =>
        [/\ Shop!Served # {} /\ Shop!Served' = {} =>
               \E k \in Shop!Served : db[Shop!City(k)] # "none" /\ db'[Shop!City(k)] = "none"
         /\ \A w \in Shop!Warehouses : db[Shop!Stock(w)] # "none" => db'[Shop!Stock(w)] # "none"]_(Shop!vars)
  <2> SUFFICES ASSUME ShopInv, Shop!Next
               PROVE  /\ Shop!Served # {} /\ Shop!Served' = {} =>
                           \E k \in Shop!Served : db[Shop!City(k)] # "none" /\ db'[Shop!City(k)] = "none"
                      /\ \A w \in Shop!Warehouses : db[Shop!Stock(w)] # "none" => db'[Shop!Stock(w)] # "none"
    OBVIOUS
  <2>1. CASE db' = db BY <2>1 DEF Shop!Served
  <2>2. ASSUME NEW r \in Req, Shop!CommitRows(r)
        PROVE  /\ Shop!Served # {} /\ Shop!Served' = {} =>
                     \E k \in Shop!Served : db[Shop!City(k)] # "none" /\ db'[Shop!City(k)] = "none"
               /\ \A w \in Shop!Warehouses : db[Shop!Stock(w)] # "none" => db'[Shop!Stock(w)] # "none"
    BY <2>2, ShopCommitServes
  <2> QED BY <2>1, <2>2, ShopSame, ShopRowsStay DEF Shop!Next
<1> QED BY <1>1, ShopInitInv, ShopNextInv, PTL DEF Shop!Spec, Shop!StaysServed

LEMMA ShopCommitAsAsked ==
    ASSUME ShopInv, ShopSerialInv, ~overlapped, NEW r \in Req, Shop!CommitRows(r), NEW i \in CityIds,
           Shop!Link(i) \in DOMAIN writes[r]
    PROVE  Shop!Served' = {k \in CityIds : Shop!Link(k) \in DOMAIN writes[r]
             /\ writes[r][Shop!Link(k)] # "none"}
<1>1. ShopAssigns(r) BY DEF ShopAssigns
<1>2. ShopKeeps(r) /\ ShopWhole(r) BY <1>1 DEF ShopInv, ShopPending, ShopSerialInv
<1>3. db' = Shop!Rows(r) BY <1>2, ShopCommitRowsIs DEF ShopKeeps
<1>4. \A k \in CityIds : db'[Shop!Link(k)] = IF Shop!Link(k) \in DOMAIN writes[r]
        THEN writes[r][Shop!Link(k)] ELSE db[Shop!Link(k)]
  BY <1>3, ShopColumnsIn DEF Shop!Rows
<1>5. \A k \in CityIds : Shop!Link(k) \in DOMAIN writes[r] \/ db[Shop!Link(k)] = "none"
  BY <1>1, <1>2 DEF ShopWhole
<1> QED BY <1>4, <1>5 DEF Shop!Served

\* Alone, set_product_service_cities leaves the product sold in the cities asked for
\* and in no other.
THEOREM ServedAsAsked == Shop!Spec => Shop!AsAsked
<1> DEFINE Asked(r) == {k \in CityIds : Shop!Link(k) \in DOMAIN writes[r] /\ writes[r][Shop!Link(k)] # "none"}
           Step == \A r \in Req : ~overlapped /\ Asked(r) # {} /\ writes'[r] = ShopRows!Nothing /\ db' # db =>
                     Shop!Served' = Asked(r)
<1>1. ASSUME ShopInv, ShopSerialInv, Shop!Next PROVE Step
  <2> SUFFICES ASSUME NEW r \in Req, ~overlapped, Asked(r) # {}, db' # db PROVE Shop!Served' = Asked(r)
    OBVIOUS
  <2>1. PICK q \in Req : Shop!CommitRows(q) BY <1>1, ShopSame, ShopRowsStay DEF Shop!Next
  <2>2. PICK i \in CityIds : Shop!Link(i) \in DOMAIN writes[r] OBVIOUS
  <2>3. writes[r] # ShopRows!Nothing BY <2>2 DEF ShopRows!Nothing
  <2>4. q = r BY <1>1, <2>1, <2>3, ShopSame DEF ShopSerialInv, ShopRows!Alone, Shop!CommitRows
  <2> QED BY <1>1, <2>1, <2>2, <2>4, ShopCommitAsAsked
<1>2. ShopInv /\ ShopSerialInv /\ [Shop!Next]_(Shop!vars) => [Step]_(Shop!vars) BY <1>1
<1> HIDE DEF Step
<1>3. Shop!Spec => [][Step]_(Shop!vars) BY <1>2, ShopInitInv, ShopNextInv, PTL DEF Shop!Spec
<1>4. [][Step]_(Shop!vars) => Shop!AsAsked BY PTL DEF Shop!AsAsked, Step, Shop!Nothing, ShopRows!Nothing
<1> QED BY <1>3, <1>4
=============================================================================
