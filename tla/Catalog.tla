------------------------------ MODULE Catalog ------------------------------
(***************************************************************************)
(* A vendor, its verification, one of its products and the product's       *)
(* offerings: registration and verification (VendorService), the product   *)
(* life cycle, content review and suspension (CatalogService).  Products   *)
(* share no row but the vendor's.                                          *)
(*                                                                         *)
(* Requests in flight: see UnitOfWork.                                     *)
(***************************************************************************)
CONSTANTS
    Offerings,        \* offerings of the product; "Standard" is the listing's
    Texts,            \* versions of the listing's name, description, pictures
    Req               \* request slots

ASSUME OfferingsAssumption == "Standard" \in Offerings

VARIABLES db, writes, overlapped

vars == <<db, writes, overlapped>>

\* "review" is the setting product_content_review_required.  "reviewed" is
\* history: the listing that an operator approved last, or that was put on sale
\* or edited on sale while the review was off.
Fixed == {"vendor", "verification", "participation", "version", "plugin_id",
          "product", "pa", "listing", "review", "reviewed"}

ASSUME ColumnsAssumption == Offerings \cap Fixed = {}

Columns == Fixed \cup Offerings

Values(c) ==
    CASE c = "vendor"        -> {"none", "pending_verification", "verified", "rejected", "suspended"}
      [] c = "verification"  -> {"none", "queued", "approved", "rejected"}
      [] c = "participation" -> {"consumer", "consumer_and_vendor"}
      [] c = "version"       -> {"pending_review", "approved"}
      [] c = "plugin_id"     -> {"none", "plugin"}
      [] c = "product"       -> {"none", "draft", "published", "archived"}
      [] c = "pa"            -> {"not_submitted", "pending_review", "live", "rejected"}
      [] c = "listing"       -> Texts \cup {"none"}
      [] c = "review"        -> {"on", "off"}
      [] c = "reviewed"      -> Texts \cup {"none"}
      [] OTHER               -> {"none", "draft", "published", "unpublished"}

INSTANCE UnitOfWork

\* Rows new with the offerings whose status in db is in from set to to.
SetOfferings(new, from, to) ==
    [c \in Columns |-> IF c \in Offerings /\ db[c] \in from THEN to ELSE new[c]]

-----------------------------------------------------------------------------
(* The vendor.                                                             *)

Register(r) ==
    /\ Fresh("vendor")
    /\ Begin(r, [db EXCEPT !["vendor"] = "pending_verification",
                           !["verification"] = "queued",
                           !["participation"] = "consumer_and_vendor"])

\* Mutant: a rejected vendor keeps its participation.
DecideVerification_KeepsParticipation(r, decision) ==
    /\ db["verification"] = "queued"
    /\ Begin(r, [db EXCEPT !["verification"] = decision,
                           !["vendor"] = IF decision = "approved" THEN "verified" ELSE "rejected"])

DecideVerification(r, decision) ==
    /\ db["verification"] = "queued"
    /\ Begin(r, [db EXCEPT
          !["verification"] = decision,
          !["vendor"] = IF decision = "approved" THEN "verified" ELSE "rejected",
          !["participation"] = IF decision = "rejected" THEN "consumer" ELSE @])

SuspendVendor(r) ==
    /\ db["vendor"] \notin {"none", "suspended"}
    /\ Begin(r, SetOfferings([db EXCEPT !["vendor"] = "suspended"],
                             {"published"}, "unpublished"))

ReinstateVendor(r) ==
    /\ db["vendor"] = "suspended"
    /\ Begin(r, [db EXCEPT !["vendor"] = "verified"])

\* decide_version approves the vendor's plugin version (see PluginReview).
ApproveVersion(r) ==
    /\ db["version"] = "pending_review"
    /\ Begin(r, [db EXCEPT !["version"] = "approved"])

\* An operator changes the platform's settings (AdminOpsService.patch_config).
PatchConfig(r, setting) == Begin(r, [db EXCEPT !["review"] = setting])

-----------------------------------------------------------------------------
(* The product.                                                            *)

CreateProduct(r, plugin, text) ==
    /\ db["vendor"] = "verified"
    /\ Fresh("product")
    /\ Begin(r, [db EXCEPT !["product"] = "draft", !["plugin_id"] = plugin,
                           !["listing"] = text])

\* Creates the product when there is none.  The Standard offering is created
\* or becomes a draft again, whatever it was.
SubmitProductListing(r, text) ==
    /\ db["vendor"] = "verified"
    /\ db["product"] # "archived"
    /\ db["product"] = "none" => Fresh("product")
    /\ db["Standard"] = "none" => Fresh("Standard")
    /\ Begin(r, [db EXCEPT !["product"] = "published", !["pa"] = "pending_review",
                           !["listing"] = text, !["Standard"] = "draft"])

ResubmitProduct(r) ==
    /\ db["product"] # "none" /\ db["pa"] = "rejected"
    /\ Begin(r, [db EXCEPT !["pa"] = "pending_review"])

\* Mutant: the listing is compared with itself after the change was stored.
UpdateProduct_NoSnapshot(r, text) ==
    /\ db["product"] \notin {"none", "archived"}
    /\ Begin(r, [db EXCEPT !["listing"] = text])

\* A changed listing goes back to review and takes its offerings off sale.
UpdateProduct(r, text) ==
    LET edited == [db EXCEPT !["listing"] = text,
                             !["reviewed"] = IF db["review"] = "off" /\ db["pa"] = "live" THEN text ELSE @]
        again  == db["review"] = "on" /\ db["pa"] \in {"live", "rejected"} /\ text # db["listing"]
    IN
    /\ db["product"] \notin {"none", "archived"}
    /\ Begin(r, IF again
                THEN SetOfferings([edited EXCEPT !["pa"] = "pending_review"],
                                  {"published"}, "draft")
                ELSE edited)

ArchiveProduct(r) ==
    /\ db["product"] \notin {"none", "archived"}
    /\ Begin(r, SetOfferings([db EXCEPT !["product"] = "archived"],
                             {"published"}, "unpublished"))

CreateOffering(r, o) ==
    /\ db["product"] \notin {"none", "archived"}
    /\ Fresh(o)
    /\ Begin(r, [db EXCEPT ![o] = "draft"])

\* Mutant: a published offering does not mark its product as reviewed.
PublishOffering_NoStatus(r, o) ==
    /\ db[o] = "draft"
    /\ db["plugin_id"] = "plugin" /\ db["version"] = "approved"
    /\ Begin(r, [db EXCEPT ![o] = "published"])

\* Without a live listing the offering waits as a draft for the review.
PublishOffering(r, o) ==
    /\ db[o] = "draft"
    /\ db["plugin_id"] = "plugin" /\ db["version"] = "approved"
    /\ Begin(r, IF db["review"] = "on" /\ db["pa"] # "live"
                THEN [db EXCEPT !["pa"] = "pending_review", !["product"] = "published"]
                ELSE [db EXCEPT ![o] = "published", !["pa"] = "live",
                                !["reviewed"] = IF db["review"] = "off" THEN db["listing"] ELSE @,
                                !["product"] = IF @ = "draft" THEN "published" ELSE @])

ApproveProduct(r) ==
    /\ db["product"] # "none" /\ db["pa"] = "pending_review"
    /\ Begin(r, SetOfferings(
          [db EXCEPT !["pa"] = "live", !["reviewed"] = db["listing"],
                     !["product"] = IF @ = "draft" THEN "published" ELSE @],
          {"draft"}, "published"))

\* Mutant: only drafts are taken off sale.
RejectProduct_DraftsOnly(r) ==
    /\ db["product"] # "none" /\ db["pa"] = "pending_review"
    /\ Begin(r, SetOfferings([db EXCEPT !["pa"] = "rejected"], {"draft"}, "unpublished"))

RejectProduct(r) ==
    /\ db["product"] # "none" /\ db["pa"] = "pending_review"
    /\ Begin(r, SetOfferings([db EXCEPT !["pa"] = "rejected"],
                             {"published", "draft"}, "unpublished"))

-----------------------------------------------------------------------------
Init ==
    /\ db = [c \in Columns |->
                CASE c = "participation" -> "consumer"
                  [] c = "version"       -> "pending_review"
                  [] c = "pa"            -> "not_submitted"
                  [] c = "review"        -> "on"
                  [] OTHER               -> "none"]
    /\ writes = [r \in Req |-> Nothing]
    /\ overlapped = FALSE

Next ==
    \E r \in Req :
        \/ Register(r)
        \/ \E d \in {"approved", "rejected"} : DecideVerification(r, d)
        \/ SuspendVendor(r)
        \/ ReinstateVendor(r)
        \/ ApproveVersion(r)
        \/ \E s \in {"on", "off"} : PatchConfig(r, s)
        \/ \E p \in {"none", "plugin"}, t \in Texts : CreateProduct(r, p, t)
        \/ \E t \in Texts : SubmitProductListing(r, t)
        \/ ResubmitProduct(r)
        \/ \E t \in Texts : UpdateProduct(r, t)
        \/ ArchiveProduct(r)
        \/ \E o \in Offerings : CreateOffering(r, o)
        \/ \E o \in Offerings : PublishOffering(r, o)
        \/ ApproveProduct(r)
        \/ RejectProduct(r)
        \/ Commit(r)
        \/ Abort(r)

Spec == Init /\ [][Next]_vars

-----------------------------------------------------------------------------
\* Every column, committed or about to be, has its type.
TypeOK ==
    /\ DOMAIN db = Columns
    /\ \A c \in Columns : db[c] \in Values(c)
    /\ overlapped \in BOOLEAN
    /\ DOMAIN writes = Req
    /\ \A r \in Req : /\ DOMAIN writes[r] \subseteq Columns
                      /\ \A c \in DOMAIN writes[r] : writes[r][c] \in Values(c)

OnSale == {o \in Offerings : db[o] = "published"}

\* What catalog() lists to buyers.
Visible ==
    {o \in OnSale :
        /\ db["product"] = "published"
        /\ db["review"] = "on" => db["pa"] \in {"live", "not_submitted"}}

(* However requests interleave.                                            *)

\* An offering goes on sale only by way of the content review or of a live
\* product, never straight from a product nobody submitted, although the
\* catalog query would list it.
OnSaleWasSubmitted == OnSale # {} => db["pa"] # "not_submitted"

\* "A rejected vendor is not a partial vendor": whichever of two overlapping
\* decisions is left standing, a rejection takes the participation back.
RejectedIsConsumer ==
    db["verification"] = "rejected" => db["participation"] = "consumer"

(* Requests that do not overlap.                                           *)

\* While the content review is on, buyers see only what an operator approved or
\* what was on sale before the review was turned on.
VisibleIsReviewed ==
    ~overlapped /\ db["review"] = "on" /\ Visible # {} => db["listing"] = db["reviewed"]

\* A rejected product has no offering on sale, those that were on sale while
\* the listing was under review included.
RejectedIsOffSale == ~overlapped /\ db["pa"] = "rejected" => OnSale = {}

=============================================================================
