-------------------------- MODULE PluginReview_proofs --------------------------
(***************************************************************************)
(* Proofs about PluginReview: what holds for every set of reviewers,       *)
(* scopes and capability rows, and any number of requests in flight; and,  *)
(* as the instance Ops, about Platform, for any number of people: the      *)
(* team keeps one super admin (SuperAdminKept).                            *)
(***************************************************************************)
EXTENDS PluginReview, Naturals, TLAPS

\* The type of each column.
LEMMA ColumnTypes ==
    /\ Values("plugin") = {"none", "draft", "active"}
    /\ Values("status") = {"none", "pending_review", "changes_requested", "approved", "rejected"}
    /\ Values("scan") = {"none", "pending", "passed"}
    /\ Values("risk") = {"low", "medium", "high"}
    /\ Values("claimed_by") = Reviewers \cup {"none"}
    /\ Values("decided_by") = Reviewers \cup {"none"}
    /\ Values("author") = Reviewers \cup {"none", "changes"}
    /\ Values("judged") = SUBSET Scopes
    /\ \A k \in CapRows : Values(k) = Scopes \cup {"none"}
<1>1. \A k \in CapRows : /\ k # "plugin" /\ k # "status" /\ k # "scan" /\ k # "risk"
                         /\ k # "claimed_by" /\ k # "decided_by" /\ k # "author" /\ k # "judged"
  BY ColumnsAssumption DEF Fixed
<1> QED BY <1>1 DEF Values

LEMMA FixedColumns ==
    /\ "plugin" \in Columns /\ "status" \in Columns /\ "scan" \in Columns /\ "risk" \in Columns
    /\ "claimed_by" \in Columns /\ "decided_by" \in Columns /\ "author" \in Columns
    /\ "judged" \in Columns /\ \A k \in CapRows : k \in Columns
BY DEF Columns, Fixed

\* No capability row is named like a column of the version.
LEMMA CapRowsApart ==
    \A k \in CapRows : /\ k # "plugin" /\ k # "status" /\ k # "scan" /\ k # "risk"
                       /\ k # "claimed_by" /\ k # "decided_by" /\ k # "author" /\ k # "judged"
BY ColumnsAssumption DEF Fixed

-----------------------------------------------------------------------------
(* However requests interleave: what requests in flight are going to write *)
(* fits the plugin's status as it is now.                                  *)

\* A plugin is registered once, and its registration is the only write of its
\* status that is in flight until it is there.  Who writes an approval has seen
\* the plugin, and found it active or makes it so.
PluginWrites ==
    /\ db["plugin"] = "none" => db["status"] = "none"
    /\ \A r \in Req :
        /\ "plugin" \in DOMAIN writes[r] =>
              \/ writes[r]["plugin"] = "draft" /\ db["plugin"] = "none"
              \/ writes[r]["plugin"] = "active" /\ db["plugin"] # "none"
        /\ "status" \in DOMAIN writes[r] => "plugin" \in DOMAIN writes[r] \/ db["plugin"] # "none"
        /\ "status" \in DOMAIN writes[r] /\ writes[r]["status"] = "approved" =>
              /\ db["plugin"] # "none"
              /\ db["plugin"] = "active" \/ "plugin" \in DOMAIN writes[r]
    /\ \A r, q \in Req :
          db["plugin"] = "none" /\ "plugin" \in DOMAIN writes[r] /\ "plugin" \in DOMAIN writes[q]
             => r = q

Inv == ApprovedIsActive /\ PluginWrites

\* What the handlers guarantee of the rows they are going to leave.
Leaves(new) ==
    /\ \A c \in Columns : new[c] \in Values(c)
    /\ new["plugin"] # db["plugin"] =>
          \/ new["plugin"] = "draft" /\ Fresh("plugin")
          \/ new["plugin"] = "active" /\ db["plugin"] # "none"
    /\ new["status"] # db["status"] => new["plugin"] # "none"
    /\ new["status"] # db["status"] /\ new["status"] = "approved" =>
          db["plugin"] # "none" /\ new["plugin"] = "active"

LEMMA BeginKeeps ==
    ASSUME Inv, NEW r \in Req, NEW new, Begin(r, new), Leaves(new)
    PROVE  Inv'
<1>1. /\ db' = db /\ overlapped' \in BOOLEAN
      /\ DOMAIN writes' = Req
      /\ DOMAIN writes'[r] = {c \in Columns : new[c] # db[c]}
      /\ \A c \in DOMAIN writes'[r] : writes'[r][c] = new[c]
      /\ \A q \in Req : q # r => writes'[q] = writes[q]
  BY BeginWrites DEF Inv, ApprovedIsActive, TypeOK
<1>2. ASSUME NEW q \in Req
      PROVE  /\ DOMAIN writes'[q] \subseteq Columns
             /\ \A c \in DOMAIN writes'[q] : writes'[q][c] \in Values(c)
  <2>1. CASE q = r BY <1>1, <2>1 DEF Leaves
  <2>2. CASE q # r BY <1>1, <2>2 DEF Inv, ApprovedIsActive, TypeOK
  <2> QED BY <2>1, <2>2
<1>3. ApprovedIsActive'
  BY <1>1, <1>2 DEF Inv, ApprovedIsActive, TypeOK
<1>4. ASSUME NEW q \in Req
      PROVE  /\ "plugin" \in DOMAIN writes'[q] =>
                   \/ writes'[q]["plugin"] = "draft" /\ db["plugin"] = "none"
                   \/ writes'[q]["plugin"] = "active" /\ db["plugin"] # "none"
             /\ "status" \in DOMAIN writes'[q] => "plugin" \in DOMAIN writes'[q] \/ db["plugin"] # "none"
             /\ "status" \in DOMAIN writes'[q] /\ writes'[q]["status"] = "approved" =>
                   /\ db["plugin"] # "none"
                   /\ db["plugin"] = "active" \/ "plugin" \in DOMAIN writes'[q]
  <2>1. CASE q = r BY <1>1, <2>1, FixedColumns DEF Leaves, Fresh
  <2>2. CASE q # r BY <1>1, <2>2 DEF Inv, PluginWrites
  <2> QED BY <2>1, <2>2
<1>5. "plugin" \in DOMAIN writes'[r] /\ db["plugin"] = "none"
         => \A q \in Req : q # r => "plugin" \notin DOMAIN writes[q]
  BY <1>1, FixedColumns DEF Leaves, Fresh
<1>6. \A p, q \in Req :
         db["plugin"] = "none" /\ "plugin" \in DOMAIN writes'[p] /\ "plugin" \in DOMAIN writes'[q]
            => p = q
  BY <1>1, <1>5 DEF Inv, PluginWrites
<1>7. PluginWrites' BY <1>1, <1>4, <1>6 DEF Inv, PluginWrites
<1> QED BY <1>3, <1>7 DEF Inv

LEMMA CommitKeeps ==
    ASSUME Inv, NEW r \in Req, Commit(r)
    PROVE  Inv'
<1>1. /\ DOMAIN db' = Columns /\ overlapped' = overlapped
      /\ \A c \in Columns : db'[c] = IF c \in DOMAIN writes[r] THEN writes[r][c] ELSE db[c]
      /\ DOMAIN writes' = Req
      /\ DOMAIN writes'[r] = {}
      /\ \A q \in Req : q # r => writes'[q] = writes[q]
  BY CommitWrites DEF Inv, ApprovedIsActive, TypeOK
<1>2. TypeOK' BY <1>1 DEF Inv, ApprovedIsActive, TypeOK
<1>3. db["plugin"] \in {"none", "draft", "active"}
  BY FixedColumns, ColumnTypes DEF Inv, ApprovedIsActive, TypeOK
<1>4. ApprovedIsActive'
  BY <1>1, <1>2, <1>3, FixedColumns DEF Inv, ApprovedIsActive, PluginWrites
<1>5. db'["plugin"] = "none" => db["plugin"] = "none" /\ "plugin" \notin DOMAIN writes[r]
  BY <1>1, FixedColumns DEF Inv, PluginWrites
<1>6. db'["plugin"] = "none" => db'["status"] = "none"
  BY <1>1, <1>5, FixedColumns DEF Inv, PluginWrites
<1>7. ASSUME NEW q \in Req, q # r
      PROVE  /\ "plugin" \in DOMAIN writes[q] =>
                   \/ writes[q]["plugin"] = "draft" /\ db'["plugin"] = "none"
                   \/ writes[q]["plugin"] = "active" /\ db'["plugin"] # "none"
             /\ "status" \in DOMAIN writes[q] => "plugin" \in DOMAIN writes[q] \/ db'["plugin"] # "none"
             /\ "status" \in DOMAIN writes[q] /\ writes[q]["status"] = "approved" =>
                   /\ db'["plugin"] # "none"
                   /\ db'["plugin"] = "active" \/ "plugin" \in DOMAIN writes[q]
  BY <1>1, <1>5, <1>7, FixedColumns DEF Inv, PluginWrites
<1>8. PluginWrites' BY <1>1, <1>5, <1>6, <1>7 DEF Inv, PluginWrites
<1> QED BY <1>4, <1>8 DEF Inv

LEMMA AbortKeeps ==
    ASSUME Inv, NEW r \in Req, Abort(r)
    PROVE  Inv'
<1>1. /\ db' = db /\ overlapped' = overlapped
      /\ DOMAIN writes' = Req
      /\ DOMAIN writes'[r] = {}
      /\ \A q \in Req : q # r => writes'[q] = writes[q]
  BY AbortWrites DEF Inv, ApprovedIsActive, TypeOK
<1>2. ApprovedIsActive' BY <1>1 DEF Inv, ApprovedIsActive, TypeOK
<1>3. PluginWrites' BY <1>1 DEF Inv, PluginWrites
<1> QED BY <1>2, <1>3 DEF Inv

-----------------------------------------------------------------------------
(* Requests that do not overlap.                                           *)

DeclaredIn(rows) == {rows[k] : k \in CapRows} \ {"none"}

\* What each handler keeps of the rows when it runs alone: a decision is the
\* claim holder's, about the capabilities that the version has, whose risk is
\* the stored one.
ReviewSound(rows) ==
    /\ rows["status"] \in {"approved", "rejected"} =>
          /\ rows["claimed_by"] # "none" => rows["author"] = rows["claimed_by"]
          /\ DeclaredIn(rows) = rows["judged"]
    /\ DeclaredIn(rows) # {} => rows["risk"] = risk_level_for_scopes(DeclaredIn(rows))

\* And it leaves a decision alone.
Stands(rows, new) == rows["status"] \in {"approved", "rejected"} => new["status"] = rows["status"]

SerialInv ==
    /\ Alone
    /\ ~overlapped => /\ ReviewSound(db)
                      /\ \A r \in Req : ReviewSound(After(r)) /\ Stands(db, After(r))

\* r is a handler that keeps all of this.
Handles(r) ==
    \E new : /\ Begin(r, new)
             /\ Leaves(new)
             /\ ReviewSound(db) => ReviewSound(new) /\ Stands(db, new)

LEMMA DeclaredSame ==
    ASSUME NEW rows, NEW new, \A k \in CapRows : new[k] = rows[k]
    PROVE  DeclaredIn(new) = DeclaredIn(rows)
BY DEF DeclaredIn

LEMMA ReviewSoundSame ==
    ASSUME NEW rows, NEW new, \A c \in Columns : new[c] = rows[c], ReviewSound(rows)
    PROVE  ReviewSound(new)
<1>1. DeclaredIn(new) = DeclaredIn(rows) BY DeclaredSame, FixedColumns
<1> QED BY <1>1, FixedColumns DEF ReviewSound

\* A handler that changes neither capabilities nor the risk, and no version that
\* has been decided or is to be.
LEMMA UndecidedSound ==
    ASSUME NEW new, \A k \in CapRows : new[k] = db[k], new["risk"] = db["risk"],
           \/ db["status"] \notin {"approved", "rejected"} /\ new["status"] \notin {"approved", "rejected"}
           \/ /\ new["status"] = db["status"] /\ new["claimed_by"] = db["claimed_by"]
              /\ new["author"] = db["author"] /\ new["judged"] = db["judged"]
    PROVE  ReviewSound(db) => ReviewSound(new) /\ Stands(db, new)
<1>1. DeclaredIn(new) = DeclaredIn(db) BY DeclaredSame
<1> QED BY <1>1 DEF ReviewSound, Stands

LEMMA RegisterHandles ==
    ASSUME Inv, NEW r \in Req, RegisterPlugin(r)
    PROVE  Handles(r)
<1> DEFINE new == [db EXCEPT !["plugin"] = "draft"]
<1>1. Fresh("plugin") /\ Begin(r, new) BY DEF RegisterPlugin
<1>2. \A c \in Columns : new[c] \in Values(c)
  BY FixedColumns, ColumnTypes DEF Inv, ApprovedIsActive, TypeOK
<1>3. /\ \A k \in CapRows : new[k] = db[k]
      /\ new["risk"] = db["risk"] /\ new["status"] = db["status"] /\ new["plugin"] = "draft"
      /\ new["claimed_by"] = db["claimed_by"] /\ new["author"] = db["author"] /\ new["judged"] = db["judged"]
  BY FixedColumns, CapRowsApart DEF Inv, ApprovedIsActive, TypeOK
<1>4. db["plugin"] \in {"none", "draft", "active"} /\ (db["plugin"] = "none" => db["status"] = "none")
  BY FixedColumns, ColumnTypes DEF Inv, ApprovedIsActive, TypeOK, PluginWrites
<1> HIDE DEF new
<1>5. Leaves(new) BY <1>1, <1>2, <1>3, <1>4 DEF Leaves, Fresh
<1>6. ReviewSound(db) => ReviewSound(new) /\ Stands(db, new)
  BY <1>1, <1>3, UndecidedSound
<1> QED BY <1>1, <1>5, <1>6 DEF Handles

LEMMA SubmitHandles ==
    ASSUME Inv, NEW r \in Req, SubmitVersion(r)
    PROVE  Handles(r)
<1> DEFINE new == [db EXCEPT !["status"] = "pending_review", !["scan"] = "pending"]
<1>1. db["plugin"] # "none" /\ db["status"] = "none" /\ Begin(r, new) BY DEF SubmitVersion, Fresh
<1>2. \A c \in Columns : new[c] \in Values(c)
  BY FixedColumns, ColumnTypes DEF Inv, ApprovedIsActive, TypeOK
<1>3. /\ \A k \in CapRows : new[k] = db[k]
      /\ new["risk"] = db["risk"] /\ new["status"] = "pending_review" /\ new["plugin"] = db["plugin"]
  BY FixedColumns, CapRowsApart DEF Inv, ApprovedIsActive, TypeOK
<1>4. db["plugin"] \in {"none", "draft", "active"} /\ (db["plugin"] = "none" => db["status"] = "none")
  BY FixedColumns, ColumnTypes DEF Inv, ApprovedIsActive, TypeOK, PluginWrites
<1> HIDE DEF new
<1>5. Leaves(new) BY <1>1, <1>2, <1>3, <1>4 DEF Leaves, Fresh
<1>6. ReviewSound(db) => ReviewSound(new) /\ Stands(db, new)
  BY <1>1, <1>3, UndecidedSound
<1> QED BY <1>1, <1>5, <1>6 DEF Handles

LEMMA BundleHandles ==
    ASSUME Inv, NEW r \in Req, SubmitPluginBundle(r)
    PROVE  Handles(r)
<1> DEFINE new == [db EXCEPT !["plugin"] = IF @ = "none" THEN "draft" ELSE @,
                             !["status"] = "pending_review", !["scan"] = "pending"]
<1>1. (db["plugin"] = "none" => Fresh("plugin")) /\ db["status"] = "none" /\ Begin(r, new) BY DEF SubmitPluginBundle, Fresh
<1>2. \A c \in Columns : new[c] \in Values(c)
  BY FixedColumns, ColumnTypes DEF Inv, ApprovedIsActive, TypeOK
<1>3. /\ \A k \in CapRows : new[k] = db[k]
      /\ new["risk"] = db["risk"] /\ new["status"] = "pending_review"
      /\ new["plugin"] = IF db["plugin"] = "none" THEN "draft" ELSE db["plugin"]
  BY FixedColumns, CapRowsApart DEF Inv, ApprovedIsActive, TypeOK
<1>4. db["plugin"] \in {"none", "draft", "active"} /\ (db["plugin"] = "none" => db["status"] = "none")
  BY FixedColumns, ColumnTypes DEF Inv, ApprovedIsActive, TypeOK, PluginWrites
<1> HIDE DEF new
<1>5. Leaves(new) BY <1>1, <1>2, <1>3, <1>4 DEF Leaves, Fresh
<1>6. ReviewSound(db) => ReviewSound(new) /\ Stands(db, new)
  BY <1>1, <1>3, UndecidedSound
<1> QED BY <1>1, <1>5, <1>6 DEF Handles

LEMMA ScanHandles ==
    ASSUME Inv, NEW r \in Req, HandleScan(r)
    PROVE  Handles(r)
<1> DEFINE new == [db EXCEPT !["scan"] = "passed"]
<1>1. Begin(r, new) BY DEF HandleScan
<1>2. \A c \in Columns : new[c] \in Values(c)
  BY FixedColumns, ColumnTypes DEF Inv, ApprovedIsActive, TypeOK
<1>3. /\ \A k \in CapRows : new[k] = db[k]
      /\ new["risk"] = db["risk"] /\ new["status"] = db["status"] /\ new["plugin"] = db["plugin"]
      /\ new["claimed_by"] = db["claimed_by"] /\ new["author"] = db["author"] /\ new["judged"] = db["judged"]
  BY FixedColumns, CapRowsApart DEF Inv, ApprovedIsActive, TypeOK
<1>4. db["plugin"] \in {"none", "draft", "active"} /\ (db["plugin"] = "none" => db["status"] = "none")
  BY FixedColumns, ColumnTypes DEF Inv, ApprovedIsActive, TypeOK, PluginWrites
<1> HIDE DEF new
<1>5. Leaves(new) BY <1>1, <1>2, <1>3, <1>4 DEF Leaves, Fresh
<1>6. ReviewSound(db) => ReviewSound(new) /\ Stands(db, new)
  BY <1>1, <1>3, UndecidedSound
<1> QED BY <1>1, <1>5, <1>6 DEF Handles

LEMMA ClaimHandles ==
    ASSUME Inv, NEW r \in Req, NEW u \in Reviewers, ClaimVersion(r, u)
    PROVE  Handles(r)
<1> DEFINE new == [db EXCEPT !["claimed_by"] = u]
<1>1. db["status"] \in {"pending_review", "changes_requested"} /\ Begin(r, new) BY DEF ClaimVersion
<1>2. \A c \in Columns : new[c] \in Values(c)
  BY FixedColumns, ColumnTypes DEF Inv, ApprovedIsActive, TypeOK
<1>3. /\ \A k \in CapRows : new[k] = db[k]
      /\ new["risk"] = db["risk"] /\ new["status"] = db["status"] /\ new["plugin"] = db["plugin"]
  BY FixedColumns, CapRowsApart DEF Inv, ApprovedIsActive, TypeOK
<1>4. db["plugin"] \in {"none", "draft", "active"} /\ (db["plugin"] = "none" => db["status"] = "none")
  BY FixedColumns, ColumnTypes DEF Inv, ApprovedIsActive, TypeOK, PluginWrites
<1> HIDE DEF new
<1>5. Leaves(new) BY <1>1, <1>2, <1>3, <1>4 DEF Leaves, Fresh
<1>6. ReviewSound(db) => ReviewSound(new) /\ Stands(db, new)
  BY <1>1, <1>3, UndecidedSound
<1> QED BY <1>1, <1>5, <1>6 DEF Handles

LEMMA ChangesHandles ==
    ASSUME Inv, NEW r \in Req, NEW u \in Reviewers, RequestChanges(r, u)
    PROVE  Handles(r)
<1> DEFINE new == [db EXCEPT !["status"] = "changes_requested", !["author"] = "changes"]
<1>1. db["status"] = "pending_review" /\ Begin(r, new) BY DEF RequestChanges
<1>2. \A c \in Columns : new[c] \in Values(c)
  BY FixedColumns, ColumnTypes DEF Inv, ApprovedIsActive, TypeOK
<1>3. /\ \A k \in CapRows : new[k] = db[k]
      /\ new["risk"] = db["risk"] /\ new["status"] = "changes_requested" /\ new["plugin"] = db["plugin"]
  BY FixedColumns, CapRowsApart DEF Inv, ApprovedIsActive, TypeOK
<1>4. db["plugin"] \in {"none", "draft", "active"} /\ (db["plugin"] = "none" => db["status"] = "none")
  BY FixedColumns, ColumnTypes DEF Inv, ApprovedIsActive, TypeOK, PluginWrites
<1> HIDE DEF new
<1>5. Leaves(new) BY <1>1, <1>2, <1>3, <1>4 DEF Leaves, Fresh
<1>6. ReviewSound(db) => ReviewSound(new) /\ Stands(db, new)
  BY <1>1, <1>3, UndecidedSound
<1> QED BY <1>1, <1>5, <1>6 DEF Handles

\* Who decides holds the claim or nobody does, and judges what is declared.
LEMMA DecideHandles ==
    ASSUME Inv, NEW r \in Req, NEW u \in Reviewers, NEW d \in {"approved", "rejected"},
           DecideVersion(r, u, d)
    PROVE  Handles(r)
<1> DEFINE new == Decided(u, d)
<1>1. /\ db["status"] \in {"pending_review", "changes_requested"}
      /\ db["claimed_by"] \in {"none", u} /\ Begin(r, new)
  BY DEF DecideVersion, RequireClaim
<1>2. Declared \in SUBSET Scopes
  BY FixedColumns, ColumnTypes DEF Declared, Inv, ApprovedIsActive, TypeOK
<1>3. \A c \in Columns : new[c] \in Values(c)
  BY <1>2, FixedColumns, ColumnTypes DEF Decided, Inv, ApprovedIsActive, TypeOK
<1>4. /\ \A k \in CapRows : new[k] = db[k]
      /\ new["risk"] = db["risk"] /\ new["status"] = d
      /\ new["plugin"] = IF d = "approved" /\ db["plugin"] = "draft" THEN "active" ELSE db["plugin"]
      /\ new["claimed_by"] = db["claimed_by"] /\ new["author"] = u /\ new["judged"] = Declared
  BY FixedColumns, CapRowsApart DEF Decided, Inv, ApprovedIsActive, TypeOK
<1>5. db["plugin"] \in {"draft", "active"}
  BY <1>1, FixedColumns, ColumnTypes DEF Inv, ApprovedIsActive, TypeOK, PluginWrites
<1> HIDE DEF new
<1>6. Leaves(new) BY <1>1, <1>3, <1>4, <1>5 DEF Leaves
<1>7. DeclaredIn(new) = DeclaredIn(db) /\ DeclaredIn(db) = Declared
  BY <1>4, DeclaredSame DEF DeclaredIn, Declared
<1>8. ReviewSound(db) => ReviewSound(new) /\ Stands(db, new)
  BY <1>1, <1>4, <1>7 DEF ReviewSound, Stands
<1> QED BY <1>1, <1>6, <1>8 DEF Handles

\* A declaration replaces all rows of a version that is not decided, and stores
\* the risk of what it inserts.
LEMMA DeclareHandles ==
    ASSUME Inv, NEW r \in Req, NEW S \in SUBSET Scopes, DeclareCapabilities(r, S)
    PROVE  Handles(r)
<1>1. PICK f \in NewRows(S) : DeclareWith(r, f) BY DEF DeclareCapabilities
<1>2. db["status"] \notin {"none", "approved", "rejected"} /\ S # {} BY DEF DeclareCapabilities
<1>3. DOMAIN f \subseteq CapRows /\ (\A k \in DOMAIN f : f[k] \in S) /\ (\A x \in S : \E k \in DOMAIN f : f[k] = x)
  BY DEF NewRows
<1> DEFINE scopes == {f[k] : k \in DOMAIN f}
           new == [c \in Columns |-> IF c \in DOMAIN f THEN f[c]
                                     ELSE IF c \in CapRows THEN "none"
                                     ELSE IF c = "risk" THEN risk_level_for_scopes(scopes)
                                     ELSE db[c]]
<1>4. Begin(r, new) BY <1>1 DEF DeclareWith
<1>5. risk_level_for_scopes(scopes) \in {"low", "medium", "high"} BY DEF risk_level_for_scopes
<1>6. \A c \in Columns : new[c] \in Values(c)
  BY <1>3, <1>5, FixedColumns, ColumnTypes DEF Inv, ApprovedIsActive, TypeOK
<1>7. /\ \A k \in CapRows : new[k] = IF k \in DOMAIN f THEN f[k] ELSE "none"
      /\ new["risk"] = risk_level_for_scopes(scopes)
      /\ new["status"] = db["status"] /\ new["plugin"] = db["plugin"]
  BY <1>3, FixedColumns, CapRowsApart
<1> HIDE DEF new
<1>8. Leaves(new) BY <1>2, <1>6, <1>7 DEF Leaves
<1>9. DeclaredIn(new) = scopes
  BY <1>3, <1>7, ColumnsAssumption DEF DeclaredIn
<1>10. ReviewSound(new) /\ Stands(db, new)
  BY <1>2, <1>7, <1>9 DEF ReviewSound, Stands
<1> QED BY <1>4, <1>8, <1>10 DEF Handles

LEMMA SerialBegin ==
    ASSUME Inv, SerialInv, NEW r \in Req, Handles(r)
    PROVE  Inv' /\ SerialInv'
<1>1. PICK new : /\ Begin(r, new)
                 /\ Leaves(new)
                 /\ ReviewSound(db) => ReviewSound(new) /\ Stands(db, new)
  BY DEF Handles
<1>2. Inv' BY <1>1, BeginKeeps
<1>3. /\ Alone'
      /\ ~overlapped' =>
            /\ ~overlapped /\ db' = db
            /\ \A c \in Columns : After(r)'[c] = new[c]
            /\ \A q \in Req : q # r => \A c \in Columns : After(q)'[c] = db[c]
  BY <1>1, BeginAlone DEF Inv, ApprovedIsActive, TypeOK
<1>4. ASSUME ~overlapped' PROVE ReviewSound(db) /\ ReviewSound(new) /\ Stands(db, new) /\ ReviewSound(db')
  BY <1>1, <1>3, <1>4 DEF SerialInv
<1>5. ASSUME ~overlapped', NEW q \in Req PROVE ReviewSound(After(q)') /\ Stands(db', After(q)')
  <2>1. CASE q = r
    BY <1>3, <1>4, <1>5, <2>1, ReviewSoundSame, FixedColumns DEF Stands
  <2>2. CASE q # r
    BY <1>3, <1>4, <1>5, <2>2, ReviewSoundSame, FixedColumns DEF Stands
  <2> QED BY <2>1, <2>2
<1>6. SerialInv' BY <1>3, <1>4, <1>5 DEF SerialInv, ReviewSound, DeclaredIn, Stands
<1> QED BY <1>2, <1>6

LEMMA SerialCommit ==
    ASSUME Inv, SerialInv, NEW r \in Req, Commit(r)
    PROVE  SerialInv' /\ (~overlapped => Stands(db, db'))
<1>1. /\ Alone'
      /\ ~overlapped' =>
            /\ ~overlapped /\ db' = After(r)
            /\ \A q \in Req : \A c \in Columns : After(q)'[c] = db'[c]
  BY CommitAlone DEF Inv, ApprovedIsActive, TypeOK, SerialInv
<1>2. overlapped' = overlapped /\ db' = After(r) BY DEF Commit
<1>3. ASSUME ~overlapped PROVE ReviewSound(db') /\ Stands(db, db')
  BY <1>2, <1>3 DEF SerialInv
<1>4. ASSUME ~overlapped', NEW q \in Req PROVE ReviewSound(After(q)') /\ Stands(db', After(q)')
  BY <1>1, <1>2, <1>3, <1>4, ReviewSoundSame, FixedColumns DEF Stands
<1> QED BY <1>1, <1>2, <1>3, <1>4 DEF SerialInv, ReviewSound, DeclaredIn, Stands

LEMMA SerialAbort ==
    ASSUME Inv, SerialInv, NEW r \in Req, Abort(r)
    PROVE  SerialInv'
<1>1. /\ Alone'
      /\ ~overlapped' =>
            /\ ~overlapped /\ db' = db
            /\ \A q \in Req : \A c \in Columns : After(q)'[c] = db'[c]
  BY AbortAlone DEF Inv, ApprovedIsActive, TypeOK, SerialInv
<1>2. ASSUME ~overlapped' PROVE ReviewSound(db')
  BY <1>1, <1>2 DEF SerialInv
<1>3. ASSUME ~overlapped', NEW q \in Req PROVE ReviewSound(After(q)') /\ Stands(db', After(q)')
  BY <1>1, <1>2, <1>3, ReviewSoundSame, FixedColumns DEF Stands
<1> QED BY <1>1, <1>2, <1>3 DEF SerialInv, ReviewSound, DeclaredIn, Stands

-----------------------------------------------------------------------------
(* The theorems.                                                           *)

LEMMA InitInv == Init => Inv /\ SerialInv
<1> SUFFICES ASSUME Init PROVE Inv /\ SerialInv OBVIOUS
<1>1. DOMAIN writes = Req /\ \A r \in Req : writes[r] = Nothing /\ DOMAIN writes[r] = {}
  BY DEF Init, Nothing
<1>2. /\ DOMAIN db = Columns /\ overlapped = FALSE
      /\ \A c \in Columns : db[c] = CASE c = "risk" -> "low" [] c = "judged" -> {} [] OTHER -> "none"
  BY DEF Init
<1>3. db["plugin"] = "none" /\ db["status"] = "none" /\ \A k \in CapRows : db[k] = "none"
  BY <1>2, FixedColumns, CapRowsApart
<1>4. \A c \in Columns : db[c] \in Values(c)
  BY <1>2, <1>3, FixedColumns, ColumnTypes DEF Columns, Fixed
<1>5. Inv BY <1>1, <1>2, <1>3, <1>4 DEF Inv, ApprovedIsActive, TypeOK, PluginWrites
<1>6. DeclaredIn(db) = {} BY <1>3 DEF DeclaredIn
<1>7. ReviewSound(db) BY <1>3, <1>6 DEF ReviewSound
<1>8. ASSUME NEW r \in Req PROVE ReviewSound(After(r)) /\ Stands(db, After(r))
  BY <1>1, <1>3, <1>7, AfterNothing, ReviewSoundSame, FixedColumns DEF Stands
<1>9. Alone BY <1>1 DEF Alone
<1> QED BY <1>5, <1>7, <1>8, <1>9 DEF SerialInv

LEMMA StepKeeps ==
    ASSUME Inv, SerialInv, [Next]_vars
    PROVE  Inv' /\ SerialInv' /\ (~overlapped => Stands(db, db'))
<1>1. CASE UNCHANGED vars
  <2>1. Inv' BY <1>1 DEF vars, Inv, ApprovedIsActive, TypeOK, PluginWrites
  <2>2. db' = db /\ writes' = writes /\ overlapped' = overlapped BY <1>1 DEF vars
  <2>3. Alone' BY <2>2 DEF SerialInv, Alone
  <2>4. ReviewSound(db)' <=> ReviewSound(db) BY <2>2
  <2>5. ASSUME NEW r \in Req
        PROVE  /\ ReviewSound(After(r))' <=> ReviewSound(After(r))
               /\ Stands(db, After(r))' <=> Stands(db, After(r))
    <3>1. After(r)' = After(r) BY <2>2 DEF After
    <3> QED BY <3>1, <2>2 DEF ReviewSound, DeclaredIn, Stands
  <2>6. SerialInv' BY <2>2, <2>3, <2>4, <2>5 DEF SerialInv
  <2> QED BY <2>1, <2>2, <2>6 DEF Stands
<1>2. CASE Next
  <2> PICK r \in Req :
        \/ RegisterPlugin(r)
        \/ SubmitVersion(r)
        \/ SubmitPluginBundle(r)
        \/ \E S \in SUBSET Scopes : DeclareCapabilities(r, S)
        \/ HandleScan(r)
        \/ \E u \in Reviewers : ClaimVersion(r, u)
        \/ \E u \in Reviewers : RequestChanges(r, u)
        \/ \E u \in Reviewers, d \in {"approved", "rejected"} : DecideVersion(r, u, d)
        \/ CommitUnique(r)
        \/ Abort(r)
    BY <1>2 DEF Next
  <2>1. Handles(r) \/ Commit(r) \/ Abort(r)
    BY RegisterHandles, SubmitHandles, BundleHandles, DeclareHandles, ScanHandles, ClaimHandles,
       ChangesHandles, DecideHandles DEF CommitUnique
  <2>2. CASE Handles(r)
    BY <2>2, SerialBegin DEF Handles, Begin, Stands
  <2>3. CASE Commit(r)
    BY <2>3, CommitKeeps, SerialCommit
  <2>4. CASE Abort(r)
    BY <2>4, AbortKeeps, SerialAbort DEF Abort, Stands
  <2> QED BY <2>1, <2>2, <2>3, <2>4
<1> QED BY <1>1, <1>2

\* The invariants of overlapping and of other requests.
THEOREM InvHolds == Spec => [](Inv /\ SerialInv)
<1>1. Inv /\ SerialInv /\ [Next]_vars => (Inv /\ SerialInv)' BY StepKeeps
<1> QED BY <1>1, InitInv, PTL DEF Spec

\* However decide_version, request_changes and submissions overlap, the plugin
\* of an approved version is active.
THEOREM ApprovedActive == Spec => []ApprovedIsActive
<1>1. Inv => ApprovedIsActive BY DEF Inv
<1> QED BY <1>1, InvHolds, PTL

\* While requests do not overlap, the holder of the claim has decided.
THEOREM HolderDecides == Spec => []ClaimHolderDecides
<1>1. SerialInv => ClaimHolderDecides BY DEF SerialInv, ReviewSound, ClaimHolderDecides
<1> QED BY <1>1, InvHolds, PTL

\* While requests do not overlap, declare_capabilities never changes what a
\* reviewer has judged, and keeps the risk level that of the declared scopes.
THEOREM JudgedAsDeclared == Spec => []CapabilitiesJudged
<1>1. DeclaredIn(db) = Declared BY DEF DeclaredIn, Declared
<1>2. SerialInv => CapabilitiesJudged BY <1>1 DEF SerialInv, ReviewSound, CapabilitiesJudged
<1> QED BY <1>2, InvHolds, PTL

-----------------------------------------------------------------------------
(* Platform: the operators' team and the tenants they provision.           *)

CONSTANTS People, First

Ops     == INSTANCE Platform
OpsRows == INSTANCE UnitOfWork WITH Columns <- Ops!Columns

\* Platform's own operators of UnitOfWork are these.
LEMMA OpsSame ==
    /\ Ops!Nothing = OpsRows!Nothing
    /\ \A c : Ops!Fresh(c) <=> OpsRows!Fresh(c)
    /\ \A r, new : Ops!Begin(r, new) <=> OpsRows!Begin(r, new)
    /\ \A r : Ops!Commit(r) <=> OpsRows!Commit(r)
    /\ \A r : Ops!Abort(r) <=> OpsRows!Abort(r)
BY DEF Ops!Nothing, OpsRows!Nothing, Ops!Fresh, OpsRows!Fresh, Ops!Begin, OpsRows!Begin, Ops!Changed,
       OpsRows!Changed, Ops!Commit, OpsRows!Commit, Ops!After, OpsRows!After, Ops!Abort, OpsRows!Abort

LEMMA OpsColumnsIn ==
    /\ \A m \in People : Ops!Fields(m) \subseteq Ops!Columns
    /\ \A m : /\ Ops!Role(m) \in Ops!Fields(m) /\ Ops!Status(m) \in Ops!Fields(m)
              /\ Ops!Linked(m) \in Ops!Fields(m) /\ Ops!Account(m) \in Ops!Fields(m)
              /\ Ops!Session(m) \in Ops!Fields(m) /\ Ops!Operator(m) \in Ops!Fields(m)
              /\ Ops!Owner(m) \in Ops!Fields(m) /\ Ops!Tenancy(m) \in Ops!Fields(m)
    /\ \A m \in People : /\ Ops!Role(m) \in Ops!Columns /\ Ops!Status(m) \in Ops!Columns
                         /\ Ops!Linked(m) \in Ops!Columns /\ Ops!Account(m) \in Ops!Columns
                         /\ Ops!Session(m) \in Ops!Columns /\ Ops!Operator(m) \in Ops!Columns
                         /\ Ops!Owner(m) \in Ops!Columns /\ Ops!Tenancy(m) \in Ops!Columns
BY DEF Ops!Columns, Ops!Fields

\* Where columns of the team are not those of another field or of another person.
LEMMA OpsNamesApart ==
    /\ \A x, y : /\ Ops!Role(x) \notin {Ops!Status(y), Ops!Linked(y), Ops!Account(y), Ops!Session(y),
                                        Ops!Operator(y), Ops!Owner(y), Ops!Tenancy(y)}
                 /\ Ops!Status(x) \notin {Ops!Linked(y), Ops!Account(y), Ops!Session(y), Ops!Operator(y),
                                          Ops!Owner(y), Ops!Tenancy(y)}
                 /\ Ops!Linked(x) \notin {Ops!Account(y), Ops!Session(y), Ops!Operator(y), Ops!Owner(y),
                                          Ops!Tenancy(y)}
                 /\ Ops!Account(x) \notin {Ops!Session(y), Ops!Operator(y), Ops!Owner(y), Ops!Tenancy(y)}
                 /\ Ops!Session(x) \notin {Ops!Operator(y), Ops!Owner(y), Ops!Tenancy(y)}
                 /\ Ops!Operator(x) \notin {Ops!Owner(y), Ops!Tenancy(y)}
                 /\ Ops!Owner(x) # Ops!Tenancy(y)
    /\ \A x, y : x # y => /\ Ops!Role(x) # Ops!Role(y) /\ Ops!Status(x) # Ops!Status(y)
                          /\ Ops!Linked(x) # Ops!Linked(y) /\ Ops!Account(x) # Ops!Account(y)
                          /\ Ops!Operator(x) # Ops!Operator(y)
BY DEF Ops!Role, Ops!Status, Ops!Linked, Ops!Account, Ops!Session, Ops!Operator, Ops!Owner, Ops!Tenancy

\* v is a value that column c may have.
OpsFits(c, v) ==
    \A m \in People :
        /\ c = Ops!Role(m) => v \in Ops!PLATFORM_TEAM_ROLES \cup {"none"}
        /\ c = Ops!Status(m) => v \in {"none", "invited", "active", "suspended"}
        /\ c = Ops!Account(m) => v \in {"none", "active", "locked", "blocked"}
        /\ c = Ops!Operator(m) => v \in {"none", "invited", "active", "removed"}
        /\ c \in {Ops!Linked(m), Ops!Session(m), Ops!Owner(m), Ops!Tenancy(m)} => v \in {"none", "active"}

\* The assumption of Platform.
OpsConstantsFit == First \in People

\* However requests overlap, rows and what is pending have their types.
OpsInv ==
    /\ OpsConstantsFit
    /\ Ops!TypeOK
    /\ DOMAIN writes = Req
    /\ \A r \in Req : \A c \in DOMAIN writes[r] : OpsFits(c, writes[r][c])

\* There is one super admin, active and linked to an account.
OpsLedIn(rows) ==
    \E m \in People :
        /\ rows[Ops!Status(m)] = "active" /\ rows[Ops!Linked(m)] = "active"
        /\ \A k \in People : rows[Ops!Role(k)] = "super_admin" <=> k = m

\* Whoever's team row is linked has an account, and a place among the operators
\* that only an owner of theirs takes away.
OpsLinksIn(rows) ==
    \A m \in People : rows[Ops!Linked(m)] = "active" =>
        rows[Ops!Account(m)] # "none" /\ rows[Ops!Operator(m)] # "none"

OpsSound(rows) == OpsLedIn(rows) /\ OpsLinksIn(rows)

\* Alone, a request is going to leave sound rows.
OpsSerialInv == OpsRows!Alone /\ (~overlapped => OpsSound(db) /\ \A r \in Req : OpsSound(OpsRows!After(r)))

\* What the invariants need of a handler.
OpsHandles(r) ==
    \E new : /\ OpsRows!Begin(r, new)
             /\ \A c \in Ops!Columns : OpsFits(c, new[c])
             /\ OpsSound(db) => OpsSound(new)

LEMMA OpsDbTyped ==
    ASSUME OpsInv PROVE DOMAIN db = Ops!Columns /\ \A c \in Ops!Columns : OpsFits(c, db[c])
BY DEF OpsInv, Ops!TypeOK, OpsFits

LEMMA OpsFitColumns ==
    ASSUME NEW m \in People
    PROVE  /\ \A v : OpsFits(Ops!Role(m), v) <=> v \in Ops!PLATFORM_TEAM_ROLES \cup {"none"}
           /\ \A v : OpsFits(Ops!Status(m), v) <=> v \in {"none", "invited", "active", "suspended"}
           /\ \A v : OpsFits(Ops!Account(m), v) <=> v \in {"none", "active", "locked", "blocked"}
           /\ \A v : OpsFits(Ops!Operator(m), v) <=> v \in {"none", "invited", "active", "removed"}
           /\ \A v : OpsFits(Ops!Linked(m), v) <=> v \in {"none", "active"}
           /\ \A v : OpsFits(Ops!Session(m), v) <=> v \in {"none", "active"}
           /\ \A v : OpsFits(Ops!Owner(m), v) <=> v \in {"none", "active"}
           /\ \A v : OpsFits(Ops!Tenancy(m), v) <=> v \in {"none", "active"}
BY OpsNamesApart DEF OpsFits

\* Rows that agree where soundness looks.
LEMMA OpsSoundSame ==
    ASSUME NEW a, NEW b,
           \A m \in People : /\ a[Ops!Role(m)] = b[Ops!Role(m)] /\ a[Ops!Status(m)] = b[Ops!Status(m)]
                             /\ a[Ops!Linked(m)] = b[Ops!Linked(m)] /\ a[Ops!Account(m)] = b[Ops!Account(m)]
                             /\ a[Ops!Operator(m)] = b[Ops!Operator(m)]
    PROVE  OpsSound(a) => OpsSound(b)
<1>1. OpsLinksIn(a) => OpsLinksIn(b) BY DEF OpsLinksIn
<1>2. OpsLedIn(a) => OpsLedIn(b) BY DEF OpsLedIn
<1> QED BY <1>1, <1>2 DEF OpsSound

\* Requests that leave the team alone, and nobody without an account or a place
\* among the operators who had one.
LEMMA OpsElsewhereHandles ==
    ASSUME OpsInv, NEW r \in Req, NEW new, NEW m \in People, OpsRows!Begin(r, new),
           \A x \in Ops!Columns \ {Ops!Account(m), Ops!Session(m), Ops!Operator(m), Ops!Owner(m), Ops!Tenancy(m)} :
              new[x] = db[x],
           \A x \in {Ops!Account(m), Ops!Session(m), Ops!Operator(m), Ops!Owner(m), Ops!Tenancy(m)} :
              OpsFits(x, new[x]),
           db[Ops!Account(m)] # "none" => new[Ops!Account(m)] # "none",
           db[Ops!Operator(m)] # "none" => new[Ops!Operator(m)] # "none"
    PROVE  OpsHandles(r)
<1>1. \A x \in Ops!Columns : OpsFits(x, new[x]) BY OpsDbTyped
<1>2. \A k \in People : /\ new[Ops!Role(k)] = db[Ops!Role(k)] /\ new[Ops!Status(k)] = db[Ops!Status(k)]
                        /\ new[Ops!Linked(k)] = db[Ops!Linked(k)]
                        /\ k # m => /\ new[Ops!Account(k)] = db[Ops!Account(k)]
                                    /\ new[Ops!Operator(k)] = db[Ops!Operator(k)]
  BY OpsColumnsIn, OpsNamesApart
<1>3. OpsLedIn(db) => OpsLedIn(new) BY <1>2 DEF OpsLedIn
<1>4. OpsLinksIn(db) => OpsLinksIn(new) BY <1>2 DEF OpsLinksIn
<1> QED BY <1>1, <1>3, <1>4 DEF OpsHandles, OpsSound

LEMMA OpsRegisterHandles ==
    ASSUME OpsInv, NEW r \in Req, NEW m \in People, Ops!RegisterUser(r, m)
    PROVE  OpsHandles(r)
<1> DEFINE new == [db EXCEPT ![Ops!Account(m)] = "active", ![Ops!Owner(m)] = "active",
                             ![Ops!Tenancy(m)] = "active"]
<1>1. OpsRows!Begin(r, new) BY OpsSame DEF Ops!RegisterUser
<1>2. \A x \in Ops!Columns :
         new[x] = IF x \in {Ops!Account(m), Ops!Owner(m), Ops!Tenancy(m)} THEN "active" ELSE db[x]
  BY OpsDbTyped
<1> HIDE DEF new
<1> QED BY <1>1, <1>2, OpsDbTyped, OpsColumnsIn, OpsNamesApart, OpsFitColumns, OpsElsewhereHandles

\* Requests that set one column, outside the team.
LEMMA OpsColumnHandles ==
    ASSUME OpsInv, NEW r \in Req, NEW m \in People, NEW v,
           NEW x \in {Ops!Account(m), Ops!Session(m), Ops!Operator(m), Ops!Owner(m), Ops!Tenancy(m)},
           OpsRows!Begin(r, [db EXCEPT ![x] = v]), OpsFits(x, v),
           x \in {Ops!Account(m), Ops!Operator(m)} => v # "none"
    PROVE  OpsHandles(r)
<1> DEFINE new == [db EXCEPT ![x] = v]
<1>1. \A c \in Ops!Columns : new[c] = IF c = x THEN v ELSE db[c] BY OpsDbTyped
<1>2. OpsRows!Begin(r, new) OBVIOUS
<1> HIDE DEF new
<1> QED BY <1>1, <1>2, OpsDbTyped, OpsColumnsIn, OpsElsewhereHandles

\* Requests that set two of them: an account with its sessions, an ownership with
\* the tenant.
LEMMA OpsPairHandles ==
    ASSUME OpsInv, NEW r \in Req, NEW m \in People, NEW v, NEW w,
           NEW x \in {Ops!Account(m), Ops!Owner(m)}, NEW y \in {Ops!Session(m), Ops!Tenancy(m)},
           OpsRows!Begin(r, [db EXCEPT ![x] = v, ![y] = w]), OpsFits(x, v), OpsFits(y, w),
           x = Ops!Account(m) => v # "none"
    PROVE  OpsHandles(r)
<1> DEFINE new == [db EXCEPT ![x] = v, ![y] = w]
<1>1. \A c \in Ops!Columns : new[c] = IF c = y THEN w ELSE IF c = x THEN v ELSE db[c] BY OpsDbTyped
<1>2. OpsRows!Begin(r, new) OBVIOUS
<1>3. x # y /\ y \notin {Ops!Account(m), Ops!Operator(m)} /\ x # Ops!Operator(m) BY OpsNamesApart
<1> HIDE DEF new
<1> QED BY <1>1, <1>2, <1>3, OpsDbTyped, OpsColumnsIn, OpsElsewhereHandles

LEMMA OpsSessionHandles ==
    ASSUME OpsInv, NEW r \in Req, NEW c \in People, NEW m \in People,
           \/ Ops!Login(r, m) \/ Ops!SuspendTenant(r, c, m)
           \/ Ops!ResetTeamMfa(r, c, m) \/ Ops!ResetUserMfa(r, c, m)
    PROVE  OpsHandles(r)
<1>1. PICK v \in {"none", "active"} : OpsRows!Begin(r, [db EXCEPT ![Ops!Session(m)] = v])
  BY OpsSame DEF Ops!Login, Ops!ResetTeamMfa, Ops!ResetUserMfa, Ops!SuspendTenant
<1>2. OpsFits(Ops!Session(m), v) BY OpsFitColumns
<1> QED BY <1>1, <1>2, OpsNamesApart, OpsColumnHandles

LEMMA OpsAccountHandles ==
    ASSUME OpsInv, NEW r \in Req, NEW c \in People, NEW m \in People,
           Ops!SuspendUser(r, c, m) \/ Ops!ReinstateUser(r, c, m) \/ Ops!BlockUser(r, c, m)
    PROVE  OpsHandles(r)
<1>1. /\ \A v \in {"active", "locked", "blocked"} : OpsFits(Ops!Account(m), v) /\ v # "none"
      /\ OpsFits(Ops!Session(m), "none")
  BY OpsFitColumns
<1>2. CASE Ops!ReinstateUser(r, c, m)
  <2>1. OpsRows!Begin(r, [db EXCEPT ![Ops!Account(m)] = "active"]) BY <1>2, OpsSame DEF Ops!ReinstateUser
  <2> QED BY <1>1, <2>1, OpsColumnHandles
<1>3. CASE Ops!SuspendUser(r, c, m) \/ Ops!BlockUser(r, c, m)
  <2>1. PICK v \in {"locked", "blocked"} :
           OpsRows!Begin(r, [db EXCEPT ![Ops!Account(m)] = v, ![Ops!Session(m)] = "none"])
    BY <1>3, OpsSame DEF Ops!SuspendUser, Ops!BlockUser
  <2> QED BY <1>1, <2>1, OpsPairHandles
<1> QED BY <1>2, <1>3

LEMMA OpsMemberHandles ==
    ASSUME OpsInv, NEW r \in Req, NEW m \in People, Ops!MemberRoutes(r, m)
    PROVE  OpsHandles(r)
<1>1. /\ \A v \in {"invited", "active", "removed"} : OpsFits(Ops!Operator(m), v) /\ v # "none"
      /\ \A v \in {"none", "active"} : OpsFits(Ops!Owner(m), v) /\ OpsFits(Ops!Tenancy(m), v)
      /\ db[Ops!Tenancy(m)] \in {"none", "active"}
  BY OpsDbTyped, OpsColumnsIn, OpsFitColumns
<1>2. ASSUME NEW v \in {"invited", "active", "removed"}, OpsRows!Begin(r, [db EXCEPT ![Ops!Operator(m)] = v])
      PROVE  OpsHandles(r)
  BY <1>1, <1>2, OpsColumnHandles
<1>3. ASSUME NEW x \in {Ops!Owner(m), Ops!Tenancy(m)}, NEW v \in {"none", "active"},
             OpsRows!Begin(r, [db EXCEPT ![x] = v])
      PROVE  OpsHandles(r)
  BY <1>1, <1>3, OpsNamesApart, OpsColumnHandles
<1>4. CASE Ops!RemoveOwner(r, m)
  <2>1. PICK left \in {"none", "active"} :
           OpsRows!Begin(r, [db EXCEPT ![Ops!Owner(m)] = "none", ![Ops!Tenancy(m)] = left])
    BY <1>1, <1>4, OpsSame DEF Ops!RemoveOwner
  <2>2. Ops!Owner(m) # Ops!Account(m) BY OpsNamesApart
  <2> QED BY <1>1, <2>1, <2>2, OpsPairHandles
<1>5. CASE Ops!InviteOperator(r, m) \/ Ops!RemoveOperator(r, m)
  BY <1>2, <1>5, OpsSame DEF Ops!InviteOperator, Ops!RemoveOperator
<1>6. CASE Ops!AcceptOrgInvite(r, m)
  BY <1>2, <1>3, <1>6, OpsSame DEF Ops!AcceptOrgInvite
<1>7. CASE Ops!RemoveTenantMember(r, m) \/ Ops!InviteTenantMember(r, m)
  BY <1>3, <1>7, OpsSame DEF Ops!RemoveTenantMember, Ops!InviteTenantMember
<1> QED BY <1>4, <1>5, <1>6, <1>7 DEF Ops!MemberRoutes

LEMMA OpsProvisionHandles ==
    ASSUME OpsInv, NEW r \in Req, NEW c \in People, NEW m \in People, Ops!ProvisionTenant(r, c, m)
    PROVE  OpsHandles(r)
<1>1. OpsRows!Begin(r, [db EXCEPT ![Ops!Owner(m)] = "active", ![Ops!Tenancy(m)] = "active"])
  BY OpsSame DEF Ops!ProvisionTenant
<1>2. OpsFits(Ops!Owner(m), "active") /\ OpsFits(Ops!Tenancy(m), "active") /\ Ops!Owner(m) # Ops!Account(m)
  BY OpsFitColumns, OpsNamesApart
<1> QED BY <1>1, <1>2, OpsPairHandles

-----------------------------------------------------------------------------
\* Requests that change the role or the status of one row of the team.
LEMMA OpsTeamHandles ==
    ASSUME OpsInv, NEW r \in Req, NEW new, NEW m \in People, OpsRows!Begin(r, new),
           \A x \in Ops!Columns \ {Ops!Role(m), Ops!Status(m), Ops!Session(m)} : new[x] = db[x],
           OpsFits(Ops!Role(m), new[Ops!Role(m)]), OpsFits(Ops!Status(m), new[Ops!Status(m)]),
           OpsFits(Ops!Session(m), new[Ops!Session(m)]),
           new[Ops!Role(m)] = "super_admin" <=> db[Ops!Role(m)] = "super_admin",
           db[Ops!Role(m)] = "super_admin" /\ db[Ops!Status(m)] = "active" => new[Ops!Status(m)] = "active"
    PROVE  OpsHandles(r)
<1>1. \A x \in Ops!Columns : OpsFits(x, new[x]) BY OpsDbTyped
<1>2. \A k \in People : /\ k # m => new[Ops!Role(k)] = db[Ops!Role(k)] /\ new[Ops!Status(k)] = db[Ops!Status(k)]
                        /\ new[Ops!Linked(k)] = db[Ops!Linked(k)] /\ new[Ops!Account(k)] = db[Ops!Account(k)]
                        /\ new[Ops!Operator(k)] = db[Ops!Operator(k)]
  BY OpsColumnsIn, OpsNamesApart
<1>3. ASSUME OpsSound(db) PROVE OpsSound(new)
  <2>1. OpsLedIn(new) BY <1>2, <1>3 DEF OpsSound, OpsLedIn
  <2>2. OpsLinksIn(new) BY <1>2, <1>3 DEF OpsSound, OpsLinksIn
  <2> QED BY <2>1, <2>2 DEF OpsSound
<1> QED BY <1>1, <1>3 DEF OpsHandles

LEMMA OpsRoleHandles ==
    ASSUME OpsInv, NEW r \in Req, NEW c \in People, NEW m \in People, NEW role \in Ops!PLATFORM_TEAM_ROLES,
           Ops!UpdateTeamRole(r, c, m, role)
    PROVE  OpsHandles(r)
<1> DEFINE new == [db EXCEPT ![Ops!Role(m)] = role]
<1>1. OpsRows!Begin(r, new) /\ role # "super_admin" /\ db[Ops!Role(m)] # "super_admin"
  BY OpsSame DEF Ops!UpdateTeamRole
<1>2. \A x \in Ops!Columns : new[x] = IF x = Ops!Role(m) THEN role ELSE db[x] BY OpsDbTyped
<1> HIDE DEF new
<1>3. /\ OpsFits(Ops!Role(m), new[Ops!Role(m)]) /\ OpsFits(Ops!Status(m), new[Ops!Status(m)])
      /\ OpsFits(Ops!Session(m), new[Ops!Session(m)])
      /\ new[Ops!Role(m)] = role
  BY <1>2, OpsDbTyped, OpsColumnsIn, OpsNamesApart, OpsFitColumns
<1> QED BY <1>1, <1>2, <1>3, OpsTeamHandles

LEMMA OpsSuspendHandles ==
    ASSUME OpsInv, NEW r \in Req, NEW c \in People, NEW m \in People,
           Ops!SuspendTeamMember(r, c, m) \/ Ops!ReactivateTeamMember(r, c, m)
    PROVE  OpsHandles(r)
<1>1. CASE Ops!SuspendTeamMember(r, c, m)
  <2> DEFINE new == [db EXCEPT ![Ops!Status(m)] = "suspended",
                               ![Ops!Session(m)] = IF db[Ops!Linked(m)] = "active" THEN "none" ELSE @]
  <2>1. OpsRows!Begin(r, new) /\ db[Ops!Role(m)] # "super_admin" BY <1>1, OpsSame DEF Ops!SuspendTeamMember
  <2>2. \A x \in Ops!Columns : new[x] = IF x = Ops!Status(m) THEN "suspended"
                                        ELSE IF x = Ops!Session(m) /\ db[Ops!Linked(m)] = "active"
                                            THEN "none" ELSE db[x]
    BY OpsDbTyped, OpsNamesApart
  <2> HIDE DEF new
  <2>3. /\ OpsFits(Ops!Role(m), new[Ops!Role(m)]) /\ OpsFits(Ops!Status(m), new[Ops!Status(m)])
        /\ OpsFits(Ops!Session(m), new[Ops!Session(m)])
        /\ new[Ops!Role(m)] = db[Ops!Role(m)]
    BY <2>2, OpsDbTyped, OpsColumnsIn, OpsNamesApart, OpsFitColumns
  <2> QED BY <2>1, <2>2, <2>3, OpsTeamHandles
<1>2. CASE Ops!ReactivateTeamMember(r, c, m)
  <2> DEFINE new == [db EXCEPT ![Ops!Status(m)] = "active"]
  <2>1. OpsRows!Begin(r, new) BY <1>2, OpsSame DEF Ops!ReactivateTeamMember
  <2>2. \A x \in Ops!Columns : new[x] = IF x = Ops!Status(m) THEN "active" ELSE db[x] BY OpsDbTyped
  <2> HIDE DEF new
  <2>3. /\ OpsFits(Ops!Role(m), new[Ops!Role(m)]) /\ OpsFits(Ops!Status(m), new[Ops!Status(m)])
        /\ OpsFits(Ops!Session(m), new[Ops!Session(m)])
        /\ new[Ops!Role(m)] = db[Ops!Role(m)] /\ new[Ops!Status(m)] = "active"
    BY <2>2, OpsDbTyped, OpsColumnsIn, OpsNamesApart, OpsFitColumns
  <2> QED BY <2>1, <2>2, <2>3, OpsTeamHandles
<1> QED BY <1>1, <1>2

\* The role goes to a member whose row is active and linked, who is an operator.
LEMMA OpsTransferHandles ==
    ASSUME OpsInv, NEW r \in Req, NEW c \in People, NEW m \in People, Ops!TransferSuperAdmin(r, c, m)
    PROVE  OpsHandles(r)
<1> DEFINE new == [db EXCEPT ![Ops!Role(c)] = "platform_admin", ![Ops!Role(m)] = "super_admin"]
<1>1. /\ OpsRows!Begin(r, new) /\ db[Ops!Role(c)] = "super_admin" /\ db[Ops!Status(m)] = "active"
      /\ db[Ops!Linked(m)] = "active"
  BY OpsSame DEF Ops!TransferSuperAdmin
<1>2. \A x \in Ops!Columns : new[x] = IF x = Ops!Role(m) THEN "super_admin"
                                      ELSE IF x = Ops!Role(c) THEN "platform_admin" ELSE db[x]
  BY OpsDbTyped
<1> HIDE DEF new
<1>3. \A x \in Ops!Columns : OpsFits(x, new[x]) BY <1>2, OpsDbTyped, OpsFitColumns DEF Ops!PLATFORM_TEAM_ROLES
<1>4. \A k \in People : /\ new[Ops!Role(k)] = IF k = m THEN "super_admin" ELSE IF k = c
                              THEN "platform_admin" ELSE db[Ops!Role(k)]
                        /\ new[Ops!Status(k)] = db[Ops!Status(k)]
                        /\ new[Ops!Linked(k)] = db[Ops!Linked(k)] /\ new[Ops!Account(k)] = db[Ops!Account(k)]
                        /\ new[Ops!Operator(k)] = db[Ops!Operator(k)]
  BY <1>2, OpsColumnsIn, OpsNamesApart
<1>5. ASSUME OpsSound(db) PROVE OpsSound(new)
  <2>1. \A k \in People : db[Ops!Role(k)] = "super_admin" => k = c BY <1>1, <1>5 DEF OpsSound, OpsLedIn
  <2>2. OpsLedIn(new) BY <1>1, <1>4, <2>1 DEF OpsLedIn
  <2>3. OpsLinksIn(new) BY <1>4, <1>5 DEF OpsSound, OpsLinksIn
  <2> QED BY <2>2, <2>3 DEF OpsSound
<1> QED BY <1>1, <1>3, <1>5 DEF OpsHandles

-----------------------------------------------------------------------------
\* What upsert_operator_team_member makes of rows, of which those of m count.
LEMMA OpsUpserts ==
    ASSUME NEW rows, DOMAIN rows = Ops!Columns, NEW m \in People, NEW role
    PROVE  LET new == Ops!upsert_operator_team_member(rows, m, role)
           IN  /\ DOMAIN new = Ops!Columns
               /\ \A x \in Ops!Columns \ {Ops!Role(m), Ops!Linked(m), Ops!Status(m)} : new[x] = rows[x]
               /\ new[Ops!Linked(m)] = IF rows[Ops!Account(m)] # "none" THEN "active" ELSE "none"
               /\ new[Ops!Role(m)] = IF rows[Ops!Role(m)] = "none" THEN role ELSE rows[Ops!Role(m)]
               /\ new[Ops!Status(m)] \in {"invited", "active", rows[Ops!Status(m)]}
               /\ rows[Ops!Role(m)] # "none" /\ rows[Ops!Status(m)] = "active" => new[Ops!Status(m)] = "active"
BY OpsColumnsIn, OpsNamesApart DEF Ops!upsert_operator_team_member

\* A team row is made or linked, of somebody who has a place among the operators
\* by then.
LEMMA OpsLinkHandles ==
    ASSUME OpsInv, NEW r \in Req, NEW new, NEW m \in People, NEW rows, NEW role \in {"platform_admin", "support_agent"},
           OpsRows!Begin(r, new), DOMAIN rows = Ops!Columns,
           \A x \in Ops!Columns \ {Ops!Operator(m), Ops!Owner(m), Ops!Tenancy(m)} : rows[x] = db[x],
           \A x \in Ops!Columns \ {Ops!Operator(m)} : new[x] = Ops!upsert_operator_team_member(rows, m, role)[x],
           \A x \in {Ops!Operator(m), Ops!Owner(m), Ops!Tenancy(m)} : OpsFits(x, new[x]),
           db[Ops!Account(m)] # "none" \/ db[Ops!Operator(m)] # "none" => new[Ops!Operator(m)] # "none"
    PROVE  OpsHandles(r)
<1>1. /\ \A x \in Ops!Columns \ {Ops!Role(m), Ops!Linked(m), Ops!Status(m), Ops!Operator(m), Ops!Owner(m),
                                 Ops!Tenancy(m)} : new[x] = db[x]
      /\ new[Ops!Linked(m)] = IF db[Ops!Account(m)] # "none" THEN "active" ELSE "none"
      /\ new[Ops!Role(m)] = IF db[Ops!Role(m)] = "none" THEN role ELSE db[Ops!Role(m)]
      /\ new[Ops!Status(m)] \in {"invited", "active", db[Ops!Status(m)]}
      /\ db[Ops!Role(m)] # "none" /\ db[Ops!Status(m)] = "active" => new[Ops!Status(m)] = "active"
  <2> DEFINE up == Ops!upsert_operator_team_member(rows, m, role)
  <2>1. /\ \A x \in Ops!Columns \ {Ops!Role(m), Ops!Linked(m), Ops!Status(m)} : up[x] = rows[x]
        /\ up[Ops!Linked(m)] = IF rows[Ops!Account(m)] # "none" THEN "active" ELSE "none"
        /\ up[Ops!Role(m)] = IF rows[Ops!Role(m)] = "none" THEN role ELSE rows[Ops!Role(m)]
        /\ up[Ops!Status(m)] \in {"invited", "active", rows[Ops!Status(m)]}
        /\ rows[Ops!Role(m)] # "none" /\ rows[Ops!Status(m)] = "active" => up[Ops!Status(m)] = "active"
    BY OpsUpserts
  <2> HIDE DEF up
  <2>2. \A x \in Ops!Columns \ {Ops!Operator(m)} : new[x] = up[x] BY DEF up
  <2> QED BY <2>1, <2>2, OpsColumnsIn, OpsNamesApart
<1>2. /\ OpsFits(Ops!Role(m), new[Ops!Role(m)]) /\ OpsFits(Ops!Status(m), new[Ops!Status(m)])
      /\ OpsFits(Ops!Linked(m), new[Ops!Linked(m)])
  BY <1>1, OpsDbTyped, OpsColumnsIn, OpsFitColumns DEF Ops!PLATFORM_TEAM_ROLES
<1>3. \A x \in Ops!Columns : OpsFits(x, new[x]) BY <1>1, <1>2, OpsDbTyped
<1>4. \A k \in People : /\ new[Ops!Account(k)] = db[Ops!Account(k)]
                        /\ k # m => /\ new[Ops!Role(k)] = db[Ops!Role(k)] /\ new[Ops!Status(k)] = db[Ops!Status(k)]
                                    /\ new[Ops!Linked(k)] = db[Ops!Linked(k)]
                                    /\ new[Ops!Operator(k)] = db[Ops!Operator(k)]
  BY <1>1, OpsColumnsIn, OpsNamesApart
<1>5. ASSUME OpsSound(db) PROVE OpsSound(new)
  <2>1. OpsLinksIn(new) BY <1>1, <1>4, <1>5 DEF OpsSound, OpsLinksIn
  <2>2. PICK k \in People : /\ db[Ops!Status(k)] = "active" /\ db[Ops!Linked(k)] = "active"
                            /\ \A j \in People : db[Ops!Role(j)] = "super_admin" <=> j = k
    BY <1>5 DEF OpsSound, OpsLedIn
  <2>3. db[Ops!Account(k)] # "none" BY <1>5, <2>2 DEF OpsSound, OpsLinksIn
  <2>4. new[Ops!Status(k)] = "active" /\ new[Ops!Linked(k)] = "active" BY <1>1, <1>4, <2>2, <2>3
  <2>5. \A j \in People : new[Ops!Role(j)] = "super_admin" <=> j = k BY <1>1, <1>4, <2>2
  <2> QED BY <2>1, <2>4, <2>5 DEF OpsSound, OpsLedIn
<1> QED BY <1>3, <1>5 DEF OpsHandles

LEMMA OpsInviteHandles ==
    ASSUME OpsInv, NEW r \in Req, NEW c \in People, NEW m \in People, NEW role \in Ops!PLATFORM_TEAM_ROLES,
           Ops!InviteTeamMember(r, c, m, role)
    PROVE  OpsHandles(r)
<1> DEFINE rows == Ops!upsert_operator_team_member(db, m, role)
<1>1. role \in {"platform_admin", "support_agent"} BY DEF Ops!InviteTeamMember, Ops!PLATFORM_TEAM_ROLES
<1>2. PICK membership \in Ops!EnsuredMemberships(m) : OpsRows!Begin(r, [rows EXCEPT ![Ops!Operator(m)] = membership])
  BY OpsSame DEF Ops!InviteTeamMember
<1> DEFINE new == [rows EXCEPT ![Ops!Operator(m)] = membership]
<1>3. DOMAIN db = Ops!Columns /\ OpsFits(Ops!Operator(m), db[Ops!Operator(m)]) /\ OpsFits(Ops!Owner(m), db[Ops!Owner(m)])
      /\ OpsFits(Ops!Tenancy(m), db[Ops!Tenancy(m)])
  BY OpsDbTyped, OpsColumnsIn
<1>4. /\ OpsFits(Ops!Operator(m), membership)
      /\ db[Ops!Account(m)] # "none" \/ db[Ops!Operator(m)] # "none" => membership # "none"
  BY <1>3, OpsFitColumns DEF Ops!EnsuredMemberships
<1>5. DOMAIN rows = Ops!Columns /\ rows[Ops!Owner(m)] = db[Ops!Owner(m)] /\ rows[Ops!Tenancy(m)] = db[Ops!Tenancy(m)]
  BY <1>3, OpsUpserts, OpsColumnsIn, OpsNamesApart
<1>6. \A x \in Ops!Columns : new[x] = IF x = Ops!Operator(m) THEN membership ELSE rows[x] BY <1>5
<1>7. OpsRows!Begin(r, new) BY <1>2
<1> HIDE DEF new
<1>8. /\ \A x \in Ops!Columns \ {Ops!Operator(m)} : new[x] = Ops!upsert_operator_team_member(db, m, role)[x]
      /\ \A x \in {Ops!Operator(m), Ops!Owner(m), Ops!Tenancy(m)} : OpsFits(x, new[x])
      /\ new[Ops!Operator(m)] = membership
  BY <1>3, <1>4, <1>5, <1>6, OpsColumnsIn, OpsNamesApart
<1> QED BY <1>1, <1>3, <1>4, <1>7, <1>8, OpsLinkHandles

LEMMA OpsPromoteHandles ==
    ASSUME OpsInv, NEW r \in Req, NEW c \in People, NEW m \in People, Ops!PromoteOperator(r, c, m)
    PROVE  OpsHandles(r)
<1>1. PICK left \in {"none", db[Ops!Tenancy(m)]} :
         OpsRows!Begin(r, Ops!upsert_operator_team_member(
            [db EXCEPT ![Ops!Operator(m)] = "active", ![Ops!Owner(m)] = "none", ![Ops!Tenancy(m)] = left],
            m, "platform_admin"))
  BY OpsSame DEF Ops!PromoteOperator
<1> DEFINE rows == [db EXCEPT ![Ops!Operator(m)] = "active", ![Ops!Owner(m)] = "none", ![Ops!Tenancy(m)] = left]
           new == Ops!upsert_operator_team_member(rows, m, "platform_admin")
<1>2. /\ DOMAIN rows = Ops!Columns
      /\ \A x \in Ops!Columns : rows[x] = IF x = Ops!Tenancy(m) THEN left ELSE IF x = Ops!Owner(m) THEN "none"
                                          ELSE IF x = Ops!Operator(m) THEN "active" ELSE db[x]
  BY OpsDbTyped
<1>3. OpsRows!Begin(r, new) BY <1>1
<1> HIDE DEF rows
<1>4. \A x \in {Ops!Operator(m), Ops!Owner(m), Ops!Tenancy(m)} : new[x] = rows[x]
  BY <1>2, OpsUpserts, OpsColumnsIn, OpsNamesApart
<1>5. /\ rows[Ops!Operator(m)] = "active" /\ rows[Ops!Owner(m)] = "none" /\ rows[Ops!Tenancy(m)] = left
      /\ left \in {"none", "active"}
  BY <1>2, OpsDbTyped, OpsColumnsIn, OpsNamesApart, OpsFitColumns
<1>6. /\ \A x \in {Ops!Operator(m), Ops!Owner(m), Ops!Tenancy(m)} : OpsFits(x, new[x])
      /\ new[Ops!Operator(m)] # "none"
  BY <1>4, <1>5, OpsFitColumns
<1>7. \A x \in Ops!Columns \ {Ops!Operator(m), Ops!Owner(m), Ops!Tenancy(m)} : rows[x] = db[x] BY <1>2
<1> QED BY <1>2, <1>3, <1>6, <1>7, OpsLinkHandles

-----------------------------------------------------------------------------
(* Steps keep the invariants.                                              *)

LEMMA OpsHandleKeeps ==
    ASSUME OpsInv, OpsSerialInv, NEW r \in Req, OpsHandles(r)
    PROVE  OpsInv' /\ OpsSerialInv'
<1>1. PICK new : /\ OpsRows!Begin(r, new) /\ (\A c \in Ops!Columns : OpsFits(c, new[c]))
                 /\ (OpsSound(db) => OpsSound(new))
  BY DEF OpsHandles
<1>2. DOMAIN writes = Req /\ overlapped \in BOOLEAN BY DEF OpsInv, Ops!TypeOK
<1>3. OpsInv'
  <2>1. Ops!TypeOK' BY <1>1, <1>2, OpsRows!BeginWrites DEF OpsInv, Ops!TypeOK
  <2>2. \A q \in Req : \A c \in DOMAIN writes'[q] : OpsFits(c, writes'[q][c])
    BY <1>1, <1>2, OpsRows!BeginWrites DEF OpsInv
  <2> QED BY <1>1, <1>2, <2>1, <2>2, OpsRows!BeginWrites DEF OpsInv, OpsFits
<1>4. ASSUME ~overlapped' PROVE OpsSound(db)' /\ \A q \in Req : OpsSound(OpsRows!After(q))'
  <2>1. /\ ~overlapped /\ db' = db
        /\ \A c \in Ops!Columns : OpsRows!After(r)'[c] = new[c]
        /\ \A q \in Req : q # r => \A c \in Ops!Columns : OpsRows!After(q)'[c] = db[c]
    BY <1>1, <1>2, <1>4, OpsRows!BeginAlone
  <2>2. OpsSound(db) /\ OpsSound(new) BY <1>1, <2>1 DEF OpsSerialInv
  <2>3. ASSUME NEW q \in Req, NEW rows, rows = OpsRows!After(q)' PROVE OpsSound(rows)
    <3>1. CASE q = r BY <2>1, <2>2, <2>3, <3>1, OpsColumnsIn, OpsSoundSame
    <3>2. CASE q # r BY <2>1, <2>2, <2>3, <3>2, OpsColumnsIn, OpsSoundSame
    <3> QED BY <3>1, <3>2
  <2>4. ASSUME NEW q \in Req PROVE OpsSound(OpsRows!After(q))'
    BY <2>3 DEF OpsSound, OpsLedIn, OpsLinksIn
  <2>5. OpsSound(db)'
    BY <2>1, <2>2 DEF OpsSound, OpsLedIn, OpsLinksIn
  <2> QED BY <2>4, <2>5
<1>5. OpsRows!Alone' BY <1>1, <1>2, OpsRows!BeginAlone
<1> QED BY <1>3, <1>4, <1>5 DEF OpsSerialInv

LEMMA OpsEndKeeps ==
    ASSUME OpsInv, OpsSerialInv, NEW r \in Req, OpsRows!Commit(r) \/ OpsRows!Abort(r)
    PROVE  OpsInv' /\ OpsSerialInv'
<1>1. DOMAIN writes = Req /\ OpsRows!Alone BY DEF OpsInv, OpsSerialInv
<1>2. OpsInv'
  <2>1. CASE OpsRows!Commit(r)
    <3>1. /\ DOMAIN db' = Ops!Columns /\ overlapped' = overlapped
          /\ \A c \in Ops!Columns : db'[c] = IF c \in DOMAIN writes[r] THEN writes[r][c] ELSE db[c]
      BY <1>1, <2>1, OpsRows!CommitWrites
    <3>2. \A c \in Ops!Columns : OpsFits(c, db'[c]) BY <3>1, OpsDbTyped DEF OpsInv
    <3>3. Ops!TypeOK' BY <3>1, <3>2, OpsColumnsIn, OpsFitColumns DEF OpsInv, Ops!TypeOK
    <3> QED BY <1>1, <2>1, <3>3, OpsRows!CommitWrites DEF OpsInv, OpsFits
  <2>2. CASE OpsRows!Abort(r)
    <3>1. Ops!TypeOK' BY <1>1, <2>2, OpsRows!AbortWrites DEF OpsInv, Ops!TypeOK
    <3> QED BY <1>1, <2>2, <3>1, OpsRows!AbortWrites DEF OpsInv, OpsFits
  <2> QED BY <2>1, <2>2
<1>3. /\ OpsRows!Alone'
      /\ ~overlapped' =>
           /\ ~overlapped /\ db' \in {db, OpsRows!After(r)}
           /\ \A q \in Req : \A c \in Ops!Columns : OpsRows!After(q)'[c] = db'[c]
  BY <1>1, OpsRows!CommitAlone, OpsRows!AbortAlone
<1>4. ASSUME ~overlapped' PROVE OpsSound(db)' /\ \A q \in Req : OpsSound(OpsRows!After(q))'
  <2>1. PICK rows : rows = db' OBVIOUS
  <2>2. OpsSound(rows) BY <1>3, <1>4, <2>1 DEF OpsSerialInv
  <2>3. OpsSound(db)'
    BY <2>1, <2>2 DEF OpsSound, OpsLedIn, OpsLinksIn
  <2>4. ASSUME NEW q \in Req, NEW x, x = OpsRows!After(q)' PROVE OpsSound(x)
    BY <1>3, <1>4, <2>1, <2>2, <2>4, OpsColumnsIn, OpsSoundSame
  <2>5. ASSUME NEW q \in Req PROVE OpsSound(OpsRows!After(q))'
    BY <2>4 DEF OpsSound, OpsLedIn, OpsLinksIn
  <2> QED BY <2>3, <2>5
<1> QED BY <1>2, <1>3, <1>4 DEF OpsSerialInv

LEMMA OpsInitInv == OpsConstantsFit /\ Ops!Init => OpsInv /\ OpsSerialInv
<1> SUFFICES ASSUME OpsConstantsFit, Ops!Init PROVE OpsInv /\ OpsSerialInv OBVIOUS
<1>1. DOMAIN db = Ops!Columns /\ First \in People BY DEF OpsConstantsFit, Ops!Init
<1>2. /\ db[Ops!Role(First)] = "super_admin" /\ db[Ops!Status(First)] = "active"
      /\ db[Ops!Linked(First)] = "active"
      /\ db[Ops!Account(First)] = "active" /\ db[Ops!Operator(First)] = "active"
      /\ db[Ops!Session(First)] = "none" /\ db[Ops!Owner(First)] = "none" /\ db[Ops!Tenancy(First)] = "none"
  BY <1>1, OpsColumnsIn, OpsNamesApart DEF Ops!Init
<1>3. \A m \in People : m # First =>
         /\ db[Ops!Role(m)] = "none" /\ db[Ops!Status(m)] = "none" /\ db[Ops!Linked(m)] = "none"
         /\ db[Ops!Account(m)] = "none" /\ db[Ops!Operator(m)] = "none" /\ db[Ops!Session(m)] = "none"
         /\ db[Ops!Owner(m)] = "none" /\ db[Ops!Tenancy(m)] = "none"
  BY <1>1, OpsColumnsIn, OpsNamesApart DEF Ops!Init
<1>4. /\ DOMAIN writes = Req /\ overlapped = FALSE
      /\ \A r \in Req : writes[r] = OpsRows!Nothing /\ DOMAIN writes[r] = {}
  BY OpsSame DEF Ops!Init, OpsRows!Nothing
<1>5. OpsInv BY <1>1, <1>2, <1>3, <1>4 DEF OpsInv, Ops!TypeOK, Ops!PLATFORM_TEAM_ROLES
<1>6. OpsSound(db) BY <1>1, <1>2, <1>3 DEF OpsSound, OpsLedIn, OpsLinksIn
<1>7. ASSUME NEW r \in Req PROVE OpsSound(OpsRows!After(r))
  BY <1>4, <1>6, OpsRows!AfterNothing, OpsColumnsIn, OpsSoundSame
<1> QED BY <1>4, <1>5, <1>6, <1>7 DEF OpsSerialInv, OpsRows!Alone

LEMMA OpsNextInv == OpsInv /\ OpsSerialInv /\ [Ops!Next]_(Ops!vars) => (OpsInv /\ OpsSerialInv)'
<1> SUFFICES ASSUME OpsInv, OpsSerialInv, [Ops!Next]_(Ops!vars) PROVE OpsInv' /\ OpsSerialInv' OBVIOUS
<1>1. CASE UNCHANGED Ops!vars
  BY <1>1
     DEF Ops!vars, OpsInv, Ops!TypeOK, OpsFits, OpsSerialInv, OpsRows!Alone, OpsSound, OpsLedIn, OpsLinksIn,
         OpsRows!After
<1>2. ASSUME NEW r \in Req, NEW m \in People, Ops!RegisterUser(r, m) \/ Ops!Login(r, m) \/ Ops!MemberRoutes(r, m)
      PROVE  OpsInv' /\ OpsSerialInv'
  BY <1>2, OpsRegisterHandles, OpsSessionHandles, OpsMemberHandles, OpsHandleKeeps
<1>3. ASSUME NEW r \in Req, NEW c \in People, NEW m \in People, Ops!TeamRoutes(r, c, m)
      PROVE  OpsInv' /\ OpsSerialInv'
  <2>1. OpsHandles(r)
    BY <1>3, OpsInviteHandles, OpsRoleHandles, OpsSuspendHandles, OpsSessionHandles, OpsTransferHandles
       DEF Ops!TeamRoutes
  <2> QED BY <2>1, OpsHandleKeeps
<1>4. ASSUME NEW r \in Req, NEW c \in People, NEW m \in People, Ops!UserRoutes(r, c, m) \/ Ops!TenantRoutes(r, c, m)
      PROVE  OpsInv' /\ OpsSerialInv'
  <2>1. OpsHandles(r)
    BY <1>4, OpsAccountHandles, OpsPromoteHandles, OpsProvisionHandles, OpsSessionHandles
       DEF Ops!UserRoutes, Ops!TenantRoutes
  <2> QED BY <2>1, OpsHandleKeeps
<1>5. ASSUME NEW r \in Req, Ops!CommitUnique(r) \/ OpsRows!Abort(r) PROVE OpsInv' /\ OpsSerialInv'
  BY <1>5, OpsSame, OpsEndKeeps DEF Ops!CommitUnique
<1> QED BY <1>1, <1>2, <1>3, <1>4, <1>5, OpsSame DEF Ops!Next

LEMMA OpsInvHolds == OpsConstantsFit /\ Ops!Spec => [](OpsInv /\ OpsSerialInv)
BY OpsInitInv, OpsNextInv, PTL DEF Ops!Spec

\* When requests do not overlap, transfer_super_admin hands the role to somebody
\* with an account and a place among the operators, and nothing else gives the
\* role or takes it away; only the operators' own owners take that place away.
THEOREM SuperAdminKept == OpsConstantsFit /\ Ops!Spec => []Ops!SuperAdminStays
<1>1. ASSUME OpsInv, OpsSerialInv PROVE Ops!SuperAdminStays
  <2>1. ASSUME ~overlapped
        PROVE \E m \in People :
                /\ db[Ops!Status(m)] = "active" /\ db[Ops!Linked(m)] = "active" /\ db[Ops!Account(m)] # "none"
                /\ Ops!require_platform_operator(m) \/ db[Ops!Operator(m)] \in {"invited", "removed"}
                /\ \A k \in People : db[Ops!Role(k)] = "super_admin" <=> k = m
    <3>1. PICK m \in People : /\ db[Ops!Status(m)] = "active" /\ db[Ops!Linked(m)] = "active"
                              /\ \A k \in People : db[Ops!Role(k)] = "super_admin" <=> k = m
      BY <1>1, <2>1 DEF OpsSerialInv, OpsSound, OpsLedIn
    <3>2. db[Ops!Account(m)] # "none" /\ db[Ops!Operator(m)] # "none"
      BY <1>1, <2>1, <3>1 DEF OpsSerialInv, OpsSound, OpsLinksIn
    <3>3. db[Ops!Operator(m)] \in {"none", "invited", "active", "removed"} BY <1>1 DEF OpsInv, Ops!TypeOK
    <3> QED BY <3>1, <3>2, <3>3 DEF Ops!require_platform_operator
  <2> QED BY <1>1, <2>1 DEF OpsInv, Ops!SuperAdminStays
<1> QED BY <1>1, OpsInvHolds, PTL
=============================================================================
