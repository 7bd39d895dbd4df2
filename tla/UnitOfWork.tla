----------------------------- MODULE UnitOfWork -----------------------------
(***************************************************************************)
(* The database session of a request.  The services run on PostgreSQL at   *)
(* READ COMMITTED, take no row locks and act on what they have read:       *)
(*                                                                         *)
(*   - db maps every column to its committed value;                        *)
(*   - a request reads and checks in one step, which leaves the columns it *)
(*     is going to write in writes[r].  The session sends only columns     *)
(*     whose value differs from the one it read;                           *)
(*   - a later step commits them over whatever is there by then, or drops  *)
(*     them (an error, a lost connection, a restart of the server).        *)
(*                                                                         *)
(* overlapped is history: some request began while another was in flight.  *)
(* Properties of requests that do not overlap are stated for ~overlapped.  *)
(*                                                                         *)
(* The modules of the services INSTANCE this one for their own columns.    *)
(***************************************************************************)
CONSTANTS Columns, Req
VARIABLES db, writes, overlapped

Nothing == [c \in {} |-> "none"]

\* The columns in which the rows a request leaves differ from those it read.
Changed(new) == {c \in Columns : new[c] # db[c]}

Begin(r, new) ==
    /\ writes[r] = Nothing
    /\ writes' = [writes EXCEPT ![r] = [c \in Changed(new) |-> new[c]]]
    /\ overlapped' = (overlapped \/ \E q \in Req : writes[q] # Nothing)
    /\ UNCHANGED db

\* A new row has a key that no row and no other request has.
Fresh(c) == db[c] = "none" /\ \A r \in Req : c \notin DOMAIN writes[r]

\* The rows as request r would leave them if it committed now.
After(r) == [c \in Columns |-> IF c \in DOMAIN writes[r] THEN writes[r][c] ELSE db[c]]

Commit(r) ==
    /\ writes[r] # Nothing
    /\ db' = After(r)
    /\ writes' = [writes EXCEPT ![r] = Nothing]
    /\ UNCHANGED overlapped

Abort(r) ==
    /\ writes[r] # Nothing
    /\ writes' = [writes EXCEPT ![r] = Nothing]
    /\ UNCHANGED <<db, overlapped>>

-----------------------------------------------------------------------------
\* What a request that has begun is going to write.
LEMMA BeginWrites ==
    ASSUME DOMAIN writes = Req, NEW r \in Req, NEW new, Begin(r, new)
    PROVE  /\ db' = db /\ overlapped' \in BOOLEAN
           /\ DOMAIN writes' = Req
           /\ DOMAIN writes'[r] = {c \in Columns : new[c] # db[c]}
           /\ \A c \in DOMAIN writes'[r] : writes'[r][c] = new[c]
           /\ \A q \in Req : q # r => writes'[q] = writes[q]
BY DEF Begin, Changed

\* What a commit makes of the rows and of the pending writes.
LEMMA CommitWrites ==
    ASSUME DOMAIN writes = Req, NEW r \in Req, Commit(r)
    PROVE  /\ DOMAIN db' = Columns /\ overlapped' = overlapped
           /\ \A c \in Columns : db'[c] = IF c \in DOMAIN writes[r] THEN writes[r][c] ELSE db[c]
           /\ DOMAIN writes' = Req
           /\ DOMAIN writes'[r] = {}
           /\ \A q \in Req : q # r => writes'[q] = writes[q]
BY DEF Commit, After, Nothing

\* A request that gives up leaves the rows as they are.
LEMMA AbortWrites ==
    ASSUME DOMAIN writes = Req, NEW r \in Req, Abort(r)
    PROVE  /\ db' = db /\ overlapped' = overlapped
           /\ DOMAIN writes' = Req
           /\ DOMAIN writes'[r] = {}
           /\ \A q \in Req : q # r => writes'[q] = writes[q]
BY DEF Abort, Nothing

-----------------------------------------------------------------------------
(* Requests that do not overlap: one at a time is in flight, so that it    *)
(* commits over the rows that it has read.                                 *)

Alone == ~overlapped => \A q, r \in Req : writes[q] # Nothing /\ writes[r] # Nothing => q = r

LEMMA AfterNothing ==
    ASSUME NEW r \in Req, writes[r] = Nothing
    PROVE  \A c \in Columns : After(r)[c] = db[c]
BY DEF After, Nothing

\* A request that begins alone is going to leave the rows it has computed.
LEMMA BeginAlone ==
    ASSUME DOMAIN writes = Req, overlapped \in BOOLEAN, NEW r \in Req, NEW new, Begin(r, new)
    PROVE  /\ Alone'
           /\ ~overlapped' =>
                /\ ~overlapped /\ db' = db
                /\ \A c \in Columns : After(r)'[c] = new[c]
                /\ \A q \in Req : q # r => \A c \in Columns : After(q)'[c] = db[c]
<1>1. db' = db /\ \A q \in Req : q # r => writes'[q] = writes[q]
  BY DEF Begin
<1>2. ASSUME ~overlapped' PROVE ~overlapped /\ \A q \in Req : writes[q] = Nothing
  BY <1>2 DEF Begin
<1>3. Alone' BY <1>1, <1>2 DEF Alone
<1>4. \A c \in Columns : After(r)'[c] = new[c]
  BY DEF Begin, Changed, After
<1>5. ASSUME ~overlapped', NEW q \in Req, q # r
      PROVE  \A c \in Columns : After(q)'[c] = db[c]
  BY <1>1, <1>2, <1>5 DEF After, Nothing
<1> QED BY <1>1, <1>2, <1>3, <1>4, <1>5

\* A commit leaves them, and nothing else is pending.
LEMMA CommitAlone ==
    ASSUME DOMAIN writes = Req, NEW r \in Req, Alone, Commit(r)
    PROVE  /\ Alone'
           /\ ~overlapped' =>
                /\ ~overlapped /\ db' = After(r)
                /\ \A q \in Req : \A c \in Columns : After(q)'[c] = db'[c]
<1>1. db' = After(r) /\ overlapped' = overlapped /\ writes[r] # Nothing BY DEF Commit
<1>2. \A q \in Req : writes'[q] = IF q = r THEN Nothing ELSE writes[q] BY DEF Commit
<1>3. ASSUME ~overlapped', NEW q \in Req PROVE writes'[q] = Nothing
  BY <1>1, <1>2, <1>3 DEF Alone
<1>4. ASSUME ~overlapped', NEW q \in Req
      PROVE  \A c \in Columns : After(q)'[c] = db'[c]
  BY <1>3, <1>4 DEF After, Nothing
<1> QED BY <1>1, <1>3, <1>4 DEF Alone

LEMMA AbortAlone ==
    ASSUME DOMAIN writes = Req, NEW r \in Req, Alone, Abort(r)
    PROVE  /\ Alone'
           /\ ~overlapped' =>
                /\ ~overlapped /\ db' = db
                /\ \A q \in Req : \A c \in Columns : After(q)'[c] = db'[c]
<1>1. db' = db /\ overlapped' = overlapped /\ writes[r] # Nothing BY DEF Abort
<1>2. \A q \in Req : writes'[q] = IF q = r THEN Nothing ELSE writes[q] BY DEF Abort
<1>3. ASSUME ~overlapped', NEW q \in Req PROVE writes'[q] = Nothing
  BY <1>1, <1>2, <1>3 DEF Alone
<1>4. ASSUME ~overlapped', NEW q \in Req
      PROVE  \A c \in Columns : After(q)'[c] = db'[c]
  BY <1>3, <1>4 DEF After, Nothing
<1> QED BY <1>1, <1>3, <1>4 DEF Alone
=============================================================================
