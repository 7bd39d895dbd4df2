--------------------------- MODULE Installs_proofs ---------------------------
(***************************************************************************)
(* What holds of installations and of the outbox, for any number of        *)
(* installations, secrets, requests and processors, wherever they stop:    *)
(* events marked processed have had their effect (OutboxIsSound), a        *)
(* cancelled subscription comes back only through the one window that      *)
(* handle_provision leaves (CancelledStays), the outbox implements         *)
(* Delivery (ImplementsDelivery), and requests that do not overlap install *)
(* an offering once (InstalledOnce).                                       *)
(* As the instance Up, what holds of OrgUpgrade for any number of          *)
(* requests and attempts: CompletedDone and FailedUndone.                  *)
(***************************************************************************)
EXTENDS Installs, FiniteSetTheorems, TLAPS

Sessions == Req \cup Workers

LEMMA EventKeys ==
    /\ \A i \in Installations : i \in Events /\ i \notin Secrets /\ i \notin Lines
    /\ \A s \in Secrets : s \in Events /\ s \notin Installations /\ s \notin Lines
    /\ \A e \in Events : e \in Installations \/ e \in Secrets
BY KeysAssumption DEF Events

LEMMA ColumnsApart ==
    /\ \A e \in Events : Event(e) \in Columns /\ Retries(e) \in Columns
    /\ \A k \in Installations \cup Lines : Status(k) \in Columns
    /\ \A i \in Installations : Instance(i) \in Columns
    /\ \A s \in Secrets : Plain(s) \in Columns
    /\ \A d, e : /\ Event(d) # Retries(e) /\ Event(d) # Status(e)
                 /\ Event(d) # Instance(e) /\ Event(d) # Plain(e)
                 /\ Retries(d) # Status(e) /\ Retries(d) # Instance(e) /\ Retries(d) # Plain(e)
                 /\ Status(d) # Instance(e) /\ Status(d) # Plain(e) /\ Instance(d) # Plain(e)
    /\ \A d, e : d # e => /\ Event(d) # Event(e) /\ Retries(d) # Retries(e) /\ Status(d) # Status(e)
                          /\ Instance(d) # Instance(e) /\ Plain(d) # Plain(e)
BY DEF Columns, Event, Retries, Status, Instance, Plain

-----------------------------------------------------------------------------
(* The rows.  An event whose handler has failed once has nothing left to   *)
(* do, so that none fails twice and none dies.                             *)

InstallationSound(i) ==
    /\ db[Retries(i)] \in {0, 1} /\ (db[Retries(i)] = 1 => db[Event(i)] = "processed")
    /\ \/ db[Event(i)] = "none" /\ db[Status(i)] = "none" /\ db[Instance(i)] = "none"
       \/ db[Event(i)] = "pending" /\ db[Status(i)] = "provisioning" /\ db[Instance(i)] = "none"
       \/ /\ db[Event(i)] = "processed" /\ db[Status(i)] \in {"active", "cancel_at_period_end"}
          /\ db[Instance(i)] = "active"

SecretSound(s) ==
    /\ db[Retries(s)] \in {0, 1} /\ (db[Retries(s)] = 1 => db[Plain(s)] = "wiped")
    /\ \/ db[Event(s)] = "none" /\ db[Plain(s)] = "none"
       \/ db[Event(s)] = "pending" /\ db[Plain(s)] \in {"plain", "wiped"}
       \/ db[Event(s)] = "processed" /\ db[Plain(s)] = "wiped"

LineSound(l) == db[Status(l)] \in {"none", "active", "cancel_at_period_end"}

Typed ==
    /\ DOMAIN db = Columns /\ overlapped \in BOOLEAN /\ mode \in {"temporal", "inline"}
    /\ expired \subseteq Secrets /\ sent \subseteq Secrets
    /\ DOMAIN writes = Sessions /\ DOMAIN batch = Workers /\ DOMAIN loaded = Workers

-----------------------------------------------------------------------------
(* What sessions are going to write.                                       *)

ColumnsOf(e) == {Event(e), Retries(e), Status(e), Instance(e), Plain(e)}

\* Of the row of e, session r is going to write these columns.
Only(r, e, columns) == \A c \in ColumnsOf(e) : c \in DOMAIN writes[r] <=> c \in columns
Untouched(r, e) == Only(r, e, {})

\* A session asks for the installation, makes it run, finds it running, ends
\* its subscription or finds that ended.
Asks(r, i) ==
    /\ db[Event(i)] = "none" /\ Only(r, i, {Event(i), Status(i)})
    /\ writes[r][Event(i)] = "pending" /\ writes[r][Status(i)] = "provisioning"

Runs(r, i) ==
    /\ Only(r, i, {Event(i), Status(i), Instance(i)}) /\ writes[r][Event(i)] = "processed"
    /\ writes[r][Status(i)] = "active" /\ writes[r][Instance(i)] = "active"

\* A processor that was overtaken finds the service instance there.
Repeats(r, i) ==
    /\ db[Event(i)] = "processed" /\ i \in overtaken /\ Only(r, i, {Event(i), Status(i)})
    /\ writes[r][Event(i)] = "processed" /\ writes[r][Status(i)] = "active"

InstallationPending(r, i) ==
    \/ Untouched(r, i)
    \/ Asks(r, i)
    \/ Runs(r, i)
    \/ Repeats(r, i)
    \/ /\ db[Event(i)] = "processed"
       /\ \/ Only(r, i, {Event(i)}) /\ writes[r][Event(i)] = "processed"
          \/ Only(r, i, {Status(i)}) /\ writes[r][Status(i)] = "cancel_at_period_end"
          \/ Only(r, i, {Retries(i)}) /\ writes[r][Retries(i)] = 1

\* A session asks for the mail, has mailed the secret, finds it expired or
\* finds it wiped.
AsksMail(r, s) ==
    /\ db[Event(s)] = "none" /\ Only(r, s, {Event(s), Plain(s)})
    /\ writes[r][Event(s)] = "pending" /\ writes[r][Plain(s)] = "plain"

HasMailed(r, s) ==
    /\ db[Event(s)] # "none" /\ s \in sent /\ Only(r, s, {Event(s), Plain(s)})
    /\ writes[r][Event(s)] = "processed" /\ writes[r][Plain(s)] = "wiped"

FindsExpired(r, s) ==
    /\ db[Event(s)] # "none" /\ s \in expired /\ Only(r, s, {Retries(s), Plain(s)})
    /\ writes[r][Retries(s)] = 1 /\ writes[r][Plain(s)] = "wiped"

FindsWiped(r, s) ==
    db[Plain(s)] = "wiped" /\ Only(r, s, {Event(s)}) /\ writes[r][Event(s)] = "processed"

SecretPending(r, s) ==
    Untouched(r, s) \/ AsksMail(r, s) \/ HasMailed(r, s) \/ FindsExpired(r, s) \/ FindsWiped(r, s)

LinePending(r, l) ==
    Status(l) \in DOMAIN writes[r] => writes[r][Status(l)] \in {"active", "cancel_at_period_end"}

\* A row that is not there yet is written by the one request that makes it;
\* a request writes one row, and a processor rows that are there.
RowsApart ==
    /\ \A e \in Events : db[Event(e)] = "none" =>
          /\ \A w \in Workers : Untouched(w, e)
          /\ \A q, r \in Req : Untouched(q, e) \/ Untouched(r, e) \/ q = r
    /\ \A r \in Req : \A d, e \in Events : Untouched(r, d) \/ Untouched(r, e) \/ d = e

\* An event a processor has read is there, untouched by it as yet; one that has
\* failed before has nothing left to do.
BatchSound(w) ==
    \A e \in DOMAIN batch[w] :
        /\ e \in Events /\ db[Event(e)] # "none" /\ Untouched(w, e)
        /\ batch[w][e] \in {0, 1}
        /\ batch[w][e] = 1 => e \in Secrets /\ db[Plain(e)] = "wiped"

\* What a processor has loaded is one of its events, and was not provisioned
\* since, unless that is on record.
LoadedSound(w) ==
    \A i \in loaded[w] :
        /\ i \in Installations /\ i \in DOMAIN batch[w]
        /\ db[Instance(i)] # "none" => i \in overtaken

Inv ==
    /\ Typed
    /\ \A i \in Installations : InstallationSound(i)
    /\ \A s \in Secrets : SecretSound(s)
    /\ \A l \in Lines : LineSound(l)
    /\ \A r \in Sessions :
          /\ \A i \in Installations : InstallationPending(r, i)
          /\ \A s \in Secrets : SecretPending(r, s)
          /\ \A l \in Lines : LinePending(r, l)
    /\ RowsApart
    /\ \A w \in Workers : BatchSound(w) /\ LoadedSound(w)

\* The offering is or is going to be installed with i.
Wanted(i) ==
    \/ db[Status(i)] \in {"provisioning", "active"}
    \/ db[Status(i)] = "none" /\ \E r \in Sessions : Status(i) \in DOMAIN writes[r]

SerialInv == ~overlapped => \A i, j \in Installations \ overtaken : Wanted(i) /\ Wanted(j) => i = j

-----------------------------------------------------------------------------
(* Frames.                                                                 *)

SameWrites(r, e) ==
    \A c \in ColumnsOf(e) :
        /\ c \in DOMAIN writes'[r] <=> c \in DOMAIN writes[r]
        /\ c \in DOMAIN writes[r] => writes'[r][c] = writes[r][c]

\* Another session may have settled the event; what is settled stays.
EventLater(e) ==
    \/ db'[Event(e)] = db[Event(e)]
    \/ db[Event(e)] # "none" /\ db'[Event(e)] = "processed"

LEMMA UntouchedSame ==
    ASSUME NEW r, NEW e, SameWrites(r, e)
    PROVE  Untouched(r, e)' <=> Untouched(r, e)
BY DEF SameWrites, Untouched, Only, ColumnsOf, Event, Retries, Status, Instance, Plain

LEMMA InstallationFrame ==
    ASSUME NEW r, NEW i, InstallationPending(r, i), SameWrites(r, i),
           Untouched(r, i) \/ EventLater(i), overtaken \subseteq overtaken'
    PROVE  InstallationPending(r, i)'
<1>1. CASE Untouched(r, i) BY <1>1, UntouchedSame DEF InstallationPending
<1>2. CASE EventLater(i)
  BY <1>1, <1>2 DEF EventLater, InstallationPending, Asks, Runs, Repeats, SameWrites, Only, ColumnsOf
<1> QED BY <1>1, <1>2

LEMMA SecretFrame ==
    ASSUME NEW r, NEW s, SecretPending(r, s), SameWrites(r, s),
           \/ Untouched(r, s)
           \/ EventLater(s) /\ (db[Plain(s)] = "wiped" => db'[Plain(s)] = "wiped"),
           sent \subseteq sent', expired \subseteq expired'
    PROVE  SecretPending(r, s)'
<1>1. CASE Untouched(r, s) BY <1>1, UntouchedSame DEF SecretPending
<1>2. CASE EventLater(s) /\ (db[Plain(s)] = "wiped" => db'[Plain(s)] = "wiped")
  BY <1>1, <1>2 DEF EventLater, SecretPending, AsksMail, HasMailed, FindsExpired, FindsWiped,
     SameWrites, Only, ColumnsOf
<1> QED BY <1>1, <1>2

\* The columns of different rows are different.
LEMMA RowsDiffer ==
    \A d, e : d # e => \A c \in ColumnsOf(e) : c \notin ColumnsOf(d)
BY ColumnsApart DEF ColumnsOf

\* Nothing is pending of the columns of an idle session.
LEMMA NothingPending ==
    ASSUME NEW r, DOMAIN writes[r] = {}
    PROVE  /\ \A e : Untouched(r, e)
           /\ \A i \in Installations : InstallationPending(r, i)
           /\ \A s \in Secrets : SecretPending(r, s)
           /\ \A l \in Lines : LinePending(r, l)
BY DEF Untouched, Only, InstallationPending, SecretPending, LinePending

-----------------------------------------------------------------------------
(* Requests.                                                               *)

\* A request writes one row.  When it makes the row, nobody else writes it.
LEMMA RequestKeeps ==
    ASSUME Inv, NEW r \in Req, NEW new, NEW e, Request(r, new),
           \A c \in Columns : c \notin ColumnsOf(e) => new[c] = db[c],
           e \in Installations => InstallationPending(r, e)',
           e \in Secrets => SecretPending(r, e)',
           e \in Lines => LinePending(r, e)',
           e \in Events /\ db[Event(e)] = "none" => \A q \in Sessions : Untouched(q, e)
    PROVE  Inv'
<1>1. /\ db' = db /\ overlapped' \in BOOLEAN
      /\ DOMAIN writes' = Sessions
      /\ DOMAIN writes'[r] = {c \in Columns : new[c] # db[c]}
      /\ \A c \in DOMAIN writes'[r] : writes'[r][c] = new[c]
      /\ \A q \in Sessions : q # r => writes'[q] = writes[q]
  BY DEF Inv, Typed, Sessions, Request, Changed
<1>2. /\ batch' = batch /\ mode' = mode /\ expired' = expired /\ sent' = sent
      /\ loaded' = loaded /\ overtaken' = overtaken
  BY DEF Request
<1>3. r \in Sessions /\ r \notin Workers BY KeysAssumption DEF Sessions
<1>4. Typed' BY <1>1, <1>2 DEF Inv, Typed
<1>5. /\ \A i \in Installations : InstallationSound(i)'
      /\ \A s \in Secrets : SecretSound(s)'
      /\ \A l \in Lines : LineSound(l)'
  BY <1>1 DEF Inv, InstallationSound, SecretSound, LineSound
<1>6. \A d : d # e => Untouched(r, d)'
  BY <1>1, RowsDiffer DEF Untouched, Only
<1>7. /\ \A i \in Installations : InstallationPending(r, i)'
      /\ \A s \in Secrets : SecretPending(r, s)'
  BY <1>6 DEF InstallationPending, SecretPending
<1>8. \A l \in Lines : LinePending(r, l)'
  <2>1. ASSUME NEW l \in Lines, l # e PROVE LinePending(r, l)'
    BY <1>6, <2>1 DEF Untouched, Only, ColumnsOf, LinePending
  <2> QED BY <2>1
<1>9. ASSUME NEW q \in Sessions, q # r
      PROVE  /\ \A i \in Installations : InstallationPending(q, i)'
             /\ \A s \in Secrets : SecretPending(q, s)'
             /\ \A l \in Lines : LinePending(q, l)'
             /\ \A d : Untouched(q, d)' <=> Untouched(q, d)
  <2>1. \A d : SameWrites(q, d) /\ EventLater(d) BY <1>1, <1>9 DEF SameWrites, EventLater
  <2>2. \A l \in Lines : LinePending(q, l)' BY <1>1, <1>9 DEF Inv, LinePending
  <2> QED BY <1>1, <1>2, <2>1, <2>2, InstallationFrame, SecretFrame, UntouchedSame DEF Inv
<1>10. RowsApart'
  <2>1. ASSUME NEW d \in Events, db'[Event(d)] = "none"
        PROVE  /\ \A w \in Workers : Untouched(w, d)'
               /\ \A p, q \in Req : Untouched(p, d)' \/ Untouched(q, d)' \/ p = q
    <3>1. \A w \in Workers : Untouched(w, d)'
      BY <1>1, <1>3, <1>9, <2>1 DEF Inv, RowsApart, Sessions
    <3>2. CASE d = e BY <1>1, <1>9, <2>1, <3>1, <3>2 DEF Sessions
    <3>3. CASE d # e BY <1>1, <1>6, <1>9, <2>1, <3>1, <3>3 DEF Inv, RowsApart, Sessions
    <3> QED BY <3>2, <3>3
  <2>2. ASSUME NEW q \in Req, NEW d \in Events, NEW f \in Events
        PROVE  Untouched(q, d)' \/ Untouched(q, f)' \/ d = f
    BY <1>6, <1>9 DEF Inv, RowsApart, Sessions
  <2> QED BY <2>1, <2>2 DEF RowsApart
<1>11. \A w \in Workers : BatchSound(w)' /\ LoadedSound(w)'
  BY <1>1, <1>2, <1>3, <1>9 DEF Inv, BatchSound, LoadedSound, Sessions
<1> QED BY <1>4, <1>5, <1>7, <1>8, <1>9, <1>10, <1>11 DEF Inv

\* The columns that a request is going to write.
LEMMA RequestWrites ==
    ASSUME Inv, NEW r \in Req, NEW new, Request(r, new)
    PROVE  /\ db' = db /\ sent' = sent /\ expired' = expired
           /\ DOMAIN writes'[r] = {c \in Columns : new[c] # db[c]}
           /\ \A c \in DOMAIN writes'[r] : writes'[r][c] = new[c]
BY DEF Inv, Typed, Sessions, Request, Changed

LEMMA InstallKeeps ==
    ASSUME Inv, NEW r \in Req, NEW i \in Installations, Install(r, i)
    PROVE  Inv'
<1>1. db[Status(i)] = "none" /\ \A q \in Sessions : Status(i) \notin DOMAIN writes[q]
  BY DEF Install, Fresh, Sessions
<1>2. db[Event(i)] = "none" /\ db[Instance(i)] = "none"
  BY <1>1 DEF Inv, InstallationSound
<1>3. \A q \in Sessions : Untouched(q, i)
  BY <1>1, <1>2 DEF Inv, InstallationPending, Asks, Runs, Repeats, Only, ColumnsOf
<1>4. Request(r, Requested(i)) BY DEF Install
<1>5. CASE mode = "temporal"
  <2> DEFINE new == [db EXCEPT ![Status(i)] = "provisioning", ![Event(i)] = "pending"]
  <2>1. \A c \in Columns : new[c] = IF c = Status(i) THEN "provisioning"
                                    ELSE IF c = Event(i) THEN "pending" ELSE db[c]
    BY ColumnsApart DEF Inv, Typed
  <2>2. Request(r, new) BY <1>4, <1>5 DEF Requested
  <2> HIDE DEF new
  <2>3. /\ db' = db
        /\ DOMAIN writes'[r] = {c \in Columns : new[c] # db[c]}
        /\ \A c \in DOMAIN writes'[r] : writes'[r][c] = new[c]
    BY <2>2, RequestWrites
  <2>4. \A c \in ColumnsOf(i) : c \in DOMAIN writes'[r] <=> c \in {Event(i), Status(i)}
    BY <1>1, <1>2, <2>1, <2>3, ColumnsApart, EventKeys DEF ColumnsOf
  <2>5. writes'[r][Event(i)] = "pending" /\ writes'[r][Status(i)] = "provisioning"
    BY <2>1, <2>3, <2>4, ColumnsApart DEF ColumnsOf
  <2>6. InstallationPending(r, i)' BY <1>2, <2>3, <2>4, <2>5 DEF InstallationPending, Asks, Only
  <2>7. \A c \in Columns : c \notin ColumnsOf(i) => new[c] = db[c] BY <2>1 DEF ColumnsOf
  <2> QED BY <1>3, <2>2, <2>6, <2>7, RequestKeeps, EventKeys
<1>6. CASE mode # "temporal"
  <2> DEFINE new == [db EXCEPT ![Status(i)] = "active", ![Instance(i)] = "active", ![Event(i)] = "processed"]
  <2>1. \A c \in Columns : new[c] = IF c \in {Status(i), Instance(i)} THEN "active"
                                    ELSE IF c = Event(i) THEN "processed" ELSE db[c]
    BY ColumnsApart DEF Inv, Typed
  <2>2. Request(r, new) BY <1>4, <1>6 DEF Requested
  <2> HIDE DEF new
  <2>3. /\ db' = db
        /\ DOMAIN writes'[r] = {c \in Columns : new[c] # db[c]}
        /\ \A c \in DOMAIN writes'[r] : writes'[r][c] = new[c]
    BY <2>2, RequestWrites
  <2>4. \A c \in ColumnsOf(i) : c \in DOMAIN writes'[r] <=> c \in {Event(i), Status(i), Instance(i)}
    BY <1>1, <1>2, <2>1, <2>3, ColumnsApart, EventKeys DEF ColumnsOf
  <2>5. /\ writes'[r][Event(i)] = "processed"
        /\ writes'[r][Status(i)] = "active" /\ writes'[r][Instance(i)] = "active"
    BY <2>1, <2>3, <2>4, ColumnsApart DEF ColumnsOf
  <2>6. InstallationPending(r, i)' BY <2>4, <2>5 DEF InstallationPending, Runs, Only
  <2>7. \A c \in Columns : c \notin ColumnsOf(i) => new[c] = db[c] BY <2>1 DEF ColumnsOf
  <2> QED BY <1>3, <2>2, <2>6, <2>7, RequestKeeps, EventKeys
<1> QED BY <1>5, <1>6

LEMMA MailKeeps ==
    ASSUME Inv, NEW r \in Req, NEW s \in Secrets, MailSecret(r, s)
    PROVE  Inv'
<1> DEFINE new == [db EXCEPT ![Plain(s)] = "plain", ![Event(s)] = "pending"]
<1>1. db[Plain(s)] = "none" /\ \A q \in Sessions : Plain(s) \notin DOMAIN writes[q]
  BY DEF MailSecret, Fresh, Sessions
<1>2. db[Event(s)] = "none" BY <1>1 DEF Inv, SecretSound
<1>3. \A q \in Sessions : Untouched(q, s)
  BY <1>1, <1>2 DEF Inv, SecretPending, AsksMail, HasMailed, FindsExpired, FindsWiped, Only, ColumnsOf
<1>4. \A c \in Columns : new[c] = IF c = Plain(s) THEN "plain"
                                  ELSE IF c = Event(s) THEN "pending" ELSE db[c]
  BY ColumnsApart DEF Inv, Typed
<1>5. Request(r, new) BY DEF MailSecret
<1> HIDE DEF new
<1>6. /\ db' = db
      /\ DOMAIN writes'[r] = {c \in Columns : new[c] # db[c]}
      /\ \A c \in DOMAIN writes'[r] : writes'[r][c] = new[c]
  BY <1>5, RequestWrites
<1>7. \A c \in ColumnsOf(s) : c \in DOMAIN writes'[r] <=> c \in {Event(s), Plain(s)}
  BY <1>1, <1>2, <1>4, <1>6, ColumnsApart, EventKeys DEF ColumnsOf
<1>8. writes'[r][Event(s)] = "pending" /\ writes'[r][Plain(s)] = "plain"
  BY <1>4, <1>6, <1>7, ColumnsApart DEF ColumnsOf
<1>9. SecretPending(r, s)' BY <1>2, <1>6, <1>7, <1>8 DEF SecretPending, AsksMail, Only
<1>10. \A c \in Columns : c \notin ColumnsOf(s) => new[c] = db[c] BY <1>4 DEF ColumnsOf
<1> QED BY <1>3, <1>5, <1>9, <1>10, RequestKeeps, EventKeys

\* A set with one element has one.
LEMMA OneElement ==
    ASSUME NEW S, Cardinality(S) = 1
    PROVE  (CHOOSE x \in S : TRUE) \in S
<1>1. S # {} BY FS_EmptySet
<1> QED BY <1>1

LEMMA CancelKeeps ==
    ASSUME Inv, NEW r \in Req, CancelSubscription(r)
    PROVE  Inv'
<1>1. (CHOOSE k \in ActiveInstallations : TRUE) \in ActiveInstallations
  BY OneElement DEF CancelSubscription
<1> PICK i \in ActiveInstallations : Request(r, [db EXCEPT ![Status(i)] = "cancel_at_period_end"])
  BY <1>1 DEF CancelSubscription
<1> DEFINE new == [db EXCEPT ![Status(i)] = "cancel_at_period_end"]
<1>2. i \in Installations /\ db[Status(i)] = "active" BY DEF ActiveInstallations
<1>3. Request(r, new) OBVIOUS
<1>4. db[Event(i)] = "processed" BY <1>2 DEF Inv, InstallationSound
<1>5. \A c \in Columns : new[c] = IF c = Status(i) THEN "cancel_at_period_end" ELSE db[c]
  BY <1>2, ColumnsApart DEF Inv, Typed
<1> HIDE DEF new
<1>6. /\ db' = db
      /\ DOMAIN writes'[r] = {c \in Columns : new[c] # db[c]}
      /\ \A c \in DOMAIN writes'[r] : writes'[r][c] = new[c]
  BY <1>3, RequestWrites
<1>7. \A c \in ColumnsOf(i) : c \in DOMAIN writes'[r] <=> c \in {Status(i)}
  BY <1>2, <1>5, <1>6, ColumnsApart DEF ColumnsOf
<1>8. writes'[r][Status(i)] = "cancel_at_period_end"
  BY <1>5, <1>6, <1>7, ColumnsApart DEF ColumnsOf
<1>9. InstallationPending(r, i)' BY <1>4, <1>6, <1>7, <1>8 DEF InstallationPending, Only
<1>10. \A c \in Columns : c \notin ColumnsOf(i) => new[c] = db[c] BY <1>5 DEF ColumnsOf
<1> QED BY <1>2, <1>3, <1>4, <1>9, <1>10, RequestKeeps, EventKeys

\* A line of an order is placed or its subscription ends.
LEMMA LineKeeps ==
    ASSUME Inv, NEW r \in Req, NEW l \in Lines, NEW v \in {"active", "cancel_at_period_end"},
           Request(r, [db EXCEPT ![Status(l)] = v])
    PROVE  Inv'
<1> DEFINE new == [db EXCEPT ![Status(l)] = v]
<1>1. \A c \in Columns : new[c] = IF c = Status(l) THEN v ELSE db[c]
  BY ColumnsApart DEF Inv, Typed
<1>2. Request(r, new) OBVIOUS
<1> HIDE DEF new
<1>3. /\ DOMAIN writes'[r] = {c \in Columns : new[c] # db[c]}
      /\ \A c \in DOMAIN writes'[r] : writes'[r][c] = new[c]
  BY <1>2, RequestWrites
<1>4. LinePending(r, l)' BY <1>1, <1>3 DEF LinePending
<1>5. \A c \in Columns : c \notin ColumnsOf(l) => new[c] = db[c] BY <1>1 DEF ColumnsOf
<1>6. l \notin Events /\ l \notin Installations /\ l \notin Secrets BY EventKeys DEF Events
<1> QED BY <1>2, <1>4, <1>5, <1>6, RequestKeeps

LEMMA PlaceKeeps ==
    ASSUME Inv, NEW r \in Req, NEW l \in Lines, PlaceOrder(r, l)
    PROVE  Inv'
BY LineKeeps DEF PlaceOrder

LEMMA CancelLineKeeps ==
    ASSUME Inv, NEW r \in Req, CancelLine(r)
    PROVE  Inv'
<1>1. (CHOOSE k \in ActiveLines : TRUE) \in ActiveLines BY OneElement DEF CancelLine
<1>2. PICK l \in ActiveLines : Request(r, [db EXCEPT ![Status(l)] = "cancel_at_period_end"])
  BY <1>1 DEF CancelLine
<1>3. l \in Lines BY DEF ActiveLines
<1> QED BY <1>2, <1>3, LineKeeps

-----------------------------------------------------------------------------
(* Processors.                                                             *)

LEMMA ProcessKeeps ==
    ASSUME Inv, NEW w \in Workers, ProcessPending(w)
    PROVE  Inv'
<1>1. /\ db' = db /\ writes' = writes /\ overlapped' = overlapped /\ mode' = mode
      /\ expired' = expired /\ sent' = sent /\ loaded' = loaded /\ overtaken' = overtaken
  BY DEF ProcessPending
<1>2. DOMAIN writes[w] = {} BY DEF ProcessPending, Nothing
<1>3. PICK pending \in SUBSET Events :
        /\ \A e \in pending : db[Event(e)] = "pending"
        /\ batch' = [batch EXCEPT ![w] = [e \in pending |-> db[Retries(e)]]]
  BY DEF ProcessPending
<1>4. /\ DOMAIN batch' = Workers /\ DOMAIN batch'[w] = pending
      /\ \A e \in pending : batch'[w][e] = db[Retries(e)]
      /\ \A v \in Workers : v # w => batch'[v] = batch[v]
  BY <1>3 DEF Inv, Typed
<1>5. Typed' BY <1>1, <1>4 DEF Inv, Typed
<1>6. \A r, e : SameWrites(r, e) BY <1>1 DEF SameWrites
<1>7. BatchSound(w)'
  <2>1. \A e : Untouched(w, e)' BY <1>2, <1>6, NothingPending, UntouchedSame
  <2>2. ASSUME NEW e \in pending
        PROVE  /\ db[Retries(e)] \in {0, 1}
               /\ db[Retries(e)] = 1 => e \in Secrets /\ db[Plain(e)] = "wiped"
    BY <1>3, EventKeys DEF Inv, InstallationSound, SecretSound
  <2> QED BY <1>1, <1>3, <1>4, <2>1, <2>2 DEF BatchSound
<1>8. ASSUME NEW v \in Workers PROVE LoadedSound(v)' /\ (v # w => BatchSound(v)')
  <2>1. loaded[w] = {} BY DEF Inv, LoadedSound, ProcessPending, Idle
  <2> QED BY <1>1, <1>4, <1>6, <1>8, <2>1, UntouchedSame DEF Inv, BatchSound, LoadedSound
<1>9. /\ \A i \in Installations : InstallationSound(i)'
      /\ \A s \in Secrets : SecretSound(s)'
      /\ \A l \in Lines : LineSound(l)'
  BY <1>1 DEF Inv, InstallationSound, SecretSound, LineSound
<1>10. ASSUME NEW r \in Sessions
       PROVE  /\ \A i \in Installations : InstallationPending(r, i)'
              /\ \A s \in Secrets : SecretPending(r, s)'
              /\ \A l \in Lines : LinePending(r, l)'
  <2>1. \A e : EventLater(e) BY <1>1 DEF EventLater
  <2>2. \A l \in Lines : LinePending(r, l)' BY <1>1 DEF Inv, LinePending
  <2> QED BY <1>1, <1>6, <2>1, <2>2, InstallationFrame, SecretFrame DEF Inv
<1>11. RowsApart' BY <1>1, <1>6, UntouchedSame DEF Inv, RowsApart
<1> QED BY <1>5, <1>7, <1>8, <1>9, <1>10, <1>11 DEF Inv

\* What a handler adds to the session of w.
LEMMA HandledWrites ==
    ASSUME Inv, NEW w \in Workers, NEW e \in Events, NEW columns, NEW rows,
           columns \subseteq ColumnsOf(e), Handled(w, e, columns, rows)
    PROVE  /\ db' = db /\ overlapped' = overlapped /\ mode' = mode /\ expired' = expired
           /\ overtaken' = overtaken
           /\ e \in DOMAIN batch[w] /\ DOMAIN writes' = Sessions
           /\ \A r \in Sessions : r # w => writes'[r] = writes[r]
           /\ \A c \in ColumnsOf(e) : c \in DOMAIN writes'[w] <=> c \in columns
           /\ \A c \in columns : writes'[w][c] = rows[c]
           /\ \A c : c \notin ColumnsOf(e) =>
                 /\ c \in DOMAIN writes'[w] <=> c \in DOMAIN writes[w]
                 /\ c \in DOMAIN writes[w] => writes'[w][c] = writes[w][c]
<1>1. w \in Sessions /\ DOMAIN writes = Sessions BY DEF Inv, Typed, Sessions
<1>2. \A c \in ColumnsOf(e) : c \notin DOMAIN writes[w]
  BY DEF Inv, BatchSound, Untouched, Only, Handled
<1>3. /\ DOMAIN writes'[w] = DOMAIN writes[w] \cup columns
      /\ \A c \in DOMAIN writes'[w] : writes'[w][c] = IF c \in columns THEN rows[c] ELSE writes[w][c]
  BY <1>1 DEF Handled
<1> QED BY <1>1, <1>2, <1>3 DEF Handled

LEMMA HandledKeeps ==
    ASSUME Inv, NEW w \in Workers, NEW e \in Events, NEW columns, NEW rows,
           columns \subseteq ColumnsOf(e), Handled(w, e, columns, rows),
           sent \subseteq sent', sent' \subseteq Secrets,
           e \in Installations => InstallationPending(w, e)',
           e \in Secrets => SecretPending(w, e)'
    PROVE  Inv'
<1>1. /\ db' = db /\ overlapped' = overlapped /\ mode' = mode /\ expired' = expired
      /\ overtaken' = overtaken
      /\ e \in DOMAIN batch[w] /\ DOMAIN writes' = Sessions
      /\ \A r \in Sessions : r # w => writes'[r] = writes[r]
      /\ \A c : c \notin ColumnsOf(e) =>
            /\ c \in DOMAIN writes'[w] <=> c \in DOMAIN writes[w]
            /\ c \in DOMAIN writes[w] => writes'[w][c] = writes[w][c]
  BY HandledWrites
<1>2. /\ DOMAIN batch' = Workers /\ DOMAIN batch'[w] = DOMAIN batch[w] \ {e}
      /\ \A k \in DOMAIN batch'[w] : batch'[w][k] = batch[w][k]
      /\ DOMAIN loaded' = Workers /\ loaded'[w] = {}
      /\ \A v \in Workers : v # w => batch'[v] = batch[v] /\ loaded'[v] = loaded[v]
  BY DEF Handled, Inv, Typed
<1>3. w \in Sessions /\ w \notin Req /\ db[Event(e)] # "none"
  BY <1>1, KeysAssumption DEF Sessions, Inv, BatchSound
<1>4. Typed' BY <1>1, <1>2 DEF Inv, Typed
<1>5. /\ \A i \in Installations : InstallationSound(i)'
      /\ \A s \in Secrets : SecretSound(s)'
      /\ \A l \in Lines : LineSound(l)'
  BY <1>1 DEF Inv, InstallationSound, SecretSound, LineSound
<1>6. ASSUME NEW r \in Sessions, NEW d, r # w \/ d # e PROVE SameWrites(r, d)
  BY <1>1, <1>6, RowsDiffer DEF SameWrites
<1>7. \A d : EventLater(d) BY <1>1 DEF EventLater
<1>8. ASSUME NEW r \in Sessions
      PROVE  /\ \A i \in Installations : InstallationPending(r, i)'
             /\ \A s \in Secrets : SecretPending(r, s)'
  <2>1. ASSUME NEW i \in Installations PROVE InstallationPending(r, i)'
    BY <1>1, <1>6, <1>7, InstallationFrame DEF Inv
  <2>2. ASSUME NEW s \in Secrets PROVE SecretPending(r, s)'
    BY <1>1, <1>6, <1>7, SecretFrame DEF Inv
  <2> QED BY <2>1, <2>2
<1>9. ASSUME NEW r \in Sessions, NEW l \in Lines PROVE LinePending(r, l)'
  <2>1. l # e BY EventKeys
  <2>2. SameWrites(r, l) /\ LinePending(r, l) BY <1>6, <2>1 DEF Inv
  <2> QED BY <2>2 DEF SameWrites, ColumnsOf, LinePending
<1>10. RowsApart'
  <2>1. \A r \in Sessions : \A d : r # w \/ d # e => (Untouched(r, d)' <=> Untouched(r, d))
    BY <1>6, UntouchedSame
  <2>2. \A r \in Req : \A d : Untouched(r, d)' <=> Untouched(r, d)
    BY <1>3, <2>1 DEF Sessions
  <2>3. ASSUME NEW d \in Events, db'[Event(d)] = "none"
        PROVE  \A v \in Workers : Untouched(v, d)'
    BY <1>1, <1>3, <2>1, <2>3 DEF Inv, RowsApart, Sessions
  <2> QED BY <1>1, <2>2, <2>3 DEF Inv, RowsApart
<1>12. ASSUME NEW v \in Workers PROVE LoadedSound(v)'
  BY <1>1, <1>2 DEF Inv, LoadedSound
<1>11. ASSUME NEW v \in Workers PROVE BatchSound(v)'
  <2>1. v \in Sessions /\ DOMAIN batch'[v] \subseteq DOMAIN batch[v]
    BY <1>2 DEF Sessions
  <2>2. ASSUME NEW d \in DOMAIN batch'[v] PROVE Untouched(v, d)' /\ batch'[v][d] = batch[v][d]
    BY <1>2, <1>6, <2>1, <2>2, UntouchedSame DEF Inv, BatchSound
  <2> QED BY <1>1, <2>1, <2>2 DEF Inv, BatchSound
<1> QED BY <1>4, <1>5, <1>8, <1>9, <1>10, <1>11, <1>12 DEF Inv

\* Sessions that end without a commit, clocks that tick and steps that change
\* nothing: the rows stay, and sessions write what they did or nothing.
LEMMA RestKeeps ==
    ASSUME Inv, db' = db, overlapped' = overlapped, mode' = mode, sent' = sent,
           overtaken' = overtaken, DOMAIN loaded' = Workers, \A w \in Workers : LoadedSound(w)',
           expired \subseteq expired', expired' \subseteq Secrets,
           DOMAIN writes' = Sessions, DOMAIN batch' = Workers,
           \A r \in Sessions : writes'[r] = writes[r] \/ DOMAIN writes'[r] = {},
           \A w \in Workers : batch'[w] = batch[w] \/ DOMAIN batch'[w] = {}
    PROVE  Inv'
<1>1. Typed' BY DEF Inv, Typed
<1>2. /\ \A i \in Installations : InstallationSound(i)'
      /\ \A s \in Secrets : SecretSound(s)'
      /\ \A l \in Lines : LineSound(l)'
  BY DEF Inv, InstallationSound, SecretSound, LineSound
<1>3. ASSUME NEW r \in Sessions
      PROVE  /\ \A i \in Installations : InstallationPending(r, i)'
             /\ \A s \in Secrets : SecretPending(r, s)'
             /\ \A l \in Lines : LinePending(r, l)'
             /\ \A e : Untouched(r, e) => Untouched(r, e)'
  <2>1. CASE DOMAIN writes'[r] = {}
    BY <2>1 DEF Untouched, Only, InstallationPending, SecretPending, LinePending
  <2>2. CASE writes'[r] = writes[r]
    <3>1. \A e : SameWrites(r, e) /\ EventLater(e) BY <2>2 DEF SameWrites, EventLater
    <3>2. \A l \in Lines : LinePending(r, l)' BY <2>2 DEF Inv, LinePending
    <3> QED BY <3>1, <3>2, InstallationFrame, SecretFrame, UntouchedSame DEF Inv
  <2> QED BY <2>1, <2>2
<1>4. RowsApart' BY <1>3 DEF Inv, RowsApart, Sessions
<1>5. ASSUME NEW w \in Workers PROVE BatchSound(w)'
  BY <1>3 DEF Inv, BatchSound, Sessions
<1> QED BY <1>1, <1>2, <1>3, <1>4, <1>5 DEF Inv

\* A handler that fails has not failed before.
LEMMA FailsOnce ==
    ASSUME NEW w, NEW e, batch[w][e] = 0
    PROVE  FailedColumns(w, e) = {Retries(e)} /\ batch[w][e] + 1 = 1
BY DEF FailedColumns, MAX_RETRIES

LEMMA LoadKeeps ==
    ASSUME Inv, NEW w \in Workers, NEW i \in Installations, LoadInstallation(w, i)
    PROVE  Inv'
<1>1. sent' = sent /\ i \in DOMAIN batch[w] BY DEF LoadInstallation
<1>2. /\ i \in Events /\ i \notin Secrets /\ db[Event(i)] # "none" /\ batch[w][i] = 0
  BY <1>1, EventKeys DEF Inv, BatchSound
<1>3. sent \subseteq sent' /\ sent' \subseteq Secrets BY <1>1 DEF Inv, Typed
<1>4. CASE db[Status(i)] = "provisioning"
  <2>1. /\ loaded' = [loaded EXCEPT ![w] = {i}]
        /\ UNCHANGED <<db, writes, overlapped, batch, mode, expired, overtaken>>
    BY <1>4 DEF LoadInstallation
  <2>2. db[Instance(i)] = "none" BY <1>4 DEF Inv, InstallationSound
  <2>3. \A v \in Workers : LoadedSound(v)'
    BY <1>1, <2>1, <2>2 DEF Inv, Typed, LoadedSound
  <2>4. /\ DOMAIN writes' = Sessions /\ DOMAIN batch' = Workers /\ DOMAIN loaded' = Workers
        /\ expired' \subseteq Secrets
    BY <2>1 DEF Inv, Typed
  <2> QED BY <1>1, <2>1, <2>3, <2>4, RestKeeps
<1>5. CASE db[Status(i)] # "provisioning"
  <2>1. db[Event(i)] = "processed" BY <1>2, <1>5 DEF Inv, InstallationSound
  <2>2. PICK columns, rows :
          /\ Handled(w, i, columns, rows)
          /\ \/ columns = {Event(i)} /\ rows[Event(i)] = "processed"
             \/ columns = {Retries(i)} /\ rows[Retries(i)] = 1
    <3>1. Processed(db, i)[Event(i)] = "processed" /\ Failed(db, w, i)[Retries(i)] = 1
      BY <1>2, FailsOnce, ColumnsApart DEF Processed, Failed, Inv, Typed
    <3> QED BY <1>2, <1>5, <3>1, FailsOnce DEF LoadInstallation
  <2>3. columns \subseteq ColumnsOf(i) BY <2>2 DEF ColumnsOf
  <2>4. /\ db' = db
        /\ \A c \in ColumnsOf(i) : c \in DOMAIN writes'[w] <=> c \in columns
        /\ \A c \in columns : writes'[w][c] = rows[c]
    BY <1>2, <2>2, <2>3, HandledWrites
  <2>5. InstallationPending(w, i)' BY <2>1, <2>2, <2>4 DEF InstallationPending, Only
  <2> QED BY <1>2, <1>3, <2>2, <2>3, <2>5, HandledKeeps
<1> QED BY <1>4, <1>5

\* The service instance is not there, or the processor was overtaken.
LEMMA ProvisionKeeps ==
    ASSUME Inv, NEW w \in Workers, NEW i \in Installations, HandleProvision(w, i)
    PROVE  Inv'
<1>1. sent' = sent /\ i \in loaded[w] /\ i \in DOMAIN batch[w]
  BY DEF HandleProvision, Inv, LoadedSound
<1>2. i \in Events /\ i \notin Secrets /\ db[Event(i)] # "none"
  BY <1>1, EventKeys DEF Inv, BatchSound
<1>3. sent \subseteq sent' /\ sent' \subseteq Secrets BY <1>1 DEF Inv, Typed
<1> DEFINE rows == [Processed(db, i) EXCEPT ![Status(i)] = "active", ![Instance(i)] = "active"]
           columns == {Event(i), Status(i)} \cup (IF db[Instance(i)] = "none" THEN {Instance(i)} ELSE {})
<1>4. Handled(w, i, columns, rows) BY DEF HandleProvision
<1>5. rows[Event(i)] = "processed" /\ rows[Status(i)] = "active" /\ rows[Instance(i)] = "active"
  BY <1>2, ColumnsApart DEF Processed, Inv, Typed
<1>6. columns \subseteq ColumnsOf(i) BY DEF ColumnsOf
<1> HIDE DEF rows
<1>7. /\ db' = db /\ overtaken' = overtaken
      /\ \A c \in ColumnsOf(i) : c \in DOMAIN writes'[w] <=> c \in columns
      /\ \A c \in columns : writes'[w][c] = rows[c]
  BY <1>2, <1>4, <1>6, HandledWrites
<1>8. CASE db[Instance(i)] = "none"
  <2>1. columns = {Event(i), Status(i), Instance(i)} BY <1>8
  <2>2. InstallationPending(w, i)' BY <1>5, <1>7, <2>1 DEF InstallationPending, Runs, Only
  <2> QED BY <1>2, <1>3, <1>4, <1>6, <2>2, HandledKeeps
<1>9. CASE db[Instance(i)] # "none"
  <2>1. columns = {Event(i), Status(i)} BY <1>9
  <2>2. db[Event(i)] = "processed" /\ i \in overtaken
    BY <1>1, <1>9 DEF Inv, InstallationSound, LoadedSound
  <2>3. InstallationPending(w, i)' BY <1>5, <1>7, <2>1, <2>2 DEF InstallationPending, Repeats, Only
  <2> QED BY <1>2, <1>3, <1>4, <1>6, <2>3, HandledKeeps
<1> QED BY <1>8, <1>9

LEMMA DeliverKeeps ==
    ASSUME Inv, NEW w \in Workers, NEW s \in Secrets, DeliverSecret(w, s)
    PROVE  Inv'
<1>1. /\ s \in DOMAIN batch[w] /\ s \in Events /\ s \notin Installations
      /\ db[Event(s)] # "none" /\ (db[Plain(s)] = "plain" => batch[w][s] = 0)
  BY EventKeys DEF Inv, BatchSound, DeliverSecret
<1>2. sent \subseteq sent' /\ sent' \subseteq Secrets BY DEF DeliverSecret, Inv, Typed
<1>3. /\ Wiped(Processed(db, s), s)[Event(s)] = "processed" /\ Processed(db, s)[Event(s)] = "processed"
      /\ Wiped(Processed(db, s), s)[Plain(s)] = "wiped" /\ Wiped(Failed(db, w, s), s)[Plain(s)] = "wiped"
  BY <1>1, ColumnsApart DEF Processed, Failed, Wiped, Inv, Typed
<1>4. db[Plain(s)] = "plain" => Wiped(Failed(db, w, s), s)[Retries(s)] = 1
  BY <1>1, FailsOnce, ColumnsApart DEF Failed, Wiped, Inv, Typed
<1>5. PICK columns, rows :
        /\ Handled(w, s, columns, rows)
        /\ \/ /\ columns = {Event(s), Plain(s)} /\ s \in sent'
              /\ rows[Event(s)] = "processed" /\ rows[Plain(s)] = "wiped"
           \/ /\ columns = {Retries(s), Plain(s)} /\ s \in expired
              /\ rows[Retries(s)] = 1 /\ rows[Plain(s)] = "wiped"
           \/ columns = {Event(s)} /\ db[Plain(s)] = "wiped" /\ rows[Event(s)] = "processed"
  <2>1. db[Plain(s)] = "plain" => FailedColumns(w, s) \cup {Plain(s)} = {Retries(s), Plain(s)}
    BY <1>1, FailsOnce
  <2> QED BY <1>1, <1>3, <1>4, <2>1 DEF DeliverSecret
<1>6. columns \subseteq ColumnsOf(s) BY <1>5 DEF ColumnsOf
<1>7. /\ db' = db /\ expired' = expired
      /\ \A c \in ColumnsOf(s) : c \in DOMAIN writes'[w] <=> c \in columns
      /\ \A c \in columns : writes'[w][c] = rows[c]
  BY <1>1, <1>5, <1>6, HandledWrites
<1>8. SecretPending(w, s)'
  BY <1>1, <1>5, <1>7 DEF SecretPending, HasMailed, FindsExpired, FindsWiped, Only
<1> QED BY <1>1, <1>2, <1>5, <1>6, <1>8, HandledKeeps

-----------------------------------------------------------------------------
(* The end of a session.                                                   *)

\* What a commit makes of an installation, by what the session writes to it.
\* One that was provisioned meanwhile makes the session fail.
LEMMA CommitInstallation ==
    ASSUME Inv, NEW r \in Sessions, NEW i \in Installations, Commit(r), InstanceUnique(r)
    PROVE  /\ InstallationSound(i)'
           /\ EventLater(i) \/ (db[Event(i)] = "none" /\ ~Untouched(r, i))
           /\ Untouched(r, i) => db'[Event(i)] = db[Event(i)] /\ db'[Status(i)] = db[Status(i)]
           /\ db[Status(i)] = "cancel_at_period_end" =>
                 db'[Status(i)] = "cancel_at_period_end" \/ i \in overtaken
           /\ Instance(i) \notin DOMAIN writes[r] => db'[Instance(i)] = db[Instance(i)]
<1>1. i \in Events /\ InstallationSound(i) /\ InstallationPending(r, i) BY EventKeys DEF Inv
<1>2. /\ Event(i) \in Columns /\ Retries(i) \in Columns /\ Status(i) \in Columns /\ Instance(i) \in Columns
      /\ \A c \in Columns : db'[c] = IF c \in DOMAIN writes[r] THEN writes[r][c] ELSE db[c]
  BY <1>1, CommitWrites, ColumnsApart DEF Inv, Typed, Sessions
<1>3. Instance(i) \in DOMAIN writes[r] => db[Instance(i)] = "none" BY DEF InstanceUnique
<1>4. CASE Untouched(r, i)
  BY <1>1, <1>2, <1>4 DEF Untouched, Only, ColumnsOf, InstallationSound, EventLater
<1>5. CASE Asks(r, i)
  BY <1>1, <1>2, <1>5, ColumnsApart DEF Asks, Untouched, Only, ColumnsOf, InstallationSound, EventLater
<1>6. CASE Runs(r, i)
  BY <1>1, <1>2, <1>3, <1>6, ColumnsApart DEF Runs, Untouched, Only, ColumnsOf, InstallationSound, EventLater
<1>8. CASE Repeats(r, i)
  BY <1>1, <1>2, <1>8, ColumnsApart DEF Repeats, Untouched, Only, ColumnsOf, InstallationSound, EventLater
<1>7. CASE /\ db[Event(i)] = "processed"
           /\ \/ Only(r, i, {Event(i)}) /\ writes[r][Event(i)] = "processed"
              \/ Only(r, i, {Status(i)}) /\ writes[r][Status(i)] = "cancel_at_period_end"
              \/ Only(r, i, {Retries(i)}) /\ writes[r][Retries(i)] = 1
  BY <1>1, <1>2, <1>7, ColumnsApart DEF Untouched, Only, ColumnsOf, InstallationSound, EventLater
<1> QED BY <1>1, <1>2, <1>4, <1>5, <1>6, <1>7, <1>8 DEF InstallationPending

LEMMA CommitSecret ==
    ASSUME Inv, NEW r \in Sessions, NEW s \in Secrets, Commit(r)
    PROVE  /\ SecretSound(s)'
           /\ EventLater(s) \/ (db[Event(s)] = "none" /\ ~Untouched(r, s))
           /\ Untouched(r, s) => db'[Event(s)] = db[Event(s)] /\ db'[Plain(s)] = db[Plain(s)]
           /\ db[Plain(s)] = "wiped" => db'[Plain(s)] = "wiped"
<1>1. s \in Events /\ SecretSound(s) /\ SecretPending(r, s) BY EventKeys DEF Inv
<1>2. /\ Event(s) \in Columns /\ Retries(s) \in Columns /\ Plain(s) \in Columns
      /\ \A c \in Columns : db'[c] = IF c \in DOMAIN writes[r] THEN writes[r][c] ELSE db[c]
  BY <1>1, CommitWrites, ColumnsApart DEF Inv, Typed, Sessions
<1>3. CASE Untouched(r, s)
  BY <1>1, <1>2, <1>3 DEF Untouched, Only, ColumnsOf, SecretSound, EventLater
<1>4. CASE AsksMail(r, s)
  BY <1>1, <1>2, <1>4, ColumnsApart DEF AsksMail, Untouched, Only, ColumnsOf, SecretSound, EventLater
<1>5. CASE HasMailed(r, s)
  BY <1>1, <1>2, <1>5, ColumnsApart DEF HasMailed, Untouched, Only, ColumnsOf, SecretSound, EventLater
<1>6. CASE FindsExpired(r, s)
  BY <1>1, <1>2, <1>6, ColumnsApart DEF FindsExpired, Untouched, Only, ColumnsOf, SecretSound, EventLater
<1>7. CASE FindsWiped(r, s)
  BY <1>1, <1>2, <1>7, ColumnsApart DEF FindsWiped, Untouched, Only, ColumnsOf, SecretSound, EventLater
<1> QED BY <1>1, <1>3, <1>4, <1>5, <1>6, <1>7 DEF SecretPending

LEMMA CommitKeeps ==
    ASSUME Inv, NEW r \in Sessions, CommitUnique(r)
    PROVE  Inv'
<1>1. /\ Commit(r) /\ InstanceUnique(r) /\ (r \in Workers => batch[r] = Idle)
      /\ batch' = batch /\ mode' = mode /\ expired' = expired /\ sent' = sent
      /\ loaded' = loaded /\ overtaken \subseteq overtaken'
  BY DEF CommitUnique
<1>2. /\ DOMAIN db' = Columns /\ overlapped' = overlapped
      /\ \A c \in Columns : db'[c] = IF c \in DOMAIN writes[r] THEN writes[r][c] ELSE db[c]
      /\ DOMAIN writes' = Sessions
      /\ DOMAIN writes'[r] = {}
      /\ \A q \in Sessions : q # r => writes'[q] = writes[q]
  BY <1>1, CommitWrites DEF Inv, Typed, Sessions
<1>3. Typed' BY <1>1, <1>2 DEF Inv, Typed
<1>4. ASSUME NEW l \in Lines PROVE LineSound(l)'
  BY <1>2, ColumnsApart DEF Inv, LineSound, LinePending
<1>5. ASSUME NEW e \in Events
      PROVE  \/ EventLater(e) /\ (e \in Secrets /\ db[Plain(e)] = "wiped" => db'[Plain(e)] = "wiped")
             \/ db[Event(e)] = "none" /\ \A q \in Sessions : q # r => Untouched(q, e)
  <2>1. EventLater(e) \/ (db[Event(e)] = "none" /\ ~Untouched(r, e))
    BY <1>1, EventKeys, CommitInstallation, CommitSecret
  <2>2. e \in Secrets /\ db[Plain(e)] = "wiped" => db'[Plain(e)] = "wiped"
    BY <1>1, CommitSecret
  <2>3. ASSUME db[Event(e)] = "none", ~Untouched(r, e), NEW q \in Sessions, q # r
        PROVE  Untouched(q, e)
    BY <2>3 DEF Inv, RowsApart, Sessions
  <2> QED BY <2>1, <2>2, <2>3
<1>6. ASSUME NEW q \in Sessions, q # r
      PROVE  /\ \A i \in Installations : InstallationPending(q, i)'
             /\ \A s \in Secrets : SecretPending(q, s)'
             /\ \A l \in Lines : LinePending(q, l)'
             /\ \A e : Untouched(q, e)' <=> Untouched(q, e)
  <2>1. \A e : SameWrites(q, e) BY <1>2, <1>6 DEF SameWrites
  <2>2. ASSUME NEW i \in Installations PROVE InstallationPending(q, i)'
    BY <1>1, <1>5, <1>6, <2>1, EventKeys, InstallationFrame DEF Inv
  <2>3. ASSUME NEW s \in Secrets PROVE SecretPending(q, s)'
    BY <1>1, <1>5, <1>6, <2>1, EventKeys, SecretFrame DEF Inv
  <2>4. \A l \in Lines : LinePending(q, l)' BY <1>2, <1>6 DEF Inv, LinePending
  <2> QED BY <2>1, <2>2, <2>3, <2>4, UntouchedSame
<1>7. /\ \A e : Untouched(r, e)'
      /\ \A i \in Installations : InstallationPending(r, i)'
      /\ \A s \in Secrets : SecretPending(r, s)'
      /\ \A l \in Lines : LinePending(r, l)'
  BY <1>2 DEF Untouched, Only, InstallationPending, SecretPending, LinePending
<1>8. \A q \in Sessions : \A e : Untouched(q, e) => Untouched(q, e)' BY <1>6, <1>7
<1>9. RowsApart'
  <2>1. ASSUME NEW e \in Events, db'[Event(e)] = "none" PROVE db[Event(e)] = "none" \/ \A q \in Sessions : Untouched(q, e)'
    BY <1>5, <2>1 DEF EventLater
  <2> QED BY <1>8, <2>1 DEF Inv, RowsApart, Sessions
<1>10. ASSUME NEW w \in Workers PROVE BatchSound(w)'
  <2>1. w \in Sessions BY DEF Sessions
  <2>2. CASE w = r
    <3>1. DOMAIN batch'[w] = {} BY <1>1, <2>2 DEF Idle
    <3> QED BY <3>1 DEF BatchSound
  <2>3. CASE w # r
    BY <1>1, <1>5, <1>8, <2>1, <2>3 DEF Inv, BatchSound, EventLater
  <2> QED BY <2>2, <2>3
<1>11. ASSUME NEW w \in Workers, NEW i \in loaded[w]
       PROVE  /\ i \in Installations /\ i \in DOMAIN batch'[w]
              /\ db'[Instance(i)] # "none" => i \in overtaken'
  <2>1. i \in Installations /\ i \in DOMAIN batch'[w] /\ (db[Instance(i)] # "none" => i \in overtaken)
    BY <1>1 DEF Inv, LoadedSound
  <2>2. CASE Instance(i) \in DOMAIN writes[r] BY <2>1, <2>2 DEF CommitUnique
  <2>3. CASE Instance(i) \notin DOMAIN writes[r]
    BY <1>1, <2>1, <2>3, CommitInstallation
  <2> QED BY <2>1, <2>2, <2>3
<1> QED
  <2>1. \A i \in Installations : InstallationSound(i)' BY <1>1, CommitInstallation
  <2>2. \A s \in Secrets : SecretSound(s)' BY <1>1, CommitSecret
  <2>3. \A w \in Workers : LoadedSound(w)' BY <1>1, <1>11 DEF LoadedSound
  <2> QED BY <1>3, <1>4, <1>6, <1>7, <1>9, <1>10, <2>1, <2>2, <2>3 DEF Inv

LEMMA GiveUpKeeps ==
    ASSUME Inv, NEW r \in Sessions, GiveUp(r)
    PROVE  Inv'
<1>1. DOMAIN writes' = Sessions /\ \A q \in Sessions : writes'[q] = writes[q] \/ DOMAIN writes'[q] = {}
  BY DEF GiveUp, Nothing, Inv, Typed
<1>2. DOMAIN batch' = Workers /\ \A w \in Workers : batch'[w] = batch[w] \/ DOMAIN batch'[w] = {}
  BY DEF GiveUp, Idle
<1>3. DOMAIN loaded' = Workers /\ \A w \in Workers : LoadedSound(w)'
  BY DEF GiveUp, Inv, LoadedSound
<1> QED BY <1>1, <1>2, <1>3, RestKeeps DEF GiveUp, Inv, Typed

LEMMA ExpireKeeps ==
    ASSUME Inv, NEW s \in Secrets, Expire(s)
    PROVE  Inv'
<1>1. \A w \in Workers : LoadedSound(w)' BY DEF Expire, Inv, LoadedSound
<1> QED BY <1>1, RestKeeps DEF Expire, Inv, Typed

-----------------------------------------------------------------------------
(* The theorems.                                                           *)

LEMMA InitInv == Init => Inv
<1> SUFFICES ASSUME Init PROVE Inv OBVIOUS
<1>1. \A e \in Events : db[Event(e)] = "none" /\ db[Retries(e)] = 0
  BY ColumnsApart DEF Init
<1>2. \A k \in Installations \cup Lines : db[Status(k)] = "none"
  BY ColumnsApart DEF Init
<1>3. (\A i \in Installations : db[Instance(i)] = "none") /\ \A s \in Secrets : db[Plain(s)] = "none"
  BY ColumnsApart DEF Init
<1>4. Typed BY DEF Init, Typed, Sessions
<1>5. \A r \in Sessions : DOMAIN writes[r] = {} BY DEF Init, Sessions, Nothing
<1>6. \A w \in Workers : DOMAIN batch[w] = {} BY DEF Init, Idle
<1>7. /\ \A i \in Installations : InstallationSound(i)
      /\ \A s \in Secrets : SecretSound(s)
      /\ \A l \in Lines : LineSound(l)
  BY <1>1, <1>2, <1>3, EventKeys DEF InstallationSound, SecretSound, LineSound
<1>8. RowsApart BY <1>5, NothingPending DEF RowsApart, Sessions
<1>9. \A w \in Workers : BatchSound(w) /\ LoadedSound(w) BY <1>6 DEF BatchSound, LoadedSound, Init
<1> QED BY <1>4, <1>5, <1>7, <1>8, <1>9, NothingPending DEF Inv

LEMMA NextInv == Inv /\ [Next]_vars => Inv'
<1> SUFFICES ASSUME Inv, [Next]_vars PROVE Inv' OBVIOUS
<1>1. CASE UNCHANGED vars
  <2>1. \A w \in Workers : LoadedSound(w)' BY <1>1 DEF vars, Inv, LoadedSound
  <2> QED BY <1>1, <2>1, RestKeeps DEF vars, Inv, Typed
<1>2. ASSUME NEW r \in Req,
             \/ \E i \in Installations : Install(r, i)
             \/ \E s \in Secrets : MailSecret(r, s)
             \/ \E l \in Lines : PlaceOrder(r, l)
             \/ CancelSubscription(r)
             \/ CancelLine(r)
      PROVE  Inv'
  BY <1>2, InstallKeeps, MailKeeps, PlaceKeeps, CancelKeeps, CancelLineKeeps
<1>3. ASSUME NEW w \in Workers,
             \/ ProcessPending(w)
             \/ \E i \in Installations : LoadInstallation(w, i) \/ HandleProvision(w, i)
             \/ \E s \in Secrets : DeliverSecret(w, s)
      PROVE  Inv'
  BY <1>3, ProcessKeeps, LoadKeeps, ProvisionKeeps, DeliverKeeps
<1>4. ASSUME NEW r \in Req \cup Workers, CommitUnique(r) \/ GiveUp(r) PROVE Inv'
  BY <1>4, CommitKeeps, GiveUpKeeps DEF Sessions
<1>5. ASSUME NEW s \in Secrets, Expire(s) PROVE Inv'
  BY <1>5, ExpireKeeps
<1> QED BY <1>1, <1>2, <1>3, <1>4, <1>5 DEF Next

\* The inductive invariant holds of every reachable state.
THEOREM InvHolds == Spec => []Inv
BY InitInv, NextInv, PTL DEF Spec

\* Wherever process_pending and the requests stop and however they overlap, an
\* event that the outbox marks processed has had its effect: the installation
\* runs, with its service instance, and the secret is wiped.
THEOREM OutboxIsSound == Spec => []OutboxSound
<1>1. ASSUME Inv PROVE OutboxSound
  <2>1. TypeOK
    <3>1. \A e \in Events : /\ db[Event(e)] \in {"none", "pending", "processed", "dead"}
                            /\ db[Retries(e)] \in 0 .. MAX_RETRIES
      BY <1>1, EventKeys DEF Inv, InstallationSound, SecretSound, MAX_RETRIES
    <3>2. \A k \in Installations \cup Lines :
             db[Status(k)] \in {"none", "provisioning", "active", "cancel_at_period_end"}
      BY <1>1 DEF Inv, InstallationSound, LineSound
    <3> QED BY <1>1, <3>1, <3>2 DEF TypeOK, Inv, Typed, BatchSound, LoadedSound
  <2> QED BY <1>1, <2>1 DEF OutboxSound, Inv, InstallationSound, SecretSound
<1> QED BY <1>1, InvHolds, PTL

\* Only a commit changes rows.
LEMMA RowSteps ==
    ASSUME Inv, [Next]_vars
    PROVE  db' = db \/ \E r \in Sessions : CommitUnique(r)
<1>1. CASE UNCHANGED vars BY <1>1 DEF vars
<1>2. ASSUME NEW r \in Req, NEW i \in Installations, Install(r, i) PROVE db' = db
  BY <1>2 DEF Install, Request
<1>3. ASSUME NEW r \in Req, NEW s \in Secrets, MailSecret(r, s) PROVE db' = db
  BY <1>3 DEF MailSecret, Request
<1>4. ASSUME NEW r \in Req, NEW l \in Lines, PlaceOrder(r, l) PROVE db' = db
  BY <1>4 DEF PlaceOrder, Request
<1>5. ASSUME NEW r \in Req, CancelSubscription(r) \/ CancelLine(r) PROVE db' = db
  BY <1>5 DEF CancelSubscription, CancelLine, Request
<1>6. ASSUME NEW w \in Workers, ProcessPending(w) PROVE db' = db
  BY <1>6 DEF ProcessPending
<1>7. ASSUME NEW w \in Workers, NEW i \in Installations, LoadInstallation(w, i) \/ HandleProvision(w, i)
      PROVE  db' = db
  BY <1>7 DEF LoadInstallation, HandleProvision, Handled
<1>8. ASSUME NEW w \in Workers, NEW s \in Secrets, DeliverSecret(w, s) PROVE db' = db
  BY <1>8 DEF DeliverSecret, Handled
<1>9. ASSUME NEW r \in Req \cup Workers, GiveUp(r) PROVE db' = db
  BY <1>9 DEF GiveUp
<1>10. ASSUME NEW s \in Secrets, Expire(s) PROVE db' = db
  BY <1>10 DEF Expire
<1> QED BY <1>1, <1>2, <1>3, <1>4, <1>5, <1>6, <1>7, <1>8, <1>9, <1>10 DEF Next, Sessions

\* No processor that read the installation earlier makes a subscription active
\* again that cancel_subscription has ended, unless another provisioned it while
\* this one was between the two SELECTs of handle_provision.
THEOREM CancelledStays == Spec => CancelStays
<1>1. ASSUME Inv, [Next]_vars
      PROVE  [\A i \in Installations \ overtaken :
                 db[Status(i)] = "cancel_at_period_end" => db'[Status(i)] = "cancel_at_period_end"]_vars
  <2>1. CASE db' = db BY <2>1
  <2>2. ASSUME NEW r \in Sessions, CommitUnique(r)
        PROVE  \A i \in Installations \ overtaken :
                 db[Status(i)] = "cancel_at_period_end" => db'[Status(i)] = "cancel_at_period_end"
    BY <1>1, <2>2, CommitInstallation DEF CommitUnique
  <2> QED BY <1>1, <2>1, <2>2, RowSteps
<1> QED BY <1>1, InvHolds, PTL DEF Spec, CancelStays

-----------------------------------------------------------------------------
(* The outbox implements Delivery.                                         *)

\* What a commit makes of the phase of an event.
LEMMA CommitPhase ==
    ASSUME Inv, NEW r \in Sessions, NEW e \in Events, CommitUnique(r)
    PROVE  \/ Phase(e)' = Phase(e)
           \/ /\ Phase(e) = "none" /\ r \in Req /\ ~Untouched(r, e)
              /\ Phase(e)' = "pending" \/ (e \notin Secrets /\ Phase(e)' = "delivered")
           \/ /\ Phase(e) = "pending" /\ ~Untouched(r, e)
              /\ \/ Phase(e)' = "delivered" /\ (e \in Secrets => e \in sent)
                 \/ Phase(e)' = "lost" /\ e \in Secrets /\ e \in expired
<1>1. Commit(r) /\ InstanceUnique(r) /\ sent' = sent BY DEF CommitUnique
<1>2. \A c \in Columns : db'[c] = IF c \in DOMAIN writes[r] THEN writes[r][c] ELSE db[c]
  BY <1>1, CommitWrites DEF Inv, Typed, Sessions
<1>3. ASSUME db[Event(e)] = "none", r \notin Req PROVE Untouched(r, e)
  BY <1>3 DEF Inv, RowsApart, Sessions
<1>4. CASE e \in Installations
  <2>1. e \notin Secrets /\ InstallationSound(e) /\ InstallationSound(e)'
    BY <1>1, <1>4, CommitInstallation, EventKeys DEF Inv
  <2>2. /\ EventLater(e) \/ (db[Event(e)] = "none" /\ ~Untouched(r, e))
        /\ Untouched(r, e) => db'[Event(e)] = db[Event(e)]
    BY <1>1, <1>4, CommitInstallation
  <2> QED BY <1>3, <2>1, <2>2 DEF Phase, InstallationSound, EventLater
<1>5. CASE e \in Secrets
  <2>1. SecretSound(e) /\ SecretPending(r, e) BY <1>5 DEF Inv
  <2>2. /\ Event(e) \in Columns /\ Plain(e) \in Columns /\ Event(e) # Plain(e)
        /\ Event(e) # Retries(e) /\ Plain(e) # Retries(e)
    BY <1>5, ColumnsApart
  <2>3. CASE Untouched(r, e)
    BY <1>1, <1>2, <2>2, <2>3 DEF Untouched, Only, ColumnsOf, Phase
  <2>4. CASE AsksMail(r, e)
    BY <1>1, <1>2, <1>3, <1>5, <2>1, <2>2, <2>4 DEF AsksMail, Untouched, Only, ColumnsOf, Phase, SecretSound
  <2>5. CASE HasMailed(r, e)
    BY <1>1, <1>2, <1>5, <2>1, <2>2, <2>5 DEF HasMailed, Untouched, Only, ColumnsOf, Phase, SecretSound
  <2>6. CASE FindsExpired(r, e)
    BY <1>1, <1>2, <1>5, <2>1, <2>2, <2>6 DEF FindsExpired, Untouched, Only, ColumnsOf, Phase, SecretSound
  <2>7. CASE FindsWiped(r, e)
    BY <1>1, <1>2, <1>5, <2>1, <2>2, <2>7 DEF FindsWiped, Untouched, Only, ColumnsOf, Phase, SecretSound
  <2> QED BY <2>1, <2>3, <2>4, <2>5, <2>6, <2>7 DEF SecretPending
<1> QED BY <1>4, <1>5, EventKeys

\* A commit records one event or settles those that its session has handled.
LEMMA CommitDelivers ==
    ASSUME Inv, NEW r \in Sessions, CommitUnique(r)
    PROVE  Outbox!Next
<1>1. sent' = sent /\ expired' = expired BY DEF CommitUnique
<1>2. CASE \E e \in Events : Phase(e) = "none" /\ Phase(e)' # Phase(e)
  <2> PICK e \in Events : Phase(e) = "none" /\ Phase(e)' # Phase(e) BY <1>2
  <2>1. /\ r \in Req /\ ~Untouched(r, e)
        /\ Phase(e)' = "pending" \/ (e \notin Secrets /\ Phase(e)' = "delivered")
    BY CommitPhase
  <2>2. ASSUME NEW d \in Events, d # e PROVE Phase(d)' = Phase(d)
    BY <2>1, <2>2, CommitPhase DEF Inv, RowsApart
  <2>3. [d \in Events |-> Phase(d)]' = [[d \in Events |-> Phase(d)] EXCEPT ![e] = Phase(e)']
    BY <2>2
  <2> QED BY <1>1, <2>1, <2>3 DEF Outbox!Next, Outbox!Record, Outbox!RecordDone
<1>3. CASE \A e \in Events : Phase(e) = "none" => Phase(e)' = Phase(e)
  <2> DEFINE done == {e \in Events : Phase(e) = "pending" /\ Phase(e)' = "delivered"}
             lost == {e \in Events : Phase(e) = "pending" /\ Phase(e)' = "lost"}
  <2>1. ASSUME NEW e \in Events
        PROVE  Phase(e)' = IF e \in done THEN "delivered" ELSE IF e \in lost THEN "lost" ELSE Phase(e)
    BY <1>3, CommitPhase
  <2>2. \A e \in done \cup lost : Phase(e) = "pending" OBVIOUS
  <2>3. done \cap Secrets \subseteq sent BY CommitPhase
  <2>4. lost \subseteq expired \cap Secrets BY CommitPhase
  <2>5. done \cap lost = {} OBVIOUS
  <2>6. Outbox!Settle(done, lost)
    BY <2>1, <2>2, <2>3, <2>4, <2>5 DEF Outbox!Settle
  <2>7. done \in SUBSET Events /\ lost \in SUBSET Events OBVIOUS
  <2> HIDE DEF done, lost
  <2> QED BY <1>1, <2>6, <2>7 DEF Outbox!Next
<1> QED BY <1>2, <1>3

\* The outbox as OutboxProcessor and its handlers keep it settles every event
\* once and for good: it implements Delivery, in which a message is delivered
\* only when it was given to the sink, is lost only when it is late, and no
\* event dies.
THEOREM ImplementsDelivery == Spec => Delivers
<1>1. Init => Outbox!Init
  <2> SUFFICES ASSUME Init PROVE Outbox!Init OBVIOUS
  <2>1. ASSUME NEW e \in Events PROVE Phase(e) = "none"
    BY ColumnsApart DEF Init, Phase
  <2> QED BY <2>1 DEF Outbox!Init, Init
<1>2. ASSUME Inv, [Next]_vars PROVE [Outbox!Next]_(Outbox!vars)
  <2>1. ASSUME db' = db, sent' = sent, expired' = expired PROVE UNCHANGED Outbox!vars
    BY <2>1 DEF Outbox!vars, Phase
  <2>2. CASE UNCHANGED vars BY <2>1, <2>2 DEF vars
  <2>3. ASSUME NEW r \in Req,
               \/ \E i \in Installations : Install(r, i)
               \/ \E s \in Secrets : MailSecret(r, s)
               \/ \E l \in Lines : PlaceOrder(r, l)
               \/ CancelSubscription(r)
               \/ CancelLine(r)
        PROVE  UNCHANGED Outbox!vars
    BY <2>1, <2>3 DEF Install, MailSecret, PlaceOrder, CancelSubscription, CancelLine, Request
  <2>4. ASSUME NEW w \in Workers,
               \/ ProcessPending(w)
               \/ \E i \in Installations : LoadInstallation(w, i) \/ HandleProvision(w, i)
        PROVE  UNCHANGED Outbox!vars
    BY <2>1, <2>4 DEF ProcessPending, LoadInstallation, HandleProvision, Handled
  <2>5. ASSUME NEW w \in Workers, NEW s \in Secrets, DeliverSecret(w, s)
        PROVE  [Outbox!Next]_(Outbox!vars)
    <3>1. db' = db /\ expired' = expired BY <2>5 DEF DeliverSecret, Handled
    <3>2. CASE sent' = sent BY <2>1, <3>1, <3>2
    <3>3. CASE sent' # sent
      <4>1. db[Plain(s)] = "plain" /\ sent' = sent \cup {s} BY <2>5, <3>3 DEF DeliverSecret
      <4>2. \A e \in Events : Phase(e)' = Phase(e) BY <3>1, <4>1 DEF Phase
      <4>3. s \in Events /\ Phase(s) # "lost"
        BY <4>1, EventKeys, <1>2 DEF Phase, Inv, SecretSound
      <4> QED BY <3>1, <4>1, <4>2, <4>3 DEF Outbox!Next
    <3> QED BY <3>2, <3>3
  <2>6. ASSUME NEW s \in Secrets, Expire(s) PROVE [Outbox!Next]_(Outbox!vars)
    <3>1. db' = db /\ sent' = sent /\ expired' = expired \cup {s} BY <2>6 DEF Expire
    <3>2. \A e \in Events : Phase(e)' = Phase(e) BY <3>1 DEF Phase
    <3> QED BY <3>1, <3>2 DEF Outbox!Next
  <2>7. ASSUME NEW r \in Sessions, CommitUnique(r) PROVE Outbox!Next
    BY <1>2, <2>7, CommitDelivers
  <2>8. ASSUME NEW r \in Sessions, GiveUp(r) PROVE UNCHANGED Outbox!vars
    BY <2>1, <2>8 DEF GiveUp
  <2> QED BY <1>2, <2>2, <2>3, <2>4, <2>5, <2>6, <2>7, <2>8 DEF Next, Sessions
<1> QED BY <1>1, <1>2, InvHolds, PTL DEF Spec, Delivers, Outbox!Spec

-----------------------------------------------------------------------------
(* Requests that do not overlap.                                           *)

\* A step that makes no installation wanted.
LEMMA WantedLess ==
    ASSUME SerialInv, overlapped' = overlapped, overtaken \subseteq overtaken',
           \A i \in Installations \ overtaken : Wanted(i)' => Wanted(i)
    PROVE  SerialInv'
BY DEF SerialInv

LEMMA RequestSerial ==
    ASSUME Inv, SerialInv, NEW r \in Req, NEW new, Request(r, new),
           \A i \in Installations : db[Status(i)] = "none" => new[Status(i)] = "none"
    PROVE  SerialInv'
<1>1. /\ db' = db
      /\ DOMAIN writes'[r] = {c \in Columns : new[c] # db[c]}
      /\ \A q \in Sessions : q # r => writes'[q] = writes[q]
  BY DEF Inv, Typed, Sessions, Request, Changed
<1>2. \A i \in Installations : Wanted(i)' => Wanted(i)
  BY <1>1 DEF Wanted
<1>3. /\ overlapped \in BOOLEAN /\ (~overlapped' => ~overlapped)
      /\ overtaken' = overtaken
  BY DEF Request, Inv, Typed
<1> QED BY <1>2, <1>3 DEF SerialInv

LEMMA InstallSerial ==
    ASSUME Inv, NEW r \in Req, NEW i \in Installations, Install(r, i)
    PROVE  SerialInv'
<1>1. r \in Sessions /\ Request(r, Requested(i)) /\ \A j \in Installations : db[Status(j)] \notin {"provisioning", "active"}
  BY DEF Install, Installed, Sessions
<1>2. /\ db' = db
      /\ DOMAIN writes'[r] = {c \in Columns : Requested(i)[c] # db[c]}
      /\ \A q \in Sessions : q # r => writes'[q] = writes[q]
  BY <1>1 DEF Inv, Typed, Sessions, Request, Changed
<1>3. ~overlapped' => \A q \in Req : DOMAIN writes[q] = {}
  BY <1>1 DEF Request, Nothing, Sessions, Inv, Typed
<1>5. ASSUME NEW w \in Workers, NEW j \in Installations, db[Status(j)] = "none"
      PROVE  Status(j) \notin DOMAIN writes[w]
  <2>1. j \in Events /\ db[Event(j)] = "none" BY <1>5, EventKeys DEF Inv, InstallationSound
  <2> QED BY <2>1 DEF Inv, RowsApart, Untouched, Only, ColumnsOf
<1>4. ASSUME NEW j \in Installations, j # i PROVE Status(j) \notin DOMAIN writes'[r]
  BY <1>2, <1>4, ColumnsApart DEF Requested, Inv, Typed
<1>6. ASSUME ~overlapped', NEW j \in Installations, Wanted(j)' PROVE j = i
  <2>1. db[Status(j)] = "none" BY <1>1, <1>2, <1>6 DEF Wanted
  <2>2. PICK q \in Sessions : Status(j) \in DOMAIN writes'[q] BY <1>1, <1>2, <1>6 DEF Wanted
  <2>3. q = r BY <1>2, <1>3, <1>5, <1>6, <2>1, <2>2 DEF Sessions
  <2> QED BY <1>4, <2>2, <2>3
<1> QED BY <1>6 DEF SerialInv

LEMMA CommitSerial ==
    ASSUME Inv, SerialInv, NEW r \in Sessions, CommitUnique(r)
    PROVE  SerialInv'
<1>1. Commit(r) /\ InstanceUnique(r) BY DEF CommitUnique
<1>2. /\ overlapped' = overlapped
      /\ \A c \in Columns : db'[c] = IF c \in DOMAIN writes[r] THEN writes[r][c] ELSE db[c]
      /\ DOMAIN writes'[r] = {}
      /\ \A q \in Sessions : q # r => writes'[q] = writes[q]
  BY <1>1, CommitWrites DEF Inv, Typed, Sessions
<1>3. ASSUME NEW i \in Installations \ overtaken, Wanted(i)' PROVE Wanted(i)
  <2>1. Status(i) \in Columns /\ InstallationSound(i) BY ColumnsApart DEF Inv
  <2>2. db[Status(i)] # "cancel_at_period_end"
    BY <1>1, <1>3, CommitInstallation DEF Wanted
  <2>3. db'[Status(i)] = "none" => db[Status(i)] = "none" /\ \E q \in Sessions : Status(i) \in DOMAIN writes[q]
    BY <1>1, <1>2, <1>3, <2>1, CommitInstallation DEF Wanted, InstallationSound, EventLater
  <2> QED BY <1>2, <1>3, <2>1, <2>2, <2>3 DEF Wanted, InstallationSound
<1>4. overtaken \subseteq overtaken' BY DEF CommitUnique
<1> QED BY <1>2, <1>3, <1>4, WantedLess

LEMMA NextSerial == Inv /\ SerialInv /\ [Next]_vars => SerialInv'
<1> SUFFICES ASSUME Inv, SerialInv, [Next]_vars PROVE SerialInv' OBVIOUS
<1>1. ASSUME db' = db, overlapped' = overlapped, overtaken' = overtaken,
             \A q \in Sessions : \A i \in Installations :
                Status(i) \in DOMAIN writes'[q] => Status(i) \in DOMAIN writes[q] \/ db[Status(i)] # "none"
      PROVE  SerialInv'
  BY <1>1, WantedLess DEF Wanted
<1>2. CASE UNCHANGED vars BY <1>1, <1>2 DEF vars
<1>3. ASSUME NEW r \in Req,
             \/ \E s \in Secrets : MailSecret(r, s)
             \/ \E l \in Lines : PlaceOrder(r, l)
             \/ CancelSubscription(r)
             \/ CancelLine(r)
      PROVE  SerialInv'
  <2>1. CASE \E s \in Secrets : MailSecret(r, s)
    <3> PICK s \in Secrets : MailSecret(r, s) BY <2>1
    <3>1. \A i \in Installations : [db EXCEPT ![Plain(s)] = "plain", ![Event(s)] = "pending"][Status(i)] = db[Status(i)]
      BY ColumnsApart DEF Inv, Typed
    <3> QED BY <3>1, RequestSerial DEF MailSecret
  <2>2. ASSUME NEW l \in Lines, NEW v, Request(r, [db EXCEPT ![Status(l)] = v]) PROVE SerialInv'
    <3> DEFINE new == [db EXCEPT ![Status(l)] = v]
    <3>1. \A i \in Installations : new[Status(i)] = db[Status(i)]
      BY ColumnsApart, EventKeys DEF Inv, Typed
    <3>2. Request(r, new) BY <2>2
    <3> HIDE DEF new
    <3> QED BY <3>1, <3>2, RequestSerial
  <2>3. CASE \E l \in Lines : PlaceOrder(r, l)
    BY <2>2, <2>3 DEF PlaceOrder
  <2>4. CASE CancelLine(r)
    <3>1. (CHOOSE k \in ActiveLines : TRUE) \in ActiveLines BY <2>4, OneElement DEF CancelLine
    <3>2. PICK l \in ActiveLines : Request(r, [db EXCEPT ![Status(l)] = "cancel_at_period_end"])
      BY <2>4, <3>1 DEF CancelLine
    <3> QED BY <2>2, <3>2 DEF ActiveLines
  <2>5. CASE CancelSubscription(r)
    <3>1. (CHOOSE k \in ActiveInstallations : TRUE) \in ActiveInstallations
      BY <2>5, OneElement DEF CancelSubscription
    <3>2. PICK k \in ActiveInstallations : Request(r, [db EXCEPT ![Status(k)] = "cancel_at_period_end"])
      BY <2>5, <3>1 DEF CancelSubscription
    <3>3. k \in Installations /\ db[Status(k)] = "active" BY DEF ActiveInstallations
    <3>4. \A i \in Installations : db[Status(i)] = "none" => [db EXCEPT ![Status(k)] = "cancel_at_period_end"][Status(i)] = "none"
      BY <3>3, ColumnsApart DEF Inv, Typed
    <3> QED BY <3>2, <3>4, RequestSerial
  <2> QED BY <1>3, <2>1, <2>3, <2>4, <2>5
<1>4. ASSUME NEW r \in Req, NEW i \in Installations, Install(r, i) PROVE SerialInv'
  BY <1>4, InstallSerial
<1>5. ASSUME NEW w \in Workers, ProcessPending(w) PROVE SerialInv'
  BY <1>1, <1>5 DEF ProcessPending
<1>6. ASSUME NEW w \in Workers, NEW e \in Events, NEW columns, NEW rows, Handled(w, e, columns, rows),
             columns \subseteq ColumnsOf(e),
             e \in Installations \/ Status(e) \notin columns
      PROVE  SerialInv'
  <2>1. /\ db' = db /\ overlapped' = overlapped /\ overtaken' = overtaken /\ e \in DOMAIN batch[w]
        /\ \A r \in Sessions : r # w => writes'[r] = writes[r]
        /\ \A c \in ColumnsOf(e) : c \in DOMAIN writes'[w] <=> c \in columns
        /\ \A c : c \notin ColumnsOf(e) => (c \in DOMAIN writes'[w] <=> c \in DOMAIN writes[w])
    BY <1>6, HandledWrites
  <2>2. e \in Installations => db[Status(e)] # "none"
    BY <2>1 DEF Inv, BatchSound, InstallationSound
  <2>3. ASSUME NEW i \in Installations, i # e PROVE Status(i) \notin ColumnsOf(e)
    BY <2>3, RowsDiffer DEF ColumnsOf
  <2> QED BY <1>1, <1>6, <2>1, <2>2, <2>3
<1>7. ASSUME NEW w \in Workers, NEW i \in Installations, LoadInstallation(w, i) \/ HandleProvision(w, i)
      PROVE  SerialInv'
  <2>1. CASE /\ LoadInstallation(w, i)
             /\ UNCHANGED <<db, writes, overlapped, batch, mode, expired, overtaken>>
    BY <1>1, <2>1
  <2>2. ASSUME NEW columns, NEW rows, Handled(w, i, columns, rows), columns \subseteq ColumnsOf(i)
        PROVE  SerialInv'
    BY <1>6, <2>2, EventKeys
  <2>3. /\ FailedColumns(w, i) \subseteq ColumnsOf(i) /\ {Event(i)} \subseteq ColumnsOf(i)
        /\ {Event(i), Status(i)} \cup (IF db[Instance(i)] = "none" THEN {Instance(i)} ELSE {}) \subseteq ColumnsOf(i)
    BY DEF FailedColumns, ColumnsOf
  <2>4. CASE LoadInstallation(w, i) BY <2>1, <2>2, <2>3, <2>4 DEF LoadInstallation
  <2>5. CASE HandleProvision(w, i) BY <2>2, <2>3, <2>5 DEF HandleProvision
  <2> QED BY <1>7, <2>4, <2>5
<1>8. ASSUME NEW w \in Workers, NEW s \in Secrets, DeliverSecret(w, s) PROVE SerialInv'
  <2>1. PICK columns, rows : Handled(w, s, columns, rows) /\ columns \subseteq ColumnsOf(s) /\ Status(s) \notin columns
    <3>1. /\ FailedColumns(w, s) \cup {Plain(s)} \subseteq ColumnsOf(s) \ {Status(s)}
          /\ {Event(s)} \subseteq ColumnsOf(s) \ {Status(s)}
          /\ {Event(s), Plain(s)} \subseteq ColumnsOf(s) \ {Status(s)}
      BY ColumnsApart DEF FailedColumns, ColumnsOf
    <3> QED BY <1>8, <3>1 DEF DeliverSecret
  <2> QED BY <1>6, <2>1, EventKeys
<1>9. ASSUME NEW r \in Sessions, GiveUp(r) PROVE SerialInv'
  <2>1. \A q \in Sessions : writes'[q] = writes[q] \/ DOMAIN writes'[q] = {}
    BY <1>9 DEF GiveUp, Nothing, Inv, Typed
  <2> QED BY <1>1, <1>9, <2>1 DEF GiveUp
<1>10. ASSUME NEW s \in Secrets, Expire(s) PROVE SerialInv'
  BY <1>1, <1>10 DEF Expire
<1>11. ASSUME NEW r \in Sessions, CommitUnique(r) PROVE SerialInv'
  BY <1>11, CommitSerial
<1> QED BY <1>2, <1>3, <1>4, <1>5, <1>7, <1>8, <1>9, <1>10, <1>11 DEF Next, Sessions

\* When customers' requests do not overlap, CatalogService.install leaves the
\* offering installed once, whatever processors do meanwhile, but for
\* installations that were provisioned while another processor had them loaded.
THEOREM InstalledOnce == Spec => []OneInstallation
<1>1. Init => SerialInv
  <2> SUFFICES ASSUME Init PROVE SerialInv OBVIOUS
  <2>1. \A i \in Installations : db[Status(i)] = "none" BY ColumnsApart DEF Init
  <2>2. \A r \in Sessions : DOMAIN writes[r] = {} BY DEF Init, Nothing, Sessions
  <2> QED BY <2>1, <2>2 DEF SerialInv, Wanted
<1>2. ASSUME SerialInv PROVE OneInstallation
  <2> SUFFICES ASSUME ~overlapped PROVE Cardinality(Installed \ overtaken) <= 1 BY DEF OneInstallation
  <2> DEFINE S == Installed \ overtaken
  <2>1. \A i, j \in S : i = j BY <1>2 DEF SerialInv, Wanted, Installed
  <2>2. CASE S = {} BY <2>2, FS_EmptySet
  <2>3. ASSUME NEW i \in S PROVE Cardinality(S) <= 1
    <3>1. S = {i} BY <2>1, <2>3
    <3> QED BY <3>1, FS_Singleton
  <2> QED BY <2>2, <2>3
<1> QED BY <1>1, <1>2, InvHolds, NextSerial, PTL DEF Spec

-----------------------------------------------------------------------------
(* OrgUpgrade: the pipeline that turns an individual's organization into a *)
(* company's, inline or by a Temporal workflow.                            *)

CONSTANTS Orgs, Slugs, Requests, MAX_ATTEMPTS
VARIABLES realms, start, workflow, attempts

Up     == INSTANCE OrgUpgrade
UpRows == INSTANCE UnitOfWork WITH Columns <- Up!Columns, Req <- Up!Sessions

\* OrgUpgrade's own operators of UnitOfWork are these.
LEMMA UpSame ==
    /\ Up!Nothing = UpRows!Nothing
    /\ \A c : Up!Fresh(c) <=> UpRows!Fresh(c)
    /\ \A r, new : Up!Begin(r, new) <=> UpRows!Begin(r, new)
    /\ \A r : Up!Commit(r) <=> UpRows!Commit(r)
    /\ \A r : Up!Abort(r) <=> UpRows!Abort(r)
BY DEF Up!Nothing, UpRows!Nothing, Up!Fresh, UpRows!Fresh, Up!Begin, UpRows!Begin, Up!Changed, UpRows!Changed,
       Up!Commit, UpRows!Commit, Up!After, UpRows!After, Up!Abort, UpRows!Abort

LEMMA UpColumnsIn ==
    /\ \A o \in Orgs : Up!Slug(o) \in Up!Columns /\ Up!OrgType(o) \in Up!Columns
    /\ \A o \in Orgs, s \in Slugs : Up!Tenant(o, s) \in Up!Columns
    /\ \A s \in Slugs : Up!Realm(s) \in Up!Columns
    /\ \A q \in Requests : Up!Status(q) \in Up!Columns /\ Up!OrgOf(q) \in Up!Columns
          /\ Up!SlugOf(q) \in Up!Columns
BY DEF Up!Columns

LEMMA UpNamesApart ==
    /\ \A x, y : /\ Up!Slug(x) # Up!OrgType(y) /\ Up!Slug(x) # Up!Realm(y) /\ Up!Slug(x) # Up!Status(y)
                 /\ Up!Slug(x) # Up!OrgOf(y) /\ Up!Slug(x) # Up!SlugOf(y)
                 /\ Up!OrgType(x) # Up!Realm(y) /\ Up!OrgType(x) # Up!Status(y) /\ Up!OrgType(x) # Up!OrgOf(y)
                 /\ Up!OrgType(x) # Up!SlugOf(y)
                 /\ Up!Realm(x) # Up!Status(y) /\ Up!Realm(x) # Up!OrgOf(y) /\ Up!Realm(x) # Up!SlugOf(y)
                 /\ Up!Status(x) # Up!OrgOf(y) /\ Up!Status(x) # Up!SlugOf(y) /\ Up!OrgOf(x) # Up!SlugOf(y)
    /\ \A x, y, z : /\ Up!Tenant(x, y) # Up!Slug(z) /\ Up!Tenant(x, y) # Up!OrgType(z)
                    /\ Up!Tenant(x, y) # Up!Realm(z)
                    /\ Up!Tenant(x, y) # Up!Status(z) /\ Up!Tenant(x, y) # Up!OrgOf(z)
                    /\ Up!Tenant(x, y) # Up!SlugOf(z)
    /\ \A x, y : x # y => /\ Up!Slug(x) # Up!Slug(y) /\ Up!OrgType(x) # Up!OrgType(y)
                          /\ Up!Realm(x) # Up!Realm(y)
                          /\ Up!Status(x) # Up!Status(y) /\ Up!OrgOf(x) # Up!OrgOf(y)
                          /\ Up!SlugOf(x) # Up!SlugOf(y)
BY DEF Up!Slug, Up!OrgType, Up!Tenant, Up!Realm, Up!Status, Up!OrgOf, Up!SlugOf

LEMMA UpTenantsApart == \A x, y, u, v : Up!Tenant(x, y) = Up!Tenant(u, v) => x = u /\ y = v
BY DEF Up!Tenant

UpAttempts == 1 .. MAX_ATTEMPTS

\* The assumptions of OrgUpgrade.
UpConstantsFit == MAX_ATTEMPTS \in Nat \ {0} /\ "none" \notin Orgs \cup Slugs

\* w has values that a session of request q may be going to write.
UpFits(q, w) ==
    /\ \A p \in Requests :
          /\ Up!Status(p) \in DOMAIN w => p = q /\ w[Up!Status(p)] \in {"processing", "completed"}
          /\ Up!OrgOf(p) \in DOMAIN w => p = q
          /\ Up!SlugOf(p) \in DOMAIN w => p = q
    /\ \A o \in Orgs : Up!OrgType(o) \in DOMAIN w => w[Up!OrgType(o)] = "organization"
    /\ \A o \in Orgs, s \in Slugs : Up!Tenant(o, s) \in DOMAIN w => w[Up!Tenant(o, s)] = "active"
    /\ \A s \in Slugs : Up!Realm(s) \in DOMAIN w => w[Up!Realm(s)] \in Orgs

\* w completes request q for organization o and slug s: what it does not write
\* itself is there, and stays.
UpCompletes(q, o, s, w) ==
    /\ o \in Orgs /\ s \in Slugs /\ s \in realms
    /\ Up!Status(q) \in DOMAIN w /\ w[Up!Status(q)] = "completed"
    /\ Up!OrgType(o) \in DOMAIN w \/ db[Up!OrgType(o)] = "organization"
    /\ Up!Tenant(o, s) \in DOMAIN w \/ db[Up!Tenant(o, s)] = "active"
    /\ Up!Realm(s) \in DOMAIN w \/ db[Up!Realm(s)] # "none"
    /\ \A p \in Orgs, z \in Slugs : Up!Tenant(p, z) \in DOMAIN w => p = o /\ z = s

\* The request that submits q, which is not stored yet.
UpSubmitting(q, w) ==
    /\ db[Up!Status(q)] = "none"
    /\ Up!Status(q) \in DOMAIN w /\ Up!OrgOf(q) \in DOMAIN w /\ Up!SlugOf(q) \in DOMAIN w
    /\ w[Up!OrgOf(q)] \in Orgs /\ w[Up!SlugOf(q)] \in Slugs
    /\ mode = "temporal" => w[Up!Status(q)] = "processing" /\ \A o \in Orgs, s \in Slugs :
          Up!Tenant(o, s) \notin DOMAIN w
    /\ mode = "inline" => UpCompletes(q, w[Up!OrgOf(q)], w[Up!SlugOf(q)], w)

\* An attempt of its workflow.
UpRunning(q, w) ==
    /\ workflow[q] # "none"
    /\ Up!OrgOf(q) \notin DOMAIN w /\ Up!SlugOf(q) \notin DOMAIN w
    /\ UpCompletes(q, db[Up!OrgOf(q)], db[Up!SlugOf(q)], w)

\* What the sessions in flight, of the API and of each attempt, are going to write.
UpHeldSubmit(q) ==
    writes[<<q, 0>>] # UpRows!Nothing => UpFits(q, writes[<<q, 0>>]) /\ UpSubmitting(q, writes[<<q, 0>>])

UpHeldRun(q, k) ==
    writes[<<q, k>>] # UpRows!Nothing => UpFits(q, writes[<<q, k>>]) /\ UpRunning(q, writes[<<q, k>>])

\* A request is stored with its organization and slug before a workflow is
\* started for it.
UpStored(q) ==
    /\ db[Up!Status(q)] = "none" => /\ db[Up!OrgOf(q)] = "none" /\ db[Up!SlugOf(q)] = "none"
                                    /\ start[q] = "none" /\ workflow[q] = "none"
    /\ db[Up!Status(q)] # "none" => db[Up!OrgOf(q)] \in Orgs /\ db[Up!SlugOf(q)] \in Slugs
    /\ start[q] # "none" /\ workflow[q] = "none" => db[Up!Status(q)] # "completed"

\* What a completed request has made.
UpDone(q) ==
    db[Up!Status(q)] = "completed" =>
       /\ db[Up!OrgType(db[Up!OrgOf(q)])] = "organization"
       /\ db[Up!Tenant(db[Up!OrgOf(q)], db[Up!SlugOf(q)])] = "active"
       /\ db[Up!Realm(db[Up!SlugOf(q)])] # "none" /\ db[Up!SlugOf(q)] \in realms

UpControlTyped ==
    /\ overlapped \in BOOLEAN /\ mode \in {"temporal", "inline"}
    /\ realms \subseteq Slugs
    /\ start \in [Requests -> {"none", "calling", "ended", "failed"}]
    /\ attempts \in [Requests -> 0 .. MAX_ATTEMPTS]
    /\ workflow \in [Requests -> {"none", "started", "closed"}]
    /\ DOMAIN writes = Up!Sessions

UpRowsTyped ==
    /\ DOMAIN db = Up!Columns
    /\ \A q \in Requests : db[Up!Status(q)] \in {"none", "processing", "completed", "failed"}
    /\ \A o \in Orgs : db[Up!OrgType(o)] \in {"individual", "organization"}
    /\ \A o \in Orgs, s \in Slugs : db[Up!Tenant(o, s)] \in {"none", "active"}
    /\ \A s \in Slugs : db[Up!Realm(s)] \in Orgs \cup {"none"}

\* Whatever overlaps, is repeated or stopped.
UpInv ==
    /\ UpConstantsFit
    /\ UpControlTyped
    /\ UpRowsTyped
    /\ \A q \in Requests : UpDone(q) /\ UpStored(q) /\ UpHeldSubmit(q)
    /\ \A q \in Requests : \A k \in UpAttempts : UpHeldRun(q, k)

\* Request p has made its tenant, although it may say failed by now.
UpMaker(p) == db[Up!Status(p)] = "completed" \/ Up!Misreported(p)

\* While nothing overlaps, a tenant is there only when such a request has made
\* it, and an attempt in flight is that of a request not completed.
UpMade == \A o \in Orgs, s \in Slugs : db[Up!Tenant(o, s)] # "none" =>
           \E p \in Requests : UpMaker(p) /\ db[Up!OrgOf(p)] = o /\ db[Up!SlugOf(p)] = s

UpSerialInv ==
    /\ UpRows!Alone
    /\ ~overlapped =>
          /\ UpMade
          /\ \A q \in Requests : \A k \in UpAttempts : writes[<<q, k>>] # UpRows!Nothing =>
                db[Up!Status(q)] # "completed"

-----------------------------------------------------------------------------
\* What is made stays, and stored requests keep what they ask for.
UpGrows ==
    /\ realms \subseteq realms'
    /\ \A o \in Orgs : db[Up!OrgType(o)] = "organization" => db'[Up!OrgType(o)] = "organization"
    /\ \A o \in Orgs, s \in Slugs : db[Up!Tenant(o, s)] = "active" => db'[Up!Tenant(o, s)] = "active"
    /\ \A s \in Slugs : db[Up!Realm(s)] # "none" => db'[Up!Realm(s)] # "none"
    /\ \A q \in Requests : db[Up!Status(q)] # "none" =>
          db'[Up!OrgOf(q)] = db[Up!OrgOf(q)] /\ db'[Up!SlugOf(q)] = db[Up!SlugOf(q)]

\* What is pending stays true of the rows while they grow.
LEMMA UpCompletesStays ==
    ASSUME NEW q \in Requests, NEW o, NEW s, NEW w, UpGrows, UpCompletes(q, o, s, w)
    PROVE  UpCompletes(q, o, s, w)'
BY DEF UpGrows, UpCompletes

LEMMA UpSubmitStays ==
    ASSUME NEW q \in Requests, UpHeldSubmit(q), UpGrows, mode' = mode,
           \/ writes'[<<q, 0>>] = UpRows!Nothing
           \/ writes'[<<q, 0>>] = writes[<<q, 0>>]
                 /\ (writes[<<q, 0>>] # UpRows!Nothing => db'[Up!Status(q)] = "none")
    PROVE  UpHeldSubmit(q)'
<1>1. UpRows!Nothing' = UpRows!Nothing BY DEF UpRows!Nothing
<1>2. ASSUME NEW w, w = writes[<<q, 0>>], UpFits(q, w), UpSubmitting(q, w), db'[Up!Status(q)] = "none"
      PROVE  UpFits(q, w)' /\ UpSubmitting(q, w)'
  <2>1. mode = "inline" => UpCompletes(q, w[Up!OrgOf(q)], w[Up!SlugOf(q)], w)'
    BY <1>2, UpCompletesStays DEF UpSubmitting
  <2> QED BY <1>2, <2>1 DEF UpFits, UpSubmitting
<1>3. CASE writes'[<<q, 0>>] = UpRows!Nothing BY <1>1, <1>3 DEF UpHeldSubmit
<1>4. CASE writes'[<<q, 0>>] = writes[<<q, 0>>] /\ writes[<<q, 0>>] # UpRows!Nothing
  <2>1. PICK w : w = writes[<<q, 0>>] /\ w = writes'[<<q, 0>>] BY <1>4
  <2>2. UpFits(q, w) /\ UpSubmitting(q, w) /\ db'[Up!Status(q)] = "none" BY <1>4, <2>1 DEF UpHeldSubmit
  <2>3. UpFits(q, w)' /\ UpSubmitting(q, w)' BY <1>2, <2>1, <2>2
  <2> QED BY <2>1, <2>3 DEF UpHeldSubmit
<1> QED BY <1>3, <1>4

LEMMA UpRunStays ==
    ASSUME NEW q \in Requests, NEW k \in UpAttempts, UpHeldRun(q, k), UpStored(q), UpGrows,
           writes'[<<q, k>>] \in {writes[<<q, k>>], UpRows!Nothing}, workflow[q] # "none" =>
               workflow'[q] # "none"
    PROVE  UpHeldRun(q, k)'
<1>1. UpRows!Nothing' = UpRows!Nothing BY DEF UpRows!Nothing
<1>2. CASE writes'[<<q, k>>] = UpRows!Nothing BY <1>1, <1>2 DEF UpHeldRun
<1>3. CASE writes'[<<q, k>>] = writes[<<q, k>>] /\ writes[<<q, k>>] # UpRows!Nothing
  <2>1. PICK w : w = writes[<<q, k>>] /\ w = writes'[<<q, k>>] BY <1>3
  <2>2. UpFits(q, w) /\ UpRunning(q, w) BY <1>3, <2>1 DEF UpHeldRun
  <2>3. PICK o, s : o = db[Up!OrgOf(q)] /\ s = db[Up!SlugOf(q)] OBVIOUS
  <2>4. UpCompletes(q, o, s, w)' BY <2>2, <2>3, UpCompletesStays DEF UpRunning
  <2>5. db'[Up!OrgOf(q)] = o /\ db'[Up!SlugOf(q)] = s BY <2>2, <2>3 DEF UpRunning, UpStored, UpGrows
  <2>6. UpRunning(q, w)' BY <2>2, <2>4, <2>5 DEF UpRunning
  <2>7. UpFits(q, w)' BY <2>2 DEF UpFits
  <2> QED BY <2>1, <2>6, <2>7 DEF UpHeldRun
<1> QED BY <1>2, <1>3

\* A step that leaves the rows alone.
LEMMA UpRowsStay ==
    ASSUME UpInv, db' = db, realms \subseteq realms', NEW q \in Requests
    PROVE  UpGrows /\ UpRowsTyped' /\ UpDone(q)'
BY DEF UpInv, UpRowsTyped, UpGrows, UpDone

\* The sessions that a step of session <<q, k>> leaves alone.
LEMMA UpOthersStay ==
    ASSUME UpInv, UpGrows, mode' = mode, NEW q \in Requests, NEW k \in 0 .. MAX_ATTEMPTS,
           \A r \in Up!Sessions : r # <<q, k>> => writes'[r] = writes[r],
           \A p \in Requests : workflow[p] # "none" => workflow'[p] # "none",
           \A p \in Requests : db'[Up!Status(p)] = db[Up!Status(p)]
               \/ (p = q /\ (writes[<<q, 0>>] = UpRows!Nothing \/ k = 0))
    PROVE  /\ \A p \in Requests : <<p, 0>> # <<q, k>> => UpHeldSubmit(p)'
           /\ \A p \in Requests : \A j \in UpAttempts : <<p, j>> # <<q, k>> => UpHeldRun(p, j)'
<1>1. \A p \in Requests : <<p, 0>> \in Up!Sessions /\ \A j \in UpAttempts : <<p, j>> \in Up!Sessions
  BY DEF Up!Sessions, UpAttempts, UpInv, UpConstantsFit
<1>2. ASSUME NEW p \in Requests, <<p, 0>> # <<q, k>> PROVE UpHeldSubmit(p)'
  <2>1. writes'[<<p, 0>>] = writes[<<p, 0>>] BY <1>1, <1>2
  <2>2. writes[<<p, 0>>] # UpRows!Nothing => db'[Up!Status(p)] = "none"
    BY <1>2 DEF UpInv, UpHeldSubmit, UpSubmitting
  <2> QED BY <2>1, <2>2, UpSubmitStays DEF UpInv
<1>3. ASSUME NEW p \in Requests, NEW j \in UpAttempts, <<p, j>> # <<q, k>> PROVE UpHeldRun(p, j)'
  <2>1. writes'[<<p, j>>] = writes[<<p, j>>] BY <1>1, <1>3
  <2> QED BY <2>1, UpRunStays DEF UpInv
<1> QED BY <1>2, <1>3

-----------------------------------------------------------------------------
(* Sessions that begin.                                                    *)

\* What the pipeline makes of the rows, request q being stored in them.
LEMMA UpPipelineRows ==
    ASSUME NEW rows, DOMAIN rows = Up!Columns, NEW q \in Requests, NEW o \in Orgs, NEW s \in Slugs,
           rows[Up!OrgOf(q)] = o, rows[Up!SlugOf(q)] = s
    PROVE  \A c \in Up!Columns : Up!run_pipeline(rows, q)[c] =
              IF c = Up!Realm(s) THEN IF rows[c] = "none" THEN o ELSE rows[c]
              ELSE IF c = Up!Slug(o) THEN s ELSE IF c = Up!OrgType(o) THEN "organization"
              ELSE IF c = Up!Tenant(o, s) THEN "active" ELSE IF c = Up!Status(q) THEN "completed" ELSE rows[c]
BY UpNamesApart DEF Up!run_pipeline

LEMMA UpBeginKeeps ==
    ASSUME UpInv, UpSerialInv, NEW q \in Requests, NEW k \in 0 .. MAX_ATTEMPTS, NEW new,
           UpRows!Begin(<<q, k>>, new),
           mode' = mode, realms \subseteq realms', start' = start, workflow' = workflow, UpControlTyped',
           NEW w, w = [c \in UpRows!Changed(new) |-> new[c]],
           w # UpRows!Nothing => UpFits(q, w),
           k = 0 /\ w # UpRows!Nothing => UpSubmitting(q, w)',
           k # 0 /\ w # UpRows!Nothing => UpRunning(q, w)' /\ db[Up!Status(q)] # "completed"
    PROVE  UpInv' /\ UpSerialInv'
<1>1. <<q, k>> \in Up!Sessions BY DEF Up!Sessions
<1>2. db' = db /\ writes' = [writes EXCEPT ![<<q, k>>] = w] BY DEF UpRows!Begin
<1>3. writes'[<<q, k>>] = w /\ \A r \in Up!Sessions : r # <<q, k>> => writes'[r] = writes[r]
  BY <1>1, <1>2 DEF UpInv, UpControlTyped
<1>4. UpGrows /\ UpRowsTyped' /\ \A p \in Requests : UpDone(p)' BY <1>2, UpRowsStay
<1>5. \A p \in Requests : UpStored(p)' BY <1>2 DEF UpInv, UpStored
<1>6. /\ \A p \in Requests : <<p, 0>> # <<q, k>> => UpHeldSubmit(p)'
      /\ \A p \in Requests : \A j \in UpAttempts : <<p, j>> # <<q, k>> => UpHeldRun(p, j)'
  BY <1>2, <1>3, <1>4, UpOthersStay
<1>7. UpRows!Nothing' = UpRows!Nothing /\ (UpFits(q, w) => UpFits(q, w)') BY DEF UpRows!Nothing, UpFits
<1>8. k = 0 => UpHeldSubmit(q)' BY <1>3, <1>7 DEF UpHeldSubmit
<1>9. k \in UpAttempts => UpHeldRun(q, k)' BY <1>3, <1>7 DEF UpHeldRun, UpAttempts, UpInv, UpConstantsFit
<1>10. \A p \in Requests : UpHeldSubmit(p)' BY <1>6, <1>8
<1>11. \A p \in Requests : \A j \in UpAttempts : UpHeldRun(p, j)' BY <1>6, <1>9
<1>12. UpInv' BY <1>4, <1>5, <1>10, <1>11 DEF UpInv, UpConstantsFit
<1>13. UpRows!Alone' /\ (~overlapped' => ~overlapped) BY <1>1, UpRows!BeginAlone DEF UpInv, UpControlTyped
<1>14. UpMade => UpMade' BY <1>2 DEF UpMade, UpMaker, Up!Misreported
<1>15. ASSUME ~overlapped', NEW p \in Requests, NEW j \in UpAttempts, writes'[<<p, j>>] # UpRows!Nothing
       PROVE  db'[Up!Status(p)] # "completed"
  <2>1. CASE <<p, j>> = <<q, k>>
    <3>1. p = q /\ k # 0 BY <2>1 DEF UpAttempts
    <3> QED BY <1>2, <1>3, <1>15, <2>1, <3>1
  <2>2. CASE <<p, j>> # <<q, k>>
    <3>1. <<p, j>> \in Up!Sessions BY DEF Up!Sessions, UpAttempts, UpInv, UpConstantsFit
    <3> QED BY <1>2, <1>3, <1>13, <1>15, <2>2, <3>1 DEF UpSerialInv
  <2> QED BY <2>1, <2>2
<1>16. UpSerialInv' BY <1>7, <1>13, <1>14, <1>15 DEF UpSerialInv
<1> QED BY <1>12, <1>16

\* A request that is stored for the first time.
LEMMA UpSubmittedRows ==
    ASSUME UpInv, NEW q \in Requests, NEW o \in Orgs, NEW s \in Slugs, UpRows!Fresh(Up!Status(q))
    PROVE  /\ DOMAIN Up!Submitted(q, o, s) = Up!Columns
           /\ \A c \in Up!Columns : Up!Submitted(q, o, s)[c] =
                 IF c = Up!Status(q) THEN "processing" ELSE IF c = Up!OrgOf(q) THEN o ELSE IF c = Up!SlugOf(q)
                     THEN s ELSE db[c]
           /\ db[Up!Status(q)] = "none" /\ db[Up!OrgOf(q)] # o /\ db[Up!SlugOf(q)] # s
<1>1. db[Up!Status(q)] = "none" /\ db[Up!OrgOf(q)] = "none" /\ db[Up!SlugOf(q)] = "none"
  BY DEF UpRows!Fresh, UpInv, UpStored
<1>2. o # "none" /\ s # "none" BY DEF UpInv, UpConstantsFit
<1>3. DOMAIN db = Up!Columns BY DEF UpInv, UpRowsTyped
<1> QED BY <1>1, <1>2, <1>3, UpNamesApart DEF Up!Submitted

LEMMA UpSubmitKeeps ==
    ASSUME UpInv, UpSerialInv, NEW q \in Requests, NEW o \in Orgs, NEW s \in Slugs, Up!Submit(q, o, s)
    PROVE  UpInv' /\ UpSerialInv'
<1> DEFINE new == Up!Submitted(q, o, s)
<1>1. /\ mode = "temporal" /\ UpRows!Begin(<<q, 0>>, new) /\ UpRows!Fresh(Up!Status(q)) /\ mode' = mode
      /\ realms' = realms
      /\ start' = start /\ workflow' = workflow /\ attempts' = attempts
  BY UpSame DEF Up!Submit, Up!temporal
<1>2. /\ \A c \in Up!Columns : new[c] =
           IF c = Up!Status(q) THEN "processing" ELSE IF c = Up!OrgOf(q) THEN o ELSE IF c = Up!SlugOf(q)
               THEN s ELSE db[c]
      /\ db[Up!Status(q)] = "none" /\ db[Up!OrgOf(q)] # o /\ db[Up!SlugOf(q)] # s
  BY <1>1, UpSubmittedRows
<1> HIDE DEF new
<1>3. PICK w : w = [c \in UpRows!Changed(new) |-> new[c]] OBVIOUS
<1>4. DOMAIN w = {c \in Up!Columns : new[c] # db[c]} /\ \A c \in DOMAIN w : w[c] = new[c]
  BY <1>3 DEF UpRows!Changed
<1>5. \A c \in DOMAIN w : c = Up!Status(q) \/ c = Up!OrgOf(q) \/ c = Up!SlugOf(q) BY <1>2, <1>4
<1>6. /\ Up!Status(q) \in DOMAIN w /\ Up!OrgOf(q) \in DOMAIN w /\ Up!SlugOf(q) \in DOMAIN w
      /\ w[Up!Status(q)] = "processing" /\ w[Up!OrgOf(q)] = o /\ w[Up!SlugOf(q)] = s
  BY <1>2, <1>4, UpColumnsIn, UpNamesApart
<1>7. UpFits(q, w) BY <1>5, <1>6, UpNamesApart DEF UpFits
<1>8. db' = db BY <1>1 DEF UpRows!Begin
<1>9. UpSubmitting(q, w)' BY <1>1, <1>2, <1>5, <1>6, <1>8, UpNamesApart DEF UpSubmitting
<1>10. 0 \in 0 .. MAX_ATTEMPTS BY DEF UpInv, UpConstantsFit
<1>11. <<q, 0>> \in Up!Sessions BY <1>10 DEF Up!Sessions
<1>12. DOMAIN writes' = Up!Sessions /\ overlapped' \in BOOLEAN
  BY <1>1, <1>11, UpRows!BeginWrites DEF UpInv, UpControlTyped
<1>13. UpControlTyped' BY <1>1, <1>12 DEF UpInv, UpControlTyped
<1> QED BY <1>1, <1>3, <1>7, <1>9, <1>10, <1>13, UpBeginKeeps

\* What is pending of the pipeline run over rows that hold request q.
LEMMA UpPipelineWrites ==
    ASSUME UpInv, NEW rows, DOMAIN rows = Up!Columns, NEW q \in Requests, NEW o \in Orgs, NEW s \in Slugs,
           rows[Up!OrgOf(q)] = o, rows[Up!SlugOf(q)] = s, db[Up!Status(q)] # "completed",
           \A c \in Up!Columns : c # Up!Status(q) /\ c # Up!OrgOf(q) /\ c # Up!SlugOf(q) => rows[c] = db[c],
           NEW w, w = [c \in UpRows!Changed(Up!run_pipeline(rows, q)) |-> Up!run_pipeline(rows, q)[c]],
           db' = db, realms' = realms \cup {s}
    PROVE  /\ UpFits(q, w) /\ UpCompletes(q, o, s, w)'
           /\ Up!OrgOf(q) \in DOMAIN w <=> db[Up!OrgOf(q)] # o
           /\ Up!SlugOf(q) \in DOMAIN w <=> db[Up!SlugOf(q)] # s
           /\ Up!OrgOf(q) \in DOMAIN w => w[Up!OrgOf(q)] = o
           /\ Up!SlugOf(q) \in DOMAIN w => w[Up!SlugOf(q)] = s
<1> DEFINE new == Up!run_pipeline(rows, q)
<1>1. \A c \in Up!Columns : new[c] =
         IF c = Up!Realm(s) THEN IF rows[c] = "none" THEN o ELSE rows[c]
         ELSE IF c = Up!Slug(o) THEN s ELSE IF c = Up!OrgType(o) THEN "organization"
         ELSE IF c = Up!Tenant(o, s) THEN "active" ELSE IF c = Up!Status(q) THEN "completed" ELSE rows[c]
  BY UpPipelineRows
<1>2. DOMAIN w = {c \in Up!Columns : new[c] # db[c]} /\ \A c \in DOMAIN w : w[c] = new[c] BY DEF UpRows!Changed
<1> HIDE DEF new
<1>3. Up!Status(q) \in DOMAIN w /\ w[Up!Status(q)] = "completed"
  <2>1. /\ Up!Status(q) \in Up!Columns /\ Up!Status(q) # Up!Realm(s) /\ Up!Status(q) # Up!Slug(o)
        /\ Up!Status(q) # Up!OrgType(o) /\ Up!Status(q) # Up!Tenant(o, s)
    BY UpColumnsIn, UpNamesApart
  <2> QED BY <1>1, <1>2, <2>1
<1>4. \A p \in Requests : Up!Status(p) \in DOMAIN w => p = q BY <1>1, <1>2, UpNamesApart
<1>5. \A p \in Requests : (Up!OrgOf(p) \in DOMAIN w => p = q) /\ (Up!SlugOf(p) \in DOMAIN w => p = q)
  BY <1>1, <1>2, UpNamesApart
<1>6. \A p \in Orgs : Up!OrgType(p) \in DOMAIN w => w[Up!OrgType(p)] = "organization"
  BY <1>1, <1>2, UpNamesApart
<1>7. \A p \in Orgs, z \in Slugs : Up!Tenant(p, z) \in DOMAIN w =>
        w[Up!Tenant(p, z)] = "active" /\ p = o /\ z = s
  <2> SUFFICES ASSUME NEW p \in Orgs, NEW z \in Slugs, Up!Tenant(p, z) \in DOMAIN w
               PROVE  w[Up!Tenant(p, z)] = "active" /\ p = o /\ z = s
    OBVIOUS
  <2>0. /\ Up!Tenant(p, z) \in Up!Columns /\ Up!Tenant(p, z) # Up!Realm(s) /\ Up!Tenant(p, z) # Up!Slug(o)
        /\ Up!Tenant(p, z) # Up!OrgType(o) /\ Up!Tenant(p, z) # Up!Status(q)
    BY UpColumnsIn, UpNamesApart
  <2>1. new[Up!Tenant(p, z)] = IF Up!Tenant(p, z) = Up!Tenant(o, s) THEN "active" ELSE rows[Up!Tenant(p, z)]
    BY <1>1, <2>0
  <2>2. rows[Up!Tenant(p, z)] = db[Up!Tenant(p, z)] BY UpColumnsIn, UpNamesApart
  <2>3. Up!Tenant(p, z) = Up!Tenant(o, s) BY <1>2, <2>1, <2>2
  <2> QED BY <1>2, <2>1, <2>3, UpTenantsApart
<1>8. \A z \in Slugs : Up!Realm(z) \in DOMAIN w => w[Up!Realm(z)] = o
  <2> SUFFICES ASSUME NEW z \in Slugs, Up!Realm(z) \in DOMAIN w PROVE w[Up!Realm(z)] = o OBVIOUS
  <2>1. rows[Up!Realm(z)] = db[Up!Realm(z)] BY UpColumnsIn, UpNamesApart
  <2>0. /\ Up!Realm(z) \in Up!Columns /\ Up!Realm(z) # Up!Slug(o) /\ Up!Realm(z) # Up!OrgType(o)
        /\ Up!Realm(z) # Up!Tenant(o, s)
        /\ Up!Realm(z) # Up!Status(q) /\ (Up!Realm(z) = Up!Realm(s) => z = s)
    BY UpColumnsIn, UpNamesApart
  <2>2. new[Up!Realm(z)] = IF z = s /\ rows[Up!Realm(z)] = "none" THEN o ELSE rows[Up!Realm(z)] BY <1>1, <2>0
  <2> QED BY <1>2, <2>1, <2>2
<1>9. UpFits(q, w) BY <1>3, <1>4, <1>5, <1>6, <1>7, <1>8 DEF UpFits
<1>10. Up!OrgType(o) \in DOMAIN w \/ db[Up!OrgType(o)] = "organization"
  <2>1. Up!OrgType(o) \in Up!Columns /\ Up!OrgType(o) # Up!Realm(s) /\ Up!OrgType(o) # Up!Slug(o)
    BY UpColumnsIn, UpNamesApart
  <2> QED BY <1>1, <1>2, <2>1
<1>11. Up!Tenant(o, s) \in DOMAIN w \/ db[Up!Tenant(o, s)] = "active"
  <2>1. Up!Tenant(o, s) \in Up!Columns BY UpColumnsIn
  <2>2. Up!Tenant(o, s) # Up!Realm(s) /\ Up!Tenant(o, s) # Up!Slug(o) /\ Up!Tenant(o, s) # Up!OrgType(o)
    BY UpNamesApart
  <2> QED BY <1>1, <1>2, <2>1, <2>2
<1>12. Up!Realm(s) \in DOMAIN w \/ db[Up!Realm(s)] # "none"
  <2>1. rows[Up!Realm(s)] = db[Up!Realm(s)] BY UpColumnsIn, UpNamesApart
  <2>2. new[Up!Realm(s)] = IF rows[Up!Realm(s)] = "none" THEN o ELSE rows[Up!Realm(s)] BY <1>1, UpColumnsIn
  <2>3. o # "none" BY DEF UpInv, UpConstantsFit
  <2> QED BY <1>2, <2>1, <2>2, <2>3, UpColumnsIn
<1>13. UpCompletes(q, o, s, w)' BY <1>3, <1>7, <1>10, <1>11, <1>12 DEF UpCompletes
<1>14. new[Up!OrgOf(q)] = o /\ new[Up!SlugOf(q)] = s
  <2>1. /\ Up!OrgOf(q) \in Up!Columns /\ Up!OrgOf(q) # Up!Realm(s) /\ Up!OrgOf(q) # Up!Slug(o)
        /\ Up!OrgOf(q) # Up!OrgType(o)
        /\ Up!OrgOf(q) # Up!Tenant(o, s) /\ Up!OrgOf(q) # Up!Status(q)
    BY UpColumnsIn, UpNamesApart
  <2>2. /\ Up!SlugOf(q) \in Up!Columns /\ Up!SlugOf(q) # Up!Realm(s) /\ Up!SlugOf(q) # Up!Slug(o)
        /\ Up!SlugOf(q) # Up!OrgType(o)
        /\ Up!SlugOf(q) # Up!Tenant(o, s) /\ Up!SlugOf(q) # Up!Status(q)
    BY UpColumnsIn, UpNamesApart
  <2> QED BY <1>1, <2>1, <2>2
<1> QED BY <1>2, <1>9, <1>13, <1>14, UpColumnsIn

LEMMA UpInlineKeeps ==
    ASSUME UpInv, UpSerialInv, NEW q \in Requests, NEW o \in Orgs, NEW s \in Slugs, Up!SubmitInline(q, o, s)
    PROVE  UpInv' /\ UpSerialInv'
<1> DEFINE rows == Up!Submitted(q, o, s)
           new == Up!run_pipeline(rows, q)
<1>1. /\ mode = "inline" /\ UpRows!Begin(<<q, 0>>, new) /\ UpRows!Fresh(Up!Status(q)) /\ mode' = mode
      /\ realms' = realms \cup {s}
      /\ start' = start /\ workflow' = workflow /\ attempts' = attempts
  BY UpSame DEF Up!SubmitInline, Up!temporal
<1>2. /\ DOMAIN rows = Up!Columns
      /\ \A c \in Up!Columns : rows[c] =
           IF c = Up!Status(q) THEN "processing" ELSE IF c = Up!OrgOf(q) THEN o ELSE IF c = Up!SlugOf(q)
               THEN s ELSE db[c]
      /\ db[Up!Status(q)] = "none" /\ db[Up!OrgOf(q)] # o /\ db[Up!SlugOf(q)] # s
  BY <1>1, UpSubmittedRows
<1> HIDE DEF rows
<1>3. rows[Up!OrgOf(q)] = o /\ rows[Up!SlugOf(q)] = s BY <1>2, UpColumnsIn, UpNamesApart
<1>4. \A c \in Up!Columns : c # Up!Status(q) /\ c # Up!OrgOf(q) /\ c # Up!SlugOf(q) => rows[c] = db[c] BY <1>2
<1>5. PICK w : w = [c \in UpRows!Changed(new) |-> new[c]] OBVIOUS
<1>6. db' = db BY <1>1 DEF UpRows!Begin
<1>7. /\ UpFits(q, w) /\ UpCompletes(q, o, s, w)'
      /\ Up!OrgOf(q) \in DOMAIN w /\ Up!SlugOf(q) \in DOMAIN w /\ w[Up!OrgOf(q)] = o /\ w[Up!SlugOf(q)] = s
  BY <1>1, <1>2, <1>3, <1>4, <1>5, <1>6, UpPipelineWrites
<1> HIDE DEF new
<1>8. UpSubmitting(q, w)'
  <2>1. Up!Status(q) \in DOMAIN w BY <1>7 DEF UpCompletes
  <2> QED BY <1>1, <1>2, <1>6, <1>7, <2>1 DEF UpSubmitting
<1>9. 0 \in 0 .. MAX_ATTEMPTS BY DEF UpInv, UpConstantsFit
<1>10. <<q, 0>> \in Up!Sessions BY <1>9 DEF Up!Sessions
<1>11. DOMAIN writes' = Up!Sessions /\ overlapped' \in BOOLEAN
  BY <1>1, <1>10, UpRows!BeginWrites DEF UpInv, UpControlTyped
<1>12. UpControlTyped' BY <1>1, <1>11 DEF UpInv, UpControlTyped
<1> QED BY <1>1, <1>5, <1>7, <1>8, <1>9, <1>12, UpBeginKeeps

LEMMA UpAttemptKeeps ==
    ASSUME UpInv, UpSerialInv, NEW q \in Requests, Up!Attempt(q) PROVE UpInv' /\ UpSerialInv'
<1> DEFINE k == attempts[q] + 1
           new == Up!run_pipeline(db, q)
<1>1. /\ workflow[q] = "started" /\ attempts[q] < MAX_ATTEMPTS /\ attempts' = [attempts EXCEPT ![q] = @ + 1]
      /\ db[Up!Status(q)] # "completed" /\ realms' = realms \cup {db[Up!SlugOf(q)]}
      /\ UpRows!Begin(<<q, k>>, new) /\ mode' = mode /\ start' = start /\ workflow' = workflow
  BY UpSame DEF Up!Attempt, Up!NextAttempt
<1>2. attempts[q] \in 0 .. MAX_ATTEMPTS /\ MAX_ATTEMPTS \in Nat BY DEF UpInv, UpControlTyped, UpConstantsFit
<1>3. k \in 0 .. MAX_ATTEMPTS /\ k # 0 BY <1>1, <1>2
<1>4. attempts' \in [Requests -> 0 .. MAX_ATTEMPTS] BY <1>1, <1>3 DEF UpInv, UpControlTyped
<1> HIDE DEF k
<1>5. PICK o \in Orgs, s \in Slugs : db[Up!OrgOf(q)] = o /\ db[Up!SlugOf(q)] = s BY <1>1 DEF UpInv, UpStored
<1>6. db' = db BY <1>1 DEF UpRows!Begin
<1>7. PICK w : w = [c \in UpRows!Changed(new) |-> new[c]] OBVIOUS
<1>8. DOMAIN db = Up!Columns BY DEF UpInv, UpRowsTyped
<1>9. UpFits(q, w) /\ UpCompletes(q, o, s, w)' /\ Up!OrgOf(q) \notin DOMAIN w /\ Up!SlugOf(q) \notin DOMAIN w
  BY <1>1, <1>5, <1>6, <1>7, <1>8, UpPipelineWrites
<1> HIDE DEF new
<1>10. UpRunning(q, w)' BY <1>1, <1>5, <1>6, <1>9 DEF UpRunning
<1>11. <<q, k>> \in Up!Sessions BY <1>3 DEF Up!Sessions
<1>12. DOMAIN writes' = Up!Sessions /\ overlapped' \in BOOLEAN
  BY <1>1, <1>11, UpRows!BeginWrites DEF UpInv, UpControlTyped
<1>13. UpControlTyped' BY <1>1, <1>4, <1>5, <1>12 DEF UpInv, UpControlTyped
<1> QED BY <1>1, <1>3, <1>7, <1>9, <1>10, <1>13, UpBeginKeeps

-----------------------------------------------------------------------------
(* Sessions that end.                                                      *)

LEMMA UpCommitKeeps ==
    ASSUME UpInv, UpSerialInv, NEW q \in Requests, NEW k \in 0 .. MAX_ATTEMPTS, UpRows!Commit(<<q, k>>),
           mode' = mode, realms' = realms, UpControlTyped',
           start' = start \/ (k = 0 /\ mode = "temporal" /\ start' = [start EXCEPT ![q] = "calling"]),
           \A p \in Requests : workflow[p] = "none" <=> workflow'[p] = "none"
    PROVE  UpInv' /\ UpSerialInv'
<1>1. <<q, k>> \in Up!Sessions BY DEF Up!Sessions
<1>2. PICK w : w = writes[<<q, k>>] OBVIOUS
<1>3. /\ DOMAIN db' = Up!Columns
      /\ \A c \in Up!Columns : db'[c] = IF c \in DOMAIN w THEN w[c] ELSE db[c]
      /\ \A r \in Up!Sessions : r # <<q, k>> => writes'[r] = writes[r]
  BY <1>1, <1>2, UpRows!CommitWrites DEF UpInv, UpControlTyped
<1>4. writes'[<<q, k>>] = UpRows!Nothing /\ w # UpRows!Nothing
  BY <1>1, <1>2 DEF UpRows!Commit, UpInv, UpControlTyped
<1>5. k # 0 => k \in UpAttempts BY DEF UpAttempts, UpInv, UpConstantsFit
<1>6. /\ UpFits(q, w) /\ (k = 0 => UpSubmitting(q, w)) /\ (k # 0 => UpRunning(q, w))
  BY <1>2, <1>4, <1>5 DEF UpInv, UpHeldSubmit, UpHeldRun
<1>7. k # 0 => db[Up!Status(q)] # "none" /\ start' = start BY <1>6 DEF UpRunning, UpInv, UpStored
<1>8. Up!Status(q) \in DOMAIN w /\ w[Up!Status(q)] \in {"processing", "completed"}
  BY <1>6 DEF UpFits, UpSubmitting, UpRunning, UpCompletes
<1>9. /\ db'[Up!Status(q)] = w[Up!Status(q)]
      /\ \A p \in Requests : p # q => /\ db'[Up!Status(p)] = db[Up!Status(p)]
                                      /\ db'[Up!OrgOf(p)] = db[Up!OrgOf(p)]
                                      /\ db'[Up!SlugOf(p)] = db[Up!SlugOf(p)]
  BY <1>3, <1>6, <1>8, UpColumnsIn DEF UpFits
<1>10. k # 0 => db'[Up!OrgOf(q)] = db[Up!OrgOf(q)] /\ db'[Up!SlugOf(q)] = db[Up!SlugOf(q)]
  BY <1>3, <1>6, UpColumnsIn DEF UpRunning
<1>11. k = 0 => /\ db[Up!Status(q)] = "none" /\ db'[Up!OrgOf(q)] = w[Up!OrgOf(q)]
                /\ db'[Up!SlugOf(q)] = w[Up!SlugOf(q)]
                /\ w[Up!OrgOf(q)] \in Orgs /\ w[Up!SlugOf(q)] \in Slugs
  BY <1>3, <1>6, UpColumnsIn DEF UpSubmitting
<1>12. \A o \in Orgs : db'[Up!OrgType(o)] = IF Up!OrgType(o) \in DOMAIN w
         THEN "organization" ELSE db[Up!OrgType(o)]
  BY <1>3, <1>6, UpColumnsIn DEF UpFits
<1>13. \A o \in Orgs, s \in Slugs : db'[Up!Tenant(o, s)] = IF Up!Tenant(o, s) \in DOMAIN w
         THEN "active" ELSE db[Up!Tenant(o, s)]
  BY <1>3, <1>6, UpColumnsIn DEF UpFits
<1>14. \A s \in Slugs : (Up!Realm(s) \in DOMAIN w => db'[Up!Realm(s)] \in Orgs)
         /\ (Up!Realm(s) \notin DOMAIN w => db'[Up!Realm(s)] = db[Up!Realm(s)])
  BY <1>3, <1>6, UpColumnsIn DEF UpFits
<1>15. UpRowsTyped' BY <1>3, <1>8, <1>9, <1>12, <1>13, <1>14 DEF UpInv, UpRowsTyped
<1>16. "none" \notin Orgs BY DEF UpInv, UpConstantsFit
<1>17. UpGrows BY <1>9, <1>10, <1>11, <1>12, <1>13, <1>14, <1>16 DEF UpGrows
<1>18. ASSUME NEW p \in Requests PROVE UpStored(p)'
  <2>1. CASE p # q
    <3>1. start'[p] = start[p] BY <2>1 DEF UpInv, UpControlTyped
    <3> QED BY <1>9, <2>1, <3>1 DEF UpInv, UpStored
  <2>2. CASE p = q /\ k = 0
    <3>1. workflow[q] = "none" /\ start[q] = "none" BY <1>11, <2>2 DEF UpInv, UpStored
    <3>2. mode = "temporal" => w[Up!Status(q)] = "processing" BY <1>6, <2>2 DEF UpSubmitting
    <3>3. db'[Up!Status(q)] # "none" /\ (mode = "temporal" => db'[Up!Status(q)] = "processing")
      BY <1>8, <1>9, <3>2
    <3>4. mode # "temporal" => start'[q] = "none" BY <3>1
    <3> QED BY <1>11, <2>2, <3>1, <3>3, <3>4 DEF UpStored
  <2>3. CASE p = q /\ k # 0
    <3>1. db'[Up!Status(q)] # "none" BY <1>8, <1>9
    <3>2. db[Up!OrgOf(q)] \in Orgs /\ db[Up!SlugOf(q)] \in Slugs BY <1>7, <2>3 DEF UpInv, UpStored
    <3>3. workflow'[q] # "none" BY <1>6, <2>3 DEF UpRunning
    <3> QED BY <1>7, <1>10, <2>3, <3>1, <3>2, <3>3 DEF UpStored
  <2> QED BY <2>1, <2>2, <2>3
<1>19. ASSUME NEW o, NEW s, UpCompletes(q, o, s, w)
       PROVE  /\ db'[Up!OrgType(o)] = "organization" /\ db'[Up!Tenant(o, s)] = "active"
              /\ db'[Up!Realm(s)] # "none" /\ s \in realms'
  BY <1>12, <1>13, <1>14, <1>16, <1>19 DEF UpCompletes
<1>20. w[Up!Status(q)] = "completed" => UpCompletes(q, db'[Up!OrgOf(q)], db'[Up!SlugOf(q)], w)
  BY <1>6, <1>10, <1>11 DEF UpSubmitting, UpRunning, UpInv, UpControlTyped
<1>21. ASSUME NEW p \in Requests PROVE UpDone(p)'
  <2>1. CASE p = q BY <1>9, <1>19, <1>20, <2>1 DEF UpDone
  <2>2. CASE p # q
    <3>1. ASSUME db[Up!Status(p)] = "completed"
          PROVE  /\ db'[Up!OrgType(db[Up!OrgOf(p)])] = "organization"
                 /\ db'[Up!Tenant(db[Up!OrgOf(p)], db[Up!SlugOf(p)])] = "active"
                 /\ db'[Up!Realm(db[Up!SlugOf(p)])] # "none"
      BY <1>17, <3>1 DEF UpInv, UpStored, UpDone, UpGrows
    <3> QED BY <1>9, <2>2, <3>1 DEF UpInv, UpDone
  <2> QED BY <2>1, <2>2
<1>22. /\ \A p \in Requests : <<p, 0>> # <<q, k>> => UpHeldSubmit(p)'
       /\ \A p \in Requests : \A j \in UpAttempts : <<p, j>> # <<q, k>> => UpHeldRun(p, j)'
  <2>1. k # 0 => writes[<<q, 0>>] = UpRows!Nothing BY <1>7 DEF UpInv, UpHeldSubmit, UpSubmitting
  <2> QED BY <1>3, <1>9, <1>17, <2>1, UpOthersStay
<1>23. UpRows!Nothing' = UpRows!Nothing BY DEF UpRows!Nothing
<1>24. /\ \A p \in Requests : UpHeldSubmit(p)'
       /\ \A p \in Requests : \A j \in UpAttempts : UpHeldRun(p, j)'
  BY <1>4, <1>22, <1>23 DEF UpHeldSubmit, UpHeldRun
<1>25. UpInv' BY <1>15, <1>18, <1>21, <1>24 DEF UpInv, UpConstantsFit
<1>26. UpRows!Alone' /\ overlapped' = overlapped
  BY <1>1, UpRows!CommitAlone DEF UpInv, UpControlTyped, UpSerialInv, UpRows!Commit
<1>27. ASSUME ~overlapped, UpMade PROVE UpMade'
  <2> SUFFICES ASSUME NEW o \in Orgs, NEW s \in Slugs, db'[Up!Tenant(o, s)] # "none"
               PROVE  \E p \in Requests : UpMaker(p)' /\ db'[Up!OrgOf(p)] = o /\ db'[Up!SlugOf(p)] = s
    BY DEF UpMade
  <2>1. CASE Up!Tenant(o, s) \in DOMAIN w
    <3>1. w[Up!Status(q)] = "completed"
      BY <1>6, <2>1 DEF UpSubmitting, UpRunning, UpCompletes, UpInv, UpControlTyped
    <3>2. db'[Up!OrgOf(q)] = o /\ db'[Up!SlugOf(q)] = s BY <1>20, <2>1, <3>1 DEF UpCompletes
    <3> QED BY <1>9, <3>1, <3>2 DEF UpMaker
  <2>2. CASE Up!Tenant(o, s) \notin DOMAIN w
    <3>1. PICK p \in Requests : UpMaker(p) /\ db[Up!OrgOf(p)] = o /\ db[Up!SlugOf(p)] = s
      BY <1>13, <1>27, <2>2 DEF UpMade
    <3>2. CASE p # q
      <4>1. start'[p] = start[p] BY <3>2 DEF UpInv, UpControlTyped
      <4> QED BY <1>9, <3>1, <3>2, <4>1 DEF UpMaker, Up!Misreported
    <3>3. CASE p = q
      <4>1. k # 0 BY <1>11, <3>1, <3>3 DEF UpMaker, Up!Misreported, UpInv, UpStored
      <4>2. w[Up!Status(q)] = "completed" BY <1>6, <4>1 DEF UpRunning, UpCompletes
      <4> QED BY <1>9, <1>10, <3>1, <3>3, <4>1, <4>2 DEF UpMaker
    <3> QED BY <3>2, <3>3
  <2> QED BY <2>1, <2>2
<1>28. ASSUME ~overlapped, NEW p \in Requests, NEW j \in UpAttempts PROVE writes'[<<p, j>>] = UpRows!Nothing
  <2>1. <<p, j>> \in Up!Sessions BY DEF Up!Sessions, UpAttempts, UpInv, UpConstantsFit
  <2> QED BY <1>1, <1>2, <1>3, <1>4, <1>28, <2>1 DEF UpSerialInv, UpRows!Alone
<1>29. UpSerialInv' BY <1>23, <1>26, <1>27, <1>28 DEF UpSerialInv
<1> QED BY <1>25, <1>29

\* A session that leaves request q failed, or the rows as they are.
LEMMA UpFailKeeps ==
    ASSUME UpInv, UpSerialInv, NEW q \in Requests, NEW k \in 0 .. MAX_ATTEMPTS,
           mode' = mode, realms' = realms, overlapped' = overlapped, UpControlTyped',
           \A p \in Requests : start[p] = "none" => start'[p] = "none",
           \A p \in Requests : start'[p] = "none" => start[p] = "none",
           \A p \in Requests : start[p] = "failed" => start'[p] = "failed",
           writes'[<<q, k>>] \in {writes[<<q, k>>], UpRows!Nothing}, \A r \in Up!Sessions : r # <<q, k>> =>
               writes'[r] = writes[r],
           \A p \in Requests : workflow[p] # "none" => workflow'[p] # "none",
           \A p \in Requests : workflow'[p] # "none" /\ workflow[p] = "none" => start[p] # "none",
           \/ db' = db
           \/ /\ DOMAIN db' = Up!Columns /\ db'[Up!Status(q)] = "failed"
              /\ \A c \in Up!Columns : c # Up!Status(q) /\ c # Up!OrgOf(q) /\ c # Up!SlugOf(q) => db'[c] = db[c]
              /\ db'[Up!OrgOf(q)] \in Orgs /\ db'[Up!SlugOf(q)] \in Slugs
              /\ db[Up!Status(q)] # "none" =>
                    db'[Up!OrgOf(q)] = db[Up!OrgOf(q)] /\ db'[Up!SlugOf(q)] = db[Up!SlugOf(q)]
              /\ writes'[<<q, 0>>] = UpRows!Nothing
              /\ ~overlapped => db[Up!Status(q)] # "completed" \/ Up!Misreported(q)'
    PROVE  UpInv' /\ UpSerialInv'
<1>1. <<q, k>> \in Up!Sessions BY DEF Up!Sessions
<1>2. UpRows!Nothing' = UpRows!Nothing /\ "none" \notin Orgs \cup Slugs
  BY DEF UpRows!Nothing, UpInv, UpConstantsFit
<1>3. /\ \A o \in Orgs : db'[Up!OrgType(o)] = db[Up!OrgType(o)]
      /\ \A o \in Orgs, s \in Slugs : db'[Up!Tenant(o, s)] = db[Up!Tenant(o, s)]
      /\ \A s \in Slugs : db'[Up!Realm(s)] = db[Up!Realm(s)]
      /\ \A p \in Requests : p # q => /\ db'[Up!Status(p)] = db[Up!Status(p)]
                                      /\ db'[Up!OrgOf(p)] = db[Up!OrgOf(p)]
                                      /\ db'[Up!SlugOf(p)] = db[Up!SlugOf(p)]
  <2>1. CASE db' = db BY <2>1
  <2>2. CASE \A c \in Up!Columns : c # Up!Status(q) /\ c # Up!OrgOf(q) /\ c # Up!SlugOf(q) => db'[c] = db[c]
    <3>1. ASSUME NEW o \in Orgs PROVE db'[Up!OrgType(o)] = db[Up!OrgType(o)]
      <4>1. Up!OrgType(o) \in Up!Columns BY UpColumnsIn
      <4>2. Up!OrgType(o) # Up!Status(q) /\ Up!OrgType(o) # Up!OrgOf(q) /\ Up!OrgType(o) # Up!SlugOf(q)
        BY UpNamesApart
      <4> QED BY <2>2, <4>1, <4>2
    <3>2. ASSUME NEW o \in Orgs, NEW s \in Slugs PROVE db'[Up!Tenant(o, s)] = db[Up!Tenant(o, s)]
      <4>1. Up!Tenant(o, s) \in Up!Columns BY UpColumnsIn
      <4>2. Up!Tenant(o, s) # Up!Status(q) /\ Up!Tenant(o, s) # Up!OrgOf(q) /\ Up!Tenant(o, s) # Up!SlugOf(q)
        BY UpNamesApart
      <4> QED BY <2>2, <4>1, <4>2
    <3>3. ASSUME NEW s \in Slugs PROVE db'[Up!Realm(s)] = db[Up!Realm(s)]
      <4>1. Up!Realm(s) \in Up!Columns BY UpColumnsIn
      <4>2. Up!Realm(s) # Up!Status(q) /\ Up!Realm(s) # Up!OrgOf(q) /\ Up!Realm(s) # Up!SlugOf(q)
        BY UpNamesApart
      <4> QED BY <2>2, <4>1, <4>2
    <3>4. ASSUME NEW p \in Requests, p # q
          PROVE  /\ db'[Up!Status(p)] = db[Up!Status(p)]
                 /\ db'[Up!OrgOf(p)] = db[Up!OrgOf(p)] /\ db'[Up!SlugOf(p)] = db[Up!SlugOf(p)]
      <4>1. Up!Status(p) \in Up!Columns /\ Up!OrgOf(p) \in Up!Columns /\ Up!SlugOf(p) \in Up!Columns
        BY UpColumnsIn
      <4>2. /\ Up!Status(p) # Up!Status(q) /\ Up!Status(p) # Up!OrgOf(q) /\ Up!Status(p) # Up!SlugOf(q)
            /\ Up!OrgOf(p) # Up!Status(q) /\ Up!OrgOf(p) # Up!OrgOf(q) /\ Up!OrgOf(p) # Up!SlugOf(q)
            /\ Up!SlugOf(p) # Up!Status(q) /\ Up!SlugOf(p) # Up!OrgOf(q) /\ Up!SlugOf(p) # Up!SlugOf(q)
        BY <3>4, UpNamesApart
      <4> QED BY <2>2, <4>1, <4>2
    <3> QED BY <3>1, <3>2, <3>3, <3>4
  <2> QED BY <2>1, <2>2
<1>4. db[Up!Status(q)] # "none" => db'[Up!OrgOf(q)] = db[Up!OrgOf(q)] /\ db'[Up!SlugOf(q)] = db[Up!SlugOf(q)]
  OBVIOUS
<1>5. UpGrows BY <1>3, <1>4 DEF UpGrows
<1>6. db'[Up!Status(q)] \in {db[Up!Status(q)], "failed"} /\ DOMAIN db' = Up!Columns BY DEF UpInv, UpRowsTyped
<1>7. UpRowsTyped' BY <1>3, <1>6 DEF UpInv, UpRowsTyped
<1>8. ASSUME NEW p \in Requests PROVE UpStored(p)'
  <2>1. CASE db' = db BY <2>1 DEF UpInv, UpStored
  <2>2. CASE p # q BY <1>3, <2>2 DEF UpInv, UpStored
  <2>3. CASE p = q /\ db' # db BY <2>3 DEF UpInv, UpStored
  <2> QED BY <2>1, <2>2, <2>3
<1>9. ASSUME NEW p \in Requests PROVE UpDone(p)'
  <2>1. CASE db' = db BY <2>1 DEF UpInv, UpDone
  <2>2. CASE p = q /\ db' # db BY <2>2 DEF UpDone
  <2>3. CASE p # q
    <3>1. db[Up!Status(p)] = "completed" => db[Up!OrgOf(p)] \in Orgs /\ db[Up!SlugOf(p)] \in Slugs
      BY DEF UpInv, UpStored
    <3> QED BY <1>3, <2>3, <3>1 DEF UpInv, UpDone
  <2> QED BY <2>1, <2>2, <2>3
<1>10. ASSUME NEW p \in Requests PROVE UpHeldSubmit(p)'
  <2>1. <<p, 0>> \in Up!Sessions BY DEF Up!Sessions, UpInv, UpConstantsFit
  <2>2. writes'[<<p, 0>>] \in {writes[<<p, 0>>], UpRows!Nothing} BY <2>1
  <2>3. writes'[<<p, 0>>] = UpRows!Nothing \/ (writes[<<p, 0>>] # UpRows!Nothing =>
          db'[Up!Status(p)] = db[Up!Status(p)])
    BY <1>3
  <2>4. writes[<<p, 0>>] # UpRows!Nothing => db[Up!Status(p)] = "none" BY DEF UpInv, UpHeldSubmit, UpSubmitting
  <2> QED BY <1>5, <2>2, <2>3, <2>4, UpSubmitStays DEF UpInv
<1>11. ASSUME NEW p \in Requests, NEW j \in UpAttempts PROVE UpHeldRun(p, j)'
  <2>1. <<p, j>> \in Up!Sessions BY DEF Up!Sessions, UpAttempts, UpInv, UpConstantsFit
  <2>2. writes'[<<p, j>>] \in {writes[<<p, j>>], UpRows!Nothing} BY <2>1
  <2> QED BY <1>5, <2>2, UpRunStays DEF UpInv
<1>12. UpInv' BY <1>7, <1>8, <1>9, <1>10, <1>11 DEF UpInv, UpConstantsFit
<1>13. UpRows!Alone' BY <1>1, <1>2 DEF UpSerialInv, UpRows!Alone
<1>14. ASSUME ~overlapped PROVE UpMade'
  <2> SUFFICES ASSUME NEW o \in Orgs, NEW s \in Slugs, db'[Up!Tenant(o, s)] # "none"
               PROVE  \E p \in Requests : UpMaker(p)' /\ db'[Up!OrgOf(p)] = o /\ db'[Up!SlugOf(p)] = s
    BY DEF UpMade
  <2>1. PICK p \in Requests : UpMaker(p) /\ db[Up!OrgOf(p)] = o /\ db[Up!SlugOf(p)] = s
    BY <1>3, <1>14 DEF UpSerialInv, UpMade
  <2>2. Up!Misreported(p) => Up!Misreported(p)' BY DEF Up!Misreported
  <2>3. CASE p # q BY <1>3, <2>1, <2>2, <2>3 DEF UpMaker
  <2>4. CASE p = q
    <3>1. db[Up!Status(q)] # "none"
      BY <2>1, <2>4 DEF UpMaker, Up!Misreported, UpInv, UpStored
    <3>2. UpMaker(q)' BY <1>14, <2>1, <2>2, <2>4 DEF UpMaker
    <3> QED BY <1>4, <2>1, <2>4, <3>1, <3>2
  <2> QED BY <2>3, <2>4
<1>15. ASSUME ~overlapped, NEW p \in Requests, NEW j \in UpAttempts, writes'[<<p, j>>] # UpRows!Nothing
       PROVE  db'[Up!Status(p)] # "completed"
  <2>1. <<p, j>> \in Up!Sessions BY DEF Up!Sessions, UpAttempts, UpInv, UpConstantsFit
  <2>2. writes[<<p, j>>] # UpRows!Nothing BY <1>15, <2>1
  <2>3. db[Up!Status(p)] # "completed" BY <1>15, <2>2 DEF UpSerialInv
  <2> QED BY <1>3, <1>6, <2>3
<1>16. UpSerialInv' BY <1>2, <1>13, <1>14, <1>15 DEF UpSerialInv
<1> QED BY <1>12, <1>16

LEMMA UpApiKeeps ==
    ASSUME UpInv, UpSerialInv, NEW q \in Requests,
           \/ Up!CommitSubmit(q) \/ Up!CommitInline(q) \/ Up!FailInline(q)
           \/ Up!StartWorkflow(q) \/ Up!StartReplied(q) \/ Up!StartFails(q) \/ Up!ServerStops(q)
    PROVE  UpInv' /\ UpSerialInv'
<1>1. 0 \in 0 .. MAX_ATTEMPTS BY DEF UpInv, UpConstantsFit
<1>2. <<q, 0>> \in Up!Sessions BY <1>1 DEF Up!Sessions
<1>3. DOMAIN db = Up!Columns BY DEF UpInv, UpRowsTyped
<1>4. CASE Up!CommitSubmit(q)
  <2>1. /\ UpRows!Commit(<<q, 0>>) /\ mode = "temporal" /\ start' = [start EXCEPT ![q] = "calling"] /\ mode' = mode
        /\ realms' = realms
        /\ workflow' = workflow /\ attempts' = attempts
    BY <1>4, UpSame DEF Up!CommitSubmit
  <2>2. DOMAIN writes' = Up!Sessions /\ overlapped' = overlapped
    BY <1>2, <2>1, UpRows!CommitWrites DEF UpInv, UpControlTyped
  <2>3. UpControlTyped' BY <2>1, <2>2 DEF UpInv, UpControlTyped
  <2> QED BY <1>1, <2>1, <2>3, UpCommitKeeps
<1>5. CASE Up!CommitInline(q)
  <2>1. /\ UpRows!Commit(<<q, 0>>) /\ start' = start /\ mode' = mode /\ realms' = realms
        /\ workflow' = workflow /\ attempts' = attempts
    BY <1>5, UpSame DEF Up!CommitInline, Up!temporal
  <2>2. DOMAIN writes' = Up!Sessions /\ overlapped' = overlapped
    BY <1>2, <2>1, UpRows!CommitWrites DEF UpInv, UpControlTyped
  <2>3. UpControlTyped' BY <2>1, <2>2 DEF UpInv, UpControlTyped
  <2> QED BY <1>1, <2>1, <2>3, UpCommitKeeps
<1>6. CASE Up!FailInline(q)
  <2>1. PICK w : w = writes[<<q, 0>>] OBVIOUS
  <2>2. /\ w # UpRows!Nothing /\ db' = [db EXCEPT ![Up!Status(q)] = "failed", ![Up!OrgOf(q)] = w[Up!OrgOf(q)],
                                                  ![Up!SlugOf(q)] = w[Up!SlugOf(q)]]
        /\ writes' = [writes EXCEPT ![<<q, 0>>] = UpRows!Nothing] /\ overlapped' = overlapped
        /\ mode' = mode /\ realms' = realms /\ start' = start /\ workflow' = workflow
        /\ attempts' = attempts
    BY <1>6, <2>1, UpSame DEF Up!FailInline, Up!InFlight, Up!temporal
  <2>3. db[Up!Status(q)] = "none" /\ w[Up!OrgOf(q)] \in Orgs /\ w[Up!SlugOf(q)] \in Slugs
    BY <2>1, <2>2 DEF UpInv, UpHeldSubmit, UpSubmitting
  <2>4. /\ DOMAIN db' = Up!Columns /\ db'[Up!Status(q)] = "failed"
        /\ \A c \in Up!Columns : c # Up!Status(q) /\ c # Up!OrgOf(q) /\ c # Up!SlugOf(q) => db'[c] = db[c]
        /\ db'[Up!OrgOf(q)] = w[Up!OrgOf(q)] /\ db'[Up!SlugOf(q)] = w[Up!SlugOf(q)]
    BY <1>3, <2>2, UpColumnsIn, UpNamesApart
  <2>5. writes'[<<q, 0>>] = UpRows!Nothing /\ \A r \in Up!Sessions : r # <<q, 0>> => writes'[r] = writes[r]
    BY <1>2, <2>2 DEF UpInv, UpControlTyped
  <2>6. UpControlTyped' BY <2>2 DEF UpInv, UpControlTyped
  <2> QED BY <1>1, <2>2, <2>3, <2>4, <2>5, <2>6, UpFailKeeps
<1>7. CASE Up!StartWorkflow(q)
  <2>1. /\ start[q] # "none" /\ workflow' = [workflow EXCEPT ![q] = "started"] /\ start' = start /\ db' = db
        /\ writes' = writes /\ overlapped' = overlapped /\ mode' = mode /\ realms' = realms
        /\ attempts' = attempts
    BY <1>7 DEF Up!StartWorkflow
  <2>2. /\ UpControlTyped'
        /\ \A p \in Requests : workflow[p] # "none" => workflow'[p] # "none"
        /\ \A p \in Requests : workflow'[p] # "none" /\ workflow[p] = "none" => start[p] # "none"
    BY <2>1 DEF UpInv, UpControlTyped
  <2> QED BY <1>1, <2>1, <2>2, UpFailKeeps
<1>8. CASE Up!StartReplied(q) \/ Up!StartFails(q) \/ Up!ServerStops(q)
  <2>1. /\ start[q] = "calling" /\ writes' = writes /\ overlapped' = overlapped /\ mode' = mode
        /\ realms' = realms /\ workflow' = workflow /\ attempts' = attempts
        /\ \/ start' = [start EXCEPT ![q] = "ended"] /\ db' = db
           \/ start' = [start EXCEPT ![q] = "failed"] /\ db' = [db EXCEPT ![Up!Status(q)] = "failed"]
    BY <1>8 DEF Up!StartReplied, Up!StartFails, Up!ServerStops
  <2>2. UpControlTyped' BY <2>1 DEF UpInv, UpControlTyped
  <2>3. /\ \A p \in Requests : start[p] = "none" => start'[p] = "none"
        /\ \A p \in Requests : start'[p] = "none" => start[p] = "none"
        /\ \A p \in Requests : start[p] = "failed" => start'[p] = "failed"
    BY <2>1 DEF UpInv, UpControlTyped
  <2>4. db[Up!Status(q)] # "none" /\ db[Up!OrgOf(q)] \in Orgs /\ db[Up!SlugOf(q)] \in Slugs
    BY <2>1 DEF UpInv, UpStored
  <2>5. writes[<<q, 0>>] = UpRows!Nothing BY <2>4 DEF UpInv, UpHeldSubmit, UpSubmitting
  <2>6. db' # db =>
          /\ DOMAIN db' = Up!Columns /\ db'[Up!Status(q)] = "failed"
          /\ \A c \in Up!Columns : c # Up!Status(q) => db'[c] = db[c]
          /\ db'[Up!OrgOf(q)] = db[Up!OrgOf(q)] /\ db'[Up!SlugOf(q)] = db[Up!SlugOf(q)]
    <3> SUFFICES ASSUME db' # db
                 PROVE  /\ DOMAIN db' = Up!Columns /\ db'[Up!Status(q)] = "failed"
                        /\ \A c \in Up!Columns : c # Up!Status(q) => db'[c] = db[c]
                        /\ db'[Up!OrgOf(q)] = db[Up!OrgOf(q)] /\ db'[Up!SlugOf(q)] = db[Up!SlugOf(q)]
      OBVIOUS
    <3>1. db' = [db EXCEPT ![Up!Status(q)] = "failed"] BY <2>1
    <3>2. /\ Up!Status(q) \in Up!Columns /\ Up!OrgOf(q) \in Up!Columns /\ Up!SlugOf(q) \in Up!Columns
          /\ Up!OrgOf(q) # Up!Status(q) /\ Up!SlugOf(q) # Up!Status(q)
      BY UpColumnsIn, UpNamesApart
    <3> QED BY <1>3, <3>1, <3>2
  <2>7. db' # db /\ db[Up!Status(q)] = "completed" => Up!Misreported(q)'
    <3> SUFFICES ASSUME db' # db, db[Up!Status(q)] = "completed" PROVE Up!Misreported(q)' OBVIOUS
    <3>1. start'[q] = "failed" BY <2>1 DEF UpInv, UpControlTyped
    <3>2. workflow'[q] # "none" BY <2>1 DEF UpInv, UpStored
    <3> QED BY <3>1, <3>2 DEF Up!Misreported
  <2>8. /\ writes' = writes /\ overlapped' = overlapped /\ mode' = mode /\ realms' = realms
        /\ \A p \in Requests : workflow'[p] = workflow[p]
    BY <2>1
  <2>9. CASE db' = db BY <1>1, <2>2, <2>3, <2>8, <2>9, UpFailKeeps
  <2>10. CASE db' # db
    <3>1. \A c \in Up!Columns : c # Up!Status(q) /\ c # Up!OrgOf(q) /\ c # Up!SlugOf(q) => db'[c] = db[c]
      BY <2>6, <2>10
    <3>2. writes'[<<q, 0>>] = UpRows!Nothing BY <2>5, <2>8
    <3>3. /\ DOMAIN db' = Up!Columns /\ db'[Up!Status(q)] = "failed"
          /\ db'[Up!OrgOf(q)] = db[Up!OrgOf(q)] /\ db'[Up!SlugOf(q)] = db[Up!SlugOf(q)]
      BY <2>6, <2>10
    <3>4. ~overlapped => db[Up!Status(q)] # "completed" \/ Up!Misreported(q)' BY <2>7, <2>10
    <3> QED BY <1>1, <2>2, <2>3, <2>4, <2>8, <3>1, <3>2, <3>3, <3>4, UpFailKeeps
  <2> QED BY <2>9, <2>10
<1> QED BY <1>4, <1>5, <1>6, <1>7, <1>8

LEMMA UpWorkerKeeps ==
    ASSUME UpInv, UpSerialInv, NEW q \in Requests, Up!Worker(q) PROVE UpInv' /\ UpSerialInv'
<1>1. 0 \in 0 .. MAX_ATTEMPTS /\ MAX_ATTEMPTS \in Nat BY DEF UpInv, UpConstantsFit
<1>2. attempts[q] \in 0 .. MAX_ATTEMPTS BY DEF UpInv, UpControlTyped
<1>3. CASE Up!AttemptUnavailable(q) \/ Up!AttemptCompleted(q) \/ Up!Exhausted(q)
  <2>1. /\ start' = start /\ db' = db /\ writes' = writes /\ overlapped' = overlapped /\ mode' = mode
        /\ realms' = realms
        /\ workflow[q] = "started"
    BY <1>3 DEF Up!AttemptUnavailable, Up!AttemptCompleted, Up!Exhausted, Up!NextAttempt
  <2>2. workflow' = [workflow EXCEPT ![q] = "closed"] \/ workflow' = workflow
    BY <1>3 DEF Up!AttemptUnavailable, Up!AttemptCompleted, Up!Exhausted
  <2>3. attempts' = attempts \/ (attempts' = [attempts EXCEPT ![q] = @ + 1] /\ attempts[q] < MAX_ATTEMPTS)
    BY <1>3 DEF Up!AttemptUnavailable, Up!AttemptCompleted, Up!Exhausted, Up!NextAttempt
  <2>4. attempts' \in [Requests -> 0 .. MAX_ATTEMPTS] BY <1>1, <1>2, <2>3 DEF UpInv, UpControlTyped
  <2>5. /\ UpControlTyped'
        /\ \A p \in Requests : workflow[p] # "none" <=> workflow'[p] # "none"
    BY <2>1, <2>2, <2>4 DEF UpInv, UpControlTyped
  <2> QED BY <1>1, <2>1, <2>5, UpFailKeeps
<1>4. ASSUME NEW k \in 1 .. MAX_ATTEMPTS, Up!CommitAttempt(q, k) \/ Up!FailAttempt(q, k)
      PROVE  UpInv' /\ UpSerialInv'
  <2>1. k \in 0 .. MAX_ATTEMPTS /\ k # 0 /\ k \in UpAttempts BY <1>1 DEF UpAttempts
  <2>2. <<q, k>> \in Up!Sessions BY <2>1 DEF Up!Sessions
  <2>3. writes[<<q, k>>] # UpRows!Nothing BY <1>4, UpSame DEF Up!CommitAttempt, Up!FailAttempt, Up!InFlight
  <2>4. workflow[q] # "none" BY <2>1, <2>3 DEF UpInv, UpHeldRun, UpRunning
  <2>5. workflow' = workflow \/ workflow' = [workflow EXCEPT ![q] = "closed"]
    BY <1>4 DEF Up!CommitAttempt, Up!FailAttempt, Up!Reports
  <2>6. mode' = mode /\ realms' = realms /\ start' = start /\ attempts' = attempts
    BY <1>4 DEF Up!CommitAttempt, Up!FailAttempt
  <2>7. \A p \in Requests : workflow[p] = "none" <=> workflow'[p] = "none"
    BY <2>4, <2>5 DEF UpInv, UpControlTyped
  <2>8. workflow' \in [Requests -> {"none", "started", "closed"}] BY <2>5 DEF UpInv, UpControlTyped
  <2>9. CASE Up!CommitAttempt(q, k)
    <3>1. UpRows!Commit(<<q, k>>) BY <2>9, UpSame DEF Up!CommitAttempt
    <3>2. DOMAIN writes' = Up!Sessions /\ overlapped' = overlapped
      BY <2>2, <3>1, UpRows!CommitWrites DEF UpInv, UpControlTyped
    <3>3. UpControlTyped' BY <2>6, <2>8, <3>2 DEF UpInv, UpControlTyped
    <3> QED BY <2>1, <2>6, <2>7, <3>1, <3>3, UpCommitKeeps
  <2>10. CASE Up!FailAttempt(q, k)
    <3>1. /\ writes' = [writes EXCEPT ![<<q, k>>] = UpRows!Nothing] /\ overlapped' = overlapped
          /\ db' = db \/ db' = [db EXCEPT ![Up!Status(q)] = "failed"]
      BY <2>10, UpSame DEF Up!FailAttempt
    <3>2. /\ writes'[<<q, k>>] = UpRows!Nothing /\ \A r \in Up!Sessions : r # <<q, k>> => writes'[r] = writes[r]
          /\ DOMAIN writes' = Up!Sessions
      BY <2>2, <3>1 DEF UpInv, UpControlTyped
    <3>3. UpControlTyped' BY <2>6, <2>8, <3>1, <3>2 DEF UpInv, UpControlTyped
    <3>4. db[Up!Status(q)] # "none" /\ db[Up!OrgOf(q)] \in Orgs /\ db[Up!SlugOf(q)] \in Slugs
      BY <2>4 DEF UpInv, UpStored
    <3>5. writes[<<q, 0>>] = UpRows!Nothing BY <3>4 DEF UpInv, UpHeldSubmit, UpSubmitting
    <3>6. <<q, 0>> \in Up!Sessions /\ <<q, 0>> # <<q, k>> BY <1>1, <2>1 DEF Up!Sessions
    <3>7. writes'[<<q, 0>>] = UpRows!Nothing BY <3>2, <3>5, <3>6
    <3>8. ~overlapped => db[Up!Status(q)] # "completed" BY <2>1, <2>3 DEF UpSerialInv
    <3>9. db' # db => /\ DOMAIN db' = Up!Columns /\ db'[Up!Status(q)] = "failed"
                      /\ \A c \in Up!Columns : c # Up!Status(q) => db'[c] = db[c]
                      /\ db'[Up!OrgOf(q)] = db[Up!OrgOf(q)] /\ db'[Up!SlugOf(q)] = db[Up!SlugOf(q)]
      BY <3>1, UpColumnsIn, UpNamesApart DEF UpInv, UpRowsTyped
    <3> QED BY <2>1, <2>6, <2>7, <3>1, <3>2, <3>3, <3>4, <3>7, <3>8, <3>9, UpFailKeeps
  <2> QED BY <1>4, <2>9, <2>10
<1> QED BY <1>3, <1>4, UpAttemptKeeps DEF Up!Worker, Up!Retries

LEMMA UpStopKeeps ==
    ASSUME UpInv, UpSerialInv, NEW q \in Requests, NEW k \in 0 .. MAX_ATTEMPTS, Up!Stops(q, k)
    PROVE  UpInv' /\ UpSerialInv'
<1>1. <<q, k>> \in Up!Sessions BY DEF Up!Sessions
<1>2. /\ writes' = [writes EXCEPT ![<<q, k>>] = UpRows!Nothing] /\ db' = db /\ overlapped' = overlapped
      /\ mode' = mode
      /\ realms' = realms /\ start' = start /\ workflow' = workflow /\ attempts' = attempts
  BY UpSame DEF Up!Stops, UpRows!Abort, Up!temporal
<1>3. /\ writes'[<<q, k>>] = UpRows!Nothing /\ \A r \in Up!Sessions : r # <<q, k>> => writes'[r] = writes[r]
      /\ DOMAIN writes' = Up!Sessions
  BY <1>1, <1>2 DEF UpInv, UpControlTyped
<1>4. UpControlTyped' BY <1>2, <1>3 DEF UpInv, UpControlTyped
<1> QED BY <1>2, <1>3, <1>4, UpFailKeeps

-----------------------------------------------------------------------------
LEMMA UpInitInv == UpConstantsFit /\ Up!Init => UpInv /\ UpSerialInv
<1> SUFFICES ASSUME UpConstantsFit, Up!Init PROVE UpInv /\ UpSerialInv OBVIOUS
<1>1. DOMAIN db = Up!Columns /\ \A c \in Up!Columns : db[c] = IF c \in {Up!OrgType(o) : o \in Orgs}
        THEN "individual" ELSE "none"
  BY DEF Up!Init
<1>2. \A q \in Requests : db[Up!Status(q)] = "none" /\ db[Up!OrgOf(q)] = "none" /\ db[Up!SlugOf(q)] = "none"
  BY <1>1, UpColumnsIn, UpNamesApart
<1>3. \A o \in Orgs : db[Up!OrgType(o)] = "individual" BY <1>1, UpColumnsIn
<1>4. \A o \in Orgs, s \in Slugs : db[Up!Tenant(o, s)] = "none" BY <1>1, UpColumnsIn, UpNamesApart
<1>5. \A s \in Slugs : db[Up!Realm(s)] = "none" BY <1>1, UpColumnsIn, UpNamesApart
<1>6. UpRowsTyped BY <1>1, <1>2, <1>3, <1>4, <1>5 DEF UpRowsTyped
<1>7. UpControlTyped
  <2>1. 0 \in 0 .. MAX_ATTEMPTS BY DEF UpConstantsFit
  <2>2. attempts \in [Requests -> 0 .. MAX_ATTEMPTS] BY <2>1 DEF Up!Init
  <2>3. workflow \in [Requests -> {"none", "started", "closed"}] BY DEF Up!Init
  <2>4. realms \subseteq Slugs /\ mode \in {"temporal", "inline"} /\ start \in [Requests -> {"none", "calling", "ended", "failed"}] BY DEF Up!Init
  <2>5. overlapped \in BOOLEAN /\ DOMAIN writes = Up!Sessions BY DEF Up!Init
  <2> QED BY <2>2, <2>3, <2>4, <2>5 DEF UpControlTyped
<1>8. \A r \in Up!Sessions : writes[r] = UpRows!Nothing BY UpSame DEF Up!Init
<1>9. \A q \in Requests : \A k \in 0 .. MAX_ATTEMPTS : <<q, k>> \in Up!Sessions BY DEF Up!Sessions
<1>10. 0 \in 0 .. MAX_ATTEMPTS /\ \A k \in UpAttempts : k \in 0 .. MAX_ATTEMPTS
  BY DEF UpAttempts, UpConstantsFit
<1>11. \A q \in Requests : UpDone(q) /\ UpStored(q) BY <1>2 DEF Up!Init, UpDone, UpStored
<1>12. \A q \in Requests : UpHeldSubmit(q) /\ \A k \in UpAttempts : UpHeldRun(q, k)
  BY <1>8, <1>9, <1>10 DEF UpHeldSubmit, UpHeldRun
<1>13. UpInv BY <1>6, <1>7, <1>11, <1>12 DEF UpInv
<1>14. UpRows!Alone BY <1>8 DEF UpRows!Alone
<1>15. \A q \in Requests : \A k \in UpAttempts : writes[<<q, k>>] = UpRows!Nothing BY <1>8, <1>9, <1>10
<1> QED BY <1>4, <1>13, <1>14, <1>15 DEF UpSerialInv, UpMade

LEMMA UpStutterKeeps == ASSUME UpInv, UpSerialInv, UNCHANGED Up!vars PROVE UpInv' /\ UpSerialInv'
<1>1. UpRows!Nothing' = UpRows!Nothing BY DEF UpRows!Nothing
<1>2. UpControlTyped' /\ UpRowsTyped' BY DEF UpInv, UpControlTyped, UpRowsTyped, Up!vars
<1>3. UpGrows BY DEF UpGrows, Up!vars
<1>4. \A q \in Requests : UpDone(q)' /\ UpStored(q)' BY DEF UpInv, UpDone, UpStored, Up!vars
<1>5. ASSUME NEW q \in Requests PROVE UpHeldSubmit(q)'
  <2>1. writes[<<q, 0>>] # UpRows!Nothing => db'[Up!Status(q)] = "none"
    BY DEF UpInv, UpHeldSubmit, UpSubmitting, Up!vars
  <2> QED BY <1>3, <2>1, UpSubmitStays DEF UpInv, Up!vars
<1>6. \A q \in Requests : \A k \in UpAttempts : UpHeldRun(q, k)' BY <1>3, UpRunStays DEF UpInv, Up!vars
<1>7. UpSerialInv' BY <1>1 DEF UpSerialInv, UpRows!Alone, UpMade, UpMaker, Up!Misreported, Up!vars
<1> QED BY <1>2, <1>4, <1>5, <1>6, <1>7 DEF UpInv, UpConstantsFit

LEMMA UpNextInv == UpInv /\ UpSerialInv /\ [Up!Next]_(Up!vars) => UpInv' /\ UpSerialInv'
<1> SUFFICES ASSUME UpInv, UpSerialInv, [Up!Next]_(Up!vars) PROVE UpInv' /\ UpSerialInv' OBVIOUS
<1>1. CASE UNCHANGED Up!vars BY <1>1, UpStutterKeeps
<1>2. CASE Up!Next
  BY <1>2, UpSubmitKeeps, UpInlineKeeps, UpApiKeeps, UpWorkerKeeps, UpStopKeeps DEF Up!Next, Up!Api
<1> QED BY <1>1, <1>2

\* However attempts of _run_pipeline overlap, are retried after a late
\* commit or stop, inline or in the workflow, a request marked completed has
\* its organization, its tenant and its realm.
THEOREM CompletedDone == UpConstantsFit /\ Up!Spec => []Up!CompletedIsDone
<1>1. UpInv => Up!CompletedIsDone
  BY DEF UpInv, Up!CompletedIsDone, Up!TypeOK, UpControlTyped, UpRowsTyped, UpDone
<1> QED BY <1>1, UpInitInv, UpNextInv, PTL DEF Up!Spec

\* Unless sessions overlap, the rollback of a failed pipeline has left nothing:
\* a tenant for a failed request's organization and slug is there only when a
\* request has made it that says completed, or said so until _mark_failed wrote
\* that its start, which Temporal had taken, was lost.
THEOREM FailedUndone == UpConstantsFit /\ Up!Spec => []Up!FailedIsUndone
<1>1. UpInv /\ UpSerialInv => Up!FailedIsUndone
  <2> SUFFICES ASSUME UpInv, UpSerialInv, ~overlapped, NEW q \in Requests, db[Up!Status(q)] = "failed",
                      db[Up!Tenant(db[Up!OrgOf(q)], db[Up!SlugOf(q)])] # "none"
               PROVE  \E p \in Requests : /\ db[Up!Status(p)] = "completed" \/ Up!Misreported(p)
                                         /\ db[Up!OrgOf(p)] = db[Up!OrgOf(q)]
                                         /\ db[Up!SlugOf(p)] = db[Up!SlugOf(q)]
    BY DEF Up!FailedIsUndone
  <2>1. db[Up!OrgOf(q)] \in Orgs /\ db[Up!SlugOf(q)] \in Slugs BY DEF UpInv, UpStored
  <2> QED BY <2>1 DEF UpSerialInv, UpMade, UpMaker
<1> QED BY <1>1, UpInitInv, UpNextInv, PTL DEF Up!Spec
=============================================================================
