------------------------------ MODULE Sessions ------------------------------
(***************************************************************************)
(* One account: registration, email verification, login, refresh tokens,   *)
(* logout, password reset (IdentityApplicationService), and the operators' *)
(* suspension, block and reinstatement (PlatformAdminUserService).         *)
(* Accounts share no row.                                                  *)
(*                                                                         *)
(* The password lives in Keycloak, outside the database, and as a hash in  *)
(* the credential.  Requests call Keycloak between what they read and what *)
(* they commit; call[r] is the call or commit that request r is up to.     *)
(* Requests in flight: see UnitOfWork.                                     *)
(***************************************************************************)
EXTENDS Naturals

CONSTANTS
    Passwords,
    SessionIds,       \* keys for rows of sessions
    ResetIds,         \* keys for rows of password_reset_tokens
    MaxTokens,        \* bound: refresh tokens issued
    Req

ASSUME PasswordsAssumption == "none" \notin Passwords
ASSUME MaxTokensAssumption == MaxTokens \in Nat

VARIABLES
    db, writes, overlapped,
    call,             \* call[r]: the step request r has reached
    kc,               \* the account's password at Keycloak, "none" without account
    issued,           \* refresh tokens are numbered in the order they are made
    exchanged,        \* history: how often each refresh token was exchanged
    valid             \* history: the passwords that may open the account

vars == <<db, writes, overlapped, call, kc, issued, exchanged, valid>>

User         == <<"status", "user">>
Principal    == <<"status", "principal">>
PasswordHash == <<"password_hash", "credential">>
Status(s)    == <<"session_status", s>>
RefreshHash(s) == <<"refresh_token_hash", s>>          \* 0 for NULL
Expires(s)   == <<"expires_at", s>>
OpenedBy(s)  == <<"password", s>>   \* history: the login's, until it is revoked
Reset(t)     == <<"reset", t>>

Columns ==
    {User, Principal, PasswordHash} \cup {Reset(t) : t \in ResetIds}
      \cup UNION {{Status(s), RefreshHash(s), Expires(s), OpenedBy(s)} : s \in SessionIds}

INSTANCE UnitOfWork

NoCall == [step |-> "none"]

\* A handler that goes straight to its commit.
Plain(r, new) == Begin(r, new) /\ UNCHANGED <<call, kc, issued, exchanged, valid>>

\* A handler that goes to step next with password or token arg first.
Calls(r, new, next, arg) ==
    /\ Begin(r, new)
    /\ call' = [call EXCEPT ![r] = [step |-> next, arg |-> arg]]
    /\ UNCHANGED <<kc, exchanged, valid>>

Active == {s \in SessionIds : db[Status(s)] = "active"}
CanAct == db[User] = "active" /\ db[Principal] = "active"

\* Rows new with the sessions S revoked, as _revoke_session does.
Revoked(new, S) ==
    [c \in Columns |-> IF \E s \in S : c = Status(s) THEN "revoked"
                       ELSE IF \E s \in S : c = RefreshHash(s) THEN 0
                       ELSE IF \E s \in S : c = OpenedBy(s) THEN "none"
                       ELSE new[c]]

\* resolve_user_from_access_token accepts the session's access token.
Usable(s) == s \in Active /\ db[Expires(s)] = "later" /\ CanAct

-----------------------------------------------------------------------------
(* Registration and verification.                                          *)

RegisterUser(r, p) ==
    /\ db[User] = "none"
    /\ Calls(r, [db EXCEPT ![User] = "pending_verification", ![Principal] = "inactive",
                           ![PasswordHash] = p], "create_user", p)
    /\ UNCHANGED issued

CreateUser(r) ==
    /\ call[r].step = "create_user" /\ kc = "none"
    /\ kc' = call[r].arg
    /\ valid' = valid \cup {call[r].arg}
    /\ call' = [call EXCEPT ![r].step = "register"]
    /\ UNCHANGED <<db, writes, overlapped, issued, exchanged>>

\* uq_users_normalized_email
RegisterCommit(r) ==
    /\ call[r].step = "register" /\ db[User] = "none"
    /\ Commit(r)
    /\ call' = [call EXCEPT ![r] = NoCall]
    /\ UNCHANGED <<kc, issued, exchanged, valid>>

\* A registration that fails deletes the Keycloak user, if it still can.
RegisterUndo(r) ==
    /\ call[r].step = "register"
    /\ Abort(r)
    /\ kc' \in {kc, "none"}
    /\ call' = [call EXCEPT ![r] = NoCall]
    /\ UNCHANGED <<issued, exchanged, valid>>

VerifyEmail(r) ==
    /\ db[User] = "pending_verification"
    /\ Plain(r, [db EXCEPT ![User] = "active", ![Principal] = "active"])

-----------------------------------------------------------------------------
(* Login and refresh.                                                      *)

\* What _issue_tokens leaves.  A credential from before hashes were kept gets
\* the hash of the password Keycloak accepts.
LoggedIn(s, p) ==
    [db EXCEPT ![Status(s)] = "active", ![RefreshHash(s)] = issued + 1,
               ![Expires(s)] = "later", ![OpenedBy(s)] = p,
               ![PasswordHash] = IF @ = "none" THEN p ELSE @]

Login(r, p, s) ==
    /\ CanAct
    /\ Fresh(Status(s)) /\ issued < MaxTokens
    /\ issued' = issued + 1
    /\ Calls(r, LoggedIn(s, p), "authenticate", [password |-> p, hash |-> db[PasswordHash]])

\* Keycloak decides.  When it refuses, the hash the request has loaded does,
\* and the password is put back into Keycloak.
KeycloakSubjectForLogin(r) ==
    /\ call[r].step = "authenticate"
    /\ LET p == call[r].arg.password IN
       /\ kc = p \/ call[r].arg.hash = p
       /\ kc' = p
    /\ call' = [call EXCEPT ![r] = NoCall]
    /\ UNCHANGED <<db, writes, overlapped, issued, exchanged, valid>>

Rotated(s) == [db EXCEPT ![RefreshHash(s)] = issued + 1, ![Expires(s)] = "later"]

\* The session is revoked when it has expired, when token is not its present
\* one, or when the account may not act.
MustRevoke(s, token) ==
    \/ db[Expires(s)] = "past"
    \/ db[RefreshHash(s)] \notin {0, token}
    \/ db[RefreshHash(s)] = token /\ ~CanAct

RefreshRevokes(r, s, token) ==
    /\ s \in Active /\ MustRevoke(s, token)
    /\ Plain(r, Revoked(db, {s}))

\* Mutant: the new refresh token can be one that was used before.
RefreshToken_Reuses(r, s, token) ==
    /\ s \in Active /\ ~MustRevoke(s, token) /\ db[RefreshHash(s)] = token
    /\ exchanged[token] < 2
    /\ \E h \in 1 .. MaxTokens \ {token} :
          /\ issued' = IF h > issued THEN h ELSE issued
          /\ Calls(r, [db EXCEPT ![RefreshHash(s)] = h], "refresh", token)

\* Mutant: a refresh trusts the hash alone and marks its session active.
RefreshToken_Activates(r, s, token) ==
    /\ ~MustRevoke(s, token) /\ db[RefreshHash(s)] = token
    /\ issued' = IF s \in Active THEN issued + 1 ELSE issued
    /\ issued' <= MaxTokens
    /\ Calls(r, [db EXCEPT ![Status(s)] = "active", ![RefreshHash(s)] = issued'], "refresh", token)

RefreshToken(r, s, token) ==
    /\ s \in Active /\ ~MustRevoke(s, token) /\ db[RefreshHash(s)] = token
    /\ issued < MaxTokens
    /\ issued' = issued + 1
    /\ Calls(r, Rotated(s), "refresh", token)

RefreshCommit(r) ==
    /\ call[r].step = "refresh"
    /\ Commit(r)
    /\ exchanged' = [exchanged EXCEPT ![call[r].arg] = @ + 1]
    /\ call' = [call EXCEPT ![r] = NoCall]
    /\ UNCHANGED <<kc, issued, valid>>

-----------------------------------------------------------------------------
(* Sessions revoked, accounts locked.                                      *)

LogoutSelf(r, s) == Usable(s) /\ Plain(r, Revoked(db, {s}))

RevokeSessionAdmin(r, s) == db[Status(s)] # "none" /\ Plain(r, Revoked(db, {s}))

RevokeOtherSessions(r, s) == Usable(s) /\ Plain(r, Revoked(db, Active \ {s}))

\* Mutant: only the account is locked.
RevokePrincipalAccess_KeepsSessions(r) ==
    /\ db[User] # "none"
    /\ Plain(r, [db EXCEPT ![User] = "locked", ![Principal] = "locked"])

RevokePrincipalAccess(r) ==
    /\ db[User] # "none"
    /\ Plain(r, Revoked([db EXCEPT ![User] = "locked", ![Principal] = "locked"], Active))

SuspendUser(r) ==
    /\ db[User] \notin {"none", "blocked"}
    /\ Plain(r, Revoked([db EXCEPT ![User] = "locked", ![Principal] = "locked"], Active))

ReinstateUser(r) ==
    /\ db[User] \notin {"none", "blocked"}
    /\ Plain(r, [db EXCEPT ![User] = "active", ![Principal] = "active"])

BlockUser(r) ==
    /\ db[User] # "none"
    /\ Plain(r, Revoked([db EXCEPT ![User] = "blocked", ![Principal] = "locked"], Active))

ResetMfa(r) == db[User] # "none" /\ Plain(r, Revoked(db, Active))

-----------------------------------------------------------------------------
(* Password reset.                                                         *)

PasswordResetRequest(r, t) ==
    /\ db[User] = "active"
    /\ Fresh(Reset(t))
    /\ Plain(r, [db EXCEPT ![Reset(t)] = "valid"])

\* First the token is used and the sessions are revoked; that is committed.
PasswordReset(r, t, p) ==
    /\ db[Reset(t)] = "valid"
    /\ Calls(r, Revoked([db EXCEPT ![Reset(t)] = "used"], Active), "revoke",
             [password |-> p, old |-> valid])
    /\ UNCHANGED issued

\* The hash is written by a second transaction of the request.
ResetCommit(r) ==
    /\ call[r].step = "revoke"
    /\ db' = [c \in Columns |-> IF c \in DOMAIN writes[r] THEN writes[r][c] ELSE db[c]]
    /\ writes' = [writes EXCEPT ![r] = [c \in {PasswordHash} |-> call[r].arg.password]]
    /\ call' = [call EXCEPT ![r].step = "set_password"]
    /\ UNCHANGED <<overlapped, kc, issued, exchanged, valid>>

SetPassword(r) ==
    /\ call[r].step = "set_password"
    /\ kc' = call[r].arg.password
    /\ valid' = valid \cup {call[r].arg.password}
    /\ call' = [call EXCEPT ![r].step = "store"]
    /\ UNCHANGED <<db, writes, overlapped, issued, exchanged>>

\* An error of Keycloak does not say whether the password was set.
SetPasswordFails(r) ==
    /\ call[r].step = "set_password"
    /\ Abort(r)
    /\ kc' \in {kc, call[r].arg.password}
    /\ valid' = valid \cup {call[r].arg.password}
    /\ call' = [call EXCEPT ![r] = NoCall]
    /\ UNCHANGED <<issued, exchanged>>

\* Mutant: the hash in the credential is forgotten.
ResetFinish_OldHash(r) ==
    /\ call[r].step = "store"
    /\ Abort(r)
    /\ valid' = (valid \ call[r].arg.old) \cup {call[r].arg.password}
    /\ call' = [call EXCEPT ![r] = NoCall]
    /\ UNCHANGED <<kc, issued, exchanged>>

\* The passwords from before the reset are out.
ResetFinish(r) ==
    /\ call[r].step = "store"
    /\ Commit(r)
    /\ valid' = (valid \ call[r].arg.old) \cup {call[r].arg.password}
    /\ call' = [call EXCEPT ![r] = NoCall]
    /\ UNCHANGED <<kc, issued, exchanged>>

-----------------------------------------------------------------------------
\* The only commit of a plain handler, or of a login Keycloak has accepted.
Finish(r) ==
    /\ call[r] = NoCall
    /\ Commit(r)
    /\ UNCHANGED <<call, kc, issued, exchanged, valid>>

\* The request is refused, fails, or its server stops: wherever it was, what
\* it has changed at Keycloak and committed before stays.
Crash(r) ==
    /\ Abort(r)
    /\ call' = [call EXCEPT ![r] = NoCall]
    /\ UNCHANGED <<kc, issued, exchanged, valid>>

\* Time passes for an active session or a reset token; Keycloak loses its
\* users (_keycloak_subject_for_login says it did).
Expire(s) ==
    /\ s \in Active /\ db[Expires(s)] = "later"
    /\ db' = [db EXCEPT ![Expires(s)] = "past"]
    /\ UNCHANGED <<writes, overlapped, call, kc, issued, exchanged, valid>>

ExpireReset(t) ==
    /\ db[Reset(t)] = "valid"
    /\ db' = [db EXCEPT ![Reset(t)] = "used"]
    /\ UNCHANGED <<writes, overlapped, call, kc, issued, exchanged, valid>>

KeycloakLost ==
    /\ kc # "none"
    /\ kc' = "none"
    /\ UNCHANGED <<db, writes, overlapped, call, issued, exchanged, valid>>

Empty == [c \in Columns |-> IF \E s \in SessionIds : c = RefreshHash(s) THEN 0 ELSE "none"]

\* Nobody has registered yet, or a verified account is there, perhaps from
\* before password hashes were kept.
Init ==
    /\ \/ db = Empty /\ kc = "none" /\ valid = {}
       \/ /\ kc \in Passwords /\ valid = {kc}
          /\ \E h \in {kc, "none"} :
                db = [Empty EXCEPT ![User] = "active", ![Principal] = "active",
                                   ![PasswordHash] = h]
    /\ writes = [r \in Req |-> Nothing]
    /\ overlapped = FALSE
    /\ call = [r \in Req |-> NoCall]
    /\ issued = 0
    /\ exchanged = [t \in 1 .. MaxTokens |-> 0]

Next ==
    \/ \E r \in Req :
        \/ \E p \in Passwords : RegisterUser(r, p)
        \/ CreateUser(r)
        \/ RegisterCommit(r)
        \/ RegisterUndo(r)
        \/ VerifyEmail(r)
        \/ \E p \in Passwords, s \in SessionIds : Login(r, p, s)
        \/ KeycloakSubjectForLogin(r)
        \/ \E s \in SessionIds, t \in 1 .. issued : RefreshRevokes(r, s, t)
        \/ \E s \in SessionIds, t \in 1 .. issued : RefreshToken(r, s, t)
        \/ RefreshCommit(r)
        \/ \E s \in SessionIds : LogoutSelf(r, s)
        \/ \E s \in SessionIds : RevokeSessionAdmin(r, s)
        \/ \E s \in SessionIds : RevokeOtherSessions(r, s)
        \/ RevokePrincipalAccess(r)
        \/ SuspendUser(r)
        \/ ReinstateUser(r)
        \/ BlockUser(r)
        \/ ResetMfa(r)
        \/ \E t \in ResetIds : PasswordResetRequest(r, t)
        \/ \E t \in ResetIds, p \in Passwords : PasswordReset(r, t, p)
        \/ ResetCommit(r)
        \/ SetPassword(r)
        \/ SetPasswordFails(r)
        \/ ResetFinish(r)
        \/ Finish(r)
        \/ Crash(r)
    \/ \E s \in SessionIds : Expire(s)
    \/ \E t \in ResetIds : ExpireReset(t)
    \/ KeycloakLost

Spec == Init /\ [][Next]_vars

-----------------------------------------------------------------------------
\* Every column and every request has its type.
TypeOK ==
    /\ DOMAIN db = Columns
    /\ db[User] \in {"none", "pending_verification", "active", "locked", "blocked"}
    /\ db[Principal] \in {"none", "inactive", "active", "locked"}
    /\ db[PasswordHash] \in Passwords \cup {"none"}
    /\ \A s \in SessionIds : /\ db[Status(s)] \in {"none", "active", "revoked"}
                             /\ db[RefreshHash(s)] \in 0 .. MaxTokens
                             /\ db[Expires(s)] \in {"none", "later", "past"}
    /\ \A t \in ResetIds : db[Reset(t)] \in {"none", "valid", "used"}
    /\ kc \in Passwords \cup {"none"}
    /\ \A r \in Req : call[r] # NoCall => writes[r] # Nothing

(* However requests interleave.                                            *)

\* A revoked session is never active again, whatever refresh, logout, reset
\* or suspension was still in flight when it was revoked.
RevokedForGood ==
    [][\A s \in SessionIds : db[Status(s)] = "revoked" => db'[Status(s)] = "revoked"]_vars

\* Nobody has a session before the email address is verified (or an operator
\* has reinstated the account), and nothing takes a verified account back.
\* While requests have not overlapped, an account that was locked or blocked has
\* no session left that its reinstatement would bring back.
InactiveHasNoSession ==
    /\ TypeOK
    /\ db[User] \in {"none", "pending_verification"} =>
          \A s \in SessionIds : db[Status(s)] = "none"
    /\ ~overlapped /\ db[User] # "active" => Active = {}

(* Requests that do not overlap.                                           *)

\* A refresh token is exchanged at most once.
RefreshedOnce == ~overlapped => \A t \in DOMAIN exchanged : exchanged[t] <= 1

\* Once a reset has answered, no other password opens the account, through
\* Keycloak or through the hash login falls back on, and no session opened
\* with another password is left, also after crashes and errors of Keycloak.
PasswordReplaced ==
    ~overlapped =>
        /\ {kc, db[PasswordHash]} \subseteq valid \cup {"none"}
        /\ \A s \in Active : db[OpenedBy(s)] \in valid

=============================================================================
