---------------------------- MODULE AccountServer ----------------------------
(***************************************************************************)
(* The account side of server/server.mjs: account records, sync tokens,    *)
(* session cookies, password resets, the admin API, and which accounts     *)
(* have a sync file.  Node runs one handler at a time up to its next       *)
(* await.  The only await that separates a read of shared state from a     *)
(* write that uses it is the one for the request body, so a handler that   *)
(* has one before its body is split into a Begin action, which leaves in   *)
(* reqs what the handler keeps in local variables, and an End action.      *)
(*                                                                         *)
(* Salts and sync tokens are random values: each is a fresh number, the    *)
(* next one being issued + 1.  A password is named by its salt, so a user  *)
(* never chooses an earlier password again.  Of a reset token only its     *)
(* presence in a record is kept: the mail that carries it may be late.     *)
(* There is no clock: a session cookie may run out at any moment.          *)
(***************************************************************************)
EXTENDS Naturals, FiniteSets

CONSTANTS Accounts,   \* the names an account file may have (e-mail addresses)
          Usernames,  \* login aliases
          EnvAdmins,  \* accounts of SSH_VAULT2_ADMIN_ACCOUNTS
          Requests,   \* slots for handlers suspended at an await
          NoRec,      \* loadAccount of a file that does not exist
          NoName,     \* a record without username
          Idle,       \* a free request slot
          MaxIssued   \* bound on the random values generated

VARIABLES accounts,   \* accounts/<account>.json, or NoRec
          sync,       \* the accounts that have a file sync/<account>.json
          mode,       \* registrationMode of settings.json
          cookies,    \* the session cookies handed out whose time is not over
          reqs,       \* the local variables of suspended handlers
          issued      \* random values generated so far

vars == <<accounts, sync, mode, cookies, reqs, issued>>

Status == {"active", "pending", "suspended"}
Modes  == {"open", "approval", "closed"}

\* A sync token remembers, for the properties only, the password that was
\* current in the record it was added to; so does a session cookie.
Token  == [id : Nat, pw : Nat]
Cookie == [account : Accounts, rev : Nat, pw : Nat]
Rec    == [status : Status, pw : Nat, rev : Nat, tokens : SUBSET Token,
           totp : BOOLEAN, name : Usernames \cup {NoName}, admin : BOOLEAN,
           reset : BOOLEAN]

\* Handlers that keep ctx.rec across the await, and handlers that do not use
\* the record they loaded before it.
SelfOps  == {"email", "username", "tokenDelete", "totpEnable", "totpDisable",
             "password", "delete", "import"}
AdminOps == {"settings", "status", "role", "adminDelete"}

SelfCtx     == [op : SelfOps, account : Accounts, rec : Rec]
AdminCtx    == [op : AdminOps, account : Accounts]
PutCtx      == [op : {"put"}, account : Accounts]
RegisterCtx == [op : {"register"}, mode : Modes \ {"closed"}]
Ctx         == SelfCtx \cup AdminCtx \cup PutCtx \cup RegisterCtx

ASSUME NamesAssumption ==
  /\ EnvAdmins \subseteq Accounts
  /\ NoName \notin Usernames
  /\ NoRec \notin Rec
  /\ Idle \notin Ctx
  /\ MaxIssued \in Nat

-----------------------------------------------------------------------------
(* Records *)

Exists(a) == accounts[a] # NoRec

isActive(a) == Exists(a) /\ accounts[a].status = "active"

isAdminAccount(a) == a \in EnvAdmins \/ (Exists(a) /\ accounts[a].admin)

newRecord(u) ==
  [status |-> "active", pw |-> issued + 1, rev |-> 0, tokens |-> {},
   totp |-> FALSE, name |-> u, admin |-> FALSE, reset |-> FALSE]

(* Faulty variants of the definitions below, for the mutation checks. *)
addTokenAndLogout(rec, n) ==
  [rec EXCEPT !.tokens = @ \cup {[id |-> n, pw |-> rec.pw]}, !.rev = @ + 1]
replaceTokensAppends(rec, n) ==
  [rec EXCEPT !.tokens = @ \cup {[id |-> n, pw |-> rec.pw]}]

addToken(rec, n) == [rec EXCEPT !.tokens = @ \cup {[id |-> n, pw |-> rec.pw]}]

replaceTokens(rec, n) == [rec EXCEPT !.tokens = {[id |-> n, pw |-> rec.pw]}]

bumpSessionRevision(rec) == [rec EXCEPT !.rev = @ + 1]

\* The new salt is issued + 1, the new sync token issued + 2.
rotated(rec) ==
  replaceTokens(bumpSessionRevision([rec EXCEPT !.pw = issued + 1]), issued + 2)

createOrUpdateAccount(prev, rotate, u) ==
  IF prev # NoRec THEN rotated(prev)
  ELSE IF rotate THEN addToken(newRecord(u), issued + 2)
  ELSE newRecord(u)

Holders(u) == {a \in Accounts : Exists(a) /\ accounts[a].name = u}

\* findAccountByUsername stops at the first holder in directory order.
usernameAvailable(u, own) ==
  IF Holders(u) = {} THEN TRUE ELSE own = CHOOSE a \in Holders(u) : TRUE

\* signSession reads the stored revision; a missing record counts as 0.
setSessionCookie(a, store) ==
  cookies' = cookies \cup
    {IF store[a] = NoRec THEN [account |-> a, rev |-> 0, pw |-> 0]
     ELSE [account |-> a, rev |-> store[a].rev, pw |-> store[a].pw]}

saveAccount(a, rec) == accounts' = [accounts EXCEPT ![a] = rec]

Issue(n) == issued + n <= MaxIssued /\ issued' = issued + n

sessionRevision(rec) == IF rec = NoRec THEN 0 ELSE rec.rev

\* Date.now() <= exp as long as the cookie is in cookies; a cookie that has run
\* out is null like one with another revision.
sessionAccount(c) ==
  c \in cookies /\ sessionRevision(accounts[c.account]) = c.rev

requireUser(c) == sessionAccount(c) /\ isActive(c.account)

Finish(r) == reqs' = [reqs EXCEPT ![r] = Idle]

Running(r, op) == reqs[r] # Idle /\ reqs[r].op = op

-----------------------------------------------------------------------------
Init ==
  /\ accounts = [a \in Accounts |-> NoRec]
  /\ sync = {}
  /\ mode \in Modes
  /\ cookies = {}
  /\ reqs = [r \in Requests |-> Idle]
  /\ issued = 0

-----------------------------------------------------------------------------
(* Handlers that touch the account files in one go. *)

\* Faulty variant: the registration mode is written as the account's status.
registerModeAsStatus(a, u, m) ==
  /\ ~Exists(a)
  /\ usernameAvailable(u, a)
  /\ Issue(2)
  /\ LET rec == createOrUpdateAccount(NoRec, m # "approval", u)
     IN  saveAccount(a, IF m = "approval" THEN [rec EXCEPT !.status = m] ELSE rec)

register(a, u, m) ==
  /\ ~Exists(a)
  /\ usernameAvailable(u, a)
  /\ Issue(2)
  /\ LET rec == createOrUpdateAccount(NoRec, m # "approval", u)
     IN  saveAccount(a, IF m = "approval" THEN [rec EXCEPT !.status = "pending"]
                                          ELSE rec)

\* POST /api/v1/accounts/register reads the registration mode after the body.
AppRegister(a, u) ==
  /\ mode # "closed"
  /\ register(a, u, mode)
  /\ UNCHANGED <<sync, mode, cookies, reqs>>

\* POST /api/v1/accounts/token
AppToken(a) ==
  /\ isActive(a)
  /\ Issue(1)
  /\ saveAccount(a, addToken(accounts[a], issued + 1))
  /\ UNCHANGED <<sync, mode, cookies, reqs>>

\* createOrUpdateAccount keeps the username, and checks it once more.
changePassword(a) ==
  /\ (Exists(a) /\ accounts[a].name # NoName)
       => usernameAvailable(accounts[a].name, a)
  /\ Issue(2)
  /\ saveAccount(a, createOrUpdateAccount(accounts[a], TRUE, NoName))

\* POST /api/v1/accounts/password
AppPassword(a) ==
  /\ isActive(a)
  /\ changePassword(a)
  /\ UNCHANGED <<sync, mode, cookies, reqs>>

\* POST /api/v1/self/login
Login(a) ==
  /\ isActive(a)
  /\ setSessionCookie(a, accounts)
  /\ UNCHANGED <<accounts, sync, mode, reqs, issued>>

\* POST /api/v1/self/password/forgot, while MaxIssued leaves the two values
\* that using the reset takes.
issuePasswordReset(a) ==
  /\ isActive(a)
  /\ issued + 2 <= MaxIssued
  /\ saveAccount(a, [accounts[a] EXCEPT !.reset = TRUE])
  /\ UNCHANGED <<sync, mode, cookies, reqs, issued>>

\* POST /api/v1/self/password/reset: whatever the status of the account.
consumePasswordReset(a) ==
  /\ Exists(a) /\ accounts[a].reset
  /\ Issue(2)
  /\ saveAccount(a, [rotated(accounts[a]) EXCEPT !.reset = FALSE])
  /\ UNCHANGED <<sync, mode, cookies, reqs>>

expiredPasswordReset(a) ==
  /\ Exists(a) /\ accounts[a].reset
  /\ saveAccount(a, [accounts[a] EXCEPT !.reset = FALSE])
  /\ UNCHANGED <<sync, mode, cookies, reqs, issued>>

\* POST /api/v1/self/token has no body to wait for.
SelfToken(c) ==
  /\ requireUser(c)
  /\ Issue(1)
  /\ saveAccount(c.account, addToken(accounts[c.account], issued + 1))
  /\ UNCHANGED <<sync, mode, cookies, reqs>>

\* POST /api/v1/self/sync/delete
SelfSyncDelete(c) ==
  /\ requireUser(c)
  /\ sync' = sync \ {c.account}
  /\ UNCHANGED <<accounts, mode, cookies, reqs, issued>>

\* POST /api/v1/self/delete when its body has come with the head, so that nothing runs
\* in between: this way an account may go while one handler is suspended.
SelfDelete(c) ==
  /\ requireUser(c)
  /\ saveAccount(c.account, NoRec)
  /\ sync' = sync \ {c.account}
  /\ UNCHANGED <<mode, cookies, reqs, issued>>

\* The eight hours of a cookie are over.
SessionExpires(c) ==
  /\ cookies' = cookies \ {c}
  /\ UNCHANGED <<accounts, sync, mode, reqs, issued>>

-----------------------------------------------------------------------------
(* The part of a handler before the await of its body. *)

RegisterBegin(r) ==
  /\ reqs[r] = Idle
  /\ mode # "closed"
  /\ reqs' = [reqs EXCEPT ![r] = [op |-> "register", mode |-> mode]]
  /\ UNCHANGED <<accounts, sync, mode, cookies, issued>>

SelfBegin(r, c, op) ==
  /\ reqs[r] = Idle
  /\ requireUser(c)
  /\ reqs' = [reqs EXCEPT ![r] = [op |-> op, account |-> c.account,
                                  rec |-> accounts[c.account]]]
  /\ UNCHANGED <<accounts, sync, mode, cookies, issued>>

AdminBegin(r, c, op) ==
  /\ reqs[r] = Idle
  /\ requireUser(c)
  /\ isAdminAccount(c.account)
  /\ reqs' = [reqs EXCEPT ![r] = [op |-> op, account |-> c.account]]
  /\ UNCHANGED <<accounts, sync, mode, cookies, issued>>

\* PUT /api/v1/sync/<account> with one of the account's sync tokens.
PutBegin(r, a) ==
  /\ reqs[r] = Idle
  /\ isActive(a) /\ accounts[a].tokens # {}
  /\ reqs' = [reqs EXCEPT ![r] = [op |-> "put", account |-> a]]
  /\ UNCHANGED <<accounts, sync, mode, cookies, issued>>

-----------------------------------------------------------------------------
(* The part after the await: ctx.rec may be stale here. *)

RegisterEnd(r, a, u) ==
  /\ Running(r, "register")
  /\ register(a, u, reqs[r].mode)
  /\ IF reqs[r].mode = "approval" THEN UNCHANGED cookies
                                  ELSE setSessionCookie(a, accounts')
  /\ Finish(r)
  /\ UNCHANGED <<sync, mode>>

\* moveAccountEmail when every file operation succeeds.
moveAccountEmail(r, b) ==
  LET a == reqs[r].account IN
  /\ Running(r, "email")
  /\ a # b /\ ~Exists(b) /\ b \notin sync
  /\ Exists(a)
  /\ accounts' = [accounts EXCEPT
       ![a] = NoRec,
       ![b] = [reqs[r].rec EXCEPT !.admin = @ \/ a \in EnvAdmins]]
  /\ sync' = IF a \in sync THEN (sync \ {a}) \cup {b} ELSE sync
  /\ setSessionCookie(b, accounts')
  /\ Finish(r)
  /\ UNCHANGED <<mode, issued>>

\* moveAccountEmail when the old account file is gone: its unlink throws
\* after the old sync file was removed, and the rollback removes the new one.
moveAccountEmailRollback(r, b) ==
  LET a == reqs[r].account IN
  /\ Running(r, "email")
  /\ a # b /\ ~Exists(b) /\ b \notin sync
  /\ ~Exists(a)
  /\ sync' = sync \ {a}
  /\ Finish(r)
  /\ UNCHANGED <<accounts, mode, cookies, issued>>

\* The new address is the old one: only a new cookie.
SameEmail(r) ==
  /\ Running(r, "email")
  /\ setSessionCookie(reqs[r].account, accounts)
  /\ Finish(r)
  /\ UNCHANGED <<accounts, sync, mode, issued>>

\* Faulty variant: writing a copy back ends the account's sessions.
saveContextAndLogout(r, rec) ==
  /\ saveAccount(reqs[r].account, bumpSessionRevision(rec))
  /\ Finish(r)
  /\ UNCHANGED <<sync, mode, cookies, issued>>

saveContext(r, rec) ==
  /\ saveAccount(reqs[r].account, rec)
  /\ Finish(r)
  /\ UNCHANGED <<sync, mode, cookies, issued>>

UsernameEnd(r, u) ==
  /\ Running(r, "username")
  /\ usernameAvailable(u, reqs[r].account)
  /\ saveContext(r, [reqs[r].rec EXCEPT !.name = u])

TokenDeleteEnd(r) ==
  /\ Running(r, "tokenDelete")
  /\ \E t \in reqs[r].rec.tokens :
       saveContext(r, [reqs[r].rec EXCEPT !.tokens = @ \ {t}])

TotpEnableEnd(r) ==
  /\ Running(r, "totpEnable")
  /\ saveContext(r, [reqs[r].rec EXCEPT !.totp = TRUE])

TotpDisableEnd(r) ==
  /\ Running(r, "totpDisable")
  /\ saveContext(r, [reqs[r].rec EXCEPT !.totp = FALSE])

\* Loads the record again: only the password check uses the stale one.
PasswordEnd(r) ==
  /\ Running(r, "password")
  /\ changePassword(reqs[r].account)
  /\ setSessionCookie(reqs[r].account, accounts')
  /\ Finish(r)
  /\ UNCHANGED <<sync, mode>>

DeleteEnd(r) ==
  /\ Running(r, "delete")
  /\ saveAccount(reqs[r].account, NoRec)
  /\ sync' = sync \ {reqs[r].account}
  /\ Finish(r)
  /\ UNCHANGED <<mode, cookies, issued>>

\* importOwnData and the PUT of a sync blob write the sync file of the account
\* named at the beginning, whatever has become of the account.
WriteSyncEnd(r) ==
  /\ Running(r, "import") \/ Running(r, "put")
  /\ sync' = sync \cup {reqs[r].account}
  /\ Finish(r)
  /\ UNCHANGED <<accounts, mode, cookies, issued>>

-----------------------------------------------------------------------------
(* The admin API reloads the record it changes, but not the caller's own. *)

AdminSettingsEnd(r, m) ==
  /\ Running(r, "settings")
  /\ mode' = m
  /\ Finish(r)
  /\ UNCHANGED <<accounts, sync, cookies, issued>>

\* Faulty variant: only the caller's own account is protected.
AdminStatusEndNoEnvGuard(r, a, s) ==
  /\ Running(r, "status")
  /\ Exists(a)
  /\ a = reqs[r].account => s = "active"
  /\ saveAccount(a, [accounts[a] EXCEPT !.status = s])
  /\ Finish(r)
  /\ UNCHANGED <<sync, mode, cookies, issued>>

AdminStatusEnd(r, a, s) ==
  /\ Running(r, "status")
  /\ Exists(a)
  /\ (a = reqs[r].account \/ a \in EnvAdmins) => s = "active"
  /\ saveAccount(a, [accounts[a] EXCEPT !.status = s])
  /\ Finish(r)
  /\ UNCHANGED <<sync, mode, cookies, issued>>

AdminRoleEnd(r, a, makeAdmin) ==
  /\ Running(r, "role")
  /\ Exists(a)
  /\ (a = reqs[r].account \/ a \in EnvAdmins) => makeAdmin
  /\ saveAccount(a, [accounts[a] EXCEPT !.admin = makeAdmin])
  /\ Finish(r)
  /\ UNCHANGED <<sync, mode, cookies, issued>>

AdminDeleteEnd(r, a) ==
  /\ Running(r, "adminDelete")
  /\ a # reqs[r].account /\ a \notin EnvAdmins
  /\ Exists(a)
  /\ saveAccount(a, NoRec)
  /\ sync' = sync \ {a}
  /\ Finish(r)
  /\ UNCHANGED <<mode, cookies, issued>>

\* An error response, or a client that never completes its body.
RequestFails(r) ==
  /\ reqs[r] # Idle
  /\ Finish(r)
  /\ UNCHANGED <<accounts, sync, mode, cookies, issued>>

\* The process is restarted: suspended handlers vanish, the files and the
\* session secret stay.
Restart ==
  /\ reqs' = [r \in Requests |-> Idle]
  /\ UNCHANGED <<accounts, sync, mode, cookies, issued>>

\* The process ends between the two saves of a registration in approval mode: the
\* account is there, active.
RegisterCrash(a, u) ==
  /\ mode = "approval"
  /\ ~Exists(a) /\ usernameAvailable(u, a)
  /\ Issue(2)
  /\ saveAccount(a, createOrUpdateAccount(NoRec, FALSE, u))
  /\ reqs' = [r \in Requests |-> Idle]
  /\ UNCHANGED <<sync, mode, cookies>>

-----------------------------------------------------------------------------
AccountNext(a) ==
  \/ \E u \in Usernames : AppRegister(a, u)
  \/ AppToken(a)
  \/ AppPassword(a)
  \/ Login(a)
  \/ issuePasswordReset(a)
  \/ consumePasswordReset(a)
  \/ expiredPasswordReset(a)

BeginNext(r) ==
  \/ RegisterBegin(r)
  \/ \E c \in cookies : \/ \E op \in SelfOps : SelfBegin(r, c, op)
                        \/ \E op \in AdminOps : AdminBegin(r, c, op)
  \/ \E a \in Accounts : PutBegin(r, a)

EndNext(r) ==
  \/ \E a \in Accounts, u \in Usernames : RegisterEnd(r, a, u)
  \/ \E b \in Accounts : moveAccountEmail(r, b) \/ moveAccountEmailRollback(r, b)
  \/ SameEmail(r)
  \/ \E u \in Usernames : UsernameEnd(r, u)
  \/ TokenDeleteEnd(r)
  \/ TotpEnableEnd(r)
  \/ TotpDisableEnd(r)
  \/ PasswordEnd(r)
  \/ DeleteEnd(r)
  \/ WriteSyncEnd(r)
  \/ \E m \in Modes : AdminSettingsEnd(r, m)
  \/ \E a \in Accounts, s \in Status : AdminStatusEnd(r, a, s)
  \/ \E a \in Accounts, b \in BOOLEAN : AdminRoleEnd(r, a, b)
  \/ \E a \in Accounts : AdminDeleteEnd(r, a)
  \/ RequestFails(r)

Next ==
  \/ \E a \in Accounts : AccountNext(a)
  \/ \E c \in cookies : \/ SelfToken(c) \/ SelfSyncDelete(c) \/ SelfDelete(c)
                        \/ SessionExpires(c)
  \/ \E r \in Requests : BeginNext(r) \/ EndNext(r)
  \/ Restart \/ \E a \in Accounts, u \in Usernames : RegisterCrash(a, u)

Spec == Init /\ [][Next]_vars

-----------------------------------------------------------------------------
(* Properties *)

\* The files, the cookies and the contexts of suspended handlers have the shape
\* the handlers of server.mjs expect; in particular an address that is moved
\* away or deleted leaves no half-written record.
TypeOK ==
  /\ accounts \in [Accounts -> Rec \cup {NoRec}]
  /\ sync \in SUBSET Accounts
  /\ mode \in Modes
  /\ cookies \in SUBSET Cookie
  /\ reqs \in [Requests -> Ctx \cup {Idle}]
  /\ issued \in Nat

\* A handler suspended with a copy of an account record.
Carries(r) == reqs[r] # Idle /\ reqs[r].op \in SelfOps

TokensOfPassword(rec) == \A t \in rec.tokens : t.pw = rec.pw

\* However stale the copy a handler writes back, no record ever pairs a
\* password with a sync token that was added under another one: the token
\* replacement of createOrUpdateAccount and consumePasswordReset is one write
\* with the new salt.
TokensMatchPassword ==
  /\ \A a \in Accounts : Exists(a) => TokensOfPassword(accounts[a])
  /\ \A r \in Requests : Carries(r) => TokensOfPassword(reqs[r].rec)

\* An account named in SSH_VAULT2_ADMIN_ACCOUNTS is never suspended: not by the
\* admin API, not by a copy read before, not by another account moved to its
\* address.
EnvAdminNeverSuspended ==
  \A a \in EnvAdmins : Exists(a) => accounts[a].status # "suspended"

\* Until its eight hours are over, a cookie is recognized as long as the
\* password it was obtained under is the account's password: no sequence of
\* other changes, stale saves, moves and rollbacks makes the counter of
\* sessionAccount differ.  Nothing is said of what requireUser asks besides: the
\* cookie of a suspended account is recognized, and refused.
SessionLastsWithPassword ==
  \A c \in cookies :
    (Exists(c.account) /\ accounts[c.account].pw = c.pw) => sessionAccount(c)

(* What the tests and messages of the server promise, and a handler that    *)
(* was suspended with an old copy breaks.                                   *)

\* "password change invalidates old session and old sync tokens"
\* (server.test.mjs:489): a token that a password change or a deletion took
\* out of a record never comes back into it.
InvalidTokensStayInvalid ==
  [][\A a \in Accounts : (accounts[a] # NoRec /\ accounts'[a] # NoRec) =>
       \A t \in accounts'[a].tokens : t \in accounts[a].tokens \/ t.id > issued]_vars

\* "rejects duplicate usernames" (server.test.mjs:553): no two
\* registrations hold the same username.
UsernamesUnique ==
  \A u \in Usernames : \A a, b \in Holders(u) : accounts[a].pw = accounts[b].pw

\* "Konto, Sync-Daten und Backups geloescht." (server.mjs:785): no sync data is
\* left once the account is deleted.
SyncHasAccount == \A a \in sync : Exists(a)

\* The account of the old address does not exist after an e-mail change
\* (server.test.mjs:605): no two addresses share a password salt.
AccountHasOneAddress ==
  \A a, b \in Accounts :
    (Exists(a) /\ Exists(b) /\ accounts[a].pw = accounts[b].pw) => a = b

\* A registration after the mode was set to closed is rejected
\* (server.test.mjs:353-360): no step in that mode creates an account with a new
\* password.
ClosedModeRejects ==
  [][mode = "closed" =>
       \A a \in Accounts : (accounts[a] = NoRec /\ accounts'[a] # NoRec)
                              => accounts'[a].pw <= issued]_vars
=============================================================================
