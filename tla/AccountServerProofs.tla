-------------------------- MODULE AccountServerProofs --------------------------
(***************************************************************************)
(* Proofs about AccountServer.  Handlers write back copies of records that *)
(* may be stale, so no argument about the stored record alone is           *)
(* inductive: the invariant IInv speaks of every copy, stored or carried   *)
(* by a suspended handler.  A step writes at most one new version of a     *)
(* record (Written), either under a fresh password or with the password    *)
(* and session revision of some copy; copies and cookies that carry the    *)
(* same password therefore always carry the same revision.                 *)
(***************************************************************************)
EXTENDS AccountServer, TLAPS

\* Every version of a record that is stored or still held by a handler.
Copies == {accounts[a] : a \in {x \in Accounts : Exists(x)}}
          \cup {reqs[r].rec : r \in {x \in Requests : Carries(x)}}

SameSession(x, y) == x.pw = y.pw => x.rev = y.rev

CopiesOK ==
  \A x \in Copies : /\ TokensOfPassword(x)
                    /\ x.pw \in 1..issued
                    /\ \A y \in Copies : SameSession(x, y)
                    /\ \A c \in cookies : SameSession(c, x)

CookiesOK == \A c \in cookies : c.pw <= issued

CarriedActive == \A r \in Requests : Carries(r) => reqs[r].rec.status = "active"

IInv == TypeOK /\ CopiesOK /\ CookiesOK /\ CarriedActive /\ EnvAdminNeverSuspended

-----------------------------------------------------------------------------
(* What the operators on records return. *)

LEMMA NewRecord ==
  ASSUME issued \in Nat, NEW u \in Usernames \cup {NoName}
  PROVE  /\ newRecord(u) \in Rec
         /\ newRecord(u).pw = issued + 1
         /\ newRecord(u).status = "active"
         /\ TokensOfPassword(newRecord(u))
BY DEF newRecord, Rec, Status, Token, TokensOfPassword

LEMMA AddToken ==
  ASSUME NEW rec \in Rec, NEW n \in Nat
  PROVE  /\ addToken(rec, n) \in Rec
         /\ addToken(rec, n).pw = rec.pw
         /\ addToken(rec, n).rev = rec.rev
         /\ addToken(rec, n).status = rec.status
         /\ TokensOfPassword(rec) => TokensOfPassword(addToken(rec, n))
BY DEF addToken, Rec, Token, TokensOfPassword

LEMMA Rotated ==
  ASSUME issued \in Nat, NEW rec \in Rec
  PROVE  /\ rotated(rec) \in Rec
         /\ rotated(rec).pw = issued + 1
         /\ rotated(rec).status = rec.status
         /\ TokensOfPassword(rotated(rec))
<1>1. ASSUME NEW x \in Rec
      PROVE  /\ [x EXCEPT !.pw = issued + 1] \in Rec
             /\ [x EXCEPT !.pw = issued + 1].pw = issued + 1
             /\ [x EXCEPT !.pw = issued + 1].status = x.status
  BY DEF Rec
<1>2. ASSUME NEW x \in Rec
      PROVE  /\ bumpSessionRevision(x) \in Rec
             /\ bumpSessionRevision(x).pw = x.pw
             /\ bumpSessionRevision(x).status = x.status
  BY DEF bumpSessionRevision, Rec
<1>3. ASSUME NEW x \in Rec
      PROVE  /\ replaceTokens(x, issued + 2) \in Rec
             /\ replaceTokens(x, issued + 2).pw = x.pw
             /\ replaceTokens(x, issued + 2).status = x.status
             /\ TokensOfPassword(replaceTokens(x, issued + 2))
  BY DEF replaceTokens, Rec, Token, TokensOfPassword
<1>4. PICK x \in Rec : /\ x = [rec EXCEPT !.pw = issued + 1]
                       /\ x.pw = issued + 1
                       /\ x.status = rec.status
  BY <1>1
<1>5. PICK y \in Rec : /\ y = bumpSessionRevision(x)
                       /\ y.pw = issued + 1
                       /\ y.status = rec.status
  BY <1>2, <1>4
<1>6. rotated(rec) = replaceTokens(y, issued + 2)
  BY <1>4, <1>5 DEF rotated
<1>7. QED
  BY <1>3, <1>5, <1>6

LEMMA CreateOrUpdate ==
  ASSUME issued \in Nat, NEW prev \in Rec \cup {NoRec}, NEW rotate \in BOOLEAN,
         NEW u \in Usernames \cup {NoName}
  PROVE  LET new == createOrUpdateAccount(prev, rotate, u) IN
         /\ new \in Rec
         /\ new.pw = issued + 1
         /\ new.status = IF prev = NoRec THEN "active" ELSE prev.status
         /\ TokensOfPassword(new)
<1>1. CASE prev # NoRec
  BY <1>1, Rotated DEF createOrUpdateAccount
<1>2. CASE prev = NoRec
  <2>1. newRecord(u) \in Rec
    BY NewRecord
  <2>2. addToken(newRecord(u), issued + 2) \in Rec
        /\ addToken(newRecord(u), issued + 2).pw = issued + 1
        /\ addToken(newRecord(u), issued + 2).status = "active"
        /\ TokensOfPassword(addToken(newRecord(u), issued + 2))
    BY <2>1, NewRecord, AddToken
  <2>3. QED
    BY <1>2, <2>1, <2>2, NewRecord DEF createOrUpdateAccount
<1>3. QED
  BY <1>1, <1>2

-----------------------------------------------------------------------------
(* What a step does to the copies, and why that keeps the invariant. *)

\* A version of a record that a step may write.
Written(v) ==
  /\ v \in Rec
  /\ TokensOfPassword(v)
  /\ \/ v.pw = issued + 1 /\ issued' > issued
     \/ \E x \in Copies : v.pw = x.pw /\ v.rev = x.rev

Places(b, v) ==
  /\ accounts'[b] = v
  /\ Written(v)
  /\ b \in EnvAdmins => v.status # "suspended"

AccountsEffect ==
  \E v : \A b \in Accounts : accounts'[b] \in {accounts[b], NoRec} \/ Places(b, v)

ReqsEffect ==
  \A r \in Requests : \/ reqs'[r] = reqs[r]
                      \/ ~Carries(r)'
                      \/ \E a \in Accounts : isActive(a) /\ reqs'[r].rec = accounts[a]

CookiesEffect ==
  \A c \in cookies' :
    \/ c \in cookies
    \/ c.pw = 0
    \/ \E a \in Accounts : Exists(a)' /\ c.pw = accounts'[a].pw /\ c.rev = accounts'[a].rev

Effect == /\ TypeOK' /\ issued' >= issued
          /\ AccountsEffect /\ ReqsEffect /\ CookiesEffect

LEMMA CopyIsRecord ==
  ASSUME TypeOK
  PROVE  /\ \A x \in Copies : x \in Rec
         /\ \A a \in Accounts : Exists(a) => accounts[a] \in Copies
         /\ \A r \in Requests : Carries(r) =>
              /\ reqs[r] \in SelfCtx
              /\ reqs[r].rec \in Copies
<1>1. \A r \in Requests : Carries(r) => reqs[r] \in SelfCtx
  BY DEF TypeOK, Carries, Ctx, SelfCtx, AdminCtx, PutCtx, RegisterCtx, SelfOps, AdminOps
<1>2. \A x \in SelfCtx : x.rec \in Rec
  BY DEF SelfCtx
<1>3. \A a \in Accounts : Exists(a) => accounts[a] \in Rec
  BY DEF TypeOK, Exists
<1>4. QED
  BY <1>1, <1>2, <1>3 DEF Copies

LEMMA EffectKeepsInvariant ==
  ASSUME IInv, Effect
  PROVE  IInv'
<1>1. PICK v : \A b \in Accounts : accounts'[b] \in {accounts[b], NoRec} \/ Places(b, v)
  BY DEF Effect, AccountsEffect
<1>2. TypeOK /\ TypeOK'
  BY DEF IInv, Effect
<1>3. ASSUME NEW x \in Copies' PROVE x \in Copies \/ (x = v /\ Written(v))
  <2>1. CASE \E a \in Accounts : Exists(a)' /\ x = accounts'[a]
    BY <1>1, <1>2, <2>1, CopyIsRecord DEF Exists, Places
  <2>2. CASE \E r \in Requests : Carries(r)' /\ x = reqs'[r].rec
    BY <1>2, <2>2, CopyIsRecord DEF Effect, ReqsEffect, Carries, isActive
  <2>3. QED
    BY <1>3, <2>1, <2>2 DEF Copies
<1>4. issued \in Nat /\ issued' \in Nat /\ issued' >= issued
  BY <1>2 DEF TypeOK, Effect
<1>5. \A x \in Copies : x.pw \in 1..issued /\ TokensOfPassword(x)
  BY DEF IInv, CopiesOK
<1>6. Written(v) => v.pw \in 1..issued' /\ TokensOfPassword(v)
  BY <1>4, <1>5 DEF Written
<1>7. ASSUME NEW x \in Copies', NEW y \in Copies' PROVE SameSession(x, y)
  BY <1>3, <1>4, <1>5 DEF Written, SameSession, IInv, CopiesOK
<1>8. ASSUME NEW c \in cookies', NEW x \in Copies'
      PROVE  SameSession(c, x) /\ c.pw <= issued'
  <2>1. x.pw \in 1..issued'
    BY <1>3, <1>4, <1>5, <1>6
  <2>2. CASE c \in cookies
    <3>1. c.pw <= issued /\ c.pw \in Nat
      BY <1>2, <2>2 DEF IInv, CookiesOK, TypeOK, Cookie
    <3>2. QED
      BY <1>3, <1>4, <1>5, <2>2, <3>1 DEF Written, SameSession, IInv, CopiesOK
  <2>3. CASE c.pw = 0
    BY <1>4, <2>1, <2>3 DEF SameSession
  <2>4. CASE \E a \in Accounts : /\ Exists(a)' /\ c.pw = accounts'[a].pw
                                 /\ c.rev = accounts'[a].rev
    <3>1. PICK a \in Accounts : /\ Exists(a)' /\ c.pw = accounts'[a].pw
                                /\ c.rev = accounts'[a].rev
      BY <2>4
    <3>2. accounts'[a] \in Copies'
      BY <3>1 DEF Copies
    <3>3. QED
      BY <1>3, <1>4, <1>5, <1>6, <1>7, <3>1, <3>2 DEF SameSession
  <2>5. QED
    BY <2>2, <2>3, <2>4 DEF Effect, CookiesEffect
<1>9. CopiesOK'
  BY <1>3, <1>4, <1>5, <1>6, <1>7, <1>8 DEF CopiesOK
<1>10. CookiesOK'
  <2>1. ASSUME NEW c \in cookies' PROVE c.pw <= issued'
    <3>1. CASE c \in cookies
      BY <1>2, <1>4, <3>1 DEF IInv, CookiesOK, TypeOK, Cookie
    <3>2. CASE c.pw = 0
      BY <1>4, <3>2
    <3>3. CASE \E a \in Accounts : Exists(a)' /\ c.pw = accounts'[a].pw
      BY <1>8, <3>3 DEF Copies
    <3>4. QED
      BY <3>1, <3>2, <3>3 DEF Effect, CookiesEffect
  <2>2. QED
    BY <2>1 DEF CookiesOK
<1>11. CarriedActive'
  BY DEF CarriedActive, IInv, Effect, ReqsEffect, isActive, Carries
<1>12. EnvAdminNeverSuspended'
  BY <1>1, NamesAssumption DEF EnvAdminNeverSuspended, IInv, Places, Exists
<1>13. QED
  BY <1>2, <1>9, <1>10, <1>11, <1>12 DEF IInv

-----------------------------------------------------------------------------
(* The effect of what the handlers do to one variable. *)

AccountsType == accounts' \in [Accounts -> Rec \cup {NoRec}]

LEMMA SaveEffect ==
  ASSUME IInv, NEW a \in Accounts, NEW v, saveAccount(a, v), Written(v),
         a \in EnvAdmins => v.status # "suspended"
  PROVE  AccountsType /\ AccountsEffect /\ accounts'[a] = v /\ Exists(a)'
<1>1. accounts' = [accounts EXCEPT ![a] = v] /\ v \in Rec
  BY DEF saveAccount, Written
<1>2. accounts'[a] = v /\ \A b \in Accounts \ {a} : accounts'[b] = accounts[b]
  BY <1>1 DEF IInv, TypeOK
<1>3. AccountsType
  BY <1>1 DEF AccountsType, IInv, TypeOK
<1>4. v # NoRec
  BY <1>1, NamesAssumption
<1>5. QED
  BY <1>2, <1>3, <1>4 DEF AccountsEffect, Places, Exists

LEMMA RemoveEffect ==
  ASSUME IInv, NEW a \in Accounts, saveAccount(a, NoRec)
  PROVE  AccountsType /\ AccountsEffect
BY DEF AccountsType, AccountsEffect, saveAccount, IInv, TypeOK

LEMMA KeepEffect ==
  ASSUME IInv, UNCHANGED accounts
  PROVE  AccountsType /\ AccountsEffect
BY DEF AccountsType, AccountsEffect, IInv, TypeOK

LEMMA KeepCookies ==
  ASSUME IInv, UNCHANGED cookies
  PROVE  cookies' \in SUBSET Cookie /\ CookiesEffect
BY DEF CookiesEffect, IInv, TypeOK

LEMMA NewCookie ==
  ASSUME IInv, NEW a \in Accounts, AccountsType, setSessionCookie(a, accounts')
  PROVE  cookies' \in SUBSET Cookie /\ CookiesEffect
<1>1. CASE Exists(a)'
  <2>1. accounts'[a] \in Rec
    BY <1>1 DEF AccountsType, Exists
  <2>2. [account |-> a, rev |-> accounts'[a].rev, pw |-> accounts'[a].pw] \in Cookie
    BY <2>1 DEF Rec, Cookie
  <2>3. cookies' = cookies \cup
          {[account |-> a, rev |-> accounts'[a].rev, pw |-> accounts'[a].pw]}
    BY <1>1 DEF setSessionCookie, Exists
  <2>4. QED
    BY <1>1, <2>2, <2>3 DEF CookiesEffect, IInv, TypeOK
<1>2. CASE ~Exists(a)'
  <2>1. cookies' = cookies \cup {[account |-> a, rev |-> 0, pw |-> 0]}
    BY <1>2 DEF setSessionCookie, Exists
  <2>2. QED
    BY <2>1 DEF CookiesEffect, Cookie, IInv, TypeOK
<1>3. QED
  BY <1>1, <1>2

LEMMA KeepReqs ==
  ASSUME IInv, UNCHANGED reqs
  PROVE  reqs' \in [Requests -> Ctx \cup {Idle}] /\ ReqsEffect
BY DEF ReqsEffect, IInv, TypeOK

LEMMA FinishReqs ==
  ASSUME IInv, NEW r \in Requests, Finish(r)
  PROVE  reqs' \in [Requests -> Ctx \cup {Idle}] /\ ReqsEffect
BY DEF ReqsEffect, Finish, Carries, IInv, TypeOK

LEMMA BeginReqs ==
  ASSUME IInv, NEW r \in Requests, NEW ctx \in Ctx,
         reqs' = [reqs EXCEPT ![r] = ctx],
         \/ ctx.op \notin SelfOps
         \/ \E a \in Accounts : isActive(a) /\ ctx.rec = accounts[a]
  PROVE  reqs' \in [Requests -> Ctx \cup {Idle}] /\ ReqsEffect
<1>1. reqs' \in [Requests -> Ctx \cup {Idle}]
  BY DEF IInv, TypeOK
<1>2. reqs'[r] = ctx /\ \A q \in Requests \ {r} : reqs'[q] = reqs[q]
  BY DEF IInv, TypeOK
<1>3. QED
  BY <1>1, <1>2 DEF ReqsEffect, Carries

LEMMA EffectIntro ==
  ASSUME IInv,
         AccountsType, AccountsEffect,
         reqs' \in [Requests -> Ctx \cup {Idle}], ReqsEffect,
         cookies' \in SUBSET Cookie, CookiesEffect,
         sync' \in SUBSET Accounts, mode' \in Modes,
         issued' \in Nat, issued' >= issued
  PROVE  Effect
BY DEF Effect, TypeOK, AccountsType

LEMMA Issued ==
  ASSUME IInv, NEW n \in Nat, Issue(n)
  PROVE  issued' \in Nat /\ issued' >= issued /\ (n > 0 => issued' > issued)
BY DEF Issue, IInv, TypeOK

\* A copy with other fields than password, revision and tokens changed may be written.
LEMMA CopyWritten ==
  ASSUME IInv, NEW x \in Copies, NEW v \in Rec, v.pw = x.pw, v.rev = x.rev,
         \A t \in v.tokens : t.pw = x.pw
  PROVE  Written(v)
BY DEF Written, TokensOfPassword

LEMMA FreshWritten ==
  ASSUME IInv, NEW v \in Rec, v.pw = issued + 1, TokensOfPassword(v), issued' > issued
  PROVE  Written(v)
BY DEF Written

LEMMA NotSuspended ==
  ASSUME IInv, NEW a \in EnvAdmins, Exists(a)
  PROVE  accounts[a].status # "suspended"
BY DEF IInv, EnvAdminNeverSuspended

LEMMA Carried ==
  ASSUME IInv, NEW r \in Requests, NEW op \in SelfOps, Running(r, op)
  PROVE  /\ reqs[r] \in SelfCtx /\ reqs[r].account \in Accounts
         /\ reqs[r].rec \in Rec /\ reqs[r].rec \in Copies
         /\ reqs[r].rec.status = "active"
         /\ TokensOfPassword(reqs[r].rec)
<1>1. Carries(r)
  BY DEF Carries, Running
<1>2. QED
  BY <1>1, CopyIsRecord DEF IInv, SelfCtx, CarriedActive, CopiesOK

-----------------------------------------------------------------------------
(* The effect of each action. *)

LEMMA RegisterEffect ==
  ASSUME IInv, NEW a \in Accounts, NEW u \in Usernames, NEW m \in Modes, register(a, u, m)
  PROVE  AccountsType /\ AccountsEffect /\ issued' \in Nat /\ issued' >= issued
<1> DEFINE rec == createOrUpdateAccount(NoRec, m # "approval", u)
           new == IF m = "approval" THEN [rec EXCEPT !.status = "pending"] ELSE rec
<1>1. issued \in Nat /\ issued' \in Nat /\ issued' > issued
  BY Issued DEF register, IInv, TypeOK
<1>2. rec \in Rec /\ rec.pw = issued + 1 /\ rec.status = "active" /\ TokensOfPassword(rec)
  BY <1>1, CreateOrUpdate
<1> HIDE DEF rec
<1>3. /\ new \in Rec /\ new.pw = issued + 1 /\ TokensOfPassword(new)
      /\ new.status # "suspended"
  BY <1>2 DEF Rec, Status, TokensOfPassword
<1>4. saveAccount(a, new)
  BY DEF register, rec
<1> HIDE DEF new
<1>5. Written(new)
  BY <1>1, <1>3, FreshWritten
<1>6. QED
  BY <1>1, <1>3, <1>4, <1>5, SaveEffect

LEMMA ChangePasswordEffect ==
  ASSUME IInv, NEW a \in Accounts, changePassword(a)
  PROVE  AccountsType /\ AccountsEffect /\ issued' \in Nat /\ issued' >= issued
<1> DEFINE new == createOrUpdateAccount(accounts[a], TRUE, NoName)
<1>1. issued \in Nat /\ issued' \in Nat /\ issued' > issued
  BY Issued DEF changePassword, IInv, TypeOK
<1>2. accounts[a] \in Rec \cup {NoRec}
  BY DEF IInv, TypeOK
<1>3. /\ new \in Rec /\ new.pw = issued + 1 /\ TokensOfPassword(new)
      /\ new.status = IF accounts[a] = NoRec THEN "active" ELSE accounts[a].status
  BY <1>1, <1>2, CreateOrUpdate
<1>4. saveAccount(a, new)
  BY DEF changePassword
<1> HIDE DEF new
<1>5. Written(new)
  BY <1>1, <1>3, FreshWritten
<1>6. a \in EnvAdmins => new.status # "suspended"
  BY <1>3, NotSuspended DEF Exists
<1>7. QED
  BY <1>1, <1>4, <1>5, <1>6, SaveEffect

LEMMA AccountNextEffect ==
  ASSUME IInv, NEW a \in Accounts, AccountNext(a)
  PROVE  Effect
<1> DEFINE Rest == /\ issued' \in Nat /\ issued' >= issued
                   /\ AccountsType /\ AccountsEffect
<1>0. sync \in SUBSET Accounts /\ mode \in Modes /\ issued \in Nat
  BY DEF IInv, TypeOK
<1>1. ASSUME isActive(a) \/ Exists(a)
      PROVE  /\ accounts[a] \in Rec /\ accounts[a] \in Copies
             /\ TokensOfPassword(accounts[a])
             /\ a \in EnvAdmins => accounts[a].status # "suspended"
  BY <1>1, CopyIsRecord, NotSuspended DEF isActive, IInv, CopiesOK
<1>2. ASSUME UNCHANGED <<sync, mode, cookies, reqs>>, Rest
      PROVE  Effect
  BY <1>0, <1>2, KeepCookies, KeepReqs, EffectIntro
<1>3. ASSUME NEW u \in Usernames, AppRegister(a, u) PROVE Effect
  BY <1>0, <1>2, <1>3, RegisterEffect DEF AppRegister
<1>4. CASE AppToken(a)
  <2>1. issued' \in Nat /\ issued' > issued /\ isActive(a)
    BY <1>4, Issued DEF AppToken
  <2>2. /\ addToken(accounts[a], issued + 1) \in Rec
        /\ addToken(accounts[a], issued + 1).status = accounts[a].status
        /\ Written(addToken(accounts[a], issued + 1))
    BY <1>0, <1>1, <2>1, AddToken DEF Written
  <2>3. AccountsType /\ AccountsEffect
    BY <1>1, <1>4, <2>1, <2>2, SaveEffect DEF AppToken
  <2>4. QED
    BY <1>0, <1>2, <1>4, <2>1, <2>3 DEF AppToken
<1>5. CASE AppPassword(a)
  BY <1>2, <1>5, ChangePasswordEffect DEF AppPassword
<1>6. CASE Login(a)
  <2>1. AccountsType /\ AccountsEffect
    BY <1>6, KeepEffect DEF Login
  <2>2. setSessionCookie(a, accounts')
    BY <1>6 DEF Login, setSessionCookie
  <2>3. QED
    BY <1>0, <1>6, <2>1, <2>2, NewCookie, KeepReqs, EffectIntro DEF Login
<1>7. CASE issuePasswordReset(a)
  <2>1. Exists(a)
    BY <1>7 DEF issuePasswordReset, isActive
  <2> DEFINE new == [accounts[a] EXCEPT !.reset = TRUE]
  <2>2. /\ new \in Rec /\ new.status = accounts[a].status
        /\ new.pw = accounts[a].pw /\ new.rev = accounts[a].rev
        /\ new.tokens = accounts[a].tokens
    BY <1>0, <1>1, <2>1 DEF Rec
  <2>3. saveAccount(a, new)
    BY <1>7 DEF issuePasswordReset
  <2> HIDE DEF new
  <2>4. Written(new)
    BY <1>1, <2>1, <2>2, CopyWritten DEF TokensOfPassword
  <2>5. AccountsType /\ AccountsEffect
    BY <1>1, <2>1, <2>2, <2>3, <2>4, SaveEffect
  <2>6. QED
    BY <1>0, <1>2, <1>7, <2>1, <2>5 DEF issuePasswordReset
<1>8. CASE consumePasswordReset(a)
  <2>1. issued' \in Nat /\ issued' > issued /\ Exists(a)
    BY <1>8, Issued DEF consumePasswordReset
  <2> DEFINE old == rotated(accounts[a])
             new == [old EXCEPT !.reset = FALSE]
  <2>2. /\ old \in Rec /\ old.pw = issued + 1 /\ old.status = accounts[a].status
        /\ TokensOfPassword(old)
    BY <1>0, <1>1, <2>1, Rotated
  <2>3. saveAccount(a, new)
    BY <1>8 DEF consumePasswordReset
  <2> HIDE DEF old
  <2>4. /\ new \in Rec /\ new.pw = issued + 1 /\ new.status = accounts[a].status
        /\ TokensOfPassword(new)
    BY <2>2 DEF Rec, TokensOfPassword
  <2> HIDE DEF new
  <2>5. Written(new)
    BY <2>1, <2>4, FreshWritten
  <2>6. AccountsType /\ AccountsEffect
    BY <1>1, <2>1, <2>3, <2>4, <2>5, SaveEffect
  <2>7. QED
    BY <1>0, <1>2, <1>8, <2>1, <2>6 DEF consumePasswordReset
<1>9. CASE expiredPasswordReset(a)
  <2> DEFINE new == [accounts[a] EXCEPT !.reset = FALSE]
  <2>1. Exists(a) /\ saveAccount(a, new)
    BY <1>9 DEF expiredPasswordReset
  <2>2. /\ new \in Rec /\ new.status = accounts[a].status
        /\ new.pw = accounts[a].pw /\ new.rev = accounts[a].rev
        /\ new.tokens = accounts[a].tokens
    BY <1>1, <2>1 DEF Rec
  <2> HIDE DEF new
  <2>3. Written(new)
    BY <1>1, <2>1, <2>2, CopyWritten DEF TokensOfPassword
  <2>4. AccountsType /\ AccountsEffect
    BY <1>1, <2>1, <2>2, <2>3, SaveEffect
  <2>5. QED
    BY <1>0, <1>2, <1>9, <2>4 DEF expiredPasswordReset
<1>10. QED
  BY <1>3, <1>4, <1>5, <1>6, <1>7, <1>8, <1>9 DEF AccountNext

LEMMA CookieNextEffect ==
  ASSUME IInv, NEW c \in cookies,
         SelfToken(c) \/ SelfSyncDelete(c) \/ SelfDelete(c) \/ SessionExpires(c)
  PROVE  Effect
<1>0. sync \in SUBSET Accounts /\ mode \in Modes /\ issued \in Nat /\ c.account \in Accounts
  BY DEF IInv, TypeOK, Cookie
<1>1. CASE SelfToken(c)
  <2> DEFINE a == c.account
             new == addToken(accounts[a], issued + 1)
  <2>1. /\ accounts[a] \in Rec /\ accounts[a] \in Copies
        /\ TokensOfPassword(accounts[a])
        /\ a \in EnvAdmins => accounts[a].status # "suspended"
    BY <1>0, <1>1, CopyIsRecord, NotSuspended
       DEF SelfToken, requireUser, isActive, IInv, CopiesOK
  <2>2. issued' \in Nat /\ issued' > issued
    BY <1>1, Issued DEF SelfToken
  <2>3. new.status = accounts[a].status /\ Written(new)
    BY <1>0, <2>1, AddToken DEF Written
  <2>4. AccountsType /\ AccountsEffect
    BY <1>0, <1>1, <2>1, <2>3, SaveEffect DEF SelfToken
  <2>5. QED
    BY <1>0, <1>1, <2>2, <2>4, KeepCookies, KeepReqs, EffectIntro DEF SelfToken
<1>2. CASE SelfSyncDelete(c)
  BY <1>0, <1>2, KeepEffect, KeepCookies, KeepReqs, EffectIntro DEF SelfSyncDelete
<1>3. CASE SelfDelete(c)
  BY <1>0, <1>3, RemoveEffect, KeepCookies, KeepReqs, EffectIntro DEF SelfDelete
<1>4. CASE SessionExpires(c)
  <2>1. cookies' \in SUBSET Cookie /\ CookiesEffect
    BY <1>4 DEF SessionExpires, CookiesEffect, IInv, TypeOK
  <2>2. QED
    BY <1>0, <1>4, <2>1, KeepEffect, KeepReqs, EffectIntro DEF SessionExpires
<1>5. QED
  BY <1>1, <1>2, <1>3, <1>4

LEMMA BeginNextEffect ==
  ASSUME IInv, NEW r \in Requests, BeginNext(r)
  PROVE  Effect
<1>0. sync \in SUBSET Accounts /\ mode \in Modes /\ issued \in Nat
  BY DEF IInv, TypeOK
<1>1. ASSUME reqs' \in [Requests -> Ctx \cup {Idle}], ReqsEffect,
             UNCHANGED <<accounts, sync, mode, cookies, issued>>
      PROVE  Effect
  BY <1>0, <1>1, KeepEffect, KeepCookies, EffectIntro
<1>2. CASE RegisterBegin(r)
  <2>1. [op |-> "register", mode |-> mode] \in Ctx
    BY <1>0, <1>2 DEF RegisterBegin, Ctx, RegisterCtx
  <2>2. QED
    BY <1>1, <1>2, <2>1, BeginReqs DEF RegisterBegin, SelfOps
<1>3. ASSUME NEW c \in cookies, NEW op \in SelfOps, SelfBegin(r, c, op) PROVE Effect
  <2>1. /\ c.account \in Accounts /\ isActive(c.account)
        /\ accounts[c.account] \in Rec
    BY <1>3, CopyIsRecord DEF SelfBegin, requireUser, isActive, IInv, TypeOK, Cookie
  <2>2. [op |-> op, account |-> c.account, rec |-> accounts[c.account]] \in Ctx
    BY <1>3, <2>1 DEF Ctx, SelfCtx
  <2>3. QED
    BY <1>1, <1>3, <2>1, <2>2, BeginReqs DEF SelfBegin
<1>4. ASSUME NEW c \in cookies, NEW op \in AdminOps, AdminBegin(r, c, op) PROVE Effect
  <2>1. [op |-> op, account |-> c.account] \in Ctx /\ op \notin SelfOps
    BY <1>4 DEF Ctx, AdminCtx, IInv, TypeOK, Cookie, SelfOps, AdminOps
  <2>2. QED
    BY <1>1, <1>4, <2>1, BeginReqs DEF AdminBegin
<1>5. ASSUME NEW a \in Accounts, PutBegin(r, a) PROVE Effect
  <2>1. [op |-> "put", account |-> a] \in Ctx
    BY <1>5 DEF Ctx, PutCtx
  <2>2. QED
    BY <1>1, <1>5, <2>1, BeginReqs DEF PutBegin, SelfOps
<1>6. QED
  BY <1>2, <1>3, <1>4, <1>5 DEF BeginNext

\* A handler that writes the copy it carries, with harmless fields changed.
LEMMA SaveContextEffect ==
  ASSUME IInv, NEW r \in Requests, NEW op \in SelfOps, Running(r, op), NEW v \in Rec,
         v.pw = reqs[r].rec.pw, v.rev = reqs[r].rec.rev, v.status = reqs[r].rec.status,
         v.tokens \subseteq reqs[r].rec.tokens, saveContext(r, v)
  PROVE  Effect
<1>1. /\ reqs[r].account \in Accounts /\ reqs[r].rec \in Copies
      /\ reqs[r].rec.status = "active" /\ TokensOfPassword(reqs[r].rec)
  BY Carried
<1>2. Written(v)
  BY <1>1, CopyWritten DEF TokensOfPassword
<1>3. AccountsType /\ AccountsEffect
  BY <1>1, <1>2, SaveEffect DEF saveContext
<1>4. sync' \in SUBSET Accounts /\ mode' \in Modes /\ issued' \in Nat /\ issued' >= issued
  BY DEF saveContext, IInv, TypeOK
<1>5. QED
  BY <1>3, <1>4, FinishReqs, KeepCookies, EffectIntro DEF saveContext

LEMMA MoveEffect ==
  ASSUME IInv, NEW r \in Requests, NEW b \in Accounts, moveAccountEmail(r, b)
  PROVE  Effect
<1> DEFINE a == reqs[r].account
           v == [reqs[r].rec EXCEPT !.admin = @ \/ a \in EnvAdmins]
<1>0. sync \in SUBSET Accounts /\ mode \in Modes /\ issued \in Nat
  BY DEF IInv, TypeOK
<1>1. /\ a \in Accounts /\ reqs[r].rec \in Rec /\ reqs[r].rec \in Copies
      /\ reqs[r].rec.status = "active" /\ TokensOfPassword(reqs[r].rec)
  BY Carried DEF moveAccountEmail, SelfOps
<1>2. /\ v \in Rec /\ v.pw = reqs[r].rec.pw /\ v.rev = reqs[r].rec.rev
      /\ v.status = "active" /\ v.tokens = reqs[r].rec.tokens
  <2>1. (reqs[r].rec.admin \/ a \in EnvAdmins) \in BOOLEAN
    BY <1>1 DEF Rec
  <2>2. QED
    BY <1>1, <2>1 DEF Rec
<1>3. accounts' = [accounts EXCEPT ![a] = NoRec, ![b] = v] /\ a # b
  BY DEF moveAccountEmail
<1>4. setSessionCookie(b, accounts') /\ Finish(r) /\ UNCHANGED <<mode, issued>>
  BY DEF moveAccountEmail
<1>5. sync' \in SUBSET Accounts
  BY <1>0 DEF moveAccountEmail
<1> HIDE DEF v, a
<1>6. Written(v)
  BY <1>1, <1>2, CopyWritten DEF TokensOfPassword
<1>7. AccountsType /\ \A x \in Accounts : \/ accounts'[x] \in {accounts[x], NoRec}
                                          \/ x = b /\ accounts'[x] = v
  BY <1>1, <1>2, <1>3 DEF AccountsType, IInv, TypeOK
<1>8. AccountsEffect
  BY <1>2, <1>6, <1>7 DEF AccountsEffect, Places
<1>9. QED
  BY <1>0, <1>4, <1>5, <1>7, <1>8, NewCookie, FinishReqs, EffectIntro

LEMMA EndNextEffect ==
  ASSUME IInv, NEW r \in Requests, EndNext(r)
  PROVE  Effect
<1>0. /\ sync \in SUBSET Accounts /\ mode \in Modes /\ issued \in Nat
      /\ reqs[r] \in Ctx \cup {Idle}
  BY DEF IInv, TypeOK
<1>1. ASSUME NEW a \in Accounts, NEW u \in Usernames, RegisterEnd(r, a, u) PROVE Effect
  <2>1. reqs[r].mode \in Modes
    BY <1>0, <1>1 DEF RegisterEnd, Running, Ctx, SelfCtx, AdminCtx, PutCtx, RegisterCtx,
       SelfOps, AdminOps
  <2>2. AccountsType /\ AccountsEffect /\ issued' \in Nat /\ issued' >= issued
    BY <1>1, <2>1, RegisterEffect DEF RegisterEnd
  <2>3. cookies' \in SUBSET Cookie /\ CookiesEffect
    BY <1>1, <2>2, NewCookie, KeepCookies DEF RegisterEnd
  <2>4. QED
    BY <1>0, <1>1, <2>2, <2>3, FinishReqs, EffectIntro DEF RegisterEnd
<1>2. ASSUME NEW b \in Accounts, moveAccountEmail(r, b) PROVE Effect
  BY <1>2, MoveEffect
<1>3. ASSUME NEW b \in Accounts, moveAccountEmailRollback(r, b) PROVE Effect
  BY <1>0, <1>3, KeepEffect, KeepCookies, FinishReqs, EffectIntro
     DEF moveAccountEmailRollback
<1>4. CASE SameEmail(r)
  <2>1. reqs[r].account \in Accounts
    BY <1>4, Carried DEF SameEmail, SelfOps
  <2>2. AccountsType /\ AccountsEffect
    BY <1>4, KeepEffect DEF SameEmail
  <2>3. setSessionCookie(reqs[r].account, accounts')
    BY <1>4 DEF SameEmail, setSessionCookie
  <2>4. QED
    BY <1>0, <1>4, <2>1, <2>2, <2>3, NewCookie, FinishReqs, EffectIntro DEF SameEmail
<1>5. ASSUME NEW u \in Usernames, UsernameEnd(r, u) PROVE Effect
  <2> DEFINE v == [reqs[r].rec EXCEPT !.name = u]
  <2>1. Running(r, "username") /\ saveContext(r, v) /\ reqs[r].rec \in Rec
    BY <1>5, Carried DEF UsernameEnd, SelfOps
  <2>2. /\ v \in Rec /\ v.pw = reqs[r].rec.pw /\ v.rev = reqs[r].rec.rev
        /\ v.status = reqs[r].rec.status /\ v.tokens \subseteq reqs[r].rec.tokens
    BY <2>1 DEF Rec
  <2> HIDE DEF v
  <2>3. QED
    BY <2>1, <2>2, SaveContextEffect DEF SelfOps
<1>6. CASE TokenDeleteEnd(r)
  <2>1. PICK t \in reqs[r].rec.tokens :
          saveContext(r, [reqs[r].rec EXCEPT !.tokens = @ \ {t}])
    BY <1>6 DEF TokenDeleteEnd
  <2> DEFINE v == [reqs[r].rec EXCEPT !.tokens = @ \ {t}]
  <2>2. Running(r, "tokenDelete") /\ saveContext(r, v) /\ reqs[r].rec \in Rec
    BY <1>6, <2>1, Carried DEF TokenDeleteEnd, SelfOps
  <2>3. /\ v \in Rec /\ v.pw = reqs[r].rec.pw /\ v.rev = reqs[r].rec.rev
        /\ v.status = reqs[r].rec.status /\ v.tokens \subseteq reqs[r].rec.tokens
    BY <2>2 DEF Rec
  <2> HIDE DEF v
  <2>4. QED
    BY <2>2, <2>3, SaveContextEffect DEF SelfOps
<1>7. CASE TotpEnableEnd(r)
  <2> DEFINE v == [reqs[r].rec EXCEPT !.totp = TRUE]
  <2>1. Running(r, "totpEnable") /\ saveContext(r, v) /\ reqs[r].rec \in Rec
    BY <1>7, Carried DEF TotpEnableEnd, SelfOps
  <2>2. /\ v \in Rec /\ v.pw = reqs[r].rec.pw /\ v.rev = reqs[r].rec.rev
        /\ v.status = reqs[r].rec.status /\ v.tokens \subseteq reqs[r].rec.tokens
    BY <2>1 DEF Rec
  <2> HIDE DEF v
  <2>3. QED
    BY <2>1, <2>2, SaveContextEffect DEF SelfOps
<1>8. CASE TotpDisableEnd(r)
  <2> DEFINE v == [reqs[r].rec EXCEPT !.totp = FALSE]
  <2>1. Running(r, "totpDisable") /\ saveContext(r, v) /\ reqs[r].rec \in Rec
    BY <1>8, Carried DEF TotpDisableEnd, SelfOps
  <2>2. /\ v \in Rec /\ v.pw = reqs[r].rec.pw /\ v.rev = reqs[r].rec.rev
        /\ v.status = reqs[r].rec.status /\ v.tokens \subseteq reqs[r].rec.tokens
    BY <2>1 DEF Rec
  <2> HIDE DEF v
  <2>3. QED
    BY <2>1, <2>2, SaveContextEffect DEF SelfOps
<1>9. CASE PasswordEnd(r)
  <2>1. reqs[r].account \in Accounts
    BY <1>9, Carried DEF PasswordEnd, SelfOps
  <2>2. AccountsType /\ AccountsEffect /\ issued' \in Nat /\ issued' >= issued
    BY <1>9, <2>1, ChangePasswordEffect DEF PasswordEnd
  <2>3. QED
    BY <1>0, <1>9, <2>1, <2>2, NewCookie, FinishReqs, EffectIntro DEF PasswordEnd
<1>10. CASE DeleteEnd(r)
  <2>1. reqs[r].account \in Accounts
    BY <1>10, Carried DEF DeleteEnd, SelfOps
  <2>2. QED
    BY <1>0, <1>10, <2>1, RemoveEffect, KeepCookies, FinishReqs, EffectIntro DEF DeleteEnd
<1>11. CASE WriteSyncEnd(r)
  <2>1. reqs[r].account \in Accounts
    BY <1>0, <1>11 DEF WriteSyncEnd, Running, Ctx, SelfCtx, AdminCtx, PutCtx, RegisterCtx,
       SelfOps, AdminOps
  <2>2. QED
    BY <1>0, <1>11, <2>1, KeepEffect, KeepCookies, FinishReqs, EffectIntro DEF WriteSyncEnd
<1>12. ASSUME NEW m \in Modes, AdminSettingsEnd(r, m) PROVE Effect
  BY <1>0, <1>12, KeepEffect, KeepCookies, FinishReqs, EffectIntro DEF AdminSettingsEnd
<1>13. ASSUME NEW a \in Accounts,
              NEW v \in Rec, Exists(a), saveAccount(a, v),
              v.pw = accounts[a].pw, v.rev = accounts[a].rev,
              v.tokens = accounts[a].tokens, a \in EnvAdmins => v.status # "suspended",
              Finish(r), UNCHANGED <<sync, mode, cookies, issued>>
       PROVE  Effect
  <2>1. accounts[a] \in Copies /\ TokensOfPassword(accounts[a])
    BY <1>13, CopyIsRecord DEF IInv, CopiesOK
  <2>2. Written(v)
    BY <1>13, <2>1, CopyWritten DEF TokensOfPassword
  <2>3. AccountsType /\ AccountsEffect
    BY <1>13, <2>2, SaveEffect
  <2>4. QED
    BY <1>0, <1>13, <2>3, KeepCookies, FinishReqs, EffectIntro
<1>14. ASSUME NEW a \in Accounts, NEW s \in Status, AdminStatusEnd(r, a, s) PROVE Effect
  <2> DEFINE v == [accounts[a] EXCEPT !.status = s]
  <2>1. Exists(a) /\ saveAccount(a, v) /\ accounts[a] \in Rec
    BY <1>14, CopyIsRecord DEF AdminStatusEnd, IInv
  <2>2. /\ v \in Rec /\ v.pw = accounts[a].pw /\ v.rev = accounts[a].rev
        /\ v.tokens = accounts[a].tokens /\ v.status = s
    BY <2>1 DEF Rec
  <2>3. a \in EnvAdmins => s # "suspended"
    BY <1>14 DEF AdminStatusEnd
  <2> HIDE DEF v
  <2>4. QED
    BY <1>13, <1>14, <2>1, <2>2, <2>3 DEF AdminStatusEnd
<1>15. ASSUME NEW a \in Accounts, NEW b \in BOOLEAN, AdminRoleEnd(r, a, b) PROVE Effect
  <2> DEFINE v == [accounts[a] EXCEPT !.admin = b]
  <2>1. Exists(a) /\ saveAccount(a, v) /\ accounts[a] \in Rec
    BY <1>15, CopyIsRecord DEF AdminRoleEnd, IInv
  <2>2. /\ v \in Rec /\ v.pw = accounts[a].pw /\ v.rev = accounts[a].rev
        /\ v.tokens = accounts[a].tokens /\ v.status = accounts[a].status
    BY <2>1 DEF Rec
  <2>3. a \in EnvAdmins => accounts[a].status # "suspended"
    BY <2>1, NotSuspended
  <2> HIDE DEF v
  <2>4. QED
    BY <1>13, <1>15, <2>1, <2>2, <2>3 DEF AdminRoleEnd
<1>16. ASSUME NEW a \in Accounts, AdminDeleteEnd(r, a) PROVE Effect
  BY <1>0, <1>16, RemoveEffect, KeepCookies, FinishReqs, EffectIntro DEF AdminDeleteEnd
<1>17. CASE RequestFails(r)
  BY <1>0, <1>17, KeepEffect, KeepCookies, FinishReqs, EffectIntro DEF RequestFails
<1>18. QED
  BY <1>1, <1>2, <1>3, <1>4, <1>5, <1>6, <1>7, <1>8, <1>9, <1>10, <1>11, <1>12, <1>14,
     <1>15, <1>16, <1>17 DEF EndNext

-----------------------------------------------------------------------------
(* The theorems. *)

LEMMA InitInvariant == Init => IInv
<1> SUFFICES ASSUME Init PROVE IInv
  OBVIOUS
<1>1. TypeOK
  BY DEF Init, TypeOK
<1>2. Copies = {}
  BY DEF Init, Copies, Exists, Carries
<1>3. CopiesOK /\ CookiesOK
  BY <1>2 DEF Init, CopiesOK, CookiesOK
<1>4. CarriedActive
  BY DEF Init, CarriedActive, Carries
<1>5. EnvAdminNeverSuspended
  BY NamesAssumption DEF Init, EnvAdminNeverSuspended, Exists
<1>6. QED
  BY <1>1, <1>3, <1>4, <1>5 DEF IInv

LEMMA StepInvariant == IInv /\ [Next]_vars => IInv'
<1> SUFFICES ASSUME IInv, [Next]_vars PROVE IInv'
  OBVIOUS
<1>1. CASE Next
  <2>1. CASE Restart
    <3>1. reqs' \in [Requests -> Ctx \cup {Idle}] /\ ReqsEffect
      BY <2>1 DEF Restart, ReqsEffect, Carries
    <3>2. Effect
      BY <2>1, <3>1, KeepEffect, KeepCookies, EffectIntro DEF Restart, IInv, TypeOK
    <3>3. QED
      BY <3>2, EffectKeepsInvariant
  <2>2. ASSUME NEW a \in Accounts, NEW u \in Usernames, RegisterCrash(a, u)
        PROVE  IInv'
    <3> DEFINE new == createOrUpdateAccount(NoRec, FALSE, u)
    <3>1. issued \in Nat /\ issued' \in Nat /\ issued' > issued
      BY <2>2, Issued DEF RegisterCrash, IInv, TypeOK
    <3>2. /\ new \in Rec /\ new.pw = issued + 1 /\ new.status # "suspended"
          /\ TokensOfPassword(new)
      BY <3>1, CreateOrUpdate
    <3>3. saveAccount(a, new)
      BY <2>2 DEF RegisterCrash
    <3> HIDE DEF new
    <3>4. AccountsType /\ AccountsEffect
      BY <3>1, <3>2, <3>3, FreshWritten, SaveEffect
    <3>5. reqs' \in [Requests -> Ctx \cup {Idle}] /\ ReqsEffect
      BY <2>2 DEF RegisterCrash, ReqsEffect, Carries
    <3>6. Effect
      BY <2>2, <3>1, <3>4, <3>5, KeepCookies, EffectIntro DEF RegisterCrash, IInv, TypeOK
    <3>7. QED
      BY <3>6, EffectKeepsInvariant
  <2>3. QED
    BY <1>1, <2>1, <2>2, AccountNextEffect, CookieNextEffect, BeginNextEffect, EndNextEffect,
       EffectKeepsInvariant DEF Next
<1>2. CASE UNCHANGED vars
  <2>1. AccountsEffect /\ ReqsEffect /\ CookiesEffect /\ TypeOK'
    BY <1>2, KeepEffect, KeepReqs, KeepCookies DEF vars, IInv, TypeOK
  <2>2. Effect
    BY <1>2, <2>1 DEF Effect, vars, IInv, TypeOK
  <2>3. QED
    BY <2>2, EffectKeepsInvariant
<1>3. QED
  BY <1>1, <1>2

LEMMA Invariance == Spec => []IInv
BY InitInvariant, StepInvariant, PTL DEF Spec

\* Every reachable state is well typed: the files always hold complete records,
\* whichever handlers interleave.
THEOREM TypeCorrect == Spec => []TypeOK
BY Invariance, PTL DEF IInv

\* No account file ever pairs a password with a sync token added under another
\* password, for any number of accounts, addresses and suspended handlers.
THEOREM TokensMatch == Spec => []TokensMatchPassword
<1>1. IInv => TokensMatchPassword
  BY CopyIsRecord DEF IInv, CopiesOK, TokensMatchPassword
<1>2. QED
  BY <1>1, Invariance, PTL

\* No interleaving of the admin API, registrations, stale writes and address
\* changes suspends an account of SSH_VAULT2_ADMIN_ACCOUNTS.
THEOREM EnvAdminSafe == Spec => []EnvAdminNeverSuspended
BY Invariance, PTL DEF IInv

\* A session cookie that has not run out is recognized as long as the password it
\* was obtained under is the password of the account, whichever handlers overlap.
THEOREM SessionsLast == Spec => []SessionLastsWithPassword
<1>1. IInv => SessionLastsWithPassword
  <2> SUFFICES ASSUME IInv, NEW c \in cookies,
                      Exists(c.account), accounts[c.account].pw = c.pw
               PROVE  sessionAccount(c)
    BY DEF SessionLastsWithPassword
  <2>1. c.account \in Accounts
    BY DEF IInv, TypeOK, Cookie
  <2>2. accounts[c.account] \in Copies
    BY <2>1, CopyIsRecord DEF IInv
  <2>3. accounts[c.account].rev = c.rev
    BY <2>2 DEF IInv, CopiesOK, SameSession
  <2>4. QED
    BY <2>3 DEF sessionAccount, sessionRevision, Exists
<1>2. QED
  BY <1>1, Invariance, PTL
=============================================================================
