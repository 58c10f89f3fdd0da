------------------------------ MODULE Accounts ------------------------------
(***************************************************************************)
(* The accounts, logins and promocodes tables, and the handlers of         *)
(* profile.rs, admin.rs and verification/proof_of_work.rs that write them. *)
(* Every handler is a task that is suspended at each of its statements.  A *)
(* session is one request: what was asked, where its handler is, the       *)
(* handler's locals, and in the end its answer.                            *)
(*                                                                         *)
(* Random tokens never collide and are numbered in the order in which they *)
(* are drawn.  A hash is the password it was made from, or Empty, the      *)
(* string make_user inserts.  Orders are charged by module OrderLifecycle  *)
(* with a relative update, which commutes with the ones here.              *)
(***************************************************************************)
EXTENDS Integers, FiniteSets, Functions

CONSTANTS
  AccountIds, Handles, Passwords, Codes, Value, Sessions,
  NoAccount, Empty,
  FirstAccount, FirstHandle, FirstPassword  \* the user who exists already

ASSUME ValueAssumption == Value \in [Codes -> Int]
ASSUME SessionsAssumption == IsFiniteSet(Sessions)
ASSUME NamesAssumption == NoAccount \notin AccountIds /\ Empty \notin Passwords
ASSUME FirstUserAssumption ==
  /\ FirstAccount \in AccountIds
  /\ FirstHandle \in Handles
  /\ FirstPassword \in Passwords

VARIABLES
  token, balance, verified,   \* accounts by id; token 0: there is no such row
  account_id, password_hash,  \* logins by handle; NoAccount: no such row
  codes, claimed_by,          \* promocodes: those that exist, and by code
  issued,                     \* how many tokens have been drawn
  request,                    \* session -> what the client asked for
  pc, reply,                  \* session -> where its handler is, its answer
  account,                    \* session -> the account found or made
  old_token,                  \* session -> the token the request came with
  new_token                   \* session -> the token it installed, or 0

accounts   == <<token, balance, verified>>
logins     == <<account_id, password_hash>>
promocodes == <<codes, claimed_by>>
locals     == <<request, account, old_token, new_token>>

vars == <<accounts, logins, promocodes, issued, locals, pc, reply>>

-----------------------------------------------------------------------------
Pc == {"idle", "insertLogin", "find", "setHash", "rotate", "findCode", "redeem",
       "verify", "done", "gone", "panicked"}
Reply == {"nothing", "token", "rejected", "invalidToken", "error", "notFound",
          "alreadyRedeemed", "redeemed", "success"}
Request ==
  [kind : {"none", "verify"}]
    \cup [kind : {"login", "make", "reset"}, handle : Handles, password : Passwords]
    \cup [kind : {"change"}, password : Passwords]
    \cup [kind : {"redeem"}, code : Codes]

NoRequest == [kind |-> "none"]
ByHandle(k, h, p) == [kind |-> k, handle |-> h, password |-> p]

TypeOK ==
  /\ token \in [AccountIds -> Nat]
  /\ balance \in [AccountIds -> Int]
  /\ verified \in [AccountIds -> BOOLEAN]
  /\ account_id \in [Handles -> AccountIds \cup {NoAccount}]
  /\ password_hash \in [Handles -> Passwords \cup {Empty}]
  /\ codes \subseteq Codes
  /\ claimed_by \in [Codes -> AccountIds \cup {NoAccount}]
  /\ issued \in Nat
  /\ request \in [Sessions -> Request]
  /\ pc \in [Sessions -> Pc]
  /\ reply \in [Sessions -> Reply]
  /\ account \in [Sessions -> AccountIds \cup {NoAccount}]
  /\ old_token \in [Sessions -> Nat]
  /\ new_token \in [Sessions -> Nat]

\* One user exists and holds token 1; nobody has asked for anything yet.
Init ==
  /\ token = [a \in AccountIds |-> IF a = FirstAccount THEN 1 ELSE 0]
  /\ balance = [a \in AccountIds |-> 0]
  /\ verified = [a \in AccountIds |-> FALSE]
  /\ account_id = [h \in Handles |-> IF h = FirstHandle THEN FirstAccount ELSE NoAccount]
  /\ password_hash = [h \in Handles |-> IF h = FirstHandle THEN FirstPassword ELSE Empty]
  /\ codes = {}
  /\ claimed_by = [c \in Codes |-> NoAccount]
  /\ issued = 1
  /\ request = [s \in Sessions |-> NoRequest]
  /\ pc = [s \in Sessions |-> "idle"]
  /\ reply = [s \in Sessions |-> "nothing"]
  /\ account = [s \in Sessions |-> NoAccount]
  /\ old_token = [s \in Sessions |-> 0]
  /\ new_token = [s \in Sessions |-> 0]

-----------------------------------------------------------------------------
(* Steps of a session.                                                     *)

Present(a) == token[a] # 0

\* SELECT * FROM accounts WHERE token=t
Holders(t) == {a \in AccountIds : Present(a) /\ token[a] = t}

\* The tokens clients hold: the first user's, and every one they were sent.
Known == {1} \cup {new_token[s] : s \in {r \in Sessions : reply[r] = "token"}}

Begin(s, r, t) ==
  /\ pc[s] = "idle"
  /\ request' = [request EXCEPT ![s] = r]
  /\ old_token' = [old_token EXCEPT ![s] = t]

Goto(s, p)   == pc' = [pc EXCEPT ![s] = p] /\ UNCHANGED reply
Answer(s, r) == pc' = [pc EXCEPT ![s] = "done"] /\ reply' = [reply EXCEPT ![s] = r]
Find(s, a)   == account' = [account EXCEPT ![s] = a]

-----------------------------------------------------------------------------
(* login: check the password against the stored hash, then rotate the      *)
(* token.  Parsing an empty hash panics.                                   *)
CheckPassword(s, h, p) ==
  LET known == account_id[h] # NoAccount
  IN  /\ Begin(s, ByHandle("login", h, p), 0)
      /\ \/ /\ ~known \/ password_hash[h] \notin {Empty, p}
            /\ Answer(s, "rejected") /\ UNCHANGED account
         \/ /\ known /\ password_hash[h] = Empty
            /\ Goto(s, "panicked") /\ UNCHANGED account
         \/ /\ known /\ password_hash[h] = p
            /\ Goto(s, "rotate") /\ Find(s, account_id[h])
      /\ UNCHANGED <<accounts, logins, promocodes, issued, new_token>>

\* Mutant of Install: the account is looked for by the token the request came
\* with, if it came with one.
InstallByToken(s) ==
  /\ issued' = issued + 1
  /\ token' = IF request[s].kind = "login" \/ token[account[s]] = old_token[s]
              THEN [token EXCEPT ![account[s]] = issued'] ELSE token
  /\ new_token' = [new_token EXCEPT ![s] = issued']

\* Mutant of Install: only a login rotates the token.
InstallAtLogin(s) ==
  /\ issued' = issued + 1
  /\ token' = IF request[s].kind = "login"
              THEN [token EXCEPT ![account[s]] = issued'] ELSE token
  /\ new_token' = [new_token EXCEPT ![s] = token'[account[s]]]

\* A new token becomes the account's, and the answer.
Install(s) ==
  /\ issued' = issued + 1
  /\ token' = [token EXCEPT ![account[s]] = issued']
  /\ new_token' = [new_token EXCEPT ![s] = issued']

\* UPDATE accounts SET token=? WHERE id=?: the last statement of login and of
\* change_password.
RotateToken(s) ==
  /\ pc[s] = "rotate"
  /\ Install(s)
  /\ Answer(s, "token")
  /\ UNCHANGED <<balance, verified, logins, promocodes, request, account, old_token>>

-----------------------------------------------------------------------------
(* change_password, alone or called by make_user and reset_password.       *)

ChangePassword(s, t, p) ==
  /\ Begin(s, [kind |-> "change", password |-> p], t)
  /\ Goto(s, "find")
  /\ UNCHANGED <<accounts, logins, promocodes, issued, account, new_token>>

\* The admin handlers take InvalidToken for unreachable!().
FindAccount(s) ==
  /\ pc[s] = "find"
  /\ \/ \E a \in Holders(old_token[s]) : Find(s, a) /\ Goto(s, "setHash")
     \/ /\ Holders(old_token[s]) = {}
        /\ IF request[s].kind = "change" THEN Answer(s, "invalidToken")
           ELSE Goto(s, "panicked")
        /\ UNCHANGED account
  /\ UNCHANGED <<accounts, logins, promocodes, issued, request, old_token, new_token>>

\* UPDATE logins SET password_hash=? WHERE account_id=?
SetHash(s) ==
  /\ pc[s] = "setHash"
  /\ password_hash' = [h \in Handles |->
       IF account_id[h] = account[s] THEN request[s].password ELSE password_hash[h]]
  /\ Goto(s, "rotate")
  /\ UNCHANGED <<accounts, account_id, promocodes, issued, locals>>

-----------------------------------------------------------------------------
(* make_user and reset_password.                                           *)

InsertAccount(s, h, p) ==
  /\ issued' = issued + 1
  /\ Begin(s, ByHandle("make", h, p), issued')
  /\ \E a \in AccountIds :
       /\ ~Present(a)
       /\ token' = [token EXCEPT ![a] = issued']
       /\ Find(s, a)
  /\ Goto(s, "insertLogin")
  /\ UNCHANGED <<balance, verified, logins, promocodes, new_token>>

\* Mutant of InsertLogin: INSERT OR IGNORE.
InsertLoginOrIgnore(s) ==
  LET h == request[s].handle
  IN  /\ pc[s] = "insertLogin"
      /\ account_id' = IF account_id[h] = NoAccount
                       THEN [account_id EXCEPT ![h] = account[s]] ELSE account_id
      /\ Goto(s, "find")
      /\ UNCHANGED <<accounts, password_hash, promocodes, issued, locals>>

\* INSERT INTO logins with an empty hash.  The handle is the primary key: a
\* second INSERT of it fails.
InsertLogin(s) ==
  LET h == request[s].handle
  IN  /\ pc[s] = "insertLogin"
      /\ \/ /\ account_id[h] = NoAccount
            /\ account_id' = [account_id EXCEPT ![h] = account[s]]
            /\ password_hash' = [password_hash EXCEPT ![h] = Empty]
            /\ Goto(s, "find")
         \/ /\ account_id[h] # NoAccount
            /\ Answer(s, "error")
            /\ UNCHANGED logins
      /\ UNCHANGED <<accounts, promocodes, issued, locals>>

\* The account's token is read here and used by FindAccount later.
ReadToken(s, h, p) ==
  /\ \/ /\ account_id[h] = NoAccount
        /\ Begin(s, ByHandle("reset", h, p), 0)
        /\ Answer(s, "error")
     \/ /\ account_id[h] # NoAccount
        /\ Begin(s, ByHandle("reset", h, p), token[account_id[h]])
        /\ Goto(s, "find")
  /\ UNCHANGED <<accounts, logins, promocodes, issued, account, new_token>>

-----------------------------------------------------------------------------
(* Promocodes.                                                             *)

\* make_promocodes: all the codes of a request in one transaction.
MakePromocodes(C) ==
  /\ C # {} /\ C \cap codes = {}
  /\ codes' = codes \cup C
  /\ UNCHANGED <<accounts, logins, claimed_by, issued, locals, pc, reply>>

\* redeem_promocode: the account by its token, the code, the transaction.
Redeem(s, t, c) ==
  /\ Begin(s, [kind |-> "redeem", code |-> c], t)
  /\ \/ \E a \in Holders(t) : Find(s, a) /\ Goto(s, "findCode")
     \/ Holders(t) = {} /\ Answer(s, "error") /\ UNCHANGED account
  /\ UNCHANGED <<accounts, logins, promocodes, issued, new_token>>

FindCode(s) ==
  LET c == request[s].code
  IN  /\ pc[s] = "findCode"
      /\ \/ c \notin codes /\ Answer(s, "notFound")
         \/ c \in codes /\ claimed_by[c] # NoAccount /\ Answer(s, "alreadyRedeemed")
         \/ c \in codes /\ claimed_by[c] = NoAccount /\ Goto(s, "redeem")
      /\ UNCHANGED <<accounts, logins, promocodes, issued, locals>>

Credit(s) == balance' = [balance EXCEPT ![account[s]] = @ + Value[request[s].code]]

\* Mutants of Claim: the column is given the token, or forgotten.
ClaimByToken(s) == claimed_by' = [claimed_by EXCEPT ![request[s].code] = old_token[s]]
ClaimNothing(s) == UNCHANGED claimed_by

Claim(s) == claimed_by' = [claimed_by EXCEPT ![request[s].code] = account[s]]

CommitRedeem(s) ==
  /\ pc[s] = "redeem"
  /\ Credit(s) /\ Claim(s)
  /\ Answer(s, "redeemed")
  /\ UNCHANGED <<token, verified, logins, codes, issued, locals>>

-----------------------------------------------------------------------------
(* verify_challenge, for an attempt whose signature and difficulty pass.   *)

Verify(s, t) ==
  /\ Begin(s, [kind |-> "verify"], t)
  /\ IF \E a \in Holders(t) : ~verified[a] THEN Goto(s, "verify") ELSE Answer(s, "error")
  /\ UNCHANGED <<accounts, logins, promocodes, issued, account, new_token>>

\* UPDATE accounts SET verification_method=? WHERE token=?: of no row, when the
\* token was rotated meanwhile.
MarkVerified(s) ==
  /\ pc[s] = "verify"
  /\ verified' = [a \in AccountIds |-> verified[a] \/ a \in Holders(old_token[s])]
  /\ Answer(s, "success")
  /\ UNCHANGED <<token, balance, logins, promocodes, issued, locals>>

-----------------------------------------------------------------------------
Underway(s) == pc[s] \notin {"idle", "done", "gone", "panicked"}

\* Mutant of Abandon: without the transaction, the credit stays.
AbandonHalfway(s) ==
  /\ Underway(s)
  /\ Goto(s, "gone")
  /\ IF pc[s] = "redeem" THEN Credit(s) ELSE UNCHANGED balance
  /\ UNCHANGED <<token, verified, logins, promocodes, issued, locals>>

\* A statement fails, the client disconnects (its handler's future is dropped)
\* or the process ends: whatever was committed stays, a transaction rolls back.
Abandon(s) ==
  /\ Underway(s)
  /\ Goto(s, "gone")
  /\ UNCHANGED <<accounts, logins, promocodes, issued, locals>>

SessionNext(s) ==
  \/ \E h \in Handles, p \in Passwords :
       CheckPassword(s, h, p) \/ InsertAccount(s, h, p) \/ ReadToken(s, h, p)
  \/ \E t \in Known, p \in Passwords : ChangePassword(s, t, p)
  \/ \E t \in Known, c \in Codes : Redeem(s, t, c)
  \/ \E t \in Known : Verify(s, t)
  \/ RotateToken(s) \/ FindAccount(s) \/ SetHash(s) \/ InsertLogin(s)
  \/ FindCode(s) \/ CommitRedeem(s) \/ MarkVerified(s) \/ Abandon(s)

Next ==
  \/ \E s \in Sessions : SessionNext(s)
  \/ \E C \in SUBSET Codes : MakePromocodes(C)

Spec == Init /\ [][Next]_vars

-----------------------------------------------------------------------------
(* Properties.                                                             *)

Redeemed == {s \in Sessions : reply[s] = "redeemed"}
Credited == [s \in Redeemed |-> Value[request[s].code]]
RedemptionsOf(a) == {s \in Redeemed : account[s] = a}

\* Money enters an account by redemptions only, each of them whole: the balance
\* is what the account's redemptions are worth, however the handlers interleave
\* and wherever one of them dies (profile.rs:159-183).
BalanceIsRedemptions ==
  \A a \in AccountIds : balance[a] = SumFunctionOnSet(Credited, RedemptionsOf(a))

\* A redeemed code is claimed, and the account it is claimed by was credited.
ClaimsAreCredited ==
  /\ \A s \in Redeemed : claimed_by[request[s].code] # NoAccount
  /\ \A c \in Codes : claimed_by[c] # NoAccount =>
       \E s \in Redeemed : request[s].code = c /\ account[s] = claimed_by[c]

\* An account lacks a login with a password only while its make_user runs, or
\* after that ended without an answer: the hash that login cannot parse, and the
\* handle that is lost for good, come from nothing else (admin.rs:49-74).
UsableUnlessMakerFailed ==
  \A a \in AccountIds :
    Present(a) =>
      \/ \E h \in Handles : account_id[h] = a /\ password_hash[h] # Empty
      \/ \E s \in Sessions :
           request[s].kind = "make" /\ account[s] = a /\ reply[s] # "token"

\* The last token sent for an account is the valid one: a rotation that runs
\* beside another never answers with a token that was not installed, and never
\* revives an older one (profile.rs:71-79 and 118-126).
NewestTokenIsValid ==
  \A s \in Sessions :
    reply[s] = "token" =>
      \/ token[account[s]] = new_token[s]
      \/ \E r \in Sessions : /\ account[r] = account[s]
                             /\ new_token[r] > new_token[s]
                             /\ token[account[s]] = new_token[r]

Changing == {"change", "make", "reset"}

\* A token that a password change was answered for is dead, for this handler
\* and every other one, ever after.
ChangedTokenIsDead ==
  \A s \in Sessions :
    request[s].kind \in Changing /\ reply[s] = "token" => Holders(old_token[s]) = {}

-----------------------------------------------------------------------------
(* What the documentation says and the code does not do.                   *)

\* api/src/lib.rs:205 has AlreadyRedeemed for a promocode that "was redeemed
\* already": nobody else gets Ok for it.
RedeemedOnce ==
  \A s, r \in Redeemed : request[s].code = request[r].code => s = r
=============================================================================
