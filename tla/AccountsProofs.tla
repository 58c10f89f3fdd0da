--------------------------- MODULE AccountsProofs ---------------------------
(***************************************************************************)
(* What holds of Accounts for any number of users, requests and codes.     *)
(***************************************************************************)
EXTENDS Accounts, SumLemmas, TLAPS

-----------------------------------------------------------------------------
(* The inductive invariant.                                                *)

\* Tokens are drawn once: none is newer than the last one drawn, and no two
\* accounts hold the same one.
TokenInv ==
  /\ issued # 0
  /\ \A a \in AccountIds : token[a] <= issued
  /\ \A a, b \in AccountIds : Present(a) /\ token[a] = token[b] => a = b
  /\ \A s \in Sessions : old_token[s] <= issued /\ new_token[s] <= issued

\* Which request a handler serves, where it is, and what it knows by then.
PositionInv ==
  \A s \in Sessions :
    /\ pc[s] \in {"insertLogin", "setHash", "rotate", "findCode", "redeem"} =>
         account[s] \in AccountIds /\ Present(account[s])
    /\ pc[s] = "insertLogin" => request[s].kind = "make"
    /\ pc[s] \in {"find", "setHash"} => request[s].kind \in Changing
    /\ pc[s] = "rotate" => request[s].kind \in Changing \cup {"login"}
    /\ pc[s] \in {"findCode", "redeem"} => request[s].kind = "redeem"
    /\ pc[s] # "done" => reply[s] = "nothing" /\ new_token[s] = 0
    /\ pc[s] = "idle" => request[s] = NoRequest
    /\ reply[s] = "token" => /\ new_token[s] # 0
                             /\ account[s] \in AccountIds /\ Present(account[s])
    /\ reply[s] = "redeemed" => request[s].kind = "redeem"

\* A login's account exists.
LoginInv ==
  \A h \in Handles : account_id[h] # NoAccount => Present(account_id[h])

\* The token a change of password came with is held by the account it found, or
\* by nobody; once the change is answered, by nobody.
OldTokenInv ==
  \A s \in Sessions : request[s].kind \in Changing =>
    /\ \/ pc[s] \in {"setHash", "rotate"}
       \/ request[s].kind = "make" /\ pc[s] \in {"insertLogin", "find"}
       => Holders(old_token[s]) \subseteq {account[s]}
    /\ reply[s] = "token" => Holders(old_token[s]) = {}

\* make_user between its INSERT and its answer.
MakerInv ==
  \A s \in Sessions : request[s].kind = "make" =>
    /\ pc[s] \in {"find", "setHash"} =>
         /\ account[s] \in AccountIds
         /\ account_id[request[s].handle] = account[s]
    /\ pc[s] = "rotate" =>
         \E h \in Handles : account_id[h] = account[s] /\ password_hash[h] # Empty

IndInv ==
  /\ TypeOK /\ TokenInv /\ PositionInv /\ LoginInv /\ OldTokenInv /\ MakerInv
  /\ ClaimsAreCredited /\ UsableUnlessMakerFailed /\ NewestTokenIsValid

-----------------------------------------------------------------------------
USE DEF accounts, logins, promocodes, locals, Begin, Goto, Answer, Find

\* The requests the actions build, and what can be read from one.
LEMMA Requests ==
  /\ NoRequest \in Request
  /\ \A k \in {"login", "make", "reset"}, h \in Handles, p \in Passwords :
       ByHandle(k, h, p) \in Request
  /\ \A p \in Passwords : [kind |-> "change", password |-> p] \in Request
  /\ \A c \in Codes : [kind |-> "redeem", code |-> c] \in Request
  /\ [kind |-> "verify"] \in Request
BY DEF Request, NoRequest, ByHandle

LEMMA RequestFields ==
  ASSUME NEW r \in Request
  PROVE  /\ r.kind \in Changing => r.password \in Passwords
         /\ r.kind \in {"login", "make", "reset"} => r.handle \in Handles
         /\ r.kind = "redeem" => r.code \in Codes
BY DEF Request, Changing

\* Every token a client holds has been drawn.
LEMMA KnownTokens ==
  ASSUME TypeOK, TokenInv
  PROVE  \A t \in Known : t \in Nat /\ t <= issued
BY DEF Known, TypeOK, TokenInv

\* Types: what a handler reads has the type its position says.
LEMMA TypeStep ==
  ASSUME IndInv, [Next]_vars
  PROVE  TypeOK'
<1> USE DEF TypeOK, Pc, Reply
<1>0. TypeOK /\ (\A t \in Known : t \in Nat)
  BY KnownTokens DEF IndInv
<1>1. ASSUME NEW s \in Sessions, NEW h \in Handles, NEW p \in Passwords,
             CheckPassword(s, h, p)
      PROVE  TypeOK'
  BY <1>0, <1>1, Requests DEF CheckPassword
<1>2. ASSUME NEW s \in Sessions, NEW h \in Handles, NEW p \in Passwords,
             InsertAccount(s, h, p)
      PROVE  TypeOK'
  BY <1>0, <1>2, Requests DEF InsertAccount
<1>3. ASSUME NEW s \in Sessions, NEW h \in Handles, NEW p \in Passwords,
             ReadToken(s, h, p)
      PROVE  TypeOK'
  BY <1>0, <1>3, Requests DEF ReadToken
<1>4. ASSUME NEW s \in Sessions, NEW t \in Known, NEW p \in Passwords,
             ChangePassword(s, t, p)
      PROVE  TypeOK'
  BY <1>0, <1>4, Requests DEF ChangePassword
<1>5. ASSUME NEW s \in Sessions, NEW t \in Known, NEW c \in Codes,
             Redeem(s, t, c)
      PROVE  TypeOK'
  BY <1>0, <1>5, Requests DEF Redeem, Holders
<1>6. ASSUME NEW s \in Sessions, NEW t \in Known,
             Verify(s, t)
      PROVE  TypeOK'
  BY <1>0, <1>6, Requests DEF Verify
<1>7. ASSUME NEW s \in Sessions,
             RotateToken(s)
      PROVE  TypeOK'
  <2>1. account[s] \in AccountIds
    BY <1>0, <1>7 DEF RotateToken, IndInv, PositionInv
  <2>2. issued' = issued + 1 /\ issued' \in Nat
    BY <1>0, <1>7 DEF RotateToken, Install
  <2>3. token' \in [AccountIds -> Nat] /\ new_token' \in [Sessions -> Nat]
    BY <1>0, <1>7, <2>1, <2>2 DEF RotateToken, Install
  <2> QED  BY <1>0, <1>7, <2>2, <2>3 DEF RotateToken
<1>8. ASSUME NEW s \in Sessions,
             FindAccount(s)
      PROVE  TypeOK'
  BY <1>0, <1>8 DEF FindAccount, Holders
<1>9. ASSUME NEW s \in Sessions,
             SetHash(s)
      PROVE  TypeOK'
  <2>1. request[s].password \in Passwords
    BY <1>0, <1>9, RequestFields DEF SetHash, IndInv, PositionInv
  <2> QED  BY <1>0, <1>9, <2>1 DEF SetHash
<1>10. ASSUME NEW s \in Sessions,
             InsertLogin(s)
      PROVE  TypeOK'
  BY <1>0, <1>10 DEF InsertLogin
<1>11. ASSUME NEW s \in Sessions,
             FindCode(s)
      PROVE  TypeOK'
  BY <1>0, <1>11 DEF FindCode
<1>12. ASSUME NEW s \in Sessions,
             CommitRedeem(s)
      PROVE  TypeOK'
  <2>1. request[s].code \in Codes /\ account[s] \in AccountIds
    BY <1>0, <1>12, RequestFields DEF CommitRedeem, IndInv, PositionInv
  <2>2. Value[request[s].code] \in Int
    BY <2>1, ValueAssumption
  <2> QED  BY <1>0, <1>12, <2>1, <2>2 DEF CommitRedeem, Credit, Claim
<1>13. ASSUME NEW s \in Sessions,
             MarkVerified(s)
      PROVE  TypeOK'
  BY <1>0, <1>13 DEF MarkVerified
<1>14. ASSUME NEW s \in Sessions,
             Abandon(s)
      PROVE  TypeOK'
  BY <1>0, <1>14 DEF Abandon, Underway
<1>15. ASSUME NEW C \in SUBSET Codes, MakePromocodes(C)
      PROVE  TypeOK'
  BY <1>0, <1>15 DEF MakePromocodes
<1>16. CASE UNCHANGED vars
  BY <1>0, <1>16 DEF vars
<1> QED
  BY <1>1, <1>2, <1>3, <1>4, <1>5, <1>6, <1>7, <1>8, <1>9, <1>10, <1>11, <1>12,
     <1>13, <1>14, <1>15, <1>16 DEF Next, SessionNext

\* Only InsertAccount and Install write a token, and it is a new one.
LEMMA TokenStep ==
  ASSUME IndInv, [Next]_vars
  PROVE  TokenInv'
<1> USE DEF TypeOK, TokenInv, Present
<1>0. TypeOK /\ TokenInv /\ (\A t \in Known : t \in Nat /\ t <= issued)
  BY KnownTokens DEF IndInv
<1>1. ASSUME NEW s \in Sessions, NEW h \in Handles, NEW p \in Passwords,
             CheckPassword(s, h, p)
      PROVE  TokenInv'
  BY <1>0, <1>1 DEF CheckPassword
<1>2. ASSUME NEW s \in Sessions, NEW h \in Handles, NEW p \in Passwords,
             InsertAccount(s, h, p)
      PROVE  TokenInv'
  BY <1>0, <1>2 DEF InsertAccount
<1>3. ASSUME NEW s \in Sessions, NEW h \in Handles, NEW p \in Passwords,
             ReadToken(s, h, p)
      PROVE  TokenInv'
  BY <1>0, <1>3 DEF ReadToken
<1>4. ASSUME NEW s \in Sessions, NEW t \in Known, NEW p \in Passwords,
             ChangePassword(s, t, p)
      PROVE  TokenInv'
  BY <1>0, <1>4 DEF ChangePassword
<1>5. ASSUME NEW s \in Sessions, NEW t \in Known, NEW c \in Codes,
             Redeem(s, t, c)
      PROVE  TokenInv'
  BY <1>0, <1>5 DEF Redeem, Holders
<1>6. ASSUME NEW s \in Sessions, NEW t \in Known,
             Verify(s, t)
      PROVE  TokenInv'
  BY <1>0, <1>6 DEF Verify
<1>7. ASSUME NEW s \in Sessions,
             RotateToken(s)
      PROVE  TokenInv'
  BY <1>0, <1>7 DEF RotateToken, Install
<1>8. ASSUME NEW s \in Sessions,
             FindAccount(s)
      PROVE  TokenInv'
  BY <1>0, <1>8 DEF FindAccount, Holders
<1>9. ASSUME NEW s \in Sessions,
             SetHash(s)
      PROVE  TokenInv'
  BY <1>0, <1>9 DEF SetHash
<1>10. ASSUME NEW s \in Sessions,
             InsertLogin(s)
      PROVE  TokenInv'
  BY <1>0, <1>10 DEF InsertLogin
<1>11. ASSUME NEW s \in Sessions,
             FindCode(s)
      PROVE  TokenInv'
  BY <1>0, <1>11 DEF FindCode
<1>12. ASSUME NEW s \in Sessions,
             CommitRedeem(s)
      PROVE  TokenInv'
  BY <1>0, <1>12 DEF CommitRedeem, Credit, Claim
<1>13. ASSUME NEW s \in Sessions,
             MarkVerified(s)
      PROVE  TokenInv'
  BY <1>0, <1>13 DEF MarkVerified
<1>14. ASSUME NEW s \in Sessions,
             Abandon(s)
      PROVE  TokenInv'
  BY <1>0, <1>14 DEF Abandon, Underway
<1>15. ASSUME NEW C \in SUBSET Codes, MakePromocodes(C)
      PROVE  TokenInv'
  BY <1>0, <1>15 DEF MakePromocodes
<1>16. CASE UNCHANGED vars
  BY <1>0, <1>16 DEF vars
<1> QED
  BY <1>1, <1>2, <1>3, <1>4, <1>5, <1>6, <1>7, <1>8, <1>9, <1>10, <1>11, <1>12,
     <1>13, <1>14, <1>15, <1>16 DEF Next, SessionNext

\* Where a request is says which account and which token it works with.
LEMMA PositionStep ==
  ASSUME IndInv, [Next]_vars
  PROVE  PositionInv'
<1> USE DEF TypeOK, PositionInv, Present
<1>0. TypeOK /\ TokenInv /\ PositionInv /\ LoginInv
  BY DEF IndInv
<1>1. ASSUME NEW s \in Sessions, NEW h \in Handles, NEW p \in Passwords,
             CheckPassword(s, h, p)
      PROVE  PositionInv'
  BY <1>0, <1>1 DEF CheckPassword, LoginInv, ByHandle
<1>2. ASSUME NEW s \in Sessions, NEW h \in Handles, NEW p \in Passwords,
             InsertAccount(s, h, p)
      PROVE  PositionInv'
  BY <1>0, <1>2 DEF InsertAccount, TokenInv, ByHandle
<1>3. ASSUME NEW s \in Sessions, NEW h \in Handles, NEW p \in Passwords,
             ReadToken(s, h, p)
      PROVE  PositionInv'
  BY <1>0, <1>3 DEF ReadToken, ByHandle, Changing
<1>4. ASSUME NEW s \in Sessions, NEW t \in Known, NEW p \in Passwords,
             ChangePassword(s, t, p)
      PROVE  PositionInv'
  BY <1>0, <1>4 DEF ChangePassword, Changing
<1>5. ASSUME NEW s \in Sessions, NEW t \in Known, NEW c \in Codes,
             Redeem(s, t, c)
      PROVE  PositionInv'
  BY <1>0, <1>5 DEF Redeem, Holders
<1>6. ASSUME NEW s \in Sessions, NEW t \in Known,
             Verify(s, t)
      PROVE  PositionInv'
  BY <1>0, <1>6 DEF Verify
<1>7. ASSUME NEW s \in Sessions,
             RotateToken(s)
      PROVE  PositionInv'
  BY <1>0, <1>7 DEF RotateToken, Install, TokenInv
<1>8. ASSUME NEW s \in Sessions,
             FindAccount(s)
      PROVE  PositionInv'
  BY <1>0, <1>8 DEF FindAccount, Holders, Changing
<1>9. ASSUME NEW s \in Sessions,
             SetHash(s)
      PROVE  PositionInv'
  BY <1>0, <1>9 DEF SetHash
<1>10. ASSUME NEW s \in Sessions,
             InsertLogin(s)
      PROVE  PositionInv'
  BY <1>0, <1>10 DEF InsertLogin, Changing
<1>11. ASSUME NEW s \in Sessions,
             FindCode(s)
      PROVE  PositionInv'
  BY <1>0, <1>11 DEF FindCode
<1>12. ASSUME NEW s \in Sessions,
             CommitRedeem(s)
      PROVE  PositionInv'
  BY <1>0, <1>12 DEF CommitRedeem, Credit, Claim
<1>13. ASSUME NEW s \in Sessions,
             MarkVerified(s)
      PROVE  PositionInv'
  BY <1>0, <1>13 DEF MarkVerified
<1>14. ASSUME NEW s \in Sessions,
             Abandon(s)
      PROVE  PositionInv'
  BY <1>0, <1>14 DEF Abandon, Underway
<1>15. ASSUME NEW C \in SUBSET Codes, MakePromocodes(C)
      PROVE  PositionInv'
  BY <1>0, <1>15 DEF MakePromocodes
<1>16. CASE UNCHANGED vars
  BY <1>0, <1>16 DEF vars
<1> QED
  BY <1>1, <1>2, <1>3, <1>4, <1>5, <1>6, <1>7, <1>8, <1>9, <1>10, <1>11, <1>12,
     <1>13, <1>14, <1>15, <1>16 DEF Next, SessionNext

\* Accounts are not deleted, and a login is inserted for one that exists.
LEMMA LoginStep ==
  ASSUME IndInv, [Next]_vars
  PROVE  LoginInv'
<1> USE DEF LoginInv, Present
<1>0. TypeOK /\ TokenInv /\ PositionInv /\ LoginInv
  BY DEF IndInv
<1>1. ASSUME NEW s \in Sessions, NEW h \in Handles, NEW p \in Passwords,
             CheckPassword(s, h, p)
      PROVE  LoginInv'
  BY <1>0, <1>1 DEF CheckPassword
<1>2. ASSUME NEW s \in Sessions, NEW h \in Handles, NEW p \in Passwords,
             InsertAccount(s, h, p)
      PROVE  LoginInv'
  BY <1>0, <1>2 DEF InsertAccount, TypeOK, TokenInv
<1>3. ASSUME NEW s \in Sessions, NEW h \in Handles, NEW p \in Passwords,
             ReadToken(s, h, p)
      PROVE  LoginInv'
  BY <1>0, <1>3 DEF ReadToken
<1>4. ASSUME NEW s \in Sessions, NEW t \in Known, NEW p \in Passwords,
             ChangePassword(s, t, p)
      PROVE  LoginInv'
  BY <1>0, <1>4 DEF ChangePassword
<1>5. ASSUME NEW s \in Sessions, NEW t \in Known, NEW c \in Codes,
             Redeem(s, t, c)
      PROVE  LoginInv'
  BY <1>0, <1>5 DEF Redeem
<1>6. ASSUME NEW s \in Sessions, NEW t \in Known,
             Verify(s, t)
      PROVE  LoginInv'
  BY <1>0, <1>6 DEF Verify
<1>7. ASSUME NEW s \in Sessions,
             RotateToken(s)
      PROVE  LoginInv'
  BY <1>0, <1>7 DEF RotateToken, Install, TypeOK, TokenInv
<1>8. ASSUME NEW s \in Sessions,
             FindAccount(s)
      PROVE  LoginInv'
  BY <1>0, <1>8 DEF FindAccount
<1>9. ASSUME NEW s \in Sessions,
             SetHash(s)
      PROVE  LoginInv'
  BY <1>0, <1>9 DEF SetHash
<1>10. ASSUME NEW s \in Sessions,
             InsertLogin(s)
      PROVE  LoginInv'
  BY <1>0, <1>10 DEF InsertLogin, TypeOK, PositionInv
<1>11. ASSUME NEW s \in Sessions,
             FindCode(s)
      PROVE  LoginInv'
  BY <1>0, <1>11 DEF FindCode
<1>12. ASSUME NEW s \in Sessions,
             CommitRedeem(s)
      PROVE  LoginInv'
  BY <1>0, <1>12 DEF CommitRedeem, Credit, Claim
<1>13. ASSUME NEW s \in Sessions,
             MarkVerified(s)
      PROVE  LoginInv'
  BY <1>0, <1>13 DEF MarkVerified
<1>14. ASSUME NEW s \in Sessions,
             Abandon(s)
      PROVE  LoginInv'
  BY <1>0, <1>14 DEF Abandon, Underway
<1>15. ASSUME NEW C \in SUBSET Codes, MakePromocodes(C)
      PROVE  LoginInv'
  BY <1>0, <1>15 DEF MakePromocodes
<1>16. CASE UNCHANGED vars
  BY <1>0, <1>16 DEF vars
<1> QED
  BY <1>1, <1>2, <1>3, <1>4, <1>5, <1>6, <1>7, <1>8, <1>9, <1>10, <1>11, <1>12,
     <1>13, <1>14, <1>15, <1>16 DEF Next, SessionNext

\* A token is newer than every token a request came with.
LEMMA OldTokenStep ==
  ASSUME IndInv, [Next]_vars
  PROVE  OldTokenInv'
<1> USE DEF TypeOK, OldTokenInv, Holders, Present
<1>0. TypeOK /\ TokenInv /\ PositionInv /\ OldTokenInv
  BY DEF IndInv
<1>1. ASSUME NEW s \in Sessions, NEW h \in Handles, NEW p \in Passwords,
             CheckPassword(s, h, p)
      PROVE  OldTokenInv'
  BY <1>0, <1>1 DEF CheckPassword, PositionInv, ByHandle, Changing
<1>2. ASSUME NEW s \in Sessions, NEW h \in Handles, NEW p \in Passwords,
             InsertAccount(s, h, p)
      PROVE  OldTokenInv'
  BY <1>0, <1>2 DEF InsertAccount, PositionInv, TokenInv, ByHandle, Changing
<1>3. ASSUME NEW s \in Sessions, NEW h \in Handles, NEW p \in Passwords,
             ReadToken(s, h, p)
      PROVE  OldTokenInv'
  BY <1>0, <1>3 DEF ReadToken, PositionInv, ByHandle, Changing
<1>4. ASSUME NEW s \in Sessions, NEW t \in Known, NEW p \in Passwords,
             ChangePassword(s, t, p)
      PROVE  OldTokenInv'
  BY <1>0, <1>4 DEF ChangePassword, PositionInv, Changing
<1>5. ASSUME NEW s \in Sessions, NEW t \in Known, NEW c \in Codes,
             Redeem(s, t, c)
      PROVE  OldTokenInv'
  BY <1>0, <1>5 DEF Redeem, PositionInv, Changing
<1>6. ASSUME NEW s \in Sessions, NEW t \in Known,
             Verify(s, t)
      PROVE  OldTokenInv'
  BY <1>0, <1>6 DEF Verify, PositionInv, Changing
<1>7. ASSUME NEW s \in Sessions,
             RotateToken(s)
      PROVE  OldTokenInv'
  BY <1>0, <1>7 DEF RotateToken, Install, PositionInv, TokenInv, Changing
<1>8. ASSUME NEW s \in Sessions,
             FindAccount(s)
      PROVE  OldTokenInv'
  BY <1>0, <1>8 DEF FindAccount, PositionInv, TokenInv, Changing
<1>9. ASSUME NEW s \in Sessions,
             SetHash(s)
      PROVE  OldTokenInv'
  BY <1>0, <1>9 DEF SetHash, PositionInv
<1>10. ASSUME NEW s \in Sessions,
             InsertLogin(s)
      PROVE  OldTokenInv'
  BY <1>0, <1>10 DEF InsertLogin, PositionInv, Changing
<1>11. ASSUME NEW s \in Sessions,
             FindCode(s)
      PROVE  OldTokenInv'
  BY <1>0, <1>11 DEF FindCode, PositionInv, Changing
<1>12. ASSUME NEW s \in Sessions,
             CommitRedeem(s)
      PROVE  OldTokenInv'
  BY <1>0, <1>12 DEF CommitRedeem, Credit, Claim, PositionInv, Changing
<1>13. ASSUME NEW s \in Sessions,
             MarkVerified(s)
      PROVE  OldTokenInv'
  BY <1>0, <1>13 DEF MarkVerified, PositionInv
<1>14. ASSUME NEW s \in Sessions,
             Abandon(s)
      PROVE  OldTokenInv'
  BY <1>0, <1>14 DEF Abandon, Underway
<1>15. ASSUME NEW C \in SUBSET Codes, MakePromocodes(C)
      PROVE  OldTokenInv'
  BY <1>0, <1>15 DEF MakePromocodes
<1>16. CASE UNCHANGED vars
  BY <1>0, <1>16 DEF vars
<1> QED
  BY <1>1, <1>2, <1>3, <1>4, <1>5, <1>6, <1>7, <1>8, <1>9, <1>10, <1>11, <1>12,
     <1>13, <1>14, <1>15, <1>16 DEF Next, SessionNext

\* Nobody takes a login from its maker, and no hash becomes empty again.
LEMMA MakerStep ==
  ASSUME IndInv, [Next]_vars
  PROVE  MakerInv'
<1> USE DEF TypeOK, MakerInv
<1>0. TypeOK /\ PositionInv /\ MakerInv /\ OldTokenInv
  BY DEF IndInv
<1>1. ASSUME NEW s \in Sessions, NEW h \in Handles, NEW p \in Passwords,
             CheckPassword(s, h, p)
      PROVE  MakerInv'
  BY <1>0, <1>1 DEF CheckPassword, PositionInv, ByHandle
<1>2. ASSUME NEW s \in Sessions, NEW h \in Handles, NEW p \in Passwords,
             InsertAccount(s, h, p)
      PROVE  MakerInv'
  BY <1>0, <1>2 DEF InsertAccount, PositionInv, ByHandle
<1>3. ASSUME NEW s \in Sessions, NEW h \in Handles, NEW p \in Passwords,
             ReadToken(s, h, p)
      PROVE  MakerInv'
  BY <1>0, <1>3 DEF ReadToken, PositionInv, ByHandle
<1>4. ASSUME NEW s \in Sessions, NEW t \in Known, NEW p \in Passwords,
             ChangePassword(s, t, p)
      PROVE  MakerInv'
  BY <1>0, <1>4 DEF ChangePassword, PositionInv
<1>5. ASSUME NEW s \in Sessions, NEW t \in Known, NEW c \in Codes,
             Redeem(s, t, c)
      PROVE  MakerInv'
  BY <1>0, <1>5 DEF Redeem, PositionInv
<1>6. ASSUME NEW s \in Sessions, NEW t \in Known,
             Verify(s, t)
      PROVE  MakerInv'
  BY <1>0, <1>6 DEF Verify, PositionInv
<1>7. ASSUME NEW s \in Sessions,
             RotateToken(s)
      PROVE  MakerInv'
  BY <1>0, <1>7 DEF RotateToken, Install, PositionInv
<1>8. ASSUME NEW s \in Sessions,
             FindAccount(s)
      PROVE  MakerInv'
  BY <1>0, <1>8 DEF FindAccount, PositionInv, OldTokenInv, Holders, Changing
<1>9. ASSUME NEW s \in Sessions,
             SetHash(s)
      PROVE  MakerInv'
  <2>1. request[s].kind \in Changing /\ request[s].password # Empty
    BY <1>0, <1>9, RequestFields, NamesAssumption DEF SetHash, PositionInv
  <2>2. \A h \in Handles :
          /\ password_hash[h] # Empty => password_hash'[h] # Empty
          /\ account_id[h] = account[s] => password_hash'[h] # Empty
    BY <1>0, <1>9, <2>1 DEF SetHash
  <2>3. request[s].kind = "make" => request[s].handle \in Handles
    BY <1>0, RequestFields
  <2>4. /\ pc[s] = "setHash" /\ pc' = [pc EXCEPT ![s] = "rotate"]
        /\ UNCHANGED <<request, account, account_id>>
    BY <1>9 DEF SetHash
  <2> QED  BY <1>0, <2>2, <2>3, <2>4
<1>10. ASSUME NEW s \in Sessions,
             InsertLogin(s)
      PROVE  MakerInv'
  BY <1>0, <1>10, NamesAssumption, RequestFields DEF InsertLogin, PositionInv
<1>11. ASSUME NEW s \in Sessions,
             FindCode(s)
      PROVE  MakerInv'
  BY <1>0, <1>11 DEF FindCode
<1>12. ASSUME NEW s \in Sessions,
             CommitRedeem(s)
      PROVE  MakerInv'
  BY <1>0, <1>12 DEF CommitRedeem, Credit, Claim
<1>13. ASSUME NEW s \in Sessions,
             MarkVerified(s)
      PROVE  MakerInv'
  BY <1>0, <1>13 DEF MarkVerified
<1>14. ASSUME NEW s \in Sessions,
             Abandon(s)
      PROVE  MakerInv'
  BY <1>0, <1>14 DEF Abandon, Underway
<1>15. ASSUME NEW C \in SUBSET Codes, MakePromocodes(C)
      PROVE  MakerInv'
  BY <1>0, <1>15 DEF MakePromocodes
<1>16. CASE UNCHANGED vars
  BY <1>0, <1>16 DEF vars
<1> QED
  BY <1>1, <1>2, <1>3, <1>4, <1>5, <1>6, <1>7, <1>8, <1>9, <1>10, <1>11, <1>12,
     <1>13, <1>14, <1>15, <1>16 DEF Next, SessionNext

\* The transaction writes the claim and, with its answer, the credit.
LEMMA ClaimStep ==
  ASSUME IndInv, [Next]_vars
  PROVE  ClaimsAreCredited'
<1> USE DEF TypeOK, ClaimsAreCredited, Redeemed
<1>0. TypeOK /\ PositionInv /\ ClaimsAreCredited
  BY DEF IndInv
<1>1. ASSUME NEW s \in Sessions, NEW h \in Handles, NEW p \in Passwords,
             CheckPassword(s, h, p)
      PROVE  ClaimsAreCredited'
  BY <1>0, <1>1 DEF CheckPassword, PositionInv
<1>2. ASSUME NEW s \in Sessions, NEW h \in Handles, NEW p \in Passwords,
             InsertAccount(s, h, p)
      PROVE  ClaimsAreCredited'
  BY <1>0, <1>2 DEF InsertAccount, PositionInv
<1>3. ASSUME NEW s \in Sessions, NEW h \in Handles, NEW p \in Passwords,
             ReadToken(s, h, p)
      PROVE  ClaimsAreCredited'
  BY <1>0, <1>3 DEF ReadToken, PositionInv
<1>4. ASSUME NEW s \in Sessions, NEW t \in Known, NEW p \in Passwords,
             ChangePassword(s, t, p)
      PROVE  ClaimsAreCredited'
  BY <1>0, <1>4 DEF ChangePassword, PositionInv
<1>5. ASSUME NEW s \in Sessions, NEW t \in Known, NEW c \in Codes,
             Redeem(s, t, c)
      PROVE  ClaimsAreCredited'
  BY <1>0, <1>5 DEF Redeem, PositionInv
<1>6. ASSUME NEW s \in Sessions, NEW t \in Known,
             Verify(s, t)
      PROVE  ClaimsAreCredited'
  BY <1>0, <1>6 DEF Verify, PositionInv
<1>7. ASSUME NEW s \in Sessions,
             RotateToken(s)
      PROVE  ClaimsAreCredited'
  BY <1>0, <1>7 DEF RotateToken, Install, PositionInv
<1>8. ASSUME NEW s \in Sessions,
             FindAccount(s)
      PROVE  ClaimsAreCredited'
  BY <1>0, <1>8 DEF FindAccount, PositionInv
<1>9. ASSUME NEW s \in Sessions,
             SetHash(s)
      PROVE  ClaimsAreCredited'
  BY <1>0, <1>9 DEF SetHash, PositionInv
<1>10. ASSUME NEW s \in Sessions,
             InsertLogin(s)
      PROVE  ClaimsAreCredited'
  BY <1>0, <1>10 DEF InsertLogin, PositionInv
<1>11. ASSUME NEW s \in Sessions,
             FindCode(s)
      PROVE  ClaimsAreCredited'
  BY <1>0, <1>11 DEF FindCode, PositionInv
<1>12. ASSUME NEW s \in Sessions,
             CommitRedeem(s)
      PROVE  ClaimsAreCredited'
  BY <1>0, <1>12, NamesAssumption, RequestFields DEF CommitRedeem, Credit, Claim, PositionInv
<1>13. ASSUME NEW s \in Sessions,
             MarkVerified(s)
      PROVE  ClaimsAreCredited'
  BY <1>0, <1>13 DEF MarkVerified, PositionInv
<1>14. ASSUME NEW s \in Sessions,
             Abandon(s)
      PROVE  ClaimsAreCredited'
  BY <1>0, <1>14 DEF Abandon, Underway, PositionInv
<1>15. ASSUME NEW C \in SUBSET Codes, MakePromocodes(C)
      PROVE  ClaimsAreCredited'
  BY <1>0, <1>15 DEF MakePromocodes
<1>16. CASE UNCHANGED vars
  BY <1>0, <1>16 DEF vars
<1> QED
  BY <1>1, <1>2, <1>3, <1>4, <1>5, <1>6, <1>7, <1>8, <1>9, <1>10, <1>11, <1>12,
     <1>13, <1>14, <1>15, <1>16 DEF Next, SessionNext

\* A maker answers only once its login has a hash.
LEMMA UsableStep ==
  ASSUME IndInv, [Next]_vars
  PROVE  UsableUnlessMakerFailed'
<1> USE DEF TypeOK, UsableUnlessMakerFailed, Present
<1>0. TypeOK /\ PositionInv /\ MakerInv /\ OldTokenInv /\ UsableUnlessMakerFailed
  BY DEF IndInv
<1>1. ASSUME NEW s \in Sessions, NEW h \in Handles, NEW p \in Passwords,
             CheckPassword(s, h, p)
      PROVE  UsableUnlessMakerFailed'
  BY <1>0, <1>1 DEF CheckPassword, PositionInv, NoRequest
<1>2. ASSUME NEW s \in Sessions, NEW h \in Handles, NEW p \in Passwords,
             InsertAccount(s, h, p)
      PROVE  UsableUnlessMakerFailed'
  BY <1>0, <1>2 DEF InsertAccount, PositionInv, ByHandle, NoRequest
<1>3. ASSUME NEW s \in Sessions, NEW h \in Handles, NEW p \in Passwords,
             ReadToken(s, h, p)
      PROVE  UsableUnlessMakerFailed'
  BY <1>0, <1>3 DEF ReadToken, PositionInv, NoRequest
<1>4. ASSUME NEW s \in Sessions, NEW t \in Known, NEW p \in Passwords,
             ChangePassword(s, t, p)
      PROVE  UsableUnlessMakerFailed'
  BY <1>0, <1>4 DEF ChangePassword, PositionInv, NoRequest
<1>5. ASSUME NEW s \in Sessions, NEW t \in Known, NEW c \in Codes,
             Redeem(s, t, c)
      PROVE  UsableUnlessMakerFailed'
  BY <1>0, <1>5 DEF Redeem, PositionInv, NoRequest
<1>6. ASSUME NEW s \in Sessions, NEW t \in Known,
             Verify(s, t)
      PROVE  UsableUnlessMakerFailed'
  BY <1>0, <1>6 DEF Verify, PositionInv, NoRequest
<1>7. ASSUME NEW s \in Sessions,
             RotateToken(s)
      PROVE  UsableUnlessMakerFailed'
  BY <1>0, <1>7 DEF RotateToken, Install, MakerInv, PositionInv
<1>8. ASSUME NEW s \in Sessions,
             FindAccount(s)
      PROVE  UsableUnlessMakerFailed'
  BY <1>0, <1>8 DEF FindAccount, PositionInv, OldTokenInv, Holders, Changing
<1>9. ASSUME NEW s \in Sessions,
             SetHash(s)
      PROVE  UsableUnlessMakerFailed'
  <2>1. request[s].password # Empty
    BY <1>0, <1>9, RequestFields, NamesAssumption DEF SetHash, PositionInv
  <2> QED  BY <1>0, <1>9, <2>1 DEF SetHash
<1>10. ASSUME NEW s \in Sessions,
             InsertLogin(s)
      PROVE  UsableUnlessMakerFailed'
  BY <1>0, <1>10, NamesAssumption DEF InsertLogin, PositionInv
<1>11. ASSUME NEW s \in Sessions,
             FindCode(s)
      PROVE  UsableUnlessMakerFailed'
  BY <1>0, <1>11 DEF FindCode, PositionInv
<1>12. ASSUME NEW s \in Sessions,
             CommitRedeem(s)
      PROVE  UsableUnlessMakerFailed'
  BY <1>0, <1>12 DEF CommitRedeem, Credit, Claim, PositionInv
<1>13. ASSUME NEW s \in Sessions,
             MarkVerified(s)
      PROVE  UsableUnlessMakerFailed'
  BY <1>0, <1>13 DEF MarkVerified, PositionInv
<1>14. ASSUME NEW s \in Sessions,
             Abandon(s)
      PROVE  UsableUnlessMakerFailed'
  BY <1>0, <1>14 DEF Abandon, Underway, PositionInv
<1>15. ASSUME NEW C \in SUBSET Codes, MakePromocodes(C)
      PROVE  UsableUnlessMakerFailed'
  BY <1>0, <1>15 DEF MakePromocodes
<1>16. CASE UNCHANGED vars
  BY <1>0, <1>16 DEF vars
<1> QED
  BY <1>1, <1>2, <1>3, <1>4, <1>5, <1>6, <1>7, <1>8, <1>9, <1>10, <1>11, <1>12,
     <1>13, <1>14, <1>15, <1>16 DEF Next, SessionNext

\* A rotation installs a token newer than every other, as its answer.
LEMMA NewestStep ==
  ASSUME IndInv, [Next]_vars
  PROVE  NewestTokenIsValid'
<1> USE DEF TypeOK, NewestTokenIsValid, Present
<1>0. TypeOK /\ TokenInv /\ PositionInv /\ NewestTokenIsValid
  BY DEF IndInv
<1>1. ASSUME NEW s \in Sessions, NEW h \in Handles, NEW p \in Passwords,
             CheckPassword(s, h, p)
      PROVE  NewestTokenIsValid'
  BY <1>0, <1>1 DEF CheckPassword, PositionInv
<1>2. ASSUME NEW s \in Sessions, NEW h \in Handles, NEW p \in Passwords,
             InsertAccount(s, h, p)
      PROVE  NewestTokenIsValid'
  BY <1>0, <1>2 DEF InsertAccount, PositionInv
<1>3. ASSUME NEW s \in Sessions, NEW h \in Handles, NEW p \in Passwords,
             ReadToken(s, h, p)
      PROVE  NewestTokenIsValid'
  BY <1>0, <1>3 DEF ReadToken, PositionInv
<1>4. ASSUME NEW s \in Sessions, NEW t \in Known, NEW p \in Passwords,
             ChangePassword(s, t, p)
      PROVE  NewestTokenIsValid'
  BY <1>0, <1>4 DEF ChangePassword, PositionInv
<1>5. ASSUME NEW s \in Sessions, NEW t \in Known, NEW c \in Codes,
             Redeem(s, t, c)
      PROVE  NewestTokenIsValid'
  BY <1>0, <1>5 DEF Redeem, PositionInv
<1>6. ASSUME NEW s \in Sessions, NEW t \in Known,
             Verify(s, t)
      PROVE  NewestTokenIsValid'
  BY <1>0, <1>6 DEF Verify, PositionInv
<1>7. ASSUME NEW s \in Sessions,
             RotateToken(s)
      PROVE  NewestTokenIsValid'
  BY <1>0, <1>7 DEF RotateToken, Install, PositionInv, TokenInv
<1>8. ASSUME NEW s \in Sessions,
             FindAccount(s)
      PROVE  NewestTokenIsValid'
  BY <1>0, <1>8 DEF FindAccount, PositionInv
<1>9. ASSUME NEW s \in Sessions,
             SetHash(s)
      PROVE  NewestTokenIsValid'
  BY <1>0, <1>9 DEF SetHash, PositionInv
<1>10. ASSUME NEW s \in Sessions,
             InsertLogin(s)
      PROVE  NewestTokenIsValid'
  BY <1>0, <1>10 DEF InsertLogin, PositionInv
<1>11. ASSUME NEW s \in Sessions,
             FindCode(s)
      PROVE  NewestTokenIsValid'
  BY <1>0, <1>11 DEF FindCode, PositionInv
<1>12. ASSUME NEW s \in Sessions,
             CommitRedeem(s)
      PROVE  NewestTokenIsValid'
  BY <1>0, <1>12 DEF CommitRedeem, Credit, Claim, PositionInv
<1>13. ASSUME NEW s \in Sessions,
             MarkVerified(s)
      PROVE  NewestTokenIsValid'
  BY <1>0, <1>13 DEF MarkVerified, PositionInv
<1>14. ASSUME NEW s \in Sessions,
             Abandon(s)
      PROVE  NewestTokenIsValid'
  BY <1>0, <1>14 DEF Abandon, Underway, PositionInv
<1>15. ASSUME NEW C \in SUBSET Codes, MakePromocodes(C)
      PROVE  NewestTokenIsValid'
  BY <1>0, <1>15 DEF MakePromocodes
<1>16. CASE UNCHANGED vars
  BY <1>0, <1>16 DEF vars
<1> QED
  BY <1>1, <1>2, <1>3, <1>4, <1>5, <1>6, <1>7, <1>8, <1>9, <1>10, <1>11, <1>12,
     <1>13, <1>14, <1>15, <1>16 DEF Next, SessionNext

-----------------------------------------------------------------------------
LEMMA IndInvAlways == Spec => []IndInv
<1>1. Init => IndInv
  <2> SUFFICES ASSUME Init PROVE IndInv
    OBVIOUS
  <2> USE NamesAssumption, FirstUserAssumption DEF Init
  <2>1. TypeOK
    BY Requests DEF TypeOK, Pc, Reply
  <2>2. TokenInv /\ LoginInv
    BY DEF TokenInv, LoginInv, Present
  <2>3. PositionInv /\ OldTokenInv /\ MakerInv
    BY DEF PositionInv, OldTokenInv, MakerInv, NoRequest, Changing
  <2>4. ClaimsAreCredited /\ NewestTokenIsValid
    BY DEF ClaimsAreCredited, NewestTokenIsValid, Redeemed
  <2>5. UsableUnlessMakerFailed
    BY DEF UsableUnlessMakerFailed, Present
  <2> QED  BY <2>1, <2>2, <2>3, <2>4, <2>5 DEF IndInv
<1>2. IndInv /\ [Next]_vars => IndInv'
  BY TypeStep, TokenStep, PositionStep, LoginStep, OldTokenStep, MakerStep,
     ClaimStep, UsableStep, NewestStep DEF IndInv
<1> QED  BY <1>1, <1>2, PTL DEF Spec

\* Every variable keeps its type.
THEOREM TypeCorrect == Spec => []TypeOK
BY IndInvAlways, PTL DEF IndInv

\* A redeemed code is claimed, and by an account that was credited with it:
\* redeem_promocode's transaction, for any number of requests in flight.
THEOREM ClaimsCredited == Spec => []ClaimsAreCredited
BY IndInvAlways, PTL DEF IndInv

\* Only a make_user that got no answer leaves an account nobody can log in to.
THEOREM AnsweredUsersUsable == Spec => []UsableUnlessMakerFailed
BY IndInvAlways, PTL DEF IndInv

\* The newest token sent for an account is the one it has.
THEOREM NewestTokenValid == Spec => []NewestTokenIsValid
BY IndInvAlways, PTL DEF IndInv

\* The token of an answered change of password identifies nobody any more.
THEOREM ChangedTokensDead == Spec => []ChangedTokenIsDead
<1>1. IndInv => ChangedTokenIsDead
  BY DEF IndInv, OldTokenInv, ChangedTokenIsDead
<1> QED  BY <1>1, IndInvAlways, PTL

-----------------------------------------------------------------------------
(* Balances.                                                               *)

\* What every step but the one of CommitRedeem leaves alone.
RedemptionsKept ==
  /\ UNCHANGED <<balance, Redeemed>>
  /\ \A s \in Redeemed : request'[s] = request[s] /\ account'[s] = account[s]

LEMMA RedemptionSteps ==
  ASSUME IndInv, [Next]_vars
  PROVE  RedemptionsKept \/ \E s \in Sessions : CommitRedeem(s)
<1> USE DEF RedemptionsKept, Redeemed
<1>0. /\ TypeOK /\ pc \in [Sessions -> Pc] /\ reply \in [Sessions -> Reply]
      /\ request \in [Sessions -> Request]
      /\ account \in [Sessions -> AccountIds \cup {NoAccount}]
      /\ \A s \in Sessions : pc[s] # "done" => reply[s] = "nothing"
  BY DEF IndInv, PositionInv, TypeOK
<1>1. ASSUME NEW s \in Sessions, NEW h \in Handles, NEW p \in Passwords,
             CheckPassword(s, h, p)
      PROVE  RedemptionsKept
  BY <1>0, <1>1 DEF CheckPassword
<1>2. ASSUME NEW s \in Sessions, NEW h \in Handles, NEW p \in Passwords,
             InsertAccount(s, h, p)
      PROVE  RedemptionsKept
  BY <1>0, <1>2 DEF InsertAccount
<1>3. ASSUME NEW s \in Sessions, NEW h \in Handles, NEW p \in Passwords,
             ReadToken(s, h, p)
      PROVE  RedemptionsKept
  BY <1>0, <1>3 DEF ReadToken
<1>4. ASSUME NEW s \in Sessions, NEW t \in Known, NEW p \in Passwords,
             ChangePassword(s, t, p)
      PROVE  RedemptionsKept
  BY <1>0, <1>4 DEF ChangePassword
<1>5. ASSUME NEW s \in Sessions, NEW t \in Known, NEW c \in Codes,
             Redeem(s, t, c)
      PROVE  RedemptionsKept
  BY <1>0, <1>5 DEF Redeem
<1>6. ASSUME NEW s \in Sessions, NEW t \in Known,
             Verify(s, t)
      PROVE  RedemptionsKept
  BY <1>0, <1>6 DEF Verify
<1>7. ASSUME NEW s \in Sessions,
             RotateToken(s)
      PROVE  RedemptionsKept
  BY <1>0, <1>7 DEF RotateToken, Install
<1>8. ASSUME NEW s \in Sessions,
             FindAccount(s)
      PROVE  RedemptionsKept
  BY <1>0, <1>8 DEF FindAccount
<1>9. ASSUME NEW s \in Sessions,
             SetHash(s)
      PROVE  RedemptionsKept
  BY <1>0, <1>9 DEF SetHash
<1>10. ASSUME NEW s \in Sessions,
             InsertLogin(s)
      PROVE  RedemptionsKept
  BY <1>0, <1>10 DEF InsertLogin
<1>11. ASSUME NEW s \in Sessions,
             FindCode(s)
      PROVE  RedemptionsKept
  BY <1>0, <1>11 DEF FindCode
<1>12. ASSUME NEW s \in Sessions,
             MarkVerified(s)
      PROVE  RedemptionsKept
  BY <1>0, <1>12 DEF MarkVerified
<1>13. ASSUME NEW s \in Sessions,
             Abandon(s)
      PROVE  RedemptionsKept
  BY <1>0, <1>13 DEF Abandon, Underway
<1>14. ASSUME NEW C \in SUBSET Codes, MakePromocodes(C)
       PROVE  RedemptionsKept
  BY <1>0, <1>14 DEF MakePromocodes
<1>15. CASE UNCHANGED vars
  BY <1>0, <1>15 DEF vars
<1> HIDE DEF RedemptionsKept, Redeemed
<1> QED
  BY <1>1, <1>2, <1>3, <1>4, <1>5, <1>6, <1>7, <1>8, <1>9, <1>10, <1>11, <1>12,
     <1>13, <1>14, <1>15 DEF Next, SessionNext

\* An account's redemptions are finitely many, each worth a number.
LEMMA CreditsAreNumbers ==
  ASSUME TypeOK, PositionInv, NEW a
  PROVE  /\ IsFiniteSet(RedemptionsOf(a))
         /\ \A s \in RedemptionsOf(a) : Credited[s] \in Int
<1>1. IsFiniteSet(RedemptionsOf(a))
  BY SessionsAssumption, FS_Subset DEF RedemptionsOf, Redeemed
<1>2. ASSUME NEW s \in RedemptionsOf(a)
      PROVE  Credited[s] \in Int
  <2>1. request[s].code \in Codes
    BY RequestFields DEF RedemptionsOf, Redeemed, PositionInv, TypeOK
  <2> QED  BY <2>1, ValueAssumption DEF Credited, RedemptionsOf
<1> QED  BY <1>1, <1>2

LEMMA KeptStep ==
  ASSUME TypeOK, PositionInv, BalanceIsRedemptions, RedemptionsKept
  PROVE  BalanceIsRedemptions'
<1> SUFFICES ASSUME NEW a \in AccountIds
             PROVE  balance'[a] = SumFunctionOnSet(Credited', RedemptionsOf(a)')
  BY DEF BalanceIsRedemptions
<1>1. RedemptionsOf(a)' = RedemptionsOf(a)
  BY DEF RedemptionsKept, RedemptionsOf
<1>2. \A s \in RedemptionsOf(a) : Credited[s] = Credited'[s]
  BY DEF RedemptionsKept, RedemptionsOf, Credited
<1>3. SumFunctionOnSet(Credited', RedemptionsOf(a)) = SumFunctionOnSet(Credited, RedemptionsOf(a))
  BY <1>2, CreditsAreNumbers, SumSame
<1> QED  BY <1>1, <1>3 DEF BalanceIsRedemptions, RedemptionsKept

\* The transaction adds one redemption, and its worth, to one account.
LEMMA RedeemStep ==
  ASSUME TypeOK, PositionInv, BalanceIsRedemptions,
         NEW s \in Sessions, CommitRedeem(s)
  PROVE  BalanceIsRedemptions'
<1>1. /\ pc[s] = "redeem" /\ reply[s] = "nothing" /\ request[s].kind = "redeem"
      /\ account[s] \in AccountIds
      /\ balance \in [AccountIds -> Int]
      /\ UNCHANGED <<request, account>>
      /\ balance' = [balance EXCEPT ![account[s]] = @ + Value[request[s].code]]
  BY DEF CommitRedeem, Credit, PositionInv, TypeOK
<1>2. Redeemed' = Redeemed \cup {s} /\ s \notin Redeemed
  BY <1>1 DEF CommitRedeem, Redeemed, TypeOK
<1>3. Value[request[s].code] \in Int
  BY <1>1, RequestFields, ValueAssumption DEF TypeOK
<1>4. /\ \A r \in Redeemed : Credited[r] = Credited'[r]
      /\ Credited'[s] = Value[request[s].code]
  BY <1>1, <1>2 DEF Credited
<1> SUFFICES ASSUME NEW a \in AccountIds
             PROVE  balance'[a] = SumFunctionOnSet(Credited', RedemptionsOf(a)')
  BY DEF BalanceIsRedemptions
<1> DEFINE R == RedemptionsOf(a)
<1>5. /\ IsFiniteSet(R) /\ s \notin R
      /\ \A r \in R : Credited[r] \in Int /\ Credited[r] = Credited'[r]
  BY <1>2, <1>4, CreditsAreNumbers DEF RedemptionsOf
<1>6. RedemptionsOf(a)' = IF account[s] = a THEN R \cup {s} ELSE R
  BY <1>1, <1>2 DEF RedemptionsOf
<1>7. balance[a] = SumFunctionOnSet(Credited, R)
  BY DEF BalanceIsRedemptions
<1> HIDE DEF R
<1>8. SumFunctionOnSet(Credited', R) = balance[a]
  BY <1>5, <1>7, SumSame
<1>9. CASE account[s] = a
  <2>1. \A r \in R \cup {s} : Credited'[r] \in Int
    BY <1>3, <1>4, <1>5
  <2>2. SumFunctionOnSet(Credited', R \cup {s}) = Credited'[s] + SumFunctionOnSet(Credited', R)
    BY <1>5, <2>1, SumIn
  <2>3. balance'[a] = balance[a] + Value[request[s].code] /\ balance[a] \in Int
    BY <1>1, <1>9
  <2> QED  BY <1>3, <1>4, <1>6, <1>8, <1>9, <2>2, <2>3
<1>10. CASE account[s] # a
  BY <1>1, <1>6, <1>8, <1>10
<1> QED  BY <1>9, <1>10

\* A balance is the worth of the account's redemptions: each credit comes with
\* its claim and its answer, or none of the three happens.
THEOREM BalancesAreRedemptions == Spec => []BalanceIsRedemptions
<1>1. Init => BalanceIsRedemptions
  <2> SUFFICES ASSUME Init, NEW a \in AccountIds
               PROVE  balance[a] = SumFunctionOnSet(Credited, RedemptionsOf(a))
    BY DEF BalanceIsRedemptions
  <2>1. RedemptionsOf(a) = {} /\ balance[a] = 0
    BY DEF Init, RedemptionsOf, Redeemed
  <2> QED  BY <2>1, SumEmpty
<1>2. IndInv /\ BalanceIsRedemptions /\ [Next]_vars => BalanceIsRedemptions'
  BY RedemptionSteps, KeptStep, RedeemStep DEF IndInv
<1> QED  BY <1>1, <1>2, IndInvAlways, PTL DEF Spec
=============================================================================
