-------------------------- MODULE Accounts_proofs --------------------------
(***************************************************************************)
(* Proofs about Accounts, for any number of handlers and emails: its types, *)
(* that an administrator remains, that failures stay bounded, and that      *)
(* nobody who was deleted returns.                                         *)
(***************************************************************************)
EXTENDS Accounts, FiniteSetTheorems, TLAPS

-----------------------------------------------------------------------------
(* What a handler has established by the statement it is at.               *)

ByEmail == [kind : {"login", "setup"}, email : Emails]
Creation == [kind : {"create_user"}, email : Emails, role : Roles]
Deletion == [kind : {"delete_user"}, id : Ids \ {0}]
OfTokens == [kind : {"create_token", "revoke_token"}, scope : Scopes]

\* Each step belongs to one kind of request.
RequestOK(h) ==
    /\ step[h] \in {"verify", "success", "failure", "setup"} => ask[h] \in ByEmail
    /\ step[h] = "create_user" => ask[h] \in Creation
    /\ step[h] \in {"delete_user", "lock_user", "lock_admins", "remove_user"} => ask[h] \in Deletion
    /\ step[h] \in {"create_token", "revoke_token"} =>
          ask[h] \in OfTokens /\ claims[h].email \in Emails
    /\ step[h] \in {"insert_token", "delete_token"} =>
          ask[h] \in OfTokens /\ claims[h].id \in 1 .. lastId
    /\ step[h] = "success" => claims[h].id \in 1 .. lastId
    /\ step[h] = "idle" => claims[h].id = 0

RequestsOK == \A h \in Handlers : RequestOK(h)

\* Rows and the state of the handlers, apart.
RowsTyped ==
    /\ user \in [Emails -> User]
    /\ \A e \in Emails : user[e].id = 0 <=> user[e] = NoUser
    /\ \A d, e \in Emails : Exists(e) /\ user[d].id = user[e].id => d = e
    /\ lastId \in Ids /\ \A e \in Emails : user[e].id <= lastId
    /\ setup \in BOOLEAN
    /\ attempts \in [Emails -> Nat]
    /\ sessions \subseteq 1 .. lastId
    /\ tokens \subseteq [owner : 1 .. lastId, scope : Scopes]

HandlersTyped ==
    /\ locked \in [Emails -> Handlers \cup {Nobody}]
    /\ step \in [Handlers -> Steps]
    /\ ask \in [Handlers -> AccountRequests \cup {Idle}]
    /\ claims \in [Handlers -> Claims]

LEMMA Apart == AccountsTypeOK <=> RowsTyped /\ HandlersTyped
BY DEF AccountsTypeOK, RowsTyped, HandlersTyped

LEMMA RequestTypes ==
    /\ ByEmail \subseteq AccountRequests /\ Creation \subseteq UserRequests
    /\ Deletion \subseteq UserRequests /\ OfTokens \subseteq UserRequests
    /\ UserRequests = Creation \cup Deletion \cup OfTokens
    /\ UserRequests \subseteq AccountRequests
    /\ NoClaims \in Claims /\ "idle" \in Steps
BY LimitAssumption DEF ByEmail, Creation, Deletion, OfTokens, AccountRequests, UserRequests,
   NoClaims, Claims, Steps, Ids, Scopes

LEMMA EndKeeps ==
    ASSUME RowsTyped, HandlersTyped, RequestsOK, NEW h \in Handlers, End(h),
           lastId' \in Nat, lastId' >= lastId
    PROVE  HandlersTyped' /\ RequestsOK'
<1>1. HandlersTyped'
  BY RequestTypes DEF HandlersTyped, End
<1>2. ASSUME NEW g \in Handlers
      PROVE  RequestOK(g)'
  <2>1. CASE g = h
    BY <2>1 DEF End, RequestOK, NoClaims, HandlersTyped
  <2>2. CASE g # h
    <3>1. step'[g] = step[g] /\ ask'[g] = ask[g] /\ claims'[g] = claims[g]
      BY <2>2 DEF End, HandlersTyped
    <3> QED BY <3>1 DEF RequestsOK, RequestOK, RowsTyped, Ids
  <2> QED BY <2>1, <2>2
<1> QED BY <1>1, <1>2 DEF RequestsOK

\* A handler moves on to another statement; its request may be new.
LEMMA MoveKeeps ==
    ASSUME RowsTyped, HandlersTyped, RequestsOK, NEW h \in Handlers, NEW s \in Steps,
           NEW q \in AccountRequests \cup {Idle}, NEW c \in Claims,
           step' = [step EXCEPT ![h] = s], ask' = [ask EXCEPT ![h] = q],
           claims' = [claims EXCEPT ![h] = c],
           locked' \in [Emails -> Handlers \cup {Nobody}],
           lastId' = lastId, RequestOK(h)'
    PROVE  HandlersTyped' /\ RequestsOK'
<1>1. HandlersTyped'
  BY DEF HandlersTyped
<1>2. ASSUME NEW g \in Handlers, g # h
      PROVE  RequestOK(g)'
  <2>1. step'[g] = step[g] /\ ask'[g] = ask[g] /\ claims'[g] = claims[g]
    BY <1>2 DEF HandlersTyped
  <2> QED BY <2>1 DEF RequestsOK, RequestOK
<1> QED BY <1>1, <1>2 DEF RequestsOK

-----------------------------------------------------------------------------
(* Types *)

LEMMA TypeInit == AccountsInit => AccountsTypeOK /\ RequestsOK
<1> SUFFICES ASSUME AccountsInit PROVE AccountsTypeOK /\ RequestsOK
  OBVIOUS
<1>1. NoUser \in User
  BY LimitAssumption DEF NoUser, User, Ids
<1>2. RowsTyped
  <2>1. /\ user \in [Emails -> User] /\ attempts \in [Emails -> Nat]
        /\ \A e \in Emails : user[e] = NoUser /\ user[e].id = 0
    BY <1>1 DEF AccountsInit, NoUser
  <2>2. lastId = 0 /\ lastId \in Ids /\ sessions = {} /\ tokens = {}
    BY LimitAssumption DEF AccountsInit, Ids
  <2>3. setup \in BOOLEAN
    BY Zenon DEF AccountsInit
  <2> QED BY <2>1, <2>2, <2>3 DEF RowsTyped, Exists
<1>3. HandlersTyped
  BY RequestTypes DEF AccountsInit, HandlersTyped
<1>4. RequestsOK
  BY DEF AccountsInit, RequestsOK, RequestOK, NoClaims
<1> QED BY <1>2, <1>3, <1>4, Apart

\* Rows that a step leaves alone.
LEMMA SameRows ==
    ASSUME RowsTyped, UNCHANGED <<user, lastId, setup, attempts, sessions, tokens>>
    PROVE  RowsTyped'
BY DEF RowsTyped, Exists

LEMMA TypeStep ==
    ASSUME AccountsTypeOK, RequestsOK, [AccountsNext]_accounts
    PROVE  AccountsTypeOK' /\ RequestsOK'
<1> USE LimitAssumption
<1>0. RowsTyped /\ HandlersTyped
  BY Apart
<1>a. lastId \in Nat /\ lastId >= lastId
  BY <1>0 DEF RowsTyped, Ids
<1> SUFFICES RowsTyped' /\ HandlersTyped' /\ RequestsOK'
  BY DEF AccountsTypeOK, RowsTyped, HandlersTyped
<1>1. ASSUME NEW h \in Handlers, NEW e \in Emails, CheckLockout(h, e)
      PROVE  RowsTyped' /\ HandlersTyped' /\ RequestsOK'
  <2> DEFINE q == [kind |-> "login", email |-> e]
  <2>1. q \in ByEmail /\ step[h] = "idle" /\ claims[h] \in Claims
    BY <1>0, <1>1 DEF ByEmail, CheckLockout, Begin, At, HandlersTyped
  <2>2. /\ step' = [step EXCEPT ![h] = "verify"] /\ ask' = [ask EXCEPT ![h] = q]
        /\ claims' = [claims EXCEPT ![h] = claims[h]] /\ locked' = locked /\ lastId' = lastId
    BY <1>0, <1>1 DEF CheckLockout, Begin, HandlersTyped
  <2>3. RequestOK(h)'
    BY <2>1, <2>2, <1>0 DEF RequestOK, HandlersTyped
  <2>4. HandlersTyped' /\ RequestsOK'
    BY <2>1, <2>2, <2>3, <1>0, MoveKeeps, RequestTypes DEF HandlersTyped, Steps
  <2> QED BY <2>4, <1>0, <1>1, SameRows DEF CheckLockout
<1>2. ASSUME NEW h \in Handlers, NEW e \in Emails, CheckSetup(h, e)
      PROVE  RowsTyped' /\ HandlersTyped' /\ RequestsOK'
  <2> DEFINE q == [kind |-> "setup", email |-> e]
  <2>1. q \in ByEmail /\ step[h] = "idle" /\ claims[h] \in Claims
    BY <1>0, <1>2 DEF ByEmail, CheckSetup, Begin, At, HandlersTyped
  <2>2. /\ step' = [step EXCEPT ![h] = "setup"] /\ ask' = [ask EXCEPT ![h] = q]
        /\ claims' = [claims EXCEPT ![h] = claims[h]] /\ locked' = locked /\ lastId' = lastId
    BY <1>0, <1>2 DEF CheckSetup, Begin, HandlersTyped
  <2>3. RequestOK(h)'
    BY <2>1, <2>2, <1>0 DEF RequestOK, HandlersTyped
  <2>4. HandlersTyped' /\ RequestsOK'
    BY <2>1, <2>2, <2>3, <1>0, MoveKeeps, RequestTypes DEF HandlersTyped, Steps
  <2> QED BY <2>4, <1>0, <1>2, SameRows DEF CheckSetup
<1>3. ASSUME NEW h \in Handlers, NEW right \in BOOLEAN, VerifyPassword(h, right)
      PROVE  RowsTyped' /\ HandlersTyped' /\ RequestsOK'
  <2> DEFINE e == ask[h].email
             s == IF right /\ Exists(e) THEN "success" ELSE "failure"
             c == [claims[h] EXCEPT !.id = user[e].id]
  <2>1. ask[h] \in ByEmail /\ e \in Emails
    BY <1>3 DEF RequestsOK, RequestOK, VerifyPassword, At, ByEmail
  <2>2. user[e].id \in Ids /\ user[e].id <= lastId /\ claims[h] \in Claims
    BY <1>0, <2>1 DEF RowsTyped, User, HandlersTyped
  <2>3. c \in Claims /\ c.id = user[e].id
    BY <2>2 DEF Claims
  <2>4. /\ step' = [step EXCEPT ![h] = s] /\ ask' = [ask EXCEPT ![h] = ask[h]]
        /\ claims' = [claims EXCEPT ![h] = c] /\ locked' = locked /\ lastId' = lastId
    BY <1>0, <1>3 DEF VerifyPassword, HandlersTyped
  <2>5. step'[h] = s /\ ask'[h] = ask[h] /\ claims'[h] = c
    BY <2>4, <1>0 DEF HandlersTyped
  <2>6. RequestOK(h)'
    <3>1. ask'[h] \in ByEmail /\ step'[h] \in {"success", "failure"}
      BY <2>1, <2>5
    <3>2. step'[h] = "success" => claims'[h].id \in 1 .. lastId'
      <4> SUFFICES ASSUME step'[h] = "success" PROVE user[e].id \in 1 .. lastId
        BY <2>3, <2>4, <2>5
      <4>1. Exists(e)
        BY <2>5
      <4> QED BY <4>1, <2>2, <1>0 DEF Exists, RowsTyped, Ids
    <3> QED BY <3>1, <3>2 DEF RequestOK
  <2>7. HandlersTyped' /\ RequestsOK'
    BY <2>1, <2>3, <2>4, <2>6, <1>0, MoveKeeps, RequestTypes DEF HandlersTyped, Steps
  <2> QED BY <2>7, <1>0, <1>3, SameRows DEF VerifyPassword
<1>4. ASSUME NEW h \in Handlers, RecordFailure(h)
      PROVE  RowsTyped' /\ HandlersTyped' /\ RequestsOK'
  <2>1. HandlersTyped' /\ RequestsOK'
    BY <1>0, <1>a, <1>4, EndKeeps DEF RecordFailure
  <2>2. RowsTyped'
    <3>1. ask[h].email \in Emails
      BY <1>4 DEF RecordFailure, At, RequestsOK, RequestOK, ByEmail
    <3>2. attempts' \in [Emails -> Nat]
      BY <1>0, <1>4, <3>1 DEF RecordFailure, RowsTyped
    <3> QED BY <1>0, <1>4, <3>2 DEF RecordFailure, RowsTyped, Exists
  <2> QED BY <2>1, <2>2
<1>5. ASSUME NEW h \in Handlers, LoginSucceeds(h)
      PROVE  RowsTyped' /\ HandlersTyped' /\ RequestsOK'
  <2>1. HandlersTyped' /\ RequestsOK'
    BY <1>0, <1>a, <1>5, EndKeeps DEF LoginSucceeds
  <2>2. claims[h].id \in 1 .. lastId
    BY <1>5 DEF LoginSucceeds, At, RequestsOK, RequestOK
  <2>3. RowsTyped'
    BY <1>0, <1>5, <2>2 DEF LoginSucceeds, RowsTyped, Exists
  <2> QED BY <2>1, <2>3
<1>6. ASSUME NEW h \in Handlers, CompleteSetup(h)
      PROVE  RowsTyped' /\ HandlersTyped' /\ RequestsOK'
  <2> DEFINE e == ask[h].email
             n == IF Exists(e) THEN user[e].id ELSE lastId + 1
  <2>1. e \in Emails
    BY <1>6 DEF CompleteSetup, At, RequestsOK, RequestOK, ByEmail
  <2>2. lastId' \in Ids /\ lastId' >= lastId /\ n \in 1 .. lastId'
    BY <1>0, <1>6, <2>1 DEF CompleteSetup, RowsTyped, User, Exists, Ids
  <2>3. HandlersTyped' /\ RequestsOK'
    BY <1>0, <1>6, <2>2, EndKeeps DEF CompleteSetup, Ids
  <2>4. user' = [user EXCEPT ![e] = [id |-> n, role |-> "admin"]]
    BY <1>6 DEF CompleteSetup
  <2>5. [id |-> n, role |-> "admin"] \in User
    BY <2>2, RolesAssumption DEF User, Ids
  <2>6. \A d \in Emails : d # e => user'[d] = user[d] /\ user[d].id # n
    BY <1>0, <2>1, <2>4 DEF RowsTyped, Exists, Ids, User
  <2>7. /\ user' \in [Emails -> User]
        /\ \A d \in Emails : user'[d].id = 0 <=> user'[d] = NoUser
        /\ \A d \in Emails : user'[d].id <= lastId'
        /\ \A c, d \in Emails : user'[d].id # 0 /\ user'[c].id = user'[d].id => c = d
    BY <1>0, <2>1, <2>2, <2>4, <2>5, <2>6 DEF RowsTyped, Exists, NoUser, User, Ids
  <2>8. RowsTyped'
    BY <1>0, <1>6, <2>2, <2>7 DEF CompleteSetup, RowsTyped, Exists, Ids
  <2> QED BY <2>3, <2>8
<1>7. ASSUME NEW h \in Handlers, NEW k \in Credentials, NEW q \in UserRequests,
             Authenticate(h, q, k.owner, k.scope)
      PROVE  RowsTyped' /\ HandlersTyped' /\ RequestsOK'
  <2>1. k.owner \in 1 .. lastId /\ k.scope \in Scopes
    BY <1>0 DEF Credentials, RowsTyped, Scopes
  <2>2. PICK e \in Emails : /\ user[e].id = k.owner /\ Begin(h, q.kind, q)
            /\ claims' = [claims EXCEPT ![h] = [id |-> k.owner, email |-> e, scope |-> k.scope]]
            /\ UNCHANGED <<user, lastId, setup, attempts, sessions, tokens, locked>>
    BY <1>7 DEF Authenticate
  <2> DEFINE c == [id |-> k.owner, email |-> e, scope |-> k.scope]
  <2>3. c \in Claims
    <3>1. k.owner \in Ids
      BY <2>1, <1>0 DEF Ids, RowsTyped
    <3> QED BY <2>1, <3>1 DEF Claims
  <2>4. q.kind \in {"create_user", "delete_user", "create_token", "revoke_token"}
    BY DEF UserRequests
  <2>5. step'[h] = q.kind /\ ask'[h] = q /\ claims'[h] = c
    BY <2>2, <1>0 DEF Begin, HandlersTyped
  <2>6. RequestOK(h)'
    BY <2>4, <2>5, RequestTypes DEF RequestOK, Creation, Deletion, OfTokens
  <2>7. HandlersTyped' /\ RequestsOK'
    BY <2>2, <2>3, <2>4, <2>6, <1>0, MoveKeeps, RequestTypes DEF HandlersTyped, Steps, Begin
  <2> QED BY <2>7, <2>2, <1>0, SameRows
<1>8. ASSUME NEW h \in Handlers, CreateUser(h)
      PROVE  RowsTyped' /\ HandlersTyped' /\ RequestsOK'
  <2> DEFINE e == ask[h].email
             n == lastId + 1
  <2>1. e \in Emails /\ ask[h].role \in Roles
    BY <1>8 DEF CreateUser, At, RequestsOK, RequestOK, Creation
  <2>2. lastId' = n /\ n \in Ids /\ n > lastId /\ n # 0 /\ lastId' \in Nat /\ lastId' >= lastId
    BY <1>0, <1>8 DEF CreateUser, RowsTyped, Ids
  <2>3. HandlersTyped' /\ RequestsOK'
    <3>1. End(h)
      BY <1>8 DEF CreateUser
    <3> QED BY <1>0, <2>2, <3>1, EndKeeps
  <2>4. user' = [user EXCEPT ![e] = [id |-> n, role |-> ask[h].role]]
    BY <1>8 DEF CreateUser
  <2>5. [id |-> n, role |-> ask[h].role] \in User
    BY <2>1, <2>2 DEF User
  <2>6. \A d \in Emails : d # e => user'[d] = user[d] /\ user[d].id # n
    BY <1>0, <2>1, <2>2, <2>4 DEF RowsTyped, Ids, User
  <2>7. /\ user' \in [Emails -> User]
        /\ \A d \in Emails : user'[d].id = 0 <=> user'[d] = NoUser
        /\ \A d \in Emails : user'[d].id <= lastId'
        /\ \A c, d \in Emails : user'[d].id # 0 /\ user'[c].id = user'[d].id => c = d
    BY <1>0, <2>1, <2>2, <2>4, <2>5, <2>6 DEF RowsTyped, Exists, NoUser, User, Ids
  <2>8. RowsTyped'
    BY <1>0, <1>8, <2>2, <2>7 DEF CreateUser, RowsTyped, Exists, Ids
  <2> QED BY <2>3, <2>8
<1>9. ASSUME NEW h \in Handlers, NEW s \in {"lock_user", "lock_admins", "remove_user"}, Goto(h, s),
             step[h] \in {"delete_user", "lock_user", "lock_admins"},
             locked' \in [Emails -> Handlers \cup {Nobody}],
             UNCHANGED <<user, lastId, setup, attempts, sessions, tokens>>
      PROVE  RowsTyped' /\ HandlersTyped' /\ RequestsOK'
  <2>1. /\ step' = [step EXCEPT ![h] = s] /\ ask' = [ask EXCEPT ![h] = ask[h]]
        /\ claims' = [claims EXCEPT ![h] = claims[h]]
    BY <1>0, <1>9 DEF Goto, HandlersTyped
  <2>2. ask[h] \in Deletion /\ claims[h] \in Claims
    BY <1>0, <1>9 DEF RequestsOK, RequestOK, HandlersTyped
  <2>3. step'[h] = s /\ ask'[h] = ask[h]
    BY <2>1, <1>0 DEF HandlersTyped
  <2>4. RequestOK(h)'
    BY <2>2, <2>3 DEF RequestOK
  <2>5. HandlersTyped' /\ RequestsOK'
    BY <1>0, <1>9, <2>1, <2>2, <2>4, MoveKeeps, RequestTypes DEF Steps
  <2> QED BY <2>5, <1>0, <1>9, SameRows
<1>10. ASSUME NEW h \in Handlers, CheckSelf(h)
       PROVE  RowsTyped' /\ HandlersTyped' /\ RequestsOK'
  BY <1>0, <1>9, <1>10 DEF CheckSelf, At, HandlersTyped
<1>11. ASSUME NEW h \in Handlers, NEW e \in Emails, LockUser(h, e)
       PROVE  RowsTyped' /\ HandlersTyped' /\ RequestsOK'
  <2>1. locked' \in [Emails -> Handlers \cup {Nobody}]
    BY <1>0, <1>11 DEF LockUser, HandlersTyped
  <2> QED BY <2>1, <1>9, <1>11 DEF LockUser, At
<1>12. ASSUME NEW h \in Handlers, LockAdmins(h)
       PROVE  RowsTyped' /\ HandlersTyped' /\ RequestsOK'
  <2>1. locked' \in [Emails -> Handlers \cup {Nobody}]
    BY <1>0, <1>12 DEF LockAdmins, HandlersTyped
  <2> QED BY <2>1, <1>9, <1>12 DEF LockAdmins, At
<1>13. ASSUME NEW h \in Handlers, RemoveUser(h)
       PROVE  RowsTyped' /\ HandlersTyped' /\ RequestsOK'
  <2>1. HandlersTyped' /\ RequestsOK'
    BY <1>0, <1>a, <1>13, EndKeeps DEF RemoveUser
  <2>2. NoUser \in User /\ NoUser.id = 0
    BY DEF NoUser, User, Ids
  <2>3. /\ user' \in [Emails -> User]
        /\ \A d \in Emails : user'[d] = user[d] \/ user'[d] = NoUser
    BY <1>0, <1>13, <2>2 DEF RemoveUser, RowsTyped
  <2>4. RowsTyped'
    BY <1>0, <1>13, <2>2, <2>3 DEF RemoveUser, RowsTyped, Exists, Ids
  <2> QED BY <2>1, <2>4
<1>14. ASSUME NEW h \in Handlers, CreateToken(h)
       PROVE  RowsTyped' /\ HandlersTyped' /\ RequestsOK'
  <2>1. HandlersTyped' /\ RequestsOK'
    BY <1>0, <1>a, <1>14, EndKeeps DEF CreateToken
  <2>2. claims[h].id \in 1 .. lastId /\ ask[h].scope \in Scopes
    BY <1>14 DEF CreateToken, At, RequestsOK, RequestOK, OfTokens
  <2>3. RowsTyped'
    BY <1>0, <1>14, <2>2 DEF CreateToken, RowsTyped, Exists
  <2> QED BY <2>1, <2>3
<1>15. ASSUME NEW h \in Handlers, RevokeToken(h)
       PROVE  RowsTyped' /\ HandlersTyped' /\ RequestsOK'
  <2>1. HandlersTyped' /\ RequestsOK'
    BY <1>0, <1>a, <1>15, EndKeeps DEF RevokeToken
  <2>2. RowsTyped'
    BY <1>0, <1>15 DEF RevokeToken, RowsTyped, Exists
  <2> QED BY <2>1, <2>2
<1>16. ASSUME NEW h \in Handlers, Abandon(h)
       PROVE  RowsTyped' /\ HandlersTyped' /\ RequestsOK'
  <2>1. HandlersTyped' /\ RequestsOK'
    BY <1>0, <1>a, <1>16, EndKeeps DEF Abandon
  <2> QED BY <2>1, <1>0, <1>16, SameRows DEF Abandon
<1>17. ASSUME UNCHANGED <<user, lastId, setup, tokens, locked, handlerState>>,
              sessions' \subseteq sessions, attempts' \in [Emails -> Nat]
       PROVE  RowsTyped' /\ HandlersTyped' /\ RequestsOK'
  <2>1. RowsTyped'
    BY <1>0, <1>17 DEF RowsTyped, Exists
  <2>2. HandlersTyped' /\ RequestsOK'
    BY <1>0, <1>17 DEF HandlersTyped, RequestsOK, RequestOK, handlerState
  <2> QED BY <2>1, <2>2
<1>18. ASSUME NEW e \in Emails, ForgetAttempt(e)
       PROVE  RowsTyped' /\ HandlersTyped' /\ RequestsOK'
  <2>1. attempts' \in [Emails -> Nat]
    BY <1>0, <1>18 DEF ForgetAttempt, RowsTyped
  <2> QED BY <2>1, <1>17, <1>18 DEF ForgetAttempt
<1>19. ASSUME NEW n \in Ids, Logout(n)
       PROVE  RowsTyped' /\ HandlersTyped' /\ RequestsOK'
  BY <1>0, <1>17, <1>19 DEF Logout, RowsTyped
<1>20. ASSUME UNCHANGED accounts
       PROVE  RowsTyped' /\ HandlersTyped' /\ RequestsOK'
  BY <1>0, <1>17, <1>20 DEF accounts, RowsTyped
<1>21. ASSUME NEW h \in Handlers, CurrentUser(h)
       PROVE  RowsTyped' /\ HandlersTyped' /\ RequestsOK'
  <2> DEFINE e == claims[h].email
             s == IF step[h] = "create_token" THEN "insert_token" ELSE "delete_token"
             c == [claims[h] EXCEPT !.id = user[e].id]
  <2>1. ask[h] \in OfTokens /\ e \in Emails /\ Exists(e)
    BY <1>21 DEF RequestsOK, RequestOK, CurrentUser, At
  <2>2. user[e].id \in Ids /\ user[e].id \in 1 .. lastId /\ claims[h] \in Claims
    BY <1>0, <2>1 DEF RowsTyped, User, HandlersTyped, Exists, Ids
  <2>3. c \in Claims /\ c.id = user[e].id
    BY <2>2 DEF Claims
  <2>4. /\ step' = [step EXCEPT ![h] = s] /\ ask' = [ask EXCEPT ![h] = ask[h]]
        /\ claims' = [claims EXCEPT ![h] = c] /\ locked' = locked /\ lastId' = lastId
    BY <1>0, <1>21 DEF CurrentUser, HandlersTyped, At
  <2>5. step'[h] = s /\ ask'[h] = ask[h] /\ claims'[h] = c
    BY <2>4, <1>0 DEF HandlersTyped
  <2>6. RequestOK(h)'
    <3>1. step'[h] \in {"insert_token", "delete_token"} /\ ask'[h] \in OfTokens
      BY <2>1, <2>5
    <3>2. claims'[h].id \in 1 .. lastId'
      BY <2>2, <2>3, <2>4, <2>5
    <3> QED BY <3>1, <3>2 DEF RequestOK
  <2>7. HandlersTyped' /\ RequestsOK'
    BY <2>1, <2>3, <2>4, <2>6, <1>0, MoveKeeps, RequestTypes DEF HandlersTyped, Steps
  <2> QED BY <2>7, <1>0, <1>21, SameRows DEF CurrentUser
<1> QED
  BY <1>1, <1>2, <1>3, <1>4, <1>5, <1>6, <1>7, <1>8, <1>10, <1>11, <1>12, <1>13, <1>14, <1>15,
     <1>16, <1>18, <1>19, <1>20, <1>21 DEF AccountsNext

\* The accounts keep their types, for every number of users and handlers.
THEOREM TypeCorrect == AccountsSpec => []AccountsTypeOK
<1>1. AccountsInit => AccountsTypeOK /\ RequestsOK
  BY TypeInit
<1>2. AccountsTypeOK /\ RequestsOK /\ [AccountsNext]_accounts => (AccountsTypeOK /\ RequestsOK)'
  BY TypeStep
<1> QED BY <1>1, <1>2, PTL DEF AccountsSpec
-----------------------------------------------------------------------------
(* An administrator remains: a handler about to delete one holds the lock   *)
(* of another, and nobody else changes a row it has locked.                *)

DeletionOK(h) ==
    step[h] \in {"lock_admins", "remove_user"} =>
        \E d \in Emails :
            /\ locked[d] = h /\ user[d].id = ask[h].id
            /\ \/ step[h] = "lock_admins"
               \/ user[d].role # "admin"
               \/ \E e \in Admins \ {d} : locked[e] = h

\* Handler h leaves the rows that others have locked, and the others, alone.
OthersLeft(h) ==
    /\ \A g \in Handlers \ {h} : step'[g] = step[g] /\ ask'[g] = ask[g]
    /\ \A e \in Emails : Exists(e) /\ locked[e] \in Handlers \ {h} =>
          user'[e] = user[e] /\ locked'[e] = locked[e]

AccountsOK == AccountsTypeOK /\ RequestsOK

LEMMA AdminsExist ==
    ASSUME RowsTyped, NEW e \in Admins
    PROVE  e \in Emails /\ Exists(e)
BY DEF RowsTyped, Admins, Exists, NoUser

LEMMA OthersKept ==
    ASSUME AccountsOK, NEW h \in Handlers, OthersLeft(h),
           NEW g \in Handlers \ {h}, DeletionOK(g)
    PROVE  DeletionOK(g)'
<1> SUFFICES ASSUME step[g] \in {"lock_admins", "remove_user"} PROVE DeletionOK(g)'
  BY DEF OthersLeft, DeletionOK
<1>1. RowsTyped /\ step'[g] = step[g] /\ ask'[g] = ask[g] /\ ask[g].id # 0
  BY Apart DEF AccountsOK, OthersLeft, RequestsOK, RequestOK, Deletion
<1>2. PICK d \in Emails : /\ locked[d] = g /\ user[d].id = ask[g].id
                          /\ \/ step[g] = "lock_admins"
                             \/ user[d].role # "admin"
                             \/ \E e \in Admins \ {d} : locked[e] = g
  BY DEF DeletionOK
<1>3. user'[d] = user[d] /\ locked'[d] = g
  BY <1>1, <1>2 DEF OthersLeft, Exists
<1>4. ASSUME NEW e \in Admins \ {d}, locked[e] = g
      PROVE  e \in Admins' \ {d} /\ locked'[e] = g
  BY <1>1, <1>4, AdminsExist DEF OthersLeft, Admins
<1> QED BY <1>1, <1>2, <1>3, <1>4 DEF DeletionOK

\* A handler whose request is over locks nothing.
LEMMA EndOthers ==
    ASSUME AccountsOK, NEW h \in Handlers, End(h),
           \A e \in Emails : Exists(e) /\ locked[e] \in Handlers \ {h} => user'[e] = user[e]
    PROVE  OthersLeft(h) /\ DeletionOK(h)'
<1>1. HandlersTyped
  BY Apart DEF AccountsOK
<1>2. step'[h] = "idle"
  BY <1>1 DEF End, HandlersTyped
<1>3. OthersLeft(h)
  BY <1>1, HandlersAssumption DEF End, HandlersTyped, OthersLeft
<1> QED BY <1>2, <1>3 DEF DeletionOK

LEMMA AdminStep ==
    ASSUME AccountsOK, \A g \in Handlers : DeletionOK(g), AdminRemains,
           [AccountsNext]_accounts
    PROVE  (\A g \in Handlers : DeletionOK(g))' /\ AdminRemains'
<1>0. RowsTyped /\ HandlersTyped /\ RequestsOK
  BY Apart DEF AccountsOK
<1> DEFINE Kept == (\A g \in Handlers : DeletionOK(g))' /\ AdminRemains'
<1>a. ASSUME NEW h \in Handlers, OthersLeft(h), DeletionOK(h)'
      PROVE  (\A g \in Handlers : DeletionOK(g))'
  BY <1>a, OthersKept
<1>b. ASSUME UNCHANGED <<user, setup>> PROVE AdminRemains'
  BY <1>b DEF AdminRemains, Admins
<1>c. ASSUME NEW h \in Handlers, End(h), UNCHANGED <<user, setup>> PROVE Kept
  BY <1>a, <1>b, <1>c, EndOthers
\* A handler that is not deleting moves on to a statement that is not deleting.
<1>d. ASSUME NEW h \in Handlers, NEW s \in Steps, NEW q,
             step' = [step EXCEPT ![h] = s], ask' = [ask EXCEPT ![h] = q],
             s \notin {"lock_admins", "remove_user"}, UNCHANGED <<user, setup, locked>>
      PROVE  Kept
  <2>1. OthersLeft(h) /\ DeletionOK(h)'
    BY <1>0, <1>d DEF OthersLeft, DeletionOK, HandlersTyped
  <2> QED BY <2>1, <1>a, <1>b, <1>d
<1>1. ASSUME NEW h \in Handlers, NEW e \in Emails, CheckLockout(h, e) \/ CheckSetup(h, e)
      PROVE  Kept
  BY <1>0, <1>1, <1>d DEF CheckLockout, CheckSetup, Begin, Steps
<1>2. ASSUME NEW h \in Handlers, NEW right \in BOOLEAN, VerifyPassword(h, right)
      PROVE  Kept
  <2> DEFINE s == IF right /\ Exists(ask[h].email) THEN "success" ELSE "failure"
  <2>1. /\ step' = [step EXCEPT ![h] = s] /\ ask' = [ask EXCEPT ![h] = ask[h]]
        /\ s \in Steps /\ s \notin {"lock_admins", "remove_user"}
        /\ UNCHANGED <<user, setup, locked>>
    BY <1>0, <1>2, Zenon DEF VerifyPassword, HandlersTyped, Steps
  <2> QED BY <2>1, <1>d
<1>3. ASSUME NEW h \in Handlers, RecordFailure(h) \/ LoginSucceeds(h) \/ CreateToken(h)
                                 \/ RevokeToken(h) \/ Abandon(h)
      PROVE  Kept
  BY <1>3, <1>c DEF RecordFailure, LoginSucceeds, CreateToken, RevokeToken, Abandon
<1>4. ASSUME NEW h \in Handlers, CompleteSetup(h)
      PROVE  Kept
  <2> DEFINE e == ask[h].email
  <2>1. e \in Emails /\ locked[e] = Nobody
    BY <1>4 DEF CompleteSetup, At, RequestsOK, RequestOK, ByEmail, AccountsOK
  <2>2. /\ \A d \in Emails : d # e => user'[d] = user[d]
        /\ user'[e].role = "admin" /\ End(h)
    BY <1>0, <1>4, <2>1 DEF CompleteSetup, RowsTyped
  <2>3. OthersLeft(h) /\ DeletionOK(h)'
    BY <2>1, <2>2, EndOthers, HandlersAssumption
  <2>4. AdminRemains'
    BY <2>1, <2>2 DEF AdminRemains, Admins
  <2> QED BY <2>3, <2>4, <1>a
<1>5. ASSUME NEW h \in Handlers, NEW k \in Credentials, NEW q \in UserRequests,
             Authenticate(h, q, k.owner, k.scope)
      PROVE  Kept
  <2>1. q.kind \in {"create_user", "delete_user", "create_token", "revoke_token"}
    BY DEF UserRequests
  <2>2. Begin(h, q.kind, q) /\ UNCHANGED <<user, setup, locked>>
    BY <1>5 DEF Authenticate
  <2> QED BY <2>1, <2>2, <1>d DEF Begin, Steps
<1>6. ASSUME NEW h \in Handlers, CreateUser(h)
      PROVE  Kept
  <2> DEFINE e == ask[h].email
  <2>1. e \in Emails /\ ~Exists(e)
    BY <1>6 DEF CreateUser, At, RequestsOK, RequestOK, Creation, AccountsOK
  <2>2. /\ \A d \in Emails : d # e => user'[d] = user[d]
        /\ setup' = setup /\ End(h)
    BY <1>0, <1>6, <2>1 DEF CreateUser, RowsTyped
  <2>3. OthersLeft(h) /\ DeletionOK(h)'
    BY <2>1, <2>2, EndOthers
  <2>4. \A d \in Admins : d \in Admins'
    BY <1>0, <2>1, <2>2, AdminsExist DEF Admins
  <2> QED BY <2>2, <2>3, <2>4, <1>a DEF AdminRemains
<1>7. ASSUME NEW h \in Handlers, CheckSelf(h)
      PROVE  Kept
  <2>1. /\ step' = [step EXCEPT ![h] = "lock_user"] /\ ask' = [ask EXCEPT ![h] = ask[h]]
        /\ UNCHANGED <<user, setup, locked>>
    BY <1>0, <1>7 DEF CheckSelf, Goto, HandlersTyped
  <2> QED BY <2>1, <1>d DEF Steps
<1>8. ASSUME NEW h \in Handlers, NEW e \in Emails, LockUser(h, e)
      PROVE  Kept
  <2>1. OthersLeft(h)
    BY <1>0, <1>8, HandlersAssumption DEF LockUser, Goto, OthersLeft, HandlersTyped
  <2>2. /\ step'[h] = IF user[e].role = "admin" THEN "lock_admins" ELSE "remove_user"
        /\ locked'[e] = h /\ user'[e].id = ask'[h].id /\ user' = user /\ setup' = setup
    BY <1>0, <1>8 DEF LockUser, Goto, HandlersTyped
  <2>3. DeletionOK(h)'
    BY <2>2 DEF DeletionOK
  <2> QED BY <2>1, <2>2, <2>3, <1>a, <1>b
<1>9. ASSUME NEW h \in Handlers, LockAdmins(h)
      PROVE  Kept
  <2>1. /\ \A e \in Emails : locked'[e] = IF e \in Admins THEN h ELSE locked[e]
        /\ \A e \in Admins : locked[e] \in {Nobody, h}
        /\ \A g \in Handlers \ {h} : step'[g] = step[g]
        /\ step'[h] = "remove_user" /\ ask' = ask /\ user' = user /\ setup' = setup
    BY <1>0, <1>9 DEF LockAdmins, Goto, HandlersTyped
  <2>2. OthersLeft(h)
    BY <2>1, HandlersAssumption DEF OthersLeft
  <2>3. PICK d \in Emails : locked[d] = h /\ user[d].id = ask[h].id
    BY <1>9 DEF LockAdmins, At, DeletionOK
  <2>4. CASE user[d].role = "admin"
    <3>1. Admins # {d}
      <4>1. Cardinality({d}) = 1 /\ Cardinality(Admins) > 1
        BY <1>9, FS_Singleton, Zenon DEF LockAdmins
      <4> QED BY <4>1
    <3>2. PICK e \in Admins : e # d
      BY <2>4, <3>1 DEF Admins
    <3>3. e \in Admins' \ {d} /\ locked'[e] = h /\ locked'[d] = h
      BY <2>1, <2>3, <3>2 DEF Admins
    <3>4. DeletionOK(h)'
      BY <2>1, <2>3, <3>3 DEF DeletionOK
    <3> QED BY <2>1, <2>2, <3>4, <1>a, <1>b
  <2>5. CASE user[d].role # "admin"
    <3>1. DeletionOK(h)'
      BY <2>1, <2>3, <2>5 DEF DeletionOK
    <3> QED BY <2>1, <2>2, <3>1, <1>a, <1>b
  <2> QED BY <2>4, <2>5
<1>10. ASSUME NEW h \in Handlers, RemoveUser(h)
       PROVE  Kept
  <2>1. PICK d \in Emails : /\ locked[d] = h /\ user[d].id = ask[h].id
                            /\ user[d].role = "admin" => \E e \in Admins \ {d} : locked[e] = h
    BY <1>10 DEF RemoveUser, At, DeletionOK
  <2>2. Exists(d)
    BY <1>10, <2>1 DEF RemoveUser, At, AccountsOK, RequestsOK, RequestOK, Deletion, Exists
  <2>3. \A e \in Emails : e # d => user[e].id # ask[h].id
    BY <1>0, <2>1, <2>2 DEF RowsTyped
  <2>4. \A e \in Emails : e # d => user'[e] = user[e]
    BY <1>10, <2>3 DEF RemoveUser
  <2>5. OthersLeft(h) /\ DeletionOK(h)'
    BY <1>10, <2>1, <2>4, EndOthers DEF RemoveUser
  <2>6. Admins # {} => Admins' # {}
    BY <2>1, <2>4 DEF Admins
  <2>7. setup' = setup
    BY <1>10 DEF RemoveUser
  <2> QED BY <2>5, <2>6, <2>7, <1>a DEF AdminRemains
<1>11. ASSUME UNCHANGED <<user, setup, locked, handlerState>>
       PROVE  Kept
  <2>1. \A g \in Handlers : DeletionOK(g)'
    BY <1>11 DEF DeletionOK, handlerState, Admins
  <2> QED BY <2>1, <1>b, <1>11
<1>12. ASSUME NEW e \in Emails, ForgetAttempt(e)
       PROVE  Kept
  BY <1>11, <1>12 DEF ForgetAttempt
<1>13. ASSUME NEW n \in Ids, Logout(n)
       PROVE  Kept
  BY <1>11, <1>13 DEF Logout
<1>14. ASSUME UNCHANGED accounts
       PROVE  Kept
  BY <1>11, <1>14 DEF accounts
<1>15. ASSUME NEW h \in Handlers, CurrentUser(h)
       PROVE  Kept
  <2> DEFINE s == IF step[h] = "create_token" THEN "insert_token" ELSE "delete_token"
  <2>1. /\ step' = [step EXCEPT ![h] = s] /\ ask' = [ask EXCEPT ![h] = ask[h]]
        /\ UNCHANGED <<user, setup, locked>>
    BY <1>0, <1>15 DEF CurrentUser, HandlersTyped, At
  <2> QED BY <2>1, <1>d DEF Steps
<1> QED
  BY <1>1, <1>2, <1>3, <1>4, <1>5, <1>6, <1>7, <1>8, <1>9, <1>10, <1>12, <1>13, <1>14,
     <1>15 DEF AccountsNext

\* delete_user never leaves a workspace without an administrator.
THEOREM AdministratorRemains == AccountsSpec => []AdminRemains
<1> DEFINE I == AccountsOK /\ (\A g \in Handlers : DeletionOK(g)) /\ AdminRemains
<1>1. AccountsInit => I
  BY TypeInit DEF AccountsOK, AccountsInit, DeletionOK, AdminRemains
<1>2. I /\ [AccountsNext]_accounts => I'
  BY TypeStep, AdminStep DEF AccountsOK
<1>3. I => AdminRemains
  OBVIOUS
<1> QED BY <1>1, <1>2, <1>3, PTL DEF AccountsSpec
-----------------------------------------------------------------------------
(* Failures are bounded: a login that was let in counts as a failure to be. *)

Trying(e) == {h \in Handlers : step[h] \in {"verify", "failure"} /\ ask[h].email = e}

FailuresToCome == \A e \in Emails :
    attempts[e] + Cardinality(Trying(e)) <= Limit - 1 + Cardinality(Handlers)

LEMMA TryingIsFinite ==
    /\ \A e \in Emails : IsFiniteSet(Trying(e)) /\ Cardinality(Trying(e)) \in Nat
                         /\ Cardinality(Trying(e)) <= Cardinality(Handlers)
    /\ Cardinality(Handlers) \in Nat
BY HandlersAssumption, FS_Subset, FS_CardinalityType DEF Trying

\* Whoever stops trying, or has not begun, leaves room.
LEMMA FewerTrying ==
    ASSUME FailuresToCome, attempts \in [Emails -> Nat], attempts' \in [Emails -> Nat],
           \A e \in Emails : attempts'[e] <= attempts[e] /\ Trying(e)' \subseteq Trying(e)
    PROVE  FailuresToCome'
<1> SUFFICES ASSUME NEW e \in Emails
             PROVE  attempts'[e] + Cardinality(Trying(e)') <= Limit - 1 + Cardinality(Handlers)
  BY DEF FailuresToCome
<1>1. Cardinality(Trying(e)') <= Cardinality(Trying(e)) /\ Cardinality(Trying(e)') \in Nat
  BY TryingIsFinite, FS_Subset, FS_CardinalityType
<1> QED BY <1>1, TryingIsFinite, LimitAssumption DEF FailuresToCome

LEMMA FailureStep ==
    ASSUME AccountsOK, AccountsOK', FailuresToCome, [AccountsNext]_accounts
    PROVE  FailuresToCome'
<1>0. RowsTyped /\ HandlersTyped /\ RequestsOK /\ attempts \in [Emails -> Nat]
      /\ attempts' \in [Emails -> Nat]
  BY Apart DEF AccountsOK, AccountsTypeOK
<1>a. ASSUME NEW h \in Handlers, \A g \in Handlers \ {h} : step'[g] = step[g] /\ ask'[g] = ask[g],
             step'[h] \in {"verify", "failure"} =>
                step[h] \in {"verify", "failure"} /\ ask'[h] = ask[h],
             \A e \in Emails : attempts'[e] <= attempts[e]
      PROVE  FailuresToCome'
  <2>1. \A e \in Emails : Trying(e)' \subseteq Trying(e)
    BY <1>a DEF Trying
  <2> QED BY <2>1, <1>0, <1>a, FewerTrying
<1>b. ASSUME attempts' = attempts PROVE \A e \in Emails : attempts'[e] <= attempts[e]
  BY <1>0, <1>b
<1>c. ASSUME NEW h \in Handlers, End(h), \A e \in Emails : attempts'[e] <= attempts[e]
      PROVE  FailuresToCome'
  BY <1>0, <1>a, <1>c DEF End, HandlersTyped
<1>1. ASSUME NEW h \in Handlers, NEW e \in Emails, CheckLockout(h, e)
      PROVE  FailuresToCome'
  <2>1. \A d \in Emails : d # e => Trying(d)' \subseteq Trying(d)
    BY <1>0, <1>1 DEF CheckLockout, Begin, HandlersTyped, Trying
  <2> SUFFICES ASSUME NEW d \in Emails
               PROVE  attempts'[d] + Cardinality(Trying(d)') <= Limit - 1 + Cardinality(Handlers)
    BY DEF FailuresToCome
  <2>2. attempts' = attempts /\ attempts[d] \in Nat
    BY <1>0, <1>1 DEF CheckLockout
  <2>3. CASE d = e
    <3>1. attempts[d] <= Limit - 1
      BY <1>1, <2>2, <2>3, LimitAssumption DEF CheckLockout
    <3>2. Cardinality(Trying(d)') <= Cardinality(Handlers) /\ Cardinality(Trying(d)') \in Nat
      BY HandlersAssumption, FS_Subset, FS_CardinalityType DEF Trying
    <3> QED BY <2>2, <3>1, <3>2, TryingIsFinite, LimitAssumption
  <2>4. CASE d # e
    <3>1. Cardinality(Trying(d)') <= Cardinality(Trying(d)) /\ Cardinality(Trying(d)') \in Nat
      BY <2>1, <2>4, TryingIsFinite, FS_Subset, FS_CardinalityType
    <3> QED BY <2>2, <3>1, TryingIsFinite, LimitAssumption DEF FailuresToCome
  <2> QED BY <2>3, <2>4
<1>2. ASSUME NEW h \in Handlers, NEW e \in Emails, CheckSetup(h, e)
      PROVE  FailuresToCome'
  BY <1>0, <1>2, <1>a, <1>b DEF CheckSetup, Begin, HandlersTyped
<1>3. ASSUME NEW h \in Handlers, NEW right \in BOOLEAN, VerifyPassword(h, right)
      PROVE  FailuresToCome'
  <2>1. step[h] = "verify" /\ ask' = ask /\ attempts' = attempts
    BY <1>3 DEF VerifyPassword, At
  <2>2. \A g \in Handlers \ {h} : step'[g] = step[g]
    BY <1>0, <1>3 DEF VerifyPassword, HandlersTyped
  <2> QED BY <2>1, <2>2, <1>a, <1>b
<1>4. ASSUME NEW h \in Handlers, RecordFailure(h)
      PROVE  FailuresToCome'
  <2> DEFINE e == ask[h].email
  <2>1. e \in Emails /\ h \in Trying(e)
    BY <1>4 DEF RecordFailure, At, RequestsOK, RequestOK, ByEmail, AccountsOK, Trying
  <2>2. \A d \in Emails : attempts'[d] = IF d = e THEN attempts[e] + 1 ELSE attempts[d]
    BY <1>0, <1>4, <2>1 DEF RecordFailure
  <2>3. \A d \in Emails : Trying(d)' \subseteq Trying(d) \ {h}
    BY <1>0, <1>4 DEF RecordFailure, End, HandlersTyped, Trying
  <2> SUFFICES ASSUME NEW d \in Emails
               PROVE  attempts'[d] + Cardinality(Trying(d)') <= Limit - 1 + Cardinality(Handlers)
    BY DEF FailuresToCome
  <2>4. /\ Cardinality(Trying(d) \ {h}) = IF h \in Trying(d) THEN Cardinality(Trying(d)) - 1
                                                            ELSE Cardinality(Trying(d))
        /\ IsFiniteSet(Trying(d) \ {h})
    BY TryingIsFinite, FS_RemoveElement
  <2>5. Cardinality(Trying(d)') <= Cardinality(Trying(d) \ {h}) /\ Cardinality(Trying(d)') \in Nat
    BY <2>3, <2>4, FS_Subset, FS_CardinalityType
  <2>6. attempts[d] + Cardinality(Trying(d)) <= Limit - 1 + Cardinality(Handlers)
        /\ attempts[d] \in Nat /\ Cardinality(Trying(d)) \in Nat
    BY <1>0, TryingIsFinite DEF FailuresToCome
  <2> QED BY <2>1, <2>2, <2>4, <2>5, <2>6, TryingIsFinite, LimitAssumption
<1>5. ASSUME NEW h \in Handlers, LoginSucceeds(h)
      PROVE  FailuresToCome'
  <2>1. \A e \in Emails : attempts'[e] <= attempts[e]
    BY <1>0, <1>5 DEF LoginSucceeds
  <2> QED BY <2>1, <1>5, <1>c DEF LoginSucceeds
<1>6. ASSUME NEW h \in Handlers, \/ CompleteSetup(h) \/ CreateUser(h) \/ RemoveUser(h)
                                 \/ CreateToken(h) \/ RevokeToken(h) \/ Abandon(h)
      PROVE  FailuresToCome'
  <2>1. End(h) /\ attempts' = attempts
    BY <1>6 DEF CompleteSetup, CreateUser, RemoveUser, CreateToken, RevokeToken, Abandon
  <2> QED BY <2>1, <1>b, <1>c
<1>7. ASSUME NEW h \in Handlers, NEW k \in Credentials, NEW q \in UserRequests,
             Authenticate(h, q, k.owner, k.scope)
      PROVE  FailuresToCome'
  <2>1. q.kind \notin {"verify", "failure"}
    BY DEF UserRequests
  <2>2. Begin(h, q.kind, q) /\ attempts' = attempts
    BY <1>7 DEF Authenticate
  <2> QED BY <1>0, <2>1, <2>2, <1>a, <1>b DEF Begin, HandlersTyped
<1>8. ASSUME NEW h \in Handlers, NEW s \in {"lock_user", "lock_admins", "remove_user"},
             Goto(h, s), attempts' = attempts
      PROVE  FailuresToCome'
  BY <1>0, <1>8, <1>a, <1>b DEF Goto, HandlersTyped
<1>9. ASSUME NEW h \in Handlers, CheckSelf(h) \/ LockAdmins(h)
      PROVE  FailuresToCome'
  BY <1>8, <1>9 DEF CheckSelf, LockAdmins
<1>10. ASSUME NEW h \in Handlers, NEW e \in Emails, LockUser(h, e)
       PROVE  FailuresToCome'
  BY <1>8, <1>10 DEF LockUser
<1>11. ASSUME UNCHANGED handlerState, \A e \in Emails : attempts'[e] <= attempts[e]
       PROVE  FailuresToCome'
  <2>1. \A e \in Emails : Trying(e)' \subseteq Trying(e)
    BY <1>11 DEF Trying, handlerState
  <2> QED BY <2>1, <1>0, <1>11, FewerTrying
<1>12. ASSUME NEW e \in Emails, ForgetAttempt(e)
       PROVE  FailuresToCome'
  <2>1. \A d \in Emails : attempts'[d] <= attempts[d]
    BY <1>0, <1>12 DEF ForgetAttempt
  <2> QED BY <2>1, <1>11, <1>12 DEF ForgetAttempt
<1>13. ASSUME (\E n \in Ids : Logout(n)) \/ UNCHANGED accounts
       PROVE  FailuresToCome'
  <2>1. attempts' = attempts /\ UNCHANGED handlerState
    BY <1>13 DEF Logout, accounts
  <2> QED BY <2>1, <1>b, <1>11
<1>14. ASSUME NEW h \in Handlers, CurrentUser(h)
       PROVE  FailuresToCome'
  <2>1. step'[h] \in {"insert_token", "delete_token"} /\ attempts' = attempts
        /\ \A g \in Handlers \ {h} : step'[g] = step[g] /\ ask'[g] = ask[g]
    BY <1>0, <1>14 DEF CurrentUser, HandlersTyped
  <2> QED BY <2>1, <1>a, <1>b
<1> QED
  BY <1>1, <1>2, <1>3, <1>4, <1>5, <1>6, <1>7, <1>9, <1>10, <1>12, <1>13, <1>14 DEF AccountsNext

\* A lockout cannot be overrun by more failures than there are handlers, even
\* if all of them passed check_lockout before any recorded its failure.
THEOREM LockoutHolds == AccountsSpec => []FailuresBounded
<1>1. AccountsInit => AccountsOK /\ FailuresToCome
  <2> SUFFICES ASSUME AccountsInit PROVE AccountsOK /\ FailuresToCome
    OBVIOUS
  <2>1. \A e \in Emails : Trying(e) = {} /\ attempts[e] = 0
    BY DEF AccountsInit, Trying
  <2> QED BY <2>1, TypeInit, TryingIsFinite, FS_EmptySet, LimitAssumption
          DEF AccountsOK, FailuresToCome
<1>2. AccountsOK /\ FailuresToCome /\ [AccountsNext]_accounts => (AccountsOK /\ FailuresToCome)'
  BY TypeStep, FailureStep DEF AccountsOK
<1>3. AccountsOK /\ FailuresToCome => FailuresBounded
  <2> SUFFICES ASSUME AccountsOK, FailuresToCome, NEW e \in Emails
               PROVE  attempts[e] <= Limit - 1 + Cardinality(Handlers)
    BY DEF FailuresBounded
  <2>1. attempts[e] \in Nat
    BY DEF AccountsOK, AccountsTypeOK
  <2> QED BY <2>1, TryingIsFinite, LimitAssumption DEF FailuresToCome
<1> QED BY <1>1, <1>2, <1>3, PTL DEF AccountsSpec

-----------------------------------------------------------------------------
(* Nobody returns: ids only grow, and a request is made for a user there is. *)

LEMMA ReturnStep ==
    ASSUME AccountsOK, AccountsNext,
           NEW n \in 1 .. lastId, \A e \in Emails : user[e].id # n
    PROVE  /\ \A e \in Emails : user'[e].id # n
           /\ \A h \in Handlers : At(h, "idle") => claims'[h].id # n
<1>0. RowsTyped /\ HandlersTyped /\ RequestsOK /\ n \in Nat /\ n # 0 /\ lastId \in Nat
  BY Apart DEF AccountsOK, RowsTyped, Ids
<1> DEFINE NoUserAgain == \A e \in Emails : user'[e].id # n
           NoRequest == \A h \in Handlers : At(h, "idle") => claims'[h].id # n
<1>a. user' = user => NoUserAgain
  OBVIOUS
<1>b. claims' = claims => NoRequest
  BY <1>0 DEF At, RequestsOK, RequestOK
<1>c. ASSUME NEW h \in Handlers, End(h) PROVE NoRequest
  BY <1>0, <1>c DEF End, At, RequestsOK, RequestOK, HandlersTyped, NoClaims
<1>1. ASSUME NEW h \in Handlers, NEW right \in BOOLEAN, VerifyPassword(h, right)
      PROVE  NoUserAgain /\ NoRequest
  <2>1. \A g \in Handlers : At(g, "idle") => claims'[g] = claims[g]
    BY <1>0, <1>1 DEF VerifyPassword, At, HandlersTyped
  <2> QED BY <2>1, <1>0, <1>1, <1>a DEF VerifyPassword, At, RequestsOK, RequestOK
<1>2. ASSUME NEW h \in Handlers, CompleteSetup(h) \/ CreateUser(h)
      PROVE  NoUserAgain /\ NoRequest
  <2> DEFINE e == ask[h].email
  <2>1. e \in Emails /\ End(h)
    BY <1>0, <1>2 DEF CompleteSetup, CreateUser, At, RequestsOK, RequestOK, ByEmail, Creation
  <2>2. /\ \A d \in Emails : d # e => user'[d] = user[d]
        /\ user'[e].id = user[e].id \/ user'[e].id = lastId + 1
    BY <1>0, <1>2, <2>1 DEF CompleteSetup, CreateUser, RowsTyped
  <2> QED BY <2>1, <2>2, <1>0, <1>c
<1>3. ASSUME NEW h \in Handlers, NEW k \in Credentials, NEW q \in UserRequests,
             Authenticate(h, q, k.owner, k.scope)
      PROVE  NoUserAgain /\ NoRequest
  <2>1. PICK e \in Emails : /\ user[e].id = k.owner /\ UNCHANGED user
           /\ claims' = [claims EXCEPT ![h] = [id |-> k.owner, email |-> e, scope |-> k.scope]]
    BY <1>3 DEF Authenticate
  <2>2. k.owner # n
    BY <2>1
  <2> QED BY <2>1, <2>2, <1>0, <1>a DEF At, RequestsOK, RequestOK, HandlersTyped
<1>4. ASSUME NEW h \in Handlers, RemoveUser(h)
      PROVE  NoUserAgain /\ NoRequest
  BY <1>0, <1>4, <1>c DEF RemoveUser, NoUser
<1>5. ASSUME NEW h \in Handlers, End(h), user' = user
      PROVE  NoUserAgain /\ NoRequest
  BY <1>5, <1>a, <1>c
<1>6. ASSUME NEW h \in Handlers, CurrentUser(h)
      PROVE  NoUserAgain /\ NoRequest
  <2>1. \A g \in Handlers : At(g, "idle") => claims'[g] = claims[g]
    BY <1>0, <1>6 DEF CurrentUser, At, HandlersTyped
  <2> QED BY <2>1, <1>0, <1>6, <1>a DEF CurrentUser, At, RequestsOK, RequestOK
<1> QED
  BY <1>1, <1>2, <1>3, <1>4, <1>5, <1>6, <1>a, <1>b
  DEF AccountsNext, CheckLockout, CheckSetup, LockUser, RecordFailure, LoginSucceeds, CheckSelf,
      LockAdmins, CreateToken, RevokeToken, Abandon, ForgetAttempt, Logout, Goto, handlerState

\* Who has been deleted starts no request any more, with whatever cookie or
\* token, and no user is ever given that id.
THEOREM DeletedStayAway == AccountsSpec => NobodyReturns
<1>1. AccountsInit => AccountsOK
  BY TypeInit DEF AccountsOK
<1>2. AccountsOK /\ [AccountsNext]_accounts => AccountsOK'
  BY TypeStep DEF AccountsOK
<1>3. AccountsOK /\ [AccountsNext]_accounts =>
        [\A n \in 1 .. lastId :
            (\A e \in Emails : user[e].id # n) =>
                /\ \A e \in Emails : user'[e].id # n
                /\ \A h \in Handlers : At(h, "idle") => claims'[h].id # n]_accounts
  BY ReturnStep
<1> QED BY <1>1, <1>2, <1>3, PTL DEF AccountsSpec, NobodyReturns
=============================================================================
