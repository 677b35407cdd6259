------------------------------ MODULE Accounts ------------------------------
(***************************************************************************)
(* The accounts of a workspace: first-run setup, users, sessions, personal  *)
(* access tokens, and the lockout after failed logins.  Several handlers    *)
(* serve requests at the same time; what one reads in a statement of its    *)
(* own may be out of date when it acts on it.  Ids come from a sequence and *)
(* are never used again; an email may be.                                  *)
(***************************************************************************)
EXTENDS Integers, FiniteSets

CONSTANTS
    Emails,       \* emails of the users there may be
    Roles,        \* workspace roles, "admin" among them
    Handlers,     \* request handlers
    Nobody,       \* no handler: the holder of a lock that is free
    Limit,        \* MAX_ATTEMPTS: failures that lock an account (5 in the code)
    MaxId,        \* bound: users that are ever created
    MaxTokens     \* bound: personal access tokens that live at the same time

ASSUME RolesAssumption == "admin" \in Roles
ASSUME LimitAssumption == Limit \in Nat \ {0} /\ MaxId \in Nat /\ MaxTokens \in Nat
ASSUME HandlersAssumption == Nobody \notin Handlers /\ IsFiniteSet(Handlers)

VARIABLES
    user,        \* user[e]: id (0: there is none) and role of the users row
    lastId,      \* last id drawn
    setup,       \* settings.setup_complete
    attempts,    \* attempts[e]: login_attempts of the last ten minutes
    sessions,    \* ids in the cookies that are held and have not expired
    tokens,      \* personal_access_tokens: owner and scope
    locked,      \* locked[e]: handler that has locked the users row for update
    step,        \* step[h]: next statement of handler h
    ask,         \* ask[h]: the request it serves
    claims       \* claims[h]: who require_auth found makes the request

handlerState == <<step, ask, claims>>
accounts == <<user, lastId, setup, attempts, sessions, tokens, locked, handlerState>>

Ids == 0 .. MaxId
Scopes == {"read_only", "read_write"}
NoUser == [id |-> 0, role |-> "none"]
NoClaims == [id |-> 0, email |-> "", scope |-> "none"]
Idle == [kind |-> "none"]

Exists(e) == user[e].id # 0
Admins == {e \in Emails : user[e].role = "admin"}

\* The requests that need a credential.
UserRequests ==
    [kind : {"create_user"}, email : Emails, role : Roles]
    \cup [kind : {"delete_user"}, id : Ids \ {0}]
    \cup [kind : {"create_token", "revoke_token"}, scope : Scopes]

AccountRequests == [kind : {"login", "setup"}, email : Emails] \cup UserRequests

\* What a request can come with: the cookie of a session, or a token.
Credentials == [owner : sessions, scope : {"read_write"}] \cup tokens

AccountsInit ==
    /\ user = [e \in Emails |-> NoUser]
    /\ lastId = 0
    /\ setup = FALSE
    /\ attempts = [e \in Emails |-> 0]
    /\ sessions = {}
    /\ tokens = {}
    /\ locked = [e \in Emails |-> Nobody]
    /\ step = [h \in Handlers |-> "idle"]
    /\ ask = [h \in Handlers |-> Idle]
    /\ claims = [h \in Handlers |-> NoClaims]

At(h, s) == step[h] = s

Begin(h, s, q) ==
    /\ At(h, "idle")
    /\ step' = [step EXCEPT ![h] = s]
    /\ ask' = [ask EXCEPT ![h] = q]

Goto(h, s) ==
    /\ step' = [step EXCEPT ![h] = s]
    /\ UNCHANGED <<ask, claims>>

\* The request of handler h is answered, and its transaction is over.
End(h) ==
    /\ step' = [step EXCEPT ![h] = "idle"]
    /\ ask' = [ask EXCEPT ![h] = Idle]
    /\ claims' = [claims EXCEPT ![h] = NoClaims]
    /\ locked' = [e \in Emails |-> IF locked[e] = h THEN Nobody ELSE locked[e]]

\* A check that fails, an error, a request that is dropped, a deadlock.
Abandon(h) ==
    /\ ~At(h, "idle")
    /\ End(h)
    /\ UNCHANGED <<user, lastId, setup, attempts, sessions, tokens>>

-----------------------------------------------------------------------------
(***************************************************************************)
(* Login and lockout                                                       *)
(***************************************************************************)

\* Mutant of CheckLockout: one attempt too many.
CheckLockoutLate(h, e) ==
    /\ attempts[e] <= Limit
    /\ Begin(h, "verify", [kind |-> "login", email |-> e])
    /\ UNCHANGED <<user, lastId, setup, attempts, sessions, tokens, locked, claims>>

CheckLockout(h, e) ==
    /\ attempts[e] < Limit
    /\ Begin(h, "verify", [kind |-> "login", email |-> e])
    /\ UNCHANGED <<user, lastId, setup, attempts, sessions, tokens, locked, claims>>

\* The user is looked up and the password verified, right or wrong.
VerifyPassword(h, right) ==
    LET e == ask[h].email IN
    /\ At(h, "verify")
    /\ step' = [step EXCEPT ![h] = IF right /\ Exists(e) THEN "success" ELSE "failure"]
    /\ claims' = [claims EXCEPT ![h].id = user[e].id]
    /\ UNCHANGED <<user, lastId, setup, attempts, sessions, tokens, locked, ask>>

RecordFailure(h) ==
    /\ At(h, "failure")
    /\ attempts' = [attempts EXCEPT ![ask[h].email] = @ + 1]
    /\ End(h)
    /\ UNCHANGED <<user, lastId, setup, sessions, tokens>>

\* clear_attempts, and the cookie is issued.
LoginSucceeds(h) ==
    /\ At(h, "success")
    /\ attempts' = [attempts EXCEPT ![ask[h].email] = 0]
    /\ sessions' = sessions \cup {claims[h].id}
    /\ End(h)
    /\ UNCHANGED <<user, lastId, setup, tokens>>

\* A failure leaves the window of ten minutes.
ForgetAttempt(e) ==
    /\ attempts[e] > 0
    /\ attempts' = [attempts EXCEPT ![e] = @ - 1]
    /\ UNCHANGED <<user, lastId, setup, sessions, tokens, locked, handlerState>>

\* logout, or the cookie expires.
Logout(n) ==
    /\ n \in sessions
    /\ sessions' = sessions \ {n}
    /\ UNCHANGED <<user, lastId, setup, attempts, tokens, locked, handlerState>>

-----------------------------------------------------------------------------
(***************************************************************************)
(* First-run setup                                                         *)
(***************************************************************************)

\* setup_complete reads that setup is not complete, outside its transaction.
CheckSetup(h, e) ==
    /\ ~setup
    /\ Begin(h, "setup", [kind |-> "setup", email |-> e])
    /\ UNCHANGED <<user, lastId, setup, attempts, sessions, tokens, locked, claims>>

\* The transaction: the user is inserted, or made an administrator.
CompleteSetup(h) ==
    LET e == ask[h].email
        n == IF Exists(e) THEN user[e].id ELSE lastId + 1
    IN
    /\ At(h, "setup")
    /\ locked[e] = Nobody
    /\ n <= MaxId
    /\ lastId' = IF Exists(e) THEN lastId ELSE n
    /\ user' = [user EXCEPT ![e] = [id |-> n, role |-> "admin"]]
    /\ setup' = TRUE
    /\ sessions' = sessions \cup {n}
    /\ End(h)
    /\ UNCHANGED <<attempts, tokens>>

-----------------------------------------------------------------------------
(***************************************************************************)
(* Authenticated requests                                                  *)
(***************************************************************************)

\* Mutant of Authenticate: the email in the cookie, not the id, is looked up.
AuthenticateAnyId(h, q, n, scope) ==
    \E e \in Emails :
        /\ Exists(e)
        /\ q.kind \in {"create_user", "delete_user"} => user[e].role = "admin"
        /\ Begin(h, q.kind, q)
        /\ claims' = [claims EXCEPT ![h] = [id |-> n, email |-> e, scope |-> scope]]
        /\ UNCHANGED <<user, lastId, setup, attempts, sessions, tokens, locked>>

\* require_admin guards the routes of users, and asks for write scope.
Admitted(q, e, scope) ==
    q.kind \in {"create_user", "delete_user"} => user[e].role = "admin" /\ scope = "read_write"

\* require_auth: resolve_session or resolve_pat finds the user of the id now.
Authenticate(h, q, n, scope) ==
    \E e \in Emails :
        /\ user[e].id = n
        /\ Admitted(q, e, scope)
        /\ Begin(h, q.kind, q)
        /\ claims' = [claims EXCEPT ![h] = [id |-> n, email |-> e, scope |-> scope]]
        /\ UNCHANGED <<user, lastId, setup, attempts, sessions, tokens, locked>>

\* create_user: one INSERT, which waits for a row it would conflict with.
CreateUser(h) ==
    LET e == ask[h].email IN
    /\ At(h, "create_user")
    /\ ~Exists(e)
    /\ lastId < MaxId
    /\ lastId' = lastId + 1
    /\ user' = [user EXCEPT ![e] = [id |-> lastId + 1, role |-> ask[h].role]]
    /\ End(h)
    /\ UNCHANGED <<setup, attempts, sessions, tokens>>

\* delete_user: nobody deletes the account of his own email.
CheckSelf(h) ==
    /\ At(h, "delete_user")
    /\ user[claims[h].email].id # ask[h].id
    /\ Goto(h, "lock_user")
    /\ UNCHANGED <<user, lastId, setup, attempts, sessions, tokens, locked>>

\* delete_user: SELECT role .. FOR UPDATE.
LockUser(h, e) ==
    /\ At(h, "lock_user")
    /\ user[e].id = ask[h].id
    /\ locked[e] = Nobody
    /\ locked' = [locked EXCEPT ![e] = h]
    /\ Goto(h, IF user[e].role = "admin" THEN "lock_admins" ELSE "remove_user")
    /\ UNCHANGED <<user, lastId, setup, attempts, sessions, tokens>>

\* Mutant of LockAdmins: the administrators are counted, not locked.
CountAdmins(h) ==
    /\ At(h, "lock_admins")
    /\ Cardinality(Admins) > 1
    /\ Goto(h, "remove_user")
    /\ UNCHANGED <<user, lastId, setup, attempts, sessions, tokens, locked>>

\* delete_user: all administrators are locked and counted.
LockAdmins(h) ==
    /\ At(h, "lock_admins")
    /\ \A e \in Admins : locked[e] \in {Nobody, h}
    /\ Cardinality(Admins) > 1
    /\ locked' = [e \in Emails |-> IF e \in Admins THEN h ELSE locked[e]]
    /\ Goto(h, "remove_user")
    /\ UNCHANGED <<user, lastId, setup, attempts, sessions, tokens>>

\* Mutant of RemoveUser: the tokens stay (no ON DELETE CASCADE).
RemoveUserOnly(h) ==
    /\ At(h, "remove_user")
    /\ user' = [e \in Emails |-> IF user[e].id = ask[h].id THEN NoUser ELSE user[e]]
    /\ End(h)
    /\ UNCHANGED <<lastId, setup, attempts, sessions, tokens>>

\* delete_user: the row goes, and the tokens of the user with it.
RemoveUser(h) ==
    /\ At(h, "remove_user")
    /\ user' = [e \in Emails |-> IF user[e].id = ask[h].id THEN NoUser ELSE user[e]]
    /\ tokens' = {t \in tokens : t.owner # ask[h].id}
    /\ End(h)
    /\ UNCHANGED <<lastId, setup, attempts, sessions>>

\* current_user_id: the user who has the email now.  A read-only token makes no
\* other than read-only tokens.
CurrentUser(h) ==
    LET e == claims[h].email IN
    /\ \/ /\ At(h, "create_token")
          /\ ~(claims[h].scope = "read_only" /\ ask[h].scope = "read_write")
          /\ step' = [step EXCEPT ![h] = "insert_token"]
       \/ At(h, "revoke_token") /\ step' = [step EXCEPT ![h] = "delete_token"]
    /\ Exists(e)
    /\ claims' = [claims EXCEPT ![h].id = user[e].id]
    /\ UNCHANGED <<user, lastId, setup, attempts, sessions, tokens, locked, ask>>

\* create_token: the row refers to that of the user, who may have been deleted.
CreateToken(h) ==
    /\ At(h, "insert_token")
    /\ \E e \in Emails : user[e].id = claims[h].id /\ locked[e] = Nobody
    /\ Cardinality(tokens) < MaxTokens
    /\ tokens' = tokens \cup {[owner |-> claims[h].id, scope |-> ask[h].scope]}
    /\ End(h)
    /\ UNCHANGED <<user, lastId, setup, attempts, sessions>>

\* revoke_token: a token of one's own.
RevokeToken(h) ==
    LET t == [owner |-> claims[h].id, scope |-> ask[h].scope] IN
    /\ At(h, "delete_token")
    /\ t \in tokens
    /\ tokens' = tokens \ {t}
    /\ End(h)
    /\ UNCHANGED <<user, lastId, setup, attempts, sessions>>

-----------------------------------------------------------------------------
AccountsNext ==
    \/ \E h \in Handlers :
          \/ \E e \in Emails : CheckLockout(h, e) \/ CheckSetup(h, e) \/ LockUser(h, e)
          \/ \E right \in BOOLEAN : VerifyPassword(h, right)
          \/ RecordFailure(h) \/ LoginSucceeds(h) \/ CompleteSetup(h)
          \/ \E c \in Credentials, q \in UserRequests : Authenticate(h, q, c.owner, c.scope)
          \/ CreateUser(h) \/ CheckSelf(h) \/ LockAdmins(h) \/ RemoveUser(h)
          \/ CurrentUser(h) \/ CreateToken(h) \/ RevokeToken(h)
          \/ Abandon(h)
    \/ \E e \in Emails : ForgetAttempt(e)
    \/ \E n \in Ids : Logout(n)

AccountsSpec == AccountsInit /\ [][AccountsNext]_accounts

-----------------------------------------------------------------------------
(***************************************************************************)
(* Correctness                                                             *)
(***************************************************************************)

User == [id : Ids, role : Roles \cup {"none"}]
Claims == [id : Ids, email : Emails \cup {""}, scope : Scopes \cup {"none"}]
Steps == {"idle", "verify", "success", "failure", "setup", "create_user", "delete_user",
          "lock_user", "lock_admins", "remove_user", "create_token", "insert_token",
          "revoke_token", "delete_token"}

\* The state is of the shape the code keeps it in; an id has one row.
AccountsTypeOK ==
    /\ user \in [Emails -> User]
    /\ \A e \in Emails : user[e].id = 0 <=> user[e] = NoUser
    /\ \A d, e \in Emails : Exists(e) /\ user[d].id = user[e].id => d = e
    /\ lastId \in Ids /\ \A e \in Emails : user[e].id <= lastId
    /\ setup \in BOOLEAN
    /\ attempts \in [Emails -> Nat]
    /\ sessions \subseteq 1 .. lastId
    /\ tokens \subseteq [owner : 1 .. lastId, scope : Scopes]
    /\ locked \in [Emails -> Handlers \cup {Nobody}]
    /\ step \in [Handlers -> Steps]
    /\ ask \in [Handlers -> AccountRequests \cup {Idle}]
    /\ claims \in [Handlers -> Claims]

\* Once setup is complete, an administrator is left, whoever deletes whom at
\* the same time (delete_user's lock on all administrators).
AdminRemains == setup => Admins # {}

\* However many logins are tried at the same time, the failures in the window
\* exceed the limit by less than the number of handlers: each of them passed
\* check_lockout before.
FailuresBounded ==
    \A e \in Emails : attempts[e] <= Limit - 1 + Cardinality(Handlers)

\* Who has been deleted never comes back: no user gets that id again, and a
\* cookie or a token of it starts no request, even once there is a user of the
\* same email (resolve_session, resolve_pat).
NobodyReturns ==
    [][\A n \in 1 .. lastId :
          (\A e \in Emails : user[e].id # n) =>
              /\ \A e \in Emails : user'[e].id # n
              /\ \A h \in Handlers : At(h, "idle") => claims'[h].id # n]_accounts

=============================================================================
