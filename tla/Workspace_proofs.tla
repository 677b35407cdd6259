-------------------------- MODULE Workspace_proofs --------------------------
(***************************************************************************)
(* Proofs about Workspace, for any number of projects, environments, keys   *)
(* and handlers: it is the accounts with more around them, its types, that  *)
(* a project remains and revoking leaves a key, that setting a default does *)
(* not fail, that nothing outlives what it hangs on, and that a request     *)
(* stays within its project.                                               *)
(***************************************************************************)
EXTENDS Workspace, Accounts_proofs

-----------------------------------------------------------------------------
(* The accounts *)

LEMMA AccountsUnchanged ==
    ASSUME WorkspaceNext
    PROVE  UNCHANGED accounts
BY DEF WorkspaceNext, Authorize, GiveUp, CreateProject, LockProjects, DeleteProject, CheckUser,
   AddMember, UpdateMemberRole, RemoveMember, ChangeMember, CreateEnvironment, ReadIsDefault,
   CountEnvironments, DeleteEnvironment, CheckBelongs, LockProject, ClearDefaults, SetDefault,
   CheckEnvironment, CreateKey, LockKeys, RevokeKey

\* Whatever is proved of the accounts alone holds of them in a workspace: no
\* handler of projects, environments or keys changes them.
THEOREM KeepsAccounts == Spec => AccountsSpec
<1>1. Init => AccountsInit
  BY DEF Init
<1>2. [Next]_all => [AccountsNext]_accounts
  BY AccountsUnchanged DEF Next, AccountsStep, all
<1> QED BY <1>1, <1>2, PTL DEF Spec, AccountsSpec

-----------------------------------------------------------------------------
(* Types: the rows, and what the handlers are at                           *)

RowTypes ==
    /\ project \in [Projects -> Projects \cup {Unborn, Gone}]
    /\ home \in [Environments -> Projects \cup {Unborn, Gone}]
    /\ defaults \subseteq Environments
    /\ keyOf \in [Keys -> Environments \cup {Unborn, Gone}]
    /\ member \in [Projects -> [Emails -> Roles \cup {"none"}]]

WorkTypes ==
    /\ plock \in [Projects -> Handlers \cup {Nobody}]
    /\ klock \in [Keys -> Handlers \cup {Nobody}]
    /\ cleared \in [Handlers -> SUBSET Environments]
    /\ at \in [Handlers -> WorkspaceSteps]
    /\ req \in [Handlers -> WorkspaceRequests \cup {NoRequest}]
    /\ \A h \in Handlers : at[h] = "idle" =>
          /\ \A p \in Projects : plock[p] # h
          /\ \A k \in Keys : klock[k] # h
          /\ cleared[h] = {}

LEMMA TypesApart == WorkspaceTypeOK <=> RowTypes /\ WorkTypes
<1>1. \A h : h \notin {plock[p] : p \in Projects} \cup {klock[k] : k \in Keys}
             <=> (\A p \in Projects : plock[p] # h) /\ (\A k \in Keys : klock[k] # h)
  OBVIOUS
<1> QED BY <1>1 DEF WorkspaceTypeOK, RowTypes, WorkTypes

\* The statements of the requests that name an environment, a key, a role.
OfEnvironment == {"create_environment", "read_default", "count_environments",
    "delete_environment", "check_belongs", "lock_project", "clear_defaults", "set_default",
    "check_environment", "create_key"}
OfKey == {"check_environment", "create_key", "lock_keys", "revoke_key"}
OfRole == {"check_user", "add_member", "update_member"}

RequestFits(h) ==
    /\ at[h] # "idle" => req[h] \in WorkspaceRequests
    /\ at[h] \in OfEnvironment => req[h].env \in Environments
    /\ at[h] \in OfKey => req[h].key \in Keys
    /\ at[h] \in OfRole => req[h].role \in Roles /\ req[h].user # 0

Fits == \A h \in Handlers : RequestFits(h)

LEMMA Kinds ==
    ASSUME NEW q \in WorkspaceRequests
    PROVE  /\ q.project \in Projects
           /\ q.kind \in {"create_project", "delete_project", "create_environment",
                 "delete_environment", "set_default", "create_key", "revoke_key", "add_member",
                 "update_member", "remove_member"}
           /\ q.kind \in {"create_environment", "delete_environment", "set_default",
                 "create_key"} => q.env \in Environments
           /\ q.kind \in {"create_key", "revoke_key"} => q.key \in Keys
           /\ q.kind \in {"add_member", "update_member"} => q.role \in Roles /\ q.user # 0
BY DEF WorkspaceRequests

LEMMA FirstSteps ==
    ASSUME NEW q \in WorkspaceRequests
    PROVE  /\ q.kind = "delete_environment" => FirstStep[q.kind] = "read_default"
           /\ q.kind = "set_default" => FirstStep[q.kind] = "check_belongs"
           /\ q.kind = "create_key" => FirstStep[q.kind] = "check_environment"
           /\ q.kind = "revoke_key" => FirstStep[q.kind] = "lock_keys"
           /\ q.kind = "delete_project" => FirstStep[q.kind] = "lock_projects"
           /\ q.kind = "add_member" => FirstStep[q.kind] = "check_user"
           /\ q.kind \in {"create_project", "create_environment", "update_member",
                 "remove_member"} => FirstStep[q.kind] = q.kind
BY DEF FirstStep

LEMMA AnswerTypes ==
    ASSUME WorkTypes, Fits, NEW h \in Handlers, Answer(h)
    PROVE  WorkTypes' /\ Fits'
<1>1. /\ \A g \in Handlers \ {h} :
            at'[g] = at[g] /\ req'[g] = req[g] /\ cleared'[g] = cleared[g]
      /\ at'[h] = "idle" /\ cleared'[h] = {}
      /\ \A p \in Projects : plock'[p] = IF plock[p] = h THEN Nobody ELSE plock[p]
      /\ \A k \in Keys : klock'[k] = IF klock[k] = h THEN Nobody ELSE klock[k]
  BY DEF Answer, WorkTypes
<1>2. /\ plock' \in [Projects -> Handlers \cup {Nobody}]
      /\ klock' \in [Keys -> Handlers \cup {Nobody}]
      /\ cleared' \in [Handlers -> SUBSET Environments]
  BY DEF Answer, WorkTypes
<1>3. at' \in [Handlers -> WorkspaceSteps] /\ req' \in [Handlers -> WorkspaceRequests \cup {NoRequest}]
  BY DEF Answer, WorkTypes, WorkspaceSteps
<1>4. WorkTypes'
  BY <1>1, <1>2, <1>3, HandlersAssumption DEF WorkTypes
<1>5. Fits'
  BY <1>1 DEF Fits, RequestFits, OfEnvironment, OfKey, OfRole
<1> QED BY <1>4, <1>5

\* A handler goes on to statement t, for the same request or a new one.
LEMMA AdvanceTypes ==
    ASSUME WorkTypes, Fits, NEW h \in Handlers, NEW t \in WorkspaceSteps \ {"idle"},
           Advance(h, t), NEW q \in WorkspaceRequests, req' = [req EXCEPT ![h] = q],
           plock' \in [Projects -> Handlers \cup {Nobody}],
           \A p \in Projects : plock'[p] \in {plock[p], h},
           klock' \in [Keys -> Handlers \cup {Nobody}],
           \A k \in Keys : klock'[k] \in {klock[k], h},
           NEW c \in SUBSET Environments, cleared' = [cleared EXCEPT ![h] = c],
           t \in OfEnvironment => q.env \in Environments,
           t \in OfKey => q.key \in Keys,
           t \in OfRole => q.role \in Roles /\ q.user # 0
    PROVE  WorkTypes' /\ Fits'
<1>1. /\ \A g \in Handlers \ {h} :
            at'[g] = at[g] /\ req'[g] = req[g] /\ cleared'[g] = cleared[g]
      /\ at'[h] = t /\ req'[h] = q
  BY DEF Advance, WorkTypes
<1>2. /\ cleared' \in [Handlers -> SUBSET Environments]
      /\ at' \in [Handlers -> WorkspaceSteps]
      /\ req' \in [Handlers -> WorkspaceRequests \cup {NoRequest}]
  BY DEF Advance, WorkTypes
<1>3. WorkTypes'
  BY <1>1, <1>2 DEF WorkTypes
<1>4. Fits'
  BY <1>1 DEF Fits, RequestFits
<1> QED BY <1>3, <1>4

LEMMA InitTypes == Init => RowTypes /\ WorkTypes /\ Fits
<1> SUFFICES ASSUME Init PROVE RowTypes /\ WorkTypes /\ Fits
  OBVIOUS
<1>1. RowTypes
  <2>1. PICK p \in Projects, e \in Environments, k \in Keys :
          /\ project = [q \in Projects |-> IF q = p THEN p ELSE Unborn]
          /\ home = [d \in Environments |-> IF d = e THEN p ELSE Unborn]
          /\ defaults = {e}
          /\ keyOf = [i \in Keys |-> IF i = k THEN e ELSE Unborn]
    BY DEF Init, WorkspaceInit
  <2>2. member \in [Projects -> [Emails -> Roles \cup {"none"}]]
    BY DEF Init, WorkspaceInit
  <2> QED BY <2>1, <2>2 DEF RowTypes
<1>2. WorkTypes
  BY HandlersAssumption DEF Init, WorkspaceInit, WorkTypes, WorkspaceSteps
<1>3. Fits
  BY DEF Init, WorkspaceInit, Fits, RequestFits, OfEnvironment, OfKey, OfRole
<1> QED BY <1>1, <1>2, <1>3

LEMMA WorkStep ==
    ASSUME WorkTypes, Fits, RowTypes, [Next]_all
    PROVE  WorkTypes' /\ Fits'
<1> DEFINE Kept == WorkTypes' /\ Fits'
<1>1. ASSUME NEW h \in Handlers, NEW u \in Emails, NEW q \in WorkspaceRequests, Authorize(h, u, q)
      PROVE  Kept
  <2> DEFINE t == FirstStep[q.kind]
  <2>1. /\ t \in WorkspaceSteps \ {"idle"}
        /\ t \in OfEnvironment => q.env \in Environments
        /\ t \in OfKey => q.key \in Keys
        /\ t \in OfRole => q.role \in Roles /\ q.user # 0
    BY Kinds, FirstSteps DEF WorkspaceSteps, OfEnvironment, OfKey, OfRole
  <2>2. /\ Advance(h, t) /\ req' = [req EXCEPT ![h] = q]
        /\ cleared' = [cleared EXCEPT ![h] = cleared[h]] /\ cleared[h] \in SUBSET Environments
        /\ plock' = plock /\ klock' = klock
    BY <1>1 DEF Authorize, WorkTypes
  <2>3. /\ plock' \in [Projects -> Handlers \cup {Nobody}]
        /\ klock' \in [Keys -> Handlers \cup {Nobody}]
    BY <2>2 DEF WorkTypes
  <2> HIDE DEF t
  <2> QED BY <2>1, <2>2, <2>3, AdvanceTypes
\* A step in the middle of a request, which may lock.
<1>a. ASSUME NEW h \in Handlers, at[h] # "idle",
             NEW t \in WorkspaceSteps \ {"idle"}, Advance(h, t), req' = req,
             plock' \in [Projects -> Handlers \cup {Nobody}],
             \A p \in Projects : plock'[p] \in {plock[p], h},
             klock' \in [Keys -> Handlers \cup {Nobody}],
             \A k \in Keys : klock'[k] \in {klock[k], h},
             NEW c \in SUBSET Environments, cleared' = [cleared EXCEPT ![h] = c],
             t \in OfEnvironment => at[h] \in OfEnvironment,
             t \in OfKey => at[h] \in OfKey,
             t \in OfRole => at[h] \in OfRole
      PROVE  Kept
  <2>1. RequestFits(h)
    BY DEF Fits
  <2>2. req[h] \in WorkspaceRequests /\ req' = [req EXCEPT ![h] = req[h]]
    BY <1>a, <2>1 DEF RequestFits, WorkTypes
  <2>3. /\ t \in OfEnvironment => req[h].env \in Environments
        /\ t \in OfKey => req[h].key \in Keys
        /\ t \in OfRole => req[h].role \in Roles /\ req[h].user # 0
    BY <1>a, <2>1 DEF RequestFits
  <2> QED BY <1>a, <2>2, <2>3, AdvanceTypes
<1>b. ASSUME NEW h \in Handlers, at[h] # "idle",
             NEW t \in WorkspaceSteps \ {"idle"}, Advance(h, t),
             UNCHANGED <<req, plock, klock, cleared>>,
             t \in OfEnvironment => at[h] \in OfEnvironment,
             t \in OfKey => at[h] \in OfKey,
             t \in OfRole => at[h] \in OfRole
      PROVE  Kept
  <2>1. /\ cleared' = [cleared EXCEPT ![h] = cleared[h]] /\ cleared[h] \in SUBSET Environments
        /\ plock' \in [Projects -> Handlers \cup {Nobody}]
        /\ klock' \in [Keys -> Handlers \cup {Nobody}]
    BY <1>b DEF WorkTypes
  <2> QED BY <1>b, <2>1, <1>a
<1> USE DEF OfEnvironment, OfKey, OfRole, WorkspaceSteps
<1>2. ASSUME NEW h \in Handlers, LockProjects(h)
      PROVE  Kept
  <2>1. /\ plock' \in [Projects -> Handlers \cup {Nobody}]
        /\ \A p \in Projects : plock'[p] \in {plock[p], h}
        /\ klock' = klock /\ klock \in [Keys -> Handlers \cup {Nobody}]
        /\ cleared' = [cleared EXCEPT ![h] = cleared[h]] /\ cleared[h] \in SUBSET Environments
    BY <1>2 DEF LockProjects, WorkTypes
  <2>2. at[h] = "lock_projects" /\ Advance(h, "delete_project") /\ req' = req
    BY <1>2 DEF LockProjects
  <2>3. /\ plock' \in [Projects -> Handlers \cup {Nobody}]
        /\ klock' \in [Keys -> Handlers \cup {Nobody}]
        /\ \A p \in Projects : plock'[p] \in {plock[p], h}
        /\ \A k \in Keys : klock'[k] \in {klock[k], h}
    BY <2>1
  <2>4. /\ "delete_project" \in OfEnvironment => at[h] \in OfEnvironment
        /\ "delete_project" \in OfKey => at[h] \in OfKey
        /\ "delete_project" \in OfRole => at[h] \in OfRole
        /\ "delete_project" \in WorkspaceSteps \ {"idle"} /\ at[h] # "idle"
    BY <2>2
  <2> QED BY <2>1, <2>2, <2>3, <2>4, <1>a
<1>3. ASSUME NEW h \in Handlers, LockProject(h)
      PROVE  Kept
  <2>1. /\ plock' \in [Projects -> Handlers \cup {Nobody}]
        /\ \A p \in Projects : plock'[p] \in {plock[p], h}
        /\ klock' = klock /\ klock \in [Keys -> Handlers \cup {Nobody}]
        /\ cleared' = [cleared EXCEPT ![h] = cleared[h]] /\ cleared[h] \in SUBSET Environments
    BY <1>3 DEF LockProject, WorkTypes
  <2>2. at[h] = "lock_project" /\ Advance(h, "clear_defaults") /\ req' = req
    BY <1>3 DEF LockProject
  <2>3. /\ plock' \in [Projects -> Handlers \cup {Nobody}]
        /\ klock' \in [Keys -> Handlers \cup {Nobody}]
        /\ \A p \in Projects : plock'[p] \in {plock[p], h}
        /\ \A k \in Keys : klock'[k] \in {klock[k], h}
    BY <2>1
  <2>4. /\ "clear_defaults" \in OfEnvironment => at[h] \in OfEnvironment
        /\ "clear_defaults" \in OfKey => at[h] \in OfKey
        /\ "clear_defaults" \in OfRole => at[h] \in OfRole
        /\ "clear_defaults" \in WorkspaceSteps \ {"idle"} /\ at[h] # "idle"
    BY <2>2
  <2> QED BY <2>1, <2>2, <2>3, <2>4, <1>a
<1>4. ASSUME NEW h \in Handlers, LockKeys(h)
      PROVE  Kept
  <2>1. /\ klock' \in [Keys -> Handlers \cup {Nobody}]
        /\ \A k \in Keys : klock'[k] \in {klock[k], h}
        /\ plock' = plock /\ plock \in [Projects -> Handlers \cup {Nobody}]
        /\ cleared' = [cleared EXCEPT ![h] = cleared[h]] /\ cleared[h] \in SUBSET Environments
    BY <1>4 DEF LockKeys, WorkTypes
  <2>2. at[h] = "lock_keys" /\ Advance(h, "revoke_key") /\ req' = req
    BY <1>4 DEF LockKeys
  <2>3. /\ plock' \in [Projects -> Handlers \cup {Nobody}]
        /\ klock' \in [Keys -> Handlers \cup {Nobody}]
        /\ \A p \in Projects : plock'[p] \in {plock[p], h}
        /\ \A k \in Keys : klock'[k] \in {klock[k], h}
    BY <2>1
  <2>4. /\ "revoke_key" \in OfEnvironment => at[h] \in OfEnvironment
        /\ "revoke_key" \in OfKey => at[h] \in OfKey
        /\ "revoke_key" \in OfRole => at[h] \in OfRole
        /\ "revoke_key" \in WorkspaceSteps \ {"idle"} /\ at[h] # "idle"
    BY <2>2
  <2> QED BY <2>1, <2>2, <2>3, <2>4, <1>a
<1>5. ASSUME NEW h \in Handlers, ClearDefaults(h)
      PROVE  Kept
  <2> DEFINE old == (defaults \cap EnvironmentsOf(req[h].project)) \ {req[h].env}
  <2>1. /\ plock' = plock /\ plock \in [Projects -> Handlers \cup {Nobody}]
        /\ klock' = klock /\ klock \in [Keys -> Handlers \cup {Nobody}]
        /\ cleared' = [cleared EXCEPT ![h] = old] /\ old \in SUBSET Environments
    BY <1>5 DEF ClearDefaults, WorkTypes, RowTypes
  <2>2. at[h] = "clear_defaults" /\ Advance(h, "set_default") /\ req' = req
    BY <1>5 DEF ClearDefaults
  <2> HIDE DEF old
  <2>3. /\ plock' \in [Projects -> Handlers \cup {Nobody}]
        /\ klock' \in [Keys -> Handlers \cup {Nobody}]
        /\ \A p \in Projects : plock'[p] \in {plock[p], h}
        /\ \A k \in Keys : klock'[k] \in {klock[k], h}
    BY <2>1
  <2>4. /\ "set_default" \in OfEnvironment => at[h] \in OfEnvironment
        /\ "set_default" \in OfKey => at[h] \in OfKey
        /\ "set_default" \in OfRole => at[h] \in OfRole
        /\ "set_default" \in WorkspaceSteps \ {"idle"} /\ at[h] # "idle"
    BY <2>2
  <2> QED BY <2>1, <2>2, <2>3, <2>4, <1>a
<1>6. ASSUME NEW h \in Handlers, CheckUser(h)
      PROVE  Kept
  BY <1>6, <1>b DEF CheckUser
<1>7. ASSUME NEW h \in Handlers, ReadIsDefault(h)
      PROVE  Kept
  BY <1>7, <1>b DEF ReadIsDefault
<1>8. ASSUME NEW h \in Handlers, CountEnvironments(h)
      PROVE  Kept
  BY <1>8, <1>b DEF CountEnvironments
<1>9. ASSUME NEW h \in Handlers, CheckBelongs(h)
      PROVE  Kept
  BY <1>9, <1>b DEF CheckBelongs
<1>10. ASSUME NEW h \in Handlers, CheckEnvironment(h)
       PROVE  Kept
  BY <1>10, <1>b DEF CheckEnvironment
<1>11. ASSUME NEW h \in Handlers,
              \/ GiveUp(h) \/ CreateProject(h) \/ DeleteProject(h) \/ AddMember(h)
              \/ UpdateMemberRole(h) \/ RemoveMember(h) \/ CreateEnvironment(h)
              \/ DeleteEnvironment(h) \/ SetDefault(h) \/ CreateKey(h) \/ RevokeKey(h)
       PROVE  Kept
  <2>1. Answer(h)
    BY <1>11 DEF GiveUp, CreateProject, DeleteProject, AddMember, UpdateMemberRole, RemoveMember,
       ChangeMember, CreateEnvironment, DeleteEnvironment, SetDefault, CreateKey, RevokeKey
  <2> QED BY <2>1, AnswerTypes
<1>12. ASSUME UNCHANGED working
       PROVE  Kept
  BY <1>12 DEF working, WorkTypes, Fits, RequestFits
<1> QED
  BY <1>1, <1>2, <1>3, <1>4, <1>5, <1>6, <1>7, <1>8, <1>9, <1>10, <1>11, <1>12
     DEF Next, WorkspaceNext, AccountsStep, all, workspace

LEMMA RowStep ==
    ASSUME WorkTypes, Fits, RowTypes, [Next]_all
    PROVE  RowTypes'
<1>1. ASSUME AccountsStep PROVE RowTypes'
  BY <1>1 DEF AccountsStep, RowTypes
<1>2. ASSUME NEW h \in Handlers, CreateProject(h) PROVE RowTypes'
  BY <1>2 DEF CreateProject, RowTypes
<1>3. ASSUME NEW h \in Handlers, DeleteProject(h) PROVE RowTypes'
  <2>1. /\ project' \in [Projects -> Projects \cup {Unborn, Gone}]
        /\ home' \in [Environments -> Projects \cup {Unborn, Gone}]
        /\ defaults' \subseteq Environments
    BY <1>3 DEF DeleteProject, RowTypes
  <2>2. keyOf' \in [Keys -> Environments \cup {Unborn, Gone}]
    BY <1>3 DEF DeleteProject, RowTypes
  <2>3. member' \in [Projects -> [Emails -> Roles \cup {"none"}]]
    BY <1>3 DEF DeleteProject, RowTypes
  <2> QED BY <2>1, <2>2, <2>3 DEF RowTypes
<1>4. ASSUME NEW h \in Handlers, NEW role \in Roles \cup {"none"}, NEW u \in Emails,
             member' = [member EXCEPT ![req[h].project][u] = role],
             UNCHANGED <<project, home, defaults, keyOf>>
      PROVE RowTypes'
  BY <1>4 DEF RowTypes
<1>5. ASSUME NEW h \in Handlers, AddMember(h) \/ UpdateMemberRole(h) \/ RemoveMember(h)
      PROVE RowTypes'
  <2>1. AddMember(h) \/ UpdateMemberRole(h) => req[h].role \in Roles
    BY DEF AddMember, UpdateMemberRole, Fits, RequestFits, OfRole
  <2> QED BY <1>4, <1>5, <2>1 DEF AddMember, UpdateMemberRole, RemoveMember, ChangeMember
<1>6. ASSUME NEW h \in Handlers, CreateEnvironment(h) PROVE RowTypes'
  <2>1. req[h].project \in Projects
    BY <1>6, Kinds DEF CreateEnvironment, Fits, RequestFits
  <2> QED BY <1>6, <2>1 DEF CreateEnvironment, RowTypes
<1>7. ASSUME NEW h \in Handlers, DeleteEnvironment(h) PROVE RowTypes'
  BY <1>7 DEF DeleteEnvironment, RowTypes
<1>8. ASSUME NEW h \in Handlers, SetDefault(h) PROVE RowTypes'
  <2>1. req[h].env \in Environments
    BY <1>8 DEF SetDefault, Fits, RequestFits, OfEnvironment
  <2> QED BY <1>8, <2>1 DEF SetDefault, RowTypes
<1>9. ASSUME NEW h \in Handlers, CreateKey(h) PROVE RowTypes'
  <2>1. req[h].env \in Environments
    BY <1>9 DEF CreateKey, Fits, RequestFits, OfEnvironment
  <2> QED BY <1>9, <2>1 DEF CreateKey, RowTypes
<1>10. ASSUME NEW h \in Handlers, RevokeKey(h) PROVE RowTypes'
  BY <1>10 DEF RevokeKey, RowTypes
<1>11. ASSUME UNCHANGED rows PROVE RowTypes'
  BY <1>11 DEF rows, RowTypes
<1> QED
  BY <1>1, <1>2, <1>3, <1>5, <1>6, <1>7, <1>8, <1>9, <1>10, <1>11
     DEF Next, WorkspaceNext, Authorize, GiveUp, LockProjects, CheckUser, ReadIsDefault,
         CountEnvironments, CheckBelongs, LockProject, ClearDefaults, CheckEnvironment, LockKeys,
         all, workspace

WorkspaceTyped == RowTypes /\ WorkTypes /\ Fits

LEMMA TypedStep == WorkspaceTyped /\ [Next]_all => WorkspaceTyped'
BY RowStep, WorkStep DEF WorkspaceTyped

\* The rows of a workspace and of its accounts keep their types, and a handler
\* that serves no request has nothing locked and no transaction open.
THEOREM WorkspaceTypeCorrect == Spec => []TypeOK
<1>1. Init => WorkspaceTyped
  BY InitTypes DEF WorkspaceTyped
<1>2. WorkspaceTyped => WorkspaceTypeOK
  BY TypesApart DEF WorkspaceTyped
<1>3. AccountsTypeOK /\ WorkspaceTypeOK <=> TypeOK
  BY DEF TypeOK
<1> QED BY <1>1, <1>2, <1>3, TypedStep, KeepsAccounts, TypeCorrect, PTL DEF Spec

-----------------------------------------------------------------------------
(* How a handler comes to a statement, and what it keeps on the way.       *)

Moves(g) ==
    /\ at'[g] = "delete_project" => at[g] = "delete_project" \/ LockProjects(g)
    /\ at'[g] = "revoke_key" => at[g] = "revoke_key" \/ LockKeys(g)
    /\ at'[g] = "lock_project" => at[g] = "lock_project" \/ CheckBelongs(g)
    /\ at'[g] = "clear_defaults" => at[g] = "clear_defaults" \/ LockProject(g)
    /\ at'[g] = "set_default" =>
          (at[g] = "set_default" /\ cleared'[g] = cleared[g]) \/ ClearDefaults(g)
    /\ at'[g] = "create_key" => at[g] = "create_key" \/ CheckEnvironment(g)
    /\ at[g] # "idle" /\ at'[g] # "idle" =>
          /\ req'[g] = req[g]
          /\ \A p \in Projects : plock[p] = g => plock'[p] = g
          /\ \A k \in Keys : klock[k] = g => klock'[k] = g

\* What handler h does to the working state leaves that of the others alone.
Alone(h) ==
    /\ \A g \in Handlers \ {h} : at'[g] = at[g] /\ req'[g] = req[g] /\ cleared'[g] = cleared[g]
    /\ \A p \in Projects : plock[p] \in Handlers \ {h} => plock'[p] = plock[p]
    /\ \A k \in Keys : klock[k] \in Handlers \ {h} => klock'[k] = klock[k]

LEMMA AnswerMoves ==
    ASSUME WorkspaceTyped, NEW h \in Handlers, Answer(h)
    PROVE  \A g \in Handlers : Moves(g)
<1>1. Alone(h) /\ at'[h] = "idle"
  BY DEF Answer, WorkspaceTyped, WorkTypes, Alone
<1> QED BY <1>1 DEF Alone, Moves

LEMMA AdvanceMoves ==
    ASSUME WorkspaceTyped, NEW h \in Handlers, NEW t, Advance(h, t), Alone(h), Moves(h)
    PROVE  \A g \in Handlers : Moves(g)
BY DEF Alone, Moves

LEMMA MovesAll ==
    ASSUME WorkspaceTyped, [Next]_all
    PROVE  \A g \in Handlers : Moves(g)
<1> DEFINE Goal == \A g \in Handlers : Moves(g)
<1>0. WorkTypes /\ RowTypes /\ Fits
  BY DEF WorkspaceTyped
<1> USE HandlersAssumption
<1>1. ASSUME NEW h \in Handlers, NEW u \in Emails, NEW q \in WorkspaceRequests, Authorize(h, u, q)
      PROVE  Goal
  <2>1. Alone(h) /\ at'[h] = FirstStep[q.kind] /\ at[h] = "idle"
    BY <1>0, <1>1 DEF Authorize, Advance, WorkTypes, Alone
  <2>2. FirstStep[q.kind] \notin {"delete_project", "revoke_key", "lock_project", "clear_defaults",
                                  "set_default", "create_key"}
    BY Kinds, FirstSteps
  <2>3. Moves(h)
    BY <2>1, <2>2 DEF Moves
  <2> QED BY <1>1, <2>1, <2>3, AdvanceMoves DEF Authorize
<1>2. ASSUME NEW h \in Handlers, LockProjects(h)
      PROVE  Goal
  <2>1. Alone(h) /\ at'[h] = "delete_project" /\ req' = req
    BY <1>0, <1>2 DEF LockProjects, Advance, WorkTypes, Alone
  <2>2. \A p \in Projects : plock[p] = h => plock'[p] = h
    BY <1>0, <1>2 DEF LockProjects, WorkTypes
  <2>3. Moves(h)
    BY <1>2, <2>1, <2>2 DEF Moves, LockProjects
  <2> QED BY <1>2, <2>1, <2>3, AdvanceMoves DEF LockProjects
<1>3. ASSUME NEW h \in Handlers, LockProject(h)
      PROVE  Goal
  <2>1. Alone(h) /\ at'[h] = "clear_defaults" /\ req' = req
    BY <1>0, <1>3 DEF LockProject, Advance, WorkTypes, Alone
  <2>2. \A p \in Projects : plock[p] = h => plock'[p] = h
    BY <1>0, <1>3 DEF LockProject, WorkTypes
  <2>3. Moves(h)
    BY <1>3, <2>1, <2>2 DEF Moves, LockProject
  <2> QED BY <1>3, <2>1, <2>3, AdvanceMoves DEF LockProject
<1>4. ASSUME NEW h \in Handlers, LockKeys(h)
      PROVE  Goal
  <2>1. Alone(h) /\ at'[h] = "revoke_key" /\ req' = req
    BY <1>0, <1>4 DEF LockKeys, Advance, WorkTypes, Alone, LiveKeys
  <2>2. \A k \in Keys : klock[k] = h => klock'[k] = h
    BY <1>0, <1>4 DEF LockKeys, WorkTypes
  <2>3. Moves(h)
    BY <1>4, <2>1, <2>2 DEF Moves, LockKeys
  <2> QED BY <1>4, <2>1, <2>3, AdvanceMoves DEF LockKeys
<1>5. ASSUME NEW h \in Handlers, ClearDefaults(h)
      PROVE  Goal
  <2>1. Alone(h) /\ at'[h] = "set_default" /\ req' = req /\ plock' = plock /\ klock' = klock
    BY <1>0, <1>5 DEF ClearDefaults, Advance, WorkTypes, Alone
  <2>2. Moves(h)
    BY <1>5, <2>1 DEF Moves
  <2> QED BY <1>5, <2>1, <2>2, AdvanceMoves DEF ClearDefaults
<1>6. ASSUME NEW h \in Handlers, NEW t \in WorkspaceSteps, Advance(h, t),
             UNCHANGED <<plock, klock, cleared, req>>, Moves(h)
      PROVE  Goal
  <2>1. Alone(h)
    BY <1>0, <1>6 DEF Advance, WorkTypes, Alone
  <2> QED BY <1>6, <2>1, AdvanceMoves
<1>7. ASSUME NEW h \in Handlers, CheckUser(h)
      PROVE  Goal
  BY <1>0, <1>7, <1>6 DEF CheckUser, Advance, WorkTypes, Moves, WorkspaceSteps
<1>8. ASSUME NEW h \in Handlers, ReadIsDefault(h)
      PROVE  Goal
  BY <1>0, <1>8, <1>6 DEF ReadIsDefault, Advance, WorkTypes, Moves, WorkspaceSteps
<1>9. ASSUME NEW h \in Handlers, CountEnvironments(h)
      PROVE  Goal
  BY <1>0, <1>9, <1>6 DEF CountEnvironments, Advance, WorkTypes, Moves, WorkspaceSteps
<1>10. ASSUME NEW h \in Handlers, CheckBelongs(h)
       PROVE  Goal
  <2>1. at'[h] = "lock_project"
    BY <1>0, <1>10 DEF CheckBelongs, Advance, WorkTypes
  <2>2. Moves(h)
    BY <1>10, <2>1 DEF CheckBelongs, Moves
  <2> QED BY <1>10, <2>2, <1>6 DEF CheckBelongs, WorkspaceSteps
<1>11. ASSUME NEW h \in Handlers, CheckEnvironment(h)
       PROVE  Goal
  <2>1. at'[h] = "create_key"
    BY <1>0, <1>11 DEF CheckEnvironment, Advance, WorkTypes
  <2>2. Moves(h)
    BY <1>11, <2>1 DEF CheckEnvironment, Moves
  <2> QED BY <1>11, <2>2, <1>6 DEF CheckEnvironment, WorkspaceSteps
<1>12. ASSUME NEW h \in Handlers,
              \/ GiveUp(h) \/ CreateProject(h) \/ DeleteProject(h) \/ AddMember(h)
              \/ UpdateMemberRole(h) \/ RemoveMember(h) \/ CreateEnvironment(h)
              \/ DeleteEnvironment(h) \/ SetDefault(h) \/ CreateKey(h) \/ RevokeKey(h)
       PROVE  Goal
  <2>1. Answer(h)
    BY <1>12 DEF GiveUp, CreateProject, DeleteProject, AddMember, UpdateMemberRole, RemoveMember,
       ChangeMember, CreateEnvironment, DeleteEnvironment, SetDefault, CreateKey, RevokeKey
  <2> QED BY <2>1, AnswerMoves
<1>13. ASSUME UNCHANGED working
       PROVE  Goal
  BY <1>13 DEF working, Moves
<1> QED
  BY <1>1, <1>2, <1>3, <1>4, <1>5, <1>7, <1>8, <1>9, <1>10, <1>11, <1>12, <1>13
     DEF Next, WorkspaceNext, AccountsStep, all, workspace

\* What becomes of the projects, environments and keys that are there.
LEMMA Fates ==
    ASSUME WorkspaceTyped, [Next]_all
    PROVE  /\ \A p \in Live : p \in Live' \/ \E h \in Handlers :
                 DeleteProject(h) /\ p = req[h].project
           /\ \A k \in LiveKeys : klock[k] # Nobody =>
                 k \in LiveKeys' \/ \E h \in Handlers : RevokeKey(h) /\ k = req[h].key
           /\ \A e \in Environments : home'[e] = home[e] \/ home'[e] = Gone \/ home[e] = Unborn
<1> DEFINE Goal ==
       /\ \A p \in Live : p \in Live' \/ \E h \in Handlers : DeleteProject(h) /\ p = req[h].project
       /\ \A k \in LiveKeys : klock[k] # Nobody =>
             k \in LiveKeys' \/ \E h \in Handlers : RevokeKey(h) /\ k = req[h].key
       /\ \A e \in Environments : home'[e] = home[e] \/ home'[e] = Gone \/ home[e] = Unborn
<1>0. RowTypes /\ Fits
  BY DEF WorkspaceTyped
<1>1. ASSUME NEW h \in Handlers, CreateProject(h) PROVE Goal
  BY <1>0, <1>1 DEF CreateProject, RowTypes, Live, LiveKeys
<1>2. ASSUME NEW h \in Handlers, DeleteProject(h) PROVE Goal
  <2>1. \A p \in Live : p # req[h].project => p \in Live'
    BY <1>0, <1>2 DEF DeleteProject, RowTypes, Live
  <2>2. \A k \in LiveKeys : klock[k] # Nobody => k \in LiveKeys'
    BY <1>0, <1>2 DEF DeleteProject, RowTypes, LiveKeys, KeysOf
  <2>3. \A e \in Environments : home'[e] = home[e] \/ home'[e] = Gone
    BY <1>0, <1>2 DEF DeleteProject, RowTypes
  <2> QED BY <1>2, <2>1, <2>2, <2>3
<1>3. ASSUME NEW h \in Handlers, CreateEnvironment(h) PROVE Goal
  <2>1. \A e \in Environments : home'[e] = home[e] \/ home[e] = Unborn
    BY <1>0, <1>3 DEF CreateEnvironment, RowTypes
  <2> QED BY <1>3, <2>1 DEF CreateEnvironment, Live, LiveKeys
<1>4. ASSUME NEW h \in Handlers, DeleteEnvironment(h) PROVE Goal
  <2>1. \A e \in Environments : home'[e] = home[e] \/ home'[e] = Gone
    BY <1>0, <1>4 DEF DeleteEnvironment, RowTypes
  <2>2. \A k \in LiveKeys : klock[k] # Nobody => k \in LiveKeys'
    BY <1>0, <1>4 DEF DeleteEnvironment, RowTypes, LiveKeys
  <2> QED BY <1>4, <2>1, <2>2 DEF DeleteEnvironment, Live
<1>5. ASSUME NEW h \in Handlers, CreateKey(h) PROVE Goal
  <2>1. req[h].env \in Environments
    BY <1>0, <1>5 DEF CreateKey, Fits, RequestFits, OfEnvironment
  <2>2. \A k \in LiveKeys : k \in LiveKeys'
    BY <1>0, <1>5, <2>1 DEF CreateKey, RowTypes, LiveKeys
  <2> QED BY <1>5, <2>2 DEF CreateKey, Live
<1>6. ASSUME NEW h \in Handlers, RevokeKey(h) PROVE Goal
  <2>1. \A k \in LiveKeys : k # req[h].key => k \in LiveKeys'
    BY <1>0, <1>6 DEF RevokeKey, RowTypes, LiveKeys
  <2> QED BY <1>6, <2>1 DEF RevokeKey, Live
<1>7. ASSUME UNCHANGED <<project, home, keyOf>> PROVE Goal
  BY <1>7 DEF Live, LiveKeys
<1> QED
  BY <1>1, <1>2, <1>3, <1>4, <1>5, <1>6, <1>7
     DEF Next, WorkspaceNext, AccountsStep, Authorize, GiveUp, LockProjects, CheckUser, AddMember,
         UpdateMemberRole, RemoveMember, ChangeMember, ReadIsDefault, CountEnvironments,
         CheckBelongs, LockProject, ClearDefaults, SetDefault, CheckEnvironment, LockKeys,
         all, workspace, rows

-----------------------------------------------------------------------------
(* A project remains, and a key: who is about to delete one has locked two, *)
(* and nobody else is about to.                                            *)

TwoProjects(h) == at[h] = "delete_project" =>
    \E p, q \in Live : p # q /\ plock[p] = h /\ plock[q] = h

OneDeletes == \A g, h \in Handlers :
    at[g] = "delete_project" /\ at[h] = "delete_project" => g = h

ProjectsKept == ProjectRemains /\ OneDeletes /\ \A h \in Handlers : TwoProjects(h)

TwoKeys(h) == at[h] = "revoke_key" =>
    \E j, k \in LiveKeys : j # k /\ klock[j] = h /\ klock[k] = h

OneRevokes == \A g, h \in Handlers :
    at[g] = "revoke_key" /\ at[h] = "revoke_key" => g = h

KeysKept == OneRevokes /\ \A h \in Handlers : TwoKeys(h)

LEMMA MoreThanOne ==
    ASSUME NEW S, Cardinality(S) > 1
    PROVE  \E x, y \in S : x # y
<1> SUFFICES ASSUME \A x, y \in S : x = y PROVE FALSE
  OBVIOUS
<1>1. CASE S = {}
  BY <1>1, FS_EmptySet
<1>2. CASE S # {}
  <2>1. PICK x \in S : S = {x}
    BY <1>2
  <2>2. Cardinality({x}) = 1
    BY FS_Singleton, Zenon
  <2> QED BY <2>1, <2>2
<1> QED BY <1>1, <1>2

LEMMA ProjectsStep ==
    ASSUME WorkspaceTyped, ProjectsKept, [Next]_all
    PROVE  ProjectsKept'
<1>0. WorkTypes /\ RowTypes
  BY DEF WorkspaceTyped
<1>1. CASE \E h \in Handlers : LockProjects(h)
  <2>1. PICK h \in Handlers : LockProjects(h)
    BY <1>1
  <2>2. \A g \in Handlers : at[g] # "delete_project"
    BY <2>1, HandlersAssumption DEF LockProjects, ProjectsKept, TwoProjects
  <2>3. /\ Live' = Live /\ \A p \in Live : plock'[p] = h
        /\ \A g \in Handlers \ {h} : at'[g] = at[g]
    BY <1>0, <2>1 DEF LockProjects, Advance, WorkTypes, Live, rows
  <2>4. \E p, q \in Live : p # q
    BY <2>1, MoreThanOne DEF LockProjects
  <2> QED BY <2>2, <2>3, <2>4 DEF ProjectsKept, ProjectRemains, OneDeletes, TwoProjects
<1>2. CASE \E h \in Handlers : DeleteProject(h)
  <2>1. PICK h \in Handlers : DeleteProject(h)
    BY <1>2
  <2>2. \A g \in Handlers : at'[g] # "delete_project"
    BY <1>0, <2>1 DEF DeleteProject, Answer, WorkTypes, ProjectsKept, OneDeletes
  <2>3. \E p, q \in Live : p # q
    BY <2>1 DEF DeleteProject, ProjectsKept, TwoProjects
  <2>4. \A p \in Live : p # req[h].project => p \in Live'
    BY <1>0, <2>1 DEF DeleteProject, RowTypes, Live
  <2>5. PICK p \in Live : p # req[h].project
    BY <2>3
  <2> QED BY <2>2, <2>4, <2>5 DEF ProjectsKept, ProjectRemains, OneDeletes, TwoProjects
<1>3. CASE ~ \E h \in Handlers : LockProjects(h) \/ DeleteProject(h)
  <2>1. \A p \in Live : p \in Live'
    BY <1>3, Fates
  <2>2. \A h \in Handlers : at'[h] = "delete_project" =>
          at[h] = "delete_project" /\ \A p \in Projects : plock[p] = h => plock'[p] = h
    BY <1>3, MovesAll DEF Moves
  <2>3. Live \subseteq Projects
    BY DEF Live
  <2>4. \A h \in Handlers : TwoProjects(h)'
    BY <2>1, <2>2, <2>3 DEF ProjectsKept, TwoProjects
  <2>5. ProjectRemains' /\ OneDeletes'
    BY <2>1, <2>2 DEF ProjectsKept, ProjectRemains, OneDeletes
  <2> QED BY <2>4, <2>5 DEF ProjectsKept
<1> QED BY <1>1, <1>2, <1>3

\* delete_project never deletes the last project.
THEOREM AProjectRemains == Spec => []ProjectRemains
<1>1. Init => WorkspaceTyped /\ ProjectsKept
  <2> SUFFICES ASSUME Init PROVE ProjectsKept
    BY InitTypes DEF WorkspaceTyped
  <2>1. ProjectRemains
    BY DEF Init, WorkspaceInit, ProjectRemains, Live
  <2>2. \A h \in Handlers : at[h] = "idle"
    BY DEF Init, WorkspaceInit
  <2> QED BY <2>1, <2>2 DEF ProjectsKept, OneDeletes, TwoProjects
<1>2. WorkspaceTyped /\ ProjectsKept /\ [Next]_all => (WorkspaceTyped /\ ProjectsKept)'
  BY TypedStep, ProjectsStep
<1>3. ProjectsKept => ProjectRemains
  BY DEF ProjectsKept
<1> QED BY <1>1, <1>2, <1>3, PTL DEF Spec

LEMMA KeysStep ==
    ASSUME WorkspaceTyped, KeysKept, [Next]_all
    PROVE  /\ KeysKept'
           /\ \A h \in Handlers : at[h] = "revoke_key" => LiveKeys' # {}
<1>0. WorkTypes /\ RowTypes
  BY DEF WorkspaceTyped
<1>1. CASE \E h \in Handlers : LockKeys(h)
  <2>1. PICK h \in Handlers : LockKeys(h)
    BY <1>1
  <2>2. \A g \in Handlers : at[g] # "revoke_key"
    BY <2>1, HandlersAssumption DEF LockKeys, KeysKept, TwoKeys
  <2>3. /\ LiveKeys' = LiveKeys /\ \A k \in LiveKeys : klock'[k] = h
        /\ \A g \in Handlers \ {h} : at'[g] = at[g]
    BY <1>0, <2>1 DEF LockKeys, Advance, WorkTypes, LiveKeys, rows
  <2>4. \E j, k \in LiveKeys : j # k
    BY <2>1, MoreThanOne DEF LockKeys
  <2> QED BY <2>2, <2>3, <2>4 DEF KeysKept, OneRevokes, TwoKeys
<1>2. CASE \E h \in Handlers : RevokeKey(h)
  <2>1. PICK h \in Handlers : RevokeKey(h)
    BY <1>2
  <2>2. \A g \in Handlers : at'[g] # "revoke_key"
    BY <1>0, <2>1 DEF RevokeKey, Answer, WorkTypes, KeysKept, OneRevokes
  <2>3. \E j, k \in LiveKeys : j # k
    BY <2>1 DEF RevokeKey, KeysKept, TwoKeys
  <2>4. \A k \in LiveKeys : k # req[h].key => k \in LiveKeys'
    BY <1>0, <2>1 DEF RevokeKey, RowTypes, LiveKeys
  <2>5. PICK k \in LiveKeys : k # req[h].key
    BY <2>3
  <2> QED BY <2>2, <2>4, <2>5 DEF KeysKept, OneRevokes, TwoKeys
<1>3. CASE ~ \E h \in Handlers : LockKeys(h) \/ RevokeKey(h)
  <2>1. \A k \in LiveKeys : klock[k] # Nobody => k \in LiveKeys'
    BY <1>3, Fates
  <2>2. \A h \in Handlers : at'[h] = "revoke_key" =>
          at[h] = "revoke_key" /\ \A k \in Keys : klock[k] = h => klock'[k] = h
    BY <1>3, MovesAll DEF Moves
  <2>3. LiveKeys \subseteq Keys
    BY DEF LiveKeys
  <2>4. \A h \in Handlers : at[h] = "revoke_key" =>
          \E j, k \in LiveKeys : j # k /\ klock[j] = h /\ klock[k] = h
                                 /\ j \in LiveKeys' /\ k \in LiveKeys'
    BY <2>1, HandlersAssumption DEF KeysKept, TwoKeys
  <2>5. \A h \in Handlers : TwoKeys(h)'
    BY <2>2, <2>3, <2>4 DEF TwoKeys
  <2>6. OneRevokes'
    BY <2>2 DEF KeysKept, OneRevokes
  <2> QED BY <2>4, <2>5, <2>6 DEF KeysKept
<1> QED BY <1>1, <1>2, <1>3

\* revoke_key never leaves a workspace without a key.
THEOREM AKeyIsLeft == Spec => RevokingLeavesAKey
<1>1. Init => WorkspaceTyped /\ KeysKept
  <2> SUFFICES ASSUME Init PROVE KeysKept
    BY InitTypes DEF WorkspaceTyped
  <2>1. \A h \in Handlers : at[h] = "idle"
    BY DEF Init, WorkspaceInit
  <2> QED BY <2>1 DEF KeysKept, OneRevokes, TwoKeys
<1>2. WorkspaceTyped /\ KeysKept /\ [Next]_all => (WorkspaceTyped /\ KeysKept)'
  BY TypedStep, KeysStep
<1>3. WorkspaceTyped /\ KeysKept /\ [Next]_all =>
        [\A h \in Handlers : at[h] = "revoke_key" /\ keyOf' # keyOf => LiveKeys' # {}]_all
  BY KeysStep
<1> QED BY <1>1, <1>2, <1>3, PTL DEF Spec, RevokingLeavesAKey

-----------------------------------------------------------------------------
(* Nothing outlives what it hangs on.                                      *)

TokensOwned == \A t \in tokens : \E u \in Emails : user[u].id = t.owner
MembersHang == \A p \in Projects, u \in Emails :
    member[p][u] # "none" => project[p] = p /\ Exists(u)
HomesHang == \A e \in Environments : home[e] \in Projects => project[home[e]] = home[e]
KeysHang == \A k \in LiveKeys : home[keyOf[k]] \in Projects
DefaultsHang == \A e \in defaults : home[e] \in Projects

LEMMA HangsApart ==
    NothingOutlivesItsParent <=>
        TokensOwned /\ MembersHang /\ HomesHang /\ KeysHang /\ DefaultsHang
BY DEF NothingOutlivesItsParent, TokensOwned, MembersHang, HomesHang, KeysHang, DefaultsHang

LEMMA TokensStep ==
    ASSUME AccountsOK, TokensOwned, [AccountsNext]_accounts
    PROVE  TokensOwned'
<1>0. RowsTyped /\ RequestsOK
  BY Apart DEF AccountsOK
<1>1. ASSUME NEW h \in Handlers, CompleteSetup(h) \/ CreateUser(h)
      PROVE  TokensOwned'
  <2> DEFINE e == ask[h].email
  <2>1. e \in Emails
    BY <1>0, <1>1 DEF CompleteSetup, CreateUser, At, RequestsOK, RequestOK, ByEmail, Creation
  <2>2. /\ \A d \in Emails : d # e => user'[d] = user[d]
        /\ Exists(e) => user'[e].id = user[e].id
        /\ tokens' = tokens
    BY <1>0, <1>1, <2>1 DEF CompleteSetup, CreateUser, RowsTyped
  <2>3. \A t \in tokens : t.owner # 0
    BY <1>0 DEF RowsTyped, Ids
  <2> QED BY <2>1, <2>2, <2>3 DEF TokensOwned, Exists
<1>2. ASSUME NEW h \in Handlers, RemoveUser(h)
      PROVE  TokensOwned'
  BY <1>0, <1>2 DEF RemoveUser, TokensOwned, RowsTyped
<1>3. ASSUME NEW h \in Handlers, CreateToken(h)
      PROVE  TokensOwned'
  <2>1. PICK e \in Emails : user[e].id = claims[h].id
    BY <1>3 DEF CreateToken
  <2> QED BY <1>3, <2>1 DEF CreateToken, TokensOwned
<1>4. ASSUME user' = user, tokens' \subseteq tokens
      PROVE  TokensOwned'
  BY <1>4 DEF TokensOwned
<1> QED
  BY <1>1, <1>2, <1>3, <1>4
  DEF AccountsNext, accounts, CheckLockout, CheckSetup, LockUser, VerifyPassword, RecordFailure,
      LoginSucceeds, Authenticate, CheckSelf, LockAdmins, CurrentUser, RevokeToken, Abandon,
      ForgetAttempt, Logout

LEMMA MembersStep ==
    ASSUME AccountsOK, WorkspaceTyped, MembersHang, [Next]_all
    PROVE  MembersHang'
<1>0. RowTypes /\ Fits /\ RowsTyped
  BY Apart DEF WorkspaceTyped, AccountsOK
<1>1. CASE AccountsStep
  <2>1. \A p \in Projects, u \in Emails : member'[p][u] # "none" =>
             user'[u].id = user[u].id /\ member'[p][u] = member[p][u]
    BY <1>1 DEF AccountsStep
  <2> QED BY <1>1, <2>1 DEF AccountsStep, MembersHang, Exists
<1>2. ASSUME NEW h \in Handlers, CreateProject(h) PROVE MembersHang'
  BY <1>0, <1>2 DEF CreateProject, accounts, MembersHang, Exists, RowTypes
<1>3. ASSUME NEW h \in Handlers, DeleteProject(h) PROVE MembersHang'
  BY <1>0, <1>3 DEF DeleteProject, accounts, MembersHang, Exists, RowTypes
<1>4. ASSUME NEW h \in Handlers, AddMember(h) \/ UpdateMemberRole(h) \/ RemoveMember(h)
      PROVE MembersHang'
  <2>1. /\ req[h].project \in Projects
        /\ AddMember(h) => req[h].user # 0
    BY <1>4, <1>0, Kinds DEF AddMember, UpdateMemberRole, RemoveMember, Fits, RequestFits, OfRole
  <2>2. UNCHANGED <<project, user>>
    BY <1>4 DEF AddMember, UpdateMemberRole, RemoveMember, ChangeMember, accounts
  <2>3. \E u \in Emails : \E role :
          /\ member' = [member EXCEPT ![req[h].project][u] = role]
          /\ project[req[h].project] = req[h].project /\ Exists(u)
    BY <1>4, <2>1 DEF AddMember, UpdateMemberRole, RemoveMember, ChangeMember, MembersHang, Exists
  <2> QED BY <1>0, <2>1, <2>2, <2>3 DEF MembersHang, Exists, RowTypes
<1>5. ASSUME UNCHANGED <<project, user, member>> PROVE MembersHang'
  BY <1>5 DEF MembersHang, Exists
<1> QED
  BY <1>1, <1>2, <1>3, <1>4, <1>5
     DEF Next, WorkspaceNext, Authorize, GiveUp, LockProjects, CheckUser, CreateEnvironment,
         DeleteEnvironment, SetDefault, CreateKey, RevokeKey, ReadIsDefault, CountEnvironments,
         CheckBelongs, LockProject, ClearDefaults, CheckEnvironment, LockKeys, all, workspace,
         rows, accounts

LEMMA RowsHangStep ==
    ASSUME WorkspaceTyped, HomesHang, KeysHang, DefaultsHang, [Next]_all
    PROVE  HomesHang' /\ KeysHang' /\ DefaultsHang'
<1> DEFINE Goal == HomesHang' /\ KeysHang' /\ DefaultsHang'
<1>0. RowTypes /\ Fits
  BY DEF WorkspaceTyped
<1> USE RowsAssumption
<1>1. ASSUME NEW h \in Handlers, CreateProject(h) PROVE Goal
  <2>1. \A e \in Environments : home[e] \in Projects => project'[home[e]] = home[e]
    BY <1>0, <1>1 DEF CreateProject, HomesHang, RowTypes
  <2> QED BY <1>1, <2>1 DEF CreateProject, HomesHang, KeysHang, DefaultsHang, LiveKeys
<1>2. ASSUME NEW h \in Handlers, DeleteProject(h) PROVE Goal
  <2> DEFINE p == req[h].project
  <2>1. \A e \in Environments :
          home'[e] = IF home[e] = p THEN Gone ELSE home[e]
    BY <1>0, <1>2 DEF DeleteProject, RowTypes
  <2>2. \A q \in Projects : q # p => project'[q] = project[q]
    BY <1>0, <1>2 DEF DeleteProject, RowTypes
  <2>3. HomesHang'
    BY <1>0, <2>1, <2>2 DEF HomesHang, RowTypes
  <2>4. \A k \in LiveKeys' : k \in LiveKeys /\ keyOf'[k] = keyOf[k] /\ home[keyOf[k]] # p
    BY <1>0, <1>2 DEF DeleteProject, RowTypes, LiveKeys, KeysOf, EnvironmentsOf
  <2>5. KeysHang'
    BY <2>1, <2>4 DEF KeysHang, LiveKeys
  <2>6. \A e \in defaults' : e \in defaults /\ e \in Environments /\ home[e] # p
    BY <1>0, <1>2 DEF DeleteProject, RowTypes, EnvironmentsOf
  <2>7. DefaultsHang'
    BY <2>1, <2>6 DEF DefaultsHang
  <2> QED BY <2>3, <2>5, <2>7
<1>3. ASSUME NEW h \in Handlers, CreateEnvironment(h) PROVE Goal
  <2> DEFINE e == req[h].env
             p == req[h].project
  <2>1. e \in Environments /\ p \in Projects
    BY <1>0, <1>3, Kinds DEF CreateEnvironment, Fits, RequestFits, OfEnvironment
  <2>2. /\ \A d \in Environments : home'[d] = IF d = e THEN p ELSE home[d]
        /\ home[e] = Unborn /\ project[p] = p
        /\ UNCHANGED <<project, keyOf, defaults>>
    BY <1>0, <1>3, <2>1 DEF CreateEnvironment, RowTypes
  <2>3. HomesHang'
    BY <2>1, <2>2 DEF HomesHang
  <2>4. KeysHang' /\ DefaultsHang'
    BY <1>0, <2>1, <2>2 DEF KeysHang, DefaultsHang, LiveKeys, RowTypes
  <2> QED BY <2>3, <2>4
<1>4. ASSUME NEW h \in Handlers, DeleteEnvironment(h) PROVE Goal
  <2> DEFINE e == req[h].env
  <2>1. \A d \in Environments : home'[d] = IF d = e THEN Gone ELSE home[d]
    BY <1>0, <1>4 DEF DeleteEnvironment, RowTypes
  <2>2. HomesHang'
    BY <1>4, <2>1 DEF DeleteEnvironment, HomesHang
  <2>3. \A k \in LiveKeys' : k \in LiveKeys /\ keyOf'[k] = keyOf[k] /\ keyOf[k] # e
    BY <1>0, <1>4 DEF DeleteEnvironment, RowTypes, LiveKeys
  <2>4. KeysHang'
    BY <2>1, <2>3 DEF KeysHang, LiveKeys
  <2>5. DefaultsHang'
    BY <1>0, <1>4, <2>1 DEF DeleteEnvironment, DefaultsHang, RowTypes
  <2> QED BY <2>2, <2>4, <2>5
<1>5. ASSUME NEW h \in Handlers, SetDefault(h) PROVE Goal
  BY <1>5 DEF SetDefault, HomesHang, KeysHang, DefaultsHang, LiveKeys
<1>6. ASSUME NEW h \in Handlers, CreateKey(h) PROVE Goal
  <2>1. req[h].env \in Environments
    BY <1>0, <1>6 DEF CreateKey, Fits, RequestFits, OfEnvironment
  <2>2. KeysHang'
    BY <1>0, <1>6, <2>1 DEF CreateKey, KeysHang, LiveKeys, RowTypes
  <2> QED BY <1>6, <2>2 DEF CreateKey, HomesHang, DefaultsHang
<1>7. ASSUME NEW h \in Handlers, RevokeKey(h) PROVE Goal
  <2>1. \A k \in LiveKeys' : k \in LiveKeys /\ keyOf'[k] = keyOf[k]
    BY <1>0, <1>7 DEF RevokeKey, LiveKeys, RowTypes
  <2> QED BY <1>7, <2>1 DEF RevokeKey, HomesHang, KeysHang, DefaultsHang
<1>8. ASSUME UNCHANGED <<project, home, keyOf, defaults>> PROVE Goal
  BY <1>8 DEF HomesHang, KeysHang, DefaultsHang, LiveKeys
<1> QED
  BY <1>1, <1>2, <1>3, <1>4, <1>5, <1>6, <1>7, <1>8
     DEF Next, WorkspaceNext, AccountsStep, Authorize, GiveUp, LockProjects, CheckUser, AddMember,
         UpdateMemberRole, RemoveMember, ChangeMember, ReadIsDefault, CountEnvironments,
         CheckBelongs, LockProject, ClearDefaults, CheckEnvironment, LockKeys, all, workspace, rows

Hanging == AccountsOK /\ WorkspaceTyped /\ NothingOutlivesItsParent

LEMMA HangingInit == Init => Hanging
<1> SUFFICES ASSUME Init PROVE Hanging
  OBVIOUS
<1>1. AccountsOK /\ WorkspaceTyped
  BY TypeInit, InitTypes DEF Init, AccountsOK, WorkspaceTyped
<1>2. TokensOwned /\ MembersHang
  BY DEF Init, AccountsInit, WorkspaceInit, TokensOwned, MembersHang
<1>3. PICK p \in Projects, e \in Environments, k \in Keys :
        /\ project = [q \in Projects |-> IF q = p THEN p ELSE Unborn]
        /\ home = [d \in Environments |-> IF d = e THEN p ELSE Unborn]
        /\ defaults = {e}
        /\ keyOf = [i \in Keys |-> IF i = k THEN e ELSE Unborn]
  BY DEF Init, WorkspaceInit
<1>4. HomesHang /\ KeysHang /\ DefaultsHang
  BY <1>3, RowsAssumption DEF HomesHang, KeysHang, DefaultsHang, LiveKeys
<1> QED BY <1>1, <1>2, <1>4, HangsApart DEF Hanging

LEMMA HangingStep == Hanging /\ [Next]_all => Hanging'
<1> SUFFICES ASSUME Hanging, [Next]_all PROVE Hanging'
  OBVIOUS
<1>1. [AccountsNext]_accounts
  BY AccountsUnchanged DEF Next, AccountsStep, all
<1>2. AccountsOK'
  BY <1>1, TypeStep DEF Hanging, AccountsOK
<1>3. WorkspaceTyped'
  BY TypedStep DEF Hanging
<1>4. TokensOwned' /\ MembersHang' /\ HomesHang' /\ KeysHang' /\ DefaultsHang'
  BY <1>1, HangsApart, TokensStep, MembersStep, RowsHangStep DEF Hanging
<1>5. NothingOutlivesItsParent'
  BY <1>4 DEF NothingOutlivesItsParent, TokensOwned, MembersHang, HomesHang, KeysHang, DefaultsHang
<1> QED BY <1>2, <1>3, <1>5 DEF Hanging

\* Tokens and memberships go with their user, environments with their project,
\* keys and defaults with their environment, whatever was under way.
THEOREM NothingIsLeftBehind == Spec => []NothingOutlivesItsParent
<1>1. Hanging => NothingOutlivesItsParent
  BY DEF Hanging
<1> QED BY <1>1, HangingInit, HangingStep, PTL DEF Spec

-----------------------------------------------------------------------------
(* Defaults: the lock on its project lets a handler clear all of them.     *)

DefaultOK(h) ==
    /\ at[h] \in {"lock_project", "clear_defaults", "set_default", "create_key"} =>
          home[req[h].env] \in {req[h].project, Gone}
    /\ at[h] \in {"clear_defaults", "set_default"} => plock[req[h].project] = h
    /\ at[h] = "set_default" =>
          /\ \A d \in defaults \ {req[h].env} : home[d] = req[h].project => d \in cleared[h]
          /\ \A d \in cleared[h] : home[d] \in {req[h].project, Gone}

DefaultsOK == \A h \in Handlers : DefaultOK(h)

LEMMA NewDefaults ==
    ASSUME [Next]_all
    PROVE  \A d \in defaults' : d \in defaults \/ \E g \in Handlers :
               SetDefault(g) /\ d = req[g].env
BY DEF Next, WorkspaceNext, AccountsStep, Authorize, GiveUp, LockProjects, CheckUser, AddMember,
   UpdateMemberRole, RemoveMember, ChangeMember, CreateProject, DeleteProject, CreateEnvironment,
   DeleteEnvironment, SetDefault, CreateKey, RevokeKey, ReadIsDefault, CountEnvironments,
   CheckBelongs, LockProject, ClearDefaults, CheckEnvironment, LockKeys, all, workspace, rows

\* Who is in the middle of a request knows where its environment was.
LEMMA HomesOfRequests ==
    ASSUME WorkspaceTyped, DefaultsOK, [Next]_all, NEW h \in Handlers,
           at'[h] \in {"lock_project", "clear_defaults", "set_default", "create_key"}
    PROVE  /\ home'[req'[h].env] \in {req'[h].project, Gone}
           /\ req'[h] = req[h] /\ req[h].project \in Projects /\ req[h].env \in Environments
<1>0. RowTypes /\ WorkTypes /\ Fits
  BY DEF WorkspaceTyped
<1>1. Moves(h) /\ DefaultOK(h) /\ RequestFits(h)
  BY <1>0, MovesAll DEF DefaultsOK, Fits
<1>2. \/ /\ at[h] \in {"lock_project", "clear_defaults", "set_default", "create_key"}
         /\ home[req[h].env] \in {req[h].project, Gone}
      \/ /\ at[h] \in {"check_belongs", "check_environment"}
         /\ home[req[h].env] = req[h].project
  <2>1. \/ at[h] \in {"lock_project", "clear_defaults", "set_default", "create_key"}
        \/ CheckBelongs(h) \/ CheckEnvironment(h)
    <3>1. LockProject(h) => at[h] = "lock_project"
      BY DEF LockProject
    <3>2. ClearDefaults(h) => at[h] = "clear_defaults"
      BY DEF ClearDefaults
    <3> QED BY <1>1, <3>1, <3>2 DEF Moves
  <2>2. CASE at[h] \in {"lock_project", "clear_defaults", "set_default", "create_key"}
    BY <1>1, <2>2 DEF DefaultOK
  <2>3. CASE CheckBelongs(h)
    BY <2>3 DEF CheckBelongs
  <2>4. CASE CheckEnvironment(h)
    BY <2>4 DEF CheckEnvironment
  <2> QED BY <2>1, <2>2, <2>3, <2>4
<1>3. at[h] # "idle" /\ at'[h] # "idle" /\ at[h] \in OfEnvironment
  BY <1>2 DEF OfEnvironment
<1>4. req'[h] = req[h] /\ req[h].project \in Projects /\ req[h].env \in Environments
  BY <1>1, <1>3, Kinds DEF Moves, RequestFits
<1>5. home'[req[h].env] \in {home[req[h].env], Gone}
  BY <1>2, <1>4, Fates, RowsAssumption
<1> QED BY <1>2, <1>4, <1>5

LEMMA DefaultsStep ==
    ASSUME WorkspaceTyped, NothingOutlivesItsParent, DefaultsOK, [Next]_all
    PROVE  DefaultsOK'
<1>0. RowTypes /\ WorkTypes /\ Fits /\ DefaultsHang
  BY HangsApart DEF WorkspaceTyped
<1> SUFFICES ASSUME NEW h \in Handlers PROVE DefaultOK(h)'
  BY DEF DefaultsOK
<1>1. Moves(h) /\ DefaultOK(h)
  BY MovesAll DEF DefaultsOK
<1>2. ASSUME at'[h] \in {"clear_defaults", "set_default"}
      PROVE  plock'[req'[h].project] = h
  <2>1. req'[h] = req[h] /\ req[h].project \in Projects
    BY <1>2, HomesOfRequests
  <2>2. CASE at[h] \in {"clear_defaults", "set_default"}
    BY <1>1, <1>2, <2>1, <2>2 DEF Moves, DefaultOK
  <2>3. CASE at[h] \notin {"clear_defaults", "set_default"}
    <3>1. LockProject(h)
      BY <1>1, <1>2, <2>3 DEF Moves, ClearDefaults
    <3> QED BY <1>0, <2>1, <3>1 DEF LockProject, WorkTypes
  <2> QED BY <2>2, <2>3
<1>3. ASSUME at'[h] = "set_default"
      PROVE  /\ \A d \in defaults' \ {req'[h].env} : home'[d] = req'[h].project => d \in cleared'[h]
             /\ \A d \in cleared'[h] : home'[d] \in {req'[h].project, Gone}
  <2> DEFINE p == req[h].project
             e == req[h].env
  <2>1. req'[h] = req[h] /\ p \in Projects /\ e \in Environments
    BY <1>3, HomesOfRequests
  <2>2. CASE ClearDefaults(h)
    <3>1. /\ cleared'[h] = (defaults \cap EnvironmentsOf(p)) \ {e}
          /\ defaults' = defaults /\ home' = home
      BY <1>0, <2>2 DEF ClearDefaults, WorkTypes, rows
    <3> QED BY <1>0, <2>1, <3>1 DEF EnvironmentsOf, RowTypes
  <2>3. CASE at[h] = "set_default" /\ cleared'[h] = cleared[h]
    <3>1. ASSUME NEW d \in defaults' \ {e}, home'[d] = p
          PROVE  d \in cleared[h]
      <4>1. CASE d \in defaults
        <5>1. d \in Environments /\ home[d] \in Projects
          BY <1>0, <4>1 DEF RowTypes, DefaultsHang
        <5>2. home[d] = p
          BY <2>1, <3>1, <5>1, Fates, RowsAssumption
        <5> QED BY <1>1, <2>3, <3>1, <4>1, <5>2 DEF DefaultOK
      <4>2. CASE d \notin defaults
        <5>1. PICK g \in Handlers : SetDefault(g) /\ d = req[g].env
          BY <4>2, NewDefaults
        <5>2. home'[d] = home[d] /\ home[d] \in Projects /\ at[g] = "set_default"
              /\ at'[g] = "idle"
          BY <1>0, <5>1 DEF SetDefault, Answer, WorkTypes
        <5>3. home[d] = req[g].project /\ plock[req[g].project] = g
          BY <5>1, <5>2, RowsAssumption DEF DefaultsOK, DefaultOK
        <5>4. plock[p] = h
          BY <1>1, <2>3 DEF DefaultOK
        <5> QED BY <1>3, <3>1, <5>2, <5>3, <5>4
      <4> QED BY <4>1, <4>2
    <3>2. ASSUME NEW d \in cleared[h]
          PROVE  home'[d] \in {p, Gone}
      <4>1. d \in Environments /\ home[d] \in {p, Gone}
        BY <1>0, <1>1, <2>3 DEF WorkTypes, DefaultOK
      <4> QED BY <2>1, <4>1, Fates, RowsAssumption
    <3> QED BY <2>1, <2>3, <3>1, <3>2
  <2> QED BY <1>1, <1>3, <2>2, <2>3 DEF Moves
<1> QED BY <1>2, <1>3, HomesOfRequests DEF DefaultOK

Defaulting == Hanging /\ DefaultsOK

LEMMA DefaultingInit == Init => Defaulting
<1>1. Init => DefaultsOK
  BY DEF Init, WorkspaceInit, DefaultsOK, DefaultOK
<1> QED BY <1>1, HangingInit DEF Defaulting

LEMMA DefaultingStep == Defaulting /\ [Next]_all => Defaulting'
BY HangingStep, DefaultsStep DEF Defaulting, Hanging

\* set_default_environment does not fail at the unique index on the defaults
\* of a project, however many requests set one at the same time.
THEOREM OneDefaultAtATime == Spec => []DefaultsDoNotCollide
<1>1. Defaulting => DefaultsDoNotCollide
  <2> SUFFICES ASSUME Defaulting, NEW h \in Handlers, at[h] = "set_default",
                      NEW d \in (defaults \ cleared[h]) \ {req[h].env},
                      home[d] = home[req[h].env]
               PROVE  FALSE
    BY DEF DefaultsDoNotCollide, Collides
  <2>1. home[d] \in Projects
    BY HangsApart DEF Defaulting, Hanging, DefaultsHang
  <2>2. home[req[h].env] = req[h].project
    BY <2>1, RowsAssumption DEF Defaulting, DefaultsOK, DefaultOK
  <2> QED BY <2>2 DEF Defaulting, DefaultsOK, DefaultOK
<1> QED BY <1>1, DefaultingInit, DefaultingStep, PTL DEF Spec

-----------------------------------------------------------------------------
(* A request stays within its project.                                     *)

Untouched(p) ==
    /\ EnvironmentsOf(p)' = EnvironmentsOf(p)
    /\ (defaults \cap EnvironmentsOf(p))' = defaults \cap EnvironmentsOf(p)
    /\ KeysOf(p)' = KeysOf(p)
    /\ member'[p] = member[p]

LEMMA WithinStep ==
    ASSUME Defaulting, Next, NEW h \in Handlers, NEW p \in Projects,
           at[h] # "idle", at'[h] = "idle", req[h].project # p
    PROVE  Untouched(p)
<1>0. RowTypes /\ WorkTypes /\ Fits /\ DefaultsOK
  BY DEF Defaulting, Hanging, WorkspaceTyped
<1> USE RowsAssumption
<1>a. ASSUME UNCHANGED rows PROVE Untouched(p)
  BY <1>a DEF rows, Untouched, EnvironmentsOf, KeysOf
<1>1. ~AccountsStep
  BY DEF AccountsStep, working
<1>2. ASSUME NEW g \in Handlers, NEW t \in WorkspaceSteps \ {"idle"}, Advance(g, t)
      PROVE  FALSE
  BY <1>0, <1>2 DEF Advance, WorkTypes
<1>3. ASSUME NEW g \in Handlers, Answer(g)
      PROVE  g = h
  BY <1>0, <1>3 DEF Answer, WorkTypes
<1>4. CASE CreateProject(h)
  BY <1>4 DEF CreateProject, Untouched, EnvironmentsOf, KeysOf
<1>5. CASE DeleteProject(h)
  <2> DEFINE q == req[h].project
  <2>1. \A e \in Environments : home'[e] = IF home[e] = q THEN Gone ELSE home[e]
    BY <1>0, <1>5 DEF DeleteProject, RowTypes
  <2>2. EnvironmentsOf(p)' = EnvironmentsOf(p)
    BY <2>1 DEF EnvironmentsOf
  <2>3. (defaults \cap EnvironmentsOf(p))' = defaults \cap EnvironmentsOf(p)
    BY <1>5, <2>2 DEF DeleteProject, EnvironmentsOf
  <2>4. \A k \in Keys : keyOf'[k] = IF k \in KeysOf(q) THEN Gone ELSE keyOf[k]
    BY <1>0, <1>5 DEF DeleteProject, RowTypes
  <2>5. KeysOf(p)' = KeysOf(p)
    <3>1. \A k \in Keys : k \in KeysOf(p) => k \notin KeysOf(q)
      BY DEF KeysOf, EnvironmentsOf
    <3>2. Gone \notin EnvironmentsOf(p)
      BY DEF EnvironmentsOf
    <3>3. KeysOf(p)' = {k \in Keys : keyOf'[k] \in EnvironmentsOf(p)}
      BY <2>2 DEF KeysOf
    <3> QED BY <2>4, <3>1, <3>2, <3>3 DEF KeysOf
  <2>6. member'[p] = member[p]
    BY <1>0, <1>5 DEF DeleteProject, RowTypes
  <2> QED BY <2>2, <2>3, <2>5, <2>6 DEF Untouched
<1>6. CASE AddMember(h) \/ UpdateMemberRole(h) \/ RemoveMember(h)
  <2>1. /\ UNCHANGED <<project, home, defaults, keyOf>>
        /\ \E u, role : member' = [member EXCEPT ![req[h].project][u] = role]
    BY <1>6 DEF AddMember, UpdateMemberRole, RemoveMember, ChangeMember
  <2> QED BY <1>0, <2>1 DEF Untouched, EnvironmentsOf, KeysOf, RowTypes
<1>7. CASE CreateEnvironment(h)
  <2> DEFINE e == req[h].env
  <2>1. /\ \A d \in Environments : d # e => home'[d] = home[d]
        /\ e \in Environments => home[e] = Unborn /\ home'[e] = req[h].project
    BY <1>0, <1>7 DEF CreateEnvironment, RowTypes
  <2>2. EnvironmentsOf(p)' = EnvironmentsOf(p)
    BY <2>1 DEF EnvironmentsOf
  <2> QED BY <1>7, <2>2 DEF CreateEnvironment, Untouched, KeysOf
<1>8. CASE DeleteEnvironment(h)
  <2> DEFINE e == req[h].env
  <2>1. \A d \in Environments : home'[d] = IF d = e THEN Gone ELSE home[d]
    BY <1>0, <1>8 DEF DeleteEnvironment, RowTypes
  <2>2. EnvironmentsOf(p)' = EnvironmentsOf(p) /\ e \notin EnvironmentsOf(p)
    BY <1>8, <2>1 DEF EnvironmentsOf, DeleteEnvironment
  <2>3. (defaults \cap EnvironmentsOf(p))' = defaults \cap EnvironmentsOf(p)
    BY <1>8, <2>2 DEF DeleteEnvironment
  <2>4. \A k \in Keys : keyOf'[k] = IF keyOf[k] = e THEN Gone ELSE keyOf[k]
    BY <1>0, <1>8 DEF DeleteEnvironment, RowTypes
  <2>5. KeysOf(p)' = KeysOf(p)
    <3>1. Gone \notin EnvironmentsOf(p)
      BY DEF EnvironmentsOf
    <3>2. KeysOf(p)' = {k \in Keys : keyOf'[k] \in EnvironmentsOf(p)}
      BY <2>2 DEF KeysOf
    <3> QED BY <2>2, <2>4, <3>1, <3>2 DEF KeysOf
  <2> QED BY <1>8, <2>2, <2>3, <2>5 DEF DeleteEnvironment, Untouched
<1>9. CASE SetDefault(h)
  <2>1. home[req[h].env] = req[h].project
    BY <1>0, <1>9 DEF SetDefault, DefaultsOK, DefaultOK
  <2>2. \A d \in cleared[h] : home[d] # p
    BY <1>0, <1>9 DEF SetDefault, DefaultsOK, DefaultOK
  <2>3. EnvironmentsOf(p)' = EnvironmentsOf(p) /\ KeysOf(p)' = KeysOf(p)
    BY <1>9 DEF SetDefault, EnvironmentsOf, KeysOf
  <2>4. (defaults \cap EnvironmentsOf(p))' = defaults \cap EnvironmentsOf(p)
    BY <1>9, <2>1, <2>2, <2>3 DEF SetDefault, EnvironmentsOf
  <2> QED BY <1>9, <2>3, <2>4 DEF SetDefault, Untouched
<1>10. CASE CreateKey(h)
  <2>1. home[req[h].env] = req[h].project
    BY <1>0, <1>10 DEF CreateKey, DefaultsOK, DefaultOK
  <2>2. EnvironmentsOf(p)' = EnvironmentsOf(p) /\ req[h].env \notin EnvironmentsOf(p)
    BY <1>10, <2>1 DEF CreateKey, EnvironmentsOf
  <2>3. Unborn \notin EnvironmentsOf(p)
    BY DEF EnvironmentsOf
  <2>4. KeysOf(p)' = {k \in Keys : keyOf'[k] \in EnvironmentsOf(p)}
    BY <2>2 DEF KeysOf
  <2>5. KeysOf(p)' = KeysOf(p)
    BY <1>0, <1>10, <2>2, <2>3, <2>4 DEF CreateKey, KeysOf, RowTypes
  <2> QED BY <1>10, <2>2, <2>5 DEF CreateKey, Untouched
<1>11. CASE RevokeKey(h)
  <2> DEFINE k == req[h].key
  <2>1. EnvironmentsOf(p)' = EnvironmentsOf(p)
    BY <1>11 DEF RevokeKey, EnvironmentsOf
  <2>2. k \notin KeysOf(p) /\ Gone \notin EnvironmentsOf(p)
    BY <1>11 DEF RevokeKey, KeysOf, EnvironmentsOf
  <2>3. KeysOf(p)' = {j \in Keys : keyOf'[j] \in EnvironmentsOf(p)}
    BY <2>1 DEF KeysOf
  <2>4. KeysOf(p)' = KeysOf(p)
    BY <1>0, <1>11, <2>2, <2>3 DEF RevokeKey, KeysOf, RowTypes
  <2> QED BY <1>11, <2>1, <2>4 DEF RevokeKey, Untouched
<1>12. PICK g \in Handlers :
          \/ \E u \in Emails, q \in WorkspaceRequests : Authorize(g, u, q)
          \/ GiveUp(g) \/ CreateProject(g) \/ LockProjects(g) \/ DeleteProject(g)
          \/ CheckUser(g) \/ AddMember(g) \/ UpdateMemberRole(g) \/ RemoveMember(g)
          \/ CreateEnvironment(g) \/ ReadIsDefault(g) \/ CountEnvironments(g)
          \/ DeleteEnvironment(g) \/ CheckBelongs(g) \/ LockProject(g) \/ ClearDefaults(g)
          \/ SetDefault(g) \/ CheckEnvironment(g) \/ CreateKey(g) \/ LockKeys(g) \/ RevokeKey(g)
  BY <1>1 DEF Next, WorkspaceNext
<1>13. CASE \/ LockProjects(g) \/ CheckUser(g) \/ ReadIsDefault(g) \/ CountEnvironments(g)
            \/ CheckBelongs(g) \/ LockProject(g) \/ ClearDefaults(g) \/ CheckEnvironment(g)
            \/ LockKeys(g)
  BY <1>13, <1>a DEF LockProjects, CheckUser, ReadIsDefault, CountEnvironments, CheckBelongs,
     LockProject, ClearDefaults, CheckEnvironment, LockKeys
<1>14. CASE \E u \in Emails, q \in WorkspaceRequests : Authorize(g, u, q)
  BY <1>14, <1>a DEF Authorize
<1>15. CASE \/ GiveUp(g) \/ CreateProject(g) \/ DeleteProject(g) \/ AddMember(g)
            \/ UpdateMemberRole(g) \/ RemoveMember(g) \/ CreateEnvironment(g)
            \/ DeleteEnvironment(g) \/ SetDefault(g) \/ CreateKey(g) \/ RevokeKey(g)
  <2>1. Answer(g)
    BY <1>15 DEF GiveUp, CreateProject, DeleteProject, AddMember, UpdateMemberRole, RemoveMember,
       ChangeMember, CreateEnvironment, DeleteEnvironment, SetDefault, CreateKey, RevokeKey
  <2>2. g = h
    BY <2>1, <1>3
  <2>3. GiveUp(h) => Untouched(p)
    BY <1>a DEF GiveUp
  <2> QED BY <1>15, <2>2, <2>3, <1>4, <1>5, <1>6, <1>7, <1>8, <1>9, <1>10, <1>11
<1> QED BY <1>12, <1>13, <1>14, <1>15

\* What is done for one project leaves every other one as it is.
THEOREM StaysWithinProject == Spec => WithinProject
<1>1. Defaulting /\ [Next]_all =>
        [\A h \in Handlers, p \in Projects :
            at[h] # "idle" /\ at'[h] = "idle" /\ req[h].project # p =>
                /\ EnvironmentsOf(p)' = EnvironmentsOf(p)
                /\ (defaults \cap EnvironmentsOf(p))' = defaults \cap EnvironmentsOf(p)
                /\ KeysOf(p)' = KeysOf(p)
                /\ member'[p] = member[p]]_all
  BY WithinStep DEF Untouched
<1> QED BY <1>1, DefaultingInit, DefaultingStep, PTL DEF Spec, WithinProject
=============================================================================
