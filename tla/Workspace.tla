----------------------------- MODULE Workspace ------------------------------
(***************************************************************************)
(* Projects, their members, environments and SDK keys, next to the accounts *)
(* of the workspace.  Each request authorizes its caller with a statement   *)
(* of its own, and then runs the statements of the handler, some of them in *)
(* a transaction with locks, some each on its own.                         *)
(***************************************************************************)
EXTENDS Accounts

CONSTANTS
    Projects, Environments, Keys,   \* ids (UUIDs, BIGSERIALs: never used again)
    Unborn,                         \* a row that has not been inserted yet
    Gone                            \* a row that has been deleted

ASSUME RowsAssumption ==
    Unborn \notin Projects \cup Environments /\ Gone \notin Projects \cup Environments
    /\ Unborn # Gone

VARIABLES
    project,    \* project[p]: p itself, Unborn or Gone
    home,       \* home[e]: project of environment e, Unborn or Gone
    defaults,   \* environments with is_default
    keyOf,      \* keyOf[k]: environment of SDK key k, Unborn or Gone
    member,     \* member[p][u]: role of user u in project p, or "none"
    plock,      \* plock[p]: handler that has locked the projects row
    klock,      \* klock[k]: handler that has locked the sdk_keys row
    cleared,    \* cleared[h]: environments it has cleared is_default of, uncommitted
    at,         \* at[h]: next statement of handler h
    req         \* req[h]: its request, and the caller it was authorized for

rows == <<project, home, defaults, keyOf, member>>
working == <<plock, klock, cleared, at, req>>
workspace == <<rows, working>>
all == <<accounts, workspace>>

Live == {p \in Projects : project[p] = p}
EnvironmentsOf(p) == {e \in Environments : home[e] = p}
KeysOf(p) == {k \in Keys : keyOf[k] \in EnvironmentsOf(p)}
LiveKeys == {k \in Keys : keyOf[k] \in Environments}
NoRequest == [kind |-> "none"]

WorkspaceRequests ==
    [kind : {"create_project", "delete_project"}, project : Projects]
    \cup [kind : {"create_environment", "delete_environment", "set_default"},
          project : Projects, env : Environments]
    \cup [kind : {"create_key"}, project : Projects, key : Keys, env : Environments]
    \cup [kind : {"revoke_key"}, project : Projects, key : Keys]
    \cup [kind : {"add_member", "update_member"}, project : Projects, user : Ids \ {0},
          role : Roles]
    \cup [kind : {"remove_member"}, project : Projects, user : Ids \ {0}]

\* The migrations have seeded a project with a default environment; the first
\* start of the server has made a key for it (main.rs).
WorkspaceInit ==
    /\ \E p \in Projects, e \in Environments, k \in Keys :
          /\ project = [q \in Projects |-> IF q = p THEN p ELSE Unborn]
          /\ home = [d \in Environments |-> IF d = e THEN p ELSE Unborn]
          /\ defaults = {e}
          /\ keyOf = [i \in Keys |-> IF i = k THEN e ELSE Unborn]
    /\ member = [p \in Projects |-> [u \in Emails |-> "none"]]
    /\ plock = [p \in Projects |-> Nobody]
    /\ klock = [k \in Keys |-> Nobody]
    /\ cleared = [h \in Handlers |-> {}]
    /\ at = [h \in Handlers |-> "idle"]
    /\ req = [h \in Handlers |-> NoRequest]

Advance(h, s) == at' = [at EXCEPT ![h] = s]

\* The request is answered: its transaction is over, its locks are free.
Answer(h) ==
    /\ at' = [at EXCEPT ![h] = "idle"]
    /\ req' = [req EXCEPT ![h] = NoRequest]
    /\ plock' = [p \in Projects |-> IF plock[p] = h THEN Nobody ELSE plock[p]]
    /\ klock' = [k \in Keys |-> IF klock[k] = h THEN Nobody ELSE klock[k]]
    /\ cleared' = [cleared EXCEPT ![h] = {}]

\* Mutant of GiveUp: the transaction of a request that fails stays open.
GiveUpHolding(h) ==
    /\ at[h] # "idle"
    /\ at' = [at EXCEPT ![h] = "idle"]
    /\ req' = [req EXCEPT ![h] = NoRequest]
    /\ UNCHANGED <<accounts, rows, plock, klock, cleared>>

\* A check that fails, an error, a dropped request.
GiveUp(h) ==
    /\ at[h] # "idle"
    /\ Answer(h)
    /\ UNCHANGED <<accounts, rows>>

\* can_admin_project, project_role: an administrator of the workspace or of
\* the project; create_project asks for the former.
MayAdmin(u, q) ==
    \/ user[u].role = "admin"
    \/ q.kind # "create_project" /\ Exists(u) /\ member[q.project][u] = "admin"

\* Where the handler goes on once its caller is authorized.
FirstStep ==
    [k \in {q.kind : q \in WorkspaceRequests} |->
        CASE k = "delete_environment" -> "read_default"
          [] k = "set_default" -> "check_belongs"
          [] k = "create_key" -> "check_environment"
          [] k = "revoke_key" -> "lock_keys"
          [] k = "delete_project" -> "lock_projects"
          [] k = "add_member" -> "check_user"
          [] OTHER -> k]

Authorize(h, u, q) ==
    /\ at[h] = "idle"
    /\ MayAdmin(u, q)
    /\ req' = [req EXCEPT ![h] = q]
    /\ Advance(h, FirstStep[q.kind])
    /\ UNCHANGED <<accounts, rows, plock, klock, cleared>>

-----------------------------------------------------------------------------
(***************************************************************************)
(* Projects                                                                *)
(***************************************************************************)

\* One INSERT: a project begins without environments.
CreateProject(h) ==
    LET p == req[h].project IN
    /\ at[h] = "create_project"
    /\ project[p] = Unborn
    /\ project' = [project EXCEPT ![p] = p]
    /\ Answer(h)
    /\ UNCHANGED <<accounts, home, defaults, keyOf, member>>

\* Mutant of LockProjects: the projects are counted, not locked.
CountProjects(h) ==
    /\ at[h] = "lock_projects"
    /\ Cardinality(Live) > 1
    /\ Advance(h, "delete_project")
    /\ UNCHANGED <<accounts, rows, plock, klock, cleared, req>>

\* delete_project: all projects are locked and counted.
LockProjects(h) ==
    /\ at[h] = "lock_projects"
    /\ \A p \in Live : plock[p] = Nobody
    /\ Cardinality(Live) > 1
    /\ plock' = [p \in Projects |-> IF p \in Live THEN h ELSE plock[p]]
    /\ Advance(h, "delete_project")
    /\ UNCHANGED <<accounts, rows, klock, cleared, req>>

\* DELETE FROM projects: its environments, keys and members go with it.
DeleteProject(h) ==
    LET p == req[h].project IN
    /\ at[h] = "delete_project"
    /\ project[p] = p /\ plock[p] \in {Nobody, h}
    /\ \A k \in KeysOf(p) : klock[k] = Nobody
    /\ project' = [project EXCEPT ![p] = Gone]
    /\ home' = [e \in Environments |-> IF home[e] = p THEN Gone ELSE home[e]]
    /\ defaults' = defaults \ EnvironmentsOf(p)
    /\ keyOf' = [k \in Keys |-> IF k \in KeysOf(p) THEN Gone ELSE keyOf[k]]
    /\ member' = [member EXCEPT ![p] = [u \in Emails |-> "none"]]
    /\ Answer(h)
    /\ UNCHANGED accounts

\* add_member: the user is looked up first.
CheckUser(h) ==
    /\ at[h] = "check_user"
    /\ \E u \in Emails : user[u].id = req[h].user
    /\ Advance(h, "add_member")
    /\ UNCHANGED <<accounts, rows, plock, klock, cleared, req>>

\* An INSERT into project_members refers to a user and a project, which must be
\* there and are kept from being deleted.
AddMember(h) ==
    LET p == req[h].project IN
    /\ at[h] = "add_member"
    /\ project[p] = p /\ plock[p] = Nobody
    /\ \E u \in Emails :
          /\ user[u].id = req[h].user /\ locked[u] = Nobody
          /\ member' = [member EXCEPT ![p][u] = req[h].role]
    /\ Answer(h)
    /\ UNCHANGED <<accounts, project, home, defaults, keyOf>>

\* The row of a member gets another role, or is deleted.
ChangeMember(h, role) ==
    LET p == req[h].project IN
    /\ \E u \in Emails :
          /\ user[u].id = req[h].user /\ member[p][u] # "none"
          /\ member' = [member EXCEPT ![p][u] = role]
    /\ Answer(h)
    /\ UNCHANGED <<accounts, project, home, defaults, keyOf>>

UpdateMemberRole(h) == at[h] = "update_member" /\ ChangeMember(h, req[h].role)

RemoveMember(h) == at[h] = "remove_member" /\ ChangeMember(h, "none")

-----------------------------------------------------------------------------
(***************************************************************************)
(* Environments                                                            *)
(***************************************************************************)

\* One INSERT, which refers to the project.
CreateEnvironment(h) ==
    LET p == req[h].project
        e == req[h].env
    IN
    /\ at[h] = "create_environment"
    /\ project[p] = p /\ plock[p] = Nobody
    /\ home[e] = Unborn
    /\ home' = [home EXCEPT ![e] = p]
    /\ Answer(h)
    /\ UNCHANGED <<accounts, project, defaults, keyOf, member>>

\* delete_environment, first statement: not the default environment.
ReadIsDefault(h) ==
    LET e == req[h].env IN
    /\ at[h] = "read_default"
    /\ home[e] = req[h].project
    /\ e \notin defaults
    /\ Advance(h, "count_environments")
    /\ UNCHANGED <<accounts, rows, plock, klock, cleared, req>>

\* Second statement: not the last one.
CountEnvironments(h) ==
    /\ at[h] = "count_environments"
    /\ Cardinality(EnvironmentsOf(req[h].project)) > 1
    /\ Advance(h, "delete_environment")
    /\ UNCHANGED <<accounts, rows, plock, klock, cleared, req>>

\* Third statement: the row is deleted, and its keys go with it.
DeleteEnvironment(h) ==
    LET e == req[h].env IN
    /\ at[h] = "delete_environment"
    /\ home[e] = req[h].project
    /\ \A k \in Keys : keyOf[k] = e => klock[k] = Nobody
    /\ \A g \in Handlers : e \notin cleared[g]
    /\ home' = [home EXCEPT ![e] = Gone]
    /\ defaults' = defaults \ {e}
    /\ keyOf' = [k \in Keys |-> IF keyOf[k] = e THEN Gone ELSE keyOf[k]]
    /\ Answer(h)
    /\ UNCHANGED <<accounts, project, member>>

\* Mutant of CheckBelongs: any environment.
CheckExists(h) ==
    /\ at[h] = "check_belongs"
    /\ home[req[h].env] \in Projects
    /\ Advance(h, "lock_project")
    /\ UNCHANGED <<accounts, rows, plock, klock, cleared, req>>

\* set_default_environment, before its transaction.
CheckBelongs(h) ==
    /\ at[h] = "check_belongs"
    /\ home[req[h].env] = req[h].project
    /\ Advance(h, "lock_project")
    /\ UNCHANGED <<accounts, rows, plock, klock, cleared, req>>

\* Mutant of LockProject: no SELECT .. FOR UPDATE.
LockNoProject(h) ==
    /\ at[h] = "lock_project"
    /\ Advance(h, "clear_defaults")
    /\ UNCHANGED <<accounts, rows, plock, klock, cleared, req>>

LockProject(h) ==
    LET p == req[h].project IN
    /\ at[h] = "lock_project"
    /\ plock[p] = Nobody
    /\ plock' = [plock EXCEPT ![p] = h]
    /\ Advance(h, "clear_defaults")
    /\ UNCHANGED <<accounts, rows, klock, cleared, req>>

\* The old default is cleared, in the transaction.
ClearDefaults(h) ==
    LET old == (defaults \cap EnvironmentsOf(req[h].project)) \ {req[h].env} IN
    /\ at[h] = "clear_defaults"
    /\ \A g \in Handlers : cleared[g] \cap old = {}
    /\ cleared' = [cleared EXCEPT ![h] = old]
    /\ Advance(h, "set_default")
    /\ UNCHANGED <<accounts, rows, plock, klock, req>>

\* The default of e would be a second one, which the unique index on the
\* defaults of a project does not let in.
Collides(h, e) == \E d \in (defaults \ cleared[h]) \ {e} : home[d] = home[e]

\* The new default is set, by its id, and the transaction commits.
SetDefault(h) ==
    LET e == req[h].env IN
    /\ at[h] = "set_default"
    /\ home[e] \in Projects
    /\ ~Collides(h, e)
    /\ defaults' = (defaults \ cleared[h]) \cup {e}
    /\ Answer(h)
    /\ UNCHANGED <<accounts, project, home, keyOf, member>>

-----------------------------------------------------------------------------
(***************************************************************************)
(* SDK keys                                                                *)
(***************************************************************************)

\* create_key: the environment is one of the project.
CheckEnvironment(h) ==
    /\ at[h] = "check_environment"
    /\ home[req[h].env] = req[h].project
    /\ Advance(h, "create_key")
    /\ UNCHANGED <<accounts, rows, plock, klock, cleared, req>>

\* One INSERT, which refers to the environment.
CreateKey(h) ==
    /\ at[h] = "create_key"
    /\ home[req[h].env] \in Projects
    /\ keyOf[req[h].key] = Unborn
    /\ keyOf' = [keyOf EXCEPT ![req[h].key] = req[h].env]
    /\ Answer(h)
    /\ UNCHANGED <<accounts, project, home, defaults, member>>

\* Mutant of LockKeys: the keys are counted, not locked.
CountKeys(h) ==
    /\ at[h] = "lock_keys"
    /\ Cardinality(LiveKeys) > 1
    /\ Advance(h, "revoke_key")
    /\ UNCHANGED <<accounts, rows, plock, klock, cleared, req>>

\* revoke_key: all keys are locked and counted.
LockKeys(h) ==
    /\ at[h] = "lock_keys"
    /\ \A k \in LiveKeys : klock[k] = Nobody
    /\ Cardinality(LiveKeys) > 1
    /\ klock' = [k \in Keys |-> IF k \in LiveKeys THEN h ELSE klock[k]]
    /\ Advance(h, "revoke_key")
    /\ UNCHANGED <<accounts, rows, plock, cleared, req>>

\* The key is one of the project; it is deleted, and the transaction commits.
RevokeKey(h) ==
    LET k == req[h].key IN
    /\ at[h] = "revoke_key"
    /\ k \in KeysOf(req[h].project)
    /\ keyOf' = [keyOf EXCEPT ![k] = Gone]
    /\ Answer(h)
    /\ UNCHANGED <<accounts, project, home, defaults, member>>

-----------------------------------------------------------------------------
WorkspaceNext ==
    \E h \in Handlers :
        \/ \E u \in Emails, q \in WorkspaceRequests : Authorize(h, u, q)
        \/ GiveUp(h)
        \/ CreateProject(h) \/ LockProjects(h) \/ DeleteProject(h)
        \/ CheckUser(h) \/ AddMember(h) \/ UpdateMemberRole(h) \/ RemoveMember(h)
        \/ CreateEnvironment(h)
        \/ ReadIsDefault(h) \/ CountEnvironments(h) \/ DeleteEnvironment(h)
        \/ CheckBelongs(h) \/ LockProject(h) \/ ClearDefaults(h) \/ SetDefault(h)
        \/ CheckEnvironment(h) \/ CreateKey(h) \/ LockKeys(h) \/ RevokeKey(h)

\* A step of the accounts: the memberships of a deleted user go with it.
AccountsStep ==
    /\ AccountsNext
    /\ member' = [p \in Projects |-> [u \in Emails |->
                     IF user'[u].id # user[u].id THEN "none" ELSE member[p][u]]]
    /\ UNCHANGED <<project, home, defaults, keyOf, working>>

Init == AccountsInit /\ WorkspaceInit

Next == AccountsStep \/ WorkspaceNext

Spec == Init /\ [][Next]_all

-----------------------------------------------------------------------------
(***************************************************************************)
(* Correctness                                                             *)
(***************************************************************************)

WorkspaceSteps == {"idle", "create_project", "lock_projects", "delete_project",
    "check_user", "add_member", "update_member", "remove_member", "create_environment",
    "read_default", "count_environments", "delete_environment", "check_belongs",
    "lock_project", "clear_defaults", "set_default", "check_environment", "create_key",
    "lock_keys", "revoke_key"}

\* The rows of the workspace are of the shape the code keeps them in, and a
\* handler that serves no request has nothing locked.
WorkspaceTypeOK ==
    /\ project \in [Projects -> Projects \cup {Unborn, Gone}]
    /\ home \in [Environments -> Projects \cup {Unborn, Gone}]
    /\ defaults \subseteq Environments
    /\ keyOf \in [Keys -> Environments \cup {Unborn, Gone}]
    /\ member \in [Projects -> [Emails -> Roles \cup {"none"}]]
    /\ plock \in [Projects -> Handlers \cup {Nobody}]
    /\ klock \in [Keys -> Handlers \cup {Nobody}]
    /\ cleared \in [Handlers -> SUBSET Environments]
    /\ at \in [Handlers -> WorkspaceSteps]
    /\ req \in [Handlers -> WorkspaceRequests \cup {NoRequest}]
    /\ \A h \in Handlers : at[h] = "idle" =>
          /\ h \notin {plock[p] : p \in Projects} \cup {klock[k] : k \in Keys}
          /\ cleared[h] = {}

\* The rows of the workspace and of the accounts are of the shape the code keeps
\* them in: an id has one row, and an idle handler has nothing locked.
TypeOK == AccountsTypeOK /\ WorkspaceTypeOK

\* The last project stays, whoever deletes which one at the same time
\* (delete_project's lock on all projects).
ProjectRemains == Live # {}

\* Of several requests that set the default of a project at the same time none
\* fails at the unique index: the lock on the project lets each of them clear
\* what the one before it has set.
DefaultsDoNotCollide ==
    \A h \in Handlers : at[h] = "set_default" => ~Collides(h, req[h].env)

\* What hangs on a deleted row is deleted, though requests that refer to the
\* row were under way: tokens and memberships of users, environments of
\* projects, keys and defaults of environments.
NothingOutlivesItsParent ==
    /\ \A t \in tokens : \E u \in Emails : user[u].id = t.owner
    /\ \A p \in Projects, u \in Emails : member[p][u] # "none" => project[p] = p /\ Exists(u)
    /\ \A e \in Environments : home[e] \in Projects => project[home[e]] = home[e]
    /\ \A k \in LiveKeys : home[keyOf[k]] \in Projects
    /\ \A e \in defaults : home[e] \in Projects

\* Revoking a key leaves one, whichever keys are revoked at the same time.
RevokingLeavesAKey ==
    [][\A h \in Handlers : at[h] = "revoke_key" /\ keyOf' # keyOf => LiveKeys' # {}]_all

\* A request for one project changes nothing of another one: neither its
\* environments, its default, its keys nor its members.
WithinProject ==
    [][\A h \in Handlers, p \in Projects :
          at[h] # "idle" /\ at'[h] = "idle" /\ req[h].project # p =>
              /\ EnvironmentsOf(p)' = EnvironmentsOf(p)
              /\ (defaults \cap EnvironmentsOf(p))' = defaults \cap EnvironmentsOf(p)
              /\ KeysOf(p)' = KeysOf(p)
              /\ member'[p] = member[p]]_all

\* "Prevent deleting the last environment in the project" (environments.rs):
\* a project that has an environment keeps one as long as it is there.
AnEnvironmentRemains ==
    [][\A p \in Live : EnvironmentsOf(p) # {} /\ p \in Live' => EnvironmentsOf(p)' # {}]_all
=============================================================================
