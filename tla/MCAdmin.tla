------------------------------ MODULE MCAdmin -------------------------------
(***************************************************************************)
(* Accounts and Workspace on five small instances in one run, chosen by the *)
(* initial state: logins and setups; users and tokens; users and members of *)
(* projects; projects and environments; environments and keys.  But for the *)
(* first, a has set the workspace up and added b, whom the requests about   *)
(* members are for.                                                        *)
(***************************************************************************)
EXTENDS Workspace, TLC

CONSTANTS a, b    \* the emails

VARIABLE scenario

\* The requests of a scenario.
Kinds == [
    login        |-> {"login", "setup"},
    users        |-> {"create_user", "delete_user", "create_token", "revoke_token"},
    members      |-> {"delete_user", "add_member", "update_member", "remove_member",
                      "delete_project"},
    environments |-> {"create_project", "delete_project", "create_environment",
                      "delete_environment", "set_default"},
    keys         |-> {"create_environment", "delete_environment", "create_key", "revoke_key"}]

\* After first-run setup by a, who has added b.
SetUp(role) ==
    /\ user = (a :> [id |-> 1, role |-> "admin"]) @@ (b :> [id |-> 2, role |-> role])
    /\ lastId = 2 /\ setup = TRUE
    /\ attempts = [e \in Emails |-> 0]
    /\ sessions = {1, 2} /\ tokens = {}
    /\ locked = [e \in Emails |-> Nobody]
    /\ step = [h \in Handlers |-> "idle"]
    /\ ask = [h \in Handlers |-> Idle]
    /\ claims = [h \in Handlers |-> NoClaims]

MCInit ==
    /\ scenario \in DOMAIN Kinds
    /\ CASE scenario = "login" -> AccountsInit
         [] scenario = "users" -> SetUp("admin")
         [] OTHER -> SetUp("viewer")
    /\ WorkspaceInit

MCNext ==
    /\ UNCHANGED scenario
    /\ Next
    /\ \A h \in Handlers :
          /\ ask'[h].kind \in Kinds[scenario] \cup {"none"}
          /\ req'[h].kind \in Kinds[scenario] \cup {"none"}
          /\ "user" \in DOMAIN req'[h] => req'[h].user = 2
    /\ scenario \in {"members", "environments", "keys"} => sessions' = sessions

MCSpec == MCInit /\ [][MCNext]_<<all, scenario>>

Symmetry == Permutations(Handlers) \cup Permutations(Projects)
            \cup Permutations(Environments) \cup Permutations(Keys)
=============================================================================
