------------------------- MODULE MCDashboardCache -------------------------
(***************************************************************************)
(* Two transactions in two revisions; an override that is absent, set or   *)
(* changed.  Three scenes: one user on any rows and any override, with one *)
(* write of any kind: rows are added, deleted, edited and put one for      *)
(* another, an override appears, goes, and changes behind the same         *)
(* lengths; one user with one row and an override, with two writes; and    *)
(* two users who share the tab, with one write.  In the last two scenes a  *)
(* write is the tab's own, or comes from elsewhere and adds no row.        *)
(***************************************************************************)
EXTENDS DashboardCache

CONSTANTS Ana, Bia

VARIABLE scene

Scenes == {"any start", "two writes", "two users"}

ScenePlayers == IF scene = "two users" THEN {Ana, Bia} ELSE {Ana}

SceneWrites == IF scene = "two writes" THEN 2 ELSE 1

Rows(u, revisions) ==
    {[owner |-> u, id |-> i, revision |-> revisions[i]] : i \in DOMAIN revisions}

OneRowEach == \A u \in ScenePlayers : table[u] = Rows(u, <<1>>) /\ config[u] = 1

\* Any rows and any override, up to a renaming of ids, revisions and values.
AnyStart ==
    \A u \in ScenePlayers :
        /\ table[u] \in {Rows(u, f) : f \in {<<>>, <<1>>, <<1, 1>>, <<1, 2>>}}
        /\ config[u] \in {0, 1}

SceneInit ==
    /\ scene \in Scenes
    /\ Init
    /\ \A u \in Users \ ScenePlayers : table[u] = {} /\ config[u] = 0
    /\ IF scene = "any start" THEN AnyStart ELSE OneRowEach

\* The scene leaves out logins of others, further writes and other kinds of them.
SceneNext ==
    /\ Next
    /\ user' \in ScenePlayers \cup {None}
    /\ writes' <= SceneWrites
    /\ \A u \in Users \ ScenePlayers : table'[u] = table[u] /\ config'[u] = config[u]
    /\ scene # "any start" /\ writes' # writes =>
         AddOrDelete \/ EditCategory \/ \A u \in Users : table'[u] \subseteq table[u]
    /\ UNCHANGED scene

SceneSpec == SceneInit /\ [][SceneNext]_<<vars, scene>> /\ Fairness
=============================================================================
