-------------------------- MODULE OverrideHistory --------------------------
(***************************************************************************)
(* What the server's category_overrides promise.  The map is one encrypted *)
(* value, so there is no promise that edits add up: a stored map is some   *)
(* map that was stored before (or the empty one), whichever, with the      *)
(* entry of one edit added.  No map is ever made up, merged or cut short.  *)
(***************************************************************************)
CONSTANTS Keys, Values

VARIABLES
    config,     \* the stored map
    versions    \* every map stored so far, and the empty one

Nothing == [k \in {} |-> {}]

Added(map, key, value) ==
    [k \in DOMAIN map \cup {key} |-> IF k = key THEN value ELSE map[k]]

Init == config = Nothing /\ versions = {Nothing}

\* map: the stored map an edit started from.
Extend(map, key, value) ==
    /\ config' = Added(map, key, value)
    /\ versions' = versions \cup {config'}

Next == \E map \in versions, k \in Keys, v \in Values : Extend(map, k, v)

Spec == Init /\ [][Next]_<<config, versions>>
=============================================================================
