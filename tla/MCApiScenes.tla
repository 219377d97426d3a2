---------------------------- MODULE MCApiScenes ----------------------------
(***************************************************************************)
(* Bulk inserts, exports and imports, one kind at a time, each against the *)
(* operations that can disturb it.                                         *)
(***************************************************************************)
EXTENDS CardPulseApi, TLC

CONSTANTS p1, p2

VARIABLE scene

TwoSlots == {p1, p2}

\* The most that the scenes below offer.
SceneOffered ==
    (p1 :> {"create_card", "create_transaction", "delete_card"})
    @@ (p2 :> {"create_card", "delete_card"})

\* The request that starts in this step, if any, is one of these.
Starts(p, ops, items) ==
    p \in DOMAIN req' \ DOMAIN req =>
        req'[p].op \in ops /\ Len(req'[p].items) <= items

\* A bulk insert against every card operation.
BulkScene ==
    \E p \in Procs :
        /\ CrudStep(p) /\ UNCHANGED <<exp, imp>>
        /\ Starts(p1, {"create_transaction"}, 2)

\* What can move under an export between its two reads.
ExportScene ==
    \/ \E p \in Procs :
         /\ CrudStep(p) /\ UNCHANGED <<exp, imp>>
         /\ Starts(p1, {"create_card", "create_transaction"}, 1)
         /\ Starts(p2, {"delete_card"}, 1)
         /\ \A t \in DOMAIN txs' : t = 1
    \/ \E e \in Exporters : ExportStep(e) /\ UNCHANGED req

\* What can disturb an import: its cards are deleted as it goes.
ImportScene ==
    \/ /\ CrudStep(p1) /\ UNCHANGED <<exp, imp>>
       /\ Starts(p1, {"delete_card"}, 1)
    \/ \E m \in Importers :
         /\ ImportStep(m) /\ UNCHANGED req
         /\ \A k \in DOMAIN imp' : Len(imp'[k].cards) + Len(imp'[k].txs) <= 3

SceneInit == Init /\ scene \in {"bulk", "export", "import"}

SceneNext ==
    /\ UNCHANGED scene
    /\ \/ scene = "bulk" /\ BulkScene
       \/ scene = "export" /\ ExportScene
       \/ scene = "import" /\ ImportScene

SceneSpec == SceneInit /\ [][SceneNext]_<<vars, scene>>

SceneSymmetry ==
    Permutations(Users) \cup Permutations(Contents) \cup Permutations(OriginalIds)
=============================================================================
