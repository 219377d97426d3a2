--------------------------- MODULE MCCardPulseApi ---------------------------
(***************************************************************************)
(* Small instances of the data API.  Users and contents are                *)
(* interchangeable, and so are the slots where all of them are offered the *)
(* same operations; only safety properties are checked under symmetry.     *)
(***************************************************************************)
EXTENDS CardPulseApi, TLC

CONSTANTS p1, p2

TwoSlots == {p1, p2}

\* Every operation against every operation.
AllOffered == [p \in TwoSlots |-> Ops]

\* What can move under an export between its two reads.
ExportOffered ==
    (p1 :> {"create_card", "create_transaction"}) @@ (p2 :> {"delete_card"})

DataSymmetry == Permutations(Users) \cup Permutations(Contents)

SlotSymmetry == DataSymmetry \cup Permutations(TwoSlots)
=============================================================================
