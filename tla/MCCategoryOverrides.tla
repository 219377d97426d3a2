------------------------ MODULE MCCategoryOverrides ------------------------
(***************************************************************************)
(* Two transactions, of two merchants (where edits of one may cost the     *)
(* other) or of one (where the phone files the second with what it learned *)
(* from the first); each is there already or is filed by the phone.  Two   *)
(* edits are under way at once: of two tabs, or of one in quick succession.*)
(***************************************************************************)
EXTENDS CategoryOverrides, TLC

CONSTANTS t1, t2, cafe, taxi

TwoMerchants == (t1 :> cafe) @@ (t2 :> taxi)
OneMerchant == (t1 :> cafe) @@ (t2 :> cafe)

DeviceSymmetry == Permutations(Devices)
=============================================================================
