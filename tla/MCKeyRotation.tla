--------------------------- MODULE MCKeyRotation ---------------------------
(***************************************************************************)
(* Two users and two devices, each used by either of them, and two keys    *)
(* wrapped at most: one that is abandoned and the one that overtakes it,   *)
(* or one from each device.                                                *)
(***************************************************************************)
EXTENDS KeyRotation, TLC

RotationSymmetry == Permutations(Devices) \cup Permutations(Passwords)
=============================================================================
