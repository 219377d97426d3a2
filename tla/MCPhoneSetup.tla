---------------------------- MODULE MCPhoneSetup ----------------------------
(***************************************************************************)
(* In one scene everything, with two users, one of them with a card, two   *)
(* runs at a time, the turn of a year, and a message of every kind that    *)
(* makes a difference.  In the other the card map alone: three runs that   *)
(* overlap, four saves, and two cards that digits can change between.      *)
(***************************************************************************)
EXTENDS PhoneSetup, TLC

CONSTANTS c1, c2, u1, u2

VARIABLE scene

Owners == (c1 :> u1) @@ (c2 :> u1)
Dec == <<2025, 12>>
Jan == <<2026, 1>>

Sms(form, digits, dated) == [form |-> form, digits |-> digits, dated |-> dated]

FiveMessages ==
    {Sms("bradesco", "1234", "DD/MM"), Sms("bradesco", "masked", "DD/MM"),
     Sms("bradesco", "1234", "DD/MM/YYYY"),
     Sms("generic", None, None), Sms("generic", "1234", "DD/MM/YYYY")}

RunSymmetry == Permutations(Runs)

Going == {r \in Runs : run'[r] # None}
Mapped == {keychain'.map[d] : d \in DOMAIN keychain'.map} \cup {keychain'.default}

AllScene ==
    /\ Next
    /\ Cardinality(Going) <= 2 /\ saves' <= 2 /\ c2 \notin Mapped

MappingScene ==
    /\ Next
    /\ \A r \in Going : run'[r].kind \in {"mapping"} \cup (IF saves' = 0 THEN {"setup"} ELSE {})
    /\ keychain'.default = None /\ keychain'.token.user # u2
    /\ now' = now /\ setups' <= 1
    /\ setups' = 0 => Cardinality(Going) <= 1

SceneInit == Init /\ scene \in {"all", "mapping"}

SceneNext ==
    /\ UNCHANGED scene
    /\ \/ scene = "all" /\ AllScene
       \/ scene = "mapping" /\ MappingScene

SceneSpec == SceneInit /\ [][SceneNext]_<<vars, scene>>
=============================================================================
