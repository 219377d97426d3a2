---------------------------- MODULE KeyRotation ----------------------------
(***************************************************************************)
(* Changing the master password: RotateKeyModal on several devices, the    *)
(* crypto it uses taken symbolically, and the rotate-key endpoint.  A key  *)
(* is what the server stores of a user: the DEK wrapped under a password   *)
(* and a salt, and the salt to derive the wrapping key with.  The awaits   *)
(* of PBKDF2 and AES depend on captured values only and are folded into    *)
(* the steps around them; the request is not.                              *)
(***************************************************************************)
EXTENDS Naturals, FiniteSets

CONSTANTS
    Users,          \* a user's name stands for the user's DEK as well
    Devices,
    Passwords,
    None,
    MaxWraps        \* bound: rotations

ASSUME RotationAssumption == None \notin Users /\ MaxWraps \in Nat

VARIABLES
    server,     \* user -> the key in the users table
    session,    \* device -> None or [user, key], unlocked
    modal,      \* device -> the state of RotateKeyModal
    requests,   \* rotate-key requests that still matter
    wraps,      \* salts generated so far
    past,       \* history: keys the server has ever stored
    acked       \* history: device -> keys whose rotation was answered to it

vars == <<server, session, modal, requests, wraps, past, acked>>

Salts == 0..MaxWraps
Wrapped == [dek: Users, password: Passwords, salt: Salts]
Key == [wrapped: Wrapped, salt: Salts]

\* waiting: the client has no answer yet; open: the modal that sent it is mounted.
Request == [device: Devices, user: Users, key: Key,
            served: BOOLEAN, waiting: BOOLEAN, open: BOOLEAN]

Closed == [step |-> "closed", dek |-> None]

\* wrapDek under a password and a salt.
WrapDek(dek, password, salt) ==
    [wrapped |-> [dek |-> dek, password |-> password, salt |-> salt], salt |-> salt]

\* deriveKey and unwrapDek: the tag fails for another password or another salt.
Opens(key, password) ==
    key.wrapped.password = password /\ key.wrapped.salt = key.salt

Init ==
    /\ server \in {[u \in Users |-> WrapDek(u, p, 0)] : p \in Passwords}
    /\ session = [d \in Devices |-> None]
    /\ modal = [d \in Devices |-> Closed]
    /\ requests = {} /\ wraps = 0
    /\ past = {server[u] : u \in Users}
    /\ acked = [d \in Devices |-> {}]

\* Both steps of LoginPage, with the right passwords.
Login(d, u) ==
    /\ session[d] = None
    /\ session' = [session EXCEPT ![d] = [user |-> u, key |-> server[u]]]
    /\ UNCHANGED <<server, modal, requests, wraps, past, acked>>

\* The button, or a refresh that failed; Layout keeps the modal.
Logout(d) ==
    /\ session[d] # None
    /\ session' = [session EXCEPT ![d] = None]
    /\ UNCHANGED <<server, modal, requests, wraps, past, acked>>

OpenModal(d) ==
    /\ session[d] # None /\ modal[d] = Closed
    /\ modal' = [modal EXCEPT ![d] = [step |-> "old-password", dek |-> None]]
    /\ UNCHANGED <<server, session, requests, wraps, past, acked>>

\* Mutant: the step changes, the unwrapped DEK is not kept.
VerifyOldPasswordOnly(d, password) ==
    /\ modal[d].step = "old-password" /\ session[d] # None
    /\ Opens(session[d].key, password)
    /\ modal' = [modal EXCEPT ![d] = [step |-> "new-password", dek |-> None]]
    /\ UNCHANGED <<server, session, requests, wraps, past, acked>>

\* handleVerifyOldPassword; a wrong password leaves the step.
VerifyOldPassword(d, password) ==
    /\ modal[d].step = "old-password" /\ session[d] # None
    /\ Opens(session[d].key, password)
    /\ modal' = [modal EXCEPT ![d] =
         [step |-> "new-password", dek |-> session[d].key.wrapped.dek]]
    /\ UNCHANGED <<server, session, requests, wraps, past, acked>>

Loading(d) == \E r \in requests : r.device = d /\ r.open

\* handleRotate up to its request.
Rotate(d, password) ==
    /\ modal[d].step = "new-password" /\ ~Loading(d)
    /\ modal[d].dek # None /\ session[d] # None
    /\ wraps < MaxWraps
    /\ wraps' = wraps + 1
    /\ requests' = requests \cup
         {[device |-> d, user |-> session[d].user,
           key |-> WrapDek(modal[d].dek, password, wraps + 1),
           served |-> FALSE, waiting |-> TRUE, open |-> TRUE]}
    /\ UNCHANGED <<server, session, modal, past, acked>>

\* The endpoint: the three columns of the caller's row in one UPDATE.
Serve(r) ==
    /\ ~r.served
    /\ server' = [server EXCEPT ![r.user] = r.key]
    /\ past' = past \cup {r.key}
    /\ requests' = (requests \ {r}) \cup
         (IF r.waiting THEN {[r EXCEPT !.served = TRUE]} ELSE {})
    /\ UNCHANGED <<session, modal, wraps, acked>>

\* Mutant: the salt stays behind.
UpdateWrappedDekAlone(s, key) == [s EXCEPT !.key.wrapped = key.wrapped]

\* updateWrappedDek, on whatever session is the current one.
UpdateWrappedDek(s, key) == [s EXCEPT !.key = key]

ApplyTo(d, key) ==
    session' = IF session[d] = None THEN session
               ELSE [session EXCEPT ![d] = UpdateWrappedDek(@, key)]

\* Mutant: the session is updated before the server has answered.
ReceiveEarly(r) ==
    /\ r.waiting
    /\ ApplyTo(r.device, r.key)
    /\ modal' = [modal EXCEPT ![r.device] = IF r.open THEN [@ EXCEPT !.step = "success"] ELSE @]
    /\ acked' = [acked EXCEPT ![r.device] = @ \cup {r.key}]
    /\ requests' = requests \ {r}
    /\ UNCHANGED <<server, wraps, past>>

Receive(r) ==
    /\ r.waiting /\ r.served
    /\ ApplyTo(r.device, r.key)
    /\ modal' = [modal EXCEPT ![r.device] = IF r.open THEN [@ EXCEPT !.step = "success"] ELSE @]
    /\ acked' = [acked EXCEPT ![r.device] = @ \cup {r.key}]
    /\ requests' = requests \ {r}
    /\ UNCHANGED <<server, wraps, past>>

\* The client sees an error; a request that was not served may be, later.
LoseAnswer(r) ==
    /\ r.waiting
    /\ requests' = (requests \ {r}) \cup
         (IF r.served THEN {} ELSE {[r EXCEPT !.waiting = FALSE, !.open = FALSE]})
    /\ UNCHANGED <<server, session, modal, wraps, past, acked>>

\* Refused by the server, or lost before it.
Drop(r) ==
    /\ ~r.served /\ ~r.waiting
    /\ requests' = requests \ {r}
    /\ UNCHANGED <<server, session, modal, wraps, past, acked>>

\* Cancel and Done; a rotation under way goes on without its modal.
Close(d) ==
    /\ modal[d] # Closed
    /\ modal' = [modal EXCEPT ![d] = Closed]
    /\ requests' = {IF r.device = d THEN [r EXCEPT !.open = FALSE] ELSE r : r \in requests}
    /\ UNCHANGED <<server, session, wraps, past, acked>>

Next ==
    \/ \E d \in Devices :
         \/ \E u \in Users : Login(d, u)
         \/ \E p \in Passwords : VerifyOldPassword(d, p) \/ Rotate(d, p)
         \/ Logout(d) \/ OpenModal(d) \/ Close(d)
    \/ \E r \in requests : Serve(r) \/ Receive(r) \/ LoseAnswer(r) \/ Drop(r)

Spec == Init /\ [][Next]_vars

Modal == [step: {"closed", "old-password", "new-password", "success"},
          dek: Users \cup {None}]

TypeOK ==
    /\ server \in [Users -> Key]
    /\ session \in [Devices -> [user: Users, key: Key] \cup {None}]
    /\ modal \in [Devices -> Modal]
    /\ \A d \in Devices :
         modal[d].dek # None <=> modal[d].step \in {"new-password", "success"}
    /\ requests \subseteq Request
    /\ wraps \in Salts
    /\ past \subseteq Key
    /\ acked \in [Devices -> SUBSET Key]

(***************************************************************************)
(* Nobody is locked out by a rotation: whatever is lost, late or sent from *)
(* several devices, the columns of the server, and those a session copied, *)
(* belong to one wrapping, so that the password it was made for opens it.  *)
(***************************************************************************)
KeysOpen ==
    /\ \A u \in Users : Opens(server[u], server[u].wrapped.password)
    /\ \A d \in Devices : session[d] # None =>
         Opens(session[d].key, session[d].key.wrapped.password)

(***************************************************************************)
(* A session runs ahead of no server: the key it verifies passwords with   *)
(* is one the server has stored, although it is replaced in memory after a *)
(* rotation, not read back, and an error may follow a rotation that took   *)
(* effect.                                                                 *)
(***************************************************************************)
SessionKeyWasStored ==
    \A d \in Devices : session[d] # None => session[d].key \in past

(***************************************************************************)
(* `Your encrypted data will remain intact': the key stored for a user     *)
(* wraps that user's DEK.                                                  *)
(***************************************************************************)
DataStaysIntact == \A u \in Users : server[u].wrapped.dek = u

(***************************************************************************)
(* `Enter your current master password to verify your identity': the       *)
(* modal goes on only for the password that opens the user's stored key.   *)
(***************************************************************************)
VerifiesCurrentPassword ==
    [][ \A d \in Devices :
          (modal[d].step = "old-password" /\ modal'[d].step = "new-password") =>
            Opens(server[session[d].user], session[d].key.wrapped.password) ]_vars

(***************************************************************************)
(* `The in-memory session reflects the new wrapped DEK': if the key that   *)
(* is stored came from a rotation this device saw succeed, the session     *)
(* holds that key.                                                         *)
(***************************************************************************)
SessionReflectsRotation ==
    \A d \in Devices :
        (session[d] # None /\ server[session[d].user] \in acked[d]) =>
            session[d].key = server[session[d].user]
=============================================================================
