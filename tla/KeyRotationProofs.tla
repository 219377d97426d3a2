------------------------- MODULE KeyRotationProofs -------------------------
(***************************************************************************)
(* For every number of users, devices, passwords and rotations: the keys   *)
(* are well formed, each opens with the password it was wrapped for, and   *)
(* no session is ahead of the server.                                      *)
(***************************************************************************)
EXTENDS KeyRotation, TLAPS

Sealed(key) == key.wrapped.salt = key.salt

\* The keys on their way.  One that was served is stored; one whose modal
\* is open came from the DEK that the modal holds.
RequestsSound ==
    \A r \in requests :
        /\ Sealed(r.key)
        /\ r.served => r.key \in past
        /\ r.open => modal[r.device].dek # None

StoredSound == \A u \in Users : server[u] \in past /\ Sealed(server[u])

SessionsSound ==
    \A d \in Devices : session[d] # None =>
        session[d].key \in past /\ Sealed(session[d].key)

RotationInv == TypeOK /\ RequestsSound /\ StoredSound /\ SessionsSound

SessionType == [user: Users, key: Key] \cup {None}

-----------------------------------------------------------------------------
(* Keys *)

\* What wrapDek makes is a key, and it opens.
LEMMA WrapIsKey ==
    ASSUME NEW dek \in Users, NEW p \in Passwords, NEW s \in Salts
    PROVE  WrapDek(dek, p, s) \in Key /\ Sealed(WrapDek(dek, p, s))
BY DEF WrapDek, Key, Wrapped, Sealed

LEMMA SealedOpens ==
    ASSUME NEW key \in Key, Sealed(key)
    PROVE  Opens(key, key.wrapped.password)
BY DEF Opens, Sealed

\* None is no session.
LEMMA SessionFields ==
    ASSUME NEW s \in SessionType, s # None
    PROVE  s = [user |-> s.user, key |-> s.key] /\ s.user \in Users /\ s.key \in Key
BY DEF SessionType

LEMMA UpdatedSession ==
    ASSUME NEW s \in SessionType, s # None, NEW key \in Key
    PROVE  UpdateWrappedDek(s, key) \in SessionType /\ UpdateWrappedDek(s, key).key = key
BY DEF SessionType, UpdateWrappedDek

-----------------------------------------------------------------------------
LEMMA InitSound == Init => RotationInv
<1> SUFFICES ASSUME Init PROVE RotationInv
  OBVIOUS
<1>1. PICK p \in Passwords : server = [u \in Users |-> WrapDek(u, p, 0)]
  BY DEF Init
<1>2. 0 \in Salts
  BY RotationAssumption DEF Salts
<1>3. \A u \in Users : server[u] \in Key /\ Sealed(server[u]) /\ server[u] \in past
  BY <1>1, <1>2, WrapIsKey DEF Init
<1>4. server \in [Users -> Key]
  BY <1>1, <1>3
<1>5. TypeOK
  <2>1. modal \in [Devices -> Modal]
    BY DEF Init, Modal, Closed
  <2>2. \A d \in Devices :
           modal[d].dek # None <=> modal[d].step \in {"new-password", "success"}
    BY DEF Init, Closed
  <2>3. past \subseteq Key
    BY <1>3 DEF Init
  <2> QED
    BY <1>2, <1>4, <2>1, <2>2, <2>3 DEF Init, TypeOK
<1> QED
  BY <1>3, <1>5 DEF Init, RotationInv, RequestsSound, StoredSound, SessionsSound

-----------------------------------------------------------------------------
(* The steps that leave the keys alone *)

\* What a login copies is the stored key.
LEMMA LoginSound ==
    ASSUME RotationInv, NEW d \in Devices, NEW u \in Users, Login(d, u)
    PROVE  RotationInv'
<1> DEFINE s == [user |-> u, key |-> server[u]]
<1>1. s \in SessionType /\ s.key \in past /\ Sealed(s.key)
  BY DEF RotationInv, TypeOK, StoredSound, SessionType
<1>2. session' = [session EXCEPT ![d] = s]
  BY DEF Login
<1> HIDE DEF s
<1>3. TypeOK'
  BY <1>1, <1>2 DEF RotationInv, TypeOK, SessionType, Login
<1>4. SessionsSound'
  BY <1>1, <1>2 DEF RotationInv, TypeOK, SessionsSound, Login, Sealed
<1> QED
  BY <1>3, <1>4 DEF RotationInv, RequestsSound, StoredSound, Sealed, Login

LEMMA LogoutSound ==
    ASSUME RotationInv, NEW d \in Devices, Logout(d)
    PROVE  RotationInv'
<1>1. TypeOK'
  BY DEF RotationInv, TypeOK, Logout
<1>2. SessionsSound'
  BY DEF RotationInv, TypeOK, SessionsSound, Logout, Sealed
<1> QED
  BY <1>1, <1>2 DEF RotationInv, RequestsSound, StoredSound, Sealed, Logout

\* A step of the modal alone, to a state of it.
LEMMA ModalSound ==
    ASSUME RotationInv, NEW d \in Devices, NEW m \in Modal,
           m.dek # None <=> m.step \in {"new-password", "success"},
           modal' = [modal EXCEPT ![d] = m],
           UNCHANGED <<server, session, wraps, past, acked>>,
           requests' \subseteq Request, RequestsSound'
    PROVE  RotationInv'
<1>1. TypeOK'
  BY DEF RotationInv, TypeOK
<1> QED
  BY <1>1 DEF RotationInv, StoredSound, SessionsSound, Sealed

LEMMA OpenModalSound ==
    ASSUME RotationInv, NEW d \in Devices, OpenModal(d)
    PROVE  RotationInv'
<1> DEFINE m == [step |-> "old-password", dek |-> None]
<1>1. m \in Modal /\ (m.dek # None <=> m.step \in {"new-password", "success"})
  BY DEF Modal
<1>2. requests' \subseteq Request /\ RequestsSound'
  <2>1. \A r \in requests : r.device \in Devices
    BY DEF RotationInv, TypeOK, Request
  <2>2. modal[d].dek = None
    BY DEF OpenModal, Closed
  <2> QED
    BY <2>1, <2>2 DEF RotationInv, TypeOK, RequestsSound, Sealed, OpenModal
<1> QED
  BY <1>1, <1>2, ModalSound DEF OpenModal

\* The DEK comes out of the session's key.
LEMMA VerifySound ==
    ASSUME RotationInv, NEW d \in Devices, NEW p \in Passwords, VerifyOldPassword(d, p)
    PROVE  RotationInv'
<1> DEFINE m == [step |-> "new-password", dek |-> session[d].key.wrapped.dek]
<1>1. session[d] \in SessionType /\ session[d] # None
  BY DEF RotationInv, TypeOK, SessionType, VerifyOldPassword
<1>2. session[d].key.wrapped.dek \in Users
  BY <1>1, SessionFields DEF Key, Wrapped
<1>3. m \in Modal /\ (m.dek # None <=> m.step \in {"new-password", "success"})
  BY <1>2, RotationAssumption DEF Modal
<1>4. requests' \subseteq Request /\ RequestsSound'
  <2>1. \A r \in requests : r.device \in Devices
    BY DEF RotationInv, TypeOK, Request
  <2>2. modal[d].dek = None
    BY DEF RotationInv, TypeOK, VerifyOldPassword
  <2> QED
    BY <2>1, <2>2 DEF RotationInv, TypeOK, RequestsSound, Sealed, VerifyOldPassword
<1> QED
  BY <1>3, <1>4, ModalSound DEF VerifyOldPassword

\* The requests of the device lose their modal, nothing else.
LEMMA CloseSound ==
    ASSUME RotationInv, NEW d \in Devices, Close(d)
    PROVE  RotationInv'
<1>1. \A r \in Request : [r EXCEPT !.open = FALSE] \in Request
  BY DEF Request
<1>2. \A r \in requests' : \E q \in requests :
         \/ r = q /\ q.device # d
         \/ r = [q EXCEPT !.open = FALSE]
  BY DEF Close
<1>3. requests' \subseteq Request
  BY <1>1, <1>2 DEF RotationInv, TypeOK
<1>4. RequestsSound'
  <2> SUFFICES ASSUME NEW r \in requests'
               PROVE  /\ Sealed(r.key)
                      /\ r.served => r.key \in past'
                      /\ r.open => modal'[r.device].dek # None
    BY DEF RequestsSound, Sealed
  <2>1. PICK q \in requests : \/ r = q /\ q.device # d
                             \/ r = [q EXCEPT !.open = FALSE]
    BY <1>2
  <2>2. q \in Request
    BY DEF RotationInv, TypeOK
  <2>3. r.key = q.key /\ r.served = q.served /\ (r.open => r = q /\ q.device # d)
    BY <2>1, <2>2 DEF Request
  <2>4. r.open => modal'[r.device] = modal[q.device] /\ q.open
    BY <2>2, <2>3 DEF RotationInv, TypeOK, Request, Close
  <2> QED
    BY <2>3, <2>4 DEF RotationInv, RequestsSound, Close
<1>5. Closed \in Modal /\ ~(Closed.dek # None)
      /\ Closed.step \notin {"new-password", "success"}
  BY DEF Modal, Closed
<1> QED
  BY <1>3, <1>4, <1>5, ModalSound DEF Close

-----------------------------------------------------------------------------
(* The request and its answer *)

LEMMA RotateSound ==
    ASSUME RotationInv, NEW d \in Devices, NEW p \in Passwords, Rotate(d, p)
    PROVE  RotationInv'
<1> DEFINE key == WrapDek(modal[d].dek, p, wraps + 1)
           r == [device |-> d, user |-> session[d].user, key |-> key,
                 served |-> FALSE, waiting |-> TRUE, open |-> TRUE]
<1>1. wraps + 1 \in Salts
  BY RotationAssumption DEF RotationInv, TypeOK, Salts, Rotate
<1>2. modal[d].dek \in Users
  BY DEF RotationInv, TypeOK, Modal, Rotate
<1>3. key \in Key /\ Sealed(key)
  BY <1>1, <1>2, WrapIsKey
<1>4. session[d].user \in Users
  BY SessionFields DEF RotationInv, TypeOK, SessionType, Rotate
<1> HIDE DEF key
<1>5. r \in Request /\ r.key = key /\ ~r.served /\ r.device = d
  BY <1>3, <1>4 DEF Request
<1>6. requests' = requests \cup {r}
  BY DEF Rotate, key
<1> HIDE DEF r
<1>7. TypeOK'
  BY <1>1, <1>5, <1>6 DEF RotationInv, TypeOK, Rotate
<1>8. RequestsSound'
  BY <1>3, <1>5, <1>6 DEF RotationInv, RequestsSound, Sealed, Rotate
<1> QED
  BY <1>7, <1>8 DEF RotationInv, StoredSound, SessionsSound, Sealed, Rotate

\* What is stored is a key that opens, and it is remembered.
LEMMA ServeSound ==
    ASSUME RotationInv, NEW r \in requests, Serve(r)
    PROVE  RotationInv'
<1> DEFINE served == [r EXCEPT !.served = TRUE]
<1>1. r \in Request /\ r.key \in Key /\ r.user \in Users /\ Sealed(r.key)
  BY DEF RotationInv, TypeOK, RequestsSound, Request
<1>2. served \in Request /\ served.key = r.key
      /\ served.open = r.open /\ served.device = r.device
  BY <1>1 DEF Request
<1>3. requests' \subseteq (requests \ {r}) \cup {served}
  BY DEF Serve
<1> HIDE DEF served
<1>4. server' = [server EXCEPT ![r.user] = r.key] /\ past' = past \cup {r.key}
  BY DEF Serve
<1>5. TypeOK'
  BY <1>1, <1>2, <1>3, <1>4 DEF RotationInv, TypeOK, Serve
<1>6. RequestsSound'
  BY <1>1, <1>2, <1>3, <1>4 DEF RotationInv, RequestsSound, Sealed, Serve
<1>7. StoredSound'
  BY <1>1, <1>4 DEF RotationInv, TypeOK, StoredSound, Sealed
<1>8. SessionsSound'
  BY <1>4 DEF RotationInv, SessionsSound, Sealed, Serve
<1> QED
  BY <1>5, <1>6, <1>7, <1>8 DEF RotationInv

\* Only a served rotation replaces the key of a session.
LEMMA ReceiveSound ==
    ASSUME RotationInv, NEW r \in requests, Receive(r)
    PROVE  RotationInv'
<1>1. r \in Request /\ r.key \in Key /\ r.device \in Devices
      /\ Sealed(r.key) /\ r.key \in past
  BY DEF RotationInv, TypeOK, RequestsSound, Request, Receive
<1> DEFINE d == r.device
           s == IF session[d] = None THEN None ELSE UpdateWrappedDek(session[d], r.key)
<1>2. session[d] \in SessionType
  BY <1>1 DEF RotationInv, TypeOK, SessionType
<1>3. s \in SessionType /\ (s # None => s.key = r.key)
  BY <1>1, <1>2, UpdatedSession DEF SessionType
<1>4. session' = [session EXCEPT ![d] = s]
  BY <1>1 DEF RotationInv, TypeOK, Receive, ApplyTo
<1> HIDE DEF s
<1>5. session' \in [Devices -> SessionType]
  BY <1>1, <1>3, <1>4 DEF RotationInv, TypeOK, SessionType
<1>6. SessionsSound'
  BY <1>1, <1>3, <1>4 DEF RotationInv, TypeOK, SessionsSound, Sealed, Receive
<1>7. r.open => modal[d].dek # None
  BY DEF RotationInv, RequestsSound
<1>8. /\ modal' \in [Devices -> Modal]
      /\ \A e \in Devices : modal'[e].dek = modal[e].dek
      /\ \A e \in Devices :
           modal'[e].dek # None <=> modal'[e].step \in {"new-password", "success"}
  BY <1>1, <1>7 DEF RotationInv, TypeOK, Modal, Receive
<1>9. acked' \in [Devices -> SUBSET Key]
  BY <1>1 DEF RotationInv, TypeOK, Receive
<1>10. TypeOK'
  BY <1>5, <1>8, <1>9 DEF RotationInv, TypeOK, SessionType, Receive
<1>11. RequestsSound'
  <2>1. \A q \in requests : q.device \in Devices
    BY DEF RotationInv, TypeOK, Request
  <2> QED
    BY <1>8, <2>1 DEF RotationInv, RequestsSound, Sealed, Receive
<1> QED
  BY <1>6, <1>10, <1>11 DEF RotationInv, StoredSound, Sealed, Receive

LEMMA LoseAnswerSound ==
    ASSUME RotationInv, NEW r \in requests, LoseAnswer(r)
    PROVE  RotationInv'
<1> DEFINE lost == [r EXCEPT !.waiting = FALSE, !.open = FALSE]
<1>1. r \in Request /\ Sealed(r.key) /\ (r.served => r.key \in past)
  BY DEF RotationInv, TypeOK, RequestsSound
<1>2. lost \in Request /\ lost.key = r.key /\ lost.served = r.served /\ ~lost.open
  BY <1>1 DEF Request
<1>3. requests' \subseteq (requests \ {r}) \cup {lost}
  BY DEF LoseAnswer
<1> HIDE DEF lost
<1>4. TypeOK'
  BY <1>2, <1>3 DEF RotationInv, TypeOK, LoseAnswer
<1>5. RequestsSound'
  BY <1>1, <1>2, <1>3 DEF RotationInv, RequestsSound, Sealed, LoseAnswer
<1> QED
  BY <1>4, <1>5 DEF RotationInv, StoredSound, SessionsSound, Sealed, LoseAnswer

LEMMA DropSound ==
    ASSUME RotationInv, NEW r \in requests, Drop(r)
    PROVE  RotationInv'
<1>1. TypeOK'
  BY DEF RotationInv, TypeOK, Drop
<1> QED
  BY <1>1 DEF RotationInv, RequestsSound, StoredSound, SessionsSound, Sealed, Drop

-----------------------------------------------------------------------------
LEMMA RotationStep == RotationInv /\ [Next]_vars => RotationInv'
<1> SUFFICES ASSUME RotationInv, [Next]_vars PROVE RotationInv'
  OBVIOUS
<1>1. CASE \E d \in Devices, u \in Users : Login(d, u)
  BY <1>1, LoginSound
<1>2. CASE \E d \in Devices, p \in Passwords : VerifyOldPassword(d, p)
  BY <1>2, VerifySound
<1>3. CASE \E d \in Devices, p \in Passwords : Rotate(d, p)
  BY <1>3, RotateSound
<1>4. CASE \E d \in Devices : Logout(d)
  BY <1>4, LogoutSound
<1>5. CASE \E d \in Devices : OpenModal(d)
  BY <1>5, OpenModalSound
<1>6. CASE \E d \in Devices : Close(d)
  BY <1>6, CloseSound
<1>7. CASE \E r \in requests : Serve(r)
  BY <1>7, ServeSound
<1>8. CASE \E r \in requests : Receive(r)
  BY <1>8, ReceiveSound
<1>9. CASE \E r \in requests : LoseAnswer(r)
  BY <1>9, LoseAnswerSound
<1>10. CASE \E r \in requests : Drop(r)
  BY <1>10, DropSound
<1>11. CASE UNCHANGED vars
  <2>1. TypeOK'
    BY <1>11 DEF RotationInv, TypeOK, vars
  <2> QED
    BY <1>11, <2>1
    DEF RotationInv, RequestsSound, StoredSound, SessionsSound, Sealed, vars
<1> QED
  BY <1>1, <1>2, <1>3, <1>4, <1>5, <1>6, <1>7, <1>8, <1>9, <1>10, <1>11 DEF Next

LEMMA RotationInvHolds == Spec => []RotationInv
BY InitSound, RotationStep, PTL DEF Spec

(***************************************************************************)
(* Server, sessions, modals and requests keep their form; in particular a  *)
(* modal past the old password holds a DEK, and one before it holds none.  *)
(***************************************************************************)
THEOREM RotationType == Spec => []TypeOK
<1>1. RotationInv => TypeOK
  BY DEF RotationInv
<1> QED
  BY <1>1, RotationInvHolds, PTL

(***************************************************************************)
(* The columns that the server stores of a user, and those that a session  *)
(* copied, belong to one wrapping: its password opens them.                *)
(***************************************************************************)
THEOREM RotationKeysOpen == Spec => []KeysOpen
<1>1. RotationInv => KeysOpen
  <2> SUFFICES ASSUME RotationInv PROVE KeysOpen
    OBVIOUS
  <2>1. \A u \in Users : Opens(server[u], server[u].wrapped.password)
    BY SealedOpens DEF RotationInv, TypeOK, StoredSound
  <2>2. \A d \in Devices : session[d] # None =>
           Opens(session[d].key, session[d].key.wrapped.password)
    BY SealedOpens, SessionFields DEF RotationInv, TypeOK, SessionType, SessionsSound
  <2> QED
    BY <2>1, <2>2 DEF KeysOpen
<1> QED
  BY <1>1, RotationInvHolds, PTL

(***************************************************************************)
(* A session verifies passwords with a key that the server has stored,     *)
(* whatever answers are late or lost.                                      *)
(***************************************************************************)
THEOREM RotationKeyWasStored == Spec => []SessionKeyWasStored
<1>1. RotationInv => SessionKeyWasStored
  BY DEF RotationInv, SessionsSound, SessionKeyWasStored
<1> QED
  BY <1>1, RotationInvHolds, PTL
=============================================================================
