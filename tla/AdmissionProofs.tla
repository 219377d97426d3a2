-------------------------- MODULE AdmissionProofs --------------------------
(***************************************************************************)
(* What lets a request in, for any addresses, limit and window and for any *)
(* texts.  The rate limiter: the invariant splits the accepted requests of *)
(* the last window length into those of the address's current window,      *)
(* which its counter counts, and older ones, which the window before it    *)
(* bounded.  The timestamp bucket: a text is accepted only if it is a      *)
(* month of the calendar, up to the two oddities of parsing integers.      *)
(***************************************************************************)
EXTENDS RateLimiter, TimestampBucket, FiniteSetTheorems, WellFoundedInduction,
        SequenceTheorems, TLAPS

Older(a) == (a + 1)..(Window - 1)

EntryOK(ip) ==
    LET n == entries[ip].count
        a == entries[ip].age
    IN  IF a < Window
        THEN /\ Cardinality(AcceptedAt(ip, 0..a))
                  = IF n <= MaxRequests THEN n ELSE MaxRequests
             /\ Cardinality(AcceptedAt(ip, Older(a))) <= MaxRequests
        ELSE /\ Cardinality(AcceptedAt(ip, Recent)) <= MaxRequests
             /\ AcceptedAt(ip, {0}) = {}

LimInv ==
    /\ TypeOK
    /\ \A ip \in Ips : IsFiniteSet(AcceptedAt(ip, Recent))
    /\ \A ip \in Ips : IF ip \in DOMAIN entries THEN EntryOK(ip)
                       ELSE AcceptedAt(ip, Recent) = {}

-----------------------------------------------------------------------------
(***************************************************************************)
(* Counting the accepted requests of an address.                           *)
(***************************************************************************)
LEMMA Members ==
    ASSUME NEW ip, NEW S
    PROVE  /\ \A a \in S : \A n \in 1..accepted[ip][a] : <<a, n>> \in AcceptedAt(ip, S)
           /\ \A x \in AcceptedAt(ip, S) :
                /\ x[1] \in S /\ x[2] \in 1..accepted[ip][x[1]]
                /\ x = <<x[1], x[2]>>
  BY DEF AcceptedAt

\* The same of the next state.
LEMMA MembersNext ==
    ASSUME NEW ip, NEW S
    PROVE  /\ \A a \in S : \A n \in 1..accepted'[ip][a] : <<a, n>> \in AcceptedAt(ip, S)'
           /\ \A x \in AcceptedAt(ip, S)' :
                /\ x[1] \in S /\ x[2] \in 1..accepted'[ip][x[1]]
                /\ x = <<x[1], x[2]>>
  BY DEF AcceptedAt

\* Fewer ages, fewer requests.
LEMMA FewerAges ==
    ASSUME NEW ip, IsFiniteSet(AcceptedAt(ip, Recent)),
           NEW S \in SUBSET Recent, NEW T \in SUBSET S
    PROVE  /\ IsFiniteSet(AcceptedAt(ip, S))
           /\ Cardinality(AcceptedAt(ip, S)) \in Nat
           /\ AcceptedAt(ip, T) \subseteq AcceptedAt(ip, S)
           /\ Cardinality(AcceptedAt(ip, T)) <= Cardinality(AcceptedAt(ip, S))
<1>1. AcceptedAt(ip, T) \subseteq AcceptedAt(ip, S)
  BY DEF AcceptedAt
<1>2. AcceptedAt(ip, S) \subseteq AcceptedAt(ip, Recent)
  BY DEF AcceptedAt
<1>3. IsFiniteSet(AcceptedAt(ip, S))
  BY <1>2, FS_Subset
<1>4. QED BY <1>1, <1>3, FS_Subset, FS_CardinalityType

(***************************************************************************)
(* As time passes, each accepted request gets one tick older: those at the *)
(* ages of T were at the ages of S before.                                 *)
(***************************************************************************)
LEMMA OneTickOlder ==
    ASSUME TypeOK, Tick, NEW ip \in Ips, IsFiniteSet(AcceptedAt(ip, Recent)),
           NEW S \in SUBSET Recent, NEW T \in SUBSET Recent,
           \A b \in T \ {0} : b - 1 \in S
    PROVE  /\ IsFiniteSet(AcceptedAt(ip, T)')
           /\ Cardinality(AcceptedAt(ip, T)') <= Cardinality(AcceptedAt(ip, S))
           /\ (\A a \in S : a + 1 \in T)
                => Cardinality(AcceptedAt(ip, T)') = Cardinality(AcceptedAt(ip, S))
<1> USE LimiterAssumption
<1> DEFINE old == AcceptedAt(ip, S)
           new == AcceptedAt(ip, T)'
           younger == [x \in new |-> <<x[1] - 1, x[2]>>]
<1>1. /\ accepted'[ip][0] = 0
      /\ \A b \in Recent \ {0} : accepted'[ip][b] = accepted[ip][b - 1]
  BY DEF Tick, Recent
<1>2. ASSUME NEW x \in new
      PROVE  /\ x[1] \in T \ {0} /\ x[2] \in 1..accepted[ip][x[1] - 1]
             /\ x = <<x[1], x[2]>> /\ x[1] \in Nat
             /\ <<x[1] - 1, x[2]>> \in old
  <2>1. x[1] \in T /\ x[2] \in 1..accepted'[ip][x[1]] /\ x = <<x[1], x[2]>>
    BY MembersNext
  <2>2. x[1] # 0
    BY <1>1, <2>1
  <2>3. x[1] \in Recent \ {0} /\ x[1] \in Nat
    BY <2>1, <2>2 DEF Recent
  <2>4. x[2] \in 1..accepted[ip][x[1] - 1] /\ x[1] - 1 \in S
    BY <1>1, <2>1, <2>3
  <2>5. <<x[1] - 1, x[2]>> \in old
    BY <2>4, Members
  <2>6. QED BY <2>1, <2>2, <2>3, <2>4, <2>5
<1>3. IsFiniteSet(old)
  BY FewerAges
<1> HIDE DEF old, new
<1>4. younger \in [new -> old]
  BY <1>2
<1>5. ASSUME NEW x \in new, NEW y \in new, younger[x] = younger[y]
      PROVE  x = y
  <2>1. x[1] - 1 = y[1] - 1 /\ x[2] = y[2]
    BY <1>5
  <2>2. x[1] \in Nat /\ y[1] \in Nat
    BY <1>2
  <2>3. x[1] = y[1]
    BY <2>1, <2>2
  <2>4. x = <<x[1], x[2]>> /\ y = <<y[1], y[2]>>
    BY <1>2
  <2>5. QED BY <2>1, <2>3, <2>4
<1>6. younger \in Injection(new, old)
  BY <1>4, <1>5 DEF Injection, IsInjective
<1>7. (\A a \in S : a + 1 \in T) => younger \in Surjection(new, old)
  <2> SUFFICES ASSUME \A a \in S : a + 1 \in T, NEW y \in old
               PROVE  \E x \in new : younger[x] = y
    BY <1>4 DEF Surjection
  <2>1. y[1] \in S /\ y[2] \in 1..accepted[ip][y[1]] /\ y = <<y[1], y[2]>>
    BY Members DEF old
  <2>2. y[1] \in Nat /\ y[1] + 1 \in T /\ y[1] + 1 \in Recent \ {0} /\ y[1] + 1 - 1 = y[1]
    BY <2>1 DEF Recent
  <2>3. y[2] \in 1..accepted'[ip][y[1] + 1]
    BY <1>1, <2>1, <2>2
  <2>4. <<y[1] + 1, y[2]>> \in new
    BY <2>2, <2>3, MembersNext DEF new
  <2>5. younger[<<y[1] + 1, y[2]>>] = y
    BY <2>1, <2>2, <2>4
  <2>6. QED BY <2>4, <2>5
<1> HIDE DEF younger
<1>8. /\ IsFiniteSet(new) /\ Cardinality(new) <= Cardinality(old)
      /\ Cardinality(new) = Cardinality(old) <=> younger \in Surjection(new, old)
  BY <1>3, <1>6, FS_Injection
<1>9. QED BY <1>7, <1>8 DEF old, new

(***************************************************************************)
(* An accepted request is one more at age 0, and nothing else changes.     *)
(***************************************************************************)
LEMMA OneMore ==
    ASSUME TypeOK, NEW ip \in Ips, Accept(ip), IsFiniteSet(AcceptedAt(ip, Recent)),
           NEW S \in SUBSET Recent
    PROVE  /\ IsFiniteSet(AcceptedAt(ip, S)')
           /\ 0 \notin S => AcceptedAt(ip, S)' = AcceptedAt(ip, S)
           /\ 0 \in S => Cardinality(AcceptedAt(ip, S)')
                           = Cardinality(AcceptedAt(ip, S)) + 1
<1> USE LimiterAssumption
<1> DEFINE k == accepted[ip][0] + 1
           x == <<0, k>>
<1>1. /\ accepted'[ip][0] = k /\ k \in Nat
      /\ \A a \in Recent \ {0} : accepted'[ip][a] = accepted[ip][a]
  BY DEF Accept, TypeOK, Recent
<1>2. IsFiniteSet(AcceptedAt(ip, S))
  BY FewerAges
<1>3. CASE 0 \notin S
  <2>1. AcceptedAt(ip, S)' = AcceptedAt(ip, S)
    BY <1>1, <1>3 DEF AcceptedAt
  <2>2. QED BY <1>2, <1>3, <2>1
<1>4. CASE 0 \in S
  <2>1. x \notin AcceptedAt(ip, S)
    <3>1. accepted[ip][0] \in Nat /\ k \notin 1..accepted[ip][0]
      BY DEF TypeOK, Recent
    <3>2. x \in AcceptedAt(ip, S) => x[2] \in 1..accepted[ip][x[1]]
      BY Members
    <3>3. x[1] = 0 /\ x[2] = k
      OBVIOUS
    <3> HIDE DEF x, k
    <3>4. QED BY <3>1, <3>2, <3>3
  <2>2. AcceptedAt(ip, S)' = AcceptedAt(ip, S) \cup {x}
    <3>1. ASSUME NEW y \in AcceptedAt(ip, S)'
          PROVE  y \in AcceptedAt(ip, S) \cup {x}
      <4>1. y[1] \in S /\ y[2] \in 1..accepted'[ip][y[1]] /\ y = <<y[1], y[2]>>
        BY MembersNext
      <4>2. CASE y[1] # 0
        BY <1>1, <4>1, <4>2, Members
      <4>3. CASE y[1] = 0 /\ y[2] # k
        <5>1. y[2] \in 1..accepted[ip][0]
          BY <1>1, <4>1, <4>3 DEF TypeOK, Recent
        <5>2. QED BY <4>1, <4>3, <5>1, Members
      <4>4. CASE y[1] = 0 /\ y[2] = k
        BY <4>1, <4>4
      <4>5. QED BY <4>2, <4>3, <4>4
    <3>2. ASSUME NEW y \in AcceptedAt(ip, S)
          PROVE  y \in AcceptedAt(ip, S)'
      <4>1. y[1] \in S /\ y[2] \in 1..accepted[ip][y[1]] /\ y = <<y[1], y[2]>>
        BY Members
      <4>2. y[2] \in 1..accepted'[ip][y[1]]
        <5>1. y[1] \in Recent
          BY <4>1
        <5>2. CASE y[1] = 0
          <6>1. accepted[ip][0] \in Nat
            BY DEF TypeOK, Recent
          <6>2. QED BY <1>1, <4>1, <5>2, <6>1
        <5>3. CASE y[1] # 0
          BY <1>1, <4>1, <5>1, <5>3
        <5>4. QED BY <5>2, <5>3
      <4>3. QED BY <4>1, <4>2, MembersNext
    <3>3. x \in AcceptedAt(ip, S)'
      BY <1>1, <1>4, MembersNext DEF TypeOK, Recent
    <3>4. QED BY <3>1, <3>2, <3>3
  <2>3. QED BY <1>2, <1>4, <2>1, <2>2, FS_AddElement
<1>5. QED BY <1>3, <1>4

-----------------------------------------------------------------------------
(***************************************************************************)
(* The invariant is inductive.                                             *)
(***************************************************************************)
AddressOK(ip) ==
    /\ IsFiniteSet(AcceptedAt(ip, Recent))
    /\ IF ip \in DOMAIN entries THEN EntryOK(ip) ELSE AcceptedAt(ip, Recent) = {}

LEMMA LimInvSplit == LimInv <=> TypeOK /\ \A ip \in Ips : AddressOK(ip)
  BY DEF LimInv, AddressOK

LEMMA InitKeeps == Init => LimInv
<1> SUFFICES ASSUME Init PROVE LimInv
  OBVIOUS
<1>1. TypeOK
  BY DEF Init, TypeOK
<1>2. ASSUME NEW ip \in Ips
      PROVE  AcceptedAt(ip, Recent) = {}
  <2>1. \A a \in Recent : accepted[ip][a] = 0
    BY DEF Init
  <2>2. QED BY <2>1 DEF AcceptedAt
<1>3. QED BY <1>1, <1>2, FS_EmptySet DEF LimInv, Init

LEMMA TypeKeeps ==
    ASSUME TypeOK, Next
    PROVE  TypeOK'
<1> USE LimiterAssumption
<1>1. CASE Tick
  <2>1. ASSUME NEW ip \in DOMAIN entries
        PROVE  entries'[ip] \in WindowEntry
    <3>1. entries[ip] \in WindowEntry
      BY DEF TypeOK
    <3>2. entries'[ip] = [count |-> entries[ip].count,
                          age |-> IF entries[ip].age < Window
                                  THEN entries[ip].age + 1 ELSE Window]
      BY <1>1, <3>1 DEF Tick, WindowEntry
    <3>3. QED BY <3>1, <3>2 DEF WindowEntry
  <2>2. entries' \in [DOMAIN entries' -> WindowEntry] /\ DOMAIN entries' \subseteq Ips
    BY <1>1, <2>1 DEF Tick, TypeOK
  <2>3. ASSUME NEW ip \in Ips, NEW a \in Recent
        PROVE  (IF a = 0 THEN 0 ELSE accepted[ip][a - 1]) \in Nat
    <3>1. a = 0 \/ a - 1 \in Recent
      BY DEF Recent
    <3>2. \A b \in Recent : accepted[ip][b] \in Nat
      BY DEF TypeOK
    <3>3. QED BY <3>1, <3>2
  <2>4. accepted' \in [Ips -> [Recent -> Nat]]
    BY <1>1, <2>3 DEF Tick
  <2>5. QED BY <2>2, <2>4 DEF TypeOK
<1>2. ASSUME NEW ip \in Ips, Counted(ip),
             accepted' \in [Ips -> [Recent -> Nat]]
      PROVE  TypeOK'
  <2>1. Current(ip).count \in Nat /\ Current(ip).age \in 0..Window
    BY DEF Current, TypeOK, WindowEntry
  <2>2. [count |-> Count(ip), age |-> Current(ip).age] \in WindowEntry
    BY <1>2, <2>1 DEF Counted, Count, WindowEntry
  <2>3. QED BY <1>2, <2>2 DEF Counted, TypeOK
<1>3. ASSUME NEW ip \in Ips, Accept(ip)
      PROVE  accepted' \in [Ips -> [Recent -> Nat]]
  BY <1>3 DEF Accept, TypeOK, Recent
<1>4. ASSUME NEW ip \in Ips, Refuse(ip)
      PROVE  accepted' \in [Ips -> [Recent -> Nat]]
  BY <1>4 DEF Refuse, TypeOK
<1>5. \A header \in Ips \cup {NoHeader} : ExtractIp(header) \in Ips
  BY DEF ExtractIp
<1>6. QED
  BY <1>1, <1>2, <1>3, <1>4, <1>5 DEF Next, RateLimit, Accept, Refuse

LEMMA TickKeeps ==
    ASSUME TypeOK, Tick, NEW ip \in Ips, AddressOK(ip)
    PROVE  AddressOK(ip)'
<1> USE LimiterAssumption
<1>1. IsFiniteSet(AcceptedAt(ip, Recent))
  BY DEF AddressOK
<1>2. \A b \in Recent \ {0} : b - 1 \in Recent
  BY DEF Recent
<1>3. /\ IsFiniteSet(AcceptedAt(ip, Recent)')
      /\ Cardinality(AcceptedAt(ip, Recent)') <= Cardinality(AcceptedAt(ip, Recent))
  BY <1>1, <1>2, OneTickOlder
<1>4. AcceptedAt(ip, {0})' = {}
  BY DEF Tick, AcceptedAt, Recent
<1>5. CASE ip \notin DOMAIN entries
  <2>1. AcceptedAt(ip, Recent) = {} /\ ip \notin DOMAIN entries'
    BY <1>5 DEF AddressOK, Tick
  <2>2. Cardinality(AcceptedAt(ip, Recent)') = 0
    BY <1>3, <2>1, FS_EmptySet, FS_CardinalityType
  <2>3. AcceptedAt(ip, Recent)' = {}
    BY <1>3, <2>2, FS_EmptySet
  <2>4. QED BY <1>3, <2>1, <2>3 DEF AddressOK
<1>6. CASE ip \in DOMAIN entries
  <2>1. entries[ip] \in WindowEntry
    BY <1>6 DEF TypeOK
  <2>2. PICK a \in 0..Window, n \in 0..MaxCount : entries[ip] = [count |-> n, age |-> a]
    BY <2>1 DEF WindowEntry
  <2>3. /\ ip \in DOMAIN entries' /\ entries'[ip].count = n
        /\ entries'[ip].age = IF a < Window THEN a + 1 ELSE Window
    BY <1>6, <2>2 DEF Tick
  <2>4. IF a < Window
        THEN /\ Cardinality(AcceptedAt(ip, 0..a)) = IF n <= MaxRequests THEN n ELSE MaxRequests
             /\ Cardinality(AcceptedAt(ip, Older(a))) <= MaxRequests
        ELSE Cardinality(AcceptedAt(ip, Recent)) <= MaxRequests
    BY <1>6, <2>2 DEF AddressOK, EntryOK
  <2>5. CASE a + 1 < Window
    <3>1. 0..a \in SUBSET Recent /\ 0..(a + 1) \in SUBSET Recent
      BY <2>5 DEF Recent
    <3>2. /\ \A b \in (0..(a + 1)) \ {0} : b - 1 \in 0..a
          /\ \A b \in 0..a : b + 1 \in 0..(a + 1)
      OBVIOUS
    <3>3. Cardinality(AcceptedAt(ip, 0..(a + 1))') = Cardinality(AcceptedAt(ip, 0..a))
      BY <1>1, <3>1, <3>2, OneTickOlder
    <3>4. Older(a) \in SUBSET Recent /\ Older(a + 1) \in SUBSET Recent
      BY DEF Older, Recent
    <3>5. \A b \in Older(a + 1) \ {0} : b - 1 \in Older(a)
      BY DEF Older
    <3>6. /\ Cardinality(AcceptedAt(ip, Older(a + 1))') <= Cardinality(AcceptedAt(ip, Older(a)))
          /\ IsFiniteSet(AcceptedAt(ip, Older(a + 1))')
      BY <1>1, <3>4, <3>5, OneTickOlder
    <3>7. Cardinality(AcceptedAt(ip, Older(a + 1))') <= MaxRequests
      <4>1. /\ Cardinality(AcceptedAt(ip, Older(a + 1))') \in Nat
            /\ Cardinality(AcceptedAt(ip, Older(a))) \in Nat
        BY <1>1, <3>4, <3>6, FS_CardinalityType, FewerAges
      <4>2. QED BY <2>4, <2>5, <3>6, <4>1
    <3>8. EntryOK(ip)'
      BY <2>3, <2>4, <2>5, <3>3, <3>7 DEF EntryOK
    <3>9. QED BY <1>3, <2>3, <3>8 DEF AddressOK
  <2>6. CASE ~(a + 1 < Window)
    <3>1. Cardinality(AcceptedAt(ip, Recent)') <= MaxRequests
      <4>1. a < Window => Recent = 0..a
        BY <2>6 DEF Recent
      <4>2. /\ Cardinality(AcceptedAt(ip, Recent)') \in Nat
            /\ Cardinality(AcceptedAt(ip, Recent)) \in Nat
        BY <1>1, <1>3, FS_CardinalityType
      <4>3. Cardinality(AcceptedAt(ip, Recent)) <= MaxRequests
        <5>1. CASE a < Window
          BY <2>4, <4>1, <5>1
        <5>2. CASE ~(a < Window)
          BY <2>4, <5>2
        <5>3. QED BY <5>1, <5>2
      <4>4. QED BY <1>3, <4>2, <4>3
    <3>2. entries'[ip].age = Window
      BY <2>3, <2>6
    <3>3. EntryOK(ip)'
      BY <1>4, <3>1, <3>2 DEF EntryOK
    <3>4. QED BY <1>3, <2>3, <3>3 DEF AddressOK
  <2>7. QED BY <2>5, <2>6
<1>7. QED BY <1>5, <1>6

\* What a request does to the entry of its address.
LEMMA EntryAfter ==
    ASSUME TypeOK, NEW ip \in Ips, Counted(ip)
    PROVE  /\ ip \in DOMAIN entries'
           /\ entries'[ip].count = Count(ip) /\ entries'[ip].age = Current(ip).age
           /\ \A i \in Ips \ {ip} : /\ i \in DOMAIN entries <=> i \in DOMAIN entries'
                                    /\ i \in DOMAIN entries => entries'[i] = entries[i]
  BY DEF Counted

\* The other addresses keep their requests and their entry.
LEMMA OthersKeep ==
    ASSUME TypeOK, NEW ip \in Ips, Counted(ip), NEW other \in Ips \ {ip},
           accepted'[other] = accepted[other], AddressOK(other)
    PROVE  AddressOK(other)'
<1>1. /\ other \in DOMAIN entries <=> other \in DOMAIN entries'
      /\ other \in DOMAIN entries => entries'[other] = entries[other]
  BY EntryAfter
<1>2. \A S : AcceptedAt(other, S)' = AcceptedAt(other, S)
  BY DEF AcceptedAt
<1>3. CASE other \in DOMAIN entries
  <2>1. EntryOK(other)' <=> EntryOK(other)
    BY <1>1, <1>2, <1>3 DEF EntryOK, AcceptedAt
  <2>2. QED BY <1>1, <1>2, <1>3, <2>1 DEF AddressOK, AcceptedAt
<1>4. CASE other \notin DOMAIN entries
  BY <1>1, <1>2, <1>4 DEF AddressOK, AcceptedAt
<1>5. QED BY <1>3, <1>4

(***************************************************************************)
(* An address whose window is still open, and one whose window starts with *)
(* this request: what the ages of the window and the older ones hold.      *)
(***************************************************************************)
WindowIs(ip, a, n) ==
    /\ Current(ip) = [count |-> n, age |-> a]
    /\ Cardinality(AcceptedAt(ip, 0..a)) = IF n <= MaxRequests THEN n ELSE MaxRequests
    /\ Cardinality(AcceptedAt(ip, Older(a))) <= MaxRequests

LEMMA WindowOf ==
    ASSUME TypeOK, NEW ip \in Ips, AddressOK(ip)
    PROVE  \E a \in Recent, n \in Nat : WindowIs(ip, a, n)
<1> USE LimiterAssumption
<1>1. CASE ip \in DOMAIN entries /\ entries[ip].age # Window
  <2>1. entries[ip] \in WindowEntry
    BY <1>1 DEF TypeOK
  <2>2. PICK a \in 0..Window, n \in 0..MaxCount : entries[ip] = [count |-> n, age |-> a]
    BY <2>1 DEF WindowEntry
  <2>3. a < Window /\ a \in Recent /\ n \in Nat
    BY <1>1, <2>2 DEF Recent
  <2>4. /\ Cardinality(AcceptedAt(ip, 0..a)) = IF n <= MaxRequests THEN n ELSE MaxRequests
        /\ Cardinality(AcceptedAt(ip, Older(a))) <= MaxRequests
    BY <1>1, <2>2, <2>3 DEF AddressOK, EntryOK
  <2>5. Current(ip) = [count |-> n, age |-> a]
    BY <1>1, <2>2 DEF Current
  <2>6. QED BY <2>3, <2>4, <2>5 DEF WindowIs
<1>2. CASE ~(ip \in DOMAIN entries /\ entries[ip].age # Window)
  <2>1. Current(ip) = [count |-> 0, age |-> 0]
    BY <1>2 DEF Current
  <2>2. /\ AcceptedAt(ip, 0..0) = {}
        /\ IsFiniteSet(AcceptedAt(ip, Recent))
        /\ Cardinality(AcceptedAt(ip, Recent)) <= MaxRequests
    <3>1. 0..0 = {0} /\ 0 \in Recent
      BY DEF Recent
    <3>2. CASE ip \in DOMAIN entries
      BY <1>2, <3>1, <3>2 DEF AddressOK, EntryOK
    <3>3. CASE ip \notin DOMAIN entries
      <4>1. AcceptedAt(ip, Recent) = {}
        BY <3>3 DEF AddressOK
      <4>2. AcceptedAt(ip, {0}) = {}
        BY <3>1, <4>1 DEF AcceptedAt
      <4>3. QED BY <3>1, <4>1, <4>2, FS_EmptySet
    <3>4. QED BY <3>2, <3>3
  <2>3. Cardinality(AcceptedAt(ip, Older(0))) <= MaxRequests
    <3>1. Older(0) \in SUBSET Recent /\ Recent \in SUBSET Recent
      BY DEF Older, Recent
    <3>2. /\ Cardinality(AcceptedAt(ip, Older(0))) <= Cardinality(AcceptedAt(ip, Recent))
          /\ Cardinality(AcceptedAt(ip, Older(0))) \in Nat
          /\ Cardinality(AcceptedAt(ip, Recent)) \in Nat
      BY <2>2, <3>1, FewerAges
    <3>3. QED BY <2>2, <3>2
  <2>4. Cardinality(AcceptedAt(ip, 0..0)) = 0
    BY <2>2, FS_EmptySet
  <2>5. 0 \in Recent
    BY DEF Recent
  <2>6. WindowIs(ip, 0, 0)
    BY <2>1, <2>3, <2>4 DEF WindowIs
  <2>7. QED BY <2>5, <2>6
<1>3. QED BY <1>1, <1>2

LEMMA AcceptKeeps ==
    ASSUME TypeOK, NEW ip \in Ips, Accept(ip), NEW other \in Ips,
           \A i \in Ips : AddressOK(i)
    PROVE  AddressOK(other)'
<1> USE LimiterAssumption
<1>1. CASE other # ip
  BY <1>1, OthersKeep DEF Accept, TypeOK
<1>2. CASE other = ip
  <2>1. IsFiniteSet(AcceptedAt(ip, Recent)) /\ Recent \in SUBSET Recent
    BY DEF AddressOK
  <2>2. IsFiniteSet(AcceptedAt(ip, Recent)')
    BY <2>1, OneMore
  <2>3. PICK a \in Recent, n \in Nat : WindowIs(ip, a, n)
    BY WindowOf
  <2>4. n + 1 <= MaxRequests
    BY <2>3 DEF Accept, Allowed, Count, WindowIs
  <2>5. ip \in DOMAIN entries' /\ entries'[ip].count = n + 1 /\ entries'[ip].age = a
    BY <2>3, EntryAfter DEF Accept, Count, WindowIs
  <2>6. /\ 0..a \in SUBSET Recent /\ 0 \in 0..a /\ a < Window
        /\ Older(a) \in SUBSET Recent /\ 0 \notin Older(a)
    BY DEF Older, Recent
  <2>7. Cardinality(AcceptedAt(ip, 0..a)') = n + 1
    <3>1. Cardinality(AcceptedAt(ip, 0..a)') = Cardinality(AcceptedAt(ip, 0..a)) + 1
      BY <2>1, <2>6, OneMore
    <3>2. QED BY <2>3, <2>4, <3>1 DEF WindowIs
  <2>8. Cardinality(AcceptedAt(ip, Older(a))') <= MaxRequests
    <3>1. AcceptedAt(ip, Older(a))' = AcceptedAt(ip, Older(a))
      BY <2>1, <2>6, OneMore
    <3>2. QED BY <2>3, <3>1 DEF WindowIs
  <2>9. EntryOK(ip)'
    BY <2>4, <2>5, <2>6, <2>7, <2>8 DEF EntryOK
  <2>10. QED BY <1>2, <2>2, <2>5, <2>9 DEF AddressOK
<1>3. QED BY <1>1, <1>2

LEMMA RefuseKeeps ==
    ASSUME TypeOK, NEW ip \in Ips, Refuse(ip), NEW other \in Ips,
           \A i \in Ips : AddressOK(i)
    PROVE  AddressOK(other)'
<1> USE LimiterAssumption
<1>1. CASE other # ip
  BY <1>1, OthersKeep DEF Refuse
<1>2. CASE other = ip
  <2>1. IsFiniteSet(AcceptedAt(ip, Recent)')
    BY DEF AddressOK, Refuse, AcceptedAt
  <2>2. PICK a \in Recent, n \in Nat : WindowIs(ip, a, n)
    BY WindowOf
  <2>3. ~(n + 1 <= MaxRequests)
    BY <2>2 DEF Refuse, Allowed, Count, WindowIs
  <2>4. ip \in DOMAIN entries' /\ entries'[ip].count = n + 1 /\ entries'[ip].age = a
    BY <2>2, EntryAfter DEF Refuse, Count, WindowIs
  <2>5. a < Window /\ (IF n <= MaxRequests THEN n ELSE MaxRequests) = MaxRequests
    BY <2>3 DEF Recent
  <2>6. /\ Cardinality(AcceptedAt(ip, 0..a)') = MaxRequests
        /\ Cardinality(AcceptedAt(ip, Older(a))') <= MaxRequests
    BY <2>2, <2>5 DEF Refuse, AcceptedAt, WindowIs
  <2>7. EntryOK(ip)'
    BY <2>3, <2>4, <2>5, <2>6 DEF EntryOK
  <2>8. QED BY <1>2, <2>1, <2>4, <2>7 DEF AddressOK
<1>3. QED BY <1>1, <1>2

LEMMA StepKeeps == LimInv /\ [Next]_vars => LimInv'
<1> USE LimiterAssumption
<1> SUFFICES ASSUME LimInv, [Next]_vars PROVE LimInv'
  OBVIOUS
<1>1. TypeOK /\ \A ip \in Ips : AddressOK(ip)
  BY LimInvSplit
<1>2. CASE UNCHANGED vars
  <2>1. entries' = entries /\ accepted' = accepted
    BY <1>2 DEF vars
  <2>2. TypeOK'
    BY <1>1, <2>1 DEF TypeOK
  <2>3. ASSUME NEW ip \in Ips PROVE AddressOK(ip)'
    <3>1. AddressOK(ip)
      BY <1>1
    <3>2. EntryOK(ip) => EntryOK(ip)'
      BY <2>1 DEF EntryOK, AcceptedAt
    <3>3. QED BY <2>1, <3>1, <3>2 DEF AddressOK, AcceptedAt
  <2>4. QED BY <2>2, <2>3 DEF LimInv, AddressOK
<1>3. CASE Next
  <2>1. TypeOK'
    BY <1>1, <1>3, TypeKeeps
  <2>2. \A header \in Ips \cup {NoHeader} : ExtractIp(header) \in Ips
    BY DEF ExtractIp
  <2>3. ASSUME NEW ip \in Ips PROVE AddressOK(ip)'
    <3>1. CASE Tick
      BY <1>1, <3>1, TickKeeps
    <3>2. ASSUME NEW from \in Ips, Accept(from) PROVE AddressOK(ip)'
      BY <1>1, <3>2, AcceptKeeps
    <3>3. ASSUME NEW from \in Ips, Refuse(from) PROVE AddressOK(ip)'
      BY <1>1, <3>3, RefuseKeeps
    <3>4. QED BY <1>3, <2>2, <3>1, <3>2, <3>3 DEF Next, RateLimit
  <2>4. QED BY <2>1, <2>3 DEF LimInv, AddressOK
<1>4. QED BY <1>2, <1>3

(***************************************************************************)
(* Every entry's counter counts the requests accepted in its window, up to *)
(* the limit, and those accepted before it fit the limit as well           *)
(* (rate_limit.rs, check_rate_limit).                                      *)
(***************************************************************************)
THEOREM LimiterInvariant == Spec => []LimInv
<1>1. Init => LimInv
  BY InitKeeps
<1>2. LimInv /\ [Next]_vars => LimInv'
  BY StepKeeps
<1>3. QED BY <1>1, <1>2, PTL DEF Spec

-----------------------------------------------------------------------------
LEMMA InvHolds == LimInv => LimitHolds
<1> USE LimiterAssumption
<1> SUFFICES ASSUME LimInv PROVE LimitHolds
  OBVIOUS
<1>1. TypeOK /\ \A ip \in Ips : AddressOK(ip)
  BY LimInvSplit
<1>2. WindowBound
  <2>1. SUFFICES ASSUME NEW ip \in DOMAIN entries, entries[ip].age < Window
                 PROVE  AcceptedWithin(ip, entries[ip].age) <= MaxRequests
    BY DEF WindowBound
  <2>2. ip \in Ips /\ entries[ip] \in WindowEntry
    BY <1>1 DEF TypeOK
  <2>3. entries[ip].count \in Nat
    BY <2>2 DEF WindowEntry
  <2>4. AcceptedWithin(ip, entries[ip].age)
          = IF entries[ip].count <= MaxRequests THEN entries[ip].count ELSE MaxRequests
    BY <1>1, <2>1, <2>2 DEF AddressOK, EntryOK, AcceptedWithin
  <2>5. QED BY <2>3, <2>4
<1>3. SpanBound
  <2>1. SUFFICES ASSUME NEW ip \in Ips
                 PROVE  Cardinality(AcceptedAt(ip, Recent)) <= 2 * MaxRequests
    BY DEF SpanBound, AcceptedWithin, Recent
  <2>2. PICK a \in Recent, n \in Nat : WindowIs(ip, a, n)
    BY <1>1, WindowOf
  <2>3. /\ 0..a \in SUBSET Recent /\ Older(a) \in SUBSET Recent
        /\ (0..a) \cup Older(a) = Recent /\ (0..a) \cap Older(a) = {}
    BY DEF Older, Recent
  <2>4. /\ AcceptedAt(ip, Recent) = AcceptedAt(ip, 0..a) \cup AcceptedAt(ip, Older(a))
        /\ AcceptedAt(ip, 0..a) \cap AcceptedAt(ip, Older(a)) = {}
    BY <2>3 DEF AcceptedAt
  <2>5. /\ IsFiniteSet(AcceptedAt(ip, 0..a)) /\ IsFiniteSet(AcceptedAt(ip, Older(a)))
    <3>1. IsFiniteSet(AcceptedAt(ip, Recent))
      BY <1>1 DEF AddressOK
    <3>2. QED BY <2>3, <3>1, FewerAges
  <2>6. /\ Cardinality(AcceptedAt(ip, 0..a)) \in Nat
        /\ Cardinality(AcceptedAt(ip, Older(a))) \in Nat
        /\ Cardinality(AcceptedAt(ip, Recent))
             = Cardinality(AcceptedAt(ip, 0..a)) + Cardinality(AcceptedAt(ip, Older(a)))
    <3> DEFINE A == AcceptedAt(ip, 0..a)
               B == AcceptedAt(ip, Older(a))
    <3>1. IsFiniteSet(A) /\ IsFiniteSet(B) /\ A \cap B = {}
      BY <2>4, <2>5
    <3>2. AcceptedAt(ip, Recent) = A \cup B
      BY <2>4
    <3> HIDE DEF A, B
    <3>3. Cardinality(A) \in Nat /\ Cardinality(B) \in Nat /\ Cardinality(A \cap B) = 0
      BY <3>1, FS_CardinalityType, FS_EmptySet
    <3>4. Cardinality(A \cup B) = Cardinality(A) + Cardinality(B) - Cardinality(A \cap B)
      BY <3>1, FS_Union
    <3>5. Cardinality(A \cup B) = Cardinality(A) + Cardinality(B)
      BY <3>3, <3>4
    <3>6. QED BY <3>2, <3>3, <3>5 DEF A, B
  <2>7. QED BY <2>2, <2>6 DEF WindowIs
<1>4. QED BY <1>2, <1>3 DEF LimitHolds

LEMMA RefusalAtLimit ==
    ASSUME LimInv, NEW ip \in Ips, Refuse(ip)
    PROVE  AcceptedWithin(ip, Window - 1) >= MaxRequests
<1> USE LimiterAssumption
<1>1. TypeOK /\ AddressOK(ip)
  BY LimInvSplit
<1>2. PICK a \in Recent, n \in Nat : WindowIs(ip, a, n)
  BY <1>1, WindowOf
<1>3. ~(n + 1 <= MaxRequests)
  BY <1>2 DEF Refuse, Allowed, Count, WindowIs
<1>4. Cardinality(AcceptedAt(ip, 0..a)) = MaxRequests
  BY <1>2, <1>3 DEF WindowIs
<1>5. 0..a \in SUBSET Recent /\ Recent \in SUBSET Recent
  BY DEF Recent
<1>6. IsFiniteSet(AcceptedAt(ip, Recent))
  BY <1>1 DEF AddressOK
<1>7. /\ Cardinality(AcceptedAt(ip, 0..a)) <= Cardinality(AcceptedAt(ip, Recent))
      /\ Cardinality(AcceptedAt(ip, Recent)) \in Nat
  BY <1>5, <1>6, FewerAges
<1>8. QED BY <1>4, <1>7 DEF AcceptedWithin, Recent

(***************************************************************************)
(* An address has at most max_requests accepted in its window, and at most *)
(* twice as many in any span of one window length (rate_limit.rs, the doc  *)
(* comment of RateLimiter).                                                *)
(***************************************************************************)
THEOREM LimiterBounds == Spec => []LimitHolds
<1>1. LimInv => LimitHolds
  BY InvHolds
<1>2. QED BY <1>1, LimiterInvariant, PTL

(***************************************************************************)
(* A refused address has had its full number of requests accepted less     *)
(* than a window ago: the requests it is refused do not keep it out.       *)
(***************************************************************************)
THEOREM LimiterRefusals == Spec => RefusedOnlyAtLimit
<1> DEFINE Deserved == \A ip \in Ips :
                         Refuse(ip) => AcceptedWithin(ip, Window - 1) >= MaxRequests
<1>1. LimInv => Deserved
  BY RefusalAtLimit
<1>2. LimInv /\ [Next]_vars => [Deserved]_vars
  BY <1>1
<1> HIDE DEF Deserved
<1>3. Spec => [][Deserved]_vars
  BY <1>2, LimiterInvariant, PTL DEF Spec
<1>4. QED BY <1>3 DEF RefusedOnlyAtLimit, Deserved

-----------------------------------------------------------------------------
(***************************************************************************)
(* TIMESTAMP BUCKETS                                                       *)
(*                                                                         *)
(* Value is defined by recursion, as a choice among the functions that     *)
(* satisfy its equation.  That there is one is shown for the least length  *)
(* that would lack it: < is well founded on the naturals.                  *)
(***************************************************************************)

\* The loop that reads a numeral, up to its first n characters.
Reads(text, n, v) ==
    v = [i \in 0..n |-> IF i = 0 THEN 0 ELSE 10 * v[i - 1] + FigureOf(text[i])]

LEMMA ReadsStep ==
    ASSUME NEW text, NEW n \in Nat, NEW v, Reads(text, n, v)
    PROVE  /\ v[0] = 0
           /\ \A i \in 1..n : v[i] = 10 * v[i - 1] + FigureOf(text[i])
<1>1. 0 \in 0..n /\ \A i \in 1..n : i \in 0..n /\ i # 0
  OBVIOUS
<1>2. QED BY <1>1 DEF Reads

LEMMA ReadsExists ==
    ASSUME NEW text
    PROVE  \A n \in Nat : \E v : Reads(text, n, v)
<1> DEFINE W == {n \in Nat : ~ \E v : Reads(text, n, v)}
           Less == OpToRel(<, Nat)
<1>1. SUFFICES ASSUME W # {} PROVE FALSE
  OBVIOUS
<1>2. PICK n \in W : \A k \in W : <<k, n>> \notin Less
  <2>1. W \subseteq Nat
    OBVIOUS
  <2> HIDE DEF W
  <2> QED BY <1>1, <2>1, NatLessThanWellFounded, WFMin
<1>3. n \in Nat /\ \A k \in W : ~(k < n)
  BY <1>2 DEF OpToRel
<1>4. n # 0
  <2>1. Reads(text, 0, [i \in 0..0 |-> 0])
    BY DEF Reads
  <2>2. QED BY <1>2, <2>1
<1>5. n - 1 \in Nat /\ n - 1 \notin W
  BY <1>3, <1>4
<1>6. PICK v : Reads(text, n - 1, v)
  BY <1>5
<1> DEFINE w == [i \in 0..n |-> IF i = n THEN 10 * v[n - 1] + FigureOf(text[n]) ELSE v[i]]
<1>7. w = [i \in 0..n |-> IF i = 0 THEN 0 ELSE 10 * w[i - 1] + FigureOf(text[i])]
  <2> SUFFICES ASSUME NEW i \in 0..n
               PROVE  w[i] = IF i = 0 THEN 0 ELSE 10 * w[i - 1] + FigureOf(text[i])
    OBVIOUS
  <2>1. CASE i = n
    BY <1>3, <1>4, <2>1
  <2>2. CASE i # n
    <3>1. i \in 0..(n - 1) /\ (i # 0 => i - 1 \in 0..(n - 1))
      BY <1>3, <2>2
    <3>2. v[i] = IF i = 0 THEN 0 ELSE 10 * v[i - 1] + FigureOf(text[i])
      BY <3>1, <1>6 DEF Reads
    <3>3. QED BY <1>3, <2>2, <3>1, <3>2
  <2>3. QED BY <2>1, <2>2
<1>8. QED BY <1>2, <1>7 DEF Reads

LEMMA ValueReads ==
    ASSUME NEW text \in Seq(Characters)
    PROVE  \E v : Reads(text, Len(text), v) /\ Value(text) = v[Len(text)]
<1> DEFINE v == CHOOSE v : Reads(text, Len(text), v)
<1>1. Value(text) = v[Len(text)]
  BY DEF Value, Reads
<1>2. Len(text) \in Nat
  OBVIOUS
<1>3. \E w : Reads(text, Len(text), w)
  BY <1>2, ReadsExists
<1>4. Reads(text, Len(text), v)
  BY <1>3
<1>5. QED BY <1>1, <1>4

LEMMA FiguresRead ==
    /\ \A n \in 0..9 : DigitChars[n + 1] \in Figures /\ FigureOf(DigitChars[n + 1]) = n
    /\ \A ch \in Figures : FigureOf(ch) \in 0..9 /\ ch = DigitChars[FigureOf(ch) + 1]
    /\ "-" \notin Figures /\ "+" \notin Figures
<1>1. \A n \in 0..9 : DigitChars[n + 1] \in Figures
  BY DEF Figures
<1>2. \A m, n \in 0..9 : DigitChars[m + 1] = DigitChars[n + 1] => m = n
  BY DEF DigitChars
<1>3. \A n \in 0..9 : FigureOf(DigitChars[n + 1]) = n
  BY <1>2 DEF FigureOf
<1>4. ASSUME NEW ch \in Figures PROVE \E n \in 0..9 : ch = DigitChars[n + 1]
  <2>1. PICK i \in 1..10 : ch = DigitChars[i]
    BY DEF Figures
  <2>2. i - 1 \in 0..9 /\ i - 1 + 1 = i
    OBVIOUS
  <2>3. QED BY <2>1, <2>2
<1>5. "-" \notin Figures /\ "+" \notin Figures
  BY DEF Figures, DigitChars
<1>6. QED BY <1>1, <1>3, <1>4, <1>5

\* Numerals of up to four figures.
Fig(text, i) == FigureOf(text[i])

LEMMA ShortValues ==
    ASSUME NEW text \in Seq(Characters), IsNumeral(text)
    PROVE  /\ \A i \in 1..Len(text) :
                Fig(text, i) \in 0..9 /\ text[i] = DigitChars[Fig(text, i) + 1]
           /\ Len(text) = 1 => Value(text) = Fig(text, 1)
           /\ Len(text) = 2 => Value(text) = 10 * Fig(text, 1) + Fig(text, 2)
           /\ Len(text) = 3 =>
                Value(text) = 100 * Fig(text, 1) + 10 * Fig(text, 2) + Fig(text, 3)
           /\ Len(text) = 4 =>
                Value(text) = 1000 * Fig(text, 1) + 100 * Fig(text, 2)
                                + 10 * Fig(text, 3) + Fig(text, 4)
<1> DEFINE d(i) == Fig(text, i)
<1>1. \A i \in 1..Len(text) : d(i) \in 0..9 /\ text[i] = DigitChars[d(i) + 1]
  BY FiguresRead DEF IsNumeral, Chars, Fig
<1>2. PICK v : Reads(text, Len(text), v) /\ Value(text) = v[Len(text)]
  BY ValueReads
<1> HIDE DEF d
<1>3. v[0] = 0 /\ \A i \in 1..Len(text) : v[i] = 10 * v[i - 1] + d(i)
  <2>1. Len(text) \in Nat
    OBVIOUS
  <2>2. QED BY <1>2, <2>1, ReadsStep DEF d, Fig
<1>4. /\ Len(text) >= 1 => v[1] = 10 * v[0] + d(1) /\ d(1) \in Int
      /\ Len(text) >= 2 => v[2] = 10 * v[1] + d(2) /\ d(2) \in Int
      /\ Len(text) >= 3 => v[3] = 10 * v[2] + d(3) /\ d(3) \in Int
      /\ Len(text) >= 4 => v[4] = 10 * v[3] + d(4) /\ d(4) \in Int
  <2>1. ASSUME NEW i \in 1..4, Len(text) >= i
        PROVE  v[i] = 10 * v[i - 1] + d(i) /\ d(i) \in Int
    BY <1>1, <1>3, <2>1
  <2>2. QED BY <2>1
<1>5. v[0] = 0
  BY <1>3
<1> DEFINE n == Len(text)
           value == v[n]
<1>6. Value(text) = value
  BY <1>2
<1>7. /\ n = 1 => value = d(1)
      /\ n = 2 => value = 10 * d(1) + d(2)
      /\ n = 3 => value = 100 * d(1) + 10 * d(2) + d(3)
      /\ n = 4 => value = 1000 * d(1) + 100 * d(2) + 10 * d(3) + d(4)
  <2> HIDE DEF n
  <2>1. CASE n = 1
    BY <1>4, <1>5, <2>1 DEF n
  <2>2. CASE n = 2
    BY <1>4, <1>5, <2>2 DEF n
  <2>3. CASE n = 3
    BY <1>4, <1>5, <2>3 DEF n
  <2>4. CASE n = 4
    <3>1. d(1) \in Int /\ d(2) \in Int /\ d(3) \in Int /\ d(4) \in Int
      BY <1>4, <2>4 DEF n
    <3>2. v[1] = 10 * v[0] + d(1) /\ v[2] = 10 * v[1] + d(2)
      BY <1>4, <2>4 DEF n
    <3>3. v[3] = 10 * v[2] + d(3) /\ v[4] = 10 * v[3] + d(4)
      BY <1>4, <2>4 DEF n
    <3>4. v[2] = 10 * d(1) + d(2)
      BY <1>5, <3>1, <3>2
    <3>5. v[4] = 1000 * d(1) + 100 * d(2) + 10 * d(3) + d(4)
      BY SMTT(20), <3>1, <3>3, <3>4
    <3>6. QED BY <2>4, <3>5
  <2>5. QED BY <2>1, <2>2, <2>3, <2>4
<1>8. QED BY <1>1, <1>6, <1>7 DEF d

(***************************************************************************)
(* What stands before and after the only dash of a text.                   *)
(***************************************************************************)
DashIs(text, p) == p \in 1..7 /\ Dashes(text) = {p}

PartsAt(text, p) ==
    /\ YearPart(text) \in Seq(Characters) /\ Len(YearPart(text)) = p - 1
    /\ MonthPart(text) \in Seq(Characters) /\ Len(MonthPart(text)) = 7 - p
    /\ \A i \in 1..(p - 1) : YearPart(text)[i] = text[i]
    /\ \A i \in 1..(7 - p) : MonthPart(text)[i] = text[p + i]

LEMMA PartsOf ==
    ASSUME NEW text \in Seq(Characters), Len(text) = 7, NEW p, DashIs(text, p)
    PROVE  PartsAt(text, p)
<1> p \in 1..7
  BY DEF DashIs
<1>1. (CHOOSE i \in Dashes(text) : TRUE) = p
  BY DEF DashIs
<1>2. /\ YearPart(text) = SubSeq(text, 1, p - 1)
      /\ MonthPart(text) = SubSeq(text, p + 1, 7)
  BY <1>1 DEF YearPart, MonthPart
<1>3. \A i \in 1..7 : text[i] \in Characters
  BY ElementOfSeq
<1>4. /\ SubSeq(text, 1, p - 1) \in Seq(Characters) /\ Len(SubSeq(text, 1, p - 1)) = p - 1
      /\ \A i \in 1..(p - 1) : SubSeq(text, 1, p - 1)[i] = text[i]
  <2>1. 1 \in Int /\ p - 1 \in Int /\ \A i \in 1..(p - 1) : text[i] \in Characters
    BY <1>3
  <2>2. /\ SubSeq(text, 1, p - 1) \in Seq(Characters)
        /\ Len(SubSeq(text, 1, p - 1)) = IF 1 <= p - 1 THEN p - 1 - 1 + 1 ELSE 0
        /\ \A i \in 1 .. p - 1 - 1 + 1 : SubSeq(text, 1, p - 1)[i] = text[1 + i - 1]
    BY <2>1, SubSeqProperties
  <2>3. \A i \in 1..(p - 1) : 1 + i - 1 = i
    OBVIOUS
  <2>4. p - 1 - 1 + 1 = p - 1 /\ (IF 1 <= p - 1 THEN p - 1 - 1 + 1 ELSE 0) = p - 1
    OBVIOUS
  <2>5. QED BY <2>2, <2>3, <2>4
<1>5. /\ SubSeq(text, p + 1, 7) \in Seq(Characters) /\ Len(SubSeq(text, p + 1, 7)) = 7 - p
      /\ \A i \in 1..(7 - p) : SubSeq(text, p + 1, 7)[i] = text[p + i]
  <2>1. p + 1 \in Int /\ 7 \in Int /\ \A i \in (p + 1)..7 : text[i] \in Characters
    BY <1>3
  <2>2. /\ SubSeq(text, p + 1, 7) \in Seq(Characters)
        /\ Len(SubSeq(text, p + 1, 7)) = IF p + 1 <= 7 THEN 7 - (p + 1) + 1 ELSE 0
        /\ \A i \in 1 .. 7 - (p + 1) + 1 : SubSeq(text, p + 1, 7)[i] = text[p + 1 + i - 1]
    BY <2>1, SubSeqProperties
  <2>3. \A i \in 1..(7 - p) : p + 1 + i - 1 = p + i
    OBVIOUS
  <2>4. 7 - (p + 1) + 1 = 7 - p /\ (IF p + 1 <= 7 THEN 7 - (p + 1) + 1 ELSE 0) = 7 - p
    OBVIOUS
  <2>5. QED BY <2>2, <2>3, <2>4
<1>6. QED BY <1>2, <1>4, <1>5 DEF PartsAt

\* Without a sign, what parses is a numeral, and a numeral that fits parses.
LEMMA SignlessParse ==
    ASSUME NEW text \in Seq(Characters), NEW max \in Nat, "+" \notin Chars(text)
    PROVE  ParseUnsigned(text, max) # Unread =>
               IsNumeral(text) /\ ParseUnsigned(text, max) = Value(text)
<1>1. text # <<>> => Head(text) # "+"
  BY DEF Chars
<1>2. QED BY <1>1 DEF ParseUnsigned

LEMMA NumeralParses ==
    ASSUME NEW text \in Seq(Characters), NEW max \in Nat, IsNumeral(text), Value(text) \in Nat,
           Value(text) <= max
    PROVE  ParseUnsigned(text, max) = Value(text) /\ Value(text) # Unread
<1>1. Head(text) # "+"
  BY FiguresRead DEF IsNumeral, Chars
<1>2. QED BY <1>1, TextsAssumption DEF ParseUnsigned

(***************************************************************************)
(* The figures of a number, and the number of its figures.                 *)
(***************************************************************************)
LEMMA FiguresOf ==
    ASSUME NEW a \in 0..9, NEW b \in 0..9, NEW c \in 0..9, NEW d \in 0..9
    PROVE  LET n == 1000 * a + 100 * b + 10 * c + d
           IN  /\ (n \div 1000) % 10 = a /\ (n \div 100) % 10 = b
               /\ (n \div 10) % 10 = c /\ (n \div 1) % 10 = d
<1> DEFINE n == 1000 * a + 100 * b + 10 * c + d
<1>1. n \div 1000 = a
  OBVIOUS
<1>2. n \div 100 = 10 * a + b
  OBVIOUS
<1>3. n \div 10 = 100 * a + 10 * b + c
  OBVIOUS
<1>4. n \div 1 = n
  OBVIOUS
<1> HIDE DEF n
<1>5. a % 10 = a
  OBVIOUS
<1>6. (10 * a + b) % 10 = b
  OBVIOUS
<1>7. (100 * a + 10 * b + c) % 10 = c
  OBVIOUS
<1>8. n % 10 = d
  BY DEF n
<1>9. QED BY <1>1, <1>2, <1>3, <1>4, <1>5, <1>6, <1>7, <1>8 DEF n

Splits(n) ==
    /\ (n \div 1000) % 10 \in 0..9 /\ (n \div 100) % 10 \in 0..9
    /\ (n \div 10) % 10 \in 0..9 /\ (n \div 1) % 10 \in 0..9
    /\ n = 1000 * ((n \div 1000) % 10) + 100 * ((n \div 100) % 10)
             + 10 * ((n \div 10) % 10) + ((n \div 1) % 10)

LEMMA FiguresSum == ASSUME NEW n \in Nat, n <= 9999 PROVE Splits(n)
<1> DEFINE a == n \div 1000  b == n \div 100  c == n \div 10
<1>1. a \in 0..9 /\ b \in 0..99 /\ c \in 0..999 /\ n \div 1 = n
  <2>1. n >= 0 /\ n <= 9999
    OBVIOUS
  <2>2. a \in Int /\ 1000 * a <= n /\ n < 1000 * (a + 1)
    OBVIOUS
  <2>3. b \in Int /\ 100 * b <= n /\ n < 100 * (b + 1)
    OBVIOUS
  <2>4. c \in Int /\ 10 * c <= n /\ n < 10 * (c + 1)
    OBVIOUS
  <2>5. n \div 1 = n
    OBVIOUS
  <2> HIDE DEF a, b, c
  <2>6. QED BY <2>1, <2>2, <2>3, <2>4, <2>5
<1>2. a = b \div 10 /\ b = c \div 10
  OBVIOUS
<1> HIDE DEF a, b, c
<1>3. a % 10 = a /\ b = 10 * a + (b % 10) /\ c = 10 * b + (c % 10)
  BY <1>1, <1>2
<1>4. n = 10 * c + (n % 10)
  BY DEF c
<1>5. a % 10 \in 0..9 /\ b % 10 \in 0..9 /\ c % 10 \in 0..9 /\ n % 10 \in 0..9
  BY <1>1
<1>6. n = 1000 * (a % 10) + 100 * (b % 10) + 10 * (c % 10) + (n % 10)
  BY <1>1, <1>3, <1>4, <1>5
<1>7. QED BY <1>1, <1>5, <1>6 DEF a, b, c, Splits

\* The text of seven characters with these figures.
Spelled(a, b, c, d, e, f) ==
    <<DigitChars[a + 1], DigitChars[b + 1], DigitChars[c + 1], DigitChars[d + 1], "-",
      DigitChars[e + 1], DigitChars[f + 1]>>

SpellsAs(t, a, b, c, d, e, f) ==
    /\ t \in Seq(Characters) /\ Len(t) = 7 /\ DOMAIN t = 1..7
    /\ t[1] = DigitChars[a + 1] /\ t[2] = DigitChars[b + 1]
    /\ t[3] = DigitChars[c + 1] /\ t[4] = DigitChars[d + 1] /\ t[5] = "-"
    /\ t[6] = DigitChars[e + 1] /\ t[7] = DigitChars[f + 1]

LEMMA SpelledText ==
    ASSUME NEW a \in 0..9, NEW b \in 0..9, NEW c \in 0..9, NEW d \in 0..9,
           NEW e \in 0..9, NEW f \in 0..9
    PROVE  SpellsAs(Spelled(a, b, c, d, e, f), a, b, c, d, e, f)
<1> DEFINE t == Spelled(a, b, c, d, e, f)
<1>1. \A n \in 0..9 : DigitChars[n + 1] \in Characters
  BY FiguresRead, TextsAssumption
<1>2. /\ DigitChars[a + 1] \in Characters /\ DigitChars[b + 1] \in Characters
      /\ DigitChars[c + 1] \in Characters /\ DigitChars[d + 1] \in Characters
      /\ DigitChars[e + 1] \in Characters /\ DigitChars[f + 1] \in Characters
      /\ "-" \in Characters
  BY <1>1, TextsAssumption
<1>3. t \in Seq(Characters) /\ Len(t) = 7
  BY <1>2 DEF Spelled
<1>4. /\ t[1] = DigitChars[a + 1] /\ t[2] = DigitChars[b + 1]
      /\ t[3] = DigitChars[c + 1] /\ t[4] = DigitChars[d + 1] /\ t[5] = "-"
      /\ t[6] = DigitChars[e + 1] /\ t[7] = DigitChars[f + 1]
  BY DEF Spelled
<1>5. DOMAIN t = 1..7
  BY <1>3, LenProperties
<1>6. QED BY <1>3, <1>4, <1>5 DEF SpellsAs

(***************************************************************************)
(* What is accepted, without a sign and with a year that has not five      *)
(* characters, is the text of a month of the calendar.                     *)
(***************************************************************************)
LEMMA AcceptedIsText ==
    ASSUME NEW text \in Seq(Characters), ValidateTimestampBucket(text),
           "+" \notin Chars(text), Len(YearPart(text)) # 5
    PROVE  text \in CalendarMonths
<1> DEFINE year == ParseUnsigned(YearPart(text), 65535)
           month == ParseUnsigned(MonthPart(text), 255)
<1>1. /\ Len(text) = 7
      /\ year # Unread /\ month # Unread /\ year >= 2000 /\ month \in 1..12
  BY DEF ValidateTimestampBucket, ReadsAsMonth
<1>2. PICK p \in Dashes(text) : Dashes(text) = {p}
  BY DEF ValidateTimestampBucket, ReadsAsMonth
<1>3. p \in 1..7 /\ text[p] = "-" /\ DashIs(text, p)
  BY <1>1, <1>2, LenProperties DEF Dashes, DashIs
<1>4. /\ YearPart(text) \in Seq(Characters) /\ Len(YearPart(text)) = p - 1
      /\ MonthPart(text) \in Seq(Characters) /\ Len(MonthPart(text)) = 7 - p
      /\ \A i \in 1..(p - 1) : YearPart(text)[i] = text[i]
      /\ \A i \in 1..(7 - p) : MonthPart(text)[i] = text[p + i]
  <2>1. PartsAt(text, p)
    BY <1>1, <1>3, PartsOf
  <2>2. QED BY <2>1 DEF PartsAt
<1>5. "+" \notin Chars(YearPart(text)) /\ "+" \notin Chars(MonthPart(text))
  <2>1. /\ DOMAIN text = 1..7 /\ DOMAIN YearPart(text) = 1..(p - 1)
        /\ DOMAIN MonthPart(text) = 1..(7 - p)
    BY <1>1, <1>4, LenProperties
  <2>2. \A i \in 1..7 : text[i] # "+"
    BY <2>1 DEF Chars
  <2>3. \A i \in 1..(p - 1) : YearPart(text)[i] # "+"
    <3>1. \A i \in 1..(p - 1) : i \in 1..7
      BY <1>3
    <3>2. QED BY <1>4, <2>2, <3>1
  <2>4. \A i \in 1..(7 - p) : MonthPart(text)[i] # "+"
    <3>1. \A i \in 1..(7 - p) : p + i \in 1..7
      BY <1>3
    <3>2. QED BY <1>4, <2>2, <3>1
  <2>5. QED BY <2>1, <2>3, <2>4 DEF Chars
<1>6. /\ IsNumeral(YearPart(text)) /\ year = Value(YearPart(text))
      /\ IsNumeral(MonthPart(text)) /\ month = Value(MonthPart(text))
  BY <1>1, <1>4, <1>5, SignlessParse
<1>7. p # 1 /\ p # 7
  BY <1>4, <1>6, EmptySeq DEF IsNumeral
<1> HIDE DEF year, month
<1> DEFINE a == Fig(YearPart(text), 1)  b == Fig(YearPart(text), 2)
           c == Fig(YearPart(text), 3)  d == Fig(YearPart(text), 4)
           e == Fig(MonthPart(text), 1) f == Fig(MonthPart(text), 2)
<1>8. /\ YearPart(text) \in Seq(Characters) /\ IsNumeral(YearPart(text))
      /\ MonthPart(text) \in Seq(Characters) /\ IsNumeral(MonthPart(text))
      /\ Len(YearPart(text)) = p - 1 /\ Len(MonthPart(text)) = 7 - p
      /\ year = Value(YearPart(text)) /\ month = Value(MonthPart(text))
  BY <1>4, <1>6
<1>9. /\ \A i \in 1..(p - 1) :
           /\ Fig(YearPart(text), i) \in 0..9
           /\ YearPart(text)[i] = DigitChars[Fig(YearPart(text), i) + 1]
      /\ \A i \in 1..(7 - p) :
           /\ Fig(MonthPart(text), i) \in 0..9
           /\ MonthPart(text)[i] = DigitChars[Fig(MonthPart(text), i) + 1]
  BY <1>8, ShortValues
<1>10. /\ p >= 2 => a \in 0..9
       /\ p >= 3 => b \in 0..9
       /\ p >= 4 => c \in 0..9
       /\ p = 5 => d \in 0..9 /\ e \in 0..9 /\ f \in 0..9
  <2>1. /\ p >= 2 => 1 \in 1..(p - 1)
        /\ p >= 3 => 2 \in 1..(p - 1)
        /\ p >= 4 => 3 \in 1..(p - 1)
        /\ p = 5 => 4 \in 1..(p - 1) /\ 1 \in 1..(7 - p) /\ 2 \in 1..(7 - p)
    BY <1>3
  <2>2. QED BY <1>9, <2>1
<1> HIDE DEF a, b, c, d, e, f
<1>11. p = 5
  <2>1. p # 6
    BY <1>4
  <2>2. year >= 2000
    BY <1>1
  <2>3. ASSUME p = 2 PROVE FALSE
    <3>1. year = a
      BY <1>8, <2>3, ShortValues DEF a
    <3>2. a \in 0..9
      BY <1>10, <2>3
    <3>3. QED BY <2>2, <3>1, <3>2
  <2>4. ASSUME p = 3 PROVE FALSE
    <3>1. year = 10 * a + b
      BY <1>8, <2>4, ShortValues DEF a, b
    <3>2. a \in 0..9 /\ b \in 0..9
      BY <1>10, <2>4
    <3>3. QED BY <2>2, <3>1, <3>2
  <2>5. ASSUME p = 4 PROVE FALSE
    <3>1. year = 100 * a + 10 * b + c
      BY <1>8, <2>5, ShortValues DEF a, b, c
    <3>2. a \in 0..9 /\ b \in 0..9 /\ c \in 0..9
      BY <1>10, <2>5
    <3>3. QED BY <2>2, <3>1, <3>2
  <2>6. QED BY <1>3, <1>7, <2>1, <2>3, <2>4, <2>5
<1>12. a \in 0..9 /\ b \in 0..9 /\ c \in 0..9 /\ d \in 0..9 /\ e \in 0..9 /\ f \in 0..9
  BY <1>10, <1>11
<1>13. year = 1000 * a + 100 * b + 10 * c + d
  <2>1. Len(YearPart(text)) = 4
    BY <1>8, <1>11
  <2>2. QED BY <1>8, <2>1, ShortValues DEF a, b, c, d
<1>14. month = 10 * e + f
  <2>1. Len(MonthPart(text)) = 2
    BY <1>8, <1>11
  <2>2. QED BY <1>8, <2>1, ShortValues DEF e, f
<1>15. year \in 2000..9999 /\ month \in 1..12
  <2>1. year >= 2000 /\ month \in 1..12
    BY <1>1
  <2>2. year \in Nat /\ year <= 9999
    <3>1. a \in Int /\ b \in Int /\ c \in Int /\ d \in Int
      BY <1>12
    <3>2. a >= 0 /\ b >= 0 /\ c >= 0 /\ d >= 0 /\ a <= 9 /\ b <= 9 /\ c <= 9 /\ d <= 9
      BY <1>12
    <3>3. QED BY SMTT(20), <1>13, <3>1, <3>2
  <2>3. QED BY <2>1, <2>2
<1>16. BucketText(year, month) = text
  <2>1. /\ (year \div 1000) % 10 = a /\ (year \div 100) % 10 = b
        /\ (year \div 10) % 10 = c /\ (year \div 1) % 10 = d
    BY SMTT(20), <1>12, <1>13, FiguresOf
  <2>2. (month \div 10) % 10 = e /\ (month \div 1) % 10 = f
    BY <1>12, <1>14
  <2>3. BucketText(year, month) = Spelled(a, b, c, d, e, f)
    BY <2>1, <2>2 DEF BucketText, Spelled
  <2>4. /\ \A i \in 1..4 : text[i] = DigitChars[Fig(YearPart(text), i) + 1]
        /\ \A i \in 1..2 : text[5 + i] = DigitChars[Fig(MonthPart(text), i) + 1]
    <3>1. 5 - 1 = 4 /\ 7 - 5 = 2
      OBVIOUS
    <3>2. QED BY <1>4, <1>9, <1>11, <3>1
  <2>5. /\ text[1] = DigitChars[a + 1] /\ text[2] = DigitChars[b + 1]
        /\ text[3] = DigitChars[c + 1] /\ text[4] = DigitChars[d + 1]
    BY <2>4 DEF a, b, c, d
  <2>6. text[6] = DigitChars[e + 1] /\ text[7] = DigitChars[f + 1]
    <3>1. text[5 + 1] = DigitChars[e + 1] /\ text[5 + 2] = DigitChars[f + 1]
      BY <2>4 DEF e, f
    <3>2. 5 + 1 = 6 /\ 5 + 2 = 7
      OBVIOUS
    <3>3. QED BY <3>1, <3>2
  <2> DEFINE t == Spelled(a, b, c, d, e, f)
  <2>7. /\ t \in Seq(Characters) /\ Len(t) = 7
        /\ t[1] = DigitChars[a + 1] /\ t[2] = DigitChars[b + 1]
        /\ t[3] = DigitChars[c + 1] /\ t[4] = DigitChars[d + 1] /\ t[5] = "-"
        /\ t[6] = DigitChars[e + 1] /\ t[7] = DigitChars[f + 1]
    <3>1. SpellsAs(t, a, b, c, d, e, f)
      BY <1>12, SpelledText
    <3>2. QED BY <3>1 DEF SpellsAs
  <2> HIDE DEF t
  <2>8. \A i \in 1..7 : t[i] = text[i]
    BY <1>3, <1>11, <2>5, <2>6, <2>7
  <2>9. t = text
    BY <1>1, <2>7, <2>8, SeqEqual
  <2>10. QED BY <2>3, <2>9 DEF t
<1>17. year \in Years
  BY <1>15 DEF Years
<1>18. QED BY <1>15, <1>16, <1>17 DEF CalendarMonths

(***************************************************************************)
(* The text of every month of the calendar is accepted.                    *)
(***************************************************************************)
LEMMA TextIsAccepted ==
    ASSUME NEW text \in CalendarMonths
    PROVE  ValidateTimestampBucket(text)
<1>1. PICK y \in Years, m \in 1..12 : text = BucketText(y, m)
  BY DEF CalendarMonths
<1>2. y \in Nat /\ y >= 2000 /\ y <= 9999 /\ m \in Nat /\ m <= 255 /\ m <= 9999
  BY DEF Years
<1> DEFINE a == (y \div 1000) % 10  b == (y \div 100) % 10
           c == (y \div 10) % 10    d == (y \div 1) % 10
           e == (m \div 10) % 10    f == (m \div 1) % 10
<1>3. /\ a \in 0..9 /\ b \in 0..9 /\ c \in 0..9 /\ d \in 0..9 /\ e \in 0..9 /\ f \in 0..9
      /\ y = 1000 * a + 100 * b + 10 * c + d
  <2>1. /\ a \in 0..9 /\ b \in 0..9 /\ c \in 0..9 /\ d \in 0..9
        /\ y = 1000 * a + 100 * b + 10 * c + d
    <3>1. Splits(y)
      BY <1>2, FiguresSum
    <3>2. QED BY <3>1 DEF Splits
  <2>2. e \in 0..9 /\ f \in 0..9
    <3>1. Splits(m)
      BY <1>2, FiguresSum
    <3>2. QED BY <3>1 DEF Splits
  <2>3. QED BY <2>1, <2>2
<1>4. m = 10 * e + f
  OBVIOUS
<1>5. text = Spelled(a, b, c, d, e, f)
  BY <1>1 DEF BucketText, Spelled
<1> HIDE DEF a, b, c, d, e, f
<1>6. /\ text \in Seq(Characters) /\ Len(text) = 7 /\ DOMAIN text = 1..7
      /\ text[1] = DigitChars[a + 1] /\ text[2] = DigitChars[b + 1]
      /\ text[3] = DigitChars[c + 1] /\ text[4] = DigitChars[d + 1] /\ text[5] = "-"
      /\ text[6] = DigitChars[e + 1] /\ text[7] = DigitChars[f + 1]
  <2>1. SpellsAs(Spelled(a, b, c, d, e, f), a, b, c, d, e, f)
    BY <1>3, SpelledText
  <2>2. QED BY <1>5, <2>1 DEF SpellsAs
<1>7. /\ text[1] \in Figures /\ FigureOf(text[1]) = a
      /\ text[2] \in Figures /\ FigureOf(text[2]) = b
      /\ text[3] \in Figures /\ FigureOf(text[3]) = c
      /\ text[4] \in Figures /\ FigureOf(text[4]) = d
      /\ text[6] \in Figures /\ FigureOf(text[6]) = e
      /\ text[7] \in Figures /\ FigureOf(text[7]) = f
  <2>1. /\ DigitChars[a + 1] \in Figures /\ FigureOf(DigitChars[a + 1]) = a
        /\ DigitChars[b + 1] \in Figures /\ FigureOf(DigitChars[b + 1]) = b
        /\ DigitChars[c + 1] \in Figures /\ FigureOf(DigitChars[c + 1]) = c
    BY <1>3, FiguresRead
  <2>2. /\ DigitChars[d + 1] \in Figures /\ FigureOf(DigitChars[d + 1]) = d
        /\ DigitChars[e + 1] \in Figures /\ FigureOf(DigitChars[e + 1]) = e
        /\ DigitChars[f + 1] \in Figures /\ FigureOf(DigitChars[f + 1]) = f
    BY <1>3, FiguresRead
  <2>3. QED BY <1>6, <2>1, <2>2
<1>8. DashIs(text, 5)
  <2>1. \A i \in 1..7 : text[i] = "-" <=> i = 5
    <3>1. \A i \in 1..7 : i = 5 \/ i \in {1, 2, 3, 4, 6, 7}
      OBVIOUS
    <3>2. QED BY <1>6, <1>7, <3>1, FiguresRead
  <2>2. QED BY <1>6, <2>1 DEF Dashes, DashIs
<1>9. /\ YearPart(text) \in Seq(Characters) /\ Len(YearPart(text)) = 4
      /\ MonthPart(text) \in Seq(Characters) /\ Len(MonthPart(text)) = 2
      /\ \A i \in 1..4 : YearPart(text)[i] = text[i]
      /\ \A i \in 1..2 : MonthPart(text)[i] = text[5 + i]
  <2>1. 5 - 1 = 4 /\ 7 - 5 = 2
    OBVIOUS
  <2>2. /\ YearPart(text) \in Seq(Characters) /\ Len(YearPart(text)) = 5 - 1
        /\ MonthPart(text) \in Seq(Characters) /\ Len(MonthPart(text)) = 7 - 5
        /\ \A i \in 1..(5 - 1) : YearPart(text)[i] = text[i]
        /\ \A i \in 1..(7 - 5) : MonthPart(text)[i] = text[5 + i]
    <3>1. PartsAt(text, 5)
      BY <1>6, <1>8, PartsOf
    <3>2. QED BY <3>1 DEF PartsAt
  <2>3. QED BY <2>1, <2>2
<1>10. /\ YearPart(text)[1] = text[1] /\ YearPart(text)[2] = text[2]
       /\ YearPart(text)[3] = text[3] /\ YearPart(text)[4] = text[4]
       /\ MonthPart(text)[1] = text[6] /\ MonthPart(text)[2] = text[7]
  BY <1>9
<1>11. IsNumeral(YearPart(text)) /\ IsNumeral(MonthPart(text))
  <2>1. DOMAIN YearPart(text) = 1..4 /\ DOMAIN MonthPart(text) = 1..2
    BY <1>9, LenProperties
  <2>2. YearPart(text) # <<>> /\ MonthPart(text) # <<>>
    BY <2>1
  <2>3. \A i \in 1..4 : YearPart(text)[i] \in Figures
    BY <1>7, <1>10
  <2>4. \A i \in 1..2 : MonthPart(text)[i] \in Figures
    BY <1>7, <1>10
  <2>5. QED BY <2>1, <2>2, <2>3, <2>4 DEF IsNumeral, Chars
<1>12. /\ Fig(YearPart(text), 1) = a /\ Fig(YearPart(text), 2) = b
       /\ Fig(YearPart(text), 3) = c /\ Fig(YearPart(text), 4) = d
       /\ Fig(MonthPart(text), 1) = e /\ Fig(MonthPart(text), 2) = f
  BY <1>7, <1>10 DEF Fig
<1>13. Value(YearPart(text)) = y
  <2>1. Value(YearPart(text)) = 1000 * Fig(YearPart(text), 1) + 100 * Fig(YearPart(text), 2)
                                  + 10 * Fig(YearPart(text), 3) + Fig(YearPart(text), 4)
    BY <1>9, <1>11, ShortValues
  <2>2. QED BY <1>3, <1>12, <2>1
<1>14. Value(MonthPart(text)) = m
  <2>1. Value(MonthPart(text)) = 10 * Fig(MonthPart(text), 1) + Fig(MonthPart(text), 2)
    BY <1>9, <1>11, ShortValues
  <2>2. QED BY <1>4, <1>12, <2>1
<1>15. ParseUnsigned(YearPart(text), 65535) = y /\ y # Unread
  <2>1. 65535 \in Nat /\ y \in Nat /\ y <= 65535
    BY <1>2
  <2>2. QED BY <1>9, <1>11, <1>13, <2>1, NumeralParses
<1>16. ParseUnsigned(MonthPart(text), 255) = m /\ m # Unread
  <2>1. 255 \in Nat /\ m \in Nat /\ m <= 255
    OBVIOUS
  <2>2. QED BY <1>9, <1>11, <1>14, <2>1, NumeralParses
<1>17. y >= 2000
  BY <1>2
<1>18. \E i \in Dashes(text) : Dashes(text) = {i}
  BY <1>8 DEF DashIs
<1>19. QED BY <1>6, <1>15, <1>16, <1>17, <1>18 DEF ValidateTimestampBucket, ReadsAsMonth

(***************************************************************************)
(* The answer is the one validate_timestamp_bucket gives to the last text. *)
(***************************************************************************)
BucketsInv ==
    \/ checked = Unread
    \/ \E t \in Texts : checked = [text |-> t, accepted |-> ValidateTimestampBucket(t)]

LEMMA BucketsKeep == BucketsInv /\ [BucketsNext]_checked => BucketsInv'
  BY DEF BucketsInv, BucketsNext, Check

LEMMA BucketsMean == BucketsInv => AcceptedIsAMonth
<1> SUFFICES ASSUME checked # Unread, NEW t \in Texts,
                    checked = [text |-> t, accepted |-> ValidateTimestampBucket(t)]
             PROVE  AcceptedIsAMonth
  BY DEF BucketsInv, AcceptedIsAMonth
<1>1. t \in Seq(Characters)
  BY TextsAssumption
<1>2. t \in CalendarMonths => ValidateTimestampBucket(t)
  BY TextIsAccepted
<1>3. ASSUME ValidateTimestampBucket(t)
      PROVE  \/ t \in CalendarMonths
             \/ "+" \in Chars(t)
             \/ Len(t) = 7 /\ Len(YearPart(t)) = 5
  <2>1. Len(t) = 7
    BY <1>3 DEF ValidateTimestampBucket
  <2>2. QED BY <1>1, <1>3, <2>1, AcceptedIsText
<1>4. checked.text = t /\ checked.accepted = ValidateTimestampBucket(t)
  OBVIOUS
<1>5. QED BY <1>2, <1>3, <1>4 DEF AcceptedIsAMonth

(***************************************************************************)
(* Whatever texts clients send, the months of the calendar are accepted,   *)
(* and what is accepted is one of them, has a sign or has a year of five   *)
(* characters (validation.rs, validate_timestamp_bucket).                  *)
(***************************************************************************)
THEOREM BucketsAreMonths == BucketsSpec => []AcceptedIsAMonth
<1>1. BucketsInit => BucketsInv
  BY DEF BucketsInit, BucketsInv
<1>2. QED BY <1>1, BucketsKeep, BucketsMean, PTL DEF BucketsSpec
=============================================================================
