---------------------------- MODULE PhoneProofs ----------------------------
(***************************************************************************)
(* For any users, cards, messages and numbers of runs, however runs        *)
(* overlap and are killed: whose halves the Keychain holds, which rows can *)
(* be read, and which mappings are lost.                                   *)
(***************************************************************************)
EXTENDS PhoneSetup, TLAPS

Months == Int \X Int
Maps == UNION {[D -> Cards] : D \in SUBSET Digits}

SetupRuns ==
    [kind: {"setup"}, step: {"login", "master", "dek"}, user: Users,
     by: 1..MaxSetups \cup {None}]

MappingRuns ==
    [kind: {"mapping"}, step: {"fetch", "choose", "default"}, map: Maps, at: 0..MaxSaves]

CaptureRuns ==
    [kind: {"capture"}, step: {"encrypt", "post"}, token: Users \cup {None},
     dek: Users \cup {None}, torn: BOOLEAN, card: Cards, bucket: Months,
     dated: BOOLEAN, bought: Months]

AllRuns == SetupRuns \cup MappingRuns \cup CaptureRuns \cup {None}

Keychains ==
    [token: Credentials, dek: Credentials, map: Maps, default: Cards \cup {None}]

PhoneType ==
    /\ keychain \in Keychains
    /\ run \in [Runs -> AllRuns]
    /\ now \in Months
    /\ setups \in 0..MaxSetups /\ saves \in 0..MaxSaves
    /\ disturbed \subseteq 1..setups
    /\ DOMAIN keychain.map \subseteq DOMAIN savedAt
    /\ savedAt \in [DOMAIN savedAt -> 1..saves]

\* A set-up that was answered and has not ended.
Opened(r) == At(r, "setup", "master") \/ At(r, "setup", "dek")

(***************************************************************************)
(* A set-up has its number for itself; until it writes its key no key has  *)
(* it, and until it writes its token no token has it.  One between its     *)
(* writes still finds its own token, or was disturbed by the one that      *)
(* wrote there.                                                            *)
(***************************************************************************)
NumbersSound ==
    /\ keychain.token.by \in 0..setups /\ keychain.dek.by \in 0..setups
    /\ \A r \in Runs : Opened(r) =>
         /\ run[r].by \in 1..setups
         /\ keychain.dek.by # run[r].by
         /\ \A q \in Runs : Opened(q) /\ run[q].by = run[r].by => q = r

TokensSound ==
    \A r \in Runs :
        /\ At(r, "setup", "master") => keychain.token.by # run[r].by
        /\ At(r, "setup", "dek") =>
             \/ keychain.token = Credential(run[r].user, run[r].by)
             \/ keychain.token.by # run[r].by /\ keychain.token.by \in disturbed

HalvesSound ==
    /\ keychain.token.by = keychain.dek.by => keychain.token.user = keychain.dek.user
    /\ HalvesBelongTogether

CredentialInv == PhoneType /\ NumbersSound /\ TokensSound /\ HalvesSound

-----------------------------------------------------------------------------
(* Types *)

LEMMA WithIsMap ==
    ASSUME NEW map \in Maps, NEW d \in Digits, NEW c \in Cards
    PROVE  With(map, d, c) \in Maps
<1>1. PICK D \in SUBSET Digits : map \in [D -> Cards]
  BY DEF Maps
<1>2. With(map, d, c) \in [D \cup {d} -> Cards]
  BY <1>1 DEF With
<1> QED
  BY <1>1, <1>2 DEF Maps

LEMMA NoMapIsMap == NoMap \in Maps
<1>1. NoMap \in [{} -> Cards]
  BY DEF NoMap
<1> QED
  BY <1>1 DEF Maps

\* The steps of a run that leave the Keychain and the counters alone.
LEMMA RunMovesType ==
    ASSUME PhoneType, NEW r \in Runs, NEW x \in AllRuns,
           run' = [run EXCEPT ![r] = x],
           UNCHANGED <<keychain, now, setups, saves, savedAt>>,
           disturbed' \subseteq 1..setups
    PROVE  PhoneType'
BY DEF PhoneType

LEMMA InitType == Init => PhoneType
<1> SUFFICES ASSUME Init PROVE PhoneType
  OBVIOUS
<1>1. keychain \in Keychains
  BY NoMapIsMap, PhoneAssumption DEF Init, Keychains, Credentials, Credential
<1>2. DOMAIN keychain.map = {} /\ DOMAIN savedAt = {}
  BY DEF Init, NoMap
<1> QED
  BY <1>1, <1>2, PhoneAssumption DEF Init, NoMap, PhoneType, AllRuns, Months

LEMMA StartSetupType ==
    ASSUME PhoneType, NEW r \in Runs, NEW u \in Users, StartSetup(r, u)
    PROVE  PhoneType'
<1> DEFINE x == [kind |-> "setup", step |-> "login", user |-> u, by |-> None]
<1>1. x \in AllRuns
  BY DEF AllRuns, SetupRuns
<1> QED
  BY <1>1, RunMovesType DEF StartSetup, PhoneType

\* A run in a step is of the kind of that step.
LEMMA RunKind ==
    ASSUME PhoneType, NEW r \in Runs
    PROVE  /\ \A s : At(r, "setup", s) => run[r] \in SetupRuns
           /\ \A s : At(r, "mapping", s) => run[r] \in MappingRuns
           /\ \A s : At(r, "capture", s) => run[r] \in CaptureRuns
<1>1. run[r] # None => run[r] \in SetupRuns \cup MappingRuns \cup CaptureRuns
  BY DEF PhoneType, AllRuns
<1> QED
  BY <1>1 DEF At, SetupRuns, MappingRuns, CaptureRuns

LEMMA OpenedBy ==
    ASSUME PhoneType, NumbersSound, NEW r \in Runs, Opened(r)
    PROVE  /\ run[r] \in SetupRuns
           /\ run[r].by \in 1..setups /\ run[r].by \in 1..MaxSetups
           /\ Credential(run[r].user, run[r].by) \in Credentials
<1>1. run[r] \in SetupRuns
  BY RunKind DEF Opened
<1>2. run[r].by \in 1..setups /\ setups \in 0..MaxSetups
  BY DEF NumbersSound, PhoneType
<1>3. run[r].by \in 1..MaxSetups
  BY <1>2, PhoneAssumption
<1> QED
  BY <1>1, <1>2, <1>3, PhoneAssumption DEF Credentials, Credential, SetupRuns

LEMMA HalfwayIsAnswered ==
    ASSUME PhoneType, NumbersSound
    PROVE  Halfway \subseteq 1..setups
BY OpenedBy DEF Halfway, Opened

LEMMA LoginType ==
    ASSUME PhoneType, NEW r \in Runs, Login(r)
    PROVE  PhoneType'
<1> DEFINE x == [run[r] EXCEPT !.step = "master", !.by = setups']
<1>1. run[r] \in SetupRuns
  BY RunKind DEF Login
<1>2. setups' \in 1..MaxSetups
  BY PhoneAssumption DEF Login, PhoneType
<1>3. x \in AllRuns
  BY <1>1, <1>2 DEF AllRuns, SetupRuns
<1>4. run' = [run EXCEPT ![r] = x]
  BY DEF Login, PhoneType
<1>5. run' \in [Runs -> AllRuns]
  BY <1>3, <1>4 DEF PhoneType
<1>6. disturbed' \subseteq 1..setups'
  BY PhoneAssumption DEF Login, PhoneType
<1> QED
  BY <1>2, <1>5, <1>6 DEF Login, PhoneType

LEMMA DerivedType ==
    ASSUME PhoneType, NumbersSound, NEW r \in Runs, Derived(r)
    PROVE  PhoneType'
<1> DEFINE x == [run[r] EXCEPT !.step = "dek"]
<1>1. Opened(r)
  BY DEF Derived, Opened
<1>2. run[r] \in SetupRuns /\ run[r].by \in 1..setups
      /\ Credential(run[r].user, run[r].by) \in Credentials
  BY <1>1, OpenedBy
<1>3. x \in AllRuns
  BY <1>2 DEF AllRuns, SetupRuns
<1>4. run' \in [Runs -> AllRuns]
  BY <1>3 DEF Derived, Goto, PhoneType
<1>5. keychain' \in Keychains /\ keychain'.map = keychain.map
  BY <1>2 DEF Derived, WriteToken, PhoneType, Keychains
<1>6. disturbed' \subseteq 1..setups
  BY <1>2, HalfwayIsAnswered DEF Derived, WriteToken, PhoneType
<1> QED
  BY <1>4, <1>5, <1>6 DEF Derived, PhoneType

LEMMA WriteDekType ==
    ASSUME PhoneType, NumbersSound, NEW r \in Runs, WriteDek(r)
    PROVE  PhoneType'
<1>1. Credential(run[r].user, run[r].by) \in Credentials
  BY OpenedBy DEF WriteDek, Opened
<1>2. keychain' \in Keychains /\ keychain'.map = keychain.map
  BY <1>1 DEF WriteDek, PhoneType, Keychains
<1>3. run' \in [Runs -> AllRuns]
  BY DEF WriteDek, End, PhoneType, AllRuns
<1> QED
  BY <1>2, <1>3 DEF WriteDek, PhoneType

LEMMA KillType ==
    ASSUME PhoneType, NumbersSound, NEW r \in Runs, Kill(r)
    PROVE  PhoneType'
<1>1. disturbed' \subseteq 1..setups
  BY OpenedBy DEF Kill, PhoneType, Opened
<1> QED
  BY <1>1, RunMovesType DEF Kill, End, AllRuns

LEMMA EndsType ==
    ASSUME PhoneType, NEW r \in Runs,
           SetupFails(r) \/ CloseMapping(r) \/ NotAccepted(r) \/ Accepted(r)
    PROVE  PhoneType'
BY RunMovesType DEF SetupFails, CloseMapping, NotAccepted, Accepted, End, AllRuns, PhoneType

LEMMA MappingType ==
    ASSUME PhoneType, NEW r \in Runs,
           StartMapping(r) \/ CardsAnswered(r) \/ AddNothing(r)
    PROVE  PhoneType'
<1>1. CASE StartMapping(r)
  <2> DEFINE x == [kind |-> "mapping", step |-> "fetch", map |-> NoMap, at |-> 0]
  <2>1. x \in AllRuns
    BY NoMapIsMap, PhoneAssumption DEF AllRuns, MappingRuns
  <2> QED
    BY <1>1, <2>1, RunMovesType DEF StartMapping, PhoneType
<1>2. CASE CardsAnswered(r)
  <2> DEFINE x == [run[r] EXCEPT !.step = "choose", !.map = keychain.map, !.at = saves]
  <2>1. run[r] \in MappingRuns /\ keychain.map \in Maps /\ saves \in 0..MaxSaves
    BY <1>2, RunKind DEF CardsAnswered, PhoneType, Keychains
  <2>2. x \in AllRuns
    BY <2>1 DEF AllRuns, MappingRuns
  <2>3. run' = [run EXCEPT ![r] = x]
    BY <1>2 DEF CardsAnswered, PhoneType
  <2> HIDE DEF x
  <2> QED
    BY <1>2, <2>2, <2>3, RunMovesType DEF CardsAnswered, PhoneType
<1>3. CASE AddNothing(r)
  <2> DEFINE x == [run[r] EXCEPT !.step = "default"]
  <2>1. x \in AllRuns
    BY <1>3, RunKind DEF AddNothing, AllRuns, MappingRuns
  <2>2. run' = [run EXCEPT ![r] = x]
    BY <1>3 DEF AddNothing, Goto, PhoneType
  <2> HIDE DEF x
  <2> QED
    BY <1>3, <2>1, <2>2, RunMovesType DEF AddNothing, PhoneType
<1> QED
  BY <1>1, <1>2, <1>3

LEMMA AddMappingType ==
    ASSUME PhoneType, NEW r \in Runs, NEW d \in Digits, NEW c \in Cards, AddMapping(r, d, c)
    PROVE  PhoneType'
<1>1. run[r] \in MappingRuns
  BY RunKind DEF AddMapping
<1>2. With(run[r].map, d, c) \in Maps
  BY <1>1, WithIsMap DEF MappingRuns
<1>3. keychain' \in Keychains
  BY <1>2 DEF AddMapping, PhoneType, Keychains
<1>4. run' \in [Runs -> AllRuns]
  <2> DEFINE x == [run[r] EXCEPT !.step = "default"]
  <2>1. x \in AllRuns
    BY <1>1 DEF AllRuns, MappingRuns
  <2> QED
    BY <2>1 DEF AddMapping, Goto, PhoneType
<1>5. saves' \in 1..MaxSaves /\ saves \in 0..saves'
  BY PhoneAssumption DEF AddMapping, PhoneType
<1>6. /\ DOMAIN savedAt' = DOMAIN savedAt \cup DOMAIN keychain'.map
      /\ savedAt' \in [DOMAIN savedAt' -> 1..saves']
  <2> DEFINE D == DOMAIN savedAt \cup DOMAIN keychain'.map
  <2>1. savedAt' = [e \in D |-> IF e = d \/ Changed(e) THEN saves' ELSE savedAt[e]]
    BY DEF AddMapping
  <2>2. ASSUME NEW e \in D PROVE savedAt'[e] \in 1..saves'
    <3>1. CASE e = d \/ Changed(e)
      BY <1>5, <2>1, <3>1
    <3>2. CASE ~(e = d \/ Changed(e))
      <4>1. e \in DOMAIN savedAt
        BY <3>2 DEF Changed, PhoneType
      <4>2. savedAt[e] \in 1..saves /\ savedAt'[e] = savedAt[e]
        BY <2>1, <3>2, <4>1 DEF PhoneType
      <4> QED
        BY <1>5, <4>2
    <3> QED
      BY <3>1, <3>2
  <2> QED
    BY <2>1, <2>2
<1> QED
  BY <1>3, <1>4, <1>5, <1>6 DEF AddMapping, PhoneType

LEMMA SetDefaultType ==
    ASSUME PhoneType, NEW r \in Runs, NEW c \in Cards \cup {None}, SetDefault(r, c)
    PROVE  PhoneType'
<1>1. keychain' \in Keychains /\ keychain'.map = keychain.map
  BY DEF SetDefault, PhoneType, Keychains
<1>2. run' \in [Runs -> AllRuns]
  BY DEF SetDefault, End, PhoneType, AllRuns
<1> QED
  BY <1>1, <1>2 DEF SetDefault, PhoneType

\* The card of a payload is a card, its month a month.
LEMMA ResolveIsCard ==
    ASSUME PhoneType, NEW digits
    PROVE  ResolveCardId(digits) \in Cards \cup {None}
<1>1. PICK D \in SUBSET Digits : keychain.map \in [D -> Cards]
  BY DEF PhoneType, Keychains, Maps
<1>2. keychain.default \in Cards \cup {None}
  BY DEF PhoneType, Keychains
<1> QED
  BY <1>1, <1>2 DEF ResolveCardId

LEMMA BucketIsMonth ==
    ASSUME now \in Months, NEW m \in Messages, NEW b \in Months
    PROVE  Bucket(m, b) \in Months
<1>1. now[1] \in Int /\ b[2] \in Int
  BY DEF Months
<1>2. CASE m.dated = None
  BY <1>2, PhoneAssumption DEF Bucket
<1>3. CASE m.dated = "DD/MM/YYYY" /\ m.form # "bradesco"
  BY <1>3, PhoneAssumption DEF Bucket
<1>4. CASE m.dated # None /\ ~(m.dated = "DD/MM/YYYY" /\ m.form # "bradesco")
  <2>1. Bucket(m, b) = <<now[1], b[2]>>
    BY <1>4 DEF Bucket
  <2> QED
    BY <1>1, <2>1 DEF Months
<1> QED
  BY <1>2, <1>3, <1>4

Capture(sms, bought) ==
    [kind |-> "capture", step |-> "encrypt",
     token |-> keychain.token.user, dek |-> keychain.dek.user,
     torn |-> Torn, card |-> ResolveCardId(LastDigits(sms)),
     bucket |-> Bucket(sms, bought),
     dated |-> sms.dated # None, bought |-> bought]

LEMMA CaptureIsRun ==
    ASSUME PhoneType, NEW m \in Messages, NEW b \in Months,
           ResolveCardId(LastDigits(m)) # None
    PROVE  Capture(m, b) \in CaptureRuns
<1>1. ResolveCardId(LastDigits(m)) \in Cards
  BY ResolveIsCard
<1>2. Bucket(m, b) \in Months /\ now \in Months
  BY BucketIsMonth DEF PhoneType
<1>3. keychain.token.user \in Users \cup {None} /\ keychain.dek.user \in Users \cup {None}
  BY DEF PhoneType, Keychains, Credentials
<1>4. Torn \in BOOLEAN
  BY DEF Torn
<1> QED
  BY <1>1, <1>2, <1>3, <1>4 DEF Capture, CaptureRuns

LEMMA CaptureType ==
    ASSUME PhoneType, NEW r \in Runs, NEW m \in Messages, NEW b \in {FirstMonth, LastMonth},
           StartCapture(r, m, b)
    PROVE  PhoneType'
<1>1. b \in Months
  BY PhoneAssumption DEF Months
<1>2. Capture(m, b) \in AllRuns
  BY <1>1, CaptureIsRun DEF StartCapture, AllRuns
<1>3. run' = [run EXCEPT ![r] = Capture(m, b)]
  BY DEF StartCapture, Capture
<1> QED
  BY <1>2, <1>3, RunMovesType DEF StartCapture, PhoneType

LEMMA EncryptType ==
    ASSUME PhoneType, NEW r \in Runs, Encrypt(r)
    PROVE  PhoneType'
<1> DEFINE x == [run[r] EXCEPT !.step = "post"]
<1>1. x \in AllRuns
  BY RunKind DEF Encrypt, AllRuns, CaptureRuns
<1>2. run' = [run EXCEPT ![r] = x]
  BY DEF Encrypt, Goto, PhoneType
<1> HIDE DEF x
<1> QED
  BY <1>1, <1>2, RunMovesType DEF Encrypt, PhoneType

LEMMA TurnMonthType ==
    ASSUME PhoneType, TurnMonth
    PROVE  PhoneType'
<1>1. now' \in Months
  BY DEF TurnMonth, NextMonth, PhoneType, Months
<1> QED
  BY <1>1 DEF TurnMonth, PhoneType

LEMMA StepType ==
    ASSUME PhoneType, NumbersSound, [Next]_vars
    PROVE  PhoneType'
<1>1. CASE UNCHANGED vars
  BY <1>1 DEF PhoneType, vars
<1>2. ASSUME NEW r \in Runs, NEW u \in Users, StartSetup(r, u) PROVE PhoneType'
  BY <1>2, StartSetupType
<1>3. ASSUME NEW r \in Runs,
             \/ Login(r) \/ Derived(r) \/ WriteDek(r) \/ SetupFails(r)
             \/ StartMapping(r) \/ CardsAnswered(r) \/ AddNothing(r) \/ CloseMapping(r)
             \/ Encrypt(r) \/ Accepted(r) \/ NotAccepted(r) \/ Kill(r)
      PROVE  PhoneType'
  BY <1>3, LoginType, DerivedType, WriteDekType, EndsType, MappingType, EncryptType, KillType
<1>4. ASSUME NEW r \in Runs, NEW d \in Digits, NEW c \in Cards, AddMapping(r, d, c)
      PROVE  PhoneType'
  BY <1>4, AddMappingType
<1>5. ASSUME NEW r \in Runs, NEW c \in Cards \cup {None}, SetDefault(r, c) PROVE PhoneType'
  BY <1>5, SetDefaultType
<1>6. ASSUME NEW r \in Runs, NEW m \in Messages, NEW b \in {FirstMonth, LastMonth},
             StartCapture(r, m, b)
      PROVE  PhoneType'
  BY <1>6, CaptureType
<1> QED
  BY <1>1, <1>2, <1>3, <1>4, <1>5, <1>6, TurnMonthType DEF Next

-----------------------------------------------------------------------------
(* The two halves *)

\* A run that has not written a token begins, goes on or ends, and nothing
\* else that the halves depend on changes.
LEMMA OtherRunsKeep ==
    ASSUME CredentialInv, NEW r \in Runs, NEW x,
           run' = [run EXCEPT ![r] = x],
           ~Opened(r)', ~At(r, "setup", "dek"),
           keychain'.token = keychain.token, keychain'.dek = keychain.dek,
           UNCHANGED <<setups, disturbed>>
    PROVE  NumbersSound' /\ TokensSound' /\ HalvesSound'
<1>1. \A q \in Runs \ {r} : run'[q] = run[q]
  BY DEF CredentialInv, PhoneType
<1>2. \A q \in Runs : Opened(q)' => q # r /\ Opened(q) /\ run'[q] = run[q]
  BY <1>1 DEF Opened, At
<1>3. \A q \in Runs : \A s : q # r => (At(q, "setup", s)' <=> At(q, "setup", s))
  BY <1>1 DEF At
<1>4. Halfway' = Halfway
  BY <1>1, <1>3 DEF Halfway, Opened, At
<1>5. NumbersSound'
  BY <1>2 DEF CredentialInv, NumbersSound
<1>6. TokensSound'
  BY <1>1, <1>2, <1>3 DEF CredentialInv, TokensSound, Opened
<1> QED
  BY <1>4, <1>5, <1>6 DEF CredentialInv, HalvesSound, HalvesBelongTogether, Torn

\* An answered login takes the next number.
LEMMA LoginKeepsHalves ==
    ASSUME CredentialInv, NEW r \in Runs, Login(r)
    PROVE  NumbersSound' /\ TokensSound' /\ HalvesSound'
<1>1. setups \in Nat /\ setups' = setups + 1
  BY PhoneAssumption DEF Login, CredentialInv, PhoneType
<1>2. run[r] \in SetupRuns /\ run[r].step = "login"
  BY RunKind DEF Login, CredentialInv, At
<1>3. /\ \A q \in Runs \ {r} : run'[q] = run[q]
      /\ run'[r].by = setups' /\ run'[r].step = "master"
  BY <1>2 DEF CredentialInv, PhoneType, Login, SetupRuns
<1>4. /\ \A q \in Runs : \A s : q # r => (At(q, "setup", s)' <=> At(q, "setup", s))
      /\ ~At(r, "setup", "dek") /\ ~At(r, "setup", "dek")'
  BY <1>2, <1>3 DEF At
<1>5. Halfway' = Halfway
  BY <1>3, <1>4 DEF Halfway
<1>6. keychain' = keychain /\ disturbed' = disturbed
  BY DEF Login
<1>7. keychain.token.by \in 0..setups /\ keychain.dek.by \in 0..setups
  BY DEF CredentialInv, NumbersSound
<1>8. \A q \in Runs : q # r /\ Opened(q)' =>
        Opened(q) /\ run'[q] = run[q] /\ run[q].by \in 1..setups
  BY <1>3, <1>4 DEF Opened, CredentialInv, NumbersSound
<1>9. NumbersSound'
  <2>1. keychain'.token.by \in 0..setups' /\ keychain'.dek.by \in 0..setups'
    BY <1>1, <1>6, <1>7
  <2>2. ASSUME NEW q \in Runs, Opened(q)'
        PROVE  run'[q].by \in 1..setups' /\ keychain'.dek.by # run'[q].by
    <3>1. CASE q = r
      BY <1>1, <1>3, <1>6, <1>7, <3>1
    <3>2. CASE q # r
      BY <1>1, <1>6, <1>8, <2>2, <3>2 DEF CredentialInv, NumbersSound
    <3> QED
      BY <3>1, <3>2
  <2>3. ASSUME NEW p \in Runs, NEW q \in Runs, Opened(p)', Opened(q)',
               run'[p].by = run'[q].by
        PROVE  p = q
    <3>1. CASE p # r /\ q # r
      BY <1>8, <2>3, <3>1 DEF CredentialInv, NumbersSound
    <3>2. CASE p # r /\ q = r
      BY <1>1, <1>3, <1>8, <2>3, <3>2
    <3>3. CASE p = r /\ q # r
      BY <1>1, <1>3, <1>8, <2>3, <3>3
    <3> QED
      BY <3>1, <3>2, <3>3
  <2> QED
    BY <2>1, <2>2, <2>3 DEF NumbersSound, Opened
<1>10. TokensSound'
  <2>1. ASSUME NEW q \in Runs, At(q, "setup", "master")'
        PROVE  keychain'.token.by # run'[q].by
    <3>1. CASE q = r
      BY <1>1, <1>3, <1>6, <1>7, <3>1
    <3>2. CASE q # r
      BY <1>3, <1>4, <1>6, <2>1, <3>2 DEF CredentialInv, TokensSound
    <3> QED
      BY <3>1, <3>2
  <2>2. ASSUME NEW q \in Runs, At(q, "setup", "dek")'
        PROVE  \/ keychain'.token = Credential(run'[q].user, run'[q].by)
               \/ keychain'.token.by # run'[q].by /\ keychain'.token.by \in disturbed'
    BY <1>3, <1>4, <1>6, <2>2 DEF CredentialInv, TokensSound
  <2> QED
    BY <2>1, <2>2 DEF TokensSound
<1> QED
  BY <1>5, <1>6, <1>9, <1>10 DEF CredentialInv, HalvesSound, HalvesBelongTogether, Torn

\* A written token is that of a run halfway; who else is halfway is disturbed.
LEMMA DerivedKeepsHalves ==
    ASSUME CredentialInv, NEW r \in Runs, Derived(r)
    PROVE  NumbersSound' /\ TokensSound' /\ HalvesSound'
<1> DEFINE n == run[r].by
<1>1. Opened(r)
  BY DEF Derived, Opened
<1>2. run[r] \in SetupRuns /\ n \in 1..setups /\ n \in 1..MaxSetups
  BY <1>1, OpenedBy DEF CredentialInv
<1>3. /\ \A q \in Runs \ {r} : run'[q] = run[q]
      /\ run'[r] = [run[r] EXCEPT !.step = "dek"]
  BY DEF CredentialInv, PhoneType, Derived, Goto
<1>4. run'[r].by = n /\ run'[r].user = run[r].user /\ run'[r].kind = "setup"
      /\ run'[r].step = "dek" /\ run'[r] # None
  BY <1>2, <1>3, PhoneAssumption DEF SetupRuns
<1>5. /\ \A q \in Runs : \A s : q # r => (At(q, "setup", s)' <=> At(q, "setup", s))
      /\ At(r, "setup", "dek")' /\ ~At(r, "setup", "master")'
      /\ ~At(r, "setup", "dek")
  BY <1>3, <1>4 DEF At, Derived
<1>6. n \in Halfway'
  BY <1>4, <1>5 DEF Halfway
<1>7. /\ keychain'.token = Credential(run[r].user, n) /\ keychain'.token.by = n
      /\ keychain'.dek = keychain.dek /\ setups' = setups
  BY DEF Derived, WriteToken, CredentialInv, PhoneType, Keychains, Credential
<1>8. \A q \in Runs : Opened(q)' <=> Opened(q)
  BY <1>1, <1>5 DEF Opened
<1>9. \A q \in Runs : run'[q].by = run[q].by
  BY <1>3, <1>4
<1>10. \A q \in Runs : Opened(q) /\ q # r => run[q].by # n
  BY <1>1 DEF CredentialInv, NumbersSound
<1>11. NumbersSound'
  <2>1. keychain'.token.by \in 0..setups
    BY <1>2, <1>7, PhoneAssumption DEF CredentialInv, PhoneType
  <2> QED
    BY <1>7, <1>8, <1>9, <2>1 DEF CredentialInv, NumbersSound
<1>12. TokensSound'
  <2>1. ASSUME NEW q \in Runs, At(q, "setup", "master")'
        PROVE  keychain'.token.by # run'[q].by
    BY <1>5, <1>7, <1>9, <1>10, <2>1 DEF Opened
  <2>2. ASSUME NEW q \in Runs, At(q, "setup", "dek")', q # r
        PROVE  keychain'.token.by # run'[q].by /\ keychain'.token.by \in disturbed'
    <3>1. At(q, "setup", "dek") /\ run[q].by # n
      BY <1>5, <1>10, <2>2 DEF Opened
    <3>2. run[q].by \in Halfway \ {n}
      BY <3>1 DEF Halfway
    <3>3. n \in disturbed'
      BY <3>2 DEF Derived, WriteToken
    <3> QED
      BY <1>7, <1>9, <3>1, <3>3
  <2>3. keychain'.token = Credential(run'[r].user, run'[r].by)
    BY <1>4, <1>7
  <2> QED
    BY <1>5, <2>1, <2>2, <2>3 DEF TokensSound
<1>13. keychain'.token.by # keychain'.dek.by
  BY <1>1, <1>7 DEF CredentialInv, NumbersSound
<1> QED
  BY <1>6, <1>7, <1>11, <1>12, <1>13 DEF HalvesSound, HalvesBelongTogether, Torn

\* A run that ends between its writes, or with the second.
LEMMA EndFrame ==
    ASSUME CredentialInv, NEW r \in Runs, End(r)
    PROVE  /\ \A q \in Runs \ {r} : run'[q] = run[q]
           /\ \A s : ~At(r, "setup", s)'
           /\ \A q \in Runs : \A s : q # r => (At(q, "setup", s)' <=> At(q, "setup", s))
           /\ \A q \in Runs : Opened(q)' => Opened(q) /\ q # r /\ run'[q] = run[q]
           /\ Halfway \subseteq Halfway' \cup {run[r].by}
<1>1. /\ \A q \in Runs \ {r} : run'[q] = run[q]
      /\ run'[r] = None
  BY DEF End, CredentialInv, PhoneType
<1>2. /\ \A s : ~At(r, "setup", s)'
      /\ \A q \in Runs : \A s : q # r => (At(q, "setup", s)' <=> At(q, "setup", s))
  BY <1>1 DEF At
<1>3. Halfway \subseteq Halfway' \cup {run[r].by}
  BY <1>1, <1>2 DEF Halfway
<1> QED
  BY <1>1, <1>2, <1>3 DEF Opened

LEMMA WriteDekKeepsHalves ==
    ASSUME CredentialInv, NEW r \in Runs, WriteDek(r)
    PROVE  NumbersSound' /\ TokensSound' /\ HalvesSound'
<1> DEFINE n == run[r].by
<1>1. Opened(r) /\ At(r, "setup", "dek") /\ End(r)
  BY DEF WriteDek, Opened
<1>2. /\ \A q \in Runs \ {r} : run'[q] = run[q]
      /\ \A s : ~At(r, "setup", s)'
      /\ \A q \in Runs : \A s : q # r => (At(q, "setup", s)' <=> At(q, "setup", s))
      /\ \A q \in Runs : Opened(q)' => Opened(q) /\ q # r /\ run'[q] = run[q]
      /\ Halfway \subseteq Halfway' \cup {n}
  BY <1>1, EndFrame
<1>3. /\ keychain'.dek = Credential(run[r].user, n) /\ keychain'.dek.by = n
      /\ keychain'.token = keychain.token /\ setups' = setups /\ disturbed' = disturbed
  BY DEF WriteDek, CredentialInv, PhoneType, Keychains, Credential
<1>4. n \in 1..setups /\ \A q \in Runs : Opened(q) /\ q # r => run[q].by # n
  BY <1>1 DEF CredentialInv, NumbersSound
<1>5. NumbersSound'
  <2>1. n \in 0..setups
    BY <1>4, PhoneAssumption DEF CredentialInv, PhoneType
  <2> QED
    BY <1>2, <1>3, <1>4, <2>1 DEF CredentialInv, NumbersSound
<1>6. TokensSound'
  BY <1>2, <1>3 DEF CredentialInv, TokensSound, Opened
<1>7. \/ keychain.token = Credential(run[r].user, n)
      \/ keychain.token.by # n /\ keychain.token.by \in disturbed
  BY <1>1 DEF CredentialInv, TokensSound
<1>8. HalvesSound'
  <2>1. CASE keychain.token = Credential(run[r].user, n)
    BY <1>3, <2>1 DEF HalvesSound, HalvesBelongTogether, Torn
  <2>2. CASE keychain.token.by # n /\ keychain.token.by \in disturbed
    BY <1>3, <2>2 DEF HalvesSound, HalvesBelongTogether, Torn
  <2> QED
    BY <1>7, <2>1, <2>2
<1> QED
  BY <1>5, <1>6, <1>8

LEMMA KillKeepsHalves ==
    ASSUME CredentialInv, NEW r \in Runs, Kill(r)
    PROVE  NumbersSound' /\ TokensSound' /\ HalvesSound'
<1>1. End(r) /\ UNCHANGED <<keychain, setups>> /\ disturbed \subseteq disturbed'
  BY DEF Kill
<1>2. /\ \A q \in Runs \ {r} : run'[q] = run[q]
      /\ \A s : ~At(r, "setup", s)'
      /\ \A q \in Runs : \A s : q # r => (At(q, "setup", s)' <=> At(q, "setup", s))
      /\ \A q \in Runs : Opened(q)' => Opened(q) /\ q # r /\ run'[q] = run[q]
      /\ Halfway \subseteq Halfway' \cup {run[r].by}
  BY <1>1, EndFrame
<1>3. Halfway \subseteq Halfway' \cup disturbed'
  <2>1. CASE At(r, "setup", "dek")
    BY <1>2, <2>1 DEF Kill
  <2>2. CASE ~At(r, "setup", "dek")
    BY <1>2, <2>2 DEF Halfway
  <2> QED
    BY <2>1, <2>2
<1>4. NumbersSound'
  BY <1>1, <1>2 DEF CredentialInv, NumbersSound
<1>5. TokensSound'
  BY <1>1, <1>2 DEF CredentialInv, TokensSound, Opened
<1> QED
  BY <1>1, <1>3, <1>4, <1>5 DEF CredentialInv, HalvesSound, HalvesBelongTogether, Torn

\* What a run of the map or of a message does leaves the halves as they are.
LEMMA OtherStepsKeep ==
    ASSUME CredentialInv, NEW r \in Runs,
           \/ \E u \in Users : StartSetup(r, u)
           \/ SetupFails(r)
           \/ StartMapping(r) \/ CardsAnswered(r) \/ AddNothing(r) \/ CloseMapping(r)
           \/ \E d \in Digits, c \in Cards : AddMapping(r, d, c)
           \/ \E c \in Cards \cup {None} : SetDefault(r, c)
           \/ \E m \in Messages, b \in {FirstMonth, LastMonth} : StartCapture(r, m, b)
           \/ Encrypt(r) \/ Accepted(r) \/ NotAccepted(r)
    PROVE  NumbersSound' /\ TokensSound' /\ HalvesSound'
<1>1. run \in [Runs -> AllRuns] /\ keychain \in Keychains
  BY DEF CredentialInv, PhoneType
<1>2. PhoneType
  BY DEF CredentialInv
<1>3. ASSUME NEW u \in Users, StartSetup(r, u) PROVE NumbersSound' /\ TokensSound' /\ HalvesSound'
  <2> DEFINE x == [kind |-> "setup", step |-> "login", user |-> u, by |-> None]
  <2>1. run' = [run EXCEPT ![r] = x] /\ ~At(r, "setup", "dek")
    BY <1>3 DEF StartSetup, At
  <2>2. ~Opened(r)'
    BY <1>1, <2>1 DEF Opened, At
  <2> QED
    BY <1>3, <2>1, <2>2, OtherRunsKeep DEF StartSetup
<1>4. ASSUME End(r), ~At(r, "setup", "dek"),
             keychain'.token = keychain.token, keychain'.dek = keychain.dek,
             UNCHANGED <<setups, disturbed>>
      PROVE  NumbersSound' /\ TokensSound' /\ HalvesSound'
  <2>1. ~Opened(r)'
    BY <1>4, EndFrame DEF Opened
  <2> QED
    BY <1>4, <2>1, OtherRunsKeep DEF End
<1>5. CASE SetupFails(r) \/ CloseMapping(r) \/ Accepted(r) \/ NotAccepted(r)
  BY <1>4, <1>5 DEF SetupFails, CloseMapping, Accepted, NotAccepted, At
<1>6. ASSUME NEW c \in Cards \cup {None}, SetDefault(r, c)
      PROVE  NumbersSound' /\ TokensSound' /\ HalvesSound'
  <2>1. keychain'.token = keychain.token /\ keychain'.dek = keychain.dek
    BY <1>1, <1>6 DEF SetDefault, Keychains
  <2> QED
    BY <1>4, <1>6, <2>1 DEF SetDefault, At
<1>7. ASSUME NEW x, run' = [run EXCEPT ![r] = x], x.kind # "setup",
             ~At(r, "setup", "dek"),
             keychain'.token = keychain.token, keychain'.dek = keychain.dek,
             UNCHANGED <<setups, disturbed>>
      PROVE  NumbersSound' /\ TokensSound' /\ HalvesSound'
  <2>1. ~Opened(r)'
    BY <1>1, <1>7 DEF Opened, At
  <2> QED
    BY <1>7, <2>1, OtherRunsKeep
<1>8. CASE StartMapping(r)
  <2> DEFINE x == [kind |-> "mapping", step |-> "fetch", map |-> NoMap, at |-> 0]
  <2>1. run' = [run EXCEPT ![r] = x] /\ x.kind # "setup" /\ ~At(r, "setup", "dek")
    BY <1>8 DEF StartMapping, At
  <2> HIDE DEF x
  <2> QED
    BY <1>7, <1>8, <2>1 DEF StartMapping
<1>9. CASE CardsAnswered(r)
  <2> DEFINE x == [run[r] EXCEPT !.step = "choose", !.map = keychain.map, !.at = saves]
  <2>1. run[r] \in MappingRuns /\ ~At(r, "setup", "dek")
    BY <1>2, <1>9, RunKind DEF CardsAnswered, At
  <2>2. run' = [run EXCEPT ![r] = x] /\ x.kind # "setup"
    BY <1>1, <1>9, <2>1 DEF CardsAnswered, MappingRuns
  <2> HIDE DEF x
  <2> QED
    BY <1>7, <1>9, <2>1, <2>2 DEF CardsAnswered
<1>10. CASE AddNothing(r)
  <2> DEFINE x == [run[r] EXCEPT !.step = "default"]
  <2>1. run[r] \in MappingRuns /\ ~At(r, "setup", "dek")
    BY <1>2, <1>10, RunKind DEF AddNothing, At
  <2>2. run' = [run EXCEPT ![r] = x] /\ x.kind # "setup"
    BY <1>1, <1>10, <2>1 DEF AddNothing, Goto, MappingRuns
  <2> HIDE DEF x
  <2> QED
    BY <1>7, <1>10, <2>1, <2>2 DEF AddNothing
<1>11. ASSUME NEW d \in Digits, NEW c \in Cards, AddMapping(r, d, c)
       PROVE  NumbersSound' /\ TokensSound' /\ HalvesSound'
  <2> DEFINE x == [run[r] EXCEPT !.step = "default"]
  <2>1. run[r] \in MappingRuns /\ ~At(r, "setup", "dek")
    BY <1>2, <1>11, RunKind DEF AddMapping, At
  <2>2. run' = [run EXCEPT ![r] = x] /\ x.kind # "setup"
    BY <1>1, <1>11, <2>1 DEF AddMapping, Goto, MappingRuns
  <2>3. keychain'.token = keychain.token /\ keychain'.dek = keychain.dek
    BY <1>1, <1>11 DEF AddMapping, Keychains
  <2> HIDE DEF x
  <2> QED
    BY <1>7, <1>11, <2>1, <2>2, <2>3 DEF AddMapping
<1>12. ASSUME NEW m \in Messages, NEW b \in {FirstMonth, LastMonth}, StartCapture(r, m, b)
       PROVE  NumbersSound' /\ TokensSound' /\ HalvesSound'
  <2>1. run' = [run EXCEPT ![r] = Capture(m, b)] /\ ~At(r, "setup", "dek")
    BY <1>12 DEF StartCapture, Capture, At
  <2>2. Capture(m, b).kind # "setup"
    BY DEF Capture
  <2> QED
    BY <1>7, <1>12, <2>1, <2>2 DEF StartCapture
<1>13. CASE Encrypt(r)
  <2> DEFINE x == [run[r] EXCEPT !.step = "post"]
  <2>1. run[r] \in CaptureRuns /\ ~At(r, "setup", "dek")
    BY <1>2, <1>13, RunKind DEF Encrypt, At
  <2>2. run' = [run EXCEPT ![r] = x] /\ x.kind # "setup"
    BY <1>1, <1>13, <2>1 DEF Encrypt, Goto, CaptureRuns
  <2> HIDE DEF x
  <2> QED
    BY <1>7, <1>13, <2>1, <2>2 DEF Encrypt
<1> QED
  BY <1>3, <1>5, <1>6, <1>8, <1>9, <1>10, <1>11, <1>12, <1>13

LEMMA CredentialStep == CredentialInv /\ [Next]_vars => CredentialInv'
<1> SUFFICES ASSUME CredentialInv, [Next]_vars PROVE CredentialInv'
  OBVIOUS
<1>1. PhoneType'
  BY StepType DEF CredentialInv
<1>2. NumbersSound' /\ TokensSound' /\ HalvesSound'
  <2>1. CASE UNCHANGED vars \/ TurnMonth
    <3>1. UNCHANGED <<keychain, run, setups, disturbed>>
      BY <2>1 DEF vars, TurnMonth
    <3> QED
      BY <3>1 DEF CredentialInv, NumbersSound, TokensSound, HalvesSound,
                  HalvesBelongTogether, Torn, Halfway, Opened, At
  <2>2. ASSUME NEW r \in Runs, Login(r) \/ Derived(r) \/ WriteDek(r) \/ Kill(r)
        PROVE  NumbersSound' /\ TokensSound' /\ HalvesSound'
    BY <2>2, LoginKeepsHalves, DerivedKeepsHalves, WriteDekKeepsHalves, KillKeepsHalves
  <2> QED
    BY <2>1, <2>2, OtherStepsKeep DEF Next
<1> QED
  BY <1>1, <1>2 DEF CredentialInv

LEMMA CredentialStart == Init => CredentialInv
<1> SUFFICES ASSUME Init PROVE CredentialInv
  OBVIOUS
<1>1. \A r \in Runs : run[r] = None
  BY DEF Init
<1>2. /\ setups = 0 /\ keychain.token = Credential(None, 0)
      /\ keychain.dek = Credential(None, 0)
  BY DEF Init
<1>3. NumbersSound
  BY <1>1, <1>2 DEF NumbersSound, Opened, At, Credential
<1>4. TokensSound /\ HalvesSound
  BY <1>1, <1>2 DEF TokensSound, HalvesSound, HalvesBelongTogether, Torn, At
<1> QED
  BY <1>3, <1>4, InitType DEF CredentialInv

(***************************************************************************)
(* The Keychain, the runs and the counters have their types.               *)
(***************************************************************************)
THEOREM PhoneTypes == Spec => []TypeOK
<1>1. CredentialInv => TypeOK
  <2> SUFFICES ASSUME CredentialInv PROVE TypeOK
    OBVIOUS
  <2>1. PICK D \in SUBSET Digits : keychain.map \in [D -> Cards]
    BY DEF CredentialInv, PhoneType, Keychains, Maps
  <2> QED
    BY <2>1 DEF CredentialInv, PhoneType, TypeOK, Keychains
<1> QED
  BY <1>1, CredentialStart, CredentialStep, PTL DEF Spec

(***************************************************************************)
(* Only a set-up between its writes, one killed there, or one met there by *)
(* another leaves a token and a key of two set-ups.                        *)
(***************************************************************************)
THEOREM PhoneHalves == Spec => []HalvesBelongTogether
<1>1. CredentialInv => HalvesBelongTogether
  BY DEF CredentialInv, HalvesSound
<1> QED
  BY <1>1, CredentialStart, CredentialStep, PTL DEF Spec

-----------------------------------------------------------------------------
(* Rows and months *)

Capturing(q) == run[q] # None /\ run[q].kind = "capture"

\* A run that captures began so, or captured before with the same contents.
LEMMA CaptureFrame ==
    ASSUME PhoneType, [Next]_vars, NEW q \in Runs, Capturing(q)',
           ~\E m \in Messages, b \in {FirstMonth, LastMonth} : StartCapture(q, m, b)
    PROVE  /\ Capturing(q) /\ run[q] \in CaptureRuns
           /\ run'[q] = run[q] \/ run'[q] = [run[q] EXCEPT !.step = "post"]
<1>1. run \in [Runs -> AllRuns]
  BY DEF PhoneType
<1>2. Capturing(q) => run[q] \in CaptureRuns
  BY <1>1 DEF Capturing, AllRuns, SetupRuns, MappingRuns
<1>3. CASE run'[q] = run[q]
  BY <1>2, <1>3 DEF Capturing
<1>4. ASSUME NEW r \in Runs, NEW x, run' = [run EXCEPT ![r] = x],
             x = None \/ x.kind # "capture"
      PROVE  run'[q] = run[q]
  BY <1>1, <1>4 DEF Capturing
<1>5. ASSUME NEW r \in Runs, At(r, "setup", "login") \/ At(r, "setup", "master")
      PROVE  run[r] \in SetupRuns
  BY <1>5, RunKind
<1>6. ASSUME NEW r \in Runs, At(r, "mapping", "fetch") \/ At(r, "mapping", "choose")
      PROVE  run[r] \in MappingRuns
  BY <1>6, RunKind
<1>7. ASSUME NEW r \in Runs,
             \/ \E u \in Users : StartSetup(r, u)
             \/ WriteDek(r) \/ SetupFails(r) \/ StartMapping(r) \/ CloseMapping(r)
             \/ \E c \in Cards \cup {None} : SetDefault(r, c)
             \/ Accepted(r) \/ NotAccepted(r) \/ Kill(r)
      PROVE  run'[q] = run[q]
  BY <1>4, <1>7 DEF StartSetup, WriteDek, SetupFails, StartMapping, CloseMapping,
                    SetDefault, Accepted, NotAccepted, Kill, End
<1>8. ASSUME NEW r \in Runs, Login(r) \/ Derived(r)
      PROVE  run'[q] = run[q]
  BY <1>1, <1>5, <1>8 DEF Login, Derived, Goto, Capturing, SetupRuns
<1>9. ASSUME NEW r \in Runs,
             \/ CardsAnswered(r) \/ AddNothing(r)
             \/ \E d \in Digits, c \in Cards : AddMapping(r, d, c)
      PROVE  run'[q] = run[q]
  BY <1>1, <1>6, <1>9 DEF CardsAnswered, AddNothing, AddMapping, Goto, Capturing, MappingRuns
<1>10. ASSUME NEW r \in Runs, Encrypt(r)
       PROVE  run'[q] = run[q] \/ (Capturing(q) /\ run'[q] = [run[q] EXCEPT !.step = "post"])
  BY <1>1, <1>10 DEF Encrypt, Goto, At, Capturing
<1>11. ASSUME NEW r \in Runs,
              \E m \in Messages, b \in {FirstMonth, LastMonth} : StartCapture(r, m, b)
       PROVE  run'[q] = run[q]
  <2>1. r # q
    BY <1>11
  <2> QED
    BY <1>1, <1>11, <2>1 DEF StartCapture
<1>12. CASE UNCHANGED vars \/ TurnMonth
  BY <1>3, <1>12 DEF vars, TurnMonth
<1> QED
  BY <1>2, <1>3, <1>7, <1>8, <1>9, <1>10, <1>11, <1>12 DEF Next

\* Of a run that captures: it found two halves, or a user's token and key.
RowsInv ==
    /\ \A r \in Runs : Capturing(r) => run[r].torn \/ run[r].token = run[r].dek
    /\ RowsReadable

LEMMA StartedCapture ==
    ASSUME PhoneType, NEW r \in Runs, NEW m \in Messages, NEW b, StartCapture(r, m, b)
    PROVE  run'[r] = Capture(m, b)
BY DEF PhoneType, StartCapture, Capture

LEMMA RowsStep == CredentialInv /\ RowsInv /\ [Next]_vars => RowsInv'
<1> SUFFICES ASSUME CredentialInv, RowsInv, [Next]_vars PROVE RowsInv'
  OBVIOUS
<1>1. ASSUME NEW r \in Runs, Capturing(r)'
      PROVE  (run[r].torn \/ run[r].token = run[r].dek)'
  <2>1. ASSUME NEW m \in Messages, NEW b \in {FirstMonth, LastMonth}, StartCapture(r, m, b)
        PROVE  (run[r].torn \/ run[r].token = run[r].dek)'
    <3>1. run'[r] = Capture(m, b)
      BY <2>1, StartedCapture DEF CredentialInv
    <3>2. Torn \/ keychain.token.user = keychain.dek.user
      BY DEF CredentialInv, HalvesSound, Torn
    <3> QED
      BY <3>1, <3>2 DEF Capture
  <2>2. CASE ~\E m \in Messages, b \in {FirstMonth, LastMonth} : StartCapture(r, m, b)
    <3>1. /\ Capturing(r) /\ run[r] \in CaptureRuns
          /\ run'[r] = run[r] \/ run'[r] = [run[r] EXCEPT !.step = "post"]
      BY <1>1, <2>2, CaptureFrame DEF CredentialInv
    <3>2. run[r].torn \/ run[r].token = run[r].dek
      BY <3>1 DEF RowsInv
    <3> QED
      BY <3>1, <3>2 DEF CaptureRuns
  <2> QED
    BY <2>1, <2>2
<1>2. RowsReadable'
  <2>1. ASSUME NEW r \in Runs, Accepted(r) PROVE RowsReadable'
    BY <2>1 DEF Accepted, At, RowsInv, RowsReadable, Capturing
  <2>2. CASE stored' = stored
    BY <2>2 DEF RowsInv, RowsReadable
  <2>3. stored' = stored \/ \E r \in Runs : Accepted(r)
    BY DEF Next, vars, StartSetup, Login, Derived, WriteDek, SetupFails, StartMapping,
           CardsAnswered, AddNothing, CloseMapping, AddMapping, SetDefault, StartCapture,
           Encrypt, NotAccepted, Kill, TurnMonth
  <2> QED
    BY <2>1, <2>2, <2>3
<1> QED
  BY <1>1, <1>2 DEF RowsInv, Capturing

(***************************************************************************)
(* Unless its run found two halves, a stored row is encrypted with the key *)
(* of the user it is stored for.                                           *)
(***************************************************************************)
THEOREM PhoneRowsReadable == Spec => []RowsReadable
<1>1. Init => RowsInv
  BY DEF Init, RowsInv, RowsReadable, Capturing
<1>2. RowsInv => RowsReadable
  BY DEF RowsInv
<1> QED
  BY <1>1, <1>2, CredentialStart, CredentialStep, RowsStep, PTL DEF Spec

-----------------------------------------------------------------------------
(* The card map *)

\* A run about to change the map has it as it loaded it: what was saved since
\* is all that it may lack.
MapInv ==
    \A r \in Runs : At(r, "mapping", "choose") =>
        /\ run[r].at \in 0..saves
        /\ \A d \in DOMAIN keychain.map : savedAt[d] <= run[r].at =>
             d \in DOMAIN run[r].map /\ run[r].map[d] = keychain.map[d]

\* Who changes the map, and which runs have it loaded.
LEMMA MapFrame ==
    ASSUME PhoneType, [Next]_vars,
           ~\E r \in Runs, d \in Digits, c \in Cards : AddMapping(r, d, c)
    PROVE  /\ keychain'.map = keychain.map /\ savedAt' = savedAt /\ saves' = saves
           /\ \A q \in Runs : At(q, "mapping", "choose")' =>
                \/ At(q, "mapping", "choose") /\ run'[q] = run[q]
                \/ CardsAnswered(q)
<1>1. run \in [Runs -> AllRuns] /\ keychain \in Keychains
  BY DEF PhoneType
<1>2. keychain'.map = keychain.map /\ savedAt' = savedAt /\ saves' = saves
  <2>1. ASSUME NEW r \in Runs,
               \/ Derived(r) \/ WriteDek(r)
               \/ \E c \in Cards \cup {None} : SetDefault(r, c)
        PROVE  keychain'.map = keychain.map /\ savedAt' = savedAt /\ saves' = saves
    BY <1>1, <2>1 DEF Derived, WriteToken, WriteDek, SetDefault, Keychains
  <2> QED
    BY <2>1 DEF Next, vars, StartSetup, Login, SetupFails, StartMapping, CardsAnswered,
                AddNothing, CloseMapping, StartCapture, Encrypt, Accepted, NotAccepted,
                Kill, TurnMonth
<1>3. ASSUME NEW q \in Runs, At(q, "mapping", "choose")'
      PROVE  (At(q, "mapping", "choose") /\ run'[q] = run[q]) \/ CardsAnswered(q)
  <2>1. CASE run'[q] = run[q]
    BY <1>3, <2>1 DEF At
  <2>2. ASSUME NEW r \in Runs,
               \/ \E u \in Users : StartSetup(r, u)
               \/ WriteDek(r) \/ SetupFails(r) \/ StartMapping(r) \/ CloseMapping(r)
               \/ \E c \in Cards \cup {None} : SetDefault(r, c)
               \/ Accepted(r) \/ NotAccepted(r) \/ Kill(r)
        PROVE  run'[q] = run[q]
    BY <1>1, <1>3, <2>2 DEF StartSetup, WriteDek, SetupFails, StartMapping, CloseMapping,
                    SetDefault, Accepted, NotAccepted, Kill, End, At
  <2>3. ASSUME NEW r \in Runs, Login(r) \/ Derived(r)
        PROVE  run'[q] = run[q]
    <3>1. run[r] \in SetupRuns
      BY <2>3, RunKind DEF Login, Derived
    <3> QED
      BY <1>1, <1>3, <2>3, <3>1 DEF Login, Derived, Goto, At, SetupRuns
  <2>4. ASSUME NEW r \in Runs, AddNothing(r)
        PROVE  run'[q] = run[q]
    <3>1. run[r] \in MappingRuns
      BY <2>4, RunKind DEF AddNothing
    <3> QED
      BY <1>1, <1>3, <2>4, <3>1 DEF AddNothing, Goto, At, MappingRuns
  <2>5. ASSUME NEW r \in Runs, Encrypt(r)
        PROVE  run'[q] = run[q]
    <3>1. run[r] \in CaptureRuns
      BY <2>5, RunKind DEF Encrypt
    <3> QED
      BY <1>1, <1>3, <2>5, <3>1 DEF Encrypt, Goto, At, CaptureRuns
  <2>6. ASSUME NEW r \in Runs, NEW m, NEW b, StartCapture(r, m, b)
        PROVE  run'[q] = run[q]
    BY <1>1, <1>3, <2>6 DEF StartCapture, At
  <2>7. ASSUME NEW r \in Runs, CardsAnswered(r)
        PROVE  run'[q] = run[q] \/ CardsAnswered(q)
    BY <1>1, <2>7 DEF CardsAnswered
  <2>8. CASE UNCHANGED vars \/ TurnMonth
    BY <2>1, <2>8 DEF vars, TurnMonth
  <2> QED
    BY <2>1, <2>2, <2>3, <2>4, <2>5, <2>6, <2>7, <2>8 DEF Next
<1> QED
  BY <1>2, <1>3

LEMMA MapIsMap ==
    ASSUME PhoneType
    PROVE  /\ \A d \in DOMAIN keychain.map :
                keychain.map[d] \in Cards /\ savedAt[d] \in 1..saves
           /\ saves \in Nat
<1>1. PICK D \in SUBSET Digits : keychain.map \in [D -> Cards]
  BY DEF PhoneType, Keychains, Maps
<1> QED
  BY <1>1, PhoneAssumption DEF PhoneType

LEMMA AddMappingFrame ==
    ASSUME PhoneType, NEW q \in Runs, NEW e \in Digits, NEW c \in Cards, AddMapping(q, e, c)
    PROVE  /\ keychain'.map = With(run[q].map, e, c) /\ saves' = saves + 1
           /\ \A r \in Runs : At(r, "mapping", "choose")' =>
                At(r, "mapping", "choose") /\ run'[r] = run[r]
           /\ \A d \in DOMAIN keychain'.map : savedAt'[d] < saves' =>
                /\ d \in DOMAIN keychain.map /\ keychain'.map[d] = keychain.map[d]
                /\ savedAt'[d] = savedAt[d]
<1>1. keychain'.map = With(run[q].map, e, c) /\ saves' = saves + 1
  BY DEF AddMapping, PhoneType, Keychains
<1>2. run[q] \in MappingRuns
  BY RunKind DEF AddMapping
<1>3. ASSUME NEW r \in Runs, At(r, "mapping", "choose")'
      PROVE  At(r, "mapping", "choose") /\ run'[r] = run[r]
  <2>1. run'[r] = run[r]
    BY <1>2, <1>3 DEF PhoneType, AddMapping, Goto, At, MappingRuns
  <2> QED
    BY <1>3, <2>1 DEF At
<1>4. ASSUME NEW d \in DOMAIN keychain'.map, savedAt'[d] < saves'
      PROVE  /\ d \in DOMAIN keychain.map /\ keychain'.map[d] = keychain.map[d]
             /\ savedAt'[d] = savedAt[d]
  <2>1. savedAt'[d] = IF d = e \/ Changed(d) THEN saves' ELSE savedAt[d]
    BY DEF AddMapping
  <2>2. saves' \in Nat
    BY <1>1, MapIsMap
  <2>3. ~Changed(d) /\ d # e
    BY <1>4, <2>1, <2>2
  <2> QED
    BY <2>1, <2>3 DEF Changed
<1> QED
  BY <1>1, <1>3, <1>4

LEMMA MapStep == CredentialInv /\ MapInv /\ [Next]_vars => MapInv'
<1> SUFFICES ASSUME CredentialInv, MapInv, [Next]_vars,
                    NEW r \in Runs, At(r, "mapping", "choose")'
             PROVE  (/\ run[r].at \in 0..saves
                     /\ \A d \in DOMAIN keychain.map : savedAt[d] <= run[r].at =>
                          d \in DOMAIN run[r].map /\ run[r].map[d] = keychain.map[d])'
  BY DEF MapInv
<1> USE DEF CredentialInv
<1>1. ASSUME NEW q \in Runs, NEW e \in Digits, NEW c \in Cards, AddMapping(q, e, c)
      PROVE  (/\ run[r].at \in 0..saves
              /\ \A d \in DOMAIN keychain.map : savedAt[d] <= run[r].at =>
                   d \in DOMAIN run[r].map /\ run[r].map[d] = keychain.map[d])'
  <2>1. /\ At(r, "mapping", "choose") /\ run'[r] = run[r] /\ saves' = saves + 1
        /\ saves \in Nat /\ run[r].at \in 0..saves
    BY <1>1, AddMappingFrame, MapIsMap DEF MapInv
  <2>2. ASSUME NEW d \in DOMAIN keychain'.map, savedAt'[d] <= run[r].at
        PROVE  d \in DOMAIN run[r].map /\ run[r].map[d] = keychain'.map[d]
    <3>1. savedAt'[d] \in 1..saves'
      BY StepType, MapIsMap DEF PhoneType
    <3>2. savedAt'[d] < saves'
      BY <2>1, <2>2, <3>1
    <3>3. /\ d \in DOMAIN keychain.map /\ keychain'.map[d] = keychain.map[d]
          /\ savedAt'[d] = savedAt[d]
      BY <1>1, <3>2, AddMappingFrame
    <3> QED
      BY <2>1, <2>2, <3>3 DEF MapInv
  <2> QED
    BY <2>1, <2>2
<1>2. CASE ~\E q \in Runs, d \in Digits, c \in Cards : AddMapping(q, d, c)
  <2>1. keychain'.map = keychain.map /\ savedAt' = savedAt /\ saves' = saves
    BY <1>2, MapFrame
  <2>2. CASE At(r, "mapping", "choose") /\ run'[r] = run[r]
    BY <2>1, <2>2 DEF MapInv
  <2>3. CASE CardsAnswered(r)
    <3>1. run[r] \in MappingRuns
      BY <2>3, RunKind DEF CardsAnswered
    <3>2. run'[r].map = keychain.map /\ run'[r].at = saves
      BY <2>3, <3>1 DEF CardsAnswered, PhoneType, MappingRuns
    <3> QED
      BY <2>1, <3>2, MapIsMap
  <2> QED
    BY <1>2, <2>2, <2>3, MapFrame
<1> QED
  BY <1>1, <1>2

(***************************************************************************)
(* Digits lose their card, or get an older one back, only from a mapping   *)
(* run that loaded the map before they were given it.                      *)
(***************************************************************************)
THEOREM PhoneMappings == Spec => MappingsLostOnlyToOlderRuns
<1> DEFINE Kept(d) == d \in DOMAIN keychain'.map /\ keychain'.map[d] = keychain.map[d]
           Older(d) == \E r \in Runs : /\ At(r, "mapping", "choose")
                                       /\ \/ run[r].at < savedAt[d]
                                          \/ \E c \in Cards : AddMapping(r, d, c)
<1>1. Init => MapInv
  BY DEF Init, MapInv, At
<1>2. CredentialInv /\ MapInv /\ [Next]_vars =>
        \A d \in DOMAIN keychain.map : Kept(d) \/ Older(d)
  <2> SUFFICES ASSUME CredentialInv, MapInv, [Next]_vars, NEW d \in DOMAIN keychain.map
               PROVE  Kept(d) \/ Older(d)
    OBVIOUS
  <2> USE DEF CredentialInv
  <2>1. ASSUME NEW r \in Runs, NEW e \in Digits, NEW c \in Cards, AddMapping(r, e, c)
        PROVE  Kept(d) \/ Older(d)
    <3>1. /\ At(r, "mapping", "choose") /\ keychain'.map = With(run[r].map, e, c)
          /\ run[r].at \in 0..saves /\ saves \in Nat /\ savedAt[d] \in 1..saves
      BY <2>1, AddMappingFrame, MapIsMap DEF AddMapping, MapInv
    <3>2. CASE d = e
      BY <2>1, <3>1, <3>2
    <3>3. CASE d # e /\ savedAt[d] <= run[r].at
      <4>1. d \in DOMAIN run[r].map /\ run[r].map[d] = keychain.map[d]
        BY <3>1, <3>3 DEF MapInv
      <4> QED
        BY <3>1, <3>3, <4>1 DEF With
    <3>4. CASE ~(savedAt[d] <= run[r].at)
      <4>1. run[r].at < savedAt[d]
        BY <3>1, <3>4
      <4> QED
        BY <3>1, <4>1
    <3> QED
      BY <3>2, <3>3, <3>4
  <2>2. CASE ~\E r \in Runs, e \in Digits, c \in Cards : AddMapping(r, e, c)
    BY <2>2, MapFrame
  <2> QED
    BY <2>1, <2>2
<1>3. CredentialInv /\ MapInv /\ [Next]_vars =>
        [ \A d \in DOMAIN keychain.map :
            \/ d \in DOMAIN keychain'.map /\ keychain'.map[d] = keychain.map[d]
            \/ \E r \in Runs : /\ At(r, "mapping", "choose")
                               /\ \/ run[r].at < savedAt[d]
                                  \/ \E c \in Cards : AddMapping(r, d, c) ]_vars
  BY <1>2
<1> QED
  BY <1>1, <1>3, CredentialStart, CredentialStep, MapStep, PTL
     DEF Spec, MappingsLostOnlyToOlderRuns
=============================================================================
