-------------------------- MODULE DashboardProofs --------------------------
(***************************************************************************)
(* The parts of the dashboard that live in one tab's memory and URL.       *)
(*   - The session, for any users, lifetimes, delays and numbers of calls  *)
(*     in flight: the refresh timer keeps its minimum interval, and only   *)
(*     an answer that was asked for under an earlier session mixes two     *)
(*     users up in one tab.                                                *)
(*   - The filters, for any transactions, texts, bounds and months: the    *)
(*     URL gives back what was asked for, and a change costs no other      *)
(*     filter.  The month arithmetic, for any month and offset, and the    *)
(*     chart's sums, for any transactions, rest on least counterexamples,  *)
(*     as < is well founded on the naturals.                               *)
(***************************************************************************)
EXTENDS Session, DashboardFilters, FiniteSetTheorems, WellFoundedInduction,
    TLAPS

-----------------------------------------------------------------------------
(***************************************************************************)
(* THE SESSION                                                             *)
(***************************************************************************)

Kinds == {"login", "unlock", "refresh"}
Steps == {"away", "credentials", "master-password"}
Pages == [step: Steps, data: Users \cup {None}, loading: BOOLEAN]

Calls ==
    [kind: Kinds, user: Users, token: Token \cup {None},
     answer: Token \cup Users \cup {None, Failed}, mine: BOOLEAN, late: BOOLEAN]

\* What an answer is about is what was asked for.
AnswerSound(c) ==
    IF c.kind = "unlock" THEN c.answer \in {Failed, c.user}
    ELSE c.answer \notin {None, Failed} => c.answer \in Token /\ c.answer.user = c.user

CallsSound == \A c \in calls : c \in Calls /\ AnswerSound(c)

PageSound ==
    /\ page \in Pages
    /\ page.step = "master-password" => page.data \in Users
    /\ IsUnlocked(session) <=> page = Away

\* The second step of LoginPage is shown because some login made a session, and
\* that login made all others late.
LoginsLate ==
    page.step = "master-password" => \A c \in calls : c.kind = "login" => c.late

TimerSound ==
    /\ timer \in 0..Max2(Lifetime, MinDelay) \cup {None}
    /\ quiet \in 0..MinDelay
    /\ session = None => timer = None
    /\ NoRapidRefresh

SessionInv ==
    /\ session \in Sessions \cup {None}
    /\ CallsSound /\ PageSound /\ LoginsLate /\ TimerSound

-----------------------------------------------------------------------------
(* Parts of steps *)

LEMMA Bounds ==
    /\ Lifetime \in Nat /\ Margin \in Nat /\ MinDelay \in Nat /\ Leeway \in Nat
    /\ Expired \in Int /\ Expired < 0
BY SessionAssumption DEF Expired

LEMMA AgedIsToken ==
    ASSUME NEW t \in Token
    PROVE  Aged(t) \in Token /\ Aged(t).user = t.user
<1>1. Max2(t.left - 1, Expired) \in Expired..Lifetime
  BY Bounds DEF Token, Max2
<1> QED
  BY <1>1 DEF Token, Aged

LEMMA DelayBounds ==
    ASSUME NEW t \in Token
    PROVE  Delay(t) \in MinDelay..Max2(Lifetime, MinDelay)
BY Bounds DEF Delay, Token, Max2

\* A new session's timer waits the minimum, or is the one that was set before.
LEMMA RescheduledSound ==
    ASSUME SessionInv, NEW s \in Sessions \cup {None}, SetSession(s), quiet' = quiet
    PROVE  session' \in Sessions \cup {None} /\ TimerSound'
<1>1. CASE s = None
  BY <1>1 DEF SetSession, Rescheduled, SessionInv, TimerSound, NoRapidRefresh
<1>2. CASE s # None /\ session # None /\ s.token = session.token
  BY <1>2 DEF SetSession, Rescheduled, SessionInv, TimerSound, NoRapidRefresh
<1>3. CASE s # None /\ ~(session # None /\ s.token = session.token)
  <2>1. timer' = Delay(s.token) /\ s.token \in Token
    BY <1>3 DEF SetSession, Rescheduled, Sessions
  <2>2. timer' \in MinDelay..Max2(Lifetime, MinDelay)
    BY <2>1, DelayBounds
  <2> QED
    BY <1>3, <2>2, Bounds DEF SetSession, SessionInv, TimerSound, NoRapidRefresh, Max2
<1> QED
  BY <1>1, <1>2, <1>3

LEMMA RoutedSound ==
    ASSUME NEW s \in Sessions \cup {None}, NEW p \in Pages
    PROVE  /\ Routed(s, p) \in {Away, FreshPage, p} /\ Routed(s, p) \in Pages
           /\ IsUnlocked(s) <=> Routed(s, p) = Away
           /\ Routed(s, p).step = "master-password" => Routed(s, p) = p
BY DEF Routed, Away, FreshPage, Pages, Steps, IsUnlocked

LEMMA MarkedCalls ==
    ASSUME CallsSound, NEW cs \in SUBSET calls
    PROVE  /\ \A c \in Overtaken(cs) : c \in Calls /\ AnswerSound(c) /\ c.late
           /\ \A c \in Detached(cs) :
                /\ c \in Calls /\ AnswerSound(c)
                /\ \E d \in cs : c.late = d.late /\ c.kind = d.kind /\ c.user = d.user
<1>1. ASSUME NEW d \in cs, NEW c, c = [d EXCEPT !.late = TRUE] \/ c = [d EXCEPT !.mine = FALSE]
      PROVE  /\ c \in Calls /\ c.kind = d.kind /\ c.user = d.user /\ c.answer = d.answer
             /\ AnswerSound(c)
  <2>1. d \in Calls /\ AnswerSound(d)
    BY DEF CallsSound
  <2>2. c \in Calls /\ c.kind = d.kind /\ c.user = d.user /\ c.answer = d.answer
    BY <1>1, <2>1 DEF Calls
  <2> QED
    BY <2>1, <2>2 DEF AnswerSound
<1>2. \A d \in cs : d \in Calls
  BY DEF CallsSound
<1>3. ASSUME NEW c \in Overtaken(cs) PROVE c \in Calls /\ AnswerSound(c) /\ c.late
  <2>1. PICK d \in cs : c = [d EXCEPT !.late = TRUE]
    BY DEF Overtaken
  <2> QED
    BY <1>1, <1>2, <2>1 DEF Calls
<1>4. ASSUME NEW c \in Detached(cs)
      PROVE  /\ c \in Calls /\ AnswerSound(c)
             /\ \E d \in cs : c.late = d.late /\ c.kind = d.kind /\ c.user = d.user
  <2>1. PICK d \in cs : c = [d EXCEPT !.mine = FALSE]
    BY DEF Detached
  <2>2. c.late = d.late
    BY <1>2, <2>1 DEF Calls
  <2> QED
    BY <1>1, <2>1, <2>2
<1> QED
  BY <1>3, <1>4

-----------------------------------------------------------------------------
(* Requests *)

LEMMA StartKeeps ==
    ASSUME SessionInv, NEW c, Start(c), c \in Calls, AnswerSound(c),
           page.step \in {"credentials", "master-password"},
           page.step = "master-password" => c.kind # "login"
    PROVE  SessionInv'
<1>1. page' \in Pages /\ page'.step = page.step /\ page'.data = page.data
  BY DEF Start, SessionInv, PageSound, Pages
<1>2. page # Away /\ page' # Away
  BY <1>1 DEF Away
<1>3. PageSound'
  BY <1>1, <1>2 DEF Start, SessionInv, PageSound, IsUnlocked
<1>4. CallsSound' /\ LoginsLate'
  BY <1>1 DEF Start, SessionInv, CallsSound, LoginsLate
<1>5. TimerSound'
  BY DEF Start, SessionInv, TimerSound, NoRapidRefresh
<1> QED
  BY <1>3, <1>4, <1>5 DEF Start, SessionInv

LEMMA SubmitCredentialsKeeps ==
    ASSUME SessionInv, NEW u \in Users, SubmitCredentials(u)
    PROVE  SessionInv'
<1> DEFINE c == Call("login", u, None, None)
<1>1. c \in Calls /\ AnswerSound(c) /\ c.kind = "login"
  BY DEF Call, Calls, Kinds, AnswerSound
<1> QED
  BY <1>1, StartKeeps DEF SubmitCredentials

LEMMA SubmitMasterPasswordKeeps ==
    ASSUME SessionInv, NEW ok \in BOOLEAN, SubmitMasterPassword(ok)
    PROVE  SessionInv'
<1> DEFINE c == Call("unlock", page.data, None, IF ok THEN page.data ELSE Failed)
<1>1. page.data \in Users
  BY DEF SubmitMasterPassword, SessionInv, PageSound
<1>2. c \in Calls /\ AnswerSound(c) /\ c.kind = "unlock"
  BY <1>1 DEF Call, Calls, Kinds, AnswerSound
<1> HIDE DEF c
<1>3. Start(c)
  BY DEF SubmitMasterPassword, c
<1> QED
  BY <1>2, <1>3, StartKeeps DEF SubmitMasterPassword

LEMMA SendRefreshKeeps ==
    ASSUME SessionInv, SendRefresh
    PROVE  SessionInv'
<1> DEFINE c == Call("refresh", session.token.user, session.token, None)
<1>1. session \in Sessions
  BY SessionAssumption DEF SendRefresh, SessionInv, TimerSound
<1>2. c \in Calls /\ AnswerSound(c) /\ c.kind = "refresh"
  BY <1>1 DEF Call, Calls, Kinds, AnswerSound, Sessions, Token
<1> HIDE DEF c
<1>3. calls' = calls \cup {c} /\ UNCHANGED <<session, page>> /\ timer' = None /\ quiet' = 0
  BY DEF SendRefresh, c
<1>4. CallsSound' /\ LoginsLate' /\ PageSound'
  BY <1>2, <1>3 DEF SessionInv, CallsSound, LoginsLate, PageSound, IsUnlocked
<1>5. TimerSound'
  BY <1>3, Bounds DEF TimerSound, NoRapidRefresh
<1> QED
  BY <1>3, <1>4, <1>5 DEF SessionInv

LEMMA AnswerKeeps ==
    ASSUME SessionInv, NEW c \in calls, Answer(c)
    PROVE  SessionInv'
<1>1. PICK a \in {Failed, [user |-> c.user, left |-> Lifetime]} :
        calls' = (calls \ {c}) \cup {[c EXCEPT !.answer = a]}
  BY DEF Answer
<1> DEFINE d == [c EXCEPT !.answer = a]
<1>2. c \in Calls /\ AnswerSound(c) /\ c.answer = None
  BY DEF SessionInv, CallsSound, Answer
<1>3. c.kind # "unlock"
  BY <1>2, SessionAssumption DEF AnswerSound, Calls
<1>4. [user |-> c.user, left |-> Lifetime] \in Token
  BY <1>2, Bounds DEF Calls, Token
<1>5. d \in Calls /\ d.answer = a /\ d.kind = c.kind /\ d.user = c.user /\ d.late = c.late
  BY <1>1, <1>2, <1>4 DEF Calls
<1>6. AnswerSound(d)
  BY <1>1, <1>3, <1>4, <1>5 DEF AnswerSound
<1> HIDE DEF d
<1>7. CallsSound' /\ LoginsLate'
  BY <1>1, <1>5, <1>6 DEF d, SessionInv, CallsSound, LoginsLate, Answer
<1> QED
  BY <1>7 DEF Answer, SessionInv, PageSound, IsUnlocked, TimerSound, NoRapidRefresh

-----------------------------------------------------------------------------
(* Answers, the page and the clock *)

LEMMA SettledPage ==
    ASSUME SessionInv, NEW c \in calls, NEW step \in Steps, NEW data \in Users \cup {None}
    PROVE  (IF c.mine THEN [step |-> step, data |-> data, loading |-> FALSE] ELSE page) \in Pages
BY DEF SessionInv, PageSound, Pages

LEMMA LoggedInKeeps ==
    ASSUME SessionInv, NEW c \in calls, c.kind = "login", c.answer \notin {None, Failed},
           LoggedIn(c), quiet' = quiet
    PROVE  SessionInv'
<1> DEFINE s == [token |-> c.answer, wrap |-> c.user, dek |-> None]
           p == IF c.mine THEN [step |-> "master-password", data |-> c.user, loading |-> FALSE]
                ELSE page
<1>1. c \in Calls /\ AnswerSound(c) /\ c.answer \in Token /\ c.user \in Users
  BY DEF SessionInv, CallsSound, AnswerSound, Calls
<1>2. s \in Sessions
  BY <1>1 DEF Sessions
<1>3. p \in Pages /\ (p.step = "master-password" => p.data \in Users)
  BY <1>1, SettledPage DEF SessionInv, PageSound, Pages, Steps
<1>4. SetSession(s) /\ page' = Routed(s, p) /\ calls' = Overtaken(calls \ {c})
  BY DEF LoggedIn, Settled
<1>5. \A d \in calls' : d \in Calls /\ AnswerSound(d) /\ d.late
  BY <1>4, MarkedCalls DEF SessionInv
<1> HIDE DEF s, p
<1>6. session' \in Sessions \cup {None} /\ TimerSound' /\ session' = s
  BY <1>2, <1>4, RescheduledSound DEF SetSession
<1>7. PageSound'
  BY <1>2, <1>3, <1>4, <1>6, RoutedSound DEF PageSound
<1> QED
  BY <1>5, <1>6, <1>7 DEF SessionInv, CallsSound, LoginsLate

LEMMA UnlockedKeeps ==
    ASSUME SessionInv, NEW c \in calls, c.kind = "unlock", c.answer \notin {None, Failed},
           Unlocked(c), quiet' = quiet
    PROVE  SessionInv'
<1> DEFINE s == IF session = None THEN None ELSE [session EXCEPT !.dek = c.answer]
<1>1. c.answer \in Users
  BY DEF SessionInv, CallsSound, AnswerSound, Calls
<1>2. s \in Sessions \cup {None}
  BY <1>1 DEF SessionInv, Sessions
<1>3. SetSession(s) /\ page' = Routed(s, FreshPage) /\ calls' = Detached(calls \ {c})
  BY DEF Unlocked
<1>4. FreshPage \in Pages /\ FreshPage.step # "master-password"
  BY DEF FreshPage, Pages, Steps
<1>5. \A d \in calls' : d \in Calls /\ AnswerSound(d)
  BY <1>3, MarkedCalls DEF SessionInv
<1> HIDE DEF s
<1>6. session' \in Sessions \cup {None} /\ TimerSound' /\ session' = s
  BY <1>2, <1>3, RescheduledSound DEF SetSession
<1>7. PageSound' /\ page'.step # "master-password"
  BY <1>2, <1>3, <1>4, <1>6, RoutedSound DEF PageSound
<1> QED
  BY <1>5, <1>6, <1>7 DEF SessionInv, CallsSound, LoginsLate

LEMMA RefreshedKeeps ==
    ASSUME SessionInv, NEW c \in calls, c.kind = "refresh", c.answer \notin {None, Failed},
           Refreshed(c), quiet' = quiet
    PROVE  SessionInv'
<1> DEFINE s == IF session = None THEN None ELSE [session EXCEPT !.token = c.answer]
<1>1. c.answer \in Token
  BY DEF SessionInv, CallsSound, AnswerSound
<1>2. s \in Sessions \cup {None} /\ (IsUnlocked(s) <=> IsUnlocked(session))
  BY <1>1, NoneIsNoSession DEF SessionInv, Sessions, IsUnlocked
<1>3. SetSession(s) /\ page' = page /\ calls' = calls \ {c}
  BY DEF Refreshed
<1> HIDE DEF s
<1>4. session' \in Sessions \cup {None} /\ TimerSound' /\ session' = s
  BY <1>2, <1>3, RescheduledSound DEF SetSession
<1> QED
  BY <1>2, <1>3, <1>4 DEF SessionInv, CallsSound, LoginsLate, PageSound

LEMMA ClearKeeps ==
    ASSUME SessionInv, NEW cs \in SUBSET calls, Clear(cs), quiet' = quiet
    PROVE  SessionInv'
<1>1. \A d \in calls' : d \in Calls /\ AnswerSound(d) /\ d.late
  BY MarkedCalls DEF SessionInv, Clear
<1>2. session' \in Sessions \cup {None} /\ TimerSound' /\ session' = None
  BY RescheduledSound DEF Clear, SetSession
<1>3. PageSound'
  BY <1>2, RoutedSound DEF Clear, SessionInv, PageSound
<1> QED
  BY <1>1, <1>2, <1>3 DEF SessionInv, CallsSound, LoginsLate

LEMMA RefusedKeeps ==
    ASSUME SessionInv, NEW c \in calls, c.answer = Failed, Refused(c), quiet' = quiet
    PROVE  SessionInv'
<1>1. CASE c.kind = "refresh"
  BY <1>1, ClearKeeps DEF Refused
<1>2. CASE c.kind # "refresh"
  <2> DEFINE p == IF c.mine THEN [step |-> page.step, data |-> page.data, loading |-> FALSE]
                  ELSE page
  <2>1. page' = Routed(session, p) /\ calls' = calls \ {c} /\ UNCHANGED <<session, timer>>
    BY <1>2 DEF Refused, Settled
  <2>2. p \in Pages /\ p.step = page.step /\ p.data = page.data
    BY SettledPage DEF SessionInv, PageSound, Pages
  <2> HIDE DEF p
  <2>3. page'.step = "master-password" => page.step = "master-password" /\ page'.data = page.data
    BY <2>1, <2>2, RoutedSound DEF SessionInv
  <2>4. PageSound'
    BY <2>1, <2>2, <2>3, RoutedSound DEF SessionInv, PageSound
  <2> QED
    BY <2>1, <2>3, <2>4 DEF SessionInv, CallsSound, LoginsLate, TimerSound, NoRapidRefresh
<1> QED
  BY <1>1, <1>2

LEMMA SettleKeeps ==
    ASSUME SessionInv, NEW c \in calls, Settle(c)
    PROVE  SessionInv'
<1>1. c.kind \in Kinds
  BY DEF SessionInv, CallsSound, Calls
<1>2. CASE c.answer = Failed /\ Refused(c)
  BY <1>2, RefusedKeeps DEF Settle
<1>3. CASE c.answer # Failed
  BY <1>1, <1>3, LoggedInKeeps, UnlockedKeeps, RefreshedKeeps DEF Settle, Kinds
<1> QED
  BY <1>2, <1>3 DEF Settle

LEMMA BackKeeps ==
    ASSUME SessionInv, Back
    PROVE  SessionInv'
<1>1. page' \in Pages /\ page' # Away /\ page # Away /\ page'.step = "credentials"
  BY DEF SessionInv, PageSound, Back, Pages, Steps, Away
<1> QED
  BY <1>1 DEF Back, SessionInv, CallsSound, LoginsLate, PageSound, IsUnlocked, TimerSound,
              NoRapidRefresh

LEMMA HomeKeeps ==
    ASSUME SessionInv, Home
    PROVE  SessionInv'
<1>1. page' \in Pages /\ page' # Away /\ page'.step = "credentials"
  BY DEF Home, FreshPage, Pages, Steps, Away
<1>2. \A d \in calls' : d \in Calls /\ AnswerSound(d)
  BY MarkedCalls DEF SessionInv, Home
<1> QED
  BY <1>1, <1>2 DEF Home, SessionInv, CallsSound, LoginsLate, PageSound, IsUnlocked,
                    TimerSound, NoRapidRefresh

LEMMA AgedCallSound ==
    ASSUME NEW c \in Calls, AnswerSound(c)
    PROVE  /\ AgedCall(c) \in Calls /\ AnswerSound(AgedCall(c))
           /\ AgedCall(c).kind = c.kind /\ AgedCall(c).late = c.late
           /\ AgedCall(c).user = c.user
<1>1. ASSUME NEW x \in Token \cup Users \cup {None, Failed}
      PROVE  (IF x \in Token THEN Aged(x) ELSE x) \in Token \cup {x}
  BY AgedIsToken
<1> DEFINE t == IF c.token \in Token THEN Aged(c.token) ELSE c.token
           a == IF c.answer \in Token THEN Aged(c.answer) ELSE c.answer
<1>2. AgedCall(c) = [c EXCEPT !.token = t, !.answer = a]
  BY DEF AgedCall, Calls
<1>3. t \in Token \cup {None} /\ a \in Token \cup Users \cup {None, Failed}
  BY <1>1 DEF Calls
<1>4. c.answer \in Token => a \in Token /\ a.user = c.answer.user
  BY AgedIsToken
<1>5. c.answer \notin Token => a = c.answer
  OBVIOUS
<1> HIDE DEF t, a
<1>6. /\ AgedCall(c) \in Calls /\ AgedCall(c).answer = a
      /\ AgedCall(c).kind = c.kind /\ AgedCall(c).late = c.late /\ AgedCall(c).user = c.user
  BY <1>2, <1>3 DEF Calls
<1>7. AnswerSound(AgedCall(c))
  <2>1. CASE c.kind = "unlock"
    <3>1. c.answer \in {Failed, c.user} /\ c.answer \notin Token
      BY <2>1, SessionAssumption DEF AnswerSound, Calls
    <3> QED
      BY <1>5, <1>6, <2>1, <3>1 DEF AnswerSound
  <2>2. CASE c.kind # "unlock"
    BY <1>4, <1>5, <1>6, <2>2, SessionAssumption DEF AnswerSound
  <2> QED
    BY <2>1, <2>2
<1> QED
  BY <1>6, <1>7

LEMMA TickKeeps ==
    ASSUME SessionInv, Tick
    PROVE  SessionInv'
<1>1. /\ session' \in Sessions \cup {None} /\ (session' = None <=> session = None)
      /\ IsUnlocked(session') <=> IsUnlocked(session)
  <2>1. CASE session = None
    BY <2>1 DEF Tick
  <2>2. CASE session # None
    <3>1. session' = [session EXCEPT !.token = Aged(session.token)] /\ session \in Sessions
      BY <2>2 DEF Tick, SessionInv
    <3>2. session' \in Sessions /\ session'.dek = session.dek
      BY <3>1, AgedIsToken DEF Sessions
    <3> QED
      BY <2>2, <3>2, NoneIsNoSession DEF IsUnlocked
  <2> QED
    BY <2>1, <2>2
<1>2. CallsSound' /\ LoginsLate'
  BY AgedCallSound DEF Tick, SessionInv, CallsSound, LoginsLate
<1>3. PageSound'
  BY <1>1 DEF Tick, SessionInv, PageSound
<1>4. TimerSound'
  BY <1>1, Bounds DEF Tick, SessionInv, TimerSound, NoRapidRefresh, Max2
<1> QED
  BY <1>1, <1>2, <1>3, <1>4 DEF SessionInv

LEMMA SessionStep == SessionInv /\ [Next]_vars => SessionInv'
<1> SUFFICES ASSUME SessionInv, [Next]_vars PROVE SessionInv'
  OBVIOUS
<1>1. CASE UNCHANGED vars
  BY <1>1 DEF vars, SessionInv, CallsSound, LoginsLate, PageSound, IsUnlocked, TimerSound,
              NoRapidRefresh
<1>2. CASE Logout
  BY <1>2, ClearKeeps DEF Logout
<1> QED
  BY <1>1, <1>2, SubmitCredentialsKeeps, SubmitMasterPasswordKeeps, SendRefreshKeeps,
     AnswerKeeps, SettleKeeps, BackKeeps, HomeKeeps, TickKeeps DEF Next

LEMMA SessionStart == Init => SessionInv
BY Bounds DEF Init, SessionInv, CallsSound, LoginsLate, PageSound, IsUnlocked, TimerSound,
              NoRapidRefresh, FreshPage, Away, Pages, Steps

(***************************************************************************)
(* The session, the timer and the page have their types: a locked tab is   *)
(* on LoginPage, an unlocked one is not.                                   *)
(***************************************************************************)
THEOREM SessionTypes == Spec => []TypeOK
<1>1. SessionInv => TypeOK
  BY DEF SessionInv, TypeOK, PageSound, TimerSound, Pages
<1> QED
  BY <1>1, SessionStart, SessionStep, PTL DEF Spec

(***************************************************************************)
(* Two refreshes are never sent less than the minimum interval apart.      *)
(***************************************************************************)
THEOREM SessionNoRapidRefresh == Spec => []NoRapidRefresh
<1>1. SessionInv => NoRapidRefresh
  BY DEF SessionInv, TimerSound
<1> QED
  BY <1>1, SessionStart, SessionStep, PTL DEF Spec

-----------------------------------------------------------------------------
(* Two users in one tab *)

\* The calls of this session are its user's.
OwnCalls == \A c \in calls : c.kind # "login" /\ ~c.late => c.user = session.wrap

\* No late answer is taken in this step.
InTime == \A c \in calls \ calls' : ~c.late

LEMMA RequestsCoherent ==
    ASSUME SessionInv, Coherent,
           \/ \E u \in Users : SubmitCredentials(u)
           \/ \E ok \in BOOLEAN : SubmitMasterPassword(ok)
           \/ SendRefresh
    PROVE  Coherent'
<1> SUFFICES ASSUME session # None PROVE Coherent'
  BY DEF Coherent, SubmitCredentials, SubmitMasterPassword, Start, SendRefresh
<1>1. page \in Pages
  BY DEF SessionInv, PageSound
<1>2. ASSUME NEW c, Start(c), c.kind # "login" => c.user = session.wrap
      PROVE  Coherent'
  <2>1. page'.step = page.step /\ page'.data = page.data
    BY <1>1, <1>2 DEF Start, Pages
  <2> QED
    BY <1>2, <2>1 DEF Start, Coherent
<1>3. ASSUME NEW u \in Users, SubmitCredentials(u) PROVE Coherent'
  BY <1>2, <1>3 DEF SubmitCredentials, Call
<1>4. ASSUME NEW ok \in BOOLEAN, SubmitMasterPassword(ok) PROVE Coherent'
  BY <1>2, <1>4 DEF SubmitMasterPassword, Call, Coherent
<1>5. CASE SendRefresh
  BY <1>5 DEF SendRefresh, Call, Coherent
<1> QED
  BY <1>3, <1>4, <1>5

LEMMA LoggedInCoherent ==
    ASSUME SessionInv, NEW c \in calls, c.kind = "login", c.answer \notin {None, Failed},
           LoggedIn(c), InTime
    PROVE  Coherent'
<1> DEFINE s == [token |-> c.answer, wrap |-> c.user, dek |-> None]
           p == IF c.mine THEN [step |-> "master-password", data |-> c.user, loading |-> FALSE]
                ELSE page
<1>1. c \in Calls /\ c.answer \in Token /\ c.answer.user = c.user
  BY DEF SessionInv, CallsSound, AnswerSound
<1>2. session' = s /\ page' = Routed(s, p) /\ calls' = Overtaken(calls \ {c})
  BY DEF LoggedIn, Settled, SetSession
<1>3. \A d \in calls' : d.late
  BY <1>2, MarkedCalls DEF SessionInv
<1>4. page.step # "master-password"
  <2> SUFFICES ASSUME page.step = "master-password" PROVE FALSE
    OBVIOUS
  <2>1. \A d \in calls : d.kind = "login" => d.late
    BY DEF SessionInv, LoginsLate
  <2>2. c \in calls'
    BY <2>1 DEF InTime
  <2>3. PICK d \in calls \ {c} : c = [d EXCEPT !.late = TRUE]
    BY <1>2, <2>2 DEF Overtaken
  <2>4. d \in Calls
    BY DEF SessionInv, CallsSound
  <2>5. d.kind = "login"
    BY <2>3, <2>4 DEF Calls
  <2>6. d.late = TRUE
    BY <2>1, <2>4, <2>5 DEF Calls
  <2>7. d = [d EXCEPT !.late = TRUE]
    BY <2>4, <2>6 DEF Calls
  <2> QED
    BY <2>3, <2>7
<1>5. p \in Pages /\ s \in Sessions
  BY <1>1, SettledPage DEF Calls, Steps, Sessions
<1>6. p.step = "master-password" => p.data = c.user
  BY <1>4
<1>7. s.token.user = s.wrap /\ s.dek = None /\ s.wrap = c.user
  BY <1>1
<1> HIDE DEF s, p
<1>8. page'.step = "master-password" => page'.data = c.user
  BY <1>2, <1>5, <1>6, RoutedSound
<1> QED
  BY <1>2, <1>3, <1>7, <1>8 DEF Coherent

LEMMA UnlockedCoherent ==
    ASSUME SessionInv, Coherent, NEW c \in calls, c.kind = "unlock",
           c.answer \notin {None, Failed}, Unlocked(c), InTime
    PROVE  Coherent'
<1>1. CASE session = None
  BY <1>1 DEF Unlocked, SetSession, Coherent
<1>2. CASE session # None
  <2>1. c \in Calls /\ c.answer = c.user
    BY DEF SessionInv, CallsSound, AnswerSound
  <2>2. session' = [session EXCEPT !.dek = c.answer] /\ calls' = Detached(calls \ {c})
    BY <1>2 DEF Unlocked, SetSession
  <2>3. ~c.late
    <3> SUFFICES ASSUME c.late PROVE FALSE
      OBVIOUS
    <3>1. c \in calls'
      BY DEF InTime
    <3>2. PICK d \in calls \ {c} : c = [d EXCEPT !.mine = FALSE]
      BY <2>2, <3>1 DEF Detached
    <3>3. d \in Calls /\ d.late
      BY <3>2 DEF SessionInv, CallsSound, Calls
    <3>4. d \in calls'
      BY <3>3 DEF InTime
    <3>5. PICK e \in calls : d = [e EXCEPT !.mine = FALSE]
      BY <2>2, <3>4 DEF Detached
    <3>6. d.mine = FALSE
      BY <3>5 DEF SessionInv, CallsSound, Calls
    <3>7. d = [d EXCEPT !.mine = FALSE]
      BY <3>3, <3>6 DEF Calls
    <3> QED
      BY <3>2, <3>7
  <2>4. c.user = session.wrap /\ session.token.user = session.wrap
    BY <1>2, <2>3 DEF Coherent
  <2>5. /\ session'.token = session.token /\ session'.wrap = session.wrap
        /\ session'.dek = session.wrap
    BY <1>2, <2>1, <2>2, <2>4 DEF SessionInv, Sessions
  <2>6. page' \in {Away, FreshPage}
    BY DEF Unlocked, Routed
  <2>7. page'.step # "master-password"
    BY <2>6 DEF Away, FreshPage
  <2>8. OwnCalls'
    BY <1>2, <2>2, <2>5, MarkedCalls DEF OwnCalls, SessionInv, Coherent
  <2> QED
    BY <2>4, <2>5, <2>7, <2>8 DEF Coherent, OwnCalls
<1> QED
  BY <1>1, <1>2

LEMMA RefreshedCoherent ==
    ASSUME SessionInv, Coherent, NEW c \in calls, c.kind = "refresh",
           c.answer \notin {None, Failed}, Refreshed(c), InTime
    PROVE  Coherent'
<1>1. CASE session = None
  BY <1>1 DEF Refreshed, SetSession, Coherent
<1>2. CASE session # None
  <2>1. c.answer.user = c.user
    BY DEF SessionInv, CallsSound, AnswerSound
  <2>2. session' = [session EXCEPT !.token = c.answer] /\ calls' = calls \ {c}
    BY <1>2 DEF Refreshed, SetSession
  <2>3. c.user = session.wrap
    BY <1>2, <2>2 DEF Coherent, InTime
  <2>4. /\ session'.token = c.answer /\ session'.wrap = session.wrap
        /\ session'.dek = session.dek
    BY <1>2, <2>2 DEF SessionInv, Sessions
  <2> QED
    BY <1>2, <2>1, <2>2, <2>3, <2>4 DEF Coherent, Refreshed
<1> QED
  BY <1>1, <1>2

LEMMA RefusedCoherent ==
    ASSUME SessionInv, Coherent, NEW c \in calls, Refused(c)
    PROVE  Coherent'
<1>1. CASE c.kind = "refresh"
  BY <1>1 DEF Refused, Clear, SetSession, Coherent
<1>2. CASE c.kind # "refresh"
  <2> DEFINE p == IF c.mine THEN [step |-> page.step, data |-> page.data, loading |-> FALSE]
                  ELSE page
  <2>1. page' = Routed(session, p) /\ calls' = calls \ {c} /\ session' = session
    BY <1>2 DEF Refused, Settled
  <2>2. p \in Pages /\ p.step = page.step /\ p.data = page.data
    BY SettledPage DEF SessionInv, PageSound, Pages
  <2> HIDE DEF p
  <2>3. page'.step = "master-password" => page.step = "master-password" /\ page'.data = page.data
    BY <2>1, <2>2, RoutedSound DEF SessionInv
  <2> QED
    BY <2>1, <2>3 DEF Coherent
<1> QED
  BY <1>1, <1>2

LEMMA TickCoherent ==
    ASSUME SessionInv, Coherent, Tick
    PROVE  Coherent'
<1>1. CASE session = None
  BY <1>1 DEF Tick, Coherent
<1>2. CASE session # None
  <2>1. session' = [session EXCEPT !.token = Aged(session.token)] /\ session \in Sessions
    BY <1>2 DEF Tick, SessionInv
  <2>2. /\ session'.token.user = session.token.user /\ session'.wrap = session.wrap
        /\ session'.dek = session.dek
    BY <2>1, AgedIsToken DEF Sessions
  <2>3. OwnCalls'
    BY <1>2, <2>2, AgedCallSound DEF Tick, OwnCalls, SessionInv, CallsSound, Coherent
  <2> QED
    BY <1>2, <2>2, <2>3 DEF Tick, Coherent, OwnCalls
<1> QED
  BY <1>1, <1>2

LEMMA CoherentStep ==
    ASSUME SessionInv, Coherent, [Next]_vars, InTime
    PROVE  Coherent'
<1>1. CASE UNCHANGED vars
  BY <1>1 DEF vars, Coherent
<1>2. ASSUME NEW c \in calls, Answer(c) PROVE Coherent'
  <2>1. PICK a : calls' = (calls \ {c}) \cup {[c EXCEPT !.answer = a]}
    BY <1>2 DEF Answer
  <2>2. \A d \in calls' : \E e \in calls : d.kind = e.kind /\ d.user = e.user /\ d.late = e.late
    BY <2>1 DEF SessionInv, CallsSound, Calls
  <2> QED
    BY <1>2, <2>2 DEF Answer, Coherent
<1>3. ASSUME NEW c \in calls, Settle(c) PROVE Coherent'
  <2>1. c.kind \in Kinds
    BY DEF SessionInv, CallsSound, Calls
  <2> QED
    BY <1>3, <2>1, LoggedInCoherent, UnlockedCoherent, RefreshedCoherent, RefusedCoherent
       DEF Settle, Kinds
<1>4. CASE Logout
  BY <1>4 DEF Logout, Clear, SetSession, Coherent
<1>5. CASE Back
  BY <1>5 DEF Back, SessionInv, PageSound, Pages, Coherent
<1>6. CASE Home
  BY <1>6, MarkedCalls DEF Home, FreshPage, SessionInv, Coherent
<1> QED
  BY <1>1, <1>2, <1>3, <1>4, <1>5, <1>6, RequestsCoherent, TickCoherent DEF Next

(***************************************************************************)
(* Only an answer that was asked for under an earlier session mixes two    *)
(* users up in one tab.                                                    *)
(***************************************************************************)
THEOREM SessionMixedOnlyByLateAnswer == Spec => MixedOnlyByLateAnswer
<1>1. SessionInv /\ [Next]_vars =>
        [ Coherent /\ ~Coherent' => \E c \in calls \ calls' : c.late ]_vars
  BY CoherentStep DEF InTime
<1> QED
  BY <1>1, SessionStart, SessionStep, PTL DEF Spec, MixedOnlyByLateAnswer

-----------------------------------------------------------------------------
(***************************************************************************)
(* THE FILTERS                                                             *)
(***************************************************************************)

(***************************************************************************)
(* Filters as parseFiltersFromParams returns them: a value, or none.       *)
(***************************************************************************)
Canonical(f) ==
    /\ f = [k \in Keys |-> f[k]]
    /\ \A k \in Keys : f[k] # Blank /\ (k \in Numeric => f[k] # Junk)

FiltersInv ==
    /\ url = [k \in Keys |-> url[k]]
    /\ Parse(url) = asked
    /\ rendered # Unset => Canonical(rendered.filters)
    /\ now \in Months

LEMMA ParseCanonical ==
    ASSUME NEW params
    PROVE  Canonical(Parse(params))
  BY FiltersAssumption DEF Canonical, Parse

LEMMA NoFiltersCanonical == Canonical(NoFilters)
  BY FiltersAssumption DEF Canonical, NoFilters

\* What is written to the URL is read back, if it was read from one before.
LEMMA RoundTrip ==
    ASSUME NEW f, Canonical(f)
    PROVE  Parse(ToParams(f)) = f
<1>1. \A k \in Keys : ToParams(f)[k] = f[k]
  BY DEF Canonical, ToParams
<1>2. Parse(ToParams(f)) = [k \in Keys |-> f[k]]
  BY <1>1 DEF Canonical, Parse
<1>3. QED BY <1>2 DEF Canonical

LEMMA ChangeCanonical ==
    ASSUME NEW f, Canonical(f), NEW key \in Keys, NEW value, value # Blank,
           key \in Numeric => value # Junk
    PROVE  Canonical([f EXCEPT ![key] = value])
  BY DEF Canonical

LEMMA SetFiltersKeeps ==
    ASSUME NEW f, Canonical(f), SetFilters(f)
    PROVE  url' = [k \in Keys |-> url'[k]] /\ Parse(url') = f /\ asked' = f
  BY RoundTrip DEF SetFilters, ToParams

-----------------------------------------------------------------------------
(***************************************************************************)
(* The fields, the arrows and the button all change one filter, a numeric  *)
(* one to a number or to none.                                             *)
(***************************************************************************)
Changes(key, value) ==
    key \in Keys /\ (key \in Numeric => value # Junk) /\ UpdateFilter(key, value)

OneChange == \E key, value : Changes(key, value)

LEMMA FiltersSteps ==
    ASSUME FiltersNext
    PROVE  \/ OneChange
           \/ \E params \in Bookmarks \cup {url} : Visit(params)
           \/ Render \/ ClearFilters \/ HomeLink \/ TurnMonth
<1>1. /\ {"month", "cardId", "category", "search"} \subseteq Keys \ Numeric
      /\ Numeric \subseteq Keys
  BY DEF Keys, Numeric
<1>2. \A a \in Amounts \cup {Unset} : a # Junk
  BY FiltersAssumption
<1>3. ChooseFilter => OneChange
  BY <1>1, <1>2 DEF ChooseFilter, OneChange, Changes
<1>4. (\E offset \in {-1, 1} : Navigate(offset)) => OneChange
  BY <1>1 DEF Navigate, OneChange, Changes
<1>5. GoToCurrentMonth => OneChange
  BY <1>1 DEF GoToCurrentMonth, OneChange, Changes
<1>6. QED BY <1>3, <1>4, <1>5 DEF FiltersNext

\* The filters a change asks for.
LEMMA ChangeKeeps ==
    ASSUME FiltersInv, NEW key, NEW value, Changes(key, value)
    PROVE  \E v : /\ Parse(url') = [rendered.filters EXCEPT ![key] = v]
                  /\ FiltersInv'
<1> DEFINE v == IF value = Blank THEN Unset ELSE value
           f == [rendered.filters EXCEPT ![key] = v]
<1>1. /\ key \in Keys /\ rendered # Unset /\ SetFilters(f)
      /\ UNCHANGED <<rendered, now>>
  BY DEF Changes, UpdateFilter
<1>2. v # Blank /\ (key \in Numeric => v # Junk)
  BY FiltersAssumption DEF Changes
<1>3. Canonical(rendered.filters)
  BY <1>1 DEF FiltersInv
<1> HIDE DEF v
<1>4. Canonical(f)
  BY <1>1, <1>2, <1>3, ChangeCanonical
<1> HIDE DEF f
<1>5. url' = [k \in Keys |-> url'[k]] /\ Parse(url') = f /\ asked' = f
  BY <1>1, <1>4, SetFiltersKeeps
<1>6. FiltersInv'
  BY <1>1, <1>3, <1>5 DEF FiltersInv
<1>7. QED BY <1>5, <1>6 DEF f

\* A visit keeps the filters of its parameters, but for a missing month.
LEMMA VisitKeeps ==
    ASSUME FiltersInv, NEW params \in Bookmarks \cup {url}, Visit(params)
    PROVE  /\ FiltersInv'
           /\ Parse(url') \in {Parse(params), [Parse(params) EXCEPT !["month"] = now]}
<1> DEFINE f == Parse(params)
           g == [f EXCEPT !["month"] = now]
<1>1. Canonical(f)
  BY ParseCanonical
<1>2. now # Blank /\ now \in Months /\ "month" \in Keys /\ "month" \notin Numeric
  BY FiltersAssumption DEF FiltersInv, Keys, Numeric
<1>3. params = [k \in Keys |-> params[k]]
  BY DEF FiltersInv, Bookmarks, NoFilters
<1>4. /\ rendered' = [filters |-> f, today |-> now] /\ now' = now
      /\ IF f["month"] = Unset THEN SetFilters(g) ELSE url' = params /\ asked' = f
  BY DEF Visit, Rendering
<1> HIDE DEF f
<1>5. Canonical(g)
  BY <1>1, <1>2, ChangeCanonical
<1> HIDE DEF g
<1>6. CASE f["month"] = Unset
  <2>1. url' = [k \in Keys |-> url'[k]] /\ Parse(url') = g /\ asked' = g
    BY <1>4, <1>5, <1>6, SetFiltersKeeps
  <2>2. FiltersInv'
    BY <1>1, <1>2, <1>4, <2>1 DEF FiltersInv
  <2>3. QED BY <2>1, <2>2 DEF f, g
<1>7. CASE f["month"] # Unset
  <2>1. url' = params /\ Parse(url') = f /\ asked' = f
    BY <1>4, <1>7 DEF f
  <2>2. FiltersInv'
    BY <1>1, <1>2, <1>3, <1>4, <2>1 DEF FiltersInv
  <2>3. QED BY <2>1, <2>2 DEF f
<1>8. QED BY <1>6, <1>7

\* Everything is cleared.
LEMMA ClearingKeeps ==
    ASSUME FiltersInv, ClearFilters \/ HomeLink
    PROVE  FiltersInv' /\ url' = NoFilters
<1>1. ToParams(NoFilters) = NoFilters
  BY FiltersAssumption DEF ToParams, NoFilters
<1>2. url' = NoFilters /\ asked' = NoFilters /\ UNCHANGED <<rendered, now>>
  BY <1>1 DEF ClearFilters, HomeLink, SetFilters
<1>3. Parse(NoFilters) = NoFilters
  BY <1>1, RoundTrip, NoFiltersCanonical
<1>4. NoFilters = [k \in Keys |-> NoFilters[k]]
  BY DEF NoFilters
<1>5. FiltersInv'
  BY <1>2, <1>3, <1>4 DEF FiltersInv
<1>6. QED BY <1>2, <1>5

\* A render, and the clock.
LEMMA OthersKeep ==
    ASSUME FiltersInv, Render \/ TurnMonth \/ UNCHANGED filterVars
    PROVE  FiltersInv' /\ url' = url
<1>1. CASE Render
  <2>1. rendered'.filters = Parse(url) /\ UNCHANGED <<url, now, asked>>
    BY <1>1 DEF Render, Rendering
  <2>2. Canonical(rendered'.filters)
    BY <2>1, ParseCanonical
  <2>3. QED BY <2>1, <2>2 DEF FiltersInv
<1>2. CASE TurnMonth
  BY <1>2 DEF TurnMonth, FiltersInv
<1>3. CASE UNCHANGED filterVars
  BY <1>3 DEF filterVars, FiltersInv
<1>4. QED BY <1>1, <1>2, <1>3

LEMMA FiltersStep == FiltersInv /\ [FiltersNext]_filterVars => FiltersInv'
<1> SUFFICES ASSUME FiltersInv, [FiltersNext]_filterVars PROVE FiltersInv'
  OBVIOUS
<1>1. CASE OneChange
  BY <1>1, ChangeKeeps DEF OneChange
<1>2. CASE \E params \in Bookmarks \cup {url} : Visit(params)
  BY <1>2, VisitKeeps
<1>3. CASE ClearFilters \/ HomeLink
  BY <1>3, ClearingKeeps
<1>4. CASE Render \/ TurnMonth \/ UNCHANGED filterVars
  BY <1>4, OthersKeep
<1>5. QED BY <1>1, <1>2, <1>3, <1>4, FiltersSteps

LEMMA FiltersInvHolds == FiltersSpec => []FiltersInv
<1>1. FiltersInit => FiltersInv
  <2> SUFFICES ASSUME FiltersInit PROVE FiltersInv
    OBVIOUS
  <2>1. Parse(NoFilters) = NoFilters
    <3>1. ToParams(NoFilters) = NoFilters
      BY FiltersAssumption DEF ToParams, NoFilters
    <3>2. QED BY <3>1, RoundTrip, NoFiltersCanonical
  <2>2. url = NoFilters /\ asked = NoFilters /\ rendered = Unset /\ now \in Months
    BY FiltersAssumption DEF FiltersInit
  <2>3. url = [k \in Keys |-> url[k]]
    BY <2>2 DEF NoFilters
  <2>4. QED BY <2>1, <2>2, <2>3 DEF FiltersInv
<1>2. QED BY <1>1, FiltersStep, PTL DEF FiltersSpec

(***************************************************************************)
(* Whatever was typed, chosen, cleared, bookmarked or navigated to, and    *)
(* however late the page renders: parseFiltersFromParams gives back from   *)
(* the URL the filters that were asked for last.                           *)
(***************************************************************************)
THEOREM FiltersUrl == FiltersSpec => []UrlKeepsFilters
<1>1. FiltersInv => UrlKeepsFilters
  BY DEF FiltersInv, UrlKeepsFilters
<1>2. QED BY <1>1, FiltersInvHolds, PTL

-----------------------------------------------------------------------------
Differing(f, g) == {k \in Keys : g[k] # f[k]}

LEMMA FewDiffer ==
    ASSUME NEW f, NEW g, NEW key, NEW v, f = [k \in Keys |-> f[k]],
           g = f \/ g = [f EXCEPT ![key] = v]
    PROVE  Cardinality(Differing(f, g)) <= 1
<1>1. Differing(f, g) = {} \/ Differing(f, g) = {key}
  <2>1. \A k \in Keys \ {key} : g[k] = f[k]
    OBVIOUS
  <2>2. Differing(f, g) \subseteq {key}
    BY <2>1 DEF Differing
  <2>3. QED BY <2>2
<1>2. Cardinality({}) = 0 /\ Cardinality({key}) = 1
  BY FS_EmptySet, FS_Singleton
<1>3. QED BY <1>1, <1>2

LEMMA FewChange ==
    ASSUME FiltersInv, [FiltersNext]_filterVars, rendered # Unset,
           rendered.filters = Parse(url), rendered' = rendered
    PROVE  Cardinality(ChangedFilters) <= 1 \/ url' = NoFilters
<1> DEFINE f == Parse(url)
<1>1. ChangedFilters = Differing(f, Parse(url'))
  BY DEF ChangedFilters, Differing
<1>2. f = [k \in Keys |-> f[k]]
  BY DEF Parse
<1>3. ASSUME NEW key, NEW v, Parse(url') = f \/ Parse(url') = [f EXCEPT ![key] = v]
      PROVE  Cardinality(ChangedFilters) <= 1
  <2> DEFINE g == Parse(url')
  <2>1. g = f \/ g = [f EXCEPT ![key] = v]
    BY <1>3
  <2> HIDE DEF f, g
  <2>2. Cardinality(Differing(f, g)) <= 1
    BY <1>2, <2>1, FewDiffer
  <2>3. QED BY <1>1, <2>2 DEF g
<1>4. CASE OneChange
  <2>1. PICK key, value : Changes(key, value)
    BY <1>4 DEF OneChange
  <2>2. PICK v : Parse(url') = [rendered.filters EXCEPT ![key] = v]
    BY <2>1, ChangeKeeps
  <2>3. QED BY <1>3, <2>2
<1>5. ASSUME NEW params \in Bookmarks \cup {url}, Visit(params)
      PROVE  Cardinality(ChangedFilters) <= 1
  <2>1. Parse(url') \in {Parse(params), [Parse(params) EXCEPT !["month"] = now]}
    BY <1>5, VisitKeeps
  <2>2. Parse(params) = f
    <3>1. rendered' = [filters |-> Parse(params), today |-> now]
      BY <1>5 DEF Visit, Rendering
    <3>2. QED BY <3>1
  <2>3. QED BY <1>3, <2>1, <2>2
<1>6. CASE ClearFilters \/ HomeLink
  BY <1>6, ClearingKeeps
<1>7. CASE Render \/ TurnMonth \/ UNCHANGED filterVars
  <2>1. url' = url
    BY <1>7, OthersKeep
  <2>2. QED BY <1>3, <2>1
<1>8. QED BY <1>4, <1>5, <1>6, <1>7, FiltersSteps

(***************************************************************************)
(* From a render that is up to date, a step changes one filter at most,    *)
(* unless it clears all of them (setFilters writes the whole URL).         *)
(***************************************************************************)
THEOREM FiltersOthersSurvive == FiltersSpec => OthersSurvive
<1> DEFINE Survive ==
        (rendered # Unset /\ rendered.filters = Parse(url) /\ rendered' = rendered)
          => Cardinality(ChangedFilters) <= 1 \/ url' = NoFilters
<1>1. FiltersInv /\ [FiltersNext]_filterVars => [Survive]_filterVars
  BY FewChange
<1> HIDE DEF Survive
<1>2. FiltersSpec => [][Survive]_filterVars
  BY <1>1, FiltersInvHolds, PTL DEF FiltersSpec
<1>3. QED BY <1>2 DEF OthersSurvive, Survive

-----------------------------------------------------------------------------
(***************************************************************************)
(* MONTHS                                                                  *)
(*                                                                         *)
(* What the loops of navigateMonth compute is known from a function that   *)
(* satisfies their equation, so that Carry does, and from the month        *)
(* nearest to the middle of a year for which they could be wrong.          *)
(***************************************************************************)
Carries(f) ==
    f = [b \in Int \X Int |->
            IF b[2] > 12 THEN f[<<b[1] + 1, b[2] - 12>>]
            ELSE IF b[2] < 1 THEN f[<<b[1] - 1, b[2] + 12>>]
            ELSE b]

Carried == [b \in Int \X Int |-> <<b[1] + (b[2] - 1) \div 12, ((b[2] - 1) % 12) + 1>>]

LEMMA Divides ==
    ASSUME NEW n \in Int
    PROVE  /\ (n \div 12) \in Int /\ (n % 12) \in 0..11
           /\ n = 12 * (n \div 12) + (n % 12)
           /\ (n - 12) \div 12 = n \div 12 - 1 /\ (n - 12) % 12 = n % 12
           /\ (n + 12) \div 12 = n \div 12 + 1 /\ (n + 12) % 12 = n % 12
           /\ n \in 0..11 => n \div 12 = 0 /\ n % 12 = n
  BY SMT

LEMMA CarriedCarries == Carries(Carried)
<1>1. ASSUME NEW y \in Int, NEW m \in Int
      PROVE  Carried[<<y, m>>] = IF m > 12 THEN Carried[<<y + 1, m - 12>>]
                                 ELSE IF m < 1 THEN Carried[<<y - 1, m + 12>>]
                                 ELSE <<y, m>>
  <2>1. m - 1 - 12 = m - 12 - 1 /\ m - 1 + 12 = m + 12 - 1
    OBVIOUS
  <2>2. QED BY <2>1, Divides DEF Carried
<1>2. ASSUME NEW b \in Int \X Int
      PROVE  Carried[b] = IF b[2] > 12 THEN Carried[<<b[1] + 1, b[2] - 12>>]
                          ELSE IF b[2] < 1 THEN Carried[<<b[1] - 1, b[2] + 12>>]
                          ELSE b
  BY <1>1
<1>3. Carried = [b \in Int \X Int |-> Carried[b]]
  BY DEF Carried
<1> HIDE DEF Carried
<1>4. QED BY <1>2, <1>3 DEF Carries

LEMMA CarryCarries == Carries(Carry)
<1>1. Carry = CHOOSE f : Carries(f)
  BY DEF Carry, Carries
<1>2. QED BY <1>1, CarriedCarries

\* The distance from the middle of the year, doubled.
Far(b) == IF 2 * b[2] > 13 THEN 2 * b[2] - 13 ELSE 13 - 2 * b[2]

Exact(b) == Carry[b] \in Calendar /\ Index(Carry[b]) = Index(b)

LEMMA CarryExact == \A b \in Int \X Int : Exact(b)
<1> DEFINE Wrong == {Far(b) : b \in {c \in Int \X Int : ~Exact(c)}}
           Less == OpToRel(<, Nat)
<1>1. SUFFICES ASSUME Wrong # {} PROVE FALSE
  OBVIOUS
<1>2. Wrong \subseteq Nat
  BY DEF Far
<1>3. PICK n \in Wrong : \A k \in Wrong : <<k, n>> \notin Less
  <2> HIDE DEF Wrong
  <2> QED BY <1>1, <1>2, NatLessThanWellFounded, WFMin
<1>4. \A k \in Wrong : ~(k < n)
  BY <1>2, <1>3 DEF OpToRel
<1>5. PICK b \in Int \X Int : n = Far(b) /\ ~Exact(b)
  BY <1>3
<1>6. \A c \in Int \X Int : Far(c) < n => Exact(c)
  BY <1>4
<1>7. PICK y \in Int, m \in Int : b = <<y, m>>
  BY <1>5
<1> HIDE DEF Wrong, Less
<1>8. CASE m > 12
  <2>1. Carry[b] = Carry[<<y + 1, m - 12>>]
    BY <1>7, <1>8, CarryCarries DEF Carries
  <2>2. Exact(<<y + 1, m - 12>>)
    BY <1>5, <1>6, <1>7, <1>8 DEF Far
  <2>3. QED BY <1>5, <1>7, <2>1, <2>2 DEF Exact, Index, Calendar
<1>9. CASE m < 1
  <2>1. Carry[b] = Carry[<<y - 1, m + 12>>]
    BY <1>7, <1>9, CarryCarries DEF Carries
  <2>2. Exact(<<y - 1, m + 12>>)
    BY <1>5, <1>6, <1>7, <1>9 DEF Far
  <2>3. QED BY <1>5, <1>7, <2>1, <2>2 DEF Exact, Index, Calendar
<1>10. CASE m \in 1..12
  <2>1. Carry[b] = b
    BY <1>7, <1>10, CarryCarries DEF Carries
  <2>2. QED BY <1>5, <1>7, <1>10, <2>1 DEF Exact, Index, Calendar
<1>11. QED BY <1>7, <1>8, <1>9, <1>10

\* Navigation is exact for every offset.
LEMMA NavigateExact ==
    ASSUME NEW bucket \in Calendar, NEW offset \in Int
    PROVE  /\ NavigateMonth(bucket, offset) \in Calendar
           /\ Index(NavigateMonth(bucket, offset)) = Index(bucket) + offset
<1> DEFINE b == <<bucket[1], bucket[2] + offset>>
<1>1. bucket # Junk
  BY FiltersAssumption
<1>2. b \in Int \X Int /\ Index(b) = Index(bucket) + offset
  BY DEF Calendar, Index
<1>3. NavigateMonth(bucket, offset) = Carry[b]
  BY <1>1 DEF NavigateMonth
<1>4. QED BY <1>2, <1>3, CarryExact DEF Exact

(***************************************************************************)
(* The month on display is a month, or a text that is none.                *)
(***************************************************************************)
MonthText == Calendar \cup {Unset, Junk}

MonthInv ==
    /\ now \in Calendar
    /\ asked["month"] \in MonthText
    /\ rendered # Unset =>
         rendered.filters["month"] \in MonthText /\ rendered.today \in Calendar

LEMMA UpdateKeepsMonth ==
    ASSUME MonthInv, NEW key \in Keys, NEW value, UpdateFilter(key, value),
           key = "month" => value \in MonthText
    PROVE  MonthInv'
<1> DEFINE v == IF value = Blank THEN Unset ELSE value
<1>1. /\ rendered # Unset /\ asked' = [rendered.filters EXCEPT ![key] = v]
      /\ UNCHANGED <<rendered, now>>
  BY DEF UpdateFilter, SetFilters
<1>2. key = "month" => v \in MonthText
  BY DEF MonthText
<1>3. asked'["month"] \in MonthText
  BY <1>1, <1>2 DEF MonthInv
<1>4. QED BY <1>1, <1>3 DEF MonthInv

LEMMA MonthStep ==
    ASSUME FiltersInv, MonthInv, [FiltersNext]_filterVars
    PROVE  MonthInv'
<1>1. Numeric \cup {"month", "cardId", "category", "search"} = Keys /\ "month" \notin Numeric
  BY DEF Keys, Numeric
<1>2. Months \subseteq Calendar
  BY FiltersAssumption
<1>3. CASE ChooseFilter
  <2>1. UniqueValues("timestamp_bucket") \subseteq MonthText
    BY FiltersAssumption DEF UniqueValues, MonthText
  <2>2. PICK key, value : /\ key \in Keys /\ UpdateFilter(key, value)
                          /\ key = "month" => value \in MonthText
    BY <1>1, <1>3, <2>1 DEF ChooseFilter, MonthText
  <2>3. QED BY <2>2, UpdateKeepsMonth
<1>4. CASE GoToCurrentMonth \/ \E offset \in {-1, 1} : Navigate(offset)
  <2>1. PICK value \in MonthText : UpdateFilter("month", value)
    BY <1>2, <1>4 DEF GoToCurrentMonth, Navigate, MonthInv, MonthText
  <2>2. QED BY <1>1, <2>1, UpdateKeepsMonth
<1>5. ASSUME NEW params \in Bookmarks \cup {url}, Visit(params)
      PROVE  MonthInv'
  <2>1. Parse(params)["month"] \in MonthText
    <3>1. params = url => Parse(params)["month"] \in MonthText
      BY DEF FiltersInv, MonthInv
    <3>2. ASSUME params \in Bookmarks PROVE params["month"] \in {Unset, Blank, Junk}
      BY <3>2, <1>1 DEF Bookmarks, NoFilters
    <3>3. QED BY <1>1, <3>1, <3>2 DEF Parse, MonthText
  <2>2. /\ rendered'.filters = Parse(params) /\ rendered'.today = now /\ now' = now
        /\ asked'["month"] \in {Parse(params)["month"], now}
    <3>1. Parse(params) = [k \in Keys |-> Parse(params)[k]]
      BY DEF Parse
    <3>2. asked' \in {Parse(params), [Parse(params) EXCEPT !["month"] = now]}
      BY <1>5 DEF Visit, SetFilters
    <3>3. asked'["month"] \in {Parse(params)["month"], now}
      BY <1>1, <3>1, <3>2
    <3>4. QED BY <1>5, <3>3 DEF Visit, Rendering
  <2>3. QED BY <2>1, <2>2 DEF MonthInv, MonthText
<1>6. CASE ClearFilters \/ HomeLink
  <2>1. asked' = NoFilters /\ UNCHANGED <<rendered, now>>
    BY <1>6 DEF ClearFilters, HomeLink, SetFilters
  <2>2. NoFilters["month"] = Unset
    BY <1>1 DEF NoFilters
  <2>3. QED BY <2>1, <2>2 DEF MonthInv, MonthText
<1>7. CASE Render
  <2>1. /\ rendered'.filters = asked /\ rendered'.today = now
        /\ UNCHANGED <<asked, now>>
    BY <1>7 DEF Render, Rendering, FiltersInv
  <2>2. QED BY <2>1 DEF MonthInv
<1>8. CASE TurnMonth
  BY <1>2, <1>8 DEF TurnMonth, MonthInv
<1>9. CASE UNCHANGED filterVars
  BY <1>9 DEF filterVars, MonthInv
<1>10. QED BY <1>3, <1>4, <1>5, <1>6, <1>7, <1>8, <1>9 DEF FiltersNext

(***************************************************************************)
(* The arrows turn the month on display by exactly their offset, across    *)
(* any number of years.                                                    *)
(***************************************************************************)
THEOREM FiltersNavigate == FiltersSpec => []NavigationExact
<1>1. FiltersInit => MonthInv
  <2>1. "month" \in Keys
    BY DEF Keys
  <2>2. QED BY <2>1, FiltersAssumption DEF FiltersInit, MonthInv, MonthText, NoFilters
<1>2. FiltersInv /\ MonthInv /\ [FiltersNext]_filterVars => MonthInv'
  BY MonthStep
<1>3. MonthInv => NavigationExact
  <2> SUFFICES ASSUME MonthInv, rendered # Unset, ActiveMonth # Junk, NEW offset \in -25..25
               PROVE  LET b == NavigateMonth(ActiveMonth, offset)
                      IN  b[2] \in 1..12 /\ Index(b) = Index(ActiveMonth) + offset
    BY DEF NavigationExact
  <2>1. ActiveMonth \in Calendar
    BY DEF ActiveMonth, MonthInv, MonthText
  <2>2. offset \in Int
    OBVIOUS
  <2>3. /\ NavigateMonth(ActiveMonth, offset) \in Calendar
        /\ Index(NavigateMonth(ActiveMonth, offset)) = Index(ActiveMonth) + offset
    BY <2>1, <2>2, NavigateExact
  <2>4. QED BY <2>3 DEF Calendar
<1>4. QED BY <1>1, <1>2, <1>3, FiltersInvHolds, PTL DEF FiltersSpec

-----------------------------------------------------------------------------
(***************************************************************************)
(* CHARTS                                                                  *)
(*                                                                         *)
(* What MapThenSumSet computes is known in the same way: the sum of f over *)
(* S is the number of units f has there less the number of its debts.      *)
(***************************************************************************)
\* As many units as f has at the elements of S; g |-> -f counts the debts.
Units(f, S) == UNION {{x} \X (1..f[x]) : x \in S}
Debts(f, S) == UNION {{x} \X (1..(-f[x])) : x \in S}
Balance(f, S) == Cardinality(Units(f, S)) - Cardinality(Debts(f, S))

Summable(f, S) == IsFiniteSet(S) /\ \A x \in S : f[x] \in Int

LEMMA UnitsOne ==
    ASSUME NEW f, NEW x, f[x] \in Int
    PROVE  /\ IsFiniteSet(Units(f, {x})) /\ IsFiniteSet(Debts(f, {x}))
           /\ Cardinality(Units(f, {x})) = IF f[x] > 0 THEN f[x] ELSE 0
           /\ Cardinality(Debts(f, {x})) = IF f[x] < 0 THEN -f[x] ELSE 0
           /\ Balance(f, {x}) = f[x]
<1>1. ASSUME NEW n \in Int
      PROVE  /\ IsFiniteSet({x} \X (1..n))
             /\ Cardinality({x} \X (1..n)) = IF n > 0 THEN n ELSE 0
  <2>1. IsFiniteSet({x}) /\ Cardinality({x}) = 1
    BY FS_Singleton
  <2>2. IsFiniteSet(1..n) /\ Cardinality(1..n) = IF n > 0 THEN n ELSE 0
    BY FS_Interval
  <2>3. IsFiniteSet({x} \X (1..n)) /\ Cardinality({x} \X (1..n)) = Cardinality({x}) * Cardinality(1..n)
    BY <2>1, <2>2, FS_Product
  <2>4. QED BY <2>1, <2>2, <2>3
<1>2. Units(f, {x}) = {x} \X (1..f[x]) /\ Debts(f, {x}) = {x} \X (1..(-f[x]))
  BY DEF Units, Debts
<1>3. -f[x] \in Int
  OBVIOUS
<1>4. /\ IsFiniteSet(Units(f, {x}))
      /\ Cardinality(Units(f, {x})) = IF f[x] > 0 THEN f[x] ELSE 0
  BY <1>1, <1>2
<1>5. /\ IsFiniteSet(Debts(f, {x}))
      /\ Cardinality(Debts(f, {x})) = IF -f[x] > 0 THEN -f[x] ELSE 0
  BY <1>1, <1>2, <1>3
<1>6. Balance(f, {x}) = f[x]
  BY <1>4, <1>5 DEF Balance
<1>7. QED BY <1>4, <1>5, <1>6

LEMMA UnitsUnion ==
    ASSUME NEW f, NEW A, NEW B, A \cap B = {},
           IsFiniteSet(Units(f, A)), IsFiniteSet(Units(f, B)),
           IsFiniteSet(Debts(f, A)), IsFiniteSet(Debts(f, B))
    PROVE  /\ IsFiniteSet(Units(f, A \cup B)) /\ IsFiniteSet(Debts(f, A \cup B))
           /\ Balance(f, A \cup B) = Balance(f, A) + Balance(f, B)
<1>1. Units(f, A \cup B) = Units(f, A) \cup Units(f, B) /\ Units(f, A) \cap Units(f, B) = {}
  BY DEF Units
<1>2. Debts(f, A \cup B) = Debts(f, A) \cup Debts(f, B) /\ Debts(f, A) \cap Debts(f, B) = {}
  BY DEF Debts
<1>3. ASSUME NEW P, NEW Q, IsFiniteSet(P), IsFiniteSet(Q), P \cap Q = {}
      PROVE  /\ IsFiniteSet(P \cup Q) /\ Cardinality(P) \in Nat /\ Cardinality(Q) \in Nat
             /\ Cardinality(P \cup Q) = Cardinality(P) + Cardinality(Q)
  <2>1. IsFiniteSet(P \cup Q) /\ Cardinality(P \cup Q) = Cardinality(P) + Cardinality(Q) - Cardinality(P \cap Q)
    BY <1>3, FS_Union
  <2>2. Cardinality(P \cap Q) = 0
    BY <1>3, FS_EmptySet
  <2>3. Cardinality(P) \in Nat /\ Cardinality(Q) \in Nat
    BY <1>3, FS_CardinalityType
  <2>4. QED BY <2>1, <2>2, <2>3
<1> DEFINE ua == Units(f, A)  ub == Units(f, B)  da == Debts(f, A)  db == Debts(f, B)
<1> HIDE DEF ua, ub, da, db
<1>4. /\ IsFiniteSet(ua \cup ub) /\ Cardinality(ua) \in Nat /\ Cardinality(ub) \in Nat
      /\ Cardinality(ua \cup ub) = Cardinality(ua) + Cardinality(ub)
  BY <1>1, <1>3 DEF ua, ub
<1>5. /\ IsFiniteSet(da \cup db) /\ Cardinality(da) \in Nat /\ Cardinality(db) \in Nat
      /\ Cardinality(da \cup db) = Cardinality(da) + Cardinality(db)
  BY <1>2, <1>3 DEF da, db
<1>6. /\ Balance(f, A \cup B) = Cardinality(ua \cup ub) - Cardinality(da \cup db)
      /\ Balance(f, A) = Cardinality(ua) - Cardinality(da)
      /\ Balance(f, B) = Cardinality(ub) - Cardinality(db)
  BY <1>1, <1>2 DEF Balance, ua, ub, da, db
<1>7. Balance(f, A \cup B) = Balance(f, A) + Balance(f, B)
  BY <1>4, <1>5, <1>6
<1>8. QED BY <1>1, <1>2, <1>4, <1>5, <1>7 DEF ua, ub, da, db

\* Induction over finite sets: of those without a property one is smallest.
LEMMA SmallestSet ==
    ASSUME NEW W, W # {}, \A s \in W : IsFiniteSet(s)
    PROVE  \E s \in W : \A t \in W : ~(Cardinality(t) < Cardinality(s))
<1> DEFINE N == {Cardinality(s) : s \in W}
           Less == OpToRel(<, Nat)
<1>1. N \subseteq Nat /\ N # {}
  BY FS_CardinalityType
<1>2. \E n \in N : \A k \in N : <<k, n>> \notin Less
  <2> HIDE DEF N
  <2> QED BY <1>1, NatLessThanWellFounded, WFMin
<1>3. PICK n \in N : \A k \in N : ~(k < n)
  BY <1>1, <1>2 DEF OpToRel
<1>4. QED BY <1>3

LEMMA UnitsFinite ==
    ASSUME NEW f, NEW S, Summable(f, S)
    PROVE  /\ IsFiniteSet(Units(f, S)) /\ IsFiniteSet(Debts(f, S))
<1> DEFINE Fin(s) == IsFiniteSet(Units(f, s)) /\ IsFiniteSet(Debts(f, s))
           W == {s \in SUBSET S : ~Fin(s)}
<1>1. SUFFICES ASSUME W # {} PROVE FALSE
  BY DEF W
<1>2. \A s \in SUBSET S : IsFiniteSet(s)
  BY FS_Subset DEF Summable
<1>3. PICK s \in W : \A t \in W : ~(Cardinality(t) < Cardinality(s))
  <2>1. \A s \in W : IsFiniteSet(s)
    BY <1>2
  <2> HIDE DEF W
  <2> QED BY <1>1, <2>1, SmallestSet
<1>4. s # {}
  <2>1. Units(f, {}) = {} /\ Debts(f, {}) = {}
    BY DEF Units, Debts
  <2>2. QED BY <1>3, <2>1, FS_EmptySet
<1>5. PICK x \in s : TRUE
  BY <1>4
<1>6. IsFiniteSet(s) /\ IsFiniteSet(s \ {x}) /\ s = (s \ {x}) \cup {x} /\ (s \ {x}) \cap {x} = {}
  BY <1>2, <1>3, FS_RemoveElement
<1>7. Cardinality(s \ {x}) < Cardinality(s)
  <2>1. Cardinality(s \ {x}) = Cardinality(s) - 1 /\ Cardinality(s) \in Nat
    BY <1>6, FS_RemoveElement, FS_CardinalityType
  <2>2. QED BY <2>1
<1>8. Fin(s \ {x})
  BY <1>3, <1>7
<1>9. Fin({x})
  BY <1>3, UnitsOne DEF Summable
<1>10. Fin((s \ {x}) \cup {x})
  BY <1>6, <1>8, <1>9, UnitsUnion
<1>11. QED BY <1>3, <1>6, <1>10

LEMMA BalanceSums ==
    ASSUME NEW f, NEW S, Summable(f, S)
    PROVE  /\ Balance(f, {}) = 0
           /\ Balance(f, S) \in Int
           /\ \A x \in S : Balance(f, S) = f[x] + Balance(f, S \ {x})
           /\ \A A, B : A \cup B = S /\ A \cap B = {} => Balance(f, S) = Balance(f, A) + Balance(f, B)
<1>1. ASSUME NEW A, NEW B, A \cup B = S, A \cap B = {}
      PROVE  Balance(f, S) = Balance(f, A) + Balance(f, B)
  <2>1. Summable(f, A) /\ Summable(f, B)
    <3>1. IsFiniteSet(A) /\ IsFiniteSet(B)
      <4>1. A \subseteq S /\ B \subseteq S
        BY <1>1
      <4>2. QED BY <4>1, FS_Subset DEF Summable
    <3>2. QED BY <1>1, <3>1 DEF Summable
  <2>2. QED BY <1>1, <2>1, UnitsFinite, UnitsUnion
<1>2. Balance(f, {}) = 0
  <2>1. Units(f, {}) = {} /\ Debts(f, {}) = {} /\ Cardinality({}) = 0
    BY FS_EmptySet DEF Units, Debts
  <2>2. QED BY <2>1 DEF Balance
<1>3. \A A : IsFiniteSet(Units(f, A)) /\ IsFiniteSet(Debts(f, A)) => Balance(f, A) \in Int
  <2> TAKE A
  <2> HAVE IsFiniteSet(Units(f, A)) /\ IsFiniteSet(Debts(f, A))
  <2>1. Cardinality(Units(f, A)) \in Nat /\ Cardinality(Debts(f, A)) \in Nat
    BY FS_CardinalityType
  <2>2. QED BY <2>1 DEF Balance
<1>4. Balance(f, S) \in Int
  BY <1>3, UnitsFinite
<1>5. ASSUME NEW x \in S PROVE Balance(f, S) = f[x] + Balance(f, S \ {x})
  <2>1. {x} \cup (S \ {x}) = S /\ {x} \cap (S \ {x}) = {}
    OBVIOUS
  <2>2. Balance(f, S) = Balance(f, {x}) + Balance(f, S \ {x})
    BY <1>1, <2>1
  <2>3. Balance(f, {x}) = f[x]
    BY UnitsOne DEF Summable
  <2>4. QED BY <2>2, <2>3
<1>6. QED BY <1>1, <1>2, <1>4, <1>5

LEMMA SumIsBalance ==
    ASSUME NEW f, NEW S, Summable(f, S)
    PROVE  SumOver(f, S) = Balance(f, S)
<1> DEFINE Pick(s) == CHOOSE x \in s : TRUE
           Sums(g) == g = [s \in SUBSET S |-> IF s = {} THEN 0 ELSE f[Pick(s)] + g[s \ {Pick(s)}]]
           iter == CHOOSE g : Sums(g)
           bal == [s \in SUBSET S |-> Balance(f, s)]
<1>1. SumOver(f, S) = iter[S]
  BY DEF SumOver, MapThenSumSet, MapThenFoldSet
<1>2. \A s \in SUBSET S : s # {} => Pick(s) \in s
  OBVIOUS
<1>3. \A s \in SUBSET S : Summable(f, s)
  <2>1. \A s \in SUBSET S : IsFiniteSet(s)
    BY FS_Subset DEF Summable
  <2>2. QED BY <2>1 DEF Summable
<1> HIDE DEF Pick
<1>4. \A s \in SUBSET S :
        Balance(f, s) = IF s = {} THEN 0 ELSE f[Pick(s)] + Balance(f, s \ {Pick(s)})
  BY <1>2, <1>3, BalanceSums
<1>5. Sums(bal)
  BY <1>4
<1> HIDE DEF bal, Sums
<1>6. Sums(iter)
  BY <1>5
<1> HIDE DEF iter
<1> DEFINE W == {s \in SUBSET S : iter[s] # Balance(f, s)}
<1>7. SUFFICES ASSUME W # {} PROVE FALSE
  BY <1>1
<1>8. PICK s \in W : \A t \in W : ~(Cardinality(t) < Cardinality(s))
  <2>1. \A s \in W : IsFiniteSet(s)
    BY <1>3 DEF Summable
  <2> HIDE DEF W
  <2> QED BY <1>7, <2>1, SmallestSet
<1>9. iter[s] = IF s = {} THEN 0 ELSE f[Pick(s)] + iter[s \ {Pick(s)}]
  BY <1>6, <1>8 DEF Sums
<1>10. s # {}
  BY <1>4, <1>8, <1>9
<1>11. Cardinality(s \ {Pick(s)}) < Cardinality(s)
  <2>1. IsFiniteSet(s) /\ Pick(s) \in s
    BY <1>2, <1>3, <1>8, <1>10 DEF Summable
  <2>2. Cardinality(s \ {Pick(s)}) = Cardinality(s) - 1 /\ Cardinality(s) \in Nat
    BY <2>1, FS_RemoveElement, FS_CardinalityType
  <2>3. QED BY <2>2
<1>12. iter[s \ {Pick(s)}] = Balance(f, s \ {Pick(s)})
  BY <1>8, <1>11
<1>13. QED BY <1>4, <1>8, <1>9, <1>10, <1>12
LEMMA RoundedByHalf ==
    ASSUME NEW n \in Int
    PROVE  /\ RoundCents(n) \in Int
           /\ -5 <= RoundCents(n) - n /\ RoundCents(n) - n <= 5
<1>1. RoundCents(n) = ((n + 5) \div 10) * 10
  BY FiltersAssumption DEF RoundCents
<1>2. QED BY <1>1

LEMMA TransactionsSum ==
    ASSUME NEW txs \in SUBSET Transactions
    PROVE  /\ IsFiniteSet(txs) /\ Summable(AmountOf, txs)
           /\ Total(txs) = Balance(AmountOf, txs) /\ Total(txs) \in Int
<1>1. IsFiniteSet(txs)
  BY FiltersAssumption, FS_Subset
<1>2. Summable(AmountOf, txs)
  BY <1>1, FiltersAssumption DEF Summable, AmountOf
<1>3. QED BY <1>1, <1>2, SumIsBalance, BalanceSums DEF Total

\* A list that has a total has one for each group.
LEMMA GroupHasTotal ==
    ASSUME NEW txs \in SUBSET Transactions, Sum(txs) # Garbled, NEW part \in SUBSET txs
    PROVE  Sum(part) = Total(part)
<1>1. ~(Cardinality(txs) > 1 /\ \E t \in txs : t.text)
  BY DEF Sum
<1>2. Cardinality(part) <= Cardinality(txs) /\ Cardinality(part) \in Nat /\ Cardinality(txs) \in Nat
  BY TransactionsSum, FS_Subset, FS_CardinalityType
<1>3. QED BY <1>1, <1>2 DEF Sum

LEMMA ChartAddsUp ==
    ASSUME NEW txs \in SUBSET Transactions, Sum(txs) # Garbled, NEW field
    PROVE  LET chart == Aggregate(txs, field)
               off == SumOver(chart, DOMAIN chart) - Total(txs)
               slack == 5 * Cardinality(DOMAIN chart)
           IN  -slack <= off /\ off <= slack
<1> DEFINE chart == Aggregate(txs, field)
           groups == {t[field] : t \in txs}
           In(H) == {t \in txs : t[field] \in H}
           Off(H) == Balance(chart, H) - Balance(AmountOf, In(H))
           Close(H) == -(5 * Cardinality(H)) <= Off(H) /\ Off(H) <= 5 * Cardinality(H)
           W == {H \in SUBSET groups : ~Close(H)}
<1>1. IsFiniteSet(groups)
  <2> DEFINE pick == [t \in txs |-> t[field]]
  <2>1. pick \in Surjection(txs, groups)
    BY DEF Surjection
  <2>2. IsFiniteSet(txs)
    BY TransactionsSum
  <2>3. QED BY <2>1, <2>2, FS_Surjection
<1>2. \A H \in SUBSET groups : IsFiniteSet(H)
  BY <1>1, FS_Subset
<1>3. DOMAIN chart = groups
  BY DEF Aggregate
<1>4. ASSUME NEW g \in groups
      PROVE  /\ chart[g] \in Int /\ Balance(AmountOf, In({g})) \in Int
             /\ -5 <= chart[g] - Balance(AmountOf, In({g}))
             /\ chart[g] - Balance(AmountOf, In({g})) <= 5
  <2>1. chart[g] = RoundCents(Sum(In({g})))
    <3>1. In({g}) = {t \in txs : t[field] = g}
      OBVIOUS
    <3>2. QED BY <3>1 DEF Aggregate
  <2>2. Sum(In({g})) = Total(In({g}))
    BY GroupHasTotal
  <2>3. /\ Total(In({g})) = Balance(AmountOf, In({g})) /\ Total(In({g})) \in Int
    BY TransactionsSum
  <2>4. QED BY <2>1, <2>2, <2>3, RoundedByHalf
<1>5. \A H \in SUBSET groups : Summable(chart, H)
  BY <1>2, <1>4 DEF Summable
<1>6. \A H \in SUBSET groups : Summable(AmountOf, In(H))
  BY TransactionsSum
<1>7. In(groups) = txs
  OBVIOUS
<1> HIDE DEF chart
<1>8. \A H \in SUBSET groups : Close(H)
  <2>1. SUFFICES ASSUME W # {} PROVE FALSE
    OBVIOUS
  <2>2. PICK H \in W : \A K \in W : ~(Cardinality(K) < Cardinality(H))
    <3>1. \A K \in W : IsFiniteSet(K)
      BY <1>2
    <3> HIDE DEF W
    <3> QED BY <2>1, <3>1, SmallestSet
  <2>3. H # {}
    <3>1. Balance(chart, {}) = 0 /\ Balance(AmountOf, {}) = 0
      BY <1>5, <1>6, BalanceSums
    <3>2. In({}) = {}
      OBVIOUS
    <3>3. Cardinality({}) = 0
      BY FS_EmptySet
    <3>4. Close({})
      <4> HIDE DEF In
      <4>1. Off({}) = 0 /\ 5 * Cardinality({}) = 0
        BY <3>1, <3>2, <3>3
      <4>2. QED BY <4>1
    <3>5. QED BY <2>2, <3>4
  <2>4. PICK g \in H : TRUE
    BY <2>3
  <2> DEFINE K == H \ {g}
  <2>5. g \in groups /\ K \in SUBSET groups /\ H \in SUBSET groups
    BY <2>2
  <2>6. Cardinality(K) = Cardinality(H) - 1 /\ Cardinality(H) \in Nat
    BY <1>2, <2>5, FS_RemoveElement, FS_CardinalityType
  <2>7. Close(K)
    BY <2>2, <2>5, <2>6
  <2>8. /\ Balance(chart, H) = chart[g] + Balance(chart, K)
        /\ Balance(chart, K) \in Int
    BY <1>5, <2>5, BalanceSums
  <2>9. /\ Balance(AmountOf, In(H)) = Balance(AmountOf, In({g})) + Balance(AmountOf, In(K))
        /\ Balance(AmountOf, In(K)) \in Int
    <3>1. In({g}) \cup In(K) = In(H) /\ In({g}) \cap In(K) = {}
      OBVIOUS
    <3>2. Summable(AmountOf, In(H)) /\ Summable(AmountOf, In(K))
      BY <1>6, <2>5
    <3>3. ASSUME NEW A, NEW B, NEW C, Summable(AmountOf, C), Summable(AmountOf, B),
                 A \cup B = C, A \cap B = {}
          PROVE  /\ Balance(AmountOf, C) = Balance(AmountOf, A) + Balance(AmountOf, B)
                 /\ Balance(AmountOf, B) \in Int
      BY <3>3, BalanceSums
    <3> HIDE DEF In, K
    <3>4. QED BY <3>1, <3>2, <3>3
  <2>10. Close(H)
    <3> HIDE DEF In, K
    <3> QED BY <1>4, <2>5, <2>6, <2>7, <2>8, <2>9
  <2>11. QED BY <2>2, <2>10
<1>9. SumOver(chart, groups) = Balance(chart, groups)
  BY <1>5, SumIsBalance
<1>10. Total(txs) = Balance(AmountOf, txs)
  BY TransactionsSum
<1>11. QED BY <1>3, <1>7, <1>8, <1>9, <1>10 DEF chart

(***************************************************************************)
(* Each chart adds up to the total of the list, but for half a cent per    *)
(* point, as long as there is a total.                                     *)
(***************************************************************************)
THEOREM FiltersCharts == FiltersSpec => []ChartsAddUp
<1>1. ChartsAddUp
  <2>1. Shown \in SUBSET Transactions
    BY DEF Shown, FilterTransactions
  <2>2. QED BY <2>1, ChartAddsUp DEF ChartsAddUp
<1>2. QED BY <1>1, PTL
=============================================================================
