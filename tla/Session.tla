------------------------------ MODULE Session ------------------------------
(***************************************************************************)
(* One tab of the dashboard: the in-memory session of session.ts, the      *)
(* timer of useTokenRefresh, the two steps of LoginPage and the requests   *)
(* they have in flight.  An answer is applied to whatever session is the   *)
(* current one when it arrives.  Time is relative: a token keeps the ticks *)
(* it has left, the timer the ticks it still waits.                        *)
(***************************************************************************)
EXTENDS Integers, FiniteSets

CONSTANTS
    Users,
    None,           \* no session, no DEK, no timer, no answer yet
    Failed,         \* an answer that is an error
    Lifetime,       \* of a token, in ticks
    Margin,         \* REFRESH_MARGIN_MS
    MinDelay,       \* MIN_REFRESH_INTERVAL_MS
    Leeway,         \* by which the server accepts an expired token
    MaxTransit,     \* bound: ticks between the server's answer and its arrival
    MaxCalls,       \* bound: logins and unlockings in flight
    MaxRefreshes    \* bound: refreshes in flight

VARIABLES
    session,    \* currentSession
    timer,      \* ticks until the scheduled refresh, or None
    page,       \* the state of LoginPage, or Away on another page
    calls,      \* requests and derivations that have not settled
    quiet       \* history: ticks since a refresh was last sent, to MinDelay

vars == <<session, timer, page, calls, quiet>>

Expired == -(Leeway + 1)
Token == [user: Users, left: Expired..Lifetime]

ASSUME SessionAssumption ==
    /\ {Lifetime, Margin, MinDelay, Leeway, MaxTransit, MaxCalls, MaxRefreshes} \subseteq Nat
    /\ None \notin Users \cup Nat /\ Failed \notin Users /\ None # Failed
    /\ \A x \in Users \cup {None, Failed} : x \notin Token

Sessions == [token: Token, wrap: Users, dek: Users \cup {None}]

ASSUME NoneIsNoSession == None \notin Sessions

Away == [step |-> "away", data |-> None, loading |-> FALSE]
FreshPage == [step |-> "credentials", data |-> None, loading |-> FALSE]

\* token: what a refresh is authenticated by; mine: started by the mounted
\* LoginPage; late (history): the session was replaced or cleared since.
\* Calls that are equal in all of this are kept once.
Call(kind, user, token, answer) ==
    [kind |-> kind, user |-> user, token |-> token, answer |-> answer,
     mine |-> kind # "refresh", late |-> FALSE]

Max2(a, b) == IF a > b THEN a ELSE b

Init ==
    /\ session = None /\ timer = None /\ page = FreshPage /\ calls = {}
    /\ quiet = MinDelay

IsUnlocked(s) == s # None /\ s.dek # None

\* ProtectedRoute sends a locked tab to LoginPage, GuestRoute an unlocked one off it.
Routed(s, p) ==
    IF IsUnlocked(s) THEN Away ELSE IF p = Away THEN FreshPage ELSE p

\* Mutant: no minimum delay.
DelayAlone(token) == Max2(token.left - Margin, 0)

Delay(token) == Max2(token.left - Margin, MinDelay)

\* The effect's cleanup and its next run, which depend on the token.
Rescheduled(s) ==
    CASE s = None -> None
      [] s # None /\ session # None /\ s.token = session.token -> timer
      [] OTHER -> Delay(s.token)

\* Every change of currentSession notifies the listeners, which rerender.
SetSession(s) == session' = s /\ timer' = Rescheduled(s)

\* The calls another session overtakes, and those whose LoginPage is unmounted.
Overtaken(cs) == {[c EXCEPT !.late = TRUE] : c \in cs}
Detached(cs) == {[c EXCEPT !.mine = FALSE] : c \in cs}

Pending(kinds) == {c \in calls : c.kind \in kinds}

Start(c) ==
    /\ Cardinality(Pending({"login", "unlock"})) < MaxCalls
    /\ page' = [page EXCEPT !.loading = TRUE]
    /\ calls' = calls \cup {c}
    /\ UNCHANGED <<session, timer, quiet>>

\* handleCredentials up to its await.
SubmitCredentials(u) ==
    /\ page.step = "credentials" /\ ~page.loading
    /\ Start(Call("login", u, None, None))

\* handleMasterPassword up to its awaits; the password may be wrong.
SubmitMasterPassword(ok) ==
    /\ page.step = "master-password" /\ ~page.loading
    /\ Start(Call("unlock", page.data, None, IF ok THEN page.data ELSE Failed))

\* The timer's callback; the effect does not run again for the same token.
SendRefresh ==
    /\ timer = 0
    /\ Cardinality(Pending({"refresh"})) < MaxRefreshes
    /\ timer' = None
    /\ calls' = calls \cup {Call("refresh", session.token.user, session.token, None)}
    /\ quiet' = 0
    /\ UNCHANGED <<session, page>>

\* validate_token: not expired by more than the leeway.
Accepts(c) == c.kind = "refresh" => c.token.left > Expired

\* The server's answer, or the error of the fetch.
Answer(c) ==
    /\ c.answer = None
    /\ \E a \in {Failed, [user |-> c.user, left |-> Lifetime]} :
         /\ a # Failed => Accepts(c)
         /\ calls' = (calls \ {c}) \cup {[c EXCEPT !.answer = a]}
    /\ UNCHANGED <<session, timer, page, quiet>>

\* The page the tab shows once c has settled and its finally has run.
Settled(c, s, step, data) ==
    Routed(s, IF c.mine THEN [step |-> step, data |-> data, loading |-> FALSE] ELSE page)

\* Mutant: login() keeps the DEK of the session it replaces.
LoggedInKeepDek(c) ==
    LET s == [token |-> c.answer, wrap |-> c.user,
              dek |-> IF session = None THEN None ELSE session.dek]
    IN  /\ SetSession(s)
        /\ page' = Settled(c, s, "master-password", c.user)
        /\ calls' = Overtaken(calls \ {c})

LoggedIn(c) ==
    LET s == [token |-> c.answer, wrap |-> c.user, dek |-> None]
    IN  /\ SetSession(s)
        /\ page' = Settled(c, s, "master-password", c.user)
        /\ calls' = Overtaken(calls \ {c})

\* setDek does nothing without a session; then navigate("/").
Unlocked(c) ==
    LET s == IF session = None THEN None ELSE [session EXCEPT !.dek = c.answer]
    IN  /\ SetSession(s)
        /\ page' = Routed(s, FreshPage)
        /\ calls' = Detached(calls \ {c})

Refreshed(c) ==
    LET s == IF session = None THEN None ELSE [session EXCEPT !.token = c.answer]
    IN  /\ SetSession(s)
        /\ calls' = calls \ {c}
        /\ UNCHANGED page

\* logout(): of the button, and of a refresh that failed.
Clear(cs) ==
    /\ SetSession(None)
    /\ page' = Routed(None, page)
    /\ calls' = Overtaken(cs)

\* Mutant: a failed refresh is ignored.
RefusedQuietly(c) ==
    /\ page' = Settled(c, session, page.step, page.data)
    /\ calls' = calls \ {c}
    /\ UNCHANGED <<session, timer>>

Refused(c) ==
    IF c.kind = "refresh" THEN Clear(calls \ {c})
    ELSE /\ page' = Settled(c, session, page.step, page.data)
         /\ calls' = calls \ {c}
         /\ UNCHANGED <<session, timer>>

Settle(c) ==
    /\ c.answer # None
    /\ \/ c.answer = Failed /\ Refused(c)
       \/ c.answer # Failed /\ CASE c.kind = "login" -> LoggedIn(c)
                                 [] c.kind = "unlock" -> Unlocked(c)
                                 [] c.kind = "refresh" -> Refreshed(c)
    /\ UNCHANGED quiet

Logout == session # None /\ Clear(calls) /\ UNCHANGED quiet

\* `Use a different account': the session, loginData and loading stay.
Back ==
    /\ page.step = "master-password"
    /\ page' = [page EXCEPT !.step = "credentials"]
    /\ UNCHANGED <<session, timer, calls, quiet>>

\* A link of the navigation bar: ProtectedRoute sends a locked tab to a new LoginPage.
Home ==
    /\ ~IsUnlocked(session)
    /\ page' = FreshPage
    /\ calls' = Detached(calls)
    /\ UNCHANGED <<session, timer, quiet>>

Aged(token) == [token EXCEPT !.left = Max2(@ - 1, Expired)]

AgedCall(c) ==
    [c EXCEPT !.token = IF @ \in Token THEN Aged(@) ELSE @,
              !.answer = IF @ \in Token THEN Aged(@) ELSE @]

Tick ==
    /\ \A c \in calls : c.answer \in Token => c.answer.left > Lifetime - MaxTransit
    /\ session' = IF session = None THEN None ELSE [session EXCEPT !.token = Aged(@)]
    /\ timer' = IF timer = None THEN None ELSE Max2(timer - 1, 0)
    /\ calls' = {AgedCall(c) : c \in calls}
    /\ quiet' = IF quiet < MinDelay THEN quiet + 1 ELSE MinDelay
    /\ UNCHANGED page

Next ==
    \/ \E u \in Users : SubmitCredentials(u)
    \/ \E ok \in BOOLEAN : SubmitMasterPassword(ok)
    \/ SendRefresh \/ Logout \/ Back \/ Home \/ Tick
    \/ \E c \in calls : Answer(c) \/ Settle(c)

\* The clock runs, a due timer fires, and a fetch settles one way or the other.
Fairness ==
    /\ WF_vars(Tick) /\ WF_vars(SendRefresh)
    /\ WF_vars(\E c \in calls : c.kind = "refresh" /\ Answer(c))
    /\ WF_vars(\E c \in calls : Answer(c))
    /\ WF_vars(\E c \in calls : c.kind = "refresh" /\ Settle(c))
    /\ WF_vars(\E c \in calls : Settle(c))

Spec == Init /\ [][Next]_vars /\ Fairness

TypeOK ==
    /\ session \in Sessions \cup {None}
    /\ timer \in 0..Max2(Lifetime, MinDelay) \cup {None}
    /\ page.data \in Users \cup {None}
    /\ session = None => timer = None
    /\ IsUnlocked(session) <=> page = Away

(***************************************************************************)
(* `Minimum interval to prevent rapid refresh loops': whatever logins,     *)
(* logouts and late answers reschedule the timer, two refreshes are never  *)
(* sent less than the minimum interval apart.                              *)
(***************************************************************************)
NoRapidRefresh == timer # None => timer + quiet >= MinDelay

\* The token, the data key, the page's loginData and what the page has
\* under way for this session are those of one login.
Coherent ==
    session # None =>
        /\ session.token.user = session.wrap
        /\ session.dek \in {None, session.wrap}
        /\ page.step = "master-password" => page.data = session.wrap
        /\ \A c \in calls : c.kind # "login" /\ ~c.late => c.user = session.wrap

(***************************************************************************)
(* A tab mixes two users up in no other way than this: an answer arrives   *)
(* that was asked for under an earlier session.  Without logins, logouts   *)
(* or a second login that overlaps it, everything stays one user's.        *)
(***************************************************************************)
MixedOnlyByLateAnswer ==
    [][ Coherent /\ ~Coherent' => \E c \in calls \ calls' : c.late ]_vars

(***************************************************************************)
(* `If refresh fails, the user is logged out': no session stays with an    *)
(* expired token; it is refreshed, replaced or cleared, although the       *)
(* effect schedules a token's refresh only once.                           *)
(***************************************************************************)
ExpiredSessionEnds ==
    (session # None /\ session.token.left = Expired)
        ~> (session = None \/ session.token.left # Expired)

(***************************************************************************)
(* `Clears all session data (logout)', of clearSession: what a session     *)
(* holds was obtained for it, and not under one cleared before.            *)
(***************************************************************************)
LogoutClears == session # None => session.token.user = session.wrap

(***************************************************************************)
(* `Token already expired or about to expire -- refresh immediately': no   *)
(* timer waits for a token that is within the margin of its expiry.        *)
(***************************************************************************)
RefreshedImmediately ==
    (timer # None /\ session.token.left <= Margin) => timer = 0
=============================================================================
