----------------------------- MODULE SmsCapture -----------------------------
(***************************************************************************)
(* The iOS script that turns a bank SMS into a POST /v1/transactions.  The *)
(* Shortcut starts one run per delivery of an SMS; runs may overlap.  A    *)
(* run checks the file of recently processed messages, fetches the         *)
(* category overrides, posts with retries, and only after a 201 adds the   *)
(* message to the file.                                                    *)
(*                                                                         *)
(* Date.now() is used in differences only, so a time is kept as an age: an *)
(* entry's age grows with every tick up to Window, beyond which the script *)
(* cannot tell ages apart.  A delivery that ends before its first await    *)
(* (empty body, no credentials, no parser, no card, duplicate) changes     *)
(* nothing and is not an action.                                           *)
(***************************************************************************)
EXTENDS Naturals, FiniteSets

CONSTANTS
    Runs,           \* bound: the runs of the script at once
    Sms,            \* the message bodies the bank sends
    Hashes, Hash,   \* simpleHash: the hash of each body
    Window,         \* deduplicationWindowSecs, in ticks
    MaxRetries,     \* maxRetries: the attempts of one run
    RetryDelay,     \* retryDelayMs, in ticks
    MaxRuns         \* bound: the runs that get past the check, per message

\* The pause after a failed attempt.
SleepTicks(attempt) == RetryDelay * 2^(attempt - 1)

ASSUME SmsAssumption ==
    /\ Hash \in [Sms -> Hashes]
    /\ Window \in Nat \ {0}
    /\ MaxRetries \in Nat \ {0}
    /\ \A attempt \in 1..MaxRetries : SleepTicks(attempt) \in Nat
    /\ MaxRuns \in Nat

VARIABLES
    recent,     \* the deduplication file: entries with their ages
    runs,       \* run -> the script's locals
    stored,     \* message -> its rows in the server's transactions table
    late,       \* message -> its requests whose run no longer waits for them
    admitted,   \* history: message -> runs that got past the check
    heard,      \* history: message -> age of the last such run's start
    marked,     \* history: hash -> age of its last entry ever written
    dropped     \* history: the messages a run gave up on after its retries

vars == <<recent, runs, stored, late, admitted, heard, marked, dropped>>

Ages == 0..Window

Run ==
    [ sms: Sms,
      pc: {"overrides", "posted", "committed", "asleep"},
      attempt: 1..MaxRetries,
      wait: Nat,
      owes: SUBSET Sms ]    \* history: dropped, when the run started

Init ==
    /\ recent = {}
    /\ runs = [r \in {} |-> 0]
    /\ stored = [s \in Sms |-> 0]
    /\ late = [s \in Sms |-> 0]
    /\ admitted = [s \in Sms |-> 0]
    /\ heard = [s \in Sms |-> Window]
    /\ marked = [h \in Hashes |-> Window]
    /\ dropped = {}

At(r, pc) == r \in DOMAIN runs /\ runs[r].pc = pc

SetRun(r, new) ==
    runs' = [q \in DOMAIN runs \cup {r} |-> IF q = r THEN new ELSE runs[q]]

\* The run goes on; its message stays the same.
Goto(r, pc, attempt, wait) ==
    SetRun(r, [sms |-> runs[r].sms, pc |-> pc, attempt |-> attempt,
               wait |-> wait, owes |-> runs[r].owes])

EndRun(r) == runs' = [q \in DOMAIN runs \ {r} |-> runs[q]]

Plus1(count, s) == [count EXCEPT ![s] = @ + 1]

(***************************************************************************)
(* The deduplication file.  It is read and rewritten without an await.     *)
(***************************************************************************)
IsDuplicate(s) == \E e \in recent : e.hash = Hash[s] /\ e.age < Window

\* Mutant: the file is rewritten with the new entry only.
MarkAsProcessedAlone(s) ==
    /\ recent' = {[hash |-> Hash[s], age |-> 0]}
    /\ marked' = [marked EXCEPT ![Hash[s]] = 0]

MarkAsProcessed(s) ==
    /\ recent' = {e \in recent : e.age < Window} \cup {[hash |-> Hash[s], age |-> 0]}
    /\ marked' = [marked EXCEPT ![Hash[s]] = 0]

(***************************************************************************)
(* A run.                                                                  *)
(***************************************************************************)
Start(r, s) ==
    /\ r \in Runs \ DOMAIN runs
    /\ admitted[s] < MaxRuns
    /\ ~IsDuplicate(s)
    /\ SetRun(r, [sms |-> s, pc |-> "overrides", attempt |-> 1, wait |-> 0,
                  owes |-> dropped])
    /\ admitted' = Plus1(admitted, s)
    /\ heard' = [heard EXCEPT ![s] = 0]
    /\ UNCHANGED <<recent, stored, late, marked, dropped>>

\* Mutant: the message is marked when its POST is sent.
LoadOverridesAndMark(r) ==
    /\ At(r, "overrides")
    /\ Goto(r, "posted", 1, 0)
    /\ MarkAsProcessed(runs[r].sms)
    /\ UNCHANGED <<stored, late, admitted, heard, dropped>>

\* loadCategoryOverrides never fails; its answer only picks a category.
LoadOverrides(r) ==
    /\ At(r, "overrides")
    /\ Goto(r, "posted", 1, 0)
    /\ UNCHANGED <<recent, stored, late, admitted, heard, marked, dropped>>

\* The server inserts the row; its 201 is on the way.
Commit(r) ==
    /\ At(r, "posted")
    /\ Goto(r, "committed", runs[r].attempt, 0)
    /\ stored' = Plus1(stored, runs[r].sms)
    /\ UNCHANGED <<recent, late, admitted, heard, marked, dropped>>

\* Any answer but a 201 is permanent: the run ends, the message is lost.
Refuse(r) ==
    /\ At(r, "posted")
    /\ EndRun(r)
    /\ UNCHANGED <<recent, stored, late, admitted, heard, marked, dropped>>

\* The 201 arrives: the message is marked and the run ends.
Receive(r) ==
    /\ At(r, "committed")
    /\ MarkAsProcessed(runs[r].sms)
    /\ EndRun(r)
    /\ UNCHANGED <<stored, late, admitted, heard, dropped>>

\* Mutant: one attempt too many.
AttemptsLeftOneMore(r) == runs[r].attempt <= MaxRetries

AttemptsLeft(r) == runs[r].attempt < MaxRetries

\* The request fails for the script; the server may still be working on it.
NetworkError(r) ==
    /\ \/ /\ At(r, "posted")
          /\ late' = Plus1(late, runs[r].sms)
       \/ /\ At(r, "committed")
          /\ UNCHANGED late
    /\ \/ /\ AttemptsLeft(r)
          /\ Goto(r, "asleep", runs[r].attempt, SleepTicks(runs[r].attempt))
          /\ UNCHANGED dropped
       \/ /\ ~AttemptsLeft(r)
          /\ EndRun(r)
          /\ dropped' = dropped \cup {runs[r].sms}
    /\ UNCHANGED <<recent, stored, admitted, heard, marked>>

\* Mutant: the retry loop does not count.
WakeUncounted(r) ==
    /\ At(r, "asleep")
    /\ runs[r].wait = 0
    /\ Goto(r, "posted", runs[r].attempt, 0)
    /\ UNCHANGED <<recent, stored, late, admitted, heard, marked, dropped>>

Wake(r) ==
    /\ At(r, "asleep")
    /\ runs[r].wait = 0
    /\ Goto(r, "posted", runs[r].attempt + 1, 0)
    /\ UNCHANGED <<recent, stored, late, admitted, heard, marked, dropped>>

\* iOS may end the script at any await; its request stays on the way.
Kill(r) ==
    /\ r \in DOMAIN runs
    /\ EndRun(r)
    /\ late' = IF runs[r].pc = "posted" THEN Plus1(late, runs[r].sms) ELSE late
    /\ UNCHANGED <<recent, stored, admitted, heard, marked, dropped>>

(***************************************************************************)
(* A request nobody waits for is executed after all, or never is.          *)
(***************************************************************************)
SettleLate(s) ==
    /\ late[s] > 0
    /\ late' = [late EXCEPT ![s] = @ - 1]
    /\ stored' \in {stored, Plus1(stored, s)}
    /\ UNCHANGED <<recent, runs, admitted, heard, marked, dropped>>

Older(age) == IF age < Window THEN age + 1 ELSE Window

Tick ==
    /\ recent' = {[hash |-> e.hash, age |-> Older(e.age)] : e \in recent}
    /\ runs' = [r \in DOMAIN runs |->
         [runs[r] EXCEPT !.wait = IF @ > 0 THEN @ - 1 ELSE 0]]
    /\ heard' = [s \in Sms |-> Older(heard[s])]
    /\ marked' = [h \in Hashes |-> Older(marked[h])]
    /\ UNCHANGED <<stored, late, admitted, dropped>>

Advance(r) ==
    \/ LoadOverrides(r)
    \/ Commit(r)
    \/ Refuse(r)
    \/ Receive(r)
    \/ NetworkError(r)
    \/ Wake(r)

Next ==
    \/ \E r \in Runs, s \in Sms : Start(r, s)
    \/ \E r \in Runs : Advance(r)
    \/ \E r \in Runs : Kill(r)
    \/ \E s \in Sms : SettleLate(s)
    \/ Tick

Spec == Init /\ [][Next]_vars

(***************************************************************************)
(* Every request of the script ends (with an answer, an error or a         *)
(* timeout) and timers fire, so a live run keeps going.                    *)
(***************************************************************************)
FairSpec == Spec /\ WF_vars(Tick) /\ \A r \in Runs : WF_vars(Advance(r))

TypeOK ==
    /\ recent \subseteq [hash: Hashes, age: Ages]
    /\ runs \in [DOMAIN runs -> Run]
    /\ DOMAIN runs \subseteq Runs
    /\ stored \in [Sms -> Nat]
    /\ late \in [Sms -> Nat]
    /\ admitted \in [Sms -> 0..MaxRuns]
    /\ heard \in [Sms -> Ages]
    /\ marked \in [Hashes -> Ages]
    /\ dropped \subseteq Sms

(***************************************************************************)
(* The script suppresses a message only on account of a stored row: every  *)
(* entry of the file has the hash of a message the server holds.           *)
(***************************************************************************)
SuppressedIsStored ==
    \A e \in recent : \E s \in Sms : Hash[s] = e.hash /\ stored[s] > 0

(***************************************************************************)
(* A message may be stored more than once, but never more often than the   *)
(* attempts of the runs that got past the check allow.                     *)
(***************************************************************************)
DuplicatesBounded ==
    \A s \in Sms : stored[s] + late[s] <= MaxRetries * admitted[s]

(***************************************************************************)
(* No run of a message gets past the check less than a window after the    *)
(* message was last marked, whatever other runs wrote to the file since.   *)
(***************************************************************************)
Started == DOMAIN runs' \ DOMAIN runs

WindowHolds ==
    [][ \A r \in Started : marked[Hash[runs'[r].sms]] = Window ]_vars

\* Every run of the script ends, whatever the network does.
RunsEnd == \A r \in Runs : r \in DOMAIN runs ~> r \notin DOMAIN runs
-----------------------------------------------------------------------------
(***************************************************************************)
(* What the documentation and the script's own messages say and the code   *)
(* does not do.                                                            *)
(***************************************************************************)

(***************************************************************************)
(* A delivery within the window of an earlier delivery of the same message *)
(* is ignored while that one is being processed.                           *)
(***************************************************************************)
RetransmissionIgnored ==
    [][ \A r \in Started : \A q \in DOMAIN runs :
          runs[q].sms = runs'[r].sms => heard[runs[q].sms] = Window ]_vars

(***************************************************************************)
(* `Will retry on next SMS.': when a later run records its message, the    *)
(* messages given up on before it started have been stored, too.           *)
(***************************************************************************)
DroppedIsRetried ==
    [][ \A r \in Runs :
          Receive(r) => \A s \in runs[r].owes : stored[s] > 0 ]_vars
=============================================================================
