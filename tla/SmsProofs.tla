----------------------------- MODULE SmsProofs -----------------------------
(***************************************************************************)
(* What the deduplication file of the iOS script guarantees, for any       *)
(* number of overlapping runs, any messages and any hash function: it      *)
(* suppresses a message only on account of a stored row, and it does so    *)
(* for a whole window.                                                     *)
(***************************************************************************)
EXTENDS SmsCapture, FiniteSetTheorems, TLAPS

(***************************************************************************)
(* A run that has been answered has its row, a run that sleeps has an      *)
(* attempt left, and the last entry written for a hash stays in the file,  *)
(* at its age, until it expires.                                           *)
(***************************************************************************)
CommittedIsStored ==
    \A r \in DOMAIN runs : runs[r].pc = "committed" => stored[runs[r].sms] > 0

AsleepMayRetry ==
    \A r \in DOMAIN runs : runs[r].pc = "asleep" => runs[r].attempt < MaxRetries

LastMarkKept ==
    \A h \in Hashes : marked[h] < Window => [hash |-> h, age |-> marked[h]] \in recent

SmsInv ==
    /\ TypeOK
    /\ AsleepMayRetry
    /\ CommittedIsStored
    /\ SuppressedIsStored
    /\ LastMarkKept

-----------------------------------------------------------------------------
(***************************************************************************)
(* Type correctness, action by action.                                     *)
(***************************************************************************)
LEMMA SetRunType ==
    ASSUME NEW r \in Runs, NEW new \in Run,
           runs \in [DOMAIN runs -> Run], DOMAIN runs \subseteq Runs, SetRun(r, new)
    PROVE  runs' \in [DOMAIN runs' -> Run] /\ DOMAIN runs' \subseteq Runs
  BY DEF SetRun

LEMMA EndRunType ==
    ASSUME NEW r, runs \in [DOMAIN runs -> Run], DOMAIN runs \subseteq Runs, EndRun(r)
    PROVE  runs' \in [DOMAIN runs' -> Run] /\ DOMAIN runs' \subseteq Runs
  BY DEF EndRun

LEMMA GotoType ==
    ASSUME TypeOK, NEW r \in DOMAIN runs,
           NEW pc \in {"overrides", "posted", "committed", "asleep"},
           NEW attempt \in 1..MaxRetries, NEW wait \in Nat,
           Goto(r, pc, attempt, wait)
    PROVE  runs' \in [DOMAIN runs' -> Run] /\ DOMAIN runs' \subseteq Runs
<1> DEFINE new == [ sms |-> runs[r].sms, pc |-> pc, attempt |-> attempt,
                    wait |-> wait, owes |-> runs[r].owes ]
<1>1. r \in Runs /\ new \in Run
  BY DEF TypeOK, Run
<1>2. SetRun(r, new)
  BY DEF Goto
<1> HIDE DEF new
<1>3. QED BY <1>1, <1>2, SetRunType DEF TypeOK

LEMMA GotoFacts ==
    ASSUME NEW r \in DOMAIN runs, NEW pc, NEW attempt, NEW wait,
           Goto(r, pc, attempt, wait)
    PROVE  /\ DOMAIN runs' = DOMAIN runs
           /\ runs'[r].sms = runs[r].sms
           /\ runs'[r].pc = pc
           /\ runs'[r].attempt = attempt
           /\ \A q \in DOMAIN runs \ {r} : runs'[q] = runs[q]
  BY DEF Goto, SetRun

LEMMA EndRunFacts ==
    ASSUME NEW r, EndRun(r)
    PROVE  /\ DOMAIN runs' \subseteq DOMAIN runs
           /\ \A q \in DOMAIN runs' : runs'[q] = runs[q]
  BY DEF EndRun

LEMMA Plus1Type ==
    ASSUME NEW count \in [Sms -> Nat], NEW s \in Sms
    PROVE  Plus1(count, s) \in [Sms -> Nat]
  BY DEF Plus1

LEMMA OlderType == ASSUME SmsAssumption, NEW age \in Ages PROVE Older(age) \in Ages
  BY DEF SmsAssumption, Older, Ages

LEMMA TypeStep ==
    ASSUME TypeOK, AsleepMayRetry, [Next]_vars
    PROVE  TypeOK'
<1> USE SmsAssumption DEF Ages
<1>0. 0 \in Ages /\ \A s \in Sms : Hash[s] \in Hashes
  OBVIOUS
<1>1. ASSUME NEW r \in Runs, NEW s \in Sms, Start(r, s)
      PROVE  TypeOK'
  <2>1. [sms |-> s, pc |-> "overrides", attempt |-> 1, wait |-> 0,
         owes |-> dropped] \in Run
    BY DEF Run, TypeOK
  <2>2. runs' \in [DOMAIN runs' -> Run] /\ DOMAIN runs' \subseteq Runs
    BY <1>1, <2>1, SetRunType DEF Start, TypeOK
  <2>3. admitted' \in [Sms -> 0..MaxRuns] /\ heard' \in [Sms -> Ages]
    BY <1>1 DEF Start, TypeOK, Plus1
  <2>4. QED BY <1>1, <2>2, <2>3 DEF Start, TypeOK
<1>2. ASSUME NEW r \in Runs, LoadOverrides(r)
      PROVE  TypeOK'
  <2>1. r \in DOMAIN runs /\ Goto(r, "posted", 1, 0)
    BY <1>2 DEF LoadOverrides, At
  <2>2. runs' \in [DOMAIN runs' -> Run] /\ DOMAIN runs' \subseteq Runs
    BY <2>1, GotoType
  <2>3. QED BY <1>2, <2>2 DEF LoadOverrides, TypeOK
<1>3. ASSUME NEW r \in Runs, Commit(r)
      PROVE  TypeOK'
  <2>1. r \in DOMAIN runs /\ runs[r] \in Run /\ Goto(r, "committed", runs[r].attempt, 0)
    BY <1>3 DEF Commit, At, TypeOK
  <2>2. runs[r].attempt \in 1..MaxRetries
    BY <2>1 DEF Run
  <2>3. runs' \in [DOMAIN runs' -> Run] /\ DOMAIN runs' \subseteq Runs
    BY <2>1, <2>2, GotoType
  <2>4. stored' \in [Sms -> Nat]
    <3>1. runs[r].sms \in Sms
      BY <2>1 DEF Run
    <3>2. QED BY <1>3, <3>1, Plus1Type DEF Commit, TypeOK
  <2>5. QED BY <1>3, <2>3, <2>4 DEF Commit, TypeOK
<1>4. ASSUME NEW r \in Runs, Refuse(r)
      PROVE  TypeOK'
  BY <1>4, EndRunType DEF Refuse, TypeOK
<1>5. ASSUME NEW r \in Runs, Receive(r)
      PROVE  TypeOK'
  <2>1. runs[r].sms \in Sms
    BY <1>5 DEF Receive, At, TypeOK, Run
  <2>2. recent' \subseteq [hash: Hashes, age: Ages] /\ marked' \in [Hashes -> Ages]
    BY <1>0, <1>5, <2>1 DEF Receive, MarkAsProcessed, TypeOK
  <2>3. QED BY <1>5, <2>2, EndRunType DEF Receive, TypeOK
<1>6. ASSUME NEW r \in Runs, NetworkError(r)
      PROVE  TypeOK'
  <2>1. r \in DOMAIN runs /\ runs[r] \in Run
    BY <1>6 DEF NetworkError, At, TypeOK
  <2>2. runs[r].attempt \in 1..MaxRetries /\ runs[r].sms \in Sms
    BY <2>1 DEF Run
  <2>3. late' \in [Sms -> Nat]
    BY <1>6 DEF NetworkError, TypeOK, Plus1
  <2>4. CASE Goto(r, "asleep", runs[r].attempt, SleepTicks(runs[r].attempt))
             /\ UNCHANGED dropped
    <3>1. SleepTicks(runs[r].attempt) \in Nat
      BY <2>2
    <3>2. runs' \in [DOMAIN runs' -> Run] /\ DOMAIN runs' \subseteq Runs
      BY <2>1, <2>2, <2>4, <3>1, GotoType
    <3>3. QED BY <1>6, <2>3, <2>4, <3>2 DEF NetworkError, TypeOK
  <2>5. CASE EndRun(r) /\ dropped' = dropped \cup {runs[r].sms}
    BY <1>6, <2>2, <2>3, <2>5, EndRunType DEF NetworkError, TypeOK
  <2>6. QED BY <1>6, <2>4, <2>5 DEF NetworkError
<1>7. ASSUME NEW r \in Runs, Wake(r)
      PROVE  TypeOK'
  <2>1. r \in DOMAIN runs /\ runs[r] \in Run /\ runs[r].attempt < MaxRetries
    BY <1>7 DEF Wake, At, TypeOK, AsleepMayRetry
  <2>2. runs[r].attempt + 1 \in 1..MaxRetries
    BY <2>1 DEF Run
  <2>3. Goto(r, "posted", runs[r].attempt + 1, 0)
    BY <1>7 DEF Wake
  <2>4. runs' \in [DOMAIN runs' -> Run] /\ DOMAIN runs' \subseteq Runs
    BY <2>1, <2>2, <2>3, GotoType
  <2>5. QED BY <1>7, <2>4 DEF Wake, TypeOK
<1>8. ASSUME NEW r \in Runs, Kill(r)
      PROVE  TypeOK'
  <2>1. late' \in [Sms -> Nat]
    <3>1. runs[r].sms \in Sms
      BY <1>8 DEF Kill, TypeOK, Run
    <3>2. QED BY <1>8, <3>1, Plus1Type DEF Kill, TypeOK
  <2>2. QED BY <1>8, <2>1, EndRunType DEF Kill, TypeOK
<1>9. ASSUME NEW s \in Sms, SettleLate(s)
      PROVE  TypeOK'
  BY <1>9 DEF SettleLate, TypeOK, Plus1
<1>10. CASE Tick
  <2>1. \A age \in Ages : Older(age) \in Ages
    BY DEF Older
  <2>2. \A e \in recent : e.hash \in Hashes /\ e.age \in Ages
    BY DEF TypeOK
  <2>3. recent' \subseteq [hash: Hashes, age: Ages]
    BY <1>10, <2>1, <2>2 DEF Tick
  <2>4. runs' \in [DOMAIN runs' -> Run] /\ DOMAIN runs' = DOMAIN runs
    <3> DEFINE left(r) == IF runs[r].wait > 0 THEN runs[r].wait - 1 ELSE 0
    <3>1. ASSUME NEW r \in DOMAIN runs
          PROVE  [runs[r] EXCEPT !.wait = left(r)] \in Run
      <4>1. runs[r] \in Run
        BY DEF TypeOK
      <4>2. left(r) \in Nat
        BY <4>1 DEF Run
      <4> HIDE DEF left
      <4>3. QED BY <4>1, <4>2 DEF Run
    <3>2. runs' = [r \in DOMAIN runs |-> [runs[r] EXCEPT !.wait = left(r)]]
      BY <1>10 DEF Tick
    <3> HIDE DEF left
    <3>3. QED BY <3>1, <3>2
  <2>5. heard' \in [Sms -> Ages] /\ marked' \in [Hashes -> Ages]
    BY <1>10, <2>1 DEF Tick, TypeOK
  <2>6. QED BY <1>10, <2>3, <2>4, <2>5 DEF Tick, TypeOK
<1>11. CASE UNCHANGED vars
  BY <1>11 DEF vars, TypeOK
<1>12. QED
  BY <1>1, <1>2, <1>3, <1>4, <1>5, <1>6, <1>7, <1>8, <1>9, <1>10, <1>11 DEF Next, Advance
-----------------------------------------------------------------------------
(***************************************************************************)
(* What a step does to a run that was live before it and to the table.     *)
(***************************************************************************)
LEMMA TableGrows ==
    ASSUME TypeOK, [Next]_vars
    PROVE  \A s \in Sms : stored'[s] \in Nat /\ stored'[s] >= stored[s]
<1>1. ASSUME NEW s \in Sms
      PROVE  \A q \in Sms : /\ Plus1(stored, s)[q] \in Nat
                       /\ Plus1(stored, s)[q] >= stored[q]
  BY DEF TypeOK, Plus1
<1>2. stored \in [Sms -> Nat]
  BY DEF TypeOK
<1>3. ASSUME NEW r \in Runs, Commit(r)
      PROVE  \A s \in Sms : stored'[s] \in Nat /\ stored'[s] >= stored[s]
  <2>1. runs[r].sms \in Sms
    BY <1>3 DEF Commit, At, TypeOK, Run
  <2>2. QED BY <1>1, <1>3, <2>1 DEF Commit
<1>4. ASSUME NEW q \in Sms, SettleLate(q)
      PROVE  \A s \in Sms : stored'[s] \in Nat /\ stored'[s] >= stored[s]
  BY <1>1, <1>2, <1>4 DEF SettleLate
<1>5. CASE UNCHANGED stored
  BY <1>2, <1>5
<1>6. QED
  BY <1>3, <1>4, <1>5
     DEF Next, Advance, Start, LoadOverrides, Refuse, Receive, NetworkError, Wake,
         Kill, Tick, vars

LEMMA AsleepStep ==
    ASSUME TypeOK, AsleepMayRetry, [Next]_vars
    PROVE  AsleepMayRetry'
<1>1. ASSUME NEW r \in Runs, NEW s \in Sms, Start(r, s)
      PROVE  AsleepMayRetry'
  BY <1>1 DEF Start, SetRun, AsleepMayRetry
<1>2. ASSUME NEW r \in DOMAIN runs, NEW attempt, NEW wait,
             NEW pc \in {"posted", "committed"}, Goto(r, pc, attempt, wait)
      PROVE  AsleepMayRetry'
  BY <1>2, GotoFacts DEF AsleepMayRetry
<1>3. ASSUME NEW r, EndRun(r)
      PROVE  AsleepMayRetry'
  BY <1>3, EndRunFacts DEF AsleepMayRetry
<1>4. ASSUME NEW r \in DOMAIN runs, AttemptsLeft(r),
             Goto(r, "asleep", runs[r].attempt, SleepTicks(runs[r].attempt))
      PROVE  AsleepMayRetry'
  BY <1>4, GotoFacts DEF AsleepMayRetry, AttemptsLeft
<1>5. CASE Tick
  BY <1>5 DEF Tick, TypeOK, Run, AsleepMayRetry
<1>6. ASSUME NEW r \in Runs, Advance(r) \/ Kill(r)
      PROVE  AsleepMayRetry'
  <2>1. r \in DOMAIN runs
    BY <1>6 DEF Advance, LoadOverrides, Commit, Refuse, Receive, NetworkError, Wake,
                Kill, At
  <2>2. \/ \E pc \in {"posted", "committed"}, attempt \in {1, runs[r].attempt, runs[r].attempt + 1} :
              Goto(r, pc, attempt, 0)
        \/ EndRun(r)
        \/ /\ AttemptsLeft(r)
           /\ Goto(r, "asleep", runs[r].attempt, SleepTicks(runs[r].attempt))
    BY <1>6 DEF Advance, LoadOverrides, Commit, Refuse, Receive, NetworkError, Wake,
                Kill
  <2>3. QED BY <1>2, <1>3, <1>4, <2>1, <2>2
<1>7. CASE UNCHANGED runs
  BY <1>7 DEF AsleepMayRetry
<1>8. QED
  BY <1>1, <1>5, <1>6, <1>7 DEF Next, SettleLate, vars

LEMMA CommittedStep ==
    ASSUME TypeOK, CommittedIsStored, [Next]_vars
    PROVE  CommittedIsStored'
<1>0. \A s \in Sms : stored[s] > 0 => stored'[s] > 0
  BY TableGrows DEF TypeOK
<1>1. \A r \in DOMAIN runs : runs[r].sms \in Sms
  BY DEF TypeOK, Run
<1>2. ASSUME NEW r, EndRun(r) \/ UNCHANGED runs
      PROVE  CommittedIsStored'
  BY <1>0, <1>1, <1>2, EndRunFacts DEF CommittedIsStored
<1>3. ASSUME NEW r \in DOMAIN runs, NEW attempt, NEW wait,
             NEW pc \in {"posted", "asleep"}, Goto(r, pc, attempt, wait)
      PROVE  CommittedIsStored'
  BY <1>0, <1>1, <1>3, GotoFacts DEF CommittedIsStored
<1>4. ASSUME NEW r \in Runs, NEW s \in Sms, Start(r, s)
      PROVE  CommittedIsStored'
  BY <1>0, <1>1, <1>4 DEF Start, SetRun, CommittedIsStored
<1>5. ASSUME NEW r \in Runs, Commit(r)
      PROVE  CommittedIsStored'
  <2>1. r \in DOMAIN runs /\ Goto(r, "committed", runs[r].attempt, 0)
    BY <1>5 DEF Commit, At
  <2>2. stored'[runs[r].sms] = stored[runs[r].sms] + 1
    BY <1>1, <1>5, <2>1 DEF Commit, TypeOK, Plus1
  <2>3. stored'[runs[r].sms] > 0
    BY <1>1, <2>1, <2>2 DEF TypeOK
  <2>4. QED BY <1>0, <1>1, <2>1, <2>3, GotoFacts DEF CommittedIsStored
<1>6. CASE Tick
  BY <1>0, <1>1, <1>6 DEF Tick, TypeOK, Run, CommittedIsStored
<1>7. ASSUME NEW r \in Runs, Advance(r) \/ Kill(r)
      PROVE  CommittedIsStored'
  <2>1. r \in DOMAIN runs
    BY <1>7 DEF Advance, LoadOverrides, Commit, Refuse, Receive, NetworkError, Wake,
                Kill, At
  <2>2. \/ \E pc \in {"posted", "asleep"}, attempt \in {1, runs[r].attempt, runs[r].attempt + 1},
              wait \in {0, SleepTicks(runs[r].attempt)} :
              Goto(r, pc, attempt, wait)
        \/ EndRun(r)
        \/ Commit(r)
    BY <1>7 DEF Advance, LoadOverrides, Refuse, Receive, NetworkError, Wake, Kill
  <2>3. QED BY <1>2, <1>3, <1>5, <2>1, <2>2
<1>8. QED
  BY <1>2, <1>4, <1>6, <1>7 DEF Next, SettleLate, vars

-----------------------------------------------------------------------------
(***************************************************************************)
(* The deduplication file.  Only Receive and Tick change it.               *)
(***************************************************************************)
LEMMA FileChanges ==
    ASSUME [Next]_vars
    PROVE  \/ \E r \in Runs : Receive(r)
           \/ Tick
           \/ UNCHANGED <<recent, marked>>
  BY DEF Next, Advance, Start, LoadOverrides, Commit, Refuse, NetworkError, Wake, Kill,
         SettleLate, vars

LEMMA SuppressedStep ==
    ASSUME TypeOK, CommittedIsStored, SuppressedIsStored, [Next]_vars
    PROVE  SuppressedIsStored'
<1>0. \A s \in Sms : stored[s] > 0 => stored'[s] > 0
  BY TableGrows DEF TypeOK
<1>1. ASSUME NEW r \in Runs, Receive(r)
      PROVE  SuppressedIsStored'
  <2>1. runs[r].sms \in Sms /\ stored[runs[r].sms] > 0
    BY <1>1 DEF Receive, At, TypeOK, Run, CommittedIsStored
  <2>2. \A e \in recent' : e \in recent \/ e.hash = Hash[runs[r].sms]
    BY <1>1 DEF Receive, MarkAsProcessed
  <2>3. QED BY <1>0, <2>1, <2>2 DEF SuppressedIsStored
<1>2. CASE Tick
  <2>1. \A e \in recent' : \E d \in recent : e.hash = d.hash
    BY <1>2 DEF Tick
  <2>2. QED BY <1>0, <2>1 DEF SuppressedIsStored
<1>3. CASE UNCHANGED <<recent, marked>>
  BY <1>0, <1>3 DEF SuppressedIsStored
<1>4. QED BY <1>1, <1>2, <1>3, FileChanges

LEMMA LastMarkStep ==
    ASSUME TypeOK, LastMarkKept, [Next]_vars
    PROVE  LastMarkKept'
<1>1. ASSUME NEW r \in Runs, Receive(r)
      PROVE  LastMarkKept'
  <2>1. Hash[runs[r].sms] \in Hashes
    BY <1>1, SmsAssumption DEF Receive, At, TypeOK, Run
  <2>2. [hash |-> Hash[runs[r].sms], age |-> 0] \in recent'
    BY <1>1 DEF Receive, MarkAsProcessed
  <2>3. marked'[Hash[runs[r].sms]] = 0
    BY <1>1, <2>1 DEF Receive, MarkAsProcessed, TypeOK
  <2>4. ASSUME NEW h \in Hashes \ {Hash[runs[r].sms]}, marked'[h] < Window
        PROVE  [hash |-> h, age |-> marked'[h]] \in recent'
    <3>1. marked'[h] = marked[h]
      BY <1>1 DEF Receive, MarkAsProcessed, TypeOK
    <3>2. [hash |-> h, age |-> marked[h]] \in recent
      BY <2>4, <3>1 DEF LastMarkKept
    <3>3. QED BY <1>1, <2>4, <3>1, <3>2 DEF Receive, MarkAsProcessed
  <2>5. QED BY <2>2, <2>3, <2>4 DEF LastMarkKept
<1>2. CASE Tick
  <2>1. SUFFICES ASSUME NEW h \in Hashes, marked'[h] < Window
                 PROVE  [hash |-> h, age |-> marked'[h]] \in recent'
    BY DEF LastMarkKept
  <2>2. marked'[h] = Older(marked[h]) /\ marked[h] \in Ages
    BY <1>2 DEF Tick, TypeOK
  <2>3. marked[h] < Window
    BY <2>1, <2>2, SmsAssumption DEF Older, Ages
  <2>4. [hash |-> h, age |-> marked[h]] \in recent
    BY <2>3 DEF LastMarkKept
  <2>5. QED BY <1>2, <2>2, <2>4 DEF Tick
<1>3. CASE UNCHANGED <<recent, marked>>
  BY <1>3 DEF LastMarkKept
<1>4. QED BY <1>1, <1>2, <1>3, FileChanges

-----------------------------------------------------------------------------
LEMMA SmsInit == Init => SmsInv
<1> SUFFICES ASSUME Init PROVE SmsInv
  OBVIOUS
<1>1. TypeOK
  BY SmsAssumption DEF Init, TypeOK, Ages
<1>2. QED
  BY <1>1, SmsAssumption
     DEF Init, SmsInv, AsleepMayRetry, CommittedIsStored, SuppressedIsStored,
         LastMarkKept

LEMMA SmsStep == SmsInv /\ [Next]_vars => SmsInv'
  BY TypeStep, AsleepStep, CommittedStep, SuppressedStep, LastMarkStep DEF SmsInv

LEMMA SmsInvariant == Spec => []SmsInv
  BY SmsInit, SmsStep, PTL DEF Spec

(***************************************************************************)
(* The script's locals, its file and the counts keep their types for any   *)
(* messages, bounds and window: no attempt exceeds maxRetries, no entry    *)
(* gets older than the window.                                             *)
(***************************************************************************)
THEOREM SmsType == Spec => []TypeOK
<1>1. SmsInv => TypeOK
  BY DEF SmsInv
<1>2. QED BY <1>1, SmsInvariant, PTL

(***************************************************************************)
(* isDuplicate never drops a message for which (or for whose hash) the     *)
(* server holds no row, however runs overlap, fail or are killed.          *)
(***************************************************************************)
THEOREM SmsSuppressed == Spec => []SuppressedIsStored
<1>1. SmsInv => SuppressedIsStored
  BY DEF SmsInv
<1>2. QED BY <1>1, SmsInvariant, PTL

(***************************************************************************)
(* Once markAsProcessed has recorded a message, isDuplicate keeps its      *)
(* further deliveries out for a window, whatever is written in between.    *)
(***************************************************************************)
THEOREM SmsWindow == Spec => WindowHolds
<1>1. ASSUME SmsInv, [Next]_vars, NEW r \in Started
      PROVE  marked[Hash[runs'[r].sms]] = Window
  <2>1. PICK q \in Runs, s \in Sms : Start(q, s)
    <3>1. r \in DOMAIN runs' /\ r \notin DOMAIN runs
      BY DEF Started
    <3>2. ~UNCHANGED runs /\ ~Tick
      BY <3>1 DEF Tick
    <3>3. \A q \in Runs : ~Advance(q) /\ ~Kill(q)
      BY <3>1, GotoFacts, EndRunFacts
         DEF Advance, LoadOverrides, Commit, Refuse, Receive, NetworkError, Wake, Kill, At
    <3>4. QED BY <1>1, <3>2, <3>3 DEF Next, SettleLate, vars
  <2>2. r = q /\ runs'[r].sms = s
    BY <2>1 DEF Start, SetRun, Started
  <2>3. Hash[s] \in Hashes /\ marked[Hash[s]] \in Ages
    BY <1>1, SmsAssumption DEF SmsInv, TypeOK
  <2>4. ~(marked[Hash[s]] < Window)
    BY <1>1, <2>1, <2>3 DEF SmsInv, LastMarkKept, Start, IsDuplicate
  <2>5. QED BY <2>2, <2>3, <2>4, SmsAssumption DEF Ages
<1>2. SmsInv /\ [Next]_vars
        => [ \A r \in Started : marked[Hash[runs'[r].sms]] = Window ]_vars
  BY <1>1
<1>3. QED BY <1>2, SmsInvariant, PTL DEF Spec, WindowHolds

-----------------------------------------------------------------------------
(***************************************************************************)
(* Counting requests: the ones a run may still send are numbered, and each *)
(* row and each request on the way has used up one of them.                *)
(***************************************************************************)
Remaining(run) ==
    IF run.pc = "posted" THEN MaxRetries - run.attempt + 1
    ELSE IF run.pc = "overrides" THEN MaxRetries
    ELSE MaxRetries - run.attempt

RequestsLeft(s) ==
    UNION {{r} \X (1..Remaining(runs[r])) : r \in {q \in DOMAIN runs : runs[q].sms = s}}

CountedOK(s) ==
    /\ IsFiniteSet(RequestsLeft(s))
    /\ stored[s] + late[s] + Cardinality(RequestsLeft(s)) <= MaxRetries * admitted[s]

RequestsCounted == \A s \in Sms : CountedOK(s)

LEMMA Requests ==
    ASSUME NEW s
    PROVE  /\ \A r \in DOMAIN runs : runs[r].sms = s =>
                \A n \in 1..Remaining(runs[r]) : <<r, n>> \in RequestsLeft(s)
           /\ \A x \in RequestsLeft(s) :
                /\ x[1] \in DOMAIN runs /\ runs[x[1]].sms = s
                /\ x[2] \in 1..Remaining(runs[x[1]]) /\ x = <<x[1], x[2]>>
  BY DEF RequestsLeft

\* The same of the next state.
LEMMA RequestsNext ==
    ASSUME NEW s
    PROVE  /\ \A r \in DOMAIN runs' : runs'[r].sms = s =>
                \A n \in 1..Remaining(runs'[r]) : <<r, n>> \in RequestsLeft(s)'
           /\ \A x \in RequestsLeft(s)' :
                /\ x[1] \in DOMAIN runs' /\ runs'[x[1]].sms = s
                /\ x[2] \in 1..Remaining(runs'[x[1]]) /\ x = <<x[1], x[2]>>
  BY DEF RequestsLeft

LEMMA RemainingType ==
    ASSUME NEW run \in Run
    PROVE  /\ Remaining(run) \in Nat
           /\ run.pc = "posted" => Remaining(run) >= 1
  BY SmsAssumption DEF Run, Remaining

\* No run starts, and none may send more than it could before.
RunsShrink ==
    \A q \in DOMAIN runs' :
        /\ q \in DOMAIN runs /\ runs'[q].sms = runs[q].sms
        /\ Remaining(runs'[q]) <= Remaining(runs[q])

LEMMA FewerLeft ==
    ASSUME TypeOK, TypeOK', RunsShrink, NEW s
    PROVE  RequestsLeft(s)' \subseteq RequestsLeft(s)
<1> SUFFICES ASSUME NEW x \in RequestsLeft(s)' PROVE x \in RequestsLeft(s)
  OBVIOUS
<1>1. /\ x[1] \in DOMAIN runs' /\ runs'[x[1]].sms = s
      /\ x[2] \in 1..Remaining(runs'[x[1]]) /\ x = <<x[1], x[2]>>
  BY RequestsNext
<1>2. /\ x[1] \in DOMAIN runs /\ runs[x[1]].sms = s
      /\ Remaining(runs'[x[1]]) <= Remaining(runs[x[1]])
  BY <1>1 DEF RunsShrink
<1>3. Remaining(runs'[x[1]]) \in Nat /\ Remaining(runs[x[1]]) \in Nat
  BY <1>1, <1>2, RemainingType DEF TypeOK
<1>4. x[2] \in 1..Remaining(runs[x[1]])
  BY <1>1, <1>2, <1>3
<1>5. QED BY <1>1, <1>2, <1>4, Requests

\* A step that sends nothing.
LEMMA NoneSent ==
    ASSUME TypeOK, TypeOK', RequestsCounted, RunsShrink, admitted' = admitted,
           \A s \in Sms : stored'[s] + late'[s] <= stored[s] + late[s]
    PROVE  RequestsCounted'
<1> SUFFICES ASSUME NEW s \in Sms PROVE CountedOK(s)'
  BY DEF RequestsCounted
<1>1. RequestsLeft(s)' \subseteq RequestsLeft(s)
  BY FewerLeft
<1>2. IsFiniteSet(RequestsLeft(s))
      /\ stored[s] + late[s] + Cardinality(RequestsLeft(s)) <= MaxRetries * admitted[s]
  BY DEF RequestsCounted, CountedOK
<1>3. /\ IsFiniteSet(RequestsLeft(s)')
      /\ Cardinality(RequestsLeft(s)') <= Cardinality(RequestsLeft(s))
  BY <1>1, <1>2, FS_Subset
<1>4. Cardinality(RequestsLeft(s)') \in Nat /\ Cardinality(RequestsLeft(s)) \in Nat
  BY <1>2, <1>3, FS_CardinalityType
<1>5. /\ stored[s] \in Nat /\ late[s] \in Nat /\ stored'[s] \in Nat /\ late'[s] \in Nat
      /\ stored'[s] + late'[s] <= stored[s] + late[s]
      /\ MaxRetries * admitted[s] \in Nat /\ admitted'[s] = admitted[s]
  BY SmsAssumption DEF TypeOK
<1>6. stored'[s] + late'[s] + Cardinality(RequestsLeft(s)') <= MaxRetries * admitted'[s]
  BY <1>2, <1>3, <1>4, <1>5
<1>7. QED BY <1>3, <1>6 DEF CountedOK

\* A step in which the request run r has sent reaches the table, or is left
\* behind: r may send fewer than before.
LEMMA OneSent ==
    ASSUME TypeOK, TypeOK', RequestsCounted, RunsShrink, admitted' = admitted,
           NEW r \in DOMAIN runs, runs[r].pc = "posted",
           r \in DOMAIN runs' => Remaining(runs'[r]) < Remaining(runs[r]),
           \A s \in Sms \ {runs[r].sms} : stored'[s] + late'[s] = stored[s] + late[s],
           stored'[runs[r].sms] + late'[runs[r].sms]
             = stored[runs[r].sms] + late[runs[r].sms] + 1
    PROVE  RequestsCounted'
<1> DEFINE x == <<r, Remaining(runs[r])>>
<1> SUFFICES ASSUME NEW s \in Sms PROVE CountedOK(s)'
  BY DEF RequestsCounted
<1>0. runs[r] \in Run
  BY DEF TypeOK
<1>1. s = runs[r].sms => x \in RequestsLeft(s)
  <2>1. Remaining(runs[r]) \in 1..Remaining(runs[r])
    BY <1>0, RemainingType
  <2>2. QED BY <2>1, Requests
<1>2. x \notin RequestsLeft(s)'
  <2>1. ASSUME x \in RequestsLeft(s)' PROVE FALSE
    <3>1. r \in DOMAIN runs' /\ Remaining(runs[r]) \in 1..Remaining(runs'[r])
      BY <2>1, RequestsNext
    <3>2. runs'[r] \in Run
      BY <3>1 DEF TypeOK
    <3>3. Remaining(runs[r]) \in Nat /\ Remaining(runs'[r]) \in Nat
      BY <1>0, <3>2, RemainingType
    <3>4. QED BY <3>1, <3>3
  <2>2. QED BY <2>1
<1> HIDE DEF x
<1>4. RequestsLeft(s)' \subseteq RequestsLeft(s)
  BY FewerLeft
<1>5. IsFiniteSet(RequestsLeft(s))
      /\ stored[s] + late[s] + Cardinality(RequestsLeft(s)) <= MaxRetries * admitted[s]
  BY DEF RequestsCounted, CountedOK
<1>6. /\ IsFiniteSet(RequestsLeft(s)')
      /\ Cardinality(RequestsLeft(s)') <= Cardinality(RequestsLeft(s))
      /\ Cardinality(RequestsLeft(s)') = Cardinality(RequestsLeft(s))
           => RequestsLeft(s)' = RequestsLeft(s)
  BY <1>4, <1>5, FS_Subset
<1>7. Cardinality(RequestsLeft(s)') \in Nat /\ Cardinality(RequestsLeft(s)) \in Nat
  BY <1>5, <1>6, FS_CardinalityType
<1>8. /\ stored[s] \in Nat /\ late[s] \in Nat /\ stored'[s] \in Nat /\ late'[s] \in Nat
      /\ MaxRetries * admitted[s] \in Nat /\ admitted'[s] = admitted[s]
  BY SmsAssumption DEF TypeOK
<1>9. CASE s = runs[r].sms
  <2>1. Cardinality(RequestsLeft(s)') + 1 <= Cardinality(RequestsLeft(s))
    BY <1>1, <1>2, <1>6, <1>7, <1>9
  <2>2. stored'[s] + late'[s] + Cardinality(RequestsLeft(s)') <= MaxRetries * admitted'[s]
    BY <1>5, <1>7, <1>8, <1>9, <2>1
  <2>3. QED BY <1>6, <2>2 DEF CountedOK
<1>10. CASE s # runs[r].sms
  <2>1. stored'[s] + late'[s] + Cardinality(RequestsLeft(s)') <= MaxRetries * admitted'[s]
    BY <1>5, <1>6, <1>7, <1>8, <1>10
  <2>2. QED BY <1>6, <2>1 DEF CountedOK
<1>11. QED BY <1>9, <1>10

\* A run that gets past the check may send as many requests as a run can.
LEMMA StartCounted ==
    ASSUME TypeOK, TypeOK', RequestsCounted, NEW r \in Runs, NEW s \in Sms, Start(r, s)
    PROVE  RequestsCounted'
<1> DEFINE new == {r} \X (1..MaxRetries)
<1>1. /\ DOMAIN runs' = DOMAIN runs \cup {r} /\ r \notin DOMAIN runs
      /\ runs'[r].sms = s /\ Remaining(runs'[r]) = MaxRetries
      /\ \A q \in DOMAIN runs : runs'[q] = runs[q]
  BY DEF Start, SetRun, Remaining
<1>2. UNCHANGED <<stored, late>> /\ admitted' = Plus1(admitted, s)
  BY DEF Start
<1>3. ASSUME NEW q \in Sms \ {s} PROVE CountedOK(q)'
  <2>1. RequestsLeft(q)' = RequestsLeft(q)
    BY <1>1 DEF RequestsLeft
  <2>2. admitted'[q] = admitted[q]
    BY <1>2 DEF Plus1, TypeOK
  <2>3. QED BY <1>2, <2>1, <2>2 DEF RequestsCounted, CountedOK
<1>4. CountedOK(s)'
  <2>1. RequestsLeft(s)' = RequestsLeft(s) \cup new
    <3>1. ASSUME NEW x \in RequestsLeft(s)' PROVE x \in RequestsLeft(s) \cup new
      <4>1. /\ x[1] \in DOMAIN runs' /\ runs'[x[1]].sms = s
            /\ x[2] \in 1..Remaining(runs'[x[1]]) /\ x = <<x[1], x[2]>>
        BY RequestsNext
      <4>2. CASE x[1] = r
        <5>1. x \in new
          BY <1>1, <4>1, <4>2
        <5>2. QED BY <5>1
      <4>3. CASE x[1] # r
        <5>1. x \in RequestsLeft(s)
          BY <1>1, <4>1, <4>3, Requests
        <5>2. QED BY <5>1
      <4>4. QED BY <4>2, <4>3
    <3>2. ASSUME NEW x \in RequestsLeft(s) PROVE x \in RequestsLeft(s)'
      <4>1. /\ x[1] \in DOMAIN runs /\ runs[x[1]].sms = s
            /\ x[2] \in 1..Remaining(runs[x[1]]) /\ x = <<x[1], x[2]>>
        BY Requests
      <4>2. x[1] \in DOMAIN runs' /\ runs'[x[1]] = runs[x[1]]
        BY <1>1, <4>1
      <4>3. QED BY <4>1, <4>2, RequestsNext
    <3>3. ASSUME NEW n \in 1..MaxRetries PROVE <<r, n>> \in RequestsLeft(s)'
      BY <1>1, RequestsNext
    <3>4. new \subseteq RequestsLeft(s)'
      BY <3>3
    <3> HIDE DEF new
    <3>5. QED BY <3>1, <3>2, <3>4
  <2>2. RequestsLeft(s) \cap new = {}
    BY <1>1, Requests
  <2>3. IsFiniteSet(new) /\ Cardinality(new) = MaxRetries
    <3>1. IsFiniteSet({r}) /\ Cardinality({r}) = 1
      BY FS_Singleton
    <3>2. IsFiniteSet(1..MaxRetries) /\ Cardinality(1..MaxRetries) = MaxRetries
      BY SmsAssumption, FS_Interval
    <3>3. IsFiniteSet(new) /\ Cardinality(new) = Cardinality({r}) * Cardinality(1..MaxRetries)
      BY <3>1, <3>2, FS_Product
    <3> HIDE DEF new
    <3>4. QED BY <3>1, <3>2, <3>3, SmsAssumption
  <2> HIDE DEF new
  <2>4. IsFiniteSet(RequestsLeft(s))
        /\ stored[s] + late[s] + Cardinality(RequestsLeft(s)) <= MaxRetries * admitted[s]
    BY DEF RequestsCounted, CountedOK
  <2>5. IsFiniteSet(RequestsLeft(s)') /\ Cardinality(RequestsLeft(s)')
                                           = Cardinality(RequestsLeft(s)) + MaxRetries
    <3>1. Cardinality(RequestsLeft(s) \cap new) = 0
      BY <2>2, FS_EmptySet
    <3>2. Cardinality(RequestsLeft(s)) \in Nat
      BY <2>4, FS_CardinalityType
    <3>3. /\ IsFiniteSet(RequestsLeft(s) \cup new)
          /\ Cardinality(RequestsLeft(s) \cup new)
               = Cardinality(RequestsLeft(s)) + Cardinality(new)
                   - Cardinality(RequestsLeft(s) \cap new)
      BY <2>3, <2>4, FS_Union
    <3>4. QED BY <2>1, <2>3, <3>1, <3>2, <3>3, SmsAssumption
  <2>6. MaxRetries * admitted'[s] = MaxRetries * admitted[s] + MaxRetries
    <3>1. admitted[s] \in Nat /\ admitted'[s] = admitted[s] + 1
      BY <1>2, SmsAssumption DEF Plus1, TypeOK
    <3>2. QED BY <3>1, SmsAssumption
  <2>7. /\ stored[s] \in Nat /\ late[s] \in Nat /\ MaxRetries * admitted[s] \in Nat
        /\ Cardinality(RequestsLeft(s)) \in Nat /\ MaxRetries \in Nat
    BY <2>4, FS_CardinalityType, SmsAssumption DEF TypeOK
  <2>8. stored'[s] + late'[s] + Cardinality(RequestsLeft(s)') <= MaxRetries * admitted'[s]
    BY <1>2, <2>4, <2>5, <2>6, <2>7
  <2>9. QED BY <2>5, <2>8 DEF CountedOK
<1>5. QED BY <1>3, <1>4 DEF RequestsCounted

\* What a run that goes on, or ends, does to the runs.
LEMMA GotoShrinks ==
    ASSUME TypeOK, NEW r \in DOMAIN runs, NEW pc, NEW attempt, NEW wait,
           Goto(r, pc, attempt, wait), Remaining(runs'[r]) <= Remaining(runs[r])
    PROVE  RunsShrink
<1>1. \A q \in DOMAIN runs : Remaining(runs[q]) <= Remaining(runs[q])
  BY RemainingType DEF TypeOK
<1>2. QED BY <1>1, GotoFacts DEF RunsShrink

LEMMA EndShrinks ==
    ASSUME TypeOK, NEW r, EndRun(r)
    PROVE  RunsShrink /\ r \notin DOMAIN runs'
<1>1. \A q \in DOMAIN runs : Remaining(runs[q]) <= Remaining(runs[q])
  BY RemainingType DEF TypeOK
<1>2. QED BY <1>1, EndRunFacts DEF RunsShrink, EndRun

\* A request on the way, or a row, more of the run's message.
LEMMA OneMoreRow ==
    ASSUME TypeOK, NEW s \in Sms,
           \/ stored' = Plus1(stored, s) /\ UNCHANGED late
           \/ late' = Plus1(late, s) /\ UNCHANGED stored
    PROVE  /\ stored'[s] + late'[s] = stored[s] + late[s] + 1
           /\ \A q \in Sms \ {s} : stored'[q] + late'[q] = stored[q] + late[q]
  BY DEF TypeOK, Plus1

LEMMA CountedStep ==
    ASSUME TypeOK, AsleepMayRetry, RequestsCounted, [Next]_vars
    PROVE  RequestsCounted'
<1> USE SmsAssumption
<1>0. TypeOK'
  BY TypeStep
<1>1. /\ \A r \in DOMAIN runs : runs[r] \in Run /\ runs[r].sms \in Sms
                                /\ runs[r].attempt \in 1..MaxRetries
      /\ \A s \in Sms : stored[s] \in Nat /\ late[s] \in Nat
      /\ \A s \in Sms : stored[s] + late[s] <= stored[s] + late[s]
  BY DEF TypeOK, Run
<1>2. ASSUME NEW r \in Runs, NEW s \in Sms, Start(r, s) PROVE RequestsCounted'
  BY <1>0, <1>2, StartCounted
<1>3. ASSUME NEW r \in Runs, LoadOverrides(r) \/ Wake(r) PROVE RequestsCounted'
  <2>1. PICK a \in Nat : r \in DOMAIN runs /\ Goto(r, "posted", a, 0)
                         /\ MaxRetries - a + 1 = Remaining(runs[r])
    BY <1>1, <1>3 DEF LoadOverrides, Wake, At, Remaining
  <2>2. Remaining(runs'[r]) = MaxRetries - a + 1
    BY <2>1, GotoFacts DEF Remaining
  <2>3. Remaining(runs'[r]) <= Remaining(runs[r])
    BY <1>1, <2>1, <2>2, RemainingType
  <2>4. RunsShrink
    BY <2>1, <2>3, GotoShrinks
  <2>5. UNCHANGED <<stored, late, admitted>>
    BY <1>3 DEF LoadOverrides, Wake
  <2>6. QED BY <1>0, <1>1, <2>4, <2>5, NoneSent
<1>4. ASSUME NEW r \in Runs, Refuse(r) \/ Receive(r) PROVE RequestsCounted'
  <2>1. RunsShrink /\ UNCHANGED <<stored, late, admitted>>
    BY <1>4, EndShrinks DEF Refuse, Receive
  <2>2. QED BY <1>0, <1>1, <2>1, NoneSent
<1>5. ASSUME NEW r \in Runs, Commit(r) PROVE RequestsCounted'
  <2>1. /\ r \in DOMAIN runs /\ runs[r].pc = "posted" /\ UNCHANGED <<late, admitted>>
        /\ Goto(r, "committed", runs[r].attempt, 0) /\ stored' = Plus1(stored, runs[r].sms)
    BY <1>5 DEF Commit, At
  <2>2. Remaining(runs'[r]) = MaxRetries - runs[r].attempt
    BY <2>1, GotoFacts DEF Remaining
  <2>3. Remaining(runs[r]) = MaxRetries - runs[r].attempt + 1
    BY <2>1 DEF Remaining
  <2>4. Remaining(runs'[r]) < Remaining(runs[r]) /\ Remaining(runs'[r]) <= Remaining(runs[r])
    BY <1>1, <2>1, <2>2, <2>3
  <2>5. RunsShrink
    BY <2>1, <2>4, GotoShrinks
  <2>6. /\ stored'[runs[r].sms] + late'[runs[r].sms]
             = stored[runs[r].sms] + late[runs[r].sms] + 1
        /\ \A q \in Sms \ {runs[r].sms} : stored'[q] + late'[q] = stored[q] + late[q]
    BY <1>1, <2>1, OneMoreRow
  <2>7. QED BY <1>0, <2>1, <2>4, <2>5, <2>6, OneSent
<1>6. ASSUME NEW r \in Runs, NetworkError(r) PROVE RequestsCounted'
  <2>1. r \in DOMAIN runs /\ UNCHANGED <<stored, admitted>>
    BY <1>6 DEF NetworkError, At
  <2>2. /\ RunsShrink
        /\ r \in DOMAIN runs' => Remaining(runs'[r]) = MaxRetries - runs[r].attempt
    <3>1. Remaining(runs[r]) \in {MaxRetries - runs[r].attempt,
                                  MaxRetries - runs[r].attempt + 1}
      BY <1>6 DEF NetworkError, At, Remaining
    <3>2. CASE EndRun(r)
      BY <3>2, EndShrinks
    <3>3. CASE Goto(r, "asleep", runs[r].attempt, SleepTicks(runs[r].attempt))
      <4>1. Remaining(runs'[r]) = MaxRetries - runs[r].attempt
        BY <2>1, <3>3, GotoFacts DEF Remaining
      <4>2. Remaining(runs'[r]) <= Remaining(runs[r])
        BY <1>1, <2>1, <3>1, <4>1
      <4>3. RunsShrink
        BY <2>1, <3>3, <4>2, GotoShrinks
      <4>4. QED BY <4>1, <4>3
    <3>4. QED BY <1>6, <3>2, <3>3 DEF NetworkError
  <2>3. CASE runs[r].pc = "posted" /\ late' = Plus1(late, runs[r].sms)
    <3>1. r \in DOMAIN runs' => Remaining(runs'[r]) < Remaining(runs[r])
      BY <1>1, <2>1, <2>2, <2>3 DEF Remaining
    <3>2. /\ stored'[runs[r].sms] + late'[runs[r].sms]
               = stored[runs[r].sms] + late[runs[r].sms] + 1
          /\ \A q \in Sms \ {runs[r].sms} : stored'[q] + late'[q] = stored[q] + late[q]
      BY <1>1, <2>1, <2>3, OneMoreRow
    <3>3. QED BY <1>0, <2>1, <2>2, <2>3, <3>1, <3>2, OneSent
  <2>4. CASE UNCHANGED late
    BY <1>0, <1>1, <2>1, <2>2, <2>4, NoneSent
  <2>5. QED BY <1>6, <2>3, <2>4 DEF NetworkError, At
<1>7. ASSUME NEW r \in Runs, Kill(r) PROVE RequestsCounted'
  <2>1. /\ r \in DOMAIN runs /\ RunsShrink /\ r \notin DOMAIN runs'
        /\ UNCHANGED <<stored, admitted>>
    BY <1>7, EndShrinks DEF Kill
  <2>2. CASE runs[r].pc = "posted"
    <3>1. /\ stored'[runs[r].sms] + late'[runs[r].sms]
               = stored[runs[r].sms] + late[runs[r].sms] + 1
          /\ \A q \in Sms \ {runs[r].sms} : stored'[q] + late'[q] = stored[q] + late[q]
      BY <1>1, <1>7, <2>1, <2>2, OneMoreRow DEF Kill
    <3>2. QED BY <1>0, <2>1, <2>2, <3>1, OneSent
  <2>3. CASE runs[r].pc # "posted"
    <3>1. UNCHANGED late
      BY <1>7, <2>3 DEF Kill
    <3>2. QED BY <1>0, <1>1, <2>1, <3>1, NoneSent
  <2>4. QED BY <2>2, <2>3
<1>8. ASSUME UNCHANGED runs PROVE RunsShrink
  BY <1>1, <1>8, RemainingType DEF RunsShrink
<1>9. ASSUME NEW s \in Sms, SettleLate(s) PROVE RequestsCounted'
  <2>1. \A q \in Sms : stored'[q] + late'[q] <= stored[q] + late[q]
    BY <1>9 DEF SettleLate, TypeOK, Plus1
  <2>2. QED BY <1>0, <1>8, <1>9, <2>1, NoneSent DEF SettleLate
<1>10. CASE Tick
  <2>1. ASSUME NEW r \in DOMAIN runs
        PROVE  /\ r \in DOMAIN runs' /\ runs'[r].sms = runs[r].sms
               /\ runs'[r].pc = runs[r].pc /\ runs'[r].attempt = runs[r].attempt
    BY <1>1, <1>10 DEF Tick, Run
  <2>2. \A r \in DOMAIN runs : Remaining(runs'[r]) = Remaining(runs[r])
    BY <2>1 DEF Remaining
  <2>3. DOMAIN runs' = DOMAIN runs
    BY <1>10 DEF Tick
  <2>4. RunsShrink
    BY <1>1, <2>1, <2>2, <2>3, RemainingType DEF RunsShrink
  <2>5. QED BY <1>0, <1>1, <1>10, <2>4, NoneSent DEF Tick
<1>11. CASE UNCHANGED vars
  BY <1>0, <1>1, <1>8, <1>11, NoneSent DEF vars
<1>12. QED
  BY <1>2, <1>3, <1>4, <1>5, <1>6, <1>7, <1>9, <1>10, <1>11 DEF Next, Advance

(***************************************************************************)
(* A message is stored at most maxRetries times for each run that got past *)
(* isDuplicate, whatever is lost, arrives late or is killed: a retry and a *)
(* request nobody waits for use up the attempts of postToAPI.              *)
(***************************************************************************)
THEOREM SmsDuplicates == Spec => []DuplicatesBounded
<1>1. Init => RequestsCounted
  <2> SUFFICES ASSUME Init, NEW s \in Sms PROVE CountedOK(s)
    BY DEF RequestsCounted
  <2>1. RequestsLeft(s) = {}
    BY DEF Init, RequestsLeft
  <2>2. IsFiniteSet({}) /\ Cardinality({}) = 0
    BY FS_EmptySet
  <2>3. stored[s] = 0 /\ late[s] = 0 /\ admitted[s] = 0
    BY DEF Init
  <2>4. QED BY <2>1, <2>2, <2>3, SmsAssumption DEF CountedOK
<1>2. SmsInv /\ RequestsCounted /\ [Next]_vars => RequestsCounted'
  BY CountedStep DEF SmsInv
<1>3. SmsInv /\ RequestsCounted => DuplicatesBounded
  <2> SUFFICES ASSUME SmsInv, RequestsCounted, NEW s \in Sms
               PROVE  stored[s] + late[s] <= MaxRetries * admitted[s]
    BY DEF DuplicatesBounded
  <2>1. /\ IsFiniteSet(RequestsLeft(s))
        /\ stored[s] + late[s] + Cardinality(RequestsLeft(s)) <= MaxRetries * admitted[s]
    BY DEF RequestsCounted, CountedOK
  <2>2. Cardinality(RequestsLeft(s)) \in Nat
    BY <2>1, FS_CardinalityType
  <2>3. stored[s] \in Nat /\ late[s] \in Nat /\ MaxRetries * admitted[s] \in Nat
    BY SmsAssumption DEF SmsInv, TypeOK
  <2>4. QED BY <2>1, <2>2, <2>3
<1>4. QED BY <1>1, <1>2, <1>3, SmsInvariant, PTL DEF Spec
=============================================================================
