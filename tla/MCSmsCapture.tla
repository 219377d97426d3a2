---------------------------- MODULE MCSmsCapture ----------------------------
(***************************************************************************)
(* Small instances of the iOS script: a window of a few ticks that a run   *)
(* with retries can outlast.                                               *)
(***************************************************************************)
EXTENDS SmsCapture, TLC

CONSTANTS
    r1, r2, s1, s2,
    MaxStarted      \* bound: the runs that get past the check, of both messages

\* Two messages with different hashes.
TwoSms == {s1, s2}
TwoHashes == {1, 2}
Distinct == (s1 :> 1) @@ (s2 :> 2)

OneSms == {s1}
OneHash == s1 :> 1

TwoRuns == {r1, r2}
FewRuns == admitted'[s1] + admitted'[s2] <= MaxStarted

\* FairSpec, within the bound: neither Tick nor Advance is affected by it.
SmallSpec ==
    /\ Init /\ [][Next /\ FewRuns]_vars
    /\ WF_vars(Tick) /\ \A r \in Runs : WF_vars(Advance(r))
=============================================================================
