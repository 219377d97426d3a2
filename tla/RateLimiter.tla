---------------------------- MODULE RateLimiter ----------------------------
(***************************************************************************)
(* The fixed-window rate limiter in front of /auth/register and            *)
(* /auth/login.  A check runs under the limiter's mutex, so it is one      *)
(* step.  Instants are only subtracted from one another: an entry keeps    *)
(* the age of its window, which stops growing once the window has expired. *)
(***************************************************************************)
EXTENDS Naturals, FiniteSets

CONSTANTS
    Ips,            \* the addresses requests are counted under
    Localhost,      \* 127.0.0.1, also the address of a request without header
    NoHeader,       \* the value of an absent or unparsable X-Forwarded-For
    MaxRequests,    \* max_requests
    Window,         \* window, in ticks
    MaxCount        \* bound: the counter of an entry

ASSUME LimiterAssumption ==
    /\ Localhost \in Ips /\ NoHeader \notin Ips
    /\ MaxRequests \in Nat
    /\ Window \in Nat \ {0}
    /\ MaxCount \in Nat

VARIABLES
    entries,    \* address -> its WindowEntry, for addresses seen before
    accepted    \* history: address -> age -> requests accepted at that age

vars == <<entries, accepted>>

WindowEntry == [count: 0..MaxCount, age: 0..Window]

\* The ages of the requests of one window length.
Recent == 0..(Window - 1)

Init ==
    /\ entries = [ip \in {} |-> 0]
    /\ accepted = [ip \in Ips |-> [a \in Recent |-> 0]]

\* The first address of the header.
ExtractIp(header) == IF header = NoHeader THEN Localhost ELSE header

\* The entry the request is counted in: a new or expired window starts now.
Current(ip) ==
    IF ip \notin DOMAIN entries \/ entries[ip].age = Window
    THEN [count |-> 0, age |-> 0]
    ELSE entries[ip]

Count(ip) == Current(ip).count + 1

\* Mutant: one request more than the limit is let through.
AllowedOneMore(ip) == Count(ip) <= MaxRequests + 1

\* Mutant: the request that reaches the limit is refused already.
AllowedBelow(ip) == Count(ip) < MaxRequests

Allowed(ip) == Count(ip) <= MaxRequests

\* A refused request is counted, too.
Counted(ip) ==
    /\ Count(ip) <= MaxCount
    /\ entries' = [i \in DOMAIN entries \cup {ip} |->
         IF i = ip THEN [count |-> Count(ip), age |-> Current(ip).age]
                   ELSE entries[i]]

Accept(ip) ==
    /\ Allowed(ip)
    /\ Counted(ip)
    /\ accepted' = [accepted EXCEPT ![ip][0] = @ + 1]

Refuse(ip) ==
    /\ ~Allowed(ip)
    /\ Counted(ip)
    /\ UNCHANGED accepted

RateLimit(header) == Accept(ExtractIp(header)) \/ Refuse(ExtractIp(header))

Tick ==
    /\ entries' = [ip \in DOMAIN entries |->
         [entries[ip] EXCEPT !.age = IF @ < Window THEN @ + 1 ELSE Window]]
    /\ accepted' = [ip \in Ips |->
         [a \in Recent |-> IF a = 0 THEN 0 ELSE accepted[ip][a - 1]]]

Next == Tick \/ \E header \in Ips \cup {NoHeader} : RateLimit(header)

Spec == Init /\ [][Next]_vars

TypeOK ==
    /\ entries \in [DOMAIN entries -> WindowEntry]
    /\ DOMAIN entries \subseteq Ips
    /\ accepted \in [Ips -> [Recent -> Nat]]

\* The requests of an address accepted at the ages of S, numbered at each age.
AcceptedAt(ip, S) == UNION {{a} \X (1..accepted[ip][a]) : a \in S}

\* How many requests of an address were accepted at an age of at most a.
AcceptedWithin(ip, a) == Cardinality(AcceptedAt(ip, 0..a))

(***************************************************************************)
(* `Each IP gets max_requests allowed per window duration': the requests   *)
(* accepted since the address's window started are at most that many.  Two *)
(* windows can meet in the middle of any span of one window length, so     *)
(* twice the limit is accepted in it at worst, and never more.             *)
(***************************************************************************)
WindowBound ==
    \A ip \in DOMAIN entries :
        entries[ip].age < Window => AcceptedWithin(ip, entries[ip].age) <= MaxRequests

SpanBound == \A ip \in Ips : AcceptedWithin(ip, Window - 1) <= 2 * MaxRequests

LimitHolds == WindowBound /\ SpanBound

(***************************************************************************)
(* A request is refused only if its address has had its full number of     *)
(* requests accepted less than a window ago: refused requests do not keep  *)
(* an address locked out.                                                  *)
(***************************************************************************)
RefusedOnlyAtLimit ==
    [][ \A ip \in Ips :
          Refuse(ip) => AcceptedWithin(ip, Window - 1) >= MaxRequests ]_vars
=============================================================================
