--------------------------- MODULE MCRateLimiter ---------------------------
(***************************************************************************)
(* Two addresses, one of them the fallback that requests without a header  *)
(* share, and a counter that passes the limit.  A request that the limiter *)
(* lets through may carry a timestamp bucket: the texts are all years and  *)
(* months of the lists, at the edges of u16, of the year and of the month. *)
(***************************************************************************)
EXTENDS RateLimiter, TimestampBucket

YearTexts ==
    {<<"2", "0", "2", "5">>, <<"2", "0", "0", "0">>, <<"1", "9", "9", "9">>,
     <<"+", "2", "0", "2", "5">>, <<"0", "2", "0", "2", "5">>,
     <<"6", "5", "5", "3", "5">>, <<"6", "5", "5", "3", "6">>,
     <<"2", "0", "2", "5", "-">>, <<"+">>, <<>>}

MonthTexts ==
    {<<"0", "1">>, <<"1", "2">>, <<"1", "3">>, <<"0", "0">>, <<"1">>, <<"+", "1">>,
     <<"+">>, <<"-", "1">>, <<"0", "0", "1">>, <<>>}

BucketCharacters == Figures \cup {"-", "+"}

BucketTexts == {y \o <<"-">> \o m : y \in YearTexts, m \in MonthTexts}

McInit == Init /\ BucketsInit

\* Texts are checked while no address has been counted: nothing the limiter
\* keeps depends on them.
McNext ==
    \/ checked = Unread /\ Next /\ UNCHANGED checked
    \/ DOMAIN entries = {} /\ BucketsNext /\ UNCHANGED vars

McSpec == McInit /\ [][McNext]_<<vars, checked>>
=============================================================================
