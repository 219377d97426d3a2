------------------------- MODULE DashboardFilters -------------------------
(***************************************************************************)
(* The filters of DashboardPage.  They live in the URL; the page works     *)
(* with those of its last render, and a navigation is rendered later (the  *)
(* router applies it in a transition), so a second change may be made from *)
(* filters that are already behind.  What the page shows is a function of  *)
(* the rendered filters and the decrypted transactions.                    *)
(***************************************************************************)
EXTENDS Integers, FiniteSets, FiniteSetsExt

CONSTANTS
    Transactions,   \* [timestamp_bucket, card_id, category, amount, text, day,
                    \* words]; text: the phone stored the amount, as a text
    Searches,       \* texts typed into the search field
    Amounts,        \* bounds typed into the amount fields, in mills
    Unset,          \* no filter, an absent parameter, nothing rendered yet
    Blank, Junk,    \* the parameter is "", or no text of its field
    Garbled,        \* digits of several amounts run together
    FirstMonth,     \* what the clock shows at first
    Months          \* bound: the months navigated to

\* Months as pairs of a year and a month.
Calendar == Int \X (1..12)

ASSUME FiltersAssumption ==
    /\ IsFiniteSet(Transactions)
    /\ \A t \in Transactions : t.amount \in Int /\ t.timestamp_bucket \in Calendar
    /\ Garbled \notin Int
    /\ Amounts \subseteq Int
    /\ Unset \notin {Blank, Junk}
    /\ {Blank, Junk} \cap Calendar = {} /\ {Blank, Junk} \cap Amounts = {}
    /\ Months \subseteq Calendar /\ FirstMonth \in Months

VARIABLES
    url,        \* filter -> the text of its parameter
    rendered,   \* filters and today's month at the last render
    now,        \* the current month
    asked       \* history: the filters the user asked for last

filterVars == <<url, rendered, now, asked>>

Numeric == {"amountMin", "amountMax"}
Keys == {"month", "cardId", "category", "search"} \cup Numeric

NoFilters == [k \in Keys |-> Unset]

\* parseFiltersFromParams: a number must be one, any other text will do.
Parse(params) ==
    [k \in Keys |->
        IF params[k] = Blank \/ (k \in Numeric /\ params[k] = Junk)
        THEN Unset ELSE params[k]]

\* Mutant: a bound of 0 counts as no bound.
ToParamsTruthy(filters) ==
    [k \in Keys |-> IF k \in Numeric /\ filters[k] = 0 THEN Unset ELSE filters[k]]

\* filtersToParams: the active filters only.
ToParams(filters) ==
    [k \in Keys |->
        IF k \notin Numeric /\ filters[k] = Blank THEN Unset ELSE filters[k]]

\* The two while loops of navigateMonth.
Carry[b \in Int \X Int] ==
    IF b[2] > 12 THEN Carry[<<b[1] + 1, b[2] - 12>>]
    ELSE IF b[2] < 1 THEN Carry[<<b[1] - 1, b[2] + 12>>]
    ELSE b

\* Mutant: December is month 0 of the next year.
NavigateMonthOff(bucket, offset) ==
    IF bucket = Junk THEN Junk
    ELSE <<bucket[1] + (bucket[2] + offset) \div 12, (bucket[2] + offset) % 12>>

NavigateMonth(bucket, offset) ==
    IF bucket = Junk THEN Junk ELSE Carry[<<bucket[1], bucket[2] + offset>>]

UniqueValues(field) == {t[field] : t \in Transactions}

Matches(t, f) ==
    /\ f["month"] \in {Unset, t.timestamp_bucket}
    /\ f["cardId"] \in {Unset, t.card_id}
    /\ f["category"] \in {Unset, t.category}
    /\ f["amountMin"] # Unset => t.amount >= f["amountMin"]
    /\ f["amountMax"] # Unset => t.amount <= f["amountMax"]
    /\ f["search"] = Unset \/ f["search"] \in t.words

FilterTransactions(f) == {t \in Transactions : Matches(t, f)}

SumOver(f, S) == MapThenSumSet(LAMBDA x : f[x], S)

AmountOf == [t \in Transactions |-> t.amount]
Total(txs) == SumOver(AmountOf, txs)

\* What + makes of the amounts, from 0: a text is read as a number again when
\* it comes alone, and glued to the others when it does not.
Sum(txs) ==
    IF Cardinality(txs) > 1 /\ \E t \in txs : t.text THEN Garbled ELSE Total(txs)

\* Math.round(total * 100) / 100.
RoundCents(total) ==
    IF total = Garbled THEN Garbled ELSE ((total + 5) \div 10) * 10

\* Mutant: an amount replaces its group's total.
AggregateMax(txs, field) ==
    [g \in {t[field] : t \in txs} |->
        RoundCents(Max({t.amount : t \in {x \in txs : x[field] = g}}))]

\* aggregateByMonth, aggregateByCategory, aggregateByDay.
Aggregate(txs, field) ==
    [g \in {t[field] : t \in txs} |-> RoundCents(Sum({t \in txs : t[field] = g}))]

Rendering(params, today) == [filters |-> Parse(params), today |-> today]

FiltersInit ==
    /\ url = NoFilters /\ rendered = Unset /\ now = FirstMonth
    /\ asked = NoFilters

\* setFilters with replace: true.
SetFilters(filters) == url' = ToParams(filters) /\ asked' = filters

\* The page is opened: by a link of the app, a bookmark or a reload.  Its
\* effect sets the month if there is none, once.
Visit(params) ==
    /\ rendered' = Rendering(params, now)
    /\ LET f == Parse(params) IN
         IF f["month"] = Unset THEN SetFilters([f EXCEPT !["month"] = now])
         ELSE url' = params /\ asked' = f
    /\ UNCHANGED now

Render ==
    /\ rendered # Unset
    /\ rendered' = Rendering(url, now)
    /\ UNCHANGED <<url, now, asked>>

\* Mutant: the other filters are not carried over.
UpdateFilterAlone(key, value) ==
    /\ rendered # Unset
    /\ SetFilters([NoFilters EXCEPT ![key] = IF value = Blank THEN Unset ELSE value])
    /\ UNCHANGED <<rendered, now>>

UpdateFilter(key, value) ==
    /\ rendered # Unset
    /\ SetFilters([rendered.filters EXCEPT ![key] = IF value = Blank THEN Unset ELSE value])
    /\ UNCHANGED <<rendered, now>>

ClearFilters ==
    /\ rendered # Unset /\ rendered.filters # NoFilters
    /\ SetFilters(NoFilters)
    /\ UNCHANGED <<rendered, now>>

\* The link to the page that is already there: no mount, no effect.
HomeLink ==
    /\ rendered # Unset
    /\ url' = NoFilters /\ asked' = NoFilters
    /\ UNCHANGED <<rendered, now>>

ActiveMonth ==
    IF rendered.filters["month"] = Unset THEN rendered.today
    ELSE rendered.filters["month"]

Navigate(offset) ==
    /\ rendered # Unset
    /\ NavigateMonth(ActiveMonth, offset) \in Months \cup {Junk}
    /\ UpdateFilter("month", NavigateMonth(ActiveMonth, offset))

GoToCurrentMonth == rendered # Unset /\ UpdateFilter("month", rendered.today)

\* The fields of FilterBar; "All ..." and an emptied field are undefined.
ChooseFilter ==
    \/ \E m \in UniqueValues("timestamp_bucket") \cup {Unset} : UpdateFilter("month", m)
    \/ \E c \in UniqueValues("card_id") \cup {Unset} : UpdateFilter("cardId", c)
    \/ \E c \in UniqueValues("category") \cup {Unset} : UpdateFilter("category", c)
    \/ \E k \in Numeric, a \in Amounts \cup {Unset} : UpdateFilter(k, a)
    \/ \E s \in Searches \cup {Unset} : UpdateFilter("search", s)

TurnMonth ==
    /\ NavigateMonth(now, 1) \in Months
    /\ now' = NavigateMonth(now, 1)
    /\ UNCHANGED <<url, rendered, asked>>

\* Bookmarks, hand-edited ones included, that differ from no filter in one.
Bookmarks ==
    {[NoFilters EXCEPT ![k] = v] : k \in Keys, v \in {Unset, Blank, Junk}}

FiltersNext ==
    \/ \E params \in Bookmarks \cup {url} : Visit(params)
    \/ Render \/ ClearFilters \/ HomeLink \/ ChooseFilter
    \/ \E offset \in {-1, 1} : Navigate(offset)
    \/ GoToCurrentMonth \/ TurnMonth

FiltersSpec == FiltersInit /\ [][FiltersNext]_filterVars

Text(k) ==
    CASE k = "month" -> Months
      [] k = "cardId" -> UniqueValues("card_id")
      [] k = "category" -> UniqueValues("category")
      [] k = "search" -> Searches
      [] k \in Numeric -> Amounts

FiltersTypeOK ==
    /\ \A k \in Keys : url[k] \in Text(k) \cup {Unset, Blank, Junk}
    /\ rendered # Unset =>
         \A k \in Keys : rendered.filters[k] \in Text(k) \cup
                            (IF k \in Numeric THEN {Unset} ELSE {Unset, Junk})
    /\ now \in Months

(***************************************************************************)
(* The URL gives back what was asked for: whoever bookmarks the page or    *)
(* reloads it gets the filters of the last change, a bound of 0 included.  *)
(***************************************************************************)
UrlKeepsFilters == Parse(url) = asked

(***************************************************************************)
(* A change costs no other filter, unless everything is cleared or the     *)
(* page had not rendered the change before: from a render that is up to    *)
(* date, one step changes one filter, whatever set the others.             *)
(***************************************************************************)
ChangedFilters == {k \in Keys : Parse(url')[k] # Parse(url)[k]}

OthersSurvive ==
    [][ (rendered # Unset /\ rendered.filters = Parse(url) /\ rendered' = rendered)
          => Cardinality(ChangedFilters) <= 1 \/ url' = NoFilters ]_filterVars

(***************************************************************************)
(* The three charts tell the same story as the total: each adds up to the  *)
(* total of the filtered list, but for the half cent each of its points    *)
(* may be rounded by; as long as there is a total.                         *)
(***************************************************************************)
Shown == FilterTransactions(rendered.filters)

ChartsAddUp ==
    rendered # Unset /\ Sum(Shown) # Garbled =>
        LET chart(field) == Aggregate(Shown, field)
            sum(field) == SumOver(chart(field), DOMAIN chart(field))
            off(field) == sum(field) - Total(Shown)
            slack(field) == 5 * Cardinality(DOMAIN chart(field))
        IN  \A field \in {"timestamp_bucket", "category", "day"} :
                -slack(field) <= off(field) /\ off(field) <= slack(field)

(***************************************************************************)
(* DecryptedTransaction has "amount: number", and the page shows the sum   *)
(* of the list's amounts.  The phone's payload has a text there.           *)
(***************************************************************************)
AmountsAddUp == rendered # Unset => Sum(Shown) # Garbled

(***************************************************************************)
(* Month arithmetic, across years and for any offset: an offset is that    *)
(* many months, and the result is a month of the calendar.                 *)
(***************************************************************************)
Index(bucket) == 12 * bucket[1] + bucket[2]

NavigationExact ==
    rendered # Unset /\ ActiveMonth # Junk =>
        \A offset \in -25..25 :
            LET b == NavigateMonth(ActiveMonth, offset)
            IN  b[2] \in 1..12 /\ Index(b) = Index(ActiveMonth) + offset
=============================================================================
