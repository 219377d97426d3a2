-------------------------- MODULE MCDashboardPure --------------------------
(***************************************************************************)
(* The filters, with three transactions around the turn of a year, one of  *)
(* them the phone's, with amounts that are not whole cents; a bound of 0;  *)
(* bookmarks with blank and meaningless texts.  And what the rows hold:    *)
(* names with a typo, a second word, a store number, a suffix, lower case, *)
(* and three rules, two for one name.  Filters and rows share no state:    *)
(* they are explored one at a time.                                        *)
(***************************************************************************)
EXTENDS DashboardFilters, DecryptedRows

Dec == <<2025, 12>>
Jan == <<2026, 1>>

Tx(bucket, card, category, amount, text, day, words) ==
    [timestamp_bucket |-> bucket, card_id |-> card, category |-> category,
     amount |-> amount, text |-> text, day |-> day, words |-> words]

ThreeTransactions ==
    {Tx(Dec, "c1", "food", 12345, FALSE, 1, {"cafe"}),
     Tx(Dec, "c1", "taxi", 2004, FALSE, 2, {"taxi", "cafe"}),
     Tx(Jan, "c1", "food", 10004, TRUE, 2, {"market"})}

TwoMonths == {Dec, Jan}

Shell == <<"A", "B", "B", "A", "B">>
Shel == <<"a", "B", "B", "A">>
Shelf == <<"A", "B", "B", "A", "A">>
ShellStore == Shell \o <<"*", "A", " ", "1">>
ShellSp == Shell \o <<" ", "B", ".", "A", ".">>
NoName == <<"1", "2">>

SixMerchants == {Shell, Shel, Shelf, ShellStore, ShellSp, NoName}

FewCharacters == {"A", "B", "L", "M", "a", "*", " ", ".", "1", "2"}

\* In place of LTDA ME, LTDA and ME.
ThreeSuffixes == << <<"L", " ", "M">>, <<"L">>, <<"M">> >>

ThreeRules ==
    << [category |-> "Delivery", merchants |-> {ShellStore}],
       [category |-> "Transporte", merchants |-> {ShellStore, NoName}],
       [category |-> "Casa", merchants |-> {Shelf}] >>

BothInit == FiltersInit /\ RowsInit

BothNext ==
    \/ map = <<>> /\ row = Null /\ FiltersNext /\ UNCHANGED <<map, row>>
    \/ rendered = Unset /\ RowsNext /\ UNCHANGED filterVars /\ (map' = <<>> \/ row' = Null)

BothSpec == BothInit /\ [][BothNext]_<<filterVars, map, row>>
=============================================================================
