--------------------------- MODULE DecryptedRows ---------------------------
(***************************************************************************)
(* What the dashboard reads out of a decrypted payload: the category, from *)
(* the payload, from what was learned about the merchant, or from keywords *)
(* (transaction-data.ts, fuzzyCategory.ts, categoryRules.ts), and the      *)
(* amount of a payload that is a bank's text.  A name is a sequence of     *)
(* characters, an override map the sequence of its entries in the order of *)
(* their insertion, which is the order Object.keys gives.                  *)
(***************************************************************************)
EXTENDS Integers, Sequences, FiniteSets, FiniteSetsExt, SequencesExt

CONSTANTS
    Characters,     \* what names are made of
    Merchants,      \* names, as banks write them
    StoreSuffixes,  \* STORE_SUFFIXES, in their order
    Rules,          \* CATEGORY_RULES: a sequence of [category, merchants]
    Learned,        \* categories that are taught
    MaxLearned,     \* bound: the entries of the map
    MaxCompared,    \* bound: the length of the names whose distance is checked
    Written,        \* amounts of bank texts, in cents
    Null            \* null; the category of an uncategorized payload

ASSUME RowsAssumption ==
    /\ {"A", "B", "1", "2", "*", " "} \subseteq Characters
    /\ Merchants \subseteq Seq(Characters) /\ StoreSuffixes \in Seq(Seq(Characters))
    /\ Null \notin Learned \cup {Rules[i].category : i \in DOMAIN Rules}
    /\ Written \subseteq Nat

VARIABLES
    map,        \* the overrides
    row         \* a row that is a bank's text: what it says, what is read

-----------------------------------------------------------------------------
(* Names *)

\* The result of a loop over s: what step makes of it, element by element.
Loop(step(_, _), init, s) ==
    LET done[i \in 0..Len(s)] == IF i = 0 THEN init ELSE step(done[i - 1], s[i])
    IN  done[Len(s)]

Without(s, dropped) ==
    Loop(LAMBDA t, x : IF x \in dropped THEN t ELSE Append(t, x), <<>>, s)

Digits == {"0", "1", "2"}

\* toUpperCase, for the alphabet of the instances.
ToUpper(name) == [i \in DOMAIN name |-> IF name[i] = "a" THEN "A" ELSE name[i]]

\* Of the longest sequence of spaces name ends with, it is the start.
Trimmed(name) ==
    SubSeq(name, 1, CHOOSE n \in 0..Len(name) :
        /\ \A i \in n + 1..Len(name) : name[i] = " "
        /\ n = 0 \/ name[n] # " ")

\* A suffix after a space, at the end but for spaces; the space before stays.
StripSuffix(name, suffix) ==
    LET t == Trimmed(name)
        n == Len(t) - Len(suffix)
    IN  IF n > 0 /\ t[n] = " " /\ SubSeq(t, n + 1, Len(t)) = suffix
        THEN SubSeq(t, 1, n) ELSE name

Words(name) ==
    Loop(LAMBDA ws, ch : IF ch = " " THEN Append(ws, <<>>)
                         ELSE [ws EXCEPT ![Len(ws)] = Append(@, ch)],
         << <<>> >>, name)

Join(ws) == Loop(LAMBDA s, w : IF s = <<>> THEN w ELSE s \o <<" ">> \o w, <<>>, ws)

Spaced(name) == [i \in DOMAIN name |-> IF name[i] = "*" THEN " " ELSE name[i]]

NormalizeMerchant(name) ==
    LET stripped == Loop(StripSuffix, ToUpper(name), StoreSuffixes)
        words == Words(Without(Spaced(stripped), {"."}))
    IN  Join(Without(words, Seq(Digits)))

-----------------------------------------------------------------------------
(* Fuzzy matching *)

Min2(x, y) == IF x <= y THEN x ELSE y
Larger(x, y) == IF x <= y THEN y ELSE x

\* Mutant: a substitution is a deletion and an insertion.
NextRowNoSubstitution(a, b, prev, i) ==
    LET curr[j \in 0..Len(b)] ==
            IF j = 0 THEN i
            ELSE IF a[i] = b[j] THEN prev[j - 1]
                 ELSE 1 + Min2(prev[j], curr[j - 1])
    IN  curr

NextRow(a, b, prev, i) ==
    LET curr[j \in 0..Len(b)] ==
            IF j = 0 THEN i
            ELSE Min2(Min2(prev[j] + 1, curr[j - 1] + 1),
                      prev[j - 1] + (IF a[i] = b[j] THEN 0 ELSE 1))
    IN  curr

LevenshteinDistance(a, b) ==
    IF a = b THEN 0
    ELSE IF a = <<>> THEN Len(b)
    ELSE IF b = <<>> THEN Len(a)
    ELSE Loop(LAMBDA prev, i : NextRow(a, b, prev, i),
              [j \in 0..Len(b) |-> j],
              [i \in 1..Len(a) |-> i])[Len(b)]

ContainsMatch(name, key) ==
    \/ name = key
    \/ IsStrictPrefix(key \o <<" ">>, name \o <<" ">>)
    \/ IsStrictPrefix(name \o <<" ">>, key \o <<" ">>)

\* A score is a fraction.  A similarity counts from 0.8.
NoScore == <<0, 1>>
Score(name, key) ==
    LET longest == Larger(Len(name), Len(key))
        d == LevenshteinDistance(name, key)
    IN  IF name = <<>> \/ key = <<>> THEN NoScore
        ELSE IF ContainsMatch(name, key) THEN <<Min2(Len(name), Len(key)), longest>>
        ELSE IF 5 * d <= longest THEN <<longest - d, longest>> ELSE NoScore

\* The ways banks write a name: with more words after it, a store number, a
\* suffix, or a number after the suffix, which then is not stripped.
Variants(name) ==
    {name \o tail : tail \in {<<>>, <<" ", "1">>, <<" ", "1", "2">>, <<"*", "B">>} \cup
        {<<" ">> \o StoreSuffixes[i] : i \in DOMAIN StoreSuffixes} \cup
        {<<" ">> \o StoreSuffixes[i] \o <<" ", "1">> : i \in DOMAIN StoreSuffixes}}

Names == Merchants \cup UNION {Variants(ToUpper(m)) : m \in Merchants}
MerchantKeys == {ToUpper(m) : m \in Merchants}
Scores == LET norm == [m \in Names |-> NormalizeMerchant(m)] IN
          [m \in Names |-> [k \in MerchantKeys |-> Score(norm[m], norm[k])]]

Less(s, t) == s[1] * t[2] < t[1] * s[2]

Unmatched == [score |-> NoScore, category |-> Null]
Match(merchant, e) == [score |-> Scores[merchant][e.key], category |-> e.category]

\* Mutant: the first key that matches at all.
FuzzyMatchFirst(merchant, overrides) ==
    Loop(LAMBDA best, e :
            IF best.category = Null /\ Less(best.score, Match(merchant, e).score)
            THEN Match(merchant, e) ELSE best,
         Unmatched, overrides).category

FuzzyMatchCategory(merchant, overrides) ==
    Loop(LAMBDA best, e :
            IF Less(best.score, Match(merchant, e).score)
            THEN Match(merchant, e) ELSE best,
         Unmatched, overrides).category

-----------------------------------------------------------------------------
(* Categories *)

KeysOf(overrides) == {overrides[i].key : i \in DOMAIN overrides}
Position(overrides, key) == CHOOSE i \in DOMAIN overrides : overrides[i].key = key

LookupOverride(overrides, merchant) ==
    LET key == ToUpper(merchant) IN
    IF key \in KeysOf(overrides) THEN overrides[Position(overrides, key)].category
    ELSE Null

\* Mutant: the key is taken out and put in again, at the end.
ReinsertOverride(overrides, merchant, category) ==
    LET key == ToUpper(merchant) IN
    Append(SelectSeq(overrides, LAMBDA e : e.key # key), [key |-> key, category |-> category])

\* A key that is there keeps its place.
AddOverride(overrides, merchant, category) ==
    LET key == ToUpper(merchant)
        e == [key |-> key, category |-> category]
    IN  IF key \in KeysOf(overrides)
        THEN [overrides EXCEPT ![Position(overrides, key)] = e]
        ELSE Append(overrides, e)

AutoCategory(merchant) ==
    IF \E i \in DOMAIN Rules : merchant \in Rules[i].merchants
    THEN LET i == CHOOSE i \in DOMAIN Rules :
                    /\ merchant \in Rules[i].merchants
                    /\ \A j \in 1..i - 1 : merchant \notin Rules[j].merchants
         IN  Rules[i].category
    ELSE Null

\* The category decryptTransaction shows.
ResolveCategory(stored, merchant, overrides) ==
    LET learned == LookupOverride(overrides, merchant)
        fuzzy == FuzzyMatchCategory(merchant, overrides)
    IN  IF stored # Null THEN stored
        ELSE IF learned # Null THEN learned
        ELSE IF fuzzy # Null THEN fuzzy
        ELSE AutoCategory(merchant)

-----------------------------------------------------------------------------
(* Amounts in a bank's text, as characters after "R$ " *)

DigitText(n) == LET d == <<"0", "1", "2", "3", "4", "5", "6", "7", "8", "9">> IN d[n + 1]
DigitOf(ch) == CHOOSE n \in 0..9 : DigitText(n) = ch

Digit(n, place) == DigitText((n \div place) % 10)

\* The digits of n, in groups of three.
Whole[n \in Nat] ==
    IF n < 10 THEN <<Digit(n, 1)>>
    ELSE IF n < 100 THEN <<Digit(n, 10), Digit(n, 1)>>
    ELSE IF n < 1000 THEN <<Digit(n, 100), Digit(n, 10), Digit(n, 1)>>
    ELSE Whole[n \div 1000] \o <<".", Digit(n, 100), Digit(n, 10), Digit(n, 1)>>

\* n in cents, as Brazilian banks write it: 1.234,56.
BankText(n) == Whole[n \div 100] \o <<",", Digit(n, 10), Digit(n, 1)>>

ReplaceFirst(text, old, new) ==
    IF old \in ToSet(text)
    THEN ReplaceAt(text, SelectInSeq(text, LAMBDA ch : ch = old), new)
    ELSE text

\* Mutant: the comma becomes a point before the point is removed.
CleanedSwapped(text) == RemoveFirst(ReplaceFirst(text, ",", "."), ".")

\* .replace(".", "").replace(",", "."): the first point only.
Cleaned(text) == ReplaceFirst(RemoveFirst(text, "."), ",", ".")

\* parseAmount of the phone: every point.
ParseAmount(text) == ReplaceFirst(Without(text, {"."}), ",", ".")

Value(figures) == Loop(LAMBDA v, ch : 10 * v + DigitOf(ch), 0, figures)

\* parseFloat, in cents, of digits with a point and two more digits or more:
\* up to a second point.
ParseFloat(text) ==
    LET point == SelectInSeq(text, LAMBDA ch : ch = ".") IN
    100 * Value(SubSeq(text, 1, point - 1)) + Value(SubSeq(text, point + 1, point + 2))

-----------------------------------------------------------------------------
RowsInit == map = <<>> /\ row = Null

\* A category edit, as far as the map goes.
Learn(merchant, category) ==
    /\ map' = AddOverride(map, merchant, category)
    /\ Len(map') <= MaxLearned
    /\ UNCHANGED row

\* A row whose payload is a text with an amount: what the dashboard reads in
\* it, and what the phone would have read.
ReadText(n) ==
    /\ row' = [written |-> n,
               shown |-> ParseFloat(Cleaned(BankText(n))),
               captured |-> ParseFloat(ParseAmount(BankText(n)))]
    /\ UNCHANGED map

RowsNext ==
    \/ \E m \in Merchants, c \in Learned : Learn(m, c)
    \/ \E n \in Written : ReadText(n)

RowsSpec == RowsInit /\ [][RowsNext]_<<map, row>>

-----------------------------------------------------------------------------
(***************************************************************************)
(* The two rows of levenshteinDistance compute the edit distance: over all *)
(* ways to pair letters of two names in order, the fewest letters that are *)
(* left over or differ.                                                    *)
(***************************************************************************)
Pairings(m, n) ==
    UNION {{f \in [letters -> 1..n] : \A i, j \in letters : i < j => f[i] < f[j]}
           : letters \in SUBSET (1..m)}

Unlike(a, b, f) == {i \in DOMAIN f : a[i] # b[f[i]]}

EditDistance(a, b) ==
    Min({Len(a) + Len(b) - 2 * Cardinality(DOMAIN f) + Cardinality(Unlike(a, b, f))
         : f \in Pairings(Len(a), Len(b))})

ShortKeys == {k \in MerchantKeys : Len(k) <= MaxCompared}

EditDistances == [p \in ShortKeys \X ShortKeys |-> EditDistance(p[1], p[2])]

DistancesExact ==
    \A a, b \in KeysOf(map) \cap ShortKeys : LevenshteinDistance(a, b) = EditDistances[a, b]

(***************************************************************************)
(* What is learned about a name covers the ways banks write it, unless     *)
(* nothing of the one or the other is left by the normalization: a variant *)
(* shows the name's own category, or else that of another learned name     *)
(* which is the variant itself or matches it no worse.                     *)
(***************************************************************************)
NoFarther(v, key) ==
    {i \in DOMAIN map : \/ map[i].key = ToUpper(v)
                        \/ ~Less(Scores[v][map[i].key], Scores[v][key])}

VariantsCovered ==
    \A key \in KeysOf(map) : \A v \in Variants(key) :
        NormalizeMerchant(key) # <<>> /\ NormalizeMerchant(v) # <<>> =>
            ResolveCategory(Null, v, map) \in {map[i].category : i \in NoFarther(v, key)}

(***************************************************************************)
(* How names are matched: by the words they begin with, and by their edit  *)
(* distance.  A letter for another counts 1 in it: levenshteinDistance has *)
(* 1 between NETFLIK and NETFLIX, where its comment says 2.                *)
(***************************************************************************)
NamesMatch == DistancesExact /\ VariantsCovered

(***************************************************************************)
(* A key matches if one of the two normalized names begins with the words  *)
(* of the other, however few, or if they are similar to 0.8 or more.  Of   *)
(* the keys that match, none matches better than the one whose category is *)
(* taken, in whatever order they were learned; and no category is taken    *)
(* when none matches.                                                      *)
(***************************************************************************)
BestMatchWins ==
    \A m \in Merchants :
        LET of(i) == Scores[m][map[i].key]
            best == {i \in DOMAIN map : /\ of(i)[1] > 0
                                        /\ \A j \in DOMAIN map : ~Less(of(i), of(j))}
        IN  IF best = {} THEN FuzzyMatchCategory(m, map) = Null
            ELSE FuzzyMatchCategory(m, map) \in {map[i].category : i \in best}

(***************************************************************************)
(* `Or null if no key exceeds the similarity threshold': what is taken     *)
(* from the learned names scores more than 0.8.                            *)
(***************************************************************************)
MatchesExceedThreshold ==
    \A m \in Merchants :
        FuzzyMatchCategory(m, map) # Null =>
            \E i \in DOMAIN map :
                /\ FuzzyMatchCategory(m, map) = map[i].category
                /\ Less(<<4, 5>>, Scores[m][map[i].key])

(***************************************************************************)
(* Teaching a merchant's category gives that category to its rows, and     *)
(* changes another merchant's rows only to that category: relearning never *)
(* hands them to a third, neither through ties nor through the order of    *)
(* the keys.                                                               *)
(***************************************************************************)
LearningOnlyTeaches ==
    \A merchant \in Merchants, category \in Learned :
        LET after == AddOverride(map, merchant, category) IN
        /\ ResolveCategory(Null, merchant, after) = category
        /\ \A m \in Merchants :
             ResolveCategory(Null, m, after) \in {category, ResolveCategory(Null, m, map)}

Million == 1000000

(***************************************************************************)
(* The dashboard reads the amounts that banks write below a million, and   *)
(* the phone reads all of them.                                            *)
(***************************************************************************)
AmountsRead ==
    row # Null =>
        /\ row.captured = row.written
        /\ row.written < 100 * Million => row.shown = row.written
=============================================================================
