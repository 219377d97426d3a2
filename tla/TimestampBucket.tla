-------------------------- MODULE TimestampBucket --------------------------
(***************************************************************************)
(* validate_timestamp_bucket of the server, for the texts of a POST or an  *)
(* import, and the month the dashboard's navigation reads in a text that   *)
(* was accepted.  A text is a sequence of characters, a character a byte.  *)
(***************************************************************************)
EXTENDS Integers, Sequences

CONSTANTS
    Characters,     \* the bytes of texts; figures and signs are one byte each
    Texts,          \* timestamp buckets clients send
    Unread          \* a text no integer can be read from; no request yet

DigitChars == <<"0", "1", "2", "3", "4", "5", "6", "7", "8", "9">>
Figures == {DigitChars[i] : i \in 1..10}

ASSUME TextsAssumption ==
    /\ Figures \cup {"-", "+"} \subseteq Characters
    /\ Texts \subseteq Seq(Characters)
    /\ Unread \notin Nat

VARIABLE checked    \* the last text and whether it was accepted, or Unread

FigureOf(ch) == CHOOSE n \in 0..9 : DigitChars[n + 1] = ch

Chars(text) == {text[i] : i \in DOMAIN text}
IsNumeral(text) == text # <<>> /\ Chars(text) \subseteq Figures

Value(text) ==
    LET value[i \in 0..Len(text)] ==
            IF i = 0 THEN 0 ELSE 10 * value[i - 1] + FigureOf(text[i])
    IN  value[Len(text)]

\* str::parse of Rust into an unsigned integer up to max: a + may come first.
ParseUnsigned(text, max) ==
    LET digits == IF text # <<>> /\ Head(text) = "+" THEN Tail(text) ELSE text
    IN  IF IsNumeral(digits) /\ Value(digits) <= max THEN Value(digits) ELSE Unread

\* split('-') where there are two parts.
Dashes(text) == {i \in DOMAIN text : text[i] = "-"}
YearPart(text) == SubSeq(text, 1, (CHOOSE i \in Dashes(text) : TRUE) - 1)
MonthPart(text) == SubSeq(text, (CHOOSE i \in Dashes(text) : TRUE) + 1, Len(text))

\* The two parts parse, into a month of a year that is allowed.  (Alone, a
\* mutant of the next: the length is not checked.)
ReadsAsMonth(text) ==
    /\ \E i \in Dashes(text) : Dashes(text) = {i}
    /\ LET year == ParseUnsigned(YearPart(text), 65535)
           month == ParseUnsigned(MonthPart(text), 255)
       IN  year # Unread /\ month # Unread /\ year >= 2000 /\ month \in 1..12

ValidateTimestampBucket(text) == Len(text) = 7 /\ ReadsAsMonth(text)

Check(text) == checked' = [text |-> text, accepted |-> ValidateTimestampBucket(text)]

BucketsInit == checked = Unread
BucketsNext == \E text \in Texts : Check(text)
BucketsSpec == BucketsInit /\ [][BucketsNext]_checked

\* What navigateMonth writes for a month.
BucketText(year, month) ==
    LET digit(n, unit) == DigitChars[((n \div unit) % 10) + 1]
    IN  <<digit(year, 1000), digit(year, 100), digit(year, 10), digit(year, 1), "-",
          digit(month, 10), digit(month, 1)>>

Years == 2000..9999
CalendarMonths == {BucketText(y, m) : y \in Years, m \in 1..12}

(***************************************************************************)
(* The months of the calendar are accepted, and what is accepted is one of *)
(* them, so that the dashboard can navigate to its row; or it has a sign,  *)
(* or its year has five digits, which parse and fit, too.                  *)
(***************************************************************************)
AcceptedIsAMonth ==
    checked # Unread =>
        LET text == checked.text IN
        /\ text \in CalendarMonths => checked.accepted
        /\ checked.accepted =>
             \/ text \in CalendarMonths
             \/ "+" \in Chars(text)
             \/ Len(text) = 7 /\ Len(YearPart(text)) = 5
=============================================================================
