----------------------------- MODULE PhoneSetup -----------------------------
(***************************************************************************)
(* The iOS script's interactive runs, and what its automated runs make of  *)
(* the Keychain they leave: set-up, card mapping, and the way of a message *)
(* to a payload.  SmsCapture has the rest of an automated run: duplicates, *)
(* retries, marks.  Runs overlap, each gives way at its awaits and may be  *)
(* killed there; two writes of a run are two steps, as a run of the app    *)
(* and one of a Shortcut are different processes.                          *)
(***************************************************************************)
EXTENDS Integers, FiniteSets

CONSTANTS
    Users,
    Cards, OwnerOf,     \* the cards of the server, and whose they are
    Digits,             \* last digits: of messages, and typed into the mapping
    Messages,           \* [form, digits, dated]
    Runs,               \* runs that can be on their way at the same time
    MaxSetups,          \* bound: set-ups that get an answer to their login
    MaxSaves,           \* bound: saves of the card map
    FirstMonth, LastMonth,  \* <<year, month>>; bound: the clock stops at the last
    None                \* null; an empty text field; no such run

ASSUME PhoneAssumption ==
    /\ OwnerOf \in [Cards -> Users]
    /\ MaxSetups \in Nat /\ MaxSaves \in Nat
    /\ FirstMonth \in Int \X Int /\ LastMonth \in Int \X Int
    /\ None \notin [kind: {"setup"}, step: {"dek"}, user: Users, by: 1..MaxSetups]
    /\ None \notin {"DD/MM", "DD/MM/YYYY"}
    /\ \A m \in Messages :
         /\ m.form \in {"bradesco", "generic", "other"}
         /\ m.digits \in Digits \cup {"masked", None}
         /\ m.dated \in {"DD/MM", "DD/MM/YYYY", None}
         /\ m.form = "bradesco" => m.dated # None

VARIABLES
    keychain,   \* [token, dek, map, default]
    run,        \* run -> None, or what it does
    stored,     \* rows at the server: [user, dek, torn]
    now,        \* this month
    setups,     \* history: set-ups that were answered
    disturbed,  \* history: those killed, or met by another, between their writes
    saves,      \* history: saves of the map
    savedAt     \* history: digits -> the last save that changed their card

vars == <<keychain, run, stored, now, setups, disturbed, saves, savedAt>>

NoMap == [d \in {} |-> None]

\* A credential, with the set-up that wrote it.
Credential(user, by) == [user |-> user, by |-> by]

Init ==
    /\ keychain = [token |-> Credential(None, 0), dek |-> Credential(None, 0),
                   map |-> NoMap, default |-> None]
    /\ run = [r \in Runs |-> None]
    /\ stored = {} /\ now = FirstMonth
    /\ setups = 0 /\ disturbed = {} /\ saves = 0 /\ savedAt = NoMap

At(r, kind, step) == run[r] # None /\ run[r].kind = kind /\ run[r].step = step

\* The set-ups that have written their token and not their key.
Halfway == {run[r].by : r \in {q \in Runs : At(q, "setup", "dek")}}

End(r) == run' = [run EXCEPT ![r] = None]
Goto(r, step) == run' = [run EXCEPT ![r].step = step]

-----------------------------------------------------------------------------
(* runSetup *)

\* The first alert answered, the request is sent.
StartSetup(r, user) ==
    /\ run[r] = None
    /\ run' = [run EXCEPT ![r] =
                 [kind |-> "setup", step |-> "login", user |-> user, by |-> None]]
    /\ UNCHANGED <<keychain, stored, now, setups, disturbed, saves, savedAt>>

WriteToken(r, by) ==
    /\ keychain' = [keychain EXCEPT !.token = Credential(run[r].user, by)]
    /\ disturbed' = disturbed \cup
                      (IF Halfway \ {by} = {} THEN {} ELSE Halfway \cup {by})

\* Mutant: the token is kept as soon as it is there.
LoginAndKeep(r) ==
    /\ At(r, "setup", "login") /\ setups < MaxSetups
    /\ setups' = setups + 1
    /\ run' = [run EXCEPT ![r].step = "master", ![r].by = setups']
    /\ WriteToken(r, setups')
    /\ UNCHANGED <<stored, now, saves, savedAt>>

Login(r) ==
    /\ At(r, "setup", "login") /\ setups < MaxSetups
    /\ setups' = setups + 1
    /\ run' = [run EXCEPT ![r].step = "master", ![r].by = setups']
    /\ UNCHANGED <<keychain, stored, now, disturbed, saves, savedAt>>

\* The second alert answered, and deriveDek has opened the wrapped key.
Derived(r) ==
    /\ At(r, "setup", "master")
    /\ WriteToken(r, run[r].by)
    /\ Goto(r, "dek")
    /\ UNCHANGED <<stored, now, setups, saves, savedAt>>

WriteDek(r) ==
    /\ At(r, "setup", "dek")
    /\ keychain' = [keychain EXCEPT !.dek = Credential(run[r].user, run[r].by)]
    /\ End(r)
    /\ UNCHANGED <<stored, now, setups, disturbed, saves, savedAt>>

\* Refused, unreachable, cancelled, or the master password was wrong.
SetupFails(r) ==
    /\ At(r, "setup", "login") \/ At(r, "setup", "master")
    /\ End(r)
    /\ UNCHANGED <<keychain, stored, now, setups, disturbed, saves, savedAt>>

-----------------------------------------------------------------------------
(* runCardMapping *)

StartMapping(r) ==
    /\ run[r] = None /\ keychain.token.user # None
    /\ run' = [run EXCEPT ![r] =
                 [kind |-> "mapping", step |-> "fetch", map |-> NoMap, at |-> 0]]
    /\ UNCHANGED <<keychain, stored, now, setups, disturbed, saves, savedAt>>

\* Mutant: the map is not loaded.
CardsAnsweredEmpty(r) ==
    /\ At(r, "mapping", "fetch")
    /\ run' = [run EXCEPT ![r].step = "choose", ![r].at = saves]
    /\ UNCHANGED <<keychain, stored, now, setups, disturbed, saves, savedAt>>

\* The cards, or none; the map is loaded before the alert is shown.
CardsAnswered(r) ==
    /\ At(r, "mapping", "fetch")
    /\ run' = [run EXCEPT ![r].step = "choose", ![r].map = keychain.map, ![r].at = saves]
    /\ UNCHANGED <<keychain, stored, now, setups, disturbed, saves, savedAt>>

With(map, digits, card) ==
    [d \in DOMAIN map \cup {digits} |-> IF d = digits THEN card ELSE map[d]]

\* Whether a save gives digits another card, or one they had lost.
Changed(d) ==
    /\ d \in DOMAIN keychain'.map
    /\ d \in DOMAIN keychain.map => keychain'.map[d] # keychain.map[d]

\* "Add Mapping": the whole map is saved.
AddMapping(r, digits, card) ==
    /\ At(r, "mapping", "choose") /\ saves < MaxSaves
    /\ keychain' = [keychain EXCEPT !.map = With(run[r].map, digits, card)]
    /\ saves' = saves + 1
    /\ savedAt' = [d \in DOMAIN savedAt \cup DOMAIN keychain'.map |->
                     IF d = digits \/ Changed(d) THEN saves' ELSE savedAt[d]]
    /\ Goto(r, "default")
    /\ UNCHANGED <<stored, now, setups, disturbed>>

\* "Add Mapping" without digits or card.
AddNothing(r) ==
    /\ At(r, "mapping", "choose")
    /\ Goto(r, "default")
    /\ UNCHANGED <<keychain, stored, now, setups, disturbed, saves, savedAt>>

SetDefault(r, card) ==
    /\ At(r, "mapping", "default")
    /\ keychain' = IF card = None THEN keychain
                   ELSE [keychain EXCEPT !.default = card]
    /\ End(r)
    /\ UNCHANGED <<stored, now, setups, disturbed, saves, savedAt>>

\* "View Current Mappings" or "Done".
CloseMapping(r) ==
    /\ At(r, "mapping", "choose")
    /\ End(r)
    /\ UNCHANGED <<keychain, stored, now, setups, disturbed, saves, savedAt>>

-----------------------------------------------------------------------------
(* main, for a message *)

\* parseBradesco and, after it, parseGenericBrazilian: the last digits.  The
\* generic pattern does not know masked digits.
LastDigits(sms) ==
    CASE sms.digits = "masked" /\ sms.form = "bradesco" -> None
      [] sms.digits \in {"masked", None} /\ sms.form # "bradesco" -> "0000"
      [] sms.digits = None /\ sms.form = "bradesco" -> "0000"
      [] OTHER -> sms.digits

\* normalizeDate, todayIso and deriveTimestampBucket.  parseBradesco takes
\* a date's first five characters, with or without a year after them.
Bucket(sms, bought) ==
    CASE sms.dated = None -> now
      [] sms.dated = "DD/MM/YYYY" /\ sms.form # "bradesco" -> bought
      [] OTHER -> <<now[1], bought[2]>>

ResolveCardId(digits) ==
    IF digits \in DOMAIN keychain.map THEN keychain.map[digits] ELSE keychain.default

Torn == keychain.token.by # keychain.dek.by

\* Up to the first await: credentials, parsing, the card.  The message tells
\* of a purchase of this month or an earlier one.
Earlier(bought) == bought[1] < now[1] \/ (bought[1] = now[1] /\ bought[2] <= now[2])

StartCapture(r, sms, bought) ==
    /\ run[r] = None
    /\ Earlier(bought)
    /\ keychain.token.user # None /\ keychain.dek.user # None
    /\ sms.form # "other"
    /\ ResolveCardId(LastDigits(sms)) # None
    /\ run' = [run EXCEPT ![r] =
                 [kind |-> "capture", step |-> "encrypt",
                  token |-> keychain.token.user, dek |-> keychain.dek.user,
                  torn |-> Torn, card |-> ResolveCardId(LastDigits(sms)),
                  bucket |-> Bucket(sms, bought),
                  dated |-> sms.dated # None, bought |-> bought]]
    /\ UNCHANGED <<keychain, stored, now, setups, disturbed, saves, savedAt>>

\* Mutant: the key is fetched from the Keychain when it is needed.
EncryptWithCurrent(r) ==
    /\ At(r, "capture", "encrypt")
    /\ run' = [run EXCEPT ![r].step = "post", ![r].dek = keychain.dek.user]
    /\ UNCHANGED <<keychain, stored, now, setups, disturbed, saves, savedAt>>

\* The overrides have come, or not; the payload is encrypted.
Encrypt(r) ==
    /\ At(r, "capture", "encrypt")
    /\ Goto(r, "post")
    /\ UNCHANGED <<keychain, stored, now, setups, disturbed, saves, savedAt>>

\* The server takes a row on a card of the token's user.
Accepted(r) ==
    /\ At(r, "capture", "post")
    /\ OwnerOf[run[r].card] = run[r].token
    /\ stored' = stored \cup {[user |-> run[r].token, dek |-> run[r].dek,
                               torn |-> run[r].torn]}
    /\ End(r)
    /\ UNCHANGED <<keychain, now, setups, disturbed, saves, savedAt>>

\* Not the user's card, an expired token, or no connection.
NotAccepted(r) ==
    /\ At(r, "capture", "post")
    /\ End(r)
    /\ UNCHANGED <<keychain, stored, now, setups, disturbed, saves, savedAt>>

-----------------------------------------------------------------------------
Kill(r) ==
    /\ run[r] # None
    /\ disturbed' = IF At(r, "setup", "dek") THEN disturbed \cup {run[r].by} ELSE disturbed
    /\ End(r)
    /\ UNCHANGED <<keychain, stored, now, setups, saves, savedAt>>

NextMonth(m) == IF m[2] = 12 THEN <<m[1] + 1, 1>> ELSE <<m[1], m[2] + 1>>

TurnMonth ==
    /\ now # LastMonth
    /\ now' = NextMonth(now)
    /\ UNCHANGED <<keychain, run, stored, setups, disturbed, saves, savedAt>>

Next ==
    \/ \E r \in Runs :
        \/ \E u \in Users : StartSetup(r, u)
        \/ Login(r) \/ Derived(r) \/ WriteDek(r) \/ SetupFails(r)
        \/ StartMapping(r) \/ CardsAnswered(r) \/ AddNothing(r) \/ CloseMapping(r)
        \/ \E d \in Digits, c \in Cards : AddMapping(r, d, c)
        \/ \E c \in Cards \cup {None} : SetDefault(r, c)
        \/ \E m \in Messages, b \in {FirstMonth, LastMonth} : StartCapture(r, m, b)
        \/ Encrypt(r) \/ Accepted(r) \/ NotAccepted(r) \/ Kill(r)
    \/ TurnMonth

Spec == Init /\ [][Next]_vars

-----------------------------------------------------------------------------
Credentials == [user : Users \cup {None}, by : 0..MaxSetups]

TypeOK ==
    /\ keychain.token \in Credentials /\ keychain.dek \in Credentials
    /\ DOMAIN keychain.map \subseteq DOMAIN savedAt
    /\ \A d \in DOMAIN keychain.map : keychain.map[d] \in Cards
    /\ keychain.default \in Cards \cup {None}
    /\ setups \in 0..MaxSetups /\ saves \in 0..MaxSaves
    /\ disturbed \subseteq 1..setups

(***************************************************************************)
(* The token and the key in the Keychain are of one set-up: a set-up that  *)
(* fails or is cancelled leaves those of the last.  Only one that is       *)
(* between its two writes, was killed there, or was met there by another   *)
(* leaves two halves.                                                      *)
(***************************************************************************)
HalvesBelongTogether == Torn => keychain.token.by \in Halfway \cup disturbed

(***************************************************************************)
(* A row is encrypted with the key of the user it is stored for, whatever  *)
(* set-ups go on while it is encrypted and sent; unless its run found two  *)
(* halves.                                                                 *)
(***************************************************************************)
RowsReadable == \A row \in stored : row.torn \/ row.user = row.dek

(***************************************************************************)
(* Digits lose their card, or get an older one back, only from a mapping   *)
(* run that loaded the map before they were given it; unless that run maps *)
(* them itself.                                                            *)
(***************************************************************************)
MappingsLostOnlyToOlderRuns ==
    [][ \A d \in DOMAIN keychain.map :
          \/ d \in DOMAIN keychain'.map /\ keychain'.map[d] = keychain.map[d]
          \/ \E r \in Runs : /\ At(r, "mapping", "choose")
                             /\ \/ run[r].at < savedAt[d]
                                \/ \E c \in Cards : AddMapping(r, d, c) ]_vars

(***************************************************************************)
(* `Compute timestamp_bucket as YYYY-MM from transaction date': a message  *)
(* that states the day of the purchase is filed under that day's month.    *)
(***************************************************************************)
DatedFiledUnderItsMonth ==
    \A r \in Runs : run[r] # None /\ run[r].kind = "capture" /\ run[r].dated =>
        run[r].bucket = run[r].bought
=============================================================================
