-------------------------- MODULE DashboardCache --------------------------
(***************************************************************************)
(* The query cache of one tab: the list the server sent, cached under one  *)
(* name, and its decryption, cached under the lengths of what it was       *)
(* computed from.  The two pages and the card list use the same pair of    *)
(* queries.  Cached data is shown until a visit (a mount, a focus) finds   *)
(* it stale or an invalidation refetches it.  The cache outlives sessions. *)
(***************************************************************************)
EXTENDS Naturals, FiniteSets

CONSTANTS
    Users,
    None,
    Ids,            \* transactions of a user
    Revisions,      \* of a transaction's payload
    MaxOverride,    \* overrides take the values 0 (none) to MaxOverride
    MaxWrites       \* bound: changes of the server's data

ASSUME CacheAssumption ==
    /\ None \notin Users
    /\ MaxOverride \in Nat /\ MaxWrites \in Nat

VARIABLES
    table,      \* user -> the rows the server holds
    config,     \* user -> the user's override, for one merchant
    user,       \* whose session is unlocked, or None
    raw,        \* the query ["transactions"], or None
    learned,    \* the query ["config:category_overrides"], or None
    shown,      \* the queries ["transactions:decrypted", n, k] by <<n, k>>
    writes      \* changes so far

vars == <<table, config, user, raw, learned, shown, writes>>

Row == [owner: Users, id: Ids, revision: Revisions]

ASSUME FiniteAssumption == IsFiniteSet(Row)

Fresh(data) == [data |-> data, stale |-> FALSE]

\* Marked for a refetch, by an invalidation or by age.
Stale(q) == IF q = None THEN None ELSE [q EXCEPT !.stale = TRUE]

Wanted(q) == q # None => q.stale

\* `query.data ?? {}'
Override == IF learned = None THEN 0 ELSE learned.data

\* Object.keys(overrides).length: one merchant, with or without an override.
Length(override) == IF override = 0 THEN 0 ELSE 1

\* Mutant: the length of the list is not part of the key.
KeyOfOverrides == <<0, Length(Override)>>

Key == <<Cardinality(raw.data), Length(Override)>>

\* decryptTransaction of every row: another user's does not open.
Decrypted(rows, u, override) ==
    {[row |-> r, opened |-> r.owner = u, override |-> override] : r \in rows}

RowsOf(u) == {r \in Row : r.owner = u}

\* What the server may hold of a user: at most one row under an id.
Tables(u) ==
    {rows \in SUBSET RowsOf(u) : Cardinality({r.id : r \in rows}) = Cardinality(rows)}

\* A tab opens on whatever the users have stored before.
Init ==
    /\ table \in [Users -> UNION {Tables(u) : u \in Users}]
    /\ \A u \in Users : table[u] \in Tables(u)
    /\ config \in [Users -> 0..MaxOverride]
    /\ user = None /\ raw = None /\ learned = None
    /\ shown = [k \in {} |-> None]
    /\ writes = 0

Login(u) ==
    /\ user = None
    /\ user' = u
    /\ UNCHANGED <<table, config, raw, learned, shown, writes>>

\* Clears the session and IndexedDB; the query client keeps its data.
Logout ==
    /\ user # None
    /\ user' = None
    /\ UNCHANGED <<table, config, raw, learned, shown, writes>>

\* listTransactions, when a visit or an invalidation asks for it.
LoadRaw ==
    /\ user # None /\ Wanted(raw)
    /\ raw' = Fresh(table[user])
    /\ UNCHANGED <<table, config, user, learned, shown, writes>>

LoadOverrides ==
    /\ user # None /\ Wanted(learned)
    /\ learned' = Fresh(config[user])
    /\ UNCHANGED <<table, config, user, raw, shown, writes>>

\* Mutant: a stale decryption is never computed again.
DecryptOnce ==
    /\ user # None /\ raw # None
    /\ Key \notin DOMAIN shown
    /\ shown' = [k \in DOMAIN shown \cup {Key} |->
         IF k = Key THEN Fresh(Decrypted(raw.data, user, Override)) ELSE shown[k]]
    /\ UNCHANGED <<table, config, user, raw, learned, writes>>

\* The decrypting query, when its key is new or a visit finds it stale.
Decrypt ==
    /\ user # None /\ raw # None
    /\ Key \in DOMAIN shown => shown[Key].stale
    /\ shown' = [k \in DOMAIN shown \cup {Key} |->
         IF k = Key THEN Fresh(Decrypted(raw.data, user, Override)) ELSE shown[k]]
    /\ UNCHANGED <<table, config, user, raw, learned, writes>>

\* staleTime passes.
Age ==
    /\ raw' = Stale(raw)
    /\ shown' = [k \in DOMAIN shown |-> Stale(shown[k])]
    /\ UNCHANGED <<table, config, user, learned, writes>>

AgeOverrides ==
    /\ learned' = Stale(learned)
    /\ UNCHANGED <<table, config, user, raw, shown, writes>>

InUse(k) == user # None /\ raw # None /\ k = Key

\* gcTime passes for a decryption nobody shows.
Collect ==
    /\ \E k \in DOMAIN shown :
         /\ ~InUse(k)
         /\ shown' = [j \in DOMAIN shown \ {k} |-> shown[j]]
    /\ UNCHANGED <<table, config, user, raw, learned, writes>>

Write(u, rows, override) ==
    /\ writes < MaxWrites
    /\ writes' = writes + 1
    /\ table' = [table EXCEPT ![u] = rows]
    /\ config' = [config EXCEPT ![u] = override]
    /\ UNCHANGED <<user, shown>>

\* The add form and the delete button of TransactionsPage.
AddOrDelete ==
    /\ user # None
    /\ \/ \E i \in Ids \ {r.id : r \in table[user]}, v \in Revisions :
            Write(user, table[user] \cup {[owner |-> user, id |-> i, revision |-> v]},
                  config[user])
       \/ \E r \in table[user] : Write(user, table[user] \ {r}, config[user])
    /\ raw' = Stale(raw)
    /\ UNCHANGED learned

\* handleCategoryUpdate: both PUTs, then both invalidations.
EditCategory ==
    /\ user # None
    /\ \E r \in table[user], v \in Revisions, o \in 1..MaxOverride :
         /\ v # r.revision
         /\ Write(user, (table[user] \ {r}) \cup {[r EXCEPT !.revision = v]}, o)
    /\ raw' = Stale(raw)
    /\ learned' = Stale(learned)

\* The phone; other tabs, which store overrides too, computed from a map
\* of theirs; and deleting a card, which removes its transactions and
\* invalidates the card list only.
Elsewhere ==
    /\ \E u \in Users, o \in 0..MaxOverride : \E rows \in Tables(u) :
         /\ rows # table[u] \/ o # config[u]
         /\ Write(u, rows, o)
    /\ UNCHANGED <<raw, learned>>

Next ==
    \/ \E u \in Users : Login(u)
    \/ Logout \/ LoadRaw \/ LoadOverrides \/ Decrypt \/ Age \/ AgeOverrides \/ Collect
    \/ AddOrDelete \/ EditCategory \/ Elsewhere

\* Time passes, requests are answered, and the user keeps coming back to the tab.
Fairness ==
    /\ WF_vars(LoadRaw) /\ WF_vars(LoadOverrides) /\ WF_vars(Decrypt)
    /\ WF_vars(Age) /\ WF_vars(AgeOverrides)

Spec == Init /\ [][Next]_vars /\ Fairness

TypeOK ==
    /\ \A u \in Users : table[u] \subseteq RowsOf(u)
    /\ config \in [Users -> 0..MaxOverride]
    /\ user \in Users \cup {None}
    /\ raw # None => raw.data \subseteq Row
    /\ learned # None => learned.data \in 0..MaxOverride

Showing == user # None /\ raw # None /\ Key \in DOMAIN shown

(***************************************************************************)
(* Whatever is written, invalidated, ages or is collected in which order,  *)
(* and whoever logs in: the list on the screen has as many rows as the     *)
(* list loaded last, and was computed with an override exactly when one is *)
(* loaded.  So no list is shown from before the number of rows changed, or *)
(* from before an override appeared or went.  It says nothing of a change  *)
(* that keeps both lengths, an edit or one row for another: that one may   *)
(* be missed (ShownIsLoaded) until the queries age (EventuallyCurrent).    *)
(***************************************************************************)
LengthsShown ==
    Showing =>
        /\ Cardinality(shown[Key].data) = Cardinality(raw.data)
        /\ \A d \in shown[Key].data : Length(d.override) = Length(Override)

(***************************************************************************)
(* Staleness does not last, also where both lengths stayed as they were:   *)
(* once the server is left alone, a user who keeps returning to the tab    *)
(* sees the server's rows, decrypted with the stored override.             *)
(***************************************************************************)
ShownCurrent ==
    user # None =>
        /\ Showing
        /\ shown[Key].data = Decrypted(table[user], user, config[user])

EventuallyCurrent == []<>ShownCurrent

(***************************************************************************)
(* `Invalidating queries to refresh the decrypted data': with nothing left *)
(* to refetch, what is shown is the decryption of what was loaded.         *)
(***************************************************************************)
ShownIsLoaded ==
    (Showing /\ ~Wanted(raw) /\ ~Wanted(learned) /\ ~shown[Key].stale) =>
        shown[Key].data = Decrypted(raw.data, user, Override)

(***************************************************************************)
(* `Clears all session data (logout)': a session shows no row that was     *)
(* decrypted with the key of an earlier one.                               *)
(***************************************************************************)
NoForeignRows ==
    Showing => \A d \in shown[Key].data : d.opened => d.row.owner = user
=============================================================================
