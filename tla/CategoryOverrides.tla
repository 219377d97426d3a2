------------------------- MODULE CategoryOverrides -------------------------
(***************************************************************************)
(* Categories corrected in the dashboard and learned by the phone.  An     *)
(* edit (handleCategoryUpdate of both pages) rewrites the transaction and  *)
(* then the whole override map, with the row and the map that were on the  *)
(* screen when it began; the phone reads the map before it files a         *)
(* transaction.  A payload is abstracted to what editing and showing it    *)
(* depend on.                                                              *)
(***************************************************************************)
EXTENDS FiniteSets, Naturals

CONSTANTS
    Keys, Values,   \* merchants and categories of the override map
    Devices,        \* tabs of the dashboard
    Txs,
    MerchantOf,     \* transaction -> the merchant in its text
    Categories,     \* what a user may enter
    Kinds,          \* kinds of payload stored before: "json", "plain", "sealed"
    MaxEdits,       \* bound: edits in flight
    None,           \* not loaded, not filed, no source, no match
    Uncategorized, Unknown, \* the literals "uncategorized" and "unknown"
    Garbled,        \* a merchant that is the text of a whole payload
    Unreadable      \* the literal "[Decryption failed]"

ASSUME OverridesAssumption ==
    /\ DOMAIN MerchantOf = Txs
    /\ Keys = {MerchantOf[t] : t \in Txs} \cup {Garbled, Unreadable}
    /\ Values = Categories
    /\ {Uncategorized, Unknown, None} \cap Categories = {}
    /\ None \notin {Uncategorized, Unknown, Garbled, Unreadable}
    /\ MaxEdits \in Nat

VARIABLES
    config,     \* the stored override map; empty: none stored
    tx,         \* the stored payload of each transaction, or None
    loaded,     \* device -> the map its query holds, or None
    rows,       \* device -> the rows its query holds, or None
    edits,      \* edits under way
    cached,     \* the map in the phone's Keychain, or None
    used,       \* the map of the phone's last run
    versions,   \* history: every map stored so far, and the empty one
    written     \* history: merchant and category of every PUT of a transaction

vars == <<config, tx, loaded, rows, edits, cached, used, versions, written>>

NoOverrides == [k \in {} |-> {}]

\* addOverride: a new map with one entry added or replaced.
AddOverride(map, key, value) ==
    [k \in DOMAIN map \cup {key} |-> IF k = key THEN value ELSE map[k]]

\* json: merchant, amount and category; plain: bank text; sealed: does not
\* decrypt; wrapped and blank: a description and a category only, the text
\* of a plain payload or that of the fallback for a sealed one.
Payload(kind, category, source) ==
    [kind |-> kind, category |-> category, source |-> source]

Payloads ==
    {Payload(k, c, s) : k \in Kinds \cup {"json", "wrapped", "blank"},
                        c \in Categories \cup {Uncategorized},
                        s \in {None, "auto_learned"}}

ASSUME PayloadAssumption == None \notin Payloads

Lookup(map, merchant) == IF merchant \in DOMAIN map THEN map[merchant] ELSE None

\* `overrides: query.data ?? {}'
Overrides(d) == IF loaded[d] = None THEN NoOverrides ELSE loaded[d]

\* The merchant and category decryptTransaction shows, and the source of the latter.
Shown(t, p, map) ==
    LET row(merchant, category, source) ==
            [merchant |-> merchant, category |-> category, source |-> source, payload |-> p]
        learned == Lookup(map, MerchantOf[t])
    IN  CASE p.kind = "sealed" -> row(Unreadable, Unknown, None)
          [] p.kind = "plain" -> row(MerchantOf[t], Uncategorized, None)
          [] p.kind \in {"wrapped", "blank"} -> row(Garbled, p.category, None)
          [] p.kind = "json" /\ p.category # Uncategorized ->
                row(MerchantOf[t], p.category, None)
          [] OTHER -> IF learned = None THEN row(MerchantOf[t], Uncategorized, None)
                      ELSE row(MerchantOf[t], learned, "auto_learned")

\* Whether decryptTransaction finds the amount.
ShowsAmount(p) == p.kind \in {"json", "plain"}

\* updateCategoryInPayload: merged into JSON, wrapped around anything else,
\* the text of the fallback included.
UpdateCategory(p, category) ==
    CASE p.kind = "plain" -> Payload("wrapped", category, None)
      [] p.kind = "sealed" -> Payload("blank", category, None)
      [] OTHER -> [p EXCEPT !.category = category]

Init ==
    /\ config = NoOverrides /\ versions = {NoOverrides}
    /\ tx \in [Txs -> {Payload(k, Uncategorized, None) : k \in Kinds} \cup {None}]
    /\ loaded = [d \in Devices |-> None]
    /\ rows = [d \in Devices |-> None]
    /\ edits = {} /\ cached = None /\ used = NoOverrides
    /\ written = {}

\* fetchOverrides; a 404 is the empty map, another error leaves the query alone.
LoadOverrides(d) ==
    /\ loaded' = [loaded EXCEPT ![d] = config]
    /\ UNCHANGED <<config, tx, rows, edits, cached, used, versions, written>>

Filed == {t \in Txs : tx[t] # None}

FreshRows(d) == [t \in Filed |-> Shown(t, tx[t], Overrides(d))]

LoadRows(d) ==
    /\ rows' = [rows EXCEPT ![d] = FreshRows(d)]
    /\ UNCHANGED <<config, tx, loaded, edits, cached, used, versions, written>>

Edit(d, t, category, map) ==
    [device |-> d, tx |-> t, merchant |-> rows[d][t].merchant, category |-> category,
     payload |-> UpdateCategory(rows[d][t].payload, category), map |-> map,
     step |-> "transaction"]

\* Mutant: the loaded map is updated optimistically, before anything is stored.
StartEditOptimistic(d, t, category) ==
    /\ rows[d] # None /\ t \in DOMAIN rows[d]
    /\ category # rows[d][t].category
    /\ Cardinality(edits) < MaxEdits
    /\ edits' = edits \cup {Edit(d, t, category, Overrides(d))}
    /\ loaded' = [loaded EXCEPT ![d] =
         AddOverride(Overrides(d), rows[d][t].merchant, category)]
    /\ UNCHANGED <<config, tx, rows, cached, used, versions, written>>

\* CategoryEditor saves a category that differs from the one shown.
StartEdit(d, t, category) ==
    /\ rows[d] # None /\ t \in DOMAIN rows[d]
    /\ category # rows[d][t].category
    /\ Cardinality(edits) < MaxEdits
    /\ edits' = edits \cup {Edit(d, t, category, Overrides(d))}
    /\ UNCHANGED <<config, tx, loaded, rows, cached, used, versions, written>>

\* saveOverrides: the PUT of a whole map replaces the stored one.
Save(map) == config' = map /\ versions' = versions \cup {map}

Goto(e, step) == edits' = (edits \ {e}) \cup {[e EXCEPT !.step = step]}

\* The catch and the finally.
Fail(e) ==
    /\ edits' = edits \ {e}
    /\ UNCHANGED <<config, tx, loaded, rows, cached, used, versions, written>>

\* The first PUT.
PutTransaction(e) ==
    /\ e.step = "transaction"
    /\ tx' = [tx EXCEPT ![e.tx] = e.payload]
    /\ Goto(e, "overrides") \/ edits' = edits \ {e}      \* the answer is lost
    /\ written' = written \cup {<<e.merchant, e.category>>}
    /\ UNCHANGED <<config, loaded, rows, cached, used, versions>>

\* Mutant: the override does not wait for the transaction.
PutOverridesAnyway(e) ==
    /\ e.step \in {"transaction", "overrides"}
    /\ Save(AddOverride(e.map, e.merchant, e.category))
    /\ Goto(e, "refetch") \/ edits' = edits \ {e}
    /\ UNCHANGED <<tx, loaded, rows, cached, used, written>>

\* The second PUT, of the map as it was when the edit began, with one entry added.
PutOverrides(e) ==
    /\ e.step = "overrides"
    /\ Save(AddOverride(e.map, e.merchant, e.category))
    /\ Goto(e, "refetch") \/ edits' = edits \ {e}        \* the answer is lost
    /\ UNCHANGED <<tx, loaded, rows, cached, used, written>>

\* The two invalidations; a refetch may fail, and the rows may come from the cache.
Refetch(e) ==
    /\ e.step = "refetch"
    /\ edits' = edits \ {e}
    /\ loaded' \in {loaded, [loaded EXCEPT ![e.device] = config]}
    /\ rows' \in {rows, [rows EXCEPT ![e.device] = FreshRows(e.device)]}
    /\ UNCHANGED <<config, tx, cached, used, versions, written>>

\* loadCategoryOverrides: the server's map, cached; none yet; the cached one.
PhoneLoad ==
    \/ config # NoOverrides /\ cached' = config /\ used' = config
    \/ config = NoOverrides /\ used' = NoOverrides /\ UNCHANGED cached
    \/ used' = (IF cached = None THEN NoOverrides ELSE cached) /\ UNCHANGED cached

\* A run of the phone's script that files t; no keyword matches.
PhoneFiles(t) ==
    /\ tx[t] = None
    /\ PhoneLoad
    /\ LET learned == Lookup(used', MerchantOf[t]) IN
         tx' = [tx EXCEPT ![t] =
             IF learned = None THEN Payload("json", Uncategorized, None)
             ELSE Payload("json", learned, "auto_learned")]
    /\ UNCHANGED <<config, loaded, rows, edits, versions, written>>

Step(e) == PutTransaction(e) \/ PutOverrides(e) \/ Refetch(e)

Next ==
    \/ \E d \in Devices : LoadOverrides(d) \/ LoadRows(d)
    \/ \E d \in Devices, t \in Txs, c \in Categories : StartEdit(d, t, c)
    \/ \E e \in edits : Step(e) \/ Fail(e)
    \/ \E t \in Txs : PhoneFiles(t)

Spec == Init /\ [][Next]_vars

IsMap(m) == DOMAIN m \subseteq Keys /\ \A k \in DOMAIN m : m[k] \in Values

TypeOK ==
    /\ IsMap(config) /\ IsMap(used)
    /\ cached # None => IsMap(cached)
    /\ \A d \in Devices : loaded[d] # None => IsMap(loaded[d])
    /\ tx \in [Txs -> Payloads \cup {None}]
    /\ \A e \in edits : IsMap(e.map) /\ e.tx \in Filed

(***************************************************************************)
(* Every map anybody works with -- a tab's, the one an edit under way will *)
(* extend, the phone's -- is one the server has stored (or the empty one), *)
(* however fetches fail and edits overlap.                                 *)
(***************************************************************************)
MapsWereStored ==
    /\ \A d \in Devices : Overrides(d) \in versions
    /\ \A e \in edits : e.map \in versions
    /\ used \in versions /\ (cached # None => cached \in versions)

(***************************************************************************)
(* The two PUTs of an edit may be torn apart, but one way only: whatever   *)
(* is learned for a merchant was stored in a transaction of it before.     *)
(***************************************************************************)
OverrideFollowsEdit ==
    \A k \in DOMAIN config : <<k, config[k]>> \in written

(***************************************************************************)
(* A category edit changes no amount: what was stored with one still shows *)
(* it, after any number of edits from any stale list.                      *)
(***************************************************************************)
AmountsStay == \A t \in Filed : ShowsAmount(tx[t])

(***************************************************************************)
(* `Returns a safe fallback on decryption failure': a payload that does    *)
(* not decrypt now is not overwritten by what was shown in its place.      *)
(***************************************************************************)
SealedStays == \A t \in Filed : tx[t].kind # "blank"

(***************************************************************************)
(* `Future transactions from the same merchant are auto-categorized': a    *)
(* merchant once learned stays learned.                                    *)
(***************************************************************************)
LearnedStays == [][ DOMAIN config \subseteq DOMAIN config' ]_vars

(***************************************************************************)
(* `So the dashboard can distinguish keyword-matched and override-matched  *)
(* categories from manually set ones': a row shows the source the phone    *)
(* recorded.                                                               *)
(***************************************************************************)
SourceShown ==
    \A d \in Devices : rows[d] # None =>
        \A t \in DOMAIN rows[d] :
            rows[d][t].payload.source # None =>
                rows[d][t].source = rows[d][t].payload.source

\* The stored maps implement the history of whole-map writes.
History == INSTANCE OverrideHistory WITH config <- config, versions <- versions

HistorySpec == History!Spec
=============================================================================
