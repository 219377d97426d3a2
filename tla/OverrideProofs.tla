-------------------------- MODULE OverrideProofs --------------------------
(***************************************************************************)
(* For any number of devices, transactions, merchants and categories, and  *)
(* however edits overlap, fail and are repeated: every map in use is one   *)
(* that was stored, and the stored maps implement OverrideHistory.         *)
(***************************************************************************)
EXTENDS CategoryOverrides, TLAPS

ShownRow(r) ==
    r.merchant \in Keys /\ r.payload \in Payloads

\* What a tab shows is of transactions that exist.
RowsSound ==
    \A d \in Devices : rows[d] # None =>
        DOMAIN rows[d] \subseteq Filed /\ \A t \in DOMAIN rows[d] : ShownRow(rows[d][t])

EditSound(e) ==
    /\ e.device \in Devices /\ e.tx \in Filed
    /\ e.merchant \in Keys /\ e.category \in Values
    /\ e.payload \in Payloads
    /\ e.map \in versions
    /\ e = [device |-> e.device, tx |-> e.tx, merchant |-> e.merchant,
            category |-> e.category, payload |-> e.payload, map |-> e.map,
            step |-> e.step]

EditsSound == \A e \in edits : EditSound(e)

TxSound == tx \in [Txs -> Payloads \cup {None}]

VersionsSound ==
    /\ \A m \in versions : IsMap(m)
    /\ NoOverrides \in versions /\ config \in versions

StateSound ==
    /\ loaded = [d \in Devices |-> loaded[d]]
    /\ rows = [d \in Devices |-> rows[d]]

OverrideInv ==
    /\ TxSound /\ RowsSound /\ EditsSound
    /\ VersionsSound /\ StateSound /\ MapsWereStored

-----------------------------------------------------------------------------
(* Maps and payloads *)

LEMMA AddedIsMap ==
    ASSUME NEW map, IsMap(map), NEW k \in Keys, NEW v \in Values
    PROVE  IsMap(AddOverride(map, k, v))
BY DEF IsMap, AddOverride

LEMMA NoOverridesIsMap == IsMap(NoOverrides)
BY DEF IsMap, NoOverrides

LEMMA LookupIsValue ==
    ASSUME NEW map, IsMap(map), NEW m, Lookup(map, m) # None
    PROVE  Lookup(map, m) \in Values
BY DEF IsMap, Lookup

LEMMA PayloadTyped ==
    ASSUME NEW k \in Kinds \cup {"json", "wrapped", "blank"},
           NEW c \in Categories \cup {Uncategorized},
           NEW s \in {None, "auto_learned"}
    PROVE  Payload(k, c, s) \in Payloads
BY DEF Payloads

\* What an edit stores of a row is a payload.
LEMMA UpdatedPayload ==
    ASSUME NEW p \in Payloads, NEW c \in Categories
    PROVE  UpdateCategory(p, c) \in Payloads
<1>1. PICK k \in Kinds \cup {"json", "wrapped", "blank"},
           c0 \in Categories \cup {Uncategorized},
           s \in {None, "auto_learned"} : p = Payload(k, c0, s)
  BY DEF Payloads
<1>2. [p EXCEPT !.category = c] = Payload(k, c, s)
  BY <1>1 DEF Payload
<1>3. /\ Payload("wrapped", c, None) \in Payloads
      /\ Payload("blank", c, None) \in Payloads
      /\ Payload(k, c, s) \in Payloads
  BY PayloadTyped
<1> QED
  BY <1>2, <1>3 DEF UpdateCategory

\* A row shows a merchant that can be a key.
LEMMA ShownTyped ==
    ASSUME NEW t \in Txs, NEW p \in Payloads, NEW map
    PROVE  ShownRow(Shown(t, p, map))
<1>1. MerchantOf[t] \in Keys /\ Garbled \in Keys /\ Unreadable \in Keys
  BY OverridesAssumption
<1>2. Shown(t, p, map).merchant \in {MerchantOf[t], Garbled, Unreadable}
      /\ Shown(t, p, map).payload = p
  BY DEF Shown
<1> QED
  BY <1>1, <1>2 DEF ShownRow

LEMMA FreshSound ==
    ASSUME TxSound, NEW d \in Devices
    PROVE  DOMAIN FreshRows(d) \subseteq Filed
           /\ \A t \in DOMAIN FreshRows(d) : ShownRow(FreshRows(d)[t])
<1>1. \A t \in Filed : t \in Txs /\ tx[t] \in Payloads
  BY DEF Filed, TxSound
<1> QED
  BY <1>1, ShownTyped DEF FreshRows

\* A map in use is a map.
LEMMA StoredMaps ==
    ASSUME OverrideInv
    PROVE  /\ \A d \in Devices : IsMap(Overrides(d))
           /\ \A e \in edits : IsMap(e.map)
           /\ IsMap(used) /\ IsMap(config)
           /\ cached # None => IsMap(cached)
BY DEF OverrideInv, VersionsSound, MapsWereStored

-----------------------------------------------------------------------------
LEMMA InitSound == Init => OverrideInv
<1> SUFFICES ASSUME Init PROVE OverrideInv
  OBVIOUS
<1>1. TxSound
  <2>1. \A k \in Kinds : Payload(k, Uncategorized, None) \in Payloads
    BY PayloadTyped
  <2> QED
    BY <2>1 DEF Init, TxSound
<1>2. VersionsSound
  BY NoOverridesIsMap DEF Init, VersionsSound
<1>3. MapsWereStored
  BY DEF Init, MapsWereStored, Overrides
<1> QED
  BY <1>1, <1>2, <1>3 DEF Init, OverrideInv, RowsSound, EditsSound, StateSound

\* What is kept although a transaction may be filed or changed, or a map stored.
LEMMA Growing ==
    ASSUME Filed \subseteq Filed', versions \subseteq versions',
           NEW e, EditSound(e)
    PROVE  EditSound(e)'
BY DEF EditSound

LEMMA RowsKept ==
    ASSUME RowsSound, Filed \subseteq Filed', UNCHANGED rows
    PROVE  RowsSound'
BY DEF RowsSound, ShownRow

\* A fetch of the map.
LEMMA LoadOverridesSound ==
    ASSUME OverrideInv, NEW d \in Devices, LoadOverrides(d)
    PROVE  OverrideInv'
<1>1. TxSound' /\ VersionsSound' /\ EditsSound'
  BY DEF OverrideInv, TxSound, VersionsSound, EditsSound, EditSound, Filed, IsMap, LoadOverrides
<1>2. RowsSound'
  BY DEF OverrideInv, RowsSound, ShownRow, Filed, LoadOverrides
<1>3. MapsWereStored'
  BY DEF OverrideInv, StateSound, VersionsSound, MapsWereStored, Overrides, LoadOverrides
<1> QED
  BY <1>1, <1>2, <1>3 DEF OverrideInv, StateSound, LoadOverrides

\* A fetch of the list.
LEMMA LoadRowsSound ==
    ASSUME OverrideInv, NEW d \in Devices, LoadRows(d)
    PROVE  OverrideInv'
<1>1. TxSound' /\ VersionsSound' /\ EditsSound'
  BY DEF OverrideInv, TxSound, VersionsSound, EditsSound, EditSound, Filed, IsMap, LoadRows
<1> DEFINE fresh == FreshRows(d)
<1>2. DOMAIN fresh \subseteq Filed /\ \A t \in DOMAIN fresh : ShownRow(fresh[t])
  BY FreshSound DEF OverrideInv
<1>3. rows' = [rows EXCEPT ![d] = fresh]
  BY DEF LoadRows
<1> HIDE DEF fresh
<1>4. RowsSound'
  BY <1>2, <1>3 DEF OverrideInv, StateSound, RowsSound, ShownRow, Filed, LoadRows
<1>5. MapsWereStored'
  BY DEF OverrideInv, MapsWereStored, Overrides, LoadRows
<1> QED
  BY <1>1, <1>3, <1>4, <1>5 DEF OverrideInv, StateSound, LoadRows

\* The edit takes its map, its row and its merchant from the screen.
LEMMA StartEditSound ==
    ASSUME OverrideInv, NEW d \in Devices, NEW t \in Txs, NEW c \in Categories,
           StartEdit(d, t, c)
    PROVE  OverrideInv'
<1> DEFINE e == Edit(d, t, c, Overrides(d))
<1>1. t \in Filed /\ ShownRow(rows[d][t])
  BY DEF OverrideInv, RowsSound, StartEdit
<1>2. c \in Values /\ Overrides(d) \in versions
  BY OverridesAssumption DEF OverrideInv, MapsWereStored
<1>3. UpdateCategory(rows[d][t].payload, c) \in Payloads
  BY <1>1, UpdatedPayload DEF ShownRow
<1>4. EditSound(e)
  BY <1>1, <1>2, <1>3 DEF EditSound, Edit, ShownRow
<1>5. edits' = edits \cup {e}
  BY DEF StartEdit
<1> HIDE DEF e
<1>6. EditsSound'
  BY <1>4, <1>5, Growing DEF OverrideInv, EditsSound, StartEdit, Filed
<1>7. MapsWereStored'
  BY <1>4, <1>5 DEF OverrideInv, MapsWereStored, Overrides, EditSound, StartEdit
<1>8. TxSound' /\ VersionsSound' /\ RowsSound' /\ StateSound'
  BY DEF OverrideInv, TxSound, VersionsSound, RowsSound, StateSound, ShownRow,
         Filed, IsMap, StartEdit
<1> QED
  BY <1>6, <1>7, <1>8 DEF OverrideInv

\* The edit goes on, or its answer was lost.
LEMMA EditGoesOn ==
    ASSUME OverrideInv, NEW e \in edits, NEW step,
           Goto(e, step) \/ edits' = edits \ {e},
           Filed \subseteq Filed', versions \subseteq versions'
    PROVE  EditsSound' /\ \A x \in edits' : x.map \in versions'
<1> DEFINE next == [e EXCEPT !.step = step]
<1>1. EditSound(e)
  BY DEF OverrideInv, EditsSound
<1>2. EditSound(next)
  BY <1>1 DEF EditSound
<1>3. edits' \subseteq edits \cup {next}
  BY DEF Goto
<1> HIDE DEF next
<1>4. \A x \in edits' : EditSound(x)
  BY <1>2, <1>3 DEF OverrideInv, EditsSound
<1>5. EditsSound'
  BY <1>4, Growing DEF EditsSound
<1> QED
  BY <1>4, <1>5 DEF EditSound

LEMMA FailSound ==
    ASSUME OverrideInv, NEW e \in edits, Fail(e)
    PROVE  OverrideInv'
<1>1. TxSound' /\ VersionsSound' /\ RowsSound' /\ StateSound'
  BY DEF OverrideInv, TxSound, VersionsSound, RowsSound, StateSound, ShownRow,
         Filed, IsMap, Fail
<1>2. EditsSound'
  BY Growing DEF OverrideInv, EditsSound, Fail, Filed
<1>3. MapsWereStored'
  BY DEF OverrideInv, MapsWereStored, Overrides, Fail
<1> QED
  BY <1>1, <1>2, <1>3 DEF OverrideInv

LEMMA PutTransactionSound ==
    ASSUME OverrideInv, NEW e \in edits, PutTransaction(e)
    PROVE  OverrideInv'
<1>1. e.tx \in Filed /\ e.payload \in Payloads
  BY DEF OverrideInv, EditsSound, EditSound
<1>2. Filed' = Filed /\ TxSound'
  BY <1>1, PayloadAssumption DEF OverrideInv, TxSound, Filed, PutTransaction
<1>3. EditsSound' /\ \A x \in edits' : x.map \in versions'
  BY <1>2, EditGoesOn DEF PutTransaction
<1>4. MapsWereStored'
  BY <1>3 DEF OverrideInv, MapsWereStored, Overrides, PutTransaction
<1>5. VersionsSound' /\ RowsSound' /\ StateSound'
  BY <1>2, RowsKept DEF OverrideInv, VersionsSound, StateSound, IsMap, PutTransaction
<1> QED
  BY <1>2, <1>3, <1>4, <1>5 DEF OverrideInv

\* The new version is a map, whichever version it extends.
LEMMA PutOverridesSound ==
    ASSUME OverrideInv, NEW e \in edits, PutOverrides(e)
    PROVE  OverrideInv'
<1> DEFINE map == AddOverride(e.map, e.merchant, e.category)
<1>1. e.merchant \in Keys /\ e.category \in Values
  BY DEF OverrideInv, EditsSound, EditSound
<1>2. IsMap(map)
  BY <1>1, StoredMaps, AddedIsMap
<1>3. config' = map /\ versions' = versions \cup {map}
  BY DEF PutOverrides, Save
<1> HIDE DEF map
<1>4. VersionsSound'
  BY <1>2, <1>3 DEF OverrideInv, VersionsSound, IsMap
<1>5. Filed' = Filed
  BY DEF Filed, PutOverrides
<1>6. EditsSound' /\ \A x \in edits' : x.map \in versions'
  BY <1>3, <1>5, EditGoesOn DEF PutOverrides
<1>7. MapsWereStored'
  BY <1>3, <1>6 DEF OverrideInv, MapsWereStored, Overrides, PutOverrides
<1>8. TxSound' /\ RowsSound' /\ StateSound'
  BY <1>5, RowsKept DEF OverrideInv, TxSound, StateSound, PutOverrides
<1> QED
  BY <1>4, <1>6, <1>7, <1>8 DEF OverrideInv

LEMMA RefetchSound ==
    ASSUME OverrideInv, NEW e \in edits, Refetch(e)
    PROVE  OverrideInv'
<1> DEFINE fresh == FreshRows(e.device)
<1>1. e.device \in Devices
  BY DEF OverrideInv, EditsSound, EditSound
<1>2. DOMAIN fresh \subseteq Filed /\ \A t \in DOMAIN fresh : ShownRow(fresh[t])
  BY <1>1, FreshSound DEF OverrideInv
<1>3. rows' \in {rows, [rows EXCEPT ![e.device] = fresh]}
  BY DEF Refetch
<1> HIDE DEF fresh
<1>4. RowsSound' /\ StateSound'
  BY <1>1, <1>2, <1>3 DEF OverrideInv, RowsSound, StateSound, ShownRow, Filed, Refetch
<1>5. EditsSound'
  BY Growing DEF OverrideInv, EditsSound, Refetch, Filed
<1>6. MapsWereStored'
  BY <1>1 DEF OverrideInv, StateSound, VersionsSound, MapsWereStored, Overrides, Refetch
<1>7. TxSound' /\ VersionsSound'
  BY DEF OverrideInv, TxSound, VersionsSound, IsMap, Refetch
<1> QED
  BY <1>4, <1>5, <1>6, <1>7 DEF OverrideInv

\* The phone works with a stored map, its cached one, or none.
LEMMA PhoneLoads ==
    ASSUME OverrideInv, PhoneLoad
    PROVE  used' \in versions /\ (cached' # None => cached' \in versions)
BY DEF OverrideInv, VersionsSound, MapsWereStored, PhoneLoad

LEMMA PhoneFilesSound ==
    ASSUME OverrideInv, NEW t \in Txs, PhoneFiles(t)
    PROVE  OverrideInv'
<1>1. used' \in versions /\ (cached' # None => cached' \in versions)
  BY PhoneLoads DEF PhoneFiles
<1> DEFINE learned == Lookup(used', MerchantOf[t])
           p == IF learned = None THEN Payload("json", Uncategorized, None)
                ELSE Payload("json", learned, "auto_learned")
<1>2. learned # None => learned \in Categories
  BY <1>1, LookupIsValue, OverridesAssumption DEF OverrideInv, VersionsSound
<1>3. p \in Payloads
  BY <1>2, PayloadTyped
<1>4. tx' = [tx EXCEPT ![t] = p]
  BY DEF PhoneFiles
<1> HIDE DEF p, learned
<1>5. TxSound' /\ Filed \subseteq Filed'
  BY <1>3, <1>4, PayloadAssumption DEF OverrideInv, TxSound, Filed
<1>6. EditsSound' /\ RowsSound'
  BY <1>5, Growing, RowsKept DEF OverrideInv, EditsSound, PhoneFiles
<1>7. MapsWereStored'
  BY <1>1 DEF OverrideInv, MapsWereStored, Overrides, PhoneFiles
<1>8. VersionsSound' /\ StateSound'
  BY DEF OverrideInv, VersionsSound, StateSound, IsMap, PhoneFiles
<1> QED
  BY <1>5, <1>6, <1>7, <1>8 DEF OverrideInv

LEMMA OverrideStep == OverrideInv /\ [Next]_vars => OverrideInv'
<1> SUFFICES ASSUME OverrideInv, [Next]_vars PROVE OverrideInv'
  OBVIOUS
<1>1. CASE \E d \in Devices : LoadOverrides(d)
  BY <1>1, LoadOverridesSound
<1>2. CASE \E d \in Devices : LoadRows(d)
  BY <1>2, LoadRowsSound
<1>3. CASE \E d \in Devices, t \in Txs, c \in Categories : StartEdit(d, t, c)
  BY <1>3, StartEditSound
<1>4. CASE \E e \in edits : PutTransaction(e)
  BY <1>4, PutTransactionSound
<1>5. CASE \E e \in edits : PutOverrides(e)
  BY <1>5, PutOverridesSound
<1>6. CASE \E e \in edits : Refetch(e)
  BY <1>6, RefetchSound
<1>7. CASE \E e \in edits : Fail(e)
  BY <1>7, FailSound
<1>8. CASE \E t \in Txs : PhoneFiles(t)
  BY <1>8, PhoneFilesSound
<1>9. CASE UNCHANGED vars
  <2>1. TxSound' /\ RowsSound' /\ EditsSound' /\ VersionsSound' /\ StateSound'
    BY <1>9 DEF OverrideInv, TxSound, RowsSound, EditsSound, EditSound, VersionsSound,
                StateSound, ShownRow, Filed, IsMap, vars
  <2>2. MapsWereStored'
    BY <1>9 DEF OverrideInv, MapsWereStored, Overrides, vars
  <2> QED
    BY <2>1, <2>2 DEF OverrideInv
<1> QED
  BY <1>1, <1>2, <1>3, <1>4, <1>5, <1>6, <1>7, <1>8, <1>9 DEF Next, Step

LEMMA OverrideInvHolds == Spec => []OverrideInv
BY InitSound, OverrideStep, PTL DEF Spec

(***************************************************************************)
(* Everybody works with a map the server has stored, or with none.         *)
(***************************************************************************)
THEOREM OverridesWereStored == Spec => []MapsWereStored
<1>1. OverrideInv => MapsWereStored
  BY DEF OverrideInv
<1> QED
  BY <1>1, OverrideInvHolds, PTL

-----------------------------------------------------------------------------
(* What was learned was stored in a transaction first: true of every map   *)
(* anybody can still save, because a map in use is one that was stored.    *)

FromWritten(map) == \A k \in DOMAIN map : <<k, map[k]>> \in written

LearnedInv ==
    /\ \A m \in versions : FromWritten(m)
    /\ \A e \in edits : e.step = "overrides" => <<e.merchant, e.category>> \in written

\* Maps and edits keep what was written for them as more is written.
LEMMA WrittenGrows ==
    ASSUME LearnedInv, written \subseteq written', versions' = versions,
           \A e \in edits' : e \in edits \/ e.step # "overrides"
    PROVE  LearnedInv'
  BY DEF LearnedInv, FromWritten

\* The first PUT writes what the second one may then learn.
LEMMA TransactionFirst ==
    ASSUME OverrideInv, LearnedInv, NEW e \in edits, PutTransaction(e)
    PROVE  LearnedInv'
<1> DEFINE next == [e EXCEPT !.step = "overrides"]
<1>1. EditSound(e)
  BY DEF OverrideInv, EditsSound
<1>2. next.merchant = e.merchant /\ next.category = e.category
  BY <1>1 DEF EditSound
<1>3. edits' \subseteq edits \cup {next}
  BY DEF PutTransaction, Goto
<1>4. written' = written \cup {<<e.merchant, e.category>>} /\ versions' = versions
  BY DEF PutTransaction
<1> HIDE DEF next
<1>5. \A m \in versions' : FromWritten(m)'
  BY <1>4 DEF LearnedInv, FromWritten
<1>6. \A x \in edits' : x.step = "overrides" => <<x.merchant, x.category>> \in written'
  BY <1>2, <1>3, <1>4 DEF LearnedInv
<1> QED
  BY <1>5, <1>6 DEF LearnedInv

\* The second PUT adds what the first one wrote to a stored map.
LEMMA OverrideSecond ==
    ASSUME OverrideInv, LearnedInv, NEW e \in edits, PutOverrides(e)
    PROVE  LearnedInv'
<1> DEFINE next == [e EXCEPT !.step = "refetch"]
           map == AddOverride(e.map, e.merchant, e.category)
<1>1. EditSound(e)
  BY DEF OverrideInv, EditsSound
<1>2. next.step = "refetch"
  BY <1>1 DEF EditSound
<1>3. edits' \subseteq edits \cup {next}
  BY DEF PutOverrides, Goto
<1>4. written' = written /\ versions' = versions \cup {map}
  BY DEF PutOverrides, Save
<1>5. FromWritten(e.map) /\ <<e.merchant, e.category>> \in written
  BY <1>1 DEF LearnedInv, EditSound, PutOverrides
<1>6. FromWritten(map)
  BY <1>5 DEF FromWritten, AddOverride
<1> HIDE DEF next, map
<1>7. \A m \in versions' : FromWritten(m)'
  BY <1>4, <1>6 DEF LearnedInv, FromWritten
<1>8. \A x \in edits' : x.step = "overrides" => <<x.merchant, x.category>> \in written'
  BY <1>2, <1>3, <1>4 DEF LearnedInv
<1> QED
  BY <1>7, <1>8 DEF LearnedInv

LEMMA LearnedStep == OverrideInv /\ LearnedInv /\ [Next]_vars => LearnedInv'
<1> SUFFICES ASSUME OverrideInv, LearnedInv, [Next]_vars PROVE LearnedInv'
  OBVIOUS
<1>1. CASE \E e \in edits : PutTransaction(e)
  BY <1>1, TransactionFirst
<1>2. CASE \E e \in edits : PutOverrides(e)
  BY <1>2, OverrideSecond
<1>3. CASE \E d \in Devices, t \in Txs, c \in Categories : StartEdit(d, t, c)
  <2>1. \A e \in edits' : e \in edits \/ e.step = "transaction"
    BY <1>3 DEF StartEdit, Edit
  <2> QED
    BY <1>3, <2>1, WrittenGrows DEF StartEdit
<1>4. CASE UNCHANGED <<written, versions>> /\ edits' \subseteq edits
  BY <1>4, WrittenGrows
<1>5. \/ \E e \in edits : PutTransaction(e) \/ PutOverrides(e)
      \/ \E d \in Devices, t \in Txs, c \in Categories : StartEdit(d, t, c)
      \/ UNCHANGED <<written, versions>> /\ edits' \subseteq edits
  BY DEF Next, Step, vars, LoadOverrides, LoadRows, Refetch, Fail, PhoneFiles
<1> QED
  BY <1>1, <1>2, <1>3, <1>4, <1>5

(***************************************************************************)
(* However edits are torn apart, overlap and save maps over one another:   *)
(* whatever the phone can learn was stored in a transaction of that        *)
(* merchant first (handleCategoryUpdate awaits the first PUT).             *)
(***************************************************************************)
THEOREM OverridesFollowEdits == Spec => []OverrideFollowsEdit
<1>1. Init => LearnedInv
  BY DEF Init, LearnedInv, FromWritten, NoOverrides
<1>2. OverrideInv /\ LearnedInv => OverrideFollowsEdit
  BY DEF OverrideInv, VersionsSound, LearnedInv, FromWritten, OverrideFollowsEdit
<1> QED
  BY <1>1, <1>2, LearnedStep, OverrideInvHolds, PTL DEF Spec

(***************************************************************************)
(* Maps and payloads keep their form.                                      *)
(***************************************************************************)
THEOREM OverridesType == Spec => []TypeOK
<1>1. OverrideInv => TypeOK
  <2> SUFFICES ASSUME OverrideInv PROVE TypeOK
    OBVIOUS
  <2>1. \A d \in Devices : loaded[d] # None => IsMap(loaded[d])
    BY StoredMaps DEF Overrides
  <2>2. \A e \in edits : e.tx \in Filed
    BY DEF OverrideInv, EditsSound, EditSound
  <2> QED
    BY <2>1, <2>2, StoredMaps DEF OverrideInv, TxSound, TypeOK
<1> QED
  BY <1>1, OverrideInvHolds, PTL

-----------------------------------------------------------------------------
(* Refinement *)

\* Only the second PUT of an edit changes the stored map.
LEMMA StepImplementsHistory ==
    ASSUME OverrideInv, [Next]_vars
    PROVE  [History!Next]_<<config, versions>>
<1>1. CASE \E e \in edits : PutOverrides(e)
  <2>1. PICK e \in edits : PutOverrides(e)
    BY <1>1
  <2>2. e.map \in versions /\ e.merchant \in Keys /\ e.category \in Values
    BY DEF OverrideInv, EditsSound, EditSound
  <2>3. History!Extend(e.map, e.merchant, e.category)
    BY <2>1 DEF PutOverrides, Save, AddOverride, History!Extend, History!Added
  <2> QED
    BY <2>2, <2>3 DEF History!Next
<1>2. CASE UNCHANGED <<config, versions>>
  BY <1>2
<1>3. (\E e \in edits : PutOverrides(e)) \/ UNCHANGED <<config, versions>>
  BY DEF Next, Step, vars, LoadOverrides, LoadRows, StartEdit, PutTransaction,
         Refetch, Fail, PhoneFiles
<1> QED
  BY <1>1, <1>2, <1>3

(***************************************************************************)
(* The server's overrides, with all the tabs, failures and phones around   *)
(* them, are a history in which each map extends some earlier one by the   *)
(* entry of one edit.                                                      *)
(***************************************************************************)
THEOREM OverridesImplementHistory == Spec => HistorySpec
<1>1. Init => History!Init
  BY DEF Init, History!Init, NoOverrides, History!Nothing
<1> QED
  BY <1>1, StepImplementsHistory, OverrideInvHolds, PTL DEF Spec, HistorySpec, History!Spec
=============================================================================
