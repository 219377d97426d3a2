---------------------------- MODULE SyncHandlers ----------------------------
(***************************************************************************)
(* GET /v1/sync/export and POST /v1/sync/import.  An export is two         *)
(* separate SELECTs; an import is one INSERT per card, then one per        *)
(* transaction, with an in-memory map from the payload's original_id       *)
(* values to the ids the cards were stored under.                          *)
(***************************************************************************)
EXTENDS Store, Sequences

CONSTANTS
    Exporters,          \* bound: the exports in flight at once
    Importers,          \* bound: the imports in flight at once
    OriginalIds,        \* the ids a backup file uses for its cards
    MaxImport           \* bound: the entries of each array of a payload

ASSUME SyncAssumption == MaxImport \in Nat

VARIABLES
    exp,    \* exporter -> the export in flight
    imp     \* importer -> the import in flight

syncVars == <<storeVars, exp, imp>>

(***************************************************************************)
(* An entry of either array: for a card, its original_id; for a            *)
(* transaction, the original_id it names as card_id.  A loop iteration     *)
(* validates all of its entry before its INSERT and refuses with the same  *)
(* 422, so one flawed content stands for every flaw an entry can have.     *)
(***************************************************************************)
Entry == [orig: OriginalIds, data: Contents \cup {BadBase64}]

Export ==
    [ pc: {"cards", "txs", "done"},
      user: Users,
      known: 1..(MaxCards + 1),         \* nextCard when the cards were read
      cards: SUBSET CardIds,
      txs: SUBSET [id: TxIds, card: CardIds] ]

Import ==
    [ pc: {"cards", "txs", "done"},
      user: Users,
      cards: Seq(Entry),                \* payload.cards
      txs: Seq(Entry),                  \* payload.transactions
      idMap: UNION {[S -> CardIds] : S \in SUBSET OriginalIds},
      madeCards: Seq(CardIds),          \* the cards inserted so far
      madeTxs: Seq(TxIds),              \* the transactions inserted so far
      status: {0, 200, 422, 500} ]

SyncInit == exp = EmptyTable /\ imp = EmptyTable

(***************************************************************************)
(* export                                                                  *)
(***************************************************************************)
Exporting(e, pc) == e \in DOMAIN exp /\ exp[e].pc = pc

OwnedBy(table, u) == {k \in DOMAIN table : table[k].user = u}

StartExport(e, u) ==
    /\ e \in Exporters \ DOMAIN exp
    /\ exp' = Put(exp, e, [pc |-> "cards", user |-> u, known |-> 1,
                           cards |-> {}, txs |-> {}])
    /\ UNCHANGED <<storeVars, imp>>

ExportCards(e) ==
    /\ Exporting(e, "cards")
    /\ exp' = [exp EXCEPT ![e] =
         [ pc |-> "txs", user |-> @.user, known |-> nextCard,
           cards |-> OwnedBy(cards, @.user), txs |-> {} ]]
    /\ UNCHANGED <<storeVars, imp>>

ExportTxs(e) ==
    /\ Exporting(e, "txs")
    /\ exp' = [exp EXCEPT ![e] =
         [ pc |-> "done", user |-> @.user, known |-> @.known, cards |-> @.cards,
           txs |-> {[id |-> t, card |-> txs[t].card] : t \in OwnedBy(txs, @.user)} ]]
    /\ UNCHANGED <<storeVars, imp>>

\* The answer is sent, or the handler stops early; it wrote nothing anyway.
EndExport(e) ==
    /\ e \in DOMAIN exp
    /\ exp' = Without(exp, {e})
    /\ UNCHANGED <<storeVars, imp>>

(***************************************************************************)
(* import                                                                  *)
(***************************************************************************)
Importing(m, pc) == m \in DOMAIN imp /\ imp[m].pc = pc

\* Mutant: the card loop stops one short.
ImportPcOneShort(cs, ts, n, k) ==
    IF n + 1 < Len(cs) THEN "cards" ELSE IF k < Len(ts) THEN "txs" ELSE "done"

\* The statement an import waits at once n cards and k transactions are in.
ImportPc(cs, ts, n, k) ==
    IF n < Len(cs) THEN "cards" ELSE IF k < Len(ts) THEN "txs" ELSE "done"

StartImport(m, u, cs, ts) ==
    /\ m \in Importers \ DOMAIN imp
    /\ imp' = Put(imp, m,
         [ pc |-> ImportPc(cs, ts, 0, 0), user |-> u, cards |-> cs, txs |-> ts,
           idMap |-> EmptyTable, madeCards |-> << >>, madeTxs |-> << >>,
           status |-> IF cs = << >> /\ ts = << >> THEN 200 ELSE 0 ])
    /\ UNCHANGED <<storeVars, exp>>

\* The import with new locals: its user and payload never change.
ImportWith(r, pc, idMap, mc, mt, status) ==
    [ user |-> r.user, cards |-> r.cards, txs |-> r.txs, pc |-> pc,
      idMap |-> idMap, madeCards |-> mc, madeTxs |-> mt, status |-> status ]

ImportFails(m, status) ==
    /\ imp' = [imp EXCEPT ![m] =
         ImportWith(@, "done", @.idMap, @.madeCards, @.madeTxs, status)]
    /\ UNCHANGED <<storeVars, exp>>

\* The handler goes on, and returns as soon as nothing is left to insert.
ImportMoves(m, idMap, mc, mt) ==
    LET pc == ImportPc(imp[m].cards, imp[m].txs, Len(mc), Len(mt))
    IN  /\ imp' = [imp EXCEPT ![m] =
             ImportWith(@, pc, idMap, mc, mt, IF pc = "done" THEN 200 ELSE 0)]
        /\ UNCHANGED exp

NextCardEntry(m) == imp[m].cards[Len(imp[m].madeCards) + 1]
NextTxEntry(m) == imp[m].txs[Len(imp[m].madeTxs) + 1]

\* A later card with an original_id already seen overwrites its entry.
ImportCard(m) ==
    LET entry == NextCardEntry(m)
    IN  /\ Importing(m, "cards")
        /\ \/ /\ entry.data = BadBase64
              /\ ImportFails(m, 422)
           \/ /\ entry.data # BadBase64
              /\ CardCreate(imp[m].user, entry.data)
              /\ ImportMoves(m, Put(imp[m].idMap, entry.orig, nextCard),
                             Append(imp[m].madeCards, nextCard), imp[m].madeTxs)

\* Mutant: every transaction goes to the card inserted last.
IdMapLatest(m, o) == imp[m].madeCards[Len(imp[m].madeCards)]

IdMap(m, o) == imp[m].idMap[o]

ImportTx(m) ==
    LET entry == NextTxEntry(m)
        refused == entry.data = BadBase64 \/ entry.orig \notin DOMAIN imp[m].idMap
    IN  /\ Importing(m, "txs")
        /\ \/ /\ refused
              /\ ImportFails(m, 422)
           \/ /\ ~refused
              /\ ~ForeignKeyHolds(IdMap(m, entry.orig))
              /\ ImportFails(m, 500)
           \/ /\ ~refused
              /\ TxCreate(imp[m].user, IdMap(m, entry.orig), entry.data)
              /\ ImportMoves(m, imp[m].idMap, imp[m].madeCards,
                             Append(imp[m].madeTxs, nextTx))

\* The answer is sent, or the handler stops early and its rows stay.
EndImport(m) ==
    /\ m \in DOMAIN imp
    /\ imp' = Without(imp, {m})
    /\ UNCHANGED <<storeVars, exp>>

\* The arrays of a backup file.
Arrays == UNION {[1..n -> Entry] : n \in 0..MaxImport}

ExportStep(e) ==
    \/ \E u \in Users : StartExport(e, u)
    \/ ExportCards(e)
    \/ ExportTxs(e)
    \/ EndExport(e)

ImportStep(m) ==
    \/ \E u \in Users, cs, ts \in Arrays :
         StartImport(m, u, cs, ts)
    \/ ImportCard(m)
    \/ ImportTx(m)
    \/ EndImport(m)

SyncTypeOK ==
    /\ exp \in [DOMAIN exp -> Export]
    /\ DOMAIN exp \subseteq Exporters
    /\ imp \in [DOMAIN imp -> Import]
    /\ DOMAIN imp \subseteq Importers
=============================================================================
